--------------------------- MODULE AnalysisProofs ---------------------------
(***************************************************************************)
(* Theorems about Analysis.                                                *)
(***************************************************************************)
EXTENDS Analysis, TLAPS, FiniteSetTheorems, SequenceTheorems, WellFoundedInduction

-----------------------------------------------------------------------------
(* The inductive invariant, part by part.                                  *)
Phases  == {"idle", "gated", "ingest", "trace", "done", "snapshotted", "audited", "failed"}
Working == scan.phase \notin {"idle", "gated"}
Crawled == Working /\ scan.phase # "ingest"
Judged  == scan.phase \in {"done", "snapshotted", "audited", "failed"}

Ids == {a.id : a \in scan.assets}

(* What a workspace keeps: its parts, and the paths of its files.          *)
Given ==
  /\ \E w \in Workspaces :
       /\ ws = [unity |-> w.unity, custom |-> w.custom,
                animoriaignore |-> w.animoriaignore, args |-> w.args,
                bound |-> w.bound, files |-> w.disk]
       /\ config \in {w.config, Broken}
       /\ edits = 0 => config = w.config
  /\ scans \in Nat /\ edits \in Nat /\ kills \in Nat /\ faults \in Nat

(* A file changes in its lines only, or goes.                              *)
Version(k, f) ==
  f.lines \in Seq(LineType) /\ f = [ws.files[k] EXCEPT !.lines = f.lines]

OnDisk ==
  /\ disk = [k \in DOMAIN ws.files |-> disk[k]]
  /\ \A k \in DOMAIN ws.files : disk[k] = None \/ Version(k, disk[k])
  /\ edits = 0 => Present = DOMAIN ws.files

(* The record of the analysis.                                             *)
Born(a) ==
  a.id \in DOMAIN ws.files /\ a = [AssetOf(a.id, ws.files[a.id]) EXCEPT !.hash = a.hash]

Shape(r) ==
  r = [phase |-> r.phase, by |-> r.by, policy |-> r.policy, ci |-> r.ci,
       patterns |-> r.patterns, found |-> r.found, todo |-> r.todo,
       sources |-> r.sources, assets |-> r.assets, incomplete |-> r.incomplete,
       groups |-> r.groups, refs |-> r.refs, diags |-> r.diags, report |-> r.report,
       state |-> r.state]

IsScan == Shape(scan)

Contents ==
  /\ IsFiniteSet(scan.found) /\ IsFiniteSet(scan.assets) /\ IsFiniteSet(scan.diags)
  /\ scan.todo \subseteq scan.found
  /\ \A c \in scan.found :
       c.id \in DOMAIN ws.files /\ c = [id |-> c.id, ext |-> ws.files[c.id].ext]
  /\ \A a \in scan.assets : Born(a)
  /\ scan.incomplete \in Nat /\ scan.report.score \in 0 .. 100

Stages ==
  /\ scan.phase \in Phases /\ scan.by \in {None, "daemon", "check"}
  /\ scan.phase = "idle" => scan = NoScan
  /\ scan.phase = "gated" => scan = [NoScan EXCEPT !.phase = "gated", !.ci = scan.ci]
  /\ Working => scan.by \in {"daemon", "check"}
  /\ scan.phase # "idle" => scans >= 1
  /\ scan.phase \in {"snapshotted", "audited", "failed"} => scan.by = "daemon"
  /\ scan.phase = "gated" \/ (Working /\ scan.by = "check") => scan.ci \in GateType

ScanTyped == IsScan /\ Contents /\ Stages /\ exit \in {None, 0, 1, 2}

(* The rules the analysis began with end with those of .animoriaignore,    *)
(* and are those of the policy it read.                                    *)
AnyPattern ==
  PatternType \cup {Exclude(TRUE, <<"Library">>), Exclude(TRUE, <<"Temp">>),
                    Include(FALSE, <<"docs">>), Include(FALSE, <<"doc">>)}

RulesFixed ==
  Working => /\ \E first \in Seq(AnyPattern) :
                  scan.patterns = DefaultRules \o (first \o ws.animoriaignore)
             /\ edits = 0 => scan.policy = Load(config)

(* What was found, what it became, and what is left to look at.            *)
FoundAll ==
  /\ \A c \in scan.found : IsCandidate(scan.patterns, ws.files[c.id])
  /\ Working => \A k \in Present :
       ws.files[k].format # "none" /\ IsCandidate(scan.patterns, ws.files[k])
         => [id |-> k, ext |-> ws.files[k].ext] \in scan.found
  /\ \A a \in scan.assets :
       /\ ws.files[a.id].format # "none"
       /\ [id |-> a.id, ext |-> ws.files[a.id].ext] \in scan.found \ scan.todo
  /\ \A c \in scan.found \ scan.todo :
       \/ c.id \in Ids
       \/ ws.files[c.id].format = "none"
       \/ disk[c.id] = None /\ (c.ext = "json" \/ scan.incomplete > 0)
  /\ scan.phase # "ingest" => scan.todo = {}
  /\ scan.phase = "ingest" => \A a \in scan.assets : a.hash = None
  /\ \A a, b \in scan.assets : a.id = b.id => a = b
  /\ Judged /\ scan.state = "Ready" => scan.incomplete = 0

(* A source is no asset, and is looked at; a reference is on a line of one.*)
SourceKey(k) == k \in DOMAIN ws.files /\ ws.files[k].format = "none"

Reference(r) ==
  /\ r = [asset |-> r.asset, file |-> r.file, line |-> r.line, content |-> r.content,
          confidence |-> r.confidence]
  /\ r.content \in LineType
  /\ r.file = ConfigFile \/ SourceKey(r.file)

Traces ==
  /\ \A k \in scan.sources : SourceKey(k) /\ Visible(scan.patterns, ws.files[k])
  /\ \A r \in scan.refs :
       /\ Reference(r) /\ r.asset \in Ids
       /\ r.file # ConfigFile => Visible(scan.patterns, ws.files[r.file])

SourcesAreNoAssets ==
  /\ Traces
  /\ index # None => /\ \A r \in index.refs : Reference(r)
                     /\ \A a \in index.assets : Born(a)

(* What the analysis says, it says of the groups it made and of the policy *)
(* it read; an .svg is read once more.                                     *)
JudgedAsRead ==
  /\ Crawled => scan.groups = GroupsOf(scan.assets)
  /\ Judged => \E seen :
       /\ scan.diags = Diagnostics(scan.policy, seen, scan.assets, scan.groups, scan.refs)
       /\ edits = 0 => \A k \in DOMAIN ws.files :
                         seen[k] # None /\ seen[k].unsafe = ws.files[k].unsafe

(* A line to be rewritten holds a name, and is the one that was read.      *)
RewritesHeld ==
  /\ \A p \in plan.proposals :
       /\ p = [file |-> p.file, line |-> p.line, original |-> p.original,
               proposed |-> p.proposed]
       /\ p.original \in LineType /\ p.original.words # <<>> /\ p.proposed \in LineType
  /\ rewrite # None =>
       LET p == rewrite.proposal IN
       /\ p.original # EditedLine /\ p.proposed \in LineType
       /\ SourceKey(p.file) /\ Version(p.file, rewrite.read)
       /\ R!StillThere(rewrite.read.lines, p)

(* Snapshots and audit events are of scans in their order.                 *)
Snaps == history.snaps

Growing(s) == \A i, j \in DOMAIN s : i < j => s[i] < s[j]

Recorded(m) ==
  /\ history = [snaps |-> Snaps, log |-> history.log, old |-> history.old,
                torn |-> history.torn]
  /\ Snaps \in Seq(1 .. m) /\ recorded \in Seq(1 .. m) /\ Growing(Snaps)

StoryTold ==
  /\ Recorded(scans)
  /\ scan.phase \in {"gated", "ingest", "trace", "done"} =>
       scans \notin Range(Snaps) /\ scans \notin Range(recorded)
  /\ scan.phase = "snapshotted" => scans \in Range(Snaps) \cup unsaved
  /\ AuditedHasSnapshot

AnalysisInv ==
  /\ Given /\ OnDisk /\ ScanTyped /\ RulesFixed /\ FoundAll /\ SourcesAreNoAssets
  /\ JudgedAsRead /\ RewritesHeld /\ StoryTold

-----------------------------------------------------------------------------
(* Sets of naturals have a least element, and a greatest if they are       *)
(* bounded.                                                                *)
LEMMA LeastNatural ==
  ASSUME NEW T, T \subseteq Nat, T # {}
  PROVE  \E x \in T : \A y \in T : x <= y
<1>1. PICK x \in T : \A y \in T : <<y, x>> \notin OpToRel(<, Nat)
  BY NatLessThanWellFounded, WFMin, Zenon
<1>2. \A y \in Nat : y < x => <<y, x>> \in OpToRel(<, Nat)
  BY Zenon DEF OpToRel
<1>3. \A y \in T : ~ (y < x)
  BY <1>1, <1>2, Zenon
<1> QED BY <1>3

LEMMA MinOf ==
  ASSUME NEW T, T \subseteq Nat, T # {}
  PROVE  Min(T) \in T /\ \A y \in T : Min(T) <= y
<1> QED BY LeastNatural DEF Min

LEMMA MaxOf ==
  ASSUME NEW T, NEW n \in Nat, T \subseteq 0 .. n, T # {}
  PROVE  Max(T) \in T /\ \A y \in T : Max(T) >= y
<1> DEFINE U == {n - t : t \in T}
<1>1. U \subseteq Nat /\ U # {}
  <2>1. U \subseteq Nat
    OBVIOUS
  <2>2. U # {}
    OBVIOUS
  <2> QED BY <2>1, <2>2
<1>2. PICK u \in U : \A y \in U : u <= y
  <2> HIDE DEF U
  <2> QED BY <1>1, LeastNatural
<1>3. PICK t \in T : u = n - t
  BY <1>2
<1>4. \A y \in T : u <= n - y
  BY <1>2
<1>5. \A y \in T : t >= y
  BY <1>3, <1>4
<1> QED BY <1>5 DEF Max

(* What Combined makes of two lists of patterns is one: the function in its*)
(* definition is defined, step by step, on the whole of the second list.   *)
LEMMA CombinedIsSeq ==
  ASSUME NEW S, NEW p \in Seq(S), NEW m \in Seq(S)
  PROVE  Combined(p, m) \in Seq(S)
<1> DEFINE Next1(w, i) == IF m[i] \in Range(w) THEN w ELSE Append(w, m[i])
           Body(g, n) == [i \in 0 .. n |-> IF i = 0 THEN p ELSE Next1(g[i - 1], i)]
           Good(n) == \E g \in [0 .. n -> Seq(S)] : g = Body(g, n)
           Bad == {n \in 0 .. Len(m) : ~Good(n)}
<1>1. Bad = {}
  <2> SUFFICES ASSUME Bad # {} PROVE FALSE
    OBVIOUS
  <2>1. PICK n \in Bad : \A k \in Bad : n <= k
    <3>1. Bad \subseteq Nat
      OBVIOUS
    <3> HIDE DEF Bad
    <3> QED BY <3>1, LeastNatural
  <2>2. Good(0)
    <3> DEFINE g == [i \in 0 .. 0 |-> p]
    <3> g = Body(g, 0) /\ g \in [0 .. 0 -> Seq(S)]
      OBVIOUS
    <3> QED OBVIOUS
  <2>3. n # 0 /\ n \in 1 .. Len(m)
    <3>1. n \in 0 .. Len(m) /\ ~ Good(n)
      OBVIOUS
    <3> HIDE DEF Good, Bad
    <3> QED BY <2>2, <3>1
  <2>4. Good(n - 1)
    <3>1. n - 1 \in 0 .. Len(m) /\ ~ (n <= n - 1)
      BY <2>3
    <3>2. \A k \in 0 .. Len(m) : k \notin Bad => Good(k)
      OBVIOUS
    <3> HIDE DEF Good, Bad
    <3> QED BY <2>1, <3>1, <3>2
  <2>5. PICK g \in [0 .. n - 1 -> Seq(S)] : g = Body(g, n - 1)
    BY <2>4
  <2>6. g[n - 1] \in Seq(S) /\ m[n] \in S
    BY <2>3
  <2>7. Next1(g[n - 1], n) \in Seq(S)
    BY <2>6
  <2> DEFINE h == [i \in 0 .. n |-> IF i = n THEN Next1(g[n - 1], n) ELSE g[i]]
  <2>8. h \in [0 .. n -> Seq(S)]
    BY <2>7, <2>3
  <2>9. ASSUME NEW i \in 0 .. n PROVE h[i] = IF i = 0 THEN p ELSE Next1(h[i - 1], i)
    <3>1. CASE i = n
      BY <3>1, <2>3
    <3>2. CASE i # n
      <4>1. i \in 0 .. n - 1
        BY <3>2, <2>3
      <4>2. g[i] = IF i = 0 THEN p ELSE Next1(g[i - 1], i)
        BY <4>1, <2>5
      <4>3. i = 0 \/ (h[i - 1] = g[i - 1])
        BY <4>1, <2>3
      <4>4. h[i] = g[i]
        BY <3>2
      <4> HIDE DEF h
      <4> QED BY <4>2, <4>3, <4>4
    <3> QED BY <3>1, <3>2
  <2>10. h = Body(h, n)
    <3> h = [i \in 0 .. n |-> h[i]]
      OBVIOUS
    <3> HIDE DEF h
    <3> QED BY <2>9
  <2>11. Good(n)
    BY <2>8, <2>10
  <2> QED BY <2>11
<1>2. Good(Len(m))
  <2>1. \A k \in 0 .. Len(m) : k \notin Bad => Good(k)
    OBVIOUS
  <2> HIDE DEF Good, Bad
  <2> QED BY <1>1, <2>1
<1>3. PICK f : f = Body(f, Len(m))
  BY <1>2
<1> DEFINE w == CHOOSE f1 : f1 = Body(f1, Len(m))
<1>4. w = Body(w, Len(m))
  BY <1>3
<1>5. Combined(p, m) = w[Len(m)]
  BY DEF Combined
<1> HIDE DEF w
<1> DEFINE Off == {i \in 0 .. Len(m) : w[i] \notin Seq(S)}
<1>6. Off = {}
  <2> SUFFICES ASSUME Off # {} PROVE FALSE
    OBVIOUS
  <2>1. PICK n \in Off : \A k \in Off : n <= k
    <3>1. Off \subseteq Nat
      OBVIOUS
    <3> HIDE DEF Off
    <3> QED BY <3>1, LeastNatural
  <2>2. w[n] = IF n = 0 THEN p ELSE Next1(w[n - 1], n)
    BY <1>4
  <2>3. n # 0
    BY <2>2
  <2>4. n - 1 \in 0 .. Len(m) /\ w[n - 1] \in Seq(S)
    BY <2>1, <2>3
  <2>5. m[n] \in S /\ w[n] \notin Seq(S)
    BY <2>3
  <2>6. \A v \in Seq(S) : Next1(v, n) \in Seq(S)
    BY <2>5
  <2> HIDE DEF Next1, Off
  <2> QED BY <2>2, <2>3, <2>4, <2>5, <2>6
<1> QED BY <1>5, <1>6
-----------------------------------------------------------------------------
(* Policies.  A policy has a section for every rule, and what the           *)
(* configuration says of files, gates and overrides ends up in it.         *)
Sections == {"unref", "dup", "size", "dims", "formats", "gif", "naming", "svg", "ci",
             "files", "tracing", "overrides"}

IsPolicy(p) ==
  /\ DOMAIN p = Sections
  /\ "on" \in DOMAIN p.unref /\ "on" \in DOMAIN p.dup /\ "max" \in DOMAIN p.size
  /\ "w" \in DOMAIN p.dims /\ "h" \in DOMAIN p.dims /\ "allowed" \in DOMAIN p.formats
  /\ "on" \in DOMAIN p.gif /\ "case" \in DOMAIN p.naming /\ "on" \in DOMAIN p.svg
  /\ "docs" \in DOMAIN p.files /\ "ignoreSources" \in DOMAIN p.tracing

LEMMA DefaultIsPolicy ==
  /\ IsPolicy(DefaultPolicy) /\ DefaultPolicy.overrides = <<>>
  /\ DefaultPolicy.ci \in GateType /\ DefaultPolicy.files.ignore = <<>>
  /\ DefaultPolicy.dup.on /\ ~DefaultPolicy.dup.icons /\ DefaultPolicy.dup.ignore = <<>>
<1> QED BY DEF DefaultPolicy, IsPolicy, Sections, RefRule, GateType, Maybe

LEMMA PresetIsPolicy ==
  ASSUME NEW name
  PROVE  /\ IsPolicy(Preset(name)) /\ Preset(name).overrides = <<>>
         /\ Preset(name).ci \in GateType
<1> DEFINE D == DefaultPolicy
<1>1. /\ IsPolicy(D) /\ D.overrides = <<>> /\ D.ci \in GateType
  BY DefaultIsPolicy
<1>2. CASE name = "strict"
  <2> DEFINE p == [D EXCEPT
            !.unref.sev = "error", !.size = [max |-> 256, sev |-> "error"],
            !.dims = [w |-> 2560, h |-> 1440, sev |-> "error"],
            !.gif = [on |-> TRUE, sev |-> "error"], !.naming.case = "kebab",
            !.naming.sev = "error", !.ci = [minScore |-> 90, maxWarnings |-> 0]]
  <2>1. Preset(name) = p
    BY <1>2 DEF Preset
  <2> HIDE DEF D
  <2>2. IsPolicy(p) /\ p.overrides = D.overrides
    BY <1>1 DEF IsPolicy, Sections
  <2>3. p.ci = [minScore |-> 90, maxWarnings |-> 0]
    BY <1>1 DEF IsPolicy, Sections
  <2> HIDE DEF p
  <2>4. p.ci \in GateType
    BY <2>3 DEF GateType, Maybe
  <2> QED BY <1>1, <2>1, <2>2, <2>4
<1>3. CASE name = "relaxed"
  <2> DEFINE p == [D EXCEPT
            !.unref.on = FALSE, !.dup.sev = "warning", !.dup.icons = TRUE,
            !.size.max = 2048, !.svg.sev = "warning"]
  <2>1. Preset(name) = p
    BY <1>3 DEF Preset
  <2> HIDE DEF D
  <2>2. IsPolicy(p) /\ p.overrides = D.overrides /\ p.ci = D.ci
    BY <1>1 DEF IsPolicy, Sections
  <2> QED BY <1>1, <2>1, <2>2
<1>4. CASE name = "recommended"
  <2> DEFINE p == [D EXCEPT !.unref.icons = TRUE, !.dup.icons = TRUE, !.gif.on = TRUE]
  <2>1. Preset(name) = p
    BY <1>4 DEF Preset
  <2> HIDE DEF D
  <2>2. IsPolicy(p) /\ p.overrides = D.overrides /\ p.ci = D.ci
    BY <1>1 DEF IsPolicy, Sections
  <2> QED BY <1>1, <2>1, <2>2
<1>5. CASE name \notin {"strict", "relaxed", "recommended"}
  BY <1>5, DefaultIsPolicy DEF Preset
<1> QED BY <1>2, <1>3, <1>4, <1>5

(* Rules write their own sections.                                         *)
LEMMA RulesKeepPolicy ==
  ASSUME NEW p, IsPolicy(p), NEW rules
  PROVE  /\ DOMAIN ApplyRules(p, rules) = Sections
         /\ ApplyRules(p, rules).ci = p.ci /\ ApplyRules(p, rules).files = p.files
         /\ ApplyRules(p, rules).overrides = p.overrides
<1> QED BY DEF ApplyRules, IsPolicy, Sections

Off(p) ==
  /\ p.overrides = <<>> /\ ~p.unref.on /\ ~p.dup.on /\ p.size.max = None
  /\ p.dims.w = None /\ p.dims.h = None /\ p.formats.allowed = None /\ ~p.gif.on
  /\ p.naming.case = None /\ ~p.svg.on

LEMMA OffIsOff ==
  ASSUME NEW p, IsPolicy(p), p.overrides = <<>>
  PROVE  /\ Off(GovernanceOffPolicy(p)) /\ GovernanceOffPolicy(p).files = p.files
         /\ GovernanceOffPolicy(p).ci = p.ci
<1> DEFINE q == GovernanceOffPolicy(p)
<1>1. q.files = p.files /\ q.ci = p.ci /\ q.overrides = p.overrides
  BY DEF GovernanceOffPolicy, IsPolicy, Sections
<1>2. ~q.unref.on /\ ~q.dup.on
  BY DEF GovernanceOffPolicy, IsPolicy, Sections
<1>3. q.size.max = None /\ q.dims.w = None /\ q.dims.h = None
  BY DEF GovernanceOffPolicy, IsPolicy, Sections
<1>4. q.formats.allowed = None /\ ~q.gif.on
  BY DEF GovernanceOffPolicy, IsPolicy, Sections
<1>5. q.naming.case = None /\ ~q.svg.on
  BY DEF GovernanceOffPolicy, IsPolicy, Sections
<1> HIDE DEF q
<1>6. Off(q)
  BY <1>1, <1>2, <1>3, <1>4, <1>5 DEF Off
<1> QED BY <1>1, <1>6 DEF q

LEMMA GatesAreGates ==
  ASSUME NEW first \in GateType, NEW second \in GateType
  PROVE  EitherGate(first, second) \in GateType
<1> QED BY DEF EitherGate, GateType

(* The policy before its rules, as ParseConfig has it.                     *)
BasePolicy(raw) ==
  [Preset(raw.extends) EXCEPT
     !.files   = [ignore |-> raw.ignore, docs |-> raw.docs],
     !.tracing = raw.tracing,
     !.ci      = EitherGate(IF raw.govCi = None THEN @ ELSE raw.govCi, raw.ci)]

RuledPolicy(raw) ==
  ApplyRules([BasePolicy(raw) EXCEPT !.files.docs = @ \/ raw.scanDocs],
             raw.govRules @@ raw.rules)

LEMMA ParsedIs ==
  ASSUME NEW raw
  PROVE  ParseConfig(raw) = IF raw.enabled THEN WithOverrides(RuledPolicy(raw), raw.overrides)
                            ELSE GovernanceOffPolicy(BasePolicy(raw))
<1> QED BY DEF ParseConfig, BasePolicy, RuledPolicy

LEMMA BaseIsPolicy ==
  ASSUME NEW raw, IsConfig(raw)
  PROVE  /\ IsPolicy(BasePolicy(raw)) /\ BasePolicy(raw).overrides = <<>>
         /\ BasePolicy(raw).files = [ignore |-> raw.ignore, docs |-> raw.docs]
         /\ BasePolicy(raw).ci \in GateType
<1> DEFINE p == Preset(raw.extends)
           g == EitherGate(IF raw.govCi = None THEN p.ci ELSE raw.govCi, raw.ci)
           b == [p EXCEPT !.files   = [ignore |-> raw.ignore, docs |-> raw.docs],
                          !.tracing = raw.tracing, !.ci = g]
<1>1. IsPolicy(p) /\ p.overrides = <<>> /\ p.ci \in GateType
  BY PresetIsPolicy
<1>2. raw.govCi = None \/ raw.govCi \in GateType
  BY DEF IsConfig, Maybe
<1>3. raw.ci \in GateType
  BY DEF IsConfig
<1>4. g \in GateType
  <2> HIDE DEF p
  <2> QED BY <1>1, <1>2, <1>3, GatesAreGates
<1>5. "ignoreSources" \in DOMAIN raw.tracing
  BY DEF IsConfig, TracingType
<1>6. BasePolicy(raw) = b
  BY <1>1 DEF BasePolicy, IsPolicy, Sections
<1> HIDE DEF p, g
<1>7. IsPolicy(b) /\ b.overrides = p.overrides
  BY <1>1, <1>5 DEF IsPolicy, Sections
<1>8. b.files = [ignore |-> raw.ignore, docs |-> raw.docs] /\ b.ci = g
  BY <1>1 DEF IsPolicy, Sections
<1> HIDE DEF b
<1> QED BY <1>1, <1>4, <1>6, <1>7, <1>8

LEMMA RuledIsPolicy ==
  ASSUME NEW raw, IsConfig(raw)
  PROVE  /\ DOMAIN RuledPolicy(raw) = Sections /\ RuledPolicy(raw).overrides = <<>>
         /\ RuledPolicy(raw).files.ignore = raw.ignore /\ RuledPolicy(raw).ci \in GateType
<1> DEFINE b == BasePolicy(raw)
           d == [b EXCEPT !.files.docs = @ \/ raw.scanDocs]
<1>1. /\ IsPolicy(b) /\ b.overrides = <<>> /\ b.ci \in GateType
      /\ b.files = [ignore |-> raw.ignore, docs |-> raw.docs]
  BY BaseIsPolicy
<1> HIDE DEF b
<1>2. IsPolicy(d) /\ d.overrides = <<>> /\ d.ci \in GateType /\ d.files.ignore = raw.ignore
  BY <1>1 DEF IsPolicy, Sections
<1>3. RuledPolicy(raw) = ApplyRules(d, raw.govRules @@ raw.rules)
  BY DEF RuledPolicy, b
<1> HIDE DEF d
<1> QED BY <1>2, <1>3, RulesKeepPolicy

LEMMA ParsedPolicy ==
  ASSUME NEW raw, IsConfig(raw)
  PROVE  /\ ParseConfig(raw).files.ignore = raw.ignore /\ ParseConfig(raw).ci \in GateType
         /\ ~raw.enabled => Off(ParseConfig(raw))
<1>1. CASE raw.enabled
  <2> DEFINE p == RuledPolicy(raw)
             q == WithOverrides(p, raw.overrides)
  <2>1. /\ DOMAIN p = Sections /\ p.files.ignore = raw.ignore /\ p.ci \in GateType
    BY RuledIsPolicy
  <2> HIDE DEF p
  <2>2. q.files = p.files /\ q.ci = p.ci
    BY <2>1 DEF WithOverrides, Sections
  <2>3. ParseConfig(raw) = q
    BY <1>1, ParsedIs DEF p
  <2> HIDE DEF q
  <2> QED BY <1>1, <2>1, <2>2, <2>3
<1>2. CASE ~raw.enabled
  <2> DEFINE b == BasePolicy(raw)
             o == GovernanceOffPolicy(b)
  <2>1. /\ IsPolicy(b) /\ b.overrides = <<>> /\ b.ci \in GateType
        /\ b.files = [ignore |-> raw.ignore, docs |-> raw.docs]
    BY BaseIsPolicy
  <2>2. ParseConfig(raw) = o
    BY <1>2, ParsedIs
  <2> HIDE DEF b
  <2>3. Off(o) /\ o.files = b.files /\ o.ci = b.ci
    BY <2>1, OffIsOff
  <2> HIDE DEF o
  <2> QED BY <1>2, <2>1, <2>2, <2>3
<1> QED BY <1>1, <1>2

LEMMA LoadedPolicy ==
  ASSUME NEW cfg, cfg \notin {None, Broken} => IsConfig(cfg)
  PROVE  /\ Load(cfg).files.ignore \in Seq(PatternType) /\ Load(cfg).ci \in GateType
         /\ cfg \notin {None, Broken} => Load(cfg) = ParseConfig(cfg)
<1>1. CASE cfg \in {None, Broken}
  <2>1. Load(cfg) = DefaultPolicy
    BY <1>1 DEF Load
  <2>2. <<>> \in Seq(PatternType)
    OBVIOUS
  <2> QED BY <1>1, <2>1, <2>2, DefaultIsPolicy
<1>2. CASE cfg \notin {None, Broken}
  <2>1. IsConfig(cfg) /\ Load(cfg) = ParseConfig(cfg)
    BY <1>2 DEF Load
  <2>2. cfg.ignore \in Seq(PatternType)
    BY <2>1 DEF IsConfig
  <2> QED BY <2>1, <2>2, ParsedPolicy
<1> QED BY <1>1, <1>2

-----------------------------------------------------------------------------
(* The steps of an analysis, field by field.                               *)
SameCrawl ==
  /\ scan'.by = scan.by /\ scan'.policy = scan.policy /\ scan'.ci = scan.ci
  /\ scan'.patterns = scan.patterns /\ scan'.found = scan.found

SameAssets ==
  scan'.todo = scan.todo /\ scan'.assets = scan.assets /\ scan'.incomplete = scan.incomplete

SameVerdict ==
  scan'.diags = scan.diags /\ scan'.report = scan.report /\ scan'.state = scan.state

SameTraces ==
  scan'.sources = scan.sources /\ scan'.groups = scan.groups /\ scan'.refs = scan.refs

StartedAs(by) ==
  LET policy   == Load(config)
      combined == CombinedIgnores(policy)
      rules    == ScanRules(combined)
  IN  /\ scan'.phase = "ingest" /\ scan'.by = by /\ scan'.policy = policy
      /\ scan'.ci = scan.ci /\ scan'.patterns = rules
      /\ scan'.found = Candidates(rules) /\ scan'.todo = Candidates(rules)
      /\ scan'.sources = {} /\ scan'.assets = {} /\ scan'.incomplete = 0
      /\ scan'.groups = {} /\ scan'.refs = {} /\ scan'.diags = {}
      /\ scan'.report = NoAssets /\ scan'.state = "Analyzing"

LEMMA StartStep ==
  ASSUME NEW by, Start(by)
  PROVE  /\ scan.phase = (IF by = "check" THEN "gated" ELSE "idle")
         /\ \/ IsScan' /\ StartedAs(by) /\ exit' = exit
            \/ scan' = NoScan /\ exit' = (IF by = "check" THEN 1 ELSE exit)
<1> DEFINE policy == Load(config)
           combined == CombinedIgnores(policy)
           rules == ScanRules(combined)
           ok == Compiles(UnityGenerated(ws.unity) \o combined \o ws.animoriaignore)
           cands == Candidates(rules)
           new == [NoScan EXCEPT
                     !.phase = "ingest", !.by = by, !.policy = policy,
                     !.ci = scan.ci, !.patterns = rules,
                     !.found = cands, !.todo = cands, !.state = "Analyzing"]
<1>1. /\ scan.phase = (IF by = "check" THEN "gated" ELSE "idle")
      /\ IF ok THEN scan' = new /\ exit' = exit
         ELSE scan' = NoScan /\ exit' = (IF by = "check" THEN 1 ELSE exit)
  BY DEF Start
<1>2. CASE ok
  <2>1. scan' = new
    BY <1>1, <1>2
  <2> HIDE DEF policy, combined, rules, cands, ok
  <2>a. PICK one : one = [NoScan EXCEPT !.phase = "ingest", !.by = by]
    OBVIOUS
  <2>b. PICK two : two = [one EXCEPT !.policy = policy, !.ci = scan.ci]
    OBVIOUS
  <2>c. PICK more : more = [two EXCEPT !.patterns = rules, !.found = cands]
    OBVIOUS
  <2>2. scan' = [more EXCEPT !.todo = cands, !.state = "Analyzing"]
    BY <2>1, <2>a, <2>b, <2>c DEF new
  <2> HIDE DEF new
  <2>3. /\ Shape(one) /\ one.phase = "ingest" /\ one.by = by
        /\ one.sources = {} /\ one.assets = {} /\ one.incomplete = 0
        /\ one.groups = {} /\ one.refs = {} /\ one.diags = {} /\ one.report = NoAssets
    BY <2>a DEF Shape, NoScan
  <2>4. /\ Shape(two) /\ two.phase = "ingest" /\ two.by = by
        /\ two.policy = policy /\ two.ci = scan.ci
        /\ two.sources = {} /\ two.assets = {} /\ two.incomplete = 0
        /\ two.groups = {} /\ two.refs = {} /\ two.diags = {} /\ two.report = NoAssets
    BY <2>b, <2>3 DEF Shape
  <2>5. /\ Shape(more) /\ more.phase = "ingest" /\ more.by = by
        /\ more.policy = policy /\ more.ci = scan.ci
        /\ more.patterns = rules /\ more.found = cands
        /\ more.sources = {} /\ more.assets = {} /\ more.incomplete = 0
        /\ more.groups = {} /\ more.refs = {} /\ more.diags = {} /\ more.report = NoAssets
    BY <2>c, <2>4 DEF Shape
  <2>6. IsScan'
    BY <2>2, <2>5 DEF Shape, IsScan
  <2>7. StartedAs(by)
    <3>1. /\ scan'.phase = "ingest" /\ scan'.by = by
          /\ scan'.policy = policy /\ scan'.ci = scan.ci
          /\ scan'.patterns = rules /\ scan'.found = cands /\ scan'.todo = cands
          /\ scan'.sources = {} /\ scan'.assets = {} /\ scan'.incomplete = 0
          /\ scan'.groups = {} /\ scan'.refs = {} /\ scan'.diags = {}
          /\ scan'.report = NoAssets /\ scan'.state = "Analyzing"
      BY <2>2, <2>5 DEF Shape
    <3> QED BY <3>1 DEF StartedAs, policy, combined, rules, cands
  <2> QED BY <1>1, <1>2, <2>6, <2>7
<1>3. CASE ~ok
  BY <1>1, <1>3
<1> QED BY <1>2, <1>3

LEMMA IngestStep ==
  ASSUME IsScan, Ingest
  PROVE  /\ IsScan' /\ SameCrawl /\ SameTraces /\ SameVerdict
         /\ scan.phase = "ingest" /\ scan'.phase = "ingest"
         /\ \E c \in scan.todo :
              /\ scan'.todo = scan.todo \ {c}
              /\ \/ /\ disk[c.id] # None /\ disk[c.id].format # "none"
                    /\ scan'.assets = scan.assets \cup {AssetOf(c.id, disk[c.id])}
                    /\ scan'.incomplete = scan.incomplete
                 \/ /\ IF disk[c.id] = None THEN c.ext \in {"json", "apng"}
                       ELSE disk[c.id].format = "none"
                    /\ scan'.assets = scan.assets /\ scan'.incomplete = scan.incomplete
                 \/ /\ disk[c.id] = None /\ scan'.assets = scan.assets
                    /\ scan'.incomplete = scan.incomplete + 1
<1>1. PICK c \in scan.todo : IngestAsset(c) \/ SkipFile(c) \/ MissFile(c)
  BY DEF Ingest
<1> DEFINE asset == AssetOf(c.id, disk[c.id])
<1>2. scan.phase = "ingest"
  BY DEF Ingest
<1>3. CASE IngestAsset(c)
  <2>1. scan' = [[scan EXCEPT !.todo = @ \ {c}] EXCEPT !.assets = @ \cup {asset}]
    BY <1>3 DEF IngestAsset, Remaining
  <2>2. disk[c.id] # None /\ disk[c.id].format # "none"
    BY <1>3 DEF IngestAsset
  <2> HIDE DEF asset
  <2>3. IsScan' /\ SameCrawl /\ SameTraces /\ SameVerdict /\ scan'.phase = scan.phase
    BY <2>1 DEF Shape, IsScan, SameCrawl, SameTraces, SameVerdict
  <2>4. /\ scan'.todo = scan.todo \ {c} /\ scan'.assets = scan.assets \cup {asset}
        /\ scan'.incomplete = scan.incomplete
    BY <2>1 DEF Shape, IsScan
  <2> QED BY <1>2, <2>2, <2>3, <2>4 DEF asset
<1>4. CASE SkipFile(c)
  <2>1. scan' = [scan EXCEPT !.todo = @ \ {c}]
    BY <1>4 DEF SkipFile, Remaining
  <2>2. IsScan' /\ SameCrawl /\ SameTraces /\ SameVerdict /\ scan'.phase = scan.phase
    BY <2>1 DEF Shape, IsScan, SameCrawl, SameTraces, SameVerdict
  <2>3. /\ scan'.todo = scan.todo \ {c} /\ scan'.assets = scan.assets
        /\ scan'.incomplete = scan.incomplete
    BY <2>1 DEF Shape, IsScan
  <2> QED BY <1>2, <1>4, <2>2, <2>3 DEF SkipFile
<1>5. CASE MissFile(c)
  <2>1. scan' = [[scan EXCEPT !.todo = @ \ {c}] EXCEPT !.incomplete = @ + 1]
    BY <1>5 DEF MissFile, Remaining
  <2>2. IsScan' /\ SameCrawl /\ SameTraces /\ SameVerdict /\ scan'.phase = scan.phase
    BY <2>1 DEF Shape, IsScan, SameCrawl, SameTraces, SameVerdict
  <2>3. /\ scan'.todo = scan.todo \ {c} /\ scan'.assets = scan.assets
        /\ scan'.incomplete = scan.incomplete + 1
    BY <2>1 DEF Shape, IsScan
  <2> QED BY <1>2, <1>5, <2>2, <2>3 DEF MissFile
<1> QED BY <1>1, <1>3, <1>4, <1>5

Hashed(a) == [a EXCEPT !.hash = IF disk[a.id] = None THEN None ELSE disk[a.id].content]

LEMMA HashStep ==
  ASSUME IsScan, HashAndGroup
  PROVE  /\ IsScan' /\ SameCrawl /\ SameVerdict /\ scan.phase = "ingest" /\ scan.todo = {}
         /\ scan'.phase = "trace" /\ scan'.todo = scan.todo
         /\ scan'.incomplete = scan.incomplete /\ scan'.refs = scan.refs
         /\ scan'.assets = {Hashed(a) : a \in scan.assets}
         /\ scan'.groups = GroupsOf(scan'.assets)
         /\ scan'.sources \subseteq SourceFiles(scan.patterns, scan.policy.tracing)
                                      \ {a.id : a \in scan'.assets}
         /\ scan'.assets # {} =>
              scan'.sources = SourceFiles(scan.patterns, scan.policy.tracing)
                                \ {a.id : a \in scan'.assets}
<1> DEFINE assets == {Hashed(a) : a \in scan.assets}
           ids == {a.id : a \in assets}
           groups == GroupsOf(assets)
           sources == IF assets = {} THEN {}
                      ELSE SourceFiles(scan.patterns, scan.policy.tracing) \ ids
<1>1. /\ scan.phase = "ingest" /\ scan.todo = {}
      /\ scan' = [scan EXCEPT !.phase = "trace", !.assets = assets, !.groups = groups,
                              !.sources = sources]
  BY DEF HashAndGroup, Hashed
<1>2. /\ sources \subseteq SourceFiles(scan.patterns, scan.policy.tracing) \ ids
      /\ assets # {} => sources = SourceFiles(scan.patterns, scan.policy.tracing) \ ids
  OBVIOUS
<1> HIDE DEF assets, groups, sources
<1>3. IsScan' /\ SameCrawl /\ SameVerdict
  BY <1>1 DEF Shape, IsScan, SameCrawl, SameVerdict
<1>4. /\ scan'.phase = "trace" /\ scan'.todo = scan.todo
      /\ scan'.incomplete = scan.incomplete /\ scan'.refs = scan.refs
      /\ scan'.assets = assets /\ scan'.groups = groups /\ scan'.sources = sources
  BY <1>1 DEF Shape, IsScan
<1> QED BY <1>1, <1>2, <1>3, <1>4 DEF assets, groups

LEMMA TraceStep ==
  ASSUME IsScan, TraceFile
  PROVE  /\ IsScan' /\ SameCrawl /\ SameAssets /\ SameVerdict
         /\ scan.phase = "trace" /\ scan'.phase = "trace" /\ scan'.groups = scan.groups
         /\ \E k \in scan.sources :
              /\ scan'.sources = scan.sources \ {k}
              /\ \/ /\ disk[k] # None => ~disk[k].text
                    /\ scan'.refs = scan.refs
                 \/ /\ disk[k] # None
                    /\ scan'.refs = scan.refs \cup
                         FileRefs(scan.assets, scan.policy.tracing, disk[k], k)
<1>1. PICK k \in scan.sources :
         scan' = [scan EXCEPT
                 !.sources = @ \ {k},
                 !.refs = @ \cup IF disk[k] # None /\ disk[k].text
                                 THEN FileRefs(scan.assets, scan.policy.tracing, disk[k], k)
                                 ELSE {}]
  BY DEF TraceFile
<1> DEFINE more == IF disk[k] # None /\ disk[k].text
                   THEN FileRefs(scan.assets, scan.policy.tracing, disk[k], k) ELSE {}
<1>2. \/ (disk[k] # None => ~disk[k].text) /\ more = {}
      \/ disk[k] # None /\ more = FileRefs(scan.assets, scan.policy.tracing, disk[k], k)
  OBVIOUS
<1>3. scan' = [scan EXCEPT !.sources = @ \ {k}, !.refs = @ \cup more]
  BY <1>1
<1> HIDE DEF more
<1>4. IsScan' /\ SameCrawl /\ SameAssets /\ SameVerdict
  BY <1>3 DEF Shape, IsScan, SameCrawl, SameAssets, SameVerdict
<1>5. /\ scan'.phase = scan.phase /\ scan'.groups = scan.groups
      /\ scan'.sources = scan.sources \ {k} /\ scan'.refs = scan.refs \cup more
  BY <1>3 DEF Shape, IsScan
<1>6. scan.phase = "trace"
  BY DEF TraceFile
<1> QED BY <1>2, <1>4, <1>5, <1>6

LEMMA GovernStep ==
  ASSUME IsScan, Govern
  PROVE  /\ IsScan' /\ SameCrawl /\ SameAssets
         /\ scan.phase = "trace" /\ scan'.phase = "done"
         /\ scan'.sources = scan.sources /\ scan'.groups = scan.groups
         /\ scan'.refs = scan.refs
              \cup CollectionRefs(scan.assets, scan.policy.tracing, scan.refs)
         /\ scan'.diags = Diagnostics(scan.policy, disk, scan.assets, scan.groups, scan'.refs)
         /\ scan'.report = HealthScore(scan.assets, scan'.diags)
         /\ scan'.state = IF scan.incomplete > 0 THEN "Incomplete" ELSE "Ready"
<1> DEFINE refs == scan.refs \cup CollectionRefs(scan.assets, scan.policy.tracing, scan.refs)
           diags == Diagnostics(scan.policy, disk, scan.assets, scan.groups, refs)
           report == HealthScore(scan.assets, diags)
           state == IF scan.incomplete > 0 THEN "Incomplete" ELSE "Ready"
<1>1. /\ scan.phase = "trace"
      /\ scan' = [scan EXCEPT !.phase = "done", !.refs = refs, !.diags = diags,
                              !.report = report, !.state = state]
  BY DEF Govern
<1> HIDE DEF refs, diags, report, state
<1>2. IsScan' /\ SameCrawl /\ SameAssets
  BY <1>1 DEF Shape, IsScan, SameCrawl, SameAssets
<1>3. /\ scan'.phase = "done" /\ scan'.sources = scan.sources
      /\ scan'.groups = scan.groups /\ scan'.refs = refs /\ scan'.diags = diags
      /\ scan'.report = report /\ scan'.state = state
  BY <1>1 DEF Shape, IsScan
<1> QED BY <1>1, <1>2, <1>3 DEF refs, diags, report, state

LEMMA RecordStep ==
  ASSUME IsScan, RecordSnapshot \/ WriteAuditEvent
  PROVE  /\ IsScan' /\ SameCrawl /\ SameAssets /\ SameTraces /\ SameVerdict
         /\ RecordSnapshot => scan.phase = "done" /\ scan.by = "daemon"
                                /\ scan'.phase = "snapshotted"
         /\ WriteAuditEvent => /\ scan.phase = "snapshotted"
                               /\ scan'.phase \in {"audited", "failed"}
<1>1. CASE RecordSnapshot
  <2>1. scan' = [scan EXCEPT !.phase = "snapshotted"] /\ scan.phase = "done"
        /\ scan.by = "daemon"
    BY <1>1 DEF RecordSnapshot
  <2>2. IsScan' /\ SameCrawl /\ SameAssets /\ SameTraces /\ SameVerdict
    BY <2>1 DEF Shape, IsScan, SameCrawl, SameAssets, SameTraces, SameVerdict
  <2>3. scan'.phase = "snapshotted" /\ ~WriteAuditEvent
    BY <2>1 DEF Shape, IsScan, WriteAuditEvent
  <2> QED BY <2>1, <2>2, <2>3
<1>2. CASE WriteAuditEvent
  <2>1. PICK p \in {"audited", "failed"} :
          scan' = [scan EXCEPT !.phase = p] /\ scan.phase = "snapshotted"
    BY <1>2 DEF WriteAuditEvent, EventFails, EventWritten, EventLost
  <2>2. IsScan' /\ SameCrawl /\ SameAssets /\ SameTraces /\ SameVerdict
    BY <2>1 DEF Shape, IsScan, SameCrawl, SameAssets, SameTraces, SameVerdict
  <2>3. scan'.phase = p /\ ~RecordSnapshot
    BY <2>1 DEF Shape, IsScan, RecordSnapshot
  <2> QED BY <2>1, <2>2, <2>3
<1> QED BY <1>1, <1>2

LEMMA GatedStep ==
  ASSUME scan' = [NoScan EXCEPT !.phase = "gated", !.ci = Load(config).ci]
  PROVE  /\ IsScan' /\ scan'.phase = "gated" /\ scan'.ci = Load(config).ci
         /\ scan' = [NoScan EXCEPT !.phase = "gated", !.ci = scan'.ci]
         /\ scan'.by = None /\ scan'.found = {} /\ scan'.todo = {} /\ scan'.sources = {}
         /\ scan'.assets = {} /\ scan'.incomplete = 0 /\ scan'.refs = {}
         /\ scan'.diags = {} /\ scan'.report = NoAssets
<1> DEFINE ci == Load(config).ci
<1>1. scan' = [NoScan EXCEPT !.phase = "gated", !.ci = ci]
  OBVIOUS
<1> HIDE DEF ci
<1>2. IsScan'
  BY <1>1 DEF Shape, IsScan, NoScan
<1>3. /\ scan'.phase = "gated" /\ scan'.ci = ci
      /\ scan'.by = None /\ scan'.found = {} /\ scan'.todo = {} /\ scan'.sources = {}
      /\ scan'.assets = {} /\ scan'.incomplete = 0 /\ scan'.refs = {}
      /\ scan'.diags = {} /\ scan'.report = NoAssets
  BY <1>1 DEF NoScan
<1> QED BY <1>1, <1>2, <1>3 DEF ci

LEMMA NoScanFields ==
  /\ NoScan.phase = "idle" /\ NoScan.by = None /\ NoScan.found = {} /\ NoScan.todo = {}
  /\ NoScan.sources = {} /\ NoScan.assets = {} /\ NoScan.incomplete = 0
  /\ NoScan.refs = {} /\ NoScan.diags = {} /\ NoScan.report = NoAssets /\ NoScan.ci = None
<1> QED BY DEF NoScan

LEMMA NoScanIsScan ==
  ASSUME scan' = NoScan PROVE IsScan'
<1> QED BY DEF NoScan, Shape, IsScan

-----------------------------------------------------------------------------
(* Who moves what.                                                         *)
LEMMA StepEffects ==
  ASSUME [Next]_vars
  PROVE  /\ ws' = ws
         /\ (config' = config /\ edits' = edits) \/ UserEdit
         /\ disk' = disk \/ UserEdit \/ WriteRewrite
         /\ scans' = scans \/ StartScan \/ StartCheck
         /\ kills' = kills \/ Kill
         /\ index' = index \/ KeepIndex \/ Kill
         /\ plan' = plan \/ ProposeRewrites \/ Kill
         /\ rewrite' = rewrite \/ ReadForRewrite \/ WriteRewrite \/ Kill
         /\ (history' = history /\ recorded' = recorded)
              \/ RecordSnapshot \/ WriteAuditEvent \/ KeepIndex
         /\ faults' = faults \/ RecordSnapshot \/ WriteAuditEvent \/ KeepIndex
         /\ (unsaved' = unsaved /\ unlogged' = unlogged)
              \/ RecordSnapshot \/ WriteAuditEvent
<1>1. CASE StartScan
  BY <1>1 DEF StartScan, failures
<1>2. CASE StartCheck
  BY <1>2 DEF StartCheck, failures
<1>3. CASE RunCheck
  BY <1>3 DEF RunCheck, failures
<1>4. CASE Ingest
  BY <1>4 DEF Ingest, failures
<1>5. CASE HashAndGroup
  BY <1>5 DEF HashAndGroup, failures
<1>6. CASE TraceFile
  BY <1>6 DEF TraceFile, failures
<1>7. CASE Govern
  BY <1>7 DEF Govern, failures
<1>8. CASE AnswerCheck
  BY <1>8 DEF AnswerCheck, failures
<1>9. CASE RecordSnapshot
  BY <1>9 DEF RecordSnapshot
<1>10. CASE WriteAuditEvent
  BY <1>10 DEF WriteAuditEvent
<1>11. CASE KeepIndex
  BY <1>11 DEF KeepIndex, EndsLine, failures
<1>12. CASE ProposeRewrites
  BY <1>12 DEF ProposeRewrites, failures
<1>13. CASE ReadForRewrite
  BY <1>13 DEF ReadForRewrite, failures
<1>14. CASE WriteRewrite
  BY <1>14 DEF WriteRewrite, failures
<1>15. CASE Kill
  BY <1>15 DEF Kill, failures
<1>16. CASE UserEdit
  BY <1>16 DEF UserEdit, failures
<1>17. CASE UNCHANGED vars
  BY <1>17 DEF vars, failures
<1> QED
  BY <1>1, <1>2, <1>3, <1>4, <1>5, <1>6, <1>7, <1>8, <1>9, <1>10, <1>11, <1>12, <1>13,
     <1>14, <1>15, <1>16, <1>17 DEF Next

(* What an analysis may become in one step.                                *)
Advance ==
  Ingest \/ HashAndGroup \/ TraceFile \/ Govern \/ RecordSnapshot \/ WriteAuditEvent

LEMMA ScanCases ==
  ASSUME [Next]_vars
  PROVE  \/ scan' = scan /\ exit' \in {exit, 1} /\ (exit' = exit \/ StartCheck)
         \/ StartScan /\ Start("daemon")
         \/ RunCheck /\ Start("check")
         \/ /\ StartCheck /\ scan.phase = "idle" /\ exit' = None
            /\ scan' = [NoScan EXCEPT !.phase = "gated", !.ci = Load(config).ci]
         \/ Advance /\ exit' = exit
         \/ AnswerCheck
         \/ (KeepIndex \/ Kill) /\ scan' \in {NoScan, scan} /\ exit' = exit
<1>1. CASE StartScan
  BY <1>1 DEF StartScan
<1>2. CASE StartCheck
  BY <1>2 DEF StartCheck
<1>3. CASE RunCheck
  BY <1>3 DEF RunCheck
<1>4. CASE Advance
  BY <1>4 DEF Advance, Ingest, HashAndGroup, TraceFile, Govern, RecordSnapshot,
              WriteAuditEvent
<1>5. CASE KeepIndex \/ Kill
  BY <1>5 DEF KeepIndex, Kill
<1>6. CASE ProposeRewrites \/ ReadForRewrite \/ WriteRewrite \/ UserEdit
  BY <1>6 DEF ProposeRewrites, ReadForRewrite, WriteRewrite, UserEdit
<1>7. CASE UNCHANGED vars
  BY <1>7 DEF vars
<1> QED BY <1>1, <1>2, <1>3, <1>4, <1>5, <1>6, <1>7 DEF Next, Advance

LEMMA GivenHolds ==
  ASSUME Given, [Next]_vars
  PROVE  Given'
<1>1. ws' = ws
  BY StepEffects
<1>2. scans' \in Nat
  <2>1. CASE scans' = scans
    BY <2>1 DEF Given
  <2>2. CASE StartScan \/ StartCheck
    BY <2>2 DEF StartScan, StartCheck, Given
  <2> QED BY <2>1, <2>2, StepEffects
<1>3. kills' \in Nat
  <2>1. CASE kills' = kills
    BY <2>1 DEF Given
  <2>2. CASE Kill
    BY <2>2 DEF Kill, Given
  <2> QED BY <2>1, <2>2, StepEffects
<1>4. PICK w \in Workspaces :
        /\ ws = [unity |-> w.unity, custom |-> w.custom,
                 animoriaignore |-> w.animoriaignore, args |-> w.args,
                 bound |-> w.bound, files |-> w.disk]
        /\ config \in {w.config, Broken}
        /\ edits = 0 => config = w.config
  BY DEF Given
<1>5. /\ edits' \in Nat /\ config' \in {w.config, Broken}
      /\ edits' = 0 => config' = w.config
  <2>1. CASE config' = config /\ edits' = edits
    BY <2>1, <1>4 DEF Given
  <2>2. CASE UserEdit
    BY <2>2, <1>4 DEF UserEdit, Given
  <2> QED BY <2>1, <2>2, StepEffects
<1>6. ws' = [unity |-> w.unity, custom |-> w.custom,
             animoriaignore |-> w.animoriaignore, args |-> w.args,
             bound |-> w.bound, files |-> w.disk]
  BY <1>1, <1>4
<1>7. faults' \in Nat
  <2>1. CASE faults' = faults
    BY <2>1 DEF Given
  <2>2. CASE RecordSnapshot
    BY <2>2 DEF RecordSnapshot, SnapshotFails, Fails, failures, Given
  <2>3. CASE WriteAuditEvent
    BY <2>3 DEF WriteAuditEvent, EventFails, Fails, Given
  <2>4. CASE KeepIndex
    BY <2>4 DEF KeepIndex, EndsLine, Fails, failures, Given
  <2> QED BY <2>1, <2>2, <2>3, <2>4, StepEffects
<1> QED BY <1>2, <1>3, <1>5, <1>6, <1>7 DEF Given
-----------------------------------------------------------------------------
(* Files.  What the assumption on workspaces says of the one at hand.      *)
LEMMA WorkspaceFacts ==
  ASSUME Given
  PROVE  /\ IsFiniteSet(DOMAIN ws.files) /\ ConfigFile \notin DOMAIN ws.files
         /\ \A k \in DOMAIN ws.files :
              /\ ws.files[k] \in FileType
              /\ ws.files[k].format # "none" =>
                   ws.files[k].ext \in RecognizedExtensions \ {"apng"}
              /\ ws.files[k].format = "none" =>
                   ws.files[k].ext \notin RecognizedExtensions \ {"json", "svg", "apng"}
         /\ ws.custom \in Seq(PatternType) /\ ws.animoriaignore \in Seq(PatternType)
         /\ config \notin {None, Broken} => IsConfig(config)
         /\ ws.args \in ArgsType
<1>1. PICK w \in Workspaces :
        /\ ws = [unity |-> w.unity, custom |-> w.custom,
                 animoriaignore |-> w.animoriaignore, args |-> w.args,
                 bound |-> w.bound, files |-> w.disk]
        /\ config \in {w.config, Broken}
  BY DEF Given
<1>2. /\ ws.files = w.disk /\ ws.custom = w.custom /\ ws.args = w.args
      /\ ws.animoriaignore = w.animoriaignore
  BY <1>1
<1>3. /\ IsFiniteSet(DOMAIN w.disk) /\ ConfigFile \notin DOMAIN w.disk
      /\ w.disk \in [DOMAIN w.disk -> FileType]
      /\ w.custom \in Seq(PatternType) /\ w.animoriaignore \in Seq(PatternType)
      /\ w.config \notin {None, Broken} => IsConfig(w.config)
      /\ w.args \in ArgsType
  BY WorkspacesAssumption
<1>4. \A k \in DOMAIN w.disk :
        /\ w.disk[k] \in FileType
        /\ w.disk[k].format # "none" =>
             w.disk[k].ext \in RecognizedExtensions \ {"apng"}
        /\ w.disk[k].format = "none" =>
             w.disk[k].ext \notin RecognizedExtensions \ {"json", "svg", "apng"}
  <2>1. \A k \in DOMAIN w.disk : w.disk[k] \in FileType
    BY <1>3
  <2> QED BY <2>1, WorkspacesAssumption
<1>5. config \notin {None, Broken} => IsConfig(config)
  BY <1>1, <1>3
<1> QED BY <1>2, <1>3, <1>4, <1>5

LEMMA NoneIsNoFile == None \notin FileType
<1> QED BY NothingAssumption

(* A version of a file is the file but for its lines.                      *)
LEMMA VersionIsFile ==
  ASSUME NEW k \in DOMAIN ws.files, ws.files[k] \in FileType, NEW f, Version(k, f)
  PROVE  /\ f \in FileType /\ f # None
         /\ f.format = ws.files[k].format /\ f.ext = ws.files[k].ext
         /\ f.dir = ws.files[k].dir /\ f.hidden = ws.files[k].hidden
         /\ f.unsafe = ws.files[k].unsafe /\ f.stem = ws.files[k].stem
         /\ f.lines \in Seq(LineType)
<1> DEFINE g == ws.files[k]
<1>1. f.lines \in Seq(LineType) /\ f = [g EXCEPT !.lines = f.lines]
  BY DEF Version
<1> HIDE DEF g
<1>2. g \in FileType
  BY DEF g
<1>3. f \in FileType
  BY <1>1, <1>2 DEF FileType
<1>4. f # None
  BY <1>3, NoneIsNoFile
<1>5. /\ f.format = g.format /\ f.ext = g.ext /\ f.dir = g.dir /\ f.hidden = g.hidden
      /\ f.unsafe = g.unsafe /\ f.stem = g.stem
  BY <1>1, <1>2 DEF FileType
<1> QED BY <1>1, <1>3, <1>4, <1>5 DEF g

LEMMA FirstVersion ==
  ASSUME NEW k \in DOMAIN ws.files, ws.files[k] \in FileType
  PROVE  Version(k, ws.files[k])
<1> DEFINE g == ws.files[k]
<1>1. g \in FileType
  OBVIOUS
<1> HIDE DEF g
<1>2. g.lines \in Seq(LineType) /\ g = [g EXCEPT !.lines = g.lines]
  BY <1>1 DEF FileType
<1> QED BY <1>2 DEF Version, g

LEMMA NextVersion ==
  ASSUME NEW k \in DOMAIN ws.files, ws.files[k] \in FileType, NEW f, Version(k, f),
         NEW i, NEW line \in LineType
  PROVE  Version(k, [f EXCEPT !.lines[i] = line])
<1> DEFINE g == ws.files[k]
           lines == [f.lines EXCEPT ![i] = line]
           h == [f EXCEPT !.lines[i] = line]
<1>1. f.lines \in Seq(LineType) /\ f = [g EXCEPT !.lines = f.lines]
  BY DEF Version
<1>2. lines \in Seq(LineType)
  <2>1. CASE i \in 1 .. Len(f.lines)
    BY <1>1, <2>1, ExceptSeq
  <2>2. CASE i \notin 1 .. Len(f.lines)
    <3>1. f.lines = [j \in 1 .. Len(f.lines) |-> f.lines[j]]
      BY <1>1
    <3>2. lines = f.lines
      BY <2>2, <3>1
    <3> QED BY <1>1, <3>2
  <2> QED BY <2>1, <2>2
<1>3. g \in FileType
  OBVIOUS
<1> HIDE DEF g
<1>4. f \in FileType
  BY <1>1, <1>3 DEF FileType
<1>5. h = [f EXCEPT !.lines = lines]
  BY <1>4 DEF FileType
<1> HIDE DEF lines, h
<1>6. h.lines = lines
  BY <1>4, <1>5 DEF FileType
<1>7. h = [g EXCEPT !.lines = lines]
  BY <1>1, <1>3, <1>5 DEF FileType
<1> QED BY <1>2, <1>6, <1>7 DEF Version, g, h

LEMMA OnDiskHolds ==
  ASSUME Given, OnDisk, RewritesHeld, [Next]_vars
  PROVE  OnDisk'
<1>1. ws' = ws
  BY StepEffects
<1>2. \A k \in DOMAIN ws.files : ws.files[k] \in FileType
  BY WorkspaceFacts
<1>3. /\ disk = [k \in DOMAIN ws.files |-> disk[k]]
      /\ \A k \in DOMAIN ws.files : disk[k] = None \/ Version(k, disk[k])
      /\ edits = 0 => Present = DOMAIN ws.files
  BY DEF OnDisk
<1>5. CASE disk' = disk
  <2>1. edits' = 0 => edits = 0
    BY StepEffects DEF UserEdit, Given
  <2>2. Present' = Present
    BY <1>5 DEF Present
  <2> QED BY <1>1, <1>3, <1>5, <2>1, <2>2 DEF OnDisk, Version
<1>6. CASE WriteRewrite
  <2> DEFINE p == rewrite.proposal
             f == [rewrite.read EXCEPT !.lines[p.line] = p.proposed]
  <2>1. rewrite # None /\ disk' = [disk EXCEPT ![p.file] = f] /\ edits' = edits
    BY <1>6 DEF WriteRewrite
  <2>2. /\ p.proposed \in LineType /\ p.file \in DOMAIN ws.files
        /\ Version(p.file, rewrite.read)
    BY <2>1 DEF RewritesHeld, SourceKey
  <2>3. Version(p.file, f)
    BY <1>2, <2>2, NextVersion
  <2>4. f # None
    BY <1>2, <2>2, <2>3, VersionIsFile
  <2> HIDE DEF f, p
  <2>5. /\ disk' = [k \in DOMAIN ws.files |-> disk'[k]]
        /\ \A k \in DOMAIN ws.files : disk'[k] = IF k = p.file THEN f ELSE disk[k]
    BY <1>3, <2>1, <2>2
  <2>6. \A k \in DOMAIN ws.files : disk'[k] = None \/ Version(k, disk'[k])
    BY <1>3, <2>3, <2>5
  <2>7. Present \subseteq Present' /\ Present' \subseteq DOMAIN ws.files
    BY <1>3, <2>4, <2>5 DEF Present
  <2> QED BY <1>1, <1>3, <2>1, <2>5, <2>6, <2>7 DEF OnDisk, Version
<1>7. CASE UserEdit
  <2>1. edits' # 0
    BY <1>7 DEF UserEdit, Given
  <2>2. CASE disk' = disk
    BY <1>5, <2>2
  <2>3. CASE \E k \in Present : disk' = [disk EXCEPT ![k] = None]
    <3>1. PICK k \in Present : disk' = [disk EXCEPT ![k] = None]
      BY <2>3
    <3>2. /\ disk' = [j \in DOMAIN ws.files |-> disk'[j]]
          /\ \A j \in DOMAIN ws.files : disk'[j] = IF j = k THEN None ELSE disk[j]
      BY <1>3, <3>1
    <3>3. \A j \in DOMAIN ws.files : disk'[j] = None \/ Version(j, disk'[j])
      BY <1>3, <3>2
    <3> QED BY <1>1, <2>1, <3>2, <3>3 DEF OnDisk, Version
  <2>4. CASE \E k \in Present : \E i \in DOMAIN disk[k].lines :
               disk' = [disk EXCEPT ![k].lines[i] = EditedLine]
    <3>1. PICK k \in Present : \E i \in DOMAIN disk[k].lines :
            disk' = [disk EXCEPT ![k].lines[i] = EditedLine]
      BY <2>4
    <3>7. PICK i : disk' = [disk EXCEPT ![k].lines[i] = EditedLine]
      BY <3>1
    <3> DEFINE f == [disk[k] EXCEPT !.lines[i] = EditedLine]
    <3>2. k \in DOMAIN ws.files /\ Version(k, disk[k])
      BY <1>3 DEF Present
    <3>3. Version(k, f)
      BY <1>2, <3>2, NextVersion, EditedLineAssumption
    <3>4. disk' = [disk EXCEPT ![k] = f]
      BY <1>3, <3>2, <3>7
    <3> HIDE DEF f
    <3>5. /\ disk' = [j \in DOMAIN ws.files |-> disk'[j]]
          /\ \A j \in DOMAIN ws.files : disk'[j] = IF j = k THEN f ELSE disk[j]
      BY <1>3, <3>4
    <3>6. \A j \in DOMAIN ws.files : disk'[j] = None \/ Version(j, disk'[j])
      BY <1>3, <3>3, <3>5
    <3> QED BY <1>1, <2>1, <3>5, <3>6 DEF OnDisk, Version
  <2> QED BY <1>7, <2>2, <2>3, <2>4 DEF UserEdit
<1> QED BY <1>5, <1>6, <1>7, StepEffects
-----------------------------------------------------------------------------
(* Rewrites.  The word that is written for another is a word.              *)
LEMMA RelativeIsWord ==
  ASSUME NEW old \in WordType, NEW dir \in Seq(STRING), NEW keeper,
         keeper.dir \in Seq(STRING), keeper.stem \in STRING, keeper.ext \in Maybe(STRING)
  PROVE  R!RelativeWord(old, dir, keeper) \in WordType
<1> DEFINE from == RootDir \o dir
           to == RootDir \o keeper.dir
           Shared == {n \in 0 .. Len(from) : n <= Len(to) /\ SubSeq(from, 1, n) = SubSeq(to, 1, n)}
           common == R!CommonDirs(from, to)
           ups == Len(from) - common
           dirs == SubSeq(to, common + 1, Len(to))
           scheme == R!SchemeLeft(old.lead)
           lead == IF scheme # "" THEN scheme
                   ELSE IF ups > 0 \/ old.lead = "./" THEN "./" ELSE ""
<1>1. from \in Seq(STRING) /\ to \in Seq(STRING)
  BY RootDirAssumption
<1>2. common \in 0 .. Len(from) /\ common <= Len(to)
  <2> HIDE DEF from, to
  <2>1. Shared \subseteq 0 .. Len(from)
    OBVIOUS
  <2>2. SubSeq(from, 1, 0) = SubSeq(to, 1, 0)
    BY <1>1
  <2>3. 0 \in Shared
    BY <1>1, <2>2
  <2>4. common = Max(Shared)
    BY DEF R!CommonDirs, R!Max, Max
  <2>5. Len(from) \in Nat
    BY <1>1
  <2>6. common \in Shared
    <3> HIDE DEF Shared, common
    <3> QED BY <2>1, <2>3, <2>4, <2>5, MaxOf
  <2> QED BY <2>6
<1>3. ups \in Nat
  <2> HIDE DEF from, common
  <2> QED BY <1>1, <1>2
<1>4. dirs \in Seq(STRING)
  <2> HIDE DEF from, to, common
  <2>1. common + 1 \in Nat /\ Len(to) \in Nat
    BY <1>1, <1>2
  <2>2. \A i \in common + 1 .. Len(to) : to[i] \in STRING
    BY <1>1, <1>2
  <2> QED BY <1>1, <1>2, <2>1, SubSeqProperties
<1>5. scheme \in {"res:", "https:", ""}
  BY DEF R!SchemeLeft
<1>6. lead \in Leads
  <2> HIDE DEF scheme, ups
  <2> QED BY <1>5 DEF Leads
<1>7. R!RelativeWord(old, dir, keeper) = R!Word(lead, ups, dirs, keeper.stem, keeper.ext, old.quoted)
  BY DEF R!RelativeWord
<1>8. old.quoted \in BOOLEAN
  BY DEF WordType
<1> HIDE DEF lead, ups, dirs
<1> QED BY <1>3, <1>4, <1>6, <1>7, <1>8 DEF R!Word, WordType

LEMMA RewrittenIsLine ==
  ASSUME NEW line \in LineType, NEW a, R!Holding(line, a) # {}, NEW dir \in Seq(STRING),
         NEW keeper, keeper.dir \in Seq(STRING), keeper.stem \in STRING,
         keeper.ext \in Maybe(STRING)
  PROVE  R!RewrittenLine(line, a, dir, keeper) \in LineType /\ line.words # <<>>
<1> DEFINE i == R!Min(R!Holding(line, a))
           word == R!RelativeWord(line.words[i], dir, keeper)
           words == [line.words EXCEPT ![i] = word]
<1>1. line.words \in Seq(WordType)
  BY DEF LineType
<1>2. i \in 1 .. Len(line.words)
  <2>1. R!Holding(line, a) \subseteq 1 .. Len(line.words)
    BY <1>1 DEF R!Holding
  <2>2. R!Holding(line, a) \subseteq Nat
    BY <1>1, <2>1
  <2>3. i \in R!Holding(line, a)
    <3>1. \A T : R!Min(T) = Min(T)
      BY DEF R!Min, Min
    <3> QED BY <2>2, <3>1, MinOf
  <2> QED BY <2>1, <2>3
<1> HIDE DEF i
<1>3. line.words[i] \in WordType
  BY <1>1, <1>2
<1>4. word \in WordType
  BY <1>3, RelativeIsWord
<1> HIDE DEF word
<1>5. words \in Seq(WordType)
  BY <1>1, <1>2, <1>4, ExceptSeq
<1>6. R!RewrittenLine(line, a, dir, keeper) = [line EXCEPT !.words = words]
  BY DEF R!RewrittenLine, LineType, i, word
<1> HIDE DEF words
<1>7. [line EXCEPT !.words = words] \in LineType
  BY <1>5 DEF LineType
<1> QED BY <1>1, <1>2, <1>6, <1>7

LEMMA BornFields ==
  ASSUME Given, NEW a, Born(a)
  PROVE  /\ a.id \in DOMAIN ws.files /\ a.dir = ws.files[a.id].dir
         /\ a.dir \in Seq(STRING) /\ a.stem \in STRING /\ a.ext \in Maybe(STRING)
         /\ a.rank \in Nat /\ a.length \in Nat /\ a.valid \in BOOLEAN
         /\ a.format = ws.files[a.id].format
<1> DEFINE f == ws.files[a.id]
<1>1. a.id \in DOMAIN ws.files /\ a = [AssetOf(a.id, f) EXCEPT !.hash = a.hash]
  BY DEF Born
<1>2. f \in FileType
  BY <1>1, WorkspaceFacts
<1> HIDE DEF f
<1>3. /\ a.dir = f.dir /\ a.stem = f.stem /\ a.ext = f.ext /\ a.rank = f.rank
      /\ a.length = f.length /\ a.valid = f.valid /\ a.format = f.format
  BY <1>1 DEF AssetOf
<1>4. /\ f.dir \in Seq(STRING) /\ f.stem \in STRING /\ f.ext \in STRING /\ f.rank \in Nat
      /\ f.length \in Nat /\ f.valid \in BOOLEAN
  BY <1>2 DEF FileType
<1> QED BY <1>1, <1>3, <1>4 DEF f, Maybe

LEMMA PresentIsOnDisk ==
  ASSUME Given, OnDisk
  PROVE  /\ DOMAIN disk = DOMAIN ws.files
         /\ \A k \in Present : k \in DOMAIN ws.files /\ Version(k, disk[k])
<1>1. DOMAIN disk = DOMAIN ws.files
  BY DEF OnDisk
<1> QED BY <1>1 DEF OnDisk, Present

Rewrites(p) ==
  /\ p = [file |-> p.file, line |-> p.line, original |-> p.original,
          proposed |-> p.proposed]
  /\ p.original \in LineType /\ p.original.words # <<>> /\ p.proposed \in LineType

LEMMA ProposalsRewrite ==
  ASSUME Given, OnDisk, SourcesAreNoAssets, index # None,
         NEW doomed, NEW keeper \in index.assets,
         NEW p \in R!Proposals(index.refs, Folders, doomed, keeper)
  PROVE  Rewrites(p)
<1> DEFINE Traced == {ra \in index.refs \X doomed :
                        /\ ra[1].asset = ra[2].id /\ ra[2] # keeper
                        /\ R!Holding(ra[1].content, ra[2]) # {}}
           Line(r, a) == R!RewrittenLine(r.content, a, Folders[r.file], keeper)
<1>1. PICK ra \in Traced :
        p = [file |-> ra[1].file, line |-> ra[1].line, original |-> ra[1].content,
             proposed |-> Line(ra[1], ra[2])]
  BY DEF R!Proposals
<1>2. ra[1] \in index.refs /\ R!Holding(ra[1].content, ra[2]) # {}
  OBVIOUS
<1>3. Reference(ra[1]) /\ Born(keeper)
  BY <1>2 DEF SourcesAreNoAssets
<1>4. ra[1].content \in LineType
  BY <1>3 DEF Reference
<1>5. Folders[ra[1].file] \in Seq(STRING)
  <2>1. ra[1].file = ConfigFile \/ ra[1].file \in DOMAIN disk
    BY <1>3, PresentIsOnDisk DEF Reference, SourceKey
  <2>2. CASE ra[1].file = ConfigFile
    <3>1. Folders[ra[1].file] = <<>>
      BY <2>2 DEF Folders
    <3> QED BY <3>1
  <2>3. CASE ra[1].file \in DOMAIN disk /\ ra[1].file # ConfigFile
    <3>1. Folders[ra[1].file] = ws.files[ra[1].file].dir
      BY <2>3 DEF Folders
    <3>2. ws.files[ra[1].file] \in FileType
      BY <2>3, PresentIsOnDisk, WorkspaceFacts
    <3> QED BY <3>1, <3>2 DEF FileType
  <2> QED BY <2>1, <2>2, <2>3
<1>6. Line(ra[1], ra[2]) \in LineType /\ ra[1].content.words # <<>>
  BY <1>2, <1>3, <1>4, <1>5, BornFields, RewrittenIsLine
<1> HIDE DEF Line
<1> QED BY <1>1, <1>4, <1>6 DEF Rewrites

LEMMA RewritesHold ==
  ASSUME Given, OnDisk, SourcesAreNoAssets, RewritesHeld, [Next]_vars
  PROVE  RewritesHeld'
<1>1. ws' = ws
  BY StepEffects
<1>2. \A p \in plan'.proposals : Rewrites(p)
  <2>1. CASE plan' = plan
    BY <2>1 DEF RewritesHeld, Rewrites
  <2>2. CASE ProposeRewrites
    <3>1. PICK g \in index.groups, keeper \in index.assets :
            plan' = [keeper |-> keeper, doomed |-> g \ {keeper},
                     proposals |-> R!Proposals(index.refs, Folders, g \ {keeper}, keeper)]
      BY <2>2 DEF ProposeRewrites
    <3>2. plan'.proposals = R!Proposals(index.refs, Folders, g \ {keeper}, keeper)
      BY <3>1
    <3>3. index # None
      BY <2>2 DEF ProposeRewrites
    <3> QED BY <3>2, <3>3, ProposalsRewrite
  <2>3. CASE Kill
    BY <2>3 DEF Kill, NoPlan
  <2> QED BY <2>1, <2>2, <2>3, StepEffects
<1>3. ASSUME rewrite' # None
      PROVE  LET p == rewrite'.proposal IN
             /\ p.original # EditedLine /\ p.proposed \in LineType
             /\ SourceKey(p.file) /\ Version(p.file, rewrite'.read)
             /\ R!StillThere(rewrite'.read.lines, p)
  <2>1. CASE rewrite' = rewrite
    BY <1>3, <2>1 DEF RewritesHeld
  <2>2. CASE ReadForRewrite
    <3>1. PICK p \in plan.proposals :
            /\ R!Traced(index.refs, p)
            /\ p.file \in Present /\ R!StillThere(disk[p.file].lines, p)
            /\ rewrite' = [proposal |-> p, read |-> disk[p.file]]
      BY <2>2 DEF ReadForRewrite
    <3>2. rewrite'.proposal = p /\ rewrite'.read = disk[p.file]
      BY <3>1
    <3>3. p.original # EditedLine /\ p.proposed \in LineType
      BY EditedLineAssumption DEF RewritesHeld
    <3>4. p.file \in DOMAIN ws.files /\ Version(p.file, disk[p.file])
      BY <3>1, PresentIsOnDisk
    <3>5. SourceKey(p.file)
      <4>1. PICK r \in index.refs : r.file = p.file
        BY <3>1 DEF R!Traced
      <4>2. index # None
        BY <2>2 DEF ReadForRewrite
      <4>3. Reference(r)
        BY <4>2 DEF SourcesAreNoAssets
      <4> QED BY <3>4, <4>1, <4>3, WorkspaceFacts DEF Reference
    <3> QED BY <3>1, <3>2, <3>3, <3>4, <3>5
  <2>3. CASE WriteRewrite \/ Kill
    BY <1>3, <2>3 DEF WriteRewrite, Kill
  <2> QED BY <2>1, <2>2, <2>3, StepEffects
<1> QED BY <1>1, <1>2, <1>3 DEF RewritesHeld, Rewrites, SourceKey, Version

(* EditsSurvive, of one step.                                              *)
LEMMA EditSurvives ==
  ASSUME Given, OnDisk, RewritesHeld, [Next]_vars,
         rewrite # None, rewrite' = None, kills' = kills,
         NEW i \in DOMAIN rewrite.read.lines, rewrite.read.lines[i] = EditedLine
  PROVE  disk'[rewrite.proposal.file].lines[i] = EditedLine
<1> DEFINE p == rewrite.proposal
           lines == [rewrite.read.lines EXCEPT ![p.line] = p.proposed]
<1>1. /\ p.original # EditedLine /\ p.file \in DOMAIN ws.files
      /\ Version(p.file, rewrite.read) /\ rewrite.read.lines[p.line] = p.original
  BY DEF RewritesHeld, SourceKey, R!StillThere
<1>2. WriteRewrite
  <2>1. rewrite' # rewrite
    OBVIOUS
  <2>2. ~ReadForRewrite /\ ~Kill
    BY DEF ReadForRewrite, Kill, Given
  <2> QED BY <2>1, <2>2, StepEffects
<1>3. disk' = [disk EXCEPT ![p.file] = [rewrite.read EXCEPT !.lines = lines]]
  <2>1. disk' = [disk EXCEPT ![p.file] = [rewrite.read EXCEPT !.lines[p.line] = p.proposed]]
    BY <1>2 DEF WriteRewrite
  <2>2. rewrite.read \in FileType
    BY <1>1, WorkspaceFacts, VersionIsFile
  <2>3. [rewrite.read EXCEPT !.lines[p.line] = p.proposed]
          = [rewrite.read EXCEPT !.lines = lines]
    BY <2>2 DEF FileType
  <2> QED BY <2>1, <2>3
<1>4. i # p.line
  BY <1>1
<1>5. lines[i] = EditedLine
  BY <1>4
<1>6. p.file \in DOMAIN disk
  BY <1>1, PresentIsOnDisk
<1>7. rewrite.read \in FileType
  BY <1>1, WorkspaceFacts, VersionIsFile
<1> HIDE DEF lines, p
<1>8. [rewrite.read EXCEPT !.lines = lines].lines = lines
  BY <1>7 DEF FileType
<1>9. disk'[p.file].lines = lines
  BY <1>3, <1>6, <1>8
<1> QED BY <1>5, <1>9 DEF p

-----------------------------------------------------------------------------
(* What an analysis concludes.                                             *)
LEMMA FiniteImage ==
  ASSUME NEW S, IsFiniteSet(S), NEW f
  PROVE  IsFiniteSet({f[x] : x \in S})
<1> DEFINE T == {f[x] : x \in S}
           g == [x \in S |-> f[x]]
<1>1. g \in Surjection(S, T)
  BY DEF Surjection
<1> QED BY <1>1, FS_Surjection

LEMMA RuleIdsFinite == IsFiniteSet(RuleIds)
<1> DEFINE A == {"unref", "dup"}
           B == {"size", "dims"}
           C == {"naming", "svg"}
           D == {"formats", "gif"}
<1>1. \A x, y : IsFiniteSet({x, y})
  <2> TAKE x, y
  <2>1. IsFiniteSet({x}) /\ IsFiniteSet({y})
    BY FS_Singleton
  <2>2. {x, y} = {x} \cup {y}
    OBVIOUS
  <2> QED BY <2>1, <2>2, FS_Union
<1>2. IsFiniteSet(A) /\ IsFiniteSet(B) /\ IsFiniteSet(C) /\ IsFiniteSet(D)
  BY <1>1
<1> HIDE DEF A, B, C, D
<1>3. IsFiniteSet(A \cup B) /\ IsFiniteSet(C \cup D)
  BY <1>2, FS_Union
<1>4. IsFiniteSet((A \cup B) \cup (C \cup D))
  BY <1>3, FS_Union
<1>5. RuleIds = (A \cup B) \cup (C \cup D)
  BY DEF RuleIds, A, B, C, D
<1> QED BY <1>4, <1>5

LEMMA DiagnosticsFinite ==
  ASSUME NEW policy, NEW seen, NEW assets, IsFiniteSet(assets), NEW groups, NEW refs
  PROVE  IsFiniteSet(Diagnostics(policy, seen, assets, groups, refs))
<1> DEFINE S == {x \in RuleIds \X assets : Flagged(x[1], policy, seen, groups, refs, x[2])}
           e(x) == [rule |-> x[1], asset |-> x[2].id, sev |-> PolicyFor(policy, x[2])[x[1]].sev]
           f == [x \in S |-> e(x)]
<1>1. IsFiniteSet(RuleIds \X assets)
  BY RuleIdsFinite, FS_Product
<1>2. S \in SUBSET (RuleIds \X assets)
  OBVIOUS
<1>3. IsFiniteSet(S)
  <2> HIDE DEF S
  <2> QED BY <1>1, <1>2, FS_Subset
<1>4. Diagnostics(policy, seen, assets, groups, refs) = {e(x) : x \in S}
  BY DEF Diagnostics
<1>5. {e(x) : x \in S} = {f[x] : x \in S}
  <2> HIDE DEF S, e
  <2> QED OBVIOUS
<1>6. IsFiniteSet({f[x] : x \in S})
  <2> HIDE DEF S, f
  <2> QED BY <1>3, FiniteImage
<1>7. Diagnostics(policy, seen, assets, groups, refs) = {f[x] : x \in S}
  <2> HIDE DEF S, f
  <2> QED BY <1>4, <1>5
<1> HIDE DEF S, f
<1> QED BY <1>6, <1>7

LEMMA ScoreIsPercent ==
  ASSUME NEW assets, IsFiniteSet(assets), NEW diags, IsFiniteSet(diags)
  PROVE  HealthScore(assets, diags).score \in 0 .. 100
<1> DEFINE total == Cardinality(assets)
           invalid == Cardinality({a \in assets : ~a.valid})
           errors == Cardinality(WithSeverity(diags, "error"))
           warnings == Cardinality(WithSeverity(diags, "warning"))
           penalty == 15 * errors + 5 * warnings + 20 * invalid
           n == AtLeast0(100 * total - 10 * penalty)
<1>1. total \in Nat /\ invalid \in Nat /\ errors \in Nat /\ warnings \in Nat
  <2>1. /\ {a \in assets : ~a.valid} \in SUBSET assets
        /\ WithSeverity(diags, "error") \in SUBSET diags
        /\ WithSeverity(diags, "warning") \in SUBSET diags
    BY DEF WithSeverity
  <2>2. /\ IsFiniteSet({a \in assets : ~a.valid})
        /\ IsFiniteSet(WithSeverity(diags, "error"))
        /\ IsFiniteSet(WithSeverity(diags, "warning"))
    BY <2>1, FS_Subset
  <2> QED BY <2>2, FS_CardinalityType
<1>2. CASE total = 0
  BY <1>2 DEF HealthScore, NoAssets
<1>3. CASE total # 0
  <2>1. HealthScore(assets, diags).score = Rounded(n, total)
    BY <1>3 DEF HealthScore
  <2> HIDE DEF total, invalid, errors, warnings
  <2>2. n \in Nat /\ n <= 100 * total
    BY <1>1 DEF AtLeast0
  <2> HIDE DEF n
  <2>3. Rounded(n, total) \in 0 .. 100
    <3>1. 2 * n + total \in Nat /\ 2 * total \in Nat /\ 2 * total > 0
      BY <1>1, <1>3, <2>2
    <3>2. 2 * n + total < 101 * (2 * total)
      BY <1>1, <1>3, <2>2
    <3> QED BY <3>1, <3>2, <1>1, <1>3, <2>2 DEF Rounded
  <2> QED BY <2>1, <2>3
<1> QED BY <1>2, <1>3

LEMMA SeenAlike ==
  ASSUME Given, OnDisk, NEW rules, NEW k \in Present
  PROVE  /\ IsCandidate(rules, disk[k]) <=> IsCandidate(rules, ws.files[k])
         /\ Visible(rules, disk[k]) <=> Visible(rules, ws.files[k])
         /\ disk[k].ext = ws.files[k].ext /\ disk[k].dir = ws.files[k].dir
         /\ disk[k].format = ws.files[k].format
<1>1. k \in DOMAIN ws.files /\ Version(k, disk[k]) /\ ws.files[k] \in FileType
  BY PresentIsOnDisk, WorkspaceFacts
<1>2. /\ disk[k].ext = ws.files[k].ext /\ disk[k].dir = ws.files[k].dir
      /\ disk[k].hidden = ws.files[k].hidden /\ disk[k].format = ws.files[k].format
  BY <1>1, VersionIsFile
<1> QED BY <1>2 DEF IsCandidate, Visible

LEMMA CandidatesFound ==
  ASSUME Given, OnDisk, NEW rules
  PROVE  /\ IsFiniteSet(Candidates(rules))
         /\ \A c \in Candidates(rules) :
              /\ c.id \in DOMAIN ws.files /\ c = [id |-> c.id, ext |-> ws.files[c.id].ext]
              /\ IsCandidate(rules, ws.files[c.id])
         /\ \A k \in Present : IsCandidate(rules, ws.files[k]) =>
              [id |-> k, ext |-> ws.files[k].ext] \in Candidates(rules)
<1> DEFINE S == {j \in Present : IsCandidate(rules, disk[j])}
           f == [k \in S |-> [id |-> k, ext |-> disk[k].ext]]
<1>1. S \in SUBSET DOMAIN ws.files
  BY PresentIsOnDisk
<1>2. IsFiniteSet(S)
  <2> HIDE DEF S
  <2> QED BY <1>1, WorkspaceFacts, FS_Subset
<1>3. Candidates(rules) = {f[k] : k \in S}
  BY DEF Candidates
<1>4. IsFiniteSet(Candidates(rules))
  <2> HIDE DEF S, f
  <2> QED BY <1>2, <1>3, FiniteImage
<1>5. \A k \in S : /\ f[k] = [id |-> k, ext |-> ws.files[k].ext]
                   /\ IsCandidate(rules, ws.files[k]) /\ k \in DOMAIN ws.files
  BY <1>1, SeenAlike
<1>6. \A k \in Present : IsCandidate(rules, ws.files[k]) => k \in S
  BY SeenAlike
<1>7. ASSUME NEW c \in Candidates(rules)
      PROVE  /\ c.id \in DOMAIN ws.files /\ c = [id |-> c.id, ext |-> ws.files[c.id].ext]
             /\ IsCandidate(rules, ws.files[c.id])
  <2>1. PICK k \in S : c = f[k]
    <3> HIDE DEF S, f
    <3> QED BY <1>3
  <2>2. c = [id |-> k, ext |-> ws.files[k].ext]
    BY <1>5, <2>1
  <2>3. c.id = k
    BY <2>2
  <2> HIDE DEF S, f
  <2> QED BY <1>5, <2>2, <2>3
<1>8. ASSUME NEW k \in Present, IsCandidate(rules, ws.files[k])
      PROVE  [id |-> k, ext |-> ws.files[k].ext] \in Candidates(rules)
  <2>1. k \in S
    BY <1>6, <1>8
  <2>2. f[k] \in Candidates(rules)
    <3> HIDE DEF S, f
    <3> QED BY <1>3, <2>1
  <2> HIDE DEF S, f
  <2> QED BY <1>5, <2>1, <2>2
<1> QED BY <1>4, <1>7, <1>8

LEMMA SeenIsBorn ==
  ASSUME Given, OnDisk, NEW k \in Present
  PROVE  /\ Born(AssetOf(k, disk[k])) /\ AssetOf(k, disk[k]).id = k
         /\ AssetOf(k, disk[k]).hash = None
<1> DEFINE f == disk[k]
           g == ws.files[k]
           a == AssetOf(k, f)
<1>1. k \in DOMAIN ws.files /\ Version(k, f) /\ g \in FileType
  BY PresentIsOnDisk, WorkspaceFacts
<1>2. f = [g EXCEPT !.lines = f.lines]
  BY <1>1 DEF Version
<1> HIDE DEF f, g
<1>3. AssetOf(k, f) = AssetOf(k, g)
  BY <1>1, <1>2 DEF AssetOf, FileType
<1>4. a.id = k /\ a.hash = None /\ a = [AssetOf(k, g) EXCEPT !.hash = None]
  BY <1>3 DEF AssetOf
<1> HIDE DEF a
<1> QED BY <1>1, <1>4 DEF Born, f, g, a

LEMMA HashedIsBorn ==
  ASSUME NEW a, Born(a)
  PROVE  /\ Born(Hashed(a)) /\ Hashed(a).id = a.id
         /\ Hashed(a) = [a EXCEPT !.hash = IF disk[a.id] = None THEN None
                                           ELSE disk[a.id].content]
<1> DEFINE g == ws.files[a.id]
           h == IF disk[a.id] = None THEN None ELSE disk[a.id].content
<1>1. a.id \in DOMAIN ws.files /\ a = [AssetOf(a.id, g) EXCEPT !.hash = a.hash]
  BY DEF Born
<1>2. Hashed(a) = [a EXCEPT !.hash = h]
  BY DEF Hashed
<1> HIDE DEF g, h
<1>3. Hashed(a).id = a.id
  BY <1>1, <1>2 DEF AssetOf
<1>4. Hashed(a) = [AssetOf(a.id, g) EXCEPT !.hash = Hashed(a).hash]
  BY <1>1, <1>2 DEF AssetOf
<1> QED BY <1>1, <1>2, <1>3, <1>4 DEF Born, g, h

-----------------------------------------------------------------------------
(* The types of an analysis under way.                                     *)
LEMMA EmptyContents ==
  ASSUME scan'.found = {}, scan'.todo = {}, scan'.assets = {}, scan'.incomplete = 0,
         scan'.diags = {}, scan'.report = NoAssets
  PROVE  Contents'
<1> QED BY FS_EmptySet DEF Contents, NoAssets

LEMMA NoScanTyped ==
  ASSUME scan' = NoScan, exit' \in {None, 0, 1, 2}
  PROVE  ScanTyped'
<1>1. IsScan'
  BY NoScanIsScan
<1>2. /\ scan'.phase = "idle" /\ scan'.by = None /\ scan'.found = {} /\ scan'.todo = {}
      /\ scan'.assets = {} /\ scan'.incomplete = 0 /\ scan'.diags = {}
      /\ scan'.report = NoAssets
  BY NoScanFields
<1>3. Contents'
  BY <1>2, EmptyContents
<1>4. Stages'
  BY <1>2 DEF Stages, Phases, Working
<1> QED BY <1>1, <1>3, <1>4 DEF ScanTyped

LEMMA SteadyTyped ==
  ASSUME ScanTyped, scan' = scan, ws' = ws, scans \in Nat, scans' \in {scans, scans + 1},
         exit' \in {None, 0, 1, 2}
  PROVE  ScanTyped'
<1>1. Contents'
  BY DEF ScanTyped, Contents, Born
<1>2. Stages'
  BY DEF ScanTyped, Stages, Working
<1> QED BY <1>1, <1>2 DEF ScanTyped, IsScan, Shape

LEMMA GatedTyped ==
  ASSUME scan' = [NoScan EXCEPT !.phase = "gated", !.ci = Load(config).ci],
         Load(config).ci \in GateType, exit' = None, scans \in Nat, scans' = scans + 1
  PROVE  ScanTyped'
<1>1. /\ IsScan' /\ scan'.phase = "gated" /\ scan'.ci = Load(config).ci
      /\ scan' = [NoScan EXCEPT !.phase = "gated", !.ci = scan'.ci]
      /\ scan'.by = None /\ scan'.found = {} /\ scan'.todo = {}
      /\ scan'.assets = {} /\ scan'.incomplete = 0
      /\ scan'.diags = {} /\ scan'.report = NoAssets
  BY GatedStep
<1>2. Contents'
  BY <1>1, EmptyContents
<1>3. Stages'
  BY <1>1 DEF Stages, Phases, Working
<1> QED BY <1>1, <1>2, <1>3 DEF ScanTyped

LEMMA StartedTyped ==
  ASSUME Given, OnDisk, ScanTyped, ws' = ws, NEW by \in {"daemon", "check"}, Start(by),
         scans' >= 1, exit' \in {None, 0, 1, 2}
  PROVE  ScanTyped'
<1>1. CASE IsScan' /\ StartedAs(by)
  <2> DEFINE rules == ScanRules(CombinedIgnores(Load(config)))
  <2>1. /\ scan'.phase = "ingest" /\ scan'.by = by /\ scan'.ci = scan.ci
        /\ scan'.found = Candidates(rules) /\ scan'.todo = Candidates(rules)
        /\ scan'.assets = {} /\ scan'.incomplete = 0 /\ scan'.diags = {}
        /\ scan'.report = NoAssets
    BY <1>1 DEF StartedAs
  <2>2. Contents'
    <3> HIDE DEF rules
    <3> QED BY <2>1, CandidatesFound, FS_EmptySet DEF Contents, NoAssets
  <2>3. by = "check" => scan.ci \in GateType
    BY DEF Start, ScanTyped, Stages
  <2>4. Stages'
    <3> HIDE DEF rules
    <3> QED BY <2>1, <2>3 DEF Stages, Phases, Working
  <2> QED BY <1>1, <2>2, <2>4 DEF ScanTyped
<1>2. CASE scan' = NoScan
  BY <1>2, NoScanTyped
<1> QED BY <1>1, <1>2, StartStep

LEMMA AdvanceTyped ==
  ASSUME Given, OnDisk, ScanTyped, ws' = ws, scans' = scans, Advance, exit' = exit
  PROVE  ScanTyped'
<1>1. IsScan /\ Contents /\ Stages /\ exit' \in {None, 0, 1, 2}
  BY DEF ScanTyped
<1>2. CASE Ingest
  <2>1. /\ IsScan' /\ SameCrawl /\ SameVerdict
        /\ scan.phase = "ingest" /\ scan'.phase = "ingest"
    BY <1>1, <1>2, IngestStep
  <2>2. PICK c \in scan.todo :
              /\ scan'.todo = scan.todo \ {c}
              /\ \/ /\ disk[c.id] # None /\ disk[c.id].format # "none"
                    /\ scan'.assets = scan.assets \cup {AssetOf(c.id, disk[c.id])}
                    /\ scan'.incomplete = scan.incomplete
                 \/ scan'.assets = scan.assets /\ scan'.incomplete = scan.incomplete
                 \/ scan'.assets = scan.assets /\ scan'.incomplete = scan.incomplete + 1
    BY <1>1, <1>2, IngestStep
  <2>3. c.id \in DOMAIN ws.files
    BY <1>1 DEF Contents
  <2>4. \A a \in scan'.assets : a \in scan.assets \/ Born(a)
    <3>1. disk[c.id] # None => Born(AssetOf(c.id, disk[c.id]))
      <4>1. disk[c.id] # None => c.id \in Present
        BY <2>3, PresentIsOnDisk DEF Present
      <4> QED BY <4>1, SeenIsBorn
    <3> QED BY <2>2, <3>1
  <2>5. IsFiniteSet(scan'.assets)
    <3>1. IsFiniteSet(scan.assets)
      BY <1>1 DEF Contents
    <3>2. IsFiniteSet(scan.assets \cup {AssetOf(c.id, disk[c.id])})
      BY <3>1, FS_AddElement
    <3> QED BY <2>2, <3>1, <3>2
  <2>6. \A a \in scan'.assets : Born(a)'
    BY <1>1, <2>4 DEF Born, Contents
  <2>7. Contents'
    BY <1>1, <2>1, <2>2, <2>5, <2>6 DEF Contents, SameCrawl, SameVerdict
  <2>8. Stages'
    BY <1>1, <2>1 DEF Stages, SameCrawl, Phases, Working
  <2> QED BY <1>1, <2>1, <2>7, <2>8 DEF ScanTyped
<1>3. CASE HashAndGroup
  <2>1. /\ IsScan' /\ SameCrawl /\ SameVerdict /\ scan.phase = "ingest"
        /\ scan'.phase = "trace" /\ scan'.todo = scan.todo
        /\ scan'.incomplete = scan.incomplete
        /\ scan'.assets = {Hashed(a) : a \in scan.assets}
    BY <1>1, <1>3, HashStep
  <2>2. \A a \in scan'.assets : Born(a)
    BY <1>1, <2>1, HashedIsBorn DEF Contents
  <2>3. IsFiniteSet(scan'.assets)
    <3> DEFINE f == [a \in scan.assets |-> Hashed(a)]
    <3>1. scan'.assets = {f[a] : a \in scan.assets}
      BY <2>1
    <3>2. IsFiniteSet(scan.assets)
      BY <1>1 DEF Contents
    <3> HIDE DEF f
    <3> QED BY <3>1, <3>2, FiniteImage
  <2>4. \A a \in scan'.assets : Born(a)'
    BY <2>2 DEF Born
  <2>5. Contents'
    BY <1>1, <2>1, <2>3, <2>4 DEF Contents, SameCrawl, SameVerdict
  <2>6. Stages'
    BY <1>1, <2>1 DEF Stages, SameCrawl, Phases, Working
  <2> QED BY <1>1, <2>1, <2>5, <2>6 DEF ScanTyped
<1>4. CASE TraceFile
  <2>1. /\ IsScan' /\ SameCrawl /\ SameAssets /\ SameVerdict
        /\ scan.phase = "trace" /\ scan'.phase = "trace"
    BY <1>1, <1>4, TraceStep
  <2>2. Contents'
    BY <1>1, <2>1 DEF Contents, Born, SameCrawl, SameAssets, SameVerdict
  <2>3. Stages'
    BY <1>1, <2>1 DEF Stages, SameCrawl, Phases, Working
  <2> QED BY <1>1, <2>1, <2>2, <2>3 DEF ScanTyped
<1>5. CASE Govern
  <2>1. /\ IsScan' /\ SameCrawl /\ SameAssets
        /\ scan.phase = "trace" /\ scan'.phase = "done"
        /\ scan'.diags = Diagnostics(scan.policy, disk, scan.assets, scan.groups, scan'.refs)
        /\ scan'.report = HealthScore(scan.assets, scan'.diags)
    BY <1>1, <1>5, GovernStep
  <2>2. IsFiniteSet(scan'.diags)
    BY <1>1, <2>1, DiagnosticsFinite DEF Contents
  <2>3. scan'.report.score \in 0 .. 100
    BY <1>1, <2>1, <2>2, ScoreIsPercent DEF Contents
  <2>4. Contents'
    BY <1>1, <2>1, <2>2, <2>3 DEF Contents, Born, SameCrawl, SameAssets
  <2>5. Stages'
    BY <1>1, <2>1 DEF Stages, SameCrawl, Phases, Working
  <2> QED BY <1>1, <2>1, <2>4, <2>5 DEF ScanTyped
<1>6. CASE RecordSnapshot \/ WriteAuditEvent
  <2>1. /\ IsScan' /\ SameCrawl /\ SameAssets /\ SameVerdict
        /\ scan.by = "daemon" /\ scan.phase \in {"done", "snapshotted"}
        /\ scan'.phase \in {"snapshotted", "audited", "failed"}
    BY <1>1, <1>6, RecordStep DEF Stages
  <2>2. Contents'
    BY <1>1, <2>1 DEF Contents, Born, SameCrawl, SameAssets, SameVerdict
  <2>3. Stages'
    BY <1>1, <2>1 DEF Stages, SameCrawl, Phases, Working
  <2> QED BY <1>1, <2>1, <2>2, <2>3 DEF ScanTyped
<1> QED BY <1>2, <1>3, <1>4, <1>5, <1>6 DEF Advance

LEMMA ScanTypedHolds ==
  ASSUME Given, OnDisk, ScanTyped, [Next]_vars
  PROVE  ScanTyped'
<1>1. ws' = ws /\ scans \in Nat /\ exit \in {None, 0, 1, 2}
  BY StepEffects DEF Given, ScanTyped
<1>2. scans' \in {scans, scans + 1}
  BY StepEffects DEF StartScan, StartCheck
<1>3. CASE scan' = scan /\ exit' \in {exit, 1}
  BY <1>1, <1>2, <1>3, SteadyTyped
<1>4. CASE StartScan /\ Start("daemon")
  <2>1. scans' >= 1 /\ exit' \in {exit, 1}
    BY <1>1, <1>4 DEF StartScan, Start
  <2> QED BY <1>1, <1>4, <2>1, StartedTyped
<1>5. CASE RunCheck /\ Start("check")
  <2>1. scans' = scans /\ exit' \in {exit, 1} /\ scan.phase = "gated"
    BY <1>1, <1>5 DEF RunCheck, Start
  <2>2. scans >= 1
    BY <2>1 DEF ScanTyped, Stages
  <2> QED BY <1>1, <1>5, <2>1, <2>2, StartedTyped
<1>6. CASE /\ StartCheck /\ exit' = None
           /\ scan' = [NoScan EXCEPT !.phase = "gated", !.ci = Load(config).ci]
  <2>1. scans' = scans + 1
    BY <1>6 DEF StartCheck
  <2>2. Load(config).ci \in GateType
    BY WorkspaceFacts, LoadedPolicy
  <2> QED BY <1>1, <1>6, <2>1, <2>2, GatedTyped
<1>7. CASE Advance /\ exit' = exit
  <2>1. scans' = scans
    BY <1>7 DEF Advance, Ingest, HashAndGroup, TraceFile, Govern, RecordSnapshot,
                WriteAuditEvent
  <2> QED BY <1>1, <1>7, <2>1, AdvanceTyped
<1>8. CASE AnswerCheck
  <2>1. scan' = NoScan
    BY <1>8 DEF AnswerCheck
  <2>2. exit' \in {0, 1, 2}
    BY <1>8 DEF AnswerCheck, ExitCode
  <2> QED BY <2>1, <2>2, NoScanTyped
<1>9. CASE scan' = NoScan /\ exit' = exit
  BY <1>1, <1>9, NoScanTyped
<1> QED BY <1>1, <1>3, <1>4, <1>5, <1>6, <1>7, <1>8, <1>9, ScanCases

-----------------------------------------------------------------------------
(* The rules and the policy of an analysis are those it began with.        *)
LEMMA PairOrNothing ==
  ASSUME NEW S, NEW x \in S, NEW y \in S, NEW b
  PROVE  (IF b THEN <<x, y>> ELSE <<>>) \in Seq(S)
<1> QED OBVIOUS

LEMMA RulesEndWithIgnoreFile ==
  ASSUME Given
  PROVE  \E first \in Seq(AnyPattern) :
           ScanRules(CombinedIgnores(Load(config)))
             = DefaultRules \o (first \o ws.animoriaignore)
<1> DEFINE policy == Load(config)
           unity == UnityGenerated(ws.unity)
           both == Combined(ws.custom, policy.files.ignore)
           docs == IF policy.files.docs
                   THEN <<Include(FALSE, <<"docs">>), Include(FALSE, <<"doc">>)>> ELSE <<>>
           P == AnyPattern
<1>1. PatternType \subseteq P
  BY DEF AnyPattern
<1>2. both \in Seq(P)
  <2>1. policy.files.ignore \in Seq(PatternType) /\ ws.custom \in Seq(PatternType)
    BY WorkspaceFacts, LoadedPolicy
  <2>2. policy.files.ignore \in Seq(P) /\ ws.custom \in Seq(P)
    <3> HIDE DEF policy, P
    <3> QED BY <1>1, <2>1
  <2> HIDE DEF policy, P
  <2> QED BY <2>2, CombinedIsSeq
<1>3. docs \in Seq(P)
  <2>1. Include(FALSE, <<"docs">>) \in P /\ Include(FALSE, <<"doc">>) \in P
    BY DEF AnyPattern
  <2> HIDE DEF P, policy
  <2> QED BY <2>1, PairOrNothing
<1>4. unity \in Seq(P)
  <2>1. Exclude(TRUE, <<"Library">>) \in P /\ Exclude(TRUE, <<"Temp">>) \in P
    BY DEF AnyPattern
  <2> HIDE DEF P
  <2> QED BY <2>1, PairOrNothing DEF UnityGenerated
<1>5. CombinedIgnores(policy) = both \o docs
  BY DEF CombinedIgnores
<1>6. ScanRules(CombinedIgnores(policy))
        = DefaultRules \o ((unity \o (both \o docs)) \o ws.animoriaignore)
  BY <1>5 DEF ScanRules, Rules
<1>7. unity \o (both \o docs) \in Seq(P)
  <2> HIDE DEF unity, both, docs, P
  <2> QED BY <1>2, <1>3, <1>4
<1> QED BY <1>6, <1>7

LEMMA RulesStayFixed ==
  ASSUME Given, ScanTyped, RulesFixed, [Next]_vars
  PROVE  RulesFixed'
<1>1. /\ ws' = ws /\ (edits' = 0 => edits = 0 /\ config' = config)
  BY StepEffects DEF UserEdit, Given
<1>2. CASE scan' = scan
  BY <1>1, <1>2 DEF RulesFixed, Working
<1>3. CASE scan' = NoScan
  BY <1>3, NoScanFields DEF RulesFixed, Working
<1>4. ASSUME NEW by, Start(by) PROVE RulesFixed'
  <2>1. CASE IsScan' /\ StartedAs(by)
    <3>1. /\ scan'.policy = Load(config)
          /\ scan'.patterns = ScanRules(CombinedIgnores(Load(config)))
      BY <2>1 DEF StartedAs
    <3> QED BY <1>1, <3>1, RulesEndWithIgnoreFile DEF RulesFixed
  <2> QED BY <1>3, <1>4, <2>1, StartStep
<1>5. CASE scan' = [NoScan EXCEPT !.phase = "gated", !.ci = Load(config).ci]
  BY <1>5, GatedStep DEF RulesFixed, Working
<1>6. CASE Advance
  <2>1. SameCrawl /\ Working
    BY <1>6, IngestStep, HashStep, TraceStep, GovernStep, RecordStep
       DEF Advance, ScanTyped, Working
  <2> QED BY <1>1, <2>1 DEF SameCrawl, RulesFixed
<1> QED BY <1>2, <1>3, <1>4, <1>5, <1>6, ScanCases DEF AnswerCheck

-----------------------------------------------------------------------------
(* What is found.                                                          *)
LEMMA Resurrected ==
  ASSUME Given, OnDisk, RewritesHeld, [Next]_vars
  PROVE  \A k \in Present' : k \in Present \/ ws.files[k].format = "none"
<1>1. CASE disk' = disk
  BY <1>1 DEF Present
<1>2. CASE WriteRewrite
  <2>1. /\ disk' = [disk EXCEPT ![rewrite.proposal.file] =
                      [rewrite.read EXCEPT !.lines[rewrite.proposal.line]
                                             = rewrite.proposal.proposed]]
        /\ SourceKey(rewrite.proposal.file)
    BY <1>2 DEF WriteRewrite, RewritesHeld
  <2>2. \A k \in Present' : k \in Present \/ k = rewrite.proposal.file
    BY <2>1 DEF Present
  <2> QED BY <2>1, <2>2 DEF SourceKey
<1>3. CASE UserEdit
  <2>1. CASE \E k \in Present : disk' = [disk EXCEPT ![k] = None]
    BY <2>1 DEF Present
  <2>2. CASE \E k \in Present : \E i \in DOMAIN disk[k].lines :
               disk' = [disk EXCEPT ![k].lines[i] = EditedLine]
    BY <2>2 DEF Present
  <2> QED BY <1>1, <1>3, <2>1, <2>2 DEF UserEdit
<1> QED BY <1>1, <1>2, <1>3, StepEffects

LEMMA ScanStepsSpareDisk ==
  ASSUME [Next]_vars
  PROVE  scan' = scan \/ (disk' = disk /\ edits' = edits)
<1>1. ~(scan' = scan) => ~UserEdit /\ ~WriteRewrite
  BY DEF UserEdit, WriteRewrite
<1> QED BY <1>1, StepEffects

LEMMA IngestFinds ==
  ASSUME Given, OnDisk, ScanTyped, FoundAll, Ingest, ws' = ws, disk' = disk
  PROVE  FoundAll'
<1>1. IsScan /\ Contents
  BY DEF ScanTyped
<1>2. /\ scan'.found = scan.found /\ scan'.patterns = scan.patterns
      /\ scan.phase = "ingest" /\ scan'.phase = "ingest"
  BY <1>1, IngestStep DEF SameCrawl
<1>3. PICK c \in scan.todo :
        /\ scan'.todo = scan.todo \ {c}
        /\ \/ /\ disk[c.id] # None /\ disk[c.id].format # "none"
              /\ scan'.assets = scan.assets \cup {AssetOf(c.id, disk[c.id])}
              /\ scan'.incomplete = scan.incomplete
           \/ /\ IF disk[c.id] = None THEN c.ext \in {"json", "apng"}
                 ELSE disk[c.id].format = "none"
              /\ scan'.assets = scan.assets /\ scan'.incomplete = scan.incomplete
           \/ /\ disk[c.id] = None /\ scan'.assets = scan.assets
              /\ scan'.incomplete = scan.incomplete + 1
  BY <1>1, IngestStep
<1>4. /\ c \in scan.found /\ c.id \in DOMAIN ws.files
      /\ c = [id |-> c.id, ext |-> ws.files[c.id].ext]
  BY <1>1 DEF Contents
<1>5. c.ext = ws.files[c.id].ext
  BY <1>4
<1> DEFINE asset == AssetOf(c.id, disk[c.id])
<1>6. disk[c.id] # None => /\ asset.id = c.id /\ asset.hash = None /\ Born(asset)
                           /\ disk[c.id].format = ws.files[c.id].format
  <2>1. disk[c.id] # None => c.id \in Present
    BY <1>4, PresentIsOnDisk DEF Present
  <2> QED BY <2>1, SeenIsBorn, SeenAlike
<1>7. \A a \in scan'.assets :
        \/ a \in scan.assets
        \/ /\ a = asset /\ disk[c.id] # None /\ disk[c.id].format # "none"
  BY <1>3
<1>8. scan.assets \subseteq scan'.assets /\ scan.incomplete \in Nat
  BY <1>1, <1>3 DEF Contents
<1>9. scan'.incomplete \in Nat /\ (scan.incomplete > 0 => scan'.incomplete > 0)
  BY <1>3, <1>8
<1> HIDE DEF asset
<1>10. \A a \in scan'.assets :
         /\ ws'.files[a.id].format # "none"
         /\ [id |-> a.id, ext |-> ws'.files[a.id].ext] \in scan'.found \ scan'.todo
  <2> TAKE a \in scan'.assets
  <2>1. CASE a \in scan.assets
    BY <1>2, <1>3, <2>1 DEF FoundAll
  <2>2. CASE a = asset /\ disk[c.id] # None /\ disk[c.id].format # "none"
    BY <1>2, <1>3, <1>4, <1>6, <2>2
  <2> QED BY <1>7, <2>1, <2>2
<1>11. \A d \in scan'.found \ scan'.todo :
         \/ d.id \in Ids'
         \/ ws'.files[d.id].format = "none"
         \/ disk'[d.id] = None /\ (d.ext = "json" \/ scan'.incomplete > 0)
  <2> TAKE d \in scan'.found \ scan'.todo
  <2>1. CASE d # c
    <3>1. d \in scan.found \ scan.todo
      BY <1>2, <1>3, <2>1
    <3>2. Ids \subseteq Ids'
      BY <1>8 DEF Ids
    <3> QED BY <1>9, <3>1, <3>2 DEF FoundAll
  <2>2. CASE d = c
    <3>1. CASE disk[c.id] # None /\ disk[c.id].format # "none" /\ asset \in scan'.assets
      BY <1>6, <2>2, <3>1 DEF Ids
    <3>2. CASE disk[c.id] # None /\ disk[c.id].format = "none"
      BY <1>6, <2>2, <3>2
    <3>3. CASE disk[c.id] = None /\ c.ext \in {"json", "apng"}
      <4>1. c.ext = "apng" => ws.files[c.id].format = "none"
        BY <1>4, <1>5, WorkspaceFacts
      <4> QED BY <2>2, <3>3, <4>1
    <3>4. CASE disk[c.id] = None /\ scan'.incomplete = scan.incomplete + 1
      BY <1>8, <2>2, <3>4
    <3> QED BY <1>3, <3>1, <3>2, <3>3, <3>4 DEF asset
  <2> QED BY <2>1, <2>2
<1>12. \A a \in scan'.assets : a.hash = None
  BY <1>2, <1>6, <1>7 DEF FoundAll
<1>13. \A a, b \in scan'.assets : a.id = b.id => a = b
  <2>1. \A a \in scan'.assets : Born(a)
    BY <1>1, <1>6, <1>7 DEF Contents
  <2>2. \A a \in scan'.assets : a = [AssetOf(a.id, ws.files[a.id]) EXCEPT !.hash = None]
    BY <1>12, <2>1 DEF Born
  <2> QED BY <2>2
<1>14. \A k \in Present' :
         ws'.files[k].format # "none" /\ IsCandidate(scan'.patterns, ws'.files[k])
           => [id |-> k, ext |-> ws'.files[k].ext] \in scan'.found
  BY <1>2 DEF FoundAll, Working, Present
<1>15. \A d \in scan'.found : IsCandidate(scan'.patterns, ws'.files[d.id])
  BY <1>2 DEF FoundAll
<1> QED BY <1>2, <1>10, <1>11, <1>12, <1>13, <1>14, <1>15 DEF FoundAll, Working, Judged

LEMMA StartFinds ==
  ASSUME Given, OnDisk, NEW by, StartedAs(by), ws' = ws, disk' = disk
  PROVE  FoundAll'
<1> DEFINE rules == ScanRules(CombinedIgnores(Load(config)))
<1>1. /\ scan'.phase = "ingest" /\ scan'.patterns = rules
      /\ scan'.found = Candidates(rules) /\ scan'.todo = Candidates(rules)
      /\ scan'.assets = {}
  BY DEF StartedAs
<1> HIDE DEF rules
<1>2. \A c \in scan'.found : IsCandidate(rules, ws.files[c.id])
  BY <1>1, CandidatesFound
<1>3. \A k \in Present' : IsCandidate(rules, ws.files[k]) =>
        [id |-> k, ext |-> ws.files[k].ext] \in scan'.found
  BY <1>1, CandidatesFound DEF Present
<1>4. /\ \A c \in scan'.found : IsCandidate(scan'.patterns, ws'.files[c.id])
      /\ \A k \in Present' :
           ws'.files[k].format # "none" /\ IsCandidate(scan'.patterns, ws'.files[k])
             => [id |-> k, ext |-> ws'.files[k].ext] \in scan'.found
  BY <1>1, <1>2, <1>3
<1> QED BY <1>1, <1>4 DEF FoundAll, Judged

LEMMA NothingFound ==
  ASSUME scan'.found = {}, scan'.todo = {}, scan'.assets = {},
         scan'.phase \in {"idle", "gated"}
  PROVE  FoundAll'
<1> QED BY DEF FoundAll, Working, Judged

LEMMA FoundStays ==
  ASSUME Given, OnDisk, ScanTyped, RewritesHeld, FoundAll, [Next]_vars, scan' = scan
  PROVE  FoundAll'
<1>1. ws' = ws
  BY StepEffects
<1>2. OnDisk'
  BY OnDiskHolds
<1>3. \A k \in Present' :
        ws.files[k].format # "none" /\ IsCandidate(scan.patterns, ws.files[k]) /\ Working
          => [id |-> k, ext |-> ws.files[k].ext] \in scan.found
  BY Resurrected DEF FoundAll
<1>4. ASSUME NEW c \in scan.found \ scan.todo, disk[c.id] = None,
             ws.files[c.id].format # "none", ~(c.id \in Ids)
      PROVE  disk'[c.id] = None
  <2>1. c.id \notin Present'
    BY <1>4, Resurrected DEF Present
  <2>2. c.id \in DOMAIN ws.files
    BY DEF ScanTyped, Contents
  <2>3. DOMAIN disk' = DOMAIN ws.files
    BY <1>1, <1>2 DEF OnDisk
  <2> QED BY <2>1, <2>2, <2>3 DEF Present
<1> QED BY <1>1, <1>3, <1>4 DEF FoundAll, Working, Judged, Ids

LEMMA SameFinds ==
  ASSUME FoundAll, SameCrawl, SameAssets, ws' = ws, disk' = disk,
         Crawled, Crawled', Judged' /\ scan'.state = "Ready" => scan'.incomplete = 0
  PROVE  FoundAll'
<1>1. /\ scan'.todo = scan.todo /\ scan'.assets = scan.assets
      /\ scan'.incomplete = scan.incomplete /\ scan'.patterns = scan.patterns
      /\ scan'.found = scan.found /\ scan.phase # "ingest" /\ scan'.phase # "ingest"
  BY DEF SameAssets, SameCrawl, Crawled
<1> QED BY <1>1 DEF FoundAll, Crawled, Working, Ids, Present

LEMMA HashFinds ==
  ASSUME Given, ScanTyped, FoundAll, HashAndGroup, ws' = ws, disk' = disk
  PROVE  FoundAll' /\ Ids' = Ids
<1>1. IsScan /\ Contents
  BY DEF ScanTyped
<1>2. /\ scan'.found = scan.found /\ scan'.patterns = scan.patterns
      /\ scan.phase = "ingest" /\ scan'.phase = "trace" /\ scan.todo = {}
      /\ scan'.todo = scan.todo /\ scan'.incomplete = scan.incomplete
      /\ scan'.assets = {Hashed(a) : a \in scan.assets}
  BY <1>1, HashStep DEF SameCrawl
<1>3. \A a \in scan.assets : Hashed(a).id = a.id
  BY <1>1, HashedIsBorn DEF Contents
<1>4. Ids' = Ids
  BY <1>2, <1>3 DEF Ids
<1>5. \A a \in scan'.assets :
        /\ ws'.files[a.id].format # "none"
        /\ [id |-> a.id, ext |-> ws'.files[a.id].ext] \in scan'.found \ scan'.todo
  BY <1>2, <1>3 DEF FoundAll
<1>6. \A a, b \in scan'.assets : a.id = b.id => a = b
  <2> TAKE a, b \in scan'.assets
  <2> HAVE a.id = b.id
  <2>1. PICK c \in scan.assets : a = Hashed(c)
    BY <1>2
  <2>2. PICK d \in scan.assets : b = Hashed(d)
    BY <1>2
  <2>3. c.id = d.id
    BY <1>3, <2>1, <2>2
  <2>4. c = d
    BY <2>3 DEF FoundAll
  <2> QED BY <2>1, <2>2, <2>4
<1> QED BY <1>2, <1>4, <1>5, <1>6 DEF FoundAll, Working, Judged, Present

LEMMA FoundAllHolds ==
  ASSUME Given, OnDisk, ScanTyped, RewritesHeld, FoundAll, [Next]_vars
  PROVE  FoundAll'
<1>1. ws' = ws /\ IsScan /\ Stages
  BY StepEffects DEF ScanTyped
<1>2. CASE scan' = scan
  BY <1>2, FoundStays
<1>3. CASE scan' # scan
  <2>1. disk' = disk
    BY <1>3, ScanStepsSpareDisk
  <2>2. CASE scan' = NoScan
    BY <2>2, NoScanFields, NothingFound
  <2>3. ASSUME NEW by, Start(by) PROVE FoundAll'
    BY <1>1, <2>1, <2>2, <2>3, StartStep, StartFinds
  <2>4. CASE scan' = [NoScan EXCEPT !.phase = "gated", !.ci = Load(config).ci]
    BY <2>4, GatedStep, NothingFound
  <2>5. CASE Ingest
    BY <1>1, <2>1, <2>5, IngestFinds
  <2>6. CASE HashAndGroup
    BY <1>1, <2>1, <2>6, HashFinds
  <2>7. CASE TraceFile
    <3>1. /\ SameCrawl /\ SameAssets /\ scan.phase = "trace" /\ scan'.phase = "trace"
      BY <1>1, <2>7, TraceStep
    <3> QED BY <1>1, <2>1, <3>1, SameFinds DEF Crawled, Working, Judged
  <2>8. CASE Govern
    <3>1. /\ SameCrawl /\ SameAssets /\ scan.phase = "trace" /\ scan'.phase = "done"
          /\ scan'.state = IF scan.incomplete > 0 THEN "Incomplete" ELSE "Ready"
      BY <1>1, <2>8, GovernStep
    <3>2. scan.incomplete \in Nat
      BY DEF ScanTyped, Contents
    <3>3. scan'.state = "Ready" => scan'.incomplete = 0
      BY <3>1, <3>2 DEF SameAssets
    <3> QED BY <1>1, <2>1, <3>1, <3>3, SameFinds DEF Crawled, Working
  <2>9. CASE RecordSnapshot \/ WriteAuditEvent
    <3>1. /\ SameCrawl /\ SameAssets /\ scan'.state = scan.state
          /\ Judged /\ scan'.phase \in {"snapshotted", "audited", "failed"}
      BY <1>1, <2>9, RecordStep DEF Judged, SameVerdict
    <3>2. Crawled /\ Crawled'
      BY <3>1 DEF Crawled, Working, Judged
    <3>3. scan'.state = "Ready" => scan'.incomplete = 0
      BY <3>1 DEF FoundAll, SameAssets
    <3> QED BY <1>1, <2>1, <3>1, <3>2, <3>3, SameFinds
  <2> QED
    BY <1>3, <2>2, <2>3, <2>4, <2>5, <2>6, <2>7, <2>8, <2>9, ScanCases
       DEF Advance, AnswerCheck
<1> QED BY <1>2, <1>3

-----------------------------------------------------------------------------
(* Sources and references.  A file that could be an asset, is seen and is  *)
(* still there has been found, and is one.                                 *)
LEMMA SourceIsNoAsset ==
  ASSUME Given, OnDisk, ScanTyped, FoundAll, scan.phase = "ingest", scan.todo = {},
         NEW k \in SourceFiles(scan.patterns, scan.policy.tracing) \ Ids
  PROVE  SourceKey(k) /\ Visible(scan.patterns, ws.files[k])
<1>1. k \in Present /\ Visible(scan.patterns, disk[k])
  BY DEF SourceFiles, IsSourceFile
<1>2. k \in DOMAIN ws.files /\ Visible(scan.patterns, ws.files[k])
  BY <1>1, PresentIsOnDisk, SeenAlike
<1>3. ASSUME ws.files[k].format # "none" PROVE FALSE
  <2> DEFINE c == [id |-> k, ext |-> ws.files[k].ext]
  <2>1. IsCandidate(scan.patterns, ws.files[k])
    BY <1>2, <1>3, WorkspaceFacts DEF IsCandidate
  <2>2. c \in scan.found \ scan.todo /\ c.id = k
    BY <1>1, <1>3, <2>1 DEF FoundAll, Working
  <2> HIDE DEF c
  <2>3. disk[k] # None /\ k \notin Ids
    BY <1>1 DEF Present
  <2> QED BY <1>3, <2>2, <2>3 DEF FoundAll
<1> QED BY <1>2, <1>3 DEF SourceKey

LEMMA FileRefsAreReferences ==
  ASSUME NEW assets, NEW cfg, NEW f, f.lines \in Seq(LineType), NEW k, SourceKey(k),
         NEW r \in FileRefs(assets, cfg, f, k)
  PROVE  Reference(r) /\ r.file = k /\ r.asset \in {a.id : a \in assets}
<1>1. PICK a \in assets, i \in LiveLines(f.lines, f.ext) :
        r = [asset |-> a.id, file |-> k, line |-> i, content |-> f.lines[i],
             confidence |-> Confidence(a, cfg, f, f.lines[i])]
  BY DEF FileRefs
<1>2. i \in DOMAIN f.lines
  BY DEF LiveLines
<1>3. f.lines[i] \in LineType
  BY <1>2
<1> DEFINE conf == Confidence(a, cfg, f, f.lines[i])
           line == f.lines[i]
<1>4. r = [asset |-> a.id, file |-> k, line |-> i, content |-> line, confidence |-> conf]
  BY <1>1
<1> HIDE DEF conf, line
<1>5. /\ r.asset = a.id /\ r.file = k /\ r.content = line
      /\ r = [asset |-> r.asset, file |-> r.file, line |-> r.line, content |-> r.content,
              confidence |-> r.confidence]
  BY <1>4
<1> QED BY <1>3, <1>5 DEF Reference, line

LEMMA PlainIsLine ==
  ASSUME NEW dirs \in Seq(STRING), NEW stem \in STRING, NEW ext \in Maybe(STRING)
  PROVE  PlainLine(<<Word("", 0, dirs, stem, ext, TRUE)>>) \in LineType
<1> DEFINE w == Word("", 0, dirs, stem, ext, TRUE)
           ws1 == <<w>>
<1>1. w \in WordType
  BY DEF Word, WordType, Leads
<1> HIDE DEF w
<1>2. ws1 \in Seq(WordType)
  BY <1>1
<1> HIDE DEF ws1
<1>3. "" \in Openers
  BY DEF Openers
<1>4. <<>> \in Seq(Seq(STRING)) /\ <<>> \in Seq(STRING) /\ <<>> \in Seq(TemplateType)
  OBVIOUS
<1>5. PlainLine(ws1) \in LineType
  BY <1>2, <1>3, <1>4 DEF PlainLine, LineType
<1> QED BY <1>5 DEF ws1, w

LEMMA CollectionRefsAreReferences ==
  ASSUME Given, NEW assets, \A a \in assets : Born(a), NEW cfg, NEW refs,
         NEW r \in CollectionRefs(assets, cfg, refs)
  PROVE  Reference(r) /\ r.file = ConfigFile /\ r.asset \in {a.id : a \in assets}
<1>1. PICK a \in assets :
        r = [asset |-> a.id, file |-> ConfigFile, line |-> 1, confidence |-> "high",
             content |-> PlainLine(<<Word("", 0, a.dir, a.stem, a.ext, TRUE)>>)]
  BY DEF CollectionRefs
<1> DEFINE line == PlainLine(<<Word("", 0, a.dir, a.stem, a.ext, TRUE)>>)
<1>2. line \in LineType
  BY BornFields, PlainIsLine
<1>3. r = [asset |-> a.id, file |-> ConfigFile, line |-> 1, confidence |-> "high",
           content |-> line]
  BY <1>1
<1> HIDE DEF line
<1>4. /\ r.asset = a.id /\ r.file = ConfigFile /\ r.content = line
      /\ r = [asset |-> r.asset, file |-> r.file, line |-> r.line, content |-> r.content,
              confidence |-> r.confidence]
  BY <1>3
<1> QED BY <1>2, <1>4 DEF Reference

LEMMA TracesHold ==
  ASSUME Given, OnDisk, ScanTyped, FoundAll, Traces, [Next]_vars
  PROVE  Traces'
<1>1. ws' = ws /\ IsScan /\ Contents
  BY StepEffects DEF ScanTyped
<1>2. CASE scan' = scan
  BY <1>1, <1>2 DEF Traces, SourceKey, Reference, Ids
<1>3. ASSUME scan'.sources = {}, scan'.refs = {} PROVE Traces'
  BY <1>3 DEF Traces
<1>4. CASE scan' = NoScan
  BY <1>3, <1>4, NoScanFields
<1>5. ASSUME NEW by, Start(by) PROVE Traces'
  BY <1>3, <1>4, <1>5, StartStep DEF StartedAs
<1>6. CASE scan' = [NoScan EXCEPT !.phase = "gated", !.ci = Load(config).ci]
  BY <1>3, <1>6, GatedStep
<1>7. ASSUME Ids \subseteq Ids', scan'.patterns = scan.patterns,
             scan'.sources \subseteq scan.sources, scan'.refs = scan.refs
      PROVE  Traces'
  BY <1>1, <1>7 DEF Traces, SourceKey, Reference
<1>8. CASE Ingest
  <2>1. scan'.patterns = scan.patterns /\ scan'.sources = scan.sources
        /\ scan'.refs = scan.refs /\ scan.assets \subseteq scan'.assets
    BY <1>1, <1>8, IngestStep DEF SameCrawl, SameTraces
  <2> QED BY <1>7, <2>1 DEF Ids
<1>9. CASE HashAndGroup
  <2>1. /\ scan'.patterns = scan.patterns /\ scan'.refs = scan.refs
        /\ scan.phase = "ingest" /\ scan.todo = {}
        /\ scan'.sources \subseteq SourceFiles(scan.patterns, scan.policy.tracing) \ Ids'
    BY <1>1, <1>9, HashStep DEF SameCrawl, Ids
  <2>2. Ids' = Ids
    <3>1. disk' = disk
      BY <1>9 DEF HashAndGroup
    <3> QED BY <1>1, <1>9, <3>1, HashFinds
  <2>3. \A k \in scan'.sources : SourceKey(k) /\ Visible(scan.patterns, ws.files[k])
    BY <2>1, <2>2, SourceIsNoAsset
  <2> QED BY <1>1, <2>1, <2>2, <2>3 DEF Traces, SourceKey, Reference
<1>10. CASE TraceFile
  <2>1. /\ scan'.patterns = scan.patterns /\ scan'.assets = scan.assets
        /\ \E k \in scan.sources :
              /\ scan'.sources = scan.sources \ {k}
              /\ \/ scan'.refs = scan.refs
                 \/ /\ disk[k] # None
                    /\ scan'.refs = scan.refs \cup
                         FileRefs(scan.assets, scan.policy.tracing, disk[k], k)
    BY <1>1, <1>10, TraceStep DEF SameCrawl, SameAssets
  <2>2. PICK k \in scan.sources :
              /\ scan'.sources = scan.sources \ {k}
              /\ \/ scan'.refs = scan.refs
                 \/ /\ disk[k] # None
                    /\ scan'.refs = scan.refs \cup
                         FileRefs(scan.assets, scan.policy.tracing, disk[k], k)
    BY <2>1
  <2>3. SourceKey(k) /\ Visible(scan.patterns, ws.files[k])
    BY DEF Traces
  <2>4. disk[k] # None => disk[k].lines \in Seq(LineType)
    <3>1. k \in DOMAIN ws.files
      BY <2>3 DEF SourceKey
    <3> QED BY <3>1 DEF OnDisk, Version
  <2>5. k # ConfigFile
    BY <2>3, WorkspaceFacts DEF SourceKey
  <2>6. \A r \in scan'.refs :
          /\ Reference(r) /\ r.asset \in Ids
          /\ r.file # ConfigFile => Visible(scan.patterns, ws.files[r.file])
    <3> TAKE r \in scan'.refs
    <3>1. CASE r \in scan.refs
      BY <3>1 DEF Traces
    <3>2. CASE disk[k] # None
                 /\ r \in FileRefs(scan.assets, scan.policy.tracing, disk[k], k)
      BY <2>3, <2>4, <3>2, FileRefsAreReferences DEF Ids
    <3> QED BY <2>2, <3>1, <3>2
  <2>7. Ids' = Ids
    BY <2>1 DEF Ids
  <2> QED BY <1>1, <2>1, <2>2, <2>6, <2>7 DEF Traces, SourceKey, Reference
<1>11. CASE Govern
  <2>1. /\ scan'.patterns = scan.patterns /\ scan'.assets = scan.assets
        /\ scan'.sources = scan.sources
        /\ scan'.refs = scan.refs
             \cup CollectionRefs(scan.assets, scan.policy.tracing, scan.refs)
    BY <1>1, <1>11, GovernStep DEF SameCrawl, SameAssets
  <2>2. \A r \in scan'.refs :
          /\ Reference(r) /\ r.asset \in Ids
          /\ r.file # ConfigFile => Visible(scan.patterns, ws.files[r.file])
    <3> TAKE r \in scan'.refs
    <3>1. CASE r \in scan.refs
      BY <3>1 DEF Traces
    <3>2. CASE r \in CollectionRefs(scan.assets, scan.policy.tracing, scan.refs)
      BY <1>1, <3>2, CollectionRefsAreReferences DEF Contents, Ids
    <3> QED BY <2>1, <3>1, <3>2
  <2>3. Ids' = Ids
    BY <2>1 DEF Ids
  <2> QED BY <1>1, <2>1, <2>2, <2>3 DEF Traces, SourceKey, Reference
<1>12. CASE RecordSnapshot \/ WriteAuditEvent
  <2>1. SameCrawl /\ SameAssets /\ SameTraces
    BY <1>1, <1>12, RecordStep
  <2> QED BY <1>7, <2>1 DEF SameCrawl, SameAssets, SameTraces, Ids
<1> QED
  BY <1>2, <1>4, <1>5, <1>6, <1>8, <1>9, <1>10, <1>11, <1>12, ScanCases
     DEF Advance, AnswerCheck

LEMMA SourcesStayNoAssets ==
  ASSUME Given, OnDisk, ScanTyped, FoundAll, SourcesAreNoAssets, [Next]_vars
  PROVE  SourcesAreNoAssets'
<1>1. ws' = ws
  BY StepEffects
<1>2. Traces'
  BY TracesHold DEF SourcesAreNoAssets
<1>3. CASE index' = index
  BY <1>1, <1>2, <1>3 DEF Traces, SourcesAreNoAssets, Reference, SourceKey, Born
<1>4. CASE Kill
  BY <1>2, <1>4 DEF Traces, SourcesAreNoAssets, Kill
<1>5. CASE KeepIndex
  <2>1. index' = [assets |-> scan.assets, refs |-> scan.refs, groups |-> scan.groups,
                  diags |-> scan.diags, report |-> scan.report, state |-> scan.state]
    BY <1>5 DEF KeepIndex
  <2>2. index'.assets = scan.assets /\ index'.refs = scan.refs
    BY <2>1
  <2>3. \A r \in scan.refs : Reference(r)
    BY DEF SourcesAreNoAssets, Traces
  <2>4. \A a \in scan.assets : Born(a)
    BY DEF ScanTyped, Contents
  <2> QED BY <1>1, <1>2, <2>2, <2>3, <2>4
          DEF Traces, SourcesAreNoAssets, Reference, SourceKey, Born
<1> QED BY <1>3, <1>4, <1>5, StepEffects

-----------------------------------------------------------------------------
(* The verdict is that of what was read.                                   *)
LEMMA JudgedStaysAsRead ==
  ASSUME Given, OnDisk, ScanTyped, JudgedAsRead, [Next]_vars
  PROVE  JudgedAsRead'
<1>1. ws' = ws /\ IsScan /\ (edits' = 0 => edits = 0)
  BY StepEffects DEF ScanTyped, UserEdit, Given
<1>2. ASSUME scan'.assets = scan.assets, scan'.groups = scan.groups,
             scan'.policy = scan.policy, scan'.refs = scan.refs, scan'.diags = scan.diags,
             Crawled' => Crawled, Judged' => Judged
      PROVE  JudgedAsRead'
  <2>1. Crawled' => scan'.groups = GroupsOf(scan'.assets)
    BY <1>2 DEF JudgedAsRead
  <2>2. ASSUME Judged'
        PROVE  \E seen :
                 /\ scan'.diags = Diagnostics(scan'.policy, seen, scan'.assets,
                                              scan'.groups, scan'.refs)
                 /\ edits' = 0 => \A k \in DOMAIN ws'.files :
                                    seen[k] # None /\ seen[k].unsafe = ws'.files[k].unsafe
    <3>1. PICK seen :
            /\ scan.diags = Diagnostics(scan.policy, seen, scan.assets, scan.groups,
                                        scan.refs)
            /\ edits = 0 => \A k \in DOMAIN ws.files :
                              seen[k] # None /\ seen[k].unsafe = ws.files[k].unsafe
      BY <1>2, <2>2 DEF JudgedAsRead
    <3> QED BY <1>1, <1>2, <3>1
  <2> QED BY <2>1, <2>2 DEF JudgedAsRead
<1>3. ASSUME scan'.phase \in {"idle", "gated", "ingest"} PROVE JudgedAsRead'
  BY <1>3 DEF JudgedAsRead, Crawled, Working, Judged
<1>4. CASE scan' = scan
  BY <1>2, <1>4 DEF Crawled, Working, Judged
<1>5. CASE scan' = NoScan
  BY <1>3, <1>5, NoScanFields
<1>6. ASSUME NEW by, Start(by) PROVE JudgedAsRead'
  BY <1>3, <1>5, <1>6, StartStep DEF StartedAs
<1>7. CASE scan' = [NoScan EXCEPT !.phase = "gated", !.ci = Load(config).ci]
  BY <1>3, <1>7, GatedStep
<1>8. CASE Ingest
  BY <1>1, <1>3, <1>8, IngestStep
<1>9. CASE HashAndGroup
  <2>1. scan'.phase = "trace" /\ scan'.groups = GroupsOf(scan'.assets)
    BY <1>1, <1>9, HashStep
  <2> QED BY <2>1 DEF JudgedAsRead, Judged
<1>10. CASE TraceFile
  <2>1. /\ scan.phase = "trace" /\ scan'.phase = "trace"
        /\ scan'.groups = scan.groups /\ scan'.assets = scan.assets
    BY <1>1, <1>10, TraceStep DEF SameAssets
  <2> QED BY <2>1 DEF JudgedAsRead, Judged, Crawled, Working
<1>11. CASE Govern
  <2>1. /\ scan.phase = "trace" /\ scan'.groups = scan.groups
        /\ scan'.assets = scan.assets /\ scan'.policy = scan.policy
        /\ scan'.diags = Diagnostics(scan.policy, disk, scan.assets, scan.groups, scan'.refs)
    BY <1>1, <1>11, GovernStep DEF SameAssets, SameCrawl
  <2>2. edits = 0 => \A k \in DOMAIN ws.files :
                       disk[k] # None /\ disk[k].unsafe = ws.files[k].unsafe
    <3>1. edits = 0 => \A k \in DOMAIN ws.files : k \in Present
      BY DEF OnDisk
    <3>2. \A k \in Present : disk[k] # None /\ disk[k].unsafe = ws.files[k].unsafe
      BY PresentIsOnDisk, WorkspaceFacts, VersionIsFile DEF Present
    <3> QED BY <3>1, <3>2
  <2>3. scan'.groups = GroupsOf(scan'.assets)
    BY <2>1 DEF JudgedAsRead, Crawled, Working
  <2>4. \E seen :
          /\ scan'.diags = Diagnostics(scan'.policy, seen, scan'.assets, scan'.groups,
                                       scan'.refs)
          /\ edits' = 0 => \A k \in DOMAIN ws'.files :
                             seen[k] # None /\ seen[k].unsafe = ws'.files[k].unsafe
    BY <1>1, <2>1, <2>2
  <2> QED BY <2>3, <2>4 DEF JudgedAsRead
<1>12. CASE RecordSnapshot \/ WriteAuditEvent
  <2>1. SameCrawl /\ SameAssets /\ SameTraces /\ SameVerdict /\ Judged
    BY <1>1, <1>12, RecordStep DEF Judged
  <2> QED BY <1>2, <2>1
          DEF SameCrawl, SameAssets, SameTraces, SameVerdict, Judged, Crawled, Working
<1> QED
  BY <1>4, <1>5, <1>6, <1>7, <1>8, <1>9, <1>10, <1>11, <1>12, ScanCases
     DEF Advance, AnswerCheck

-----------------------------------------------------------------------------
(* Snapshots and audit events.  The newest of a growing sequence.          *)
LEMMA NewestKept ==
  ASSUME NEW m \in Nat, NEW s \in Seq(1 .. m), Growing(s), m \notin Range(s), m >= 1,
         NEW n \in Nat \ {0}
  PROVE  LET kept == Newest(Append(s, m), n) IN
         /\ kept \in Seq(1 .. m) /\ Growing(kept)
         /\ m \in Range(kept) /\ Range(kept) \subseteq Range(s) \cup {m}
         /\ \A x \in Range(s), y \in Range(kept) : x > y => x \in Range(kept)
<1> DEFINE t == Append(s, m)
           first == Max({1, Len(t) - n + 1})
           kept == SubSeq(t, first, Len(t))
<1>1. /\ t \in Seq(1 .. m) /\ Len(t) = Len(s) + 1 /\ Len(t) \in Nat
      /\ t[Len(t)] = m /\ \A i \in 1 .. Len(s) : t[i] = s[i]
  OBVIOUS
<1>2. \A i \in 1 .. Len(s) : s[i] < m
  <2>1. \A i \in 1 .. Len(s) : s[i] \in 1 .. m /\ s[i] # m
    BY DEF Range
  <2> QED BY <2>1
<1> HIDE DEF t
<1>13. Len(s) \in Nat /\ Len(t) = Len(s) + 1
  BY <1>1
<1>14. /\ \A i \in 1 .. Len(s), j \in 1 .. Len(s) : i < j => s[i] < s[j]
       /\ \A i \in 1 .. Len(s) : t[i] = s[i]
  <2>1. DOMAIN s = 1 .. Len(s)
    OBVIOUS
  <2> QED BY <1>1, <2>1 DEF Growing
<1>15. \A i \in 1 .. Len(t) : t[i] \in Int
  BY <1>1
<1>3. ASSUME NEW i \in 1 .. Len(t), NEW j \in 1 .. Len(t), i < j
      PROVE  t[i] < t[j]
  <2>1. i \in 1 .. Len(s)
    BY <1>3, <1>13
  <2>2. CASE j = Len(t)
    BY <1>1, <1>2, <2>1, <2>2
  <2>3. CASE j # Len(t)
    <3>1. j \in 1 .. Len(s)
      BY <1>13, <2>3
    <3> QED BY <1>3, <1>14, <2>1, <3>1
  <2> QED BY <2>2, <2>3
<1>4. first \in 1 .. Len(t)
  <2> DEFINE d == Len(t) - n + 1
  <2>1. d \in Int /\ d <= Len(t) /\ 1 <= Len(t)
    BY <1>1
  <2> HIDE DEF d
  <2>2. \E x \in {1, d} : \A y \in {1, d} : x >= y
    BY <2>1
  <2>3. Max({1, d}) \in {1, d} /\ Max({1, d}) >= 1
    BY <2>1, <2>2 DEF Max
  <2> QED BY <2>1, <2>3 DEF d
<1> HIDE DEF first
<1>5. /\ kept \in Seq(1 .. m) /\ Len(kept) = Len(t) - first + 1
      /\ \A i \in 1 .. Len(t) - first + 1 : kept[i] = t[first + i - 1]
  <2>1. \A i \in first .. Len(t) : t[i] \in 1 .. m
    BY <1>1, <1>4
  <2>2. first \in Int /\ Len(t) \in Int /\ first <= Len(t)
    BY <1>1, <1>4
  <2> QED BY <2>1, <2>2, SubSeqProperties
<1> HIDE DEF kept
<1>6. \A i \in first .. Len(t) : t[i] \in Range(kept)
  <2> TAKE i \in first .. Len(t)
  <2>1. i - first + 1 \in 1 .. Len(t) - first + 1 /\ first + (i - first + 1) - 1 = i
    BY <1>1, <1>4
  <2>2. kept[i - first + 1] = t[i] /\ i - first + 1 \in DOMAIN kept
    BY <1>5, <2>1
  <2> QED BY <2>2 DEF Range
<1>7. \A x \in Range(kept) : \E i \in first .. Len(t) : x = t[i]
  <2> TAKE x \in Range(kept)
  <2>1. PICK i \in 1 .. Len(t) - first + 1 : x = kept[i]
    BY <1>5 DEF Range
  <2>2. x = t[first + i - 1] /\ first + i - 1 \in first .. Len(t)
    BY <1>1, <1>4, <1>5, <2>1
  <2> QED BY <2>2
<1>8. Growing(kept)
  <2> SUFFICES ASSUME NEW i \in 1 .. Len(t) - first + 1, NEW j \in 1 .. Len(t) - first + 1,
                      i < j
               PROVE  kept[i] < kept[j]
    BY <1>5 DEF Growing
  <2>1. /\ first + i - 1 \in 1 .. Len(t) /\ first + j - 1 \in 1 .. Len(t)
        /\ first + i - 1 < first + j - 1
    BY <1>1, <1>4
  <2>2. t[first + i - 1] < t[first + j - 1]
    BY <1>3, <2>1
  <2> QED BY <1>5, <2>2
<1>9. m \in Range(kept)
  BY <1>1, <1>4, <1>6
<1>10. Range(kept) \subseteq Range(s) \cup {m}
  <2> SUFFICES ASSUME NEW x \in Range(kept), x # m PROVE x \in Range(s)
    OBVIOUS
  <2>1. PICK i \in first .. Len(t) : x = t[i]
    BY <1>7
  <2>2. i \in 1 .. Len(s)
    BY <1>1, <1>4, <2>1
  <2> QED BY <1>1, <2>1, <2>2 DEF Range
<1>11. \A x \in Range(s), y \in Range(kept) : x > y => x \in Range(kept)
  <2> TAKE x \in Range(s), y \in Range(kept)
  <2> HAVE x > y
  <2>1. PICK i \in 1 .. Len(s) : x = s[i]
    BY DEF Range
  <2>2. PICK j \in first .. Len(t) : y = t[j]
    BY <1>7
  <2>3. x = t[i] /\ i \in 1 .. Len(t) /\ j \in 1 .. Len(t)
    BY <1>1, <1>4, <2>1
  <2>4. t[i] \in Int /\ t[j] \in Int
    BY <1>15, <2>3
  <2>5. ~(i < j)
    <3>1. i < j => t[i] < t[j]
      BY <1>3, <2>3
    <3>2. ~(t[i] < t[j])
      BY <2>2, <2>3, <2>4
    <3> QED BY <2>3, <3>1, <3>2
  <2>6. i \in first .. Len(t)
    <3>1. i \in Int /\ j \in Int /\ first <= j /\ i <= Len(t) /\ first \in Int
      BY <1>4, <1>13, <2>3
    <3> QED BY <1>13, <2>5, <3>1
  <2> QED BY <1>6, <2>3, <2>6
<1>12. Newest(Append(s, m), n) = kept
  BY DEF Newest, kept, first, t
<1> QED BY <1>5, <1>8, <1>9, <1>10, <1>11, <1>12

(* The snapshots no audit event is about, of those whose event was written.*)
Unaudited == (Range(Snaps) \ Range(recorded)) \ unlogged

LEMMA RangeOfAppend ==
  ASSUME NEW T, NEW s \in Seq(T), NEW x \in T
  PROVE  Range(Append(s, x)) = Range(s) \cup {x}
<1> DEFINE last == Append(s, x)
           m == Len(s)
<1>1. m \in Nat /\ DOMAIN s = 1 .. m /\ DOMAIN last = 1 .. m + 1
  OBVIOUS
<1>2. last[m + 1] = x /\ \A i \in 1 .. m : last[i] = s[i]
  OBVIOUS
<1>3. 1 .. m + 1 = (1 .. m) \cup {m + 1}
  BY <1>1
<1> HIDE DEF last, m
<1>4. Range(last) \subseteq Range(s) \cup {x}
  BY <1>1, <1>2, <1>3 DEF Range
<1>5. Range(s) \cup {x} \subseteq Range(last)
  BY <1>1, <1>2, <1>3 DEF Range
<1>6. Range(last) = Range(s) \cup {x}
  BY <1>4, <1>5, Zenon
<1> QED BY <1>6 DEF last

LEMMA SnapsFinite ==
  ASSUME NEW s, NEW m, s \in Seq(1 .. m)
  PROVE  IsFiniteSet(Range(s))
<1>1. IsFiniteSet(1 .. Len(s))
  BY FS_Interval
<1>2. Range(s) = {s[i] : i \in 1 .. Len(s)}
  BY DEF Range
<1> QED BY <1>1, <1>2, FiniteImage

(* Where neither grows, and an analysis is not between the two writes, the *)
(* story is the same.                                                      *)
LEMMA SameStory ==
  ASSUME ScanTyped, StoryTold, scans \in Nat, kills \in Nat,
         history' = history \/ KeepIndex, recorded' = recorded,
         unsaved' = unsaved, unlogged' = unlogged,
         \/ kills' = kills /\ (scan.phase # "snapshotted" \/ scan'.phase = "snapshotted")
         \/ kills' = kills + 1,
         \/ scans' = scans
         \/ scans' = scans + 1 /\ scan.phase = "idle" /\ scan'.phase # "snapshotted",
         scan'.phase = "snapshotted" => scan.phase = "snapshotted",
         \/ scan'.phase \in {"idle", "snapshotted", "audited", "failed"}
         \/ scans' = scans + 1
         \/ scan.phase \in {"gated", "ingest", "trace", "done"}
  PROVE  StoryTold'
<1>1. /\ Snaps' = Snaps
      /\ history' = [snaps |-> Snaps', log |-> history'.log, old |-> history'.old,
                     torn |-> history'.torn]
  <2>1. history = [snaps |-> Snaps, log |-> history.log, old |-> history.old,
                   torn |-> history.torn]
    BY DEF StoryTold, Recorded
  <2>2. history' \in {history, [history EXCEPT !.torn = FALSE]}
    BY DEF KeepIndex, EndsLine
  <2> QED BY <2>1, <2>2 DEF Snaps
<1>2. Snaps \in Seq(1 .. scans) /\ recorded \in Seq(1 .. scans) /\ Growing(Snaps)
  BY DEF StoryTold, Recorded
<1>3. Recorded(scans)'
  <2>1. 1 .. scans \subseteq 1 .. scans'
    OBVIOUS
  <2>2. Snaps \in Seq(1 .. scans') /\ recorded \in Seq(1 .. scans')
    BY <1>2, <2>1
  <2>3. Growing(Snaps')
    BY <1>1, <1>2 DEF Growing
  <2> QED BY <1>1, <2>2, <2>3 DEF Recorded, Growing
<1>4. scans + 1 \notin Range(Snaps) /\ scans + 1 \notin Range(recorded)
  <2>1. Range(Snaps) \subseteq 1 .. scans /\ Range(recorded) \subseteq 1 .. scans
    BY <1>2 DEF Range
  <2> QED BY <2>1
<1>5. scan'.phase \in {"gated", "ingest", "trace", "done"} =>
        scans' \notin Range(Snaps) /\ scans' \notin Range(recorded)
  BY <1>4 DEF StoryTold
<1>6. scan'.phase = "snapshotted" => scans' \in Range(Snaps) \cup unsaved
  BY DEF StoryTold
<1>7. /\ \A n \in Range(recorded) \ unsaved :
           \A k \in Range(Snaps) : n > k => n \in Range(Snaps)
      /\ Range(recorded) \subseteq unsaved \/ Range(Snaps) # {}
      /\ Cardinality(Unaudited \ IF scan.phase = "snapshotted" THEN {scans} ELSE {}) <= kills
  BY DEF StoryTold, AuditedHasSnapshot, Unaudited, Snaps
<1>8. IsFiniteSet(Unaudited)
  <2>1. IsFiniteSet(Range(Snaps)) /\ Unaudited \in SUBSET Range(Snaps)
    BY <1>2, SnapsFinite DEF Unaudited
  <2> QED BY <2>1, FS_Subset
<1>9. Cardinality(Unaudited \ IF scan'.phase = "snapshotted" THEN {scans'} ELSE {}) <= kills'
  <2> DEFINE here == Unaudited \ IF scan.phase = "snapshotted" THEN {scans} ELSE {}
             next == Unaudited \ IF scan'.phase = "snapshotted" THEN {scans'} ELSE {}
  <2>1. next = here \/ (kills' = kills + 1 /\ next \in SUBSET (here \cup {scans}))
    OBVIOUS
  <2>2. IsFiniteSet(here) /\ Cardinality(here) \in Nat
    BY <1>8, FS_Subset, FS_CardinalityType
  <2>3. Cardinality(here) <= kills
    BY <1>7
  <2> HIDE DEF here, next
  <2>4. /\ IsFiniteSet(here \cup {scans})
        /\ Cardinality(here \cup {scans}) \in {Cardinality(here), Cardinality(here) + 1}
    BY <2>2, FS_AddElement
  <2>5. next \in SUBSET (here \cup {scans}) =>
          /\ Cardinality(next) <= Cardinality(here \cup {scans})
          /\ Cardinality(next) \in Nat
    BY <2>4, FS_Subset, FS_CardinalityType
  <2>6. Cardinality(next) <= kills'
    <3>1. CASE next = here
      BY <2>2, <2>3, <3>1
    <3>2. CASE kills' = kills + 1 /\ next \in SUBSET (here \cup {scans})
      BY <2>2, <2>3, <2>4, <2>5, <3>2
    <3> QED BY <2>1, <3>1, <3>2
  <2> QED BY <2>6 DEF next
<1>10. AuditedHasSnapshot'
  BY <1>1, <1>7, <1>9 DEF AuditedHasSnapshot, Unaudited, Snaps
<1> QED BY <1>1, <1>3, <1>5, <1>6, <1>10 DEF StoryTold
(* A snapshot is taken, unless it cannot be saved: its scan is the one that*)
(* still lacks an event.                                                   *)
LEMMA SnapshotStory ==
  ASSUME ScanTyped, StoryTold, scans \in Nat, kills \in Nat, RecordSnapshot
  PROVE  StoryTold'
<1>1. /\ recorded' = recorded /\ scans' = scans /\ kills' = kills /\ unlogged' = unlogged
      /\ scan.phase = "done" /\ scan'.phase = "snapshotted"
  <2>1. scan'.phase = "snapshotted"
    BY RecordStep DEF ScanTyped
  <2> QED BY <2>1 DEF RecordSnapshot, SnapshotFails, failures
<1>2. /\ history = [snaps |-> Snaps, log |-> history.log, old |-> history.old,
                    torn |-> history.torn]
      /\ Snaps \in Seq(1 .. scans) /\ recorded \in Seq(1 .. scans) /\ Growing(Snaps)
      /\ scans \notin Range(Snaps) /\ scans \notin Range(recorded)
  BY <1>1 DEF StoryTold, Recorded
<1>3. scans >= 1
  BY <1>1 DEF ScanTyped, Stages
<1>4. PICK kept \in Seq(1 .. scans) :
        /\ history' = [history EXCEPT !.snaps = kept]
        /\ Growing(kept) /\ Range(kept) \subseteq Range(Snaps) \cup {scans}
        /\ \A x \in Range(Snaps), y \in Range(kept) : x > y => x \in Range(kept)
        /\ \/ unsaved' = unsaved /\ scans \in Range(kept)
           \/ unsaved' = unsaved \cup {scans} /\ kept = Snaps
  <2> DEFINE newest == Newest(Append(Snaps, scans), MaxSnapshots)
  <2>1. CASE history' = [history EXCEPT !.snaps = newest] /\ unsaved' = unsaved
    <3>1. /\ newest \in Seq(1 .. scans) /\ Growing(newest)
          /\ scans \in Range(newest) /\ Range(newest) \subseteq Range(Snaps) \cup {scans}
          /\ \A x \in Range(Snaps), y \in Range(newest) : x > y => x \in Range(newest)
      BY <1>2, <1>3, NewestKept, BoundsAssumption
    <3> HIDE DEF newest
    <3> QED BY <2>1, <3>1
  <2>2. CASE history' = [history EXCEPT !.snaps = <<scans>>] /\ unsaved' = unsaved
    <3>1. <<scans>> \in Seq(1 .. scans) /\ DOMAIN <<scans>> = {1} /\ <<scans>>[1] = scans
      BY <1>3
    <3>2. PICK one : one = <<scans>>
      OBVIOUS
    <3>3. one \in Seq(1 .. scans) /\ DOMAIN one = {1} /\ one[1] = scans
      BY <3>1, <3>2
    <3>4. Range(one) = {scans} /\ Growing(one)
      BY <3>3 DEF Range, Growing
    <3>5. \A x \in Range(Snaps) : ~ (x > scans)
      BY <1>2 DEF Range
    <3> QED BY <2>2, <3>2, <3>3, <3>4, <3>5
  <2>3. CASE history' = history /\ unsaved' = unsaved \cup {scans}
    <3>1. history' = [history EXCEPT !.snaps = Snaps]
      BY <1>2, <2>3
    <3> QED BY <1>2, <2>3, <3>1
  <2>4. history.snaps = Snaps
    BY DEF Snaps
  <2>5. \/ history' = [history EXCEPT !.snaps = newest] /\ unsaved' = unsaved
        \/ history' = [history EXCEPT !.snaps = <<scans>>] /\ unsaved' = unsaved
        \/ history' = history /\ unsaved' = unsaved \cup {scans}
    BY <2>4 DEF RecordSnapshot, SnapshotFails, failures
  <2> HIDE DEF newest
  <2> QED BY <2>1, <2>2, <2>3, <2>5
<1>5. /\ Snaps' = kept
      /\ history' = [snaps |-> Snaps', log |-> history'.log, old |-> history'.old,
                     torn |-> history'.torn]
  BY <1>2, <1>4 DEF Snaps
<1>6. Recorded(scans)'
  <2>1. Growing(Snaps')
    BY <1>4, <1>5
  <2> QED BY <1>1, <1>2, <1>4, <1>5, <2>1 DEF Recorded, Growing
<1>7. \A n \in Range(recorded) \ unsaved' : \A k \in Range(kept) : n > k => n \in Range(kept)
  <2>1. Range(recorded) \subseteq 1 .. scans /\ Range(Snaps) \subseteq 1 .. scans
    BY <1>2 DEF Range
  <2> TAKE n \in Range(recorded) \ unsaved'
  <2> TAKE k \in Range(kept)
  <2> HAVE n > k
  <2>2. k \in Range(Snaps)
    <3>1. k # scans
      BY <2>1
    <3> QED BY <1>4, <3>1
  <2>3. n \in Range(recorded) \ unsaved
    BY <1>4
  <2>4. n \in Range(Snaps)
    BY <2>2, <2>3 DEF StoryTold, AuditedHasSnapshot, Snaps
  <2> QED BY <1>4, <2>4
<1>8. Range(recorded) \subseteq unsaved' \/ Range(kept) # {}
  <2>1. Range(recorded) \subseteq unsaved \/ Range(Snaps) # {}
    BY DEF StoryTold, AuditedHasSnapshot, Snaps
  <2> QED BY <1>4, <2>1
<1>9. Cardinality(((Range(kept) \ Range(recorded)) \ unlogged) \ {scans}) <= kills
  <2> DEFINE next == ((Range(kept) \ Range(recorded)) \ unlogged) \ {scans}
  <2>1. Cardinality(Unaudited) <= kills
    <3>1. Cardinality(Unaudited \ {}) <= kills
      BY <1>1 DEF StoryTold, AuditedHasSnapshot, Unaudited, Snaps
    <3>2. Unaudited \ {} = Unaudited
      OBVIOUS
    <3> QED BY <3>1, <3>2
  <2>2. IsFiniteSet(Unaudited) /\ Cardinality(Unaudited) \in Nat
    <3>1. IsFiniteSet(Range(Snaps)) /\ Unaudited \in SUBSET Range(Snaps)
      BY <1>2, SnapsFinite DEF Unaudited
    <3> QED BY <3>1, FS_Subset, FS_CardinalityType
  <2>3. next \in SUBSET Unaudited
    BY <1>4 DEF Unaudited
  <2> HIDE DEF next
  <2>4. Cardinality(next) <= Cardinality(Unaudited) /\ Cardinality(next) \in Nat
    BY <2>2, <2>3, FS_Subset, FS_CardinalityType
  <2>5. Cardinality(next) <= kills
    BY <2>1, <2>2, <2>4
  <2> QED BY <2>5 DEF next
<1>10. AuditedHasSnapshot'
  <2>1. history'.snaps = kept
    BY <1>5 DEF Snaps
  <2> QED BY <1>1, <1>7, <1>8, <1>9, <2>1 DEF AuditedHasSnapshot
<1>11. scans \in Range(Snaps)' \cup unsaved'
  BY <1>4, <1>5
<1> QED BY <1>1, <1>6, <1>10, <1>11 DEF StoryTold

(* Neither a rotation nor the text of an event touches the snapshots.      *)
LEMMA RotatedShape ==
  ASSUME history = [snaps |-> Snaps, log |-> history.log, old |-> history.old,
                    torn |-> history.torn],
         NEW h \in {history, Rotated(history)}
  PROVE  h = [snaps |-> Snaps, log |-> h.log, old |-> h.old, torn |-> h.torn]
<1>1. CASE h = history
  BY <1>1
<1>2. CASE h = [history EXCEPT !.old = history.log, !.log = <<>>, !.torn = FALSE]
  <2>1. PICK one : one = [history EXCEPT !.old = history.log]
    OBVIOUS
  <2>2. PICK two : two = [one EXCEPT !.log = <<>>]
    OBVIOUS
  <2>3. h = [two EXCEPT !.torn = FALSE]
    BY <1>2, <2>1, <2>2
  <2>4. one = [snaps |-> Snaps, log |-> one.log, old |-> one.old, torn |-> one.torn]
    BY <2>1
  <2>5. two = [snaps |-> Snaps, log |-> two.log, old |-> two.old, torn |-> two.torn]
    BY <2>2, <2>4
  <2>6. PICK t : t = FALSE
    OBVIOUS
  <2>7. h = [two EXCEPT !.torn = t]
    BY <2>3, <2>6
  <2> QED BY <2>5, <2>7
<1> QED BY <1>1, <1>2 DEF Rotated

LEMMA TextShape ==
  ASSUME NEW h, h = [snaps |-> Snaps, log |-> h.log, old |-> h.old, torn |-> h.torn],
         NEW next, next = WithText(h, scans)
  PROVE  next = [snaps |-> Snaps, log |-> next.log, old |-> next.old, torn |-> next.torn]
<1>1. CASE h.torn
  <2>1. next = [h EXCEPT !.log[Len(h.log)] = Append(@, scans)]
    BY <1>1 DEF WithText
  <2>2. PICK log : next = [h EXCEPT !.log = log]
    BY <2>1
  <2> QED BY <2>2
<1>2. CASE ~h.torn
  <2>1. PICK log : log = Append(h.log, <<scans>>)
    OBVIOUS
  <2>2. PICK one : one = [h EXCEPT !.log = log]
    OBVIOUS
  <2>3. next = [one EXCEPT !.torn = TRUE]
    BY <1>2, <2>1, <2>2 DEF WithText
  <2>4. one = [snaps |-> Snaps, log |-> one.log, old |-> one.old, torn |-> one.torn]
    BY <2>2
  <2>5. PICK t : t = TRUE
    OBVIOUS
  <2>6. next = [one EXCEPT !.torn = t]
    BY <2>3, <2>5
  <2> QED BY <2>4, <2>6
<1> QED BY <1>1, <1>2

(* What a write of an event leaves: its text, or nothing.                  *)
LEMMA EventOutcomes ==
  ASSUME WriteAuditEvent
  PROVE  /\ scans' = scans /\ kills' = kills /\ unsaved' = unsaved
         /\ scan.phase = "snapshotted"
         /\ \E h \in {history, Rotated(history)} :
              \/ /\ history' = WithText(h, scans) /\ recorded' = Append(recorded, scans)
                 /\ unlogged' \in {unlogged, unlogged \cup {scans}}
              \/ /\ history' = h /\ recorded' = recorded
                 /\ unlogged' = unlogged \cup {scans}
<1>1. /\ scans' = scans /\ kills' = kills /\ unsaved' = unsaved
      /\ scan.phase = "snapshotted"
  BY DEF WriteAuditEvent
<1>2. \E h \in {history, Rotated(history)} : EventWritten(h) \/ EventLost(h)
  BY DEF WriteAuditEvent, EventFails
<1> QED BY <1>1, <1>2 DEF EventWritten, EventLost

(* An event is written or lost: the newest scan has its snapshot, unless   *)
(* that could not be saved.                                                *)
LEMMA EventStory ==
  ASSUME ScanTyped, StoryTold, scans \in Nat, kills \in Nat, WriteAuditEvent
  PROVE  StoryTold'
<1>1. /\ scans' = scans /\ kills' = kills /\ unsaved' = unsaved
      /\ scan.phase = "snapshotted" /\ scan'.phase \in {"audited", "failed"}
  BY EventOutcomes, RecordStep DEF ScanTyped
<1>2. /\ history = [snaps |-> Snaps, log |-> history.log, old |-> history.old,
                    torn |-> history.torn]
      /\ Snaps \in Seq(1 .. scans) /\ recorded \in Seq(1 .. scans) /\ Growing(Snaps)
      /\ scans \in Range(Snaps) \cup unsaved
  BY <1>1 DEF StoryTold, Recorded
<1>3. PICK h \in {history, Rotated(history)} :
        \/ /\ history' = WithText(h, scans) /\ recorded' = Append(recorded, scans)
           /\ unlogged' \in {unlogged, unlogged \cup {scans}}
        \/ /\ history' = h /\ recorded' = recorded
           /\ unlogged' = unlogged \cup {scans}
  BY EventOutcomes
<1>4. h = [snaps |-> Snaps, log |-> h.log, old |-> h.old, torn |-> h.torn]
  BY <1>2, RotatedShape
<1>5. history' = [snaps |-> Snaps, log |-> history'.log, old |-> history'.old,
                  torn |-> history'.torn]
  <2>1. CASE history' = WithText(h, scans)
    BY <1>4, <2>1, TextShape
  <2>2. CASE history' = h
    BY <1>4, <2>2
  <2> QED BY <1>3, <2>1, <2>2
<1>6. /\ Snaps' = Snaps
      /\ history' = [snaps |-> Snaps', log |-> history'.log, old |-> history'.old,
                     torn |-> history'.torn]
  BY <1>5 DEF Snaps
<1>7. scans >= 1
  BY <1>1 DEF ScanTyped, Stages
<1>8. /\ recorded' \in Seq(1 .. scans)
      /\ \/ Range(recorded') = Range(recorded) \cup {scans}
         \/ recorded' = recorded /\ unlogged' = unlogged \cup {scans}
  <2>1. CASE recorded' = Append(recorded, scans)
    <3>1. Range(Append(recorded, scans)) = Range(recorded) \cup {scans}
      BY <1>2, <1>7, RangeOfAppend
    <3>2. Append(recorded, scans) \in Seq(1 .. scans)
      BY <1>2, <1>7
    <3> QED BY <2>1, <3>1, <3>2
  <2>2. CASE recorded' = recorded /\ unlogged' = unlogged \cup {scans}
    BY <1>2, <2>2
  <2> QED BY <1>3, <2>1, <2>2
<1>9. Recorded(scans)'
  <2>1. Growing(Snaps')
    BY <1>2, <1>6 DEF Growing
  <2> QED BY <1>1, <1>2, <1>6, <1>8, <2>1 DEF Recorded, Growing
<1>10. \A n \in Range(recorded') \ unsaved : \A k \in Range(Snaps) :
         n > k => n \in Range(Snaps)
  BY <1>2, <1>8 DEF StoryTold, AuditedHasSnapshot, Snaps
<1>11. Range(recorded') \subseteq unsaved \/ Range(Snaps) # {}
  <2>1. Range(recorded) \subseteq unsaved \/ Range(Snaps) # {}
    BY DEF StoryTold, AuditedHasSnapshot, Snaps
  <2> QED BY <1>2, <1>8, <2>1
<1>12. Cardinality(((Range(Snaps) \ Range(recorded')) \ unlogged') \ {}) <= kills
  <2> DEFINE next == ((Range(Snaps) \ Range(recorded')) \ unlogged') \ {}
             here == Unaudited \ {scans}
  <2>1. Cardinality(here) <= kills
    BY <1>1 DEF StoryTold, AuditedHasSnapshot, Snaps, Unaudited
  <2>2. next \in SUBSET here
    <3>1. unlogged \subseteq unlogged'
      BY <1>3
    <3> QED BY <1>8, <3>1 DEF Unaudited
  <2>3. IsFiniteSet(here)
    <3>1. IsFiniteSet(Range(Snaps)) /\ here \in SUBSET Range(Snaps)
      BY <1>2, SnapsFinite DEF Unaudited
    <3> QED BY <3>1, FS_Subset
  <2> HIDE DEF next, here
  <2>4. /\ Cardinality(next) <= Cardinality(here)
        /\ Cardinality(next) \in Nat /\ Cardinality(here) \in Nat
    BY <2>2, <2>3, FS_Subset, FS_CardinalityType
  <2>5. Cardinality(next) <= kills
    BY <2>1, <2>4
  <2> QED BY <2>5 DEF next
<1>13. AuditedHasSnapshot'
  <2>1. history'.snaps = Snaps
    BY <1>6 DEF Snaps
  <2> QED BY <1>1, <1>10, <1>11, <1>12, <2>1 DEF AuditedHasSnapshot
<1> QED BY <1>1, <1>9, <1>13 DEF StoryTold

LEMMA StoryHolds ==
  ASSUME Given, ScanTyped, StoryTold, [Next]_vars
  PROVE  StoryTold'
<1>1. scans \in Nat /\ kills \in Nat
  BY DEF Given
<1>2. CASE RecordSnapshot
  BY <1>1, <1>2, SnapshotStory
<1>3. CASE WriteAuditEvent
  BY <1>1, <1>3, EventStory
<1>4. CASE ~RecordSnapshot /\ ~WriteAuditEvent
  <2>1. history' = history \/ KeepIndex
    BY <1>4, StepEffects
  <2>2. recorded' = recorded /\ unsaved' = unsaved /\ unlogged' = unlogged
    BY <1>4, StepEffects DEF KeepIndex
  <2>3. scan.phase \in Phases /\ (scan.phase = "snapshotted" => scan.by = "daemon")
    BY DEF ScanTyped, Stages
  <2>4. /\ \/ kills' = kills /\ (scan.phase # "snapshotted" \/ scan'.phase = "snapshotted")
           \/ kills' = kills + 1
        /\ \/ scans' = scans
           \/ scans' = scans + 1 /\ scan.phase = "idle" /\ scan'.phase # "snapshotted"
        /\ scan'.phase = "snapshotted" => scan.phase = "snapshotted"
        /\ \/ scan'.phase \in {"idle", "snapshotted", "audited", "failed"}
           \/ scans' = scans + 1
           \/ scan.phase \in {"gated", "ingest", "trace", "done"}
    <3>1. CASE StartScan
      <4>1. scan.phase = "idle" /\ (scan'.phase = "ingest" \/ scan' = NoScan)
        BY <3>1, StartStep DEF StartScan, StartedAs
      <4> QED BY <3>1, <4>1, NoScanFields DEF StartScan
    <3>2. CASE StartCheck
      <4>1. scan.phase = "idle" /\ (scan'.phase = "gated" \/ scan' = scan)
        BY <3>2, GatedStep DEF StartCheck
      <4> QED BY <3>2, <4>1 DEF StartCheck
    <3>3. CASE RunCheck
      <4>1. scan.phase = "gated" /\ (scan'.phase = "ingest" \/ scan' = NoScan)
        BY <3>3, StartStep DEF RunCheck, StartedAs
      <4> QED BY <3>3, <4>1, NoScanFields DEF RunCheck
    <3>4. CASE Ingest \/ HashAndGroup \/ TraceFile \/ Govern
      <4>1. /\ scan.phase \in {"ingest", "trace"} /\ scan'.phase \in {"ingest", "trace", "done"}
        BY <3>4, IngestStep, HashStep, TraceStep, GovernStep DEF ScanTyped
      <4>2. scans' = scans /\ kills' = kills
        BY <3>4 DEF Ingest, HashAndGroup, TraceFile, Govern
      <4> QED BY <4>1, <4>2
    <3>5. CASE AnswerCheck
      <4>1. scan.phase = "done" /\ scan' = NoScan /\ scans' = scans /\ kills' = kills
        BY <3>5 DEF AnswerCheck
      <4> QED BY <4>1, NoScanFields
    <3>6. CASE KeepIndex
      <4>1. scan.phase # "snapshotted" /\ scan' = NoScan /\ scans' = scans /\ kills' = kills
        BY <3>6 DEF KeepIndex
      <4> QED BY <4>1, NoScanFields
    <3>7. CASE Kill
      <4>1. /\ scan' = NoScan \/ (scan' = scan /\ scan.by # "daemon")
            /\ scans' = scans /\ kills' = kills + 1
        BY <3>7 DEF Kill
      <4> QED BY <2>3, <4>1, NoScanFields DEF Phases
    <3>8. CASE scan' = scan /\ scans' = scans /\ kills' = kills
      BY <2>3, <3>8 DEF Phases
    <3> QED
      BY <1>4, <3>1, <3>2, <3>3, <3>4, <3>5, <3>6, <3>7, <3>8
         DEF Next, ProposeRewrites, ReadForRewrite, WriteRewrite, UserEdit, vars
  <2> QED BY <1>1, <2>1, <2>2, <2>4, SameStory
<1> QED BY <1>2, <1>3, <1>4
-----------------------------------------------------------------------------
(* The invariant holds at first and is kept.                               *)
LEMMA InitHolds ==
  ASSUME Init
  PROVE  AnalysisInv
<1>1. PICK w \in Workspaces :
        /\ ws = [unity |-> w.unity, custom |-> w.custom,
                 animoriaignore |-> w.animoriaignore, args |-> w.args,
                 bound |-> w.bound, files |-> w.disk]
        /\ disk = w.disk /\ config = w.config
  BY DEF Init
<1>2. /\ scan = NoScan /\ index = None /\ recorded = <<>> /\ exit = None
      /\ history = [snaps |-> <<>>, log |-> <<>>, old |-> <<>>, torn |-> FALSE]
      /\ plan = NoPlan /\ rewrite = None /\ edits = 0 /\ scans = 0 /\ kills = 0
      /\ unsaved = {} /\ unlogged = {} /\ faults = 0
  BY DEF Init
<1>3. Given
  BY <1>1, <1>2 DEF Given
<1>4. disk = ws.files /\ \A k \in DOMAIN ws.files : ws.files[k] \in FileType
  BY <1>1, <1>3, WorkspaceFacts
<1>5. OnDisk
  <2>1. w.disk \in [DOMAIN w.disk -> FileType]
    BY WorkspacesAssumption
  <2>2. w.disk = [k \in DOMAIN w.disk |-> w.disk[k]]
    BY <2>1
  <2>3. ws.files = w.disk
    BY <1>1
  <2>4. disk = [k \in DOMAIN ws.files |-> disk[k]]
    BY <1>4, <2>2, <2>3
  <2>5. \A k \in DOMAIN ws.files : Version(k, disk[k]) /\ disk[k] # None
    BY <1>4, FirstVersion, NoneIsNoFile
  <2>6. Present = DOMAIN ws.files
    BY <1>4, <2>5 DEF Present
  <2> QED BY <2>4, <2>5, <2>6 DEF OnDisk
<1>6. /\ scan.phase = "idle" /\ scan.by = None /\ scan.found = {} /\ scan.todo = {}
      /\ scan.sources = {} /\ scan.assets = {} /\ scan.incomplete = 0 /\ scan.refs = {}
      /\ scan.diags = {} /\ scan.report = NoAssets
  BY <1>2, NoScanFields
<1>7. ScanTyped
  <2>1. IsScan
    BY <1>2 DEF NoScan, Shape, IsScan
  <2>2. Contents
    BY <1>6, FS_EmptySet DEF Contents, NoAssets
  <2>3. Stages
    BY <1>2, <1>6 DEF Stages, Phases, Working
  <2> QED BY <1>2, <2>1, <2>2, <2>3 DEF ScanTyped
<1>8. RulesFixed /\ FoundAll /\ JudgedAsRead
  BY <1>6 DEF RulesFixed, FoundAll, JudgedAsRead, Working, Crawled, Judged
<1>9. SourcesAreNoAssets
  BY <1>2, <1>6 DEF SourcesAreNoAssets, Traces
<1>10. RewritesHeld
  BY <1>2 DEF RewritesHeld, NoPlan
<1>11. StoryTold
  <2>1. Snaps = <<>> /\ history.snaps = <<>>
    BY <1>2 DEF Snaps
  <2>2. Range(<<>>) = {}
    BY DEF Range
  <2>3. Recorded(scans)
    <3>1. history = [snaps |-> Snaps, log |-> history.log, old |-> history.old,
                     torn |-> history.torn]
      BY <1>2 DEF Snaps
    <3>2. <<>> \in Seq(1 .. scans) /\ Growing(<<>>)
      BY DEF Growing
    <3> QED BY <1>2, <2>1, <3>1, <3>2 DEF Recorded
  <2>4. AuditedHasSnapshot
    <3>1. {} \ {} = {} /\ Cardinality({}) = 0
      BY FS_EmptySet
    <3>2. Cardinality((({} \ {}) \ {}) \ {}) <= kills
      BY <1>2, <3>1
    <3> QED BY <1>2, <1>6, <2>1, <2>2, <3>2 DEF AuditedHasSnapshot
  <2> QED BY <1>6, <2>3, <2>4 DEF StoryTold
<1> QED BY <1>3, <1>5, <1>7, <1>8, <1>9, <1>10, <1>11 DEF AnalysisInv

LEMMA AnalysisInductive ==
  ASSUME AnalysisInv, [Next]_vars
  PROVE  AnalysisInv'
<1>1. /\ Given /\ OnDisk /\ ScanTyped /\ RulesFixed /\ FoundAll /\ SourcesAreNoAssets
      /\ JudgedAsRead /\ RewritesHeld /\ StoryTold
  BY DEF AnalysisInv
<1>2. Given'
  BY <1>1, GivenHolds
<1>3. OnDisk'
  BY <1>1, OnDiskHolds
<1>4. ScanTyped'
  BY <1>1, ScanTypedHolds
<1>5. RulesFixed'
  BY <1>1, RulesStayFixed
<1>6. FoundAll'
  BY <1>1, FoundAllHolds
<1>7. SourcesAreNoAssets'
  BY <1>1, SourcesStayNoAssets
<1>8. JudgedAsRead'
  BY <1>1, JudgedStaysAsRead
<1>9. RewritesHeld'
  BY <1>1, RewritesHold
<1>10. StoryTold'
  BY <1>1, StoryHolds
<1> QED BY <1>2, <1>3, <1>4, <1>5, <1>6, <1>7, <1>8, <1>9, <1>10 DEF AnalysisInv

LEMMA Invariance == Spec => []AnalysisInv
<1>1. Init => AnalysisInv
  BY InitHolds
<1>2. AnalysisInv /\ [Next]_vars => AnalysisInv'
  BY AnalysisInductive
<1> QED BY <1>1, <1>2, PTL DEF Spec

-----------------------------------------------------------------------------
(* The parts of an analysis keep their types, whoever interrupts it: a     *)
(* candidate left is one that was found, an asset is a file of the         *)
(* workspace, a reference names an asset, the score is a percentage, the   *)
(* exit code one of three, an event that of a scan there was               *)
(* (scan_workspace, execute_check, append_event).                          *)
THEOREM AnalysisTypeCorrect == Spec => []AnalysisTypeOK
<1>1. AnalysisInv => AnalysisTypeOK
  <2> SUFFICES ASSUME AnalysisInv PROVE AnalysisTypeOK
    OBVIOUS
  <2>1. Given /\ OnDisk /\ Contents /\ Stages /\ exit \in {None, 0, 1, 2} /\ Traces
    BY DEF AnalysisInv, ScanTyped, SourcesAreNoAssets
  <2>2. {a.id : a \in scan.assets} \subseteq DOMAIN disk
    BY <2>1, PresentIsOnDisk DEF Contents, Born
  <2>3. {r.asset : r \in scan.refs} \subseteq {a.id : a \in scan.assets}
    BY <2>1 DEF Traces, Ids
  <2>4. \A n \in Range(recorded) : n \in 1 .. scans
    <3>1. recorded \in Seq(1 .. scans)
      BY DEF AnalysisInv, StoryTold, Recorded
    <3> DEFINE S == 1 .. scans
    <3>2. \A i \in DOMAIN recorded : recorded[i] \in S
      <4>1. recorded \in [1 .. Len(recorded) -> S] /\ DOMAIN recorded = 1 .. Len(recorded)
        BY <3>1, LenProperties
      <4> QED BY <4>1
    <3> QED BY <3>2 DEF Range
  <2> QED BY <2>1, <2>2, <2>3, <2>4 DEF AnalysisTypeOK, Contents, Stages, Phases
<1> QED BY <1>1, Invariance, PTL

(* An analysis that calls itself Ready left no candidate out, however many *)
(* files came and went between its crawl and its ingestion (ingest_file).  *)
THEOREM ReadyIsComplete == Spec => []ReadyMissesNothing
<1>1. AnalysisInv => ReadyMissesNothing
  <2> SUFFICES ASSUME AnalysisInv, Done, scan.state = "Ready", NEW c \in scan.found
               PROVE  \/ c.id \in {a.id : a \in scan.assets}
                      \/ ws.files[c.id].format = "none"
                      \/ disk[c.id] = None /\ c.ext = "json"
    BY DEF ReadyMissesNothing
  <2>1. FoundAll /\ scan.phase = "done"
    BY DEF AnalysisInv, Done
  <2>2. c \in scan.found \ scan.todo /\ scan.incomplete = 0
    BY <2>1 DEF FoundAll, Judged
  <2> QED BY <2>1, <2>2 DEF FoundAll, Ids
<1> QED BY <1>1, Invariance, PTL

(* What the user wrote before a rewrite read the file is still there when  *)
(* it has been written (apply_reference_rewrite).                          *)
THEOREM UserEditsSurvive == Spec => EditsSurvive
<1>1. AnalysisInv /\ [Next]_vars =>
        [(rewrite # None /\ rewrite' = None /\ kills' = kills) =>
           \A i \in DOMAIN rewrite.read.lines :
             rewrite.read.lines[i] = EditedLine =>
               disk'[rewrite.proposal.file].lines[i] = EditedLine]_rewrite
  BY EditSurvives DEF AnalysisInv
<1> QED BY <1>1, Invariance, PTL DEF Spec, EditsSurvive

(* Snapshots and audit log tell one story, whatever daemon was killed      *)
(* between the two writes (save_snapshot, append_event).                   *)
THEOREM AuditedHaveSnapshots == Spec => []AuditedHasSnapshot
<1>1. AnalysisInv => AuditedHasSnapshot
  BY DEF AnalysisInv, StoryTold
<1> QED BY <1>1, Invariance, PTL

-----------------------------------------------------------------------------
(* The gates.  A check that counts nothing tolerates nothing.              *)
LEMMA ExitCodes ==
  ASSUME NEW args \in ArgsType, NEW ci \in GateType, NEW diags, IsFiniteSet(diags),
         NEW score, NEW code, code = ExitCode(args, ci, diags, score)
  PROVE  LET warnings == WithSeverity(diags, "warning")
             errors   == WithSeverity(diags, "error")
         IN  /\ code = 0 => errors = {} /\ (args.strict => warnings = {})
             /\ code = 2 => errors = {} /\ warnings # {}
<1> DEFINE warnings == WithSeverity(diags, "warning")
           errors == WithSeverity(diags, "error")
           minScore == IF args.minScore # None THEN args.minScore ELSE ci.minScore
           maxWarn == IF args.strict THEN 0
                      ELSE IF args.maxWarnings # None THEN args.maxWarnings
                      ELSE ci.maxWarnings
           count == Cardinality(warnings)
<1>1. maxWarn \in Nat \cup {None}
  BY DEF ArgsType, GateType, Maybe
<1>2. count \in Nat /\ (count = 0 <=> warnings = {})
  <2>1. warnings \in SUBSET diags
    BY DEF WithSeverity
  <2>2. IsFiniteSet(warnings)
    BY <2>1, FS_Subset
  <2> QED BY <2>2, FS_CardinalityType, FS_EmptySet
<1>3. args.strict => maxWarn = 0
  OBVIOUS
<1>4. 0 # None
  BY NothingAssumption
<1> DEFINE low == minScore # None /\ score < minScore
           many == maxWarn # None /\ count > maxWarn
<1>5. code = IF errors # {} \/ low THEN 1 ELSE IF many THEN 2 ELSE 0
  BY DEF ExitCode
<1>6. many => warnings # {}
  <2> HIDE DEF maxWarn, count, warnings
  <2> QED BY <1>1, <1>2 DEF many
<1>7. ~many /\ args.strict => warnings = {}
  <2> HIDE DEF maxWarn, count, warnings
  <2> QED BY <1>2, <1>3, <1>4 DEF many
<1> HIDE DEF low, many
<1>8. /\ code = 0 => errors = {} /\ ~low /\ ~many
      /\ code = 2 => errors = {} /\ many
  BY <1>5
<1> QED BY <1>6, <1>7, <1>8

LEMMA GateHolds ==
  ASSUME AnalysisInv, [Next]_vars, exit' # exit
  PROVE  /\ exit' = 0 => /\ WithSeverity(scan.diags, "error") = {}
                         /\ ws.args.strict => WithSeverity(scan.diags, "warning") = {}
         /\ exit' = 2 => /\ WithSeverity(scan.diags, "error") = {}
                         /\ WithSeverity(scan.diags, "warning") # {}
         /\ exit' \in {0, 2} => scan.ci # None
<1>1. Given /\ Contents /\ Stages
  BY DEF AnalysisInv, ScanTyped
<1>2. None # 0 /\ None # 2 /\ None \notin GateType
  BY NothingAssumption
<1>3. CASE AnswerCheck
  <2>1. /\ exit' = ExitCode(ws.args, scan.ci, scan.diags, scan.report.score)
        /\ scan.phase = "done" /\ scan.by = "check"
    BY <1>3 DEF AnswerCheck
  <2>2. scan.ci \in GateType /\ ws.args \in ArgsType /\ IsFiniteSet(scan.diags)
    BY <1>1, <2>1, WorkspaceFacts DEF Stages, Working, Contents
  <2> QED BY <1>2, <2>1, <2>2, ExitCodes
<1>4. CASE ~AnswerCheck
  <2>1. exit' \in {None, 1}
    <3>1. CASE StartScan /\ Start("daemon")
      BY <3>1, StartStep
    <3>2. CASE RunCheck /\ Start("check")
      BY <3>2, StartStep
    <3> QED BY <1>4, <3>1, <3>2, ScanCases
  <2> QED BY <1>2, <2>1
<1> QED BY <1>3, <1>4

(* A check that passes has found no error and, when strict, no warning,    *)
(* with gates that could be read (execute_check).                          *)
THEOREM GatesAreSound == Spec => GateIsSound
<1>1. AnalysisInv /\ [Next]_vars =>
        [LET warnings == WithSeverity(scan.diags, "warning")
             errors   == WithSeverity(scan.diags, "error")
         IN  /\ exit' = 0 => errors = {} /\ (ws.args.strict => warnings = {})
             /\ exit' = 2 => errors = {} /\ warnings # {}
             /\ exit' \in {0, 2} => scan.ci # None]_exit
  BY GateHolds
<1> QED BY <1>1, Invariance, PTL DEF Spec, GateIsSound

-----------------------------------------------------------------------------
(* A policy without overrides is that of every asset.                      *)
LEMMA NoOverrides ==
  ASSUME NEW policy, policy.overrides = <<>>, NEW a
  PROVE  PolicyFor(policy, a) = policy
<1>1. {i \in DOMAIN policy.overrides : MatchesAny(a, policy.overrides[i].files)} = {}
  OBVIOUS
<1> QED BY <1>1 DEF PolicyFor

LEMMA OffFlagsNothing ==
  ASSUME NEW policy, Off(policy), NEW rule \in RuleIds, NEW seen, NEW groups, NEW refs, NEW a
  PROVE  ~Flagged(rule, policy, seen, groups, refs, a)
<1>1. PolicyFor(policy, a) = policy
  BY NoOverrides DEF Off
<1>2. CASE rule = "unref"
  BY <1>1, <1>2 DEF Flagged, Unreferenced, Off
<1>3. CASE rule = "dup"
  BY <1>1, <1>3 DEF Flagged, DuplicateContent, Off
<1>4. CASE rule = "size"
  BY <1>1, <1>4 DEF Flagged, TooLarge, Off
<1>5. CASE rule = "dims"
  BY <1>1, <1>5 DEF Flagged, TooWide, Off
<1>6. CASE rule = "naming"
  BY <1>1, <1>6 DEF Flagged, Misnamed, Off
<1>7. CASE rule = "svg"
  BY <1>1, <1>7 DEF Flagged, UnsafeSvg, Off
<1>8. CASE rule = "formats"
  BY <1>1, <1>8 DEF Flagged, Disallowed, Off
<1>9. CASE rule = "gif"
  BY <1>1, <1>9 DEF Flagged, LegacyGif, Off
<1> QED BY <1>2, <1>3, <1>4, <1>5, <1>6, <1>7, <1>8, <1>9 DEF RuleIds

(* Governance switched off is silent, whatever preset, rules and overrides *)
(* stand beside the switch (parse_config_str).                             *)
THEOREM OffSaysNothing == Spec => []OffIsSilent
<1>1. AnalysisInv => OffIsSilent
  <2> SUFFICES ASSUME AnalysisInv, Untouched, config \notin {None, Broken}, ~config.enabled
               PROVE  scan.diags = {}
    BY DEF OffIsSilent
  <2>1. Working /\ Judged /\ edits = 0
    BY DEF Untouched, Done, Working, Judged
  <2>2. scan.policy = Load(config)
    BY <2>1 DEF AnalysisInv, RulesFixed
  <2>3. IsConfig(config)
    BY WorkspaceFacts DEF AnalysisInv
  <2>4. Off(scan.policy)
    BY <2>2, <2>3, LoadedPolicy, ParsedPolicy
  <2>5. PICK seen :
          scan.diags = Diagnostics(scan.policy, seen, scan.assets, scan.groups, scan.refs)
    BY <2>1 DEF AnalysisInv, JudgedAsRead
  <2>6. \A x \in RuleIds \X scan.assets :
          ~Flagged(x[1], scan.policy, seen, scan.groups, scan.refs, x[2])
    BY <2>4, OffFlagsNothing
  <2> QED BY <2>5, <2>6 DEF Diagnostics
<1> QED BY <1>1, Invariance, PTL

-----------------------------------------------------------------------------
(* The last of the rules that cover a path decides: a list of rules that   *)
(* covers one decides for any list that ends with it.                      *)
Hits(rules, path) == {i \in DOMAIN rules : Covers(rules[i], path)}

LEMMA TailDecides ==
  ASSUME NEW S, NEW T, NEW head \in Seq(S), NEW tail \in Seq(T), NEW path,
         Hits(tail, path) # {}
  PROVE  /\ Hits(head \o tail, path) # {}
         /\ IsIgnored(head \o tail, path) = IsIgnored(tail, path)
<1> DEFINE m == Len(head)
           n == Len(tail)
           all == head \o tail
           h == Max(Hits(tail, path))
<1>1. m \in Nat /\ n \in Nat /\ DOMAIN tail = 1 .. n /\ DOMAIN head = 1 .. m
  OBVIOUS
<1>2. /\ DOMAIN all = 1 .. m + n
      /\ \A i \in 1 .. n : all[m + i] = tail[i]
  BY ConcatProperties
<1>3. h \in Hits(tail, path) /\ \A i \in Hits(tail, path) : h >= i
  <2>1. Hits(tail, path) \subseteq 0 .. n
    BY <1>1 DEF Hits
  <2> QED BY <1>1, <2>1, MaxOf
<1> HIDE DEF m, n, all, h
<1>4. h \in 1 .. n /\ Covers(tail[h], path)
  BY <1>1, <1>3 DEF Hits
<1>5. m + h \in Hits(all, path)
  BY <1>1, <1>2, <1>4 DEF Hits
<1>6. ASSUME NEW i \in Hits(all, path) PROVE m + h >= i
  <2>1. i \in 1 .. m + n /\ Covers(all[i], path)
    BY <1>2 DEF Hits
  <2>2. CASE i <= m
    BY <1>1, <1>4, <2>1, <2>2
  <2>3. CASE i > m
    <3>1. i - m \in 1 .. n /\ i = m + (i - m)
      BY <1>1, <2>1, <2>3
    <3>2. i - m \in Hits(tail, path)
      BY <1>1, <1>2, <2>1, <3>1 DEF Hits
    <3> QED BY <1>1, <1>3, <1>4, <3>1, <3>2
  <2> QED BY <1>1, <2>1, <2>2, <2>3
<1>7. Max(Hits(all, path)) = m + h
  <2>1. Hits(all, path) \subseteq 0 .. m + n
    BY <1>2 DEF Hits
  <2>2. /\ Max(Hits(all, path)) \in Hits(all, path)
        /\ \A i \in Hits(all, path) : Max(Hits(all, path)) >= i
    BY <1>1, <1>5, <2>1, MaxOf
  <2>3. Max(Hits(all, path)) >= m + h /\ m + h >= Max(Hits(all, path))
    BY <1>5, <1>6, <2>2
  <2> QED BY <1>1, <1>4, <2>1, <2>2, <2>3
<1>8. IsIgnored(all, path) = ~all[m + h].negate
  BY <1>5, <1>7 DEF IsIgnored, Hits
<1>9. IsIgnored(tail, path) = ~tail[h].negate
  BY <1>3 DEF IsIgnored, Hits, h
<1>10. all[m + h] = tail[h]
  BY <1>2, <1>4
<1> QED BY <1>5, <1>8, <1>9, <1>10 DEF all

LEMMA DefaultRulesSeq == DefaultRules \in Seq({DefaultRules[i] : i \in 1 .. 16})
<1>1. DOMAIN DefaultExcludeDirs = 1 .. 16
  BY DEF DefaultExcludeDirs
<1>2. DefaultRules = [i \in 1 .. 16 |-> Exclude(FALSE, <<DefaultExcludeDirs[i]>>)]
  BY <1>1 DEF DefaultRules
<1> DEFINE e(i) == Exclude(FALSE, <<DefaultExcludeDirs[i]>>)
           d == [i \in 1 .. 16 |-> e(i)]
<1>3. d \in [1 .. 16 -> {d[i] : i \in 1 .. 16}]
  <2> HIDE DEF e
  <2> QED OBVIOUS
<1> HIDE DEF e
<1>4. d \in Seq({d[i] : i \in 1 .. 16})
  BY <1>3
<1> QED BY <1>2, <1>4 DEF e

LEMMA LastWordDecides ==
  ASSUME AnalysisInv, Done, NEW path
  PROVE  /\ LastWord(path) = "include" => ~IsIgnored(scan.patterns, path)
         /\ LastWord(path) = "exclude" => IsIgnored(scan.patterns, path)
<1> DEFINE last == ws.animoriaignore
<1>1. last \in Seq(PatternType)
  BY WorkspaceFacts DEF AnalysisInv
<1>2. PICK first \in Seq(AnyPattern) : scan.patterns = DefaultRules \o (first \o last)
  BY DEF AnalysisInv, RulesFixed, Working, Done
<1>3. LastWord(path) = IF Hits(last, path) = {} THEN "none"
                       ELSE IF last[Max(Hits(last, path))].negate THEN "include" ELSE "exclude"
  BY DEF LastWord, Hits
<1>4. CASE Hits(last, path) = {}
  BY <1>3, <1>4
<1>5. CASE Hits(last, path) # {}
  <2> HIDE DEF last
  <2>1. /\ Hits(first \o last, path) # {}
        /\ IsIgnored(first \o last, path) = IsIgnored(last, path)
    BY <1>1, <1>5, TailDecides
  <2>2. first \o last \in Seq(AnyPattern \cup PatternType)
    <3>1. first \in Seq(AnyPattern \cup PatternType) /\ last \in Seq(AnyPattern \cup PatternType)
      BY <1>1
    <3> QED BY <3>1
  <2>3. IsIgnored(scan.patterns, path) = IsIgnored(last, path)
    <3> DEFINE mid == first \o last
    <3>1. mid \in Seq(AnyPattern \cup PatternType) /\ Hits(mid, path) # {}
      BY <2>1, <2>2
    <3> HIDE DEF mid
    <3>2. IsIgnored(DefaultRules \o mid, path) = IsIgnored(mid, path)
      BY <3>1, TailDecides, DefaultRulesSeq
    <3> QED BY <1>2, <2>1, <3>2 DEF mid
  <2>4. IsIgnored(last, path) = ~last[Max(Hits(last, path))].negate
    BY <1>5 DEF IsIgnored, Hits
  <2> QED BY <1>3, <1>5, <2>3, <2>4
<1> QED BY <1>4, <1>5

(* .animoriaignore has the last word on what is an asset and what is a     *)
(* source, against the defaults, the configuration and the settings for    *)
(* documentation (IgnoreRules::new, is_ignored_relative).                  *)
THEOREM IgnoreFileHasLastWord == Spec => []IgnoreFileDecides
<1>1. AnalysisInv => IgnoreFileDecides
  <2> SUFFICES ASSUME AnalysisInv, Untouched, NEW k \in Present
               PROVE  LET words == {LastWord(disk[k].dir), LastWord(RootDir \o disk[k].dir)} IN
                      /\ words = {"include"} =>
                           \/ disk[k].hidden \/ disk[k].format = "none"
                           \/ k \in {a.id : a \in scan.assets}
                      /\ "exclude" \in words =>
                           /\ k \notin {a.id : a \in scan.assets}
                           /\ \A r \in scan.refs : r.file # k
    BY DEF IgnoreFileDecides
  <2> DEFINE dir == disk[k].dir
             f == ws.files[k]
             near == LastWord(dir)
             far == LastWord(RootDir \o dir)
  <2>1. /\ Given /\ OnDisk /\ Contents /\ FoundAll /\ Traces /\ Done /\ Working
        /\ scan.phase = "done"
    BY DEF AnalysisInv, ScanTyped, SourcesAreNoAssets, Untouched, Done, Working
  <2>2. /\ k \in DOMAIN ws.files /\ f \in FileType /\ Version(k, disk[k])
        /\ k # ConfigFile /\ (f.format # "none" => f.ext \in RecognizedExtensions)
    BY <2>1, PresentIsOnDisk, WorkspaceFacts
  <2>3. disk[k].format = f.format /\ disk[k].dir = f.dir /\ disk[k].hidden = f.hidden
    BY <2>2, VersionIsFile
  <2>4. IsIgnoredRelative(scan.patterns, f.dir)
          = (IsIgnored(scan.patterns, RootDir \o dir) \/ IsIgnored(scan.patterns, dir))
    BY <2>3 DEF IsIgnoredRelative
  <2>5. ASSUME {near, far} = {"include"}, ~disk[k].hidden, disk[k].format # "none"
        PROVE  k \in {a.id : a \in scan.assets}
    <3>1. near = "include" /\ far = "include"
      BY <2>5
    <3>2. ~IsIgnoredRelative(scan.patterns, f.dir)
      BY <2>1, <2>4, <3>1, LastWordDecides
    <3>3. IsCandidate(scan.patterns, f) /\ f.format # "none"
      BY <2>2, <2>3, <2>5, <3>2 DEF IsCandidate, Visible
    <3> DEFINE c == [id |-> k, ext |-> f.ext]
    <3>4. c \in scan.found
      BY <2>1, <3>3 DEF FoundAll
    <3>5. c \in scan.found \ scan.todo /\ c.id = k
      BY <2>1, <3>4 DEF FoundAll
    <3> HIDE DEF c, f
    <3>6. disk[k] # None
      BY DEF Present
    <3>7. k \in Ids \/ ws.files[k].format = "none"
      BY <2>1, <3>5, <3>6 DEF FoundAll
    <3> QED BY <3>3, <3>7 DEF Ids, f
  <2>6. ASSUME "exclude" \in {near, far}
        PROVE  /\ k \notin {a.id : a \in scan.assets}
               /\ \A r \in scan.refs : r.file # k
    <3>1. ~Visible(scan.patterns, f)
      BY <2>1, <2>4, <2>6, LastWordDecides DEF Visible
    <3>2. k \notin {a.id : a \in scan.assets}
      <4> SUFFICES ASSUME NEW a \in scan.assets, a.id = k PROVE FALSE
        OBVIOUS
      <4> DEFINE c == [id |-> a.id, ext |-> ws.files[a.id].ext]
      <4>1. c \in scan.found /\ c.id = k
        BY <2>1 DEF FoundAll
      <4> HIDE DEF c
      <4>2. IsCandidate(scan.patterns, ws.files[k])
        BY <2>1, <4>1 DEF FoundAll
      <4> QED BY <3>1, <4>2 DEF IsCandidate
    <3>3. \A r \in scan.refs : r.file # k
      BY <2>1, <2>2, <3>1 DEF Traces
    <3> QED BY <3>2, <3>3
  <2> HIDE DEF dir, f
  <2> QED BY <2>5, <2>6 DEF dir
<1> QED BY <1>1, Invariance, PTL

-----------------------------------------------------------------------------
(* The copy that is kept: there is one, and it is valid if any is.         *)
LEMMA CanonicalIsKept ==
  ASSUME NEW group, group # {},
         \A a \in group : a.rank \in Nat /\ a.length \in Nat
  PROVE  /\ Canonical(group) \in group
         /\ Canonical(group).valid \/ \A b \in group : ~b.valid
         /\ \A b \in group :
              b.valid = Canonical(group).valid => Canonical(group).length <= b.length
<1> DEFINE valid == {a \in group : a.valid}
           best == IF valid # {} THEN valid ELSE group
           nearest == {a \in best : \A b \in best : a.length <= b.length}
           kept == CHOOSE a \in nearest : \A b \in nearest : a.rank <= b.rank
<1>1. /\ best # {} /\ best \subseteq group
      /\ \/ best = valid
         \/ valid = {} /\ best = group
  OBVIOUS
<1> HIDE DEF best
<1>2. nearest # {} /\ nearest \subseteq best
  <2> DEFINE T == {a.length : a \in best}
  <2>1. T \subseteq Nat /\ T # {}
    BY <1>1
  <2>2. PICK x \in T : \A y \in T : x <= y
    <3> HIDE DEF T
    <3> QED BY <2>1, LeastNatural
  <2>3. PICK a \in best : a.length = x
    BY <2>2
  <2>4. \A b \in best : b.length \in T
    OBVIOUS
  <2>5. a \in nearest
    BY <2>2, <2>3, <2>4
  <2> QED BY <2>5
<1>7. \A a \in nearest : \A b \in best : a.length <= b.length
  OBVIOUS
<1> HIDE DEF nearest
<1>3. \E a \in nearest : \A b \in nearest : a.rank <= b.rank
  <2> DEFINE T == {a.rank : a \in nearest}
  <2>1. T \subseteq Nat /\ T # {}
    BY <1>1, <1>2
  <2>2. PICK x \in T : \A y \in T : x <= y
    <3> HIDE DEF T
    <3> QED BY <2>1, LeastNatural
  <2>3. PICK a \in nearest : a.rank = x
    BY <2>2
  <2>4. \A b \in nearest : b.rank \in T
    OBVIOUS
  <2> QED BY <2>2, <2>3, <2>4
<1>4. kept \in nearest
  BY <1>3
<1>5. Canonical(group) = kept
  BY DEF Canonical, kept, nearest, best
<1> HIDE DEF kept
<1>6. Canonical(group) \in best
  BY <1>2, <1>4, <1>5
<1>8. \A b \in best : Canonical(group).length <= b.length
  BY <1>4, <1>5, <1>7
<1>9. \A b \in group : b.valid = Canonical(group).valid => b \in best
  BY <1>1, <1>6, Zenon
<1> QED BY <1>1, <1>6, <1>8, <1>9

(* A diagnostic of a rule is about an asset the rule flags.                *)
LEMMA FlaggedIffSaid ==
  ASSUME AnalysisInv, Done, NEW a \in scan.assets, NEW rule \in RuleIds, NEW seen,
         scan.diags = Diagnostics(scan.policy, seen, scan.assets, scan.groups, scan.refs)
  PROVE  IsFlagged(a, rule)
           <=> Flagged(rule, scan.policy, seen, scan.groups, scan.refs, a)
<1> DEFINE F(r, b) == Flagged(r, scan.policy, seen, scan.groups, scan.refs, b)
           D(r, b) == [rule |-> r, asset |-> b.id, sev |-> PolicyFor(scan.policy, b)[r].sev]
<1>1. \A b \in scan.assets : b.id = a.id => b = a
  BY DEF AnalysisInv, FoundAll
<1>2. \A d \in scan.diags : \E x \in RuleIds \X scan.assets :
        F(x[1], x[2]) /\ d = D(x[1], x[2])
  BY DEF Diagnostics
<1>3. ASSUME F(rule, a) PROVE D(rule, a) \in scan.diags
  <2> DEFINE S == {x \in RuleIds \X scan.assets : F(x[1], x[2])}
  <2>1. <<rule, a>> \in S /\ <<rule, a>>[1] = rule /\ <<rule, a>>[2] = a
    BY <1>3
  <2>2. scan.diags = {D(x[1], x[2]) : x \in S}
    BY DEF Diagnostics
  <2> HIDE DEF S, F
  <2>3. D(<<rule, a>>[1], <<rule, a>>[2]) \in scan.diags
    BY <2>1, <2>2
  <2> QED BY <2>1, <2>3
<1> HIDE DEF F
<1>4. D(rule, a).rule = rule /\ D(rule, a).asset = a.id
  OBVIOUS
<1>5. ASSUME F(rule, a) PROVE IsFlagged(a, rule)
  BY <1>3, <1>4, <1>5 DEF IsFlagged
<1>6. ASSUME IsFlagged(a, rule) PROVE F(rule, a)
  <2>1. PICK d \in scan.diags : d.rule = rule /\ d.asset = a.id
    BY <1>6 DEF IsFlagged
  <2>2. PICK x \in RuleIds \X scan.assets : F(x[1], x[2]) /\ d = D(x[1], x[2])
    BY <1>2
  <2>3. x[2] \in scan.assets /\ x[1] = rule /\ x[2].id = a.id
    BY <2>1, <2>2
  <2>4. x[1] = rule /\ x[2] = a
    BY <1>1, <2>3
  <2>5. F(x[1], x[2])
    BY <2>2
  <2> QED BY <2>4, <2>5 DEF F
<1> QED BY <1>5, <1>6 DEF F

LEMMA SparesOneCopy ==
  ASSUME AnalysisInv, Done, NEW a \in scan.assets, a.hash # None
  PROVE  LET copies == {b \in scan.assets : b.hash = a.hash} IN
         \E kept \in copies :
           /\ ~IsFlagged(kept, "dup")
           /\ kept.valid \/ \A b \in copies : ~b.valid
           /\ \A b \in copies : b.valid = kept.valid => kept.length <= b.length
           /\ scan.policy = DefaultPolicy => \A b \in copies \ {kept} : IsFlagged(b, "dup")
<1> DEFINE copies == {b \in scan.assets : b.hash = a.hash}
           kept == Canonical(copies)
<1>1. /\ Given /\ Contents /\ scan.groups = GroupsOf(scan.assets)
  BY DEF AnalysisInv, ScanTyped, JudgedAsRead, Crawled, Working, Done
<1>2. PICK seen :
        scan.diags = Diagnostics(scan.policy, seen, scan.assets, scan.groups, scan.refs)
  BY DEF AnalysisInv, JudgedAsRead, Judged, Done
<1>3. \A b \in scan.assets : b.rank \in Nat /\ b.length \in Nat
  BY <1>1, BornFields DEF Contents
<1>4. /\ kept \in copies /\ (kept.valid \/ \A b \in copies : ~b.valid)
      /\ \A b \in copies : b.valid = kept.valid => kept.length <= b.length
  <2>1. copies # {} /\ copies \subseteq scan.assets
    OBVIOUS
  <2> HIDE DEF copies
  <2> QED BY <1>3, <2>1, CanonicalIsKept
<1>5. \A b \in copies : \A g \in scan.groups : b \in g => g = copies
  BY <1>1 DEF GroupsOf
<1> HIDE DEF kept
<1>6. \A b \in copies :
        /\ b \in scan.assets
        /\ IsFlagged(b, "dup") <=> DuplicateContent(scan.policy, scan.groups, b)
  <2> TAKE b \in copies
  <2>1. b \in scan.assets /\ "dup" \in RuleIds
    BY DEF RuleIds
  <2>2. IsFlagged(b, "dup")
          <=> Flagged("dup", scan.policy, seen, scan.groups, scan.refs, b)
    BY <1>2, <2>1, FlaggedIffSaid
  <2>3. Flagged("dup", scan.policy, seen, scan.groups, scan.refs, b)
          <=> DuplicateContent(scan.policy, scan.groups, b)
    BY DEF Flagged
  <2> QED BY <2>1, <2>2, <2>3
<1>7. ~IsFlagged(kept, "dup")
  <2>1. ~ \E g \in scan.groups : kept \in g /\ kept # Canonical(g)
    BY <1>4, <1>5 DEF kept
  <2> QED BY <1>4, <1>6, <2>1 DEF DuplicateContent
<1>8. ASSUME scan.policy = DefaultPolicy, NEW b \in copies, b # kept
      PROVE  IsFlagged(b, "dup")
  <2>1. PolicyFor(scan.policy, b) = DefaultPolicy
    BY <1>8, NoOverrides, DefaultIsPolicy
  <2>2. ~Spared(DefaultPolicy.dup, b)
    <3>1. ~DefaultPolicy.dup.icons /\ DefaultPolicy.dup.ignore = <<>>
      BY DefaultIsPolicy
    <3>2. ~MatchesAny(b, <<>>)
      BY DEF MatchesAny, Range
    <3> QED BY <3>1, <3>2 DEF Spared
  <2>3. copies \in scan.groups
    <3>1. IsFiniteSet(copies)
      BY <1>1, FS_Subset DEF Contents
    <3>2. Cardinality(copies) > 1
      <4>1. {b, kept} \in SUBSET copies
        BY <1>4
      <4>2. Cardinality({b, kept}) = 2
        <5>1. IsFiniteSet({b}) /\ Cardinality({b}) = 1
          BY FS_Singleton
        <5>2. Cardinality({b} \cup {kept}) = Cardinality({b}) + 1
          BY <1>8, <5>1, FS_AddElement
        <5>3. {b} \cup {kept} = {b, kept}
          OBVIOUS
        <5> QED BY <5>1, <5>2, <5>3
      <4>3. Cardinality({b, kept}) <= Cardinality(copies) /\ Cardinality(copies) \in Nat
        BY <3>1, <4>1, FS_Subset, FS_CardinalityType
      <4> QED BY <4>2, <4>3
    <3>3. a.hash \in {c.hash : c \in scan.assets} \ {None}
      OBVIOUS
    <3> QED BY <1>1, <3>2, <3>3 DEF GroupsOf
  <2>4. DuplicateContent(scan.policy, scan.groups, b)
    BY <1>8, <2>1, <2>2, <2>3, DefaultIsPolicy DEF DuplicateContent, kept
  <2> QED BY <1>6, <2>4
<1> QED BY <1>4, <1>7, <1>8

(* Of the copies of one content one is spared, valid if any is and then of *)
(* the shortest path, and under the default policy no other is             *)
(* (find_duplicate_groups, NoDuplicateContentRule).                        *)
THEOREM OneCopyStays == Spec => []OneCopyIsSpared
<1>1. AnalysisInv => OneCopyIsSpared
  BY SparesOneCopy DEF OneCopyIsSpared
<1> QED BY <1>1, Invariance, PTL

-----------------------------------------------------------------------------
(* A line whose only path is relative to the folder of its file refers to  *)
(* an asset of the folder it leads to.                                     *)
Lone(line) ==
  /\ Len(line.words) = 1 /\ line.words[1].lead = "./" /\ line.words[1].dirs = <<>>
  /\ line.templates = <<>> /\ line.folders = <<>> /\ line.guids = {}

LedTo(a, line, dir) == RootDir \o a.dir = Resolved(line.words[1], dir)

InPlace(r) ==
  Lone(r.content) => LedTo(ws.files[r.asset], r.content, ws.files[r.file].dir)

RelativeInPlace == \A r \in scan.refs : r.file # ConfigFile => InPlace(r)

LEMMA LoneMatch ==
  ASSUME NEW a, NEW cfg, NEW f, NEW line \in LineType, Lone(line),
         Confidence(a, cfg, f, line) # None
  PROVE  LedTo(a, line, f.dir)
<1> DEFINE w == line.words[1]
<1>1. DOMAIN line.words = {1}
  <2>1. line.words \in Seq(WordType) /\ Len(line.words) = 1
    BY DEF LineType, Lone
  <2> QED BY <2>1
<1>2. ~ByGuid(a, line)
  BY DEF ByGuid, Lone
<1>3. Dynamic(a, f, line) = {}
  <2>1. line.templates = <<>> /\ line.folders = <<>>
    BY DEF Lone
  <2>2. {i \in DOMAIN line.templates :
           line.templates[i].closed /\ line.templates[i].ext \in RecognizedExtensions} = {}
    BY <2>1
  <2>3. DOMAIN DynamicPatterns(line) = {}
    BY <2>1, <2>2 DEF DynamicPatterns
  <2> QED BY <2>3 DEF Dynamic
<1>4. \E i \in DOMAIN line.words : ByStem(a, cfg, f, line, i) \/ ByFilename(a, f, line, i)
  BY <1>2, <1>3 DEF Confidence
<1>5. TokenAgrees(a, f, w)
  BY <1>1, <1>4 DEF ByStem, ByFilename
<1>6. w.lead = "./" /\ w.dirs = <<>>
  BY DEF Lone
<1> HIDE DEF w
<1>7. MatchesToken(a, f.dir, w)
  BY <1>5, <1>6 DEF TokenAgrees, HasSlash
<1>8. RootDir \o a.dir = Resolved(w, f.dir)
  BY <1>6, <1>7 DEF MatchesToken
<1> QED BY <1>8 DEF LedTo, w

LEMMA FileRefsInPlace ==
  ASSUME NEW assets, NEW cfg, NEW f, f.lines \in Seq(LineType), NEW k,
         NEW r \in FileRefs(assets, cfg, f, k), Lone(r.content)
  PROVE  \E a \in assets : r.asset = a.id /\ LedTo(a, r.content, f.dir)
<1>1. PICK a \in assets, i \in LiveLines(f.lines, f.ext) :
        /\ r = [asset |-> a.id, file |-> k, line |-> i, content |-> f.lines[i],
                confidence |-> Confidence(a, cfg, f, f.lines[i])]
        /\ r.confidence # None
  BY DEF FileRefs
<1>2. f.lines[i] \in LineType
  BY DEF LiveLines
<1> DEFINE conf == Confidence(a, cfg, f, f.lines[i])
           line == f.lines[i]
<1>3. /\ r = [asset |-> a.id, file |-> k, line |-> i, content |-> line, confidence |-> conf]
      /\ r.confidence # None
  BY <1>1
<1> HIDE DEF conf, line
<1>4. r.asset = a.id /\ r.content = line /\ conf # None
  BY <1>3
<1>5. LedTo(a, line, f.dir)
  BY <1>2, <1>4, LoneMatch DEF conf, line
<1> QED BY <1>4, <1>5

LEMMA RelativeStaysInPlace ==
  ASSUME Given, OnDisk, ScanTyped, Traces, RelativeInPlace, [Next]_vars
  PROVE  RelativeInPlace'
<1>1. ws' = ws /\ IsScan /\ Contents
  BY StepEffects DEF ScanTyped
<1>2. ASSUME scan'.refs \in {{}, scan.refs} PROVE RelativeInPlace'
  BY <1>1, <1>2 DEF RelativeInPlace, InPlace
<1>3. CASE scan' = NoScan \/ scan' = scan
  BY <1>2, <1>3, NoScanFields
<1>4. ASSUME NEW by, Start(by) PROVE RelativeInPlace'
  BY <1>2, <1>3, <1>4, StartStep DEF StartedAs
<1>5. CASE scan' = [NoScan EXCEPT !.phase = "gated", !.ci = Load(config).ci]
  BY <1>2, <1>5, GatedStep
<1>6. CASE Ingest \/ HashAndGroup \/ RecordSnapshot \/ WriteAuditEvent
  BY <1>1, <1>2, <1>6, IngestStep, HashStep, RecordStep DEF SameTraces
<1>7. CASE TraceFile
  <2>1. PICK k \in scan.sources :
              \/ scan'.refs = scan.refs
              \/ /\ disk[k] # None
                 /\ scan'.refs = scan.refs \cup
                      FileRefs(scan.assets, scan.policy.tracing, disk[k], k)
    BY <1>1, <1>7, TraceStep
  <2>2. SourceKey(k) /\ k \in DOMAIN ws.files
    BY DEF Traces, SourceKey
  <2>3. CASE /\ disk[k] # None
             /\ scan'.refs = scan.refs \cup
                  FileRefs(scan.assets, scan.policy.tracing, disk[k], k)
    <3>1. disk[k].lines \in Seq(LineType) /\ disk[k].dir = ws.files[k].dir
      BY <2>2, <2>3, VersionIsFile, WorkspaceFacts DEF OnDisk
    <3>2. ASSUME NEW r \in FileRefs(scan.assets, scan.policy.tracing, disk[k], k)
          PROVE  InPlace(r)
      <4> SUFFICES ASSUME Lone(r.content)
                   PROVE  LedTo(ws.files[r.asset], r.content, ws.files[r.file].dir)
        BY DEF InPlace
      <4>1. PICK a \in scan.assets : r.asset = a.id /\ LedTo(a, r.content, disk[k].dir)
        BY <3>1, FileRefsInPlace
      <4>2. a.dir = ws.files[a.id].dir
        BY <1>1, BornFields DEF Contents
      <4>3. r.file = k
        BY <2>2, <3>1, FileRefsAreReferences
      <4> QED BY <3>1, <4>1, <4>2, <4>3 DEF LedTo
    <3>3. \A r \in scan'.refs : r.file # ConfigFile => InPlace(r)
      BY <2>3, <3>2 DEF RelativeInPlace
    <3> QED BY <1>1, <3>3 DEF RelativeInPlace, InPlace
  <2> QED BY <1>2, <2>1, <2>3
<1>8. CASE Govern
  <2>1. scan'.refs = scan.refs
          \cup CollectionRefs(scan.assets, scan.policy.tracing, scan.refs)
    BY <1>1, <1>8, GovernStep
  <2>2. \A r \in CollectionRefs(scan.assets, scan.policy.tracing, scan.refs) :
          r.file = ConfigFile
    BY <1>1, CollectionRefsAreReferences DEF Contents
  <2>3. \A r \in scan'.refs : r.file # ConfigFile => InPlace(r)
    BY <2>1, <2>2 DEF RelativeInPlace
  <2> QED BY <1>1, <2>3 DEF RelativeInPlace, InPlace
<1> QED
  BY <1>3, <1>4, <1>5, <1>6, <1>7, <1>8, ScanCases DEF Advance, AnswerCheck

LEMMA RelativeHolds == Spec => []RelativeInPlace
<1>1. Init => RelativeInPlace
  <2> SUFFICES ASSUME Init PROVE RelativeInPlace
    OBVIOUS
  <2>1. scan = NoScan
    BY DEF Init
  <2>2. scan.refs = {}
    BY <2>1, NoScanFields
  <2> QED BY <2>2 DEF RelativeInPlace
<1>2. AnalysisInv /\ RelativeInPlace /\ [Next]_vars => RelativeInPlace'
  BY RelativeStaysInPlace DEF AnalysisInv, SourcesAreNoAssets
<1> QED BY <1>1, <1>2, Invariance, PTL DEF Spec

(* Homonyms are kept apart: a line whose only path is "./name" or          *)
(* "../name" refers to no asset outside the folder it leads to             *)
(* (asset_matches_path_token).                                             *)
THEOREM RelativePathsAreExact == Spec => []RelativeMeansThatFolder
<1>1. AnalysisInv /\ RelativeInPlace => RelativeMeansThatFolder
  <2> SUFFICES ASSUME AnalysisInv, RelativeInPlace, NEW r \in scan.refs, NEW a \in scan.assets,
                      r.asset = a.id, r.file # ConfigFile, Lone(r.content)
               PROVE  RootDir \o a.dir
                        = Resolved(r.content.words[1], ws.files[r.file].dir)
    BY DEF RelativeMeansThatFolder, Lone
  <2>1. a.dir = ws.files[a.id].dir
    BY BornFields DEF AnalysisInv, ScanTyped, Contents
  <2>2. InPlace(r)
    BY DEF RelativeInPlace
  <2> QED BY <2>1, <2>2 DEF InPlace, LedTo
<1> QED BY <1>1, Invariance, RelativeHolds, PTL

-----------------------------------------------------------------------------
(* Two policies that differ in their overrides only, and override nothing  *)
(* for an asset, judge it alike.                                           *)
Agree(p, q) == \A section \in Sections \ {"overrides"} : p[section] = q[section]

LEMMA JudgedAlike ==
  ASSUME NEW p, NEW q, Agree(p, q), NEW a, PolicyFor(p, a) = p, PolicyFor(q, a) = q,
         NEW seen, NEW there, seen[a.id] # None, there[a.id] # None,
         seen[a.id].unsafe = there[a.id].unsafe,
         NEW rule \in RuleIds, NEW groups, NEW refs
  PROVE  /\ Flagged(rule, p, seen, groups, refs, a) <=> Flagged(rule, q, there, groups, refs, a)
         /\ p[rule] = q[rule]
<1>1. /\ p.unref = q.unref /\ p.dup = q.dup /\ p.size = q.size /\ p.dims = q.dims
      /\ p.naming = q.naming /\ p.svg = q.svg /\ p.formats = q.formats /\ p.gif = q.gif
      /\ p.tracing = q.tracing
  BY DEF Agree, Sections
<1>2. p[rule] = q[rule]
  BY DEF Agree, Sections, RuleIds
<1>3. CASE rule = "unref"
  BY <1>1, <1>3 DEF Flagged, Unreferenced
<1>4. CASE rule = "dup"
  BY <1>1, <1>4 DEF Flagged, DuplicateContent
<1>5. CASE rule = "size"
  BY <1>1, <1>5 DEF Flagged, TooLarge
<1>6. CASE rule = "dims"
  BY <1>1, <1>6 DEF Flagged, TooWide
<1>7. CASE rule = "naming"
  BY <1>1, <1>7 DEF Flagged, Misnamed
<1>8. CASE rule = "svg"
  BY <1>1, <1>8 DEF Flagged, UnsafeSvg
<1>9. CASE rule = "formats"
  BY <1>1, <1>9 DEF Flagged, Disallowed
<1>10. CASE rule = "gif"
  BY <1>1, <1>10 DEF Flagged, LegacyGif
<1> QED BY <1>2, <1>3, <1>4, <1>5, <1>6, <1>7, <1>8, <1>9, <1>10 DEF RuleIds

(* What a policy says of an asset it judges as another does, that one says.*)
LEMMA SaidAlike ==
  ASSUME NEW p, NEW q, Agree(p, q), NEW seen, NEW there, NEW assets, NEW groups, NEW refs,
         NEW d \in Diagnostics(p, seen, assets, groups, refs),
         \A a \in assets : a.id = d.asset =>
           /\ PolicyFor(p, a) = p /\ PolicyFor(q, a) = q
           /\ seen[a.id] # None /\ there[a.id] # None
           /\ seen[a.id].unsafe = there[a.id].unsafe
  PROVE  d \in Diagnostics(q, there, assets, groups, refs)
<1> DEFINE F(r, b) == Flagged(r, p, seen, groups, refs, b)
           G(r, b) == Flagged(r, q, there, groups, refs, b)
           D(r, b) == [rule |-> r, asset |-> b.id, sev |-> PolicyFor(p, b)[r].sev]
           E(r, b) == [rule |-> r, asset |-> b.id, sev |-> PolicyFor(q, b)[r].sev]
           S == {x \in RuleIds \X assets : F(x[1], x[2])}
           T == {x \in RuleIds \X assets : G(x[1], x[2])}
<1>1. d \in {D(x[1], x[2]) : x \in S}
  BY DEF Diagnostics
<1>2. Diagnostics(q, there, assets, groups, refs) = {E(x[1], x[2]) : x \in T}
  BY DEF Diagnostics
<1>3. PICK x \in RuleIds \X assets : F(x[1], x[2]) /\ d = D(x[1], x[2])
  BY <1>1
<1> DEFINE r == x[1]
           a == x[2]
<1>4. r \in RuleIds /\ a \in assets /\ F(r, a) /\ d = D(r, a)
  BY <1>3
<1> HIDE DEF r, a, F, G
<1>5. d.asset = a.id
  BY <1>4
<1>6. /\ PolicyFor(p, a) = p /\ PolicyFor(q, a) = q
      /\ seen[a.id] # None /\ there[a.id] # None
      /\ seen[a.id].unsafe = there[a.id].unsafe
  BY <1>4, <1>5
<1>7. (F(r, a) <=> G(r, a)) /\ p[r] = q[r]
  BY <1>4, <1>6, JudgedAlike DEF F, G
<1>8. G(r, a) /\ E(r, a) = d
  BY <1>4, <1>6, <1>7
<1>9. <<r, a>> \in T /\ <<r, a>>[1] = r /\ <<r, a>>[2] = a
  BY <1>4, <1>8
<1> HIDE DEF T
<1>10. E(<<r, a>>[1], <<r, a>>[2]) \in Diagnostics(q, there, assets, groups, refs)
  BY <1>2, <1>9
<1> QED BY <1>8, <1>9, <1>10

(* The policy of a configuration without its overrides.                    *)
LEMMA AloneAgrees ==
  ASSUME NEW cfg, IsConfig(cfg)
  PROVE  LET policy == ParseConfig(cfg)
             alone  == ParseConfig([cfg EXCEPT !.overrides = <<>>])
         IN  /\ Agree(policy, alone)
             /\ \A a : PolicyFor(alone, a) = alone
             /\ \A a : (\A o \in Range(cfg.overrides) : ~MatchesAny(a, o.files))
                         => PolicyFor(policy, a) = policy
<1> DEFINE bare == [cfg EXCEPT !.overrides = <<>>]
           policy == ParseConfig(cfg)
           alone == ParseConfig(bare)
<1>1. cfg = [field \in ConfigFields |-> cfg[field]]
  BY DEF IsConfig
<1>2. /\ bare.extends = cfg.extends /\ bare.ignore = cfg.ignore /\ bare.docs = cfg.docs
      /\ bare.tracing = cfg.tracing /\ bare.ci = cfg.ci /\ bare.govCi = cfg.govCi
      /\ bare.enabled = cfg.enabled /\ bare.rules = cfg.rules
      /\ bare.govRules = cfg.govRules /\ bare.scanDocs = cfg.scanDocs
      /\ bare.overrides = <<>>
  BY <1>1 DEF ConfigFields
<1> HIDE DEF bare
<1>3. BasePolicy(bare) = BasePolicy(cfg)
  BY <1>2 DEF BasePolicy
<1>4. RuledPolicy(bare) = RuledPolicy(cfg)
  BY <1>2, <1>3 DEF RuledPolicy
<1>5. CASE ~cfg.enabled
  <2>1. Off(policy) /\ alone = policy
    BY <1>2, <1>3, <1>5, ParsedIs, ParsedPolicy
  <2> HIDE DEF policy, alone
  <2>2. \A a : PolicyFor(policy, a) = policy
    BY <2>1, NoOverrides DEF Off
  <2>3. Agree(policy, alone)
    BY <2>1 DEF Agree
  <2> QED BY <2>1, <2>2, <2>3 DEF policy, alone, bare
<1>6. CASE cfg.enabled
  <2> DEFINE base == RuledPolicy(cfg)
             used == {i \in DOMAIN cfg.overrides : cfg.overrides[i].files # <<>>}
             kept == [i \in used |-> [files  |-> cfg.overrides[i].files,
                                      policy |-> ApplyRules(base, cfg.overrides[i].rules)]]
  <2>1. DOMAIN base = Sections
    BY RuledIsPolicy
  <2>2. policy = [base EXCEPT !.overrides = kept]
    <3>1. policy = WithOverrides(base, cfg.overrides)
      BY <1>6, ParsedIs
    <3> QED BY <3>1 DEF WithOverrides
  <2>3. \E none : alone = [base EXCEPT !.overrides = none] /\ DOMAIN none = {}
    <3>1. alone = WithOverrides(base, <<>>)
      BY <1>2, <1>4, <1>6, ParsedIs
    <3> DEFINE unused == {i \in DOMAIN <<>> : <<>>[i].files # <<>>}
               none == [i \in unused |-> [files  |-> <<>>[i].files,
                                          policy |-> ApplyRules(base, <<>>[i].rules)]]
    <3>2. alone = [base EXCEPT !.overrides = none]
      BY <3>1 DEF WithOverrides
    <3>3. unused = {} /\ DOMAIN none = unused
      OBVIOUS
    <3> HIDE DEF none, unused
    <3> QED BY <3>2, <3>3
  <2>4. PICK none : alone = [base EXCEPT !.overrides = none] /\ DOMAIN none = {}
    BY <2>3
  <2>5. /\ DOMAIN kept = used
        /\ \A i \in used : kept[i].files = cfg.overrides[i].files
    OBVIOUS
  <2>6. used \subseteq DOMAIN cfg.overrides
    OBVIOUS
  <2> HIDE DEF base, kept, used, policy, alone
  <2>7. "overrides" \in Sections
    BY DEF Sections
  <2>8. policy.overrides = kept /\ alone.overrides = none
    BY <2>1, <2>2, <2>4, <2>7
  <2>9. Agree(policy, alone)
    BY <2>1, <2>2, <2>4 DEF Agree
  <2>10. ASSUME NEW a PROVE PolicyFor(alone, a) = alone
    <3>1. {i \in DOMAIN alone.overrides : MatchesAny(a, alone.overrides[i].files)} = {}
      BY <2>4, <2>8
    <3> QED BY <3>1 DEF PolicyFor
  <2>11. ASSUME NEW a, \A o \in Range(cfg.overrides) : ~MatchesAny(a, o.files)
         PROVE  PolicyFor(policy, a) = policy
    <3>1. \A i \in used : ~MatchesAny(a, kept[i].files)
      BY <2>5, <2>6, <2>11 DEF Range
    <3>2. {i \in DOMAIN policy.overrides : MatchesAny(a, policy.overrides[i].files)} = {}
      BY <2>5, <2>8, <3>1
    <3> QED BY <3>2 DEF PolicyFor
  <2> QED BY <2>9, <2>10, <2>11 DEF policy, alone, bare
<1> QED BY <1>5, <1>6

(* An override is local: elsewhere an analysis reports what it would       *)
(* without any (WithOverrides of parse_config_str, policy_for).            *)
THEOREM OverridesStayLocal == Spec => []OverridesAreLocal
<1>1. AnalysisInv => OverridesAreLocal
  <2> SUFFICES ASSUME AnalysisInv, Untouched, config \notin {None, Broken}
               PROVE  OverridesAreLocal
    BY DEF OverridesAreLocal
  <2> DEFINE alone == ParseConfig([config EXCEPT !.overrides = <<>>])
             policy == scan.policy
             diags == Diagnostics(alone, disk, scan.assets, scan.groups, scan.refs)
             Elsewhere(d) == \A o \in Range(config.overrides), a \in scan.assets :
                               a.id = d.asset => ~MatchesAny(a, o.files)
  <2>1. Given /\ OnDisk /\ Contents /\ Working /\ Judged /\ edits = 0
    BY DEF AnalysisInv, ScanTyped, Untouched, Done, Working, Judged
  <2>2. IsConfig(config) /\ policy = ParseConfig(config)
    BY <2>1, WorkspaceFacts, LoadedPolicy DEF AnalysisInv, RulesFixed
  <2>3. /\ Agree(policy, alone)
        /\ \A a : PolicyFor(alone, a) = alone
        /\ \A a : (\A o \in Range(config.overrides) : ~MatchesAny(a, o.files))
                    => PolicyFor(policy, a) = policy
    BY <2>2, AloneAgrees
  <2>4. PICK seen :
          /\ scan.diags = Diagnostics(policy, seen, scan.assets, scan.groups, scan.refs)
          /\ \A k \in DOMAIN ws.files : seen[k] # None /\ seen[k].unsafe = ws.files[k].unsafe
    BY <2>1 DEF AnalysisInv, JudgedAsRead
  <2>5. \A a \in scan.assets : /\ seen[a.id] # None /\ disk[a.id] # None
                               /\ seen[a.id].unsafe = disk[a.id].unsafe
    <3> TAKE a \in scan.assets
    <3>1. a.id \in DOMAIN ws.files /\ a.id \in Present
      BY <2>1 DEF Contents, Born, OnDisk
    <3>2. Version(a.id, disk[a.id]) /\ disk[a.id] # None
      BY <2>1, <3>1, PresentIsOnDisk DEF Present
    <3>3. disk[a.id].unsafe = ws.files[a.id].unsafe
      BY <2>1, <3>1, <3>2, VersionIsFile, WorkspaceFacts
    <3> QED BY <2>4, <3>1, <3>2, <3>3
  <2> HIDE DEF alone, policy, diags
  <2>6. ASSUME NEW d \in scan.diags, Elsewhere(d) PROVE d \in diags
    <3>1. \A a \in scan.assets : a.id = d.asset =>
            PolicyFor(policy, a) = policy /\ PolicyFor(alone, a) = alone
      BY <2>3, <2>6
    <3> QED BY <2>3, <2>4, <2>5, <3>1, SaidAlike DEF diags
  <2>7. ASSUME NEW d \in diags, Elsewhere(d) PROVE d \in scan.diags
    <3>1. \A a \in scan.assets : a.id = d.asset =>
            PolicyFor(policy, a) = policy /\ PolicyFor(alone, a) = alone
      BY <2>3, <2>7
    <3>2. Agree(alone, policy)
      BY <2>3 DEF Agree
    <3>3. d \in Diagnostics(alone, disk, scan.assets, scan.groups, scan.refs)
      BY DEF diags
    <3> QED BY <2>4, <2>5, <3>1, <3>2, <3>3, SaidAlike
  <2>8. {d \in scan.diags : Elsewhere(d)} = {d \in diags : Elsewhere(d)}
    BY <2>6, <2>7
  <2> QED BY <2>8 DEF OverridesAreLocal, alone, diags
<1> QED BY <1>1, Invariance, PTL

=============================================================================
