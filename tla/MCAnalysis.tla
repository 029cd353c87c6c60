----------------------------- MODULE MCAnalysis -----------------------------
(***************************************************************************)
(* Workspaces for Analysis, in families: what a line may say, what a       *)
(* configuration may say, which folders are ignored, and small workspaces  *)
(* that are edited, rescanned, rewritten and whose daemon is killed.       *)
(***************************************************************************)
EXTENDS Analysis

MCRootDir == <<"home", "app">>
MCEditedLine == PlainLine(<<>>)

(* Files.                                                                  *)
PathLength(dir, stem, ext) ==
  FoldSeq(LAMBDA d, n : n + Len(d) + 1, Len(stem) + 1 + Len(ext), dir)

File(dir, stem, ext, rank) ==
  [dir |-> dir, stem |-> stem, ext |-> ext, rank |-> rank,
   length |-> PathLength(dir, stem, ext), hidden |-> FALSE,
   guid |-> None, format |-> ext, valid |-> TRUE, content |-> stem, kb |-> 1,
   px |-> None, unsafe |-> FALSE, text |-> FALSE, lines |-> <<>>]

Source(dir, stem, ext, lines) ==
  [File(dir, stem, ext, 9) EXCEPT !.format = "none", !.text = TRUE, !.lines = lines]

Bound(s, e, k) == [scans |-> s, edits |-> e, kills |-> k, faults |-> 0]
NoArguments == [minScore |-> None, maxWarnings |-> None, strict |-> FALSE]

Workspace(files, conf, bound) ==
  [disk |-> files, config |-> conf, unity |-> FALSE, custom |-> <<>>,
   animoriaignore |-> <<>>, args |-> NoArguments, bound |-> bound]

-----------------------------------------------------------------------------
(* Configurations: no setting, and settings that meet.                     *)
NoRules == [r \in {} |-> None]
NoGate  == [minScore |-> None, maxWarnings |-> None]
Conf ==
  [extends |-> None, ignore |-> <<>>, docs |-> FALSE, tracing |-> DefaultPolicy.tracing,
   ci |-> NoGate, govCi |-> None, enabled |-> TRUE, rules |-> NoRules,
   govRules |-> NoRules, scanDocs |-> FALSE, overrides |-> <<>>]

DynamicConf ==
  [Conf EXCEPT !.tracing.dynamic = <<Exclude(TRUE, <<"img">>)>>, !.tracing.minStem = 2,
               !.tracing.includeSources = {"png"}]

-----------------------------------------------------------------------------
(* Tracing: two homonyms and a longer name, one source, its lines.         *)
Icons  == "icons/hero.png"
Images == "img/hero.png"
Longer == "img/superhero.png"
Code   == "the source"

HeroFiles ==
  Icons :> File(<<"icons">>, "hero", "png", 1)
    @@ Images :> [File(<<"img">>, "hero", "png", 2) EXCEPT !.content = "other"]
    @@ Longer :> File(<<"img">>, "superhero", "png", 3)

WrittenLeads == {"", "./", "/", "res://", "https://", "@", "R."}
Words ==
  {w \in [lead : WrittenLeads, ups : 0 .. 1, dirs : {<<>>, <<"icons">>, <<"img">>},
          stem : {"hero", "superhero"}, ext : {"png", None}, quoted : BOOLEAN] :
     /\ w.ups > 0 => w.lead = "./"
     /\ w.lead = "R." => w.dirs = <<>> /\ w.ext = None
     /\ w.lead = "@" => w.dirs # <<>> /\ w.ext = None}

SomeWords ==
  {Word("./", 1, <<"icons">>, "hero", "png", TRUE), Word("./", 0, <<>>, "hero", "png", TRUE),
   Word("", 0, <<"img">>, "superhero", "png", TRUE), Word("", 0, <<>>, "hero", "png", TRUE),
   Word("https://", 0, <<"cdn">>, "hero", "png", TRUE), Word("/", 0, <<"img">>, "hero", "png", FALSE)}

Keys == {{}, {"Resources.Load"}, {"Image"}, {"require"}, {"Lottie."}}
KeyWords ==
  {Word("", 0, <<>>, "hero", None, TRUE), Word("", 0, <<"icons">>, "hero", None, TRUE),
   Word("./", 1, <<"img">>, "hero", "png", TRUE)}

Template(marker, dirs, pre, suf, closed) ==
  [marker |-> marker, dirs |-> dirs, pre |-> pre, suf |-> suf, ext |-> "png",
   closed |-> closed]
Templates ==
  {Template(m, d, p, s, c) : m \in {"${", "{"}, d \in {<<>>, <<"img">>}, p \in {"", "super"},
                             s \in {"", "ro"}, c \in BOOLEAN}

Concatenation == [PlainLine(<<>>) EXCEPT !.plus = TRUE, !.folders = <<<<"img">>, <<"icons">>>>,
                                         !.exts = <<"png", "txt">>]

Lines ==
  {PlainLine(<<w>>) : w \in Words}
    \cup {PlainLine(<<v, w>>) : v, w \in SomeWords}
    \cup {[PlainLine(<<w>>) EXCEPT !.keys = k] : w \in KeyWords, k \in Keys}
    \cup {[PlainLine(<<>>) EXCEPT !.templates = <<t>>] : t \in Templates}
    \cup {[PlainLine(<<w>>) EXCEPT !.templates = <<Template("${", <<"icons">>, "", "", TRUE)>>] :
            w \in SomeWords}
    \cup {Concatenation, [PlainLine(<<>>) EXCEPT !.guids = {"guid"}]}

LineWorkspaces ==
  {Workspace(HeroFiles @@ Code :> Source(dir, "app", "ts", <<line>>), None, Bound(1, 0, 0)) :
     dir \in {<<"src">>, <<"img">>}, line \in Lines}

(* Comments around a line that names an asset, in several languages.       *)
Marks(opens, closes, words) ==
  [PlainLine(words) EXCEPT !.opens = opens, !.closes = closes]
Named == <<Word("./", 1, <<"icons">>, "hero", "png", TRUE)>>

CommentWorkspaces ==
  {Workspace(HeroFiles @@ Code :> Source(<<"src">>, "app", ext,
                                         <<Marks(o, c, w), Marks(o2, c2, <<>>), PlainLine(Named)>>),
             None, Bound(1, 0, 0)) :
     ext \in {"ts", "py", "lua", "md"}, w \in {<<>>, Named},
     o \in {"", "//", "#", "--", "/*", "<!--", "--[["}, c \in {{}, {"*/"}, {"]]"}},
     o2 \in {"", "/*"}, c2 \in {{}, {"*/"}, {"]]"}, {"-->"}}}

(* Names an asset may go by, and files that are sources and assets.        *)
NamesakeWorkspaces ==
  {Workspace(
     ("res/drawable-hdpi/ok.png" :> File(<<"res", "drawable-hdpi">>, "ok", "png", 1)
        @@ "cat" :> [File(<<"hero.imageset">>, "hero@2x", "png", 2) EXCEPT !.guid = "guid"]
        @@ "play.json" :> [File(<<"img">>, "play", "json", 3) EXCEPT !.format = "lottie",
                             !.valid = valid, !.text = TRUE, !.lines = <<line>>]
        @@ "same.json" :> Source(<<"src">>, "play", "json", <<line>>)
        @@ Code :> Source(<<"src">>, "app", "swift", <<line>>)),
     conf, Bound(1, 0, 0)) :
   valid \in BOOLEAN, conf \in {None, Conf, DynamicConf},
   line \in {PlainLine(<<Word("@", 0, <<"drawable">>, "ok", None, TRUE)>>),
             PlainLine(<<Word("", 0, <<>>, "ok", "png", TRUE)>>),
             [PlainLine(<<Word("", 0, <<>>, "hero", None, TRUE)>>) EXCEPT !.keys = {"Image"}],
             [PlainLine(<<>>) EXCEPT !.guids = {"guid"}],
             PlainLine(<<Word("./", 1, <<"img">>, "play", "json", TRUE)>>)}}

-----------------------------------------------------------------------------
(* Governance: copies of which the nearest may be damaged, one file against*)
(* every rule, and what a configuration makes of them.                     *)
PolicyFiles(valid) ==
  "logo"     :> [File(<<"img">>, "logo", "png", 1) EXCEPT !.valid = valid, !.kb = 300]
    @@ "copy" :> [File(<<"img", "old">>, "BadName", "png", 2) EXCEPT
                    !.content = "logo", !.kb = 600, !.px = <<3000, 10>>]
    @@ "icon" :> [File(<<"public">>, "favicon", "gif", 3) EXCEPT !.content = "logo"]
    @@ "svg"  :> [File(<<"img">>, "art@2x", "svg", 4) EXCEPT !.unsafe = TRUE, !.px = <<10, 2000>>]
    @@ Code   :> Source(<<"src">>, "app", "ts",
                        <<PlainLine(<<Word("/", 0, <<"img">>, "logo", "png", TRUE)>>)>>)

Img    == <<Exclude(TRUE, <<"img">>)>>
Old    == <<Exclude(TRUE, <<"img", "old">>)>>
Object(word, args) == Entry("object", word, args)
OneRule(id, e)     == [Conf EXCEPT !.rules = id :> e]

Entries ==
  {Entry("bool", "false", NoArgs), Entry("bool", "true", NoArgs), Entry("string", "off", NoArgs),
   Entry("string", "info", NoArgs), Entry("string", "snake", NoArgs),
   Entry("number", None, [NoArgs EXCEPT !.number = 400]),
   Object("error", [NoArgs EXCEPT !.number = Unreadable, !.ignore = Img, !.icons = TRUE]),
   Object("off", [NoArgs EXCEPT !.enabled = TRUE, !.w = 2000, !.formats = {"png"}]),
   Object("warning", [NoArgs EXCEPT !.h = 1000, !.pattern = {"logo"}, !.case = "camel"]),
   Object("warning", [NoArgs EXCEPT !.pattern = Unreadable, !.exts = {"ts"}, !.number = 1]),
   Entry("array", "error", [NoArgs EXCEPT !.number = Unreadable, !.ignore = Img,
                              !.formats = {"gif"}, !.case = "pascal"])}

Presets == {[Conf EXCEPT !.extends = e] : e \in {"strict", "relaxed", "recommended"}}

OverrideRules ==
  {"unref" :> Entry("string", "off", NoArgs), "dup" :> Entry("bool", "false", NoArgs),
   "size" :> Entry("number", None, [NoArgs EXCEPT !.number = 1]),
   "naming" :> Entry("string", "lower", NoArgs)}

Configurations ==
  {OneRule(id, e) : id \in RuleIds, e \in Entries}
    \cup Presets
    \cup {[c EXCEPT !.enabled = FALSE, !.overrides = <<[files |-> Img, rules |-> o]>>] :
            c \in Presets, o \in {NoRules} \cup OverrideRules}
    \cup {[c EXCEPT !.overrides = <<[files |-> <<>>, rules |-> o], [files |-> Old, rules |-> NoRules],
                                    [files |-> Img, rules |-> o]>>] :
            c \in Presets \cup {Conf}, o \in OverrideRules}
    \cup {[OneRule("dup", Entry("string", "warning", NoArgs)) EXCEPT
             !.extends = "strict", !.govRules = "dup" :> e, !.govCi = g] :
            e \in Entries, g \in {None, [NoGate EXCEPT !.maxWarnings = 2]}}
    \cup {[Conf EXCEPT !.ci = [minScore |-> s, maxWarnings |-> 3],
                       !.overrides = <<[files |-> Img, rules |-> "svg" :> Entry("bool", "false", NoArgs)]>>] :
            s \in {None, 50}}

PolicyWorkspaces ==
  {Workspace(PolicyFiles(v), c, Bound(1, 0, 0)) : v \in BOOLEAN, c \in Configurations}

-----------------------------------------------------------------------------
(* Folders that defaults, configuration and ignore files disagree on.      *)
IgnoreFiles ==
  "public" :> File(<<"img">>, "hero", "png", 1)
    @@ "docs"    :> File(<<"docs", "private">>, "map", "png", 2)
    @@ "library" :> File(<<"Library">>, "icon", "png", 3)
    @@ "hidden"  :> [File(<<"img">>, "gone", "png", 4) EXCEPT !.hidden = TRUE]
    @@ "guide"   :> Source(<<"docs">>, "guide", "ts",
                           <<PlainLine(<<Word("./", 1, <<"img">>, "hero", "png", TRUE)>>)>>)

Patterns ==
  {<<>>, Img, <<Exclude(FALSE, <<"docs">>)>>, <<Include(FALSE, <<"docs">>)>>,
   <<Exclude(FALSE, <<"docs", "private">>)>>, <<Include(TRUE, <<"Library">>)>>, <<BadGlob>>,
   <<Include(TRUE, <<"docs">>)>>,
   <<Exclude(FALSE, <<"img">>), Include(FALSE, <<"img">>), Exclude(FALSE, <<"img">>)>>}

IgnoreWorkspaces ==
  {[Workspace(IgnoreFiles, [Conf EXCEPT !.ignore = i, !.docs = d, !.scanDocs = ~d], Bound(1, 0, 0))
      EXCEPT !.custom = c, !.animoriaignore = a, !.unity = u] :
     i \in Patterns, c \in {<<>>, Img}, a \in Patterns, d \in BOOLEAN, u \in BOOLEAN}

-----------------------------------------------------------------------------
(* What changes while an analysis, a rewrite or the daemon runs.           *)
Copies ==
  "icons/logo.png" :> [File(<<"icons">>, "logo", "png", 1) EXCEPT !.content = "logo"]
    @@ "img/logo2.png" :> [File(<<"img">>, "logo2", "png", 2) EXCEPT !.content = "logo"]

Written ==
  {Word("./", 1, <<"icons">>, "logo", "png", TRUE), Word("", 0, <<"icons">>, "logo", "png", TRUE),
   Word("/", 0, <<"img">>, "logo2", "png", TRUE), Word("./", 0, <<>>, "logo2", "png", TRUE),
   Word("res://", 0, <<"icons">>, "logo", "png", TRUE), Word("", 0, <<>>, "logo2", "png", TRUE)}

RewriteWorkspaces ==
  {Workspace(Copies @@ Code :> Source(dir, "app", "ts", <<PlainLine(<<w>>), line>>), None,
             Bound(2, e, k)) :
     dir \in {<<"src">>, <<"img">>}, w \in Written, <<e, k>> \in {<<1, 0>>, <<0, 1>>},
     line \in {PlainLine(<<>>), PlainLine(<<Word("/", 0, <<"img">>, "logo2", "png", TRUE)>>)}}

HistoryWorkspaces ==
  {Workspace(Icons :> File(<<"icons">>, "hero", "png", 1), None,
             [Bound(4, 0, 2) EXCEPT !.faults = 2])}

Checked ==
  "a.png" :> File(<<"icons">>, "a", "png", 1)
    @@ "b.json" :> [File(<<"icons">>, "b", "json", 2) EXCEPT !.format = "lottie", !.valid = FALSE]
    @@ "c.svg" :> [File(<<"icons">>, "c", "svg", 3) EXCEPT !.format = "none"]

RaceWorkspaces ==
  {[Workspace(files, c, Bound(2, 1, 0)) EXCEPT !.args = a] :
     files \in {Checked, Code :> Source(<<"src">>, "app", "ts", <<PlainLine(<<>>)>>)},
     c \in Presets \cup {None, Conf},
     a \in {NoArguments, [NoArguments EXCEPT !.strict = TRUE, !.maxWarnings = 5],
            [NoArguments EXCEPT !.minScore = 60]}}

MCWorkspaces ==
  LineWorkspaces \cup CommentWorkspaces \cup NamesakeWorkspaces \cup PolicyWorkspaces
    \cup IgnoreWorkspaces \cup RewriteWorkspaces \cup HistoryWorkspaces \cup RaceWorkspaces
=============================================================================
