------------------------------ MODULE Tracing ------------------------------
(***************************************************************************)
(* Where the sources name an asset (tracing/detector.rs, patterns.rs).     *)
(*                                                                         *)
(* A line is what the detector reads of it: how it opens and which comment *)
(* ends it holds, the paths written on it in order (words), the GUIDs, the *)
(* API names that make a bare name a reference (keys), the templates and   *)
(* the pieces of a concatenation.  A word is a path as written: its lead   *)
(* ("./", "/", "res://", "https://", "@", "R.", or none; "res:" and        *)
(* "https:" are what a rewrite can leave of two of them), the levels it    *)
(* climbs, its folders and its name; names are strings, one may end in     *)
(* another.  Assets are named by the last part of a word only.             *)
(***************************************************************************)
EXTENDS IgnoreRules

CONSTANT None   \* an absent extension, prefix, name or limit

-----------------------------------------------------------------------------
(* Strings.                                                                *)
Offsets(text, piece) ==
  {i \in 0 .. Len(text) - Len(piece) : SubSeq(text, i + 1, i + Len(piece)) = piece}
StartsWith(text, piece) == 0 \in Offsets(text, piece)
EndsWith(text, piece)   == Len(text) - Len(piece) \in Offsets(text, piece)

(* A path as a line writes it.                                             *)
Word(lead, ups, dirs, stem, ext, quoted) ==
  [lead |-> lead, ups |-> ups, dirs |-> dirs, stem |-> stem, ext |-> ext,
   quoted |-> quoted]

PlainLine(words) ==
  [opens |-> "", closes |-> {}, words |-> words, keys |-> {}, folders |-> <<>>,
   exts |-> <<>>, templates |-> <<>>, guids |-> {}, plus |-> FALSE]

HasSlash(w) ==
  w.ups > 0 \/ w.dirs # <<>> \/ w.lead \in {"./", "/", "res://", "https://", "@"}

SameName(a, w) == a.stem = w.stem /\ a.ext = w.ext
NameEnds(a, w) == EndsWith(a.stem, w.stem) /\ a.ext = w.ext   \* asset ends in word

-----------------------------------------------------------------------------
(* Source files and their comments.                                        *)
SourceExtensions ==
  {"ts", "tsx", "js", "vue", "css", "html", "md", "mdx", "json", "kt", "swift",
   "dart", "cs", "lua", "luau", "py", "prefab"}

(* find_source_files: cfg carries the tracing settings of the policy.      *)
IsSourceFile(rules, cfg, f) ==
  /\ Visible(rules, f)
  /\ \A i \in DOMAIN f.dir : ~EndsWith(f.dir[i], ".xcassets")
  /\ f.ext \notin cfg.ignoreSources
  /\ f.ext \in SourceExtensions \cup cfg.includeSources

HashCommentExtensions == {"py", "rb", "toml", "yml", "yaml", "gd", "sh"}
LuaCloser == [o \in {"--[[", "--[=["} |-> IF o = "--[[" THEN "]]" ELSE "]=]"]
BlockCloser == [o \in {"/*", "<!--"} |-> IF o = "/*" THEN "*/" ELSE "-->"]
IsLua(ext) == ext \in {"lua", "luau"}

IsLineComment(line, ext) ==
  \/ line.opens \in {"//", "/*", "<!--"}
  \/ IsLua(ext) /\ line.opens \in {"--"} \cup DOMAIN LuaCloser
  \/ line.opens = "#" /\ ext \in HashCommentExtensions

(* The comment a file is in after a line: "none", "block", or the closer   *)
(* that ends the Lua long comment.                                         *)
CommentAfterOneCloser(in, line, ext) ==   \* a bug: only "*/" ends a comment
  IF (in = "block" \/ line.opens \in DOMAIN BlockCloser) /\ "*/" \notin line.closes
  THEN "block" ELSE "none"

CommentAfter(in, line, ext) ==
  IF in = "block" THEN IF line.closes \cap {"*/", "-->"} # {} THEN "none" ELSE in
  ELSE IF in # "none" THEN IF in \in line.closes THEN "none" ELSE in
  ELSE IF IsLua(ext) /\ line.opens \in DOMAIN LuaCloser
    THEN IF LuaCloser[line.opens] \in line.closes THEN "none" ELSE LuaCloser[line.opens]
  ELSE IF line.opens \in DOMAIN BlockCloser
    THEN IF BlockCloser[line.opens] \in line.closes THEN "none" ELSE "block"
  ELSE "none"

CommentBefore(lines, ext) ==
  LET after[i \in 0 .. Len(lines)] ==
        IF i = 0 THEN "none" ELSE CommentAfter(after[i - 1], lines[i], ext)
  IN  [i \in DOMAIN lines |-> after[i - 1]]

(* The lines the patterns are run over.                                    *)
LiveLines(lines, ext) ==
  {i \in DOMAIN lines : /\ CommentBefore(lines, ext)[i] = "none"
                        /\ ~IsLineComment(lines[i], ext)}

-----------------------------------------------------------------------------
(* asset_matches_path_token: may path w, written in folder dir, mean a?    *)
InFolder(a, dirs) == IsSuffix(dirs, RootDir \o a.dir)

Resolved(w, dir) ==
  LET here == RootDir \o dir IN SubSeq(here, 1, Len(here) - w.ups) \o w.dirs

MatchesTokenByName(a, dir, w) == NameEnds(a, w)   \* a bug: the folder is not compared

MatchesToken(a, dir, w) ==
  CASE w.lead \in {"res:", "https:"} -> FALSE
    [] w.lead = "@" -> /\ a.stem = w.stem /\ w.ext = None
                       /\ \E d \in Range(RootDir \o a.dir) : StartsWith(d, w.dirs[1])
    [] w.lead = "https://" -> w.dirs # <<>> /\ NameEnds(a, w)
    [] w.lead = "./" -> IF w.dirs = <<>>
                        THEN RootDir \o a.dir = Resolved(w, dir) /\ NameEnds(a, w)
                        ELSE SameName(a, w) /\ InFolder(a, w.dirs)
    [] OTHER -> IF w.dirs = <<>>
                THEN NameEnds(a, w) \/ (w.ext = None /\ EndsWith(a.stem, w.stem))
                ELSE a.stem = w.stem /\ w.ext \in {a.ext, None} /\ InFolder(a, w.dirs)

(* A quoted path with a slash anywhere on the line: the asset must be one  *)
(* of them.  Templates and folder pieces are such paths, and match nothing.*)
MatchesLine(a, dir, line) ==
  LET slashed == {w \in Range(line.words) : w.quoted /\ HasSlash(w)}
      others  == line.folders # <<>> \/ \E t \in Range(line.templates) : t.dirs # <<>>
  IN  (slashed # {} \/ others) => \E w \in slashed : MatchesToken(a, dir, w)

(* What stands before a name that begins word w.                           *)
AfterSlash(w) == HasSlash(w)
AfterQuote(w) == w.quoted /\ ~HasSlash(w) /\ w.lead = ""

(* is_valid_exact_filename_reference, on the whole line.                   *)
ValidFilename(a, line) ==
  \E w \in Range(line.words) : SameName(a, w) /\ (AfterSlash(w) \/ AfterQuote(w))

(* is_valid_stem_reference: name is a stem or an .imageset's name.         *)
ValidStem(name, line) ==
  \/ line.keys \cap {"Resources.Load", "WaitForChild", "setAnimation", "Lottie.",
                     "AnimationView"} # {}
  \/ \E w \in Range(line.words) :
       /\ StartsWith(w.stem, name)
       /\ \/ w.lead \in {"R.", "@"}
          \/ w.stem = name /\ w.ext = None /\ AfterQuote(w) /\ "Image" \in line.keys
          \/ "require" \in line.keys /\ AfterSlash(w)
          \/ w.lead = "./" /\ w.dirs = <<>>
          \/ w.stem = name /\ w.ext # None /\ AfterSlash(w)
          \/ w.stem = name /\ w.ext = "json" /\ AfterQuote(w)

-----------------------------------------------------------------------------
(* detect_references, one asset on one line of one source file.  cfg holds *)
(* the tracing settings, f the source file, i the word the match is in.    *)
ImagesetSuffix == ".imageset"
ImagesetName(a) ==
  LET parent == a.dir[Len(a.dir)] IN
  IF a.dir # <<>> /\ EndsWith(parent, ImagesetSuffix)
  THEN SubSeq(parent, 1, Len(parent) - Len(ImagesetSuffix)) ELSE None

MinStem(cfg) == IF cfg.minStem = None THEN 3 ELSE cfg.minStem

(* The names an asset goes by without its extension.                       *)
Stems(a, cfg) ==
  {n \in {a.stem, ImagesetName(a)} : n # None /\ Len(n) >= MinStem(cfg)}

IsSelf(a, f)  == a.stem = f.stem /\ a.ext = f.ext
IsRemote(w)   == w.lead = "https://" /\ w.dirs = <<>>
TokenAgrees(a, f, w) == HasSlash(w) => MatchesToken(a, f.dir, w)

(* An occurrence of a name in a word, valid where the whole line is.       *)
ByFilename(a, f, line, i) ==
  LET w == line.words[i] IN
  /\ EndsWith(w.stem, a.stem) /\ w.ext = a.ext
  /\ ~IsSelf(a, f)
  /\ ~(IsRemote(w) /\ w.stem = a.stem)
  /\ MatchesLine(a, f.dir, line)
  /\ TokenAgrees(a, f, w)
  /\ ValidFilename(a, line)

ByStem(a, cfg, f, line, i) ==
  LET w == line.words[i] IN
  \E name \in Stems(a, cfg) :
    /\ Offsets(w.stem, name) # {}
    /\ ~(IsRemote(w) /\ Offsets(w.stem, name) = {0})
    /\ MatchesLine(a, f.dir, line)
    /\ TokenAgrees(a, f, w)
    /\ ValidStem(name, line)

ByGuid(a, line) == a.guid # None /\ a.guid \in line.guids

(* Templates and concatenations: extract_dynamic_patterns.                 *)
HasDynamicCandidate(line) ==
  \/ \E t \in Range(line.templates) : t.marker # "{"
  \/ line.plus /\ line.exts # <<>>

Pattern(dirs, pre, suf, ext) == [dirs |-> dirs, pre |-> pre, suf |-> suf, ext |-> ext]

DynamicPatterns(line) ==
  LET read   == {i \in DOMAIN line.templates :
                   line.templates[i].closed /\ line.templates[i].ext \in RecognizedExtensions}
      exts   == {i \in DOMAIN line.exts : line.exts[i] \in RecognizedExtensions}
      joined == IF line.plus /\ line.folders # <<>> /\ exts # {}
                THEN {Len(line.templates) + 1} ELSE {}
  IN  [i \in read \cup joined |->
         IF i \in read
         THEN LET t == line.templates[i] IN Pattern(t.dirs, t.pre, t.suf, t.ext)
         ELSE Pattern(Last(line.folders), "", "", line.exts[Max(exts)])]

MatchesPatternSwapped(a, p) ==   \* a bug: prefix and suffix swapped
  a.ext = p.ext /\ StartsWith(a.stem, p.suf) /\ EndsWith(a.stem, p.pre)

MatchesPattern(a, p) ==
  LET path == RootDir \o a.dir \o <<a.stem>> IN
  /\ a.ext = p.ext
  /\ \E i \in 0 .. Len(path) - Len(p.dirs) : SubSeq(path, i + 1, i + Len(p.dirs)) = p.dirs
  /\ StartsWith(a.stem, p.pre)
  /\ EndsWith(a.stem, p.suf)

(* The patterns of a line that match an asset.                            *)
Dynamic(a, f, line) ==
  IF HasDynamicCandidate(line) /\ ~IsSelf(a, f)
  THEN {i \in DOMAIN DynamicPatterns(line) : MatchesPattern(a, DynamicPatterns(line)[i])}
  ELSE {}

(* The first match that validates sets the confidence: a word's stem is    *)
(* met before its whole name, and patterns are tried last.                 *)
Confidence(a, cfg, f, line) ==
  LET stem  == {i \in DOMAIN line.words : ByStem(a, cfg, f, line, i)}
      file  == {i \in DOMAIN line.words : ByFilename(a, f, line, i)}
      dyn   == Dynamic(a, f, line)
      first == DynamicPatterns(line)[Min(dyn)]
  IN  IF stem \cup file \cup dyn = {} /\ ~ByGuid(a, line) THEN None
      ELSE IF f.ext \in {"md", "mdx"} THEN "low"
      ELSE IF stem # {} /\ (file = {} \/ Min(stem) <= Min(file)) THEN "medium"
      ELSE IF file # {} \/ ByGuid(a, line) THEN "high"
      ELSE IF first.dirs # <<>> \/ first.pre # "" THEN "medium" ELSE "low"

(* The references a source file holds to some assets: at most one per      *)
(* asset and line.                                                         *)
FileRefs(assets, cfg, f, key) ==
  {r \in {[asset |-> a.id, file |-> key, line |-> i, content |-> f.lines[i],
           confidence |-> Confidence(a, cfg, f, f.lines[i])] :
             a \in assets, i \in LiveLines(f.lines, f.ext)} :
     r.confidence # None}

(* matches_any_pattern: folder globs against a workspace-relative path.    *)
MatchesAny(a, globs) == \E g \in Range(globs) : g.glob /\ IsPrefix(g.dirs, a.dir)

ConfigFile == ".animoriarc.json"

(* Assets a dynamic collection declares, and no source names.              *)
CollectionRefs(assets, cfg, refs) ==
  {[asset |-> a.id, file |-> ConfigFile, line |-> 1, confidence |-> "high",
    content |-> PlainLine(<<Word("", 0, a.dir, a.stem, a.ext, TRUE)>>)] :
     a \in {b \in assets : /\ MatchesAny(b, cfg.dynamic)
                           /\ \A r \in refs : r.asset # b.id}}
=============================================================================
