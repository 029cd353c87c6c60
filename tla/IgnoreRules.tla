---------------------------- MODULE IgnoreRules ----------------------------
(***************************************************************************)
(* Which files of a workspace the scanner and the tracer look at           *)
(* (scanner/ignore_rules.rs, scanner/walker.rs): ordered rules, the last   *)
(* one that matches a path decides.                                        *)
(*                                                                         *)
(* A path is the sequence of its folders.  A pattern names folders; where  *)
(* it is anchored to the root it matches there only, otherwise anywhere.   *)
(* The four globs the code compiles per pattern are one test here.         *)
(***************************************************************************)
EXTENDS Integers, Sequences, FiniteSetsExt, SequencesExt

CONSTANT RootDir   \* the folders of the workspace root itself

ASSUME RootDirAssumption == RootDir \in Seq(STRING)

-----------------------------------------------------------------------------
Exclude(anchored, dirs) ==
  [negate |-> FALSE, anchored |-> anchored, dirs |-> dirs, glob |-> TRUE]
Include(anchored, dirs) == [Exclude(anchored, dirs) EXCEPT !.negate = TRUE]
BadGlob == [Exclude(FALSE, <<"[">>) EXCEPT !.glob = FALSE]   \* Glob::new fails

DefaultExcludeDirs ==
  <<"node_modules", ".git", "dist", "build", ".turbo", ".gradle", "target",
    "coverage", ".vscode", ".idea", ".next", ".nuxt", ".svelte-kit", ".animoria",
    "docs", "doc">>

DefaultRules ==
  [i \in DOMAIN DefaultExcludeDirs |-> Exclude(FALSE, <<DefaultExcludeDirs[i]>>)]

UnityGenerated(unity) ==
  IF unity THEN <<Exclude(TRUE, <<"Library">>), Exclude(TRUE, <<"Temp">>)>> ELSE <<>>

(* IgnoreRules::new: a pattern that is no glob fails the whole scan.       *)
Compiles(patterns) == \A p \in Range(patterns) : p.glob
Rules(patterns)    == DefaultRules \o patterns

Covers(rule, path) ==
  IF rule.anchored
  THEN IsPrefix(rule.dirs, path)
  ELSE \E i \in 0 .. Len(path) - Len(rule.dirs) :
         SubSeq(path, i + 1, i + Len(rule.dirs)) = rule.dirs

IsIgnored(rules, path) ==
  LET hits == {i \in DOMAIN rules : Covers(rules[i], path)}
  IN  hits # {} /\ ~rules[Max(hits)].negate

(* Both the absolute and the relative path must be free of exclusion.      *)
IsIgnoredRelative(rules, dir) ==
  IsIgnored(rules, RootDir \o dir) \/ IsIgnored(rules, dir)

(* What either walker yields: hidden and git-ignored files never are.      *)
Visible(rules, f) == ~f.hidden /\ ~IsIgnoredRelative(rules, f.dir)

RecognizedExtensions ==
  {"json", "lottie", "riv", "gif", "apng", "svg", "png", "jpg", "jpeg", "webp",
   "avif", "bmp", "eps", "icns", "ico", "cur", "odd", "ps", "psd", "tiff", "tif"}

(* scan_candidates.                                                        *)
IsCandidate(rules, f) == Visible(rules, f) /\ f.ext \in RecognizedExtensions
=============================================================================
