-------------------------- MODULE ReferenceRewrite --------------------------
(***************************************************************************)
(* The lines a duplicate's removal proposes to rewrite, and what the       *)
(* rewrite of one line is (remediation/reference_rewrite.rs).              *)
(***************************************************************************)
EXTENDS Tracing

-----------------------------------------------------------------------------
(* extract_path_token: the first word that holds the file name; whatever   *)
(* the word says, it is the one replaced.                                  *)
Holding(line, a) ==
  {i \in DOMAIN line.words : /\ EndsWith(line.words[i].stem, a.stem)
                             /\ line.words[i].ext = a.ext}

(* A scheme ends in ':', which is no path character: it stays behind.      *)
SchemeLeft(lead) ==
  CASE lead = "res://" -> "res:" [] lead = "https://" -> "https:" [] OTHER -> ""

CommonDirsByLength(from, to) == Min({Len(from), Len(to)})   \* a bug: not compared

CommonDirs(from, to) ==
  Max({n \in 0 .. Len(from) : n <= Len(to) /\ SubSeq(from, 1, n) = SubSeq(to, 1, n)})

(* compute_relative_path.                                                  *)
RelativeWord(old, dir, keeper) ==
  LET from   == RootDir \o dir
      to     == RootDir \o keeper.dir
      common == CommonDirs(from, to)
      ups    == Len(from) - common
      scheme == SchemeLeft(old.lead)
      lead   == IF scheme # "" THEN scheme
                ELSE IF ups > 0 \/ old.lead = "./" THEN "./" ELSE ""
  IN  Word(lead, ups, SubSeq(to, common + 1, Len(to)), keeper.stem, keeper.ext, old.quoted)

RewrittenLine(line, a, dir, keeper) ==
  LET i == Min(Holding(line, a))
  IN  [line EXCEPT !.words[i] = RelativeWord(@, dir, keeper)]

(* propose_reference_rewrites: for the references of the copies to delete. *)
(* dirs gives each source's folder; a reference by stem alone is skipped.  *)
Proposals(refs, dirs, doomed, keeper) ==
  LET traced == {ra \in refs \X doomed : /\ ra[1].asset = ra[2].id /\ ra[2] # keeper
                                         /\ Holding(ra[1].content, ra[2]) # {}}
      Proposed(r, a) == RewrittenLine(r.content, a, dirs[r.file], keeper)
  IN  {[file |-> ra[1].file, line |-> ra[1].line, original |-> ra[1].content,
        proposed |-> Proposed(ra[1], ra[2])] :
         ra \in {x \in traced : Proposed(x[1], x[2]) # x[1].content}}

(* applyReferenceRewrite: only a line the last scan traced, as it was.     *)
Traced(refs, p) ==
  \E r \in refs : r.file = p.file /\ r.line = p.line /\ r.content = p.original

StillThereAnyhow(lines, p) == p.line \in DOMAIN lines   \* a bug: no comparison
StillThere(lines, p) == p.line \in DOMAIN lines /\ lines[p.line] = p.original
=============================================================================
