----------------------------- MODULE Governance -----------------------------
(***************************************************************************)
(* What the analysis makes of the assets: the policy read from             *)
(* .animoriarc.json (governance/policy.rs), the groups of equal content    *)
(* (deduplication/cluster.rs), the eight rules (governance/rules), the     *)
(* health score (governance/engine.rs) and the CI gate (commands/check.rs).*)
(*                                                                         *)
(* A policy has one section per rule.  Folder globs stand for every glob   *)
(* of the configuration, a set of names for the regex of a naming rule,    *)
(* and sizes are whole kilobytes.                                          *)
(***************************************************************************)
EXTENDS Tracing

CONSTANTS
  Unreadable,  \* a value of the configuration with no meaning there
  Broken       \* a configuration file that is no JSON of the right shape

-----------------------------------------------------------------------------
(* Presets.                                                                *)
RefRule(on, sev, icons) == [on |-> on, sev |-> sev, icons |-> icons, ignore |-> <<>>]

DefaultPolicy ==
  [unref   |-> RefRule(TRUE, "warning", FALSE),
   dup     |-> RefRule(TRUE, "error", FALSE),
   size    |-> [max |-> 512, sev |-> "warning"],
   dims    |-> [w |-> None, h |-> None, sev |-> "warning"],
   formats |-> [allowed |-> None, sev |-> "error"],
   gif     |-> [on |-> FALSE, sev |-> "warning"],
   naming  |-> [case |-> None, sev |-> "warning", pattern |-> None],
   svg     |-> [on |-> TRUE, sev |-> "error"],
   ci      |-> [minScore |-> None, maxWarnings |-> None],
   files   |-> [ignore |-> <<>>, docs |-> FALSE],
   tracing |-> [ignoreSources |-> {}, includeSources |-> {}, minStem |-> None,
                dynamic |-> <<>>],
   overrides |-> <<>>]

Preset(name) ==
  CASE name = "strict" ->
         [DefaultPolicy EXCEPT
            !.unref.sev = "error", !.size = [max |-> 256, sev |-> "error"],
            !.dims = [w |-> 2560, h |-> 1440, sev |-> "error"],
            !.gif = [on |-> TRUE, sev |-> "error"], !.naming.case = "kebab",
            !.naming.sev = "error", !.ci = [minScore |-> 90, maxWarnings |-> 0]]
    [] name = "relaxed" ->
         [DefaultPolicy EXCEPT
            !.unref.on = FALSE, !.dup.sev = "warning", !.dup.icons = TRUE,
            !.size.max = 2048, !.svg.sev = "warning"]
    [] name = "recommended" ->
         [DefaultPolicy EXCEPT !.unref.icons = TRUE, !.dup.icons = TRUE, !.gif.on = TRUE]
    [] OTHER -> DefaultPolicy

-----------------------------------------------------------------------------
(* parse_rule_entry.  A raw entry is a form ("bool", "string", "array",    *)
(* "object", "number"), its leading word and the rest of what it gives; of *)
(* the rest an array reads less than an object does.                       *)
Severities == {"error", "warning", "info"}
Cases      == {"kebab", "snake", "camel", "pascal", "lower"}

NoArgs == [enabled |-> None, number |-> None, w |-> None, h |-> None, case |-> None,
           pattern |-> None, icons |-> None, ignore |-> <<>>, exts |-> {},
           formats |-> {}]

Entry(form, word, args) == [form |-> form, word |-> word, args |-> args]

ArrayArgs(args) == [args EXCEPT !.enabled = None, !.icons = None, !.ignore = <<>>,
                                !.exts = {}]
ReadNumber(args) == [args EXCEPT !.number = IF @ = Unreadable THEN None ELSE @]

Parsed(e, default) ==
  LET words == e.form \in {"string", "array", "object"}
      args  == CASE e.form = "array"  -> ArrayArgs(e.args)
                 [] e.form = "object" -> ReadNumber(e.args)
                 [] OTHER -> ReadNumber([NoArgs EXCEPT !.number = e.args.number])
  IN  [enabled |-> IF e.form = "bool" THEN e.word = "true"
                   ELSE IF args.enabled # None THEN args.enabled
                   ELSE ~(words /\ e.word = "off"),
       sev     |-> IF words /\ e.word \in Severities THEN e.word ELSE default,
       case    |-> IF args.case # None THEN args.case
                   ELSE IF e.form \in {"string", "array"} /\ e.word \in Cases
                   THEN e.word ELSE None,
       args    |-> args]

-----------------------------------------------------------------------------
(* apply_rules_to_policy: each rule writes its own section.                *)
RefSection(old, p) ==
  [on |-> p.enabled, sev |-> p.sev,
   icons |-> IF p.args.icons # None THEN p.args.icons ELSE old.icons,
   ignore |-> old.ignore \o p.args.ignore]

SizeSection(old, p) ==
  IF ~p.enabled THEN [old EXCEPT !.max = None]
  ELSE IF p.args.number = None THEN [old EXCEPT !.sev = p.sev]
  ELSE [max |-> IF p.args.number = Unreadable THEN None ELSE p.args.number, sev |-> p.sev]

DimsSection(old, p) ==
  IF p.enabled THEN [w |-> p.args.w, h |-> p.args.h, sev |-> p.sev]
  ELSE [old EXCEPT !.w = None, !.h = None]

FormatsSection(old, p) ==
  IF ~p.enabled THEN [old EXCEPT !.allowed = None]
  ELSE IF p.args.formats = {} THEN [old EXCEPT !.sev = p.sev]
  ELSE [allowed |-> p.args.formats, sev |-> p.sev]

NamingSection(old, p) ==
  IF ~p.enabled THEN [old EXCEPT !.case = None, !.pattern = None]
  ELSE [case |-> IF p.case # None THEN p.case
                 ELSE IF old.case = None THEN "kebab" ELSE old.case,
        sev |-> p.sev,
        pattern |-> IF p.args.pattern # None THEN p.args.pattern ELSE old.pattern]

OnSection(p) == [on |-> p.enabled, sev |-> p.sev]

ApplyRules(policy, rules) ==
  LET Has(id)          == id \in DOMAIN rules
      Read(id, default) == Parsed(rules[id], default)
  IN  [policy EXCEPT
        !.unref = IF Has("unref") THEN RefSection(@, Read("unref", "warning")) ELSE @,
        !.dup = IF Has("dup") THEN RefSection(@, Read("dup", "error")) ELSE @,
        !.gif = IF Has("gif") THEN OnSection(Read("gif", "warning")) ELSE @,
        !.svg = IF Has("svg") THEN OnSection(Read("svg", "error")) ELSE @,
        !.size = IF Has("size") THEN SizeSection(@, Read("size", "warning")) ELSE @,
        !.dims = IF Has("dims") THEN DimsSection(@, Read("dims", "warning")) ELSE @,
        !.formats = IF Has("formats") THEN FormatsSection(@, Read("formats", "error")) ELSE @,
        !.naming = IF Has("naming") THEN NamingSection(@, Read("naming", "warning")) ELSE @,
        !.tracing.ignoreSources =
          IF Has("unref") THEN @ \cup Read("unref", "warning").args.exts ELSE @]

-----------------------------------------------------------------------------
(* parse_config_str.  A raw configuration holds the preset it extends, its *)
(* files and tracing settings, the two gates, whether governance is        *)
(* enabled, the two rule maps and the overrides; None is no file at all.   *)

EitherGate(first, second) ==
  [minScore    |-> IF first.minScore # None THEN first.minScore ELSE second.minScore,
   maxWarnings |-> IF first.maxWarnings # None THEN first.maxWarnings
                   ELSE second.maxWarnings]

GovernanceOffButSvg(policy) ==   \* a bug: one rule forgotten
  [policy EXCEPT !.unref.on = FALSE, !.dup.on = FALSE, !.size.max = None,
                 !.dims.w = None, !.dims.h = None, !.formats.allowed = None,
                 !.gif.on = FALSE, !.naming.case = None]

GovernanceOffPolicy(policy) ==
  [policy EXCEPT !.unref.on = FALSE, !.dup.on = FALSE, !.size.max = None,
                 !.dims.w = None, !.dims.h = None, !.formats.allowed = None,
                 !.gif.on = FALSE, !.naming.case = None, !.svg.on = FALSE]

(* Every override starts from the finished base policy.                    *)
WithOverridesLeaking(policy, overrides) ==   \* a bug: the base policy is written to
  IF overrides = <<>> THEN policy ELSE ApplyRules(policy, Last(overrides).rules)

WithOverrides(policy, overrides) ==
  LET used == {i \in DOMAIN overrides : overrides[i].files # <<>>}
  IN  [policy EXCEPT !.overrides =
         [i \in used |-> [files  |-> overrides[i].files,
                          policy |-> ApplyRules(policy, overrides[i].rules)]]]

ParseConfig(raw) ==
  LET preset == Preset(raw.extends)
      base   == [preset EXCEPT
                   !.files   = [ignore |-> raw.ignore, docs |-> raw.docs],
                   !.tracing = raw.tracing,
                   !.ci      = EitherGate(IF raw.govCi = None THEN @ ELSE raw.govCi,
                                          raw.ci)]
      rules  == raw.govRules @@ raw.rules
      docs   == [base EXCEPT !.files.docs = @ \/ raw.scanDocs]
  IN  IF raw.enabled THEN WithOverrides(ApplyRules(docs, rules), raw.overrides)
      ELSE GovernanceOffPolicy(base)

(* load_from_workspace: a scan takes the defaults for a broken file, which *)
(* try_load_from_workspace refuses.                                        *)
Load(config) == IF config \in {None, Broken} THEN DefaultPolicy ELSE ParseConfig(config)

PolicyFor(policy, a) ==
  LET hits == {i \in DOMAIN policy.overrides : MatchesAny(a, policy.overrides[i].files)}
  IN  IF hits = {} THEN policy ELSE policy.overrides[Min(hits)].policy

-----------------------------------------------------------------------------
(* asset_matcher.rs: icons of platforms, named by manifests.               *)
IconFolders    == {<<"android", "app", "src", "main", "res">>, <<"resources", "icons">>,
                   <<"ios", "runner", "assets.xcassets">>, <<"meta-inf", "icons">>}
IconNames      == {"ic_launcher", "appicon", "pluginicon", "plugin_icon",
                   "apple-touch-icon", "favicon", "maskable_icon"}
IconSizes      == {"16x16", "32x32", "512x512", "@2x", "@3x"}
RootIconFolders == {"assets", "icons", "public", "res"}

IsAppIcon(a) ==
  \/ \E d \in Range(a.dir) : EndsWith(d, ".appiconset")
  \/ \E i \in DOMAIN a.dir : i > 1 /\ \E b \in {"mipmap-", "drawable-"} : StartsWith(a.dir[i], b)
  \/ \E i \in 2 .. Len(a.dir) - 1 : a.dir[i] = "res" /\ StartsWith(a.dir[i + 1], "mipmap")
  \/ \E i, j \in DOMAIN a.dir : SubSeq(a.dir, i, j) \in IconFolders
  \/ \E n \in IconNames : StartsWith(a.stem, n)
  \/ StartsWith(a.stem, "icon") /\ \E n \in IconSizes : Offsets(a.stem, n) # {}
  \/ /\ a.stem = "icon" /\ a.ext \in {"png", "svg", "ico", "icns"}
     /\ a.dir = <<>> \/ \E i \in DOMAIN a.dir : i > 1 /\ a.dir[i] \in RootIconFolders

-----------------------------------------------------------------------------
(* naming_convention.rs.                                                   *)
Lower  == {"a", "b", "c", "d", "e", "f", "g", "h", "i", "j", "k", "l", "m", "n", "o",
           "p", "q", "r", "s", "t", "u", "v", "w", "x", "y", "z"}
Upper  == {"A", "B", "C", "D", "E", "F", "G", "H", "I", "J", "K", "L", "M", "N", "O",
           "P", "Q", "R", "S", "T", "U", "V", "W", "X", "Y", "Z"}
Digits == {"0", "1", "2", "3", "4", "5", "6", "7", "8", "9"}
Chars(text) == {SubSeq(text, i, i) : i \in 1 .. Len(text)}

StripDensitySuffix(stem) ==
  LET at     == Offsets(stem, "@")
      suffix == SubSeq(stem, Max(at) + 2, Len(stem))
      scale  == SubSeq(suffix, 1, Len(suffix) - 1)
  IN  IF at # {} /\ EndsWith(suffix, "x") /\ scale # "" /\ Chars(scale) \subseteq Digits \cup {"."}
      THEN SubSeq(stem, 1, Max(at)) ELSE stem

Separated(stem, mark) ==
  /\ ~StartsWith(stem, mark) /\ ~EndsWith(stem, mark)
  /\ Offsets(stem, mark \o mark) = {}
  /\ Chars(stem) \subseteq Lower \cup Digits \cup {mark}

MatchesCase(stem, case) ==
  /\ stem # ""
  /\ CASE case = "kebab"  -> Separated(stem, "-")
       [] case = "snake"  -> Separated(stem, "_")
       [] case = "camel"  -> /\ SubSeq(stem, 1, 1) \in Lower
                             /\ Chars(stem) \subseteq Lower \cup Upper \cup Digits
       [] case = "pascal" -> /\ SubSeq(stem, 1, 1) \in Upper
                             /\ Chars(stem) \subseteq Lower \cup Upper \cup Digits
       [] case = "lower"  -> Chars(stem) \subseteq Lower \cup Digits \cup {"-", "_"}

-----------------------------------------------------------------------------
(* cluster.rs: copies of one content; the kept one is valid if any is, then*)
(* the one of the shortest path, then the first by name.                   *)
GroupsOf(assets) ==
  {g \in {{a \in assets : a.hash = h} : h \in {b.hash : b \in assets} \ {None}} :
     Cardinality(g) > 1}

CanonicalByName(group) ==   \* a bug: a damaged copy may be kept
  CHOOSE a \in group : \A b \in group : a.rank <= b.rank

Canonical(group) ==
  LET valid   == {a \in group : a.valid}
      best    == IF valid # {} THEN valid ELSE group
      nearest == {a \in best : \A b \in best : a.length <= b.length}
  IN  CHOOSE a \in nearest : \A b \in nearest : a.rank <= b.rank

-----------------------------------------------------------------------------
(* The rules.  Each flags some assets, under the policy of their folder.   *)
Spared(section, a) ==
  (section.icons /\ IsAppIcon(a)) \/ MatchesAny(a, section.ignore)

Unreferenced(policy, refs, a) ==
  LET p == PolicyFor(policy, a) IN
  /\ a.valid /\ p.unref.on /\ ~Spared(p.unref, a)
  /\ ~MatchesAny(a, p.tracing.dynamic)
  /\ \A r \in refs : r.asset # a.id

DuplicateContent(policy, groups, a) ==
  LET p == PolicyFor(policy, a) IN
  /\ \E g \in groups : a \in g /\ a # Canonical(g)
  /\ p.dup.on /\ ~Spared(p.dup, a)

TooLarge(policy, a) ==
  LET size == PolicyFor(policy, a).size IN size.max # None /\ a.kb > size.max

TooWide(policy, a) ==
  LET dims == PolicyFor(policy, a).dims IN
  /\ a.px # None
  /\ \/ dims.w # None /\ a.px[1] > dims.w
     \/ dims.h # None /\ a.px[2] > dims.h

Misnamed(policy, a) ==
  LET p    == PolicyFor(policy, a)
      stem == StripDensitySuffix(a.stem)
  IN  /\ p.naming.case # None
      /\ ~((p.unref.icons \/ p.dup.icons) /\ IsAppIcon(a))
      /\ \/ p.naming.pattern \notin {None, Unreadable} /\ stem \notin p.naming.pattern
         \/ ~MatchesCase(stem, p.naming.case)

(* Read from the file again, as it is by then.                             *)
UnsafeSvg(policy, disk, a) ==
  /\ PolicyFor(policy, a).svg.on
  /\ a.format \in {"svg", "animated-svg"}
  /\ disk[a.id] # None /\ disk[a.id].unsafe

Disallowed(policy, a) ==
  LET formats == PolicyFor(policy, a).formats IN
  formats.allowed # None /\ a.format \notin formats.allowed

LegacyGif(policy, a) == PolicyFor(policy, a).gif.on /\ a.format = "gif"

Flagged(rule, policy, disk, groups, refs, a) ==
  CASE rule = "unref"   -> Unreferenced(policy, refs, a)
    [] rule = "dup"     -> DuplicateContent(policy, groups, a)
    [] rule = "size"    -> TooLarge(policy, a)
    [] rule = "dims"    -> TooWide(policy, a)
    [] rule = "naming"  -> Misnamed(policy, a)
    [] rule = "svg"     -> UnsafeSvg(policy, disk, a)
    [] rule = "formats" -> Disallowed(policy, a)
    [] rule = "gif"     -> LegacyGif(policy, a)

RuleIds     == {"unref", "dup", "size", "dims", "naming", "svg", "formats", "gif"}
PolicyRules == RuleIds \ {"unref", "dup"}

Diagnostics(policy, disk, assets, groups, refs) ==
  {[rule |-> ra[1], asset |-> ra[2].id, sev |-> PolicyFor(policy, ra[2])[ra[1]].sev] :
     ra \in {x \in RuleIds \X assets : Flagged(x[1], policy, disk, groups, refs, x[2])}}

-----------------------------------------------------------------------------
(* engine.rs: the score in whole points, rounded half up.                  *)
Rounded(n, d) == (2 * n + d) \div (2 * d)
AtLeast0Not(n) == n   \* a bug: no floor
AtLeast0(n)   == IF n < 0 THEN 0 ELSE n

WithSeverity(diags, sev) == {d \in diags : d.sev = sev}

Grade(score) ==
  IF score >= 90 THEN "A" ELSE IF score >= 80 THEN "B" ELSE IF score >= 70 THEN "C"
  ELSE IF score >= 60 THEN "D" ELSE "F"

NoAssets == [score |-> 0, grade |-> "N/A", cats |-> <<>>]

Category(violations, total) ==
  [violations |-> violations, score |-> Rounded(100 * AtLeast0(total - violations), total)]

HealthScore(assets, diags) ==
  LET total   == Cardinality(assets)
      invalid == Cardinality({a \in assets : ~a.valid})
      penalty == 15 * Cardinality(WithSeverity(diags, "error"))
                   + 5 * Cardinality(WithSeverity(diags, "warning")) + 20 * invalid
      score   == Rounded(AtLeast0(100 * total - 10 * penalty), total)
      Of(ids) == Cardinality({d \in diags : d.rule \in ids})
  IN  IF total = 0 THEN NoAssets
      ELSE [score |-> score, grade |-> Grade(score),
            cats  |-> <<Category(Of({"unref"}), total), Category(Of({"dup"}), total),
                        Category(Of(PolicyRules) + invalid, total)>>]

(* aggregate_health_scores: pairs of a report and its number of assets; a  *)
(* report without categories counts in the score alone.                    *)
Total(numbers) ==
  LET upTo[i \in 0 .. Len(numbers)] == IF i = 0 THEN 0 ELSE upTo[i - 1] + numbers[i]
  IN  upTo[Len(numbers)]

WeightOfRoots(pair) == 1   \* a bug: divided by the number of roots
Weight(pair)   == pair.count

Aggregate(pairs) ==
  LET Points(grade, pair) == grade.score * pair.count
      graded == {i \in DOMAIN pairs : pairs[i].report.cats # <<>>}
      total  == Total([i \in DOMAIN pairs |-> Weight(pairs[i])])
      score  == Rounded(Total([i \in DOMAIN pairs |-> Points(pairs[i].report, pairs[i])]),
                        total)
      Merged(c) ==
        LET Cat(i) == pairs[i].report.cats[c]
            weight == Total([i \in DOMAIN pairs |->
                               IF i \in graded THEN Weight(pairs[i]) ELSE 0])
            points == Total([i \in DOMAIN pairs |->
                               IF i \in graded THEN Points(Cat(i), pairs[i]) ELSE 0])
        IN  [violations |-> Total([i \in DOMAIN pairs |->
                                     IF i \in graded THEN Cat(i).violations ELSE 0]),
             score |-> IF weight = 0 THEN 0 ELSE Rounded(points, weight)]
  IN  IF total = 0 THEN NoAssets
      ELSE [score |-> score, grade |-> Grade(score),
            cats  |-> IF graded = {} THEN <<>> ELSE [c \in 1 .. 3 |-> Merged(c)]]

-----------------------------------------------------------------------------
(* check.rs: the command line's gates override the configuration's.        *)
ExitCodeByLimit(args, ci, diags, score) ==   \* a bug: a limit given beats --strict
  LET maxWarn == IF args.maxWarnings # None THEN args.maxWarnings ELSE ci.maxWarnings
  IN  IF WithSeverity(diags, "error") # {} THEN 1
      ELSE IF maxWarn # None /\ Cardinality(WithSeverity(diags, "warning")) > maxWarn THEN 2
      ELSE 0

ExitCode(args, ci, diags, score) ==
  LET minScore == IF args.minScore # None THEN args.minScore ELSE ci.minScore
      maxWarn  == IF args.strict THEN 0
                  ELSE IF args.maxWarnings # None THEN args.maxWarnings ELSE ci.maxWarnings
  IN  IF WithSeverity(diags, "error") # {} \/ (minScore # None /\ score < minScore) THEN 1
      ELSE IF maxWarn # None /\ Cardinality(WithSeverity(diags, "warning")) > maxWarn THEN 2
      ELSE 0
=============================================================================
