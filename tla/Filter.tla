-------------------------------- MODULE Filter --------------------------------
(***************************************************************************)
(* Import-time filtering: what of a source's catalog is served (work/filter,*)
(* work/config/filterrules.go, sourcefilters.go), the compiled filters     *)
(* cached per URL, and the preview of a draft over one remembered catalog  *)
(* (work/proxy/importctl.go).                                              *)
(*                                                                         *)
(* A text is its word, the quality markers it carries, whether it has      *)
(* capitals and whether it has spare blanks.  A regular expression is the  *)
(* set of words it hits, whether it is written with capitals and whether   *)
(* it compiles: rules match whatever the case, the older patterns are      *)
(* matched as written against lowered text.                                *)
(***************************************************************************)
EXTENDS Integers, Sequences, FiniteSets, SequencesExt, FiniteSetsExt

CONSTANTS Accounts,      \* configured sources, all of one provider URL
          Catalog,       \* [Accounts -> Seq(stream)]: what the parsers return
          Drafts,        \* source filters an operator may save or preview
          ProfileDrafts, \* shared rule sets an operator may save or preview
          Stored,        \* what earlier sessions left: sources and profiles
          VodWords,      \* what the global VOD expression hits
          Sniff,         \* [words -> content type a group label hints at, or ""]
          None,          \* nothing
          MaxFltOps      \* bound on operations

VARIABLES fltSources, fltProfiles, fltCache, fltSave, fltStale, fltRun, fltSlot,
          fltPass,       \* history: the last pass, an import's or a preview's
          fltOps
fltVars == <<fltSources, fltProfiles, fltCache, fltSave, fltStale, fltRun, fltSlot,
             fltPass, fltOps>>

ContentTypes == <<"live", "vod", "series">>
NoPattern == [hits |-> {}, upper |-> FALSE, ok |-> TRUE, set |-> FALSE]

-----------------------------------------------------------------------------
(* Texts and patterns.                                                     *)

Lower(t) == [t EXCEPT !.upper = FALSE]
TrimSpace(t) == [t EXCEPT !.pad = FALSE]
Blank(t) == t.word = ""

\* GroupKey: two labels name one group when only case and blanks differ.
GroupKey(t) == <<t.word, t.marks>>

\* groupSubject and the lowered, trimmed subjects of the older patterns.
groupSubject(t) == TrimSpace(Lower(t))

\* regexp.MatchString of a pattern compiled as it is written.
MatchString(p, t) == t.word \in p.hits /\ (p.upper => t.upper)

\* CompileFilterPattern makes a rule's pattern blind to case.
MatchFolded(p, t) == t.word \in p.hits

\* compilePattern: an absent pattern and one that does not compile filter nothing.
compilePattern(p) == IF p.set /\ p.ok THEN p ELSE NoPattern

-----------------------------------------------------------------------------
(* Validation of operator input.                                           *)

Keeps(rule) == rule.pattern.set
RuleOK(rule) ==
  /\ rule.field \in {"", "group", "name", "url", "any"}
  /\ rule.action \in {"", "include", "exclude"}
  /\ rule.pattern.ok

\* NormalizeRules: defaults filled in, rules without a pattern left out.
NormalizeRules(rules) ==
  [i \in 1..Len(SelectSeq(rules, Keeps)) |->
     LET r == SelectSeq(rules, Keeps)[i] IN
     [r EXCEPT !.field = IF @ = "" THEN "group" ELSE @, !.action = IF @ = "" THEN "include" ELSE @]]
RulesOK(rules) == \A i \in DOMAIN rules : rules[i].pattern.set => RuleOK(rules[i])

\* normalizeDefault: keep is stored as nothing.
normalizeDefault(v) == IF v = "keep" THEN "" ELSE v
DefaultOK(v) == v \in {"", "keep", "drop"}

\* FilterProfile.Normalize.
NormalizeProfile(p) == [p EXCEPT !.def = normalizeDefault(@), !.rules = NormalizeRules(@)]
ProfileOK(p) == DefaultOK(p.def) /\ RulesOK(p.rules)

\* The entries of a sequence whose key did not occur before.
FirstOf(s, Key(_)) ==
  LET idx == {i \in DOMAIN s : \A j \in 1..(i - 1) : Key(s[j]) # Key(s[i])}
      ord == SetToSortSeq(idx, <)
  IN [i \in DOMAIN ord |-> s[ord[i]]]

\* dedupeGroups: one spelling per group, the operator's first.
dedupeGroups(list) == LET t == [i \in DOMAIN list |-> TrimSpace(list[i])] IN FirstOf(t, GroupKey)

\* Group overrides: a map's entries in the order of its keys.
OverrideKey(o) == GroupKey(o.group)
NamedGroup(o) == ~Blank(o.group) /\ o.type # ""
Overrides(entries) ==
  LET named == SelectSeq(entries, NamedGroup)
  IN FirstOf([i \in DOMAIN named |-> [named[i] EXCEPT !.group = TrimSpace(@)]], OverrideKey)
OverridesOK(entries) == \A i, j \in DOMAIN entries :
  NamedGroup(entries[i]) /\ NamedGroup(entries[j]) =>
    /\ entries[i].type \in ToSet(ContentTypes)
    /\ OverrideKey(entries[i]) = OverrideKey(entries[j]) => entries[i].type = entries[j].type

Identity(v) == v
ImportTypesOf(list) ==
  LET once == FirstOf(list, Identity) IN IF Len(once) = Len(ContentTypes) THEN <<>> ELSE once

Patterns(s) == {s.gre} \cup {s.cat[t] : t \in ToSet(ContentTypes)}
               \cup {s.inc[t] : t \in ToSet(ContentTypes)} \cup {s.exc[t] : t \in ToSet(ContentTypes)}

\* NormalizeFilters works in place and stops at the first value it refuses; src is the
\* source as it is left, ok whether it was accepted.  A default or a list of rules that is
\* refused has by then been replaced by an empty one.
NormalizeFilters(s) ==
  LET ruled == [s EXCEPT !.def = normalizeDefault(@), !.rules = NormalizeRules(@)]
      grouped == [ruled EXCEPT !.list = dedupeGroups(@)]
      typed == [grouped EXCEPT !.types = ImportTypesOf(@)]
      whole == [typed EXCEPT !.over = Overrides(@)]
  IN IF ~DefaultOK(s.def) THEN [ok |-> FALSE, src |-> [s EXCEPT !.def = ""]]
     ELSE IF ~RulesOK(s.rules) THEN [ok |-> FALSE, src |-> [ruled EXCEPT !.rules = <<>>]]
     ELSE IF s.mode \notin {"", "include", "exclude"} THEN [ok |-> FALSE, src |-> ruled]
     ELSE IF s.mode = "include" /\ s.list = <<>> /\ ~s.gre.set THEN [ok |-> FALSE, src |-> grouped]
     ELSE IF ~(ToSet(s.types) \subseteq ToSet(ContentTypes)) THEN [ok |-> FALSE, src |-> grouped]
     ELSE IF ~OverridesOK(s.over) THEN [ok |-> FALSE, src |-> typed]
     ELSE [ok |-> /\ \A i \in DOMAIN s.tiers : s.tiers[i].ok
                  /\ \A p \in Patterns(s) : p.set => p.ok,
           src |-> whole]

\* FiltersEqual.
FiltersEqual(a, b) == a = b

\* HasContentFilters.
HasContentFilters(s) ==
  \/ s.prof # "" \/ s.rules # <<>> \/ s.def = "drop" \/ s.dedupe \/ s.mode # "" \/ s.types # <<>>
  \/ s.over # <<>> \/ \E p \in Patterns(s) : p.set

-----------------------------------------------------------------------------
(* The rules in force and their compiled form.                             *)

\* EffectiveRules and EffectiveDefault: the profile's rules, then the source's own.
EffectiveRules(s, profs) ==
  (IF s.prof \in DOMAIN profs
   THEN [i \in DOMAIN profs[s.prof].rules |-> [rule |-> profs[s.prof].rules[i], origin |-> s.prof]]
   ELSE <<>>)
  \o [i \in DOMAIN s.rules |-> [rule |-> s.rules[i], origin |-> "source"]]

EffectiveDefault(s, profs) ==
  CASE s.def # "" -> s.def
    [] s.def = "" /\ s.prof \in DOMAIN profs /\ profs[s.prof].def # "" -> profs[s.prof].def
    [] OTHER -> "keep"

\* Mutant: the profile is part of what the cached filter is recognised by, its rules not.
ownSignature(s, profs) == [rules |-> s.rules, def |-> s.def, src |-> s]

\* filterSignature: everything a compiled filter is made from.
filterSignature(s, profs) ==
  [rules |-> EffectiveRules(s, profs), def |-> EffectiveDefault(s, profs),
   src |-> [s EXCEPT !.prof = "", !.rules = <<>>, !.def = ""]]

\* compileRules: a rule whose pattern does not compile is left out.
compileRules(rules) == LET compiles(r) == r.rule.pattern.ok IN SelectSeq(rules, compiles)

TierOK(t) == t.ok
DefaultQualityTiers ==
  <<[ok |-> TRUE, marks |-> {"4K", "UHD"}], [ok |-> TRUE, marks |-> {"FHD"}],
    [ok |-> TRUE, marks |-> {"HD", "720p"}], [ok |-> TRUE, marks |-> {"SD"}]>>

Compile(s, profs) ==
  LET types == ToSet(ContentTypes) IN
  [sig |-> filterSignature(s, profs),
   rules |-> compileRules(EffectiveRules(s, profs)),
   def |-> EffectiveDefault(s, profs),
   mode |-> s.mode,
   set |-> {GroupKey(s.list[i]) : i \in DOMAIN s.list},
   gre |-> compilePattern(s.gre),
   types |-> IF s.types = <<>> THEN types ELSE ToSet(s.types),
   forced |-> [k \in {GroupKey(s.over[i].group) : i \in DOMAIN s.over} |->
                 s.over[Max({i \in DOMAIN s.over : GroupKey(s.over[i].group) = k})].type],
   tiers |-> IF ~s.dedupe THEN <<>>
             ELSE SelectSeq(IF s.tiers = <<>> THEN DefaultQualityTiers ELSE s.tiers, TierOK),
   cat |-> [t \in types |-> compilePattern(s.cat[t])],
   inc |-> [t \in types |-> compilePattern(s.inc[t])],
   exc |-> [t \in types |-> compilePattern(s.exc[t])]]

\* GetOrCreateFilter: the cached filter while its signature is that of the rules in force.
GetOrCreateFilter(cache, s, profs) ==
  IF cache # <<>> /\ cache[1].sig = filterSignature(s, profs) THEN cache[1] ELSE Compile(s, profs)

-----------------------------------------------------------------------------
(* One stream through the stages.                                          *)

\* GroupOf: group-title before tvg-group.
GroupOf(st) == IF ~Blank(st.title) THEN TrimSpace(st.title) ELSE TrimSpace(st.tvg)

\* matchSubjects: the texts the older patterns are tested against.
matchSubjects(st) == {groupSubject(t) : t \in {u \in {st.name, st.title, st.tvg, st.url} : ~Blank(u)}}
matchesAny(p, subjects) == \E t \in subjects : MatchString(p, t)

\* ContentTypeOfStream: the stamp, the global VOD expression, then the group labels.
ContentTypeOfStream(st) ==
  LET hints == SelectSeq(<<Sniff[st.title.word], Sniff[st.tvg.word]>>, LAMBDA h : h # "")
  IN CASE st.type \in ToSet(ContentTypes) -> st.type
       [] st.type \notin ToSet(ContentTypes) /\ (st.name.word \in VodWords \/ st.url.word \in VodWords) -> "vod"
       [] OTHER -> IF hints = <<>> THEN "live" ELSE Head(hints)

\* resolveContentType: the operator's verdict for the group, then the category patterns,
\* series first and live last.
resolveContentType(st, f) ==
  LET hit(t) == matchesAny(f.cat[t], matchSubjects(st))
      k == GroupKey(GroupOf(st))
  IN IF k \in DOMAIN f.forced THEN f.forced[k]
     ELSE IF hit("series") THEN "series" ELSE IF hit("vod") THEN "vod"
     ELSE IF hit("live") THEN "live" ELSE ContentTypeOfStream(st)

\* ruleSubjects and matchesRule.
ruleSubjects(st, field) ==
  CASE field = "group" -> {GroupOf(st)} [] field = "name" -> {st.name} [] field = "url" -> {st.url}
    [] OTHER -> {GroupOf(st), st.name, st.url}
matchesRule(r, st) == \E t \in ruleSubjects(st, r.rule.field) : ~Blank(t) /\ MatchFolded(r.rule.pattern, t)

\* ruleVerdict: the first rule that matches decides; 0 when none does.
ruleVerdict(rules, st) ==
  LET hits == {i \in DOMAIN rules : matchesRule(rules[i], st)} IN IF hits = {} THEN 0 ELSE Min(hits)

\* passesGroupFilter, importsType and shouldIncludeStream.
passesGroupFilter(f, st) ==
  LET g == GroupOf(st)
      matched == GroupKey(g) \in f.set \/ MatchString(f.gre, groupSubject(g))
  IN CASE f.mode = "" -> TRUE [] f.mode = "exclude" -> ~matched [] OTHER -> matched
importsType(f, t) == t \in f.types
shouldIncludeStream(f, st, t) ==
  /\ f.inc[t].set => matchesAny(f.inc[t], matchSubjects(st))
  /\ ~matchesAny(f.exc[t], matchSubjects(st))

\* observeRules and the stages after the rules, which only narrow.
Outcome(f, st) ==
  LET t == resolveContentType(st, f)
      typed == [st EXCEPT !.type = t]
      by == ruleVerdict(f.rules, typed)
      keep == IF by = 0 THEN f.def # "drop" ELSE f.rules[by].rule.action = "include"
      stage == CASE keep /\ ~passesGroupFilter(f, typed) -> "group"
                 [] keep /\ passesGroupFilter(f, typed) /\ ~importsType(f, t) -> "type"
                 [] keep /\ passesGroupFilter(f, typed) /\ importsType(f, t)
                      /\ ~shouldIncludeStream(f, typed, t) -> "pattern"
                 [] OTHER -> IF by = 0 THEN "default" ELSE "rule"
  IN [stream |-> typed, rule |-> by, stage |-> stage, keep |-> keep /\ stage \in {"default", "rule"}]

\* qualityRank: the first tier whose marker the name carries, and the name without that
\* marker; rank 0 for a name that carries none.
qualityRank(tiers, name) ==
  LET carried(i) == {k \in DOMAIN name.marks : name.marks[k] \in tiers[i].marks}
      ranks == {i \in DOMAIN tiers : carried(i) # {}}
  IN IF ranks = {} THEN [rank |-> 0, base |-> <<name.word, name.marks>>]
     ELSE [rank |-> Min(ranks), base |-> <<name.word, RemoveAt(name.marks, Min(carried(Min(ranks))))>>]

\* Mutant: a variant an earlier stage dropped still outranks.
dedupeAgainstAll(outs, tiers) ==
  LET r(i) == qualityRank(tiers, outs[i].stream.name)
      key(i) == <<outs[i].stream.type, r(i).base>>
      beaten(i) == outs[i].keep /\ r(i).rank > 0 /\
                   \E j \in DOMAIN outs : r(j).rank > 0 /\ key(j) = key(i) /\ r(j).rank < r(i).rank
  IN [i \in DOMAIN outs |-> IF beaten(i) THEN [outs[i] EXCEPT !.keep = FALSE, !.stage = "quality"] ELSE outs[i]]

\* applyQualityDedupe: of the streams still kept, the best rank per type and base stays.
applyQualityDedupe(outs, tiers) ==
  LET r(i) == qualityRank(tiers, outs[i].stream.name)
      marked == {i \in DOMAIN outs : outs[i].keep /\ r(i).rank > 0}
      key(i) == <<outs[i].stream.type, r(i).base>>
      best(i) == Min({r(j).rank : j \in {k \in marked : key(k) = key(i)}})
  IN [i \in DOMAIN outs |->
        IF i \in marked /\ r(i).rank > best(i)
        THEN [outs[i] EXCEPT !.keep = FALSE, !.stage = "quality"] ELSE outs[i]]

\* Apply: every stream's outcome, in catalog order.
Apply(streams, s, f) ==
  IF ~HasContentFilters(s)
  THEN [i \in DOMAIN streams |->
          [stream |-> [streams[i] EXCEPT !.type = ContentTypeOfStream(streams[i])],
           rule |-> 0, stage |-> "default", keep |-> TRUE]]
  ELSE applyQualityDedupe(<<>> \o [i \in DOMAIN streams |-> Outcome(f, streams[i])], f.tiers) \o <<>>

-----------------------------------------------------------------------------
(* The report of a pass.                                                   *)

Count(outs, Test(_)) == Cardinality({i \in DOMAIN outs : Test(outs[i])})

\* observe and finish: totals per group, the group's dominant type with ties to live,
\* then vod; a rule's matches are counted only when the walk goes past the decision.
DominantType(outs, key) ==
  LET n(t) == Count(outs, LAMBDA o : GroupKey(GroupOf(o.stream)) = key /\ o.stream.type = t)
      most == Max({n(t) : t \in ToSet(ContentTypes)})
  IN ContentTypes[Min({i \in DOMAIN ContentTypes : n(ContentTypes[i]) = most})]

GroupStats(outs) ==
  LET keys == {GroupKey(GroupOf(outs[i].stream)) : i \in DOMAIN outs}
  IN [k \in keys |->
        [total |-> Cardinality({i \in DOMAIN outs : GroupKey(GroupOf(outs[i].stream)) = k}),
         kept |-> Cardinality({i \in DOMAIN outs : outs[i].keep /\ GroupKey(GroupOf(outs[i].stream)) = k}),
         type |-> DominantType(outs, k)]]

\* Mutant: what the default dropped is not counted.
ReportKeptOnly(outs, s, f, withStats) ==
  LET rules == IF HasContentFilters(s) THEN f.rules ELSE <<>>
      decided(i) == Count(outs, LAMBDA o : o.rule = i)
  IN [total |-> Len(outs), kept |-> Count(outs, LAMBDA o : o.keep),
      groups |-> GroupStats(outs),
      rules |-> [i \in DOMAIN rules |-> [decided |-> decided(i), matched |-> decided(i)]],
      byDefault |-> IF rules = <<>> THEN 0 ELSE Count(outs, LAMBDA o : o.rule = 0 /\ o.keep),
      quality |-> Count(outs, LAMBDA o : o.stage = "quality")]

\* newReport, startRules, observeRules: what each rule and the default decided.
Report(outs, s, f, withStats) ==
  LET rules == IF HasContentFilters(s) THEN f.rules ELSE <<>>
      decided(i) == Count(outs, LAMBDA o : o.rule = i)
  IN [total |-> Len(outs), kept |-> Count(outs, LAMBDA o : o.keep),
      groups |-> GroupStats(outs),
      rules |-> [i \in DOMAIN rules |->
                   [decided |-> decided(i),
                    matched |-> IF withStats THEN Count(outs, LAMBDA o : matchesRule(rules[i], o.stream))
                                ELSE decided(i)]],
      byDefault |-> IF rules = <<>> THEN 0 ELSE Count(outs, LAMBDA o : o.rule = 0),
      quality |-> Count(outs, LAMBDA o : o.stage = "quality")]

\* Mutant: the last, incomplete page is not reachable.
pageFloored(outs, want, page, size) ==
  LET asked(o) == want = "all" \/ (want = "dropped") = ~o.keep
      hits == SelectSeq(outs, asked)
      last == Len(hits) \div size
      p == IF last > 0 /\ page > last THEN last ELSE Max({page, 1})
      end == Min({p * size, Len(hits)})
  IN [page |-> p, items |-> SubSeq(hits, (p - 1) * size + 1, end)]

\* pagePreviewVerdicts: the requested page of the outcomes asked for, clamped to the last.
pagePreviewVerdicts(outs, want, page, size) ==
  LET asked(o) == want = "all" \/ (want = "dropped") = ~o.keep
      hits == SelectSeq(outs, asked)
      last == (Len(hits) + size - 1) \div size
      p == IF last > 0 /\ page > last THEN last ELSE Max({page, 1})
      end == Min({p * size, Len(hits)})
  IN [page |-> p, items |-> SubSeq(hits, (p - 1) * size + 1, end)]

-----------------------------------------------------------------------------
(* The live catalog, the filter cache and the preview slot.                *)

EmptySlot == [key |-> None, fresh |-> TRUE, streams |-> <<>>, stamps |-> <<>>]
Stamps(streams) == [i \in DOMAIN streams |-> streams[i].type]

FilterInit ==
  /\ \E c \in Stored : fltSources = c.sources /\ fltProfiles = c.profiles
  /\ fltCache = <<>> /\ fltSave = None /\ fltStale = FALSE
  /\ fltRun = None
  /\ fltSlot = EmptySlot /\ fltPass = None /\ fltOps = 0

Operation == fltOps < MaxFltOps /\ fltOps' = fltOps + 1

\* handleSetConfig up to the write: filters that are refused and differ from the stored
\* ones stop it; the compiled filters are dropped before the tables are written.
Accepted(a, d) ==
  LET n == NormalizeFilters(d) IN n.ok \/ FiltersEqual(n.src, fltSources[a])

SaveSource(a, d) ==
  /\ Operation /\ fltSave = None
  /\ Accepted(a, d) /\ (d.prof # "" => d.prof \in DOMAIN fltProfiles)
  /\ fltSave' = [acc |-> a, src |-> NormalizeFilters(d).src]
  /\ fltCache' = <<>>
  /\ UNCHANGED <<fltSources, fltProfiles, fltStale, fltRun, fltSlot, fltPass>>

\* sp.Config is replaced.
SourceSaved ==
  /\ fltSave # None
  /\ fltSources' = [fltSources EXCEPT ![fltSave.acc] = fltSave.src]
  /\ fltSave' = None
  /\ UNCHANGED <<fltProfiles, fltCache, fltStale, fltRun, fltSlot, fltPass, fltOps>>

\* A profile is stored; reloadConfig replaces sp.Config and then drops the filters.
SaveProfile(n, p) ==
  /\ Operation /\ ~fltStale /\ ProfileOK(p)
  /\ fltProfiles' = [m \in DOMAIN fltProfiles \cup {n} |-> IF m = n THEN NormalizeProfile(p) ELSE fltProfiles[m]]
  /\ fltStale' = TRUE
  /\ UNCHANGED <<fltSources, fltCache, fltSave, fltRun, fltSlot, fltPass>>

ClearFilters ==
  /\ fltStale
  /\ fltCache' = <<>> /\ fltStale' = FALSE
  /\ UNCHANGED <<fltSources, fltProfiles, fltSave, fltRun, fltSlot, fltPass, fltOps>>

\* An import goroutine keeps the source it was started with while its catalog is fetched.
ImportBegins(a) ==
  /\ Operation /\ fltRun = None
  /\ fltRun' = [acc |-> a, src |-> fltSources[a]]
  /\ UNCHANGED <<fltSources, fltProfiles, fltCache, fltSave, fltStale, fltSlot, fltPass>>

\* Mutant: the preview's catalog is kept with the stamps the last preview left.
takeUnrestored(slot, key) ==
  IF slot.key = key /\ slot.fresh THEN slot.streams ELSE <<>>

\* Mutant: a stale catalog is not released, its stamps are.
releaseStamps(slot) == [slot EXCEPT !.stamps = <<>>]

\* releasePreviewCatalog and drop: the slot lets go of its catalog.
releasePreviewCatalog(slot) == [slot EXCEPT !.streams = <<>>, !.stamps = <<>>]

\* previewSlot.take: the remembered catalog with its parser stamps, or nothing.
take(slot, key) ==
  IF slot.key = key /\ slot.fresh
  THEN <<>> \o [i \in DOMAIN slot.streams |-> [slot.streams[i] EXCEPT !.type = slot.stamps[i]]]
  ELSE <<>>

\* Apply with the shared filter manager, recordSourceImport, and the committed run's
\* releasePreviewCatalog; the profiles are those of the moment.
ImportApplies ==
  /\ fltRun # None
  /\ LET s == fltRun.src
         f == GetOrCreateFilter(fltCache, s, fltProfiles)
         outs == Apply(Catalog[fltRun.acc], s, f)
     IN /\ fltCache' = IF HasContentFilters(s) THEN <<f>> ELSE fltCache
        /\ fltPass' = [by |-> "import", acc |-> fltRun.acc, src |-> s, profs |-> fltProfiles, outs |-> outs,
                       report |-> Report(outs, s, f, FALSE)]
  /\ fltSlot' = releasePreviewCatalog(fltSlot)
  /\ fltRun' = None
  /\ UNCHANGED <<fltSources, fltProfiles, fltSave, fltStale, fltOps>>

\* The profiles a preview resolves against: a draft stands in for the stored one.
DraftedProfiles(p) ==
  IF p = None THEN fltProfiles
  ELSE [m \in DOMAIN fltProfiles \cup {p.name} |-> IF m = p.name THEN NormalizeProfile(p) ELSE fltProfiles[m]]

\* handlePreviewSource and PreviewSource, serialized by the slot: the draft is validated
\* (a profile draft comes with a source that names it),
\* the catalog taken from the slot or fetched, and filtered by a manager of its own.
PreviewSource(a, d, p, force) ==
  /\ Operation
  /\ force => fltSlot.key = a    \* otherwise force makes no difference
  /\ (p # None => d.prof = p.name /\ ProfileOK(p)) /\ NormalizeFilters(d).ok
  /\ LET s == NormalizeFilters(d).src
         profs == DraftedProfiles(p)
         kept == IF force THEN <<>> ELSE take(fltSlot, a)
         streams == IF kept = <<>> THEN Catalog[a] ELSE kept
         f == Compile(s, profs)
         outs == Apply(streams, s, f)
     IN /\ fltPass' = [by |-> "preview", acc |-> a, src |-> s, profs |-> profs, outs |-> outs,
                       report |-> Report(outs, s, f, TRUE)]
        /\ fltSlot' = [key |-> a, fresh |-> TRUE, stamps |-> IF kept = <<>> THEN Stamps(streams) ELSE fltSlot.stamps,
                       streams |-> [i \in DOMAIN outs |-> outs[i].stream]]
  /\ UNCHANGED <<fltSources, fltProfiles, fltCache, fltSave, fltStale, fltRun>>

\* A forced fetch times out or returns nothing: the slot has already let go of its catalog.
PreviewFails(d) ==
  /\ Operation
  /\ NormalizeFilters(d).ok
  /\ fltSlot' = releasePreviewCatalog(fltSlot)
  /\ UNCHANGED <<fltSources, fltProfiles, fltCache, fltSave, fltStale, fltRun, fltPass>>

\* PreviewCacheTTL passes.
SlotExpires ==
  /\ fltSlot.fresh /\ fltSlot.streams # <<>>
  /\ fltSlot' = [fltSlot EXCEPT !.fresh = FALSE]
  /\ UNCHANGED <<fltSources, fltProfiles, fltCache, fltSave, fltStale, fltRun, fltPass, fltOps>>

FilterNext ==
  \/ \E a \in Accounts, d \in Drafts : SaveSource(a, d)
  \/ SourceSaved
  \/ \E p \in ProfileDrafts : SaveProfile(p.name, p)
  \/ ClearFilters
  \/ \E a \in Accounts : ImportBegins(a)
  \/ ImportApplies
  \/ \E a \in Accounts, d \in Drafts, p \in ProfileDrafts \cup {None}, f \in BOOLEAN : PreviewSource(a, d, p, f)
  \/ \E d \in Drafts : PreviewFails(d)
  \/ SlotExpires

-----------------------------------------------------------------------------
(* Properties.                                                             *)

\* What a source's settings select from a catalog, without the compiled form, its cache
\* or the order of the stages.
Selected(s, profs, streams) ==
  LET R == EffectiveRules(s, profs)
      type(i) == resolveContentType(streams[i], Compile(s, profs))
      hits(k, i) == R[k].rule.pattern.ok /\ matchesRule(R[k], streams[i])
      ruled(i) == \/ \E k \in DOMAIN R : hits(k, i) /\ R[k].rule.action = "include" /\ \A j \in 1..(k - 1) : ~hits(j, i)
                  \/ EffectiveDefault(s, profs) = "keep" /\ \A k \in DOMAIN R : ~hits(k, i)
      listed(i) == \/ \E k \in DOMAIN s.list : GroupKey(s.list[k]) = GroupKey(GroupOf(streams[i]))
                   \/ s.gre.set /\ s.gre.ok /\ MatchString(s.gre, groupSubject(GroupOf(streams[i])))
      says(p, i) == p.set /\ p.ok /\ matchesAny(p, matchSubjects(streams[i]))
      before == {i \in DOMAIN streams :
        /\ ruled(i)
        /\ (s.mode = "include" => listed(i)) /\ (s.mode = "exclude" => ~listed(i))
        /\ s.types = <<>> \/ type(i) \in ToSet(s.types)
        /\ ~(s.inc[type(i)].set /\ s.inc[type(i)].ok) \/ says(s.inc[type(i)], i)
        /\ ~says(s.exc[type(i)], i)}
      tiers == IF s.tiers = <<>> THEN DefaultQualityTiers ELSE SelectSeq(s.tiers, TierOK)
      q(i) == qualityRank(tiers, streams[i].name)
      outranked(i) == \E j \in before : /\ type(j) = type(i) /\ q(j).base = q(i).base
                                         /\ 0 < q(j).rank /\ q(j).rank < q(i).rank
  IN {i \in before : s.dedupe => ~outranked(i)}

KeptOf(outs) == {i \in DOMAIN outs : outs[i].keep}

\* The state of the filter engine is well formed: the slot has one stamp per stream, the
\* cached filter is one that was compiled from some source and profiles.
FilterTypeOK ==
  /\ Len(fltSlot.stamps) = Len(fltSlot.streams)
  /\ Len(fltCache) <= 1
  /\ fltSlot.streams # <<>> => fltSlot.key \in Accounts
  /\ fltRun # None => fltRun.acc \in Accounts

\* An import serves exactly what the rules in force select, whatever filter was cached for
\* the URL by an earlier import, another account of the provider or an import that still
\* held the previous settings (filter.go:141-166: the signature recognises a stale filter).
ServedIsSelected ==
  fltPass # None /\ fltPass.by = "import" =>
    KeptOf(fltPass.outs) = Selected(fltPass.src, fltPass.profs, Catalog[fltPass.acc])

\* A preview shows what an import with the draft would serve, however many previews with
\* other drafts went over the same remembered catalog before (importctl.go:79-98).
PreviewIsImport ==
  fltPass # None /\ fltPass.by = "preview" =>
    fltPass.outs = Apply(Catalog[fltPass.acc], fltPass.src, Compile(fltPass.src, fltPass.profs))

\* The quality stage never removes a channel: what it drops has a better variant of the
\* same type that is kept (filter.go:457-461: "HD only goes when FHD is actually there").
QualityLeavesBest ==
  LET r == fltPass IN
  r # None => \A i \in DOMAIN r.outs : r.outs[i].stage = "quality" =>
    LET tiers == IF r.src.tiers = <<>> THEN DefaultQualityTiers ELSE SelectSeq(r.src.tiers, TierOK)
        q(k) == qualityRank(tiers, r.outs[k].stream.name)
    IN \E j \in KeptOf(r.outs) : /\ r.outs[j].stream.type = r.outs[i].stream.type
                                  /\ q(j).base = q(i).base /\ 0 < q(j).rank /\ q(j).rank < q(i).rank

\* The report accounts for every stream once: by its rule or the default, and in its
\* group; a later rule's matches include what it decided.
SumOver(S, F(_)) == FoldSet(LAMBDA x, n : n + F(x), 0, S)
ReportAddsUp ==
  fltPass # None =>
    LET p == fltPass.report IN
    /\ p.rules # <<>> => p.byDefault + SumOver(DOMAIN p.rules, LAMBDA i : p.rules[i].decided) = p.total
    /\ SumOver(DOMAIN p.groups, LAMBDA g : p.groups[g].total) = p.total
    /\ SumOver(DOMAIN p.groups, LAMBDA g : p.groups[g].kept) = p.kept
    /\ \A i \in DOMAIN p.rules : p.rules[i].matched >= p.rules[i].decided

\* The pages of a preview list every stream asked for once and in order, for every page
\* size, and a page past the end is the last one (admin/previewlist.go:42-44).
PagesTile ==
  fltPass # None => \A want \in {"kept", "dropped", "all"}, size \in 1..3 :
    LET outs == fltPass.outs
        all == SelectSeq(outs, LAMBDA o : want = "all" \/ (want = "dropped") = ~o.keep)
        last == Cardinality({n \in 1..Len(all) : n % size = 1 % size})
    IN /\ FlattenSeq([n \in 1..last |-> pagePreviewVerdicts(outs, want, n, size).items]) = all
       /\ last > 0 => pagePreviewVerdicts(outs, want, last + 1, size).page = last

\* A source whose filters are those already stored can always be saved again
\* (admin/config.go:185-187: "byte-identical to the stored ones is let through").
StoredIsAccepted == \A a \in Accounts : Accepted(a, fltSources[a])

\* A rule the import could not honour is refused, unless the source carries it already
\* (config/sourcefilters.go:215-217: "a bad pattern is rejected with a message naming the
\* field rather than silently disabled at import time").
BadRulesAreRefused ==
  [][\A a \in Accounts, d \in Drafts : SaveSource(a, d) => RulesOK(d.rules) \/ d = fltSources[a]]_fltVars

\* A source that asks for keep is filtered by keep, whatever its profile says
\* (filterrules.go:215-217: "the source's own choice when it made one").
SourceDefaultWins ==
  [][\A a \in Accounts, d \in Drafts : SaveSource(a, d) /\ d.def = "keep" =>
       EffectiveDefault(fltSave'.src, fltProfiles) = "keep"]_fltVars

\* The channels served are those the stored rules select: no compiled filter of other
\* settings is used, and dropping lower qualities leaves the best of each channel.
SelectionIsStored == FilterTypeOK /\ ServedIsSelected /\ QualityLeavesBest

\* A preview shows what an import would do, its counts add up and its pages list it
\* all (admin/importpreview.go, report.go, previewlist.go).
PreviewIsFaithful == PreviewIsImport /\ ReportAddsUp /\ PagesTile
=============================================================================
