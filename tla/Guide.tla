--------------------------------- MODULE Guide ---------------------------------
(***************************************************************************)
(* The programme guide: refreshes that merge the XMLTV sources and the     *)
(* Schedules Direct accounts into one file on disk and into the in-memory  *)
(* indexes (work/proxy/epg.go, work/epgindex, work/cache), the mapping of  *)
(* proxy channels to guide ids, and what clients are served.               *)
(*                                                                         *)
(* Refreshes run concurrently: the warm-up at start, background ones and   *)
(* those of clients that find no fresh file.  A source is merged in one    *)
(* step (GuideFetch has its details): fragments of different sources only  *)
(* change the order of the file, and the index is sorted.                  *)
(***************************************************************************)
EXTENDS Integers, Sequences, FiniteSets, SequencesExt, FiniteSetsExt

CONSTANTS
  GuideUrls,     \* XMLTV sources
  GuideSDs,      \* Schedules Direct accounts
  Feeds,         \* [GuideUrls \cup GuideSDs -> Seq(fragment)]
  GuideChannels, \* names of proxy channels
  ExportId,      \* [GuideChannels -> id]: SanitizeChannelName
  GuideIds,      \* ids in the sources
  EPGLists,      \* the source lists an operator may store, sequences of GuideUrls
  SDLists,       \* the sets of accounts an operator may enable
  Mappings0,     \* what earlier sessions mapped
  EPGClients,    \* clients that ask for the guide
  MaxGuideOps, MaxRefreshes, MaxGuideFaults,   \* bounds; a restart counts as a fault
  NoGuide

DummyChannelID == "dummy"
BlankRow == "blank row"    \* config.EPGConfig{}: an empty URL
Unmapped == ""
Refreshers == {"boot", "background"} \cup EPGClients
RawIds == GuideIds \cup {DummyChannelID}
AllIds == RawIds \cup {ExportId[c] : c \in GuideChannels}
Fragments == [kind : {"channel", "programme"}, id : RawIds, start : Int, stop : Int]
Fragment(kind, id, start, stop) == [kind |-> kind, id |-> id, start |-> start, stop |-> stop]

\* Nothing keeps an export id from being some source's id as well.
ASSUME GuideAssumption ==
  /\ Feeds \in [GuideUrls \cup GuideSDs -> Seq(Fragments)]
  /\ Mappings0 \subseteq [GuideChannels -> RawIds \cup {Unmapped}] /\ Unmapped \notin AllIds
  /\ EPGLists \subseteq Seq(GuideUrls) /\ SDLists \subseteq SUBSET GuideSDs
  /\ BlankRow \notin GuideUrls /\ "boot" \notin EPGClients /\ "background" \notin EPGClients
  /\ IsFiniteSet(EPGClients)
  /\ MaxGuideOps \in Nat /\ MaxRefreshes \in Nat /\ MaxGuideFaults \in Nat

VARIABLES
  epgTable,    \* kp_epgs and the enabled accounts, as stored
  epgConf,     \* sp.Config.EPGs and the enabled sp.Config.SDAccounts
  epgReload,   \* rows the handlers still have to copy after they have made new lists
  channelEPG,  \* kp_channel_epg: [GuideChannels -> id or Unmapped]
  guideFile,   \* merged.xml
  chanIndex,   \* epgindex.index: the ids it offers
  progIndex,   \* epgindex.progIndex: [AllIds -> Seq(programme)]
  job,         \* [Refreshers -> refresh record]
  temps,       \* temporary files: [store, spill]
  tempsLeft,   \* history: those of processes that died
  mixed,       \* history: the last publications overlapped, broke off or died
  guideBounds

guideVars == <<epgTable, epgConf, epgReload, channelEPG, guideFile, chanIndex, progIndex, job,
               temps, tempsLeft, mixed, guideBounds>>
tables == <<epgTable, epgConf, epgReload, channelEPG>>
published == <<guideFile, chanIndex, progIndex, mixed>>

NoProgrammes == [id \in AllIds |-> <<>>]
NoCopies == [id \in AllIds |-> {}]
NoReload == [at |-> 0, sds |-> {}]
NoRefresh == [pc |-> "idle", no |-> 0, rev |-> NoCopies, todo |-> {}, channels |-> {}, progs |-> {},
              built |-> NoProgrammes, got |-> {}, broken |-> FALSE, answer |-> ""]

-----------------------------------------------------------------------------
(* The mapping and its uses.                                               *)

\* loadExportIDMap: guide id -> the export ids of the channels mapped to it.
loadExportIDMap(mapping) ==
  [id \in AllIds |-> {ExportId[c] : c \in {d \in GuideChannels : mapping[d] = id}}]

\* EPGIDForChannel: what playlists and the XC API advertise for a channel.
EPGIDForChannel(c, mapping) == IF mapping[c] = Unmapped THEN DummyChannelID ELSE mapping[c]

Renamed(prog, id) == [prog EXCEPT !.id = id]
DummyEntry == Fragment("programme", DummyChannelID, 0, 24)

\* The ids under which a programme can be looked up: those of the channels mapped to it,
\* and its own when there is such a channel.
lookedUp(rev, id) == rev[id] \cup (IF id = DummyChannelID \/ rev[id] # {} THEN {id} ELSE {})
indexedUnder(j, prog) ==
  [j EXCEPT !.built = [id \in AllIds |-> IF id \in lookedUp(j.rev, prog.id) THEN Append(@[id], Renamed(prog, id)) ELSE @[id]]]

\* progSink: the programme itself, always, and a copy for every channel mapped to its id.
progSinkMapped(j, prog) ==
  [indexedUnder(j, prog) EXCEPT !.progs = @ \cup {Renamed(prog, x) : x \in lookedUp(j.rev, prog.id)}]
progSink(j, prog) ==
  [indexedUnder(j, prog) EXCEPT !.progs = @ \cup {Renamed(prog, x) : x \in j.rev[prog.id] \cup {prog.id}}]

\* What a source delivered goes into the merge, one after the other.
chanSink(j, chan) == [j EXCEPT !.channels = @ \cup {chan.id}]
taken(j, frag) ==
  [(IF frag.kind = "channel" THEN chanSink(j, frag) ELSE progSink(j, frag)) EXCEPT !.got = @ \cup {frag}]
merge(j, frags) ==
  LET upTo[n \in 0..Len(frags)] == IF n = 0 THEN j ELSE taken(upTo[n - 1], frags[n])
  IN upTo[Len(frags)]

\* expandMappedChannels: every source entry, and one more per channel mapped to it.
expandMappedChannels(ids, rev) == ids \cup UNION {rev[id] : id \in ids}

\* Commit keeps each channel's programmes in start order.  sort.Slice leaves the order of
\* those that start together open; here it is that of their arrival.
arrivalOrder(ps) == ps
startsBefore(ps, i, j) == ps[i].start < ps[j].start \/ (ps[i].start = ps[j].start /\ i < j)
nth(ps, n) == CHOOSE i \in DOMAIN ps : Cardinality({j \in DOMAIN ps : startsBefore(ps, j, i)}) = n - 1
startOrder(ps) == [n \in DOMAIN ps |-> ps[nth(ps, n)]]

\* NowTitle looks at the first programme that has not ended, Programmes(id, now, 1).
NowTitle(id, now) ==
  LET left == {i \in DOMAIN progIndex[id] : progIndex[id][i].stop >= now}
      first == progIndex[id][Min(left)]
  IN IF left # {} /\ first.start <= now THEN first ELSE NoGuide

-----------------------------------------------------------------------------
Running(j) == job[j].pc # "idle"
Publishing(j) == job[j].pc \in {"commit", "write"}
MayFault == guideBounds.faults < MaxGuideFaults
Fault == guideBounds' = [guideBounds EXCEPT !.faults = @ + 1]

GuideInit ==
  /\ epgTable \in [urls : EPGLists, sds : SDLists] /\ epgConf = epgTable /\ epgReload = NoReload
  /\ channelEPG \in Mappings0
  /\ guideFile = NoGuide /\ chanIndex = {} /\ progIndex = NoProgrammes /\ mixed = FALSE
  /\ job = [j \in Refreshers |-> IF j = "boot" THEN [NoRefresh EXCEPT !.pc = "begin", !.no = 1] ELSE NoRefresh]
  /\ temps = [store |-> 0, spill |-> 0] /\ tempsLeft = temps
  /\ guideBounds = [ops |-> 0, begun |-> 1, faults |-> 0]

\* The refresh is over; a client is given the file if it is fresh.
Fresh(f) == f # NoGuide /\ ~f.old
Finished(j, committed, file) ==
  [NoRefresh EXCEPT !.answer = IF j \notin EPGClients THEN "" ELSE IF committed /\ Fresh(file) THEN "guide" ELSE "none"]
keepsMerge(j) == job' = [job EXCEPT ![j].pc = "idle"]
GivesUp(j) == job' = [job EXCEPT ![j] = Finished(j, FALSE, guideFile)]

\* WarmUpEPG, from the ticker or an operator.
WarmUpEPG ==
  /\ ~Running("background") /\ guideBounds.begun < MaxRefreshes
  /\ job' = [job EXCEPT !["background"] = [NoRefresh EXCEPT !.pc = "begin", !.no = guideBounds.begun + 1]]
  /\ guideBounds' = [guideBounds EXCEPT !.begun = @ + 1]
  /\ UNCHANGED <<tables, published, temps, tempsLeft>>

\* serveEPG: from the file when it is fresh, else after a refresh of its own.
ServeEPG(c) ==
  /\ ~Running(c) /\ guideBounds.begun < MaxRefreshes
  /\ job' = [job EXCEPT ![c] = IF Fresh(guideFile) THEN [NoRefresh EXCEPT !.answer = "guide"]
                               ELSE [NoRefresh EXCEPT !.pc = "begin", !.no = guideBounds.begun + 1]]
  /\ guideBounds' = [guideBounds EXCEPT !.begun = @ + 1]
  /\ UNCHANGED <<tables, published, temps, tempsLeft>>

\* setStream makes its temporary file, FetchAndMergeEPG reads the sources; without any it
\* leaves everything as it is.
GetEPGSources(j) ==
  /\ job[j].pc = "begin"
  /\ IF epgConf.urls = <<>> /\ epgConf.sds = {}
     THEN GivesUp(j) /\ UNCHANGED temps
     ELSE /\ job' = [job EXCEPT ![j].pc = "prepare", ![j].todo = ToSet(epgConf.urls)]
          /\ temps' = [temps EXCEPT !.store = @ + 1]
  /\ UNCHANGED <<tables, published, tempsLeft, guideBounds>>

\* The mapping, the spill file, the dummy entry, and the accounts as they are now.
opened(q, rev) == [progSink([q EXCEPT !.rev = rev], DummyEntry)
                     EXCEPT !.pc = "fetch", !.todo = @ \cup epgConf.sds, !.channels = {DummyChannelID}]
Prepared(j, rev) == job' = [job EXCEPT ![j] = opened(@, rev)]
PrepareMerge(j) ==
  /\ job[j].pc = "prepare"
  /\ \/ /\ \/ Prepared(j, loadExportIDMap(channelEPG)) /\ UNCHANGED guideBounds
           \/ MayFault /\ Fault /\ Prepared(j, NoCopies)      \* the mapping cannot be read
        /\ temps' = [temps EXCEPT !.spill = @ + 1]
     \/ /\ MayFault /\ Fault      \* the spill file cannot be made
        /\ GivesUp(j)
        /\ temps' = [temps EXCEPT !.store = @ - 1]
  /\ UNCHANGED <<tables, published, tempsLeft>>

\* A source delivers a beginning of what it has, nothing in the worst case.  An account
\* delivers all, nothing, or its channels, which come first, when its schedules could not
\* be fetched.
beginning(frags, n) == [i \in 1..n |-> frags[i]]
channelsFirst(frags) == {n \in 0..Len(frags) : \A i \in DOMAIN frags : frags[i].kind = "channel" <=> i <= n}
Deliveries(s) ==
  IF s \in GuideUrls THEN {beginning(Feeds[s], n) : n \in 0..Len(Feeds[s])}
  ELSE IF s \in GuideSDs THEN {beginning(Feeds[s], n) : n \in {0, Len(Feeds[s])} \cup channelsFirst(Feeds[s])}
  ELSE {<<>>}
without(q, s) == [q EXCEPT !.todo = @ \ {s}]
SourceMerged(j, s) ==
  /\ job[j].pc = "fetch" /\ s \in job[j].todo
  /\ \E frags \in Deliveries(s) : job' = [job EXCEPT ![j] = without(merge(@, frags), s)]
  /\ UNCHANGED <<tables, published, temps, tempsLeft, guideBounds>>

\* A write into the spill file fails: what still comes is dropped.
SpillBreaks(j) ==
  /\ job[j].pc = "fetch" /\ MayFault /\ Fault
  /\ job' = [job EXCEPT ![j].broken = TRUE]
  /\ UNCHANGED <<tables, published, temps, tempsLeft>>

\* Every way out removes both temporary files.
discardSpill == temps' = [temps EXCEPT !.spill = @ - 1]
discardTemps == temps' = [temps EXCEPT !.store = @ - 1, !.spill = @ - 1]

SpillFailed(j) ==
  /\ job[j].pc = "fetch" /\ job[j].todo = {} /\ job[j].broken
  /\ GivesUp(j) /\ discardTemps
  /\ UNCHANGED <<tables, published, tempsLeft, guideBounds>>

\* epgindex.RebuildFromSlices: the raw ids.
RebuildFromSlices(j) ==
  /\ job[j].pc = "fetch" /\ job[j].todo = {} /\ ~job[j].broken
  /\ chanIndex' = job[j].channels
  /\ mixed' = (\E k \in Refreshers \ {j} : Publishing(k))
  /\ job' = [job EXCEPT ![j].pc = "commit"]
  /\ UNCHANGED <<tables, guideFile, progIndex, temps, tempsLeft, guideBounds>>

\* ProgrammeBuilder.Commit.
commitOver(built) == [id \in AllIds |-> IF built[id] = <<>> THEN progIndex[id] ELSE startOrder(built[id])]
committedIndex(built) == [id \in AllIds |-> startOrder(built[id])]
Commit(j) ==
  /\ job[j].pc = "commit"
  /\ progIndex' = committedIndex(job[j].built)
  /\ job' = [job EXCEPT ![j].pc = "write"]
  /\ UNCHANGED <<tables, guideFile, chanIndex, mixed, temps, tempsLeft, guideBounds>>

\* The document is written and renamed into place.
RenameGuide(j) ==
  LET doc == [channels |-> expandMappedChannels(job[j].channels, job[j].rev), progs |-> job[j].progs,
              raw |-> job[j].channels, got |-> job[j].got, rev |-> job[j].rev, no |-> job[j].no, old |-> FALSE]
  IN /\ job[j].pc = "write"
     /\ guideFile' = doc
     /\ job' = [job EXCEPT ![j] = Finished(j, TRUE, doc)]
     /\ discardTemps
     /\ UNCHANGED <<tables, chanIndex, progIndex, mixed, tempsLeft, guideBounds>>

WriteGuideFails(j) ==
  /\ job[j].pc = "write" /\ MayFault /\ Fault
  /\ GivesUp(j) /\ discardTemps
  /\ mixed' = TRUE
  /\ UNCHANGED <<tables, guideFile, chanIndex, progIndex, tempsLeft>>

\* EPGDiskTTL has passed.
GuideExpires ==
  /\ Fresh(guideFile)
  /\ guideFile' = [guideFile EXCEPT !.old = TRUE]
  /\ UNCHANGED <<tables, chanIndex, progIndex, mixed, job, temps, tempsLeft, guideBounds>>

-----------------------------------------------------------------------------
(* The operator.                                                           *)

GuideOp ==
  /\ guideBounds.ops < MaxGuideOps
  /\ guideBounds' = [guideBounds EXCEPT !.ops = @ + 1]

\* handleSetChannelEPG and handleDeleteChannelEPG.
SetChannelEPG(c, id) ==
  /\ GuideOp /\ channelEPG' = [channelEPG EXCEPT ![c] = id]
  /\ UNCHANGED <<epgTable, epgConf, epgReload, published, job, temps, tempsLeft>>

\* reloadEPGs and reloadSDAccounts make lists of blank rows and then fill them: a blank
\* source has no URL, a blank account is disabled.
StoreEPGs(urls) ==
  /\ GuideOp /\ epgReload.at = 0
  /\ epgTable' = [epgTable EXCEPT !.urls = urls]
  /\ epgConf' = [epgConf EXCEPT !.urls = [i \in DOMAIN urls |-> BlankRow]]
  /\ epgReload' = [epgReload EXCEPT !.at = IF urls = <<>> THEN 0 ELSE 1]
  /\ UNCHANGED <<channelEPG, published, job, temps, tempsLeft>>

FillEPG ==
  /\ epgReload.at > 0
  /\ epgConf' = [epgConf EXCEPT !.urls[epgReload.at] = epgTable.urls[epgReload.at]]
  /\ epgReload' = [epgReload EXCEPT !.at = IF @ = Len(epgTable.urls) THEN 0 ELSE @ + 1]
  /\ UNCHANGED <<epgTable, channelEPG, published, job, temps, tempsLeft, guideBounds>>

StoreSDAccounts(sds) ==
  /\ GuideOp /\ epgReload.sds = {}
  /\ epgTable' = [epgTable EXCEPT !.sds = sds]
  /\ epgConf' = [epgConf EXCEPT !.sds = {}]
  /\ epgReload' = [epgReload EXCEPT !.sds = sds]
  /\ UNCHANGED <<channelEPG, published, job, temps, tempsLeft>>

FillSDAccount(s) ==
  /\ s \in epgReload.sds
  /\ epgConf' = [epgConf EXCEPT !.sds = @ \cup {s}]
  /\ epgReload' = [epgReload EXCEPT !.sds = @ \ {s}]
  /\ UNCHANGED <<epgTable, channelEPG, published, job, temps, tempsLeft, guideBounds>>

\* The process ends at any moment and is started again: the indexes are gone, the file and
\* whatever temporary files were open are not.
GuideRestarts ==
  /\ MayFault /\ guideBounds.begun < MaxRefreshes
  /\ epgConf' = epgTable /\ epgReload' = NoReload
  /\ chanIndex' = {} /\ progIndex' = NoProgrammes /\ mixed' = TRUE
  /\ job' = [j \in Refreshers |-> IF j = "boot" THEN [NoRefresh EXCEPT !.pc = "begin", !.no = guideBounds.begun + 1]
                                  ELSE NoRefresh]
  /\ tempsLeft' = temps
  /\ guideBounds' = [guideBounds EXCEPT !.faults = @ + 1, !.begun = @ + 1]
  /\ UNCHANGED <<epgTable, channelEPG, guideFile, temps>>

GuideNext ==
  \/ WarmUpEPG \/ GuideExpires \/ FillEPG \/ GuideRestarts
  \/ \E c \in EPGClients : ServeEPG(c)
  \/ \E c \in GuideChannels, id \in RawIds \cup {Unmapped} : SetChannelEPG(c, id)
  \/ \E urls \in EPGLists : StoreEPGs(urls)
  \/ \E sds \in SDLists : StoreSDAccounts(sds)
  \/ \E s \in epgReload.sds : FillSDAccount(s)
  \/ \E j \in Refreshers : \/ GetEPGSources(j) \/ PrepareMerge(j) \/ SpillBreaks(j) \/ SpillFailed(j)
                           \/ \E s \in job[j].todo : SourceMerged(j, s)
                           \/ RebuildFromSlices(j) \/ Commit(j) \/ RenameGuide(j) \/ WriteGuideFails(j)

GuideSpec == GuideInit /\ [][GuideNext]_guideVars

-----------------------------------------------------------------------------
(* Properties.                                                             *)

GuideTypeOK ==
  /\ epgTable \in [urls : EPGLists, sds : SDLists]
  /\ epgConf.urls \in Seq(GuideUrls \cup {BlankRow}) /\ epgConf.sds \cup epgReload.sds \subseteq GuideSDs
  /\ epgReload.at \in 0..Len(epgTable.urls) /\ epgReload.sds \subseteq epgTable.sds
  /\ channelEPG \in [GuideChannels -> RawIds \cup {Unmapped}]
  /\ chanIndex \subseteq RawIds /\ DOMAIN progIndex = AllIds
  /\ \A j \in Refreshers :
       /\ job[j].pc \in {"idle", "begin", "prepare", "fetch", "commit", "write"}
       /\ job[j].todo \subseteq GuideUrls \cup GuideSDs \cup {BlankRow}
       /\ job[j].channels \subseteq RawIds
       /\ job[j].answer \in {"", "guide", "none"}
       /\ job[j].pc = "idle" => [job[j] EXCEPT !.answer = ""] = NoRefresh
  /\ guideFile # NoGuide => DummyChannelID \in guideFile.raw
  /\ temps.spill <= temps.store /\ mixed \in BOOLEAN

ProgrammesOf(f, id) == {p \in f.progs : p.id = id}
IndexedOf(id) == ToSet(progIndex[id])

\* The file has everything its sources delivered, whether mapped or not, and every channel
\* mapped at the time of the merge has an entry of its own with all the programmes of the
\* id it is mapped to ("always keep the original source entry so the full guide exports",
\* progSink and expandMappedChannels).
GuideIsWhole ==
  guideFile # NoGuide =>
    /\ \A f \in guideFile.got \cup {DummyEntry} :
         IF f.kind = "channel" THEN f.id \in guideFile.raw
         ELSE \A x \in guideFile.rev[f.id] \cup {f.id} : Renamed(f, x) \in guideFile.progs
    /\ \A id \in guideFile.raw : guideFile.rev[id] \cup {id} \subseteq guideFile.channels

\* When no refresh is publishing and the last ones did not get into each other's way, the
\* indexes are those of the file: the picker offers its channels, and a lookup finds what
\* the file says of an id, all of it for every id mapped at the time and every export id,
\* and nothing for the others (RebuildFromSlices, Commit).  In between is a source's id
\* that is also an export id, and that no channel is mapped to: only the copies are indexed.
Exported(f, id) == \E o \in RawIds : id \in f.rev[o]
LookedUp(f, id) == id = DummyChannelID \/ f.rev[id] # {} \/ (Exported(f, id) /\ id \notin RawIds)
Quiet == guideFile # NoGuide /\ ~mixed /\ \A j \in Refreshers : ~Publishing(j)
QuietIndexIsFile ==
  Quiet =>
    /\ chanIndex = guideFile.raw
    /\ \A id \in AllIds :
         /\ IndexedOf(id) \subseteq ProgrammesOf(guideFile, id)
         /\ LookedUp(guideFile, id) => IndexedOf(id) = ProgrammesOf(guideFile, id)
         /\ ~LookedUp(guideFile, id) /\ ~Exported(guideFile, id) => IndexedOf(id) = {}

\* What is shown as on now is on now, and something is shown whenever something is on,
\* whatever order the sources sent it in.  Times are even, the present is odd: two
\* programmes never meet in it.
Moments == {1, 3, 5, 7}
NowIsAiring ==
  \A id \in AllIds, now \in Moments :
    LET on == {p \in ToSet(progIndex[id]) : p.start <= now /\ now <= p.stop}
    IN IF on = {} THEN NowTitle(id, now) = NoGuide ELSE NowTitle(id, now) \in on

\* Every way out of a refresh removes its temporary files: those there are belong to a
\* refresh under way or to a process that died.
TempsAreRemoved ==
  /\ temps.store = tempsLeft.store + Cardinality({j \in Refreshers : job[j].pc \in {"prepare", "fetch", "commit", "write"}})
  /\ temps.spill = tempsLeft.spill + Cardinality({j \in Refreshers : job[j].pc \in {"fetch", "commit", "write"}})

\* Not so in the code.  The file of a refresh is replaced only by one begun later.
NewestWins ==
  [][guideFile' # guideFile /\ guideFile # NoGuide => guideFile'.no >= guideFile.no]_guideVars

\* Not so in the code.  A refresh asks only sources that are configured (GetEPGSources).
ReloadIsRead == \A j \in Refreshers : BlankRow \notin job[j].todo

\* Not so in the code.  A channel's guide that is in the file can be looked up.
MappedIsIndexed ==
  guideFile # NoGuide /\ ~mixed /\ (\A j \in Refreshers : ~Running(j)) =>
    \A c \in GuideChannels : LET id == EPGIDForChannel(c, channelEPG)
                             IN IndexedOf(id) = ProgrammesOf(guideFile, id)

\* Not so in the code.  A refresh that reaches no source leaves the guide there is.
OutageKeepsGuide ==
  [][guideFile # NoGuide /\ guideFile.raw # {DummyChannelID} => guideFile'.raw # {DummyChannelID}]_guideVars

\* The published guide holds together through refreshes that overlap, fail or die: the
\* file is one merge's, the index answers for it once they are quiet, the programme
\* said to be on is on, and no temporary file is left (epg.go 230-430).
GuideInv == GuideTypeOK /\ GuideIsWhole /\ QuietIndexIsFile /\ NowIsAiring /\ TempsAreRemoved
================================================================================
