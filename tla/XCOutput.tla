------------------------------ MODULE XCOutput ------------------------------
(***************************************************************************)
(* The Xtreme Codes output: the lists built from the channel map and the   *)
(* local library, the connection slots of an account, and the index that   *)
(* turns a stream id back into a channel.                                  *)
(*                                                                         *)
(* A request runs on a goroutine of its own; one step is one access to a   *)
(* shared counter, pointer or map.  Stream ids are hashes of 31 bits, so   *)
(* that channels, episodes and files may share one; a category is named by *)
(* its label, which the lists tell categories apart by.  A label is its    *)
(* sequence of segments.                                                   *)
(***************************************************************************)
EXTENDS Integers, FiniteSets, SequencesExt, TLC

CONSTANTS
  Catalogs,      \* the channel maps an import may commit: [name -> channel]
  Library,       \* the exported local entries, in their stored order
  StreamId,      \* [names and hashes -> Nat], several of which may hash alike
  FoldedName,    \* [name -> the place of its lower-case form among all names]
  EpisodeIds,    \* ids of remote episodes
  PreserveOrder, \* Config.SortField is "preserve-order"
  AccountDrafts, \* the lists of accounts an administrator may leave stored
  Requests,      \* what clients ask
  XCClients,     \* requests under way at a time
  AppLimit,      \* MaxConnectionsToApp
  MaxImports,    \* bound: imports committed
  MaxReloads,    \* bound: edits of the accounts
  MaxXCRequests, \* bound: requests started
  NoIndex,       \* streamIDIndex before the first build
  NoClient       \* nobody holds streamIDIndexMu

ASSUME XCAssumption ==
  /\ \A c \in Catalogs : DOMAIN c \subseteq DOMAIN StreamId
  /\ \A i \in DOMAIN Library : Library[i].hash \in DOMAIN StreamId
  /\ \A d \in AccountDrafts :
       /\ IsInjective(d) /\ DOMAIN d \subseteq Nat \ {0}
       /\ \A i \in DOMAIN d : d[i].max \in Nat
  /\ IsFiniteSet(XCClients) /\ NoClient \notin XCClients
  /\ AppLimit \in Nat

\* math.MaxInt, beyond every place in an order.
MaxInt == 1000

\* Streams and local entries as the parsers make them: every local entry has a group.
ASSUME CatalogAssumption ==
  /\ \A c \in Catalogs : \A n \in DOMAIN c :
       c[n] \in Seq([type : {"live", "vod", "series"}, group : Seq(STRING), tvgroup : Seq(STRING),
                    source : 0 .. MaxInt - 1, order : 0 .. MaxInt - 1])
  /\ Len(Library) \in Nat /\ DOMAIN Library = 1 .. Len(Library)
  /\ \A i \in DOMAIN Library : Library[i].group \in Seq(STRING) \ {<<>>}

VARIABLES
  channels,      \* sp.Channels
  importGeneration, committing,   \* the generation; the map is replaced, the generation not yet bumped
  streamIDIndex, streamIDIndexGen, streamIDIndexMu,
  accounts,      \* [number of the list -> its accounts]: every list ever published
  filled,        \* whether the newest list holds its accounts yet
  activeConns,   \* [list -> [account -> ActiveConns]]
  clientSlots,   \* globalClientSemaphore
  req,           \* [XCClients -> request record]
  xcStarted

catalogVars == <<channels, importGeneration, committing>>
indexVars == <<streamIDIndex, streamIDIndexGen, streamIDIndexMu>>
accountVars == <<accounts, filled>>
xcVars == <<channels, importGeneration, committing, streamIDIndex, streamIDIndexGen, streamIDIndexMu,
            accounts, filled, activeConns, clientSlots, req, xcStarted>>

NoRequest == [pc |-> "idle", ask |-> <<>>, list |-> 0, acct |-> 0, gen |-> 0, map |-> NoIndex,
              name |-> "", holds |-> FALSE, plays |-> FALSE, steady |-> TRUE, reply |-> ""]

-----------------------------------------------------------------------------
(***************************************************************************)
(* Lists.  A channel is the sequence of its streams, a stream a record     *)
(* [type, group, tvgroup, source, order]; the first stream describes the   *)
(* channel.                                                                *)
(***************************************************************************)
getChannelContentType(ch) == IF ch = <<>> THEN "live" ELSE ch[1].type
groupTitleOf(st) == CASE st.group # <<>> -> st.group
                      [] st.group = <<>> /\ st.tvgroup # <<>> -> st.tvgroup
                      [] OTHER -> <<"All">>

Before(p, q) == p[1] < q[1] \/ (p[1] = q[1] /\ p[2] < q[2])

\* The smallest (source order, import order) among a channel's streams.
firstStreamOrder(ch) == IF ch = <<>> THEN <<MaxInt, MaxInt>> ELSE <<ch[1].source, ch[1].order>>
xcChannelOriginalOrder(ch) ==
  IF ch = <<>> THEN <<MaxInt, MaxInt>>
  ELSE LET places == {<<ch[i].source, ch[i].order>> : i \in DOMAIN ch}
       IN CHOOSE p \in places : \A q \in places : ~Before(q, p)

xcChannelOriginalOrderLess(chs, a, b) ==
  LET p == xcChannelOriginalOrder(chs[a])
      q == xcChannelOriginalOrder(chs[b])
  IN Before(p, q) \/ (p = q /\ FoldedName[a] < FoldedName[b])

\* The orders sort.Slice may leave: names that only differ in case tie.
getSortedChannels(chs) ==
  {s \in SetToSeqs(DOMAIN chs) : \A i, j \in DOMAIN s :
     i < j => IF PreserveOrder THEN ~xcChannelOriginalOrderLess(chs, s[j], s[i])
              ELSE FoldedName[s[i]] <= FoldedName[s[j]]}

ContentTypes == {"live", "vod", "series"}
ContentTypeOf(e) == IF e.media = "shows" THEN "series" ELSE "vod"
EntriesForContentType(type) == {e \in Range(Library) : ContentTypeOf(e) = type}
Shows == EntriesForContentType("series")

\* A show's group without its last segment, the series.
wholeGroup(e) == e.group
SeriesCategory(e) == IF Len(e.group) > 1 THEN Front(e.group) ELSE e.group

\* The first entry of each series stands for it.
seriesKeyByName(e) == e.series
seriesKey(e) == <<e.source, e.series>>
SeriesForExport ==
  {e \in Shows : \E i \in DOMAIN Library :
     Library[i] = e /\ \A j \in DOMAIN Library :
       j < i /\ Library[j] \in Shows => seriesKey(Library[j]) # seriesKey(e)}

\* The episodes a client is offered when it drills into a local series.
EpisodesForSeries(e) ==
  {c \in Shows : c.source = e.source /\ c.series = e.series}

RemoteStream(chs, n) ==
  [id |-> StreamId[n], item |-> n, category |-> groupTitleOf(chs[n][1]), type |-> getChannelContentType(chs[n])]
LocalStream(e, category) ==
  [id |-> StreamId[e.hash], item |-> e.hash, category |-> category, type |-> ContentTypeOf(e)]

Listed(chs, type) == {n \in DOMAIN chs : chs[n] # <<>> /\ getChannelContentType(chs[n]) = type}

buildStreamList(chs, type) ==
  {RemoteStream(chs, n) : n \in Listed(chs, type)} \cup
  IF type = "series" THEN {LocalStream(e, SeriesCategory(e)) : e \in SeriesForExport}
  ELSE {LocalStream(e, e.group) : e \in EntriesForContentType(type)}

categoriesByGroup(chs, type) ==
  {groupTitleOf(chs[n][1]) : n \in Listed(chs, type)} \cup {e.group : e \in EntriesForContentType(type)}

buildCategoryList(chs, type) ==
  {groupTitleOf(chs[n][1]) : n \in Listed(chs, type)} \cup
  {g \in IF type = "series" THEN {SeriesCategory(e) : e \in SeriesForExport}
         ELSE {e.group : e \in EntriesForContentType(type)} : g # <<>>}

\* enabled: the content types the account may see.
\* The playlist has no series of its own: a local one is written episode by episode,
\* a remote one from its stored tree (SeriesFiles).
writeXCM3UPlaylist(chs, enabled) ==
  {RemoteStream(chs, n) : n \in UNION {Listed(chs, t) : t \in enabled \ {"series"}}} \cup
  {LocalStream(e, e.group) : e \in {x \in Range(Library) : ContentTypeOf(x) \in enabled}}

\* What has an id: channels, a remote episode, files.
NamesOf(chs, id) == {<<n, "channel">> : n \in {m \in DOMAIN chs : StreamId[m] = id}}
EpisodeOf(id) == {<<"", "episode">> : e \in EpisodeIds \cap {id}}
FilesOf(id) == {i \in DOMAIN Library : StreamId[Library[i].hash] = id}
EntriesOf(id) == {<<Library[i].hash, "local">> : i \in FilesOf(id)}
Claims(chs, id) == NamesOf(chs, id) \cup EpisodeOf(id) \cup EntriesOf(id)

\* The last file of an id stays in the index.
ExportIndexed(id) == {<<Library[i].hash, "local">> : i \in {x \in FilesOf(id) : \A y \in FilesOf(id) : y <= x}}

\* What handleXCStream may play for an id: a channel, an episode, a local file, in this order.
Resolve(chs, id) ==
  CASE NamesOf(chs, id) # {} -> NamesOf(chs, id)
    [] NamesOf(chs, id) = {} /\ EpisodeOf(id) # {} -> EpisodeOf(id)
    [] NamesOf(chs, id) = {} /\ EpisodeOf(id) = {} -> ExportIndexed(id)

-----------------------------------------------------------------------------
XCInit ==
  /\ channels \in Catalogs
  /\ importGeneration = 0 /\ committing = FALSE
  /\ streamIDIndex = NoIndex /\ streamIDIndexGen = 0 /\ streamIDIndexMu = NoClient
  /\ \E d \in AccountDrafts :
       accounts = <<d>> /\ activeConns = <<[i \in DOMAIN d |-> 0]>>
  /\ filled = TRUE
  /\ clientSlots = 0
  /\ req = [r \in XCClients |-> NoRequest]
  /\ xcStarted = 0

(***************************************************************************)
(* An import replaces the channels, then bumps the generation.             *)
(***************************************************************************)
ImportStores(c) ==
  /\ ~committing /\ importGeneration < MaxImports
  /\ channels' = c
  /\ committing' = TRUE
  /\ req' = [r \in XCClients |-> [req[r] EXCEPT !.steady = req[r].pc = "idle"]]
  /\ UNCHANGED <<importGeneration, indexVars, accountVars, activeConns, clientSlots, xcStarted>>

ImportCommits ==
  /\ committing
  /\ importGeneration' = importGeneration + 1
  /\ committing' = FALSE
  /\ UNCHANGED <<channels, indexVars, accountVars, activeConns, clientSlots, req, xcStarted>>

(***************************************************************************)
(* reloadXCAccounts publishes a list of blank accounts and fills it in.    *)
(***************************************************************************)
ReloadPublishes(d) ==
  /\ filled /\ Len(accounts) <= MaxReloads
  /\ accounts' = Append(accounts, d)
  /\ activeConns' = Append(activeConns, [i \in DOMAIN d |-> 0])
  /\ filled' = FALSE
  /\ UNCHANGED <<catalogVars, indexVars, clientSlots, req, xcStarted>>

ReloadFills ==
  /\ ~filled
  /\ filled' = TRUE
  /\ UNCHANGED <<catalogVars, indexVars, accounts, activeConns, clientSlots, req, xcStarted>>

(***************************************************************************)
(* Requests.                                                               *)
(***************************************************************************)
newestList == Len(accounts)

\* The last account that matches; none while the list is blank.
findXCAccount(user) ==
  LET last == {i \in DOMAIN accounts[newestList] :
                 /\ filled /\ accounts[newestList][i].user = user
                 /\ \A j \in DOMAIN accounts[newestList] : accounts[newestList][j].user = user => j <= i}
  IN IF last = {} THEN 0 ELSE CHOOSE i \in last : TRUE

Acting(r, pc) == req[r].pc = pc /\ UNCHANGED <<catalogVars, accountVars>>

XCBegins(r, ask) ==
  /\ Acting(r, "idle")
  /\ xcStarted < MaxXCRequests /\ xcStarted' = xcStarted + 1
  /\ LET i == findXCAccount(ask.user)
         new == [NoRequest EXCEPT !.ask = ask, !.list = newestList, !.acct = i, !.steady = ~committing]
     IN req' = [req EXCEPT ![r] =
          CASE i = 0 -> [new EXCEPT !.pc = "done", !.reply = "unauthorized"]
            [] i # 0 /\ ask.kind \in {"account", "playlist"} -> [new EXCEPT !.pc = "done", !.reply = "ok"]
            [] OTHER -> [new EXCEPT !.pc = "acquire"]]
  /\ UNCHANGED <<indexVars, activeConns, clientSlots>>

admitsOneMore(count, max) == count <= max + 1
admitsCount(count, max) == count <= max

\* One atomic addition; over the limit it is taken back in a step of its own.
acquireXCConnection(r) ==
  LET q == req[r]
      count == activeConns[q.list][q.acct] + 1
  IN /\ Acting(r, "acquire")
     /\ activeConns' = [activeConns EXCEPT ![q.list][q.acct] = count]
     /\ req' = [req EXCEPT ![r] =
          IF ~admitsCount(count, accounts[q.list][q.acct].max) THEN [q EXCEPT !.pc = "rollback"]
          ELSE [q EXCEPT !.holds = TRUE,
                         !.pc = CASE q.ask.kind = "list" -> "list"
                                  [] q.ask.kind # "list" -> "gen"]]
     /\ UNCHANGED <<indexVars, clientSlots, xcStarted>>

Rollback(r) ==
  /\ Acting(r, "rollback")
  /\ activeConns' = [activeConns EXCEPT ![req[r].list][req[r].acct] = @ - 1]
  /\ req' = [req EXCEPT ![r].pc = "done", ![r].reply = "limit"]
  /\ UNCHANGED <<indexVars, clientSlots, xcStarted>>

\* The reservation is given back to the account it was made on.
releaseFound(r) ==
  LET i == findXCAccount(req[r].ask.user) IN
    IF i = 0 THEN activeConns ELSE [activeConns EXCEPT ![newestList][i] = @ - 1]
release(r) == [activeConns EXCEPT ![req[r].list][req[r].acct] = @ - 1]

\* Every way out of a handler that holds a slot runs the deferred release.
Answers(r, reply) ==
  /\ activeConns' = release(r)
  /\ req' = [req EXCEPT ![r] = [@ EXCEPT !.pc = "done", !.holds = FALSE, !.plays = FALSE, !.reply = reply]]

HandleXCPlayerAPI(r) ==
  /\ Acting(r, "list")
  /\ Answers(r, "ok")
  /\ UNCHANGED <<indexVars, clientSlots, xcStarted>>

(***************************************************************************)
(* findChannelByStreamID: generation, pointer and the pointer's generation *)
(* are three loads; a miss rebuilds under the mutex.                       *)
(***************************************************************************)
LoadGeneration(r) ==
  /\ Acting(r, "gen")
  /\ req' = [req EXCEPT ![r].gen = importGeneration, ![r].pc = "pointer"]
  /\ UNCHANGED <<indexVars, activeConns, clientSlots, xcStarted>>

LoadIndex(r) ==
  /\ Acting(r, "pointer")
  /\ req' = [req EXCEPT ![r].map = streamIDIndex, ![r].pc = "compare"]
  /\ UNCHANGED <<indexVars, activeConns, clientSlots, xcStarted>>

NameOf(map, id) == IF id \in DOMAIN map THEN map[id] ELSE ""

findChannelByStreamID(r) ==
  /\ Acting(r, "compare")
  /\ IF req[r].map = NoIndex \/ streamIDIndexGen # req[r].gen
       THEN req' = [req EXCEPT ![r].pc = "lock"]
       ELSE req' = [req EXCEPT ![r].pc = "resolve", ![r].name = NameOf(req[r].map, req[r].ask.id)]
  /\ UNCHANGED <<indexVars, activeConns, clientSlots, xcStarted>>

\* The indexes a walk over the channels may leave: of two names with one id the later stays.
indexesOf(chs) ==
  {f \in [{StreamId[n] : n \in DOMAIN chs} -> DOMAIN chs] : \A id \in DOMAIN f : StreamId[f[id]] = id}

\* The generation a rebuilt index is filed under.
currentGeneration(r) == importGeneration
suppliedGeneration(r) == req[r].gen

rebuildStreamIDIndex(r) ==
  /\ UNCHANGED <<activeConns, clientSlots, xcStarted>>
  /\ \/ /\ Acting(r, "lock") /\ streamIDIndexMu = NoClient
        /\ streamIDIndex # NoIndex /\ streamIDIndexGen = req[r].gen
        /\ req' = [req EXCEPT ![r].pc = "resolve", ![r].name = NameOf(streamIDIndex, req[r].ask.id)]
        /\ UNCHANGED indexVars
     \/ /\ Acting(r, "lock") /\ streamIDIndexMu = NoClient
        /\ streamIDIndex = NoIndex \/ streamIDIndexGen # req[r].gen
        /\ streamIDIndexMu' = r
        /\ \E index \in indexesOf(channels) : req' = [req EXCEPT ![r].pc = "publish", ![r].map = index]
        /\ UNCHANGED <<streamIDIndex, streamIDIndexGen>>
     \/ /\ Acting(r, "publish")
        /\ streamIDIndex' = req[r].map
        /\ req' = [req EXCEPT ![r].pc = "stamp"]
        /\ UNCHANGED <<streamIDIndexGen, streamIDIndexMu>>
     \/ /\ Acting(r, "stamp")
        /\ streamIDIndexGen' = suppliedGeneration(r)
        /\ streamIDIndexMu' = NoClient
        /\ req' = [req EXCEPT ![r].pc = "resolve", ![r].name = NameOf(req[r].map, req[r].ask.id)]
        /\ UNCHANGED streamIDIndex

(***************************************************************************)
(* handleXCStream once the name is known.  Every delivery takes a slot of  *)
(* the application; serveSeriesEpisode takes one before it knows the id.   *)
(***************************************************************************)
slotsOneMore == clientSlots <= AppLimit
FreeSlot == clientSlots < AppLimit
IsLocal(id) == ExportIndexed(id) # {}

handleXCStream(r) ==
  LET q == req[r]
      gone == q.name # "" /\ q.name \notin DOMAIN channels
      found == q.name # "" /\ q.name \in DOMAIN channels
  IN /\ Acting(r, "resolve") /\ q.ask.kind = "play"
     /\ \/ found /\ q.ask.m3u8 /\ Answers(r, "redirect") /\ UNCHANGED clientSlots
        \/ gone /\ Answers(r, "not found") /\ UNCHANGED clientSlots
        \/ q.name = "" /\ FreeSlot /\ q.ask.id \notin EpisodeIds /\ ~IsLocal(q.ask.id)
             /\ Answers(r, "not found") /\ UNCHANGED clientSlots
        \/ ~FreeSlot /\ (q.name = "" \/ (found /\ ~q.ask.m3u8))
             /\ Answers(r, "at capacity") /\ UNCHANGED clientSlots
        \/ /\ FreeSlot
           /\ (found /\ ~q.ask.m3u8) \/ (q.name = "" /\ (q.ask.id \in EpisodeIds \/ IsLocal(q.ask.id)))
           /\ clientSlots' = clientSlots + 1
           /\ req' = [req EXCEPT ![r].pc = "playing", ![r].plays = TRUE]
           /\ UNCHANGED activeConns
     /\ UNCHANGED <<indexVars, xcStarted>>

\* get_short_epg and get_simple_data_table, and get_series_info of a remote series.
buildXCEPGListings(r) ==
  /\ Acting(r, "resolve") /\ req[r].ask.kind = "guide"
  /\ Answers(r, IF req[r].name = "" THEN "not found" ELSE "ok")
  /\ UNCHANGED <<indexVars, clientSlots, xcStarted>>

\* The client leaves, or the file ends.
PlayEnds(r) ==
  /\ Acting(r, "playing")
  /\ clientSlots' = clientSlots - 1
  /\ Answers(r, "played")
  /\ UNCHANGED <<indexVars, xcStarted>>

Returns(r) ==
  /\ Acting(r, "done")
  /\ req' = [req EXCEPT ![r] = NoRequest]
  /\ UNCHANGED <<indexVars, activeConns, clientSlots, xcStarted>>

XCNext ==
  \/ \E c \in Catalogs : ImportStores(c)
  \/ ImportCommits
  \/ \E d \in AccountDrafts : ReloadPublishes(d)
  \/ ReloadFills
  \/ \E r \in XCClients :
       \/ \E ask \in Requests : XCBegins(r, ask)
       \/ acquireXCConnection(r)
       \/ Rollback(r)
       \/ HandleXCPlayerAPI(r)
       \/ LoadGeneration(r)
       \/ LoadIndex(r)
       \/ findChannelByStreamID(r)
       \/ rebuildStreamIDIndex(r)
       \/ handleXCStream(r)
       \/ buildXCEPGListings(r)
       \/ PlayEnds(r)
       \/ Returns(r)

XCSpec == XCInit /\ [][XCNext]_xcVars

-----------------------------------------------------------------------------
Holders(l, i) == {r \in XCClients : req[r].list = l /\ req[r].acct = i /\ req[r].holds}
Reserving(l, i) == {r \in XCClients : req[r].list = l /\ req[r].acct = i /\ (req[r].holds \/ req[r].pc = "rollback")}

\* Counters are natural numbers, the mutex is held by the request that publishes an
\* index, and only a request that plays holds a slot of the application.
XCTypeOK ==
  /\ \A l \in DOMAIN accounts : DOMAIN activeConns[l] = DOMAIN accounts[l]
  /\ \A r \in XCClients : streamIDIndexMu = r <=> req[r].pc \in {"publish", "stamp"}
  /\ clientSlots = Cardinality({r \in XCClients : req[r].plays}) /\ clientSlots <= AppLimit
  /\ streamIDIndexGen <= importGeneration

\* acquireXCConnection and its release: on whichever way a request ends, and however
\* often the accounts are reloaded meanwhile, an account's counter is the number of
\* requests that reserved it and have not given it back.
SlotsAreCounted ==
  \A l \in DOMAIN accounts : \A i \in DOMAIN accounts[l] :
    activeConns[l][i] = Cardinality(Reserving(l, i))

\* acquireXCConnection: concurrent starts never pass the limit together.
HoldersWithinLimit ==
  \A l \in DOMAIN accounts : \A i \in DOMAIN accounts[l] :
    Cardinality(Holders(l, i)) <= accounts[l][i].max

\* findChannelByStreamID: an index filed under the current generation has the channels
\* of that generation, whatever import was committed while it was being built.
IndexIsOfItsGeneration ==
  ~committing /\ streamIDIndex # NoIndex /\ streamIDIndexGen = importGeneration =>
    streamIDIndex \in indexesOf(channels)

Listing == \E r \in XCClients : req[r].pc = "list"

Offers(type) == buildStreamList(channels, type) \cup writeXCM3UPlaylist(channels, ContentTypes)

\* buildStreamList and buildCategoryList: the categories offered are those of the
\* streams offered; and every id offered in a list or a playlist plays something that
\* has this id, hence that very item unless its id is another's as well.
ListsAgree ==
  Listing => \A t \in ContentTypes :
    /\ {s.category : s \in buildStreamList(channels, t)} = buildCategoryList(channels, t)
    /\ \A s \in Offers(t) :
         LET plays == Resolve(channels, s.id) IN
           /\ plays # {} /\ plays \subseteq Claims(channels, s.id)
           /\ (\A c \in Claims(channels, s.id) : c[1] = s.item) => \A p \in plays : p[1] = s.item

\* getSortedChannels under preserve-order: a channel is placed by the earliest of its
\* streams, whichever of them the administrator's order has put first.
EarliestStreamPlaces ==
  Listing /\ PreserveOrder => \A s \in getSortedChannels(channels) : \A i, j \in DOMAIN s :
    i < j /\ channels[s[j]] # <<>> =>
      \E a \in Range(channels[s[i]]) : \A b \in Range(channels[s[j]]) :
        ~Before(<<b.source, b.order>>, <<a.source, a.order>>)

\* SeriesForExport and EpisodesForSeries: the trees behind the local series on offer
\* hold every local episode, each in one tree.
TreesPartitionShows ==
  Listing =>
    /\ UNION {EpisodesForSeries(e) : e \in SeriesForExport} = Shows
    /\ \A e, f \in SeriesForExport : e # f => EpisodesForSeries(e) \cap EpisodesForSeries(f) = {}

\* An account's counter is the streams it plays and those asking, and it never plays
\* more than its limit while the account list stands (acquireXCConnection).
SlotsInv == XCTypeOK /\ SlotsAreCounted /\ HoldersWithinLimit

\* The lists a player gets agree with each other and with the index its requests are
\* resolved through (getSortedChannels, buildCategoryList, rebuildStreamIDIndex).
ListsInv == IndexIsOfItsGeneration /\ ListsAgree /\ EarliestStreamPlaces /\ TreesPartitionShows

-----------------------------------------------------------------------------
(***************************************************************************)
(* Why SlotsInv holds: where a request is says what it holds.              *)
(***************************************************************************)
HandlerSteps == {"list", "gen", "pointer", "compare", "lock", "publish", "stamp", "resolve", "playing"}
RequestSteps == {"idle", "acquire", "rollback", "done"} \cup HandlerSteps

\* One account list after the other, each with a counter for every account of it.
ListsWellFormed ==
  /\ accounts \in Seq(AccountDrafts) /\ accounts # <<>>
  /\ activeConns \in Seq(UNION {[DOMAIN d -> Int] : d \in AccountDrafts}) /\ Len(activeConns) = Len(accounts)
  /\ \A l \in DOMAIN accounts : activeConns[l] \in [DOMAIN accounts[l] -> Int]

\* A request beyond the authentication names an account of a published list, holds its
\* slot in the handler and only there, and a slot of the application while it plays.
RequestInv ==
  /\ DOMAIN req = XCClients
  /\ \A r \in XCClients :
       /\ DOMAIN req[r] = DOMAIN NoRequest
       /\ req[r].pc \in RequestSteps
       /\ req[r].holds \in BOOLEAN /\ (req[r].holds <=> req[r].pc \in HandlerSteps)
       /\ req[r].plays \in BOOLEAN /\ (req[r].plays <=> req[r].pc = "playing")
       /\ req[r].pc \notin {"idle", "done"} =>
            req[r].list \in DOMAIN accounts /\ req[r].acct \in DOMAIN accounts[req[r].list]

\* The index is never filed under a generation that has not begun.
GenerationInv ==
  /\ importGeneration \in Nat /\ streamIDIndexGen \in 0..importGeneration
  /\ \A r \in XCClients : req[r].gen \in 0..importGeneration

\* Why ListsInv holds: an index on its way to be filed under the current generation,
\* or published over one that is, has the current channels.
IndexInv ==
  /\ channels \in Catalogs
  /\ \A r \in XCClients :
       /\ req[r].pc = "publish" /\ ~committing /\ importGeneration \in {req[r].gen, streamIDIndexGen} =>
            req[r].map \in indexesOf(channels)
       /\ req[r].pc = "stamp" =>
            /\ streamIDIndex = req[r].map
            /\ ~committing /\ importGeneration = req[r].gen => req[r].map \in indexesOf(channels)
  /\ IndexIsOfItsGeneration

SlotsIInv ==
  /\ ListsWellFormed /\ RequestInv /\ GenerationInv
  /\ streamIDIndexMu \in XCClients \cup {NoClient}
  /\ clientSlots \in Nat
  /\ SlotsInv

-----------------------------------------------------------------------------
(***************************************************************************)
(* What comments say and the code does not keep (see README.md).           *)
(***************************************************************************)
\* acquireXCConnection, "reserves a connection slot ... for the life of a playback
\* request": also when the account is saved meanwhile.
LimitOutlivesEdits ==
  \A i \in DOMAIN accounts[newestList] :
    Cardinality({r \in XCClients : req[r].holds /\ req[r].ask.user = accounts[newestList][i].user})
      <= accounts[newestList][i].max

\* reloadXCAccounts "refreshes": an account stored before and after is never unknown.
StoredAccountIsKnown ==
  \A r \in XCClients : req[r].reply = "unauthorized" =>
    \E l \in DOMAIN accounts : \A i \in DOMAIN accounts[l] : accounts[l][i].user # req[r].ask.user

\* A slot that is refused is refused because the limit is in use.
RefusedAtTheLimit ==
  [][\A r \in XCClients : req[r].pc = "acquire" /\ req'[r].pc = "rollback" =>
       Cardinality(Holders(req[r].list, req[r].acct)) = accounts[req[r].list][req[r].acct].max]_xcVars

\* findChannelByStreamID, "an index rebuilt whenever the import generation moves": a
\* request no import overlaps finds its channel.
KnownChannelIsFound ==
  \A r \in XCClients :
    req[r].steady /\ req[r].pc = "resolve" /\ (\E n \in DOMAIN channels : StreamId[n] = req[r].ask.id) =>
      req[r].name # ""

\* streamIDFromName, FindByXCStreamID "resolves an XC stream ID back to its local media
\* entry": what is offered under an id is what the id plays.
IdsPlayTheirItem ==
  Listing => \A t \in ContentTypes : \A s \in Offers(t) : \A p \in Resolve(channels, s.id) : p[1] = s.item

\* getSortedChannels, "consistent ordering across every response".
OrderIsDetermined == Cardinality(getSortedChannels(channels)) = 1

\* SeriesCategory: the category get_series_info names is one get_series_categories lists.
InfoCategoryIsListed ==
  \A e \in SeriesForExport : wholeGroup(e) \in buildCategoryList(channels, "series")
=============================================================================
