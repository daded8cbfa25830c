---------------------------- MODULE SeriesFiles ----------------------------
(***************************************************************************)
(* Series and movies of Xtreme Codes providers: the merged episode tree,   *)
(* the stored mappings that turn a proxy episode back into a provider's,   *)
(* and the delivery of a file with its retries and its failover.           *)
(*                                                                         *)
(* A request runs on a goroutine of its own; one step is one access to a   *)
(* shared counter, one statement or transaction, or one answer of a        *)
(* provider.  One season stands for all: the code numbers and stores every *)
(* season by itself.                                                       *)
(***************************************************************************)
EXTENDS Naturals, FiniteSets, Sequences, TLC

CONSTANTS
  Providers,      \* the sources with an Xtreme Codes login
  MaxConnections, \* [Providers -> Nat]
  Urls, Url,      \* [Providers -> Urls]: two logins of one panel have its URL
  SeriesStreams,  \* the series channel: a sequence of [src, id, blocked]
  MovieStreams,   \* the movie channel
  Trees,          \* [<<URL, series id>> -> the episode lists the panel publishes of it in its time]
  FileClients,    \* requests under way at a time
  SlotLimit,      \* MaxConnectionsToApp
  RemoteFileRetries,
  CacheEnabled,   \* Config.CacheEnabled
  MaxFileOps,     \* bound: changes from outside
  MaxFileRequests,\* bound: requests started
  NoTree          \* no payload stored

Series == DOMAIN Trees
Streams == [src : STRING, id : STRING, blocked : BOOLEAN]

ASSUME SeriesAssumption ==
  /\ MaxConnections \in [Providers -> Nat] /\ SlotLimit \in Nat /\ RemoteFileRetries \in Nat
  /\ IsFiniteSet(FileClients) /\ MaxFileOps \in Nat /\ MaxFileRequests \in Nat
  /\ Url \in [Providers -> Urls]
  /\ Series \subseteq Urls \X STRING /\ Trees \in [Series -> Seq(Seq([num : Nat, id : STRING])) \ {<<>>}]
  /\ SeriesStreams \in Seq(Streams) /\ MovieStreams \in Seq(Streams)
  /\ \A i \in DOMAIN SeriesStreams : SeriesStreams[i].id # "" =>
       SeriesStreams[i].src \in Providers /\ <<Url[SeriesStreams[i].src], SeriesStreams[i].id>> \in Series
  /\ \A i \in DOMAIN MovieStreams : MovieStreams[i].src \in Providers

VARIABLES
  upstream,       \* [Series -> the place in Trees of its present list]
  dead,           \* kp_dead_streams: {<<channel, stream>>}
  preferred,      \* [channel -> PreferredStreamIndex]
  conns,          \* [Providers -> ActiveConns]
  slots,          \* globalClientSemaphore
  mapped,         \* kp_series_episodes: [Urls -> [episode -> its upstream id and the series it is of]]
  merged, aged,   \* kp_series_info: the payload and whether its TTL has passed
  fileSessions,   \* {<<client, provider>>}
  file,           \* [FileClients -> request record]
  relisted,       \* history: a provider's list or the configuration changed
  fileOps, filesStarted

tableVars == <<mapped, merged, aged>>
fileBounds == <<fileOps, filesStarted>>
fileVars == <<upstream, dead, preferred, conns, slots, mapped, merged, aged, fileSessions, file, relisted,
              fileOps, filesStarted>>

NoMapping == [e \in {} |-> ""]
NoFile == [pc |-> "idle", kind |-> "", ep |-> 0, todo |-> <<>>, cur |-> 0, tries |-> 0, asked |-> 0,
           known |-> {}, got |-> <<>>, cached |-> NoTree, tried |-> {}, holds |-> FALSE, reply |-> ""]

StreamsOf(ch) == IF ch = "series" THEN SeriesStreams ELSE MovieStreams
channelOf(kind) == IF kind = "movie" THEN "movie" ELSE "series"
TreeOf(x) == Trees[x][upstream[x]]

-----------------------------------------------------------------------------
(***************************************************************************)
(* A provider's list is a sequence of [num, id]; num is 0 when it is no    *)
(* number.  Episodes without an id are passed over and not counted.        *)
(***************************************************************************)
numbered(tree) ==
  LET kept == SelectSeq(tree, LAMBDA e : e.id # "")
  IN [i \in DOMAIN kept |-> [ep |-> IF kept[i].num = 0 THEN i ELSE kept[i].num, up |-> kept[i].id]]
Numbers(eps) == {eps[i].ep : i \in DOMAIN eps}

\* A later episode of the same number replaces the row, ON CONFLICT(episode_id, source_url).
mappingsOf(x, tree) ==
  LET eps == numbered(tree)
      row(n) == CHOOSE i \in DOMAIN eps : eps[i].ep = n /\ \A j \in DOMAIN eps : eps[j].ep = n => j <= i
  IN [n \in Numbers(eps) |-> [up |-> eps[row(n)].up, of |-> x]]

\* In the tree the first of a number stays.
listedOf(tree) ==
  LET eps == numbered(tree) IN
    [n \in Numbers(eps) |-> eps[CHOOSE i \in DOMAIN eps :
        eps[i].ep = n /\ \A j \in DOMAIN eps : eps[j].ep = n => i <= j].up]

entriesOf(g) == [n \in DOMAIN listedOf(g.tree) |-> [by |-> g.of, up |-> listedOf(g.tree)[n]]]

\* Provider by provider, an episode already seen is passed over.
orElse(f, g) == [n \in DOMAIN f \cup DOMAIN g |-> IF n \in DOMAIN f THEN f[n] ELSE g[n]]
mergeLast(got) ==
  LET seen[k \in 0..Len(got)] == IF k = 0 THEN NoMapping ELSE orElse(entriesOf(got[k]), seen[k - 1])
  IN seen[Len(got)]
mergeTrees(got) ==
  LET seen[k \in 0..Len(got)] == IF k = 0 THEN NoMapping ELSE orElse(seen[k - 1], entriesOf(got[k]))
  IN seen[Len(got)]

\* SetSeriesEpisodes: the rows of the URL and the series id are deleted, and the new ones
\* take the place of any row of the URL with their episode, another series' too, in one
\* transaction; a list without episodes is not stored at all.
rowsBeside(x) == {n \in DOMAIN mapped[x[1]] : mapped[x[1]][n].of # x}
unseenRows(x, tree) ==
  LET seen == UNION {DOMAIN mapped[u] : u \in Urls \ {x[1]}}
      new == [n \in DOMAIN mappingsOf(x, tree) \ seen |-> mappingsOf(x, tree)[n]]
  IN IF new = NoMapping THEN mapped ELSE [mapped EXCEPT ![x[1]] = orElse(new, [n \in rowsBeside(x) |-> @[n]])]
addRows(x, tree) == [mapped EXCEPT ![x[1]] = orElse(mappingsOf(x, tree), @)]
SetSeriesEpisodes(x, tree) ==
  IF mappingsOf(x, tree) = NoMapping THEN mapped
  ELSE [mapped EXCEPT ![x[1]] = orElse(mappingsOf(x, tree), [n \in rowsBeside(x) |-> @[n]])]

\* The elements of s that are in T, in their order: SelectSeq, which the provers have no definition of.
Only(s, T) ==
  LET upTo[n \in 0..Len(s)] ==
        IF n = 0 THEN <<>> ELSE IF s[n] \in T THEN Append(upTo[n - 1], s[n]) ELSE upTo[n - 1]
  IN upTo[Len(s)]

\* A channel's streams from the preferred one on, without the dead and the blocked.
rotatedShort(ch) ==
  LET total == Len(StreamsOf(ch)) IN [i \in 1..(total - 1) |-> ((preferred[ch] + i - 1) % total) + 1]
Rotated(ch) ==
  LET total == Len(StreamsOf(ch)) IN [i \in 1..total |-> ((preferred[ch] + i - 1) % total) + 1]
alive(ch) == {i \in DOMAIN StreamsOf(ch) : <<ch, i>> \notin dead /\ ~StreamsOf(ch)[i].blocked}
candidates(ch) == Only(Rotated(ch), alive(ch))

\* Only sources that can be asked have an id.
remoteSeriesOrigins == Only(candidates("series"), {i \in DOMAIN SeriesStreams : SeriesStreams[i].id # ""})

\* What the playlist says of the series, however old the payload is.
writeSeriesEpisodeEntries ==
  IF remoteSeriesOrigins = <<>> \/ merged = NoTree THEN {} ELSE DOMAIN merged

-----------------------------------------------------------------------------
SeriesInit ==
  /\ upstream = [x \in Series |-> 1]
  /\ dead = {}
  /\ preferred = [ch \in {"series", "movie"} |-> 0]
  /\ conns = [p \in Providers |-> 0]
  /\ slots = 0
  /\ mapped = [u \in Urls |-> NoMapping]
  /\ merged = NoTree /\ aged = FALSE
  /\ fileSessions = {}
  /\ file = [r \in FileClients |-> NoFile]
  /\ relisted = FALSE
  /\ fileOps = 0 /\ filesStarted = 0

(***************************************************************************)
(* From outside: a provider changes its list, time passes, an administrator*)
(* revives a stream, prefers another, or saves the configuration.          *)
(***************************************************************************)
Outside ==
  /\ fileOps < MaxFileOps /\ fileOps' = fileOps + 1
  /\ UNCHANGED <<conns, slots, fileSessions, file, filesStarted>>

ProviderRelists(x) ==
  /\ Outside
  /\ upstream[x] < Len(Trees[x])
  /\ upstream' = [upstream EXCEPT ![x] = @ + 1]
  /\ relisted' = TRUE
  /\ UNCHANGED <<dead, preferred, tableVars>>

PayloadAges ==
  /\ Outside
  /\ merged # NoTree /\ ~aged
  /\ aged' = TRUE
  /\ UNCHANGED <<upstream, dead, preferred, mapped, merged, relisted>>

StreamRevived(x) ==
  /\ Outside
  /\ dead' = dead \ {x}
  /\ UNCHANGED <<upstream, preferred, tableVars, relisted>>

StreamPreferred(ch, i) ==
  /\ Outside
  /\ preferred[ch] # i
  /\ preferred' = [preferred EXCEPT ![ch] = i]
  /\ UNCHANGED <<upstream, dead, tableVars, relisted>>

\* The merged payload is filed under no source's URL: every save removes it.
PruneSeriesInfo(keep) ==
  /\ Outside
  /\ mapped' = [u \in Urls |-> IF u \in keep THEN mapped[u] ELSE NoMapping]
  /\ merged' = NoTree /\ aged' = FALSE
  /\ relisted' = TRUE
  /\ UNCHANGED <<upstream, dead, preferred>>

(***************************************************************************)
(* Requests.                                                               *)
(***************************************************************************)
At(r, pc) == file[r].pc = pc /\ UNCHANGED <<upstream, preferred, relisted, fileOps>>
Goes(r, pc) == file' = [file EXCEPT ![r].pc = pc]
StreamOf(q) == StreamsOf(channelOf(q.kind))[q.cur]
Source(r) == StreamOf(file[r]).src
SeriesOf(q) == <<Url[StreamOf(q).src], StreamOf(q).id>>

\* Every way out of a delivery gives the client slot back.
Ends(r, reply) ==
  /\ slots' = IF file[r].holds THEN slots - 1 ELSE slots
  /\ file' = [file EXCEPT ![r] = [NoFile EXCEPT !.reply = reply]]

FileStarts(r) ==
  /\ At(r, "idle")
  /\ filesStarted < MaxFileRequests /\ filesStarted' = filesStarted + 1
  /\ UNCHANGED <<dead, conns, tableVars, fileSessions>>

\* GetSeriesInfo: a TTL of zero means the payload never gets old.
freshPayload == merged # NoTree /\ (~CacheEnabled \/ ~aged)

buildRemoteSeriesInfo(r) ==
  /\ FileStarts(r)
  /\ UNCHANGED slots
  /\ file' = [file EXCEPT ![r] =
       CASE remoteSeriesOrigins = <<>> -> [NoFile EXCEPT !.reply = "not found"]
         [] remoteSeriesOrigins # <<>> /\ freshPayload -> [NoFile EXCEPT !.reply = "cached"]
         [] OTHER -> [NoFile EXCEPT !.pc = "origin", !.kind = "info", !.todo = remoteSeriesOrigins, !.cached = merged]]

\* Whose mappings an episode has.
GetSeriesEpisodeSources(ep) == {u \in Urls : ep \in DOMAIN mapped[u]}

\* The slot is taken before the episode is known; without a mapping it is given back.
\* The mappings are read once.
serveSeriesEpisode(r, ep) ==
  /\ FileStarts(r)
  /\ LET known == GetSeriesEpisodeSources(ep)
         new == [NoFile EXCEPT !.kind = "episode", !.ep = ep, !.holds = TRUE, !.known = known]
     IN \/ slots >= SlotLimit /\ file' = [file EXCEPT ![r] = [NoFile EXCEPT !.reply = "at capacity"]] /\ UNCHANGED slots
        \/ slots < SlotLimit /\ known = {} /\ file' = [file EXCEPT ![r] = [NoFile EXCEPT !.reply = "not found"]] /\ UNCHANGED slots
        \/ /\ slots < SlotLimit /\ known # {}
           /\ slots' = slots + 1
           /\ file' = [file EXCEPT ![r] =
                IF remoteSeriesOrigins = <<>> THEN [new EXCEPT !.pc = "fallback"]
                ELSE [new EXCEPT !.pc = "origin", !.todo = remoteSeriesOrigins]]

serveVODChannel(r) ==
  /\ FileStarts(r)
  /\ \/ slots >= SlotLimit /\ file' = [file EXCEPT ![r] = [NoFile EXCEPT !.reply = "at capacity"]] /\ UNCHANGED slots
     \/ /\ slots < SlotLimit
        /\ slots' = slots + 1
        /\ file' = [file EXCEPT ![r] = [NoFile EXCEPT !.pc = "origin", !.kind = "movie", !.holds = TRUE,
                                                     !.todo = candidates("movie")]]

\* The next candidate: a known mapping or a movie is tried, otherwise the provider is asked.
NextOrigin(r) ==
  LET q == file[r]
      i == Head(q.todo)
      p == StreamsOf(channelOf(q.kind))[i].src
      taken == [q EXCEPT !.cur = i, !.todo = Tail(@), !.tries = 0, !.asked = 0]
      mine == q.kind = "movie" \/ (q.kind = "episode" /\ Url[p] \in q.known)
  IN /\ At(r, "origin")
     /\ \/ /\ q.todo = <<>>
           /\ Goes(r, IF q.kind = "info" THEN "render" ELSE "fallback")
           /\ UNCHANGED fileSessions
        \/ /\ q.todo # <<>> /\ mine
           /\ file' = [file EXCEPT ![r] = [taken EXCEPT !.pc = "try"]]
           /\ fileSessions' = fileSessions \cup {<<r, p>>}
        \/ /\ q.todo # <<>> /\ ~mine
           /\ file' = [file EXCEPT ![r] = [taken EXCEPT !.pc = "check"]]
           /\ UNCHANGED fileSessions
     /\ UNCHANGED <<dead, conns, slots, tableVars, filesStarted>>

\* FetchXCSeriesInfo: the ceiling is read, then the counter is raised.
atLimit(p) == conns[p] >= MaxConnections[p]

FetchXCSeriesInfo(r) ==
  LET q == file[r]
      p == Source(r)
  IN /\ \/ /\ At(r, "check")
           /\ Goes(r, IF atLimit(p) THEN "missed" ELSE "add")
           /\ UNCHANGED conns
        \/ /\ At(r, "add")
           /\ conns' = [conns EXCEPT ![p] = @ + 1]
           /\ Goes(r, "fetch")
        \/ /\ At(r, "fetch")                  \* no answer, an error, or a list that cannot be read
           /\ conns' = [conns EXCEPT ![p] = @ - 1]
           /\ Goes(r, "missed")
        \/ /\ At(r, "fetch")
           /\ conns' = [conns EXCEPT ![p] = @ - 1]
           /\ file' = [file EXCEPT ![r].pc = "persist", ![r].got = Append(@, [of |-> SeriesOf(q), tree |-> TreeOf(SeriesOf(q))])]
     /\ UNCHANGED <<dead, slots, tableVars, fileSessions, filesStarted>>

\* The provider does not carry the episode, or did not say.
OriginMissed(r) ==
  /\ At(r, "missed")
  /\ file' = [file EXCEPT ![r].pc = "origin", ![r].tried = @ \cup {file[r].cur}]
  /\ UNCHANGED <<dead, conns, slots, tableVars, fileSessions, filesStarted>>

\* The whole list is stored, whether one episode was asked for or all of them.
Persist(r) ==
  LET q == file[r]
      p == Source(r)
      tree == q.got[Len(q.got)].tree
      carried == q.kind = "episode" /\ q.ep \in Numbers(numbered(tree))
  IN /\ At(r, "persist")
     /\ mapped' = SetSeriesEpisodes(SeriesOf(q), tree)
     /\ Goes(r, CASE q.kind = "info" -> "origin" [] carried -> "try" [] OTHER -> "missed")
     /\ fileSessions' = IF carried THEN fileSessions \cup {<<r, p>>} ELSE fileSessions
     /\ UNCHANGED <<dead, conns, slots, merged, aged, filesStarted>>

\* The tree is rendered and stored; with no tree an old payload is better than none.
RenderInfo(r) ==
  LET tree == mergeTrees(file[r].got) IN
  /\ At(r, "render")
  /\ IF tree = NoMapping
       THEN /\ Ends(r, IF file[r].cached = NoTree THEN "none" ELSE "stale")
            /\ UNCHANGED <<merged, aged>>
       ELSE /\ Ends(r, "built")
            /\ merged' = tree /\ aged' = FALSE
  /\ UNCHANGED <<dead, conns, mapped, fileSessions, filesStarted>>

(***************************************************************************)
(* attemptRemoteFile and the loop around it.                               *)
(***************************************************************************)
retriesShort(tries) == tries < RemoteFileRetries
retriesLeft(tries) == tries <= RemoteFileRetries

EndFileSession(r) == fileSessions' = {s \in fileSessions : s[1] # r}

\* A failed attempt: the client has left, there is another one, or the stream is marked.
AttemptFailed(r, asked) ==
  LET q == [file[r] EXCEPT !.tries = @ + 1, !.asked = asked] IN
    \/ Ends(r, "left") /\ EndFileSession(r)
    \/ retriesLeft(q.tries) /\ file' = [file EXCEPT ![r] = [q EXCEPT !.pc = "try"]] /\ UNCHANGED <<slots, fileSessions>>
    \/ ~retriesLeft(q.tries) /\ file' = [file EXCEPT ![r] = [q EXCEPT !.pc = "mark"]] /\ EndFileSession(r) /\ UNCHANGED slots

keepConn(r) == conns
giveConnBack(r) == [conns EXCEPT ![Source(r)] = @ - 1]

attemptRemoteFile(r) ==
  LET q == file[r] IN
  /\ \/ At(r, "try") /\ atLimit(Source(r)) /\ AttemptFailed(r, q.asked) /\ UNCHANGED conns
     \/ At(r, "try") /\ ~atLimit(Source(r)) /\ Goes(r, "tryadd") /\ UNCHANGED <<conns, slots, fileSessions>>
     \/ /\ At(r, "tryadd")
        /\ conns' = [conns EXCEPT ![Source(r)] = @ + 1]
        /\ Goes(r, "asked")
        /\ UNCHANGED <<slots, fileSessions>>
     \/ At(r, "asked") /\ conns' = giveConnBack(r) /\ AttemptFailed(r, q.asked + 1)
     \/ At(r, "asked") /\ Goes(r, "streaming") /\ UNCHANGED <<conns, slots, fileSessions>>
     \/ At(r, "streaming") /\ conns' = giveConnBack(r) /\ EndFileSession(r) /\ Ends(r, "played")
  /\ UNCHANGED <<dead, tableVars, filesStarted>>

MarkStreamDeadByHash(r) ==
  /\ At(r, "mark")
  /\ dead' = dead \cup {<<channelOf(file[r].kind), file[r].cur>>}
  /\ file' = [file EXCEPT ![r].pc = "origin", ![r].tried = @ \cup {file[r].cur}]
  /\ UNCHANGED <<conns, slots, tableVars, fileSessions, filesStarted>>

\* The clip is looped until the client leaves.
serveFallbackVideo(r) ==
  /\ At(r, "fallback")
  /\ Ends(r, "fallback")
  /\ UNCHANGED <<dead, conns, tableVars, fileSessions, filesStarted>>

Episodes == UNION {UNION {Numbers(numbered(Trees[x][i])) : i \in DOMAIN Trees[x]} : x \in Series}

SeriesNext ==
  \/ \E x \in Series : ProviderRelists(x)
  \/ PayloadAges
  \/ \E x \in dead : StreamRevived(x)
  \/ \E ch \in {"series", "movie"} : \E i \in 0..(Len(StreamsOf(ch)) - 1) : StreamPreferred(ch, i)
  \/ \E keep \in SUBSET Urls : PruneSeriesInfo(keep)
  \/ \E r \in FileClients :
       \/ buildRemoteSeriesInfo(r)
       \/ \E ep \in Episodes : serveSeriesEpisode(r, ep)
       \/ serveVODChannel(r)
       \/ NextOrigin(r)
       \/ FetchXCSeriesInfo(r)
       \/ OriginMissed(r)
       \/ Persist(r)
       \/ RenderInfo(r)
       \/ attemptRemoteFile(r)
       \/ MarkStreamDeadByHash(r)
       \/ serveFallbackVideo(r)

SeriesSpec == SeriesInit /\ [][SeriesNext]_fileVars

-----------------------------------------------------------------------------
Using(p) == {r \in FileClients : file[r].pc \in {"fetch", "asked", "streaming"} /\ Source(r) = p}
Trying == {r \in FileClients : file[r].pc \in {"try", "tryadd", "asked", "streaming"}}

\* serveSeriesEpisode, serveVODChannel, FetchXCSeriesInfo: on every way through them a
\* provider's counter, the application's slots and the sessions shown are those of the
\* requests that hold one.
FilesTypeOK ==
  /\ \A p \in Providers : conns[p] = Cardinality(Using(p))
  /\ \A u \in Urls : DOMAIN mapped[u] \subseteq Episodes
  /\ slots = Cardinality({r \in FileClients : file[r].holds}) /\ slots <= SlotLimit
  /\ fileSessions = {<<r, Source(r)>> : r \in Trying}
  /\ merged # NoTree => DOMAIN merged \subseteq Episodes

\* SetSeriesEpisodes: the rows stored for a series of a provider are out of one list of
\* it, never a mixture of an old one and a new one.
OneListPerSeries ==
  \A x \in Series : \E i \in 1..upstream[x] : \A n \in DOMAIN mapped[x[1]] :
    mapped[x[1]][n].of = x => n \in Numbers(numbered(Trees[x][i])) /\ mapped[x[1]][n] = mappingsOf(x, Trees[x][i])[n]

\* buildRemoteSeriesInfo: as long as the providers keep their lists, an episode offered
\* resolves on every provider that lists it in a series that had a part in the tree,
\* though another series of that provider is stored over it.
OfferedResolves ==
  ~relisted /\ merged # NoTree => \A n \in DOMAIN merged :
    \A x \in Series : (\E m \in DOMAIN merged : merged[m].by = x) /\ n \in Numbers(numbered(TreeOf(x))) =>
      n \in DOMAIN mapped[x[1]]

\* buildRemoteSeriesInfo: "first provider to carry a season and episode winning", and
\* none that a provider answered with left out.
TreeIsTheUnion ==
  \A r \in FileClients : file[r].pc = "render" =>
    LET got == file[r].got
        tree == mergeTrees(got)
    IN \A k \in DOMAIN got : \A n \in Numbers(numbered(got[k].tree)) :
         /\ n \in DOMAIN tree
         /\ \E j \in 1..k : tree[n].by = got[j].of

\* The walk of serveSeriesEpisode and serveVODChannel: the offline clip is shown only
\* when every candidate has been tried, or was refused, dead or blocked to begin with.
FallbackIsTheLast ==
  \A r \in FileClients : file[r].pc = "fallback" =>
    \A i \in DOMAIN StreamsOf(channelOf(file[r].kind)) :
      LET s == StreamsOf(channelOf(file[r].kind))[i] IN
        \/ i \in file[r].tried \/ s.blocked \/ s.id = ""
        \/ <<channelOf(file[r].kind), i>> \in dead \/ fileOps > 0

\* "Each candidate is retried once ... before the provider is marked dead."
MarkedAfterRetries ==
  [][\A x \in dead' \ dead : \E r \in FileClients :
       file[r].pc = "mark" /\ x = <<channelOf(file[r].kind), file[r].cur>> /\ file[r].tries = RemoteFileRetries + 1]_fileVars

\* Every episode offered can be played: the mappings of a series are out of one list, the
\* merged tree is the union of the answers with something to play behind each entry, and the clip
\* is sent only when no provider is left (series info and streamEpisode).
EpisodesInv == FilesTypeOK /\ OneListPerSeries /\ OfferedResolves /\ TreeIsTheUnion /\ FallbackIsTheLast

-----------------------------------------------------------------------------
(***************************************************************************)
(* What comments say and the code does not keep (see README.md).           *)
(***************************************************************************)
\* "an episode URL hands out a single-use CDN token, so a stale token fails on first
\* contact": a provider is marked dead for what it answered.
DeadForAnAnswer == \A r \in FileClients : file[r].pc = "mark" => file[r].asked > 0

\* FetchXCSeriesInfo, "honoring that source's ... connection ceiling".
CeilingKept == \A p \in Providers : conns[p] <= MaxConnections[p]

\* "The merged payload is cached for the configured cache duration": not longer.
OldPayloadIsRefreshed ==
  [][\A r \in FileClients : file'[r].reply = "cached" /\ filesStarted' # filesStarted /\ file[r].reply # "cached" =>
       ~aged]_fileVars

\* PruneSeriesInfo "removes cached series payloads ... belonging to sources that are no
\* longer configured": a save that keeps every source keeps the payload.
SaveKeepsPayload == [][PruneSeriesInfo(Urls) => merged' = merged]_fileVars

\* The episode played for an entry is the one the entry describes.
PlaysWhatIsListed ==
  ~relisted /\ merged # NoTree => \A n \in DOMAIN merged : mapped[merged[n].by[1]][n].up = merged[n].up

\* SetSeriesEpisodes: an episode on offer in the stored tree has a mapping to play.
OfferedIsMapped ==
  \A n \in writeSeriesEpisodeEntries : GetSeriesEpisodeSources(n) # {}

\* SetSeriesEpisodes "replaces the stored episode mappings for a source's series with the
\* supplied set, so episodes the provider has dropped stop resolving": what resolves on a
\* provider is in the list just stored, or in that of a series that can still be asked for.
DroppedStopsResolving ==
  [][\A r \in FileClients : Persist(r) =>
       LET x == SeriesOf(file[r]) IN
         \A n \in DOMAIN mapped'[x[1]] : mapped'[x[1]][n].of # x => \E i \in alive("series") :
           /\ SeriesStreams[i].id # ""
           /\ <<Url[SeriesStreams[i].src], SeriesStreams[i].id>> = mapped'[x[1]][n].of]_fileVars

\* The same sentence: what a series of the provider still lists goes on resolving.
ListedStaysResolving ==
  [][\A r \in FileClients : Persist(r) =>
       \A x \in Series : x[1] = SeriesOf(file[r])[1] =>
         \A n \in Numbers(numbered(TreeOf(x))) \cap DOMAIN mapped[x[1]] : n \in DOMAIN mapped'[x[1]]]_fileVars
=============================================================================
