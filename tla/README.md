# A TLA+ model of kptv-proxy

kptv-proxy imports IPTV sources (M3U8, Xtream Codes, Schedules Direct, local
files), filters and merges them into channels, restreams each channel to any
number of clients over a single upstream connection, and offers the result as
playlists, a guide and an Xtream Codes service. This directory holds TLA+ modules
translated from its Go code, the TLC configurations that check them on small
instances, and TLAPS proofs that hold for every instance. `PROJECT.json` is the
machine-readable index: components, runs, mutants, the map from definitions to
source lines, findings, hazards and theorems.

    tlc -workers 2 -config MCRestreamer.cfg MCRestreamer   # one run
    tlapm RestreamerProofs.tla                             # one proof module

## The system

| part | state it keeps | operations | meets others through |
|---|---|---|---|
| restreamer (`work/restream/restream.go`, `work/types/types.go`) | client map and count, Running, Switching, ManualSwitch, the installed context, the buffer, the source index | AddClient, RemoveClient, stopStream, Stream, ForceStreamSwitch, DistributeToClients, drainClient | HTTP handlers, watcher, cleanup ticker |
| ring buffer (`work/buffer/buffer.go`) | storage, write position, destroyed flag | Write, PeekRecentData, Reset, Destroy | Stream writes, statistics peek, stop and cleanup destroy |
| chunk pool (`work/types/types.go`) | reference counts | NewStreamChunk, Retain, Release | feeders and client goroutines |
| HLS playback (`work/restream/hls.go`) | segment tracker, error and stall counters | streamHLSSegmentsFrom | the source's moving playlist |
| watchers (`work/watcher/watcher.go`) | registry, semaphore, enabled, stop channel; per watcher failure counts | Start, Stop, StartWatching, cleanupRoutine, Watch, forceStreamRestart | handlers, admin API, restart loop, restreamer |
| import (`work/proxy/stream.go`, `importctl.go`) | channel map, generation, playlist cache, inventory, connection counters, refresh loops | ImportStreams, TriggerImport, the refresh ticker, graceful restart | configuration, players, outputs |
| configuration (`work/config`, `work/admin`, `work/db`) | SQLite tables, the cached object, the live pointer | load, save, publish, migrate, toggle, profile edits | every request, import, restart |
| filter (`work/filter`, `work/config/filterrules.go`) | compiled filters per URL, the preview slot | compile, match, deduplicate, report, preview | import, admin API |
| guide (`work/proxy/epg.go`, `work/epgindex`) | the guide file, channel and programme indexes, mappings, temporary files | fetch, merge, publish, look up, reload | sources, Schedules Direct, clients |
| Schedules Direct (`work/schedulesdirect`) | the token table with its login attempts | authenticate, lineups, schedules, programmes | the guide's merge, discovery |
| local library (`work/localscan`, `work/admin/localsources.go`) | the tables of sources and media, the export snapshot and its index | scan, edit, wipe, export | outputs |
| outputs (`work/handlers`) | account lists with slot counters, the stream-id index, merged series payloads, episode mappings | XC lists and lookups, slots, series and movie requests | clients, providers |

Everything is goroutines that share state without one lock around it. Decisions
are taken on a value read a step earlier (the client count, a registry entry, the
live configuration, a connection counter, the generation of an index), objects
are replaced while somebody holds the old one (contexts, channels, account lists,
snapshots), two steps that belong together are seen apart (delete and insert,
publish and fill, commit and announce), and several goroutines may give back the
same thing. The properties that matter are therefore ownership and accounting
(who may decrement, release, close, start), agreement between a store and what is
derived from it (cache, index, snapshot, preview), what a reader or client gets
to see, and that goroutines end when nobody needs them.

## Modules

| module | models | abstract or composed from |
|---|---|---|
| `RingBuffer` | `RingBuffer.Write/Reset/Destroy/PeekRecentData` at the granularity of its lock | |
| `Restreamer`, `RestreamerProofs` | the life of one restreamer: clients, Stream goroutines, stopStream, watcher restarts, operator switches, the cleanup ticker | |
| `RecentSegments` | abstract: a memory of the most recent segments | |
| `SegmentTracker` | the circular buffer and its lookup map | implements `RecentSegments` |
| `HLSStream` | the playback loop against a live playlist | extends `SegmentTracker` |
| `ChunkFanout`, `ChunkFanoutProofs` | DistributeToClients, drainClient, the chunk pool | |
| `WatcherManager`, `WatcherManagerProofs` | the registry of watchers, the semaphore, Start and Stop, the cleanup routine | |
| `StreamLoop`, `StreamLoopProofs` | Stream's rotation over the sources: attempts, failures, dead and blocked streams, the clip, switches | |
| `Import`, `ImportProofs` | an import from its first fetch to its publication, the refresh loops, restarts, players | |
| `ConfigStore` | the configuration in the tables, in the cache and in the live pointer | |
| `Filter` | rules, stages, deduplication, report, preview and its pages, the filter cache | |
| `GuideFetch` | the download of XMLTV documents through two bounded channels | |
| `Guide` | the merge and publication of the guide, its indexes and lookups | |
| `SchedulesDirect` | login throttle, tokens, lineups, batches, programmes | |
| `LocalLibrary` | scans, source edits, the exported snapshot | |
| `XCOutput` | Xtream Codes accounts and slots, the stream-id index, lists and categories | |
| `SharedStateProofs` | the proofs about `RingBuffer`, `LocalLibrary`, `XCOutput` and `SeriesFiles` | EXTENDS them |
| `DownloadProofs` | the proofs about `SegmentTracker`, `HLSStream` and `GuideFetch` | EXTENDS them |
| `ConfigurationProofs` | the proofs about `ConfigStore`, `SchedulesDirect` and `Guide` | EXTENDS them |
| `SeriesFiles` | series info over several providers, episode and movie requests | |
| `MCConfiguration` | one run over `ConfigStore`, `Filter`, `GuideFetch`, `Guide`, `SchedulesDirect` | EXTENDS their MC modules |
| `MCServices` | one run over `LocalLibrary`, `XCOutput`, `SeriesFiles` | EXTENDS their MC modules |

The other `MC*` modules add the symmetry set or small definitions for TLC. In each
module an operator commented "Fault" or "Mutant", or named after another with a suffix, is a plausible bug used
to test a property; no specification uses it. An invariant that ends in `Inv` (and
`StoredIsRead`, `ProvidersAreKept`, `CommitIsWhole` and their like) is a conjunction
of named parts, each stated and commented on its own.

`MCConfiguration` and `MCServices` put components side by side that share no
state in the model: an initial choice says whose behaviour it is, and the others
rest. Each of these components also has a configuration of its own
(`MCConfigStore.cfg`, `MCFilter.cfg`, `MCGuide.cfg`, `MCSchedulesDirect.cfg`,
`MCLocalLibrary.cfg`, `MCXCOutput.cfg`, `MCSeriesFiles.cfg`) with the same or a larger
instance, for work on that component alone.

### How state and actions correspond to the code

**RingBuffer.** A goroutine tests the destroyed flag outside the lock
(`WriteEnter`, `PeekEnter`, ...), waits for the lock, tests it again, and copies.
`Write` is two steps under the lock, the copy and the advance of the position, so
that a reader that did not honour the lock would see the difference. Bytes are
numbered in the order they are written; `stream` is the history of all of them,
and `PeekIsRecent` compares what a peek returns with its end.

**Restreamer.** A connection goes through `AddStore`, `AddCount`, `AddStart` and
later `RemoveDelete`, `RemoveDecrement`, `RemoveZero`, `StopLock` ... `StopRenew`;
each is one access that other goroutines can observe. Contexts are numbered: `ctx`
is the installed one, `cancelled` the cancelled ones, `req[s]` the one a source
connection was opened under. A Stream goroutine's `pc` follows the loop of
`Stream`, and `depth` counts the nested calls that the fallback video makes. Which
source is attempted is `StreamLoop`'s subject and a nondeterministic choice here.
Timeouts are abstracted: a client may be stale, and a restreamer idle, at any
moment.

**SegmentTracker, HLSStream.** `MarkProcessed` is the code's four assignments.
The loop works through a copy of the playlist (`last`, `cur`) while the source
moves on (`oldest`, `newest`). A segment's bytes go to the clients as they arrive, and
an attempt may fail before the first of them or after (`FailsAfter`); the segment is not
marked, and the next refresh sends it again from its first byte. `sent` is the history of
the attempts that sent bytes, each with what `streamSegment` reported. A context that
ends in the pacing sleep makes it report success with the rest unsent, so a success is
the report and not the last byte.

**ChunkFanout.** A chunk is a pooled object with a count and the identity of the
data it was filled with. A visit of `DistributeToClients` takes the reference
first, then makes up to three non-blocking channel operations, each an action.
A Range over the concurrent map visits a client if it is in the map when its turn
comes, and keeps the client it got even if it is removed a moment later.

**WatcherManager.** Each call of `StartWatching` is an actor and also the watcher
it makes. `TakeOut` is LoadAndDelete with the watcher's cancellation, `Release` the
receive from the semaphore that the caller then owes. `lost` records watchers that
an unconditional Store overwrote. A routine's `select` reads the field `stopChan`
when it is evaluated (`CleanSelect`), and a second close of a channel panics
(`StopClose`). A watcher holds the restreamer object it was given; `orphaned` are
those whose object the channel has dropped.

**StreamLoop.** One `Stream` goroutine's locals (`idx`, `taken`, `wasManual`,
`attempts`, `consec`) and the fields it shares (`cur`, `pref`, `manual`,
`switching`). `taken` is the stream an attempt opened, which need not be the one at
`idx` when the attempt ends. ForceStreamSwitch, the admin handlers and the
watcher's failover are actors whose accesses interleave with the loop. A stream in
`Direct` is one response, whose read is cut by its context; the others are HLS,
whose loop asks for the installed context between segments. `faults`, `tried`,
`chosen` and `sorted` are history for the properties. ForceStreamSwitch sets its flag
and the indexes in two steps, and the loop reads and clears the flag in two more; what
becomes of a switch depends on where the loop is meanwhile. `chosen` is set by
`ForceIndex` if the stream was playing and the flag is still up, that is if flag and
index were both set before the attempt came to its end, and it is what `ChoiceHonoured` and
`ChargedForFaults` speak of. In the other windows (the attempt ends between the two
writes, or the flag is set after `Judge` has read it and lost in `Clear`) the code does
not keep the choice: `RotatesFromOwn` and `PlaysTheSelected` below are those promises
without the condition, and TLC violates them.

**Import.** A source is an entry of the list, an account; several accounts of one
provider have the same URL, which is what `failedSources`, the carry-forward and the
inventory are keyed by. A stream is the account whose credentials are in its own URL,
which stays, and the SourceConfig it points to, which a carry-forward moves to the last failed
account with that URL. So an account that was fetched also keeps what it had when
another one of its provider failed (`FetchedIsFresh` is violated), and a stream that was
fetched and carried forward too is one after the deduplication (`SortStreams`). Two entries
with the same URL and the same credentials, an M3U listed twice, are not told apart by
the code and are not in the model, and an account lists one stream of a name.
One run at a time, behind its mutex: fetches by workers that take and
return connections, the wait, the check of `sourceOK`, the carry-forward, the
entry-by-entry replacement of the map, the generation, the playlist cache and the
inventory are steps of their own. Players are `<<channel object, stream>>` with a
note whether they were counted. A refresh loop is a number in `loops`; the stop
signal is the one buffered token.

**ConfigStore.** Configuration objects are shared by pointer, so they live on a
heap that `cached` and `liveCfg` point into. `stored` is the tables; a save deletes
and inserts row by row. Requests of two administrators, the boot with its JSON
migration and a crash interleave; a team says which requests the administrators of
a behaviour make. A source posted with its secret masked gets the secret that the
tables hold for that very account, where its name and URL tell it or it is the only
account of its provider (`SecretKept`); of several, a renamed one is looked up by its
URL alone, and the first account's secret is stored for it (`SecretKeptRenamed`).

**Filter.** The stages of `filter.go` as operators over a small catalog, and the
actions that save sources and profiles, import, and preview a draft. A save tidies the
posted filters in place before it compares them with the stored ones: a default or a
rule that is refused is empty by then, as the code has assigned its helper's zero value. The compiled
filter is kept under the URL with the signature of its settings, and the preview
slot keeps one remembered catalog with its type stamps.

**GuideFetch, Guide.** `GuideFetch` reads documents of tokens in pieces the network
chooses and cuts elements from a window that keeps a tail; the reads, the two
bounded channels and the two drains are its actors. `Guide` starts where the
elements arrive: a refresh prepares its temporary files, asks its sources,
commits the indexes and renames the file, and several refreshes (the boot's, the background's, a client's) may be under way.

**SchedulesDirect.** A session goes through token, login, lineups, schedules,
programmes; time is an hour counter that only the throttle and the token's age
look at. A row of `tokenRows` is written before and after the login, and the
process may die in between.

**LocalLibrary.** A scan lists, compares, upserts and evicts in steps, by a row it was
given: the one read as it starts, or in `ScanAll` one of those read before the first
scan, which may have been edited, disabled or deleted since (`NextSource`). Any of its
statements may fail (`StatementFails`): without the cached entries it parses
everything, a failed upsert ends it, a failed eviction or count is logged and the scan
goes on to report success. An edit, a wipe and a delete of the source are
transactions followed by an announcement; the export snapshot and its index are
two pointers. What the code recovers to nil (`scanner.go:205`) takes a panic in a
parser, which are total functions of a path; no such file is modelled.

**XCOutput, SeriesFiles.** A request is an actor: it looks its account up, adds to
the counter, compares, takes back or plays and releases, or resolves a stream id
through the index and its generation. Ids are hashes of 31 bits, and channels, episodes and
files may share one: of the names with one id an index keeps whichever the walk of the
map meets last (`indexesOf`), of the files the last, and a channel goes before an
episode and an episode before a file (`Resolve`).
In `SeriesFiles` a request walks the providers that
have the episode, takes their connection and a proxy slot, and retries. A provider may
have several series in the channel, and two logins of one panel have its URL: rows are
deleted by URL and series id and replaced by URL and episode, so the rows of a provider
are in general of several series (`mapped[url][episode].of`). A request looks mappings
up in the snapshot it read when it began (`known`). A panel's listing is taken to be the same for
all its logins; the channel's streams do not change, and a series that a provider
renumbers is another stream.

## Runs

| run | instance | shows |
|---|---|---|
| `ring_buffer` | 2 goroutines, capacity 3, chunks up to twice the capacity | no copy touches released storage, peeks return the most recent bytes, Destroy always gets the lock |
| `restreamer` | 2 connections, 2 Stream goroutines, nesting 2, ticker, fair | the count is the map's size up to clients in flight and ticker evictions; Running is not left set; no start on a context that stopStream cancelled; with nobody connected every Stream goroutine ends |
| `restreamer_switch` | 2 connections, a watcher restart and an operator switch | Running stands for a Stream goroutine under switches as well |
| `hls` | window 3, tracker 3, 7 segments, 1 attempt cut part-way, fair | map and buffer agree and implement `RecentSegments`; a segment reported as sent is not sent again, only retries reorder, nothing is skipped but what was held back, a stalled source is given up |
| `fanout` | 2 feeders, 2 clients, queues of 1, 3 chunks, 3 reads | counts are exactly the holders; no duplicate, no reordering, no recycled data; the newest chunk is dropped only for another feeder's |
| `watchers` | 3 calls, 2 slots, 1 administrator, 1 routine, 2 starts | every slot has exactly one owner; no release blocks |
| `watchers_admins` | 1 call, 2 administrators, 2 starts, fair | under concurrent Start and Stop, a stopped watcher ends |
| `selection` | 2 streams, one of each kind, 2 acts of the operator, the watcher or the sources, fair | the clip comes after every stream had its turn; a fault is charged to a stream that had one; a switch whose flag and index are set before the playing stream ends is the next attempt; a stream killed while CurrentIndex names it and a switched direct one end |
| `import` | 3 accounts of 2 URLs, 2 names, limit 1, the first import and one more, 2 other acts, fair | the published channels, playlist, index and inventory are one run's, with what failed URLs had; no counter counts what nobody holds; a restart leaves a refresh loop; no blank commit; accepted runs end |
| `configuration` | see below | stored, cached and live configuration agree and keep the providers and secrets; the import serves what the stored rules select and the preview shows it; downloads arrive whole; the guide's file and indexes agree; accounts are fetched completely and logins keep their distance |
| `services` | see below | quiet scans are exact and snapshots follow the library, between announcements; slots and limits; lists, index and categories agree; the rows of a series are of one list and episodes offered can be played, and are marked dead only after their retries |
| `two_streams` | expected violation | leave and rejoin quickly: the old Stream goroutine continues on the new context beside the new one (`PROJECT.json` quotes the comment it contradicts) |

### Where the code does not keep what it says

The modules also define properties that state what a comment, a name or a sibling
line of the code promises, and that TLC finds violated. They are in no run. To see
one, take the configuration, replace its INVARIANT and PROPERTY lines by the
property (`P` marks those that go under PROPERTY), drop SYMMETRY, and change the
constants given. They are kept for whoever changes that code: the property is
ready to be added to the run.

| configuration | property | constants changed | source | what happens |
|---|---|---|---|---|
| `MCRestreamer.cfg` | `CountIsClients` | `SPECIFICATION Spec, MaxDepth = 1` | `types.go:89` | the cleanup ticker evicts a client and does not decrement ClientCount |
| `MCRestreamer.cfg` | `StartOnLiveContext` (P) | `SPECIFICATION Spec, MaxDepth = 1` | `restream.go:98` | the ticker cancels the context and leaves it installed; the next client starts Stream on it |
| `MCRestreamer.cfg` | `RegisteredIsFed` | `SPECIFICATION Spec, MaxDepth = 1, CleanupRuns = FALSE` | `restream.go:98` | a client joins after Stream decided to end and before its deferred function cleared Running |
| `MCRestreamer.cfg` | `SwitchingHasOwner` | `SPECIFICATION Spec, MaxDepth = 1, CleanupRuns = FALSE, MaxWatches = 1` | `types.go:101` | a watcher's restart that finds no clients leaves Switching set |
| `HLSStream.cfg` | `NoReplay` | `SPECIFICATION HLSSpec, Segment = {1, 2, 3, 4, 5, 6}, FirstWindows = {0, 1}, Grows = TRUE, LiveEdge = 1, MaxSeq = 6, TrackerSize = 2` | `hls.go:23` | a playlist that keeps its segments outgrows the tracker and is replayed |
| `HLSStream.cfg` | `NoDuplicates` | `SPECIFICATION HLSSpec` | `hls.go:188` | a segment that failed part-way is sent again from its first byte |
| `MCChunkFanout.cfg` | `GoneReleasesAll` | `Clients = {c1}, Feeders = {f1}` | `restream.go:1429` | a chunk is enqueued for a client whose goroutine is ending, or stays queued behind a failed write |
| `MCWatcherManager.cfg` | `OneWatcherPerChannel` | `Calls = {w1, w2}, MaxStarts = 1` | `watcher.go:169` | two handlers store a watcher each; the first is out of reach and keeps its slot |
| `MCWatcherManager.cfg` | `RegisteredIsActive` (P) | `SPECIFICATION FairSpec, Calls = {w1}, MaxStarts = 1, MaxWatchers = 1` | `watcher.go:245` | a watcher ends by itself but stays registered, so the channel is not watched again |
| `MCWatcherManager.cfg` | `StartIsClean` (P) | `Calls = {w1}, MaxWatchers = 1, Routines = {r1, r2}` | `watcher.go:148` | a watcher is stored after Stop has swept the registry |
| `MCWatcherManager.cfg` | `OneCleaner` | `Calls = {w1}, MaxWatchers = 1, Routines = {r1, r2}` | `watcher.go:104` | a cleanup routine misses its stop and goes on beside the new one |
| `MCWatcherManager.cfg` | `StopNeverPanics` | `Calls = {w1}, MaxWatchers = 1, Admins = {a1, a2}` | `watcher.go:104` | Stop between the two halves of Start closes a closed channel |
| `StreamLoop.cfg` | `BlameIsRight` | `SPECIFICATION Spec, Kinds = {"reorder"}, MaxActs = 1` | `restream.go:466` | the sources are sorted while one is attempted and the failure is charged to whichever is in its place |
| `StreamLoop.cfg` | `OutageEnds` (P) | `MaxFailures = 2, Kinds = {"outage"}, MaxActs = 1` | `restream.go:546` | the offline clip, once begun, plays for ever, whatever becomes of the sources |
| `StreamLoop.cfg` | `RevivedIsUsable` (P) | `SPECIFICATION Spec, Kinds = {"kill"}` | `admin/streams.go:193` | a revived stream keeps its Blocked flag and is skipped |
| `StreamLoop.cfg` | `SwitchReachesAll` (P) | `Kinds = {"select"}, MaxActs = 1` | `restream.go:1218` | an HLS loop asks for the installed context, which is already the new one, and plays on |
| `StreamLoop.cfg` | `RotatesFromOwn` (P) | `SPECIFICATION Spec, Kinds = {"select"}, MaxActs = 1` | `restream.go:442` | the index is set after the loop has read the flag, and the rotation writes over it |
| `StreamLoop.cfg` | `PlaysTheSelected` (P) | `Kinds = {"select"}, MaxActs = 1` | `restream.go:1216` | the flag is seen and cleared before the index is set: the stream before is tried again, and plays on |
| `StreamLoop.cfg` | `KilledEndsAlways` (P) | `Kinds = {"select", "kill"}` | `restream.go:989` | a switch leaves the old stream playing, and its kill is looked up at the index of the new one |
| `MCImport.cfg` | `CountsHolders` | `SPECIFICATION Spec, Loads = 0` | `proxy/stream.go:340` | zeroing the connection counters forgets the streams being played |
| `MCImport.cfg` | `LimitHeld` | `SPECIFICATION Spec, Loads = 0, MaxActs = 3` | `restream.go:633` | the limit is read in one step and the counter raised in another |
| `MCImport.cfg` | `OneUpstream` | `SPECIFICATION Spec, Loads = 0, MaxActs = 3` | `proxy/stream.go:406` | an import replaces a channel object that is being played; new clients open a second upstream |
| `MCImport.cfg` | `NewLoopSurvives` | `SPECIFICATION Spec, Imports = 3` | `restart.go:50` | the new refresh loop takes the stop token meant for the old one |
| `MCImport.cfg` | `CommitIsExactAlways` | `SPECIFICATION Spec, Saved <- TwoOne` | `proxy/stream.go:347` | a configuration saved during the fetch shifts the places `sourceOK` is read at |
| `MCImport.cfg` | `FetchedIsFresh` | `SPECIFICATION Spec` | `proxy/stream.go:409` | an account that was fetched keeps its old channels when another account with its URL failed |
| `MCImport.cfg` | `InventoryIsWhole` | `SPECIFICATION Spec` | `importctl.go:261` | accounts with one URL share one inventory, and it is that of the one fetched last |
| `MCConfigStore.cfg` | `SourcesSurviveCrash` | `MaxCfgOps = 2, Teams <- MCSoloTeams` | `config.go:526` | a crash between the deletes and the inserts loses providers |
| `MCConfigStore.cfg` | `SourcesSurviveReadError` | `MaxCfgOps = 2, Teams <- MCSoloTeams` | `config.go:223` | a read error caches the defaults, and the next write of the whole configuration stores them |
| `MCConfigStore.cfg` | `ProfileExistsAlways` | `MaxFaults = 0, Teams <- MCBothTeams` | `admin/config.go:203` | a profile is deleted between a save's check and its write |
| `MCConfigStore.cfg` | `SourcesSurviveAlways` | `MaxCfgOps = 2, MaxFaults = 0, Teams <- MCBothTeams` | `admin/proxy.go:22` | toggling the watcher writes an older configuration back over another admin's save |
| `MCConfigStore.cfg` | `SourcesUniqueAlways` | `MaxCfgOps = 2, MaxFaults = 0, Teams <- MCBothTeams` | `config.go:525` | the deletes and inserts of two saves interleave and both lists stay |
| `MCConfigStore.cfg` | `PostBackKeepsAlways` (P) | `MaxFaults = 0, Teams <- MCEditTeams` | `admin/config.go:172` | a restart in between changes what the masked secrets are looked up in |
| `MCConfigStore.cfg` | `SecretKeptRenamed` (P) | `Docs <- MCRenameDocs, Teams <- MCSoloTeams` | `admin/sources.go:33` | the second of two accounts with one URL is renamed and posted back masked: it gets the secret of the first |
| `MCConfigStore.cfg` | `LiveIsStoredAlways` | `MaxCfgOps = 2, MaxFaults = 0` | `admin/config.go:245` | an older loaded object is published after a newer one |
| `MCConfigStore.cfg` | `CacheIsStoredAlways` | `MaxFaults = 0, Teams <- MCBothTeams` | `admin/system.go:67` | a toggle writes its flag into the object cached since, after a newer toggle was stored |
| `MCConfigStore.cfg` | `ProfileExistsRestart` | `MaxCfgOps = 4, MaxFaults = 0, Teams <- MCPairTeams, Docs <- MCOneDoc` | `admin/config.go:203` | another admin's restart publishes an object loaded before a delete, and a save is checked against it |
| `MCConfigStore.cfg` | `LiveIsStoredUnsettled` | `MaxFaults = 0, Teams <- MCSoloTeams, Docs <- MCUnsettledDocs` | `config.go:718` | the orders a load fills in are stored by a toggle, and the next load sorts the sources by them |
| `MCFilter.cfg` | `SourceDefaultWins` (P) |  | `filterrules.go:215` | an explicit keep is stored as nothing, so the profile's drop wins |
| `MCFilter.cfg` | `StoredIsAccepted` |  | `admin/config.go:185` | the posted filters are tidied before they are compared with the stored ones |
| `MCFilter.cfg` | `BadRulesAreRefused` (P) |  | `sourcefilters.go:215` | a bad rule or default posted for a source without any is emptied before the comparison and saved as no change |
| `MCGuide.cfg` | `NewestWins` (P) |  | `epg.go:406` | the older of two overlapping refreshes may rename its file last |
| `MCGuide.cfg` | `ReloadIsRead` |  | `admin/epgs.go:165` | a refresh copies a list of blank rows while a reload fills it |
| `MCGuide.cfg` | `MappedIsIndexed` | `MaxGuideFaults = 0` | `epg.go:275` | a channel mapped during a merge is in the file and not in the index |
| `MCGuide.cfg` | `OutageKeepsGuide` (P) | `MaxGuideFaults = 0` | `epg.go:340` | a refresh that reaches no source publishes the dummy guide over the last good one |
| `MCSchedulesDirect.cfg` | `LoginsAlwaysSpaced` |  | `auth.go:36` | an account's first login notes no attempt before it: one that fails, or dies before its row is written, is repeated at once |
| `MCSchedulesDirect.cfg` | `FetchedIsScheduled` |  | `fetch.go:59` | the error of the schedules is overwritten unread |
| `MCSchedulesDirect.cfg` | `LookaheadIsDays` |  | `fetch.go:57` | the default lookahead is a duration in nanoseconds taken for days |
| `MCSchedulesDirect.cfg` | `TokensSurvive` (P) |  | `auth.go:44` | a token table that cannot be read counts as empty and is written back with one account |
| `MCLocalLibrary.cfg` | `EvictsOnlyTheGone` (P) |  | `scanner.go:157` | a root that cannot be read lists no file, and all of its entries are evicted |
| `MCLocalLibrary.cfg` | `IndexGoesWithSnapshot` |  | `localscan/xc.go:27` | the snapshot is published before its index, and a clear comes in between |
| `MCLocalLibrary.cfg` | `MetadataIsCurrent` |  | `scanner.go:209` | a file changed after it was parsed is stamped with its new time and never read again |
| `MCLocalLibrary.cfg` | `SnapshotIsCurrent` |  | `localscan/xc.go:58` | a snapshot listed before a write is stored after the write's announcement |
| `MCLocalLibrary.cfg` | `TotalIsStored` | `MaxLibOps = 2, MaxLooks = 0` | `scanner.go:42` | an eviction that failed is logged, and the total is that of the walk |
| `MCLocalLibrary.cfg` | `ScansTheEnabled` (P) |  | `scanner.go:291` | a row read before the first scan was disabled, edited or deleted when its turn comes |
| `MCSeriesFiles.cfg` | `DeadForAnAnswer` | `MaxFileOps = 2` | `remotefile.go:118` | a stream is marked dead for the proxy's own ceiling, without its provider being asked |
| `MCSeriesFiles.cfg` | `CeilingKept` | `MaxFileOps = 2` | `remotefile.go:217` | the ceiling is read and raised in two steps |
| `MCSeriesFiles.cfg` | `OfferedIsMapped` | `MaxFileOps = 2` | `db/seriesinfo.go:119` | a provider's mappings are replaced while the tree built from the old ones is on offer |
| `MCSeriesFiles.cfg` | `DroppedStopsResolving` (P) |  | `db/seriesinfo.go:119` | rows of a series that cannot be asked for any more stay beside those just stored |
| `MCSeriesFiles.cfg` | `ListedStaysResolving` (P) |  | `db/seriesinfo.go:126` | an episode taken over by another series of the provider goes when that one drops it |
| `MCSeriesFiles.cfg` | `OldPayloadIsRefreshed` (P) | `CacheEnabled = FALSE` | `xcoutput.go:1098` | a TTL of zero, with the cache off, means a payload that never gets old |
| `MCSeriesFiles.cfg` | `SaveKeepsPayload` (P) |  | `db/seriesinfo.go:175` | the merged payload is filed under no source's URL and pruned by every save |
| `MCSeriesFiles.cfg` | `PlaysWhatIsListed` | `Trees <- MCSpecials` | `xcoutput.go:1140` | of two episodes with one number the tree keeps the first and the mappings the last |
| `MCXCOutput.cfg` | `InfoCategoryIsListed` |  | `xcoutput.go:469` | get_series_info names a category that get_series_categories does not list |
| `MCXCOutput.cfg` | `LimitOutlivesEdits` |  | `admin/xcaccounts.go:175` | saving any account publishes counters of zero, and the limit is granted anew |
| `MCXCOutput.cfg` | `StoredAccountIsKnown` |  | `admin/xcaccounts.go:175` | the account list is published before it is filled in |
| `MCXCOutput.cfg` | `KnownChannelIsFound` | `MaxXCRequests = 3` | `xcoutput.go:281` | an index loaded before a rebuild passes as the rebuilt one |
| `MCXCOutput.cfg` | `IdsPlayTheirItem` |  | `xcoutput.go:196` | a channel and a file, or two of either, have one id: what is offered under it plays the other |
| `MCXCOutput.cfg` | `OrderIsDetermined` | `Catalogs <- MCTwins, PreserveOrder = FALSE` | `xcoutput.go:157` | names that differ only in case are equal to an unstable sort |
| `MCXCOutput.cfg` | `RefusedAtTheLimit` (P) | `MaxXCRequests = 3` | `xcoutput.go:271` | a start over the limit counts until it takes its addition back |

Seen while reading, and not stated as a property: `ReinitRateLimiters`
(`proxy/stream.go:136`) replaces entries of a map that requests read without a
lock; the comment of `expandMappedChannels` says that playlists carry the export
ids of the guide, while they carry the raw ids; a scan's `entry_count` counts the
files walked.

### Bounds

Connections, chunks, calls and routines are each used once or come from a small
pool; the constants commented "bound" name every cap. They stop exploration, not
the program: no property depends on reaching them.

- Two connections are enough for a leave to race a join; three calls with two
  slots make the semaphore full while a replacement is under way; two feeders with
  queues of one are the smallest instance in which a shed queue is filled by
  somebody else; chunks up to twice the capacity cover wrap-around, exact fit and
  overrun.
- `selection`: two streams let a rotation wrap, a sort exchange them and a switch
  go to the other kind; two failures in a row charge a stream, and the first charge blocks
  it, which is the smallest limit an operator can set. Larger limits are a matter of the
  theorems, which hold for every one.
- `hls`: `MaxCuts` bounds only the attempts that fail with bytes already sent; failures
  before the first byte are bounded by `MaxErrors` per round, as in the code. One such
  attempt is enough for a segment to be sent again, out of order, at a later window.
- `import`: three accounts, two of which have one URL, listed in twos that keep or lose
  their places when a configuration is saved; a limit of one so that one player fills it,
  a second run over the first one's channels.
- `configuration`: one administrator with every request, or one who saves and
  toggles beside one who restarts, with up to three operations and one fault; two
  accounts of one provider, four drafts of a source (rules, groups with
  deduplication, category patterns, nothing) and three of a profile; documents whose
  elements span reads and exceed the channels' capacity of one; a source that sends
  a programme later than the account's, two refreshes, one fault and one mapping; two
  accounts, three sessions, a clock that outlives the token and the threshold,
  lists of two lengths around the batch. The invariants of the last three components are
  also proved for all constants, so their instances here are kept small.
- `services`: two sources over one file system with two scanners and two readers, one
  lookup each, and one edit, change on disk or failed statement; two players, two of six
  requests and a limit of one, one import and one reload, with an id that two channels
  share, one of two files and one of a channel and a file; three logins of two panels, two
  series of one panel with an episode number in common, one change of a list, one retry.
- The component configurations go further: all teams and all drafts,
  channels and programmes from both guide sources, a token that outlives the threshold,
  more lookups and all requests.

`CHECK_DEADLOCK FALSE` is set where connections, operations or chunks are used up
and everybody has left, which is a legal end.

### Fairness

A goroutine that can take a step eventually does (weak fairness per goroutine); a
goroutine waiting for a mutex that keeps being released eventually gets it (strong
fairness on the lock steps: Go's mutexes hand over to starving waiters). Tickers
tick. A source read ends once its context is cancelled, and a fetch ends because
its request has a timeout. Nothing is assumed of clients, operators, sources or
the administrators: nobody has to connect, leave, switch, publish or save. The
runs without a liveness property state no fairness.

## Proofs

For every number of goroutines, connections, channels and for every capacity:

- `SharedStateProofs`, of `RingBuffer`: `Spec => []IInv`, and from it the type invariant,
  `NoCopyFromReleased` and `PeekIsRecent`. `IInv` adds to the types that holders of
  the lock exclude each other (`LockInv`), that storage disappears only under the
  lock of a Destroy (`NilInv`), and that the storage holds the end of the stream at
  positions modulo the capacity (`WindowInv`). The arithmetic is in lemmas about
  `%` (`ModUnique`, `ModShift`, ...) and in `CopyInWindow`.
- `RestreamerProofs`: types, `CountAccounting`, `RunningHasStream` and the action
  property `NoStartOnStopped`. The strengthening says where a connection can be in
  relation to the map (`PlaceInv`), who holds the lifecycle lock while a context
  is cancelled and not yet replaced (`StopInv`), and that a goroutine inside Stream
  has a frame (`DepthInv`).
- `DownloadProofs`: of the tracker, types, `MapMatchesBuffer` and the refinement
  `Spec => IsRecent`: reading the circular buffer from its oldest entry is the
  abstract memory, initially and after every mark; the same of the tracker inside the
  loop, through the resize at the first fetch. Of the loop, `HLSInv`, `NoReplay` (a segment
  reported as sent is not sent again; what is repeated failed every time before) and
  `OnlyRetriesReorder`, under the hypothesis `Room`: the playlist slides, and either the
  tracker holds two windows less one or the playlist has its full width when the loop
  starts (the resize then doubles it). The code's tracker starts with 128 entries
  (`constants/internal.go:407`). `MemoryInv` is the argument: entries marked after one
  that may still be listed are within a window of it on either side, so fewer than two
  windows of them fit (`Crowd`) and the entry has not been evicted.
  Without `Room` replays happen: the violation run for `hls.go:23` lets the playlist grow.
- `DownloadProofs`, of `GuideFetch`: `FetchInv`, from `FetchIInv`, for any documents, sources, read size
  and capacities, and any tail of at least one piece. `ScanInv` is the argument: what a source
  has sent, and the elements of its window followed by what it has not read, are all its elements
  (`ElementsOf`, one read of the whole document). Each step keeps that because text behind a
  complete element does not change it (`StaysComplete`), and text in which no opening tag begins can
  go (`FrontDrops`, `TrimKeeps`); a tail of one piece is what an opening tag cut in two needs. The
  elements of a document are a recursive function over documents of any length; that it exists and does
  what its definition says is `ElementsAre`, by iterating one round of it (`Iterates`).
- `ChunkFanoutProofs`: `FanoutInv`, `InOrder` and `NewestIsQueued`. A chunk's count is
  compared with the set of its holders (readers, queues slot by slot, writers), which
  every step keeps, changes by one element or moves (`Kept`, `Released`, `Retained`, `Moved`). `PlaceInv` and
  `CopyInv` say where a program counter keeps a chunk, `LineInv` that chunks in front
  of a client are newer than those it was written, `AheadInv` that a feeder does not
  come back to a client before its next chunk.
- `WatcherManagerProofs`: types, `SlotAccounting` and `ReleaseNeverBlocks`. `PlaceInv`
  says that the four reasons to hold a slot (being started, registered, taken out,
  overwritten) exclude each other; `OwnInv` ties program counters to what an actor
  owes. `StepKinds` reduces the thirty actions to five kinds of steps.
- `SharedStateProofs`, of `XCOutput`: `SlotsInv`, that is the accounting of `acquireXCConnection`, the
  accounts' limits and the application's slots. `RequestInv` says that a request holds
  its account's slot exactly while it is in the handler, `ListsWellFormed` that a
  published list keeps its counters, so a reload leaves the requests of older lists
  where they are. `StepKinds` reduces the twelve actions of a client to five kinds;
  `CountsUp`, `CountsDown` and `CountsKept` follow the counter with the set it counts.
  `ListsInv` is about what a player is offered. Only the index has a history: `IndexInv`
  follows a rebuilt index from the channels it was made of to the generation it is filed
  under, past the imports that may come between, and needs the mutex part of `SlotsInv`.
  The rest holds of every channel map and of any assignment of ids, collisions included: an
  id offered plays something that has this id, and the very item unless the id is also
  another's. The lemmas are `CategoriesAgree`, `OffersResolve` (with `LargestOf` for the file that stays),
  `PlacedByEarliest` and `ShowsPartitioned`, the last two by least elements (`LeastOf`,
  from the well-foundedness of `<`).
- `SharedStateProofs`, of `LocalLibrary`: `LibraryInv`. `QuietInv` says what a scan nobody
  disturbed has established at each of its steps: what it lists is the folder, what it
  parses is what is out of date, what it has upserted is up to date, what it has evicted
  was gone (`OthersAreDisturbed` is why any other step spoils its quiet). Quiet includes
  that the row it goes by is the one stored (`WalkingQuiet`, for the rows `ScanAll` read
  earlier), and a scan whose eviction or count failed keeps what it has established before
  (`FailsQuietly`). For the
  snapshot, `ClearedInv` says that the first half of an announcement leaves no snapshot
  and no builder, `BuiltInv` that a builder no announcement has met holds the stored
  library; a write keeps both because it owes its announcement from its commit on.
- `SharedStateProofs`, of `SeriesFiles`: `EpisodesInv` and the action property
  `MarkedAfterRetries`, from `FilesIInv`. `GoodRecord` says what a request holds at each
  of its steps, `OneListPerSeries` that the rows of a series are of one of its lists, whatever
  rows of the provider's other series took the place of some (`ListsAfterPersist`), `StoredInv`
  that every number a list answered with stays mapped until a provider publishes another list
  (`RowsAfterPersist`), `WalkInv` that every candidate is behind, before or in the hands of a delivery
  nothing disturbs. The lists are of any length: `MergeIsUnion` and `OnlyKeeps` say what the
  folds over them return, by induction through the least position that fails (`Induct`) and
  with `Recursion` for the existence of the recursive function.
- `StreamLoopProofs`: types, `LoopInv`, `ChargedForFaults` and the action property
  `ChoiceHonoured`. For the clip, `RotationInv` says that the attempts since the last
  reset went round the list one index at a time, but for one: a success that ends in a
  cancelled context leaves the index where it was (`Held`), and it can do so once,
  because only the pending half of an operator's switch then replaces that context.
  With a multiplier of 1 that one slip lets the clip come before the last
  stream (TLC finds it), so the theorem is for a multiplier of at least 2, which is the
  code's value (`constants/internal.go:359`). For the charges, `CreditInv` says that an attempt on
  its way to the charge has been counted, or was ended by a switch whose flag the loop
  is still going to see. For the choice, `ChoiceInv` says that a flag and an index set
  while the stream played are still there when the attempt is judged, and that nobody but
  another switch or the watcher writes the index from there to the next attempt. Both are
  about switches with both halves in time: the others count as faults, and the choice may be lost.
- `ImportProofs`: `ImportInv`, that is the types and `NeverOvercounts`: through imports,
  plays, saved configurations and restarts no counter exceeds those who hold a
  connection, for every source list, number of names, workers, limit and bound.
  `BatchInv` says that only a run that is fetching has connections, `RunInv` that the
  runs are numbered and publish at most once (so object identities are in range),
  `PlayingInv` that a channel object is played once at a time, without which raising a
  player's counter could merge two players into one. `CountStep` compares the counter
  with the two sets it counts; the tally is the one step that sets them apart, downwards.
  Also `CommitIsWhole`, `RefreshSurvives` and `NeverBlank`, from `CatalogIInv`, for any URLs
  and orders of the accounts and any lists of them: what a run
  has published so far at each of its steps (`CommitInv`; that what was fetched and what was
  carried forward by URL serve exactly their union once deduplicated is `MadeServes`), what the inventory and a
  generated playlist are made of (`InventoryInv`, `PageInv`), and that every refresh
  loop that ends leaves another one or the stop signal behind (`RefreshInv`).

- `ConfigurationProofs`, of `ConfigStore`: `StoredIsRead`, from `StoreIInv`. `CacheInv` is the
  argument: while nobody is between the first write of a request and its clear
  (`Calm`), the cached object and what a load in progress has read are the tables; the
  profiles need no such care, as the load reads them last and a profile handler
  clears after its one transaction. What a load makes of the rows is a configuration because
  their order ranks them, ties included (`RanksAreTaken`, by counting: distinct ranks
  below N that number N). The flag of a toggle is the one value that is changed in a
  published object, so `WatchInv` has to say that the tables hold it already, and for that
  that nobody else writes settings (`TeamInv`) and that boot is over (`BootInv`).
  Also `ProvidersAreKept`, from `StoreIInv` and the six parts of `ProvidersIInv`: with one
  writer every list of sources, stored, loaded, posted or half inserted (`Coming`), is as
  good as the documents were (`FineInv`); a key once written has a value, and a migration
  meets no sources (`KeysInv`); only who has something to do is in the middle of a request
  (`WorkInv`). `WantedInv` then follows the set of providers through the delete and the inserts,
  `ProfileInv` says that no list that will be stored or checked against names a profile that is gone,
  and `LiveInv` what separates the live object from the tables at each step of a
  lone admin's request. `ReadPermutes` and `SettledFits` are why a toggle, which
  stores what a load made of the rows, changes nothing: a second load sorts an ascending list
  and finds no order or name to fill in. The theorem supposes `DocsListOnce`, that no
  document lists an account twice; only `SourcesUnique` needs it, since a save stores
  what was posted as it is.
- `ConfigurationProofs`, of `SchedulesDirect`: `AccountInv`. `ThrottleInv` says that, as
  long as the table can be read and written, a stored entry knows of every login of its
  account and that who has `tokenCacheMu` works on the table as it is; noting the
  attempt before the request (`Refresh`) is what keeps it through a crash. `Walked` says
  that what a session has asked for is the beginning of what it has to ask for, and
  `BatchContinues` that a batch prolongs it and is empty only at the end of the list.
- `ConfigurationProofs`, of `Guide`: `GuideInv`, from `GuideIInv`. What a refresh has merged so
  far is whole, and its index has of an id what its document has (`Holds`); a fragment keeps
  that (`TakenKeeps`), and so does a delivery of any length (`MergeKeeps`, by `Recursion` and
  `Induct`). `PublishedInv` says what the three separate steps of a publication leave: while
  none overlaps another, the indexes are those of the refresh that publishes, or of the file.
  The order of the committed index comes from ranks, as in `ConfigStore` (`RanksAre`,
  `Ordered`), and with it the programme that is on (`SortedAiring`). `TempsCounted` counts the
  refreshes that own a temporary file.

Assumptions are the named ASSUMEs of the modules: finite sets of actors, positive
capacities, and that the special values are not members of the sets; `XCOutput`'s
also says that stored limits are natural numbers (`admin/xcaccounts.go:72` replaces
the others), that places stay below `math.MaxInt` and that a local entry has a group
(`localscan/parser.go:63,105,134`), and of the ids nothing;
`ConfigStore`'s `ConfigAssumption` gives the posted documents and config.json their types,
`DocumentAssumption` says that each of their settings has a value and that config.json, older
than the profiles (`db/migrate.go`), names none;
`SeriesAssumption` that no list of a provider is missing and that a stream with an id has a
provider; `LocalLibrary`'s `RowAssumption` that no row is the mark for a missing row;
`SchedulesDirect`'s `ServiceAssumption` that what the service answers is finite;
`GuideAssumption` gives the feeds, the stored lists and the mappings their types (an export id
may be some source's id as well);
`FetchAssumption` says that a window keeps enough to complete a cut opening tag (16 bytes,
`proxy/epg.go:632-639`).

Only model-checked: everything about liveness (fairness and ENABLED are outside the
prover); of `ConfigStore` `EditsKeep`, and all invariants of `Filter`, which hold on
the instances above and whose inductive strengthenings have not been written.

## Not modelled, and the plan

Left out on purpose: byte transfer and process I/O (FFmpeg, HTTP client), password
hashing, TMDB and metadata formats, logging, metrics, static assets. The
`BufferPool` wrapper is a counter around `sync.Pool`. `StopWatching` has no caller.
The playlist parsers (`work/parser`) turn text into lists without shared state and
are covered by the repository's table tests; `Import` takes their results as data.

In order:

1. Proofs: the preview of `Filter`, the edits of `ConfigStore`.
2. `WatcherHealth`: the throughput baseline, failure threshold and window of
   `checkStreamHealth` (`watcher.go:381-525`).
3. An abstract life of one channel (off, playing, switching) that `Restreamer` and
   `StreamLoop` both implement.
4. `Users`: registration, login and session expiry over one table.
5. The watcher's probes and the ffmpeg path as further holders of a source's
   connections, beside those of `Import` and `SeriesFiles`.
