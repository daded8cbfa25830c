------------------------------- MODULE Import -------------------------------
(***************************************************************************)
(* The catalog import (proxy/stream.go ImportStreams, proxy/importctl.go): *)
(* the goroutine per source with its connection count, the carry-forward   *)
(* of failed sources, the replacement of the channel map entry by entry,   *)
(* the generation that keys rendered playlists, the refresh loops, the     *)
(* manual trigger, the graceful restart (app/restart.go) and a saved       *)
(* configuration (admin/config.go), all of them against the streams that   *)
(* are being played and the playlists that are being rendered.             *)
(*                                                                         *)
(* A source is one entry of the list, an account: several accounts of a    *)
(* provider have the same URL, and what an import carries forward and what *)
(* it records is keyed by the URL.  A channel is the set of its streams.   *)
(* A stream is the account whose credentials its own URL has, and the      *)
(* SourceConfig it points to, that is an account and a version of the      *)
(* configuration: every load makes new objects with counters at zero.      *)
(***************************************************************************)
EXTENDS Integers, Sequences, FiniteSets

CONSTANTS
  Sources,    \* sources: accounts with a provider
  Url,        \* the URL of every source
  Order,      \* the Order of every source
  Names,      \* channel names
  Catalogs,   \* the names a fetch of every source may keep
  Start,      \* the source list of the first configuration
  Saved,      \* the source lists a later configuration may have
  Workers,    \* WorkerThreads
  MaxConns,   \* a source's MaxConnections
  Loads,      \* bound: configurations loaded after the first
  Imports,    \* bound: imports begun
  MaxActs     \* bound: plays, renders, ticks, triggers, saves and restarts begun

Lists == {l \in UNION {[1 .. n -> Sources] : n \in 1 .. Cardinality(Sources)} :
            \A i, j \in DOMAIN l : l[i] = l[j] => i = j}

Urls == {Url[s] : s \in Sources}

ASSUME SetAssumption   == IsFiniteSet(Sources) /\ IsFiniteSet(Names) /\ Sources # {}
ASSUME UrlAssumption   == DOMAIN Url = Sources /\ Order \in [Sources -> Nat]
ASSUME CatalogAssumption == Catalogs \in [Sources -> SUBSET SUBSET Names]
ASSUME ListAssumption  == Start \in Lists /\ Saved \subseteq Lists
ASSUME LimitAssumption == Workers \in Nat \ {0} /\ MaxConns \in Nat \ {0}
ASSUME BoundAssumption == {Loads, Imports, MaxActs} \subseteq Nat

VARIABLES
  version, list,  \* sp.Config: which load it is and its source list
  conns,          \* ActiveConns of every SourceConfig object
  channels,       \* sp.Channels: the streams and the identity of each channel object
  waiting,        \* runs waiting for importMu
  holder,         \* the run that has it
  phase,          \* where that run is
  batch,          \* its goroutines: version, list, and per source a state, result and success
  fresh,          \* its newChannels
  todo,           \* names it has still to store or to look at
  begun,          \* imports begun
  pending,        \* importPending
  generation,     \* importGeneration
  index,          \* groupIndex and nameIndex
  inventory,      \* source_groups: what the last successful fetch of a URL kept
  cached,         \* playlist cache: names rendered under a generation
  render,         \* the playlist being rendered
  acts,           \* plays, renders, ticks, triggers, saves and restarts begun
  playing,        \* streams being played, one per channel object
  loops, token,   \* the refresh loops and importStopChan
  restart,        \* where RunRestartLoop is
  before,         \* history: what every source served when the run tallied
  mixed,          \* history: the configuration was replaced during the run
  clean           \* history: no run so far was mixed or ended without channels

confVars   == <<version, list, conns>>
runVars    == <<waiting, holder, phase, batch, fresh, todo, begun, pending, before, mixed, clean>>
outVars    == <<channels, generation, index, inventory>>
pageVars   == <<cached, render>>
loopVars   == <<loops, token, restart>>
vars == <<confVars, runVars, outVars, pageVars, playing, loopVars, acts>>

None     == <<"none", 0>>
By(k)    == <<k, 0>>
Versions == 0 .. Loads
Streams  == {st \in Sources \X Sources \X Versions : Url[st[1]] = Url[st[2]]}
Idle     == [at |-> "idle", generation |-> 0, names |-> {}, left |-> {}]
NoBatch  == [version |-> 0, list |-> <<>>, state |-> <<>>, got |-> <<>>, ok |-> <<>>]
Known    == DOMAIN channels
Served(s) == {n \in Known : \E st \in channels[n].streams : st[1] = s}
Room     == begun + Cardinality(waiting) + (IF restart = "stopped" THEN 1 ELSE 0) < Imports
Act      == acts < MaxActs /\ acts' = acts + 1
Alive    == {i \in DOMAIN loops : loops[i] # "ended"}

\* proxy.New, main: an empty channel map, the refresh loop and the first import.
Init ==
  /\ version = 0 /\ list = Start
  /\ conns = [v \in Versions |-> [s \in Sources |-> 0]]
  /\ channels = << >> /\ generation = 0 /\ index = {} /\ inventory = [u \in Urls |-> {}]
  /\ waiting = {By("startup")} /\ holder = None /\ phase = "idle"
  /\ batch = NoBatch /\ fresh = << >> /\ todo = {} /\ begun = 0 /\ pending = FALSE
  /\ cached = << >> /\ render = Idle /\ acts = 0
  /\ playing = {}
  /\ loops = <<"wait">> /\ token = FALSE /\ restart = "idle"
  /\ before = [s \in Sources |-> {}] /\ mixed = FALSE /\ clean = TRUE

-----------------------------------------------------------------------------
(* One import *)

\* Fault: importMu is not taken.
ImportBeginAnyway(k) ==
  /\ k \in waiting /\ begun < Imports
  /\ holder' = k /\ waiting' = waiting \ {k} /\ begun' = begun + 1
  /\ phase' = "fetch" /\ mixed' = FALSE
  /\ batch' = [version |-> version, list |-> list,
               state |-> [i \in DOMAIN list |-> "queued"],
               got   |-> [i \in DOMAIN list |-> {}],
               ok    |-> [i \in DOMAIN list |-> FALSE]]
  /\ UNCHANGED <<confVars, outVars, pageVars, playing, loopVars, fresh, todo, pending, before, clean, acts>>

\* importMu is taken and a goroutine is started for every source.
ImportBegin(k) ==
  /\ k \in waiting /\ holder = None /\ begun < Imports
  /\ holder' = k /\ waiting' = waiting \ {k} /\ begun' = begun + 1
  /\ phase' = "fetch" /\ mixed' = FALSE
  /\ batch' = [version |-> version, list |-> list,
               state |-> [i \in DOMAIN list |-> "queued"],
               got   |-> [i \in DOMAIN list |-> {}],
               ok    |-> [i \in DOMAIN list |-> FALSE]]
  /\ UNCHANGED <<confVars, outVars, pageVars, playing, loopVars, fresh, todo, pending, before, clean, acts>>

Busy == {i \in DOMAIN batch.list : batch.state[i] \in {"started", "counted"}}

FetchUnchanged ==
  UNCHANGED <<version, list, channels, generation, index, pageVars, playing, loopVars,
              waiting, holder, phase, fresh, todo, begun, pending, before, mixed, clean, acts>>

\* A worker slot, or the global timeout while waiting for one; then the limit is read.
FetchStart(i) ==
  /\ phase = "fetch" /\ batch.state[i] = "queued"
  /\ \/ /\ Cardinality(Busy) < Workers
        /\ batch' = [batch EXCEPT !.state[i] =
             IF conns[batch.version][batch.list[i]] >= MaxConns THEN "done" ELSE "started"]
     \/ batch' = [batch EXCEPT !.state[i] = "done"]
  /\ UNCHANGED <<conns, inventory>> /\ FetchUnchanged

\* ActiveConns goes up in a step of its own.
FetchCount(i) ==
  /\ phase = "fetch" /\ batch.state[i] = "started"
  /\ conns' = [conns EXCEPT ![batch.version][batch.list[i]] = @ + 1]
  /\ batch' = [batch EXCEPT !.state[i] = "counted"]
  /\ UNCHANGED inventory /\ FetchUnchanged

\* FetchSourceStreams and the filter: what is kept is recorded at once.
FetchSucceeds(i) ==
  /\ phase = "fetch" /\ batch.state[i] = "counted"
  /\ \E names \in Catalogs[batch.list[i]] :
       /\ batch' = [batch EXCEPT !.state[i] = "done", !.got[i] = names, !.ok[i] = TRUE]
       /\ inventory' = [inventory EXCEPT ![Url[batch.list[i]]] = names]
  /\ conns' = [conns EXCEPT ![batch.version][batch.list[i]] = @ - 1]
  /\ FetchUnchanged

\* Fault: the connection is given back only on success.
FetchFailsLeaks(i) ==
  /\ phase = "fetch" /\ batch.state[i] = "counted"
  /\ batch' = [batch EXCEPT !.state[i] = "done"]
  /\ UNCHANGED <<conns, inventory>> /\ FetchUnchanged

\* Fault: a failed fetch empties the inventory.
FetchFailsForgets(i) ==
  /\ phase = "fetch" /\ batch.state[i] = "counted"
  /\ batch' = [batch EXCEPT !.state[i] = "done"]
  /\ conns' = [conns EXCEPT ![batch.version][batch.list[i]] = @ - 1]
  /\ inventory' = [inventory EXCEPT ![Url[batch.list[i]]] = {}] /\ FetchUnchanged

\* Timeout, cancellation or an empty answer: the inventory stays.
FetchFails(i) ==
  /\ phase = "fetch" /\ batch.state[i] = "counted"
  /\ batch' = [batch EXCEPT !.state[i] = "done"]
  /\ conns' = [conns EXCEPT ![batch.version][batch.list[i]] = @ - 1]
  /\ UNCHANGED inventory /\ FetchUnchanged

ImportOver ==
  /\ holder' = None /\ phase' = "idle" /\ batch' = NoBatch /\ fresh' = << >> /\ todo' = {}
  /\ pending' = IF holder = By("manual") THEN FALSE ELSE pending

\* Entries whose flag, at the same place of the list as it is now, is unset; of
\* those with one URL the last is kept in failedSources.
Unset         == {j \in DOMAIN list : ~batch.ok[j]}
LastOfUrl     == {j \in Unset : \A k \in Unset : Url[list[k]] = Url[list[j]] => k <= j}
failedSources == {list[j] : j \in LastOfUrl}
FailedUrls    == {Url[list[j]] : j \in Unset}

\* Fault: failed sources are not carried forward.
carryNothing(n) == {}

\* The streams of a failed URL, whichever account they came from, pointed to the
\* failed source as it is configured now.
Repointed(streams) ==
  {st \in Streams : st[2] \in failedSources /\ st[3] = version
                    /\ \E x \in streams : x[1] = st[1] /\ Url[x[2]] = Url[st[2]]}

\* Streams kept for failed sources.
carryForwardStreams(n) == IF n \in Known THEN Repointed(channels[n].streams) ELSE {}

Fetched(n) == {<<batch.list[i], batch.list[i], batch.version>> : i \in {j \in DOMAIN batch.list : n \in batch.got[j]}}

\* A stream that was fetched and carried forward as well stays once, in the first
\* place by order; at equal orders fetched comes first.
SortStreams(fetched, carried) ==
  {f \in fetched : \A c \in carried : c[1] = f[1] => Order[f[2]] <= Order[c[2]]} \cup
  {c \in carried : \A f \in fetched : f[1] = c[1] => Order[c[2]] < Order[f[2]]}

\* Everything is in: all counters to zero, failed sources carried forward, the
\* new channels put together.  A longer list than the one that was fetched ends
\* the run in a recovered panic, an empty result leaves everything as it is.
ImportTally ==
  /\ phase = "fetch" /\ \A i \in DOMAIN batch.list : batch.state[i] = "done"
  /\ conns' = [conns EXCEPT ![version] = [s \in Sources |-> IF s \in {list[i] : i \in DOMAIN list} THEN 0 ELSE @[s]]]
  /\ IF Len(list) > Len(batch.list)
       THEN ImportOver /\ clean' = FALSE /\ UNCHANGED <<channels, before>>
       ELSE LET all  == [n \in Names |-> SortStreams(Fetched(n), carryForwardStreams(n))]
                keep == {n \in Names : all[n] # {}}
            IN  /\ before' = [s \in Sources |-> Served(s)]
                /\ channels' = [n \in Known |-> [channels[n] EXCEPT !.streams =
                     Repointed(@) \cup {st \in @ : Url[st[2]] \notin FailedUrls}]]
                /\ clean' = (clean /\ ~mixed /\ keep # {})
                /\ IF keep = {}
                     THEN ImportOver
                     ELSE /\ phase' = "store" /\ todo' = keep
                          /\ fresh' = [n \in keep |-> all[n]]
                          /\ UNCHANGED <<holder, batch, pending>>
  /\ UNCHANGED <<version, list, generation, index, inventory, waiting, begun, mixed, pageVars, playing, loopVars, acts>>

\* One channel after the other is replaced by a new object, without a restreamer.
ImportStore(n) ==
  /\ phase = "store" /\ n \in todo
  /\ channels' = [m \in Known \cup {n} |->
                    IF m = n THEN [streams |-> fresh[n], object |-> begun] ELSE channels[m]]
  /\ todo' = todo \ {n}
  /\ UNCHANGED <<confVars, generation, index, inventory, waiting, holder, phase, batch, fresh, begun, pending,
                 before, mixed, clean, pageVars, playing, loopVars, acts>>

\* Fault: channels of carried sources are dropped as well.
ImportDropAll ==
  /\ phase = "store" /\ todo = {}
  /\ phase' = "drop" /\ todo' = Known \ UNION {batch.got[i] : i \in DOMAIN batch.list}
  /\ UNCHANGED <<confVars, outVars, waiting, holder, batch, fresh, begun, pending, before, mixed, clean,
                 pageVars, playing, loopVars, acts>>

\* Then the channels that are in no source any more are dropped.
ImportStored ==
  /\ phase = "store" /\ todo = {}
  /\ phase' = "drop" /\ todo' = Known \ DOMAIN fresh
  /\ UNCHANGED <<confVars, outVars, waiting, holder, batch, fresh, begun, pending, before, mixed, clean,
                 pageVars, playing, loopVars, acts>>

ImportDrop(n) ==
  /\ phase = "drop" /\ n \in todo
  /\ channels' = [m \in Known \ {n} |-> channels[m]]
  /\ todo' = todo \ {n}
  /\ UNCHANGED <<confVars, generation, index, inventory, waiting, holder, phase, batch, fresh, begun, pending,
                 before, mixed, clean, pageVars, playing, loopVars, acts>>

\* Fault: playlists keep their old generation.
ImportPublishLate ==
  /\ phase = "drop" /\ todo = {}
  /\ phase' = "index"
  /\ UNCHANGED <<confVars, outVars, waiting, holder, batch, fresh, todo, begun, pending, before, mixed, clean,
                 pageVars, playing, loopVars, acts>>

\* The new generation comes last.
ImportPublish ==
  /\ phase = "drop" /\ todo = {}
  /\ generation' = generation + 1
  /\ phase' = "index"
  /\ UNCHANGED <<confVars, channels, index, inventory, waiting, holder, batch, fresh, todo, begun, pending, before, mixed, clean,
                 pageVars, playing, loopVars, acts>>

\* Fault: the deferred reset of importPending is missing.
ImportIndexStuck ==
  /\ phase = "index"
  /\ index' = Known
  /\ holder' = None /\ phase' = "idle" /\ batch' = NoBatch /\ fresh' = << >> /\ todo' = {}
  /\ UNCHANGED <<confVars, channels, generation, inventory, waiting, begun, pending, before, mixed, clean, pageVars, playing, loopVars, acts>>

\* Fault: names are added to the index and never removed.
ImportIndexGrows ==
  /\ phase = "index"
  /\ index' = index \cup Known
  /\ ImportOver
  /\ UNCHANGED <<confVars, channels, generation, inventory, waiting, begun, before, mixed, clean, pageVars, playing, loopVars, acts>>

\* rebuildGroupIndex, rebuildNameIndex, releasePreviewCatalog.
ImportIndex ==
  /\ phase = "index"
  /\ index' = Known
  /\ ImportOver
  /\ UNCHANGED <<confVars, channels, generation, inventory, waiting, begun, before, mixed, clean, pageVars, playing, loopVars, acts>>

Fetch(i) == FetchStart(i) \/ FetchCount(i) \/ FetchSucceeds(i) \/ FetchFails(i)

ImportStreams ==
  \/ \E k \in waiting : ImportBegin(k)
  \/ \E i \in DOMAIN batch.list : Fetch(i)
  \/ ImportTally \/ ImportStored \/ ImportPublish \/ ImportIndex
  \/ \E n \in todo : ImportStore(n) \/ ImportDrop(n)

-----------------------------------------------------------------------------
(* Who starts imports *)

\* TriggerImport: the gate is claimed before the goroutine starts.
TriggerImport ==
  /\ ~pending /\ Room /\ Act
  /\ pending' = TRUE /\ waiting' = waiting \cup {By("manual")}
  /\ UNCHANGED <<confVars, outVars, holder, phase, batch, fresh, todo, begun, before, mixed, clean, pageVars, playing, loopVars>>

\* The ticker of a refresh loop.
Tick(i) ==
  /\ loops[i] = "wait" /\ Room /\ Act
  /\ loops' = [loops EXCEPT ![i] = "import"]
  /\ waiting' = waiting \cup {<<"tick", i>>}
  /\ UNCHANGED <<confVars, outVars, holder, phase, batch, fresh, todo, begun, pending, before, mixed, clean, pageVars, playing,
                 token, restart>>

TickDone(i) ==
  /\ loops[i] = "import" /\ <<"tick", i>> \notin waiting /\ holder # <<"tick", i>>
  /\ loops' = [loops EXCEPT ![i] = "wait"]
  /\ UNCHANGED <<confVars, runVars, outVars, pageVars, playing, token, restart, acts>>

\* A loop that waits takes the stop signal.
LoopStops(i) ==
  /\ loops[i] = "wait" /\ token
  /\ token' = FALSE /\ loops' = [loops EXCEPT ![i] = "ended"]
  /\ UNCHANGED <<confVars, runVars, outVars, pageVars, playing, restart, acts>>

\* LoadConfig: new SourceConfig objects.
LoadConfig ==
  /\ version < Loads
  /\ \E l \in Saved : list' = l
  /\ version' = version + 1
  /\ mixed' = (mixed \/ phase = "fetch")

\* handleSetConfig replaces the live configuration at any time.
SetConfig ==
  /\ restart # "stopped" /\ Act
  /\ LoadConfig
  /\ UNCHANGED <<conns, outVars, waiting, holder, phase, batch, fresh, todo, begun, pending, before, clean, pageVars, playing, loopVars>>

\* RunRestartLoop: StopImportRefresh, which drops the signal when one is queued ...
RestartStop ==
  /\ restart = "idle" /\ version < Loads
  /\ Room
  /\ token' = TRUE /\ restart' = "stopped" /\ Act
  /\ UNCHANGED <<confVars, runVars, outVars, pageVars, playing, loops>>

\* ... the new configuration, no cached playlists, an import of its own ...
RestartImport ==
  /\ restart = "stopped"
  /\ LoadConfig
  /\ waiting' = waiting \cup {By("restart")} /\ restart' = "importing"
  /\ cached' = << >>
  /\ UNCHANGED <<conns, outVars, holder, phase, batch, fresh, todo, begun, pending, before, clean, render,
                 playing, loops, token, acts>>

\* Fault: the restart relies on the old loop.
RestartLoopNone ==
  /\ restart = "importing" /\ By("restart") \notin waiting /\ holder # By("restart")
  /\ restart' = "idle"
  /\ UNCHANGED <<confVars, runVars, outVars, pageVars, playing, loops, token, acts>>

\* ... and a new refresh loop.
RestartLoop ==
  /\ restart = "importing" /\ By("restart") \notin waiting /\ holder # By("restart")
  /\ loops' = Append(loops, "wait") /\ restart' = "idle"
  /\ UNCHANGED <<confVars, runVars, outVars, pageVars, playing, token, acts>>

-----------------------------------------------------------------------------
(* Playing and rendering *)

\* A client makes a channel object's restreamer try one of its streams: the
\* limit is read ...
PlayCheck(n) ==
  /\ n \in Known /\ Act
  /\ \A p \in playing : ~(p.name = n /\ p.object = channels[n].object)
  /\ \E st \in channels[n].streams :
       /\ conns[st[3]][st[2]] < MaxConns
       /\ playing' = playing \cup {[name |-> n, object |-> channels[n].object, stream |-> st, counted |-> FALSE]}
  /\ UNCHANGED <<confVars, runVars, outVars, pageVars, loopVars>>

\* ... the counter goes up ...
PlayCount(p) ==
  /\ p \in playing /\ ~p.counted
  /\ conns' = [conns EXCEPT ![p.stream[3]][p.stream[2]] = @ + 1]
  /\ playing' = (playing \ {p}) \cup {[p EXCEPT !.counted = TRUE]}
  /\ UNCHANGED <<version, list, runVars, outVars, pageVars, loopVars, acts>>

\* ... and down when the attempt is over.
PlayEnd(p) ==
  /\ p \in playing /\ p.counted
  /\ conns' = [conns EXCEPT ![p.stream[3]][p.stream[2]] = @ - 1]
  /\ playing' = playing \ {p}
  /\ UNCHANGED <<version, list, runVars, outVars, pageVars, loopVars, acts>>

\* GeneratePlaylist: the generation first, then the cache ...
RenderBegin ==
  /\ render.at = "idle"
  /\ generation \notin DOMAIN cached
  /\ render' = [at |-> "visit", generation |-> generation, names |-> {}, left |-> Names]
  /\ Act
  /\ UNCHANGED <<confVars, runVars, outVars, playing, loopVars, cached>>

\* ... then the channel map, entry by entry ...
RenderVisit(n) ==
  /\ render.at = "visit" /\ n \in render.left
  /\ render' = [render EXCEPT !.left = @ \ {n}, !.names = IF n \in Known THEN @ \cup {n} ELSE @]
  /\ UNCHANGED <<confVars, runVars, outVars, playing, loopVars, cached, acts>>

\* ... and the result is kept under the generation that was read.
RenderCache ==
  /\ render.at = "visit" /\ render.left = {}
  /\ cached' = [g \in DOMAIN cached \cup {render.generation} |->
                  IF g = render.generation THEN render.names ELSE cached[g]]
  /\ render' = Idle
  /\ UNCHANGED <<confVars, runVars, outVars, playing, loopVars, acts>>

Others ==
  \/ TriggerImport \/ SetConfig \/ RestartStop \/ RestartImport \/ RestartLoop
  \/ \E i \in DOMAIN loops : Tick(i) \/ TickDone(i) \/ LoopStops(i)
  \/ \E n \in Names : PlayCheck(n) \/ RenderVisit(n)
  \/ \E p \in playing : PlayCount(p) \/ PlayEnd(p)
  \/ RenderBegin \/ RenderCache

Next == ImportStreams \/ Others

Spec == Init /\ [][Next]_vars

\* Imports go on: fetches end by their timeouts and the mutex is handed over.
FairSpec == Spec /\ WF_vars(ImportStreams) /\ WF_vars(RestartLoop) /\ WF_vars(RestartImport)

-----------------------------------------------------------------------------
ImportTypeOK ==
  /\ version \in Versions /\ list \in Lists
  /\ conns \in [Versions -> [Sources -> Int]]
  /\ Known \subseteq Names
  /\ \A n \in Known : channels[n].streams \subseteq Streams /\ channels[n].streams # {}
                      /\ channels[n].object \in 1 .. Imports
  /\ phase \in {"idle", "fetch", "store", "drop", "index"} /\ (phase = "idle" <=> holder = None)
  /\ todo \subseteq Names /\ (todo # {} => phase \in {"store", "drop"})
  /\ generation \in 0 .. Imports /\ index \subseteq Names
  /\ inventory \in [Urls -> SUBSET Names]
  /\ begun \in 0 .. Imports /\ pending \in BOOLEAN /\ token \in BOOLEAN

Holders(v, s) ==
  Cardinality({p \in playing : p.stream[2] = s /\ p.stream[3] = v /\ p.counted}) +
  (IF batch.version = v
     THEN Cardinality({i \in DOMAIN batch.list : batch.list[i] = s /\ batch.state[i] = "counted"}) ELSE 0)

\* A source is never locked out by connections that are gone: its counter does
\* not exceed the imports and plays that hold a connection (ImportStreams 268-283,
\* StreamFromSource 634-641).
NeverOvercounts ==
  \A v \in Versions, s \in Sources : conns[v][s] <= Holders(v, s)

\* Violated: "import connections are short-lived and must not bleed into the
\* streaming phase" (stream.go 340): zeroing also forgets the streams that play.
CountsHolders ==
  \A v \in Versions, s \in Sources : conns[v][s] = Holders(v, s)

\* What the run kept of a source, and whether what a URL had was carried forward.
Got(s)     == UNION {batch.got[i] : i \in {j \in DOMAIN batch.list : batch.list[j] = s}}
Carried(s) == \E i \in DOMAIN batch.list : Url[batch.list[i]] = Url[s] /\ ~batch.ok[i]

\* "Sources that fail, time out, or return nothing keep their previous catalog"
\* (stream.go 210): once a run has replaced the map, every source, listed or not,
\* serves what was just fetched and kept of it, and what it served before if a
\* source with its URL failed; nothing else.
CommitIsExact ==
  phase = "index" /\ ~mixed =>
    \A s \in Sources : Served(s) = Got(s) \cup (IF Carried(s) THEN before[s] ELSE {})

\* Violated: the same when the configuration is saved while the sources are fetched;
\* sourceOK is then read at the places of another list (stream.go 347-351).
CommitIsExactAlways ==
  phase = "index" =>
    \A s \in Sources : Served(s) = Got(s) \cup (IF Carried(s) THEN before[s] ELSE {})

\* Violated: "Drop channels that no longer exist in any successful or carried-forward
\* source" (stream.go 409): a source that was fetched also keeps what it had before
\* when another account with its URL failed (stream.go 470-475).
FetchedIsFresh ==
  phase = "index" /\ ~mixed =>
    \A i \in DOMAIN batch.list : batch.ok[i] => Served(batch.list[i]) = batch.got[i]

\* "a run that produces no channels at all never overwrites existing state"
\* (stream.go 211), and no run passes through an empty map.
NeverBlank == [][Known # {} => Known' # {}]_vars

\* "so a partial or empty render from an earlier import window is never served
\* after a good commit" (stream.go 417): outside of the replacement of the map
\* the cached playlist of the generation in force lists the whole catalog.
PlaylistIsWhole ==
  phase \in {"idle", "fetch", "index"} /\ generation \in DOMAIN cached
    => cached[generation] = Known

\* Between imports the group and name indexes describe the catalog that is served
\* (stream.go 420-421), so every listed channel resolves.
IndexIsCurrent == phase \in {"idle", "fetch"} => index = Known

\* What the sources with a URL serve together, and whether it has one source only.
Serves(u)  == UNION {Served(s) : s \in {r \in Sources : Url[r] = u}}
Alone(u)   == \A r, s \in Sources : Url[r] = u /\ Url[s] = u => r = s

\* The inventory of a URL records names that are served, all of them if it is one source's.
Records(u, served) == inventory[u] \subseteq served /\ (Alone(u) => inventory[u] = served)

\* "the catalog it described is the one still being served" (importctl.go 261):
\* what the inventory of a URL recorded is served, and nothing else if one account
\* has the URL, through failures, limits and restarts, as long as every run committed.
InventoryIsServed ==
  phase = "idle" /\ clean => \A u \in Urls : Serves(u) # {} => Records(u, Serves(u))

\* Violated: the same sentence where several accounts have the URL: the inventory
\* is that of the one that was fetched last.
InventoryIsWhole ==
  phase = "idle" /\ clean => \A u \in Urls : Serves(u) # {} => inventory[u] = Serves(u)

\* A manual run that was accepted ends, and the next one can be triggered
\* (importctl.go TriggerImport).
PendingClears == pending ~> ~pending

\* A graceful restart leaves a refresh loop that nobody has told to stop
\* (restart.go 26-51).
RefreshSurvives ==
  restart = "idle" => Cardinality(Alive) - (IF token THEN 1 ELSE 0) >= 1

\* Violated: "Restart the periodic import refresh loop with the new config
\* interval" (restart.go 50): the stop signal may be taken by the new loop.
NewLoopSurvives == restart = "idle" => loops[Len(loops)] # "ended"

\* Violated: one upstream for a channel, whatever the number of clients: the new
\* channel object has no restreamer and the old one's is out of reach.
OneUpstream ==
  \A p, q \in playing : p.name = q.name => p = q

\* Violated: "Enforce connection limit for this source" (restream.go 633).
LimitHeld ==
  \A s \in Sources : Cardinality({p \in playing : p.stream[2] = s /\ p.counted}) <= MaxConns

\* No connection is counted that nobody holds, through every way a fetch can end
\* and across runs that set the counters to zero (ImportStreams, stream.go 343).
ImportInv == ImportTypeOK /\ NeverOvercounts

\* Why ImportInv holds: a run's record says who holds what, and only a run that is
\* fetching has connections.
BatchInv ==
  /\ DOMAIN batch = DOMAIN NoBatch
  /\ batch.version \in Versions /\ batch.list \in Lists \cup {<<>>}
  /\ batch.state \in [DOMAIN batch.list -> {"queued", "started", "counted", "done"}]
  /\ batch.got \in [DOMAIN batch.list -> SUBSET Names] /\ batch.ok \in [DOMAIN batch.list -> BOOLEAN]
  /\ phase # "fetch" => \A i \in DOMAIN batch.list : batch.state[i] = "done"

\* Every run in progress has a number of its own, and publishes at most once.
RunInv ==
  /\ begun \in 0 .. Imports /\ generation \in 0 .. begun
  /\ phase # "idle" => begun > 0
  /\ phase \in {"fetch", "store", "drop"} => generation < begun
  /\ None \notin waiting
  /\ phase = "store" => /\ todo \subseteq DOMAIN fresh /\ DOMAIN fresh \subseteq Names
                        /\ \A n \in DOMAIN fresh : fresh[n] \subseteq Streams /\ fresh[n] # {}

\* A channel object is played once at a time.
PlayingInv ==
  /\ IsFiniteSet(playing)
  /\ playing \subseteq [name : Names, object : 1 .. Imports, stream : Streams, counted : BOOLEAN]
  /\ \A p, q \in playing : p.name = q.name /\ p.object = q.object => p = q

ChannelsInv == \A n \in Known : channels[n] \in [streams : SUBSET Streams, object : 1 .. Imports]

ImportIInv == BatchInv /\ RunInv /\ PlayingInv /\ ChannelsInv /\ ImportInv

\* What would be served, were the run's channels the whole catalog.
FreshServed(s) == {n \in DOMAIN fresh : \E st \in fresh[n] : st[1] = s}
FreshServes(u) == UNION {FreshServed(s) : s \in {r \in Sources : Url[r] = u}}
Replacing      == phase \in {"store", "drop", "index"}

\* Why CommitIsWhole holds: an undisturbed run reads the list it was started for, its
\* channels are what the sources gave, and the map becomes exactly these channels.
CommitInv ==
  /\ \A i \in DOMAIN batch.list : ~batch.ok[i] => batch.got[i] = {}
  /\ phase = "fetch" /\ ~mixed => batch.list = list
  /\ Replacing => /\ DOMAIN fresh # {}
                  /\ \A n \in DOMAIN fresh \ (IF phase = "store" THEN todo ELSE {}) :
                       n \in Known /\ channels[n].streams = fresh[n]
  /\ Replacing /\ ~mixed => \A s \in Sources :
       FreshServed(s) = Got(s) \cup (IF Carried(s) THEN before[s] ELSE {})
  /\ phase = "drop" => todo = Known \ DOMAIN fresh
  /\ phase = "index" => Known = DOMAIN fresh

\* The inventory runs ahead of the catalog by what the run has fetched.
InventoryInv ==
  /\ InventoryIsServed
  /\ phase = "fetch" /\ clean /\ ~mixed => \A u \in Urls :
       \/ \E i \in DOMAIN batch.list : Url[batch.list[i]] = u /\ batch.ok[i] /\ inventory[u] = batch.got[i]
       \/ /\ \A i \in DOMAIN batch.list : Url[batch.list[i]] = u => ~batch.ok[i]
          /\ Serves(u) # {} => Records(u, Serves(u))
  /\ Replacing /\ clean => \A u \in Urls : FreshServes(u) # {} => Records(u, FreshServes(u))

\* No playlist is ahead of its generation, and one that was begun under the generation
\* in force has visited a catalog that does not change before the next.
PageInv ==
  /\ \A g \in DOMAIN cached : g \in 0 .. generation
  /\ render.at = "visit" => render.generation \in 0 .. generation
  /\ render.at = "visit" /\ render.generation = generation /\ phase \in {"idle", "fetch", "index"} =>
       render.names = Known \ render.left
  /\ PlaylistIsWhole /\ IndexIsCurrent

\* The stop signal is owed by one loop, and a restart in progress will add one.
RefreshInv ==
  /\ loops \in Seq({"wait", "import", "ended"}) /\ restart \in {"idle", "stopped", "importing"}
  /\ Cardinality(Alive) - (IF token THEN 1 ELSE 0) >= IF restart = "idle" THEN 1 ELSE 0

CatalogIInv == ImportIInv /\ CommitInv /\ InventoryInv /\ PageInv /\ RefreshInv

\* A run is published as one: the channels are those the fetched sources gave with
\* those of failed URLs carried forward, no older playlist and no older index passes as of
\* its generation, and the inventory is what is served (stream.go 347-480).
CommitIsWhole == CommitIsExact /\ PlaylistIsWhole /\ IndexIsCurrent /\ InventoryIsServed

\* A run that brings nothing leaves the channels there are, and one that was
\* accepted ends (stream.go 370, importctl.go TriggerImport).
ServiceGoesOn == NeverBlank /\ PendingClears
=============================================================================
