---------------------------- MODULE LocalLibrary ----------------------------
(***************************************************************************)
(* The local media library: the configured folders, the scanner that walks *)
(* them and stores what it finds, the administrator's edits, and the       *)
(* export snapshot from which requests resolve a local entry.              *)
(*                                                                         *)
(* Scans, the administrator and lookups run on goroutines of their own.    *)
(* One step is one database statement or transaction, one store to a       *)
(* shared pointer, or one pass over the disk.  A stored entry is what the  *)
(* parsers read (content) and the file's stamp read afterwards (mtime).    *)
(***************************************************************************)
EXTENDS Naturals, FiniteSets, Sequences, Functions

CONSTANTS
  Ids,            \* row ids of local sources, handed out in order
  Files,          \* media files, named by their absolute path
  RootFiles,      \* [directory -> the files under it]
  SourceDrafts,   \* the payloads an administrator posts
  StoredRow,      \* the row stored when the program starts
  Admits,         \* [pattern -> the files it lets through]; no other pattern compiles
  Scanners,       \* scan requests that may run at a time
  Lookers,        \* requests that resolve a local entry
  Sought,         \* the files they ask for
  MaxLibOps,      \* bound: administrator's operations, changes on disk and failed statements
  MaxScans,       \* bound: scans and edits started
  MaxLooks,       \* bound: lookups started
  MaxBusy,        \* bound: requests under way at a time
  NoSource,       \* an id that has no row
  NoSnapshot,     \* a cleared snapshot pointer
  Nobody          \* nobody holds exportMu

ASSUME LibraryAssumption ==
  /\ Ids = 1..Cardinality(Ids)
  /\ \A d \in DOMAIN RootFiles : RootFiles[d] \subseteq Files
  /\ \A p \in DOMAIN Admits : Admits[p] \subseteq Files
  /\ \A s \in SourceDrafts \cup {StoredRow} : s.root \in DOMAIN RootFiles
  /\ IsFiniteSet(Files) /\ Nobody \notin Lookers \cup Scanners

\* A row of kp_local_sources: a payload with the number of files last found.
RowOf(d, n) == [root |-> d.root, type |-> d.type, prefix |-> d.prefix, filter |-> d.filter,
                enabled |-> d.enabled, count |-> n]
Storable == {RowOf(d, n) : d \in SourceDrafts \cup {StoredRow}, n \in 0 .. Cardinality(Files)}

ASSUME RowAssumption == NoSource \notin Storable

VARIABLES
  disk,           \* [Files -> [there, ver]]
  mounted,        \* whether walking and opening files works
  src,            \* kp_local_sources
  nextId,         \* kp_local_sources' AUTOINCREMENT
  media,          \* kp_local_media: [Ids -> [path -> entry]]
  exportCache,    \* the snapshot, or NoSnapshot
  exportIndex,    \* the index stored next to it
  sourceRoots,    \* [Ids -> resolved root or NoSource]
  exportMu,       \* who builds the snapshot
  scan,           \* [Scanners -> scan record]
  editor,         \* the administrator's request
  look,           \* [Lookers -> lookup record]
  overlap,        \* history: a snapshot was built while a write was being announced
  libOps, libScans, libLooks

tables == <<src, nextId, media>>
exported == <<exportCache, exportIndex, sourceRoots>>
libBounds == <<libOps, libScans, libLooks>>
libVars == <<disk, mounted, src, nextId, media, exportCache, exportIndex, sourceRoots, exportMu,
             scan, editor, look, overlap, libOps, libScans, libLooks>>

NoFiles == [f \in {} |-> 0]
NoScan == [pc |-> "idle", kind |-> "all", id |-> 0, row |-> NoSource, cached |-> NoFiles, files |-> {},
           changed |-> {}, read |-> NoFiles, entries |-> NoFiles, then |-> "idle",
           quiet |-> TRUE, failed |-> FALSE, rest |-> NoFiles]
NoEdit == [pc |-> "idle", id |-> 0, clears |-> 0]
NoLook == [pc |-> "idle", id |-> 0, path |-> "", list |-> NoSnapshot, root |-> NoSource, reply |-> ""]

Readable == {f \in Files : mounted /\ disk[f].there}
Rows == {i \in Ids : src[i] # NoSource}

\* collect: what the walk finds, by the source's root and patterns.
collect(row) == Readable \cap RootFiles[row.root] \cap Admits[row.filter]
compileFilters(row) == row.filter \in DOMAIN Admits

\* parsePath: what the parsers make of a file under the row the scan has read.
parseFile(row, f) == [ver |-> disk[f].ver, type |-> row.type]
statFile(f) == IF f \in Readable THEN disk[f].ver ELSE 0

\* An entry as it is stored, and what an upsert makes of the stored ones.
Stamped(read, mtime) == [ver |-> read.ver, type |-> read.type, mtime |-> mtime]
Upserted(old, new) ==
  [f \in DOMAIN old \cup DOMAIN new |-> IF f \in DOMAIN new THEN new[f] ELSE old[f]]

\* ListAll joins the two tables; the prefixes are a query of their own.
Exported == {e \in Ids \X Files : e[1] \in Rows /\ e[2] \in DOMAIN media[e[1]] /\ src[e[1]].enabled}
ListAll == [e \in Exported |-> media[e[1]][e[2]]]
groupPrefixes == [i \in {j \in Rows : src[j].enabled} |-> src[i].prefix]
applyGroupPrefix(list, prefixes) ==
  [e \in DOMAIN list |-> [entry |-> list[e],
                          prefix |-> IF e[1] \in DOMAIN prefixes THEN prefixes[e[1]] ELSE ""]]

-----------------------------------------------------------------------------
LibInit ==
  /\ disk = [f \in Files |-> [there |-> TRUE, ver |-> 1]]
  /\ mounted = TRUE
  /\ src = [i \in Ids |-> IF i = 1 THEN RowOf(StoredRow, 0) ELSE NoSource]
  /\ nextId = 2
  /\ media = [i \in Ids |-> NoFiles]
  /\ exportCache = NoSnapshot /\ exportIndex = NoSnapshot
  /\ sourceRoots = [i \in Ids |-> NoSource]
  /\ exportMu = Nobody
  /\ scan = [s \in Scanners |-> NoScan]
  /\ editor = NoEdit
  /\ look = [l \in Lookers |-> NoLook]
  /\ overlap = FALSE
  /\ libOps = 0 /\ libScans = 0 /\ libLooks = 0

\* A request may start: fewer than MaxBusy are under way.
Busy == {s \in Scanners : scan[s] # NoScan} \cup {l \in Lookers : look[l].pc # "idle"}
MayStart == Cardinality(Busy) + (IF editor = NoEdit THEN 0 ELSE 1) < MaxBusy

\* Every running scan but me has company from now on.
Disturbed(me) == [s \in Scanners |-> IF s = me \/ scan[s] = NoScan THEN scan[s] ELSE [scan[s] EXCEPT !.quiet = FALSE]]

(***************************************************************************)
(* The disk, which the program does not control.                           *)
(***************************************************************************)
LibOperation == libOps < MaxLibOps /\ libOps' = libOps + 1

FileChanges(f) ==
  /\ LibOperation
  /\ \E there \in BOOLEAN :
       /\ there \/ disk[f].there
       /\ disk' = [disk EXCEPT ![f] = [there |-> there, ver |-> IF there THEN @.ver + 1 ELSE @.ver]]
  /\ scan' = Disturbed(Nobody)
  /\ UNCHANGED <<mounted, tables, exported, exportMu, editor, look, libScans, libLooks>>

MountChanges ==
  /\ LibOperation
  /\ mounted' = ~mounted
  /\ scan' = Disturbed(Nobody)
  /\ UNCHANGED <<disk, tables, exported, exportMu, editor, look, libScans, libLooks>>

(***************************************************************************)
(* InvalidateExport: the two pointers are cleared one after the other.     *)
(***************************************************************************)
clearCache == exportCache' = NoSnapshot /\ UNCHANGED <<exportIndex, sourceRoots>>
clearIndex ==
  /\ exportIndex' = NoSnapshot
  /\ sourceRoots' = [i \in Ids |-> NoSource]
  /\ UNCHANGED exportCache

(***************************************************************************)
(* The administrator's handlers for local sources.                         *)
(***************************************************************************)
Editing == MayStart /\ editor = NoEdit /\ LibOperation /\ scan' = Disturbed(Nobody)
              /\ UNCHANGED <<disk, mounted, exported, exportMu, look, libScans, libLooks>>

\* UNIQUE(path, media_type): a row that repeats another's is refused.
Unique(i, d) == \A j \in Rows \ {i} : src[j].root # d.root \/ src[j].type # d.type

handleCreateLocalSource(d) ==
  /\ Editing
  /\ nextId \in Ids /\ nextId' = nextId + 1
  /\ Unique(nextId, d)
  /\ src' = [src EXCEPT ![nextId] = RowOf(d, 0)]
  /\ editor' = [pc |-> "clear", id |-> nextId, clears |-> 1]
  /\ UNCHANGED media

handleUpdateLocalSource(i, d) ==
  /\ Editing
  /\ src[i] # NoSource /\ Unique(i, d)
  /\ src' = [src EXCEPT ![i] = RowOf(d, @.count)]
  /\ editor' = IF d.root # src[i].root \/ d.type # src[i].type
                 THEN [pc |-> "wipe", id |-> i, clears |-> 2]
                 ELSE [pc |-> "clear", id |-> i, clears |-> 1]
  /\ UNCHANGED <<nextId, media>>

\* Deleting a row takes its media with it (foreign key).
handleDeleteLocalSource(i) ==
  /\ Editing
  /\ src[i] # NoSource
  /\ src' = [src EXCEPT ![i] = NoSource]
  /\ media' = [media EXCEPT ![i] = NoFiles]
  /\ editor' = [pc |-> "clear", id |-> i, clears |-> 1]
  /\ UNCHANGED nextId

DeleteAllForSource ==
  /\ editor.pc = "wipe"
  /\ media' = [media EXCEPT ![editor.id] = NoFiles]
  /\ editor' = [editor EXCEPT !.pc = "clear"]
  /\ scan' = Disturbed(Nobody)
  /\ UNCHANGED <<disk, mounted, src, nextId, exported, exportMu, look, libBounds>>

EditorClears ==
  /\ \/ /\ editor.pc = "clear"
        /\ clearCache
        /\ editor' = [editor EXCEPT !.pc = "clear2"]
     \/ /\ editor.pc = "clear2"
        /\ clearIndex
        /\ editor' = IF editor.clears > 1 THEN [editor EXCEPT !.pc = "clear", !.clears = @ - 1] ELSE NoEdit
  /\ UNCHANGED <<disk, mounted, tables, exportMu, scan, look, libBounds>>

(***************************************************************************)
(* Scan, of one source or of every enabled one after the other (ScanAll),  *)
(* and the re-scan of one edited file (ScanFile).  The rows are read once, *)
(* when the request starts.                                                *)
(***************************************************************************)
Scanning(s, pc) ==
  /\ scan[s].pc = pc
  /\ UNCHANGED <<disk, mounted, exportMu, editor, look, libOps, libLooks>>

Alone(s) == \A t \in Scanners \ {s} : scan[t].pc = "idle"
NowStored(i, row) == src[i] # NoSource /\ src[i] = [row EXCEPT !.count = src[i].count]

\* A scan of source i by the row read of it, with the rows it has still to do.
Walking(s, i, row, rest) ==
  [NoScan EXCEPT !.pc = "walk", !.id = i, !.row = row, !.rest = rest,
                 !.quiet = Alone(s) /\ mounted /\ editor = NoEdit /\ NowStored(i, row),
                 !.cached = [f \in DOMAIN media[i] |-> media[i][f].mtime]]

\* The scan of a source is over, whatever became of it.
Onward(rest) == IF rest = NoFiles THEN NoScan ELSE [NoScan EXCEPT !.pc = "next", !.rest = rest, !.quiet = FALSE]

ScanStarts(s) ==
  /\ Scanning(s, "idle")
  /\ MayStart /\ libScans < MaxScans /\ libScans' = libScans + 1
  /\ UNCHANGED <<tables, exported>>

ScanBegins(s, i) ==
  /\ ScanStarts(s)
  /\ i \in Rows
  /\ compileFilters(src[i])
  /\ scan' = [Disturbed(Nobody) EXCEPT ![s] = Walking(s, i, src[i], NoFiles)]

ScanAll(s) ==
  /\ ScanStarts(s)
  /\ LET enabled == {i \in Rows : src[i].enabled} IN
       /\ enabled # {}
       /\ scan' = [Disturbed(Nobody) EXCEPT ![s] = Onward([i \in enabled |-> src[i]])]

\* The rows come in an order the administrator chooses.
NextSource(s, i) ==
  /\ Scanning(s, "next")
  /\ i \in DOMAIN scan[s].rest
  /\ LET row == scan[s].rest[i]
         rest == Restrict(scan[s].rest, DOMAIN scan[s].rest \ {i})
     IN \/ ~compileFilters(row) /\ scan' = [scan EXCEPT ![s] = Onward(rest)]
        \/ compileFilters(row) /\ scan' = [Disturbed(Nobody) EXCEPT ![s] = Walking(s, i, row, rest)]
  /\ UNCHANGED <<tables, exported, libScans>>

\* ApplyEdit looks the entry up and re-scans its file, whatever the walk would do.
EditBegins(s, i, f) ==
  /\ ScanStarts(s)
  /\ i \in Rows /\ f \in DOMAIN media[i] /\ f \in RootFiles[src[i].root] \cap Readable
  /\ scan' = [Disturbed(Nobody) EXCEPT
       ![s] = [NoScan EXCEPT !.pc = "parse", !.kind = "one", !.id = i, !.row = src[i], !.changed = {f}, !.quiet = FALSE]]

ScanWalks(s) ==
  /\ Scanning(s, "walk")
  /\ LET found == collect(scan[s].row) IN
       scan' = [scan EXCEPT ![s].pc = "parse", ![s].files = found,
                 ![s].changed = {f \in found : f \notin DOMAIN scan[s].cached \/ scan[s].cached[f] # statFile(f)}]
  /\ UNCHANGED <<tables, exported, libScans>>

\* process: parse and enrich, and stat the file only then.
ScanParses(s) ==
  /\ Scanning(s, "parse")
  /\ scan' = [scan EXCEPT ![s].pc = "stamp", ![s].read = [f \in scan[s].changed |-> parseFile(scan[s].row, f)]]
  /\ UNCHANGED <<tables, exported, libScans>>

process(s) ==
  /\ Scanning(s, "stamp")
  /\ scan' = [scan EXCEPT ![s].pc = "upsert",
                ![s].entries = [f \in scan[s].changed |-> Stamped(scan[s].read[f], statFile(f))]]
  /\ UNCHANGED <<tables, exported, libScans>>

\* A committed write is followed by InvalidateExport, then by the next step of the scan.
committedQuietly(s, next) == [Disturbed(s) EXCEPT ![s].pc = next]
committed(s, next) == [Disturbed(s) EXCEPT ![s].pc = "clear", ![s].then = next]

\* The foreign key of kp_local_media.
rowAssumed(id) == TRUE
rowReferenced(id) == src[id] # NoSource

\* One transaction; an empty batch announces nothing, a vanished row fails it.
UpsertBatch(s) ==
  /\ Scanning(s, "upsert")
  /\ LET sc == scan[s]
         next == IF sc.kind = "one" THEN "done" ELSE "evict"
     IN \/ /\ sc.entries = NoFiles
           /\ scan' = [scan EXCEPT ![s].pc = next]
           /\ UNCHANGED media
        \/ /\ sc.entries # NoFiles /\ ~rowReferenced(sc.id)
           /\ scan' = [scan EXCEPT ![s] = Onward(sc.rest)]
           /\ UNCHANGED media
        \/ /\ sc.entries # NoFiles /\ rowReferenced(sc.id)
           /\ media' = [media EXCEPT ![sc.id] = Upserted(@, sc.entries)]
           /\ scan' = committed(s, next)
  /\ UNCHANGED <<src, nextId, exported, libScans>>

evictWalkedOnly(sc) == {f \in DOMAIN media[sc.id] : f \notin sc.changed}

\* DeleteMissing: the stored paths the walk did not meet.
staleRows(sc) == {f \in DOMAIN media[sc.id] : f \notin sc.files}

DeleteMissing(s) ==
  /\ Scanning(s, "evict")
  /\ LET stale == staleRows(scan[s]) IN
       \/ /\ stale = {}
          /\ scan' = [scan EXCEPT ![s].pc = "touch"]
          /\ UNCHANGED media
       \/ /\ stale # {}
          /\ media' = [media EXCEPT ![scan[s].id] = Restrict(@, DOMAIN @ \ stale)]
          /\ scan' = committed(s, "touch")
  /\ UNCHANGED <<src, nextId, exported, libScans>>

ScanClears(s) ==
  /\ \/ Scanning(s, "clear") /\ clearCache /\ scan' = [scan EXCEPT ![s].pc = "clear2"]
     \/ Scanning(s, "clear2") /\ clearIndex
          /\ scan' = [scan EXCEPT ![s].pc = scan[s].then]
  /\ UNCHANGED <<tables, libScans>>

\* The count is that of the walk; the scan is over.
TouchLocalSourceScan(s) ==
  /\ Scanning(s, "touch")
  /\ src' = IF src[scan[s].id] = NoSource THEN src
            ELSE [src EXCEPT ![scan[s].id].count = Cardinality(scan[s].files)]
  /\ scan' = [scan EXCEPT ![s].pc = "done"]
  /\ UNCHANGED <<nextId, media, exported, libScans>>

ScanReturns(s) ==
  /\ Scanning(s, "done")
  /\ scan' = [scan EXCEPT ![s] = Onward(scan[s].rest)]
  /\ UNCHANGED <<tables, exported, libScans>>

\* A statement fails: a scan goes on without what it has stored, ends when it cannot
\* store what it read, and goes on past an eviction and a count it could not write.
StatementFails(s) ==
  /\ LibOperation
  /\ LET sc == scan[s] IN
       \/ /\ sc.pc = "walk"
          /\ scan' = [scan EXCEPT ![s].cached = NoFiles]
       \/ /\ sc.pc = "upsert" /\ sc.entries # NoFiles
          /\ scan' = [scan EXCEPT ![s] = Onward(sc.rest)]
       \/ /\ sc.pc = "evict"
          /\ scan' = [scan EXCEPT ![s].pc = "touch", ![s].failed = TRUE]
       \/ /\ sc.pc = "touch"
          /\ scan' = [scan EXCEPT ![s].pc = "done", ![s].failed = TRUE]
  /\ UNCHANGED <<disk, mounted, tables, exported, exportMu, editor, look, libScans, libLooks>>

(***************************************************************************)
(* FindByXCStreamID and PathWithinSource.                                  *)
(***************************************************************************)
Looking(l, pc) ==
  /\ look[l].pc = pc
  /\ UNCHANGED <<disk, mounted, tables, scan, editor, libOps, libScans>>
Replies(l, reply) == look' = [look EXCEPT ![l] = [NoLook EXCEPT !.reply = reply]]

LookBegins(l, i, f) ==
  /\ Looking(l, "idle")
  /\ MayStart /\ libLooks < MaxLooks /\ libLooks' = libLooks + 1
  /\ look' = [look EXCEPT ![l] = [NoLook EXCEPT !.pc = IF exportCache = NoSnapshot THEN "lock" ELSE "find",
                                                !.id = i, !.path = f]]
  /\ UNCHANGED <<exported, exportMu>>

\* exportSnapshot under exportMu: look again, list, prefix, publish.
LookLocks(l) ==
  /\ Looking(l, "lock")
  /\ exportMu = Nobody
  /\ \/ /\ exportCache # NoSnapshot
        /\ look' = [look EXCEPT ![l].pc = "find"]
        /\ UNCHANGED exportMu
     \/ /\ exportCache = NoSnapshot
        /\ exportMu' = l
        /\ look' = [look EXCEPT ![l].pc = "prefix", ![l].list = ListAll]
  /\ UNCHANGED <<exported, libLooks>>

exportSnapshot(l) ==
  /\ UNCHANGED <<sourceRoots, libLooks>>
  /\ \/ /\ Looking(l, "prefix")
        /\ look' = [look EXCEPT ![l].pc = "keep", ![l].list = applyGroupPrefix(@, groupPrefixes)]
        /\ UNCHANGED <<exportCache, exportIndex, exportMu>>
     \/ /\ Looking(l, "keep")
        /\ exportCache' = look[l].list
        /\ look' = [look EXCEPT ![l].pc = "index"]
        /\ UNCHANGED <<exportIndex, exportMu>>
     \/ /\ Looking(l, "index")
        /\ exportIndex' = look[l].list
        /\ exportMu' = Nobody
        /\ look' = [look EXCEPT ![l].pc = "find", ![l].list = NoSnapshot]
        /\ UNCHANGED exportCache

FindByXCStreamID(l) ==
  /\ Looking(l, "find")
  /\ IF exportIndex # NoSnapshot /\ <<look[l].id, look[l].path>> \in DOMAIN exportIndex
       THEN look' = [look EXCEPT ![l].pc = "root"]
       ELSE Replies(l, "not found")
  /\ UNCHANGED <<exported, exportMu, libLooks>>

\* sourceRoot: the cached root, or the row's, which is then cached.
sourceRoot(l) ==
  /\ UNCHANGED <<exportCache, exportIndex, exportMu, libLooks>>
  /\ \/ /\ Looking(l, "root") /\ sourceRoots[look[l].id] # NoSource
        /\ look' = [look EXCEPT ![l].pc = "serve", ![l].root = sourceRoots[look[l].id]]
        /\ UNCHANGED sourceRoots
     \/ /\ Looking(l, "root") /\ sourceRoots[look[l].id] = NoSource
        /\ IF src[look[l].id] = NoSource THEN Replies(l, "refused")
           ELSE look' = [look EXCEPT ![l].pc = "keeproot", ![l].root = src[look[l].id].root]
        /\ UNCHANGED sourceRoots
     \/ /\ Looking(l, "keeproot")
        /\ sourceRoots' = [sourceRoots EXCEPT ![look[l].id] = look[l].root]
        /\ look' = [look EXCEPT ![l].pc = "serve"]

PathWithinSource(l) ==
  /\ Looking(l, "serve")
  /\ Replies(l, IF look[l].path \in RootFiles[look[l].root] \cap Readable THEN "served" ELSE "refused")
  /\ UNCHANGED <<exported, exportMu, libLooks>>

-----------------------------------------------------------------------------
\* A write is committed and InvalidateExport has not finished.
Announcing ==
  \/ editor.pc \in {"wipe", "clear", "clear2"}
  \/ \E s \in Scanners : scan[s].pc \in {"clear", "clear2"}

\* overlap is raised while a build and an announcement meet, and lowered when an
\* announcement ends with nothing built and nothing kept.
Observe ==
  overlap' = /\ overlap \/ (exportMu' # Nobody /\ Announcing')
             /\ ~(Announcing /\ ~Announcing' /\ exportMu' = Nobody /\ exportCache' = NoSnapshot)

LibNext ==
  /\ \/ \E f \in Files : FileChanges(f)
     \/ MountChanges
     \/ \E d \in SourceDrafts : handleCreateLocalSource(d)
     \/ \E i \in Ids, d \in SourceDrafts : handleUpdateLocalSource(i, d)
     \/ \E i \in Ids : handleDeleteLocalSource(i)
     \/ DeleteAllForSource
     \/ EditorClears
     \/ \E s \in Scanners :
          \/ \E i \in Ids : ScanBegins(s, i)
          \/ ScanAll(s)
          \/ \E i \in Ids : NextSource(s, i)
          \/ \E i \in Ids, f \in Files : EditBegins(s, i, f)
          \/ ScanWalks(s)
          \/ ScanParses(s)
          \/ process(s)
          \/ UpsertBatch(s)
          \/ DeleteMissing(s)
          \/ ScanClears(s)
          \/ TouchLocalSourceScan(s)
          \/ ScanReturns(s)
          \/ StatementFails(s)
     \/ \E l \in Lookers :
          \/ \E i \in Rows, f \in Sought : LookBegins(l, i, f)
          \/ LookLocks(l)
          \/ exportSnapshot(l)
          \/ FindByXCStreamID(l)
          \/ sourceRoot(l)
          \/ PathWithinSource(l)
  /\ Observe

LibSpec == LibInit /\ [][LibNext]_libVars

-----------------------------------------------------------------------------
Entries(i) == DOMAIN media[i]

\* The tables, the pointers and the requests hold what their code puts there; only
\* a looker that builds the snapshot holds exportMu, and no entry outlives its row.
LibTypeOK ==
  /\ \A f \in Files : disk[f] \in [there : BOOLEAN, ver : Nat]
  /\ \A i \in Ids : Entries(i) \subseteq Files /\ (src[i] = NoSource => Entries(i) = {})
  /\ \A i \in Ids : \A f \in Entries(i) : media[i][f].mtime <= disk[f].ver
  /\ exportMu \in Lookers \cup {Nobody}
  /\ \A l \in Lookers : exportMu = l <=> look[l].pc \in {"prefix", "keep", "index"}
  /\ \A s \in Scanners : scan[s].files \subseteq Files

\* Scan: a scan by the row as it is stored that had the library and the disk to itself,
\* and whose eviction and count were written, leaves exactly the files the source
\* admits, each stamped as it is on disk - whatever mixture of finished, overtaken or
\* failed scans, moves and edits it found stored when it began.
QuietScanIsExact ==
  \A s \in Scanners : LET i == scan[s].id IN
    scan[s].pc = "done" /\ scan[s].quiet /\ ~scan[s].failed =>
      /\ Entries(i) = Readable \cap RootFiles[src[i].root] \cap Admits[src[i].filter]
      /\ \A f \in Entries(i) : media[i][f].mtime = disk[f].ver
      /\ src[i].count = Cardinality(Entries(i))

\* InvalidateExport: every write to the two tables is announced, so that a snapshot
\* built while no announcement was under way is the stored library of the enabled
\* sources under their prefixes, and its index knows the same entries.
SnapshotFollowsLibrary ==
  ~overlap /\ ~Announcing /\ exportMu = Nobody /\ exportCache # NoSnapshot =>
    /\ exportIndex = exportCache
    /\ DOMAIN exportCache = {e \in Ids \X Files : e[1] \in Rows /\ src[e[1]].enabled /\ e[2] \in Entries(e[1])}
    /\ \A e \in DOMAIN exportCache :
         exportCache[e] = [entry |-> media[e[1]][e[2]], prefix |-> src[e[1]].prefix]

\* A scan nobody disturbed leaves exactly the files on disk, and a snapshot taken after
\* all announcements lists nothing the library has dropped (Scan, exportSnapshot).
LibraryInv == LibTypeOK /\ QuietScanIsExact /\ SnapshotFollowsLibrary

\* Why LibraryInv holds.  The values are of the shape their code gives them.
ScanFields == {"pc", "kind", "id", "row", "cached", "files", "changed", "read", "entries", "then", "quiet", "failed", "rest"}
LookFields == {"pc", "id", "path", "list", "root", "reply"}
EditFields == {"pc", "id", "clears"}
ShapeInv ==
  /\ disk \in [Files -> [there : BOOLEAN, ver : Nat]]
  /\ src \in [Ids -> Storable \cup {NoSource}]
  /\ DOMAIN media = Ids /\ \A i \in Ids : \A f \in Entries(i) : media[i][f].mtime \in Nat
  /\ DOMAIN scan = Scanners /\ \A s \in Scanners : DOMAIN scan[s] = ScanFields
  /\ DOMAIN look = Lookers /\ \A l \in Lookers : DOMAIN look[l] = LookFields
  /\ DOMAIN editor = EditFields
  /\ \A s \in Scanners : scan[s].pc \notin {"idle", "next"} => scan[s].id \in Ids

\* What a scan carries was on the disk: no stamp is of the future.
Carries(s) ==
  /\ scan[s].changed \subseteq Files
  /\ DOMAIN scan[s].entries \subseteq Files
  /\ \A f \in DOMAIN scan[s].entries : scan[s].entries[f].mtime \in Nat /\ scan[s].entries[f].mtime <= disk[f].ver
CarriedInv == \A s \in Scanners : Carries(s)

\* The step of a scan that follows, behind an announcement.
Ahead(s) == IF scan[s].pc \in {"clear", "clear2"} THEN scan[s].then ELSE scan[s].pc

\* What a scan nobody disturbed has established at each of its steps.
Found(i) == Readable \cap RootFiles[src[i].root] \cap Admits[src[i].filter]
UpToDate(i, f) == f \in Entries(i) /\ media[i][f].mtime = disk[f].ver
Undisturbed(s) ==
  LET sc == scan[s]
      i == scan[s].id
  IN /\ Alone(s) /\ sc.kind = "all"
     /\ src[i] # NoSource /\ sc.row.root = src[i].root /\ sc.row.filter = src[i].filter
     /\ sc.pc # "next"
     /\ sc.pc = "walk" => DOMAIN sc.cached \subseteq Entries(i)
                           /\ \A f \in DOMAIN sc.cached : sc.cached[f] = media[i][f].mtime
     /\ sc.pc # "walk" => sc.files = Found(i)
     /\ sc.pc \in {"parse", "stamp", "upsert"} =>
          sc.changed \subseteq Found(i) /\ \A f \in Found(i) : f \in sc.changed \/ UpToDate(i, f)
     /\ sc.pc = "upsert" => DOMAIN sc.entries = sc.changed /\ \A f \in sc.changed : sc.entries[f].mtime = disk[f].ver
     /\ sc.pc \in {"clear", "clear2"} => sc.then \in {"evict", "touch", "done"}
     /\ Ahead(s) \in {"evict", "touch", "done"} => \A f \in Found(i) : UpToDate(i, f)
     /\ Ahead(s) \in {"touch", "done"} /\ ~sc.failed => Entries(i) \subseteq Found(i)
     /\ Ahead(s) = "done" /\ ~sc.failed => src[i].count = Cardinality(Found(i))
QuietInv == \A s \in Scanners : scan[s].pc # "idle" /\ scan[s].quiet => Undisturbed(s)

\* As long as no build has met an announcement, the first half of InvalidateExport leaves
\* no snapshot and nobody building one.
Clearing == editor.pc = "clear2" \/ \E s \in Scanners : scan[s].pc = "clear2"
ClearedInv == ~overlap /\ Clearing => exportCache = NoSnapshot /\ exportMu = Nobody

\* And between announcements what a builder has in hand is the stored library.
TheLibrary == applyGroupPrefix(ListAll, groupPrefixes)
BuiltInv ==
  ~overlap /\ ~Announcing =>
    /\ \A l \in Lookers :
         /\ look[l].pc = "prefix" => look[l].list = ListAll
         /\ look[l].pc \in {"keep", "index"} => look[l].list = TheLibrary
         /\ look[l].pc = "index" => exportCache = look[l].list
    /\ exportMu = Nobody /\ exportCache # NoSnapshot => exportCache = TheLibrary /\ exportIndex = exportCache

LibraryIInv == ShapeInv /\ LibTypeOK /\ CarriedInv /\ QuietInv /\ ClearedInv /\ BuiltInv

-----------------------------------------------------------------------------
(***************************************************************************)
(* What comments say and the code does not keep (see README.md).           *)
(***************************************************************************)
\* ApplyEdit, "so the stored row reflects exactly what is now on disk": after a quiet
\* scan the stored metadata was read from the file as it is, under the source's type.
MetadataIsCurrent ==
  \A s \in Scanners : scan[s].pc = "done" /\ scan[s].quiet =>
    \A f \in Entries(scan[s].id) :
      /\ media[scan[s].id][f].ver = disk[f].ver
      /\ media[scan[s].id][f].type = src[scan[s].id].type

\* Scan, "returns the total number of entries now stored for the source": also when the
\* eviction has failed.
TotalIsStored ==
  \A s \in Scanners : scan[s].pc = "done" /\ scan[s].quiet =>
    Cardinality(scan[s].files) = Cardinality(Entries(scan[s].id))

\* ScanAll, "runs a scan across every enabled local source": what it walks is enabled.
ScansTheEnabled ==
  [][\A s \in Scanners : \A i \in Ids : NextSource(s, i) /\ scan'[s].pc = "walk" =>
       src[i] # NoSource /\ src[i].enabled]_libVars

\* Scan, "evicts entries for files that no longer exist": and no others.
EvictsOnlyTheGone ==
  [][\A s \in Scanners : \A i \in Ids :
       DeleteMissing(s) /\ src[i] = src'[i] => \A f \in Entries(i) \ Entries(i)' :
         ~disk[f].there \/ f \notin RootFiles[src[i].root] \cap Admits[src[i].filter]]_libVars

\* InvalidateExport, "drops the cached export snapshot": once every write has been
\* announced, the snapshot is that of the stored library.
SnapshotIsCurrent ==
  ~Announcing /\ exportMu = Nobody /\ exportCache # NoSnapshot =>
    DOMAIN exportCache = DOMAIN ListAll

\* exportSnapshot publishes the snapshot and the index it is resolved through together.
IndexGoesWithSnapshot ==
  ~Announcing /\ exportMu = Nobody /\ exportCache # NoSnapshot => exportIndex = exportCache
=============================================================================
