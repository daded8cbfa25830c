------------------------------ MODULE ConfigStore ------------------------------
(***************************************************************************)
(* The configuration in its three places: the SQLite tables (stored), the  *)
(* object cached behind config.LoadConfig (cached) and the object the      *)
(* proxy works with, sp.Config (liveCfg).  Admin requests run concurrently *)
(* and PersistConfig writes the tables statement by statement, outside any *)
(* transaction (work/config/config.go, work/admin, work/db).               *)
(*                                                                         *)
(* Config objects are shared by pointer, so they live on a heap: cached    *)
(* and liveCfg are indexes into it.  An admin request is one actor's       *)
(* sequence of steps; the boot sequence (main.go) is the actor Boot.  A source keeps   *)
(* the fields the handlers decide by: its URL, its name (0 for the empty   *)
(* one), its order, its password, the profile it names, and whether its    *)
(* filters pass NormalizeFilters.                                          *)
(***************************************************************************)
EXTENDS Integers, Sequences, FiniteSets, SequencesExt, FiniteSetsExt

CONSTANTS Admins,        \* concurrent admin requests
          Boot,          \* the boot sequence of main.go
          SettingKeys,   \* the keys of kp_settings; "watcher" is one of them
          Docs,          \* documents an operator may post to /api/config
          JsonDoc,       \* the document in the legacy config.json
          ProfileNames,
          Mask,          \* maskedSecret
          Teams,         \* which operations each admin may request
          MaxCfgOps, MaxFaults   \* bounds on requests and on faults of every kind together

VARIABLES stored, heap, cached, liveCfg, cfgMutex, cfgPc, cfgJob, jsonFile,
          team, cfgOps, cfgCrashes, writeFails, loadFails,
          wanted         \* history: the source lists a finished or running save asked for

cfgVars == <<stored, heap, cached, liveCfg, cfgMutex, cfgPc, cfgJob, jsonFile,
             team, cfgOps, cfgCrashes, writeFails, loadFails, wanted>>
cfgBounds == <<team, cfgOps, cfgCrashes, writeFails, loadFails>>

Actors == Admins \cup {Boot}
Nobody == "nobody"
Unset == "unset"
NoProfile == ""
Tables == {"xc", "epg", "sd"}
NoJob == [kind |-> "none"]

UrlsOf(src) == {src[i].url : i \in DOMAIN src}
AllUrls == UNION {UrlsOf(d.src) : d \in Docs \cup {JsonDoc}}
\* The strings, those the code writes among them.
Strings == STRING \cup {"", "on", "off", Unset, Mask}
Row == [url : AllUrls, name : Nat, order : Int, pass : Strings, prof : Strings, filt : Strings]

ASSUME ConfigAssumption ==
  /\ Boot \notin Admins /\ Nobody \notin Actors /\ "watcher" \in SettingKeys
  /\ ProfileNames \subseteq Strings
  /\ \A d \in Docs \cup {JsonDoc} : d.set \in [SettingKeys -> Strings] /\ d.src \in Seq(Row)
  /\ JsonDoc.tab \in [Tables -> SUBSET Nat]

\* A posted value is a value, and a config.json is older than the profiles (migrate.go).
ASSUME DocumentAssumption ==
  /\ \A d \in Docs \cup {JsonDoc}, k \in SettingKeys : d.set[k] # Unset
  /\ \A i \in DOMAIN JsonDoc.src : JsonDoc.src[i].prof = NoProfile

ProfilesNamed(profs) == {p.name : p \in profs}

-----------------------------------------------------------------------------
(* Reading the tables.                                                     *)

\* getDefaultConfig: what LoadConfig falls back to when the tables cannot be read.
getDefaultConfig == [set |-> [k \in SettingKeys |-> "on"], src |-> <<>>, prof |-> {},
                     tab |-> [t \in Tables |-> {}]]

\* GetAllSources: the rows by sort_order, ties by row.  The n-th has n - 1 before it.
rowsBefore(src, i) ==
  {j \in DOMAIN src : src[j].order < src[i].order \/ (src[j].order = src[i].order /\ j < i)}
GetAllSources(src) ==
  [n \in DOMAIN src |-> src[CHOOSE i \in DOMAIN src : Cardinality(rowsBefore(src, i)) = n - 1]]

\* validateAndSetDefaults: a source without a name or an order takes its position.
validateAndSetDefaults(src) ==
  [i \in DOMAIN src |-> [src[i] EXCEPT !.name = IF @ = 0 THEN i ELSE @,
                                       !.order = IF @ <= 0 THEN i ELSE @]]

\* loadSourcesFromDB, loadEPGsFromDB, loadXCAccountsFromDB and loadSDAccountsFromDB take
\* the rows over field by field.
loadSourcesFromDB(rows) == GetAllSources(rows.src)
loadAccountsFromDB(rows) == rows.tab

\* loadFromDB: a missing setting keeps its default.
loadFromDB(rows) ==
  [set |-> [k \in SettingKeys |-> IF rows.set[k] = Unset THEN getDefaultConfig.set[k] ELSE rows.set[k]],
   src |-> validateAndSetDefaults(loadSourcesFromDB(rows)),
   prof |-> rows.prof, tab |-> loadAccountsFromDB(rows)]

-----------------------------------------------------------------------------
(* Looking a posted source up among the configured ones.                   *)

\* findSource: the first configured source with this URL, 0 for none.
findSource(cfg, url) ==
  LET hits == {i \in DOMAIN cfg.src : cfg.src[i].url = url}
  IN IF hits = {} THEN 0 ELSE Min(hits)

\* Mutant: a renamed source is not found by its URL.
findStoredByName(cfg, s) ==
  LET exact == {i \in DOMAIN cfg.src : cfg.src[i].url = s.url /\ cfg.src[i].name = s.name}
  IN IF exact # {} THEN Min(exact) ELSE 0

\* Mutant: the first source with the URL, whatever its name.
findStoredByURL(cfg, s) == findSource(cfg, s.url)

\* findStoredSource: by name and URL first, then by the URL alone.
findStoredSource(cfg, s) ==
  LET exact == {i \in DOMAIN cfg.src : cfg.src[i].url = s.url /\ cfg.src[i].name = s.name}
  IN IF exact # {} THEN Min(exact) ELSE findSource(cfg, s.url)

\* storedPassword: the credential a posted mask stands for, "" for an unknown source.
storedPassword(cfg, s) ==
  LET i == findStoredSource(cfg, s) IN IF i = 0 THEN "" ELSE cfg.src[i].pass

-----------------------------------------------------------------------------
ConfigInit ==
  /\ stored = [set |-> [k \in SettingKeys |-> Unset], src |-> <<>>, prof |-> {},
               tab |-> [t \in Tables |-> {}], next |-> 1]
  /\ heap = <<>> /\ cached = 0 /\ liveCfg = 0 /\ cfgMutex = Nobody
  /\ cfgPc = [a \in Actors |-> IF a = Boot THEN "boot" ELSE "idle"]
  /\ cfgJob = [a \in Actors |-> NoJob]
  /\ jsonFile \in {"present", "none"}
  /\ team \in Teams
  /\ cfgOps = 0 /\ cfgCrashes = 0 /\ writeFails = 0 /\ loadFails = 0
  /\ wanted = {{}, UrlsOf(JsonDoc.src)}

FaultAllowed == cfgCrashes + writeFails + loadFails < MaxFaults
Booted == cfgPc[Boot] = "idle"
CfgQuiet == \A a \in Actors : cfgPc[a] = "idle"

\* A new admin request of the given kind begins.
Begins(a, kind) ==
  /\ Booted /\ a \in Admins /\ cfgPc[a] = "idle" /\ kind \in team[a] /\ cfgOps < MaxCfgOps
  /\ cfgOps' = cfgOps + 1

Goes(a, to) == cfgPc' = [cfgPc EXCEPT ![a] = to]
Ends(a) == cfgPc' = [cfgPc EXCEPT ![a] = "idle"] /\ cfgJob' = [cfgJob EXCEPT ![a] = NoJob]

-----------------------------------------------------------------------------
(* Writing a whole configuration.                                          *)

\* maskSecret and handleGetConfig: what the admin page shows of the live object.
maskSecret(v) == IF v = "" THEN "" ELSE Mask

Shown(cfg) == [set |-> cfg.set,
               src |-> [i \in DOMAIN cfg.src |-> [cfg.src[i] EXCEPT !.pass = maskSecret(@)]]]

handleGetConfig(a) ==
  /\ Begins(a, "edit")
  /\ cfgJob' = [cfgJob EXCEPT ![a] = [kind |-> "page", page |-> Shown(heap[liveCfg])]]
  /\ Goes(a, "page")
  /\ UNCHANGED <<stored, heap, cached, liveCfg, cfgMutex, jsonFile, wanted, team, cfgCrashes, writeFails, loadFails>>

\* handleSetConfig up to PersistConfig: masked secrets are put back, the filters and
\* the named profile are checked against the live object.  A rejection changes nothing.
SetConfig(a, d) ==
  LET cfg == heap[liveCfg]
      src == [i \in DOMAIN d.src |->
                [d.src[i] EXCEPT !.pass = IF @ = Mask THEN storedPassword(cfg, d.src[i]) ELSE @]]
  IN /\ \A i \in DOMAIN src :
          LET j == findStoredSource(cfg, src[i]) IN
          /\ src[i].filt = "good" \/ (j # 0 /\ cfg.src[j].filt = src[i].filt)
          /\ src[i].prof # NoProfile => src[i].prof \in ProfilesNamed(cfg.prof)
     /\ cfgJob' = [cfgJob EXCEPT ![a] = [kind |-> "save", set |-> d.set, todo |-> SettingKeys, src |-> src]]
     /\ wanted' = {UrlsOf(stored.src), UrlsOf(src)}
     /\ Goes(a, "set")
     /\ UNCHANGED <<stored, heap, cached, liveCfg, cfgMutex, jsonFile, team, cfgCrashes, writeFails, loadFails>>

handleSetConfig(a, d) == Begins(a, "save") /\ SetConfig(a, d)

\* The page that was read is posted back as it is.
PostBack(a) == cfgPc[a] = "page" /\ SetConfig(a, cfgJob[a].page) /\ UNCHANGED cfgOps

\* SetSetting: one upsert of PersistConfig's loop, the map's keys in no fixed order.
SetSetting(a, k) ==
  /\ cfgPc[a] = "set" /\ k \in cfgJob[a].todo
  /\ stored' = [stored EXCEPT !.set[k] = cfgJob[a].set[k]]
  /\ cfgJob' = [cfgJob EXCEPT ![a].todo = @ \ {k}]
  /\ Goes(a, IF cfgJob[a].todo # {k} THEN "set" ELSE IF a = Boot THEN "insert" ELSE "wipe")
  /\ UNCHANGED <<heap, cached, liveCfg, cfgMutex, jsonFile, wanted, cfgBounds>>

\* syncSourcesToDB, its DELETE FROM kp_sources.
Wipe(a) ==
  /\ cfgPc[a] = "wipe"
  /\ stored' = [stored EXCEPT !.src = <<>>]
  /\ Goes(a, "insert")
  /\ UNCHANGED <<heap, cached, liveCfg, cfgMutex, cfgJob, jsonFile, wanted, cfgBounds>>

\* InsertSource: the next row.
InsertSource(a) ==
  /\ cfgPc[a] = "insert" /\ cfgJob[a].src # <<>>
  /\ stored' = [stored EXCEPT !.src = Append(@, Head(cfgJob[a].src))]
  /\ cfgJob' = [cfgJob EXCEPT ![a].src = Tail(@)]
  /\ UNCHANGED <<heap, cached, liveCfg, cfgMutex, cfgPc, jsonFile, wanted, cfgBounds>>

\* Mutant: the cached object is kept after the writes.
PersistedUncleared(a) ==
  /\ cfgPc[a] = "insert" /\ cfgJob[a].src = <<>> /\ a # Boot
  /\ wanted' = IF cfgJob[a].kind = "save" THEN {UrlsOf(stored.src)} ELSE wanted
  /\ Goes(a, IF cfgJob[a].kind = "toggle" THEN "watch" ELSE "load")
  /\ UNCHANGED <<stored, heap, cached, liveCfg, cfgMutex, cfgJob, jsonFile, cfgBounds>>

\* PersistConfig returns nil; inventory and series rows of removed sources are pruned.
Persisted(a) ==
  /\ cfgPc[a] = "insert" /\ cfgJob[a].src = <<>> /\ a # Boot
  /\ wanted' = IF cfgJob[a].kind = "save" THEN {UrlsOf(stored.src)} ELSE wanted
  /\ Goes(a, "clear")
  /\ UNCHANGED <<stored, heap, cached, liveCfg, cfgMutex, cfgJob, jsonFile, cfgBounds>>

\* One of PersistConfig's statements fails: the handler answers 500 and returns; the
\* migration returns to the boot sequence.
WriteFails(a) ==
  /\ cfgPc[a] \in {"set", "wipe", "insert"} /\ FaultAllowed
  /\ writeFails' = writeFails + 1
  /\ IF a = Boot THEN Goes(a, "load") /\ UNCHANGED cfgJob ELSE Ends(a)
  /\ UNCHANGED <<stored, heap, cached, liveCfg, cfgMutex, jsonFile, wanted, team, cfgOps, cfgCrashes, loadFails>>

-----------------------------------------------------------------------------
(* The cached object and the live pointer.                                 *)

\* ClearConfigCache.
ClearConfigCache(a) ==
  /\ cfgPc[a] = "clear" /\ cfgMutex = Nobody
  /\ cached' = 0
  /\ Goes(a, IF cfgJob[a].kind = "toggle" THEN "watch" ELSE "load")
  /\ UNCHANGED <<stored, heap, liveCfg, cfgMutex, cfgJob, jsonFile, wanted, cfgBounds>>

\* What a request carries through a load.
Carried(a) == IF cfgJob[a].kind = "toggle" THEN cfgJob[a].on ELSE "off"

AfterLoad(a, ptr) ==
  /\ cfgJob' = [cfgJob EXCEPT ![a] = [kind |-> cfgJob[a].kind, on |-> Carried(a), ptr |-> ptr]]
  /\ Goes(a, IF cfgJob[a].kind = "toggle" THEN "toggle" ELSE "swap")

\* LoadConfig: the cached object, or the mutex and the first of loadFromDB's queries.
LoadConfig(a) ==
  /\ cfgPc[a] = "load" /\ cfgMutex = Nobody
  /\ IF cached # 0 THEN AfterLoad(a, cached) /\ UNCHANGED cfgMutex
     ELSE /\ cfgMutex' = a
          /\ cfgJob' = [cfgJob EXCEPT ![a] = [kind |-> cfgJob[a].kind, on |-> Carried(a), rows |-> stored]]
          /\ Goes(a, "reading")
  /\ UNCHANGED <<stored, heap, cached, liveCfg, jsonFile, wanted, cfgBounds>>

\* Mutant: the object is published without freeing the mutex.
PublishLocked(a, cfg) ==
  /\ heap' = Append(heap, cfg)
  /\ cached' = Len(heap) + 1
  /\ UNCHANGED cfgMutex
  /\ AfterLoad(a, Len(heap) + 1)

\* The profiles are read by the last query; the object is published and the mutex freed.
Publish(a, cfg) ==
  /\ heap' = Append(heap, cfg)
  /\ cached' = Len(heap) + 1
  /\ cfgMutex' = Nobody
  /\ AfterLoad(a, Len(heap) + 1)

loadFilterProfilesFromDB(a) ==
  /\ cfgPc[a] = "reading"
  /\ Publish(a, loadFromDB([cfgJob[a].rows EXCEPT !.prof = stored.prof]))
  /\ UNCHANGED <<stored, liveCfg, jsonFile, wanted, cfgBounds>>

\* A query of loadFromDB fails: the defaults are cached instead.
LoadFails(a) ==
  /\ cfgPc[a] = "reading" /\ FaultAllowed
  /\ loadFails' = loadFails + 1
  /\ Publish(a, getDefaultConfig)
  /\ UNCHANGED <<stored, liveCfg, jsonFile, wanted, team, cfgOps, cfgCrashes, writeFails>>

\* Mutant: the loaded object is not handed to the proxy after boot.
SwapBootOnly(a) ==
  /\ cfgPc[a] = "swap"
  /\ liveCfg' = IF a = Boot THEN cfgJob[a].ptr ELSE liveCfg
  /\ Ends(a)
  /\ UNCHANGED <<stored, heap, cached, cfgMutex, jsonFile, wanted, cfgBounds>>

\* sp.Config = config.LoadConfig(), the last statement that matters of a save, of
\* reloadConfig, of the restart loop and of boot.
Swap(a) ==
  /\ cfgPc[a] = "swap"
  /\ liveCfg' = cfgJob[a].ptr
  /\ Ends(a)
  /\ UNCHANGED <<stored, heap, cached, cfgMutex, jsonFile, wanted, cfgBounds>>

\* RunRestartLoop reloads the configuration.
RunRestartLoop(a) ==
  /\ Begins(a, "restart")
  /\ cfgJob' = [cfgJob EXCEPT ![a] = [kind |-> "restart"]]
  /\ Goes(a, "clear")
  /\ UNCHANGED <<stored, heap, cached, liveCfg, cfgMutex, jsonFile, wanted, team, cfgCrashes, writeFails, loadFails>>

-----------------------------------------------------------------------------
(* handleToggleWatcher: the whole cached configuration is written back.    *)

handleToggleWatcher(a, v) ==
  /\ Begins(a, "toggle")
  /\ cfgJob' = [cfgJob EXCEPT ![a] = [kind |-> "toggle", on |-> v]]
  /\ Goes(a, "load")
  /\ UNCHANGED <<stored, heap, cached, liveCfg, cfgMutex, jsonFile, wanted, team, cfgCrashes, writeFails, loadFails>>

\* Mutant: the defaults with the new flag are persisted, as nothing else was asked for.
persistWatcherDefaults(a) ==
  /\ cfgPc[a] = "toggle"
  /\ LET cfg == [getDefaultConfig EXCEPT !.set["watcher"] = cfgJob[a].on]
     IN /\ heap' = [heap EXCEPT ![cfgJob[a].ptr].set["watcher"] = cfgJob[a].on]
        /\ cfgJob' = [cfgJob EXCEPT ![a] = [kind |-> "toggle", on |-> cfgJob[a].on, set |-> cfg.set,
                                      todo |-> SettingKeys, src |-> cfg.src]]
  /\ Goes(a, "set")
  /\ UNCHANGED <<stored, cached, liveCfg, cfgMutex, jsonFile, wanted, cfgBounds>>

\* persistWatcherConfig: the shared object is changed in place and persisted.
persistWatcherConfig(a) ==
  /\ cfgPc[a] = "toggle"
  /\ LET cfg == [heap[cfgJob[a].ptr] EXCEPT !.set["watcher"] = cfgJob[a].on]
     IN /\ heap' = [heap EXCEPT ![cfgJob[a].ptr] = cfg]
        /\ cfgJob' = [cfgJob EXCEPT ![a] = [kind |-> "toggle", on |-> cfgJob[a].on, set |-> cfg.set,
                                      todo |-> SettingKeys, src |-> cfg.src]]
  /\ Goes(a, "set")
  /\ UNCHANGED <<stored, cached, liveCfg, cfgMutex, jsonFile, wanted, cfgBounds>>

\* sp.Config.WatcherEnabled = request.Enabled
SetLiveWatcher(a) ==
  /\ cfgPc[a] = "watch"
  /\ heap' = [heap EXCEPT ![liveCfg].set["watcher"] = cfgJob[a].on]
  /\ Ends(a)
  /\ UNCHANGED <<stored, cached, liveCfg, cfgMutex, jsonFile, wanted, cfgBounds>>

-----------------------------------------------------------------------------
(* Shared filter profiles.  reloadConfig follows every change.             *)

Reloads(a) == cfgJob' = [cfgJob EXCEPT ![a] = [kind |-> "profile"]] /\ Goes(a, "clear")

\* handleCreateFilterProfile: the unique index refuses a name in use.
handleCreateFilterProfile(a, n) ==
  /\ Begins(a, "profile")
  /\ n \notin ProfilesNamed(stored.prof)
  /\ stored' = [stored EXCEPT !.prof = @ \cup {[id |-> stored.next, name |-> n]},
                              !.next = @ + 1]
  /\ Reloads(a)
  /\ UNCHANGED <<heap, cached, liveCfg, cfgMutex, jsonFile, wanted, team, cfgCrashes, writeFails, loadFails>>

\* Mutant: the sources keep the old name.
RenameProfileOnly(p, n) ==
  stored' = [stored EXCEPT !.prof = (@ \ {p}) \cup {[p EXCEPT !.name = n]}]

\* UpdateFilterProfile: the rename and the sources that named it, in one transaction.
UpdateFilterProfile(p, n) ==
  stored' = [stored EXCEPT
    !.prof = (@ \ {p}) \cup {[p EXCEPT !.name = n]},
    !.src = [i \in DOMAIN @ |-> IF @[i].prof = p.name THEN [@[i] EXCEPT !.prof = n] ELSE @[i]]]

handleUpdateFilterProfile(a, p, n) ==
  /\ Begins(a, "profile")
  /\ p \in stored.prof /\ n \notin ProfilesNamed(stored.prof \ {p})
  /\ UpdateFilterProfile(p, n)
  /\ Reloads(a)
  /\ UNCHANGED <<heap, cached, liveCfg, cfgMutex, jsonFile, wanted, team, cfgCrashes, writeFails, loadFails>>

\* handleDeleteFilterProfile: a profile that live sources name is refused unless forced.
handleDeleteFilterProfile(a, p, force) ==
  /\ Begins(a, "profile")
  /\ p \in stored.prof
  /\ force \/ \A i \in DOMAIN heap[liveCfg].src : heap[liveCfg].src[i].prof # p.name
  /\ cfgJob' = [cfgJob EXCEPT ![a] = [kind |-> "profile", id |-> p.id]]
  /\ Goes(a, "delete")
  /\ UNCHANGED <<stored, heap, cached, liveCfg, cfgMutex, jsonFile, wanted, team, cfgCrashes, writeFails, loadFails>>

\* DeleteFilterProfile: the row goes and its sources are detached, in one transaction.
DeleteFilterProfile(a) ==
  /\ cfgPc[a] = "delete"
  /\ LET gone == {p \in stored.prof : p.id = cfgJob[a].id} IN
     IF gone = {} THEN Ends(a) /\ UNCHANGED stored
     ELSE /\ stored' = [stored EXCEPT
               !.prof = @ \ gone,
               !.src = [i \in DOMAIN @ |-> IF @[i].prof \in ProfilesNamed(gone)
                                           THEN [@[i] EXCEPT !.prof = NoProfile] ELSE @[i]]]
          /\ Reloads(a)
  /\ UNCHANGED <<heap, cached, liveCfg, cfgMutex, jsonFile, wanted, cfgBounds>>

-----------------------------------------------------------------------------
(* The account tables: a row is written, then the table is read back and   *)
(* assigned to the live object's field.                                    *)

RowWritten(a, t, rows) ==
  /\ Begins(a, "table")
  /\ stored' = [stored EXCEPT !.tab[t] = rows]
  /\ cfgJob' = [cfgJob EXCEPT ![a] = [kind |-> "table", table |-> t]]
  /\ Goes(a, "rows")
  /\ UNCHANGED <<heap, cached, liveCfg, cfgMutex, jsonFile, wanted, team, cfgCrashes, writeFails, loadFails>>

\* Create, update (no row matches: nothing changes) or delete row 1 of the table.
handleXCAccount(a) == \E rows \in SUBSET {1} : RowWritten(a, "xc", rows)
handleEPG(a) == \E rows \in SUBSET {1} : RowWritten(a, "epg", rows)

\* An SD account's row and its lineups are separate statements: 0 is the bare row.
handleSDAccount(a) == \E rows \in SUBSET {0} : RowWritten(a, "sd", rows)

replaceSDLineups(a) ==
  /\ cfgPc[a] = "rows" /\ cfgJob[a].table = "sd" /\ 0 \in stored.tab["sd"]
  /\ stored' = [stored EXCEPT !.tab["sd"] = {1}]
  /\ UNCHANGED <<heap, cached, liveCfg, cfgMutex, cfgPc, cfgJob, jsonFile, wanted, cfgBounds>>

RowsRead(a, t) ==
  /\ cfgPc[a] = "rows" /\ cfgJob[a].table = t
  /\ t = "sd" => 0 \notin stored.tab["sd"]
  /\ cfgJob' = [cfgJob EXCEPT ![a] = [kind |-> "table", table |-> t, rows |-> stored.tab[t]]]
  /\ Goes(a, "assign")
  /\ UNCHANGED <<stored, heap, cached, liveCfg, cfgMutex, jsonFile, wanted, cfgBounds>>

GetAllXCAccounts(a) == RowsRead(a, "xc")
GetAllEPGs(a) == RowsRead(a, "epg")
GetAllSDAccountsWithLineups(a) == RowsRead(a, "sd")

RowsAssigned(a, t) ==
  /\ cfgPc[a] = "assign" /\ cfgJob[a].table = t
  /\ heap' = [heap EXCEPT ![liveCfg].tab[t] = cfgJob[a].rows]
  /\ Ends(a)
  /\ UNCHANGED <<stored, cached, liveCfg, cfgMutex, jsonFile, wanted, cfgBounds>>

reloadXCAccounts(a) == RowsAssigned(a, "xc")
reloadEPGs(a) == RowsAssigned(a, "epg")
reloadSDAccounts(a) == RowsAssigned(a, "sd")

-----------------------------------------------------------------------------
(* Boot, the one-time migration, and a crash.                              *)

\* Mutant: the migration runs whenever there is a config.json.
MigrateAlways ==
  /\ cfgPc[Boot] = "boot"
  /\ IF jsonFile = "present"
     THEN /\ cfgJob' = [cfgJob EXCEPT ![Boot] = [kind |-> "boot", set |-> JsonDoc.set,
                                           todo |-> SettingKeys, src |-> JsonDoc.src]]
          /\ Goes(Boot, "set")
     ELSE /\ cfgJob' = [cfgJob EXCEPT ![Boot] = [kind |-> "boot"]]
          /\ Goes(Boot, "load")
  /\ UNCHANGED <<stored, heap, cached, liveCfg, cfgMutex, jsonFile, wanted, cfgBounds>>

\* MigrateFromJSON runs only on an empty kp_settings with a config.json to read.
MigrateFromJSON ==
  /\ cfgPc[Boot] = "boot"
  /\ IF jsonFile = "present" /\ \A k \in SettingKeys : stored.set[k] = Unset
     THEN /\ cfgJob' = [cfgJob EXCEPT ![Boot] = [kind |-> "boot", set |-> JsonDoc.set,
                                           todo |-> SettingKeys, src |-> JsonDoc.src]]
          /\ Goes(Boot, "set")
     ELSE /\ cfgJob' = [cfgJob EXCEPT ![Boot] = [kind |-> "boot"]]
          /\ Goes(Boot, "load")
  /\ UNCHANGED <<stored, heap, cached, liveCfg, cfgMutex, jsonFile, wanted, cfgBounds>>

\* The remaining tables are filled and config.json is renamed; a failed rename only warns.
RenameJSON(renamed) ==
  /\ cfgPc[Boot] = "insert" /\ cfgJob[Boot].src = <<>>
  /\ stored' = [stored EXCEPT !.tab = JsonDoc.tab]
  /\ jsonFile' = IF renamed THEN "migrated" ELSE jsonFile
  /\ Goes(Boot, "load")
  /\ UNCHANGED <<heap, cached, liveCfg, cfgMutex, cfgJob, wanted, cfgBounds>>

\* The process dies and starts again: only the tables and config.json survive.
Crash ==
  /\ FaultAllowed
  /\ cfgCrashes' = cfgCrashes + 1
  /\ heap' = <<>> /\ cached' = 0 /\ liveCfg' = 0 /\ cfgMutex' = Nobody
  /\ cfgPc' = [a \in Actors |-> IF a = Boot THEN "boot" ELSE "idle"]
  /\ cfgJob' = [a \in Actors |-> NoJob]
  /\ UNCHANGED <<stored, jsonFile, wanted, team, cfgOps, writeFails, loadFails>>

Requests(a) ==
  \/ \E d \in Docs : handleSetConfig(a, d)
  \/ \E v \in {"on", "off"} : handleToggleWatcher(a, v)
  \/ RunRestartLoop(a) \/ handleGetConfig(a)
  \/ \E n \in ProfileNames : handleCreateFilterProfile(a, n)
  \/ \E p \in stored.prof, n \in ProfileNames : handleUpdateFilterProfile(a, p, n)
  \/ \E p \in stored.prof, f \in BOOLEAN : handleDeleteFilterProfile(a, p, f)
  \/ handleXCAccount(a) \/ handleEPG(a) \/ handleSDAccount(a)

Steps(a) ==
  \/ \E k \in SettingKeys : SetSetting(a, k)
  \/ PostBack(a) \/ Wipe(a) \/ InsertSource(a) \/ Persisted(a)
  \/ ClearConfigCache(a) \/ LoadConfig(a) \/ loadFilterProfilesFromDB(a) \/ Swap(a)
  \/ persistWatcherConfig(a) \/ SetLiveWatcher(a) \/ DeleteFilterProfile(a)
  \/ replaceSDLineups(a) \/ GetAllXCAccounts(a) \/ GetAllEPGs(a) \/ GetAllSDAccountsWithLineups(a)
  \/ reloadXCAccounts(a) \/ reloadEPGs(a) \/ reloadSDAccounts(a)

ConfigNext ==
  \/ \E a \in Admins : Requests(a)
  \/ \E a \in Actors : Steps(a) \/ WriteFails(a) \/ LoadFails(a)
  \/ MigrateFromJSON
  \/ \E r \in BOOLEAN : RenameJSON(r)
  \/ Crash

-----------------------------------------------------------------------------
(* Properties.                                                             *)

NoFaults == writeFails = 0 /\ loadFails = 0
Solo == \E a \in Admins : \A b \in Admins \ {a} : team[b] = {}
WritingKinds == {"save", "edit", "toggle", "profile"}
Writes(a) == team[a] \cap WritingKinds # {}
OnlyOne(kinds) == \A a, b \in Admins :
  team[a] \cap kinds # {} /\ team[b] \cap kinds # {} => a = b
OneWriter == OnlyOne(WritingKinds)

\* The bookkeeping of the store is well formed: a request reads only objects that
\* exist, and the mutex is held exactly while some request is inside loadFromDB.
CfgTypeOK ==
  /\ cached \in 0..Len(heap) /\ liveCfg \in 0..Len(heap)
  /\ Booted => liveCfg # 0
  /\ \A a \in Actors : (cfgPc[a] = "reading") = (cfgMutex = a)
  /\ \A a \in Actors : cfgPc[a] \in {"swap", "toggle"} => cfgJob[a].ptr \in 1..Len(heap)
  /\ wanted \subseteq SUBSET AllUrls

\* With one admin writing, however the others' restarts and table edits interleave, once
\* all requests have been answered the cached configuration holds the settings, sources
\* and profiles of the tables: ClearConfigCache comes after the writes and waits for a
\* load in progress (config.go:206-240).
CacheAgrees ==
  LET rows == loadFromDB(stored) IN
  CfgQuiet /\ cached # 0 /\ NoFaults =>
    /\ heap[cached].set = rows.set
    /\ heap[cached].src = rows.src
    /\ heap[cached].prof = rows.prof
CacheIsStored == OneWriter => CacheAgrees

\* The same whoever writes: a toggle ends by changing the live object, which may be the
\* cached one, after a newer toggle was stored (admin/system.go:67).
CacheIsStoredAlways == CacheAgrees

\* Between the requests of one admin the proxy works with exactly what is stored, the
\* account tables included, through crashes and restarts (admin/config.go:245-247:
\* "so the saved settings apply immediately").  The lists must be settled: the orders
\* that a load fills in leave the sources where they are.
Settled(src) ==
  LET read == validateAndSetDefaults(GetAllSources(src))
  IN validateAndSetDefaults(GetAllSources(read)) = read
AllSettled == \A d \in Docs \cup {JsonDoc} : Settled(d.src)
LiveAgrees == CfgQuiet /\ NoFaults => heap[liveCfg] = loadFromDB(stored)
LiveIsStored == Solo /\ AllSettled => LiveAgrees

\* The same for any list: sources with an order and sources without one, which a load
\* gives theirs and a toggle writes back, change places at the next read (config.go:718).
LiveIsStoredUnsettled == Solo => LiveAgrees

\* The same with any number of admins at work.
LiveIsStoredAlways == AllSettled => LiveAgrees

\* With one admin writing and restarting, a stored source never names a profile that does
\* not exist, at any point of a save, a rename, a delete or a crash in the middle of one
\* (admin/config.go:203-204, db/filterprofiles.go:66-69).
DanglingProfiles == {i \in DOMAIN stored.src :
  stored.src[i].prof # NoProfile /\ stored.src[i].prof \notin ProfilesNamed(stored.prof)}
ProfileExists == OnlyOne(WritingKinds \cup {"restart"}) => DanglingProfiles = {}

\* The same when another admin restarts: the restart may publish an object loaded before
\* a delete, and the next save is checked against that.
ProfileExistsRestart == OneWriter => DanglingProfiles = {}

\* The same whoever writes: a delete may fall between a save's check and its write.
ProfileExistsAlways == DanglingProfiles = {}

\* With one admin writing, no account of a provider is configured twice: neither a
\* replaced source list nor a config.json whose rename failed is inserted again
\* (db/migrate.go:18-26).
AccountsUnique == \A i, j \in DOMAIN stored.src :
  i # j => <<stored.src[i].url, stored.src[i].name>> # <<stored.src[j].url, stored.src[j].name>>
SourcesUnique == OneWriter => AccountsUnique

\* The same whoever writes: two saves delete and insert row by row.
SourcesUniqueAlways == AccountsUnique

\* Posting the page back as it was read asks for exactly the sources the proxy works
\* with, the secrets that the page showed only as a mask included, also when two
\* sources are accounts of one provider (admin/config.go:172-181).
PostedAsRead(a) == cfgPc[a] = "page" /\ cfgPc'[a] = "set" => cfgJob'[a].src = heap[liveCfg].src
PostBackKeeps == [][\A a \in Admins : Solo /\ NoFaults => PostedAsRead(a)]_cfgVars
\* The same while somebody else restarts the proxy or edits account tables.
PostBackKeepsAlways == [][\A a \in Admins : NoFaults => PostedAsRead(a)]_cfgVars

\* The stored accounts of a posted source's provider, as a load gives them, those that
\* have its name, and those that nothing in the document names.
OfUrl(s)        == {k \in DOMAIN stored.src : loadFromDB(stored).src[k].url = s.url}
Namesakes(s)    == {k \in OfUrl(s) : loadFromDB(stored).src[k].name = s.name}
Unnamed(d, s)   == {k \in OfUrl(s) : \A i \in DOMAIN d.src : k \notin Namesakes(d.src[i])}
SecretOf(k)     == loadFromDB(stored).src[k].pass

\* "Credentials are masked on read; a value posted back unchanged means keep the stored
\* secret" (admin/config.go:172-173): a save that posts the mask stores the secret that the
\* tables hold for that very account, where its name and URL tell it or it is the only
\* account of its provider, and none for a provider that is not stored.
SecretKept ==
  [][\A a \in Admins, d \in Docs : Solo /\ AllSettled /\ NoFaults /\ handleSetConfig(a, d) =>
       \A i \in {j \in DOMAIN d.src : d.src[j].pass = Mask} :
         LET s == d.src[i]
         IN /\ \A k \in OfUrl(s) : k \in Namesakes(s) \/ OfUrl(s) = {k} => cfgJob'[a].src[i].pass = SecretOf(k)
            /\ OfUrl(s) = {} => cfgJob'[a].src[i].pass = ""]_cfgVars

\* Violated: "so renaming a source in the modal does not detach it from what is stored"
\* (admin/sources.go:33-35): of several accounts of a provider the one that nothing else
\* in the document names is the one that was renamed, but the first by URL is taken.
SecretKeptRenamed ==
  [][\A a \in Admins, d \in Docs : Solo /\ AllSettled /\ NoFaults /\ handleSetConfig(a, d) =>
       \A i \in {j \in DOMAIN d.src : d.src[j].pass = Mask} :
         LET s == d.src[i]
         IN \A k \in OfUrl(s) :
              Namesakes(s) = {} /\ Unnamed(d, s) = {k} => cfgJob'[a].src[i].pass = SecretOf(k)]_cfgVars

\* As long as no statement fails and the process does not die, only a save decides which
\* providers are configured: toggling the watcher (which writes the whole cached
\* configuration back), restarting or editing profiles leaves them alone.
SourcesWanted == CfgQuiet => UrlsOf(stored.src) \in wanted
SourcesSurvive == OneWriter /\ NoFaults /\ cfgCrashes = 0 => SourcesWanted
\* The same through a crash in the middle of a save.
SourcesSurviveCrash == OneWriter /\ NoFaults => SourcesWanted
\* The same when the tables could not be read once.
SourcesSurviveReadError == OneWriter /\ writeFails = 0 /\ cfgCrashes = 0 => SourcesWanted
\* The same for two admins.
SourcesSurviveAlways == NoFaults /\ cfgCrashes = 0 => SourcesWanted

\* What a reader gets is what is stored: once nobody is in the middle of a request a
\* cached configuration is that of the tables (LoadConfig, ClearConfigCache, PersistConfig, the restart).
StoredIsRead == CfgTypeOK /\ CacheIsStored

\* The configured providers are those of the last save, in the tables and in the object
\* the proxy works with: no toggle, restart, profile edit or migration adds, loses or
\* repeats one or leaves it without its profile.
ProvidersAreKept == LiveIsStored /\ ProfileExists /\ SourcesUnique /\ SourcesSurvive

\* What a page posts back unchanged stays what it was, secrets it never saw
\* included (admin/config.go 165-250).
EditsKeep == SecretKept /\ PostBackKeeps

-----------------------------------------------------------------------------
(* Why StoredIsRead holds.                                                 *)

Profile == [id : Nat, name : ProfileNames]
Content == [set : [SettingKeys -> Strings], src : Seq(Row), prof : SUBSET Profile,
            tab : [Tables -> SUBSET Nat]]
Rows == [set : [SettingKeys -> Strings], src : Seq(Row), prof : SUBSET Profile,
         tab : [Tables -> SUBSET Nat], next : Nat]
Flags == {"on", "off"}
SaveJob == [kind : {"save", "boot"}, set : [SettingKeys -> Strings], todo : SUBSET SettingKeys,
            src : Seq(Row)]
ToggleJob == [kind : {"toggle"}, on : Flags, set : [SettingKeys -> Strings],
              todo : SUBSET SettingKeys, src : Seq(Row)]

\* A toggle that has begun to write the configuration back.
WritesFlag(a) == cfgPc[a] \in {"set", "wipe", "insert", "clear", "watch"} /\ cfgJob[a].kind = "toggle"

StoreTypes == /\ stored \in Rows /\ heap \in Seq(Content)
              /\ DOMAIN cfgPc = Actors /\ DOMAIN cfgJob = Actors
              /\ writeFails \in Nat /\ loadFails \in Nat

\* What a request carries at each of its steps.
JobTyped(a) ==
  /\ cfgPc[a] = "page" => /\ cfgJob[a].page \in [set : [SettingKeys -> Strings], src : Seq(Row)]
                         /\ cfgJob[a].kind = "page"
  /\ cfgPc[a] \in {"set", "wipe", "insert"} => /\ cfgJob[a] \in SaveJob \cup ToggleJob
                                               /\ cfgJob[a].kind = "boot" => a = Boot
  /\ cfgJob[a].kind = "toggle" => cfgJob[a].on \in Flags
  /\ cfgPc[a] \in {"toggle", "watch"} => cfgJob[a].kind = "toggle"
  /\ WritesFlag(a) => /\ cfgJob[a] \in ToggleJob /\ cfgJob[a].set["watcher"] = cfgJob[a].on
                      /\ cfgPc[a] # "set" => "watcher" \notin cfgJob[a].todo
  /\ cfgPc[a] \in {"wipe", "insert"} => cfgJob[a].todo = {}
  /\ cfgPc[a] = "reading" => cfgJob[a].rows \in Rows
  /\ cfgPc[a] \in {"rows", "assign"} => cfgJob[a].kind = "table"
  /\ cfgPc[a] = "assign" => cfgJob[a].rows \in SUBSET Nat
JobTypes == \A a \in Actors : JobTyped(a)

\* Boot runs alone, and nothing is cached until its load.
BootInv ==
  /\ cfgPc[Boot] \in {"boot", "set", "insert", "load", "reading", "swap", "idle"}
  /\ ~Booted => \A a \in Admins : cfgPc[a] = "idle"
  /\ cfgPc[Boot] \in {"boot", "set", "insert"} => cached = 0
  /\ cfgPc[Boot] \notin {"boot", "idle"} => cfgJob[Boot].kind = "boot"

\* Only an admin who may write is in the middle of writing settings.
TeamInv == \A a \in Admins : cfgJob[a].kind \in {"page", "save", "toggle"} => Writes(a)

\* The flag of a toggle is in the tables from the moment it was written there: nobody else
\* writes settings meanwhile.
WatchInv == OneWriter => \A a \in Admins :
  WritesFlag(a) /\ "watcher" \notin cfgJob[a].todo => stored.set["watcher"] = cfgJob[a].on

\* While no request is between its first write and its clear, the cached object and what
\* a load in progress has read are what the tables hold.
Calm == \A a \in Actors : cfgPc[a] \notin {"set", "wipe", "insert", "clear"}
CacheInv ==
  OneWriter /\ NoFaults /\ Calm =>
    /\ cached # 0 => LET rows == loadFromDB(stored) IN
                     /\ heap[cached].set = rows.set
                     /\ heap[cached].src = rows.src
                     /\ heap[cached].prof = rows.prof
    /\ \A a \in Actors : cfgPc[a] = "reading" =>
         cfgJob[a].rows.set = stored.set /\ cfgJob[a].rows.src = stored.src

StoreIInv == CfgTypeOK /\ StoreTypes /\ JobTypes /\ BootInv /\ TeamInv /\ WatchInv /\ CacheInv

-----------------------------------------------------------------------------
(* Why ProvidersAreKept holds.                                             *)

\* A document that lists an account twice is stored as it is: the accounts of one provider
\* are to be named, and apart.
ListedOnce(src) == \A i, j \in DOMAIN src :
  i # j /\ src[i].url = src[j].url => src[i].name # 0 /\ src[i].name # src[j].name
DocsListOnce == \A d \in Docs \cup {JsonDoc} : ListedOnce(d.src)

\* The sources with an order come after the places that those without one take.
Unordered(src) == {j \in DOMAIN src : src[j].order <= 0}
OrdersFit(src) == \A i \in DOMAIN src : src[i].order > 0 => src[i].order >= Cardinality(Unordered(src))
Fine(src) == (DocsListOnce => ListedOnce(src)) /\ (AllSettled => OrdersFit(src))

\* What the table of sources becomes when an actor has written its list.
Writing(a) == cfgPc[a] \in {"set", "wipe", "insert"}
Coming(a) == IF cfgPc[a] = "insert" THEN stored.src \o cfgJob[a].src ELSE cfgJob[a].src

\* With one writer every list of sources is as good as the documents were.
FineAt(a) ==
  /\ Writing(a) => Fine(Coming(a))
  /\ cfgPc[a] = "reading" => Fine(cfgJob[a].rows.src)
  /\ cfgPc[a] = "page" => Fine(cfgJob[a].page.src)
FineInv ==
  OneWriter => /\ Fine(stored.src)
               /\ \A h \in DOMAIN heap : Fine(heap[h].src)
               /\ \A a \in Actors : FineAt(a)

\* A key that was written has a value from then on, and sources are written after the
\* settings: a migration meets no sources.
Valued(set) == \A k \in SettingKeys : set[k] # Unset
KeysAt(a) ==
  /\ Writing(a) => Valued(cfgJob[a].set) /\ \A k \in SettingKeys \ cfgJob[a].todo : stored.set[k] # Unset
  /\ cfgPc[a] = "page" => Valued(cfgJob[a].page.set)
KeysInv ==
  /\ stored.src # <<>> => stored.set["watcher"] # Unset
  /\ \A h \in DOMAIN heap : Valued(heap[h].set)
  /\ \A a \in Actors : KeysAt(a)
  /\ cfgPc[Boot] = "set" => stored.src = <<>>

\* Who may be in the middle of what.
Acting == WritingKinds \cup {"restart"}
WorkAt(a) ==
  /\ cfgPc[a] # "idle" => team[a] # {}
  /\ cfgPc[a] \notin {"idle", "rows", "assign"} => team[a] \cap Acting # {}
  /\ cfgPc[a] = "delete" \/ cfgJob[a].kind = "profile" => Writes(a)
  /\ cfgPc[a] \in {"clear", "load", "reading", "swap"} => cfgJob[a].kind \in {"save", "toggle", "profile", "restart"}
WorkInv == \A a \in Admins : WorkAt(a)

\* Between a statement of a writer and its clear the cached object may be an older one.
StaleAt(a) == Writing(a) \/ (cfgPc[a] = "clear" /\ cfgJob[a].kind \in {"save", "toggle"})
Stale == \E a \in Actors : StaleAt(a)
WantedAt(a) ==
  /\ Writing(a) => UrlsOf(Coming(a)) \in wanted
  /\ ~Stale /\ cfgPc[a] = "reading" => UrlsOf(cfgJob[a].rows.src) = UrlsOf(stored.src)
  /\ cfgPc[a] = "toggle" => UrlsOf(heap[cfgJob[a].ptr].src) = UrlsOf(stored.src)
WantedInv ==
  /\ cfgCrashes \in Nat
  /\ OneWriter /\ NoFaults /\ cfgCrashes = 0 =>
       /\ ~Booted => wanted = {{}, UrlsOf(JsonDoc.src)}
       /\ cfgPc[Boot] = "boot" => stored.src = <<>>
       /\ (\A a \in Actors : ~Writing(a)) => UrlsOf(stored.src) \in wanted
       /\ ~Stale /\ cached # 0 => UrlsOf(heap[cached].src) = UrlsOf(stored.src)
       /\ \A a \in Actors : WantedAt(a)

\* Only profiles that exist are named, by the sources and by whatever will be stored or
\* checked against; a change of the profiles is followed by a clear.
Named(src) == {src[i].prof : i \in DOMAIN src} \ {NoProfile}
Known == ProfilesNamed(stored.prof)
Sound(cfg) == ProfilesNamed(cfg.prof) \subseteq Known /\ Named(cfg.src) \subseteq Known
Changing(a) == cfgJob[a].kind = "profile" /\ cfgPc[a] \in {"clear", "load", "reading", "swap"}
Clearing(a) == cfgJob[a].kind = "profile" /\ cfgPc[a] = "clear"
ProfileAt(a) ==
  /\ Writing(a) => Named(cfgJob[a].src) \subseteq Known
  /\ cfgPc[a] = "reading" => Named(cfgJob[a].rows.src) \subseteq Known
  /\ cfgPc[a] \in {"swap", "toggle"} => Sound(heap[cfgJob[a].ptr])
ProfileInv ==
  OnlyOne(Acting) =>
    /\ Named(stored.src) \subseteq Known
    /\ liveCfg # 0 /\ (\A a \in Actors : ~Changing(a)) => Sound(heap[liveCfg])
    /\ cached # 0 /\ (\A a \in Actors : ~Clearing(a)) => Sound(heap[cached])
    /\ \A a \in Actors : ProfileAt(a)

\* One admin by itself: the object the proxy works with is what the tables give, but for
\* what the request under way has changed and not yet loaded or assigned.
Sees(src) == validateAndSetDefaults(GetAllSources(src))
Toggling(a) == cfgJob[a].kind = "toggle"
ToggledTo(a) == [set |-> cfgJob[a].set, src |-> IF Writing(a) THEN Coming(a) ELSE stored.src,
                 prof |-> stored.prof, tab |-> stored.tab]
LiveAt(a) ==
  /\ cfgPc[a] \in {"idle", "page", "delete"} \/ (Toggling(a) /\ cfgPc[a] \in {"load", "reading", "toggle"}) =>
       heap[liveCfg] = loadFromDB(stored)
  /\ cfgPc[a] \in {"idle", "page", "delete", "rows", "assign"} \/ (Toggling(a) /\ cfgPc[a] = "load") =>
       cached \in {0, liveCfg}
  /\ cfgPc[a] \in {"rows", "assign"} =>
       /\ cfgJob[a].table \in Tables
       /\ [heap[liveCfg] EXCEPT !.tab[cfgJob[a].table] = stored.tab[cfgJob[a].table]] = loadFromDB(stored)
  /\ cfgPc[a] = "assign" => cfgJob[a].rows = stored.tab[cfgJob[a].table]
  /\ cfgPc[a] = "watch" \/ (cfgPc[a] = "load" /\ ~Toggling(a)) => cached = 0
  /\ cfgPc[a] = "reading" => cfgJob[a].rows = stored
  /\ cfgPc[a] \in {"swap", "toggle"} => heap[cfgJob[a].ptr] = loadFromDB(stored)
  /\ cfgPc[a] = "swap" => cached = cfgJob[a].ptr
  /\ WritesFlag(a) =>
       /\ [heap[liveCfg] EXCEPT !.set["watcher"] = cfgJob[a].on] = ToggledTo(a)
       /\ Sees(ToggledTo(a).src) = ToggledTo(a).src
       /\ Valued(cfgJob[a].set)
       /\ \A k \in SettingKeys \ cfgJob[a].todo : stored.set[k] = cfgJob[a].set[k]
       /\ cfgPc[a] # "set" => cfgJob[a].todo = {}
LiveInv ==
  Solo /\ AllSettled /\ NoFaults =>
    \A a \in Actors : (\A b \in Actors \ {a} : cfgPc[b] = "idle") => LiveAt(a)

ProvidersIInv == FineInv /\ KeysInv /\ WorkInv /\ WantedInv /\ ProfileInv /\ LiveInv

ConfigSpec == ConfigInit /\ [][ConfigNext]_cfgVars
=============================================================================
