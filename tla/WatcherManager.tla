--------------------------- MODULE WatcherManager ---------------------------
(***************************************************************************)
(* The registry of stream watchers (work/watcher/watcher.go).  A client's  *)
(* handler starts a watcher for its channel unless IsWatching says there   *)
(* is one (proxy/stream.go HandleRestreamingClient); every watcher takes a *)
(* slot of a system-wide semaphore.  Watchers leave the registry when they *)
(* are replaced, when the manager is stopped, or when the cleanup routine  *)
(* finds their restreamer stopped; whoever takes one out gives its slot    *)
(* back.  Handlers, administrators, cleanup routines and the watchers      *)
(* themselves are goroutines that meet only in the registry, which is a    *)
(* concurrent map, and in the semaphore, which is a buffered channel.      *)
(*                                                                         *)
(* What a watcher does about a sick stream is the subject of Restreamer    *)
(* and WatcherHealth.                                                      *)
(***************************************************************************)
EXTENDS Integers, FiniteSets

CONSTANTS
  Chans,        \* channels
  Calls,        \* calls of StartWatching, each used once; also the watcher it makes
  Admins,       \* goroutines that call Start and Stop
  Routines,     \* bound: slots for cleanupRoutine goroutines
  None,         \* no watcher, no channel
  MaxWatchers,  \* WatcherMaxConcurrent, the capacity of the semaphore
  MaxStarts     \* bound: calls of Start

Actors == Calls \cup Admins \cup Routines

ASSUME ActorAssumption ==
  /\ IsFiniteSet(Calls) /\ None \notin Calls /\ None \notin Chans
  /\ Calls \cap Admins = {} /\ Calls \cap Routines = {} /\ Admins \cap Routines = {}
ASSUME BoundAssumption == MaxWatchers \in Nat \ {0} /\ MaxStarts \in Nat

VARIABLES
  running,    \* the channels whose restreamer is running
  orphaned,   \* the calls whose restreamer object the channel has replaced
  registry,   \* wm.watchers: the watcher of each channel, or None
  sem,        \* how many slots of watcherSemaphore are taken
  call,       \* where each call of StartWatching is
  chan,       \* the channel it is for
  removed,    \* the watcher an actor took out and whose slot it has to release
  watch,      \* where the Watch goroutine of each watcher is
  cancelled,  \* the watchers whose context is cancelled
  lost,       \* history: watchers overwritten in the registry
  wanted,     \* sp.Config.WatcherEnabled
  enabled,    \* wm.enabled
  stopChan,   \* the number of the channel in wm.stopChan
  closed,     \* the stop channels that are closed
  admin,      \* where each administrator is
  again,      \* the administrators that start the manager again after Stop
  routine,    \* where each cleanup routine is
  heard,      \* the stop channel that the select of a cleanup routine waits on
  target,     \* the channel a cleanup routine is about to take out
  todo        \* the channels an actor's Range has still to visit

registryVars == <<registry, sem, removed, lost>>
callVars     == <<call, chan, orphaned>>
watchVars    == <<watch, cancelled>>
adminVars    == <<wanted, enabled, stopChan, closed, admin, again>>
routineVars  == <<routine, heard, target>>
managerVars  == <<adminVars, routineVars, todo>>
vars == <<running, registryVars, callVars, watchVars, managerVars>>

Registered == {w \in Calls : \E ch \in Chans : registry[ch] = w}
IsWatching(ch) == registry[ch] # None

\* watcher.restreamer.Running: of the restreamer object the watcher was given.
Runs(w) == chan[w] \in running /\ w \notin orphaned

Init ==
  /\ running = {} /\ orphaned = {}
  /\ registry = [ch \in Chans |-> None]
  /\ sem = 0
  /\ call = [c \in Calls |-> "idle"]
  /\ chan = [c \in Calls |-> None]
  /\ removed = [a \in Actors |-> None]
  /\ watch = [w \in Calls |-> "none"] /\ cancelled = {}
  /\ lost = {}
  /\ wanted = FALSE /\ enabled = FALSE /\ stopChan = 0 /\ closed = {}
  /\ admin = [a \in Admins |-> "idle"] /\ again = {}
  /\ routine = [r \in Routines |-> "none"]
  /\ heard = [r \in Routines |-> 0] /\ target = [r \in Routines |-> None]
  /\ todo = [a \in Actors |-> {}]

\* LoadAndDelete and the watcher's Stop: the caller that found the entry owes a
\* release of its slot.
TakeOut(a, ch) ==
  /\ registry[ch] # None
  /\ removed' = [removed EXCEPT ![a] = registry[ch]]
  /\ cancelled' = cancelled \cup {registry[ch]}
  /\ registry' = [registry EXCEPT ![ch] = None]

\* <-watcherSemaphore, which blocks while no slot is taken.
Release(a) ==
  /\ removed[a] # None /\ sem > 0
  /\ sem' = sem - 1
  /\ removed' = [removed EXCEPT ![a] = None]

-----------------------------------------------------------------------------
(* A client's handler: IsWatching, then StartWatching *)

\* The restreamer of a channel starts or stops.
Toggle(ch) ==
  /\ running' = IF ch \in running THEN running \ {ch} ELSE running \cup {ch}
  /\ UNCHANGED <<registryVars, callVars, watchVars, managerVars>>

\* RestreamCleanup drops the stopped restreamer of an idle channel; the next
\* client makes another one, which the watcher of the old one never sees.
Discard(ch) ==
  /\ ch \notin running
  /\ orphaned' = orphaned \cup {w \in Calls : chan[w] = ch}
  /\ UNCHANGED <<running, registryVars, call, chan, watchVars, managerVars>>

CallCheck(c, ch) ==
  /\ call[c] = "idle" /\ wanted /\ ch \in running /\ ~IsWatching(ch)
  /\ call' = [call EXCEPT ![c] = "acquire"]
  /\ chan' = [chan EXCEPT ![c] = ch]
  /\ UNCHANGED <<running, orphaned, registryVars, watchVars, managerVars>>

\* Fault: the semaphore is not consulted.
CallAcquireUnbounded(c) ==
  /\ call[c] = "acquire"
  /\ sem' = sem + 1 /\ call' = [call EXCEPT ![c] = "replace"]
  /\ UNCHANGED <<running, registry, removed, lost, chan, orphaned, watchVars, managerVars>>

\* Without a free slot the channel stays unwatched.
CallAcquire(c) ==
  /\ call[c] = "acquire"
  /\ \/ sem < MaxWatchers /\ sem' = sem + 1 /\ call' = [call EXCEPT ![c] = "replace"]
     \/ sem >= MaxWatchers /\ call' = [call EXCEPT ![c] = "done"] /\ UNCHANGED sem
  /\ UNCHANGED <<running, registry, removed, lost, chan, orphaned, watchVars, managerVars>>

CallReplace(c) ==
  /\ call[c] = "replace"
  /\ \/ TakeOut(c, chan[c]) /\ call' = [call EXCEPT ![c] = "release"]
     \/ /\ ~IsWatching(chan[c]) /\ call' = [call EXCEPT ![c] = "store"]
        /\ UNCHANGED <<registry, removed, cancelled>>
  /\ UNCHANGED <<running, sem, lost, chan, orphaned, watch, managerVars>>

\* Fault: the replaced watcher's slot is kept.
CallReleaseKeeps(c) ==
  /\ call[c] = "release"
  /\ removed' = [removed EXCEPT ![c] = None]
  /\ call' = [call EXCEPT ![c] = "store"]
  /\ UNCHANGED <<running, registry, sem, lost, chan, orphaned, watchVars, managerVars>>

CallRelease(c) ==
  /\ call[c] = "release"
  /\ Release(c)
  /\ call' = [call EXCEPT ![c] = "store"]
  /\ UNCHANGED <<running, registry, lost, chan, orphaned, watchVars, managerVars>>

\* Store overwrites whatever another call has stored since, then go Watch().
CallStore(c) ==
  /\ call[c] = "store"
  /\ registry' = [registry EXCEPT ![chan[c]] = c]
  /\ lost' = IF IsWatching(chan[c]) THEN lost \cup {registry[chan[c]]} ELSE lost
  /\ watch' = [watch EXCEPT ![c] = "waiting"]
  /\ call' = [call EXCEPT ![c] = "done"]
  /\ UNCHANGED <<running, sem, removed, chan, orphaned, cancelled, managerVars>>

-----------------------------------------------------------------------------
(* The Watch goroutine *)

\* Fault: the wait for the restreamer ignores the watcher's context.
WatchWaitDeaf(w) ==
  /\ watch[w] = "waiting"
  /\ Runs(w) /\ watch' = [watch EXCEPT ![w] = "watching"]
  /\ UNCHANGED <<running, registryVars, callVars, cancelled, managerVars>>

\* It waits until the restreamer runs, unless it is stopped first.
WatchWait(w) ==
  /\ watch[w] = "waiting"
  /\ \/ w \in cancelled /\ watch' = [watch EXCEPT ![w] = "ended"]
     \/ Runs(w) /\ watch' = [watch EXCEPT ![w] = "watching"]
  /\ UNCHANGED <<running, registryVars, callVars, cancelled, managerVars>>

\* A tick ends it when it was stopped or the restreamer is not running.
WatchTick(w) ==
  /\ watch[w] = "watching"
  /\ w \in cancelled \/ ~Runs(w)
  /\ watch' = [watch EXCEPT ![w] = "ended"]
  /\ UNCHANGED <<running, registryVars, callVars, cancelled, managerVars>>

-----------------------------------------------------------------------------
(* Start and Stop: the admin API sets the configuration flag and calls one *)
(* of them, the restart loop calls Stop and then Start                     *)

Enable(a) ==
  /\ admin[a] = "idle"
  /\ wanted' = TRUE /\ admin' = [admin EXCEPT ![a] = "start"]
  /\ UNCHANGED <<running, registryVars, callVars, watchVars, enabled, stopChan, closed,
                 again, routineVars, todo>>

Disable(a) ==
  /\ admin[a] = "idle"
  /\ wanted' = FALSE /\ admin' = [admin EXCEPT ![a] = "stop"]
  /\ UNCHANGED <<running, registryVars, callVars, watchVars, enabled, stopChan, closed,
                 again, routineVars, todo>>

Restart(a) ==
  /\ admin[a] = "idle"
  /\ again' = again \cup {a} /\ admin' = [admin EXCEPT ![a] = "stop"]
  /\ UNCHANGED <<running, registryVars, callVars, watchVars, wanted, enabled, stopChan,
                 closed, routineVars, todo>>

\* Start: a compare-and-swap of enabled, then a new stop channel and a routine
\* that is about to select.
StartEnable(a) ==
  /\ admin[a] = "start"
  /\ \/ /\ enabled /\ UNCHANGED enabled
        /\ admin' = [admin EXCEPT ![a] = "idle"] /\ again' = again \ {a}
     \/ /\ ~enabled /\ enabled' = TRUE /\ stopChan < MaxStarts
        /\ admin' = [admin EXCEPT ![a] = "make"] /\ UNCHANGED again
  /\ UNCHANGED <<running, registryVars, callVars, watchVars, wanted, stopChan, closed,
                 routineVars, todo>>

StartMake(a) ==
  /\ admin[a] = "make"
  /\ admin' = [admin EXCEPT ![a] = "idle"] /\ again' = again \ {a}
  /\ stopChan' = stopChan + 1
  /\ \E r \in Routines :
       routine[r] = "none" /\ routine' = [routine EXCEPT ![r] = "range"]
  /\ UNCHANGED <<running, registryVars, callVars, watchVars, wanted, enabled, closed, heard,
                 target, todo>>

\* Where Stop returns to: the restart loop loads the new configuration and
\* starts the manager again if it asks for it.
AfterStop(a) ==
  /\ again' = IF wanted THEN again ELSE again \ {a}
  /\ admin' = [admin EXCEPT ![a] = IF a \in again /\ wanted THEN "start" ELSE "idle"]

StopBegin(a) ==
  /\ admin[a] = "stop"
  /\ \/ ~enabled /\ AfterStop(a) /\ UNCHANGED enabled
     \/ /\ enabled /\ enabled' = FALSE
        /\ admin' = [admin EXCEPT ![a] = "close"] /\ UNCHANGED again
  /\ UNCHANGED <<running, registryVars, callVars, watchVars, wanted, stopChan, closed,
                 routineVars, todo>>

\* close(wm.stopChan), and the beginning of the Range over the registry.  The
\* second close of a channel panics: the rest of Stop is not done.
StopClose(a) ==
  /\ admin[a] = "close"
  /\ \/ /\ stopChan \notin closed /\ closed' = closed \cup {stopChan}
        /\ admin' = [admin EXCEPT ![a] = "range"]
        /\ todo' = [todo EXCEPT ![a] = Chans]
     \/ /\ stopChan \in closed /\ admin' = [admin EXCEPT ![a] = "panicked"]
        /\ UNCHANGED <<closed, todo>>
  /\ UNCHANGED <<running, registryVars, callVars, watchVars, wanted, enabled, stopChan,
                 again, routineVars>>

\* One step of the Range: the entry is taken out if there is one by then.
StopVisit(a, ch) ==
  /\ admin[a] = "range" /\ removed[a] = None /\ ch \in todo[a]
  /\ todo' = [todo EXCEPT ![a] = @ \ {ch}]
  /\ \/ TakeOut(a, ch)
     \/ ~IsWatching(ch) /\ UNCHANGED <<registry, removed, cancelled>>
  /\ UNCHANGED <<running, sem, lost, callVars, watch, adminVars, routineVars>>

StopRelease(a) ==
  /\ admin[a] = "range" /\ Release(a)
  /\ UNCHANGED <<running, registry, lost, callVars, watchVars, managerVars>>

StopEnd(a) ==
  /\ admin[a] = "range" /\ removed[a] = None /\ todo[a] = {}
  /\ AfterStop(a)
  /\ UNCHANGED <<running, registryVars, callVars, watchVars, wanted, enabled, stopChan,
                 closed, routineVars, todo>>

-----------------------------------------------------------------------------
(* cleanupRoutine *)

\* The stop channel it waits on is closed.
CleanStop(r) ==
  /\ routine[r] = "wait" /\ heard[r] \in closed
  /\ routine' = [routine EXCEPT ![r] = "none"]
  /\ heard' = [heard EXCEPT ![r] = 0]
  /\ UNCHANGED <<running, registryVars, callVars, watchVars, adminVars, target, todo>>

CleanTick(r) ==
  /\ routine[r] = "wait"
  /\ routine' = [routine EXCEPT ![r] = "range"]
  /\ heard' = [heard EXCEPT ![r] = 0]
  /\ todo' = [todo EXCEPT ![r] = Chans]
  /\ UNCHANGED <<running, registryVars, callVars, watchVars, adminVars, target>>

\* A visited watcher is left alone while its restreamer runs.
CleanVisit(r, ch) ==
  /\ routine[r] = "range" /\ removed[r] = None /\ ch \in todo[r]
  /\ todo' = [todo EXCEPT ![r] = @ \ {ch}]
  /\ \/ /\ IsWatching(ch) => Runs(registry[ch])
        /\ UNCHANGED <<routine, target>>
     \/ /\ IsWatching(ch) /\ ~Runs(registry[ch])
        /\ routine' = [routine EXCEPT ![r] = "delete"]
        /\ target' = [target EXCEPT ![r] = ch]
  /\ UNCHANGED <<running, registryVars, callVars, watchVars, adminVars, heard>>

\* Fault: Delete instead of LoadAndDelete, so a slot is released also when the
\* entry was already gone.
CleanDeleteBlindly(r) ==
  /\ routine[r] = "delete"
  /\ routine' = [routine EXCEPT ![r] = "range"]
  /\ target' = [target EXCEPT ![r] = None]
  /\ \E w \in Calls : chan[w] = target[r] /\ removed' = [removed EXCEPT ![r] = w]
  /\ registry' = [registry EXCEPT ![target[r]] = None]
  /\ UNCHANGED <<running, sem, lost, callVars, watchVars, adminVars, heard, todo>>

\* By now the entry may be gone or may be another watcher.
CleanDelete(r) ==
  /\ routine[r] = "delete"
  /\ routine' = [routine EXCEPT ![r] = "range"]
  /\ target' = [target EXCEPT ![r] = None]
  /\ \/ TakeOut(r, target[r])
     \/ ~IsWatching(target[r]) /\ UNCHANGED <<registry, removed, cancelled>>
  /\ UNCHANGED <<running, sem, lost, callVars, watch, adminVars, heard, todo>>

CleanRelease(r) ==
  /\ routine[r] = "range" /\ Release(r)
  /\ UNCHANGED <<running, registry, lost, callVars, watchVars, managerVars>>

\* Every select reads wm.stopChan again.
CleanSelect(r) ==
  /\ routine[r] = "range" /\ removed[r] = None /\ todo[r] = {}
  /\ routine' = [routine EXCEPT ![r] = "wait"]
  /\ heard' = [heard EXCEPT ![r] = stopChan]
  /\ UNCHANGED <<running, registryVars, callVars, watchVars, adminVars, target, todo>>

-----------------------------------------------------------------------------
StartWatching(c) == CallAcquire(c) \/ CallReplace(c) \/ CallRelease(c) \/ CallStore(c)
Watch(w) == WatchWait(w) \/ WatchTick(w)
Start(a) == StartEnable(a) \/ StartMake(a)
Stop(a) ==
  \/ StopBegin(a) \/ StopClose(a) \/ StopRelease(a) \/ StopEnd(a)
  \/ \E ch \in Chans : StopVisit(a, ch)
cleanupRoutine(r) ==
  \/ CleanStop(r) \/ CleanTick(r) \/ CleanDelete(r) \/ CleanRelease(r) \/ CleanSelect(r)
  \/ \E ch \in Chans : CleanVisit(r, ch)

Next ==
  \/ \E ch \in Chans : Toggle(ch) \/ Discard(ch)
  \/ \E c \in Calls : (\E ch \in Chans : CallCheck(c, ch)) \/ StartWatching(c) \/ Watch(c)
  \/ \E a \in Admins : Enable(a) \/ Disable(a) \/ Restart(a) \/ Start(a) \/ Stop(a)
  \/ \E r \in Routines : cleanupRoutine(r)

Spec == Init /\ [][Next]_vars

\* Goroutines that can run do, tickers keep ticking; nobody has to connect, to
\* use the admin API, or to start or stop a restreamer.
Fairness ==
  /\ \A c \in Calls : WF_vars(StartWatching(c)) /\ WF_vars(Watch(c))
  /\ \A a \in Admins : WF_vars(Start(a)) /\ WF_vars(Stop(a))
  /\ \A r \in Routines : WF_vars(cleanupRoutine(r))

FairSpec == Spec /\ Fairness

-----------------------------------------------------------------------------
(* Properties *)

RegistryTypes ==
  /\ registry \in [Chans -> Calls \cup {None}] /\ sem \in 0 .. MaxWatchers
  /\ removed \in [Actors -> Calls \cup {None}] /\ lost \in SUBSET Calls
CallTypes ==
  /\ call \in [Calls -> {"idle", "acquire", "replace", "release", "store", "done"}]
  /\ chan \in [Calls -> Chans \cup {None}] /\ orphaned \in SUBSET Calls
WatchTypes ==
  /\ watch \in [Calls -> {"none", "waiting", "watching", "ended"}]
  /\ cancelled \in SUBSET Calls
ManagerTypes ==
  /\ wanted \in BOOLEAN /\ enabled \in BOOLEAN
  /\ stopChan \in Nat /\ closed \in SUBSET Nat /\ again \in SUBSET Admins
  /\ admin \in [Admins -> {"idle", "start", "make", "stop", "close", "range", "panicked"}]
  /\ routine \in [Routines -> {"none", "wait", "range", "delete"}]
  /\ heard \in [Routines -> Nat] /\ target \in [Routines -> Chans \cup {None}]
  /\ todo \in [Actors -> SUBSET Chans]
TypeOK ==
  /\ running \in SUBSET Chans
  /\ RegistryTypes /\ CallTypes /\ WatchTypes /\ ManagerTypes

\* The calls that have acquired a slot for a watcher not stored yet, the
\* watchers taken out whose slot has not been released yet, and all watchers
\* that account for a slot.
Starting == {c \in Calls : call[c] \in {"replace", "release", "store"}}
Owed     == {w \in Calls : \E a \in Actors : removed[a] = w}
Holding  == Starting \cup Registered \cup Owed \cup lost

\* Every taken slot belongs to exactly one watcher that is being started, is
\* registered, is being taken out or was overwritten: no interleaving of
\* replacement, Stop and the cleanup routines releases a slot twice.
SlotAccounting ==
  /\ sem = Cardinality(Holding)
  /\ \A a, b \in Actors : (removed[a] # None /\ removed[a] = removed[b]) => a = b

\* A release finds a slot to take, so no cleanup routine and no administrator
\* is blocked for ever on the semaphore.
ReleaseNeverBlocks == \A a \in Actors : removed[a] # None => sem > 0

\* A watcher that was stopped ends.
StoppedWatchEnds == \A w \in Calls : w \in cancelled /\ watch[w] # "none" ~> watch[w] = "ended"

\* Only one watcher exists per channel, as StartWatching documents it.
OneWatcherPerChannel ==
  \A v, w \in Calls :
    /\ watch[v] \in {"waiting", "watching"} /\ v \notin cancelled
    /\ watch[w] \in {"waiting", "watching"} /\ w \notin cancelled
    /\ chan[v] = chan[w]
    => v = w

\* IsWatching stands for an active watcher: an entry whose Watch has ended does
\* not stay in the registry.
RegisteredIsActive ==
  \A w \in Calls : w \in Registered /\ watch[w] = "ended" ~> w \notin Registered

\* A start after a stop begins with an empty registry.
StartIsClean ==
  [][\A a \in Admins :
       StartEnable(a) /\ ~enabled /\ stopChan \in closed => Registered = {}]_vars

\* There is at most one cleanup routine that has not been told to stop.
OneCleaner ==
  \A q, r \in Routines :
    /\ routine[q] = "wait" /\ routine[r] = "wait"
    /\ heard[q] \notin closed /\ heard[r] \notin closed
    => q = r

\* Calls of Start and Stop do not interfere: no Stop closes a channel twice.
StopNeverPanics == \A a \in Admins : admin[a] # "panicked"

-----------------------------------------------------------------------------
(* The inductive invariant *)

\* What the program counters say about an actor's own variables.
OwnInv ==
  /\ \A c \in Calls : call[c] # "idle" => chan[c] \in Chans
  /\ \A c \in Calls : call[c] # "release" => removed[c] = None
  /\ \A r \in Routines : routine[r] # "range" => removed[r] = None
  /\ \A r \in Routines : routine[r] = "delete" => target[r] \in Chans

\* The four reasons for which a watcher holds a slot exclude each other, and a
\* watcher is registered for its own channel only.
PlaceInv ==
  /\ \A c \in Calls, ch \in Chans :
       registry[ch] = c => call[c] = "done" /\ chan[c] = ch /\ c \notin lost
  /\ \A c \in Calls, a \in Actors :
       removed[a] = c => /\ call[c] = "done" /\ c \notin lost
                         /\ \A ch \in Chans : registry[ch] # c
  /\ \A c \in lost : call[c] = "done"

IInv == TypeOK /\ OwnInv /\ PlaceInv /\ SlotAccounting
=============================================================================
