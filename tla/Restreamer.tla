----------------------------- MODULE Restreamer -----------------------------
(***************************************************************************)
(* The life of one types.Restreamer: client connections register and leave *)
(* (restream.go AddClient, RemoveClient), the first one starts a Stream    *)
(* goroutine and the last one stops it (stopStream), the watcher replaces  *)
(* it (watcher.go forceStreamRestart, restartWithExistingLogic), an        *)
(* operator redirects it (ForceStreamSwitch) and the proxy's ticker evicts *)
(* stale clients and idle restreamers (proxy/stream.go                     *)
(* cleanupChannelRestreamer).  Every actor is a goroutine of its own; an   *)
(* action is what one of them does between two points where the others     *)
(* can be observed.  All code looks the context up through r.Context() at  *)
(* the moment it needs it, which is why a Stream goroutine is not tied to  *)
(* the context it was started under.                                       *)
(*                                                                         *)
(* Timeouts are abstracted: a client may be stale, a source may end and a  *)
(* restreamer may count as idle at any moment.  Which source is attempted, *)
(* and how often, is the subject of StreamLoop.                            *)
(***************************************************************************)
EXTENDS Integers, FiniteSets

CONSTANTS
  Conns,        \* client connections, each used once
  NoConn,       \* Lifecycle is not held
  Streams,      \* bound: slots for Stream goroutines alive at the same time
  MaxDepth,     \* bound: nested calls Stream -> fallback -> Stream
  MaxWatches,   \* bound: restarts forced by the watcher
  MaxForces,    \* bound: switches forced by an operator
  CleanupRuns   \* whether the proxy's cleanup ticker takes part

ASSUME ConnAssumption   == IsFiniteSet(Conns) /\ NoConn \notin Conns
ASSUME BoundAssumption  ==
  MaxDepth \in Nat \ {0} /\ MaxWatches \in Nat /\ MaxForces \in Nat
ASSUME CleanupAssumption == CleanupRuns \in BOOLEAN

VARIABLES
  clients,    \* r.Clients: the connections in the map
  count,      \* r.ClientCount
  running,    \* r.Running
  switching,  \* r.Switching
  manual,     \* r.ManualSwitch
  ctx,        \* the context installed in r.ctx, numbered in order of creation
  cancelled,  \* the contexts that have been cancelled
  buffer,     \* r.BufferPtr: no buffer, a usable one, or a destroyed one
  lock,       \* the connection whose stopStream holds r.Lifecycle, or NoConn
  add,        \* where each connection's handler is in AddClient
  rem,        \* where the removal of each connection is in RemoveClient
  pc,         \* where each Stream goroutine is
  byWatcher,  \* the Stream goroutines running inside restartWithExistingLogic
  depth,      \* nesting of Stream in each Stream goroutine
  wasManual,  \* the Stream goroutines whose local wasManualSwitch is set
  req,        \* the context each Stream goroutine's upstream request uses, or 0
  watch,      \* where the watcher is in forceStreamRestart
  hadClients, \* its local variable of that name
  watches,    \* restarts so far
  force,      \* where the operator's ForceStreamSwitch is
  oldCtx,     \* its local variable oldBundle
  forces,     \* switches so far
  cleanup,    \* where the ticker is in cleanupChannelRestreamer
  discarded,  \* channel.Restreamer no longer points to this restreamer
  leaked,     \* history: connections evicted by the cleanup ticker
  stopped     \* history: contexts cancelled by stopStream

clientVars  == <<clients, count, add, rem, lock, leaked, stopped>>
flagVars    == <<running, switching, manual>>
ctxVars     == <<ctx, cancelled, buffer>>
streamVars  == <<pc, byWatcher, depth, wasManual, req>>
watchVars   == <<watch, hadClients, watches>>
forceVars   == <<force, oldCtx, forces>>
cleanupVars == <<cleanup, discarded>>

vars == <<clientVars, flagVars, ctxVars, streamVars, watchVars, forceVars, cleanupVars>>

AddPCs    == {"idle", "store", "count", "start", "serving"}
RemPCs    == {"none", "decrement", "zero", "stop", "cancel", "destroy", "renew", "done"}
StreamPCs == {"none", "top", "attempt", "connect", "source", "ended", "succeeded", "failed",
              "retry", "exhausted", "fallback", "resume", "exit", "restored"}

Alive(s)     == pc[s] # "none"
CtxDone      == ctx \in cancelled
Goto(s, l)   == pc' = [pc EXCEPT ![s] = l]
Added(c, l)  == add' = [add EXCEPT ![c] = l]
Removed(c, l) == rem' = [rem EXCEPT ![c] = l]

-----------------------------------------------------------------------------
Init ==
  /\ clients = {} /\ count = 0
  /\ running = FALSE /\ switching = FALSE /\ manual = FALSE
  /\ ctx = 0 /\ cancelled = {} /\ buffer = "live"
  /\ lock = NoConn
  /\ add = [c \in Conns |-> "idle"]
  /\ rem = [c \in Conns |-> "none"]
  /\ pc = [s \in Streams |-> "none"]
  /\ byWatcher = {}
  /\ depth = [s \in Streams |-> 0]
  /\ wasManual = {} /\ req = [s \in Streams |-> 0]
  /\ watch = "idle" /\ hadClients = FALSE /\ watches = 0
  /\ force = "idle" /\ oldCtx = 0 /\ forces = 0
  /\ cleanup = "idle" /\ discarded = FALSE
  /\ leaked = {} /\ stopped = {}

\* Fault: the nesting is left as the previous goroutine in the slot left it.
LaunchUnframed(s) ==
  /\ ~Alive(s)
  /\ Goto(s, "top")
  /\ UNCHANGED <<depth, wasManual, req>>

\* go r.Stream(): a goroutine in a free slot enters the loop.
Launch(s) ==
  /\ ~Alive(s)
  /\ Goto(s, "top")
  /\ depth' = [depth EXCEPT ![s] = 1]
  /\ UNCHANGED <<wasManual, req>>

-----------------------------------------------------------------------------
(* AddClient, called by the connection's handler *)

\* HandleRestreamingClient picks up channel.Restreamer under channel.Mu.
Acquire(c) ==
  /\ add[c] = "idle" /\ ~discarded
  /\ Added(c, "store")
  /\ UNCHANGED <<clients, count, rem, lock, leaked, stopped,
                 flagVars, ctxVars, streamVars, watchVars, forceVars, cleanupVars>>

\* From here on the drain goroutine and the monitor can remove the client.
AddStore(c) ==
  /\ add[c] = "store"
  /\ clients' = clients \cup {c}
  /\ Added(c, "count")
  /\ UNCHANGED <<count, rem, lock, leaked, stopped,
                 flagVars, ctxVars, streamVars, watchVars, forceVars, cleanupVars>>

AddCount(c) ==
  /\ add[c] = "count"
  /\ count' = count + 1
  /\ Added(c, "start")
  /\ UNCHANGED <<clients, rem, lock, leaked, stopped,
                 flagVars, ctxVars, streamVars, watchVars, forceVars, cleanupVars>>

\* Fault: the start block does not take Lifecycle.
AddStartUnlocked(c) ==
  /\ add[c] = "start"
  /\ Added(c, "serving")
  /\ \/ running /\ UNCHANGED <<running, streamVars>>
     \/ ~running /\ running' = TRUE
        /\ \E s \in Streams : Launch(s) /\ byWatcher' = byWatcher \ {s}
  /\ UNCHANGED <<clients, count, rem, lock, leaked, stopped, switching, manual,
                 ctxVars, watchVars, forceVars, cleanupVars>>

\* The start block under Lifecycle: whoever finds Running false starts Stream.
AddStart(c) ==
  /\ add[c] = "start" /\ lock = NoConn
  /\ Added(c, "serving")
  /\ \/ running /\ UNCHANGED <<running, streamVars>>
     \/ ~running /\ running' = TRUE
        /\ \E s \in Streams : Launch(s) /\ byWatcher' = byWatcher \ {s}
  /\ UNCHANGED <<clients, count, rem, lock, leaked, stopped, switching, manual,
                 ctxVars, watchVars, forceVars, cleanupVars>>

-----------------------------------------------------------------------------
(* RemoveClient, called by the handler when the client disconnects, by     *)
(* drainClient after a failed write and by monitorClientHealth; and        *)
(* stopStream, which it calls.                                             *)

\* Fault: every caller removes, not only the one that deleted the map entry.
RemoveDeleteUnowned(c) ==
  /\ add[c] \notin {"idle", "store"} /\ rem[c] \in {"none", "done"}
  /\ clients' = clients \ {c}
  /\ Removed(c, "decrement")
  /\ UNCHANGED <<count, add, lock, leaked, stopped,
                 flagVars, ctxVars, streamVars, watchVars, forceVars, cleanupVars>>

\* LoadAndDelete: only the caller that finds the entry goes on.
RemoveDelete(c) ==
  /\ c \in clients
  /\ clients' = clients \ {c}
  /\ Removed(c, "decrement")
  /\ UNCHANGED <<count, add, lock, leaked, stopped,
                 flagVars, ctxVars, streamVars, watchVars, forceVars, cleanupVars>>

RemoveDecrement(c) ==
  /\ rem[c] = "decrement"
  /\ count' = count - 1
  /\ Removed(c, IF count' = 0 THEN "zero" ELSE "done")
  /\ UNCHANGED <<clients, add, lock, leaked, stopped,
                 flagVars, ctxVars, streamVars, watchVars, forceVars, cleanupVars>>

\* The last client does not stop the stream during a watcher's switch.
RemoveZero(c) ==
  /\ rem[c] = "zero"
  /\ Removed(c, IF switching THEN "done" ELSE "stop")
  /\ UNCHANGED <<clients, count, add, lock, leaked, stopped,
                 flagVars, ctxVars, streamVars, watchVars, forceVars, cleanupVars>>

\* stopStream: the count is read again under Lifecycle, Running is swapped.
StopLock(c) ==
  /\ rem[c] = "stop" /\ lock = NoConn
  /\ \/ /\ count > 0 \/ ~running
        /\ Removed(c, "done") /\ UNCHANGED <<lock, running>>
     \/ /\ count <= 0 /\ running
        /\ Removed(c, "cancel") /\ lock' = c /\ running' = FALSE
  /\ UNCHANGED <<clients, count, add, leaked, stopped, switching, manual,
                 ctxVars, streamVars, watchVars, forceVars, cleanupVars>>

StopCancel(c) ==
  /\ rem[c] = "cancel"
  /\ cancelled' = cancelled \cup {ctx}
  /\ stopped' = stopped \cup {ctx}
  /\ Removed(c, "destroy")
  /\ UNCHANGED <<clients, count, add, lock, leaked, flagVars, ctx, buffer,
                 streamVars, watchVars, forceVars, cleanupVars>>

StopDestroy(c) ==
  /\ rem[c] = "destroy"
  /\ buffer' = "nil"
  /\ Removed(c, "renew")
  /\ UNCHANGED <<clients, count, add, lock, leaked, stopped, flagVars, ctx, cancelled,
                 streamVars, watchVars, forceVars, cleanupVars>>

StopRenew(c) ==
  /\ rem[c] = "renew"
  /\ ctx' = ctx + 1
  /\ lock' = NoConn
  /\ Removed(c, "done")
  /\ UNCHANGED <<clients, count, add, leaked, stopped, flagVars, cancelled, buffer,
                 streamVars, watchVars, forceVars, cleanupVars>>

-----------------------------------------------------------------------------
(* Stream, the loop that feeds the clients *)

StreamOnly == UNCHANGED <<clientVars, switching, watchVars, forceVars, cleanupVars>>

\* The select at the head of the loop.
StreamTop(s) ==
  /\ pc[s] = "top"
  /\ \/ CtxDone /\ manual' = FALSE /\ Goto(s, "exit")
     \/ ~CtxDone /\ Goto(s, "attempt") /\ UNCHANGED manual
  /\ UNCHANGED <<running, ctxVars, byWatcher, depth, wasManual, req>> /\ StreamOnly

\* Without clients the loop ends; otherwise resetBufferSafely, unless a manual
\* switch is in progress, resets the buffer or replaces a missing one.
StreamAttempt(s) ==
  /\ pc[s] = "attempt"
  /\ \/ count = 0 /\ Goto(s, "exit") /\ UNCHANGED buffer
     \/ count # 0 /\ Goto(s, "connect") /\ buffer' = IF manual THEN buffer ELSE "live"
  /\ UNCHANGED <<running, manual, ctx, cancelled, byWatcher, depth, wasManual, req>> /\ StreamOnly

\* The upstream request is made under the context installed at this moment.
StreamConnect(s) ==
  /\ pc[s] = "connect"
  /\ req' = [req EXCEPT ![s] = ctx]
  /\ Goto(s, "source")
  /\ UNCHANGED <<flagVars, ctxVars, byWatcher, depth, wasManual>> /\ StreamOnly

\* StreamFromSource returns and ManualSwitch is read.
StreamEnd(s) ==
  /\ pc[s] = "source"
  /\ Goto(s, "ended")
  /\ wasManual' = IF manual THEN wasManual \cup {s} ELSE wasManual
  /\ req' = [req EXCEPT ![s] = 0]
  /\ UNCHANGED <<flagVars, ctxVars, byWatcher, depth>> /\ StreamOnly

\* ManualSwitch is cleared; it was a substantial success or anything else.
StreamEnded(s) ==
  /\ pc[s] = "ended"
  /\ Goto(s, "succeeded") \/ Goto(s, "failed")
  /\ manual' = FALSE
  /\ UNCHANGED <<running, ctxVars, byWatcher, depth, wasManual, req>> /\ StreamOnly

\* A switch that arrives after ManualSwitch was cleared, with the context
\* cancelled, pauses and goes round the loop.
StreamSucceeded(s) ==
  /\ pc[s] = "succeeded"
  /\ \/ s \in wasManual /\ manual' = FALSE /\ Goto(s, IF switching THEN "exit" ELSE "top")
     \/ /\ s \notin wasManual /\ CtxDone /\ manual /\ manual' = FALSE
        /\ \E l \in {"top", "exhausted", "exit"} : Goto(s, l)
     \/ /\ s \notin wasManual /\ ~(CtxDone /\ manual) /\ UNCHANGED manual
        /\ Goto(s, IF count = 0 THEN "exit" ELSE "top")
  /\ wasManual' = wasManual \ {s}
  /\ UNCHANGED <<running, ctxVars, byWatcher, depth, req>> /\ StreamOnly

StreamFailed(s) ==
  /\ pc[s] = "failed"
  /\ Goto(s, IF s \in wasManual /\ ~switching THEN "top" ELSE "retry")
  /\ wasManual' = wasManual \ {s}
  /\ UNCHANGED <<running, manual, ctxVars, byWatcher, depth, req>> /\ StreamOnly

\* The pause before the next attempt, cut short by a cancelled context.
StreamRetry(s) ==
  /\ pc[s] = "retry"
  /\ \/ CtxDone /\ manual /\ count > 0 /\ manual' = FALSE
        /\ (Goto(s, "top") \/ Goto(s, "exhausted"))
     \/ CtxDone /\ ~(manual /\ count > 0) /\ UNCHANGED manual /\ Goto(s, "exit")
     \/ UNCHANGED manual /\ (Goto(s, "top") \/ Goto(s, "exhausted"))
  /\ UNCHANGED <<running, ctxVars, byWatcher, depth, wasManual, req>> /\ StreamOnly

\* All attempts used up: the fallback video plays if anybody watches.
StreamExhausted(s) ==
  /\ pc[s] = "exhausted"
  /\ \/ count > 0 /\ Goto(s, "fallback") /\ buffer' = "live"
     \/ count <= 0 /\ Goto(s, "exit") /\ UNCHANGED buffer
  /\ UNCHANGED <<flagVars, ctx, cancelled, byWatcher, depth, wasManual, req>> /\ StreamOnly

\* streamFallbackVideo returns.
StreamFallback(s) ==
  /\ pc[s] = "fallback"
  /\ CtxDone \/ clients = {}
  /\ Goto(s, "resume")
  /\ UNCHANGED <<flagVars, ctxVars, byWatcher, depth, wasManual, req>> /\ StreamOnly

\* Back from the fallback with clients and a usable context: a nested Stream.
StreamResume(s) ==
  /\ pc[s] = "resume"
  /\ \/ /\ count > 0 /\ ~CtxDone /\ depth[s] < MaxDepth
        /\ depth' = [depth EXCEPT ![s] = @ + 1]
        /\ Goto(s, "top")
     \/ /\ count <= 0 \/ CtxDone
        /\ UNCHANGED depth
        /\ Goto(s, "exit")
  /\ UNCHANGED <<flagVars, ctxVars, byWatcher, wasManual, req>> /\ StreamOnly

\* Fault: an early return leaves Running set.
StreamExitKeepsRunning(s) ==
  /\ pc[s] = "exit"
  /\ depth' = [depth EXCEPT ![s] = @ - 1]
  /\ Goto(s, IF depth[s] > 1 THEN "exit" ELSE IF s \in byWatcher THEN "restored" ELSE "none")
  /\ UNCHANGED <<running, manual, ctxVars, byWatcher, wasManual, req>> /\ StreamOnly

\* The deferred function of each Stream on the stack.
StreamExit(s) ==
  /\ pc[s] = "exit"
  /\ running' = FALSE
  /\ depth' = [depth EXCEPT ![s] = @ - 1]
  /\ Goto(s, IF depth[s] > 1 THEN "exit" ELSE IF s \in byWatcher THEN "restored" ELSE "none")
  /\ UNCHANGED <<manual, ctxVars, byWatcher, wasManual, req>> /\ StreamOnly

\* The deferred function of restartWithExistingLogic.
StreamRestored(s) ==
  /\ pc[s] = "restored"
  /\ switching' = FALSE
  /\ running' = FALSE
  /\ Goto(s, "none")
  /\ byWatcher' = byWatcher \ {s}
  /\ UNCHANGED <<clientVars, manual, ctxVars, depth, wasManual, req, watchVars, forceVars, cleanupVars>>

-----------------------------------------------------------------------------
(* forceStreamRestart, in the channel's watcher *)

\* triggerStreamSwitch found clients and another stream; the switch is marked.
WatchBegin ==
  /\ watch = "idle" /\ watches < MaxWatches
  /\ running /\ clients # {}
  /\ switching' = TRUE
  /\ watch' = "flag" /\ watches' = watches + 1
  /\ UNCHANGED <<clientVars, running, manual, ctxVars, streamVars, hadClients,
                 forceVars, cleanupVars>>

WatchFlag ==
  /\ watch = "flag"
  /\ hadClients' = (clients # {})
  /\ manual' = TRUE
  /\ watch' = "drain"
  /\ UNCHANGED <<clientVars, running, switching, ctxVars, streamVars, watches,
                 forceVars, cleanupVars>>

\* The wait for the running goroutine: until Running is false or the deadline.
WatchDrain ==
  /\ watch = "drain"
  /\ \/ ~running /\ watch' = "install" /\ UNCHANGED cancelled
     \/ running /\ watch' \in {"drain", "install"} /\ cancelled' = cancelled \cup {ctx}
  /\ UNCHANGED <<clientVars, flagVars, ctx, buffer, streamVars, hadClients, watches,
                 forceVars, cleanupVars>>

WatchInstall ==
  /\ watch = "install"
  /\ ctx' = ctx + 1
  /\ watch' = "launch"
  /\ UNCHANGED <<clientVars, flagVars, cancelled, buffer, streamVars, hadClients,
                 watches, forceVars, cleanupVars>>

\* Fault: Running is set whether or not a goroutine is launched.
WatchLaunchAlways ==
  /\ watch = "launch"
  /\ running' = TRUE
  /\ \/ /\ hadClients
        /\ \E s \in Streams : Launch(s) /\ byWatcher' = byWatcher \cup {s}
     \/ ~hadClients /\ UNCHANGED streamVars
  /\ watch' = "idle"
  /\ UNCHANGED <<clientVars, switching, manual, ctxVars, hadClients, watches,
                 forceVars, cleanupVars>>

WatchLaunch ==
  /\ watch = "launch"
  /\ \/ /\ hadClients
        /\ running' = TRUE
        /\ \E s \in Streams : Launch(s) /\ byWatcher' = byWatcher \cup {s}
     \/ ~hadClients /\ UNCHANGED <<running, streamVars>>
  /\ watch' = "idle"
  /\ UNCHANGED <<clientVars, switching, manual, ctxVars, hadClients, watches,
                 forceVars, cleanupVars>>

-----------------------------------------------------------------------------
(* ForceStreamSwitch, in a handler of the admin API or of a connection *)

ForceFlag ==
  /\ force = "idle" /\ forces < MaxForces /\ ~discarded
  /\ manual' = TRUE
  /\ force' = "check" /\ forces' = forces + 1
  /\ UNCHANGED <<clientVars, running, switching, ctxVars, streamVars, watchVars,
                 oldCtx, cleanupVars>>

\* A running stream gets a new context before the old one is cancelled.
ForceInstall ==
  /\ force = "check"
  /\ \/ ~running /\ force' = "idle" /\ UNCHANGED <<ctx, oldCtx>>
     \/ running /\ force' = "cancel" /\ oldCtx' = ctx /\ ctx' = ctx + 1
  /\ UNCHANGED <<clientVars, flagVars, cancelled, buffer, streamVars, watchVars,
                 forces, cleanupVars>>

ForceCancel ==
  /\ force = "cancel"
  /\ cancelled' = cancelled \cup {oldCtx}
  /\ force' = "idle" /\ oldCtx' = 0
  /\ UNCHANGED <<clientVars, flagVars, ctx, buffer, streamVars, watchVars,
                 forces, cleanupVars>>

-----------------------------------------------------------------------------
(* cleanupChannelRestreamer, every ten seconds *)

\* LastActivity can be old: AddClient, which sets it, is not being executed.
Idle == \A c \in Conns : add[c] \notin {"count", "start"}

CleanupTick ==
  /\ CleanupRuns /\ cleanup = "idle" /\ ~discarded /\ running
  /\ cleanup' = "scan"
  /\ UNCHANGED <<clientVars, flagVars, ctxVars, streamVars, watchVars, forceVars, discarded>>

\* A stale client leaves the map and its Done is closed; ClientCount stays.
\* LastSeen is set when AddClient begins, so only served clients go stale.
CleanupEvict(c) ==
  /\ cleanup = "scan" /\ c \in clients /\ add[c] = "serving"
  /\ clients' = clients \ {c}
  /\ leaked' = leaked \cup {c}
  /\ Removed(c, "done")
  /\ UNCHANGED <<count, add, lock, stopped, flagVars, ctxVars, streamVars, watchVars,
                 forceVars, cleanupVars>>

\* Fault: the pass ends without looking for a restreamer to stop.
CleanupScannedOnly ==
  /\ cleanup = "scan"
  /\ cleanup' = "idle"
  /\ UNCHANGED <<clientVars, flagVars, ctxVars, streamVars, watchVars, forceVars, discarded>>

\* After the scan: an idle restreamer without clients is stopped.
CleanupScanned ==
  /\ cleanup = "scan"
  /\ cleanup' = IF clients = {} /\ running /\ Idle THEN "cancel" ELSE "idle"
  /\ UNCHANGED <<clientVars, flagVars, ctxVars, streamVars, watchVars, forceVars, discarded>>

CleanupCancel ==
  /\ cleanup = "cancel"
  /\ cancelled' = cancelled \cup {ctx}
  /\ cleanup' = "halt"
  /\ UNCHANGED <<clientVars, flagVars, ctx, buffer, streamVars, watchVars, forceVars, discarded>>

CleanupHalt ==
  /\ cleanup = "halt"
  /\ running' = FALSE
  /\ buffer' = IF buffer = "live" THEN "destroyed" ELSE buffer
  /\ cleanup' = "idle"
  /\ UNCHANGED <<clientVars, switching, manual, ctx, cancelled, streamVars, watchVars,
                 forceVars, discarded>>

\* A restreamer that has not been running for a while is dropped, unless its
\* context is alive and a manual switch is in progress.
CleanupDiscard ==
  /\ CleanupRuns /\ cleanup = "idle" /\ ~discarded /\ ~running /\ Idle
  /\ CtxDone \/ ~manual
  /\ discarded' = TRUE
  /\ cancelled' = cancelled \cup {ctx}
  /\ buffer' = IF buffer = "live" THEN "destroyed" ELSE buffer
  /\ UNCHANGED <<clientVars, flagVars, ctx, streamVars, watchVars, forceVars, cleanup>>

-----------------------------------------------------------------------------
AddClient(c)    == Acquire(c) \/ AddStore(c) \/ AddCount(c) \/ AddStart(c)
RemoveClient(c) == RemoveDelete(c) \/ RemoveDecrement(c) \/ RemoveZero(c)
stopStream(c)   == StopLock(c) \/ StopCancel(c) \/ StopDestroy(c) \/ StopRenew(c)
Stream(s) ==
  \/ StreamTop(s) \/ StreamAttempt(s) \/ StreamConnect(s) \/ StreamEnd(s) \/ StreamEnded(s)
  \/ StreamSucceeded(s) \/ StreamFailed(s) \/ StreamRetry(s) \/ StreamExhausted(s)
  \/ StreamFallback(s) \/ StreamResume(s) \/ StreamExit(s) \/ StreamRestored(s)
forceStreamRestart == WatchBegin \/ WatchFlag \/ WatchDrain \/ WatchInstall \/ WatchLaunch
ForceStreamSwitch  == ForceFlag \/ ForceInstall \/ ForceCancel
cleanupChannelRestreamer ==
  \/ CleanupTick \/ CleanupScanned \/ CleanupCancel \/ CleanupHalt \/ CleanupDiscard
  \/ \E c \in Conns : CleanupEvict(c)

Next ==
  \/ \E c \in Conns : AddClient(c) \/ RemoveClient(c) \/ stopStream(c)
  \/ \E s \in Streams : Stream(s)
  \/ forceStreamRestart \/ ForceStreamSwitch \/ cleanupChannelRestreamer

Spec == Init /\ [][Next]_vars

\* Goroutines that are not blocked keep running.  The loop of Stream waits in
\* StreamFromSource for as long as the source delivers: it is only certain to
\* return once its request or the installed context is cancelled or nobody is
\* left to send to.  The retry timer eventually fires.  The cleanup ticker
\* keeps ticking and, with nobody connected, finds the restreamer idle.
Fairness ==
  /\ \A c \in Conns :
       /\ WF_vars(AddStore(c)) /\ WF_vars(AddCount(c)) /\ SF_vars(AddStart(c))
       /\ WF_vars(RemoveDecrement(c) \/ RemoveZero(c))
       /\ SF_vars(StopLock(c))
       /\ WF_vars(StopCancel(c) \/ StopDestroy(c) \/ StopRenew(c))
  /\ \A s \in Streams :
       /\ WF_vars(StreamTop(s) \/ StreamAttempt(s) \/ StreamConnect(s) \/ StreamEnded(s)
                  \/ StreamSucceeded(s) \/ StreamFailed(s) \/ StreamRetry(s) \/ StreamExhausted(s)
                  \/ StreamFallback(s) \/ StreamResume(s) \/ StreamExit(s) \/ StreamRestored(s))
       /\ WF_vars((CtxDone \/ req[s] \in cancelled \/ clients = {}) /\ StreamEnd(s))
  /\ WF_vars(WatchFlag \/ WatchDrain \/ WatchInstall \/ WatchLaunch)
  /\ WF_vars(ForceInstall \/ ForceCancel)
  /\ WF_vars(CleanupScanned \/ CleanupCancel \/ CleanupHalt)
  /\ WF_vars(CleanupTick) /\ WF_vars(CleanupDiscard)

FairSpec == Spec /\ Fairness

-----------------------------------------------------------------------------
(* Properties *)

ClientTypes ==
  /\ clients \in SUBSET Conns /\ count \in Int /\ lock \in Conns \cup {NoConn}
  /\ add \in [Conns -> AddPCs] /\ rem \in [Conns -> RemPCs]
  /\ leaked \in SUBSET Conns /\ stopped \in SUBSET Nat
FlagTypes == running \in BOOLEAN /\ switching \in BOOLEAN /\ manual \in BOOLEAN
CtxTypes ==
  /\ ctx \in Nat /\ cancelled \in SUBSET Nat
  /\ buffer \in {"nil", "live", "destroyed"}
StreamTypes ==
  /\ pc \in [Streams -> StreamPCs] /\ byWatcher \in SUBSET Streams
  /\ depth \in [Streams -> Nat] /\ wasManual \in SUBSET Streams /\ req \in [Streams -> Nat]
WatchTypes ==
  /\ watch \in {"idle", "flag", "drain", "install", "launch"}
  /\ hadClients \in BOOLEAN /\ watches \in Nat
ForceTypes == force \in {"idle", "check", "cancel"} /\ oldCtx \in Nat /\ forces \in Nat
CleanupTypes == cleanup \in {"idle", "scan", "cancel", "halt"} /\ discarded \in BOOLEAN

TypeOK ==
  /\ ClientTypes /\ FlagTypes /\ CtxTypes /\ StreamTypes
  /\ WatchTypes /\ ForceTypes /\ CleanupTypes

\* The connections in the middle of AddClient that are not counted yet, and
\* those deleted from the map that are still counted.
Uncounted == {c \in Conns : add[c] = "count"}
Departing == {c \in Conns : rem[c] = "decrement"}

\* ClientCount is the size of the map, but for clients that are being added or
\* removed at this moment and those the cleanup ticker evicted: no interleaving
\* of the handler, the drain goroutine, the monitor and the ticker counts a
\* client twice or subtracts it twice.
CountAccounting ==
  count = Cardinality(clients) + Cardinality(leaked) + Cardinality(Departing)
            - Cardinality(Uncounted)

\* Running is only set while some Stream goroutine exists, so AddClient never
\* leaves the start to a goroutine that is already gone.
RunningHasStream == running => \E s \in Streams : Alive(s)

\* AddClient and a concurrent stopStream: the start block never launches Stream
\* on a context that stopStream has cancelled.
NoStartOnStopped ==
  [][\A c \in Conns : AddStart(c) /\ ~running => ctx \notin stopped]_vars

\* Once nobody is connected any more, every Stream goroutine ends.
IdleStops == (<>[](clients = {})) => <>[](\A s \in Streams : ~Alive(s))

\* What the comments promise about Stream goroutines: never two of them feeding
\* the clients at the same time.
OneStreaming ==
  \A s, t \in Streams : pc[s] = "source" /\ pc[t] = "source" => s = t

\* ClientCount as types.go documents it: the live count of the map's entries
\* whenever no AddClient or RemoveClient is in flight.
CountIsClients ==
  Departing = {} /\ Uncounted = {} => count = Cardinality(clients)

\* As long as the restreamer is the channel's, AddClient never starts a Stream
\* against a cancelled context.
StartOnLiveContext ==
  [][\A c \in Conns : AddStart(c) /\ ~running /\ ~discarded => ctx \notin cancelled]_vars

\* A client whose AddClient has returned and that is still in the map is fed by
\* a Stream goroutine or is about to be.
RegisteredIsFed ==
  \A c \in clients : add[c] = "serving" =>
    \/ \E s \in Streams : Alive(s)
    \/ watch # "idle"
    \/ \E d \in Conns : add[d] \in {"count", "start"}

\* Switching is set only while a watcher's switch is in progress.
SwitchingHasOwner ==
  switching => watch # "idle" \/ byWatcher # {}

-----------------------------------------------------------------------------
(* The inductive invariant behind the passing properties *)

\* A connection is in the map between its AddStore and the one removal that
\* deletes it.
PlaceInv ==
  /\ \A c \in clients : rem[c] = "none" /\ c \notin leaked
  /\ \A c \in Conns :
       add[c] \in {"idle", "store"} => c \notin clients /\ rem[c] = "none" /\ c \notin leaked

\* stopStream owns Lifecycle from the cancellation to the new context, and
\* nobody else meets the context it cancelled.
StopInv ==
  /\ \A x \in stopped : x <= ctx
  /\ \A c \in Conns : rem[c] \in {"cancel", "destroy", "renew"} => lock = c
  /\ lock = NoConn => ctx \notin stopped

\* A goroutine inside Stream has at least one frame of it on its stack.
DepthInv == \A s \in Streams : pc[s] \notin {"none", "restored"} => depth[s] >= 1

IInv == TypeOK /\ DepthInv /\ PlaceInv /\ StopInv /\ CountAccounting /\ RunningHasStream

=============================================================================
