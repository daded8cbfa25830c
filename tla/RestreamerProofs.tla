-------------------------- MODULE RestreamerProofs --------------------------
(***************************************************************************)
(* Restreamer's safety for any set of connections and Stream goroutines:   *)
(* the client accounting, the Running flag and the context a new Stream    *)
(* starts on.  Each conjunct of IInv is preserved for a reason of its own  *)
(* and gets a lemma of its own, which the last lemma puts together.        *)
(***************************************************************************)
EXTENDS Restreamer, FiniteSetTheorems, TLAPS

USE DEF Added, Removed, Goto, TypeOK, ClientTypes, CtxTypes, StreamTypes

-----------------------------------------------------------------------------
(* Which actions leave the client variables alone *)

ClientStep == \E c \in Conns :
  AddClient(c) \/ RemoveClient(c) \/ stopStream(c) \/ CleanupEvict(c)

\* Every step that is not a client's, and every stuttering step, leaves the
\* map, the count and the handlers as they are; contexts only move forward.
LEMMA OtherStep ==
  ASSUME [Next]_vars, ~ClientStep, ctx \in Nat
  PROVE  UNCHANGED clientVars /\ (ctx' = ctx \/ ctx' = ctx + 1)
<1>1. CASE UNCHANGED vars
  BY <1>1 DEF vars, clientVars, ctxVars
<1>2. ASSUME NEW s \in Streams, Stream(s)
      PROVE  UNCHANGED clientVars /\ ctx' = ctx
  BY <1>2 DEF Stream, StreamTop, StreamAttempt, StreamConnect, StreamEnd, StreamEnded, StreamSucceeded,
     StreamFailed, StreamRetry, StreamExhausted, StreamFallback, StreamResume, StreamExit,
     StreamRestored, StreamOnly, clientVars, ctxVars
<1>3. CASE forceStreamRestart
  BY <1>3 DEF forceStreamRestart, WatchBegin, WatchFlag, WatchDrain, WatchInstall,
     WatchLaunch, clientVars, ctxVars
<1>4. CASE ForceStreamSwitch
  BY <1>4 DEF ForceStreamSwitch, ForceFlag, ForceInstall, ForceCancel, clientVars, ctxVars
<1>5. CASE cleanupChannelRestreamer
  <2>1. ~ \E c \in Conns : CleanupEvict(c)
    BY DEF ClientStep
  <2> QED
    BY <1>5, <2>1 DEF cleanupChannelRestreamer, CleanupTick, CleanupScanned, CleanupCancel,
       CleanupHalt, CleanupDiscard, clientVars, ctxVars
<1> QED
  BY <1>1, <1>2, <1>3, <1>4, <1>5 DEF Next, ClientStep

-----------------------------------------------------------------------------
(* Where a connection is *)

LEMMA PlaceStep ==
  ASSUME TypeOK, PlaceInv, [Next]_vars
  PROVE  PlaceInv'
<1>1. CASE ~ClientStep
  BY <1>1, OtherStep DEF TypeOK, PlaceInv, clientVars
<1>2. ASSUME NEW c \in Conns, AddClient(c)
      PROVE  PlaceInv'
  BY <1>2 DEF AddClient, Acquire, AddStore, AddCount, AddStart, TypeOK, PlaceInv
<1>3. ASSUME NEW c \in Conns, RemoveClient(c)
      PROVE  PlaceInv'
  BY <1>3 DEF RemoveClient, RemoveDelete, RemoveDecrement, RemoveZero, TypeOK, PlaceInv
<1>4. ASSUME NEW c \in Conns, stopStream(c)
      PROVE  PlaceInv'
  BY <1>4 DEF stopStream, StopLock, StopCancel, StopDestroy, StopRenew, TypeOK, PlaceInv
<1>5. ASSUME NEW c \in Conns, CleanupEvict(c)
      PROVE  PlaceInv'
  BY <1>5 DEF CleanupEvict, TypeOK, PlaceInv
<1> QED
  BY <1>1, <1>2, <1>3, <1>4, <1>5 DEF ClientStep

-----------------------------------------------------------------------------
(* The context stopStream cancelled *)

LEMMA StopStep ==
  ASSUME TypeOK, StopInv, [Next]_vars
  PROVE  StopInv'
<1> USE ConnAssumption
<1>1. CASE ~ClientStep
  <2>1. UNCHANGED <<rem, lock, stopped>> /\ (ctx' = ctx \/ ctx' = ctx + 1)
    BY <1>1, OtherStep DEF TypeOK, clientVars
  <2>2. ctx \in Nat /\ \A x \in stopped : x \in Nat
    BY DEF TypeOK
  <2> QED
    BY <2>1, <2>2 DEF StopInv
<1>2. ASSUME NEW c \in Conns, AddClient(c)
      PROVE  StopInv'
  <2>1. UNCHANGED <<rem, lock, stopped, ctx>>
    BY <1>2 DEF AddClient, Acquire, AddStore, AddCount, AddStart, ctxVars
  <2> QED
    BY <2>1 DEF StopInv
<1>3. ASSUME NEW c \in Conns, RemoveClient(c)
      PROVE  StopInv'
  BY ZenonT(40), <1>3 DEF RemoveClient, RemoveDelete, RemoveDecrement, RemoveZero, TypeOK, StopInv, ctxVars
<1>4. ASSUME NEW c \in Conns, stopStream(c)
      PROVE  StopInv'
  <2>1. CASE StopLock(c)
    BY <2>1 DEF StopLock, TypeOK, StopInv, ctxVars
  <2>2. CASE StopCancel(c)
    BY <2>2 DEF StopCancel, TypeOK, StopInv, ctxVars
  <2>3. CASE StopDestroy(c)
    BY <2>3 DEF StopDestroy, TypeOK, StopInv, ctxVars
  <2>4. CASE StopRenew(c)
    BY <2>4 DEF StopRenew, TypeOK, StopInv, ctxVars
  <2> QED
    BY <1>4, <2>1, <2>2, <2>3, <2>4 DEF stopStream
<1>5. ASSUME NEW c \in Conns, CleanupEvict(c)
      PROVE  StopInv'
  BY <1>5 DEF CleanupEvict, TypeOK, StopInv, ctxVars
<1> QED
  BY <1>1, <1>2, <1>3, <1>4, <1>5 DEF ClientStep

-----------------------------------------------------------------------------
(* Running *)

LEMMA RunningStep ==
  ASSUME TypeOK, RunningHasStream, [Next]_vars
  PROVE  RunningHasStream'
<1> USE DEF TypeOK, RunningHasStream, Alive
<1>1. CASE UNCHANGED vars
  BY <1>1 DEF vars, flagVars, streamVars
<1>2. ASSUME NEW c \in Conns, AddClient(c)
      PROVE  RunningHasStream'
  BY <1>2 DEF AddClient, Acquire, AddStore, AddCount, AddStart, Launch, flagVars, streamVars
<1>3. ASSUME NEW c \in Conns, RemoveClient(c)
      PROVE  RunningHasStream'
  BY <1>3 DEF RemoveClient, RemoveDelete, RemoveDecrement, RemoveZero, flagVars, streamVars
<1>4. ASSUME NEW c \in Conns, stopStream(c)
      PROVE  RunningHasStream'
  BY <1>4 DEF stopStream, StopLock, StopCancel, StopDestroy, StopRenew, flagVars, streamVars
<1>5. ASSUME NEW s \in Streams, Stream(s)
      PROVE  RunningHasStream'
  <2>1. CASE StreamExit(s) \/ StreamRestored(s)
    BY <2>1 DEF StreamExit, StreamRestored
  <2>2. CASE ~(StreamExit(s) \/ StreamRestored(s))
    BY <1>5, <2>2 DEF Stream, StreamTop, StreamAttempt, StreamConnect, StreamEnd, StreamEnded,
       StreamSucceeded, StreamFailed, StreamRetry, StreamExhausted, StreamFallback,
       StreamResume, flagVars
  <2> QED
    BY <2>1, <2>2
<1>6. CASE forceStreamRestart
  BY <1>6 DEF forceStreamRestart, WatchBegin, WatchFlag, WatchDrain, WatchInstall,
     WatchLaunch, Launch, flagVars, streamVars
<1>7. CASE ForceStreamSwitch
  BY <1>7 DEF ForceStreamSwitch, ForceFlag, ForceInstall, ForceCancel, flagVars, streamVars
<1>8. CASE cleanupChannelRestreamer
  BY <1>8 DEF cleanupChannelRestreamer, CleanupTick, CleanupEvict, CleanupScanned,
     CleanupCancel, CleanupHalt, CleanupDiscard, flagVars, streamVars
<1> QED
  BY <1>1, <1>2, <1>3, <1>4, <1>5, <1>6, <1>7, <1>8 DEF Next

-----------------------------------------------------------------------------
(* The client count *)

\* Adding a new member to a set of connections and taking one out changes its
\* size by one.
LEMMA Sizes ==
  ASSUME NEW S, S \subseteq Conns, NEW c
  PROVE  /\ Cardinality(S) \in Nat
         /\ c \notin S => Cardinality(S \cup {c}) = Cardinality(S) + 1
         /\ c \in S => Cardinality(S \ {c}) = Cardinality(S) - 1
<1>1. IsFiniteSet(S)
  BY ConnAssumption, FS_Subset
<1>2. Cardinality(S) \in Nat
  BY <1>1, FS_CardinalityType
<1>3. c \notin S => Cardinality(S \cup {c}) = Cardinality(S) + 1
  BY <1>1, FS_AddElement
<1>4. c \in S => Cardinality(S \ {c}) = Cardinality(S) - 1
  BY <1>1, FS_RemoveElement
<1> QED
  BY <1>1, <1>2, <1>3, <1>4

LEMMA CountStep ==
  ASSUME TypeOK, PlaceInv, CountAccounting, [Next]_vars
  PROVE  CountAccounting'
<1> USE DEF CountAccounting
<1>0. Uncounted \subseteq Conns /\ Departing \subseteq Conns
      /\ clients \subseteq Conns /\ leaked \subseteq Conns
  BY DEF Uncounted, Departing, TypeOK, ClientTypes
<1>s. count \in Int /\ Cardinality(Uncounted) \in Nat /\ Cardinality(Departing) \in Nat
      /\ Cardinality(clients) \in Nat /\ Cardinality(leaked) \in Nat
  BY <1>0, Sizes DEF TypeOK
<1>1. CASE ~ClientStep
  BY <1>1, OtherStep DEF TypeOK, clientVars, Uncounted, Departing
<1>2. ASSUME NEW c \in Conns, AddClient(c)
      PROVE  CountAccounting'
  <2>1. CASE Acquire(c)
    <3>1. Uncounted' = Uncounted /\ Departing' = Departing
      BY <2>1 DEF Acquire, TypeOK, Uncounted, Departing
    <3> QED
      BY <2>1, <3>1 DEF Acquire
  <2>2. CASE AddStore(c)
    <3>1. Uncounted' = Uncounted \cup {c} /\ c \notin Uncounted /\ Departing' = Departing
      BY <2>2 DEF AddStore, TypeOK, Uncounted, Departing
    <3>2. c \notin clients
      BY <2>2 DEF AddStore, PlaceInv
    <3> QED
      <4>1. Cardinality(clients \cup {c}) = Cardinality(clients) + 1
        BY <3>2, <1>0, Sizes
      <4>2. Cardinality(Uncounted \cup {c}) = Cardinality(Uncounted) + 1
        BY <3>1, <1>0, Sizes
      <4> QED
        BY <2>2, <3>1, <4>1, <4>2, <1>s DEF AddStore
  <2>3. CASE AddCount(c)
    <3>1. Uncounted' = Uncounted \ {c} /\ c \in Uncounted /\ Departing' = Departing
      BY <2>3 DEF AddCount, TypeOK, Uncounted, Departing
    <3> QED
      <4>1. Cardinality(Uncounted \ {c}) = Cardinality(Uncounted) - 1
        BY <3>1, <1>0, Sizes
      <4> QED
        BY <2>3, <3>1, <4>1, <1>s DEF AddCount
  <2>4. CASE AddStart(c)
    <3>1. Uncounted' = Uncounted /\ Departing' = Departing
      BY <2>4 DEF AddStart, TypeOK, Uncounted, Departing
    <3> QED
      BY <2>4, <3>1 DEF AddStart
  <2> QED
    BY <1>2, <2>1, <2>2, <2>3, <2>4 DEF AddClient
<1>3. ASSUME NEW c \in Conns, RemoveClient(c)
      PROVE  CountAccounting'
  <2>1. CASE RemoveDelete(c)
    <3>1. c \in clients /\ c \notin Departing
      BY <2>1 DEF RemoveDelete, PlaceInv, Departing
    <3>2. Uncounted' = Uncounted /\ Departing' = Departing \cup {c}
      BY <2>1, <3>1 DEF RemoveDelete, TypeOK, Uncounted, Departing
    <3> QED
      <4>1. Cardinality(clients \ {c}) = Cardinality(clients) - 1
        BY <3>1, <1>0, Sizes
      <4>2. Cardinality(Departing \cup {c}) = Cardinality(Departing) + 1
        BY <3>1, <1>0, Sizes
      <4> QED
        BY <2>1, <3>2, <4>1, <4>2, <1>s DEF RemoveDelete
  <2>2. CASE RemoveDecrement(c)
    <3>1. Uncounted' = Uncounted /\ Departing' = Departing \ {c} /\ c \in Departing
      BY <2>2 DEF RemoveDecrement, TypeOK, Uncounted, Departing
    <3> QED
      <4>1. Cardinality(Departing \ {c}) = Cardinality(Departing) - 1
        BY <3>1, <1>0, Sizes
      <4> QED
        BY <2>2, <3>1, <4>1, <1>s DEF RemoveDecrement
  <2>3. CASE RemoveZero(c)
    <3>1. Uncounted' = Uncounted /\ Departing' = Departing
      BY <2>3 DEF RemoveZero, TypeOK, Uncounted, Departing
    <3> QED
      BY <2>3, <3>1 DEF RemoveZero
  <2> QED
    BY <1>3, <2>1, <2>2, <2>3 DEF RemoveClient
<1>4. ASSUME NEW c \in Conns, stopStream(c)
      PROVE  CountAccounting'
  <2>1. Uncounted' = Uncounted /\ Departing' = Departing
    BY <1>4 DEF stopStream, StopLock, StopCancel, StopDestroy, StopRenew, TypeOK,
       Uncounted, Departing
  <2> QED
    BY <1>4, <2>1 DEF stopStream, StopLock, StopCancel, StopDestroy, StopRenew
<1>5. ASSUME NEW c \in Conns, CleanupEvict(c)
      PROVE  CountAccounting'
  <2>1. c \in clients /\ c \notin leaked /\ c \notin Departing
    BY <1>5 DEF CleanupEvict, PlaceInv, Departing
  <2>2. Uncounted' = Uncounted /\ Departing' = Departing
    BY <1>5, <2>1 DEF CleanupEvict, TypeOK, Uncounted, Departing
  <2> QED
    <3>1. Cardinality(clients \ {c}) = Cardinality(clients) - 1
      BY <2>1, <1>0, Sizes
    <3>2. Cardinality(leaked \cup {c}) = Cardinality(leaked) + 1
      BY <2>1, <1>0, Sizes
    <3> QED
      BY <1>5, <2>2, <3>1, <3>2, <1>s DEF CleanupEvict
<1> QED
  BY <1>1, <1>2, <1>3, <1>4, <1>5 DEF ClientStep

-----------------------------------------------------------------------------
(* Types and nesting *)

HIDE DEF TypeOK, ClientTypes, CtxTypes, StreamTypes

LEMMA TypeStep ==
  ASSUME TypeOK, DepthInv, [Next]_vars
  PROVE  TypeOK' /\ DepthInv'
<1> USE DEF AddPCs, RemPCs, StreamPCs
<1> SUFFICES /\ ClientTypes' /\ FlagTypes' /\ CtxTypes' /\ StreamTypes' /\ DepthInv'
             /\ WatchTypes' /\ ForceTypes' /\ CleanupTypes'
  BY DEF TypeOK
<1>0. /\ ClientTypes /\ FlagTypes /\ CtxTypes /\ StreamTypes /\ DepthInv
      /\ WatchTypes /\ ForceTypes /\ CleanupTypes
  BY DEF TypeOK
<1>a. UNCHANGED clientVars => ClientTypes'
  BY <1>0 DEF clientVars, ClientTypes
<1>b. UNCHANGED flagVars => FlagTypes'
  BY <1>0 DEF flagVars, FlagTypes
<1>c. UNCHANGED ctxVars => CtxTypes'
  BY <1>0 DEF ctxVars, CtxTypes
<1>d. UNCHANGED streamVars => StreamTypes' /\ DepthInv'
  BY <1>0 DEF streamVars, StreamTypes, DepthInv
<1>e. UNCHANGED watchVars => WatchTypes'
  BY <1>0 DEF watchVars, WatchTypes
<1>f. UNCHANGED forceVars => ForceTypes'
  BY <1>0 DEF forceVars, ForceTypes
<1>g. UNCHANGED cleanupVars => CleanupTypes'
  BY <1>0 DEF cleanupVars, CleanupTypes
<1>h. ASSUME NEW s \in Streams, Launch(s), byWatcher' \in SUBSET Streams
      PROVE  StreamTypes' /\ DepthInv'
  BY <1>0, <1>h DEF Launch, StreamTypes, DepthInv
<1>1. CASE UNCHANGED vars
  BY <1>1, <1>a, <1>b, <1>c, <1>d, <1>e, <1>f, <1>g DEF vars
<1>2. ASSUME NEW c \in Conns, AddClient(c)
      PROVE  /\ ClientTypes' /\ FlagTypes' /\ CtxTypes' /\ StreamTypes' /\ DepthInv'
             /\ WatchTypes' /\ ForceTypes' /\ CleanupTypes'
  <2>1. ClientTypes'
    <3>1. clients' \in SUBSET Conns /\ add' \in [Conns -> AddPCs]
      BY <1>0, <1>2 DEF AddClient, Acquire, AddStore, AddCount, AddStart, ClientTypes
    <3>2. count' = count \/ count' = count + 1
      BY <1>2 DEF AddClient, Acquire, AddStore, AddCount, AddStart
    <3>3. UNCHANGED <<rem, lock, leaked, stopped>>
      BY <1>2 DEF AddClient, Acquire, AddStore, AddCount, AddStart
    <3> QED
      BY <1>0, <3>1, <3>2, <3>3 DEF ClientTypes
  <2>2. UNCHANGED <<ctxVars, watchVars, forceVars, cleanupVars>>
    BY <1>2 DEF AddClient, Acquire, AddStore, AddCount, AddStart
  <2>3. UNCHANGED <<flagVars, streamVars>> \/ AddStart(c)
    BY <1>2 DEF AddClient, Acquire, AddStore, AddCount
  <2>4. ASSUME AddStart(c) PROVE FlagTypes' /\ StreamTypes' /\ DepthInv'
    <3>1. CASE UNCHANGED <<running, streamVars>>
      BY <1>0, <2>4, <3>1, <1>d DEF AddStart, FlagTypes
    <3>2. CASE /\ running' = TRUE
               /\ \E s \in Streams : Launch(s) /\ byWatcher' = byWatcher \ {s}
      <4>1. PICK s \in Streams : Launch(s) /\ byWatcher' = byWatcher \ {s}
        BY <3>2
      <4>2. byWatcher' \in SUBSET Streams
        BY <1>0, <4>1 DEF StreamTypes
      <4>3. StreamTypes' /\ DepthInv'
        BY <4>1, <4>2, <1>h
      <4> QED
        BY <1>0, <2>4, <3>2, <4>3 DEF AddStart, FlagTypes
    <3> QED
      BY <2>4, <3>1, <3>2 DEF AddStart
  <2> QED
    BY <2>1, <2>2, <2>3, <2>4, <1>b, <1>c, <1>d, <1>e, <1>f, <1>g
<1>3. ASSUME NEW c \in Conns, RemoveClient(c) \/ stopStream(c) \/ CleanupEvict(c)
      PROVE  /\ ClientTypes' /\ FlagTypes' /\ CtxTypes' /\ StreamTypes' /\ DepthInv'
             /\ WatchTypes' /\ ForceTypes' /\ CleanupTypes'
  <2>1. ClientTypes'
    <3>1. CASE RemoveClient(c)
      <4>1. CASE RemoveDelete(c)
        BY <1>0, <4>1 DEF RemoveDelete, ClientTypes
      <4>2. CASE RemoveDecrement(c)
        BY <1>0, <4>2 DEF RemoveDecrement, ClientTypes
      <4>3. CASE RemoveZero(c)
        BY <1>0, <4>3 DEF RemoveZero, ClientTypes
      <4> QED
        BY <3>1, <4>1, <4>2, <4>3 DEF RemoveClient
    <3>2. CASE StopLock(c)
      BY <1>0, <3>2 DEF StopLock, ClientTypes
    <3>3. CASE StopCancel(c)
      BY <1>0, <3>3 DEF StopCancel, ClientTypes, CtxTypes
    <3>4. CASE StopDestroy(c) \/ StopRenew(c)
      BY <1>0, <3>4 DEF StopDestroy, StopRenew, ClientTypes
    <3>5. CASE CleanupEvict(c)
      BY <1>0, <3>5 DEF CleanupEvict, ClientTypes
    <3> QED
      BY <1>3, <3>1, <3>2, <3>3, <3>4, <3>5 DEF stopStream
  <2>2. UNCHANGED <<streamVars, watchVars, forceVars, cleanupVars>>
    BY <1>3 DEF RemoveClient, RemoveDelete, RemoveDecrement, RemoveZero, stopStream,
       StopLock, StopCancel, StopDestroy, StopRenew, CleanupEvict
  <2>3. CtxTypes'
    <3>1. /\ ctx' = ctx \/ ctx' = ctx + 1
          /\ cancelled' = cancelled \/ cancelled' = cancelled \cup {ctx}
          /\ buffer' = buffer \/ buffer' = "nil"
      BY <1>3 DEF RemoveClient, RemoveDelete, RemoveDecrement, RemoveZero, stopStream,
         StopLock, StopCancel, StopDestroy, StopRenew, CleanupEvict, ctxVars
    <3>2. ctx' \in Nat
      BY <1>0, <3>1 DEF CtxTypes
    <3>3. cancelled' \in SUBSET Nat
      BY <1>0, <3>1 DEF CtxTypes
    <3> QED
      BY <1>0, <3>1, <3>2, <3>3 DEF CtxTypes
  <2>4. UNCHANGED flagVars \/ (running' = FALSE /\ UNCHANGED <<switching, manual>>)
    BY <1>3 DEF RemoveClient, RemoveDelete, RemoveDecrement, RemoveZero, stopStream,
       StopLock, StopCancel, StopDestroy, StopRenew, CleanupEvict, flagVars
  <2>5. FlagTypes'
    BY <1>0, <2>4, <1>b DEF FlagTypes
  <2> QED
    BY <2>1, <2>2, <2>3, <2>5, <1>d, <1>e, <1>f, <1>g
<1>4. ASSUME NEW s \in Streams, Stream(s)
      PROVE  /\ ClientTypes' /\ FlagTypes' /\ CtxTypes' /\ StreamTypes' /\ DepthInv'
             /\ WatchTypes' /\ ForceTypes' /\ CleanupTypes'
  <2>1. UNCHANGED <<clientVars, watchVars, forceVars, cleanupVars>>
    BY <1>4 DEF Stream, StreamTop, StreamAttempt, StreamConnect, StreamEnd, StreamEnded, StreamSucceeded,
       StreamFailed, StreamRetry, StreamExhausted, StreamFallback, StreamResume, StreamExit,
       StreamRestored, StreamOnly
  <2>2. CtxTypes'
    BY <1>0, <1>4 DEF Stream, StreamTop, StreamAttempt, StreamConnect, StreamEnd, StreamEnded,
       StreamSucceeded, StreamFailed, StreamRetry, StreamExhausted, StreamFallback,
       StreamResume, StreamExit, StreamRestored, CtxTypes, ctxVars
  <2>3. /\ running' = running \/ running' = FALSE
        /\ switching' = switching \/ switching' = FALSE
        /\ manual' = manual \/ manual' = FALSE
    BY <1>4 DEF Stream, StreamTop, StreamAttempt, StreamConnect, StreamEnd, StreamEnded, StreamSucceeded,
       StreamFailed, StreamRetry, StreamExhausted, StreamFallback, StreamResume, StreamExit,
       StreamRestored, StreamOnly, flagVars
  <2>4. FlagTypes'
    BY <1>0, <2>3 DEF FlagTypes
  <2>5. byWatcher' \in SUBSET Streams /\ req' \in [Streams -> Nat]
    BY <1>0, <1>4 DEF Stream, StreamTop, StreamAttempt, StreamConnect, StreamEnd, StreamEnded,
       StreamSucceeded, StreamFailed, StreamRetry, StreamExhausted, StreamFallback,
       StreamResume, StreamExit, StreamRestored, StreamTypes, CtxTypes
  <2>6. pc' \in [Streams -> StreamPCs] /\ depth' \in [Streams -> Nat] /\ DepthInv'
    <3>1. CASE StreamExit(s)
      <4>1. depth[s] \in Nat /\ depth[s] >= 1
        BY <1>0, <3>1 DEF StreamExit, StreamTypes, DepthInv
      <4> QED
        BY <1>0, <3>1, <4>1 DEF StreamExit, StreamTypes, DepthInv
    <3>2. CASE StreamResume(s)
      BY <1>0, <3>2 DEF StreamResume, StreamTypes, DepthInv
    <3>3. CASE ~(StreamExit(s) \/ StreamResume(s))
      BY <1>0, <1>4, <3>3 DEF Stream, StreamTop, StreamAttempt, StreamConnect, StreamEnd, StreamEnded,
         StreamSucceeded, StreamFailed, StreamRetry, StreamExhausted, StreamFallback,
         StreamRestored, StreamTypes, DepthInv
    <3> QED
      BY <3>1, <3>2, <3>3
  <2>7. wasManual' \in SUBSET Streams
    <3>1. \/ wasManual' = wasManual \/ wasManual' = wasManual \ {s}
          \/ wasManual' = wasManual \cup {s}
      BY <1>4 DEF Stream, StreamTop, StreamAttempt, StreamConnect, StreamEnd, StreamEnded,
         StreamSucceeded, StreamFailed, StreamRetry, StreamExhausted, StreamFallback,
         StreamResume, StreamExit, StreamRestored
    <3> QED
      BY <1>0, <3>1 DEF StreamTypes
  <2>8. StreamTypes'
    BY <2>5, <2>6, <2>7 DEF StreamTypes
  <2> QED
    BY <2>1, <2>2, <2>4, <2>6, <2>8, <1>a, <1>e, <1>f, <1>g
<1>5. CASE forceStreamRestart
  <2>1. UNCHANGED <<clientVars, forceVars, cleanupVars>>
    BY <1>5 DEF forceStreamRestart, WatchBegin, WatchFlag, WatchDrain, WatchInstall, WatchLaunch
  <2>2. CtxTypes'
    <3>1. /\ ctx' = ctx \/ ctx' = ctx + 1
          /\ cancelled' = cancelled \/ cancelled' = cancelled \cup {ctx}
          /\ buffer' = buffer
      BY <1>5 DEF forceStreamRestart, WatchBegin, WatchFlag, WatchDrain, WatchInstall,
         WatchLaunch, ctxVars
    <3>2. ctx' \in Nat
      BY <1>0, <3>1 DEF CtxTypes
    <3>3. cancelled' \in SUBSET Nat
      BY <1>0, <3>1 DEF CtxTypes
    <3> QED
      BY <1>0, <3>1, <3>2, <3>3 DEF CtxTypes
  <2>3. WatchTypes'
    <3>1. CASE WatchFlag
      <4>1. hadClients' \in BOOLEAN
        BY <3>1 DEF WatchFlag
      <4> QED
        BY <1>0, <3>1, <4>1 DEF WatchFlag, WatchTypes
    <3>2. CASE ~WatchFlag
      BY <1>0, <1>5, <3>2 DEF forceStreamRestart, WatchBegin, WatchDrain, WatchInstall,
         WatchLaunch, WatchTypes
    <3> QED
      BY <3>1, <3>2
  <2>4. /\ running' = running \/ running' = TRUE
        /\ switching' = switching \/ switching' = TRUE
        /\ manual' = manual \/ manual' = TRUE
    BY <1>5 DEF forceStreamRestart, WatchBegin, WatchFlag, WatchDrain, WatchInstall,
       WatchLaunch, flagVars
  <2>5. FlagTypes'
    BY <1>0, <2>4 DEF FlagTypes
  <2>6. StreamTypes' /\ DepthInv'
    <3>1. UNCHANGED streamVars
          \/ \E s \in Streams : Launch(s) /\ byWatcher' = byWatcher \cup {s}
      BY <1>5 DEF forceStreamRestart, WatchBegin, WatchFlag, WatchDrain, WatchInstall, WatchLaunch
    <3>2. ASSUME NEW s \in Streams, Launch(s), byWatcher' = byWatcher \cup {s}
          PROVE  StreamTypes' /\ DepthInv'
      <4>1. byWatcher' \in SUBSET Streams
        BY <1>0, <3>2 DEF StreamTypes
      <4> QED
        BY <3>2, <4>1, <1>h
    <3> QED
      BY <3>1, <3>2, <1>d
  <2> QED
    BY <2>1, <2>2, <2>3, <2>5, <2>6, <1>a, <1>f, <1>g
<1>6. CASE ForceStreamSwitch
  <2>1. UNCHANGED <<clientVars, streamVars, watchVars, cleanupVars>>
    BY <1>6 DEF ForceStreamSwitch, ForceFlag, ForceInstall, ForceCancel
  <2>2. CtxTypes' /\ ForceTypes'
    <3>1. CASE ForceFlag
      BY <1>0, <3>1 DEF ForceFlag, CtxTypes, ForceTypes, ctxVars
    <3>2. CASE ForceInstall
      BY <1>0, <3>2 DEF ForceInstall, CtxTypes, ForceTypes
    <3>3. CASE ForceCancel
      BY <1>0, <3>3 DEF ForceCancel, CtxTypes, ForceTypes
    <3> QED
      BY <1>6, <3>1, <3>2, <3>3 DEF ForceStreamSwitch
  <2>3. UNCHANGED <<running, switching>> /\ (manual' = manual \/ manual' = TRUE)
    BY <1>6 DEF ForceStreamSwitch, ForceFlag, ForceInstall, ForceCancel, flagVars
  <2>4. FlagTypes'
    BY <1>0, <2>3 DEF FlagTypes
  <2> QED
    BY <2>1, <2>2, <2>4, <1>a, <1>d, <1>e, <1>g
<1>7. CASE cleanupChannelRestreamer /\ ~ \E c \in Conns : CleanupEvict(c)
  <2>1. UNCHANGED <<clientVars, streamVars, watchVars, forceVars>>
    BY <1>7 DEF cleanupChannelRestreamer, CleanupTick, CleanupScanned, CleanupCancel,
       CleanupHalt, CleanupDiscard
  <2>2. CtxTypes'
    BY <1>0, <1>7 DEF cleanupChannelRestreamer, CleanupTick, CleanupScanned, CleanupCancel,
       CleanupHalt, CleanupDiscard, CtxTypes, ctxVars
  <2>3. /\ running' = running \/ running' = FALSE
        /\ UNCHANGED <<switching, manual>>
        /\ discarded' = discarded \/ discarded' = TRUE
    BY <1>7 DEF cleanupChannelRestreamer, CleanupTick, CleanupScanned, CleanupCancel,
       CleanupHalt, CleanupDiscard, flagVars
  <2>4. cleanup' \in {"idle", "scan", "cancel", "halt"}
    BY <1>0, <1>7 DEF cleanupChannelRestreamer, CleanupTick, CleanupScanned, CleanupCancel,
       CleanupHalt, CleanupDiscard, CleanupTypes
  <2>5. FlagTypes' /\ CleanupTypes'
    BY <1>0, <2>3, <2>4 DEF FlagTypes, CleanupTypes
  <2> QED
    BY <2>1, <2>2, <2>5, <1>a, <1>d, <1>e, <1>f
<1> QED
  BY <1>1, <1>2, <1>3, <1>4, <1>5, <1>6, <1>7 DEF Next, cleanupChannelRestreamer

-----------------------------------------------------------------------------
(* The theorems *)

LEMMA InitInv == Init => IInv
<1> SUFFICES ASSUME Init PROVE IInv
  OBVIOUS
<1>1. TypeOK /\ DepthInv
  <2>1. ClientTypes /\ CtxTypes /\ StreamTypes /\ DepthInv
    BY DEF Init, ClientTypes, CtxTypes, StreamTypes, DepthInv, AddPCs, RemPCs, StreamPCs
  <2>2. FlagTypes
    BY DEF Init, FlagTypes
  <2>3. WatchTypes /\ ForceTypes /\ CleanupTypes
    BY DEF Init, WatchTypes, ForceTypes, CleanupTypes
  <2> QED
    BY <2>1, <2>2, <2>3 DEF TypeOK
<1>2. PlaceInv /\ StopInv /\ RunningHasStream
  BY DEF Init, PlaceInv, StopInv, RunningHasStream
<1>3. CountAccounting
  <2>1. Departing = {} /\ Uncounted = {} /\ Cardinality({}) = 0
    BY FS_EmptySet DEF Init, Departing, Uncounted
  <2> QED
    BY <2>1 DEF Init, CountAccounting
<1> QED
  BY <1>1, <1>2, <1>3 DEF IInv

LEMMA NextInv == IInv /\ [Next]_vars => IInv'
  BY TypeStep, PlaceStep, StopStep, CountStep, RunningStep DEF IInv

\* The inductive invariant holds in every reachable state.
THEOREM Invariance == Spec => []IInv
  BY InitInv, NextInv, PTL DEF Spec

\* Every variable of the restreamer keeps its type.
THEOREM TypeCorrect == Spec => []TypeOK
<1>1. IInv => TypeOK
  BY DEF IInv
<1> QED
  BY <1>1, Invariance, PTL

\* ClientCount agrees with the client map up to clients in flight and clients
\* evicted by the cleanup ticker, for any number of connections.
THEOREM CountCorrect == Spec => []CountAccounting
<1>1. IInv => CountAccounting
  BY DEF IInv
<1> QED
  BY <1>1, Invariance, PTL

\* Running is never left set after the last Stream goroutine has gone.
THEOREM RunningCorrect == Spec => []RunningHasStream
<1>1. IInv => RunningHasStream
  BY DEF IInv
<1> QED
  BY <1>1, Invariance, PTL

\* AddClient never starts Stream on a context cancelled by stopStream.
THEOREM StartCorrect == Spec => NoStartOnStopped
<1>1. IInv /\ [Next]_vars =>
        [\A c \in Conns : AddStart(c) /\ ~running => ctx \notin stopped]_vars
  BY DEF IInv, StopInv, AddStart
<1> QED
  BY <1>1, Invariance, PTL DEF Spec, NoStartOnStopped
=============================================================================
