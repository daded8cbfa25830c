------------------------ MODULE WatcherManagerProofs ------------------------
(***************************************************************************)
(* Slot accounting of the watcher semaphore for any number of channels,    *)
(* handlers, administrators and cleanup routines.  Only five kinds of      *)
(* steps touch the registry or the semaphore; each moves one watcher from  *)
(* one of the four places of Holding to another, into it or out of it.     *)
(***************************************************************************)
EXTENDS WatcherManager, FiniteSetTheorems, TLAPS

\* The steps that touch the registry, the semaphore or a call that holds a slot.
RegistryStep ==
  \/ \E c \in Calls : StartWatching(c)
  \/ \E a \in Admins : StopRelease(a) \/ \E ch \in Chans : StopVisit(a, ch)
  \/ \E r \in Routines : CleanRelease(r) \/ CleanDelete(r)

-----------------------------------------------------------------------------
(* Types *)

LEMMA RegistryTypesStep ==
  ASSUME TypeOK, OwnInv, [Next]_vars
  PROVE  RegistryTypes'
<1> USE BoundAssumption DEF TypeOK, RegistryTypes, CallTypes, OwnInv, registryVars
<1>1. CASE UNCHANGED registryVars
  BY <1>1
<1>2. ASSUME NEW c \in Calls, StartWatching(c)
      PROVE  RegistryTypes'
  <2>1. CASE CallAcquire(c)
    BY <2>1 DEF CallAcquire
  <2>2. CASE CallReplace(c)
    BY <2>2 DEF CallReplace, TakeOut, Actors
  <2>3. CASE CallRelease(c)
    BY <2>3 DEF CallRelease, Release, Actors
  <2>4. CASE CallStore(c)
    <3>1. chan[c] \in Chans
      BY <2>4 DEF CallStore
    <3> QED
      BY <2>4, <3>1 DEF CallStore, IsWatching
  <2> QED
    BY <1>2, <2>1, <2>2, <2>3, <2>4 DEF StartWatching
<1>3. ASSUME NEW a \in Admins, NEW ch \in Chans, StopVisit(a, ch)
      PROVE  RegistryTypes'
  BY <1>3 DEF StopVisit, TakeOut, Actors
<1>4. ASSUME NEW a \in Actors, Release(a), UNCHANGED <<registry, lost>>
      PROVE  RegistryTypes'
  BY <1>4 DEF Release
<1>5. ASSUME NEW r \in Routines, CleanDelete(r)
      PROVE  RegistryTypes'
  <2>1. target[r] \in Chans
    BY <1>5 DEF CleanDelete
  <2> QED
    BY <1>5, <2>1 DEF CleanDelete, TakeOut, Actors
<1>6. ASSUME NEW a \in Admins, StopRelease(a)
      PROVE  RegistryTypes'
  BY <1>6, <1>4 DEF StopRelease, Actors
<1>7. ASSUME NEW r \in Routines, CleanRelease(r)
      PROVE  RegistryTypes'
  BY <1>7, <1>4 DEF CleanRelease, Actors
<1>8. CASE ~RegistryStep
  <2>1. UNCHANGED registryVars
    BY <1>8 DEF RegistryStep, Next, Toggle, Discard, CallCheck, Watch, WatchWait, WatchTick,
       Enable, Disable, Restart, Start, StartEnable, StartMake, Stop, StopBegin, StopClose,
       StopEnd, cleanupRoutine, CleanStop, CleanTick, CleanVisit, CleanSelect, vars
  <2> QED BY <2>1, <1>1
<1> QED
  BY <1>2, <1>3, <1>5, <1>6, <1>7, <1>8 DEF RegistryStep

LEMMA CallTypesStep ==
  ASSUME TypeOK, [Next]_vars
  PROVE  CallTypes'
<1> USE DEF TypeOK, CallTypes, callVars
<1>1. CASE UNCHANGED callVars
  BY <1>1
<1>2. ASSUME NEW ch \in Chans, Toggle(ch) \/ Discard(ch)
      PROVE  CallTypes'
  BY <1>2 DEF Toggle, Discard
<1>3. ASSUME NEW c \in Calls, NEW ch \in Chans, CallCheck(c, ch)
      PROVE  CallTypes'
  BY <1>3 DEF CallCheck
<1>4. ASSUME NEW c \in Calls, StartWatching(c)
      PROVE  CallTypes'
  BY <1>4 DEF StartWatching, CallAcquire, CallReplace, CallRelease, CallStore
<1>5. ASSUME NEW c \in Calls, Watch(c)
      PROVE  UNCHANGED callVars
  BY <1>5 DEF Watch, WatchWait, WatchTick
<1>6. ASSUME NEW a \in Admins, Enable(a) \/ Disable(a) \/ Restart(a) \/ Start(a) \/ Stop(a)
      PROVE  UNCHANGED callVars
  BY <1>6 DEF Enable, Disable, Restart, Start, StartEnable, StartMake, Stop, StopBegin, StopClose,
     StopVisit, StopRelease, StopEnd
<1>7. ASSUME NEW r \in Routines, cleanupRoutine(r)
      PROVE  UNCHANGED callVars
  BY <1>7 DEF cleanupRoutine, CleanStop, CleanTick, CleanVisit, CleanDelete, CleanRelease,
     CleanSelect
<1>8. CASE UNCHANGED vars
  BY <1>8 DEF vars
<1> QED
  BY <1>1, <1>2, <1>3, <1>4, <1>5, <1>6, <1>7, <1>8 DEF Next

LEMMA WatchTypesStep ==
  ASSUME TypeOK, OwnInv, [Next]_vars
  PROVE  WatchTypes' /\ (running \in SUBSET Chans)'
<1> USE DEF TypeOK, WatchTypes, RegistryTypes, watchVars, OwnInv
<1>1. ASSUME NEW ch \in Chans, Toggle(ch) \/ Discard(ch)
      PROVE  UNCHANGED watchVars /\ (running \in SUBSET Chans)'
  BY <1>1 DEF Toggle, Discard
<1>2. ASSUME NEW c \in Calls, NEW ch \in Chans, CallCheck(c, ch)
      PROVE  UNCHANGED <<running, watchVars>>
  BY <1>2 DEF CallCheck
<1>3. ASSUME NEW c \in Calls, StartWatching(c)
      PROVE  WatchTypes' /\ UNCHANGED running
  <2>1. call[c] # "idle" /\ chan[c] \in Chans
    BY <1>3 DEF StartWatching, CallAcquire, CallReplace, CallRelease, CallStore
  <2> QED
    BY <1>3, <2>1 DEF StartWatching, CallAcquire, CallReplace, CallRelease, CallStore, TakeOut
<1>4. ASSUME NEW c \in Calls, Watch(c)
      PROVE  WatchTypes' /\ UNCHANGED running
  BY <1>4 DEF Watch, WatchWait, WatchTick
<1>5. ASSUME NEW a \in Admins, Enable(a) \/ Disable(a) \/ Restart(a) \/ Start(a) \/ Stop(a)
      PROVE  WatchTypes' /\ UNCHANGED running
  BY <1>5 DEF Enable, Disable, Restart, Start, StartEnable, StartMake, Stop, StopBegin, StopClose,
     StopVisit, StopRelease, StopEnd, TakeOut
<1>6. ASSUME NEW r \in Routines, cleanupRoutine(r)
      PROVE  WatchTypes' /\ UNCHANGED running
  BY <1>6 DEF cleanupRoutine, CleanStop, CleanTick, CleanVisit, CleanDelete, CleanRelease,
     CleanSelect, TakeOut
<1>7. CASE UNCHANGED vars
  BY <1>7 DEF vars
<1> QED
  BY <1>1, <1>2, <1>3, <1>4, <1>5, <1>6, <1>7 DEF Next

LEMMA ManagerTypesStep ==
  ASSUME TypeOK, [Next]_vars
  PROVE  ManagerTypes'
<1> USE DEF TypeOK, ManagerTypes, managerVars, adminVars, routineVars
<1>1. CASE UNCHANGED managerVars
  BY <1>1
<1>2. ASSUME NEW a \in Admins,
             Enable(a) \/ Disable(a) \/ Restart(a) \/ StartEnable(a) \/ StopBegin(a) \/ StopEnd(a)
      PROVE  ManagerTypes'
  BY <1>2 DEF Enable, Disable, Restart, StartEnable, StopBegin, StopEnd, AfterStop
<1>3. ASSUME NEW a \in Admins, StartMake(a)
      PROVE  ManagerTypes'
  BY <1>3 DEF StartMake
<1>4. ASSUME NEW a \in Admins, NEW ch \in Chans, StopVisit(a, ch)
      PROVE  ManagerTypes'
  BY <1>4 DEF StopVisit, Actors
<1>5. ASSUME NEW a \in Admins, StopClose(a)
      PROVE  ManagerTypes'
  BY <1>5 DEF StopClose, Actors
<1>6. ASSUME NEW r \in Routines, NEW ch \in Chans, CleanVisit(r, ch)
      PROVE  ManagerTypes'
  BY <1>6 DEF CleanVisit, Actors
<1>7. ASSUME NEW r \in Routines, CleanStop(r) \/ CleanTick(r) \/ CleanDelete(r) \/ CleanSelect(r)
      PROVE  ManagerTypes'
  <2>1. CASE CleanStop(r)
    BY <2>1 DEF CleanStop
  <2>4. CASE CleanTick(r)
    BY <2>4 DEF CleanTick, Actors
  <2>2. CASE CleanDelete(r)
    BY <2>2 DEF CleanDelete
  <2>3. CASE CleanSelect(r)
    BY <2>3 DEF CleanSelect
  <2> QED
    BY <1>7, <2>1, <2>2, <2>3, <2>4
<1>8. ASSUME NEW r \in Routines, CleanRelease(r)
      PROVE  UNCHANGED managerVars
  BY <1>8 DEF CleanRelease
<1>9. ASSUME NEW a \in Admins, StopRelease(a)
      PROVE  UNCHANGED managerVars
  BY <1>9 DEF StopRelease
<1>10. ASSUME NEW c \in Calls, (\E ch \in Chans : CallCheck(c, ch)) \/ StartWatching(c) \/ Watch(c)
       PROVE  UNCHANGED managerVars
  BY <1>10 DEF CallCheck, StartWatching, CallAcquire, CallReplace, CallRelease, CallStore, Watch,
     WatchWait, WatchTick
<1>11. ASSUME NEW ch \in Chans, Toggle(ch) \/ Discard(ch)
       PROVE  UNCHANGED managerVars
  BY <1>11 DEF Toggle, Discard
<1>12. CASE UNCHANGED vars
  BY <1>12 DEF vars
<1> QED
  BY <1>1, <1>2, <1>3, <1>4, <1>5, <1>6, <1>7, <1>8, <1>9, <1>10, <1>11, <1>12
     DEF Next, Start, Stop, cleanupRoutine

LEMMA TypeStep ==
  ASSUME TypeOK, OwnInv, [Next]_vars
  PROVE  TypeOK'
BY RegistryTypesStep, CallTypesStep, WatchTypesStep, ManagerTypesStep DEF TypeOK

-----------------------------------------------------------------------------
(* An actor's own variables *)

LEMMA OwnStep ==
  ASSUME TypeOK, OwnInv, [Next]_vars
  PROVE  OwnInv'
<1> USE ActorAssumption DEF TypeOK, RegistryTypes, CallTypes, ManagerTypes, OwnInv, Actors
<1>1. ASSUME NEW ch \in Chans, Toggle(ch) \/ Discard(ch)
      PROVE  OwnInv'
  BY <1>1 DEF Toggle, Discard, registryVars, callVars, managerVars, routineVars
<1>2. ASSUME NEW c \in Calls, NEW ch \in Chans, CallCheck(c, ch)
      PROVE  OwnInv'
  BY <1>2 DEF CallCheck, registryVars, managerVars, routineVars
<1>3. ASSUME NEW c \in Calls, StartWatching(c)
      PROVE  OwnInv'
  <2>1. UNCHANGED <<chan, routine, target>>
    BY <1>3 DEF StartWatching, CallAcquire, CallReplace, CallRelease, CallStore, managerVars,
       routineVars
  <2>2. /\ call[c] # "idle"
        /\ \E pc \in {"replace", "release", "store", "done"} : call' = [call EXCEPT ![c] = pc]
    BY <1>3 DEF StartWatching, CallAcquire, CallReplace, CallRelease, CallStore
  <2>3. call'[c] # "release" => removed'[c] = None
    BY <1>3 DEF StartWatching, CallAcquire, CallReplace, CallRelease, CallStore, Release
  <2>4. \A a \in Actors \ {c} : removed'[a] = removed[a]
    BY <1>3 DEF StartWatching, CallAcquire, CallReplace, CallRelease, CallStore, Release, TakeOut
  <2> QED
    BY <2>1, <2>2, <2>3, <2>4
<1>4. ASSUME NEW c \in Calls, Watch(c)
      PROVE  OwnInv'
  BY <1>4 DEF Watch, WatchWait, WatchTick, registryVars, callVars, managerVars, routineVars
<1>5. ASSUME NEW a \in Admins, Enable(a) \/ Disable(a) \/ Restart(a) \/ Start(a) \/ Stop(a)
      PROVE  OwnInv'
  <2>1. UNCHANGED <<call, chan, target>>
    BY <1>5 DEF Enable, Disable, Restart, Start, StartEnable, StartMake, Stop, StopBegin, StopClose,
       StopVisit, StopRelease, StopEnd, callVars, managerVars, routineVars
  <2>2. \A b \in Actors \ {a} : removed'[b] = removed[b]
    BY <1>5 DEF Enable, Disable, Restart, Start, StartEnable, StartMake, Stop, StopBegin, StopClose,
       StopVisit, StopRelease, StopEnd, registryVars, Release, TakeOut
  <2>3. \A r \in Routines : routine'[r] = routine[r] \/ routine'[r] = "range"
    BY <1>5 DEF Enable, Disable, Restart, Start, StartEnable, StartMake, Stop, StopBegin, StopClose,
       StopVisit, StopRelease, StopEnd, managerVars, routineVars
  <2> QED
    BY <2>1, <2>2, <2>3
<1>6. ASSUME NEW r \in Routines, cleanupRoutine(r)
      PROVE  OwnInv'
  <2>1. UNCHANGED <<call, chan>>
    BY <1>6 DEF cleanupRoutine, CleanStop, CleanTick, CleanVisit, CleanDelete, CleanRelease,
       CleanSelect, callVars
  <2>2. \A b \in Actors \ {r} : removed'[b] = removed[b]
    BY <1>6 DEF cleanupRoutine, CleanStop, CleanTick, CleanVisit, CleanDelete, CleanRelease,
       CleanSelect, registryVars, Release, TakeOut
  <2>3. \A q \in Routines \ {r} : routine'[q] = routine[q] /\ target'[q] = target[q]
    BY <1>6 DEF cleanupRoutine, CleanStop, CleanTick, CleanVisit, CleanDelete, CleanRelease,
       CleanSelect, managerVars, routineVars
  <2>4. /\ routine'[r] # "range" => removed'[r] = None
        /\ routine'[r] = "delete" => target'[r] \in Chans
    BY <1>6 DEF cleanupRoutine, CleanStop, CleanTick, CleanVisit, CleanDelete, CleanRelease,
       CleanSelect, registryVars, managerVars, routineVars, Release
  <2> QED
    BY <2>1, <2>2, <2>3, <2>4
<1>7. CASE UNCHANGED vars
  BY <1>7 DEF vars, registryVars, callVars, managerVars, routineVars
<1> QED
  BY <1>1, <1>2, <1>3, <1>4, <1>5, <1>6, <1>7 DEF Next

-----------------------------------------------------------------------------
(* The five ways to touch the registry or the semaphore *)

\* Nothing that holds a slot changes.
QuietStep ==
  /\ UNCHANGED registryVars
  /\ \A c \in Calls : /\ (c \in Starting)' <=> c \in Starting
                      /\ call[c] = "done" => (call'[c] = "done" /\ chan'[c] = chan[c])

\* Call c acquires a slot.
AcquireStep(c) ==
  /\ UNCHANGED <<registry, removed, lost, chan>> /\ sem' = sem + 1
  /\ call[c] = "acquire" /\ call' = [call EXCEPT ![c] = "replace"]

\* Actor a, which owes no release, takes out the watcher of channel ch.
TakeStep(a, ch) ==
  /\ TakeOut(a, ch) /\ UNCHANGED <<sem, lost, chan>> /\ removed[a] = None
  /\ \A c \in Calls : /\ (c \in Starting)' <=> c \in Starting
                      /\ call[c] = "done" => call'[c] = "done"

\* Actor a gives a slot back.
ReleaseStep(a) ==
  /\ Release(a) /\ UNCHANGED <<registry, lost, chan>>
  /\ \A c \in Calls : /\ (c \in Starting)' <=> c \in Starting
                      /\ call[c] = "done" => call'[c] = "done"

LEMMA StepKinds ==
  ASSUME TypeOK, OwnInv, [Next]_vars
  PROVE  \/ QuietStep
         \/ \E c \in Calls : AcquireStep(c) \/ CallStore(c)
         \/ \E a \in Actors : ReleaseStep(a) \/ \E ch \in Chans : TakeStep(a, ch)
<1> USE DEF TypeOK, CallTypes, registryVars, callVars
<1> DEFINE Kinds == \/ QuietStep
                    \/ \E c \in Calls : AcquireStep(c) \/ CallStore(c)
                    \/ \E a \in Actors : ReleaseStep(a) \/ \E ch \in Chans : TakeStep(a, ch)
<1>0. ASSUME UNCHANGED <<call, chan>>
      PROVE  Starting' = Starting
  BY <1>0 DEF Starting
<1>1. ASSUME UNCHANGED <<call, chan>>, UNCHANGED registryVars
      PROVE  QuietStep
  BY <1>1, <1>0 DEF QuietStep
<1>2. ASSUME NEW c \in Calls, NEW ch \in Chans, CallCheck(c, ch)
      PROVE  QuietStep
  BY <1>2 DEF CallCheck, QuietStep, Starting
<1>3. ASSUME NEW c \in Calls, CallAcquire(c)
      PROVE  Kinds
  BY <1>3 DEF CallAcquire, AcquireStep, QuietStep, Starting
<1>4. ASSUME NEW c \in Calls, CallReplace(c)
      PROVE  Kinds
  <2>1. \A d \in Calls : /\ (d \in Starting)' <=> d \in Starting
                         /\ call[d] = "done" => call'[d] = "done"
    BY <1>4 DEF CallReplace, Starting
  <2>2. chan[c] \in Chans /\ removed[c] = None
    BY <1>4 DEF CallReplace, OwnInv
  <2>3. CASE TakeOut(c, chan[c])
    BY <1>4, <2>1, <2>2, <2>3 DEF CallReplace, TakeStep, Actors
  <2>4. CASE UNCHANGED registry
    BY <1>4, <2>1, <2>2, <2>4 DEF CallReplace, TakeOut, QuietStep, RegistryTypes
  <2> QED
    BY <1>4, <2>3, <2>4 DEF CallReplace
<1>5. ASSUME NEW c \in Calls, CallRelease(c)
      PROVE  ReleaseStep(c)
  BY <1>5 DEF CallRelease, ReleaseStep, Starting
<1>6. ASSUME NEW a \in Actors, Release(a), UNCHANGED <<registry, lost, call, chan>>
      PROVE  ReleaseStep(a)
  BY <1>6, <1>0 DEF ReleaseStep
<1>7. ASSUME NEW a \in Admins, NEW ch \in Chans, StopVisit(a, ch)
      PROVE  Kinds
  <2>1. CASE TakeOut(a, ch)
    BY <1>7, <1>0, <2>1 DEF StopVisit, TakeStep, Actors
  <2>2. CASE UNCHANGED <<registry, removed>>
    BY <1>7, <1>1, <2>2 DEF StopVisit
  <2> QED
    BY <1>7, <2>1, <2>2 DEF StopVisit
<1>8. ASSUME NEW r \in Routines, CleanDelete(r)
      PROVE  Kinds
  <2>1. target[r] \in Chans /\ removed[r] = None
    BY <1>8 DEF CleanDelete, OwnInv
  <2>2. CASE TakeOut(r, target[r])
    BY <1>8, <1>0, <2>1, <2>2 DEF CleanDelete, TakeStep, Actors
  <2>3. CASE UNCHANGED <<registry, removed>>
    BY <1>8, <1>1, <2>3 DEF CleanDelete
  <2> QED
    BY <1>8, <2>2, <2>3 DEF CleanDelete
<1>9. ASSUME NEW a \in Admins, StopRelease(a)
      PROVE  Kinds
  BY <1>9, <1>6 DEF StopRelease, Actors
<1>10. ASSUME NEW r \in Routines, CleanRelease(r)
       PROVE  Kinds
  BY <1>10, <1>6 DEF CleanRelease, Actors
<1>11. CASE ~RegistryStep /\ ~ \E c \in Calls, ch \in Chans : CallCheck(c, ch)
  <2>1. UNCHANGED <<call, chan>> /\ UNCHANGED registryVars
    BY <1>11 DEF RegistryStep, Next, Toggle, Discard, Watch, WatchWait, WatchTick, Enable, Disable,
       Restart, Start, StartEnable, StartMake, Stop, StopBegin, StopClose, StopEnd, cleanupRoutine,
       CleanStop, CleanTick, CleanVisit, CleanSelect, vars
  <2> QED
    BY <1>1, <2>1
<1> QED
  BY <1>2, <1>3, <1>4, <1>5, <1>7, <1>8, <1>9, <1>10, <1>11 DEF RegistryStep, StartWatching, Actors

-----------------------------------------------------------------------------
(* The four places exclude each other *)

LEMMA PlaceStep ==
  ASSUME TypeOK, OwnInv, PlaceInv, SlotAccounting, [Next]_vars
  PROVE  PlaceInv'
<1> USE ActorAssumption DEF TypeOK, RegistryTypes, CallTypes, PlaceInv
<1>1. CASE QuietStep
  BY <1>1 DEF QuietStep, registryVars
<1>2. ASSUME NEW c \in Calls, AcquireStep(c)
      PROVE  PlaceInv'
  BY <1>2 DEF AcquireStep
<1>3. ASSUME NEW c \in Calls, CallStore(c)
      PROVE  PlaceInv'
  <2>1. chan[c] \in Chans /\ call[c] = "store"
    BY <1>3 DEF CallStore, OwnInv
  <2>2. \A d \in Calls : (call[d] = "done" => call'[d] = "done") /\ chan'[d] = chan[d]
    BY <1>3 DEF CallStore
  <2>3. /\ \A ch \in Chans \ {chan[c]} : registry'[ch] = registry[ch]
        /\ registry'[chan[c]] = c /\ call'[c] = "done" /\ removed' = removed
    BY <1>3, <2>1 DEF CallStore
  <2>4. lost' = lost \cup ({registry[chan[c]]} \ {None})
    BY <1>3, <2>1 DEF CallStore, IsWatching
  <2>5. registry[chan[c]] # c /\ c \notin lost /\ \A a \in Actors : removed[a] # c
    BY <2>1
  <2>6. \A d \in lost' : call'[d] = "done"
    BY <2>1, <2>2, <2>4
  <2>7. \A d \in Calls, ch \in Chans :
          registry'[ch] = d => (call'[d] = "done" /\ chan'[d] = ch /\ d \notin lost')
    BY <2>1, <2>2, <2>3, <2>4, <2>5
  <2>8. \A d \in Calls, a \in Actors :
          removed'[a] = d => (call'[d] = "done" /\ d \notin lost' /\ \A ch \in Chans : registry'[ch] # d)
    BY <2>1, <2>2, <2>3, <2>4, <2>5
  <2> QED
    BY <2>6, <2>7, <2>8
<1>4. ASSUME NEW a \in Actors, ReleaseStep(a)
      PROVE  PlaceInv'
  BY <1>4 DEF ReleaseStep, Release
<1>5. ASSUME NEW a \in Actors, NEW ch \in Chans, TakeStep(a, ch)
      PROVE  PlaceInv'
  BY <1>5 DEF TakeStep, TakeOut
<1> QED
  BY <1>1, <1>2, <1>3, <1>4, <1>5, StepKinds

-----------------------------------------------------------------------------
(* Slots *)

LEMMA HoldingFinite ==
  ASSUME TypeOK
  PROVE  IsFiniteSet(Holding)
<1>1. Holding \subseteq Calls
  BY DEF Holding, Starting, Registered, Owed, TypeOK, RegistryTypes
<1> QED
  BY <1>1, FS_Subset, ActorAssumption

LEMMA SlotStep ==
  ASSUME TypeOK, TypeOK', OwnInv, PlaceInv, SlotAccounting, [Next]_vars
  PROVE  SlotAccounting'
<1> USE ActorAssumption DEF TypeOK, RegistryTypes, CallTypes
<1> DEFINE Unique == \A a, b \in Actors : (removed[a] # None /\ removed[a] = removed[b]) => a = b
<1>a. /\ Holding \subseteq Calls /\ Holding' \subseteq Calls
      /\ \A w \in Calls : w \in Holding <=>
           (w \in Starting \/ w \in lost \/ (\E ch \in Chans : registry[ch] = w)
            \/ (\E a \in Actors : removed[a] = w))
      /\ \A w \in Calls : w \in Holding' <=>
           (w \in Starting' \/ w \in lost' \/ (\E ch \in Chans : registry'[ch] = w)
            \/ (\E a \in Actors : removed'[a] = w))
  BY DEF Holding, Starting, Registered, Owed
<1>b. sem = Cardinality(Holding) /\ Unique /\ IsFiniteSet(Holding)
  BY HoldingFinite DEF SlotAccounting
<1>1. CASE QuietStep
  <2>1. Holding' = Holding
    BY <1>1, <1>a DEF QuietStep, registryVars
  <2> QED
    BY <1>1, <1>b, <2>1 DEF SlotAccounting, QuietStep, registryVars
<1>2. ASSUME NEW c \in Calls, AcquireStep(c)
      PROVE  SlotAccounting'
  <2>1. c \notin Holding
    BY <1>2, <1>a DEF AcquireStep, PlaceInv, Starting
  <2>2. Starting' = Starting \cup {c}
    BY <1>2 DEF AcquireStep, Starting
  <2>3. Holding' = Holding \cup {c}
    BY <1>2, <1>a, <2>2 DEF AcquireStep
  <2>4. Cardinality(Holding') = Cardinality(Holding) + 1
    BY <1>b, <2>1, <2>3, FS_AddElement
  <2> QED
    BY <1>2, <1>b, <2>4 DEF AcquireStep, SlotAccounting
<1>3. ASSUME NEW c \in Calls, CallStore(c)
      PROVE  SlotAccounting'
  <2>1. chan[c] \in Chans /\ call[c] = "store" /\ UNCHANGED <<sem, removed>>
    BY <1>3 DEF CallStore, OwnInv
  <2>2. Starting' = Starting \ {c} /\ c \in Starting
    BY <1>3 DEF CallStore, Starting
  <2>3. lost' = lost \cup ({registry[chan[c]]} \ {None})
    BY <1>3, <2>1 DEF CallStore, IsWatching
  <2>4. /\ registry'[chan[c]] = c
        /\ \A ch \in Chans \ {chan[c]} : registry'[ch] = registry[ch]
    BY <1>3, <2>1 DEF CallStore
  <2>5. Holding' = Holding
    BY SMTT(40), <1>a, <2>1, <2>2, <2>3, <2>4
  <2> QED
    BY <1>b, <2>1, <2>5 DEF SlotAccounting
<1>4. ASSUME NEW a \in Actors, ReleaseStep(a)
      PROVE  SlotAccounting'
  <2> DEFINE w == removed[a]
  <2>1. w \in Calls /\ removed'[a] = None /\ \A b \in Actors \ {a} : removed'[b] = removed[b]
    BY <1>4 DEF ReleaseStep, Release
  <2>2. w \notin Starting /\ w \notin lost /\ \A ch \in Chans : registry[ch] # w
    BY <2>1 DEF PlaceInv, Starting
  <2>3. \A b \in Actors \ {a} : removed[b] # w
    BY <1>b, <2>1
  <2>4. Starting' = Starting /\ UNCHANGED <<registry, lost>>
    BY <1>4 DEF ReleaseStep, Starting
  <2>5. Holding' = Holding \ {w} /\ w \in Holding
    BY <1>a, <2>1, <2>2, <2>3, <2>4
  <2>6. Cardinality(Holding') = Cardinality(Holding) - 1
    <3> HIDE DEF w
    <3> QED
      BY <1>b, <2>5, FS_RemoveElement
  <2>7. Unique'
    BY <1>b, <2>1
  <2>8. sem' = sem - 1
    BY <1>4 DEF ReleaseStep, Release
  <2> QED
    BY <1>b, <2>6, <2>7, <2>8 DEF SlotAccounting
<1>5. ASSUME NEW a \in Actors, NEW ch \in Chans, TakeStep(a, ch)
      PROVE  SlotAccounting'
  <2> DEFINE w == registry[ch]
  <2>1. /\ w \in Calls /\ removed[a] = None /\ removed'[a] = w
        /\ \A b \in Actors \ {a} : removed'[b] = removed[b]
    BY <1>5 DEF TakeStep, TakeOut
  <2>2. registry'[ch] = None /\ \A k \in Chans \ {ch} : registry'[k] = registry[k]
    BY <1>5 DEF TakeStep, TakeOut
  <2>3. Starting' = Starting /\ UNCHANGED <<sem, lost>>
    BY <1>5 DEF TakeStep, Starting
  <2>4. Holding' = Holding
    <3>1. ASSUME NEW v \in Calls
          PROVE  v \in Holding' <=> v \in Holding
      <4>1. CASE v = w
        <5>1. (\E k \in Chans : registry[k] = v) /\ (\E b \in Actors : removed'[b] = v)
          BY <2>1, <4>1
        <5> QED
          BY <1>a, <5>1
      <4>2. CASE v # w
        <5>1. (\E k \in Chans : registry'[k] = v) <=> (\E k \in Chans : registry[k] = v)
          BY <2>2, <4>2
        <5>2. (\E b \in Actors : removed'[b] = v) <=> (\E b \in Actors : removed[b] = v)
          BY <2>1, <4>2
        <5> QED
          BY <1>a, <2>3, <5>1, <5>2
      <4> QED
        BY <4>1, <4>2
    <3> QED
      BY <1>a, <3>1
  <2>5. \A b \in Actors : removed[b] # w
    BY <2>1 DEF PlaceInv
  <2>6. Unique'
    BY <1>b, <2>1, <2>5
  <2> QED
    BY <1>b, <2>3, <2>4, <2>6 DEF SlotAccounting
<1> QED
  BY <1>1, <1>2, <1>3, <1>4, <1>5, StepKinds

-----------------------------------------------------------------------------
LEMMA InitIInv == Init => IInv
<1> SUFFICES ASSUME Init PROVE IInv
  OBVIOUS
<1> USE ActorAssumption, BoundAssumption DEF Init
<1>1. TypeOK
  <2>1. RegistryTypes
    BY DEF RegistryTypes
  <2>2. CallTypes
    BY DEF CallTypes
  <2>3. WatchTypes
    BY DEF WatchTypes
  <2>4. ManagerTypes
    BY DEF ManagerTypes
  <2> QED
    BY <2>1, <2>2, <2>3, <2>4 DEF TypeOK
<1>2. OwnInv /\ PlaceInv
  BY DEF OwnInv, PlaceInv, Actors
<1>3. Holding = {}
  BY DEF Holding, Starting, Registered, Owed
<1>4. SlotAccounting
  BY <1>3, FS_EmptySet DEF SlotAccounting
<1> QED
  BY <1>1, <1>2, <1>4 DEF IInv

LEMMA NextIInv == IInv /\ [Next]_vars => IInv'
BY TypeStep, OwnStep, PlaceStep, SlotStep DEF IInv

\* Every taken slot of watcherSemaphore belongs to exactly one watcher, however
\* StartWatching, Stop and cleanupRoutine interleave.
THEOREM SlotsAccounted == Spec => []SlotAccounting
<1>1. IInv => SlotAccounting
  BY DEF IInv
<1> QED
  BY InitIInv, NextIInv, <1>1, PTL DEF Spec

\* Whoever took a watcher out finds a slot to receive from watcherSemaphore.
THEOREM ReleasesFind == Spec => []ReleaseNeverBlocks
<1>1. ASSUME IInv PROVE ReleaseNeverBlocks
  <2>1. ASSUME NEW a \in Actors, removed[a] # None
        PROVE  sem > 0
    <3>1. removed[a] \in Holding /\ IsFiniteSet(Holding)
      BY <1>1, <2>1, HoldingFinite DEF IInv, TypeOK, RegistryTypes, Holding, Owed
    <3>2. Cardinality(Holding) # 0
      BY <3>1, FS_EmptySet
    <3>3. sem = Cardinality(Holding) /\ sem \in Nat
      BY <1>1, BoundAssumption DEF IInv, SlotAccounting, TypeOK, RegistryTypes
    <3> QED
      BY <3>2, <3>3
  <2> QED
    BY <2>1 DEF ReleaseNeverBlocks
<1> QED
  BY InitIInv, NextIInv, <1>1, PTL DEF Spec

\* Every variable keeps its type, and the semaphore its capacity.
THEOREM TypeCorrect == Spec => []TypeOK
<1>1. IInv => TypeOK
  BY DEF IInv
<1> QED
  BY InitIInv, NextIInv, <1>1, PTL DEF Spec
=============================================================================
