-------------------------- MODULE StreamLoopProofs --------------------------
(***************************************************************************)
(* What Restream.Stream owes the channel, for any number of streams, any   *)
(* thresholds and any number of interventions: the offline clip comes last *)
(* and nobody is charged for a switch.                                     *)
(***************************************************************************)
EXTENDS StreamLoop, FiniteSetTheorems, TLAPS

-----------------------------------------------------------------------------
(* Types                                                                   *)

ListTypes == order \in Orders /\ pref \in Indexes /\ cur \in Indexes /\ idx \in Indexes /\ target \in Indexes
FlagTypes == /\ manual \in BOOLEAN /\ switching \in BOOLEAN /\ client \in BOOLEAN /\ done \in BOOLEAN
             /\ cut \in BOOLEAN /\ wasManual \in BOOLEAN /\ locked \in BOOLEAN /\ moved \in BOOLEAN /\ sorted \in BOOLEAN
PlaceTypes ==
  /\ pc \in {"idle", "top", "enter", "connect", "playing", "ended", "judged", "succeeded",
             "failed", "charge", "rotate", "retry", "exhausted", "fallback"}
  /\ taken \in Hashes \cup {NoHash} /\ result \in {"fail", "brief", "good"}
  /\ op \in {"idle", "flag", "index", "context"}
  /\ watch \in {"idle", "flag", "cancel", "streaming"} /\ stop \in {"idle", "cancel", "renew"}
CountTypes ==
  /\ attempts \in 0 .. Count * Multiplier
  /\ consec \in [Indexes -> 0 .. Threshold]
  /\ failures \in [Hashes -> 0 .. MaxFailures] /\ faults \in [Hashes -> 0 .. MaxFailures]
SetTypes ==
  /\ blocked \subseteq Hashes /\ dead \subseteq Hashes /\ up \subseteq Hashes
  /\ tried \subseteq Indexes /\ chosen \in Indexes \cup {-1}

Types == ListTypes /\ FlagTypes /\ PlaceTypes /\ CountTypes /\ SetTypes

LEMMA Size ==
  /\ Cardinality(Hashes) \in Nat \ {0} /\ Indexes = 0 .. Cardinality(Hashes) - 1
  /\ Multiplier \in Nat \ {0} /\ Threshold \in Nat \ {0} /\ MaxFailures \in Nat \ {0}
<1>1. Cardinality(Hashes) \in Nat /\ Cardinality(Hashes) # 0
  BY HashAssumption, FS_CardinalityType, FS_EmptySet
<1> QED
  BY <1>1, LimitAssumption DEF Indexes

LEMMA OrderIs ==
  ASSUME NEW s \in Orders
  PROVE  Len(s) = Cardinality(Hashes) /\ \A i \in Indexes : s[i + 1] \in Hashes
<1>1. s \in [1 .. Cardinality(Hashes) -> Hashes] /\ Cardinality(Hashes) \in Nat
  BY Size DEF Orders
<1>2. s \in Seq(Hashes) /\ DOMAIN s = 1 .. Cardinality(Hashes)
  BY <1>1
<1>3. Len(s) = Cardinality(Hashes)
  BY <1>1, <1>2
<1>4. \A i \in Indexes : i + 1 \in 1 .. Cardinality(Hashes)
  BY <1>1 DEF Indexes
<1> QED
  BY <1>1, <1>3, <1>4

LEMMA CountIs == order \in Orders => Count = Cardinality(Hashes) /\ Indexes = 0 .. Count - 1 /\ \A i \in Indexes : At(i) \in Hashes
BY OrderIs, Size DEF Count, At

LEMMA TypesAre == LoopTypeOK <=> Types
<1>1. order \in Orders => Count = Cardinality(Hashes)
  BY CountIs
<1>2. {manual, switching, client, done, cut, wasManual, locked, moved, sorted} \subseteq BOOLEAN <=> FlagTypes
  BY Zenon DEF FlagTypes
<1> QED
  BY <1>1, <1>2 DEF LoopTypeOK, Types, ListTypes, PlaceTypes, CountTypes, SetTypes

\* Indexes that the code computes.
LEMMA Around ==
  ASSUME order \in Orders, NEW i \in Nat
  PROVE  i % Count \in Indexes
<1>1. Count \in Nat \ {0} /\ Indexes = 0 .. Count - 1
  BY CountIs, Size
<1> QED
  BY <1>1

LEMMA Starting ==
  ASSUME order \in Orders
  PROVE  StartIndex \in Indexes
BY CountIs, Size DEF StartIndex

\* How each variable may change.
LEMMA StreamChanges ==
  ASSUME PlaceTypes, Stream
  PROVE  /\ UNCHANGED <<order, pref, target, client, done, locked, sorted, op, stop, up>>
         /\ cur' \in {cur, StartIndex, (idx + 1) % Count} /\ idx' \in {idx, cur}
         /\ taken' \in {taken, At(idx)}
         /\ \/ attempts' \in {attempts, 0}
            \/ attempts' = attempts + 1 /\ attempts < Count * Multiplier
         /\ \/ consec' \in {consec, NoneFailed, [consec EXCEPT ![idx] = 0]}
            \/ consec' = [consec EXCEPT ![idx] = Capped(@ + 1, Threshold)]
         /\ \/ failures' = failures
            \/ failures' = [failures EXCEPT ![At(idx)] = Capped(@ + 1, MaxFailures)]
         /\ \/ faults' = faults
            \/ \E h : faults' = [faults EXCEPT ![h] = Capped(@ + 1, MaxFailures)]
         /\ blocked' \in {blocked, blocked \cup {At(idx)}} /\ dead' \in {dead, dead \cup {At(idx)}}
         /\ tried' \in {tried, {}, tried \cup {cur}} /\ chosen' \in {chosen, -1}
         /\ pc' \in {"idle", "top", "enter", "connect", "playing", "ended", "judged", "succeeded",
                     "failed", "charge", "rotate", "retry", "exhausted", "fallback"}
         /\ result' \in {result, "fail", "brief", "good"} /\ watch' \in {watch, "idle"}
<1> USE DEF listVars, flagVars, localVars, deadVars, actorVars, histVars
<1> USE DEF Goto, Leave, Forget
<1>1. CASE Top
  BY <1>1 DEF Top
<1>2. CASE Enter
  BY <1>2 DEF Enter
<1>3. CASE Connect
  BY <1>3 DEF Connect
<1>4. CASE PlayEnds
  BY <1>4 DEF PlayEnds, Ended
<1>5. CASE PlayCut
  BY <1>5 DEF PlayCut, Ended
<1>6. CASE PlaySurvives
  BY <1>6 DEF PlaySurvives
<1>7. CASE PlayAlone
  BY <1>7 DEF PlayAlone, Ended
<1>8. CASE PlayDead
  BY <1>8 DEF PlayDead, Ended
<1>9. CASE Judge
  BY <1>9 DEF Judge
<1>10. CASE Clear
  BY <1>10 DEF Clear, PlaceTypes
<1>11. CASE Succeeded
  BY <1>11 DEF Succeeded
<1>12. CASE Failed
  BY <1>12 DEF Failed
<1>13. CASE Charge
  BY <1>13 DEF Charge, HandleStreamFailure
<1>14. CASE Rotate
  BY <1>14 DEF Rotate
<1>15. CASE Retry
  BY <1>15 DEF Retry
<1>16. CASE Exhausted
  BY <1>16 DEF Exhausted
<1>17. CASE Fallback
  BY <1>17 DEF Fallback, Begin
<1> QED
  BY <1>1, <1>2, <1>3, <1>4, <1>5, <1>6, <1>7, <1>8, <1>9, <1>10, <1>11, <1>12, <1>13, <1>14, <1>15, <1>16, <1>17 DEF Stream, Proceed

LEMMA ActorChanges ==
  ASSUME Actors
  PROVE  /\ UNCHANGED <<idx, taken, result, wasManual, failures, blocked>>
         /\ order' = order \/ order' \in Orders
         /\ \/ pref' \in {pref, target, 0} \/ pref' \in 0 .. Count - 1
            \/ \E i \in 0 .. Count - 1 : pref' = (pref + i) % Count
            \/ \E i \in 1 .. Count - 1 : pref' = (cur + i) % Count
         /\ cur' \in {cur, target, pref', StartIndex, 0} \/ cur' \in 0 .. Count - 1
         /\ target' \in {target, 0} \/ target' \in 0 .. Count - 1 \/ \E i \in 1 .. Count - 1 : target' = (cur + i) % Count
         /\ attempts' \in {attempts, 0} /\ consec' \in {consec, NoneFailed}
         /\ \/ faults' = faults
            \/ faults' = [faults EXCEPT ![taken] = Capped(@ + 1, MaxFailures)]
         /\ tried' \in {tried, {}} /\ chosen' \in {chosen, -1, target}
         /\ dead' = dead \/ \E h \in Hashes : dead' \in {dead \cup {h}, dead \ {h}}
         /\ up' = up \/ \E h \in Hashes : up' \in {up \cup {h}, up \ {h}}
         /\ pc' \in {pc, "top"} /\ op' \in {op, "idle", "flag", "index", "context"}
         /\ watch' \in {watch, "flag", "cancel", "streaming"} /\ stop' \in {stop, "idle", "cancel", "renew"}
<1> USE DEF listVars, flagVars, localVars, deadVars, actorVars, histVars
<1> USE DEF Goto, Forget
<1>1. CASE Join
  BY <1>1 DEF Join
<1>2. CASE JoinOnDead
  BY <1>2 DEF JoinOnDead
<1>3. CASE ClientLeaves
  BY <1>3 DEF ClientLeaves
<1>4. CASE StopCancel
  BY <1>4 DEF StopCancel
<1>5. CASE StopRenew
  BY <1>5 DEF StopRenew
<1>6. CASE ForceFlag
  BY <1>6 DEF ForceFlag
<1>7. CASE ForceIndex
  BY <1>7 DEF ForceIndex
<1>8. CASE ForceContext
  BY <1>8 DEF ForceContext
<1>9. CASE WatchSwitch
  BY <1>9 DEF WatchSwitch
<1>10. CASE WatchFlag
  BY <1>10 DEF WatchFlag
<1>11. CASE WatchCancel
  BY <1>11 DEF WatchCancel
<1>12. CASE WatchRestart
  BY <1>12 DEF WatchRestart, Begin
<1> QED
  BY <1>1, <1>2, <1>3, <1>4, <1>5, <1>6, <1>7, <1>8, <1>9, <1>10, <1>11, <1>12 DEF Actors, SetChannelStream, Reorder, KillStream, ReviveStream, Outage, Recovery

LEMMA OneMore ==
  ASSUME NEW S, NEW top \in Nat, NEW f \in [S -> 0 .. top], NEW h
  PROVE  [f EXCEPT ![h] = Capped(@ + 1, top)] \in [S -> 0 .. top]
<1>1. ASSUME NEW x \in S
      PROVE  f[x] \in 0 .. top /\ Capped(f[x] + 1, top) \in 0 .. top
  BY DEF Capped
<1> HIDE DEF Capped
<1> QED
  BY <1>1

LEMMA TypesStep ==
  ASSUME Types, [Next]_vars
  PROVE  ListTypes' /\ PlaceTypes' /\ CountTypes' /\ SetTypes'
<1>0. /\ ListTypes /\ PlaceTypes /\ CountTypes /\ SetTypes
      /\ Count = Cardinality(Hashes) /\ Indexes = 0 .. Count - 1 /\ Count \in Nat \ {0} /\ StartIndex \in Indexes
      /\ Multiplier \in Nat \ {0} /\ Threshold \in Nat \ {0} /\ MaxFailures \in Nat \ {0}
      /\ \A i \in Indexes : At(i) \in Hashes
  BY Size, CountIs, Starting DEF Types, ListTypes
<1>a. PICK top \in Nat : top = Count * Multiplier
  <2> HIDE DEF Count
  <2> QED
    BY <1>0
<1>b. order' \in Orders => Count' = Count
  <2>1. (order \in Orders => Count = Cardinality(Hashes) /\ Indexes = 0 .. Count - 1 /\ \A i \in Indexes : At(i) \in Hashes)'
    BY CountIs, PTL
  <2> QED
    BY <1>0, <2>1
<1>c. attempts \in 0 .. top
  BY <1>0, <1>a DEF CountTypes
<1>d. ASSUME order' \in Orders, attempts' \in 0 .. top,
             consec' \in [Indexes -> 0 .. Threshold], failures' \in [Hashes -> 0 .. MaxFailures], faults' \in [Hashes -> 0 .. MaxFailures]
      PROVE  CountTypes'
  BY <1>a, <1>b, <1>d DEF CountTypes
<1>1. CASE Stream
  <2>1. ListTypes'
    <3>1. (idx + 1) % Count \in Indexes
      <4>1. PICK j \in Nat : j = idx + 1
        BY <1>0 DEF ListTypes
      <4> HIDE DEF Count
      <4> QED
        BY <1>0, <4>1, Around DEF ListTypes
    <3> QED
      BY <1>0, <1>1, <3>1, StreamChanges DEF ListTypes
  <2>2. PlaceTypes'
    BY <1>0, <1>1, StreamChanges DEF PlaceTypes, ListTypes
  <2>3. SetTypes'
    BY <1>0, <1>1, StreamChanges DEF SetTypes, ListTypes
  <2>4. CountTypes'
    <3>1. attempts' \in 0 .. top
      BY <1>0, <1>1, <1>a, <1>c, StreamChanges
    <3>2. consec' \in [Indexes -> 0 .. Threshold]
      <4>1. consec \in [Indexes -> 0 .. Threshold] /\ NoneFailed \in [Indexes -> 0 .. Threshold]
        BY <1>0 DEF CountTypes, NoneFailed
      <4>a. 0 \in 0 .. Threshold
        BY <1>0
      <4>2. [consec EXCEPT ![idx] = 0] \in [Indexes -> 0 .. Threshold]
        BY <4>1, <4>a
      <4>3. [consec EXCEPT ![idx] = Capped(@ + 1, Threshold)] \in [Indexes -> 0 .. Threshold]
        BY <1>0, <4>1, OneMore
      <4> QED
        BY <1>0, <1>1, <4>1, <4>2, <4>3, StreamChanges
    <3>3. failures' \in [Hashes -> 0 .. MaxFailures]
      <4>1. failures \in [Hashes -> 0 .. MaxFailures]
            /\ [failures EXCEPT ![At(idx)] = Capped(@ + 1, MaxFailures)] \in [Hashes -> 0 .. MaxFailures]
        BY <1>0, OneMore DEF CountTypes
      <4> QED
        BY <1>0, <1>1, <4>1, StreamChanges
    <3>4. faults' \in [Hashes -> 0 .. MaxFailures]
      <4>1. faults \in [Hashes -> 0 .. MaxFailures]
            /\ \A h : [faults EXCEPT ![h] = Capped(@ + 1, MaxFailures)] \in [Hashes -> 0 .. MaxFailures]
        BY <1>0, OneMore DEF CountTypes
      <4>2. faults' = faults \/ \E h : faults' = [faults EXCEPT ![h] = Capped(@ + 1, MaxFailures)]
        BY <1>0, <1>1, StreamChanges
      <4> QED
        BY <4>1, <4>2
    <3> QED
      BY <1>d, <2>1, <3>1, <3>2, <3>3, <3>4 DEF ListTypes
  <2> QED
    BY <2>1, <2>2, <2>3, <2>4
<1>2. CASE Actors
  <2>1. ListTypes'
    <3>1. \A i \in 0 .. Count - 1 : (pref + i) % Count \in Indexes /\ (cur + i) % Count \in Indexes
      <4> SUFFICES ASSUME NEW i \in 0 .. Count - 1
                   PROVE  (pref + i) % Count \in Indexes /\ (cur + i) % Count \in Indexes
        OBVIOUS
      <4>1. PICK j \in Nat, k \in Nat : j = pref + i /\ k = cur + i
        BY <1>0 DEF ListTypes
      <4> HIDE DEF Count
      <4> QED
        BY <1>0, <4>1, Around DEF ListTypes
    <3>2. \A i \in 1 .. Count - 1 : i \in 0 .. Count - 1
      BY <1>0
    <3>3. pref' \in Indexes /\ target' \in Indexes
      <4>1. 0 \in Indexes /\ pref \in Indexes /\ target \in Indexes
        BY <1>0 DEF ListTypes
      <4>2. \/ target' \in {target, 0} \/ target' \in Indexes \/ \E i \in 1 .. Count - 1 : target' = (cur + i) % Count
        BY <1>0, <1>2, ActorChanges
      <4>3. \/ pref' \in {pref, target, 0} \/ pref' \in Indexes
            \/ \E i \in 0 .. Count - 1 : pref' = (pref + i) % Count
            \/ \E i \in 1 .. Count - 1 : pref' = (cur + i) % Count
        BY <1>0, <1>2, ActorChanges
      <4> HIDE DEF Count
      <4> QED
        BY <3>1, <3>2, <4>1, <4>2, <4>3
    <3> QED
      BY <1>0, <1>2, <3>3, ActorChanges DEF ListTypes
  <2>2. PlaceTypes'
    BY SMTT(40), <1>0, <1>2, ActorChanges DEF PlaceTypes, ListTypes
  <2>3. SetTypes'
    BY <1>0, <1>2, ActorChanges DEF SetTypes, ListTypes
  <2>4. CountTypes'
    <3>1. attempts' \in 0 .. top
      BY <1>0, <1>2, <1>a, <1>c, ActorChanges
    <3>2. consec' \in [Indexes -> 0 .. Threshold]
      BY SMTT(40), <1>0, <1>2, ActorChanges DEF CountTypes, NoneFailed
    <3>3. failures' \in [Hashes -> 0 .. MaxFailures] /\ faults' \in [Hashes -> 0 .. MaxFailures]
      <4>1. \A h : [faults EXCEPT ![h] = Capped(@ + 1, MaxFailures)] \in [Hashes -> 0 .. MaxFailures]
        BY <1>0, OneMore DEF CountTypes
      <4>2. failures' = failures /\ (faults' = faults \/ faults' = [faults EXCEPT ![taken] = Capped(@ + 1, MaxFailures)])
        BY <1>2, ActorChanges
      <4>3. failures \in [Hashes -> 0 .. MaxFailures] /\ faults \in [Hashes -> 0 .. MaxFailures]
        BY <1>0 DEF CountTypes
      <4>4. failures' \in [Hashes -> 0 .. MaxFailures]
        BY <4>2, <4>3
      <4>5. faults' \in [Hashes -> 0 .. MaxFailures]
        <5>1. CASE faults' = faults
          BY <4>3, <5>1
        <5>2. CASE faults' = [faults EXCEPT ![taken] = Capped(@ + 1, MaxFailures)]
          BY <4>1, <5>2, Zenon
        <5> QED
          BY <4>2, <5>1, <5>2
      <4> QED
        BY <4>4, <4>5
    <3> QED
      BY <1>d, <2>1, <3>1, <3>2, <3>3 DEF ListTypes
  <2> QED
    BY <2>1, <2>2, <2>3, <2>4
<1>3. CASE UNCHANGED vars
  <2>1. UNCHANGED <<order, pref, cur, idx, target, pc, taken, result, op, watch, stop, attempts, consec, failures, faults,
                    blocked, dead, up, tried, chosen>>
    BY <1>3 DEF vars, listVars, flagVars, localVars, deadVars, actorVars, histVars
  <2>2. ListTypes' /\ PlaceTypes' /\ SetTypes'
    BY <1>0, <2>1 DEF ListTypes, PlaceTypes, SetTypes
  <2>3. CountTypes'
    BY <1>0, <1>c, <1>d, <2>1 DEF ListTypes, CountTypes
  <2> QED
    BY <2>2, <2>3
<1> QED
  BY <1>1, <1>2, <1>3 DEF Next

LEMMA FlagsStep ==
  ASSUME Types, [Next]_vars
  PROVE  FlagTypes'
<1>0. FlagTypes
  BY DEF Types
<1>1. CASE Stream
  <2>1. /\ UNCHANGED <<client, done, locked, sorted>>
        /\ manual' = manual \/ manual' = FALSE
        /\ switching' = switching \/ switching' = FALSE
        /\ cut' = cut \/ cut' = FALSE \/ cut' = done
        /\ wasManual' = wasManual \/ wasManual' = manual
        /\ moved' = moved \/ moved' = FALSE
    BY <1>1 DEF Stream, Proceed, Top, Enter, Connect, PlayCut, PlaySurvives, PlayAlone, PlayDead, PlayEnds, Ended, Judge,
       Clear, Succeeded, Failed, Charge, Rotate, Retry, Exhausted, Fallback, Begin, Leave, Forget, flagVars, localVars,
       actorVars, histVars
  <2> QED
    BY <1>0, <2>1, Zenon DEF FlagTypes
<1>2. CASE Actors
  <2>1. /\ wasManual' = wasManual
        /\ manual' = manual \/ manual' = TRUE
        /\ switching' = switching \/ switching' = TRUE
        /\ client' = client \/ client' = TRUE \/ client' = FALSE
        /\ done' = done \/ done' = TRUE \/ done' = FALSE
        /\ cut' = cut \/ cut' = TRUE
        /\ locked' = locked \/ locked' = TRUE \/ locked' = FALSE
        /\ moved' = moved \/ moved' = TRUE \/ moved' = FALSE \/ moved' = (moved \/ Running)
        /\ sorted' = sorted \/ sorted' = TRUE
    BY <1>2 DEF Actors, Join, JoinOnDead, ClientLeaves, StopCancel, StopRenew, SetChannelStream, Reorder, ForceFlag,
       ForceIndex, ForceContext, KillStream, ReviveStream, Outage, Recovery, WatchSwitch, WatchFlag, WatchCancel,
       WatchRestart, Begin, Forget, flagVars, localVars, actorVars, histVars
  <2>2. moved' \in BOOLEAN
    <3>1. moved \in BOOLEAN
      BY <1>0 DEF FlagTypes
    <3>2. (moved \/ Running) \in BOOLEAN
      BY Zenon
    <3> QED
      BY <2>1, <3>1, <3>2, Zenon
  <2>3. wasManual' \in BOOLEAN /\ manual' \in BOOLEAN /\ switching' \in BOOLEAN /\ client' \in BOOLEAN
    BY <1>0, <2>1, Zenon DEF FlagTypes
  <2>4. done' \in BOOLEAN /\ cut' \in BOOLEAN /\ locked' \in BOOLEAN /\ sorted' \in BOOLEAN
    BY <1>0, <2>1, Zenon DEF FlagTypes
  <2> QED
    BY <2>2, <2>3, <2>4, Zenon DEF FlagTypes
<1>3. CASE UNCHANGED vars
  BY <1>0, <1>3, Zenon DEF FlagTypes, vars, listVars, flagVars, localVars, deadVars, actorVars, histVars
<1> QED
  BY <1>1, <1>2, <1>3 DEF Next

LEMMA TypesInit ==
  ASSUME Init
  PROVE  Types
<1> USE DEF Init
<1>1. order \in Orders
  BY DEF Orders
<1>2. Count = Cardinality(Hashes) /\ Indexes = 0 .. Count - 1 /\ Count \in Nat \ {0} /\ Multiplier \in Nat \ {0}
      /\ Threshold \in Nat \ {0} /\ MaxFailures \in Nat \ {0}
  BY <1>1, CountIs, Size
<1>3. ListTypes /\ PlaceTypes /\ SetTypes
  BY <1>1, <1>2 DEF ListTypes, PlaceTypes, SetTypes
<1>4. PICK top \in Nat : top = Count * Multiplier
  <2> HIDE DEF Count
  <2> QED
    BY <1>2
<1>5. attempts = 0 /\ consec = NoneFailed /\ failures = [h \in Hashes |-> 0] /\ faults = [h \in Hashes |-> 0]
  OBVIOUS
<1>6. CountTypes
  <2> HIDE DEF Init, Count
  <2> QED
    BY <1>2, <1>4, <1>5 DEF CountTypes, NoneFailed
<1>7. FlagTypes
  BY Zenon DEF FlagTypes
<1> QED
  BY <1>3, <1>6, <1>7 DEF Types

LEMMA TypesKept ==
  ASSUME Types, [Next]_vars
  PROVE  Types'
BY TypesStep, FlagsStep DEF Types

\* Every variable holds a value of its kind: the indexes are those of the channel's streams,
\* and no count passes its limit (restream.go Stream, stream.go HandleStreamFailure).
THEOREM LoopKeepsTypes == FairSpec => []LoopTypeOK
<1>1. Init => Types
  BY TypesInit
<1>2. Types /\ [Next]_vars => Types'
  BY TypesKept
<1>3. Types => LoopTypeOK
  BY TypesAre
<1> QED
  BY <1>1, <1>2, <1>3, PTL DEF FairSpec, Spec

-----------------------------------------------------------------------------
(* What a stream is charged for                                            *)

LEMMA Numbers ==
  ASSUME Types
  PROVE  /\ \A h \in Hashes : failures[h] \in 0 .. MaxFailures /\ faults[h] \in 0 .. MaxFailures
         /\ MaxFailures \in Nat \ {0} /\ At(idx) \in Hashes /\ order \in Orders
BY Size, CountIs DEF Types, ListTypes, CountTypes

\* An attempt that failed is counted before it is charged ...
LEMMA FaultCounts ==
  ASSUME Types, ChargedForFaults, NEW h \in Hashes, UNCHANGED <<failures, sorted>>,
         faults' = [faults EXCEPT ![h] = Capped(@ + 1, MaxFailures)]
  PROVE  ChargedForFaults' /\ (~sorted' => (failures'[h] < faults'[h] \/ faults'[h] = MaxFailures))
<1>1. faults \in [Hashes -> 0 .. MaxFailures]
  BY DEF Types, CountTypes
<1>2. ASSUME NEW g \in Hashes
      PROVE  faults'[g] = IF g = h THEN Capped(faults[g] + 1, MaxFailures) ELSE faults[g]
  BY <1>1
<1> QED
  BY <1>2, Numbers DEF ChargedForFaults, Capped

\* ... and so the charge leaves nobody in debt.
LEMMA ChargeIsCovered ==
  ASSUME Types, ChargedForFaults, NEW h \in Hashes, UNCHANGED <<faults, sorted>>,
         failures' = [failures EXCEPT ![h] = Capped(@ + 1, MaxFailures)],
         ~sorted => (failures[h] < faults[h] \/ faults[h] = MaxFailures)
  PROVE  ChargedForFaults'
<1>1. failures \in [Hashes -> 0 .. MaxFailures]
  BY DEF Types, CountTypes
<1>2. ASSUME NEW g \in Hashes
      PROVE  failures'[g] = IF g = h THEN Capped(failures[g] + 1, MaxFailures) ELSE failures[g]
  BY <1>1
<1> QED
  BY <1>2, Numbers DEF ChargedForFaults, Capped

\* How an attempt ends while it plays.
LEMMA EndIsCounted ==
  ASSUME Types, CreditInv, pc = "playing", NEW r \in {"good", "brief", "fail"}, Ended(r),
         UNCHANGED <<listVars, flagVars, idx, taken, failures, chosen, sorted>>
  PROVE  CreditInv'
<1> USE DEF Goto, listVars, flagVars
<1>1. taken \in Hashes /\ (~sorted => taken = At(idx)) /\ (chosen # -1 => manual) /\ ChargedForFaults
  BY DEF CreditInv, Attempting
<1>2. pc' = "ended" /\ result' = r /\ At(idx)' = At(idx)
  BY DEF Ended, At
<1>3. CASE r # "good" /\ (chosen = -1 \/ switching)
  <2>1. faults' = [faults EXCEPT ![taken] = Capped(@ + 1, MaxFailures)]
    BY <1>3 DEF Ended
  <2>2. ChargedForFaults' /\ (~sorted' => Counted')
    BY <1>1, <2>1, FaultCounts DEF Counted
  <2> QED
    BY <1>1, <1>2, <2>2 DEF CreditInv
<1>4. CASE ~(r # "good" /\ (chosen = -1 \/ switching))
  <2>1. faults' = faults
    BY <1>4 DEF Ended
  <2>2. ChargedForFaults'
    BY <1>1, <2>1 DEF ChargedForFaults
  <2> QED
    BY <1>1, <1>2, <1>4, <2>2 DEF CreditInv
<1> QED
  BY <1>3, <1>4

LEMMA CreditInit ==
  ASSUME Init
  PROVE  CreditInv
<1>1. \A h \in Hashes : failures[h] <= faults[h]
  BY DEF Init
<1> QED
  BY <1>1 DEF Init, CreditInv, ChargedForFaults, Attempting

\* The goroutine's own steps, up to the end of an attempt ...
LEMMA CreditTaken ==
  ASSUME Types, CreditInv, Top \/ Enter \/ Connect \/ PlaySurvives
  PROVE  CreditInv'
<1> USE DEF listVars, flagVars, localVars, deadVars, actorVars, histVars
<1> USE DEF Goto, Attempting
<1>0. ChargedForFaults
  BY DEF CreditInv
<1>a. faults' = faults /\ failures' = failures /\ sorted' = sorted => ChargedForFaults'
  BY <1>0 DEF ChargedForFaults
<1>1. CASE Top
  <2>1. /\ faults' = faults /\ failures' = failures /\ sorted' = sorted
        /\ pc' \in {"exhausted", "idle", "enter"} /\ (pc' = "enter" => chosen' = -1)
    BY <1>1 DEF Top, Leave
  <2> QED
    BY <1>a, <2>1 DEF CreditInv
<1>2. CASE Enter
  <2>1. /\ UNCHANGED <<failures, sorted, idx, order>> /\ taken' = At(idx) /\ chosen' = -1 /\ At(idx)' = At(idx)
    BY <1>2 DEF Enter, CreditInv, At
  <2>2. taken' \in Hashes
    BY <2>1, Numbers
  <2>3. CASE pc' = "connect" /\ faults' = faults
    BY <1>a, <2>1, <2>2, <2>3 DEF CreditInv
  <2>4. CASE pc' = "ended" /\ result' = "fail" /\ faults' = [faults EXCEPT ![At(idx)] = Capped(@ + 1, MaxFailures)]
    <3>1. ChargedForFaults' /\ (~sorted' => Counted')
      BY <1>0, <2>1, <2>2, <2>4, FaultCounts DEF Counted
    <3> QED
      BY <2>1, <2>2, <2>4, <3>1 DEF CreditInv
  <2> QED
    BY <1>2, <2>3, <2>4 DEF Enter
<1>3. CASE Connect
  <2>1. /\ UNCHANGED <<failures, sorted, idx, order, taken>> /\ chosen' = -1 /\ At(idx)' = At(idx)
        /\ taken \in Hashes /\ (~sorted => taken = At(idx))
    BY <1>3 DEF Connect, CreditInv, At
  <2>3. CASE pc' = "playing" /\ faults' = faults
    BY <1>a, <2>1, <2>3 DEF CreditInv
  <2>4. CASE pc' = "ended" /\ faults' = [faults EXCEPT ![taken] = Capped(@ + 1, MaxFailures)]
    <3>1. ChargedForFaults' /\ (~sorted' => Counted')
      BY <1>0, <2>1, <2>4, FaultCounts DEF Counted
    <3> QED
      BY <2>1, <2>4, <3>1 DEF CreditInv
  <2> QED
    BY <1>3, <2>3, <2>4 DEF Connect
<1>4. CASE PlaySurvives
  <2>1. UNCHANGED <<order, pc, idx, taken, result, wasManual, failures, faults, sorted, chosen, manual, switching>>
    BY <1>4 DEF PlaySurvives
  <2> QED
    BY <1>4, <2>1 DEF CreditInv, ChargedForFaults, Counted, At, PlaySurvives
<1> QED
  BY <1>1, <1>2, <1>3, <1>4

\* ... from there to the charge ...
LEMMA CreditJudged ==
  ASSUME Types, CreditInv, Judge \/ Clear \/ Failed
  PROVE  CreditInv'
<1> USE DEF listVars, flagVars, localVars, deadVars, actorVars, histVars
<1> USE DEF Goto, Attempting
<1>0. UNCHANGED <<order, idx, taken, result, switching, chosen, failures, faults, sorted>>
  BY DEF Judge, Clear, Failed, Forget
<1>a. ChargedForFaults' /\ (Counted' <=> Counted) /\ At(idx)' = At(idx)
  BY <1>0 DEF ChargedForFaults, Counted, At, CreditInv
<1>b. pc \in {"ended", "judged", "failed"} /\ taken \in Hashes /\ (~sorted => taken = At(idx))
  BY DEF Judge, Clear, Failed, CreditInv
<1>1. CASE Judge
  <2>1. pc = "ended" /\ pc' = "judged"
    BY <1>1 DEF Judge
  <2>2. wasManual' <=> manual
    BY <1>1, Zenon DEF Judge
  <2> QED
    BY <1>0, <1>a, <1>b, <2>1, <2>2 DEF CreditInv
<1>2. CASE Clear
  <2>1. /\ pc = "judged" /\ wasManual' = wasManual
        /\ \/ pc' = "succeeded" /\ result = "good"
           \/ pc' = "failed" /\ result # "good"
    <3>1. result \in {"fail", "brief", "good"}
      BY DEF Types, PlaceTypes
    <3> QED
      BY <1>2, <3>1 DEF Clear
  <2> QED
    BY <1>0, <1>a, <1>b, <2>1 DEF CreditInv
<1>3. CASE Failed
  <2>1. /\ pc = "failed" /\ wasManual' = wasManual
        /\ \/ pc' = "top"
           \/ pc' = "charge" /\ ~(wasManual /\ ~switching)
    BY <1>3 DEF Failed
  <2> QED
    BY <1>0, <1>a, <1>b, <2>1 DEF CreditInv
<1> QED
  BY <1>1, <1>2, <1>3

\* ... and the rest of the round.
LEMMA CreditCharged ==
  ASSUME Types, CreditInv, Succeeded \/ Charge \/ Rotate \/ Retry \/ Exhausted \/ Fallback
  PROVE  CreditInv'
<1> USE DEF listVars, flagVars, localVars, deadVars, actorVars, histVars
<1> USE DEF Goto, Attempting
<1>1. CASE Charge
  <2>1. /\ pc = "charge" /\ pc' = "rotate" /\ UNCHANGED <<order, idx, taken, faults, sorted, chosen>>
        /\ failures' = failures \/ failures' = [failures EXCEPT ![At(idx)] = Capped(@ + 1, MaxFailures)]
    BY <1>1 DEF Charge, HandleStreamFailure
  <2>2. taken \in Hashes /\ (~sorted => taken = At(idx) /\ Counted) /\ ChargedForFaults /\ At(idx) \in Hashes
    BY <2>1, Numbers DEF CreditInv
  <2>3. ChargedForFaults'
    <3>1. CASE failures' = failures
      BY <2>1, <2>2, <3>1 DEF ChargedForFaults
    <3>2. CASE failures' = [failures EXCEPT ![At(idx)] = Capped(@ + 1, MaxFailures)]
      BY <2>1, <2>2, <3>2, ChargeIsCovered DEF Counted
    <3> QED
      BY <2>1, <3>1, <3>2
  <2>4. At(idx)' = At(idx)
    BY <2>1 DEF At
  <2> QED
    BY <2>1, <2>2, <2>3, <2>4 DEF CreditInv
<1>2. CASE Succeeded \/ Rotate \/ Retry \/ Exhausted \/ Fallback
  <2>1. pc' \in {"idle", "top", "retry", "fallback"} /\ UNCHANGED <<failures, faults, sorted>>
    BY <1>2 DEF Succeeded, Rotate, Retry, Exhausted, Fallback, Leave, Begin, Forget
  <2> QED
    BY <2>1 DEF CreditInv, ChargedForFaults
<1> QED
  BY <1>1, <1>2

\* What the others do.
LEMMA CreditActors ==
  ASSUME Types, CreditInv, Actors
  PROVE  CreditInv'
<1> USE DEF listVars, flagVars, localVars, deadVars, actorVars, histVars
<1> USE DEF Goto, Attempting
<1>0. UNCHANGED <<idx, taken, result, wasManual, failures>> /\ ChargedForFaults
  BY ActorChanges DEF CreditInv
<1>1. CASE Join \/ WatchRestart
  <2>1. pc' = "top" /\ UNCHANGED <<faults, sorted>>
    BY <1>1 DEF Join, WatchRestart, Begin
  <2> QED
    BY <1>0, <2>1 DEF CreditInv, ChargedForFaults
<1>2. CASE \E s \in Orders : Reorder(s)
  <2>1. sorted' /\ UNCHANGED <<pc, chosen, manual>>
    BY <1>2 DEF Reorder
  <2> QED
    BY <1>0, <2>1 DEF CreditInv, ChargedForFaults
<1>3. CASE ForceIndex
  <2>1. UNCHANGED <<order, pc, manual, switching, faults, sorted>>
    BY <1>3 DEF ForceIndex
  <2>2. chosen' = IF chosen # -1 \/ (pc = "playing" /\ manual /\ ~switching) THEN target ELSE -1
    BY <1>3 DEF ForceIndex
  <2>3. target # -1
    <3>1. target \in Indexes
      BY DEF Types, ListTypes
    <3>2. Indexes \subseteq Nat
      BY Size
    <3> QED
      BY <3>1, <3>2
  <2>4. (chosen' # -1 <=> chosen # -1) \/ (pc = "playing" /\ manual)
    BY <2>2, <2>3
  <2> QED
    BY <1>0, <2>1, <2>2, <2>4 DEF CreditInv, ChargedForFaults, Counted, At
<1>4. CASE WatchSwitch
  <2>1. /\ chosen' = -1 /\ UNCHANGED <<order, pc, manual, sorted>>
        /\ faults' = IF SpareAttempt THEN [faults EXCEPT ![taken] = Capped(@ + 1, MaxFailures)] ELSE faults
    BY <1>4 DEF WatchSwitch
  <2>2. At(idx)' = At(idx)
    BY <1>0, <2>1 DEF At
  <2>3. CASE SpareAttempt
    <3>1. pc \in {"ended", "judged", "failed"} /\ taken \in Hashes
      BY <2>3 DEF SpareAttempt, CreditInv
    <3>2. ChargedForFaults' /\ (~sorted' => Counted')
      BY <1>0, <2>1, <2>3, <3>1, FaultCounts DEF Counted
    <3> QED
      BY <1>0, <2>1, <2>2, <3>1, <3>2 DEF CreditInv
  <2>4. CASE ~SpareAttempt
    <3>1. ChargedForFaults' /\ (Counted' <=> Counted)
      BY <1>0, <2>1, <2>4 DEF ChargedForFaults, Counted
    <3> QED
      BY <1>0, <2>1, <2>2, <2>4, <3>1 DEF CreditInv, SpareAttempt
  <2> QED
    BY <2>3, <2>4
<1>5. CASE \/ JoinOnDead \/ ClientLeaves \/ StopCancel \/ StopRenew \/ ForceFlag \/ ForceContext \/ WatchFlag \/ WatchCancel
           \/ \E i \in Indexes : SetChannelStream(i)
           \/ \E h \in Hashes : KillStream(h) \/ ReviveStream(h) \/ Outage(h) \/ Recovery(h)
  <2>1. UNCHANGED <<order, pc, switching, faults, sorted, chosen>> /\ (manual => manual')
    BY <1>5 DEF JoinOnDead, ClientLeaves, StopCancel, StopRenew, ForceFlag, ForceContext, WatchFlag, WatchCancel,
       SetChannelStream, KillStream, ReviveStream, Outage, Recovery
  <2> QED
    BY <1>0, <2>1 DEF CreditInv, ChargedForFaults, Counted, At
<1> QED
  BY <1>1, <1>2, <1>3, <1>4, <1>5 DEF Actors

LEMMA CreditStep ==
  ASSUME Types, CreditInv, [Next]_vars
  PROVE  CreditInv'
<1>1. CASE PlayEnds \/ PlayCut \/ PlayAlone \/ PlayDead
  <2>1. /\ pc = "playing" /\ (Ended("good") \/ Ended("brief") \/ Ended("fail"))
        /\ UNCHANGED <<listVars, flagVars, idx, taken, failures, chosen, sorted>>
    BY <1>1 DEF PlayEnds, PlayCut, PlayAlone, PlayDead, deadVars
  <2> QED
    BY <2>1, EndIsCounted
<1>2. CASE Actors
  BY <1>2, CreditActors
<1>3. CASE UNCHANGED vars
  BY <1>3 DEF CreditInv, ChargedForFaults, Counted, At, vars, listVars, flagVars, localVars, deadVars, actorVars, histVars
<1> QED
  BY <1>1, <1>2, <1>3, CreditTaken, CreditJudged, CreditCharged DEF Next, Stream, Proceed

\* While the channel's list keeps its order, a stream's failure count never passes the number
\* of its attempts that really failed: an operator who switches away from a stream, however
\* often and at whatever moment, does not bring it nearer to being blocked (restream.go 439).
THEOREM SwitchesAreFree == FairSpec => []ChargedForFaults
<1>1. Init => Types /\ CreditInv
  BY TypesInit, CreditInit
<1>2. Types /\ CreditInv /\ [Next]_vars => (Types /\ CreditInv)'
  BY TypesKept, CreditStep
<1>3. CreditInv => ChargedForFaults
  BY DEF CreditInv
<1> QED
  BY <1>1, <1>2, <1>3, PTL DEF FairSpec, Spec

-----------------------------------------------------------------------------
(* The rotation                                                            *)

Rotating == pc \in Attempting \cup {"top", "retry"} /\ ~moved /\ tried # Indexes
Aligned  == Rotating => \E s \in Indexes, slips \in {0, 1} : InRotation(s, slips)

\* The places of the rotation: the one after a place, and how far a tours.
LEMMA Places ==
  ASSUME Types
  PROVE  /\ Count \in Nat \ {0} /\ Indexes = 0 .. Count - 1 /\ cur \in Indexes /\ idx \in Indexes /\ tried \subseteq Indexes
         /\ attempts \in Nat /\ Multiplier \in Nat \ {0} /\ order \in Orders
<1>1. PICK top \in Nat : top = Count * Multiplier
  <2>1. Count \in Nat /\ Multiplier \in Nat
    BY CountIs, Size DEF Types, ListTypes
  <2> HIDE DEF Count
  <2> QED
    BY <2>1
<1>2. attempts \in 0 .. top
  BY <1>1 DEF Types, CountTypes
<1> QED
  BY <1>2, CountIs, Size DEF Types, ListTypes, SetTypes

LEMMA Onward ==
  ASSUME Count \in Nat \ {0}, Indexes = 0 .. Count - 1, NEW s \in Indexes, NEW a \in 0 .. Count - 1
  PROVE  /\ Step(s, a) \in Indexes
         /\ Reach(s, a + 1) \subseteq Reach(s, a) \cup {Step(s, a)}
         /\ Reach(s, Count) = Indexes
         /\ Reach(s, 0) = {} /\ Step(s, 0) = s
<1> HIDE DEF Count, Indexes
<1>1. Step(s, a) \in Indexes /\ Step(s, 0) = s
  BY DEF Step
<1>2. ASSUME NEW i \in Reach(s, a + 1), i \notin Reach(s, a)
      PROVE  i = Step(s, a)
  BY <1>2 DEF Reach, Step
<1>3. Reach(s, Count) = Indexes /\ Reach(s, 0) = {}
  BY DEF Reach
<1> QED
  BY <1>1, <1>2, <1>3

LEMMA Turns ==
  ASSUME Count \in Nat \ {0}, Indexes = 0 .. Count - 1, NEW s \in Indexes, NEW a \in 1 .. Count - 1
  PROVE  (Step(s, a - 1) + 1) % Count = Step(s, a)
<1> HIDE DEF Count, Indexes
<1>0. Step(s, a - 1) \in 0 .. Count - 1
  BY DEF Step
<1>1. PICK j \in Nat : j = Step(s, a - 1) + 1
  BY <1>0
<1>2. j \in 1 .. Count /\ Step(s, a) = IF j < Count THEN j ELSE 0
  BY <1>1 DEF Step
<1>3. j % Count = IF j < Count THEN j ELSE 0
  BY <1>2
<1> QED
  BY <1>1, <1>2, <1>3

\* The list may be sorted anew: it keeps its length.
LEMMA CountStays ==
  ASSUME Types, Types'
  PROVE  Count' = Count
<1>1. (order \in Orders => Count = Cardinality(Hashes) /\ Indexes = 0 .. Count - 1 /\ \A i \in Indexes : At(i) \in Hashes)'
  BY CountIs, PTL
<1> QED
  BY <1>1, CountIs, Size DEF Types, ListTypes

\* The counters were just reset.
LEMMA Fresh ==
  ASSUME Types, Types', pc' = "top", attempts' = 0, tried' = {}
  PROVE  Aligned'
<1>1. /\ Count \in Nat \ {0} /\ Indexes = 0 .. Count - 1 /\ cur' \in Indexes
  BY Places DEF Types, ListTypes
<1>2. Count' = Count
  BY CountStays
<1>3. PICK s \in Indexes : s = cur'
  BY <1>1
<1>4. Reach(s, 0)' = {} /\ Step(s, 0)' = s
  <2> HIDE DEF Count, Indexes
  <2> QED
    BY <1>1, <1>2 DEF Reach, Step
<1>5. InRotation(s, 0)'
  <2>1. pc' \notin Attempting
    BY DEF Attempting
  <2> HIDE DEF Count, Indexes, Reach, Step
  <2> QED
    BY <1>1, <1>2, <1>3, <1>4, <2>1 DEF InRotation
<1> QED
  BY <1>5 DEF Aligned

\* Nothing that the rotation counts has changed.
LEMMA Carried ==
  ASSUME Types, Types', Aligned, UNCHANGED <<cur, idx, attempts, tried>>,
         pc' = pc \/ (pc \in Attempting /\ pc' \in Attempting) \/ (pc = "retry" /\ pc' = "top"),
         moved => moved', op' = "context" => op = "context",
         pc = "top" => \A slips \in {0, 1} : (slips = 1 => op # "context") /\ Held(slips) => Held(slips)'
  PROVE  Aligned'
<1> SUFFICES ASSUME Rotating'
             PROVE  \E s \in Indexes, slips \in {0, 1} : InRotation(s, slips)'
  BY DEF Aligned
<1>1. Count' = Count
  BY CountStays
<1>2. Rotating
  BY DEF Rotating, Attempting
<1>3. PICK s \in Indexes, slips \in {0, 1} : InRotation(s, slips)
  BY <1>2 DEF Aligned
<1>4. \A a : Step(s, a)' = Step(s, a) /\ Reach(s, a)' = Reach(s, a)
  BY <1>1 DEF Step, Reach
<1> HIDE DEF Count, Indexes, Step, Reach, Held
<1>5. InRotation(s, slips)'
  BY <1>1, <1>3, <1>4 DEF InRotation, Attempting
<1> QED
  BY <1>5

\* The next attempt is at a new index, but for the one slip.
LEMMA Attempted ==
  ASSUME Types, Types', Aligned, RotationInv, Top, pc' = "enter"
  PROVE  Aligned'
<1> SUFFICES ASSUME Rotating'
             PROVE  \E s \in Indexes, slips \in {0, 1} : InRotation(s, slips)'
  BY DEF Aligned
<1>1. /\ pc = "top" /\ ~done /\ client
      /\ idx' = cur /\ cur' = cur /\ attempts' = attempts + 1 /\ tried' = tried \cup {cur}
      /\ UNCHANGED <<order, moved, op, watch, client, done>>
  BY DEF Top, Goto, Leave, listVars, flagVars, localVars, deadVars, actorVars, histVars
<1>2. /\ Count \in Nat \ {0} /\ Indexes = 0 .. Count - 1 /\ cur \in Indexes /\ tried \subseteq Indexes /\ attempts \in Nat
      /\ Count' = Count
  BY Places, CountStays
<1>3. Rotating /\ tried' # Indexes
  BY <1>1, <1>2 DEF Rotating
<1>4. PICK s \in Indexes, slips \in {0, 1} : InRotation(s, slips)
  BY <1>3 DEF Aligned
<1>5. \A a : Step(s, a)' = Step(s, a) /\ Reach(s, a)' = Reach(s, a)
  BY <1>2 DEF Step, Reach
<1>6. PICK a \in 0 .. Count - 1 : a = attempts - slips
  BY <1>4 DEF InRotation
<1> HIDE DEF Count, Indexes, Step, Reach
<1>7. CASE cur = Step(s, a)
  <2>1. Reach(s, a + 1) \subseteq tried'
    BY <1>1, <1>2, <1>4, <1>6, <1>7, Onward DEF InRotation
  <2>2. a + 1 \in 0 .. Count - 1
    <3>1. a + 1 # Count
      BY ZenonT(40), <1>1, <1>2, <1>3, <2>1, Onward
    <3> QED
      BY <1>2, <3>1
  <2>3. attempts' - slips = a + 1 /\ (a + 1) - 1 = a
    BY <1>1, <1>2, <1>6
  <2>4. InRotation(s, slips)'
    BY <1>1, <1>2, <1>4, <1>5, <1>7, <2>1, <2>2, <2>3 DEF InRotation, Attempting
  <2> QED
    BY <2>4
<1>8. CASE cur # Step(s, a)
  <2>1. a >= 1 /\ cur = Step(s, a - 1) /\ Held(slips)
    BY <1>1, <1>4, <1>6, <1>8 DEF InRotation
  <2>2. slips = 0 /\ op # "context"
    BY <1>1, <2>1 DEF Held
  <2>3. attempts' - 1 = a
    BY <1>1, <1>2, <1>6, <2>2
  <2>4. Reach(s, a) \subseteq tried'
    BY <1>1, <1>4, <1>6 DEF InRotation
  <2>5. InRotation(s, 1)'
    BY <1>1, <1>2, <1>5, <2>1, <2>2, <2>3, <2>4 DEF InRotation, Attempting
  <2> QED
    BY <2>5
<1> QED
  BY <1>7, <1>8

\* When the attempts are used up, every index has had its own.
LEMMA UsedUp ==
  ASSUME Types, Aligned, Multiplier >= 2, pc = "top", attempts >= Count * Multiplier
  PROVE  moved \/ tried = Indexes
<1> SUFFICES ASSUME ~moved, tried # Indexes
             PROVE  FALSE
  OBVIOUS
<1>1. Count \in Nat \ {0} /\ Multiplier \in Nat /\ attempts \in Nat
  BY Places
<1>2. PICK s \in Indexes, slips \in {0, 1} : InRotation(s, slips)
  BY DEF Aligned, Rotating
<1>3. attempts - slips < Count
  BY <1>1, <1>2 DEF InRotation
<1>4. Count * Multiplier >= 2 * Count
  <2> HIDE DEF Count
  <2> QED
    BY <1>1
<1>5. PICK top \in Nat : top = Count * Multiplier
  <2> HIDE DEF Count
  <2> QED
    BY <1>1
<1> HIDE DEF Count
<1> QED
  BY <1>1, <1>3, <1>4, <1>5

LEMMA RotationIs ==
  RotationInv <=> /\ done => stop = "renew" \/ watch = "cancel"
                  /\ stop # "idle" => ~client
                  /\ pc \in {"exhausted", "fallback"} => moved \/ tried = Indexes
                  /\ Aligned
BY DEF RotationInv, Aligned, Rotating

\* Whoever cancels the installed context replaces it, and nobody stops a watched stream.
LEMMA ContextStep ==
  ASSUME Types, RotationInv, Next
  PROVE  (done' => stop' = "renew" \/ watch' = "cancel") /\ (stop' # "idle" => ~client')
<1> USE DEF listVars, flagVars, localVars, deadVars, actorVars, histVars
<1>0. (done => stop = "renew" \/ watch = "cancel") /\ (stop # "idle" => ~client)
  BY DEF RotationInv
<1>1. CASE Stream
  <2>1. UNCHANGED <<client, done, stop>>
    BY <1>1, StreamChanges DEF Types
  <2>2. watch' = watch \/ (watch = "streaming" /\ watch' = "idle")
    BY <1>1 DEF Stream, Proceed, Top, Enter, Connect, PlayCut, PlaySurvives, PlayAlone, PlayDead, PlayEnds, Judge,
       Clear, Succeeded, Failed, Charge, Rotate, Retry, Exhausted, Fallback, Leave
  <2> QED
    BY <1>0, <2>1, <2>2
<1>2. CASE Actors
  <2>1. CASE Join \/ JoinOnDead \/ ClientLeaves \/ StopCancel \/ StopRenew
    BY <1>0, <2>1 DEF Join, JoinOnDead, ClientLeaves, StopCancel, StopRenew
  <2>2. CASE ForceFlag \/ ForceIndex \/ ForceContext
    BY <1>0, <2>2 DEF ForceFlag, ForceIndex, ForceContext
  <2>3. CASE WatchSwitch \/ WatchFlag \/ WatchCancel \/ WatchRestart
    <3>1. UNCHANGED <<client, stop>>
      BY <2>3 DEF WatchSwitch, WatchFlag, WatchCancel, WatchRestart
    <3>2. CASE WatchSwitch
      BY <1>0, <3>1, <3>2 DEF WatchSwitch
    <3>3. CASE WatchFlag \/ WatchCancel
      BY <1>0, <3>1, <3>3 DEF WatchFlag, WatchCancel
    <3>4. CASE WatchRestart
      BY <1>0, <3>1, <3>4 DEF WatchRestart
    <3> QED
      BY <2>3, <3>2, <3>3, <3>4
  <2>4. CASE \/ \E i \in Indexes : SetChannelStream(i)
             \/ \E s \in Orders : Reorder(s)
             \/ \E h \in Hashes : KillStream(h) \/ ReviveStream(h) \/ Outage(h) \/ Recovery(h)
    <3>1. UNCHANGED <<client, done, stop, watch>>
      BY <2>4 DEF SetChannelStream, Reorder, KillStream, ReviveStream, Outage, Recovery
    <3> QED
      BY <1>0, <3>1
  <2> QED
    BY <1>2, <2>1, <2>2, <2>3, <2>4 DEF Actors
<1> QED
  BY <1>1, <1>2 DEF Next

\* The clip comes after the last attempt.
LEMMA ClipStep ==
  ASSUME Types, RotationInv, Next, Multiplier >= 2
  PROVE  pc' \in {"exhausted", "fallback"} => moved' \/ tried' = Indexes
<1> USE DEF listVars, flagVars, localVars, deadVars, actorVars, histVars
<1> USE DEF Goto, Leave, Forget
<1> SUFFICES ASSUME pc' \in {"exhausted", "fallback"}
             PROVE  moved' \/ tried' = Indexes
  OBVIOUS
<1>1. CASE Top
  <2>1. attempts >= Count * Multiplier /\ pc = "top" /\ UNCHANGED <<tried, moved>>
    BY <1>1 DEF Top
  <2> QED
    BY <2>1, UsedUp, RotationIs
<1>2. CASE Stream /\ ~Top
  <2>1. CASE Exhausted
    BY <2>1 DEF Exhausted, RotationInv
  <2>2. CASE Enter \/ Connect \/ PlayCut \/ PlaySurvives \/ PlayAlone \/ PlayDead \/ PlayEnds
    BY <2>2 DEF Enter, Connect, PlayCut, PlaySurvives, PlayAlone, PlayDead, PlayEnds, Ended
  <2>3. CASE Judge \/ Clear \/ Failed \/ Charge \/ Rotate
    BY <2>3, StreamChanges DEF Judge, Clear, Failed, Charge, Rotate, Types, PlaceTypes
  <2>4. CASE Succeeded \/ Retry \/ Fallback
    BY <2>4 DEF Succeeded, Retry, Fallback, Begin
  <2> QED
    BY <1>2, <2>1, <2>2, <2>3, <2>4 DEF Stream, Proceed
<1>3. CASE Actors
  <2>1. ~Join /\ ~WatchRestart
    BY DEF Join, WatchRestart, Begin
  <2>2. pc' = pc /\ tried' = tried
    BY <1>3, <2>1 DEF Actors, JoinOnDead, ClientLeaves, StopCancel, StopRenew, SetChannelStream, Reorder, ForceFlag,
       ForceIndex, ForceContext, KillStream, ReviveStream, Outage, Recovery, WatchSwitch, WatchFlag, WatchCancel
  <2>3. moved => moved'
    BY <1>3, <2>1 DEF Actors, JoinOnDead, ClientLeaves, StopCancel, StopRenew, SetChannelStream, Reorder, ForceFlag,
       ForceIndex, ForceContext, KillStream, ReviveStream, Outage, Recovery, WatchSwitch, WatchFlag, WatchCancel
  <2> QED
    BY <2>2, <2>3 DEF RotationInv
<1> QED
  BY <1>1, <1>2, <1>3 DEF Next

LEMMA StreamAligned ==
  ASSUME Types, Types', RotationInv, Stream
  PROVE  Aligned'
<1> USE DEF listVars, flagVars, localVars, deadVars, actorVars, histVars
<1> USE DEF Goto
<1>0. Aligned /\ (done => stop = "renew" \/ watch = "cancel") /\ (stop # "idle" => ~client)
  BY RotationIs
<1>a. ASSUME pc' \notin Attempting \cup {"top", "retry"}
      PROVE  Aligned'
  BY <1>a DEF Aligned, Rotating
<1>b. ASSUME UNCHANGED <<cur, idx, attempts, tried, moved, op>>, pc \in Attempting, pc' \in Attempting
      PROVE  Aligned'
  BY <1>0, <1>b, Carried DEF Attempting
<1>1. CASE Top
  <2>1. pc' \in {"exhausted", "idle", "enter"}
    BY <1>1 DEF Top, Leave
  <2> QED
    BY <1>0, <1>1, <1>a, <2>1, Attempted DEF Attempting
<1>2. CASE Enter \/ Connect \/ Judge \/ Clear \/ Charge
  <2>1. UNCHANGED <<cur, idx, attempts, tried, moved, op>>
    BY <1>2 DEF Enter, Connect, Judge, Clear, Charge
  <2>2. pc \in Attempting /\ pc' \in Attempting
    BY <1>2, StreamChanges DEF Enter, Connect, Judge, Clear, Charge, Attempting, Types, PlaceTypes
  <2> QED
    BY <1>b, <2>1, <2>2
<1>3. CASE PlayEnds \/ PlayCut \/ PlaySurvives \/ PlayAlone \/ PlayDead
  <2>1. UNCHANGED <<cur, idx, attempts, tried, moved, op>> /\ pc \in Attempting /\ pc' \in Attempting
    BY <1>3 DEF PlayEnds, PlayCut, PlaySurvives, PlayAlone, PlayDead, Ended, Attempting
  <2> QED
    BY <1>b, <2>1
<1>4. CASE Succeeded
  <2>1. CASE pc' = "idle"
    BY <1>a, <2>1 DEF Attempting
  <2>2. CASE pc' = "top" /\ Forget
    BY <2>2, Fresh DEF Forget
  <2>3. CASE /\ pc = "succeeded" /\ pc' = "top" /\ done
             /\ UNCHANGED <<order, cur, idx, attempts, tried, moved, op, watch, client, done>>
    <3> SUFFICES ASSUME Rotating'
                 PROVE  \E s \in Indexes, slips \in {0, 1} : InRotation(s, slips)'
      BY DEF Aligned
    <3>1. Rotating
      BY <2>3 DEF Rotating, Attempting
    <3>2. PICK s \in Indexes, slips \in {0, 1} : InRotation(s, slips)
      BY <1>0, <3>1 DEF Aligned
    <3>3. \A a : Step(s, a)' = Step(s, a) /\ Reach(s, a)' = Reach(s, a)
      BY <2>3 DEF Step, Reach, Count
    <3>4. Held(slips)'
      BY <1>0, <2>3 DEF Held
    <3>5. Count' = Count
      BY <2>3 DEF Count
    <3> HIDE DEF Count, Indexes, Step, Reach, Held
    <3>6. InRotation(s, slips)'
      BY <2>3, <3>2, <3>3, <3>4, <3>5 DEF InRotation, Attempting
    <3> QED
      BY <3>6
  <2> QED
    BY <1>4, <2>1, <2>2, <2>3 DEF Succeeded, Leave
<1>5. CASE Failed
  <2>1. CASE pc' = "top" /\ Forget
    BY <2>1, Fresh DEF Forget
  <2>2. CASE pc' = "charge"
    <3>1. UNCHANGED <<cur, idx, attempts, tried, moved, op>> /\ pc \in Attempting /\ pc' \in Attempting
      BY <1>5, <2>2 DEF Failed, Forget, Attempting
    <3> QED
      BY <1>b, <3>1
  <2> QED
    BY <1>5, <2>1, <2>2 DEF Failed
<1>6. CASE Rotate
  <2> SUFFICES ASSUME Rotating'
               PROVE  \E s \in Indexes, slips \in {0, 1} : InRotation(s, slips)'
    BY DEF Aligned
  <2>1. /\ pc = "rotate" /\ pc' = "retry" /\ cur' = IF Count > 1 THEN (idx + 1) % Count ELSE cur
        /\ UNCHANGED <<order, idx, attempts, tried, moved, op>>
    BY <1>6 DEF Rotate
  <2>2. Rotating
    BY <2>1 DEF Rotating, Attempting
  <2>3. PICK s \in Indexes, slips \in {0, 1} : InRotation(s, slips)
    BY <1>0, <2>2 DEF Aligned
  <2>4. \A a : Step(s, a)' = Step(s, a) /\ Reach(s, a)' = Reach(s, a)
    BY <2>1 DEF Step, Reach, Count
  <2>5. Count' = Count
    BY <2>1 DEF Count
  <2>6. Count \in Nat \ {0} /\ Indexes = 0 .. Count - 1
    BY Places
  <2>7. attempts - slips \in 1 .. Count - 1 /\ idx = Step(s, attempts - slips - 1)
    <3> HIDE DEF Count, Indexes, Step, Reach
    <3> QED
      BY <2>1, <2>3, <2>6 DEF InRotation, Attempting
  <2>8. PICK a \in 1 .. Count - 1 : a = attempts - slips
    BY <2>7
  <2>9. cur' = Step(s, a)
    <3>1. (Step(s, a - 1) + 1) % Count = Step(s, a) /\ idx = Step(s, a - 1) /\ Count > 1
      BY <2>6, <2>7, <2>8, Turns
    <3> HIDE DEF Count, Indexes, Step
    <3> QED
      BY <2>1, <3>1
  <2>10. InRotation(s, slips)'
    <3> HIDE DEF Count, Indexes, Step, Reach
    <3> QED
      BY <2>1, <2>3, <2>4, <2>5, <2>6, <2>8, <2>9 DEF InRotation, Attempting
  <2> QED
    BY <2>10
<1>7. CASE Retry
  <2>1. UNCHANGED <<cur, idx, attempts, tried, moved, op>> /\ pc = "retry" /\ pc' \in {"top", "idle"}
    BY <1>7 DEF Retry, Leave
  <2> QED
    BY <1>0, <1>a, <2>1, Carried DEF Attempting
<1>8. CASE Exhausted
  BY <1>8, <1>a DEF Exhausted, Leave, Attempting
<1>9. CASE Fallback
  <2>1. pc' = "idle" \/ (pc' = "top" /\ attempts' = 0 /\ tried' = {})
    BY <1>9 DEF Fallback, Leave, Begin, Forget
  <2> QED
    BY <1>a, <2>1, Fresh DEF Attempting
<1> QED
  BY <1>1, <1>2, <1>3, <1>4, <1>5, <1>6, <1>7, <1>8, <1>9 DEF Stream, Proceed

LEMMA ActorsAligned ==
  ASSUME Types, Types', RotationInv, Actors
  PROVE  Aligned'
<1> USE DEF listVars, flagVars, localVars, deadVars, actorVars, histVars
<1>0. Aligned /\ (done => stop = "renew" \/ watch = "cancel") /\ (stop # "idle" => ~client)
  BY RotationIs
<1>1. CASE Join \/ WatchRestart
  <2>1. pc' = "top" /\ attempts' = 0 /\ tried' = {}
    BY <1>1 DEF Join, WatchRestart, Begin, Forget, Goto
  <2> QED
    BY <2>1, Fresh
<1>2. CASE ForceIndex \/ WatchSwitch \/ \E i \in Indexes : SetChannelStream(i)
  <2>1. moved' \/ pc' = "idle"
    BY <1>2 DEF ForceIndex, WatchSwitch, SetChannelStream, Running
  <2> QED
    BY <2>1 DEF Aligned, Rotating, Attempting
<1>3. CASE ForceContext
  <2>1. /\ op = "context" /\ op' = "idle" /\ done' = FALSE
        /\ UNCHANGED <<cur, idx, attempts, tried, moved, pc, client, watch>>
    BY <1>3 DEF ForceContext
  <2>2. \A slips \in {0, 1} : (slips = 1 => op # "context") /\ Held(slips) => Held(slips)'
    BY <2>1 DEF Held
  <2> QED
    BY <1>0, <2>1, <2>2, Carried
<1>4. CASE JoinOnDead \/ ClientLeaves \/ StopCancel \/ StopRenew \/ ForceFlag \/ WatchFlag \/ WatchCancel
  <2>1. /\ UNCHANGED <<cur, idx, attempts, tried, moved, pc>> /\ (op' = "context" => op = "context")
        /\ (client' => client)
        /\ (client' => done' = done \/ (done' = TRUE /\ watch = "cancel"))
        /\ (watch = "cancel" => watch' = "cancel")
    BY <1>0, <1>4 DEF JoinOnDead, ClientLeaves, StopCancel, StopRenew, ForceFlag, WatchFlag, WatchCancel
  <2>2. \A slips \in {0, 1} : Held(slips) => Held(slips)'
    BY <2>1 DEF Held
  <2> QED
    BY <1>0, <2>1, <2>2, Carried
<1>5. CASE \/ \E s \in Orders : Reorder(s)
           \/ \E h \in Hashes : KillStream(h) \/ ReviveStream(h) \/ Outage(h) \/ Recovery(h)
  <2>1. UNCHANGED <<cur, idx, attempts, tried, moved, pc, client, done, watch>> /\ (op' = "context" => op = "context")
    BY <1>5 DEF Reorder, KillStream, ReviveStream, Outage, Recovery
  <2>2. \A slips \in {0, 1} : Held(slips) => Held(slips)'
    BY <2>1 DEF Held
  <2> QED
    BY <1>0, <2>1, <2>2, Carried
<1> QED
  BY <1>1, <1>2, <1>3, <1>4, <1>5 DEF Actors

LEMMA RotationStep ==
  ASSUME Types, RotationInv, [Next]_vars, Multiplier >= 2
  PROVE  RotationInv'
<1>0. Types'
  BY TypesKept
<1>1. CASE Next
  <2>1. Aligned'
    BY <1>0, <1>1, StreamAligned, ActorsAligned DEF Next
  <2>2. (RotationInv <=> /\ done => stop = "renew" \/ watch = "cancel"
                         /\ stop # "idle" => ~client
                         /\ pc \in {"exhausted", "fallback"} => moved \/ tried = Indexes
                         /\ Aligned)'
    BY RotationIs, PTL
  <2> QED
    BY <1>1, <2>1, <2>2, ContextStep, ClipStep
<1>2. CASE UNCHANGED vars
  BY <1>2 DEF RotationInv, InRotation, Held, Step, Reach, Count, vars, listVars, flagVars, localVars, deadVars, actorVars,
     histVars
<1> QED
  BY <1>1, <1>2

LEMMA RotationInit ==
  ASSUME Init
  PROVE  RotationInv
BY DEF Init, RotationInv, Attempting

\* The offline clip comes last: clients see it only after every stream of the channel has been
\* attempted since the counters were reset, unless somebody moved the index meanwhile.  A success
\* that ends in a cancelled context leaves the index where it is and so wastes an attempt; the
\* second round that StreamMaxAttemptsMultiplier (2 in constants/internal.go) allows makes up for it.
THEOREM ClipComesLast == Multiplier >= 2 => (FairSpec => []LoopInv)
<1> SUFFICES ASSUME Multiplier >= 2
             PROVE  FairSpec => []LoopInv
  OBVIOUS
<1>1. Init => Types /\ RotationInv
  BY TypesInit, RotationInit
<1>2. Types /\ RotationInv /\ [Next]_vars => (Types /\ RotationInv)'
  BY TypesKept, RotationStep
<1>3. Types /\ RotationInv => LoopInv
  BY TypesAre DEF LoopInv, RotationInv, FallbackAfterAll
<1> QED
  BY <1>1, <1>2, <1>3, PTL DEF FairSpec, Spec

-----------------------------------------------------------------------------
(* The operator's choice                                                   *)

LEMMA ChoiceStep ==
  ASSUME Types, ChoiceInv, [Next]_vars
  PROVE  ChoiceInv'
<1> USE DEF listVars, flagVars, localVars, deadVars, actorVars, histVars
<1> USE DEF Goto
<1>1. CASE Top
  <2>1. pc = "top" /\ UNCHANGED <<cur, client, wasManual>> /\ (switching' = switching \/ switching' = FALSE)
    BY <1>1 DEF Top, Leave
  <2>2. \/ pc' = "exhausted" /\ attempts >= Count * Multiplier /\ chosen' = chosen
        \/ pc' = "enter" /\ chosen' = -1
        \/ pc' = "idle" /\ chosen' = chosen
    BY <1>1 DEF Top, Leave
  <2>3. Count \in Nat \ {0}
    BY CountIs, Size DEF Types, ListTypes
  <2>4. attempts >= Count * Multiplier => attempts # 0
    BY <2>3, LimitAssumption
  <2> QED
    BY <2>1, <2>2, <2>4 DEF ChoiceInv
<1>2. CASE Enter \/ Connect
  <2>1. pc \in {"enter", "connect"} /\ pc' \in {"connect", "ended", "playing"} /\ chosen' = chosen
    BY <1>2 DEF Enter, Connect
  <2> QED
    BY <2>1 DEF ChoiceInv
<1>3. CASE PlayEnds \/ PlayCut \/ PlayAlone \/ PlayDead \/ PlaySurvives
  <2>1. /\ pc = "playing" /\ pc' \in {"playing", "ended"}
        /\ UNCHANGED <<chosen, manual, switching, client, cur>>
    BY <1>3 DEF PlayEnds, PlayCut, PlayAlone, PlayDead, PlaySurvives, Ended
  <2> QED
    BY <2>1 DEF ChoiceInv
<1>4. CASE Judge
  <2>1. pc = "ended" /\ pc' = "judged" /\ UNCHANGED <<chosen, switching, client, cur>>
    BY <1>4 DEF Judge
  <2>2. wasManual' <=> manual
    BY <1>4, Zenon DEF Judge
  <2> QED
    BY <2>1, <2>2 DEF ChoiceInv
<1>5. CASE Clear
  <2>1. /\ pc = "judged" /\ pc' \in {"succeeded", "failed"}
        /\ UNCHANGED <<chosen, wasManual, switching, client, cur>>
    BY <1>5 DEF Clear, Types, PlaceTypes
  <2> QED
    BY <2>1 DEF ChoiceInv
<1>6. CASE Failed
  <2>1. pc = "failed" /\ UNCHANGED <<chosen, switching, client, cur>>
        /\ ((pc' = "top" /\ attempts' = 0) \/ (pc' = "charge" /\ (wasManual => switching)))
    BY <1>6 DEF Failed, Forget
  <2> QED
    BY <2>1 DEF ChoiceInv
<1>7. CASE Succeeded
  <2>1. /\ pc = "succeeded" /\ UNCHANGED <<chosen, client, cur>> /\ (switching' = switching \/ switching' = FALSE)
    BY <1>7 DEF Succeeded, Leave
  <2>2. pc' = "idle" \/ (pc' = "top" /\ (wasManual => attempts' = 0))
    BY <1>7 DEF Succeeded, Leave, Forget
  <2> QED
    BY <2>1, <2>2 DEF ChoiceInv
<1>8. CASE Charge \/ Rotate \/ Retry \/ Exhausted \/ Fallback
  <2>1. /\ pc \in {"charge", "rotate", "retry", "exhausted", "fallback"} /\ chosen' = chosen
        /\ pc' \in {"rotate", "retry", "top", "fallback", "idle"}
    BY <1>8 DEF Charge, Rotate, Retry, Exhausted, Fallback, Leave, Begin
  <2> QED
    BY <2>1 DEF ChoiceInv
<1>9. CASE Actors
  <2>1. CASE Join \/ WatchRestart
    BY <2>1 DEF Join, WatchRestart, Begin, ChoiceInv
  <2>2. CASE ForceIndex
    <3>1. /\ UNCHANGED <<pc, wasManual, switching, manual, client, attempts>> /\ cur' = target
          /\ chosen' = IF chosen # -1 \/ (pc = "playing" /\ manual /\ ~switching) THEN target ELSE -1
      BY <2>2 DEF ForceIndex
    <3> QED
      BY <3>1 DEF ChoiceInv
  <2>3. CASE WatchSwitch
    BY <2>3 DEF WatchSwitch, ChoiceInv
  <2>4. CASE \E i \in Indexes : SetChannelStream(i)
    <3>1. /\ UNCHANGED <<pc, switching, wasManual, chosen, manual, client, attempts>>
          /\ cur' = cur \/ ~client \/ pc = "idle"
      BY <2>4 DEF SetChannelStream, Running
    <3> QED
      BY <3>1 DEF ChoiceInv
  <2>5. CASE \/ JoinOnDead \/ ClientLeaves \/ StopCancel \/ StopRenew \/ ForceFlag \/ ForceContext \/ WatchFlag \/ WatchCancel
             \/ \E s \in Orders : Reorder(s)
             \/ \E h \in Hashes : KillStream(h) \/ ReviveStream(h) \/ Outage(h) \/ Recovery(h)
    <3>1. UNCHANGED <<pc, switching, wasManual, chosen, cur, attempts>> /\ (manual => manual') /\ (client' => client)
      BY <2>5 DEF JoinOnDead, ClientLeaves, StopCancel, StopRenew, ForceFlag, ForceContext, WatchFlag, WatchCancel,
         Reorder, KillStream, ReviveStream, Outage, Recovery
    <3> QED
      BY <3>1 DEF ChoiceInv
  <2> QED
    BY <1>9, <2>1, <2>2, <2>3, <2>4, <2>5 DEF Actors
<1>10. CASE UNCHANGED vars
  BY <1>10 DEF ChoiceInv, vars
<1> QED
  BY <1>1, <1>2, <1>3, <1>4, <1>5, <1>6, <1>7, <1>8, <1>9, <1>10 DEF Next, Stream, Proceed

\* The operator's choice is honoured: when ForceStreamSwitch has set its flag and the index
\* before the stream that plays comes to its end, the next attempt is at that index, unless
\* the watcher has given the channel up in the meantime (restream.go 436-449).  A switch that
\* is made between two attempts is not covered, see RotatesFromOwn.
THEOREM ChoicePrevails == FairSpec => ChoiceHonoured
<1>1. Init => Types /\ ChoiceInv
  BY TypesInit DEF Init, ChoiceInv
<1>2. Types /\ ChoiceInv /\ [Next]_vars => (Types /\ ChoiceInv)'
  BY TypesKept, ChoiceStep
<1>3. ChoiceInv => [Top /\ pc' = "enter" /\ chosen # -1 => idx' = chosen]_vars
  <2>1. ASSUME Top, pc' = "enter" PROVE pc = "top" /\ client /\ idx' = cur
    BY <2>1 DEF Top, Goto, Leave
  <2> QED
    BY <2>1 DEF ChoiceInv
<1> QED
  BY <1>1, <1>2, <1>3, PTL DEF FairSpec, Spec, ChoiceHonoured
=============================================================================
