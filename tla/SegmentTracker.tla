--------------------------- MODULE SegmentTracker ---------------------------
(***************************************************************************)
(* The circular buffer in which the HLS loop keeps the segments it has     *)
(* already played (restream/hls.go, SegmentTracker).  A map from segment   *)
(* to position answers lookups; the buffer decides what is forgotten.  The *)
(* two must agree after any sequence of insertions, wrap-arounds,          *)
(* evictions, clears and replacements.  The loop only marks a segment that *)
(* HasProcessed denies, and so do the actions here.                        *)
(***************************************************************************)
EXTENDS Integers

CONSTANTS
  Segment,   \* segment URLs
  Blank,     \* the empty string that fills an unused position
  Sizes      \* the capacities trackers are created with

ASSUME BlankAssumption == Blank \notin Segment
ASSUME SizesAssumption == Sizes \subseteq Nat \ {0}

VARIABLES
  segments,    \* the circular buffer
  segmentMap,  \* segment -> position
  head,        \* the position written next
  maxSize,     \* the capacity
  currentSize  \* how many positions are in use

trackerVars == <<segments, segmentMap, head, maxSize, currentSize>>

Positions(n) == 0 .. n - 1
EmptyMap     == [u \in {} |-> 0]

HasProcessed(u) == u \in DOMAIN segmentMap

\* NewSegmentTracker(n), also the state Clear goes back to.
Fresh(n) ==
  /\ segments' = [i \in Positions(n) |-> Blank]
  /\ segmentMap' = EmptyMap
  /\ head' = 0 /\ currentSize' = 0
  /\ maxSize' = n

TrackerInit(n) ==
  /\ segments = [i \in Positions(n) |-> Blank]
  /\ segmentMap = EmptyMap
  /\ head = 0 /\ currentSize = 0
  /\ maxSize = n

Clear == Fresh(maxSize)

\* Fault: the segment that is overwritten stays in the map.
MarkProcessedKeepsOld(u) ==
  /\ segmentMap' = [v \in DOMAIN segmentMap \cup {u} |->
                      IF v = u THEN head ELSE segmentMap[v]]
  /\ currentSize' = IF currentSize >= maxSize THEN currentSize ELSE currentSize + 1
  /\ segments' = [segments EXCEPT ![head] = u]
  /\ head' = (head + 1) % maxSize
  /\ UNCHANGED maxSize

\* Fault: the head moves on before the old segment is forgotten.
MarkProcessedEvictsNext(u) ==
  LET next    == (head + 1) % maxSize
      evicted == IF currentSize >= maxSize THEN {segments[next]} \ {Blank} ELSE {}
  IN  /\ segmentMap' = [v \in (DOMAIN segmentMap \ evicted) \cup {u} |->
                          IF v = u THEN head ELSE segmentMap[v]]
      /\ currentSize' = IF currentSize >= maxSize THEN currentSize ELSE currentSize + 1
      /\ segments' = [segments EXCEPT ![head] = u]
      /\ head' = next
      /\ UNCHANGED maxSize

\* MarkProcessed: a full tracker forgets the segment it is about to overwrite.
MarkProcessed(u) ==
  LET evicted == IF currentSize >= maxSize THEN {segments[head]} \ {Blank} ELSE {}
  IN  /\ segmentMap' = [v \in (DOMAIN segmentMap \ evicted) \cup {u} |->
                          IF v = u THEN head ELSE segmentMap[v]]
      /\ currentSize' = IF currentSize >= maxSize THEN currentSize ELSE currentSize + 1
      /\ segments' = [segments EXCEPT ![head] = u]
      /\ head' = (head + 1) % maxSize
      /\ UNCHANGED maxSize

-----------------------------------------------------------------------------
(* The tracker by itself *)

Init == \E n \in Sizes : TrackerInit(n)

Next ==
  \/ \E u \in Segment : ~HasProcessed(u) /\ MarkProcessed(u)
  \/ Clear
  \/ \E n \in Sizes : currentSize = 0 /\ Fresh(n)

Spec == Init /\ [][Next]_trackerVars

-----------------------------------------------------------------------------
(* Properties *)

TypeOK ==
  /\ maxSize \in Sizes
  /\ head \in Positions(maxSize)
  /\ currentSize \in 0 .. maxSize
  /\ segments \in [Positions(maxSize) -> Segment \cup {Blank}]
  /\ DOMAIN segmentMap \subseteq Segment
  /\ \A u \in DOMAIN segmentMap : segmentMap[u] \in Positions(maxSize)

\* The map and the buffer agree: a segment is reported as played exactly when
\* it sits in the buffer, at the position the map says.  Without this the map
\* grows for as long as the stream runs, or forgets a segment too early.
MapMatchesBuffer ==
  /\ \A u \in DOMAIN segmentMap : segments[segmentMap[u]] = u
  /\ \A i \in Positions(maxSize) : segments[i] # Blank =>
       segments[i] \in DOMAIN segmentMap /\ segmentMap[segments[i]] = i

\* Positions are filled from zero and stay filled.
FillInv ==
  /\ currentSize < maxSize => head = currentSize
  /\ \A i \in Positions(maxSize) : segments[i] = Blank <=> i >= currentSize

IInv == TypeOK /\ MapMatchesBuffer /\ FillInv

\* The buffer read from its oldest entry is a memory of the most recent
\* segments: the tracker implements RecentSegments.
Recent ==
  INSTANCE RecentSegments WITH
    recent   <- [i \in 1 .. currentSize |-> segments[(head - currentSize + i - 1) % maxSize]],
    capacity <- maxSize
IsRecent == Recent!Spec
=============================================================================
