---------------------------- MODULE DownloadProofs ----------------------------
(***************************************************************************)
(* What the proxy downloads piece by piece: a live playlist's segments and *)
(* the guide's XMLTV documents.                                            *)
(*                                                                         *)
(* First the segment tracker by itself: its map and its circular buffer    *)
(* agree for every capacity and every set of segments, and together they   *)
(* remember exactly the most recent segments (SegmentTracker implements    *)
(* RecentSegments).  Then the HLS loop that uses it: it plays no segment   *)
(* twice and out of order only what had failed, for every length of the    *)
(* playlist that the tracker was made for.  Last GuideFetch: the elements  *)
(* of any documents come out whole, in order and once, however the reads   *)
(* cut them, and the bounded channels hold nobody up for ever.             *)
(***************************************************************************)
EXTENDS HLSStream, GuideFetch, FiniteSetTheorems, WellFoundedInduction, TLAPS


\* The position after head, with and without the wrap-around.
LEMMA NextHead ==
  ASSUME NEW n \in Nat \ {0}, NEW h \in Positions(n)
  PROVE  /\ h + 1 < n => (h + 1) % n = h + 1
         /\ h + 1 = n => (h + 1) % n = 0
         /\ (h + 1) % n \in Positions(n)
  BY DEF Positions

\* A fresh tracker satisfies the invariant.
LEMMA FreshInv ==
  ASSUME NEW n \in Sizes, Fresh(n)
  PROVE  IInv'
  BY SizesAssumption, BlankAssumption DEF Fresh, IInv, TypeOK, MapMatchesBuffer, FillInv,
     Positions, EmptyMap

LEMMA InitInv == Init => IInv
<1> SUFFICES ASSUME NEW n \in Sizes, TrackerInit(n)
             PROVE  IInv
  BY DEF Init
<1> QED
  BY SizesAssumption, BlankAssumption DEF TrackerInit, IInv, TypeOK, MapMatchesBuffer, FillInv,
     Positions, EmptyMap

\* Marking a segment that is not tracked keeps the map and the buffer together.
LEMMA MarkInv ==
  ASSUME IInv, NEW u \in Segment, ~HasProcessed(u), MarkProcessed(u)
  PROVE  IInv'
<1> DEFINE full    == currentSize >= maxSize
           evicted == IF full THEN {segments[head]} \ {Blank} ELSE {}
<1>0. /\ maxSize \in Nat \ {0} /\ head \in Positions(maxSize) /\ currentSize \in 0 .. maxSize
      /\ u # Blank /\ u \notin DOMAIN segmentMap /\ maxSize' = maxSize
      /\ segments' = [segments EXCEPT ![head] = u]
      /\ segments \in [Positions(maxSize) -> Segment \cup {Blank}]
  BY SizesAssumption, BlankAssumption DEF IInv, TypeOK, HasProcessed, MarkProcessed
<1>1. head' \in Positions(maxSize) /\ (head + 1 < maxSize => head' = head + 1)
      /\ (head + 1 = maxSize => head' = 0)
  BY <1>0, NextHead DEF MarkProcessed
<1>2. full => evicted = {segments[head]} /\ segments[head] \in DOMAIN segmentMap
              /\ segmentMap[segments[head]] = head
  BY <1>0 DEF IInv, MapMatchesBuffer, FillInv, Positions
<1>3. ~full => segments[head] = Blank /\ head = currentSize
  BY <1>0 DEF IInv, FillInv, Positions
<1>4. /\ DOMAIN segmentMap' = (DOMAIN segmentMap \ evicted) \cup {u}
      /\ \A v \in DOMAIN segmentMap' :
           segmentMap'[v] = IF v = u THEN head ELSE segmentMap[v]
  BY DEF MarkProcessed
<1>5. TypeOK'
  <2>1. currentSize' \in 0 .. maxSize
    BY <1>0 DEF MarkProcessed
  <2>2. DOMAIN segmentMap' \subseteq Segment
    BY <1>4 DEF IInv, TypeOK
  <2>3. \A v \in DOMAIN segmentMap' : segmentMap'[v] \in Positions(maxSize)
    BY <1>0, <1>4 DEF IInv, TypeOK
  <2>4. segments' \in [Positions(maxSize) -> Segment \cup {Blank}]
    BY <1>0
  <2> QED
    BY <1>0, <1>1, <2>1, <2>2, <2>3, <2>4 DEF IInv, TypeOK
<1>6. MapMatchesBuffer'
  <2>1. ASSUME NEW v \in DOMAIN segmentMap'
        PROVE  segments'[segmentMap'[v]] = v
    <3>1. CASE v = u
      BY <1>0, <1>4, <2>1, <3>1
    <3>2. CASE v # u
      <4>1. v \in DOMAIN segmentMap /\ v \notin evicted /\ segmentMap'[v] = segmentMap[v]
        BY <1>4, <2>1, <3>2
      <4>2. segments[segmentMap[v]] = v /\ segmentMap[v] \in Positions(maxSize) /\ v # Blank
        BY <4>1, BlankAssumption DEF IInv, MapMatchesBuffer, TypeOK
      <4>3. segmentMap[v] # head
        BY <4>1, <4>2, <1>2, <1>3
      <4> QED
        BY <1>0, <4>1, <4>2, <4>3
    <3> QED
      BY <3>1, <3>2
  <2>2. ASSUME NEW i \in Positions(maxSize), segments'[i] # Blank
        PROVE  segments'[i] \in DOMAIN segmentMap' /\ segmentMap'[segments'[i]] = i
    <3>1. CASE i = head
      BY <1>0, <1>4, <3>1
    <3>2. CASE i # head
      <4>1. segments'[i] = segments[i]
        BY <1>0, <3>2
      <4>2. segments[i] \in DOMAIN segmentMap /\ segmentMap[segments[i]] = i
        BY <2>2, <4>1 DEF IInv, MapMatchesBuffer
      <4>3. segments[i] \notin evicted
        BY <4>2, <3>2, <1>2
      <4>4. segments[i] # u
        BY <4>2, <1>0
      <4> QED
        BY <4>1, <4>2, <4>3, <4>4, <1>4
    <3> QED
      BY <3>1, <3>2
  <2> QED
    BY <1>0, <2>1, <2>2 DEF MapMatchesBuffer
<1>7. FillInv'
  <2>1. CASE full
    BY <1>0, <1>1, <2>1 DEF IInv, FillInv, MarkProcessed, Positions
  <2>2. CASE ~full
    BY <1>0, <1>1, <1>3, <2>2 DEF IInv, FillInv, MarkProcessed, Positions
  <2> QED
    BY <2>1, <2>2
<1> QED
  BY <1>5, <1>6, <1>7 DEF IInv

LEMMA NextInv == IInv /\ [Next]_trackerVars => IInv'
<1> SUFFICES ASSUME IInv, [Next]_trackerVars PROVE IInv'
  OBVIOUS
<1>1. CASE UNCHANGED trackerVars
  BY <1>1 DEF trackerVars, IInv, TypeOK, MapMatchesBuffer, FillInv
<1>2. CASE Clear
  BY <1>2, FreshInv DEF Clear, IInv, TypeOK
<1>3. ASSUME NEW n \in Sizes, Fresh(n) PROVE IInv'
  BY <1>3, FreshInv
<1>4. ASSUME NEW u \in Segment, ~HasProcessed(u), MarkProcessed(u) PROVE IInv'
  BY <1>4, MarkInv
<1> QED
  BY <1>1, <1>2, <1>3, <1>4 DEF Next

\* The inductive invariant holds in every reachable state.
THEOREM Invariance == Spec => []IInv
  BY InitInv, NextInv, PTL DEF Spec

\* Every variable of the tracker keeps its type.
THEOREM TypeCorrect == Spec => []TypeOK
<1>1. IInv => TypeOK
  BY DEF IInv
<1> QED
  BY <1>1, Invariance, PTL

\* HasProcessed answers from the map exactly what the buffer holds.
THEOREM LookupCorrect == Spec => []MapMatchesBuffer
<1>1. IInv => MapMatchesBuffer
  BY DEF IInv
<1> QED
  BY <1>1, Invariance, PTL

-----------------------------------------------------------------------------
(* Refinement *)

\* A position before the start of the buffer is counted from its end.
LEMMA ModAround ==
  ASSUME NEW n \in Nat \ {0}, NEW x \in -n .. n - 1
  PROVE  x % n = IF x >= 0 THEN x ELSE x + n
<1>1. CASE x >= 0
  BY <1>1
<1>2. CASE x < 0
  BY <1>2
<1> QED
  BY <1>1, <1>2

\* The buffer read from its oldest entry, given its state explicitly.
Read(segs, h, size, n) == [i \in 1 .. size |-> segs[(h - size + i - 1) % n]]

\* The position of the i-th oldest entry, without the modulus.
At(h, size, n, i) ==
  IF size < n THEN i - 1 ELSE IF h + i - 1 < n THEN h + i - 1 ELSE h + i - 1 - n

Entry == Segment \cup {Blank}

\* Read goes through the positions At, and is a sequence.
LEMMA ReadAt ==
  ASSUME NEW n \in Nat \ {0}, NEW h \in Positions(n), NEW size \in 0 .. n,
         size < n => h = size, NEW segs \in [Positions(n) -> Entry]
  PROVE  /\ Read(segs, h, size, n) \in Seq(Entry)
         /\ Len(Read(segs, h, size, n)) = size
         /\ \A i \in 1 .. size : /\ At(h, size, n, i) \in Positions(n)
                                 /\ Read(segs, h, size, n)[i] = segs[At(h, size, n, i)]
<1>1. ASSUME NEW i \in 1 .. size
      PROVE  /\ (h - size + i - 1) % n = At(h, size, n, i)
             /\ At(h, size, n, i) \in Positions(n)
  <2> DEFINE x == h - size + i - 1
  <2>1. x \in -n .. n - 1
    BY DEF Positions
  <2>2. x % n = IF x >= 0 THEN x ELSE x + n
    <3> HIDE DEF x
    <3> QED BY <2>1, ModAround
  <2> QED
    BY <2>2 DEF Positions, At
<1>2. \A i \in 1 .. size : segs[At(h, size, n, i)] \in Entry
  BY <1>1
<1> DEFINE r == Read(segs, h, size, n)
<1>3. /\ DOMAIN r = 1 .. size
      /\ \A i \in 1 .. size : r[i] = segs[At(h, size, n, i)]
  BY <1>1 DEF Read
<1>4. r = [i \in 1 .. size |-> r[i]]
  BY DEF Read
<1>5. r \in [1 .. size -> Entry]
  BY <1>2, <1>3, <1>4
<1> HIDE DEF r
<1>6. r \in Seq(Entry) /\ Len(r) = size
  BY <1>3, <1>5
<1> QED
  BY <1>1, <1>3, <1>6 DEF r

\* Writing at the head appends to what is read, and drops the oldest entry
\* when the buffer was full.
LEMMA ReadMark ==
  ASSUME NEW n \in Nat \ {0}, NEW h \in Positions(n), NEW size \in 0 .. n,
         size < n => h = size, NEW segs \in [Positions(n) -> Entry], NEW u \in Entry
  PROVE  Read([segs EXCEPT ![h] = u], IF h + 1 < n THEN h + 1 ELSE 0,
              IF size >= n THEN size ELSE size + 1, n)
           = Append(IF size < n THEN Read(segs, h, size, n) ELSE Tail(Read(segs, h, size, n)), u)
<1> DEFINE segs2 == [segs EXCEPT ![h] = u]
           h2    == IF h + 1 < n THEN h + 1 ELSE 0
           size2 == IF size >= n THEN size ELSE size + 1
           r  == Read(segs, h, size, n)
           r2 == Read(segs2, h2, size2, n)
<1>1. /\ h2 \in Positions(n) /\ size2 \in 0 .. n /\ (size2 < n => h2 = size2)
      /\ segs2 \in [Positions(n) -> Entry]
  BY DEF Positions
<1>2. /\ r \in Seq(Entry) /\ Len(r) = size
      /\ \A i \in 1 .. size : /\ At(h, size, n, i) \in Positions(n)
                              /\ r[i] = segs[At(h, size, n, i)]
  BY ReadAt
<1>3. /\ r2 \in Seq(Entry) /\ Len(r2) = size2
      /\ \A i \in 1 .. size2 : /\ At(h2, size2, n, i) \in Positions(n)
                               /\ r2[i] = segs2[At(h2, size2, n, i)]
  <2> HIDE DEF segs2, h2, size2
  <2> QED BY <1>1, ReadAt
<1>4. \A j \in Positions(n) : segs2[j] = IF j = h THEN u ELSE segs[j]
  OBVIOUS
<1> HIDE DEF segs2, r, r2
<1>5. CASE size < n
  <2>1. ASSUME NEW i \in 1 .. size PROVE r2[i] = r[i]
    <3>1. At(h2, size2, n, i) = i - 1 /\ At(h, size, n, i) = i - 1 /\ i - 1 # h
      BY <1>5, <1>1 DEF At, Positions
    <3> QED
      BY <1>2, <1>3, <1>4, <1>5, <3>1
  <2>2. r2[size + 1] = u
    <3>1. At(h2, size2, n, size + 1) = h
      BY <1>5, <1>1 DEF At, Positions
    <3> QED
      BY <1>3, <1>4, <1>5, <3>1
  <2>3. r2 = Append(r, u)
    BY <1>2, <1>3, <1>5, <2>1, <2>2
  <2> QED
    BY <1>5, <2>3 DEF r, r2, segs2
<1>6. CASE size = n
  <2>1. ASSUME NEW i \in 1 .. n - 1 PROVE r2[i] = r[i + 1]
    <3>1. At(h2, size2, n, i) = At(h, size, n, i + 1) /\ At(h, size, n, i + 1) # h
      BY <1>6 DEF At, Positions
    <3> QED
      BY <1>2, <1>3, <1>4, <1>6, <3>1
  <2>2. r2[n] = u
    <3>1. At(h2, size2, n, n) = h
      BY <1>6 DEF At, Positions
    <3> QED
      BY <1>3, <1>4, <1>6, <3>1
  <2>3. /\ Tail(r) \in Seq(Entry) /\ Len(Tail(r)) = n - 1
        /\ \A i \in 1 .. n - 1 : Tail(r)[i] = r[i + 1]
    BY <1>2, <1>6
  <2>4. r2 = Append(Tail(r), u)
    <3> DEFINE t == Tail(r)
    <3>1. t \in Seq(Entry) /\ Len(t) = n - 1 /\ \A i \in 1 .. n - 1 : t[i] = r2[i]
      BY <2>1, <2>3
    <3> HIDE DEF t
    <3>2. r2 = Append(t, u)
      BY <1>3, <1>6, <2>2, <3>1
    <3> QED BY <3>2 DEF t
  <2>5. r2 = Append(IF size < n THEN r ELSE Tail(r), u)
    BY <1>6, <2>4
  <2> QED
    BY <2>5 DEF r, r2, segs2
<1>7. size < n \/ size = n
  OBVIOUS
<1> QED
  BY <1>5, <1>6, <1>7

LEMMA MarkRefines ==
  ASSUME IInv, NEW u \in Segment, ~HasProcessed(u), MarkProcessed(u)
  PROVE  Recent!Remember(u)
<1> DEFINE r == Read(segments, head, currentSize, maxSize)
<1>1. /\ maxSize \in Nat \ {0} /\ head \in Positions(maxSize) /\ currentSize \in 0 .. maxSize
      /\ currentSize < maxSize => head = currentSize
      /\ segments \in [Positions(maxSize) -> Entry]
  BY SizesAssumption DEF IInv, TypeOK, FillInv, Entry
<1>2. /\ maxSize' = maxSize /\ segments' = [segments EXCEPT ![head] = u]
      /\ currentSize' = IF currentSize >= maxSize THEN currentSize ELSE currentSize + 1
      /\ head' = (head + 1) % maxSize
  BY DEF MarkProcessed
<1>3. head' = IF head + 1 < maxSize THEN head + 1 ELSE 0
  <2>1. head + 1 < maxSize \/ head + 1 = maxSize
    BY <1>1 DEF Positions
  <2>2. /\ head + 1 < maxSize => (head + 1) % maxSize = head + 1
        /\ head + 1 = maxSize => (head + 1) % maxSize = 0
    BY <1>1, NextHead
  <2>3. ~(head + 1 = maxSize /\ head + 1 < maxSize)
    BY <1>1
  <2> QED
    BY <1>2, <2>1, <2>2, <2>3
<1>4. r \in Seq(Entry) /\ Len(r) = currentSize
      /\ \A i \in 1 .. currentSize : /\ At(head, currentSize, maxSize, i) \in Positions(maxSize)
                                     /\ r[i] = segments[At(head, currentSize, maxSize, i)]
  BY <1>1, ReadAt
<1>5. \A i \in Positions(maxSize) : segments[i] # u
  BY BlankAssumption DEF IInv, MapMatchesBuffer, HasProcessed
<1>6. \A i \in 1 .. Len(r) : r[i] # u
  <2> HIDE DEF r
  <2> QED BY <1>4, <1>5
<1>7. Read(segments', head', currentSize', maxSize')
        = Append(IF currentSize < maxSize THEN r ELSE Tail(r), u)
  <2>1. u \in Entry
    BY DEF Entry
  <2>2. Read([segments EXCEPT ![head] = u], IF head + 1 < maxSize THEN head + 1 ELSE 0,
             IF currentSize >= maxSize THEN currentSize ELSE currentSize + 1, maxSize)
          = Append(IF currentSize < maxSize THEN r ELSE Tail(r), u)
    BY <1>1, <2>1, ReadMark
  <2> QED
    BY <1>2, <1>3, <2>2
<1>8. Read(segments', head', currentSize', maxSize')
        = Append(IF Len(r) < maxSize THEN r ELSE Tail(r), u)
  BY <1>4, <1>7
<1> QED
  BY <1>2, <1>6, <1>8 DEF Recent!Remember, Read

\* The tracker implements the abstract memory of recent segments: every step
\* of the circular buffer remembers one segment, forgets everything or leaves
\* the memory as it is.
THEOREM Refinement == Spec => IsRecent
<1>1. Init => Recent!Init
  BY DEF Init, TrackerInit, Recent!Init
<1>2. IInv /\ [Next]_trackerVars => Recent!Next \/ UNCHANGED <<Read(segments, head, currentSize, maxSize), maxSize>>
  <2> SUFFICES ASSUME IInv, [Next]_trackerVars
               PROVE  Recent!Next \/ UNCHANGED <<Read(segments, head, currentSize, maxSize), maxSize>>
    OBVIOUS
  <2>1. CASE UNCHANGED trackerVars
    BY <2>1 DEF trackerVars, Read
  <2>2. ASSUME NEW n \in Sizes, Fresh(n) PROVE Recent!Forget
    BY <2>2 DEF Fresh, Recent!Forget
  <2>3. CASE Clear
    <3>1. maxSize \in Sizes
      BY DEF IInv, TypeOK
    <3>2. Fresh(maxSize)
      BY <2>3 DEF Clear
    <3>3. Recent!Forget
      BY <2>2, <3>1, <3>2
    <3>4. Recent!Next
      BY <3>3 DEF Recent!Next
    <3> QED
      BY <3>4
  <2>4. ASSUME NEW u \in Segment, ~HasProcessed(u), MarkProcessed(u)
        PROVE  Recent!Remember(u)
    BY <2>4, MarkRefines
  <2>5. ASSUME NEW u \in Segment, ~HasProcessed(u), MarkProcessed(u)
        PROVE  Recent!Next
    BY <2>4, <2>5 DEF Recent!Next
  <2>6. ASSUME NEW n \in Sizes, Fresh(n) PROVE Recent!Next
    BY <2>2, <2>6 DEF Recent!Next
  <2> QED
    <3>1. CASE \E u \in Segment : ~HasProcessed(u) /\ MarkProcessed(u)
      BY <2>5, <3>1
    <3>2. CASE \E n \in Sizes : currentSize = 0 /\ Fresh(n)
      BY <2>6, <3>2
    <3> QED
      BY <2>1, <2>3, <3>1, <3>2 DEF Next
<1>3. IInv /\ [Next]_trackerVars =>
        [Recent!Next]_<<[i \in 1 .. currentSize |->
                           segments[(head - currentSize + i - 1) % maxSize]], maxSize>>
  BY <1>2 DEF Read
<1> QED
  BY <1>1, <1>3, Invariance, PTL DEF Spec, IsRecent, Recent!Spec

-----------------------------------------------------------------------------
(* The tracker in the loop                                                 *)

BaseInv == HLSTypeOK /\ IInv /\ RangeInv

LEMMA BaseInit == HLSInit => BaseInv
<1> SUFFICES ASSUME HLSInit
             PROVE  BaseInv
  OBVIOUS
<1>1. IInv
  BY HLSAssumption, InitInv DEF HLSInit, Init
<1>2. HLSTypeOK /\ RangeInv
  <2>1. newest \in 0 .. MaxSeq
    BY HLSAssumption DEF HLSInit
  <2>2. MaxErrors \in Nat /\ MaxEmpty \in Nat /\ MaxSeq \in Nat
    BY HLSAssumption
  <2> QED
    <3>1. sent \in Seq([segment : Segment, done : BOOLEAN])
      BY DEF HLSInit
    <3>2. isFirstFetch \in BOOLEAN /\ anyNew \in BOOLEAN
      BY Zenon DEF HLSInit
    <3> QED
      BY <2>1, <2>2, <3>1, <3>2 DEF HLSInit, HLSTypeOK, RangeInv
<1> QED
  BY <1>1, <1>2 DEF BaseInv

\* The loop marks a segment that is not marked, and replaces the tracker while it is
\* empty: as SegmentTracker allows.
LEMMA LoopUsesTracker ==
  ASSUME BaseInv, [HLSNext]_vars
  PROVE  [Next]_trackerVars
<1>1. CASE UNCHANGED trackerVars
  BY <1>1
<1>2. CASE Fetch /\ ~UNCHANGED trackerVars
  <2> DEFINE n == newest - oldest + 1
  <2>1. currentSize = 0 /\ n > maxSize \div 2 /\ Fresh(2 * n)
    BY <1>2 DEF Fetch
  <2>2. oldest \in Nat /\ newest \in 0 .. MaxSeq /\ oldest \in 1 .. newest + 1 /\ maxSize \in Nat \ {0}
    BY SizesAssumption DEF BaseInv, HLSTypeOK, RangeInv, IInv, TypeOK
  <2>3. n \in 1 .. MaxSeq
    BY <2>1, <2>2, HLSAssumption
  <2> HIDE DEF n
  <2>4. 2 * n \in Sizes
    BY <2>3, HLSAssumption
  <2> QED
    BY <2>1, <2>4 DEF Next
<1>3. CASE HoldBack \/ Play
  <2>1. ~HasProcessed(cur) /\ MarkProcessed(cur) /\ cur <= last
    BY <1>3 DEF HoldBack, Play
  <2>2. cur \in Segment
    BY <2>1, HLSAssumption DEF BaseInv, HLSTypeOK
  <2> QED
    BY <2>1, <2>2 DEF Next
<1> QED
  BY <1>1, <1>2, <1>3 DEF HLSNext, Loop, Publish, Quit, Fetch, SkipProcessed, SegmentFails, EndRound, Refresh, Stall, vars

LEMMA BaseNext == BaseInv /\ [HLSNext]_vars => BaseInv'
<1> SUFFICES ASSUME BaseInv, [HLSNext]_vars
             PROVE  BaseInv'
  OBVIOUS
<1> USE HLSAssumption
<1>0. HLSTypeOK /\ RangeInv
  BY DEF BaseInv
<1>1. IInv'
  BY LoopUsesTracker, NextInv DEF BaseInv
<1>2. ASSUME Publish PROVE HLSTypeOK' /\ RangeInv'
  BY <1>0, <1>2 DEF Publish, HLSTypeOK, RangeInv, roundVars, histVars
<1>3. ASSUME Fetch PROVE HLSTypeOK' /\ RangeInv'
  <2>1. isFirstFetch' \in BOOLEAN /\ anyNew' \in BOOLEAN
    BY <1>3, Zenon DEF Fetch
  <2>2. pc' = "segment" /\ cur' = oldest /\ last' = newest /\ errors' = 0 /\ UNCHANGED <<oldest, newest, sent, emptyRefreshes>>
    BY <1>3 DEF Fetch, sourceVars, histVars
  <2> QED
    BY <1>0, <2>1, <2>2 DEF HLSTypeOK, RangeInv
<1>4. ASSUME SkipProcessed \/ HoldBack PROVE HLSTypeOK' /\ RangeInv'
  <2>1. /\ pc = "segment" /\ cur <= last /\ cur' = cur + 1
        /\ UNCHANGED <<oldest, newest, last, isFirstFetch, sent, pc, errors, anyNew, emptyRefreshes>>
    BY <1>4 DEF SkipProcessed, HoldBack, sourceVars, roundVars, histVars
  <2> QED
    BY <1>0, <2>1 DEF HLSTypeOK, RangeInv
<1>5. ASSUME Play \/ SegmentFails
      PROVE  sent' \in Seq([segment : Segment, done : BOOLEAN])
  <2>0. cur <= last
    BY <1>5 DEF Play, SegmentFails
  <2>1. cur \in Segment
    BY <1>0, <2>0 DEF HLSTypeOK
  <2>2. ASSUME NEW d \in BOOLEAN, Sends(d)
        PROVE  sent' \in Seq([segment : Segment, done : BOOLEAN])
    BY <1>0, <2>1, <2>2 DEF Sends, HLSTypeOK
  <2> QED
    BY <1>0, <1>5, <2>2 DEF Play, SegmentFails, FailsAfter, HLSTypeOK
<1>6. ASSUME Play \/ SegmentFails PROVE HLSTypeOK' /\ RangeInv'
  <2>1. CASE Play
    <3>1. /\ pc = "segment" /\ cur <= last /\ cur' = cur + 1 /\ anyNew' = TRUE /\ emptyRefreshes' = 0
          /\ UNCHANGED <<oldest, newest, last, isFirstFetch, pc, errors>>
      BY <2>1 DEF Play, sourceVars, roundVars
    <3> QED
      BY <1>0, <1>5, <2>1, <3>1 DEF HLSTypeOK, RangeInv
  <2>2. CASE SegmentFails
    <3>1. /\ pc = "segment" /\ cur <= last /\ errors' = errors + 1
          /\ \/ pc' = "done" /\ cur' = cur
             \/ errors' <= MaxErrors /\ cur' = cur + 1 /\ pc' = pc
          /\ UNCHANGED <<oldest, newest, last, isFirstFetch, anyNew, emptyRefreshes>>
      BY <2>2 DEF SegmentFails, sourceVars, roundVars
    <3> QED
      BY <1>0, <1>5, <2>2, <3>1 DEF HLSTypeOK, RangeInv
  <2> QED
    BY <1>6, <2>1, <2>2
<1>7. ASSUME EndRound PROVE HLSTypeOK' /\ RangeInv'
  BY <1>0, <1>7 DEF EndRound, HLSTypeOK, RangeInv, sourceVars, roundVars, histVars
<1>8. ASSUME Quit \/ Stall \/ Refresh PROVE HLSTypeOK' /\ RangeInv'
  BY <1>0, <1>8 DEF Quit, Stall, Refresh, HLSTypeOK, RangeInv, sourceVars, roundVars, histVars
<1>9. ASSUME UNCHANGED vars PROVE HLSTypeOK' /\ RangeInv'
  BY <1>0, <1>9 DEF vars, HLSTypeOK, RangeInv, sourceVars, roundVars, histVars
<1>10. HLSTypeOK' /\ RangeInv'
  BY <1>2, <1>3, <1>4, <1>6, <1>7, <1>8, <1>9 DEF HLSNext, Loop
<1> QED
  BY <1>1, <1>10 DEF BaseInv

THEOREM LoopTyped == HLSSpec => []BaseInv
  BY BaseInit, BaseNext, PTL DEF HLSSpec

\* The loop's tracker is SegmentTracker at work, so it remembers the most recent segments.
THEOREM LoopRemembers == HLSSpec => IsRecent
<1>1. HLSInit => Init
  BY HLSAssumption DEF HLSInit, Init
<1>2. BaseInv /\ [HLSNext]_vars => [Next]_trackerVars
  BY LoopUsesTracker
<1>3. HLSSpec => Spec
  BY <1>1, <1>2, LoopTyped, PTL DEF HLSSpec, Spec
<1> QED
  BY <1>3, Refinement, PTL

-----------------------------------------------------------------------------
(* What the tracker remembers                                              *)

\* The memory holds different segments, all of them marked; a full tracker forgets the first.
LEMMA MemoryIs ==
  ASSUME IInv
  PROVE  /\ memory \in Seq(Entry) /\ Len(memory) = currentSize /\ currentSize \in Nat
         /\ \A i \in 1 .. currentSize : memory[i] \in DOMAIN segmentMap /\ memory[i] \in Segment
         /\ \A i, j \in 1 .. currentSize : memory[i] = memory[j] => i = j
         /\ currentSize = maxSize => segments[head] = memory[1]
<1>1. /\ maxSize \in Nat \ {0} /\ head \in Positions(maxSize) /\ currentSize \in 0 .. maxSize
      /\ currentSize < maxSize => head = currentSize
      /\ segments \in [Positions(maxSize) -> Entry]
  BY SizesAssumption DEF IInv, TypeOK, FillInv, Entry
<1>2. memory = Read(segments, head, currentSize, maxSize)
  BY DEF memory, Read
<1>3. /\ memory \in Seq(Entry) /\ Len(memory) = currentSize
      /\ \A i \in 1 .. currentSize : /\ At(head, currentSize, maxSize, i) \in Positions(maxSize)
                                     /\ memory[i] = segments[At(head, currentSize, maxSize, i)]
  BY <1>1, <1>2, ReadAt
<1>4. \A i \in 1 .. currentSize : At(head, currentSize, maxSize, i) < currentSize
  BY <1>1 DEF At, Positions
<1>5. \A i \in 1 .. currentSize :
        memory[i] \in DOMAIN segmentMap /\ segmentMap[memory[i]] = At(head, currentSize, maxSize, i)
  <2> SUFFICES ASSUME NEW i \in 1 .. currentSize
               PROVE  memory[i] \in DOMAIN segmentMap /\ segmentMap[memory[i]] = At(head, currentSize, maxSize, i)
    OBVIOUS
  <2> DEFINE p == At(head, currentSize, maxSize, i)
  <2>1. p \in Positions(maxSize) /\ p < currentSize /\ memory[i] = segments[p]
    BY <1>3, <1>4
  <2> HIDE DEF p
  <2>2. p \in Int
    BY <1>1, <2>1 DEF Positions
  <2>3. segments[p] # Blank
    BY <1>1, <2>1, <2>2 DEF IInv, FillInv
  <2>4. memory[i] \in DOMAIN segmentMap /\ segmentMap[memory[i]] = p
    BY <2>1, <2>3 DEF IInv, MapMatchesBuffer
  <2> QED
    BY <2>4 DEF p
<1>6. \A i, j \in 1 .. currentSize :
        At(head, currentSize, maxSize, i) = At(head, currentSize, maxSize, j) => i = j
  BY <1>1 DEF At, Positions
<1>7. \A i \in 1 .. currentSize : memory[i] \in Segment
  BY <1>5 DEF IInv, TypeOK
<1>8. \A i, j \in 1 .. currentSize : memory[i] = memory[j] => i = j
  BY <1>5, <1>6
<1>9. currentSize = maxSize => segments[head] = memory[1]
  <2> SUFFICES ASSUME currentSize = maxSize
               PROVE  segments[head] = memory[1]
    OBVIOUS
  <2>1. 1 \in 1 .. currentSize /\ At(head, currentSize, maxSize, 1) = head
    BY <1>1 DEF At, Positions
  <2> QED
    BY <1>3, <2>1
<1> QED
  BY <1>1, <1>3, <1>5, <1>7, <1>8, <1>9

LEMMA MarkMemory ==
  ASSUME IInv, NEW u \in Segment, ~HasProcessed(u), MarkProcessed(u)
  PROVE  /\ memory' = Append(IF currentSize < maxSize THEN memory ELSE Tail(memory), u)
         /\ DOMAIN segmentMap' = (DOMAIN segmentMap \cup {u})
                                 \ (IF currentSize < maxSize THEN {} ELSE {memory[1]})
<1>1. /\ currentSize \in 0 .. maxSize /\ maxSize \in Nat /\ Len(memory) = currentSize
      /\ currentSize = maxSize => segments[head] = memory[1] /\ memory[1] # Blank /\ memory[1] # u
  <2>1. currentSize \in 0 .. maxSize /\ maxSize \in Nat \ {0}
    BY SizesAssumption DEF IInv, TypeOK
  <2>2. currentSize = maxSize => segments[head] = memory[1] /\ memory[1] \in Segment /\ memory[1] \in DOMAIN segmentMap
    BY <2>1, MemoryIs
  <2> QED
    BY <2>1, <2>2, MemoryIs, BlankAssumption DEF HasProcessed
<1>2. memory' = Append(IF Len(memory) < maxSize THEN memory ELSE Tail(memory), u)
  BY MarkRefines DEF memory, Recent!Remember
<1>3. DOMAIN segmentMap' = (DOMAIN segmentMap \ (IF currentSize >= maxSize THEN {segments[head]} \ {Blank} ELSE {})) \cup {u}
  BY DEF MarkProcessed
<1>4. DOMAIN segmentMap' = (DOMAIN segmentMap \cup {u}) \ (IF currentSize < maxSize THEN {} ELSE {memory[1]})
  <2>1. CASE currentSize < maxSize
    BY <1>1, <1>3, <2>1
  <2>2. CASE currentSize = maxSize
    BY <1>1, <1>3, <2>2
  <2> QED
    BY <1>1, <2>1, <2>2
<1> QED
  BY <1>1, <1>2, <1>4

\* More than 2 * w - 1 different numbers do not fit within the reach w of one of them.
LEMMA Crowd ==
  ASSUME NEW n \in Nat, NEW w \in Nat \ {0}, n > 2 * w - 1, NEW v \in Int, NEW f,
         \A i \in 1 .. n : f[i] \in Int /\ f[i] < v + w /\ v < f[i] + w,
         \A i, j \in 1 .. n : f[i] = f[j] => i = j
  PROVE  FALSE
<1> DEFINE S == 1 .. n
           T == v - w + 1 .. v + w - 1
           g == [i \in S |-> f[i]]
<1>1. IsFiniteSet(S) /\ Cardinality(S) = n
  BY FS_Interval
<1>2. IsFiniteSet(T) /\ Cardinality(T) = 2 * w - 1
  <2>1. v - w + 1 \in Int /\ v + w - 1 \in Int /\ v - w + 1 <= v + w - 1
    OBVIOUS
  <2>2. IsFiniteSet(T) /\ Cardinality(T) = (v + w - 1) - (v - w + 1) + 1
    BY <2>1, FS_Interval
  <2> QED
    BY <2>2
<1>3. g \in [S -> T]
  OBVIOUS
<1>4. \A i, j \in S : g[i] = g[j] => i = j
  OBVIOUS
<1> HIDE DEF S, T, g
<1>5. Cardinality(T) < Cardinality(S)
  BY <1>1, <1>2
<1> QED
  BY <1>1, <1>2, <1>3, <1>4, <1>5, FS_PigeonHole

\* A marked segment that is still of use is not forgotten.
LEMMA KeepsAlive ==
  ASSUME BaseInv, WindowInv, RoomInv, MemoryInv, pc = "segment", cur <= last, ~HasProcessed(cur),
         MarkProcessed(cur), NEW v, HasProcessed(v), Alive(v)
  PROVE  HasProcessed(v)'
<1> SUFFICES ASSUME ~HasProcessed(v)'
             PROVE  FALSE
  OBVIOUS
<1>0. /\ cur \in Segment /\ cur \in Nat /\ last \in Nat /\ MaxWindow \in Nat \ {0} /\ oldest \in Nat /\ newest \in Nat
      /\ \A u \in Segment : u \in Int
  BY HLSAssumption DEF BaseInv, HLSTypeOK
<1>1. /\ maxSize \in Nat \ {0} /\ currentSize \in 0 .. maxSize /\ maxSize >= 2 * MaxWindow - 1
  BY SizesAssumption DEF BaseInv, IInv, TypeOK, RoomInv
<1>2. currentSize = maxSize /\ v = memory[1]
  <2>1. DOMAIN segmentMap' = (DOMAIN segmentMap \cup {cur})
                               \ (IF currentSize < maxSize THEN {} ELSE {memory[1]})
    BY <1>0, MarkMemory DEF BaseInv
  <2>2. v \in DOMAIN segmentMap /\ v \notin DOMAIN segmentMap'
    BY DEF HasProcessed
  <2>3. ~(currentSize < maxSize)
    BY <2>1, <2>2
  <2>4. v = memory[1]
    BY <2>1, <2>2
  <2> QED
    BY <1>1, <2>3, <2>4
<1>3. \A i \in 1 .. maxSize : memory[i] \in Int /\ memory[i] < v + MaxWindow /\ v < memory[i] + MaxWindow
  <2>1. \A i \in 1 .. maxSize : memory[i] \in Segment
    BY <1>2, MemoryIs DEF BaseInv
  <2>2. 1 \in 1 .. maxSize
    BY <1>1
  <2>3. \A i \in 1 .. maxSize : 1 < i => memory[i] < v + MaxWindow /\ v < memory[i] + MaxWindow
    BY <1>2, <2>2 DEF MemoryInv
  <2>4. ASSUME NEW i \in 1 .. maxSize
        PROVE  memory[i] \in Int /\ memory[i] < v + MaxWindow /\ v < memory[i] + MaxWindow
    <3>1. memory[i] \in Int /\ v \in Int
      BY <1>0, <1>2, <2>1, <2>2
    <3>2. CASE i = 1
      BY <1>0, <1>2, <3>1, <3>2
    <3>3. CASE 1 < i
      BY <2>3, <3>1, <3>3
    <3> QED
      BY <3>2, <3>3
  <2> QED
    BY <2>4
<1>4. cur < v + MaxWindow /\ v < cur + MaxWindow
  <2>1. v <= last /\ v \in Int
    BY <1>1, <1>2, <1>3 DEF MemoryInv
  <2>2. last < oldest + MaxWindow /\ last < cur + MaxWindow
    BY <1>0 DEF BaseInv, RangeInv, WindowInv
  <2> QED
    BY <1>0, <2>1, <2>2 DEF Alive
<1> DEFINE f == [i \in 1 .. maxSize + 1 |-> IF i <= maxSize THEN memory[i] ELSE cur]
<1>5. \A i \in 1 .. maxSize : memory[i] # cur
  BY <1>2, MemoryIs DEF BaseInv, HasProcessed
<1>6. \A i \in 1 .. maxSize + 1 : f[i] \in Int /\ f[i] < v + MaxWindow /\ v < f[i] + MaxWindow
  BY <1>0, <1>1, <1>3, <1>4
<1>7. \A i, j \in 1 .. maxSize + 1 : f[i] = f[j] => i = j
  <2>1. \A i, j \in 1 .. maxSize : memory[i] = memory[j] => i = j
    BY <1>2, MemoryIs DEF BaseInv
  <2> QED
    BY <1>1, <1>5, <2>1
<1>8. v \in Int
  BY <1>1, <1>2, <1>3
<1> HIDE DEF f
<1>9. maxSize + 1 \in Nat /\ maxSize + 1 > 2 * MaxWindow - 1
  BY <1>0, <1>1
<1> QED
  BY <1>0, <1>6, <1>7, <1>8, <1>9, Crowd

-----------------------------------------------------------------------------
(* What was sent is not sent again                                         *)

PlayInv == WindowInv /\ RoomInv /\ MemoryInv /\ SentInv /\ NoReplay /\ OnlyRetriesReorder

\* A segment that is of use after a step was of use before it.
StillAlive(u) == u >= oldest' \/ (pc' = "segment" /\ u >= cur')

LEMMA AliveBefore ==
  ASSUME BaseInv, [HLSNext]_vars, NEW u \in Int, StillAlive(u)
  PROVE  Alive(u)
<1>1. oldest \in Nat /\ cur \in Nat
  BY DEF BaseInv, HLSTypeOK
<1>2. CASE Fetch
  BY <1>2 DEF Fetch, Alive, StillAlive, sourceVars
<1>3. CASE Publish
  BY <1>1, <1>3 DEF Publish, Alive, StillAlive
<1>4. CASE SkipProcessed \/ HoldBack \/ Play \/ SegmentFails
  <2>1. pc = "segment" /\ oldest' = oldest /\ cur' \in {cur, cur + 1}
    BY <1>4 DEF SkipProcessed, HoldBack, Play, SegmentFails, sourceVars
  <2> QED
    BY <1>1, <2>1 DEF Alive, StillAlive
<1>5. CASE EndRound \/ Refresh \/ Quit \/ Stall \/ UNCHANGED vars
  BY <1>5 DEF EndRound, Refresh, Quit, Stall, vars, Alive, StillAlive, sourceVars
<1> QED
  BY <1>2, <1>3, <1>4, <1>5 DEF HLSNext, Loop

LEMMA WindowNext ==
  ASSUME BaseInv, BaseInv', WindowInv, RoomInv, ~Grows, [HLSNext]_vars
  PROVE  WindowInv' /\ RoomInv'
<1>0. /\ MaxWindow \in Nat \ {0} /\ TrackerSize \in Nat \ {0}
      /\ oldest \in Nat /\ newest \in Nat /\ last \in Nat /\ cur \in Nat /\ maxSize \in Nat \ {0} /\ currentSize \in 0 .. maxSize
      /\ oldest \in 1 .. newest + 1 /\ last <= newest
  BY HLSAssumption, SizesAssumption DEF BaseInv, HLSTypeOK, RangeInv, IInv, TypeOK
<1>1. CASE Publish
  <2>1. newest' = newest + 1 /\ oldest' = IF newest' - oldest >= MaxWindow THEN oldest + 1 ELSE oldest
    BY <1>1 DEF Publish
  <2>2. UNCHANGED <<maxSize, currentSize, pc, cur, last>>
    BY <1>1 DEF Publish, trackerVars, roundVars
  <2> QED
    BY <1>0, <2>1, <2>2 DEF WindowInv, RoomInv
<1>2. CASE Fetch
  <2>1. pc' = "segment" /\ cur' = oldest /\ last' = newest /\ UNCHANGED <<oldest, newest>>
    BY <1>2 DEF Fetch, sourceVars
  <2>2. WindowInv'
    BY <1>0, <2>1 DEF WindowInv
  <2> DEFINE n == newest - oldest + 1
  <2>3. CASE currentSize = 0 /\ n > maxSize \div 2 /\ Fresh(2 * n)
    <3>1. maxSize' = 2 * n /\ currentSize' = 0
      BY <2>3 DEF Fresh
    <3>2. n \in Nat /\ 2 * n >= maxSize
      BY <1>0, <2>3
    <3>3. TrackerSize < 2 * MaxWindow - 1 => n = MaxWindow
      BY <1>0 DEF RoomInv
    <3> HIDE DEF n
    <3>4. 2 * n >= TrackerSize
      BY <1>0, <3>2 DEF RoomInv
    <3>5. 2 * n >= 2 * MaxWindow - 1
      BY <1>0, <3>2, <3>3, <3>4
    <3> QED
      BY <2>1, <2>2, <3>1, <3>4, <3>5 DEF RoomInv
  <2>4. CASE ~(currentSize = 0 /\ n > maxSize \div 2) /\ UNCHANGED trackerVars
    <3>1. UNCHANGED <<maxSize, currentSize>>
      BY <2>4 DEF trackerVars
    <3>2. maxSize >= 2 * MaxWindow - 1
      <4>1. CASE currentSize > 0
        BY <4>1 DEF RoomInv
      <4>2. CASE n <= maxSize \div 2
        <5>1. TrackerSize < 2 * MaxWindow - 1 => n = MaxWindow
          BY <1>0 DEF RoomInv
        <5>2. n \in Int /\ 2 * n <= maxSize
          BY <1>0, <4>2
        <5> HIDE DEF n
        <5> QED
          BY <1>0, <5>1, <5>2 DEF RoomInv
      <4> QED
        BY <1>0, <2>4, <4>1, <4>2
    <3> QED
      BY <2>1, <2>2, <3>1, <3>2 DEF RoomInv
  <2> QED
    BY <1>2, <2>3, <2>4 DEF Fetch
<1>3. CASE SkipProcessed \/ SegmentFails \/ EndRound \/ Refresh \/ Quit \/ Stall \/ UNCHANGED vars
  <2>1. UNCHANGED <<maxSize, currentSize, oldest, newest, last>> /\ cur' \in {cur, cur + 1} /\ (pc' = "segment" => pc = "segment")
    BY <1>0, <1>3 DEF SkipProcessed, SegmentFails, EndRound, Refresh, Quit, Stall, vars, trackerVars, sourceVars, roundVars
  <2>2. cur' \in Nat
    BY DEF BaseInv, HLSTypeOK
  <2>3. WindowInv'
    <3>1. newest' < oldest' + MaxWindow
      BY <2>1 DEF WindowInv
    <3>2. ASSUME pc' = "segment"
          PROVE  last' < cur' + MaxWindow
      <4>1. last' = last /\ last < cur + MaxWindow
        BY <2>1, <3>2 DEF WindowInv
      <4>2. CASE cur' = cur
        BY <4>1, <4>2
      <4>3. CASE cur' = cur + 1
        BY <1>0, <4>1, <4>3
      <4> QED
        BY <2>1, <4>2, <4>3
    <3> QED
      BY <3>1, <3>2 DEF WindowInv
  <2>4. RoomInv'
    BY <2>1 DEF RoomInv
  <2> QED
    BY <2>3, <2>4
<1>4. CASE HoldBack \/ Play
  <2>1. UNCHANGED <<maxSize, oldest, newest, last, pc>> /\ cur' = cur + 1 /\ pc = "segment"
    BY <1>4 DEF HoldBack, Play, MarkProcessed, sourceVars, roundVars
  <2> QED
    BY <1>0, <2>1 DEF WindowInv, RoomInv
<1> QED
  BY <1>1, <1>2, <1>3, <1>4 DEF HLSNext, Loop

\* The loop's step as it concerns the tracker: nothing, an empty tracker, or the mark of cur.
LEMMA TrackerSteps ==
  ASSUME [HLSNext]_vars
  PROVE  \/ UNCHANGED trackerVars
         \/ pc = "fetch" /\ currentSize = 0 /\ currentSize' = 0 /\ last' = newest /\ DOMAIN segmentMap' = {}
              /\ UNCHANGED <<oldest, sent, failed, heldBack>>
         \/ pc = "segment" /\ cur <= last /\ ~HasProcessed(cur) /\ MarkProcessed(cur) /\ last' = last
  BY DEF HLSNext, Loop, Publish, Quit, Fetch, SkipProcessed, HoldBack, Play, SegmentFails, EndRound, Refresh, Stall, vars,
     Fresh, EmptyMap, roundVars, sourceVars, histVars

LEMMA MemoryLength == IInv' => Len(memory') = currentSize'
<1>1. IInv => Len(memory) = currentSize
  BY MemoryIs
<1>2. (IInv => Len(memory) = currentSize)'
  BY <1>1, PTL
<1> QED
  BY <1>2

LEMMA MemoryNext ==
  ASSUME BaseInv, BaseInv', WindowInv, RoomInv, MemoryInv, [HLSNext]_vars
  PROVE  MemoryInv'
<1>0. /\ cur \in Nat /\ last \in Nat /\ MaxWindow \in Nat \ {0} /\ oldest \in Nat /\ newest \in Nat /\ last <= newest
      /\ Segment \subseteq Int /\ currentSize \in 0 .. maxSize /\ maxSize \in Nat \ {0}
  BY SMTT(40), HLSAssumption, SizesAssumption DEF BaseInv, HLSTypeOK, RangeInv, IInv, TypeOK
<1>1. CASE UNCHANGED trackerVars
  <2>1. memory' = memory /\ currentSize' = currentSize
    BY <1>1 DEF memory, trackerVars
  <2>2. last <= last' /\ last' \in Nat
    <3>1. last' \in {last, newest}
      BY DEF HLSNext, Loop, Publish, Quit, Fetch, SkipProcessed, HoldBack, Play, SegmentFails, EndRound, Refresh, Stall, vars, roundVars
    <3> QED
      BY <1>0, <3>1
  <2>3. \A i \in 1 .. currentSize : memory[i] \in Int /\ memory'[i] = memory[i]
    BY <1>0, <2>1, MemoryIs DEF BaseInv
  <2>4. \A i \in 1 .. currentSize : StillAlive(memory'[i]) => Alive(memory[i])
    <3> SUFFICES ASSUME NEW i \in 1 .. currentSize, StillAlive(memory'[i])
                 PROVE  Alive(memory[i])
      OBVIOUS
    <3> QED
      BY <2>3, AliveBefore
  <2>5. \A i \in 1 .. currentSize' : memory'[i] <= last'
    BY <1>0, <2>1, <2>2, <2>3 DEF MemoryInv
  <2>6. \A i, j \in 1 .. currentSize' : i < j /\ StillAlive(memory'[i]) =>
          memory'[j] < memory'[i] + MaxWindow /\ memory'[i] < memory'[j] + MaxWindow
    BY <2>1, <2>4 DEF MemoryInv
  <2> QED
    BY <2>5, <2>6 DEF MemoryInv, Alive, StillAlive
<1>2. CASE currentSize' = 0
  BY <1>2 DEF MemoryInv
<1>3. CASE pc = "segment" /\ cur <= last /\ ~HasProcessed(cur) /\ MarkProcessed(cur) /\ last' = last
  <2> DEFINE m == IF currentSize < maxSize THEN memory ELSE Tail(memory)
  <2>1. cur \in Segment
    BY <1>0, <1>3, HLSAssumption DEF BaseInv, HLSTypeOK
  <2>2. memory' = Append(m, cur)
    BY <1>3, <2>1, MarkMemory DEF BaseInv
  <2>3. /\ memory \in Seq(Entry) /\ Len(memory) = currentSize
        /\ \A i \in 1 .. currentSize : memory[i] \in Int /\ memory[i] <= last
    BY <1>0, MemoryIs DEF BaseInv, MemoryInv
  <2>4. PICK d \in {0, 1} : m \in Seq(Entry) /\ Len(m) = currentSize - d /\ \A i \in 1 .. currentSize - d : m[i] = memory[i + d]
    <3>1. CASE currentSize < maxSize
      <4>1. m \in Seq(Entry) /\ Len(m) = currentSize - 0 /\ \A i \in 1 .. currentSize - 0 : m[i] = memory[i + 0]
        BY <1>0, <2>3, <3>1
      <4> QED
        BY <4>1
    <3>2. CASE currentSize = maxSize
      <4>1. memory # << >> /\ m = Tail(memory)
        BY <1>0, <2>3, <3>2
      <4>2. m \in Seq(Entry) /\ Len(m) = currentSize - 1 /\ \A i \in 1 .. currentSize - 1 : m[i] = memory[i + 1]
        BY <2>3, <4>1
      <4> QED
        BY <4>2
    <3> QED
      BY <1>0, <3>1, <3>2
  <2> HIDE DEF m
  <2>5. currentSize' = currentSize - d + 1
    <3>1. Len(memory') = currentSize - d + 1
      BY <1>0, <2>2, <2>4
    <3>2. Len(memory') = currentSize'
      BY MemoryLength DEF BaseInv
    <3> QED
      BY <3>1, <3>2
  <2>6. /\ \A i \in 1 .. currentSize - d : i + d \in 1 .. currentSize /\ memory'[i] = memory[i + d]
        /\ memory'[currentSize - d + 1] = cur
    BY <1>0, <2>2, <2>4
  <2>7. \A i \in 1 .. currentSize' : memory'[i] <= last'
    <3>1. \A i \in 1 .. currentSize - d : memory'[i] <= last
      BY <2>3, <2>6
    <3>2. memory'[currentSize - d + 1] <= last
      BY <1>3, <2>6
    <3>3. \A i \in 1 .. currentSize' : i \in 1 .. currentSize - d \/ i = currentSize - d + 1
      BY <1>0, <2>5
    <3> QED
      BY <1>3, <3>1, <3>2, <3>3
  <2>8. ASSUME NEW i \in 1 .. currentSize', NEW j \in 1 .. currentSize', i < j, StillAlive(memory'[i])
        PROVE  memory'[j] < memory'[i] + MaxWindow /\ memory'[i] < memory'[j] + MaxWindow
    <3>1. i \in 1 .. currentSize - d /\ i \in Int /\ j \in Int /\ currentSize - d \in Int
      BY <1>0, <2>5, <2>8
    <3>2. PICK u \in Int : u = memory[i + d] /\ u = memory'[i]
      BY <2>3, <2>6, <3>1
    <3>3. Alive(u)
      BY <2>8, <3>2, AliveBefore
    <3>4. CASE j \in 1 .. currentSize - d
      <4>1. i + d \in 1 .. currentSize /\ j + d \in 1 .. currentSize /\ i + d < j + d
        BY <2>6, <2>8, <3>1, <3>4
      <4> QED
        BY <2>6, <3>1, <3>2, <3>3, <3>4, <4>1 DEF MemoryInv
    <3>5. CASE j = currentSize - d + 1
      <4>1. memory'[j] = cur /\ u <= last
        BY <2>3, <2>6, <3>1, <3>2, <3>5
      <4>2. last < oldest + MaxWindow /\ last < cur + MaxWindow
        BY <1>0, <1>3 DEF WindowInv
      <4> QED
        BY <1>0, <1>3, <3>2, <3>3, <4>1, <4>2 DEF Alive
    <3> QED
      BY <2>5, <3>1, <3>4, <3>5
  <2> QED
    BY <2>7, <2>8 DEF MemoryInv, Alive, StillAlive
<1> QED
  BY <1>1, <1>2, <1>3, TrackerSteps

StillMarked(u) == u \in DOMAIN segmentMap'

\* The marks of the segments of use outlive a step.
LEMMA StaysMarked ==
  ASSUME BaseInv, WindowInv, RoomInv, MemoryInv, [HLSNext]_vars, NEW v \in Int, StillAlive(v), HasProcessed(v)
  PROVE  StillMarked(v)
<1>1. CASE UNCHANGED trackerVars
  BY <1>1 DEF trackerVars, HasProcessed, StillMarked
<1>2. currentSize # 0
  <2>1. v # Blank /\ segmentMap[v] \in Positions(maxSize) /\ segments[segmentMap[v]] = v
    BY BlankAssumption DEF BaseInv, IInv, TypeOK, MapMatchesBuffer, HasProcessed, StillMarked
  <2> QED
    BY <2>1, SizesAssumption DEF BaseInv, IInv, TypeOK, FillInv, Positions
<1>3. CASE pc = "segment" /\ cur <= last /\ ~HasProcessed(cur) /\ MarkProcessed(cur)
  BY <1>3, AliveBefore, KeepsAlive DEF HasProcessed, StillMarked
<1> QED
  BY <1>1, <1>2, <1>3, TrackerSteps

LEMMA Marked ==
  ASSUME BaseInv, cur \in Segment, ~HasProcessed(cur), MarkProcessed(cur)
  PROVE  StillMarked(cur) /\ \A u : StillMarked(u) => HasProcessed(u) \/ u = cur
  BY DEF MarkProcessed, HasProcessed, StillMarked

\* What SentInv says of one attempt, after a step.
Kept(a) ==
  /\ a.segment <= last'
  /\ a.done /\ StillAlive(a.segment) => StillMarked(a.segment)
  /\ \A u \in Segment : StillAlive(u) /\ u < a.segment => StillMarked(u) \/ u \in failed'

Marks(u) == \E i \in 1 .. Len(sent') : sent'[i] = [segment |-> u, done |-> TRUE]

LEMMA ElementType ==
  ASSUME NEW S, NEW s \in Seq(S), NEW i \in 1 .. Len(s)
  PROVE  s[i] \in S
  OBVIOUS

LEMMA SentNext ==
  ASSUME BaseInv, WindowInv, RoomInv, MemoryInv, SentInv, [HLSNext]_vars
  PROVE  SentInv'
<1>0. /\ cur \in Nat /\ last \in Nat /\ oldest \in Nat /\ newest \in Nat /\ last <= newest
      /\ cur <= last => cur \in Segment
      /\ Segment \subseteq Int /\ sent \in Seq([segment : Segment, done : BOOLEAN])
  BY HLSAssumption DEF BaseInv, HLSTypeOK, RangeInv
<1>1. failed \subseteq failed' /\ heldBack \subseteq heldBack' /\ last' \in {last, newest}
  BY DEF HLSNext, Loop, Publish, Quit, Fetch, SkipProcessed, HoldBack, Play, SegmentFails, EndRound, Refresh, Stall, vars, roundVars, histVars
<1>2. ASSUME NEW i \in 1 .. Len(sent)
      PROVE  Kept(sent[i])
  <2> DEFINE v == sent[i].segment
  <2>1. /\ v \in Segment /\ v <= last
        /\ sent[i].done /\ Alive(v) => HasProcessed(v)
        /\ \A u \in Segment : Alive(u) /\ u < v => HasProcessed(u) \/ u \in failed
    <3>1. sent[i] \in [segment : Segment, done : BOOLEAN]
      BY <1>0, ElementType
    <3>2. v <= last /\ (sent[i].done /\ Alive(v) => HasProcessed(v))
      BY DEF SentInv, Alive, HasProcessed
    <3>3. \A u \in Segment : Alive(u) /\ u < v => HasProcessed(u) \/ u \in failed
      BY DEF SentInv
    <3> QED
      BY <3>1, <3>2, <3>3
  <2>2. \A u \in Segment : StillAlive(u) => Alive(u) /\ (HasProcessed(u) => StillMarked(u))
    BY <1>0, AliveBefore, StaysMarked
  <2>3. v <= last'
    <3>1. v \in Int
      BY <1>0, <2>1
    <3> HIDE DEF v
    <3> QED
      BY <1>0, <1>1, <2>1, <3>1
  <2> HIDE <1>2
  <2> QED
    BY <1>1, <2>1, <2>2, <2>3 DEF Kept
<1>3. ASSUME Play \/ SegmentFails
      PROVE  /\ cur \in Segment /\ cur <= last'
             /\ Play => StillMarked(cur)
             /\ \A u \in Segment : StillAlive(u) /\ u < cur => StillMarked(u) \/ u \in failed'
  <2>1. cur \in Segment /\ last' = last /\ cur <= last /\ pc = "segment" /\ oldest' = oldest
        /\ cur' \in {cur, cur + 1} /\ (Play => MarkProcessed(cur) /\ ~HasProcessed(cur))
    BY <1>0, <1>3 DEF Play, SegmentFails, roundVars, sourceVars
  <2>2. ASSUME NEW u \in Segment, StillAlive(u), u < cur
        PROVE  StillMarked(u) \/ u \in failed'
    <3>1. oldest <= u
      BY <1>0, <2>1, <2>2 DEF StillAlive
    <3>2. HasProcessed(u) \/ u \in failed
      BY <2>1, <2>2, <3>1 DEF SentInv
    <3> QED
      BY <1>0, <1>1, <2>2, <3>2, StaysMarked
  <2> QED
    BY <2>1, <2>2, Marked
<1>4. \/ UNCHANGED sent /\ (HoldBack \/ UNCHANGED trackerVars \/ Fetch)
      \/ Play /\ Sends(TRUE)
      \/ SegmentFails /\ UNCHANGED trackerVars /\ Sends(FALSE)
  BY DEF HLSNext, Loop, Publish, Quit, Fetch, SkipProcessed, HoldBack, Play, SegmentFails, FailsAfter, EndRound, Refresh, Stall, vars, histVars
<1>5. ASSUME NEW d \in BOOLEAN, Sends(d), Play \/ SegmentFails, d => Play, NEW i \in 1 .. Len(sent')
      PROVE  Kept(sent'[i])
  <2>1. sent' = Append(sent, [segment |-> cur, done |-> d]) /\ cur \in Segment
    BY <1>3, <1>5 DEF Sends
  <2>2. CASE i \in 1 .. Len(sent)
    <3>1. sent'[i] = sent[i]
      BY <1>0, <2>1, <2>2
    <3> QED
      BY <1>2, <2>2, <3>1
  <2>3. CASE i \notin 1 .. Len(sent)
    <3>1. sent'[i] = [segment |-> cur, done |-> d]
      BY <1>0, <2>1, <2>3
    <3> QED
      BY <1>3, <1>5, <3>1 DEF Kept
  <2> QED
    BY <2>2, <2>3
<1>6. ASSUME NEW i \in 1 .. Len(sent')
      PROVE  Kept(sent'[i])
  <2>1. CASE UNCHANGED sent
    BY <1>2, <2>1
  <2>2. CASE Play /\ Sends(TRUE)
    BY <1>5, <2>2
  <2>3. CASE SegmentFails /\ Sends(FALSE)
    BY <1>5, <2>3
  <2> QED
    BY <1>4, <2>1, <2>2, <2>3
<1>7. ASSUME NEW u \in Segment, StillMarked(u)
      PROVE  u \in heldBack' \/ Done(u)'
  <2>1. HasProcessed(u) => u \in heldBack \/ Done(u)
    BY DEF SentInv
  <2>2. CASE UNCHANGED sent /\ UNCHANGED trackerVars
    BY <1>1, <1>7, <2>1, <2>2 DEF trackerVars, HasProcessed, StillMarked, Done
  <2>3. CASE Fetch
    BY <1>1, <1>7, <2>1, <2>3 DEF Fetch, Fresh, EmptyMap, trackerVars, HasProcessed, StillMarked, histVars, Done
  <2>4. CASE HoldBack
    <3>1. HasProcessed(u) \/ u = cur
      BY <1>0, <1>7, <2>4, Marked DEF HoldBack
    <3>2. sent' = sent /\ heldBack' = heldBack \cup {cur}
      BY <2>4 DEF HoldBack
    <3> QED
      BY <2>1, <3>1, <3>2 DEF Done
  <2>5. ASSUME NEW d \in BOOLEAN, Sends(d)
        PROVE  (Done(u) => Done(u)') /\ (d => Marks(cur))
    <3>1. sent' = Append(sent, [segment |-> cur, done |-> d])
      BY <2>5 DEF Sends
    <3>2. /\ Len(sent') = Len(sent) + 1 /\ Len(sent) \in Nat
          /\ sent'[Len(sent) + 1] = [segment |-> cur, done |-> d]
          /\ \A i \in 1 .. Len(sent) : sent'[i] = sent[i] /\ i \in 1 .. Len(sent')
      BY <1>0, <3>1
    <3>3. Done(u) => Done(u)'
      BY <3>2 DEF Done
    <3>4. CASE d
      <4>1. sent'[Len(sent) + 1] = [segment |-> cur, done |-> TRUE]
        BY <3>2, <3>4
      <4>2. Len(sent) + 1 \in 1 .. Len(sent')
        BY <3>2
      <4> QED
        BY <3>3, <4>1, <4>2 DEF Marks
    <3> QED
      BY <3>3, <3>4
  <2>6. CASE SegmentFails /\ UNCHANGED trackerVars /\ Sends(FALSE)
    BY <1>1, <1>7, <2>1, <2>5, <2>6 DEF trackerVars, HasProcessed, StillMarked
  <2>7. CASE Play /\ Sends(TRUE)
    <3>1. HasProcessed(u) \/ u = cur
      BY <1>0, <1>7, <2>7, Marked DEF Play
    <3>2. Done(u) => Done(u)'
      BY <2>5, <2>7
    <3>3. Marks(cur)
      BY <2>5, <2>7
    <3> QED
      BY <1>1, <2>1, <3>1, <3>2, <3>3 DEF Marks, Done
  <2> QED
    BY <1>4, <2>2, <2>3, <2>4, <2>6, <2>7
<1>8. ASSUME pc' \in {"segment", "wait"}, NEW u \in Segment, oldest' <= u, u < cur'
      PROVE  StillMarked(u) \/ u \in failed'
  <2>1. StillAlive(u)
    BY <1>8 DEF StillAlive
  <2>2. u \in Int /\ (HasProcessed(u) => StillMarked(u)) /\ (u \in failed => u \in failed')
    BY <1>0, <1>1, <2>1, StaysMarked
  <2>3. CASE Fetch
    BY <1>0, <1>8, <2>2, <2>3 DEF Fetch, sourceVars
  <2>4. CASE Publish
    <3>1. oldest' \in {oldest, oldest + 1} /\ UNCHANGED <<cur, pc>>
      BY <2>4 DEF Publish
    <3>2. oldest <= u
      BY <1>0, <1>8, <2>2, <3>1
    <3> QED
      BY <1>8, <2>2, <3>1, <3>2 DEF SentInv
  <2>5. CASE pc = "segment" /\ UNCHANGED oldest /\ cur' = cur + 1 /\ (StillMarked(cur) \/ cur \in failed')
    <3>1. u < cur \/ u = cur
      BY <1>0, <1>8, <2>2, <2>5
    <3>2. CASE u < cur
      BY <1>8, <2>2, <2>5, <3>2 DEF SentInv
    <3> QED
      BY <2>5, <3>1, <3>2
  <2>6. CASE pc \in {"segment", "wait"} /\ UNCHANGED <<oldest, cur>>
    BY <1>8, <2>2, <2>6 DEF SentInv
  <2>7. ASSUME SkipProcessed \/ HoldBack \/ Play \/ SegmentFails
        PROVE  /\ pc = "segment" /\ UNCHANGED oldest
               /\ cur' = cur \/ (cur' = cur + 1 /\ (StillMarked(cur) \/ cur \in failed'))
    <3>1. CASE SkipProcessed
      BY <3>1 DEF SkipProcessed, sourceVars, trackerVars, HasProcessed, StillMarked
    <3>2. CASE HoldBack \/ Play
      BY <1>0, <3>2, Marked DEF HoldBack, Play, sourceVars
    <3>3. CASE SegmentFails
      BY <3>3 DEF SegmentFails, sourceVars
    <3> QED
      BY <2>7, <3>1, <3>2, <3>3
  <2>8. CASE EndRound \/ Refresh \/ Quit \/ Stall \/ UNCHANGED vars
    BY <1>8, <2>6, <2>8 DEF EndRound, Refresh, Quit, Stall, vars, sourceVars
  <2> QED
    BY <2>3, <2>4, <2>5, <2>6, <2>7, <2>8 DEF HLSNext, Loop
<1> QED
  BY <1>6, <1>7, <1>8 DEF SentInv, Kept, Alive, StillAlive, HasProcessed, StillMarked

\* A segment that is about to be sent was not sent to its end before, and if a later one
\* was begun, it failed.
LEMMA OrderNext ==
  ASSUME BaseInv, SentInv, NoReplay, OnlyRetriesReorder, [HLSNext]_vars
  PROVE  NoReplay' /\ OnlyRetriesReorder'
<1>0. sent \in Seq([segment : Segment, done : BOOLEAN])
  BY DEF BaseInv, HLSTypeOK
<1>1. failed \subseteq failed'
  BY DEF HLSNext, Loop, Publish, Quit, Fetch, SkipProcessed, HoldBack, Play, SegmentFails, EndRound, Refresh, Stall, vars, histVars
<1>2. CASE UNCHANGED sent
  BY <1>1, <1>2 DEF NoReplay, OnlyRetriesReorder
<1>3. ASSUME NEW d \in BOOLEAN, Sends(d), Play \/ SegmentFails
      PROVE  NoReplay' /\ OnlyRetriesReorder'
  <2>1. cur \in Segment /\ cur \in Int /\ pc = "segment" /\ ~HasProcessed(cur)
        /\ sent' = Append(sent, [segment |-> cur, done |-> d])
    BY <1>3, HLSAssumption DEF Play, SegmentFails, Sends, BaseInv, HLSTypeOK
  <2>2. Alive(cur)
    BY <2>1 DEF Alive
  <2>3. ASSUME NEW i \in 1 .. Len(sent)
        PROVE  /\ sent[i].segment = cur => ~sent[i].done
               /\ cur < sent[i].segment => cur \in failed
    <3>1. sent[i].done /\ Alive(sent[i].segment) => HasProcessed(sent[i].segment)
      BY DEF SentInv, Alive, HasProcessed
    <3>2. cur < sent[i].segment => cur \in failed
      BY <2>1, <2>2 DEF SentInv
    <3>3. ASSUME sent[i].segment = cur PROVE ~sent[i].done
      BY <2>1, <2>2, <3>1, <3>3, Zenon
    <3> QED
      BY <3>2, <3>3
  <2>4. /\ Len(sent) \in Nat /\ Len(sent') = Len(sent) + 1
        /\ sent'[Len(sent) + 1] = [segment |-> cur, done |-> d]
        /\ \A i \in 1 .. Len(sent) : sent'[i] = sent[i]
    BY <1>0, <2>1
  <2>5. \A i \in 1 .. Len(sent') : i \in 1 .. Len(sent) \/ i = Len(sent) + 1
    BY <2>4
  <2>6. ASSUME NEW i \in 1 .. Len(sent'), NEW j \in 1 .. Len(sent'), i < j
        PROVE  /\ sent'[i].segment = sent'[j].segment => ~sent'[i].done
               /\ sent'[j].segment < sent'[i].segment => sent'[j].segment \in failed'
    <3>1. i \in 1 .. Len(sent) /\ sent'[i] = sent[i]
      BY <2>4, <2>5, <2>6
    <3>2. CASE j \in 1 .. Len(sent)
      BY <1>1, <2>4, <2>6, <3>1, <3>2 DEF NoReplay, OnlyRetriesReorder
    <3>3. CASE j = Len(sent) + 1
      <4>1. sent'[j].segment = cur
        BY <2>4, <3>3
      <4> QED
        BY <1>1, <2>3, <3>1, <4>1
    <3> QED
      BY <2>5, <3>2, <3>3
  <2> QED
    BY <2>6 DEF NoReplay, OnlyRetriesReorder
<1>4. UNCHANGED sent \/ (Play /\ Sends(TRUE)) \/ (SegmentFails /\ Sends(FALSE))
  BY DEF HLSNext, Loop, Publish, Quit, Fetch, SkipProcessed, HoldBack, Play, SegmentFails, FailsAfter, EndRound, Refresh, Stall, vars, histVars
<1> QED
  BY <1>2, <1>3, <1>4

LEMMA PlayInit == Room /\ HLSInit => PlayInv
<1> SUFFICES ASSUME Room, HLSInit
             PROVE  PlayInv
  OBVIOUS
<1>1. currentSize = 0 /\ maxSize = TrackerSize /\ oldest = 1 /\ newest \in FirstWindows /\ pc = "fetch"
      /\ sent = << >> /\ DOMAIN segmentMap = {}
  BY DEF HLSInit, TrackerInit, EmptyMap
<1>2. newest \in 0 .. MaxWindow /\ MaxWindow \in Nat \ {0} /\ TrackerSize \in Nat
  BY <1>1, HLSAssumption
<1>3. WindowInv /\ RoomInv
  BY <1>1, <1>2 DEF Room, WindowInv, RoomInv
<1>4. MemoryInv /\ SentInv /\ NoReplay /\ OnlyRetriesReorder
  BY <1>1 DEF MemoryInv, SentInv, NoReplay, OnlyRetriesReorder, HasProcessed, StillMarked
<1> QED
  BY <1>3, <1>4 DEF PlayInv

THEOREM LoopInductive == Room => (HLSSpec => []HLSIInv)
<1> SUFFICES ASSUME Room
             PROVE  HLSSpec => []HLSIInv
  OBVIOUS
<1>1. HLSInit => PlayInv
  BY PlayInit
<1>2. BaseInv /\ BaseInv' /\ PlayInv /\ [HLSNext]_vars => PlayInv'
  BY WindowNext, MemoryNext, SentNext, OrderNext DEF PlayInv, Room
<1>3. BaseInv /\ PlayInv => HLSIInv
  BY DEF BaseInv, PlayInv, HLSIInv
<1> QED
  BY <1>1, <1>2, <1>3, LoopTyped, PTL DEF HLSSpec

\* The tracker's map is its ring buffer, and what a worked-through playlist listed was
\* reported as sent, held back, or failed and may be tried again, given room for twice the playlist
\* (streamHLSSegmentsFrom).
THEOREM PlaylistWorkedThrough == Room => (HLSSpec => []HLSInv)
<1>1. HLSIInv => HLSInv
  <2> SUFFICES ASSUME HLSIInv, pc = "wait", NEW u \in Segment
               PROVE  /\ HasProcessed(u) => u \in heldBack \/ Done(u)
                      /\ u \in oldest .. last /\ ~HasProcessed(u) => u \in failed
    BY DEF HLSIInv, HLSInv, IInv, NothingLost
  <2>1. last \in Nat /\ oldest \in Nat /\ cur = last + 1 /\ u \in Int
    BY HLSAssumption DEF HLSIInv, HLSTypeOK, RangeInv
  <2>2. u \in oldest .. last => oldest <= u /\ u < cur
    BY <2>1
  <2> QED
    BY <2>2 DEF HLSIInv, SentInv
<1> QED
  BY <1>1, LoopInductive, PTL

\* However the playlist moves and whatever fails and is tried again, a segment that
\* streamSegment reported as sent is not sent again, given room for twice the playlist;
\* what is sent again failed part-way every time before.
THEOREM NeverReplayed == Room => (HLSSpec => []NoReplay)
<1>1. HLSIInv => NoReplay
  BY DEF HLSIInv
<1> QED
  BY <1>1, LoopInductive, PTL

\* A segment that is sent after a later one had failed before.
THEOREM OnlyRetriesAreLate == Room => (HLSSpec => []OnlyRetriesReorder)
<1>1. HLSIInv => OnlyRetriesReorder
  BY DEF HLSIInv
<1> QED
  BY <1>1, LoopInductive, PTL

(***************************************************************************)
(* GuideFetch.  An element is told by where its tags are (Begun, Ended,    *)
(* OneElement), so text behind a complete element does not change it       *)
(* (StaysComplete) and text in which no opening tag begins can go          *)
(* (FrontDrops).  elementsFrom and TextsIn do what their definitions say   *)
(* (ElementsAre, TextsAre); what a source has got through and what it has  *)
(* still to find are then always all its elements (ScanStep, SendStep).    *)
(***************************************************************************)

-----------------------------------------------------------------------------
(* Numbers                                                                 *)

LEMMA LeastOf ==
  ASSUME NEW T \in SUBSET Nat, T # {}
  PROVE  \E x \in T : \A y \in T : x <= y
<1> DEFINE R == {ss \in Nat \X Nat : ss[1] < ss[2]}
<1>1. IsWellFoundedOn(R, Nat)
  BY NatLessThanWellFounded DEF OpToRel
<1> HIDE DEF R
<1>2. PICK x \in T : \A y \in T : ~ (<<y, x>> \in R)
  BY <1>1, WFMin
<1>3. \A y \in T : ~(y < x)
  BY <1>2 DEF R
<1> QED
  BY <1>3

LEMMA LeastPlace ==
  ASSUME NEW T \in SUBSET Nat, T # {}
  PROVE  Min(T) \in T /\ \A y \in T : Min(T) <= y
BY LeastOf DEF Min

LEMMA LeastOfTwo ==
  ASSUME NEW a \in Int, NEW b \in Int
  PROVE  Min({a, b}) = IF a <= b THEN a ELSE b
<1> DEFINE m == IF a <= b THEN a ELSE b
<1>1. m \in {a, b} /\ \A y \in {a, b} : m <= y
  OBVIOUS
<1>2. \A x \in {a, b} : (\A y \in {a, b} : x <= y) => x = m
  OBVIOUS
<1> HIDE DEF m
<1>3. Min({a, b}) = m
  BY <1>1, <1>2 DEF Min
<1> QED
  BY <1>3 DEF m

\* Induction, for a set instead of a predicate.
LEMMA Induct ==
  ASSUME NEW T, 0 \in T, \A n \in Nat : n \in T => n + 1 \in T
  PROVE  \A n \in Nat : n \in T
<1> SUFFICES ASSUME {n \in Nat : n \notin T} # {} PROVE FALSE
  OBVIOUS
<1>1. PICK x \in {n \in Nat : n \notin T} : \A y \in {n \in Nat : n \notin T} : x <= y
  BY LeastOf
<1>2. x - 1 \in Nat /\ x - 1 \in T
  BY <1>1
<1> QED
  BY <1>1, <1>2

-----------------------------------------------------------------------------
(* Elements of a text                                                      *)

\* An opening tag of kind k at place i of w, a closing tag at place j.
Opens(k, w, i) == i \in 1..(Len(w) - 1) /\ w[i] = Openers[k][1] /\ w[i + 1] = Openers[k][2]
Closes(k, w, j) == j \in 1..Len(w) /\ w[j] = Closers[k][1]

LEMMA TagsAre ==
  ASSUME NEW k \in Kinds
  PROVE  /\ Len(Openers[k]) = 2 /\ Len(Closers[k]) = 1
         /\ k # "none" /\ DOMAIN Openers[k] = 1..2 /\ DOMAIN Closers[k] = 1..1
<1>1. Openers["channel"] = <<"<chan", "nel ">> /\ Openers["programme"] = <<"<prog", "ramme ">>
  BY DEF Openers
<1>2. Closers["channel"] = <<"</channel>">> /\ Closers["programme"] = <<"</programme>">>
  BY DEF Closers
<1>3. ASSUME NEW a, NEW b
      PROVE  Len(<<a, b>>) = 2 /\ DOMAIN <<a, b>> = 1..2 /\ Len(<<a>>) = 1 /\ DOMAIN <<a>> = 1..1
  OBVIOUS
<1>4. CASE k = "channel"
  <2>1. Openers[k] = <<"<chan", "nel ">> /\ Closers[k] = <<"</channel>">>
    BY <1>1, <1>2, <1>4
  <2>2. k # "none"
    BY <1>4
  <2> QED
    BY <2>1, <2>2, <1>3
<1>5. CASE k = "programme"
  <2>1. Openers[k] = <<"<prog", "ramme ">> /\ Closers[k] = <<"</programme>">>
    BY <1>1, <1>2, <1>5
  <2>2. k # "none"
    BY <1>5
  <2> QED
    BY <2>1, <2>2, <1>3
<1> QED
  BY <1>4, <1>5 DEF Kinds

LEMMA OneOpens ==
  ASSUME NEW k \in Kinds, NEW o \in Kinds, NEW w, NEW i, Opens(k, w, i), Opens(o, w, i)
  PROVE  k = o
<1>1. Openers["channel"][1] = "<chan" /\ Openers["programme"][1] = "<prog"
  BY DEF Openers
<1>2. Openers[k][1] = Openers[o][1]
  BY DEF Opens
<1> QED
  BY <1>1, <1>2 DEF Kinds

LEMMA OpenerPlace ==
  ASSUME NEW w \in Seq(STRING), NEW k \in Kinds
  PROVE  \/ placeOf(Openers[k], w) = 0 /\ \A i \in 1..Len(w) : ~Opens(k, w, i)
         \/ Opens(k, w, placeOf(Openers[k], w)) /\ \A i \in 1..(placeOf(Openers[k], w) - 1) : ~Opens(k, w, i)
<1> DEFINE at == {i \in 1..(Len(w) + 1 - Len(Openers[k])) : \A j \in DOMAIN Openers[k] : w[i + j - 1] = Openers[k][j]}
<1>1. Len(w) \in Nat
  OBVIOUS
<1>2. Len(Openers[k]) = 2 /\ DOMAIN Openers[k] = {1, 2}
  <2>1. Len(Openers[k]) = 2 /\ DOMAIN Openers[k] = 1..2
    BY TagsAre
  <2> QED
    BY <2>1
<1>3. \A i \in 1..Len(w) : i \in at <=> Opens(k, w, i)
  <2> SUFFICES ASSUME NEW i \in 1..Len(w) PROVE i \in at <=> Opens(k, w, i)
    OBVIOUS
  <2>1. i \in 1..(Len(w) + 1 - Len(Openers[k])) <=> i \in 1..(Len(w) - 1)
    BY <1>2, <1>1
  <2>2. (\A j \in DOMAIN Openers[k] : w[i + j - 1] = Openers[k][j]) <=> w[i] = Openers[k][1] /\ w[i + 1] = Openers[k][2]
    <3>2. i + 1 - 1 = i /\ i + 2 - 1 = i + 1
      BY <1>1
    <3> QED
      BY <1>2, <3>2
  <2> QED
    BY <2>1, <2>2 DEF Opens
<1>4. at \subseteq 1..Len(w)
  BY <1>2, <1>1
<1>5. placeOf(Openers[k], w) = IF at = {} THEN 0 ELSE Min(at)
  BY DEF placeOf
<1> HIDE DEF at
<1>6. CASE at = {}
  BY <1>3, <1>5, <1>6
<1>7. CASE at # {}
  <2>1. Min(at) \in at /\ \A y \in at : Min(at) <= y
    BY <1>1, <1>4, <1>7, LeastPlace
  <2>2. Opens(k, w, Min(at))
    BY <1>3, <1>4, <2>1
  <2>3. ASSUME NEW i \in 1..(Min(at) - 1) PROVE ~Opens(k, w, i)
    <3>1. Min(at) \in 1..Len(w)
      BY <1>4, <2>1
    <3>2. i \in 1..Len(w) /\ ~(Min(at) <= i)
      BY <1>1, <3>1
    <3>3. i \notin at
      BY <2>1, <3>2
    <3> QED
      BY <1>3, <3>2, <3>3
  <2> QED
    BY <1>5, <1>7, <2>2, <2>3
<1> QED
  BY <1>6, <1>7

LEMMA CloserPlace ==
  ASSUME NEW w \in Seq(STRING), NEW k \in Kinds
  PROVE  \/ placeOf(Closers[k], w) = 0 /\ \A j \in 1..Len(w) : ~Closes(k, w, j)
         \/ Closes(k, w, placeOf(Closers[k], w)) /\ \A j \in 1..(placeOf(Closers[k], w) - 1) : ~Closes(k, w, j)
<1> DEFINE at == {i \in 1..(Len(w) + 1 - Len(Closers[k])) : \A j \in DOMAIN Closers[k] : w[i + j - 1] = Closers[k][j]}
<1>1. Len(w) \in Nat
  OBVIOUS
<1>2. Len(Closers[k]) = 1 /\ DOMAIN Closers[k] = {1}
  <2>1. Len(Closers[k]) = 1 /\ DOMAIN Closers[k] = 1..1
    BY TagsAre
  <2> QED
    BY <2>1
<1>3. at \subseteq 1..Len(w) /\ \A i \in 1..Len(w) : i \in at <=> Closes(k, w, i)
  <2>1. Len(w) + 1 - Len(Closers[k]) = Len(w) /\ DOMAIN Closers[k] = {1}
    BY <1>2, <1>1
  <2>2. \A i \in 1..Len(w) : i + 1 - 1 = i
    BY <1>1
  <2> QED
    BY <2>1, <2>2 DEF Closes
<1>4. placeOf(Closers[k], w) = IF at = {} THEN 0 ELSE Min(at)
  BY DEF placeOf
<1> HIDE DEF at
<1>5. CASE at = {}
  BY <1>3, <1>4, <1>5
<1>6. CASE at # {}
  <2>1. Min(at) \in at /\ \A y \in at : Min(at) <= y
    BY <1>1, <1>3, <1>6, LeastPlace
  <2>2. Closes(k, w, Min(at))
    BY <1>3, <2>1
  <2>3. ASSUME NEW i \in 1..(Min(at) - 1) PROVE ~Closes(k, w, i)
    <3>1. Min(at) \in 1..Len(w)
      BY <1>3, <2>1
    <3>2. i \in 1..Len(w) /\ ~(Min(at) <= i)
      BY <1>1, <3>1
    <3>3. i \notin at
      BY <2>1, <3>2
    <3> QED
      BY <1>3, <3>2, <3>3
  <2> QED
    BY <1>4, <1>6, <2>2, <2>3
<1> QED
  BY <1>5, <1>6

\* The element that begins with the first opening tag of w and ends with the first closing
\* tag of its kind behind that, as far as they are there.
Begun(w, e) ==
  IF e.kind = "none"
  THEN e.from = 0 /\ \A k \in Kinds, i \in 1..Len(w) : ~Opens(k, w, i)
  ELSE /\ e.kind \in Kinds /\ Opens(e.kind, w, e.from)
       /\ \A k \in Kinds, i \in 1..(e.from - 1) : ~Opens(k, w, i)
Ended(w, e) ==
  IF e.to = 0
  THEN e.kind # "none" => \A j \in e.from..Len(w) : ~Closes(e.kind, w, j)
  ELSE /\ e.kind # "none" /\ e.to \in e.from..Len(w) /\ Closes(e.kind, w, e.to)
       /\ \A j \in e.from..(e.to - 1) : ~Closes(e.kind, w, j)
Found == [kind : Kinds \cup {"none"}, from : Nat, to : Nat]

LEMMA OpensWhere ==
  ASSUME NEW w \in Seq(STRING), NEW k, NEW i, Opens(k, w, i)
  PROVE  Len(w) \in Nat /\ i \in Nat /\ 1 <= i /\ i + 1 <= Len(w)
<1>1. Len(w) \in Nat
  OBVIOUS
<1>2. i \in 1..(Len(w) - 1)
  BY DEF Opens
<1> QED
  BY <1>1, <1>2

LEMMA BegunAt ==
  ASSUME NEW w \in Seq(STRING), NEW e, Begun(w, e), e.kind # "none"
  PROVE  /\ e.kind \in Kinds /\ Opens(e.kind, w, e.from) /\ Len(w) \in Nat
         /\ e.from \in Nat /\ 1 <= e.from /\ e.from + 1 <= Len(w)
         /\ \A k \in Kinds, i \in 1..(e.from - 1) : ~Opens(k, w, i)
<1>1. /\ e.kind \in Kinds /\ Opens(e.kind, w, e.from)
      /\ \A k \in Kinds, i \in 1..(e.from - 1) : ~Opens(k, w, i)
  BY DEF Begun
<1> QED
  BY <1>1, OpensWhere

LEMMA OpenerIs ==
  ASSUME NEW w \in Seq(STRING)
  PROVE  LET k == openerIn(w) IN
         IF k = "none" THEN \A o \in Kinds : placeOf(Openers[o], w) = 0
         ELSE /\ k \in Kinds /\ placeOf(Openers[k], w) > 0
              /\ \A o \in Kinds : placeOf(Openers[o], w) > 0 => placeOf(Openers[k], w) <= placeOf(Openers[o], w)
<1> DEFINE at == [k \in Kinds |-> placeOf(Openers[k], w)]
           found == {k \in Kinds : at[k] > 0}
<1>1. ASSUME NEW k \in Kinds PROVE at[k] \in Nat /\ k # "none"
  <2> HIDE DEF at
  <2>1. at[k] = 0 \/ Opens(k, w, at[k])
    BY OpenerPlace DEF at
  <2>2. at[k] \in Nat
    BY <2>1, OpensWhere
  <2>3. k # "none"
    BY TagsAre
  <2> QED
    BY <2>2, <2>3
<1>2. openerIn(w) = IF found = {} THEN "none" ELSE CHOOSE k \in found : \A o \in found : at[k] <= at[o]
  <2>1. {k \in Kinds : placeOf(Openers[k], w) > 0} = found
    OBVIOUS
  <2>2. \A k \in found : placeOf(Openers[k], w) = at[k]
    OBVIOUS
  <2> HIDE DEF at, found
  <2>3. (CHOOSE k \in found : \A o \in found : placeOf(Openers[k], w) <= placeOf(Openers[o], w))
          = CHOOSE k \in found : \A o \in found : at[k] <= at[o]
    BY <2>2
  <2>4. openerIn(w) = IF {k \in Kinds : placeOf(Openers[k], w) > 0} = {} THEN "none"
                      ELSE CHOOSE k \in {o \in Kinds : placeOf(Openers[o], w) > 0} :
                             \A o \in {i \in Kinds : placeOf(Openers[i], w) > 0} :
                               placeOf(Openers[k], w) <= placeOf(Openers[o], w)
    BY DEF openerIn
  <2> QED
    BY <2>1, <2>3, <2>4
<1> HIDE DEF at
<1>3. CASE found = {}
  <2>1. ASSUME NEW o \in Kinds PROVE at[o] = 0
    <3>1. ~(at[o] > 0)
      BY <1>3
    <3> QED
      BY <1>1, <3>1
  <2> QED
    BY <1>2, <1>3, <2>1 DEF at
<1>4. CASE found # {}
  <2>1. \E k \in found : \A o \in found : at[k] <= at[o]
    <3>1. at["channel"] \in Nat /\ at["programme"] \in Nat
      BY <1>1 DEF Kinds
    <3>2. Kinds = {"channel", "programme"}
      BY DEF Kinds
    <3>3. CASE "channel" \in found /\ ("programme" \in found => at["channel"] <= at["programme"])
      BY <3>1, <3>2, <3>3
    <3>4. CASE "programme" \in found /\ ("channel" \in found => at["programme"] <= at["channel"])
      BY <3>1, <3>2, <3>4
    <3> QED
      BY <1>4, <3>1, <3>2, <3>3, <3>4
  <2>2. openerIn(w) \in found /\ \A o \in found : at[openerIn(w)] <= at[o]
    BY <1>2, <1>4, <2>1
  <2>3. openerIn(w) # "none" /\ openerIn(w) \in Kinds
    BY <1>1, <2>2
  <2> QED
    BY <2>2, <2>3 DEF at
<1> QED
  BY <1>3, <1>4

LEMMA ElementBegun ==
  ASSUME NEW w \in Seq(STRING), NEW e, e = elementIn(w)
  PROVE  Begun(w, e) /\ e.kind \in Kinds \cup {"none"} /\ e.from \in Nat
<1>1. e.kind = openerIn(w) /\ e.from = IF openerIn(w) = "none" THEN 0 ELSE placeOf(Openers[openerIn(w)], w)
  BY DEF elementIn
<1>2. CASE e.kind = "none"
  <2>1. \A o \in Kinds : placeOf(Openers[o], w) = 0
    BY <1>1, <1>2, OpenerIs
  <2>2. ASSUME NEW k \in Kinds PROVE \A i \in 1..Len(w) : ~Opens(k, w, i)
    <3>1. ~Opens(k, w, placeOf(Openers[k], w))
      BY <2>1 DEF Opens
    <3> QED
      BY <3>1, OpenerPlace
  <2>3. e.from = 0
    BY <1>1, <1>2
  <2>4. Begun(w, e)
    BY <1>2, <2>2, <2>3 DEF Begun
  <2> QED
    BY <1>2, <2>3, <2>4
<1>3. CASE e.kind # "none"
  <2>1. /\ e.kind \in Kinds /\ placeOf(Openers[e.kind], w) > 0
        /\ \A o \in Kinds : placeOf(Openers[o], w) > 0 => placeOf(Openers[e.kind], w) <= placeOf(Openers[o], w)
    BY <1>1, <1>3, OpenerIs
  <2>2. Opens(e.kind, w, e.from) /\ e.from = placeOf(Openers[e.kind], w)
    <3>1. e.from = placeOf(Openers[e.kind], w)
      BY <1>1, <1>3
    <3> QED
      BY <2>1, <3>1, OpenerPlace
  <2>3. e.from \in Nat /\ Len(w) \in Nat /\ e.from \in 1..(Len(w) - 1)
    BY <2>2, OpensWhere
  <2>4. ASSUME NEW k \in Kinds, NEW i \in 1..(e.from - 1), Opens(k, w, i) PROVE FALSE
    <3>1. i \in 1..Len(w)
      BY <2>3
    <3>2. Opens(k, w, placeOf(Openers[k], w)) /\ \A j \in 1..(placeOf(Openers[k], w) - 1) : ~Opens(k, w, j)
      BY <2>4, <3>1, OpenerPlace
    <3>3. placeOf(Openers[k], w) \in 1..(Len(w) - 1)
      BY <3>2 DEF Opens
    <3>4. e.from <= placeOf(Openers[k], w)
      BY <2>1, <2>2, <3>3
    <3>5. i \in 1..(placeOf(Openers[k], w) - 1)
      BY <2>3, <3>3, <3>4
    <3> QED
      BY <2>4, <3>2, <3>5
  <2> QED
    BY <1>3, <2>1, <2>2, <2>3, <2>4 DEF Begun
<1> QED
  BY <1>2, <1>3

LEMMA ElementEnded ==
  ASSUME NEW w \in Seq(STRING), NEW e, e = elementIn(w)
  PROVE  Ended(w, e) /\ e \in Found
<1> DEFINE v == SubSeq(w, e.from, Len(w))
           close == IF e.kind = "none" THEN 0 ELSE placeOf(Closers[e.kind], v)
<1>1. /\ e = [kind |-> e.kind, from |-> e.from, to |-> e.to]
      /\ e.to = IF close = 0 THEN 0 ELSE e.from + close - 1
  BY DEF elementIn
<1>2. Begun(w, e) /\ e.kind \in Kinds \cup {"none"} /\ e.from \in Nat
  BY ElementBegun
<1>3. CASE e.kind = "none"
  <2>1. e.to = 0
    BY <1>1, <1>3
  <2> HIDE DEF v, close
  <2>2. Ended(w, e)
    BY <1>3, <2>1 DEF Ended
  <2>3. e \in Found
    BY <1>1, <1>2, <2>1 DEF Found
  <2> QED
    BY <2>2, <2>3
<1>4. CASE e.kind # "none"
  <2>1. e.kind \in Kinds /\ e.from \in 1..(Len(w) - 1) /\ Len(w) \in Nat
    <3>1. e.kind \in Kinds /\ e.from \in Nat /\ 1 <= e.from /\ e.from + 1 <= Len(w) /\ Len(w) \in Nat
      BY <1>2, <1>4, BegunAt
    <3> QED
      BY <3>1
  <2>2. v \in Seq(STRING) /\ Len(v) = Len(w) - e.from + 1 /\ \A j \in 1..Len(v) : v[j] = w[e.from + j - 1]
    BY <2>1
  <2>3. close = placeOf(Closers[e.kind], v)
    BY <1>4
  <2> HIDE DEF v, close
  <2>4. ASSUME NEW j \in 1..Len(v) PROVE e.from + j - 1 \in e.from..Len(w) /\ (Closes(e.kind, v, j) <=> Closes(e.kind, w, e.from + j - 1))
    BY <2>1, <2>2 DEF Closes
  <2>5. ASSUME NEW i \in e.from..Len(w) PROVE i - e.from + 1 \in 1..Len(v) /\ e.from + (i - e.from + 1) - 1 = i
    BY <2>1, <2>2
  <2>6. CASE close = 0
    <3>1. \A j \in 1..Len(v) : ~Closes(e.kind, v, j)
      <4>1. ~Closes(e.kind, v, 0)
        BY DEF Closes
      <4> QED
        <5>1. v \in Seq(STRING) /\ e.kind \in Kinds
          BY <2>1, <2>2
        <5>2. placeOf(Closers[e.kind], v) = 0
          BY <2>3, <2>6
        <5> QED
          BY <5>1, <5>2, <4>1, CloserPlace
    <3>2. \A i \in e.from..Len(w) : ~Closes(e.kind, w, i)
      BY <2>4, <2>5, <3>1
    <3> QED
      <4>1. e.to = 0
        BY <1>1, <2>6
      <4>2. Ended(w, e)
        BY <1>4, <3>2, <4>1 DEF Ended
      <4>3. e \in Found
        BY <1>1, <1>2, <4>1 DEF Found
      <4> QED
        BY <4>2, <4>3
  <2>7. CASE close # 0
    <3>1. Closes(e.kind, v, close) /\ \A j \in 1..(close - 1) : ~Closes(e.kind, v, j)
      BY <2>1, <2>2, <2>3, <2>7, CloserPlace
    <3>2. close \in 1..Len(v) /\ e.to = e.from + close - 1
      BY <1>1, <2>7, <3>1 DEF Closes
    <3>3. e.to \in e.from..Len(w) /\ e.to # 0 /\ e.to \in Nat
      BY <2>1, <2>2, <3>2
    <3>4. Closes(e.kind, w, e.to)
      BY <2>4, <3>1, <3>2
    <3>5. ASSUME NEW i \in e.from..(e.to - 1) PROVE ~Closes(e.kind, w, i)
      <4>1. i \in e.from..Len(w) /\ i - e.from + 1 \in 1..(close - 1)
        BY <2>1, <3>2, <3>3
      <4> QED
        BY <2>4, <2>5, <3>1, <4>1
    <3>6. Ended(w, e)
      BY <1>4, <3>3, <3>4, <3>5 DEF Ended
    <3>7. e \in Found
      BY <1>1, <1>2, <3>3 DEF Found
    <3> QED
      BY <3>6, <3>7
  <2> QED
    BY <2>6, <2>7
<1> QED
  BY <1>3, <1>4

\* There is one such element.
LEMMA OneElement ==
  ASSUME NEW w \in Seq(STRING), NEW e \in Found, Begun(w, e), Ended(w, e)
  PROVE  elementIn(w) = e
<1> DEFINE f == elementIn(w)
<1>1. Begun(w, f) /\ Ended(w, f) /\ f \in Found
  BY ElementBegun, ElementEnded
<1> HIDE DEF f
<1>2. Len(w) \in Nat
  OBVIOUS
<1>3. e.kind = f.kind /\ e.from = f.from
  <2>1. CASE e.kind = "none" \/ f.kind = "none"
    <3>1. ~(e.kind = "none" /\ f.kind # "none")
      <4> SUFFICES ASSUME e.kind = "none", f.kind # "none" PROVE FALSE
        OBVIOUS
      <4>1. f.kind \in Kinds /\ Opens(f.kind, w, f.from) /\ f.from \in Nat /\ 1 <= f.from /\ f.from + 1 <= Len(w)
        BY <1>1, BegunAt
      <4>2. f.from \in 1..Len(w)
        <5>1. f.from \in Nat /\ 1 <= f.from /\ f.from + 1 <= Len(w)
          BY <4>1
        <5> QED
          BY <1>2, <5>1
      <4> QED
        BY <4>1, <4>2 DEF Begun
    <3>2. ~(f.kind = "none" /\ e.kind # "none")
      <4> SUFFICES ASSUME f.kind = "none", e.kind # "none" PROVE FALSE
        OBVIOUS
      <4>1. e.kind \in Kinds /\ Opens(e.kind, w, e.from) /\ e.from \in Nat /\ 1 <= e.from /\ e.from + 1 <= Len(w)
        BY BegunAt
      <4>2. e.from \in 1..Len(w)
        <5>1. e.from \in Nat /\ 1 <= e.from /\ e.from + 1 <= Len(w)
          BY <4>1
        <5> QED
          BY <1>2, <5>1
      <4> QED
        BY <1>1, <4>1, <4>2 DEF Begun
    <3> QED
      BY <1>1, <2>1, <3>1, <3>2 DEF Begun
  <2>2. CASE e.kind # "none" /\ f.kind # "none"
    <3>1. /\ e.kind \in Kinds /\ Opens(e.kind, w, e.from) /\ e.from \in Nat /\ 1 <= e.from
          /\ \A k \in Kinds, i \in 1..(e.from - 1) : ~Opens(k, w, i)
      BY <2>2, BegunAt
    <3>2. /\ f.kind \in Kinds /\ Opens(f.kind, w, f.from) /\ f.from \in Nat /\ 1 <= f.from
          /\ \A k \in Kinds, i \in 1..(f.from - 1) : ~Opens(k, w, i)
      BY <1>1, <2>2, BegunAt
    <3>3. ~(e.from < f.from)
      BY <3>1, <3>2
    <3>4. ~(f.from < e.from)
      BY <3>1, <3>2
    <3>5. e.from = f.from
      BY <3>1, <3>2, <3>3, <3>4
    <3> QED
      BY <3>1, <3>2, <3>5, OneOpens
  <2> QED
    BY <2>1, <2>2
<1>4. e.to = f.to
  <2>1. CASE e.kind = "none"
    BY <1>1, <1>3, <2>1 DEF Ended
  <2>2. CASE e.kind # "none"
    <3>1. e.from \in 1..Len(w) /\ e.to \in Nat /\ f.to \in Nat
      <4>1. e.from \in Nat /\ 1 <= e.from /\ e.from + 1 <= Len(w)
        BY <2>2, BegunAt
      <4>2. e.to \in Nat /\ f.to \in Nat
        BY <1>1 DEF Found
      <4> QED
        BY <1>2, <4>1, <4>2
    <3>2. CASE e.to = 0 \/ f.to = 0
      BY <1>1, <1>2, <1>3, <2>2, <3>1, <3>2 DEF Ended
    <3>3. CASE e.to # 0 /\ f.to # 0
      <4>1. /\ e.to \in e.from..Len(w) /\ Closes(e.kind, w, e.to) /\ \A j \in e.from..(e.to - 1) : ~Closes(e.kind, w, j)
            /\ f.to \in e.from..Len(w) /\ Closes(e.kind, w, f.to) /\ \A j \in e.from..(f.to - 1) : ~Closes(e.kind, w, j)
        BY <1>1, <1>3, <3>3 DEF Ended
      <4>2. ~(e.to < f.to) /\ ~(f.to < e.to)
        BY <1>2, <3>1, <4>1
      <4> QED
        BY <3>1, <4>2
    <3> QED
      BY <3>2, <3>3
  <2> QED
    BY <2>1, <2>2
<1>5. e = [kind |-> e.kind, from |-> e.from, to |-> e.to] /\ f = [kind |-> f.kind, from |-> f.from, to |-> f.to]
  BY <1>1 DEF Found
<1> QED
  BY <1>3, <1>4, <1>5 DEF f

LEMMA Joined ==
  ASSUME NEW u \in Seq(STRING), NEW v \in Seq(STRING)
  PROVE  /\ u \o v \in Seq(STRING) /\ Len(u \o v) = Len(u) + Len(v) /\ Len(u) \in Nat /\ Len(v) \in Nat
         /\ \A i \in 1..Len(u) : (u \o v)[i] = u[i]
         /\ \A i \in 1..Len(v) : (u \o v)[Len(u) + i] = v[i]
OBVIOUS

LEMMA OpensInFront ==
  ASSUME NEW u \in Seq(STRING), NEW v \in Seq(STRING), NEW k, NEW i \in 1..(Len(u) - 1)
  PROVE  Opens(k, u \o v, i) <=> Opens(k, u, i)
<1>1. i \in 1..Len(u) /\ i + 1 \in 1..Len(u) /\ i \in 1..(Len(u \o v) - 1)
  BY Joined
<1>2. (u \o v)[i] = u[i] /\ (u \o v)[i + 1] = u[i + 1]
  BY <1>1, Joined
<1> QED
  BY <1>1, <1>2 DEF Opens

LEMMA OpensBehind ==
  ASSUME NEW u \in Seq(STRING), NEW v \in Seq(STRING), NEW k, NEW i \in Nat \ {0}
  PROVE  Opens(k, u \o v, Len(u) + i) <=> Opens(k, v, i)
<1>1. Len(u) + i \in 1..(Len(u \o v) - 1) <=> i \in 1..(Len(v) - 1)
  BY Joined
<1>2. ASSUME i \in 1..(Len(v) - 1)
      PROVE  (u \o v)[Len(u) + i] = v[i] /\ (u \o v)[Len(u) + i + 1] = v[i + 1]
  <2>1. i \in 1..Len(v) /\ i + 1 \in 1..Len(v) /\ Len(u) + i + 1 = Len(u) + (i + 1)
    BY <1>2, Joined
  <2> QED
    BY <2>1, Joined
<1> QED
  BY <1>1, <1>2 DEF Opens

LEMMA ClosesInFront ==
  ASSUME NEW u \in Seq(STRING), NEW v \in Seq(STRING), NEW k, NEW i \in 1..Len(u)
  PROVE  Closes(k, u \o v, i) <=> Closes(k, u, i)
<1>1. i \in 1..Len(u \o v) /\ (u \o v)[i] = u[i]
  BY Joined
<1> QED
  BY <1>1 DEF Closes

LEMMA ClosesBehind ==
  ASSUME NEW u \in Seq(STRING), NEW v \in Seq(STRING), NEW k, NEW i \in Nat \ {0}
  PROVE  Closes(k, u \o v, Len(u) + i) <=> Closes(k, v, i)
<1>1. Len(u) + i \in 1..Len(u \o v) <=> i \in 1..Len(v)
  BY Joined
<1>2. i \in 1..Len(v) => (u \o v)[Len(u) + i] = v[i]
  BY Joined
<1> QED
  BY <1>1, <1>2 DEF Closes

LEMMA Complete ==
  ASSUME NEW w \in Seq(STRING), elementIn(w).to # 0
  PROVE  LET e == elementIn(w) IN
         /\ e \in Found /\ e.kind \in Kinds /\ e.kind # "none"
         /\ e.from \in Nat /\ 1 <= e.from /\ e.from + 1 <= Len(w) /\ e.to \in Nat /\ e.from <= e.to /\ e.to <= Len(w) /\ Len(w) \in Nat
<1> DEFINE e == elementIn(w)
<1>1. Begun(w, e) /\ Ended(w, e) /\ e \in Found
  BY ElementBegun, ElementEnded
<1> HIDE DEF e
<1>2. e.to # 0
  BY DEF e
<1>3. e.kind # "none" /\ e.to \in e.from..Len(w)
  BY <1>1, <1>2 DEF Ended
<1>4. e.kind \in Kinds /\ e.from \in Nat /\ 1 <= e.from /\ e.from + 1 <= Len(w) /\ Len(w) \in Nat
  BY <1>1, <1>3, BegunAt
<1>5. e.to \in Nat /\ e.from <= e.to /\ e.to <= Len(w)
  BY <1>3, <1>4
<1> QED
  BY <1>1, <1>3, <1>4, <1>5 DEF e

\* What comes behind a complete element does not change it.
LEMMA StaysComplete ==
  ASSUME NEW w \in Seq(STRING), NEW r \in Seq(STRING), elementIn(w).to # 0
  PROVE  elementIn(w \o r) = elementIn(w)
<1> DEFINE e == elementIn(w)
<1>1. Begun(w, e) /\ Ended(w, e) /\ e \in Found /\ e.to # 0
  BY ElementBegun, ElementEnded
<1>2. /\ e.kind \in Kinds /\ e.kind # "none" /\ e.from \in Nat /\ 1 <= e.from /\ e.from + 1 <= Len(w)
      /\ e.to \in Nat /\ e.from <= e.to /\ e.to <= Len(w) /\ Len(w) \in Nat
  BY Complete
<1> HIDE DEF e
<1>3. Opens(e.kind, w, e.from) /\ \A k \in Kinds, i \in 1..(e.from - 1) : ~Opens(k, w, i)
  BY <1>1, <1>2, BegunAt
<1>4. Closes(e.kind, w, e.to) /\ \A j \in e.from..(e.to - 1) : ~Closes(e.kind, w, j)
  BY <1>1 DEF Ended
<1>5. Begun(w \o r, e)
  <2>1. Opens(e.kind, w \o r, e.from)
    <3>1. e.from \in 1..(Len(w) - 1)
      BY <1>2
    <3> QED
      BY <1>3, <3>1, OpensInFront
  <2>2. ASSUME NEW k \in Kinds, NEW i \in 1..(e.from - 1) PROVE ~Opens(k, w \o r, i)
    <3>1. i \in 1..(Len(w) - 1)
      BY <1>2
    <3> QED
      BY <1>3, <3>1, OpensInFront
  <2> QED
    BY <1>2, <2>1, <2>2 DEF Begun
<1>6. Ended(w \o r, e)
  <2>1. Closes(e.kind, w \o r, e.to)
    <3>1. e.to \in 1..Len(w)
      BY <1>2
    <3> QED
      BY <1>4, <3>1, ClosesInFront
  <2>2. ASSUME NEW j \in e.from..(e.to - 1) PROVE ~Closes(e.kind, w \o r, j)
    <3>1. j \in 1..Len(w)
      BY <1>2
    <3> QED
      BY <1>4, <3>1, ClosesInFront
  <2>3. e.to \in e.from..Len(w \o r)
    BY <1>2, Joined
  <2> QED
    BY <1>1, <1>2, <2>1, <2>2, <2>3 DEF Ended
<1>7. w \o r \in Seq(STRING)
  BY Joined
<1> QED
  BY <1>1, <1>5, <1>6, <1>7, OneElement DEF e

LEMMA MovedRange ==
  ASSUME NEW n \in Nat, NEW a \in Nat, NEW b \in Nat, NEW l \in Nat, 1 <= a, a <= b, b <= l
  PROVE  /\ n + b \in (n + a)..(n + l) /\ n + b - n = b /\ n + b # 0
         /\ \A j \in (n + a)..(n + b - 1) : j \in (n + a)..(n + l) /\ j - n \in a..(b - 1)
OBVIOUS

\* Text in which no opening tag begins can be dropped from the front.
Moved(e, n) == [kind |-> e.kind, from |-> IF e.kind = "none" THEN 0 ELSE n + e.from,
                to |-> IF e.to = 0 THEN 0 ELSE n + e.to]
LEMMA FrontDrops ==
  ASSUME NEW u \in Seq(STRING), NEW v \in Seq(STRING), NEW w, w = u \o v,
         \A k \in Kinds, i \in 1..Len(u) : ~Opens(k, w, i)
  PROVE  elementIn(w) = Moved(elementIn(v), Len(u))
<1> DEFINE e == elementIn(v)
           n == Len(u)
           m == Moved(e, n)
<1>1. Begun(v, e) /\ Ended(v, e) /\ e \in Found
  BY ElementBegun, ElementEnded
<1>2. n \in Nat /\ Len(v) \in Nat /\ w \in Seq(STRING) /\ Len(w) = n + Len(v)
  BY Joined
<1> HIDE DEF e, n
<1>3. /\ m.kind = e.kind /\ m.from = (IF e.kind = "none" THEN 0 ELSE n + e.from)
      /\ m.to = IF e.to = 0 THEN 0 ELSE n + e.to
  BY DEF Moved
<1>4. m \in Found
  BY <1>1, <1>2 DEF Moved, Found
<1> HIDE DEF m
<1>5. ASSUME NEW k \in Kinds, NEW i \in Nat \ {0}, i > n, i <= Len(w) PROVE Opens(k, w, i) <=> Opens(k, v, i - n)
  <2>1. i - n \in Nat \ {0} /\ i = Len(u) + (i - n)
    BY <1>2, <1>5 DEF n
  <2> QED
    BY <2>1, OpensBehind
<1>6. Begun(w, m)
  <2>1. CASE e.kind = "none"
    <3>1. \A k \in Kinds, i \in 1..Len(v) : ~Opens(k, v, i)
      BY <1>1, <2>1 DEF Begun
    <3>2. ASSUME NEW k \in Kinds, NEW i \in 1..Len(w) PROVE ~Opens(k, w, i)
      <4>1. CASE i <= n
        BY <1>2, <4>1 DEF n
      <4>2. CASE i > n
        <5>1. i \in Nat \ {0} /\ i - n \in 1..Len(v) /\ i <= Len(w)
          BY <1>2, <4>2
        <5> QED
          BY <1>5, <3>1, <4>2, <5>1
      <4> QED
        BY <1>2, <4>1, <4>2
    <3> QED
      BY <1>3, <2>1, <3>2 DEF Begun
  <2>2. CASE e.kind # "none"
    <3>1. /\ e.kind \in Kinds /\ Opens(e.kind, v, e.from) /\ e.from \in Nat /\ 1 <= e.from /\ e.from + 1 <= Len(v)
          /\ \A k \in Kinds, i \in 1..(e.from - 1) : ~Opens(k, v, i)
      BY <1>1, <2>2, BegunAt
    <3>2. Opens(e.kind, w, n + e.from)
      <4>1. e.from \in Nat \ {0}
        BY <3>1
      <4> QED
        BY <3>1, <4>1, OpensBehind DEF n
    <3>3. ASSUME NEW k \in Kinds, NEW i \in 1..(n + e.from - 1) PROVE ~Opens(k, w, i)
      <4>1. CASE i <= n
        BY <1>2, <3>1, <4>1 DEF n
      <4>2. CASE i > n
        <5>1. i \in Nat \ {0} /\ i - n \in 1..(e.from - 1) /\ i <= Len(w)
          BY <1>2, <3>1, <4>2
        <5> QED
          BY <1>5, <3>1, <4>2, <5>1
      <4> QED
        BY <1>2, <3>1, <4>1, <4>2
    <3>4. m.kind = e.kind /\ m.from = n + e.from
      BY <1>3, <2>2
    <3>5. Opens(m.kind, w, m.from)
      BY <3>2, <3>4
    <3>6. ASSUME NEW k \in Kinds, NEW i \in 1..(m.from - 1) PROVE ~Opens(k, w, i)
      <4>1. i \in 1..(n + e.from - 1)
        BY <1>2, <3>1, <3>4
      <4> QED
        BY <3>3, <4>1
    <3> QED
      BY <2>2, <3>1, <3>4, <3>5, <3>6 DEF Begun
  <2> QED
    BY <2>1, <2>2
<1>7. Ended(w, m)
  <2>1. CASE e.kind = "none"
    BY <1>1, <1>3, <2>1 DEF Ended
  <2>2. CASE e.kind # "none"
    <3>1. e.from \in Nat /\ 1 <= e.from /\ e.from + 1 <= Len(v) /\ m.from = n + e.from
      BY <1>1, <1>3, <2>2, BegunAt
    <3>2. ASSUME NEW j \in m.from..Len(w)
          PROVE  j - n \in e.from..Len(v) /\ (Closes(e.kind, w, j) <=> Closes(e.kind, v, j - n))
      <4>1. j - n \in e.from..Len(v) /\ j - n \in Nat \ {0} /\ j = Len(u) + (j - n)
        BY <1>2, <3>1 DEF n
      <4> QED
        BY <4>1, ClosesBehind
    <3>3. CASE e.to = 0
      <4>1. \A j \in e.from..Len(v) : ~Closes(e.kind, v, j)
        BY <1>1, <2>2, <3>3 DEF Ended
      <4>2. \A j \in m.from..Len(w) : ~Closes(m.kind, w, j)
        BY <1>3, <3>2, <4>1
      <4> QED
        BY <1>3, <3>3, <4>2 DEF Ended
    <3>4. CASE e.to # 0
      <4>1. /\ e.to \in e.from..Len(v) /\ Closes(e.kind, v, e.to)
            /\ \A j \in e.from..(e.to - 1) : ~Closes(e.kind, v, j)
        BY <1>1, <3>4 DEF Ended
      <4>5. e.to \in Nat /\ e.from <= e.to /\ e.to <= Len(v) /\ m.to = n + e.to
        BY <1>2, <1>3, <3>1, <3>4, <4>1
      <4>6. /\ n + e.to \in (n + e.from)..(n + Len(v)) /\ n + e.to - n = e.to /\ n + e.to # 0
            /\ \A j \in (n + e.from)..(n + e.to - 1) : j \in (n + e.from)..(n + Len(v)) /\ j - n \in e.from..(e.to - 1)
        BY <1>2, <3>1, <4>5, MovedRange
      <4>2. m.to # 0 /\ m.to \in m.from..Len(w) /\ m.to - n = e.to
        BY <1>2, <3>1, <4>5, <4>6
      <4>3. Closes(m.kind, w, m.to)
        BY <1>3, <3>2, <4>1, <4>2
      <4>4. ASSUME NEW j \in m.from..(m.to - 1) PROVE ~Closes(m.kind, w, j)
        <5>1. j \in (n + e.from)..(n + e.to - 1)
          BY <1>2, <3>1, <4>5
        <5>2. j \in m.from..Len(w) /\ j - n \in e.from..(e.to - 1)
          BY <1>2, <3>1, <4>6, <5>1
        <5> QED
          BY <1>3, <3>2, <4>1, <5>2
      <4> QED
        BY <1>3, <2>2, <4>2, <4>3, <4>4 DEF Ended
    <3> QED
      BY <3>3, <3>4
  <2> QED
    BY <2>1, <2>2
<1> QED
  BY <1>2, <1>4, <1>6, <1>7, OneElement DEF m, e, n

-----------------------------------------------------------------------------
(* The elements of a document                                              *)

\* Recursion over the natural numbers: a function that starts with b and goes on by step.
LEMMA Iterates ==
  ASSUME NEW S, NEW b \in S, NEW step \in [S -> S]
  PROVE  \E f \in [Nat -> S] : f[0] = b /\ \A n \in Nat : f[n + 1] = step[f[n]]
<1> DEFINE Upto(m, f) == f \in [0..m -> S] /\ f[0] = b /\ \A n \in 1..m : f[n] = step[f[n - 1]]
           T == {m \in Nat : \E f : Upto(m, f)}
<1>1. 0 \in T
  <2>1. Upto(0, [n \in 0..0 |-> b])
    OBVIOUS
  <2> QED
    BY <2>1
<1>2. ASSUME NEW m \in Nat, m \in T PROVE m + 1 \in T
  <2>1. PICK f : Upto(m, f)
    BY <1>2
  <2> DEFINE g == [n \in 0..(m + 1) |-> IF n = m + 1 THEN step[f[m]] ELSE f[n]]
  <2>2. f[m] \in S /\ step[f[m]] \in S
    BY <2>1
  <2>3. g \in [0..(m + 1) -> S] /\ g[0] = b
    BY <2>1, <2>2
  <2>4. ASSUME NEW n \in 1..(m + 1) PROVE g[n] = step[g[n - 1]]
    <3>1. n - 1 \in 0..m /\ g[n - 1] = f[n - 1]
      OBVIOUS
    <3>2. CASE n = m + 1
      BY <3>1, <3>2
    <3>3. CASE n # m + 1
      <4>1. n \in 1..m /\ g[n] = f[n]
        BY <3>3
      <4> QED
        BY <2>1, <3>1, <4>1
    <3> QED
      BY <3>2, <3>3
  <2> QED
    BY <2>3, <2>4
<1>3. \A m \in Nat : \E f : Upto(m, f)
  <2> HIDE DEF Upto, T
  <2>1. \A m \in Nat : m \in T
    BY <1>1, <1>2, Induct
  <2> QED
    BY <2>1 DEF T
<1> DEFINE h == [m \in Nat |-> CHOOSE f : Upto(m, f)]
           all == [m \in Nat |-> h[m][m]]
<1>4. ASSUME NEW m \in Nat PROVE Upto(m, h[m])
  <2> HIDE DEF Upto
  <2> QED
    BY <1>3
<1>5. ASSUME NEW m \in Nat PROVE \A n \in 0..m : h[m + 1][n] = h[m][n]
  <2> HIDE DEF h
  <2>1. Upto(m, h[m]) /\ Upto(m + 1, h[m + 1])
    BY <1>4
  <2> DEFINE U == {n \in Nat : n <= m => h[m + 1][n] = h[m][n]}
  <2>2. 0 \in U
    BY <2>1
  <2>3. ASSUME NEW n \in Nat, n \in U PROVE n + 1 \in U
    <3> SUFFICES ASSUME n + 1 <= m PROVE h[m + 1][n + 1] = h[m][n + 1]
      OBVIOUS
    <3>1. h[m + 1][n] = h[m][n]
      BY <2>3
    <3>2. n + 1 \in 1..m /\ n + 1 \in 1..(m + 1) /\ n + 1 - 1 = n
      OBVIOUS
    <3> QED
      BY <2>1, <3>1, <3>2
  <2> HIDE DEF U
  <2>4. \A n \in Nat : n \in U
    BY <2>2, <2>3, Induct
  <2> QED
    BY <2>4 DEF U
<1>6. all \in [Nat -> S]
  <2> HIDE DEF h
  <2>1. ASSUME NEW m \in Nat PROVE h[m][m] \in S
    BY <1>4
  <2> QED
    BY <2>1
<1>7. all[0] = b
  <2> HIDE DEF h
  <2> QED
    BY <1>4
<1>8. ASSUME NEW n \in Nat PROVE all[n + 1] = step[all[n]]
  <2> HIDE DEF h
  <2>1. h[n + 1][n + 1] = step[h[n + 1][n]]
    <3>1. n + 1 \in Nat /\ n + 1 \in 1..(n + 1) /\ n + 1 - 1 = n
      OBVIOUS
    <3>2. Upto(n + 1, h[n + 1])
      BY <1>4, <3>1
    <3> QED
      BY <3>1, <3>2
  <2>2. h[n + 1][n] = h[n][n]
    BY <1>5
  <2> QED
    BY <2>1, <2>2
<1> QED
  BY <1>6, <1>7, <1>8

Piece == [kind : Kinds, text : Seq(STRING)]
Texts == Seq(STRING)

\* One round of elementsFrom, with g for what it makes of the rest.
Round(g, doc) ==
  LET e == elementIn(doc)
  IN IF e.to = 0 THEN <<>>
     ELSE <<[kind |-> e.kind, text |-> SubSeq(doc, e.from, e.to)]>> \o g[SubSeq(doc, e.to + 1, Len(doc))]

LEMMA Behind ==
  ASSUME NEW doc \in Seq(STRING), elementIn(doc).to # 0
  PROVE  LET e == elementIn(doc) IN
         /\ SubSeq(doc, e.to + 1, Len(doc)) \in Seq(STRING) /\ Len(SubSeq(doc, e.to + 1, Len(doc))) < Len(doc)
         /\ Len(SubSeq(doc, e.to + 1, Len(doc))) \in Nat /\ Len(doc) \in Nat
         /\ [kind |-> e.kind, text |-> SubSeq(doc, e.from, e.to)] \in Piece
<1> DEFINE e == elementIn(doc)
<1>1. /\ e.kind \in Kinds /\ e.from \in Nat /\ 1 <= e.from /\ e.to \in Nat /\ e.from <= e.to
      /\ e.to <= Len(doc) /\ Len(doc) \in Nat
  BY Complete
<1> HIDE DEF e
<1>2. SubSeq(doc, e.to + 1, Len(doc)) \in Seq(STRING) /\ Len(SubSeq(doc, e.to + 1, Len(doc))) = Len(doc) - e.to
  BY <1>1
<1>3. SubSeq(doc, e.from, e.to) \in Seq(STRING)
  BY <1>1
<1>4. [kind |-> e.kind, text |-> SubSeq(doc, e.from, e.to)] \in Piece
  BY <1>1, <1>3 DEF Piece
<1>5. Len(SubSeq(doc, e.to + 1, Len(doc))) < Len(doc) /\ Len(SubSeq(doc, e.to + 1, Len(doc))) \in Nat
  BY <1>1, <1>2
<1> QED
  BY <1>1, <1>2, <1>4, <1>5 DEF e

LEMMA RoundIs ==
  ASSUME NEW g \in [Texts -> Seq(Piece)], NEW doc \in Texts
  PROVE  Round(g, doc) \in Seq(Piece)
<1>1. CASE elementIn(doc).to = 0
  BY <1>1 DEF Round
<1>2. CASE elementIn(doc).to # 0
  <2> DEFINE piece == [kind |-> elementIn(doc).kind, text |-> SubSeq(doc, elementIn(doc).from, elementIn(doc).to)]
             rest == SubSeq(doc, elementIn(doc).to + 1, Len(doc))
  <2>1. piece \in Piece /\ rest \in Texts
    BY <1>2, Behind DEF Texts
  <2>2. Round(g, doc) = <<piece>> \o g[rest]
    BY <1>2 DEF Round
  <2> HIDE DEF piece, rest
  <2> QED
    BY <2>1, <2>2
<1> QED
  BY <1>1, <1>2

\* elementsFrom does what its definition says, for a document of any length.
LEMMA ElementsAre ==
  /\ elementsFrom \in [Texts -> Seq(Piece)]
  /\ \A doc \in Texts : elementsFrom[doc] = Round(elementsFrom, doc)
<1> DEFINE S == [Texts -> Seq(Piece)]
           step == [g \in S |-> [doc \in Texts |-> Round(g, doc)]]
           none == [doc \in Texts |-> <<>>]
<1>1. step \in [S -> S] /\ none \in S
  BY RoundIs
<1>2. PICK f \in [Nat -> S] : f[0] = none /\ \A n \in Nat : f[n + 1] = step[f[n]]
  <2> HIDE DEF S, step, none
  <2> QED
    BY <1>1, Iterates
<1>3. ASSUME NEW n \in Nat, NEW doc \in Texts PROVE f[n] \in S /\ f[n + 1][doc] = Round(f[n], doc)
  <2>1. f[n] \in S /\ f[n + 1] = step[f[n]]
    BY <1>2
  <2>2. step[f[n]] = [d \in Texts |-> Round(f[n], d)]
    <3> HIDE DEF S
    <3> QED
      BY <2>1
  <2>3. f[n + 1] = [d \in Texts |-> Round(f[n], d)]
    BY <2>1, <2>2
  <2> QED
    BY <2>1, <2>3
<1> DEFINE T == {n \in Nat : \A doc \in Texts : Len(doc) < n => f[n + 1][doc] = f[n][doc]}
<1>4. 0 \in T
  BY DEF Texts
<1>5. ASSUME NEW n \in Nat, n \in T PROVE n + 1 \in T
  <2> SUFFICES ASSUME NEW doc \in Texts, Len(doc) < n + 1 PROVE f[n + 1 + 1][doc] = f[n + 1][doc]
    OBVIOUS
  <2>1. f[n + 1 + 1][doc] = Round(f[n + 1], doc) /\ f[n + 1][doc] = Round(f[n], doc)
    <3>1. n + 1 \in Nat
      OBVIOUS
    <3> HIDE DEF S, step
    <3> QED
      BY <1>3, <3>1
  <2>2. CASE elementIn(doc).to = 0
    BY <2>1, <2>2 DEF Round
  <2>3. CASE elementIn(doc).to # 0
    <3> DEFINE rest == SubSeq(doc, elementIn(doc).to + 1, Len(doc))
    <3>1. rest \in Texts /\ Len(rest) < Len(doc) /\ Len(rest) \in Nat /\ Len(doc) \in Nat
      BY <2>3, Behind DEF Texts
    <3> HIDE DEF rest
    <3>2. f[n + 1][rest] = f[n][rest]
      BY <1>5, <3>1
    <3> QED
      BY <2>1, <3>2 DEF Round, rest
  <2> QED
    BY <2>2, <2>3
<1>6. ASSUME NEW n \in Nat, NEW doc \in Texts, Len(doc) < n PROVE f[n + 1][doc] = f[n][doc]
  <2>1. n \in T
    <3> HIDE DEF T
    <3> QED
      BY <1>4, <1>5, Induct
  <2> QED
    BY <1>6, <2>1
<1> DEFINE all == [doc \in Texts |-> f[Len(doc) + 1][doc]]
<1>7. ASSUME NEW n \in Nat, NEW doc \in Texts, Len(doc) < n PROVE f[n][doc] = all[doc]
  <2> DEFINE U == {m \in Nat : f[Len(doc) + 1 + m][doc] = all[doc]}
  <2>1. Len(doc) \in Nat
    BY DEF Texts
  <2>2. 0 \in U
    BY <2>1
  <2>3. ASSUME NEW m \in Nat, m \in U PROVE m + 1 \in U
    <3>1. Len(doc) + 1 + m \in Nat /\ Len(doc) < Len(doc) + 1 + m /\ Len(doc) + 1 + (m + 1) = Len(doc) + 1 + m + 1
      BY <2>1
    <3>2. f[Len(doc) + 1 + m + 1][doc] = f[Len(doc) + 1 + m][doc]
      BY <1>6, <3>1
    <3> QED
      BY <2>3, <3>1, <3>2
  <2>4. n - Len(doc) - 1 \in U
    <3>1. n - Len(doc) - 1 \in Nat
      BY <1>7, <2>1
    <3> HIDE DEF U
    <3> QED
      BY <2>2, <2>3, <3>1, Induct
  <2>5. Len(doc) + 1 + (n - Len(doc) - 1) = n
    BY <2>1
  <2> QED
    BY <2>4, <2>5
<1>8. all \in S
  <2>1. ASSUME NEW doc \in Texts PROVE f[Len(doc) + 1][doc] \in Seq(Piece)
    <3>1. Len(doc) + 1 \in Nat
      BY DEF Texts
    <3> QED
      BY <1>2, <3>1
  <2> QED
    BY <2>1
<1>9. ASSUME NEW doc \in Texts PROVE all[doc] = Round(all, doc)
  <2>1. Len(doc) \in Nat /\ all[doc] = Round(f[Len(doc)], doc)
    <3>1. Len(doc) \in Nat
      BY DEF Texts
    <3> QED
      BY <1>3, <3>1
  <2>2. CASE elementIn(doc).to = 0
    BY <2>1, <2>2 DEF Round
  <2>3. CASE elementIn(doc).to # 0
    <3> DEFINE rest == SubSeq(doc, elementIn(doc).to + 1, Len(doc))
    <3>1. rest \in Texts /\ Len(rest) < Len(doc)
      BY <2>3, Behind DEF Texts
    <3> HIDE DEF rest, all
    <3>2. f[Len(doc)][rest] = all[rest]
      BY <1>7, <2>1, <3>1
    <3> QED
      BY <2>1, <3>2 DEF Round, rest
  <2> QED
    BY <2>2, <2>3
<1> DEFINE F(g) == g = [doc \in Seq(STRING) |-> Round(g, doc)]
<1>10. F(all)
  <2> HIDE DEF all
  <2> QED
    BY <1>8, <1>9 DEF Texts
<1>11. elementsFrom = CHOOSE g : F(g)
  BY DEF elementsFrom, Round
<1>12. F(elementsFrom)
  <2> HIDE DEF F
  <2> QED
    BY <1>10, <1>11
<1>13. ASSUME NEW n \in Nat PROVE \A doc \in Texts : Len(doc) < n => elementsFrom[doc] = all[doc]
  <2> HIDE DEF all
  <2> DEFINE U == {m \in Nat : \A doc \in Texts : Len(doc) < m => elementsFrom[doc] = all[doc]}
  <2>1. 0 \in U
    BY DEF Texts
  <2>2. ASSUME NEW m \in Nat, m \in U PROVE m + 1 \in U
    <3> SUFFICES ASSUME NEW doc \in Texts, Len(doc) < m + 1 PROVE elementsFrom[doc] = all[doc]
      OBVIOUS
    <3>1. elementsFrom[doc] = Round(elementsFrom, doc) /\ all[doc] = Round(all, doc)
      BY <1>9, <1>12 DEF Texts
    <3>2. CASE elementIn(doc).to = 0
      BY <3>1, <3>2 DEF Round
    <3>3. CASE elementIn(doc).to # 0
      <4> DEFINE rest == SubSeq(doc, elementIn(doc).to + 1, Len(doc))
      <4>1. rest \in Texts /\ Len(rest) < Len(doc) /\ Len(rest) \in Nat /\ Len(doc) \in Nat
        BY <3>3, Behind DEF Texts
      <4> HIDE DEF rest
      <4>2. elementsFrom[rest] = all[rest]
        BY <2>2, <4>1
      <4> QED
        BY <3>1, <4>2 DEF Round, rest
    <3> QED
      BY <3>2, <3>3
  <2> HIDE DEF U
  <2>3. \A m \in Nat : m \in U
    BY <2>1, <2>2, Induct
  <2> QED
    BY <2>3 DEF U
<1>14. ASSUME NEW doc \in Texts PROVE elementsFrom[doc] = all[doc]
  <2>1. Len(doc) + 1 \in Nat /\ Len(doc) < Len(doc) + 1
    BY DEF Texts
  <2> HIDE DEF all
  <2> QED
    BY <1>13, <2>1
<1>15. ASSUME NEW doc \in Texts PROVE elementsFrom[doc] = Round(elementsFrom, doc)
  BY <1>12 DEF Texts
<1>16. elementsFrom = [doc \in Texts |-> elementsFrom[doc]]
  BY <1>12 DEF Texts
<1>17. elementsFrom \in [Texts -> Seq(Piece)]
  <2> HIDE DEF all
  <2>1. \A doc \in Texts : elementsFrom[doc] \in Seq(Piece)
    BY <1>8, <1>14
  <2> QED
    BY <1>16, <2>1
<1> QED
  BY <1>15, <1>17

-----------------------------------------------------------------------------
(* The texts of a list's members                                           *)

\* f starts with b and goes on by step; f makes the texts of a list's members in S.
Follows(f, S, b, N, step) == f \in [0..N -> S] /\ f[0] = b /\ \A n \in 1..N : f[n] = step[n][f[n - 1]]
MakesTexts(f, q, S) ==
  /\ f \in [0..Len(q) -> Seq(Texts)] /\ f[0] = <<>>
  /\ \A n \in 1..Len(q) : f[n] = IF q[n] \in S THEN Append(f[n - 1], q[n].text) ELSE f[n - 1]

\* Recursion over the positions of a list: the function the definition chooses exists.
LEMMA Recursion ==
  ASSUME NEW S, NEW b \in S, NEW N \in Nat, NEW step \in [1..N -> [S -> S]]
  PROVE  \E f : Follows(f, S, b, N, step)
<1> DEFINE Upto(m, f) == f \in [0..m -> S] /\ \A n \in 0..m : f[n] = IF n = 0 THEN b ELSE step[n][f[n - 1]]
           T == {m \in Nat : m <= N => \E f : Upto(m, f)}
<1>1. 0 \in T
  <2>1. Upto(0, [n \in 0..0 |-> b])
    OBVIOUS
  <2> QED
    BY <2>1
<1>2. ASSUME NEW m \in Nat, m \in T PROVE m + 1 \in T
  <2>1. SUFFICES ASSUME m + 1 <= N PROVE \E f : Upto(m + 1, f)
    OBVIOUS
  <2>2. PICK f : Upto(m, f)
    BY <1>2, <2>1
  <2> DEFINE g == [n \in 0..(m + 1) |-> IF n = m + 1 THEN step[m + 1][f[m]] ELSE f[n]]
  <2>3. m + 1 \in 1..N /\ f[m] \in S /\ step[m + 1][f[m]] \in S
    BY <2>1, <2>2
  <2>4. g \in [0..(m + 1) -> S]
    BY <2>2, <2>3
  <2>5. ASSUME NEW n \in 0..(m + 1) PROVE g[n] = IF n = 0 THEN b ELSE step[n][g[n - 1]]
    <3>1. CASE n = m + 1
      BY <2>3, <3>1
    <3>2. CASE n # m + 1
      <4>1. n \in 0..m /\ g[n] = f[n] /\ (n # 0 => n - 1 \in 0..m /\ g[n - 1] = f[n - 1])
        BY <3>2
      <4> QED
        BY <2>2, <4>1
    <3> QED
      BY <3>1, <3>2
  <2> QED
    BY <2>4, <2>5
<1> HIDE DEF T
<1>3. N \in T
  BY <1>1, <1>2, Induct
<1>4. PICK f : Upto(N, f)
  BY <1>3 DEF T
<1>5. f[0] = b /\ \A n \in 1..N : f[n] = step[n][f[n - 1]]
  BY <1>4
<1>6. Follows(f, S, b, N, step)
  BY <1>4, <1>5 DEF Follows
<1> QED
  BY <1>6

LEMMA TextsAre ==
  ASSUME NEW X, NEW q \in Seq(X), NEW S, \A x \in X : x.text \in Texts
  PROVE  \E f : MakesTexts(f, q, S) /\ TextsIn(q, S) = f[Len(q)]
<1> DEFINE N == Len(q)
           R == Seq(Texts)
           step == [n \in 1..N |-> [t \in R |-> IF q[n] \in S THEN Append(t, q[n].text) ELSE t]]
           F(f) == f = [n \in 0..N |-> IF n = 0 THEN <<>> ELSE IF q[n] \in S THEN Append(f[n - 1], q[n].text) ELSE f[n - 1]]
<1>1. N \in Nat /\ <<>> \in R /\ \A n \in 1..N : q[n] \in X /\ q[n].text \in Texts
  OBVIOUS
<1>2. step \in [1..N -> [R -> R]]
  <2> HIDE DEF N
  <2>1. ASSUME NEW n \in 1..N, NEW t \in R PROVE (IF q[n] \in S THEN Append(t, q[n].text) ELSE t) \in R
    BY <1>1
  <2> HIDE DEF R
  <2> QED
    BY <2>1
<1>3. PICK g \in [0..N -> R] : g[0] = <<>> /\ \A n \in 1..N : g[n] = step[n][g[n - 1]]
  <2> HIDE DEF step, R, N
  <2>1. \E g : Follows(g, R, <<>>, N, step)
    BY <1>1, <1>2, Recursion
  <2> QED
    BY <2>1 DEF Follows
<1>4. ASSUME NEW n \in 1..N PROVE g[n] = IF q[n] \in S THEN Append(g[n - 1], q[n].text) ELSE g[n - 1]
  <2> HIDE DEF N
  <2>1. n - 1 \in 0..N /\ g[n - 1] \in R
    BY <1>1, <1>3
  <2> HIDE DEF R
  <2> QED
    BY <1>3, <2>1
<1>5. F(g)
  <2> HIDE DEF N, step, R
  <2>1. ASSUME NEW n \in 0..N
        PROVE  g[n] = IF n = 0 THEN <<>> ELSE IF q[n] \in S THEN Append(g[n - 1], q[n].text) ELSE g[n - 1]
    <3>1. n = 0 \/ n \in 1..N
      BY <1>1
    <3> QED
      BY <1>3, <1>4, <3>1
  <2> QED
    BY <1>3, <2>1
<1> DEFINE h == CHOOSE f : F(f)
<1>6. F(h)
  <2> HIDE DEF F
  <2> QED
    BY <1>5
<1>7. TextsIn(q, S) = h[Len(q)]
  BY DEF TextsIn
<1> HIDE DEF h
<1>8. h[0] = <<>> /\ \A n \in 1..N : h[n] = IF q[n] \in S THEN Append(h[n - 1], q[n].text) ELSE h[n - 1]
  <2> HIDE DEF N
  <2>1. \A n \in 0..N : h[n] = IF n = 0 THEN <<>> ELSE IF q[n] \in S THEN Append(h[n - 1], q[n].text) ELSE h[n - 1]
    BY <1>6
  <2>2. 0 \in 0..N /\ \A n \in 1..N : n \in 0..N /\ n # 0
    BY <1>1
  <2> QED
    BY <2>1, <2>2
<1>9. \A n \in 0..N : h[n] \in R
  <2> DEFINE U == {n \in Nat : n <= N => h[n] \in R}
  <2> HIDE DEF N
  <2>1. 0 \in U
    BY <1>1, <1>8
  <2>2. ASSUME NEW n \in Nat, n \in U PROVE n + 1 \in U
    <3> SUFFICES ASSUME n + 1 <= N PROVE h[n + 1] \in R
      OBVIOUS
    <3>1. n + 1 \in 1..N /\ n + 1 - 1 = n /\ h[n] \in R
      BY <1>1, <2>2
    <3>2. h[n + 1] = IF q[n + 1] \in S THEN Append(h[n], q[n + 1].text) ELSE h[n]
      BY <1>8, <3>1
    <3> QED
      BY <1>1, <3>1, <3>2
  <2> HIDE DEF U
  <2>3. \A n \in Nat : n \in U
    BY <2>1, <2>2, Induct
  <2> QED
    BY <1>1, <2>3 DEF U
<1>10. h \in [0..N -> R]
  <2> HIDE DEF N, R
  <2>1. h = [n \in 0..N |-> h[n]]
    BY <1>6
  <2> QED
    BY <1>9, <2>1
<1>11. MakesTexts(h, q, S)
  BY <1>8, <1>10 DEF MakesTexts
<1> QED
  BY <1>7, <1>11

LEMMA TextsEmpty ==
  ASSUME NEW S
  PROVE  TextsIn(<<>>, S) = <<>>
<1> DEFINE q == <<>>
           E == {}
<1>1. q \in Seq(E) /\ Len(q) = 0 /\ \A x \in E : x.text \in Texts
  OBVIOUS
<1> HIDE DEF q, E
<1>2. PICK f : MakesTexts(f, q, S) /\ TextsIn(q, S) = f[Len(q)]
  BY <1>1, TextsAre
<1>3. TextsIn(q, S) = <<>>
  BY <1>1, <1>2 DEF MakesTexts
<1> QED
  BY <1>3 DEF q

LEMMA TextsAppended ==
  ASSUME NEW X, NEW q \in Seq(X), NEW x \in X, NEW S, \A y \in X : y.text \in Texts
  PROVE  /\ TextsIn(q, S) \in Seq(Texts)
         /\ TextsIn(Append(q, x), S) = IF x \in S THEN Append(TextsIn(q, S), x.text) ELSE TextsIn(q, S)
<1> DEFINE N == Len(q)
           p == Append(q, x)
<1>1. N \in Nat /\ p \in Seq(X) /\ Len(p) = N + 1 /\ p[N + 1] = x /\ \A n \in 1..N : p[n] = q[n]
  OBVIOUS
<1> HIDE DEF p
<1>2. PICK f : MakesTexts(f, q, S) /\ TextsIn(q, S) = f[Len(q)]
  BY TextsAre
<1>3. PICK g : MakesTexts(g, p, S) /\ TextsIn(p, S) = g[Len(p)]
  BY <1>1, TextsAre
<1>10. /\ f \in [0..N -> Seq(Texts)] /\ f[0] = <<>>
       /\ \A n \in 1..N : f[n] = IF q[n] \in S THEN Append(f[n - 1], q[n].text) ELSE f[n - 1]
  BY <1>2 DEF MakesTexts
<1>11. /\ g[0] = <<>>
       /\ \A n \in 1..(N + 1) : g[n] = IF p[n] \in S THEN Append(g[n - 1], p[n].text) ELSE g[n - 1]
  BY <1>1, <1>3 DEF MakesTexts
<1> HIDE DEF N
<1> DEFINE U == {n \in Nat : n <= N => f[n] = g[n]}
<1>4. 0 \in U
  BY <1>10, <1>11
<1>5. ASSUME NEW n \in Nat, n \in U PROVE n + 1 \in U
  <2> SUFFICES ASSUME n + 1 <= N PROVE f[n + 1] = g[n + 1]
    OBVIOUS
  <2>1. n + 1 \in 1..N /\ n + 1 \in 1..(N + 1) /\ n + 1 - 1 = n /\ f[n] = g[n]
    BY <1>1, <1>5
  <2>2. p[n + 1] = q[n + 1]
    BY <1>1, <2>1
  <2>3. f[n + 1] = IF q[n + 1] \in S THEN Append(f[n], q[n + 1].text) ELSE f[n]
    BY <1>10, <2>1
  <2>4. g[n + 1] = IF p[n + 1] \in S THEN Append(g[n], p[n + 1].text) ELSE g[n]
    BY <1>11, <2>1
  <2> QED
    BY <2>1, <2>2, <2>3, <2>4
<1> HIDE DEF U
<1>6. \A n \in Nat : n \in U
  BY <1>4, <1>5, Induct
<1>7. f[N] = g[N]
  BY <1>1, <1>6 DEF U
<1>8. g[N + 1] = IF x \in S THEN Append(g[N], x.text) ELSE g[N]
  <2>1. N + 1 \in 1..(N + 1) /\ N + 1 - 1 = N
    BY <1>1
  <2>2. g[N + 1] = IF p[N + 1] \in S THEN Append(g[N], p[N + 1].text) ELSE g[N]
    BY <1>1, <1>11, <2>1
  <2> QED
    BY <1>1, <2>2
<1>9. f[N] \in Seq(Texts)
  BY <1>1, <1>10
<1>12. TextsIn(q, S) = f[N] /\ TextsIn(p, S) = g[N + 1]
  BY <1>1, <1>2, <1>3 DEF N
<1> QED
  BY <1>7, <1>8, <1>9, <1>12 DEF p

LEMMA TextsJoined ==
  ASSUME NEW X, NEW p \in Seq(X), NEW q \in Seq(X), NEW S, \A y \in X : y.text \in Texts
  PROVE  TextsIn(p \o q, S) = TextsIn(p, S) \o TextsIn(q, S)
<1> DEFINE front(n) == SubSeq(q, 1, n)
           U == {n \in Nat : n <= Len(q) => TextsIn(p \o front(n), S) = TextsIn(p, S) \o TextsIn(front(n), S)}
<1>1. Len(q) \in Nat
  OBVIOUS
<1>2. 0 \in U
  <2>1. front(0) = <<>> /\ p \o <<>> = p
    OBVIOUS
  <2>2. TextsIn(p, S) \in Seq(Texts)
    <3>1. PICK f : MakesTexts(f, p, S) /\ TextsIn(p, S) = f[Len(p)]
      BY TextsAre
    <3>2. Len(p) \in 0..Len(p)
      OBVIOUS
    <3> QED
      BY <3>1, <3>2 DEF MakesTexts
  <2>3. TextsIn(p, S) \o <<>> = TextsIn(p, S)
    BY <2>2
  <2> HIDE DEF front
  <2> QED
    BY <2>1, <2>3, TextsEmpty
<1>3. ASSUME NEW n \in Nat, n \in U PROVE n + 1 \in U
  <2> SUFFICES ASSUME n + 1 <= Len(q) PROVE TextsIn(p \o front(n + 1), S) = TextsIn(p, S) \o TextsIn(front(n + 1), S)
    OBVIOUS
  <2> DEFINE x == q[n + 1]
  <2>1. x \in X /\ front(n) \in Seq(X) /\ front(n + 1) = Append(front(n), x)
    BY <1>1
  <2>2. p \o front(n) \in Seq(X)
    BY <2>1
  <2>3. p \o Append(front(n), x) = Append(p \o front(n), x)
    BY <2>1
  <2>4. TextsIn(p \o front(n), S) = TextsIn(p, S) \o TextsIn(front(n), S)
    BY <1>1, <1>3
  <2> HIDE DEF front, x, U
  <2>5. TextsIn(front(n), S) \in Seq(Texts) /\ TextsIn(p, S) \in Seq(Texts)
    BY <2>1, TextsAppended
  <2>6. TextsIn(Append(front(n), x), S) = IF x \in S THEN Append(TextsIn(front(n), S), x.text) ELSE TextsIn(front(n), S)
    BY <2>1, TextsAppended
  <2> DEFINE r == p \o front(n)
  <2>7. TextsIn(Append(r, x), S) = IF x \in S THEN Append(TextsIn(r, S), x.text) ELSE TextsIn(r, S)
    <3>1. r \in Seq(X)
      BY <2>2
    <3> HIDE DEF r
    <3> QED
      BY <2>1, <3>1, TextsAppended
  <2>8. \A s \in Seq(Texts), t \in Seq(Texts), y \in Texts : s \o Append(t, y) = Append(s \o t, y)
    OBVIOUS
  <2>9. x.text \in Texts
    BY <2>1
  <2>10. CASE x \in S
    <3>1. TextsIn(p \o front(n + 1), S) = Append(TextsIn(r, S), x.text)
      BY <2>1, <2>3, <2>7, <2>10
    <3>2. TextsIn(front(n + 1), S) = Append(TextsIn(front(n), S), x.text)
      BY <2>1, <2>6, <2>10
    <3>3. TextsIn(p, S) \o Append(TextsIn(front(n), S), x.text) = Append(TextsIn(p, S) \o TextsIn(front(n), S), x.text)
      BY <2>5, <2>8, <2>9
    <3> QED
      BY <2>4, <3>1, <3>2, <3>3
  <2>11. CASE x \notin S
    BY <2>1, <2>3, <2>4, <2>6, <2>7, <2>11
  <2> QED
    BY <2>10, <2>11
<1>4. Len(q) \in U
  <2> HIDE DEF U
  <2> QED
    BY <1>1, <1>2, <1>3, Induct
<1>5. front(Len(q)) = q
  OBVIOUS
<1>6. TextsIn(p \o front(Len(q)), S) = TextsIn(p, S) \o TextsIn(front(Len(q)), S)
  BY <1>1, <1>4
<1> QED
  BY <1>5, <1>6

-----------------------------------------------------------------------------
(* What one cut does to the elements still to be found                     *)

LEMMA NothingFound ==
  ASSUME NEW w \in Seq(STRING), NEW S, elementIn(w).to = 0
  PROVE  elementsFrom[w] = <<>> /\ TextsIn(elementsFrom[w], S) = <<>>
<1>1. elementsFrom[w] = <<>>
  <2>1. elementsFrom[w] = Round(elementsFrom, w)
    BY ElementsAre DEF Texts
  <2> QED
    BY <2>1 DEF Round
<1> QED
  BY <1>1, TextsEmpty

\* The texts of the pieces of a document are texts.
LEMMA PiecesHaveTexts ==
  \A x \in Piece : x.text \in Texts
BY DEF Piece, Texts

\* A part of the second of two joined texts, and the rest of them behind a part of the first.
LEMMA PartBehind ==
  ASSUME NEW u \in Seq(STRING), NEW v \in Seq(STRING), NEW a \in Nat, NEW b \in Nat, 1 <= a, b <= Len(v)
  PROVE  SubSeq(u \o v, Len(u) + a, Len(u) + b) = SubSeq(v, a, b)
<1> DEFINE p == SubSeq(u \o v, Len(u) + a, Len(u) + b)
           q == SubSeq(v, a, b)
<1>1. Len(u) \in Nat /\ Len(v) \in Nat /\ u \o v \in Seq(STRING) /\ Len(u \o v) = Len(u) + Len(v)
  OBVIOUS
<1>2. CASE a <= b
  <2>1. /\ p \in Seq(STRING) /\ Len(p) = b - a + 1
        /\ \A i \in 1..(b - a + 1) : p[i] = (u \o v)[Len(u) + a + i - 1]
    BY <1>1, <1>2
  <2>2. q \in Seq(STRING) /\ Len(q) = b - a + 1 /\ \A i \in 1..(b - a + 1) : q[i] = v[a + i - 1]
    BY <1>1, <1>2
  <2>3. ASSUME NEW i \in 1..(b - a + 1) PROVE (u \o v)[Len(u) + a + i - 1] = v[a + i - 1]
    <3>1. a + i - 1 \in 1..Len(v) /\ Len(u) + (a + i - 1) = Len(u) + a + i - 1
      BY <1>1
    <3> QED
      BY <3>1, Joined
  <2> HIDE DEF p, q
  <2> QED
    BY <2>1, <2>2, <2>3
<1>3. CASE ~(a <= b)
  <2>1. p = <<>> /\ q = <<>>
    BY <1>1, <1>3
  <2> QED
    BY <2>1
<1> QED
  BY <1>2, <1>3

LEMMA PartInFront ==
  ASSUME NEW w \in Seq(STRING), NEW r \in Seq(STRING), NEW a \in Nat, NEW b \in Nat, 1 <= a, a <= b, b <= Len(w)
  PROVE  SubSeq(w \o r, a, b) = SubSeq(w, a, b)
<1> DEFINE p == SubSeq(w \o r, a, b)
           q == SubSeq(w, a, b)
<1>1. Len(w) \in Nat /\ Len(r) \in Nat /\ w \o r \in Seq(STRING) /\ Len(w \o r) = Len(w) + Len(r)
  OBVIOUS
<1>2. p \in Seq(STRING) /\ Len(p) = b - a + 1 /\ \A i \in 1..(b - a + 1) : p[i] = (w \o r)[a + i - 1]
  BY <1>1
<1>3. q \in Seq(STRING) /\ Len(q) = b - a + 1 /\ \A i \in 1..(b - a + 1) : q[i] = w[a + i - 1]
  BY <1>1
<1>4. ASSUME NEW i \in 1..(b - a + 1) PROVE (w \o r)[a + i - 1] = w[a + i - 1]
  <2>1. a + i - 1 \in 1..Len(w)
    BY <1>1
  <2> QED
    BY <2>1, Joined
<1> HIDE DEF p, q
<1>5. p = q
  BY <1>2, <1>3, <1>4
<1> QED
  BY <1>5 DEF p, q

LEMMA SplitAt ==
  ASSUME NEW w \in Seq(STRING), NEW d \in Nat, d <= Len(w)
  PROVE  /\ SubSeq(w, 1, d) \in Seq(STRING) /\ Len(SubSeq(w, 1, d)) = d
         /\ SubSeq(w, d + 1, Len(w)) \in Seq(STRING) /\ Len(SubSeq(w, d + 1, Len(w))) = Len(w) - d /\ Len(w) \in Nat
         /\ w = SubSeq(w, 1, d) \o SubSeq(w, d + 1, Len(w))
<1> DEFINE u == SubSeq(w, 1, d)
           v == SubSeq(w, d + 1, Len(w))
<1>1. u \in Seq(STRING) /\ Len(u) = d /\ v \in Seq(STRING) /\ Len(v) = Len(w) - d /\ Len(w) \in Nat
  OBVIOUS
<1>2. w = u \o v
  <2>1. u \o v \in Seq(STRING) /\ Len(u \o v) = Len(w)
    <3> HIDE DEF u, v
    <3>1. u \o v \in Seq(STRING) /\ Len(u \o v) = Len(u) + Len(v)
      BY <1>1, Joined
    <3>2. Len(u) + Len(v) = Len(w)
      BY <1>1
    <3> QED
      BY <3>1, <3>2
  <2>2. ASSUME NEW i \in 1..Len(w) PROVE (u \o v)[i] = w[i]
    <3>1. CASE i <= d
      BY <1>1, <3>1
    <3>2. CASE ~(i <= d)
      <4>1. i - d \in 1..Len(v) /\ d + (i - d) = i /\ v[i - d] = w[i]
        BY <1>1, <3>2
      <4> HIDE DEF u, v
      <4>2. (u \o v)[Len(u) + (i - d)] = v[i - d]
        BY <1>1, <4>1, Joined
      <4> QED
        BY <1>1, <4>1, <4>2
    <3> QED
      BY <3>1, <3>2
  <2> DEFINE t == u \o v
  <2>3. t \in Seq(STRING) /\ Len(t) = Len(w) /\ \A i \in 1..Len(w) : t[i] = w[i]
    BY <2>1, <2>2
  <2> HIDE DEF t
  <2>4. t = w
    BY <2>3
  <2> QED
    BY <2>4 DEF t
<1> HIDE DEF u, v
<1> QED
  BY <1>1, <1>2 DEF u, v

LEMMA RestJoined ==
  ASSUME NEW w \in Seq(STRING), NEW r \in Seq(STRING), NEW d \in Nat, d <= Len(w)
  PROVE  SubSeq(w \o r, d + 1, Len(w \o r)) = SubSeq(w, d + 1, Len(w)) \o r
<1> DEFINE u == SubSeq(w, 1, d)
           v == SubSeq(w, d + 1, Len(w))
<1>1. u \in Seq(STRING) /\ Len(u) = d /\ v \in Seq(STRING) /\ w = u \o v
  BY SplitAt
<1> HIDE DEF u, v
<1>6. (u \o v) \o r = u \o (v \o r)
  BY <1>1
<1>3. w \o r = u \o (v \o r) /\ v \o r \in Seq(STRING) /\ Len(v \o r) \in Nat /\ Len(w \o r) = d + Len(v \o r)
  <2>1. w \o r = u \o (v \o r) /\ v \o r \in Seq(STRING) /\ Len(v \o r) \in Nat
    BY <1>1, <1>6
  <2>2. Len(u \o (v \o r)) = d + Len(v \o r)
    BY <1>1, <2>1, Joined
  <2> QED
    BY <2>1, <2>2
<1> DEFINE z == v \o r
<1>4. SubSeq(u \o z, Len(u) + 1, Len(u) + Len(z)) = SubSeq(z, 1, Len(z))
  <2>1. z \in Seq(STRING) /\ Len(z) \in Nat
    BY <1>3
  <2> HIDE DEF z
  <2> QED
    BY <1>1, <2>1, PartBehind
<1>5. SubSeq(z, 1, Len(z)) = z
  BY <1>3
<1> QED
  BY <1>1, <1>3, <1>4, <1>5 DEF v

LEMMA TextsOfOne ==
  ASSUME NEW X, NEW x \in X, NEW S, \A y \in X : y.text \in Texts
  PROVE  TextsIn(<<x>>, S) = IF x \in S THEN <<x.text>> ELSE <<>>
<1> DEFINE q == <<>>
<1>1. q \in Seq(X)
  OBVIOUS
<1>6. Append(q, x) = <<x>>
  OBVIOUS
<1>2. TextsIn(q, S) = <<>>
  BY TextsEmpty
<1> HIDE DEF q
<1>3. TextsIn(Append(q, x), S) = IF x \in S THEN Append(TextsIn(q, S), x.text) ELSE TextsIn(q, S)
  BY <1>1, TextsAppended
<1>4. x.text \in Texts
  OBVIOUS
<1>5. Append(<<>>, x.text) = <<x.text>>
  BY <1>4
<1> QED
  BY <1>2, <1>3, <1>5, <1>6

\* A complete element at the front of a document is its next one of its kind.
LEMMA CutOne ==
  ASSUME NEW w \in Seq(STRING), NEW r \in Seq(STRING), elementIn(w).to # 0, NEW k \in Kinds
  PROVE  LET e == elementIn(w) IN
         TextsIn(elementsFrom[w \o r], OfKind(k))
           = (IF e.kind = k THEN <<SubSeq(w, e.from, e.to)>> ELSE <<>>)
               \o TextsIn(elementsFrom[SubSeq(w, e.to + 1, Len(w)) \o r], OfKind(k))
<1> DEFINE e == elementIn(w)
           text == SubSeq(w, e.from, e.to)
           piece == [kind |-> e.kind, text |-> text]
           rest == SubSeq(w, e.to + 1, Len(w))
           wr == w \o r
<1>1. /\ e.kind \in Kinds /\ e.from \in Nat /\ 1 <= e.from /\ e.to \in Nat /\ e.from <= e.to
      /\ e.to <= Len(w) /\ Len(w) \in Nat
  BY Complete
<1>2. elementIn(wr) = e
  BY StaysComplete
<1>3. wr \in Texts
  BY Joined DEF Texts
<1>4. text \in Texts /\ piece \in Piece /\ rest \in Seq(STRING) /\ rest \o r \in Texts
  BY Behind, Joined DEF Texts, Piece
<1> HIDE DEF e
<1>5. SubSeq(wr, e.from, e.to) = text
  BY <1>1, PartInFront
<1>6. SubSeq(wr, e.to + 1, Len(wr)) = rest \o r
  BY <1>1, RestJoined
<1>7. e.to # 0
  BY DEF e
<1> HIDE DEF wr
<1>8. elementsFrom[wr] = <<piece>> \o elementsFrom[rest \o r]
  <2>1. elementsFrom[wr] = Round(elementsFrom, wr)
    BY <1>3, ElementsAre
  <2> QED
    BY <1>2, <1>5, <1>6, <1>7, <2>1 DEF Round
<1> DEFINE q == elementsFrom[rest \o r]
           p == <<piece>>
<1>9. q \in Seq(Piece)
  BY <1>4, ElementsAre
<1> HIDE DEF piece, q
<1>10. p \in Seq(Piece)
  BY <1>4
<1>11. TextsIn(p, OfKind(k)) = IF piece \in OfKind(k) THEN <<piece.text>> ELSE <<>>
  BY <1>4, TextsOfOne, PiecesHaveTexts
<1> HIDE DEF p
<1>12. TextsIn(p \o q, OfKind(k)) = TextsIn(p, OfKind(k)) \o TextsIn(q, OfKind(k))
  BY <1>9, <1>10, TextsJoined, PiecesHaveTexts
<1> HIDE DEF text
<1>13. (piece \in OfKind(k) <=> e.kind = k) /\ piece.text = text
  BY <1>4 DEF piece, OfKind, Texts
<1> QED
  BY <1>8, <1>11, <1>12, <1>13 DEF p, q, wr, rest, text, e

\* Text in which no opening tag begins has no part in a document's elements.
LEMMA FrontHasNone ==
  ASSUME NEW u \in Seq(STRING), NEW v \in Seq(STRING),
         \A k \in Kinds, i \in 1..Len(u) : ~Opens(k, u \o v, i)
  PROVE  elementsFrom[u \o v] = elementsFrom[v]
<1> DEFINE w == u \o v
           n == Len(u)
           e == elementIn(v)
<1>1. n \in Nat /\ w \in Texts /\ v \in Texts /\ Len(v) \in Nat /\ Len(w) = n + Len(v)
  BY Joined DEF Texts
<1>2. elementIn(w) = Moved(e, n)
  BY FrontDrops
<1>3. elementsFrom[w] = Round(elementsFrom, w) /\ elementsFrom[v] = Round(elementsFrom, v)
  BY <1>1, ElementsAre
<1>4. CASE e.to = 0
  <2>1. elementIn(w).to = 0
    BY <1>2, <1>4 DEF Moved
  <2> QED
    BY <1>3, <1>4, <2>1 DEF Round
<1>5. CASE e.to # 0
  <2>1. /\ e.kind \in Kinds /\ e.kind # "none" /\ e.from \in Nat /\ 1 <= e.from /\ e.to \in Nat /\ e.from <= e.to
        /\ e.to <= Len(v)
    BY <1>5, Complete
  <2> HIDE DEF e
  <2>2. elementIn(w).kind = e.kind /\ elementIn(w).from = n + e.from /\ elementIn(w).to = n + e.to
    BY <1>2, <1>5, <2>1 DEF Moved
  <2>3. elementIn(w).to # 0
    BY <1>1, <1>5, <2>1, <2>2
  <2>4. SubSeq(w, n + e.from, n + e.to) = SubSeq(v, e.from, e.to)
    BY <1>1, <2>1, PartBehind
  <2>5. SubSeq(w, n + e.to + 1, Len(w)) = SubSeq(v, e.to + 1, Len(v))
    <3>1. e.to + 1 \in Nat /\ n + (e.to + 1) = n + e.to + 1
      BY <1>1, <2>1
    <3> DEFINE a == e.to + 1
    <3>2. a \in Nat /\ 1 <= a
      BY <3>1, <2>1
    <3> HIDE DEF a
    <3>3. SubSeq(w, n + a, n + Len(v)) = SubSeq(v, a, Len(v))
      BY <1>1, <3>2, PartBehind
    <3> QED
      BY <1>1, <3>1, <3>3 DEF a
  <2> HIDE DEF w, n
  <2> DEFINE rest == SubSeq(v, e.to + 1, Len(v))
             piece == [kind |-> e.kind, text |-> SubSeq(v, e.from, e.to)]
  <2>6. elementsFrom[w] = <<piece>> \o elementsFrom[rest]
    BY <1>3, <2>2, <2>3, <2>4, <2>5 DEF Round
  <2>7. elementsFrom[v] = <<piece>> \o elementsFrom[rest]
    BY <1>3, <1>5 DEF Round, e
  <2> QED
    BY <2>6, <2>7 DEF w
<1> QED
  BY <1>4, <1>5

\* What trim drops has no part in the elements, whatever is read next, and what it keeps
\* has no complete one.
LEMMA TrimKeeps ==
  ASSUME NEW w \in Seq(STRING), NEW r \in Seq(STRING), elementIn(w).to = 0
  PROVE  /\ trim(w) \in Seq(STRING) /\ elementIn(trim(w)).to = 0
         /\ elementsFrom[trim(w) \o r] = elementsFrom[w \o r]
<1> DEFINE e == elementIn(w)
           N == Len(w)
           d == IF e.kind # "none" THEN e.from - 1 ELSE IF N > TailKept THEN N - TailKept ELSE 0
           u == SubSeq(w, 1, d)
           v == SubSeq(w, d + 1, N)
<1>1. Begun(w, e) /\ e \in Found
  BY ElementBegun, ElementEnded
<1>2. TailKept \in Nat /\ TailKept >= 1
  BY FetchAssumption DEF Openers
<1>3. N \in Nat
  OBVIOUS
<1> HIDE DEF e, N
<1>4. /\ d \in Nat /\ d <= N /\ \A k \in Kinds, i \in 1..d : i \in 1..(N - 1) /\ ~Opens(k, w, i)
  <2>1. CASE e.kind = "none"
    <3>1. \A k \in Kinds, i \in 1..N : ~Opens(k, w, i)
      BY <1>1, <2>1 DEF Begun, N
    <3>2. d = IF N > TailKept THEN N - TailKept ELSE 0
      BY <2>1
    <3> HIDE DEF d
    <3> QED
      BY <1>2, <1>3, <3>1, <3>2
  <2>2. CASE e.kind # "none"
    <3>1. e.from \in Nat /\ 1 <= e.from /\ e.from + 1 <= N /\ \A k \in Kinds, i \in 1..(e.from - 1) : ~Opens(k, w, i)
      BY <1>1, <2>2, BegunAt DEF N
    <3>2. d = e.from - 1
      BY <2>2
    <3> HIDE DEF d
    <3> QED
      BY <1>3, <3>1, <3>2
  <2> QED
    BY <2>1, <2>2
<1>5. trim(w) = v
  <2>1. CASE e.kind # "none"
    <3>1. e.from \in Nat
      BY <1>1 DEF Found
    <3> QED
      BY <2>1, <3>1 DEF trim, e, N
  <2>2. CASE e.kind = "none" /\ N > TailKept
    BY <1>2, <1>3, <2>2 DEF trim, e, N
  <2>3. CASE e.kind = "none" /\ ~(N > TailKept)
    <3>1. v = w
      BY <2>3 DEF N
    <3> QED
      BY <2>3, <3>1 DEF trim, e, N
  <2> QED
    BY <2>1, <2>2, <2>3
<1> HIDE DEF d
<1>11. u \in Seq(STRING) /\ v \in Seq(STRING) /\ Len(u) = d /\ w = u \o v
  BY <1>4, SplitAt DEF N
<1> HIDE DEF u, v
<1>6. w \o r = u \o (v \o r) /\ v \o r \in Seq(STRING) /\ Len(u) = d
  BY <1>11
<1>7. \A k \in Kinds, i \in 1..Len(u) : ~Opens(k, w, i)
  BY <1>4, <1>11
<1>8. \A k \in Kinds, i \in 1..Len(u) : ~Opens(k, u \o (v \o r), i)
  BY <1>4, <1>6, OpensInFront DEF N
<1>9. elementsFrom[u \o (v \o r)] = elementsFrom[v \o r]
  BY <1>6, <1>8, <1>11, FrontHasNone
<1>10. elementIn(v).to = 0
  <2>1. elementIn(w) = Moved(elementIn(v), Len(u))
    BY <1>7, <1>11, FrontDrops
  <2>2. elementIn(v) \in Found /\ Len(u) \in Nat
    BY <1>4, <1>11, ElementBegun, ElementEnded
  <2>3. elementIn(v).to \in Nat
    BY <2>2 DEF Found
  <2>4. elementIn(v).to # 0 => elementIn(w).to = Len(u) + elementIn(v).to
    BY <2>1 DEF Moved
  <2> QED
    BY <2>2, <2>3, <2>4
<1> QED
  BY <1>5, <1>6, <1>9, <1>10, <1>11

-----------------------------------------------------------------------------
(* FetchIInv is kept                                                       *)

LEMMA TextsType ==
  ASSUME NEW X, NEW q \in Seq(X), NEW S, \A x \in X : x.text \in Texts
  PROVE  TextsIn(q, S) \in Seq(Texts)
<1>1. PICK f : MakesTexts(f, q, S) /\ TextsIn(q, S) = f[Len(q)]
  BY TextsAre
<1>2. Len(q) \in 0..Len(q)
  OBVIOUS
<1> QED
  BY <1>1, <1>2 DEF MakesTexts

LEMMA ElementsHaveTexts ==
  \A x \in Element : x.text \in Texts
BY DEF Element, Texts

LEMMA PrefixOf ==
  ASSUME NEW a \in Seq(Texts), NEW b \in Seq(Texts)
  PROVE  IsPrefix(a, a \o b)
BY DEF IsPrefix

LEMMA NothingBehind ==
  ASSUME NEW a \in Seq(Texts)
  PROVE  a \o <<>> = a /\ <<>> \o a = a
OBVIOUS

LEMMA Associates ==
  ASSUME NEW a \in Seq(Texts), NEW b \in Seq(Texts), NEW c \in Seq(Texts)
  PROVE  (a \o b) \o c = a \o (b \o c) /\ a \o b \in Seq(Texts)
OBVIOUS

\* The pieces read next and those behind them are the rest of the document.
LEMMA ReadOn ==
  ASSUME NEW d \in Seq(STRING), NEW a \in Nat, NEW n \in Nat, a + n <= Len(d)
  PROVE  /\ SubSeq(d, a + 1, a + n) \in Seq(STRING) /\ SubSeq(d, a + n + 1, Len(d)) \in Seq(STRING)
         /\ SubSeq(d, a + 1, a + n) \o SubSeq(d, a + n + 1, Len(d)) = SubSeq(d, a + 1, Len(d))
<1> DEFINE u == SubSeq(d, 1, a)
           z == SubSeq(d, a + 1, Len(d))
<1>1. Len(d) \in Nat /\ a <= Len(d)
  OBVIOUS
<1>2. u \in Seq(STRING) /\ Len(u) = a /\ z \in Seq(STRING) /\ Len(z) = Len(d) - a /\ d = u \o z
  BY <1>1, SplitAt
<1> HIDE DEF u, z
<1>3. n <= Len(z) /\ Len(z) \in Nat /\ Len(d) = a + Len(z)
  BY <1>1, <1>2
<1>4. SubSeq(d, a + 1, a + n) = SubSeq(z, 1, n)
  BY <1>2, <1>3, PartBehind
<1>5. SubSeq(d, a + n + 1, Len(d)) = SubSeq(z, n + 1, Len(z))
  <2> DEFINE m == n + 1
  <2>1. m \in Nat /\ 1 <= m /\ a + m = a + n + 1
    OBVIOUS
  <2>2. m = n + 1
    OBVIOUS
  <2> HIDE DEF m
  <2>3. SubSeq(d, a + m, a + Len(z)) = SubSeq(z, m, Len(z))
    BY <1>2, <1>3, <2>1, PartBehind
  <2> QED
    BY <1>3, <2>1, <2>2, <2>3
<1>6. z = SubSeq(z, 1, n) \o SubSeq(z, n + 1, Len(z)) /\ SubSeq(z, 1, n) \in Seq(STRING) /\ SubSeq(z, n + 1, Len(z)) \in Seq(STRING)
  BY <1>2, <1>3, SplitAt
<1> QED
  BY <1>4, <1>5, <1>6 DEF z

LEMMA EmptyHasNone ==
  elementIn(<<>>).to = 0
<1> DEFINE w == <<>>
<1>1. w \in Seq(STRING) /\ Len(w) = 0
  OBVIOUS
<1> HIDE DEF w
<1>2. elementIn(w).to # 0 => elementIn(w).from \in Nat /\ elementIn(w).from + 1 <= Len(w)
  BY <1>1, Complete
<1>3. elementIn(w).to = 0
  BY <1>1, <1>2
<1> QED
  BY <1>3 DEF w

LEMMA DocsAre ==
  ASSUME NEW s \in XmlSources
  PROVE  Documents[s] \in Seq(STRING) /\ Len(Documents[s]) \in Nat
BY FetchAssumption

LEMMA CapsAre ==
  capacity["channel"] \in Nat \ {0} /\ capacity["programme"] \in Nat \ {0}
  /\ \A k \in Kinds : capacity[k] \in Nat \ {0}
BY FetchAssumption DEF capacity, Kinds

Pieces(s, at) == SubSeq(Documents[s], at + 1, Len(Documents[s]))
LEMMA RestTexts ==
  ASSUME NEW s \in XmlSources, NEW at \in Nat, NEW w \in Seq(STRING), NEW S
  PROVE  /\ Pieces(s, at) \in Seq(STRING) /\ w \o Pieces(s, at) \in Texts
         /\ TextsIn(elementsFrom[w \o Pieces(s, at)], S) \in Seq(Texts)
<1>1. Pieces(s, at) \in Seq(STRING)
  BY DocsAre DEF Pieces
<1>2. w \o Pieces(s, at) \in Texts
  BY <1>1, Joined DEF Texts
<1>3. elementsFrom[w \o Pieces(s, at)] \in Seq(Piece)
  BY <1>2, ElementsAre
<1> QED
  BY <1>1, <1>2, <1>3, TextsType, PiecesHaveTexts

\* What FetchIInv says of one source.
Fine(s) ==
  /\ scan[s].pc = "ask" => scan[s].tries < EPGMaxRetries
  /\ scan[s].pc \in {"ask", "read"} => scan[s].over = "no" /\ elementIn(scan[s].window).to = 0
  /\ scan[s].over = "eof" => scan[s].at = Len(Documents[s])
  /\ scan[s].pc # "gone" => \A k \in Kinds : sentBy(s, k) \o ToFind(s, k) = ElementsOf[s][k]
  /\ \A k \in Kinds : /\ IsPrefix(sentBy(s, k), ElementsOf[s][k])
                      /\ scan[s].pc = "gone" /\ scan[s].over = "eof" => sentBy(s, k) = ElementsOf[s][k]

LEMMA AllFine ==
  FetchIInv <=> FetchTypeOK /\ CloseInv /\ \A s \in XmlSources : Fine(s)
BY DEF FetchIInv, ScanInv, SplitsDoNotMatter, Fine

ScanRecord == [pc : {"ask", "read", "cut", "gone"}, tries : 0..EPGMaxRetries, at : Nat,
               window : Seq(STRING), over : {"no", "eof", "error"}]

LEMMA SentTexts ==
  ASSUME NEW s, NEW d \in Seq(Element), NEW q \in Seq(Element)
  PROVE  d \o q \in Seq(Element) /\ TextsIn(d \o q, SentBy(s)) \in Seq(Texts)
<1>1. d \o q \in Seq(Element)
  OBVIOUS
<1> QED
  BY <1>1, TextsType, ElementsHaveTexts

LEMMA FetchStarts ==
  ASSUME FetchInit
  PROVE  FetchIInv
<1>1. scan = [s \in XmlSources |-> Fetcher] /\ queue = [k \in Kinds |-> <<>>] /\ drained = [k \in Kinds |-> <<>>]
      /\ closed = FALSE /\ returned = FALSE
  BY DEF FetchInit
<1>2. Fetcher \in ScanRecord
  <2>1. 0 \in 0..EPGMaxRetries
    BY FetchAssumption
  <2>2. <<>> \in Seq(STRING)
    OBVIOUS
  <2> QED
    BY <2>1, <2>2 DEF Fetcher, ScanRecord
<1>3. FetchTypeOK
  <2>1. scan \in [XmlSources -> ScanRecord]
    BY <1>1, <1>2
  <2>2. \A s \in XmlSources : scan[s].at <= Len(Documents[s])
    BY <1>1, DocsAre DEF Fetcher
  <2>3. queue \in [Kinds -> Seq(Element)] /\ drained \in [Kinds -> Seq(Element)]
    BY <1>1
  <2>4. \A k \in Kinds : Len(queue[k]) <= capacity[k]
    BY <1>1, CapsAre
  <2> QED
    BY <1>1, <2>1, <2>2, <2>3, <2>4 DEF FetchTypeOK, ScanRecord
<1>4. CloseInv
  BY <1>1 DEF CloseInv
<1>5. ASSUME NEW s \in XmlSources PROVE Fine(s)
  <2>1. scan[s].pc = "ask" /\ scan[s].tries = 0 /\ scan[s].at = 0 /\ scan[s].window = <<>> /\ scan[s].over = "no"
    BY <1>1 DEF Fetcher
  <2>2. 0 < EPGMaxRetries
    BY FetchAssumption
  <2>3. ASSUME NEW k \in Kinds
        PROVE  sentBy(s, k) \o ToFind(s, k) = ElementsOf[s][k] /\ IsPrefix(sentBy(s, k), ElementsOf[s][k])
    <3>1. sentBy(s, k) = <<>>
      <4>1. drained[k] = <<>> /\ queue[k] = <<>>
        BY <1>1
      <4>2. <<>> \o <<>> = <<>>
        OBVIOUS
      <4>3. drained[k] \o queue[k] = <<>>
        BY <4>1, <4>2
      <4> QED
        BY <4>3, TextsEmpty DEF sentBy
    <3>2. scan[s].window \o Rest(s) = Documents[s]
      <4>1. Documents[s] \in Seq(STRING)
        BY DocsAre
      <4>2. Rest(s) = SubSeq(Documents[s], 0 + 1, Len(Documents[s]))
        BY <2>1 DEF Rest
      <4>3. Rest(s) = Documents[s]
        BY <4>1, <4>2
      <4> QED
        BY <2>1, <4>1, <4>3
    <3>3. ToFind(s, k) = ElementsOf[s][k]
      BY <3>2 DEF ToFind, ElementsOf
    <3>4. ElementsOf[s][k] \in Seq(Texts)
      <4>1. elementsFrom[Documents[s]] \in Seq(Piece)
        BY DocsAre, ElementsAre DEF Texts
      <4>2. TextsIn(elementsFrom[Documents[s]], OfKind(k)) \in Seq(Texts)
        BY <4>1, TextsType, PiecesHaveTexts
      <4> QED
        BY <4>2 DEF ElementsOf
    <3> DEFINE E == ElementsOf[s][k]
    <3>5. <<>> \o E = E /\ IsPrefix(<<>>, E)
      <4> HIDE DEF E
      <4>1. E \in Seq(Texts) /\ <<>> \in Seq(Texts)
        BY <3>4 DEF E
      <4>2. <<>> \o E = E
        BY <4>1
      <4>3. IsPrefix(<<>>, <<>> \o E)
        BY <4>1, PrefixOf
      <4> QED
        BY <4>2, <4>3
    <3> QED
      BY <3>1, <3>3, <3>5
  <2>4. elementIn(scan[s].window).to = 0
    BY <2>1, EmptyHasNone
  <2> QED
    BY <2>1, <2>2, <2>3, <2>4 DEF Fine
<1> QED
  BY <1>3, <1>4, <1>5, AllFine

\* A step that leaves a source and what it has got through alone.
LEMMA FineSame ==
  ASSUME NEW s \in XmlSources, Fine(s), scan'[s] = scan[s], \A k \in Kinds : sentBy(s, k)' = sentBy(s, k)
  PROVE  Fine(s)'
<1>1. \A k \in Kinds : ToFind(s, k)' = ToFind(s, k)
  BY DEF ToFind, Rest
<1> QED
  BY <1>1 DEF Fine

\* What a source has got through depends on the lists only.
LEMMA SentSame ==
  ASSUME NEW s, NEW k, drained'[k] \o queue'[k] = drained[k] \o queue[k]
  PROVE  sentBy(s, k)' = sentBy(s, k)
BY DEF sentBy

\* A source goes on: what it has got through and what it has still to find are all its
\* elements.
LEMMA GoesOn ==
  ASSUME NEW given \in Seq(Texts), NEW find \in Seq(Texts), NEW all, given \o find = all
  PROVE  IsPrefix(given, all) /\ (find = <<>> => given = all)
<1>1. IsPrefix(given, all)
  BY PrefixOf
<1>2. find = <<>> => given = all
  BY NothingBehind
<1> QED
  BY <1>1, <1>2

LEMMA TypeParts ==
  ASSUME FetchTypeOK, NEW s \in XmlSources
  PROVE  /\ scan[s] \in ScanRecord /\ scan[s].pc \in {"ask", "read", "cut", "gone"} /\ scan[s].at \in Nat
         /\ scan[s].window \in Seq(STRING) /\ scan[s].over \in {"no", "eof", "error"} /\ scan[s].tries \in 0..EPGMaxRetries
         /\ scan[s].at <= Len(Documents[s])
BY DEF FetchTypeOK, ScanRecord

\* The lists' part of FetchTypeOK, and the sources' part.
ListsTypeOK == /\ queue \in [Kinds -> Seq(Element)] /\ drained \in [Kinds -> Seq(Element)]
               /\ \A k \in Kinds : Len(queue[k]) <= capacity[k]
ScansTypeOK == scan \in [XmlSources -> ScanRecord] /\ \A s \in XmlSources : scan[s].at <= Len(Documents[s])
LEMMA TypeIs ==
  FetchTypeOK <=> ScansTypeOK /\ ListsTypeOK /\ closed \in BOOLEAN /\ returned \in BOOLEAN
BY DEF FetchTypeOK, ScansTypeOK, ListsTypeOK, ScanRecord

\* One source's record changes, and it stays a record.
LEMMA ScansKept ==
  ASSUME ScansTypeOK, NEW s \in XmlSources, NEW r \in ScanRecord, scan' = [scan EXCEPT ![s] = r],
         r.at <= Len(Documents[s])
  PROVE  ScansTypeOK' /\ scan'[s] = r /\ \A t \in XmlSources : t # s => scan'[t] = scan[t]
<1>1. scan' \in [XmlSources -> ScanRecord] /\ scan'[s] = r /\ \A t \in XmlSources : t # s => scan'[t] = scan[t]
  BY DEF ScansTypeOK
<1>2. ASSUME NEW t \in XmlSources PROVE scan'[t].at <= Len(Documents[t])
  <2>1. CASE t = s
    BY <1>1, <2>1
  <2>2. CASE t # s
    BY <1>1, <2>2 DEF ScansTypeOK
  <2> QED
    BY <2>1, <2>2
<1> QED
  BY <1>1, <1>2 DEF ScansTypeOK

LEMMA SentType ==
  ASSUME ListsTypeOK, NEW s, NEW k \in Kinds
  PROVE  sentBy(s, k) \in Seq(Texts)
<1>1. drained[k] \in Seq(Element) /\ queue[k] \in Seq(Element)
  BY DEF ListsTypeOK
<1> QED
  BY <1>1, SentTexts DEF sentBy

\* A step that moves one source, and leaves the lists alone.
LEMMA ScanStep ==
  ASSUME FetchIInv, NEW s \in XmlSources, NEW r \in ScanRecord, scan' = [scan EXCEPT ![s] = r],
         r.at <= Len(Documents[s]), scan[s].pc # "gone", UNCHANGED <<queue, drained>>,
         r.pc = "ask" => r.tries < EPGMaxRetries,
         r.pc \in {"ask", "read"} => r.over = "no" /\ elementIn(r.window).to = 0,
         r.over = "eof" => r.at = Len(Documents[s]),
         r.pc = "gone" /\ r.over = "eof" => elementIn(r.window).to = 0,
         elementsFrom[r.window \o Pieces(s, r.at)] = elementsFrom[scan[s].window \o Pieces(s, scan[s].at)]
  PROVE  ScansTypeOK' /\ ListsTypeOK' /\ (\A t \in XmlSources : Fine(t)')
         /\ scan'[s] = r /\ (\A t \in XmlSources : t # s => scan'[t] = scan[t])
<1>1. ScansTypeOK /\ ListsTypeOK /\ \A t \in XmlSources : Fine(t)
  BY AllFine, TypeIs
<1>2. ListsTypeOK'
  BY <1>1 DEF ListsTypeOK
<1>3. ScansTypeOK' /\ scan'[s] = r /\ \A t \in XmlSources : t # s => scan'[t] = scan[t]
  BY <1>1, ScansKept
<1>4. \A t, k : sentBy(t, k)' = sentBy(t, k)
  BY SentSame
<1>5. ASSUME NEW t \in XmlSources, t # s PROVE Fine(t)'
  BY <1>1, <1>3, <1>4, <1>5, FineSame
<1>6. Fine(s)'
  <2>1. r.window \in Seq(STRING) /\ r.at \in Nat /\ Len(Documents[s]) \in Nat /\ Documents[s] \in Seq(STRING)
    BY DocsAre DEF ScanRecord
  <2>2. ASSUME NEW k \in Kinds
        PROVE  /\ sentBy(s, k)' \o ToFind(s, k)' = ElementsOf[s][k] /\ IsPrefix(sentBy(s, k)', ElementsOf[s][k])
               /\ r.pc = "gone" /\ r.over = "eof" => sentBy(s, k)' = ElementsOf[s][k]
    <3>1. ToFind(s, k) = TextsIn(elementsFrom[scan[s].window \o Pieces(s, scan[s].at)], OfKind(k))
      BY DEF ToFind, Rest, Pieces
    <3>2. ToFind(s, k)' = TextsIn(elementsFrom[r.window \o Pieces(s, r.at)], OfKind(k))
      BY <1>3 DEF ToFind, Rest, Pieces
    <3>3. sentBy(s, k) \o ToFind(s, k) = ElementsOf[s][k]
      BY <1>1 DEF Fine
    <3>4. ToFind(s, k)' = ToFind(s, k)
      BY <3>1, <3>2
    <3>5. sentBy(s, k) \in Seq(Texts)
      BY <1>1, SentType
    <3>6. ToFind(s, k)' \in Seq(Texts)
      BY <2>1, <3>2, RestTexts
    <3>7. sentBy(s, k)' = sentBy(s, k)
      BY <1>4
    <3>8. r.pc = "gone" /\ r.over = "eof" => ToFind(s, k)' = <<>>
      <4> SUFFICES ASSUME r.pc = "gone", r.over = "eof" PROVE ToFind(s, k)' = <<>>
        OBVIOUS
      <4>1. Pieces(s, r.at) = <<>>
        <5>1. r.at = Len(Documents[s])
          OBVIOUS
        <5> QED
          BY <2>1, <5>1 DEF Pieces
      <4>2. r.window \o Pieces(s, r.at) = r.window
        BY <2>1, <4>1
      <4>3. elementIn(r.window).to = 0
        OBVIOUS
      <4> QED
        BY <2>1, <3>2, <4>2, <4>3, NothingFound
    <3> DEFINE given == sentBy(s, k)
               find == ToFind(s, k)'
    <3>9. given \in Seq(Texts) /\ find \in Seq(Texts) /\ given \o find = ElementsOf[s][k]
      BY <3>3, <3>4, <3>5, <3>6
    <3> HIDE DEF given, find
    <3>10. IsPrefix(given, ElementsOf[s][k]) /\ (find = <<>> => given = ElementsOf[s][k])
      BY <3>9, GoesOn
    <3> QED
      BY <3>7, <3>8, <3>9, <3>10 DEF given, find
  <2> QED
    BY <1>3, <2>2 DEF Fine
<1> QED
  BY <1>2, <1>3, <1>5, <1>6

\* CloseInv, after a step of a source that is not gone.
LEMMA CloseKept ==
  ASSUME CloseInv, NEW s \in XmlSources, scan[s].pc # "gone", UNCHANGED <<closed, returned>>
  PROVE  CloseInv' /\ ~closed /\ ~returned
<1>1. ~closed /\ ~returned
  BY DEF CloseInv
<1> QED
  BY <1>1 DEF CloseInv

LEMMA AskSteps ==
  ASSUME FetchIInv, NEW s \in XmlSources, Answered(s) \/ Unanswered(s) \/ Cancelled(s)
  PROVE  FetchIInv'
<1>1. FetchTypeOK /\ CloseInv /\ Fine(s)
  BY AllFine
<1>2. scan[s].pc = "ask" /\ scan[s] \in ScanRecord /\ scan[s].at <= Len(Documents[s])
  BY <1>1, TypeParts DEF Answered, Unanswered, Cancelled
<1>3. scan[s].tries < EPGMaxRetries /\ scan[s].over = "no" /\ elementIn(scan[s].window).to = 0
  BY <1>1, <1>2 DEF Fine
<1>4. UNCHANGED <<queue, drained, closed, returned>>
  BY DEF Answered, Unanswered, Cancelled
<1>5. PICK r \in ScanRecord :
        /\ scan' = [scan EXCEPT ![s] = r] /\ r.at = scan[s].at /\ r.window = scan[s].window
        /\ r.pc = "ask" => r.tries < EPGMaxRetries
        /\ r.over = "error" => r.pc = "gone"
        /\ r.over \in {"no", "error"}
  <2>1. CASE Answered(s)
    <3> DEFINE r == [scan[s] EXCEPT !.pc = "read"]
    <3>1. r \in ScanRecord /\ r.at = scan[s].at /\ r.window = scan[s].window /\ r.pc = "read" /\ r.over = "no"
      BY <1>2, <1>3 DEF ScanRecord
    <3>2. scan' = [scan EXCEPT ![s] = r]
      BY <2>1 DEF Answered
    <3> HIDE DEF r
    <3> QED
      BY <3>1, <3>2
  <2>2. CASE Unanswered(s)
    <3> DEFINE n == scan[s].tries + 1
               r == [scan[s] EXCEPT !.tries = n, !.pc = IF n = EPGMaxRetries THEN "gone" ELSE "ask"]
    <3>1. n \in 0..EPGMaxRetries /\ (n # EPGMaxRetries => n < EPGMaxRetries)
      BY <1>2, <1>3, FetchAssumption DEF ScanRecord
    <3>2. scan' = [scan EXCEPT ![s] = r]
      BY <2>2 DEF Unanswered
    <3> HIDE DEF n
    <3>3. /\ r \in ScanRecord /\ r.at = scan[s].at /\ r.window = scan[s].window /\ r.over = "no" /\ r.tries = n
          /\ r.pc = IF n = EPGMaxRetries THEN "gone" ELSE "ask"
      BY <1>2, <1>3, <3>1 DEF ScanRecord
    <3> HIDE DEF r
    <3> QED
      BY <3>1, <3>2, <3>3
  <2>3. CASE Cancelled(s)
    <3> DEFINE r == [scan[s] EXCEPT !.pc = "gone", !.over = "error"]
    <3>1. r \in ScanRecord /\ r.at = scan[s].at /\ r.window = scan[s].window /\ r.pc = "gone" /\ r.over = "error"
      BY <1>2, <1>3 DEF ScanRecord
    <3>2. scan' = [scan EXCEPT ![s] = r]
      BY <2>3 DEF Cancelled
    <3> HIDE DEF r
    <3> QED
      BY <3>1, <3>2
  <2> QED
    BY <2>1, <2>2, <2>3
<1>6. ScansTypeOK' /\ ListsTypeOK' /\ \A t \in XmlSources : Fine(t)'
  <2>1. scan[s].pc # "gone" /\ r.at <= Len(Documents[s]) /\ r.over # "eof"
    BY <1>2, <1>5
  <2>2. r.pc \in {"ask", "read"} => r.over = "no" /\ elementIn(r.window).to = 0
    BY <1>3, <1>5
  <2>3. elementsFrom[r.window \o Pieces(s, r.at)] = elementsFrom[scan[s].window \o Pieces(s, scan[s].at)]
    BY <1>5
  <2> QED
    BY <1>4, <1>5, <2>1, <2>2, <2>3, ScanStep
<1>7. CloseInv' /\ closed' \in BOOLEAN /\ returned' \in BOOLEAN
  <2>1. scan[s].pc # "gone"
    BY <1>2
  <2>2. CloseInv'
    BY <1>1, <1>4, <2>1, CloseKept
  <2> QED
    BY <1>1, <1>4, <2>2 DEF FetchTypeOK
<1> QED
  BY <1>6, <1>7 DEF FetchIInv, FetchTypeOK, ScansTypeOK, ListsTypeOK, ScanRecord, ScanInv, SplitsDoNotMatter, Fine

LEMMA ReadStep ==
  ASSUME FetchIInv, NEW s \in XmlSources, ReadPieces(s)
  PROVE  FetchIInv'
<1>1. FetchTypeOK /\ CloseInv /\ Fine(s)
  BY AllFine
<1>2. /\ scan[s].pc = "read" /\ scan[s] \in ScanRecord /\ scan[s].at \in Nat /\ scan[s].at <= Len(Documents[s])
      /\ scan[s].window \in Seq(STRING) /\ scan[s].over = "no" /\ elementIn(scan[s].window).to = 0
  BY <1>1, TypeParts DEF ReadPieces, Fine
<1>3. UNCHANGED <<queue, drained, closed, returned>>
  BY DEF ReadPieces
<1> DEFINE a == scan[s].at
           d == Documents[s]
           left == Len(d) - a
<1>4. d \in Seq(STRING) /\ Len(d) \in Nat /\ a \in Nat /\ left \in Nat /\ a + left = Len(d)
  BY <1>2, DocsAre
<1>5. Min({ReadMax, left}) \in Nat /\ Min({ReadMax, left}) <= left
  <2>1. ReadMax \in Nat
    BY FetchAssumption
  <2> HIDE DEF left
  <2> QED
    BY <1>4, <2>1, LeastOfTwo
<1>6. PICK n \in 0..Min({ReadMax, left}), over \in {"no", "eof", "error"} :
        /\ n = 0 => over # "no"
        /\ over = "eof" => n = left
        /\ scan' = [scan EXCEPT ![s] = [scan[s] EXCEPT
             !.at = @ + n, !.over = over, !.window = @ \o SubSeq(d, a + 1, a + n),
             !.pc = IF n > 0 THEN "cut" ELSE "gone"]]
  BY DEF ReadPieces
<1>7. n \in Nat /\ n <= left /\ a + n \in Nat /\ a + n <= Len(d)
  BY <1>4, <1>5
<1> DEFINE got == SubSeq(d, a + 1, a + n)
           r == [scan[s] EXCEPT !.at = a + n, !.over = over, !.window = scan[s].window \o got,
                                !.pc = IF n > 0 THEN "cut" ELSE "gone"]
<1>8. scan' = [scan EXCEPT ![s] = r]
  <2> DEFINE z == scan[s]
             y == [z EXCEPT !.at = @ + n, !.over = over, !.window = @ \o got, !.pc = IF n > 0 THEN "cut" ELSE "gone"]
  <2>1. z \in ScanRecord
    BY <1>2
  <2>2. scan' = [scan EXCEPT ![s] = y]
    BY <1>6
  <2>3. r = [z EXCEPT !.at = z.at + n, !.over = over, !.window = z.window \o got, !.pc = IF n > 0 THEN "cut" ELSE "gone"]
    OBVIOUS
  <2> HIDE DEF z, got, a
  <2>4. y = [z EXCEPT !.at = z.at + n, !.over = over, !.window = z.window \o got, !.pc = IF n > 0 THEN "cut" ELSE "gone"]
    BY <2>1 DEF ScanRecord
  <2> QED
    BY <2>2, <2>3, <2>4
<1> HIDE DEF left, d, a
<1>9. got \in Seq(STRING) /\ SubSeq(d, a + n + 1, Len(d)) \in Seq(STRING)
      /\ got \o SubSeq(d, a + n + 1, Len(d)) = SubSeq(d, a + 1, Len(d))
  BY <1>4, <1>7, ReadOn
<1> HIDE DEF got
<1>10. scan[s].window \o got \in Seq(STRING)
  BY <1>2, <1>9
<1>11. /\ r \in ScanRecord /\ r.at = a + n /\ r.over = over /\ r.window = scan[s].window \o got
       /\ r.pc = IF n > 0 THEN "cut" ELSE "gone"
  <2> DEFINE w == scan[s].window \o got
  <2>1. w \in Seq(STRING)
    BY <1>10
  <2> HIDE DEF w
  <2>2. [scan[s] EXCEPT !.at = a + n, !.over = over, !.window = w, !.pc = IF n > 0 THEN "cut" ELSE "gone"] \in ScanRecord
    BY <1>2, <1>7, <2>1 DEF ScanRecord
  <2>3. r = [scan[s] EXCEPT !.at = a + n, !.over = over, !.window = w, !.pc = IF n > 0 THEN "cut" ELSE "gone"]
    BY DEF w
  <2> HIDE DEF r
  <2>4. r.at = a + n /\ r.over = over /\ r.window = w /\ r.pc = IF n > 0 THEN "cut" ELSE "gone"
    BY <1>2, <2>3 DEF ScanRecord
  <2> QED
    BY <2>2, <2>3, <2>4 DEF w
<1> HIDE DEF r
<1>12. elementsFrom[r.window \o Pieces(s, r.at)] = elementsFrom[scan[s].window \o Pieces(s, scan[s].at)]
  <2>1. Pieces(s, r.at) = SubSeq(d, a + n + 1, Len(d)) /\ Pieces(s, scan[s].at) = SubSeq(d, a + 1, Len(d))
    BY <1>11 DEF Pieces, d, a
  <2> DEFINE w == scan[s].window
             z == SubSeq(d, a + n + 1, Len(d))
  <2>2. (w \o got) \o z = w \o (got \o z)
    <3>1. w \in Seq(STRING) /\ z \in Seq(STRING) /\ got \in Seq(STRING)
      BY <1>2, <1>9
    <3> HIDE DEF w, z
    <3> QED
      BY <3>1
  <2> QED
    BY <1>9, <1>11, <2>1, <2>2
<1>13. r.pc = "gone" => elementIn(r.window).to = 0
  <2> SUFFICES ASSUME r.pc = "gone" PROVE elementIn(r.window).to = 0
    OBVIOUS
  <2>1. n = 0
    BY <1>7, <1>11
  <2>2. got = <<>>
    BY <1>4, <2>1 DEF got
  <2>3. r.window = scan[s].window
    BY <1>2, <1>11, <2>2
  <2> QED
    BY <1>2, <2>3
<1>14. ScansTypeOK' /\ ListsTypeOK' /\ \A t \in XmlSources : Fine(t)'
  <2>1. scan[s].pc # "gone" /\ r.pc \notin {"ask", "read"} /\ r.at <= Len(Documents[s])
    BY <1>2, <1>7, <1>11 DEF d
  <2>2. r.over = "eof" => r.at = Len(Documents[s])
    BY <1>4, <1>6, <1>11 DEF d
  <2> QED
    BY <1>3, <1>8, <1>11, <1>12, <1>13, <2>1, <2>2, ScanStep
<1>15. CloseInv' /\ closed' \in BOOLEAN /\ returned' \in BOOLEAN
  <2>1. scan[s].pc # "gone"
    BY <1>2
  <2>2. CloseInv'
    BY <1>1, <1>3, <2>1, CloseKept
  <2> QED
    BY <1>1, <1>3, <2>2 DEF FetchTypeOK
<1> QED
  BY <1>14, <1>15 DEF FetchIInv, FetchTypeOK, ScansTypeOK, ListsTypeOK, ScanRecord, ScanInv, SplitsDoNotMatter, Fine

LEMMA TrimStep ==
  ASSUME FetchIInv, NEW s \in XmlSources, NoMoreElements(s)
  PROVE  FetchIInv'
<1>1. FetchTypeOK /\ CloseInv /\ Fine(s)
  BY AllFine
<1>2. /\ scan[s].pc = "cut" /\ scan[s] \in ScanRecord /\ scan[s].at \in Nat /\ scan[s].at <= Len(Documents[s])
      /\ scan[s].window \in Seq(STRING) /\ elementIn(scan[s].window).to = 0
      /\ scan[s].over = "eof" => scan[s].at = Len(Documents[s])
  BY <1>1, TypeParts DEF NoMoreElements, Fine
<1>3. UNCHANGED <<queue, drained, closed, returned>>
  BY DEF NoMoreElements
<1> DEFINE v == trim(scan[s].window)
           r == [scan[s] EXCEPT !.window = v, !.pc = IF scan[s].over = "no" THEN "read" ELSE "gone"]
<1>4. scan' = [scan EXCEPT ![s] = r]
  BY DEF NoMoreElements
<1>5. /\ v \in Seq(STRING) /\ elementIn(v).to = 0
      /\ elementsFrom[v \o Pieces(s, scan[s].at)] = elementsFrom[scan[s].window \o Pieces(s, scan[s].at)]
  <2>1. Pieces(s, scan[s].at) \in Seq(STRING)
    BY <1>2, RestTexts
  <2> QED
    BY <1>2, <2>1, TrimKeeps
<1> HIDE DEF v
<1>6. /\ r \in ScanRecord /\ r.at = scan[s].at /\ r.over = scan[s].over /\ r.window = v
      /\ r.pc = IF scan[s].over = "no" THEN "read" ELSE "gone"
  BY <1>2, <1>5 DEF ScanRecord
<1> HIDE DEF r
<1>7. ScansTypeOK' /\ ListsTypeOK' /\ \A t \in XmlSources : Fine(t)'
  <2>1. scan[s].pc # "gone" /\ r.pc # "ask" /\ r.at <= Len(Documents[s]) /\ (r.pc = "read" => r.over = "no")
    BY <1>2, <1>6
  <2>2. elementIn(r.window).to = 0 /\ (r.over = "eof" => r.at = Len(Documents[s]))
        /\ elementsFrom[r.window \o Pieces(s, r.at)] = elementsFrom[scan[s].window \o Pieces(s, scan[s].at)]
    BY <1>2, <1>5, <1>6
  <2> QED
    BY <1>3, <1>4, <1>6, <2>1, <2>2, ScanStep
<1>8. CloseInv' /\ closed' \in BOOLEAN /\ returned' \in BOOLEAN
  <2>1. scan[s].pc # "gone"
    BY <1>2
  <2>2. CloseInv'
    BY <1>1, <1>3, <2>1, CloseKept
  <2> QED
    BY <1>1, <1>3, <2>2 DEF FetchTypeOK
<1> QED
  BY <1>7, <1>8 DEF FetchIInv, FetchTypeOK, ScansTypeOK, ListsTypeOK, ScanRecord, ScanInv, SplitsDoNotMatter, Fine

LEMMA SendStep ==
  ASSUME FetchIInv, NEW s \in XmlSources, SendElement(s)
  PROVE  FetchIInv'
<1> DEFINE e == elementIn(scan[s].window)
           w == scan[s].window
           text == SubSeq(w, e.from, e.to)
           rest == SubSeq(w, e.to + 1, Len(w))
           x == Elem(s, text)
           r == [scan[s] EXCEPT !.window = rest]
<1>1. FetchTypeOK /\ CloseInv /\ ScansTypeOK /\ ListsTypeOK /\ \A t \in XmlSources : Fine(t)
  BY AllFine, TypeIs
<1>2. /\ scan[s].pc = "cut" /\ scan[s] \in ScanRecord /\ scan[s].at \in Nat /\ scan[s].at <= Len(Documents[s])
      /\ w \in Seq(STRING)
  BY <1>1, TypeParts DEF SendElement
<1>3. /\ e.to > 0 /\ hasRoom(e.kind) /\ queue' = [queue EXCEPT ![e.kind] = Append(@, x)]
      /\ scan' = [scan EXCEPT ![s] = r] /\ UNCHANGED <<closed, drained, returned>>
  BY DEF SendElement
<1>4. /\ e.kind \in Kinds /\ e.from \in Nat /\ 1 <= e.from /\ e.to \in Nat /\ e.from <= e.to
      /\ e.to <= Len(w) /\ Len(w) \in Nat /\ e.to # 0
  <2>1. e \in Found
    BY <1>2, ElementBegun, ElementEnded
  <2>2. e.to # 0
    BY <1>3, <2>1 DEF Found
  <2> QED
    BY <1>2, <2>2, Complete
<1>5. rest \in Seq(STRING) /\ text \in Texts
  BY <1>2, <1>4 DEF Texts
<1>6. \A k \in Kinds : TextsIn(elementsFrom[w \o Pieces(s, scan[s].at)], OfKind(k))
                         = (IF e.kind = k THEN <<text>> ELSE <<>>)
                             \o TextsIn(elementsFrom[rest \o Pieces(s, scan[s].at)], OfKind(k))
  <2>1. Pieces(s, scan[s].at) \in Seq(STRING)
    BY <1>2, RestTexts
  <2> QED
    BY <1>2, <1>4, <2>1, CutOne
<1> HIDE DEF e, text, rest
<1>7. x \in Element /\ x.text = text /\ \A t : x \in SentBy(t) <=> t = s
  BY <1>5 DEF Elem, Element, SentBy, Texts
<1>8. r \in ScanRecord /\ r.at = scan[s].at /\ r.over = scan[s].over /\ r.window = rest /\ r.pc = "cut"
  BY <1>2, <1>5 DEF ScanRecord
<1> HIDE DEF r, x, w
<1>9. ScansTypeOK' /\ scan'[s] = r /\ \A t \in XmlSources : t # s => scan'[t] = scan[t]
  BY <1>1, <1>2, <1>3, <1>8, ScansKept
<1>10. ListsTypeOK'
  <2>1. queue[e.kind] \in Seq(Element) /\ Append(queue[e.kind], x) \in Seq(Element)
        /\ Len(Append(queue[e.kind], x)) = Len(queue[e.kind]) + 1 /\ Len(queue[e.kind]) \in Nat
    BY <1>1, <1>4, <1>7 DEF ListsTypeOK
  <2>2. Len(queue[e.kind]) < capacity[e.kind] /\ capacity[e.kind] \in Nat
    BY <1>3, <1>4, CapsAre DEF hasRoom
  <2>3. queue' \in [Kinds -> Seq(Element)] /\ \A k \in Kinds : queue'[k] = IF k = e.kind THEN Append(queue[k], x) ELSE queue[k]
    BY <1>1, <1>3, <1>4, <2>1 DEF ListsTypeOK
  <2>4. \A k \in Kinds : Len(queue'[k]) <= capacity[k]
    <3> TAKE k \in Kinds
    <3>1. CASE k = e.kind
      BY <2>1, <2>2, <2>3, <3>1
    <3>2. CASE k # e.kind
      BY <1>1, <2>3, <3>2 DEF ListsTypeOK
    <3> QED
      BY <3>1, <3>2
  <2>5. \A k \in Kinds : capacity'[k] = capacity[k]
    BY DEF capacity
  <2> QED
    BY <1>1, <1>3, <2>3, <2>4, <2>5 DEF ListsTypeOK
<1>11. ASSUME NEW t, NEW k \in Kinds
       PROVE  sentBy(t, k)' = sentBy(t, k) \o (IF t = s /\ e.kind = k THEN <<text>> ELSE <<>>)
  <2>1. sentBy(t, k) \in Seq(Texts)
    BY <1>1, SentType
  <2>2. CASE e.kind = k
    <3>1. drained[k] \in Seq(Element) /\ queue[k] \in Seq(Element)
      BY <1>1 DEF ListsTypeOK
    <3>2. drained'[k] = drained[k] /\ queue'[k] = Append(queue[k], x)
      BY <1>1, <1>3, <2>2 DEF ListsTypeOK
    <3> DEFINE l == drained[k] \o queue[k]
    <3>3. l \in Seq(Element) /\ drained'[k] \o queue'[k] = Append(l, x)
      <4> DEFINE c == drained[k]
                 q == queue[k]
      <4>1. c \in Seq(Element) /\ q \in Seq(Element)
        BY <3>1
      <4>2. drained'[k] \o queue'[k] = c \o Append(q, x) /\ l = c \o q
        BY <3>2
      <4> HIDE DEF c, q, l
      <4>3. c \o q \in Seq(Element) /\ c \o Append(q, x) = Append(c \o q, x)
        BY <1>7, <4>1
      <4> QED
        BY <4>2, <4>3
    <3>4. sentBy(t, k)' = TextsIn(drained'[k] \o queue'[k], SentBy(t))
      BY DEF sentBy
    <3>5. sentBy(t, k) = TextsIn(l, SentBy(t))
      BY DEF sentBy
    <3> HIDE DEF l
    <3>6. TextsIn(Append(l, x), SentBy(t)) = IF x \in SentBy(t) THEN Append(TextsIn(l, SentBy(t)), x.text) ELSE TextsIn(l, SentBy(t))
      BY <1>7, <3>3, TextsAppended, ElementsHaveTexts
    <3>7. sentBy(t, k)' = IF t = s THEN Append(sentBy(t, k), text) ELSE sentBy(t, k)
      BY <1>7, <3>3, <3>4, <3>5, <3>6
    <3> DEFINE b == sentBy(t, k)
    <3>8. Append(b, text) = b \o <<text>> /\ b \o <<>> = b
      <4>1. b \in Seq(Texts)
        BY <2>1
      <4> HIDE DEF b
      <4> QED
        BY <1>5, <4>1
    <3> QED
      BY <2>2, <3>7, <3>8
  <2>3. CASE e.kind # k
    <3>1. drained'[k] = drained[k] /\ queue'[k] = queue[k]
      BY <1>1, <1>3, <2>3 DEF ListsTypeOK
    <3>2. sentBy(t, k)' = sentBy(t, k)
      BY <3>1, SentSame
    <3>3. sentBy(t, k) \o <<>> = sentBy(t, k)
      BY <2>1, NothingBehind
    <3> QED
      BY <2>3, <3>2, <3>3
  <2> QED
    BY <2>2, <2>3
<1>12. ASSUME NEW t \in XmlSources, t # s PROVE Fine(t)'
  <2>1. \A k \in Kinds : sentBy(t, k)' = sentBy(t, k)
    <3> TAKE k \in Kinds
    <3>1. sentBy(t, k)' = sentBy(t, k) \o <<>>
      BY <1>11, <1>12
    <3>2. sentBy(t, k) \in Seq(Texts)
      BY <1>1, SentType
    <3> QED
      BY <3>1, <3>2, NothingBehind
  <2> QED
    BY <1>1, <1>9, <1>12, <2>1, FineSame
<1>13. Fine(s)'
  <2>1. ASSUME NEW k \in Kinds
        PROVE  sentBy(s, k)' \o ToFind(s, k)' = ElementsOf[s][k] /\ IsPrefix(sentBy(s, k)', ElementsOf[s][k])
    <3> DEFINE given == sentBy(s, k)
               piece == IF e.kind = k THEN <<text>> ELSE <<>>
               find == TextsIn(elementsFrom[rest \o Pieces(s, scan[s].at)], OfKind(k))
    <3>1. given \in Seq(Texts) /\ piece \in Seq(Texts)
      BY <1>1, <1>5, SentType
    <3>2. find \in Seq(Texts)
      BY <1>2, <1>5, RestTexts
    <3>3. ToFind(s, k) = piece \o find
      BY <1>6 DEF ToFind, Rest, Pieces, w
    <3>4. ToFind(s, k)' = find
      BY <1>8, <1>9 DEF ToFind, Rest, Pieces
    <3>5. sentBy(s, k)' = given \o piece
      BY <1>11
    <3>6. given \o (piece \o find) = ElementsOf[s][k]
      BY <1>1, <1>2, <3>3 DEF Fine
    <3> HIDE DEF given, piece, find
    <3>9. (given \o piece) \o find = given \o (piece \o find) /\ given \o piece \in Seq(Texts)
      BY <3>1, <3>2, Associates
    <3>7. (given \o piece) \o find = ElementsOf[s][k] /\ given \o piece \in Seq(Texts)
      BY <3>6, <3>9
    <3>8. IsPrefix(given \o piece, ElementsOf[s][k])
      BY <3>2, <3>7, GoesOn
    <3> QED
      BY <3>4, <3>5, <3>7, <3>8
  <2>2. scan[s].over = "eof" => scan[s].at = Len(Documents[s])
    BY <1>1 DEF Fine
  <2> QED
    BY <1>8, <1>9, <2>1, <2>2 DEF Fine
<1>14. CloseInv' /\ closed' \in BOOLEAN /\ returned' \in BOOLEAN
  <2>1. scan[s].pc # "gone"
    BY <1>2
  <2>2. CloseInv'
    BY <1>1, <1>3, <2>1, CloseKept
  <2> QED
    BY <1>1, <1>3, <2>2 DEF FetchTypeOK
<1>15. \A t \in XmlSources : Fine(t)'
  BY <1>12, <1>13
<1> QED
  BY <1>9, <1>10, <1>14, <1>15 DEF FetchIInv, FetchTypeOK, ScansTypeOK, ListsTypeOK, ScanRecord, ScanInv, SplitsDoNotMatter, Fine

\* A list's head goes to the other list's end: together they are what they were.
LEMMA HeadMoves ==
  ASSUME NEW c \in Seq(Element), NEW q \in Seq(Element), q # <<>>
  PROVE  /\ Append(c, Head(q)) \in Seq(Element) /\ Tail(q) \in Seq(Element) /\ Len(Tail(q)) <= Len(q)
         /\ Append(c, Head(q)) \o Tail(q) = c \o q
<1>1. /\ Head(q) \in Element /\ Tail(q) \in Seq(Element) /\ Len(Tail(q)) = Len(q) - 1 /\ Len(q) \in Nat
  OBVIOUS
<1>2. q = <<Head(q)>> \o Tail(q)
  OBVIOUS
<1> DEFINE h == Head(q)
           t == Tail(q)
<1>3. h \in Element /\ t \in Seq(Element)
  BY <1>1
<1>4. q = <<h>> \o t
  BY <1>2
<1> HIDE DEF h, t
<1>5. Append(c, h) \o t = c \o (<<h>> \o t) /\ Append(c, h) \in Seq(Element)
  BY <1>3
<1>6. Append(c, h) \o t = c \o q
  BY <1>4, <1>5
<1> QED
  BY <1>1, <1>5, <1>6 DEF h, t

LEMMA DrainStep ==
  ASSUME FetchIInv, NEW k \in Kinds, Drain(k)
  PROVE  FetchIInv'
<1>1. FetchTypeOK /\ CloseInv /\ ScansTypeOK /\ ListsTypeOK /\ \A t \in XmlSources : Fine(t)
  BY AllFine, TypeIs
<1>2. /\ queue[k] # <<>> /\ UNCHANGED <<scan, closed, returned>>
      /\ drained' = [drained EXCEPT ![k] = Append(@, Head(queue[k]))] /\ queue' = [queue EXCEPT ![k] = Tail(@)]
  BY DEF Drain, Drains
<1>3. drained[k] \in Seq(Element) /\ queue[k] \in Seq(Element) /\ Len(queue[k]) <= capacity[k] /\ capacity[k] \in Nat
  BY <1>1, CapsAre DEF ListsTypeOK
<1>4. /\ Append(drained[k], Head(queue[k])) \in Seq(Element) /\ Tail(queue[k]) \in Seq(Element)
      /\ Len(Tail(queue[k])) <= Len(queue[k])
      /\ Append(drained[k], Head(queue[k])) \o Tail(queue[k]) = drained[k] \o queue[k]
  BY <1>2, <1>3, HeadMoves
<1>5. /\ drained'[k] = Append(drained[k], Head(queue[k])) /\ queue'[k] = Tail(queue[k])
      /\ \A o \in Kinds : o # k => drained'[o] = drained[o] /\ queue'[o] = queue[o]
      /\ drained' \in [Kinds -> Seq(Element)] /\ queue' \in [Kinds -> Seq(Element)]
  BY <1>1, <1>2, <1>4 DEF ListsTypeOK
<1>6. ListsTypeOK'
  <2>1. \A o \in Kinds : Len(queue'[o]) <= capacity[o]
    <3> TAKE o \in Kinds
    <3>1. CASE o = k
      <4>1. Len(Tail(queue[k])) \in Nat /\ Len(queue[k]) \in Nat
        BY <1>3, <1>4
      <4> QED
        BY <1>3, <1>4, <1>5, <3>1, <4>1
    <3>2. CASE o # k
      BY <1>1, <1>5, <3>2 DEF ListsTypeOK
    <3> QED
      BY <3>1, <3>2
  <2>2. \A o \in Kinds : capacity'[o] = capacity[o]
    BY DEF capacity
  <2> QED
    BY <1>5, <2>1, <2>2 DEF ListsTypeOK
<1>7. \A t \in XmlSources, o \in Kinds : sentBy(t, o)' = sentBy(t, o)
  <2> TAKE t \in XmlSources, o \in Kinds
  <2>1. drained'[o] \o queue'[o] = drained[o] \o queue[o]
    BY <1>4, <1>5
  <2> QED
    BY <2>1, SentSame
<1>8. ScansTypeOK' /\ \A t \in XmlSources : Fine(t)'
  <2>1. ScansTypeOK'
    BY <1>1, <1>2 DEF ScansTypeOK
  <2>2. ASSUME NEW t \in XmlSources PROVE Fine(t)'
    BY <1>1, <1>2, <1>7, FineSame
  <2> QED
    BY <2>1, <2>2
<1>9. CloseInv' /\ closed' \in BOOLEAN /\ returned' \in BOOLEAN
  <2>1. ~drainWait
    BY <1>2 DEF drainWait
  <2> QED
    BY <1>1, <1>2, <2>1 DEF CloseInv, FetchTypeOK
<1> QED
  BY <1>6, <1>8, <1>9 DEF FetchIInv, FetchTypeOK, ScansTypeOK, ListsTypeOK, ScanRecord, ScanInv, SplitsDoNotMatter, Fine

LEMMA EndSteps ==
  ASSUME FetchIInv, CloseQueues \/ FetchReturns \/ UNCHANGED fetchVars
  PROVE  FetchIInv'
<1>1. FetchTypeOK /\ CloseInv /\ ScansTypeOK /\ ListsTypeOK /\ \A t \in XmlSources : Fine(t)
  BY AllFine, TypeIs
<1>2. UNCHANGED <<scan, queue, drained>>
  BY DEF CloseQueues, FetchReturns, fetchVars
<1>3. ScansTypeOK' /\ ListsTypeOK'
  BY <1>1, <1>2 DEF ScansTypeOK, ListsTypeOK, capacity
<1>4. \A t \in XmlSources : Fine(t)'
  <2> TAKE t \in XmlSources
  <2>1. \A k \in Kinds : sentBy(t, k)' = sentBy(t, k)
    BY <1>2, SentSame
  <2> QED
    BY <1>1, <1>2, <2>1, FineSame
<1>5. CloseInv' /\ closed' \in BOOLEAN /\ returned' \in BOOLEAN
  <2>1. CASE CloseQueues
    BY <1>1, <2>1 DEF CloseQueues, CloseInv, FetchTypeOK, drainWait
  <2>2. CASE FetchReturns
    BY <1>1, <2>2 DEF FetchReturns, CloseInv, FetchTypeOK, drainWait
  <2>3. CASE UNCHANGED fetchVars
    BY <1>1, <2>3 DEF fetchVars, CloseInv, FetchTypeOK, drainWait
  <2> QED
    BY <2>1, <2>2, <2>3
<1> QED
  BY <1>3, <1>4, <1>5 DEF FetchIInv, FetchTypeOK, ScansTypeOK, ListsTypeOK, ScanRecord, ScanInv, SplitsDoNotMatter, Fine

\* Until it has returned, somebody can go on: a source that waits for room waits for a
\* drain, which waits for nobody.
LEMMA SomebodyGoesOn ==
  ASSUME FetchIInv
  PROVE  NeverStuck
<1>1. FetchTypeOK /\ CloseInv
  BY DEF FetchIInv
<1>2. SUFFICES ASSUME ~returned, \A k \in Kinds : ~Drains(k)
               PROVE  (\E s \in XmlSources : CanScan(s)) \/ (\A s \in XmlSources : scan[s].pc = "gone")
  BY DEF NeverStuck, drainWait, Drains
<1>3. \A k \in Kinds : queue[k] = <<>> /\ hasRoom(k)
  <2> TAKE k \in Kinds
  <2>1. queue[k] = <<>>
    BY <1>2 DEF Drains
  <2>2. Len(queue[k]) = 0
    BY <2>1
  <2> QED
    BY <2>1, <2>2, CapsAre DEF hasRoom
<1>4. ASSUME NEW s \in XmlSources, scan[s].pc # "gone" PROVE CanScan(s)
  <2>1. scan[s].pc \in {"ask", "read", "cut", "gone"} /\ scan[s].window \in Seq(STRING)
    BY <1>1, TypeParts
  <2> DEFINE e == elementIn(scan[s].window)
  <2>2. e.to > 0 => e.kind \in Kinds
    <3> SUFFICES ASSUME e.to > 0 PROVE e.kind \in Kinds
      OBVIOUS
    <3>1. e.to # 0
      <4> HIDE DEF e
      <4> QED
        OBVIOUS
    <3> QED
      BY <2>1, <3>1, Complete
  <2> QED
    BY <1>3, <1>4, <2>1, <2>2 DEF CanScan
<1> QED
  BY <1>4

\* However the reads cut its documents and whatever order the sources and the drains run
\* in, a download's elements all arrive, whole and once, and nobody waits for ever: for any
\* documents, read size, tail of at least one piece, and capacities (FetchEPGData).
THEOREM FetchAlwaysHolds == FetchSpec => []FetchInv
<1>1. FetchInit => FetchIInv
  BY FetchStarts
<1>2. FetchIInv /\ [FetchNext]_fetchVars => FetchIInv'
  <2> SUFFICES ASSUME FetchIInv, [FetchNext]_fetchVars PROVE FetchIInv'
    OBVIOUS
  <2>1. ASSUME NEW s \in XmlSources,
               Answered(s) \/ Unanswered(s) \/ Cancelled(s) \/ ReadPieces(s) \/ SendElement(s) \/ NoMoreElements(s)
        PROVE  FetchIInv'
    BY <2>1, AskSteps, ReadStep, SendStep, TrimStep
  <2>2. ASSUME NEW k \in Kinds, Drain(k) PROVE FetchIInv'
    BY <2>2, DrainStep
  <2>3. CASE CloseQueues \/ FetchReturns \/ UNCHANGED fetchVars
    BY <2>3, EndSteps
  <2> QED
    BY <2>1, <2>2, <2>3 DEF FetchNext
<1>3. FetchIInv => FetchInv
  <2>1. FetchIInv => ReturnsEverything
    BY DEF FetchIInv, CloseInv, ReturnsEverything, drainWait
  <2> QED
    BY <2>1, SomebodyGoesOn DEF FetchInv, FetchIInv
<1> QED
  BY <1>1, <1>2, <1>3, PTL DEF FetchSpec

===============================================================================
