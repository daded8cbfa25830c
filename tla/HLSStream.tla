----------------------------- MODULE HLSStream ------------------------------
(***************************************************************************)
(* The loop that plays an HLS media playlist (restream/hls.go,             *)
(* streamHLSSegmentsFrom) against a live source that keeps publishing      *)
(* segments while the loop is working through an older copy of the         *)
(* playlist.  Segments are numbered in the order they are published, which *)
(* is also their order in a playlist.  SegmentTracker decides what was     *)
(* already played.  A segment's bytes go to the clients as they arrive;    *)
(* one that fails, before its first byte or part-way, is not marked and is *)
(* sent again from its first byte at the next refresh.                     *)
(***************************************************************************)
EXTENDS SegmentTracker, Sequences, FiniteSets

CONSTANTS
  TrackerSize,  \* HLSSegmentTrackerSize
  LiveEdge,     \* HLSLiveEdgeSegments
  MaxEmpty,     \* HLSMaxEmptyRefreshes
  MaxErrors,    \* HLSMaxSegmentErrors
  MaxWindow,    \* segments a sliding playlist lists
  FirstWindows, \* segments the playlist may list when the loop starts
  Grows,        \* the playlist keeps every segment instead of sliding
  MaxSeq,       \* bound: segments the source publishes
  MaxCuts       \* bound: attempts that fail after their first bytes were sent

ASSUME HLSAssumption ==
  /\ TrackerSize \in Nat \ {0} /\ LiveEdge \in Nat /\ MaxEmpty \in Nat \ {0}
  /\ MaxErrors \in Nat /\ MaxWindow \in Nat \ {0} /\ Grows \in BOOLEAN
  /\ MaxSeq \in Nat /\ MaxCuts \in Nat
  /\ FirstWindows \subseteq (0 .. MaxWindow) \cap (0 .. MaxSeq)
  /\ Segment = 1 .. MaxSeq
  /\ TrackerSize \in Sizes /\ \A n \in 1 .. MaxSeq : 2 * n \in Sizes

VARIABLES
  oldest, newest,  \* the source's playlist: oldest .. newest
  pc,              \* where the loop is
  last,            \* the last segment of the playlist being worked through
  cur,             \* the segment looked at, last + 1 at the end of the range
  isFirstFetch,    \* local variable of that name
  errors,          \* segmentErrors
  anyNew,          \* newSegmentCount > 0
  emptyRefreshes,  \* consecutiveEmptyRefresh, counted up to MaxEmpty
  sent,            \* history: the attempts that sent bytes to the clients, in order
  heldBack,        \* history: the segments marked unplayed at the first fetch
  failed           \* history: the segments that failed at least once

sourceVars == <<oldest, newest>>
roundVars  == <<last, isFirstFetch>>
histVars   == <<sent, heldBack, failed>>
vars == <<trackerVars, sourceVars, roundVars, histVars, pc, cur, errors, anyNew, emptyRefreshes>>

HLSInit ==
  /\ TrackerInit(TrackerSize)
  /\ oldest = 1 /\ newest \in FirstWindows
  /\ pc = "fetch" /\ last = 0 /\ cur = 1 /\ isFirstFetch = FALSE
  /\ errors = 0 /\ anyNew = FALSE /\ emptyRefreshes = 0
  /\ sent = <<>> /\ heldBack = {} /\ failed = {}

\* The source publishes a segment; a sliding playlist drops its oldest one.
Publish ==
  /\ newest < MaxSeq
  /\ newest' = newest + 1
  /\ oldest' = IF ~Grows /\ newest' - oldest >= MaxWindow THEN oldest + 1 ELSE oldest
  /\ UNCHANGED <<trackerVars, roundVars, histVars, pc, cur, errors, anyNew, emptyRefreshes>>

\* Fault: the tracker keeps its configured size.
FetchUnsized ==
  /\ pc = "fetch" /\ pc' = "segment"
  /\ cur' = oldest /\ last' = newest
  /\ isFirstFetch' = (currentSize = 0)
  /\ errors' = 0 /\ anyNew' = FALSE
  /\ UNCHANGED <<trackerVars, sourceVars, histVars, emptyRefreshes>>

\* A playlist is fetched; at the first fetch the tracker is replaced by one
\* with room for twice the playlist if it is too small for it.
Fetch ==
  /\ pc = "fetch" /\ pc' = "segment"
  /\ cur' = oldest /\ last' = newest
  /\ isFirstFetch' = (currentSize = 0)
  /\ errors' = 0 /\ anyNew' = FALSE
  /\ LET n == newest - oldest + 1
     IN  IF currentSize = 0 /\ n > maxSize \div 2
         THEN Fresh(2 * n) ELSE UNCHANGED trackerVars
  /\ UNCHANGED <<sourceVars, histVars, emptyRefreshes>>

\* The playlist cannot be fetched, the context is cancelled or the last client
\* has left: the loop returns.
Quit ==
  /\ pc \in {"fetch", "segment", "wait"} /\ pc' = "done"
  /\ UNCHANGED <<trackerVars, sourceVars, roundVars, histVars, cur, errors, anyNew,
                 emptyRefreshes>>

\* The segments before the last LiveEdge ones of the first playlist.
BehindEdge == isFirstFetch /\ cur <= last - LiveEdge

SkipProcessed ==
  /\ pc = "segment" /\ cur <= last /\ HasProcessed(cur)
  /\ cur' = cur + 1
  /\ UNCHANGED <<trackerVars, sourceVars, roundVars, histVars, pc, errors, anyNew,
                 emptyRefreshes>>

\* Fault: a segment behind the live edge is passed over without a mark.
HoldBackUnmarked ==
  /\ pc = "segment" /\ cur <= last /\ ~HasProcessed(cur) /\ BehindEdge
  /\ heldBack' = heldBack \cup {cur}
  /\ cur' = cur + 1
  /\ UNCHANGED <<trackerVars, sourceVars, roundVars, sent, failed, pc, errors, anyNew,
                 emptyRefreshes>>

HoldBack ==
  /\ pc = "segment" /\ cur <= last /\ ~HasProcessed(cur) /\ BehindEdge
  /\ MarkProcessed(cur)
  /\ heldBack' = heldBack \cup {cur}
  /\ cur' = cur + 1
  /\ UNCHANGED <<sourceVars, roundVars, sent, failed, pc, errors, anyNew, emptyRefreshes>>

\* An attempt at cur sends bytes; done: streamSegment reports success.
Sends(done) == sent' = Append(sent, [segment |-> cur, done |-> done])

\* streamSegment fails, part-way through the segment or before its first byte.
Cuts       == {i \in 1 .. Len(sent) : ~sent[i].done}
FailsAfter == (Cardinality(Cuts) < MaxCuts /\ Sends(FALSE)) \/ UNCHANGED sent

\* streamSegment succeeds: the segment was read to its end, or the context ended while
\* the loop paced itself, and then the segment is marked with its rest unsent.
Play ==
  /\ pc = "segment" /\ cur <= last /\ ~HasProcessed(cur) /\ ~BehindEdge
  /\ MarkProcessed(cur)
  /\ Sends(TRUE)
  /\ anyNew' = TRUE /\ emptyRefreshes' = 0
  /\ cur' = cur + 1
  /\ UNCHANGED <<sourceVars, roundVars, heldBack, failed, pc, errors>>

\* Fault: a segment is marked before it is streamed.
SegmentFailsMarked ==
  /\ pc = "segment" /\ cur <= last /\ ~HasProcessed(cur) /\ ~BehindEdge
  /\ MarkProcessed(cur)
  /\ FailsAfter
  /\ failed' = failed \cup {cur}
  /\ errors' = errors + 1
  /\ \/ errors' > MaxErrors /\ pc' = "done" /\ UNCHANGED cur
     \/ errors' <= MaxErrors /\ cur' = cur + 1 /\ UNCHANGED pc
  /\ UNCHANGED <<sourceVars, roundVars, heldBack, anyNew, emptyRefreshes>>

\* Fault: the number of errors in a round is not limited.
SegmentFailsUnlimited ==
  /\ pc = "segment" /\ cur <= last /\ ~HasProcessed(cur) /\ ~BehindEdge
  /\ FailsAfter
  /\ failed' = failed \cup {cur}
  /\ errors' = errors + 1
  /\ cur' = cur + 1
  /\ UNCHANGED <<trackerVars, sourceVars, roundVars, heldBack, pc, anyNew,
                 emptyRefreshes>>

\* streamSegment returns an error; too many in one round end the loop.
SegmentFails ==
  /\ pc = "segment" /\ cur <= last /\ ~HasProcessed(cur) /\ ~BehindEdge
  /\ FailsAfter
  /\ failed' = failed \cup {cur}
  /\ errors' = errors + 1
  /\ \/ errors' > MaxErrors /\ pc' = "done" /\ UNCHANGED cur
     \/ errors' <= MaxErrors /\ cur' = cur + 1 /\ UNCHANGED pc
  /\ UNCHANGED <<trackerVars, sourceVars, roundVars, heldBack, anyNew, emptyRefreshes>>

\* Fault: an empty refresh is not counted.
EndRoundUncounted ==
  /\ pc = "segment" /\ cur > last
  /\ emptyRefreshes' = 0
  /\ pc' = "wait"
  /\ UNCHANGED <<trackerVars, sourceVars, roundVars, histVars, cur, errors, anyNew>>

\* The end of a round without new segments counts as an empty refresh.
EndRound ==
  /\ pc = "segment" /\ cur > last
  /\ emptyRefreshes' = IF anyNew THEN 0
                       ELSE IF emptyRefreshes < MaxEmpty THEN emptyRefreshes + 1 ELSE MaxEmpty
  /\ pc' = "wait"
  /\ UNCHANGED <<trackerVars, sourceVars, roundVars, histVars, cur, errors, anyNew>>

\* Enough empty refreshes and HLSStallThreshold has passed since the last
\* segment: the source is given up as stalled.
Stall ==
  /\ pc = "wait" /\ emptyRefreshes >= MaxEmpty
  /\ pc' = "done"
  /\ UNCHANGED <<trackerVars, sourceVars, roundVars, histVars, cur, errors, anyNew,
                 emptyRefreshes>>

Refresh ==
  /\ pc = "wait" /\ pc' = "fetch"
  /\ UNCHANGED <<trackerVars, sourceVars, roundVars, histVars, cur, errors, anyNew,
                 emptyRefreshes>>

Loop == Fetch \/ SkipProcessed \/ HoldBack \/ Play \/ SegmentFails \/ EndRound \/ Refresh

HLSNext == Publish \/ Quit \/ Loop \/ Stall

HLSSpec == HLSInit /\ [][HLSNext]_vars

\* The loop keeps running, and while no segment arrives the clock passes
\* HLSStallThreshold, so a loop that stays at MaxEmpty takes the stall branch.
\* Nothing is assumed about the source, the context or the clients.
HLSFairSpec == HLSSpec /\ WF_vars(Loop) /\ SF_vars(Stall)

-----------------------------------------------------------------------------
(* Properties *)

HLSTypeOK ==
  /\ oldest \in Nat /\ newest \in 0 .. MaxSeq
  /\ pc \in {"fetch", "segment", "wait", "done"}
  /\ last \in 0 .. MaxSeq /\ cur \in 1 .. MaxSeq + 1
  /\ errors \in 0 .. MaxErrors + 1 /\ emptyRefreshes \in 0 .. MaxEmpty
  /\ isFirstFetch \in BOOLEAN /\ anyNew \in BOOLEAN
  /\ sent \in Seq([segment : Segment, done : BOOLEAN])

\* A segment streamSegment reported as sent is never sent again, however the playlist
\* moves between refreshes and whatever the retries of failed segments do to the
\* tracker's order: only attempts that failed are repeated (hls.go 230-330).
NoReplay ==
  \A i, j \in 1 .. Len(sent) : i < j /\ sent[i].segment = sent[j].segment => ~sent[i].done

\* A segment is sent after a later one only as the retry of a failure.
OnlyRetriesReorder ==
  \A i, j \in 1 .. Len(sent) :
    i < j /\ sent[j].segment < sent[i].segment => sent[j].segment \in failed

\* "Track last 20 segments to prevent duplicates" (hls.go 188): no segment is begun
\* twice.  Violated: one that failed part-way is sent again from its first byte.
NoDuplicates ==
  \A i, j \in 1 .. Len(sent) : sent[i].segment = sent[j].segment => i = j

\* When a playlist has been worked through, each of its segments was reported as sent
\* or held back, or it failed and the tracker will let it be tried again.
Done(u) == \E i \in 1 .. Len(sent) : sent[i] = [segment |-> u, done |-> TRUE]
NothingLost ==
  pc = "wait" => \A u \in Segment :
    /\ HasProcessed(u) => u \in heldBack \/ Done(u)
    /\ u \in oldest .. last /\ ~HasProcessed(u) => u \in failed

\* A source that stops publishing does not hold the loop for ever, not even if
\* one of its last segments keeps failing.
StalledSourceEnds == <>(pc = "done")

\* Why they hold.  A tracker made for twice the playlist has room for every segment that
\* can be marked while one of the playlist's is still of use: either the playlist has its
\* full length when the tracker is made, or the configured size is enough for it.
Room == ~Grows /\ (TrackerSize >= 2 * MaxWindow - 1 \/ FirstWindows = {MaxWindow})

\* The tracker's segments, oldest first, and the segments that the loop may still look at.
memory   == [i \in 1 .. currentSize |-> segments[(head - currentSize + i - 1) % maxSize]]
Alive(u) == u >= oldest \/ (pc = "segment" /\ u >= cur)

RangeInv ==
  /\ oldest \in 1 .. newest + 1 /\ last <= newest
  /\ pc = "segment" => cur <= last + 1
  /\ pc = "wait" => cur = last + 1
  /\ pc # "done" => errors <= MaxErrors

WindowInv ==
  /\ newest < oldest + MaxWindow
  /\ pc = "segment" => last < cur + MaxWindow

RoomInv ==
  /\ maxSize >= TrackerSize
  /\ TrackerSize >= 2 * MaxWindow - 1 \/ newest = oldest + MaxWindow - 1
  /\ currentSize > 0 \/ pc = "segment" => maxSize >= 2 * MaxWindow - 1

\* Nothing outside the reach of a segment of use was marked after it.
MemoryInv ==
  /\ \A i \in 1 .. currentSize : memory[i] <= last
  /\ \A i, j \in 1 .. currentSize : i < j /\ Alive(memory[i]) =>
       memory[j] < memory[i] + MaxWindow /\ memory[i] < memory[j] + MaxWindow

\* What was sent and is still of use is remembered; what was passed was marked or failed.
SentInv ==
  /\ \A i \in 1 .. Len(sent) :
       /\ sent[i].segment <= last
       /\ sent[i].done /\ Alive(sent[i].segment) => HasProcessed(sent[i].segment)
  /\ \A u \in Segment : HasProcessed(u) => u \in heldBack \/ Done(u)
  /\ pc \in {"segment", "wait"} => \A u \in Segment :
       oldest <= u /\ u < cur => HasProcessed(u) \/ u \in failed
  /\ \A u \in Segment, i \in 1 .. Len(sent) :
       Alive(u) /\ u < sent[i].segment => HasProcessed(u) \/ u \in failed

HLSIInv == HLSTypeOK /\ IInv /\ RangeInv /\ WindowInv /\ RoomInv /\ MemoryInv /\ SentInv
           /\ NoReplay /\ OnlyRetriesReorder

\* The tracker and the sent segments belong together: the tracker's map and ring
\* buffer hold the same segments, and what a worked-through playlist listed was
\* reported as sent, held back, or failed and is open to a retry (hls.go 131-330).
HLSInv == HLSTypeOK /\ MapMatchesBuffer /\ NothingLost
=============================================================================
