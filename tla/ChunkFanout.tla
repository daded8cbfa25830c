---------------------------- MODULE ChunkFanout ----------------------------
(***************************************************************************)
(* How stream data reaches the clients (work/restream/restream.go          *)
(* DistributeToClients and drainClient, work/types/types.go StreamChunk).  *)
(* A feeder copies what it has read into a pooled, reference-counted chunk *)
(* and enqueues it for every client without ever blocking; a client that   *)
(* is behind loses its oldest chunk.  One goroutine per client takes       *)
(* chunks from its queue and writes them to the socket.  A chunk goes back *)
(* to the pool with its last reference, and its storage is then reused.    *)
(*                                                                         *)
(* There may be several feeders: the Stream goroutines of one channel can  *)
(* overlap (see Restreamer), and drainClient reckons with it.              *)
(***************************************************************************)
EXTENDS Integers, Sequences, FiniteSets

CONSTANTS
  Clients,   \* connections, each used once
  Feeders,   \* goroutines that call DistributeToClients
  Chunks,    \* bound: the StreamChunk objects there can be at a time
  None,      \* no chunk, no client
  Depth,     \* capacity of a client's WriteChan
  MaxReads   \* bound: calls of DistributeToClients

ASSUME FanoutAssumption ==
  /\ IsFiniteSet(Clients) /\ IsFiniteSet(Feeders) /\ None \notin Chunks \cup Clients
  /\ Depth \in Nat \ {0} /\ MaxReads \in Nat

VARIABLES
  free,      \* the chunks in chunkPool
  refs,      \* StreamChunk.refs
  data,      \* StreamChunk.Data: which read of which feeder it is a copy of
  member,    \* the clients in r.Clients
  gone,      \* the clients whose Done is closed
  queue,     \* RestreamClient.WriteChan
  drain,     \* where each client's drainClient is
  hand,      \* the chunk it is writing
  written,   \* history: what was written to each client's socket
  feed,      \* where each feeder is
  chunk,     \* its chunk
  target,    \* the client its Range is at
  todo,      \* the clients its Range may still visit
  reads      \* how many chunks were made

poolVars   == <<free, refs>>
clientVars == <<member, gone>>
drainVars  == <<drain, hand, written>>
feedVars   == <<feed, chunk, target, todo, reads, data>>
vars == <<poolVars, clientVars, queue, drainVars, feedVars>>

Init ==
  /\ free = Chunks /\ refs = [k \in Chunks |-> 0] /\ data = [k \in Chunks |-> None]
  /\ member = {} /\ gone = {}
  /\ queue = [c \in Clients |-> << >>]
  /\ drain = [c \in Clients |-> "none"] /\ hand = [c \in Clients |-> None]
  /\ written = [c \in Clients |-> << >>]
  /\ feed = [f \in Feeders |-> "idle"] /\ chunk = [f \in Feeders |-> None]
  /\ target = [f \in Feeders |-> None] /\ todo = [f \in Feeders |-> {}]
  /\ reads = 0

Retain(k) == refs' = [refs EXCEPT ![k] = @ + 1]

\* Fault: the chunk is pooled although somebody else still holds it.
ReleaseEarly(k) ==
  /\ refs' = [refs EXCEPT ![k] = @ - 1]
  /\ free' = IF refs[k] <= 2 THEN free \cup {k} ELSE free

\* Release: the last reference puts the chunk back.
Release(k) ==
  /\ refs' = [refs EXCEPT ![k] = @ - 1]
  /\ free' = IF refs[k] = 1 THEN free \cup {k} ELSE free

-----------------------------------------------------------------------------
(* Clients come and go *)

Join(c) ==
  /\ drain[c] = "none"
  /\ member' = member \cup {c}
  /\ drain' = [drain EXCEPT ![c] = "select"]
  /\ UNCHANGED <<poolVars, gone, queue, hand, written, feedVars>>

\* Whoever deletes the entry closes Done: RemoveClient or the cleanup ticker.
Remove(c) ==
  /\ c \in member
  /\ member' = member \ {c} /\ gone' = gone \cup {c}
  /\ UNCHANGED <<poolVars, queue, drainVars, feedVars>>

-----------------------------------------------------------------------------
(* drainClient *)

\* A select with both cases ready picks either, so a removed client may still
\* be sent what is queued.
DrainTake(c) ==
  /\ drain[c] = "select" /\ queue[c] # << >>
  /\ hand' = [hand EXCEPT ![c] = Head(queue[c])]
  /\ queue' = [queue EXCEPT ![c] = Tail(@)]
  /\ drain' = [drain EXCEPT ![c] = "write"]
  /\ UNCHANGED <<poolVars, clientVars, written, feedVars>>

\* Write and Flush succeed, then the reference is dropped.
DrainWrite(c) ==
  /\ drain[c] = "write"
  /\ written' = [written EXCEPT ![c] = Append(@, data[hand[c]])]
  /\ Release(hand[c])
  /\ hand' = [hand EXCEPT ![c] = None]
  /\ drain' = [drain EXCEPT ![c] = "select"]
  /\ UNCHANGED <<clientVars, queue, feedVars>>

\* Fault: an error return that forgets the reference.
DrainFailLeaks(c) ==
  /\ drain[c] = "write"
  /\ hand' = [hand EXCEPT ![c] = None]
  /\ drain' = [drain EXCEPT ![c] = "failed"]
  /\ UNCHANGED <<poolVars, clientVars, queue, written, feedVars>>

\* A write that fails, panics or misses its deadline.
DrainFail(c) ==
  /\ drain[c] = "write"
  /\ Release(hand[c])
  /\ hand' = [hand EXCEPT ![c] = None]
  /\ drain' = [drain EXCEPT ![c] = "failed"]
  /\ UNCHANGED <<clientVars, queue, written, feedVars>>

\* RemoveClient, and the goroutine returns with its queue as it is.
DrainLeave(c) ==
  /\ drain[c] = "failed"
  /\ member' = member \ {c} /\ gone' = gone \cup {c}
  /\ drain' = [drain EXCEPT ![c] = "ended"]
  /\ UNCHANGED <<poolVars, queue, hand, written, feedVars>>

DrainDone(c) ==
  /\ drain[c] = "select" /\ c \in gone
  /\ drain' = [drain EXCEPT ![c] = "flush"]
  /\ UNCHANGED <<poolVars, clientVars, queue, hand, written, feedVars>>

\* After Done: release what is queued, return when nothing is.
DrainFlush(c) ==
  /\ drain[c] = "flush"
  /\ \/ /\ queue[c] # << >> /\ Release(Head(queue[c]))
        /\ queue' = [queue EXCEPT ![c] = Tail(@)] /\ UNCHANGED drain
     \/ /\ queue[c] = << >> /\ drain' = [drain EXCEPT ![c] = "ended"]
        /\ UNCHANGED <<poolVars, queue>>
  /\ UNCHANGED <<clientVars, hand, written, feedVars>>

-----------------------------------------------------------------------------
(* DistributeToClients *)

\* NewStreamChunk: a pooled chunk, a copy of the data, one reference.
FeedNew(f) ==
  /\ feed[f] = "idle" /\ reads < MaxReads
  /\ \E k \in free :
       /\ free' = free \ {k} /\ refs' = [refs EXCEPT ![k] = 1]
       /\ data' = [data EXCEPT ![k] = <<f, reads + 1>>]
       /\ chunk' = [chunk EXCEPT ![f] = k]
  /\ reads' = reads + 1
  /\ feed' = [feed EXCEPT ![f] = "range"] /\ todo' = [todo EXCEPT ![f] = Clients]
  /\ UNCHANGED <<clientVars, queue, drainVars, target>>

\* Fault: the reference is taken only after the send.
FeedVisitBare(f, c) ==
  /\ feed[f] = "range" /\ c \in todo[f]
  /\ todo' = [todo EXCEPT ![f] = @ \ {c}]
  /\ c \in member
  /\ target' = [target EXCEPT ![f] = c] /\ feed' = [feed EXCEPT ![f] = "send"]
  /\ UNCHANGED <<poolVars, clientVars, queue, drainVars, chunk, reads, data>>

\* The Range comes to a client that is still in the map.
FeedVisit(f, c) ==
  /\ feed[f] = "range" /\ c \in todo[f]
  /\ todo' = [todo EXCEPT ![f] = @ \ {c}]
  /\ \/ /\ c \in member /\ Retain(chunk[f])
        /\ target' = [target EXCEPT ![f] = c] /\ feed' = [feed EXCEPT ![f] = "send"]
     \/ /\ c \notin member /\ UNCHANGED <<refs, target, feed>>
  /\ UNCHANGED <<free, clientVars, queue, drainVars, chunk, reads, data>>

Enqueue(f) == queue' = [queue EXCEPT ![target[f]] = Append(@, chunk[f])]
NextClient(f) ==
  /\ feed' = [feed EXCEPT ![f] = "range"] /\ target' = [target EXCEPT ![f] = None]

\* The send that does not block.
FeedSend(f) ==
  /\ feed[f] = "send"
  /\ \/ Len(queue[target[f]]) < Depth /\ Enqueue(f) /\ NextClient(f)
     \/ /\ Len(queue[target[f]]) >= Depth /\ feed' = [feed EXCEPT ![f] = "shed"]
        /\ UNCHANGED <<queue, target>>
  /\ UNCHANGED <<poolVars, clientVars, drainVars, chunk, todo, reads, data>>

\* Fault: nothing is shed.
FeedShedNothing(f) ==
  /\ feed[f] = "shed"
  /\ feed' = [feed EXCEPT ![f] = "resend"]
  /\ UNCHANGED <<poolVars, queue, clientVars, drainVars, chunk, target, todo, reads, data>>

\* The queue was full: its oldest chunk goes, if drainClient has not emptied it.
FeedShed(f) ==
  /\ feed[f] = "shed"
  /\ feed' = [feed EXCEPT ![f] = "resend"]
  /\ LET q == queue[target[f]] IN
       \/ /\ q # << >> /\ Release(Head(q))
          /\ queue' = [queue EXCEPT ![target[f]] = Tail(q)]
       \/ q = << >> /\ UNCHANGED <<poolVars, queue>>
  /\ UNCHANGED <<clientVars, drainVars, chunk, target, todo, reads, data>>

\* If another feeder has filled the gap meanwhile, this chunk is dropped.
FeedResend(f) ==
  /\ feed[f] = "resend"
  /\ \/ Len(queue[target[f]]) < Depth /\ Enqueue(f) /\ UNCHANGED poolVars
     \/ Len(queue[target[f]]) >= Depth /\ Release(chunk[f]) /\ UNCHANGED queue
  /\ NextClient(f)
  /\ UNCHANGED <<clientVars, drainVars, chunk, todo, reads, data>>

\* The deferred Release of the feeder's own reference.
FeedEnd(f) ==
  /\ feed[f] = "range" /\ todo[f] = {}
  /\ Release(chunk[f])
  /\ feed' = [feed EXCEPT ![f] = "idle"] /\ chunk' = [chunk EXCEPT ![f] = None]
  /\ UNCHANGED <<clientVars, queue, drainVars, target, todo, reads, data>>

-----------------------------------------------------------------------------
drainClient(c) ==
  \/ DrainTake(c) \/ DrainWrite(c) \/ DrainFail(c) \/ DrainLeave(c)
  \/ DrainDone(c) \/ DrainFlush(c)
DistributeToClients(f) ==
  \/ FeedSend(f) \/ FeedShed(f) \/ FeedResend(f) \/ FeedEnd(f)
  \/ \E c \in Clients : FeedVisit(f, c)

Next ==
  \/ \E c \in Clients : Join(c) \/ Remove(c) \/ drainClient(c)
  \/ \E f \in Feeders : FeedNew(f) \/ DistributeToClients(f)

Spec == Init /\ [][Next]_vars

-----------------------------------------------------------------------------
(* Properties *)

FanoutTypeOK ==
  /\ free \in SUBSET Chunks /\ refs \in [Chunks -> Nat]
  /\ data \in [Chunks -> {None} \cup (Feeders \X (1 .. MaxReads))]
  /\ member \in SUBSET Clients /\ gone \in SUBSET Clients
  /\ \A c \in Clients : Len(queue[c]) <= Depth /\ \A i \in 1 .. Len(queue[c]) : queue[c][i] \in Chunks
  /\ drain \in [Clients -> {"none", "select", "write", "failed", "flush", "ended"}]
  /\ hand \in [Clients -> Chunks \cup {None}]
  /\ \A c \in Clients : \A i \in 1 .. Len(written[c]) : written[c][i] \in Feeders \X (1 .. MaxReads)
  /\ feed \in [Feeders -> {"idle", "range", "send", "shed", "resend"}]
  /\ chunk \in [Feeders -> Chunks \cup {None}] /\ target \in [Feeders -> Clients \cup {None}]
  /\ todo \in [Feeders -> SUBSET Clients] /\ reads \in 0 .. MaxReads

\* The places that hold a reference to chunk k: queue positions, chunks being
\* written, feeders, and the reference a feeder has taken for its next send.
Holders(k) ==
  (UNION {{<<"queued", c, i>> : i \in {j \in 1 .. Len(queue[c]) : queue[c][j] = k}} : c \in Clients})
  \cup {<<"written", c, 0>> : c \in {d \in Clients : hand[d] = k}}
  \cup {<<"feeder", f, 0>> : f \in {g \in Feeders : chunk[g] = k}}
  \cup {<<"send", f, 0>> : f \in {g \in Feeders : chunk[g] = k /\ feed[g] \in {"send", "shed", "resend"}}}

\* A chunk's count is the number of places that hold it, and it is in the pool
\* exactly when nobody does: no path through a full queue, a failed write or a
\* removed client drops or keeps a reference too many.
RefsAreHolders == \A k \in Chunks : /\ refs[k] = Cardinality(Holders(k))
                                    /\ k \in free <=> Holders(k) = {}

\* No client is sent a chunk twice, or chunks of one feeder out of order, or the
\* data that a recycled chunk was overwritten with: shedding leaves gaps only.
InOrder ==
  \A c \in Clients : \A i, j \in 1 .. Len(written[c]) :
    i < j /\ written[c][i][1] = written[c][j][1] => written[c][i][2] < written[c][j][2]

\* A client that is behind gets the newest chunk: after shedding there is room,
\* unless another feeder has enqueued a chunk of its own meanwhile.
NewestIsQueued ==
  \A f \in Feeders : feed[f] = "resend" =>
    LET q == queue[target[f]] IN Len(q) < Depth \/ data[q[Len(q)]][1] # f

\* When a client's goroutine has ended, its queued chunks have been released.
GoneReleasesAll == \A c \in Clients : drain[c] = "ended" => queue[c] = << >>

\* Why the properties hold.  Who has a chunk in his hands is where he uses it, and a
\* feeder does not come back to the client it is at.
PlaceInv ==
  /\ queue \in [Clients -> Seq(Chunks)] /\ written \in [Clients -> Seq(Feeders \X (1 .. MaxReads))]
  /\ \A c \in Clients : hand[c] # None <=> drain[c] = "write"
  /\ \A f \in Feeders : chunk[f] # None <=> feed[f] # "idle"
  /\ \A f \in Feeders : target[f] # None <=> feed[f] \in {"send", "shed", "resend"}
  /\ \A f \in Feeders : target[f] \notin todo[f]

\* Chunks that somebody holds carry a copy, a feeder's that of its newest read.
CopyInv ==
  /\ \A k \in Chunks : Holders(k) # {} => data[k] \in Feeders \X (1 .. MaxReads) /\ data[k][2] <= reads
  /\ \A f \in Feeders : chunk[f] # None => data[chunk[f]][1] = f

\* What client c was sent, is being sent and is queued for, in that order.
Sent(c, x)    == \E i \in 1 .. Len(written[c]) : written[c][i] = x
InHand(c, x)  == hand[c] # None /\ data[hand[c]] = x
Queued(c, x)  == \E i \in 1 .. Len(queue[c]) : data[queue[c][i]] = x
Seen(c, x)    == Sent(c, x) \/ InHand(c, x) \/ Queued(c, x)
Before(x, y)  == x[1] = y[1] => x[2] < y[2]

Copies == Feeders \X (1 .. MaxReads)
LineInv ==
  \A c \in Clients :
    /\ \A x, y \in Copies : Sent(c, x) /\ InHand(c, y) => Before(x, y)
    /\ \A x, y \in Copies : (Sent(c, x) \/ InHand(c, x)) /\ Queued(c, y) => Before(x, y)
    /\ \A i, j \in 1 .. Len(queue[c]) : i < j => Before(data[queue[c][i]], data[queue[c][j]])

\* A feeder's chunk is newer than all a client has seen of it, once it is past the client
\* as new as the newest.
AheadInv ==
  \A c \in Clients, x \in Copies : Seen(c, x) =>
    /\ x[2] <= reads
    /\ \A f \in Feeders : chunk[f] # None /\ x[1] = f =>
         /\ x[2] <= data[chunk[f]][2]
         /\ c \in todo[f] \/ c = target[f] => x[2] < data[chunk[f]][2]

FanoutIInv ==
  /\ FanoutTypeOK /\ RefsAreHolders /\ \A k \in Chunks : IsFiniteSet(Holders(k))
  /\ PlaceInv /\ CopyInv /\ LineInv /\ AheadInv /\ InOrder /\ NewestIsQueued

\* Every path of a chunk through readers, queues and writers keeps its count: it
\* is that of its holders, and the pool has exactly the chunks nobody holds
\* (Retain and Release of the chunk, enqueue, drainClient).
FanoutInv == FanoutTypeOK /\ RefsAreHolders
=============================================================================
