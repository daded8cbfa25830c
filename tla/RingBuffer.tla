----------------------------- MODULE RingBuffer -----------------------------
(***************************************************************************)
(* The per-channel ring buffer (work/buffer/buffer.go).  The streaming     *)
(* loop writes into it, the stats collector and the watcher peek at its    *)
(* most recent bytes, failover resets it, and stopStream or the proxy's    *)
(* cleanup loop destroys it.  These callers are different goroutines, so   *)
(* every method is split at the points where another one can run: the      *)
(* lock-free test of the destroyed flag, the acquisition of rb.mu, and the *)
(* work done while it is held.                                             *)
(***************************************************************************)
EXTENDS Integers, Sequences

CONSTANTS
  Threads,    \* goroutines that share the buffer
  NoThread,   \* rb.mu has no exclusive holder
  Size,       \* rb.size, the capacity in bytes
  Byte,       \* the values a byte can take
  Zero,       \* what make([]byte, size) fills the storage with
  NilData,    \* rb.data == nil
  Chunks,     \* the byte slices handed to Write
  PeekSizes,  \* the values of maxBytes given to PeekRecentData
  MaxBytes    \* bound: bytes written between two resets

Index == 0 .. Size - 1

ASSUME SizeAssumption   == Size \in Nat \ {0}
ASSUME ThreadAssumption == NoThread \notin Threads
ASSUME ByteAssumption   == Zero \in Byte
ASSUME NilAssumption    == NilData \notin [Index -> Byte]
ASSUME ChunkAssumption  == Chunks \subseteq Seq(Byte)
ASSUME PeekAssumption   == PeekSizes \subseteq Nat \ {0}
ASSUME BoundAssumption  == MaxBytes \in Nat

VARIABLES
  data,       \* rb.data: the storage, or NilData once released
  writePos,   \* rb.writePos: bytes written since the last reset
  destroyed,  \* rb.destroyed
  writer,     \* the goroutine holding rb.mu exclusively, or NoThread
  readers,    \* the goroutines holding rb.mu shared
  pc,         \* where each goroutine is inside a method
  chunk,      \* the argument of the Write a goroutine is inside
  maxBytes,   \* the argument of the PeekRecentData a goroutine is inside
  hist        \* history: every byte written since the last reset

vars == <<data, writePos, destroyed, writer, readers, pc, chunk, maxBytes, hist>>

PCs == {"idle", "write_lock", "write_copy", "write_advance", "reset_lock",
        "destroy_lock", "peek_lock", "peek_copy"}

-----------------------------------------------------------------------------
(* Operators *)

Least(a, b) == IF a < b THEN a ELSE b

\* How much of a chunk stays resident: a write larger than the buffer keeps
\* only its last Size bytes.
Resident(d) == Least(Len(d), Size)

\* Fault: an oversized chunk is trimmed but stored from the old position.
CopyInUnaligned(buf, pos, d) ==
  LET skipped == Len(d) - Resident(d)
  IN  [i \in Index |->
         LET off == (i - (pos % Size)) % Size
         IN  IF off < Resident(d) THEN d[skipped + off + 1] ELSE buf[i]]

\* Fault: the copy runs on past the end of the storage instead of wrapping.
CopyInPastEnd(buf, pos, d) ==
  LET skipped == Len(d) - Resident(d)
      start   == (pos + skipped) % Size
  IN  [i \in Index \cup {start + k - 1 : k \in 1 .. Resident(d)} |->
         IF i \in start .. start + Resident(d) - 1 THEN d[skipped + i - start + 1] ELSE buf[i]]

\* The storage after the (at most two) copies of Write.  The resident tail of
\* the chunk starts where writePos will land, so the byte that ends up at
\* stream position p is always found at p % Size.
CopyIn(buf, pos, d) ==
  LET skipped == Len(d) - Resident(d)
      start   == (pos + skipped) % Size
  IN  [i \in Index |->
         LET off == (i - start) % Size
         IN  IF off < Resident(d) THEN d[skipped + off + 1] ELSE buf[i]]

\* How many bytes PeekRecentData returns: limited by its argument, by what was
\* written since the last reset and by the capacity.
DataSize(pos, max) == Least(Least(max, pos), Size)

\* The bytes PeekRecentData copies out (again at most two copies).
PeekedBytes(buf, pos, max) ==
  LET n == DataSize(pos, max)
  IN  [i \in 1 .. n |-> buf[(pos - n + i - 1) % Size]]

-----------------------------------------------------------------------------
Init ==
  /\ data = [i \in Index |-> Zero]
  /\ writePos = 0
  /\ destroyed = FALSE
  /\ writer = NoThread
  /\ readers = {}
  /\ pc = [t \in Threads |-> "idle"]
  /\ chunk = [t \in Threads |-> <<>>]
  /\ maxBytes = [t \in Threads |-> 0]
  /\ hist = <<>>

Unlocked == writer = NoThread /\ readers = {}

Goto(t, l) == pc' = [pc EXCEPT ![t] = l]

\* Write: the lock-free early return, then the wait for the exclusive lock.
WriteEnter(t, d) ==
  /\ pc[t] = "idle" /\ ~destroyed
  /\ writePos + Len(d) <= MaxBytes
  /\ chunk' = [chunk EXCEPT ![t] = d]
  /\ Goto(t, "write_lock")
  /\ UNCHANGED <<data, writePos, destroyed, writer, readers, maxBytes, hist>>

\* Fault: the destroyed flag is not tested again under the lock.
WriteLockNoRecheck(t) ==
  /\ pc[t] = "write_lock" /\ Unlocked
  /\ Goto(t, "write_copy") /\ writer' = t
  /\ UNCHANGED <<data, writePos, destroyed, readers, chunk, maxBytes, hist>>

\* Write, lock acquired: the destroyed flag is tested again.
WriteLock(t) ==
  /\ pc[t] = "write_lock" /\ Unlocked
  /\ \/ (destroyed \/ data = NilData) /\ Goto(t, "idle") /\ UNCHANGED writer
     \/ ~destroyed /\ data # NilData /\ Goto(t, "write_copy") /\ writer' = t
  /\ UNCHANGED <<data, writePos, destroyed, readers, chunk, maxBytes, hist>>

WriteCopy(t) ==
  /\ pc[t] = "write_copy"
  /\ data' = CopyIn(data, writePos, chunk[t])
  /\ Goto(t, "write_advance")
  /\ UNCHANGED <<writePos, destroyed, writer, readers, chunk, maxBytes, hist>>

WriteAdvance(t) ==
  /\ pc[t] = "write_advance"
  /\ writePos' = writePos + Len(chunk[t])
  /\ hist' = hist \o chunk[t]
  /\ writer' = NoThread
  /\ Goto(t, "idle")
  /\ UNCHANGED <<data, destroyed, readers, chunk, maxBytes>>

ResetEnter(t) ==
  /\ pc[t] = "idle" /\ ~destroyed
  /\ Goto(t, "reset_lock")
  /\ UNCHANGED <<data, writePos, destroyed, writer, readers, chunk, maxBytes, hist>>

\* Reset, lock acquired: only the position is cleared, the old bytes remain.
ResetLock(t) ==
  /\ pc[t] = "reset_lock" /\ Unlocked
  /\ \/ destroyed /\ UNCHANGED <<writePos, hist>>
     \/ ~destroyed /\ writePos' = 0 /\ hist' = <<>>
  /\ Goto(t, "idle")
  /\ UNCHANGED <<data, destroyed, writer, readers, chunk, maxBytes>>

\* Destroy: the compare-and-swap happens before the lock is asked for.
DestroyEnter(t) ==
  /\ pc[t] = "idle" /\ ~destroyed
  /\ destroyed' = TRUE
  /\ Goto(t, "destroy_lock")
  /\ UNCHANGED <<data, writePos, writer, readers, chunk, maxBytes, hist>>

DestroyLock(t) ==
  /\ pc[t] = "destroy_lock" /\ Unlocked
  /\ data' = NilData
  /\ writePos' = 0
  /\ hist' = <<>>
  /\ Goto(t, "idle")
  /\ UNCHANGED <<destroyed, writer, readers, chunk, maxBytes>>

PeekEnter(t, n) ==
  /\ pc[t] = "idle" /\ ~destroyed /\ data # NilData
  /\ maxBytes' = [maxBytes EXCEPT ![t] = n]
  /\ Goto(t, "peek_lock")
  /\ UNCHANGED <<data, writePos, destroyed, writer, readers, chunk, hist>>

\* PeekRecentData, shared lock acquired: a destroyed or empty buffer yields nil.
PeekLock(t) ==
  /\ pc[t] = "peek_lock" /\ writer = NoThread
  /\ \/ (destroyed \/ writePos = 0) /\ Goto(t, "idle") /\ UNCHANGED readers
     \/ ~destroyed /\ writePos # 0 /\ Goto(t, "peek_copy") /\ readers' = readers \cup {t}
  /\ UNCHANGED <<data, writePos, destroyed, writer, chunk, maxBytes, hist>>

\* Fault: the shared lock is not released.
PeekCopyKeepsLock(t) ==
  /\ pc[t] = "peek_copy"
  /\ Goto(t, "idle")
  /\ UNCHANGED <<data, writePos, destroyed, writer, readers, chunk, maxBytes, hist>>

\* The copy itself (PeekedBytes) and the release of the shared lock.
PeekCopy(t) ==
  /\ pc[t] = "peek_copy"
  /\ readers' = readers \ {t}
  /\ Goto(t, "idle")
  /\ UNCHANGED <<data, writePos, destroyed, writer, chunk, maxBytes, hist>>

Step(t) ==
  \/ \E d \in Chunks : WriteEnter(t, d)
  \/ WriteLock(t) \/ WriteCopy(t) \/ WriteAdvance(t)
  \/ ResetEnter(t) \/ ResetLock(t)
  \/ DestroyEnter(t) \/ DestroyLock(t)
  \/ \E n \in PeekSizes : PeekEnter(t, n)
  \/ PeekLock(t) \/ PeekCopy(t)

Next == \E t \in Threads : Step(t)

\* Every goroutine inside a method keeps running; nobody has to call one.
Progress(t) ==
  \/ WriteLock(t) \/ WriteCopy(t) \/ WriteAdvance(t)
  \/ ResetLock(t) \/ DestroyLock(t) \/ PeekLock(t) \/ PeekCopy(t)

Spec == Init /\ [][Next]_vars

FairSpec == Spec /\ \A t \in Threads : SF_vars(Progress(t))

-----------------------------------------------------------------------------
(* Properties *)

TypeOK ==
  /\ data \in [Index -> Byte] \cup {NilData}
  /\ writePos \in Nat
  /\ destroyed \in BOOLEAN
  /\ writer \in Threads \cup {NoThread}
  /\ readers \in SUBSET Threads
  /\ pc \in [Threads -> PCs]
  /\ chunk \in [Threads -> Seq(Byte)]
  /\ maxBytes \in [Threads -> Nat]
  /\ hist \in Seq(Byte)

\* A copy never touches released storage: a goroutine that got past the checks
\* of Write or PeekRecentData under rb.mu still finds rb.data when it copies,
\* although Destroy sets the flag without holding the lock.
NoCopyFromReleased ==
  \A t \in Threads :
    pc[t] \in {"write_copy", "write_advance", "peek_copy"} => data # NilData

\* What PeekRecentData copies out is exactly the end of the byte stream: the
\* last bytes written since the reset, in order, whatever the chunk sizes were
\* and however often the writes wrapped around or exceeded the capacity.
PeekIsRecent ==
  \A t \in Threads : pc[t] = "peek_copy" =>
    LET n == DataSize(Len(hist), maxBytes[t])
    IN  PeekedBytes(data, writePos, maxBytes[t])
          = [i \in 1 .. n |-> hist[Len(hist) - n + i]]

\* A destroyed buffer's storage is given up, even while writers and peekers
\* still hold or wait for the lock.
DestroyReleases == destroyed ~> data = NilData

-----------------------------------------------------------------------------
(* The inductive invariant behind these properties *)

\* The last Size positions of the stream h, of length pos, are found in buf at
\* their position modulo Size.
Window(buf, pos, h) ==
  \A p \in 0 .. pos - 1 : pos - Size <= p => buf[p % Size] = h[p + 1]

\* rb.mu excludes a writer from everybody else.
LockInv ==
  /\ \A t \in Threads : pc[t] \in {"write_copy", "write_advance"} <=> writer = t
  /\ \A t \in Threads : pc[t] = "peek_copy" <=> t \in readers
  /\ writer # NoThread => readers = {}

\* Storage is released only by the Destroy that set the flag, and never under
\* a goroutine that is about to copy.
NilInv ==
  /\ data = NilData => destroyed
  /\ \A t \in Threads : pc[t] = "destroy_lock" => destroyed
  /\ \A t \in Threads :
       pc[t] \in {"write_copy", "write_advance", "peek_copy"} => data # NilData

\* Between the copy and the new position the storage is already one chunk ahead.
WindowInv ==
  /\ Len(hist) = writePos
  /\ data = NilData => writePos = 0
  /\ (data # NilData /\ \A t \in Threads : pc[t] # "write_advance")
       => Window(data, writePos, hist)
  /\ \A t \in Threads : pc[t] = "write_advance" =>
       Window(data, writePos + Len(chunk[t]), hist \o chunk[t])

IInv == TypeOK /\ LockInv /\ NilInv /\ WindowInv

=============================================================================
