--------------------------- MODULE SharedStateProofs ---------------------------
(***************************************************************************)
(* State that streams, requests and scans share and each guards in its own *)
(* way: the ring buffer's storage, for any capacity and any readers; the   *)
(* connection slots and the lists of the Xtreme Codes output, for any      *)
(* number of clients, accounts, reloads, imports and channels; the local   *)
(* library, for any number of sources, files, scans and lookups; the       *)
(* remote series and movies, for any providers, lists and requests.        *)
(***************************************************************************)
EXTENDS RingBuffer, XCOutput, LocalLibrary, SeriesFiles, FiniteSetTheorems, WellFoundedInduction, TLAPS

(***************************************************************************)
(* The ring buffer.  PeekRecentData returns exactly the end of what was    *)
(* written, and no copy touches storage that Destroy released.             *)
(***************************************************************************)

-----------------------------------------------------------------------------
(* Modular arithmetic: where stream positions land in the storage. *)

LEMMA MulGe ==
  ASSUME NEW N \in Nat \ {0}, NEW k \in Int, k >= 1
  PROVE  k * N >= N
  OBVIOUS

LEMMA Distrib ==
  ASSUME NEW N \in Int, NEW x \in Int, NEW y \in Int
  PROVE  (x + y) * N = x * N + y * N
  OBVIOUS

LEMMA DivMod ==
  ASSUME NEW N \in Nat \ {0}, NEW a \in Int
  PROVE  a % N \in 0 .. N-1 /\ a \div N \in Int /\ a = (a \div N) * N + (a % N)
  OBVIOUS

LEMMA RemainderUnique ==
  ASSUME NEW N \in Nat \ {0}, NEW q1 \in Int, NEW q2 \in Int,
         NEW r1 \in 0 .. N-1, NEW r2 \in 0 .. N-1,
         q1 * N + r1 = q2 * N + r2
  PROVE  r1 = r2
<1>1. (q1 - q2) * N = r2 - r1
  OBVIOUS
<1>2. CASE q1 - q2 >= 1
  BY <1>1, <1>2, MulGe
<1>3. CASE q2 - q1 >= 1
  <2>1. (q2 - q1) * N = r1 - r2
    OBVIOUS
  <2> QED BY <2>1, <1>3, MulGe
<1>4. CASE q1 = q2
  BY <1>4, <1>1
<1> QED BY <1>2, <1>3, <1>4

LEMMA ModUnique ==
  ASSUME NEW N \in Nat \ {0}, NEW a \in Int, NEW q \in Int, NEW r \in 0 .. N-1,
         a = q * N + r
  PROVE  a % N = r
  BY DivMod, RemainderUnique

LEMMA ModSmall ==
  ASSUME NEW N \in Nat \ {0}, NEW x \in 0 .. N-1
  PROVE  x % N = x
  BY x = 0 * N + x, ModUnique

LEMMA ModNegative ==
  ASSUME NEW N \in Nat \ {0}, NEW x \in Int, -N <= x, x < 0
  PROVE  x % N = x + N
  BY x = (-1) * N + (x + N), ModUnique

LEMMA ModShift ==
  ASSUME NEW N \in Nat \ {0}, NEW x \in Int, NEW k \in Int, NEW y \in Int,
         y = k * N + x
  PROVE  y % N = x % N
<1> DEFINE q == x \div N
           r == x % N
<1>1. r \in 0 .. N-1 /\ q \in Int /\ x = q * N + r
  BY DivMod
<1> HIDE DEF q, r
<1>2. y = (k + q) * N + r
  BY <1>1, Distrib
<1>3. k + q \in Int
  BY <1>1
<1>4. y % N = r
  BY <1>1, <1>2, <1>3, ModUnique
<1> QED BY <1>4 DEF r

LEMMA ModDifference ==
  ASSUME NEW N \in Nat \ {0}, NEW a \in Int, NEW b \in Int
  PROVE  ((a % N) - (b % N)) % N = (a - b) % N
<1> DEFINE qa == a \div N
           ra == a % N
           qb == b \div N
           rb == b % N
<1>1. /\ ra \in Int /\ qa \in Int /\ a = qa * N + ra
      /\ rb \in Int /\ qb \in Int /\ b = qb * N + rb
  BY DivMod
<1> HIDE DEF qa, ra, qb, rb
<1>2. a - b = (qa - qb) * N + (ra - rb)
  BY <1>1
<1>3. qa - qb \in Int /\ ra - rb \in Int /\ a - b \in Int
  BY <1>1
<1>4. (a - b) % N = (ra - rb) % N
  BY ZenonT(40), <1>2, <1>3, ModShift
<1> QED BY <1>4 DEF ra, rb

-----------------------------------------------------------------------------
(* Write keeps the window, for chunks of any length. *)
LEMMA CopyInWindow ==
  ASSUME NEW buf \in [Index -> Byte], NEW pos \in Nat, NEW h \in Seq(Byte),
         Len(h) = pos, NEW d \in Seq(Byte), Window(buf, pos, h)
  PROVE  /\ CopyIn(buf, pos, d) \in [Index -> Byte]
         /\ Window(CopyIn(buf, pos, d), pos + Len(d), h \o d)
<1> USE SizeAssumption
<1> DEFINE R == Resident(d)
           skipped == Len(d) - R
           start == (pos + skipped) % Size
           Off(i) == (i - start) % Size
<1>1. /\ Len(d) \in Nat /\ R \in Nat /\ R <= Size /\ R <= Len(d)
      /\ (R = Len(d) \/ R = Size)
  BY DEF Resident, Least
<1> HIDE DEF R
<1>2. skipped \in Nat /\ pos + skipped \in Int /\ pos + skipped + R = pos + Len(d)
  BY <1>1
<1> HIDE DEF skipped
<1>3. start \in 0 .. Size - 1
  BY <1>2, DivMod
<1> HIDE DEF start
<1>4. \A i \in Index : Off(i) \in 0 .. Size - 1
  <2> TAKE i \in Index
  <2>1. i - start \in Int
    BY <1>3 DEF Index
  <2> QED BY <2>1, DivMod
<1>5. CopyIn(buf, pos, d)
        = [i \in Index |-> IF Off(i) < R THEN d[skipped + Off(i) + 1] ELSE buf[i]]
  BY DEF CopyIn, R, skipped, start
<1>6. \A p \in Nat : p % Size \in Index /\ Off(p % Size) = (p - (pos + skipped)) % Size
  <2> TAKE p \in Nat
  <2>1. p % Size \in Index
    BY DivMod DEF Index
  <2>2. Off(p % Size) = (p - (pos + skipped)) % Size
    BY <1>2, ModDifference, p \in Int DEF start
  <2> QED BY <2>1, <2>2
<1> HIDE DEF Off
<1>7. CopyIn(buf, pos, d) \in [Index -> Byte]
  <2>1. SUFFICES ASSUME NEW i \in Index, Off(i) < R
                 PROVE  d[skipped + Off(i) + 1] \in Byte
    BY <1>5
  <2>2. skipped + Off(i) + 1 \in 1 .. Len(d)
    BY <2>1, <1>1, <1>2, <1>4
  <2> QED BY <2>2
<1>8. \A p \in 0 .. (pos + Len(d)) - 1 : (pos + Len(d)) - Size <= p
        => CopyIn(buf, pos, d)[p % Size] = (h \o d)[p + 1]
  <2> TAKE p \in 0 .. (pos + Len(d)) - 1
  <2>5. HAVE (pos + Len(d)) - Size <= p
  <2> DEFINE i == p % Size
             x == p - (pos + skipped)
  <2>0. p \in Nat
    OBVIOUS
  <2>1. i \in Index /\ Off(i) = x % Size
    BY <1>6, <2>0, Zenon
  <2> HIDE DEF i
  <2>2. CASE p >= pos + skipped
    <3>1. x \in 0 .. Size - 1 /\ x < R
      BY <1>1, <1>2, <2>5, <2>2
    <3>2. Off(i) = x
      BY <2>1, <3>1, ModSmall
    <3>3. CopyIn(buf, pos, d)[i] = d[skipped + x + 1]
      BY <1>5, <2>1, <3>1, <3>2
    <3>4. skipped + x + 1 = p - pos + 1 /\ p - pos + 1 \in 1 .. Len(d)
      BY <1>1, <1>2, <2>5, <2>2
    <3>5. (h \o d)[p + 1] = d[p - pos + 1]
      BY <1>1, <3>4, Len(h) = pos
    <3> QED BY <3>3, <3>4, <3>5 DEF i
  <2>3. CASE p < pos + skipped
    <3>1. skipped = 0 /\ R = Len(d) /\ p < pos
      BY <1>1, <1>2, <2>5, <2>3
    <3>2. x \in Int /\ -Size <= x /\ x < 0
      BY <1>1, <2>5, <3>1
    <3>3. x + Size >= R
      BY <1>1, <2>5, <3>1
    <3> HIDE DEF x
    <3>4. ~(Off(i) < R)
      <4>1. x % Size = x + Size
        BY <3>2, ModNegative
      <4>2. Off(i) = x + Size
        BY <2>1, <4>1 DEF x
      <4> QED BY <1>1, <3>2, <3>3, <4>2
    <3>5. CopyIn(buf, pos, d)[i] = buf[i]
      BY <1>5, <2>1, <3>4
    <3>6. buf[i] = h[p + 1]
      <4>1. p \in 0 .. pos - 1 /\ pos - Size <= p
        BY <1>1, <2>5, <3>1
      <4> QED BY <4>1, Zenon DEF Window, i
    <3>7. (h \o d)[p + 1] = h[p + 1]
      BY <1>1, <3>1, Len(h) = pos
    <3> QED BY <3>5, <3>6, <3>7 DEF i
  <2>4. p >= pos + skipped \/ p < pos + skipped
    BY <1>2
  <2> QED BY <2>2, <2>3, <2>4
<1>9. Window(CopyIn(buf, pos, d), pos + Len(d), h \o d)
  BY <1>8, Zenon DEF Window
<1> QED BY <1>7, <1>9

(* PeekRecentData reads the end of the stream out of the window. *)
LEMMA PeekedIsSuffix ==
  ASSUME NEW buf \in [Index -> Byte], NEW pos \in Nat, NEW h \in Seq(Byte),
         Len(h) = pos, NEW m \in Nat, Window(buf, pos, h)
  PROVE  PeekedBytes(buf, pos, m)
           = [i \in 1 .. DataSize(pos, m) |-> h[pos - DataSize(pos, m) + i]]
<1> USE SizeAssumption
<1> DEFINE n == DataSize(pos, m)
<1>1. n \in Nat /\ n <= pos /\ n <= Size
  BY DEF DataSize, Least
<1> HIDE DEF n
<1>2. ASSUME NEW i \in 1 .. n
      PROVE  buf[(pos - n + i - 1) % Size] = h[pos - n + i]
  <2>1. pos - n + i - 1 \in 0 .. pos - 1 /\ pos - Size <= pos - n + i - 1
    BY <1>1
  <2>2. (pos - n + i - 1) + 1 = pos - n + i
    BY <1>1
  <2> QED BY <2>1, <2>2 DEF Window
<1> QED BY <1>2 DEF PeekedBytes, n
-----------------------------------------------------------------------------
(* The inductive invariant *)

LEMMA InitInv == Init => IInv
<1> SUFFICES ASSUME Init PROVE IInv
  OBVIOUS
<1> USE SizeAssumption, ByteAssumption, NilAssumption, ThreadAssumption DEF Init
<1>0. <<>> \in Seq(Byte)
  OBVIOUS
<1>1. TypeOK
  BY <1>0 DEF TypeOK, PCs
<1>2. LockInv /\ NilInv
  BY DEF LockInv, NilInv
<1>3. WindowInv
  BY DEF WindowInv, Window
<1> QED BY <1>1, <1>2, <1>3 DEF IInv

LEMMA NextInv == IInv /\ [Next]_vars => IInv'
<1> SUFFICES ASSUME IInv, [Next]_vars PROVE IInv'
  OBVIOUS
<1> USE SizeAssumption, ByteAssumption, NilAssumption, ThreadAssumption,
        ChunkAssumption, PeekAssumption, BoundAssumption
<1>0. TypeOK /\ LockInv /\ NilInv /\ WindowInv
  BY DEF IInv
<1>1. ASSUME NEW t \in Threads, NEW d \in Chunks, WriteEnter(t, d)
      PROVE  IInv'
  BY <1>0, <1>1 DEF IInv, TypeOK, PCs, LockInv, NilInv, WindowInv, WriteEnter, Goto
<1>2. ASSUME NEW t \in Threads, WriteLock(t)
      PROVE  IInv'
  <2>1. TypeOK' /\ LockInv' /\ NilInv'
    BY ZenonT(40), <1>0, <1>2 DEF TypeOK, PCs, LockInv, NilInv, WriteLock, Goto, Unlocked
  <2>2. WindowInv'
    BY <1>0, <1>2 DEF TypeOK, WindowInv, WriteLock, Goto
  <2> QED BY <2>1, <2>2 DEF IInv
<1>3. ASSUME NEW t \in Threads, WriteCopy(t)
      PROVE  IInv'
  <2>1. writer = t /\ readers = {} /\ data \in [Index -> Byte] /\ pc[t] = "write_copy"
    BY <1>0, <1>3 DEF TypeOK, LockInv, NilInv, WriteCopy
  <2>2. Len(hist) = writePos /\ Window(data, writePos, hist)
    BY <1>0, <2>1 DEF WindowInv, LockInv, TypeOK
  <2>3. /\ data' \in [Index -> Byte]
        /\ Window(data', writePos + Len(chunk[t]), hist \o chunk[t])
    BY <1>0, <1>3, <2>1, <2>2, CopyInWindow DEF TypeOK, WriteCopy
  <2>4. TypeOK'
    BY <1>0, <1>3, <2>3 DEF TypeOK, PCs, WriteCopy, Goto
  <2>5. LockInv' /\ NilInv'
    BY <1>0, <1>3, <2>1, <2>3 DEF TypeOK, LockInv, NilInv, WriteCopy, Goto
  <2>6. WindowInv'
    BY <1>0, <1>3, <2>1, <2>2, <2>3 DEF TypeOK, LockInv, WindowInv, WriteCopy, Goto
  <2> QED BY <2>4, <2>5, <2>6 DEF IInv
<1>4. ASSUME NEW t \in Threads, WriteAdvance(t)
      PROVE  IInv'
  <2>1. writer = t /\ readers = {} /\ data \in [Index -> Byte] /\ pc[t] = "write_advance"
    BY <1>0, <1>4 DEF TypeOK, LockInv, NilInv, WriteAdvance
  <2>2. /\ Len(hist) = writePos
        /\ Window(data, writePos + Len(chunk[t]), hist \o chunk[t])
    BY <1>0, <2>1 DEF WindowInv
  <2>3. chunk[t] \in Seq(Byte) /\ hist \in Seq(Byte)
    BY <1>0 DEF TypeOK
  <2>4. hist' \in Seq(Byte) /\ Len(hist') = writePos' /\ writePos' \in Nat
    <3>1. hist \o chunk[t] \in Seq(Byte) /\ Len(hist \o chunk[t]) = Len(hist) + Len(chunk[t])
      BY <2>3
    <3>2. Len(chunk[t]) \in Nat /\ writePos \in Nat
      BY <1>0, <2>3 DEF TypeOK
    <3> QED BY <1>4, <2>2, <3>1, <3>2 DEF WriteAdvance
  <2>5. TypeOK'
    BY <1>0, <1>4, <2>4 DEF TypeOK, PCs, WriteAdvance, Goto
  <2>6. LockInv' /\ NilInv'
    BY <1>0, <1>4, <2>1 DEF TypeOK, LockInv, NilInv, WriteAdvance, Goto
  <2>7. WindowInv'
    <3>1. Window(data', writePos', hist')
      BY <1>4, <2>2 DEF WriteAdvance
    <3>2. \A u \in Threads : pc'[u] # "write_advance"
      BY <1>0, <1>4, <2>1 DEF TypeOK, LockInv, WriteAdvance, Goto
    <3>3. data' # NilData
      BY <1>4, <2>1, NilAssumption DEF WriteAdvance
    <3> QED BY <2>4, <3>1, <3>2, <3>3 DEF WindowInv
  <2> QED BY <2>5, <2>6, <2>7 DEF IInv
<1>5. ASSUME NEW t \in Threads, ResetEnter(t)
      PROVE  IInv'
  BY <1>0, <1>5 DEF IInv, TypeOK, PCs, LockInv, NilInv, WindowInv, ResetEnter, Goto
<1>6. ASSUME NEW t \in Threads, ResetLock(t)
      PROVE  IInv'
  <2>0. <<>> \in Seq(Byte)
    OBVIOUS
  <2>1. TypeOK' /\ LockInv' /\ NilInv'
    <3>1. writePos' \in Nat /\ hist' \in Seq(Byte)
      <4>1. CASE destroyed
        BY <1>0, <1>6, <4>1 DEF TypeOK, ResetLock
      <4>2. CASE ~destroyed
        <5>1. writePos' = 0 /\ hist' = <<>>
          BY <1>6, <4>2 DEF ResetLock
        <5> QED BY <2>0, <5>1
      <4> QED BY <4>1, <4>2
    <3> QED
      BY <1>0, <1>6, <3>1 DEF TypeOK, PCs, LockInv, NilInv, ResetLock, Goto, Unlocked
  <2>2. \A u \in Threads : pc'[u] # "write_advance"
    BY <1>0, <1>6 DEF TypeOK, LockInv, ResetLock, Goto, Unlocked
  <2>3. CASE destroyed
    BY <1>0, <1>6, <2>2, <2>3 DEF TypeOK, LockInv, WindowInv, ResetLock, Goto, Unlocked, IInv,
       NilInv, PCs
  <2>4. CASE ~destroyed
    <3>1. writePos' = 0 /\ hist' = <<>>
      BY <1>6, <2>4 DEF ResetLock
    <3>2. WindowInv'
      BY <2>2, <3>1 DEF WindowInv, Window
    <3> QED BY <2>1, <3>2 DEF IInv
  <2> QED BY <2>3, <2>4
<1>7. ASSUME NEW t \in Threads, DestroyEnter(t)
      PROVE  IInv'
  BY <1>0, <1>7 DEF IInv, TypeOK, PCs, LockInv, NilInv, WindowInv, DestroyEnter, Goto
<1>8. ASSUME NEW t \in Threads, DestroyLock(t)
      PROVE  IInv'
  <2>1. TypeOK' /\ LockInv'
    BY <1>0, <1>8 DEF TypeOK, PCs, LockInv, DestroyLock, Goto, Unlocked
  <2>2. \A u \in Threads : pc'[u] \notin {"write_copy", "write_advance", "peek_copy"}
    BY <1>0, <1>8 DEF TypeOK, LockInv, DestroyLock, Goto, Unlocked
  <2>3. NilInv'
    BY <1>0, <1>8, <2>2 DEF TypeOK, NilInv, DestroyLock, Goto
  <2>4. WindowInv'
    BY <1>8, <2>2 DEF WindowInv, Window, DestroyLock
  <2> QED BY <2>1, <2>3, <2>4 DEF IInv
<1>9. ASSUME NEW t \in Threads, NEW n \in PeekSizes, PeekEnter(t, n)
      PROVE  IInv'
  BY <1>0, <1>9 DEF IInv, TypeOK, PCs, LockInv, NilInv, WindowInv, PeekEnter, Goto
<1>10. ASSUME NEW t \in Threads, PeekLock(t)
       PROVE  IInv'
  BY <1>0, <1>10 DEF IInv, TypeOK, PCs, LockInv, NilInv, WindowInv, PeekLock, Goto
<1>11. ASSUME NEW t \in Threads, PeekCopy(t)
       PROVE  IInv'
  BY <1>0, <1>11 DEF IInv, TypeOK, PCs, LockInv, NilInv, WindowInv, PeekCopy, Goto
<1>12. CASE UNCHANGED vars
  BY <1>0, <1>12 DEF vars, IInv, TypeOK, LockInv, NilInv, WindowInv
<1> QED
  BY <1>1, <1>2, <1>3, <1>4, <1>5, <1>6, <1>7, <1>8, <1>9, <1>10, <1>11, <1>12
  DEF Next, Step

(* IInv is an invariant: the exclusive lock protects storage and position, *)
(* and the storage always holds the end of the stream.                     *)
THEOREM Invariance == Spec => []IInv
  BY InitInv, NextInv, PTL DEF Spec

(* Every variable keeps its type. *)
THEOREM TypeCorrect == Spec => []TypeOK
<1>1. IInv => TypeOK
  BY DEF IInv
<1> QED BY <1>1, Invariance, PTL

(* No copy of Write or PeekRecentData touches storage released by Destroy, *)
(* for any number of goroutines.                                           *)
THEOREM NoUseAfterDestroy == Spec => []NoCopyFromReleased
<1>1. IInv => NoCopyFromReleased
  BY DEF IInv, NilInv, NoCopyFromReleased
<1> QED BY <1>1, Invariance, PTL

(* PeekRecentData returns the last bytes written, for every capacity, every *)
(* chunk size and every request size.                                       *)
THEOREM PeekCorrect == Spec => []PeekIsRecent
<1>1. IInv => PeekIsRecent
  <2> SUFFICES ASSUME IInv, NEW t \in Threads, pc[t] = "peek_copy"
               PROVE  LET n == DataSize(Len(hist), maxBytes[t])
                      IN  PeekedBytes(data, writePos, maxBytes[t])
                            = [i \in 1 .. n |-> hist[Len(hist) - n + i]]
    BY DEF PeekIsRecent
  <2>1. writer = NoThread /\ data \in [Index -> Byte] /\ maxBytes[t] \in Nat
    BY ThreadAssumption DEF IInv, TypeOK, LockInv, NilInv
  <2>2. \A u \in Threads : pc[u] # "write_advance"
    BY <2>1, ThreadAssumption DEF IInv, LockInv
  <2>3. /\ writePos \in Nat /\ hist \in Seq(Byte) /\ Len(hist) = writePos
        /\ Window(data, writePos, hist)
    BY <2>1, <2>2, NilAssumption DEF IInv, TypeOK, WindowInv
  <2> DEFINE m == maxBytes[t]
  <2>4. m \in Nat
    BY <2>1
  <2> HIDE DEF m
  <2>5. PeekedBytes(data, writePos, m)
          = [i \in 1 .. DataSize(writePos, m) |-> hist[writePos - DataSize(writePos, m) + i]]
    BY <2>1, <2>3, <2>4, PeekedIsSuffix
  <2> QED BY <2>3, <2>5 DEF m
<1> QED BY <1>1, Invariance, PTL

(***************************************************************************)
(* The Xtreme Codes output.  A request holds its account's slot exactly    *)
(* while it is in the handler (RequestInv), so a counter changes by one    *)
(* together with the set of requests that it counts.                       *)
(***************************************************************************)

Reserves(r) == req[r].pc \in HandlerSteps \cup {"rollback"}

\* Nobody but r moves, and neither the lists nor the catalog change.
OnlyMoves(r) ==
  /\ UNCHANGED accounts
  /\ DOMAIN req' = XCClients
  /\ \A s \in XCClients \ {r} : req'[s] = req[s]

\* A request goes from one state of the handler to the next.
StaysPut(r) == req'[r].list = req[r].list /\ req'[r].acct = req[r].acct

-----------------------------------------------------------------------------
(* Counting *)

LEMMA ReservingFinite ==
  ASSUME NEW l, NEW i
  PROVE  IsFiniteSet(Reserving(l, i)) /\ Cardinality(Reserving(l, i)) \in Nat
<1>1. Reserving(l, i) \subseteq XCClients
  BY DEF Reserving
<1> QED
  BY <1>1, XCAssumption, FS_Subset, FS_CardinalityType DEF XCAssumption

LEMMA ReservingIs ==
  ASSUME RequestInv, NEW l, NEW i
  PROVE  Reserving(l, i) = {r \in XCClients : req[r].list = l /\ req[r].acct = i /\ Reserves(r)}
BY DEF Reserving, Reserves, RequestInv

\* Holders never outgrow a limit by leaving.
LEMMA LimitKept ==
  ASSUME SlotsIInv, NEW l \in DOMAIN accounts, NEW i \in DOMAIN accounts[l],
         UNCHANGED accounts, Holders(l, i)' \subseteq Holders(l, i)
  PROVE  Cardinality(Holders(l, i)') <= accounts[l][i].max
<1>1. Cardinality(Holders(l, i)) <= accounts[l][i].max /\ accounts[l][i].max \in Nat
  BY XCAssumption DEF SlotsIInv, SlotsInv, HoldersWithinLimit, XCAssumption, ListsWellFormed
<1>2. IsFiniteSet(Holders(l, i))
  <2>1. Holders(l, i) \subseteq XCClients
    BY DEF Holders
  <2> QED
    BY <2>1, XCAssumption, FS_Subset DEF XCAssumption
<1>3. /\ Cardinality(Holders(l, i)') <= Cardinality(Holders(l, i))
      /\ Cardinality(Holders(l, i)') \in Nat /\ Cardinality(Holders(l, i)) \in Nat
  BY <1>2, FS_Subset, FS_CardinalityType
<1> QED
  BY <1>1, <1>3

\* Steps that leave the reservations alone leave the counters alone.
LEMMA CountsKept ==
  ASSUME SlotsIInv, RequestInv', UNCHANGED <<accounts, activeConns>>,
         \A r \in XCClients : /\ Reserves(r)' <=> Reserves(r)
                              /\ req'[r].holds = req[r].holds
                              /\ Reserves(r) => StaysPut(r)
  PROVE  SlotsAreCounted' /\ HoldersWithinLimit'
<1> SUFFICES ASSUME NEW l \in DOMAIN accounts, NEW i \in DOMAIN accounts[l]
             PROVE  /\ activeConns[l][i] = Cardinality(Reserving(l, i)')
                    /\ Cardinality(Holders(l, i)') <= accounts[l][i].max
  BY DEF SlotsAreCounted, HoldersWithinLimit
<1>1. Reserving(l, i)' = Reserving(l, i)
  <2>1. Reserving(l, i)' = {r \in XCClients : req'[r].list = l /\ req'[r].acct = i /\ Reserves(r)'}
    BY DEF Reserving, Reserves, RequestInv
  <2> QED
    BY <2>1, ReservingIs DEF SlotsIInv, StaysPut
<1>2. Holders(l, i)' \subseteq Holders(l, i)
  BY DEF Holders, StaysPut, SlotsIInv, RequestInv, Reserves
<1> QED
  BY <1>1, <1>2, LimitKept DEF SlotsIInv, SlotsInv, SlotsAreCounted

\* A request that reserves adds itself, and is let in only below the limit.
LEMMA CountsUp ==
  ASSUME SlotsIInv, RequestInv', NEW r \in XCClients, OnlyMoves(r), req[r].pc = "acquire",
         Reserves(r)', StaysPut(r),
         activeConns' = [activeConns EXCEPT ![req[r].list][req[r].acct] = @ + 1],
         req'[r].holds => activeConns[req[r].list][req[r].acct] + 1 <= accounts[req[r].list][req[r].acct].max
  PROVE  SlotsAreCounted' /\ HoldersWithinLimit'
<1> DEFINE L == req[r].list
           A == req[r].acct
<1>0. L \in DOMAIN accounts /\ A \in DOMAIN accounts[L] /\ ~Reserves(r) /\ ~req[r].holds
  BY DEF SlotsIInv, RequestInv, Reserves, HandlerSteps
<1> SUFFICES ASSUME NEW l \in DOMAIN accounts, NEW i \in DOMAIN accounts[l]
             PROVE  /\ activeConns'[l][i] = Cardinality(Reserving(l, i)')
                    /\ Cardinality(Holders(l, i)') <= accounts[l][i].max
  BY DEF SlotsAreCounted, HoldersWithinLimit, OnlyMoves
<1>1. Reserving(l, i)' = {s \in XCClients : req'[s].list = l /\ req'[s].acct = i /\ Reserves(s)'}
  BY DEF Reserving, Reserves, RequestInv
<1>2. \A s \in XCClients \ {r} : Reserves(s)' <=> Reserves(s)
  BY DEF OnlyMoves, Reserves
<1>3. activeConns[l][i] = Cardinality(Reserving(l, i))
  BY DEF SlotsIInv, SlotsInv, SlotsAreCounted
<1>4. activeConns \in Seq(UNION {[DOMAIN d -> Int] : d \in AccountDrafts}) /\ l \in DOMAIN activeConns
      /\ activeConns[l] \in [DOMAIN accounts[l] -> Int]
  BY DEF SlotsIInv, ListsWellFormed
<1>5. CASE l = L /\ i = A
  <2>1. Reserving(l, i)' = Reserving(l, i) \cup {r} /\ r \notin Reserving(l, i)
    BY <1>0, <1>1, <1>2, <1>5, ReservingIs DEF SlotsIInv, OnlyMoves, StaysPut
  <2>2. Cardinality(Reserving(l, i)') = Cardinality(Reserving(l, i)) + 1
    BY <2>1, ReservingFinite, FS_AddElement
  <2>3. activeConns'[l][i] = activeConns[l][i] + 1
    BY <1>4, <1>5
  <2>4. CASE req'[r].holds
    <3>1. Holders(l, i)' \subseteq Reserving(l, i)'
      BY DEF Holders, Reserving
    <3>2. IsFiniteSet(Reserving(l, i)')
      BY <2>1, ReservingFinite, FS_AddElement
    <3>3. /\ Cardinality(Holders(l, i)') <= Cardinality(Reserving(l, i)')
          /\ Cardinality(Holders(l, i)') \in Nat /\ Cardinality(Reserving(l, i)') \in Nat
      BY <3>1, <3>2, FS_Subset, FS_CardinalityType
    <3>4. accounts[l][i].max \in Nat
      BY XCAssumption DEF SlotsIInv, XCAssumption, ListsWellFormed
    <3> QED
      BY <1>3, <1>5, <2>2, <2>3, <2>4, <3>3, <3>4, ReservingFinite
  <2>5. CASE ~req'[r].holds
    <3>1. Holders(l, i)' \subseteq Holders(l, i)
      BY <2>5 DEF Holders, OnlyMoves
    <3> QED
      BY <1>3, <2>2, <2>3, <3>1, LimitKept DEF OnlyMoves
  <2> QED
    BY <2>4, <2>5
<1>6. CASE ~(l = L /\ i = A)
  <2>1. Reserving(l, i)' = Reserving(l, i)
    BY <1>0, <1>1, <1>2, <1>6, ReservingIs DEF SlotsIInv, OnlyMoves, StaysPut
  <2>2. activeConns'[l][i] = activeConns[l][i]
    BY <1>4, <1>6
  <2>3. Holders(l, i)' \subseteq Holders(l, i)
    BY <1>6 DEF Holders, OnlyMoves, StaysPut
  <2> QED
    BY <1>3, <2>1, <2>2, <2>3, LimitKept DEF OnlyMoves
<1> QED
  BY <1>5, <1>6

\* A request that gives its reservation back takes itself out.
LEMMA CountsDown ==
  ASSUME SlotsIInv, RequestInv', NEW r \in XCClients, OnlyMoves(r), Reserves(r), ~Reserves(r)',
         activeConns' = [activeConns EXCEPT ![req[r].list][req[r].acct] = @ - 1]
  PROVE  SlotsAreCounted' /\ HoldersWithinLimit'
<1> DEFINE L == req[r].list
           A == req[r].acct
<1>0. L \in DOMAIN accounts /\ A \in DOMAIN accounts[L] /\ ~req'[r].holds
  BY DEF SlotsIInv, RequestInv, Reserves, HandlerSteps
<1> SUFFICES ASSUME NEW l \in DOMAIN accounts, NEW i \in DOMAIN accounts[l]
             PROVE  /\ activeConns'[l][i] = Cardinality(Reserving(l, i)')
                    /\ Cardinality(Holders(l, i)') <= accounts[l][i].max
  BY DEF SlotsAreCounted, HoldersWithinLimit, OnlyMoves
<1>1. Reserving(l, i)' = {s \in XCClients : req'[s].list = l /\ req'[s].acct = i /\ Reserves(s)'}
  BY DEF Reserving, Reserves, RequestInv
<1>2. \A s \in XCClients \ {r} : Reserves(s)' <=> Reserves(s)
  BY DEF OnlyMoves, Reserves
<1>3. activeConns[l][i] = Cardinality(Reserving(l, i))
  BY DEF SlotsIInv, SlotsInv, SlotsAreCounted
<1>4. activeConns \in Seq(UNION {[DOMAIN d -> Int] : d \in AccountDrafts}) /\ l \in DOMAIN activeConns
      /\ activeConns[l] \in [DOMAIN accounts[l] -> Int]
  BY DEF SlotsIInv, ListsWellFormed
<1>5. Holders(l, i)' \subseteq Holders(l, i)
  BY <1>0 DEF Holders, OnlyMoves
<1>6. CASE l = L /\ i = A
  <2>1. Reserving(l, i)' = Reserving(l, i) \ {r} /\ r \in Reserving(l, i)
    BY <1>1, <1>2, <1>6, ReservingIs DEF SlotsIInv, OnlyMoves
  <2>2. Cardinality(Reserving(l, i)') = Cardinality(Reserving(l, i)) - 1
    BY <2>1, ReservingFinite, FS_RemoveElement
  <2>3. activeConns'[l][i] = activeConns[l][i] - 1
    BY <1>4, <1>6
  <2> QED
    BY <1>3, <1>5, <2>2, <2>3, LimitKept DEF OnlyMoves
<1>7. CASE ~(l = L /\ i = A)
  <2>1. Reserving(l, i)' = Reserving(l, i)
    BY <1>1, <1>2, <1>7, ReservingIs DEF SlotsIInv, OnlyMoves
  <2>2. activeConns'[l][i] = activeConns[l][i]
    BY <1>4, <1>7
  <2> QED
    BY <1>3, <1>5, <2>1, <2>2, LimitKept DEF OnlyMoves
<1> QED
  BY <1>6, <1>7

-----------------------------------------------------------------------------
(* The kinds of steps                                                      *)

Mutating == {"publish", "stamp"}
Rests == {"idle", "done"}

\* r alone moves, keeps to its record, and takes up a generation that has begun.
Moves(r) ==
  /\ OnlyMoves(r) /\ UNCHANGED importGeneration
  /\ DOMAIN req'[r] = DOMAIN NoRequest
  /\ req'[r].pc \in RequestSteps
  /\ req'[r].holds \in BOOLEAN /\ (req'[r].holds <=> req'[r].pc \in HandlerSteps)
  /\ req'[r].plays \in BOOLEAN /\ (req'[r].plays <=> req'[r].pc = "playing")
  /\ req'[r].gen \in {0, req[r].gen, importGeneration}
  /\ streamIDIndexGen' \in {streamIDIndexGen, req[r].gen}

KeepsMutex(r) ==
  streamIDIndexMu' = streamIDIndexMu /\ req[r].pc \notin Mutating /\ req'[r].pc \notin Mutating

Begins(r) ==
  /\ Moves(r) /\ KeepsMutex(r) /\ UNCHANGED <<activeConns, clientSlots>>
  /\ req[r].pc \in Rests
  /\ \/ req'[r].pc \in Rests
     \/ req'[r].pc = "acquire" /\ req'[r].list \in DOMAIN accounts /\ req'[r].acct \in DOMAIN accounts[req'[r].list]

Reserve(r) ==
  /\ Moves(r) /\ KeepsMutex(r) /\ UNCHANGED clientSlots
  /\ req[r].pc = "acquire" /\ Reserves(r)' /\ req'[r].pc # "playing" /\ StaysPut(r)
  /\ activeConns' = [activeConns EXCEPT ![req[r].list][req[r].acct] = @ + 1]
  /\ req'[r].holds => activeConns[req[r].list][req[r].acct] + 1 <= accounts[req[r].list][req[r].acct].max

GivesBack(r) ==
  /\ Moves(r) /\ KeepsMutex(r)
  /\ Reserves(r) /\ req'[r].pc = "done"
  /\ activeConns' = [activeConns EXCEPT ![req[r].list][req[r].acct] = @ - 1]
  /\ clientSlots' = IF req[r].pc = "playing" THEN clientSlots - 1 ELSE clientSlots

\* One step within the handler; the mutex is taken when free and given back by its holder.
Walks(r) ==
  /\ Moves(r) /\ UNCHANGED <<activeConns, clientSlots>> /\ StaysPut(r)
  /\ {req[r].pc, req'[r].pc} \subseteq HandlerSteps \ {"playing"}
  /\ \/ KeepsMutex(r)
     \/ streamIDIndexMu = NoClient /\ streamIDIndexMu' = r /\ req'[r].pc \in Mutating
     \/ req[r].pc \in Mutating /\ req'[r].pc \in Mutating /\ streamIDIndexMu' = streamIDIndexMu
     \/ req[r].pc \in Mutating /\ req'[r].pc \notin Mutating /\ streamIDIndexMu' = NoClient

Plays(r) ==
  /\ Moves(r) /\ KeepsMutex(r) /\ UNCHANGED activeConns /\ StaysPut(r)
  /\ req[r].pc = "resolve" /\ req'[r].pc = "playing"
  /\ clientSlots < AppLimit /\ clientSlots' = clientSlots + 1

ClientStep(r) == Begins(r) \/ Reserve(r) \/ GivesBack(r) \/ Walks(r) \/ Plays(r)

LEMMA NoRequestIs ==
  /\ DOMAIN NoRequest = {"pc", "ask", "list", "acct", "gen", "map", "name", "holds", "plays", "steady", "reply"}
  /\ NoRequest.pc = "idle" /\ NoRequest.holds = FALSE /\ NoRequest.plays = FALSE /\ NoRequest.gen = 0
BY DEF NoRequest

LEMMA StepKinds ==
  ASSUME SlotsIInv, NEW r \in XCClients,
         \/ \E ask \in Requests : XCBegins(r, ask)
         \/ acquireXCConnection(r) \/ Rollback(r) \/ HandleXCPlayerAPI(r) \/ LoadGeneration(r) \/ LoadIndex(r)
         \/ findChannelByStreamID(r) \/ rebuildStreamIDIndex(r) \/ handleXCStream(r)
         \/ buildXCEPGListings(r) \/ PlayEnds(r) \/ Returns(r)
  PROVE  ClientStep(r)
<1>0. /\ DOMAIN req = XCClients /\ DOMAIN req[r] = DOMAIN NoRequest /\ req[r].pc \in RequestSteps
      /\ req[r].holds \in BOOLEAN /\ (req[r].holds <=> req[r].pc \in HandlerSteps)
      /\ req[r].plays \in BOOLEAN /\ (req[r].plays <=> req[r].pc = "playing")
  BY DEF SlotsIInv, RequestInv
<1> USE <1>0, NoRequestIs
<1>1. ASSUME NEW ask \in Requests, XCBegins(r, ask)
      PROVE  Begins(r)
  <2> DEFINE i == findXCAccount(ask.user)
  <2>1. i # 0 => newestList \in DOMAIN accounts /\ i \in DOMAIN accounts[newestList]
    BY DEF findXCAccount, newestList, ListsWellFormed, SlotsIInv
  <2> HIDE DEF i
  <2>2. req'[r].pc = "done" \/ (i # 0 /\ req'[r].pc = "acquire" /\ req'[r].list = newestList /\ req'[r].acct = i)
    BY <1>1 DEF XCBegins, Acting, i
  <2>3. Moves(r)
    BY <1>1, <2>2 DEF XCBegins, Acting, catalogVars, accountVars, indexVars, Moves, OnlyMoves, HandlerSteps, RequestSteps
  <2> QED
    BY <1>1, <2>1, <2>2, <2>3 DEF XCBegins, Acting, catalogVars, accountVars, indexVars, Begins, KeepsMutex, Mutating, Rests
<1>2. CASE acquireXCConnection(r)
  <2>1. Moves(r)
    BY <1>2 DEF acquireXCConnection, admitsCount, Acting, catalogVars, accountVars, indexVars, Moves, OnlyMoves, HandlerSteps, RequestSteps
  <2>2. Reserve(r)
    BY <1>2, <2>1 DEF acquireXCConnection, admitsCount, Acting, catalogVars, accountVars, indexVars, Reserve, KeepsMutex, Mutating, HandlerSteps, Reserves, StaysPut
  <2> QED
    BY <2>2 DEF ClientStep
<1>3. CASE Rollback(r)
  <2>1. Moves(r)
    BY <1>3 DEF Rollback, Acting, catalogVars, accountVars, indexVars, Moves, OnlyMoves, HandlerSteps, RequestSteps
  <2>2. GivesBack(r)
    BY <1>3, <2>1 DEF Rollback, Acting, catalogVars, accountVars, indexVars, GivesBack, KeepsMutex, Mutating, HandlerSteps, Reserves
  <2> QED
    BY <2>2 DEF ClientStep
<1>4. CASE HandleXCPlayerAPI(r)
  <2>1. Moves(r)
    BY <1>4 DEF HandleXCPlayerAPI, Answers, release, Acting, catalogVars, accountVars, indexVars, Moves, OnlyMoves, HandlerSteps, RequestSteps
  <2>2. GivesBack(r)
    BY <1>4, <2>1 DEF HandleXCPlayerAPI, Answers, release, Acting, catalogVars, accountVars, indexVars, GivesBack, KeepsMutex, Mutating, HandlerSteps, Reserves
  <2> QED
    BY <2>2 DEF ClientStep
<1>5. CASE LoadGeneration(r)
  <2>1. Moves(r)
    BY <1>5 DEF LoadGeneration, Acting, catalogVars, accountVars, indexVars, Moves, OnlyMoves, HandlerSteps, RequestSteps
  <2>2. Walks(r)
    BY <1>5, <2>1 DEF LoadGeneration, Acting, catalogVars, accountVars, indexVars, Walks, KeepsMutex, Mutating, HandlerSteps, StaysPut
  <2> QED
    BY <2>2 DEF ClientStep
<1>6. CASE LoadIndex(r)
  <2>1. Moves(r)
    BY <1>6 DEF LoadIndex, Acting, catalogVars, accountVars, indexVars, Moves, OnlyMoves, HandlerSteps, RequestSteps
  <2>2. Walks(r)
    BY <1>6, <2>1 DEF LoadIndex, Acting, catalogVars, accountVars, indexVars, Walks, KeepsMutex, Mutating, HandlerSteps, StaysPut
  <2> QED
    BY <2>2 DEF ClientStep
<1>7. CASE findChannelByStreamID(r)
  <2>1. Moves(r)
    BY <1>7 DEF findChannelByStreamID, Acting, catalogVars, accountVars, indexVars, Moves, OnlyMoves, HandlerSteps, RequestSteps
  <2>2. Walks(r)
    BY <1>7, <2>1 DEF findChannelByStreamID, Acting, catalogVars, accountVars, indexVars, Walks, KeepsMutex, Mutating, HandlerSteps, StaysPut
  <2> QED
    BY <2>2 DEF ClientStep
<1>8. CASE rebuildStreamIDIndex(r)
  <2>1. Moves(r)
    BY <1>8 DEF rebuildStreamIDIndex, suppliedGeneration, Acting, catalogVars, accountVars, indexVars, Moves, OnlyMoves, HandlerSteps, RequestSteps
  <2>2. Walks(r)
    BY <1>8, <2>1 DEF rebuildStreamIDIndex, suppliedGeneration, Acting, catalogVars, accountVars, indexVars, Walks, KeepsMutex, Mutating, HandlerSteps, StaysPut
  <2> QED
    BY <2>2 DEF ClientStep
<1>9. CASE handleXCStream(r)
  <2>0. req[r].pc = "resolve" /\ UNCHANGED <<accounts, importGeneration, indexVars>>
    BY <1>9 DEF handleXCStream, Acting, catalogVars, accountVars
  <2>1. ASSUME NEW reply, Answers(r, reply), UNCHANGED clientSlots
        PROVE  GivesBack(r)
    <3>1. Moves(r)
      BY <2>0, <2>1 DEF Answers, indexVars, Moves, OnlyMoves, HandlerSteps, RequestSteps
    <3> QED
      BY <2>0, <2>1, <3>1 DEF Answers, release, GivesBack, KeepsMutex, Mutating, indexVars, HandlerSteps, Reserves
  <2>2. ASSUME FreeSlot, clientSlots' = clientSlots + 1, UNCHANGED activeConns,
               req' = [req EXCEPT ![r].pc = "playing", ![r].plays = TRUE]
        PROVE  Plays(r)
    <3>1. Moves(r)
      BY <2>0, <2>2 DEF indexVars, Moves, OnlyMoves, HandlerSteps, RequestSteps
    <3> QED
      BY <2>0, <2>2, <3>1 DEF Plays, FreeSlot, KeepsMutex, Mutating, indexVars, StaysPut
  <2> QED
    BY <1>9, <2>1, <2>2 DEF handleXCStream, ClientStep
<1>10. CASE buildXCEPGListings(r)
  <2>1. Moves(r)
    BY <1>10 DEF buildXCEPGListings, Answers, release, Acting, catalogVars, accountVars, indexVars, Moves, OnlyMoves, HandlerSteps, RequestSteps
  <2>2. GivesBack(r)
    BY <1>10, <2>1 DEF buildXCEPGListings, Answers, release, Acting, catalogVars, accountVars, indexVars, GivesBack, KeepsMutex, Mutating, HandlerSteps, Reserves
  <2> QED
    BY <2>2 DEF ClientStep
<1>11. CASE PlayEnds(r)
  <2>1. Moves(r)
    BY <1>11 DEF PlayEnds, Answers, release, Acting, catalogVars, accountVars, indexVars, Moves, OnlyMoves, HandlerSteps, RequestSteps
  <2>2. GivesBack(r)
    BY <1>11, <2>1 DEF PlayEnds, Answers, release, Acting, catalogVars, accountVars, indexVars, GivesBack, KeepsMutex, Mutating, HandlerSteps, Reserves
  <2> QED
    BY <2>2 DEF ClientStep
<1>12. CASE Returns(r)
  <2>1. Moves(r)
    BY <1>12 DEF Returns, Acting, catalogVars, accountVars, indexVars, Moves, OnlyMoves, HandlerSteps, RequestSteps
  <2>2. Begins(r)
    BY <1>12, <2>1 DEF Returns, Acting, catalogVars, accountVars, indexVars, Begins, KeepsMutex, Mutating, HandlerSteps, Rests
  <2> QED
    BY <2>2 DEF ClientStep
<1> QED
  BY <1>1, <1>2, <1>3, <1>4, <1>5, <1>6, <1>7, <1>8, <1>9, <1>10, <1>11, <1>12 DEF ClientStep

-----------------------------------------------------------------------------
(* The invariant                                                           *)

LEMMA SlotsInitially ==
  ASSUME XCInit
  PROVE  SlotsIInv
<1> USE XCAssumption, NoRequestIs DEF XCInit, XCAssumption
<1>1. PICK d \in AccountDrafts : accounts = <<d>> /\ activeConns = <<[i \in DOMAIN d |-> 0]>>
  OBVIOUS
<1>2. ListsWellFormed
  BY <1>1 DEF ListsWellFormed
<1>3. RequestInv
  BY DEF RequestInv, HandlerSteps, RequestSteps
<1>4. GenerationInv
  BY DEF GenerationInv
<1>5. \A r \in XCClients : ~req[r].holds /\ ~req[r].plays /\ req[r].pc = "idle"
  OBVIOUS
<1>6. \A l, i : Reserving(l, i) = {} /\ Holders(l, i) = {}
  BY <1>5 DEF Reserving, Holders
<1>10. DOMAIN accounts = {1} /\ accounts[1] = d /\ activeConns[1] = [i \in DOMAIN d |-> 0] /\ Cardinality({}) = 0
  BY <1>1, FS_EmptySet
<1>7. SlotsAreCounted
  BY <1>6, <1>10 DEF SlotsAreCounted
<1>8. HoldersWithinLimit
  <2>1. \A i \in DOMAIN d : 0 <= d[i].max
    OBVIOUS
  <2> QED
    <3> SUFFICES ASSUME NEW l \in DOMAIN accounts, NEW i \in DOMAIN accounts[l]
                 PROVE  Cardinality(Holders(l, i)) <= accounts[l][i].max
      BY DEF HoldersWithinLimit
    <3>1. Cardinality(Holders(l, i)) = 0 /\ accounts[l][i].max = d[i].max /\ i \in DOMAIN d
      BY <1>6, <1>10
    <3> QED
      BY <2>1, <3>1
<1>9. XCTypeOK
  <2>1. {r \in XCClients : req[r].plays} = {}
    BY <1>5
  <2> QED
    <3>1. \A l \in DOMAIN accounts : DOMAIN activeConns[l] = DOMAIN accounts[l]
      BY <1>10
    <3>2. clientSlots = Cardinality({r \in XCClients : req[r].plays}) /\ clientSlots <= AppLimit
      <4>1. clientSlots = 0 /\ clientSlots <= AppLimit
        OBVIOUS
      <4>2. Cardinality({r \in XCClients : req[r].plays}) = 0
        BY <2>1, FS_EmptySet, Zenon
      <4> QED
        BY <4>1, <4>2
    <3>3. \A r \in XCClients : streamIDIndexMu = r <=> req[r].pc \in {"publish", "stamp"}
      BY <1>5
    <3> QED
      BY <3>1, <3>2, <3>3 DEF XCTypeOK
<1> QED
  BY <1>2, <1>3, <1>4, <1>7, <1>8, <1>9 DEF SlotsIInv, SlotsInv

\* What a client's step keeps.
LEMMA RequestsKept ==
  ASSUME SlotsIInv, NEW r \in XCClients, ClientStep(r)
  PROVE  RequestInv' /\ GenerationInv'
<1>1. Moves(r)
  BY DEF ClientStep, Begins, Reserve, GivesBack, Walks, Plays
<1>2. req'[r].pc \notin {"idle", "done"} =>
        req'[r].list \in DOMAIN accounts /\ req'[r].acct \in DOMAIN accounts[req'[r].list]
  BY DEF ClientStep, Begins, Reserve, GivesBack, Walks, Plays, SlotsIInv, RequestInv, StaysPut, Rests, HandlerSteps
<1>3. RequestInv'
  BY <1>1, <1>2 DEF Moves, OnlyMoves, SlotsIInv, RequestInv
<1>4. GenerationInv'
  BY <1>1 DEF Moves, OnlyMoves, SlotsIInv, GenerationInv
<1> QED
  BY <1>3, <1>4

LEMMA ListsKept ==
  ASSUME SlotsIInv, NEW r \in XCClients, ClientStep(r)
  PROVE  ListsWellFormed'
<1> DEFINE L == req[r].list
           A == req[r].acct
<1>1. UNCHANGED accounts
  BY DEF ClientStep, Begins, Reserve, GivesBack, Walks, Plays, Moves, OnlyMoves
<1>2. CASE UNCHANGED activeConns
  BY <1>1, <1>2 DEF SlotsIInv, ListsWellFormed
<1>3. CASE Reserve(r) \/ GivesBack(r)
  <2>1. /\ L \in DOMAIN accounts /\ A \in DOMAIN accounts[L]
        /\ activeConns \in Seq(UNION {[DOMAIN d -> Int] : d \in AccountDrafts}) /\ L \in DOMAIN activeConns
        /\ activeConns[L] \in [DOMAIN accounts[L] -> Int] /\ accounts[L] \in AccountDrafts
    BY SMTT(40), <1>3 DEF SlotsIInv, RequestInv, Reserve, GivesBack, Reserves, ListsWellFormed, HandlerSteps
  <2>2. PICK k \in Int : activeConns' = [activeConns EXCEPT ![L][A] = k]
    <3>1. activeConns[L][A] + 1 \in Int /\ activeConns[L][A] - 1 \in Int
      BY <2>1
    <3> QED
      BY <1>3, <3>1 DEF Reserve, GivesBack
  <2>3. [activeConns[L] EXCEPT ![A] = k] \in [DOMAIN accounts[L] -> Int]
    BY <2>1
  <2>4. activeConns' = [activeConns EXCEPT ![L] = [activeConns[L] EXCEPT ![A] = k]]
    BY <2>2
  <2> DEFINE Counters == UNION {[DOMAIN d -> Int] : d \in AccountDrafts}
             new == [activeConns[L] EXCEPT ![A] = k]
  <2>5. new \in Counters
    BY <2>1, <2>3
  <2>6. activeConns' \in Seq(Counters) /\ Len(activeConns') = Len(activeConns)
    <3>1. activeConns \in Seq(Counters) /\ activeConns' = [activeConns EXCEPT ![L] = new]
      BY <2>1, <2>4
    <3> HIDE DEF Counters, new
    <3> QED
      BY <2>1, <2>5, <3>1
  <2>7. \A l \in DOMAIN accounts : activeConns'[l] \in [DOMAIN accounts[l] -> Int]
    BY <2>1, <2>3, <2>4 DEF SlotsIInv, ListsWellFormed
  <2> QED
    BY <1>1, <2>6, <2>7 DEF SlotsIInv, ListsWellFormed
<1> QED
  BY <1>2, <1>3 DEF ClientStep, Begins, Walks, Plays

LEMMA TypesKept ==
  ASSUME SlotsIInv, NEW r \in XCClients, ClientStep(r), RequestInv', GenerationInv', ListsWellFormed'
  PROVE  XCTypeOK' /\ clientSlots' \in Nat /\ streamIDIndexMu' \in XCClients \cup {NoClient}
<1> DEFINE P == {s \in XCClients : req[s].plays}
<1>0. /\ Moves(r) /\ \A s \in XCClients \ {r} : req'[s] = req[s]
      /\ \A s \in XCClients : streamIDIndexMu = s <=> req[s].pc \in Mutating
      /\ streamIDIndexMu \in XCClients \cup {NoClient} /\ NoClient \notin XCClients
  BY XCAssumption DEF ClientStep, Begins, Reserve, GivesBack, Walks, Plays, Moves, OnlyMoves, SlotsIInv, SlotsInv,
     XCTypeOK, Mutating, XCAssumption
<1>1. /\ \A s \in XCClients : streamIDIndexMu' = s <=> req'[s].pc \in Mutating
      /\ streamIDIndexMu' \in XCClients \cup {NoClient}
  BY <1>0 DEF ClientStep, Begins, Reserve, GivesBack, Walks, Plays, KeepsMutex
<1>2. clientSlots = Cardinality(P) /\ clientSlots \in Nat /\ clientSlots <= AppLimit /\ AppLimit \in Nat /\ IsFiniteSet(P)
  <2>1. P \subseteq XCClients
    OBVIOUS
  <2> QED
    BY <2>1, XCAssumption, FS_Subset DEF SlotsIInv, SlotsInv, XCTypeOK, XCAssumption
<1>3. clientSlots' = Cardinality(P') /\ clientSlots' \in Nat /\ clientSlots' <= AppLimit
  <2>1. CASE Plays(r)
    <3>1. P' = P \cup {r} /\ r \notin P
      BY <1>0, <2>1 DEF Plays, Moves, SlotsIInv, RequestInv
    <3>2. Cardinality(P') = Cardinality(P) + 1
      BY <1>2, <3>1, FS_AddElement
    <3>3. clientSlots' = clientSlots + 1 /\ clientSlots < AppLimit
      BY <2>1 DEF Plays
    <3> HIDE DEF P
    <3> QED
      BY <1>2, <3>2, <3>3
  <2>2. CASE GivesBack(r) /\ req[r].pc = "playing"
    <3>1. P' = P \ {r} /\ r \in P
      BY <1>0, <2>2 DEF GivesBack, Moves, SlotsIInv, RequestInv
    <3>2. Cardinality(P') = Cardinality(P) - 1 /\ Cardinality(P') \in Nat
      BY <1>2, <3>1, FS_RemoveElement, FS_CardinalityType
    <3>3. clientSlots' = clientSlots - 1
      BY <2>2 DEF GivesBack
    <3> HIDE DEF P
    <3> QED
      BY <1>2, <3>2, <3>3
  <2>3. CASE ~Plays(r) /\ ~(GivesBack(r) /\ req[r].pc = "playing")
    <3>1. req[r].pc # "playing" /\ req'[r].pc # "playing" /\ UNCHANGED clientSlots
      BY <2>3 DEF ClientStep, Begins, Reserve, GivesBack, Walks, Rests
    <3>2. P' = P
      BY <1>0, <3>1 DEF Moves, SlotsIInv, RequestInv
    <3> QED
      BY <1>2, <3>1, <3>2
  <2> QED
    BY <2>1, <2>2, <2>3
<1> QED
  BY <1>1, <1>3 DEF XCTypeOK, Mutating, ListsWellFormed, GenerationInv

LEMMA CountsHold ==
  ASSUME SlotsIInv, NEW r \in XCClients, ClientStep(r), RequestInv'
  PROVE  SlotsAreCounted' /\ HoldersWithinLimit'
<1>1. CASE Reserve(r)
  BY <1>1, CountsUp DEF Reserve, Moves
<1>2. CASE GivesBack(r)
  <2>1. ~Reserves(r)'
    BY <1>2 DEF GivesBack, Reserves, HandlerSteps
  <2> QED
    BY <1>2, <2>1, CountsDown DEF GivesBack, Moves
<1>3. CASE Begins(r) \/ Walks(r) \/ Plays(r)
  <2>1. OnlyMoves(r) /\ UNCHANGED <<accounts, activeConns>>
    BY <1>3 DEF Begins, Walks, Plays, Moves, OnlyMoves
  <2>2. /\ Reserves(r)' <=> Reserves(r)
        /\ req'[r].holds = req[r].holds
        /\ Reserves(r) => StaysPut(r)
    BY <1>3 DEF Begins, Walks, Plays, Moves, Reserves, HandlerSteps, Rests, SlotsIInv, RequestInv
  <2>3. \A s \in XCClients : /\ Reserves(s)' <=> Reserves(s)
                             /\ req'[s].holds = req[s].holds
                             /\ Reserves(s) => StaysPut(s)
    BY <2>1, <2>2 DEF OnlyMoves, Reserves, StaysPut
  <2> QED
    BY <2>1, <2>3, CountsKept
<1> QED
  BY <1>1, <1>2, <1>3 DEF ClientStep

\* A published list is new to every request.
LEMMA ReloadKeeps ==
  ASSUME SlotsIInv, NEW d \in AccountDrafts, ReloadPublishes(d)
  PROVE  SlotsIInv'
<1> DEFINE N == Len(accounts) + 1
           zero == [i \in DOMAIN d |-> 0]
<1>1. /\ accounts \in Seq(AccountDrafts) /\ accounts' = Append(accounts, d)
      /\ activeConns \in Seq(UNION {[DOMAIN e -> Int] : e \in AccountDrafts}) /\ Len(activeConns) = Len(accounts)
      /\ activeConns' = Append(activeConns, zero)
      /\ UNCHANGED <<catalogVars, indexVars, clientSlots, req, xcStarted>>
  BY DEF ReloadPublishes, SlotsIInv, ListsWellFormed
<1>2. /\ DOMAIN accounts' = 1..N /\ DOMAIN accounts = 1..Len(accounts) /\ Len(accounts) \in Nat
      /\ \A l \in DOMAIN accounts : accounts'[l] = accounts[l] /\ activeConns'[l] = activeConns[l]
      /\ accounts'[N] = d /\ activeConns'[N] = zero
  BY <1>1
<1>3. ListsWellFormed'
  <2>1. accounts' \in Seq(AccountDrafts) /\ accounts' # <<>>
    BY <1>1
  <2>2. zero \in UNION {[DOMAIN e -> Int] : e \in AccountDrafts}
    OBVIOUS
  <2>3. activeConns' \in Seq(UNION {[DOMAIN e -> Int] : e \in AccountDrafts}) /\ Len(activeConns') = Len(accounts')
    BY <1>1, <2>2
  <2>4. \A l \in DOMAIN accounts' : activeConns'[l] \in [DOMAIN accounts'[l] -> Int]
    BY <1>2 DEF SlotsIInv, ListsWellFormed
  <2> QED
    BY <2>1, <2>3, <2>4 DEF ListsWellFormed
<1>4. RequestInv' /\ GenerationInv'
  BY <1>1, <1>2 DEF SlotsIInv, RequestInv, GenerationInv, catalogVars, indexVars
<1>5. \A l, i : Reserving(l, i)' = Reserving(l, i) /\ Holders(l, i)' = Holders(l, i)
  BY <1>1 DEF Reserving, Holders
<1>6. \A i : Reserving(N, i) = {} /\ Holders(N, i) = {}
  <2>1. N \notin DOMAIN accounts
    BY <1>2
  <2> QED
    BY <2>1 DEF Reserving, Holders, SlotsIInv, RequestInv, HandlerSteps
<1>7. ASSUME NEW l \in DOMAIN accounts', NEW i \in DOMAIN accounts'[l]
      PROVE  /\ activeConns'[l][i] = Cardinality(Reserving(l, i)')
             /\ Cardinality(Holders(l, i)') <= accounts'[l][i].max
  <2>1. CASE l \in DOMAIN accounts
    BY <1>2, <1>5, <2>1 DEF SlotsIInv, SlotsInv, SlotsAreCounted, HoldersWithinLimit
  <2>2. CASE l = N
    <3>1. i \in DOMAIN d /\ zero[i] = 0 /\ d[i].max \in Nat
      BY <1>2, <2>2, XCAssumption DEF XCAssumption
    <3>2. Cardinality(Reserving(l, i)') = 0 /\ Cardinality(Holders(l, i)') = 0
      BY <1>5, <1>6, <2>2, FS_EmptySet
    <3>3. activeConns'[l][i] = zero[i] /\ accounts'[l][i].max = d[i].max
      BY <1>2, <2>2
    <3> QED
      BY <3>1, <3>2, <3>3
  <2> QED
    BY <1>2, <2>1, <2>2
<1>8. XCTypeOK'
  BY <1>1, <1>3 DEF SlotsIInv, SlotsInv, XCTypeOK, ListsWellFormed, catalogVars, indexVars
<1> QED
  BY <1>1, <1>3, <1>4, <1>7, <1>8 DEF SlotsIInv, SlotsInv, SlotsAreCounted, HoldersWithinLimit, indexVars

\* An import touches a request's note whether it was alone, and nothing else of it.
LEMMA ImportKeeps ==
  ASSUME SlotsIInv, NEW c, ImportStores(c)
  PROVE  SlotsIInv'
<1>1. UNCHANGED <<importGeneration, streamIDIndex, streamIDIndexGen, streamIDIndexMu, accounts, filled, activeConns, clientSlots>>
  BY DEF ImportStores, indexVars, accountVars
<1>2. /\ DOMAIN req = XCClients /\ DOMAIN req' = XCClients
      /\ \A r \in XCClients :
           /\ DOMAIN req'[r] = DOMAIN req[r] /\ req'[r].pc = req[r].pc /\ req'[r].gen = req[r].gen
           /\ req'[r].holds = req[r].holds /\ req'[r].plays = req[r].plays
           /\ req'[r].list = req[r].list /\ req'[r].acct = req[r].acct
  BY NoRequestIs DEF ImportStores, SlotsIInv, RequestInv
<1>3. RequestInv' /\ GenerationInv' /\ ListsWellFormed'
  BY <1>1, <1>2 DEF SlotsIInv, RequestInv, GenerationInv, ListsWellFormed
<1>4. SlotsAreCounted' /\ HoldersWithinLimit'
  BY <1>1, <1>2, <1>3, CountsKept DEF Reserves, StaysPut
<1>5. XCTypeOK'
  <2>1. {r \in XCClients : req'[r].plays} = {r \in XCClients : req[r].plays}
    BY <1>2
  <2> QED
    BY <1>1, <1>2, <2>1 DEF SlotsIInv, SlotsInv, XCTypeOK
<1> QED
  BY <1>1, <1>3, <1>4, <1>5 DEF SlotsIInv, SlotsInv

LEMMA SlotsStep ==
  ASSUME SlotsIInv, [XCNext]_xcVars
  PROVE  SlotsIInv'
<1>1. ASSUME NEW r \in XCClients,
             \/ \E ask \in Requests : XCBegins(r, ask)
             \/ acquireXCConnection(r) \/ Rollback(r) \/ HandleXCPlayerAPI(r) \/ LoadGeneration(r) \/ LoadIndex(r)
             \/ findChannelByStreamID(r) \/ rebuildStreamIDIndex(r) \/ handleXCStream(r)
             \/ buildXCEPGListings(r) \/ PlayEnds(r) \/ Returns(r)
      PROVE  SlotsIInv'
  <2>1. ClientStep(r)
    BY <1>1, StepKinds
  <2>2. RequestInv' /\ GenerationInv'
    BY <2>1, RequestsKept
  <2>3. ListsWellFormed'
    BY <2>1, ListsKept
  <2> QED
    BY <2>1, <2>2, <2>3, TypesKept, CountsHold DEF SlotsIInv, SlotsInv
<1>2. ASSUME NEW c \in Catalogs, ImportStores(c)
      PROVE  SlotsIInv'
  BY <1>2, ImportKeeps
<1>3. ASSUME NEW d \in AccountDrafts, ReloadPublishes(d)
      PROVE  SlotsIInv'
  BY <1>3, ReloadKeeps
<1>4. CASE ImportCommits
  <2>1. UNCHANGED <<streamIDIndex, streamIDIndexGen, streamIDIndexMu, accounts, activeConns, clientSlots, req>>
        /\ importGeneration' = importGeneration + 1
    BY <1>4 DEF ImportCommits, indexVars, accountVars
  <2>2. GenerationInv'
    BY <2>1 DEF SlotsIInv, GenerationInv
  <2>3. RequestInv' /\ ListsWellFormed' /\ SlotsAreCounted' /\ HoldersWithinLimit'
    <3>1. RequestInv' /\ ListsWellFormed'
      BY <2>1 DEF SlotsIInv, RequestInv, ListsWellFormed
    <3>2. \A l, i : Reserving(l, i)' = Reserving(l, i) /\ Holders(l, i)' = Holders(l, i)
      BY <2>1 DEF Reserving, Holders
    <3> QED
      BY <2>1, <3>1, <3>2 DEF SlotsIInv, SlotsInv, SlotsAreCounted, HoldersWithinLimit
  <2>4. XCTypeOK'
    BY <2>1, <2>2 DEF SlotsIInv, SlotsInv, XCTypeOK, GenerationInv
  <2> QED
    BY <2>1, <2>2, <2>3, <2>4 DEF SlotsIInv, SlotsInv
<1>5. CASE ReloadFills \/ UNCHANGED xcVars
  <2>1. UNCHANGED <<importGeneration, streamIDIndexGen, streamIDIndexMu, accounts, activeConns, clientSlots, req>>
    BY <1>5 DEF ReloadFills, xcVars, catalogVars, indexVars
  <2> QED
    BY <2>1 DEF SlotsIInv, SlotsInv, RequestInv, GenerationInv, ListsWellFormed, SlotsAreCounted, HoldersWithinLimit,
       Reserving, Holders, XCTypeOK
<1> QED
  BY <1>1, <1>2, <1>3, <1>4, <1>5 DEF XCNext

\* acquireXCConnection, its release and the application's slots: a counter is the number
\* of requests that reserved it and have not given it back, whatever reloads and imports
\* come between, so concurrent starts never pass a limit together.
THEOREM SlotsAlwaysHold == XCSpec => []SlotsInv
<1>1. SlotsIInv => SlotsInv
  BY DEF SlotsIInv
<1> QED
  BY <1>1, SlotsInitially, SlotsStep, PTL DEF XCSpec

-----------------------------------------------------------------------------
(***************************************************************************)
(* The lists of the Xtreme Codes output.  The index is the only part of    *)
(* them with a history (IndexInv); the rest is a function of the channel   *)
(* map that stands.                                                        *)
(***************************************************************************)

\* A request that neither holds nor takes the mutex leaves the index alone.
LEMMA IndexKept ==
  ASSUME SlotsIInv, IndexInv, XCTypeOK', NEW r \in XCClients, OnlyMoves(r), req[r].pc \notin Mutating,
         UNCHANGED <<catalogVars, indexVars>>
  PROVE  IndexInv'
<1>1. req'[r].pc \notin Mutating
  BY DEF XCTypeOK, SlotsIInv, SlotsInv, Mutating, indexVars
<1>2. \A s \in XCClients : req'[s].pc \in Mutating => req'[s] = req[s]
  BY <1>1 DEF OnlyMoves
<1>3. UNCHANGED <<channels, importGeneration, committing, streamIDIndex, streamIDIndexGen>>
  BY DEF catalogVars, indexVars
<1>4. IndexIsOfItsGeneration'
  BY <1>3 DEF IndexInv, IndexIsOfItsGeneration, indexesOf
<1>5. \A s \in XCClients :
        /\ req'[s].pc = "publish" /\ ~committing /\ importGeneration \in {req'[s].gen, streamIDIndexGen} =>
             req'[s].map \in indexesOf(channels)
        /\ req'[s].pc = "stamp" =>
             /\ streamIDIndex = req'[s].map
             /\ ~committing /\ importGeneration = req'[s].gen => req'[s].map \in indexesOf(channels)
  BY <1>2 DEF IndexInv, Mutating
<1> QED
  BY <1>3, <1>4, <1>5 DEF IndexInv, indexesOf

\* The mutex lets one request at a time build, publish and file an index.
LEMMA IndexRebuilt ==
  ASSUME SlotsIInv, IndexInv, NEW r \in XCClients, OnlyMoves(r), rebuildStreamIDIndex(r)
  PROVE  IndexInv'
<1>0. /\ DOMAIN req = XCClients /\ DOMAIN req[r] = DOMAIN NoRequest
      /\ \A s \in XCClients : streamIDIndexMu = s <=> req[s].pc \in {"publish", "stamp"}
      /\ NoClient \notin XCClients
      /\ UNCHANGED <<channels, importGeneration, committing>> /\ indexesOf(channels)' = indexesOf(channels)
  BY XCAssumption DEF SlotsIInv, SlotsInv, RequestInv, XCTypeOK, XCAssumption, rebuildStreamIDIndex, Acting, catalogVars, indexesOf
<1> DEFINE Now == indexesOf(channels)
           Good(s) ==
             /\ req'[s].pc = "publish" /\ ~committing /\ importGeneration \in {req'[s].gen, streamIDIndexGen'} =>
                  req'[s].map \in Now
             /\ req'[s].pc = "stamp" =>
                  /\ streamIDIndex' = req'[s].map
                  /\ ~committing /\ importGeneration = req'[s].gen => req'[s].map \in Now
           Filed == ~committing /\ streamIDIndex' # NoIndex /\ streamIDIndexGen' = importGeneration => streamIDIndex' \in Now
<1> HIDE DEF Now
<1> SUFFICES (\A s \in XCClients : Good(s)) /\ Filed
  <2> USE DEF Now
  <2>1. channels' \in Catalogs /\ indexesOf(channels)' = indexesOf(channels)
    BY <1>0 DEF IndexInv
  <2>2. IndexIsOfItsGeneration'
    BY <1>0, <2>1 DEF IndexIsOfItsGeneration
  <2> QED
    BY <1>0, <2>1, <2>2 DEF IndexInv
<1>1. /\ ~committing /\ streamIDIndex # NoIndex /\ streamIDIndexGen = importGeneration => streamIDIndex \in Now
      /\ req[r].pc = "publish" /\ ~committing /\ importGeneration \in {req[r].gen, streamIDIndexGen} => req[r].map \in Now
      /\ req[r].pc = "stamp" =>
           streamIDIndex = req[r].map /\ (~committing /\ importGeneration = req[r].gen => req[r].map \in Now)
  BY DEF IndexInv, IndexIsOfItsGeneration, Now
<1>2. CASE /\ Acting(r, "lock") /\ streamIDIndexMu = NoClient
           /\ streamIDIndex # NoIndex /\ streamIDIndexGen = req[r].gen
           /\ req' = [req EXCEPT ![r].pc = "resolve", ![r].name = NameOf(streamIDIndex, req[r].ask.id)]
           /\ UNCHANGED indexVars
  <2>1. \A s \in XCClients : req'[s].pc \notin {"publish", "stamp"}
    BY <1>0, <1>2, NoRequestIs DEF OnlyMoves
  <2> QED
    BY <1>1, <1>2, <2>1 DEF indexVars
<1>3. CASE /\ Acting(r, "lock") /\ streamIDIndexMu = NoClient
           /\ \E index \in indexesOf(channels) : req' = [req EXCEPT ![r].pc = "publish", ![r].map = index]
           /\ UNCHANGED <<streamIDIndex, streamIDIndexGen>>
  <2>1. \A s \in XCClients \ {r} : req'[s].pc \notin {"publish", "stamp"}
    BY <1>0, <1>3 DEF OnlyMoves
  <2>2. req'[r].pc = "publish" /\ req'[r].map \in Now
    BY <1>0, <1>3, NoRequestIs DEF Now
  <2> QED
    BY <1>1, <1>3, <2>1, <2>2
<1>4. CASE /\ Acting(r, "publish")
           /\ streamIDIndex' = req[r].map
           /\ req' = [req EXCEPT ![r].pc = "stamp"]
           /\ UNCHANGED <<streamIDIndexGen, streamIDIndexMu>>
  <2>1. \A s \in XCClients \ {r} : req'[s].pc \notin {"publish", "stamp"}
    BY <1>0, <1>4 DEF OnlyMoves, Acting
  <2>2. req'[r].pc = "stamp" /\ req'[r].map = req[r].map /\ req'[r].gen = req[r].gen /\ req[r].pc = "publish"
    BY <1>0, <1>4, NoRequestIs DEF Acting
  <2> QED
    BY <1>1, <1>4, <2>1, <2>2
<1>5. CASE /\ Acting(r, "stamp")
           /\ streamIDIndexGen' = suppliedGeneration(r)
           /\ req' = [req EXCEPT ![r].pc = "resolve", ![r].name = NameOf(req[r].map, req[r].ask.id)]
           /\ UNCHANGED streamIDIndex
  <2>1. \A s \in XCClients : req'[s].pc \notin {"publish", "stamp"}
    BY <1>0, <1>5, NoRequestIs DEF OnlyMoves, Acting
  <2> QED
    BY <1>1, <1>5, <2>1 DEF suppliedGeneration, Acting
<1> QED
  BY <1>2, <1>3, <1>4, <1>5 DEF rebuildStreamIDIndex

LEMMA IndexStep ==
  ASSUME SlotsIInv, SlotsIInv', IndexInv, [XCNext]_xcVars
  PROVE  IndexInv'
<1>0. XCTypeOK' /\ DOMAIN req = XCClients /\ DOMAIN req' = XCClients
  BY DEF SlotsIInv, SlotsInv, RequestInv
<1>1. ASSUME NEW r \in XCClients,
             \/ \E ask \in Requests : XCBegins(r, ask)
             \/ acquireXCConnection(r) \/ Rollback(r) \/ HandleXCPlayerAPI(r) \/ LoadGeneration(r) \/ LoadIndex(r)
             \/ findChannelByStreamID(r) \/ rebuildStreamIDIndex(r) \/ handleXCStream(r)
             \/ buildXCEPGListings(r) \/ PlayEnds(r) \/ Returns(r)
      PROVE  IndexInv'
  <2>1. OnlyMoves(r)
    BY <1>1, StepKinds DEF ClientStep, Begins, Reserve, GivesBack, Walks, Plays, Moves
  <2>2. CASE rebuildStreamIDIndex(r)
    BY <2>1, <2>2, IndexRebuilt
  <2>3. CASE ~rebuildStreamIDIndex(r)
    <3>1. req[r].pc \notin Mutating /\ UNCHANGED <<catalogVars, indexVars>>
      BY <1>1, <2>3 DEF XCBegins, acquireXCConnection, Rollback, HandleXCPlayerAPI, LoadGeneration, LoadIndex,
         findChannelByStreamID, handleXCStream, buildXCEPGListings, PlayEnds, Returns, Acting, Mutating
    <3> QED
      BY <1>0, <2>1, <3>1, IndexKept
  <2> QED
    BY <2>2, <2>3
<1>2. ASSUME NEW c \in Catalogs, ImportStores(c)
      PROVE  IndexInv'
  <2>1. channels' = c /\ committing' /\ streamIDIndex' = streamIDIndex
        /\ \A r \in XCClients : req'[r].pc = req[r].pc /\ req'[r].map = req[r].map
    BY <1>0, <1>2, NoRequestIs DEF ImportStores, indexVars, SlotsIInv, RequestInv
  <2> QED
    BY <2>1 DEF IndexInv, IndexIsOfItsGeneration
<1>3. CASE ImportCommits
  <2>1. UNCHANGED <<channels, streamIDIndex, streamIDIndexGen, req>> /\ importGeneration' = importGeneration + 1
    BY <1>3 DEF ImportCommits, indexVars
  <2>2. \A g \in 0 .. importGeneration : importGeneration' # g
    BY <2>1 DEF SlotsIInv, GenerationInv
  <2>3. streamIDIndexGen \in 0 .. importGeneration /\ \A r \in XCClients : req[r].gen \in 0 .. importGeneration
    BY DEF SlotsIInv, GenerationInv
  <2> QED
    BY <2>1, <2>2, <2>3 DEF IndexInv, IndexIsOfItsGeneration
<1>4. ASSUME (\E d \in AccountDrafts : ReloadPublishes(d)) \/ ReloadFills \/ UNCHANGED xcVars
      PROVE  IndexInv'
  <2>1. UNCHANGED <<channels, importGeneration, committing, streamIDIndex, streamIDIndexGen, req>>
    BY <1>4 DEF ReloadPublishes, ReloadFills, xcVars, catalogVars, indexVars
  <2> QED
    BY <2>1 DEF IndexInv, IndexIsOfItsGeneration, indexesOf
<1> QED
  BY <1>1, <1>2, <1>3, <1>4 DEF XCNext

-----------------------------------------------------------------------------
(* What the lists of one channel map have in common                        *)

LEMMA LeastOf ==
  ASSUME NEW T \in SUBSET Nat, T # {}
  PROVE  \E x \in T : \A y \in T : x <= y
<1> DEFINE R == {ss \in Nat \X Nat : ss[1] < ss[2]}
<1>1. IsWellFoundedOn(R, Nat)
  BY NatLessThanWellFounded DEF OpToRel
<1> HIDE DEF R
<1>2. PICK x \in T : \A y \in T : ~ (<<y, x>> \in R)
  BY <1>1, WFMin
<1>3. \A y \in T : ~(y < x)
  BY <1>2 DEF R
<1> QED
  BY <1>3

\* SeriesForExport: the first entry of its key stands for every local episode.
LEMMA ShowsPartitioned ==
  /\ UNION {EpisodesForSeries(e) : e \in SeriesForExport} = Shows
  /\ \A e, f \in SeriesForExport : e # f => EpisodesForSeries(e) \cap EpisodesForSeries(f) = {}
<1>0. DOMAIN Library \subseteq Nat /\ \A x \in Shows : \E i \in DOMAIN Library : Library[i] = x
  BY CatalogAssumption DEF CatalogAssumption, Shows, EntriesForContentType, Range
<1>1. ASSUME NEW x \in Shows
      PROVE  \E e \in SeriesForExport : x \in EpisodesForSeries(e)
  <2> DEFINE Alike == {i \in DOMAIN Library : Library[i] \in Shows /\ seriesKey(Library[i]) = seriesKey(x)}
  <2>1. Alike \in SUBSET Nat /\ Alike # {}
    BY <1>0
  <2>2. PICK i \in Alike : \A j \in Alike : i <= j
    BY <2>1, LeastOf
  <2>3. Library[i] \in SeriesForExport
    <3>1. \A j \in DOMAIN Library : j < i /\ Library[j] \in Shows => seriesKey(Library[j]) # seriesKey(Library[i])
      BY <1>0, <2>2
    <3> QED
      BY <2>2, <3>1 DEF SeriesForExport
  <2>4. x \in EpisodesForSeries(Library[i])
    BY <2>2 DEF seriesKey, EpisodesForSeries
  <2> QED
    BY <2>3, <2>4
<1>2. ASSUME NEW e \in SeriesForExport, NEW f \in SeriesForExport, NEW c \in EpisodesForSeries(e) \cap EpisodesForSeries(f)
      PROVE  e = f
  <2>1. seriesKey(e) = seriesKey(f)
    BY DEF EpisodesForSeries, seriesKey
  <2>2. PICK i \in DOMAIN Library : /\ Library[i] = e
          /\ \A j \in DOMAIN Library : j < i /\ Library[j] \in Shows => seriesKey(Library[j]) # seriesKey(e)
    BY DEF SeriesForExport
  <2>3. PICK k \in DOMAIN Library : /\ Library[k] = f
          /\ \A j \in DOMAIN Library : j < k /\ Library[j] \in Shows => seriesKey(Library[j]) # seriesKey(f)
    BY DEF SeriesForExport
  <2>4. e \in Shows /\ f \in Shows
    BY DEF SeriesForExport
  <2>5. ~(i < k) /\ ~(k < i)
    BY <2>1, <2>2, <2>3, <2>4
  <2> QED
    BY <1>0, <2>2, <2>3, <2>5
<1> QED
  BY <1>1, <1>2 DEF EpisodesForSeries

LEMMA GroupsNamed ==
  \A e \in Range(Library) : e.group # <<>> /\ SeriesCategory(e) # <<>>
<1> SUFFICES ASSUME NEW e \in Range(Library)
             PROVE  e.group # <<>> /\ SeriesCategory(e) # <<>>
  OBVIOUS
<1>1. e.group \in Seq(STRING) \ {<<>>}
  BY CatalogAssumption DEF CatalogAssumption, Range
<1>2. ASSUME Len(e.group) > 1 PROVE Front(e.group) # <<>>
  BY <1>1, <1>2 DEF Front
<1> QED
  BY <1>1, <1>2 DEF SeriesCategory

\* buildStreamList and buildCategoryList name the same categories.
LEMMA CategoriesAgree ==
  ASSUME NEW t \in ContentTypes
  PROVE  {s.category : s \in buildStreamList(channels, t)} = buildCategoryList(channels, t)
<1> DEFINE Local == IF t = "series" THEN {LocalStream(e, SeriesCategory(e)) : e \in SeriesForExport}
                    ELSE {LocalStream(e, e.group) : e \in EntriesForContentType(t)}
           Remote == {RemoteStream(channels, n) : n \in Listed(channels, t)}
<1>1. {s.category : s \in Remote} = {groupTitleOf(channels[n][1]) : n \in Listed(channels, t)}
  <2>1. \A n : RemoteStream(channels, n).category = groupTitleOf(channels[n][1])
    BY DEF RemoteStream
  <2> QED
    BY <2>1
<1>2. SeriesForExport \subseteq Range(Library) /\ EntriesForContentType(t) \subseteq Range(Library)
  BY DEF SeriesForExport, Shows, EntriesForContentType
<1>3. {s.category : s \in Local} =
        {g \in IF t = "series" THEN {SeriesCategory(e) : e \in SeriesForExport}
               ELSE {e.group : e \in EntriesForContentType(t)} : g # <<>>}
  <2>0. \A e, c : LocalStream(e, c).category = c
    BY DEF LocalStream
  <2>1. CASE t = "series"
    <3>1. {s.category : s \in Local} = {SeriesCategory(e) : e \in SeriesForExport}
      BY <2>0, <2>1
    <3>2. \A g \in {SeriesCategory(e) : e \in SeriesForExport} : g # <<>>
      BY <1>2, GroupsNamed
    <3> QED
      BY <2>1, <3>1, <3>2
  <2>2. CASE t # "series"
    <3>0. Local = {LocalStream(e, e.group) : e \in EntriesForContentType(t)}
      BY <2>2
    <3>1. {s.category : s \in Local} = {e.group : e \in EntriesForContentType(t)}
      <4> HIDE DEF Local
      <4> QED
        BY <2>0, <3>0
    <3>2. \A g \in {e.group : e \in EntriesForContentType(t)} : g # <<>>
      BY <1>2, GroupsNamed
    <3> QED
      BY <2>2, <3>1, <3>2
  <2> QED
    BY <2>1, <2>2
<1>4. buildStreamList(channels, t) = Remote \cup Local
  BY DEF buildStreamList
<1>5. {s.category : s \in Remote \cup Local} = {s.category : s \in Remote} \cup {s.category : s \in Local}
  OBVIOUS
<1> HIDE DEF Remote, Local
<1> QED
  BY <1>1, <1>3, <1>4, <1>5 DEF buildCategoryList

LEMMA LargestOf ==
  ASSUME NEW n \in Nat, NEW T \in SUBSET (1 .. n), T # {}
  PROVE  \E x \in T : \A y \in T : y <= x
<1> DEFINE U == {n - x : x \in T}
<1>1. U \in SUBSET Nat /\ U # {}
  OBVIOUS
<1> HIDE DEF U
<1>2. PICK u \in U : \A v \in U : u <= v
  BY <1>1, LeastOf
<1> USE DEF U
<1>3. PICK x \in T : u = n - x
  OBVIOUS
<1>4. ASSUME NEW y \in T
      PROVE  y <= x
  <2>1. n - x <= n - y
    BY <1>2, <1>3
  <2> QED
    BY <2>1
<1> QED
  BY <1>4

\* handleXCStream: what has an id plays something that has it.
LEMMA ClaimedIsResolved ==
  ASSUME NEW id, Claims(channels, id) # {}
  PROVE  Resolve(channels, id) # {} /\ Resolve(channels, id) \subseteq Claims(channels, id)
<1>1. CASE NamesOf(channels, id) # {}
  BY <1>1 DEF Resolve, Claims
<1>2. CASE NamesOf(channels, id) = {} /\ EpisodeOf(id) # {}
  BY <1>2 DEF Resolve, Claims
<1>3. CASE NamesOf(channels, id) = {} /\ EpisodeOf(id) = {}
  <2>1. EntriesOf(id) # {}
    BY <1>3 DEF Claims
  <2>2. FilesOf(id) # {} /\ FilesOf(id) \in SUBSET (1 .. Len(Library)) /\ Len(Library) \in Nat
    BY <2>1, CatalogAssumption DEF EntriesOf, FilesOf, CatalogAssumption
  <2>3. \E x \in FilesOf(id) : \A y \in FilesOf(id) : y <= x
    BY <2>2, LargestOf
  <2>4. PICK x \in FilesOf(id) : \A y \in FilesOf(id) : y <= x
    BY <2>3
  <2>5. <<Library[x].hash, "local">> \in ExportIndexed(id)
    BY <2>4 DEF ExportIndexed
  <2>6. ExportIndexed(id) \subseteq EntriesOf(id)
    BY DEF EntriesOf, ExportIndexed
  <2>7. Resolve(channels, id) = ExportIndexed(id)
    BY <1>3 DEF Resolve
  <2> QED
    BY <2>5, <2>6, <2>7 DEF Claims
<1> QED
  BY <1>1, <1>2, <1>3

LEMMA OffersClaim ==
  ASSUME NEW t \in ContentTypes, NEW s \in Offers(t)
  PROVE  Claims(channels, s.id) # {}
<1>1. \/ \E n \in DOMAIN channels : s = RemoteStream(channels, n)
      \/ \E e \in Range(Library) : \E c : s = LocalStream(e, c)
  BY DEF Offers, buildStreamList, writeXCM3UPlaylist, Listed, SeriesForExport, Shows, EntriesForContentType
<1>2. ASSUME NEW n \in DOMAIN channels, s = RemoteStream(channels, n)
      PROVE  Claims(channels, s.id) # {}
  <2>1. <<n, "channel">> \in NamesOf(channels, s.id)
    BY <1>2 DEF NamesOf, RemoteStream
  <2> QED
    BY <2>1 DEF Claims
<1>3. ASSUME NEW e \in Range(Library), NEW c, s = LocalStream(e, c)
      PROVE  Claims(channels, s.id) # {}
  <2>1. PICK i \in DOMAIN Library : e = Library[i]
    BY DEF Range
  <2>2. i \in FilesOf(s.id)
    BY <1>3, <2>1 DEF FilesOf, LocalStream
  <2>3. <<Library[i].hash, "local">> \in EntriesOf(s.id)
    BY <2>2 DEF EntriesOf
  <2> QED
    BY <2>3 DEF Claims
<1> QED
  BY <1>1, <1>2, <1>3

LEMMA OffersResolve ==
  ASSUME NEW t \in ContentTypes, NEW s \in Offers(t)
  PROVE  LET plays == Resolve(channels, s.id) IN
           /\ plays # {} /\ plays \subseteq Claims(channels, s.id)
           /\ (\A c \in Claims(channels, s.id) : c[1] = s.item) => \A p \in plays : p[1] = s.item
  BY OffersClaim, ClaimedIsResolved

-----------------------------------------------------------------------------
(* Order                                                                   *)

LEMMA LeastPlace ==
  ASSUME NEW T \in SUBSET (Nat \X Nat), T # {}
  PROVE  \E p \in T : \A q \in T : ~Before(q, p)
<1> DEFINE Sources == {q[1] : q \in T}
<1>1. PICK s \in Sources : \A y \in Sources : s <= y
  <2>1. Sources \in SUBSET Nat /\ Sources # {}
    OBVIOUS
  <2> QED
    BY <2>1, LeastOf
<1> DEFINE Orders == {q[2] : q \in {x \in T : x[1] = s}}
<1>2. PICK o \in Orders : \A y \in Orders : o <= y
  <2>1. Orders \in SUBSET Nat /\ Orders # {}
    BY <1>1
  <2> QED
    BY <2>1, LeastOf
<1>3. PICK p \in T : p[1] = s /\ p[2] = o
  BY <1>2
<1>4. ASSUME NEW q \in T, Before(q, p)
      PROVE  FALSE
  <2>1. q[1] \in Sources /\ q[1] \in Nat /\ q[2] \in Nat /\ s \in Nat /\ o \in Nat
    BY <1>1, <1>2
  <2>2. s <= q[1]
    BY <1>1, <2>1
  <2>3. q[1] = s => o <= q[2]
    BY <1>2
  <2> QED
    BY <1>3, <1>4, <2>1, <2>2, <2>3 DEF Before
<1> QED
  BY <1>3, <1>4

LEMMA MemberOf ==
  ASSUME NEW S, NEW q \in Seq(S), NEW i \in DOMAIN q
  PROVE  q[i] \in S
OBVIOUS

\* xcChannelOriginalOrder is one of the channel's streams, and none is before it.
LEMMA ChannelPlaced ==
  ASSUME channels \in Catalogs, NEW n \in DOMAIN channels, channels[n] # <<>>
  PROVE  /\ \E a \in Range(channels[n]) : xcChannelOriginalOrder(channels[n]) = <<a.source, a.order>>
         /\ \A b \in Range(channels[n]) : ~Before(<<b.source, b.order>>, xcChannelOriginalOrder(channels[n]))
         /\ \A b \in Range(channels[n]) : b.source \in 0 .. MaxInt - 1 /\ b.order \in 0 .. MaxInt - 1
<1> DEFINE ch == channels[n]
           places == {<<ch[i].source, ch[i].order>> : i \in DOMAIN ch}
<1>1. ch \in Seq([type : {"live", "vod", "series"}, group : Seq(STRING), tvgroup : Seq(STRING),
                  source : 0 .. MaxInt - 1, order : 0 .. MaxInt - 1])
  BY CatalogAssumption DEF CatalogAssumption
<1>2. \A i \in DOMAIN ch : ch[i].source \in 0 .. MaxInt - 1 /\ ch[i].order \in 0 .. MaxInt - 1
  <2>1. \A i \in DOMAIN ch : ch[i] \in [type : {"live", "vod", "series"}, group : Seq(STRING), tvgroup : Seq(STRING),
                                      source : 0 .. MaxInt - 1, order : 0 .. MaxInt - 1]
    BY <1>1, MemberOf
  <2> QED
    BY <2>1
<1>3. places \in SUBSET (Nat \X Nat) /\ places # {}
  <2>1. 1 \in DOMAIN ch
    BY <1>1
  <2>2. \A i \in DOMAIN ch : <<ch[i].source, ch[i].order>> \in Nat \X Nat
    <3>1. \A k \in 0 .. MaxInt - 1 : k \in Nat
      BY DEF MaxInt
    <3> QED
      BY <1>2, <3>1
  <2> QED
    BY <2>1, <2>2
<1>4. xcChannelOriginalOrder(ch) = CHOOSE p \in places : \A q \in places : ~Before(q, p)
  BY DEF xcChannelOriginalOrder
<1>5. xcChannelOriginalOrder(ch) \in places /\ \A q \in places : ~Before(q, xcChannelOriginalOrder(ch))
  BY <1>3, <1>4, LeastPlace
<1> QED
  BY <1>2, <1>5 DEF Range

LEMMA BelowMax == \A k \in 0 .. MaxInt - 1 : k < MaxInt
BY DEF MaxInt

LEMMA PlacedByEarliest ==
  ASSUME channels \in Catalogs
  PROVE  EarliestStreamPlaces
<1> SUFFICES ASSUME PreserveOrder, NEW s \in getSortedChannels(channels), NEW i \in DOMAIN s, NEW j \in DOMAIN s,
                    i < j, channels[s[j]] # <<>>
             PROVE  \E a \in Range(channels[s[i]]) : \A b \in Range(channels[s[j]]) :
                      ~Before(<<b.source, b.order>>, <<a.source, a.order>>)
  BY DEF EarliestStreamPlaces
<1> DEFINE p == xcChannelOriginalOrder(channels[s[i]])
           q == xcChannelOriginalOrder(channels[s[j]])
<1>1. s[i] \in DOMAIN channels /\ s[j] \in DOMAIN channels
  BY DEF getSortedChannels, SetToSeqs
<1>2. ~Before(q, p)
  BY DEF getSortedChannels, xcChannelOriginalOrderLess
<1>3. /\ \E b \in Range(channels[s[j]]) : q = <<b.source, b.order>>
      /\ \A b \in Range(channels[s[j]]) : ~Before(<<b.source, b.order>>, q)
      /\ \A b \in Range(channels[s[j]]) : b.source \in 0 .. MaxInt - 1 /\ b.order \in 0 .. MaxInt - 1
  BY <1>1, ChannelPlaced
<1>4. channels[s[i]] # <<>>
  <2> SUFFICES ASSUME channels[s[i]] = <<>>
               PROVE  FALSE
    OBVIOUS
  <2>1. p = <<MaxInt, MaxInt>>
    BY DEF xcChannelOriginalOrder
  <2>2. PICK b \in Range(channels[s[j]]) : q = <<b.source, b.order>> /\ b.source \in 0 .. MaxInt - 1
    BY <1>3
  <2> HIDE DEF p, q
  <2>3. p[1] = MaxInt /\ q[1] = b.source
    BY <2>1, <2>2
  <2>4. b.source < MaxInt
    BY <2>2, BelowMax
  <2> QED
    BY <1>2, <2>3, <2>4 DEF Before
<1>5. PICK a \in Range(channels[s[i]]) : p = <<a.source, a.order>> /\ a.source \in 0 .. MaxInt - 1 /\ a.order \in 0 .. MaxInt - 1
  BY <1>1, <1>4, ChannelPlaced
<1> HIDE DEF p, q
<1>6. ASSUME NEW b \in Range(channels[s[j]])
      PROVE  ~Before(<<b.source, b.order>>, <<a.source, a.order>>)
  <2>1. PICK c \in Range(channels[s[j]]) : q = <<c.source, c.order>> /\ c.source \in Int /\ c.order \in Int
    BY <1>3
  <2>2. b.source \in Int /\ b.order \in Int /\ a.source \in Int /\ a.order \in Int
    BY <1>3, <1>5
  <2>3. ~Before(<<c.source, c.order>>, <<a.source, a.order>>) /\ ~Before(<<b.source, b.order>>, <<c.source, c.order>>)
    BY <1>2, <1>3, <1>5, <2>1
  <2> QED
    BY <2>1, <2>2, <2>3 DEF Before
<1> QED
  BY <1>6

LEMMA ListsOfIndex == IndexInv => ListsInv
<1> SUFFICES ASSUME IndexInv
             PROVE  ListsInv
  OBVIOUS
<1>1. channels \in Catalogs /\ IndexIsOfItsGeneration
  BY DEF IndexInv
<1>2. ListsAgree
  BY <1>1, CategoriesAgree, OffersResolve DEF ListsAgree
<1>3. EarliestStreamPlaces
  BY <1>1, PlacedByEarliest
<1>4. TreesPartitionShows
  BY ShowsPartitioned DEF TreesPartitionShows
<1> QED
  BY <1>1, <1>2, <1>3, <1>4 DEF ListsInv

\* The lists a player gets agree with each other, with the local library and with the
\* index its requests are resolved through: whatever imports are committed while an
\* index is built, an index filed under the current generation has its channels; every
\* id offered plays its item; the trees of the local series hold every local episode
\* once; and under preserve-order the earliest stream places a channel.
THEOREM ListsAlwaysHold == XCSpec => []ListsInv
<1>1. SlotsIInv /\ IndexInv => ListsInv
  BY ListsOfIndex
<1>2. XCInit => SlotsIInv /\ IndexInv
  <2> SUFFICES ASSUME XCInit PROVE SlotsIInv /\ IndexInv
    OBVIOUS
  <2>1. SlotsIInv
    BY SlotsInitially
  <2>2. IndexInv
    BY NoRequestIs DEF XCInit, IndexInv, IndexIsOfItsGeneration
  <2> QED
    BY <2>1, <2>2
<1>3. SlotsIInv /\ IndexInv /\ [XCNext]_xcVars => (SlotsIInv /\ IndexInv)'
  BY SlotsStep, IndexStep
<1> QED
  BY <1>1, <1>2, <1>3, PTL DEF XCSpec

-----------------------------------------------------------------------------
(***************************************************************************)
(* The local library.  A scan that nobody disturbs knows at each of its    *)
(* steps what the disk and the tables hold (QuietInv); as long as no build *)
(* has met an announcement, what a builder has in hand is the stored       *)
(* library (BuiltInv), for the first half of InvalidateExport leaves no    *)
(* snapshot and nobody building one (ClearedInv).                          *)
(***************************************************************************)

-----------------------------------------------------------------------------
(* Rows and requests                                                       *)

LEMMA FilesCounted ==
  ASSUME NEW S \in SUBSET Files
  PROVE  Cardinality(S) \in 0 .. Cardinality(Files)
<1>1. IsFiniteSet(Files)
  BY LibraryAssumption
<1>2. Cardinality(S) <= Cardinality(Files) /\ Cardinality(S) \in Nat /\ Cardinality(Files) \in Nat
  BY <1>1, FS_Subset, FS_CardinalityType
<1> QED
  BY <1>2

\* A count is the only field of a row that a scan writes.
LEMMA Recounted ==
  ASSUME NEW r \in Storable
  PROVE  /\ r # NoSource
         /\ r.count \in 0 .. Cardinality(Files)
         /\ \A n \in 0 .. Cardinality(Files) :
              /\ [r EXCEPT !.count = n] \in Storable
              /\ [r EXCEPT !.count = n].count = n
              /\ [r EXCEPT !.count = n].root = r.root /\ [r EXCEPT !.count = n].type = r.type
              /\ [r EXCEPT !.count = n].prefix = r.prefix /\ [r EXCEPT !.count = n].filter = r.filter
              /\ [r EXCEPT !.count = n].enabled = r.enabled
<1>1. PICK d \in SourceDrafts \cup {StoredRow}, m \in 0 .. Cardinality(Files) : r = RowOf(d, m)
  BY DEF Storable
<1>2. ASSUME NEW n \in 0 .. Cardinality(Files)
      PROVE  [r EXCEPT !.count = n] = RowOf(d, n)
  BY <1>1 DEF RowOf
<1>3. ASSUME NEW n \in 0 .. Cardinality(Files)
      PROVE  RowOf(d, n) \in Storable
  BY DEF Storable
<1> QED
  BY <1>1, <1>2, <1>3, RowAssumption DEF RowOf

LEMMA Posted ==
  ASSUME NEW d \in SourceDrafts \cup {StoredRow}, NEW n \in 0 .. Cardinality(Files)
  PROVE  RowOf(d, n) \in Storable /\ RowOf(d, n) # NoSource
BY RowAssumption DEF Storable

\* A scan that another request disturbs keeps everything but its quiet.
Same(t) == scan'[t] = scan[t] \/ scan'[t] = [scan[t] EXCEPT !.quiet = FALSE]

LEMMA DisturbedIs ==
  ASSUME ShapeInv, NEW me
  PROVE  /\ DOMAIN Disturbed(me) = Scanners
         /\ \A t \in Scanners :
              /\ DOMAIN Disturbed(me)[t] = ScanFields
              /\ Disturbed(me)[t] = scan[t] \/ Disturbed(me)[t] = [scan[t] EXCEPT !.quiet = FALSE]
              /\ t = me => Disturbed(me)[t] = scan[t]
              /\ t # me /\ scan[t].pc # "idle" => Disturbed(me)[t].quiet = FALSE
              /\ Disturbed(me)[t].pc = scan[t].pc /\ Disturbed(me)[t].id = scan[t].id
BY DEF Disturbed, ShapeInv, NoScan, ScanFields

LEMMA DisturbedLooksOn ==
  ASSUME ShapeInv, NEW me, NEW t \in Scanners
  PROVE  /\ DOMAIN Disturbed(me)[t] = ScanFields
         /\ Disturbed(me)[t].pc = scan[t].pc /\ Disturbed(me)[t].id = scan[t].id
BY DisturbedIs

-----------------------------------------------------------------------------
(* The shape of the state                                                  *)

ScanShape == /\ DOMAIN scan = Scanners /\ \A s \in Scanners : DOMAIN scan[s] = ScanFields
             /\ \A s \in Scanners : scan[s].pc \notin {"idle", "next"} => scan[s].id \in Ids
LookShape == DOMAIN look = Lookers /\ \A l \in Lookers : DOMAIN look[l] = LookFields
MediaShape == DOMAIN media = Ids /\ \A i \in Ids : \A f \in Entries(i) : media[i][f].mtime \in Nat

LEMMA DisturbedShape ==
  ASSUME ShapeInv, NEW me, scan' = Disturbed(me)
  PROVE  ScanShape'
<1>1. \A t \in Scanners : scan'[t].pc = scan[t].pc /\ scan'[t].id = scan[t].id
  BY DisturbedIs
<1> QED
  BY <1>1, DisturbedIs DEF ScanShape, ShapeInv

Edits ==
  \/ \E d \in SourceDrafts : handleCreateLocalSource(d)
  \/ \E i \in Ids, d \in SourceDrafts : handleUpdateLocalSource(i, d)
  \/ \E i \in Ids : handleDeleteLocalSource(i)
Skips(s) == \E i \in Ids : NextSource(s, i) /\ ~compileFilters(scan[s].rest[i])
GoesOn(s) == \E i \in Ids : NextSource(s, i) /\ compileFilters(scan[s].rest[i])
Reads(s) == ScanWalks(s) \/ ScanParses(s) \/ process(s) \/ ScanReturns(s) \/ Skips(s) \/ StatementFails(s)
Starts(s) == \/ \E i \in Ids : ScanBegins(s, i)
             \/ ScanAll(s) \/ GoesOn(s)
             \/ \E i \in Ids, f \in Files : EditBegins(s, i, f)
Looks(l) ==
  \/ \E i \in Rows, f \in Sought : LookBegins(l, i, f)
  \/ LookLocks(l) \/ exportSnapshot(l) \/ FindByXCStreamID(l) \/ sourceRoot(l) \/ PathWithinSource(l)
DiskChanges == (\E f \in Files : FileChanges(f)) \/ MountChanges

LEMMA NextIs ==
  LibNext =>
    /\ Observe
    /\ \/ DiskChanges \/ Edits \/ DeleteAllForSource \/ EditorClears
       \/ \E s \in Scanners : \/ Starts(s) \/ Reads(s) \/ UpsertBatch(s) \/ DeleteMissing(s)
                              \/ ScanClears(s) \/ TouchLocalSourceScan(s)
       \/ \E l \in Lookers : Looks(l)
BY DEF LibNext, Edits, Reads, Starts, Skips, GoesOn, Looks, DiskChanges

LEMMA DiskShape == ASSUME ShapeInv, DiskChanges PROVE ShapeInv'
<1>1. disk' \in [Files -> [there : BOOLEAN, ver : Nat]]
  BY DEF DiskChanges, FileChanges, MountChanges, ShapeInv
<1>2. ScanShape'
  BY DisturbedShape DEF DiskChanges, FileChanges, MountChanges
<1>3. UNCHANGED <<src, media, look, editor>>
  BY DEF DiskChanges, FileChanges, MountChanges, tables
<1> QED
  BY <1>1, <1>2, <1>3 DEF ShapeInv, ScanShape, Entries

LEMMA EditShape == ASSUME ShapeInv, Edits PROVE ShapeInv'
<1>1. ScanShape' /\ UNCHANGED <<disk, look>> /\ DOMAIN editor' = EditFields
  BY DisturbedShape DEF EditFields, Edits, handleCreateLocalSource, handleUpdateLocalSource, handleDeleteLocalSource, Editing
<1>2. src' \in [Ids -> Storable \cup {NoSource}]
  <2>1. ASSUME NEW d \in SourceDrafts, handleCreateLocalSource(d) PROVE src' \in [Ids -> Storable \cup {NoSource}]
    <3>1. 0 \in 0 .. Cardinality(Files)
      BY FilesCounted
    <3> QED
      BY <2>1, <3>1, Posted DEF handleCreateLocalSource, ShapeInv
  <2>2. ASSUME NEW i \in Ids, NEW d \in SourceDrafts, handleUpdateLocalSource(i, d)
        PROVE  src' \in [Ids -> Storable \cup {NoSource}]
    <3>1. src[i] \in Storable
      BY <2>2 DEF handleUpdateLocalSource, ShapeInv
    <3>2. RowOf(d, src[i].count) \in Storable
      BY <3>1, Recounted, Posted
    <3> QED
      BY <2>2, <3>2 DEF handleUpdateLocalSource, ShapeInv
  <2>3. ASSUME NEW i \in Ids, handleDeleteLocalSource(i) PROVE src' \in [Ids -> Storable \cup {NoSource}]
    BY <2>3 DEF handleDeleteLocalSource, ShapeInv
  <2> QED
    BY <2>1, <2>2, <2>3 DEF Edits
<1>3. MediaShape'
  BY DEF Edits, handleCreateLocalSource, handleUpdateLocalSource, handleDeleteLocalSource, NoFiles, MediaShape, Entries, ShapeInv
<1> QED
  BY <1>1, <1>2, <1>3 DEF ShapeInv, ScanShape, MediaShape

LEMMA WipeShape == ASSUME ShapeInv, DeleteAllForSource PROVE ShapeInv'
<1>1. ScanShape' /\ UNCHANGED <<disk, src, look>> /\ DOMAIN editor' = EditFields
  BY DisturbedShape DEF DeleteAllForSource, ShapeInv, EditFields
<1>2. MediaShape'
  BY DEF DeleteAllForSource, NoFiles, MediaShape, Entries, ShapeInv
<1> QED
  BY <1>1, <1>2 DEF ShapeInv, ScanShape, MediaShape

LEMMA ClearShape == ASSUME ShapeInv, EditorClears PROVE ShapeInv'
BY DEF EditorClears, tables, ShapeInv, Entries, EditFields, NoEdit

\* What a request that begins, or goes on to its next source, finds and does.
LEMMA OnwardIs ==
  ASSUME NEW rest
  PROVE  /\ DOMAIN Onward(rest) = ScanFields
         /\ Onward(rest).pc \in {"idle", "next"}
         /\ Onward(rest).pc = "next" => Onward(rest).quiet = FALSE
         /\ Onward(rest).files = {} /\ Onward(rest).entries = NoFiles /\ Onward(rest).changed = {}
<1>1. CASE rest = NoFiles
  BY <1>1 DEF Onward, NoScan, ScanFields
<1>2. CASE rest # NoFiles
  BY <1>2 DEF Onward, NoScan, ScanFields
<1> QED
  BY <1>1, <1>2

LEMMA WalkingIs ==
  ASSUME NEW s, NEW i, NEW row, NEW rest
  PROVE  /\ DOMAIN Walking(s, i, row, rest) = ScanFields
         /\ Walking(s, i, row, rest).pc = "walk" /\ Walking(s, i, row, rest).kind = "all"
         /\ Walking(s, i, row, rest).id = i /\ Walking(s, i, row, rest).row = row
         /\ Walking(s, i, row, rest).files = {} /\ Walking(s, i, row, rest).entries = NoFiles
         /\ Walking(s, i, row, rest).changed = {}
<1> DEFINE q == Alone(s) /\ mounted /\ editor = NoEdit /\ NowStored(i, row)
           c == [f \in DOMAIN media[i] |-> media[i][f].mtime]
<1>1. Walking(s, i, row, rest) =
        [NoScan EXCEPT !.pc = "walk", !.id = i, !.row = row, !.rest = rest, !.quiet = q, !.cached = c]
  BY Zenon DEF Walking
<1> HIDE DEF q
<1> QED
  BY <1>1 DEF NoScan, ScanFields

LEMMA WalkingCached ==
  ASSUME NEW s, NEW i, NEW row, NEW rest
  PROVE  Walking(s, i, row, rest).cached = [f \in DOMAIN media[i] |-> media[i][f].mtime]
<1> DEFINE q == Alone(s) /\ mounted /\ editor = NoEdit /\ NowStored(i, row)
           c == [f \in DOMAIN media[i] |-> media[i][f].mtime]
<1>1. Walking(s, i, row, rest) =
        [NoScan EXCEPT !.pc = "walk", !.id = i, !.row = row, !.rest = rest, !.quiet = q, !.cached = c]
  BY Zenon DEF Walking
<1> HIDE DEF q
<1> QED
  BY <1>1 DEF NoScan

LEMMA WalkingQuiet ==
  ASSUME NEW s, NEW i, NEW row, NEW rest
  PROVE  Walking(s, i, row, rest).quiet = (Alone(s) /\ mounted /\ editor = NoEdit /\ NowStored(i, row))
<1> DEFINE q == Alone(s) /\ mounted /\ editor = NoEdit /\ NowStored(i, row)
           c == [f \in DOMAIN media[i] |-> media[i][f].mtime]
<1>1. Walking(s, i, row, rest) =
        [NoScan EXCEPT !.pc = "walk", !.id = i, !.row = row, !.rest = rest, !.quiet = q, !.cached = c]
  BY Zenon DEF Walking
<1> HIDE DEF q, c
<1>2. [NoScan EXCEPT !.pc = "walk", !.id = i, !.row = row, !.rest = rest, !.quiet = q, !.cached = c].quiet = q
  BY Zenon DEF NoScan
<1>3. Walking(s, i, row, rest).quiet = q
  BY <1>1, <1>2, Zenon
<1> QED
  BY <1>3, Zenon DEF q

\* The record of a request that has just begun.
Begun(s) ==
  /\ DOMAIN scan[s] = ScanFields
  /\ scan[s].pc \in {"idle", "next", "walk", "parse"}
  /\ scan[s].pc \in {"walk", "parse"} => scan[s].id \in Ids
  /\ scan[s].files = {} /\ scan[s].entries = NoFiles /\ scan[s].changed \subseteq Files

LEMMA StartedIs ==
  ASSUME ShapeInv, NEW s \in Scanners, Starts(s)
  PROVE  /\ UNCHANGED <<disk, mounted, tables, exported, exportMu, editor, look>>
         /\ scan[s].pc \in {"idle", "next"} /\ DOMAIN scan' = Scanners
         /\ \A t \in Scanners \ {s} : scan'[t] = Disturbed(Nobody)[t]
         /\ Begun(s)'
<1>0. DOMAIN Disturbed(Nobody) = Scanners
  BY DisturbedIs
<1>1. ASSUME NEW x, DOMAIN x = ScanFields, x.files = {}, x.entries = NoFiles, x.changed \subseteq Files,
             x.pc \in {"idle", "next", "walk", "parse"}, x.pc \in {"walk", "parse"} => x.id \in Ids,
             scan' = [Disturbed(Nobody) EXCEPT ![s] = x]
      PROVE  Begun(s)' /\ DOMAIN scan' = Scanners /\ \A t \in Scanners \ {s} : scan'[t] = Disturbed(Nobody)[t]
  <2>1. scan'[s] = x /\ DOMAIN scan' = Scanners /\ \A t \in Scanners \ {s} : scan'[t] = Disturbed(Nobody)[t]
    BY <1>0, <1>1
  <2> QED
    BY <1>1, <2>1 DEF Begun
<1>2. CASE \E i \in Ids : ScanBegins(s, i)
  <2>1. PICK i \in Ids : scan' = [Disturbed(Nobody) EXCEPT ![s] = Walking(s, i, src[i], NoFiles)]
    BY <1>2 DEF ScanBegins
  <2> DEFINE x == Walking(s, i, src[i], NoFiles)
  <2>2. /\ DOMAIN x = ScanFields /\ x.files = {} /\ x.entries = NoFiles /\ x.changed = {} /\ x.pc = "walk" /\ x.id = i
    BY WalkingIs
  <2>3. scan' = [Disturbed(Nobody) EXCEPT ![s] = x]
    BY <2>1
  <2> HIDE DEF x
  <2> QED
    BY <1>1, <1>2, <2>2, <2>3 DEF ScanBegins, ScanStarts, Scanning
<1>3. CASE GoesOn(s)
  <2>1. PICK i \in Ids : NextSource(s, i) /\ compileFilters(scan[s].rest[i])
    BY <1>3 DEF GoesOn
  <2>2. PICK row, rest : scan' = [Disturbed(Nobody) EXCEPT ![s] = Walking(s, i, row, rest)]
    BY <2>1 DEF NextSource
  <2> DEFINE x == Walking(s, i, row, rest)
  <2>3. /\ DOMAIN x = ScanFields /\ x.files = {} /\ x.entries = NoFiles /\ x.changed = {} /\ x.pc = "walk" /\ x.id = i
    BY WalkingIs
  <2>4. scan' = [Disturbed(Nobody) EXCEPT ![s] = x]
    BY <2>2
  <2> HIDE DEF x
  <2> QED
    BY <1>1, <2>1, <2>3, <2>4 DEF NextSource, Scanning
<1>4. CASE ScanAll(s)
  <2>1. \E rest : scan' = [Disturbed(Nobody) EXCEPT ![s] = Onward(rest)]
    BY <1>4 DEF ScanAll
  <2> QED
    BY <1>1, <1>4, <2>1, OnwardIs DEF ScanAll, ScanStarts, Scanning
<1>5. CASE \E i \in Ids, f \in Files : EditBegins(s, i, f)
  <2>1. PICK i \in Ids, f \in Files : EditBegins(s, i, f)
    BY <1>5
  <2> DEFINE x == [NoScan EXCEPT !.pc = "parse", !.kind = "one", !.id = i, !.row = src[i],
                                 !.changed = {f}, !.quiet = FALSE]
  <2>2. scan' = [Disturbed(Nobody) EXCEPT ![s] = x]
    BY <2>1 DEF EditBegins
  <2>3. /\ DOMAIN x = ScanFields /\ x.files = {} /\ x.entries = NoFiles /\ x.changed = {f} /\ x.pc = "parse" /\ x.id = i
    BY DEF NoScan, ScanFields
  <2> HIDE DEF x
  <2> QED
    BY <1>1, <2>1, <2>2, <2>3 DEF EditBegins, ScanStarts, Scanning
<1> QED
  BY <1>2, <1>3, <1>4, <1>5 DEF Starts

LEMMA StartShape == ASSUME ShapeInv, NEW s \in Scanners, Starts(s) PROVE ShapeInv'
<1>1. UNCHANGED <<disk, src, media, look, editor>> /\ Begun(s)'
  BY StartedIs DEF tables
<1>3. ASSUME NEW t \in Scanners \ {s}
      PROVE  DOMAIN scan'[t] = ScanFields /\ scan'[t].pc = scan[t].pc /\ scan'[t].id = scan[t].id
  <2>1. scan'[t] = Disturbed(Nobody)[t]
    BY StartedIs
  <2> QED
    BY <2>1, DisturbedLooksOn
<1>4. ScanShape'
  BY <1>1, <1>3, StartedIs DEF ScanShape, ShapeInv, Begun
<1> QED
  BY <1>1, <1>4 DEF ShapeInv, ScanShape, Entries

\* What a step that only reads does to the record of its scan.
LEMMA FailsAs ==
  ASSUME ShapeInv, NEW s \in Scanners, StatementFails(s)
  PROVE  /\ UNCHANGED <<disk, mounted, tables, exported, exportMu, editor, look>>
         /\ \/ scan[s].pc = "walk" /\ scan' = [scan EXCEPT ![s].cached = NoFiles]
            \/ scan[s].pc = "upsert" /\ scan' = [scan EXCEPT ![s] = Onward(scan[s].rest)]
            \/ scan[s].pc = "evict" /\ scan' = [scan EXCEPT ![s].pc = "touch", ![s].failed = TRUE]
            \/ scan[s].pc = "touch" /\ scan' = [scan EXCEPT ![s].pc = "done", ![s].failed = TRUE]
BY DEF StatementFails

LEMMA SkipsAs ==
  ASSUME ShapeInv, NEW s \in Scanners, Skips(s)
  PROVE  /\ UNCHANGED <<disk, mounted, tables, exported, exportMu, editor, look>>
         /\ scan[s].pc = "next" /\ \E rest : scan' = [scan EXCEPT ![s] = Onward(rest)]
BY DEF Skips, NextSource, Scanning

LEMMA ReadShape == ASSUME ShapeInv, NEW s \in Scanners, Reads(s) PROVE ShapeInv'
<1>1. UNCHANGED <<disk, src, media, look, editor>>
  BY SkipsAs, FailsAs DEF Reads, ScanWalks, ScanParses, process, ScanReturns, Scanning, tables
<1>2. CASE ScanWalks(s)
  <2>1. ScanShape'
    BY <1>2 DEF ScanWalks, Scanning, ScanFields, ShapeInv, ScanShape
  <2> QED
    BY <1>1, <2>1 DEF ShapeInv, ScanShape, Entries
<1>3. CASE ScanParses(s)
  <2>1. ScanShape'
    BY <1>3 DEF ScanParses, Scanning, ScanFields, ShapeInv, ScanShape
  <2> QED
    BY <1>1, <2>1 DEF ShapeInv, ScanShape, Entries
<1>4. CASE process(s)
  <2>1. ScanShape'
    BY <1>4 DEF process, Scanning, ScanFields, ShapeInv, ScanShape
  <2> QED
    BY <1>1, <2>1 DEF ShapeInv, ScanShape, Entries
<1>5. CASE \E rest : scan' = [scan EXCEPT ![s] = Onward(rest)]
  <2>1. ScanShape'
    BY <1>5, OnwardIs DEF ShapeInv, ScanShape
  <2> QED
    BY <1>1, <2>1 DEF ShapeInv, ScanShape, Entries
<1>6. CASE StatementFails(s)
  <2>1. CASE scan' = [scan EXCEPT ![s] = Onward(scan[s].rest)]
    BY <1>5, <2>1
  <2>2. ASSUME NEW x, \/ scan' = [scan EXCEPT ![s].cached = x] \/ scan' = [scan EXCEPT ![s].pc = x, ![s].failed = TRUE]
        PROVE  ScanShape' \/ scan[s].pc \notin {"walk", "evict", "touch"}
    BY <2>2 DEF ScanFields, ShapeInv, ScanShape
  <2>3. ScanShape' \/ scan' = [scan EXCEPT ![s] = Onward(scan[s].rest)]
    BY <1>6, <2>2, FailsAs
  <2> QED
    BY <1>1, <2>1, <2>3 DEF ShapeInv, ScanShape, Entries
<1> QED
  BY <1>2, <1>3, <1>4, <1>5, <1>6, SkipsAs DEF Reads, ScanReturns

\* A step of s that writes, and what becomes of the others.
LEMMA CommittedIs ==
  ASSUME ShapeInv, NEW s \in Scanners, NEW next, scan' = committed(s, next)
  PROVE  /\ DOMAIN scan' = Scanners
         /\ scan'[s] = [scan[s] EXCEPT !.pc = "clear", !.then = next]
         /\ \A t \in Scanners \ {s} : scan'[t] = Disturbed(s)[t]
<1>1. Disturbed(s)[s] = scan[s] /\ DOMAIN Disturbed(s) = Scanners /\ DOMAIN scan[s] = ScanFields
  BY ZenonT(40), DisturbedIs DEF ShapeInv
<1> QED
  BY <1>1 DEF committed, ScanFields

LEMMA CommittedShape ==
  ASSUME ShapeInv, NEW s \in Scanners, NEW next, scan[s].pc \notin {"idle", "next"}, scan' = committed(s, next)
  PROVE  ScanShape'
<1>1. /\ scan'[s] = [scan[s] EXCEPT !.pc = "clear", !.then = next] /\ DOMAIN scan' = Scanners
      /\ \A t \in Scanners \ {s} : scan'[t] = Disturbed(s)[t]
  BY CommittedIs
<1>2. DOMAIN scan'[s] = ScanFields /\ scan'[s].id \in Ids
  BY <1>1 DEF ShapeInv, ScanFields
<1>3. ASSUME NEW t \in Scanners \ {s}
      PROVE  DOMAIN scan'[t] = ScanFields /\ scan'[t].pc = scan[t].pc /\ scan'[t].id = scan[t].id
  <2>1. scan'[t] = Disturbed(s)[t]
    BY <1>1
  <2> QED
    BY <2>1, DisturbedLooksOn
<1> QED
  BY <1>1, <1>2, <1>3 DEF ScanShape, ShapeInv

LEMMA UpsertShape == ASSUME ShapeInv, CarriedInv, NEW s \in Scanners, UpsertBatch(s) PROVE ShapeInv'
<1>1. UNCHANGED <<disk, src, look, editor>>
  BY DEF UpsertBatch, Scanning
<1>2. scan[s].pc = "upsert" /\ scan[s].id \in Ids
  BY DEF UpsertBatch, Scanning, ShapeInv
<1> DEFINE next == IF scan[s].kind = "one" THEN "done" ELSE "evict"
<1>3. CASE scan[s].entries = NoFiles /\ scan' = [scan EXCEPT ![s].pc = next] /\ UNCHANGED media
  BY <1>1, <1>2, <1>3 DEF ShapeInv, ScanFields, Entries
<1>4. CASE scan' = [scan EXCEPT ![s] = Onward(scan[s].rest)] /\ UNCHANGED media
  BY <1>1, <1>2, <1>4, OnwardIs DEF ShapeInv, Entries
<1>5. CASE media' = [media EXCEPT ![scan[s].id] = Upserted(@, scan[s].entries)] /\ scan' = committed(s, next)
  <2>1. ScanShape'
    BY <1>2, <1>5, CommittedShape
  <2>2. MediaShape'
    BY <1>2, <1>5 DEF ShapeInv, MediaShape, Upserted, Entries, CarriedInv, Carries
  <2> QED
    BY <1>1, <2>1, <2>2 DEF ShapeInv, ScanShape, MediaShape
<1> QED
  BY <1>3, <1>4, <1>5 DEF UpsertBatch

LEMMA EvictShape == ASSUME ShapeInv, NEW s \in Scanners, DeleteMissing(s) PROVE ShapeInv'
<1>1. UNCHANGED <<disk, src, look, editor>>
  BY DEF DeleteMissing, Scanning
<1>2. scan[s].pc = "evict" /\ scan[s].id \in Ids
  BY DEF DeleteMissing, Scanning, ShapeInv
<1>3. CASE scan' = [scan EXCEPT ![s].pc = "touch"] /\ UNCHANGED media
  BY <1>1, <1>2, <1>3 DEF ShapeInv, ScanFields, Entries
<1>4. CASE /\ media' = [media EXCEPT ![scan[s].id] = Restrict(@, DOMAIN @ \ staleRows(scan[s]))]
           /\ scan' = committed(s, "touch")
  <2>1. ScanShape'
    BY <1>2, <1>4, CommittedShape
  <2>2. MediaShape'
    BY <1>2, <1>4 DEF ShapeInv, MediaShape, Restrict, Entries
  <2> QED
    BY <1>1, <2>1, <2>2 DEF ShapeInv, ScanShape, MediaShape
<1> QED
  BY <1>3, <1>4 DEF DeleteMissing

LEMMA ScanClearsShape == ASSUME ShapeInv, NEW s \in Scanners, ScanClears(s) PROVE ShapeInv'
<1>1. /\ UNCHANGED <<disk, src, media, look, editor>> /\ scan[s].pc \in {"clear", "clear2"}
      /\ \/ scan' = [scan EXCEPT ![s].pc = "clear2"]
         \/ scan' = [scan EXCEPT ![s].pc = scan[s].then]
  BY DEF ScanClears, Scanning, tables
<1> QED
  BY <1>1 DEF ShapeInv, ScanFields, Entries

\* The row that a scan has finished with.
LEMMA TouchedIs ==
  ASSUME ShapeInv, NEW s \in Scanners, scan[s].files \subseteq Files, TouchLocalSourceScan(s)
  PROVE  /\ src' \in [Ids -> Storable \cup {NoSource}]
         /\ \A i \in Ids : /\ src'[i] = NoSource <=> src[i] = NoSource
                           /\ src'[i].root = src[i].root /\ src'[i].type = src[i].type
                           /\ src'[i].prefix = src[i].prefix /\ src'[i].filter = src[i].filter
                           /\ src'[i].enabled = src[i].enabled
         /\ src[scan[s].id] # NoSource => src'[scan[s].id].count = Cardinality(scan[s].files)
<1>1. scan[s].id \in Ids /\ Cardinality(scan[s].files) \in 0 .. Cardinality(Files)
  BY FilesCounted DEF TouchLocalSourceScan, Scanning, ShapeInv
<1> DEFINE id == scan[s].id
           n == Cardinality(scan[s].files)
<1>2. CASE src[id] = NoSource
  BY <1>2 DEF TouchLocalSourceScan, ShapeInv
<1>3. CASE src[id] # NoSource
  <2>1. src[id] \in Storable
    BY <1>1, <1>3 DEF ShapeInv
  <2>2. src' = [src EXCEPT ![id] = [src[id] EXCEPT !.count = n]]
    BY <1>3 DEF TouchLocalSourceScan
  <2> DEFINE r == [src[id] EXCEPT !.count = n]
  <2>3. /\ r \in Storable /\ r.count = n /\ r # NoSource
        /\ r.root = src[id].root /\ r.type = src[id].type /\ r.prefix = src[id].prefix
        /\ r.filter = src[id].filter /\ r.enabled = src[id].enabled
    BY <1>1, <2>1, Recounted
  <2> HIDE DEF r
  <2>4. src' = [src EXCEPT ![id] = r] /\ src \in [Ids -> Storable \cup {NoSource}]
    BY <2>2 DEF r, ShapeInv
  <2> QED
    BY <1>1, <1>3, <2>3, <2>4
<1> QED
  BY <1>2, <1>3

LEMMA TouchShape ==
  ASSUME ShapeInv, NEW s \in Scanners, scan[s].files \subseteq Files, TouchLocalSourceScan(s)
  PROVE  ShapeInv'
<1>1. src' \in [Ids -> Storable \cup {NoSource}]
  BY TouchedIs
<1>2. UNCHANGED <<disk, media, look, editor>> /\ scan[s].pc = "touch" /\ scan' = [scan EXCEPT ![s].pc = "done"]
  BY DEF TouchLocalSourceScan, Scanning
<1>3. ScanShape'
  BY <1>2 DEF ShapeInv, ScanFields, ScanShape
<1> QED
  BY <1>1, <1>2, <1>3 DEF ShapeInv, ScanShape, Entries

\* What a lookup may touch.
LEMMA LooksChange ==
  ASSUME LookShape, NEW l \in Lookers, Looks(l)
  PROVE  /\ UNCHANGED <<disk, mounted, tables, scan, editor>>
         /\ LookShape' /\ \A k \in Lookers \ {l} : look'[k] = look[k]
<1>1. ASSUME NEW i \in Rows, NEW f \in Sought, LookBegins(l, i, f)
      PROVE  UNCHANGED <<disk, mounted, tables, scan, editor>> /\ LookShape' /\ \A k \in Lookers \ {l} : look'[k] = look[k]
  BY <1>1 DEF LookBegins, Looking, LookShape, LookFields, NoLook
<1>2. CASE LookLocks(l)
  BY <1>2 DEF LookLocks, Looking, LookShape, LookFields, NoLook
<1>3. CASE exportSnapshot(l)
  BY <1>3 DEF exportSnapshot, Looking, LookShape, LookFields, NoLook
<1>4. CASE FindByXCStreamID(l)
  BY <1>4 DEF FindByXCStreamID, Looking, Replies, LookShape, LookFields, NoLook
<1>5. CASE sourceRoot(l)
  BY <1>5 DEF sourceRoot, Looking, Replies, LookShape, LookFields, NoLook
<1>6. CASE PathWithinSource(l)
  BY <1>6 DEF PathWithinSource, Looking, Replies, LookShape, LookFields, NoLook
<1> QED
  BY <1>1, <1>2, <1>3, <1>4, <1>5, <1>6 DEF Looks

LEMMA ShapeKept ==
  ASSUME ShapeInv, LibTypeOK, CarriedInv, LibNext
  PROVE  ShapeInv'
<1>1. ASSUME NEW l \in Lookers, Looks(l) PROVE ShapeInv'
  <2>1. LookShape' /\ UNCHANGED <<disk, tables, scan, editor>>
    BY <1>1, LooksChange DEF ShapeInv, LookShape
  <2> QED
    BY <2>1 DEF tables, ShapeInv, LookShape, Entries
<1>2. \A s \in Scanners : scan[s].files \subseteq Files
  BY DEF LibTypeOK
<1> QED
  BY <1>1, <1>2, NextIs, DiskShape, EditShape, WipeShape, ClearShape, StartShape, ReadShape, UpsertShape,
     EvictShape, ScanClearsShape, TouchShape

-----------------------------------------------------------------------------
(* What is stored and what scans carry was on the disk                     *)

Stored == \A i \in Ids : /\ Entries(i) \subseteq Files /\ (src[i] = NoSource => Entries(i) = {})
                         /\ \A f \in Entries(i) : media[i][f].mtime <= disk[f].ver
Locked == /\ exportMu \in Lookers \cup {Nobody}
          /\ \A l \in Lookers : exportMu = l <=> look[l].pc \in {"prefix", "keep", "index"}
Carried(s) == scan[s].files \subseteq Files /\ Carries(s)

LEMMA TypesAre ==
  /\ LibTypeOK /\ CarriedInv => Stored /\ Locked /\ \A s \in Scanners : Carried(s)
  /\ ShapeInv /\ Stored /\ Locked /\ (\A s \in Scanners : Carried(s)) => LibTypeOK /\ CarriedInv
BY DEF LibTypeOK, CarriedInv, Stored, Locked, Carried, ShapeInv

\* A file's version only grows.
LEMMA VersionsGrow ==
  ASSUME ShapeInv, LibNext
  PROVE  \A f \in Files : disk[f].ver \in Nat /\ disk'[f].ver \in Nat /\ disk[f].ver <= disk'[f].ver
<1>1. ASSUME NEW g \in Files, FileChanges(g)
      PROVE  \A f \in Files : disk[f].ver \in Nat /\ disk'[f].ver \in Nat /\ disk[f].ver <= disk'[f].ver
  BY <1>1 DEF FileChanges, ShapeInv
<1>2. (\A g \in Files : ~FileChanges(g)) => UNCHANGED disk
  <2>1. MountChanges \/ Edits \/ DeleteAllForSource \/ EditorClears => UNCHANGED disk
    BY DEF MountChanges, Edits, handleCreateLocalSource, handleUpdateLocalSource, handleDeleteLocalSource, Editing,
           DeleteAllForSource, EditorClears
  <2>2. ASSUME NEW s \in Scanners, Starts(s) \/ Reads(s) \/ UpsertBatch(s) \/ DeleteMissing(s) \/ ScanClears(s)
                                   \/ TouchLocalSourceScan(s)
        PROVE  UNCHANGED disk
    BY <2>2, StartedIs, SkipsAs, FailsAs DEF Reads, ScanWalks, ScanParses, process, ScanReturns, UpsertBatch,
           DeleteMissing, ScanClears, TouchLocalSourceScan, Scanning
  <2>3. \A l \in Lookers : Looks(l) => UNCHANGED disk
    BY LooksChange DEF ShapeInv, LookShape
  <2> QED
    BY <2>1, <2>2, <2>3, NextIs DEF DiskChanges
<1> QED
  BY <1>1, <1>2 DEF ShapeInv

\* A scan that only loses its quiet carries what it carried.
LEMMA CarriedOn ==
  ASSUME ShapeInv, LibNext, NEW t \in Scanners, Carried(t), Same(t)
  PROVE  Carried(t)'
<1>1. scan'[t].files = scan[t].files /\ scan'[t].changed = scan[t].changed /\ scan'[t].entries = scan[t].entries
  BY DEF Same, ShapeInv, ScanFields
<1>2. \A f \in Files : disk[f].ver \in Nat /\ disk'[f].ver \in Nat /\ disk[f].ver <= disk'[f].ver
  BY VersionsGrow
<1>3. scan[t].changed \subseteq Files /\ DOMAIN scan[t].entries \subseteq Files
  BY DEF Carried, Carries
<1>4. ASSUME NEW f \in DOMAIN scan[t].entries
      PROVE  scan[t].entries[f].mtime \in Nat /\ scan[t].entries[f].mtime <= disk'[f].ver
  <2>1. f \in Files /\ scan[t].entries[f].mtime \in Nat /\ scan[t].entries[f].mtime <= disk[f].ver
    BY <1>3 DEF Carried, Carries
  <2> QED
    BY <1>2, <2>1
<1> QED
  BY <1>1, <1>3, <1>4 DEF Carried, Carries

LEMMA DisturbedSame ==
  ASSUME ShapeInv, NEW me, NEW t \in Scanners, scan'[t] = Disturbed(me)[t]
  PROVE  Same(t)
BY DisturbedIs DEF Same

LEMMA NothingCarried ==
  ASSUME NEW s \in Scanners, scan'[s].files = {}, scan'[s].entries = NoFiles, scan'[s].changed \subseteq Files
  PROVE  Carried(s)'
BY DEF Carried, Carries, NoFiles

LEMMA StampOfNow ==
  ASSUME ShapeInv, NEW f \in Files
  PROVE  statFile(f) \in Nat /\ statFile(f) <= disk[f].ver
BY DEF statFile, ShapeInv

\* Whose record a step writes, the rest being at most disturbed.
LEMMA OneMoves ==
  ASSUME ShapeInv, LibNext
  PROVE  \/ \A t \in Scanners : Same(t)
         \/ \E s \in Scanners :
              /\ Starts(s) \/ Reads(s) \/ UpsertBatch(s) \/ DeleteMissing(s) \/ ScanClears(s) \/ TouchLocalSourceScan(s)
              /\ \A t \in Scanners \ {s} : Same(t)
<1>1. CASE DiskChanges \/ Edits \/ DeleteAllForSource
  <2>1. scan' = Disturbed(Nobody)
    BY <1>1 DEF DiskChanges, MountChanges, FileChanges, DeleteAllForSource, Edits, handleCreateLocalSource,
                handleUpdateLocalSource, handleDeleteLocalSource, Editing
  <2> QED
    BY <2>1, DisturbedSame
<1>2. CASE EditorClears
  BY <1>2 DEF EditorClears, Same
<1>3. ASSUME NEW l \in Lookers, Looks(l) PROVE \A t \in Scanners : Same(t)
  BY <1>3, LooksChange DEF ShapeInv, LookShape, Same
<1>4. ASSUME NEW s \in Scanners, Starts(s) PROVE \A t \in Scanners \ {s} : Same(t)
  <2>1. \A t \in Scanners \ {s} : scan'[t] = Disturbed(Nobody)[t]
    BY <1>4, StartedIs
  <2> QED
    BY <2>1, DisturbedSame
<1>5. ASSUME NEW s \in Scanners, Reads(s) PROVE \A t \in Scanners \ {s} : Same(t)
  <2>1. \A t \in Scanners \ {s} : scan'[t] = scan[t]
    <3>1. CASE Skips(s)
      BY <3>1, SkipsAs DEF ShapeInv
    <3>2. CASE StatementFails(s)
      <4>1. DOMAIN scan = Scanners
        BY DEF ShapeInv
      <4>2. CASE scan' = [scan EXCEPT ![s].cached = NoFiles]
        BY <4>1, <4>2
      <4>3. CASE scan' = [scan EXCEPT ![s] = Onward(scan[s].rest)]
        BY <4>1, <4>3
      <4>4. CASE scan' = [scan EXCEPT ![s].pc = "touch", ![s].failed = TRUE]
        BY <4>1, <4>4
      <4>5. CASE scan' = [scan EXCEPT ![s].pc = "done", ![s].failed = TRUE]
        BY <4>1, <4>5
      <4> QED
        BY <3>2, <4>2, <4>3, <4>4, <4>5, FailsAs
    <3>3. CASE ScanWalks(s)
      BY <3>3 DEF ScanWalks, ShapeInv
    <3>4. CASE ScanParses(s)
      BY <3>4 DEF ScanParses, ShapeInv
    <3>5. CASE process(s)
      BY <3>5 DEF process, ShapeInv
    <3>6. CASE ScanReturns(s)
      BY <3>6 DEF ScanReturns, ShapeInv
    <3> QED
      BY <1>5, <3>1, <3>2, <3>3, <3>4, <3>5, <3>6 DEF Reads
  <2> QED
    BY <2>1 DEF Same
<1>6. ASSUME NEW s \in Scanners, NEW next, scan' = committed(s, next) PROVE \A t \in Scanners \ {s} : Same(t)
  <2>1. \A t \in Scanners \ {s} : scan'[t] = Disturbed(s)[t]
    BY <1>6, CommittedIs
  <2> QED
    BY <2>1, DisturbedSame
<1>7. ASSUME NEW s \in Scanners, UpsertBatch(s) PROVE \A t \in Scanners \ {s} : Same(t)
  <2> DEFINE next == IF scan[s].kind = "one" THEN "done" ELSE "evict"
  <2>1. \/ scan' = [scan EXCEPT ![s].pc = next] \/ scan' = [scan EXCEPT ![s] = Onward(scan[s].rest)]
        \/ scan' = committed(s, next)
    BY <1>7 DEF UpsertBatch
  <2> HIDE DEF next
  <2> QED
    BY <1>6, <2>1 DEF Same, ShapeInv
<1>8. ASSUME NEW s \in Scanners, DeleteMissing(s) PROVE \A t \in Scanners \ {s} : Same(t)
  <2>1. scan' = [scan EXCEPT ![s].pc = "touch"] \/ scan' = committed(s, "touch")
    BY <1>8 DEF DeleteMissing
  <2> QED
    BY <1>6, <2>1 DEF Same, ShapeInv
<1>9. ASSUME NEW s \in Scanners, ScanClears(s) \/ TouchLocalSourceScan(s) PROVE \A t \in Scanners \ {s} : Same(t)
  BY <1>9 DEF ScanClears, TouchLocalSourceScan, Same, ShapeInv
<1> QED
  BY <1>1, <1>2, <1>3, <1>4, <1>5, <1>7, <1>8, <1>9, NextIs

LEMMA WriterCarries ==
  ASSUME ShapeInv, LibNext, NEW s \in Scanners, Carried(s),
         Starts(s) \/ Reads(s) \/ UpsertBatch(s) \/ DeleteMissing(s) \/ ScanClears(s) \/ TouchLocalSourceScan(s)
  PROVE  Carried(s)'
<1>1. CASE Starts(s)
  <2>1. Begun(s)'
    BY <1>1, StartedIs
  <2> QED
    BY <2>1, NothingCarried DEF Begun
<1>2. ASSUME scan'[s].files = scan[s].files, scan'[s].changed = scan[s].changed, scan'[s].entries = scan[s].entries
      PROVE  Carried(s)'
  <2>1. \A f \in Files : disk[f].ver \in Nat /\ disk'[f].ver \in Nat /\ disk[f].ver <= disk'[f].ver
    BY VersionsGrow
  <2>2. ASSUME NEW f \in DOMAIN scan[s].entries
        PROVE  scan[s].entries[f].mtime \in Nat /\ scan[s].entries[f].mtime <= disk'[f].ver
    <3>1. f \in Files /\ scan[s].entries[f].mtime \in Nat /\ scan[s].entries[f].mtime <= disk[f].ver
      BY DEF Carried, Carries
    <3> QED
      BY <2>1, <3>1
  <2> QED
    BY <1>2, <2>2 DEF Carried, Carries
<1>3. CASE ScanWalks(s)
  <2>1. /\ scan'[s].files = collect(scan[s].row) /\ scan'[s].changed \subseteq scan'[s].files
        /\ scan'[s].entries = scan[s].entries /\ UNCHANGED disk
    BY <1>3 DEF ScanWalks, Scanning, ShapeInv, ScanFields
  <2>2. collect(scan[s].row) \subseteq Files
    BY DEF collect, Readable
  <2> QED
    BY <2>1, <2>2 DEF Carried, Carries
<1>4. CASE process(s)
  <2>1. /\ scan'[s].entries = [f \in scan[s].changed |-> Stamped(scan[s].read[f], statFile(f))]
        /\ scan'[s].files = scan[s].files /\ scan'[s].changed = scan[s].changed /\ UNCHANGED disk
    BY <1>4 DEF process, Scanning, ShapeInv, ScanFields
  <2>2. \A f \in scan[s].changed : statFile(f) \in Nat /\ statFile(f) <= disk[f].ver
    BY StampOfNow DEF Carried, Carries
  <2> QED
    BY <2>1, <2>2 DEF Carried, Carries, Stamped
<1>5. CASE ScanParses(s) \/ ScanClears(s) \/ TouchLocalSourceScan(s)
  <2>1. scan'[s].files = scan[s].files /\ scan'[s].changed = scan[s].changed /\ scan'[s].entries = scan[s].entries
    BY <1>5 DEF ScanParses, ScanClears, TouchLocalSourceScan, Scanning, ShapeInv, ScanFields
  <2> QED
    BY <1>2, <2>1
<1>6. ASSUME NEW next, scan' = committed(s, next) PROVE Carried(s)'
  <2>1. scan'[s] = [scan[s] EXCEPT !.pc = "clear", !.then = next]
    BY <1>6, CommittedIs
  <2>2. scan'[s].files = scan[s].files /\ scan'[s].changed = scan[s].changed /\ scan'[s].entries = scan[s].entries
    BY <2>1 DEF ShapeInv, ScanFields
  <2> QED
    BY <1>2, <2>2
<1>7. ASSUME NEW next, scan' = [scan EXCEPT ![s].pc = next] PROVE Carried(s)'
  <2>1. scan'[s].files = scan[s].files /\ scan'[s].changed = scan[s].changed /\ scan'[s].entries = scan[s].entries
    BY <1>7 DEF ShapeInv, ScanFields
  <2> QED
    BY <1>2, <2>1
<1>8. CASE \E rest : scan' = [scan EXCEPT ![s] = Onward(rest)]
  <2>1. \E rest : scan'[s] = Onward(rest)
    BY <1>8 DEF ShapeInv
  <2> QED
    BY <2>1, OnwardIs, NothingCarried
<1>9. CASE UpsertBatch(s)
  <2> DEFINE next == IF scan[s].kind = "one" THEN "done" ELSE "evict"
  <2>1. \/ scan' = [scan EXCEPT ![s].pc = next] \/ scan' = [scan EXCEPT ![s] = Onward(scan[s].rest)]
        \/ scan' = committed(s, next)
    BY <1>9 DEF UpsertBatch
  <2> HIDE DEF next
  <2> QED
    BY <1>6, <1>7, <1>8, <2>1
<1>10. CASE DeleteMissing(s)
  BY <1>6, <1>7, <1>10 DEF DeleteMissing
<1>11. CASE StatementFails(s)
  <2>1. CASE scan' = [scan EXCEPT ![s] = Onward(scan[s].rest)]
    BY <1>8, <2>1
  <2>2. ASSUME NEW x, \/ scan' = [scan EXCEPT ![s].cached = x] \/ scan' = [scan EXCEPT ![s].pc = x, ![s].failed = TRUE]
        PROVE  scan'[s].files = scan[s].files /\ scan'[s].changed = scan[s].changed /\ scan'[s].entries = scan[s].entries
    BY <2>2 DEF ShapeInv, ScanFields
  <2> QED
    BY <1>2, <1>11, <2>1, <2>2, FailsAs
<1> QED
  BY <1>1, <1>3, <1>4, <1>5, <1>8, <1>9, <1>10, <1>11, SkipsAs DEF Reads, ScanReturns

LEMMA CarriedKept ==
  ASSUME ShapeInv, LibNext, \A s \in Scanners : Carried(s)
  PROVE  \A s \in Scanners : Carried(s)'
BY OneMoves, CarriedOn, WriterCarries

LEMMA StoredKept ==
  ASSUME ShapeInv, LibNext, Stored, \A s \in Scanners : Carried(s)
  PROVE  Stored'
<1> USE DEF ShapeInv
<1>1. \A f \in Files : disk[f].ver \in Nat /\ disk'[f].ver \in Nat /\ disk[f].ver <= disk'[f].ver
  BY VersionsGrow
<1>2. ASSUME UNCHANGED media, \A i \in Ids : src'[i] = NoSource => src[i] = NoSource PROVE Stored'
  <2>1. ASSUME NEW i \in Ids, NEW f \in Entries(i) PROVE media[i][f].mtime <= disk'[f].ver
    <3>1. f \in Files /\ media[i][f].mtime <= disk[f].ver /\ media[i][f].mtime \in Nat
      BY DEF Stored
    <3> QED
      BY <1>1, <3>1
  <2> QED
    BY <1>2, <2>1 DEF Stored, Entries
<1>3. ASSUME NEW i, media' = [media EXCEPT ![i] = NoFiles], UNCHANGED disk,
             \A j \in Ids \ {i} : src'[j] = NoSource => src[j] = NoSource
      PROVE  Stored'
  BY <1>3 DEF Stored, Entries, NoFiles
<1>4. CASE DiskChanges \/ EditorClears
  BY <1>2, <1>4 DEF DiskChanges, FileChanges, MountChanges, EditorClears, tables
<1>5. CASE Edits
  <2>1. ASSUME NEW d \in SourceDrafts, handleCreateLocalSource(d) PROVE Stored'
    <3>1. 0 \in 0 .. Cardinality(Files)
      BY FilesCounted
    <3>2. RowOf(d, 0) # NoSource
      BY <3>1, Posted
    <3> QED
      BY <1>2, <2>1, <3>2 DEF handleCreateLocalSource
  <2>2. ASSUME NEW i \in Ids, NEW d \in SourceDrafts, handleUpdateLocalSource(i, d) PROVE Stored'
    <3>1. src[i] \in Storable
      BY <2>2 DEF handleUpdateLocalSource
    <3>2. RowOf(d, src[i].count) # NoSource
      BY <3>1, Recounted, Posted
    <3> QED
      BY <1>2, <2>2, <3>2 DEF handleUpdateLocalSource
  <2>3. ASSUME NEW i \in Ids, handleDeleteLocalSource(i) PROVE Stored'
    BY <1>3, <2>3 DEF handleDeleteLocalSource, Editing
  <2> QED
    BY <1>5, <2>1, <2>2, <2>3 DEF Edits
<1>6. CASE DeleteAllForSource
  BY <1>3, <1>6 DEF DeleteAllForSource
<1>7. ASSUME NEW s \in Scanners, Starts(s) \/ Reads(s) \/ ScanClears(s) PROVE Stored'
  BY <1>2, <1>7, StartedIs, SkipsAs, FailsAs DEF Reads, ScanWalks, ScanParses, process, ScanReturns, ScanClears, tables
<1>8. ASSUME NEW s \in Scanners, TouchLocalSourceScan(s) PROVE Stored'
  BY <1>2, <1>8, TouchedIs DEF TouchLocalSourceScan, Carried
<1>9. ASSUME NEW l \in Lookers, Looks(l) PROVE Stored'
  BY <1>2, <1>9, LooksChange DEF tables, LookShape
<1>10. ASSUME NEW s \in Scanners, UpsertBatch(s) PROVE Stored'
  <2>1. UNCHANGED <<src, disk>> /\ scan[s].id \in Ids
    BY <1>10 DEF UpsertBatch, Scanning
  <2>2. CASE UNCHANGED media
    BY <1>2, <2>1, <2>2
  <2>3. CASE media' = [media EXCEPT ![scan[s].id] = Upserted(@, scan[s].entries)] /\ src[scan[s].id] # NoSource
    BY <2>1, <2>3 DEF Stored, Upserted, Entries, Carried, Carries
  <2> QED
    BY <1>10, <2>2, <2>3 DEF UpsertBatch, rowReferenced
<1>11. ASSUME NEW s \in Scanners, DeleteMissing(s) PROVE Stored'
  <2>1. UNCHANGED <<src, disk>> /\ scan[s].id \in Ids
    BY <1>11 DEF DeleteMissing, Scanning
  <2>2. CASE UNCHANGED media
    BY <1>2, <2>1, <2>2
  <2>3. CASE media' = [media EXCEPT ![scan[s].id] = Restrict(@, DOMAIN @ \ staleRows(scan[s]))]
    BY <2>1, <2>3 DEF Stored, Restrict, Entries
  <2> QED
    BY <1>11, <2>2, <2>3 DEF DeleteMissing
<1> QED
  BY <1>4, <1>5, <1>6, <1>7, <1>8, <1>9, <1>10, <1>11, NextIs

LEMMA LockedKept ==
  ASSUME ShapeInv, LibNext, Locked
  PROVE  Locked'
<1>1. Nobody \notin Lookers
  BY LibraryAssumption
<1>2. CASE UNCHANGED <<look, exportMu>>
  BY <1>2 DEF Locked
<1>3. ASSUME NEW l \in Lookers, Looks(l) PROVE Locked'
  <2> USE DEF ShapeInv, LookFields, NoLook, Looking, Replies
  <2>7. ASSUME UNCHANGED exportMu, \A k \in Lookers \ {l} : look'[k] = look[k],
               look[l].pc \notin {"prefix", "keep", "index"}, look'[l].pc \notin {"prefix", "keep", "index"}
        PROVE  Locked'
    BY <2>7 DEF Locked
  <2> USE DEF Locked
  <2>1. ASSUME NEW i \in Rows, NEW f \in Sought, LookBegins(l, i, f) PROVE Locked'
    BY <1>1, <2>1 DEF LookBegins
  <2>2. CASE LookLocks(l)
    BY <1>1, <2>2 DEF LookLocks
  <2>3. CASE exportSnapshot(l)
    BY <1>1, <2>3 DEF exportSnapshot
  <2>4. CASE FindByXCStreamID(l)
    <3>1. /\ UNCHANGED exportMu /\ \A k \in Lookers \ {l} : look'[k] = look[k]
          /\ look[l].pc = "find" /\ look'[l].pc \in {"root", "idle"}
      <4>1. look' = [look EXCEPT ![l].pc = "root"] \/ look' = [look EXCEPT ![l] = [NoLook EXCEPT !.reply = "not found"]]
        BY <2>4 DEF FindByXCStreamID
      <4> QED
        BY ZenonT(40), <2>4, <4>1 DEF FindByXCStreamID
    <3> QED
      BY <2>7, <3>1
  <2>5. CASE sourceRoot(l)
    <3>1. /\ UNCHANGED exportMu /\ \A k \in Lookers \ {l} : look'[k] = look[k]
          /\ look[l].pc \in {"root", "keeproot"} /\ look'[l].pc \in {"serve", "keeproot", "idle"}
      <4>1. UNCHANGED exportMu /\ look[l].pc \in {"root", "keeproot"}
        BY <2>5 DEF sourceRoot
      <4>2. /\ DOMAIN look' = Lookers
            /\ \/ \E x : look' = [look EXCEPT ![l].pc = "serve", ![l].root = x]
               \/ \E x : look' = [look EXCEPT ![l].pc = "keeproot", ![l].root = x]
               \/ look' = [look EXCEPT ![l].pc = "serve"]
               \/ look' = [look EXCEPT ![l] = [NoLook EXCEPT !.reply = "refused"]]
        BY <2>5 DEF sourceRoot
      <4>3. look'[l].pc \in {"serve", "keeproot", "idle"}
        <5>1. l \in DOMAIN look /\ "pc" \in DOMAIN look[l] /\ NoLook.pc = "idle"
          BY <4>2
        <5>2. CASE \E x : look' = [look EXCEPT ![l].pc = "serve", ![l].root = x]
          BY <5>1, <5>2
        <5>3. CASE \E x : look' = [look EXCEPT ![l].pc = "keeproot", ![l].root = x]
          BY <5>1, <5>3
        <5>4. CASE look' = [look EXCEPT ![l].pc = "serve"]
          BY <5>1, <5>4
        <5>5. CASE look' = [look EXCEPT ![l] = [NoLook EXCEPT !.reply = "refused"]]
          BY <5>1, <5>5
        <5> QED
          BY <4>2, <5>2, <5>3, <5>4, <5>5
      <4>4. \A k \in Lookers \ {l} : look'[k] = look[k]
        BY <1>3, LooksChange DEF LookShape
      <4> QED
        BY <4>1, <4>3, <4>4
    <3> QED
      BY <2>7, <3>1
  <2>6. CASE PathWithinSource(l)
    BY <1>1, <2>6 DEF PathWithinSource
  <2> QED
    BY <1>3, <2>1, <2>2, <2>3, <2>4, <2>5, <2>6 DEF Looks
<1>4. DiskChanges \/ Edits \/ DeleteAllForSource \/ EditorClears => UNCHANGED <<look, exportMu>>
  BY DEF DiskChanges, FileChanges, MountChanges, Edits, handleCreateLocalSource, handleUpdateLocalSource,
         handleDeleteLocalSource, Editing, DeleteAllForSource, EditorClears
<1>5. ASSUME NEW s \in Scanners PROVE Starts(s) \/ Reads(s) \/ UpsertBatch(s) \/ DeleteMissing(s) \/ ScanClears(s)
                                        \/ TouchLocalSourceScan(s) => UNCHANGED <<look, exportMu>>
  BY StartedIs, SkipsAs, FailsAs DEF Reads, ScanWalks, ScanParses, process, ScanReturns, UpsertBatch,
         DeleteMissing, ScanClears, TouchLocalSourceScan, Scanning
<1> QED
  BY <1>2, <1>3, <1>4, <1>5, NextIs

-----------------------------------------------------------------------------
(* Announcements                                                           *)

\* The steps that announce nothing and end no announcement.
LEMMA PlacesKept ==
  ASSUME ShapeInv, editor'.pc = editor.pc, \A t \in Scanners : scan'[t].pc = scan[t].pc
  PROVE  (Announcing' => Announcing) /\ (Announcing => Announcing') /\ (Clearing' => Clearing)
BY DEF Announcing, Clearing

LEMMA DiskPlaces ==
  ASSUME ShapeInv, DiskChanges
  PROVE  /\ editor' = editor /\ \A t \in Scanners : scan'[t].pc = scan[t].pc
         /\ UNCHANGED <<tables, exported, look, exportMu>>
<1>1. scan' = Disturbed(Nobody) /\ UNCHANGED <<editor, tables, exported, look, exportMu>>
  BY DEF DiskChanges, FileChanges, MountChanges
<1> QED
  BY <1>1, DisturbedLooksOn

\* Only one scan at a time changes its place.
LEMMA OthersPlaces ==
  ASSUME ShapeInv, NEW t \in Scanners, Same(t)
  PROVE  scan'[t].pc = scan[t].pc
BY DEF Same, ShapeInv, ScanFields

LEMMA ReadPlaces ==
  ASSUME ShapeInv, NEW s \in Scanners, Starts(s) \/ Reads(s) \/ TouchLocalSourceScan(s)
  PROVE  /\ scan[s].pc \notin {"clear", "clear2"} /\ scan'[s].pc \notin {"clear", "clear2"}
         /\ UNCHANGED <<editor, media, exported, look, exportMu>>
<1>1. CASE Starts(s)
  BY <1>1, StartedIs DEF tables, Begun
<1>2. CASE Reads(s)
  <2>1. CASE ScanWalks(s) \/ ScanParses(s) \/ process(s)
    BY <2>1 DEF ScanWalks, ScanParses, process, Scanning, tables, ShapeInv, ScanFields
  <2>2. ASSUME NEW rest, scan' = [scan EXCEPT ![s] = Onward(rest)] PROVE scan'[s].pc \in {"idle", "next"}
    BY <2>2, OnwardIs DEF ShapeInv
  <2>3. CASE ScanReturns(s)
    BY <2>2, <2>3 DEF ScanReturns, Scanning, tables
  <2>4. CASE Skips(s)
    BY <2>2, <2>4, SkipsAs DEF tables
  <2>5. CASE StatementFails(s)
    <3>1. scan' = [scan EXCEPT ![s].cached = NoFiles] => scan'[s].pc = scan[s].pc
      BY DEF ShapeInv, ScanFields
    <3>2. \A x : scan' = [scan EXCEPT ![s].pc = x, ![s].failed = TRUE] => scan'[s].pc = x
      BY DEF ShapeInv, ScanFields
    <3> QED
      BY <2>2, <2>5, <3>1, <3>2, FailsAs DEF tables
  <2> QED
    BY <1>2, <2>1, <2>3, <2>4, <2>5 DEF Reads
<1>3. CASE TouchLocalSourceScan(s)
  BY <1>3 DEF TouchLocalSourceScan, Scanning, ShapeInv, ScanFields
<1> QED
  BY <1>1, <1>2, <1>3

LEMMA WritePlaces ==
  ASSUME ShapeInv, NEW s \in Scanners, UpsertBatch(s) \/ DeleteMissing(s)
  PROVE  /\ scan[s].pc \notin {"clear", "clear2"} /\ scan'[s].pc # "clear2"
         /\ UNCHANGED <<editor, src, exported, look, exportMu>>
         /\ scan'[s].pc # "clear" => UNCHANGED media
<1>1. /\ scan[s].pc \in {"upsert", "evict"} /\ UNCHANGED <<editor, src, exported, look, exportMu>>
  BY DEF UpsertBatch, DeleteMissing, Scanning
<1>2. ASSUME NEW next, scan' = committed(s, next) PROVE scan'[s].pc = "clear"
  <2>1. scan'[s] = [scan[s] EXCEPT !.pc = "clear", !.then = next]
    BY <1>2, CommittedIs
  <2> QED
    BY <2>1 DEF ShapeInv, ScanFields
<1>3. CASE UpsertBatch(s)
  <2> DEFINE next == IF scan[s].kind = "one" THEN "done" ELSE "evict"
  <2>1. \/ scan' = [scan EXCEPT ![s].pc = next] /\ UNCHANGED media
        \/ scan' = [scan EXCEPT ![s] = Onward(scan[s].rest)] /\ UNCHANGED media
        \/ scan' = committed(s, next)
    BY <1>3 DEF UpsertBatch
  <2>2. next \in {"done", "evict"}
    OBVIOUS
  <2> HIDE DEF next
  <2> QED
    BY <1>1, <1>2, <2>1, <2>2, OnwardIs DEF ShapeInv, ScanFields
<1>4. CASE DeleteMissing(s)
  <2>1. (scan' = [scan EXCEPT ![s].pc = "touch"] /\ UNCHANGED media) \/ scan' = committed(s, "touch")
    BY <1>4 DEF DeleteMissing
  <2> QED
    BY <1>1, <1>2, <2>1 DEF ShapeInv, ScanFields
<1> QED
  BY <1>3, <1>4

\* A write announces itself.
LEMMA EditAnnounces ==
  ASSUME Edits
  PROVE  editor'.pc \in {"wipe", "clear"} /\ editor.pc = "idle" /\ UNCHANGED <<exported, look, exportMu>>
BY DEF Edits, handleCreateLocalSource, handleUpdateLocalSource, handleDeleteLocalSource, Editing, NoEdit

\* While an announcement starts clearing, or goes on, the pointer is cleared.
LEMMA Beginning ==
  ASSUME ShapeInv, LibNext, Clearing'
  PROVE  Clearing \/ exportCache' = NoSnapshot
<1>1. CASE DiskChanges
  BY <1>1, DiskPlaces, PlacesKept
<1>2. ASSUME NEW l \in Lookers, Looks(l) PROVE Clearing
  BY <1>2, LooksChange, PlacesKept DEF ShapeInv, LookShape
<1>3. CASE editor'.pc = "clear2"
  <2>1. CASE EditorClears
    BY <2>1 DEF EditorClears, clearCache, clearIndex, NoEdit, Clearing
  <2>2. CASE editor' = editor
    BY <1>3, <2>2 DEF Clearing
  <2>3. Edits \/ DeleteAllForSource => editor'.pc # "clear2"
    BY EditAnnounces DEF DeleteAllForSource, ShapeInv, EditFields
  <2>4. \A s \in Scanners : Starts(s) \/ Reads(s) \/ UpsertBatch(s) \/ DeleteMissing(s) \/ ScanClears(s)
                            \/ TouchLocalSourceScan(s) => editor' = editor
    BY ReadPlaces, WritePlaces DEF ScanClears, Scanning
  <2> QED
    BY <1>1, <1>2, <1>3, <2>1, <2>2, <2>3, <2>4, NextIs
<1>4. ASSUME NEW s \in Scanners, scan'[s].pc = "clear2" PROVE Clearing \/ exportCache' = NoSnapshot
  <2>1. CASE Same(s)
    BY <1>4, <2>1, OthersPlaces DEF Clearing
  <2>2. CASE ScanClears(s)
    BY <2>2 DEF ScanClears, Scanning, clearCache, Clearing
  <2> QED
    BY <1>4, <2>1, <2>2, OneMoves, ReadPlaces, WritePlaces
<1> QED
  BY <1>3, <1>4 DEF Clearing

\* An announcement ends where it has cleared both pointers.
LEMMA Ending ==
  ASSUME ShapeInv, LibNext, Announcing, ~Announcing'
  PROVE  Clearing /\ UNCHANGED <<exportMu, exportCache>>
<1>1. CASE DiskChanges
  BY <1>1, DiskPlaces, PlacesKept
<1>2. ASSUME NEW l \in Lookers, Looks(l) PROVE FALSE
  BY <1>2, LooksChange, PlacesKept DEF ShapeInv, LookShape
<1>3. CASE Edits \/ DeleteAllForSource
  <2>1. editor'.pc \in {"wipe", "clear"}
    BY <1>3, EditAnnounces DEF DeleteAllForSource, ShapeInv, EditFields
  <2> QED
    BY <2>1 DEF Announcing
<1>4. CASE EditorClears
  <2>1. editor.pc = "clear2" /\ UNCHANGED <<exportMu, exportCache>>
    BY <1>4 DEF EditorClears, clearIndex, Announcing, ShapeInv, EditFields
  <2> QED
    BY <2>1 DEF Clearing
<1>5. ASSUME NEW s \in Scanners,
             \/ Starts(s) \/ Reads(s) \/ UpsertBatch(s) \/ DeleteMissing(s) \/ ScanClears(s) \/ TouchLocalSourceScan(s),
             \A t \in Scanners \ {s} : Same(t)
      PROVE  Clearing /\ UNCHANGED <<exportMu, exportCache>>
  <2>1. editor' = editor /\ \A t \in Scanners \ {s} : scan'[t].pc = scan[t].pc
    BY <1>5, OthersPlaces, ReadPlaces, WritePlaces DEF ScanClears, Scanning
  <2>2. scan[s].pc \in {"clear", "clear2"}
    BY <2>1 DEF Announcing
  <2>3. ScanClears(s)
    BY <1>5, <2>2, ReadPlaces, WritePlaces
  <2>4. scan[s].pc = "clear" => scan'[s].pc = "clear2"
    BY <2>3 DEF ScanClears, Scanning, ShapeInv, ScanFields
  <2>5. scan[s].pc = "clear2"
    BY <2>2, <2>4 DEF Announcing
  <2> QED
    BY <2>3, <2>5 DEF ScanClears, Scanning, clearIndex, Clearing
<1>6. CASE \A t \in Scanners : Same(t)
  <2>1. \A t \in Scanners : scan'[t].pc = scan[t].pc
    BY <1>6, OthersPlaces
  <2>2. editor' # editor
    BY <2>1, PlacesKept
  <2>3. \A s \in Scanners : ~(Starts(s) \/ Reads(s) \/ UpsertBatch(s) \/ DeleteMissing(s) \/ ScanClears(s)
                              \/ TouchLocalSourceScan(s))
    BY <2>2, ReadPlaces, WritePlaces DEF ScanClears, Scanning
  <2> QED
    BY <1>1, <1>2, <1>3, <1>4, <2>3, NextIs
<1> QED
  BY <1>5, <1>6, OneMoves

\* The list depends on which rows there are, their prefixes and the media.
LEMMA ListedAs ==
  ASSUME UNCHANGED media,
         \A i \in Ids : /\ src'[i] = NoSource <=> src[i] = NoSource
                        /\ src'[i].enabled = src[i].enabled /\ src'[i].prefix = src[i].prefix
  PROVE  ListAll' = ListAll /\ TheLibrary' = TheLibrary
<1>1. Exported' = Exported
  BY DEF Exported, Rows
<1>2. ListAll' = ListAll
  BY <1>1 DEF ListAll
<1>3. groupPrefixes' = groupPrefixes
  BY DEF groupPrefixes, Rows
<1> QED
  BY <1>2, <1>3 DEF TheLibrary, applyGroupPrefix

\* Between announcements nothing is written.
LEMMA Between ==
  ASSUME ShapeInv, \A s \in Scanners : Carried(s), LibNext, ~Announcing, ~Announcing'
  PROVE  /\ ListAll' = ListAll /\ TheLibrary' = TheLibrary
         /\ UNCHANGED <<exported, look, exportMu>> \/ \E l \in Lookers : Looks(l)
<1>1. CASE DiskChanges
  BY <1>1, DiskPlaces, ListedAs DEF tables
<1>2. ASSUME NEW l \in Lookers, Looks(l) PROVE ListAll' = ListAll /\ TheLibrary' = TheLibrary
  BY <1>2, LooksChange, ListedAs DEF ShapeInv, LookShape, tables
<1>3. ~Edits
  BY EditAnnounces DEF Announcing
<1>4. ~(DeleteAllForSource \/ EditorClears)
  BY DEF Announcing, DeleteAllForSource, EditorClears
<1>5. ASSUME NEW s \in Scanners PROVE ~ScanClears(s)
  BY DEF Announcing, ScanClears, Scanning
<1>6. ASSUME NEW s \in Scanners, Starts(s) \/ Reads(s)
      PROVE  /\ ListAll' = ListAll /\ TheLibrary' = TheLibrary /\ UNCHANGED <<exported, look, exportMu>>
  <2>1. UNCHANGED <<src, media>>
    BY <1>6, StartedIs, SkipsAs, FailsAs DEF Reads, ScanWalks, ScanParses, process, ScanReturns, tables
  <2> QED
    BY <1>6, <2>1, ListedAs, ReadPlaces
<1>7. ASSUME NEW s \in Scanners, TouchLocalSourceScan(s)
      PROVE  /\ ListAll' = ListAll /\ TheLibrary' = TheLibrary /\ UNCHANGED <<exported, look, exportMu>>
  BY <1>7, TouchedIs, ListedAs, ReadPlaces DEF Carried
<1>8. ASSUME NEW s \in Scanners, UpsertBatch(s) \/ DeleteMissing(s)
      PROVE  /\ ListAll' = ListAll /\ TheLibrary' = TheLibrary /\ UNCHANGED <<exported, look, exportMu>>
  <2>1. scan'[s].pc # "clear"
    BY DEF Announcing
  <2>2. UNCHANGED <<src, media, exported, look, exportMu>>
    BY <1>8, <2>1, WritePlaces
  <2> QED
    BY <2>2, ListedAs
<1> QED
  BY <1>1, <1>2, <1>3, <1>4, <1>5, <1>6, <1>7, <1>8, NextIs

\* What one lookup does to the snapshot and its builder.
LEMMA LookBuilds ==
  ASSUME ShapeInv, Locked, BuiltInv, ~overlap, ~Announcing, ~Announcing',
         ListAll' = ListAll, TheLibrary' = TheLibrary, NEW l \in Lookers, Looks(l)
  PROVE  BuiltInv'
<1> DEFINE Building == {"prefix", "keep", "index"}
           B == /\ \A k \in Lookers : /\ look[k].pc = "prefix" => look[k].list = ListAll
                                      /\ look[k].pc \in {"keep", "index"} => look[k].list = TheLibrary
                                      /\ look[k].pc = "index" => exportCache = look[k].list
                /\ exportMu = Nobody /\ exportCache # NoSnapshot => exportCache = TheLibrary /\ exportIndex = exportCache
<1>1. B /\ Nobody \notin Lookers /\ \A k \in Lookers : exportMu = k <=> look[k].pc \in Building
  BY LibraryAssumption DEF BuiltInv, Locked
<1>2. LookShape /\ LookShape' /\ \A k \in Lookers \ {l} : look'[k] = look[k]
  BY LooksChange DEF ShapeInv, LookShape
<1>3. SUFFICES B'
  BY DEF BuiltInv
<1>4. ASSUME UNCHANGED <<exportCache, exportIndex, exportMu>>, look'[l].pc \notin Building
      PROVE  B'
  BY <1>1, <1>2, <1>4
<1> USE DEF Looking, LookShape, LookFields
<1>5. ASSUME NEW i \in Rows, NEW f \in Sought, LookBegins(l, i, f) PROVE B'
  <2>1. UNCHANGED <<exportCache, exportIndex, exportMu>> /\ look'[l].pc \notin Building
    BY <1>2, <1>5 DEF LookBegins, NoLook, exported
  <2> QED
    BY <1>4, <2>1
<1>6. CASE LookLocks(l)
  <2>1. UNCHANGED exported /\ look[l].pc = "lock" /\ exportMu = Nobody
    BY <1>6 DEF LookLocks
  <2>2. CASE UNCHANGED exportMu /\ look' = [look EXCEPT ![l].pc = "find"]
    BY <1>2, <1>4, <2>1, <2>2 DEF exported
  <2>3. CASE exportMu' = l /\ look' = [look EXCEPT ![l].pc = "prefix", ![l].list = ListAll]
    <3>1. look'[l].pc = "prefix" /\ look'[l].list = ListAll
      BY <1>2, <2>3
    <3>2. \A k \in Lookers \ {l} : look[k].pc \notin Building
      BY <1>1, <2>1
    <3> QED
      BY <1>1, <1>2, <2>3, <3>1, <3>2
  <2> QED
    BY <1>6, <2>2, <2>3 DEF LookLocks
<1>7. CASE exportSnapshot(l)
  <2>1. exportMu = l /\ \A k \in Lookers \ {l} : look[k].pc \notin Building
    BY <1>1, <1>7 DEF exportSnapshot
  <2>2. CASE /\ look[l].pc = "prefix"
             /\ look' = [look EXCEPT ![l].pc = "keep", ![l].list = applyGroupPrefix(@, groupPrefixes)]
             /\ UNCHANGED <<exportCache, exportIndex, exportMu>>
    <3>1. look'[l].pc = "keep" /\ look'[l].list = applyGroupPrefix(look[l].list, groupPrefixes)
      BY <1>2, <2>2
    <3>2. look'[l].list = TheLibrary
      BY <1>1, <2>2, <3>1 DEF TheLibrary
    <3> QED
      BY <1>1, <1>2, <2>1, <2>2, <3>1, <3>2
  <2>3. CASE /\ look[l].pc = "keep" /\ exportCache' = look[l].list
             /\ look' = [look EXCEPT ![l].pc = "index"] /\ UNCHANGED <<exportIndex, exportMu>>
    <3>1. look'[l].pc = "index" /\ look'[l].list = look[l].list
      BY <1>2, <2>3
    <3> QED
      BY <1>1, <1>2, <2>1, <2>3, <3>1
  <2>4. CASE /\ look[l].pc = "index" /\ exportIndex' = look[l].list /\ exportMu' = Nobody
             /\ look' = [look EXCEPT ![l].pc = "find", ![l].list = NoSnapshot] /\ UNCHANGED exportCache
    <3>1. look'[l].pc = "find"
      BY <1>2, <2>4
    <3> QED
      BY <1>1, <1>2, <2>1, <2>4, <3>1
  <2> QED
    BY <1>7, <2>2, <2>3, <2>4 DEF exportSnapshot
<1>8. CASE FindByXCStreamID(l)
  <2>1. look' = [look EXCEPT ![l].pc = "root"] \/ look' = [look EXCEPT ![l] = [NoLook EXCEPT !.reply = "not found"]]
    BY <1>8 DEF FindByXCStreamID, Replies
  <2>2. look'[l].pc \in {"root", "idle"}
    BY <1>2, <2>1 DEF NoLook
  <2> QED
    BY <1>4, <1>8, <2>2 DEF FindByXCStreamID, exported
<1>9. CASE sourceRoot(l)
  <2>1. \/ \E x : look' = [look EXCEPT ![l].pc = "serve", ![l].root = x]
        \/ \E x : look' = [look EXCEPT ![l].pc = "keeproot", ![l].root = x]
        \/ look' = [look EXCEPT ![l].pc = "serve"]
        \/ look' = [look EXCEPT ![l] = [NoLook EXCEPT !.reply = "refused"]]
    BY <1>9 DEF sourceRoot, Replies
  <2>2. look'[l].pc \in {"serve", "keeproot", "idle"}
    BY <1>2, <2>1 DEF NoLook
  <2> QED
    BY <1>4, <1>9, <2>2 DEF sourceRoot
<1>10. CASE PathWithinSource(l)
  <2>1. look'[l].pc \notin Building
    BY <1>2, <1>10 DEF PathWithinSource, Replies, NoLook
  <2> QED
    BY <1>4, <1>10, <2>1 DEF PathWithinSource, exported
<1> QED
  BY <1>5, <1>6, <1>7, <1>8, <1>9, <1>10 DEF Looks

LEMMA CacheMoves ==
  ASSUME ShapeInv, LibNext, exportCache' # exportCache
  PROVE  exportCache' = NoSnapshot \/ \E l \in Lookers : look[l].pc = "keep"
<1>1. DiskChanges \/ Edits \/ DeleteAllForSource => exportCache' = exportCache
  BY DiskPlaces, EditAnnounces DEF DeleteAllForSource, exported
<1>2. EditorClears => exportCache' \in {exportCache, NoSnapshot}
  BY DEF EditorClears, clearCache, clearIndex
<1>3. ASSUME NEW s \in Scanners
      PROVE  Starts(s) \/ Reads(s) \/ UpsertBatch(s) \/ DeleteMissing(s) \/ ScanClears(s) \/ TouchLocalSourceScan(s)
               => exportCache' \in {exportCache, NoSnapshot}
  BY ReadPlaces, WritePlaces DEF ScanClears, clearCache, clearIndex, exported
<1>4. ASSUME NEW l \in Lookers, Looks(l) PROVE exportCache' = exportCache \/ look[l].pc = "keep"
  BY <1>4 DEF Looks, LookBegins, LookLocks, exportSnapshot, FindByXCStreamID, sourceRoot, PathWithinSource, exported, Looking
<1> QED
  BY <1>1, <1>2, <1>3, <1>4, NextIs

LEMMA SnapshotKept ==
  ASSUME ShapeInv, Locked, \A s \in Scanners : Carried(s), ClearedInv, BuiltInv, LibNext
  PROVE  ClearedInv' /\ BuiltInv'
<1>1. Locked' /\ Nobody \notin Lookers
  BY LockedKept, LibraryAssumption
<1>2. Clearing' => Announcing'
  BY DEF Clearing, Announcing
<1>3. ASSUME ~Announcing', exportMu' = Nobody, exportCache' = NoSnapshot PROVE ClearedInv' /\ BuiltInv'
  <2>1. \A l \in Lookers : look'[l].pc \notin {"prefix", "keep", "index"}
    BY <1>1, <1>3 DEF Locked
  <2> QED
    BY <1>2, <1>3, <2>1 DEF ClearedInv, BuiltInv
<1>4. CASE overlap'
  BY <1>4 DEF ClearedInv, BuiltInv
<1>5. ASSUME ~overlap, ~(exportMu' # Nobody /\ Announcing') PROVE ClearedInv' /\ BuiltInv'
  <2>1. Clearing' => exportCache' = NoSnapshot
    <3>1. CASE Clearing /\ exportCache' # exportCache
      <4>1. exportMu = Nobody
        BY <1>5, <3>1 DEF ClearedInv
      <4>2. \A l \in Lookers : look[l].pc # "keep"
        BY <1>1, <4>1 DEF Locked
      <4> QED
        BY <3>1, <4>2, CacheMoves
    <3>2. CASE Clearing /\ exportCache' = exportCache
      BY <1>5, <3>2 DEF ClearedInv
    <3> QED
      BY <3>1, <3>2, Beginning
  <2>2. ClearedInv'
    BY <1>2, <1>5, <2>1 DEF ClearedInv
  <2>3. CASE Announcing'
    BY <2>2, <2>3 DEF BuiltInv
  <2>4. CASE Announcing /\ ~Announcing'
    <3>1. Clearing /\ UNCHANGED <<exportMu, exportCache>>
      BY <2>4, Ending
    <3> QED
      BY <1>3, <1>5, <2>4, <3>1 DEF ClearedInv
  <2>5. CASE ~Announcing /\ ~Announcing'
    <3>1. /\ ListAll' = ListAll /\ TheLibrary' = TheLibrary
          /\ UNCHANGED <<exported, look, exportMu>> \/ \E l \in Lookers : Looks(l)
      BY <2>5, Between
    <3>2. CASE UNCHANGED <<exported, look, exportMu>>
      BY <1>5, <2>2, <2>5, <3>1, <3>2 DEF BuiltInv, exported
    <3>3. CASE \E l \in Lookers : Looks(l)
      BY <1>5, <2>2, <2>5, <3>1, <3>3, LookBuilds
    <3> QED
      BY <3>1, <3>2, <3>3
  <2> QED
    BY <2>2, <2>3, <2>4, <2>5
<1>6. ~overlap' => \/ ~overlap /\ ~(exportMu' # Nobody /\ Announcing')
                   \/ ~Announcing' /\ exportMu' = Nobody /\ exportCache' = NoSnapshot
  BY Zenon, NextIs DEF Observe
<1> QED
  BY <1>3, <1>4, <1>5, <1>6

-----------------------------------------------------------------------------
(* A scan that nobody disturbs                                             *)

Quietly(s) == scan[s].pc # "idle" /\ scan[s].quiet => Undisturbed(s)

\* Found and UpToDate speak of the disk, the rows' roots and filters, and the media.
LEMMA FoundAsBefore ==
  ASSUME UNCHANGED <<disk, mounted>>, NEW i,
         src'[i].root = src[i].root, src'[i].filter = src[i].filter
  PROVE  Found(i)' = Found(i)
BY DEF Found, Readable

LEMMA ViewAsBefore ==
  ASSUME UNCHANGED <<disk, mounted, src, media>>, NEW i
  PROVE  Found(i)' = Found(i) /\ Entries(i)' = Entries(i) /\ \A f : UpToDate(i, f)' <=> UpToDate(i, f)
BY FoundAsBefore DEF Entries, UpToDate

LEMMA UndisturbedAsBefore ==
  ASSUME UNCHANGED <<disk, mounted, src, media>>, NEW s \in Scanners,
         \A t \in Scanners : scan'[t] = scan[t], Quietly(s)
  PROVE  Quietly(s)'
<1>1. ASSUME NEW i PROVE Found(i)' = Found(i) /\ Entries(i)' = Entries(i) /\ \A f : UpToDate(i, f)' <=> UpToDate(i, f)
  BY ViewAsBefore
<1> QED
  BY <1>1 DEF Quietly, Undisturbed, Alone, Ahead

\* A disturbed scan promises nothing.
LEMMA DisturbedQuietly ==
  ASSUME ShapeInv, NEW me, NEW t \in Scanners \ {me}, scan'[t] = Disturbed(me)[t]
  PROVE  Quietly(t)'
<1>1. scan'[t].pc = scan[t].pc
  BY DisturbedLooksOn
<1>2. scan[t].pc # "idle" => Disturbed(me)[t].quiet = FALSE
  BY DisturbedIs
<1>3. scan[t].pc # "idle" => scan'[t].quiet = FALSE
  BY <1>2
<1> QED
  BY <1>1, <1>3 DEF Quietly

\* While one scan moves nobody else can be undisturbed.
LEMMA OthersAreDisturbed ==
  ASSUME ShapeInv, NEW s \in Scanners, scan[s].pc # "idle", NEW t \in Scanners \ {s}, Quietly(t), Same(t)
  PROVE  Quietly(t)'
<1>1. scan'[t].pc = scan[t].pc /\ (scan'[t].quiet = scan[t].quiet \/ scan'[t].quiet = FALSE)
  BY DEF Same, ShapeInv, ScanFields
<1>2. Undisturbed(t) => scan[s].pc = "idle"
  BY DEF Undisturbed, Alone
<1> QED
  BY <1>1, <1>2 DEF Quietly

LEMMA StillAlone ==
  ASSUME NEW s \in Scanners, Alone(s), \A t \in Scanners \ {s} : scan'[t].pc = scan[t].pc
  PROVE  Alone(s)'
BY DEF Alone

LEMMA BeginsQuietly ==
  ASSUME ShapeInv, NEW s \in Scanners, NEW i \in Ids, NEW row, NEW rest, Starts(s), scan'[s] = Walking(s, i, row, rest)
  PROVE  Quietly(s)'
<1> DEFINE q == Alone(s) /\ mounted /\ editor = NoEdit /\ NowStored(i, row)
<1>1. /\ scan'[s].pc = "walk" /\ scan'[s].id = i /\ scan'[s].row = row /\ scan'[s].kind = "all"
      /\ scan'[s].cached = [f \in DOMAIN media[i] |-> media[i][f].mtime]
  BY WalkingIs, WalkingCached
<1>2. scan'[s].quiet = q
  BY WalkingQuiet, Zenon
<1>3. UNCHANGED <<src, media>>
  BY StartedIs DEF tables
<1>4. \A t \in Scanners \ {s} : scan'[t].pc = scan[t].pc
  BY StartedIs, DisturbedLooksOn
<1>5. q => Alone(s)'
  BY <1>4, StillAlone
<1>6. NowStored(i, row) => src[i] # NoSource /\ row.root = src[i].root /\ row.filter = src[i].filter
  <2> SUFFICES ASSUME NowStored(i, row) PROVE src[i] # NoSource /\ row.root = src[i].root /\ row.filter = src[i].filter
    OBVIOUS
  <2>1. src[i] # NoSource /\ src[i] = [row EXCEPT !.count = src[i].count]
    BY DEF NowStored
  <2>2. src[i] \in Storable
    BY <2>1 DEF ShapeInv
  <2>3. "root" \in DOMAIN src[i] /\ "filter" \in DOMAIN src[i]
    BY <2>2 DEF Storable, RowOf
  <2>4. "root" \in DOMAIN row /\ "filter" \in DOMAIN row
    BY <2>1, <2>3
  <2> QED
    BY <2>1, <2>4
<1>7. SUFFICES ASSUME q PROVE Undisturbed(s)'
  BY <1>2 DEF Quietly
<1>8. src'[i] # NoSource /\ scan'[s].row.root = src'[i].root /\ scan'[s].row.filter = src'[i].filter
  BY <1>1, <1>3, <1>6, <1>7
<1>9. DOMAIN scan'[s].cached \subseteq Entries(i)' /\ \A f \in DOMAIN scan'[s].cached : scan'[s].cached[f] = media'[i][f].mtime
  BY <1>1, <1>3 DEF Entries
<1>10. Ahead(s)' = "walk" /\ Alone(s)'
  BY <1>1, <1>5, <1>7 DEF Ahead
<1> QED
  BY <1>1, <1>8, <1>9, <1>10 DEF Undisturbed

LEMMA OnwardQuietly ==
  ASSUME NEW s \in Scanners, NEW rest, scan'[s] = Onward(rest)
  PROVE  Quietly(s)'
BY OnwardIs DEF Quietly

LEMMA WalksQuietly ==
  ASSUME ShapeInv, NEW s \in Scanners, ScanWalks(s), Quietly(s)
  PROVE  Quietly(s)'
<1>1. /\ UNCHANGED <<disk, mounted, src, media>> /\ scan[s].pc = "walk"
      /\ scan' = [scan EXCEPT ![s].pc = "parse", ![s].files = collect(scan[s].row),
            ![s].changed = {f \in collect(scan[s].row) : f \notin DOMAIN scan[s].cached \/ scan[s].cached[f] # statFile(f)}]
  BY DEF ScanWalks, Scanning, tables
<1>0. PICK i : i = scan[s].id
  OBVIOUS
<1>2. /\ scan'[s].pc = "parse" /\ scan'[s].files = collect(scan[s].row)
      /\ scan'[s].changed = {f \in collect(scan[s].row) : f \notin DOMAIN scan[s].cached \/ scan[s].cached[f] # statFile(f)}
      /\ scan'[s].id = i /\ scan'[s].row = scan[s].row /\ scan'[s].kind = scan[s].kind /\ scan'[s].quiet = scan[s].quiet
  BY <1>0, <1>1 DEF ShapeInv, ScanFields
<1>3. SUFFICES ASSUME Undisturbed(s) PROVE Undisturbed(s)'
  BY <1>1, <1>2 DEF Quietly
<1>4. Alone(s)'
  <2>1. \A t \in Scanners \ {s} : scan'[t].pc = scan[t].pc
    BY <1>1 DEF ShapeInv
  <2> QED
    BY <1>3, <2>1, StillAlone DEF Undisturbed
<1>5. Found(i)' = Found(i) /\ Entries(i)' = Entries(i) /\ \A f : UpToDate(i, f)' <=> UpToDate(i, f)
  BY <1>1, ViewAsBefore
<1>6. collect(scan[s].row) = Found(i)
  BY <1>0, <1>3 DEF collect, Found, Undisturbed
<1>7. \A f \in Found(i) : statFile(f) = disk[f].ver
  BY DEF Found, statFile
<1>8. DOMAIN scan[s].cached \subseteq Entries(i) /\ \A f \in DOMAIN scan[s].cached : scan[s].cached[f] = media[i][f].mtime
  BY <1>0, <1>1, <1>3 DEF Undisturbed
<1>9. scan'[s].changed \subseteq Found(i) /\ \A f \in Found(i) : f \in scan'[s].changed \/ UpToDate(i, f)
  BY <1>2, <1>6, <1>7, <1>8 DEF UpToDate
<1>10. /\ scan'[s].files = Found(i)' /\ scan'[s].changed \subseteq Found(i)'
       /\ \A f \in Found(i)' : f \in scan'[s].changed \/ UpToDate(i, f)'
  BY <1>2, <1>5, <1>6, <1>9
<1>11. Ahead(s)' = "parse"
  BY <1>2 DEF Ahead
<1>12. /\ scan'[s].kind = "all" /\ src'[i] # NoSource
       /\ scan'[s].row.root = src'[i].root /\ scan'[s].row.filter = src'[i].filter
  BY <1>0, <1>1, <1>2, <1>3 DEF Undisturbed
<1> QED
  BY <1>2, <1>4, <1>10, <1>11, <1>12 DEF Undisturbed

LEMMA ReadsQuietly ==
  ASSUME ShapeInv, NEW s \in Scanners, ScanParses(s) \/ process(s), Quietly(s)
  PROVE  Quietly(s)'
<1>1. /\ UNCHANGED <<disk, mounted, src, media>> /\ scan[s].pc \in {"parse", "stamp"}
      /\ \A t \in Scanners \ {s} : scan'[t].pc = scan[t].pc
  BY DEF ScanParses, process, Scanning, tables, ShapeInv
<1>0. PICK i : i = scan[s].id
  OBVIOUS
<1>2. /\ scan'[s].files = scan[s].files /\ scan'[s].changed = scan[s].changed
      /\ scan'[s].id = i /\ scan'[s].row = scan[s].row /\ scan'[s].kind = scan[s].kind /\ scan'[s].quiet = scan[s].quiet
  BY <1>0 DEF ScanParses, process, ShapeInv, ScanFields
<1>3. \/ scan'[s].pc = "stamp"
      \/ /\ scan'[s].pc = "upsert"
         /\ scan'[s].entries = [f \in scan[s].changed |-> Stamped(scan[s].read[f], statFile(f))]
  BY DEF ScanParses, process, ShapeInv, ScanFields
<1>4. SUFFICES ASSUME Undisturbed(s) PROVE Undisturbed(s)'
  BY <1>1, <1>2 DEF Quietly
<1>5. Alone(s)'
  BY <1>1, <1>4, StillAlone DEF Undisturbed
<1>6. Found(i)' = Found(i) /\ Entries(i)' = Entries(i) /\ \A f : UpToDate(i, f)' <=> UpToDate(i, f)
  BY <1>1, ViewAsBefore
<1>7. /\ scan[s].files = Found(i) /\ scan[s].changed \subseteq Found(i)
      /\ \A f \in Found(i) : f \in scan[s].changed \/ UpToDate(i, f)
  BY <1>0, <1>1, <1>4 DEF Undisturbed
<1>8. scan'[s].pc = "upsert" =>
        DOMAIN scan'[s].entries = scan'[s].changed /\ \A f \in scan'[s].changed : scan'[s].entries[f].mtime = disk'[f].ver
  <2>1. \A f \in scan[s].changed : statFile(f) = disk[f].ver
    BY <1>7 DEF Found, statFile
  <2> QED
    BY <1>1, <1>2, <1>3, <2>1 DEF Stamped
<1> QED
  <2>1. Ahead(s)' \in {"stamp", "upsert"} /\ scan'[s].pc \in {"stamp", "upsert"}
    BY <1>3 DEF Ahead
  <2>2. /\ scan'[s].kind = "all" /\ src'[i] # NoSource
        /\ scan'[s].row.root = src'[i].root /\ scan'[s].row.filter = src'[i].filter
    BY <1>0, <1>1, <1>2, <1>4 DEF Undisturbed
  <2>3. /\ scan'[s].files = Found(i)' /\ scan'[s].changed \subseteq Found(i)'
        /\ \A f \in Found(i)' : f \in scan'[s].changed \/ UpToDate(i, f)'
    BY <1>2, <1>6, <1>7
  <2> QED
    BY <1>2, <1>5, <1>8, <2>1, <2>2, <2>3 DEF Undisturbed

\* What a commit leaves of the record of the scan that made it.
LEMMA CommittedFields ==
  ASSUME ShapeInv, NEW s \in Scanners, NEW next, scan' = committed(s, next)
  PROVE  /\ scan'[s].pc = "clear" /\ scan'[s].then = next
         /\ scan'[s].files = scan[s].files /\ scan'[s].id = scan[s].id /\ scan'[s].row = scan[s].row
         /\ scan'[s].kind = scan[s].kind /\ scan'[s].quiet = scan[s].quiet /\ scan'[s].failed = scan[s].failed
         /\ \A t \in Scanners \ {s} : scan'[t].pc = scan[t].pc
<1>1. scan'[s] = [scan[s] EXCEPT !.pc = "clear", !.then = next]
  BY CommittedIs
<1>2. \A t \in Scanners \ {s} : scan'[t] = Disturbed(s)[t]
  BY CommittedIs
<1>3. \A t \in Scanners \ {s} : scan'[t].pc = scan[t].pc
  BY <1>2, DisturbedLooksOn
<1> QED
  BY <1>1, <1>3 DEF ShapeInv, ScanFields

LEMMA PlaceFields ==
  ASSUME ShapeInv, NEW s \in Scanners, NEW next, scan' = [scan EXCEPT ![s].pc = next]
  PROVE  /\ scan'[s].pc = next /\ scan'[s].then = scan[s].then
         /\ scan'[s].files = scan[s].files /\ scan'[s].id = scan[s].id /\ scan'[s].row = scan[s].row
         /\ scan'[s].kind = scan[s].kind /\ scan'[s].quiet = scan[s].quiet /\ scan'[s].failed = scan[s].failed
         /\ \A t \in Scanners \ {s} : scan'[t].pc = scan[t].pc
BY DEF ShapeInv, ScanFields

LEMMA UpsertsQuietly ==
  ASSUME ShapeInv, NEW s \in Scanners, UpsertBatch(s), Quietly(s)
  PROVE  Quietly(s)'
<1>0. PICK i : i = scan[s].id
  OBVIOUS
<1>1. UNCHANGED <<disk, mounted, src>> /\ scan[s].pc = "upsert" /\ i \in Ids
  BY <1>0 DEF UpsertBatch, Scanning, ShapeInv
<1>2. CASE scan' = [scan EXCEPT ![s] = Onward(scan[s].rest)]
  <2>1. scan'[s] = Onward(scan[s].rest)
    BY <1>2 DEF ShapeInv
  <2> QED
    BY <2>1, OnwardQuietly
<1>3. CASE scan' # [scan EXCEPT ![s] = Onward(scan[s].rest)] /\ scan[s].quiet
  <2>1. Undisturbed(s)
    BY <1>1, <1>3 DEF Quietly
  <2>2. /\ scan[s].kind = "all" /\ scan[s].files = Found(i) /\ scan[s].changed \subseteq Found(i)
        /\ \A f \in Found(i) : f \in scan[s].changed \/ UpToDate(i, f)
        /\ DOMAIN scan[s].entries = scan[s].changed
        /\ \A f \in scan[s].changed : scan[s].entries[f].mtime = disk[f].ver
        /\ src[i] # NoSource /\ scan[s].row.root = src[i].root /\ scan[s].row.filter = src[i].filter
    BY <1>0, <1>1, <2>1 DEF Undisturbed
  <2>3. Found(i)' = Found(i)
    BY <1>1, FoundAsBefore
  <2>4. ASSUME \A t \in Scanners \ {s} : scan'[t].pc = scan[t].pc PROVE Alone(s)'
    BY <2>1, <2>4, StillAlone DEF Undisturbed
  <2>5. CASE scan[s].entries = NoFiles /\ scan' = [scan EXCEPT ![s].pc = "evict"] /\ UNCHANGED media
    <3>1. \A f \in Found(i) : UpToDate(i, f)
      BY <2>2, <2>5 DEF NoFiles
    <3>2. \A f \in Found(i)' : UpToDate(i, f)'
      BY <1>1, <2>3, <2>5, <3>1 DEF UpToDate, Entries
    <3>3. /\ scan'[s].pc = "evict" /\ scan'[s].files = scan[s].files /\ scan'[s].id = scan[s].id
          /\ scan'[s].row = scan[s].row /\ scan'[s].kind = scan[s].kind /\ Alone(s)'
      BY <2>4, <2>5, PlaceFields
    <3>4. Ahead(s)' = "evict"
      BY <3>3 DEF Ahead
    <3> QED
      BY <1>0, <1>1, <2>2, <2>3, <3>2, <3>3, <3>4 DEF Undisturbed, Quietly
  <2>6. CASE /\ media' = [media EXCEPT ![scan[s].id] = Upserted(@, scan[s].entries)]
             /\ scan' = committed(s, "evict")
    <3>1. media'[i] = Upserted(media[i], scan[s].entries)
      BY <1>0, <1>1, <2>6 DEF ShapeInv
    <3>2. ASSUME NEW f \in Found(i) PROVE f \in DOMAIN media'[i] /\ media'[i][f].mtime = disk[f].ver
      BY <2>2, <3>1 DEF Upserted, UpToDate, Entries
    <3>3. \A f \in Found(i)' : UpToDate(i, f)'
      BY <1>1, <2>3, <3>2 DEF UpToDate, Entries
    <3>4. /\ scan'[s].pc = "clear" /\ scan'[s].then = "evict" /\ scan'[s].files = scan[s].files
          /\ scan'[s].id = scan[s].id
          /\ scan'[s].row = scan[s].row /\ scan'[s].kind = scan[s].kind /\ Alone(s)'
      BY <2>4, <2>6, CommittedFields
    <3>5. Ahead(s)' = "evict"
      BY <3>4 DEF Ahead
    <3> QED
      BY <1>0, <1>1, <2>2, <2>3, <3>3, <3>4, <3>5 DEF Undisturbed, Quietly
  <2> QED
    BY <1>0, <1>3, <2>2, <2>5, <2>6 DEF UpsertBatch, rowReferenced
<1>4. CASE scan' # [scan EXCEPT ![s] = Onward(scan[s].rest)] /\ ~scan[s].quiet
  <2> DEFINE next == IF scan[s].kind = "one" THEN "done" ELSE "evict"
  <2>1. scan' = [scan EXCEPT ![s].pc = next] \/ scan' = committed(s, next)
    BY <1>4 DEF UpsertBatch
  <2> HIDE DEF next
  <2>2. scan'[s].quiet = scan[s].quiet
    BY <2>1, PlaceFields, CommittedFields
  <2> QED
    BY <1>4, <2>2 DEF Quietly
<1> QED
  BY <1>2, <1>3, <1>4

LEMMA EvictsQuietly ==
  ASSUME ShapeInv, NEW s \in Scanners, DeleteMissing(s), Quietly(s)
  PROVE  Quietly(s)'
<1>0. PICK i : i = scan[s].id
  OBVIOUS
<1>1. UNCHANGED <<disk, mounted, src>> /\ scan[s].pc = "evict" /\ i \in Ids
  BY <1>0 DEF DeleteMissing, Scanning, ShapeInv
<1>2. \/ /\ staleRows(scan[s]) = {} /\ UNCHANGED media /\ scan' = [scan EXCEPT ![s].pc = "touch"]
      \/ /\ media' = [media EXCEPT ![i] = Restrict(@, DOMAIN @ \ staleRows(scan[s]))]
         /\ scan' = committed(s, "touch")
  BY <1>0 DEF DeleteMissing
<1>3. scan'[s].quiet = scan[s].quiet
  BY <1>2, PlaceFields, CommittedFields
<1>4. SUFFICES ASSUME Undisturbed(s) PROVE Undisturbed(s)'
  BY <1>1, <1>3 DEF Quietly
<1>5. /\ scan[s].kind = "all" /\ scan[s].files = Found(i) /\ \A f \in Found(i) : UpToDate(i, f)
      /\ src[i] # NoSource /\ scan[s].row.root = src[i].root /\ scan[s].row.filter = src[i].filter
  BY <1>0, <1>1, <1>4 DEF Undisturbed, Ahead
<1>6. Found(i)' = Found(i)
  BY <1>1, FoundAsBefore
<1>7. staleRows(scan[s]) = {f \in DOMAIN media[i] : f \notin Found(i)}
  BY <1>0, <1>5 DEF staleRows
<1>8. DOMAIN media'[i] \subseteq Found(i) /\ \A f \in Found(i) : f \in DOMAIN media'[i] /\ media'[i][f] = media[i][f]
  <2>1. CASE staleRows(scan[s]) = {} /\ UNCHANGED media
    BY <1>5, <1>7, <2>1 DEF UpToDate, Entries
  <2>2. CASE media' = [media EXCEPT ![i] = Restrict(@, DOMAIN @ \ staleRows(scan[s]))]
    <3>1. media'[i] = Restrict(media[i], DOMAIN media[i] \ staleRows(scan[s]))
      BY <1>1, <2>2 DEF ShapeInv
    <3> QED
      BY <1>5, <1>7, <3>1 DEF UpToDate, Entries, Restrict
  <2> QED
    BY <1>2, <2>1, <2>2
<1>9. Entries(i)' \subseteq Found(i)' /\ \A f \in Found(i)' : UpToDate(i, f)'
  BY <1>1, <1>5, <1>6, <1>8 DEF UpToDate, Entries
<1>10. /\ \A t \in Scanners \ {s} : scan'[t].pc = scan[t].pc
       /\ scan'[s].pc = "touch" \/ (scan'[s].pc = "clear" /\ scan'[s].then = "touch")
       /\ scan'[s].files = scan[s].files /\ scan'[s].id = scan[s].id
       /\ scan'[s].row = scan[s].row /\ scan'[s].kind = scan[s].kind
  BY <1>2, PlaceFields, CommittedFields
<1>11. Ahead(s)' = "touch" /\ Alone(s)'
  BY <1>4, <1>10, StillAlone DEF Ahead, Undisturbed
<1> QED
  BY <1>0, <1>1, <1>5, <1>6, <1>9, <1>10, <1>11 DEF Undisturbed

LEMMA ClearsQuietly ==
  ASSUME ShapeInv, NEW s \in Scanners, ScanClears(s), Quietly(s)
  PROVE  Quietly(s)'
<1>0. PICK i : i = scan[s].id
  OBVIOUS
<1>1. /\ UNCHANGED <<disk, mounted, src, media>> /\ scan[s].pc \in {"clear", "clear2"}
      /\ \/ scan' = [scan EXCEPT ![s].pc = "clear2"]
         \/ scan' = [scan EXCEPT ![s].pc = scan[s].then]
  BY DEF ScanClears, Scanning, tables
<1>2. /\ scan'[s].pc = "clear2" \/ scan'[s].pc = scan[s].then
      /\ scan'[s].then = scan[s].then /\ scan'[s].quiet = scan[s].quiet
      /\ scan'[s].files = scan[s].files /\ scan'[s].id = i
      /\ scan'[s].row = scan[s].row /\ scan'[s].kind = scan[s].kind /\ scan'[s].failed = scan[s].failed
      /\ \A t \in Scanners \ {s} : scan'[t].pc = scan[t].pc
  BY <1>0, <1>1, PlaceFields
<1>3. SUFFICES ASSUME Undisturbed(s) PROVE Undisturbed(s)'
  BY <1>1, <1>2 DEF Quietly
<1>4. Found(i)' = Found(i) /\ Entries(i)' = Entries(i) /\ \A f : UpToDate(i, f)' <=> UpToDate(i, f)
  BY <1>1, ViewAsBefore
<1>5. Ahead(s) = scan[s].then /\ scan[s].then \in {"evict", "touch", "done"} /\ Ahead(s)' = Ahead(s) /\ Alone(s)'
  BY <1>1, <1>2, <1>3, StillAlone DEF Ahead, Undisturbed
<1> QED
  BY <1>0, <1>1, <1>2, <1>3, <1>4, <1>5 DEF Undisturbed

LEMMA TouchesQuietly ==
  ASSUME ShapeInv, NEW s \in Scanners, Carried(s), TouchLocalSourceScan(s), Quietly(s)
  PROVE  Quietly(s)'
<1>0. PICK i : i = scan[s].id
  OBVIOUS
<1>1. UNCHANGED <<disk, mounted, media>> /\ scan[s].pc = "touch" /\ scan' = [scan EXCEPT ![s].pc = "done"] /\ i \in Ids
  BY <1>0 DEF TouchLocalSourceScan, Scanning, ShapeInv
<1>2. /\ scan'[s].pc = "done" /\ scan'[s].quiet = scan[s].quiet
      /\ scan'[s].files = scan[s].files /\ scan'[s].id = i
      /\ scan'[s].row = scan[s].row /\ scan'[s].kind = scan[s].kind /\ scan'[s].failed = scan[s].failed
      /\ \A t \in Scanners \ {s} : scan'[t].pc = scan[t].pc
  BY <1>0, <1>1, PlaceFields
<1>3. SUFFICES ASSUME Undisturbed(s) PROVE Undisturbed(s)'
  BY <1>1, <1>2 DEF Quietly
<1>4. /\ src'[i] = NoSource <=> src[i] = NoSource
      /\ src'[i].root = src[i].root /\ src'[i].filter = src[i].filter
      /\ src[i] # NoSource => src'[i].count = Cardinality(scan[s].files)
  BY <1>0, <1>1, TouchedIs DEF Carried
<1>5. Found(i)' = Found(i)
  BY <1>1, <1>4, FoundAsBefore
<1>6. /\ scan[s].kind = "all" /\ scan[s].files = Found(i) /\ \A f \in Found(i) : UpToDate(i, f)
      /\ ~scan[s].failed => Entries(i) \subseteq Found(i)
      /\ src[i] # NoSource /\ scan[s].row.root = src[i].root /\ scan[s].row.filter = src[i].filter
  BY <1>0, <1>1, <1>3 DEF Undisturbed, Ahead
<1>7. (~scan[s].failed => Entries(i)' \subseteq Found(i)') /\ \A f \in Found(i)' : UpToDate(i, f)'
  BY <1>1, <1>5, <1>6 DEF UpToDate, Entries
<1>8. Ahead(s)' = "done" /\ Alone(s)'
  BY <1>2, <1>3, StillAlone DEF Ahead, Undisturbed
<1> QED
  BY <1>0, <1>1, <1>2, <1>4, <1>5, <1>6, <1>7, <1>8 DEF Undisturbed

\* A statement that fails leaves more to read, or the rest of the scan a failed one.
LEMMA FailsQuietly ==
  ASSUME ShapeInv, NEW s \in Scanners, StatementFails(s), Quietly(s)
  PROVE  Quietly(s)'
<1>0. PICK i : i = scan[s].id
  OBVIOUS
<1>1. UNCHANGED <<disk, mounted, src, media>>
  BY FailsAs DEF tables
<1>2. Found(i)' = Found(i) /\ Entries(i)' = Entries(i) /\ \A f : UpToDate(i, f)' <=> UpToDate(i, f)
  BY <1>1, ViewAsBefore
<1>3. CASE scan[s].pc = "walk" /\ scan' = [scan EXCEPT ![s].cached = NoFiles]
  <2>1. /\ scan'[s].pc = "walk" /\ scan'[s].cached = NoFiles /\ scan'[s].quiet = scan[s].quiet
        /\ scan'[s].id = i /\ scan'[s].row = scan[s].row /\ scan'[s].kind = scan[s].kind
        /\ \A t \in Scanners \ {s} : scan'[t].pc = scan[t].pc
    BY <1>0, <1>3 DEF ShapeInv, ScanFields
  <2>2. SUFFICES ASSUME Undisturbed(s) PROVE Undisturbed(s)'
    BY <1>3, <2>1 DEF Quietly
  <2>3. Alone(s)' /\ Ahead(s)' = "walk" /\ DOMAIN scan'[s].cached = {}
    BY <2>1, <2>2, StillAlone DEF Undisturbed, Ahead, NoFiles
  <2>4. /\ scan'[s].kind = "all" /\ src'[i] # NoSource
        /\ scan'[s].row.root = src'[i].root /\ scan'[s].row.filter = src'[i].filter
    BY <1>0, <1>1, <2>1, <2>2 DEF Undisturbed
  <2> QED
    BY <2>1, <2>3, <2>4 DEF Undisturbed
<1>4. CASE scan' = [scan EXCEPT ![s] = Onward(scan[s].rest)]
  <2>1. scan'[s] = Onward(scan[s].rest)
    BY <1>4 DEF ShapeInv
  <2> QED
    BY <2>1, OnwardQuietly
<1>5. ASSUME NEW next, scan' = [scan EXCEPT ![s].pc = next, ![s].failed = TRUE],
             (next = "touch" /\ scan[s].pc = "evict") \/ (next = "done" /\ scan[s].pc = "touch")
      PROVE  Quietly(s)'
  <2>1. /\ scan'[s].pc = next /\ scan'[s].failed /\ scan'[s].quiet = scan[s].quiet /\ scan'[s].files = scan[s].files
        /\ scan'[s].id = i /\ scan'[s].row = scan[s].row /\ scan'[s].kind = scan[s].kind
        /\ \A t \in Scanners \ {s} : scan'[t].pc = scan[t].pc
    BY <1>0, <1>5 DEF ShapeInv, ScanFields
  <2>2. SUFFICES ASSUME Undisturbed(s) PROVE Undisturbed(s)'
    BY <1>5, <2>1 DEF Quietly
  <2>3. Alone(s)' /\ Ahead(s)' = next
    BY <1>5, <2>1, <2>2, StillAlone DEF Undisturbed, Ahead
  <2>4. /\ scan'[s].kind = "all" /\ src'[i] # NoSource
        /\ scan'[s].row.root = src'[i].root /\ scan'[s].row.filter = src'[i].filter
        /\ scan'[s].files = Found(i)' /\ \A f \in Found(i)' : UpToDate(i, f)'
    BY <1>0, <1>1, <1>2, <1>5, <2>1, <2>2 DEF Undisturbed, Ahead
  <2> QED
    BY <1>5, <2>1, <2>3, <2>4 DEF Undisturbed
<1>6. CASE scan[s].pc = "evict" /\ scan' = [scan EXCEPT ![s].pc = "touch", ![s].failed = TRUE]
  <2> DEFINE next == "touch"
  <2>1. scan' = [scan EXCEPT ![s].pc = next, ![s].failed = TRUE]
    BY <1>6
  <2>2. (next = "touch" /\ scan[s].pc = "evict") \/ (next = "done" /\ scan[s].pc = "touch")
    BY <1>6
  <2> HIDE DEF next
  <2> QED
    BY <1>5, <2>1, <2>2
<1>7. CASE scan[s].pc = "touch" /\ scan' = [scan EXCEPT ![s].pc = "done", ![s].failed = TRUE]
  <2> DEFINE next == "done"
  <2>1. scan' = [scan EXCEPT ![s].pc = next, ![s].failed = TRUE]
    BY <1>7
  <2>2. (next = "touch" /\ scan[s].pc = "evict") \/ (next = "done" /\ scan[s].pc = "touch")
    BY <1>7
  <2> HIDE DEF next
  <2> QED
    BY <1>5, <2>1, <2>2
<1> QED
  BY <1>3, <1>4, <1>6, <1>7, FailsAs

LEMMA QuietKept ==
  ASSUME ShapeInv, \A s \in Scanners : Carried(s), QuietInv, LibNext
  PROVE  QuietInv'
<1>0. \A s \in Scanners : Quietly(s)
  BY DEF QuietInv, Quietly
<1>1. SUFFICES \A t \in Scanners : Quietly(t)'
  BY DEF QuietInv, Quietly
<1>2. CASE DiskChanges \/ Edits \/ DeleteAllForSource
  <2>1. scan' = Disturbed(Nobody) /\ Nobody \notin Scanners
    BY <1>2, LibraryAssumption DEF DiskChanges, MountChanges, FileChanges, DeleteAllForSource, Edits,
       handleCreateLocalSource, handleUpdateLocalSource, handleDeleteLocalSource, Editing
  <2> QED
    BY <2>1, DisturbedQuietly
<1>3. CASE EditorClears
  <2>1. UNCHANGED <<disk, mounted, src, media, scan>>
    BY <1>3 DEF EditorClears, tables
  <2> QED
    BY <1>0, <2>1, UndisturbedAsBefore
<1>4. ASSUME NEW l \in Lookers, Looks(l) PROVE \A t \in Scanners : Quietly(t)'
  <2>1. UNCHANGED <<disk, mounted, src, media, scan>>
    BY <1>4, LooksChange DEF ShapeInv, LookShape, tables
  <2> QED
    BY <1>0, <2>1, UndisturbedAsBefore
<1>5. ASSUME NEW s \in Scanners, Starts(s) PROVE \A t \in Scanners : Quietly(t)'
  <2>1. Nobody \notin Scanners /\ \A t \in Scanners \ {s} : scan'[t] = Disturbed(Nobody)[t]
    BY <1>5, StartedIs, LibraryAssumption
  <2>2. \A t \in Scanners \ {s} : Quietly(t)'
    BY <2>1, DisturbedQuietly
  <2>3. CASE \E i \in Ids, f \in Files : EditBegins(s, i, f)
    <3>1. DOMAIN Disturbed(Nobody) = Scanners
      BY DisturbedIs
    <3>2. scan'[s].quiet = FALSE
      BY <2>3, <3>1 DEF EditBegins, NoScan
    <3> QED
      BY <2>2, <3>2 DEF Quietly
  <2>4. CASE \E i \in Ids : \E row, rest : scan' = [Disturbed(Nobody) EXCEPT ![s] = Walking(s, i, row, rest)]
    <3>0. PICK i \in Ids : \E row, rest : scan' = [Disturbed(Nobody) EXCEPT ![s] = Walking(s, i, row, rest)]
      BY <2>4
    <3>1. PICK row, rest : scan' = [Disturbed(Nobody) EXCEPT ![s] = Walking(s, i, row, rest)]
      BY <3>0
    <3>2. scan'[s] = Walking(s, i, row, rest)
      BY <3>1, DisturbedIs
    <3> QED
      BY <1>5, <2>2, <3>2, BeginsQuietly
  <2>5. CASE \E rest : scan' = [Disturbed(Nobody) EXCEPT ![s] = Onward(rest)]
    <3>1. PICK rest : scan' = [Disturbed(Nobody) EXCEPT ![s] = Onward(rest)]
      BY <2>5
    <3>2. scan'[s] = Onward(rest)
      BY <3>1, DisturbedIs
    <3> QED
      BY <2>2, <3>2, OnwardQuietly
  <2>6. ASSUME NEW i \in Ids, ScanBegins(s, i) PROVE \A t \in Scanners : Quietly(t)'
    BY <2>4, <2>6 DEF ScanBegins
  <2>7. ASSUME GoesOn(s) PROVE \A t \in Scanners : Quietly(t)'
    <3>1. PICK i \in Ids : NextSource(s, i) /\ compileFilters(scan[s].rest[i])
      BY <2>7 DEF GoesOn
    <3> QED
      BY <2>4, <3>1 DEF NextSource
  <2>8. ASSUME ScanAll(s) PROVE \A t \in Scanners : Quietly(t)'
    BY <2>5, <2>8 DEF ScanAll
  <2> QED
    BY <1>5, <2>3, <2>6, <2>7, <2>8 DEF Starts
<1>6. ASSUME NEW s \in Scanners,
             \/ ScanWalks(s) \/ ScanParses(s) \/ process(s) \/ ScanReturns(s) \/ Skips(s) \/ StatementFails(s)
             \/ UpsertBatch(s) \/ DeleteMissing(s) \/ ScanClears(s) \/ TouchLocalSourceScan(s),
             \A t \in Scanners \ {s} : Same(t)
      PROVE  \A t \in Scanners : Quietly(t)'
  <2>1. scan[s].pc # "idle"
    BY <1>6, SkipsAs, FailsAs DEF ScanWalks, ScanParses, process, ScanReturns, UpsertBatch, DeleteMissing,
       ScanClears, TouchLocalSourceScan, Scanning
  <2>2. \A t \in Scanners \ {s} : Quietly(t)'
    BY <1>0, <1>6, <2>1, OthersAreDisturbed
  <2>3. ScanReturns(s) \/ Skips(s) => Quietly(s)'
    <3>1. ScanReturns(s) \/ Skips(s) => \E rest : scan'[s] = Onward(rest)
      BY SkipsAs DEF ScanReturns, ShapeInv
    <3> QED
      BY <3>1, OnwardQuietly
  <2> QED
    BY <1>0, <1>6, <2>2, <2>3, WalksQuietly, ReadsQuietly, UpsertsQuietly, EvictsQuietly,
       ClearsQuietly, TouchesQuietly, FailsQuietly
<1>7. CASE \A t \in Scanners : Same(t)
  <2>1. ASSUME NEW s \in Scanners,
               \/ ScanWalks(s) \/ ScanParses(s) \/ process(s) \/ ScanReturns(s) \/ Skips(s) \/ StatementFails(s)
               \/ UpsertBatch(s) \/ DeleteMissing(s) \/ ScanClears(s) \/ TouchLocalSourceScan(s)
        PROVE  \A t \in Scanners : Quietly(t)'
    BY <1>6, <1>7, <2>1
  <2> QED
    BY <1>2, <1>3, <1>4, <1>5, <2>1, NextIs DEF Reads
<1> QED
  BY <1>5, <1>6, <1>7, OneMoves DEF Reads

-----------------------------------------------------------------------------
(* The library follows the disk, and the snapshot the library              *)

LEMMA LibraryInitially == LibInit => LibraryIInv
<1> SUFFICES ASSUME LibInit PROVE LibraryIInv
  OBVIOUS
<1> USE DEF LibInit
<1>1. ShapeInv
  <2>1. 0 \in 0 .. Cardinality(Files)
    BY FilesCounted
  <2>2. RowOf(StoredRow, 0) \in Storable
    BY <2>1, Posted
  <2> QED
    BY <2>2 DEF ShapeInv, NoScan, NoLook, NoEdit, NoFiles, ScanFields, LookFields, EditFields, Entries
<1>2. Stored /\ Locked /\ \A s \in Scanners : Carried(s)
  BY LibraryAssumption DEF Stored, Locked, Carried, Carries, NoScan, NoLook, NoFiles, Entries
<1>3. QuietInv
  BY DEF QuietInv, NoScan
<1>4. ClearedInv /\ BuiltInv
  BY DEF ClearedInv, BuiltInv, NoLook
<1> QED
  BY <1>1, <1>2, <1>3, <1>4, TypesAre DEF LibraryIInv

LEMMA LibraryStep == LibraryIInv /\ [LibNext]_libVars => LibraryIInv'
<1> SUFFICES ASSUME LibraryIInv, [LibNext]_libVars PROVE LibraryIInv'
  OBVIOUS
<1>1. ShapeInv /\ LibTypeOK /\ CarriedInv /\ QuietInv /\ ClearedInv /\ BuiltInv
  BY DEF LibraryIInv
<1>2. Stored /\ Locked /\ \A s \in Scanners : Carried(s)
  BY <1>1, TypesAre
<1>3. ASSUME LibNext PROVE LibraryIInv'
  <2>1. ShapeInv'
    BY <1>1, <1>3, ShapeKept
  <2>2. Stored' /\ Locked' /\ \A s \in Scanners : Carried(s)'
    BY <1>1, <1>2, <1>3, StoredKept, LockedKept, CarriedKept
  <2>3. (ShapeInv /\ Stored /\ Locked /\ (\A s \in Scanners : Carried(s)) => LibTypeOK /\ CarriedInv)'
    BY TypesAre, PTL
  <2>4. QuietInv'
    BY <1>1, <1>2, <1>3, QuietKept
  <2>5. ClearedInv' /\ BuiltInv'
    BY <1>1, <1>2, <1>3, SnapshotKept
  <2> QED
    BY <2>1, <2>2, <2>3, <2>4, <2>5 DEF LibraryIInv
<1>4. ASSUME UNCHANGED libVars PROVE LibraryIInv'
  <2>1. ShapeInv' /\ CarriedInv' /\ LibTypeOK'
    BY <1>1, <1>4 DEF libVars, ShapeInv, LibTypeOK, CarriedInv, Carries, Entries
  <2>2. QuietInv'
    <3>1. \A s \in Scanners : Quietly(s) => Quietly(s)'
      BY <1>4, UndisturbedAsBefore DEF libVars
    <3> QED
      BY <1>1, <3>1 DEF QuietInv, Quietly
  <2>3. ClearedInv' /\ BuiltInv'
    <3>1. UNCHANGED <<editor, scan, look, exportMu, exportCache, exportIndex, overlap, src, media>>
      BY <1>4 DEF libVars
    <3>2. ListAll' = ListAll /\ TheLibrary' = TheLibrary
      BY <3>1, ListedAs
    <3>3. (Announcing' => Announcing) /\ (Announcing => Announcing') /\ (Clearing' => Clearing)
      BY <1>1, <3>1, PlacesKept
    <3> QED
      BY <1>1, <3>1, <3>2, <3>3 DEF ClearedInv, BuiltInv
  <2> QED
    BY <2>1, <2>2, <2>3 DEF LibraryIInv
<1> QED
  BY <1>3, <1>4

LEMMA QuietIsExact == LibraryIInv => QuietScanIsExact
<1> SUFFICES ASSUME LibraryIInv, NEW s \in Scanners, scan[s].pc = "done", scan[s].quiet, ~scan[s].failed
             PROVE  LET i == scan[s].id IN
                      /\ Entries(i) = Readable \cap RootFiles[src[i].root] \cap Admits[src[i].filter]
                      /\ \A f \in Entries(i) : media[i][f].mtime = disk[f].ver
                      /\ src[i].count = Cardinality(Entries(i))
  BY DEF QuietScanIsExact
<1>0. PICK i : i = scan[s].id
  OBVIOUS
<1>1. Undisturbed(s)
  BY DEF LibraryIInv, QuietInv
<1>2. /\ \A f \in Found(i) : UpToDate(i, f)
      /\ Entries(i) \subseteq Found(i) /\ src[i].count = Cardinality(Found(i))
  BY <1>0, <1>1 DEF Undisturbed, Ahead
<1>3. Entries(i) = Found(i)
  BY <1>2 DEF UpToDate
<1> QED
  BY <1>0, <1>2, <1>3 DEF Found, UpToDate

LEMMA SnapshotIsTheLibrary == LibraryIInv => SnapshotFollowsLibrary
<1> SUFFICES ASSUME LibraryIInv, ~overlap, ~Announcing, exportMu = Nobody, exportCache # NoSnapshot
             PROVE  SnapshotFollowsLibrary
  BY DEF SnapshotFollowsLibrary
<1>1. exportCache = TheLibrary /\ exportIndex = exportCache
  BY DEF LibraryIInv, BuiltInv
<1>2. DOMAIN exportCache = Exported
  BY <1>1 DEF TheLibrary, applyGroupPrefix, ListAll
<1>3. Exported = {e \in Ids \X Files : e[1] \in Rows /\ src[e[1]].enabled /\ e[2] \in Entries(e[1])}
  BY DEF Exported, Entries
<1>4. ASSUME NEW e \in Exported
      PROVE  exportCache[e] = [entry |-> media[e[1]][e[2]], prefix |-> src[e[1]].prefix]
  BY <1>1, <1>4 DEF TheLibrary, applyGroupPrefix, ListAll, Exported, groupPrefixes
<1> QED
  BY <1>1, <1>2, <1>3, <1>4 DEF SnapshotFollowsLibrary

\* In every state a scan that had the library to itself has left exactly the files the
\* source admits, as they are on disk, and a snapshot that no announcement overtook is
\* the stored library of the enabled sources (Scan, InvalidateExport, exportSnapshot).
THEOREM LibraryFollows == LibSpec => []LibraryInv
<1>1. LibraryIInv => LibraryInv
  BY QuietIsExact, SnapshotIsTheLibrary DEF LibraryIInv, LibraryInv
<1> QED
  BY <1>1, LibraryInitially, LibraryStep, PTL DEF LibSpec

(***************************************************************************)
(* Remote series and movies.  What a listing offers can be played, and a   *)
(* request gives up only when no provider is left.  The lists a request    *)
(* folds are of any length: induction over their positions goes through    *)
(* the least position that fails, and the recursive functions of           *)
(* SeriesFiles exist by Recursion.                                         *)
(***************************************************************************)

-----------------------------------------------------------------------------
(* Recursion over lists, and what the operators built on it return. *)

\* Induction, for a set instead of a predicate.
LEMMA Induct ==
  ASSUME NEW T, 0 \in T, \A n \in Nat : n \in T => n + 1 \in T
  PROVE  \A n \in Nat : n \in T
<1> SUFFICES ASSUME {n \in Nat : n \notin T} # {} PROVE FALSE
  OBVIOUS
<1>1. PICK x \in {n \in Nat : n \notin T} : \A y \in {n \in Nat : n \notin T} : x <= y
  BY LeastOf
<1>2. x - 1 \in Nat /\ x - 1 \in T
  BY <1>1
<1> QED
  BY <1>1, <1>2

\* Recursion over the positions of a list: the function the definition chooses exists.
LEMMA Recursion ==
  ASSUME NEW S, NEW b \in S, NEW N \in Nat, NEW step \in [1..N -> [S -> S]]
  PROVE  \E f \in [0..N -> S] : f[0] = b /\ \A n \in 1..N : f[n] = step[n][f[n - 1]]
<1> DEFINE Upto(m, f) == f \in [0..m -> S] /\ \A n \in 0..m : f[n] = IF n = 0 THEN b ELSE step[n][f[n - 1]]
           T == {m \in Nat : m <= N => \E f : Upto(m, f)}
<1>1. 0 \in T
  <2>1. Upto(0, [n \in 0..0 |-> b])
    OBVIOUS
  <2> QED
    BY <2>1
<1>2. ASSUME NEW m \in Nat, m \in T PROVE m + 1 \in T
  <2>1. SUFFICES ASSUME m + 1 <= N PROVE \E f : Upto(m + 1, f)
    OBVIOUS
  <2>2. PICK f : Upto(m, f)
    BY <1>2, <2>1
  <2> DEFINE g == [n \in 0..(m + 1) |-> IF n = m + 1 THEN step[m + 1][f[m]] ELSE f[n]]
  <2>3. m + 1 \in 1..N /\ f[m] \in S /\ step[m + 1][f[m]] \in S
    BY <2>1, <2>2
  <2>4. g \in [0..(m + 1) -> S]
    BY <2>2, <2>3
  <2>5. ASSUME NEW n \in 0..(m + 1) PROVE g[n] = IF n = 0 THEN b ELSE step[n][g[n - 1]]
    <3>1. CASE n = m + 1
      BY <2>3, <3>1
    <3>2. CASE n # m + 1
      <4>1. n \in 0..m /\ g[n] = f[n] /\ (n # 0 => n - 1 \in 0..m /\ g[n - 1] = f[n - 1])
        BY <3>2
      <4> QED
        BY <2>2, <4>1
    <3> QED
      BY <3>1, <3>2
  <2> QED
    BY <2>4, <2>5
<1> HIDE DEF T
<1>3. N \in T
  BY <1>1, <1>2, Induct
<1>4. PICK f : Upto(N, f)
  BY <1>3 DEF T
<1>5. f[0] = b /\ \A n \in 1..N : f[n] = step[n][f[n - 1]]
  BY <1>4
<1> QED
  BY <1>4, <1>5

\* Only keeps the elements of s that are in T, each of them, and no others.
LEMMA OnlyKeeps ==
  ASSUME NEW X, NEW s \in Seq(X), NEW T
  PROVE  /\ Only(s, T) \in Seq(X \cap T)
         /\ \A i \in 1..Len(s) : s[i] \in T => \E j \in 1..Len(Only(s, T)) : Only(s, T)[j] = s[i]
<1> DEFINE S == Seq(X)
           N == Len(s)
           step == [n \in 1..N |-> [q \in S |-> IF s[n] \in T THEN Append(q, s[n]) ELSE q]]
           F(f) == f = [n \in 0..N |-> IF n = 0 THEN <<>> ELSE IF s[n] \in T THEN Append(f[n - 1], s[n]) ELSE f[n - 1]]
<1>1. step \in [1..N -> [S -> S]] /\ <<>> \in S /\ N \in Nat
  OBVIOUS
<1>2. \E g \in [0..N -> S] : g[0] = <<>> /\ \A n \in 1..N : g[n] = step[n][g[n - 1]]
  <2>1. N \in Nat
    OBVIOUS
  <2> HIDE DEF step, S, N
  <2>2. \A st \in [1..N -> [S -> S]], b \in S : \E f \in [0..N -> S] : f[0] = b /\ \A n \in 1..N : f[n] = st[n][f[n - 1]]
    BY SMTT(40), <2>1, Recursion
  <2> QED
    BY <1>1, <2>2
<1>3. PICK g \in [0..N -> S] : g[0] = <<>> /\ \A n \in 1..N : g[n] = step[n][g[n - 1]]
  BY <1>2
<1>4. F(g)
  <2>1. ASSUME NEW n \in 0..N
        PROVE  g[n] = IF n = 0 THEN <<>> ELSE IF s[n] \in T THEN Append(g[n - 1], s[n]) ELSE g[n - 1]
    <3>1. n # 0 => n \in 1..N /\ n - 1 \in 0..N /\ g[n - 1] \in S
      BY <1>1, <1>3
    <3> QED
      BY <1>3, <3>1
  <2> HIDE DEF S, N
  <2> QED
    BY <1>3, <2>1
<1> DEFINE h == CHOOSE f : F(f)
<1>5. F(h)
  BY <1>4
<1>6. Only(s, T) = h[Len(s)]
  BY DEF Only
<1> HIDE DEF h
<1>7. h[0] = <<>> /\ \A n \in 1..N : h[n] = IF s[n] \in T THEN Append(h[n - 1], s[n]) ELSE h[n - 1]
  <2>1. N \in Nat
    OBVIOUS
  <2>2. \A n \in 0..N : h[n] = IF n = 0 THEN <<>> ELSE IF s[n] \in T THEN Append(h[n - 1], s[n]) ELSE h[n - 1]
    <3> HIDE DEF N
    <3> QED
      BY <1>5
  <2> HIDE DEF N
  <2> QED
    BY <2>1, <2>2
<1> DEFINE Has(q, x) == \E j \in 1..Len(q) : q[j] = x
           Right(n) == h[n] \in Seq(X \cap T) /\ \A i \in 1..n : s[i] \in T => Has(h[n], s[i])
           K == {n \in Nat : n <= Len(s) => Right(n)}
<1>8. \A n \in Nat : n \in K
  <2>1. 0 \in K
    <3>1. h[0] = <<>>
      BY <1>7
    <3>2. Right(0)
      BY <3>1
    <3> QED
      BY <3>2
  <2>2. ASSUME NEW n \in Nat, n \in K PROVE n + 1 \in K
    <3>1. SUFFICES ASSUME n + 1 <= Len(s) PROVE Right(n + 1)
      OBVIOUS
    <3>2. /\ n + 1 \in 1..Len(s) /\ (n + 1) - 1 = n /\ n <= Len(s) /\ s[n + 1] \in X
          /\ h[n] \in Seq(X \cap T) /\ \A i \in 1..n : s[i] \in T => Has(h[n], s[i])
      <4> HIDE DEF Right
      <4>1. n + 1 \in 1..Len(s) /\ (n + 1) - 1 = n /\ n <= Len(s) /\ s[n + 1] \in X
        BY <3>1
      <4>2. Right(n)
        BY <2>2, <4>1
      <4> QED
        BY <4>1, <4>2 DEF Right
    <3>3. CASE s[n + 1] \notin T
      <4>1. h[n + 1] = h[n]
        BY <1>7, <3>2, <3>3
      <4>2. \A i \in 1..(n + 1) : s[i] \in T => i \in 1..n
        BY <3>3
      <4> HIDE DEF Has
      <4> QED
        BY <3>2, <4>1, <4>2
    <3>4. CASE s[n + 1] \in T
      <4>1. h[n + 1] = Append(h[n], s[n + 1])
        BY <1>7, <3>2, <3>4
      <4>2. h[n + 1] \in Seq(X \cap T)
        BY <3>2, <3>4, <4>1
      <4>3. \A x : Has(h[n], x) => Has(h[n + 1], x)
        BY <3>2, <4>1
      <4>4. Has(h[n + 1], s[n + 1])
        <5>1. Len(h[n + 1]) = Len(h[n]) + 1 /\ h[n + 1][Len(h[n]) + 1] = s[n + 1] /\ Len(h[n]) \in Nat
          BY <3>2, <4>1
        <5> QED
          BY <5>1
      <4>5. \A i \in 1..(n + 1) : i \in 1..n \/ i = n + 1
        OBVIOUS
      <4> HIDE DEF Has
      <4> QED
        BY <3>2, <4>2, <4>3, <4>4, <4>5
    <3> QED
      BY <3>3, <3>4
  <2> HIDE DEF K
  <2> QED
    BY <2>1, <2>2, Induct
<1>9. Right(Len(s))
  <2>1. Len(s) \in Nat
    OBVIOUS
  <2> HIDE DEF Right
  <2> QED
    BY <1>8, <2>1
<1> QED
  BY <1>6, <1>9


\* mergeTrees holds every episode answered with, by the first that has it.
LEMMA MergeIsUnion ==
  ASSUME NEW got, Len(got) \in Nat
  PROVE  /\ \A n \in DOMAIN mergeTrees(got) : \E k \in 1..Len(got) :
              /\ n \in DOMAIN entriesOf(got[k]) /\ mergeTrees(got)[n] = entriesOf(got[k])[n]
              /\ \A j \in 1..(k - 1) : n \notin DOMAIN entriesOf(got[j])
         /\ \A k \in 1..Len(got) : DOMAIN entriesOf(got[k]) \subseteq DOMAIN mergeTrees(got)
<1> DEFINE N == Len(got)
           E(k) == entriesOf(got[k])
           U == UNION {DOMAIN E(k) : k \in 1..N}
           V == UNION {{E(k)[n] : n \in DOMAIN E(k)} : k \in 1..N}
           S == UNION {[D -> V] : D \in SUBSET U}
           step == [k \in 1..N |-> [f \in S |-> orElse(f, E(k))]]
           F(f) == f = [k \in 0..N |-> IF k = 0 THEN NoMapping ELSE orElse(f[k - 1], entriesOf(got[k]))]
<1>1. step \in [1..N -> [S -> S]] /\ NoMapping \in S
  <2>1. ASSUME NEW k \in 1..N, NEW f \in S PROVE orElse(f, E(k)) \in S
    <3> HIDE DEF E, N
    <3>1. DOMAIN E(k) \in SUBSET U /\ \A n \in DOMAIN E(k) : E(k)[n] \in V
      OBVIOUS
    <3> HIDE DEF U, V
    <3>2. PICK D \in SUBSET U : f \in [D -> V]
      OBVIOUS
    <3>3. D \cup DOMAIN E(k) \in SUBSET U
      BY <3>1
    <3>4. orElse(f, E(k)) \in [D \cup DOMAIN E(k) -> V]
      BY <3>1, <3>2 DEF orElse
    <3> QED
      BY <3>3, <3>4
  <2>2. NoMapping \in [{} -> V]
    BY DEF NoMapping
  <2>3. NoMapping \in S
    <3> HIDE DEF U, V
    <3> QED
      BY <2>2
  <2> HIDE DEF S, E
  <2> QED
    BY <2>1, <2>3
<1>2. \E g \in [0..N -> S] : g[0] = NoMapping /\ \A k \in 1..N : g[k] = step[k][g[k - 1]]
  <2>1. N \in Nat
    OBVIOUS
  <2> HIDE DEF step, S, N
  <2>2. \A st \in [1..N -> [S -> S]], b \in S : \E f \in [0..N -> S] : f[0] = b /\ \A n \in 1..N : f[n] = st[n][f[n - 1]]
    BY <2>1, Recursion
  <2> QED
    BY <1>1, <2>2
<1>3. PICK g \in [0..N -> S] : g[0] = NoMapping /\ \A k \in 1..N : g[k] = step[k][g[k - 1]]
  BY <1>2
<1>4. F(g)
  <2>1. ASSUME NEW k \in 0..N
        PROVE  g[k] = IF k = 0 THEN NoMapping ELSE orElse(g[k - 1], entriesOf(got[k]))
    <3>0. N \in Nat
      OBVIOUS
    <3> HIDE DEF S, N
    <3>1. k # 0 => k \in 1..N /\ k - 1 \in 0..N /\ g[k - 1] \in S
      BY <3>0
    <3> QED
      BY <1>3, <3>1
  <2> HIDE DEF S, N
  <2> QED
    BY <1>3, <2>1
<1> DEFINE h == CHOOSE f : F(f)
<1>5. F(h)
  BY <1>4
<1>6. mergeTrees(got) = h[N]
  BY DEF mergeTrees
<1> HIDE DEF h
<1>7. h[0] = NoMapping /\ \A k \in 1..N : h[k] = orElse(h[k - 1], E(k))
  <2>1. N \in Nat
    OBVIOUS
  <2>2. \A k \in 0..N : h[k] = IF k = 0 THEN NoMapping ELSE orElse(h[k - 1], entriesOf(got[k]))
    <3> HIDE DEF N
    <3> QED
      BY <1>5
  <2> HIDE DEF N
  <2> QED
    BY <2>1, <2>2
<1> DEFINE First(n, k) == n \in DOMAIN E(k) /\ \A j \in 1..(k - 1) : n \notin DOMAIN E(j)
           Right(m) == /\ \A n \in DOMAIN h[m] : \E k \in 1..m : First(n, k) /\ h[m][n] = E(k)[n]
                       /\ \A k \in 1..m : DOMAIN E(k) \subseteq DOMAIN h[m]
           K == {m \in Nat : m <= N => Right(m)}
<1>8. \A m \in Nat : m \in K
  <2>1. 0 \in K
    <3>1. h[0] = NoMapping /\ DOMAIN NoMapping = {}
      BY <1>7 DEF NoMapping
    <3>2. Right(0)
      BY <3>1
    <3> QED
      BY <3>2
  <2>2. ASSUME NEW m \in Nat, m \in K PROVE m + 1 \in K
    <3>1. SUFFICES ASSUME m + 1 <= N PROVE Right(m + 1)
      OBVIOUS
    <3>2. m + 1 \in 1..N /\ (m + 1) - 1 = m /\ m <= N
      <4>1. N \in Nat
        OBVIOUS
      <4> HIDE DEF N
      <4> QED
        BY <3>1, <4>1
    <3>3. Right(m)
      <4> HIDE DEF Right
      <4> QED
        BY <2>2, <3>2
    <3>4. h[m + 1] = orElse(h[m], E(m + 1))
      <4> HIDE DEF E
      <4> QED
        BY <1>7, <3>2
    <3> HIDE DEF E
    <3>5. /\ DOMAIN h[m + 1] = DOMAIN h[m] \cup DOMAIN E(m + 1)
          /\ \A n \in DOMAIN h[m] : h[m + 1][n] = h[m][n]
          /\ \A n \in DOMAIN E(m + 1) \ DOMAIN h[m] : h[m + 1][n] = E(m + 1)[n]
      BY <3>4 DEF orElse
    <3>6. ASSUME NEW n \in DOMAIN h[m + 1]
          PROVE  \E k \in 1..(m + 1) : First(n, k) /\ h[m + 1][n] = E(k)[n]
      <4>1. CASE n \in DOMAIN h[m]
        <5>1. PICK k \in 1..m : First(n, k) /\ h[m][n] = E(k)[n]
          BY <3>3, <4>1
        <5>2. k \in 1..(m + 1)
          OBVIOUS
        <5> HIDE DEF First
        <5> QED
          BY <3>5, <4>1, <5>1, <5>2
      <4>2. CASE n \notin DOMAIN h[m]
        <5>1. n \in DOMAIN E(m + 1) /\ h[m + 1][n] = E(m + 1)[n]
          BY <3>5, <4>2
        <5>2. First(n, m + 1)
          BY <3>2, <3>3, <4>2, <5>1
        <5>3. m + 1 \in 1..(m + 1)
          OBVIOUS
        <5> HIDE DEF First
        <5> QED
          BY <5>1, <5>2, <5>3
      <4> QED
        BY <4>1, <4>2
    <3>7. ASSUME NEW k \in 1..(m + 1) PROVE DOMAIN E(k) \subseteq DOMAIN h[m + 1]
      <4>1. k \in 1..m \/ k = m + 1
        OBVIOUS
      <4> QED
        BY <3>3, <3>5, <4>1
    <3> QED
      BY <3>6, <3>7
  <2> HIDE DEF K
  <2> QED
    BY <2>1, <2>2, Induct
<1>9. Right(N)
  <2>1. N \in Nat
    OBVIOUS
  <2> HIDE DEF Right, N
  <2> QED
    BY <1>8, <2>1
<1> QED
  BY <1>6, <1>9


-----------------------------------------------------------------------------
(* The invariant: requests in progress, and what they hold. *)

FilePCs == {"idle", "origin", "check", "add", "fetch", "persist", "missed", "try", "tryadd", "asked", "streaming",
            "mark", "fallback", "render"}
AtOrigin == {"check", "add", "fetch", "persist", "missed", "try", "tryadd", "asked", "streaming", "mark"}
Usable(ch) == {i \in DOMAIN StreamsOf(ch) :
  /\ StreamsOf(ch)[i].src \in Providers
  /\ ch = "series" => <<Url[StreamsOf(ch)[i].src], StreamsOf(ch)[i].id>> \in Series}

\* The lists the providers have published so far.
Published == UNION {{[of |-> x, tree |-> Trees[x][i]] : i \in 1..upstream[x]} : x \in Series}

FileRecords(q) == [pc : FilePCs, kind : {"", "info", "episode", "movie"}, ep : {q.ep}, todo : Seq(Usable(channelOf(q.kind))),
                   cur : Nat, tries : Nat, asked : Nat, known : {q.known}, got : Seq(Published), cached : {q.cached}, tried : SUBSET Nat,
                   holds : BOOLEAN, reply : {q.reply}]

SourceOf(q) == StreamsOf(channelOf(q.kind))[q.cur].src
GoodRecord(q) ==
  /\ q \in FileRecords(q)
  /\ q.holds <=> q.kind \in {"episode", "movie"}
  /\ q.pc = "idle" <=> q.kind = ""
  /\ q.pc \in AtOrigin => q.cur \in Usable(channelOf(q.kind))
  /\ q.pc \in {"check", "add", "fetch", "persist"} => q.kind # "movie"
  /\ q.pc = "persist" => Len(q.got) > 0 /\ q.got[Len(q.got)].of = SeriesOf(q)
  /\ q.pc \in AtOrigin \ {"mark"} => q.tries <= RemoteFileRetries
  /\ q.pc = "mark" => q.tries = RemoteFileRetries + 1
RequestOK(r) == GoodRecord(file[r])

\* The answers of a request that are stored: all but the one it has just received.
isStored(q, k) == k < Len(q.got) \/ q.pc # "persist"
RowsKept(x) == Numbers(numbered(TreeOf(x))) \subseteq DOMAIN mapped[x[1]]

\* As long as the providers keep their lists and the configuration is not saved, what
\* was asked for is stored, and stays so.
StoredInv ==
  ~relisted =>
    /\ \A x \in Series : upstream[x] = 1
    /\ \A r \in FileClients : \A k \in 1..Len(file[r].got) : isStored(file[r], k) => RowsKept(file[r].got[k].of)
    /\ merged # NoTree => \A n \in DOMAIN merged : merged[n].by \in Series => RowsKept(merged[n].by)

\* What a delivery that nothing disturbed still has before it, and what it has behind it.
Accounted(r, i) ==
  LET q == file[r]
      ch == channelOf(q.kind)
  IN \/ i \in q.tried \/ StreamsOf(ch)[i].blocked \/ StreamsOf(ch)[i].id = "" \/ <<ch, i>> \in dead
     \/ \E j \in 1..Len(q.todo) : q.todo[j] = i
     \/ q.pc \in AtOrigin /\ i = q.cur
WalkInv ==
  fileOps = 0 => \A r \in FileClients : file[r].holds => \A i \in DOMAIN StreamsOf(channelOf(file[r].kind)) : Accounted(r, i)

FallbackInv == \A r \in FileClients : file[r].pc = "fallback" => file[r].todo = <<>> /\ file[r].holds

FilesBasics ==
  /\ upstream \in [Series -> Nat] /\ \A x \in Series : upstream[x] \in 1..Len(Trees[x])
  /\ preferred \in [{"series", "movie"} -> Nat]
  /\ \A ch \in {"series", "movie"} : preferred[ch] = 0 \/ preferred[ch] < Len(StreamsOf(ch))
  /\ conns \in [Providers -> Nat] /\ slots \in Nat
  /\ DOMAIN mapped = Urls /\ DOMAIN file = FileClients /\ relisted \in BOOLEAN
  /\ fileOps \in Nat /\ filesStarted \in Nat

FilesIInv ==
  /\ FilesBasics /\ FilesTypeOK /\ OneListPerSeries /\ StoredInv /\ WalkInv /\ FallbackInv
  /\ \A r \in FileClients : RequestOK(r)


-----------------------------------------------------------------------------
(* The lists a request starts with. *)

LEMMA StreamsShape ==
  ASSUME NEW ch \in {"series", "movie"}
  PROVE  /\ StreamsOf(ch) \in Seq(Streams) /\ Len(StreamsOf(ch)) \in Nat
         /\ DOMAIN StreamsOf(ch) = 1..Len(StreamsOf(ch))
<1>1. StreamsOf(ch) \in Seq(Streams)
  BY SeriesAssumption DEF SeriesAssumption, StreamsOf
<1> QED
  BY <1>1

LEMMA ModOnce ==
  ASSUME NEW N \in Nat \ {0}, NEW x \in 0 .. N-1
  PROVE  (N + x) % N = x
  BY N + x = 1 * N + x, ModUnique

LEMMA RotatedIsAll ==
  ASSUME FilesBasics, NEW ch \in {"series", "movie"}
  PROVE  /\ Rotated(ch) \in Seq(DOMAIN StreamsOf(ch))
         /\ \A i \in DOMAIN StreamsOf(ch) : \E j \in 1..Len(Rotated(ch)) : Rotated(ch)[j] = i
<1> DEFINE total == Len(StreamsOf(ch))
           p == preferred[ch]
           R == [i \in 1..total |-> ((p + i - 1) % total) + 1]
<1>1. total \in Nat /\ DOMAIN StreamsOf(ch) = 1..total /\ p \in Nat /\ (p = 0 \/ p < total)
  BY StreamsShape DEF FilesBasics
<1>2. Rotated(ch) = R
  BY DEF Rotated
<1> HIDE DEF total, p
<1>3. \A i \in 1..total : (p + i - 1) % total \in 0..(total - 1)
  <2>1. ASSUME NEW i \in 1..total PROVE (p + i - 1) % total \in 0..(total - 1)
    <3>1. total \in Nat \ {0} /\ p + i - 1 \in Int
      BY <1>1
    <3> QED
      BY <3>1, DivMod
  <2> QED
    BY <2>1
<1>4. R \in Seq(1..total) /\ Len(R) = total
  <2>1. \A i \in 1..total : ((p + i - 1) % total) + 1 \in 1..total
    BY <1>1, <1>3
  <2> QED
    BY <1>1, <2>1
<1>5. ASSUME NEW i \in 1..total PROVE \E j \in 1..total : R[j] = i
  <2> DEFINE j == IF i > p THEN i - p ELSE i - p + total
  <2>1. j \in 1..total /\ total \in Nat \ {0} /\ i - 1 \in 0..(total - 1) /\ p + j - 1 \in Int
    BY <1>1
  <2>2. p + j - 1 = i - 1 \/ p + j - 1 = total + (i - 1)
    BY <1>1
  <2> HIDE DEF j
  <2>3. (p + j - 1) % total = i - 1
    <3>1. CASE p + j - 1 = i - 1
      BY <2>1, <3>1, ModSmall
    <3>2. CASE p + j - 1 = total + (i - 1)
      BY <2>1, <3>2, ModOnce
    <3> QED
      BY <2>2, <3>1, <3>2
  <2> QED
    BY <2>1, <2>3
<1> QED
  BY <1>1, <1>2, <1>4, <1>5

\* What candidates lists.
LEMMA CandidatesAreAlive ==
  ASSUME FilesBasics, NEW ch \in {"series", "movie"}
  PROVE  /\ candidates(ch) \in Seq(alive(ch))
         /\ \A i \in alive(ch) : \E j \in 1..Len(candidates(ch)) : candidates(ch)[j] = i
<1> DEFINE X == DOMAIN StreamsOf(ch)
           R == Rotated(ch)
           T == alive(ch)
<1>1. R \in Seq(X) /\ \A i \in X : \E j \in 1..Len(R) : R[j] = i
  BY RotatedIsAll
<1>2. candidates(ch) = Only(R, T) /\ X \cap T = T
  BY DEF candidates, alive
<1> HIDE DEF X, R, T
<1>3. /\ Only(R, T) \in Seq(X \cap T)
      /\ \A i \in 1..Len(R) : R[i] \in T => \E j \in 1..Len(Only(R, T)) : Only(R, T)[j] = R[i]
  BY <1>1, OnlyKeeps
<1>4. \A i \in T : \E j \in 1..Len(Only(R, T)) : Only(R, T)[j] = i
  BY <1>1, <1>2, <1>3
<1> QED
  BY <1>2, <1>3, <1>4 DEF T

Asked == {i \in alive("series") : SeriesStreams[i].id # ""}
LEMMA OriginsAreAsked ==
  ASSUME FilesBasics
  PROVE  /\ remoteSeriesOrigins \in Seq(Asked)
         /\ \A i \in Asked : \E j \in 1..Len(remoteSeriesOrigins) : remoteSeriesOrigins[j] = i
<1> DEFINE X == alive("series")
           R == candidates("series")
           T == {i \in DOMAIN SeriesStreams : SeriesStreams[i].id # ""}
<1>1. R \in Seq(X) /\ \A i \in X : \E j \in 1..Len(R) : R[j] = i
  BY CandidatesAreAlive
<1>2. remoteSeriesOrigins = Only(R, T) /\ X \cap T = Asked
  BY DEF remoteSeriesOrigins, alive, Asked, StreamsOf
<1> HIDE DEF X, R, T
<1>3. /\ Only(R, T) \in Seq(X \cap T)
      /\ \A i \in 1..Len(R) : R[i] \in T => \E j \in 1..Len(Only(R, T)) : Only(R, T)[j] = R[i]
  BY SMTT(40), <1>1, OnlyKeeps
<1>4. \A i \in Asked : \E j \in 1..Len(Only(R, T)) : Only(R, T)[j] = i
  BY <1>1, <1>2, <1>3
<1> QED
  BY <1>2, <1>3, <1>4

\* A wider set has more sequences.
LEMMA SeqWider ==
  ASSUME NEW A, NEW B, A \subseteq B, NEW s \in Seq(A)
  PROVE  s \in Seq(B)
  OBVIOUS

LEMMA ListsAreUsable ==
  ASSUME FilesBasics
  PROVE  /\ remoteSeriesOrigins \in Seq(Usable("series"))
         /\ candidates("movie") \in Seq(Usable("movie"))
<1>1. Asked \subseteq Usable("series")
  BY SeriesAssumption DEF Asked, Usable, alive, StreamsOf, SeriesAssumption
<1>2. alive("movie") \subseteq Usable("movie")
  BY SeriesAssumption DEF Usable, alive, StreamsOf, SeriesAssumption
<1>3. remoteSeriesOrigins \in Seq(Asked)
  BY OriginsAreAsked
<1>4. candidates("movie") \in Seq(alive("movie"))
  BY CandidatesAreAlive
<1> QED
  BY <1>1, <1>2, <1>3, <1>4, SeqWider


-----------------------------------------------------------------------------
(* Each step of a request leaves it in order, and the others alone. *)

Frame(r) ==
  /\ upstream' = upstream /\ relisted' = relisted /\ fileOps' = fileOps /\ preferred' = preferred
  /\ DOMAIN file' = FileClients /\ \A x \in FileClients \ {r} : file'[x] = file[x]

LEMMA ReplaceFrame ==
  ASSUME FilesBasics, NEW r \in FileClients, NEW q, NEW to, At(r, to), file' = [file EXCEPT ![r] = q]
  PROVE  Frame(r) /\ file'[r] = q
  BY DEF FilesBasics, At, Frame

LEMMA EmptyList ==
  ASSUME NEW S
  PROVE  <<>> \in Seq(S)
  OBVIOUS

LEMMA IdleIsGood ==
  ASSUME NEW q, NEW x, q = [NoFile EXCEPT !.reply = x]
  PROVE  GoodRecord(q)
<1>1. <<>> \in Seq(Usable(channelOf(q.kind))) /\ <<>> \in Seq(Published)
  BY EmptyList
<1>2. q \in FileRecords(q)
  BY <1>1 DEF FileRecords, FilePCs, NoFile
<1>3. q.pc = "idle" /\ q.kind = "" /\ q.holds = FALSE
  BY DEF NoFile
<1> QED
  BY <1>2, <1>3 DEF GoodRecord, AtOrigin

LEMMA NoFileIsGood ==
  GoodRecord(NoFile) /\ NoFile.pc = "idle" /\ NoFile.kind = "" /\ NoFile.holds = FALSE /\ NoFile.got = <<>>
<1>1. <<>> \in Seq(Usable(channelOf(NoFile.kind))) /\ <<>> \in Seq(Published)
  BY EmptyList
<1>2. NoFile \in FileRecords(NoFile)
  BY <1>1 DEF FileRecords, FilePCs, NoFile
<1>3. NoFile.pc = "idle" /\ NoFile.kind = "" /\ NoFile.holds = FALSE /\ NoFile.got = <<>>
  BY DEF NoFile
<1> QED
  BY <1>2, <1>3 DEF GoodRecord, AtOrigin

\* A request that begins a walk over the streams it was given.
LEMMA StartIsGood ==
  ASSUME NEW kind \in {"info", "episode", "movie"}, NEW ep, NEW known, NEW todo \in Seq(Usable(channelOf(kind))), NEW cached,
         NEW to \in {"origin", "fallback"}, NEW holds \in BOOLEAN, holds <=> kind \in {"episode", "movie"}, NEW q,
         q = [pc |-> to, kind |-> kind, ep |-> ep, todo |-> todo, cur |-> 0, tries |-> 0, asked |-> 0, known |-> known, got |-> <<>>,
              cached |-> cached, tried |-> {}, holds |-> holds, reply |-> ""]
  PROVE  GoodRecord(q)
<1>1. <<>> \in Seq(Published)
  BY EmptyList
<1>2. q \in FileRecords(q)
  BY <1>1 DEF FileRecords, FilePCs
<1> QED
  BY <1>2 DEF GoodRecord, AtOrigin

LEMMA InfoStarts ==
  ASSUME FilesIInv, NEW r \in FileClients, buildRemoteSeriesInfo(r)
  PROVE  Frame(r) /\ GoodRecord(file'[r])
<1>1. At(r, "idle") /\ FilesBasics
  BY DEF buildRemoteSeriesInfo, FileStarts, FilesIInv
<1>2. ASSUME NEW q, NEW x, q = [NoFile EXCEPT !.reply = x], file' = [file EXCEPT ![r] = q]
      PROVE  Frame(r) /\ GoodRecord(file'[r])
  BY <1>1, <1>2, IdleIsGood, ReplaceFrame
<1>3. ASSUME NEW q, q = [NoFile EXCEPT !.pc = "origin", !.kind = "info", !.todo = remoteSeriesOrigins, !.cached = merged],
             file' = [file EXCEPT ![r] = q]
      PROVE  Frame(r) /\ GoodRecord(file'[r])
  <2>1. q = [pc |-> "origin", kind |-> "info", ep |-> 0, todo |-> remoteSeriesOrigins, cur |-> 0, tries |-> 0, asked |-> 0,
             known |-> {}, got |-> <<>>, cached |-> merged, tried |-> {}, holds |-> FALSE, reply |-> ""]
    BY <1>3 DEF NoFile
  <2>2. remoteSeriesOrigins \in Seq(Usable(channelOf("info")))
    BY <1>1, ListsAreUsable DEF channelOf
  <2>3. GoodRecord(q)
    BY <2>1, <2>2, StartIsGood
  <2> QED
    BY <1>1, <1>3, <2>3, ReplaceFrame
<1> QED
  BY <1>2, <1>3 DEF buildRemoteSeriesInfo

LEMMA EpisodeStarts ==
  ASSUME FilesIInv, NEW r \in FileClients, NEW ep \in Episodes, serveSeriesEpisode(r, ep)
  PROVE  Frame(r) /\ GoodRecord(file'[r])
<1>1. At(r, "idle") /\ FilesBasics
  BY DEF serveSeriesEpisode, FileStarts, FilesIInv
<1>2. ASSUME NEW q, NEW x, q = [NoFile EXCEPT !.reply = x], file' = [file EXCEPT ![r] = q]
      PROVE  Frame(r) /\ GoodRecord(file'[r])
  BY <1>1, <1>2, IdleIsGood, ReplaceFrame
<1> DEFINE new == [NoFile EXCEPT !.kind = "episode", !.ep = ep, !.holds = TRUE, !.known = GetSeriesEpisodeSources(ep)]
<1>3. ASSUME NEW q, q = [new EXCEPT !.pc = "fallback"], file' = [file EXCEPT ![r] = q]
      PROVE  Frame(r) /\ GoodRecord(file'[r])
  <2>1. q = [pc |-> "fallback", kind |-> "episode", ep |-> ep, todo |-> <<>>, cur |-> 0, tries |-> 0, asked |-> 0,
             known |-> GetSeriesEpisodeSources(ep), got |-> <<>>, cached |-> NoTree, tried |-> {}, holds |-> TRUE, reply |-> ""]
    BY <1>3 DEF NoFile
  <2>2. <<>> \in Seq(Usable(channelOf("episode")))
    OBVIOUS
  <2>3. GoodRecord(q)
    BY <2>1, <2>2, StartIsGood
  <2> QED
    BY <1>1, <1>3, <2>3, ReplaceFrame
<1>4. ASSUME NEW q, q = [new EXCEPT !.pc = "origin", !.todo = remoteSeriesOrigins], file' = [file EXCEPT ![r] = q]
      PROVE  Frame(r) /\ GoodRecord(file'[r])
  <2>1. q = [pc |-> "origin", kind |-> "episode", ep |-> ep, todo |-> remoteSeriesOrigins, cur |-> 0, tries |-> 0, asked |-> 0,
             known |-> GetSeriesEpisodeSources(ep), got |-> <<>>, cached |-> NoTree, tried |-> {}, holds |-> TRUE, reply |-> ""]
    BY <1>4 DEF NoFile
  <2>2. remoteSeriesOrigins \in Seq(Usable(channelOf("episode")))
    BY <1>1, ListsAreUsable DEF channelOf
  <2>3. GoodRecord(q)
    BY <2>1, <2>2, StartIsGood
  <2> QED
    BY <1>1, <1>4, <2>3, ReplaceFrame
<1> QED
  BY <1>2, <1>3, <1>4 DEF serveSeriesEpisode

LEMMA MovieStarts ==
  ASSUME FilesIInv, NEW r \in FileClients, serveVODChannel(r)
  PROVE  Frame(r) /\ GoodRecord(file'[r])
<1>1. At(r, "idle") /\ FilesBasics
  BY DEF serveVODChannel, FileStarts, FilesIInv
<1>2. ASSUME NEW q, NEW x, q = [NoFile EXCEPT !.reply = x], file' = [file EXCEPT ![r] = q]
      PROVE  Frame(r) /\ GoodRecord(file'[r])
  BY <1>1, <1>2, IdleIsGood, ReplaceFrame
<1>3. ASSUME NEW q, q = [NoFile EXCEPT !.pc = "origin", !.kind = "movie", !.holds = TRUE, !.todo = candidates("movie")],
             file' = [file EXCEPT ![r] = q]
      PROVE  Frame(r) /\ GoodRecord(file'[r])
  <2>1. q = [pc |-> "origin", kind |-> "movie", ep |-> 0, todo |-> candidates("movie"), cur |-> 0, tries |-> 0, asked |-> 0,
             known |-> {}, got |-> <<>>, cached |-> NoTree, tried |-> {}, holds |-> TRUE, reply |-> ""]
    BY <1>3 DEF NoFile
  <2>2. candidates("movie") \in Seq(Usable(channelOf("movie")))
    BY <1>1, ListsAreUsable DEF channelOf
  <2>3. GoodRecord(q)
    BY <2>1, <2>2, StartIsGood
  <2> QED
    BY <1>1, <1>3, <2>3, ReplaceFrame
<1> QED
  BY <1>2, <1>3 DEF serveVODChannel


\* The step of a request that changes only where it stands.
LEMMA GoesIsGood ==
  ASSUME FilesIInv, NEW r \in FileClients, NEW from, At(r, from), NEW to \in FilePCs, Goes(r, to),
         to \notin {"idle", "persist", "mark"}, from # "idle", from # "mark", to \in AtOrigin => from \in AtOrigin,
         to \in {"check", "add", "fetch"} => from \in {"check", "add", "fetch"}
  PROVE  Frame(r) /\ GoodRecord(file'[r])
<1>1. FilesBasics /\ GoodRecord(file[r]) /\ file[r].pc = from
  BY DEF FilesIInv, RequestOK, At
<1>2. ASSUME NEW q, q = [file[r] EXCEPT !.pc = to] PROVE GoodRecord(q)
  <2>1. file[r] \in FileRecords(file[r])
    BY <1>1 DEF GoodRecord
  <2>2. /\ q.pc = to /\ q.kind = file[r].kind /\ q.cur = file[r].cur /\ q.got = file[r].got
        /\ q.holds = file[r].holds /\ q.tries = file[r].tries
    BY <1>2, <2>1 DEF FileRecords
  <2>3. q \in FileRecords(q)
    BY <1>2, <2>1 DEF FileRecords
  <2> QED
    BY <1>1, <2>2, <2>3 DEF GoodRecord, AtOrigin
<1>3. file' = [file EXCEPT ![r] = [file[r] EXCEPT !.pc = to]]
  BY DEF Goes
<1> QED
  BY <1>1, <1>2, <1>3, ReplaceFrame

LEMMA HeadTail ==
  ASSUME NEW S, NEW s \in Seq(S), s # <<>>
  PROVE  Head(s) \in S /\ Tail(s) \in Seq(S)
  OBVIOUS

LEMMA WalkIsGood ==
  ASSUME FilesIInv, NEW r \in FileClients, NextOrigin(r)
  PROVE  Frame(r) /\ GoodRecord(file'[r])
<1> DEFINE old == file[r]
           i == Head(old.todo)
           taken == [old EXCEPT !.cur = i, !.todo = Tail(@), !.tries = 0, !.asked = 0]
<1>1. FilesBasics /\ GoodRecord(old) /\ old.pc = "origin" /\ At(r, "origin")
  BY DEF FilesIInv, RequestOK, At, NextOrigin
<1>2. CASE Goes(r, "render") \/ Goes(r, "fallback")
  BY <1>1, <1>2, GoesIsGood DEF FilePCs, AtOrigin
<1>3. ASSUME NEW to \in {"try", "check"}, NEW q, q = [taken EXCEPT !.pc = to], old.todo # <<>>, file' = [file EXCEPT ![r] = q],
             to = "check" => old.kind # "movie"
      PROVE  Frame(r) /\ GoodRecord(file'[r])
  <2>0. to \in {"try", "check"}
    OBVIOUS
  <2>1. old \in FileRecords(old)
    BY <1>1 DEF GoodRecord
  <2> DEFINE U == Usable(channelOf(old.kind))
  <2>2. i \in U /\ Tail(old.todo) \in Seq(U) /\ i \in Nat
    <3>1. old.todo \in Seq(U)
      BY <2>1 DEF FileRecords
    <3>2. U \subseteq Nat
      <4>1. channelOf(old.kind) \in {"series", "movie"}
        BY DEF channelOf
      <4>2. DOMAIN StreamsOf(channelOf(old.kind)) \subseteq Nat
        BY <4>1, StreamsShape
      <4> QED
        BY <4>2 DEF Usable
    <3> HIDE DEF U, old
    <3> QED
      BY <1>3, <3>1, <3>2, HeadTail
  <2>3. /\ q.pc = to /\ q.kind = old.kind /\ q.cur = i /\ q.got = old.got /\ q.holds = old.holds /\ q.tries = 0
    BY <1>3, <2>1 DEF FileRecords
  <2>4. q \in FileRecords(q)
    <3> HIDE DEF i, old
    <3> QED
      BY <1>3, <2>1, <2>2 DEF FileRecords, FilePCs
  <2>5. RemoteFileRetries \in Nat
    BY SeriesAssumption DEF SeriesAssumption
  <2>6. GoodRecord(q)
    <3>1. (old.holds <=> old.kind \in {"episode", "movie"}) /\ old.kind # ""
      BY <1>1 DEF GoodRecord
    <3> HIDE DEF i, old, taken
    <3>2. q.pc # "idle" /\ q.pc # "persist" /\ q.pc # "mark" /\ q.kind # ""
      BY <2>0, <2>3, <3>1
    <3>3. q.holds <=> q.kind \in {"episode", "movie"}
      BY <2>3, <3>1
    <3>4. q.cur \in Usable(channelOf(q.kind))
      BY <2>2, <2>3
    <3>5. q.tries <= RemoteFileRetries
      BY <2>3, <2>5
    <3>6. q.pc \in {"check", "add", "fetch", "persist"} => q.kind # "movie"
      BY <1>3, <2>0, <2>3
    <3> QED
      BY <2>4, <3>2, <3>3, <3>4, <3>5, <3>6 DEF GoodRecord, AtOrigin
  <2> QED
    BY <1>1, <1>3, <2>6, ReplaceFrame
<1>4. ASSUME NEW to \in {"try", "check"}, old.todo # <<>>, file' = [file EXCEPT ![r] = [taken EXCEPT !.pc = to]],
             to = "check" => old.kind # "movie"
      PROVE  Frame(r) /\ GoodRecord(file'[r])
  <2> DEFINE q == [taken EXCEPT !.pc = to]
  <2>1. file' = [file EXCEPT ![r] = q]
    BY <1>4
  <2> QED
    BY <1>3, <1>4, <2>1
<1>5. CASE old.todo = <<>>
  <2>1. Goes(r, "render") \/ Goes(r, "fallback")
    BY <1>5 DEF NextOrigin
  <2> QED
    BY <1>2, <2>1
<1>6. CASE old.todo # <<>>
  <2>1. \/ file' = [file EXCEPT ![r] = [taken EXCEPT !.pc = "try"]]
        \/ file' = [file EXCEPT ![r] = [taken EXCEPT !.pc = "check"]] /\ old.kind # "movie"
    BY <1>6 DEF NextOrigin
  <2>2. CASE file' = [file EXCEPT ![r] = [taken EXCEPT !.pc = "try"]]
    BY <1>4, <1>6, <2>2
  <2>3. CASE file' = [file EXCEPT ![r] = [taken EXCEPT !.pc = "check"]] /\ old.kind # "movie"
    BY <1>4, <1>6, <2>3
  <2> QED
    BY <2>1, <2>2, <2>3
<1> QED
  BY <1>5, <1>6

LEMMA AppendAnswer ==
  ASSUME NEW S, NEW s \in Seq(S), NEW a \in S
  PROVE  Append(s, a) \in Seq(S) /\ Len(Append(s, a)) > 0 /\ Append(s, a)[Len(Append(s, a))] = a
  OBVIOUS

LEMMA FetchIsGood ==
  ASSUME FilesIInv, NEW r \in FileClients, FetchXCSeriesInfo(r)
  PROVE  Frame(r) /\ GoodRecord(file'[r])
<1> DEFINE old == file[r]
           p == SeriesOf(old)
           a == [of |-> p, tree |-> TreeOf(p)]
<1>1. FilesBasics /\ GoodRecord(old)
  BY DEF FilesIInv, RequestOK
<1>2. CASE \E from \in {"check", "add", "fetch"}, to \in {"missed", "add", "fetch"} : At(r, from) /\ Goes(r, to)
  BY <1>2, GoesIsGood DEF FilePCs, AtOrigin
<1>3. ASSUME NEW q, q = [old EXCEPT !.pc = "persist", !.got = Append(@, a)], At(r, "fetch"), file' = [file EXCEPT ![r] = q]
      PROVE  Frame(r) /\ GoodRecord(file'[r])
  <2>1. old \in FileRecords(old)
    BY <1>1 DEF GoodRecord
  <2>2. p \in Series /\ old.pc = "fetch" /\ old.cur \in Usable(channelOf(old.kind)) /\ old.kind # "movie"
    BY <1>1, <1>3 DEF GoodRecord, At, AtOrigin, Usable, StreamOf, SeriesOf, channelOf
  <2>3. a \in Published
    BY <1>1, <2>2 DEF Published, FilesBasics, TreeOf
  <2>4. old.got \in Seq(Published)
    BY <2>1 DEF FileRecords
  <2> HIDE DEF a, old, p
  <2>5. Append(old.got, a) \in Seq(Published) /\ Len(Append(old.got, a)) > 0 /\ Append(old.got, a)[Len(Append(old.got, a))] = a
    BY <2>3, <2>4, AppendAnswer
  <2>6. /\ q.pc = "persist" /\ q.kind = old.kind /\ q.cur = old.cur /\ q.got = Append(old.got, a)
        /\ q.holds = old.holds /\ q.tries = old.tries
    BY <1>3, <2>1 DEF FileRecords
  <2>7. q \in FileRecords(q)
    BY <1>3, <2>1, <2>5 DEF FileRecords, FilePCs
  <2>8. a.of = SeriesOf(old)
    BY DEF a, p
  <2>9. GoodRecord(q)
    <3>1. Len(q.got) > 0 /\ q.got[Len(q.got)].of = SeriesOf(q)
      BY <2>2, <2>5, <2>6, <2>8 DEF SeriesOf, StreamOf
    <3> QED
      BY <1>1, <2>2, <2>6, <2>7, <3>1 DEF GoodRecord, AtOrigin
  <2> QED
    BY <1>1, <1>3, <2>9, ReplaceFrame
<1>4. \/ \E from \in {"check", "add", "fetch"}, to \in {"missed", "add", "fetch"} : At(r, from) /\ Goes(r, to)
      \/ At(r, "fetch") /\ file' = [file EXCEPT ![r].pc = "persist", ![r].got = Append(@, a)]
  BY DEF FetchXCSeriesInfo
<1>5. file' = [file EXCEPT ![r].pc = "persist", ![r].got = Append(@, a)]
      => file' = [file EXCEPT ![r] = [old EXCEPT !.pc = "persist", !.got = Append(@, a)]]
  BY <1>1 DEF FilesBasics, GoodRecord, FileRecords
<1> QED
  BY <1>2, <1>3, <1>4, <1>5


LEMMA EndsIsGood ==
  ASSUME FilesIInv, NEW r \in FileClients, NEW to, At(r, to), NEW reply, Ends(r, reply)
  PROVE  Frame(r) /\ GoodRecord(file'[r]) /\ file'[r] = [NoFile EXCEPT !.reply = reply]
<1>1. FilesBasics /\ file' = [file EXCEPT ![r] = [NoFile EXCEPT !.reply = reply]]
  BY DEF FilesIInv, Ends
<1>2. ASSUME NEW q, q = [NoFile EXCEPT !.reply = reply], file' = [file EXCEPT ![r] = q]
      PROVE  Frame(r) /\ file'[r] = q /\ GoodRecord(q)
  BY <1>1, <1>2, IdleIsGood, ReplaceFrame
<1> QED
  BY <1>1, <1>2

\* A candidate that is given up.
LEMMA GivenUpIsGood ==
  ASSUME FilesIInv, NEW r \in FileClients, NEW to \in {"missed", "mark"}, At(r, to),
         file' = [file EXCEPT ![r].pc = "origin", ![r].tried = @ \cup {file[r].cur}]
  PROVE  Frame(r) /\ GoodRecord(file'[r])
<1> DEFINE old == file[r]
<1>1. FilesBasics /\ GoodRecord(old) /\ old.pc = to
  BY DEF FilesIInv, RequestOK, At
<1>2. old \in FileRecords(old)
  BY <1>1 DEF GoodRecord
<1>3. ASSUME NEW q, q = [old EXCEPT !.pc = "origin", !.tried = @ \cup {old.cur}] PROVE GoodRecord(q)
  <2> HIDE DEF old
  <2>1. /\ q.pc = "origin" /\ q.kind = old.kind /\ q.cur = old.cur /\ q.got = old.got /\ q.holds = old.holds
    BY <1>2, <1>3 DEF FileRecords
  <2>2. q \in FileRecords(q)
    BY <1>2, <1>3 DEF FileRecords, FilePCs
  <2>3. (old.holds <=> old.kind \in {"episode", "movie"}) /\ old.kind # ""
    BY <1>1 DEF GoodRecord
  <2> QED
    BY <2>1, <2>2, <2>3 DEF GoodRecord, AtOrigin
<1>4. file' = [file EXCEPT ![r] = [old EXCEPT !.pc = "origin", !.tried = @ \cup {old.cur}]]
  BY <1>1, <1>2 DEF FilesBasics, FileRecords
<1> QED
  BY <1>1, <1>3, <1>4, ReplaceFrame

LEMMA PersistIsGood ==
  ASSUME FilesIInv, NEW r \in FileClients, Persist(r)
  PROVE  Frame(r) /\ GoodRecord(file'[r])
<1>1. At(r, "persist") /\ \E to \in {"origin", "try", "missed"} : Goes(r, to)
  BY DEF Persist
<1> QED
  BY <1>1, GoesIsGood DEF FilePCs, AtOrigin

LEMMA FailedIsGood ==
  ASSUME FilesIInv, NEW r \in FileClients, NEW from \in {"try", "asked"}, At(r, from), NEW asked \in Nat, AttemptFailed(r, asked)
  PROVE  Frame(r) /\ GoodRecord(file'[r])
<1> DEFINE old == file[r]
           q0 == [old EXCEPT !.tries = @ + 1, !.asked = asked]
<1>1. FilesBasics /\ GoodRecord(old) /\ old.pc = from
  BY DEF FilesIInv, RequestOK, At
<1>2. CASE Ends(r, "left")
  BY <1>2, EndsIsGood
<1>3. ASSUME NEW to \in {"try", "mark"}, NEW q, q = [q0 EXCEPT !.pc = to], file' = [file EXCEPT ![r] = q],
             IF to = "try" THEN retriesLeft(q0.tries) ELSE ~retriesLeft(q0.tries)
      PROVE  Frame(r) /\ GoodRecord(file'[r])
  <2>1. old \in FileRecords(old)
    BY <1>1 DEF GoodRecord
  <2>2. /\ q.pc = to /\ q.kind = old.kind /\ q.cur = old.cur /\ q.got = old.got /\ q.holds = old.holds
        /\ q.tries = old.tries + 1 /\ q0.tries = old.tries + 1 /\ old.tries \in Nat
    BY <1>3, <2>1 DEF FileRecords
  <2>3. q \in FileRecords(q)
    <3> HIDE DEF old
    <3>1. old.tries + 1 \in Nat
      BY <2>2
    <3>2. q = [old EXCEPT !.tries = old.tries + 1, !.asked = asked, !.pc = to]
      BY <1>3, <2>1 DEF FileRecords
    <3>3. to \in FilePCs
      BY DEF FilePCs
    <3> QED
      BY <2>1, <3>1, <3>2, <3>3 DEF FileRecords
  <2>4. RemoteFileRetries \in Nat /\ old.tries <= RemoteFileRetries
    BY <1>1, SeriesAssumption DEF SeriesAssumption, GoodRecord, AtOrigin
  <2>5. IF to = "try" THEN q.tries <= RemoteFileRetries ELSE q.tries = RemoteFileRetries + 1
    BY <1>3, <2>2, <2>4 DEF retriesLeft
  <2>6. GoodRecord(q)
    <3>1. (old.holds <=> old.kind \in {"episode", "movie"}) /\ old.kind # "" /\ old.cur \in Usable(channelOf(old.kind))
      BY <1>1 DEF GoodRecord, AtOrigin
    <3> HIDE DEF old, q0
    <3> QED
      BY <2>2, <2>3, <2>5, <3>1 DEF GoodRecord, AtOrigin
  <2> QED
    BY <1>1, <1>3, <2>6, ReplaceFrame
<1>4. \/ Ends(r, "left")
      \/ retriesLeft(q0.tries) /\ file' = [file EXCEPT ![r] = [q0 EXCEPT !.pc = "try"]]
      \/ ~retriesLeft(q0.tries) /\ file' = [file EXCEPT ![r] = [q0 EXCEPT !.pc = "mark"]]
  BY DEF AttemptFailed
<1> QED
  BY <1>2, <1>3, <1>4

LEMMA AttemptIsGood ==
  ASSUME FilesIInv, NEW r \in FileClients, attemptRemoteFile(r)
  PROVE  Frame(r) /\ GoodRecord(file'[r])
<1>1. file[r].asked \in Nat
  BY DEF FilesIInv, RequestOK, GoodRecord, FileRecords
<1>2. CASE At(r, "try") /\ AttemptFailed(r, file[r].asked)
  BY <1>1, <1>2, FailedIsGood
<1>3. CASE At(r, "asked") /\ AttemptFailed(r, file[r].asked + 1)
  BY <1>1, <1>3, FailedIsGood
<1>4. CASE \E from \in {"try", "tryadd", "asked"}, to \in {"tryadd", "asked", "streaming"} : At(r, from) /\ Goes(r, to)
  BY <1>4, GoesIsGood DEF FilePCs, AtOrigin
<1>5. CASE At(r, "streaming") /\ Ends(r, "played")
  BY <1>5, EndsIsGood
<1> QED
  BY <1>2, <1>3, <1>4, <1>5 DEF attemptRemoteFile

LEMMA OthersAreGood ==
  ASSUME FilesIInv, NEW r \in FileClients,
         \/ RenderInfo(r) \/ OriginMissed(r) \/ MarkStreamDeadByHash(r) \/ serveFallbackVideo(r)
  PROVE  Frame(r) /\ GoodRecord(file'[r])
<1>1. CASE RenderInfo(r)
  <2>1. At(r, "render") /\ \E reply : Ends(r, reply)
    BY <1>1 DEF RenderInfo
  <2> QED
    BY <2>1, EndsIsGood
<1>2. CASE OriginMissed(r) \/ MarkStreamDeadByHash(r)
  BY <1>2, GivenUpIsGood DEF OriginMissed, MarkStreamDeadByHash
<1>3. CASE serveFallbackVideo(r)
  BY <1>3, EndsIsGood DEF serveFallbackVideo
<1> QED
  BY <1>1, <1>2, <1>3

RequestStep(r) ==
  \/ buildRemoteSeriesInfo(r) \/ (\E ep \in Episodes : serveSeriesEpisode(r, ep)) \/ serveVODChannel(r)
  \/ NextOrigin(r) \/ FetchXCSeriesInfo(r) \/ OriginMissed(r) \/ Persist(r) \/ RenderInfo(r)
  \/ attemptRemoteFile(r) \/ MarkStreamDeadByHash(r) \/ serveFallbackVideo(r)

LEMMA StepIsGood ==
  ASSUME FilesIInv, NEW r \in FileClients, RequestStep(r)
  PROVE  Frame(r) /\ \A x \in FileClients : GoodRecord(file'[x])
<1>1. Frame(r) /\ GoodRecord(file'[r])
  <2>1. CASE buildRemoteSeriesInfo(r) \/ (\E ep \in Episodes : serveSeriesEpisode(r, ep)) \/ serveVODChannel(r)
    BY <2>1, InfoStarts, EpisodeStarts, MovieStarts
  <2>2. CASE NextOrigin(r) \/ FetchXCSeriesInfo(r) \/ Persist(r) \/ attemptRemoteFile(r)
    BY <2>2, WalkIsGood, FetchIsGood, PersistIsGood, AttemptIsGood
  <2>3. CASE OriginMissed(r) \/ RenderInfo(r) \/ MarkStreamDeadByHash(r) \/ serveFallbackVideo(r)
    BY <2>3, OthersAreGood
  <2> QED
    BY <2>1, <2>2, <2>3 DEF RequestStep
<1>2. \A x \in FileClients : GoodRecord(file[x])
  BY DEF FilesIInv, RequestOK
<1> QED
  BY <1>1, <1>2 DEF Frame


-----------------------------------------------------------------------------
(* What each kind of step changes of a request. *)

SamePlace(q, old) ==
  q.kind = old.kind /\ q.cur = old.cur /\ q.holds = old.holds /\ q.todo = old.todo /\ q.tried = old.tried /\ q.got = old.got

LEMMA RecordOf ==
  ASSUME FilesIInv, NEW r \in FileClients
  PROVE  FilesBasics /\ GoodRecord(file[r]) /\ file[r] \in FileRecords(file[r])
  BY DEF FilesIInv, RequestOK, GoodRecord

LEMMA GoesFields ==
  ASSUME FilesIInv, NEW r \in FileClients, NEW to, Goes(r, to)
  PROVE  file'[r].pc = to /\ SamePlace(file'[r], file[r])
<1>1. DOMAIN file = FileClients /\ file[r] \in FileRecords(file[r])
  BY RecordOf DEF FilesBasics
<1>2. file'[r] = [file[r] EXCEPT !.pc = to]
  BY <1>1 DEF Goes
<1> QED
  BY <1>1, <1>2 DEF FileRecords, SamePlace

LEMMA EndsFields ==
  ASSUME FilesIInv, NEW r \in FileClients, NEW reply, Ends(r, reply)
  PROVE  /\ file'[r].pc = "idle" /\ file'[r].kind = "" /\ file'[r].holds = FALSE /\ file'[r].got = <<>>
         /\ slots' = IF file[r].holds THEN slots - 1 ELSE slots
<1>1. DOMAIN file = FileClients
  BY RecordOf DEF FilesBasics
<1>2. file'[r] = [NoFile EXCEPT !.reply = reply] /\ slots' = IF file[r].holds THEN slots - 1 ELSE slots
  BY <1>1 DEF Ends
<1> QED
  BY <1>2 DEF NoFile

LEMMA FailedFields ==
  ASSUME FilesIInv, NEW r \in FileClients, NEW asked, AttemptFailed(r, asked)
  PROVE  \/ Ends(r, "left") /\ EndFileSession(r)
         \/ file'[r].pc = "try" /\ SamePlace(file'[r], file[r]) /\ slots' = slots /\ fileSessions' = fileSessions
         \/ file'[r].pc = "mark" /\ SamePlace(file'[r], file[r]) /\ slots' = slots /\ EndFileSession(r)
<1>1. DOMAIN file = FileClients /\ file[r] \in FileRecords(file[r])
  BY RecordOf DEF FilesBasics
<1>2. ASSUME NEW to, file' = [file EXCEPT ![r] = [[file[r] EXCEPT !.tries = @ + 1, !.asked = asked] EXCEPT !.pc = to]]
      PROVE  file'[r].pc = to /\ SamePlace(file'[r], file[r])
  <2>1. file'[r] = [[file[r] EXCEPT !.tries = @ + 1, !.asked = asked] EXCEPT !.pc = to]
    BY <1>1, <1>2
  <2> QED
    BY <1>1, <2>1 DEF FileRecords, SamePlace
<1> QED
  BY <1>2 DEF AttemptFailed

LEMMA GivenUpFields ==
  ASSUME FilesIInv, NEW r \in FileClients, file' = [file EXCEPT ![r].pc = "origin", ![r].tried = @ \cup {file[r].cur}]
  PROVE  /\ file'[r].pc = "origin" /\ file'[r].kind = file[r].kind /\ file'[r].cur = file[r].cur
         /\ file'[r].holds = file[r].holds /\ file'[r].todo = file[r].todo /\ file'[r].got = file[r].got
         /\ file'[r].tried = file[r].tried \cup {file[r].cur}
<1>1. DOMAIN file = FileClients /\ file[r] \in FileRecords(file[r])
  BY RecordOf DEF FilesBasics
<1> QED
  BY <1>1 DEF FileRecords

LEMMA AnsweredFields ==
  ASSUME FilesIInv, NEW r \in FileClients, NEW a, file' = [file EXCEPT ![r].pc = "persist", ![r].got = Append(@, a)]
  PROVE  /\ file'[r].pc = "persist" /\ file'[r].kind = file[r].kind /\ file'[r].cur = file[r].cur
         /\ file'[r].holds = file[r].holds /\ file'[r].todo = file[r].todo /\ file'[r].tried = file[r].tried
         /\ file'[r].got = Append(file[r].got, a)
<1>1. DOMAIN file = FileClients /\ file[r] \in FileRecords(file[r])
  BY RecordOf DEF FilesBasics
<1> QED
  BY <1>1 DEF FileRecords

Taken(r, to, i) == [[file[r] EXCEPT !.cur = i, !.todo = Tail(@), !.tries = 0, !.asked = 0] EXCEPT !.pc = to]

LEMMA TakenFields ==
  ASSUME FilesIInv, NEW r \in FileClients, NEW to, NEW i, file'[r] = Taken(r, to, i)
  PROVE  /\ file'[r].pc = to /\ file'[r].kind = file[r].kind /\ file'[r].cur = i
         /\ file'[r].holds = file[r].holds /\ file'[r].todo = Tail(file[r].todo) /\ file'[r].got = file[r].got
         /\ file'[r].tried = file[r].tried
<1>1. DOMAIN file = FileClients /\ file[r] \in FileRecords(file[r])
  BY RecordOf DEF FilesBasics
<1>2. file'[r] = [[file[r] EXCEPT !.cur = i, !.todo = Tail(@), !.tries = 0, !.asked = 0] EXCEPT !.pc = to]
  BY <1>1 DEF Taken
<1> QED
  BY <1>1, <1>2 DEF FileRecords

\* A request that starts, or is refused at once.
LEMMA StartFields ==
  ASSUME FilesIInv, NEW r \in FileClients,
         buildRemoteSeriesInfo(r) \/ (\E ep \in Episodes : serveSeriesEpisode(r, ep)) \/ serveVODChannel(r)
  PROVE  /\ file[r].pc = "idle" /\ file'[r].got = <<>> /\ file'[r].pc \in {"idle", "origin", "fallback"}
         /\ \/ file'[r].holds = FALSE /\ slots' = slots
            \/ file'[r].holds = TRUE /\ slots < SlotLimit /\ slots' = slots + 1
         /\ fileSessions' = fileSessions /\ conns' = conns /\ UNCHANGED <<dead, tableVars>>
         /\ file'[r].pc = "fallback" => file'[r].todo = <<>> /\ file'[r].holds
         /\ file'[r].holds =>
              \/ file'[r].kind = "episode" /\ file'[r].pc = "fallback" /\ remoteSeriesOrigins = <<>>
              \/ file'[r].kind = "episode" /\ file'[r].todo = remoteSeriesOrigins
              \/ file'[r].kind = "movie" /\ file'[r].todo = candidates("movie")
<1>1. DOMAIN file = FileClients
  BY RecordOf DEF FilesBasics
<1>2. CASE buildRemoteSeriesInfo(r)
  BY <1>1, <1>2 DEF buildRemoteSeriesInfo, FileStarts, At, NoFile, tableVars
<1>3. ASSUME NEW ep \in Episodes, serveSeriesEpisode(r, ep)
      PROVE  file[r].pc = "idle" /\ fileSessions' = fileSessions /\ conns' = conns /\ UNCHANGED <<dead, tableVars>>
  BY <1>3 DEF serveSeriesEpisode, FileStarts, At
<1>4. ASSUME NEW ep \in Episodes, serveSeriesEpisode(r, ep)
      PROVE  /\ file'[r].got = <<>> /\ file'[r].pc \in {"idle", "origin", "fallback"}
             /\ \/ file'[r].holds = FALSE /\ slots' = slots
                \/ /\ file'[r].holds = TRUE /\ slots < SlotLimit /\ slots' = slots + 1 /\ file'[r].kind = "episode"
                   /\ \/ file'[r].pc = "fallback" /\ remoteSeriesOrigins = <<>>
                      \/ file'[r].todo = remoteSeriesOrigins
  <2>1. DOMAIN NoFile = {"pc", "kind", "ep", "todo", "cur", "tries", "asked", "known", "got", "cached", "tried", "holds", "reply"}
        /\ NoFile.pc = "idle" /\ NoFile.got = <<>> /\ NoFile.holds = FALSE
    BY DEF NoFile
  <2>2. \/ slots' = slots /\ \E reply : file'[r] = [NoFile EXCEPT !.reply = reply]
        \/ /\ slots < SlotLimit /\ slots' = slots + 1 /\ remoteSeriesOrigins = <<>>
           /\ file'[r] = [[NoFile EXCEPT !.kind = "episode", !.ep = ep, !.holds = TRUE, !.known = GetSeriesEpisodeSources(ep)] EXCEPT !.pc = "fallback"]
        \/ /\ slots < SlotLimit /\ slots' = slots + 1
           /\ file'[r] = [[NoFile EXCEPT !.kind = "episode", !.ep = ep, !.holds = TRUE, !.known = GetSeriesEpisodeSources(ep)]
                           EXCEPT !.pc = "origin", !.todo = remoteSeriesOrigins]
    BY <1>1, <1>4 DEF serveSeriesEpisode
  <2>3. CASE slots' = slots /\ \E reply : file'[r] = [NoFile EXCEPT !.reply = reply]
    BY <2>1, <2>3
  <2>4. CASE /\ slots < SlotLimit /\ slots' = slots + 1 /\ remoteSeriesOrigins = <<>>
             /\ file'[r] = [[NoFile EXCEPT !.kind = "episode", !.ep = ep, !.holds = TRUE, !.known = GetSeriesEpisodeSources(ep)] EXCEPT !.pc = "fallback"]
    BY <2>1, <2>4
  <2>5. CASE /\ slots < SlotLimit /\ slots' = slots + 1
             /\ file'[r] = [[NoFile EXCEPT !.kind = "episode", !.ep = ep, !.holds = TRUE, !.known = GetSeriesEpisodeSources(ep)]
                             EXCEPT !.pc = "origin", !.todo = remoteSeriesOrigins]
    BY <2>1, <2>5
  <2> QED
    BY <2>2, <2>3, <2>4, <2>5
<1>7. ASSUME NEW ep \in Episodes, serveSeriesEpisode(r, ep), file'[r].pc = "fallback"
      PROVE  file'[r].todo = <<>> /\ file'[r].holds
  <2>1. /\ file'[r].pc = "fallback"
        /\ \/ file'[r] = [NoFile EXCEPT !.reply = "at capacity"]
           \/ file'[r] = [NoFile EXCEPT !.reply = "not found"]
           \/ file'[r] = [[NoFile EXCEPT !.kind = "episode", !.ep = ep, !.holds = TRUE, !.known = GetSeriesEpisodeSources(ep)] EXCEPT !.pc = "fallback"]
           \/ file'[r] = [[NoFile EXCEPT !.kind = "episode", !.ep = ep, !.holds = TRUE, !.known = GetSeriesEpisodeSources(ep)]
                           EXCEPT !.pc = "origin", !.todo = remoteSeriesOrigins]
    BY <1>1, <1>7 DEF serveSeriesEpisode
  <2> QED
    BY <2>1 DEF NoFile
<1>5. ASSUME serveVODChannel(r)
      PROVE  file[r].pc = "idle" /\ fileSessions' = fileSessions /\ conns' = conns /\ UNCHANGED <<dead, tableVars>>
  BY <1>5 DEF serveVODChannel, FileStarts, At
<1>6. ASSUME serveVODChannel(r)
      PROVE  /\ file'[r].got = <<>> /\ file'[r].pc \in {"idle", "origin"}
             /\ \/ file'[r].holds = FALSE /\ slots' = slots
                \/ /\ file'[r].holds = TRUE /\ slots < SlotLimit /\ slots' = slots + 1 /\ file'[r].kind = "movie"
                   /\ file'[r].todo = candidates("movie")
  BY <1>1, <1>6 DEF serveVODChannel, NoFile
<1> QED
  BY <1>2, <1>3, <1>4, <1>5, <1>6, <1>7


-----------------------------------------------------------------------------
(* The counters: what a step takes and gives back. *)

InUse(q) == q.pc \in {"fetch", "asked", "streaming"}
Tries(q) == q.pc \in {"try", "tryadd", "asked", "streaming"}

ConnEffect(r) ==
  \/ /\ conns' = conns /\ (InUse(file'[r]) <=> InUse(file[r]))
     /\ InUse(file[r]) => SourceOf(file'[r]) = SourceOf(file[r])
  \/ /\ SourceOf(file[r]) \in Providers /\ conns' = [conns EXCEPT ![SourceOf(file[r])] = @ + 1]
     /\ ~InUse(file[r]) /\ InUse(file'[r]) /\ SourceOf(file'[r]) = SourceOf(file[r])
  \/ /\ SourceOf(file[r]) \in Providers /\ conns' = [conns EXCEPT ![SourceOf(file[r])] = @ - 1]
     /\ InUse(file[r]) /\ ~InUse(file'[r])

SlotEffect(r) ==
  \/ slots' = slots /\ (file'[r].holds <=> file[r].holds)
  \/ slots' = slots + 1 /\ slots < SlotLimit /\ ~file[r].holds /\ file'[r].holds
  \/ slots' = slots - 1 /\ file[r].holds /\ ~file'[r].holds

SessionEffect(r) ==
  \/ fileSessions' = fileSessions /\ ~Tries(file[r]) /\ ~Tries(file'[r])
  \/ fileSessions' = fileSessions /\ Tries(file[r]) /\ Tries(file'[r]) /\ SourceOf(file'[r]) = SourceOf(file[r])
  \/ fileSessions' = fileSessions \cup {<<r, SourceOf(file'[r])>>} /\ ~Tries(file[r]) /\ Tries(file'[r])
  \/ fileSessions' = {s \in fileSessions : s[1] # r} /\ ~Tries(file'[r])

Effects(r) == ConnEffect(r) /\ SlotEffect(r) /\ SessionEffect(r)

\* The provider of a request that has a candidate.
LEMMA HasSource ==
  ASSUME FilesIInv, NEW r \in FileClients, file[r].pc \in AtOrigin
  PROVE  Source(r) = SourceOf(file[r]) /\ SourceOf(file[r]) \in Providers
<1>1. file[r].cur \in Usable(channelOf(file[r].kind))
  BY RecordOf DEF GoodRecord
<1> QED
  BY <1>1 DEF Source, StreamOf, SourceOf, Usable

\* The series of a request that has been answered.
LEMMA HasSeries ==
  ASSUME FilesIInv, NEW r \in FileClients, file[r].pc \in {"check", "add", "fetch", "persist"}
  PROVE  SeriesOf(file[r]) \in Series
<1>1. file[r].cur \in Usable(channelOf(file[r].kind)) /\ file[r].kind # "movie"
  BY RecordOf DEF GoodRecord, AtOrigin
<1> QED
  BY <1>1 DEF SeriesOf, StreamOf, Usable, channelOf

LEMMA SameSource ==
  ASSUME NEW q, NEW old, q.kind = old.kind, q.cur = old.cur
  PROVE  SourceOf(q) = SourceOf(old)
  BY DEF SourceOf

LEMMA StartEffects ==
  ASSUME FilesIInv, NEW r \in FileClients,
         buildRemoteSeriesInfo(r) \/ (\E ep \in Episodes : serveSeriesEpisode(r, ep)) \/ serveVODChannel(r)
  PROVE  Effects(r)
<1>1. file[r].holds = FALSE
  <2>1. file[r].pc = "idle"
    BY StartFields
  <2> QED
    BY <2>1, RecordOf DEF GoodRecord, FileRecords
<1> QED
  BY <1>1, StartFields DEF Effects, ConnEffect, SlotEffect, SessionEffect, InUse, Tries

LEMMA WalkEffects ==
  ASSUME FilesIInv, NEW r \in FileClients, NextOrigin(r)
  PROVE  Effects(r)
<1> DEFINE i == Head(file[r].todo)
           p == StreamsOf(channelOf(file[r].kind))[i].src
<1>1. file[r].pc = "origin" /\ conns' = conns /\ slots' = slots
  BY DEF NextOrigin, At
<1>2. CASE (Goes(r, "render") \/ Goes(r, "fallback")) /\ fileSessions' = fileSessions
  BY <1>1, <1>2, GoesFields DEF Effects, ConnEffect, SlotEffect, SessionEffect, InUse, Tries, SamePlace
<1>3. ASSUME NEW to \in {"try", "check"},
             file' = [file EXCEPT ![r] = Taken(r, to, i)],
             fileSessions' = IF to = "try" THEN fileSessions \cup {<<r, p>>} ELSE fileSessions
      PROVE  Effects(r)
  <2>1. /\ file'[r].pc = to /\ file'[r].kind = file[r].kind /\ file'[r].cur = i /\ file'[r].holds = file[r].holds
    <3> HIDE DEF i
    <3>1. file'[r] = Taken(r, to, i)
      BY <1>3, RecordOf DEF FilesBasics
    <3> QED
      BY <3>1, TakenFields
  <2>2. SourceOf(file'[r]) = p
    BY <2>1 DEF SourceOf
  <2>3. to \in {"try", "check"}
    OBVIOUS
  <2> HIDE DEF i, p
  <2> QED
    BY <1>1, <1>3, <2>1, <2>2, <2>3 DEF Effects, ConnEffect, SlotEffect, SessionEffect, InUse, Tries
<1>4. \/ (Goes(r, "render") \/ Goes(r, "fallback")) /\ fileSessions' = fileSessions
      \/ \E to \in {"try", "check"} :
           /\ file' = [file EXCEPT ![r] = Taken(r, to, i)]
           /\ fileSessions' = IF to = "try" THEN fileSessions \cup {<<r, p>>} ELSE fileSessions
  BY DEF NextOrigin, Taken
<1> QED
  BY <1>2, <1>3, <1>4

LEMMA FetchEffects ==
  ASSUME FilesIInv, NEW r \in FileClients, FetchXCSeriesInfo(r)
  PROVE  Effects(r)
<1>1. slots' = slots /\ fileSessions' = fileSessions /\ file[r].pc \in {"check", "add", "fetch"}
  BY DEF FetchXCSeriesInfo, At
<1>2. Source(r) = SourceOf(file[r]) /\ SourceOf(file[r]) \in Providers
  BY <1>1, HasSource DEF AtOrigin
<1>3. ASSUME NEW to \in {"missed", "add"}, file[r].pc = "check", Goes(r, to), conns' = conns PROVE Effects(r)
  BY <1>1, <1>2, <1>3, GoesFields DEF Effects, ConnEffect, SlotEffect, SessionEffect, InUse, Tries, SamePlace
<1>4. CASE file[r].pc = "add" /\ Goes(r, "fetch") /\ conns' = [conns EXCEPT ![Source(r)] = @ + 1]
  BY <1>1, <1>2, <1>4, GoesFields, SameSource DEF Effects, ConnEffect, SlotEffect, SessionEffect, InUse, Tries, SamePlace
<1>5. CASE file[r].pc = "fetch" /\ Goes(r, "missed") /\ conns' = [conns EXCEPT ![Source(r)] = @ - 1]
  BY <1>1, <1>2, <1>5, GoesFields DEF Effects, ConnEffect, SlotEffect, SessionEffect, InUse, Tries, SamePlace
<1>6. CASE /\ file[r].pc = "fetch" /\ conns' = [conns EXCEPT ![Source(r)] = @ - 1]
           /\ file' = [file EXCEPT ![r].pc = "persist", ![r].got = Append(@, [of |-> SeriesOf(file[r]), tree |-> TreeOf(SeriesOf(file[r]))])]
  <2>1. file'[r].pc = "persist" /\ file'[r].holds = file[r].holds
    BY <1>6, AnsweredFields
  <2> QED
    BY <1>1, <1>2, <1>6, <2>1 DEF Effects, ConnEffect, SlotEffect, SessionEffect, InUse, Tries
<1> QED
  BY <1>3, <1>4, <1>5, <1>6 DEF FetchXCSeriesInfo, At

LEMMA PersistEffects ==
  ASSUME FilesIInv, NEW r \in FileClients, Persist(r)
  PROVE  Effects(r)
<1> DEFINE carried == file[r].kind = "episode" /\ file[r].ep \in Numbers(numbered(file[r].got[Len(file[r].got)].tree))
           to == CASE file[r].kind = "info" -> "origin" [] carried -> "try" [] OTHER -> "missed"
<1>1. /\ file[r].pc = "persist" /\ Goes(r, to) /\ conns' = conns /\ slots' = slots
      /\ fileSessions' = IF carried THEN fileSessions \cup {<<r, Source(r)>>} ELSE fileSessions
  BY DEF Persist, At
<1>2. IF carried THEN to = "try" ELSE to \in {"origin", "missed"}
  OBVIOUS
<1>3. Source(r) = SourceOf(file[r])
  BY <1>1, HasSource DEF AtOrigin
<1> HIDE DEF carried, to
<1>4. file'[r].pc = to /\ SamePlace(file'[r], file[r]) /\ SourceOf(file'[r]) = SourceOf(file[r])
  BY <1>1, GoesFields, SameSource DEF SamePlace
<1> QED
  BY <1>1, <1>2, <1>3, <1>4 DEF Effects, ConnEffect, SlotEffect, SessionEffect, InUse, Tries, SamePlace

LEMMA AttemptEffects ==
  ASSUME FilesIInv, NEW r \in FileClients, attemptRemoteFile(r)
  PROVE  Effects(r)
<1>1. file[r].pc \in {"try", "tryadd", "asked", "streaming"}
  BY DEF attemptRemoteFile, At
<1>2. Source(r) = SourceOf(file[r]) /\ SourceOf(file[r]) \in Providers
  BY <1>1, HasSource DEF AtOrigin
<1>3. ASSUME NEW asked, AttemptFailed(r, asked)
      PROVE  SlotEffect(r) /\ SessionEffect(r) /\ ~InUse(file'[r])
  <2>1. file[r].holds \in BOOLEAN
    BY RecordOf DEF FileRecords
  <2>2. CASE Ends(r, "left") /\ EndFileSession(r)
    BY <2>1, <2>2, EndsFields DEF SlotEffect, SessionEffect, InUse, Tries, EndFileSession
  <2>3. CASE file'[r].pc = "try" /\ SamePlace(file'[r], file[r]) /\ slots' = slots /\ fileSessions' = fileSessions
    BY <1>1, <2>3, SameSource DEF SlotEffect, SessionEffect, InUse, Tries, SamePlace
  <2>4. CASE file'[r].pc = "mark" /\ SamePlace(file'[r], file[r]) /\ slots' = slots /\ EndFileSession(r)
    BY <2>4 DEF SlotEffect, SessionEffect, InUse, Tries, SamePlace, EndFileSession
  <2> QED
    BY <1>3, <2>2, <2>3, <2>4, FailedFields
<1>4. ASSUME NEW asked, file[r].pc = "try", AttemptFailed(r, asked), conns' = conns PROVE Effects(r)
  BY <1>3, <1>4 DEF Effects, ConnEffect, InUse
<1>5. ASSUME NEW asked, file[r].pc = "asked", AttemptFailed(r, asked), conns' = giveConnBack(r) PROVE Effects(r)
  BY <1>2, <1>3, <1>5 DEF Effects, ConnEffect, InUse, giveConnBack
<1>6. CASE /\ conns' = conns /\ slots' = slots /\ fileSessions' = fileSessions
           /\ \/ file[r].pc = "try" /\ Goes(r, "tryadd")
              \/ file[r].pc = "asked" /\ Goes(r, "streaming")
  BY <1>6, GoesFields, SameSource DEF Effects, ConnEffect, SlotEffect, SessionEffect, InUse, Tries, SamePlace
<1>7. CASE /\ conns' = [conns EXCEPT ![Source(r)] = @ + 1] /\ slots' = slots /\ fileSessions' = fileSessions
           /\ file[r].pc = "tryadd" /\ Goes(r, "asked")
  BY <1>2, <1>7, GoesFields, SameSource DEF Effects, ConnEffect, SlotEffect, SessionEffect, InUse, Tries, SamePlace
<1>8. CASE file[r].pc = "streaming" /\ conns' = giveConnBack(r) /\ EndFileSession(r) /\ Ends(r, "played")
  <2>1. file[r].holds \in BOOLEAN
    BY RecordOf DEF FileRecords
  <2> QED
    BY <1>2, <1>8, <2>1, EndsFields
       DEF Effects, ConnEffect, SlotEffect, SessionEffect, InUse, Tries, giveConnBack, EndFileSession
<1> QED
  BY <1>4, <1>5, <1>6, <1>7, <1>8 DEF attemptRemoteFile, At

LEMMA OtherEffects ==
  ASSUME FilesIInv, NEW r \in FileClients,
         \/ RenderInfo(r) \/ OriginMissed(r) \/ MarkStreamDeadByHash(r) \/ serveFallbackVideo(r)
  PROVE  Effects(r)
<1>1. conns' = conns /\ fileSessions' = fileSessions /\ file[r].pc \in {"render", "missed", "mark", "fallback"}
  BY DEF RenderInfo, OriginMissed, MarkStreamDeadByHash, serveFallbackVideo, At
<1>2. file[r].holds \in BOOLEAN
  BY RecordOf DEF FileRecords
<1>3. ASSUME NEW reply, Ends(r, reply) PROVE Effects(r)
  BY <1>1, <1>2, <1>3, EndsFields DEF Effects, ConnEffect, SlotEffect, SessionEffect, InUse, Tries
<1>4. CASE slots' = slots /\ file' = [file EXCEPT ![r].pc = "origin", ![r].tried = @ \cup {file[r].cur}]
  BY <1>1, <1>4, GivenUpFields DEF Effects, ConnEffect, SlotEffect, SessionEffect, InUse, Tries
<1> QED
  BY <1>3, <1>4 DEF RenderInfo, OriginMissed, MarkStreamDeadByHash, serveFallbackVideo

LEMMA StepEffects ==
  ASSUME FilesIInv, NEW r \in FileClients, RequestStep(r)
  PROVE  Effects(r)
<1>1. CASE buildRemoteSeriesInfo(r) \/ (\E ep \in Episodes : serveSeriesEpisode(r, ep)) \/ serveVODChannel(r)
  BY <1>1, StartEffects
<1>2. CASE NextOrigin(r) \/ FetchXCSeriesInfo(r) \/ Persist(r) \/ attemptRemoteFile(r)
  BY <1>2, WalkEffects, FetchEffects, PersistEffects, AttemptEffects
<1>3. CASE OriginMissed(r) \/ RenderInfo(r) \/ MarkStreamDeadByHash(r) \/ serveFallbackVideo(r)
  BY <1>3, OtherEffects
<1> QED
  BY <1>1, <1>2, <1>3 DEF RequestStep


LEMMA FinitePart ==
  ASSUME NEW P, P \subseteq FileClients
  PROVE  IsFiniteSet(P) /\ Cardinality(P) \in Nat
<1>1. IsFiniteSet(FileClients)
  BY SeriesAssumption DEF SeriesAssumption
<1> QED
  BY <1>1, FS_Subset, FS_CardinalityType

LEMMA ConnsCount ==
  ASSUME FilesIInv, NEW r \in FileClients, Frame(r), ConnEffect(r)
  PROVE  conns' \in [Providers -> Nat] /\ \A p \in Providers : conns'[p] = Cardinality(Using(p)')
<1> DEFINE U(p) == {x \in FileClients : InUse(file[x]) /\ SourceOf(file[x]) = p}
           V(p) == {x \in FileClients : InUse(file'[x]) /\ SourceOf(file'[x]) = p}
<1>1. conns \in [Providers -> Nat] /\ \A p \in Providers : conns[p] = Cardinality(U(p))
  BY DEF FilesIInv, FilesTypeOK, FilesBasics, Using, InUse, Source, StreamOf, SourceOf
<1>2. \A p : Using(p)' = V(p)
  BY DEF Using, InUse, Source, StreamOf, SourceOf
<1>3. \A p : IsFiniteSet(U(p)) /\ Cardinality(U(p)) \in Nat /\ Cardinality(V(p)) \in Nat
  BY FinitePart
<1>4. \A x \in FileClients \ {r} : file'[x] = file[x]
  BY DEF Frame
<1>5. ASSUME NEW p \in Providers,
             (InUse(file'[r]) /\ SourceOf(file'[r]) = p) <=> (InUse(file[r]) /\ SourceOf(file[r]) = p)
      PROVE  V(p) = U(p)
  BY <1>4, <1>5
<1>6. CASE /\ conns' = conns /\ (InUse(file'[r]) <=> InUse(file[r]))
           /\ InUse(file[r]) => SourceOf(file'[r]) = SourceOf(file[r])
  <2>1. \A p \in Providers : V(p) = U(p)
    BY <1>5, <1>6
  <2> HIDE DEF U, V
  <2> QED
    BY <1>1, <1>2, <1>6, <2>1
<1>7. CASE /\ SourceOf(file[r]) \in Providers /\ conns' = [conns EXCEPT ![SourceOf(file[r])] = @ + 1]
           /\ ~InUse(file[r]) /\ InUse(file'[r]) /\ SourceOf(file'[r]) = SourceOf(file[r])
  <2> DEFINE s == SourceOf(file[r])
  <2>1. \A p \in Providers \ {s} : V(p) = U(p)
    BY <1>5, <1>7
  <2>2. V(s) = U(s) \cup {r} /\ r \notin U(s)
    BY <1>4, <1>7
  <2>3. s \in Providers /\ conns' = [conns EXCEPT ![s] = @ + 1]
    BY <1>7
  <2> HIDE DEF s, U, V
  <2>4. Cardinality(V(s)) = Cardinality(U(s)) + 1
    BY <1>3, <2>2, FS_AddElement
  <2> QED
    BY <1>1, <1>2, <1>3, <2>1, <2>3, <2>4
<1>8. CASE /\ SourceOf(file[r]) \in Providers /\ conns' = [conns EXCEPT ![SourceOf(file[r])] = @ - 1]
           /\ InUse(file[r]) /\ ~InUse(file'[r])
  <2> DEFINE s == SourceOf(file[r])
  <2>1. \A p \in Providers \ {s} : V(p) = U(p)
    BY <1>5, <1>8
  <2>2. V(s) = U(s) \ {r} /\ r \in U(s)
    BY <1>4, <1>8
  <2>3. s \in Providers /\ conns' = [conns EXCEPT ![s] = @ - 1]
    BY <1>8
  <2> HIDE DEF s, U, V
  <2>4. Cardinality(V(s)) = Cardinality(U(s)) - 1
    BY <1>3, <2>2, FS_RemoveElement
  <2> QED
    BY <1>1, <1>2, <1>3, <2>1, <2>3, <2>4
<1> QED
  BY <1>6, <1>7, <1>8 DEF ConnEffect

LEMMA SlotsCount ==
  ASSUME FilesIInv, NEW r \in FileClients, Frame(r), SlotEffect(r)
  PROVE  slots' \in Nat /\ slots' = Cardinality({x \in FileClients : file'[x].holds}) /\ slots' <= SlotLimit
<1> DEFINE U == {x \in FileClients : file[x].holds}
           V == {x \in FileClients : file'[x].holds}
<1>1. slots \in Nat /\ slots = Cardinality(U) /\ slots <= SlotLimit /\ SlotLimit \in Nat
  BY SeriesAssumption DEF FilesIInv, FilesTypeOK, FilesBasics, SeriesAssumption
<1>2. IsFiniteSet(U) /\ Cardinality(V) \in Nat
  BY FinitePart
<1>3. \A x \in FileClients \ {r} : file'[x] = file[x]
  BY DEF Frame
<1>4. CASE slots' = slots /\ (file'[r].holds <=> file[r].holds)
  <2>1. V = U
    BY <1>3, <1>4
  <2> QED
    BY <1>1, <1>4, <2>1
<1>5. CASE slots' = slots + 1 /\ slots < SlotLimit /\ ~file[r].holds /\ file'[r].holds
  <2>1. V = U \cup {r} /\ r \notin U
    BY <1>3, <1>5
  <2> HIDE DEF U, V
  <2>2. Cardinality(V) = Cardinality(U) + 1
    BY <1>2, <2>1, FS_AddElement
  <2>3. slots' \in Nat /\ slots' = Cardinality(V) /\ slots' <= SlotLimit
    BY <1>1, <1>5, <2>2
  <2> QED
    BY <2>3 DEF V
<1>6. CASE slots' = slots - 1 /\ file[r].holds /\ ~file'[r].holds
  <2>1. V = U \ {r} /\ r \in U
    BY <1>3, <1>6
  <2> HIDE DEF U, V
  <2>2. Cardinality(V) = Cardinality(U) - 1
    BY <1>2, <2>1, FS_RemoveElement
  <2>3. slots' \in Nat /\ slots' = Cardinality(V) /\ slots' <= SlotLimit
    BY <1>1, <1>2, <1>6, <2>2
  <2> QED
    BY <2>3 DEF V
<1> QED
  BY <1>4, <1>5, <1>6 DEF SlotEffect

LEMMA SessionsShown ==
  ASSUME FilesIInv, NEW r \in FileClients, Frame(r), SessionEffect(r)
  PROVE  fileSessions' = {<<x, Source(x)>> : x \in Trying}'
<1> DEFINE U == {<<x, SourceOf(file[x])>> : x \in {y \in FileClients : Tries(file[y])}}
           V == {<<x, SourceOf(file'[x])>> : x \in {y \in FileClients : Tries(file'[y])}}
<1>1. fileSessions = U
  BY DEF FilesIInv, FilesTypeOK, Trying, Tries, Source, StreamOf, SourceOf
<1>2. {<<x, Source(x)>> : x \in Trying}' = V
  BY DEF Trying, Tries, Source, StreamOf, SourceOf
<1>3. \A x \in FileClients \ {r} : file'[x] = file[x]
  BY DEF Frame
<1>4. fileSessions' = V
  <2>1. CASE fileSessions' = fileSessions /\ ~Tries(file[r]) /\ ~Tries(file'[r])
    <3>1. V = U
      BY <1>3, <2>1
    <3> QED
      BY <1>1, <2>1, <3>1
  <2>2. CASE fileSessions' = fileSessions /\ Tries(file[r]) /\ Tries(file'[r]) /\ SourceOf(file'[r]) = SourceOf(file[r])
    <3>1. V = U
      BY <1>3, <2>2
    <3> QED
      BY <1>1, <2>2, <3>1
  <2>3. CASE fileSessions' = fileSessions \cup {<<r, SourceOf(file'[r])>>} /\ ~Tries(file[r]) /\ Tries(file'[r])
    <3>1. V = U \cup {<<r, SourceOf(file'[r])>>}
      BY <1>3, <2>3
    <3> QED
      BY <1>1, <2>3, <3>1
  <2>4. CASE fileSessions' = {s \in fileSessions : s[1] # r} /\ ~Tries(file'[r])
    <3>1. V = {s \in U : s[1] # r}
      BY <1>3, <2>4
    <3> QED
      BY <1>1, <2>4, <3>1
  <2> QED
    BY <2>1, <2>2, <2>3, <2>4 DEF SessionEffect
<1> QED
  BY <1>2, <1>4


-----------------------------------------------------------------------------
(* The tables: what is stored of the providers' lists. *)

\* An answer is one of its series' lists, and all its episodes are Episodes.
LEMMA AnswerIsAList ==
  ASSUME FilesBasics, NEW a \in Published
  PROVE  /\ a.of \in Series
         /\ \E i \in 1..upstream[a.of] : a.tree = Trees[a.of][i]
         /\ Numbers(numbered(a.tree)) \subseteq Episodes
<1>1. PICK p \in Series : \E i \in 1..upstream[p] : a = [of |-> p, tree |-> Trees[p][i]]
  BY DEF Published
<1>2. PICK i \in 1..upstream[p] : a = [of |-> p, tree |-> Trees[p][i]]
  BY <1>1
<1>3. i \in DOMAIN Trees[p]
  <2>1. Trees[p] \in Seq(Seq([num : Nat, id : STRING]))
    BY SeriesAssumption DEF SeriesAssumption
  <2>2. DOMAIN Trees[p] = 1..Len(Trees[p]) /\ Len(Trees[p]) \in Nat
    BY <2>1
  <2>3. upstream[p] \in 1..Len(Trees[p])
    BY DEF FilesBasics
  <2> QED
    BY <2>2, <2>3
<1>4. Numbers(numbered(Trees[p][i])) \subseteq Episodes
  BY <1>3 DEF Episodes
<1> QED
  BY <1>2, <1>4

LEMMA MappingsHaveTheNumbers ==
  ASSUME NEW x, NEW tree
  PROVE  /\ DOMAIN mappingsOf(x, tree) = Numbers(numbered(tree)) /\ DOMAIN listedOf(tree) = Numbers(numbered(tree))
         /\ \A n \in DOMAIN mappingsOf(x, tree) : mappingsOf(x, tree)[n].of = x
  BY DEF mappingsOf, listedOf

LEMMA EntriesHaveTheNumbers ==
  ASSUME NEW a
  PROVE  /\ DOMAIN entriesOf(a) = Numbers(numbered(a.tree))
         /\ \A n \in DOMAIN entriesOf(a) : entriesOf(a)[n].by = a.of
<1>1. DOMAIN entriesOf(a) = DOMAIN listedOf(a.tree) /\ \A n \in DOMAIN entriesOf(a) : entriesOf(a)[n].by = a.of
  BY DEF entriesOf
<1> QED
  BY <1>1, MappingsHaveTheNumbers

\* What a step does to the tables.
LEMMA TableEffects ==
  ASSUME FilesIInv, NEW r \in FileClients, RequestStep(r)
  PROVE  /\ mapped' = mapped \/ Persist(r)
         /\ UNCHANGED <<merged, aged>> \/ RenderInfo(r)
         /\ dead' = dead \/ MarkStreamDeadByHash(r)
<1>1. CASE buildRemoteSeriesInfo(r) \/ (\E ep \in Episodes : serveSeriesEpisode(r, ep)) \/ serveVODChannel(r)
  BY <1>1, StartFields DEF tableVars
<1>2. CASE NextOrigin(r) \/ FetchXCSeriesInfo(r) \/ OriginMissed(r) \/ attemptRemoteFile(r) \/ serveFallbackVideo(r)
  BY <1>2 DEF NextOrigin, FetchXCSeriesInfo, OriginMissed, attemptRemoteFile, serveFallbackVideo, tableVars
<1>3. CASE Persist(r) \/ RenderInfo(r)
  BY <1>3 DEF Persist, RenderInfo
<1>4. CASE MarkStreamDeadByHash(r)
  BY <1>4 DEF MarkStreamDeadByHash, tableVars
<1> QED
  BY <1>1, <1>2, <1>3, <1>4 DEF RequestStep

\* What Persist stores.
LEMMA PersistStores ==
  ASSUME FilesIInv, NEW r \in FileClients, Persist(r)
  PROVE  /\ SeriesOf(file[r]) \in Series /\ Len(file[r].got) > 0
         /\ file[r].got[Len(file[r].got)].of = SeriesOf(file[r])
         /\ \E i \in 1..upstream[SeriesOf(file[r])] :
              /\ file[r].got[Len(file[r].got)].tree = Trees[SeriesOf(file[r])][i]
              /\ mapped' = SetSeriesEpisodes(SeriesOf(file[r]), Trees[SeriesOf(file[r])][i])
<1>1. file[r].pc = "persist" /\ mapped' = SetSeriesEpisodes(SeriesOf(file[r]), file[r].got[Len(file[r].got)].tree)
  BY DEF Persist, At
<1>2. SeriesOf(file[r]) \in Series
  BY <1>1, HasSeries
<1> DEFINE n == Len(file[r].got)
           a == file[r].got[n]
<1>3. n > 0 /\ a.of = SeriesOf(file[r])
  BY <1>1, <1>2, RecordOf DEF GoodRecord
<1>4. a \in Published
  <2>1. file[r].got \in Seq(Published)
    BY RecordOf DEF FileRecords
  <2> QED
    BY <1>3, <2>1
<1> HIDE DEF a, n
<1>5. \E i \in 1..upstream[a.of] : a.tree = Trees[a.of][i]
  BY <1>4, RecordOf, AnswerIsAList
<1> QED
  BY <1>1, <1>2, <1>3, <1>5 DEF a, n

\* The rows of a URL when a list of one of its series is stored: the list, and what the
\* other series had beside it.
LEMMA StoredRows ==
  ASSUME NEW x, NEW tree, DOMAIN mapped = Urls, x[1] \in Urls, mapped' = SetSeriesEpisodes(x, tree)
  PROVE  /\ DOMAIN mapped' = Urls /\ \A u \in Urls \ {x[1]} : mapped'[u] = mapped[u]
         /\ Numbers(numbered(tree)) # {} =>
              /\ DOMAIN mapped'[x[1]] = Numbers(numbered(tree)) \cup rowsBeside(x)
              /\ \A n \in Numbers(numbered(tree)) : mapped'[x[1]][n] = mappingsOf(x, tree)[n]
              /\ \A n \in rowsBeside(x) \ Numbers(numbered(tree)) : mapped'[x[1]][n] = mapped[x[1]][n]
         /\ Numbers(numbered(tree)) = {} => mapped' = mapped
<1> DEFINE new == mappingsOf(x, tree)
           rest == [n \in rowsBeside(x) |-> mapped[x[1]][n]]
<1>1. DOMAIN new = Numbers(numbered(tree)) /\ DOMAIN rest = rowsBeside(x)
  BY MappingsHaveTheNumbers
<1>2. mapped' = IF new = NoMapping THEN mapped ELSE [mapped EXCEPT ![x[1]] = orElse(new, rest)]
  BY DEF SetSeriesEpisodes
<1>3. new = NoMapping <=> Numbers(numbered(tree)) = {}
  <2>1. \E f : new = [n \in Numbers(numbered(tree)) |-> f[n]]
    <3> DEFINE g == [n \in Numbers(numbered(tree)) |-> new[n]]
    <3>1. new = g
      BY DEF mappingsOf
    <3> QED
      BY <3>1
  <2> HIDE DEF new
  <2> QED
    BY <1>1, <2>1 DEF NoMapping
<1> HIDE DEF new, rest
<1>4. /\ DOMAIN orElse(new, rest) = DOMAIN new \cup DOMAIN rest
      /\ \A n \in DOMAIN new : orElse(new, rest)[n] = new[n]
      /\ \A n \in DOMAIN rest \ DOMAIN new : orElse(new, rest)[n] = rest[n]
  BY DEF orElse
<1>5. \A n \in rowsBeside(x) : rest[n] = mapped[x[1]][n]
  BY DEF rest
<1>6. new # NoMapping => mapped'[x[1]] = orElse(new, rest)
  BY <1>2
<1>7. DOMAIN mapped' = Urls /\ \A u \in Urls \ {x[1]} : mapped'[u] = mapped[u]
  BY <1>2
<1> QED
  BY <1>1, <1>2, <1>3, <1>4, <1>5, <1>6, <1>7 DEF new

\* Every series has a panel.
LEMMA PanelOf ==
  ASSUME NEW x \in Series
  PROVE  x[1] \in Urls /\ Trees[x] \in Seq(Seq([num : Nat, id : STRING])) /\ Trees[x] # <<>>
  BY SeriesAssumption DEF SeriesAssumption

\* What a list that is stored does to the rows of one series.
LEMMA ListsAfterPersist ==
  ASSUME FilesBasics, OneListPerSeries, UNCHANGED upstream, NEW s \in Series, NEW i \in 1..upstream[s],
         mapped' = SetSeriesEpisodes(s, Trees[s][i])
  PROVE  DOMAIN mapped' = Urls /\ OneListPerSeries'
<1> DEFINE tree == Trees[s][i]
           new == mappingsOf(s, tree)
           N == Numbers(numbered(tree))
<1>1. DOMAIN mapped = Urls /\ s[1] \in Urls
  BY PanelOf DEF FilesBasics
<1>2. /\ DOMAIN mapped' = Urls /\ \A u \in Urls \ {s[1]} : mapped'[u] = mapped[u]
      /\ N # {} => /\ DOMAIN mapped'[s[1]] = N \cup rowsBeside(s)
                   /\ \A n \in N : mapped'[s[1]][n] = new[n]
                   /\ \A n \in rowsBeside(s) \ N : mapped'[s[1]][n] = mapped[s[1]][n]
      /\ N = {} => mapped' = mapped
  BY <1>1, StoredRows
<1>3. \A n \in N : new[n].of = s
  BY MappingsHaveTheNumbers
<1>4. \A n \in rowsBeside(s) : n \in DOMAIN mapped[s[1]] /\ mapped[s[1]][n].of # s
  BY DEF rowsBeside
<1> HIDE DEF new, N
<1>5. ASSUME NEW x \in Series
      PROVE  \E k \in 1..upstream[x] : \A n \in DOMAIN mapped'[x[1]] : mapped'[x[1]][n].of = x =>
               n \in Numbers(numbered(Trees[x][k])) /\ mapped'[x[1]][n] = mappingsOf(x, Trees[x][k])[n]
  <2>1. PICK k \in 1..upstream[x] : \A n \in DOMAIN mapped[x[1]] : mapped[x[1]][n].of = x =>
               n \in Numbers(numbered(Trees[x][k])) /\ mapped[x[1]][n] = mappingsOf(x, Trees[x][k])[n]
    BY DEF OneListPerSeries
  <2>2. x[1] \in Urls
    BY PanelOf
  <2>3. CASE x[1] # s[1] \/ N = {}
    BY <1>2, <2>1, <2>2, <2>3
  <2>4. CASE x[1] = s[1] /\ x # s /\ N # {}
    <3>1. \A n \in DOMAIN mapped'[x[1]] : mapped'[x[1]][n].of = x => n \in DOMAIN mapped[x[1]] /\ mapped'[x[1]][n] = mapped[x[1]][n]
      BY <1>2, <1>3, <1>4, <2>4
    <3> QED
      BY <2>1, <3>1
  <2>5. CASE x = s /\ N # {}
    <3>1. \A n \in DOMAIN mapped'[s[1]] : mapped'[s[1]][n].of = s => n \in N /\ mapped'[s[1]][n] = new[n]
      BY <1>2, <1>3, <1>4, <2>5
    <3> QED
      BY <2>5, <3>1 DEF new, N
  <2> QED
    BY <2>3, <2>4, <2>5
<1> QED
  BY <1>2, <1>5 DEF OneListPerSeries

\* As long as the lists stay, a series stored again takes nothing from the others.
LEMMA RowsAfterPersist ==
  ASSUME FilesBasics, OneListPerSeries, \A x \in Series : upstream[x] = 1, UNCHANGED upstream, NEW s \in Series,
         mapped' = SetSeriesEpisodes(s, Trees[s][1]), NEW x \in Series, RowsKept(x) \/ x = s
  PROVE  RowsKept(x)'
<1> DEFINE tree == Trees[s][1]
           N == Numbers(numbered(tree))
<1>1. DOMAIN mapped = Urls /\ s[1] \in Urls /\ x[1] \in Urls
  BY PanelOf DEF FilesBasics
<1>2. /\ \A u \in Urls \ {s[1]} : mapped'[u] = mapped[u]
      /\ N # {} => DOMAIN mapped'[s[1]] = N \cup rowsBeside(s)
      /\ N = {} => mapped' = mapped
  BY <1>1, StoredRows
<1>3. \A n \in DOMAIN mapped[s[1]] : mapped[s[1]][n].of = s => n \in N
  <2>1. PICK k \in 1..upstream[s] : \A n \in DOMAIN mapped[s[1]] : mapped[s[1]][n].of = s => n \in Numbers(numbered(Trees[s][k]))
    BY DEF OneListPerSeries
  <2>2. k = 1
    BY <2>1
  <2> QED
    BY <2>1, <2>2
<1>4. \A n \in DOMAIN mapped[s[1]] : n \in N \/ n \in rowsBeside(s)
  BY <1>3 DEF rowsBeside
<1>5. TreeOf(x)' = TreeOf(x) /\ TreeOf(s) = tree
  BY DEF TreeOf
<1> HIDE DEF N
<1>6. DOMAIN mapped[x[1]] \subseteq DOMAIN mapped'[x[1]]
  BY <1>1, <1>2, <1>4
<1>7. CASE RowsKept(x)
  BY <1>5, <1>6, <1>7 DEF RowsKept
<1>8. CASE x = s
  <2>1. N \subseteq DOMAIN mapped'[s[1]]
    BY <1>2
  <2> QED
    BY <1>5, <1>8, <2>1 DEF RowsKept, N
<1> QED
  BY <1>7, <1>8

LEMMA MappedIsOneList ==
  ASSUME FilesIInv, NEW r \in FileClients, RequestStep(r), Frame(r)
  PROVE  /\ DOMAIN mapped' = Urls /\ OneListPerSeries'
         /\ ~relisted => \A x \in Series : RowsKept(x) \/ (Persist(r) /\ x = SeriesOf(file[r])) => RowsKept(x)'
<1>1. FilesBasics /\ DOMAIN mapped = Urls /\ OneListPerSeries /\ upstream' = upstream
  BY DEF FilesIInv, FilesBasics, Frame
<1>2. CASE mapped' = mapped /\ ~Persist(r)
  BY <1>1, <1>2 DEF OneListPerSeries, RowsKept, TreeOf
<1>3. ASSUME Persist(r), NEW s \in Series, s = SeriesOf(file[r])
      PROVE  /\ DOMAIN mapped' = Urls /\ OneListPerSeries'
             /\ ~relisted => \A x \in Series : RowsKept(x) \/ x = s => RowsKept(x)'
  <2>1. PICK i \in 1..upstream[s] : mapped' = SetSeriesEpisodes(s, Trees[s][i])
    BY <1>3, PersistStores
  <2>2. DOMAIN mapped' = Urls /\ OneListPerSeries'
    BY <1>1, <2>1, ListsAfterPersist
  <2>3. ~relisted => i = 1 /\ \A x \in Series : upstream[x] = 1
    BY <2>1 DEF FilesIInv, StoredInv
  <2> QED
    BY <1>1, <2>1, <2>2, <2>3, RowsAfterPersist
<1>4. Persist(r) => SeriesOf(file[r]) \in Series
  BY PersistStores
<1> QED
  BY <1>2, <1>3, <1>4, TableEffects


LEMMA EpisodesAreStored ==
  ASSUME FilesIInv, NEW r \in FileClients, RequestStep(r)
  PROVE  \A u \in Urls : DOMAIN mapped'[u] \subseteq Episodes
<1>1. FilesBasics /\ DOMAIN mapped = Urls /\ \A u \in Urls : DOMAIN mapped[u] \subseteq Episodes
  BY DEF FilesIInv, FilesBasics, FilesTypeOK
<1>2. ASSUME Persist(r), NEW u \in Urls PROVE DOMAIN mapped'[u] \subseteq Episodes
  <2> DEFINE s == SeriesOf(file[r])
  <2>1. PICK i \in 1..upstream[s] : mapped' = SetSeriesEpisodes(s, Trees[s][i])
    BY <1>2, PersistStores
  <2>2. s \in Series /\ s[1] \in Urls
    BY <1>2, PersistStores, PanelOf
  <2> DEFINE a == [of |-> s, tree |-> Trees[s][i]]
  <2>3. a \in Published /\ a.tree = Trees[s][i]
    BY <2>2 DEF Published
  <2> HIDE DEF a
  <2>4. Numbers(numbered(Trees[s][i])) \subseteq Episodes
    BY <1>1, <2>3, AnswerIsAList
  <2>5. rowsBeside(s) \subseteq Episodes
    BY <1>1, <2>2 DEF rowsBeside
  <2> HIDE DEF s
  <2> QED
    BY <1>1, <2>1, <2>2, <2>4, <2>5, StoredRows
<1> QED
  BY <1>1, <1>2, TableEffects


\* The tree a request renders.
LEMMA RenderedTree ==
  ASSUME FilesIInv, NEW r \in FileClients
  PROVE  /\ DOMAIN mergeTrees(file[r].got) \subseteq Episodes
         /\ \A n \in DOMAIN mergeTrees(file[r].got) : \E k \in 1..Len(file[r].got) :
              mergeTrees(file[r].got)[n].by = file[r].got[k].of
<1> DEFINE got == file[r].got
           tree == mergeTrees(got)
<1>1. got \in Seq(Published)
  BY RecordOf DEF FileRecords
<1>2. Len(got) \in Nat /\ \A k \in 1..Len(got) : got[k] \in Published
  <2> HIDE DEF got
  <2> QED
    BY <1>1
<1> HIDE DEF got
<1>3. \A n \in DOMAIN tree : \E k \in 1..Len(got) : n \in DOMAIN entriesOf(got[k]) /\ tree[n] = entriesOf(got[k])[n]
  BY <1>2, MergeIsUnion
<1> HIDE DEF tree
<1>4. ASSUME NEW n \in DOMAIN tree
      PROVE  n \in Episodes /\ \E k \in 1..Len(got) : tree[n].by = got[k].of
  <2>1. PICK k \in 1..Len(got) : n \in DOMAIN entriesOf(got[k]) /\ tree[n] = entriesOf(got[k])[n]
    BY <1>3
  <2>2. got[k] \in Published
    BY <1>2
  <2>3. n \in Numbers(numbered(got[k].tree)) /\ tree[n].by = got[k].of
    BY <2>1, EntriesHaveTheNumbers
  <2>4. n \in Episodes
    BY <2>2, <2>3, RecordOf, AnswerIsAList
  <2> QED
    BY <2>3, <2>4
<1> QED
  BY <1>4 DEF got, tree

\* What a step does to the answers of its request.
LEMMA GotEffects ==
  ASSUME FilesIInv, NEW r \in FileClients, RequestStep(r)
  PROVE  \/ file'[r].got = <<>>
         \/ file'[r].got = file[r].got /\ file[r].pc # "persist"
         \/ file'[r].got = file[r].got /\ Persist(r)
         \/ file'[r].pc = "persist" /\ file[r].pc # "persist" /\ \E a \in Published : file'[r].got = Append(file[r].got, a)
<1>1. CASE buildRemoteSeriesInfo(r) \/ (\E ep \in Episodes : serveSeriesEpisode(r, ep)) \/ serveVODChannel(r)
  BY <1>1, StartFields
<1>2. CASE NextOrigin(r)
  <2> DEFINE i == Head(file[r].todo)
  <2>1. \/ Goes(r, "render") \/ Goes(r, "fallback")
        \/ \E to \in {"try", "check"} : file'[r] = Taken(r, to, i)
    BY <1>2, RecordOf DEF NextOrigin, Taken, FilesBasics
  <2>2. file[r].pc = "origin"
    BY <1>2 DEF NextOrigin, At
  <2> HIDE DEF i
  <2> QED
    BY <2>1, <2>2, GoesFields, TakenFields DEF SamePlace
<1>3. CASE FetchXCSeriesInfo(r)
  <2> DEFINE a == [of |-> SeriesOf(file[r]), tree |-> TreeOf(SeriesOf(file[r]))]
  <2>1. /\ file[r].pc \in {"check", "add", "fetch"}
        /\ \/ \E to : Goes(r, to)
           \/ file' = [file EXCEPT ![r].pc = "persist", ![r].got = Append(@, a)]
    BY <1>3 DEF FetchXCSeriesInfo, At
  <2>2. a \in Published
    <3>1. SeriesOf(file[r]) \in Series
      BY <2>1, HasSeries
    <3> QED
      BY <3>1, RecordOf DEF Published, TreeOf, FilesBasics
  <2>3. file' = [file EXCEPT ![r].pc = "persist", ![r].got = Append(@, a)]
        => file'[r].pc = "persist" /\ file'[r].got = Append(file[r].got, a)
    BY AnsweredFields
  <2> HIDE DEF a
  <2> QED
    BY <2>1, <2>2, <2>3, GoesFields DEF SamePlace
<1>4. CASE Persist(r)
  <2>1. \E to : Goes(r, to)
    BY <1>4 DEF Persist
  <2> QED
    BY <1>4, <2>1, GoesFields DEF SamePlace
<1>5. CASE OriginMissed(r) \/ MarkStreamDeadByHash(r)
  BY <1>5, GivenUpFields DEF OriginMissed, MarkStreamDeadByHash, At
<1>6. CASE RenderInfo(r) \/ serveFallbackVideo(r)
  <2>1. \E reply : Ends(r, reply)
    BY <1>6 DEF RenderInfo, serveFallbackVideo
  <2> QED
    BY <2>1, EndsFields
<1>7. CASE attemptRemoteFile(r)
  <2>1. file[r].pc # "persist"
    BY <1>7 DEF attemptRemoteFile, At
  <2>2. (\E asked : AttemptFailed(r, asked)) \/ (\E reply : Ends(r, reply)) \/ (\E to : Goes(r, to))
    BY <1>7 DEF attemptRemoteFile
  <2> QED
    BY <2>1, <2>2, FailedFields, GoesFields, EndsFields DEF SamePlace
<1> QED
  BY <1>1, <1>2, <1>3, <1>4, <1>5, <1>6, <1>7 DEF RequestStep

LEMMA StoredStays ==
  ASSUME FilesIInv, NEW r \in FileClients, RequestStep(r), Frame(r)
  PROVE  StoredInv'
<1> SUFFICES ASSUME ~relisted'
             PROVE  /\ \A p \in Series : upstream'[p] = 1
                    /\ \A x \in FileClients : \A k \in 1..Len(file'[x].got) :
                         isStored(file'[x], k) => \A s : s = file'[x].got[k].of => RowsKept(s)'
                    /\ merged' # NoTree => \A n \in DOMAIN merged' : \A s \in Series : s = merged'[n].by => RowsKept(s)'
  BY DEF StoredInv, isStored, RowsKept, TreeOf
<1>1. ~relisted /\ upstream' = upstream
  BY DEF Frame
<1>2. /\ \A p \in Series : upstream[p] = 1
      /\ \A x \in FileClients : \A k \in 1..Len(file[x].got) : isStored(file[x], k) => RowsKept(file[x].got[k].of)
      /\ merged # NoTree => \A n \in DOMAIN merged : merged[n].by \in Series => RowsKept(merged[n].by)
  BY <1>1 DEF FilesIInv, StoredInv
<1>3. \A p \in Series : RowsKept(p) \/ (Persist(r) /\ p = SeriesOf(file[r])) => RowsKept(p)'
  BY <1>1, MappedIsOneList
<1>4. \A x \in FileClients : /\ file[x].got \in Seq(Published) /\ Len(file[x].got) \in Nat
                             /\ \A k \in 1..Len(file[x].got) : file[x].got[k].of \in Series
  <2>1. ASSUME NEW x \in FileClients PROVE file[x].got \in Seq(Published)
    BY RecordOf DEF FileRecords
  <2>2. \A a \in Published : a.of \in Series
    BY RecordOf, AnswerIsAList
  <2> QED
    BY <2>1, <2>2
<1>5. ASSUME NEW x \in FileClients, NEW k \in 1..Len(file'[x].got), isStored(file'[x], k), NEW s, s = file'[x].got[k].of
      PROVE  s \in Series /\ RowsKept(s)'
  <2>1. CASE x # r
    <3>1. file'[x] = file[x]
      BY <2>1 DEF Frame
    <3> QED
      BY <1>2, <1>3, <1>4, <1>5, <3>1
  <2>2. CASE file'[r].got = file[r].got /\ file[r].pc # "persist" /\ x = r
    <3>1. isStored(file[r], k)
      BY <2>2 DEF isStored
    <3> QED
      BY <1>2, <1>3, <1>4, <1>5, <2>2, <3>1
  <2>3. CASE file'[r].got = file[r].got /\ Persist(r) /\ x = r
    <3>1. CASE k < Len(file[r].got)
      <4>1. isStored(file[r], k)
        BY <3>1 DEF isStored
      <4> QED
        BY <1>2, <1>3, <1>4, <1>5, <2>3, <4>1
    <3>2. CASE k = Len(file[r].got)
      BY <1>3, <1>4, <1>5, <2>3, <3>2, PersistStores
    <3> QED
      BY <1>4, <1>5, <2>3, <3>1, <3>2
  <2>4. CASE x = r /\ file'[r].pc = "persist" /\ file[r].pc # "persist" /\ \E a \in Published : file'[r].got = Append(file[r].got, a)
    <3>1. PICK a \in Published : file'[r].got = Append(file[r].got, a)
      BY <2>4
    <3>2. Len(file'[r].got) = Len(file[r].got) + 1 /\ \A j \in 1..Len(file[r].got) : file'[r].got[j] = file[r].got[j]
      BY <1>4, <3>1
    <3>3. k \in 1..Len(file[r].got) /\ isStored(file[r], k) /\ s = file[r].got[k].of
      BY SMTT(40), <1>4, <1>5, <2>4, <3>2 DEF isStored
    <3> QED
      BY <1>2, <1>3, <1>4, <3>3
  <2>5. CASE x = r /\ file'[r].got = <<>>
    BY <2>5
  <2> QED
    BY <2>1, <2>2, <2>3, <2>4, <2>5, GotEffects
<1>6. ASSUME merged' # NoTree, NEW n \in DOMAIN merged', NEW s \in Series, s = merged'[n].by
      PROVE  RowsKept(s)'
  <2>1. CASE merged' = merged
    BY <1>2, <1>3, <1>6, <2>1
  <2>2. CASE RenderInfo(r) /\ merged' # merged
    <3>1. merged' = mergeTrees(file[r].got) /\ file[r].pc = "render"
      BY <2>2 DEF RenderInfo, At
    <3>2. PICK k \in 1..Len(file[r].got) : s = file[r].got[k].of
      BY <1>6, <3>1, RenderedTree
    <3>3. isStored(file[r], k)
      BY <3>1 DEF isStored
    <3> QED
      BY <1>2, <1>3, <3>2, <3>3
  <2> QED
    BY <2>1, <2>2, TableEffects
<1> QED
  BY <1>1, <1>2, <1>5, <1>6


\* What a step does to the walk of a delivery.
LEMMA WalkSteps ==
  ASSUME FilesIInv, NEW r \in FileClients, RequestStep(r)
  PROVE  \/ ~file'[r].holds
         \/ /\ file'[r].kind = "episode" /\ dead' = dead
            /\ file'[r].todo = remoteSeriesOrigins \/ remoteSeriesOrigins = <<>>
         \/ file'[r].kind = "movie" /\ file'[r].todo = candidates("movie") /\ dead' = dead
         \/ /\ file'[r].kind = file[r].kind /\ file[r].holds /\ file'[r].todo = file[r].todo
            /\ \/ file'[r].tried = file[r].tried \cup {file[r].cur}
               \/ /\ file'[r].tried = file[r].tried /\ file'[r].cur = file[r].cur
                  /\ file[r].pc \in AtOrigin => file'[r].pc \in AtOrigin
         \/ /\ file'[r].kind = file[r].kind /\ file[r].holds /\ file'[r].tried = file[r].tried
            /\ file[r].pc = "origin" /\ file[r].todo # <<>> /\ file'[r].cur = Head(file[r].todo)
            /\ file'[r].todo = Tail(file[r].todo) /\ file'[r].pc \in AtOrigin
<1>1. CASE buildRemoteSeriesInfo(r) \/ (\E ep \in Episodes : serveSeriesEpisode(r, ep)) \/ serveVODChannel(r)
  <2>1. file'[r].holds \in BOOLEAN
    BY <1>1, StepIsGood DEF RequestStep, GoodRecord, FileRecords
  <2> QED
    BY <1>1, <2>1, StartFields
<1>2. CASE NextOrigin(r)
  <2> DEFINE i == Head(file[r].todo)
  <2>1. file[r].pc = "origin"
    BY <1>2 DEF NextOrigin, At
  <2>2. \/ Goes(r, "render") \/ Goes(r, "fallback")
        \/ file[r].todo # <<>> /\ \E to \in {"try", "check"} : file'[r] = Taken(r, to, i)
    BY <1>2, RecordOf DEF NextOrigin, Taken, FilesBasics
  <2>3. CASE Goes(r, "render") \/ Goes(r, "fallback")
    BY <2>1, <2>3, GoesFields DEF SamePlace, AtOrigin
  <2>4. CASE file[r].todo # <<>> /\ \E to \in {"try", "check"} : file'[r] = Taken(r, to, i)
    <3>1. PICK to \in {"try", "check"} : file'[r] = Taken(r, to, i)
      BY <2>4
    <3>2. to \in AtOrigin
      BY DEF AtOrigin
    <3>3. /\ file'[r].pc = to /\ file'[r].kind = file[r].kind /\ file'[r].cur = i
          /\ file'[r].holds = file[r].holds /\ file'[r].todo = Tail(file[r].todo) /\ file'[r].tried = file[r].tried
      BY <3>1, TakenFields
    <3> QED
      BY <2>1, <2>4, <3>2, <3>3
  <2> QED
    BY <2>2, <2>3, <2>4
<1>3. CASE FetchXCSeriesInfo(r)
  <2> DEFINE a == [of |-> SeriesOf(file[r]), tree |-> TreeOf(SeriesOf(file[r]))]
  <2>1. \/ \E to \in {"missed", "add", "fetch"} : Goes(r, to)
        \/ file' = [file EXCEPT ![r].pc = "persist", ![r].got = Append(@, a)]
    BY <1>3 DEF FetchXCSeriesInfo
  <2>2. file' = [file EXCEPT ![r].pc = "persist", ![r].got = Append(@, a)]
        => /\ file'[r].pc = "persist" /\ file'[r].kind = file[r].kind /\ file'[r].cur = file[r].cur
           /\ file'[r].holds = file[r].holds /\ file'[r].todo = file[r].todo /\ file'[r].tried = file[r].tried
    BY AnsweredFields
  <2> HIDE DEF a
  <2> QED
    BY <2>1, <2>2, GoesFields DEF SamePlace, AtOrigin
<1>4. CASE Persist(r)
  <2>1. /\ \E to \in {"origin", "missed", "try"} : Goes(r, to) /\ (to = "origin" => file[r].kind = "info")
    BY <1>4 DEF Persist
  <2>2. file[r].holds => file[r].kind # "info"
    BY RecordOf DEF GoodRecord
  <2> QED
    BY <2>1, <2>2, GoesFields DEF SamePlace, AtOrigin
<1>5. CASE OriginMissed(r) \/ MarkStreamDeadByHash(r)
  <2>1. file' = [file EXCEPT ![r].pc = "origin", ![r].tried = @ \cup {file[r].cur}]
    BY <1>5 DEF OriginMissed, MarkStreamDeadByHash
  <2> QED
    BY <2>1, GivenUpFields
<1>6. CASE RenderInfo(r) \/ serveFallbackVideo(r)
  <2>1. \E reply : Ends(r, reply)
    BY <1>6 DEF RenderInfo, serveFallbackVideo
  <2> QED
    BY <2>1, EndsFields
<1>7. CASE attemptRemoteFile(r)
  <2>1. (\E asked : AttemptFailed(r, asked)) \/ (\E reply : Ends(r, reply)) \/ (\E to \in {"tryadd", "asked", "streaming"} : Goes(r, to))
    BY <1>7 DEF attemptRemoteFile
  <2> QED
    BY <2>1, FailedFields, GoesFields, EndsFields DEF SamePlace, AtOrigin
<1> QED
  BY <1>1, <1>2, <1>3, <1>4, <1>5, <1>6, <1>7 DEF RequestStep

LEMMA InHeadOrTail ==
  ASSUME NEW S, NEW s \in Seq(S), s # <<>>, NEW x, \E j \in 1..Len(s) : s[j] = x
  PROVE  x = Head(s) \/ \E j \in 1..Len(Tail(s)) : Tail(s)[j] = x
<1>1. PICK j \in 1..Len(s) : s[j] = x
  OBVIOUS
<1>2. CASE j = 1
  BY <1>1, <1>2
<1>3. CASE j # 1
  <2>1. j - 1 \in 1..Len(Tail(s)) /\ Tail(s)[j - 1] = x
    BY <1>1, <1>3
  <2> QED
    BY <2>1
<1> QED
  BY <1>2, <1>3

LEMMA WalkStays ==
  ASSUME FilesIInv, NEW r \in FileClients, RequestStep(r), Frame(r)
  PROVE  WalkInv'
<1> SUFFICES ASSUME fileOps' = 0, NEW x \in FileClients, file'[x].holds, NEW i \in DOMAIN StreamsOf(channelOf(file'[x].kind))
             PROVE  Accounted(x, i)'
  BY DEF WalkInv
<1>1. fileOps = 0 /\ dead \subseteq dead'
  <2>1. dead \subseteq dead'
    BY TableEffects DEF MarkStreamDeadByHash
  <2> QED
    BY <2>1 DEF Frame
<1>2. ASSUME NEW y \in FileClients, file[y].holds, NEW n \in DOMAIN StreamsOf(channelOf(file[y].kind)) PROVE Accounted(y, n)
  BY <1>1, <1>2 DEF FilesIInv, WalkInv
<1>3. CASE x # r
  <2>1. file'[x] = file[x]
    BY <1>3 DEF Frame
  <2>2. Accounted(x, i)
    BY <1>2, <2>1
  <2> QED
    BY <1>1, <2>1, <2>2 DEF Accounted
<1>4. CASE /\ x = r /\ file'[r].kind = "episode" /\ dead' = dead
           /\ file'[r].todo = remoteSeriesOrigins \/ remoteSeriesOrigins = <<>>
  <2>1. channelOf(file'[r].kind) = "series" /\ StreamsOf("series") = SeriesStreams
    BY <1>4 DEF channelOf, StreamsOf
  <2>2. i \in Asked \/ SeriesStreams[i].blocked \/ SeriesStreams[i].id = "" \/ <<"series", i>> \in dead
    BY <1>4, <2>1 DEF Asked, alive
  <2>3. ASSUME i \in Asked PROVE \E j \in 1..Len(file'[r].todo) : file'[r].todo[j] = i
    <3>1. \E j \in 1..Len(remoteSeriesOrigins) : remoteSeriesOrigins[j] = i
      BY <2>3, RecordOf, OriginsAreAsked
    <3>2. remoteSeriesOrigins # <<>>
      BY <3>1
    <3> QED
      BY <1>4, <3>1, <3>2
  <2> QED
    BY <1>4, <2>1, <2>2, <2>3 DEF Accounted
<1>5. CASE x = r /\ file'[r].kind = "movie" /\ file'[r].todo = candidates("movie") /\ dead' = dead
  <2>1. channelOf(file'[r].kind) = "movie"
    BY <1>5 DEF channelOf
  <2>2. i \in alive("movie") \/ StreamsOf("movie")[i].blocked \/ <<"movie", i>> \in dead
    BY <1>5, <2>1 DEF alive
  <2>3. i \in alive("movie") => \E j \in 1..Len(candidates("movie")) : candidates("movie")[j] = i
    BY RecordOf, CandidatesAreAlive
  <2> QED
    BY <1>5, <2>1, <2>2, <2>3 DEF Accounted
<1>6. CASE /\ x = r /\ file'[r].kind = file[r].kind /\ file[r].holds /\ file'[r].todo = file[r].todo
           /\ \/ file'[r].tried = file[r].tried \cup {file[r].cur}
              \/ /\ file'[r].tried = file[r].tried /\ file'[r].cur = file[r].cur
                 /\ file[r].pc \in AtOrigin => file'[r].pc \in AtOrigin
  <2>1. Accounted(r, i)
    BY <1>2, <1>6
  <2> QED
    BY <1>1, <1>6, <2>1 DEF Accounted
<1>7. CASE /\ x = r /\ file'[r].kind = file[r].kind /\ file[r].holds /\ file'[r].tried = file[r].tried
           /\ file[r].pc = "origin" /\ file[r].todo # <<>> /\ file'[r].cur = Head(file[r].todo)
           /\ file'[r].todo = Tail(file[r].todo) /\ file'[r].pc \in AtOrigin
  <2>1. Accounted(r, i)
    BY <1>2, <1>7
  <2> DEFINE U == Usable(channelOf(file[r].kind))
  <2>2. file[r].todo \in Seq(U)
    BY RecordOf DEF FileRecords
  <2> HIDE DEF U
  <2>3. (\E j \in 1..Len(file[r].todo) : file[r].todo[j] = i)
        => i = file'[r].cur \/ \E j \in 1..Len(file'[r].todo) : file'[r].todo[j] = i
    <3> SUFFICES ASSUME \E j \in 1..Len(file[r].todo) : file[r].todo[j] = i
                 PROVE  i = Head(file[r].todo) \/ \E j \in 1..Len(Tail(file[r].todo)) : Tail(file[r].todo)[j] = i
      BY <1>7
    <3> QED
      BY <1>7, <2>2, InHeadOrTail
  <2> QED
    BY <1>1, <1>7, <2>1, <2>3 DEF Accounted, AtOrigin
<1> QED
  BY <1>3, <1>4, <1>5, <1>6, <1>7, WalkSteps

\* The clip is sent when nothing is left to try.
LEMMA FallbackStays ==
  ASSUME FilesIInv, NEW r \in FileClients, RequestStep(r), Frame(r)
  PROVE  FallbackInv'
<1>1. \A x \in FileClients : file[x].pc = "fallback" => file[x].todo = <<>> /\ file[x].holds
  BY DEF FilesIInv, FallbackInv
<1>2. file'[r].pc = "fallback" => file'[r].todo = <<>> /\ file'[r].holds
  <2>1. CASE buildRemoteSeriesInfo(r) \/ (\E ep \in Episodes : serveSeriesEpisode(r, ep)) \/ serveVODChannel(r)
    BY <2>1, StartFields
  <2>2. CASE NextOrigin(r)
    <3> DEFINE i == Head(file[r].todo)
    <3>1. file[r].pc = "origin"
      BY <2>2 DEF NextOrigin, At
    <3>2. \/ Goes(r, "render")
          \/ Goes(r, "fallback") /\ file[r].kind # "info" /\ file[r].todo = <<>>
          \/ \E to \in {"try", "check"} : file'[r] = Taken(r, to, i)
      BY <2>2, RecordOf DEF NextOrigin, Taken, FilesBasics
    <3>3. file[r].kind # "info" => file[r].holds
      BY <3>1, RecordOf DEF GoodRecord, FileRecords
    <3> HIDE DEF i
    <3> QED
      BY <3>2, <3>3, GoesFields, TakenFields DEF SamePlace
  <2>3. CASE FetchXCSeriesInfo(r)
    <3> DEFINE a == [of |-> SeriesOf(file[r]), tree |-> TreeOf(SeriesOf(file[r]))]
    <3>1. \/ \E to \in {"missed", "add", "fetch"} : Goes(r, to)
          \/ file' = [file EXCEPT ![r].pc = "persist", ![r].got = Append(@, a)]
      BY <2>3 DEF FetchXCSeriesInfo
    <3>2. file' = [file EXCEPT ![r].pc = "persist", ![r].got = Append(@, a)] => file'[r].pc = "persist"
      BY AnsweredFields
    <3> HIDE DEF a
    <3> QED
      BY <3>1, <3>2, GoesFields
  <2>4. CASE Persist(r)
    <3>1. \E to \in {"origin", "missed", "try"} : Goes(r, to)
      BY <2>4 DEF Persist
    <3> QED
      BY <3>1, GoesFields
  <2>5. CASE OriginMissed(r) \/ MarkStreamDeadByHash(r)
    BY <2>5, GivenUpFields DEF OriginMissed, MarkStreamDeadByHash
  <2>6. CASE RenderInfo(r) \/ serveFallbackVideo(r)
    <3>1. \E reply : Ends(r, reply)
      BY <2>6 DEF RenderInfo, serveFallbackVideo
    <3> QED
      BY <3>1, EndsFields
  <2>7. CASE attemptRemoteFile(r)
    <3>1. (\E asked : AttemptFailed(r, asked)) \/ (\E reply : Ends(r, reply)) \/ (\E to \in {"tryadd", "asked", "streaming"} : Goes(r, to))
      BY <2>7 DEF attemptRemoteFile
    <3> QED
      BY <3>1, FailedFields, GoesFields, EndsFields
  <2> QED
    BY <2>1, <2>2, <2>3, <2>4, <2>5, <2>6, <2>7 DEF RequestStep
<1> QED
  BY <1>1, <1>2 DEF FallbackInv, Frame


\* A request's step keeps the invariant.
LEMMA RequestStepInv ==
  ASSUME FilesIInv, NEW r \in FileClients, RequestStep(r)
  PROVE  FilesIInv'
<1>1. Frame(r) /\ \A x \in FileClients : GoodRecord(file'[x])
  BY StepIsGood
<1>2. ConnEffect(r) /\ SlotEffect(r) /\ SessionEffect(r)
  BY StepEffects DEF Effects
<1>3. FilesBasics /\ UNCHANGED <<upstream, relisted, fileOps, preferred>> /\ DOMAIN file' = FileClients
  BY <1>1 DEF FilesIInv, Frame
<1>4. DOMAIN mapped' = Urls /\ OneListPerSeries'
  BY <1>1, MappedIsOneList
<1>5. conns' \in [Providers -> Nat] /\ \A p \in Providers : conns'[p] = Cardinality(Using(p)')
  BY <1>1, <1>2, ConnsCount
<1>6. slots' \in Nat /\ slots' = Cardinality({x \in FileClients : file'[x].holds}) /\ slots' <= SlotLimit
  BY <1>1, <1>2, SlotsCount
<1>7. filesStarted' \in Nat
  <2>1. filesStarted \in Nat
    BY <1>3 DEF FilesBasics
  <2>2. CASE buildRemoteSeriesInfo(r) \/ (\E ep \in Episodes : serveSeriesEpisode(r, ep)) \/ serveVODChannel(r)
    <3>1. filesStarted' = filesStarted + 1
      BY <2>2 DEF buildRemoteSeriesInfo, serveSeriesEpisode, serveVODChannel, FileStarts
    <3> QED
      BY <2>1, <3>1
  <2>3. CASE NextOrigin(r) \/ FetchXCSeriesInfo(r) \/ OriginMissed(r) \/ attemptRemoteFile(r) \/ serveFallbackVideo(r)
             \/ Persist(r) \/ RenderInfo(r) \/ MarkStreamDeadByHash(r)
    BY <2>1, <2>3 DEF NextOrigin, FetchXCSeriesInfo, OriginMissed, attemptRemoteFile, serveFallbackVideo,
                      Persist, RenderInfo, MarkStreamDeadByHash
  <2> QED
    BY <2>2, <2>3 DEF RequestStep
<1>8. FilesBasics'
  BY <1>3, <1>4, <1>5, <1>6, <1>7 DEF FilesBasics
<1>9. FilesTypeOK'
  <2>1. \A u \in Urls : DOMAIN mapped'[u] \subseteq Episodes
    BY EpisodesAreStored
  <2>2. merged' # NoTree => DOMAIN merged' \subseteq Episodes
    <3>1. CASE merged' = merged
      BY <3>1 DEF FilesIInv, FilesTypeOK
    <3>2. CASE RenderInfo(r) /\ merged' # merged
      BY <3>2, RenderedTree DEF RenderInfo
    <3> QED
      BY <3>1, <3>2, TableEffects
  <2>3. fileSessions' = {<<x, Source(x)>> : x \in Trying}'
    BY <1>1, <1>2, SessionsShown
  <2> QED
    BY <1>5, <1>6, <2>1, <2>2, <2>3 DEF FilesTypeOK
<1>10. StoredInv' /\ WalkInv' /\ FallbackInv'
  BY <1>1, StoredStays, WalkStays, FallbackStays
<1>11. \A x \in FileClients : RequestOK(x)'
  <2>1. Published' = Published
    BY <1>3 DEF Published
  <2>2. \A q : GoodRecord(q) => GoodRecord(q)'
    BY <2>1 DEF GoodRecord, FileRecords
  <2> QED
    BY <1>1, <2>1 DEF RequestOK, GoodRecord, FileRecords
<1> QED
  BY <1>4, <1>8, <1>9, <1>10, <1>11 DEF FilesIInv


\* What happens outside the requests keeps the invariant.
LEMMA SeqOfWider ==
  ASSUME NEW A, NEW B, A \subseteq B
  PROVE  Seq(A) \subseteq Seq(B)
  OBVIOUS

LEMMA OutsideInv ==
  ASSUME FilesIInv, Outside,
         upstream' \in [Series -> Nat], \A p \in Series : upstream'[p] \in 1..Len(Trees[p]) /\ upstream[p] <= upstream'[p],
         preferred' \in [{"series", "movie"} -> Nat],
         \A ch \in {"series", "movie"} : preferred'[ch] = 0 \/ preferred'[ch] < Len(StreamsOf(ch)),
         DOMAIN mapped' = Urls, \A u \in Urls : mapped'[u] = mapped[u] \/ mapped'[u] = NoMapping,
         merged' = merged \/ merged' = NoTree, relisted' \in BOOLEAN,
         ~relisted' => UNCHANGED <<upstream, mapped, relisted>>
  PROVE  FilesIInv'
<1>1. /\ UNCHANGED <<conns, slots, fileSessions, file, filesStarted>> /\ fileOps' = fileOps + 1
      /\ FilesBasics /\ FilesTypeOK /\ OneListPerSeries /\ StoredInv
  BY DEF Outside, FilesIInv
<1>2. FilesBasics'
  BY <1>1 DEF FilesBasics
<1>3. OneListPerSeries'
  <2>1. ASSUME NEW x \in Series
        PROVE  \E i \in 1..upstream'[x] : \A n \in DOMAIN mapped'[x[1]] : mapped'[x[1]][n].of = x =>
                 n \in Numbers(numbered(Trees[x][i])) /\ mapped'[x[1]][n] = mappingsOf(x, Trees[x][i])[n]
    <3>1. 1..upstream[x] \subseteq 1..upstream'[x]
      BY <1>1 DEF FilesBasics
    <3>2. PICK i \in 1..upstream[x] : \A n \in DOMAIN mapped[x[1]] : mapped[x[1]][n].of = x =>
                 n \in Numbers(numbered(Trees[x][i])) /\ mapped[x[1]][n] = mappingsOf(x, Trees[x][i])[n]
      BY <1>1 DEF OneListPerSeries
    <3>3. mapped'[x[1]] = mapped[x[1]] \/ DOMAIN mapped'[x[1]] = {}
      BY PanelOf DEF NoMapping
    <3> QED
      BY <3>1, <3>2, <3>3
  <2> QED
    BY <2>1 DEF OneListPerSeries
<1>4. FilesTypeOK'
  <2>1. \A u \in Urls : DOMAIN mapped'[u] \subseteq Episodes
    BY <1>1 DEF FilesTypeOK, NoMapping
  <2>2. \A p : Using(p)' = Using(p)
    BY <1>1 DEF Using, Source, StreamOf
  <2>3. fileSessions' = {<<x, Source(x)>> : x \in Trying}' /\ slots' = Cardinality({x \in FileClients : file[x].holds}')
    BY <1>1 DEF FilesTypeOK, Trying, Source, StreamOf
  <2> QED
    BY <1>1, <2>1, <2>2, <2>3 DEF FilesTypeOK
<1>5. StoredInv'
  <2>1. ~relisted' => /\ UNCHANGED <<upstream, mapped, relisted, file>> /\ \A x : RowsKept(x)' <=> RowsKept(x)
    BY <1>1 DEF RowsKept, TreeOf
  <2> QED
    BY <1>1, <2>1 DEF StoredInv, isStored
<1>6. WalkInv' /\ FallbackInv'
  <2>1. fileOps' # 0
    BY <1>1 DEF FilesBasics
  <2> QED
    BY <1>1, <2>1 DEF WalkInv, FallbackInv, FilesIInv
<1>7. ASSUME NEW x \in FileClients PROVE RequestOK(x)'
  <2>1. Published \subseteq Published'
    <3>1. \A p \in Series : 1..upstream[p] \subseteq 1..upstream'[p]
      BY <1>1 DEF FilesBasics
    <3> QED
      BY <3>1 DEF Published
  <2>2. Seq(Published) \subseteq Seq(Published')
    <3> DEFINE A == Published
               B == Published'
    <3>1. A \subseteq B
      BY <2>1
    <3> HIDE DEF A, B
    <3>2. Seq(A) \subseteq Seq(B)
      BY <3>1, SeqOfWider
    <3> QED
      BY <3>2 DEF A, B
  <2>3. GoodRecord(file[x]) /\ file' = file
    BY <1>1 DEF FilesIInv, RequestOK
  <2> QED
    BY <2>2, <2>3 DEF RequestOK, GoodRecord, FileRecords
<1> QED
  BY <1>2, <1>3, <1>4, <1>5, <1>6, <1>7 DEF FilesIInv

LEMMA OutsideStepInv ==
  ASSUME FilesIInv,
         \/ \E p \in Series : ProviderRelists(p)
         \/ PayloadAges
         \/ \E x \in dead : StreamRevived(x)
         \/ \E ch \in {"series", "movie"} : \E i \in 0..(Len(StreamsOf(ch)) - 1) : StreamPreferred(ch, i)
         \/ \E keep \in SUBSET Urls : PruneSeriesInfo(keep)
  PROVE  FilesIInv'
<1>1. FilesBasics
  BY DEF FilesIInv
<1>2. \A p \in Series : upstream[p] \in Nat
  BY <1>1 DEF FilesBasics
<1>3. ASSUME NEW p \in Series, ProviderRelists(p) PROVE FilesIInv'
  <2>1. /\ Outside /\ upstream' = [upstream EXCEPT ![p] = @ + 1] /\ upstream[p] < Len(Trees[p]) /\ relisted' = TRUE
        /\ UNCHANGED <<preferred, mapped, merged>>
    BY <1>3 DEF ProviderRelists, tableVars
  <2>2. Len(Trees[p]) \in Nat
    <3>1. Trees[p] \in Seq(Seq([num : Nat, id : STRING]))
      BY SeriesAssumption DEF SeriesAssumption
    <3> QED
      BY <3>1
  <2>3. upstream' \in [Series -> Nat] /\ \A q \in Series : upstream'[q] \in 1..Len(Trees[q]) /\ upstream[q] <= upstream'[q]
    BY <1>1, <2>1, <2>2 DEF FilesBasics
  <2> QED
    BY <1>1, <2>1, <2>3, OutsideInv DEF FilesBasics
<1>4. CASE PayloadAges \/ \E x \in dead : StreamRevived(x)
  <2>1. Outside /\ UNCHANGED <<upstream, preferred, mapped, merged, relisted>>
    BY <1>4 DEF PayloadAges, StreamRevived, tableVars
  <2> QED
    BY <1>1, <1>2, <2>1, OutsideInv DEF FilesBasics
<1>5. ASSUME NEW ch \in {"series", "movie"}, NEW i \in 0..(Len(StreamsOf(ch)) - 1), StreamPreferred(ch, i) PROVE FilesIInv'
  <2>1. Outside /\ preferred' = [preferred EXCEPT ![ch] = i] /\ UNCHANGED <<upstream, mapped, merged, relisted>>
    BY <1>5 DEF StreamPreferred, tableVars
  <2>2. Len(StreamsOf(ch)) \in Nat
    BY StreamsShape
  <2>3. /\ preferred' \in [{"series", "movie"} -> Nat]
        /\ \A c \in {"series", "movie"} : preferred'[c] = 0 \/ preferred'[c] < Len(StreamsOf(c))
    BY <1>1, <2>1, <2>2 DEF FilesBasics
  <2> QED
    BY <1>1, <1>2, <2>1, <2>3, OutsideInv DEF FilesBasics
<1>6. ASSUME NEW keep \in SUBSET Urls, PruneSeriesInfo(keep) PROVE FilesIInv'
  <2>1. /\ Outside /\ UNCHANGED <<upstream, preferred>> /\ merged' = NoTree /\ relisted' = TRUE
        /\ mapped' = [u \in Urls |-> IF u \in keep THEN mapped[u] ELSE NoMapping]
    BY <1>6 DEF PruneSeriesInfo
  <2> QED
    BY <1>1, <1>2, <2>1, OutsideInv DEF FilesBasics
<1> QED
  BY <1>3, <1>4, <1>5, <1>6

LEMMA FilesInitInv ==
  ASSUME SeriesInit
  PROVE  FilesIInv
<1>1. \A r \in FileClients : /\ file[r] = NoFile /\ file[r].pc = "idle" /\ file[r].kind = "" /\ file[r].holds = FALSE
                             /\ file[r].got = <<>>
  BY NoFileIsGood DEF SeriesInit
<1>2. FilesBasics
  <2>1. \A p \in Series : 1 \in 1..Len(Trees[p])
    <3>1. ASSUME NEW p \in Series PROVE Trees[p] \in Seq(Seq([num : Nat, id : STRING])) /\ Trees[p] # <<>>
      BY SeriesAssumption DEF SeriesAssumption
    <3> QED
      BY <3>1
  <2> QED
    BY <2>1 DEF FilesBasics, SeriesInit
<1>3. FilesTypeOK
  <2>1. \A p \in Providers : Using(p) = {}
    BY <1>1 DEF Using
  <2>2. Trying = {} /\ {r \in FileClients : file[r].holds} = {}
    BY <1>1 DEF Trying
  <2>3. Cardinality({}) = 0 /\ SlotLimit \in Nat
    BY FS_EmptySet, SeriesAssumption DEF SeriesAssumption
  <2> QED
    <3>1. {<<r, Source(r)>> : r \in Trying} = {}
      BY <2>2
    <3>2. DOMAIN NoMapping = {}
      BY DEF NoMapping
    <3>3. (\A p \in Providers : conns[p] = 0) /\ \A u \in Urls : mapped[u] = NoMapping
      BY DEF SeriesInit
    <3>4. slots = 0 /\ fileSessions = {} /\ merged = NoTree
      BY DEF SeriesInit
    <3>5. (\A p \in Providers : conns[p] = Cardinality(Using(p))) /\ \A u \in Urls : DOMAIN mapped[u] \subseteq Episodes
      BY <2>1, <2>3, <3>2, <3>3
    <3>6. slots = Cardinality({r \in FileClients : file[r].holds}) /\ slots <= SlotLimit
      BY <2>2, <2>3, <3>4
    <3> QED
      BY <3>1, <3>4, <3>5, <3>6 DEF FilesTypeOK
<1>4. OneListPerSeries
  <2>1. ASSUME NEW x \in Series PROVE DOMAIN mapped[x[1]] = {} /\ 1 \in 1..upstream[x]
    BY PanelOf DEF SeriesInit, NoMapping
  <2> QED
    BY <2>1 DEF OneListPerSeries
<1>5. StoredInv
  <2>1. (\A p \in Series : upstream[p] = 1) /\ merged = NoTree
    BY DEF SeriesInit
  <2>0. Len(<<>>) = 0
    OBVIOUS
  <2>2. \A r \in FileClients : Len(file[r].got) = 0
    BY <1>1, <2>0
  <2> QED
    BY <2>1, <2>2 DEF StoredInv
<1>6. WalkInv
  BY <1>1 DEF WalkInv
<1>7. ASSUME NEW r \in FileClients PROVE RequestOK(r)
  BY <1>1, NoFileIsGood DEF RequestOK
<1>8. FallbackInv
  BY <1>1 DEF FallbackInv
<1> QED
  BY <1>2, <1>3, <1>4, <1>5, <1>6, <1>7, <1>8 DEF FilesIInv

LEMMA FilesNextInv ==
  FilesIInv /\ [SeriesNext]_fileVars => FilesIInv'
<1> SUFFICES ASSUME FilesIInv, [SeriesNext]_fileVars PROVE FilesIInv'
  OBVIOUS
<1>1. CASE UNCHANGED fileVars
  <2>1. /\ UNCHANGED <<upstream, dead, preferred, conns, slots, mapped, merged, fileSessions, file, relisted, fileOps, filesStarted>>
        /\ FilesBasics /\ FilesTypeOK /\ OneListPerSeries /\ StoredInv /\ WalkInv /\ FallbackInv
    BY <1>1 DEF fileVars, FilesIInv
  <2>2. FilesBasics'
    BY <2>1 DEF FilesBasics
  <2>3. FilesTypeOK'
    BY <2>1 DEF FilesTypeOK, Using, Trying, Source, StreamOf
  <2>4. OneListPerSeries' /\ StoredInv'
    BY <2>1 DEF OneListPerSeries, StoredInv, isStored, RowsKept, TreeOf
  <2>5. WalkInv' /\ FallbackInv'
    <3>1. ASSUME NEW r \in FileClients, NEW i PROVE Accounted(r, i)' <=> Accounted(r, i)
      BY <2>1 DEF Accounted
    <3>2. WalkInv'
      BY <2>1, <3>1 DEF WalkInv
    <3>3. FallbackInv'
      BY <2>1 DEF FallbackInv
    <3> QED
      BY <3>2, <3>3
  <2>6. ASSUME NEW r \in FileClients PROVE RequestOK(r)'
    <3>1. GoodRecord(file[r]) /\ Published' = Published
      BY <2>1 DEF FilesIInv, RequestOK, Published
    <3> QED
      BY <2>1, <3>1 DEF RequestOK, GoodRecord, FileRecords
  <2> QED
    BY <2>2, <2>3, <2>4, <2>5, <2>6 DEF FilesIInv
<1>2. ASSUME NEW r \in FileClients, RequestStep(r) PROVE FilesIInv'
  BY <1>2, RequestStepInv
<1> QED
  BY <1>1, <1>2, OutsideStepInv DEF SeriesNext, RequestStep


-----------------------------------------------------------------------------
(* The results. *)

LEMMA FilesInvariance == SeriesSpec => []FilesIInv
<1>1. SeriesInit => FilesIInv
  BY FilesInitInv
<1> QED
  BY <1>1, FilesNextInv, PTL DEF SeriesSpec

LEMMA OfferedFollows ==
  FilesIInv => OfferedResolves
<1> SUFFICES ASSUME FilesIInv, ~relisted, merged # NoTree, NEW n \in DOMAIN merged, NEW p \in Series,
                    NEW m \in DOMAIN merged, merged[m].by = p, n \in Numbers(numbered(TreeOf(p)))
             PROVE  n \in DOMAIN mapped[p[1]]
  BY DEF OfferedResolves
<1>1. RowsKept(p)
  BY DEF FilesIInv, StoredInv
<1> QED
  BY <1>1 DEF RowsKept

LEMMA UnionFollows ==
  FilesIInv => TreeIsTheUnion
<1> SUFFICES ASSUME FilesIInv, NEW r \in FileClients, NEW k \in DOMAIN file[r].got,
                    NEW n \in Numbers(numbered(file[r].got[k].tree))
             PROVE  /\ n \in DOMAIN mergeTrees(file[r].got)
                    /\ \E j \in 1..k : mergeTrees(file[r].got)[n].by = file[r].got[j].of
  BY DEF TreeIsTheUnion
<1> DEFINE got == file[r].got
           tree == mergeTrees(got)
<1>1. got \in Seq(Published)
  BY RecordOf DEF FileRecords
<1>2. Len(got) \in Nat /\ DOMAIN got = 1..Len(got)
  <2> HIDE DEF got
  <2> QED
    BY <1>1
<1>3. k \in 1..Len(got) /\ n \in DOMAIN entriesOf(got[k])
  BY <1>2, EntriesHaveTheNumbers
<1> HIDE DEF got
<1>4. /\ \A e \in DOMAIN tree : \E j \in 1..Len(got) :
           /\ e \in DOMAIN entriesOf(got[j]) /\ tree[e] = entriesOf(got[j])[e]
           /\ \A i \in 1..(j - 1) : e \notin DOMAIN entriesOf(got[i])
      /\ \A j \in 1..Len(got) : DOMAIN entriesOf(got[j]) \subseteq DOMAIN tree
  BY <1>2, MergeIsUnion
<1> HIDE DEF tree
<1>5. n \in DOMAIN tree
  BY <1>3, <1>4
<1>6. PICK j \in 1..Len(got) : /\ n \in DOMAIN entriesOf(got[j]) /\ tree[n] = entriesOf(got[j])[n]
                               /\ \A i \in 1..(j - 1) : n \notin DOMAIN entriesOf(got[i])
  BY <1>4, <1>5
<1>7. j \in 1..k
  BY <1>2, <1>3, <1>6
<1>8. tree[n].by = got[j].of
  BY <1>6, EntriesHaveTheNumbers
<1> QED
  BY <1>5, <1>7, <1>8 DEF got, tree

LEMMA NothingBelowOne == \A j \in 1..0 : FALSE
  OBVIOUS

LEMMA FallbackFollows ==
  FilesIInv => FallbackIsTheLast
<1> SUFFICES ASSUME FilesIInv PROVE FallbackIsTheLast
  OBVIOUS
<1>0. fileOps = 0 \/ fileOps > 0
  <2>1. fileOps \in Nat
    BY DEF FilesIInv, FilesBasics
  <2>2. \A n \in Nat : n = 0 \/ n > 0
    OBVIOUS
  <2> QED
    BY <2>1, <2>2
<1> SUFFICES ASSUME NEW r \in FileClients, file[r].pc = "fallback", fileOps = 0,
                    NEW i \in DOMAIN StreamsOf(channelOf(file[r].kind)),
                    <<channelOf(file[r].kind), i>> \notin dead, i \notin file[r].tried,
                    ~StreamsOf(channelOf(file[r].kind))[i].blocked, StreamsOf(channelOf(file[r].kind))[i].id # ""
             PROVE  FALSE
  BY <1>0 DEF FallbackIsTheLast
<1>1. file[r].holds /\ file[r].todo = <<>>
  BY DEF FilesIInv, FallbackInv
<1>2. Accounted(r, i)
  BY <1>1 DEF FilesIInv, WalkInv
<1>3. Len(file[r].todo) = 0
  <2>1. Len(<<>>) = 0
    OBVIOUS
  <2> QED
    BY <1>1, <2>1
<1>4. ~ \E j \in 1..Len(file[r].todo) : file[r].todo[j] = i
  BY <1>3, NothingBelowOne
<1>5. file[r].pc \notin AtOrigin
  BY DEF AtOrigin
<1> QED
  BY <1>2, <1>4, <1>5 DEF Accounted

(* Every episode offered can be played: what is stored of a series is out of one list  *)
(* of it, whatever other series the provider has; the merged tree is the union of the  *)
(* answers with something to play behind each entry; the counters and the sessions are *)
(* those of the requests that hold one; and the clip is sent only when no candidate is *)
(* left: for any providers, panels, series, lists, streams and requests.               *)
THEOREM EpisodesAlwaysPlay == SeriesSpec => []EpisodesInv
<1>1. FilesIInv => EpisodesInv
  BY OfferedFollows, UnionFollows, FallbackFollows DEF FilesIInv, EpisodesInv
<1> QED
  BY <1>1, FilesInvariance, PTL

(* "Each candidate is retried once ... before the provider is marked dead": a request  *)
(* marks the stream it has in hand, after exactly the attempts it is allowed.          *)
THEOREM OnlyRetriedAreMarked == SeriesSpec => MarkedAfterRetries
<1> DEFINE A == \A x \in dead' \ dead : \E r \in FileClients :
                 file[r].pc = "mark" /\ x = <<channelOf(file[r].kind), file[r].cur>> /\ file[r].tries = RemoteFileRetries + 1
<1>1. FilesIInv /\ [SeriesNext]_fileVars => [A]_fileVars
  <2> SUFFICES ASSUME FilesIInv, SeriesNext, NEW x \in dead' \ dead
               PROVE  \E r \in FileClients :
                 file[r].pc = "mark" /\ x = <<channelOf(file[r].kind), file[r].cur>> /\ file[r].tries = RemoteFileRetries + 1
    OBVIOUS
  <2>1. ASSUME NEW r \in FileClients, RequestStep(r)
        PROVE  file[r].pc = "mark" /\ x = <<channelOf(file[r].kind), file[r].cur>> /\ file[r].tries = RemoteFileRetries + 1
    <3>1. MarkStreamDeadByHash(r)
      BY <2>1, TableEffects
    <3>2. file[r].pc = "mark" /\ x = <<channelOf(file[r].kind), file[r].cur>>
      BY <3>1 DEF MarkStreamDeadByHash, At
    <3> QED
      BY <3>2, RecordOf DEF GoodRecord
  <2>2. CASE \/ \E p \in Series : ProviderRelists(p)
             \/ PayloadAges
             \/ \E y \in dead : StreamRevived(y)
             \/ \E ch \in {"series", "movie"} : \E i \in 0..(Len(StreamsOf(ch)) - 1) : StreamPreferred(ch, i)
             \/ \E keep \in SUBSET Urls : PruneSeriesInfo(keep)
    BY <2>2 DEF ProviderRelists, PayloadAges, StreamRevived, StreamPreferred, PruneSeriesInfo
  <2> QED
    BY <2>1, <2>2 DEF SeriesNext, RequestStep
<1> QED
  BY <1>1, FilesInvariance, PTL DEF SeriesSpec, MarkedAfterRetries

===============================================================================
