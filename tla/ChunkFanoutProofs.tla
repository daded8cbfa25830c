-------------------------- MODULE ChunkFanoutProofs --------------------------
(***************************************************************************)
(* The references and the order of the chunks on their way to the clients, *)
(* for any number of clients, feeders and chunks and any queue depth.      *)
(***************************************************************************)
EXTENDS ChunkFanout, FiniteSetTheorems, FunctionTheorems, TLAPS

Sending == {"send", "shed", "resend"}
Places == ({"queued"} \X Clients \X (Nat \ {0})) \cup ({"written"} \X Clients \X {0})
          \cup ({"feeder", "send"} \X Feeders \X {0})

\* Holders by its elements.
HoldsAt(h, k) ==
  \/ \E c \in Clients : \E i \in 1 .. Len(queue[c]) : h = <<"queued", c, i>> /\ queue[c][i] = k
  \/ \E c \in Clients : h = <<"written", c, 0>> /\ hand[c] = k
  \/ \E f \in Feeders : h = <<"feeder", f, 0>> /\ chunk[f] = k
  \/ \E f \in Feeders : h = <<"send", f, 0>> /\ chunk[f] = k /\ feed[f] \in Sending

LEMMA HoldersAre == \A k, h : h \in Holders(k) <=> HoldsAt(h, k)
<1> SUFFICES ASSUME NEW k, NEW h
             PROVE  h \in Holders(k) <=> HoldsAt(h, k)
  OBVIOUS
<1> DEFINE Q(c) == {<<"queued", c, i>> : i \in {j \in 1 .. Len(queue[c]) : queue[c][j] = k}}
           Qs == UNION {Q(c) : c \in Clients}
           Ws == {<<"written", c, 0>> : c \in {d \in Clients : hand[d] = k}}
           Fs == {<<"feeder", f, 0>> : f \in {g \in Feeders : chunk[g] = k}}
           Ss == {<<"send", f, 0>> : f \in {g \in Feeders : chunk[g] = k /\ feed[g] \in Sending}}
<1>1. h \in Qs <=> \E c \in Clients : \E i \in 1 .. Len(queue[c]) : h = <<"queued", c, i>> /\ queue[c][i] = k
  <2>1. \A c : h \in Q(c) <=> \E i \in 1 .. Len(queue[c]) : h = <<"queued", c, i>> /\ queue[c][i] = k
    OBVIOUS
  <2>2. h \in Qs <=> \E c \in Clients : h \in Q(c)
    OBVIOUS
  <2> QED
    BY <2>1, <2>2
<1>2. h \in Ws <=> \E c \in Clients : h = <<"written", c, 0>> /\ hand[c] = k
  OBVIOUS
<1>3. h \in Fs <=> \E f \in Feeders : h = <<"feeder", f, 0>> /\ chunk[f] = k
  OBVIOUS
<1>4. h \in Ss <=> \E f \in Feeders : h = <<"send", f, 0>> /\ chunk[f] = k /\ feed[f] \in Sending
  OBVIOUS
<1>5. Holders(k) = Qs \cup Ws \cup Fs \cup Ss
  BY DEF Holders, Sending
<1> HIDE DEF Qs, Ws, Fs, Ss
<1> QED
  BY <1>1, <1>2, <1>3, <1>4, <1>5 DEF HoldsAt

LEMMA HoldersAreNext == \A k, h : h \in Holders(k)' <=> HoldsAt(h, k)'
<1>1. (\A k, h : h \in Holders(k) <=> HoldsAt(h, k))'
  BY HoldersAre, PTL
<1> QED
  BY <1>1

\* Queues are sequences: what their elements and positions are.
LEMMA HoldersInPlaces ==
  ASSUME PlaceInv, NEW k
  PROVE  Holders(k) \subseteq Places
<1> SUFFICES ASSUME NEW h, HoldsAt(h, k)
             PROVE  h \in Places
  BY HoldersAre
<1>1. ASSUME NEW c \in Clients, NEW i \in 1 .. Len(queue[c]), h = <<"queued", c, i>>
      PROVE  h \in Places
  <2>1. i \in Nat \ {0}
    BY DEF PlaceInv
  <2> QED
    BY <1>1, <2>1 DEF Places
<1> QED
  BY <1>1 DEF HoldsAt, Places

LEMMA HoldersInPlacesNext ==
  ASSUME PlaceInv', NEW k
  PROVE  Holders(k)' \subseteq Places
<1> SUFFICES ASSUME NEW h, HoldsAt(h, k)'
             PROVE  h \in Places
  BY HoldersAreNext
<1>1. ASSUME NEW c \in Clients, NEW i \in 1 .. Len(queue'[c]), h = <<"queued", c, i>>
      PROVE  h \in Places
  <2>1. i \in Nat \ {0}
    BY DEF PlaceInv
  <2> QED
    BY <1>1, <2>1 DEF Places
<1> QED
  BY <1>1 DEF HoldsAt, Places

-----------------------------------------------------------------------------
(* Taking from the front of a queue                                        *)

\* Where the place h of a queue that lost its head was before.
Behind(c, h) == IF h[1] = "queued" /\ h[2] = c THEN <<"queued", c, h[3] + 1>> ELSE h

LEMMA Popping ==
  ASSUME NEW c \in Clients, NEW S \in SUBSET Places, NEW T \in SUBSET Places, IsFiniteSet(S),
         \A h \in Places : h \in T <=> Behind(c, h) \in S
  PROVE  /\ IsFiniteSet(T)
         /\ Cardinality(T) = Cardinality(S) - (IF <<"queued", c, 1>> \in S THEN 1 ELSE 0)
<1> DEFINE R == S \ {<<"queued", c, 1>>}
           g == [h \in T |-> Behind(c, h)]
<1>1. IsFiniteSet(R) /\ Cardinality(R) = Cardinality(S) - (IF <<"queued", c, 1>> \in S THEN 1 ELSE 0)
      /\ Cardinality(S) \in Nat
  <2>1. IsFiniteSet(R) /\ Cardinality(R) = IF <<"queued", c, 1>> \in S THEN Cardinality(S) - 1 ELSE Cardinality(S)
    BY FS_RemoveElement
  <2>2. Cardinality(S) \in Nat
    BY FS_CardinalityType
  <2> HIDE DEF R
  <2> QED
    BY <2>1, <2>2
<1>2. \A h \in Places : h = <<h[1], h[2], h[3]>> /\ h[3] \in Nat /\ (h[1] = "queued" => h[3] # 0)
  BY DEF Places
<1>3. \A h \in T : Behind(c, h) \in R
  BY <1>2 DEF Behind
<1>4. \A h, j \in T : Behind(c, h) = Behind(c, j) => h = j
  BY <1>2 DEF Behind
<1>5. \A r \in R : \E h \in T : Behind(c, h) = r
  <2> SUFFICES ASSUME NEW r \in R
               PROVE  \E h \in T : Behind(c, h) = r
    OBVIOUS
  <2>1. CASE r[1] = "queued" /\ r[2] = c
    <3>1. r = <<"queued", c, r[3]>> /\ r[3] \in Nat /\ r[3] > 1
      BY <1>2, <2>1
    <3> DEFINE h == <<"queued", c, r[3] - 1>>
    <3>2. h \in Places /\ Behind(c, h) = r
      BY <3>1 DEF Places, Behind
    <3> QED
      BY <3>2
  <2>2. CASE ~(r[1] = "queued" /\ r[2] = c)
    BY <2>2 DEF Behind
  <2> QED
    BY <2>1, <2>2
<1>6. g \in Bijection(T, R)
  BY <1>3, <1>4, <1>5, Fun_IsBij
<1>7. ExistsBijection(R, T)
  BY <1>6, Fun_ExistsBij, Fun_ExistsBijSymmetric
<1> HIDE DEF R
<1>8. IsFiniteSet(T) /\ Cardinality(T) = Cardinality(R)
  BY <1>1, <1>7, FS_Bijection
<1> QED
  BY <1>1, <1>8

-----------------------------------------------------------------------------
(* Counting the holders of a chunk over a step                             *)

HoldersInv == RefsAreHolders /\ \A k \in Chunks : IsFiniteSet(Holders(k))
PoolTypeOK == free \in SUBSET Chunks /\ refs \in [Chunks -> Nat]

\* Holders are the same in number.
LEMMA Kept ==
  ASSUME HoldersInv, UNCHANGED poolVars,
         \A k \in Chunks : IsFiniteSet(Holders(k)') /\ Cardinality(Holders(k)') = Cardinality(Holders(k))
  PROVE  HoldersInv'
<1> SUFFICES ASSUME NEW k \in Chunks
             PROVE  refs'[k] = Cardinality(Holders(k)') /\ (k \in free' <=> Holders(k)' = {})
  BY DEF HoldersInv, RefsAreHolders
<1>1. IsFiniteSet(Holders(k)) /\ IsFiniteSet(Holders(k)')
  BY DEF HoldersInv
<1>2. (Holders(k) = {} <=> Cardinality(Holders(k)) = 0) /\ (Holders(k)' = {} <=> Cardinality(Holders(k)') = 0)
  BY <1>1, FS_EmptySet
<1> QED
  BY <1>2 DEF HoldersInv, RefsAreHolders, poolVars

\* One holder of chunk k0 less, and its reference released.
LEMMA Released ==
  ASSUME HoldersInv, PoolTypeOK, NEW k0 \in Chunks, Release(k0),
         \A k \in Chunks : /\ IsFiniteSet(Holders(k)')
                          /\ Cardinality(Holders(k)') = Cardinality(Holders(k)) - (IF k = k0 THEN 1 ELSE 0)
  PROVE  HoldersInv' /\ PoolTypeOK'
<1>1. \A k \in Chunks : refs[k] = Cardinality(Holders(k)) /\ refs[k] \in Nat
  BY DEF HoldersInv, RefsAreHolders, PoolTypeOK
<1>2. \A k \in Chunks : refs'[k] = refs[k] - (IF k = k0 THEN 1 ELSE 0)
  BY DEF Release, PoolTypeOK
<1>3. \A k \in Chunks : refs'[k] = Cardinality(Holders(k)') /\ refs'[k] \in Nat
  <2> SUFFICES ASSUME NEW k \in Chunks
               PROVE  refs'[k] = Cardinality(Holders(k)') /\ refs'[k] \in Nat
    OBVIOUS
  <2>1. refs'[k] = Cardinality(Holders(k)')
    BY <1>1, <1>2
  <2>2. Cardinality(Holders(k)') \in Nat
    BY FS_CardinalityType
  <2> QED
    BY <2>1, <2>2
<1>4. \A k \in Chunks : (Holders(k) = {} <=> refs[k] = 0) /\ (Holders(k)' = {} <=> refs'[k] = 0)
  <2> SUFFICES ASSUME NEW k \in Chunks
               PROVE  (Holders(k) = {} <=> refs[k] = 0) /\ (Holders(k)' = {} <=> refs'[k] = 0)
    OBVIOUS
  <2>1. IsFiniteSet(Holders(k)) /\ IsFiniteSet(Holders(k)')
    BY DEF HoldersInv
  <2>2. (Holders(k) = {} <=> Cardinality(Holders(k)) = 0) /\ (Holders(k)' = {} <=> Cardinality(Holders(k)') = 0)
    BY <2>1, FS_EmptySet
  <2> QED
    BY <2>2, <1>1, <1>3
<1>5. \A k \in Chunks : k \in free <=> refs[k] = 0
  BY <1>4 DEF HoldersInv, RefsAreHolders
<1>6. \A k \in Chunks : k \in free' <=> refs'[k] = 0
  BY <1>1, <1>2, <1>3, <1>5 DEF Release
<1>7. refs' \in [Chunks -> Nat]
  BY <1>3 DEF Release, PoolTypeOK
<1>8. free' \in SUBSET Chunks
  BY DEF Release, PoolTypeOK
<1> QED
  BY <1>3, <1>4, <1>6, <1>7, <1>8 DEF HoldersInv, RefsAreHolders, PoolTypeOK

\* One holder of chunk k0 more, and a reference taken; somebody has the chunk already.
LEMMA Retained ==
  ASSUME HoldersInv, PoolTypeOK, NEW k0 \in Chunks, Retain(k0), UNCHANGED free, Holders(k0) # {},
         \A k \in Chunks : /\ IsFiniteSet(Holders(k)')
                          /\ Cardinality(Holders(k)') = Cardinality(Holders(k)) + (IF k = k0 THEN 1 ELSE 0)
  PROVE  HoldersInv' /\ PoolTypeOK'
<1>1. \A k \in Chunks : refs[k] = Cardinality(Holders(k)) /\ refs[k] \in Nat
  BY DEF HoldersInv, RefsAreHolders, PoolTypeOK
<1>2. \A k \in Chunks : refs'[k] = refs[k] + (IF k = k0 THEN 1 ELSE 0)
  BY DEF Retain, PoolTypeOK
<1>3. \A k \in Chunks : refs'[k] = Cardinality(Holders(k)') /\ refs'[k] \in Nat
  BY <1>1, <1>2
<1>4. \A k \in Chunks : (Holders(k) = {} <=> refs[k] = 0) /\ (Holders(k)' = {} <=> refs'[k] = 0)
  <2> SUFFICES ASSUME NEW k \in Chunks
               PROVE  (Holders(k) = {} <=> refs[k] = 0) /\ (Holders(k)' = {} <=> refs'[k] = 0)
    OBVIOUS
  <2>1. IsFiniteSet(Holders(k)) /\ IsFiniteSet(Holders(k)')
    BY DEF HoldersInv
  <2>2. (Holders(k) = {} <=> Cardinality(Holders(k)) = 0) /\ (Holders(k)' = {} <=> Cardinality(Holders(k)') = 0)
    BY <2>1, FS_EmptySet
  <2> QED
    BY <2>2, <1>1, <1>3
<1>5. \A k \in Chunks : k \in free <=> refs[k] = 0
  BY <1>4 DEF HoldersInv, RefsAreHolders
<1>6. \A k \in Chunks : k \in free' <=> refs'[k] = 0
  BY <1>1, <1>2, <1>3, <1>4, <1>5
<1>7. refs' \in [Chunks -> Nat]
  BY <1>3 DEF Retain, PoolTypeOK
<1> QED
  BY <1>3, <1>4, <1>6, <1>7 DEF HoldersInv, RefsAreHolders, PoolTypeOK

\* A queue loses its head: its places move up.
LEMMA Moved ==
  ASSUME PlaceInv, NEW c \in Clients, queue[c] # << >>, queue' = [queue EXCEPT ![c] = Tail(@)],
         UNCHANGED chunk, \A f \in Feeders : feed'[f] \in Sending <=> feed[f] \in Sending,
         NEW k, NEW h \in Places, h[1] # "written"
  PROVE  h \in Holders(k)' <=> Behind(c, h) \in Holders(k)
<1>1. \A l, j : j \in Holders(l)' <=> HoldsAt(j, l)'
  BY HoldersAreNext
<1>2. Len(queue'[c]) = Len(queue[c]) - 1 /\ (\A i \in 1 .. Len(queue'[c]) : queue'[c][i] = queue[c][i + 1])
      /\ Len(queue[c]) \in Nat \ {0} /\ \A d \in Clients : d # c => queue'[d] = queue[d]
  BY DEF PlaceInv
<1>3. ASSUME NEW d \in Clients, NEW i \in Nat \ {0}, h = <<"queued", d, i>>
      PROVE  HoldsAt(h, k)' <=> HoldsAt(Behind(c, h), k)
  <2>1. HoldsAt(h, k)' <=> i \in 1 .. Len(queue'[d]) /\ queue'[d][i] = k
    BY <1>3 DEF HoldsAt
  <2>2. CASE d = c
    <3>1. Behind(c, h) = <<"queued", c, i + 1>>
      BY <1>3, <2>2 DEF Behind
    <3>2. HoldsAt(Behind(c, h), k) <=> i + 1 \in 1 .. Len(queue[c]) /\ queue[c][i + 1] = k
      BY <3>1 DEF HoldsAt
    <3> QED
      BY <1>2, <2>1, <2>2, <3>2
  <2>3. CASE d # c
    <3>1. Behind(c, h) = <<"queued", d, i>>
      BY <1>3, <2>3 DEF Behind
    <3>2. HoldsAt(Behind(c, h), k) <=> i \in 1 .. Len(queue[d]) /\ queue[d][i] = k
      BY <3>1 DEF HoldsAt
    <3> QED
      BY <1>2, <2>1, <2>3, <3>2
  <2> QED
    BY <2>2, <2>3
<1>4. ASSUME NEW f \in Feeders, h = <<"feeder", f, 0>> \/ h = <<"send", f, 0>>
      PROVE  HoldsAt(h, k)' <=> HoldsAt(Behind(c, h), k)
  BY <1>4 DEF HoldsAt, Behind
<1>5. HoldsAt(h, k)' <=> HoldsAt(Behind(c, h), k)
  BY <1>3, <1>4 DEF Places
<1> QED
  BY <1>1, <1>5, HoldersAre

-----------------------------------------------------------------------------
(* Types and places                                                        *)

RestTypeOK ==
  /\ data \in [Chunks -> {None} \cup (Feeders \X (1 .. MaxReads))]
  /\ member \in SUBSET Clients /\ gone \in SUBSET Clients
  /\ \A c \in Clients : Len(queue[c]) <= Depth
  /\ drain \in [Clients -> {"none", "select", "write", "failed", "flush", "ended"}]
  /\ hand \in [Clients -> Chunks \cup {None}]
  /\ feed \in [Feeders -> {"idle", "range", "send", "shed", "resend"}]
  /\ chunk \in [Feeders -> Chunks \cup {None}] /\ target \in [Feeders -> Clients \cup {None}]
  /\ todo \in [Feeders -> SUBSET Clients] /\ reads \in 0 .. MaxReads

LEMMA Typed == PlaceInv => (FanoutTypeOK <=> PoolTypeOK /\ RestTypeOK)
  BY DEF FanoutTypeOK, PoolTypeOK, RestTypeOK, PlaceInv

\* What is being written is a copy.
LEMMA HandHolds ==
  ASSUME FanoutIInv, NEW c \in Clients, hand[c] # None
  PROVE  data[hand[c]] \in Copies /\ hand[c] \in Chunks /\ <<"written", c, 0>> \in Holders(hand[c])
<1>1. <<"written", c, 0>> \in Holders(hand[c])
  BY HoldersAre DEF HoldsAt
<1> QED
  BY <1>1 DEF FanoutIInv, CopyInv, FanoutTypeOK, Copies

LEMMA RestTypeNext ==
  ASSUME FanoutIInv, [Next]_vars
  PROVE  RestTypeOK' /\ PlaceInv'
<1> USE FanoutAssumption
<1>0. RestTypeOK /\ PlaceInv /\ PoolTypeOK
  BY Typed DEF FanoutIInv
<1>1. ASSUME NEW c \in Clients, Join(c)
      PROVE  RestTypeOK' /\ PlaceInv'
  BY <1>0, <1>1 DEF Join, RestTypeOK, PlaceInv, Copies, poolVars, clientVars, drainVars, feedVars
<1>2. ASSUME NEW c \in Clients, Remove(c)
      PROVE  RestTypeOK' /\ PlaceInv'
  BY <1>0, <1>2 DEF Remove, RestTypeOK, PlaceInv, Copies, poolVars, clientVars, drainVars, feedVars
<1>3. ASSUME NEW c \in Clients, DrainTake(c)
      PROVE  RestTypeOK' /\ PlaceInv'
  BY <1>0, <1>3 DEF DrainTake, RestTypeOK, PlaceInv, Copies, poolVars, clientVars, drainVars, feedVars
<1>4. ASSUME NEW c \in Clients, DrainWrite(c)
      PROVE  RestTypeOK' /\ PlaceInv'
  <2>1. data[hand[c]] \in Copies
    BY <1>0, <1>4, HandHolds DEF DrainWrite, PlaceInv
  <2>2. written' \in [Clients -> Seq(Copies)]
    BY <1>0, <1>4, <2>1 DEF DrainWrite, PlaceInv, Copies
  <2>3. RestTypeOK'
    BY <1>0, <1>4 DEF DrainWrite, RestTypeOK, PlaceInv, Copies, poolVars, clientVars, drainVars, feedVars
  <2> QED
    BY <1>0, <1>4, <2>2, <2>3 DEF DrainWrite, RestTypeOK, PlaceInv, Copies, poolVars, clientVars, drainVars, feedVars
<1>5. ASSUME NEW c \in Clients, DrainFail(c)
      PROVE  RestTypeOK' /\ PlaceInv'
  BY <1>0, <1>5 DEF DrainFail, RestTypeOK, PlaceInv, Copies, poolVars, clientVars, drainVars, feedVars
<1>6. ASSUME NEW c \in Clients, DrainLeave(c)
      PROVE  RestTypeOK' /\ PlaceInv'
  BY <1>0, <1>6 DEF DrainLeave, RestTypeOK, PlaceInv, Copies, poolVars, clientVars, drainVars, feedVars
<1>7. ASSUME NEW c \in Clients, DrainDone(c)
      PROVE  RestTypeOK' /\ PlaceInv'
  BY <1>0, <1>7 DEF DrainDone, RestTypeOK, PlaceInv, Copies, poolVars, clientVars, drainVars, feedVars
<1>8. ASSUME NEW c \in Clients, DrainFlush(c)
      PROVE  RestTypeOK' /\ PlaceInv'
  <2>1. CASE queue[c] # << >> /\ queue' = [queue EXCEPT ![c] = Tail(@)] /\ UNCHANGED drain
    <3>1. queue' \in [Clients -> Seq(Chunks)] /\ \A d \in Clients : Len(queue'[d]) <= Depth
      BY <1>0, <2>1 DEF RestTypeOK, PlaceInv
    <3> QED
      BY <1>0, <1>8, <2>1, <3>1 DEF DrainFlush, RestTypeOK, PlaceInv, Copies, poolVars, clientVars, drainVars, feedVars
  <2>2. CASE drain' = [drain EXCEPT ![c] = "ended"] /\ UNCHANGED queue
    BY <1>0, <1>8, <2>2 DEF DrainFlush, RestTypeOK, PlaceInv, Copies, poolVars, clientVars, drainVars, feedVars
  <2> QED
    BY <1>8, <2>1, <2>2 DEF DrainFlush, poolVars
<1>9. ASSUME NEW f \in Feeders, FeedNew(f)
      PROVE  RestTypeOK' /\ PlaceInv'
  <2>1. PICK k \in free : /\ data' = [data EXCEPT ![k] = <<f, reads + 1>>]
                         /\ chunk' = [chunk EXCEPT ![f] = k]
    BY <1>9 DEF FeedNew
  <2>2. k \in Chunks /\ k # None /\ <<f, reads + 1>> \in Copies /\ reads + 1 \in 0 .. MaxReads
    BY <1>0, <1>9 DEF FeedNew, PoolTypeOK, RestTypeOK, Copies
  <2>3. data' \in [Chunks -> {None} \cup Copies]
    BY <1>0, <2>1, <2>2 DEF RestTypeOK, Copies
  <2>4. RestTypeOK'
    BY <1>0, <1>9, <2>1, <2>2, <2>3 DEF FeedNew, RestTypeOK, Copies, clientVars, drainVars
  <2>5. target[f] = None
    BY <1>0, <1>9 DEF FeedNew, PlaceInv
  <2>6. PlaceInv'
    BY <1>0, <1>9, <2>1, <2>2, <2>5 DEF FeedNew, RestTypeOK, PlaceInv, clientVars, drainVars
  <2> QED
    BY <2>4, <2>6
<1>10. ASSUME NEW f \in Feeders, NEW c \in Clients, FeedVisit(f, c)
      PROVE  RestTypeOK' /\ PlaceInv'
  <2>1. RestTypeOK'
    <3>1. target' \in [Feeders -> Clients \cup {None}] /\ feed' \in [Feeders -> {"idle", "range", "send", "shed", "resend"}]
      BY <1>0, <1>10 DEF FeedVisit, RestTypeOK
    <3>2. todo' \in [Feeders -> SUBSET Clients]
      BY <1>0, <1>10 DEF FeedVisit, RestTypeOK
    <3> QED
      BY <1>0, <1>10, <3>1, <3>2 DEF FeedVisit, RestTypeOK, clientVars, drainVars
  <2>2. CASE c \in member /\ target' = [target EXCEPT ![f] = c] /\ feed' = [feed EXCEPT ![f] = "send"]
    <3>1. /\ \A g \in Feeders : target'[g] = IF g = f THEN c ELSE target[g]
          /\ \A g \in Feeders : feed'[g] = IF g = f THEN "send" ELSE feed[g]
          /\ \A g \in Feeders : todo'[g] = IF g = f THEN todo[f] \ {c} ELSE todo[g]
      BY <1>0, <1>10, <2>2 DEF FeedVisit, RestTypeOK
    <3>2. c # None /\ feed[f] = "range" /\ UNCHANGED <<queue, written, hand, drain, chunk>>
      BY <1>10 DEF FeedVisit, drainVars
    <3> QED
      BY <1>0, <2>1, <3>1, <3>2 DEF PlaceInv
  <2>3. CASE UNCHANGED <<target, feed>>
    BY <1>0, <1>10, <2>3 DEF FeedVisit, RestTypeOK, PlaceInv, Copies, poolVars, clientVars, drainVars, feedVars
  <2> QED
    BY <1>10, <2>1, <2>2, <2>3 DEF FeedVisit
<1>11. ASSUME NEW f \in Feeders, FeedSend(f)
      PROVE  RestTypeOK' /\ PlaceInv'
  <2>1. target[f] \in Clients /\ chunk[f] \in Chunks
    BY <1>0, <1>11 DEF FeedSend, RestTypeOK, PlaceInv
  <2>2. CASE Len(queue[target[f]]) < Depth /\ Enqueue(f) /\ NextClient(f)
    <3>1. queue' \in [Clients -> Seq(Chunks)] /\ \A d \in Clients : Len(queue'[d]) <= Depth
      BY <1>0, <2>1, <2>2 DEF Enqueue, RestTypeOK, PlaceInv
    <3>2. RestTypeOK'
      BY <1>0, <1>11, <2>2, <3>1 DEF FeedSend, NextClient, RestTypeOK, PlaceInv, Copies, poolVars, clientVars, drainVars, feedVars
    <3> QED
      BY <1>0, <1>11, <2>1, <2>2, <3>1, <3>2 DEF FeedSend, NextClient, RestTypeOK, PlaceInv, Copies, poolVars, clientVars, drainVars, feedVars
  <2>3. CASE feed' = [feed EXCEPT ![f] = "shed"] /\ UNCHANGED <<queue, target>>
    BY <1>0, <1>11, <2>3 DEF FeedSend, RestTypeOK, PlaceInv, Copies, poolVars, clientVars, drainVars, feedVars
  <2> QED
    BY <1>11, <2>2, <2>3 DEF FeedSend
<1>12. ASSUME NEW f \in Feeders, FeedShed(f)
      PROVE  RestTypeOK' /\ PlaceInv'
  <2>1. target[f] \in Clients
    BY <1>0, <1>12 DEF FeedShed, RestTypeOK, PlaceInv
  <2>2. queue' \in [Clients -> Seq(Chunks)] /\ \A d \in Clients : Len(queue'[d]) <= Depth
    <3>1. CASE queue[target[f]] # << >> /\ queue' = [queue EXCEPT ![target[f]] = Tail(queue[target[f]])]
      BY <1>0, <2>1, <3>1 DEF RestTypeOK, PlaceInv
    <3>2. CASE UNCHANGED queue
      BY <1>0, <3>2 DEF RestTypeOK, PlaceInv
    <3> QED
      BY <1>12, <3>1, <3>2 DEF FeedShed
  <2>3. RestTypeOK'
    BY <1>0, <1>12, <2>2 DEF FeedShed, RestTypeOK, PlaceInv, Copies, poolVars, clientVars, drainVars, feedVars
  <2> QED
    BY <1>0, <1>12, <2>2, <2>3 DEF FeedShed, RestTypeOK, PlaceInv, Copies, poolVars, clientVars, drainVars, feedVars
<1>13. ASSUME NEW f \in Feeders, FeedResend(f)
      PROVE  RestTypeOK' /\ PlaceInv'
  <2>1. target[f] \in Clients /\ chunk[f] \in Chunks
    BY <1>0, <1>13 DEF FeedResend, RestTypeOK, PlaceInv
  <2>2. queue' \in [Clients -> Seq(Chunks)] /\ \A d \in Clients : Len(queue'[d]) <= Depth
    <3>1. CASE Len(queue[target[f]]) < Depth /\ Enqueue(f)
      BY <1>0, <2>1, <3>1 DEF Enqueue, RestTypeOK, PlaceInv
    <3>2. CASE UNCHANGED queue
      BY <1>0, <3>2 DEF RestTypeOK, PlaceInv
    <3> QED
      BY <1>13, <3>1, <3>2 DEF FeedResend
  <2>3. RestTypeOK'
    BY <1>0, <1>13, <2>2 DEF FeedResend, NextClient, RestTypeOK, PlaceInv, Copies, poolVars, clientVars, drainVars, feedVars
  <2> QED
    BY <1>0, <1>13, <2>1, <2>2, <2>3 DEF FeedResend, NextClient, RestTypeOK, PlaceInv, Copies, poolVars, clientVars, drainVars, feedVars
<1>14. ASSUME NEW f \in Feeders, FeedEnd(f)
      PROVE  RestTypeOK' /\ PlaceInv'
  BY <1>0, <1>14 DEF FeedEnd, RestTypeOK, PlaceInv, Copies, poolVars, clientVars, drainVars, feedVars
<1>15. CASE UNCHANGED vars
  BY <1>0, <1>15 DEF RestTypeOK, PlaceInv, vars, poolVars, clientVars, drainVars, feedVars
<1> QED
  BY <1>1, <1>2, <1>3, <1>4, <1>5, <1>6, <1>7, <1>8, <1>9, <1>10, <1>11, <1>12, <1>13, <1>14, <1>15 DEF Next, drainClient, DistributeToClients

-----------------------------------------------------------------------------
(* The count of a chunk is the number of its holders, after every step     *)

\* Nobody takes or drops a chunk.
LEMMA Same ==
  ASSUME HoldersInv, UNCHANGED <<poolVars, queue, hand, chunk>>,
         \A f \in Feeders : feed'[f] \in Sending <=> feed[f] \in Sending
  PROVE  HoldersInv'
<1>1. \A k, h : HoldsAt(h, k)' <=> HoldsAt(h, k)
  BY DEF HoldsAt
<1>2. \A k : Holders(k)' = Holders(k)
  BY <1>1, HoldersAre, HoldersAreNext
<1> QED
  BY <1>2, Kept DEF HoldersInv

\* One place drops the chunk.
LEMMA Dropped ==
  ASSUME HoldersInv, PoolTypeOK, NEW k0 \in Chunks, Release(k0), NEW h0 \in Holders(k0),
         \A k \in Chunks : \A h : h \in Holders(k)' <=> h \in Holders(k) /\ ~(k = k0 /\ h = h0)
  PROVE  HoldersInv' /\ PoolTypeOK'
<1>1. ASSUME NEW k \in Chunks
      PROVE  /\ IsFiniteSet(Holders(k)')
             /\ Cardinality(Holders(k)') = Cardinality(Holders(k)) - (IF k = k0 THEN 1 ELSE 0)
  <2>1. IsFiniteSet(Holders(k)) /\ Cardinality(Holders(k)) \in Nat
    BY FS_CardinalityType DEF HoldersInv
  <2>2. CASE k = k0
    <3>1. Holders(k)' = Holders(k) \ {h0}
      BY <2>2
    <3> QED
      BY <2>1, <2>2, <3>1, FS_RemoveElement
  <2>3. CASE k # k0
    <3>1. \A h : h \in Holders(k)' <=> h \in Holders(k)
      BY <2>3
    <3>2. Holders(k)' = Holders(k)
      <4> HIDE <2>3
      <4> QED
        BY <3>1
    <3> QED
      BY <2>1, <2>3, <3>2
  <2> QED
    BY <2>2, <2>3
<1> QED
  BY <1>1, Released

\* A queue after it lost its head, as the places of chunk k.
Popped(c, k) == {h \in Places : Behind(c, h) \in Holders(k)}

LEMMA PoppedCount ==
  ASSUME HoldersInv, PlaceInv, NEW c \in Clients, queue[c] # << >>, NEW k \in Chunks
  PROVE  /\ IsFiniteSet(Popped(c, k))
         /\ Cardinality(Popped(c, k)) = Cardinality(Holders(k)) - (IF k = Head(queue[c]) THEN 1 ELSE 0)
<1>1. Holders(k) \in SUBSET Places /\ IsFiniteSet(Holders(k))
  BY HoldersInPlaces DEF HoldersInv
<1>2. <<"queued", c, 1>> \in Holders(k) <=> k = Head(queue[c])
  <2>1. 1 \in 1 .. Len(queue[c]) /\ queue[c][1] = Head(queue[c])
    BY DEF PlaceInv
  <2> QED
    BY <2>1, HoldersAre DEF HoldsAt
<1>3. Popped(c, k) \in SUBSET Places /\ \A h \in Places : h \in Popped(c, k) <=> Behind(c, h) \in Holders(k)
  BY DEF Popped
<1> QED
  BY <1>1, <1>2, <1>3, Popping

\* The head of a queue is released.
LEMMA HeadReleased ==
  ASSUME HoldersInv, PoolTypeOK, PlaceInv, PlaceInv', NEW c \in Clients, queue[c] # << >>,
         queue' = [queue EXCEPT ![c] = Tail(@)], Release(Head(queue[c])), UNCHANGED <<hand, chunk>>,
         \A f \in Feeders : feed'[f] \in Sending <=> feed[f] \in Sending
  PROVE  HoldersInv' /\ PoolTypeOK'
<1>1. Head(queue[c]) \in Chunks
  BY DEF PlaceInv
<1>2. ASSUME NEW k \in Chunks
      PROVE  Holders(k)' = Popped(c, k)
  <2>1. \A h \in Places : h[1] = "written" => (HoldsAt(h, k)' <=> HoldsAt(Behind(c, h), k))
    BY DEF HoldsAt, Behind
  <2>2. \A h \in Places : h \in Holders(k)' <=> Behind(c, h) \in Holders(k)
    BY <2>1, Moved, HoldersAre, HoldersAreNext
  <2> QED
    BY <2>2, HoldersInPlacesNext DEF Popped
<1> QED
  BY <1>1, <1>2, PoppedCount, Released

\* drainClient takes the head of the queue in hand.
LEMMA HeadInHand ==
  ASSUME HoldersInv, PlaceInv, PlaceInv', NEW c \in Clients, queue[c] # << >>, hand[c] = None, hand \in [Clients -> Chunks \cup {None}],
         queue' = [queue EXCEPT ![c] = Tail(@)], hand' = [hand EXCEPT ![c] = Head(queue[c])],
         UNCHANGED <<poolVars, chunk, feed>>
  PROVE  HoldersInv'
<1> DEFINE w == <<"written", c, 0>>
<1>0. Head(queue[c]) \in Chunks /\ None \notin Chunks
  BY FanoutAssumption DEF PlaceInv
<1>1. ASSUME NEW k \in Chunks, NEW h \in Places
      PROVE  h \in Holders(k)' <=> h \in Popped(c, k) \/ (h = w /\ k = Head(queue[c]))
  <2>1. CASE h[1] # "written"
    <3>1. UNCHANGED chunk /\ \A f \in Feeders : feed'[f] \in Sending <=> feed[f] \in Sending
      OBVIOUS
    <3>2. h \in Holders(k)' <=> Behind(c, h) \in Holders(k)
      BY <2>1, <3>1, Moved
    <3> QED
      BY <2>1, <3>2 DEF Popped
  <2>2. CASE h[1] = "written"
    <3>1. PICK d \in Clients : h = <<"written", d, 0>>
      BY <2>2 DEF Places
    <3>2. h \in Holders(k)' <=> hand'[d] = k
      BY <3>1, HoldersAreNext DEF HoldsAt
    <3>3. Behind(c, h) = h /\ (h \in Holders(k) <=> hand[d] = k)
      BY <3>1, HoldersAre DEF HoldsAt, Behind
    <3> QED
      BY <1>0, <3>1, <3>2, <3>3 DEF Popped
  <2> QED
    BY <2>1, <2>2
<1>2. ASSUME NEW k \in Chunks
      PROVE  w \notin Popped(c, k) /\ w \in Places
  <2>1. Behind(c, w) = w
    BY DEF Behind
  <2>2. w \notin Holders(k)
    BY <1>0, HoldersAre DEF HoldsAt
  <2> QED
    BY <2>1, <2>2 DEF Popped, Places
<1>3. ASSUME NEW k \in Chunks
      PROVE  IsFiniteSet(Holders(k)') /\ Cardinality(Holders(k)') = Cardinality(Holders(k))
  <2>1. Cardinality(Holders(k)) \in Nat
    BY FS_CardinalityType DEF HoldersInv
  <2>2. Holders(k)' \subseteq Places /\ Popped(c, k) \subseteq Places
    BY HoldersInPlacesNext DEF Popped
  <2>3. CASE k = Head(queue[c])
    <3>1. Holders(k)' = Popped(c, k) \cup {w}
      BY <1>1, <1>2, <2>2, <2>3
    <3>2. IsFiniteSet(Popped(c, k)) /\ Cardinality(Popped(c, k)) = Cardinality(Holders(k)) - 1
      BY <2>3, PoppedCount
    <3>3. /\ IsFiniteSet(Popped(c, k) \cup {w})
          /\ Cardinality(Popped(c, k) \cup {w}) = Cardinality(Popped(c, k)) + 1
      BY <1>2, <3>2, FS_AddElement
    <3> QED
      BY <2>1, <3>1, <3>2, <3>3
  <2>4. CASE k # Head(queue[c])
    <3>1. Holders(k)' = Popped(c, k)
      BY <1>1, <2>2, <2>4
    <3>2. IsFiniteSet(Popped(c, k)) /\ Cardinality(Popped(c, k)) = Cardinality(Holders(k)) - 0
      BY <2>4, PoppedCount
    <3> QED
      BY <2>1, <3>1, <3>2
  <2> QED
    BY <2>3, <2>4
<1> QED
  BY <1>3, Kept

\* A feeder gives its queue the reference it has taken for it.
LEMMA Given ==
  ASSUME HoldersInv, PlaceInv, PlaceInv', NEW f \in Feeders, feed[f] \in Sending, feed' = [feed EXCEPT ![f] = "range"],
         feed \in [Feeders -> {"idle", "range", "send", "shed", "resend"}],
         target[f] \in Clients, chunk[f] \in Chunks, Enqueue(f), UNCHANGED <<poolVars, hand, chunk>>
  PROVE  HoldersInv'
<1> DEFINE s == <<"send", f, 0>>
           q == <<"queued", target[f], Len(queue[target[f]]) + 1>>
           k0 == chunk[f]
<1>1. ASSUME NEW k, NEW h
      PROVE  HoldsAt(h, k)' <=> (HoldsAt(h, k) /\ ~(h = s)) \/ (h = q /\ k = chunk[f])
  <2>1. /\ \A d \in Clients : d # target[f] => queue'[d] = queue[d]
        /\ Len(queue[target[f]]) \in Nat /\ Len(queue'[target[f]]) = Len(queue[target[f]]) + 1
        /\ \A i \in 1 .. Len(queue[target[f]]) : queue'[target[f]][i] = queue[target[f]][i]
        /\ queue'[target[f]][Len(queue[target[f]]) + 1] = chunk[f]
    BY DEF Enqueue, PlaceInv
  <2>2. ASSUME NEW c \in Clients, NEW i \in Nat \ {0}, h = <<"queued", c, i>>
        PROVE  HoldsAt(h, k)' <=> HoldsAt(h, k) \/ (h = q /\ k = chunk[f])
    <3>1. (HoldsAt(h, k)' <=> i \in 1 .. Len(queue'[c]) /\ queue'[c][i] = k)
          /\ (HoldsAt(h, k) <=> i \in 1 .. Len(queue[c]) /\ queue[c][i] = k)
      BY <2>2 DEF HoldsAt
    <3>2. h = q <=> c = target[f] /\ i = Len(queue[target[f]]) + 1
      BY <2>2
    <3>3. CASE c # target[f]
      BY <2>1, <3>1, <3>2, <3>3
    <3>4. CASE c = target[f] /\ i = Len(queue[target[f]]) + 1
      <4>1. HoldsAt(h, k)' <=> chunk[f] = k
        <5>1. i \in 1 .. Len(queue'[c])
          BY <2>1, <3>4
        <5> QED
          BY <2>1, <3>1, <3>4, <5>1
      <4>2. ~HoldsAt(h, k)
        <5>1. i \notin 1 .. Len(queue[c])
          BY <2>1, <3>4
        <5> QED
          BY <3>1, <5>1
      <4> QED
        BY <3>2, <3>4, <4>1, <4>2
    <3>5. CASE c = target[f] /\ i # Len(queue[target[f]]) + 1
      <4>1. i \in 1 .. Len(queue'[c]) <=> i \in 1 .. Len(queue[c])
        BY <2>1, <3>5
      <4> QED
        BY <2>1, <3>1, <3>2, <3>5, <4>1
    <3> QED
      BY <3>3, <3>4, <3>5
  <2>3. ASSUME \A c \in Clients, i \in Nat \ {0} : h # <<"queued", c, i>>
        PROVE  HoldsAt(h, k)' <=> HoldsAt(h, k) /\ ~(h = s)
    <3>1. \A c \in Clients : \A i \in 1 .. Len(queue[c]) : i \in Nat \ {0}
      BY DEF PlaceInv
    <3>2. \A c \in Clients : \A i \in 1 .. Len(queue'[c]) : i \in Nat \ {0}
      BY DEF PlaceInv
    <3>3. \A g \in Feeders : feed'[g] \in Sending <=> feed[g] \in Sending /\ g # f
      BY DEF Sending
    <3> QED
      BY <2>3, <3>1, <3>2, <3>3 DEF HoldsAt
  <2>4. Len(queue[target[f]]) + 1 \in Nat \ {0}
    BY <2>1
  <2> QED
    BY <2>2, <2>3, <2>4
<1>2. \A k, h : h \in Holders(k)' <=> (h \in Holders(k) /\ ~(h = s)) \/ (h = q /\ k = chunk[f])
  BY <1>1, HoldersAre, HoldersAreNext
<1>3. \A k : s \in Holders(k) <=> k = chunk[f]
  BY HoldersAre DEF HoldsAt
<1>4. \A k : q \notin Holders(k)
  <2>1. Len(queue[target[f]]) \in Nat
    BY DEF PlaceInv
  <2> QED
    BY <2>1, HoldersAre DEF HoldsAt
<1>5. ASSUME NEW k \in Chunks
      PROVE  IsFiniteSet(Holders(k)') /\ Cardinality(Holders(k)') = Cardinality(Holders(k))
  <2>1. IsFiniteSet(Holders(k)) /\ Cardinality(Holders(k)) \in Nat
    BY FS_CardinalityType DEF HoldersInv
  <2>2. CASE k = chunk[f]
    <3> DEFINE R == Holders(k) \ {s}
    <3>1. IsFiniteSet(R) /\ Cardinality(R) = Cardinality(Holders(k)) - 1
      BY <1>3, <2>1, <2>2, FS_RemoveElement
    <3>2. Holders(k)' = R \cup {q} /\ q \notin R
      BY <1>2, <1>4, <2>2
    <3> HIDE DEF R
    <3>3. IsFiniteSet(R \cup {q}) /\ Cardinality(R \cup {q}) = Cardinality(R) + 1
      BY <3>1, <3>2, FS_AddElement
    <3> QED
      BY <2>1, <3>1, <3>2, <3>3
  <2>3. CASE k # chunk[f]
    <3>1. Holders(k)' = Holders(k)
      BY <1>2, <1>3, <2>3
    <3> QED
      BY <2>1, <3>1
  <2> QED
    BY <2>2, <2>3
<1> QED
  BY <1>5, Kept

\* A feeder takes a reference for the client it visits.
LEMMA Taken ==
  ASSUME HoldersInv, PoolTypeOK, NEW f \in Feeders, feed[f] = "range", feed' = [feed EXCEPT ![f] = "send"],
         feed \in [Feeders -> {"idle", "range", "send", "shed", "resend"}],
         chunk[f] \in Chunks, Retain(chunk[f]), UNCHANGED <<free, queue, hand, chunk>>
  PROVE  HoldersInv' /\ PoolTypeOK'
<1> DEFINE s == <<"send", f, 0>>
<1>1. ASSUME NEW k, NEW h
      PROVE  HoldsAt(h, k)' <=> HoldsAt(h, k) \/ (h = s /\ k = chunk[f])
  <2>1. \A g \in Feeders : feed'[g] \in Sending <=> feed[g] \in Sending \/ g = f
    BY DEF Sending
  <2> QED
    BY <2>1 DEF HoldsAt
<1>2. \A k, h : h \in Holders(k)' <=> h \in Holders(k) \/ (h = s /\ k = chunk[f])
  BY <1>1, HoldersAre, HoldersAreNext
<1>3. \A k : s \notin Holders(k)
  BY HoldersAre DEF HoldsAt, Sending
<1>4. ASSUME NEW k \in Chunks
      PROVE  /\ IsFiniteSet(Holders(k)')
             /\ Cardinality(Holders(k)') = Cardinality(Holders(k)) + (IF k = chunk[f] THEN 1 ELSE 0)
  <2>1. IsFiniteSet(Holders(k)) /\ Cardinality(Holders(k)) \in Nat
    BY FS_CardinalityType DEF HoldersInv
  <2>2. CASE k = chunk[f]
    <3>1. Holders(k)' = Holders(k) \cup {s}
      BY <1>2, <2>2
    <3>2. IsFiniteSet(Holders(k) \cup {s}) /\ Cardinality(Holders(k) \cup {s}) = Cardinality(Holders(k)) + 1
      BY <1>3, <2>1, FS_AddElement
    <3> QED
      BY <2>2, <3>1, <3>2
  <2>3. CASE k # chunk[f]
    <3>1. \A h : h \in Holders(k)' <=> h \in Holders(k)
      BY <1>2, <2>3
    <3>2. Holders(k)' = Holders(k)
      <4> HIDE <2>3
      <4> QED
        BY <3>1
    <3> QED
      BY <2>1, <2>3, <3>2
  <2> QED
    BY <2>2, <2>3
<1>5. Holders(chunk[f]) # {}
  <2>1. <<"feeder", f, 0>> \in Holders(chunk[f])
    BY HoldersAre DEF HoldsAt
  <2> QED
    BY <2>1
<1> QED
  BY <1>4, <1>5, Retained

\* NewStreamChunk: the pooled chunk has one holder, its feeder.
LEMMA Made ==
  ASSUME HoldersInv, PoolTypeOK, NEW f \in Feeders, chunk[f] = None, NEW k0 \in free,
         free' = free \ {k0}, refs' = [refs EXCEPT ![k0] = 1],
         chunk' = [chunk EXCEPT ![f] = k0], chunk \in [Feeders -> Chunks \cup {None}],
         \A g \in Feeders : feed'[g] \in Sending <=> feed[g] \in Sending, feed[f] \notin Sending,
         UNCHANGED <<queue, hand>>
  PROVE  HoldersInv' /\ PoolTypeOK'
<1> DEFINE p == <<"feeder", f, 0>>
<1>0. k0 \in Chunks /\ Holders(k0) = {} /\ \A k \in Chunks : k # None
  BY FanoutAssumption DEF HoldersInv, RefsAreHolders, PoolTypeOK
<1>1. ASSUME NEW k \in Chunks, NEW h
      PROVE  HoldsAt(h, k)' <=> HoldsAt(h, k) \/ (h = p /\ k = k0)
  BY <1>0 DEF HoldsAt
<1>2. \A k \in Chunks : \A h : h \in Holders(k)' <=> h \in Holders(k) \/ (h = p /\ k = k0)
  BY <1>1, HoldersAre, HoldersAreNext
<1>3. Holders(k0)' = {} \cup {p}
  BY <1>0, <1>2
<1>4. IsFiniteSet({} \cup {p}) /\ Cardinality({} \cup {p}) = 1
  <2>1. IsFiniteSet({}) /\ Cardinality({}) = 0
    BY FS_EmptySet
  <2>2. IsFiniteSet({} \cup {p}) /\ Cardinality({} \cup {p}) = Cardinality({}) + 1
    BY <2>1, FS_AddElement
  <2> QED
    BY <2>1, <2>2
<1>5. ASSUME NEW k \in Chunks
      PROVE  IsFiniteSet(Holders(k)') /\ refs'[k] = Cardinality(Holders(k)') /\ (k \in free' <=> Holders(k)' = {})
  <2>1. CASE k = k0
    BY <1>0, <1>3, <1>4, <2>1 DEF PoolTypeOK
  <2>2. CASE k # k0
    <3>1. Holders(k)' = Holders(k)
      BY <1>2, <2>2
    <3> QED
      BY <2>2, <3>1 DEF HoldersInv, RefsAreHolders, PoolTypeOK
  <2> QED
    BY <2>1, <2>2
<1> QED
  BY <1>5 DEF HoldersInv, RefsAreHolders, PoolTypeOK

LEMMA HoldersNext ==
  ASSUME FanoutIInv, [Next]_vars
  PROVE  HoldersInv' /\ PoolTypeOK'
<1> USE FanoutAssumption
<1>0. RestTypeOK /\ PlaceInv /\ PoolTypeOK /\ HoldersInv /\ PlaceInv'
  BY Typed, RestTypeNext DEF FanoutIInv, HoldersInv
<1>1. ASSUME UNCHANGED <<free, refs, queue, hand, chunk>>, \A g \in Feeders : feed'[g] \in Sending <=> feed[g] \in Sending
      PROVE  HoldersInv' /\ PoolTypeOK'
  BY <1>0, <1>1, Same DEF PoolTypeOK, poolVars
<1>2. ASSUME NEW c \in Clients, Join(c) \/ Remove(c) \/ DrainLeave(c) \/ DrainDone(c)
      PROVE  HoldersInv' /\ PoolTypeOK'
  BY <1>1, <1>2 DEF Join, Remove, DrainLeave, DrainDone, poolVars, drainVars, feedVars
<1>3. ASSUME NEW c \in Clients, DrainTake(c)
      PROVE  HoldersInv' /\ PoolTypeOK'
  <2>1. hand[c] = None /\ UNCHANGED <<poolVars, chunk, feed>>
    BY <1>0, <1>3 DEF DrainTake, PlaceInv, feedVars
  <2>2. PoolTypeOK'
    BY <1>0, <2>1 DEF PoolTypeOK, poolVars
  <2>3. HoldersInv'
    BY <1>0, <1>3, <2>1, HeadInHand DEF DrainTake, RestTypeOK
  <2> QED
    BY <2>2, <2>3
<1>4. ASSUME NEW c \in Clients, DrainWrite(c) \/ DrainFail(c)
      PROVE  HoldersInv' /\ PoolTypeOK'
  <2>1. hand[c] \in Chunks /\ Release(hand[c]) /\ hand' = [hand EXCEPT ![c] = None] /\ UNCHANGED <<queue, chunk, feed>>
    BY <1>0, <1>4 DEF DrainWrite, DrainFail, PlaceInv, RestTypeOK, feedVars
  <2>2. <<"written", c, 0>> \in Holders(hand[c])
    BY HoldersAre DEF HoldsAt
  <2>3. \A k \in Chunks : \A h : HoldsAt(h, k)' <=> HoldsAt(h, k) /\ ~(k = hand[c] /\ h = <<"written", c, 0>>)
    BY <1>0, <2>1 DEF HoldsAt, RestTypeOK
  <2>4. \A k \in Chunks : \A h : h \in Holders(k)' <=> h \in Holders(k) /\ ~(k = hand[c] /\ h = <<"written", c, 0>>)
    BY <2>3, HoldersAre, HoldersAreNext
  <2> QED
    BY <1>0, <2>1, <2>2, <2>4, Dropped
<1>5. ASSUME NEW c \in Clients, DrainFlush(c)
      PROVE  HoldersInv' /\ PoolTypeOK'
  <2>1. CASE queue[c] # << >> /\ Release(Head(queue[c])) /\ queue' = [queue EXCEPT ![c] = Tail(@)]
    BY <1>0, <1>5, <2>1, HeadReleased DEF DrainFlush, feedVars
  <2>2. CASE UNCHANGED <<poolVars, queue>>
    BY <1>1, <1>5, <2>2 DEF DrainFlush, feedVars, poolVars
  <2> QED
    BY <1>5, <2>1, <2>2 DEF DrainFlush
<1>6. ASSUME NEW f \in Feeders, FeedNew(f)
      PROVE  HoldersInv' /\ PoolTypeOK'
  <2>1. PICK k0 \in free : /\ free' = free \ {k0} /\ refs' = [refs EXCEPT ![k0] = 1]
                          /\ chunk' = [chunk EXCEPT ![f] = k0]
    BY <1>6 DEF FeedNew
  <2>2. chunk[f] = None /\ feed[f] = "idle" /\ UNCHANGED <<queue, hand>>
    BY <1>0, <1>6 DEF FeedNew, PlaceInv, drainVars
  <2>3. \A g \in Feeders : feed'[g] \in Sending <=> feed[g] \in Sending
    BY <1>0, <1>6 DEF FeedNew, Sending, RestTypeOK
  <2>4. feed[f] \notin Sending /\ chunk \in [Feeders -> Chunks \cup {None}]
    BY <1>0, <2>2 DEF Sending, RestTypeOK
  <2> QED
    BY <1>0, <2>1, <2>2, <2>3, <2>4, Made
<1>7. ASSUME NEW f \in Feeders, NEW c \in Clients, FeedVisit(f, c)
      PROVE  HoldersInv' /\ PoolTypeOK'
  <2>1. CASE Retain(chunk[f]) /\ feed' = [feed EXCEPT ![f] = "send"]
    <3>1. feed[f] = "range" /\ chunk[f] \in Chunks /\ UNCHANGED <<free, queue, hand, chunk>>
      BY <1>0, <1>7 DEF FeedVisit, PlaceInv, RestTypeOK, drainVars
    <3> QED
      BY <1>0, <2>1, <3>1, Taken DEF RestTypeOK
  <2>2. CASE UNCHANGED <<refs, feed>>
    BY <1>1, <1>7, <2>2 DEF FeedVisit, drainVars
  <2> QED
    BY <1>7, <2>1, <2>2 DEF FeedVisit
<1>8. ASSUME NEW f \in Feeders, FeedSend(f) \/ FeedResend(f), Len(queue[target[f]]) < Depth, Enqueue(f), NextClient(f), UNCHANGED poolVars
      PROVE  HoldersInv' /\ PoolTypeOK'
  <2>1. target[f] \in Clients /\ chunk[f] \in Chunks /\ feed[f] \in Sending /\ UNCHANGED <<poolVars, hand, chunk>>
    BY <1>0, <1>8 DEF FeedSend, FeedResend, PlaceInv, RestTypeOK, Sending, drainVars
  <2>2. HoldersInv'
    BY <1>0, <1>8, <2>1, Given DEF NextClient, RestTypeOK
  <2> QED
    BY <1>0, <1>8, <2>2 DEF PoolTypeOK, poolVars
<1>9. ASSUME NEW f \in Feeders, FeedSend(f), UNCHANGED queue, feed' = [feed EXCEPT ![f] = "shed"]
      PROVE  HoldersInv' /\ PoolTypeOK'
  <2>1. \A g \in Feeders : feed'[g] \in Sending <=> feed[g] \in Sending
    BY <1>0, <1>9 DEF FeedSend, RestTypeOK, Sending
  <2> QED
    BY <1>1, <1>9, <2>1 DEF FeedSend, drainVars, poolVars
<1>10. ASSUME NEW f \in Feeders, FeedShed(f)
      PROVE  HoldersInv' /\ PoolTypeOK'
  <2>1. target[f] \in Clients /\ UNCHANGED <<hand, chunk>>
    BY <1>0, <1>10 DEF FeedShed, RestTypeOK, PlaceInv, drainVars
  <2>2. \A g \in Feeders : feed'[g] \in Sending <=> feed[g] \in Sending
    BY <1>0, <1>10 DEF FeedShed, RestTypeOK, Sending
  <2>3. CASE queue[target[f]] # << >> /\ Release(Head(queue[target[f]])) /\ queue' = [queue EXCEPT ![target[f]] = Tail(queue[target[f]])]
    BY <1>0, <2>1, <2>2, <2>3, HeadReleased
  <2>4. CASE UNCHANGED <<poolVars, queue>>
    BY <1>1, <2>1, <2>2, <2>4 DEF poolVars
  <2> QED
    BY <1>10, <2>3, <2>4 DEF FeedShed
<1>11. ASSUME NEW f \in Feeders, FeedResend(f), Release(chunk[f]), UNCHANGED queue
      PROVE  HoldersInv' /\ PoolTypeOK'
  <2>1. chunk[f] \in Chunks /\ feed[f] \in Sending /\ UNCHANGED <<hand, chunk>>
    BY <1>0, <1>11 DEF FeedResend, RestTypeOK, PlaceInv, Sending, drainVars
  <2>2. \A g \in Feeders : feed'[g] \in Sending <=> feed[g] \in Sending /\ g # f
    BY <1>0, <1>11 DEF FeedResend, NextClient, RestTypeOK, Sending
  <2>3. <<"send", f, 0>> \in Holders(chunk[f])
    BY <2>1, HoldersAre DEF HoldsAt
  <2>4. \A k, h : HoldsAt(h, k)' <=> HoldsAt(h, k) /\ ~(k = chunk[f] /\ h = <<"send", f, 0>>)
    BY <1>11, <2>1, <2>2 DEF HoldsAt
  <2>5. \A k, h : h \in Holders(k)' <=> h \in Holders(k) /\ ~(k = chunk[f] /\ h = <<"send", f, 0>>)
    BY <2>4, HoldersAre, HoldersAreNext
  <2> QED
    BY <1>0, <1>11, <2>1, <2>3, <2>5, Dropped
<1>12. ASSUME NEW f \in Feeders, FeedEnd(f)
      PROVE  HoldersInv' /\ PoolTypeOK'
  <2>1. chunk[f] \in Chunks /\ Release(chunk[f]) /\ UNCHANGED <<queue, hand>> /\ chunk' = [chunk EXCEPT ![f] = None]
    BY <1>0, <1>12 DEF FeedEnd, RestTypeOK, PlaceInv, drainVars
  <2>2. \A g \in Feeders : (feed'[g] \in Sending <=> feed[g] \in Sending) /\ feed[f] \notin Sending
    BY <1>0, <1>12 DEF FeedEnd, RestTypeOK, Sending
  <2>3. <<"feeder", f, 0>> \in Holders(chunk[f])
    BY <2>1, HoldersAre DEF HoldsAt
  <2>4. \A k \in Chunks : \A h : HoldsAt(h, k)' <=> HoldsAt(h, k) /\ ~(k = chunk[f] /\ h = <<"feeder", f, 0>>)
    BY <1>0, <2>1, <2>2 DEF HoldsAt, RestTypeOK
  <2>5. \A k \in Chunks : \A h : h \in Holders(k)' <=> h \in Holders(k) /\ ~(k = chunk[f] /\ h = <<"feeder", f, 0>>)
    BY <2>4, HoldersAre, HoldersAreNext
  <2> QED
    BY <1>0, <1>12, <2>1, <2>3, <2>5, Dropped
<1>13. CASE UNCHANGED vars
  BY <1>1, <1>13 DEF vars, poolVars, drainVars, feedVars
<1>14. ASSUME NEW f \in Feeders, FeedSend(f) \/ FeedResend(f)
      PROVE  HoldersInv' /\ PoolTypeOK'
  BY <1>8, <1>9, <1>11, <1>14 DEF FeedSend, FeedResend
<1> QED
  BY <1>2, <1>3, <1>4, <1>5, <1>6, <1>7, <1>10, <1>12, <1>13, <1>14 DEF Next, drainClient, DistributeToClients

-----------------------------------------------------------------------------
(* What a step does to one client's line of chunks, and to one feeder      *)

Stays(c)   == written'[c] = written[c] /\ hand'[c] = hand[c] /\ queue'[c] = queue[c]
Takes(c)   == /\ queue[c] # << >> /\ hand[c] = None
              /\ hand'[c] = Head(queue[c]) /\ queue'[c] = Tail(queue[c]) /\ written'[c] = written[c]
Writes(c)  == /\ hand[c] # None /\ written'[c] = Append(written[c], data[hand[c]])
              /\ hand'[c] = None /\ queue'[c] = queue[c]
Fails(c)   == hand'[c] = None /\ written'[c] = written[c] /\ queue'[c] = queue[c]
Sheds(c)   == queue[c] # << >> /\ queue'[c] = Tail(queue[c]) /\ written'[c] = written[c] /\ hand'[c] = hand[c]
Gets(c, f) == /\ target[f] = c /\ chunk[f] \in Chunks /\ queue'[c] = Append(queue[c], chunk[f])
              /\ target'[f] = None /\ todo'[f] = todo[f] /\ chunk'[f] = chunk[f]
              /\ written'[c] = written[c] /\ hand'[c] = hand[c]

LEMMA ClientSteps ==
  ASSUME FanoutIInv, [Next]_vars, NEW c \in Clients
  PROVE  Stays(c) \/ Takes(c) \/ Writes(c) \/ Fails(c) \/ Sheds(c) \/ \E f \in Feeders : Gets(c, f)
<1> DEFINE Goal == Stays(c) \/ Takes(c) \/ Writes(c) \/ Fails(c) \/ Sheds(c) \/ \E f \in Feeders : Gets(c, f)
<1>0. RestTypeOK /\ PlaceInv
  BY Typed DEF FanoutIInv
<1>1. ASSUME UNCHANGED <<queue, hand, written>>
      PROVE  Goal
  BY <1>1 DEF Stays
<1>2. ASSUME NEW d \in Clients, drainClient(d) \/ Join(d) \/ Remove(d)
      PROVE  Goal
  <2>1. CASE d # c
    BY <1>0, <1>2, <2>1 DEF drainClient, Join, Remove, DrainTake, DrainWrite, DrainFail, DrainLeave, DrainDone, DrainFlush, RestTypeOK, PlaceInv, drainVars, Stays
  <2>2. CASE DrainTake(c)
    BY <1>0, <2>2 DEF DrainTake, RestTypeOK, PlaceInv, Takes
  <2>3. CASE DrainWrite(c)
    BY <1>0, <2>3 DEF DrainWrite, RestTypeOK, PlaceInv, Writes
  <2>4. CASE DrainFail(c)
    BY <1>0, <2>4 DEF DrainFail, RestTypeOK, PlaceInv, Fails
  <2>5. CASE DrainFlush(c)
    BY <1>0, <2>5 DEF DrainFlush, RestTypeOK, PlaceInv, Sheds, Stays
  <2>6. CASE Join(c) \/ Remove(c) \/ DrainLeave(c) \/ DrainDone(c)
    BY <1>1, <2>6 DEF Join, Remove, DrainLeave, DrainDone, drainVars
  <2> QED
    BY <1>2, <2>1, <2>2, <2>3, <2>4, <2>5, <2>6 DEF drainClient
<1>3. ASSUME NEW f \in Feeders, FeedNew(f) \/ FeedEnd(f) \/ \E d \in Clients : FeedVisit(f, d)
      PROVE  Goal
  BY <1>1, <1>3 DEF FeedNew, FeedEnd, FeedVisit, drainVars
<1>4. ASSUME NEW f \in Feeders, FeedSend(f) \/ FeedResend(f)
      PROVE  Goal
  <2>1. UNCHANGED <<hand, written>> /\ target[f] \in Clients /\ chunk[f] \in Chunks /\ UNCHANGED <<todo, chunk>>
    BY <1>0, <1>4 DEF FeedSend, FeedResend, drainVars, PlaceInv, RestTypeOK
  <2>2. CASE Enqueue(f) /\ NextClient(f)
    <3>1. CASE target[f] = c
      <4>1. Gets(c, f)
        BY <1>0, <2>1, <2>2, <3>1 DEF Enqueue, NextClient, RestTypeOK, PlaceInv, Gets
      <4> QED
        BY <4>1
    <3>2. CASE target[f] # c
      BY <1>0, <2>1, <2>2, <3>2 DEF Enqueue, PlaceInv, Stays
    <3> QED
      BY <3>1, <3>2
  <2>3. CASE UNCHANGED queue
    BY <1>1, <2>1, <2>3
  <2> QED
    BY <1>4, <2>2, <2>3 DEF FeedSend, FeedResend
<1>5. ASSUME NEW f \in Feeders, FeedShed(f)
      PROVE  Goal
  BY <1>0, <1>5 DEF FeedShed, drainVars, PlaceInv, RestTypeOK, Stays, Sheds
<1>6. CASE UNCHANGED vars
  BY <1>1, <1>6 DEF vars, drainVars
<1> QED
  BY <1>2, <1>3, <1>4, <1>5, <1>6 DEF Next, DistributeToClients

Carries(f) == /\ chunk'[f] = chunk[f] /\ todo'[f] \subseteq todo[f]
              /\ target'[f] \in todo[f] \cup {target[f], None}
Reads(f)   == /\ chunk'[f] \in free /\ data' = [data EXCEPT ![chunk'[f]] = <<f, reads + 1>>] /\ reads' = reads + 1
              /\ free' = free \ {chunk'[f]}

LEMMA FeederSteps ==
  ASSUME FanoutIInv, [Next]_vars
  PROVE  \/ /\ reads' = reads /\ data' = data /\ free \subseteq free'
            /\ \A f \in Feeders : Carries(f) \/ chunk'[f] = None
         \/ \E g \in Feeders : Reads(g) /\ \A f \in Feeders : f # g => Carries(f)
<1> DEFINE Goal == \/ /\ reads' = reads /\ data' = data /\ free \subseteq free'
                      /\ \A f \in Feeders : Carries(f) \/ chunk'[f] = None
                   \/ \E g \in Feeders : Reads(g) /\ \A f \in Feeders : f # g => Carries(f)
<1>0. RestTypeOK /\ PlaceInv /\ PoolTypeOK
  BY Typed DEF FanoutIInv
<1>1. ASSUME UNCHANGED <<reads, data, chunk, todo, target>>, free \subseteq free'
      PROVE  Goal
  BY <1>1 DEF Carries
<1>2. ASSUME NEW d \in Clients, drainClient(d) \/ Join(d) \/ Remove(d)
      PROVE  Goal
  <2>1. UNCHANGED <<reads, data, chunk, todo, target>>
    BY <1>2 DEF drainClient, Join, Remove, DrainTake, DrainWrite, DrainFail, DrainLeave, DrainDone, DrainFlush, feedVars
  <2>2. free \subseteq free'
    BY <1>2 DEF drainClient, Join, Remove, DrainTake, DrainWrite, DrainFail, DrainLeave, DrainDone, DrainFlush, poolVars, Release
  <2> QED
    BY <1>1, <2>1, <2>2
<1>3. ASSUME NEW f \in Feeders, FeedNew(f)
      PROVE  Goal
  <2>1. PICK k0 \in free : /\ free' = free \ {k0} /\ data' = [data EXCEPT ![k0] = <<f, reads + 1>>]
                          /\ chunk' = [chunk EXCEPT ![f] = k0]
    BY <1>3 DEF FeedNew
  <2>2. Reads(f)
    BY <1>0, <1>3, <2>1 DEF FeedNew, Reads, RestTypeOK
  <2>3. \A g \in Feeders : g # f => Carries(g)
    BY <1>0, <1>3, <2>1 DEF FeedNew, Carries, RestTypeOK
  <2> QED
    BY <2>2, <2>3
<1>4. ASSUME NEW f \in Feeders, NEW c \in Clients, FeedVisit(f, c)
      PROVE  Goal
  <2>1. UNCHANGED <<reads, data, chunk, free>>
    BY <1>4 DEF FeedVisit
  <2>2. \A g \in Feeders : todo'[g] \subseteq todo[g] /\ target'[g] \in todo[g] \cup {target[g], None}
    BY <1>0, <1>4 DEF FeedVisit, RestTypeOK
  <2> QED
    BY <2>1, <2>2 DEF Carries
<1>5. ASSUME NEW f \in Feeders, FeedSend(f) \/ FeedShed(f) \/ FeedResend(f)
      PROVE  Goal
  <2>1. UNCHANGED <<reads, data, chunk, todo>>
    BY <1>5 DEF FeedSend, FeedShed, FeedResend
  <2>2. free \subseteq free'
    BY <1>5 DEF FeedSend, FeedShed, FeedResend, poolVars, Release
  <2>3. \A g \in Feeders : target'[g] \in {target[g], None}
    BY <1>0, <1>5 DEF FeedSend, FeedShed, FeedResend, NextClient, RestTypeOK
  <2> QED
    BY <2>1, <2>2, <2>3 DEF Carries
<1>6. ASSUME NEW f \in Feeders, FeedEnd(f)
      PROVE  Goal
  <2>1. UNCHANGED <<reads, data, target, todo>> /\ free \subseteq free' /\ chunk' = [chunk EXCEPT ![f] = None]
    BY <1>6 DEF FeedEnd, Release
  <2> QED
    BY <1>0, <2>1 DEF Carries, RestTypeOK
<1>7. CASE UNCHANGED vars
  BY <1>1, <1>7 DEF vars, poolVars, feedVars
<1> QED
  BY <1>2, <1>3, <1>4, <1>5, <1>6, <1>7 DEF Next, DistributeToClients

-----------------------------------------------------------------------------
(* The chunks in use keep their data                                       *)

\* A chunk that is queued, being written or with a feeder is not in the pool.
LEMMA InUse ==
  ASSUME FanoutIInv
  PROVE  /\ \A c \in Clients : \A i \in 1 .. Len(queue[c]) : queue[c][i] \in Chunks \ free
         /\ \A c \in Clients : hand[c] # None => hand[c] \in Chunks \ free
         /\ \A f \in Feeders : chunk[f] # None => chunk[f] \in Chunks \ free
         /\ \A k \in Chunks \ free : data[k] \in Copies /\ data[k][2] <= reads
<1>0. RestTypeOK /\ PlaceInv
  BY Typed DEF FanoutIInv
<1>1. \A h : \A k \in Chunks : HoldsAt(h, k) => k \notin free
  BY HoldersAre DEF FanoutIInv, RefsAreHolders
<1>2. \A c \in Clients : \A i \in 1 .. Len(queue[c]) : queue[c][i] \in Chunks
  BY <1>0 DEF PlaceInv
<1>3. \A c \in Clients : \A i \in 1 .. Len(queue[c]) : queue[c][i] \in Chunks \ free
  <2> SUFFICES ASSUME NEW c \in Clients, NEW i \in 1 .. Len(queue[c])
               PROVE  queue[c][i] \in Chunks \ free
    OBVIOUS
  <2>1. HoldsAt(<<"queued", c, i>>, queue[c][i])
    BY DEF HoldsAt
  <2> QED
    BY <1>1, <1>2, <2>1
<1>4. ASSUME NEW c \in Clients, hand[c] # None
      PROVE  hand[c] \in Chunks \ free
  <2>1. HoldsAt(<<"written", c, 0>>, hand[c])
    BY DEF HoldsAt
  <2> QED
    BY <1>0, <1>1, <1>4, <2>1 DEF RestTypeOK
<1>5. ASSUME NEW f \in Feeders, chunk[f] # None
      PROVE  chunk[f] \in Chunks \ free
  <2>1. HoldsAt(<<"feeder", f, 0>>, chunk[f])
    BY DEF HoldsAt
  <2> QED
    BY <1>0, <1>1, <1>5, <2>1 DEF RestTypeOK
<1>6. \A k \in Chunks \ free : data[k] \in Copies /\ data[k][2] <= reads
  BY DEF FanoutIInv, RefsAreHolders, CopyInv, Copies
<1> QED
  BY <1>3, <1>4, <1>5, <1>6

LEMMA DataStays ==
  ASSUME FanoutIInv, [Next]_vars, NEW k \in Chunks \ free
  PROVE  data'[k] = data[k]
<1>0. RestTypeOK
  BY Typed DEF FanoutIInv
<1> QED
  BY <1>0, FeederSteps DEF Reads, RestTypeOK

LEMMA CopyNext ==
  ASSUME FanoutIInv, [Next]_vars
  PROVE  CopyInv'
<1>0. RestTypeOK /\ RestTypeOK' /\ HoldersInv' /\ PlaceInv /\ PoolTypeOK
  BY Typed, RestTypeNext, HoldersNext DEF FanoutIInv
<1>1. ASSUME reads' = reads, data' = data, free \subseteq free',
             \A f \in Feeders : Carries(f) \/ chunk'[f] = None
      PROVE  CopyInv'
  <2>1. \A k \in Chunks : Holders(k)' # {} => data'[k] \in Copies /\ data'[k][2] <= reads'
    BY <1>0, <1>1, InUse DEF HoldersInv, RefsAreHolders
  <2>2. \A f \in Feeders : chunk'[f] # None => data'[chunk'[f]][1] = f
    BY <1>1 DEF Carries, FanoutIInv, CopyInv
  <2> QED
    BY <2>1, <2>2 DEF CopyInv, Copies
<1>2. ASSUME NEW g \in Feeders, Reads(g), \A f \in Feeders : f # g => Carries(f)
      PROVE  CopyInv'
  <2>0. chunk'[g] \in Chunks /\ reads \in Nat /\ data'[chunk'[g]] = <<g, reads + 1>> /\ reads' = reads + 1
    BY <1>0, <1>2 DEF Reads, RestTypeOK, PoolTypeOK
  <2>1. ASSUME NEW k \in Chunks, Holders(k)' # {}
        PROVE  data'[k] \in Copies /\ data'[k][2] <= reads'
    <3>1. CASE k = chunk'[g]
      <4>1. reads + 1 \in 1 .. MaxReads
        BY <1>0, <2>0, FanoutAssumption DEF RestTypeOK
      <4> QED
        <5>1. data'[k] = <<g, reads + 1>> /\ <<g, reads + 1>> \in Copies
          BY <2>0, <3>1, <4>1 DEF Copies
        <5>2. <<g, reads + 1>>[2] <= reads'
          BY <2>0
        <5> QED
          BY <5>1, <5>2
    <3>2. CASE k # chunk'[g]
      <4>1. k \notin free /\ data'[k] = data[k]
        BY <1>0, <1>2, <2>1, <3>2 DEF HoldersInv, RefsAreHolders, Reads, RestTypeOK
      <4>2. data[k] \in Copies /\ data[k][2] <= reads /\ data[k][2] \in Nat
        BY <4>1, InUse DEF Copies
      <4> QED
        BY <2>0, <4>1, <4>2
    <3> QED
      BY <3>1, <3>2
  <2>2. ASSUME NEW f \in Feeders, chunk'[f] # None
        PROVE  data'[chunk'[f]][1] = f
    <3>1. CASE f = g
      BY <2>0, <3>1
    <3>2. CASE f # g
      <4>1. chunk'[f] = chunk[f]
        BY <1>2, <3>2 DEF Carries
      <4> QED
        BY <2>2, <4>1, InUse, DataStays DEF FanoutIInv, CopyInv
    <3> QED
      BY <3>1, <3>2
  <2> QED
    BY <2>1, <2>2 DEF CopyInv, Copies
<1> QED
  BY <1>1, <1>2, FeederSteps

-----------------------------------------------------------------------------
(* A client's line stays in order                                          *)

LEMMA LineData ==
  ASSUME FanoutIInv, [Next]_vars, NEW c \in Clients
  PROVE  /\ \A i \in 1 .. Len(queue[c]) : data'[queue[c][i]] = data[queue[c][i]] /\ data[queue[c][i]] \in Copies
         /\ hand[c] # None => data'[hand[c]] = data[hand[c]] /\ data[hand[c]] \in Copies
         /\ \A f \in Feeders : chunk[f] # None =>
              data'[chunk[f]] = data[chunk[f]] /\ data[chunk[f]] \in Copies /\ data[chunk[f]][1] = f
         /\ queue[c] \in Seq(Chunks) /\ written[c] \in Seq(Copies)
  BY InUse, DataStays DEF FanoutIInv, PlaceInv, CopyInv, Copies

LEMMA LineNext ==
  ASSUME FanoutIInv, [Next]_vars
  PROVE  LineInv'
<1> SUFFICES ASSUME NEW c \in Clients
             PROVE  /\ \A x, y \in Copies : Sent(c, x)' /\ InHand(c, y)' => Before(x, y)
                    /\ \A x, y \in Copies : (Sent(c, x)' \/ InHand(c, x)') /\ Queued(c, y)' => Before(x, y)
                    /\ \A i, j \in 1 .. Len(queue'[c]) : i < j => Before(data'[queue'[c][i]], data'[queue'[c][j]])
  BY DEF LineInv, Copies, Sent, InHand, Queued, Before
<1>0. /\ \A x, y \in Copies : Sent(c, x) /\ InHand(c, y) => Before(x, y)
      /\ \A x, y \in Copies : (Sent(c, x) \/ InHand(c, x)) /\ Queued(c, y) => Before(x, y)
      /\ \A i, j \in 1 .. Len(queue[c]) : i < j => Before(data[queue[c][i]], data[queue[c][j]])
  BY DEF FanoutIInv, LineInv
<1>1. CASE Stays(c)
  <2>1. \A x : (Sent(c, x)' <=> Sent(c, x)) /\ (InHand(c, x)' <=> InHand(c, x)) /\ (Queued(c, x)' <=> Queued(c, x))
    BY <1>1, LineData DEF Stays, Sent, InHand, Queued
  <2>2. \A i \in 1 .. Len(queue'[c]) : i \in 1 .. Len(queue[c]) /\ data'[queue'[c][i]] = data[queue[c][i]]
    BY <1>1, LineData DEF Stays
  <2> QED
    BY <1>0, <2>1, <2>2
<1>2. CASE Takes(c)
  <2>1. 1 \in 1 .. Len(queue[c]) /\ Head(queue[c]) = queue[c][1]
        /\ \A i \in 1 .. Len(queue'[c]) : i + 1 \in 1 .. Len(queue[c]) /\ queue'[c][i] = queue[c][i + 1] /\ i > 0 /\ i \in Int
    BY <1>2, LineData DEF Takes
  <2>2. \A x : (Sent(c, x)' <=> Sent(c, x)) /\ (InHand(c, x)' => x = data[queue[c][1]])
    BY <1>2, <2>1, LineData DEF Takes, Sent, InHand
  <2>3. \A x : Queued(c, x)' => \E i \in 1 .. Len(queue[c]) : i > 1 /\ i \in Int /\ x = data[queue[c][i]]
    BY <2>1, LineData DEF Queued
  <2>4. \A x : (InHand(c, x)' => Queued(c, x)) /\ (Queued(c, x)' => Queued(c, x))
    BY <2>1, <2>2, <2>3 DEF Queued
  <2>5. \A x, y : InHand(c, x)' /\ Queued(c, y)' => Before(x, y)
    BY <1>0, <2>1, <2>2, <2>3
  <2>6. \A i, j \in 1 .. Len(queue'[c]) : i < j => Before(data'[queue'[c][i]], data'[queue'[c][j]])
    <3> SUFFICES ASSUME NEW i \in 1 .. Len(queue'[c]), NEW j \in 1 .. Len(queue'[c]), i < j
                 PROVE  Before(data'[queue'[c][i]], data'[queue'[c][j]])
      OBVIOUS
    <3>1. i + 1 < j + 1
      BY <2>1
    <3>2. Before(data[queue[c][i + 1]], data[queue[c][j + 1]])
      <4>1. i + 1 \in 1 .. Len(queue[c]) /\ j + 1 \in 1 .. Len(queue[c])
        BY <2>1
      <4> HIDE <2>1
      <4> QED
        BY <1>0, <3>1, <4>1
    <3>3. data'[queue'[c][i]] = data[queue[c][i + 1]] /\ data'[queue'[c][j]] = data[queue[c][j + 1]]
      <4>1. \A n \in 1 .. Len(queue[c]) : data'[queue[c][n]] = data[queue[c][n]]
        BY LineData
      <4>2. i + 1 \in 1 .. Len(queue[c]) /\ j + 1 \in 1 .. Len(queue[c])
        BY <2>1
      <4> QED
        BY <2>1, <4>1, <4>2
    <3> QED
      BY <3>2, <3>3
  <2> QED
    BY <1>0, <2>2, <2>4, <2>5, <2>6
<1>3. CASE Writes(c)
  <2>1. \A x : Sent(c, x)' => Sent(c, x) \/ InHand(c, x)
    BY <1>3, LineData DEF Writes, Sent, InHand
  <2>2. \A x : ~InHand(c, x)' /\ (Queued(c, x)' <=> Queued(c, x))
    BY <1>3, LineData DEF Writes, InHand, Queued
  <2>3. \A i \in 1 .. Len(queue'[c]) : i \in 1 .. Len(queue[c]) /\ data'[queue'[c][i]] = data[queue[c][i]]
    BY <1>3, LineData DEF Writes
  <2> QED
    BY <1>0, <2>1, <2>2, <2>3
<1>4. CASE Fails(c)
  <2>1. \A x : (Sent(c, x)' <=> Sent(c, x)) /\ ~InHand(c, x)' /\ (Queued(c, x)' <=> Queued(c, x))
    BY <1>4, LineData DEF Fails, Sent, InHand, Queued
  <2>2. \A i \in 1 .. Len(queue'[c]) : i \in 1 .. Len(queue[c]) /\ data'[queue'[c][i]] = data[queue[c][i]]
    BY <1>4, LineData DEF Fails
  <2> QED
    BY <1>0, <2>1, <2>2
<1>5. CASE Sheds(c)
  <2>1. \A i \in 1 .. Len(queue'[c]) : i + 1 \in 1 .. Len(queue[c]) /\ queue'[c][i] = queue[c][i + 1] /\ i \in Int
    BY <1>5, LineData DEF Sheds
  <2>2. \A x : (Sent(c, x)' <=> Sent(c, x)) /\ (InHand(c, x)' <=> InHand(c, x)) /\ (Queued(c, x)' => Queued(c, x))
    BY <1>5, <2>1, LineData DEF Sheds, Sent, InHand, Queued
  <2>3. \A i, j \in 1 .. Len(queue'[c]) : i < j => Before(data'[queue'[c][i]], data'[queue'[c][j]])
    <3> SUFFICES ASSUME NEW i \in 1 .. Len(queue'[c]), NEW j \in 1 .. Len(queue'[c]), i < j
                 PROVE  Before(data'[queue'[c][i]], data'[queue'[c][j]])
      OBVIOUS
    <3>1. i + 1 < j + 1
      BY <2>1
    <3>2. Before(data[queue[c][i + 1]], data[queue[c][j + 1]])
      <4>1. i + 1 \in 1 .. Len(queue[c]) /\ j + 1 \in 1 .. Len(queue[c])
        BY <2>1
      <4> HIDE <2>1
      <4> QED
        BY <1>0, <3>1, <4>1
    <3>3. data'[queue'[c][i]] = data[queue[c][i + 1]] /\ data'[queue'[c][j]] = data[queue[c][j + 1]]
      <4>1. \A n \in 1 .. Len(queue[c]) : data'[queue[c][n]] = data[queue[c][n]]
        BY LineData
      <4>2. i + 1 \in 1 .. Len(queue[c]) /\ j + 1 \in 1 .. Len(queue[c])
        BY <2>1
      <4> QED
        BY <2>1, <4>1, <4>2
    <3> QED
      BY <3>2, <3>3
  <2> QED
    BY <1>0, <2>2, <2>3
<1>6. ASSUME NEW f \in Feeders, Gets(c, f)
      PROVE  /\ \A x, y \in Copies : Sent(c, x)' /\ InHand(c, y)' => Before(x, y)
             /\ \A x, y \in Copies : (Sent(c, x)' \/ InHand(c, x)') /\ Queued(c, y)' => Before(x, y)
             /\ \A i, j \in 1 .. Len(queue'[c]) : i < j => Before(data'[queue'[c][i]], data'[queue'[c][j]])
  <2> DEFINE new == data[chunk[f]]
  <2>1. chunk[f] # None /\ new \in Copies /\ new[1] = f /\ data'[chunk[f]] = new /\ target[f] = c
    BY <1>6, LineData, FanoutAssumption DEF Gets
  <2>2. \A x \in Copies : Seen(c, x) => Before(x, new)
    BY <2>1 DEF FanoutIInv, AheadInv, Before
  <2>3. /\ Len(queue[c]) \in Nat /\ Len(queue'[c]) = Len(queue[c]) + 1
        /\ \A i \in 1 .. Len(queue[c]) : data'[queue'[c][i]] = data[queue[c][i]]
        /\ data'[queue'[c][Len(queue[c]) + 1]] = new
    BY <1>6, <2>1, LineData DEF Gets
  <2>4. \A x : (Sent(c, x)' <=> Sent(c, x)) /\ (InHand(c, x)' <=> InHand(c, x))
    BY <1>6, LineData DEF Gets, Sent, InHand
  <2>5. \A x : Queued(c, x)' => Queued(c, x) \/ x = new
    <3> SUFFICES ASSUME NEW i \in 1 .. Len(queue'[c])
                 PROVE  Queued(c, data'[queue'[c][i]]) \/ data'[queue'[c][i]] = new
      BY DEF Queued
    <3> QED
      BY <2>3 DEF Queued
  <2>6. \A x, y \in Copies : (Sent(c, x)' \/ InHand(c, x)') /\ Queued(c, y)' => Before(x, y)
    BY <1>0, <2>2, <2>4, <2>5 DEF Seen
  <2>7. \A i, j \in 1 .. Len(queue'[c]) : i < j => Before(data'[queue'[c][i]], data'[queue'[c][j]])
    <3> SUFFICES ASSUME NEW i \in 1 .. Len(queue'[c]), NEW j \in 1 .. Len(queue'[c]), i < j
                 PROVE  Before(data'[queue'[c][i]], data'[queue'[c][j]])
      OBVIOUS
    <3>1. i \in 1 .. Len(queue[c]) /\ data'[queue'[c][i]] = data[queue[c][i]]
      BY <2>3
    <3>2. Seen(c, data[queue[c][i]]) /\ data[queue[c][i]] \in Copies
      BY <3>1, LineData DEF Seen, Queued
    <3>3. CASE j \in 1 .. Len(queue[c])
      BY <1>0, <2>3, <3>1, <3>3
    <3>4. CASE j = Len(queue[c]) + 1
      BY <2>2, <2>3, <3>1, <3>2, <3>4
    <3> QED
      BY <2>3, <3>3, <3>4
  <2> QED
    BY <1>0, <2>4, <2>6, <2>7
<1> QED
  BY <1>1, <1>2, <1>3, <1>4, <1>5, <1>6, ClientSteps

\* What a client has seen after a step: what it saw before, and what it got.
LEMMA SeenNext ==
  ASSUME FanoutIInv, [Next]_vars, NEW c \in Clients, NEW x, Seen(c, x)'
  PROVE  Seen(c, x) \/ \E f \in Feeders : Gets(c, f) /\ x = data[chunk[f]]
<1>1. CASE Stays(c)
  BY <1>1, LineData DEF Stays, Seen, Sent, InHand, Queued
<1>2. CASE Takes(c)
  <2>1. 1 \in 1 .. Len(queue[c]) /\ Head(queue[c]) = queue[c][1]
        /\ \A i \in 1 .. Len(queue'[c]) : i + 1 \in 1 .. Len(queue[c]) /\ queue'[c][i] = queue[c][i + 1]
    BY <1>2, LineData DEF Takes
  <2>2. Sent(c, x)' => Sent(c, x)
    BY <1>2, LineData DEF Takes, Sent
  <2>3. InHand(c, x)' => Queued(c, x)
    BY <1>2, <2>1, LineData DEF Takes, InHand, Queued
  <2>4. Queued(c, x)' => Queued(c, x)
    BY SMTT(40), <2>1, LineData DEF Queued
  <2> QED
    BY <2>2, <2>3, <2>4 DEF Seen
<1>3. CASE Writes(c)
  BY <1>3, LineData DEF Writes, Seen, Sent, InHand, Queued
<1>4. CASE Fails(c)
  BY <1>4, LineData DEF Fails, Seen, Sent, InHand, Queued
<1>5. CASE Sheds(c)
  <2>1. \A i \in 1 .. Len(queue'[c]) : i + 1 \in 1 .. Len(queue[c]) /\ queue'[c][i] = queue[c][i + 1]
    BY <1>5, LineData DEF Sheds
  <2> QED
    BY <1>5, <2>1, LineData DEF Sheds, Seen, Sent, InHand, Queued
<1>6. ASSUME NEW f \in Feeders, Gets(c, f)
      PROVE  Seen(c, x) \/ x = data[chunk[f]]
  <2>1. chunk[f] # None
    BY <1>6, FanoutAssumption DEF Gets
  <2>2. /\ Len(queue[c]) \in Nat /\ Len(queue'[c]) = Len(queue[c]) + 1
        /\ \A i \in 1 .. Len(queue[c]) : data'[queue'[c][i]] = data[queue[c][i]]
        /\ data'[queue'[c][Len(queue[c]) + 1]] = data[chunk[f]]
    BY <1>6, <2>1, LineData DEF Gets
  <2>3. (Sent(c, x)' => Sent(c, x)) /\ (InHand(c, x)' => InHand(c, x))
    BY <1>6, LineData DEF Gets, Sent, InHand
  <2>4. Queued(c, x)' => Queued(c, x) \/ x = data[chunk[f]]
    <3> SUFFICES ASSUME NEW i \in 1 .. Len(queue'[c])
                 PROVE  Queued(c, data'[queue'[c][i]]) \/ data'[queue'[c][i]] = data[chunk[f]]
      BY DEF Queued
    <3> QED
      BY <2>2 DEF Queued
  <2> QED
    BY <2>3, <2>4 DEF Seen
<1> QED
  BY <1>1, <1>2, <1>3, <1>4, <1>5, <1>6, ClientSteps

LEMMA AheadNext ==
  ASSUME FanoutIInv, [Next]_vars
  PROVE  AheadInv'
<1>0. RestTypeOK /\ RestTypeOK' /\ PlaceInv /\ PoolTypeOK
  BY Typed, RestTypeNext DEF FanoutIInv
<1>1. reads \in Nat /\ reads' \in Nat /\ reads <= reads'
  BY <1>0, FeederSteps, FanoutAssumption DEF RestTypeOK, Reads
<1> SUFFICES ASSUME NEW c \in Clients, NEW x \in Copies, Seen(c, x)'
             PROVE  /\ x[2] <= reads'
                    /\ \A f \in Feeders : chunk'[f] # None /\ x[1] = f =>
                         /\ x[2] <= data'[chunk'[f]][2]
                         /\ c \in todo'[f] \/ c = target'[f] => x[2] < data'[chunk'[f]][2]
  BY DEF AheadInv, Copies, Seen, Sent, InHand, Queued
<1>2. x[2] \in Nat /\ c # None
  BY FanoutAssumption DEF Copies
<1>3. CASE Seen(c, x)
  <2>1. /\ x[2] <= reads
        /\ \A f \in Feeders : chunk[f] # None /\ x[1] = f =>
             /\ x[2] <= data[chunk[f]][2]
             /\ c \in todo[f] \/ c = target[f] => x[2] < data[chunk[f]][2]
    BY <1>3 DEF FanoutIInv, AheadInv
  <2>2. ASSUME NEW f \in Feeders, chunk'[f] # None, x[1] = f
        PROVE  /\ x[2] <= data'[chunk'[f]][2]
               /\ c \in todo'[f] \/ c = target'[f] => x[2] < data'[chunk'[f]][2]
    <3>1. CASE Carries(f)
      <4>1. data'[chunk'[f]] = data[chunk[f]] /\ chunk[f] # None
        BY <2>2, <3>1, LineData DEF Carries
      <4>2. c \in todo'[f] \/ c = target'[f] => c \in todo[f] \/ c = target[f]
        BY <1>2, <3>1 DEF Carries
      <4> QED
        BY <2>1, <2>2, <4>1, <4>2
    <3>2. CASE Reads(f)
      <4>1. data'[chunk'[f]][2] = reads + 1
        BY <1>0, <3>2 DEF Reads, RestTypeOK, PoolTypeOK
      <4> QED
        BY <1>1, <1>2, <2>1, <4>1
    <3> QED
      BY <2>2, <3>1, <3>2, FeederSteps
  <2> QED
    BY <1>1, <1>2, <2>1, <2>2
<1>4. ASSUME NEW g \in Feeders, Gets(c, g), x = data[chunk[g]]
      PROVE  /\ x[2] <= reads'
             /\ \A f \in Feeders : chunk'[f] # None /\ x[1] = f =>
                  /\ x[2] <= data'[chunk'[f]][2]
                  /\ c \in todo'[f] \/ c = target'[f] => x[2] < data'[chunk'[f]][2]
  <2>1. chunk[g] # None /\ x[1] = g /\ chunk'[g] = chunk[g] /\ data'[chunk[g]] = x
    BY <1>4, LineData, FanoutAssumption DEF Gets
  <2>2. x[2] <= reads
    BY <1>4, <2>1, InUse
  <2>3. c \notin todo'[g] /\ c # target'[g]
    BY <1>0, <1>2, <1>4 DEF Gets, PlaceInv
  <2> QED
    BY <1>1, <1>2, <2>1, <2>2, <2>3
<1> QED
  BY <1>3, <1>4, SeenNext

LEMMA InOrderNext ==
  ASSUME FanoutIInv, [Next]_vars
  PROVE  InOrder'
<1> SUFFICES ASSUME NEW c \in Clients, NEW i \in 1 .. Len(written'[c]), NEW j \in 1 .. Len(written'[c]), i < j
             PROVE  Before(written'[c][i], written'[c][j])
  BY DEF InOrder, Before
<1>1. \A a, b \in 1 .. Len(written[c]) : a < b => Before(written[c][a], written[c][b])
  BY DEF FanoutIInv, InOrder, Before
<1>2. CASE written'[c] = written[c]
  BY <1>1, <1>2
<1>3. CASE Writes(c)
  <2>1. /\ Len(written[c]) \in Nat /\ Len(written'[c]) = Len(written[c]) + 1
        /\ \A n \in 1 .. Len(written[c]) : written'[c][n] = written[c][n]
        /\ written'[c][Len(written[c]) + 1] = data[hand[c]]
    BY <1>3, LineData DEF Writes
  <2>2. CASE j \in 1 .. Len(written[c])
    BY <1>1, <2>1, <2>2
  <2>3. CASE j = Len(written[c]) + 1
    <3>1. i \in 1 .. Len(written[c]) /\ written'[c][i] = written[c][i] /\ written'[c][j] = data[hand[c]]
      BY <2>1, <2>3
    <3>2. Sent(c, written[c][i]) /\ written[c][i] \in Copies
      BY <3>1, LineData DEF Sent
    <3>3. InHand(c, data[hand[c]]) /\ data[hand[c]] \in Copies
      BY <1>3, LineData DEF Writes, InHand
    <3> QED
      BY <3>1, <3>2, <3>3 DEF FanoutIInv, LineInv
  <2> QED
    BY <2>1, <2>2, <2>3
<1> QED
  BY <1>2, <1>3, ClientSteps DEF Stays, Takes, Fails, Sheds, Gets

LEMMA NewestNext ==
  ASSUME FanoutIInv, [Next]_vars
  PROVE  NewestIsQueued'
<1>0. RestTypeOK /\ PlaceInv /\ PlaceInv' /\ RestTypeOK'
  BY Typed, RestTypeNext DEF FanoutIInv
<1> SUFFICES ASSUME NEW f \in Feeders, feed'[f] = "resend"
             PROVE  Len(queue'[target'[f]]) < Depth \/ data'[queue'[target'[f]][Len(queue'[target'[f]])]][1] # f
  BY DEF NewestIsQueued
<1>1. CASE FeedShed(f)
  <2>1. target'[f] = target[f] /\ target[f] \in Clients
    BY <1>0, <1>1 DEF FeedShed, PlaceInv, RestTypeOK
  <2>2. Len(queue[target[f]]) <= Depth /\ queue[target[f]] \in Seq(Chunks)
    BY <1>0, <2>1 DEF RestTypeOK, PlaceInv
  <2>3. CASE queue[target[f]] # << >> /\ queue' = [queue EXCEPT ![target[f]] = Tail(queue[target[f]])]
    <3>1. queue'[target[f]] = Tail(queue[target[f]])
      BY <1>0, <2>1, <2>3 DEF PlaceInv
    <3>2. Len(Tail(queue[target[f]])) = Len(queue[target[f]]) - 1 /\ Len(queue[target[f]]) \in Nat
      BY <2>2, <2>3
    <3>3. Len(Tail(queue[target[f]])) < Depth
      BY <2>2, <3>2, FanoutAssumption
    <3> QED
      BY <2>1, <3>1, <3>3
  <2>4. CASE queue[target[f]] = << >> /\ UNCHANGED queue
    BY <2>1, <2>4, FanoutAssumption
  <2> QED
    BY <1>1, <2>3, <2>4 DEF FeedShed
<1>2. CASE feed[f] = "resend" /\ target'[f] = target[f]
  <2> DEFINE c == target[f]
  <2>1. c \in Clients /\ Len(queue[c]) <= Depth /\ queue[c] \in Seq(Chunks) /\ Len(queue'[c]) <= Depth /\ queue'[c] \in Seq(Chunks)
    BY <1>0, <1>2 DEF PlaceInv, RestTypeOK
  <2>2. Len(queue[c]) < Depth \/ (data[queue[c][Len(queue[c])]][1] # f /\ Len(queue[c]) > 0)
    BY <1>2, <2>1, FanoutAssumption DEF FanoutIInv, NewestIsQueued
  <2>3. CASE queue'[c] = queue[c]
    <3>1. Len(queue[c]) > 0 => data'[queue[c][Len(queue[c])]] = data[queue[c][Len(queue[c])]]
      BY <2>1, LineData
    <3> QED
      BY <1>2, <2>2, <2>3, <3>1
  <2>4. CASE queue[c] # << >> /\ queue'[c] = Tail(queue[c])
    BY <1>2, <2>1, <2>4, FanoutAssumption
  <2>5. ASSUME NEW g \in Feeders, Gets(c, g)
        PROVE  data'[queue'[c][Len(queue'[c])]][1] # f
    <3>1. g # f
      BY <1>2, <2>1, <2>5, FanoutAssumption DEF Gets
    <3>2. queue'[c][Len(queue'[c])] = chunk[g] /\ chunk[g] # None
      BY <2>1, <2>5, FanoutAssumption DEF Gets
    <3> QED
      BY <2>1, <3>1, <3>2, LineData
  <2> QED
    BY <1>2, <2>1, <2>3, <2>4, <2>5, ClientSteps DEF Stays, Takes, Writes, Fails, Sheds
<1>3. FeedShed(f) \/ (feed[f] = "resend" /\ target'[f] = target[f])
  <2>1. ASSUME NEW d \in Clients, drainClient(d) \/ Join(d) \/ Remove(d)
        PROVE  UNCHANGED <<feed, target>>
    BY <2>1 DEF drainClient, Join, Remove, DrainTake, DrainWrite, DrainFail, DrainLeave, DrainDone, DrainFlush, feedVars
  <2>2. ASSUME NEW g \in Feeders, FeedNew(g) \/ FeedSend(g) \/ FeedResend(g) \/ FeedEnd(g) \/ \E d \in Clients : FeedVisit(g, d)
        PROVE  feed[f] = "resend" /\ target'[f] = target[f]
    BY <1>0, <2>2 DEF FeedNew, FeedSend, FeedResend, FeedEnd, FeedVisit, NextClient, RestTypeOK
  <2>3. ASSUME NEW g \in Feeders, FeedShed(g), g # f
        PROVE  feed[f] = "resend" /\ target'[f] = target[f]
    BY <1>0, <2>3 DEF FeedShed, RestTypeOK
  <2>4. CASE UNCHANGED vars
    BY <2>4 DEF vars, feedVars
  <2> QED
    BY <2>1, <2>2, <2>3, <2>4 DEF Next, DistributeToClients
<1> QED
  BY <1>1, <1>2, <1>3

-----------------------------------------------------------------------------
(* The theorems                                                            *)

LEMMA FanoutInit == Init => FanoutIInv
<1> SUFFICES ASSUME Init
             PROVE  FanoutIInv
  OBVIOUS
<1> USE FanoutAssumption
<1>1. PlaceInv /\ PoolTypeOK /\ RestTypeOK
  BY DEF Init, PlaceInv, PoolTypeOK, RestTypeOK
<1>2. \A k \in Chunks : Holders(k) = {}
  <2>1. \A h : \A k \in Chunks : ~HoldsAt(h, k)
    BY DEF Init, HoldsAt
  <2> QED
    BY <2>1, HoldersAre
<1>3. IsFiniteSet({}) /\ Cardinality({}) = 0
  BY FS_EmptySet
<1>4. RefsAreHolders /\ \A k \in Chunks : IsFiniteSet(Holders(k))
  BY <1>2, <1>3 DEF Init, RefsAreHolders
<1>5. CopyInv
  BY <1>2 DEF Init, CopyInv
<1>6. LineInv /\ AheadInv
  BY DEF Init, LineInv, AheadInv, Seen, Sent, InHand, Queued
<1>7. InOrder /\ NewestIsQueued
  BY DEF Init, InOrder, NewestIsQueued
<1> QED
  BY <1>1, <1>4, <1>5, <1>6, <1>7, Typed DEF FanoutIInv

LEMMA FanoutNext == FanoutIInv /\ [Next]_vars => FanoutIInv'
<1> SUFFICES ASSUME FanoutIInv, [Next]_vars
             PROVE  FanoutIInv'
  OBVIOUS
<1>1. RestTypeOK' /\ PlaceInv' /\ HoldersInv' /\ PoolTypeOK'
  BY RestTypeNext, HoldersNext
<1>2. FanoutTypeOK'
  BY <1>1 DEF FanoutTypeOK, PoolTypeOK, RestTypeOK, PlaceInv
<1> QED
  BY <1>1, <1>2, CopyNext, LineNext, AheadNext, InOrderNext, NewestNext DEF FanoutIInv, HoldersInv

THEOREM FanoutInductive == Spec => []FanoutIInv
  BY FanoutInit, FanoutNext, PTL DEF Spec

\* Every reference is accounted for: a chunk's count is the number of places that
\* hold it, and the pool has exactly the chunks that nobody holds (StreamChunk.Retain
\* and Release, DistributeToClients, drainClient).
THEOREM RefsCounted == Spec => []FanoutInv
<1>1. FanoutIInv => FanoutInv
  BY DEF FanoutIInv, FanoutInv
<1> QED
  BY <1>1, FanoutInductive, PTL

\* What reaches a client's socket is in the order of its feeder's reads, none twice,
\* and never the data of a chunk that was pooled and reused meanwhile.
THEOREM WrittenInOrder == Spec => []InOrder
<1>1. FanoutIInv => InOrder
  BY DEF FanoutIInv
<1> QED
  BY <1>1, FanoutInductive, PTL

\* After a feeder has shed, there is room for its newest chunk, unless another
\* feeder has taken it.
THEOREM RoomForNewest == Spec => []NewestIsQueued
<1>1. FanoutIInv => NewestIsQueued
  BY DEF FanoutIInv
<1> QED
  BY <1>1, FanoutInductive, PTL
=============================================================================
