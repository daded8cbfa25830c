-------------------------- MODULE ConfigurationProofs --------------------------
(***************************************************************************)
(* What is configured and what the guide's sources give: the configuration *)
(* store, for any documents, profiles and admins, the Schedules Direct     *)
(* client, for any number of accounts, sessions, stations and programmes,  *)
(* and any batch size, and the guide, for any sources, mapping and clients.*)
(***************************************************************************)
EXTENDS SchedulesDirect, Guide, ConfigStore, SequenceTheorems, FiniteSetTheorems, WellFoundedInduction, TLAPS

(***************************************************************************)
(* The Schedules Direct client.  Whoever holds tokenCacheMu works on the   *)
(* table as it is, and a stored entry knows of every login of its account  *)
(* (ThrottleInv); what a session has asked for is the beginning of what it *)
(* has to ask for (Walked).                                                *)
(***************************************************************************)

LEMMA SessionIs ==
  /\ DOMAIN NoSession = {"pc", "cache", "lineups", "stations", "asked", "airings", "ids", "detailed", "programs", "unscheduled"}
  /\ NoSession.pc = "idle" /\ NoSession.cache = NoRows /\ NoSession.lineups = {} /\ NoSession.stations = <<>>
  /\ NoSession.asked = <<>> /\ NoSession.airings = {} /\ NoSession.ids = <<>> /\ NoSession.detailed = <<>>
  /\ NoSession.programs = {} /\ NoSession.unscheduled = FALSE
BY DEF NoSession

-----------------------------------------------------------------------------
(* Lists and batches                                                       *)

\* SetToSeq puts a finite set into a list that holds all of it.
LEMMA ListOf ==
  ASSUME NEW S, IsFiniteSet(S)
  PROVE  SetToSeq(S) \in Seq(S) /\ ToSet(SetToSeq(S)) = S
<1> DEFINE n == Cardinality(S)
           good == {f \in [1..n -> S] : IsInjective(f)}
<1>1. n \in Nat /\ ExistsBijection(1..n, S)
  BY FS_CardinalityType
<1>2. PICK b \in good : TRUE
  BY <1>1 DEF ExistsBijection, Bijection, Injection
<1>3. SetToSeq(S) \in good
  BY <1>2 DEF SetToSeq
<1> DEFINE q == SetToSeq(S)
<1> HIDE DEF q
<1>4. q \in [1..n -> S] /\ IsInjective(q)
  BY <1>3 DEF q
<1>5. q \in Injection(1..n, S)
  BY <1>4 DEF Injection
<1>6. Cardinality(1..n) = n
  BY <1>1, FS_Interval
<1>7. q \in Surjection(1..n, S)
  BY <1>5, <1>6, FS_Injection
<1>8. ToSet(q) = S
  BY <1>4, <1>7 DEF ToSet, Surjection
<1> QED
  BY <1>1, <1>4, <1>8 DEF q

LEMMA LeastOf ==
  ASSUME NEW T \in SUBSET Nat, T # {}
  PROVE  \E x \in T : \A y \in T : x <= y
<1> DEFINE R == {ss \in Nat \X Nat : ss[1] < ss[2]}
<1>1. IsWellFoundedOn(R, Nat)
  BY NatLessThanWellFounded DEF OpToRel
<1> HIDE DEF R
<1>2. PICK x \in T : \A y \in T : ~ (<<y, x>> \in R)
  BY <1>1, WFMin
<1>3. \A y \in T : ~(y < x)
  BY <1>2 DEF R
<1> QED
  BY <1>3

LEMMA LeastPlace ==
  ASSUME NEW T \in SUBSET Nat, T # {}
  PROVE  Min(T) \in T /\ \A y \in T : Min(T) <= y
BY LeastOf DEF Min

\* The places of a list are ranked by a key, those of one key by themselves: each rank is
\* taken once.
ranksBefore(key, i) == {j \in DOMAIN key : key[j] < key[i] \/ (key[j] = key[i] /\ j < i)}
RankOf(key, i) == Cardinality(ranksBefore(key, i))

LEMMA RanksAre ==
  ASSUME NEW N \in Nat, NEW key \in [1..N -> Int]
  PROVE  /\ \A i \in 1..N : RankOf(key, i) \in 0..(N - 1)
         /\ \A i, j \in 1..N : key[i] < key[j] => RankOf(key, i) < RankOf(key, j)
         /\ \A i, j \in 1..N : i # j => RankOf(key, i) # RankOf(key, j)
         /\ \A n \in 1..N : \E i \in 1..N : RankOf(key, i) = n - 1
<1> DEFINE before(i, j) == key[i] < key[j] \/ (key[i] = key[j] /\ i < j)
           rank(i) == RankOf(key, i)
           place == [i \in 1..N |-> rank(i) + 1]
<1>1. \A i \in 1..N : key[i] \in Int
  OBVIOUS
<1>2. \A i \in 1..N : rank(i) = Cardinality({j \in 1..N : before(j, i)})
  BY DEF RankOf, ranksBefore
<1>3. \A i, j, k \in 1..N : /\ ~before(i, i)
                            /\ i # j => before(i, j) \/ before(j, i)
                            /\ before(i, j) /\ before(j, k) => before(i, k)
                            /\ key[i] < key[j] => before(i, j)
  BY <1>1
<1> HIDE DEF before, rank
<1> DEFINE R(i) == {j \in 1..N : before(j, i)}
<1>4. IsFiniteSet(1..N) /\ Cardinality(1..N) = N
  BY FS_Interval
<1>5. ASSUME NEW i \in 1..N PROVE rank(i) \in 0..(N - 1) /\ IsFiniteSet(R(i)) /\ rank(i) = Cardinality(R(i))
  <2>1. R(i) \subseteq (1..N) \ {i}
    BY <1>3
  <2>2. IsFiniteSet((1..N) \ {i}) /\ Cardinality((1..N) \ {i}) = N - 1
    BY <1>4, FS_RemoveElement
  <2>3. IsFiniteSet(R(i)) /\ Cardinality(R(i)) <= N - 1
    BY <2>1, <2>2, FS_Subset
  <2>4. rank(i) = Cardinality(R(i))
    BY <1>2
  <2> QED
    BY <2>3, <2>4, FS_CardinalityType
<1>6. ASSUME NEW i \in 1..N, NEW j \in 1..N, before(i, j) PROVE rank(i) < rank(j)
  <2>1. R(i) \cup {i} \subseteq R(j) /\ i \notin R(i)
    BY <1>3, <1>6
  <2>2. IsFiniteSet(R(j)) /\ IsFiniteSet(R(i))
    BY <1>5
  <2> HIDE DEF R
  <2>3. Cardinality(R(i) \cup {i}) = Cardinality(R(i)) + 1
    BY <2>1, <2>2, FS_AddElement
  <2>4. Cardinality(R(i)) + 1 <= Cardinality(R(j))
    BY <2>1, <2>2, <2>3, FS_Subset
  <2> QED
    BY <2>4, <1>5
<1> HIDE DEF R
<1>7. \A i, j \in 1..N : i # j => rank(i) # rank(j)
  BY <1>3, <1>5, <1>6
<1>8. place \in Injection(1..N, 1..N)
  <2>1. \A i \in 1..N : rank(i) + 1 \in 1..N /\ rank(i) \in Nat
    BY <1>5
  <2>2. place \in [1..N -> 1..N]
    BY <2>1
  <2>3. \A i, j \in 1..N : i # j => rank(i) + 1 # rank(j) + 1
    BY <2>1, <1>7
  <2>4. \A i, j \in 1..N : i # j => place[i] # place[j]
    BY <2>3
  <2> QED
    BY <2>2, <2>4 DEF Injection, IsInjective
<1> HIDE DEF place
<1>9. place \in Surjection(1..N, 1..N)
  BY <1>4, <1>8, FS_Injection
<1>10. ASSUME NEW n \in 1..N PROVE \E i \in 1..N : rank(i) = n - 1
  <2>1. PICK i \in 1..N : place[i] = n
    BY <1>9 DEF Surjection
  <2>2. place[i] = rank(i) + 1 /\ rank(i) \in Int /\ n \in Int
    BY <1>5, <2>1 DEF place
  <2> QED
    BY <2>1, <2>2
<1>11. \A i, j \in 1..N : key[i] < key[j] => rank(i) < rank(j)
  BY <1>3, <1>6
<1> QED
  BY <1>5, <1>7, <1>10, <1>11 DEF rank

\* Induction, for a set instead of a predicate.
LEMMA Induct ==
  ASSUME NEW T, 0 \in T, \A n \in Nat : n \in T => n + 1 \in T
  PROVE  \A n \in Nat : n \in T
<1> SUFFICES ASSUME {n \in Nat : n \notin T} # {} PROVE FALSE
  OBVIOUS
<1>1. PICK x \in {n \in Nat : n \notin T} : \A y \in {n \in Nat : n \notin T} : x <= y
  BY LeastOf
<1>2. x - 1 \in Nat /\ x - 1 \in T
  BY <1>1
<1> QED
  BY <1>1, <1>2

\* Recursion over the positions of a list: the function the definition chooses exists.
LEMMA Recursion ==
  ASSUME NEW S, NEW b \in S, NEW N \in Nat, NEW step \in [1..N -> [S -> S]]
  PROVE  \E f \in [0..N -> S] : f[0] = b /\ \A n \in 1..N : f[n] = step[n][f[n - 1]]
<1> DEFINE Upto(m, f) == f \in [0..m -> S] /\ \A n \in 0..m : f[n] = IF n = 0 THEN b ELSE step[n][f[n - 1]]
           T == {m \in Nat : m <= N => \E f : Upto(m, f)}
<1>1. 0 \in T
  <2>1. Upto(0, [n \in 0..0 |-> b])
    OBVIOUS
  <2> QED
    BY <2>1
<1>2. ASSUME NEW m \in Nat, m \in T PROVE m + 1 \in T
  <2>1. SUFFICES ASSUME m + 1 <= N PROVE \E f : Upto(m + 1, f)
    OBVIOUS
  <2>2. PICK f : Upto(m, f)
    BY <1>2, <2>1
  <2> DEFINE g == [n \in 0..(m + 1) |-> IF n = m + 1 THEN step[m + 1][f[m]] ELSE f[n]]
  <2>3. m + 1 \in 1..N /\ f[m] \in S /\ step[m + 1][f[m]] \in S
    BY <2>1, <2>2
  <2>4. g \in [0..(m + 1) -> S]
    BY <2>2, <2>3
  <2>5. ASSUME NEW n \in 0..(m + 1) PROVE g[n] = IF n = 0 THEN b ELSE step[n][g[n - 1]]
    <3>1. CASE n = m + 1
      BY <2>3, <3>1
    <3>2. CASE n # m + 1
      <4>1. n \in 0..m /\ g[n] = f[n] /\ (n # 0 => n - 1 \in 0..m /\ g[n - 1] = f[n - 1])
        BY <3>2
      <4> QED
        BY <2>2, <4>1
    <3> QED
      BY <3>1, <3>2
  <2> QED
    BY <2>4, <2>5
<1> HIDE DEF T
<1>3. N \in T
  BY <1>1, <1>2, Induct
<1>4. PICK f : Upto(N, f)
  BY <1>3 DEF T
<1>5. f[0] = b /\ \A n \in 1..N : f[n] = step[n][f[n - 1]]
  BY <1>4
<1> QED
  BY <1>4, <1>5

LEMMA LeastOfTwo ==
  ASSUME NEW a \in Int, NEW b \in Int
  PROVE  Min({a, b}) = IF a <= b THEN a ELSE b
<1> DEFINE m == IF a <= b THEN a ELSE b
<1>1. m \in {a, b} /\ \A y \in {a, b} : m <= y
  OBVIOUS
<1>2. \A x \in {a, b} : (\A y \in {a, b} : x <= y) => x = m
  OBVIOUS
<1> HIDE DEF m
<1>3. Min({a, b}) = m
  BY <1>1, <1>2 DEF Min
<1> QED
  BY <1>3 DEF m

LEMMA UnionOfLists ==
  ASSUME NEW R, NEW p \in Seq(R), NEW q \in Seq(R)
  PROVE  ToSet(p \o q) = ToSet(p) \cup ToSet(q)
<1> DEFINE j == p \o q
<1>1. Len(p) \in Nat /\ Len(q) \in Nat /\ DOMAIN p = 1 .. Len(p) /\ DOMAIN q = 1 .. Len(q)
  OBVIOUS
<1>2. /\ Len(j) = Len(p) + Len(q) /\ DOMAIN j = 1 .. Len(p) + Len(q)
      /\ \A i \in 1 .. Len(p) + Len(q) : j[i] = IF i <= Len(p) THEN p[i] ELSE q[i - Len(p)]
  OBVIOUS
<1> HIDE DEF j
<1>3. \A i \in DOMAIN j : j[i] \in ToSet(p) \cup ToSet(q)
  BY <1>1, <1>2 DEF ToSet
<1>4. \A i \in DOMAIN p : i \in DOMAIN j /\ j[i] = p[i]
  BY <1>1, <1>2
<1>5. \A i \in DOMAIN q : i + Len(p) \in DOMAIN j /\ j[i + Len(p)] = q[i]
  BY <1>1, <1>2
<1>6. ToSet(p) \subseteq ToSet(j) /\ ToSet(q) \subseteq ToSet(j)
  BY <1>4, <1>5 DEF ToSet
<1>7. ToSet(j) \subseteq ToSet(p) \cup ToSet(q)
  BY <1>3 DEF ToSet
<1> QED
  BY <1>6, <1>7 DEF j

LEMMA ImageIsFinite ==
  ASSUME NEW S, IsFiniteSet(S), NEW f, f = [x \in S |-> f[x]]
  PROVE  IsFiniteSet({f[x] : x \in S})
<1> DEFINE R == {f[x] : x \in S}
<1>1. f \in Surjection(S, R)
  BY DEF Surjection
<1> HIDE DEF R
<1>2. IsFiniteSet(R)
  BY <1>1, FS_Surjection
<1> QED
  BY <1>2 DEF R

LEMMA ListIsFinite ==
  ASSUME NEW S, NEW q \in Seq(S)
  PROVE  IsFiniteSet(ToSet(q)) /\ ToSet(q) \subseteq S
<1>1. Len(q) \in Nat /\ DOMAIN q = 1 .. Len(q) /\ \A i \in DOMAIN q : q[i] \in S
  OBVIOUS
<1>2. IsFiniteSet(1 .. Len(q))
  BY <1>1, FS_Interval
<1>3. q = [i \in 1 .. Len(q) |-> q[i]]
  OBVIOUS
<1>4. IsFiniteSet({q[i] : i \in 1 .. Len(q)})
  BY <1>2, <1>3, ImageIsFinite
<1> QED
  BY <1>1, <1>4 DEF ToSet

\* A batch continues what has been asked, and is empty only at the end of the list.
LEMMA BatchContinues ==
  ASSUME NEW S, NEW list \in Seq(S), NEW had \in Seq(ToSet(list)), IsPrefix(had, list)
  PROVE  /\ had \o batch(list, Len(had)) \in Seq(ToSet(list))
         /\ IsPrefix(had \o batch(list, Len(had)), list)
         /\ ToSet(batch(list, Len(had))) \subseteq ToSet(list)
         /\ batch(list, Len(had)) = <<>> => had = list
         /\ ToSet(had \o batch(list, Len(had))) = ToSet(had) \cup ToSet(batch(list, Len(had)))
<1> DEFINE L == Len(list)
           n == Len(had)
           m == Min({L, n + SDBatchSize})
           R == ToSet(list)
           asks == SubSeq(list, n + 1, m)
<1>0. L \in Nat /\ n \in Nat /\ SDBatchSize \in Nat \ {0} /\ n <= L
  BY SDAssumption DEF SDAssumption, IsPrefix
<1>1. m \in n .. L /\ (m = n => n = L)
  <2>1. m = IF L <= n + SDBatchSize THEN L ELSE n + SDBatchSize
    BY <1>0, LeastOfTwo
  <2> QED
    BY <1>0, <2>1
<1>2. batch(list, n) = asks
  BY DEF batch
<1> HIDE DEF m
<1>3. list \in Seq(R) /\ DOMAIN list = 1 .. L
  BY DEF ToSet
<1>4. asks \in Seq(R) /\ Len(asks) = m - n /\ \A i \in 1 .. m - n : asks[i] = list[n + i]
  BY <1>0, <1>1, <1>3
<1>5. had = SubSeq(list, 1, n)
  BY <1>0, SubSeqFull DEF IsPrefix
<1>6. had \o asks = SubSeq(list, 1, m)
  <2>1. m \in Int /\ 1 \in 1 .. L + 1 /\ n \in 1 - 1 .. L /\ m \in n .. L
    BY <1>0, <1>1
  <2> HIDE DEF L, n, R
  <2>2. SubSeq(list, 1, n) \o SubSeq(list, n + 1, m) = SubSeq(list, 1, m)
    BY <1>3, <2>1, ConcatAdjacentSubSeq DEF L
  <2> QED
    BY <1>5, <2>2
<1>7. SubSeq(list, 1, m) \in Seq(R) /\ Len(SubSeq(list, 1, m)) = m
  BY <1>0, <1>1, <1>3
<1>8. IsPrefix(had \o asks, list)
  BY <1>0, <1>1, <1>6, <1>7, SubSeqFull DEF IsPrefix
<1>9. ASSUME asks = <<>> PROVE had = list
  <2>1. m - n = 0
    BY <1>4, <1>9
  <2>2. n = L
    BY <1>0, <1>1, <2>1
  <2> QED
    BY <1>3, <1>5, <2>2, SubSeqFull
<1>10. ToSet(asks) \subseteq R
  <2> HIDE DEF asks, R
  <2>1. asks \in Seq(R)
    BY <1>4
  <2> QED
    BY <2>1 DEF ToSet
<1>11. ToSet(had \o asks) = ToSet(had) \cup ToSet(asks)
  <2> HIDE DEF asks, R
  <2>1. had \in Seq(R) /\ asks \in Seq(R)
    BY <1>4 DEF R
  <2> QED
    BY <2>1, UnionOfLists
<1> QED
  BY <1>2, <1>6, <1>7, <1>8, <1>9, <1>10, <1>11

-----------------------------------------------------------------------------
(* The walk                                                                *)

Late == {"dates", "schedules", "programs", "done"}
Locked == {"decide", "login", "answer"}

Others(f) == DOMAIN sd' = SDSessions /\ \A g \in SDSessions \ {f} : sd'[g] = sd[g]
WalkFieldsKept(f) ==
  /\ sd'[f].lineups = sd[f].lineups /\ sd'[f].stations = sd[f].stations /\ sd'[f].asked = sd[f].asked
  /\ sd'[f].airings = sd[f].airings /\ sd'[f].ids = sd[f].ids /\ sd'[f].detailed = sd[f].detailed
  /\ sd'[f].programs = sd[f].programs /\ sd'[f].unscheduled = sd[f].unscheduled

\* Nothing of the walk has begun.
LEMMA BlankWalked ==
  ASSUME NEW f \in SDSessions, NEW s, sd[f] = s, s.pc \notin Late,
         s.lineups = {}, s.stations = <<>>, s.asked = <<>>, s.airings = {}, s.ids = <<>>, s.detailed = <<>>,
         s.programs = {}, s.unscheduled = FALSE
  PROVE  Walked(f)
<1>1. ToSet(<<>>) = {} /\ IsFiniteSet({}) /\ IsPrefix(<<>>, <<>>) /\ \A S : <<>> \in Seq(S)
  BY FS_EmptySet DEF ToSet, IsPrefix
<1> QED
  BY <1>1 DEF Walked, Late

LEMMA WalkUntouched ==
  ASSUME NEW f \in SDSessions, Walked(f), WalkFieldsKept(f), sd[f].pc \notin Late, sd'[f].pc \notin Late
  PROVE  Walked(f)'
BY DEF Walked, WalkFieldsKept, Late

LEMMA OthersWalked ==
  ASSUME NEW f \in SDSessions, NEW g \in SDSessions, sd'[g] = sd[g], Walked(g)
  PROVE  Walked(g)'
BY DEF Walked

LEMMA ServiceIsFinite ==
  ASSUME NEW f \in SDSessions, Walked(f)
  PROVE  /\ \A came \in SUBSET sd[f].lineups : IsFiniteSet(UNION {Stations[l] : l \in came})
         /\ UNION {Stations[l] : l \in sd[f].lineups} \subseteq DOMAIN Airings
         /\ ToSet(sd[f].stations) \subseteq UNION {Stations[l] : l \in sd[f].lineups}
         /\ \A good \in SUBSET ToSet(sd[f].stations) : IsFiniteSet(UNION {{s} \X Airings[s] : s \in good})
<1> DEFINE u == UserOf[f]
           list == Lineups[u]
<1>1. u \in Subscribers /\ list \in Seq(DOMAIN Stations)
  BY SDAssumption, ServiceAssumption DEF SDAssumption, ServiceAssumption
<1> HIDE DEF list
<1>2. IsFiniteSet(ToSet(list)) /\ ToSet(list) \subseteq DOMAIN Stations
  BY <1>1, ListIsFinite
<1>3. sd[f].lineups \subseteq ToSet(list)
  BY DEF Walked, fetchLineups, list
<1>4. ASSUME NEW came \in SUBSET sd[f].lineups PROVE IsFiniteSet(UNION {Stations[l] : l \in came})
  <2>1. IsFiniteSet(came) /\ came \subseteq DOMAIN Stations
    BY <1>2, <1>3, FS_Subset
  <2> DEFINE named == [l \in came |-> Stations[l]]
             sets == {named[l] : l \in came}
  <2>2. IsFiniteSet(sets)
    <3>1. named = [l \in came |-> named[l]]
      OBVIOUS
    <3> HIDE DEF named
    <3> QED
      BY <2>1, <3>1, ImageIsFinite
  <2>3. \A x \in sets : IsFiniteSet(x)
    BY <2>1, ServiceAssumption DEF ServiceAssumption
  <2>5. UNION sets = UNION {Stations[l] : l \in came}
    OBVIOUS
  <2> HIDE DEF sets
  <2>4. IsFiniteSet(UNION sets)
    BY <2>2, <2>3, FS_UNION
  <2> QED
    BY <2>4, <2>5
<1>5. UNION {Stations[l] : l \in sd[f].lineups} \subseteq DOMAIN Airings
  BY <1>2, <1>3, ServiceAssumption DEF ServiceAssumption
<1> DEFINE all == UNION {Stations[l] : l \in sd[f].lineups}
           stations == sd[f].stations
<1>6. stations \in Seq(all)
  BY DEF Walked
<1> HIDE DEF all, stations
<1>7. IsFiniteSet(ToSet(stations)) /\ ToSet(stations) \subseteq all
  BY <1>6, ListIsFinite
<1>8. ASSUME NEW good \in SUBSET ToSet(stations) PROVE IsFiniteSet(UNION {{s} \X Airings[s] : s \in good})
  <2>1. IsFiniteSet(good) /\ good \subseteq DOMAIN Airings
    BY <1>5, <1>7, FS_Subset DEF all
  <2> DEFINE named == [s \in good |-> {s} \X Airings[s]]
             sets == {named[s] : s \in good}
  <2>2. IsFiniteSet(sets)
    <3>1. named = [s \in good |-> named[s]]
      OBVIOUS
    <3> HIDE DEF named
    <3> QED
      BY <2>1, <3>1, ImageIsFinite
  <2>3. \A x \in sets : IsFiniteSet(x)
    <3> SUFFICES ASSUME NEW s \in good PROVE IsFiniteSet({s} \X Airings[s])
      OBVIOUS
    <3> QED
      BY <2>1, FS_Product, FS_Singleton, ServiceAssumption DEF ServiceAssumption
  <2>5. UNION sets = UNION {{s} \X Airings[s] : s \in good}
    OBVIOUS
  <2> HIDE DEF sets
  <2>4. IsFiniteSet(UNION sets)
    BY <2>2, <2>3, FS_UNION
  <2> QED
    BY <2>4, <2>5
<1> QED
  BY <1>4, <1>5, <1>7, <1>8 DEF all, stations

-----------------------------------------------------------------------------
(* Tokens                                                                  *)

SessionPcs == {"idle", "lock", "decide", "login", "answer", "status", "lineups", "stations",
               "dates", "schedules", "programs", "done"}
LockInv ==
  /\ hour \in 0..LastHour /\ tokenLock \in SDSessions \cup {Unlocked} /\ rowsLost \in BOOLEAN
  /\ \A f \in SDSessions : sd[f].pc \in SessionPcs /\ (sd[f].pc \in Locked <=> tokenLock = f)
TokenPart == LockInv /\ TokensInv /\ ThrottleInv /\ LoginsAreSpaced

LEMMA TypeOfParts ==
  ASSUME LockInv, TokensInv, WalkInv
  PROVE  SDTypeOK
<1>1. ASSUME NEW u \in Subscribers, tokenRows[u] # NoToken
      PROVE  tokenRows[u] \in [obtained : 0..hour, attempt : 0..hour] /\ tokenRows[u].obtained <= tokenRows[u].attempt
  BY <1>1 DEF TokensInv, TokenCaches, TokenEntries
<1>2. ASSUME NEW f \in SDSessions
      PROVE  Len(sd[f].asked) <= Len(sd[f].stations) /\ sd[f].programs \subseteq Detailed
  BY DEF WalkInv, Walked, IsPrefix
<1> QED
  BY <1>1, <1>2 DEF SDTypeOK, LockInv, SessionPcs, Locked

LEMMA PartsOfType == ASSUME SDTypeOK PROVE LockInv
BY DEF SDTypeOK, LockInv, SessionPcs, Locked

LEMMA PcMoves ==
  ASSUME TokensInv, NEW f \in SDSessions, NEW p, sd' = [sd EXCEPT ![f].pc = p]
  PROVE  /\ Others(f) /\ WalkFieldsKept(f) /\ DOMAIN sd'[f] = DOMAIN NoSession
         /\ sd'[f].pc = p /\ sd'[f].cache = sd[f].cache
<1>1. DOMAIN sd = SDSessions /\ DOMAIN sd[f] = DOMAIN NoSession
  BY DEF TokensInv
<1> QED
  BY <1>1, SessionIs DEF Others, WalkFieldsKept

LEMMA PcAndCacheMove ==
  ASSUME TokensInv, NEW f \in SDSessions, NEW p, NEW c, sd' = [sd EXCEPT ![f].pc = p, ![f].cache = c]
  PROVE  /\ Others(f) /\ WalkFieldsKept(f) /\ DOMAIN sd'[f] = DOMAIN NoSession
         /\ sd'[f].pc = p /\ sd'[f].cache = c
<1>1. DOMAIN sd = SDSessions /\ DOMAIN sd[f] = DOMAIN NoSession
  BY DEF TokensInv
<1> QED
  BY <1>1, SessionIs DEF Others, WalkFieldsKept

LEMMA BlankIsTyped == NoSession.cache \in TokenCaches
BY SessionIs DEF TokenCaches, NoRows

\* A session that neither holds the lock nor takes it moves on.
LEMMA QuietStep ==
  ASSUME TokenPart, NEW f \in SDSessions, Others(f), UNCHANGED <<hour, tokenRows, tokenLock, logins, rowsLost>>,
         sd[f].pc \notin Locked, sd'[f].pc \in SessionPcs \ Locked,
         DOMAIN sd'[f] = DOMAIN NoSession, sd'[f].cache \in TokenCaches
  PROVE  TokenPart'
<1>1. TokenCaches' = TokenCaches
  BY DEF TokenCaches, TokenEntries
<1>2. LockInv'
  BY DEF TokenPart, LockInv, Others
<1>3. TokensInv'
  BY <1>1 DEF TokenPart, TokensInv, Others
<1>4. ThrottleInv'
  BY DEF TokenPart, ThrottleInv, Others, Locked
<1>5. LoginsAreSpaced'
  BY DEF TokenPart, LoginsAreSpaced, Spaced
<1> QED
  BY <1>2, <1>3, <1>4, <1>5 DEF TokenPart

LEMMA LoadTokenCacheKeeps ==
  ASSUME TokenPart, NEW f \in SDSessions, LoadTokenCache(f)
  PROVE  TokenPart' /\ Others(f) /\ WalkFieldsKept(f) /\ sd[f].pc = "lock" /\ sd'[f].pc = "decide"
<1>0. TokensInv /\ LockInv /\ ThrottleInv /\ LoginsAreSpaced
  BY DEF TokenPart
<1>1. /\ Others(f) /\ WalkFieldsKept(f) /\ DOMAIN sd'[f] = DOMAIN NoSession /\ sd'[f].pc = "decide"
      /\ \/ sd'[f].cache = tokenRows /\ rowsLost' = rowsLost
         \/ sd'[f].cache = sd[f].cache /\ rowsLost' = TRUE
  BY <1>0, PcMoves, PcAndCacheMove DEF LoadTokenCache
<1>2. sd[f].pc = "lock" /\ tokenLock = Unlocked /\ tokenLock' = f /\ UNCHANGED <<hour, tokenRows, logins>>
  BY DEF LoadTokenCache
<1>3. TokenCaches' = TokenCaches
  BY <1>2 DEF TokenCaches, TokenEntries
<1>4. LockInv'
  BY <1>0, <1>1, <1>2, SDAssumption DEF SDAssumption, LockInv, Others, Locked, SessionPcs
<1>5. TokensInv'
  BY <1>0, <1>1, <1>2, <1>3 DEF TokensInv, Others
<1>6. \A g \in SDSessions \ {f} : sd[g].pc \notin Locked
  BY <1>0, <1>2, SDAssumption DEF SDAssumption, LockInv
<1>7. ThrottleInv'
  BY <1>0, <1>1, <1>2, <1>6 DEF ThrottleInv, Others, Locked
<1>8. LoginsAreSpaced'
  <2>1. ~rowsLost' => ~rowsLost
    BY <1>1
  <2>2. LoginsAreSpaced /\ logins' = logins
    BY <1>0, <1>2
  <2> QED
    BY <2>1, <2>2 DEF LoginsAreSpaced, Spaced
<1> QED
  BY <1>1, <1>2, <1>4, <1>5, <1>7, <1>8 DEF TokenPart

\* A session gives the lock back, and keeps or drops what it has.
LEMMA UnlockingStep ==
  ASSUME TokenPart, NEW f \in SDSessions, Others(f), UNCHANGED <<hour, tokenRows, logins, rowsLost>>,
         sd[f].pc \in Locked, tokenLock' = Unlocked, sd'[f].pc \in SessionPcs \ Locked,
         DOMAIN sd'[f] = DOMAIN NoSession, sd'[f].cache \in TokenCaches
  PROVE  TokenPart'
<1>0. TokensInv /\ LockInv /\ ThrottleInv /\ LoginsAreSpaced
  BY DEF TokenPart
<1>1. TokenCaches' = TokenCaches
  BY DEF TokenCaches, TokenEntries
<1>2. \A g \in SDSessions \ {f} : sd[g].pc \notin Locked
  BY <1>0 DEF LockInv
<1>3. LockInv'
  BY <1>0, <1>2, SDAssumption DEF SDAssumption, LockInv, Others
<1>4. TokensInv'
  BY <1>0, <1>1 DEF TokensInv, Others
<1>5. ThrottleInv'
  BY <1>0, <1>2 DEF ThrottleInv, Others, Locked
<1>6. LoginsAreSpaced'
  BY <1>0 DEF LoginsAreSpaced, Spaced
<1> QED
  BY <1>3, <1>4, <1>5, <1>6 DEF TokenPart

LEMMA UseTokenKeeps ==
  ASSUME TokenPart, NEW f \in SDSessions, UseToken(f)
  PROVE  TokenPart' /\ Others(f) /\ WalkFieldsKept(f) /\ sd[f].pc = "decide" /\ sd'[f].pc = "status"
<1>1. sd[f].pc = "decide" /\ tokenLock' = Unlocked /\ UNCHANGED <<hour, tokenRows, logins, rowsLost>>
  BY DEF UseToken
<1>2. /\ Others(f) /\ WalkFieldsKept(f) /\ DOMAIN sd'[f] = DOMAIN NoSession
      /\ sd'[f].pc = "status" /\ sd'[f].cache = sd[f].cache
  BY PcMoves DEF UseToken, TokenPart
<1>3. sd'[f].cache \in TokenCaches
  BY <1>2 DEF TokenPart, TokensInv
<1> QED
  BY <1>1, <1>2, <1>3, UnlockingStep DEF Locked, SessionPcs

LEMMA LoginRefusedKeeps ==
  ASSUME TokenPart, NEW f \in SDSessions, LoginRefused(f)
  PROVE  TokenPart' /\ Others(f) /\ sd'[f] = NoSession
<1>1. sd[f].pc = "answer" /\ tokenLock' = Unlocked /\ UNCHANGED <<hour, tokenRows, logins, rowsLost>>
  BY DEF LoginRefused
<1>2. Others(f) /\ sd'[f] = NoSession
  BY DEF LoginRefused, Others, TokenPart, TokensInv
<1> QED
  BY <1>1, <1>2, SessionIs, BlankIsTyped, UnlockingStep DEF Locked, SessionPcs

LEMMA FirstLoginKeeps ==
  ASSUME TokenPart, NEW f \in SDSessions, FirstLogin(f)
  PROVE  TokenPart' /\ Others(f) /\ WalkFieldsKept(f) /\ sd[f].pc = "decide" /\ sd'[f].pc = "login"
<1>0. TokensInv /\ LockInv /\ ThrottleInv /\ LoginsAreSpaced
  BY DEF TokenPart
<1>1. /\ sd[f].pc = "decide" /\ sd[f].cache[UserOf[f]] = NoToken
      /\ UNCHANGED <<hour, tokenRows, tokenLock, logins, rowsLost>>
  BY DEF FirstLogin
<1>2. /\ Others(f) /\ WalkFieldsKept(f) /\ DOMAIN sd'[f] = DOMAIN NoSession
      /\ sd'[f].pc = "login" /\ sd'[f].cache = sd[f].cache
  BY <1>0, PcMoves DEF FirstLogin
<1>3. TokenCaches' = TokenCaches
  BY <1>1 DEF TokenCaches, TokenEntries
<1>4. LockInv'
  BY <1>0, <1>1, <1>2 DEF LockInv, Others, Locked, SessionPcs
<1>5. TokensInv'
  BY <1>0, <1>1, <1>2, <1>3 DEF TokensInv, Others
<1>6. \A g \in SDSessions \ {f} : sd[g].pc \notin Locked
  BY <1>0, <1>1 DEF LockInv, Locked
<1>7. ThrottleInv'
  BY <1>0, <1>1, <1>2, <1>6 DEF ThrottleInv, Others, Locked
<1>8. LoginsAreSpaced'
  BY <1>0, <1>1 DEF LoginsAreSpaced, Spaced
<1> QED
  BY <1>1, <1>2, <1>4, <1>5, <1>7, <1>8 DEF TokenPart

LEMMA MemberOf == ASSUME NEW S, NEW q \in Seq(S) PROVE \A i \in DOMAIN q : q[i] \in S
OBVIOUS

LEMMA EntriesAre ==
  ASSUME TokensInv, LockInv
  PROVE  /\ hour \in Nat
         /\ \A f \in SDSessions, u \in Subscribers : sd[f].cache[u] # NoToken =>
              /\ sd[f].cache[u] \in [obtained : 0..hour, attempt : 0..hour]
              /\ sd[f].cache[u].obtained <= sd[f].cache[u].attempt
         /\ \A u \in Subscribers : /\ logins[u] \in Seq([at : 0..hour, first : BOOLEAN])
                                   /\ \A i \in DOMAIN logins[u] : logins[u][i].at \in 0..hour
<1>1. hour \in Nat
  BY SDAssumption DEF LockInv, SDAssumption
<1>2. ASSUME NEW f \in SDSessions, NEW u \in Subscribers, sd[f].cache[u] # NoToken
      PROVE  sd[f].cache[u] \in [obtained : 0..hour, attempt : 0..hour] /\ sd[f].cache[u].obtained <= sd[f].cache[u].attempt
  BY <1>2 DEF TokensInv, TokenCaches, TokenEntries
<1>3. ASSUME NEW u \in Subscribers
      PROVE  logins[u] \in Seq([at : 0..hour, first : BOOLEAN]) /\ \A i \in DOMAIN logins[u] : logins[u][i].at \in 0..hour
  <2>1. logins[u] \in Seq([at : 0..hour, first : BOOLEAN])
    BY DEF TokensInv
  <2> DEFINE made == [at : 0..hour, first : BOOLEAN]
  <2> HIDE DEF made
  <2>2. \A i \in DOMAIN logins[u] : logins[u][i] \in made
    BY <2>1, MemberOf DEF made
  <2> QED
    BY <2>1, <2>2 DEF made
<1> QED
  BY <1>1, <1>2, <1>3

\* Whoever writes an entry of its account, with the lock, and notes the time in it.
LEMMA SavingStep ==
  ASSUME TokenPart, NEW f \in SDSessions, Others(f), UNCHANGED <<hour, logins>>,
         NEW e \in TokenEntries, e.attempt = hour,
         sd[f].pc \in Locked, DOMAIN sd'[f] = DOMAIN NoSession,
         sd'[f].cache = [sd[f].cache EXCEPT ![UserOf[f]] = e], Saved(sd'[f].cache),
         \/ sd'[f].pc \in SessionPcs \ Locked /\ tokenLock' = Unlocked
         \/ /\ sd'[f].pc = "login" /\ tokenLock' = tokenLock
            /\ ~rowsLost => \A i \in DOMAIN logins[UserOf[f]] : hour - logins[UserOf[f]][i].at >= SDRefreshThreshold
  PROVE  TokenPart'
<1>0. TokensInv /\ LockInv /\ ThrottleInv /\ LoginsAreSpaced
  BY DEF TokenPart
<1>1. UserOf[f] \in Subscribers
  BY SDAssumption DEF SDAssumption
<1>2. TokenCaches' = TokenCaches
  BY DEF TokenCaches, TokenEntries
<1>3. \A g \in SDSessions \ {f} : sd[g].pc \notin Locked
  BY <1>0 DEF LockInv
<1>4. LockInv'
  BY ZenonT(40), <1>0, <1>3, SDAssumption DEF SDAssumption, LockInv, Others, Saved, Locked, SessionPcs
<1>5. sd[f].cache \in TokenCaches /\ sd'[f].cache \in TokenCaches
  BY <1>0, <1>1 DEF TokensInv, TokenCaches
<1>6. TokensInv'
  BY <1>0, <1>2, <1>5 DEF TokensInv, Others, Saved
<1>7. ASSUME ~rowsLost'
      PROVE  ~rowsLost /\ sd[f].cache = tokenRows /\ tokenRows' = [tokenRows EXCEPT ![UserOf[f]] = e] /\ sd'[f].cache = tokenRows'
  BY <1>0, <1>7 DEF Saved, ThrottleInv, Locked
<1>8. ThrottleInv'
  <2> SUFFICES ASSUME ~rowsLost' PROVE ThrottleInv'
    BY DEF ThrottleInv
  <2>1. ASSUME NEW u \in Subscribers, tokenRows'[u] # NoToken, NEW i \in DOMAIN logins[u]
        PROVE  logins[u][i].at <= tokenRows'[u].attempt
    <3>1. CASE u = UserOf[f]
      <4>1. tokenRows'[u] = e
        BY <1>0, <1>7, <3>1 DEF TokensInv, TokenCaches
      <4> QED
        BY <1>0, <4>1, EntriesAre
    <3>2. CASE u # UserOf[f]
      <4>1. tokenRows'[u] = tokenRows[u]
        BY <1>0, <1>7, <3>2 DEF TokensInv, TokenCaches
      <4> QED
        BY <1>0, <1>7, <2>1, <4>1 DEF ThrottleInv
    <3> QED
      BY <3>1, <3>2
  <2>2. sd'[f].cache[UserOf[f]] = e
    BY <1>1, <1>5 DEF TokenCaches
  <2>3. ASSUME NEW g \in SDSessions
        PROVE  /\ sd'[g].pc \in {"decide", "login", "answer"} => sd'[g].cache = tokenRows'
               /\ sd'[g].pc \in {"login", "answer"} /\ sd'[g].cache[UserOf[g]] # NoToken => sd'[g].cache[UserOf[g]].attempt = hour'
               /\ sd'[g].pc = "login" /\ sd'[g].cache[UserOf[g]] # NoToken =>
                    \A i \in DOMAIN logins'[UserOf[g]] : hour' - logins'[UserOf[g]][i].at >= SDRefreshThreshold
    <3>1. CASE g = f
      BY <1>7, <2>2, <3>1 DEF Locked
    <3>2. CASE g # f
      BY <1>3, <3>2 DEF Others, Locked
    <3> QED
      BY <3>1, <3>2
  <2> QED
    BY <2>1, <2>3 DEF ThrottleInv
<1>9. LoginsAreSpaced'
  BY <1>0, <1>7 DEF LoginsAreSpaced, Spaced
<1> QED
  BY <1>4, <1>6, <1>8, <1>9 DEF TokenPart

LEMMA RefreshKeeps ==
  ASSUME TokenPart, NEW f \in SDSessions, Refresh(f)
  PROVE  TokenPart' /\ Others(f) /\ WalkFieldsKept(f) /\ sd[f].pc = "decide" /\ sd'[f].pc = "login"
<1> DEFINE entry == sd[f].cache[UserOf[f]]
           e == attemptNow(entry)
           cache == [sd[f].cache EXCEPT ![UserOf[f]] = e]
<1>0. TokensInv /\ LockInv /\ ThrottleInv /\ LoginsAreSpaced /\ UserOf[f] \in Subscribers
  BY SDAssumption DEF TokenPart, SDAssumption
<1>1. /\ sd[f].pc = "decide" /\ entry # NoToken /\ ~throttled(entry)
      /\ sd' = [sd EXCEPT ![f].pc = "login", ![f].cache = cache]
      /\ UNCHANGED <<hour, tokenLock, logins>>
  BY DEF Refresh
<1>2. Saved(cache)
  BY DEF Refresh
<1>3. entry \in [obtained : 0..hour, attempt : 0..hour] /\ entry.obtained <= entry.attempt /\ hour \in Nat
  BY <1>0, <1>1, EntriesAre
<1>4. e \in TokenEntries /\ e.attempt = hour
  BY <1>3 DEF attemptNow, TokenEntries
<1> HIDE DEF e, cache
<1>5. /\ Others(f) /\ WalkFieldsKept(f) /\ DOMAIN sd'[f] = DOMAIN NoSession
      /\ sd'[f].pc = "login" /\ sd'[f].cache = cache
  BY <1>0, <1>1, PcAndCacheMove
<1>6. ASSUME ~rowsLost, NEW i \in DOMAIN logins[UserOf[f]]
      PROVE  hour - logins[UserOf[f]][i].at >= SDRefreshThreshold
  <2>1. tokenRows[UserOf[f]] = entry
    BY <1>0, <1>1, <1>6 DEF ThrottleInv
  <2>2. logins[UserOf[f]][i].at <= entry.attempt
    BY <1>0, <1>1, <1>6, <2>1 DEF ThrottleInv
  <2>3. logins[UserOf[f]][i].at \in 0..hour
    BY <1>0, EntriesAre
  <2> QED
    BY <1>1, <1>3, <2>2, <2>3, SDAssumption DEF throttled, SDAssumption
<1>7. TokenPart'
  <2>1. sd'[f].cache = [sd[f].cache EXCEPT ![UserOf[f]] = e] /\ Saved(sd'[f].cache)
    BY <1>2, <1>5 DEF cache
  <2> HIDE DEF entry
  <2> QED
    BY <1>1, <1>4, <1>5, <1>6, <2>1, SavingStep DEF Locked
<1> QED
  BY <1>1, <1>5, <1>7

LEMMA doLoginKeeps ==
  ASSUME TokenPart, NEW f \in SDSessions, doLogin(f)
  PROVE  TokenPart' /\ Others(f) /\ WalkFieldsKept(f) /\ sd[f].pc = "answer" /\ sd'[f].pc = "status"
<1> DEFINE e == Entry(hour, hour)
           cache == [sd[f].cache EXCEPT ![UserOf[f]] = e]
<1>0. TokensInv /\ LockInv
  BY DEF TokenPart
<1>1. /\ sd[f].pc = "answer" /\ Saved(cache) /\ tokenLock' = Unlocked
      /\ sd' = [sd EXCEPT ![f].pc = "status", ![f].cache = cache]
      /\ UNCHANGED <<hour, logins>>
  BY DEF doLogin
<1>2. e \in TokenEntries /\ e.attempt = hour
  BY <1>0, EntriesAre DEF Entry, TokenEntries
<1> HIDE DEF e, cache
<1>3. /\ Others(f) /\ WalkFieldsKept(f) /\ DOMAIN sd'[f] = DOMAIN NoSession
      /\ sd'[f].pc = "status" /\ sd'[f].cache = cache
  BY <1>0, <1>1, PcAndCacheMove
<1>4. TokenPart'
  <2>1. sd'[f].cache = [sd[f].cache EXCEPT ![UserOf[f]] = e] /\ Saved(sd'[f].cache)
    BY <1>1, <1>3 DEF cache
  <2> QED
    BY <1>1, <1>2, <1>3, <2>1, SavingStep DEF Locked, SessionPcs
<1> QED
  BY <1>1, <1>3, <1>4

LEMMA SendLoginKeeps ==
  ASSUME TokenPart, NEW f \in SDSessions, SendLogin(f)
  PROVE  TokenPart' /\ Others(f) /\ WalkFieldsKept(f) /\ sd[f].pc = "login" /\ sd'[f].pc = "answer"
<1> DEFINE u == UserOf[f]
           entry == sd[f].cache[u]
           new == [at |-> hour, first |-> entry = NoToken]
<1>0. TokensInv /\ LockInv /\ ThrottleInv /\ LoginsAreSpaced /\ u \in Subscribers
  BY SDAssumption DEF TokenPart, SDAssumption
<1>1. /\ sd[f].pc = "login" /\ logins' = [logins EXCEPT ![u] = Append(@, new)]
      /\ UNCHANGED <<hour, tokenRows, tokenLock, rowsLost>>
  BY DEF SendLogin
<1>2. /\ Others(f) /\ WalkFieldsKept(f) /\ DOMAIN sd'[f] = DOMAIN NoSession
      /\ sd'[f].pc = "answer" /\ sd'[f].cache = sd[f].cache
  BY <1>0, PcMoves DEF SendLogin
<1>3. TokenCaches' = TokenCaches
  BY <1>1 DEF TokenCaches, TokenEntries
<1>4. \A g \in SDSessions \ {f} : sd[g].pc \notin Locked
  BY <1>0, <1>1 DEF LockInv, Locked
<1>5. LockInv'
  BY <1>0, <1>1, <1>2 DEF LockInv, Others, Locked, SessionPcs
<1>6. /\ DOMAIN logins = Subscribers /\ hour \in Nat
      /\ \A v \in Subscribers : logins[v] \in Seq([at : 0..hour, first : BOOLEAN])
      /\ \A v \in Subscribers : \A i \in DOMAIN logins[v] : logins[v][i].at \in 0..hour
  BY <1>0, EntriesAre DEF TokensInv
<1>7. new \in [at : 0..hour, first : BOOLEAN] /\ new.at = hour /\ new.first = (entry = NoToken)
  BY <1>6
<1> HIDE DEF new
<1> DEFINE made == [at : 0..hour, first : BOOLEAN]
<1> HIDE DEF made
<1>8. /\ logins' \in [Subscribers -> Seq(made)] /\ logins'[u] = Append(logins[u], new)
      /\ \A v \in Subscribers \ {u} : logins'[v] = logins[v]
  <2>1. logins \in [Subscribers -> Seq(made)]
    BY <1>0 DEF TokensInv, made
  <2>2. Append(logins[u], new) \in Seq(made)
    <3>1. new \in made
      BY <1>7 DEF made
    <3>2. logins[u] \in Seq(made)
      BY <1>0, <2>1
    <3> QED
      BY <3>1, <3>2
  <2> QED
    BY <1>0, <1>1, <2>1, <2>2
<1>9. LET n == Len(logins[u]) IN
        /\ n \in Nat /\ DOMAIN logins[u] = 1..n /\ DOMAIN logins'[u] = 1..(n + 1) /\ Len(logins'[u]) = n + 1
        /\ logins'[u][n + 1] = new /\ \A i \in 1..n : logins'[u][i] = logins[u][i]
  BY <1>0, <1>6, <1>8
<1> DEFINE n == Len(logins[u])
<1> HIDE DEF n
<1>10. /\ n \in Nat /\ DOMAIN logins[u] = 1..n /\ DOMAIN logins'[u] = 1..(n + 1) /\ Len(logins'[u]) = n + 1
       /\ logins'[u][n + 1] = new /\ \A i \in 1..n : logins'[u][i] = logins[u][i]
  BY <1>9 DEF n
<1>11. TokensInv'
  <2>1. logins' \in [Subscribers -> Seq([at : 0..hour', first : BOOLEAN])]
    BY <1>1, <1>8 DEF made
  <2> QED
    BY <1>0, <1>1, <1>2, <1>3, <2>1 DEF TokensInv, Others
<1>12. ASSUME ~rowsLost, entry # NoToken
       PROVE  tokenRows[u] = entry /\ entry.attempt = hour /\ \A i \in 1..n : hour - logins[u][i].at >= SDRefreshThreshold
  BY <1>0, <1>1, <1>10, <1>12 DEF ThrottleInv
<1>13. ThrottleInv'
  <2> SUFFICES ASSUME ~rowsLost PROVE ThrottleInv'
    BY <1>1 DEF ThrottleInv
  <2>1. ASSUME NEW v \in Subscribers, tokenRows[v] # NoToken, NEW i \in DOMAIN logins'[v]
        PROVE  logins'[v][i].at <= tokenRows[v].attempt
    <3>1. CASE v # u
      BY <1>0, <1>8, <2>1, <3>1 DEF ThrottleInv
    <3>2. CASE v = u
      <4>1. tokenRows[u] = entry
        BY <1>0, <1>1 DEF ThrottleInv
      <4>2. entry.attempt = hour
        BY <1>12, <2>1, <3>2, <4>1
      <4>3. i \in 1..n \/ i = n + 1
        BY <1>10, <2>1, <3>2
      <4> QED
        BY <1>6, <1>7, <1>10, <3>2, <4>1, <4>2, <4>3
    <3> QED
      BY <3>1, <3>2
  <2>2. ASSUME NEW g \in SDSessions
        PROVE  /\ sd'[g].pc \in {"decide", "login", "answer"} => sd'[g].cache = tokenRows
               /\ sd'[g].pc \in {"login", "answer"} /\ sd'[g].cache[UserOf[g]] # NoToken => sd'[g].cache[UserOf[g]].attempt = hour
               /\ sd'[g].pc # "login"
    <3>1. CASE g = f
      BY <1>0, <1>1, <1>2, <1>12, <3>1 DEF ThrottleInv
    <3>2. CASE g # f
      BY <1>2, <1>4, <3>2 DEF Others, Locked
    <3> QED
      BY <3>1, <3>2
  <2> QED
    BY <1>1, <2>1, <2>2 DEF ThrottleInv
<1>14. LoginsAreSpaced'
  <2> SUFFICES ASSUME ~rowsLost, NEW v \in Subscribers, NEW i \in 1..(Len(logins'[v]) - 1), ~logins'[v][i + 1].first
               PROVE  logins'[v][i + 1].at - logins'[v][i].at >= SDRefreshThreshold
    BY <1>1 DEF LoginsAreSpaced, Spaced
  <2>1. CASE v # u
    BY <1>0, <1>8, <2>1 DEF LoginsAreSpaced, Spaced
  <2>2. CASE v = u
    <3>1. i \in 1..n
      BY <1>10, <2>2
    <3>2. CASE i = n
      BY <1>7, <1>10, <1>12, <2>2, <3>1, <3>2
    <3>3. CASE i # n
      <4>1. i \in 1..(n - 1) /\ i + 1 \in 1..n
        BY <1>10, <3>1, <3>3
      <4>2. logins'[u][i] = logins[u][i] /\ logins'[u][i + 1] = logins[u][i + 1]
        BY <1>10, <3>1, <4>1
      <4>3. ~logins[u][i + 1].first
        BY <2>2, <4>2
      <4> QED
        BY <1>0, <2>2, <4>1, <4>2, <4>3 DEF LoginsAreSpaced, Spaced, n
    <3> QED
      BY <3>2, <3>3
  <2> QED
    BY <2>1, <2>2
<1> QED
  BY <1>1, <1>2, <1>5, <1>11, <1>13, <1>14 DEF TokenPart

LEMMA DiesKeeps ==
  ASSUME TokenPart, Dies
  PROVE  TokenPart' /\ \A f \in SDSessions : sd'[f] = NoSession
<1>0. TokensInv /\ LockInv /\ ThrottleInv /\ LoginsAreSpaced
  BY DEF TokenPart
<1>1. /\ DOMAIN sd' = SDSessions /\ \A f \in SDSessions : sd'[f] = NoSession
      /\ tokenLock' = Unlocked /\ UNCHANGED <<hour, tokenRows, logins, rowsLost>>
  BY DEF Dies
<1>2. TokenCaches' = TokenCaches
  BY <1>1 DEF TokenCaches, TokenEntries
<1>3. LockInv'
  BY <1>0, <1>1, SessionIs, SDAssumption DEF SDAssumption, LockInv, Locked, SessionPcs
<1>4. TokensInv'
  BY <1>0, <1>1, <1>2, BlankIsTyped DEF TokensInv
<1>5. ThrottleInv'
  BY <1>0, <1>1, SessionIs DEF ThrottleInv
<1>6. LoginsAreSpaced'
  BY <1>0, <1>1 DEF LoginsAreSpaced, Spaced
<1> QED
  BY <1>1, <1>3, <1>4, <1>5, <1>6 DEF TokenPart

LEMMA HourPassesKeeps ==
  ASSUME TokenPart, HourPasses
  PROVE  TokenPart' /\ UNCHANGED sd
<1>0. TokensInv /\ LockInv /\ ThrottleInv /\ LoginsAreSpaced
  BY DEF TokenPart
<1>1. /\ hour < LastHour /\ tokenLock = Unlocked /\ hour' = hour + 1
      /\ UNCHANGED <<tokenRows, tokenLock, sd, logins, rowsLost>>
  BY DEF HourPasses
<1>2. hour \in Nat /\ 0..hour \subseteq 0..hour'
  BY <1>0, <1>1, SDAssumption DEF SDAssumption, LockInv
<1>3. TokenEntries \subseteq TokenEntries'
  BY <1>2 DEF TokenEntries
<1>4. LockInv'
  BY <1>0, <1>1, SDAssumption DEF SDAssumption, LockInv
<1>5. TokensInv'
  <2> DEFINE made == [at : 0..hour, first : BOOLEAN]
             later == [at : 0..hour', first : BOOLEAN]
  <2>1. made \subseteq later
    BY <1>2
  <2>2. logins \in [Subscribers -> Seq(made)]
    BY <1>0 DEF TokensInv
  <2>3. logins' \in [Subscribers -> Seq(later)]
    <3> HIDE DEF made, later
    <3> QED
      BY <1>1, <2>1, <2>2
  <2>4. TokenCaches \subseteq TokenCaches'
    BY <1>3 DEF TokenCaches
  <2> QED
    BY <1>0, <1>1, <2>3, <2>4 DEF TokensInv
<1>6. \A f \in SDSessions : sd[f].pc \notin {"decide", "login", "answer"}
  BY <1>0, <1>1, SDAssumption DEF SDAssumption, LockInv, Locked
<1>7. ThrottleInv'
  BY <1>0, <1>1, <1>6 DEF ThrottleInv
<1>8. LoginsAreSpaced'
  BY <1>0, <1>1 DEF LoginsAreSpaced, Spaced
<1> QED
  BY <1>1, <1>4, <1>5, <1>7, <1>8 DEF TokenPart

-----------------------------------------------------------------------------
(* The walk's steps                                                        *)

Moves(f) ==
  /\ Others(f) /\ DOMAIN sd'[f] = DOMAIN NoSession /\ sd'[f].cache \in TokenCaches
  /\ sd[f].pc \notin Locked /\ sd'[f].pc \in SessionPcs \ Locked

LEMMA BlankNext ==
  ASSUME NEW f \in SDSessions, sd'[f].pc \notin Late,
         sd'[f].lineups = {}, sd'[f].stations = <<>>, sd'[f].asked = <<>>, sd'[f].airings = {}, sd'[f].ids = <<>>,
         sd'[f].detailed = <<>>, sd'[f].programs = {}, sd'[f].unscheduled = FALSE
  PROVE  Walked(f)'
<1>1. ToSet(<<>>) = {} /\ IsFiniteSet({}) /\ IsPrefix(<<>>, <<>>) /\ \A S : <<>> \in Seq(S)
  BY FS_EmptySet DEF ToSet, IsPrefix
<1> QED
  BY <1>1 DEF Walked, Late

LEMMA BeginSessionWalks ==
  ASSUME TokensInv, NEW f \in SDSessions, BeginSession(f)
  PROVE  Moves(f) /\ Walked(f)'
<1>1. /\ DOMAIN sd'[f] = DOMAIN NoSession /\ Others(f) /\ sd'[f].pc = "lock" /\ sd'[f].cache = NoSession.cache
      /\ sd'[f].lineups = {} /\ sd'[f].stations = <<>> /\ sd'[f].asked = <<>> /\ sd'[f].airings = {}
      /\ sd'[f].ids = <<>> /\ sd'[f].detailed = <<>> /\ sd'[f].programs = {} /\ sd'[f].unscheduled = FALSE
  BY SessionIs DEF BeginSession, TokensInv, Others
<1>2. sd[f].pc \in {"idle", "done"}
  BY DEF BeginSession
<1>3. Walked(f)'
  BY <1>1, BlankNext DEF Late
<1> QED
  BY <1>1, <1>2, <1>3, BlankIsTyped DEF Moves, Locked, SessionPcs

LEMMA CheckStatusWalks ==
  ASSUME TokensInv, NEW f \in SDSessions, Walked(f), CheckStatus(f)
  PROVE  Moves(f) /\ Walked(f)'
<1>1. sd[f].pc = "status" /\ sd' = [sd EXCEPT ![f].pc = "lineups"]
  BY DEF CheckStatus
<1>2. /\ Others(f) /\ WalkFieldsKept(f) /\ DOMAIN sd'[f] = DOMAIN NoSession
      /\ sd'[f].pc = "lineups" /\ sd'[f].cache = sd[f].cache
  BY <1>1, PcMoves
<1>3. sd'[f].cache \in TokenCaches
  BY <1>2 DEF TokensInv
<1> QED
  BY <1>1, <1>2, <1>3, WalkUntouched DEF Moves, Locked, Late, SessionPcs

LEMMA FetchFailsWalks ==
  ASSUME TokensInv, NEW f \in SDSessions, FetchFails(f)
  PROVE  Moves(f) /\ Walked(f)'
<1>1. sd[f].pc \in {"status", "lineups", "programs"} /\ Others(f) /\ sd'[f] = NoSession
  BY DEF FetchFails, TokensInv, Others
<1>2. Walked(f)'
  BY <1>1, BlankNext, SessionIs DEF Late
<1> QED
  BY <1>1, <1>2, BlankIsTyped, SessionIs DEF Moves, Locked, SessionPcs

LEMMA FetchLineupsWalks ==
  ASSUME TokensInv, NEW f \in SDSessions, Walked(f), FetchLineups(f)
  PROVE  Moves(f) /\ Walked(f)'
<1>1. sd[f].pc = "lineups" /\ DOMAIN sd = SDSessions /\ DOMAIN sd[f] = DOMAIN NoSession /\ sd[f].cache \in TokenCaches
  BY DEF FetchLineups, TokensInv
<1>2. /\ DOMAIN sd'[f] = DOMAIN NoSession /\ Others(f) /\ sd'[f].cache = sd[f].cache
      /\ sd'[f].lineups = fetchLineups(UserOf[f]) /\ sd'[f].pc = IF f \in Discoverers THEN "done" ELSE "stations"
      /\ sd'[f].stations = sd[f].stations /\ sd'[f].asked = sd[f].asked /\ sd'[f].airings = sd[f].airings
      /\ sd'[f].ids = sd[f].ids /\ sd'[f].detailed = sd[f].detailed /\ sd'[f].programs = sd[f].programs
      /\ sd'[f].unscheduled = sd[f].unscheduled
  BY <1>1, SessionIs DEF FetchLineups, Others
<1>3. /\ sd[f].stations = <<>> /\ sd[f].asked = <<>> /\ sd[f].airings = {} /\ sd[f].ids = <<>>
      /\ sd[f].detailed = <<>> /\ sd[f].unscheduled = FALSE
  BY <1>1 DEF Walked
<1>4. ToSet(<<>>) = {} /\ IsFiniteSet({}) /\ IsPrefix(<<>>, <<>>) /\ \A S : <<>> \in Seq(S)
  BY FS_EmptySet DEF ToSet, IsPrefix
<1>5. sd[f].programs = {}
  BY <1>3, <1>4 DEF Walked
<1>6. Walked(f)'
  BY <1>2, <1>3, <1>4, <1>5 DEF Walked
<1> QED
  BY <1>1, <1>2, <1>6 DEF Moves, Locked, SessionPcs

LEMMA FetchStationsWalks ==
  ASSUME TokensInv, NEW f \in SDSessions, Walked(f), FetchStations(f)
  PROVE  Moves(f) /\ Walked(f)'
<1>1. sd[f].pc = "stations" /\ DOMAIN sd = SDSessions /\ DOMAIN sd[f] = DOMAIN NoSession /\ sd[f].cache \in TokenCaches
  BY DEF FetchStations, TokensInv
<1>2. PICK came \in SUBSET sd[f].lineups :
        sd' = [sd EXCEPT ![f].stations = SetToSeq(UNION {Stations[l] : l \in came}), ![f].pc = "dates"]
  BY DEF FetchStations
<1> DEFINE list == SetToSeq(UNION {Stations[l] : l \in came})
           all == UNION {Stations[l] : l \in sd[f].lineups}
<1>3. list \in Seq(all)
  <2>1. list \in Seq(UNION {Stations[l] : l \in came})
    BY ServiceIsFinite, ListOf
  <2> DEFINE some == UNION {Stations[l] : l \in came}
  <2>2. some \subseteq all
    OBVIOUS
  <2> HIDE DEF list, all, some
  <2>3. list \in Seq(some)
    BY <2>1 DEF some
  <2> QED
    BY <2>2, <2>3
<1>4. sd' = [sd EXCEPT ![f].stations = list, ![f].pc = "dates"]
  BY <1>2
<1> HIDE DEF list
<1>5. /\ DOMAIN sd'[f] = DOMAIN NoSession /\ Others(f) /\ sd'[f].cache = sd[f].cache /\ sd'[f].pc = "dates"
      /\ sd'[f].stations = list /\ sd'[f].lineups = sd[f].lineups /\ sd'[f].asked = sd[f].asked
      /\ sd'[f].airings = sd[f].airings /\ sd'[f].ids = sd[f].ids /\ sd'[f].detailed = sd[f].detailed
      /\ sd'[f].programs = sd[f].programs /\ sd'[f].unscheduled = sd[f].unscheduled
  BY <1>1, <1>4, SessionIs DEF Others
<1>6. /\ sd[f].asked = <<>> /\ sd[f].airings = {} /\ sd[f].ids = <<>>
      /\ sd[f].detailed = <<>> /\ sd[f].unscheduled = FALSE /\ sd[f].lineups \subseteq fetchLineups(UserOf[f])
  BY <1>1 DEF Walked
<1>7. ToSet(<<>>) = {} /\ IsFiniteSet({}) /\ IsPrefix(<<>>, <<>>) /\ \A S : <<>> \in Seq(S)
  BY FS_EmptySet DEF ToSet, IsPrefix
<1>8. sd[f].programs = {}
  BY <1>6, <1>7 DEF Walked
<1>9. IsPrefix(<<>>, list)
  BY <1>3 DEF IsPrefix
<1>10. Walked(f)'
  BY <1>3, <1>5, <1>6, <1>7, <1>8, <1>9 DEF Walked
<1> QED
  BY <1>1, <1>5, <1>10 DEF Moves, Locked, SessionPcs

LEMMA MakeDatesWalks ==
  ASSUME TokensInv, NEW f \in SDSessions, Walked(f), MakeDates(f)
  PROVE  Moves(f) /\ Walked(f)'
<1>1. sd[f].pc = "dates" /\ sd' = [sd EXCEPT ![f].pc = "schedules"]
  BY DEF MakeDates
<1>2. /\ Others(f) /\ WalkFieldsKept(f) /\ DOMAIN sd'[f] = DOMAIN NoSession
      /\ sd'[f].pc = "schedules" /\ sd'[f].cache = sd[f].cache
  BY <1>1, PcMoves
<1>3. sd'[f].cache \in TokenCaches
  BY <1>2 DEF TokensInv
<1>4. Walked(f)'
  BY <1>1, <1>2 DEF Walked, WalkFieldsKept
<1> QED
  BY <1>1, <1>2, <1>3, <1>4 DEF Moves, Locked, SessionPcs

LEMMA FetchSchedulesWalks ==
  ASSUME TokensInv, NEW f \in SDSessions, Walked(f), FetchSchedules(f)
  PROVE  Moves(f) /\ Walked(f)'
<1> DEFINE asks == batch(sd[f].stations, Len(sd[f].asked))
           all == UNION {Stations[l] : l \in sd[f].lineups}
<1>1. sd[f].pc = "schedules" /\ DOMAIN sd = SDSessions /\ DOMAIN sd[f] = DOMAIN NoSession /\ sd[f].cache \in TokenCaches
  BY DEF FetchSchedules, TokensInv
<1>2. PICK good \in SUBSET ToSet(asks) :
        sd' = [sd EXCEPT ![f].asked = @ \o asks, ![f].airings = @ \cup UNION {{s} \X Airings[s] : s \in good}]
  BY DEF FetchSchedules
<1> DEFINE new == UNION {{s} \X Airings[s] : s \in good}
           offered == UNION {{st} \X Airings[st] : st \in ToSet(sd[f].stations)}
<1>3. /\ sd[f].stations \in Seq(all) /\ sd[f].asked \in Seq(ToSet(sd[f].stations)) /\ IsPrefix(sd[f].asked, sd[f].stations)
      /\ sd[f].airings \subseteq offered /\ IsFiniteSet(sd[f].airings)
  BY DEF Walked
<1>4. /\ sd[f].asked \o asks \in Seq(ToSet(sd[f].stations)) /\ IsPrefix(sd[f].asked \o asks, sd[f].stations)
      /\ ToSet(asks) \subseteq ToSet(sd[f].stations)
  <2> HIDE DEF all
  <2> QED
    BY <1>3, BatchContinues
<1>5. IsFiniteSet(new) /\ new \subseteq offered
  BY <1>4, ServiceIsFinite
<1>6. IsFiniteSet(sd[f].airings \cup new) /\ sd[f].airings \cup new \subseteq offered
  <2> HIDE DEF new, offered
  <2> QED
    BY <1>3, <1>5, FS_Union
<1> DEFINE asked == sd[f].asked \o asks
           airings == sd[f].airings \cup new
<1>7. sd' = [sd EXCEPT ![f].asked = asked, ![f].airings = airings]
  BY <1>2
<1> HIDE DEF asked, airings, asks, new
<1>8. /\ DOMAIN sd'[f] = DOMAIN NoSession /\ Others(f) /\ sd'[f].cache = sd[f].cache /\ sd'[f].pc = "schedules"
      /\ sd'[f].stations = sd[f].stations /\ sd'[f].lineups = sd[f].lineups /\ sd'[f].asked = asked
      /\ sd'[f].airings = airings /\ sd'[f].ids = sd[f].ids /\ sd'[f].detailed = sd[f].detailed
      /\ sd'[f].programs = sd[f].programs /\ sd'[f].unscheduled = sd[f].unscheduled
  BY <1>1, <1>7, SessionIs DEF Others
<1>9. asked \in Seq(ToSet(sd[f].stations)) /\ IsPrefix(asked, sd[f].stations)
  BY <1>4 DEF asked
<1>10. airings \subseteq UNION {{st} \X Airings[st] : st \in ToSet(sd[f].stations)} /\ IsFiniteSet(airings)
  BY <1>6 DEF airings, offered
<1>11. /\ sd[f].lineups \subseteq fetchLineups(UserOf[f]) /\ sd[f].ids = <<>> /\ sd[f].detailed = <<>>
       /\ sd[f].unscheduled = FALSE /\ sd[f].programs = ToSet(sd[f].detailed) \cap Detailed
       /\ sd[f].stations \in Seq(UNION {Stations[l] : l \in sd[f].lineups})
  BY <1>1 DEF Walked
<1>12. ToSet(<<>>) = {} /\ IsPrefix(<<>>, <<>>) /\ \A S : <<>> \in Seq(S)
  BY DEF ToSet, IsPrefix
<1>13. Walked(f)'
  BY <1>8, <1>9, <1>10, <1>11, <1>12 DEF Walked
<1> QED
  BY <1>1, <1>8, <1>13 DEF Moves, Locked, SessionPcs

LEMMA SchedulesFailWalks ==
  ASSUME TokensInv, NEW f \in SDSessions, Walked(f), SchedulesFail(f)
  PROVE  Moves(f) /\ Walked(f)'
<1>1. /\ sd[f].pc = "schedules" /\ DOMAIN sd = SDSessions /\ DOMAIN sd[f] = DOMAIN NoSession /\ sd[f].cache \in TokenCaches
      /\ sd' = [sd EXCEPT ![f].pc = "programs", ![f].airings = {}, ![f].unscheduled = TRUE]
  BY DEF SchedulesFail, TokensInv
<1>2. /\ DOMAIN sd'[f] = DOMAIN NoSession /\ Others(f) /\ sd'[f].cache = sd[f].cache /\ sd'[f].pc = "programs"
      /\ sd'[f].stations = sd[f].stations /\ sd'[f].lineups = sd[f].lineups /\ sd'[f].asked = sd[f].asked
      /\ sd'[f].airings = {} /\ sd'[f].ids = sd[f].ids /\ sd'[f].detailed = sd[f].detailed
      /\ sd'[f].programs = sd[f].programs /\ sd'[f].unscheduled = TRUE
  BY <1>1, SessionIs DEF Others
<1>3. /\ sd[f].ids = <<>> /\ sd[f].detailed = <<>> /\ sd[f].programs = ToSet(sd[f].detailed) \cap Detailed
      /\ sd[f].lineups \subseteq fetchLineups(UserOf[f])
      /\ sd[f].stations \in Seq(UNION {Stations[l] : l \in sd[f].lineups})
      /\ sd[f].asked \in Seq(ToSet(sd[f].stations)) /\ IsPrefix(sd[f].asked, sd[f].stations)
  BY <1>1 DEF Walked
<1>4. ToSet(<<>>) = {} /\ IsFiniteSet({}) /\ IsPrefix(<<>>, <<>>) /\ \A S : <<>> \in Seq(S)
  BY FS_EmptySet DEF ToSet, IsPrefix
<1>5. Walked(f)'
  <2>1. /\ sd'[f].lineups \subseteq fetchLineups(UserOf[f])
        /\ sd'[f].stations \in Seq(UNION {Stations[l] : l \in sd'[f].lineups})
        /\ sd'[f].asked \in Seq(ToSet(sd'[f].stations)) /\ IsPrefix(sd'[f].asked, sd'[f].stations)
    BY <1>2, <1>3
  <2>2. sd'[f].ids = <<>> /\ sd'[f].detailed = <<>> /\ sd'[f].programs = {}
    BY <1>2, <1>3, <1>4
  <2>3. sd'[f].airings = {} /\ sd'[f].unscheduled = TRUE /\ sd'[f].pc = "programs"
    BY <1>2
  <2> QED
    BY <1>4, <2>1, <2>2, <2>3 DEF Walked
<1> QED
  BY <1>1, <1>2, <1>5 DEF Moves, Locked, SessionPcs

LEMMA SchedulesDoneWalks ==
  ASSUME TokensInv, NEW f \in SDSessions, Walked(f), SchedulesDone(f)
  PROVE  Moves(f) /\ Walked(f)'
<1> DEFINE named == {a[2] : a \in sd[f].airings}
           list == SetToSeq(named)
           all == UNION {Stations[l] : l \in sd[f].lineups}
<1>1. /\ sd[f].pc = "schedules" /\ DOMAIN sd = SDSessions /\ DOMAIN sd[f] = DOMAIN NoSession /\ sd[f].cache \in TokenCaches
      /\ batch(sd[f].stations, Len(sd[f].asked)) = <<>>
  BY DEF SchedulesDone, TokensInv
<1>2. sd' = [sd EXCEPT ![f].pc = "programs", ![f].ids = list]
  BY DEF SchedulesDone
<1>3. sd[f].asked = sd[f].stations
  <2>1. sd[f].stations \in Seq(all) /\ sd[f].asked \in Seq(ToSet(sd[f].stations)) /\ IsPrefix(sd[f].asked, sd[f].stations)
    BY DEF Walked
  <2> HIDE DEF all
  <2> QED
    BY <1>1, <2>1, BatchContinues
<1>4. IsFiniteSet(named)
  <2> DEFINE second == [a \in sd[f].airings |-> a[2]]
             seconds == {second[a] : a \in sd[f].airings}
  <2>1. IsFiniteSet(seconds)
    <3>1. second = [a \in sd[f].airings |-> second[a]] /\ IsFiniteSet(sd[f].airings)
      BY DEF Walked
    <3> HIDE DEF second
    <3> QED
      BY <3>1, ImageIsFinite
  <2>2. seconds = named
    OBVIOUS
  <2> QED
    BY <2>1, <2>2
<1>5. list \in Seq(named) /\ ToSet(list) = named
  <2> HIDE DEF named
  <2> QED
    BY <1>4, ListOf
<1> HIDE DEF list
<1>6. /\ DOMAIN sd'[f] = DOMAIN NoSession /\ Others(f) /\ sd'[f].cache = sd[f].cache /\ sd'[f].pc = "programs"
      /\ sd'[f].stations = sd[f].stations /\ sd'[f].lineups = sd[f].lineups /\ sd'[f].asked = sd[f].asked
      /\ sd'[f].airings = sd[f].airings /\ sd'[f].ids = list /\ sd'[f].detailed = sd[f].detailed
      /\ sd'[f].programs = sd[f].programs /\ sd'[f].unscheduled = sd[f].unscheduled
  BY <1>1, <1>2, SessionIs DEF Others
<1>7. sd[f].detailed = <<>> /\ sd[f].unscheduled = FALSE
  BY <1>1 DEF Walked
<1>8. IsPrefix(<<>>, list) /\ ToSet(<<>>) = {} /\ \A S : <<>> \in Seq(S)
  BY <1>5 DEF ToSet, IsPrefix
<1>9. Walked(f)'
  BY <1>1, <1>3, <1>5, <1>6, <1>7, <1>8 DEF Walked
<1> QED
  BY <1>1, <1>6, <1>9 DEF Moves, Locked, SessionPcs

LEMMA FetchProgramsWalks ==
  ASSUME TokensInv, NEW f \in SDSessions, Walked(f), FetchPrograms(f)
  PROVE  Moves(f) /\ Walked(f)'
<1> DEFINE asks == batch(sd[f].ids, Len(sd[f].detailed))
           named == {a[2] : a \in sd[f].airings}
           next == IF asks = <<>> THEN "done" ELSE "programs"
           detailed == sd[f].detailed \o asks
           programs == sd[f].programs \cup (ToSet(asks) \cap Detailed)
<1>1. /\ sd[f].pc = "programs" /\ DOMAIN sd = SDSessions /\ DOMAIN sd[f] = DOMAIN NoSession /\ sd[f].cache \in TokenCaches
      /\ sd' = [sd EXCEPT ![f].detailed = detailed, ![f].programs = programs, ![f].pc = next]
  BY DEF FetchPrograms, TokensInv
<1>2. /\ sd[f].ids \in Seq(named) /\ sd[f].detailed \in Seq(ToSet(sd[f].ids)) /\ IsPrefix(sd[f].detailed, sd[f].ids)
      /\ sd[f].programs = ToSet(sd[f].detailed) \cap Detailed
  BY DEF Walked
<1>3. /\ detailed \in Seq(ToSet(sd[f].ids)) /\ IsPrefix(detailed, sd[f].ids)
      /\ asks = <<>> => sd[f].detailed = sd[f].ids
      /\ ToSet(detailed) = ToSet(sd[f].detailed) \cup ToSet(asks)
  <2> HIDE DEF named
  <2> QED
    BY <1>2, BatchContinues
<1>4. programs = ToSet(detailed) \cap Detailed
  BY <1>2, <1>3
<1>5. asks = <<>> => detailed = sd[f].ids
  <2>1. sd[f].ids \o <<>> = sd[f].ids
    <3> HIDE DEF named
    <3> QED
      BY <1>2, ConcatEmptySeq
  <2> QED
    BY <1>3, <2>1
<1>6. next \in {"programs", "done"} /\ (next = "done" => asks = <<>>)
  OBVIOUS
<1> HIDE DEF asks, detailed, programs, next
<1>7. /\ DOMAIN sd'[f] = DOMAIN NoSession /\ Others(f) /\ sd'[f].cache = sd[f].cache /\ sd'[f].pc = next
      /\ sd'[f].stations = sd[f].stations /\ sd'[f].lineups = sd[f].lineups /\ sd'[f].asked = sd[f].asked
      /\ sd'[f].airings = sd[f].airings /\ sd'[f].ids = sd[f].ids /\ sd'[f].detailed = detailed
      /\ sd'[f].programs = programs /\ sd'[f].unscheduled = sd[f].unscheduled
  BY <1>1, SessionIs DEF Others
<1>8. Walked(f)'
  BY <1>1, <1>3, <1>4, <1>5, <1>6, <1>7 DEF Walked
<1> QED
  BY <1>1, <1>6, <1>7, <1>8 DEF Moves, Locked, SessionPcs

-----------------------------------------------------------------------------
LEMMA AccountParts == AccountIInv <=> TokenPart /\ WalkInv
BY TypeOfParts, PartsOfType DEF AccountIInv, TokenPart

LEMMA AccountInit == SDInit => AccountIInv
<1> SUFFICES ASSUME SDInit PROVE TokenPart /\ WalkInv
  BY AccountParts
<1>1. /\ hour = 0 /\ tokenRows = NoRows /\ tokenLock = Unlocked /\ rowsLost = FALSE
      /\ DOMAIN sd = SDSessions /\ \A f \in SDSessions : sd[f] = NoSession
      /\ logins = [u \in Subscribers |-> <<>>]
  BY DEF SDInit
<1>2. LockInv
  <2>1. hour \in 0..LastHour /\ tokenLock \in SDSessions \cup {Unlocked} /\ rowsLost \in BOOLEAN
    <3>1. hour \in 0..LastHour
      BY <1>1, SDAssumption DEF SDAssumption
    <3>2. rowsLost \in BOOLEAN
      BY <1>1, Zenon
    <3> QED
      BY <1>1, <3>1, <3>2
  <2>2. ASSUME NEW f \in SDSessions PROVE sd[f].pc = "idle" /\ tokenLock # f
    BY <1>1, SessionIs, SDAssumption DEF SDAssumption
  <2> QED
    BY <2>1, <2>2 DEF LockInv, SessionPcs, Locked
<1>3. TokensInv
  <2>1. NoRows \in TokenCaches
    BY DEF NoRows, TokenCaches
  <2>2. logins \in [Subscribers -> Seq([at : 0..hour, first : BOOLEAN])]
    <3> DEFINE made == [at : 0..hour, first : BOOLEAN]
    <3> HIDE DEF made
    <3>1. logins \in [Subscribers -> Seq(made)]
      BY <1>1
    <3> QED
      BY <3>1 DEF made
  <2> QED
    BY <1>1, <2>1, <2>2, SessionIs DEF TokensInv
<1>4. ThrottleInv
  BY <1>1, SessionIs DEF ThrottleInv, NoRows
<1>5. LoginsAreSpaced
  BY <1>1 DEF LoginsAreSpaced
<1>6. WalkInv
  BY <1>1, SessionIs, BlankWalked DEF WalkInv, Late
<1> QED
  BY <1>2, <1>3, <1>4, <1>5, <1>6 DEF TokenPart

\* One session's step keeps what the others have walked.
LEMMA AllWalked ==
  ASSUME WalkInv, NEW f \in SDSessions, Others(f), Walked(f)'
  PROVE  WalkInv'
<1>1. ASSUME NEW g \in SDSessions \ {f} PROVE Walked(g)'
  BY OthersWalked DEF WalkInv, Others
<1> QED
  BY <1>1 DEF WalkInv

LEMMA AccountNext == AccountIInv /\ [SDNext]_sdVars => AccountIInv'
<1> SUFFICES ASSUME TokenPart, WalkInv, [SDNext]_sdVars PROVE TokenPart' /\ WalkInv'
  <2>1. (AccountIInv <=> TokenPart /\ WalkInv)'
    BY AccountParts, PTL
  <2> QED
    BY <2>1, AccountParts
<1>0. TokensInv /\ \A f \in SDSessions : Walked(f)
  BY DEF TokenPart, WalkInv
<1> DEFINE Tokens(f) == LoadTokenCache(f) \/ UseToken(f) \/ FirstLogin(f) \/ Refresh(f) \/ SendLogin(f) \/ doLogin(f)
           Fetches(f) == \/ BeginSession(f) \/ CheckStatus(f) \/ FetchFails(f) \/ FetchLineups(f) \/ FetchStations(f)
                         \/ MakeDates(f) \/ FetchSchedules(f) \/ SchedulesFail(f) \/ SchedulesDone(f) \/ FetchPrograms(f)
<1>1. ASSUME NEW f \in SDSessions, Tokens(f) PROVE TokenPart' /\ WalkInv'
  <2>1. TokenPart' /\ Others(f) /\ WalkFieldsKept(f) /\ sd[f].pc \notin Late /\ sd'[f].pc \notin Late
    BY <1>1, LoadTokenCacheKeeps, UseTokenKeeps, FirstLoginKeeps, RefreshKeeps, SendLoginKeeps, doLoginKeeps DEF Late
  <2>2. Walked(f)'
    BY <1>0, <2>1, WalkUntouched
  <2> QED
    BY <2>1, <2>2, AllWalked
<1>2. ASSUME NEW f \in SDSessions, LoginRefused(f) PROVE TokenPart' /\ WalkInv'
  <2>1. TokenPart' /\ Others(f) /\ sd'[f] = NoSession
    BY <1>2, LoginRefusedKeeps
  <2>2. Walked(f)'
    BY <2>1, SessionIs, BlankNext DEF Late
  <2> QED
    BY <2>1, <2>2, AllWalked
<1>3. ASSUME NEW f \in SDSessions, Fetches(f) PROVE TokenPart' /\ WalkInv'
  <2>1. Moves(f) /\ Walked(f)'
    BY <1>0, <1>3, BeginSessionWalks, CheckStatusWalks, FetchFailsWalks, FetchLineupsWalks, FetchStationsWalks,
       MakeDatesWalks, FetchSchedulesWalks, SchedulesFailWalks, SchedulesDoneWalks, FetchProgramsWalks
  <2>2. UNCHANGED <<hour, tokenRows, tokenLock, logins, rowsLost>>
    BY <1>3 DEF BeginSession, CheckStatus, FetchFails, FetchLineups, FetchStations, MakeDates, FetchSchedules,
                SchedulesFail, SchedulesDone, FetchPrograms, apart
  <2>3. TokenPart'
    BY <2>1, <2>2, QuietStep DEF Moves
  <2> QED
    BY <2>1, <2>3, AllWalked DEF Moves
<1>4. CASE Dies
  <2>1. TokenPart' /\ \A f \in SDSessions : sd'[f] = NoSession
    BY <1>4, DiesKeeps
  <2>2. ASSUME NEW f \in SDSessions PROVE Walked(f)'
    BY <2>1, SessionIs, BlankNext DEF Late
  <2> QED
    BY <2>1, <2>2 DEF WalkInv
<1>5. CASE HourPasses
  <2>1. TokenPart' /\ UNCHANGED sd
    BY <1>5, HourPassesKeeps
  <2> QED
    BY <1>0, <2>1, OthersWalked DEF WalkInv
<1>6. CASE UNCHANGED sdVars
  <2>1. UNCHANGED <<hour, tokenRows, tokenLock, sd, logins, rowsLost>>
    BY <1>6 DEF sdVars
  <2>2. TokenPart'
    BY <2>1 DEF TokenPart, LockInv, TokensInv, TokenCaches, TokenEntries, ThrottleInv, LoginsAreSpaced, Spaced
  <2> QED
    BY <1>0, <2>1, <2>2, OthersWalked DEF WalkInv
<1> HIDE DEF Tokens, Fetches
<1>7. SDNext => \/ \E f \in SDSessions : Tokens(f) \/ LoginRefused(f) \/ Fetches(f)
                \/ Dies \/ HourPasses
  BY DEF SDNext, Tokens, Fetches, DatesPanic, SDRestarts
<1> QED
  BY <1>1, <1>2, <1>3, <1>4, <1>5, <1>6, <1>7

LEMMA AccountFollows == AccountIInv => AccountInv
<1> SUFFICES ASSUME SDTypeOK, LoginsAreSpaced, WalkInv PROVE EverythingAsked /\ SelectedOnly
  BY DEF AccountIInv, AccountInv
<1>1. EverythingAsked
  <2> SUFFICES ASSUME NEW f \in SDSessions, sd[f].pc = "done"
               PROVE  /\ ~sd[f].unscheduled => sd[f].asked = sd[f].stations
                      /\ sd[f].detailed = sd[f].ids
                      /\ generateProgrammes(sd[f]) = {a \in sd[f].airings : a[2] \in Detailed}
    BY DEF EverythingAsked
  <2>1. /\ sd[f].programs = ToSet(sd[f].detailed) \cap Detailed /\ sd[f].detailed = sd[f].ids
        /\ IF sd[f].unscheduled THEN sd[f].airings = {}
           ELSE sd[f].asked = sd[f].stations /\ ToSet(sd[f].ids) = {a[2] : a \in sd[f].airings}
    BY DEF WalkInv, Walked
  <2>2. \A a \in sd[f].airings : a[2] \in ToSet(sd[f].ids)
    BY <2>1
  <2> QED
    BY <2>1, <2>2 DEF generateProgrammes
<1>2. SelectedOnly
  <2> SUFFICES ASSUME NEW f \in SDSessions, SelectedLineups[UserOf[f]] # {}
               PROVE  /\ generateChannels(sd[f]) \subseteq UNION {Stations[l] : l \in SelectedLineups[UserOf[f]]}
                      /\ {a[1] : a \in generateProgrammes(sd[f])} \subseteq generateChannels(sd[f])
    BY DEF SelectedOnly
  <2>1. /\ sd[f].lineups \subseteq SelectedLineups[UserOf[f]]
        /\ sd[f].airings \subseteq UNION {{st} \X Airings[st] : st \in ToSet(sd[f].stations)}
    BY DEF WalkInv, Walked, fetchLineups
  <2>2. ToSet(sd[f].stations) \subseteq UNION {Stations[l] : l \in sd[f].lineups}
    BY ServiceIsFinite DEF WalkInv
  <2>3. \A a \in sd[f].airings : a[1] \in ToSet(sd[f].stations)
    BY <2>1
  <2> QED
    BY <2>1, <2>2, <2>3 DEF generateChannels, generateProgrammes
<1> QED
  BY <1>1, <1>2

\* However many accounts and sessions use the client, whatever dies in between and however
\* the lists fall into batches: an account that has a token is not logged in again within
\* the threshold (GetToken, auth.go), and a fetched account was asked for everything of its
\* selected lineups and of nothing else (FetchAccount, fetch.go).
THEOREM AccountsAlwaysHold == SDSpec => []AccountInv
BY AccountInit, AccountNext, AccountFollows, PTL DEF SDSpec

(***************************************************************************)
(* The configuration store.  Between the first write of a request and its  *)
(* clear of the cache nothing is claimed; otherwise the cached object and  *)
(* the rows a load in progress has read are those of the tables            *)
(* (CacheInv).  A toggle ends by changing the live object, which may be    *)
(* the cached one: its flag is in the tables by then, because nobody else  *)
(* writes settings (WatchInv, TeamInv).                                    *)
(***************************************************************************)

-----------------------------------------------------------------------------
(* The data of the store                                                   *)

\* A list rewritten place by place is a list of what was written.
LEMMA RewrittenList ==
  ASSUME NEW S, NEW T, NEW s \in Seq(S), NEW f \in [DOMAIN s -> T]
  PROVE  f \in Seq(T)
<1>1. DOMAIN s = 1..Len(s) /\ Len(s) \in Nat
  OBVIOUS
<1> QED
  BY <1>1

\* The places of a list are ranked by its order: each rank is taken once.
LEMMA RanksAreTaken ==
  ASSUME NEW src \in Seq(Row), NEW n \in DOMAIN src
  PROVE  \E i \in DOMAIN src : Cardinality(rowsBefore(src, i)) = n - 1
<1> DEFINE N == Len(src)
           key == [i \in 1..N |-> src[i].order]
<1>1. N \in Nat /\ DOMAIN src = 1..N /\ \A i \in 1..N : src[i] \in Row
  OBVIOUS
<1>2. \A i \in 1..N : src[i].order \in Int
  BY <1>1 DEF Row
<1> HIDE DEF N
<1>3. key \in [1..N -> Int] /\ \A i \in 1..N : key[i] = src[i].order
  BY <1>2
<1> HIDE DEF key
<1>4. PICK i \in 1..N : RankOf(key, i) = n - 1
  BY <1>1, <1>3, RanksAre
<1>5. rowsBefore(src, i) = ranksBefore(key, i)
  BY <1>1, <1>3 DEF rowsBefore, ranksBefore
<1> QED
  BY <1>1, <1>4, <1>5 DEF RankOf

LEMMA SourcesRead ==
  ASSUME NEW src \in Seq(Row)
  PROVE  GetAllSources(src) \in Seq(Row)
<1> DEFINE at(n) == CHOOSE i \in DOMAIN src : Cardinality(rowsBefore(src, i)) = n - 1
<1>1. \A n \in DOMAIN src : at(n) \in DOMAIN src
  BY RanksAreTaken
<1>2. \A i \in DOMAIN src : src[i] \in Row
  OBVIOUS
<1>3. GetAllSources(src) = [n \in DOMAIN src |-> src[at(n)]]
  BY DEF GetAllSources
<1> HIDE DEF at
<1>4. GetAllSources(src) \in [DOMAIN src -> Row]
  BY <1>1, <1>2, <1>3
<1> QED
  BY <1>4, RewrittenList

LEMMA SourcesValidated ==
  ASSUME NEW src \in Seq(Row)
  PROVE  validateAndSetDefaults(src) \in Seq(Row)
<1>1. DOMAIN src \subseteq Nat /\ \A i \in DOMAIN src : src[i] \in Row
  OBVIOUS
<1>2. ASSUME NEW i \in DOMAIN src
      PROVE  [src[i] EXCEPT !.name = IF @ = 0 THEN i ELSE @, !.order = IF @ <= 0 THEN i ELSE @] \in Row
  <2>1. src[i] \in Row /\ i \in Nat
    BY <1>1
  <2>2. src[i].name \in Nat /\ src[i].order \in Int
    BY <2>1 DEF Row
  <2>3. \A m \in Nat, o \in Int : [src[i] EXCEPT !.name = m, !.order = o] \in Row
    BY <2>1 DEF Row
  <2>4. (IF src[i].name = 0 THEN i ELSE src[i].name) \in Nat
    BY <2>1, <2>2
  <2>5. (IF src[i].order <= 0 THEN i ELSE src[i].order) \in Int
    BY <2>1, <2>2
  <2> QED
    BY <2>3, <2>4, <2>5
<1>3. validateAndSetDefaults(src) \in [DOMAIN src -> Row]
  BY <1>2 DEF validateAndSetDefaults
<1> QED
  BY <1>3, RewrittenList

LEMMA DefaultsTyped == getDefaultConfig \in Content
<1>1. [k \in SettingKeys |-> "on"] \in [SettingKeys -> Strings]
  BY DEF Strings
<1>2. <<>> \in Seq(Row)
  OBVIOUS
<1>3. [t \in Tables |-> {}] \in [Tables -> SUBSET Nat]
  OBVIOUS
<1>4. {} \in SUBSET Profile
  OBVIOUS
<1> QED
  BY <1>1, <1>2, <1>3, <1>4 DEF getDefaultConfig, Content

LEMMA LoadedTyped ==
  ASSUME NEW rows \in Rows
  PROVE  loadFromDB(rows) \in Content
<1>1. rows.set \in [SettingKeys -> Strings] /\ rows.src \in Seq(Row) /\ rows.prof \in SUBSET Profile
      /\ rows.tab \in [Tables -> SUBSET Nat]
  BY DEF Rows
<1>2. validateAndSetDefaults(loadSourcesFromDB(rows)) \in Seq(Row)
  BY <1>1, SourcesRead, SourcesValidated DEF loadSourcesFromDB
<1>3. [k \in SettingKeys |-> IF rows.set[k] = Unset THEN getDefaultConfig.set[k] ELSE rows.set[k]]
      \in [SettingKeys -> Strings]
  <2>1. \A k \in SettingKeys : getDefaultConfig.set[k] \in Strings
    BY DefaultsTyped DEF Content
  <2> QED
    BY <1>1, <2>1
<1> QED
  BY <1>1, <1>2, <1>3 DEF loadFromDB, loadAccountsFromDB, Content

LEMMA UrlsKnown ==
  ASSUME NEW src \in Seq(Row)
  PROVE  UrlsOf(src) \in SUBSET AllUrls
<1>1. \A i \in DOMAIN src : src[i] \in Row
  OBVIOUS
<1> QED
  BY <1>1 DEF UrlsOf, Row

LEMMA PasswordTyped ==
  ASSUME NEW cfg \in Content, NEW s
  PROVE  storedPassword(cfg, s) \in Strings
<1>1. cfg.src \in Seq(Row) /\ DOMAIN cfg.src \subseteq Nat /\ 0 \notin DOMAIN cfg.src
  BY DEF Content
<1>2. \A i \in DOMAIN cfg.src : cfg.src[i] \in Row
  BY <1>1
<1>3. \A H \in SUBSET DOMAIN cfg.src : H # {} => Min(H) \in DOMAIN cfg.src
  BY <1>1, LeastPlace
<1>4. findSource(cfg, s.url) \in {0} \cup DOMAIN cfg.src
  <2> DEFINE hits == {i \in DOMAIN cfg.src : cfg.src[i].url = s.url}
  <2>1. findSource(cfg, s.url) = IF hits = {} THEN 0 ELSE Min(hits)
    BY DEF findSource
  <2>2. hits \in SUBSET DOMAIN cfg.src
    OBVIOUS
  <2> HIDE DEF hits
  <2> QED
    BY <2>1, <2>2, <1>3
<1>5. findStoredSource(cfg, s) \in {0} \cup DOMAIN cfg.src
  <2> DEFINE exact == {i \in DOMAIN cfg.src : cfg.src[i].url = s.url /\ cfg.src[i].name = s.name}
  <2>1. findStoredSource(cfg, s) = IF exact # {} THEN Min(exact) ELSE findSource(cfg, s.url)
    BY DEF findStoredSource
  <2>2. exact \in SUBSET DOMAIN cfg.src
    OBVIOUS
  <2> HIDE DEF exact
  <2> QED
    BY <2>1, <2>2, <1>3, <1>4
<1>6. \A i \in DOMAIN cfg.src : cfg.src[i].pass \in Strings
  BY <1>2 DEF Row
<1> DEFINE j == findStoredSource(cfg, s)
<1>7. storedPassword(cfg, s) = IF j = 0 THEN "" ELSE cfg.src[j].pass
  BY DEF storedPassword
<1> HIDE DEF j
<1>8. j \in {0} \cup DOMAIN cfg.src
  BY <1>5 DEF j
<1>9. "" \in Strings
  BY DEF Strings
<1> QED
  BY <1>6, <1>7, <1>8, <1>9


-----------------------------------------------------------------------------
(* One actor steps.                                                        *)

OthersStay(a) ==
  /\ DOMAIN cfgPc' = Actors /\ DOMAIN cfgJob' = Actors
  /\ \A b \in Actors \ {a} : cfgPc'[b] = cfgPc[b] /\ cfgJob'[b] = cfgJob[b]

LEMMA BootIsActor == Boot \in Actors /\ Boot \notin Admins /\ Admins \subseteq Actors /\ Nobody \notin Actors
BY ConfigAssumption DEF Actors

LEMMA JobsKept ==
  ASSUME JobTypes, NEW a \in Actors, OthersStay(a), JobTyped(a)'
  PROVE  JobTypes'
<1> SUFFICES ASSUME NEW b \in Actors, b # a
             PROVE  JobTyped(b)'
  BY DEF JobTypes
<1>1. JobTyped(b) /\ cfgPc'[b] = cfgPc[b] /\ cfgJob'[b] = cfgJob[b]
  BY DEF JobTypes, OthersStay
<1> QED
  BY <1>1 DEF JobTyped, WritesFlag

LEMMA TeamKept ==
  ASSUME TeamInv, NEW a \in Actors, OthersStay(a), team' = team,
         a \in Admins /\ cfgJob'[a].kind \in {"page", "save", "toggle"} => Writes(a)
  PROVE  TeamInv'
BY BootIsActor DEF TeamInv, OthersStay, Writes

\* A step of an admin, after boot, or of the boot sequence itself.
BootMoves ==
  /\ ~Booted
  /\ cfgPc'[Boot] \in {"boot", "set", "insert", "load", "reading", "swap", "idle"}
  /\ cfgPc'[Boot] \in {"boot", "set", "insert"} => cached' = 0
  /\ cfgPc'[Boot] \notin {"boot", "idle"} => cfgJob'[Boot].kind = "boot"

LEMMA BootKept ==
  ASSUME BootInv, NEW a \in Actors, OthersStay(a), (a = Boot /\ BootMoves) \/ (a \in Admins /\ Booted)
  PROVE  BootInv'
<1>1. CASE a = Boot /\ BootMoves
  BY <1>1, BootIsActor DEF BootInv, OthersStay, Booted, BootMoves
<1>2. CASE a \in Admins /\ Booted
  BY <1>2, BootIsActor DEF BootInv, OthersStay, Booted
<1> QED
  BY <1>1, <1>2

LEMMA WatchKept ==
  ASSUME WatchInv, NEW a \in Actors, OthersStay(a), team' = team, stored'.set = stored.set,
         a \in Admins /\ OneWriter /\ WritesFlag(a)' /\ "watcher" \notin cfgJob'[a].todo
           => stored.set["watcher"] = cfgJob'[a].on
  PROVE  WatchInv'
<1> SUFFICES ASSUME OneWriter, NEW b \in Admins, WritesFlag(b)', "watcher" \notin cfgJob'[b].todo
             PROVE  stored'.set["watcher"] = cfgJob'[b].on
  BY DEF WatchInv, OneWriter, OnlyOne
<1>1. CASE b = a
  BY <1>1
<1>2. CASE b # a
  <2>1. cfgPc'[b] = cfgPc[b] /\ cfgJob'[b] = cfgJob[b]
    BY <1>2, BootIsActor DEF OthersStay
  <2> QED
    BY <2>1 DEF WatchInv, WritesFlag
<1> QED
  BY <1>1, <1>2

LEMMA LoadedFields ==
  ASSUME NEW rows, NEW same, rows.set = same.set, rows.src = same.src, rows.prof = same.prof
  PROVE  /\ loadFromDB(rows).set = loadFromDB(same).set
         /\ loadFromDB(rows).src = loadFromDB(same).src
         /\ loadFromDB(rows).prof = loadFromDB(same).prof
BY DEF loadFromDB, loadSourcesFromDB

LEMMA CacheKept ==
  ASSUME CacheInv, NEW a \in Actors, OthersStay(a), team' = team, cached' = cached,
         stored'.set = stored.set, stored'.src = stored.src, stored'.prof = stored.prof,
         cached # 0 /\ OneWriter /\ NoFaults /\ Calm =>
           /\ heap'[cached].set = heap[cached].set /\ heap'[cached].src = heap[cached].src
           /\ heap'[cached].prof = heap[cached].prof,
         NoFaults' => NoFaults /\ (Calm' => Calm),
         cfgPc'[a] = "reading" => cfgPc[a] = "reading" /\ cfgJob'[a] = cfgJob[a]
  PROVE  CacheInv'
<1> SUFFICES ASSUME OneWriter, NoFaults, Calm
             PROVE  /\ cached # 0 => /\ heap'[cached].set = loadFromDB(stored').set
                                     /\ heap'[cached].src = loadFromDB(stored').src
                                     /\ heap'[cached].prof = loadFromDB(stored').prof
                    /\ \A b \in Actors : cfgPc'[b] = "reading" =>
                         cfgJob'[b].rows.set = stored.set /\ cfgJob'[b].rows.src = stored.src
  BY DEF CacheInv, OneWriter, OnlyOne
<1>1. cached # 0 => /\ heap[cached].set = loadFromDB(stored).set
                    /\ heap[cached].src = loadFromDB(stored).src
                    /\ heap[cached].prof = loadFromDB(stored).prof
  BY DEF CacheInv
<1>2. \A b \in Actors : cfgPc[b] = "reading" =>
        cfgJob[b].rows.set = stored.set /\ cfgJob[b].rows.src = stored.src
  BY DEF CacheInv
<1>3. \A b \in Actors : cfgPc'[b] = "reading" => cfgPc[b] = "reading" /\ cfgJob'[b] = cfgJob[b]
  BY DEF OthersStay
<1>4. /\ loadFromDB(stored').set = loadFromDB(stored).set
      /\ loadFromDB(stored').src = loadFromDB(stored).src
      /\ loadFromDB(stored').prof = loadFromDB(stored).prof
  BY LoadedFields
<1> QED
  BY <1>1, <1>2, <1>3, <1>4

\* Nothing is claimed of the cache while somebody is writing.
LEMMA NotCalm ==
  ASSUME NEW a \in Actors, cfgPc'[a] \in {"set", "wipe", "insert", "clear"}
  PROVE  CacheInv'
BY DEF CacheInv, Calm

LEMMA TypeKept ==
  ASSUME CfgTypeOK, StoreTypes, NEW a \in Actors, OthersStay(a),
         heap' \in Seq(Content), Len(heap) <= Len(heap'),
         cached' \in 0..Len(heap'), liveCfg' \in 0..Len(heap'), Booted' => liveCfg' # 0,
         cfgMutex' = cfgMutex, (cfgPc'[a] = "reading") = (cfgPc[a] = "reading"),
         cfgPc'[a] \in {"swap", "toggle"} => cfgJob'[a].ptr \in 1..Len(heap'),
         wanted' \subseteq SUBSET AllUrls
  PROVE  CfgTypeOK'
<1>1. \A b \in Actors : (cfgPc'[b] = "reading") = (cfgMutex' = b)
  BY DEF CfgTypeOK, OthersStay
<1>2. \A b \in Actors : cfgPc'[b] \in {"swap", "toggle"} => cfgJob'[b].ptr \in 1..Len(heap')
  <2> SUFFICES ASSUME NEW b \in Actors, b # a, cfgPc'[b] \in {"swap", "toggle"}
               PROVE  cfgJob'[b].ptr \in 1..Len(heap')
    OBVIOUS
  <2>1. cfgPc'[b] = cfgPc[b] /\ cfgJob'[b] = cfgJob[b]
    BY DEF OthersStay
  <2>2. cfgJob[b].ptr \in 1..Len(heap)
    BY <2>1 DEF CfgTypeOK
  <2>3. Len(heap) \in Nat /\ Len(heap') \in Nat
    BY DEF StoreTypes
  <2> QED
    BY <2>1, <2>2, <2>3
<1> QED
  BY <1>1, <1>2 DEF CfgTypeOK


\* A step that changes nothing but what its actor is doing.
LEMMA NothingWritten ==
  ASSUME StoreIInv, NEW a \in Actors, OthersStay(a), JobTyped(a)',
         UNCHANGED <<stored, heap, cached, liveCfg, cfgMutex, team>>,
         writeFails' \in Nat /\ loadFails' \in Nat, NoFaults' => NoFaults /\ (Calm' => Calm),
         (a = Boot /\ BootMoves /\ cfgPc'[Boot] # "idle") \/ (a \in Admins /\ Booted),
         a \in Admins /\ cfgJob'[a].kind \in {"page", "save", "toggle"} => Writes(a),
         a \in Admins /\ OneWriter /\ WritesFlag(a)' /\ "watcher" \notin cfgJob'[a].todo
           => stored.set["watcher"] = cfgJob'[a].on,
         cfgPc[a] # "reading", cfgPc'[a] \notin {"reading", "swap", "toggle"},
         wanted' \subseteq SUBSET AllUrls
  PROVE  StoreIInv'
<1> USE DEF StoreIInv
<1>1. StoreTypes'
  BY DEF StoreTypes, OthersStay
<1>2. Booted' => Booted
  BY BootIsActor DEF Booted, OthersStay
<1>3. CfgTypeOK'
  <2>1. Booted' => liveCfg' # 0
    BY <1>2 DEF CfgTypeOK
  <2>2. heap' \in Seq(Content) /\ Len(heap') = Len(heap) /\ Len(heap) \in Nat
    BY DEF StoreTypes
  <2>3. cached' \in 0..Len(heap') /\ liveCfg' \in 0..Len(heap')
    BY DEF CfgTypeOK
  <2> QED
    BY <2>1, <2>2, <2>3, TypeKept
<1>4. JobTypes' /\ TeamInv'
  BY JobsKept, TeamKept
<1>5. BootInv'
  BY BootKept
<1>6. WatchInv'
  BY WatchKept
<1>7. CacheInv'
  BY CacheKept
<1> QED
  BY <1>1, <1>3, <1>4, <1>5, <1>6, <1>7

-----------------------------------------------------------------------------
(* The requests.                                                           *)

LEMMA ReadsPage ==
  ASSUME StoreIInv, NEW a \in Admins, handleGetConfig(a)
  PROVE  StoreIInv'
<1> DEFINE page == Shown(heap[liveCfg])
<1>1. /\ Booted /\ cfgPc[a] = "idle" /\ "edit" \in team[a]
      /\ cfgJob' = [cfgJob EXCEPT ![a] = [kind |-> "page", page |-> page]]
      /\ cfgPc' = [cfgPc EXCEPT ![a] = "page"]
      /\ UNCHANGED <<stored, heap, cached, liveCfg, cfgMutex, team, wanted, writeFails, loadFails>>
  BY DEF handleGetConfig, Begins, Goes
<1>2. page \in [set : [SettingKeys -> Strings], src : Seq(Row)]
  <2>1. heap[liveCfg] \in Content
    BY <1>1 DEF StoreIInv, StoreTypes, CfgTypeOK
  <2>2. heap[liveCfg].set \in [SettingKeys -> Strings] /\ heap[liveCfg].src \in Seq(Row)
    BY <2>1 DEF Content
  <2> DEFINE src == heap[liveCfg].src
             shown == [i \in DOMAIN src |-> [src[i] EXCEPT !.pass = maskSecret(@)]]
  <2>3. shown \in [DOMAIN src -> Row]
    <3> SUFFICES ASSUME NEW i \in DOMAIN src
                 PROVE  [src[i] EXCEPT !.pass = maskSecret(@)] \in Row
      OBVIOUS
    <3>1. src[i] \in Row
      BY <2>2
    <3>2. maskSecret(src[i].pass) \in Strings
      BY DEF maskSecret, Strings
    <3> QED
      BY <3>1, <3>2 DEF Row
  <2>4. shown \in Seq(Row)
    BY <2>2, <2>3, RewrittenList
  <2> QED
    BY <2>2, <2>4 DEF Shown
<1> HIDE DEF page
<1>3. OthersStay(a) /\ cfgPc'[a] = "page" /\ cfgJob'[a] = [kind |-> "page", page |-> page]
  BY <1>1, BootIsActor DEF StoreIInv, StoreTypes, OthersStay
<1>4. JobTyped(a)'
  BY <1>2, <1>3 DEF JobTyped, WritesFlag
<1>5. Writes(a)
  BY <1>1 DEF Writes, WritingKinds
<1>6. Calm' => Calm
  BY <1>1, <1>3 DEF Calm, OthersStay
<1>7. NoFaults' => NoFaults
  BY <1>1 DEF NoFaults
<1>8. wanted' \subseteq SUBSET AllUrls /\ writeFails' \in Nat /\ loadFails' \in Nat
  BY <1>1 DEF StoreIInv, CfgTypeOK, StoreTypes
<1>9. ~WritesFlag(a)'
  BY <1>3 DEF WritesFlag
<1> QED
  BY <1>1, <1>3, <1>4, <1>5, <1>6, <1>7, <1>8, <1>9, BootIsActor, NothingWritten


\* The three requests that carry no data yet, and a delete that has been accepted.
LEMMA Requested ==
  ASSUME StoreIInv, NEW a \in Admins, Booted, cfgPc[a] = "idle", NEW p, NEW act,
         cfgPc' = [cfgPc EXCEPT ![a] = p], cfgJob' = [cfgJob EXCEPT ![a] = act],
         p \in {"load", "clear", "delete"}, act.kind \in {"toggle", "restart", "profile"},
         act.kind = "toggle" => p = "load" /\ act.on \in Flags /\ "toggle" \in team[a],
         UNCHANGED <<stored, heap, cached, liveCfg, cfgMutex, team, wanted, writeFails, loadFails>>
  PROVE  StoreIInv'
<1>1. OthersStay(a) /\ cfgPc'[a] = p /\ cfgJob'[a] = act
  BY BootIsActor DEF StoreIInv, StoreTypes, OthersStay
<1>2. JobTyped(a)' /\ ~WritesFlag(a)'
  BY <1>1 DEF JobTyped, WritesFlag
<1>3. cfgJob'[a].kind \in {"page", "save", "toggle"} => Writes(a)
  BY <1>1 DEF Writes, WritingKinds
<1>4. Calm' => Calm
  BY <1>1 DEF Calm, OthersStay
<1>5. NoFaults' => NoFaults
  BY DEF NoFaults
<1>6. wanted' \subseteq SUBSET AllUrls /\ writeFails' \in Nat /\ loadFails' \in Nat
  BY DEF StoreIInv, CfgTypeOK, StoreTypes
<1> QED
  BY <1>1, <1>2, <1>3, <1>4, <1>5, <1>6, BootIsActor, NothingWritten

LEMMA Toggles ==
  ASSUME StoreIInv, NEW a \in Admins, NEW v \in {"on", "off"}, handleToggleWatcher(a, v)
  PROVE  StoreIInv'
BY Requested DEF handleToggleWatcher, Begins, Goes, Flags

LEMMA Restarts ==
  ASSUME StoreIInv, NEW a \in Admins, RunRestartLoop(a)
  PROVE  StoreIInv'
BY Requested DEF RunRestartLoop, Begins, Goes

LEMMA DeleteRequested ==
  ASSUME StoreIInv, NEW a \in Admins, NEW p, NEW force, handleDeleteFilterProfile(a, p, force)
  PROVE  StoreIInv'
BY Requested DEF handleDeleteFilterProfile, Begins, Goes

\* handleSetConfig: what is to be written is a list of sources, the masks replaced.
LEMMA SaveAccepted ==
  ASSUME StoreIInv, NEW a \in Admins, Booted, cfgPc[a] \in {"idle", "page"}, Writes(a), NEW d,
         d.set \in [SettingKeys -> Strings], d.src \in Seq(Row), SetConfig(a, d)
  PROVE  StoreIInv'
<1> DEFINE cfg == heap[liveCfg]
           src == [i \in DOMAIN d.src |->
                    [d.src[i] EXCEPT !.pass = IF @ = Mask THEN storedPassword(cfg, d.src[i]) ELSE @]]
           act == [kind |-> "save", set |-> d.set, todo |-> SettingKeys, src |-> src]
<1>1. /\ cfgJob' = [cfgJob EXCEPT ![a] = act]
      /\ cfgPc' = [cfgPc EXCEPT ![a] = "set"]
      /\ wanted' = {UrlsOf(stored.src), UrlsOf(src)}
      /\ UNCHANGED <<stored, heap, cached, liveCfg, cfgMutex, team, writeFails, loadFails>>
  BY DEF SetConfig, Goes
<1>2. cfg \in Content
  BY DEF StoreIInv, StoreTypes, CfgTypeOK
<1>3. src \in Seq(Row)
  <2>1. ASSUME NEW i \in DOMAIN d.src
        PROVE  [d.src[i] EXCEPT !.pass = IF @ = Mask THEN storedPassword(cfg, d.src[i]) ELSE @] \in Row
    <3>1. d.src[i] \in Row /\ storedPassword(cfg, d.src[i]) \in Strings
      BY <1>2, PasswordTyped
    <3> QED
      BY <3>1 DEF Row
  <2>2. src \in [DOMAIN d.src -> Row]
    BY <2>1
  <2> HIDE DEF src
  <2> QED
    BY <2>2, RewrittenList
<1> HIDE DEF src, cfg
<1>4. act \in SaveJob /\ act.kind = "save"
  BY <1>3 DEF SaveJob
<1> HIDE DEF act
<1>5. OthersStay(a) /\ cfgPc'[a] = "set" /\ cfgJob'[a] = act
  BY <1>1, BootIsActor DEF StoreIInv, StoreTypes, OthersStay
<1>6. JobTyped(a)' /\ ~WritesFlag(a)'
  BY <1>4, <1>5 DEF JobTyped, WritesFlag
<1>7. ~Calm' /\ (NoFaults' => NoFaults)
  BY <1>1, <1>5, BootIsActor DEF Calm, NoFaults
<1>8. wanted' \subseteq SUBSET AllUrls /\ writeFails' \in Nat /\ loadFails' \in Nat
  <2>1. stored.src \in Seq(Row) /\ writeFails \in Nat /\ loadFails \in Nat
    BY DEF StoreIInv, StoreTypes, Rows
  <2>2. UrlsOf(stored.src) \in SUBSET AllUrls /\ UrlsOf(src) \in SUBSET AllUrls
    BY <1>3, <2>1, UrlsKnown
  <2> QED
    BY <1>1, <2>1, <2>2
<1> QED
  BY <1>1, <1>5, <1>6, <1>7, <1>8, BootIsActor, NothingWritten

LEMMA Saves ==
  ASSUME StoreIInv, NEW a \in Admins, NEW d \in Docs, handleSetConfig(a, d)
  PROVE  StoreIInv'
<1>1. Booted /\ cfgPc[a] = "idle" /\ "save" \in team[a] /\ SetConfig(a, d)
  BY DEF handleSetConfig, Begins
<1>2. Writes(a)
  BY <1>1 DEF Writes, WritingKinds
<1>3. d.set \in [SettingKeys -> Strings] /\ d.src \in Seq(Row)
  BY ConfigAssumption
<1> QED
  BY <1>1, <1>2, <1>3, SaveAccepted

\* An actor in the middle of something is an admin after boot, or it is the boot sequence.
LEMMA AdminActs ==
  ASSUME BootInv, NEW a \in Actors, cfgPc[a] \notin {"idle", "boot", "set", "insert", "load", "reading", "swap"}
  PROVE  a \in Admins /\ Booted
BY DEF BootInv, Booted, Actors

LEMMA AdminOrBoot ==
  ASSUME BootInv, NEW a \in Actors, cfgPc[a] # "idle"
  PROVE  (a \in Admins /\ a # Boot /\ Booted) \/ (a = Boot /\ ~Booted)
BY BootIsActor DEF BootInv, Booted, Actors

LEMMA PostsBack ==
  ASSUME StoreIInv, NEW a \in Actors, PostBack(a)
  PROVE  StoreIInv'
<1>1. cfgPc[a] = "page" /\ SetConfig(a, cfgJob[a].page)
  BY DEF PostBack
<1>2. a \in Admins /\ Booted
  BY <1>1, AdminActs DEF StoreIInv
<1>3. cfgJob[a].page.set \in [SettingKeys -> Strings] /\ cfgJob[a].page.src \in Seq(Row)
  BY <1>1 DEF StoreIInv, JobTypes, JobTyped
<1>4. cfgJob[a].kind = "page"
  BY <1>1 DEF StoreIInv, JobTypes, JobTyped
<1>5. Writes(a)
  BY <1>2, <1>4 DEF StoreIInv, TeamInv
<1> QED
  BY <1>1, <1>2, <1>3, <1>5, SaveAccepted


-----------------------------------------------------------------------------
(* The tables are written.                                                 *)

\* A statement on the tables.
LEMMA StatementStep ==
  ASSUME StoreIInv, NEW a \in Actors, OthersStay(a), JobTyped(a)', stored' \in Rows,
         UNCHANGED <<heap, cached, liveCfg, cfgMutex, team, wanted, writeFails, loadFails>>,
         (a = Boot /\ BootMoves /\ cfgPc'[Boot] # "idle") \/ (a \in Admins /\ Booted),
         a \in Admins /\ cfgJob'[a].kind \in {"page", "save", "toggle"} => Writes(a),
         cfgPc[a] # "reading", cfgPc'[a] \notin {"reading", "swap", "toggle"},
         WatchInv', CacheInv'
  PROVE  StoreIInv'
<1> USE DEF StoreIInv
<1>1. StoreTypes'
  BY DEF StoreTypes, OthersStay
<1>2. Booted' => Booted
  BY BootIsActor DEF Booted, OthersStay
<1>3. CfgTypeOK'
  <2>1. Booted' => liveCfg' # 0
    BY <1>2 DEF CfgTypeOK
  <2>2. heap' \in Seq(Content) /\ Len(heap') = Len(heap) /\ Len(heap) \in Nat
    BY DEF StoreTypes
  <2>3. cached' \in 0..Len(heap') /\ liveCfg' \in 0..Len(heap') /\ wanted' \subseteq SUBSET AllUrls
    BY DEF CfgTypeOK
  <2> QED
    BY <2>1, <2>2, <2>3, TypeKept
<1>4. JobTypes' /\ TeamInv'
  BY JobsKept, TeamKept
<1>5. BootInv'
  BY BootKept
<1> QED
  BY <1>1, <1>3, <1>4, <1>5

\* A statement that leaves the settings alone.
LEMMA RowsStep ==
  ASSUME StoreIInv, NEW a \in Actors, OthersStay(a), JobTyped(a)', stored' \in Rows, stored'.set = stored.set,
         UNCHANGED <<heap, cached, liveCfg, cfgMutex, team, wanted, writeFails, loadFails>>,
         (a = Boot /\ BootMoves /\ cfgPc'[Boot] # "idle") \/ (a \in Admins /\ Booted),
         a \in Admins /\ cfgJob'[a].kind \in {"page", "save", "toggle"} => Writes(a),
         a \in Admins /\ OneWriter /\ WritesFlag(a)' /\ "watcher" \notin cfgJob'[a].todo
           => stored.set["watcher"] = cfgJob'[a].on,
         cfgPc[a] # "reading", cfgPc'[a] \notin {"reading", "swap", "toggle"},
         CacheInv'
  PROVE  StoreIInv'
<1>1. WatchInv'
  BY WatchKept DEF StoreIInv
<1> QED
  BY <1>1, StatementStep

LEMMA ProfileStep ==
  ASSUME StoreIInv, NEW a \in Admins, Booted, cfgPc[a] \in {"idle", "delete"},
         stored' \in Rows, stored'.set = stored.set, Reloads(a),
         UNCHANGED <<heap, cached, liveCfg, cfgMutex, team, wanted, writeFails, loadFails>>
  PROVE  StoreIInv'
<1>1. OthersStay(a) /\ cfgPc'[a] = "clear" /\ cfgJob'[a] = [kind |-> "profile"]
  BY BootIsActor DEF StoreIInv, StoreTypes, OthersStay, Reloads, Goes
<1>2. JobTyped(a)' /\ ~WritesFlag(a)'
  BY <1>1 DEF JobTyped, WritesFlag
<1>3. CacheInv'
  BY <1>1, BootIsActor, NotCalm
<1> QED
  BY <1>1, <1>2, <1>3, BootIsActor, RowsStep

LEMMA StoredFields ==
  ASSUME StoreIInv
  PROVE  /\ stored = [set |-> stored.set, src |-> stored.src, prof |-> stored.prof, tab |-> stored.tab,
                      next |-> stored.next]
         /\ stored.set \in [SettingKeys -> Strings] /\ stored.src \in Seq(Row)
         /\ stored.prof \in SUBSET Profile /\ stored.tab \in [Tables -> SUBSET Nat] /\ stored.next \in Nat
BY DEF StoreIInv, StoreTypes, Rows

\* The sources with the profile of some of them replaced.
LEMMA SourcesRenamed ==
  ASSUME NEW src \in Seq(Row), NEW named, NEW n \in Strings
  PROVE  [i \in DOMAIN src |-> IF src[i].prof \in named THEN [src[i] EXCEPT !.prof = n] ELSE src[i]] \in Seq(Row)
<1> DEFINE f == [i \in DOMAIN src |-> IF src[i].prof \in named THEN [src[i] EXCEPT !.prof = n] ELSE src[i]]
<1>1. \A i \in DOMAIN src : src[i] \in Row /\ [src[i] EXCEPT !.prof = n] \in Row
  <2>1. \A i \in DOMAIN src : src[i] \in Row
    OBVIOUS
  <2> QED
    BY <2>1 DEF Row
<1>2. f \in [DOMAIN src -> Row]
  BY <1>1
<1> HIDE DEF f
<1>3. f \in Seq(Row)
  BY <1>2, RewrittenList
<1> QED
  BY <1>3 DEF f

LEMMA Creates ==
  ASSUME StoreIInv, NEW a \in Admins, NEW n \in ProfileNames, handleCreateFilterProfile(a, n)
  PROVE  StoreIInv'
<1> DEFINE prof == stored.prof \cup {[id |-> stored.next, name |-> n]}
<1>1. stored' = [stored EXCEPT !.prof = prof, !.next = stored.next + 1] /\ Booted /\ cfgPc[a] = "idle"
      /\ Reloads(a) /\ UNCHANGED <<heap, cached, liveCfg, cfgMutex, team, wanted, writeFails, loadFails>>
  BY DEF handleCreateFilterProfile, Begins
<1>2. prof \in SUBSET Profile /\ stored.next + 1 \in Nat /\ stored.src \in Seq(Row)
  BY StoredFields DEF Profile
<1> HIDE DEF prof
<1>3. stored' \in Rows /\ stored'.set = stored.set
  BY <1>1, <1>2, StoredFields DEF Rows
<1> QED
  BY <1>1, <1>3, ProfileStep

LEMMA Renames ==
  ASSUME StoreIInv, NEW a \in Admins, NEW p \in stored.prof, NEW n \in ProfileNames,
         handleUpdateFilterProfile(a, p, n)
  PROVE  StoreIInv'
<1> DEFINE prof == (stored.prof \ {p}) \cup {[p EXCEPT !.name = n]}
           src == [i \in DOMAIN stored.src |->
                    IF stored.src[i].prof \in {p.name} THEN [stored.src[i] EXCEPT !.prof = n] ELSE stored.src[i]]
<1>1. stored' = [stored EXCEPT !.prof = prof, !.src = src] /\ Booted /\ cfgPc[a] = "idle"
      /\ Reloads(a) /\ UNCHANGED <<heap, cached, liveCfg, cfgMutex, team, wanted, writeFails, loadFails>>
  BY DEF handleUpdateFilterProfile, UpdateFilterProfile, Begins
<1>2. prof \in SUBSET Profile
  BY StoredFields DEF Profile
<1>3. src \in Seq(Row)
  BY ZenonT(40), StoredFields, SourcesRenamed, ConfigAssumption
<1> HIDE DEF prof, src
<1>4. stored' \in Rows /\ stored'.set = stored.set
  BY <1>1, <1>2, <1>3, StoredFields DEF Rows
<1> QED
  BY <1>1, <1>4, ProfileStep

LEMMA Deletes ==
  ASSUME StoreIInv, NEW a \in Actors, DeleteFilterProfile(a)
  PROVE  StoreIInv'
<1> DEFINE gone == {p \in stored.prof : p.id = cfgJob[a].id}
           rest == stored.prof \ gone
           src == [i \in DOMAIN stored.src |-> IF stored.src[i].prof \in ProfilesNamed(gone)
                    THEN [stored.src[i] EXCEPT !.prof = NoProfile] ELSE stored.src[i]]
<1>1. cfgPc[a] = "delete" /\ UNCHANGED <<heap, cached, liveCfg, cfgMutex, team, wanted, writeFails, loadFails>>
  BY DEF DeleteFilterProfile, cfgBounds
<1>2. a \in Admins /\ Booted
  BY <1>1, AdminActs DEF StoreIInv
<1>3. CASE gone = {}
  <2>1. Ends(a) /\ UNCHANGED stored
    BY <1>3 DEF DeleteFilterProfile
  <2>2. OthersStay(a) /\ cfgPc'[a] = "idle" /\ cfgJob'[a] = NoJob
    BY <2>1, <1>2, BootIsActor DEF Ends, StoreIInv, StoreTypes, OthersStay
  <2>3. JobTyped(a)' /\ ~WritesFlag(a)' /\ cfgJob'[a].kind = "none"
    BY <2>2 DEF JobTyped, WritesFlag, NoJob
  <2>4. (Calm' => Calm) /\ (NoFaults' => NoFaults)
    BY <1>1, <2>2 DEF Calm, NoFaults, OthersStay
  <2>5. wanted' \subseteq SUBSET AllUrls /\ writeFails' \in Nat /\ loadFails' \in Nat
    BY <1>1 DEF StoreIInv, CfgTypeOK, StoreTypes
  <2> QED
    BY <1>1, <1>2, <2>1, <2>2, <2>3, <2>4, <2>5, BootIsActor, NothingWritten
<1>4. CASE gone # {}
  <2>1. stored' = [stored EXCEPT !.prof = rest, !.src = src] /\ Reloads(a)
    BY <1>4 DEF DeleteFilterProfile
  <2>2. src \in Seq(Row)
    <3>1. NoProfile \in Strings
      BY DEF NoProfile, Strings
    <3> HIDE DEF gone
    <3> QED
      BY <3>1, StoredFields, SourcesRenamed
  <2>3. rest \in SUBSET Profile /\ stored.next \in Nat
    BY StoredFields
  <2> HIDE DEF gone, rest, src
  <2>4. stored' \in Rows /\ stored'.set = stored.set
    BY <2>1, <2>2, <2>3, StoredFields DEF Rows
  <2> QED
    BY <1>1, <1>2, <2>1, <2>4, ProfileStep
<1> QED
  BY <1>3, <1>4


\* The account tables are none of the cache's claims.
LEMMA TabWritten ==
  ASSUME StoreIInv, NEW t \in Tables, NEW rows \in SUBSET Nat, stored' = [stored EXCEPT !.tab[t] = rows]
  PROVE  /\ stored' \in Rows /\ stored'.set = stored.set /\ stored'.src = stored.src
         /\ stored'.prof = stored.prof
BY StoredFields DEF Rows

LEMMA TableStep ==
  ASSUME StoreIInv, NEW a \in Admins, Booted, OthersStay(a), JobTyped(a)',
         cfgPc[a] \in {"idle", "rows"}, cfgPc'[a] = "rows", cfgJob'[a].kind = "table",
         stored' \in Rows, stored'.set = stored.set, stored'.src = stored.src, stored'.prof = stored.prof,
         UNCHANGED <<heap, cached, liveCfg, cfgMutex, team, wanted, writeFails, loadFails>>
  PROVE  StoreIInv'
<1>1. Calm' => Calm
  BY DEF Calm, OthersStay
<1>2. NoFaults' => NoFaults
  BY DEF NoFaults
<1>3. CacheInv'
  BY <1>1, <1>2, BootIsActor, CacheKept DEF StoreIInv
<1>4. ~WritesFlag(a)'
  BY DEF WritesFlag
<1> QED
  BY <1>3, <1>4, BootIsActor, RowsStep

LEMMA TablesAre == Tables = {"xc", "epg", "sd"}
BY DEF Tables

LEMMA WritesRow ==
  ASSUME StoreIInv, NEW a \in Admins, NEW t \in Tables, NEW rows \in SUBSET Nat, RowWritten(a, t, rows)
  PROVE  StoreIInv'
<1>1. /\ Booted /\ cfgPc[a] = "idle" /\ stored' = [stored EXCEPT !.tab[t] = rows]
      /\ cfgJob' = [cfgJob EXCEPT ![a] = [kind |-> "table", table |-> t]]
      /\ cfgPc' = [cfgPc EXCEPT ![a] = "rows"]
      /\ UNCHANGED <<heap, cached, liveCfg, cfgMutex, team, wanted, writeFails, loadFails>>
  BY DEF RowWritten, Begins, Goes
<1>2. OthersStay(a) /\ cfgPc'[a] = "rows" /\ cfgJob'[a] = [kind |-> "table", table |-> t]
  BY <1>1, BootIsActor DEF StoreIInv, StoreTypes, OthersStay
<1>3. JobTyped(a)' /\ cfgJob'[a].kind = "table"
  BY <1>2 DEF JobTyped, WritesFlag
<1> QED
  BY <1>1, <1>2, <1>3, TabWritten, TableStep

LEMMA WritesLineups ==
  ASSUME StoreIInv, NEW a \in Actors, replaceSDLineups(a)
  PROVE  StoreIInv'
<1>1. /\ cfgPc[a] = "rows" /\ cfgJob[a].table = "sd" /\ stored' = [stored EXCEPT !.tab["sd"] = {1}]
      /\ UNCHANGED <<heap, cached, liveCfg, cfgMutex, cfgPc, cfgJob, team, wanted, writeFails, loadFails>>
  BY DEF replaceSDLineups, cfgBounds
<1>2. a \in Admins /\ Booted
  BY <1>1, AdminActs DEF StoreIInv
<1>3. OthersStay(a) /\ cfgPc'[a] = "rows"
  BY <1>1 DEF StoreIInv, StoreTypes, OthersStay
<1>4. JobTyped(a)' /\ cfgJob'[a].kind = "table"
  BY <1>1 DEF StoreIInv, JobTypes, JobTyped, WritesFlag
<1>5. {1} \in SUBSET Nat
  OBVIOUS
<1>6. /\ stored' \in Rows /\ stored'.set = stored.set /\ stored'.src = stored.src
      /\ stored'.prof = stored.prof
  BY <1>1, <1>5, TablesAre, TabWritten
<1> QED
  BY <1>1, <1>2, <1>3, <1>4, <1>6, TableStep

LEMMA ReadsRows ==
  ASSUME StoreIInv, NEW a \in Actors, NEW t \in Tables, RowsRead(a, t)
  PROVE  StoreIInv'
<1> DEFINE act == [kind |-> "table", table |-> t, rows |-> stored.tab[t]]
<1>1. /\ cfgPc[a] = "rows" /\ cfgJob' = [cfgJob EXCEPT ![a] = act]
      /\ cfgPc' = [cfgPc EXCEPT ![a] = "assign"]
      /\ UNCHANGED <<stored, heap, cached, liveCfg, cfgMutex, team, wanted, writeFails, loadFails>>
  BY DEF RowsRead, Goes, cfgBounds
<1>2. a \in Admins /\ Booted
  BY <1>1, AdminActs DEF StoreIInv
<1>3. act.rows \in SUBSET Nat /\ act.kind = "table"
  BY StoredFields
<1> HIDE DEF act
<1>4. OthersStay(a) /\ cfgPc'[a] = "assign" /\ cfgJob'[a] = act
  BY <1>1 DEF StoreIInv, StoreTypes, OthersStay
<1>5. JobTyped(a)' /\ ~WritesFlag(a)'
  BY <1>3, <1>4 DEF JobTyped, WritesFlag
<1>6. (Calm' => Calm) /\ (NoFaults' => NoFaults)
  BY <1>1, <1>4 DEF Calm, NoFaults, OthersStay
<1>7. wanted' \subseteq SUBSET AllUrls /\ writeFails' \in Nat /\ loadFails' \in Nat
  BY <1>1 DEF StoreIInv, CfgTypeOK, StoreTypes
<1> QED
  BY <1>1, <1>2, <1>3, <1>4, <1>5, <1>6, <1>7, NothingWritten

-----------------------------------------------------------------------------
(* A whole configuration is written.                                       *)

\* PersistConfig has written everything; the request goes on to clear the cache.
LEMMA EndsWriting ==
  ASSUME StoreIInv, NEW a \in Actors, Persisted(a)
  PROVE  StoreIInv'
<1>1. /\ cfgPc[a] = "insert" /\ a # Boot /\ cfgPc' = [cfgPc EXCEPT ![a] = "clear"]
      /\ wanted' = (IF cfgJob[a].kind = "save" THEN {UrlsOf(stored.src)} ELSE wanted)
      /\ UNCHANGED <<stored, heap, cached, liveCfg, cfgMutex, cfgJob, team, writeFails, loadFails>>
  BY DEF Persisted, Goes, cfgBounds
<1>2. a \in Admins /\ Booted
  BY <1>1, AdminOrBoot DEF StoreIInv
<1>3. OthersStay(a) /\ cfgPc'[a] = "clear" /\ cfgJob'[a] = cfgJob[a]
  BY <1>1 DEF StoreIInv, StoreTypes, OthersStay
<1>4. cfgJob[a].todo = {} /\ cfgJob[a] \in SaveJob \cup ToggleJob /\ JobTyped(a)
  BY <1>1 DEF StoreIInv, JobTypes, JobTyped
<1>5. JobTyped(a)'
  BY <1>1, <1>3, <1>4 DEF JobTyped, WritesFlag
<1>6. cfgJob'[a].kind \in {"page", "save", "toggle"} => Writes(a)
  BY <1>2, <1>3 DEF StoreIInv, TeamInv
<1>7. OneWriter /\ WritesFlag(a)' => stored.set["watcher"] = cfgJob'[a].on
  BY <1>1, <1>2, <1>3, <1>4 DEF StoreIInv, WatchInv, WritesFlag
<1>8. ~Calm' /\ (NoFaults' => NoFaults)
  BY <1>1, <1>3 DEF Calm, NoFaults
<1>9. wanted' \subseteq SUBSET AllUrls
  BY <1>1, StoredFields, UrlsKnown DEF StoreIInv, CfgTypeOK
<1>10. writeFails' \in Nat /\ loadFails' \in Nat
  BY <1>1 DEF StoreIInv, StoreTypes
<1> QED
  BY <1>1, <1>2, <1>3, <1>5, <1>6, <1>7, <1>8, <1>9, <1>10, NothingWritten

LEMMA WriteFailed ==
  ASSUME StoreIInv, NEW a \in Actors, WriteFails(a)
  PROVE  StoreIInv'
<1>1. /\ cfgPc[a] \in {"set", "wipe", "insert"} /\ writeFails' = writeFails + 1
      /\ IF a = Boot THEN Goes(a, "load") /\ UNCHANGED cfgJob ELSE Ends(a)
      /\ UNCHANGED <<stored, heap, cached, liveCfg, cfgMutex, wanted, team, loadFails>>
  BY DEF WriteFails
<1>2. writeFails' \in Nat /\ writeFails' # 0 /\ loadFails' \in Nat /\ wanted' \subseteq SUBSET AllUrls
  BY <1>1 DEF StoreIInv, StoreTypes, CfgTypeOK
<1>3. ~NoFaults'
  BY <1>2 DEF NoFaults
<1>4. CASE a = Boot
  <2>1. OthersStay(a) /\ cfgPc'[a] = "load" /\ cfgJob'[a] = cfgJob[a]
    BY <1>1, <1>4 DEF StoreIInv, StoreTypes, OthersStay, Goes
  <2>2. JobTyped(a)' /\ cfgJob[a].kind = "boot"
    BY <1>1, <1>4, <2>1 DEF StoreIInv, JobTypes, JobTyped, WritesFlag, BootInv
  <2>3. BootMoves /\ ~WritesFlag(a)'
    BY <1>1, <1>4, <2>1, <2>2 DEF BootMoves, Booted, WritesFlag
  <2> QED
    BY <1>1, <1>2, <1>3, <1>4, <2>1, <2>2, <2>3, BootIsActor, NothingWritten
<1>5. CASE a # Boot
  <2>1. a \in Admins /\ Booted
    BY <1>1, <1>5, AdminOrBoot DEF StoreIInv
  <2>2. OthersStay(a) /\ cfgPc'[a] = "idle" /\ cfgJob'[a] = NoJob
    BY <1>1, <1>5 DEF Ends, StoreIInv, StoreTypes, OthersStay
  <2>3. JobTyped(a)' /\ ~WritesFlag(a)' /\ cfgJob'[a].kind = "none"
    BY <2>2 DEF JobTyped, WritesFlag, NoJob
  <2> QED
    BY <1>1, <1>2, <1>3, <2>1, <2>2, <2>3, NothingWritten
<1> QED
  BY <1>4, <1>5


LEMMA SettingWritten ==
  ASSUME StoreIInv, NEW a \in Actors, NEW k \in SettingKeys, SetSetting(a, k)
  PROVE  StoreIInv'
<1> DEFINE v == cfgJob[a].set[k]
           p == IF cfgJob[a].todo # {k} THEN "set" ELSE IF a = Boot THEN "insert" ELSE "wipe"
           act == [cfgJob[a] EXCEPT !.todo = @ \ {k}]
<1>1. /\ cfgPc[a] = "set" /\ k \in cfgJob[a].todo /\ stored' = [stored EXCEPT !.set[k] = v]
      /\ cfgJob' = [cfgJob EXCEPT ![a] = act] /\ cfgPc' = [cfgPc EXCEPT ![a] = p]
      /\ UNCHANGED <<heap, cached, liveCfg, cfgMutex, wanted, team, writeFails, loadFails>>
  BY DEF SetSetting, Goes, cfgBounds, StoreIInv, StoreTypes
<1>2. cfgJob[a] \in SaveJob \cup ToggleJob /\ (cfgJob[a].kind = "boot" => a = Boot) /\ JobTyped(a)
  BY <1>1 DEF StoreIInv, JobTypes, JobTyped
<1>3. /\ act \in SaveJob \cup ToggleJob /\ act.kind = cfgJob[a].kind
      /\ act.todo = cfgJob[a].todo \ {k} /\ act.set = cfgJob[a].set
      /\ (act.kind = "toggle" => act.on = cfgJob[a].on /\ act \in ToggleJob)
  <2>1. CASE cfgJob[a] \in SaveJob
    BY <2>1 DEF SaveJob
  <2>2. CASE cfgJob[a] \in ToggleJob
    BY <2>2 DEF ToggleJob
  <2> QED
    BY <1>2, <2>1, <2>2
<1>4. v \in Strings
  BY <1>2 DEF SaveJob, ToggleJob
<1>5. /\ stored' \in Rows /\ stored'.set[k] = v /\ \A j \in SettingKeys \ {k} : stored'.set[j] = stored.set[j]
  BY <1>1, <1>4, StoredFields DEF Rows
<1>6. p \in {"set", "insert", "wipe"} /\ (p # "set" => act.todo = {}) /\ (a = Boot => p # "wipe")
  BY <1>1, <1>3
<1>7. v = cfgJob[a].set[k]
  OBVIOUS
<1> HIDE DEF act, p, v
<1>8. OthersStay(a) /\ cfgPc'[a] = p /\ cfgJob'[a] = act
  BY <1>1 DEF StoreIInv, StoreTypes, OthersStay
<1>9. JobTyped(a)'
  BY <1>1, <1>2, <1>3, <1>6, <1>8 DEF JobTyped, WritesFlag
<1>10. CacheInv'
  BY <1>6, <1>8, NotCalm
<1>11. (a = Boot /\ BootMoves /\ cfgPc'[Boot] # "idle") \/ (a \in Admins /\ Booted)
  <2>1. CASE a = Boot
    <3>1. cached = 0 /\ cfgJob[Boot].kind = "boot"
      BY <1>1, <2>1 DEF StoreIInv, BootInv
    <3> QED
      BY <1>1, <1>3, <1>6, <1>8, <2>1, <3>1 DEF BootMoves, Booted
  <2>2. CASE a # Boot
    BY <1>1, <2>2, AdminOrBoot DEF StoreIInv
  <2> QED
    BY <2>1, <2>2
<1>12. a \in Admins => Writes(a)
  <2>1. a \in Admins => cfgJob[a].kind \in {"save", "toggle"}
    BY <1>2, BootIsActor DEF SaveJob, ToggleJob
  <2> QED
    BY <2>1 DEF StoreIInv, TeamInv
<1>13. WatchInv'
  <2> SUFFICES ASSUME OneWriter, NEW b \in Admins, WritesFlag(b)', "watcher" \notin cfgJob'[b].todo
               PROVE  stored'.set["watcher"] = cfgJob'[b].on
    BY <1>1 DEF WatchInv, OneWriter, OnlyOne
  <2>1. CASE b = a
    <3>1. cfgJob[a].kind = "toggle" /\ WritesFlag(a)
      BY <1>1, <1>3, <1>8, <2>1 DEF WritesFlag
    <3>2. cfgJob[a].set["watcher"] = cfgJob[a].on /\ cfgJob'[b].on = cfgJob[a].on
      BY <1>2, <1>3, <1>8, <2>1, <3>1 DEF JobTyped
    <3>3. CASE k = "watcher"
      BY <1>5, <1>7, <3>2, <3>3
    <3>4. CASE k # "watcher"
      <4>1. "watcher" \notin cfgJob[a].todo
        BY <1>3, <1>8, <2>1, <3>4
      <4>2. stored.set["watcher"] = cfgJob[a].on
        BY <2>1, <3>1, <4>1 DEF StoreIInv, WatchInv
      <4> QED
        BY <1>5, <3>2, <3>4, <4>2, ConfigAssumption
    <3> QED
      BY <3>3, <3>4
  <2>2. CASE b # a
    <3>1. cfgPc[b] = cfgPc'[b] /\ cfgJob[b] = cfgJob'[b]
      BY <1>8, <2>2, BootIsActor DEF OthersStay
    <3>2. cfgPc[b] # "idle" /\ cfgJob[b].kind = "toggle"
      BY <3>1 DEF WritesFlag
    <3>3. Booted
      BY <3>2, BootIsActor DEF StoreIInv, BootInv
    <3>4. a \in Admins
      BY <1>1, <3>3, AdminOrBoot DEF StoreIInv
    <3>5. Writes(a) /\ Writes(b)
      BY <1>12, <3>2, <3>4 DEF StoreIInv, TeamInv
    <3> QED
      BY <2>2, <3>4, <3>5 DEF OneWriter, OnlyOne, Writes
  <2> QED
    BY <2>1, <2>2
<1> QED
  BY <1>1, <1>5, <1>6, <1>8, <1>9, <1>10, <1>11, <1>12, <1>13, StatementStep

LEMMA SourcesWiped ==
  ASSUME StoreIInv, NEW a \in Actors, Wipe(a)
  PROVE  StoreIInv'
<1>1. /\ cfgPc[a] = "wipe" /\ stored' = [stored EXCEPT !.src = <<>>] /\ cfgPc' = [cfgPc EXCEPT ![a] = "insert"]
      /\ UNCHANGED <<heap, cached, liveCfg, cfgMutex, cfgJob, wanted, team, writeFails, loadFails>>
  BY DEF Wipe, Goes, cfgBounds
<1>2. a \in Admins /\ Booted
  BY <1>1, AdminActs DEF StoreIInv
<1>3. OthersStay(a) /\ cfgPc'[a] = "insert" /\ cfgJob'[a] = cfgJob[a]
  BY <1>1 DEF StoreIInv, StoreTypes, OthersStay
<1>4. JobTyped(a)'
  BY <1>1, <1>3 DEF StoreIInv, JobTypes, JobTyped, WritesFlag
<1>5. stored' \in Rows /\ stored'.set = stored.set
  <2>1. <<>> \in Seq(Row)
    OBVIOUS
  <2> QED
    BY <1>1, <2>1, StoredFields DEF Rows
<1>6. CacheInv'
  BY <1>3, NotCalm
<1>7. cfgJob'[a].kind \in {"page", "save", "toggle"} => Writes(a)
  BY <1>2, <1>3 DEF StoreIInv, TeamInv
<1>8. OneWriter /\ WritesFlag(a)' /\ "watcher" \notin cfgJob'[a].todo => stored.set["watcher"] = cfgJob'[a].on
  BY <1>1, <1>2, <1>3 DEF StoreIInv, WatchInv, WritesFlag
<1> QED
  BY <1>1, <1>2, <1>3, <1>4, <1>5, <1>6, <1>7, <1>8, RowsStep

LEMMA SourceInserted ==
  ASSUME StoreIInv, NEW a \in Actors, InsertSource(a)
  PROVE  StoreIInv'
<1> DEFINE act == [cfgJob[a] EXCEPT !.src = Tail(@)]
           next == Head(cfgJob[a].src)
<1>1. /\ cfgPc[a] = "insert" /\ cfgJob[a].src # <<>> /\ stored' = [stored EXCEPT !.src = Append(@, next)]
      /\ cfgJob' = [cfgJob EXCEPT ![a] = act]
      /\ UNCHANGED <<heap, cached, liveCfg, cfgMutex, cfgPc, wanted, team, writeFails, loadFails>>
  BY DEF InsertSource, cfgBounds, StoreIInv, StoreTypes
<1>2. /\ cfgJob[a] \in SaveJob \cup ToggleJob /\ (cfgJob[a].kind = "boot" => a = Boot) /\ cfgJob[a].todo = {}
      /\ JobTyped(a)
  BY <1>1 DEF StoreIInv, JobTypes, JobTyped
<1>3. cfgJob[a].src \in Seq(Row)
  BY <1>2 DEF SaveJob, ToggleJob
<1>4. next \in Row /\ Tail(cfgJob[a].src) \in Seq(Row)
  BY <1>1, <1>3
<1>5. /\ act \in SaveJob \cup ToggleJob /\ act.kind = cfgJob[a].kind
      /\ act.todo = cfgJob[a].todo /\ act.set = cfgJob[a].set
      /\ (act.kind = "toggle" => act.on = cfgJob[a].on /\ act \in ToggleJob)
  <2>1. CASE cfgJob[a] \in SaveJob
    BY <1>4, <2>1 DEF SaveJob
  <2>2. CASE cfgJob[a] \in ToggleJob
    BY <1>4, <2>2 DEF ToggleJob
  <2> QED
    BY <1>2, <2>1, <2>2
<1> HIDE DEF act, next
<1>6. stored' \in Rows /\ stored'.set = stored.set
  <2>1. Append(stored.src, next) \in Seq(Row)
    BY <1>4, StoredFields
  <2> QED
    BY <1>1, <2>1, StoredFields DEF Rows
<1>7. OthersStay(a) /\ cfgPc'[a] = "insert" /\ cfgJob'[a] = act
  BY <1>1 DEF StoreIInv, StoreTypes, OthersStay
<1>8. JobTyped(a)'
  BY <1>1, <1>2, <1>5, <1>7 DEF JobTyped, WritesFlag
<1>9. CacheInv'
  BY <1>7, NotCalm
<1>10. (a = Boot /\ BootMoves /\ cfgPc'[Boot] # "idle") \/ (a \in Admins /\ Booted)
  <2>1. CASE a = Boot
    <3>1. cached = 0 /\ cfgJob[Boot].kind = "boot"
      BY <1>1, <2>1 DEF StoreIInv, BootInv
    <3> QED
      BY <1>1, <1>5, <1>7, <2>1, <3>1 DEF BootMoves, Booted
  <2>2. CASE a # Boot
    BY <1>1, <2>2, AdminOrBoot DEF StoreIInv
  <2> QED
    BY <2>1, <2>2
<1>11. a \in Admins /\ cfgJob'[a].kind \in {"page", "save", "toggle"} => Writes(a)
  BY <1>5, <1>7 DEF StoreIInv, TeamInv
<1>12. a \in Admins /\ OneWriter /\ WritesFlag(a)' => stored.set["watcher"] = cfgJob'[a].on
  <2> SUFFICES ASSUME a \in Admins, OneWriter, WritesFlag(a)'
               PROVE  stored.set["watcher"] = cfgJob'[a].on
    OBVIOUS
  <2>1. WritesFlag(a) /\ cfgJob'[a].on = cfgJob[a].on
    BY <1>1, <1>5, <1>7 DEF WritesFlag
  <2> QED
    BY <1>2, <2>1 DEF StoreIInv, WatchInv
<1> QED
  BY <1>1, <1>6, <1>7, <1>8, <1>9, <1>10, <1>11, <1>12, RowsStep


-----------------------------------------------------------------------------
(* The cache.                                                              *)

\* ClearConfigCache waits for a load in progress: nobody is left with older rows.
LEMMA CacheCleared ==
  ASSUME StoreIInv, NEW a \in Actors, ClearConfigCache(a)
  PROVE  StoreIInv'
<1> DEFINE p == IF cfgJob[a].kind = "toggle" THEN "watch" ELSE "load"
<1>1. /\ cfgPc[a] = "clear" /\ cfgMutex = Nobody /\ cached' = 0 /\ cfgPc' = [cfgPc EXCEPT ![a] = p]
      /\ UNCHANGED <<stored, heap, liveCfg, cfgMutex, cfgJob, wanted, team, writeFails, loadFails>>
  BY DEF ClearConfigCache, Goes, cfgBounds
<1>2. a \in Admins /\ Booted
  BY <1>1, AdminActs DEF StoreIInv
<1>3. p \in {"watch", "load"} /\ (p = "watch") = (cfgJob[a].kind = "toggle")
  OBVIOUS
<1> HIDE DEF p
<1>4. OthersStay(a) /\ cfgPc'[a] = p /\ cfgJob'[a] = cfgJob[a]
  BY <1>1 DEF StoreIInv, StoreTypes, OthersStay
<1>5. JobTyped(a)'
  BY <1>1, <1>3, <1>4 DEF StoreIInv, JobTypes, JobTyped, WritesFlag
<1>6. StoreTypes'
  BY <1>1, <1>4 DEF StoreIInv, StoreTypes, OthersStay
<1>7. CfgTypeOK'
  <2>1. Booted' => liveCfg' # 0
    BY <1>1, <1>2 DEF StoreIInv, CfgTypeOK
  <2>2. heap' \in Seq(Content) /\ Len(heap') = Len(heap) /\ Len(heap) \in Nat
    BY <1>1 DEF StoreIInv, StoreTypes
  <2>3. cached' \in 0..Len(heap') /\ liveCfg' \in 0..Len(heap') /\ wanted' \subseteq SUBSET AllUrls
    BY <1>1, <2>2 DEF StoreIInv, CfgTypeOK
  <2>4. (cfgPc'[a] = "reading") = (cfgPc[a] = "reading")
    BY <1>1, <1>3, <1>4
  <2> QED
    BY <1>1, <1>3, <1>4, <2>1, <2>2, <2>3, <2>4, TypeKept DEF StoreIInv
<1>8. JobTypes' /\ BootInv'
  BY <1>2, <1>4, <1>5, JobsKept, BootKept DEF StoreIInv
<1>9. TeamInv'
  BY <1>1, <1>4, TeamKept DEF StoreIInv, TeamInv
<1>10. WatchInv'
  <2>1. OneWriter /\ WritesFlag(a)' /\ "watcher" \notin cfgJob'[a].todo => stored.set["watcher"] = cfgJob'[a].on
    BY <1>1, <1>2, <1>4 DEF StoreIInv, WatchInv, WritesFlag
  <2> QED
    BY <1>1, <1>4, <2>1, WatchKept DEF StoreIInv
<1>11. CacheInv'
  <2>1. \A b \in Actors : cfgPc[b] # "reading"
    BY <1>1, BootIsActor DEF StoreIInv, CfgTypeOK
  <2>2. \A b \in Actors : cfgPc'[b] # "reading"
    BY <1>3, <1>4, <2>1 DEF OthersStay
  <2> QED
    BY <1>1, <2>2 DEF CacheInv
<1> QED
  BY <1>6, <1>7, <1>8, <1>9, <1>10, <1>11 DEF StoreIInv

\* What a request carries through its load.
LEMMA CarriedFlag ==
  ASSUME StoreIInv, NEW a \in Actors
  PROVE  Carried(a) \in Flags
BY DEF StoreIInv, JobTypes, JobTyped, Carried, Flags

\* Who loads: an admin, or the boot sequence, whose job is no toggle.
LEMMA WhoLoads ==
  ASSUME StoreIInv, NEW a \in Actors, cfgPc[a] \in {"load", "reading", "swap"}
  PROVE  (a = Boot /\ ~Booted /\ cfgJob[a].kind = "boot") \/ (a \in Admins /\ Booted)
<1>1. CASE a = Boot
  BY <1>1 DEF StoreIInv, BootInv, Booted
<1>2. CASE a # Boot
  BY <1>2, AdminOrBoot DEF StoreIInv
<1> QED
  BY <1>1, <1>2

\* The object that was loaded, or found, is in the heap and goes on to its reader.
LEMMA LoadEnds ==
  ASSUME StoreIInv, NEW a \in Actors, cfgPc[a] \in {"load", "reading"},
         heap' \in Seq(Content), Len(heap) <= Len(heap'), cached' \in 1..Len(heap'),
         NEW ptr \in 1..Len(heap'), AfterLoad(a, ptr),
         \A b \in Actors : (cfgPc'[b] = "reading") = (cfgMutex' = b),
         UNCHANGED <<stored, liveCfg, wanted, team>>, writeFails' \in Nat, loadFails' \in Nat,
         CacheInv'
  PROVE  StoreIInv'
<1> DEFINE p == IF cfgJob[a].kind = "toggle" THEN "toggle" ELSE "swap"
           act == [kind |-> cfgJob[a].kind, on |-> Carried(a), ptr |-> ptr]
<1>1. OthersStay(a) /\ cfgPc'[a] = p /\ cfgJob'[a] = act
  BY DEF AfterLoad, Goes, StoreIInv, StoreTypes, OthersStay
<1>2. p \in {"toggle", "swap"} /\ (p = "toggle") = (cfgJob[a].kind = "toggle")
      /\ act.kind = cfgJob[a].kind /\ act.on \in Flags /\ act.ptr = ptr
  BY CarriedFlag
<1> HIDE DEF p, act
<1>3. JobTyped(a)' /\ ~WritesFlag(a)'
  BY <1>1, <1>2 DEF JobTyped, WritesFlag
<1>4. StoreTypes'
  BY <1>1 DEF StoreIInv, StoreTypes, OthersStay
<1>5. (a = Boot /\ BootMoves /\ p = "swap") \/ (a \in Admins /\ Booted)
  BY <1>1, <1>2, WhoLoads DEF BootMoves
<1>6. Booted' => Booted
  BY <1>1, <1>2, <1>5, BootIsActor DEF Booted, OthersStay
<1>7. CfgTypeOK'
  <2>1. Booted' => liveCfg' # 0
    BY <1>6 DEF StoreIInv, CfgTypeOK
  <2>2. Len(heap) \in Nat /\ Len(heap') \in Nat
    BY DEF StoreIInv, StoreTypes
  <2>3. cached' \in 0..Len(heap') /\ liveCfg' \in 0..Len(heap') /\ wanted' \subseteq SUBSET AllUrls
    BY <2>2 DEF StoreIInv, CfgTypeOK
  <2>4. ASSUME NEW b \in Actors, cfgPc'[b] \in {"swap", "toggle"} PROVE cfgJob'[b].ptr \in 1..Len(heap')
    <3>1. CASE b = a
      BY <1>1, <1>2, <3>1
    <3>2. CASE b # a
      <4>1. cfgPc'[b] = cfgPc[b] /\ cfgJob'[b] = cfgJob[b]
        BY <1>1, <3>2 DEF OthersStay
      <4>2. cfgJob[b].ptr \in 1..Len(heap)
        BY <2>4, <4>1 DEF StoreIInv, CfgTypeOK
      <4> QED
        BY <2>2, <4>1, <4>2
    <3> QED
      BY <3>1, <3>2
  <2> QED
    BY <2>1, <2>3, <2>4 DEF CfgTypeOK
<1>8. JobTypes' /\ BootInv'
  BY <1>1, <1>3, <1>5, JobsKept, BootKept DEF StoreIInv
<1>9. TeamInv'
  BY <1>1, <1>2, TeamKept DEF StoreIInv, TeamInv
<1>10. WatchInv'
  BY <1>1, <1>3, WatchKept DEF StoreIInv
<1> QED
  BY <1>4, <1>7, <1>8, <1>9, <1>10 DEF StoreIInv


LEMMA Loads ==
  ASSUME StoreIInv, NEW a \in Actors, LoadConfig(a)
  PROVE  StoreIInv'
<1>1. /\ cfgPc[a] = "load" /\ cfgMutex = Nobody
      /\ UNCHANGED <<stored, heap, cached, liveCfg, wanted, team, writeFails, loadFails>>
  BY DEF LoadConfig, cfgBounds
<1>2. \A b \in Actors : cfgPc[b] # "reading"
  BY <1>1, BootIsActor DEF StoreIInv, CfgTypeOK
<1>3. heap' \in Seq(Content) /\ Len(heap) \in Nat /\ Len(heap') = Len(heap)
      /\ writeFails' \in Nat /\ loadFails' \in Nat
  BY <1>1 DEF StoreIInv, StoreTypes
<1>4. CASE cached # 0
  <2>1. AfterLoad(a, cached) /\ UNCHANGED cfgMutex
    BY <1>4 DEF LoadConfig
  <2>2. cached \in 1..Len(heap') /\ cached' \in 1..Len(heap')
    BY <1>1, <1>3, <1>4 DEF StoreIInv, CfgTypeOK
  <2>3. OthersStay(a) /\ cfgPc'[a] \in {"toggle", "swap"}
    BY <2>1 DEF AfterLoad, Goes, StoreIInv, StoreTypes, OthersStay
  <2>4. \A b \in Actors : (cfgPc'[b] = "reading") = (cfgMutex' = b)
    BY <1>1, <1>2, <2>1, <2>3, BootIsActor DEF OthersStay
  <2>5. (Calm' => Calm) /\ (NoFaults' => NoFaults)
    BY <1>1, <2>3 DEF Calm, NoFaults, OthersStay
  <2>6. CacheInv'
    BY <1>1, <2>3, <2>5, CacheKept DEF StoreIInv
  <2> QED
    BY <1>1, <1>3, <2>1, <2>2, <2>4, <2>6, LoadEnds
<1>5. CASE cached = 0
  <2> DEFINE act == [kind |-> cfgJob[a].kind, on |-> Carried(a), rows |-> stored]
  <2>1. cfgMutex' = a /\ cfgJob' = [cfgJob EXCEPT ![a] = act] /\ cfgPc' = [cfgPc EXCEPT ![a] = "reading"]
    BY <1>5 DEF LoadConfig, Goes
  <2>2. act.kind = cfgJob[a].kind /\ act.on \in Flags /\ act.rows = stored
    BY CarriedFlag
  <2> HIDE DEF act
  <2>3. OthersStay(a) /\ cfgPc'[a] = "reading" /\ cfgJob'[a] = act
    BY <2>1 DEF StoreIInv, StoreTypes, OthersStay
  <2>4. JobTyped(a)' /\ ~WritesFlag(a)'
    BY <2>2, <2>3 DEF JobTyped, WritesFlag, StoreIInv, StoreTypes
  <2>5. StoreTypes'
    BY <1>1, <2>3 DEF StoreIInv, StoreTypes, OthersStay
  <2>6. (a = Boot /\ BootMoves) \/ (a \in Admins /\ Booted)
    BY <1>1, <2>2, <2>3, WhoLoads DEF BootMoves
  <2>7. CfgTypeOK'
    <3>1. Booted' => Booted
      BY <2>3, <2>6, BootIsActor DEF Booted, OthersStay, BootMoves
    <3>2. \A b \in Actors : (cfgPc'[b] = "reading") = (cfgMutex' = b)
      BY <1>2, <2>1, <2>3 DEF OthersStay
    <3>3. \A b \in Actors : cfgPc'[b] \in {"swap", "toggle"} => cfgJob'[b].ptr \in 1..Len(heap')
      BY <1>3, <2>3 DEF OthersStay, StoreIInv, CfgTypeOK
    <3>4. cached' \in 0..Len(heap') /\ liveCfg' \in 0..Len(heap') /\ wanted' \subseteq SUBSET AllUrls
      BY <1>1, <1>3 DEF StoreIInv, CfgTypeOK
    <3>5. Booted' => liveCfg' # 0
      BY <1>1, <3>1 DEF StoreIInv, CfgTypeOK
    <3> QED
      BY <3>2, <3>3, <3>4, <3>5 DEF CfgTypeOK
  <2>8. JobTypes' /\ BootInv'
    BY <2>3, <2>4, <2>6, JobsKept, BootKept DEF StoreIInv
  <2>9. TeamInv'
    BY <1>1, <2>2, <2>3, TeamKept DEF StoreIInv, TeamInv
  <2>10. WatchInv'
    BY <1>1, <2>3, <2>4, WatchKept DEF StoreIInv
  <2>11. CacheInv'
    <3>1. \A b \in Actors : cfgPc'[b] = "reading" => cfgJob'[b].rows = stored
      BY <1>2, <2>2, <2>3 DEF OthersStay
    <3> QED
      BY <1>1, <1>5, <3>1 DEF CacheInv
  <2> QED
    BY <2>5, <2>7, <2>8, <2>9, <2>10, <2>11 DEF StoreIInv
<1> QED
  BY <1>4, <1>5

\* Publishing frees the mutex.
LEMMA Published ==
  ASSUME StoreIInv, NEW a \in Actors, cfgPc[a] = "reading", NEW cfg \in Content, Publish(a, cfg),
         UNCHANGED <<stored, liveCfg, wanted, team>>, writeFails' \in Nat, loadFails' \in Nat,
         OneWriter /\ NoFaults' /\ Calm =>
           /\ cfg.set = loadFromDB(stored).set /\ cfg.src = loadFromDB(stored).src
           /\ cfg.prof = loadFromDB(stored).prof
  PROVE  StoreIInv'
<1>1. /\ heap' = Append(heap, cfg) /\ cached' = Len(heap) + 1 /\ cfgMutex' = Nobody
      /\ AfterLoad(a, Len(heap) + 1)
  BY DEF Publish
<1>2. heap \in Seq(Content) /\ Len(heap) \in Nat
  BY DEF StoreIInv, StoreTypes
<1>3. heap' \in Seq(Content) /\ Len(heap') = Len(heap) + 1 /\ heap'[Len(heap) + 1] = cfg
  BY <1>1, <1>2
<1>4. OthersStay(a) /\ cfgPc'[a] \in {"toggle", "swap"}
  BY <1>1 DEF AfterLoad, Goes, StoreIInv, StoreTypes, OthersStay
<1>5. \A b \in Actors \ {a} : cfgPc[b] # "reading"
  BY DEF StoreIInv, CfgTypeOK
<1>6. \A b \in Actors : cfgPc'[b] # "reading"
  BY <1>4, <1>5 DEF OthersStay
<1>7. \A b \in Actors : (cfgPc'[b] = "reading") = (cfgMutex' = b)
  BY <1>1, <1>6, BootIsActor
<1>8. Calm' => Calm
  BY <1>4 DEF Calm, OthersStay
<1>9. CacheInv'
  <2> SUFFICES ASSUME OneWriter, NoFaults', Calm
               PROVE  /\ heap'[cached'].set = loadFromDB(stored).set
                      /\ heap'[cached'].src = loadFromDB(stored).src
                      /\ heap'[cached'].prof = loadFromDB(stored).prof
    BY <1>6, <1>8 DEF CacheInv, OneWriter, OnlyOne
  <2> QED
    BY <1>1, <1>3
<1>10. Len(heap) <= Len(heap') /\ cached' \in 1..Len(heap') /\ Len(heap) + 1 \in 1..Len(heap')
  BY <1>1, <1>2, <1>3
<1> QED
  BY <1>1, <1>3, <1>7, <1>9, <1>10, LoadEnds

LEMMA ReadsTables ==
  ASSUME StoreIInv, NEW a \in Actors, loadFilterProfilesFromDB(a)
  PROVE  StoreIInv'
<1> DEFINE rows == [cfgJob[a].rows EXCEPT !.prof = stored.prof]
<1>1. cfgPc[a] = "reading" /\ Publish(a, loadFromDB(rows))
      /\ UNCHANGED <<stored, liveCfg, wanted, team, writeFails, loadFails>>
  BY DEF loadFilterProfilesFromDB, cfgBounds
<1>2. cfgJob[a].rows \in Rows
  BY <1>1 DEF StoreIInv, JobTypes, JobTyped
<1>3. rows \in Rows /\ rows.set = cfgJob[a].rows.set /\ rows.src = cfgJob[a].rows.src /\ rows.prof = stored.prof
  BY <1>2, StoredFields DEF Rows
<1> HIDE DEF rows
<1>4. loadFromDB(rows) \in Content
  BY <1>3, LoadedTyped
<1>5. OneWriter /\ NoFaults /\ Calm => rows.set = stored.set /\ rows.src = stored.src /\ rows.prof = stored.prof
  BY <1>1, <1>3 DEF StoreIInv, CacheInv
<1>6. OneWriter /\ NoFaults /\ Calm =>
        /\ loadFromDB(rows).set = loadFromDB(stored).set /\ loadFromDB(rows).src = loadFromDB(stored).src
        /\ loadFromDB(rows).prof = loadFromDB(stored).prof
  BY <1>5, LoadedFields
<1>7. (NoFaults' => NoFaults) /\ writeFails' \in Nat /\ loadFails' \in Nat
  BY <1>1 DEF NoFaults, StoreIInv, StoreTypes
<1> QED
  BY <1>1, <1>4, <1>6, <1>7, Published

LEMMA ReadFailed ==
  ASSUME StoreIInv, NEW a \in Actors, LoadFails(a)
  PROVE  StoreIInv'
<1>1. cfgPc[a] = "reading" /\ Publish(a, getDefaultConfig) /\ loadFails' = loadFails + 1
      /\ UNCHANGED <<stored, liveCfg, wanted, team, writeFails>>
  BY DEF LoadFails
<1>2. writeFails' \in Nat /\ loadFails' \in Nat /\ ~NoFaults'
  BY <1>1 DEF NoFaults, StoreIInv, StoreTypes
<1> QED
  BY <1>1, <1>2, DefaultsTyped, Published


-----------------------------------------------------------------------------
(* The objects on the heap.                                                *)

\* sp.Config is the loaded object.
LEMMA Swapped ==
  ASSUME StoreIInv, NEW a \in Actors, Swap(a)
  PROVE  StoreIInv'
<1>1. /\ cfgPc[a] = "swap" /\ liveCfg' = cfgJob[a].ptr /\ Ends(a)
      /\ UNCHANGED <<stored, heap, cached, cfgMutex, wanted, team, writeFails, loadFails>>
  BY DEF Swap, cfgBounds
<1>2. OthersStay(a) /\ cfgPc'[a] = "idle" /\ cfgJob'[a] = NoJob
  BY <1>1 DEF Ends, StoreIInv, StoreTypes, OthersStay
<1>3. JobTyped(a)' /\ ~WritesFlag(a)' /\ cfgJob'[a].kind = "none"
  BY <1>2 DEF JobTyped, WritesFlag, NoJob
<1>4. StoreTypes'
  BY <1>1, <1>2 DEF StoreIInv, StoreTypes, OthersStay
<1>5. heap' \in Seq(Content) /\ Len(heap') = Len(heap) /\ Len(heap) \in Nat
  BY <1>1 DEF StoreIInv, StoreTypes
<1>6. liveCfg' \in 1..Len(heap')
  BY <1>1, <1>5 DEF StoreIInv, CfgTypeOK
<1>7. CfgTypeOK'
  <2>1. liveCfg' \in 0..Len(heap') /\ liveCfg' # 0
    BY <1>5, <1>6
  <2>2. cached' \in 0..Len(heap') /\ wanted' \subseteq SUBSET AllUrls
    BY <1>1, <1>5 DEF StoreIInv, CfgTypeOK
  <2>3. (cfgPc'[a] = "reading") = (cfgPc[a] = "reading")
    BY <1>1, <1>2
  <2> QED
    BY <1>1, <1>2, <1>5, <2>1, <2>2, <2>3, TypeKept DEF StoreIInv
<1>8. (a = Boot /\ BootMoves) \/ (a \in Admins /\ Booted)
  BY <1>1, <1>2, WhoLoads DEF BootMoves
<1>9. JobTypes' /\ BootInv' /\ TeamInv' /\ WatchInv'
  BY <1>1, <1>2, <1>3, <1>8, JobsKept, BootKept, TeamKept, WatchKept DEF StoreIInv
<1>10. CacheInv'
  <2>1. (Calm' => Calm) /\ (NoFaults' => NoFaults)
    BY <1>1, <1>2 DEF Calm, NoFaults, OthersStay
  <2> QED
    BY <1>1, <1>2, <2>1, CacheKept DEF StoreIInv
<1> QED
  BY <1>4, <1>7, <1>9, <1>10 DEF StoreIInv

\* A step of an admin that changes an object in place.
LEMMA InPlace ==
  ASSUME StoreIInv, NEW a \in Admins, Booted, OthersStay(a), JobTyped(a)',
         heap' \in Seq(Content), Len(heap') = Len(heap),
         UNCHANGED <<stored, cached, liveCfg, cfgMutex, team, wanted, writeFails, loadFails>>,
         cfgJob'[a].kind \in {"page", "save", "toggle"} => Writes(a),
         WritesFlag(a)' => "watcher" \in cfgJob'[a].todo,
         cfgPc[a] # "reading", cfgPc'[a] \notin {"reading", "swap", "toggle"},
         CacheInv'
  PROVE  StoreIInv'
<1>1. StoreTypes'
  BY DEF StoreIInv, StoreTypes, OthersStay
<1>2. CfgTypeOK'
  <2>1. Booted' => liveCfg' # 0
    BY DEF StoreIInv, CfgTypeOK
  <2>2. Len(heap) \in Nat
    BY DEF StoreIInv, StoreTypes
  <2>3. cached' \in 0..Len(heap') /\ liveCfg' \in 0..Len(heap') /\ wanted' \subseteq SUBSET AllUrls
    BY DEF StoreIInv, CfgTypeOK
  <2> QED
    BY <2>1, <2>2, <2>3, BootIsActor, TypeKept DEF StoreIInv
<1>3. JobTypes' /\ BootInv' /\ TeamInv' /\ WatchInv'
  BY BootIsActor, JobsKept, BootKept, TeamKept, WatchKept DEF StoreIInv
<1> QED
  BY <1>1, <1>2, <1>3 DEF StoreIInv

LEMMA ObjectReplaced ==
  ASSUME StoreIInv, NEW i \in 1..Len(heap), NEW cfg \in Content
  PROVE  /\ [heap EXCEPT ![i] = cfg] \in Seq(Content) /\ Len([heap EXCEPT ![i] = cfg]) = Len(heap)
         /\ [heap EXCEPT ![i] = cfg][i] = cfg
         /\ \A j \in 1..Len(heap) : j # i => [heap EXCEPT ![i] = cfg][j] = heap[j]
BY DEF StoreIInv, StoreTypes

LEMMA WatcherPersisted ==
  ASSUME StoreIInv, NEW a \in Actors, persistWatcherConfig(a)
  PROVE  StoreIInv'
<1> DEFINE cfg == [heap[cfgJob[a].ptr] EXCEPT !.set["watcher"] = cfgJob[a].on]
           act == [kind |-> "toggle", on |-> cfgJob[a].on, set |-> cfg.set, todo |-> SettingKeys, src |-> cfg.src]
<1>1. /\ cfgPc[a] = "toggle" /\ heap' = [heap EXCEPT ![cfgJob[a].ptr] = cfg]
      /\ cfgJob' = [cfgJob EXCEPT ![a] = act] /\ cfgPc' = [cfgPc EXCEPT ![a] = "set"]
      /\ UNCHANGED <<stored, cached, liveCfg, cfgMutex, wanted, team, writeFails, loadFails>>
  BY DEF persistWatcherConfig, Goes, cfgBounds
<1>2. a \in Admins /\ Booted
  BY <1>1, AdminActs DEF StoreIInv
<1>3. cfgJob[a].kind = "toggle" /\ cfgJob[a].on \in Flags
  BY <1>1 DEF StoreIInv, JobTypes, JobTyped
<1>4. cfgJob[a].ptr \in 1..Len(heap)
  BY <1>1 DEF StoreIInv, CfgTypeOK
<1>5. heap[cfgJob[a].ptr] \in Content
  BY <1>4 DEF StoreIInv, StoreTypes
<1>6. cfg \in Content /\ cfg.set["watcher"] = cfgJob[a].on
      /\ cfg.set \in [SettingKeys -> Strings] /\ cfg.src \in Seq(Row)
  <2>1. cfgJob[a].on \in Strings
    BY <1>3 DEF Flags, Strings
  <2> QED
    BY <1>5, <2>1, ConfigAssumption DEF Content
<1> HIDE DEF cfg
<1>7. act \in ToggleJob /\ act.set["watcher"] = act.on /\ act.kind = "toggle" /\ act.todo = SettingKeys
      /\ act.on \in Flags
  BY <1>3, <1>6 DEF ToggleJob
<1> HIDE DEF act
<1>8. OthersStay(a) /\ cfgPc'[a] = "set" /\ cfgJob'[a] = act
  BY <1>1 DEF StoreIInv, StoreTypes, OthersStay
<1>9. JobTyped(a)'
  BY <1>7, <1>8 DEF JobTyped, WritesFlag
<1>10. heap' \in Seq(Content) /\ Len(heap') = Len(heap)
  BY <1>1, <1>4, <1>6, ObjectReplaced
<1>11. CacheInv'
  BY <1>8, NotCalm
<1>12. Writes(a)
  BY <1>2, <1>3 DEF StoreIInv, TeamInv
<1>13. "watcher" \in cfgJob'[a].todo
  BY <1>7, <1>8, ConfigAssumption
<1> QED
  BY <1>1, <1>2, <1>8, <1>9, <1>10, <1>11, <1>12, <1>13, InPlace

\* The flag put into the live object is the one in the tables, so that a cached live
\* object still agrees with them.
LEMMA WatcherSetLive ==
  ASSUME StoreIInv, NEW a \in Actors, SetLiveWatcher(a)
  PROVE  StoreIInv'
<1> DEFINE cfg == [heap[liveCfg] EXCEPT !.set["watcher"] = cfgJob[a].on]
<1>1. /\ cfgPc[a] = "watch" /\ Ends(a)
      /\ heap' = [heap EXCEPT ![liveCfg].set["watcher"] = cfgJob[a].on]
      /\ UNCHANGED <<stored, cached, liveCfg, cfgMutex, wanted, team, writeFails, loadFails>>
  BY DEF SetLiveWatcher, cfgBounds
<1>2. a \in Admins /\ Booted
  BY <1>1, AdminActs DEF StoreIInv
<1>3. WritesFlag(a) /\ cfgJob[a].on \in Flags /\ "watcher" \notin cfgJob[a].todo
  BY <1>1 DEF StoreIInv, JobTypes, JobTyped, WritesFlag
<1>4. liveCfg \in 1..Len(heap) /\ cached \in 0..Len(heap) /\ Len(heap) \in Nat
  BY <1>2 DEF StoreIInv, CfgTypeOK, StoreTypes
<1>5. heap[liveCfg] \in Content
  BY <1>4 DEF StoreIInv, StoreTypes
<1>6. /\ cfg \in Content /\ cfg.src = heap[liveCfg].src /\ cfg.prof = heap[liveCfg].prof
      /\ cfg.set = [heap[liveCfg].set EXCEPT !["watcher"] = cfgJob[a].on]
  <2>1. cfgJob[a].on \in Strings
    BY <1>3 DEF Flags, Strings
  <2> QED
    BY <1>5, <2>1, ConfigAssumption DEF Content
<1>7. heap' = [heap EXCEPT ![liveCfg] = cfg]
  BY <1>1
<1> HIDE DEF cfg
<1>8. /\ heap' \in Seq(Content) /\ Len(heap') = Len(heap) /\ heap'[liveCfg] = cfg
      /\ \A j \in 1..Len(heap) : j # liveCfg => heap'[j] = heap[j]
  BY <1>4, <1>6, <1>7, ObjectReplaced
<1>9. OthersStay(a) /\ cfgPc'[a] = "idle" /\ cfgJob'[a] = NoJob
  BY <1>1, <1>2, BootIsActor DEF Ends, StoreIInv, StoreTypes, OthersStay
<1>10. JobTyped(a)' /\ ~WritesFlag(a)' /\ cfgJob'[a].kind = "none"
  BY <1>9 DEF JobTyped, WritesFlag, NoJob
<1>11. ASSUME cached # 0, OneWriter, NoFaults, Calm
       PROVE  /\ heap'[cached].set = heap[cached].set /\ heap'[cached].src = heap[cached].src
              /\ heap'[cached].prof = heap[cached].prof
  <2>1. CASE cached # liveCfg
    BY <1>4, <1>8, <1>11, <2>1
  <2>2. CASE cached = liveCfg
    <3>1. stored.set["watcher"] = cfgJob[a].on
      BY <1>2, <1>3, <1>11 DEF StoreIInv, WatchInv
    <3>2. heap[liveCfg].set = loadFromDB(stored).set
      BY <1>11, <2>2 DEF StoreIInv, CacheInv
    <3>3. loadFromDB(stored).set["watcher"] = cfgJob[a].on
      BY <1>3, <3>1, ConfigAssumption DEF loadFromDB, Flags, Unset
    <3>4. heap[liveCfg].set["watcher"] = cfgJob[a].on /\ heap[liveCfg].set \in [SettingKeys -> Strings]
      BY <1>5, <3>2, <3>3 DEF Content
    <3>5. cfg.set = heap[liveCfg].set
      BY <1>6, <3>4
    <3> QED
      BY <1>6, <1>8, <2>2, <3>5
  <2> QED
    BY <2>1, <2>2
<1>12. CacheInv'
  <2>1. (Calm' => Calm) /\ (NoFaults' => NoFaults)
    BY <1>1, <1>9 DEF Calm, NoFaults, OthersStay
  <2> QED
    BY <1>1, <1>2, <1>9, <1>11, <2>1, CacheKept DEF StoreIInv
<1> QED
  BY <1>1, <1>2, <1>8, <1>9, <1>10, <1>12, InPlace

LEMMA RowsSetLive ==
  ASSUME StoreIInv, NEW a \in Actors, NEW t \in Tables, RowsAssigned(a, t)
  PROVE  StoreIInv'
<1> DEFINE cfg == [heap[liveCfg] EXCEPT !.tab[t] = cfgJob[a].rows]
<1>1. /\ cfgPc[a] = "assign" /\ Ends(a)
      /\ heap' = [heap EXCEPT ![liveCfg].tab[t] = cfgJob[a].rows]
      /\ UNCHANGED <<stored, cached, liveCfg, cfgMutex, wanted, team, writeFails, loadFails>>
  BY DEF RowsAssigned, cfgBounds
<1>2. a \in Admins /\ Booted
  BY <1>1, AdminActs DEF StoreIInv
<1>3. cfgJob[a].rows \in SUBSET Nat
  BY <1>1 DEF StoreIInv, JobTypes, JobTyped
<1>4. liveCfg \in 1..Len(heap) /\ cached \in 0..Len(heap) /\ Len(heap) \in Nat
  BY <1>2 DEF StoreIInv, CfgTypeOK, StoreTypes
<1>5. heap[liveCfg] \in Content
  BY <1>4 DEF StoreIInv, StoreTypes
<1>6. /\ cfg \in Content /\ cfg.set = heap[liveCfg].set /\ cfg.src = heap[liveCfg].src
      /\ cfg.prof = heap[liveCfg].prof
  BY <1>3, <1>5 DEF Content
<1>7. heap' = [heap EXCEPT ![liveCfg] = cfg]
  BY <1>1
<1> HIDE DEF cfg
<1>8. /\ heap' \in Seq(Content) /\ Len(heap') = Len(heap) /\ heap'[liveCfg] = cfg
      /\ \A j \in 1..Len(heap) : j # liveCfg => heap'[j] = heap[j]
  BY <1>4, <1>6, <1>7, ObjectReplaced
<1>9. OthersStay(a) /\ cfgPc'[a] = "idle" /\ cfgJob'[a] = NoJob
  BY <1>1, <1>2, BootIsActor DEF Ends, StoreIInv, StoreTypes, OthersStay
<1>10. JobTyped(a)' /\ ~WritesFlag(a)' /\ cfgJob'[a].kind = "none"
  BY <1>9 DEF JobTyped, WritesFlag, NoJob
<1>11. cached # 0 => /\ heap'[cached].set = heap[cached].set /\ heap'[cached].src = heap[cached].src
                     /\ heap'[cached].prof = heap[cached].prof
  BY <1>4, <1>6, <1>8
<1>12. CacheInv'
  <2>1. (Calm' => Calm) /\ (NoFaults' => NoFaults)
    BY <1>1, <1>9 DEF Calm, NoFaults, OthersStay
  <2> QED
    BY <1>1, <1>2, <1>9, <1>11, <2>1, CacheKept DEF StoreIInv
<1> QED
  BY <1>1, <1>2, <1>8, <1>9, <1>10, <1>12, InPlace


-----------------------------------------------------------------------------
(* Boot, and all steps together.                                           *)

LEMMA Migrates ==
  ASSUME StoreIInv, MigrateFromJSON
  PROVE  StoreIInv'
<1> DEFINE full == [kind |-> "boot", set |-> JsonDoc.set, todo |-> SettingKeys, src |-> JsonDoc.src]
           bare == [kind |-> "boot"]
<1>1. cfgPc[Boot] = "boot" /\ UNCHANGED <<stored, heap, cached, liveCfg, cfgMutex, wanted, team, writeFails, loadFails>>
  BY DEF MigrateFromJSON, cfgBounds
<1>2. cached = 0
  BY <1>1 DEF StoreIInv, BootInv
<1>3. wanted' \subseteq SUBSET AllUrls /\ writeFails' \in Nat /\ loadFails' \in Nat /\ (NoFaults' => NoFaults)
  BY <1>1 DEF StoreIInv, CfgTypeOK, StoreTypes, NoFaults
<1>4. PICK act \in {full, bare} : /\ cfgJob' = [cfgJob EXCEPT ![Boot] = act]
                                  /\ cfgPc' = [cfgPc EXCEPT ![Boot] = IF act = full THEN "set" ELSE "load"]
                                  /\ act = full \/ act = bare
  <2>1. full # bare
    <3>1. DOMAIN full # DOMAIN bare
      <4>1. "set" \in DOMAIN full /\ "set" \notin DOMAIN bare
        OBVIOUS
      <4> QED
        BY <4>1
    <3> QED
      BY <3>1
  <2>2. (cfgJob' = [cfgJob EXCEPT ![Boot] = full] /\ cfgPc' = [cfgPc EXCEPT ![Boot] = "set"])
        \/ (cfgJob' = [cfgJob EXCEPT ![Boot] = bare] /\ cfgPc' = [cfgPc EXCEPT ![Boot] = "load"])
    BY DEF MigrateFromJSON, Goes
  <2> HIDE DEF full, bare
  <2> QED
    BY <2>1, <2>2
<1>5. full \in SaveJob /\ full.kind = "boot" /\ bare.kind = "boot"
  BY ConfigAssumption DEF SaveJob
<1> HIDE DEF full, bare
<1>6. /\ OthersStay(Boot) /\ cfgJob'[Boot] = act /\ cfgJob'[Boot].kind = "boot"
      /\ cfgPc'[Boot] = IF act = full THEN "set" ELSE "load"
  BY <1>4, <1>5, BootIsActor DEF StoreIInv, StoreTypes, OthersStay
<1>7. JobTyped(Boot)' /\ ~WritesFlag(Boot)'
  BY <1>4, <1>5, <1>6 DEF JobTyped, WritesFlag
<1>8. BootMoves /\ cfgPc'[Boot] # "idle"
  BY <1>1, <1>2, <1>6 DEF BootMoves, Booted
<1>9. Calm' => Calm
  BY <1>1, <1>6 DEF Calm, OthersStay
<1> QED
  BY <1>1, <1>3, <1>6, <1>7, <1>8, <1>9, BootIsActor, NothingWritten

LEMMA JSONRenamed ==
  ASSUME StoreIInv, NEW r \in BOOLEAN, RenameJSON(r)
  PROVE  StoreIInv'
<1>1. /\ cfgPc[Boot] = "insert" /\ stored' = [stored EXCEPT !.tab = JsonDoc.tab]
      /\ cfgPc' = [cfgPc EXCEPT ![Boot] = "load"]
      /\ UNCHANGED <<heap, cached, liveCfg, cfgMutex, cfgJob, wanted, team, writeFails, loadFails>>
  BY DEF RenameJSON, Goes, cfgBounds
<1>2. cached = 0 /\ cfgJob[Boot].kind = "boot" /\ \A b \in Admins : cfgPc[b] = "idle"
  BY <1>1 DEF StoreIInv, BootInv, Booted
<1>3. OthersStay(Boot) /\ cfgPc'[Boot] = "load" /\ cfgJob'[Boot] = cfgJob[Boot]
  BY <1>1, BootIsActor DEF StoreIInv, StoreTypes, OthersStay
<1>4. JobTyped(Boot)' /\ ~WritesFlag(Boot)'
  BY <1>2, <1>3 DEF JobTyped, WritesFlag
<1>5. stored' \in Rows /\ stored'.set = stored.set
  BY <1>1, StoredFields, ConfigAssumption DEF Rows
<1>6. BootMoves
  BY <1>1, <1>2, <1>3 DEF BootMoves, Booted
<1>7. CacheInv'
  <2>1. \A b \in Actors : cfgPc'[b] # "reading"
    BY <1>2, <1>3 DEF OthersStay, Actors
  <2> QED
    BY <1>1, <1>2, <2>1 DEF CacheInv
<1> QED
  BY <1>1, <1>3, <1>4, <1>5, <1>6, <1>7, BootIsActor, RowsStep

\* Everything in memory is as at the first start.
LEMMA StartsEmpty ==
  ASSUME stored \in Rows, heap = <<>>, cached = 0, liveCfg = 0, cfgMutex = Nobody,
         cfgPc = [a \in Actors |-> IF a = Boot THEN "boot" ELSE "idle"],
         cfgJob = [a \in Actors |-> NoJob],
         writeFails \in Nat, loadFails \in Nat, wanted \subseteq SUBSET AllUrls
  PROVE  StoreIInv
<1>1. /\ \A a \in Actors : cfgPc[a] \in {"boot", "idle"} /\ cfgJob[a].kind = "none"
      /\ cfgPc[Boot] = "boot" /\ \A a \in Admins : cfgPc[a] = "idle"
  BY BootIsActor DEF NoJob
<1>2. StoreTypes
  BY DEF StoreTypes
<1>3. CfgTypeOK
  BY <1>1, BootIsActor DEF CfgTypeOK, Booted
<1>4. JobTypes
  BY <1>1 DEF JobTypes, JobTyped, WritesFlag
<1>5. BootInv /\ TeamInv /\ WatchInv
  BY <1>1, BootIsActor DEF BootInv, TeamInv, WatchInv, WritesFlag
<1>6. CacheInv
  BY <1>1 DEF CacheInv
<1> QED
  BY <1>2, <1>3, <1>4, <1>5, <1>6 DEF StoreIInv

LEMMA ConfigStarts == ConfigInit => StoreIInv
<1> SUFFICES ASSUME ConfigInit PROVE StoreIInv
  OBVIOUS
<1>1. stored \in Rows
  <2>1. [k \in SettingKeys |-> Unset] \in [SettingKeys -> Strings]
    BY DEF Strings
  <2>2. [t \in Tables |-> {}] \in [Tables -> SUBSET Nat] /\ <<>> \in Seq(Row) /\ {} \in SUBSET Profile
    OBVIOUS
  <2>3. stored = [set |-> [k \in SettingKeys |-> Unset], src |-> <<>>, prof |-> {},
                  tab |-> [t \in Tables |-> {}], next |-> 1]
    BY DEF ConfigInit
  <2> QED
    BY <2>1, <2>2, <2>3 DEF Rows
<1>2. wanted \subseteq SUBSET AllUrls
  BY ConfigAssumption, UrlsKnown DEF ConfigInit
<1> QED
  BY <1>1, <1>2, StartsEmpty DEF ConfigInit

LEMMA Crashes ==
  ASSUME StoreIInv, Crash
  PROVE  StoreIInv'
<1>1. /\ stored' \in Rows /\ writeFails' \in Nat /\ loadFails' \in Nat /\ wanted' \subseteq SUBSET AllUrls
      /\ heap' = <<>> /\ cached' = 0 /\ liveCfg' = 0 /\ cfgMutex' = Nobody
      /\ cfgPc' = [a \in Actors |-> IF a = Boot THEN "boot" ELSE "idle"]
      /\ cfgJob' = [a \in Actors |-> NoJob]
  BY DEF Crash, StoreIInv, StoreTypes, CfgTypeOK
<1>2. (stored \in Rows /\ heap = <<>> /\ cached = 0 /\ liveCfg = 0 /\ cfgMutex = Nobody
       /\ cfgPc = [a \in Actors |-> IF a = Boot THEN "boot" ELSE "idle"]
       /\ cfgJob = [a \in Actors |-> NoJob]
       /\ writeFails \in Nat /\ loadFails \in Nat /\ wanted \subseteq SUBSET AllUrls => StoreIInv)'
  BY StartsEmpty, PTL
<1> QED
  BY <1>1, <1>2

LEMMA RequestsKeep ==
  ASSUME StoreIInv, NEW a \in Admins, Requests(a)
  PROVE  StoreIInv'
<1>1. CASE \E d \in Docs : handleSetConfig(a, d)
  BY <1>1, Saves
<1>2. CASE \E v \in {"on", "off"} : handleToggleWatcher(a, v)
  BY <1>2, Toggles
<1>3. CASE RunRestartLoop(a)
  BY <1>3, Restarts
<1>4. CASE handleGetConfig(a)
  BY <1>4, ReadsPage
<1>5. CASE \E n \in ProfileNames : handleCreateFilterProfile(a, n)
  BY <1>5, Creates
<1>6. CASE \E p \in stored.prof, n \in ProfileNames : handleUpdateFilterProfile(a, p, n)
  BY <1>6, Renames
<1>7. CASE \E p \in stored.prof, f \in BOOLEAN : handleDeleteFilterProfile(a, p, f)
  BY <1>7, DeleteRequested
<1>8. CASE handleXCAccount(a) \/ handleEPG(a) \/ handleSDAccount(a)
  <2>1. PICK t \in Tables, rows \in SUBSET Nat : RowWritten(a, t, rows)
    BY <1>8, TablesAre DEF handleXCAccount, handleEPG, handleSDAccount
  <2> QED
    BY <2>1, WritesRow
<1> QED
  BY <1>1, <1>2, <1>3, <1>4, <1>5, <1>6, <1>7, <1>8 DEF Requests

LEMMA StepsKeep ==
  ASSUME StoreIInv, NEW a \in Actors, Steps(a)
  PROVE  StoreIInv'
<1>1. CASE \E k \in SettingKeys : SetSetting(a, k)
  BY <1>1, SettingWritten
<1>2. CASE PostBack(a) \/ Wipe(a) \/ InsertSource(a) \/ Persisted(a)
  BY <1>2, PostsBack, SourcesWiped, SourceInserted, EndsWriting
<1>3. CASE ClearConfigCache(a) \/ LoadConfig(a) \/ loadFilterProfilesFromDB(a) \/ Swap(a)
  BY <1>3, CacheCleared, Loads, ReadsTables, Swapped
<1>4. CASE persistWatcherConfig(a) \/ SetLiveWatcher(a) \/ DeleteFilterProfile(a) \/ replaceSDLineups(a)
  BY <1>4, WatcherPersisted, WatcherSetLive, Deletes, WritesLineups
<1>5. CASE GetAllXCAccounts(a) \/ GetAllEPGs(a) \/ GetAllSDAccountsWithLineups(a)
  BY <1>5, TablesAre, ReadsRows DEF GetAllXCAccounts, GetAllEPGs, GetAllSDAccountsWithLineups
<1>6. CASE reloadXCAccounts(a) \/ reloadEPGs(a) \/ reloadSDAccounts(a)
  BY <1>6, TablesAre, RowsSetLive DEF reloadXCAccounts, reloadEPGs, reloadSDAccounts
<1> QED
  BY <1>1, <1>2, <1>3, <1>4, <1>5, <1>6 DEF Steps

LEMMA StoreUnchanged ==
  ASSUME StoreIInv, UNCHANGED cfgVars
  PROVE  StoreIInv'
<1>1. UNCHANGED <<stored, heap, cached, liveCfg, cfgMutex, cfgPc, cfgJob, team, writeFails, loadFails, wanted>>
  BY DEF cfgVars
<1>2. CfgTypeOK' /\ StoreTypes'
  BY <1>1 DEF StoreIInv, CfgTypeOK, StoreTypes, Booted
<1>3. JobTypes' /\ BootInv' /\ TeamInv' /\ WatchInv'
  BY <1>1 DEF StoreIInv, JobTypes, JobTyped, WritesFlag, BootInv, Booted, TeamInv, Writes, WatchInv,
    OneWriter, OnlyOne
<1>4. CacheInv'
  BY <1>1 DEF StoreIInv, CacheInv, OneWriter, OnlyOne, NoFaults, Calm
<1> QED
  BY <1>2, <1>3, <1>4 DEF StoreIInv

LEMMA StoreInductive ==
  ASSUME StoreIInv, [ConfigNext]_cfgVars
  PROVE  StoreIInv'
<1>1. CASE \E a \in Admins : Requests(a)
  BY <1>1, RequestsKeep
<1>2. CASE \E a \in Actors : Steps(a) \/ WriteFails(a) \/ LoadFails(a)
  BY <1>2, StepsKeep, WriteFailed, ReadFailed
<1>3. CASE MigrateFromJSON \/ (\E r \in BOOLEAN : RenameJSON(r)) \/ Crash
  BY <1>3, Migrates, JSONRenamed, Crashes
<1>4. CASE UNCHANGED cfgVars
  BY <1>4, StoreUnchanged
<1> QED
  BY <1>1, <1>2, <1>3, <1>4 DEF ConfigNext

LEMMA CacheFollows == StoreIInv => StoredIsRead
<1> SUFFICES ASSUME StoreIInv, OneWriter, CfgQuiet, cached # 0, NoFaults
             PROVE  /\ heap[cached].set = loadFromDB(stored).set
                    /\ heap[cached].src = loadFromDB(stored).src
                    /\ heap[cached].prof = loadFromDB(stored).prof
  BY DEF StoreIInv, StoredIsRead, CacheIsStored, CacheAgrees
<1>1. Calm
  BY DEF CfgQuiet, Calm
<1> QED
  BY <1>1 DEF StoreIInv, CacheInv

\* For any documents, settings, profiles and teams of admins, and any faults: requests read
\* only objects that exist, the mutex is held exactly while somebody reads the tables, and
\* with one admin writing a cached configuration that nobody is changing is the one in the
\* tables (StoredIsRead).
THEOREM StoredIsAlwaysRead == ConfigSpec => []StoredIsRead
<1>1. ConfigInit => StoreIInv
  BY ConfigStarts
<1>2. StoreIInv /\ [ConfigNext]_cfgVars => StoreIInv'
  BY StoreInductive
<1>3. StoreIInv => StoredIsRead
  BY CacheFollows
<1> QED
  BY <1>1, <1>2, <1>3, PTL DEF ConfigSpec

(***************************************************************************)
(* What the providers promise.  A list stays as good as the documents were *)
(* (FineInv), a written key has a value (KeysInv), who is in the middle of *)
(* what is known (WorkInv); then one writer decides alone which sources    *)
(* are configured (WantedInv) and which profiles they name (ProfileInv),   *)
(* and one admin by itself works with what the tables give (LiveInv).      *)
(* First what each step does, then that it keeps the six.                  *)
(***************************************************************************)

-----------------------------------------------------------------------------
(* Lists of sources.                                                       *)

\* Reading the rows by their order is a permutation of them into an ascending list.
LEMMA ReadPermutes ==
  ASSUME NEW src \in Seq(Row)
  PROVE  \E at \in [DOMAIN src -> DOMAIN src] :
           /\ GetAllSources(src) = [n \in DOMAIN src |-> src[at[n]]]
           /\ \A n, m \in DOMAIN src : n # m => at[n] # at[m]
           /\ \A i \in DOMAIN src : \E n \in DOMAIN src : at[n] = i
           /\ \A n, m \in DOMAIN src : n < m => src[at[n]].order <= src[at[m]].order
<1> DEFINE N == Len(src)
           key == [i \in 1..N |-> src[i].order]
           at == [n \in 1..N |-> CHOOSE i \in 1..N : Cardinality(rowsBefore(src, i)) = n - 1]
<1>1. N \in Nat /\ DOMAIN src = 1..N /\ \A i \in 1..N : src[i] \in Row
  OBVIOUS
<1>2. \A i \in 1..N : src[i].order \in Int
  BY <1>1 DEF Row
<1>3. GetAllSources(src) = [n \in 1..N |-> src[at[n]]]
  BY <1>1 DEF GetAllSources
<1> HIDE DEF N
<1>4. key \in [1..N -> Int] /\ \A i \in 1..N : key[i] = src[i].order
  BY <1>2
<1> HIDE DEF key
<1>5. \A i \in 1..N : rowsBefore(src, i) = ranksBefore(key, i)
  BY <1>1, <1>4 DEF rowsBefore, ranksBefore
<1>6. \A i \in 1..N : Cardinality(rowsBefore(src, i)) = RankOf(key, i)
  BY <1>5 DEF RankOf
<1>7. /\ \A i \in 1..N : RankOf(key, i) \in 0..(N - 1)
      /\ \A i, j \in 1..N : key[i] < key[j] => RankOf(key, i) < RankOf(key, j)
      /\ \A i, j \in 1..N : i # j => RankOf(key, i) # RankOf(key, j)
      /\ \A n \in 1..N : \E i \in 1..N : RankOf(key, i) = n - 1
  BY <1>1, <1>4, RanksAre
<1>8. \A n \in 1..N : at[n] \in 1..N /\ RankOf(key, at[n]) = n - 1
  BY <1>6, <1>7
<1> HIDE DEF at
<1>9. at \in [1..N -> 1..N]
  BY <1>8 DEF at
<1>10. \A n, m \in 1..N : n # m => at[n] # at[m]
  BY <1>1, <1>8
<1>11. \A i \in 1..N : \E n \in 1..N : at[n] = i
  <2> SUFFICES ASSUME NEW i \in 1..N PROVE \E n \in 1..N : at[n] = i
    OBVIOUS
  <2> DEFINE n == RankOf(key, i) + 1
  <2>1. RankOf(key, i) \in 0..(N - 1)
    BY <1>7
  <2>2. n \in 1..N /\ n - 1 = RankOf(key, i)
    BY <1>1, <2>1
  <2> HIDE DEF n
  <2>3. at[n] \in 1..N /\ RankOf(key, at[n]) = RankOf(key, i)
    BY <1>8, <2>2
  <2>4. at[n] = i
    BY <1>7, <2>3
  <2> QED
    BY <2>2, <2>4
<1>12. ASSUME NEW n \in 1..N, NEW m \in 1..N, n < m
       PROVE  src[at[n]].order <= src[at[m]].order
  <2>1. at[n] \in 1..N /\ at[m] \in 1..N /\ RankOf(key, at[n]) = n - 1 /\ RankOf(key, at[m]) = m - 1
    BY <1>8
  <2>2. ASSUME key[at[m]] < key[at[n]] PROVE FALSE
    <3>1. RankOf(key, at[m]) < RankOf(key, at[n])
      BY <1>7, <2>1, <2>2
    <3>2. m - 1 < n - 1
      BY <2>1, <3>1
    <3> QED
      BY <1>1, <1>12, <3>2
  <2> QED
    BY <1>2, <1>4, <2>1, <2>2
<1> QED
  BY <1>1, <1>3, <1>9, <1>10, <1>11, <1>12

Ascends(src) == \A n, m \in DOMAIN src : n < m => src[n].order <= src[m].order

LEMMA AscendingStays ==
  ASSUME NEW src \in Seq(Row), Ascends(src)
  PROVE  GetAllSources(src) = src
<1> DEFINE N == Len(src)
<1>1. N \in Nat /\ DOMAIN src = 1..N /\ \A i \in 1..N : src[i] \in Row
  OBVIOUS
<1>2. \A i \in 1..N : src[i].order \in Int
  BY <1>1 DEF Row
<1>3. src = [n \in 1..N |-> src[n]]
  OBVIOUS
<1> HIDE DEF N
<1>4. ASSUME NEW i \in 1..N PROVE Cardinality(rowsBefore(src, i)) = i - 1
  <2>1. rowsBefore(src, i) = 1..(i - 1)
    BY <1>1, <1>2 DEF rowsBefore, Ascends
  <2>2. Cardinality(1..(i - 1)) = i - 1
    BY <1>1, FS_Interval
  <2> QED
    BY <2>1, <2>2
<1>5. ASSUME NEW n \in 1..N PROVE (CHOOSE i \in 1..N : Cardinality(rowsBefore(src, i)) = n - 1) = n
  <2>1. \A i \in 1..N : Cardinality(rowsBefore(src, i)) = n - 1 <=> i = n
    BY <1>1, <1>4
  <2> QED
    BY <2>1
<1> QED
  BY <1>1, <1>3, <1>5 DEF GetAllSources

LEMMA ValidatedFields ==
  ASSUME NEW src \in Seq(Row), NEW n \in DOMAIN src
  PROVE  LET v == validateAndSetDefaults(src) IN
         /\ v[n] = [src[n] EXCEPT !.name = IF @ = 0 THEN n ELSE @, !.order = IF @ <= 0 THEN n ELSE @]
         /\ v[n].url = src[n].url /\ v[n].prof = src[n].prof
         /\ v[n].name = (IF src[n].name = 0 THEN n ELSE src[n].name)
         /\ v[n].order = (IF src[n].order <= 0 THEN n ELSE src[n].order)
         /\ v[n].name # 0 /\ v[n].order > 0
<1>1. src[n] \in Row /\ n \in Nat \ {0}
  OBVIOUS
<1>2. src[n].name \in Nat /\ src[n].order \in Int
  BY <1>1 DEF Row
<1>3. validateAndSetDefaults(src)[n] =
        [src[n] EXCEPT !.name = IF @ = 0 THEN n ELSE @, !.order = IF @ <= 0 THEN n ELSE @]
  BY DEF validateAndSetDefaults
<1>4. /\ validateAndSetDefaults(src)[n].url = src[n].url /\ validateAndSetDefaults(src)[n].prof = src[n].prof
      /\ validateAndSetDefaults(src)[n].name = (IF src[n].name = 0 THEN n ELSE src[n].name)
      /\ validateAndSetDefaults(src)[n].order = (IF src[n].order <= 0 THEN n ELSE src[n].order)
  BY <1>1, <1>3 DEF Row
<1> QED
  BY <1>1, <1>2, <1>3, <1>4

LEMMA ValidStays ==
  ASSUME NEW src \in Seq(Row), \A n \in DOMAIN src : src[n].name # 0 /\ src[n].order > 0
  PROVE  validateAndSetDefaults(src) = src
<1>1. \A n \in DOMAIN src : src[n] \in Row
  OBVIOUS
<1>2. \A n \in DOMAIN src :
        [src[n] EXCEPT !.name = IF @ = 0 THEN n ELSE @, !.order = IF @ <= 0 THEN n ELSE @] = src[n]
  <2> SUFFICES ASSUME NEW n \in DOMAIN src
               PROVE  [src[n] EXCEPT !.name = IF @ = 0 THEN n ELSE @, !.order = IF @ <= 0 THEN n ELSE @] = src[n]
    OBVIOUS
  <2>1. src[n] \in Row /\ src[n].order \in Int /\ ~(src[n].order <= 0) /\ src[n].name # 0
    BY <1>1 DEF Row
  <2> QED
    BY <2>1 DEF Row
<1>3. src = [n \in DOMAIN src |-> src[n]]
  OBVIOUS
<1> QED
  BY <1>2, <1>3 DEF validateAndSetDefaults

\* What a load makes of the rows: a permutation with names and orders filled in.
LEMMA SeesFields ==
  ASSUME NEW src \in Seq(Row)
  PROVE  /\ Sees(src) \in Seq(Row)
         /\ \E at \in [DOMAIN src -> DOMAIN src] :
              /\ DOMAIN Sees(src) = DOMAIN src
              /\ \A n, m \in DOMAIN src : n # m => at[n] # at[m]
              /\ \A i \in DOMAIN src : \E n \in DOMAIN src : at[n] = i
              /\ \A n, m \in DOMAIN src : n < m => src[at[n]].order <= src[at[m]].order
              /\ \A n \in DOMAIN src :
                   /\ Sees(src)[n].url = src[at[n]].url /\ Sees(src)[n].prof = src[at[n]].prof
                   /\ Sees(src)[n].name = (IF src[at[n]].name = 0 THEN n ELSE src[at[n]].name)
                   /\ Sees(src)[n].order = (IF src[at[n]].order <= 0 THEN n ELSE src[at[n]].order)
                   /\ Sees(src)[n].name # 0 /\ Sees(src)[n].order > 0
<1> DEFINE r == GetAllSources(src)
<1>1. r \in Seq(Row)
  BY SourcesRead
<1>2. PICK at \in [DOMAIN src -> DOMAIN src] :
        /\ r = [n \in DOMAIN src |-> src[at[n]]]
        /\ \A n, m \in DOMAIN src : n # m => at[n] # at[m]
        /\ \A i \in DOMAIN src : \E n \in DOMAIN src : at[n] = i
        /\ \A n, m \in DOMAIN src : n < m => src[at[n]].order <= src[at[m]].order
  BY ReadPermutes
<1>3. DOMAIN r = DOMAIN src /\ \A n \in DOMAIN src : r[n] = src[at[n]]
  BY <1>2
<1> HIDE DEF r
<1>4. Sees(src) = validateAndSetDefaults(r)
  BY DEF Sees, r
<1>5. Sees(src) \in Seq(Row) /\ DOMAIN Sees(src) = DOMAIN src
  <2>1. validateAndSetDefaults(r) \in Seq(Row)
    BY <1>1, SourcesValidated
  <2>2. DOMAIN validateAndSetDefaults(r) = DOMAIN r
    BY DEF validateAndSetDefaults
  <2> QED
    BY <1>3, <1>4, <2>1, <2>2
<1>6. ASSUME NEW n \in DOMAIN src
      PROVE  /\ Sees(src)[n].url = src[at[n]].url /\ Sees(src)[n].prof = src[at[n]].prof
             /\ Sees(src)[n].name = (IF src[at[n]].name = 0 THEN n ELSE src[at[n]].name)
             /\ Sees(src)[n].order = (IF src[at[n]].order <= 0 THEN n ELSE src[at[n]].order)
             /\ Sees(src)[n].name # 0 /\ Sees(src)[n].order > 0
  <2>1. n \in DOMAIN r /\ r[n] = src[at[n]]
    BY <1>3
  <2> DEFINE v == validateAndSetDefaults(r)
  <2>2. /\ v[n].url = r[n].url /\ v[n].prof = r[n].prof
        /\ v[n].name = (IF r[n].name = 0 THEN n ELSE r[n].name)
        /\ v[n].order = (IF r[n].order <= 0 THEN n ELSE r[n].order)
        /\ v[n].name # 0 /\ v[n].order > 0
    BY <1>1, <2>1, ValidatedFields
  <2> HIDE DEF v
  <2>3. Sees(src)[n] = v[n]
    BY <1>4 DEF v
  <2> QED
    BY <2>1, <2>2, <2>3
<1> QED
  BY <1>2, <1>5, <1>6

LEMMA SeesSame ==
  ASSUME NEW src \in Seq(Row)
  PROVE  UrlsOf(Sees(src)) = UrlsOf(src) /\ Named(Sees(src)) = Named(src)
<1>1. PICK at \in [DOMAIN src -> DOMAIN src] :
        /\ DOMAIN Sees(src) = DOMAIN src
        /\ \A i \in DOMAIN src : \E n \in DOMAIN src : at[n] = i
        /\ \A n \in DOMAIN src : Sees(src)[n].url = src[at[n]].url /\ Sees(src)[n].prof = src[at[n]].prof
  BY SeesFields
<1> DEFINE D == DOMAIN src
           v == Sees(src)
<1>4. \A n \in D : at[n] \in D /\ v[n].url = src[at[n]].url /\ v[n].prof = src[at[n]].prof
  BY <1>1
<1>5. \A i \in D : \E n \in D : at[n] = i
  BY <1>1
<1>6. DOMAIN v = D
  BY <1>1
<1> HIDE DEF v, D
<1>2. {v[n].url : n \in D} = {src[i].url : i \in D}
  <2>1. \A n \in D : v[n].url \in {src[i].url : i \in D}
    BY <1>4
  <2>2. ASSUME NEW i \in D PROVE src[i].url \in {v[n].url : n \in D}
    <3>1. PICK n \in D : at[n] = i
      BY <1>5
    <3>2. v[n].url = src[i].url
      BY <1>4, <3>1
    <3> QED
      BY <3>2
  <2> QED
    BY <2>1, <2>2
<1>3. {v[n].prof : n \in D} = {src[i].prof : i \in D}
  <2>1. \A n \in D : v[n].prof \in {src[i].prof : i \in D}
    BY <1>4
  <2>2. ASSUME NEW i \in D PROVE src[i].prof \in {v[n].prof : n \in D}
    <3>1. PICK n \in D : at[n] = i
      BY <1>5
    <3>2. v[n].prof = src[i].prof
      BY <1>4, <3>1
    <3> QED
      BY <3>2
  <2> QED
    BY <2>1, <2>2
<1> QED
  BY <1>6, <1>2, <1>3 DEF UrlsOf, Named, v, D

\* A list read from the tables is one whose reading changes nothing, if the orders fit.
LEMMA UnorderedFinite ==
  ASSUME NEW src \in Seq(Row)
  PROVE  /\ IsFiniteSet(Unordered(src)) /\ Cardinality(Unordered(src)) \in Nat
         /\ \A i \in DOMAIN src : src[i].order \in Int /\ src[i].name \in Nat
<1>1. Len(src) \in Nat /\ DOMAIN src = 1..Len(src) /\ \A i \in DOMAIN src : src[i] \in Row
  OBVIOUS
<1>2. IsFiniteSet(1..Len(src)) /\ Unordered(src) \subseteq 1..Len(src)
  <2>1. IsFiniteSet(1..Len(src))
    BY <1>1, FS_Interval
  <2>2. Unordered(src) \subseteq DOMAIN src
    BY DEF Unordered
  <2> QED
    BY <1>1, <2>1, <2>2
<1>3. IsFiniteSet(Unordered(src))
  BY <1>2, FS_Subset
<1> QED
  BY <1>1, <1>3, FS_CardinalityType DEF Row

LEMMA InjectiveImage ==
  ASSUME NEW n \in Nat, NEW S, IsFiniteSet(S), NEW f \in [1..n -> S], \A i, j \in 1..n : i # j => f[i] # f[j]
  PROVE  n <= Cardinality(S)
<1>1. f \in Injection(1..n, S)
  BY DEF Injection, IsInjective
<1>2. IsFiniteSet(1..n) /\ Cardinality(1..n) = n
  BY FS_Interval
<1> QED
  BY <1>1, <1>2, FS_Injection

LEMMA ReadAgain ==
  ASSUME NEW src \in Seq(Row), OrdersFit(src)
  PROVE  Sees(Sees(src)) = Sees(src)
<1> DEFINE v == Sees(src)
           D == DOMAIN src
           U == Unordered(src)
<1>1. PICK at \in [D -> D] :
        /\ DOMAIN v = D
        /\ \A n, m \in D : n # m => at[n] # at[m]
        /\ \A n, m \in D : n < m => src[at[n]].order <= src[at[m]].order
        /\ \A n \in D : /\ v[n].order = (IF src[at[n]].order <= 0 THEN n ELSE src[at[n]].order)
                        /\ v[n].name # 0 /\ v[n].order > 0
  BY SeesFields
<1>2. v \in Seq(Row)
  BY SeesFields
<1>3. Len(src) \in Nat /\ D = 1..Len(src)
  OBVIOUS
<1>4. /\ IsFiniteSet(U) /\ Cardinality(U) \in Nat
      /\ \A i \in D : src[i].order \in Int
      /\ \A i \in D : i \in U <=> src[i].order <= 0
      /\ \A i \in D : src[i].order > 0 => src[i].order >= Cardinality(U)
  BY UnorderedFinite DEF OrdersFit, Unordered
<1> HIDE DEF v, D, U
<1>5. ASSUME NEW n \in D, src[at[n]].order <= 0 PROVE n <= Cardinality(U)
  <2> DEFINE f == [i \in 1..n |-> at[i]]
  <2>1. n \in Nat /\ 1..n \subseteq D
    BY <1>3
  <2>2. \A i \in 1..n : at[i] \in D /\ src[at[i]].order <= src[at[n]].order
    <3> SUFFICES ASSUME NEW i \in 1..n PROVE at[i] \in D /\ src[at[i]].order <= src[at[n]].order
      OBVIOUS
    <3>1. i \in D /\ at[i] \in D /\ at[n] \in D /\ src[at[n]].order \in Int
      BY <1>4, <2>1
    <3>2. CASE i = n
      BY <3>1, <3>2
    <3>3. CASE i # n
      <4>1. i < n
        BY <2>1, <3>3
      <4> QED
        BY <1>1, <3>1, <4>1
    <3> QED
      BY <3>2, <3>3
  <2>3. \A i \in 1..n : src[at[i]].order <= 0
    <3> SUFFICES ASSUME NEW i \in 1..n PROVE src[at[i]].order <= 0
      OBVIOUS
    <3>1. src[at[i]].order \in Int /\ src[at[n]].order \in Int /\ src[at[i]].order <= src[at[n]].order
      BY <1>4, <2>2
    <3> QED
      BY <1>5, <3>1
  <2>4. f \in [1..n -> U]
    BY <1>4, <2>2, <2>3
  <2>5. \A i, j \in 1..n : i # j => f[i] # f[j]
    BY <1>1, <2>1
  <2> HIDE DEF f
  <2> QED
    BY <1>4, <2>1, <2>4, <2>5, InjectiveImage
<1>6. Ascends(v)
  <2> SUFFICES ASSUME NEW n \in D, NEW m \in D, n < m PROVE v[n].order <= v[m].order
    BY <1>1 DEF Ascends
  <2>1. /\ at[n] \in D /\ at[m] \in D /\ src[at[n]].order \in Int /\ src[at[m]].order \in Int
        /\ src[at[n]].order <= src[at[m]].order /\ n \in Int /\ m \in Int
    <3>1. at[n] \in D /\ at[m] \in D
      BY <1>1
    <3>2. src[at[n]].order \in Int /\ src[at[m]].order \in Int
      BY <1>4, <3>1
    <3>3. src[at[n]].order <= src[at[m]].order
      BY <1>1
    <3>4. n \in Int /\ m \in Int
      BY <1>3
    <3> QED
      BY <3>1, <3>2, <3>3, <3>4
  <2>2. /\ v[n].order = (IF src[at[n]].order <= 0 THEN n ELSE src[at[n]].order)
        /\ v[m].order = (IF src[at[m]].order <= 0 THEN m ELSE src[at[m]].order)
    BY <1>1
  <2>3. CASE src[at[n]].order <= 0 /\ src[at[m]].order > 0
    <3>1. n <= Cardinality(U) /\ src[at[m]].order >= Cardinality(U)
      BY <1>4, <1>5, <2>1, <2>3
    <3> QED
      BY <1>4, <2>1, <2>2, <2>3, <3>1
  <2>4. CASE ~(src[at[n]].order <= 0 /\ src[at[m]].order > 0)
    BY <2>1, <2>2, <2>4
  <2> QED
    BY <2>3, <2>4
<1>7. GetAllSources(v) = v
  BY <1>2, <1>6, AscendingStays
<1>8. validateAndSetDefaults(v) = v
  BY <1>1, <1>2, ValidStays
<1> QED
  BY <1>7, <1>8 DEF Sees, v

\* A list that a load leaves in its places is one whose orders fit.
LEMMA SettledFits ==
  ASSUME NEW src \in Seq(Row), Settled(src)
  PROVE  OrdersFit(src)
<1> DEFINE v == Sees(src)
           D == DOMAIN src
           U == Unordered(src)
<1>1. PICK at \in [D -> D] :
        /\ DOMAIN v = D
        /\ \A n, m \in D : n # m => at[n] # at[m]
        /\ \A i \in D : \E n \in D : at[n] = i
        /\ \A n, m \in D : n < m => src[at[n]].order <= src[at[m]].order
        /\ \A n \in D : /\ v[n].order = (IF src[at[n]].order <= 0 THEN n ELSE src[at[n]].order)
                        /\ v[n].name # 0 /\ v[n].order > 0
  BY SeesFields
<1>2. v \in Seq(Row)
  BY SeesFields
<1>3. Len(src) \in Nat /\ D = 1..Len(src)
  OBVIOUS
<1>4. /\ IsFiniteSet(U) /\ Cardinality(U) \in Nat /\ U \subseteq D
      /\ \A i \in D : src[i].order \in Int
      /\ \A i \in D : i \in U <=> src[i].order <= 0
  BY UnorderedFinite DEF Unordered
<1>5. Sees(v) = v
  BY DEF Settled, Sees
<1>6. SUFFICES ASSUME NEW i \in D, src[i].order > 0 PROVE src[i].order >= Cardinality(U)
  BY DEF OrdersFit
<1> HIDE DEF v, D, U
<1>7. \A n, m \in D : n < m => v[n].order <= v[m].order
  <2> DEFINE w == Sees(v)
  <2>0. PICK to \in [DOMAIN v -> DOMAIN v] :
          /\ \A n, m \in DOMAIN v : n < m => v[to[n]].order <= v[to[m]].order
          /\ \A n \in DOMAIN v : w[n].order = (IF v[to[n]].order <= 0 THEN n ELSE v[to[n]].order)
    BY <1>2, SeesFields
  <2>9. w = v
    BY <1>5
  <2> HIDE DEF w
  <2>1. /\ to \in [D -> D]
        /\ \A n, m \in D : n < m => v[to[n]].order <= v[to[m]].order
        /\ \A n \in D : v[n].order = (IF v[to[n]].order <= 0 THEN n ELSE v[to[n]].order)
    BY <1>1, <2>0, <2>9
  <2>2. \A n \in D : v[n].order \in Int
    BY <1>1, <1>2, UnorderedFinite
  <2>3. \A n \in D : v[n].order = v[to[n]].order
    <3> SUFFICES ASSUME NEW n \in D PROVE v[n].order = v[to[n]].order
      OBVIOUS
    <3>1. to[n] \in D /\ v[to[n]].order > 0 /\ v[to[n]].order \in Int
      BY <1>1, <2>2
    <3> QED
      BY <2>1, <3>1
  <2> QED
    BY <2>1, <2>3
<1> DEFINE m == Cardinality(U)
<1> HIDE DEF m
<1>8. m \in Nat /\ m = Cardinality(U)
  BY <1>4 DEF m
<1>9. CASE m = 0
  <2>1. src[i].order \in Int
    BY <1>4, <1>6
  <2> QED
    BY <1>6, <1>8, <1>9, <2>1
<1>10. CASE m # 0
  \* The unordered ones are the first; if the m-th were not one there would be fewer.
  <2>1. ASSUME NEW n \in D, n >= m, src[at[n]].order <= 0
        PROVE  m \in D /\ src[at[m]].order <= 0
    <3>1. m \in D /\ at[m] \in D /\ at[n] \in D /\ src[at[m]].order \in Int /\ src[at[n]].order \in Int
      BY <1>3, <1>4, <1>8, <1>10, <2>1
    <3>2. src[at[m]].order <= src[at[n]].order
      <4>1. CASE n = m
        BY <3>1, <4>1
      <4>2. CASE n # m
        <5>1. m < n
          BY <1>3, <1>8, <2>1, <4>2
        <5> QED
          BY <1>1, <2>1, <3>1, <5>1
      <4> QED
        BY <4>1, <4>2
    <3> QED
      BY <2>1, <3>1, <3>2
  <2>2. m \in D /\ src[at[m]].order <= 0
    <3>1. SUFFICES ASSUME \A n \in D : src[at[n]].order <= 0 => n < m PROVE FALSE
      <4>1. CASE \E n \in D : src[at[n]].order <= 0 /\ ~(n < m)
        <5>1. PICK n \in D : src[at[n]].order <= 0 /\ ~(n < m)
          BY <4>1
        <5>2. n >= m
          BY <1>3, <1>8, <5>1
        <5> QED
          BY <2>1, <5>1, <5>2
      <4> QED
        BY <4>1
    <3> DEFINE back == [u \in U |-> CHOOSE n \in D : at[n] = u]
    <3>2. \A u \in U : back[u] \in D /\ at[back[u]] = u
      BY <1>1, <1>4
    <3> HIDE DEF back
    <3>3. \A u \in U : back[u] \in 1..(m - 1)
      <4> SUFFICES ASSUME NEW u \in U PROVE back[u] \in 1..(m - 1)
        OBVIOUS
      <4>1. back[u] \in D /\ src[at[back[u]]].order <= 0
        BY <1>4, <3>2
      <4>2. back[u] < m
        BY <3>1, <4>1
      <4> QED
        BY <1>3, <1>8, <4>1, <4>2
    <3>4. back \in Injection(U, 1..(m - 1))
      <4>1. back \in [U -> 1..(m - 1)]
        BY <3>3 DEF back
      <4>2. \A u, w \in U : u # w => back[u] # back[w]
        BY <3>2
      <4> QED
        BY <4>1, <4>2 DEF Injection, IsInjective
    <3>5. IsFiniteSet(1..(m - 1)) /\ Cardinality(1..(m - 1)) = m - 1
      <4>1. m - 1 \in Nat
        BY <1>8, <1>10
      <4> QED
        BY <4>1, FS_Interval
    <3>6. m <= m - 1
      BY <1>4, <1>8, <3>4, <3>5, FS_Injection
    <3> QED
      BY <1>8, <3>6
  <2>3. PICK k \in D : at[k] = i
    BY <1>1, <1>6
  <2>4. ~(src[i].order <= 0) /\ src[i].order \in Int
    BY <1>4, <1>6
  <2>5. v[m].order = m /\ v[k].order = src[i].order
    BY <1>1, <2>2, <2>3, <2>4
  <2>6. m < k
    <3> SUFFICES ASSUME ~(m < k) PROVE FALSE
      OBVIOUS
    <3>1. k # m
      BY <2>2, <2>3, <2>4
    <3>2. k < m
      BY <1>3, <1>8, <3>1
    <3>3. src[at[k]].order <= src[at[m]].order
      BY <1>1, <2>2, <3>2
    <3>4. src[at[m]].order \in Int
      BY <1>4, <2>2
    <3> QED
      BY <2>2, <2>3, <2>4, <3>3, <3>4
  <2>7. v[m].order <= v[k].order
    BY <1>7, <2>2, <2>6
  <2> QED
    BY <1>8, <2>4, <2>5, <2>7
<1> QED
  BY <1>9, <1>10

\* What keeps a list fine: the same accounts in the same order, a beginning of it, a load.
LEMMA FineAlike ==
  ASSUME NEW p \in Seq(Row), NEW q \in Seq(Row), DOMAIN q = DOMAIN p,
         \A i \in DOMAIN p : q[i].url = p[i].url /\ q[i].name = p[i].name /\ q[i].order = p[i].order,
         Fine(p)
  PROVE  Fine(q)
<1>1. ListedOnce(p) => ListedOnce(q)
  BY DEF ListedOnce
<1>2. Unordered(q) = Unordered(p)
  BY DEF Unordered
<1>3. OrdersFit(p) => OrdersFit(q)
  BY <1>2 DEF OrdersFit
<1> QED
  BY <1>1, <1>3 DEF Fine

LEMMA FineBeginning ==
  ASSUME NEW p \in Seq(Row), NEW q \in Seq(Row), Fine(p \o q)
  PROVE  Fine(p)
<1> DEFINE w == p \o q
<1>1. w \in Seq(Row) /\ DOMAIN p \subseteq DOMAIN w /\ \A i \in DOMAIN p : w[i] = p[i]
  OBVIOUS
<1> HIDE DEF w
<1>2. ListedOnce(w) => ListedOnce(p)
  BY <1>1 DEF ListedOnce
<1>3. ASSUME OrdersFit(w) PROVE OrdersFit(p)
  <2>1. IsFiniteSet(Unordered(w)) /\ Unordered(p) \subseteq Unordered(w)
    BY <1>1, UnorderedFinite DEF Unordered
  <2>2. Cardinality(Unordered(p)) <= Cardinality(Unordered(w))
    BY <2>1, FS_Subset
  <2>3. Cardinality(Unordered(p)) \in Nat /\ Cardinality(Unordered(w)) \in Nat
    BY <1>1, UnorderedFinite
  <2> SUFFICES ASSUME NEW i \in DOMAIN p, p[i].order > 0 PROVE p[i].order >= Cardinality(Unordered(p))
    BY DEF OrdersFit
  <2>4. w[i] = p[i] /\ i \in DOMAIN w /\ w[i].order \in Int
    BY <1>1, UnorderedFinite
  <2>5. w[i].order >= Cardinality(Unordered(w))
    BY <1>3, <2>4 DEF OrdersFit
  <2> QED
    BY <2>2, <2>3, <2>4, <2>5
<1> QED
  BY <1>2, <1>3 DEF Fine, w

LEMMA FineEmpty == Fine(<<>>)
<1>1. DOMAIN <<>> = {}
  OBVIOUS
<1> QED
  BY <1>1 DEF Fine, ListedOnce, OrdersFit

LEMMA FineRead ==
  ASSUME NEW src \in Seq(Row), Fine(src)
  PROVE  Fine(Sees(src)) /\ (AllSettled => Sees(Sees(src)) = Sees(src))
<1> DEFINE v == Sees(src)
           D == DOMAIN src
<1>1. PICK at \in [D -> D] :
        /\ DOMAIN v = D
        /\ \A n, m \in D : n # m => at[n] # at[m]
        /\ \A n \in D : /\ v[n].url = src[at[n]].url
                        /\ v[n].name = (IF src[at[n]].name = 0 THEN n ELSE src[at[n]].name)
                        /\ v[n].order > 0
  BY SeesFields
<1>2. v \in Seq(Row)
  BY SeesFields
<1>3. AllSettled => Sees(v) = v
  BY ReadAgain DEF Fine
<1> HIDE DEF v
<1>4. ListedOnce(src) => ListedOnce(v)
  <2> SUFFICES ASSUME ListedOnce(src), NEW n \in D, NEW m \in D, n # m, v[n].url = v[m].url
               PROVE  v[n].name # 0 /\ v[n].name # v[m].name
    BY <1>1 DEF ListedOnce
  <2>1. at[n] \in D /\ at[m] \in D /\ at[n] # at[m] /\ src[at[n]].url = src[at[m]].url
    BY <1>1
  <2>2. src[at[n]].name # 0 /\ src[at[m]].name # 0 /\ src[at[n]].name # src[at[m]].name
    BY <2>1 DEF ListedOnce
  <2> QED
    BY <1>1, <2>2
<1>5. OrdersFit(v)
  <2>1. \A n \in D : v[n].order > 0 /\ v[n].order \in Int
    BY <1>1, <1>2, UnorderedFinite
  <2>2. \A n \in D : ~(v[n].order <= 0)
    BY <2>1
  <2>3. Unordered(v) = {}
    BY <1>1, <2>2 DEF Unordered
  <2>4. Cardinality(Unordered(v)) = 0
    BY <2>3, FS_EmptySet
  <2> QED
    BY <1>1, <2>1, <2>4 DEF OrdersFit
<1> QED
  BY <1>3, <1>4, <1>5 DEF Fine, v

LEMMA DocumentsFine == \A d \in Docs \cup {JsonDoc} : d.src \in Seq(Row) /\ Fine(d.src)
BY ConfigAssumption, SettledFits DEF Fine, DocsListOnce, AllSettled

LEMMA UrlsOfTwo ==
  ASSUME NEW p \in Seq(Row), NEW q \in Seq(Row)
  PROVE  UrlsOf(p \o q) = UrlsOf(p) \cup UrlsOf(q)
<1> DEFINE w == p \o q
<1>1. Len(p) \in Nat /\ Len(q) \in Nat /\ DOMAIN p = 1 .. Len(p) /\ DOMAIN q = 1 .. Len(q)
  OBVIOUS
<1>2. /\ DOMAIN w = 1 .. Len(p) + Len(q)
      /\ \A i \in 1 .. Len(p) + Len(q) : w[i] = IF i <= Len(p) THEN p[i] ELSE q[i - Len(p)]
  OBVIOUS
<1> HIDE DEF w
<1>3. \A i \in DOMAIN w : w[i].url \in UrlsOf(p) \cup UrlsOf(q)
  <2> SUFFICES ASSUME NEW i \in DOMAIN w PROVE w[i].url \in UrlsOf(p) \cup UrlsOf(q)
    OBVIOUS
  <2>1. CASE i <= Len(p)
    BY <1>1, <1>2, <2>1 DEF UrlsOf
  <2>2. CASE ~(i <= Len(p))
    <3>1. i - Len(p) \in DOMAIN q /\ w[i] = q[i - Len(p)]
      BY <1>1, <1>2, <2>2
    <3> QED
      BY <3>1 DEF UrlsOf
  <2> QED
    BY <2>1, <2>2
<1>4. \A i \in DOMAIN p : p[i].url \in UrlsOf(w)
  <2>1. \A i \in DOMAIN p : i \in DOMAIN w /\ w[i] = p[i]
    BY <1>1, <1>2
  <2> QED
    BY <2>1 DEF UrlsOf
<1>5. \A i \in DOMAIN q : q[i].url \in UrlsOf(w)
  <2>1. \A i \in DOMAIN q : i + Len(p) \in DOMAIN w /\ w[i + Len(p)] = q[i]
    BY <1>1, <1>2
  <2> QED
    BY <2>1 DEF UrlsOf
<1>6. UrlsOf(w) \subseteq UrlsOf(p) \cup UrlsOf(q)
  BY <1>3 DEF UrlsOf
<1>7. UrlsOf(p) \subseteq UrlsOf(w) /\ UrlsOf(q) \subseteq UrlsOf(w)
  BY <1>4, <1>5 DEF UrlsOf
<1> QED
  BY <1>6, <1>7 DEF w

LEMMA EmptyLists ==
  /\ UrlsOf(<<>>) = {} /\ Named(<<>>) = {} /\ \A p \in Seq(Row) : <<>> \o p = p /\ p \o <<>> = p
<1>1. DOMAIN <<>> = {}
  OBVIOUS
<1>2. \A p \in Seq(Row) : <<>> \o p = p /\ p \o <<>> = p
  OBVIOUS
<1> QED
  BY <1>1, <1>2 DEF UrlsOf, Named

LEMMA MovedOn ==
  ASSUME NEW p \in Seq(Row), NEW q \in Seq(Row), q # <<>>
  PROVE  Append(p, Head(q)) \o Tail(q) = p \o q
<1>1. q = <<Head(q)>> \o Tail(q) /\ Head(q) \in Row /\ Tail(q) \in Seq(Row)
  OBVIOUS
<1>2. Append(p, Head(q)) = p \o <<Head(q)>>
  OBVIOUS
<1> QED
  OBVIOUS

-----------------------------------------------------------------------------
(* One actor steps: what is claimed of the others stays.                   *)

ProviderIInv == StoreIInv /\ ProvidersIInv

\* Whoever steps: an admin after boot, who may ask for something, or the boot sequence.
MayStep(a) == (a \in Admins /\ Booted /\ team[a] # {}) \/ (a = Boot /\ ~Booted)

LEMMA WhoSteps ==
  ASSUME ProviderIInv, NEW a \in Actors, cfgPc[a] # "idle"
  PROVE  MayStep(a)
BY AdminOrBoot DEF ProviderIInv, StoreIInv, ProvidersIInv, WorkInv, WorkAt, MayStep

LEMMA Requesting ==
  ASSUME ProviderIInv, NEW a \in Admins, NEW kind, Begins(a, kind)
  PROVE  /\ Booted /\ cfgPc[a] = "idle" /\ kind \in team[a] /\ MayStep(a)
         /\ kind \in Acting => team[a] \cap Acting # {}
         /\ kind \in WritingKinds => Writes(a)
BY DEF Begins, MayStep, Writes

\* With one writer nobody else writes, edits a page or changes profiles.
LEMMA OthersRead ==
  ASSUME ProviderIInv, OneWriter, NEW a \in Actors, NEW b \in Actors, b # a,
         (a \in Admins /\ Booted /\ Writes(a)) \/ (a = Boot /\ ~Booted)
  PROVE  /\ ~Writing(b) /\ cfgPc[b] \notin {"page", "toggle", "watch", "delete"}
         /\ cfgPc[b] # "idle" => cfgJob[b].kind \notin {"page", "save", "toggle", "profile"}
<1> USE DEF ProviderIInv, StoreIInv, ProvidersIInv
<1>1. CASE a = Boot /\ ~Booted
  <2>1. b \in Admins /\ cfgPc[b] = "idle"
    BY <1>1, BootIsActor DEF BootInv, Actors
  <2> QED
    BY <1>1, <2>1 DEF Writing
<1>2. CASE a \in Admins /\ Booted /\ Writes(a)
  <2>1. CASE b = Boot
    BY <1>2, <2>1, BootIsActor DEF Booted, Writing
  <2>2. CASE b # Boot
    <3>1. b \in Admins
      BY <2>2 DEF Actors
    <3>2. ~Writes(b)
      BY <1>2, <3>1 DEF OneWriter, OnlyOne, Writes
    <3>3. cfgJob[b].kind \notin {"page", "save", "toggle", "profile"} /\ cfgPc[b] # "delete"
      BY <3>1, <3>2 DEF TeamInv, WorkInv, WorkAt
    <3>4. cfgPc[b] \notin {"page", "toggle", "watch"}
      BY <3>3 DEF JobTypes, JobTyped
    <3>5. ~Writing(b)
      <4>1. Writing(b) => cfgJob[b] \in SaveJob \cup ToggleJob /\ (cfgJob[b].kind = "boot" => b = Boot)
        BY DEF JobTypes, JobTyped, Writing
      <4>2. Writing(b) => cfgJob[b].kind \in {"save", "toggle", "boot"}
        BY <4>1 DEF SaveJob, ToggleJob
      <4> QED
        BY <2>2, <3>3, <4>1, <4>2
    <3> QED
      BY <3>3, <3>4, <3>5
  <2> QED
    BY <2>1, <2>2
<1> QED
  BY <1>1, <1>2

\* One admin by itself: everybody else is idle.
LEMMA OthersRest ==
  ASSUME ProviderIInv, Solo, NEW a \in Actors, MayStep(a), NEW b \in Actors, b # a
  PROVE  cfgPc[b] = "idle"
<1> USE DEF ProviderIInv, StoreIInv, ProvidersIInv
<1>1. CASE a = Boot /\ ~Booted
  BY <1>1 DEF BootInv, Actors
<1>2. CASE a \in Admins /\ Booted /\ team[a] # {}
  <2>1. CASE b = Boot
    BY <1>2, <2>1 DEF Booted
  <2>2. CASE b # Boot
    <3>1. b \in Admins
      BY <2>2 DEF Actors
    <3>2. PICK s \in Admins : \A c \in Admins \ {s} : team[c] = {}
      BY DEF Solo
    <3>3. team[b] = {}
      BY <1>2, <3>1, <3>2
    <3> QED
      BY <3>1, <3>3 DEF WorkInv, WorkAt
  <2> QED
    BY <2>1, <2>2
<1> QED
  BY <1>1, <1>2 DEF MayStep

LEMMA SoloIsOne == Solo => OneWriter /\ OnlyOne(Acting)
<1>1. ASSUME Solo, NEW kinds PROVE OnlyOne(kinds)
  <2>1. PICK s \in Admins : \A c \in Admins \ {s} : team[c] = {}
    BY <1>1 DEF Solo
  <2> QED
    BY <2>1 DEF OnlyOne
<1> QED
  BY <1>1 DEF OneWriter

LEMMA OneActing == OnlyOne(Acting) => OneWriter
BY DEF OnlyOne, OneWriter, Acting

LEMMA FineKept ==
  ASSUME FineInv, NEW a \in Actors, OthersStay(a), team' = team, stored'.src = stored.src,
         OneWriter => \A h \in DOMAIN heap' : Fine(heap'[h].src),
         OneWriter => FineAt(a)'
  PROVE  FineInv'
<1> SUFFICES ASSUME OneWriter
             PROVE  Fine(stored'.src) /\ (\A h \in DOMAIN heap' : Fine(heap'[h].src)) /\ \A b \in Actors : FineAt(b)'
  BY DEF FineInv, OneWriter, OnlyOne
<1>1. ASSUME NEW b \in Actors, b # a PROVE FineAt(b)'
  <2>1. cfgPc'[b] = cfgPc[b] /\ cfgJob'[b] = cfgJob[b] /\ FineAt(b)
    BY <1>1 DEF OthersStay, FineInv
  <2> QED
    BY <2>1 DEF FineAt, Writing, Coming
<1> QED
  BY <1>1 DEF FineInv

LEMMA KeysKept ==
  ASSUME KeysInv, NEW a \in Actors, OthersStay(a), stored'.src = stored.src,
         \A k \in SettingKeys : stored.set[k] # Unset => stored'.set[k] # Unset,
         \A h \in DOMAIN heap' : Valued(heap'[h].set),
         KeysAt(a)', cfgPc'[Boot] = "set" => cfgPc[Boot] = "set" \/ stored.src = <<>>
  PROVE  KeysInv'
<1>1. ASSUME NEW b \in Actors, b # a PROVE KeysAt(b)'
  <2>1. cfgPc'[b] = cfgPc[b] /\ cfgJob'[b] = cfgJob[b] /\ KeysAt(b)
    BY <1>1 DEF OthersStay, KeysInv
  <2> QED
    BY <2>1 DEF KeysAt, Writing, Valued
<1>2. stored'.src # <<>> => stored'.set["watcher"] # Unset
  BY ConfigAssumption DEF KeysInv
<1>3. cfgPc'[Boot] = "set" => stored'.src = <<>>
  BY DEF KeysInv
<1> QED
  BY <1>1, <1>2, <1>3 DEF KeysInv, Valued

LEMMA WorkKept ==
  ASSUME WorkInv, NEW a \in Actors, OthersStay(a), team' = team, a \in Admins => WorkAt(a)'
  PROVE  WorkInv'
<1>1. ASSUME NEW b \in Admins, b # a PROVE WorkAt(b)'
  <2>1. cfgPc'[b] = cfgPc[b] /\ cfgJob'[b] = cfgJob[b] /\ WorkAt(b)
    BY <1>1, BootIsActor DEF OthersStay, WorkInv
  <2> QED
    BY <2>1 DEF WorkAt, Writes
<1> QED
  BY <1>1 DEF WorkInv

\* Objects stay where they are; what a load adds comes behind them.
SameSources == DOMAIN heap \subseteq DOMAIN heap' /\ \A h \in DOMAIN heap : heap'[h].src = heap[h].src
SameProfiles == DOMAIN heap \subseteq DOMAIN heap' /\ \A h \in DOMAIN heap : heap'[h].prof = heap[h].prof

OneQuiet == OneWriter /\ NoFaults /\ cfgCrashes = 0
LEMMA WantedKept ==
  ASSUME StoreIInv, WantedInv, NEW a \in Actors, OthersStay(a), team' = team,
         cfgCrashes' = cfgCrashes, NoFaults' => NoFaults, wanted' = wanted, SameSources,
         UrlsOf(stored'.src) = UrlsOf(stored.src),
         stored'.src = stored.src \/ (Booted /\ (OneQuiet => \A b \in Actors \ {a} : ~Writing(b))),
         ~Booted' => ~Booted, cfgPc'[Boot] = "boot" => cfgPc[Boot] = "boot",
         OneQuiet => WantedAt(a)',
         OneQuiet /\ Writing(a) /\ ~Writing(a)' => UrlsOf(stored.src) \in wanted,
         StaleAt(a) => StaleAt(a)' \/ (cached' = 0 /\ \A b \in Actors : cfgPc'[b] # "reading"),
         OneQuiet /\ ~Stale' /\ cached' # 0 => cached' = cached \/ UrlsOf(heap'[cached'].src) = UrlsOf(stored.src)
  PROVE  WantedInv'
<1> DEFINE urls == UrlsOf(stored.src)
<1> SUFFICES ASSUME OneQuiet
             PROVE  /\ ~Booted' => wanted = {{}, UrlsOf(JsonDoc.src)}
                    /\ cfgPc'[Boot] = "boot" => stored'.src = <<>>
                    /\ (\A b \in Actors : ~Writing(b)') => urls \in wanted
                    /\ ~Stale' /\ cached' # 0 => UrlsOf(heap'[cached'].src) = urls
                    /\ \A b \in Actors \ {a} : WantedAt(b)'
  <2>1. cfgCrashes' \in Nat
    BY DEF WantedInv
  <2>2. OneWriter' => OneWriter
    BY DEF OneWriter, OnlyOne
  <2> QED
    BY <2>1, <2>2 DEF WantedInv, OneQuiet
<1>1. /\ ~Booted' => wanted = {{}, UrlsOf(JsonDoc.src)}
      /\ cfgPc'[Boot] = "boot" => stored'.src = <<>>
  <2>1. cfgPc[Boot] = "boot" => ~Booted
    BY DEF Booted
  <2> QED
    BY <2>1 DEF WantedInv, OneQuiet
<1>2. \A b \in Actors \ {a} : /\ cfgPc'[b] = cfgPc[b] /\ cfgJob'[b] = cfgJob[b]
                              /\ Writing(b)' = Writing(b) /\ StaleAt(b)' = StaleAt(b)
  BY DEF OthersStay, Writing, StaleAt
<1>3. (\A b \in Actors : ~Writing(b)') => urls \in wanted
  <2> SUFFICES ASSUME \A b \in Actors : ~Writing(b)' PROVE urls \in wanted
    OBVIOUS
  <2>1. CASE Writing(a)
    BY <2>1
  <2>2. CASE ~Writing(a)
    <3>1. \A b \in Actors : ~Writing(b)
      BY <1>2, <2>2
    <3> QED
      BY <3>1 DEF WantedInv, OneQuiet
  <2> QED
    BY <2>1, <2>2
<1>4. ASSUME ~Stale' PROVE ~Stale \/ (cached' = 0 /\ \A b \in Actors : cfgPc'[b] # "reading")
  <2>1. \A b \in Actors : ~StaleAt(b)'
    BY <1>4 DEF Stale
  <2>2. CASE StaleAt(a)
    BY <2>1, <2>2
  <2>3. CASE ~StaleAt(a)
    <3>1. \A b \in Actors : ~StaleAt(b)
      BY <1>2, <2>1, <2>3
    <3> QED
      BY <3>1 DEF Stale
  <2> QED
    BY <2>2, <2>3
<1>5. ~Stale' /\ cached' # 0 => UrlsOf(heap'[cached'].src) = urls
  <2> SUFFICES ASSUME ~Stale', cached' # 0, cached' = cached PROVE UrlsOf(heap'[cached].src) = urls
    OBVIOUS
  <2>1. UrlsOf(heap[cached].src) = urls
    BY <1>4 DEF WantedInv, OneQuiet
  <2>2. cached \in DOMAIN heap
    BY DEF StoreIInv, CfgTypeOK, StoreTypes
  <2>3. heap'[cached].src = heap[cached].src
    BY <2>2 DEF SameSources
  <2> QED
    BY <2>1, <2>3
<1>6. ASSUME NEW b \in Actors \ {a} PROVE WantedAt(b)'
  <2>1. WantedAt(b) /\ cfgPc'[b] = cfgPc[b] /\ cfgJob'[b] = cfgJob[b] /\ Writing(b)' = Writing(b)
    BY <1>2 DEF WantedInv, OneQuiet
  <2>2. ASSUME Writing(b)' PROVE UrlsOf(Coming(b)') \in wanted
    <3>1. stored'.src = stored.src
      BY <2>1, <2>2
    <3>2. Coming(b)' = Coming(b)
      BY <2>1, <3>1 DEF Coming
    <3> QED
      BY <2>1, <2>2, <3>2 DEF WantedAt
  <2>3. ~Stale' /\ cfgPc'[b] = "reading" => UrlsOf(cfgJob'[b].rows.src) = urls
    BY <1>4, <2>1 DEF WantedAt
  <2>4. cfgPc'[b] = "toggle" => UrlsOf(heap'[cfgJob'[b].ptr].src) = urls
    <3> SUFFICES ASSUME cfgPc[b] = "toggle" PROVE UrlsOf(heap'[cfgJob[b].ptr].src) = urls
      BY <2>1
    <3>1. cfgJob[b].ptr \in DOMAIN heap
      BY DEF StoreIInv, CfgTypeOK, StoreTypes
    <3> QED
      BY <2>1, <3>1 DEF WantedAt, SameSources
  <2> QED
    BY <2>2, <2>3, <2>4 DEF WantedAt
<1> QED
  BY <1>1, <1>3, <1>5, <1>6

\* While the actor is at its statements nothing is claimed of the tables or the cache.
LEMMA WantedWhileWriting ==
  ASSUME WantedInv, NEW a \in Actors, OthersStay(a), team' = team,
         cfgCrashes' = cfgCrashes, NoFaults' => NoFaults,
         OneQuiet => \A b \in Actors \ {a} : ~Writing(b) /\ cfgPc[b] # "toggle",
         ~Booted' => wanted' = wanted /\ ~Booted, cfgPc'[Boot] # "boot",
         Writing(a)', OneQuiet => UrlsOf(Coming(a)') \in wanted'
  PROVE  WantedInv'
<1>1. cfgCrashes' \in Nat /\ (OneWriter' => OneWriter)
  BY DEF WantedInv, OneWriter, OnlyOne
<1> SUFFICES ASSUME OneQuiet
             PROVE  /\ ~Booted' => wanted' = {{}, UrlsOf(JsonDoc.src)}
                    /\ \A b \in Actors : WantedAt(b)'
                    /\ Stale'
  BY <1>1 DEF WantedInv, OneQuiet
<1>2. Stale' /\ cfgPc'[a] \notin {"reading", "toggle"}
  BY DEF Stale, StaleAt, Writing
<1>3. ~Booted' => wanted' = {{}, UrlsOf(JsonDoc.src)}
  BY DEF WantedInv, OneQuiet
<1>4. ASSUME NEW b \in Actors PROVE WantedAt(b)'
  <2>1. CASE b = a
    BY <1>2, <2>1 DEF WantedAt
  <2>2. CASE b # a
    BY <1>2, <2>2 DEF WantedAt, OthersStay, Writing
  <2> QED
    BY <2>1, <2>2
<1> QED
  BY <1>2, <1>3, <1>4

\* One acting admin: the others are in the middle of a change of an account table at most.
LEMMA OthersTable ==
  ASSUME ProviderIInv, OnlyOne(Acting), NEW a \in Actors, NEW b \in Actors, b # a,
         (a \in Admins /\ Booted /\ team[a] \cap Acting # {}) \/ (a = Boot /\ ~Booted)
  PROVE  cfgPc[b] \in {"idle", "rows", "assign"}
<1> USE DEF ProviderIInv, StoreIInv, ProvidersIInv
<1>1. CASE a = Boot /\ ~Booted
  BY <1>1 DEF BootInv, Actors
<1>2. CASE a \in Admins /\ Booted /\ team[a] \cap Acting # {}
  <2>1. CASE b = Boot
    BY <1>2, <2>1 DEF Booted
  <2>2. CASE b # Boot
    <3>1. b \in Admins
      BY <2>2 DEF Actors
    <3>2. ~(team[b] \cap Acting # {})
      BY <1>2, <3>1 DEF OnlyOne
    <3> QED
      BY <3>1, <3>2 DEF WorkInv, WorkAt
  <2> QED
    BY <2>1, <2>2
<1> QED
  BY <1>1, <1>2

\* A step that leaves the tables of sources and profiles alone.
LEMMA ProfileKept ==
  ASSUME StoreIInv, ProfileInv, NEW a \in Actors, OthersStay(a), team' = team,
         stored'.src = stored.src, stored'.prof = stored.prof, SameSources, SameProfiles,
         OnlyOne(Acting) => ProfileAt(a)',
         OnlyOne(Acting) /\ liveCfg' # 0 => (liveCfg' = liveCfg /\ (Changing(a) => Changing(a)')) \/ Sound(heap'[liveCfg']),
         OnlyOne(Acting) /\ cached' # 0 => (cached' = cached /\ (Clearing(a) => Clearing(a)')) \/ Sound(heap'[cached'])
  PROVE  ProfileInv'
<1>1. Known' = Known
  BY DEF Known
<1>2. \A h \in DOMAIN heap : Sound(heap[h]) => Sound(heap'[h])
  BY DEF Sound, SameSources, SameProfiles
<1>3. \A h : Sound(heap'[h]) <=> (ProfilesNamed(heap'[h].prof) \subseteq Known /\ Named(heap'[h].src) \subseteq Known)
  BY DEF Sound
<1> SUFFICES ASSUME OnlyOne(Acting)
             PROVE  /\ liveCfg' # 0 /\ (\A b \in Actors : ~Changing(b)') => Sound(heap'[liveCfg'])
                    /\ cached' # 0 /\ (\A b \in Actors : ~Clearing(b)') => Sound(heap'[cached'])
                    /\ \A b \in Actors \ {a} : ProfileAt(b)'
  <2>1. OnlyOne(Acting)' => OnlyOne(Acting)
    BY DEF OnlyOne
  <2>2. Sound(heap[liveCfg])' = Sound(heap'[liveCfg']) /\ Sound(heap[cached])' = Sound(heap'[cached'])
    BY <1>1 DEF Sound
  <2> QED
    BY <1>1, <2>1, <2>2 DEF ProfileInv
<1>4. \A b \in Actors \ {a} : /\ cfgPc'[b] = cfgPc[b] /\ cfgJob'[b] = cfgJob[b]
                              /\ Changing(b)' = Changing(b) /\ Clearing(b)' = Clearing(b)
  BY DEF OthersStay, Changing, Clearing
<1>5. ASSUME liveCfg' # 0, \A b \in Actors : ~Changing(b)' PROVE Sound(heap'[liveCfg'])
  <2> SUFFICES ASSUME liveCfg' = liveCfg, Changing(a) => Changing(a)' PROVE Sound(heap'[liveCfg])
    BY <1>5
  <2>1. \A b \in Actors : ~Changing(b)
    BY <1>4, <1>5
  <2>2. Sound(heap[liveCfg]) /\ liveCfg \in DOMAIN heap
    BY <1>5, <2>1 DEF ProfileInv, StoreIInv, CfgTypeOK, StoreTypes
  <2> QED
    BY <1>2, <2>2
<1>6. ASSUME cached' # 0, \A b \in Actors : ~Clearing(b)' PROVE Sound(heap'[cached'])
  <2> SUFFICES ASSUME cached' = cached, Clearing(a) => Clearing(a)' PROVE Sound(heap'[cached])
    BY <1>6
  <2>1. \A b \in Actors : ~Clearing(b)
    BY <1>4, <1>6
  <2>2. Sound(heap[cached]) /\ cached \in DOMAIN heap
    BY <1>6, <2>1 DEF ProfileInv, StoreIInv, CfgTypeOK, StoreTypes
  <2> QED
    BY <1>2, <2>2
<1>7. ASSUME NEW b \in Actors \ {a} PROVE ProfileAt(b)'
  <2>1. ProfileAt(b) /\ cfgPc'[b] = cfgPc[b] /\ cfgJob'[b] = cfgJob[b]
    BY <1>4 DEF ProfileInv
  <2>2. cfgPc[b] \in {"swap", "toggle"} => Sound(heap'[cfgJob[b].ptr])
    <3> SUFFICES ASSUME cfgPc[b] \in {"swap", "toggle"} PROVE Sound(heap'[cfgJob[b].ptr])
      OBVIOUS
    <3>1. cfgJob[b].ptr \in DOMAIN heap
      BY DEF StoreIInv, CfgTypeOK, StoreTypes
    <3> QED
      BY <1>2, <2>1, <3>1 DEF ProfileAt
  <2>3. Sound(heap[cfgJob[b].ptr])' = Sound(heap'[cfgJob[b].ptr])
    BY <1>1, <2>1 DEF Sound
  <2> QED
    BY <1>1, <2>1, <2>2, <2>3 DEF ProfileAt, Writing
<1> QED
  BY <1>5, <1>6, <1>7

\* One admin by itself: only the one who steps is in the middle of something.
LEMMA LiveKept ==
  ASSUME ProviderIInv, NEW a \in Actors, MayStep(a), OthersStay(a), team' = team, NoFaults' => NoFaults,
         Solo /\ AllSettled /\ NoFaults /\ LiveAt(a) => LiveAt(a)'
  PROVE  LiveInv'
<1> SUFFICES ASSUME Solo, AllSettled, NoFaults, NEW b \in Actors, b # a,
                    \A c \in Actors \ {b} : cfgPc'[c] = "idle", LiveAt(a)'
             PROVE  LiveAt(b)'
  <2>1. Solo' => Solo
    BY DEF Solo
  <2>2. ASSUME Solo, NoFaults, AllSettled PROVE LiveAt(a)
    <3>1. \A b \in Actors \ {a} : cfgPc[b] = "idle"
      BY <2>2, OthersRest
    <3> QED
      BY <2>2, <3>1 DEF ProviderIInv, ProvidersIInv, LiveInv
  <2>3. AllSettled' = AllSettled
    BY DEF AllSettled, Settled
  <2> QED
    BY <2>1, <2>2, <2>3 DEF LiveInv
<1>1. cfgPc'[a] = "idle" /\ cfgPc'[b] = "idle"
  BY OthersRest DEF OthersStay
<1>2. heap'[liveCfg'] = loadFromDB(stored') /\ cached' \in {0, liveCfg'}
  BY <1>1 DEF LiveAt
<1>3. ~WritesFlag(b)'
  BY <1>1 DEF WritesFlag
<1> QED
  BY <1>1, <1>2, <1>3 DEF LiveAt

-----------------------------------------------------------------------------
(* What each step does.                                                    *)

\* The actor goes on to p with that job; no fault happens.
GoesOn(a, p, act) == OthersStay(a) /\ cfgPc'[a] = p /\ cfgJob'[a] = act
NoFaultYet == UNCHANGED <<team, cfgCrashes, writeFails, loadFails>>

\* A step that goes to p with that job, whatever else it does.
LEMMA OneGoes ==
  ASSUME StoreIInv, NEW a \in Actors, NEW p, NEW act,
         cfgPc' = [cfgPc EXCEPT ![a] = p], cfgJob' = [cfgJob EXCEPT ![a] = act]
  PROVE  GoesOn(a, p, act)
BY DEF StoreIInv, StoreTypes, OthersStay, GoesOn

LEMMA OneMoves ==
  ASSUME StoreIInv, NEW a \in Actors, NEW p, cfgPc' = [cfgPc EXCEPT ![a] = p], UNCHANGED cfgJob
  PROVE  GoesOn(a, p, cfgJob[a])
BY DEF StoreIInv, StoreTypes, OthersStay, GoesOn

LEMMA OneEnds ==
  ASSUME StoreIInv, NEW a \in Actors, Ends(a)
  PROVE  GoesOn(a, "idle", NoJob) /\ NoJob.kind = "none"
BY OneGoes DEF Ends, NoJob

LEMMA PageIs ==
  ASSUME StoreIInv, NEW a \in Admins, handleGetConfig(a)
  PROVE  /\ Begins(a, "edit") /\ GoesOn(a, "page", [kind |-> "page", page |-> Shown(heap[liveCfg])])
         /\ NoFaultYet /\ UNCHANGED <<stored, heap, cached, liveCfg, wanted>>
BY BootIsActor, OneGoes DEF handleGetConfig, Goes, NoFaultYet

\* A request that writes nothing itself.
Asks(a, kind, p, act) ==
  /\ Begins(a, kind) /\ GoesOn(a, p, act) /\ act.kind = kind
  /\ NoFaultYet /\ UNCHANGED <<stored, heap, cached, liveCfg, wanted>>
LEMMA AsksAre ==
  ASSUME StoreIInv, NEW a \in Admins
  PROVE  /\ \A v \in {"on", "off"} : handleToggleWatcher(a, v) =>
              Asks(a, "toggle", "load", [kind |-> "toggle", on |-> v])
         /\ RunRestartLoop(a) => Asks(a, "restart", "clear", [kind |-> "restart"])
         /\ \A p, force : handleDeleteFilterProfile(a, p, force) =>
              Asks(a, "profile", "delete", [kind |-> "profile", id |-> p.id])
<1>1. ASSUME NEW v \in {"on", "off"}, handleToggleWatcher(a, v)
      PROVE  Asks(a, "toggle", "load", [kind |-> "toggle", on |-> v])
  <2> DEFINE act == [kind |-> "toggle", on |-> v]
  <2>1. act.kind = "toggle" /\ cfgJob' = [cfgJob EXCEPT ![a] = act]
    BY <1>1 DEF handleToggleWatcher
  <2> HIDE DEF act
  <2>2. GoesOn(a, "load", act)
    BY <1>1, <2>1, BootIsActor, OneGoes DEF handleToggleWatcher, Goes
  <2>3. Asks(a, "toggle", "load", act)
    BY <1>1, <2>1, <2>2 DEF handleToggleWatcher, Asks, NoFaultYet
  <2> QED
    BY <2>3 DEF act
<1>2. ASSUME RunRestartLoop(a)
      PROVE  Asks(a, "restart", "clear", [kind |-> "restart"])
  <2> DEFINE act == [kind |-> "restart"]
  <2>1. act.kind = "restart" /\ cfgJob' = [cfgJob EXCEPT ![a] = act]
    BY <1>2 DEF RunRestartLoop
  <2> HIDE DEF act
  <2>2. GoesOn(a, "clear", act)
    BY <1>2, <2>1, BootIsActor, OneGoes DEF RunRestartLoop, Goes
  <2>3. Asks(a, "restart", "clear", act)
    BY <1>2, <2>1, <2>2 DEF RunRestartLoop, Asks, NoFaultYet
  <2> QED
    BY <2>3 DEF act
<1>3. ASSUME NEW p, NEW force, handleDeleteFilterProfile(a, p, force)
      PROVE  Asks(a, "profile", "delete", [kind |-> "profile", id |-> p.id])
  <2> DEFINE act == [kind |-> "profile", id |-> p.id]
  <2>1. act.kind = "profile" /\ cfgJob' = [cfgJob EXCEPT ![a] = act]
    BY <1>3 DEF handleDeleteFilterProfile
  <2> HIDE DEF act
  <2>2. GoesOn(a, "delete", act)
    BY <1>3, <2>1, BootIsActor, OneGoes DEF handleDeleteFilterProfile, Goes
  <2>3. Asks(a, "profile", "delete", act)
    BY <1>3, <2>1, <2>2 DEF handleDeleteFilterProfile, Asks, NoFaultYet
  <2> QED
    BY <2>3 DEF act
<1> QED
  BY <1>1, <1>2, <1>3

\* The same accounts at the same places: passwords and profiles may differ.
Alike(p, q) ==
  DOMAIN q = DOMAIN p /\ \A i \in DOMAIN p : q[i].url = p[i].url /\ q[i].name = p[i].name /\ q[i].order = p[i].order

LEMMA AlikeKeeps ==
  ASSUME NEW p \in Seq(Row), NEW q \in Seq(Row), Alike(p, q)
  PROVE  UrlsOf(q) = UrlsOf(p) /\ (Fine(p) => Fine(q))
<1>1. UrlsOf(q) = UrlsOf(p)
  BY DEF UrlsOf, Alike
<1> QED
  BY <1>1, FineAlike DEF Alike

LEMMA ShownIs ==
  ASSUME NEW cfg \in Content
  PROVE  /\ Shown(cfg).set = cfg.set /\ Shown(cfg).src \in Seq(Row) /\ Alike(cfg.src, Shown(cfg).src)
<1> DEFINE src == cfg.src
           shown == [i \in DOMAIN src |-> [src[i] EXCEPT !.pass = maskSecret(@)]]
<1>1. src \in Seq(Row) /\ \A i \in DOMAIN src : src[i] \in Row
  BY DEF Content
<1>2. \A i \in DOMAIN src : /\ shown[i] \in Row /\ shown[i].url = src[i].url
                            /\ shown[i].name = src[i].name /\ shown[i].order = src[i].order
  <2> SUFFICES ASSUME NEW i \in DOMAIN src
               PROVE  /\ shown[i] \in Row /\ shown[i].url = src[i].url
                      /\ shown[i].name = src[i].name /\ shown[i].order = src[i].order
    OBVIOUS
  <2>1. src[i] \in Row /\ maskSecret(src[i].pass) \in Strings
    BY <1>1 DEF maskSecret, Strings
  <2> QED
    BY <2>1 DEF Row
<1>3. shown \in [DOMAIN src -> Row] /\ DOMAIN shown = DOMAIN src
  BY <1>2
<1>4. Shown(cfg).set = cfg.set /\ Shown(cfg).src = shown
  BY DEF Shown
<1> HIDE DEF shown
<1>5. shown \in Seq(Row)
  BY <1>1, <1>3, RewrittenList DEF src
<1> QED
  BY <1>2, <1>3, <1>4, <1>5 DEF Alike

\* A save asks for the document's accounts, and for profiles that the live object has.
LEMMA SaveIs ==
  ASSUME StoreIInv, NEW a \in Admins, Booted, NEW d, d.src \in Seq(Row), SetConfig(a, d)
  PROVE  \E src \in Seq(Row) :
           /\ Alike(d.src, src) /\ Named(src) \subseteq ProfilesNamed(heap[liveCfg].prof)
           /\ wanted' = {UrlsOf(stored.src), UrlsOf(src)}
           /\ GoesOn(a, "set", [kind |-> "save", set |-> d.set, todo |-> SettingKeys, src |-> src])
           /\ NoFaultYet /\ UNCHANGED <<stored, heap, cached, liveCfg>>
<1> DEFINE cfg == heap[liveCfg]
           pass(s) == IF s.pass = Mask THEN storedPassword(cfg, s) ELSE s.pass
           src == [i \in DOMAIN d.src |->
                    [d.src[i] EXCEPT !.pass = IF @ = Mask THEN storedPassword(cfg, d.src[i]) ELSE @]]
           act == [kind |-> "save", set |-> d.set, todo |-> SettingKeys, src |-> src]
<1>1. /\ cfgJob' = [cfgJob EXCEPT ![a] = act]
      /\ cfgPc' = [cfgPc EXCEPT ![a] = "set"]
      /\ wanted' = {UrlsOf(stored.src), UrlsOf(src)}
      /\ UNCHANGED <<stored, heap, cached, liveCfg, cfgMutex, team, cfgCrashes, writeFails, loadFails>>
      /\ \A i \in DOMAIN d.src : src[i].prof # NoProfile => src[i].prof \in ProfilesNamed(cfg.prof)
  BY DEF SetConfig, Goes
<1>2. cfg \in Content
  BY DEF StoreIInv, StoreTypes, CfgTypeOK
<1>3. ASSUME NEW i \in DOMAIN d.src
      PROVE  /\ src[i] \in Row /\ src[i].url = d.src[i].url
             /\ src[i].name = d.src[i].name /\ src[i].order = d.src[i].order
  <2>1. d.src[i] \in Row /\ storedPassword(cfg, d.src[i]) \in Strings
    BY <1>2, PasswordTyped
  <2> QED
    BY <2>1 DEF Row
<1>4. src \in [DOMAIN d.src -> Row] /\ DOMAIN src = DOMAIN d.src
  BY <1>3
<1> HIDE DEF src, cfg
<1>5. src \in Seq(Row)
  BY <1>4, RewrittenList
<1>6. Alike(d.src, src)
  BY <1>3, <1>4 DEF Alike
<1>7. Named(src) \subseteq ProfilesNamed(cfg.prof)
  BY <1>1, <1>4 DEF Named
<1>8. GoesOn(a, "set", act)
  BY <1>1, BootIsActor, OneGoes
<1> QED
  BY <1>1, <1>5, <1>6, <1>7, <1>8 DEF cfg, NoFaultYet

\* A change of the profiles: the sources stay, none names a profile that is not there
\* unless one did before.
ProfilesChanged(a) ==
  /\ Booted /\ Writes(a) /\ cfgPc[a] \in {"idle", "delete"}
  /\ GoesOn(a, "clear", [kind |-> "profile"])
  /\ stored'.set = stored.set /\ Alike(stored.src, stored'.src) /\ stored'.src \in Seq(Row)
  /\ Named(stored.src) \subseteq Known => Named(stored'.src) \subseteq Known'
  /\ NoFaultYet /\ UNCHANGED <<heap, cached, liveCfg, wanted>>

LEMMA ReloadsGoes ==
  ASSUME StoreIInv, NEW a \in Admins, Reloads(a)
  PROVE  GoesOn(a, "clear", [kind |-> "profile"])
BY BootIsActor, OneGoes DEF Reloads, Goes

\* The sources with the profile of some of them replaced.
Reprofiled(src, gone, n, q) ==
  /\ DOMAIN q = DOMAIN src
  /\ \A i \in DOMAIN src : q[i] = IF src[i].prof \in gone THEN [src[i] EXCEPT !.prof = n] ELSE src[i]

LEMMA ReprofiledFields ==
  ASSUME NEW src \in Seq(Row), NEW gone, NEW n \in Strings, NEW q, Reprofiled(src, gone, n, q), NEW i \in DOMAIN src
  PROVE  /\ q[i].url = src[i].url /\ q[i].name = src[i].name /\ q[i].order = src[i].order
         /\ q[i].prof = (IF src[i].prof \in gone THEN n ELSE src[i].prof)
<1>1. src[i] \in Row
  OBVIOUS
<1> QED
  BY <1>1 DEF Row, Reprofiled

LEMMA ReprofiledAlike ==
  ASSUME NEW src \in Seq(Row), NEW gone, NEW n \in Strings, NEW q, Reprofiled(src, gone, n, q)
  PROVE  Alike(src, q)
<1>1. ASSUME NEW i \in DOMAIN src
      PROVE  q[i].url = src[i].url /\ q[i].name = src[i].name /\ q[i].order = src[i].order
  <2>1. src[i] \in Row
    OBVIOUS
  <2> QED
    BY <2>1 DEF Row, Reprofiled
<1> QED
  BY <1>1 DEF Alike, Reprofiled

\* A name that stays is still there, and so is the new one.
StillThere(old, gone, n, new) ==
  (n = NoProfile \/ n \in new) /\ \A m \in old : m \notin gone => m \in new

LEMMA ReprofiledNames ==
  ASSUME NEW src \in Seq(Row), NEW gone, NEW n \in Strings, NEW q, Reprofiled(src, gone, n, q),
         NEW old, NEW new, StillThere(old, gone, n, new), Named(src) \subseteq old
  PROVE  Named(q) \subseteq new
<1>1. ASSUME NEW i \in DOMAIN q, q[i].prof # NoProfile PROVE q[i].prof \in new
  <2>1. i \in DOMAIN src
    BY DEF Reprofiled
  <2>2. q[i].prof = (IF src[i].prof \in gone THEN n ELSE src[i].prof)
    BY <2>1, ReprofiledFields
  <2>3. CASE src[i].prof \in gone
    BY <1>1, <2>2, <2>3 DEF StillThere
  <2>4. CASE src[i].prof \notin gone
    <3>1. src[i].prof \in Named(src)
      BY <1>1, <2>1, <2>2, <2>4 DEF Named
    <3> QED
      BY <2>2, <2>4, <3>1 DEF StillThere
  <2> QED
    BY <2>3, <2>4
<1> QED
  BY <1>1 DEF Named

LEMMA AlikeItself == \A p : Alike(p, p)
BY DEF Alike

LEMMA CreateIs ==
  ASSUME StoreIInv, NEW a \in Admins, NEW n \in ProfileNames, handleCreateFilterProfile(a, n)
  PROVE  ProfilesChanged(a) /\ stored'.tab = stored.tab
<1> DEFINE prof == stored.prof \cup {[id |-> stored.next, name |-> n]}
<1>1. /\ stored' = [stored EXCEPT !.prof = prof, !.next = stored.next + 1] /\ Booted /\ cfgPc[a] = "idle"
      /\ Reloads(a) /\ "profile" \in team[a]
      /\ UNCHANGED <<heap, cached, liveCfg, cfgMutex, team, wanted, cfgCrashes, writeFails, loadFails>>
  BY DEF handleCreateFilterProfile, Begins
<1>2. stored.prof \subseteq prof
  OBVIOUS
<1> HIDE DEF prof
<1>3. stored'.set = stored.set /\ stored'.src = stored.src /\ stored'.tab = stored.tab /\ stored'.prof = prof
  BY <1>1, StoredFields
<1>4. Known \subseteq Known'
  BY <1>2, <1>3 DEF Known, ProfilesNamed
<1>5. Writes(a)
  BY <1>1 DEF Writes, WritingKinds
<1> QED
  BY <1>1, <1>3, <1>4, <1>5, ReloadsGoes, AlikeItself, StoredFields DEF ProfilesChanged, NoFaultYet

LEMMA UpdateIs ==
  ASSUME StoreIInv, NEW a \in Admins, NEW p \in stored.prof, NEW n \in ProfileNames,
         handleUpdateFilterProfile(a, p, n)
  PROVE  ProfilesChanged(a) /\ stored'.tab = stored.tab
<1> DEFINE prof == (stored.prof \ {p}) \cup {[p EXCEPT !.name = n]}
           src == [i \in DOMAIN stored.src |->
                    IF stored.src[i].prof \in {p.name} THEN [stored.src[i] EXCEPT !.prof = n] ELSE stored.src[i]]
<1>1. /\ stored' = [stored EXCEPT !.prof = prof, !.src = src] /\ Booted /\ cfgPc[a] = "idle"
      /\ Reloads(a) /\ "profile" \in team[a]
      /\ UNCHANGED <<heap, cached, liveCfg, cfgMutex, team, wanted, cfgCrashes, writeFails, loadFails>>
  BY DEF handleUpdateFilterProfile, UpdateFilterProfile, Begins
<1>2. n \in Strings /\ stored.src \in Seq(Row)
  BY ZenonT(40), StoredFields, ConfigAssumption
<1>3. p \in Profile /\ [p EXCEPT !.name = n].name = n
  BY StoredFields DEF Profile
<1>4. StillThere(Known, {p.name}, n, ProfilesNamed(prof))
  BY <1>3 DEF Known, ProfilesNamed, StillThere
<1>5. src \in Seq(Row)
  BY <1>2, SourcesRenamed
<1>0. Reprofiled(stored.src, {p.name}, n, src)
  BY DEF Reprofiled
<1> HIDE DEF src
<1>6. Alike(stored.src, src)
  BY <1>0, <1>2, ReprofiledAlike
<1>7. Named(stored.src) \subseteq Known => Named(src) \subseteq ProfilesNamed(prof)
  BY <1>0, <1>2, <1>4, ReprofiledNames
<1> HIDE DEF prof
<1>8. stored'.set = stored.set /\ stored'.src = src /\ stored'.tab = stored.tab /\ stored'.prof = prof
  BY <1>1, StoredFields
<1>9. Writes(a)
  BY <1>1 DEF Writes, WritingKinds
<1> QED
  BY <1>1, <1>5, <1>6, <1>7, <1>8, <1>9, ReloadsGoes DEF ProfilesChanged, NoFaultYet, Known

LEMMA DeleteIs ==
  ASSUME StoreIInv, WorkInv, NEW a \in Actors, DeleteFilterProfile(a)
  PROVE  /\ a \in Admins /\ Booted /\ cfgPc[a] = "delete"
         /\ (ProfilesChanged(a) /\ stored'.tab = stored.tab)
            \/ (GoesOn(a, "idle", NoJob) /\ NoFaultYet /\ UNCHANGED <<stored, heap, cached, liveCfg, wanted>>)
<1> DEFINE gone == {p \in stored.prof : p.id = cfgJob[a].id}
           rest == stored.prof \ gone
           src == [i \in DOMAIN stored.src |-> IF stored.src[i].prof \in ProfilesNamed(gone)
                    THEN [stored.src[i] EXCEPT !.prof = NoProfile] ELSE stored.src[i]]
<1>1. cfgPc[a] = "delete" /\ UNCHANGED <<heap, cached, liveCfg, cfgMutex, team, wanted, cfgCrashes, writeFails, loadFails>>
  BY DEF DeleteFilterProfile, cfgBounds
<1>2. a \in Admins /\ Booted
  BY <1>1, AdminActs DEF StoreIInv
<1>3. CASE gone = {}
  <2>1. Ends(a) /\ UNCHANGED stored
    BY <1>3 DEF DeleteFilterProfile
  <2> QED
    BY <1>1, <1>2, <2>1, OneEnds DEF NoFaultYet
<1>4. CASE gone # {}
  <2>1. stored' = [stored EXCEPT !.prof = rest, !.src = src] /\ Reloads(a)
    BY <1>4 DEF DeleteFilterProfile
  <2>2. NoProfile \in Strings /\ stored.src \in Seq(Row)
    BY StoredFields DEF NoProfile, Strings
  <2>3. StillThere(Known, ProfilesNamed(gone), NoProfile, ProfilesNamed(rest))
    BY DEF Known, ProfilesNamed, StillThere
  <2> HIDE DEF gone, rest
  <2>4. src \in Seq(Row)
    BY <2>2, SourcesRenamed
  <2>0. Reprofiled(stored.src, ProfilesNamed(gone), NoProfile, src)
    BY DEF Reprofiled
  <2> HIDE DEF src
  <2>5. Alike(stored.src, src)
    BY <2>0, <2>2, ReprofiledAlike
  <2>6. Named(stored.src) \subseteq Known => Named(src) \subseteq ProfilesNamed(rest)
    BY <2>0, <2>2, <2>3, ReprofiledNames
  <2>7. stored'.set = stored.set /\ stored'.src = src /\ stored'.tab = stored.tab /\ stored'.prof = rest
    BY <2>1, StoredFields
  <2>8. Writes(a)
    BY <1>1, <1>2 DEF WorkInv, WorkAt
  <2>9. GoesOn(a, "clear", [kind |-> "profile"])
    BY <1>2, <2>1, ReloadsGoes
  <2> QED
    BY <1>1, <1>2, <2>4, <2>5, <2>6, <2>7, <2>8, <2>9 DEF ProfilesChanged, NoFaultYet, Known
<1> QED
  BY <1>3, <1>4

\* A table is written.
TableChanged(a, t) ==
  /\ a \in Admins /\ Booted /\ t \in Tables /\ GoesOn(a, "rows", cfgJob'[a])
  /\ cfgJob'[a].kind = "table" /\ cfgJob'[a].table = t
  /\ \E rows \in SUBSET Nat : stored' = [stored EXCEPT !.tab[t] = rows]
  /\ stored'.set = stored.set /\ stored'.src = stored.src /\ stored'.prof = stored.prof
  /\ NoFaultYet /\ UNCHANGED <<heap, cached, liveCfg, wanted>>

LEMMA RowIs ==
  ASSUME StoreIInv, NEW a \in Admins, NEW t \in Tables, NEW rows \in SUBSET Nat, RowWritten(a, t, rows)
  PROVE  Begins(a, "table") /\ TableChanged(a, t)
<1> DEFINE act == [kind |-> "table", table |-> t]
<1>1. /\ Begins(a, "table") /\ stored' = [stored EXCEPT !.tab[t] = rows]
      /\ cfgJob' = [cfgJob EXCEPT ![a] = act] /\ act.kind = "table" /\ act.table = t
      /\ cfgPc' = [cfgPc EXCEPT ![a] = "rows"]
      /\ UNCHANGED <<heap, cached, liveCfg, cfgMutex, team, wanted, cfgCrashes, writeFails, loadFails>>
  BY DEF RowWritten, Goes
<1> HIDE DEF act
<1>2. GoesOn(a, "rows", act) /\ Booted
  BY <1>1, BootIsActor, OneGoes DEF Begins
<1>3. GoesOn(a, "rows", cfgJob'[a]) /\ cfgJob'[a] = act
  BY <1>2 DEF GoesOn
<1> QED
  BY <1>1, <1>2, <1>3, TabWritten DEF TableChanged, NoFaultYet

LEMMA LineupsAre ==
  ASSUME StoreIInv, NEW a \in Actors, replaceSDLineups(a)
  PROVE  cfgPc[a] = "rows" /\ cfgJob[a].table = "sd" /\ TableChanged(a, "sd")
<1>1. /\ cfgPc[a] = "rows" /\ cfgJob[a].table = "sd" /\ stored' = [stored EXCEPT !.tab["sd"] = {1}]
      /\ UNCHANGED <<heap, cached, liveCfg, cfgMutex, cfgPc, cfgJob, team, wanted, cfgCrashes, writeFails, loadFails>>
  BY DEF replaceSDLineups, cfgBounds
<1>2. a \in Admins /\ Booted
  BY <1>1, AdminActs DEF StoreIInv
<1>3. GoesOn(a, "rows", cfgJob'[a]) /\ cfgJob'[a] = cfgJob[a]
  BY <1>1 DEF StoreIInv, StoreTypes, OthersStay, GoesOn
<1>4. cfgJob[a].kind = "table"
  BY <1>1 DEF StoreIInv, JobTypes, JobTyped
<1>5. {1} \in SUBSET Nat
  OBVIOUS
<1>6. stored'.set = stored.set /\ stored'.src = stored.src /\ stored'.prof = stored.prof
  BY <1>1, <1>5, TablesAre, TabWritten
<1> QED
  BY <1>1, <1>2, <1>3, <1>4, <1>5, <1>6, TablesAre DEF TableChanged, NoFaultYet

LEMMA RowsReadIs ==
  ASSUME StoreIInv, NEW a \in Actors, NEW t \in Tables, RowsRead(a, t)
  PROVE  /\ a \in Admins /\ Booted /\ cfgPc[a] = "rows" /\ cfgJob[a].table = t
         /\ GoesOn(a, "assign", [kind |-> "table", table |-> t, rows |-> stored.tab[t]])
         /\ NoFaultYet /\ UNCHANGED <<stored, heap, cached, liveCfg, wanted>>
<1>1. cfgPc[a] = "rows"
  BY DEF RowsRead
<1>2. a \in Admins /\ Booted
  BY <1>1, AdminActs DEF StoreIInv
<1> QED
  BY <1>1, <1>2, OneGoes DEF RowsRead, Goes, NoFaultYet, cfgBounds

\* The live object with something replaced that is neither sources nor profiles.
LEMMA AssignIs ==
  ASSUME StoreIInv, NEW a \in Actors, NEW t \in Tables, RowsAssigned(a, t)
  PROVE  /\ a \in Admins /\ Booted /\ cfgPc[a] = "assign" /\ cfgJob[a].table = t
         /\ liveCfg \in DOMAIN heap /\ heap[liveCfg] \in Content
         /\ DOMAIN heap' = DOMAIN heap
         /\ heap'[liveCfg] = [heap[liveCfg] EXCEPT !.tab[t] = cfgJob[a].rows]
         /\ \A h \in DOMAIN heap : h # liveCfg => heap'[h] = heap[h]
         /\ \A h \in DOMAIN heap : /\ heap'[h].src = heap[h].src /\ heap'[h].prof = heap[h].prof
                                   /\ heap'[h].set = heap[h].set
         /\ GoesOn(a, "idle", NoJob)
         /\ NoFaultYet /\ UNCHANGED <<stored, cached, liveCfg, wanted>>
<1>1. /\ cfgPc[a] = "assign" /\ cfgJob[a].table = t /\ Ends(a)
      /\ heap' = [heap EXCEPT ![liveCfg].tab[t] = cfgJob[a].rows]
      /\ UNCHANGED <<stored, cached, liveCfg, cfgMutex, wanted, team, cfgCrashes, writeFails, loadFails>>
  BY DEF RowsAssigned, cfgBounds
<1>2. a \in Admins /\ Booted
  BY <1>1, AdminActs DEF StoreIInv
<1>3. heap \in Seq(Content) /\ liveCfg \in DOMAIN heap
  BY <1>2 DEF StoreIInv, CfgTypeOK, StoreTypes
<1>4. heap[liveCfg] \in Content
  BY <1>3
<1>5. /\ DOMAIN heap' = DOMAIN heap
      /\ heap'[liveCfg] = [heap[liveCfg] EXCEPT !.tab[t] = cfgJob[a].rows]
      /\ \A h \in DOMAIN heap : h # liveCfg => heap'[h] = heap[h]
  BY <1>1, <1>3
<1>6. heap'[liveCfg].src = heap[liveCfg].src /\ heap'[liveCfg].prof = heap[liveCfg].prof
      /\ heap'[liveCfg].set = heap[liveCfg].set
  BY <1>4, <1>5 DEF Content
<1> QED
  BY <1>1, <1>2, <1>3, <1>4, <1>5, <1>6, OneEnds DEF NoFaultYet

\* An actor that writes is the boot sequence before it is done, or an admin who may write.
LEMMA WriterIs ==
  ASSUME StoreIInv, NEW a \in Actors, Writing(a)
  PROVE  /\ (a \in Admins /\ Booted /\ Writes(a) /\ cfgJob[a].kind \in {"save", "toggle"})
            \/ (a = Boot /\ ~Booted /\ cfgJob[a].kind = "boot")
         /\ cfgJob[a] \in SaveJob \cup ToggleJob /\ cfgJob[a].src \in Seq(Row)
         /\ cfgJob[a].set \in [SettingKeys -> Strings]
         /\ cfgPc[a] # "set" => cfgJob[a].todo = {}
<1>1. /\ cfgJob[a] \in SaveJob \cup ToggleJob /\ (cfgJob[a].kind = "boot" => a = Boot)
      /\ cfgPc[a] # "set" => cfgJob[a].todo = {}
  BY DEF StoreIInv, JobTypes, JobTyped, Writing
<1>2. /\ cfgJob[a].src \in Seq(Row) /\ cfgJob[a].set \in [SettingKeys -> Strings]
      /\ cfgJob[a].kind \in {"save", "toggle", "boot"}
  BY <1>1 DEF SaveJob, ToggleJob
<1>3. CASE a = Boot
  BY <1>1, <1>2, <1>3 DEF Writing, Booted, StoreIInv, BootInv
<1>4. CASE a # Boot
  <2>1. a \in Admins /\ Booted
    BY <1>4, AdminOrBoot DEF Writing, StoreIInv
  <2>2. cfgJob[a].kind \in {"save", "toggle"}
    BY <1>1, <1>2, <1>4
  <2> QED
    BY <1>1, <1>2, <2>1, <2>2 DEF StoreIInv, TeamInv
<1> QED
  BY <1>3, <1>4

\* A statement of PersistConfig: the list to be written stays what it was.
Statement(a) ==
  /\ Writing(a) /\ Writing(a)' /\ OthersStay(a)
  /\ cfgJob'[a].kind = cfgJob[a].kind /\ cfgJob'[a].set = cfgJob[a].set
  /\ cfgJob[a].kind = "toggle" => cfgJob'[a].on = cfgJob[a].on
  /\ stored'.prof = stored.prof /\ stored'.tab = stored.tab
  /\ NoFaultYet /\ UNCHANGED <<heap, cached, liveCfg, wanted>>

LEMMA SettingIs ==
  ASSUME StoreIInv, NEW a \in Actors, NEW k \in SettingKeys, SetSetting(a, k)
  PROVE  /\ Statement(a) /\ cfgPc[a] = "set" /\ k \in cfgJob[a].todo
         /\ stored'.src = stored.src /\ stored'.set = [stored.set EXCEPT ![k] = cfgJob[a].set[k]]
         /\ cfgJob'[a].src = cfgJob[a].src /\ cfgJob'[a].todo = cfgJob[a].todo \ {k}
         /\ cfgPc'[a] = "set" \/ (a = Boot /\ cfgPc'[a] = "insert") \/ (a # Boot /\ cfgPc'[a] = "wipe")
         /\ cfgPc'[a] # "set" => cfgJob'[a].todo = {}
<1> DEFINE p == IF cfgJob[a].todo # {k} THEN "set" ELSE IF a = Boot THEN "insert" ELSE "wipe"
           act == [cfgJob[a] EXCEPT !.todo = @ \ {k}]
<1>1. /\ cfgPc[a] = "set" /\ k \in cfgJob[a].todo /\ stored' = [stored EXCEPT !.set[k] = cfgJob[a].set[k]]
      /\ cfgJob' = [cfgJob EXCEPT ![a] = act] /\ cfgPc' = [cfgPc EXCEPT ![a] = p]
      /\ UNCHANGED <<heap, cached, liveCfg, wanted, team, cfgCrashes, writeFails, loadFails>>
  BY DEF SetSetting, Goes, cfgBounds, StoreIInv, StoreTypes
<1>2. cfgJob[a] \in SaveJob \cup ToggleJob
  BY <1>1, WriterIs DEF Writing
<1>3. /\ act.kind = cfgJob[a].kind /\ act.todo = cfgJob[a].todo \ {k} /\ act.set = cfgJob[a].set
      /\ act.src = cfgJob[a].src /\ (cfgJob[a].kind = "toggle" => act.on = cfgJob[a].on)
  <2>1. CASE cfgJob[a] \in SaveJob
    BY <2>1 DEF SaveJob
  <2>2. CASE cfgJob[a] \in ToggleJob
    BY <2>2 DEF ToggleJob
  <2> QED
    BY <1>2, <2>1, <2>2
<1>4. p = "set" \/ (p = "insert" /\ a = Boot) \/ (p = "wipe" /\ a # Boot)
  OBVIOUS
<1>5. p # "set" => cfgJob[a].todo = {k}
  OBVIOUS
<1> HIDE DEF act, p
<1>6. GoesOn(a, p, act)
  BY <1>1, OneGoes
<1>7. /\ stored'.src = stored.src /\ stored'.set = [stored.set EXCEPT ![k] = cfgJob[a].set[k]]
      /\ stored'.prof = stored.prof /\ stored'.tab = stored.tab
  BY <1>1, StoredFields
<1> QED
  BY <1>1, <1>3, <1>4, <1>5, <1>6, <1>7 DEF Statement, GoesOn, Writing, NoFaultYet

LEMMA WipeIs ==
  ASSUME StoreIInv, NEW a \in Actors, Wipe(a)
  PROVE  /\ Statement(a) /\ cfgPc[a] = "wipe" /\ cfgPc'[a] = "insert"
         /\ stored'.src = <<>> /\ stored'.set = stored.set /\ cfgJob'[a] = cfgJob[a]
<1>1. /\ cfgPc[a] = "wipe" /\ stored' = [stored EXCEPT !.src = <<>>] /\ cfgPc' = [cfgPc EXCEPT ![a] = "insert"]
      /\ UNCHANGED <<heap, cached, liveCfg, cfgJob, wanted, team, cfgCrashes, writeFails, loadFails>>
  BY DEF Wipe, Goes, cfgBounds
<1>2. GoesOn(a, "insert", cfgJob[a])
  BY <1>1, OneMoves
<1>3. stored'.src = <<>> /\ stored'.set = stored.set /\ stored'.prof = stored.prof /\ stored'.tab = stored.tab
  BY <1>1, StoredFields
<1> QED
  BY <1>1, <1>2, <1>3 DEF Statement, GoesOn, Writing, NoFaultYet

LEMMA InsertIs ==
  ASSUME StoreIInv, NEW a \in Actors, InsertSource(a)
  PROVE  /\ Statement(a) /\ cfgPc[a] = "insert" /\ cfgPc'[a] = "insert"
         /\ cfgJob[a].src # <<>> /\ cfgJob'[a].src = Tail(cfgJob[a].src)
         /\ stored'.src = Append(stored.src, Head(cfgJob[a].src)) /\ stored'.set = stored.set
         /\ cfgJob'[a].todo = cfgJob[a].todo
<1> DEFINE act == [cfgJob[a] EXCEPT !.src = Tail(@)]
           next == Head(cfgJob[a].src)
<1>1. /\ cfgPc[a] = "insert" /\ cfgJob[a].src # <<>> /\ stored' = [stored EXCEPT !.src = Append(@, next)]
      /\ cfgJob' = [cfgJob EXCEPT ![a] = act]
      /\ UNCHANGED <<heap, cached, liveCfg, cfgPc, wanted, team, cfgCrashes, writeFails, loadFails>>
  BY DEF InsertSource, cfgBounds, StoreIInv, StoreTypes
<1>2. cfgJob[a] \in SaveJob \cup ToggleJob
  BY <1>1, WriterIs DEF Writing
<1>3. /\ act.kind = cfgJob[a].kind /\ act.todo = cfgJob[a].todo /\ act.set = cfgJob[a].set
      /\ act.src = Tail(cfgJob[a].src) /\ (cfgJob[a].kind = "toggle" => act.on = cfgJob[a].on)
  <2>1. CASE cfgJob[a] \in SaveJob
    BY <2>1 DEF SaveJob
  <2>2. CASE cfgJob[a] \in ToggleJob
    BY <2>2 DEF ToggleJob
  <2> QED
    BY <1>2, <2>1, <2>2
<1> HIDE DEF act, next
<1>4. GoesOn(a, "insert", act)
  BY <1>1 DEF StoreIInv, StoreTypes, OthersStay, GoesOn
<1>5. /\ stored'.src = Append(stored.src, next) /\ stored'.set = stored.set
      /\ stored'.prof = stored.prof /\ stored'.tab = stored.tab
  BY <1>1, StoredFields
<1> QED
  BY <1>1, <1>3, <1>4, <1>5 DEF Statement, GoesOn, Writing, NoFaultYet, next

LEMMA PersistedIs ==
  ASSUME StoreIInv, NEW a \in Actors, Persisted(a)
  PROVE  /\ a \in Admins /\ Booted /\ Writes(a) /\ cfgPc[a] = "insert" /\ cfgJob[a].src = <<>>
         /\ cfgJob[a].kind \in {"save", "toggle"} /\ cfgJob[a].todo = {}
         /\ wanted' = (IF cfgJob[a].kind = "save" THEN {UrlsOf(stored.src)} ELSE wanted)
         /\ GoesOn(a, "clear", cfgJob[a]) /\ NoFaultYet /\ UNCHANGED <<stored, heap, cached, liveCfg>>
<1>1. /\ cfgPc[a] = "insert" /\ cfgJob[a].src = <<>> /\ a # Boot /\ cfgPc' = [cfgPc EXCEPT ![a] = "clear"]
      /\ wanted' = (IF cfgJob[a].kind = "save" THEN {UrlsOf(stored.src)} ELSE wanted)
      /\ UNCHANGED <<stored, heap, cached, liveCfg, cfgJob, team, cfgCrashes, writeFails, loadFails>>
  BY DEF Persisted, Goes, cfgBounds
<1>2. GoesOn(a, "clear", cfgJob[a])
  BY <1>1, OneMoves
<1> QED
  BY <1>1, <1>2, WriterIs DEF Writing, NoFaultYet

\* A write fails: the request ends, the migration goes on to the load.
LEMMA WriteFailsIs ==
  ASSUME StoreIInv, NEW a \in Actors, WriteFails(a)
  PROVE  /\ Writing(a)
         /\ (a = Boot /\ GoesOn(a, "load", cfgJob[a]) /\ cfgJob[a].kind = "boot")
            \/ (a # Boot /\ GoesOn(a, "idle", NoJob))
         /\ ~NoFaults' /\ UNCHANGED <<stored, heap, cached, liveCfg, wanted, team, cfgCrashes>>
<1>1. /\ cfgPc[a] \in {"set", "wipe", "insert"} /\ writeFails' = writeFails + 1
      /\ IF a = Boot THEN Goes(a, "load") /\ UNCHANGED cfgJob ELSE Ends(a)
      /\ UNCHANGED <<stored, heap, cached, liveCfg, wanted, team, cfgCrashes>>
  BY DEF WriteFails
<1>2. ~NoFaults'
  BY <1>1 DEF StoreIInv, StoreTypes, NoFaults
<1>3. CASE a = Boot
  <2>1. cfgPc' = [cfgPc EXCEPT ![a] = "load"] /\ UNCHANGED cfgJob
    BY <1>1, <1>3 DEF Goes
  <2>2. GoesOn(a, "load", cfgJob[a])
    BY <2>1, OneMoves
  <2>3. cfgJob[a].kind = "boot"
    BY <1>1, <1>3 DEF StoreIInv, BootInv
  <2> QED
    BY <1>1, <1>2, <1>3, <2>2, <2>3 DEF Writing
<1>4. CASE a # Boot
  BY <1>1, <1>2, <1>4, OneEnds DEF Writing
<1> QED
  BY <1>3, <1>4

-----------------------------------------------------------------------------
\* ClearConfigCache finds nobody reading.
LEMMA ClearIs ==
  ASSUME StoreIInv, NEW a \in Actors, ClearConfigCache(a)
  PROVE  /\ a \in Admins /\ Booted /\ cfgPc[a] = "clear" /\ cached' = 0
         /\ GoesOn(a, IF cfgJob[a].kind = "toggle" THEN "watch" ELSE "load", cfgJob[a])
         /\ \A b \in Actors : cfgPc'[b] # "reading"
         /\ NoFaultYet /\ UNCHANGED <<stored, heap, liveCfg, wanted>>
<1> DEFINE p == IF cfgJob[a].kind = "toggle" THEN "watch" ELSE "load"
<1>1. /\ cfgPc[a] = "clear" /\ cfgMutex = Nobody /\ cached' = 0 /\ cfgPc' = [cfgPc EXCEPT ![a] = p]
      /\ UNCHANGED <<stored, heap, liveCfg, cfgJob, wanted, team, cfgCrashes, writeFails, loadFails>>
  BY DEF ClearConfigCache, Goes, cfgBounds
<1>2. a \in Admins /\ Booted
  BY <1>1, AdminActs DEF StoreIInv
<1>3. p # "reading"
  OBVIOUS
<1> HIDE DEF p
<1>4. GoesOn(a, p, cfgJob[a])
  BY <1>1, OneMoves
<1>5. \A b \in Actors : cfgPc[b] # "reading"
  BY <1>1, BootIsActor DEF StoreIInv, CfgTypeOK
<1>6. \A b \in Actors : cfgPc'[b] # "reading"
  BY <1>3, <1>4, <1>5 DEF GoesOn, OthersStay
<1> QED
  BY <1>1, <1>2, <1>4, <1>6 DEF p, NoFaultYet

\* The object at ptr is handed to the actor.
Handed(a, ptr) ==
  /\ OthersStay(a) /\ cfgJob'[a].kind = cfgJob[a].kind /\ cfgJob'[a].ptr = ptr
  /\ cfgJob[a].kind = "toggle" => cfgPc'[a] = "toggle" /\ cfgJob'[a].on = cfgJob[a].on
  /\ cfgJob[a].kind # "toggle" => cfgPc'[a] = "swap"

LEMMA HandedIs ==
  ASSUME StoreIInv, NEW a \in Actors, NEW ptr, AfterLoad(a, ptr)
  PROVE  Handed(a, ptr)
<1> DEFINE act == [kind |-> cfgJob[a].kind, on |-> Carried(a), ptr |-> ptr]
           p == IF cfgJob[a].kind = "toggle" THEN "toggle" ELSE "swap"
<1>1. cfgJob' = [cfgJob EXCEPT ![a] = act] /\ cfgPc' = [cfgPc EXCEPT ![a] = p]
  BY DEF AfterLoad, Goes
<1>2. act.kind = cfgJob[a].kind /\ act.ptr = ptr /\ act.on = Carried(a)
  OBVIOUS
<1>3. p = IF cfgJob[a].kind = "toggle" THEN "toggle" ELSE "swap"
  OBVIOUS
<1> HIDE DEF act, p
<1>4. GoesOn(a, p, act)
  BY <1>1, OneGoes
<1> QED
  BY <1>2, <1>3, <1>4 DEF GoesOn, Handed, Carried

LEMMA LoadIs ==
  ASSUME StoreIInv, NEW a \in Actors, LoadConfig(a)
  PROVE  /\ cfgPc[a] = "load" /\ NoFaultYet /\ UNCHANGED <<stored, heap, cached, liveCfg, wanted>>
         /\ (cached # 0 /\ cached \in DOMAIN heap /\ Handed(a, cached))
            \/ (cached = 0 /\ OthersStay(a) /\ cfgPc'[a] = "reading" /\ cfgJob'[a].rows = stored
                /\ cfgJob'[a].kind = cfgJob[a].kind /\ (cfgJob[a].kind = "toggle" => cfgJob'[a].on = cfgJob[a].on))
<1>1. cfgPc[a] = "load" /\ UNCHANGED <<stored, heap, cached, liveCfg, wanted, team, cfgCrashes, writeFails, loadFails>>
  BY DEF LoadConfig, cfgBounds
<1>2. CASE cached # 0
  <2>1. AfterLoad(a, cached)
    BY <1>2 DEF LoadConfig
  <2>2. cached \in DOMAIN heap
    BY <1>2 DEF StoreIInv, CfgTypeOK, StoreTypes
  <2> QED
    BY <1>1, <1>2, <2>1, <2>2, HandedIs DEF NoFaultYet
<1>3. CASE cached = 0
  <2> DEFINE act == [kind |-> cfgJob[a].kind, on |-> Carried(a), rows |-> stored]
  <2>1. cfgJob' = [cfgJob EXCEPT ![a] = act] /\ cfgPc' = [cfgPc EXCEPT ![a] = "reading"]
    BY <1>3 DEF LoadConfig, Goes
  <2>2. act.kind = cfgJob[a].kind /\ act.rows = stored /\ act.on = Carried(a)
    OBVIOUS
  <2> HIDE DEF act
  <2>3. GoesOn(a, "reading", act)
    BY <2>1, OneGoes
  <2> QED
    BY <1>1, <1>3, <2>2, <2>3 DEF GoesOn, Carried, NoFaultYet
<1> QED
  BY <1>2, <1>3

\* The object cfg is published, and nobody reads any more.
LEMMA PublishIs ==
  ASSUME StoreIInv, NEW a \in Actors, cfgPc[a] = "reading", NEW cfg \in Content, Publish(a, cfg)
  PROVE  /\ Handed(a, Len(heap) + 1) /\ cached' = Len(heap) + 1 /\ Len(heap) \in Nat
         /\ DOMAIN heap = 1..Len(heap) /\ DOMAIN heap' = 1..(Len(heap) + 1)
         /\ heap'[Len(heap) + 1] = cfg /\ \A h \in DOMAIN heap : heap'[h] = heap[h]
         /\ \A b \in Actors : cfgPc'[b] # "reading"
<1>1. heap' = Append(heap, cfg) /\ cached' = Len(heap) + 1 /\ AfterLoad(a, Len(heap) + 1)
  BY DEF Publish
<1>2. heap \in Seq(Content)
  BY DEF StoreIInv, StoreTypes
<1>3. /\ Len(heap) \in Nat /\ DOMAIN heap = 1..Len(heap) /\ DOMAIN heap' = 1..(Len(heap) + 1)
      /\ heap'[Len(heap) + 1] = cfg /\ \A h \in DOMAIN heap : heap'[h] = heap[h]
  BY <1>1, <1>2
<1>4. Handed(a, Len(heap) + 1)
  BY <1>1, HandedIs
<1>5. \A b \in Actors \ {a} : cfgPc[b] # "reading"
  BY DEF StoreIInv, CfgTypeOK
<1>6. cfgPc'[a] # "reading"
  BY <1>4 DEF Handed
<1>7. \A b \in Actors : cfgPc'[b] # "reading"
  BY <1>4, <1>5, <1>6 DEF Handed, OthersStay
<1> QED
  BY <1>1, <1>3, <1>4, <1>7

\* What a load makes of rows: the tables now, but for sources and settings read before.
LEMMA ReadIs ==
  ASSUME StoreIInv, NEW a \in Actors, loadFilterProfilesFromDB(a)
  PROVE  \E rows \in Rows :
           /\ cfgPc[a] = "reading" /\ cfgJob[a].rows \in Rows /\ rows = [cfgJob[a].rows EXCEPT !.prof = stored.prof]
           /\ rows.src = cfgJob[a].rows.src /\ rows.set = cfgJob[a].rows.set /\ rows.prof = stored.prof
           /\ rows.tab = cfgJob[a].rows.tab /\ loadFromDB(rows) \in Content
           /\ Publish(a, loadFromDB(rows)) /\ NoFaultYet /\ UNCHANGED <<stored, liveCfg, wanted>>
<1> DEFINE rows == [cfgJob[a].rows EXCEPT !.prof = stored.prof]
<1>1. cfgPc[a] = "reading" /\ Publish(a, loadFromDB(rows))
      /\ UNCHANGED <<stored, liveCfg, wanted, team, cfgCrashes, writeFails, loadFails>>
  BY DEF loadFilterProfilesFromDB, cfgBounds
<1>2. cfgJob[a].rows \in Rows
  BY <1>1 DEF StoreIInv, JobTypes, JobTyped
<1>3. /\ rows \in Rows /\ rows.src = cfgJob[a].rows.src /\ rows.set = cfgJob[a].rows.set /\ rows.prof = stored.prof
      /\ rows.tab = cfgJob[a].rows.tab /\ rows = [cfgJob[a].rows EXCEPT !.prof = stored.prof]
  BY <1>2, StoredFields DEF Rows
<1> HIDE DEF rows
<1>4. loadFromDB(rows) \in Content
  BY <1>3, LoadedTyped
<1> QED
  BY <1>1, <1>2, <1>3, <1>4 DEF NoFaultYet

LEMMA ReadFailsIs ==
  ASSUME StoreIInv, NEW a \in Actors, LoadFails(a)
  PROVE  /\ cfgPc[a] = "reading" /\ Publish(a, getDefaultConfig) /\ ~NoFaults'
         /\ UNCHANGED <<stored, liveCfg, wanted, team, cfgCrashes>>
<1>1. cfgPc[a] = "reading" /\ Publish(a, getDefaultConfig) /\ loadFails' = loadFails + 1
      /\ UNCHANGED <<stored, liveCfg, wanted, team, cfgCrashes>>
  BY DEF LoadFails
<1> QED
  BY <1>1 DEF StoreIInv, StoreTypes, NoFaults

LEMMA SwapIs ==
  ASSUME StoreIInv, NEW a \in Actors, Swap(a)
  PROVE  /\ cfgPc[a] = "swap" /\ liveCfg' = cfgJob[a].ptr /\ liveCfg' \in DOMAIN heap
         /\ GoesOn(a, "idle", NoJob) /\ NoFaultYet /\ UNCHANGED <<stored, heap, cached, wanted>>
<1>1. /\ cfgPc[a] = "swap" /\ liveCfg' = cfgJob[a].ptr /\ Ends(a)
      /\ UNCHANGED <<stored, heap, cached, wanted, team, cfgCrashes, writeFails, loadFails>>
  BY DEF Swap, cfgBounds
<1>2. liveCfg' \in DOMAIN heap
  BY <1>1 DEF StoreIInv, CfgTypeOK, StoreTypes
<1> QED
  BY <1>1, <1>2, OneEnds DEF NoFaultYet

\* An object with the flag changed.
FlagSet(h, on) ==
  /\ h \in DOMAIN heap /\ heap[h] \in Content /\ DOMAIN heap' = DOMAIN heap
  /\ heap'[h] = [heap[h] EXCEPT !.set["watcher"] = on] /\ heap'[h] \in Content
  /\ heap'[h].set = [heap[h].set EXCEPT !["watcher"] = on]
  /\ \A j \in DOMAIN heap : /\ heap'[j].src = heap[j].src /\ heap'[j].prof = heap[j].prof
                            /\ j # h => heap'[j] = heap[j]

LEMMA FlagSetIs ==
  ASSUME StoreIInv, NEW h \in DOMAIN heap, NEW on \in Flags, heap' = [heap EXCEPT ![h].set["watcher"] = on]
  PROVE  FlagSet(h, on)
<1>1. heap \in Seq(Content) /\ heap[h] \in Content
  BY DEF StoreIInv, StoreTypes
<1> DEFINE cfg == [heap[h] EXCEPT !.set["watcher"] = on]
<1>2. on \in Strings
  BY DEF Flags, Strings
<1>3. /\ cfg \in Content /\ cfg.set = [heap[h].set EXCEPT !["watcher"] = on] /\ cfg.src = heap[h].src
      /\ cfg.prof = heap[h].prof
  BY <1>1, <1>2, ConfigAssumption DEF Content
<1>4. heap' = [heap EXCEPT ![h] = cfg] /\ cfg = [heap[h] EXCEPT !.set["watcher"] = on]
  OBVIOUS
<1> HIDE DEF cfg
<1>5. DOMAIN heap' = DOMAIN heap /\ heap'[h] = cfg /\ \A j \in DOMAIN heap : j # h => heap'[j] = heap[j]
  BY <1>1, <1>4
<1> QED
  BY <1>1, <1>3, <1>4, <1>5 DEF FlagSet

LEMMA WatcherIs ==
  ASSUME StoreIInv, NEW a \in Actors, persistWatcherConfig(a)
  PROVE  LET ptr == cfgJob[a].ptr
             act == [kind |-> "toggle", on |-> cfgJob[a].on, set |-> heap'[ptr].set, todo |-> SettingKeys,
                     src |-> heap[ptr].src]
         IN /\ a \in Admins /\ Booted /\ Writes(a) /\ cfgPc[a] = "toggle" /\ cfgJob[a].kind = "toggle"
            /\ cfgJob[a].on \in Flags /\ FlagSet(ptr, cfgJob[a].on) /\ GoesOn(a, "set", act)
            /\ NoFaultYet /\ UNCHANGED <<stored, cached, liveCfg, wanted>>
<1> DEFINE ptr == cfgJob[a].ptr
           on == cfgJob[a].on
           cfg == [heap[ptr] EXCEPT !.set["watcher"] = on]
           act == [kind |-> "toggle", on |-> on, set |-> heap'[ptr].set, todo |-> SettingKeys, src |-> heap[ptr].src]
<1>1. /\ cfgPc[a] = "toggle" /\ heap' = [heap EXCEPT ![ptr] = cfg]
      /\ cfgJob' = [cfgJob EXCEPT ![a] = [kind |-> "toggle", on |-> on, set |-> cfg.set, todo |-> SettingKeys, src |-> cfg.src]]
      /\ cfgPc' = [cfgPc EXCEPT ![a] = "set"]
      /\ UNCHANGED <<stored, cached, liveCfg, wanted, team, cfgCrashes, writeFails, loadFails>>
  BY DEF persistWatcherConfig, Goes, cfgBounds
<1>2. a \in Admins /\ Booted
  BY <1>1, AdminActs DEF StoreIInv
<1>3. cfgJob[a].kind = "toggle" /\ on \in Flags
  BY <1>1 DEF StoreIInv, JobTypes, JobTyped
<1>4. ptr \in DOMAIN heap
  BY <1>1 DEF StoreIInv, CfgTypeOK, StoreTypes
<1>5. Writes(a)
  BY <1>2, <1>3 DEF StoreIInv, TeamInv
<1>6. heap' = [heap EXCEPT ![ptr].set["watcher"] = on]
  BY <1>1
<1> HIDE DEF ptr, on
<1>7. FlagSet(ptr, on)
  BY <1>3, <1>4, <1>6, FlagSetIs
<1>8. cfg = heap'[ptr] /\ heap'[ptr].src = heap[ptr].src
  BY <1>4, <1>7 DEF FlagSet
<1> HIDE DEF cfg
<1>9. cfgJob' = [cfgJob EXCEPT ![a] = act]
  BY <1>1, <1>8
<1> HIDE DEF act
<1>10. GoesOn(a, "set", act)
  BY <1>1, <1>9, OneGoes
<1> QED
  BY <1>1, <1>2, <1>3, <1>5, <1>7, <1>10 DEF act, ptr, on, NoFaultYet

LEMMA LiveFlagIs ==
  ASSUME StoreIInv, NEW a \in Actors, SetLiveWatcher(a)
  PROVE  /\ a \in Admins /\ Booted /\ cfgPc[a] = "watch" /\ cfgJob[a].kind = "toggle" /\ WritesFlag(a)
         /\ cfgJob[a].on \in Flags /\ FlagSet(liveCfg, cfgJob[a].on) /\ GoesOn(a, "idle", NoJob)
         /\ NoFaultYet /\ UNCHANGED <<stored, cached, liveCfg, wanted>>
<1>1. /\ cfgPc[a] = "watch" /\ Ends(a)
      /\ heap' = [heap EXCEPT ![liveCfg].set["watcher"] = cfgJob[a].on]
      /\ UNCHANGED <<stored, cached, liveCfg, wanted, team, cfgCrashes, writeFails, loadFails>>
  BY DEF SetLiveWatcher, cfgBounds
<1>2. a \in Admins /\ Booted
  BY <1>1, AdminActs DEF StoreIInv
<1>3. cfgJob[a].kind = "toggle" /\ WritesFlag(a) /\ cfgJob[a].on \in Flags
  BY <1>1 DEF StoreIInv, JobTypes, JobTyped, WritesFlag
<1>4. liveCfg \in DOMAIN heap
  BY <1>2 DEF StoreIInv, CfgTypeOK, StoreTypes
<1> QED
  BY <1>1, <1>2, <1>3, <1>4, FlagSetIs, OneEnds DEF NoFaultYet

-----------------------------------------------------------------------------
\* The migration writes what config.json has, on empty settings; otherwise boot goes on to load.
LEMMA MigrateIs ==
  ASSUME StoreIInv, MigrateFromJSON
  PROVE  /\ cfgPc[Boot] = "boot" /\ ~Booted /\ cached = 0 /\ NoFaultYet
         /\ UNCHANGED <<stored, heap, cached, liveCfg, wanted>>
         /\ \/ /\ \A k \in SettingKeys : stored.set[k] = Unset
               /\ GoesOn(Boot, "set", [kind |-> "boot", set |-> JsonDoc.set, todo |-> SettingKeys, src |-> JsonDoc.src])
            \/ GoesOn(Boot, "load", [kind |-> "boot"])
<1>1. cfgPc[Boot] = "boot"
      /\ UNCHANGED <<stored, heap, cached, liveCfg, wanted, team, cfgCrashes, writeFails, loadFails>>
  BY DEF MigrateFromJSON, cfgBounds
<1>2. cached = 0 /\ ~Booted
  BY <1>1 DEF StoreIInv, BootInv, Booted
<1> DEFINE full == [kind |-> "boot", set |-> JsonDoc.set, todo |-> SettingKeys, src |-> JsonDoc.src]
           bare == [kind |-> "boot"]
<1>3. CASE jsonFile = "present" /\ \A k \in SettingKeys : stored.set[k] = Unset
  <2>1. cfgJob' = [cfgJob EXCEPT ![Boot] = full] /\ cfgPc' = [cfgPc EXCEPT ![Boot] = "set"]
    BY <1>3 DEF MigrateFromJSON, Goes
  <2> HIDE DEF full
  <2>2. GoesOn(Boot, "set", full)
    BY <2>1, BootIsActor, OneGoes
  <2> QED
    BY <1>1, <1>2, <1>3, <2>2 DEF full, NoFaultYet
<1>4. CASE ~(jsonFile = "present" /\ \A k \in SettingKeys : stored.set[k] = Unset)
  <2>1. cfgJob' = [cfgJob EXCEPT ![Boot] = bare] /\ cfgPc' = [cfgPc EXCEPT ![Boot] = "load"]
    BY <1>4 DEF MigrateFromJSON, Goes
  <2> HIDE DEF bare
  <2>2. GoesOn(Boot, "load", bare)
    BY <2>1, BootIsActor, OneGoes
  <2> QED
    BY <1>1, <1>2, <2>2 DEF bare, NoFaultYet
<1> QED
  BY <1>3, <1>4

LEMMA RenameIs ==
  ASSUME StoreIInv, NEW r \in BOOLEAN, RenameJSON(r)
  PROVE  /\ cfgPc[Boot] = "insert" /\ ~Booted /\ cached = 0 /\ cfgJob[Boot].src = <<>>
         /\ cfgJob[Boot].kind = "boot" /\ GoesOn(Boot, "load", cfgJob[Boot]) /\ \A b \in Admins : cfgPc[b] = "idle"
         /\ stored'.set = stored.set /\ stored'.src = stored.src /\ stored'.prof = stored.prof
         /\ NoFaultYet /\ UNCHANGED <<heap, cached, liveCfg, wanted>>
<1>1. /\ cfgPc[Boot] = "insert" /\ cfgJob[Boot].src = <<>> /\ stored' = [stored EXCEPT !.tab = JsonDoc.tab]
      /\ cfgPc' = [cfgPc EXCEPT ![Boot] = "load"]
      /\ UNCHANGED <<heap, cached, liveCfg, cfgJob, wanted, team, cfgCrashes, writeFails, loadFails>>
  BY DEF RenameJSON, Goes, cfgBounds
<1>2. cached = 0 /\ cfgJob[Boot].kind = "boot" /\ ~Booted /\ \A b \in Admins : cfgPc[b] = "idle"
  BY <1>1 DEF StoreIInv, BootInv, Booted
<1>3. stored'.set = stored.set /\ stored'.src = stored.src /\ stored'.prof = stored.prof
  BY <1>1, StoredFields
<1>4. GoesOn(Boot, "load", cfgJob[Boot])
  BY <1>1, BootIsActor, OneMoves
<1> QED
  BY <1>1, <1>2, <1>3, <1>4 DEF NoFaultYet

-----------------------------------------------------------------------------
(* The steps that leave sources and profiles alone.                        *)

\* What is claimed of an actor that holds no list and no object.
LEMMA Claimless ==
  ASSUME NEW a \in Actors, cfgPc'[a] \notin {"set", "wipe", "insert", "reading", "page", "swap", "toggle"}
  PROVE  KeysAt(a)' /\ FineAt(a)' /\ WantedAt(a)' /\ ProfileAt(a)' /\ ~Writing(a)'
BY DEF KeysAt, FineAt, WantedAt, ProfileAt, Writing

LEMMA SameObjects == UNCHANGED heap => SameSources /\ SameProfiles
BY DEF SameSources, SameProfiles

LEMMA NotBoot ==
  ASSUME NEW a \in Actors, OthersStay(a), a # Boot
  PROVE  cfgPc'[Boot] = cfgPc[Boot] /\ (Booted' <=> Booted)
BY BootIsActor DEF OthersStay, Booted

LEMMA Untouched ==
  ASSUME ProviderIInv, NEW a \in Actors, MayStep(a), OthersStay(a), NoFaultYet,
         UNCHANGED <<stored, heap, cached, liveCfg, wanted>>,
         ~Booted' => ~Booted, cfgPc'[Boot] = "boot" => cfgPc[Boot] = "boot",
         cfgPc'[Boot] = "set" => cfgPc[Boot] = "set" \/ stored.src = <<>>,
         a \in Admins => WorkAt(a)', KeysAt(a)', OneWriter => FineAt(a)',
         OneQuiet => WantedAt(a)', Writing(a) => Writing(a)', StaleAt(a) => StaleAt(a)',
         OnlyOne(Acting) => ProfileAt(a)', Changing(a) => Changing(a)', Clearing(a) => Clearing(a)',
         Solo /\ AllSettled /\ NoFaults /\ LiveAt(a) => LiveAt(a)'
  PROVE  ProvidersIInv'
<1> USE DEF ProviderIInv, ProvidersIInv
<1>1. team' = team /\ cfgCrashes' = cfgCrashes /\ (NoFaults' => NoFaults)
  BY DEF NoFaultYet, NoFaults
<1>2. FineInv'
  <2>1. OneWriter => \A h \in DOMAIN heap' : Fine(heap'[h].src)
    BY DEF FineInv
  <2> QED
    BY <1>1, <2>1, FineKept
<1>3. KeysInv'
  <2>1. \A h \in DOMAIN heap' : Valued(heap'[h].set)
    BY DEF KeysInv
  <2>2. \A k \in SettingKeys : stored.set[k] # Unset => stored'.set[k] # Unset
    OBVIOUS
  <2> QED
    BY <2>1, <2>2, KeysKept
<1>4. WorkInv'
  BY <1>1, WorkKept
<1>5. WantedInv'
  <2>1. cached' = cached /\ stored'.src = stored.src /\ UrlsOf(stored'.src) = UrlsOf(stored.src)
    OBVIOUS
  <2> QED
    BY <1>1, <2>1, SameObjects, WantedKept DEF StoreIInv
<1>6. ProfileInv'
  BY <1>1, SameObjects, ProfileKept DEF StoreIInv
<1>7. LiveInv'
  BY <1>1, LiveKept
<1> QED
  BY <1>2, <1>3, <1>4, <1>5, <1>6, <1>7

LEMMA PageKeeps ==
  ASSUME ProviderIInv, NEW a \in Admins, handleGetConfig(a)
  PROVE  ProvidersIInv'
<1> DEFINE act == [kind |-> "page", page |-> Shown(heap[liveCfg])]
<1>1. /\ Begins(a, "edit") /\ GoesOn(a, "page", act)
      /\ NoFaultYet /\ UNCHANGED <<stored, heap, cached, liveCfg, wanted>>
  BY PageIs DEF ProviderIInv
<1>2. act.kind = "page" /\ act.page = Shown(heap[liveCfg])
  OBVIOUS
<1> HIDE DEF act
<1>3. MayStep(a) /\ Booted /\ cfgPc[a] = "idle" /\ team[a] \cap Acting # {} /\ a \in Actors /\ a # Boot
  BY <1>1, Requesting, BootIsActor DEF Acting, WritingKinds
<1>4. liveCfg \in DOMAIN heap /\ heap[liveCfg] \in Content
  BY <1>3 DEF ProviderIInv, StoreIInv, CfgTypeOK, StoreTypes
<1>5. OthersStay(a) /\ cfgPc'[a] = "page" /\ cfgJob'[a] = act
  BY <1>1 DEF GoesOn
<1>6. WorkAt(a)'
  BY <1>1, <1>2, <1>3, <1>5 DEF WorkAt, NoFaultYet
<1>7. /\ Shown(heap[liveCfg]).set = heap[liveCfg].set /\ Shown(heap[liveCfg]).src \in Seq(Row)
      /\ Alike(heap[liveCfg].src, Shown(heap[liveCfg]).src) /\ heap[liveCfg].src \in Seq(Row)
  BY <1>4, ShownIs DEF Content
<1>8. KeysAt(a)'
  <2>1. Valued(heap[liveCfg].set)
    BY <1>4 DEF ProviderIInv, ProvidersIInv, KeysInv
  <2> QED
    BY <1>2, <1>5, <1>7, <2>1 DEF KeysAt, Writing, Valued
<1>9. OneWriter => FineAt(a)'
  <2>1. OneWriter => Fine(heap[liveCfg].src)
    BY <1>4 DEF ProviderIInv, ProvidersIInv, FineInv
  <2>2. OneWriter => Fine(Shown(heap[liveCfg]).src)
    BY <1>7, <2>1, AlikeKeeps
  <2> QED
    BY <1>2, <1>5, <2>2 DEF FineAt, Writing
<1>10. WantedAt(a)' /\ ProfileAt(a)' /\ ~Writing(a) /\ ~StaleAt(a) /\ ~Changing(a) /\ ~Clearing(a)
  BY <1>3, <1>5 DEF WantedAt, ProfileAt, Writing, StaleAt, Changing, Clearing
<1>11. LiveAt(a) => LiveAt(a)'
  BY <1>1, <1>2, <1>3, <1>5 DEF LiveAt, Toggling, WritesFlag
<1> QED
  BY <1>1, <1>3, <1>5, <1>6, <1>8, <1>9, <1>10, <1>11, NotBoot, Untouched

LEMMA AsksKeep ==
  ASSUME ProviderIInv, NEW a \in Admins, NEW kind \in {"toggle", "restart", "profile"}, NEW p, NEW act,
         Asks(a, kind, p, act),
         \/ kind = "toggle" /\ p = "load"
         \/ kind = "restart" /\ p = "clear"
         \/ kind = "profile" /\ p = "delete"
  PROVE  ProvidersIInv'
<1>1. /\ Begins(a, kind) /\ OthersStay(a) /\ cfgPc'[a] = p /\ cfgJob'[a] = act /\ act.kind = kind
      /\ NoFaultYet /\ UNCHANGED <<stored, heap, cached, liveCfg, wanted>>
  BY DEF Asks, GoesOn
<1>2. /\ MayStep(a) /\ Booted /\ cfgPc[a] = "idle" /\ team[a] \cap Acting # {} /\ a \in Actors /\ a # Boot
      /\ kind \in WritingKinds => Writes(a)
  BY <1>1, Requesting, BootIsActor DEF Acting, WritingKinds
<1>3. WorkAt(a)'
  <2>1. kind = "profile" => Writes(a)
    BY <1>2 DEF WritingKinds
  <2>2. team' = team
    BY <1>1 DEF NoFaultYet
  <2>3. Writes(a)' = Writes(a)
    BY <2>2 DEF Writes
  <2>4. team[a] # {}
    BY <1>2
  <2> QED
    BY <1>1, <1>2, <2>1, <2>2, <2>3, <2>4 DEF WorkAt
<1>4. KeysAt(a)' /\ FineAt(a)' /\ WantedAt(a)' /\ ProfileAt(a)'
  BY <1>1, <1>2, Claimless
<1>5. ~Writing(a) /\ ~StaleAt(a) /\ ~Changing(a) /\ ~Clearing(a)
  BY <1>2 DEF Writing, StaleAt, Changing, Clearing
<1>6. LiveAt(a) => LiveAt(a)'
  BY <1>1, <1>2 DEF LiveAt, Toggling, WritesFlag
<1> QED
  BY <1>1, <1>2, <1>3, <1>4, <1>5, <1>6, NotBoot, Untouched

LEMMA RowsReadKeeps ==
  ASSUME ProviderIInv, NEW a \in Actors, NEW t \in Tables, RowsRead(a, t)
  PROVE  ProvidersIInv'
<1> DEFINE act == [kind |-> "table", table |-> t, rows |-> stored.tab[t]]
<1>1. /\ a \in Admins /\ Booted /\ cfgPc[a] = "rows" /\ cfgJob[a].table = t
      /\ GoesOn(a, "assign", act)
      /\ NoFaultYet /\ UNCHANGED <<stored, heap, cached, liveCfg, wanted>>
  BY RowsReadIs DEF ProviderIInv
<1>2. act.kind = "table" /\ act.table = t /\ act.rows = stored.tab[t]
  OBVIOUS
<1> HIDE DEF act
<1>3. OthersStay(a) /\ cfgPc'[a] = "assign" /\ cfgJob'[a] = act
  BY <1>1 DEF GoesOn
<1>4. MayStep(a) /\ team[a] # {} /\ a # Boot
  BY <1>1, WhoSteps, BootIsActor DEF MayStep
<1>5. WorkAt(a)'
  BY <1>1, <1>2, <1>3, <1>4 DEF WorkAt, NoFaultYet
<1>6. KeysAt(a)' /\ FineAt(a)' /\ WantedAt(a)' /\ ProfileAt(a)'
  BY <1>3, Claimless
<1>7. ~Writing(a) /\ ~StaleAt(a) /\ ~Changing(a) /\ ~Clearing(a)
  BY <1>1 DEF Writing, StaleAt, Changing, Clearing
<1>8. LiveAt(a) => LiveAt(a)'
  BY <1>1, <1>2, <1>3 DEF LiveAt, Toggling, WritesFlag
<1> QED
  BY <1>1, <1>3, <1>4, <1>5, <1>6, <1>7, <1>8, NotBoot, Untouched

LEMMA DeletesNothing ==
  ASSUME ProviderIInv, NEW a \in Admins, cfgPc[a] = "delete", GoesOn(a, "idle", NoJob),
         NoFaultYet, UNCHANGED <<stored, heap, cached, liveCfg, wanted>>
  PROVE  ProvidersIInv'
<1>1. a \in Actors /\ a # Boot /\ MayStep(a)
  BY BootIsActor, WhoSteps
<1>2. OthersStay(a) /\ cfgPc'[a] = "idle" /\ cfgJob'[a].kind = "none"
  BY DEF GoesOn, NoJob
<1>3. WorkAt(a)'
  BY <1>2 DEF WorkAt
<1>4. KeysAt(a)' /\ FineAt(a)' /\ WantedAt(a)' /\ ProfileAt(a)'
  BY <1>1, <1>2, Claimless
<1>5. ~Writing(a) /\ ~StaleAt(a) /\ ~Changing(a) /\ ~Clearing(a)
  BY DEF Writing, StaleAt, Changing, Clearing
<1>6. LiveAt(a) => LiveAt(a)'
  BY <1>2 DEF LiveAt, Toggling, WritesFlag
<1> QED
  BY <1>1, <1>2, <1>3, <1>4, <1>5, <1>6, NotBoot, Untouched

\* Nobody is between a statement and its clear while an actor that may write is elsewhere.
LEMMA NotStale ==
  ASSUME ProviderIInv, OneWriter, NEW a \in Actors, ~StaleAt(a),
         (a \in Admins /\ Booted /\ Writes(a)) \/ (a = Boot /\ ~Booted)
  PROVE  ~Stale
<1>1. ASSUME NEW b \in Actors, b # a PROVE ~StaleAt(b)
  <2>1. /\ ~Writing(b)
        /\ cfgPc[b] # "idle" => cfgJob[b].kind \notin {"page", "save", "toggle", "profile"}
    BY <1>1, OthersRead
  <2> QED
    BY <2>1 DEF StaleAt
<1> QED
  BY <1>1 DEF Stale

\* Nobody else has changed profiles without clearing the cache.
LEMMA NotClearing ==
  ASSUME ProviderIInv, OnlyOne(Acting), NEW a \in Actors, ~Clearing(a),
         (a \in Admins /\ Booted /\ team[a] \cap Acting # {}) \/ (a = Boot /\ ~Booted)
  PROVE  \A b \in Actors : ~Clearing(b)
<1>1. ASSUME NEW b \in Actors, b # a PROVE ~Clearing(b)
  <2>1. cfgPc[b] \in {"idle", "rows", "assign"}
    BY <1>1, OthersTable
  <2> QED
    BY <2>1 DEF Clearing
<1> QED
  BY <1>1

\* What an actor at a load or after it is.
LEMMA Loading ==
  ASSUME ProviderIInv, NEW a \in Actors, cfgPc[a] \in {"clear", "load", "reading", "swap", "toggle"}
  PROVE  /\ MayStep(a)
         /\ (a \in Admins /\ Booted /\ team[a] \cap Acting # {}) \/ (a = Boot /\ ~Booted)
         /\ a = Boot => cfgJob[a].kind = "boot" /\ cfgPc[a] \in {"load", "reading", "swap"}
         /\ a # Boot => a \in Admins /\ Booted
         /\ cfgJob[a].kind = "toggle" => a \in Admins /\ Booted /\ Writes(a)
<1>1. MayStep(a)
  BY WhoSteps
<1>2. a = Boot => cfgJob[a].kind = "boot" /\ cfgPc[a] \in {"load", "reading", "swap"}
  BY DEF ProviderIInv, StoreIInv, BootInv
<1>3. a \in Admins => team[a] \cap Acting # {} /\ (cfgJob[a].kind = "toggle" => Writes(a))
  BY DEF ProviderIInv, StoreIInv, ProvidersIInv, WorkInv, WorkAt, TeamInv
<1> QED
  BY <1>1, <1>2, <1>3, BootIsActor DEF MayStep

LEMMA LoadKeeps ==
  ASSUME ProviderIInv, NEW a \in Actors, LoadConfig(a)
  PROVE  ProvidersIInv'
<1> USE DEF ProviderIInv
<1>1. cfgPc[a] = "load" /\ NoFaultYet /\ UNCHANGED <<stored, heap, cached, liveCfg, wanted>>
  BY LoadIs
<1>2. /\ OthersStay(a) /\ cfgJob'[a].kind = cfgJob[a].kind /\ cfgPc'[a] \in {"reading", "swap", "toggle"}
      /\ cfgPc'[a] = "toggle" => cfgJob[a].kind = "toggle"
      /\ cfgJob[a].kind = "toggle" => cfgPc'[a] # "swap"
      /\ cfgPc'[a] \in {"swap", "toggle"} => cached # 0 /\ cached \in DOMAIN heap /\ cfgJob'[a].ptr = cached
      /\ cfgPc'[a] = "reading" => cached = 0 /\ cfgJob'[a].rows = stored
  BY LoadIs DEF Handed
<1>3. /\ MayStep(a)
      /\ (a \in Admins /\ Booted /\ team[a] \cap Acting # {}) \/ (a = Boot /\ ~Booted)
      /\ a = Boot => cfgJob[a].kind = "boot" /\ cfgPc[a] \in {"load", "reading", "swap"}
      /\ a # Boot => a \in Admins /\ Booted
      /\ cfgJob[a].kind = "toggle" => a \in Admins /\ Booted /\ Writes(a)
  BY <1>1, Loading
<1>4. ~Booted' => ~Booted
  BY <1>2, <1>3, NotBoot DEF MayStep, Booted
<1>5. cfgPc'[Boot] \in {"boot", "set"} => cfgPc[Boot] = cfgPc'[Boot]
  BY <1>2, BootIsActor DEF OthersStay
<1>6. a \in Admins => WorkAt(a)'
  <2> SUFFICES ASSUME a \in Admins PROVE WorkAt(a)'
    OBVIOUS
  <2>1. WorkAt(a) /\ team' = team /\ Writes(a)' = Writes(a)
    BY <1>1 DEF ProvidersIInv, WorkInv, NoFaultYet, Writes
  <2> QED
    BY <1>1, <1>2, <2>1 DEF WorkAt
<1>7. KeysAt(a)'
  BY <1>2 DEF KeysAt, Writing
<1>8. OneWriter => FineAt(a)'
  BY <1>1, <1>2 DEF FineAt, Writing, ProvidersIInv, FineInv
<1>9. OneQuiet => WantedAt(a)'
  <2> SUFFICES ASSUME OneQuiet PROVE WantedAt(a)'
    OBVIOUS
  <2>1. CASE cfgPc'[a] = "toggle"
    <3>1. ~Stale
      BY <1>1, <1>2, <1>3, <2>1, NotStale DEF StaleAt, Writing, OneQuiet
    <3>2. UrlsOf(heap[cached].src) = UrlsOf(stored.src)
      BY <1>2, <2>1, <3>1 DEF ProvidersIInv, WantedInv, OneQuiet
    <3> QED
      BY <1>1, <1>2, <2>1, <3>2 DEF WantedAt, Writing
  <2>2. CASE cfgPc'[a] # "toggle"
    BY <1>1, <1>2, <2>2 DEF WantedAt, Writing
  <2> QED
    BY <2>1, <2>2
<1>10. OnlyOne(Acting) => ProfileAt(a)'
  <2> SUFFICES ASSUME OnlyOne(Acting) PROVE ProfileAt(a)'
    OBVIOUS
  <2>1. \A b \in Actors : ~Clearing(b)
    BY <1>1, <1>3, NotClearing DEF Clearing
  <2>2. Named(stored.src) \subseteq Known /\ (cached # 0 => Sound(heap[cached]))
    BY <2>1 DEF ProvidersIInv, ProfileInv
  <2>3. Known' = Known /\ Sound(heap[cached])' = Sound(heap[cached])
    BY <1>1 DEF Known, Sound
  <2> QED
    BY <1>1, <1>2, <2>2, <2>3 DEF ProfileAt, Writing, Sound
<1>11. ~Writing(a) /\ ~StaleAt(a) /\ ~Clearing(a) /\ (Changing(a) => Changing(a)')
  BY <1>1, <1>2 DEF Writing, StaleAt, Clearing, Changing
<1>12. LiveAt(a) => LiveAt(a)'
  <2> SUFFICES ASSUME LiveAt(a) PROVE LiveAt(a)'
    OBVIOUS
  <2>1. ~WritesFlag(a)'
    BY <1>2 DEF WritesFlag
  <2>2. CASE cfgJob[a].kind = "toggle"
    <3>1. heap[liveCfg] = loadFromDB(stored) /\ cached \in {0, liveCfg}
      BY <1>1, <2>2 DEF LiveAt, Toggling
    <3> QED
      BY <1>1, <1>2, <2>1, <2>2, <3>1 DEF LiveAt, Toggling
  <2>3. CASE cfgJob[a].kind # "toggle"
    <3>1. cached = 0
      BY <1>1, <2>3 DEF LiveAt, Toggling
    <3> QED
      BY <1>1, <1>2, <2>1, <2>3, <3>1 DEF LiveAt, Toggling
  <2> QED
    BY <2>2, <2>3
<1> HIDE DEF ProviderIInv
<1> QED
  BY <1>1, <1>2, <1>3, <1>4, <1>5, <1>6, <1>7, <1>8, <1>9, <1>10, <1>11, <1>12, Untouched

LEMMA MigrateKeeps ==
  ASSUME ProviderIInv, MigrateFromJSON
  PROVE  ProvidersIInv'
<1> DEFINE full == [kind |-> "boot", set |-> JsonDoc.set, todo |-> SettingKeys, src |-> JsonDoc.src]
           bare == [kind |-> "boot"]
<1>1. /\ cfgPc[Boot] = "boot" /\ ~Booted /\ cached = 0 /\ NoFaultYet
      /\ UNCHANGED <<stored, heap, cached, liveCfg, wanted>>
      /\ \/ (\A k \in SettingKeys : stored.set[k] = Unset) /\ GoesOn(Boot, "set", full)
         \/ GoesOn(Boot, "load", bare)
  BY MigrateIs DEF ProviderIInv
<1>2. /\ full.kind = "boot" /\ full.set = JsonDoc.set /\ full.todo = SettingKeys /\ full.src = JsonDoc.src
      /\ bare.kind = "boot"
  OBVIOUS
<1> HIDE DEF full, bare
<1>3. MayStep(Boot) /\ OthersStay(Boot) /\ Boot \in Actors /\ Boot \notin Admins
  BY <1>1, BootIsActor DEF MayStep, GoesOn
<1>4. ~Writing(Boot) /\ ~StaleAt(Boot) /\ ~Changing(Boot) /\ ~Clearing(Boot)
  BY <1>1 DEF Writing, StaleAt, Changing, Clearing
<1>5. cfgPc'[Boot] # "boot"
  BY <1>1 DEF GoesOn
<1>6. CASE (\A k \in SettingKeys : stored.set[k] = Unset) /\ GoesOn(Boot, "set", full)
  <2>1. cfgPc'[Boot] = "set" /\ cfgJob'[Boot] = full /\ Coming(Boot)' = JsonDoc.src
    BY <1>2, <1>6 DEF GoesOn, Coming
  <2>2. stored.src = <<>>
    BY <1>6, ConfigAssumption DEF ProviderIInv, ProvidersIInv, KeysInv
  <2>3. KeysAt(Boot)'
    BY <1>2, <2>1, DocumentAssumption DEF KeysAt, Valued
  <2>4. FineAt(Boot)'
    BY <2>1, DocumentsFine DEF FineAt
  <2>5. OneQuiet => WantedAt(Boot)'
    BY <1>1, <2>1 DEF WantedAt, OneQuiet, ProviderIInv, ProvidersIInv, WantedInv
  <2>6. ProfileAt(Boot)'
    <3>1. Named(JsonDoc.src) = {}
      BY DocumentAssumption DEF Named
    <3> QED
      BY <1>2, <2>1, <3>1 DEF ProfileAt
  <2>7. LiveAt(Boot)'
    BY <1>2, <2>1 DEF LiveAt, Toggling, WritesFlag
  <2> QED
    BY <1>1, <1>3, <1>4, <1>5, <2>2, <2>3, <2>4, <2>5, <2>6, <2>7, Untouched
<1>7. CASE GoesOn(Boot, "load", bare)
  <2>1. cfgPc'[Boot] = "load" /\ cfgJob'[Boot] = bare
    BY <1>7 DEF GoesOn
  <2>2. KeysAt(Boot)' /\ FineAt(Boot)' /\ WantedAt(Boot)' /\ ProfileAt(Boot)'
    BY <1>3, <2>1, Claimless
  <2>3. LiveAt(Boot)'
    BY <1>1, <1>2, <2>1 DEF LiveAt, Toggling, WritesFlag
  <2> QED
    BY <1>1, <1>3, <1>4, <1>5, <2>1, <2>2, <2>3, Untouched
<1> QED
  BY <1>1, <1>6, <1>7

-----------------------------------------------------------------------------
(* The account tables, the clear and the swap.                             *)

\* A configuration with one of the account tables replaced.
TabPut(cfg, t, q) == [cfg EXCEPT !.tab[t] = q]

LEMMA ReplacedTwice ==
  ASSUME NEW cfg \in Content, NEW t \in Tables, NEW p, NEW q
  PROVE  TabPut(TabPut(cfg, t, p), t, q) = TabPut(cfg, t, q)
BY DEF Content, TabPut

\* The tables with one of the account tables replaced.
WithTab(rows, t, q, new) == new = [rows EXCEPT !.tab[t] = q]

LEMMA TabLoaded ==
  ASSUME NEW rows \in Rows, NEW t \in Tables, NEW q, NEW new, WithTab(rows, t, q, new)
  PROVE  loadFromDB(new) = [loadFromDB(rows) EXCEPT !.tab[t] = q] /\ new.tab[t] = q
<1>1. new.set = rows.set /\ new.src = rows.src /\ new.prof = rows.prof /\ new.tab = [rows.tab EXCEPT ![t] = q]
      /\ new.tab[t] = q
  BY DEF Rows, WithTab
<1> DEFINE set == [k \in SettingKeys |-> IF rows.set[k] = Unset THEN getDefaultConfig.set[k] ELSE rows.set[k]]
           src == validateAndSetDefaults(loadSourcesFromDB(rows))
<1>2. loadFromDB(rows) = [set |-> set, src |-> src, prof |-> rows.prof, tab |-> rows.tab]
  BY DEF loadFromDB, loadAccountsFromDB
<1>3. loadFromDB(new) = [set |-> set, src |-> src, prof |-> rows.prof, tab |-> [rows.tab EXCEPT ![t] = q]]
  BY <1>1 DEF loadFromDB, loadAccountsFromDB, loadSourcesFromDB
<1> HIDE DEF set, src
<1> QED
  BY <1>1, <1>2, <1>3

LEMMA TableKeeps ==
  ASSUME ProviderIInv, NEW a \in Admins, NEW t \in Tables, TableChanged(a, t), team[a] # {},
         cfgPc[a] = "idle" \/ (cfgPc[a] = "rows" /\ cfgJob[a].table = t)
  PROVE  ProvidersIInv'
<1> USE DEF ProviderIInv, ProvidersIInv
<1>1. /\ Booted /\ OthersStay(a) /\ cfgPc'[a] = "rows" /\ cfgJob'[a].kind = "table" /\ cfgJob'[a].table = t
      /\ stored'.set = stored.set /\ stored'.src = stored.src /\ stored'.prof = stored.prof
      /\ NoFaultYet /\ UNCHANGED <<heap, cached, liveCfg, wanted>>
  BY DEF TableChanged, GoesOn
<1>2. a \in Actors /\ a # Boot /\ MayStep(a)
  BY <1>1, BootIsActor DEF MayStep
<1>3. team' = team /\ cfgCrashes' = cfgCrashes /\ (NoFaults' => NoFaults)
  BY <1>1 DEF NoFaultYet, NoFaults
<1>4. cfgPc'[Boot] = cfgPc[Boot] /\ (Booted' <=> Booted)
  BY <1>1, <1>2, NotBoot
<1>5. KeysAt(a)' /\ FineAt(a)' /\ WantedAt(a)' /\ ProfileAt(a)'
  BY <1>1, <1>2, Claimless
<1>6. ~Writing(a) /\ ~StaleAt(a) /\ ~Changing(a) /\ ~Clearing(a)
  BY DEF Writing, StaleAt, Changing, Clearing
<1>7. FineInv'
  <2>1. OneWriter => \A h \in DOMAIN heap' : Fine(heap'[h].src)
    BY <1>1 DEF FineInv
  <2> QED
    BY <1>1, <1>2, <1>3, <1>5, <2>1, FineKept
<1>8. KeysInv'
  <2>1. \A h \in DOMAIN heap' : Valued(heap'[h].set)
    BY <1>1 DEF KeysInv
  <2>2. \A k \in SettingKeys : stored.set[k] # Unset => stored'.set[k] # Unset
    BY <1>1
  <2> QED
    BY <1>1, <1>2, <1>4, <1>5, <2>1, <2>2, KeysKept
<1>9. WorkInv'
  <2>1. WorkAt(a)'
    BY <1>1, <1>3 DEF WorkAt
  <2> QED
    BY <1>1, <1>2, <1>3, <2>1, WorkKept
<1>10. WantedInv'
  <2>1. UrlsOf(stored'.src) = UrlsOf(stored.src) /\ wanted' = wanted /\ cached' = cached
    BY <1>1
  <2> QED
    BY <1>1, <1>2, <1>3, <1>4, <1>5, <1>6, <2>1, SameObjects, WantedKept
<1>11. ProfileInv'
  BY <1>1, <1>2, <1>3, <1>5, <1>6, SameObjects, ProfileKept
<1>12. LiveAt(a) => LiveAt(a)'
  <2> SUFFICES ASSUME LiveAt(a) PROVE LiveAt(a)'
    OBVIOUS
  <2>1. stored \in Rows /\ liveCfg \in DOMAIN heap /\ heap[liveCfg] \in Content
    BY <1>1 DEF StoreIInv, StoreTypes, CfgTypeOK
  <2>2. PICK q \in SUBSET Nat : WithTab(stored, t, q, stored')
    BY DEF TableChanged, WithTab
  <2>3. loadFromDB(stored') = [loadFromDB(stored) EXCEPT !.tab[t] = q] /\ stored'.tab[t] = q
    BY <2>1, <2>2, TabLoaded
  <2>4. [heap[liveCfg] EXCEPT !.tab[t] = q] = [loadFromDB(stored) EXCEPT !.tab[t] = q]
    <3>1. CASE cfgPc[a] = "idle"
      BY <3>1 DEF LiveAt
    <3>2. CASE cfgPc[a] = "rows" /\ cfgJob[a].table = t
      <4>1. TabPut(heap[liveCfg], t, stored.tab[t]) = loadFromDB(stored)
        BY <3>2 DEF LiveAt, TabPut
      <4>2. TabPut(TabPut(heap[liveCfg], t, stored.tab[t]), t, q) = TabPut(heap[liveCfg], t, q)
        BY <2>1, ReplacedTwice
      <4>3. TabPut(heap[liveCfg], t, q) = TabPut(loadFromDB(stored), t, q)
        BY <4>1, <4>2
      <4> QED
        BY <4>3 DEF TabPut
    <3> QED
      BY <3>1, <3>2
  <2>5. cached \in {0, liveCfg}
    BY DEF LiveAt
  <2>6. ~WritesFlag(a)' /\ ~Toggling(a)'
    BY <1>1 DEF WritesFlag, Toggling
  <2>7. [heap'[liveCfg'] EXCEPT !.tab[t] = stored'.tab[t]] = loadFromDB(stored')
    BY <1>1, <2>3, <2>4
  <2> QED
    BY <1>1, <2>5, <2>6, <2>7 DEF LiveAt
<1>13. LiveInv'
  BY <1>1, <1>2, <1>3, <1>12, LiveKept
<1> QED
  BY <1>7, <1>8, <1>9, <1>10, <1>11, <1>13

LEMMA AssignKeeps ==
  ASSUME ProviderIInv, NEW a \in Actors, NEW t \in Tables, RowsAssigned(a, t)
  PROVE  ProvidersIInv'
<1> USE DEF ProviderIInv, ProvidersIInv
<1>1. /\ a \in Admins /\ Booted /\ cfgPc[a] = "assign" /\ cfgJob[a].table = t
      /\ liveCfg \in DOMAIN heap /\ heap[liveCfg] \in Content
      /\ DOMAIN heap' = DOMAIN heap
      /\ heap'[liveCfg] = [heap[liveCfg] EXCEPT !.tab[t] = cfgJob[a].rows]
      /\ \A h \in DOMAIN heap : h # liveCfg => heap'[h] = heap[h]
      /\ \A h \in DOMAIN heap : /\ heap'[h].src = heap[h].src /\ heap'[h].prof = heap[h].prof
                                /\ heap'[h].set = heap[h].set
      /\ OthersStay(a) /\ cfgPc'[a] = "idle" /\ cfgJob'[a].kind = "none"
      /\ NoFaultYet /\ UNCHANGED <<stored, cached, liveCfg, wanted>>
  BY AssignIs DEF GoesOn, NoJob
<1>2. a # Boot /\ MayStep(a)
  BY <1>1, BootIsActor, WhoSteps
<1>3. team' = team /\ cfgCrashes' = cfgCrashes /\ (NoFaults' => NoFaults)
  BY <1>1 DEF NoFaultYet, NoFaults
<1>4. cfgPc'[Boot] = cfgPc[Boot] /\ (Booted' <=> Booted)
  BY <1>1, <1>2, NotBoot
<1>5. KeysAt(a)' /\ FineAt(a)' /\ WantedAt(a)' /\ ProfileAt(a)'
  BY <1>1, <1>2, Claimless
<1>6. ~Writing(a) /\ ~StaleAt(a) /\ ~Changing(a) /\ ~Clearing(a)
  BY <1>1 DEF Writing, StaleAt, Changing, Clearing
<1>0. SameSources /\ SameProfiles
  BY <1>1 DEF SameSources, SameProfiles
<1>7. FineInv'
  <2>1. OneWriter => \A h \in DOMAIN heap' : Fine(heap'[h].src)
    BY <1>1 DEF FineInv
  <2> QED
    BY <1>1, <1>3, <1>5, <2>1, FineKept
<1>8. KeysInv'
  <2>1. \A h \in DOMAIN heap' : Valued(heap'[h].set)
    BY <1>1 DEF KeysInv
  <2>2. \A k \in SettingKeys : stored.set[k] # Unset => stored'.set[k] # Unset
    BY <1>1
  <2> QED
    BY <1>1, <1>4, <1>5, <2>1, <2>2, KeysKept
<1>9. WorkInv'
  <2>1. WorkAt(a)'
    BY <1>1 DEF WorkAt
  <2> QED
    BY <1>1, <1>3, <2>1, WorkKept
<1>10. WantedInv'
  <2>1. UrlsOf(stored'.src) = UrlsOf(stored.src) /\ wanted' = wanted /\ cached' = cached /\ stored'.src = stored.src
    BY <1>1
  <2> QED
    BY <1>0, <1>1, <1>3, <1>4, <1>5, <1>6, <2>1, WantedKept
<1>11. ProfileInv'
  <2>1. stored'.src = stored.src /\ stored'.prof = stored.prof /\ cached' = cached /\ liveCfg' = liveCfg
    BY <1>1
  <2> QED
    BY <1>0, <1>1, <1>3, <1>5, <1>6, <2>1, ProfileKept
<1>12. LiveAt(a) => LiveAt(a)'
  <2> SUFFICES ASSUME LiveAt(a) PROVE LiveAt(a)'
    OBVIOUS
  <2>1. heap'[liveCfg'] = loadFromDB(stored') /\ cached' \in {0, liveCfg'}
    BY <1>1 DEF LiveAt
  <2>2. ~WritesFlag(a)' /\ ~Toggling(a)'
    BY <1>1 DEF WritesFlag, Toggling
  <2> QED
    BY <1>1, <2>1, <2>2 DEF LiveAt
<1>13. LiveInv'
  BY <1>1, <1>2, <1>3, <1>12, LiveKept
<1> QED
  BY <1>7, <1>8, <1>9, <1>10, <1>11, <1>13

LEMMA SwapKeeps ==
  ASSUME ProviderIInv, NEW a \in Actors, Swap(a)
  PROVE  ProvidersIInv'
<1> USE DEF ProviderIInv, ProvidersIInv
<1>1. /\ cfgPc[a] = "swap" /\ liveCfg' = cfgJob[a].ptr /\ liveCfg' \in DOMAIN heap
      /\ OthersStay(a) /\ cfgPc'[a] = "idle" /\ cfgJob'[a].kind = "none"
      /\ NoFaultYet /\ UNCHANGED <<stored, heap, cached, wanted>>
  BY SwapIs DEF GoesOn, NoJob
<1>2. MayStep(a)
  BY <1>1, WhoSteps
<1>3. team' = team /\ cfgCrashes' = cfgCrashes /\ (NoFaults' => NoFaults)
  BY <1>1 DEF NoFaultYet, NoFaults
<1>4. (~Booted' => ~Booted) /\ (cfgPc'[Boot] = "boot" => cfgPc[Boot] = "boot") /\ (cfgPc'[Boot] = "set" => cfgPc[Boot] = "set")
  BY <1>1, BootIsActor DEF OthersStay, Booted
<1>5. KeysAt(a)' /\ FineAt(a)' /\ WantedAt(a)' /\ ProfileAt(a)'
  BY <1>1, Claimless
<1>6. ~Writing(a) /\ ~StaleAt(a) /\ ~Clearing(a)
  BY <1>1 DEF Writing, StaleAt, Clearing
<1>7. FineInv'
  <2>1. OneWriter => \A h \in DOMAIN heap' : Fine(heap'[h].src)
    BY <1>1 DEF FineInv
  <2> QED
    BY <1>1, <1>3, <1>5, <2>1, FineKept
<1>8. KeysInv'
  <2>1. \A h \in DOMAIN heap' : Valued(heap'[h].set)
    BY <1>1 DEF KeysInv
  <2>2. \A k \in SettingKeys : stored.set[k] # Unset => stored'.set[k] # Unset
    BY <1>1
  <2> QED
    BY <1>1, <1>4, <1>5, <2>1, <2>2, KeysKept
<1>9. WorkInv'
  <2>1. WorkAt(a)'
    BY <1>1 DEF WorkAt
  <2> QED
    BY <1>1, <1>3, <2>1, WorkKept
<1>10. WantedInv'
  <2>1. UrlsOf(stored'.src) = UrlsOf(stored.src) /\ wanted' = wanted /\ cached' = cached /\ stored'.src = stored.src
    BY <1>1
  <2> QED
    BY <1>1, <1>3, <1>4, <1>5, <1>6, <2>1, SameObjects, WantedKept
<1>11. ProfileInv'
  <2>1. stored'.src = stored.src /\ stored'.prof = stored.prof /\ cached' = cached /\ heap' = heap
    BY <1>1
  <2>2. OnlyOne(Acting) => Sound(heap'[liveCfg'])
    BY <1>1 DEF ProfileInv, ProfileAt
  <2> QED
    BY <1>1, <1>3, <1>5, <1>6, <2>1, <2>2, SameObjects, ProfileKept
<1>12. LiveAt(a) => LiveAt(a)'
  <2> SUFFICES ASSUME LiveAt(a) PROVE LiveAt(a)'
    OBVIOUS
  <2>1. heap'[liveCfg'] = loadFromDB(stored') /\ cached' \in {0, liveCfg'}
    BY <1>1 DEF LiveAt
  <2>2. ~WritesFlag(a)' /\ ~Toggling(a)'
    BY <1>1 DEF WritesFlag, Toggling
  <2> QED
    BY <1>1, <2>1, <2>2 DEF LiveAt
<1>13. LiveInv'
  BY <1>1, <1>2, <1>3, <1>12, LiveKept
<1> QED
  BY <1>7, <1>8, <1>9, <1>10, <1>11, <1>13

LEMMA ClearKeeps ==
  ASSUME ProviderIInv, NEW a \in Actors, ClearConfigCache(a)
  PROVE  ProvidersIInv'
<1> USE DEF ProviderIInv, ProvidersIInv
<1> DEFINE p == IF cfgJob[a].kind = "toggle" THEN "watch" ELSE "load"
<1>1. /\ a \in Admins /\ Booted /\ cfgPc[a] = "clear" /\ cached' = 0
      /\ OthersStay(a) /\ cfgPc'[a] = p /\ cfgJob'[a] = cfgJob[a]
      /\ \A b \in Actors : cfgPc'[b] # "reading"
      /\ NoFaultYet /\ UNCHANGED <<stored, heap, liveCfg, wanted>>
  BY ClearIs DEF GoesOn
<1>2. a # Boot /\ MayStep(a)
  BY <1>1, BootIsActor, WhoSteps
<1>3. team' = team /\ cfgCrashes' = cfgCrashes /\ (NoFaults' => NoFaults)
  BY <1>1 DEF NoFaultYet, NoFaults
<1>4. cfgPc'[Boot] = cfgPc[Boot] /\ (Booted' <=> Booted)
  BY <1>1, <1>2, NotBoot
<1>5. KeysAt(a)' /\ FineAt(a)' /\ WantedAt(a)' /\ ProfileAt(a)'
  BY <1>1, <1>2, Claimless
<1>6. ~Writing(a)
  BY <1>1 DEF Writing
<1>7. FineInv'
  <2>1. OneWriter => \A h \in DOMAIN heap' : Fine(heap'[h].src)
    BY <1>1 DEF FineInv
  <2> QED
    BY <1>1, <1>3, <1>5, <2>1, FineKept
<1>8. KeysInv'
  <2>1. \A h \in DOMAIN heap' : Valued(heap'[h].set)
    BY <1>1 DEF KeysInv
  <2>2. \A k \in SettingKeys : stored.set[k] # Unset => stored'.set[k] # Unset
    BY <1>1
  <2> QED
    BY <1>1, <1>4, <1>5, <2>1, <2>2, KeysKept
<1>9. WorkInv'
  <2>1. WorkAt(a) /\ Writes(a)' = Writes(a)
    BY <1>1, <1>3 DEF WorkInv, Writes
  <2>2. WorkAt(a)'
    BY <1>1, <1>3, <2>1 DEF WorkAt
  <2> QED
    BY <1>1, <1>3, <2>2, WorkKept
<1>10. WantedInv'
  <2>1. UrlsOf(stored'.src) = UrlsOf(stored.src) /\ wanted' = wanted /\ stored'.src = stored.src
    BY <1>1
  <2> QED
    BY <1>1, <1>3, <1>4, <1>5, <1>6, <2>1, SameObjects, WantedKept
<1>11. ProfileInv'
  <2>1. stored'.src = stored.src /\ stored'.prof = stored.prof /\ liveCfg' = liveCfg /\ heap' = heap
    BY <1>1
  <2>2. Changing(a) => Changing(a)'
    BY <1>1 DEF Changing
  <2> QED
    BY <1>1, <1>3, <1>5, <2>1, <2>2, SameObjects, ProfileKept
<1>12. LiveAt(a) => LiveAt(a)'
  <2> SUFFICES ASSUME LiveAt(a) PROVE LiveAt(a)'
    OBVIOUS
  <2>1. CASE cfgJob[a].kind = "toggle"
    <3>1. cfgPc'[a] = "watch" /\ ~Writing(a)' /\ WritesFlag(a) /\ ToggledTo(a)' = ToggledTo(a)
      BY <1>1, <1>6, <2>1 DEF Writing, WritesFlag, ToggledTo
    <3>2. /\ [heap[liveCfg] EXCEPT !.set["watcher"] = cfgJob[a].on] = ToggledTo(a)
          /\ Sees(ToggledTo(a).src) = ToggledTo(a).src /\ Valued(cfgJob[a].set)
          /\ \A k \in SettingKeys \ cfgJob[a].todo : stored.set[k] = cfgJob[a].set[k]
          /\ cfgJob[a].todo = {}
      BY <1>1, <3>1 DEF LiveAt
    <3>3. /\ [heap'[liveCfg'] EXCEPT !.set["watcher"] = cfgJob'[a].on] = ToggledTo(a)'
          /\ (Sees(ToggledTo(a).src) = ToggledTo(a).src)' /\ Valued(cfgJob[a].set)'
          /\ \A k \in SettingKeys \ cfgJob'[a].todo : stored'.set[k] = cfgJob'[a].set[k]
          /\ cfgJob'[a].todo = {}
      BY <1>1, <3>1, <3>2 DEF Valued
    <3> QED
      BY <1>1, <3>1, <3>3 DEF LiveAt
  <2>2. CASE cfgJob[a].kind # "toggle"
    BY <1>1, <2>2 DEF LiveAt, Toggling, WritesFlag
  <2> QED
    BY <2>1, <2>2
<1>13. LiveInv'
  BY <1>1, <1>2, <1>3, <1>12, LiveKept
<1> QED
  BY <1>7, <1>8, <1>9, <1>10, <1>11, <1>13

-----------------------------------------------------------------------------
(* A save, and the statements of PersistConfig.                            *)

LEMMA NotChanging ==
  ASSUME ProviderIInv, OnlyOne(Acting), NEW a \in Admins, Booted, ~Changing(a), team[a] \cap Acting # {}
  PROVE  \A b \in Actors : ~Changing(b)
<1>1. ASSUME NEW b \in Actors, b # a PROVE ~Changing(b)
  <2>1. cfgPc[b] \in {"idle", "rows", "assign"}
    BY <1>1, BootIsActor, OthersTable
  <2> QED
    BY <2>1 DEF Changing
<1> QED
  BY <1>1

LEMMA SetConfigKeeps ==
  ASSUME ProviderIInv, NEW a \in Admins, Booted, Writes(a), cfgPc[a] \in {"idle", "page"},
         NEW d, d.src \in Seq(Row), Valued(d.set), OneWriter => Fine(d.src), SetConfig(a, d)
  PROVE  ProvidersIInv'
<1> USE DEF ProviderIInv, ProvidersIInv
<1>1. PICK src \in Seq(Row) :
        /\ Alike(d.src, src) /\ Named(src) \subseteq ProfilesNamed(heap[liveCfg].prof)
        /\ wanted' = {UrlsOf(stored.src), UrlsOf(src)}
        /\ GoesOn(a, "set", [kind |-> "save", set |-> d.set, todo |-> SettingKeys, src |-> src])
        /\ NoFaultYet /\ UNCHANGED <<stored, heap, cached, liveCfg>>
  BY SaveIs
<1> DEFINE act == [kind |-> "save", set |-> d.set, todo |-> SettingKeys, src |-> src]
<1>2. act.kind = "save" /\ act.set = d.set /\ act.todo = SettingKeys /\ act.src = src
  OBVIOUS
<1>3. OthersStay(a) /\ cfgPc'[a] = "set" /\ cfgJob'[a] = act
  BY <1>1 DEF GoesOn
<1> HIDE DEF act
<1>4. Writing(a)' /\ Coming(a)' = src
  BY <1>2, <1>3 DEF Writing, Coming
<1>5. a \in Actors /\ a # Boot /\ team[a] \cap Acting # {} /\ team[a] # {} /\ MayStep(a)
  BY BootIsActor DEF Writes, Acting, MayStep
<1>6. team' = team /\ cfgCrashes' = cfgCrashes /\ (NoFaults' => NoFaults)
  BY <1>1 DEF NoFaultYet, NoFaults
<1>7. cfgPc'[Boot] = cfgPc[Boot] /\ Booted'
  BY <1>3, <1>5, NotBoot
<1>8. ~Changing(a) /\ ~Clearing(a)
  BY DEF Changing, Clearing
<1>9. FineInv'
  <2>1. OneWriter => FineAt(a)'
    BY <1>1, <1>3, <1>4, AlikeKeeps DEF FineAt
  <2>2. OneWriter => \A h \in DOMAIN heap' : Fine(heap'[h].src)
    BY <1>1 DEF FineInv
  <2> QED
    BY <1>1, <1>3, <1>5, <1>6, <2>1, <2>2, FineKept
<1>10. KeysInv'
  <2>1. KeysAt(a)'
    BY <1>2, <1>3 DEF KeysAt, Valued
  <2>2. \A h \in DOMAIN heap' : Valued(heap'[h].set)
    BY <1>1 DEF KeysInv
  <2>3. \A k \in SettingKeys : stored.set[k] # Unset => stored'.set[k] # Unset
    BY <1>1
  <2> QED
    BY <1>1, <1>3, <1>5, <1>7, <2>1, <2>2, <2>3, KeysKept
<1>11. WorkInv'
  <2>1. WorkAt(a)'
    BY <1>2, <1>3, <1>5, <1>6 DEF WorkAt
  <2> QED
    BY <1>3, <1>5, <1>6, <2>1, WorkKept
<1>12. WantedInv'
  <2>1. OneQuiet => \A b \in Actors \ {a} : ~Writing(b) /\ cfgPc[b] # "toggle"
    BY <1>5, OthersRead DEF OneQuiet
  <2>2. UrlsOf(Coming(a)') \in wanted'
    BY <1>1, <1>4
  <2>3. cfgPc'[Boot] # "boot"
    BY <1>7 DEF Booted
  <2> QED
    BY <1>3, <1>4, <1>5, <1>6, <1>7, <2>1, <2>2, <2>3, WantedWhileWriting
<1>13. ProfileInv'
  <2>1. OnlyOne(Acting) => ProfileAt(a)'
    <3> SUFFICES ASSUME OnlyOne(Acting) PROVE ProfileAt(a)'
      OBVIOUS
    <3>1. \A b \in Actors : ~Changing(b)
      BY <1>5, <1>8, NotChanging
    <3>2. Sound(heap[liveCfg])
      BY <3>1 DEF ProfileInv, StoreIInv, CfgTypeOK
    <3>3. Named(src) \subseteq Known'
      BY <1>1, <3>2 DEF Sound, Known
    <3> QED
      BY <1>2, <1>3, <3>3 DEF ProfileAt
  <2>2. stored'.src = stored.src /\ stored'.prof = stored.prof /\ cached' = cached /\ liveCfg' = liveCfg /\ heap' = heap
    BY <1>1
  <2> QED
    BY <1>3, <1>5, <1>6, <1>8, <2>1, <2>2, SameObjects, ProfileKept
<1>14. LiveInv'
  <2>1. LiveAt(a)'
    BY <1>2, <1>3 DEF LiveAt, Toggling, WritesFlag
  <2> QED
    BY <1>3, <1>5, <1>6, <2>1, LiveKept
<1> QED
  BY <1>9, <1>10, <1>11, <1>12, <1>13, <1>14

LEMMA SaveKeeps ==
  ASSUME ProviderIInv, NEW a \in Admins, NEW d \in Docs, handleSetConfig(a, d)
  PROVE  ProvidersIInv'
<1>1. Booted /\ cfgPc[a] = "idle" /\ Writes(a) /\ SetConfig(a, d)
  BY Requesting DEF handleSetConfig, WritingKinds
<1>2. d.src \in Seq(Row) /\ Fine(d.src)
  BY DocumentsFine
<1>3. Valued(d.set)
  BY DocumentAssumption DEF Valued
<1> QED
  BY <1>1, <1>2, <1>3, SetConfigKeeps

LEMMA PagePostedKeeps ==
  ASSUME ProviderIInv, NEW a \in Actors, PostBack(a)
  PROVE  ProvidersIInv'
<1> USE DEF ProviderIInv, ProvidersIInv
<1>1. cfgPc[a] = "page" /\ SetConfig(a, cfgJob[a].page)
  BY DEF PostBack
<1>2. a \in Admins /\ Booted
  BY <1>1, AdminActs DEF StoreIInv
<1>3. cfgJob[a].page.src \in Seq(Row) /\ cfgJob[a].kind = "page"
  BY <1>1 DEF StoreIInv, JobTypes, JobTyped
<1>4. Writes(a)
  BY <1>2, <1>3 DEF StoreIInv, TeamInv
<1>5. Valued(cfgJob[a].page.set) /\ (OneWriter => Fine(cfgJob[a].page.src))
  BY <1>1 DEF KeysInv, KeysAt, FineInv, FineAt
<1> HIDE DEF ProviderIInv, ProvidersIInv
<1> QED
  BY <1>1, <1>2, <1>3, <1>4, <1>5, SetConfigKeeps

LEMMA StatementKeeps ==
  ASSUME ProviderIInv, NEW a \in Actors, Statement(a), Coming(a)' = Coming(a), OneWriter => Fine(stored'.src),
         \A k \in SettingKeys : stored.set[k] # Unset => stored'.set[k] # Unset,
         \A k \in SettingKeys \ cfgJob'[a].todo : stored'.set[k] # Unset,
         stored'.src # <<>> => stored'.set["watcher"] # Unset, cfgPc'[Boot] = "set" => stored'.src = <<>>,
         OnlyOne(Acting) => Named(stored'.src) \subseteq Known /\ Named(cfgJob'[a].src) \subseteq Known,
         cfgPc'[a] # "set" => cfgJob'[a].todo = {},
         (\A k \in SettingKeys \ cfgJob[a].todo : stored.set[k] = cfgJob[a].set[k])
           => \A k \in SettingKeys \ cfgJob'[a].todo : stored'.set[k] = cfgJob[a].set[k]
  PROVE  ProvidersIInv'
<1> USE DEF ProviderIInv, ProvidersIInv
<1>1. /\ Writing(a) /\ Writing(a)' /\ OthersStay(a)
      /\ cfgJob'[a].kind = cfgJob[a].kind /\ cfgJob'[a].set = cfgJob[a].set
      /\ cfgJob[a].kind = "toggle" => cfgJob'[a].on = cfgJob[a].on
      /\ stored'.prof = stored.prof /\ stored'.tab = stored.tab
      /\ NoFaultYet /\ UNCHANGED <<heap, cached, liveCfg, wanted>>
  BY DEF Statement
<1>2. /\ (a \in Admins /\ Booted /\ Writes(a) /\ cfgJob[a].kind \in {"save", "toggle"})
         \/ (a = Boot /\ ~Booted /\ cfgJob[a].kind = "boot")
  BY <1>1, WriterIs
<1>3. team' = team /\ cfgCrashes' = cfgCrashes /\ (NoFaults' => NoFaults)
  BY <1>1 DEF NoFaultYet, NoFaults
<1>4. cfgPc'[a] \in {"set", "wipe", "insert"} /\ cfgPc[a] \in {"set", "wipe", "insert"}
  BY <1>1 DEF Writing
<1>5. \A b \in Actors \ {a} : cfgPc'[b] = cfgPc[b] /\ cfgJob'[b] = cfgJob[b]
  BY <1>1 DEF OthersStay
<1>6. Known' = Known
  BY <1>1 DEF Known
<1>7. FineInv'
  <2> SUFFICES ASSUME OneWriter
               PROVE  (\A h \in DOMAIN heap' : Fine(heap'[h].src)) /\ \A b \in Actors : FineAt(b)'
    BY <1>3 DEF FineInv, OneWriter, OnlyOne
  <2>1. \A h \in DOMAIN heap' : Fine(heap'[h].src)
    BY <1>1 DEF FineInv
  <2>2. FineAt(a)'
    <3>1. Fine(Coming(a))
      BY <1>1 DEF FineInv, FineAt
    <3> QED
      BY <1>4, <3>1 DEF FineAt
  <2>3. ASSUME NEW b \in Actors \ {a} PROVE FineAt(b)'
    <3>1. ~Writing(b)'
      BY <1>2, <1>5, OthersRead DEF Writing
    <3> QED
      BY <1>5, <3>1 DEF FineInv, FineAt
  <2> QED
    BY <2>1, <2>2, <2>3
<1>8. KeysInv'
  <2>1. KeysAt(a)'
    <3>1. Valued(cfgJob[a].set)
      BY <1>1 DEF KeysInv, KeysAt
    <3> QED
      BY <1>1, <1>4, <3>1 DEF KeysAt, Valued
  <2>2. ASSUME NEW b \in Actors \ {a} PROVE KeysAt(b)'
    BY <1>5 DEF KeysInv, KeysAt, Writing, Valued
  <2>3. \A h \in DOMAIN heap' : Valued(heap'[h].set)
    BY <1>1 DEF KeysInv
  <2> QED
    BY <2>1, <2>2, <2>3 DEF KeysInv, Valued
<1>9. WorkInv'
  <2>1. ASSUME a \in Admins PROVE WorkAt(a)'
    <3>1. team[a] \cap Acting # {} /\ team[a] # {}
      BY <1>4, <2>1 DEF WorkInv, WorkAt
    <3>2. cfgJob[a].kind \in {"save", "toggle"}
      BY <1>2, <2>1, BootIsActor
    <3> QED
      BY <1>1, <1>3, <1>4, <3>1, <3>2 DEF WorkAt
  <2> QED
    BY <1>1, <1>3, <2>1, WorkKept
<1>10. WantedInv'
  <2>1. OneQuiet => \A b \in Actors \ {a} : ~Writing(b) /\ cfgPc[b] # "toggle"
    BY <1>2, OthersRead DEF OneQuiet
  <2>2. OneQuiet => UrlsOf(Coming(a)') \in wanted'
    BY <1>1 DEF WantedInv, OneQuiet, WantedAt
  <2>3. ~Booted' => wanted' = wanted /\ ~Booted
    <3>1. CASE a = Boot
      BY <1>1, <1>2, <3>1, BootIsActor
    <3>2. CASE a # Boot
      BY <1>1, <1>2, <3>2, NotBoot
    <3> QED
      BY <3>1, <3>2
  <2>4. cfgPc'[Boot] # "boot"
    <3>1. CASE a = Boot
      BY <1>4, <3>1
    <3>2. CASE a # Boot
      BY <1>1, <1>2, <3>2, NotBoot DEF Booted
    <3> QED
      BY <3>1, <3>2
  <2> QED
    BY <1>1, <1>3, <2>1, <2>2, <2>3, <2>4, WantedWhileWriting
<1>11. ProfileInv'
  <2> SUFFICES ASSUME OnlyOne(Acting)
               PROVE  /\ Named(stored'.src) \subseteq Known'
                      /\ liveCfg' # 0 /\ (\A b \in Actors : ~Changing(b)') => Sound(heap[liveCfg])'
                      /\ cached' # 0 /\ (\A b \in Actors : ~Clearing(b)') => Sound(heap[cached])'
                      /\ \A b \in Actors : ProfileAt(b)'
    BY <1>3 DEF ProfileInv, OnlyOne
  <2>1. \A b \in Actors : Changing(b)' = Changing(b) /\ Clearing(b)' = Clearing(b)
    BY <1>4, <1>5 DEF Changing, Clearing
  <2>2. /\ liveCfg' # 0 /\ (\A b \in Actors : ~Changing(b)') => Sound(heap[liveCfg])'
        /\ cached' # 0 /\ (\A b \in Actors : ~Clearing(b)') => Sound(heap[cached])'
    <3>1. Sound(heap[liveCfg])' <=> Sound(heap[liveCfg])
      BY <1>1, <1>6 DEF Sound
    <3>2. Sound(heap[cached])' <=> Sound(heap[cached])
      BY <1>1, <1>6 DEF Sound
    <3> QED
      BY <1>1, <2>1, <3>1, <3>2 DEF ProfileInv
  <2>3. ProfileAt(a)'
    BY <1>4, <1>6 DEF ProfileAt
  <2>4. ASSUME NEW b \in Actors \ {a} PROVE ProfileAt(b)'
    <3>1. ProfileAt(b)
      BY DEF ProfileInv
    <3>2. Sound(heap[cfgJob[b].ptr])' <=> Sound(heap[cfgJob[b].ptr])
      BY <1>1, <1>5, <1>6 DEF Sound
    <3> QED
      BY <1>5, <1>6, <3>1, <3>2 DEF ProfileAt, Writing
  <2> QED
    BY <1>6, <2>2, <2>3, <2>4
<1>12. LiveInv'
  <2>1. ASSUME LiveAt(a) PROVE LiveAt(a)'
    <3>1. CASE cfgJob[a].kind = "toggle"
      <4>1. WritesFlag(a) /\ ToggledTo(a)' = ToggledTo(a)
        BY <1>1, <1>4, <3>1 DEF WritesFlag, ToggledTo
      <4>2. /\ [heap[liveCfg] EXCEPT !.set["watcher"] = cfgJob[a].on] = ToggledTo(a)
            /\ Sees(ToggledTo(a).src) = ToggledTo(a).src /\ Valued(cfgJob[a].set)
            /\ \A k \in SettingKeys \ cfgJob[a].todo : stored.set[k] = cfgJob[a].set[k]
        BY <2>1, <4>1 DEF LiveAt
      <4>3. /\ [heap'[liveCfg'] EXCEPT !.set["watcher"] = cfgJob'[a].on] = ToggledTo(a)'
            /\ (Sees(ToggledTo(a).src) = ToggledTo(a).src)' /\ Valued(cfgJob[a].set)'
            /\ \A k \in SettingKeys \ cfgJob'[a].todo : stored'.set[k] = cfgJob'[a].set[k]
        BY <1>1, <3>1, <4>1, <4>2 DEF Valued
      <4> QED
        BY <1>1, <1>4, <4>3 DEF LiveAt, Toggling
    <3>2. CASE cfgJob[a].kind # "toggle"
      BY <1>1, <1>4, <3>2 DEF LiveAt, Toggling, WritesFlag
    <3> QED
      BY <3>1, <3>2
  <2>2. MayStep(a)
    BY <1>4, WhoSteps
  <2> QED
    BY <1>1, <1>3, <2>1, <2>2, LiveKept
<1> QED
  BY <1>7, <1>8, <1>9, <1>10, <1>11, <1>12

LEMMA SettingKeeps ==
  ASSUME ProviderIInv, NEW a \in Actors, NEW k \in SettingKeys, SetSetting(a, k)
  PROVE  ProvidersIInv'
<1> USE DEF ProviderIInv, ProvidersIInv
<1>1. /\ Statement(a) /\ cfgPc[a] = "set" /\ k \in cfgJob[a].todo
      /\ stored'.src = stored.src /\ stored'.set = [stored.set EXCEPT ![k] = cfgJob[a].set[k]]
      /\ cfgJob'[a].src = cfgJob[a].src /\ cfgJob'[a].todo = cfgJob[a].todo \ {k}
      /\ cfgPc'[a] = "set" \/ (a = Boot /\ cfgPc'[a] = "insert") \/ (a # Boot /\ cfgPc'[a] = "wipe")
      /\ cfgPc'[a] # "set" => cfgJob'[a].todo = {}
  BY SettingIs
<1>2. Writing(a) /\ Writing(a)' /\ OthersStay(a)
  BY <1>1 DEF Statement
<1>3. /\ (a \in Admins /\ Booted) \/ (a = Boot /\ ~Booted)
      /\ cfgJob[a].src \in Seq(Row)
  BY <1>2, WriterIs
<1>4. Valued(cfgJob[a].set) /\ \A j \in SettingKeys \ cfgJob[a].todo : stored.set[j] # Unset
  BY <1>2 DEF KeysInv, KeysAt
<1>5. /\ stored'.set[k] = cfgJob[a].set[k] /\ stored'.set[k] # Unset
      /\ \A j \in SettingKeys \ {k} : stored'.set[j] = stored.set[j]
  BY <1>1, <1>4, StoredFields DEF Valued
<1>6. Coming(a)' = Coming(a)
  <2>1. CASE cfgPc'[a] = "insert"
    <3>1. stored.src = <<>>
      BY <1>1, <2>1 DEF KeysInv
    <3> QED
      BY <1>1, <1>3, <2>1, <3>1, EmptyLists DEF Coming
  <2>2. CASE cfgPc'[a] # "insert"
    BY <1>1, <2>2 DEF Coming
  <2> QED
    BY <2>1, <2>2
<1>7. OneWriter => Fine(stored'.src)
  BY <1>1 DEF FineInv
<1>8. \A j \in SettingKeys : stored.set[j] # Unset => stored'.set[j] # Unset
  BY <1>5
<1>9. \A j \in SettingKeys \ cfgJob'[a].todo : stored'.set[j] # Unset
  BY <1>1, <1>4, <1>5
<1>10. stored'.src # <<>> => stored'.set["watcher"] # Unset
  BY <1>1, <1>8, ConfigAssumption DEF KeysInv
<1>11. cfgPc'[Boot] = "set" => stored'.src = <<>>
  <2>1. CASE a = Boot
    BY <1>1, <2>1 DEF KeysInv
  <2>2. CASE a # Boot
    BY <1>2, <1>3, <2>2, NotBoot DEF Booted
  <2> QED
    BY <2>1, <2>2
<1>12. OnlyOne(Acting) => Named(stored'.src) \subseteq Known /\ Named(cfgJob'[a].src) \subseteq Known
  BY <1>1, <1>2 DEF ProfileInv, ProfileAt
<1>13. (\A j \in SettingKeys \ cfgJob[a].todo : stored.set[j] = cfgJob[a].set[j])
         => \A j \in SettingKeys \ cfgJob'[a].todo : stored'.set[j] = cfgJob[a].set[j]
  BY <1>1, <1>5
<1> HIDE DEF ProviderIInv, ProvidersIInv
<1> QED
  BY <1>1, <1>6, <1>7, <1>8, <1>9, <1>10, <1>11, <1>12, <1>13, StatementKeeps

LEMMA WipeKeeps ==
  ASSUME ProviderIInv, NEW a \in Actors, Wipe(a)
  PROVE  ProvidersIInv'
<1> USE DEF ProviderIInv, ProvidersIInv
<1>1. /\ Statement(a) /\ cfgPc[a] = "wipe" /\ cfgPc'[a] = "insert"
      /\ stored'.src = <<>> /\ stored'.set = stored.set /\ cfgJob'[a] = cfgJob[a]
  BY WipeIs
<1>2. Writing(a)
  BY <1>1 DEF Statement
<1>3. cfgJob[a].src \in Seq(Row) /\ cfgJob[a].todo = {}
  BY <1>1, <1>2, WriterIs
<1>4. Coming(a)' = Coming(a)
  BY <1>1, <1>3, EmptyLists DEF Coming
<1>5. OneWriter => Fine(stored'.src)
  BY <1>1, FineEmpty
<1>6. \A k \in SettingKeys : stored.set[k] # Unset => stored'.set[k] # Unset
  BY <1>1
<1>7. \A k \in SettingKeys \ cfgJob'[a].todo : stored'.set[k] # Unset
  BY <1>1, <1>2 DEF KeysInv, KeysAt
<1>8. OnlyOne(Acting) => Named(stored'.src) \subseteq Known /\ Named(cfgJob'[a].src) \subseteq Known
  BY <1>1, <1>2, EmptyLists DEF ProfileInv, ProfileAt
<1>9. (\A k \in SettingKeys \ cfgJob[a].todo : stored.set[k] = cfgJob[a].set[k])
         => \A k \in SettingKeys \ cfgJob'[a].todo : stored'.set[k] = cfgJob[a].set[k]
  BY <1>1
<1> HIDE DEF ProviderIInv, ProvidersIInv
<1> QED
  BY <1>1, <1>3, <1>4, <1>5, <1>6, <1>7, <1>8, <1>9, StatementKeeps

LEMMA NamedOfTwo ==
  ASSUME NEW p \in Seq(Row), NEW q \in Seq(Row), q # <<>>
  PROVE  /\ Append(p, Head(q)) \in Seq(Row) /\ Tail(q) \in Seq(Row)
         /\ Named(Append(p, Head(q))) \subseteq Named(p) \cup Named(q) /\ Named(Tail(q)) \subseteq Named(q)
<1>1. /\ Head(q) \in Row /\ Append(p, Head(q)) \in Seq(Row) /\ Tail(q) \in Seq(Row)
      /\ 1 \in DOMAIN q /\ Head(q) = q[1]
  OBVIOUS
<1>2. \A i \in DOMAIN Append(p, Head(q)) :
        (i \in DOMAIN p /\ Append(p, Head(q))[i] = p[i]) \/ Append(p, Head(q))[i] = q[1]
  BY <1>1
<1>3. \A i \in DOMAIN Tail(q) : i + 1 \in DOMAIN q /\ Tail(q)[i] = q[i + 1]
  BY <1>1
<1>4. Named(Append(p, Head(q))) \subseteq Named(p) \cup Named(q)
  BY <1>1, <1>2 DEF Named
<1>5. Named(Tail(q)) \subseteq Named(q)
  BY <1>3 DEF Named
<1> QED
  BY <1>1, <1>4, <1>5

LEMMA InsertKeeps ==
  ASSUME ProviderIInv, NEW a \in Actors, InsertSource(a)
  PROVE  ProvidersIInv'
<1> USE DEF ProviderIInv, ProvidersIInv
<1>1. /\ Statement(a) /\ cfgPc[a] = "insert" /\ cfgPc'[a] = "insert"
      /\ cfgJob[a].src # <<>> /\ cfgJob'[a].src = Tail(cfgJob[a].src)
      /\ stored'.src = Append(stored.src, Head(cfgJob[a].src)) /\ stored'.set = stored.set
      /\ cfgJob'[a].todo = cfgJob[a].todo
  BY InsertIs
<1>2. Writing(a) /\ OthersStay(a)
  BY <1>1 DEF Statement
<1>3. /\ cfgJob[a].src \in Seq(Row) /\ cfgJob[a].todo = {} /\ stored.src \in Seq(Row)
      /\ (a \in Admins /\ Booted) \/ (a = Boot /\ ~Booted)
  BY <1>1, <1>2, WriterIs, StoredFields
<1>4. Coming(a)' = Coming(a) /\ Coming(a) = stored'.src \o cfgJob'[a].src
  BY <1>1, <1>3, MovedOn DEF Coming
<1>5. stored'.src \in Seq(Row) /\ cfgJob'[a].src \in Seq(Row)
  BY <1>1, <1>3, NamedOfTwo
<1>6. OneWriter => Fine(stored'.src)
  <2> SUFFICES ASSUME OneWriter PROVE Fine(stored'.src)
    OBVIOUS
  <2>1. Fine(Coming(a))
    BY <1>2 DEF FineInv, FineAt
  <2> QED
    BY <1>4, <1>5, <2>1, FineBeginning
<1>7. \A k \in SettingKeys : stored.set[k] # Unset => stored'.set[k] # Unset
  BY <1>1
<1>8. \A k \in SettingKeys : stored'.set[k] # Unset
  BY <1>1, <1>2, <1>3 DEF KeysInv, KeysAt
<1>9. stored'.src # <<>> => stored'.set["watcher"] # Unset
  BY <1>8, ConfigAssumption
<1>10. cfgPc'[Boot] # "set"
  <2>1. CASE a = Boot
    BY <1>1, <2>1
  <2>2. CASE a # Boot
    BY <1>2, <1>3, <2>2, NotBoot DEF Booted
  <2> QED
    BY <2>1, <2>2
<1>11. OnlyOne(Acting) => Named(stored'.src) \subseteq Known /\ Named(cfgJob'[a].src) \subseteq Known
  <2> SUFFICES ASSUME OnlyOne(Acting)
               PROVE  Named(stored'.src) \subseteq Known /\ Named(cfgJob'[a].src) \subseteq Known
    OBVIOUS
  <2>1. Named(stored.src) \subseteq Known /\ Named(cfgJob[a].src) \subseteq Known
    BY <1>2 DEF ProfileInv, ProfileAt
  <2>2. /\ Named(stored'.src) \subseteq Named(stored.src) \cup Named(cfgJob[a].src)
        /\ Named(cfgJob'[a].src) \subseteq Named(cfgJob[a].src)
    BY <1>1, <1>3, NamedOfTwo
  <2> QED
    BY <2>1, <2>2
<1>12. (\A k \in SettingKeys \ cfgJob[a].todo : stored.set[k] = cfgJob[a].set[k])
         => \A k \in SettingKeys \ cfgJob'[a].todo : stored'.set[k] = cfgJob[a].set[k]
  BY <1>1
<1> HIDE DEF ProviderIInv, ProvidersIInv
<1> QED
  BY <1>1, <1>3, <1>4, <1>6, <1>7, <1>8, <1>9, <1>10, <1>11, <1>12, StatementKeeps

LEMMA PersistedKeeps ==
  ASSUME ProviderIInv, NEW a \in Actors, Persisted(a)
  PROVE  ProvidersIInv'
<1> USE DEF ProviderIInv, ProvidersIInv
<1>1. /\ a \in Admins /\ Booted /\ Writes(a) /\ cfgPc[a] = "insert" /\ cfgJob[a].src = <<>>
      /\ cfgJob[a].kind \in {"save", "toggle"} /\ cfgJob[a].todo = {}
      /\ wanted' = (IF cfgJob[a].kind = "save" THEN {UrlsOf(stored.src)} ELSE wanted)
      /\ OthersStay(a) /\ cfgPc'[a] = "clear" /\ cfgJob'[a] = cfgJob[a]
      /\ NoFaultYet /\ UNCHANGED <<stored, heap, cached, liveCfg>>
  BY PersistedIs DEF GoesOn
<1>2. a # Boot /\ MayStep(a) /\ Writing(a) /\ ~Writing(a)'
  BY <1>1, BootIsActor, WhoSteps DEF Writing
<1>3. team' = team /\ cfgCrashes' = cfgCrashes /\ (NoFaults' => NoFaults)
  BY <1>1 DEF NoFaultYet, NoFaults
<1>4. cfgPc'[Boot] = cfgPc[Boot] /\ Booted'
  BY <1>1, <1>2, NotBoot
<1>5. KeysAt(a)' /\ FineAt(a)' /\ WantedAt(a)' /\ ProfileAt(a)'
  BY <1>1, <1>2, Claimless
<1>6. Coming(a) = stored.src
  BY <1>1, StoredFields, EmptyLists DEF Coming
<1>7. ~Changing(a) /\ ~Clearing(a)
  BY <1>1 DEF Changing, Clearing
<1>8. FineInv'
  <2>1. OneWriter => \A h \in DOMAIN heap' : Fine(heap'[h].src)
    BY <1>1 DEF FineInv
  <2> QED
    BY <1>1, <1>3, <1>5, <2>1, FineKept
<1>9. KeysInv'
  <2>1. \A h \in DOMAIN heap' : Valued(heap'[h].set)
    BY <1>1 DEF KeysInv
  <2>2. \A k \in SettingKeys : stored.set[k] # Unset => stored'.set[k] # Unset
    BY <1>1
  <2> QED
    BY <1>1, <1>4, <1>5, <2>1, <2>2, KeysKept
<1>10. WorkInv'
  <2>1. WorkAt(a)
    BY <1>1 DEF WorkInv
  <2>2. WorkAt(a)'
    BY <1>1, <1>3, <2>1 DEF WorkAt
  <2> QED
    BY <1>1, <1>3, <2>2, WorkKept
<1>11. WantedInv'
  <2>1. cfgCrashes' \in Nat
    BY <1>3 DEF WantedInv
  <2> SUFFICES ASSUME OneQuiet
               PROVE  /\ UrlsOf(stored.src) \in wanted'
                      /\ Stale'
                      /\ \A b \in Actors : WantedAt(b)'
    BY <1>1, <1>3, <1>4, <2>1 DEF WantedInv, OneQuiet, OneWriter, OnlyOne, Booted
  <2>2. UrlsOf(stored.src) \in wanted'
    <3>1. UrlsOf(stored.src) \in wanted
      BY <1>2, <1>6 DEF WantedInv, OneQuiet, WantedAt
    <3> QED
      BY <1>1, <3>1
  <2>3. Stale'
    BY <1>1 DEF Stale, StaleAt
  <2>4. ASSUME NEW b \in Actors \ {a} PROVE WantedAt(b)'
    <3>1. ~Writing(b) /\ cfgPc[b] # "toggle"
      BY <1>1, OthersRead DEF OneQuiet
    <3> QED
      BY <1>1, <2>3, <3>1 DEF WantedAt, OthersStay, Writing
  <2> QED
    BY <1>5, <2>2, <2>3, <2>4
<1>12. ProfileInv'
  <2>1. stored'.src = stored.src /\ stored'.prof = stored.prof /\ cached' = cached /\ liveCfg' = liveCfg /\ heap' = heap
    BY <1>1
  <2> QED
    BY <1>1, <1>3, <1>5, <1>7, <2>1, SameObjects, ProfileKept
<1>13. LiveAt(a) => LiveAt(a)'
  <2> SUFFICES ASSUME LiveAt(a) PROVE LiveAt(a)'
    OBVIOUS
  <2>1. CASE cfgJob[a].kind = "toggle"
    <3>1. WritesFlag(a) /\ ToggledTo(a)' = ToggledTo(a)
      BY <1>1, <1>2, <1>6, <2>1 DEF WritesFlag, ToggledTo
    <3>2. /\ [heap[liveCfg] EXCEPT !.set["watcher"] = cfgJob[a].on] = ToggledTo(a)
          /\ Sees(ToggledTo(a).src) = ToggledTo(a).src /\ Valued(cfgJob[a].set)
          /\ \A k \in SettingKeys \ cfgJob[a].todo : stored.set[k] = cfgJob[a].set[k]
      BY <3>1 DEF LiveAt
    <3>3. /\ [heap'[liveCfg'] EXCEPT !.set["watcher"] = cfgJob'[a].on] = ToggledTo(a)'
          /\ (Sees(ToggledTo(a).src) = ToggledTo(a).src)' /\ Valued(cfgJob[a].set)'
          /\ \A k \in SettingKeys \ cfgJob'[a].todo : stored'.set[k] = cfgJob'[a].set[k]
      BY <1>1, <3>1, <3>2 DEF Valued
    <3> QED
      BY <1>1, <3>3 DEF LiveAt
  <2>2. CASE cfgJob[a].kind # "toggle"
    BY <1>1, <2>2 DEF LiveAt, Toggling, WritesFlag
  <2> QED
    BY <2>1, <2>2
<1>14. LiveInv'
  BY <1>1, <1>2, <1>3, <1>13, LiveKept
<1> QED
  BY <1>8, <1>9, <1>10, <1>11, <1>12, <1>14

LEMMA WriteFailedKeeps ==
  ASSUME ProviderIInv, NEW a \in Actors, WriteFails(a)
  PROVE  ProvidersIInv'
<1> USE DEF ProviderIInv, ProvidersIInv
<1>1. /\ Writing(a) /\ OthersStay(a) /\ ~NoFaults'
      /\ (a = Boot /\ cfgPc'[a] = "load" /\ cfgJob'[a].kind = "boot")
         \/ (a # Boot /\ cfgPc'[a] = "idle" /\ cfgJob'[a].kind = "none")
      /\ UNCHANGED <<stored, heap, cached, liveCfg, wanted, team, cfgCrashes>>
  BY WriteFailsIs DEF GoesOn, NoJob
<1>2. KeysAt(a)' /\ FineAt(a)' /\ WantedAt(a)' /\ ProfileAt(a)'
  BY <1>1, Claimless
<1>3. ~Changing(a) /\ ~Clearing(a)
  BY <1>1 DEF Changing, Clearing, Writing
<1>4. cfgPc'[Boot] = "set" => cfgPc[Boot] = "set"
  BY <1>1, BootIsActor DEF OthersStay
<1>5. FineInv'
  <2>1. OneWriter => \A h \in DOMAIN heap' : Fine(heap'[h].src)
    BY <1>1 DEF FineInv
  <2> QED
    BY <1>1, <1>2, <2>1, FineKept
<1>6. KeysInv'
  <2>1. \A h \in DOMAIN heap' : Valued(heap'[h].set)
    BY <1>1 DEF KeysInv
  <2>2. \A k \in SettingKeys : stored.set[k] # Unset => stored'.set[k] # Unset
    BY <1>1
  <2> QED
    BY <1>1, <1>2, <1>4, <2>1, <2>2, KeysKept
<1>7. WorkInv'
  <2>1. a \in Admins => WorkAt(a)'
    BY <1>1, BootIsActor DEF WorkAt
  <2> QED
    BY <1>1, <2>1, WorkKept
<1>8. WantedInv' /\ LiveInv'
  BY <1>1 DEF WantedInv, LiveInv
<1>9. ProfileInv'
  <2>1. stored'.src = stored.src /\ stored'.prof = stored.prof /\ cached' = cached /\ liveCfg' = liveCfg /\ heap' = heap
        /\ team' = team
    BY <1>1
  <2> QED
    BY <1>1, <1>2, <1>3, <2>1, SameObjects, ProfileKept
<1> QED
  BY <1>5, <1>6, <1>7, <1>8, <1>9

-----------------------------------------------------------------------------
(* A load, and the toggle.                                                 *)

LEMMA LoadedIs ==
  ASSUME NEW rows \in Rows
  PROVE  LET cfg == loadFromDB(rows) IN
         /\ cfg.src = Sees(rows.src) /\ cfg.prof = rows.prof /\ cfg.tab = rows.tab /\ Valued(cfg.set)
         /\ cfg.set = [k \in SettingKeys |-> IF rows.set[k] = Unset THEN getDefaultConfig.set[k] ELSE rows.set[k]]
         /\ cfg = [set |-> cfg.set, src |-> cfg.src, prof |-> cfg.prof, tab |-> cfg.tab]
<1> DEFINE set == [k \in SettingKeys |-> IF rows.set[k] = Unset THEN getDefaultConfig.set[k] ELSE rows.set[k]]
           src == validateAndSetDefaults(loadSourcesFromDB(rows))
<1>1. loadFromDB(rows) = [set |-> set, src |-> src, prof |-> rows.prof, tab |-> rows.tab]
  BY DEF loadFromDB, loadAccountsFromDB
<1>2. src = Sees(rows.src)
  BY DEF Sees, loadSourcesFromDB
<1>3. \A k \in SettingKeys : getDefaultConfig.set[k] # Unset
  BY DEF getDefaultConfig, Unset
<1>4. Valued(set)
  BY <1>3 DEF Valued
<1> HIDE DEF src
<1>5. loadFromDB(rows).set = set /\ loadFromDB(rows).src = src /\ loadFromDB(rows).prof = rows.prof
      /\ loadFromDB(rows).tab = rows.tab
  BY <1>1
<1> QED
  BY <1>1, <1>2, <1>4, <1>5

LEMMA PublishKeeps ==
  ASSUME ProviderIInv, NEW a \in Actors, cfgPc[a] = "reading", NEW cfg \in Content, Publish(a, cfg),
         UNCHANGED <<stored, liveCfg, wanted, team, cfgCrashes>>, NoFaults' => NoFaults,
         Valued(cfg.set), OneWriter => Fine(cfg.src),
         OneQuiet /\ NoFaults' /\ ~Stale => UrlsOf(cfg.src) = UrlsOf(stored.src),
         OnlyOne(Acting) => Sound(cfg), Solo /\ NoFaults' /\ LiveAt(a) => cfg = loadFromDB(stored)
  PROVE  ProvidersIInv'
<1> USE DEF ProviderIInv, ProvidersIInv
<1> DEFINE ptr == Len(heap) + 1
<1>1. /\ OthersStay(a) /\ cfgJob'[a].kind = cfgJob[a].kind /\ cfgJob'[a].ptr = ptr
      /\ cfgPc'[a] = (IF cfgJob[a].kind = "toggle" THEN "toggle" ELSE "swap")
      /\ cached' = ptr /\ ptr # 0 /\ ptr \notin DOMAIN heap /\ DOMAIN heap' = DOMAIN heap \cup {ptr}
      /\ heap'[ptr] = cfg /\ \A h \in DOMAIN heap : heap'[h] = heap[h]
      /\ \A b \in Actors : cfgPc'[b] # "reading"
  <2>1. /\ Handed(a, ptr) /\ cached' = ptr /\ Len(heap) \in Nat
        /\ DOMAIN heap = 1..Len(heap) /\ DOMAIN heap' = 1..ptr
        /\ heap'[ptr] = cfg /\ \A h \in DOMAIN heap : heap'[h] = heap[h]
        /\ \A b \in Actors : cfgPc'[b] # "reading"
    BY PublishIs
  <2>2. ptr # 0 /\ ptr \notin DOMAIN heap /\ DOMAIN heap' = DOMAIN heap \cup {ptr}
    BY <2>1
  <2> QED
    BY <2>1, <2>2 DEF Handed
<1> HIDE DEF ptr
<1>2. /\ MayStep(a)
      /\ (a \in Admins /\ Booted /\ team[a] \cap Acting # {}) \/ (a = Boot /\ ~Booted)
      /\ a = Boot => cfgJob[a].kind = "boot"
      /\ a # Boot => a \in Admins /\ Booted
      /\ cfgJob[a].kind = "toggle" => a \in Admins /\ Booted /\ Writes(a)
  BY Loading
<1>3. /\ ~Booted' => ~Booted
      /\ cfgPc'[Boot] \in {"boot", "set"} => cfgPc[Boot] = cfgPc'[Boot]
  BY <1>1, <1>2, BootIsActor DEF OthersStay, Booted
<1>4. KeysAt(a)' /\ FineAt(a)' /\ ~Writing(a)' /\ ~StaleAt(a) /\ ~StaleAt(a)' /\ ~Clearing(a)
  BY <1>1 DEF KeysAt, FineAt, Writing, StaleAt, Clearing
<1>5. SameSources /\ SameProfiles
  BY <1>1 DEF SameSources, SameProfiles
<1>6. FineInv'
  <2>1. OneWriter => \A h \in DOMAIN heap' : Fine(heap'[h].src)
    BY <1>1 DEF FineInv
  <2> QED
    BY <1>1, <1>4, <2>1, FineKept
<1>7. KeysInv'
  <2>1. \A h \in DOMAIN heap' : Valued(heap'[h].set)
    BY <1>1 DEF KeysInv
  <2>2. \A k \in SettingKeys : stored.set[k] # Unset => stored'.set[k] # Unset
    OBVIOUS
  <2> QED
    BY <1>1, <1>3, <1>4, <2>1, <2>2, KeysKept
<1>8. WorkInv'
  <2>1. ASSUME a \in Admins PROVE WorkAt(a)'
    <3>1. WorkAt(a) /\ Writes(a)' = Writes(a)
      BY <2>1 DEF WorkInv, Writes
    <3> QED
      BY <1>1, <3>1 DEF WorkAt
  <2> QED
    BY <1>1, <2>1, WorkKept
<1>9. WantedInv'
  <2>1. CASE ~NoFaults'
    BY <2>1 DEF WantedInv
  <2>2. CASE NoFaults'
    <3>1. ~Stale' => ~Stale
      BY <1>1, <1>4 DEF Stale, StaleAt, OthersStay, Writing
    <3>2. OneQuiet => WantedAt(a)'
      <4> SUFFICES ASSUME OneQuiet PROVE WantedAt(a)'
        OBVIOUS
      <4>1. CASE cfgPc'[a] = "toggle"
        <5>1. ~Stale
          BY <1>1, <1>2, <1>4, <4>1, NotStale DEF OneQuiet
        <5> QED
          BY <1>1, <1>4, <2>2, <4>1, <5>1 DEF WantedAt
      <4>2. CASE cfgPc'[a] # "toggle"
        BY <1>1, <1>4, <4>2 DEF WantedAt
      <4> QED
        BY <4>1, <4>2
    <3>3. OneQuiet /\ ~Stale' /\ cached' # 0 => UrlsOf(heap'[cached'].src) = UrlsOf(stored.src)
      BY <1>1, <2>2, <3>1
    <3>4. UrlsOf(stored'.src) = UrlsOf(stored.src) /\ stored'.src = stored.src
      OBVIOUS
    <3>5. ~Writing(a)
      BY DEF Writing
    <3> QED
      BY <1>1, <1>3, <1>4, <1>5, <3>2, <3>3, <3>4, <3>5, WantedKept
  <2> QED
    BY <2>1, <2>2
<1>10. ProfileInv'
  <2>1. Known' = Known
    BY DEF Known
  <2>2. OnlyOne(Acting) => Sound(heap'[cached']) /\ ProfileAt(a)'
    <3>1. Sound(heap[cfgJob[a].ptr])' <=> (ProfilesNamed(cfg.prof) \subseteq Known /\ Named(cfg.src) \subseteq Known)
      BY <1>1, <2>1 DEF Sound
    <3>2. OnlyOne(Acting) => Sound(heap[cfgJob[a].ptr])'
      BY <3>1 DEF Sound
    <3> QED
      BY <1>1, <1>4, <3>2 DEF ProfileAt
  <2>3. Changing(a) => Changing(a)'
    BY <1>1 DEF Changing
  <2> QED
    BY <1>1, <1>5, <2>2, <2>3, ProfileKept
<1>11. LiveInv'
  <2>1. CASE ~NoFaults'
    BY <2>1 DEF LiveInv
  <2>2. CASE NoFaults'
    <3>1. ASSUME Solo, LiveAt(a) PROVE LiveAt(a)'
      <4>1. cfg = loadFromDB(stored) /\ ~WritesFlag(a)'
        BY <1>1, <2>2, <3>1 DEF WritesFlag
      <4>2. CASE cfgJob[a].kind = "toggle"
        <5>1. heap[liveCfg] = loadFromDB(stored)
          BY <3>1, <4>2 DEF LiveAt, Toggling
        <5>2. liveCfg \in DOMAIN heap
          BY <1>2, <4>2 DEF StoreIInv, CfgTypeOK, StoreTypes
        <5> QED
          BY <1>1, <4>1, <4>2, <5>1, <5>2 DEF LiveAt, Toggling
      <4>3. CASE cfgJob[a].kind # "toggle"
        BY <1>1, <4>1, <4>3 DEF LiveAt, Toggling
      <4> QED
        BY <4>2, <4>3
    <3> QED
      BY <1>1, <1>2, <3>1, LiveKept
  <2> QED
    BY <2>1, <2>2
<1> QED
  BY <1>6, <1>7, <1>8, <1>9, <1>10, <1>11

LEMMA ReadKeeps ==
  ASSUME ProviderIInv, NEW a \in Actors, loadFilterProfilesFromDB(a)
  PROVE  ProvidersIInv'
<1> USE DEF ProviderIInv, ProvidersIInv
<1>1. PICK rows \in Rows :
        /\ cfgPc[a] = "reading" /\ cfgJob[a].rows \in Rows /\ rows = [cfgJob[a].rows EXCEPT !.prof = stored.prof]
        /\ rows.src = cfgJob[a].rows.src /\ rows.set = cfgJob[a].rows.set /\ rows.prof = stored.prof
        /\ rows.tab = cfgJob[a].rows.tab /\ loadFromDB(rows) \in Content
        /\ Publish(a, loadFromDB(rows)) /\ NoFaultYet /\ UNCHANGED <<stored, liveCfg, wanted>>
  BY ReadIs
<1> DEFINE cfg == loadFromDB(rows)
<1>2. cfg.src = Sees(rows.src) /\ cfg.prof = rows.prof /\ Valued(cfg.set) /\ rows.src \in Seq(Row)
  BY LoadedIs DEF Rows
<1>3. cfg \in Content /\ Publish(a, cfg)
  BY <1>1
<1>4. Solo /\ LiveAt(a) => cfg = loadFromDB(stored)
  <2>1. LiveAt(a) => cfgJob[a].rows = stored
    BY <1>1 DEF LiveAt
  <2>2. [stored EXCEPT !.prof = stored.prof] = stored
    BY DEF StoreIInv, StoreTypes, Rows
  <2>3. LiveAt(a) => rows = stored
    BY <1>1, <2>1, <2>2
  <2> QED
    BY <2>3
<1> HIDE DEF cfg
<1>5. UNCHANGED <<stored, liveCfg, wanted, team, cfgCrashes>> /\ (NoFaults' => NoFaults)
  BY <1>1 DEF NoFaultYet, NoFaults
<1>6. OneWriter => Fine(cfg.src)
  <2>1. OneWriter => Fine(rows.src)
    BY <1>1 DEF FineInv, FineAt
  <2> QED
    BY <1>2, <2>1, FineRead
<1>7. OneQuiet /\ ~Stale => UrlsOf(cfg.src) = UrlsOf(stored.src)
  <2>1. OneQuiet /\ ~Stale => UrlsOf(rows.src) = UrlsOf(stored.src)
    BY <1>1 DEF WantedInv, WantedAt, OneQuiet
  <2> QED
    BY <1>2, <2>1, SeesSame
<1>8. OnlyOne(Acting) => Sound(cfg)
  <2>1. OnlyOne(Acting) => Named(rows.src) \subseteq Known
    BY <1>1 DEF ProfileInv, ProfileAt
  <2>2. Named(cfg.src) = Named(rows.src) /\ cfg.prof = stored.prof
    BY <1>1, <1>2, SeesSame
  <2> QED
    BY <2>1, <2>2 DEF Sound, Known
<1> HIDE DEF ProviderIInv, ProvidersIInv
<1> QED
  BY <1>1, <1>2, <1>3, <1>4, <1>5, <1>6, <1>7, <1>8, PublishKeeps

LEMMA ReadFailsKeeps ==
  ASSUME ProviderIInv, NEW a \in Actors, LoadFails(a)
  PROVE  ProvidersIInv'
<1>1. /\ cfgPc[a] = "reading" /\ Publish(a, getDefaultConfig) /\ ~NoFaults'
      /\ UNCHANGED <<stored, liveCfg, wanted, team, cfgCrashes>>
  BY ReadFailsIs DEF ProviderIInv
<1>2. getDefaultConfig.src = <<>> /\ getDefaultConfig.prof = {} /\ Valued(getDefaultConfig.set)
  BY DEF getDefaultConfig, Valued, Unset
<1>3. Sound(getDefaultConfig)
  BY <1>2, EmptyLists DEF Sound, ProfilesNamed
<1> QED
  BY <1>1, <1>2, <1>3, DefaultsTyped, FineEmpty, PublishKeeps

LEMMA FlagTwice ==
  ASSUME NEW cfg \in Content, NEW on
  PROVE  /\ [[cfg EXCEPT !.set["watcher"] = on] EXCEPT !.set["watcher"] = on] = [cfg EXCEPT !.set["watcher"] = on]
         /\ [cfg EXCEPT !.set["watcher"] = on] =
              [set |-> [cfg.set EXCEPT !["watcher"] = on], src |-> cfg.src, prof |-> cfg.prof, tab |-> cfg.tab]
<1> DEFINE new == [cfg.set EXCEPT !["watcher"] = on]
<1>1. cfg = [set |-> cfg.set, src |-> cfg.src, prof |-> cfg.prof, tab |-> cfg.tab]
  BY DEF Content
<1>2. [new EXCEPT !["watcher"] = on] = new
  OBVIOUS
<1>3. [cfg EXCEPT !.set["watcher"] = on] = [cfg EXCEPT !.set = new]
  OBVIOUS
<1>4. [[cfg EXCEPT !.set["watcher"] = on] EXCEPT !.set["watcher"] = on] = [[cfg EXCEPT !.set = new] EXCEPT !.set = new]
  BY <1>1, <1>2
<1> HIDE DEF new
<1>5. [cfg EXCEPT !.set = new] = [set |-> new, src |-> cfg.src, prof |-> cfg.prof, tab |-> cfg.tab]
  BY <1>1
<1>6. [[cfg EXCEPT !.set = new] EXCEPT !.set = new] = [cfg EXCEPT !.set = new]
  BY <1>1
<1> QED
  BY <1>3, <1>4, <1>5, <1>6 DEF new

\* A flag is a value.
LEMMA FlagValued ==
  ASSUME KeysInv, NEW h, NEW on \in Flags, FlagSet(h, on)
  PROVE  \A j \in DOMAIN heap' : Valued(heap'[j].set)
<1>1. /\ h \in DOMAIN heap /\ heap[h] \in Content /\ DOMAIN heap' = DOMAIN heap
      /\ heap'[h].set = [heap[h].set EXCEPT !["watcher"] = on]
      /\ \A j \in DOMAIN heap : j # h => heap'[j] = heap[j]
  BY DEF FlagSet
<1>2. heap[h].set \in [SettingKeys -> Strings] /\ on # Unset /\ Valued(heap[h].set)
  BY <1>1 DEF Content, Flags, Unset, KeysInv
<1>3. Valued(heap'[h].set)
  BY <1>1, <1>2 DEF Valued
<1> QED
  BY <1>1, <1>3 DEF KeysInv

LEMMA WatcherKeeps ==
  ASSUME ProviderIInv, NEW a \in Actors, persistWatcherConfig(a)
  PROVE  ProvidersIInv'
<1> USE DEF ProviderIInv, ProvidersIInv
<1> DEFINE ptr == cfgJob[a].ptr
           on == cfgJob[a].on
           act == [kind |-> "toggle", on |-> on, set |-> heap'[ptr].set, todo |-> SettingKeys, src |-> heap[ptr].src]
<1>1. /\ a \in Admins /\ Booted /\ Writes(a) /\ cfgPc[a] = "toggle" /\ cfgJob[a].kind = "toggle"
      /\ on \in Flags /\ FlagSet(ptr, on) /\ GoesOn(a, "set", act)
      /\ NoFaultYet /\ UNCHANGED <<stored, cached, liveCfg, wanted>>
  BY WatcherIs
<1>2. act.kind = "toggle" /\ act.on = on /\ act.set = heap'[ptr].set /\ act.todo = SettingKeys /\ act.src = heap[ptr].src
  OBVIOUS
<1>3. OthersStay(a) /\ cfgPc'[a] = "set" /\ cfgJob'[a] = act
  BY <1>1 DEF GoesOn
<1> HIDE DEF act, ptr, on
<1>4. /\ ptr \in DOMAIN heap /\ heap[ptr] \in Content /\ DOMAIN heap' = DOMAIN heap
      /\ heap'[ptr] = [heap[ptr] EXCEPT !.set["watcher"] = on]
      /\ heap'[ptr].set = [heap[ptr].set EXCEPT !["watcher"] = on]
      /\ \A j \in DOMAIN heap : /\ heap'[j].src = heap[j].src /\ heap'[j].prof = heap[j].prof
                                /\ j # ptr => heap'[j] = heap[j]
  BY <1>1 DEF FlagSet
<1>5. a # Boot /\ MayStep(a) /\ team[a] \cap Acting # {} /\ team[a] # {}
  BY <1>1, BootIsActor, WhoSteps DEF Writes, Acting
<1>6. team' = team /\ cfgCrashes' = cfgCrashes /\ (NoFaults' => NoFaults)
  BY <1>1 DEF NoFaultYet, NoFaults
<1>7. cfgPc'[Boot] = cfgPc[Boot] /\ Booted' /\ cfgPc'[Boot] # "boot"
  BY <1>1, <1>3, <1>5, NotBoot DEF Booted
<1>8. SameSources /\ SameProfiles
  BY <1>4 DEF SameSources, SameProfiles
<1>9. Writing(a)' /\ Coming(a)' = heap[ptr].src /\ ~Writing(a) /\ ~Changing(a) /\ ~Clearing(a)
  BY <1>1, <1>2, <1>3 DEF Writing, Coming, Changing, Clearing
<1>10. \A h \in DOMAIN heap' : Valued(heap'[h].set)
  BY <1>1, FlagValued
<1>11. FineInv'
  <2>1. OneWriter => \A h \in DOMAIN heap' : Fine(heap'[h].src)
    BY <1>4 DEF FineInv
  <2>2. OneWriter => FineAt(a)'
    BY <1>3, <1>4, <1>9 DEF FineAt, FineInv
  <2> QED
    BY <1>1, <1>3, <1>6, <2>1, <2>2, FineKept
<1>12. KeysInv'
  <2>1. KeysAt(a)'
    <3>1. Valued(heap'[ptr].set)
      BY <1>4, <1>10
    <3> QED
      BY <1>2, <1>3, <3>1 DEF KeysAt, Valued
  <2>2. \A k \in SettingKeys : stored.set[k] # Unset => stored'.set[k] # Unset
    BY <1>1
  <2> QED
    BY <1>1, <1>3, <1>7, <1>10, <2>1, <2>2, KeysKept
<1>13. WorkInv'
  <2>1. WorkAt(a)'
    BY <1>2, <1>3, <1>5, <1>6 DEF WorkAt
  <2> QED
    BY <1>3, <1>6, <2>1, WorkKept
<1>14. WantedInv'
  <2>1. OneQuiet => \A b \in Actors \ {a} : ~Writing(b) /\ cfgPc[b] # "toggle"
    BY <1>1, OthersRead DEF OneQuiet
  <2>2. OneQuiet => UrlsOf(Coming(a)') \in wanted'
    <3>1. OneQuiet => UrlsOf(stored.src) \in wanted
      BY <1>9, <2>1 DEF WantedInv, OneQuiet
    <3>2. OneQuiet => UrlsOf(heap[ptr].src) = UrlsOf(stored.src)
      BY <1>1 DEF WantedInv, OneQuiet, WantedAt, ptr
    <3> QED
      BY <1>1, <1>9, <3>1, <3>2
  <2> QED
    BY <1>3, <1>6, <1>7, <1>9, <2>1, <2>2, WantedWhileWriting
<1>15. ProfileInv'
  <2>1. stored'.src = stored.src /\ stored'.prof = stored.prof /\ cached' = cached /\ liveCfg' = liveCfg /\ Known' = Known
    BY <1>1 DEF Known
  <2>2. OnlyOne(Acting) => ProfileAt(a)'
    <3>1. OnlyOne(Acting) => Named(heap[ptr].src) \subseteq Known
      BY <1>1 DEF ProfileInv, ProfileAt, Sound, ptr
    <3> QED
      BY <1>2, <1>3, <2>1, <3>1 DEF ProfileAt
  <2> QED
    BY <1>3, <1>6, <1>8, <1>9, <2>1, <2>2, ProfileKept
<1>16. ASSUME Solo, AllSettled, LiveAt(a) PROVE LiveAt(a)'
  <2> DEFINE L == loadFromDB(stored)
  <2>1. heap[liveCfg] = L /\ heap[ptr] = L /\ liveCfg \in DOMAIN heap
    BY <1>1, <1>16 DEF LiveAt, Toggling, StoreIInv, CfgTypeOK, StoreTypes, ptr
  <2>2. L.src = Sees(stored.src) /\ L.prof = stored.prof /\ L.tab = stored.tab
    BY LoadedIs DEF StoreIInv, StoreTypes
  <2>3. L \in Content
    BY <1>4, <2>1
  <2> HIDE DEF L
  <2>4. [heap'[liveCfg] EXCEPT !.set["watcher"] = on] = [L EXCEPT !.set["watcher"] = on]
    <3>1. CASE liveCfg = ptr
      BY <1>4, <2>1, <2>3, <3>1, FlagTwice
    <3>2. CASE liveCfg # ptr
      BY <1>4, <2>1, <3>2
    <3> QED
      BY <3>1, <3>2
  <2>5. ToggledTo(a)' = [set |-> act.set, src |-> L.src, prof |-> L.prof, tab |-> L.tab]
    <3>1. ToggledTo(a)' = [set |-> act.set, src |-> heap[ptr].src, prof |-> stored.prof, tab |-> stored.tab]
      BY <1>1, <1>3, <1>9 DEF ToggledTo
    <3> QED
      BY <2>1, <2>2, <3>1
  <2>6. [L EXCEPT !.set["watcher"] = on] = ToggledTo(a)'
    <3>1. act.set = [L.set EXCEPT !["watcher"] = on]
      BY <1>2, <1>4, <2>1
    <3>2. [L EXCEPT !.set["watcher"] = on] =
            [set |-> [L.set EXCEPT !["watcher"] = on], src |-> L.src, prof |-> L.prof, tab |-> L.tab]
      BY <2>3, FlagTwice
    <3> QED
      BY <2>5, <3>1, <3>2
  <2>7. Sees(L.src) = L.src
    <3>1. Fine(stored.src) /\ stored.src \in Seq(Row)
      BY <1>16, SoloIsOne, StoredFields DEF FineInv
    <3> QED
      BY <1>16, <2>2, <3>1, FineRead
  <2>8. Valued(act.set)
    BY <1>2, <1>4, <1>10
  <2>9. /\ [heap'[liveCfg'] EXCEPT !.set["watcher"] = cfgJob'[a].on] = ToggledTo(a)'
        /\ (Sees(ToggledTo(a).src) = ToggledTo(a).src)' /\ Valued(cfgJob[a].set)'
        /\ \A k \in SettingKeys \ cfgJob'[a].todo : stored'.set[k] = cfgJob'[a].set[k]
    <3>1. [heap'[liveCfg'] EXCEPT !.set["watcher"] = cfgJob'[a].on] = ToggledTo(a)'
      BY <1>1, <1>2, <1>3, <2>4, <2>6
    <3>2. (Sees(ToggledTo(a).src) = ToggledTo(a).src)'
      BY <2>5, <2>7
    <3>3. Valued(cfgJob[a].set)'
      BY <1>3, <2>8 DEF Valued
    <3>4. \A k \in SettingKeys \ cfgJob'[a].todo : stored'.set[k] = cfgJob'[a].set[k]
      BY <1>2, <1>3
    <3> QED
      BY <3>1, <3>2, <3>3, <3>4
  <2> QED
    BY <1>3, <2>9 DEF LiveAt, Toggling
<1>17. LiveInv'
  BY <1>3, <1>5, <1>6, <1>16, LiveKept
<1> QED
  BY <1>11, <1>12, <1>13, <1>14, <1>15, <1>17

LEMMA LiveFlagKeeps ==
  ASSUME ProviderIInv, NEW a \in Actors, SetLiveWatcher(a)
  PROVE  ProvidersIInv'
<1> USE DEF ProviderIInv, ProvidersIInv
<1> DEFINE on == cfgJob[a].on
<1>1. /\ a \in Admins /\ Booted /\ cfgPc[a] = "watch" /\ cfgJob[a].kind = "toggle" /\ WritesFlag(a)
      /\ on \in Flags /\ FlagSet(liveCfg, on)
      /\ OthersStay(a) /\ cfgPc'[a] = "idle" /\ cfgJob'[a].kind = "none"
      /\ NoFaultYet /\ UNCHANGED <<stored, cached, liveCfg, wanted>>
  BY LiveFlagIs DEF GoesOn, NoJob
<1>2. /\ liveCfg \in DOMAIN heap /\ heap[liveCfg] \in Content /\ DOMAIN heap' = DOMAIN heap
      /\ heap'[liveCfg] = [heap[liveCfg] EXCEPT !.set["watcher"] = on]
      /\ \A j \in DOMAIN heap : heap'[j].src = heap[j].src /\ heap'[j].prof = heap[j].prof
  BY <1>1 DEF FlagSet
<1>3. a # Boot /\ MayStep(a)
  BY <1>1, BootIsActor, WhoSteps
<1>4. team' = team /\ cfgCrashes' = cfgCrashes /\ (NoFaults' => NoFaults)
  BY <1>1 DEF NoFaultYet, NoFaults
<1>5. cfgPc'[Boot] = cfgPc[Boot] /\ (Booted' <=> Booted)
  BY <1>1, <1>3, NotBoot
<1>6. KeysAt(a)' /\ FineAt(a)' /\ WantedAt(a)' /\ ProfileAt(a)'
  BY <1>1, <1>3, Claimless
<1>7. ~Writing(a) /\ ~StaleAt(a) /\ ~Changing(a) /\ ~Clearing(a)
  BY <1>1 DEF Writing, StaleAt, Changing, Clearing
<1>8. SameSources /\ SameProfiles
  BY <1>2 DEF SameSources, SameProfiles
<1>9. FineInv'
  <2>1. OneWriter => \A h \in DOMAIN heap' : Fine(heap'[h].src)
    BY <1>2 DEF FineInv
  <2> QED
    BY <1>1, <1>4, <1>6, <2>1, FineKept
<1>10. KeysInv'
  <2>1. \A h \in DOMAIN heap' : Valued(heap'[h].set)
    BY <1>1, FlagValued
  <2>2. \A k \in SettingKeys : stored.set[k] # Unset => stored'.set[k] # Unset
    BY <1>1
  <2> QED
    BY <1>1, <1>5, <1>6, <2>1, <2>2, KeysKept
<1>11. WorkInv'
  <2>1. WorkAt(a)'
    BY <1>1 DEF WorkAt
  <2> QED
    BY <1>1, <1>4, <2>1, WorkKept
<1>12. WantedInv'
  <2>1. UrlsOf(stored'.src) = UrlsOf(stored.src) /\ wanted' = wanted /\ cached' = cached /\ stored'.src = stored.src
    BY <1>1
  <2> QED
    BY <1>1, <1>4, <1>5, <1>6, <1>7, <1>8, <2>1, WantedKept
<1>13. ProfileInv'
  <2>1. stored'.src = stored.src /\ stored'.prof = stored.prof /\ cached' = cached /\ liveCfg' = liveCfg
    BY <1>1
  <2> QED
    BY <1>1, <1>4, <1>6, <1>7, <1>8, <2>1, ProfileKept
<1>14. ASSUME LiveAt(a) PROVE LiveAt(a)'
  <2>1. /\ [heap[liveCfg] EXCEPT !.set["watcher"] = on] = ToggledTo(a)
        /\ Sees(ToggledTo(a).src) = ToggledTo(a).src /\ Valued(cfgJob[a].set)
        /\ \A k \in SettingKeys \ cfgJob[a].todo : stored.set[k] = cfgJob[a].set[k]
        /\ cfgJob[a].todo = {} /\ cached = 0
    BY <1>1, <1>14 DEF LiveAt
  <2>2. ToggledTo(a) = [set |-> cfgJob[a].set, src |-> stored.src, prof |-> stored.prof, tab |-> stored.tab]
    BY <1>7 DEF ToggledTo
  <2>3. cfgJob[a].set \in [SettingKeys -> Strings]
    BY <1>1 DEF StoreIInv, JobTypes, JobTyped, ToggleJob
  <2> DEFINE L == loadFromDB(stored)
  <2>4. /\ L.src = Sees(stored.src) /\ L.prof = stored.prof /\ L.tab = stored.tab
        /\ L.set = [k \in SettingKeys |-> IF stored.set[k] = Unset THEN getDefaultConfig.set[k] ELSE stored.set[k]]
        /\ L = [set |-> L.set, src |-> L.src, prof |-> L.prof, tab |-> L.tab]
    BY LoadedIs DEF StoreIInv, StoreTypes
  <2> HIDE DEF L
  <2>5. L.set = cfgJob[a].set
    <3>1. \A k \in SettingKeys : stored.set[k] = cfgJob[a].set[k] /\ stored.set[k] # Unset
      BY <2>1 DEF Valued
    <3> QED
      BY <2>3, <2>4, <3>1
  <2>6. L.src = stored.src
    BY <2>1, <2>2, <2>4
  <2>7. heap'[liveCfg] = L
    BY <1>2, <2>1, <2>2, <2>4, <2>5, <2>6
  <2>8. heap'[liveCfg'] = loadFromDB(stored') /\ cached' \in {0, liveCfg'}
    BY <1>1, <2>1, <2>7 DEF L
  <2>9. ~WritesFlag(a)' /\ ~Toggling(a)'
    BY <1>1 DEF WritesFlag, Toggling
  <2> QED
    BY <1>1, <2>8, <2>9 DEF LiveAt
<1>15. LiveInv'
  BY <1>1, <1>3, <1>4, <1>14, LiveKept
<1> QED
  BY <1>9, <1>10, <1>11, <1>12, <1>13, <1>15

-----------------------------------------------------------------------------
(* The profiles, the end of the migration and a crash.                     *)

LEMMA ProfilesKeep ==
  ASSUME ProviderIInv, NEW a \in Admins, ProfilesChanged(a)
  PROVE  ProvidersIInv'
<1> USE DEF ProviderIInv, ProvidersIInv
<1>1. /\ Booted /\ Writes(a) /\ cfgPc[a] \in {"idle", "delete"}
      /\ OthersStay(a) /\ cfgPc'[a] = "clear" /\ cfgJob'[a].kind = "profile"
      /\ stored'.set = stored.set /\ Alike(stored.src, stored'.src) /\ stored'.src \in Seq(Row)
      /\ Named(stored.src) \subseteq Known => Named(stored'.src) \subseteq Known'
      /\ NoFaultYet /\ UNCHANGED <<heap, cached, liveCfg, wanted>>
  BY DEF ProfilesChanged, GoesOn
<1>2. a \in Actors /\ a # Boot /\ team[a] \cap Acting # {} /\ team[a] # {} /\ MayStep(a)
  BY <1>1, BootIsActor DEF Writes, Acting, MayStep
<1>3. team' = team /\ cfgCrashes' = cfgCrashes /\ (NoFaults' => NoFaults)
  BY <1>1 DEF NoFaultYet, NoFaults
<1>4. cfgPc'[Boot] = cfgPc[Boot] /\ Booted' /\ Booted /\ cfgPc'[Boot] = "idle"
  BY <1>1, <1>2, NotBoot DEF Booted
<1>5. KeysAt(a)' /\ FineAt(a)' /\ WantedAt(a)' /\ ProfileAt(a)' /\ ~Writing(a)'
  BY <1>1, <1>2, Claimless
<1>6. stored.src \in Seq(Row) /\ UrlsOf(stored'.src) = UrlsOf(stored.src) /\ (Fine(stored.src) => Fine(stored'.src))
  BY <1>1, StoredFields, AlikeKeeps
<1>7. \A b \in Actors \ {a} : cfgPc'[b] = cfgPc[b] /\ cfgJob'[b] = cfgJob[b]
  BY <1>1 DEF OthersStay
<1>8. OneWriter => \A b \in Actors \ {a} : ~Writing(b)
  BY <1>1, <1>2, OthersRead
<1>9. FineInv'
  <2> SUFFICES ASSUME OneWriter
               PROVE  /\ Fine(stored'.src) /\ \A h \in DOMAIN heap' : Fine(heap'[h].src)
                      /\ \A b \in Actors \ {a} : FineAt(b)'
    BY <1>3, <1>5 DEF FineInv, OneWriter, OnlyOne
  <2>1. Fine(stored'.src) /\ \A h \in DOMAIN heap' : Fine(heap'[h].src)
    BY <1>1, <1>6 DEF FineInv
  <2>2. ASSUME NEW b \in Actors \ {a} PROVE FineAt(b)'
    BY <1>7, <1>8 DEF FineInv, FineAt, Writing
  <2> QED
    BY <2>1, <2>2
<1>10. KeysInv'
  <2>1. stored'.src # <<>> => stored.src # <<>>
    BY <1>1, <1>6 DEF Alike
  <2>2. ASSUME NEW b \in Actors \ {a} PROVE KeysAt(b)'
    BY <1>1, <1>7 DEF KeysInv, KeysAt, Writing, Valued
  <2>3. \A h \in DOMAIN heap' : Valued(heap'[h].set)
    BY <1>1 DEF KeysInv
  <2> QED
    BY <1>1, <1>4, <1>5, <2>1, <2>2, <2>3 DEF KeysInv, Valued
<1>11. WorkInv'
  <2>1. Writes(a)'
    BY <1>1, <1>3 DEF Writes
  <2>2. WorkAt(a)'
    BY <1>1, <1>2, <1>3, <2>1 DEF WorkAt
  <2> QED
    BY <1>1, <1>2, <1>3, <2>2, WorkKept
<1>12. WantedInv'
  <2>1. ~Writing(a) /\ ~StaleAt(a)
    BY <1>1 DEF Writing, StaleAt
  <2>2. wanted' = wanted /\ cached' = cached
    BY <1>1
  <2> QED
    BY <1>1, <1>2, <1>3, <1>4, <1>5, <1>6, <1>8, <2>1, <2>2, SameObjects, WantedKept DEF OneQuiet
<1>13. ProfileInv'
  <2> SUFFICES ASSUME OnlyOne(Acting)
               PROVE  /\ Named(stored'.src) \subseteq Known'
                      /\ Changing(a)' /\ Clearing(a)'
                      /\ \A b \in Actors \ {a} : ProfileAt(b)'
    BY <1>2, <1>3, <1>5 DEF ProfileInv, OnlyOne
  <2>1. Named(stored'.src) \subseteq Known'
    BY <1>1 DEF ProfileInv
  <2>2. Changing(a)' /\ Clearing(a)'
    BY <1>1 DEF Changing, Clearing
  <2>3. ASSUME NEW b \in Actors \ {a} PROVE ProfileAt(b)'
    <3>1. cfgPc[b] \in {"idle", "rows", "assign"}
      BY <1>1, <1>2, OthersTable
    <3> QED
      BY <1>7, <3>1 DEF ProfileAt, Writing
  <2> QED
    BY <2>1, <2>2, <2>3
<1>14. LiveInv'
  <2>1. LiveAt(a)'
    BY <1>1 DEF LiveAt, Toggling, WritesFlag
  <2> QED
    BY <1>1, <1>2, <1>3, <2>1, LiveKept
<1> QED
  BY <1>9, <1>10, <1>11, <1>12, <1>13, <1>14

LEMMA JsonRenamedKeeps ==
  ASSUME ProviderIInv, NEW r \in BOOLEAN, RenameJSON(r)
  PROVE  ProvidersIInv'
<1> USE DEF ProviderIInv, ProvidersIInv
<1>1. /\ cfgPc[Boot] = "insert" /\ ~Booted /\ cached = 0 /\ cfgJob[Boot].src = <<>>
      /\ cfgJob[Boot].kind = "boot" /\ \A b \in Admins : cfgPc[b] = "idle"
      /\ OthersStay(Boot) /\ cfgPc'[Boot] = "load" /\ cfgJob'[Boot] = cfgJob[Boot]
      /\ stored'.set = stored.set /\ stored'.src = stored.src /\ stored'.prof = stored.prof
      /\ NoFaultYet /\ UNCHANGED <<heap, cached, liveCfg, wanted>>
  BY RenameIs DEF GoesOn
<1>2. Boot \in Actors /\ Boot \notin Admins /\ MayStep(Boot) /\ Writing(Boot)
  BY <1>1, BootIsActor DEF MayStep, Writing
<1>3. team' = team /\ cfgCrashes' = cfgCrashes /\ (NoFaults' => NoFaults)
  BY <1>1 DEF NoFaultYet, NoFaults
<1>4. KeysAt(Boot)' /\ FineAt(Boot)' /\ WantedAt(Boot)' /\ ProfileAt(Boot)'
  BY <1>1, <1>2, Claimless
<1>5. ~Changing(Boot) /\ ~Clearing(Boot)
  BY <1>1 DEF Changing, Clearing
<1>6. FineInv'
  <2>1. OneWriter => \A h \in DOMAIN heap' : Fine(heap'[h].src)
    BY <1>1 DEF FineInv
  <2> QED
    BY <1>1, <1>2, <1>3, <1>4, <2>1, FineKept
<1>7. KeysInv'
  <2>1. \A h \in DOMAIN heap' : Valued(heap'[h].set)
    BY <1>1 DEF KeysInv
  <2>2. \A k \in SettingKeys : stored.set[k] # Unset => stored'.set[k] # Unset
    BY <1>1
  <2> QED
    BY <1>1, <1>2, <1>4, <2>1, <2>2, KeysKept
<1>8. WorkInv'
  BY <1>1, <1>2, <1>3, WorkKept
<1>9. WantedInv'
  <2>1. OneQuiet => UrlsOf(stored.src) \in wanted
    <3>1. Coming(Boot) = stored.src
      BY <1>1, StoredFields, EmptyLists DEF Coming
    <3> QED
      BY <1>2, <3>1 DEF WantedInv, OneQuiet, WantedAt
  <2>2. \A b \in Actors : cfgPc'[b] # "reading"
    <3>1. \A b \in Admins : cfgPc'[b] = "idle"
      BY <1>1, BootIsActor DEF OthersStay
    <3> QED
      BY <1>1, <3>1 DEF Actors
  <2>3. UrlsOf(stored'.src) = UrlsOf(stored.src) /\ wanted' = wanted /\ cached' = 0 /\ cfgPc'[Boot] # "boot"
    BY <1>1
  <2> QED
    BY <1>1, <1>2, <1>3, <1>4, <2>1, <2>2, <2>3, SameObjects, WantedKept
<1>10. ProfileInv'
  <2>1. cached' = cached /\ liveCfg' = liveCfg /\ heap' = heap
    BY <1>1
  <2> QED
    BY <1>1, <1>2, <1>3, <1>4, <1>5, <2>1, SameObjects, ProfileKept
<1>11. LiveInv'
  <2>1. LiveAt(Boot)'
    BY <1>1 DEF LiveAt, Toggling, WritesFlag
  <2> QED
    BY <1>1, <1>2, <1>3, <2>1, LiveKept
<1> QED
  BY <1>6, <1>7, <1>8, <1>9, <1>10, <1>11

\* Where the process starts: nobody is at anything but boot.
Starting ==
  /\ heap = <<>> /\ cached = 0 /\ liveCfg = 0 /\ cfgPc[Boot] = "boot"
  /\ \A a \in Admins : cfgPc[a] = "idle"
  /\ \A a \in Actors : cfgJob[a].kind = "none"

LEMMA StartKeeps ==
  ASSUME Starting, OneWriter => Fine(stored.src), stored.src # <<>> => stored.set["watcher"] # Unset,
         OnlyOne(Acting) => Named(stored.src) \subseteq Known,
         cfgCrashes \in Nat,
         cfgCrashes = 0 => stored.src = <<>> /\ wanted = {{}, UrlsOf(JsonDoc.src)}
  PROVE  ProvidersIInv
<1>1. \A a \in Actors : /\ ~Writing(a) /\ ~WritesFlag(a) /\ ~Toggling(a) /\ ~Changing(a) /\ ~Clearing(a)
                        /\ cfgPc[a] \in {"boot", "idle"}
  BY DEF Starting, Actors, Writing, WritesFlag, Toggling, Changing, Clearing
<1>2. DOMAIN heap = {}
  BY DEF Starting
<1>3. FineInv
  BY <1>1, <1>2 DEF FineInv, FineAt
<1>4. KeysInv
  BY <1>1, <1>2 DEF KeysInv, KeysAt, Starting
<1>5. WorkInv
  BY BootIsActor DEF WorkInv, WorkAt, Starting
<1>6. WantedInv
  <2>1. cfgCrashes = 0 => UrlsOf(stored.src) \in wanted
    BY EmptyLists
  <2> QED
    BY <1>1, <2>1 DEF WantedInv, WantedAt, Starting
<1>7. ProfileInv
  BY <1>1 DEF ProfileInv, ProfileAt, Starting
<1>8. LiveInv
  <2> SUFFICES ASSUME NEW a \in Actors, \A b \in Actors \ {a} : cfgPc[b] = "idle"
               PROVE  LiveAt(a)
    BY DEF LiveInv
  <2>1. a = Boot
    BY BootIsActor DEF Starting
  <2> QED
    BY <1>1, <2>1 DEF LiveAt, Starting
<1> QED
  BY <1>3, <1>4, <1>5, <1>6, <1>7, <1>8 DEF ProvidersIInv

LEMMA CrashKeeps ==
  ASSUME ProviderIInv, Crash
  PROVE  ProvidersIInv'
<1>1. /\ heap' = <<>> /\ cached' = 0 /\ liveCfg' = 0
      /\ cfgPc' = [a \in Actors |-> IF a = Boot THEN "boot" ELSE "idle"]
      /\ cfgJob' = [a \in Actors |-> NoJob]
      /\ cfgCrashes' = cfgCrashes + 1 /\ UNCHANGED <<stored, wanted, team>>
  BY DEF Crash
<1>2. cfgCrashes' \in Nat /\ cfgCrashes' # 0
  BY <1>1 DEF ProviderIInv, ProvidersIInv, WantedInv
<1>3. Starting'
  BY <1>1, BootIsActor DEF Starting, NoJob
<1>4. (OneWriter => Fine(stored.src))'
  <2>1. OneWriter' => Fine(stored.src)
    BY <1>1 DEF OneWriter, OnlyOne, ProviderIInv, ProvidersIInv, FineInv
  <2> QED
    BY <1>1, <2>1
<1>5. (stored.src # <<>> => stored.set["watcher"] # Unset)'
  BY <1>1 DEF ProviderIInv, ProvidersIInv, KeysInv
<1>6. (OnlyOne(Acting) => Named(stored.src) \subseteq Known)'
  BY <1>1 DEF OnlyOne, ProviderIInv, ProvidersIInv, ProfileInv, Known
<1>7. (cfgCrashes = 0 => stored.src = <<>> /\ wanted = {{}, UrlsOf(JsonDoc.src)})'
  BY <1>2
<1>8. (/\ Starting /\ (OneWriter => Fine(stored.src))
       /\ stored.src # <<>> => stored.set["watcher"] # Unset
       /\ OnlyOne(Acting) => Named(stored.src) \subseteq Known
       /\ cfgCrashes \in Nat
       /\ cfgCrashes = 0 => stored.src = <<>> /\ wanted = {{}, UrlsOf(JsonDoc.src)}
       => ProvidersIInv)'
  BY StartKeeps, PTL
<1> QED
  BY <1>2, <1>3, <1>4, <1>5, <1>6, <1>7, <1>8

LEMMA ProvidersStart == ConfigInit => ProvidersIInv
<1> SUFFICES ASSUME ConfigInit PROVE ProvidersIInv
  OBVIOUS
<1>1. stored.src = <<>> /\ cfgCrashes = 0 /\ wanted = {{}, UrlsOf(JsonDoc.src)}
  BY DEF ConfigInit
<1>2. Starting
  BY BootIsActor DEF ConfigInit, Starting, NoJob
<1>3. Fine(stored.src) /\ Named(stored.src) \subseteq Known
  BY <1>1, FineEmpty, EmptyLists
<1> QED
  BY <1>1, <1>2, <1>3, StartKeeps

LEMMA ProvidersUnchanged ==
  ASSUME ProviderIInv, UNCHANGED cfgVars
  PROVE  ProvidersIInv'
<1>1. UNCHANGED <<stored, heap, cached, liveCfg, cfgPc, cfgJob, team, cfgCrashes, writeFails, loadFails, wanted>>
  BY DEF cfgVars
<1>2. \A a \in Actors : /\ Writing(a)' = Writing(a) /\ Coming(a)' = Coming(a) /\ Changing(a)' = Changing(a)
                        /\ Clearing(a)' = Clearing(a) /\ StaleAt(a)' = StaleAt(a)
  BY <1>1 DEF Writing, Coming, Changing, Clearing, StaleAt
<1>3. FineInv' /\ KeysInv' /\ WorkInv'
  <2>1. \A a \in Actors : FineAt(a)' = FineAt(a) /\ KeysAt(a)' = KeysAt(a)
    BY <1>1, <1>2 DEF FineAt, KeysAt, Valued
  <2>2. \A a \in Admins : WorkAt(a)' = WorkAt(a)
    BY <1>1 DEF WorkAt, Writes
  <2> QED
    BY <1>1, <2>1, <2>2 DEF ProviderIInv, ProvidersIInv, FineInv, KeysInv, WorkInv, Valued, OneWriter, OnlyOne
<1>4. WantedInv'
  <2>1. Stale' = Stale
    BY <1>2 DEF Stale
  <2>2. \A a \in Actors : WantedAt(a)' = WantedAt(a)
    BY <1>1, <1>2, <2>1 DEF WantedAt
  <2> QED
    BY <1>1, <1>2, <2>1, <2>2 DEF ProviderIInv, ProvidersIInv, WantedInv, OneWriter, OnlyOne, NoFaults, Booted
<1>5. ProfileInv'
  <2>1. Known' = Known
    BY <1>1 DEF Known
  <2>2. \A a \in Actors : ProfileAt(a)' = ProfileAt(a)
    BY <1>1, <1>2, <2>1 DEF ProfileAt, Sound
  <2>3. Sound(heap[liveCfg])' = Sound(heap[liveCfg]) /\ Sound(heap[cached])' = Sound(heap[cached])
    BY <1>1, <2>1 DEF Sound
  <2> QED
    BY <1>1, <1>2, <2>1, <2>2, <2>3 DEF ProviderIInv, ProvidersIInv, ProfileInv, OnlyOne
<1>6. LiveInv'
  <2>1. ASSUME NEW a \in Actors PROVE LiveAt(a)' = LiveAt(a)
    <3>1. ToggledTo(a)' = ToggledTo(a) /\ WritesFlag(a)' = WritesFlag(a) /\ Toggling(a)' = Toggling(a)
      BY <1>1, <1>2 DEF ToggledTo, WritesFlag, Toggling
    <3> QED
      BY <1>1, <3>1 DEF LiveAt, Valued
  <2> QED
    BY <1>1, <2>1 DEF ProviderIInv, ProvidersIInv, LiveInv, Solo, NoFaults
<1> QED
  BY <1>3, <1>4, <1>5, <1>6 DEF ProvidersIInv

LEMMA ProviderRequests ==
  ASSUME ProviderIInv, NEW a \in Admins, Requests(a)
  PROVE  ProvidersIInv'
<1>0. StoreIInv
  BY DEF ProviderIInv
<1>1. CASE \E d \in Docs : handleSetConfig(a, d)
  BY <1>1, SaveKeeps
<1>2. CASE \/ \E v \in {"on", "off"} : handleToggleWatcher(a, v)
           \/ RunRestartLoop(a)
           \/ \E p \in stored.prof, f \in BOOLEAN : handleDeleteFilterProfile(a, p, f)
  <2>1. CASE \E v \in {"on", "off"} : handleToggleWatcher(a, v)
    <3>1. PICK v \in {"on", "off"} : handleToggleWatcher(a, v)
      BY <2>1
    <3>2. Asks(a, "toggle", "load", [kind |-> "toggle", on |-> v])
      BY <1>0, <3>1, AsksAre
    <3> QED
      BY <3>2, AsksKeep
  <2>2. CASE RunRestartLoop(a)
    <3>1. Asks(a, "restart", "clear", [kind |-> "restart"])
      BY <1>0, <2>2, AsksAre
    <3> QED
      BY <3>1, AsksKeep
  <2>3. CASE \E p \in stored.prof, f \in BOOLEAN : handleDeleteFilterProfile(a, p, f)
    <3>1. PICK p \in stored.prof, f \in BOOLEAN : handleDeleteFilterProfile(a, p, f)
      BY <2>3
    <3>2. Asks(a, "profile", "delete", [kind |-> "profile", id |-> p.id])
      BY <1>0, <3>1, AsksAre
    <3> QED
      BY <3>2, AsksKeep
  <2> QED
    BY <1>2, <2>1, <2>2, <2>3
<1>3. CASE handleGetConfig(a)
  BY <1>3, PageKeeps
<1>4. CASE \/ \E n \in ProfileNames : handleCreateFilterProfile(a, n)
           \/ \E p \in stored.prof, n \in ProfileNames : handleUpdateFilterProfile(a, p, n)
  <2>1. ProfilesChanged(a)
    BY <1>0, <1>4, CreateIs, UpdateIs
  <2> QED
    BY <2>1, ProfilesKeep
<1>5. CASE handleXCAccount(a) \/ handleEPG(a) \/ handleSDAccount(a)
  <2>1. PICK t \in Tables, rows \in SUBSET Nat : RowWritten(a, t, rows)
    BY <1>5, TablesAre DEF handleXCAccount, handleEPG, handleSDAccount
  <2>2. Begins(a, "table") /\ TableChanged(a, t)
    BY <1>0, <2>1, RowIs
  <2>3. cfgPc[a] = "idle" /\ team[a] # {}
    BY <2>2 DEF Begins
  <2> QED
    BY <2>2, <2>3, TableKeeps
<1> QED
  BY <1>1, <1>2, <1>3, <1>4, <1>5 DEF Requests

LEMMA ProviderSteps ==
  ASSUME ProviderIInv, NEW a \in Actors, Steps(a)
  PROVE  ProvidersIInv'
<1>0. StoreIInv /\ WorkInv
  BY DEF ProviderIInv, ProvidersIInv
<1>1. CASE \E k \in SettingKeys : SetSetting(a, k)
  BY <1>1, SettingKeeps
<1>2. CASE PostBack(a) \/ Wipe(a) \/ InsertSource(a) \/ Persisted(a)
  BY <1>2, PagePostedKeeps, WipeKeeps, InsertKeeps, PersistedKeeps
<1>3. CASE ClearConfigCache(a) \/ LoadConfig(a) \/ loadFilterProfilesFromDB(a) \/ Swap(a)
  BY <1>3, ClearKeeps, LoadKeeps, ReadKeeps, SwapKeeps
<1>4. CASE persistWatcherConfig(a) \/ SetLiveWatcher(a)
  BY <1>4, WatcherKeeps, LiveFlagKeeps
<1>5. CASE DeleteFilterProfile(a)
  BY <1>0, <1>5, DeleteIs, ProfilesKeep, DeletesNothing
<1>6. CASE replaceSDLineups(a)
  <2>1. /\ cfgPc[a] = "rows" /\ cfgJob[a].table = "sd" /\ TableChanged(a, "sd")
        /\ "sd" \in Tables
    BY <1>0, <1>6, LineupsAre, TablesAre
  <2>2. a \in Admins
    BY <2>1 DEF TableChanged
  <2>3. team[a] # {}
    BY <1>0, <2>1, <2>2 DEF WorkInv, WorkAt
  <2> QED
    BY <2>1, <2>2, <2>3, TableKeeps
<1>7. CASE GetAllXCAccounts(a) \/ GetAllEPGs(a) \/ GetAllSDAccountsWithLineups(a)
  BY <1>7, TablesAre, RowsReadKeeps DEF GetAllXCAccounts, GetAllEPGs, GetAllSDAccountsWithLineups
<1>8. CASE reloadXCAccounts(a) \/ reloadEPGs(a) \/ reloadSDAccounts(a)
  BY <1>8, TablesAre, AssignKeeps DEF reloadXCAccounts, reloadEPGs, reloadSDAccounts
<1> QED
  BY <1>1, <1>2, <1>3, <1>4, <1>5, <1>6, <1>7, <1>8 DEF Steps

LEMMA ProvidersStep ==
  ASSUME ProviderIInv, [ConfigNext]_cfgVars
  PROVE  ProvidersIInv'
<1>1. CASE \E a \in Admins : Requests(a)
  BY <1>1, ProviderRequests
<1>2. CASE \E a \in Actors : Steps(a) \/ WriteFails(a) \/ LoadFails(a)
  <2>1. PICK a \in Actors : Steps(a) \/ WriteFails(a) \/ LoadFails(a)
    BY <1>2
  <2>2. CASE Steps(a)
    BY <2>2, ProviderSteps
  <2>3. CASE WriteFails(a)
    BY <2>3, WriteFailedKeeps
  <2>4. CASE LoadFails(a)
    BY <2>4, ReadFailsKeeps
  <2> QED
    BY <2>1, <2>2, <2>3, <2>4
<1>3. CASE MigrateFromJSON \/ (\E r \in BOOLEAN : RenameJSON(r)) \/ Crash
  BY <1>3, MigrateKeeps, JsonRenamedKeeps, CrashKeeps
<1>4. CASE UNCHANGED cfgVars
  BY <1>4, ProvidersUnchanged
<1> QED
  BY <1>1, <1>2, <1>3, <1>4 DEF ConfigNext

LEMMA ProvidersInductive ==
  ASSUME ProviderIInv, [ConfigNext]_cfgVars
  PROVE  ProviderIInv'
<1>1. StoreIInv
  BY DEF ProviderIInv
<1>2. StoreIInv'
  BY <1>1, StoreInductive
<1> QED
  BY <1>2, ProvidersStep DEF ProviderIInv

LEMMA ProvidersFollow ==
  ASSUME DocsListOnce, ProviderIInv
  PROVE  ProvidersAreKept
<1> USE DEF ProviderIInv, ProvidersIInv
<1>1. LiveIsStored
  <2> SUFFICES ASSUME Solo, AllSettled, CfgQuiet, NoFaults
               PROVE  heap[liveCfg] = loadFromDB(stored)
    BY DEF LiveIsStored, LiveAgrees
  <2>1. LiveAt(Boot) /\ cfgPc[Boot] = "idle"
    BY BootIsActor DEF LiveInv, CfgQuiet
  <2> QED
    BY <2>1 DEF LiveAt
<1>2. ProfileExists
  <2> SUFFICES ASSUME OnlyOne(Acting), NEW i \in DanglingProfiles
               PROVE  FALSE
    BY DEF ProfileExists, Acting
  <2>1. stored.src[i].prof \in Named(stored.src) \ Known
    BY DEF DanglingProfiles, Named, Known
  <2> QED
    BY <2>1 DEF ProfileInv
<1>3. SourcesUnique
  <2> SUFFICES ASSUME OneWriter, NEW i \in DOMAIN stored.src, NEW j \in DOMAIN stored.src, i # j,
                      stored.src[i].url = stored.src[j].url
               PROVE  stored.src[i].name # stored.src[j].name
    BY DEF SourcesUnique, AccountsUnique
  <2>1. ListedOnce(stored.src)
    BY DEF FineInv, Fine
  <2> QED
    BY <2>1 DEF ListedOnce
<1>4. SourcesSurvive
  <2> SUFFICES ASSUME OneQuiet, CfgQuiet
               PROVE  UrlsOf(stored.src) \in wanted
    BY DEF SourcesSurvive, SourcesWanted, OneQuiet
  <2>1. \A a \in Actors : ~Writing(a)
    BY DEF CfgQuiet, Writing
  <2> QED
    BY <2>1 DEF WantedInv, OneQuiet
<1> QED
  BY <1>1, <1>2, <1>3, <1>4 DEF ProvidersAreKept

\* For any documents that list no account twice, and any settings, profiles, teams of
\* admins and faults: by itself an admin leaves the proxy working with exactly what is
\* stored; with one admin writing no stored source is without its profile, none is there
\* twice, and only a save decides which providers are configured (ProvidersAreKept).
THEOREM ProvidersAreAlwaysKept ==
  ASSUME DocsListOnce
  PROVE  ConfigSpec => []ProvidersAreKept
<1>1. ConfigInit => ProviderIInv
  BY ConfigStarts, ProvidersStart DEF ProviderIInv
<1>2. ProviderIInv /\ [ConfigNext]_cfgVars => ProviderIInv'
  BY ProvidersInductive
<1>3. ProviderIInv => ProvidersAreKept
  BY ProvidersFollow
<1> QED
  BY <1>1, <1>2, <1>3, PTL DEF ConfigSpec

(***************************************************************************)
(* The guide.  What a refresh has merged so far is whole and is indexed    *)
(* as it should be (Holds), so what it publishes is; while publications do *)
(* not overlap, the indexes are those of whoever publishes, or of the file *)
(* (PublishedInv).                                                         *)
(***************************************************************************)

Listings == [kind : {"programme"}, id : AllIds, start : Int, stop : Int]
GuidePCs == {"idle", "begin", "prepare", "fetch", "commit", "write"}
Merging == {"fetch", "commit", "write"}
WithStore == {"prepare", "fetch", "commit", "write"}
Asked == GuideUrls \cup GuideSDs \cup {BlankRow}
Refreshes == [pc : GuidePCs, no : Nat, rev : [AllIds -> SUBSET AllIds], todo : SUBSET Asked, channels : SUBSET RawIds,
              progs : SUBSET Listings, built : [AllIds -> Seq(Listings)], got : SUBSET Fragments, broken : BOOLEAN,
              answer : {"", "guide", "none"}]
Files == [channels : SUBSET AllIds, progs : SUBSET Listings, raw : SUBSET RawIds, got : SUBSET Fragments,
          rev : [AllIds -> SUBSET AllIds], no : Nat, old : BOOLEAN]

\* An index has of an id what f, a merge or a file, has of it, or what is looked up of it.
Matches(ix, f) ==
  \A id \in AllIds :
    /\ \A i \in DOMAIN ix[id] : ix[id][i] \in f.progs /\ ix[id][i].id = id
    /\ LookedUp(f, id) => \A p \in f.progs : p.id = id => \E i \in DOMAIN ix[id] : ix[id][i] = p
    /\ ~LookedUp(f, id) /\ ~Exported(f, id) => ix[id] = <<>>

CopiesOf(f, frag) == {Renamed(frag, x) : x \in f.rev[frag.id] \cup {frag.id}}
Whole(f, chans) ==
  /\ DummyChannelID \in chans
  /\ \A frag \in f.got \cup {DummyEntry} :
       IF frag.kind = "channel" THEN frag.id \in chans ELSE CopiesOf(f, frag) \subseteq f.progs
Holds(q) == Whole(q, q.channels) /\ Matches(q.built, q)
Same(q, r) == /\ r.pc = q.pc /\ r.no = q.no /\ r.rev = q.rev /\ r.todo = q.todo /\ r.broken = q.broken
              /\ r.answer = q.answer

-----------------------------------------------------------------------------
(* A merge, programme by programme. *)

LEMMA CopyIs ==
  ASSUME NEW f \in Fragments, f.kind = "programme", NEW x \in AllIds
  PROVE  /\ Renamed(f, x) \in Listings /\ Renamed(f, x).id = x
         /\ Renamed(f, x) = [kind |-> "programme", id |-> x, start |-> f.start, stop |-> f.stop]
BY DEF Fragments, Listings, Renamed

LEMMA SinkFields ==
  ASSUME NEW q \in Refreshes, NEW f \in Fragments, f.kind = "programme"
  PROVE  /\ progSink(q, f) \in Refreshes /\ Same(q, progSink(q, f))
         /\ progSink(q, f).channels = q.channels /\ progSink(q, f).got = q.got
         /\ progSink(q, f).progs = q.progs \cup CopiesOf(q, f)
         /\ progSink(q, f).built = [id \in AllIds |-> IF id \in lookedUp(q.rev, f.id) THEN Append(q.built[id], Renamed(f, id))
                                                      ELSE q.built[id]]
<1> DEFINE B == [id \in AllIds |-> IF id \in lookedUp(q.rev, f.id) THEN Append(q.built[id], Renamed(f, id)) ELSE q.built[id]]
           P == q.progs \cup CopiesOf(q, f)
<1>0. q.built \in [AllIds -> Seq(Listings)] /\ q.progs \in SUBSET Listings /\ q.rev \in [AllIds -> SUBSET AllIds]
  BY DEF Refreshes
<1>1. f.id \in AllIds
  BY DEF Fragments, AllIds
<1>2. B \in [AllIds -> Seq(Listings)]
  <2>1. ASSUME NEW id \in AllIds PROVE Append(q.built[id], Renamed(f, id)) \in Seq(Listings)
    BY <1>0, CopyIs
  <2> QED
    BY <1>0, <2>1
<1>3. P \in SUBSET Listings
  BY <1>0, <1>1, CopyIs DEF CopiesOf
<1>4. DOMAIN q = {"pc", "no", "rev", "todo", "channels", "progs", "built", "got", "broken", "answer"}
  BY DEF Refreshes
<1>5. progSink(q, f) = [[q EXCEPT !.built = B] EXCEPT !.progs = P]
  <2>1. indexedUnder(q, f) = [q EXCEPT !.built = B]
    BY <1>4 DEF indexedUnder
  <2>2. [q EXCEPT !.built = B].progs = q.progs
    BY <1>4
  <2>3. progSink(q, f) = [indexedUnder(q, f) EXCEPT !.progs = @ \cup CopiesOf(q, f)]
    BY DEF progSink, CopiesOf
  <2> HIDE DEF B
  <2> QED
    BY <2>1, <2>2, <2>3
<1> HIDE DEF B, P
<1>6. ASSUME NEW r, r = [[q EXCEPT !.built = B] EXCEPT !.progs = P]
      PROVE  r \in Refreshes /\ Same(q, r) /\ r.channels = q.channels /\ r.got = q.got /\ r.progs = P /\ r.built = B
  BY <1>2, <1>3, <1>6 DEF Refreshes, Same
<1> QED
  BY <1>5, <1>6 DEF B, P

LEMMA Appends ==
  ASSUME NEW S, NEW ps \in Seq(S), NEW x \in S
  PROVE  /\ Append(ps, x) \in Seq(S) /\ DOMAIN Append(ps, x) = DOMAIN ps \cup {Len(ps) + 1}
         /\ \A i \in DOMAIN ps : Append(ps, x)[i] = ps[i]
         /\ Append(ps, x)[Len(ps) + 1] = x /\ Append(ps, x) # <<>>
OBVIOUS

\* What goes into the document goes into the index, under the ids that are looked up.
LEMMA SinkMatches ==
  ASSUME NEW q \in Refreshes, NEW f \in Fragments, f.kind = "programme", Matches(q.built, q)
  PROVE  Matches(progSink(q, f).built, progSink(q, f))
<1> DEFINE r == progSink(q, f)
           under == lookedUp(q.rev, f.id)
<1>1. /\ Same(q, r) /\ r.progs = q.progs \cup CopiesOf(q, f)
      /\ r.built = [id \in AllIds |-> IF id \in under THEN Append(q.built[id], Renamed(f, id)) ELSE q.built[id]]
  BY SinkFields
<1> HIDE DEF r, under
<1>2. /\ q.built \in [AllIds -> Seq(Listings)] /\ q.rev \in [AllIds -> SUBSET AllIds]
      /\ f.id \in RawIds /\ f.id \in AllIds
  BY DEF Refreshes, Fragments, AllIds
<1>3. \A id : (LookedUp(r, id) <=> LookedUp(q, id)) /\ (Exported(r, id) <=> Exported(q, id))
  BY <1>1 DEF Same, LookedUp, Exported
<1>4. under = q.rev[f.id] \cup (IF f.id = DummyChannelID \/ q.rev[f.id] # {} THEN {f.id} ELSE {})
  BY DEF under, lookedUp
<1>5. ASSUME NEW id \in AllIds
      PROVE  /\ \A i \in DOMAIN r.built[id] : r.built[id][i] \in r.progs /\ r.built[id][i].id = id
             /\ LookedUp(r, id) => \A p \in r.progs : p.id = id => \E i \in DOMAIN r.built[id] : r.built[id][i] = p
             /\ ~LookedUp(r, id) /\ ~Exported(r, id) => r.built[id] = <<>>
  <2>1. /\ \A i \in DOMAIN q.built[id] : q.built[id][i] \in q.progs /\ q.built[id][i].id = id
        /\ LookedUp(q, id) => \A p \in q.progs : p.id = id => \E i \in DOMAIN q.built[id] : q.built[id][i] = p
        /\ ~LookedUp(q, id) /\ ~Exported(q, id) => q.built[id] = <<>>
    BY DEF Matches
  <2>2. q.built[id] \in Seq(Listings) /\ Renamed(f, id) \in Listings /\ Renamed(f, id).id = id
    BY <1>2, CopyIs
  <2>3. \A p \in CopiesOf(q, f) : p.id = id => p = Renamed(f, id) /\ id \in q.rev[f.id] \cup {f.id}
    BY <1>2, CopyIs DEF CopiesOf
  <2>4. CASE id \in under
    <3>1. r.built[id] = Append(q.built[id], Renamed(f, id))
      BY <1>1, <2>4
    <3>2. Renamed(f, id) \in CopiesOf(q, f)
      BY <1>4, <2>4 DEF CopiesOf
    <3>3. LookedUp(q, id) \/ Exported(q, id)
      BY <1>2, <1>4, <2>4 DEF LookedUp, Exported
    <3>4. /\ DOMAIN r.built[id] = DOMAIN q.built[id] \cup {Len(q.built[id]) + 1}
          /\ \A i \in DOMAIN q.built[id] : r.built[id][i] = q.built[id][i]
          /\ r.built[id][Len(q.built[id]) + 1] = Renamed(f, id)
      BY <2>2, <3>1, Appends
    <3>5. \A i \in DOMAIN r.built[id] : r.built[id][i] \in r.progs /\ r.built[id][i].id = id
      BY <1>1, <2>1, <2>2, <3>2, <3>4
    <3>6. ASSUME LookedUp(q, id), NEW p \in r.progs, p.id = id PROVE \E i \in DOMAIN r.built[id] : r.built[id][i] = p
      BY <1>1, <2>1, <2>3, <3>4, <3>6
    <3> QED
      BY <1>3, <3>3, <3>5, <3>6
  <2>5. CASE id \notin under
    <3>1. r.built[id] = q.built[id]
      BY <1>1, <2>5
    <3>2. LookedUp(q, id) => id \notin q.rev[f.id] \cup {f.id}
      BY <1>2, <1>4, <2>5 DEF LookedUp
    <3> QED
      BY <1>1, <1>3, <2>1, <2>3, <3>1, <3>2
  <2> QED
    BY <2>4, <2>5
<1> QED
  BY <1>5 DEF Matches, r

LEMMA TakenKeeps ==
  ASSUME NEW q \in Refreshes, Holds(q), NEW f \in Fragments
  PROVE  taken(q, f) \in Refreshes /\ Holds(taken(q, f)) /\ Same(q, taken(q, f))
<1>1. CASE f.kind = "channel"
  <2>1. ASSUME NEW c, c = chanSink(q, f)
        PROVE  /\ c \in Refreshes /\ Same(q, c) /\ c.channels = q.channels \cup {f.id} /\ c.got = q.got
               /\ c.progs = q.progs /\ c.built = q.built
    BY <2>1 DEF chanSink, Refreshes, Fragments, Same
  <2>2. taken(q, f) = [chanSink(q, f) EXCEPT !.got = @ \cup {f}]
    BY <1>1 DEF taken
  <2>3. ASSUME NEW c, c = chanSink(q, f), NEW r, r = [c EXCEPT !.got = @ \cup {f}]
        PROVE  r \in Refreshes /\ Same(q, r) /\ Holds(r)
    <3>1. /\ c \in Refreshes /\ Same(q, c) /\ c.channels = q.channels \cup {f.id} /\ c.got = q.got
          /\ c.progs = q.progs /\ c.built = q.built
      BY <2>1, <2>3
    <3>2. /\ r \in Refreshes /\ Same(c, r) /\ r.channels = c.channels /\ r.got = c.got \cup {f}
          /\ r.progs = c.progs /\ r.built = c.built
      BY <2>3, <3>1 DEF Refreshes, Same
    <3>3. Same(q, r) /\ r.rev = q.rev
      BY <3>1, <3>2 DEF Same
    <3>4. Matches(r.built, r)
      BY <3>1, <3>2, <3>3 DEF Holds, Matches, LookedUp, Exported
    <3>5. Whole(r, r.channels)
      BY <1>1, <3>1, <3>2, <3>3 DEF Holds, Whole, CopiesOf
    <3> QED
      BY <3>2, <3>3, <3>4, <3>5 DEF Holds
  <2> QED
    BY <2>2, <2>3
<1>2. CASE f.kind # "channel"
  <2>0. f.kind = "programme"
    BY <1>2 DEF Fragments
  <2>1. ASSUME NEW c, c = progSink(q, f), NEW r, r = [c EXCEPT !.got = @ \cup {f}]
        PROVE  r \in Refreshes /\ Same(q, r) /\ Holds(r)
    <3>1. /\ c \in Refreshes /\ Same(q, c) /\ c.channels = q.channels /\ c.got = q.got
          /\ c.progs = q.progs \cup CopiesOf(q, f) /\ Matches(c.built, c)
      BY <2>0, <2>1, SinkFields, SinkMatches DEF Holds
    <3>2. /\ r \in Refreshes /\ Same(c, r) /\ r.channels = c.channels /\ r.got = c.got \cup {f}
          /\ r.progs = c.progs /\ r.built = c.built
      BY <2>1, <3>1 DEF Refreshes, Same
    <3>3. Same(q, r) /\ r.rev = q.rev /\ r.rev = c.rev
      BY <3>1, <3>2 DEF Same
    <3>4. Matches(r.built, r)
      BY <3>1, <3>2, <3>3 DEF Matches, LookedUp, Exported
    <3>5. Whole(r, r.channels)
      <4>1. \A frag : CopiesOf(r, frag) = CopiesOf(q, frag)
        BY <3>3 DEF CopiesOf
      <4> QED
        BY <1>2, <3>1, <3>2, <4>1 DEF Holds, Whole
    <3> QED
      BY <3>2, <3>3, <3>4, <3>5 DEF Holds
  <2> QED
    BY <1>2, <2>1 DEF taken
<1> QED
  BY <1>1, <1>2

\* The merges of the first n fragments, as a function of n: there is one.
MergesOf(f, q, frags, N) == f = [n \in 0..N |-> IF n = 0 THEN q ELSE taken(f[n - 1], frags[n])]

LEMMA MergeExists ==
  ASSUME NEW S, NEW q \in S, NEW N \in Nat, NEW frags, \A n \in 1..N : \A r \in S : taken(r, frags[n]) \in S
  PROVE  \E f : MergesOf(f, q, frags, N)
<1> DEFINE step == [n \in 1..N |-> [r \in S |-> taken(r, frags[n])]]
<1>1. step \in [1..N -> [S -> S]]
  OBVIOUS
<1>2. \A n \in 1..N : \A r \in S : step[n][r] = taken(r, frags[n])
  OBVIOUS
<1> HIDE DEF step
<1>3. PICK g \in [0..N -> S] : g[0] = q /\ \A n \in 1..N : g[n] = step[n][g[n - 1]]
  BY <1>1, Recursion
<1>4. \A n \in 0..N : n # 0 => n \in 1..N /\ n - 1 \in 0..N
  OBVIOUS
<1>5. ASSUME NEW n \in 0..N PROVE g[n] = IF n = 0 THEN q ELSE taken(g[n - 1], frags[n])
  BY <1>2, <1>3, <1>4
<1> QED
  BY <1>3, <1>5 DEF MergesOf

LEMMA MergeKeeps ==
  ASSUME NEW q \in Refreshes, Holds(q), NEW frags \in Seq(Fragments)
  PROVE  merge(q, frags) \in Refreshes /\ Holds(merge(q, frags)) /\ Same(q, merge(q, frags))
<1> DEFINE S == {r \in Refreshes : Holds(r) /\ Same(q, r)}
           N == Len(frags)
           F(f) == f = [n \in 0..N |-> IF n = 0 THEN q ELSE taken(f[n - 1], frags[n])]
<1>1. q \in S /\ N \in Nat
  BY DEF Same
<1>2. ASSUME NEW n \in 1..N, NEW r \in S PROVE taken(r, frags[n]) \in S
  <2>1. frags[n] \in Fragments
    OBVIOUS
  <2>2. Same(r, taken(r, frags[n])) => Same(q, taken(r, frags[n]))
    BY DEF Same
  <2> QED
    BY <2>1, <2>2, TakenKeeps
<1> HIDE DEF S, N
<1>6. \E f : F(f)
  <2>1. \E f : MergesOf(f, q, frags, N)
    BY <1>1, <1>2, MergeExists
  <2> QED
    BY <2>1 DEF MergesOf
<1> DEFINE h == CHOOSE f : F(f)
<1>7. F(h)
  BY <1>6
<1>8. merge(q, frags) = h[N]
  BY DEF merge, N
<1> HIDE DEF h
<1>9. h[0] = q /\ \A n \in 1..N : h[n] = taken(h[n - 1], frags[n])
  <2>1. \A n \in 0..N : h[n] = IF n = 0 THEN q ELSE taken(h[n - 1], frags[n])
    BY <1>7
  <2>2. 0 \in 0..N /\ \A n \in 1..N : n \in 0..N /\ n # 0
    BY <1>1
  <2> QED
    BY <2>1, <2>2
<1> DEFINE K == {n \in Nat : n <= N => h[n] \in S}
<1>10. 0 \in K
  BY <1>1, <1>9
<1>11. ASSUME NEW n \in Nat, n \in K PROVE n + 1 \in K
  <2>1. SUFFICES ASSUME n + 1 <= N PROVE h[n + 1] \in S
    OBVIOUS
  <2>2. n + 1 \in 1..N /\ (n + 1) - 1 = n /\ n <= N
    BY <1>1, <2>1
  <2>3. h[n] \in S
    BY <1>11, <2>2
  <2>4. h[n + 1] = taken(h[n], frags[n + 1])
    BY <1>9, <2>2
  <2> QED
    BY <1>2, <2>2, <2>3, <2>4
<1>12. N \in K
  <2> HIDE DEF K
  <2> QED
    BY <1>1, <1>10, <1>11, Induct
<1>13. merge(q, frags) \in S
  BY <1>1, <1>8, <1>12
<1> QED
  BY <1>13 DEF S

-----------------------------------------------------------------------------
(* Commit: the order of the index. *)

Sorted(ps) == \A i, k \in DOMAIN ps : i < k => ps[i].start <= ps[k].start

LEMMA ListingTimes == \A p \in Listings : p.start \in Int /\ p.stop \in Int
BY DEF Listings

LEMMA NextPlace ==
  ASSUME NEW m \in Nat, NEW r \in 0..(m - 1)
  PROVE  r + 1 \in 1..m /\ (r + 1) - 1 = r
OBVIOUS

LEMMA Ordered ==
  ASSUME NEW ps \in Seq(Listings)
  PROVE  /\ startOrder(ps) \in Seq(Listings) /\ Sorted(startOrder(ps))
         /\ \A k \in DOMAIN startOrder(ps) : \E i \in DOMAIN ps : startOrder(ps)[k] = ps[i]
         /\ \A i \in DOMAIN ps : \E k \in DOMAIN startOrder(ps) : startOrder(ps)[k] = ps[i]
         /\ ps = <<>> => startOrder(ps) = <<>>
<1> DEFINE N == Len(ps)
           key == [i \in 1..N |-> ps[i].start]
           rank(i) == RankOf(key, i)
           at(n) == nth(ps, n)
           before(i) == Cardinality({j \in DOMAIN ps : startsBefore(ps, j, i)})
<1>1. N \in Nat /\ DOMAIN ps = 1..N /\ \A i \in 1..N : ps[i] \in Listings /\ ps[i].start \in Int
  BY ListingTimes
<1> HIDE DEF N
<1>2. key \in [1..N -> Int] /\ \A i \in 1..N : key[i] = ps[i].start
  BY <1>1
<1> HIDE DEF key
<1>3. /\ \A i \in 1..N : rank(i) \in 0..(N - 1)
      /\ \A i, j \in 1..N : key[i] < key[j] => rank(i) < rank(j)
      /\ \A i, j \in 1..N : i # j => rank(i) # rank(j)
      /\ \A n \in 1..N : \E i \in 1..N : rank(i) = n - 1
  BY <1>1, <1>2, RanksAre
<1>4. \A i \in 1..N : rank(i) = before(i)
  <2>1. ASSUME NEW i \in 1..N PROVE ranksBefore(key, i) = {j \in DOMAIN ps : startsBefore(ps, j, i)}
    BY <1>1, <1>2 DEF ranksBefore, startsBefore
  <2> QED
    BY <2>1 DEF RankOf
<1>5. startOrder(ps) = [n \in 1..N |-> ps[at(n)]]
  BY <1>1 DEF startOrder
<1>6. ASSUME NEW n \in 1..N PROVE at(n) \in 1..N /\ rank(at(n)) = n - 1
  <2>1. \E i \in DOMAIN ps : before(i) = n - 1
    <3> HIDE DEF rank, before
    <3> QED
      BY <1>1, <1>3, <1>4
  <2>2. at(n) \in DOMAIN ps /\ before(at(n)) = n - 1
    BY <2>1 DEF nth
  <2> HIDE DEF at, rank, before
  <2>3. at(n) \in 1..N
    BY <1>1, <2>2
  <2>4. rank(at(n)) = before(at(n))
    BY <1>4, <2>3
  <2> QED
    BY <2>2, <2>3, <2>4
<1> HIDE DEF at, rank
<1>7. ASSUME NEW i \in 1..N PROVE rank(i) + 1 \in 1..N /\ at(rank(i) + 1) = i
  <2>0. rank(i) \in 0..(N - 1)
    BY <1>3
  <2>1. PICK n \in 1..N : n = rank(i) + 1 /\ n - 1 = rank(i)
    <3>1. rank(i) + 1 \in 1..N /\ (rank(i) + 1) - 1 = rank(i)
      BY <1>1, <2>0, NextPlace
    <3> QED
      BY <3>1
  <2>2. at(n) \in 1..N /\ rank(at(n)) = n - 1
    BY <1>6
  <2> QED
    BY <1>3, <2>1, <2>2
<1>8. startOrder(ps) \in [1..N -> Listings] /\ DOMAIN startOrder(ps) = 1..N
  BY <1>1, <1>5, <1>6
<1>9. startOrder(ps) \in Seq(Listings)
  BY <1>1, <1>8, SeqDef
<1>10. \A k \in 1..N : \E i \in 1..N : startOrder(ps)[k] = ps[i]
  BY <1>5, <1>6
<1>11. \A i \in 1..N : \E k \in 1..N : startOrder(ps)[k] = ps[i]
  BY <1>5, <1>7
<1>12. ASSUME NEW i \in 1..N, NEW k \in 1..N, i < k PROVE startOrder(ps)[i].start <= startOrder(ps)[k].start
  <2>1. at(i) \in 1..N /\ at(k) \in 1..N /\ rank(at(i)) = i - 1 /\ rank(at(k)) = k - 1
    BY <1>6
  <2>2. ~(rank(at(k)) < rank(at(i)))
    BY <1>12, <2>1
  <2>3. ~(key[at(k)] < key[at(i)])
    BY <1>3, <2>1, <2>2
  <2>4. startOrder(ps)[i] = ps[at(i)] /\ startOrder(ps)[k] = ps[at(k)]
    BY <1>5
  <2> QED
    BY <1>1, <1>2, <2>1, <2>3, <2>4
<1>13. ps = <<>> => startOrder(ps) = <<>>
  <2>1. SUFFICES ASSUME ps = <<>> PROVE startOrder(ps) = <<>>
    OBVIOUS
  <2>2. 1..N = {}
    BY <1>1, <2>1
  <2> QED
    BY <1>5, <2>2
<1>14. Sorted(startOrder(ps))
  BY <1>8, <1>12 DEF Sorted
<1>15. \A k \in DOMAIN startOrder(ps) : \E i \in DOMAIN ps : startOrder(ps)[k] = ps[i]
  BY <1>1, <1>8, <1>10
<1>16. \A i \in DOMAIN ps : \E k \in DOMAIN startOrder(ps) : startOrder(ps)[k] = ps[i]
  BY <1>1, <1>8, <1>11
<1> QED
  BY <1>9, <1>13, <1>14, <1>15, <1>16

LEMMA CommittedIndex ==
  ASSUME NEW q \in Refreshes, Matches(q.built, q)
  PROVE  /\ committedIndex(q.built) \in [AllIds -> Seq(Listings)] /\ Matches(committedIndex(q.built), q)
         /\ \A id \in AllIds : Sorted(committedIndex(q.built)[id])
<1> DEFINE ix == committedIndex(q.built)
<1>1. q.built \in [AllIds -> Seq(Listings)]
  BY DEF Refreshes
<1>2. ix = [id \in AllIds |-> startOrder(q.built[id])]
  BY DEF committedIndex
<1> HIDE DEF ix
<1>3. ASSUME NEW id \in AllIds
      PROVE  /\ ix[id] \in Seq(Listings) /\ Sorted(ix[id])
             /\ \A k \in DOMAIN ix[id] : \E i \in DOMAIN q.built[id] : ix[id][k] = q.built[id][i]
             /\ \A i \in DOMAIN q.built[id] : \E k \in DOMAIN ix[id] : ix[id][k] = q.built[id][i]
             /\ q.built[id] = <<>> => ix[id] = <<>>
  <2>1. q.built[id] \in Seq(Listings) /\ ix[id] = startOrder(q.built[id])
    BY <1>1, <1>2
  <2> QED
    BY <2>1, Ordered
<1>4. Matches(ix, q)
  BY <1>3 DEF Matches
<1>5. ix \in [AllIds -> Seq(Listings)]
  BY <1>2, <1>3
<1> QED
  BY <1>3, <1>4, <1>5 DEF ix

LEMMA SortedAiring ==
  ASSUME NEW id \in AllIds, progIndex[id] \in Seq(Listings), Sorted(progIndex[id]), NEW now \in Int
  PROVE  LET on == {p \in ToSet(progIndex[id]) : p.start <= now /\ now <= p.stop}
         IN IF on = {} THEN NowTitle(id, now) = NoGuide ELSE NowTitle(id, now) \in on
<1> DEFINE ps == progIndex[id]
           on == {p \in ToSet(ps) : p.start <= now /\ now <= p.stop}
           left == {i \in DOMAIN ps : ps[i].stop >= now}
           first == ps[Min(left)]
<1>1. DOMAIN ps \subseteq Nat /\ \A i \in DOMAIN ps : ps[i].start \in Int /\ ps[i].stop \in Int
  BY ListingTimes
<1>2. NowTitle(id, now) = IF left # {} /\ first.start <= now THEN first ELSE NoGuide
  BY DEF NowTitle
<1>3. \A x : x \in on <=> \E i \in DOMAIN ps : x = ps[i] /\ ps[i].start <= now /\ now <= ps[i].stop
  BY DEF ToSet
<1>4. \A i \in DOMAIN ps : ps[i].start <= now /\ now <= ps[i].stop => i \in left
  BY <1>1
<1>5. left # {} => Min(left) \in left /\ \A y \in left : Min(left) <= y
  BY <1>1, LeastPlace
<1>6. \A i, k \in DOMAIN ps : i < k => ps[i].start <= ps[k].start
  BY DEF Sorted
<1>7. \A i \in left : i \in DOMAIN ps /\ now <= ps[i].stop /\ i \in Nat
  BY <1>1
<1> HIDE DEF left, on, ps
<1>8. CASE left = {}
  <2>1. on = {}
    BY <1>3, <1>4, <1>8
  <2> QED
    BY <1>2, <1>8, <2>1 DEF on, ps
<1>9. CASE left # {}
  <2>1. Min(left) \in DOMAIN ps /\ now <= first.stop /\ first.start \in Int /\ \A i \in left : first.start <= ps[i].start
    BY <1>1, <1>5, <1>6, <1>7, <1>9
  <2>2. first.start <= now => first \in on
    BY <1>3, <2>1
  <2>3. ~(first.start <= now) => on = {}
    BY <1>1, <1>3, <1>4, <2>1
  <2> QED
    BY <1>2, <1>9, <2>2, <2>3 DEF on, ps
<1> QED
  BY <1>8, <1>9

-----------------------------------------------------------------------------
(* The invariant. *)

Blank(r) == r.progs = {} /\ r.built = NoProgrammes /\ r.got = {}
JobOk(r) ==
  /\ r \in Refreshes
  /\ r.pc = "idle" => [r EXCEPT !.answer = ""] = NoRefresh
  /\ r.pc \in {"begin", "prepare"} => Blank(r)
  /\ r.pc \in Merging => Holds(r)

TablesTyped ==
  /\ epgTable \in [urls : EPGLists, sds : SDLists]
  /\ epgConf \in [urls : Seq(GuideUrls \cup {BlankRow}), sds : SUBSET GuideSDs]
  /\ epgReload \in [at : 0..Len(epgTable.urls), sds : SUBSET epgTable.sds]
  /\ channelEPG \in [GuideChannels -> RawIds \cup {Unmapped}]
  /\ guideBounds \in [ops : Nat, begun : Nat, faults : Nat]
JobsOk == job = [j \in Refreshers |-> job[j]] /\ \A j \in Refreshers : JobOk(job[j])
FileOk ==
  guideFile # NoGuide =>
    /\ guideFile \in Files /\ Whole(guideFile, guideFile.raw)
    /\ guideFile.channels = expandMappedChannels(guideFile.raw, guideFile.rev)
IndexOk == /\ chanIndex \subseteq RawIds /\ mixed \in BOOLEAN
           /\ progIndex \in [AllIds -> Seq(Listings)] /\ \A id \in AllIds : Sorted(progIndex[id])

\* Publications that do not overlap: one at a time, and the indexes are of it or of the file.
PublishedInv ==
  ~mixed =>
    /\ \A j, k \in Refreshers : Publishing(j) /\ Publishing(k) => j = k
    /\ \A j \in Refreshers : Publishing(j) => /\ chanIndex = job[j].channels
                                              /\ job[j].pc = "write" => Matches(progIndex, job[j])
    /\ guideFile # NoGuide /\ (\A j \in Refreshers : ~Publishing(j)) =>
         chanIndex = guideFile.raw /\ Matches(progIndex, guideFile)

At(pcs) == {j \in Refreshers : job[j].pc \in pcs}
TempsCounted ==
  /\ temps \in [store : Nat, spill : Nat] /\ tempsLeft \in [store : Nat, spill : Nat]
  /\ tempsLeft.spill <= tempsLeft.store
  /\ temps.store = tempsLeft.store + Cardinality(At(WithStore))
  /\ temps.spill = tempsLeft.spill + Cardinality(At(Merging))

GuideIInv == TablesTyped /\ JobsOk /\ FileOk /\ IndexOk /\ PublishedInv /\ TempsCounted

LEMMA BlankRefresh ==
  /\ NoRefresh \in Refreshes /\ NoRefresh.pc = "idle" /\ NoRefresh.answer = "" /\ Blank(NoRefresh)
<1>1. NoCopies \in [AllIds -> SUBSET AllIds] /\ NoProgrammes \in [AllIds -> Seq(Listings)]
  BY DEF NoCopies, NoProgrammes
<1> QED
  BY <1>1 DEF NoRefresh, Refreshes, GuidePCs, Blank

LEMMA Rests ==
  ASSUME NEW a \in {"", "guide", "none"}
  PROVE  JobOk([NoRefresh EXCEPT !.answer = a]) /\ [NoRefresh EXCEPT !.answer = a].pc = "idle"
<1>1. NoRefresh \in Refreshes /\ NoRefresh.pc = "idle" /\ NoRefresh.answer = ""
  BY BlankRefresh
<1>2. ASSUME NEW q, q = NoRefresh, q \in Refreshes, q.pc = "idle", q.answer = "",
             NEW r, r = [q EXCEPT !.answer = a]
      PROVE  r \in Refreshes /\ r.pc = "idle" /\ [r EXCEPT !.answer = ""] = q
  BY <1>2 DEF Refreshes
<1> QED
  BY <1>1, <1>2 DEF JobOk, Merging

LEMMA BeginsAt ==
  ASSUME NEW n \in Nat
  PROVE  JobOk([NoRefresh EXCEPT !.pc = "begin", !.no = n]) /\ [NoRefresh EXCEPT !.pc = "begin", !.no = n].pc = "begin"
<1>1. NoRefresh \in Refreshes /\ Blank(NoRefresh)
  BY BlankRefresh
<1>2. ASSUME NEW q, q \in Refreshes, Blank(q), NEW r, r = [q EXCEPT !.pc = "begin", !.no = n]
      PROVE  r \in Refreshes /\ r.pc = "begin" /\ Blank(r)
  BY <1>2 DEF Refreshes, Blank, GuidePCs
<1> QED
  BY <1>1, <1>2 DEF JobOk, Merging

LEMMA RefreshersAre ==
  /\ IsFiniteSet(Refreshers) /\ "boot" \in Refreshers /\ "background" \in Refreshers /\ EPGClients \subseteq Refreshers
<1>1. IsFiniteSet(EPGClients)
  BY GuideAssumption
<1>2. IsFiniteSet({"boot", "background"})
  <2>1. {"boot", "background"} = {"boot"} \cup {"background"} /\ {"boot"} = {} \cup {"boot"}
    OBVIOUS
  <2>2. IsFiniteSet({"boot"})
    BY <2>1, FS_EmptySet, FS_AddElement
  <2> QED
    BY <2>1, <2>2, FS_AddElement
<1>3. Refreshers = {"boot", "background"} \cup EPGClients
  BY DEF Refreshers
<1> QED
  BY <1>1, <1>2, <1>3, FS_Union

LEMMA JobChanges ==
  ASSUME JobsOk, NEW j \in Refreshers, NEW r, JobOk(r), job' = [job EXCEPT ![j] = r]
  PROVE  JobsOk' /\ job'[j] = r /\ \A k \in Refreshers \ {j} : job'[k] = job[k]
<1>1. DOMAIN job = Refreshers
  BY DEF JobsOk
<1>2. job' = [k \in Refreshers |-> IF k = j THEN r ELSE job[k]]
  BY <1>1
<1>3. \A k \in Refreshers : JobOk(job'[k])
  BY <1>2 DEF JobsOk
<1>4. \A k \in Refreshers : JobOk(job[k])'
  BY <1>3 DEF JobOk, Blank, Refreshes, Holds, Whole, Matches, CopiesOf, LookedUp, Exported
<1> QED
  BY <1>2, <1>4 DEF JobsOk

LEMMA JobsStay ==
  ASSUME JobsOk, job' = job
  PROVE  JobsOk'
<1>1. \A k \in Refreshers : JobOk(job'[k])
  BY DEF JobsOk
<1>2. \A k \in Refreshers : JobOk(job[k])'
  BY <1>1 DEF JobOk, Blank, Refreshes, Holds, Whole, Matches, CopiesOf, LookedUp, Exported
<1> QED
  BY <1>2 DEF JobsOk

One(pc, pcs) == IF pc \in pcs THEN 1 ELSE 0

LEMMA Counted ==
  ASSUME NEW j \in Refreshers, \A k \in Refreshers \ {j} : job'[k] = job[k], NEW pcs
  PROVE  /\ Cardinality(At(pcs)) \in Nat /\ Cardinality(At(pcs))' \in Nat
         /\ Cardinality(At(pcs))' = Cardinality(At(pcs)) + One(job'[j].pc, pcs) - One(job[j].pc, pcs)
<1> DEFINE T == {k \in Refreshers \ {j} : job[k].pc \in pcs}
           U == At(pcs)'
<1>1. IsFiniteSet(T) /\ j \notin T
  BY RefreshersAre, FS_Subset
<1>2. At(pcs) = IF job[j].pc \in pcs THEN T \cup {j} ELSE T
  BY DEF At
<1>3. U = IF job'[j].pc \in pcs THEN T \cup {j} ELSE T
  BY DEF At
<1> HIDE DEF T, U
<1>4. Cardinality(T) \in Nat /\ Cardinality(T \cup {j}) = Cardinality(T) + 1
  BY <1>1, FS_AddElement, FS_CardinalityType
<1>5. Cardinality(At(pcs)) = Cardinality(T) + One(job[j].pc, pcs)
  BY <1>2, <1>4 DEF One
<1>6. Cardinality(U) = Cardinality(T) + One(job'[j].pc, pcs)
  BY <1>3, <1>4 DEF One
<1>7. One(job[j].pc, pcs) \in {0, 1} /\ One(job'[j].pc, pcs) \in {0, 1}
  BY DEF One
<1>8. \A t, a, b, u, v : t \in Nat /\ a \in {0, 1} /\ b \in {0, 1} /\ u = t + a /\ v = t + b =>
        u \in Nat /\ v \in Nat /\ v = u + b - a
  OBVIOUS
<1>9. Cardinality(At(pcs))' = Cardinality(U)
  BY DEF U
<1> QED
  BY <1>4, <1>5, <1>6, <1>7, <1>8, <1>9

\* The temporary files of a refresh that takes a step.
LEMMA TempsFollow ==
  ASSUME TempsCounted, NEW j \in Refreshers, \A k \in Refreshers \ {j} : job'[k] = job[k], UNCHANGED tempsLeft,
         temps' = [store |-> temps.store + One(job'[j].pc, WithStore) - One(job[j].pc, WithStore),
                   spill |-> temps.spill + One(job'[j].pc, Merging) - One(job[j].pc, Merging)]
  PROVE  TempsCounted'
<1> DEFINE ws == Cardinality(At(WithStore))
           ms == Cardinality(At(Merging))
           wsn == Cardinality(At(WithStore))'
           msn == Cardinality(At(Merging))'
<1>1. /\ ws \in Nat /\ wsn \in Nat /\ wsn = ws + One(job'[j].pc, WithStore) - One(job[j].pc, WithStore)
      /\ ms \in Nat /\ msn \in Nat /\ msn = ms + One(job'[j].pc, Merging) - One(job[j].pc, Merging)
  BY Counted
<1>2. /\ \A pc, pcs : One(pc, pcs) \in Int
      /\ tempsLeft.store \in Nat /\ tempsLeft.spill \in Nat
      /\ temps.store = tempsLeft.store + ws /\ temps.spill = tempsLeft.spill + ms
  BY DEF One, TempsCounted
<1> HIDE DEF ws, ms, wsn, msn
<1>3. \A l, w, wn, t, a, b : l \in Nat /\ wn \in Nat /\ w \in Nat /\ a \in Int /\ b \in Int /\ wn = w + a - b /\ t = l + w =>
        t + a - b = l + wn /\ t + a - b \in Nat
  OBVIOUS
<1>4. /\ temps.store + One(job'[j].pc, WithStore) - One(job[j].pc, WithStore) = tempsLeft.store + wsn
      /\ temps.store + One(job'[j].pc, WithStore) - One(job[j].pc, WithStore) \in Nat
      /\ temps.spill + One(job'[j].pc, Merging) - One(job[j].pc, Merging) = tempsLeft.spill + msn
      /\ temps.spill + One(job'[j].pc, Merging) - One(job[j].pc, Merging) \in Nat
  BY <1>1, <1>2, <1>3
<1>5. temps' = [store |-> tempsLeft.store + wsn, spill |-> tempsLeft.spill + msn] /\ temps' \in [store : Nat, spill : Nat]
  BY <1>4
<1> QED
  BY <1>5 DEF TempsCounted, wsn, msn

LEMMA NoTempsMove ==
  ASSUME TempsCounted, NEW j \in Refreshers, \A k \in Refreshers \ {j} : job'[k] = job[k], UNCHANGED <<temps, tempsLeft>>,
         One(job'[j].pc, WithStore) = One(job[j].pc, WithStore), One(job'[j].pc, Merging) = One(job[j].pc, Merging)
  PROVE  TempsCounted'
<1>1. temps = [store |-> temps.store, spill |-> temps.spill] /\ temps.store \in Nat /\ temps.spill \in Nat
  BY DEF TempsCounted
<1>2. \A t \in Nat : \A pc, pcs : t + One(pc, pcs) - One(pc, pcs) = t
  BY DEF One
<1> QED
  BY <1>1, <1>2, TempsFollow

\* A step of a refresh that publishes neither before nor after.
LEMMA QuietJobStep ==
  ASSUME GuideIInv, NEW j \in Refreshers, NEW r, JobOk(r), job' = [job EXCEPT ![j] = r],
         job[j].pc \notin {"commit", "write"}, r.pc \notin {"commit", "write"}, UNCHANGED published
  PROVE  /\ JobsOk' /\ FileOk' /\ IndexOk' /\ PublishedInv'
         /\ job'[j] = r /\ \A k \in Refreshers \ {j} : job'[k] = job[k]
<1>1. JobsOk' /\ job'[j] = r /\ \A k \in Refreshers \ {j} : job'[k] = job[k]
  BY JobChanges DEF GuideIInv
<1>2. guideFile' = guideFile /\ chanIndex' = chanIndex /\ progIndex' = progIndex /\ mixed' = mixed
  BY DEF published
<1>3. FileOk' /\ IndexOk'
  BY <1>2 DEF GuideIInv, FileOk, IndexOk, Files, Whole, CopiesOf, expandMappedChannels, Sorted
<1>4. \A k \in Refreshers : /\ Publishing(k)' <=> Publishing(k)
                            /\ Publishing(k) => job'[k] = job[k]
  BY <1>1 DEF Publishing
<1>5. PublishedInv'
  BY <1>2, <1>4 DEF GuideIInv, PublishedInv, Matches, LookedUp, Exported
<1> QED
  BY <1>1, <1>3, <1>5

-----------------------------------------------------------------------------
(* The steps of a refresh. *)

LEMMA TablesStay ==
  ASSUME TablesTyped, UNCHANGED tables, guideBounds' \in [ops : Nat, begun : Nat, faults : Nat]
  PROVE  TablesTyped'
BY DEF TablesTyped, tables

LEMMA BoundsAre ==
  ASSUME TablesTyped
  PROVE  /\ guideBounds.begun \in Nat /\ guideBounds.begun + 1 \in Nat
         /\ [guideBounds EXCEPT !.begun = @ + 1] \in [ops : Nat, begun : Nat, faults : Nat]
         /\ [guideBounds EXCEPT !.faults = @ + 1] \in [ops : Nat, begun : Nat, faults : Nat]
         /\ [guideBounds EXCEPT !.faults = @ + 1, !.begun = @ + 1] \in [ops : Nat, begun : Nat, faults : Nat]
         /\ [guideBounds EXCEPT !.ops = @ + 1] \in [ops : Nat, begun : Nat, faults : Nat]
         /\ guideBounds \in [ops : Nat, begun : Nat, faults : Nat]
<1>1. guideBounds.begun \in Nat /\ guideBounds.ops \in Nat /\ guideBounds.faults \in Nat
      /\ guideBounds \in [ops : Nat, begun : Nat, faults : Nat]
  BY DEF TablesTyped
<1>2. /\ [guideBounds EXCEPT !.begun = @ + 1] \in [ops : Nat, begun : Nat, faults : Nat]
      /\ [guideBounds EXCEPT !.faults = @ + 1] \in [ops : Nat, begun : Nat, faults : Nat]
  BY <1>1
<1>3. [guideBounds EXCEPT !.ops = @ + 1] \in [ops : Nat, begun : Nat, faults : Nat]
  BY <1>1
<1>4. ASSUME NEW r, r = [guideBounds EXCEPT !.faults = @ + 1, !.begun = @ + 1]
      PROVE  r = [ops |-> guideBounds.ops, begun |-> guideBounds.begun + 1, faults |-> guideBounds.faults + 1]
  BY <1>1, <1>4
<1>5. guideBounds.begun + 1 \in Nat /\ guideBounds.faults + 1 \in Nat
  BY <1>1
<1> QED
  BY <1>1, <1>2, <1>3, <1>4, <1>5

\* A refresh that starts, or a client that is served from the file.
LEMMA Starts ==
  ASSUME GuideIInv, NEW j \in Refreshers, ~Running(j), NEW r, JobOk(r), r.pc \in {"idle", "begin"},
         job' = [job EXCEPT ![j] = r], guideBounds' = [guideBounds EXCEPT !.begun = @ + 1],
         UNCHANGED <<tables, published, temps, tempsLeft>>
  PROVE  GuideIInv'
<1>1. job[j].pc = "idle"
  BY DEF Running
<1>2. /\ JobsOk' /\ FileOk' /\ IndexOk' /\ PublishedInv'
      /\ job'[j] = r /\ \A k \in Refreshers \ {j} : job'[k] = job[k]
  BY <1>1, QuietJobStep
<1>3. TablesTyped'
  BY TablesStay, BoundsAre DEF GuideIInv
<1>4. One(job'[j].pc, WithStore) = One(job[j].pc, WithStore) /\ One(job'[j].pc, Merging) = One(job[j].pc, Merging)
  BY <1>1, <1>2 DEF One, WithStore, Merging
<1>5. TempsCounted'
  BY <1>2, <1>4, NoTempsMove DEF GuideIInv
<1> QED
  BY <1>2, <1>3, <1>5 DEF GuideIInv

LEMMA WarmUpKeeps ==
  ASSUME GuideIInv, WarmUpEPG
  PROVE  GuideIInv'
<1>1. guideBounds.begun + 1 \in Nat
  BY BoundsAre DEF GuideIInv
<1> DEFINE r == [NoRefresh EXCEPT !.pc = "begin", !.no = guideBounds.begun + 1]
<1>2. JobOk(r) /\ r.pc = "begin"
  BY <1>1, BeginsAt
<1>3. /\ ~Running("background") /\ job' = [job EXCEPT !["background"] = r]
      /\ guideBounds' = [guideBounds EXCEPT !.begun = @ + 1] /\ UNCHANGED <<tables, published, temps, tempsLeft>>
  BY DEF WarmUpEPG
<1> HIDE DEF r
<1> QED
  BY <1>2, <1>3, RefreshersAre, Starts

LEMMA ServeKeeps ==
  ASSUME GuideIInv, NEW c \in EPGClients, ServeEPG(c)
  PROVE  GuideIInv'
<1>1. guideBounds.begun + 1 \in Nat
  BY BoundsAre DEF GuideIInv
<1> DEFINE r == IF Fresh(guideFile) THEN [NoRefresh EXCEPT !.answer = "guide"]
                ELSE [NoRefresh EXCEPT !.pc = "begin", !.no = guideBounds.begun + 1]
<1>2. JobOk(r) /\ r.pc \in {"idle", "begin"}
  BY <1>1, BeginsAt, Rests
<1>3. /\ ~Running(c) /\ job' = [job EXCEPT ![c] = r]
      /\ guideBounds' = [guideBounds EXCEPT !.begun = @ + 1] /\ UNCHANGED <<tables, published, temps, tempsLeft>>
  BY DEF ServeEPG
<1> HIDE DEF r
<1> QED
  BY <1>2, <1>3, RefreshersAre, Starts

\* A step in the middle of a refresh, with what it does to the temporary files.
LEMMA MidStep ==
  ASSUME GuideIInv, NEW j \in Refreshers, NEW r, JobOk(r), job' = [job EXCEPT ![j] = r],
         job[j].pc \notin {"commit", "write"}, r.pc \notin {"commit", "write"},
         guideBounds' \in [ops : Nat, begun : Nat, faults : Nat], UNCHANGED <<tables, published, tempsLeft>>,
         temps' = [store |-> temps.store + One(r.pc, WithStore) - One(job[j].pc, WithStore),
                   spill |-> temps.spill + One(r.pc, Merging) - One(job[j].pc, Merging)]
  PROVE  GuideIInv'
<1>1. /\ JobsOk' /\ FileOk' /\ IndexOk' /\ PublishedInv'
      /\ job'[j] = r /\ \A k \in Refreshers \ {j} : job'[k] = job[k]
  BY QuietJobStep
<1>2. TablesTyped'
  BY TablesStay DEF GuideIInv
<1>3. TempsCounted'
  BY <1>1, TempsFollow DEF GuideIInv
<1> QED
  BY <1>1, <1>2, <1>3 DEF GuideIInv

\* What is given up is over, and answered.
LEMMA GivenUp ==
  ASSUME NEW j, NEW committed, NEW file
  PROVE  JobOk(Finished(j, committed, file)) /\ Finished(j, committed, file).pc = "idle"
<1> DEFINE a == IF j \notin EPGClients THEN "" ELSE IF committed /\ Fresh(file) THEN "guide" ELSE "none"
<1>1. a \in {"", "guide", "none"}
  OBVIOUS
<1>2. Finished(j, committed, file) = [NoRefresh EXCEPT !.answer = a]
  BY DEF Finished
<1> HIDE DEF a
<1> QED
  BY <1>1, <1>2, Rests

\* temps, whatever it is, taken apart.
LEMMA TempsApart ==
  ASSUME TempsCounted
  PROVE  /\ temps.store \in Nat /\ temps.spill \in Nat /\ temps = [store |-> temps.store, spill |-> temps.spill]
         /\ [temps EXCEPT !.store = @ + 1] = [store |-> temps.store + 1, spill |-> temps.spill]
         /\ [temps EXCEPT !.store = @ - 1] = [store |-> temps.store - 1, spill |-> temps.spill]
         /\ [temps EXCEPT !.spill = @ + 1] = [store |-> temps.store, spill |-> temps.spill + 1]
         /\ [temps EXCEPT !.store = @ - 1, !.spill = @ - 1] = [store |-> temps.store - 1, spill |-> temps.spill - 1]
<1>1. temps \in [store : Nat, spill : Nat]
  BY DEF TempsCounted
<1>2. temps.store \in Nat /\ temps.spill \in Nat /\ temps = [store |-> temps.store, spill |-> temps.spill]
  BY <1>1
<1>3. [temps EXCEPT !.store = @ + 1] = [store |-> temps.store + 1, spill |-> temps.spill]
  BY <1>1
<1>4. [temps EXCEPT !.store = @ - 1] = [store |-> temps.store - 1, spill |-> temps.spill]
  BY <1>1
<1>5. [temps EXCEPT !.spill = @ + 1] = [store |-> temps.store, spill |-> temps.spill + 1]
  BY <1>1
<1>6. ASSUME NEW r, r = [temps EXCEPT !.store = @ - 1, !.spill = @ - 1]
      PROVE  r = [store |-> temps.store - 1, spill |-> temps.spill - 1]
  BY <1>1, <1>6
<1> QED
  BY <1>2, <1>3, <1>4, <1>5, <1>6

LEMMA GetSourcesKeeps ==
  ASSUME GuideIInv, NEW j \in Refreshers, GetEPGSources(j)
  PROVE  GuideIInv'
<1>1. /\ job[j].pc = "begin" /\ UNCHANGED <<tables, published, tempsLeft, guideBounds>>
      /\ guideBounds' \in [ops : Nat, begun : Nat, faults : Nat]
  BY BoundsAre DEF GetEPGSources, GuideIInv
<1>2. /\ temps.store \in Nat /\ temps.spill \in Nat /\ temps = [store |-> temps.store, spill |-> temps.spill]
      /\ [temps EXCEPT !.store = @ + 1] = [store |-> temps.store + 1, spill |-> temps.spill]
  BY TempsApart DEF GuideIInv
<1>3. CASE epgConf.urls = <<>> /\ epgConf.sds = {}
  <2> DEFINE r == Finished(j, FALSE, guideFile)
  <2>1. JobOk(r) /\ r.pc = "idle"
    BY GivenUp
  <2>2. job' = [job EXCEPT ![j] = r] /\ temps' = temps
    BY <1>3 DEF GetEPGSources, GivesUp
  <2> HIDE DEF r
  <2>3. temps' = [store |-> temps.store + One(r.pc, WithStore) - One(job[j].pc, WithStore),
                  spill |-> temps.spill + One(r.pc, Merging) - One(job[j].pc, Merging)]
    BY <1>1, <1>2, <2>1, <2>2 DEF One, WithStore, Merging
  <2> QED
    BY <1>1, <2>1, <2>2, <2>3, MidStep
<1>4. CASE ~(epgConf.urls = <<>> /\ epgConf.sds = {})
  <2> DEFINE r == [job[j] EXCEPT !.pc = "prepare", !.todo = ToSet(epgConf.urls)]
  <2>1. JobOk(r) /\ r.pc = "prepare"
    <3>1. ToSet(epgConf.urls) \in SUBSET Asked
      BY DEF GuideIInv, TablesTyped, ToSet, Asked
    <3>2. ASSUME NEW q, q \in Refreshes, Blank(q), NEW u, u \in SUBSET Asked,
                 NEW s, s = [q EXCEPT !.pc = "prepare", !.todo = u]
          PROVE  s \in Refreshes /\ s.pc = "prepare" /\ Blank(s)
      BY <3>2 DEF Refreshes, GuidePCs, Blank
    <3>3. job[j] \in Refreshes /\ Blank(job[j])
      BY <1>1 DEF GuideIInv, JobsOk, JobOk
    <3> QED
      BY <3>1, <3>2, <3>3 DEF JobOk, Merging
  <2>2. job' = [job EXCEPT ![j] = r] /\ temps' = [temps EXCEPT !.store = @ + 1]
    <3>1. DOMAIN job = Refreshers
      BY DEF GuideIInv, JobsOk
    <3> QED
      BY <1>4, <3>1 DEF GetEPGSources
  <2> HIDE DEF r
  <2>3. temps' = [store |-> temps.store + One(r.pc, WithStore) - One(job[j].pc, WithStore),
                  spill |-> temps.spill + One(r.pc, Merging) - One(job[j].pc, Merging)]
    BY <1>1, <1>2, <2>1, <2>2 DEF One, WithStore, Merging
  <2> QED
    BY <1>1, <2>1, <2>2, <2>3, MidStep
<1> QED
  BY <1>3, <1>4

LEMMA DummyIs ==
  DummyEntry \in Fragments /\ DummyEntry.kind = "programme" /\ DummyEntry.id = DummyChannelID /\ DummyChannelID \in RawIds
BY DEF DummyEntry, Fragment, Fragments, RawIds

\* A merge begins with the dummy entry, under the ids the mapping gives it.
LEMMA PreparedHolds ==
  ASSUME NEW q \in Refreshes, Blank(q), NEW rev \in [AllIds -> SUBSET AllIds], NEW sds \in SUBSET GuideSDs,
         NEW r, r = [progSink([q EXCEPT !.rev = rev], DummyEntry)
                       EXCEPT !.pc = "fetch", !.todo = @ \cup sds, !.channels = {DummyChannelID}]
  PROVE  JobOk(r) /\ r.pc = "fetch"
<1>1. ASSUME NEW p, p = [q EXCEPT !.rev = rev]
      PROVE  /\ p \in Refreshes /\ p.progs = {} /\ p.built = NoProgrammes /\ p.got = {} /\ p.rev = rev
             /\ Matches(p.built, p)
  <2>1. p \in Refreshes /\ p.progs = {} /\ p.built = NoProgrammes /\ p.got = {} /\ p.rev = rev
    BY <1>1 DEF Refreshes, Blank
  <2>2. \A id \in AllIds : p.built[id] = <<>>
    BY <2>1 DEF NoProgrammes
  <2> QED
    BY <2>1, <2>2 DEF Matches
<1>2. ASSUME NEW p, p = [q EXCEPT !.rev = rev], NEW s, s = progSink(p, DummyEntry)
      PROVE  /\ s \in Refreshes /\ s.got = {} /\ s.rev = rev /\ s.progs = CopiesOf(s, DummyEntry)
             /\ Matches(s.built, s)
  <2>0. p \in Refreshes /\ Matches(p.built, p) /\ p.got = {} /\ p.progs = {} /\ p.rev = rev
    BY <1>1, <1>2
  <2>1. /\ s \in Refreshes /\ Same(p, s) /\ s.got = p.got /\ s.progs = p.progs \cup CopiesOf(p, DummyEntry)
        /\ Matches(s.built, s)
    <3>1. /\ progSink(p, DummyEntry) \in Refreshes /\ Same(p, progSink(p, DummyEntry))
          /\ progSink(p, DummyEntry).got = p.got
          /\ progSink(p, DummyEntry).progs = p.progs \cup CopiesOf(p, DummyEntry)
      BY <2>0, SinkFields, DummyIs
    <3>2. Matches(progSink(p, DummyEntry).built, progSink(p, DummyEntry))
      BY <2>0, SinkMatches, DummyIs
    <3> QED
      BY <1>2, <3>1, <3>2
  <2> QED
    BY <2>0, <2>1 DEF Same, CopiesOf
<1>3. ASSUME NEW s \in Refreshes, s.got = {}, s.progs = CopiesOf(s, DummyEntry), Matches(s.built, s),
             NEW t, t = [s EXCEPT !.pc = "fetch", !.todo = @ \cup sds, !.channels = {DummyChannelID}]
      PROVE  JobOk(t) /\ t.pc = "fetch"
  <2>0. s.todo \cup sds \in SUBSET Asked /\ {DummyChannelID} \in SUBSET RawIds
    BY <1>3, DummyIs DEF Refreshes, Asked
  <2>1. /\ t \in Refreshes /\ t.pc = "fetch" /\ t.channels = {DummyChannelID} /\ t.got = s.got
        /\ t.progs = s.progs /\ t.built = s.built /\ t.rev = s.rev
    BY <1>3, <2>0 DEF Refreshes, GuidePCs
  <2>2. CopiesOf(t, DummyEntry) = CopiesOf(s, DummyEntry)
    BY <2>1 DEF CopiesOf
  <2>3. Whole(t, t.channels)
    BY <1>3, <2>1, <2>2, DummyIs DEF Whole
  <2>4. Matches(t.built, t)
    BY <1>3, <2>1 DEF Matches, LookedUp, Exported
  <2> QED
    BY <2>1, <2>3, <2>4 DEF JobOk, Holds
<1> QED
  BY <1>2, <1>3

LEMMA CopiesAre ==
  /\ \A mapping \in [GuideChannels -> RawIds \cup {Unmapped}] : loadExportIDMap(mapping) \in [AllIds -> SUBSET AllIds]
  /\ NoCopies \in [AllIds -> SUBSET AllIds]
BY DEF loadExportIDMap, NoCopies, AllIds

LEMMA PrepareKeeps ==
  ASSUME GuideIInv, NEW j \in Refreshers, PrepareMerge(j)
  PROVE  GuideIInv'
<1>1. job[j].pc = "prepare" /\ UNCHANGED <<tables, published, tempsLeft>> /\ DOMAIN job = Refreshers
  BY DEF PrepareMerge, GuideIInv, JobsOk
<1>2. /\ temps.store \in Nat /\ temps.spill \in Nat
      /\ [temps EXCEPT !.store = @ - 1] = [store |-> temps.store - 1, spill |-> temps.spill]
      /\ [temps EXCEPT !.spill = @ + 1] = [store |-> temps.store, spill |-> temps.spill + 1]
  BY TempsApart DEF GuideIInv
<1>3. ASSUME NEW rev \in [AllIds -> SUBSET AllIds], Prepared(j, rev), temps' = [temps EXCEPT !.spill = @ + 1],
             guideBounds' \in [ops : Nat, begun : Nat, faults : Nat]
      PROVE  GuideIInv'
  <2> DEFINE r == opened(job[j], rev)
  <2>1. job' = [job EXCEPT ![j] = r]
    BY <1>1, <1>3 DEF Prepared
  <2>2. job[j] \in Refreshes /\ Blank(job[j])
    BY <1>1 DEF GuideIInv, JobsOk, JobOk
  <2>3. epgConf.sds \in SUBSET GuideSDs
    BY DEF GuideIInv, TablesTyped
  <2>4. JobOk(r) /\ r.pc = "fetch"
    <3>1. ASSUME NEW t, t = opened(job[j], rev) PROVE JobOk(t) /\ t.pc = "fetch"
      <4>1. t = [progSink([job[j] EXCEPT !.rev = rev], DummyEntry)
                   EXCEPT !.pc = "fetch", !.todo = @ \cup epgConf.sds, !.channels = {DummyChannelID}]
        BY <3>1 DEF opened
      <4> QED
        BY <2>2, <2>3, <4>1, PreparedHolds
    <3> QED
      BY <3>1
  <2> HIDE DEF r
  <2>5. temps' = [store |-> temps.store + One(r.pc, WithStore) - One(job[j].pc, WithStore),
                  spill |-> temps.spill + One(r.pc, Merging) - One(job[j].pc, Merging)]
    BY <1>1, <1>2, <1>3, <2>4 DEF One, WithStore, Merging
  <2> QED
    BY <1>1, <1>3, <2>1, <2>4, <2>5, MidStep
<1>4. CASE /\ MayFault /\ Fault /\ GivesUp(j)
           /\ temps' = [temps EXCEPT !.store = @ - 1]
  <2> DEFINE r == Finished(j, FALSE, guideFile)
  <2>1. JobOk(r) /\ r.pc = "idle"
    BY GivenUp
  <2>2. job' = [job EXCEPT ![j] = r]
    BY <1>4 DEF GivesUp
  <2> HIDE DEF r
  <2>3. temps' = [store |-> temps.store + One(r.pc, WithStore) - One(job[j].pc, WithStore),
                  spill |-> temps.spill + One(r.pc, Merging) - One(job[j].pc, Merging)]
    BY <1>1, <1>2, <1>4, <2>1 DEF One, WithStore, Merging
  <2>4. guideBounds' \in [ops : Nat, begun : Nat, faults : Nat]
    BY <1>4, BoundsAre DEF GuideIInv, Fault
  <2> QED
    BY <1>1, <2>1, <2>2, <2>3, <2>4, MidStep
<1>5. CASE Prepared(j, loadExportIDMap(channelEPG)) /\ UNCHANGED guideBounds /\ temps' = [temps EXCEPT !.spill = @ + 1]
  <2>1. loadExportIDMap(channelEPG) \in [AllIds -> SUBSET AllIds]
    BY CopiesAre DEF GuideIInv, TablesTyped
  <2>2. guideBounds' \in [ops : Nat, begun : Nat, faults : Nat]
    BY <1>5 DEF GuideIInv, TablesTyped
  <2> QED
    BY <1>3, <1>5, <2>1, <2>2
<1>6. CASE MayFault /\ Fault /\ Prepared(j, NoCopies) /\ temps' = [temps EXCEPT !.spill = @ + 1]
  <2>1. guideBounds' \in [ops : Nat, begun : Nat, faults : Nat]
    BY <1>6, BoundsAre DEF GuideIInv, Fault
  <2> QED
    BY <1>3, <1>6, <2>1, CopiesAre
<1> QED
  BY <1>4, <1>5, <1>6 DEF PrepareMerge

LEMMA DeliveriesAre ==
  ASSUME NEW s, NEW frags \in Deliveries(s)
  PROVE  frags \in Seq(Fragments)
<1>1. Feeds \in [GuideUrls \cup GuideSDs -> Seq(Fragments)]
  BY GuideAssumption
<1>2. ASSUME NEW fs \in Seq(Fragments), NEW n \in 0..Len(fs) PROVE beginning(fs, n) \in Seq(Fragments)
  <2>1. n \in Nat /\ beginning(fs, n) \in [1..n -> Fragments]
    BY DEF beginning
  <2> QED
    BY <2>1, SeqDef
<1>3. ASSUME NEW fs \in Seq(Fragments) PROVE {0, Len(fs)} \cup channelsFirst(fs) \subseteq 0..Len(fs)
  BY DEF channelsFirst
<1>4. <<>> \in Seq(Fragments)
  OBVIOUS
<1>5. CASE s \in GuideUrls
  <2>1. PICK n \in 0..Len(Feeds[s]) : frags = beginning(Feeds[s], n)
    BY <1>5 DEF Deliveries
  <2> QED
    BY <1>1, <1>2, <1>5, <2>1
<1>6. CASE s \notin GuideUrls /\ s \in GuideSDs
  <2>1. PICK n \in {0, Len(Feeds[s])} \cup channelsFirst(Feeds[s]) : frags = beginning(Feeds[s], n)
    BY <1>6 DEF Deliveries
  <2>2. Feeds[s] \in Seq(Fragments)
    BY <1>1, <1>6
  <2>3. n \in 0..Len(Feeds[s])
    BY <1>3, <2>1, <2>2
  <2> QED
    BY <1>2, <2>1, <2>2, <2>3
<1>7. CASE s \notin GuideUrls /\ s \notin GuideSDs
  BY <1>4, <1>7 DEF Deliveries
<1> QED
  BY <1>5, <1>6, <1>7

\* A refresh that goes on merging: the files stay.
LEMMA MergesOn ==
  ASSUME GuideIInv, NEW j \in Refreshers, NEW r, JobOk(r), r.pc = "fetch", job[j].pc = "fetch", job' = [job EXCEPT ![j] = r],
         guideBounds' \in [ops : Nat, begun : Nat, faults : Nat], UNCHANGED <<tables, published, temps, tempsLeft>>
  PROVE  GuideIInv'
<1>1. temps.store \in Nat /\ temps.spill \in Nat /\ temps = [store |-> temps.store, spill |-> temps.spill]
  BY TempsApart DEF GuideIInv
<1>2. temps' = [store |-> temps.store + One(r.pc, WithStore) - One(job[j].pc, WithStore),
                spill |-> temps.spill + One(r.pc, Merging) - One(job[j].pc, Merging)]
  BY <1>1 DEF One, WithStore, Merging
<1> QED
  BY <1>2, MidStep

LEMMA FetchingIs ==
  ASSUME GuideIInv, NEW j \in Refreshers, job[j].pc \in Merging
  PROVE  job[j] \in Refreshes /\ Holds(job[j]) /\ DOMAIN job = Refreshers
BY DEF GuideIInv, JobsOk, JobOk

LEMMA SourceMergedKeeps ==
  ASSUME GuideIInv, NEW j \in Refreshers, NEW s \in job[j].todo, SourceMerged(j, s)
  PROVE  GuideIInv'
<1>1. PICK frags \in Deliveries(s) : job' = [job EXCEPT ![j] = without(merge(@, frags), s)]
  BY DEF SourceMerged
<1>2. job[j].pc = "fetch" /\ UNCHANGED <<tables, published, temps, tempsLeft>> /\ guideBounds' \in [ops : Nat, begun : Nat, faults : Nat]
  BY BoundsAre DEF SourceMerged, GuideIInv
<1>3. job[j] \in Refreshes /\ Holds(job[j]) /\ DOMAIN job = Refreshers
  BY <1>2, FetchingIs DEF Merging
<1> DEFINE r == without(merge(job[j], frags), s)
<1>4. job' = [job EXCEPT ![j] = r]
  BY <1>1, <1>3
<1>5. JobOk(r) /\ r.pc = "fetch"
  <2>1. ASSUME NEW m, m = merge(job[j], frags) PROVE m \in Refreshes /\ Holds(m) /\ m.pc = "fetch"
    BY <1>2, <1>3, <2>1, DeliveriesAre, MergeKeeps DEF Same
  <2>2. ASSUME NEW m, m \in Refreshes, Holds(m), m.pc = "fetch", NEW t, t = without(m, s)
        PROVE  JobOk(t) /\ t.pc = "fetch"
    <3>1. /\ t \in Refreshes /\ t.pc = "fetch" /\ t.channels = m.channels /\ t.got = m.got
          /\ t.progs = m.progs /\ t.built = m.built /\ t.rev = m.rev
      BY <2>2 DEF Refreshes, without
    <3>2. Holds(t)
      BY <2>2, <3>1 DEF Holds, Whole, CopiesOf, Matches, LookedUp, Exported
    <3> QED
      BY <3>1, <3>2 DEF JobOk
  <2> QED
    BY <2>1, <2>2
<1> HIDE DEF r
<1> QED
  BY <1>2, <1>4, <1>5, MergesOn

LEMMA SpillBreaksKeeps ==
  ASSUME GuideIInv, NEW j \in Refreshers, SpillBreaks(j)
  PROVE  GuideIInv'
<1>1. job[j].pc = "fetch" /\ UNCHANGED <<tables, published, temps, tempsLeft>> /\ guideBounds' \in [ops : Nat, begun : Nat, faults : Nat]
  BY BoundsAre DEF SpillBreaks, Fault, GuideIInv
<1>2. job[j] \in Refreshes /\ Holds(job[j]) /\ DOMAIN job = Refreshers
  BY <1>1, FetchingIs DEF Merging
<1> DEFINE r == [job[j] EXCEPT !.broken = TRUE]
<1>3. job' = [job EXCEPT ![j] = r]
  BY <1>2 DEF SpillBreaks
<1>4. JobOk(r) /\ r.pc = "fetch"
  <2>1. ASSUME NEW m, m \in Refreshes, Holds(m), m.pc = "fetch", NEW t, t = [m EXCEPT !.broken = TRUE]
        PROVE  JobOk(t) /\ t.pc = "fetch"
    <3>1. /\ t \in Refreshes /\ t.pc = "fetch" /\ t.channels = m.channels /\ t.got = m.got
          /\ t.progs = m.progs /\ t.built = m.built /\ t.rev = m.rev
      BY <2>1 DEF Refreshes
    <3>2. Holds(t)
      BY <2>1, <3>1 DEF Holds, Whole, CopiesOf, Matches, LookedUp, Exported
    <3> QED
      BY <3>1, <3>2 DEF JobOk
  <2> QED
    BY <1>1, <1>2, <2>1
<1> HIDE DEF r
<1> QED
  BY <1>1, <1>3, <1>4, MergesOn

LEMMA SpillFailedKeeps ==
  ASSUME GuideIInv, NEW j \in Refreshers, SpillFailed(j)
  PROVE  GuideIInv'
<1>1. /\ job[j].pc = "fetch" /\ UNCHANGED <<tables, published, tempsLeft>> /\ guideBounds' \in [ops : Nat, begun : Nat, faults : Nat]
      /\ temps' = [temps EXCEPT !.store = @ - 1, !.spill = @ - 1]
  BY BoundsAre DEF SpillFailed, discardTemps, GuideIInv
<1>2. /\ temps.store \in Nat /\ temps.spill \in Nat
      /\ temps' = [store |-> temps.store - 1, spill |-> temps.spill - 1]
  BY <1>1, TempsApart DEF GuideIInv
<1> DEFINE r == Finished(j, FALSE, guideFile)
<1>3. JobOk(r) /\ r.pc = "idle"
  BY GivenUp
<1>4. job' = [job EXCEPT ![j] = r]
  BY DEF SpillFailed, GivesUp
<1> HIDE DEF r
<1>5. temps' = [store |-> temps.store + One(r.pc, WithStore) - One(job[j].pc, WithStore),
                spill |-> temps.spill + One(r.pc, Merging) - One(job[j].pc, Merging)]
  <2>1. /\ One(r.pc, WithStore) = 0 /\ One(job[j].pc, WithStore) = 1
        /\ One(r.pc, Merging) = 0 /\ One(job[j].pc, Merging) = 1
    BY <1>1, <1>3 DEF One, WithStore, Merging
  <2> QED
    BY <1>2, <2>1
<1> QED
  BY <1>1, <1>3, <1>4, <1>5, MidStep

-----------------------------------------------------------------------------
(* Publishing. *)

\* What a change of an index leaves alone.
LEMMA FileStays ==
  ASSUME FileOk, guideFile' = guideFile
  PROVE  FileOk'
BY DEF FileOk, Files, Whole, CopiesOf, expandMappedChannels

LEMMA HeldOn ==
  ASSUME NEW q \in Refreshes, Holds(q), NEW to \in Merging, NEW r, r = [q EXCEPT !.pc = to]
  PROVE  JobOk(r) /\ r.pc = to /\ r.channels = q.channels /\ r.progs = q.progs /\ r.rev = q.rev /\ r.built = q.built
<1>1. /\ r \in Refreshes /\ r.pc = to /\ r.channels = q.channels /\ r.got = q.got
      /\ r.progs = q.progs /\ r.built = q.built /\ r.rev = q.rev
  BY DEF Refreshes, Merging, GuidePCs
<1>2. Holds(r)
  BY <1>1 DEF Holds, Whole, CopiesOf, Matches, LookedUp, Exported
<1> QED
  BY <1>1, <1>2 DEF JobOk, Merging

LEMMA RebuildKeeps ==
  ASSUME GuideIInv, NEW j \in Refreshers, RebuildFromSlices(j)
  PROVE  GuideIInv'
<1>1. /\ job[j].pc = "fetch" /\ chanIndex' = job[j].channels /\ mixed' = (\E k \in Refreshers \ {j} : Publishing(k))
      /\ job' = [job EXCEPT ![j].pc = "commit"]
      /\ UNCHANGED <<tables, guideFile, progIndex, temps, tempsLeft, guideBounds>>
  BY DEF RebuildFromSlices
<1>2. job[j] \in Refreshes /\ Holds(job[j]) /\ DOMAIN job = Refreshers
  BY <1>1, FetchingIs DEF Merging
<1> DEFINE r == [job[j] EXCEPT !.pc = "commit"]
<1>3. JobOk(r) /\ r.pc = "commit" /\ r.channels = job[j].channels
  BY <1>2, HeldOn DEF Merging
<1>4. job' = [job EXCEPT ![j] = r]
  BY <1>1, <1>2
<1> HIDE DEF r
<1>5. JobsOk' /\ job'[j] = r /\ \A k \in Refreshers \ {j} : job'[k] = job[k]
  BY <1>3, <1>4, JobChanges DEF GuideIInv
<1>6. TablesTyped'
  BY <1>1, TablesStay, BoundsAre DEF GuideIInv
<1>7. FileOk'
  BY <1>1, FileStays DEF GuideIInv
<1>8. IndexOk'
  <2>1. chanIndex' \subseteq RawIds
    BY <1>1, <1>2 DEF Refreshes
  <2>2. mixed' \in BOOLEAN
    BY <1>1
  <2> QED
    BY <1>1, <2>1, <2>2 DEF GuideIInv, IndexOk, Sorted
<1>9. PublishedInv'
  <2>1. SUFFICES ASSUME ~mixed' PROVE PublishedInv'
    BY DEF PublishedInv
  <2>2. \A k \in Refreshers \ {j} : job[k].pc \notin {"commit", "write"}
    BY <1>1, <2>1 DEF Publishing
  <2>3. \A k \in Refreshers : Publishing(k)' => k = j
    BY <1>5, <2>2 DEF Publishing
  <2>4. Publishing(j)' /\ job'[j].pc # "write" /\ chanIndex' = job'[j].channels
    BY <1>1, <1>3, <1>5 DEF Publishing
  <2> QED
    BY <2>3, <2>4 DEF PublishedInv
<1>10. TempsCounted'
  <2>1. One(job'[j].pc, WithStore) = One(job[j].pc, WithStore) /\ One(job'[j].pc, Merging) = One(job[j].pc, Merging)
    BY <1>1, <1>3, <1>5 DEF One, WithStore, Merging
  <2> QED
    BY <1>1, <1>5, <2>1, NoTempsMove DEF GuideIInv
<1> QED
  BY <1>5, <1>6, <1>7, <1>8, <1>9, <1>10 DEF GuideIInv

LEMMA CommitKeeps ==
  ASSUME GuideIInv, NEW j \in Refreshers, Commit(j)
  PROVE  GuideIInv'
<1>1. /\ job[j].pc = "commit" /\ progIndex' = committedIndex(job[j].built) /\ job' = [job EXCEPT ![j].pc = "write"]
      /\ UNCHANGED <<tables, guideFile, chanIndex, mixed, temps, tempsLeft, guideBounds>>
  BY DEF Commit
<1>2. job[j] \in Refreshes /\ Holds(job[j]) /\ DOMAIN job = Refreshers
  BY <1>1, FetchingIs DEF Merging
<1> DEFINE r == [job[j] EXCEPT !.pc = "write"]
<1>3. JobOk(r) /\ r.pc = "write" /\ r.channels = job[j].channels /\ r.progs = job[j].progs /\ r.rev = job[j].rev
  BY <1>2, HeldOn DEF Merging
<1>4. job' = [job EXCEPT ![j] = r]
  BY <1>1, <1>2
<1> HIDE DEF r
<1>5. JobsOk' /\ job'[j] = r /\ \A k \in Refreshers \ {j} : job'[k] = job[k]
  BY <1>3, <1>4, JobChanges DEF GuideIInv
<1>6. TablesTyped'
  BY <1>1, TablesStay, BoundsAre DEF GuideIInv
<1>7. FileOk'
  BY <1>1, FileStays DEF GuideIInv
<1>8. /\ progIndex' \in [AllIds -> Seq(Listings)] /\ Matches(progIndex', job[j])
      /\ \A id \in AllIds : Sorted(progIndex'[id])
  BY <1>1, <1>2, CommittedIndex DEF Holds
<1>9. IndexOk'
  BY <1>1, <1>8 DEF GuideIInv, IndexOk, Sorted
<1>10. Matches(progIndex', r)
  BY <1>3, <1>8 DEF Matches, LookedUp, Exported
<1>11. PublishedInv'
  <2>1. SUFFICES ASSUME ~mixed PROVE PublishedInv'
    BY <1>1 DEF PublishedInv
  <2>2. /\ \A k \in Refreshers : Publishing(k) => k = j
        /\ chanIndex = job[j].channels
    BY <1>1, <2>1 DEF GuideIInv, PublishedInv, Publishing
  <2>3. \A k \in Refreshers : Publishing(k)' => k = j
    BY <1>5, <2>2 DEF Publishing
  <2>4. Publishing(j)' /\ chanIndex' = job'[j].channels
    BY <1>1, <1>3, <1>5, <2>2 DEF Publishing
  <2>5. Matches(progIndex, job[j])'
    BY <1>5, <1>10 DEF Matches, LookedUp, Exported
  <2> QED
    BY <2>3, <2>4, <2>5 DEF PublishedInv
<1>12. TempsCounted'
  <2>1. One(job'[j].pc, WithStore) = One(job[j].pc, WithStore) /\ One(job'[j].pc, Merging) = One(job[j].pc, Merging)
    BY <1>1, <1>3, <1>5 DEF One, WithStore, Merging
  <2> QED
    BY <1>1, <1>5, <2>1, NoTempsMove DEF GuideIInv
<1> QED
  BY <1>5, <1>6, <1>7, <1>9, <1>11, <1>12 DEF GuideIInv

\* A refresh that is over after it has published something: its files go.
LEMMA PublisherEnds ==
  ASSUME GuideIInv, NEW j \in Refreshers, job[j].pc = "write", NEW committed, NEW file,
         job' = [job EXCEPT ![j] = Finished(j, committed, file)], discardTemps,
         guideBounds' \in [ops : Nat, begun : Nat, faults : Nat], UNCHANGED <<tables, chanIndex, progIndex, tempsLeft>>,
         mixed' \in BOOLEAN
  PROVE  /\ TablesTyped' /\ JobsOk' /\ IndexOk' /\ TempsCounted'
         /\ job'[j].pc = "idle" /\ \A k \in Refreshers \ {j} : job'[k] = job[k]
<1> DEFINE r == Finished(j, committed, file)
<1>1. JobOk(r) /\ r.pc = "idle"
  BY GivenUp
<1> HIDE DEF r
<1>2. job' = [job EXCEPT ![j] = r]
  BY DEF r
<1>3. JobsOk' /\ job'[j] = r /\ \A k \in Refreshers \ {j} : job'[k] = job[k]
  BY <1>1, <1>2, JobChanges DEF GuideIInv
<1>4. TablesTyped'
  BY TablesStay DEF GuideIInv
<1>5. IndexOk'
  BY DEF GuideIInv, IndexOk, Sorted
<1>6. temps' = [store |-> temps.store - 1, spill |-> temps.spill - 1] /\ temps.store \in Nat /\ temps.spill \in Nat
  BY TempsApart DEF GuideIInv, discardTemps
<1>7. /\ One(job'[j].pc, WithStore) = 0 /\ One(job[j].pc, WithStore) = 1
      /\ One(job'[j].pc, Merging) = 0 /\ One(job[j].pc, Merging) = 1
  BY <1>1, <1>3 DEF One, WithStore, Merging
<1>8. temps' = [store |-> temps.store + One(job'[j].pc, WithStore) - One(job[j].pc, WithStore),
                spill |-> temps.spill + One(job'[j].pc, Merging) - One(job[j].pc, Merging)]
  BY <1>6, <1>7
<1>9. TempsCounted'
  BY <1>3, <1>8, TempsFollow DEF GuideIInv
<1> QED
  BY <1>1, <1>3, <1>4, <1>5, <1>9

LEMMA WriteFailsKeeps ==
  ASSUME GuideIInv, NEW j \in Refreshers, WriteGuideFails(j)
  PROVE  GuideIInv'
<1>1. /\ job[j].pc = "write" /\ job' = [job EXCEPT ![j] = Finished(j, FALSE, guideFile)] /\ discardTemps
      /\ mixed' = TRUE /\ UNCHANGED <<tables, guideFile, chanIndex, progIndex, tempsLeft>>
      /\ guideBounds' \in [ops : Nat, begun : Nat, faults : Nat]
  BY BoundsAre DEF WriteGuideFails, GivesUp, Fault, GuideIInv
<1>2. TablesTyped' /\ JobsOk' /\ IndexOk' /\ TempsCounted'
  BY <1>1, PublisherEnds
<1>3. FileOk'
  BY <1>1, FileStays DEF GuideIInv
<1>4. PublishedInv'
  BY <1>1 DEF PublishedInv
<1> QED
  BY <1>2, <1>3, <1>4 DEF GuideIInv

LEMMA RenameKeeps ==
  ASSUME GuideIInv, NEW j \in Refreshers, RenameGuide(j)
  PROVE  GuideIInv'
<1> DEFINE q == job[j]
           doc == [channels |-> expandMappedChannels(q.channels, q.rev), progs |-> q.progs,
                   raw |-> q.channels, got |-> q.got, rev |-> q.rev, no |-> q.no, old |-> FALSE]
<1>1. /\ q.pc = "write" /\ guideFile' = doc /\ job' = [job EXCEPT ![j] = Finished(j, TRUE, doc)] /\ discardTemps
      /\ UNCHANGED <<tables, chanIndex, progIndex, mixed, tempsLeft, guideBounds>>
  BY DEF RenameGuide
<1>2. q \in Refreshes /\ Holds(q)
  BY <1>1, FetchingIs DEF Merging
<1>3. expandMappedChannels(q.channels, q.rev) \in SUBSET AllIds
  <2>1. q.channels \subseteq AllIds /\ q.rev \in [AllIds -> SUBSET AllIds]
    BY <1>2 DEF Refreshes, AllIds
  <2>2. \A id \in q.channels : q.rev[id] \subseteq AllIds
    BY <2>1
  <2> QED
    BY <2>1, <2>2 DEF expandMappedChannels
<1>4. /\ doc \in Files /\ doc.raw = q.channels /\ doc.got = q.got /\ doc.rev = q.rev /\ doc.progs = q.progs
      /\ doc.channels = expandMappedChannels(q.channels, q.rev)
  BY <1>2, <1>3 DEF Refreshes, Files
<1> HIDE DEF doc
<1>5. Whole(doc, doc.raw)
  BY <1>2, <1>4 DEF Holds, Whole, CopiesOf
<1>6. FileOk'
  BY <1>1, <1>4, <1>5 DEF FileOk, Whole, CopiesOf, expandMappedChannels, Files
<1>7. /\ TablesTyped' /\ JobsOk' /\ IndexOk' /\ TempsCounted'
      /\ job'[j].pc = "idle" /\ \A k \in Refreshers \ {j} : job'[k] = job[k]
  <2>1. mixed' \in BOOLEAN /\ guideBounds' \in [ops : Nat, begun : Nat, faults : Nat]
    BY <1>1, BoundsAre DEF GuideIInv, IndexOk
  <2> QED
    BY <1>1, <2>1, PublisherEnds
<1>8. PublishedInv'
  <2>1. SUFFICES ASSUME ~mixed PROVE PublishedInv'
    BY <1>1 DEF PublishedInv
  <2>2. /\ \A k \in Refreshers : Publishing(k) => k = j
        /\ chanIndex = q.channels /\ Matches(progIndex, q)
    BY <1>1, <2>1 DEF GuideIInv, PublishedInv, Publishing
  <2>3. \A k \in Refreshers : ~Publishing(k)'
    BY <1>7, <2>2 DEF Publishing
  <2>4. chanIndex' = guideFile'.raw
    BY <1>1, <1>4, <2>2
  <2>5. Matches(progIndex, guideFile)'
    BY <1>1, <1>4, <2>2 DEF Matches, LookedUp, Exported
  <2> QED
    BY <2>3, <2>4, <2>5 DEF PublishedInv
<1> QED
  BY <1>6, <1>7, <1>8 DEF GuideIInv

LEMMA ExpiresKeeps ==
  ASSUME GuideIInv, GuideExpires
  PROVE  GuideIInv'
<1>1. /\ guideFile # NoGuide /\ guideFile' = [guideFile EXCEPT !.old = TRUE]
      /\ UNCHANGED <<tables, chanIndex, progIndex, mixed, job, temps, tempsLeft, guideBounds>>
  BY DEF GuideExpires, Fresh
<1>2. guideFile \in Files
  BY <1>1 DEF GuideIInv, FileOk
<1>3. /\ guideFile' \in Files /\ guideFile'.raw = guideFile.raw /\ guideFile'.got = guideFile.got
      /\ guideFile'.rev = guideFile.rev /\ guideFile'.progs = guideFile.progs /\ guideFile'.channels = guideFile.channels
  BY <1>1, <1>2 DEF Files
<1>4. FileOk'
  BY <1>1, <1>3 DEF GuideIInv, FileOk, Files, Whole, CopiesOf, expandMappedChannels
<1>5. TablesTyped'
  BY <1>1, TablesStay, BoundsAre DEF GuideIInv
<1>6. JobsOk' /\ IndexOk' /\ TempsCounted'
  <2>1. JobsOk'
    BY <1>1, JobsStay DEF GuideIInv
  <2>2. IndexOk' /\ TempsCounted'
    BY <1>1 DEF GuideIInv, IndexOk, Sorted, TempsCounted, At
  <2> QED
    BY <2>1, <2>2
<1>7. PublishedInv'
  BY <1>1, <1>3 DEF GuideIInv, PublishedInv, Publishing, Matches, LookedUp, Exported
<1> QED
  BY <1>4, <1>5, <1>6, <1>7 DEF GuideIInv

-----------------------------------------------------------------------------
(* The operator, restarts, and the theorem. *)

\* What only changes the tables leaves the rest of the invariant alone.
LEMMA TablesChange ==
  ASSUME GuideIInv, TablesTyped', UNCHANGED <<published, job, temps, tempsLeft>>
  PROVE  GuideIInv'
<1>1. guideFile' = guideFile /\ chanIndex' = chanIndex /\ progIndex' = progIndex /\ mixed' = mixed /\ job' = job
  BY DEF published
<1>2. JobsOk' /\ FileOk'
  BY <1>1, JobsStay, FileStays DEF GuideIInv
<1>3. IndexOk' /\ TempsCounted'
  BY <1>1 DEF GuideIInv, IndexOk, Sorted, TempsCounted, At
<1>4. PublishedInv'
  BY <1>1 DEF GuideIInv, PublishedInv, Publishing, Matches, LookedUp, Exported
<1> QED
  BY <1>2, <1>3, <1>4 DEF GuideIInv

LEMMA ListsAre ==
  ASSUME NEW urls \in EPGLists
  PROVE  urls \in Seq(GuideUrls) /\ Len(urls) \in Nat /\ (urls # <<>> => 1 \in 0..Len(urls))
<1>1. urls \in Seq(GuideUrls)
  BY GuideAssumption
<1> QED
  BY <1>1

LEMMA MapsKeep ==
  ASSUME GuideIInv, NEW c \in GuideChannels, NEW id \in RawIds \cup {Unmapped}, SetChannelEPG(c, id)
  PROVE  GuideIInv'
<1>1. /\ channelEPG' = [channelEPG EXCEPT ![c] = id] /\ UNCHANGED <<epgTable, epgConf, epgReload>>
      /\ UNCHANGED <<published, job, temps, tempsLeft>> /\ guideBounds' \in [ops : Nat, begun : Nat, faults : Nat]
  BY BoundsAre DEF SetChannelEPG, GuideOp, GuideIInv
<1>2. channelEPG' \in [GuideChannels -> RawIds \cup {Unmapped}]
  <2>1. channelEPG \in [GuideChannels -> RawIds \cup {Unmapped}]
    BY DEF GuideIInv, TablesTyped
  <2> QED
    BY <1>1, <2>1
<1>3. TablesTyped'
  BY <1>1, <1>2 DEF GuideIInv, TablesTyped
<1> QED
  BY <1>1, <1>3, TablesChange

LEMMA TablesApart ==
  ASSUME TablesTyped
  PROVE  /\ epgTable.urls \in EPGLists /\ epgTable.sds \in SDLists
         /\ epgTable = [urls |-> epgTable.urls, sds |-> epgTable.sds]
         /\ epgConf.urls \in Seq(GuideUrls \cup {BlankRow}) /\ epgConf.sds \in SUBSET GuideSDs
         /\ epgConf = [urls |-> epgConf.urls, sds |-> epgConf.sds]
         /\ epgReload.at \in 0..Len(epgTable.urls) /\ epgReload.sds \in SUBSET epgTable.sds
         /\ epgReload = [at |-> epgReload.at, sds |-> epgReload.sds]
         /\ channelEPG \in [GuideChannels -> RawIds \cup {Unmapped}]
BY DEF TablesTyped

LEMMA StoreEPGsKeeps ==
  ASSUME GuideIInv, NEW urls \in EPGLists, StoreEPGs(urls)
  PROVE  GuideIInv'
<1>1. /\ epgTable' = [epgTable EXCEPT !.urls = urls] /\ epgConf' = [epgConf EXCEPT !.urls = [i \in DOMAIN urls |-> BlankRow]]
      /\ epgReload' = [epgReload EXCEPT !.at = IF urls = <<>> THEN 0 ELSE 1]
      /\ UNCHANGED <<channelEPG, published, job, temps, tempsLeft>> /\ guideBounds' \in [ops : Nat, begun : Nat, faults : Nat]
  BY BoundsAre DEF StoreEPGs, GuideOp, GuideIInv
<1> DEFINE blanks == [i \in DOMAIN urls |-> BlankRow]
           at == IF urls = <<>> THEN 0 ELSE 1
<1>2. blanks \in Seq(GuideUrls \cup {BlankRow})
  <2>1. DOMAIN urls = 1..Len(urls) /\ Len(urls) \in Nat
    BY ListsAre
  <2>2. blanks \in [1..Len(urls) -> GuideUrls \cup {BlankRow}]
    BY <2>1
  <2> QED
    BY <2>1, <2>2, SeqDef
<1>3. at \in 0..Len(urls)
  BY ListsAre
<1> HIDE DEF blanks, at
<1>4. /\ epgTable.sds \in SDLists /\ epgConf.sds \in SUBSET GuideSDs /\ epgReload.sds \in SUBSET epgTable.sds
      /\ epgTable = [urls |-> epgTable.urls, sds |-> epgTable.sds]
      /\ epgConf = [urls |-> epgConf.urls, sds |-> epgConf.sds]
      /\ epgReload = [at |-> epgReload.at, sds |-> epgReload.sds]
      /\ channelEPG' \in [GuideChannels -> RawIds \cup {Unmapped}]
  BY <1>1, TablesApart DEF GuideIInv
<1>5. /\ epgTable' = [urls |-> urls, sds |-> epgTable.sds] /\ epgConf' = [urls |-> blanks, sds |-> epgConf.sds]
      /\ epgReload' = [at |-> at, sds |-> epgReload.sds]
  BY <1>1, <1>4 DEF blanks, at
<1>6. TablesTyped'
  BY <1>1, <1>2, <1>3, <1>4, <1>5 DEF TablesTyped
<1> QED
  BY <1>1, <1>6, TablesChange

LEMMA FillEPGKeeps ==
  ASSUME GuideIInv, FillEPG
  PROVE  GuideIInv'
<1> DEFINE row == [epgConf.urls EXCEPT ![epgReload.at] = epgTable.urls[epgReload.at]]
           at == IF epgReload.at = Len(epgTable.urls) THEN 0 ELSE epgReload.at + 1
<1>1. /\ epgReload.at > 0 /\ epgConf' = [epgConf EXCEPT !.urls[epgReload.at] = epgTable.urls[epgReload.at]]
      /\ epgReload' = [epgReload EXCEPT !.at = IF @ = Len(epgTable.urls) THEN 0 ELSE @ + 1]
      /\ UNCHANGED <<epgTable, channelEPG, published, job, temps, tempsLeft>> /\ guideBounds' \in [ops : Nat, begun : Nat, faults : Nat]
  BY BoundsAre DEF FillEPG, GuideIInv
<1>2. /\ epgTable.urls \in EPGLists /\ epgTable.sds \in SDLists /\ epgConf.sds \in SUBSET GuideSDs
      /\ epgConf.urls \in Seq(GuideUrls \cup {BlankRow}) /\ epgReload.sds \in SUBSET epgTable.sds
      /\ epgConf = [urls |-> epgConf.urls, sds |-> epgConf.sds]
      /\ epgReload.at \in 0..Len(epgTable.urls) /\ epgReload = [at |-> epgReload.at, sds |-> epgReload.sds]
      /\ epgTable = [urls |-> epgTable.urls, sds |-> epgTable.sds]
      /\ channelEPG' \in [GuideChannels -> RawIds \cup {Unmapped}]
  BY <1>1, TablesApart DEF GuideIInv
<1>3. epgTable.urls \in Seq(GuideUrls) /\ Len(epgTable.urls) \in Nat
  BY <1>2, ListsAre
<1>4. row \in Seq(GuideUrls \cup {BlankRow}) /\ at \in 0..Len(epgTable.urls)
  <2>1. epgTable.urls[epgReload.at] \in GuideUrls \cup {BlankRow}
    BY <1>1, <1>2, <1>3
  <2>2. at \in 0..Len(epgTable.urls)
    BY <1>1, <1>2, <1>3
  <2>3. ASSUME NEW S, NEW s \in Seq(S), NEW i, NEW x \in S PROVE [s EXCEPT ![i] = x] \in Seq(S)
    <3>1. \A k \in DOMAIN s : s[k] \in S
      BY MemberOf
    <3>2. [s EXCEPT ![i] = x] = [k \in DOMAIN s |-> IF k = i THEN x ELSE s[k]]
      OBVIOUS
    <3>3. [k \in DOMAIN s |-> IF k = i THEN x ELSE s[k]] \in [DOMAIN s -> S]
      BY <3>1
    <3> QED
      BY <3>2, <3>3, RewrittenList
  <2> QED
    BY <1>2, <2>1, <2>2, <2>3
<1>5. epgConf' = [urls |-> row, sds |-> epgConf.sds] /\ epgReload' = [at |-> at, sds |-> epgReload.sds]
  BY <1>1, <1>2
<1> HIDE DEF row, at
<1>6. TablesTyped'
  <2>1. epgConf' \in [urls : Seq(GuideUrls \cup {BlankRow}), sds : SUBSET GuideSDs]
    BY <1>2, <1>4, <1>5
  <2>2. epgReload' \in [at : 0..Len(epgTable.urls), sds : SUBSET epgTable.sds]
    BY <1>2, <1>4, <1>5
  <2>3. epgTable \in [urls : EPGLists, sds : SDLists]
    BY <1>2
  <2> QED
    BY <1>1, <1>2, <2>1, <2>2, <2>3 DEF TablesTyped
<1> QED
  BY <1>1, <1>6, TablesChange

LEMMA StoreSDKeeps ==
  ASSUME GuideIInv, NEW sds \in SDLists, StoreSDAccounts(sds)
  PROVE  GuideIInv'
<1>1. /\ epgTable' = [epgTable EXCEPT !.sds = sds] /\ epgConf' = [epgConf EXCEPT !.sds = {}]
      /\ epgReload' = [epgReload EXCEPT !.sds = sds]
      /\ UNCHANGED <<channelEPG, published, job, temps, tempsLeft>> /\ guideBounds' \in [ops : Nat, begun : Nat, faults : Nat]
  BY BoundsAre DEF StoreSDAccounts, GuideOp, GuideIInv
<1>2. /\ epgTable.urls \in EPGLists /\ epgConf.urls \in Seq(GuideUrls \cup {BlankRow})
      /\ epgConf = [urls |-> epgConf.urls, sds |-> epgConf.sds]
      /\ epgReload.at \in 0..Len(epgTable.urls) /\ epgReload = [at |-> epgReload.at, sds |-> epgReload.sds]
      /\ epgTable = [urls |-> epgTable.urls, sds |-> epgTable.sds]
      /\ channelEPG' \in [GuideChannels -> RawIds \cup {Unmapped}]
  BY <1>1, TablesApart DEF GuideIInv
<1>3. /\ epgTable' = [urls |-> epgTable.urls, sds |-> sds] /\ epgConf' = [urls |-> epgConf.urls, sds |-> {}]
      /\ epgReload' = [at |-> epgReload.at, sds |-> sds]
  BY <1>1, <1>2
<1>4. TablesTyped'
  <2>1. epgConf' \in [urls : Seq(GuideUrls \cup {BlankRow}), sds : SUBSET GuideSDs]
    BY <1>2, <1>3
  <2>2. epgReload' \in [at : 0..Len(epgTable'.urls), sds : SUBSET epgTable'.sds]
    BY <1>2, <1>3
  <2>3. epgTable' \in [urls : EPGLists, sds : SDLists]
    BY <1>2, <1>3
  <2> QED
    BY <1>1, <1>2, <2>1, <2>2, <2>3 DEF TablesTyped
<1> QED
  BY <1>1, <1>4, TablesChange

LEMMA FillSDKeeps ==
  ASSUME GuideIInv, NEW s \in epgReload.sds, FillSDAccount(s)
  PROVE  GuideIInv'
<1>1. /\ epgConf' = [epgConf EXCEPT !.sds = @ \cup {s}] /\ epgReload' = [epgReload EXCEPT !.sds = @ \ {s}]
      /\ UNCHANGED <<epgTable, channelEPG, published, job, temps, tempsLeft>> /\ guideBounds' \in [ops : Nat, begun : Nat, faults : Nat]
  BY BoundsAre DEF FillSDAccount, GuideIInv
<1>2. /\ epgTable.urls \in EPGLists /\ epgTable.sds \in SDLists /\ epgConf.sds \in SUBSET GuideSDs
      /\ epgConf.urls \in Seq(GuideUrls \cup {BlankRow}) /\ epgReload.sds \in SUBSET epgTable.sds
      /\ epgConf = [urls |-> epgConf.urls, sds |-> epgConf.sds]
      /\ epgReload.at \in 0..Len(epgTable.urls) /\ epgReload = [at |-> epgReload.at, sds |-> epgReload.sds]
      /\ epgTable = [urls |-> epgTable.urls, sds |-> epgTable.sds]
      /\ channelEPG' \in [GuideChannels -> RawIds \cup {Unmapped}]
  BY <1>1, TablesApart DEF GuideIInv
<1>3. s \in GuideSDs
  BY <1>2, GuideAssumption
<1>4. epgConf' = [urls |-> epgConf.urls, sds |-> epgConf.sds \cup {s}] /\ epgReload' = [at |-> epgReload.at, sds |-> epgReload.sds \ {s}]
  BY <1>1, <1>2
<1>5. TablesTyped'
  <2>1. epgConf' \in [urls : Seq(GuideUrls \cup {BlankRow}), sds : SUBSET GuideSDs]
    BY <1>2, <1>3, <1>4
  <2>2. epgReload' \in [at : 0..Len(epgTable.urls), sds : SUBSET epgTable.sds]
    BY <1>2, <1>4
  <2>3. epgTable \in [urls : EPGLists, sds : SDLists]
    BY <1>2
  <2> QED
    BY <1>1, <1>2, <2>1, <2>2, <2>3 DEF TablesTyped
<1> QED
  BY <1>1, <1>5, TablesChange

LEMMA BlankIsOk == JobOk(NoRefresh) /\ NoRefresh.pc = "idle"
<1>1. [NoRefresh EXCEPT !.answer = ""] = NoRefresh
  <2>1. NoRefresh \in Refreshes /\ NoRefresh.answer = ""
    BY BlankRefresh
  <2>2. \A q \in Refreshes : q.answer = "" => [q EXCEPT !.answer = ""] = q
    BY DEF Refreshes
  <2> QED
    BY <2>1, <2>2
<1> QED
  BY <1>1, BlankRefresh DEF JobOk, Merging

LEMMA TempsOrdered == TempsCounted => temps.spill <= temps.store
<1> SUFFICES ASSUME TempsCounted PROVE temps.spill <= temps.store
  OBVIOUS
<1>1. /\ tempsLeft.spill <= tempsLeft.store /\ tempsLeft.spill \in Nat /\ tempsLeft.store \in Nat
      /\ temps.store = tempsLeft.store + Cardinality(At(WithStore)) /\ temps.spill = tempsLeft.spill + Cardinality(At(Merging))
  BY DEF TempsCounted
<1>2. /\ Cardinality(At(Merging)) <= Cardinality(At(WithStore))
      /\ Cardinality(At(Merging)) \in Nat /\ Cardinality(At(WithStore)) \in Nat
  <2>1. At(Merging) \subseteq At(WithStore) /\ IsFiniteSet(At(WithStore))
    BY RefreshersAre, FS_Subset DEF At, Merging, WithStore
  <2> QED
    BY <2>1, FS_Subset, FS_CardinalityType
<1> QED
  BY <1>1, <1>2

\* A process as it starts: one refresh about to begin, nothing merged.
LEMMA BootsAfresh ==
  ASSUME NEW n \in Nat,
         job' = [j \in Refreshers |-> IF j = "boot" THEN [NoRefresh EXCEPT !.pc = "begin", !.no = n] ELSE NoRefresh]
  PROVE  JobsOk' /\ At(WithStore)' = {} /\ At(Merging)' = {} /\ \A j \in Refreshers : ~Publishing(j)'
<1>1. JobOk([NoRefresh EXCEPT !.pc = "begin", !.no = n]) /\ [NoRefresh EXCEPT !.pc = "begin", !.no = n].pc = "begin"
  BY BeginsAt
<1>2. JobOk(NoRefresh) /\ NoRefresh.pc = "idle"
  BY BlankIsOk
<1>3. \A k \in Refreshers : JobOk(job'[k]) /\ job'[k].pc \in {"begin", "idle"}
  BY <1>1, <1>2
<1>4. \A k \in Refreshers : JobOk(job[k])'
  BY <1>3 DEF JobOk, Blank, Refreshes, Holds, Whole, Matches, CopiesOf, LookedUp, Exported
<1>5. job' = [j \in Refreshers |-> job'[j]]
  OBVIOUS
<1>6. At(WithStore)' = {} /\ At(Merging)' = {}
  BY <1>3 DEF At, WithStore, Merging
<1> QED
  BY <1>3, <1>4, <1>5, <1>6 DEF JobsOk, Publishing

LEMMA RestartKeeps ==
  ASSUME GuideIInv, GuideRestarts
  PROVE  GuideIInv'
<1>1. /\ epgConf' = epgTable /\ epgReload' = NoReload /\ chanIndex' = {} /\ progIndex' = NoProgrammes /\ mixed' = TRUE
      /\ tempsLeft' = temps /\ UNCHANGED <<epgTable, channelEPG, guideFile, temps>>
      /\ guideBounds' \in [ops : Nat, begun : Nat, faults : Nat] /\ guideBounds.begun + 1 \in Nat
      /\ job' = [j \in Refreshers |-> IF j = "boot" THEN [NoRefresh EXCEPT !.pc = "begin", !.no = guideBounds.begun + 1]
                                      ELSE NoRefresh]
  BY BoundsAre DEF GuideRestarts, GuideIInv
<1>2. JobsOk' /\ At(WithStore)' = {} /\ At(Merging)' = {} /\ \A j \in Refreshers : ~Publishing(j)'
  BY <1>1, BootsAfresh
<1>3. TablesTyped'
  <2>1. epgTable \in [urls : EPGLists, sds : SDLists] /\ channelEPG \in [GuideChannels -> RawIds \cup {Unmapped}]
    BY DEF GuideIInv, TablesTyped
  <2>2. epgTable.urls \in Seq(GuideUrls) /\ Len(epgTable.urls) \in Nat /\ epgTable.sds \in SUBSET GuideSDs
    BY <2>1, ListsAre, GuideAssumption
  <2>3. epgTable.urls \in Seq(GuideUrls \cup {BlankRow})
    BY <2>2
  <2>4. epgTable \in [urls : Seq(GuideUrls \cup {BlankRow}), sds : SUBSET GuideSDs]
    BY <2>1, <2>2, <2>3
  <2>5. NoReload \in [at : 0..Len(epgTable.urls), sds : SUBSET epgTable.sds]
    BY <2>2 DEF NoReload
  <2> QED
    BY <1>1, <2>1, <2>4, <2>5 DEF TablesTyped
<1>4. FileOk'
  BY <1>1, FileStays DEF GuideIInv
<1>5. IndexOk'
  BY <1>1 DEF IndexOk, NoProgrammes, Sorted
<1>6. PublishedInv'
  BY <1>1 DEF PublishedInv
<1>7. TempsCounted'
  <2>1. temps \in [store : Nat, spill : Nat]
    BY DEF GuideIInv, TempsCounted
  <2>2. temps.spill <= temps.store
    BY TempsOrdered DEF GuideIInv
  <2>3. Cardinality(At(WithStore))' = 0 /\ Cardinality(At(Merging))' = 0
    BY <1>2, FS_EmptySet
  <2> QED
    BY <1>1, <2>1, <2>2, <2>3 DEF TempsCounted
<1> QED
  BY <1>2, <1>3, <1>4, <1>5, <1>6, <1>7 DEF GuideIInv

LEMMA GuideStarts == GuideInit => GuideIInv
<1> SUFFICES ASSUME GuideInit PROVE GuideIInv
  OBVIOUS
<1>1. /\ epgTable \in [urls : EPGLists, sds : SDLists] /\ epgConf = epgTable /\ epgReload = NoReload
      /\ channelEPG \in Mappings0 /\ guideFile = NoGuide /\ chanIndex = {} /\ progIndex = NoProgrammes /\ mixed = FALSE
      /\ job = [j \in Refreshers |-> IF j = "boot" THEN [NoRefresh EXCEPT !.pc = "begin", !.no = 1] ELSE NoRefresh]
      /\ temps = [store |-> 0, spill |-> 0] /\ tempsLeft = temps /\ guideBounds = [ops |-> 0, begun |-> 1, faults |-> 0]
  BY DEF GuideInit
<1>2. /\ JobsOk /\ At(WithStore) = {} /\ At(Merging) = {} /\ \A j \in Refreshers : ~Publishing(j)
  <2>1. JobOk([NoRefresh EXCEPT !.pc = "begin", !.no = 1]) /\ [NoRefresh EXCEPT !.pc = "begin", !.no = 1].pc = "begin"
    BY BeginsAt
  <2>2. JobOk(NoRefresh) /\ NoRefresh.pc = "idle"
    BY BlankIsOk
  <2>3. \A k \in Refreshers : JobOk(job[k]) /\ job[k].pc \in {"begin", "idle"}
    BY <1>1, <2>1, <2>2
  <2>4. job = [j \in Refreshers |-> job[j]]
    BY <1>1
  <2> QED
    BY <2>3, <2>4 DEF JobsOk, At, WithStore, Merging, Publishing
<1>3. TablesTyped
  <2>1. channelEPG \in [GuideChannels -> RawIds \cup {Unmapped}]
    BY <1>1, GuideAssumption
  <2>2. epgTable.urls \in Seq(GuideUrls) /\ Len(epgTable.urls) \in Nat /\ epgTable.sds \in SUBSET GuideSDs
    BY <1>1, ListsAre, GuideAssumption
  <2>3. epgTable.urls \in Seq(GuideUrls \cup {BlankRow})
    BY <2>2
  <2>4. epgTable \in [urls : Seq(GuideUrls \cup {BlankRow}), sds : SUBSET GuideSDs]
    BY <1>1, <2>2, <2>3
  <2>5. NoReload \in [at : 0..Len(epgTable.urls), sds : SUBSET epgTable.sds]
    BY <2>2 DEF NoReload
  <2> QED
    BY <1>1, <2>1, <2>4, <2>5 DEF TablesTyped
<1>4. FileOk /\ IndexOk
  <2>1. FileOk /\ chanIndex \subseteq RawIds /\ mixed \in BOOLEAN
    BY <1>1 DEF FileOk
  <2>2. progIndex \in [AllIds -> Seq(Listings)] /\ \A id \in AllIds : progIndex[id] = <<>>
    BY <1>1 DEF NoProgrammes
  <2>3. \A id \in AllIds : Sorted(progIndex[id])
    BY <2>2 DEF Sorted
  <2> QED
    BY <2>1, <2>2, <2>3 DEF IndexOk
<1>5. PublishedInv
  BY <1>1, <1>2 DEF PublishedInv
<1>6. TempsCounted
  BY <1>1, <1>2, FS_EmptySet DEF TempsCounted
<1> QED
  BY <1>2, <1>3, <1>4, <1>5, <1>6 DEF GuideIInv

LEMMA GuideUnchanged ==
  ASSUME GuideIInv, UNCHANGED guideVars
  PROVE  GuideIInv'
<1>1. TablesTyped'
  BY DEF guideVars, GuideIInv, TablesTyped
<1> QED
  BY <1>1, TablesChange DEF guideVars, published

LEMMA GuideInductive ==
  ASSUME GuideIInv, [GuideNext]_guideVars
  PROVE  GuideIInv'
<1>1. CASE WarmUpEPG \/ GuideExpires \/ FillEPG \/ GuideRestarts
  BY <1>1, WarmUpKeeps, ExpiresKeeps, FillEPGKeeps, RestartKeeps
<1>2. CASE \/ \E c \in EPGClients : ServeEPG(c)
           \/ \E c \in GuideChannels, id \in RawIds \cup {Unmapped} : SetChannelEPG(c, id)
           \/ \E urls \in EPGLists : StoreEPGs(urls)
           \/ \E sds \in SDLists : StoreSDAccounts(sds)
           \/ \E s \in epgReload.sds : FillSDAccount(s)
  BY <1>2, ServeKeeps, MapsKeep, StoreEPGsKeeps, StoreSDKeeps, FillSDKeeps
<1>3. CASE \E j \in Refreshers : GetEPGSources(j) \/ PrepareMerge(j) \/ SpillBreaks(j) \/ SpillFailed(j)
  BY <1>3, GetSourcesKeeps, PrepareKeeps, SpillBreaksKeeps, SpillFailedKeeps
<1>4. CASE \E j \in Refreshers : \/ \E s \in job[j].todo : SourceMerged(j, s)
                                 \/ RebuildFromSlices(j) \/ Commit(j) \/ RenameGuide(j) \/ WriteGuideFails(j)
  BY <1>4, SourceMergedKeeps, RebuildKeeps, CommitKeeps, RenameKeeps, WriteFailsKeeps
<1>5. CASE UNCHANGED guideVars
  BY <1>5, GuideUnchanged
<1>6. GuideNext \/ UNCHANGED guideVars
  OBVIOUS
<1> QED
  BY <1>1, <1>2, <1>3, <1>4, <1>5, <1>6 DEF GuideNext

LEMMA GuideFollows == GuideIInv => GuideInv
<1> SUFFICES ASSUME GuideIInv PROVE GuideInv
  OBVIOUS
<1>1. GuideTypeOK
  <2>1. /\ epgTable \in [urls : EPGLists, sds : SDLists] /\ epgConf.urls \in Seq(GuideUrls \cup {BlankRow})
        /\ epgReload.at \in 0..Len(epgTable.urls) /\ epgReload.sds \subseteq epgTable.sds
        /\ channelEPG \in [GuideChannels -> RawIds \cup {Unmapped}]
    BY DEF GuideIInv, TablesTyped
  <2>2. epgConf.sds \cup epgReload.sds \subseteq GuideSDs
    BY GuideAssumption DEF GuideIInv, TablesTyped
  <2>3. chanIndex \subseteq RawIds /\ DOMAIN progIndex = AllIds /\ mixed \in BOOLEAN
    BY DEF GuideIInv, IndexOk
  <2>4. ASSUME NEW j \in Refreshers
        PROVE  /\ job[j].pc \in {"idle", "begin", "prepare", "fetch", "commit", "write"}
               /\ job[j].todo \subseteq GuideUrls \cup GuideSDs \cup {BlankRow} /\ job[j].channels \subseteq RawIds
               /\ job[j].answer \in {"", "guide", "none"}
               /\ job[j].pc = "idle" => [job[j] EXCEPT !.answer = ""] = NoRefresh
    <3>1. JobOk(job[j])
      BY DEF GuideIInv, JobsOk
    <3>2. job[j] \in Refreshes /\ (job[j].pc = "idle" => [job[j] EXCEPT !.answer = ""] = NoRefresh)
      BY <3>1 DEF JobOk
    <3> QED
      BY <3>2 DEF Refreshes, GuidePCs, Asked
  <2>5. guideFile # NoGuide => DummyChannelID \in guideFile.raw
    BY DEF GuideIInv, FileOk, Whole
  <2>6. temps.spill <= temps.store
    BY TempsOrdered DEF GuideIInv
  <2> QED
    BY <2>1, <2>2, <2>3, <2>4, <2>5, <2>6 DEF GuideTypeOK
<1>2. GuideIsWhole
  <2>1. SUFFICES ASSUME guideFile # NoGuide
                 PROVE  /\ \A f \in guideFile.got \cup {DummyEntry} :
                             IF f.kind = "channel" THEN f.id \in guideFile.raw
                             ELSE \A x \in guideFile.rev[f.id] \cup {f.id} : Renamed(f, x) \in guideFile.progs
                        /\ \A id \in guideFile.raw : guideFile.rev[id] \cup {id} \subseteq guideFile.channels
    BY DEF GuideIsWhole
  <2>2. Whole(guideFile, guideFile.raw) /\ guideFile.channels = expandMappedChannels(guideFile.raw, guideFile.rev)
    BY <2>1 DEF GuideIInv, FileOk
  <2>3. \A f \in guideFile.got \cup {DummyEntry} :
          IF f.kind = "channel" THEN f.id \in guideFile.raw
          ELSE \A x \in guideFile.rev[f.id] \cup {f.id} : Renamed(f, x) \in guideFile.progs
    BY <2>2 DEF Whole, CopiesOf
  <2>4. \A id \in guideFile.raw : guideFile.rev[id] \cup {id} \subseteq guideFile.channels
    BY <2>2 DEF expandMappedChannels
  <2> QED
    BY <2>3, <2>4
<1>3. QuietIndexIsFile
  <2>1. SUFFICES ASSUME Quiet
                 PROVE  /\ chanIndex = guideFile.raw
                        /\ \A id \in AllIds :
                             /\ IndexedOf(id) \subseteq ProgrammesOf(guideFile, id)
                             /\ LookedUp(guideFile, id) => IndexedOf(id) = ProgrammesOf(guideFile, id)
                             /\ ~LookedUp(guideFile, id) /\ ~Exported(guideFile, id) => IndexedOf(id) = {}
    BY DEF QuietIndexIsFile
  <2>2. chanIndex = guideFile.raw /\ Matches(progIndex, guideFile)
    BY <2>1 DEF GuideIInv, PublishedInv, Quiet
  <2>3. ASSUME NEW id \in AllIds
        PROVE  /\ IndexedOf(id) \subseteq ProgrammesOf(guideFile, id)
               /\ LookedUp(guideFile, id) => IndexedOf(id) = ProgrammesOf(guideFile, id)
               /\ ~LookedUp(guideFile, id) /\ ~Exported(guideFile, id) => IndexedOf(id) = {}
    <3>1. /\ \A i \in DOMAIN progIndex[id] : progIndex[id][i] \in guideFile.progs /\ progIndex[id][i].id = id
          /\ LookedUp(guideFile, id) => \A p \in guideFile.progs : p.id = id => \E i \in DOMAIN progIndex[id] : progIndex[id][i] = p
          /\ ~LookedUp(guideFile, id) /\ ~Exported(guideFile, id) => progIndex[id] = <<>>
      BY <2>2 DEF Matches
    <3>2. \A x : x \in IndexedOf(id) <=> \E i \in DOMAIN progIndex[id] : x = progIndex[id][i]
      BY DEF IndexedOf, ToSet
    <3>3. \A x : x \in ProgrammesOf(guideFile, id) <=> x \in guideFile.progs /\ x.id = id
      BY DEF ProgrammesOf
    <3>4. progIndex[id] = <<>> => IndexedOf(id) = {}
      BY DEF IndexedOf, ToSet
    <3>5. IndexedOf(id) \subseteq ProgrammesOf(guideFile, id)
      BY <3>1, <3>2, <3>3
    <3>6. LookedUp(guideFile, id) => ProgrammesOf(guideFile, id) \subseteq IndexedOf(id)
      BY <3>1, <3>2, <3>3
    <3> QED
      BY <3>1, <3>4, <3>5, <3>6
  <2> QED
    BY <2>2, <2>3
<1>4. NowIsAiring
  <2>1. ASSUME NEW id \in AllIds, NEW now \in Moments
        PROVE  LET on == {p \in ToSet(progIndex[id]) : p.start <= now /\ now <= p.stop}
               IN IF on = {} THEN NowTitle(id, now) = NoGuide ELSE NowTitle(id, now) \in on
    <3>1. progIndex[id] \in Seq(Listings) /\ Sorted(progIndex[id])
      BY DEF GuideIInv, IndexOk
    <3>2. now \in Int
      BY DEF Moments
    <3> QED
      BY <3>1, <3>2, SortedAiring
  <2> QED
    BY <2>1 DEF NowIsAiring
<1>5. TempsAreRemoved
  <2>1. At(WithStore) = {j \in Refreshers : job[j].pc \in {"prepare", "fetch", "commit", "write"}}
        /\ At(Merging) = {j \in Refreshers : job[j].pc \in {"fetch", "commit", "write"}}
    BY DEF At, WithStore, Merging
  <2> QED
    BY <2>1 DEF GuideIInv, TempsCounted, TempsAreRemoved
<1> QED
  BY <1>1, <1>2, <1>3, <1>4, <1>5 DEF GuideInv

\* GuideInv: the published guide holds together through refreshes that overlap, fail or
\* die, for any sources, channels, mapping and clients: the file has everything its
\* sources delivered and every mapped channel's copies, the quiet index answers for it,
\* what is shown as on now is on, and no temporary file is left (epg.go 230-430).
THEOREM GuideAlwaysHolds == GuideSpec => []GuideInv
<1>1. GuideIInv /\ [GuideNext]_guideVars => GuideIInv'
  BY GuideInductive
<1> QED
  BY <1>1, GuideStarts, GuideFollows, PTL DEF GuideSpec
================================================================================
