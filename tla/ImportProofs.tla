----------------------------- MODULE ImportProofs -----------------------------
(***************************************************************************)
(* Imports, players, rendered playlists, restarts and saved configurations *)
(* that race, for any number of sources, names, workers, runs and limits.  *)
(* The first part follows a source's connections: its counter is raised    *)
(* and lowered together with the set of those who hold a connection; only  *)
(* the tally of an import sets it apart, and that is downwards.  The       *)
(* second follows the catalog: what a run fetched, what it puts together,  *)
(* what it stores and what is derived from it.                             *)
(***************************************************************************)
EXTENDS Import, FiniteSetTheorems, WellFoundedInduction, TLAPS

\* Those who hold a connection of source s as it was in load v.
Players(v, s) == {p \in playing : p.stream[2] = s /\ p.stream[3] = v /\ p.counted}
Fetchers(s) == {i \in DOMAIN batch.list : batch.list[i] = s /\ batch.state[i] = "counted"}
FetchersOf(v, s) == IF batch.version = v THEN Fetchers(s) ELSE {}

batchVars == <<batch, phase>>
countVars == <<conns, batch, playing>>

-----------------------------------------------------------------------------
(* Finite sets                                                             *)

LEMMA ListFacts ==
  ASSUME NEW l \in Lists \cup {<<>>}
  PROVE  /\ IsFiniteSet(DOMAIN l) /\ Len(l) \in Nat /\ DOMAIN l = 1 .. Len(l)
         /\ \A i \in DOMAIN l : l[i] \in Sources
<1>1. Cardinality(Sources) \in Nat
  BY SetAssumption, FS_CardinalityType
<1>2. PICK n \in Nat : l \in [1 .. n -> Sources]
  <2>1. CASE l = <<>>
    <3>1. l \in [1 .. 0 -> Sources]
      BY <2>1
    <3> QED
      BY <3>1
  <2>2. CASE l \in Lists
    BY <1>1, <2>2 DEF Lists
  <2> QED
    BY <2>1, <2>2
<1>3. l \in Seq(Sources) /\ DOMAIN l = 1 .. n
  BY <1>2
<1>4. IsFiniteSet(1 .. n)
  BY <1>2, FS_Interval
<1> QED
  BY <1>3, <1>4

\* What the cardinalities are of, and that they are numbers.
Counted ==
  \A v \in Versions, s \in Sources :
    /\ IsFiniteSet(Players(v, s)) /\ IsFiniteSet(FetchersOf(v, s))
    /\ Cardinality(Players(v, s)) \in Nat /\ Cardinality(FetchersOf(v, s)) \in Nat
    /\ Holders(v, s) = Cardinality(Players(v, s)) + Cardinality(FetchersOf(v, s))

LEMMA HoldersAre == BatchInv /\ PlayingInv => Counted
<1> SUFFICES ASSUME BatchInv, PlayingInv, NEW v \in Versions, NEW s \in Sources
             PROVE  /\ IsFiniteSet(Players(v, s)) /\ IsFiniteSet(FetchersOf(v, s))
                    /\ Cardinality(Players(v, s)) \in Nat /\ Cardinality(FetchersOf(v, s)) \in Nat
                    /\ Holders(v, s) = Cardinality(Players(v, s)) + Cardinality(FetchersOf(v, s))
  BY DEF Counted
<1>1. IsFiniteSet(Players(v, s))
  <2>1. Players(v, s) \subseteq playing
    BY DEF Players
  <2> QED
    BY <2>1, FS_Subset DEF PlayingInv
<1>2. IsFiniteSet(FetchersOf(v, s))
  <2>1. FetchersOf(v, s) \subseteq DOMAIN batch.list
    BY DEF FetchersOf, Fetchers
  <2> QED
    BY <2>1, ListFacts, FS_Subset DEF BatchInv
<1>3. Cardinality({}) = 0
  BY FS_EmptySet
<1>4. Holders(v, s) = Cardinality(Players(v, s)) + Cardinality(FetchersOf(v, s))
  <2>1. CASE batch.version = v
    BY <2>1 DEF Holders, Players, FetchersOf, Fetchers
  <2>2. CASE batch.version # v
    BY <1>3, <2>2 DEF Holders, Players, FetchersOf, Fetchers
  <2> QED
    BY <2>1, <2>2
<1> QED
  BY <1>1, <1>2, <1>4, FS_CardinalityType

LEMMA LastOf ==
  ASSUME NEW n \in Nat, NEW T \in SUBSET (1 .. n), T # {}
  PROVE  \E x \in T : \A y \in T : y <= x
<1> DEFINE R == {ss \in Nat \X Nat : ss[1] < ss[2]}
           Left == {n - x : x \in T}
<1>1. IsWellFoundedOn(R, Nat)
  BY NatLessThanWellFounded DEF OpToRel
<1>2. Left \subseteq Nat /\ Left # {}
  <2>1. \A x \in 1 .. n : n - x \in Nat
    OBVIOUS
  <2> QED
    BY <2>1
<1> HIDE DEF R, Left
<1>3. PICK l \in Left : \A y \in Left : ~ (<<y, l>> \in R)
  BY <1>1, <1>2, WFMin
<1>4. \A y \in Left : ~(y < l)
  BY <1>2, <1>3 DEF R
<1>5. PICK x \in T : l = n - x
  BY DEF Left
<1>6. \A y \in T : n - y \in Left
  BY DEF Left
<1> QED
  BY <1>4, <1>5, <1>6

\* A run that does not fetch holds nothing.
LEMMA NoFetchers ==
  ASSUME BatchInv, phase # "fetch" \/ (\A i \in DOMAIN batch.list : batch.state[i] = "done"), NEW v, NEW s
  PROVE  FetchersOf(v, s) = {}
BY DEF BatchInv, FetchersOf, Fetchers

-----------------------------------------------------------------------------
(* The run's record                                                        *)

LEMMA BatchStep ==
  ASSUME ImportIInv, [Next]_vars
  PROVE  BatchInv'
<1> USE DEF BatchInv, ImportIInv
<1>0. DOMAIN NoBatch = {"version", "list", "state", "got", "ok"} /\ NoBatch.version = 0
      /\ NoBatch.list = <<>> /\ NoBatch.state = <<>> /\ NoBatch.got = <<>> /\ NoBatch.ok = <<>>
  BY DEF NoBatch
<1>1. CASE UNCHANGED batchVars
  BY <1>1 DEF batchVars
<1>2. ASSUME NEW k \in waiting, ImportBegin(k)
      PROVE  BatchInv'
  <2>1. version \in Versions /\ list \in Lists
    BY DEF ImportInv, ImportTypeOK
  <2> QED
    BY <1>0, <1>2, <2>1 DEF ImportBegin
<1>3. ASSUME NEW i \in DOMAIN batch.list, Fetch(i)
      PROVE  BatchInv'
  <2>1. CASE FetchStart(i)
    BY <1>0, <2>1 DEF FetchStart, FetchUnchanged
  <2>2. CASE FetchCount(i)
    BY <1>0, <2>2 DEF FetchCount, FetchUnchanged
  <2>3. CASE FetchSucceeds(i)
    <3>1. PICK names \in SUBSET Names :
            batch' = [batch EXCEPT !.state[i] = "done", !.got[i] = names, !.ok[i] = TRUE]
      <4>1. batch.list[i] \in Sources
        BY ListFacts
      <4> QED
        BY <2>3, <4>1, CatalogAssumption DEF FetchSucceeds
    <3> QED
      BY <1>0, <2>3, <3>1 DEF FetchSucceeds, FetchUnchanged
  <2>4. CASE FetchFails(i)
    BY <1>0, <2>4 DEF FetchFails, FetchUnchanged
  <2> QED
    BY <1>3, <2>1, <2>2, <2>3, <2>4 DEF Fetch
<1>4. CASE ImportOver
  <2>1. batch' = NoBatch /\ 0 \in Versions
    BY <1>4, BoundAssumption DEF ImportOver, Versions
  <2>2. \A S : <<>> \in [DOMAIN <<>> -> S] /\ DOMAIN <<>> = {}
    OBVIOUS
  <2> HIDE DEF ImportIInv
  <2> QED
    BY <1>0, <2>1, <2>2
<1>5. CASE ImportTally /\ ~ImportOver
  BY <1>5 DEF ImportTally
<1>6. CASE ImportStored \/ ImportPublish
  BY <1>6 DEF ImportStored, ImportPublish
<1>7. CASE ~(UNCHANGED batchVars)
  <2>1. \/ \E k \in waiting : ImportBegin(k)
        \/ \E i \in DOMAIN batch.list : Fetch(i)
        \/ ImportTally \/ ImportOver \/ ImportStored \/ ImportPublish
    BY <1>7 DEF Next, ImportStreams, Others, ImportIndex, ImportStore, ImportDrop, TriggerImport, SetConfig,
       RestartStop, RestartImport, RestartLoop, Tick, TickDone, LoopStops, PlayCheck, RenderVisit, PlayCount,
       PlayEnd, RenderBegin, RenderCache, runVars, vars, batchVars
  <2> QED
    BY <1>2, <1>3, <1>4, <1>5, <1>6, <2>1
<1> QED
  BY <1>1, <1>7

-----------------------------------------------------------------------------
(* The streams a tally makes                                               *)

LEMMA FailedHasLast ==
  ASSUME list \in Lists, NEW u \in FailedUrls
  PROVE  \E s \in failedSources : s \in Sources /\ Url[s] = u
<1> DEFINE T == {j \in Unset : Url[list[j]] = u}
<1>1. Len(list) \in Nat /\ DOMAIN list = 1 .. Len(list) /\ \A i \in DOMAIN list : list[i] \in Sources
  BY ListFacts
<1>2. T \subseteq 1 .. Len(list) /\ T # {}
  BY <1>1 DEF Unset, FailedUrls
<1> HIDE DEF T
<1>3. PICK x \in T : \A y \in T : y <= x
  BY <1>1, <1>2, LastOf
<1>4. x \in LastOfUrl /\ x \in DOMAIN list /\ Url[list[x]] = u
  BY <1>1, <1>2, <1>3 DEF LastOfUrl, T
<1> QED
  BY <1>1, <1>4 DEF failedSources

LEMMA RepointedServes ==
  ASSUME version \in Versions, list \in Lists, NEW streams \in SUBSET Streams, NEW s
  PROVE  (\E st \in Repointed(streams) : st[1] = s) <=>
           Url[s] \in FailedUrls /\ \E x \in streams : x[1] = s
<1>1. ASSUME NEW st \in Repointed(streams), st[1] = s
      PROVE  Url[s] \in FailedUrls /\ \E x \in streams : x[1] = s
  <2>1. st \in Streams /\ st[2] \in failedSources /\ \E x \in streams : x[1] = st[1]
    BY <1>1 DEF Repointed
  <2>2. Url[st[2]] \in FailedUrls
    BY <2>1 DEF failedSources, LastOfUrl, FailedUrls
  <2>3. Url[st[1]] = Url[st[2]]
    BY <2>1 DEF Streams
  <2> QED
    BY <1>1, <2>1, <2>2, <2>3
<1>2. ASSUME Url[s] \in FailedUrls, NEW x \in streams, x[1] = s
      PROVE  \E st \in Repointed(streams) : st[1] = s
  <2>1. s \in Sources /\ Url[x[2]] = Url[s]
    BY <1>2 DEF Streams
  <2>2. PICK t \in failedSources : t \in Sources /\ Url[t] = Url[s]
    BY <1>2, FailedHasLast
  <2> DEFINE st == <<s, t, version>>
  <2>3. st \in Streams /\ st[1] = s /\ st[2] = t /\ st[3] = version
    BY <2>1, <2>2 DEF Streams
  <2> HIDE DEF st
  <2>4. st \in Repointed(streams)
    BY <1>2, <2>1, <2>2, <2>3 DEF Repointed
  <2> QED
    BY <2>3, <2>4
<1> QED
  BY <1>1, <1>2

Has(S, s)  == \E st \in S : st[1] = s
OneEach(F) == \A f, g \in F : f[1] = g[1] => f = g

\* Which of two streams of a source stays does not matter for who serves.
LEMMA SortServes ==
  ASSUME NEW F \in SUBSET Streams, NEW C \in SUBSET Streams, NEW s, OneEach(F)
  PROVE  Has(SortStreams(F, C), s) <=> Has(F, s) \/ Has(C, s)
<1>1. \A st \in Streams : Order[st[2]] \in Nat
  BY UrlAssumption DEF Streams
<1>2. ASSUME NEW f \in F, f[1] = s
      PROVE  \E st \in SortStreams(F, C) : st[1] = s
  <2>1. CASE \A c \in C : c[1] = f[1] => Order[f[2]] <= Order[c[2]]
    BY <1>2, <2>1 DEF SortStreams
  <2>2. ASSUME NEW c \in C, c[1] = f[1], ~(Order[f[2]] <= Order[c[2]])
        PROVE  \E st \in SortStreams(F, C) : st[1] = s
    <3>1. Order[c[2]] < Order[f[2]]
      BY <1>1, <2>2
    <3>2. \A g \in F : g[1] = c[1] => g = f
      BY <2>2 DEF OneEach
    <3> QED
      BY <1>2, <2>2, <3>1, <3>2 DEF SortStreams
  <2> QED
    BY <2>1, <2>2
<1>3. ASSUME NEW c \in C, c[1] = s, ~(\E f \in F : f[1] = s)
      PROVE  \E st \in SortStreams(F, C) : st[1] = s
  BY <1>3 DEF SortStreams
<1>4. SortStreams(F, C) \subseteq F \cup C
  BY DEF SortStreams
<1> QED
  BY <1>2, <1>3, <1>4 DEF Has

LEMMA Distinct ==
  ASSUME BatchInv, NEW i \in DOMAIN batch.list, NEW j \in DOMAIN batch.list, batch.list[i] = batch.list[j]
  PROVE  i = j
BY DEF BatchInv, Lists

\* What the run fetched for a name.
LEMMA FetchedAre ==
  ASSUME BatchInv, NEW n
  PROVE  /\ Fetched(n) \subseteq Streams
         /\ OneEach(Fetched(n))
         /\ \A s : (\E st \in Fetched(n) : st[1] = s) <=>
                    \E i \in DOMAIN batch.list : batch.list[i] = s /\ n \in batch.got[i]
<1>1. batch.version \in Versions /\ \A i \in DOMAIN batch.list : batch.list[i] \in Sources
  BY ListFacts DEF BatchInv
<1>2. \A st : st \in Fetched(n) <=> \E i \in DOMAIN batch.list :
        n \in batch.got[i] /\ st = <<batch.list[i], batch.list[i], batch.version>>
  BY DEF Fetched
<1>3. Fetched(n) \subseteq Streams
  BY <1>1, <1>2 DEF Streams
<1>4. OneEach(Fetched(n))
  BY <1>2 DEF OneEach
<1>5. \A s : (\E st \in Fetched(n) : st[1] = s) <=> \E i \in DOMAIN batch.list : batch.list[i] = s /\ n \in batch.got[i]
  <2>1. \A i \in DOMAIN batch.list : n \in batch.got[i] => <<batch.list[i], batch.list[i], batch.version>> \in Fetched(n)
    BY <1>2
  <2>2. ASSUME NEW i \in DOMAIN batch.list, n \in batch.got[i]
        PROVE  \E st \in Fetched(n) : st[1] = batch.list[i]
    BY <2>1, <2>2
  <2>3. ASSUME NEW st \in Fetched(n)
        PROVE  \E i \in DOMAIN batch.list : batch.list[i] = st[1] /\ n \in batch.got[i]
    BY <1>2, <2>3
  <2> QED
    BY <2>2, <2>3
<1> QED
  BY <1>3, <1>4, <1>5

\* What is carried forward for a name.
LEMMA CarriedAre ==
  ASSUME ImportIInv, NEW n
  PROVE  /\ carryForwardStreams(n) \subseteq Streams
         /\ \A s : (\E st \in carryForwardStreams(n) : st[1] = s) <=> Url[s] \in FailedUrls /\ n \in Served(s)
<1>1. version \in Versions /\ list \in Lists /\ (n \in Known => channels[n].streams \subseteq Streams)
  BY DEF ImportIInv, ImportInv, ImportTypeOK
<1>2. CASE n \in Known
  <2>1. \A s : n \in Served(s) <=> \E st \in channels[n].streams : st[1] = s
    BY <1>2 DEF Served
  <2>2. carryForwardStreams(n) = Repointed(channels[n].streams)
    BY <1>2 DEF carryForwardStreams
  <2>3. Repointed(channels[n].streams) \subseteq Streams
    BY DEF Repointed
  <2>4. \A s : (\E st \in Repointed(channels[n].streams) : st[1] = s) <=>
          Url[s] \in FailedUrls /\ \E x \in channels[n].streams : x[1] = s
    <3> SUFFICES ASSUME NEW s
                 PROVE  (\E st \in Repointed(channels[n].streams) : st[1] = s) <=>
                          Url[s] \in FailedUrls /\ \E x \in channels[n].streams : x[1] = s
      OBVIOUS
    <3>1. channels[n].streams \in SUBSET Streams
      BY <1>1, <1>2
    <3> QED
      BY <1>1, <3>1, RepointedServes
  <2> QED
    BY <2>1, <2>2, <2>3, <2>4
<1>3. CASE n \notin Known
  BY <1>3 DEF carryForwardStreams, Served
<1> QED
  BY <1>2, <1>3

\* The streams of a channel that is put together.
LEMMA MadeServes ==
  ASSUME ImportIInv, NEW n
  PROVE  /\ SortStreams(Fetched(n), carryForwardStreams(n)) \subseteq Streams
         /\ \A s : (\E st \in SortStreams(Fetched(n), carryForwardStreams(n)) : st[1] = s) <=>
              \/ \E i \in DOMAIN batch.list : batch.list[i] = s /\ n \in batch.got[i]
              \/ Url[s] \in FailedUrls /\ n \in Served(s)
<1> DEFINE F == Fetched(n)
           C == carryForwardStreams(n)
<1>1. BatchInv
  BY DEF ImportIInv
<1>2. /\ F \subseteq Streams /\ OneEach(F)
      /\ \A s : (\E st \in F : st[1] = s) <=> \E i \in DOMAIN batch.list : batch.list[i] = s /\ n \in batch.got[i]
  BY <1>1, FetchedAre
<1>3. /\ C \subseteq Streams
      /\ \A s : (\E st \in C : st[1] = s) <=> Url[s] \in FailedUrls /\ n \in Served(s)
  BY CarriedAre
<1> HIDE DEF F, C
<1>4. \A s : Has(SortStreams(F, C), s) <=> Has(F, s) \/ Has(C, s)
  BY <1>2, <1>3, SortServes
<1>5. SortStreams(F, C) \subseteq Streams
  BY <1>2, <1>3 DEF SortStreams
<1>6. /\ SortStreams(F, C) \subseteq Streams
      /\ \A s : (\E st \in SortStreams(F, C) : st[1] = s) <=>
           \/ \E i \in DOMAIN batch.list : batch.list[i] = s /\ n \in batch.got[i]
           \/ Url[s] \in FailedUrls /\ n \in Served(s)
  BY <1>2, <1>3, <1>4, <1>5 DEF Has
<1> QED
  BY <1>6 DEF F, C

-----------------------------------------------------------------------------
(* The numbers of the runs                                                 *)

LEMMA RunStep ==
  ASSUME ImportIInv, [Next]_vars
  PROVE  RunInv'
<1> USE DEF RunInv, ImportIInv
<1>0. /\ \A k : By(k) = <<k, 0>>
      /\ None = <<"none", 0>>
      /\ phase \in {"idle", "fetch", "store", "drop", "index"} /\ (phase = "idle" <=> holder = None) /\ Known \subseteq Names
      /\ Imports \in Nat
  BY BoundAssumption DEF By, None, ImportInv, ImportTypeOK
<1>1. ASSUME NEW k \in waiting, ImportBegin(k)
      PROVE  RunInv'
  BY <1>0, <1>1 DEF ImportBegin, outVars
<1>2. CASE ImportTally
  <2>1. CASE ImportOver
    BY <1>0, <1>2, <2>1 DEF ImportTally, ImportOver
  <2>2. CASE ~ImportOver
    <3> DEFINE all == [n \in Names |-> SortStreams(Fetched(n), carryForwardStreams(n))]
               keep == {n \in Names : all[n] # {}}
    <3>1. phase = "fetch" /\ phase' = "store" /\ todo' = keep /\ fresh' = [n \in keep |-> all[n]]
          /\ UNCHANGED <<begun, generation, waiting>>
      BY <1>2, <2>2 DEF ImportTally
    <3>4. \A n \in keep : all[n] \subseteq Streams /\ all[n] # {}
      BY MadeServes
    <3>5. DOMAIN fresh' = keep /\ keep \subseteq Names /\ \A n \in keep : fresh'[n] = all[n]
      BY <3>1
    <3> HIDE DEF all, keep
    <3> QED
      BY <1>0, <3>1, <3>4, <3>5
  <2> QED
    BY <2>1, <2>2
<1>3. CASE ImportStored
  BY <1>0, <1>3 DEF ImportStored, outVars
<1>4. CASE ImportPublish
  BY <1>0, <1>4 DEF ImportPublish
<1>5. CASE ImportIndex
  BY <1>0, <1>5 DEF ImportIndex, ImportOver
<1>6. ASSUME NEW n \in todo, ImportStore(n) \/ ImportDrop(n)
      PROVE  RunInv'
  BY <1>0, <1>6 DEF ImportStore, ImportDrop
<1>7. CASE UNCHANGED <<begun, generation, phase, waiting, todo, fresh>>
  BY <1>7
<1>8. CASE /\ UNCHANGED <<begun, generation, phase, todo, fresh>>
           /\ \E k : waiting' = waiting \cup {<<k, 0>>} /\ k # "none"
  BY <1>0, <1>8
<1>9. ASSUME NEW i \in DOMAIN loops, Tick(i)
      PROVE  RunInv'
  BY <1>0, <1>9 DEF Tick, outVars
<1>10. ASSUME NEW i \in DOMAIN batch.list, Fetch(i)
       PROVE  UNCHANGED <<begun, generation, phase, waiting, todo, fresh>>
  BY <1>10 DEF Fetch, FetchStart, FetchCount, FetchSucceeds, FetchFails, FetchUnchanged
<1>11. CASE Others
  <2>1. CASE TriggerImport \/ RestartImport
    BY <1>0, <1>8, <2>1 DEF TriggerImport, RestartImport, outVars, LoadConfig
  <2>2. CASE ~(TriggerImport \/ RestartImport \/ \E i \in DOMAIN loops : Tick(i))
    <3>1. UNCHANGED <<begun, generation, phase, waiting, todo, fresh>>
      BY <1>11, <2>2 DEF Others, SetConfig, RestartStop, RestartLoop, TickDone, LoopStops, PlayCheck, RenderVisit,
         PlayCount, PlayEnd, RenderBegin, RenderCache, runVars, outVars
    <3> QED
      BY <1>7, <3>1
  <2> QED
    BY <1>9, <2>1, <2>2
<1>12. CASE UNCHANGED vars
  BY <1>7, <1>12 DEF vars, runVars, outVars
<1> QED
  BY <1>1, <1>2, <1>3, <1>4, <1>5, <1>6, <1>7, <1>10, <1>11, <1>12 DEF Next, ImportStreams

-----------------------------------------------------------------------------
(* The players                                                             *)

LEMMA PlayingStep ==
  ASSUME ImportIInv, [Next]_vars
  PROVE  PlayingInv'
<1> USE DEF PlayingInv, ImportIInv
<1>1. ASSUME NEW n \in Names, PlayCheck(n)
      PROVE  PlayingInv'
  <2>1. PICK st \in channels[n].streams :
          playing' = playing \cup {[name |-> n, object |-> channels[n].object, stream |-> st, counted |-> FALSE]}
    BY <1>1 DEF PlayCheck
  <2>2. st \in Streams /\ channels[n].object \in 1 .. Imports
    BY <1>1, <2>1 DEF PlayCheck, ChannelsInv
  <2>3. \A p \in playing : ~(p.name = n /\ p.object = channels[n].object)
    BY <1>1 DEF PlayCheck
  <2> DEFINE new == [name |-> n, object |-> channels[n].object, stream |-> st, counted |-> FALSE]
  <2>4. new \in [name : Names, object : 1 .. Imports, stream : Streams, counted : BOOLEAN]
        /\ new.name = n /\ new.object = channels[n].object
    BY <2>2
  <2>5. IsFiniteSet(playing')
    BY <2>1, FS_AddElement
  <2> HIDE DEF new
  <2>6. playing' = playing \cup {new}
    BY <2>1 DEF new
  <2> QED
    BY <2>3, <2>4, <2>5, <2>6
<1>2. ASSUME NEW p \in playing, PlayCount(p)
      PROVE  PlayingInv'
  <2> DEFINE new == [p EXCEPT !.counted = TRUE]
  <2>1. playing' = (playing \ {p}) \cup {new}
    BY <1>2 DEF PlayCount
  <2>2. new \in [name : Names, object : 1 .. Imports, stream : Streams, counted : BOOLEAN]
        /\ new.name = p.name /\ new.object = p.object
    OBVIOUS
  <2>3. IsFiniteSet(playing')
    BY <2>1, FS_RemoveElement, FS_AddElement
  <2> HIDE DEF new
  <2> QED
    BY <2>1, <2>2, <2>3
<1>3. ASSUME NEW p \in playing, PlayEnd(p)
      PROVE  PlayingInv'
  BY <1>3, FS_RemoveElement DEF PlayEnd
<1>4. CASE UNCHANGED playing
  BY <1>4
<1>5. CASE ImportStreams
  <2>1. UNCHANGED playing
    BY <1>5 DEF ImportStreams, Fetch, FetchStart, FetchCount, FetchSucceeds, FetchFails, FetchUnchanged, ImportBegin,
       ImportTally, ImportStored, ImportPublish, ImportIndex, ImportStore, ImportDrop
  <2> QED
    BY <1>4, <2>1
<1>6. CASE Others
  <2>1. \/ UNCHANGED playing
        \/ \E n \in Names : PlayCheck(n)
        \/ \E p \in playing : PlayCount(p) \/ PlayEnd(p)
    BY <1>6 DEF Others, TriggerImport, SetConfig, RestartStop, RestartImport, RestartLoop, Tick, TickDone, LoopStops,
       RenderVisit, RenderBegin, RenderCache
  <2> QED
    BY <1>1, <1>2, <1>3, <1>4, <2>1
<1> QED
  BY <1>4, <1>5, <1>6 DEF Next, vars

-----------------------------------------------------------------------------
(* The channels and the other types                                        *)

ChannelTypes ==
  /\ Known \subseteq Names
  /\ \A n \in Known : channels[n] \in [streams : SUBSET Streams, object : 1 .. Imports] /\ channels[n].streams # {}

LEMMA ChannelTypesAre ==
  ASSUME ImportIInv
  PROVE  ChannelTypes
BY DEF ImportIInv, ChannelsInv, ImportInv, ImportTypeOK, ChannelTypes

LEMMA ChannelsStep ==
  ASSUME ImportIInv, [Next]_vars
  PROVE  ChannelTypes'
<1>0. ChannelTypes /\ version \in Versions
  BY ChannelTypesAre DEF ImportIInv, ImportInv, ImportTypeOK
<1>1. CASE ImportTally
  <2>1. CASE UNCHANGED channels
    BY <1>0, <2>1 DEF ChannelTypes, Known
  <2>2. CASE ~(UNCHANGED channels)
    <3> DEFINE moved(n) == Repointed(channels[n].streams) \cup {st \in channels[n].streams : Url[st[2]] \notin FailedUrls}
    <3>1. channels' = [n \in Known |-> [channels[n] EXCEPT !.streams = moved(n)]]
      BY <1>1, <2>2 DEF ImportTally
    <3>2. ASSUME NEW n \in Known
          PROVE  moved(n) \subseteq Streams /\ moved(n) # {}
      <4>1. channels[n].streams \subseteq Streams /\ channels[n].streams # {}
        BY <1>0 DEF ChannelTypes
      <4>2. Repointed(channels[n].streams) \subseteq Streams
        BY DEF Repointed
      <4>3. ASSUME NEW st \in channels[n].streams, Url[st[2]] \in FailedUrls
            PROVE  Repointed(channels[n].streams) # {}
        <5>1. list \in Lists /\ Url[st[1]] = Url[st[2]]
          BY <4>1, <4>3 DEF ImportIInv, ImportInv, ImportTypeOK, Streams
        <5> QED
          BY <1>0, <4>1, <4>3, <5>1, RepointedServes
      <4> QED
        BY <4>1, <4>2, <4>3
    <3>3. \A n \in Known : /\ [channels[n] EXCEPT !.streams = moved(n)] \in [streams : SUBSET Streams, object : 1 .. Imports]
                         /\ [channels[n] EXCEPT !.streams = moved(n)].streams # {}
      <4> HIDE DEF moved
      <4> QED
        BY <1>0, <3>2 DEF ChannelTypes
    <3>4. DOMAIN channels' = Known /\ \A n \in Known : channels'[n] = [channels[n] EXCEPT !.streams = moved(n)]
      BY <3>1
    <3> HIDE DEF moved
    <3> QED
      BY <1>0, <3>3, <3>4 DEF ChannelTypes, Known
  <2> QED
    BY <2>1, <2>2
<1>2. ASSUME NEW n \in todo, ImportStore(n)
      PROVE  ChannelTypes'
  <2>1. fresh[n] \subseteq Streams /\ fresh[n] # {} /\ n \in Names /\ begun \in 1 .. Imports
    BY <1>2, BoundAssumption DEF ImportStore, ImportIInv, RunInv
  <2>2. [streams |-> fresh[n], object |-> begun] \in [streams : SUBSET Streams, object : 1 .. Imports]
    BY <2>1
  <2> QED
    BY <1>0, <1>2, <2>1, <2>2 DEF ImportStore, ChannelTypes, Known
<1>3. ASSUME NEW n \in todo, ImportDrop(n)
      PROVE  ChannelTypes'
  BY <1>0, <1>3 DEF ImportDrop, ChannelTypes, Known
<1>4. CASE UNCHANGED channels
  BY <1>0, <1>4 DEF ChannelTypes, Known
<1>5. CASE ImportStreams
  <2>1. CASE ~(ImportTally \/ \E n \in todo : ImportStore(n) \/ ImportDrop(n))
    <3>1. UNCHANGED channels
      BY <1>5, <2>1 DEF ImportStreams, Fetch, FetchStart, FetchCount, FetchSucceeds, FetchFails, FetchUnchanged,
         ImportBegin, ImportStored, ImportPublish, ImportIndex, outVars
    <3> QED
      BY <1>4, <3>1
  <2> QED
    BY <1>1, <1>2, <1>3, <2>1
<1>6. CASE Others
  <2>1. UNCHANGED channels
    BY <1>6 DEF Others, TriggerImport, SetConfig, RestartStop, RestartImport, RestartLoop, Tick, TickDone, LoopStops,
       PlayCheck, RenderVisit, PlayCount, PlayEnd, RenderBegin, RenderCache, outVars
  <2> QED
    BY <1>4, <2>1
<1> QED
  BY <1>4, <1>5, <1>6 DEF Next, vars, outVars

LEMMA TypeStep ==
  ASSUME ImportIInv, [Next]_vars, RunInv', ChannelTypes'
  PROVE  ImportTypeOK'
<1>0. ImportTypeOK /\ RunInv /\ BatchInv
  BY DEF ImportIInv, ImportInv
<1>1. version' \in Versions /\ list' \in Lists
  <2>1. \/ UNCHANGED <<version, list>>
        \/ LoadConfig
    BY DEF Next, ImportStreams, Others, Fetch, FetchStart, FetchCount, FetchSucceeds, FetchFails, FetchUnchanged,
       ImportBegin, ImportTally, ImportStored, ImportPublish, ImportIndex, ImportStore, ImportDrop, TriggerImport, SetConfig,
       RestartStop, RestartImport, RestartLoop, Tick, TickDone, LoopStops, PlayCheck, RenderVisit, PlayCount,
       PlayEnd, RenderBegin, RenderCache, confVars, vars
  <2> QED
    BY <1>0, <2>1, ListAssumption, BoundAssumption DEF LoadConfig, ImportTypeOK, Versions
<1>2. index' \subseteq Names
  <2>1. index' = index \/ index' = Known
    BY DEF Next, ImportStreams, Others, Fetch, FetchStart, FetchCount, FetchSucceeds, FetchFails, FetchUnchanged,
       ImportBegin, ImportTally, ImportStored, ImportPublish, ImportIndex, ImportStore, ImportDrop, TriggerImport, SetConfig,
       RestartStop, RestartImport, RestartLoop, Tick, TickDone, LoopStops, PlayCheck, RenderVisit, PlayCount,
       PlayEnd, RenderBegin, RenderCache, outVars, vars
  <2> QED
    BY <1>0, <2>1 DEF ImportTypeOK
<1>3. token' \in BOOLEAN
  <2>1. token' \in {token, TRUE, FALSE}
    BY DEF Next, ImportStreams, Others, Fetch, FetchStart, FetchCount, FetchSucceeds, FetchFails, FetchUnchanged,
       ImportBegin, ImportTally, ImportStored, ImportPublish, ImportIndex, ImportStore, ImportDrop, TriggerImport, SetConfig,
       RestartStop, RestartImport, RestartLoop, Tick, TickDone, LoopStops, PlayCheck, RenderVisit, PlayCount,
       PlayEnd, RenderBegin, RenderCache, loopVars, vars
  <2> QED
    BY <1>0, <2>1 DEF ImportTypeOK
<1>4. pending' \in BOOLEAN
  <2>1. pending' \in {pending, TRUE, FALSE}
    BY DEF Next, ImportStreams, Others, Fetch, FetchStart, FetchCount, FetchSucceeds, FetchFails, FetchUnchanged,
       ImportBegin, ImportTally, ImportOver, ImportStored, ImportPublish, ImportIndex, ImportStore, ImportDrop, TriggerImport,
       SetConfig, RestartStop, RestartImport, RestartLoop, Tick, TickDone, LoopStops, PlayCheck, RenderVisit, PlayCount,
       PlayEnd, RenderBegin, RenderCache, runVars, vars
  <2> QED
    BY <1>0, <2>1 DEF ImportTypeOK
<1>5. inventory' \in [Urls -> SUBSET Names]
  <2>1. ASSUME NEW i \in DOMAIN batch.list, FetchSucceeds(i)
        PROVE  inventory' \in [Urls -> SUBSET Names]
    <3>1. batch.list[i] \in Sources
      BY <1>0, ListFacts DEF BatchInv
    <3> QED
      BY <1>0, <2>1, <3>1, CatalogAssumption DEF FetchSucceeds, ImportTypeOK, Urls
  <2>2. inventory' = inventory \/ \E i \in DOMAIN batch.list : FetchSucceeds(i)
    BY DEF Next, ImportStreams, Others, Fetch, FetchStart, FetchCount, FetchFails,
       ImportBegin, ImportTally, ImportStored, ImportPublish, ImportIndex, ImportStore, ImportDrop, TriggerImport, SetConfig,
       RestartStop, RestartImport, RestartLoop, Tick, TickDone, LoopStops, PlayCheck, RenderVisit, PlayCount,
       PlayEnd, RenderBegin, RenderCache, outVars, vars
  <2> QED
    BY <1>0, <2>1, <2>2 DEF ImportTypeOK
<1>6. conns' \in [Versions -> [Sources -> Int]]
  <2>1. ASSUME NEW i \in DOMAIN batch.list, FetchCount(i) \/ FetchSucceeds(i) \/ FetchFails(i)
        PROVE  conns' \in [Versions -> [Sources -> Int]]
    <3>1. \/ conns' = [conns EXCEPT ![batch.version][batch.list[i]] = @ + 1]
          \/ conns' = [conns EXCEPT ![batch.version][batch.list[i]] = @ - 1]
      BY <2>1 DEF FetchCount, FetchSucceeds, FetchFails
    <3>2. batch.version \in Versions /\ batch.list[i] \in Sources
      BY <1>0, ListFacts DEF BatchInv
    <3> QED
      BY <1>0, <3>1, <3>2 DEF ImportTypeOK
  <2>2. ASSUME NEW p \in playing, PlayCount(p) \/ PlayEnd(p)
        PROVE  conns' \in [Versions -> [Sources -> Int]]
    BY <1>0, <2>2 DEF PlayCount, PlayEnd, ImportTypeOK
  <2>3. CASE ImportTally
    BY <1>0, <2>3 DEF ImportTally, ImportTypeOK
  <2>4. \/ conns' = conns \/ ImportTally
        \/ \E i \in DOMAIN batch.list : FetchCount(i) \/ FetchSucceeds(i) \/ FetchFails(i)
        \/ \E p \in playing : PlayCount(p) \/ PlayEnd(p)
    BY DEF Next, ImportStreams, Others, Fetch, FetchStart,
       ImportBegin, ImportStored, ImportPublish, ImportIndex, ImportStore, ImportDrop, TriggerImport, SetConfig,
       RestartStop, RestartImport, RestartLoop, Tick, TickDone, LoopStops, PlayCheck, RenderVisit,
       RenderBegin, RenderCache, confVars, vars
  <2> QED
    BY <1>0, <2>1, <2>2, <2>3, <2>4 DEF ImportTypeOK
<1>7. /\ phase' \in {"idle", "fetch", "store", "drop", "index"} /\ (phase' = "idle" <=> holder' = None)
      /\ todo' \subseteq Names /\ (todo' # {} => phase' \in {"store", "drop"})
  <2>1. ASSUME NEW k \in waiting, ImportBegin(k)
        PROVE  phase' = "fetch" /\ holder' # None /\ todo' = {}
    BY <1>0, <2>1 DEF ImportBegin, RunInv, ImportTypeOK
  <2>2. CASE ImportOver
    BY <2>2 DEF ImportOver
  <2>3. CASE ImportTally /\ ~ImportOver
    BY <1>0, <2>3 DEF ImportTally, ImportTypeOK
  <2>4. CASE ImportStored \/ ImportPublish
    BY <1>0, <2>4 DEF ImportStored, ImportPublish, ImportTypeOK
  <2>5. ASSUME NEW n \in todo, ImportStore(n) \/ ImportDrop(n)
        PROVE  UNCHANGED <<phase, holder>> /\ todo' \subseteq todo
    BY <2>5 DEF ImportStore, ImportDrop
  <2>6. \/ \E k \in waiting : ImportBegin(k)
        \/ ImportOver \/ (ImportTally /\ ~ImportOver) \/ ImportStored \/ ImportPublish
        \/ \E n \in todo : ImportStore(n) \/ ImportDrop(n)
        \/ UNCHANGED <<phase, holder, todo>>
    <3>1. CASE ImportStreams
      <4>1. ASSUME NEW i \in DOMAIN batch.list, Fetch(i)
            PROVE  UNCHANGED <<phase, holder, todo>>
        BY <4>1 DEF Fetch, FetchStart, FetchCount, FetchSucceeds, FetchFails, FetchUnchanged
      <4>2. ImportIndex => ImportOver
        BY DEF ImportIndex
      <4>3. ImportTally => ImportOver \/ (ImportTally /\ ~ImportOver)
        OBVIOUS
      <4> QED
        BY <3>1, <4>1, <4>2, <4>3 DEF ImportStreams
    <3>2. CASE Others
      BY <3>2 DEF Others, TriggerImport, SetConfig, RestartStop, RestartImport, RestartLoop, Tick, TickDone, LoopStops,
         PlayCheck, RenderVisit, PlayCount, PlayEnd, RenderBegin, RenderCache, runVars
    <3>3. CASE UNCHANGED vars
      BY <3>3 DEF vars, runVars
    <3> QED
      BY <3>1, <3>2, <3>3 DEF Next
  <2> QED
    BY <1>0, <2>1, <2>2, <2>3, <2>4, <2>5, <2>6 DEF ImportTypeOK
<1>8. begun' \in 0 .. Imports /\ generation' \in 0 .. Imports
  BY BoundAssumption DEF RunInv
<1>9. /\ Known' \subseteq Names
      /\ \A n \in Known' : channels'[n].streams \subseteq Streams /\ channels'[n].streams # {}
                           /\ channels'[n].object \in 1 .. Imports
  BY DEF ChannelTypes
<1> QED
  BY <1>1, <1>2, <1>3, <1>4, <1>5, <1>6, <1>7, <1>8, <1>9 DEF ImportTypeOK

-----------------------------------------------------------------------------
(* The counters                                                            *)

LEMMA CountStep ==
  ASSUME ImportIInv, [Next]_vars, BatchInv', PlayingInv'
  PROVE  NeverOvercounts'
<1>0. ImportTypeOK /\ BatchInv /\ PlayingInv /\ NeverOvercounts
  BY DEF ImportIInv, ImportInv
<1>1. Counted
  BY <1>0, HoldersAre
<1>2. Counted'
  BY HoldersAre, PTL
<1>3. /\ conns \in [Versions -> [Sources -> Int]]
      /\ \A v \in Versions, s \in Sources :
           conns[v][s] <= Cardinality(Players(v, s)) + Cardinality(FetchersOf(v, s))
  BY <1>0, <1>1 DEF ImportTypeOK, NeverOvercounts, Counted
<1>4. ASSUME \A v \in Versions, s \in Sources :
               conns'[v][s] <= Cardinality(Players(v, s)') + Cardinality(FetchersOf(v, s)')
      PROVE  NeverOvercounts'
  BY <1>2, <1>4 DEF NeverOvercounts, Counted
\* Nobody starts or stops holding a connection.
<1>5. CASE /\ UNCHANGED <<conns, playing>>
           /\ \A v \in Versions, s \in Sources : FetchersOf(v, s)' = FetchersOf(v, s)
  <2>1. \A v \in Versions, s \in Sources : Players(v, s)' = Players(v, s)
    BY <1>5 DEF Players
  <2> QED
    BY <1>3, <1>4, <1>5, <2>1
<1>6. ASSUME NEW k \in waiting, ImportBegin(k)
      PROVE  NeverOvercounts'
  <2>1. phase # "fetch"
    BY <1>0, <1>6 DEF ImportBegin, ImportTypeOK
  <2>2. \A v, s : FetchersOf(v, s) = {}
    BY <1>0, <2>1, NoFetchers
  <2>3. \A v, s : FetchersOf(v, s)' = {}
    BY <1>6 DEF ImportBegin, FetchersOf, Fetchers
  <2> QED
    BY <1>5, <1>6, <2>2, <2>3 DEF ImportBegin, confVars
<1>7. ASSUME NEW i \in DOMAIN batch.list, FetchStart(i)
      PROVE  NeverOvercounts'
  <2>1. \E x \in {"started", "done"} : batch' = [batch EXCEPT !.state[i] = x]
    BY <1>7 DEF FetchStart
  <2>2. \A v, s : FetchersOf(v, s)' = FetchersOf(v, s)
    <3>1. batch.state[i] = "queued"
      BY <1>7 DEF FetchStart
    <3>2. \E x \in {"started", "done"} : batch'.state = [batch.state EXCEPT ![i] = x]
      BY <1>0, <2>1 DEF BatchInv, NoBatch
    <3>3. batch'.version = batch.version /\ batch'.list = batch.list
      BY <1>0, <2>1 DEF BatchInv, NoBatch
    <3>4. \A j \in DOMAIN batch.list : batch'.state[j] = "counted" <=> batch.state[j] = "counted"
      BY <1>0, <3>1, <3>2 DEF BatchInv
    <3> QED
      BY <3>3, <3>4 DEF FetchersOf, Fetchers
  <2> QED
    BY <1>5, <1>7, <2>2 DEF FetchStart, FetchUnchanged
<1>8. ASSUME NEW i \in DOMAIN batch.list, FetchCount(i)
      PROVE  NeverOvercounts'
  <2>1. PICK v0 \in Versions, s0 \in Sources : v0 = batch.version /\ s0 = batch.list[i]
    BY <1>0, ListFacts DEF BatchInv
  <2>2. batch' = [batch EXCEPT !.state[i] = "counted"] /\ batch.state[i] = "started" /\ playing' = playing
        /\ conns' = [conns EXCEPT ![v0][s0] = @ + 1]
    BY <1>8, <2>1 DEF FetchCount, FetchUnchanged
  <2>3. FetchersOf(v0, s0)' = FetchersOf(v0, s0) \cup {i} /\ i \notin FetchersOf(v0, s0)
    BY <1>0, <2>1, <2>2 DEF BatchInv, FetchersOf, Fetchers
  <2>4. \A v \in Versions, s \in Sources : v # v0 \/ s # s0 => FetchersOf(v, s)' = FetchersOf(v, s)
    <3>1. batch'.version = batch.version /\ batch'.list = batch.list /\ batch'.state = [batch.state EXCEPT ![i] = "counted"]
      BY <1>0, <2>2 DEF BatchInv, NoBatch
    <3> QED
      <4>1. \A j \in DOMAIN batch.list :
              batch'.state[j] = "counted" <=> batch.state[j] = "counted" \/ j = i
        BY <1>0, <3>1 DEF BatchInv
      <4>2. ASSUME NEW v \in Versions, NEW s \in Sources, v # v0 \/ s # s0
            PROVE  FetchersOf(v, s)' = FetchersOf(v, s)
        <5>1. CASE v # v0
          BY <2>1, <3>1, <5>1 DEF FetchersOf
        <5>2. CASE s # s0
          BY <2>1, <3>1, <4>1, <5>2 DEF FetchersOf, Fetchers
        <5> QED
          BY <4>2, <5>1, <5>2
      <4> QED
        BY <4>2
  <2>5. \A v \in Versions, s \in Sources : Players(v, s)' = Players(v, s)
    BY <2>2 DEF Players
  <2>6. \A v \in Versions, s \in Sources : conns'[v][s] = IF v = v0 /\ s = s0 THEN conns[v][s] + 1 ELSE conns[v][s]
    BY <1>3, <2>1, <2>2
  <2>7. Cardinality(FetchersOf(v0, s0)') = Cardinality(FetchersOf(v0, s0)) + 1
    BY ZenonT(40), <1>1, <2>1, <2>3, FS_AddElement DEF Counted
  <2> QED
    <3>1. conns'[v0][s0] <= Cardinality(Players(v0, s0)') + Cardinality(FetchersOf(v0, s0)')
      BY <1>1, <1>3, <2>1, <2>5, <2>6, <2>7 DEF Counted
    <3>2. ASSUME NEW v \in Versions, NEW s \in Sources, v # v0 \/ s # s0
          PROVE  conns'[v][s] <= Cardinality(Players(v, s)') + Cardinality(FetchersOf(v, s)')
      BY <1>3, <3>2, <2>5, <2>4, <2>6
    <3> QED
      BY <1>4, <3>1, <3>2
<1>9. ASSUME NEW i \in DOMAIN batch.list, FetchSucceeds(i) \/ FetchFails(i)
      PROVE  NeverOvercounts'
  <2>1. PICK v0 \in Versions, s0 \in Sources : v0 = batch.version /\ s0 = batch.list[i]
    BY <1>0, ListFacts DEF BatchInv
  <2>2. batch.state[i] = "counted" /\ playing' = playing /\ conns' = [conns EXCEPT ![v0][s0] = @ - 1]
    BY <1>9, <2>1 DEF FetchSucceeds, FetchFails, FetchUnchanged
  <2>3. batch'.version = batch.version /\ batch'.list = batch.list /\ batch'.state = [batch.state EXCEPT ![i] = "done"]
    BY <1>0, <1>9 DEF FetchSucceeds, FetchFails, BatchInv, NoBatch
  <2>4. FetchersOf(v0, s0)' = FetchersOf(v0, s0) \ {i} /\ i \in FetchersOf(v0, s0)
    BY <1>0, <2>1, <2>2, <2>3 DEF BatchInv, FetchersOf, Fetchers
  <2>5. \A v \in Versions, s \in Sources : v # v0 \/ s # s0 => FetchersOf(v, s)' = FetchersOf(v, s)
    BY SMTT(40), <1>0, <2>1, <2>2, <2>3 DEF BatchInv, FetchersOf, Fetchers
  <2>6. \A v \in Versions, s \in Sources : Players(v, s)' = Players(v, s)
    BY <2>2 DEF Players
  <2>7. \A v \in Versions, s \in Sources : conns'[v][s] = IF v = v0 /\ s = s0 THEN conns[v][s] - 1 ELSE conns[v][s]
    BY <1>3, <2>1, <2>2
  <2>8. Cardinality(FetchersOf(v0, s0)') = Cardinality(FetchersOf(v0, s0)) - 1
    BY <1>1, <2>1, <2>4, FS_RemoveElement DEF Counted
  <2> QED
    <3>1. conns'[v0][s0] <= Cardinality(Players(v0, s0)') + Cardinality(FetchersOf(v0, s0)')
      BY <1>1, <1>3, <2>1, <2>6, <2>7, <2>8 DEF Counted
    <3>2. ASSUME NEW v \in Versions, NEW s \in Sources, v # v0 \/ s # s0
          PROVE  conns'[v][s] <= Cardinality(Players(v, s)') + Cardinality(FetchersOf(v, s)')
      BY <1>3, <3>2, <2>6, <2>5, <2>7
    <3> QED
      BY <1>4, <3>1, <3>2
\* The tally finds no fetch holding anything, and lowers counters only.
<1>10. CASE ImportTally
  <2>1. \A i \in DOMAIN batch.list : batch.state[i] = "done"
    BY <1>10 DEF ImportTally
  <2>2. \A v, s : FetchersOf(v, s) = {}
    BY <1>0, <2>1, NoFetchers
  <2>3. playing' = playing /\ conns' = [conns EXCEPT ![version] = [s \in Sources |-> IF s \in {list[i] : i \in DOMAIN list} THEN 0 ELSE @[s]]]
    BY <1>10 DEF ImportTally
  <2>4. \A v \in Versions, s \in Sources : Players(v, s)' = Players(v, s)
    BY <2>3 DEF Players
  <2>5. \A v \in Versions, s \in Sources : conns'[v][s] \in {0, conns[v][s]}
    BY <1>3, <2>3
  <2>6. \A v \in Versions, s \in Sources : Cardinality(FetchersOf(v, s)) = 0
    BY <2>2, FS_EmptySet
  <2> QED
    BY <1>1, <1>2, <1>3, <1>4, <2>4, <2>5, <2>6 DEF Counted
<1>11. CASE ImportIndex
  <2>1. phase # "fetch"
    BY <1>11 DEF ImportIndex
  <2>2. \A v, s : FetchersOf(v, s) = {}
    BY <1>0, <2>1, NoFetchers
  <2>3. batch' = NoBatch /\ UNCHANGED <<conns, playing>>
    BY <1>11 DEF ImportIndex, ImportOver, confVars
  <2>4. \A v, s : FetchersOf(v, s)' = {}
    BY <2>3 DEF FetchersOf, Fetchers, NoBatch
  <2> QED
    BY <1>5, <2>2, <2>3, <2>4
<1>12. ASSUME NEW p \in playing, PlayCount(p)
       PROVE  NeverOvercounts'
  <2> DEFINE v0 == p.stream[3]
             s0 == p.stream[2]
             new == [p EXCEPT !.counted = TRUE]
  <2>1. v0 \in Versions /\ s0 \in Sources
    BY <1>0 DEF PlayingInv, Streams
  <2>2. batch' = batch /\ ~p.counted /\ playing' = (playing \ {p}) \cup {new} /\ conns' = [conns EXCEPT ![v0][s0] = @ + 1]
    BY <1>12 DEF PlayCount, runVars
  <2>3. new.stream = p.stream /\ new.counted /\ new.name = p.name /\ new.object = p.object
    BY <1>0 DEF PlayingInv
  <2>4. new \notin playing
    BY <1>0, <2>2, <2>3 DEF PlayingInv
  <2> HIDE DEF new
  <2>5. Players(v0, s0)' = Players(v0, s0) \cup {new} /\ new \notin Players(v0, s0)
    BY <2>1, <2>2, <2>3, <2>4 DEF Players
  <2>6. \A v \in Versions, s \in Sources : v # v0 \/ s # s0 => Players(v, s)' = Players(v, s)
    BY <2>1, <2>2, <2>3 DEF Players
  <2>7. \A v \in Versions, s \in Sources : FetchersOf(v, s)' = FetchersOf(v, s)
    BY <2>2 DEF FetchersOf, Fetchers
  <2>8. \A v \in Versions, s \in Sources : conns'[v][s] = IF v = v0 /\ s = s0 THEN conns[v][s] + 1 ELSE conns[v][s]
    BY <1>3, <2>1, <2>2
  <2>9. Cardinality(Players(v0, s0)') = Cardinality(Players(v0, s0)) + 1
    BY <1>1, <2>1, <2>5, FS_AddElement DEF Counted
  <2> HIDE DEF v0, s0
  <2> QED
    BY <1>1, <1>3, <1>4, <2>1, <2>6, <2>7, <2>8, <2>9 DEF Counted
<1>13. ASSUME NEW p \in playing, PlayEnd(p)
       PROVE  NeverOvercounts'
  <2> DEFINE v0 == p.stream[3]
             s0 == p.stream[2]
  <2>1. v0 \in Versions /\ s0 \in Sources
    BY <1>0 DEF PlayingInv, Streams
  <2>2. batch' = batch /\ p.counted /\ playing' = playing \ {p} /\ conns' = [conns EXCEPT ![v0][s0] = @ - 1]
    BY <1>13 DEF PlayEnd, runVars
  <2>3. Players(v0, s0)' = Players(v0, s0) \ {p} /\ p \in Players(v0, s0)
    BY <2>1, <2>2 DEF Players
  <2>4. \A v \in Versions, s \in Sources : v # v0 \/ s # s0 => Players(v, s)' = Players(v, s)
    BY <2>1, <2>2 DEF Players
  <2>5. \A v \in Versions, s \in Sources : FetchersOf(v, s)' = FetchersOf(v, s)
    BY <2>2 DEF FetchersOf, Fetchers
  <2>6. \A v \in Versions, s \in Sources : conns'[v][s] = IF v = v0 /\ s = s0 THEN conns[v][s] - 1 ELSE conns[v][s]
    BY <1>3, <2>1, <2>2
  <2>7. Cardinality(Players(v0, s0)') = Cardinality(Players(v0, s0)) - 1
    <3>1. IsFiniteSet(Players(v0, s0))
      BY <1>1, <2>1 DEF Counted
    <3> QED
      BY <2>3, <3>1, FS_RemoveElement
  <2> HIDE DEF v0, s0
  <2> QED
    BY <1>1, <1>3, <1>4, <2>1, <2>4, <2>5, <2>6, <2>7 DEF Counted
\* A play that only checks the limit has no connection yet.
<1>14. ASSUME NEW n \in Names, PlayCheck(n)
       PROVE  NeverOvercounts'
  <2>1. PICK st : playing' = playing \cup {[name |-> n, object |-> channels[n].object, stream |-> st, counted |-> FALSE]}
    BY <1>14 DEF PlayCheck
  <2>2. UNCHANGED <<conns, batch>>
    BY <1>14 DEF PlayCheck, confVars, runVars
  <2>3. \A v \in Versions, s \in Sources : Players(v, s)' = Players(v, s)
    BY <2>1 DEF Players
  <2>4. \A v \in Versions, s \in Sources : FetchersOf(v, s)' = FetchersOf(v, s)
    BY <2>2 DEF FetchersOf, Fetchers
  <2> QED
    BY <1>3, <1>4, <2>2, <2>3, <2>4
<1>15. CASE UNCHANGED <<conns, playing, batch>>
  <2>1. \A v \in Versions, s \in Sources : FetchersOf(v, s)' = FetchersOf(v, s)
    BY <1>15 DEF FetchersOf, Fetchers
  <2> QED
    BY <1>5, <1>15, <2>1
<1>16. CASE ImportStreams
  <2>1. \/ \E k \in waiting : ImportBegin(k)
        \/ \E i \in DOMAIN batch.list : FetchStart(i) \/ FetchCount(i) \/ FetchSucceeds(i) \/ FetchFails(i)
        \/ ImportTally \/ ImportIndex
        \/ UNCHANGED <<conns, playing, batch>>
    BY <1>16 DEF ImportStreams, Fetch, ImportStored, ImportPublish, ImportStore, ImportDrop, confVars
  <2> QED
    BY <1>6, <1>7, <1>8, <1>9, <1>10, <1>11, <1>15, <2>1
<1>17. CASE Others
  <2>1. \/ \E n \in Names : PlayCheck(n)
        \/ \E p \in playing : PlayCount(p) \/ PlayEnd(p)
        \/ UNCHANGED <<conns, playing, batch>>
    BY <1>17 DEF Others, TriggerImport, SetConfig, RestartStop, RestartImport, RestartLoop, Tick, TickDone, LoopStops,
       RenderVisit, RenderBegin, RenderCache, confVars, runVars
  <2> QED
    BY <1>12, <1>13, <1>14, <1>15, <2>1
<1>18. CASE UNCHANGED vars
  BY <1>15, <1>18 DEF vars, confVars, runVars
<1> QED
  BY <1>16, <1>17, <1>18 DEF Next

-----------------------------------------------------------------------------
(* The theorem                                                             *)

LEMMA ImportInitially ==
  ASSUME Init
  PROVE  ImportIInv
<1> USE DEF Init
<1>1. 0 \in Versions /\ 0 \in 0 .. Imports
  BY BoundAssumption DEF Versions
<1>2. DOMAIN channels = {} /\ DOMAIN <<>> = {}
  OBVIOUS
<1>3. BatchInv
  BY <1>1, <1>2 DEF BatchInv, NoBatch
<1>4. RunInv
  BY <1>1 DEF RunInv, None, By
<1>5. PlayingInv
  BY FS_EmptySet DEF PlayingInv
<1>6. ChannelsInv
  BY <1>2 DEF ChannelsInv, Known
<1>7. ImportTypeOK
  <2>1. Known = {} /\ inventory \in [Urls -> SUBSET Names] /\ conns \in [Versions -> [Sources -> Int]]
    BY <1>2 DEF Known
  <2>2. version \in Versions /\ list \in Lists /\ generation \in 0 .. Imports /\ begun \in 0 .. Imports
    BY <1>1, ListAssumption
  <2>3. phase = "idle" /\ holder = None /\ todo = {} /\ index = {} /\ pending = FALSE /\ token = FALSE
    OBVIOUS
  <2> HIDE DEF Init
  <2> QED
    BY <2>1, <2>2, <2>3 DEF ImportTypeOK
<1>8. NeverOvercounts
  <2>1. Counted
    BY <1>3, <1>5, HoldersAre
  <2> QED
    BY <2>1 DEF Counted, NeverOvercounts
<1> QED
  BY <1>3, <1>4, <1>5, <1>6, <1>7, <1>8 DEF ImportIInv, ImportInv

LEMMA ImportStep ==
  ASSUME ImportIInv, [Next]_vars
  PROVE  ImportIInv'
<1>1. BatchInv' /\ RunInv' /\ PlayingInv' /\ ChannelTypes'
  BY BatchStep, RunStep, PlayingStep, ChannelsStep
<1>2. ImportTypeOK' /\ NeverOvercounts'
  BY <1>1, TypeStep, CountStep
<1> QED
  BY <1>1, <1>2 DEF ImportIInv, ImportInv, ChannelsInv, ChannelTypes

\* ImportStreams, StreamFromSource and LoadConfig: whatever imports, players, saved
\* configurations and restarts do to each other, no source is shut out by a
\* connection nobody holds.
THEOREM NeverLockedOut == FairSpec => []ImportInv
<1>1. ImportIInv => ImportInv
  BY DEF ImportIInv
<1> QED
  BY <1>1, ImportInitially, ImportStep, PTL DEF FairSpec, Spec
-----------------------------------------------------------------------------
(* A run's channels become the catalog                                     *)

\* Steps of others: they leave a run alone, but may replace the list it reads.
Aside ==
  /\ UNCHANGED <<phase, batch, fresh, todo, before, clean, outVars>>
  /\ UNCHANGED <<mixed, list>> \/ mixed' = (mixed \/ phase = "fetch")

LEMMA CommitKinds ==
  ASSUME [Next]_vars
  PROVE  \/ Aside
         \/ \E k \in waiting : ImportBegin(k)
         \/ \E i \in DOMAIN batch.list : Fetch(i)
         \/ ImportTally \/ ImportStored \/ ImportPublish \/ ImportIndex
         \/ \E n \in todo : ImportStore(n) \/ ImportDrop(n)
<1>1. CASE ImportStreams
  BY <1>1 DEF ImportStreams
<1>2. CASE Others
  BY <1>2 DEF Others, TriggerImport, SetConfig, LoadConfig, RestartStop, RestartImport, RestartLoop, Tick, TickDone,
     LoopStops, PlayCheck, RenderVisit, PlayCount, PlayEnd, RenderBegin, RenderCache, runVars, confVars, Aside
<1>3. CASE UNCHANGED vars
  BY <1>3 DEF vars, runVars, confVars, Aside
<1> QED
  BY <1>1, <1>2, <1>3 DEF Next

\* What the tally puts together.
LEMMA TallyServes ==
  ASSUME ImportIInv, ImportTally, ~ImportOver
  PROVE  /\ phase = "fetch" /\ phase' = "store" /\ todo' = DOMAIN fresh' /\ DOMAIN fresh' # {}
         /\ clean' = (clean /\ ~mixed)
         /\ UNCHANGED <<batch, list, mixed, inventory>>
         /\ \A s \in Sources : before'[s] = Served(s)
         /\ \A s, n : n \in FreshServed(s)' <=>
              /\ n \in Names
              /\ \/ \E i \in DOMAIN batch.list : batch.list[i] = s /\ n \in batch.got[i]
                 \/ Url[s] \in FailedUrls /\ n \in Served(s)
<1> DEFINE made(n) == SortStreams(Fetched(n), carryForwardStreams(n))
           all == [n \in Names |-> made(n)]
           keep == {n \in Names : all[n] # {}}
<1>1. /\ phase = "fetch" /\ phase' = "store" /\ todo' = keep /\ fresh' = [n \in keep |-> all[n]]
      /\ keep # {} /\ clean' = (clean /\ ~mixed /\ keep # {}) /\ before' = [s \in Sources |-> Served(s)]
      /\ UNCHANGED <<batch, list, mixed, inventory>>
  BY DEF ImportTally
<1>2. \A n : n \in keep <=> n \in Names /\ made(n) # {}
  <2> HIDE DEF made
  <2> QED
    OBVIOUS
<1>3. DOMAIN fresh' = keep /\ \A n \in keep : fresh'[n] = made(n)
  <2> HIDE DEF made
  <2> QED
    BY <1>1
<1>4. \A n, s : (\E st \in made(n) : st[1] = s) <=>
        \/ \E i \in DOMAIN batch.list : batch.list[i] = s /\ n \in batch.got[i]
        \/ Url[s] \in FailedUrls /\ n \in Served(s)
  BY MadeServes
<1> HIDE DEF made, all, keep
<1>5. \A s, n : n \in FreshServed(s)' <=> n \in Names /\ \E st \in made(n) : st[1] = s
  BY <1>2, <1>3 DEF FreshServed
<1> QED
  BY <1>1, <1>3, <1>4, <1>5

LEMMA CommitStep ==
  ASSUME ImportIInv, CommitInv, [Next]_vars
  PROVE  CommitInv'
<1> USE DEF CommitInv, Replacing, FreshServed, Got, Carried
<1>0. BatchInv /\ phase \in {"idle", "fetch", "store", "drop", "index"}
  BY DEF ImportIInv, ImportInv, ImportTypeOK
<1>1. CASE Aside
  <2>1. UNCHANGED <<phase, batch, fresh, todo, before, channels>>
    BY <1>1 DEF Aside, outVars
  <2>2. UNCHANGED <<mixed, list>> \/ mixed' = (mixed \/ phase = "fetch")
    BY <1>1 DEF Aside
  <2>3. phase = "fetch" /\ ~mixed' => batch.list = list'
    BY <2>2
  <2>4. Replacing /\ ~mixed' => ~mixed
    BY <2>2
  <2> QED
    BY <2>1, <2>3, <2>4 DEF Known
<1>2. ASSUME NEW k \in waiting, ImportBegin(k)
      PROVE  CommitInv'
  BY <1>2 DEF ImportBegin, confVars
<1>3. ASSUME NEW i \in DOMAIN batch.list, Fetch(i)
      PROVE  CommitInv'
  <2>1. UNCHANGED <<phase, list, mixed>> /\ phase = "fetch"
    BY <1>3 DEF Fetch, FetchStart, FetchCount, FetchSucceeds, FetchFails, FetchUnchanged
  <2>2. batch'.list = batch.list
    BY <1>0, <1>3 DEF Fetch, FetchStart, FetchCount, FetchSucceeds, FetchFails, BatchInv, NoBatch
  <2>3. \A j \in DOMAIN batch.list : ~batch'.ok[j] => batch'.got[j] = {}
    <3>1. CASE FetchSucceeds(i)
      <4>1. PICK names : batch' = [batch EXCEPT !.state[i] = "done", !.got[i] = names, !.ok[i] = TRUE]
        BY <3>1 DEF FetchSucceeds
      <4>2. batch'.got = [batch.got EXCEPT ![i] = names] /\ batch'.ok = [batch.ok EXCEPT ![i] = TRUE]
        BY <1>0, <4>1 DEF BatchInv, NoBatch
      <4> QED
        BY <1>0, <4>2 DEF BatchInv
    <3>2. CASE ~FetchSucceeds(i)
      <4>1. batch'.got = batch.got /\ batch'.ok = batch.ok
        BY <1>0, <1>3, <3>2 DEF Fetch, FetchStart, FetchCount, FetchFails, BatchInv, NoBatch
      <4> QED
        BY <4>1
    <3> QED
      BY <3>1, <3>2
  <2> QED
    BY <2>1, <2>2, <2>3
<1>4. CASE ImportOver
  <2>1. phase' = "idle" /\ batch' = NoBatch /\ DOMAIN NoBatch.list = {}
    BY <1>4 DEF ImportOver, NoBatch
  <2> QED
    BY <2>1
<1>5. CASE ImportTally /\ ~ImportOver
  <2>1. /\ phase = "fetch" /\ phase' = "store" /\ todo' = DOMAIN fresh' /\ DOMAIN fresh' # {}
        /\ UNCHANGED <<batch, list, mixed>>
        /\ \A s \in Sources : before'[s] = Served(s)
        /\ \A s, n : n \in FreshServed(s)' <=>
              /\ n \in Names
              /\ \/ \E i \in DOMAIN batch.list : batch.list[i] = s /\ n \in batch.got[i]
                 \/ Url[s] \in FailedUrls /\ n \in Served(s)
    BY <1>5, TallyServes
  <2>2. ASSUME ~mixed, NEW s \in Sources
        PROVE  FreshServed(s)' = Got(s)' \cup (IF Carried(s)' THEN before'[s] ELSE {})
    <3>1. \A i \in DOMAIN batch.list : batch.got[i] \subseteq Names
      BY <1>0 DEF BatchInv
    <3>2. Served(s) \subseteq Names
      BY DEF Served, ImportIInv, ImportInv, ImportTypeOK
    <3>3. \A n : n \in Got(s) <=> \E j \in DOMAIN batch.list : batch.list[j] = s /\ n \in batch.got[j]
      OBVIOUS
    <3>4. Carried(s) <=> Url[s] \in FailedUrls
      BY <2>1, <2>2 DEF FailedUrls, Unset
    <3>5. Got(s)' = Got(s) /\ Carried(s)' = Carried(s) /\ before'[s] = Served(s)
      BY <2>1
    <3> HIDE DEF FreshServed, Got, Carried
    <3>6. \A n : n \in FreshServed(s)' <=> n \in Got(s) \/ (Carried(s) /\ n \in Served(s))
      BY <2>1, <3>1, <3>2, <3>3, <3>4
    <3>7. FreshServed(s)' = Got(s) \cup (IF Carried(s) THEN Served(s) ELSE {})
      BY <3>6
    <3> QED
      BY <3>5, <3>7
  <2> HIDE DEF FreshServed, Got, Carried
  <2>3. batch' = batch /\ mixed' = mixed /\ phase' = "store" /\ DOMAIN fresh' \ todo' = {} /\ DOMAIN fresh' # {}
    BY <2>1
  <2>4. \A i \in DOMAIN batch.list : ~batch.ok[i] => batch.got[i] = {}
    OBVIOUS
  <2> HIDE DEF CommitInv
  <2> QED
    BY <2>2, <2>3, <2>4 DEF CommitInv
<1>6. CASE ImportStored
  BY <1>6 DEF ImportStored, outVars, Known, confVars
<1>7. CASE ImportPublish
  BY <1>7 DEF ImportPublish, Known
<1>8. CASE ImportIndex
  BY <1>4, <1>8 DEF ImportIndex
<1>9. ASSUME NEW n \in todo, ImportStore(n)
      PROVE  CommitInv'
  <2>1. /\ UNCHANGED <<phase, batch, fresh, before, mixed>> /\ phase = "store" /\ todo' = todo \ {n}
        /\ channels' = [m \in Known \cup {n} |->
             IF m = n THEN [streams |-> fresh[n], object |-> begun] ELSE channels[m]]
    BY <1>9 DEF ImportStore
  <2>2. Known' = Known \cup {n} /\ channels'[n].streams = fresh[n] /\ \A m \in Known : m # n => channels'[m] = channels[m]
    BY <2>1 DEF Known
  <2> QED
    BY <2>1, <2>2
<1>10. ASSUME NEW n \in todo, ImportDrop(n)
       PROVE  CommitInv'
  <2>1. /\ UNCHANGED <<phase, batch, fresh, before, mixed>> /\ phase = "drop" /\ todo' = todo \ {n}
        /\ channels' = [m \in Known \ {n} |-> channels[m]]
    BY <1>10 DEF ImportDrop
  <2>2. Known' = Known \ {n} /\ \A m \in Known' : channels'[m] = channels[m]
    BY <2>1 DEF Known
  <2>3. todo = Known \ DOMAIN fresh
    BY <2>1
  <2> QED
    BY <2>1, <2>2, <2>3
<1> QED
  BY <1>1, <1>2, <1>3, <1>4, <1>5, <1>6, <1>7, <1>8, <1>9, <1>10, CommitKinds

\* Once the map is replaced it is the run's channels.
LEMMA Committed ==
  ASSUME CommitInv, phase = "index"
  PROVE  (\A s : Served(s) = FreshServed(s)) /\ (\A u : Serves(u) = FreshServes(u))
<1>1. Known = DOMAIN fresh /\ \A n \in Known : channels[n].streams = fresh[n]
  BY DEF CommitInv, Replacing
<1>2. \A s : Served(s) = FreshServed(s)
  BY <1>1 DEF Served, FreshServed
<1>3. \A u : {Served(s) : s \in {r \in Sources : Url[r] = u}} = {FreshServed(s) : s \in {r \in Sources : Url[r] = u}}
  BY <1>2
<1> QED
  BY <1>2, <1>3 DEF Serves, FreshServes

-----------------------------------------------------------------------------
(* The inventory                                                           *)

LEMMA ServesAre ==
  ASSUME NEW u, NEW n
  PROVE  n \in Serves(u) <=> \E s \in Sources : Url[s] = u /\ n \in Served(s)
BY DEF Serves

LEMMA FreshServesAre ==
  ASSUME NEW u, NEW n
  PROVE  n \in FreshServes(u) <=> \E s \in Sources : Url[s] = u /\ n \in FreshServed(s)
BY DEF FreshServes

\* The catalog stays, and so does what a URL serves.
LEMMA ServesStay ==
  ASSUME UNCHANGED channels
  PROVE  (\A s : Served(s)' = Served(s)) /\ (\A u : Serves(u)' = Serves(u))
BY DEF Known, Served, Serves

LEMMA FreshServesStay ==
  ASSUME UNCHANGED fresh
  PROVE  \A u : FreshServes(u)' = FreshServes(u)
BY DEF FreshServed, FreshServes

LEMMA InventoryStep ==
  ASSUME ImportIInv, CommitInv, InventoryInv, [Next]_vars
  PROVE  InventoryInv'
<1> USE DEF InventoryInv, InventoryIsServed, Replacing, Records
<1>0. BatchInv /\ phase \in {"idle", "fetch", "store", "drop", "index"} /\ inventory \in [Urls -> SUBSET Names]
  BY DEF ImportIInv, ImportInv, ImportTypeOK
<1>1. CASE Aside
  <2>1. UNCHANGED <<phase, batch, fresh, channels, inventory, clean>>
    BY <1>1 DEF Aside, outVars
  <2>2. ~mixed' => ~mixed
    BY <1>1 DEF Aside
  <2>3. \A u : Serves(u)' = Serves(u) /\ FreshServes(u)' = FreshServes(u)
    BY <2>1, ServesStay, FreshServesStay
  <2> QED
    BY <2>1, <2>2, <2>3
<1>2. ASSUME NEW k \in waiting, ImportBegin(k)
      PROVE  InventoryInv'
  <2>1. phase = "idle" /\ phase' = "fetch" /\ UNCHANGED <<channels, inventory, clean>>
    BY <1>0, <1>2 DEF ImportBegin, ImportIInv, ImportInv, ImportTypeOK, outVars
  <2>2. \A i \in DOMAIN batch'.list : ~batch'.ok[i]
    BY <1>2 DEF ImportBegin
  <2>3. \A u : Serves(u)' = Serves(u)
    BY <2>1, ServesStay
  <2> QED
    BY <2>1, <2>2, <2>3
<1>3. ASSUME NEW i \in DOMAIN batch.list, FetchSucceeds(i)
      PROVE  InventoryInv'
  <2>0. batch.list[i] \in Sources /\ Url[batch.list[i]] \in Urls
    BY <1>0, ListFacts DEF BatchInv, Urls
  <2>1. PICK names \in SUBSET Names :
          /\ batch' = [batch EXCEPT !.state[i] = "done", !.got[i] = names, !.ok[i] = TRUE]
          /\ inventory' = [inventory EXCEPT ![Url[batch.list[i]]] = names]
    BY <1>3, <2>0, CatalogAssumption DEF FetchSucceeds
  <2>2. phase = "fetch" /\ UNCHANGED <<phase, channels, clean, mixed, fresh>>
    BY <1>3 DEF FetchSucceeds, FetchUnchanged
  <2>3. /\ batch'.list = batch.list /\ DOMAIN batch.ok = DOMAIN batch.list /\ DOMAIN batch.got = DOMAIN batch.list
        /\ batch'.got = [batch.got EXCEPT ![i] = names] /\ batch'.ok = [batch.ok EXCEPT ![i] = TRUE]
    BY <1>0, <2>1 DEF BatchInv, NoBatch
  <2>4. \A u : Serves(u)' = Serves(u)
    BY <2>2, ServesStay
  <2>5. ASSUME clean, ~mixed, NEW u \in Urls
        PROVE  \/ \E j \in DOMAIN batch'.list : Url[batch'.list[j]] = u /\ batch'.ok[j] /\ inventory'[u] = batch'.got[j]
               \/ /\ \A j \in DOMAIN batch'.list : Url[batch'.list[j]] = u => ~batch'.ok[j]
                  /\ Serves(u) # {} => Records(u, Serves(u))'
    <3>1. CASE u = Url[batch.list[i]]
      <4>1. Url[batch'.list[i]] = u /\ batch'.ok[i] /\ inventory'[u] = names /\ batch'.got[i] = names
        BY <1>0, <2>0, <2>1, <2>3, <3>1
      <4> QED
        BY <2>3, <4>1
    <3>2. CASE u # Url[batch.list[i]]
      <4>1. inventory'[u] = inventory[u]
        BY <1>0, <2>1, <3>2
      <4>2. \A j \in DOMAIN batch.list :
              Url[batch.list[j]] = u => batch'.ok[j] = batch.ok[j] /\ batch'.got[j] = batch.got[j]
        BY <2>3, <3>2
      <4>3. \/ \E j \in DOMAIN batch.list : Url[batch.list[j]] = u /\ batch.ok[j] /\ inventory[u] = batch.got[j]
            \/ /\ \A j \in DOMAIN batch.list : Url[batch.list[j]] = u => ~batch.ok[j]
               /\ Serves(u) # {} => Records(u, Serves(u))
        BY <2>2, <2>5
      <4>4. Records(u, Serves(u)) => Records(u, Serves(u))'
        BY <2>4, <4>1
      <4> HIDE DEF Records
      <4> QED
        BY ZenonT(40), <2>3, <4>1, <4>2, <4>3, <4>4
    <3> QED
      BY <3>1, <3>2
  <2> QED
    BY <2>2, <2>4, <2>5
<1>4. ASSUME NEW i \in DOMAIN batch.list, FetchStart(i) \/ FetchCount(i) \/ FetchFails(i)
      PROVE  InventoryInv'
  <2>1. phase = "fetch" /\ UNCHANGED <<phase, channels, clean, mixed, fresh, inventory>>
    BY <1>4 DEF FetchStart, FetchCount, FetchFails, FetchUnchanged
  <2>2. batch'.list = batch.list /\ batch'.got = batch.got /\ batch'.ok = batch.ok
    BY <1>0, <1>4 DEF FetchStart, FetchCount, FetchFails, BatchInv, NoBatch
  <2>3. \A u : Serves(u)' = Serves(u)
    BY <2>1, ServesStay
  <2> QED
    BY <2>1, <2>2, <2>3
<1>5. CASE ImportTally /\ ImportOver
  <2>1. phase' = "idle" /\ phase = "fetch"
    BY <1>5 DEF ImportTally, ImportOver
  <2>2. ~clean'
    BY <1>5, <2>1 DEF ImportTally
  <2> QED
    BY <2>1, <2>2
<1>6. CASE ImportTally /\ ~ImportOver
  <2>1. /\ phase = "fetch" /\ phase' = "store" /\ clean' = (clean /\ ~mixed)
        /\ UNCHANGED <<batch, list, mixed, inventory>>
        /\ \A s, n : n \in FreshServed(s)' <=>
              /\ n \in Names
              /\ \/ \E i \in DOMAIN batch.list : batch.list[i] = s /\ n \in batch.got[i]
                 \/ Url[s] \in FailedUrls /\ n \in Served(s)
    BY <1>6, TallyServes
  <2>2. clean' => clean /\ ~mixed /\ batch.list = list
    BY <2>1 DEF CommitInv
  <2>3. ASSUME clean', NEW u \in Urls, FreshServes(u)' # {}
        PROVE  Records(u, FreshServes(u)')
    <3>0. /\ \A i \in DOMAIN batch.list : batch.got[i] \subseteq Names /\ batch.list[i] \in Sources
          /\ Serves(u) \subseteq Names
      <4>1. \A s : Served(s) \subseteq Names
        BY DEF ImportIInv, ImportInv, ImportTypeOK, Served
      <4> QED
        BY <1>0, <4>1, ServesAre, ListFacts DEF BatchInv
    <3>1. \/ \E i \in DOMAIN batch.list : Url[batch.list[i]] = u /\ batch.ok[i] /\ inventory[u] = batch.got[i]
          \/ /\ \A i \in DOMAIN batch.list : Url[batch.list[i]] = u => ~batch.ok[i]
             /\ Serves(u) # {} => Records(u, Serves(u))
      BY <2>1, <2>2, <2>3
    <3>2. u \in FailedUrls <=> \E i \in DOMAIN batch.list : Url[batch.list[i]] = u /\ ~batch.ok[i]
      BY <2>1, <2>2, <2>3 DEF FailedUrls, Unset
    <3>a. \A n : n \in FreshServes(u)' <=> \E s \in Sources : Url[s] = u /\ n \in FreshServed(s)'
      BY DEF FreshServes
    <3>b. \A n : n \in Serves(u) <=> \E s \in Sources : Url[s] = u /\ n \in Served(s)
      BY ServesAre
    <3>c. \A n : n \in FreshServes(u)' <=>
            \/ \E i \in DOMAIN batch.list : Url[batch.list[i]] = u /\ n \in batch.got[i]
            \/ u \in FailedUrls /\ n \in Serves(u)
      <4>1. ASSUME NEW n, n \in FreshServes(u)'
            PROVE  \/ \E i \in DOMAIN batch.list : Url[batch.list[i]] = u /\ n \in batch.got[i]
                   \/ u \in FailedUrls /\ n \in Serves(u)
        BY <2>1, <3>a, <3>b, <4>1
      <4>2. ASSUME NEW n, NEW i \in DOMAIN batch.list, Url[batch.list[i]] = u, n \in batch.got[i]
            PROVE  n \in FreshServes(u)'
        BY <2>1, <3>0, <3>a, <4>2
      <4>3. ASSUME NEW n, u \in FailedUrls, n \in Serves(u)
            PROVE  n \in FreshServes(u)'
        BY <2>1, <3>0, <3>a, <3>b, <4>3
      <4> QED
        BY <4>1, <4>2, <4>3
    <3> DEFINE now == FreshServes(u)'
    <3>d. now # {} /\ \A n : n \in now <=>
            \/ \E i \in DOMAIN batch.list : Url[batch.list[i]] = u /\ n \in batch.got[i]
            \/ u \in FailedUrls /\ n \in Serves(u)
      BY <2>3, <3>c
    <3> HIDE DEF now
    <3>3. ASSUME NEW i \in DOMAIN batch.list, Url[batch.list[i]] = u, batch.ok[i], inventory[u] = batch.got[i]
          PROVE  Records(u, now)
      <4>1. inventory[u] \subseteq now
        BY <3>3, <3>d
      <4>2. ASSUME Alone(u)
            PROVE  inventory[u] = now
        <5>1. \A j \in DOMAIN batch.list : Url[batch.list[j]] = u => j = i
          BY <1>0, <3>0, <3>3, <4>2, Distinct DEF Alone
        <5>2. u \notin FailedUrls
          BY <3>2, <3>3, <5>1
        <5>3. \A n : n \in now <=> n \in batch.got[i]
          BY <3>3, <3>d, <5>1, <5>2
        <5>4. now \subseteq Names /\ batch.got[i] \subseteq Names
          BY <3>0, <5>3
        <5> QED
          BY <3>3, <5>3, <5>4
      <4> QED
        BY <4>1, <4>2
    <3>4. ASSUME \A i \in DOMAIN batch.list : Url[batch.list[i]] = u => ~batch.ok[i],
                 Serves(u) # {} => Records(u, Serves(u))
          PROVE  Records(u, now)
      <4>1. \A i \in DOMAIN batch.list : Url[batch.list[i]] = u => batch.got[i] = {}
        BY <3>4 DEF CommitInv
      <4>2. \A n : n \in now <=> u \in FailedUrls /\ n \in Serves(u)
        BY <3>d, <4>1
      <4>3. now = Serves(u)
        BY <3>d, <4>2
      <4> QED
        BY <3>4, <3>d, <4>3
    <3> QED
      BY <3>1, <3>3, <3>4 DEF now
  <2>4. clean' => \A u \in Urls : FreshServes(u)' # {} => Records(u, FreshServes(u))'
    <3> SUFFICES ASSUME NEW u \in Urls, FreshServes(u)' # {}
                 PROVE  clean' => Records(u, FreshServes(u))'
      BY DEF Replacing
    <3>1. inventory' = inventory
      BY <2>1
    <3>2. Records(u, FreshServes(u))' <=> Records(u, FreshServes(u)')
      BY <3>1
    <3> QED
      BY <2>3, <3>2
  <2> HIDE DEF Records
  <2> QED
    BY <2>1, <2>4
<1>7. CASE ImportStored \/ ImportPublish
  <2>1. phase \in {"store", "drop"} /\ phase' \in {"drop", "index"} /\ UNCHANGED <<fresh, inventory, clean>>
    BY <1>7 DEF ImportStored, ImportPublish, outVars
  <2>2. \A u : FreshServes(u)' = FreshServes(u)
    BY <2>1, FreshServesStay
  <2> QED
    BY <2>1, <2>2
<1>8. CASE ImportIndex
  <2>1. phase = "index" /\ phase' = "idle" /\ UNCHANGED <<channels, inventory, clean>>
    BY <1>8 DEF ImportIndex, ImportOver
  <2>2. \A u : Serves(u) = FreshServes(u)
    BY <2>1, Committed
  <2>3. \A u : Serves(u)' = Serves(u)
    BY <2>1, ServesStay
  <2> QED
    BY <2>1, <2>2, <2>3
<1>9. ASSUME NEW n \in todo, ImportStore(n) \/ ImportDrop(n)
      PROVE  InventoryInv'
  <2>1. phase \in {"store", "drop"} /\ UNCHANGED <<phase, fresh, inventory, clean>>
    BY <1>9 DEF ImportStore, ImportDrop
  <2>2. \A u : FreshServes(u)' = FreshServes(u)
    BY <2>1, FreshServesStay
  <2> QED
    BY <2>1, <2>2
<1> QED
  BY <1>1, <1>2, <1>3, <1>4, <1>5, <1>6, <1>7, <1>8, <1>9, CommitKinds DEF Fetch

-----------------------------------------------------------------------------
(* The rendered playlists                                                  *)

LEMMA PageStep ==
  ASSUME ImportIInv, CommitInv, PageInv, [Next]_vars
  PROVE  PageInv'
<1> USE DEF PageInv, PlaylistIsWhole, IndexIsCurrent
<1>0. /\ phase \in {"idle", "fetch", "store", "drop", "index"} /\ (phase = "idle" <=> holder = None)
      /\ Known \subseteq Names /\ generation \in Nat /\ Idle.at = "idle"
  BY DEF ImportIInv, ImportInv, ImportTypeOK, Idle
\* The catalog stays as it is, or is being replaced.
<1>1. ASSUME UNCHANGED <<generation, cached, render>>,
             \/ phase' \in {"store", "drop"}
             \/ phase \in {"idle", "fetch"} /\ UNCHANGED <<Known, index>>
             \/ phase = "index" /\ Known' = Known /\ index' = Known
      PROVE  PageInv'
  <2>1. CASE phase' \in {"store", "drop"}
    BY <1>1, <2>1
  <2>2. CASE phase \in {"idle", "fetch"} /\ UNCHANGED <<Known, index>>
    BY <1>1, <2>2
  <2>3. CASE phase = "index" /\ Known' = Known /\ index' = Known
    BY <1>1, <2>3
  <2> QED
    BY <1>1, <2>1, <2>2, <2>3
<1>2. CASE UNCHANGED <<phase, outVars>>
  <2>0. UNCHANGED <<phase, Known, index, generation>>
    BY <1>2 DEF outVars, Known
  <2>1. CASE RenderBegin
    BY <1>0, <2>0, <2>1 DEF RenderBegin
  <2>2. ASSUME NEW n \in Names, RenderVisit(n)
        PROVE  PageInv'
    BY <1>0, <2>0, <2>2 DEF RenderVisit
  <2>3. CASE RenderCache
    BY <1>0, <2>0, <2>3 DEF RenderCache
  <2>4. CASE RestartImport
    BY <1>0, <2>0, <2>4 DEF RestartImport
  <2>5. CASE UNCHANGED pageVars
    BY <2>0, <2>5 DEF pageVars
  <2>6. \/ RenderBegin \/ RenderCache \/ RestartImport \/ UNCHANGED pageVars
        \/ \E n \in Names : RenderVisit(n)
    BY DEF Next, ImportStreams, Others, Fetch, FetchStart, FetchCount, FetchSucceeds, FetchFails, FetchUnchanged,
       ImportBegin, ImportTally, ImportStored, ImportPublish, ImportIndex, ImportStore, ImportDrop, TriggerImport, SetConfig,
       RestartStop, RestartLoop, Tick, TickDone, LoopStops, PlayCheck, PlayCount, PlayEnd, vars
  <2> QED
    BY <2>1, <2>2, <2>3, <2>4, <2>5, <2>6
<1>3. ASSUME NEW k \in waiting, ImportBegin(k)
      PROVE  PageInv'
  <2>1. phase = "idle" /\ UNCHANGED <<generation, cached, render, channels, index>>
    BY <1>0, <1>3 DEF ImportBegin, outVars, pageVars
  <2> QED
    BY <1>1, <2>1 DEF Known
<1>4. ASSUME NEW i \in DOMAIN batch.list, Fetch(i)
      PROVE  PageInv'
  <2>1. phase = "fetch" /\ UNCHANGED <<generation, cached, render, channels, index>>
    BY <1>4 DEF Fetch, FetchStart, FetchCount, FetchSucceeds, FetchFails, FetchUnchanged, pageVars
  <2> QED
    BY <1>1, <2>1 DEF Known
<1>5. CASE ImportTally
  <2>1. phase = "fetch" /\ UNCHANGED <<generation, cached, render, index>>
    BY <1>5 DEF ImportTally, pageVars
  <2>2. Known' = Known
    BY <1>5 DEF ImportTally, Known
  <2> QED
    BY <1>1, <2>1, <2>2
<1>6. CASE ImportStored \/ \E n \in todo : ImportStore(n) \/ ImportDrop(n)
  <2>1. phase' \in {"store", "drop"} /\ UNCHANGED <<generation, cached, render>>
    BY <1>6 DEF ImportStored, ImportStore, ImportDrop, outVars, pageVars
  <2> QED
    BY <1>1, <2>1
\* Nothing is kept under a generation that begins.
<1>7. CASE ImportPublish
  <2>1. generation' = generation + 1 /\ phase' = "index" /\ UNCHANGED <<cached, render>>
    BY <1>7 DEF ImportPublish, pageVars
  <2>2. generation' \notin DOMAIN cached /\ (render.at = "visit" => render.generation # generation')
    BY <1>0, <2>1
  <2>3. \A g \in 0 .. generation : g \in 0 .. generation'
    BY <1>0, <2>1
  <2> QED
    BY <2>1, <2>2, <2>3
<1>8. CASE ImportIndex
  <2>1. phase = "index" /\ UNCHANGED <<generation, cached, render, channels>> /\ index' = Known
    BY <1>8 DEF ImportIndex, pageVars
  <2> QED
    BY <1>1, <2>1 DEF Known
<1> QED
  BY <1>2, <1>3, <1>4, <1>5, <1>6, <1>7, <1>8, CommitKinds DEF Aside

-----------------------------------------------------------------------------
(* The refresh loops                                                       *)

Owed == IF token THEN 1 ELSE 0

LEMMA AliveAre ==
  ASSUME RefreshInv
  PROVE  IsFiniteSet(Alive) /\ Cardinality(Alive) \in Nat /\ Alive \subseteq 1 .. Len(loops)
<1>1. loops \in Seq({"wait", "import", "ended"})
  BY DEF RefreshInv
<1>2. Len(loops) \in Nat /\ DOMAIN loops = 1 .. Len(loops)
  BY <1>1
<1>3. IsFiniteSet(1 .. Len(loops))
  BY <1>2, FS_Interval
<1>4. Alive \subseteq 1 .. Len(loops)
  BY <1>2 DEF Alive
<1> QED
  BY <1>3, <1>4, FS_Subset, FS_CardinalityType

LEMMA RefreshStep ==
  ASSUME ImportIInv, RefreshInv, [Next]_vars
  PROVE  RefreshInv'
<1>0. /\ loops \in Seq({"wait", "import", "ended"}) /\ restart \in {"idle", "stopped", "importing"} /\ token \in BOOLEAN
      /\ Cardinality(Alive) - (IF token THEN 1 ELSE 0) >= IF restart = "idle" THEN 1 ELSE 0
      /\ Len(loops) \in Nat /\ DOMAIN loops = 1 .. Len(loops)
  BY DEF RefreshInv, ImportIInv, ImportInv, ImportTypeOK
<1>a. IsFiniteSet(Alive) /\ Cardinality(Alive) \in Nat /\ Alive \subseteq 1 .. Len(loops)
  BY AliveAre
<1>1. ASSUME NEW i \in DOMAIN loops, Tick(i) \/ TickDone(i)
      PROVE  RefreshInv'
  <2>1. /\ loops[i] \in {"wait", "import"} /\ UNCHANGED <<token, restart>>
        /\ \E x \in {"wait", "import"} : loops' = [loops EXCEPT ![i] = x]
    BY <1>1 DEF Tick, TickDone
  <2>2. loops' \in Seq({"wait", "import", "ended"}) /\ Alive' = Alive
    BY <1>0, <2>1 DEF Alive
  <2> QED
    BY <1>0, <2>1, <2>2 DEF RefreshInv
<1>2. ASSUME NEW i \in DOMAIN loops, LoopStops(i)
      PROVE  RefreshInv'
  <2>1. loops[i] = "wait" /\ token = TRUE /\ token' = FALSE /\ restart' = restart /\ loops' = [loops EXCEPT ![i] = "ended"]
    BY <1>0, <1>2 DEF LoopStops
  <2>2. loops' \in Seq({"wait", "import", "ended"}) /\ Alive' = Alive \ {i} /\ i \in Alive
    BY <1>0, <2>1 DEF Alive
  <2>3. Cardinality(Alive') = Cardinality(Alive) - 1
    BY <1>a, <2>2, FS_RemoveElement
  <2> QED
    BY <1>0, <1>a, <2>1, <2>2, <2>3 DEF RefreshInv
<1>3. CASE RestartStop
  <2>1. restart = "idle" /\ restart' = "stopped" /\ token' = TRUE /\ loops' = loops
    BY <1>3 DEF RestartStop
  <2>2. Alive' = Alive
    BY <2>1 DEF Alive
  <2> QED
    BY <1>0, <1>a, <2>1, <2>2 DEF RefreshInv
<1>4. CASE RestartImport
  <2>1. restart = "stopped" /\ restart' = "importing" /\ UNCHANGED <<token, loops>>
    BY <1>4 DEF RestartImport
  <2>2. Alive' = Alive
    BY <2>1 DEF Alive
  <2> QED
    BY <1>0, <2>1, <2>2 DEF RefreshInv
<1>5. CASE RestartLoop
  <2>1. restart = "importing" /\ restart' = "idle" /\ token' = token /\ loops' = Append(loops, "wait")
    BY <1>5 DEF RestartLoop
  <2>2. PICK m \in Nat : m = Len(loops) + 1
    BY <1>0
  <2>3. loops' \in Seq({"wait", "import", "ended"}) /\ DOMAIN loops' = 1 .. m /\ loops'[m] = "wait"
        /\ \A i \in 1 .. Len(loops) : loops'[i] = loops[i]
    BY <1>0, <2>1, <2>2
  <2>4. Alive' = Alive \cup {m} /\ m \notin Alive
    BY <1>0, <1>a, <2>2, <2>3 DEF Alive
  <2>5. Cardinality(Alive') = Cardinality(Alive) + 1
    BY <1>a, <2>4, FS_AddElement
  <2> QED
    BY <1>0, <1>a, <2>1, <2>3, <2>5 DEF RefreshInv
<1>6. CASE UNCHANGED loopVars
  <2>1. UNCHANGED <<loops, token, restart>>
    BY <1>6 DEF loopVars
  <2>2. Alive' = Alive
    BY <2>1 DEF Alive
  <2> QED
    BY <1>0, <2>1, <2>2 DEF RefreshInv
<1>7. \/ \E i \in DOMAIN loops : Tick(i) \/ TickDone(i) \/ LoopStops(i)
      \/ RestartStop \/ RestartImport \/ RestartLoop \/ UNCHANGED loopVars
  BY DEF Next, ImportStreams, Others, Fetch, FetchStart, FetchCount, FetchSucceeds, FetchFails, FetchUnchanged,
     ImportBegin, ImportTally, ImportStored, ImportPublish, ImportIndex, ImportStore, ImportDrop, TriggerImport, SetConfig,
     PlayCheck, PlayCount, PlayEnd, RenderBegin, RenderVisit, RenderCache, vars
<1> QED
  BY <1>1, <1>2, <1>3, <1>4, <1>5, <1>6, <1>7

-----------------------------------------------------------------------------
(* What follows                                                            *)

LEMMA CatalogInitially ==
  ASSUME Init
  PROVE  CatalogIInv
<1> USE DEF Init
<1>0. ImportIInv
  BY ImportInitially
<1>1. DOMAIN batch.list = {} /\ phase = "idle" /\ Known = {} /\ DOMAIN cached = {} /\ render.at = "idle" /\ index = {}
  BY DEF NoBatch, Known, Idle
<1>2. CommitInv
  BY <1>1 DEF CommitInv, Replacing
<1>3. InventoryInv
  BY <1>1 DEF InventoryInv, InventoryIsServed, Replacing, Served, Serves
<1>4. PageInv
  BY <1>1 DEF PageInv, PlaylistIsWhole, IndexIsCurrent
<1>5. RefreshInv
  <2>1. loops = <<"wait">> /\ restart = "idle" /\ token = FALSE
    OBVIOUS
  <2>2. loops \in Seq({"wait", "import", "ended"}) /\ Alive = {1}
    BY <2>1 DEF Alive
  <2>3. Cardinality(Alive) = 1
    BY <2>2, FS_Singleton
  <2> HIDE DEF Init
  <2> QED
    BY <2>1, <2>2, <2>3 DEF RefreshInv
<1> QED
  BY <1>0, <1>2, <1>3, <1>4, <1>5 DEF CatalogIInv

LEMMA CatalogStep ==
  ASSUME CatalogIInv, [Next]_vars
  PROVE  CatalogIInv'
BY ImportStep, CommitStep, InventoryStep, PageStep, RefreshStep DEF CatalogIInv

THEOREM CatalogInductive == FairSpec => []CatalogIInv
BY CatalogInitially, CatalogStep, PTL DEF FairSpec, Spec

\* ImportStreams, carryForwardStreams, GeneratePlaylist: a run that nobody disturbs
\* replaces the catalog by what it fetched and carried forward; the playlists, indexes
\* and inventories that are kept describe the catalog they are used with.
THEOREM PublishedAsOne == FairSpec => []CommitIsWhole
<1>1. CatalogIInv => CommitIsWhole
  <2> SUFFICES ASSUME CatalogIInv
               PROVE  CommitIsWhole
    OBVIOUS
  <2>1. CommitIsExact
    BY Committed DEF CommitIsExact, CatalogIInv, CommitInv, Replacing
  <2> QED
    BY <2>1 DEF CatalogIInv, PageInv, InventoryInv, CommitIsWhole
<1> QED
  BY <1>1, CatalogInductive, PTL

\* RunRestartLoop, StopImportRefresh: after any number of graceful restarts, with the
\* stop signal taken by whichever loop is waiting, a loop is left that keeps refreshing.
THEOREM RefreshGoesOn == FairSpec => []RefreshSurvives
<1>1. CatalogIInv => RefreshSurvives
  BY DEF CatalogIInv, RefreshInv, RefreshSurvives
<1> QED
  BY <1>1, CatalogInductive, PTL

\* ImportStreams stores before it drops: once there are channels, no step of an import
\* leaves an empty map.
THEOREM NeverEmptied == FairSpec => NeverBlank
<1>1. CatalogIInv /\ [Next]_vars => [Known # {} => Known' # {}]_vars
  <2> SUFFICES ASSUME CatalogIInv, [Next]_vars, Known # {}
               PROVE  Known' # {}
    OBVIOUS
  <2>1. CASE UNCHANGED channels
    BY <2>1 DEF Known
  <2>2. CASE ImportTally
    BY <2>2 DEF ImportTally, Known
  <2>3. ASSUME NEW n \in todo, ImportStore(n)
        PROVE  Known' # {}
    BY <2>3 DEF ImportStore, Known
  \* The channels just stored are not dropped.
  <2>4. ASSUME NEW n \in todo, ImportDrop(n)
        PROVE  Known' # {}
    <3>1. phase = "drop" /\ Known' = Known \ {n}
      BY <2>4 DEF ImportDrop, Known
    <3>2. DOMAIN fresh # {} /\ DOMAIN fresh \subseteq Known /\ n \notin DOMAIN fresh
      BY <3>1 DEF CatalogIInv, CommitInv, Replacing
    <3> QED
      BY <3>1, <3>2
  <2>5. ASSUME NEW i \in DOMAIN batch.list, Fetch(i)
        PROVE  UNCHANGED channels
    BY <2>5 DEF Fetch, FetchStart, FetchCount, FetchSucceeds, FetchFails, FetchUnchanged
  <2> QED
    BY <2>1, <2>2, <2>3, <2>4, <2>5, CommitKinds DEF Aside, ImportBegin, ImportStored, ImportPublish, ImportIndex, outVars
<1> QED
  BY <1>1, CatalogInductive, PTL DEF FairSpec, Spec, NeverBlank
=============================================================================
