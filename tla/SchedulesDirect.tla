---------------------------- MODULE SchedulesDirect ----------------------------
(***************************************************************************)
(* The Schedules Direct client (work/schedulesdirect): the token cache in  *)
(* kp_settings, used under one mutex, and FetchAccount's walk from the     *)
(* account's status to the programme details.                              *)
(*                                                                         *)
(* The token cache is one JSON value, read and written whole.  Sessions    *)
(* run concurrently: the accounts of one refresh, those of another, and an *)
(* operator who looks for lineups; a process may die between two steps and *)
(* start again.                                                            *)
(***************************************************************************)
EXTENDS Naturals, Sequences, FiniteSets, SequencesExt, FiniteSetsExt

CONSTANTS
  Subscribers,       \* user names of the accounts
  SDSessions,        \* concurrent uses of the client
  Discoverers,       \* those that are DiscoverLineups
  UserOf,            \* [SDSessions -> Subscribers]
  SelectedLineups,   \* [Subscribers -> selected lineups, {} for all]
  DaysToFetch,       \* [Subscribers -> Nat], 0 when config.json gave none
  Lineups,           \* [Subscribers -> Seq(lineup)]
  Stations,          \* [lineup -> set of stations]
  Airings,           \* [station -> set of programmes]
  Detailed,          \* programmes the service has details of
  SDBatchSize, SDTokenValid, SDRefreshThreshold,
  SDDefaultDays,     \* int(SDDefaultDaysToFetch), a Duration's number
  MaxDates,          \* longest list of dates make() can give
  LastHour, MaxSessions, MaxSDFaults,   \* bounds; a restart counts as a fault
  NoToken

Unlocked == "unlocked"

ASSUME SDAssumption ==
  /\ SDBatchSize \in Nat \ {0} /\ SDTokenValid \in Nat /\ SDRefreshThreshold \in Nat
  /\ DaysToFetch \in [Subscribers -> Nat] /\ UserOf \in [SDSessions -> Subscribers]
  /\ Discoverers \subseteq SDSessions /\ Unlocked \notin SDSessions /\ LastHour \in Nat
  /\ NoToken \notin [obtained : Nat, attempt : Nat]

\* What the service answers is finite.
ASSUME ServiceAssumption ==
  /\ Lineups \in [Subscribers -> Seq(DOMAIN Stations)]
  /\ \A l \in DOMAIN Stations : IsFiniteSet(Stations[l]) /\ Stations[l] \subseteq DOMAIN Airings
  /\ \A s \in DOMAIN Airings : IsFiniteSet(Airings[s])

VARIABLES
  hour,         \* the time, in units of SDRefreshThreshold
  tokenRows,    \* sd_token_cache: [Subscribers -> entry or NoToken]
  tokenLock,    \* tokenCacheMu
  sd,           \* [SDSessions -> session record]
  logins,       \* history: [Subscribers -> Seq([at, first])]
  rowsLost,     \* history: the table could not be read or written
  sdBounds

sdVars == <<hour, tokenRows, tokenLock, sd, logins, rowsLost, sdBounds>>

Entry(obtained, attempt) == [obtained |-> obtained, attempt |-> attempt]
NoRows == [u \in Subscribers |-> NoToken]
NoSession == [pc |-> "idle", cache |-> NoRows, lineups |-> {}, stations |-> <<>>, asked |-> <<>>,
              airings |-> {}, ids |-> <<>>, detailed |-> <<>>, programs |-> {}, unscheduled |-> FALSE]

SDInit ==
  /\ hour = 0 /\ tokenRows = NoRows /\ tokenLock = Unlocked
  /\ sd = [f \in SDSessions |-> NoSession]
  /\ logins = [u \in Subscribers |-> <<>>] /\ rowsLost = FALSE
  /\ sdBounds = [begun |-> 0, faults |-> 0]

SDMayFault == sdBounds.faults < MaxSDFaults
SDFault == sdBounds' = [sdBounds EXCEPT !.faults = @ + 1]

-----------------------------------------------------------------------------
(* GetToken.                                                               *)

BeginSession(f) ==
  /\ sd[f].pc \in {"idle", "done"} /\ sdBounds.begun < MaxSessions
  /\ sd' = [sd EXCEPT ![f] = [NoSession EXCEPT !.pc = "lock"]]
  /\ sdBounds' = [sdBounds EXCEPT !.begun = @ + 1]
  /\ UNCHANGED <<hour, tokenRows, tokenLock, logins, rowsLost>>

\* loadTokenCache: a table that cannot be read counts as an empty cache.
LoadTokenCache(f) ==
  /\ sd[f].pc = "lock" /\ tokenLock = Unlocked
  /\ tokenLock' = f
  /\ \/ sd' = [sd EXCEPT ![f].pc = "decide", ![f].cache = tokenRows] /\ UNCHANGED <<rowsLost, sdBounds>>
     \/ SDMayFault /\ SDFault /\ rowsLost' = TRUE /\ sd' = [sd EXCEPT ![f].pc = "decide"]
  /\ UNCHANGED <<hour, tokenRows, logins>>

tokenValid(entry) == hour - entry.obtained < SDTokenValid
throttled(entry) == hour - entry.attempt < SDRefreshThreshold

\* The token there is, still valid or not to be refreshed yet.
UseToken(f) ==
  LET entry == sd[f].cache[UserOf[f]]
  IN /\ sd[f].pc = "decide" /\ entry # NoToken
     /\ tokenValid(entry) \/ throttled(entry)
     /\ sd' = [sd EXCEPT ![f].pc = "status"] /\ tokenLock' = Unlocked
     /\ UNCHANGED <<hour, tokenRows, logins, rowsLost, sdBounds>>

\* saveTokenCache: the whole cache, or nothing when the table cannot be written.
Saved(cache) ==
  \/ tokenRows' = cache /\ UNCHANGED <<rowsLost, sdBounds>>
  \/ SDMayFault /\ SDFault /\ rowsLost' = TRUE /\ UNCHANGED tokenRows

\* The attempt is written before the request, so that a crash does not forget it.
attemptNoted(entry) == entry
attemptNow(entry) == [entry EXCEPT !.attempt = hour]
FirstLogin(f) ==
  /\ sd[f].pc = "decide" /\ sd[f].cache[UserOf[f]] = NoToken
  /\ sd' = [sd EXCEPT ![f].pc = "login"]
  /\ UNCHANGED <<hour, tokenRows, tokenLock, logins, rowsLost, sdBounds>>
Refresh(f) ==
  LET entry == sd[f].cache[UserOf[f]]
      cache == [sd[f].cache EXCEPT ![UserOf[f]] = attemptNow(entry)]
  IN /\ sd[f].pc = "decide" /\ entry # NoToken /\ ~tokenValid(entry) /\ ~throttled(entry)
     /\ Saved(cache)
     /\ sd' = [sd EXCEPT ![f].pc = "login", ![f].cache = cache]
     /\ UNCHANGED <<hour, tokenLock, logins>>

SendLogin(f) ==
  /\ sd[f].pc = "login"
  /\ logins' = [logins EXCEPT ![UserOf[f]] = Append(@, [at |-> hour, first |-> sd[f].cache[UserOf[f]] = NoToken])]
  /\ sd' = [sd EXCEPT ![f].pc = "answer"]
  /\ UNCHANGED <<hour, tokenRows, tokenLock, rowsLost, sdBounds>>

\* doLogin inserts or updates the entry and writes the cache it was given.
doLogin(f) ==
  LET cache == [sd[f].cache EXCEPT ![UserOf[f]] = Entry(hour, hour)]
  IN /\ sd[f].pc = "answer" /\ Saved(cache)
     /\ sd' = [sd EXCEPT ![f].pc = "status", ![f].cache = cache] /\ tokenLock' = Unlocked
     /\ UNCHANGED <<hour, logins>>
LoginRefused(f) ==
  /\ sd[f].pc = "answer"
  /\ sd' = [sd EXCEPT ![f] = NoSession] /\ tokenLock' = Unlocked
  /\ UNCHANGED <<hour, tokenRows, logins, rowsLost, sdBounds>>

-----------------------------------------------------------------------------
(* FetchAccount.                                                           *)

apart == <<hour, tokenRows, tokenLock, logins, rowsLost, sdBounds>>

\* checkStatus; DiscoverLineups does without it.
CheckStatus(f) ==
  /\ sd[f].pc = "status"
  /\ sd' = [sd EXCEPT ![f].pc = "lineups"]
  /\ UNCHANGED apart

\* The account is not active, or a request it cannot do without fails.
FetchFails(f) ==
  /\ sd[f].pc \in {"status", "lineups", "programs"} /\ (sd[f].pc = "status" => f \notin Discoverers)
  /\ sd' = [sd EXCEPT ![f] = NoSession]
  /\ UNCHANGED apart

\* fetchLineups: the selected ones, all when none is selected.
allLineups(u) == ToSet(Lineups[u])
fetchLineups(u) == IF SelectedLineups[u] = {} THEN ToSet(Lineups[u]) ELSE ToSet(Lineups[u]) \cap SelectedLineups[u]
FetchLineups(f) ==
  /\ sd[f].pc = "lineups"
  /\ sd' = [sd EXCEPT ![f].lineups = fetchLineups(UserOf[f]),
                      ![f].pc = IF f \in Discoverers THEN "done" ELSE "stations"]
  /\ UNCHANGED apart

\* fetchStations: every station once; a lineup that does not come is passed over.
FetchStations(f) ==
  /\ sd[f].pc = "stations"
  /\ \E came \in SUBSET sd[f].lineups :
       sd' = [sd EXCEPT ![f].stations = SetToSeq(UNION {Stations[l] : l \in came}), ![f].pc = "dates"]
  /\ UNCHANGED apart

\* The list of dates fetchSchedules begins with.
lookahead(u) == IF DaysToFetch[u] > 0 THEN DaysToFetch[u] ELSE SDDefaultDays
MakeDates(f) ==
  /\ sd[f].pc = "dates" /\ lookahead(UserOf[f]) <= MaxDates
  /\ sd' = [sd EXCEPT ![f].pc = "schedules"]
  /\ UNCHANGED apart

\* The next batch of a list of which n have been asked.
batchAgain(list, n) == SubSeq(list, Max({n, 1}), Min({Len(list), n + SDBatchSize}))
batchShort(list, n) == SubSeq(list, n + 1, Min({Len(list) - 1, n + SDBatchSize}))
batch(list, n) == SubSeq(list, n + 1, Min({Len(list), n + SDBatchSize}))

\* A batch of schedules; stations that answer with a code are left out.
FetchSchedules(f) ==
  LET asks == batch(sd[f].stations, Len(sd[f].asked))
  IN /\ sd[f].pc = "schedules" /\ asks # <<>>
     /\ \E good \in SUBSET ToSet(asks) :
          sd' = [sd EXCEPT ![f].asked = @ \o asks,
                           ![f].airings = @ \cup UNION {{s} \X Airings[s] : s \in good}]
     /\ UNCHANGED apart

\* A batch that fails ends fetchSchedules with nothing; FetchAccount goes on all the same.
SchedulesFail(f) ==
  /\ sd[f].pc = "schedules" /\ batch(sd[f].stations, Len(sd[f].asked)) # <<>>
  /\ sd' = [sd EXCEPT ![f].pc = "programs", ![f].airings = {}, ![f].unscheduled = TRUE]
  /\ UNCHANGED apart

SchedulesDone(f) ==
  /\ sd[f].pc = "schedules" /\ batch(sd[f].stations, Len(sd[f].asked)) = <<>>
  /\ sd' = [sd EXCEPT ![f].pc = "programs", ![f].ids = SetToSeq({a[2] : a \in sd[f].airings})]
  /\ UNCHANGED apart

\* A batch of programme details.
FetchPrograms(f) ==
  LET asks == batch(sd[f].ids, Len(sd[f].detailed))
  IN /\ sd[f].pc = "programs"
     /\ sd' = [sd EXCEPT ![f].detailed = @ \o asks, ![f].programs = @ \cup (ToSet(asks) \cap Detailed),
                         ![f].pc = IF asks = <<>> THEN "done" ELSE "programs"]
     /\ UNCHANGED apart

\* GenerateXMLTV: a channel for every station, a programme for every airing with details.
generateProgrammes(s) == {a \in s.airings : a[2] \in s.programs}
generateChannels(s) == ToSet(s.stations)

-----------------------------------------------------------------------------
Dies ==
  /\ sd' = [f \in SDSessions |-> NoSession] /\ tokenLock' = Unlocked
  /\ SDFault
  /\ UNCHANGED <<hour, tokenRows, logins, rowsLost>>

\* make() panics and takes the process with it.
DatesPanic(f) == SDMayFault /\ sd[f].pc = "dates" /\ lookahead(UserOf[f]) > MaxDates /\ Dies
SDRestarts == SDMayFault /\ (\E f \in SDSessions : sd[f].pc \notin {"idle", "done"}) /\ Dies

\* A login takes at most SDLoginTimeout: no such unit of time passes while one is under way.
HourPasses ==
  /\ hour < LastHour /\ tokenLock = Unlocked
  /\ hour' = hour + 1
  /\ UNCHANGED <<tokenRows, tokenLock, sd, logins, rowsLost, sdBounds>>

SDNext ==
  \/ \E f \in SDSessions :
       \/ BeginSession(f) \/ LoadTokenCache(f) \/ UseToken(f) \/ FirstLogin(f) \/ Refresh(f)
       \/ SendLogin(f) \/ doLogin(f) \/ LoginRefused(f)
       \/ CheckStatus(f) \/ FetchFails(f) \/ FetchLineups(f) \/ FetchStations(f) \/ MakeDates(f)
       \/ FetchSchedules(f) \/ SchedulesFail(f) \/ SchedulesDone(f) \/ FetchPrograms(f) \/ DatesPanic(f)
  \/ SDRestarts \/ HourPasses

SDSpec == SDInit /\ [][SDNext]_sdVars

-----------------------------------------------------------------------------
(* Properties.                                                             *)

SDTypeOK ==
  /\ hour \in 0..LastHour /\ tokenLock \in SDSessions \cup {Unlocked} /\ rowsLost \in BOOLEAN
  /\ \A u \in Subscribers :
       tokenRows[u] # NoToken => tokenRows[u] \in [obtained : 0..hour, attempt : 0..hour]
                                 /\ tokenRows[u].obtained <= tokenRows[u].attempt
  /\ \A f \in SDSessions :
       /\ sd[f].pc \in {"idle", "lock", "decide", "login", "answer", "status", "lineups", "stations",
                        "dates", "schedules", "programs", "done"}
       /\ sd[f].pc \in {"decide", "login", "answer"} <=> tokenLock = f
       /\ Len(sd[f].asked) <= Len(sd[f].stations) /\ sd[f].programs \subseteq Detailed

\* An account that has a token is not logged in again within the threshold of the last
\* attempt, whoever asks and whatever dies in between, as long as the table can be read and
\* written ("write attempt timestamp to disk BEFORE the API call", auth.go).
Spaced(u, i) == logins[u][i + 1].at - logins[u][i].at >= SDRefreshThreshold
LoginsAreSpaced ==
  ~rowsLost => \A u \in Subscribers : \A i \in 1..(Len(logins[u]) - 1) : ~logins[u][i + 1].first => Spaced(u, i)

\* What is fetched is the selection's, and every station of it and every programme of their
\* schedules was asked for exactly once, however they fall into batches.
EverythingAsked ==
  \A f \in SDSessions \ Discoverers : sd[f].pc = "done" =>
    /\ ~sd[f].unscheduled => sd[f].asked = sd[f].stations
    /\ sd[f].detailed = sd[f].ids
    /\ generateProgrammes(sd[f]) = {a \in sd[f].airings : a[2] \in Detailed}

\* An account with a selection gives nothing of its other lineups.
SelectedOnly ==
  \A f \in SDSessions \ Discoverers : sd[f].pc = "done" /\ SelectedLineups[UserOf[f]] # {} =>
    /\ generateChannels(sd[f]) \subseteq UNION {Stations[l] : l \in SelectedLineups[UserOf[f]]}
    /\ {a[1] : a \in generateProgrammes(sd[f])} \subseteq generateChannels(sd[f])

\* Not so in the code.  No account is logged in twice within the threshold.
LoginsAlwaysSpaced ==
  ~rowsLost => \A u \in Subscribers : \A i \in 1..(Len(logins[u]) - 1) : Spaced(u, i)

\* Not so in the code.  An account that was fetched has its schedules.
FetchedIsScheduled == \A f \in SDSessions : sd[f].pc = "done" => ~sd[f].unscheduled

\* Not so in the code.  The lookahead is a number of days a list can be made of.
LookaheadIsDays == \A f \in SDSessions : sd[f].pc = "dates" => lookahead(UserOf[f]) <= MaxDates

\* Not so in the code.  An account's login leaves the others their tokens.
TokensSurvive ==
  [][\A u \in Subscribers : tokenRows[u] # NoToken => tokenRows'[u] # NoToken]_sdVars

\* An account is fetched within the service's rules and completely: logins keep their
\* distance through crashes, every station and programme is asked for in batches, and
\* only selected lineups are given (auth.go, fetch.go).
AccountInv == SDTypeOK /\ LoginsAreSpaced /\ EverythingAsked /\ SelectedOnly

-----------------------------------------------------------------------------
(***************************************************************************)
(* Why AccountInv holds.                                                   *)
(***************************************************************************)
TokenEntries == {e \in [obtained : 0..hour, attempt : 0..hour] : e.obtained <= e.attempt}
TokenCaches == [Subscribers -> TokenEntries \cup {NoToken}]

\* The table and every copy of it hold what logins have put there.
TokensInv ==
  /\ tokenRows \in TokenCaches
  /\ logins \in [Subscribers -> Seq([at : 0..hour, first : BOOLEAN])]
  /\ DOMAIN sd = SDSessions
  /\ \A f \in SDSessions : DOMAIN sd[f] = DOMAIN NoSession /\ sd[f].cache \in TokenCaches

\* As long as the table can be read and written, a stored entry knows of every login of
\* its account, and who has the lock works on the table as it is; the one who is about to
\* log in has noted it, and found the last attempt a threshold ago.
ThrottleInv == ~rowsLost =>
  /\ \A u \in Subscribers : tokenRows[u] # NoToken =>
       \A i \in DOMAIN logins[u] : logins[u][i].at <= tokenRows[u].attempt
  /\ \A f \in SDSessions : LET entry == sd[f].cache[UserOf[f]] IN
       /\ sd[f].pc \in {"decide", "login", "answer"} => sd[f].cache = tokenRows
       /\ sd[f].pc \in {"login", "answer"} /\ entry # NoToken => entry.attempt = hour
       /\ sd[f].pc = "login" /\ entry # NoToken =>
            \A i \in DOMAIN logins[UserOf[f]] : hour - logins[UserOf[f]][i].at >= SDRefreshThreshold

\* What a session has asked for is the beginning of what it has to ask for, and nothing
\* it has not got to is filled in yet.
Walked(f) == LET s == sd[f] IN
  /\ s.lineups \subseteq fetchLineups(UserOf[f])
  /\ s.stations \in Seq(UNION {Stations[l] : l \in s.lineups}) /\ s.ids \in Seq({a[2] : a \in s.airings})
  /\ s.asked \in Seq(ToSet(s.stations)) /\ IsPrefix(s.asked, s.stations)
  /\ s.detailed \in Seq(ToSet(s.ids)) /\ IsPrefix(s.detailed, s.ids)
  /\ s.programs = ToSet(s.detailed) \cap Detailed
  /\ s.airings \subseteq UNION {{st} \X Airings[st] : st \in ToSet(s.stations)} /\ IsFiniteSet(s.airings)
  /\ s.unscheduled \in BOOLEAN
  /\ s.pc \notin {"dates", "schedules", "programs", "done"} => s.stations = <<>>
  /\ s.pc \notin {"schedules", "programs", "done"} => s.asked = <<>> /\ s.airings = {}
  /\ s.pc \notin {"programs", "done"} => s.ids = <<>> /\ s.detailed = <<>> /\ ~s.unscheduled
  /\ s.pc \in {"programs", "done"} =>
       IF s.unscheduled THEN s.airings = {} ELSE s.asked = s.stations /\ ToSet(s.ids) = {a[2] : a \in s.airings}
  /\ s.pc = "done" => s.detailed = s.ids
WalkInv == \A f \in SDSessions : Walked(f)

AccountIInv == SDTypeOK /\ TokensInv /\ ThrottleInv /\ WalkInv /\ LoginsAreSpaced
================================================================================
