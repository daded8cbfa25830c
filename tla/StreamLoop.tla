----------------------------- MODULE StreamLoop -----------------------------
(***************************************************************************)
(* Which source Restream.Stream plays (restream/restream.go): the rotation *)
(* through channel.Streams, the attempt and failure counts, auto-blocking  *)
(* (stream/stream.go HandleStreamFailure), the offline clip when every     *)
(* attempt is used up, and the actors that change the list or the index    *)
(* meanwhile: the operator (admin/channels.go, admin/streams.go), the      *)
(* watcher's failover and a client that arrives on a dead stream           *)
(* (proxy/stream.go HandleRestreamingClient).                              *)
(*                                                                         *)
(* One Stream goroutine and one client: races between goroutines and the   *)
(* life of contexts are the subject of Restreamer.  A context is here two  *)
(* flags: done, the installed one is cancelled; cut, the one the goroutine *)
(* last captured (for a request or a wait) is.  Bytes, variants and the    *)
(* connection limit are abstracted to how an attempt ends; a stream that   *)
(* is up connects and plays until something ends it.                       *)
(***************************************************************************)
EXTENDS Integers, Sequences, FiniteSets

CONSTANTS
  Hashes,       \* URL hashes of the channel's streams
  Direct,       \* those played from one response rather than as HLS segments
  NoHash,       \* no stream has been taken from the list yet
  Multiplier,   \* StreamMaxAttemptsMultiplier
  Threshold,    \* StreamConsecutiveFailureThreshold
  MaxFailures,  \* the source's MaxFailuresBeforeBlock
  Kinds,        \* the interventions that take part, see AllKinds
  MaxActs       \* bound: interventions

ASSUME HashAssumption  == IsFiniteSet(Hashes) /\ Hashes # {} /\ Direct \subseteq Hashes /\ NoHash \notin Hashes
ASSUME LimitAssumption == {Multiplier, Threshold, MaxFailures} \subseteq Nat \ {0}
AllKinds == {"leave", "select", "reorder", "kill", "fail over", "outage"}
ASSUME BoundAssumption == MaxActs \in Nat /\ Kinds \subseteq AllKinds

VARIABLES
  order,      \* channel.Streams
  pref,       \* channel.PreferredStreamIndex
  cur,        \* r.CurrentIndex
  manual,     \* r.ManualSwitch
  switching,  \* r.Switching
  client,     \* ClientCount > 0
  done, cut,  \* the installed and the captured context are cancelled
  pc,         \* where Stream is; "idle" is Running unset
  idx,        \* its local currentIdx
  taken,      \* StreamFromSource's local stream
  result,     \* what the attempt returned: failure, brief or real success
  wasManual,  \* its local wasManualSwitch
  attempts,   \* its local totalAttempts
  consec,     \* its local consecutiveFailures, up to Threshold
  failures,   \* stream.Failures, up to MaxFailures
  blocked,    \* the streams with Blocked set
  dead,       \* the streams with a dead override
  up,         \* the streams whose source works
  op,         \* where the operator's ForceStreamSwitch is
  target,     \* its argument
  locked,     \* it runs under channel.Mu
  watch,      \* where the watcher's forceStreamRestart is
  stop,       \* where stopStream is
  spent,      \* interventions so far
  tried,      \* history: indexes attempted since the counters were last reset
  moved,      \* history: somebody else wrote CurrentIndex since then
  chosen,     \* history: index a switch set while the present attempt played, or -1
  sorted,     \* history: the list has been sorted anew
  faults      \* history: attempts of each stream that failed other than by an operator's switch

listVars  == <<order, pref, cur>>
flagVars  == <<manual, switching, client, done, cut>>
localVars == <<pc, idx, taken, result, wasManual, attempts, consec>>
deadVars  == <<failures, blocked, dead, up>>
actorVars == <<op, target, locked, watch, stop, spent>>
histVars  == <<tried, moved, chosen, sorted, faults>>
vars == <<listVars, flagVars, localVars, deadVars, actorVars, histVars>>

Count    == Len(order)
Indexes  == 0 .. Cardinality(Hashes) - 1
At(i)    == order[i + 1]
Running  == pc # "idle"
Capped(n, top) == IF n < top THEN n ELSE top
NoneFailed == [i \in Indexes |-> 0]
Usable(h)  == h \notin dead /\ h \notin blocked
Spend(kind) == kind \in Kinds /\ spent < MaxActs /\ spent' = spent + 1

\* Where Stream starts: the preferred index if it exists, else the first stream.
StartIndex == IF pref \in 0 .. Count - 1 THEN pref ELSE 0

Init ==
  /\ order \in {s \in [1 .. Cardinality(Hashes) -> Hashes] : \A i, j \in DOMAIN s : s[i] = s[j] => i = j}
  /\ pref = 0 /\ cur = 0
  /\ manual = FALSE /\ switching = FALSE /\ client = FALSE /\ done = FALSE /\ cut = FALSE
  /\ pc = "idle" /\ idx = 0 /\ taken = NoHash /\ result = "fail" /\ wasManual = FALSE
  /\ attempts = 0 /\ consec = NoneFailed
  /\ failures = [h \in Hashes |-> 0] /\ blocked = {} /\ dead = {}
  /\ up \in SUBSET Hashes
  /\ op = "idle" /\ target = 0 /\ locked = FALSE /\ watch = "idle" /\ stop = "idle"
  /\ spent = 0
  /\ tried = {} /\ moved = FALSE /\ chosen = -1 /\ sorted = FALSE /\ faults = [h \in Hashes |-> 0]

-----------------------------------------------------------------------------
(* The Stream goroutine *)

Goto(l) == pc' = l
Forget  == /\ attempts' = 0 /\ consec' = NoneFailed
           /\ tried' = {} /\ moved' = FALSE

\* Entry of Stream, also when the offline clip gave way to a nested call.
Begin ==
  /\ Goto("top")
  /\ cur' = StartIndex
  /\ Forget

\* Stream returns; restartWithExistingLogic then clears Switching as well.
Leave ==
  /\ Goto("idle")
  /\ switching' = IF watch = "streaming" THEN FALSE ELSE switching
  /\ watch' = IF watch = "streaming" THEN "idle" ELSE watch

\* Head of the loop: attempts left, the context, the clients, the next index.
Top ==
  /\ pc = "top"
  /\ \/ /\ attempts >= Count * Multiplier
        /\ Goto("exhausted")
        /\ UNCHANGED <<manual, switching, watch, idx, attempts, tried, chosen>>
     \/ /\ attempts < Count * Multiplier /\ (done \/ ~client)
        /\ Leave
        /\ manual' = IF done THEN FALSE ELSE manual
        /\ UNCHANGED <<idx, attempts, tried, chosen>>
     \/ /\ attempts < Count * Multiplier /\ ~done /\ client
        /\ Goto("enter")
        /\ idx' = cur /\ attempts' = attempts + 1
        /\ tried' = tried \cup {cur} /\ chosen' = -1
        /\ UNCHANGED <<manual, switching, watch>>
  /\ UNCHANGED <<listVars, client, done, cut, taken, result, wasManual, consec,
                 deadVars, op, target, locked, stop, spent, moved, sorted, faults>>

\* StreamFromSource takes the stream under channel.Mu and skips dead and blocked ones.
Enter ==
  /\ pc = "enter" /\ ~locked
  /\ taken' = At(idx)
  /\ IF Usable(At(idx))
       THEN /\ Goto("connect")
            /\ UNCHANGED <<result, faults>>
       ELSE /\ Goto("ended") /\ result' = "fail"
            /\ faults' = [faults EXCEPT ![At(idx)] = Capped(@ + 1, MaxFailures)]
  /\ UNCHANGED <<listVars, flagVars, idx, wasManual, attempts, consec,
                 deadVars, actorVars, tried, moved, chosen, sorted>>

Ended(r) == /\ Goto("ended") /\ result' = r
            /\ faults' = IF r # "good" /\ (chosen = -1 \/ switching)
                       THEN [faults EXCEPT ![taken] = Capped(@ + 1, MaxFailures)] ELSE faults

\* getStreamVariants, and testAndStreamVariant for the variants of a master
\* playlist: a response worth playing, under the installed context.
Answers == taken \in up /\ ~done

\* shouldCheckForMasterPlaylist and sniffAndStreamResponse: the response is
\* played to its end, or is a playlist whose segments are.
OneResponse(h) == h \in Direct

\* The request is made under the installed context.
Connect ==
  /\ pc = "connect"
  /\ cut' = done
  /\ IF Answers
       THEN Goto("playing") /\ UNCHANGED <<result, faults>>
       ELSE /\ Goto("ended") /\ result' \in IF done THEN {"fail"} ELSE {"fail", "brief"}
            /\ faults' = [faults EXCEPT ![taken] = Capped(@ + 1, MaxFailures)]
  /\ UNCHANGED <<listVars, manual, switching, client, done, idx, taken, wasManual, attempts, consec,
                 deadVars, actorVars, tried, moved, chosen, sorted>>

\* The source closes the response after much or little data.
PlayEnds ==
  /\ pc = "playing" /\ ~cut
  /\ \/ taken \in up /\ Ended("good")
     \/ taken \notin up /\ (Ended("brief") \/ Ended("fail"))
  /\ UNCHANGED <<listVars, flagVars, idx, taken, wasManual, attempts, consec,
                 deadVars, actorVars, tried, moved, chosen, sorted>>

\* The captured context is cancelled: what the attempt counts for depends on
\* the context and the flag found at that moment.
PlayCut ==
  /\ pc = "playing" /\ cut
  /\ \/ done /\ Ended("good")
     \/ done /\ manual /\ OneResponse(taken) /\ Ended("brief")
     \/ ~(done /\ manual /\ OneResponse(taken)) /\ Ended("fail")
  /\ UNCHANGED <<listVars, flagVars, idx, taken, wasManual, attempts, consec,
                 deadVars, actorVars, tried, moved, chosen, sorted>>

\* Segments are requested under the context installed at the time: a cancelled
\* one costs a segment, and the loop goes on if another is in its place.
PlaySurvives ==
  /\ pc = "playing" /\ cut /\ ~done /\ ~OneResponse(taken)
  /\ cut' = FALSE
  /\ UNCHANGED <<listVars, manual, switching, client, done, localVars, deadVars, actorVars, histVars>>

\* No client took the chunk.
PlayAlone ==
  /\ pc = "playing" /\ ~client
  /\ Ended("good") \/ Ended("fail")
  /\ UNCHANGED <<listVars, flagVars, idx, taken, wasManual, attempts, consec,
                 deadVars, actorVars, tried, moved, chosen, sorted>>

\* Fault: only the flag on the stream is looked at, not the override.
PlayDeadBlocked ==
  /\ pc = "playing" /\ ~locked /\ OneResponse(taken)
  /\ At(cur) \in blocked
  /\ Ended("fail")
  /\ UNCHANGED <<listVars, flagVars, idx, taken, wasManual, attempts, consec,
                 deadVars, actorVars, tried, moved, chosen, sorted>>

\* A direct stream looks now and then whether the stream at CurrentIndex has died.
PlayDead ==
  /\ pc = "playing" /\ ~locked /\ OneResponse(taken)
  /\ At(cur) \in dead
  /\ Ended("fail")
  /\ UNCHANGED <<listVars, flagVars, idx, taken, wasManual, attempts, consec,
                 deadVars, actorVars, tried, moved, chosen, sorted>>

\* ManualSwitch is read ...
Judge ==
  /\ pc = "ended"
  /\ wasManual' = manual
  /\ Goto("judged")
  /\ UNCHANGED <<listVars, flagVars, idx, taken, result, attempts, consec, deadVars, actorVars, histVars>>

\* ... and cleared; a brief success counts against the stream.
Clear ==
  /\ pc = "judged"
  /\ manual' = FALSE
  /\ CASE result = "good"  -> Goto("succeeded") /\ consec' = [consec EXCEPT ![idx] = 0]
       [] result = "brief" -> Goto("failed") /\ consec' = [consec EXCEPT ![idx] = Capped(@ + 1, Threshold)]
       [] result = "fail"  -> Goto("failed") /\ UNCHANGED consec
  /\ UNCHANGED <<listVars, switching, client, done, cut, idx, taken, result, wasManual, attempts,
                 deadVars, actorVars, histVars>>

\* A real success: give way to the watcher, resume at the index as it is now, or end.
Succeeded ==
  /\ pc = "succeeded"
  /\ \/ /\ wasManual /\ manual' = FALSE
        /\ \/ switching /\ Leave /\ UNCHANGED <<attempts, consec, tried, moved>>
           \/ ~switching /\ Goto("top") /\ Forget /\ UNCHANGED <<switching, watch>>
     \/ /\ ~wasManual /\ done /\ manual /\ manual' = FALSE
        /\ \/ Leave
           \/ Goto("top") /\ UNCHANGED <<switching, watch>>
        /\ UNCHANGED <<attempts, consec, tried, moved>>
     \/ /\ ~wasManual /\ ~(done /\ manual) /\ UNCHANGED manual
        /\ \/ ~client /\ Leave /\ UNCHANGED <<attempts, consec, tried, moved>>
           \/ client /\ Goto("top") /\ Forget /\ UNCHANGED <<switching, watch>>
  /\ UNCHANGED <<listVars, client, done, cut, idx, taken, result, wasManual,
                 deadVars, op, target, locked, stop, spent, chosen, sorted, faults>>

\* HandleStreamFailure for a stream: count, and block it at the limit.
HandleStreamFailure(h) ==
  /\ failures' = [failures EXCEPT ![h] = Capped(@ + 1, MaxFailures)]
  /\ IF failures'[h] >= MaxFailures
       THEN blocked' = blocked \cup {h} /\ dead' = dead \cup {h}
       ELSE UNCHANGED <<blocked, dead>>

\* Fault: the failure is recorded before the operator's switch is noticed.
FailedChargesFirst ==
  /\ pc = "failed"
  /\ HandleStreamFailure(At(idx))
  /\ IF wasManual /\ ~switching
       THEN Goto("top") /\ Forget
       ELSE Goto("rotate") /\ UNCHANGED <<attempts, consec, tried, moved>>
  /\ UNCHANGED <<listVars, flagVars, idx, taken, result, wasManual, up, actorVars, chosen, sorted, faults>>

\* Fault: an operator's switch is not told from a failure.
FailedRotates ==
  /\ pc = "failed"
  /\ consec' = [consec EXCEPT ![idx] = Capped(@ + 1, Threshold)]
  /\ Goto("charge") /\ UNCHANGED <<attempts, tried, moved>>
  /\ UNCHANGED <<listVars, flagVars, idx, taken, result, wasManual, deadVars, actorVars, chosen, sorted, faults>>

\* An operator's switch is no failure: resume at the chosen index.
Failed ==
  /\ pc = "failed"
  /\ IF wasManual /\ ~switching
       THEN Goto("top") /\ Forget
       ELSE /\ consec' = [consec EXCEPT ![idx] = Capped(@ + 1, Threshold)]
            /\ Goto("charge") /\ UNCHANGED <<attempts, tried, moved>>
  /\ UNCHANGED <<listVars, flagVars, idx, taken, result, wasManual, deadVars, actorVars, chosen, sorted, faults>>

\* Enough failures in a row: charged to the stream that is at the index by now.
Charge ==
  /\ pc = "charge"
  /\ IF consec[idx] >= Threshold
       THEN ~locked /\ HandleStreamFailure(At(idx))
       ELSE UNCHANGED <<failures, blocked, dead>>
  /\ Goto("rotate")
  /\ UNCHANGED <<listVars, flagVars, idx, taken, result, wasManual, attempts, consec, up,
                 actorVars, histVars>>

\* Fault: the rotation leaves out the first stream.
RotateShort ==
  /\ pc = "rotate"
  /\ cur' = IF Count > 1 /\ idx + 1 < Count THEN idx + 1 ELSE idx
  /\ cut' = done
  /\ Goto("retry")
  /\ UNCHANGED <<order, pref, manual, switching, client, done, idx, taken, result, wasManual,
                 attempts, consec, deadVars, actorVars, histVars>>

\* Fault: no wrap-around.
RotatePast ==
  /\ pc = "rotate"
  /\ cur' = idx + 1
  /\ cut' = done
  /\ Goto("retry")
  /\ UNCHANGED <<order, pref, manual, switching, client, done, idx, taken, result, wasManual,
                 attempts, consec, deadVars, actorVars, histVars>>

\* The next stream, then a short wait under the installed context.
Rotate ==
  /\ pc = "rotate"
  /\ cur' = IF Count > 1 THEN (idx + 1) % Count ELSE cur
  /\ cut' = done
  /\ Goto("retry")
  /\ UNCHANGED <<order, pref, manual, switching, client, done, idx, taken, result, wasManual,
                 attempts, consec, deadVars, actorVars, histVars>>

Retry ==
  /\ pc = "retry"
  /\ \/ Goto("top") /\ UNCHANGED <<manual, switching, watch>>
     \/ cut /\ manual /\ client /\ manual' = FALSE /\ Goto("top") /\ UNCHANGED <<switching, watch>>
     \/ cut /\ ~(manual /\ client) /\ Leave /\ UNCHANGED manual
  /\ UNCHANGED <<listVars, client, done, cut, idx, taken, result, wasManual, attempts, consec,
                 deadVars, op, target, locked, stop, spent, histVars>>

\* All attempts used up: the offline clip, if anybody watches.
Exhausted ==
  /\ pc = "exhausted"
  /\ \/ client /\ Goto("fallback") /\ cut' = done /\ UNCHANGED <<switching, watch>>
     \/ ~client /\ Leave /\ UNCHANGED cut
  /\ UNCHANGED <<listVars, manual, client, done, idx, taken, result, wasManual, attempts, consec,
                 deadVars, op, target, locked, stop, spent, histVars>>

\* streamFallbackVideo loops until its context is cancelled or nobody watches;
\* Stream then begins anew if a client is left and the installed context lives.
Fallback ==
  /\ pc = "fallback"
  /\ cut \/ ~client
  /\ \/ client /\ ~done /\ Begin /\ UNCHANGED <<switching, watch>>
     \/ ~(client /\ ~done) /\ Leave /\ UNCHANGED <<cur, attempts, consec, tried, moved>>
  /\ UNCHANGED <<order, pref, manual, client, done, cut, idx, taken, result, wasManual,
                 deadVars, op, target, locked, stop, spent, chosen, sorted, faults>>

\* Everything the goroutine does of its own accord.
Proceed ==
  \/ Top \/ Enter \/ Connect \/ PlayCut \/ PlaySurvives \/ PlayAlone \/ PlayDead \/ Judge \/ Clear
  \/ Succeeded \/ Failed \/ Charge \/ Rotate \/ Retry \/ Exhausted \/ Fallback

Stream == Proceed \/ PlayEnds

-----------------------------------------------------------------------------
(* Clients *)

\* HandleRestreamingClient on a channel that is not running: the preferred index
\* moves past streams that cannot be used, and AddClient starts Stream.
Join ==
  /\ ~client /\ ~Running /\ op = "idle" /\ watch = "idle" /\ stop = "idle"
  /\ \/ /\ \A i \in 0 .. Count - 1 : ~Usable(At((pref + i) % Count))
        /\ pref' = pref
     \/ \E i \in 0 .. Count - 1 :
          /\ Usable(At((pref + i) % Count))
          /\ \A j \in 0 .. i - 1 : ~Usable(At((pref + j) % Count))
          /\ pref' = (pref + i) % Count
  /\ client' = TRUE
  /\ Goto("top")
  /\ cur' = IF pref' \in 0 .. Count - 1 THEN pref' ELSE 0
  /\ Forget /\ chosen' = -1
  /\ UNCHANGED <<order, manual, switching, done, cut, idx, taken, result, wasManual,
                 deadVars, actorVars, sorted, faults>>

\* HandleRestreamingClient while a dead stream plays: switch to the next usable one.
JoinOnDead ==
  /\ client /\ Running /\ op = "idle" /\ At(cur) \in dead
  /\ Spend("kill")
  /\ \E i \in 1 .. Count - 1 :
       /\ Usable(At((cur + i) % Count))
       /\ \A j \in 1 .. i - 1 : ~Usable(At((cur + j) % Count))
       /\ target' = (cur + i) % Count
  /\ op' = "flag" /\ locked' = FALSE
  /\ UNCHANGED <<listVars, flagVars, localVars, deadVars, watch, stop, histVars>>

\* The last client leaves; stopStream follows unless a switch is under way.
ClientLeaves ==
  /\ client /\ stop = "idle"
  /\ Spend("leave")
  /\ client' = FALSE
  /\ stop' = IF switching THEN "idle" ELSE "cancel"
  /\ UNCHANGED <<listVars, manual, switching, done, cut, localVars, deadVars, op, target, locked, watch, histVars>>

StopCancel ==
  /\ stop = "cancel"
  /\ done' = TRUE /\ cut' = TRUE /\ stop' = "renew"
  /\ UNCHANGED <<listVars, manual, switching, client, localVars, deadVars, op, target, locked, watch, spent, histVars>>

StopRenew ==
  /\ stop = "renew"
  /\ done' = FALSE /\ stop' = "idle"
  /\ UNCHANGED <<listVars, manual, switching, client, cut, localVars, deadVars, op, target, locked, watch, spent, histVars>>

-----------------------------------------------------------------------------
(* Operators *)

\* handleSetChannelStream: under channel.Mu until the switch is made.
SetChannelStream(i) ==
  /\ op = "idle" /\ i \in 0 .. Count - 1
  /\ Spend("select")
  /\ pref' = i
  /\ IF Running /\ client
       THEN op' = "flag" /\ target' = i /\ locked' = TRUE /\ UNCHANGED cur
       ELSE /\ cur' = IF Running THEN i ELSE cur
            /\ UNCHANGED <<op, target, locked>>
  /\ moved' = (moved \/ Running)
  /\ UNCHANGED <<order, flagVars, localVars, deadVars, watch, stop, tried, chosen, sorted, faults>>

\* handleSetChannelOrder, handleResetChannelOrder: applyChannelOrder sorts the
\* list in place and sends a running channel to its first stream.
Reorder(s) ==
  /\ op = "idle" /\ s # order
  /\ Spend("reorder")
  /\ order' = s /\ pref' = 0 /\ sorted' = TRUE
  /\ IF Running THEN op' = "flag" /\ target' = 0 /\ locked' = TRUE
                ELSE UNCHANGED <<op, target, locked>>
  /\ UNCHANGED <<cur, flagVars, localVars, deadVars, watch, stop, tried, moved, chosen, faults>>

\* ForceStreamSwitch: the flag, the two indexes, then the contexts.
ForceFlag ==
  /\ op = "flag"
  /\ manual' = TRUE /\ op' = "index"
  /\ UNCHANGED <<listVars, switching, client, done, cut, localVars, deadVars, target, locked, watch, stop, spent,
                 histVars>>

ForceIndex ==
  /\ op = "index"
  /\ pref' = target /\ cur' = target /\ moved' = TRUE
  /\ chosen' = IF chosen # -1 \/ (pc = "playing" /\ manual /\ ~switching) THEN target ELSE -1
  /\ IF Running THEN op' = "context" /\ UNCHANGED locked
                ELSE op' = "idle" /\ locked' = FALSE
  /\ UNCHANGED <<order, flagVars, localVars, deadVars, target, watch, stop, spent, tried, sorted, faults>>

\* Fault: the new context is installed and the old one forgotten.
ForceContextKeeps ==
  /\ op = "context"
  /\ done' = FALSE
  /\ op' = "idle" /\ locked' = FALSE
  /\ UNCHANGED <<listVars, manual, switching, client, cut, localVars, deadVars, target, watch, stop, spent, histVars>>

ForceContext ==
  /\ op = "context"
  /\ done' = FALSE /\ cut' = TRUE
  /\ op' = "idle" /\ locked' = FALSE
  /\ UNCHANGED <<listVars, manual, switching, client, localVars, deadVars, target, watch, stop, spent, histVars>>

\* handleKillStream and handleReviveStream; reviving clears the override only.
KillStream(h) ==
  /\ ~locked /\ h \notin dead
  /\ Spend("kill")
  /\ dead' = dead \cup {h}
  /\ UNCHANGED <<listVars, flagVars, localVars, failures, blocked, up, op, target, locked, watch, stop, histVars>>

ReviveStream(h) ==
  /\ ~locked /\ h \in dead
  /\ Spend("kill")
  /\ dead' = dead \ {h}
  /\ UNCHANGED <<listVars, flagVars, localVars, failures, blocked, up, op, target, locked, watch, stop, histVars>>

-----------------------------------------------------------------------------
(* The watcher's failover *)

\* An attempt that an operator's switch ended, and that is not yet judged.
SpareAttempt == pc \in {"ended", "judged", "failed"} /\ result # "good" /\ chosen # -1 /\ ~switching

\* findNextAvailableStream, triggerStreamSwitch and the start of forceStreamRestart: the
\* watcher gives the stream up, and an attempt just ended is a failure after all.
WatchSwitch ==
  /\ watch = "idle" /\ client /\ Running /\ ~locked
  /\ Spend("fail over")
  /\ \E i \in 1 .. Count - 1 :
       /\ Usable(At((cur + i) % Count))
       /\ \A j \in 1 .. i - 1 : ~Usable(At((cur + j) % Count))
       /\ pref' = (cur + i) % Count /\ cur' = (cur + i) % Count
  /\ switching' = TRUE /\ watch' = "flag" /\ moved' = TRUE /\ chosen' = -1
  /\ faults' = IF SpareAttempt THEN [faults EXCEPT ![taken] = Capped(@ + 1, MaxFailures)] ELSE faults
  /\ UNCHANGED <<order, manual, client, done, cut, localVars, deadVars, op, target, locked, stop, tried, sorted>>

WatchFlag ==
  /\ watch = "flag"
  /\ manual' = TRUE /\ watch' = "cancel"
  /\ UNCHANGED <<listVars, switching, client, done, cut, localVars, deadVars, op, target, locked, stop, spent, histVars>>

\* Until Running is cleared, whatever context is installed is cancelled.
WatchCancel ==
  /\ watch = "cancel" /\ Running /\ ~(done /\ cut)
  /\ done' = TRUE /\ cut' = TRUE
  /\ UNCHANGED <<listVars, manual, switching, client, localVars, deadVars, actorVars, histVars>>

\* A fresh context and a Stream goroutine inside restartWithExistingLogic.
WatchRestart ==
  /\ watch = "cancel" /\ ~Running
  /\ done' = FALSE /\ watch' = "streaming"
  /\ Begin /\ chosen' = -1
  /\ UNCHANGED <<order, pref, manual, switching, client, cut, idx, taken, result, wasManual,
                 deadVars, op, target, locked, stop, spent, sorted, faults>>

-----------------------------------------------------------------------------
(* Sources *)

Outage(h) ==
  /\ h \in up /\ Spend("outage")
  /\ up' = up \ {h}
  /\ UNCHANGED <<listVars, flagVars, localVars, failures, blocked, dead, op, target, locked, watch, stop, histVars>>

Recovery(h) ==
  /\ h \notin up /\ Spend("outage")
  /\ up' = up \cup {h}
  /\ UNCHANGED <<listVars, flagVars, localVars, failures, blocked, dead, op, target, locked, watch, stop, histVars>>

Orders == {s \in [1 .. Cardinality(Hashes) -> Hashes] : \A i, j \in DOMAIN s : s[i] = s[j] => i = j}

Actors ==
  \/ Join \/ JoinOnDead \/ ClientLeaves \/ StopCancel \/ StopRenew
  \/ \E i \in Indexes : SetChannelStream(i)
  \/ \E s \in Orders : Reorder(s)
  \/ ForceFlag \/ ForceIndex \/ ForceContext
  \/ \E h \in Hashes : KillStream(h) \/ ReviveStream(h) \/ Outage(h) \/ Recovery(h)
  \/ WatchSwitch \/ WatchFlag \/ WatchCancel \/ WatchRestart

Next == Stream \/ Actors

Spec == Init /\ [][Next]_vars

\* The goroutine and everything that has begun go on; nobody has to begin.
FairSpec ==
  /\ Spec
  /\ WF_vars(Proceed) /\ WF_vars(PlayDead)
  /\ WF_vars(StopCancel \/ StopRenew) /\ WF_vars(ForceFlag \/ ForceIndex \/ ForceContext)
  /\ WF_vars(WatchFlag \/ WatchCancel \/ WatchRestart)

-----------------------------------------------------------------------------
LoopTypeOK ==
  /\ order \in Orders /\ pref \in Indexes /\ cur \in Indexes /\ idx \in Indexes
  /\ {manual, switching, client, done, cut, wasManual, locked, moved, sorted} \subseteq BOOLEAN
  /\ pc \in {"idle", "top", "enter", "connect", "playing", "ended", "judged", "succeeded",
             "failed", "charge", "rotate", "retry", "exhausted", "fallback"}
  /\ taken \in Hashes \cup {NoHash} /\ result \in {"fail", "brief", "good"}
  /\ attempts \in 0 .. Cardinality(Hashes) * Multiplier
  /\ consec \in [Indexes -> 0 .. Threshold]
  /\ failures \in [Hashes -> 0 .. MaxFailures] /\ faults \in [Hashes -> 0 .. MaxFailures]
  /\ blocked \subseteq Hashes /\ dead \subseteq Hashes /\ up \subseteq Hashes
  /\ op \in {"idle", "flag", "index", "context"} /\ target \in Indexes
  /\ watch \in {"idle", "flag", "cancel", "streaming"} /\ stop \in {"idle", "cancel", "renew"}
  /\ tried \subseteq Indexes /\ chosen \in Indexes \cup {-1}

\* Clients see the offline clip only after every stream of the channel has been
\* attempted since the counters were reset, unless somebody moved the index
\* (restream.go Stream: rotation against maxTotalAttempts).
FallbackAfterAll ==
  pc = "fallback" => moved \/ tried = Indexes

\* "Honor the operator's choice" (restream.go 438): when ForceStreamSwitch has set its
\* flag and the index before the stream that plays comes to its end, the next attempt is
\* at that index, whatever ends the stream, unless the watcher gives the channel up.
ChoiceHonoured ==
  [][Top /\ pc' = "enter" /\ chosen # -1 => idx' = chosen]_vars

\* Violated: the same without the condition on when the two were set: the rotation moves
\* on from the index it attempted and never writes over one that somebody set since.
RotatesFromOwn ==
  [][Rotate => cur = idx]_vars

\* Violated: "Stream() resume into it" (restream.go 1216): once a switch is made, no
\* stream other than the one at CurrentIndex goes on playing.
PlaysTheSelected ==
  LET other == pc = "playing" /\ taken \in Direct /\ cur # idx /\ op = "idle" /\ watch = "idle"
  IN  other ~> ~other

\* "don't rotate or penalize" (restream.go 439): a stream is charged for no more than its
\* faults, and an attempt that ends after an operator's switch has set its flag and the
\* index is none.  One that ends between the two counts as a fault.
\* (A change of the order is left out here, see BlameIsRight.)
ChargedForFaults ==
  ~sorted => \A h \in Hashes : failures[h] <= faults[h]

\* Violated: "Record the failure" (restream.go 466) is about the stream that failed,
\* also when the list is sorted anew between the attempt and the record.
BlameIsRight ==
  \A h \in Hashes : failures[h] <= faults[h]

\* A stream that is marked dead while it plays from one response comes to its
\* end, unless it is revived or CurrentIndex names another stream by then
\* (restream.go streamFromResponse).
KilledEnds ==
  \A h \in Direct :
    LET doomed == pc = "playing" /\ taken = h /\ h \in dead /\ At(cur) = h
    IN  doomed ~> ~doomed

\* Violated: the same whatever CurrentIndex names: "Check if stream was marked dead
\* mid-stream" (restream.go 989).
KilledEndsAlways ==
  \A h \in Direct :
    LET doomed == pc = "playing" /\ taken = h /\ h \in dead
    IN  doomed ~> ~doomed

\* A switch made while stream h plays brings h to its end.
SwitchEnds(h) ==
  (pc = "playing" /\ taken = h /\ chosen # -1 /\ op = "idle") ~> ~(pc = "playing" /\ taken = h /\ chosen # -1)

\* An operator's switch takes effect on a stream played from one response:
\* cancelling the old context stops it (restream.go 1218).
SwitchReachesDirect == \A h \in Direct : SwitchEnds(h)

\* Violated: "cancel the OLD context so the running goroutine stops" (restream.go
\* 1218), whatever the stream is.
SwitchReachesAll == \A h \in Hashes : SwitchEnds(h)

\* Violated: a client that stays gets a working stream once there is one
\* (restream.go 546: "so a transient provider outage does not strand clients").
OutageEnds ==
  (\E h \in Hashes : <>[](client /\ h \in up /\ Usable(h))) => []<>(pc = "playing")

\* Violated: a revived stream can be selected again
\* (admin/streams.go 193: "restoring it to active rotation").
RevivedIsUsable ==
  [][\A h \in Hashes : ReviveStream(h) => h \notin blocked]_vars

\* The clip is played only after every stream that may be played had its turn, and
\* the loop's counters stay where its rotation puts them (Stream, restream.go 300).
LoopInv == LoopTypeOK /\ FallbackAfterAll

\* Why LoopInv holds.  The index a places after s in the rotation, and those before it.
Step(s, a)  == IF s + a < Count THEN s + a ELSE s + a - Count
Reach(s, a) == {i \in Indexes : (IF i >= s THEN i - s ELSE i - s + Count) < a}
Attempting  == {"enter", "connect", "playing", "ended", "judged", "succeeded", "failed", "charge", "rotate"}

\* A success that ends in a cancelled context leaves the index where it was: the goroutine
\* will find nobody to play for, or a context that only a switch in progress can replace,
\* and that switch has been there since before the counters were reset.
Held(slips) == \/ ~client
               \/ (watch = "cancel" /\ (done \/ (slips = 0 /\ op # "context")))

\* So all but one of the attempts since then went to an index of their own.
InRotation(s, slips) ==
  LET a == attempts - slips IN
  /\ a \in 0 .. Count - 1 /\ Reach(s, a) \subseteq tried
  /\ pc \in Attempting => a >= 1 /\ idx = Step(s, a - 1) /\ cur = idx
  /\ pc \in {"top", "retry"} =>
       \/ cur = Step(s, a)
       \/ (pc = "top" /\ a >= 1 /\ cur = Step(s, a - 1) /\ Held(slips))
  /\ slips = 1 => op # "context"

RotationInv ==
  /\ done => stop = "renew" \/ watch = "cancel"
  /\ stop # "idle" => ~client
  /\ pc \in {"exhausted", "fallback"} => moved \/ tried = Indexes
  /\ pc \in Attempting \cup {"top", "retry"} /\ ~moved /\ tried # Indexes =>
       \E s \in Indexes, slips \in {0, 1} : InRotation(s, slips)

\* Why ChargedForFaults holds: an attempt that will be charged has been counted, unless an
\* operator's switch ended it and the loop will still find the flag of that switch.
Counted == failures[taken] < faults[taken] \/ faults[taken] = MaxFailures
CreditInv ==
  /\ pc \in Attempting \ {"enter"} => taken \in Hashes /\ (~sorted => taken = At(idx))
  /\ pc \in {"enter", "connect"} => chosen = -1
  /\ pc = "playing" /\ chosen # -1 => manual
  /\ pc \in {"ended", "judged", "failed"} /\ result # "good" /\ ~sorted =>
       Counted \/ (chosen # -1 /\ ~switching /\ (IF pc = "ended" THEN manual ELSE wasManual))
  /\ pc = "charge" /\ ~sorted => Counted
  /\ pc = "failed" => result # "good"
  /\ ChargedForFaults

\* Why ChoiceHonoured holds: the flag that ForceStreamSwitch set before it touched anything
\* else is still there when the attempt it ended is judged, and until the next attempt
\* nobody but another switch or the watcher writes the index.
ChoiceInv ==
  /\ pc \in {"enter", "connect", "charge", "rotate", "retry", "exhausted", "fallback"} => chosen = -1
  /\ chosen # -1 => ~switching
  /\ chosen # -1 /\ pc \in {"playing", "ended"} => manual
  /\ chosen # -1 /\ pc \in {"judged", "failed", "succeeded"} => wasManual
  /\ chosen # -1 /\ pc = "top" => attempts = 0
  /\ chosen # -1 /\ pc # "idle" /\ client => cur = chosen

\* What the operator orders happens to the stream that plays: a killed one ends,
\* and a switch ends a stream played from one response (restream.go 991 and 1218).
OrdersReachPlayer == KilledEnds /\ SwitchReachesDirect
=============================================================================
