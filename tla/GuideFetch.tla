------------------------------ MODULE GuideFetch ------------------------------
(***************************************************************************)
(* FetchEPGData (work/proxy/epg.go): one goroutine per XMLTV source reads  *)
(* its document in pieces, cuts complete elements out of a sliding window  *)
(* and sends them into two bounded channels, which two goroutines drain.   *)
(*                                                                         *)
(* A document is a sequence of pieces of text.  An opening tag is two      *)
(* pieces, so that a read may end between them; everything else is one.    *)
(***************************************************************************)
EXTENDS Naturals, Sequences, FiniteSets, SequencesExt, FiniteSetsExt

CONSTANTS
  XmlSources,    \* the configured sources
  Documents,     \* [XmlSources -> Seq(piece)]
  ReadMax,       \* the read buffer, 64 KB
  TailKept,      \* what is kept of a window without an opening tag, 16 bytes
  ChannelCap, ProgrammeCap,   \* capacities of the two channels
  EPGMaxRetries

Openers == [channel |-> <<"<chan", "nel ">>, programme |-> <<"<prog", "ramme ">>]
Closers == [channel |-> <<"</channel>">>, programme |-> <<"</programme>">>]
Kinds == {"channel", "programme"}

ASSUME FetchAssumption ==
  /\ Documents \in [XmlSources -> Seq(STRING)] /\ ReadMax \in Nat \ {0} /\ EPGMaxRetries \in Nat \ {0}
  /\ ChannelCap \in Nat \ {0} /\ ProgrammeCap \in Nat \ {0}
  /\ TailKept \in Nat /\ TailKept >= Len(Openers.channel) - 1 /\ TailKept >= Len(Openers.programme) - 1

VARIABLES
  scan,       \* [XmlSources -> the source's goroutine]
  queue,      \* [Kinds -> the channel's buffer]
  closed,     \* both channels closed
  drained,    \* [Kinds -> what the drain goroutines have taken]
  returned    \* FetchEPGData has returned

fetchVars == <<scan, queue, closed, drained, returned>>

capacity == [channel |-> ChannelCap, programme |-> ProgrammeCap]
Elem(s, text) == [src |-> s, text |-> text]

-----------------------------------------------------------------------------
\* The first place of a text in a window, 0 when it is not there (bytes.Index).
placeOf(text, window) ==
  LET at == {i \in 1..(Len(window) + 1 - Len(text)) : \A j \in DOMAIN text : window[i + j - 1] = text[j]}
  IN IF at = {} THEN 0 ELSE Min(at)

\* The opening tag that comes first, "none" when there is none.
openerIn(window) ==
  LET at(k) == placeOf(Openers[k], window)
      found == {k \in Kinds : at(k) > 0}
  IN IF found = {} THEN "none" ELSE CHOOSE k \in found : \A o \in found : at(k) <= at(o)

\* A complete element at the front of the window's first opening tag; to = 0 when its
\* closing tag has not been read.
elementIn(window) ==
  LET kind == openerIn(window)
      from == IF kind = "none" THEN 0 ELSE placeOf(Openers[kind], window)
      close == IF kind = "none" THEN 0 ELSE placeOf(Closers[kind], SubSeq(window, from, Len(window)))
  IN [kind |-> kind, from |-> from, to |-> IF close = 0 THEN 0 ELSE from + close - 1]

\* What stays of a window without a complete element: the element begun, or a tail in
\* case an opening tag was cut by the read.
trimTight(window) ==
  LET e == elementIn(window)
  IN IF e.kind # "none" THEN SubSeq(window, e.from, Len(window)) ELSE <<>>
trim(window) ==
  LET e == elementIn(window)
  IN IF e.kind # "none" THEN SubSeq(window, e.from, Len(window))
     ELSE IF Len(window) > TailKept THEN SubSeq(window, Len(window) - TailKept + 1, Len(window)) ELSE window

-----------------------------------------------------------------------------
Fetcher == [pc |-> "ask", tries |-> 0, at |-> 0, window |-> <<>>, over |-> "no"]

FetchInit ==
  /\ scan = [s \in XmlSources |-> Fetcher]
  /\ queue = [k \in Kinds |-> <<>>] /\ drained = [k \in Kinds |-> <<>>]
  /\ closed = FALSE /\ returned = FALSE

\* The request succeeds, and a gzip header, where there is one, can be read.
Answered(s) ==
  /\ scan[s].pc = "ask"
  /\ scan' = [scan EXCEPT ![s].pc = "read"]
  /\ UNCHANGED <<queue, closed, drained, returned>>

\* The request fails or is not answered with 200; after the last attempt the source is
\* given up.
Unanswered(s) ==
  /\ scan[s].pc = "ask"
  /\ LET n == scan[s].tries + 1
     IN scan' = [scan EXCEPT ![s].tries = n, ![s].pc = IF n = EPGMaxRetries THEN "gone" ELSE "ask"]
  /\ UNCHANGED <<queue, closed, drained, returned>>

\* The source's deadline or the merge's ends it between two attempts, or its gzip header
\* is broken.
Cancelled(s) ==
  /\ scan[s].pc = "ask"
  /\ scan' = [scan EXCEPT ![s].pc = "gone", ![s].over = "error"]
  /\ UNCHANGED <<queue, closed, drained, returned>>

\* One Read: n pieces, and the end of the document or an error with them or by itself.
ReadPieces(s) ==
  /\ scan[s].pc = "read"
  /\ LET left == Len(Documents[s]) - scan[s].at
     IN \E n \in 0..Min({ReadMax, left}), over \in {"no", "eof", "error"} :
          /\ n = 0 => over # "no"
          /\ over = "eof" => n = left
          /\ scan' = [scan EXCEPT ![s] = [scan[s] EXCEPT
               !.at = @ + n, !.over = over,
               !.window = @ \o SubSeq(Documents[s], scan[s].at + 1, scan[s].at + n),
               !.pc = IF n > 0 THEN "cut" ELSE "gone"]]
  /\ UNCHANGED <<queue, closed, drained, returned>>

hasRoomForOne(k) == Len(queue[k]) <= capacity[k]
hasRoom(k) == Len(queue[k]) < capacity[k]

\* A complete element is sent, which waits for room; the window goes on behind it.
SendElement(s) ==
  LET e == elementIn(scan[s].window)
  IN /\ scan[s].pc = "cut" /\ e.to > 0
     /\ hasRoom(e.kind)
     /\ queue' = [queue EXCEPT ![e.kind] = Append(@, Elem(s, SubSeq(scan[s].window, e.from, e.to)))]
     /\ scan' = [scan EXCEPT ![s].window = SubSeq(@, e.to + 1, Len(@))]
     /\ UNCHANGED <<closed, drained, returned>>

NoMoreElements(s) ==
  /\ scan[s].pc = "cut" /\ elementIn(scan[s].window).to = 0
  /\ scan' = [scan EXCEPT ![s].window = trim(@), ![s].pc = IF scan[s].over = "no" THEN "read" ELSE "gone"]
  /\ UNCHANGED <<queue, closed, drained, returned>>

\* wg.Wait, then close.
CloseQueues ==
  /\ ~closed /\ \A s \in XmlSources : scan[s].pc = "gone"
  /\ closed' = TRUE
  /\ UNCHANGED <<scan, queue, drained, returned>>

\* The two drain goroutines, side by side.
DrainsAfter(k) == queue[k] # <<>> /\ (k = "programme" => closed /\ queue["channel"] = <<>>)
Drains(k) == queue[k] # <<>>
Drain(k) ==
  /\ Drains(k)
  /\ drained' = [drained EXCEPT ![k] = Append(@, Head(queue[k]))]
  /\ queue' = [queue EXCEPT ![k] = Tail(@)]
  /\ UNCHANGED <<scan, closed, returned>>

\* drainWg.Wait.
drainWaitFirst == queue["channel"] = <<>>
drainWait == \A k \in Kinds : queue[k] = <<>>
FetchReturns ==
  /\ closed /\ drainWait /\ ~returned
  /\ returned' = TRUE
  /\ UNCHANGED <<scan, queue, closed, drained>>

FetchNext ==
  \/ \E s \in XmlSources : \/ Answered(s) \/ Unanswered(s) \/ Cancelled(s) \/ ReadPieces(s)
                           \/ SendElement(s) \/ NoMoreElements(s)
  \/ \E k \in Kinds : Drain(k)
  \/ CloseQueues \/ FetchReturns

-----------------------------------------------------------------------------
(* Properties.                                                             *)

Element == [src : XmlSources, text : Seq(STRING)]
FetchTypeOK ==
  /\ scan \in [XmlSources -> [pc : {"ask", "read", "cut", "gone"}, tries : 0..EPGMaxRetries, at : Nat,
                              window : Seq(STRING), over : {"no", "eof", "error"}]]
  /\ \A s \in XmlSources : scan[s].at <= Len(Documents[s])
  /\ queue \in [Kinds -> Seq(Element)] /\ drained \in [Kinds -> Seq(Element)]
  /\ \A k \in Kinds : Len(queue[k]) <= capacity[k]
  /\ closed \in BOOLEAN /\ returned \in BOOLEAN

\* The elements of a document, in one read of it.
elementsFrom[doc \in Seq(STRING)] ==
  LET e == elementIn(doc)
  IN IF e.to = 0 THEN <<>>
     ELSE <<[kind |-> e.kind, text |-> SubSeq(doc, e.from, e.to)]>> \o elementsFrom[SubSeq(doc, e.to + 1, Len(doc))]

\* The texts of those members of a list that are in S, in order.
TextsIn(q, S) ==
  LET upto[n \in 0..Len(q)] ==
        IF n = 0 THEN <<>> ELSE IF q[n] \in S THEN Append(upto[n - 1], q[n].text) ELSE upto[n - 1]
  IN upto[Len(q)]
OfKind(k) == [kind : {k}, text : Seq(STRING)]
SentBy(s) == [src : {s}, text : Seq(STRING)]

ElementsOf == [s \in XmlSources |-> [k \in Kinds |-> TextsIn(elementsFrom[Documents[s]], OfKind(k))]]

\* What source s has got through so far, taken or still waiting.
sentBy(s, k) == TextsIn(drained[k] \o queue[k], SentBy(s))

\* However the reads cut the document, its elements come out whole, in order and once; a
\* document read to its end gives all of them, and one that breaks off gives a beginning
\* (scanEPGFragments).
SplitsDoNotMatter ==
  \A s \in XmlSources, k \in Kinds :
    /\ IsPrefix(sentBy(s, k), ElementsOf[s][k])
    /\ scan[s].pc = "gone" /\ scan[s].over = "eof" => sentBy(s, k) = ElementsOf[s][k]

\* FetchEPGData returns only when everything its sources sent was taken: the merge builds
\* the index and the document from it at once.
ReturnsEverything == returned => \A k \in Kinds : queue[k] = <<>>

\* The sources and the two drains never wait for each other, although both channels are
\* bounded and a source sends into both ("Drain both channels concurrently to prevent
\* deadlock", epg.go): until it has returned, somebody can go on.
CanScan(s) ==
  LET e == elementIn(scan[s].window)
  IN \/ scan[s].pc \in {"ask", "read"}
     \/ scan[s].pc = "cut" /\ (e.to > 0 => hasRoom(e.kind))
NeverStuck ==
  ~returned => \/ \E s \in XmlSources : CanScan(s)
               \/ \E k \in Kinds : Drains(k)
               \/ ~closed /\ \A s \in XmlSources : scan[s].pc = "gone"
               \/ closed /\ drainWait

\* A download's elements all arrive, whole and once, wherever the reads cut them, and
\* the bounded channels never hold it up for ever (FetchEPGData, scanEPGFragments).
FetchInv == FetchTypeOK /\ SplitsDoNotMatter /\ ReturnsEverything /\ NeverStuck

-----------------------------------------------------------------------------
(* Why FetchInv holds.                                                     *)

\* What a source has still to find is what one read of its window and of the rest of its
\* document finds; a window that is read on has no complete element.
Rest(s) == SubSeq(Documents[s], scan[s].at + 1, Len(Documents[s]))
ToFind(s, k) == TextsIn(elementsFrom[scan[s].window \o Rest(s)], OfKind(k))
ScanInv == \A s \in XmlSources :
  /\ scan[s].pc = "ask" => scan[s].tries < EPGMaxRetries
  /\ scan[s].pc \in {"ask", "read"} => scan[s].over = "no" /\ elementIn(scan[s].window).to = 0
  /\ scan[s].over = "eof" => scan[s].at = Len(Documents[s])
  /\ scan[s].pc # "gone" => \A k \in Kinds : sentBy(s, k) \o ToFind(s, k) = ElementsOf[s][k]

CloseInv ==
  /\ closed => \A s \in XmlSources : scan[s].pc = "gone"
  /\ returned => closed /\ drainWait

FetchIInv == FetchTypeOK /\ ScanInv /\ CloseInv /\ SplitsDoNotMatter

FetchSpec == FetchInit /\ [][FetchNext]_fetchVars
================================================================================
