---------------------------- MODULE MCSeriesFiles ----------------------------
EXTENDS SeriesFiles

Ep(num, id) == [num |-> num, id |-> id]
File(src, id, blocked) == [src |-> src, id |-> id, blocked |-> blocked]

\* Two logins of one panel, and another panel; the channel has two series of the first,
\* the second of which the other login carries.  The second panel has an episode the
\* first lacks, and numbers one itself.
MCUrl == [a |-> "panel", b |-> "other", c |-> "panel"]
MCTrees ==
  <<"panel", "7">> :> << <<Ep(1, "a1"), Ep(3, "a3")>>, <<Ep(1, "a1x")>> >>
  @@ <<"panel", "9">> :> << <<Ep(1, "c1"), Ep(4, "c4")>>, <<Ep(4, "c4x")>> >>
  @@ <<"other", "8">> :> << <<Ep(1, "b1"), Ep(0, "b2"), Ep(0, "")>> >>
\* The special without a number gets that of the second episode.
MCSpecials ==
  <<"panel", "7">> :> << <<Ep(2, "a2"), Ep(0, "special")>> >>
  @@ <<"panel", "9">> :> << <<>> >>
  @@ <<"other", "8">> :> << <<Ep(1, "b1")>> >>
MCMaxConnections == [a |-> 1, b |-> 1, c |-> 1]
MCSeriesStreams == <<File("a", "7", FALSE), File("m3u", "", FALSE), File("b", "8", FALSE), File("c", "9", FALSE)>>
MCMovieStreams == <<File("b", "9", FALSE), File("a", "9", TRUE)>>
================================================================================
