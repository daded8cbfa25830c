------------------------------ MODULE MCXCOutput ------------------------------
EXTENDS XCOutput

St(type, group, tvgroup, source, order) ==
  [type |-> type, group |-> group, tvgroup |-> tvgroup, source |-> source, order |-> order]
Entry(hash, media, source, series, group) ==
  [hash |-> hash, media |-> media, source |-> source, series |-> series, group |-> group]

\* The administrator prefers News from the second source; its first source leads the list.
MCCatalogs == {
  [News |-> <<St("live", <<"Info">>, <<>>, 2, 1), St("live", <<>>, <<>>, 1, 1)>>,
   Film |-> <<St("vod", <<>>, <<"Kino">>, 1, 2)>>],
  [Film |-> <<St("vod", <<>>, <<>>, 1, 1)>>,
   Saga |-> <<St("series", <<"Shows">>, <<>>, 1, 2), St("series", <<>>, <<>>, 2, 1)>>]}
MCTwins == {[News |-> <<St("live", <<>>, <<>>, 1, 1)>>, news |-> <<St("live", <<>>, <<>>, 2, 1)>>]}

\* Two folders hold a series of the same name.
MCLibrary == <<
  Entry("h1", "movies", 1, "", <<"Movies">>),
  Entry("h2", "shows", 2, "A", <<"Shows", "A">>),
  Entry("h3", "shows", 2, "A", <<"Shows", "A">>),
  Entry("h4", "shows", 3, "A", <<"Home", "Shows", "A">>)>>

\* Two channels share an id, two files another, and a channel and a file a third.
MCStreamId == [News |-> 1, Film |-> 2, Saga |-> 2, h1 |-> 4, h2 |-> 5, h3 |-> 4, h4 |-> 1, news |-> 8]
MCFoldedName == [Film |-> 1, News |-> 2, news |-> 2, Saga |-> 3]

Account(user, max) == [user |-> user, max |-> max]
MCAccountDrafts == {<<Account("ann", 1)>>, <<Account("ann", 1), Account("bob", 2)>>}

Ask(kind, user, id, m3u8) == [kind |-> kind, user |-> user, id |-> id, m3u8 |-> m3u8]
MCRequests == {
  Ask("account", "ann", 0, FALSE), Ask("list", "ann", 0, FALSE), Ask("playlist", "bob", 0, FALSE),
  Ask("play", "ann", 1, FALSE), Ask("play", "bob", 1, TRUE), Ask("play", "bob", 1, FALSE),
  Ask("play", "bob", 4, FALSE), Ask("play", "ann", 20, FALSE), Ask("play", "bob", 30, FALSE), Ask("guide", "bob", 1, FALSE)}
XCSymmetry == Permutations(XCClients)
================================================================================
