------------------------------- MODULE MCFilter -------------------------------
EXTENDS Filter

Text(w, marks, upper, pad) == [word |-> w, marks |-> marks, upper |-> upper, pad |-> pad]
Empty == Text("", <<>>, FALSE, FALSE)
Pat(hits) == [hits |-> hits, upper |-> FALSE, ok |-> TRUE, set |-> TRUE]
Capital(hits) == [hits |-> hits, upper |-> TRUE, ok |-> TRUE, set |-> TRUE]
Broken == [hits |-> {}, upper |-> FALSE, ok |-> FALSE, set |-> TRUE]
PerType(l, v, s) == [live |-> l, vod |-> v, series |-> s]
NoPatterns == PerType(NoPattern, NoPattern, NoPattern)
Rule(field, action, pattern) == [field |-> field, action |-> action, pattern |-> pattern]

Movies == Text("movies", <<>>, TRUE, FALSE)
News == Text("news", <<>>, TRUE, TRUE)
Stream(name, title, tvg, url, type) ==
  [name |-> name, title |-> title, tvg |-> tvg, url |-> Text(url, <<>>, FALSE, FALSE), type |-> type]

\* One channel in three qualities, the best of them in a group of its own; a channel
\* that names its quality twice; a film known only by its address.
MCCatalog == [main |-> <<
    Stream(Text("hbo", <<"FHD">>, TRUE, FALSE), Text("movies", <<>>, FALSE, TRUE), Empty, "u1", "live"),
    Stream(Text("hbo", <<"HD">>, TRUE, FALSE), Movies, Empty, "u2", "live"),
    Stream(Text("hbo", <<"SD">>, FALSE, FALSE), Empty, News, "u3", ""),
    Stream(Text("cnn", <<"HD", "720p">>, TRUE, FALSE), News, Movies, "u4", ""),
    Stream(Text("film", <<>>, TRUE, FALSE), Empty, Empty, "vod", "")>>,
  second |-> <<Stream(Text("cnn", <<"HD">>, TRUE, FALSE), News, Empty, "u5", "live")>>]
MCVodWords == {"vod"}
MCSniff == [w \in {"", "movies", "news", "series"} |->
              CASE w = "movies" -> "vod" [] w = "series" -> "series" [] OTHER -> ""]

Plain == [prof |-> "", rules |-> <<>>, def |-> "", mode |-> "", list |-> <<>>, gre |-> NoPattern,
          types |-> <<>>, over |-> <<>>, dedupe |-> FALSE, tiers |-> <<>>,
          cat |-> NoPatterns, inc |-> NoPatterns, exc |-> NoPatterns]

MCDrafts == {
  Plain,
  [Plain EXCEPT !.rules = <<Rule("name", "exclude", Pat({"cnn"})), Rule("", "", Pat({"news"})),
                            Rule("url", "include", NoPattern)>>, !.def = "drop"],
  [Plain EXCEPT !.prof = "P", !.def = "keep", !.rules = <<Rule("any", "include", Capital({"hbo"}))>>],
  [Plain EXCEPT !.mode = "include", !.list = <<Movies, Text("movies", <<>>, FALSE, TRUE)>>, !.gre = Pat({"news"}),
                !.dedupe = TRUE],
  [Plain EXCEPT !.types = <<"live", "live">>, !.dedupe = TRUE,
                !.over = <<[group |-> News, type |-> "live"], [group |-> Text("news", <<>>, FALSE, FALSE), type |-> "live"]>>,
                !.exc = PerType(Pat({"u1"}), NoPattern, NoPattern)],
  [Plain EXCEPT !.cat = PerType(NoPattern, Pat({"hbo"}), Capital({"hbo"})), !.mode = "exclude", !.list = <<Empty>>,
                !.inc = PerType(Pat({"cnn"}), NoPattern, NoPattern)],
  [Plain EXCEPT !.gre = Broken],
  [Plain EXCEPT !.prof = "P", !.rules = <<Rule("group", "exclude", Broken)>>]}

MCProfileDrafts == {
  [name |-> "P", def |-> "drop", rules |-> <<>>],
  [name |-> "P", def |-> "keep", rules |-> <<Rule("group", "exclude", Pat({"news"}))>>],
  [name |-> "P", def |-> "", rules |-> <<Rule("bogus", "exclude", Pat({"news"}))>>]}

\* Stored before validation: a pattern that does not compile, and a group listed twice.
MCLegacy == [Plain EXCEPT !.exc = PerType(Broken, NoPattern, NoPattern), !.mode = "exclude",
                          !.list = <<Movies, Text("movies", <<>>, FALSE, FALSE)>>]

Second == [Plain EXCEPT !.types = <<"vod">>]
MCStored == {
  [sources |-> [main |-> MCLegacy, second |-> Second], profiles |-> <<>>],
  [sources |-> [main |-> [Plain EXCEPT !.prof = "P"], second |-> Second],
   profiles |-> [P |-> [name |-> "P", def |-> "drop", rules |-> <<>>]]]}

FilterSpec == FilterInit /\ [][FilterNext]_fltVars
=============================================================================
