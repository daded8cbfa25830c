--------------------------- MODULE MCSchedulesDirect ---------------------------
EXTENDS SchedulesDirect

\* The first account has selected one of its two lineups, which share a station; the second
\* came from a config.json without a number of days.
MCUserOf == [f1 |-> "ann", f2 |-> "bob", look |-> "ann"]
MCSelectedLineups == [ann |-> {"east"}, bob |-> {}]
MCDaysToFetch == [ann |-> 7, bob |-> 0]
MCLineups == [ann |-> <<"east", "west">>, bob |-> <<"west">>]
MCStations == [east |-> {"hbo", "cnn", "abc"}, west |-> {"cnn", "fox"}]
MCAirings == [hbo |-> {"film", "talk"}, cnn |-> {"news", "talk"}, abc |-> {}, fox |-> {"news"}]
================================================================================
