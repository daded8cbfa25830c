---------------------------- MODULE MCConfiguration ----------------------------
(***************************************************************************)
(* What an operator configures and what the guide's sources give, in one   *)
(* run: the configuration store, the import filter, the guide's download,  *)
(* its publication and the Schedules Direct client.  They share no state   *)
(* in the model; each behaviour is one component's.                        *)
(***************************************************************************)
EXTENDS MCConfigStore, MCFilter, GuideFetch, MCGuide, MCSchedulesDirect

\* Channels first, as providers send them, an element left open before another's; and a
\* document of programmes only, with an opening tag broken by the end.
MCDocuments == [one |-> <<"<?xml", "<chan", "nel ", "A", "</channel>", "<chan", "nel ", "B", "</channel>",
                          "<prog", "ramme ", "</programme>">>,
                two |-> <<"<prog", "ramme ", "1", "</programme>", "junk", "<prog", "ramme ", "</channel>", "</programme>",
                          "<chan">>]

\* Smaller instances than those of the components' own configurations: everything by one
\* administrator, or saves and toggles against another's restarts; an account and a source
\* that are always configured; drafts without the type filter, the named profile and the
\* broken one; one channel of the guide, whose account gives the earlier programme, and
\* of an account's lineup one station that has a schedule.
RestartTeam == [a \in {a1, a2} |-> IF a = a1 THEN {"save", "toggle"} ELSE {"restart"}]
MCFewTeams == {SoloTeam, RestartTeam}
MCFewDrafts == {d \in MCDrafts : d.types = <<>> /\ d.prof = "" /\ d.gre # Broken}
MCShortFeeds == [xml |-> <<MCFeeds.xml[2]>>, sd |-> SelectSeq(MCFeeds.sd, LAMBDA f : f.id = "hbo")]
MCOneEPGList == {<<"xml">>}
MCFewAirings == [hbo |-> {"film", "talk", "news"}, cnn |-> {}, abc |-> {}, fox |-> {"news"}]
MCOneSDList == {{"sd"}}

VARIABLE component   \* whose behaviour this is

configurationVars == <<component, cfgVars, fltVars, fetchVars, guideVars, sdVars>>

\* The components that rest take one of their initial states.
ConfigurationInit ==
  /\ component \in {"store", "filter", "download", "guide", "account"}
  /\ ConfigInit /\ FilterInit /\ FetchInit /\ GuideInit /\ SDInit
  /\ component # "store" => jsonFile = "none" /\ team = SoloTeam
  /\ component # "filter" => fltProfiles = <<>>

StoreStep == component = "store" /\ ConfigNext /\ UNCHANGED <<component, fltVars, fetchVars, guideVars, sdVars>>
FilterStep == component = "filter" /\ FilterNext /\ UNCHANGED <<component, cfgVars, fetchVars, guideVars, sdVars>>
DownloadStep == component = "download" /\ FetchNext /\ UNCHANGED <<component, cfgVars, fltVars, guideVars, sdVars>>
GuideStep == component = "guide" /\ GuideNext /\ UNCHANGED <<component, cfgVars, fltVars, fetchVars, sdVars>>
AccountStep == component = "account" /\ SDNext /\ UNCHANGED <<component, cfgVars, fltVars, fetchVars, guideVars>>

ConfigurationNext == StoreStep \/ FilterStep \/ DownloadStep \/ GuideStep \/ AccountStep

ConfigurationSpec == ConfigurationInit /\ [][ConfigurationNext]_configurationVars
================================================================================
