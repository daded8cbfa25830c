------------------------------ MODULE MCServices ------------------------------
(***************************************************************************)
(* Three components that share nothing, in one run: each behaviour is one  *)
(* of the local library's, of the Xtreme Codes output's or of the files'.  *)
(***************************************************************************)
EXTENDS MCLocalLibrary, MCXCOutput, MCSeriesFiles

\* A smaller instance than that of MCXCOutput.cfg.
MCFewRequests == {
  Ask("list", "ann", 0, FALSE), Ask("playlist", "bob", 0, FALSE), Ask("play", "ann", 1, FALSE), Ask("play", "bob", 1, TRUE),
  Ask("play", "bob", 4, FALSE), Ask("guide", "bob", 1, FALSE)}

VARIABLE part   \* whose behaviour this is

servicesVars == <<part, libVars, xcVars, fileVars>>

ServicesInit ==
  /\ part \in {"library", "output", "files"}
  /\ LibInit /\ SeriesInit
  /\ XCInit
  /\ part # "output" => Len(accounts[1]) = 1 /\ "News" \in DOMAIN channels

LibraryStep == part = "library" /\ LibNext /\ UNCHANGED <<part, xcVars, fileVars>>
OutputStep == part = "output" /\ XCNext /\ UNCHANGED <<part, libVars, fileVars>>
FilesStep == part = "files" /\ SeriesNext /\ UNCHANGED <<part, libVars, xcVars>>

ServicesNext == LibraryStep \/ OutputStep \/ FilesStep

ServicesSpec == ServicesInit /\ [][ServicesNext]_servicesVars

ServicesSymmetry == LibSymmetry \cup XCSymmetry \cup Permutations(FileClients)
================================================================================
