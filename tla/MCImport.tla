------------------------------ MODULE MCImport ------------------------------
(* Small instances of Import: "b" and "c" are accounts of one provider. *)
EXTENDS Import

UrlOf    == [s \in Sources |-> IF s = "a" THEN "first" ELSE "second"]
OrderOf  == [s \in Sources |-> IF s = "b" THEN 2 ELSE 1]
Kept     == [s \in Sources |->
              CASE s = "a" -> {{"n1", "n2"}, {"n2"}}
                [] s = "b" -> {{}, {"n1"}, {"n1", "n2"}}
                [] s = "c" -> {{}, {"n1"}, {"n2"}}]
OneTwo   == <<"a", "b">>
TwoThree == {<<"b", "c">>}
TwoOne   == {<<"b", "a">>}
=============================================================================
