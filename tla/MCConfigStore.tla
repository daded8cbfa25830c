----------------------------- MODULE MCConfigStore -----------------------------
EXTENDS ConfigStore

CONSTANTS a1, a2

Source(url, name, order, pass, prof, filt) ==
  [url |-> url, name |-> name, order |-> order, pass |-> pass, prof |-> prof, filt |-> filt]
Settings(w) == [k \in SettingKeys |-> IF k = "watcher" THEN w ELSE "on"]

\* config.json: one provider with a secret and a filter saved before validation existed.
MCJsonDoc == [set |-> Settings("off"), src |-> <<Source("u1", 0, 0, "p1", "", "bad")>>,
              tab |-> [xc |-> {1}, epg |-> {}, sd |-> {1}]]

\* What operators post: the provider renamed and its filter repaired, with its secret
\* masked and a second account of it in front; another provider alone, attached to a
\* profile; the provider as config.json had it, whose filter is accepted only while the
\* stored one is the same.
MCDocs == {
  [set |-> Settings("on"), src |-> <<Source("u1", 7, 2, Mask, "", "good"), Source("u1", 8, 1, "p2", "", "good")>>],
  [set |-> Settings("off"), src |-> <<Source("u2", 8, 1, Mask, "P", "good")>>],
  [set |-> Settings("off"), src |-> <<Source("u1", 1, 1, Mask, "", "bad")>>]}

All == {"save", "edit", "toggle", "profile", "table", "restart"}
SoloTeam == [a \in {a1, a2} |-> IF a = a1 THEN All ELSE {}]
PairTeam == [a \in {a1, a2} |-> IF a = a1 THEN {"save", "toggle", "profile"} ELSE {"table", "restart"}]
BothTeam == [a \in {a1, a2} |-> {"save", "toggle", "profile"}]

EditTeam == [a \in {a1, a2} |-> IF a = a1 THEN {"save", "edit"} ELSE {"restart"}]

\* One admin does all but the account tables, which another edits.
TableTeam == [a \in {a1, a2} |-> IF a = a1 THEN All \ {"edit", "table"} ELSE {"table"}]

MCTeams == {SoloTeam, PairTeam, TableTeam}
MCPairTeams == {PairTeam}
MCBothTeams == {BothTeam}
MCEditTeams == {EditTeam}
MCSoloTeams == {SoloTeam}

\* Two accounts of a provider, and the second of them renamed on the page.
MCRenameDocs == {d \in MCDocs : Len(d.src) = 2} \cup {
  [set |-> Settings("on"), src |-> <<Source("u1", 9, 2, Mask, "", "good"), Source("u1", 8, 1, Mask, "", "good")>>]}

\* For the properties that do not hold: one provider attached to a profile; three providers
\* of which only one has an order.
MCOneDoc == {d \in MCDocs : Len(d.src) = 1 /\ d.src[1].prof = "P"}
MCUnsettledDocs == {[set |-> Settings("off"),
  src |-> <<Source("u1", 7, 0, "p", "", "good"), Source("u2", 8, 0, "p", "", "good"), Source("u2", 9, 1, "p", "", "good")>>]}
=============================================================================
