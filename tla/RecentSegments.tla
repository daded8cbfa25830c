--------------------------- MODULE RecentSegments ---------------------------
(***************************************************************************)
(* What the HLS loop relies on when it asks whether a segment was already  *)
(* played: a memory of the most recent segments, oldest first, that        *)
(* forgets only the oldest one and only when it is full.                   *)
(***************************************************************************)
EXTENDS Naturals, Sequences

CONSTANTS Segment, Sizes

VARIABLES
  recent,    \* the remembered segments, oldest first
  capacity   \* how many are remembered

Init == recent = <<>> /\ capacity \in Sizes

Remember(u) ==
  /\ \A i \in 1 .. Len(recent) : recent[i] # u
  /\ recent' = Append(IF Len(recent) < capacity THEN recent ELSE Tail(recent), u)
  /\ UNCHANGED capacity

Forget == recent' = <<>> /\ capacity' \in Sizes

Next == (\E u \in Segment : Remember(u)) \/ Forget

Spec == Init /\ [][Next]_<<recent, capacity>>
=============================================================================
