------------------------------ MODULE MCSystem ------------------------------
(* Small instances of System for TLC. *)
EXTENDS System, TLC

CONSTANTS scr, mouse

\* A screen or a device that changes hands twice with a fault anywhere, or once
\* with several, and a screen that changes hands and comes back without.
SmallCases == [things : {{scr}, {mouse}}, claims : {2}, faults : {1}]
                \cup [things : {{scr}}, claims : {1}, faults : {3}]
                \cup [things : {{mouse}}, claims : {1}, faults : {2}]
                \cup [things : {{scr}}, claims : {3}, faults : {0}]
Same == Permutations(Hosts)
=============================================================================
