----------------------------- MODULE MCDecider -----------------------------
(* Small instances of Decider for TLC. *)
EXTENDS Decider

CONSTANTS h1, h2, scr, mouse

NoCommands == <<>>
OneCommand == <<"exec">>
TakeAndRun == <<"take-hid", "exec">>
NoTimes == {}
EarlyTimes == 1..2

NoAssignments == [k \in {} |-> None]
TakenBy(h, k, q, arrived) ==
  [assignee |-> h, prev |-> IF h = h1 THEN h2 ELSE h1, seq |-> q, arrived |-> arrived]

\* One device, taken twice by the other host (seq 1, then 2), live or not,
\* arrived or not, then taken by this host, or forgotten with the server's
\* state; the owner is the other host throughout.
DeviceStates ==
  {[owner |-> h2, activation |-> 1, live |-> l, assignments |-> a] :
     l \in {{h2}, {}},
     a \in {[k \in {mouse} |-> TakenBy(h2, k, q, r)] : q \in 1..2, r \in BOOLEAN}
          \cup {[k \in {mouse} |-> TakenBy(h1, k, 3, FALSE)], NoAssignments}}

\* The ownership moves between the two hosts, is activated again, or is lost;
\* a screen stays taken by the other host, to give away when no longer owner.
OwnershipStates ==
  {[owner |-> o, activation |-> n, live |-> {h2},
    assignments |-> [k \in {scr} |-> TakenBy(h2, k, 1, FALSE)]] :
     o \in {h1, h2, NoHost}, n \in 1..2}
=============================================================================
