--------------------------- MODULE MCDeciderBudget ---------------------------
(* A small instance of DeciderBudget for TLC. *)
EXTENDS DeciderBudget

CONSTANTS h1, h2, left, right

NoCommands == <<>>
NoTimes == {}

\* A monitor the other host keeps taking anew (seqs only ever differ, so two
\* of them are enough to make a take new again and again), and another it
\* takes once.
Take(q) == [assignee |-> h2, prev |-> h1, arrived |-> FALSE, seq |-> q]
LoopStates ==
  {[owner |-> h2, activation |-> 1, live |-> {h2}, assignments |-> a] :
     a \in {[k \in {left} |-> Take(q)] : q \in 1..2}
          \cup {[k \in {left, right} |-> Take(1)]}}
=============================================================================
