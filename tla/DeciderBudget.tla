--------------------------- MODULE DeciderBudget ---------------------------
(***************************************************************************)
(* Decider with a history of what the rate limiter exists to bound: the    *)
(* moves this process attempted.  A move of a key is a job that wrote to   *)
(* its monitor or receiver at least once (a result other than ErrNotHere), *)
(* at the time the job was over.  The history is kept apart from the       *)
(* limiter's own memory and, like it, ends with the process.               *)
(***************************************************************************)
EXTENDS Decider

VARIABLES
  wrote,   \* the keys the job in flight wrote
  moves    \* per key, when the jobs that wrote it were over

budgetVars == <<m, now, wake, ds, disk, observed, wrote, moves>>

NoMoves == [k \in Keys |-> <<>>]
Written(results) == {k \in DOMAIN results : results[k] # "notHere"}
JobOver == \E i \in Saves(ds') : ds'[i].job # None

\* The history of a step in which the keys w were written.
Writing(w) ==
  LET all == wrote \cup w
  IN /\ wrote' = IF JobOver THEN {} ELSE all
     /\ moves' = [k \in Keys |-> IF JobOver /\ k \in all
                                 THEN Append(moves[k], now) ELSE moves[k]]

BudgetInit == Init /\ wrote = {} /\ moves = NoMoves

BudgetNext ==
  \/ OtherStep /\ Writing({})
  \/ \E results \in GiveAwayResults :
       ObserveGaveAway(results) /\ Writing(Written(results))
  \/ Restart /\ wrote' = {} /\ moves' = NoMoves

BudgetSpec == BudgetInit /\ [][BudgetNext]_budgetVars

-----------------------------------------------------------------------------
\* What the limiter is for: however the two hosts' takes alternate, one name
\* moves at most BreakerMax times in any window as long as the shorter of
\* BreakerWindow and BreakerPause.
WriteLoopBounded ==
  LET window == IF BreakerWindow <= BreakerPause THEN BreakerWindow ELSE BreakerPause
  IN \A k \in Keys :
       Cardinality({i \in DOMAIN moves[k] : moves[k][i] > now - window}) <= BreakerMax

=============================================================================
