--------------------------- MODULE DeciderProofs ---------------------------
(***************************************************************************)
(* Proofs about the decider, for any configuration, states of the server   *)
(* and results of the worker.                                              *)
(***************************************************************************)
EXTENDS DeciderBudget, FiniteSetTheorems, SequenceTheorems, WellFoundedInduction, TLAPS

-----------------------------------------------------------------------------
(* Induction over positions, by the least one where a claim fails.         *)

LEMMA LeastNat ==
  ASSUME NEW T \in SUBSET Nat, T # {}
  PROVE  \E x \in T : \A y \in T : x <= y
<1>1. PICK x \in T : \A y \in T : <<y, x>> \notin OpToRel(<, Nat)
  BY NatLessThanWellFounded, WFMin
<1>2. ASSUME NEW y \in T PROVE x <= y
  <2>1. <<y, x>> \notin OpToRel(<, Nat)
    BY <1>1
  <2>2. ~(y < x)
    BY <2>1 DEF OpToRel
  <2> QED BY <2>2
<1> QED BY <1>2

\* A set of numbers that has 0 and, with a number below n, the next one has all up to n.
LEMMA UpTo ==
  ASSUME NEW n \in Nat, NEW T, 0 \in T, \A i \in 0..n : i # n /\ i \in T => i + 1 \in T
  PROVE  0..n \subseteq T
<1> DEFINE Out == (0..n) \ T
<1> SUFFICES ASSUME Out # {} PROVE FALSE
  OBVIOUS
<1>1. Out \in SUBSET Nat
  OBVIOUS
<1> HIDE DEF Out
<1>2. PICK x \in Out : \A y \in Out : x <= y
  BY <1>1, LeastNat
<1>3. x \in 0..n /\ x \notin T
  BY DEF Out
<1>4. x # 0 /\ x - 1 \in 0..n /\ x - 1 # n
  BY <1>3
<1>5. x - 1 \notin Out
  BY <1>2, <1>3, <1>4
<1>6. x - 1 \in T
  BY <1>4, <1>5 DEF Out
<1>7. (x - 1) + 1 = x
  BY <1>3
<1> QED BY <1>3, <1>4, <1>6, <1>7

-----------------------------------------------------------------------------
(* AtPositions.                                                            *)

Keeps(s, P, n, f) ==
  f = [i \in 0..n |-> IF i = 0 THEN <<>>
                      ELSE IF i \in P THEN Append(f[i - 1], s[i]) ELSE f[i - 1]]

LEMMA KeepsExists ==
  ASSUME NEW s, NEW P, NEW n \in Nat
  PROVE  \E f : Keeps(s, P, n, f)
<1> DEFINE T == {i \in 0..n : \E f : Keeps(s, P, i, f)}
<1>1. 0 \in T
  <2> DEFINE f == [i \in 0..0 |-> <<>>]
  <2>1. Keeps(s, P, 0, f)
    BY DEF Keeps
  <2> QED BY <2>1
<1>2. ASSUME NEW i \in 0..n, i # n, i \in T
      PROVE  i + 1 \in T
  <2>1. PICK f : Keeps(s, P, i, f)
    BY <1>2
  <2> DEFINE g == [h \in 0..(i + 1) |->
                     IF h \in 0..i THEN f[h]
                     ELSE IF i + 1 \in P THEN Append(f[i], s[i + 1]) ELSE f[i]]
  <2>2. ASSUME NEW h \in 0..(i + 1)
        PROVE  g[h] = IF h = 0 THEN <<>>
                      ELSE IF h \in P THEN Append(g[h - 1], s[h]) ELSE g[h - 1]
    <3>1. CASE h = 0
      <4>1. f[0] = <<>> /\ 0 \in 0..i
        BY <2>1 DEF Keeps
      <4> QED BY <3>1, <4>1
    <3>2. CASE h \in 1..i
      <4>1. h \in 0..i /\ h - 1 \in 0..i /\ h # 0 /\ h - 1 \in 0..(i + 1)
        BY <3>2
      <4>2. f[h] = IF h \in P THEN Append(f[h - 1], s[h]) ELSE f[h - 1]
        BY <2>1, <4>1 DEF Keeps
      <4> QED BY <4>1, <4>2
    <3>3. CASE h = i + 1
      <4>1. h \notin 0..i /\ h - 1 = i /\ i \in 0..i /\ h # 0 /\ i \in 0..(i + 1)
        BY <3>3
      <4> QED BY <3>3, <4>1
    <3> QED BY <3>1, <3>2, <3>3
  <2>3. g = [h \in 0..(i + 1) |-> IF h = 0 THEN <<>>
                      ELSE IF h \in P THEN Append(g[h - 1], s[h]) ELSE g[h - 1]]
    <3>1. DOMAIN g = 0..(i + 1) /\ g = [h \in DOMAIN g |-> g[h]]
      OBVIOUS
    <3> HIDE DEF g
    <3> QED BY <2>2, <3>1
  <2>4. Keeps(s, P, i + 1, g)
    BY <2>3 DEF Keeps
  <2>5. i + 1 \in 0..n
    BY <1>2
  <2> QED BY <2>4, <2>5
<1>3. 0..n \subseteq T
  <2> HIDE DEF T
  <2> QED BY <1>1, <1>2, UpTo
<1>4. n \in 0..n
  OBVIOUS
<1> QED BY <1>3, <1>4

LEMMA KeepsUnique ==
  ASSUME NEW s, NEW r, NEW P, NEW Q, NEW n \in Nat, NEW m1 \in Nat, n <= m1,
         \A i \in 1..n : s[i] = r[i] /\ (i \in P <=> i \in Q),
         NEW f, NEW g, Keeps(s, P, n, f), Keeps(r, Q, m1, g)
  PROVE  \A i \in 0..n : f[i] = g[i]
<1> DEFINE T == {i \in 0..n : f[i] = g[i]}
<1>1. 0 \in T
  BY DEF Keeps
<1>2. ASSUME NEW i \in 0..n, i # n, i \in T
      PROVE  i + 1 \in T
  <2>1. /\ i + 1 \in 0..n /\ i + 1 \in 0..m1 /\ i + 1 # 0 /\ (i + 1) - 1 = i
        /\ i + 1 \in 1..n
    BY <1>2
  <2>2. f[i + 1] = IF i + 1 \in P THEN Append(f[i], s[i + 1]) ELSE f[i]
    BY <2>1 DEF Keeps
  <2>3. g[i + 1] = IF i + 1 \in Q THEN Append(g[i], r[i + 1]) ELSE g[i]
    BY <2>1 DEF Keeps
  <2> QED BY <1>2, <2>1, <2>2, <2>3
<1> HIDE DEF T
<1>3. 0..n \subseteq T
  BY <1>1, <1>2, UpTo
<1> QED BY <1>3 DEF T

LEMMA AtPositionsIs ==
  ASSUME NEW s, NEW P, Len(s) \in Nat
  PROVE  \E f : Keeps(s, P, Len(s), f) /\ AtPositions(s, P) = f[Len(s)]
<1> DEFINE f == CHOOSE f : Keeps(s, P, Len(s), f)
<1>1. Keeps(s, P, Len(s), f)
  BY KeepsExists
<1>2. AtPositions(s, P) = f[Len(s)]
  BY DEF AtPositions, Keeps
<1> QED BY <1>1, <1>2

LEMMA AtPositionsNone == ASSUME NEW P PROVE AtPositions(<<>>, P) = <<>>
<1>1. Len(<<>>) = 0
  OBVIOUS
<1>2. PICK f : Keeps(<<>>, P, 0, f) /\ AtPositions(<<>>, P) = f[0]
  BY <1>1, AtPositionsIs
<1> QED BY <1>2 DEF Keeps

LEMMA AtPositionsAppend ==
  ASSUME NEW S, NEW s \in Seq(S), NEW x \in S, NEW P, NEW Q,
         \A i \in 1..Len(s) : i \in P <=> i \in Q
  PROVE  AtPositions(Append(s, x), Q) =
           IF Len(s) + 1 \in Q THEN Append(AtPositions(s, P), x) ELSE AtPositions(s, P)
<1> DEFINE r == Append(s, x)
           n == Len(s)
<1>1. /\ n \in Nat /\ Len(r) = n + 1 /\ r[n + 1] = x
      /\ \A i \in 1..n : s[i] = r[i]
  BY AppendProperties, LenProperties
<1> HIDE DEF r, n
<1>2. PICK f : Keeps(s, P, n, f) /\ AtPositions(s, P) = f[n]
  BY <1>1, AtPositionsIs DEF n
<1>3. PICK g : Keeps(r, Q, n + 1, g) /\ AtPositions(r, Q) = g[n + 1]
  BY <1>1, AtPositionsIs
<1>4. \A i \in 0..n : f[i] = g[i]
  <2>1. n + 1 \in Nat /\ n <= n + 1
    BY <1>1
  <2> QED BY <1>1, <1>2, <1>3, <2>1, KeepsUnique DEF n
<1>5. g[n + 1] = IF n + 1 \in Q THEN Append(g[n], r[n + 1]) ELSE g[n]
  <2>1. n + 1 \in 0..(n + 1) /\ n + 1 # 0 /\ (n + 1) - 1 = n
    BY <1>1
  <2> QED BY <1>3, <2>1 DEF Keeps
<1>6. g[n] = f[n]
  BY <1>1, <1>4
<1> QED BY <1>1, <1>2, <1>3, <1>5, <1>6 DEF r, n

\* What is kept of s is of the kind of the elements at P.
LEMMA AtPositionsIn ==
  ASSUME NEW s, Len(s) \in Nat, NEW P, NEW T, \A i \in 1..Len(s) : i \in P => s[i] \in T
  PROVE  AtPositions(s, P) \in Seq(T)
<1> DEFINE n == Len(s)
<1>1. PICK f : Keeps(s, P, n, f) /\ AtPositions(s, P) = f[n]
  BY AtPositionsIs
<1> DEFINE U == {i \in 0..n : f[i] \in Seq(T)}
<1>2. 0 \in U
  BY <1>1 DEF Keeps
<1>3. ASSUME NEW i \in 0..n, i # n, i \in U
      PROVE  i + 1 \in U
  <2>1. i + 1 \in 0..n /\ i + 1 # 0 /\ (i + 1) - 1 = i /\ i + 1 \in 1..n
    BY <1>3
  <2>2. f[i + 1] = IF i + 1 \in P THEN Append(f[i], s[i + 1]) ELSE f[i]
    BY <1>1, <2>1 DEF Keeps
  <2>3. f[i] \in Seq(T) /\ (i + 1 \in P => s[i + 1] \in T)
    BY <1>3, <2>1
  <2>4. f[i + 1] \in Seq(T)
    BY <2>2, <2>3, AppendProperties
  <2> QED BY <2>1, <2>4
<1> HIDE DEF U
<1>4. 0..n \subseteq U
  BY <1>2, <1>3, UpTo
<1>5. n \in 0..n
  OBVIOUS
<1> QED BY <1>1, <1>4, <1>5 DEF U

-----------------------------------------------------------------------------
(* The invariant of a job: handled is h, and the time t.                   *)

TaskBounds(u, t) ==
  /\ u.attempts <= MaxAttempts /\ u.lastIssued <= t
  /\ u.status = "pending" => u.attempts = 0
  /\ u.status \in {"issued", "awaitingArrival", "failed"} => u.attempts > 0
  /\ u.status \in {"pending", "awaitingArrival", "failed"} => u.dropReason = "none"

\* What an ownership change may run.
CommandFits(c, o) ==
  /\ o.owner = Me => (c.cmd.run \in Takes => c.cmd.activation = o.activation)
  /\ o.owner # Me => c.cmd.run = "exec"

\* A task that is not over is about another host's take, not handled yet; only
\* one whose assignee was not live leaves the record.
AssignmentInv(k, u, q, h, t) ==
  /\ TaskBounds(u, t) /\ u.sentAt <= t
  /\ u.status = "awaitingArrival" => k \in Devices
  /\ u.assignment.assignee # Me /\ h.seqs[k] # u.assignment.seq
  /\ u.dropReason # "ownership moved"
  /\ u.status = "issued" => u.dropReason # "assignee not live"
  /\ u.status = "dropped" => u.dropReason # "none"
  /\ q = 0 <=> u.status = "dropped" /\ u.dropReason = "assignee not live"

JobInv(j, h, t) ==
  /\ j \in Jobs
  /\ \A i \in DOMAIN j.commands : TaskBounds(j.commands[i], t)
  /\ \A k \in DOMAIN j.assignments : AssignmentInv(k, j.assignments[k], j.seqs[k], h, t)
  /\ j.ownership = None => /\ DOMAIN j.commands = {}
                           /\ DOMAIN j.assignments # {} \/ j.seqs # NoSeqs
  /\ j.ownership # None => /\ DOMAIN j.assignments = {} /\ j.seqs = NoSeqs
                           /\ \A i \in DOMAIN j.commands : CommandFits(j.commands[i], j.ownership)

\* The state s still wants the give-away u of k.
Wants(s, k, u) ==
  /\ Current(s, k, u) /\ ~s.assignments[k].arrived
  /\ u.assignment.assignee \in s.live

PendingFits(j, s) ==
  \A k \in DOMAIN j.assignments :
    j.assignments[k].status = "pending" => Wants(s, k, j.assignments[k])
NothingPending(j) ==
  /\ \A k \in DOMAIN j.assignments : j.assignments[k].status # "pending"
  /\ \A i \in DOMAIN j.commands : j.commands[i].status # "pending"

AllPending(j) ==
  /\ \A k \in DOMAIN j.assignments : j.assignments[k].status = "pending"
  /\ \A i \in DOMAIN j.commands : j.commands[i].status = "pending"

\* The state s has been applied to j.
Unfinished == {"pending", "awaitingArrival", "failed"}
Applied(j, s) ==
  /\ \A k \in DOMAIN j.assignments :
       /\ j.assignments[k].status \in Unfinished => Wants(s, k, j.assignments[k])
       /\ j.assignments[k].status = "issued" /\ ~Current(s, k, j.assignments[k])
            => j.assignments[k].dropReason # "none"
  /\ \A i \in DOMAIN j.commands : CommandsExpired(j, s) =>
       /\ j.commands[i].status \notin Unfinished
       /\ j.commands[i].status = "issued" => j.commands[i].dropReason # "none"

LEMMA JobInvIs ==
  ASSUME NEW j \in Jobs, NEW h, NEW t,
         \A i \in DOMAIN j.commands : TaskBounds(j.commands[i], t),
         \A k \in DOMAIN j.assignments : AssignmentInv(k, j.assignments[k], j.seqs[k], h, t),
         j.ownership = None => /\ DOMAIN j.commands = {}
                               /\ DOMAIN j.assignments # {} \/ j.seqs # NoSeqs,
         j.ownership # None =>
           /\ DOMAIN j.assignments = {} /\ j.seqs = NoSeqs
           /\ \A i \in DOMAIN j.commands : CommandFits(j.commands[i], j.ownership)
  PROVE  JobInv(j, h, t)
BY DEF JobInv

\* What becomes of one task.
NextCommand(c, expired) == IF expired THEN Drop(c, "ownership moved") ELSE c
Dropped(k, u, s) ==
  CASE ~Current(s, k, u) -> Drop(u, "replaced")
    [] HeldBack(s, k, u) -> Drop(u, "assignee not live")
    [] OTHER -> u
Arrived(k, u, s) ==
  IF /\ u.status \in {"awaitingArrival", "failed"}
     /\ Current(s, k, u) /\ k \in Devices /\ s.assignments[k].arrived
  THEN [u EXCEPT !.status = "done"] ELSE u
Expired(u, t) ==
  IF u.status = "awaitingArrival" /\ t >= ArrivalDeadline(u)
  THEN [u EXCEPT !.status = "failed"] ELSE u
NextAssignment(k, u, s, t) == Expired(Arrived(k, Dropped(k, u, s), s), t)

LEMMA JobShape ==
  ASSUME NEW j \in Jobs
  PROVE  /\ j = [commands |-> j.commands, assignments |-> j.assignments,
                 ownership |-> j.ownership, seqs |-> j.seqs]
         /\ DOMAIN j.assignments \in SUBSET Keys
         /\ j.assignments \in [DOMAIN j.assignments -> AssignmentTasks]
         /\ j.commands \in Seq(CommandTasks)
         /\ j.ownership \in Ownership \cup {None} /\ j.seqs \in SeqMap
<1>1. j.assignments \in UNION {[K -> AssignmentTasks] : K \in SUBSET Keys}
  BY DEF Jobs
<1>2. PICK K \in SUBSET Keys : j.assignments \in [K -> AssignmentTasks]
  BY <1>1
<1> QED BY <1>2 DEF Jobs

LEMMA JobMade ==
  ASSUME NEW c \in Seq(CommandTasks), NEW K \in SUBSET Keys, NEW a \in [K -> AssignmentTasks],
         NEW o \in Ownership \cup {None}, NEW q \in SeqMap
  PROVE  [commands |-> c, assignments |-> a, ownership |-> o, seqs |-> q] \in Jobs
<1>1. a \in UNION {[D -> AssignmentTasks] : D \in SUBSET Keys}
  OBVIOUS
<1> QED BY <1>1 DEF Jobs

LEMMA WithAssignments ==
  ASSUME NEW c, NEW a, NEW o, NEW q, NEW b, NEW j, NEW w,
         j = [commands |-> c, assignments |-> a, ownership |-> o, seqs |-> q],
         w = [j EXCEPT !.assignments = b]
  PROVE  w = [commands |-> c, assignments |-> b, ownership |-> o, seqs |-> q]
OBVIOUS

LEMMA WithCommands ==
  ASSUME NEW c, NEW a, NEW o, NEW q, NEW b, NEW j, NEW w,
         j = [commands |-> c, assignments |-> a, ownership |-> o, seqs |-> q],
         w = [j EXCEPT !.commands = b]
  PROVE  w = [commands |-> b, assignments |-> a, ownership |-> o, seqs |-> q]
OBVIOUS

LEMMA WithSeqs ==
  ASSUME NEW c, NEW a, NEW o, NEW q, NEW b, NEW r, NEW j, NEW w,
         j = [commands |-> c, assignments |-> a, ownership |-> o, seqs |-> q],
         w = [j EXCEPT !.assignments = b, !.seqs = r]
  PROVE  w = [commands |-> c, assignments |-> b, ownership |-> o, seqs |-> r]
OBVIOUS

LEMMA WithBoth ==
  ASSUME NEW c, NEW a, NEW o, NEW q, NEW b, NEW d, NEW j, NEW w,
         j = [commands |-> c, assignments |-> a, ownership |-> o, seqs |-> q],
         w = [j EXCEPT !.commands = d, !.assignments = b]
  PROVE  w = [commands |-> d, assignments |-> b, ownership |-> o, seqs |-> q]
OBVIOUS

\* ApplyState and Expire, task by task.
LEMMA AppliedJob ==
  ASSUME NEW j \in Jobs, NEW s, s # None, NEW t
  PROVE  Expire(t, ApplyState(j, s)) =
           [commands |-> [i \in DOMAIN j.commands |->
                            NextCommand(j.commands[i], CommandsExpired(j, s))],
            assignments |-> [k \in DOMAIN j.assignments |->
                               NextAssignment(k, j.assignments[k], s, t)],
            ownership |-> j.ownership,
            seqs |-> [k \in Keys |->
                        IF k \in DOMAIN j.assignments /\ HeldBack(s, k, j.assignments[k])
                        THEN 0 ELSE j.seqs[k]]]
<1> DEFINE c1 == [i \in DOMAIN j.commands |->
                    NextCommand(j.commands[i], CommandsExpired(j, s))]
           q2 == [k \in Keys |->
                        IF k \in DOMAIN j.assignments /\ HeldBack(s, k, j.assignments[k])
                        THEN 0 ELSE j.seqs[k]]
           a2 == [k \in DOMAIN j.assignments |-> Dropped(k, j.assignments[k], s)]
           a3 == [k \in DOMAIN j.assignments |-> Arrived(k, a2[k], s)]
           a4 == [k \in DOMAIN j.assignments |-> Expired(a3[k], t)]
           j1 == [commands |-> c1, assignments |-> j.assignments,
                  ownership |-> j.ownership, seqs |-> j.seqs]
           j2 == [commands |-> c1, assignments |-> a2, ownership |-> j.ownership, seqs |-> q2]
           j3 == [commands |-> c1, assignments |-> a3, ownership |-> j.ownership, seqs |-> q2]
           j4 == [commands |-> c1, assignments |-> a4, ownership |-> j.ownership, seqs |-> q2]
<1>1. j = [commands |-> j.commands, assignments |-> j.assignments,
           ownership |-> j.ownership, seqs |-> j.seqs]
  BY JobShape
<1>2. DropExpiredCommands(j, s) = j1
  <2>1. CASE CommandsExpired(j, s)
    BY <1>1, <2>1 DEF DropExpiredCommands, NextCommand
  <2>2. CASE ~CommandsExpired(j, s)
    <3>1. c1 = j.commands
      <4>1. j.commands \in Seq(CommandTasks)
        BY JobShape
      <4>2. j.commands = [i \in DOMAIN j.commands |-> j.commands[i]]
        BY <4>1
      <4> QED BY <2>2, <4>2 DEF NextCommand
    <3> HIDE DEF c1
    <3> QED BY <1>1, <2>2, <3>1 DEF DropExpiredCommands
  <2> QED BY <2>1, <2>2
<1> HIDE DEF c1
<1>3. DropExpiredAssignments(j1, s) = j2
  <2>1. j1.assignments = j.assignments /\ j1.seqs = j.seqs
    OBVIOUS
  <2>2. j1 = [commands |-> c1, assignments |-> j.assignments,
              ownership |-> j.ownership, seqs |-> j.seqs]
    OBVIOUS
  <2> DEFINE w == DropExpiredAssignments(j1, s)
  <2> HIDE DEF j1
  <2>3. w = [j1 EXCEPT !.assignments = a2, !.seqs = q2]
    BY <2>1 DEF DropExpiredAssignments, Dropped
  <2> HIDE DEF w, a2, q2
  <2>4. w = [commands |-> c1, assignments |-> a2, ownership |-> j.ownership, seqs |-> q2]
    BY <2>2, <2>3, WithSeqs
  <2> QED BY <2>4 DEF w
<1>4. MarkArrived(j2, s) = j3
  <2> HIDE DEF q2
  <2>1. j2.assignments = a2 /\ DOMAIN a2 = DOMAIN j.assignments
    OBVIOUS
  <2>2. j2 = [commands |-> c1, assignments |-> a2, ownership |-> j.ownership, seqs |-> q2]
    OBVIOUS
  <2> DEFINE w == MarkArrived(j2, s)
  <2> HIDE DEF j2, a2
  <2>3. w = [j2 EXCEPT !.assignments = a3]
    BY <2>1 DEF MarkArrived, Arrived
  <2> HIDE DEF w, a3
  <2>4. w = [commands |-> c1, assignments |-> a3, ownership |-> j.ownership, seqs |-> q2]
    BY <2>2, <2>3, WithAssignments
  <2> QED BY <2>4 DEF w
<1>5. Expire(t, j3) = j4
  <2> HIDE DEF q2
  <2>1. j3.assignments = a3 /\ DOMAIN a3 = DOMAIN j.assignments
    OBVIOUS
  <2>2. j3 = [commands |-> c1, assignments |-> a3, ownership |-> j.ownership, seqs |-> q2]
    OBVIOUS
  <2> DEFINE w == Expire(t, j3)
  <2> HIDE DEF j3, a3
  <2>3. w = [j3 EXCEPT !.assignments = a4]
    BY <2>1 DEF Expire, Expired
  <2> HIDE DEF w, a4
  <2>4. w = [commands |-> c1, assignments |-> a4, ownership |-> j.ownership, seqs |-> q2]
    BY <2>2, <2>3, WithAssignments
  <2> QED BY <2>4 DEF w
<1>6. Expire(t, ApplyState(j, s)) = j4
  <2> HIDE DEF j1, j2, j3, j4
  <2> QED BY <1>2, <1>3, <1>4, <1>5 DEF ApplyState
<1>7. a4 = [k \in DOMAIN j.assignments |-> NextAssignment(k, j.assignments[k], s, t)]
  BY DEF NextAssignment
<1> HIDE DEF a4, q2
<1> QED BY <1>6, <1>7 DEF c1, q2

\* What the record keeps of k.
NextSeq(k, u, q, s) == IF HeldBack(s, k, u) THEN 0 ELSE q

LEMMA DroppedInv ==
  ASSUME NEW k, NEW u \in AssignmentTasks, NEW q \in Nat, NEW h, NEW t \in Nat, NEW s,
         AssignmentInv(k, u, q, h, t)
  PROVE  LET v == Dropped(k, u, s)
         IN /\ v \in AssignmentTasks /\ AssignmentInv(k, v, NextSeq(k, u, q, s), h, t)
            /\ v.assignment = u.assignment /\ v.triedToMove = u.triedToMove
            /\ v.status = u.status \/ (v.status = "dropped" /\ u.status # "issued")
            /\ v.status \in Unfinished =>
                 Current(s, k, v) /\ v.assignment.assignee \in s.live
            /\ v.status = "issued" /\ ~Current(s, k, v) => v.dropReason # "none"
<1> DEFINE v == Dropped(k, u, s)
<1>1. CASE ~Current(s, k, u)
  <2>1. v = Drop(u, "replaced") /\ ~HeldBack(s, k, u)
    BY <1>1 DEF Dropped, HeldBack
  <2>2. CASE u.status \in {"done", "dropped"}
    <3>1. v = u
      BY <2>1, <2>2 DEF Drop
    <3> QED BY <1>1, <2>1, <2>2, <3>1 DEF NextSeq, Unfinished, AssignmentTasks
  <2>3. CASE u.status = "issued"
    <3>1. v = [u EXCEPT !.dropReason = IF @ = "none" THEN "replaced" ELSE @]
      BY <2>1, <2>3 DEF Drop
    <3> QED BY <1>1, <2>1, <2>3, <3>1
            DEF NextSeq, Unfinished, AssignmentTasks, AssignmentInv, TaskBounds, DropReasons, Current
  <2>4. CASE u.status \notin {"done", "dropped", "issued"}
    <3>1. v = [u EXCEPT !.status = "dropped", !.dropReason = "replaced"]
      BY <2>1, <2>4 DEF Drop
    <3> QED BY <1>1, <2>1, <2>4, <3>1
            DEF NextSeq, Unfinished, AssignmentTasks, AssignmentInv, TaskBounds, DropReasons,
                Current, Statuses
  <2> QED BY <2>2, <2>3, <2>4
<1>2. CASE Current(s, k, u) /\ HeldBack(s, k, u)
  <2>1. u.status \notin {"issued", "done", "dropped"}
    BY <1>2 DEF HeldBack
  <2>2. v = [u EXCEPT !.status = "dropped", !.dropReason = "assignee not live"]
    BY <1>2, <2>1 DEF Dropped, Drop
  <2> QED BY <1>2, <2>1, <2>2
          DEF NextSeq, Unfinished, AssignmentTasks, AssignmentInv, TaskBounds, DropReasons, Statuses
<1>3. CASE Current(s, k, u) /\ ~HeldBack(s, k, u)
  <2>1. v = u
    BY <1>3 DEF Dropped
  <2> QED BY <1>3, <2>1 DEF NextSeq, Unfinished, HeldBack, AssignmentTasks
<1> QED BY <1>1, <1>2, <1>3

LEMMA ArrivedInv ==
  ASSUME NEW k \in Keys, NEW u \in AssignmentTasks, NEW q \in Nat, NEW h, NEW t \in Nat, NEW s,
         IsServerState(s), AssignmentInv(k, u, q, h, t),
         u.status = "pending" => Wants(s, k, u),
         u.status \in Unfinished => Current(s, k, u) /\ u.assignment.assignee \in s.live
  PROVE  LET v == Arrived(k, u, s)
         IN /\ v \in AssignmentTasks /\ AssignmentInv(k, v, q, h, t)
            /\ v.assignment = u.assignment /\ v.triedToMove = u.triedToMove
            /\ v.dropReason = u.dropReason
            /\ v.status = u.status \/ (v.status = "done" /\ u.status # "issued")
            /\ v.status \in Unfinished => Wants(s, k, v)
<1> DEFINE v == Arrived(k, u, s)
           came == /\ u.status \in {"awaitingArrival", "failed"}
                   /\ Current(s, k, u) /\ k \in Devices /\ s.assignments[k].arrived
<1>1. CASE came
  <2>1. v = [u EXCEPT !.status = "done"]
    BY <1>1 DEF Arrived
  <2> QED BY <1>1, <2>1 DEF Unfinished, AssignmentTasks, AssignmentInv, TaskBounds, Statuses
<1>2. CASE ~came
  <2>1. v = u
    BY <1>2 DEF Arrived
  <2>2. u.status \in Unfinished => Wants(s, k, u)
    <3> SUFFICES ASSUME u.status \in {"awaitingArrival", "failed"} PROVE Wants(s, k, u)
      BY DEF Unfinished
    <3>1. k \in DOMAIN s.assignments /\ Current(s, k, u) /\ u.assignment.assignee \in s.live
      BY DEF Unfinished, Current
    <3>2. ~s.assignments[k].arrived
      BY <1>2, <3>1 DEF IsServerState, Keys
    <3> QED BY <3>1, <3>2 DEF Wants
  <2> QED BY <2>1, <2>2
<1> QED BY <1>1, <1>2

LEMMA ExpiredInv ==
  ASSUME NEW k, NEW u \in AssignmentTasks, NEW q, NEW h, NEW t \in Nat, NEW s,
         NEW v \in {Expired(u, t)},
         AssignmentInv(k, u, q, h, t), u.status \in Unfinished => Wants(s, k, u)
  PROVE  /\ v \in AssignmentTasks /\ AssignmentInv(k, v, q, h, t)
         /\ v.assignment = u.assignment /\ v.triedToMove = u.triedToMove
         /\ v.dropReason = u.dropReason
         /\ v.status = u.status \/ (v.status = "failed" /\ u.status = "awaitingArrival")
         /\ v.status \in Unfinished => Wants(s, k, v)
         /\ v.status = "awaitingArrival" => t < ArrivalDeadline(v)
<1> DEFINE late == u.status = "awaitingArrival" /\ t >= ArrivalDeadline(u)
<1>1. CASE late
  <2>1. v = [u EXCEPT !.status = "failed"]
    BY <1>1 DEF Expired
  <2>2. v \in AssignmentTasks
    BY <2>1 DEF AssignmentTasks, Statuses
  <2>3. /\ v.status = "failed" /\ v.assignment = u.assignment /\ v.triedToMove = u.triedToMove
        /\ v.dropReason = u.dropReason /\ v.attempts = u.attempts
        /\ v.lastIssued = u.lastIssued /\ v.sentAt = u.sentAt /\ u.status = "awaitingArrival"
    BY <1>1, <2>1 DEF AssignmentTasks
  <2>4. AssignmentInv(k, v, q, h, t)
    BY <2>3 DEF AssignmentInv, TaskBounds
  <2>5. Wants(s, k, v)
    BY <2>3 DEF Unfinished, Wants, Current
  <2> QED BY <2>2, <2>3, <2>4, <2>5
<1>2. CASE ~late
  <2>1. v = u
    BY <1>2 DEF Expired
  <2>2. ArrivalDeadline(u) \in Int
    BY TimingAssumption DEF ArrivalDeadline, AssignmentTasks
  <2>3. u.status = "awaitingArrival" => t < ArrivalDeadline(u)
    BY <1>2, <2>2
  <2> QED BY <2>1, <2>3
<1> QED BY <1>1, <1>2

LEMMA NextAssignmentInv ==
  ASSUME NEW k \in Keys, NEW u \in AssignmentTasks, NEW q \in Nat, NEW h, NEW t \in Nat, NEW s,
         IsServerState(s), AssignmentInv(k, u, q, h, t), u.status = "pending" => Wants(s, k, u)
  PROVE  LET v == NextAssignment(k, u, s, t)
         IN /\ v \in AssignmentTasks /\ AssignmentInv(k, v, NextSeq(k, u, q, s), h, t)
            /\ v.assignment = u.assignment /\ v.triedToMove = u.triedToMove
            /\ v.status \in Unfinished => Wants(s, k, v)
            /\ v.status = "issued" <=> u.status = "issued"
            /\ v.status = "pending" => u.status = "pending"
            /\ v.status = "issued" /\ ~Current(s, k, v) => v.dropReason # "none"
            /\ v.status = "awaitingArrival" => t < ArrivalDeadline(v)
<1> DEFINE a == Dropped(k, u, s)
           b == Arrived(k, a, s)
           v == Expired(b, t)
           r == NextSeq(k, u, q, s)
<1>1. /\ a \in AssignmentTasks /\ AssignmentInv(k, a, r, h, t)
      /\ a.assignment = u.assignment /\ a.triedToMove = u.triedToMove
      /\ a.status = u.status \/ (a.status = "dropped" /\ u.status # "issued")
      /\ a.status \in Unfinished => Current(s, k, a) /\ a.assignment.assignee \in s.live
      /\ a.status = "issued" /\ ~Current(s, k, a) => a.dropReason # "none"
  BY DroppedInv
<1>2. a.status = "pending" => Wants(s, k, a)
  BY <1>1 DEF Wants, Current
<1>3. r \in Nat
  BY DEF NextSeq
<1> HIDE DEF a, r
<1>4. /\ b \in AssignmentTasks /\ AssignmentInv(k, b, r, h, t)
      /\ b.assignment = a.assignment /\ b.triedToMove = a.triedToMove
      /\ b.dropReason = a.dropReason
      /\ b.status = a.status \/ (b.status = "done" /\ a.status # "issued")
      /\ b.status \in Unfinished => Wants(s, k, b)
  BY <1>1, <1>2, <1>3, ArrivedInv
<1> HIDE DEF b
<1>10. v \in {Expired(b, t)}
  OBVIOUS
<1>6. NextAssignment(k, u, s, t) = v
  BY DEF NextAssignment, a, b
<1> HIDE DEF v
<1>5. /\ v \in AssignmentTasks /\ AssignmentInv(k, v, r, h, t)
      /\ v.assignment = b.assignment /\ v.triedToMove = b.triedToMove
      /\ v.dropReason = b.dropReason
      /\ v.status = b.status \/ (v.status = "failed" /\ b.status = "awaitingArrival")
      /\ v.status \in Unfinished => Wants(s, k, v)
      /\ v.status = "awaitingArrival" => t < ArrivalDeadline(v)
  <2>1. b \in AssignmentTasks
    BY <1>4
  <2>2. AssignmentInv(k, b, r, h, t)
    BY <1>4
  <2>3. b.status \in Unfinished => Wants(s, k, b)
    BY <1>4
  <2> QED BY <1>10, <2>1, <2>2, <2>3, ExpiredInv
<1>7. v.status = "issued" /\ ~Current(s, k, v) => v.dropReason # "none"
  BY <1>1, <1>4, <1>5 DEF Current
<1>8. v.status = "issued" <=> u.status = "issued"
  BY <1>1, <1>4, <1>5
<1>9. v.status = "pending" => u.status = "pending"
  BY <1>1, <1>4, <1>5
<1> QED BY <1>1, <1>4, <1>5, <1>6, <1>7, <1>8, <1>9 DEF r

\* When there is nothing left to change.
LEMMA NextAssignmentSame ==
  ASSUME NEW k \in Keys, NEW u \in AssignmentTasks, NEW t, NEW s,
         u.status \in Unfinished => Wants(s, k, u),
         u.status = "issued" /\ ~Current(s, k, u) => u.dropReason # "none",
         u.status = "awaitingArrival" => ~(t >= ArrivalDeadline(u))
  PROVE  NextAssignment(k, u, s, t) = u /\ ~HeldBack(s, k, u)
<1>1. ~HeldBack(s, k, u)
  BY DEF HeldBack, Wants, Unfinished, AssignmentTasks, Statuses
<1>2. Dropped(k, u, s) = u
  <2>1. CASE Current(s, k, u)
    BY <1>1, <2>1 DEF Dropped
  <2>2. CASE ~Current(s, k, u)
    <3>1. u.status \in {"done", "dropped"} \/ (u.status = "issued" /\ u.dropReason # "none")
      BY <2>2 DEF Wants, Unfinished, AssignmentTasks, Statuses
    <3>2. CASE u.status \in {"done", "dropped"}
      BY <2>2, <3>2 DEF Dropped, Drop
    <3>3. CASE u.status = "issued" /\ u.dropReason # "none"
      <4>1. Dropped(k, u, s) = [u EXCEPT !.dropReason = IF @ = "none" THEN "replaced" ELSE @]
        BY <2>2, <3>3 DEF Dropped, Drop
      <4> QED BY <3>3, <4>1 DEF AssignmentTasks
    <3> QED BY <3>1, <3>2, <3>3
  <2> QED BY <2>1, <2>2
<1>3. Arrived(k, u, s) = u
  BY DEF Arrived, Wants, Unfinished
<1>4. Expired(u, t) = u
  BY DEF Expired
<1> QED BY <1>1, <1>2, <1>3, <1>4 DEF NextAssignment

LEMMA NextCommandInv ==
  ASSUME NEW c \in CommandTasks, NEW t, TaskBounds(c, t), NEW expired \in BOOLEAN
  PROVE  LET d == NextCommand(c, expired)
         IN /\ d \in CommandTasks /\ TaskBounds(d, t) /\ d.cmd = c.cmd
            /\ d.status = "issued" <=> c.status = "issued"
            /\ d.status = "pending" => c.status = "pending"
            /\ expired => /\ d.status \notin Unfinished
                          /\ d.status = "issued" => d.dropReason # "none"
<1> DEFINE d == NextCommand(c, expired)
<1>1. CASE expired /\ c.status = "issued"
  <2>1. d = [c EXCEPT !.dropReason = IF @ = "none" THEN "ownership moved" ELSE @]
    BY <1>1 DEF NextCommand, Drop
  <2> QED BY <1>1, <2>1 DEF CommandTasks, TaskBounds, DropReasons, Unfinished
<1>2. CASE expired /\ c.status \in {"done", "dropped"}
  <2>1. d = c
    BY <1>2 DEF NextCommand, Drop
  <2> QED BY <1>2, <2>1 DEF Unfinished, CommandTasks
<1>3. CASE expired /\ c.status \notin {"issued", "done", "dropped"}
  <2>1. d = [c EXCEPT !.status = "dropped", !.dropReason = "ownership moved"]
    BY <1>3 DEF NextCommand, Drop
  <2> QED BY <1>3, <2>1 DEF CommandTasks, TaskBounds, DropReasons, Unfinished, Statuses
<1>4. CASE ~expired
  BY <1>4 DEF NextCommand, CommandTasks
<1> QED BY <1>1, <1>2, <1>3, <1>4

LEMMA NextCommandSame ==
  ASSUME NEW c \in CommandTasks, NEW expired \in BOOLEAN,
         expired => /\ c.status \notin Unfinished
                    /\ c.status = "issued" => c.dropReason # "none"
  PROVE  NextCommand(c, expired) = c
<1>1. CASE expired /\ c.status = "issued"
  <2>1. NextCommand(c, expired) = [c EXCEPT !.dropReason = IF @ = "none" THEN "ownership moved" ELSE @]
    BY <1>1 DEF NextCommand, Drop
  <2> QED BY <1>1, <2>1 DEF CommandTasks
<1>2. CASE expired /\ c.status # "issued"
  BY <1>2 DEF NextCommand, Drop, CommandTasks, Unfinished, Statuses
<1>3. CASE ~expired
  BY <1>3 DEF NextCommand
<1> QED BY <1>1, <1>2, <1>3

\* A state applied: the job keeps its invariant, and what is left of it the
\* state still wants.
LEMMA AppliedInv ==
  ASSUME NEW j, NEW h, NEW t \in Nat, JobInv(j, h, t), NEW s, s # None, IsServerState(s),
         PendingFits(j, s), NEW j2, j2 = Expire(t, ApplyState(j, s))
  PROVE  /\ JobInv(j2, h, t) /\ Applied(j2, s)
         /\ j2.ownership = j.ownership
         /\ DOMAIN j2.assignments = DOMAIN j.assignments
         /\ DOMAIN j2.commands = DOMAIN j.commands
         /\ \A k \in DOMAIN j.assignments :
              /\ j2.assignments[k].assignment = j.assignments[k].assignment
              /\ j2.assignments[k].triedToMove = j.assignments[k].triedToMove
              /\ j2.assignments[k].status = "issued" <=> j.assignments[k].status = "issued"
              /\ j2.assignments[k].status = "pending" => j.assignments[k].status = "pending"
              /\ j2.assignments[k].status = "awaitingArrival" =>
                   t < ArrivalDeadline(j2.assignments[k])
         /\ \A i \in DOMAIN j.commands :
              /\ j2.commands[i].status = "issued" <=> j.commands[i].status = "issued"
              /\ j2.commands[i].status = "pending" => j.commands[i].status = "pending"
<1> DEFINE A == DOMAIN j.assignments
           C == DOMAIN j.commands
           e == CommandsExpired(j, s)
<1>1. /\ j \in Jobs /\ A \in SUBSET Keys /\ j.assignments \in [A -> AssignmentTasks]
      /\ j.commands \in Seq(CommandTasks) /\ j.ownership \in Ownership \cup {None}
      /\ j.seqs \in SeqMap
  BY JobShape DEF JobInv
<1>2. /\ j2.commands = [i \in C |-> NextCommand(j.commands[i], e)]
      /\ j2.assignments = [k \in A |-> NextAssignment(k, j.assignments[k], s, t)]
      /\ j2.ownership = j.ownership
      /\ j2.seqs = [k \in Keys |-> IF k \in A /\ HeldBack(s, k, j.assignments[k])
                                   THEN 0 ELSE j.seqs[k]]
      /\ j2 = [commands |-> j2.commands, assignments |-> j2.assignments,
               ownership |-> j2.ownership, seqs |-> j2.seqs]
  BY <1>1, AppliedJob
<1>3. e \in BOOLEAN
  BY DEF CommandsExpired
<1>4. ASSUME NEW k \in A
      PROVE  LET u == j.assignments[k]
                 v == j2.assignments[k]
             IN /\ v \in AssignmentTasks /\ AssignmentInv(k, v, j2.seqs[k], h, t)
                /\ v.assignment = u.assignment /\ v.triedToMove = u.triedToMove
                /\ v.status \in Unfinished => Wants(s, k, v)
                /\ v.status = "issued" <=> u.status = "issued"
                /\ v.status = "pending" => u.status = "pending"
                /\ v.status = "issued" /\ ~Current(s, k, v) => v.dropReason # "none"
                /\ v.status = "awaitingArrival" => t < ArrivalDeadline(v)
  <2> DEFINE u == j.assignments[k]
  <2>1. k \in Keys /\ u \in AssignmentTasks /\ j.seqs[k] \in Nat
    BY <1>1, <1>4 DEF SeqMap
  <2>2. AssignmentInv(k, u, j.seqs[k], h, t) /\ (u.status = "pending" => Wants(s, k, u))
    BY <1>4 DEF JobInv, PendingFits
  <2>3. /\ j2.assignments[k] = NextAssignment(k, u, s, t)
        /\ j2.seqs[k] = NextSeq(k, u, j.seqs[k], s)
    BY <1>2, <1>4, <2>1 DEF NextSeq
  <2> HIDE DEF u
  <2> QED BY <2>1, <2>2, <2>3, NextAssignmentInv DEF u
<1>5. ASSUME NEW i \in C
      PROVE  LET c == j.commands[i]
                 d == j2.commands[i]
             IN /\ d \in CommandTasks /\ TaskBounds(d, t) /\ d.cmd = c.cmd
                /\ d.status = "issued" <=> c.status = "issued"
                /\ d.status = "pending" => c.status = "pending"
                /\ e => /\ d.status \notin Unfinished
                        /\ d.status = "issued" => d.dropReason # "none"
  <2> DEFINE c == j.commands[i]
  <2>1. c \in CommandTasks /\ TaskBounds(c, t) /\ j2.commands[i] = NextCommand(c, e)
    BY <1>1, <1>2, <1>5 DEF JobInv
  <2> HIDE DEF c, e
  <2> QED BY <1>3, <2>1, NextCommandInv DEF c
<1>6. /\ DOMAIN j2.assignments = A /\ DOMAIN j2.commands = C
      /\ j2.assignments \in [A -> AssignmentTasks]
  BY <1>2, <1>4
<1>7. j2.commands \in Seq(CommandTasks)
  <2>1. C = 1..Len(j.commands) /\ Len(j.commands) \in Nat
    BY <1>1
  <2>2. j2.commands \in [1..Len(j.commands) -> CommandTasks]
    BY <1>2, <1>5, <2>1
  <2> QED BY <2>1, <2>2
<1>8. j2.seqs \in SeqMap
  BY <1>1, <1>2 DEF SeqMap
<1>9. j2 \in Jobs
  <2> DEFINE w == [commands |-> j2.commands, assignments |-> j2.assignments,
                   ownership |-> j2.ownership, seqs |-> j2.seqs]
  <2>1. j2.ownership \in Ownership \cup {None}
    BY <1>1, <1>2
  <2>2. w \in Jobs
    BY <1>1, <1>6, <1>7, <1>8, <2>1, JobMade
  <2>3. j2 = w
    BY <1>2
  <2> HIDE DEF w
  <2> QED BY <2>2, <2>3
<1>10. CommandsExpired(j2, s) <=> e
  BY <1>2 DEF CommandsExpired
<1>11. Applied(j2, s)
  BY <1>4, <1>5, <1>6, <1>10 DEF Applied
<1>12. j2.ownership = None => /\ DOMAIN j2.commands = {}
                              /\ DOMAIN j2.assignments # {} \/ j2.seqs # NoSeqs
  <2> SUFFICES ASSUME j2.ownership = None
               PROVE  C = {} /\ (A # {} \/ j2.seqs # NoSeqs)
    BY <1>6
  <2>1. C = {} /\ (A # {} \/ j.seqs # NoSeqs)
    BY <1>2 DEF JobInv
  <2>2. A = {} => j2.seqs = j.seqs
    BY <1>1, <1>2 DEF SeqMap
  <2> QED BY <2>1, <2>2
<1>13. j2.ownership # None =>
         /\ DOMAIN j2.assignments = {} /\ j2.seqs = NoSeqs
         /\ \A i \in DOMAIN j2.commands : CommandFits(j2.commands[i], j2.ownership)
  <2> SUFFICES ASSUME j2.ownership # None
               PROVE  /\ A = {} /\ j2.seqs = NoSeqs
                      /\ \A i \in C : CommandFits(j2.commands[i], j.ownership)
    BY <1>2, <1>6
  <2>1. A = {} /\ j.seqs = NoSeqs /\ \A i \in C : CommandFits(j.commands[i], j.ownership)
    BY <1>2 DEF JobInv
  <2>2. j2.seqs = j.seqs
    BY <1>1, <1>2, <2>1 DEF SeqMap
  <2>3. \A i \in C : CommandFits(j2.commands[i], j.ownership)
    BY <1>5, <2>1 DEF CommandFits
  <2> QED BY <2>1, <2>2, <2>3
<1>14. JobInv(j2, h, t)
  <2>1. \A i \in DOMAIN j2.commands : TaskBounds(j2.commands[i], t)
    BY <1>5, <1>6
  <2>2. \A k \in DOMAIN j2.assignments : AssignmentInv(k, j2.assignments[k], j2.seqs[k], h, t)
    BY <1>4, <1>6
  <2> HIDE DEF A, C, e
  <2> HIDE DEF A, C, e
  <2> QED BY <1>9, <1>12, <1>13, <2>1, <2>2, JobInvIs
<1> QED BY <1>2, <1>4, <1>5, <1>6, <1>11, <1>14

\* A state applied once changes nothing more, until a window closes.
LEMMA AppliedSame ==
  ASSUME NEW j \in Jobs, NEW t, NEW s, s # None, Applied(j, s),
         \A k \in DOMAIN j.assignments : j.assignments[k].status = "awaitingArrival" =>
           ~(t >= ArrivalDeadline(j.assignments[k])),
         NEW w, w = Expire(t, ApplyState(j, s))
  PROVE  w = j
<1> DEFINE A == DOMAIN j.assignments
           C == DOMAIN j.commands
           e == CommandsExpired(j, s)
<1>1. /\ j = [commands |-> j.commands, assignments |-> j.assignments,
              ownership |-> j.ownership, seqs |-> j.seqs]
      /\ A \in SUBSET Keys /\ j.assignments \in [A -> AssignmentTasks]
      /\ j.commands \in Seq(CommandTasks) /\ j.seqs \in SeqMap
  BY JobShape
<1>2. ASSUME NEW k \in A
      PROVE  /\ NextAssignment(k, j.assignments[k], s, t) = j.assignments[k]
             /\ ~HeldBack(s, k, j.assignments[k])
  <2> DEFINE u == j.assignments[k]
  <2>1. /\ k \in Keys /\ u \in AssignmentTasks
        /\ u.status \in Unfinished => Wants(s, k, u)
        /\ u.status = "issued" /\ ~Current(s, k, u) => u.dropReason # "none"
        /\ u.status = "awaitingArrival" => ~(t >= ArrivalDeadline(u))
    BY <1>1, <1>2 DEF Applied
  <2> HIDE DEF u
  <2> QED BY <2>1, NextAssignmentSame DEF u
<1>3. ASSUME NEW i \in C
      PROVE  NextCommand(j.commands[i], e) = j.commands[i]
  <2> DEFINE c == j.commands[i]
  <2>1. /\ c \in CommandTasks
        /\ e => /\ c.status \notin Unfinished
                /\ c.status = "issued" => c.dropReason # "none"
    BY <1>1, <1>3 DEF Applied
  <2>2. e \in BOOLEAN
    BY DEF CommandsExpired
  <2> HIDE DEF c, e
  <2> QED BY <2>1, <2>2, NextCommandSame DEF c
<1>4. w = [commands |-> [i \in C |-> NextCommand(j.commands[i], e)],
           assignments |-> [k \in A |-> NextAssignment(k, j.assignments[k], s, t)],
           ownership |-> j.ownership,
           seqs |-> [k \in Keys |-> IF k \in A /\ HeldBack(s, k, j.assignments[k])
                                    THEN 0 ELSE j.seqs[k]]]
  BY AppliedJob
<1>5. [i \in C |-> NextCommand(j.commands[i], e)] = j.commands
  <2>1. j.commands = [i \in C |-> j.commands[i]]
    BY <1>1
  <2> QED BY <1>3, <2>1
<1>6. [k \in A |-> NextAssignment(k, j.assignments[k], s, t)] = j.assignments
  <2>1. j.assignments = [k \in A |-> j.assignments[k]]
    BY <1>1
  <2> QED BY <1>2, <2>1
<1>7. [k \in Keys |-> IF k \in A /\ HeldBack(s, k, j.assignments[k]) THEN 0 ELSE j.seqs[k]]
        = j.seqs
  <2>1. j.seqs = [k \in Keys |-> j.seqs[k]]
    BY <1>1 DEF SeqMap
  <2> QED BY <1>2, <2>1
<1> QED BY <1>1, <1>4, <1>5, <1>6, <1>7

-----------------------------------------------------------------------------
(* The loop of advanceTime, round by round.                                *)

Limiters == [recent : [Keys -> Seq(Nat)], trippedAt : Nat]
Deciders == [handled : Handled \cup {None}, job : Jobs \cup {None}, limiter : Limiters,
             latest : ServerStates \cup {None}, lastAttach : Nat, claimedAttach : Nat]
Shaped(x) == x = [m |-> x.m, ds |-> x.ds, more |-> x.more] /\ x.more \in BOOLEAN
Advanced(t, d) == Expire(t, ApplyState(d.job, d.latest))
NextJob(t, d) == IF d.latest = None THEN None ELSE Reconcile(d, t)

\* The outcomes of one round that starts at the decider d.
RoundBusy(t, x, y) ==
  /\ x.m.job # None /\ Busy(Advanced(t, x.m))
  /\ y.m = [x.m EXCEPT !.job = Advanced(t, x.m)] /\ y.ds = x.ds /\ ~y.more
RoundWaits(t, x, y) ==
  LET j == Advanced(t, x.m)
  IN /\ x.m.job # None /\ ~Busy(j) /\ ~Settled(j)
     /\ y.m = [x.m EXCEPT !.job = Issue(t, j)] /\ ~y.more
     /\ NothingDue(t, j) => y.ds = x.ds
     /\ ~NothingDue(t, j) => y.ds = Append(x.ds, IssueDecision(t, j))
RoundEnds(t, x, y) ==
  LET j == Advanced(t, x.m)
      h == AddRecord(x.m.handled, j)
  IN /\ x.m.job # None /\ ~Busy(j) /\ Settled(j)
     /\ y.m = [handled |-> h, job |-> None, limiter |-> Count(x.m.limiter, t, Tried(j)),
               latest |-> x.m.latest, lastAttach |-> x.m.lastAttach,
               claimedAttach |-> x.m.claimedAttach]
     /\ y.ds = Append(x.ds, SaveDecision(h, j, NotifyFor(j))) /\ y.more
RoundClaims(t, x, y) ==
  /\ x.m.job = None /\ ClaimDue(x.m, t) /\ y.m = [x.m EXCEPT !.claimedAttach = x.m.lastAttach]
  /\ y.ds = Append(x.ds, ClaimDecision) /\ y.more
RoundStarts(t, x, y) ==
  /\ x.m.job = None /\ ~ClaimDue(x.m, t) /\ NextJob(t, x.m) # None
  /\ y.m = [x.m EXCEPT !.job = NextJob(t, x.m)] /\ y.ds = x.ds /\ y.more
RoundStops(t, x, y) ==
  /\ x.m.job = None /\ ~ClaimDue(x.m, t) /\ NextJob(t, x.m) = None
  /\ y.m = x.m /\ y.ds = x.ds /\ ~y.more

LEMMA WithJob ==
  ASSUME NEW d \in Deciders, NEW j, NEW e, e = [d EXCEPT !.job = j]
  PROVE  e = [handled |-> d.handled, job |-> j, limiter |-> d.limiter, latest |-> d.latest,
              lastAttach |-> d.lastAttach, claimedAttach |-> d.claimedAttach]
BY DEF Deciders

LEMMA WithRecord ==
  ASSUME NEW d \in Deciders, NEW h, NEW l, NEW e,
         e = [d EXCEPT !.handled = h, !.job = None, !.limiter = l]
  PROVE  e = [handled |-> h, job |-> None, limiter |-> l, latest |-> d.latest,
              lastAttach |-> d.lastAttach, claimedAttach |-> d.claimedAttach]
BY DEF Deciders

LEMMA WithClaim ==
  ASSUME NEW d \in Deciders, NEW a, NEW e, e = [d EXCEPT !.claimedAttach = a]
  PROVE  e = [handled |-> d.handled, job |-> d.job, limiter |-> d.limiter, latest |-> d.latest,
              lastAttach |-> d.lastAttach, claimedAttach |-> a]
BY DEF Deciders

LEMMA RoundOver ==
  ASSUME NEW t, NEW x, ~x.more
  PROVE  Round(t, x) = x
BY DEF Round

LEMMA RoundJob ==
  ASSUME NEW t, NEW x, x.more, x.m.job # None
  PROVE  Round(t, x) = AdvanceJob(t, x)
BY DEF Round

LEMMA RoundClaim ==
  ASSUME NEW t, NEW x, x.more, x.m.job = None, ClaimDue(x.m, t)
  PROVE  Round(t, x) = AnswerAttach(x)
BY DEF Round

LEMMA RoundStart ==
  ASSUME NEW t, NEW x, x.more, x.m.job = None, ~ClaimDue(x.m, t)
  PROVE  Round(t, x) = StartJob(x, NextJob(t, x.m))
BY DEF Round, NextJob

LEMMA RoundIs ==
  ASSUME NEW t, NEW x, Shaped(x), x.m \in Deciders, x.more
  PROVE  LET y == Round(t, x)
         IN /\ Shaped(y)
            /\ \/ RoundBusy(t, x, y) \/ RoundWaits(t, x, y) \/ RoundEnds(t, x, y)
               \/ RoundClaims(t, x, y) \/ RoundStarts(t, x, y) \/ RoundStops(t, x, y)
<1> DEFINE y == Round(t, x)
           j == Advanced(t, x.m)
           h == AddRecord(x.m.handled, j)
<1>1. CASE x.m.job # None
  <2>1. y = AdvanceJob(t, x)
    BY <1>1, RoundJob
  <2>2. CASE Busy(j)
    <3>1. y = Waits(x, j, x.ds)
      BY <2>1, <2>2 DEF AdvanceJob, Advanced
    <3> HIDE DEF y, j
    <3>2. y.m = [x.m EXCEPT !.job = j] /\ y.ds = x.ds /\ ~y.more /\ Shaped(y)
      BY <3>1 DEF Shaped, Waits
    <3>3. RoundBusy(t, x, y)
      BY <1>1, <2>2, <3>2 DEF RoundBusy, j
    <3> QED BY <3>2, <3>3 DEF y
  <2>3. CASE ~Busy(j) /\ ~Settled(j)
    <3> DEFINE e == IF NothingDue(t, j) THEN x.ds ELSE Append(x.ds, IssueDecision(t, j))
               w == Issue(t, j)
    <3>1. y = Waits(x, w, e)
      BY <2>1, <2>3 DEF AdvanceJob, Advanced
    <3> HIDE DEF y, j, e, w
    <3>2. y.m = [x.m EXCEPT !.job = w] /\ y.ds = e /\ ~y.more /\ Shaped(y)
      BY <3>1 DEF Shaped, Waits
    <3>3. RoundWaits(t, x, y)
      BY <1>1, <2>3, <3>2 DEF RoundWaits, j, e, w
    <3> QED BY <3>2, <3>3 DEF y
  <2>4. CASE ~Busy(j) /\ Settled(j)
    <3>1. y = EndJob(t, x, j)
      BY <2>1, <2>4 DEF AdvanceJob, Advanced
    <3> DEFINE l == Count(x.m.limiter, t, Tried(j))
    <3> HIDE DEF y, j
    <3>2. /\ y.m = [x.m EXCEPT !.handled = h, !.job = None, !.limiter = l]
          /\ y.ds = Append(x.ds, SaveDecision(h, j, NotifyFor(j))) /\ y.more /\ Shaped(y)
      BY <3>1 DEF Shaped, EndJob
    <3> HIDE DEF h, l
    <3>4. y.m = [handled |-> h, job |-> None, limiter |-> l,
                 latest |-> x.m.latest, lastAttach |-> x.m.lastAttach,
                 claimedAttach |-> x.m.claimedAttach]
      <4>1. PICK d \in Deciders : d = x.m
        OBVIOUS
      <4>2. y.m = [d EXCEPT !.handled = h, !.job = None, !.limiter = l]
        BY <3>2, <4>1
      <4>3. y.m = [handled |-> h, job |-> None, limiter |-> l, latest |-> d.latest,
                   lastAttach |-> d.lastAttach, claimedAttach |-> d.claimedAttach]
        BY ONLY <4>2, WithRecord
      <4> QED BY <4>1, <4>3
    <3>3. RoundEnds(t, x, y)
      BY <1>1, <2>4, <3>2, <3>4 DEF RoundEnds, j, h, l
    <3> QED BY <3>2, <3>3 DEF y
  <2> HIDE DEF j
  <2> QED BY <2>2, <2>3, <2>4
<1>2. CASE x.m.job = None /\ ClaimDue(x.m, t)
  <2>1. y = AnswerAttach(x)
    BY <1>2, RoundClaim
  <2> HIDE DEF y
  <2>2. /\ y.m = [x.m EXCEPT !.claimedAttach = x.m.lastAttach]
        /\ y.ds = Append(x.ds, ClaimDecision) /\ y.more /\ Shaped(y)
    BY <2>1 DEF Shaped, AnswerAttach
  <2>3. RoundClaims(t, x, y)
    BY <1>2, <2>2 DEF RoundClaims
  <2> QED BY <2>2, <2>3 DEF y
<1>3. CASE x.m.job = None /\ ~ClaimDue(x.m, t)
  <2> DEFINE n == NextJob(t, x.m)
  <2>1. y = StartJob(x, n)
    BY <1>3, RoundStart
  <2> HIDE DEF n, y
  <2>2. CASE n = None
    <3>1. y.m = x.m /\ y.ds = x.ds /\ ~y.more /\ Shaped(y)
      BY <2>1, <2>2 DEF Shaped, StartJob
    <3>2. RoundStops(t, x, y)
      BY <1>3, <2>2, <3>1 DEF RoundStops, n
    <3> QED BY <3>1, <3>2 DEF y
  <2>3. CASE n # None
    <3>1. y.m = [x.m EXCEPT !.job = n] /\ y.ds = x.ds /\ y.more /\ Shaped(y)
      BY <2>1, <2>3 DEF Shaped, StartJob
    <3>2. RoundStarts(t, x, y)
      BY <1>3, <2>3, <3>1 DEF RoundStarts, n
    <3> QED BY <3>1, <3>2 DEF y
  <2> QED BY <2>2, <2>3
<1> QED BY <1>1, <1>2, <1>3

\* AdvanceTime is its rounds, one after the other.
LEMMA AdvanceRounds ==
  ASSUME NEW t, NEW m1, NEW d
  PROVE  AdvanceTime(t, m1, d) =
           Round(t, Round(t, Round(t, Round(t, Round(t, Round(t, Round(t,
             [m |-> m1, ds |-> d, more |-> TRUE])))))))
<1> DEFINE x0 == [m |-> m1, ds |-> d, more |-> TRUE]
           x1 == Round(t, x0)
           x2 == Round(t, x1)
           x3 == Round(t, x2)
           x4 == Round(t, x3)
           x5 == Round(t, x4)
           x6 == Round(t, x5)
           x7 == Round(t, x6)
           After7(f) == f = [n \in 0..Rounds |-> IF n = 0 THEN x0 ELSE Round(t, f[n - 1])]
           g == [n \in 0..7 |-> CASE n = 0 -> x0 [] n = 1 -> x1 [] n = 2 -> x2 [] n = 3 -> x3
                                  [] n = 4 -> x4 [] n = 5 -> x5 [] n = 6 -> x6 [] OTHER -> x7]
<1>1. g[0] = x0 /\ g[1] = x1 /\ g[2] = x2 /\ g[3] = x3 /\ g[4] = x4 /\ g[5] = x5 /\ g[6] = x6
      /\ g[7] = x7
  <2> HIDE DEF x0, x1, x2, x3, x4, x5, x6, x7
  <2> QED OBVIOUS
<1> DEFINE f == CHOOSE f : After7(f)
<1>2. After7(g)
  <2>1. ASSUME NEW n \in 0..7
        PROVE  g[n] = IF n = 0 THEN x0 ELSE Round(t, g[n - 1])
    <3>1. x1 = Round(t, x0) /\ x2 = Round(t, x1) /\ x3 = Round(t, x2) /\ x4 = Round(t, x3)
          /\ x5 = Round(t, x4) /\ x6 = Round(t, x5) /\ x7 = Round(t, x6)
      OBVIOUS
    <3> HIDE DEF x0, x1, x2, x3, x4, x5, x6, x7, g
    <3>2. n = 0 \/ n = 1 \/ n = 2 \/ n = 3 \/ n = 4 \/ n = 5 \/ n = 6 \/ n = 7
      OBVIOUS
    <3> QED BY <1>1, <3>1, <3>2
  <2>2. DOMAIN g = 0..7 /\ g = [n \in DOMAIN g |-> g[n]]
    <3> HIDE DEF x0, x1, x2, x3, x4, x5, x6, x7
    <3> QED OBVIOUS
  <2> HIDE DEF g, x0, x1, x2, x3, x4, x5, x6, x7
  <2> QED BY <2>1, <2>2 DEF Rounds
<1>3. After7(f)
  <2> HIDE DEF g, After7
  <2> QED BY <1>2
<1>4. AdvanceTime(t, m1, d) = f[7]
  <2> HIDE DEF g
  <2> QED BY DEF AdvanceTime, Rounds
<1> HIDE DEF f
<1>5. f[7] = x7
  <2>1. x1 = Round(t, x0) /\ x2 = Round(t, x1) /\ x3 = Round(t, x2) /\ x4 = Round(t, x3)
        /\ x5 = Round(t, x4) /\ x6 = Round(t, x5) /\ x7 = Round(t, x6)
    OBVIOUS
  <2> HIDE DEF x0, x1, x2, x3, x4, x5, x6, x7, g
  <2>2. f[0] = x0 /\ \A n \in 1..7 : f[n] = Round(t, f[n - 1])
    BY <1>3 DEF Rounds
  <2>3. f[1] = x1 /\ f[2] = Round(t, f[1]) /\ f[3] = Round(t, f[2]) /\ f[4] = Round(t, f[3])
        /\ f[5] = Round(t, f[4]) /\ f[6] = Round(t, f[5]) /\ f[7] = Round(t, f[6])
    BY <2>1, <2>2
  <2> QED BY <2>1, <2>3
<1> QED BY <1>4, <1>5

-----------------------------------------------------------------------------
(* The jobs a round makes, the results it is told, the record it keeps.    *)

LEMMA IssuedCommand ==
  ASSUME NEW c \in CommandTasks, NEW t \in Nat, TaskBounds(c, t), Due(t, c),
         NEW d, d = IssueTask(t, c)
  PROVE  d \in CommandTasks /\ TaskBounds(d, t) /\ d.cmd = c.cmd /\ d.status = "issued"
<1>1. d = [c EXCEPT !.status = "issued", !.attempts = c.attempts + 1, !.lastIssued = t]
  BY DEF IssueTask
<1>2. c.attempts \in Nat /\ c.attempts + 1 <= MaxAttempts
  BY TimingAssumption DEF Due, Retriable, TaskBounds, MaxAttempts, CommandTasks
<1>3. c.dropReason = "none"
  BY DEF Due, Retriable, TaskBounds
<1>4. /\ d \in CommandTasks /\ d.status = "issued" /\ d.attempts = c.attempts + 1
      /\ d.lastIssued = t /\ d.dropReason = c.dropReason /\ d.cmd = c.cmd
  <2>1. PICK n \in Nat : n = c.attempts + 1
    BY <1>2
  <2>2. d = [c EXCEPT !.status = "issued", !.attempts = n, !.lastIssued = t]
    BY <1>1, <2>1
  <2> QED BY <2>1, <2>2 DEF CommandTasks, Statuses
<1>5. TaskBounds(d, t)
  BY <1>2, <1>3, <1>4 DEF TaskBounds
<1> QED BY <1>4, <1>5

LEMMA IssuedAssignment ==
  ASSUME NEW k, NEW u \in AssignmentTasks, NEW q, NEW h, NEW t \in Nat,
         AssignmentInv(k, u, q, h, t), Due(t, u), NEW v, v = IssueTask(t, u)
  PROVE  /\ v \in AssignmentTasks /\ AssignmentInv(k, v, q, h, t)
         /\ v.assignment = u.assignment /\ v.status = "issued"
<1>1. v = [u EXCEPT !.status = "issued", !.attempts = u.attempts + 1, !.lastIssued = t]
  BY DEF IssueTask
<1>2. TaskBounds(u, t)
  BY DEF AssignmentInv
<1>3. u.attempts \in Nat /\ u.attempts + 1 <= MaxAttempts
  BY <1>2, TimingAssumption DEF Due, Retriable, TaskBounds, MaxAttempts, AssignmentTasks
<1>4. u.dropReason = "none" /\ u.status # "dropped"
  BY <1>2 DEF Due, Retriable, TaskBounds
<1>5. /\ v \in AssignmentTasks /\ v.status = "issued" /\ v.attempts = u.attempts + 1
      /\ v.lastIssued = t /\ v.dropReason = u.dropReason /\ v.assignment = u.assignment
      /\ v.sentAt = u.sentAt
  <2>1. PICK n \in Nat : n = u.attempts + 1
    BY <1>3
  <2>2. v = [u EXCEPT !.status = "issued", !.attempts = n, !.lastIssued = t]
    BY <1>1, <2>1
  <2> QED BY <2>1, <2>2 DEF AssignmentTasks, Statuses
<1>6. TaskBounds(v, t)
  BY <1>3, <1>4, <1>5 DEF TaskBounds
<1>7. AssignmentInv(k, v, q, h, t)
  BY <1>4, <1>5, <1>6 DEF AssignmentInv
<1> QED BY <1>5, <1>7

IssuedTask(t, u) == IF Due(t, u) THEN IssueTask(t, u) ELSE u

\* What is due is issued, the rest stays as it is.
LEMMA IssueInv ==
  ASSUME NEW j, NEW h, NEW t \in Nat, JobInv(j, h, t), NEW w, w = Issue(t, j)
  PROVE  /\ JobInv(w, h, t) /\ w.ownership = j.ownership
         /\ DOMAIN w.assignments = DOMAIN j.assignments
         /\ DOMAIN w.commands = DOMAIN j.commands
         /\ \A k \in DOMAIN j.assignments :
              w.assignments[k] = IssuedTask(t, j.assignments[k])
         /\ \A i \in DOMAIN j.commands : w.commands[i] = IssuedTask(t, j.commands[i])
         /\ NothingPending(w)
         /\ NothingDue(t, j) => w = j
<1> DEFINE A == DOMAIN j.assignments
           C == DOMAIN j.commands
           b == [k \in A |-> IssuedTask(t, j.assignments[k])]
           d == [i \in C |-> IssuedTask(t, j.commands[i])]
<1>1. /\ j = [commands |-> j.commands, assignments |-> j.assignments,
              ownership |-> j.ownership, seqs |-> j.seqs]
      /\ j \in Jobs /\ A \in SUBSET Keys /\ j.assignments \in [A -> AssignmentTasks]
      /\ j.commands \in Seq(CommandTasks) /\ j.ownership \in Ownership \cup {None}
      /\ j.seqs \in SeqMap
  BY JobShape DEF JobInv
<1>2. w = [j EXCEPT !.commands = d, !.assignments = b]
  BY DEF Issue, IssuedTask
<1>3. w = [commands |-> d, assignments |-> b, ownership |-> j.ownership, seqs |-> j.seqs]
  <2> HIDE DEF b, d
  <2> QED BY <1>1, <1>2, WithBoth
<1>4. ASSUME NEW k \in A
      PROVE  /\ b[k] \in AssignmentTasks /\ AssignmentInv(k, b[k], j.seqs[k], h, t)
             /\ b[k].status # "pending"
  <2> DEFINE u == j.assignments[k]
  <2>1. u \in AssignmentTasks /\ AssignmentInv(k, u, j.seqs[k], h, t) /\ b[k] = IssuedTask(t, u)
    BY <1>1, <1>4 DEF JobInv
  <2> HIDE DEF u, b
  <2>2. CASE Due(t, u)
    <3>1. b[k] = IssueTask(t, u)
      BY <2>1, <2>2 DEF IssuedTask
    <3>2. /\ IssueTask(t, u) \in AssignmentTasks
          /\ AssignmentInv(k, IssueTask(t, u), j.seqs[k], h, t)
          /\ IssueTask(t, u).status = "issued"
      BY <2>1, <2>2, IssuedAssignment
    <3> QED BY <3>1, <3>2
  <2>3. CASE ~Due(t, u)
    BY <2>1, <2>3 DEF IssuedTask, Due
  <2> QED BY <2>2, <2>3
<1>5. ASSUME NEW i \in C
      PROVE  /\ d[i] \in CommandTasks /\ TaskBounds(d[i], t) /\ d[i].cmd = j.commands[i].cmd
             /\ d[i].status # "pending"
  <2> DEFINE c == j.commands[i]
  <2>1. c \in CommandTasks /\ TaskBounds(c, t) /\ d[i] = IssuedTask(t, c)
    BY <1>1, <1>5 DEF JobInv
  <2> HIDE DEF c, d
  <2>2. CASE Due(t, c)
    <3>1. d[i] = IssueTask(t, c)
      BY <2>1, <2>2 DEF IssuedTask
    <3>2. /\ IssueTask(t, c) \in CommandTasks /\ TaskBounds(IssueTask(t, c), t)
          /\ IssueTask(t, c).cmd = c.cmd /\ IssueTask(t, c).status = "issued"
      BY <2>1, <2>2, IssuedCommand
    <3> QED BY <3>1, <3>2 DEF c
  <2>3. CASE ~Due(t, c)
    BY <2>1, <2>3 DEF IssuedTask, Due, c
  <2> QED BY <2>2, <2>3
<1>6. DOMAIN b = A /\ DOMAIN d = C /\ b \in [A -> AssignmentTasks]
  BY <1>4
<1>7. d \in Seq(CommandTasks)
  <2>1. C = 1..Len(j.commands) /\ Len(j.commands) \in Nat
    BY <1>1
  <2>2. d \in [1..Len(j.commands) -> CommandTasks]
    BY <1>5, <2>1
  <2> QED BY <2>1, <2>2
<1>8. \A k \in A : b[k] = IssuedTask(t, j.assignments[k])
  OBVIOUS
<1>9. \A i \in C : d[i] = IssuedTask(t, j.commands[i])
  OBVIOUS
<1>10. NothingDue(t, j) => b = j.assignments /\ d = j.commands
  <2> SUFFICES ASSUME NothingDue(t, j) PROVE b = j.assignments /\ d = j.commands
    OBVIOUS
  <2>1. /\ \A k \in A : ~Due(t, j.assignments[k])
        /\ \A i \in C : ~Due(t, j.commands[i])
    BY DEF NothingDue, EveryTask
  <2>2. j.assignments = [k \in A |-> j.assignments[k]]
    BY <1>1
  <2>3. j.commands = [i \in C |-> j.commands[i]]
    BY <1>1
  <2> QED BY <2>1, <2>2, <2>3 DEF IssuedTask
<1> HIDE DEF b, d
<1>11. w.commands = d /\ w.assignments = b /\ w.ownership = j.ownership /\ w.seqs = j.seqs
  BY <1>3
<1>12. w \in Jobs
  <2> HIDE DEF A, C
  <2>1. [commands |-> d, assignments |-> b, ownership |-> j.ownership, seqs |-> j.seqs] \in Jobs
    BY <1>1, <1>6, <1>7, JobMade
  <2> QED BY <1>3, <2>1
<1>13. JobInv(w, h, t)
  <2>1. \A i \in DOMAIN w.commands : TaskBounds(w.commands[i], t)
    BY <1>5, <1>6, <1>11
  <2>2. \A k \in DOMAIN w.assignments : AssignmentInv(k, w.assignments[k], w.seqs[k], h, t)
    BY <1>4, <1>6, <1>11
  <2>3. w.ownership = None => /\ DOMAIN w.commands = {}
                              /\ DOMAIN w.assignments # {} \/ w.seqs # NoSeqs
    BY <1>6, <1>11 DEF JobInv
  <2>4. w.ownership # None =>
          /\ DOMAIN w.assignments = {} /\ w.seqs = NoSeqs
          /\ \A i \in DOMAIN w.commands : CommandFits(w.commands[i], w.ownership)
    BY <1>5, <1>6, <1>11 DEF JobInv, CommandFits
  <2> HIDE DEF A, C
  <2> QED BY <1>12, <2>1, <2>2, <2>3, <2>4, JobInvIs
<1>14. NothingPending(w)
  BY <1>4, <1>5, <1>6, <1>11 DEF NothingPending
<1>15. NothingDue(t, j) => w = j
  BY <1>1, <1>3, <1>10
<1> QED BY <1>6, <1>8, <1>9, <1>11, <1>13, <1>14, <1>15

LEMMA ReportedCommand ==
  ASSUME NEW c \in CommandTasks, NEW t \in Nat, TaskBounds(c, t), c.status = "issued",
         NEW r, NEW d, d = Report(c, r)
  PROVE  /\ d \in CommandTasks /\ TaskBounds(d, t) /\ d.cmd = c.cmd
         /\ d.status \notin {"pending", "issued"}
<1>1. PICK x \in {"done", "dropped", "failed"} :
        /\ d = [c EXCEPT !.status = x]
        /\ x = "failed" => c.dropReason = "none"
  <2>1. CASE r = "ok"
    BY <2>1 DEF Report
  <2>2. CASE r # "ok" /\ c.dropReason # "none"
    BY <2>2 DEF Report
  <2>3. CASE r # "ok" /\ c.dropReason = "none"
    BY <2>3 DEF Report
  <2> QED BY <2>1, <2>2, <2>3
<1>2. /\ d \in CommandTasks /\ d.status = x /\ d.attempts = c.attempts
      /\ d.lastIssued = c.lastIssued /\ d.dropReason = c.dropReason /\ d.cmd = c.cmd
  BY <1>1 DEF CommandTasks, Statuses
<1> QED BY <1>1, <1>2 DEF TaskBounds

\* The results of the commands: what was issued is over or has failed.
LEMMA ReportRunInv ==
  ASSUME NEW j, NEW h, NEW t \in Nat, JobInv(j, h, t), NothingPending(j), NEW results,
         NEW w, w = ReportRun(j, results)
  PROVE  /\ JobInv(w, h, t) /\ NothingPending(w) /\ w.ownership = j.ownership
         /\ \A i \in DOMAIN w.commands : w.commands[i].status # "issued"
         /\ w.assignments = j.assignments
<1> DEFINE C == DOMAIN j.commands
           Position(i) == Cardinality({n \in 1..i : j.commands[n].status = "issued"})
           Result(i) == IF Position(i) <= Len(results) THEN results[Position(i)] ELSE "err"
           d == [i \in C |-> IF j.commands[i].status = "issued"
                             THEN Report(j.commands[i], Result(i)) ELSE j.commands[i]]
<1>1. /\ j = [commands |-> j.commands, assignments |-> j.assignments,
              ownership |-> j.ownership, seqs |-> j.seqs]
      /\ j \in Jobs /\ DOMAIN j.assignments \in SUBSET Keys
      /\ j.assignments \in [DOMAIN j.assignments -> AssignmentTasks]
      /\ j.commands \in Seq(CommandTasks) /\ j.ownership \in Ownership \cup {None}
      /\ j.seqs \in SeqMap
  BY JobShape DEF JobInv
<1>2. w = [j EXCEPT !.commands = d]
  BY DEF ReportRun
<1>3. w = [commands |-> d, assignments |-> j.assignments, ownership |-> j.ownership,
           seqs |-> j.seqs]
  <2> HIDE DEF d
  <2> QED BY <1>1, <1>2, WithCommands
<1>4. ASSUME NEW i \in C
      PROVE  /\ d[i] \in CommandTasks /\ TaskBounds(d[i], t) /\ d[i].cmd = j.commands[i].cmd
             /\ d[i].status \notin {"pending", "issued"}
  <2> DEFINE c == j.commands[i]
             r == Result(i)
  <2>1. /\ c \in CommandTasks /\ TaskBounds(c, t) /\ c.status # "pending"
        /\ d[i] = IF c.status = "issued" THEN Report(c, r) ELSE c
    BY <1>1, <1>4 DEF JobInv, NothingPending
  <2> HIDE DEF c, d, r
  <2>2. CASE c.status = "issued"
    <3>1. d[i] = Report(c, r)
      BY <2>1, <2>2
    <3> QED BY <2>1, <2>2, <3>1, ReportedCommand DEF c
  <2>3. CASE c.status # "issued"
    BY <2>1, <2>3 DEF c
  <2> QED BY <2>2, <2>3
<1>5. DOMAIN d = C
  OBVIOUS
<1>6. d \in Seq(CommandTasks)
  <2>1. C = 1..Len(j.commands) /\ Len(j.commands) \in Nat
    BY <1>1
  <2> HIDE DEF d
  <2>2. d \in [1..Len(j.commands) -> CommandTasks]
    <3>1. d = [i \in C |-> d[i]]
      BY DEF d
    <3> QED BY <1>4, <1>5, <2>1, <3>1
  <2> QED BY <2>1, <2>2
<1> HIDE DEF d
<1>7. /\ w.commands = d /\ w.assignments = j.assignments /\ w.ownership = j.ownership
      /\ w.seqs = j.seqs
  BY <1>3
<1>8. w \in Jobs
  <2>1. [commands |-> d, assignments |-> j.assignments, ownership |-> j.ownership,
         seqs |-> j.seqs] \in Jobs
    BY <1>1, <1>6, JobMade
  <2> QED BY <1>3, <2>1
<1>9. JobInv(w, h, t)
  <2>1. \A i \in DOMAIN w.commands : TaskBounds(w.commands[i], t)
    BY <1>4, <1>5, <1>7
  <2>2. \A k \in DOMAIN w.assignments : AssignmentInv(k, w.assignments[k], w.seqs[k], h, t)
    BY <1>7 DEF JobInv
  <2>3. w.ownership = None => /\ DOMAIN w.commands = {}
                              /\ DOMAIN w.assignments # {} \/ w.seqs # NoSeqs
    BY <1>5, <1>7 DEF JobInv
  <2>4. w.ownership # None =>
          /\ DOMAIN w.assignments = {} /\ w.seqs = NoSeqs
          /\ \A i \in DOMAIN w.commands : CommandFits(w.commands[i], w.ownership)
    BY <1>4, <1>5, <1>7 DEF JobInv, CommandFits
  <2> QED BY <1>8, <2>1, <2>2, <2>3, <2>4, JobInvIs
<1> QED BY <1>4, <1>5, <1>7, <1>9 DEF NothingPending

Outcomes3 == {"ok", "err", "notHere"}
ReportedTask(k, u, t, results) ==
  LET reported == k \in DOMAIN results
      result   == IF reported THEN results[k] ELSE "err"
      status   == GiveAwayOutcome(k, reported, result)
  IN [u EXCEPT
        !.triedToMove = @ \/ ~reported \/ result # "notHere",
        !.sentAt = IF status = "awaitingArrival" THEN t ELSE @,
        !.status = IF u.dropReason # "none" /\ status # "done" THEN "dropped" ELSE status]

LEMMA ReportedAssignment ==
  ASSUME NEW k \in Keys, NEW u \in AssignmentTasks, NEW q, NEW h, NEW t \in Nat,
         AssignmentInv(k, u, q, h, t), u.status = "issued",
         NEW results, k \in DOMAIN results => results[k] \in Outcomes3,
         NEW v, v = ReportedTask(k, u, t, results)
  PROVE  /\ v \in AssignmentTasks /\ AssignmentInv(k, v, q, h, t)
         /\ v.assignment = u.assignment /\ v.status \notin {"pending", "issued"}
<1> DEFINE reported == k \in DOMAIN results
           result == IF reported THEN results[k] ELSE "err"
           status == GiveAwayOutcome(k, reported, result)
           tried == u.triedToMove \/ ~reported \/ result # "notHere"
           sent == IF status = "awaitingArrival" THEN t ELSE u.sentAt
           now1 == IF u.dropReason # "none" /\ status # "done" THEN "dropped" ELSE status
<1>1. status \in {"failed", "done", "awaitingArrival"} /\ (status = "awaitingArrival" => k \in Devices)
  <2>1. CASE ~reported
    BY <2>1 DEF GiveAwayOutcome
  <2>2. CASE reported /\ result = "notHere"
    BY <2>2 DEF GiveAwayOutcome
  <2>3. CASE reported /\ result = "err"
    BY <2>3 DEF GiveAwayOutcome
  <2>4. CASE reported /\ result = "ok" /\ k \in Screens
    BY <2>4 DEF GiveAwayOutcome
  <2>5. CASE reported /\ result = "ok" /\ k \notin Screens
    BY <2>5 DEF GiveAwayOutcome, Keys
  <2> QED BY <2>1, <2>2, <2>3, <2>4, <2>5 DEF Outcomes3
<1>2. v = [u EXCEPT !.triedToMove = tried, !.sentAt = sent, !.status = now1]
  BY DEF ReportedTask
<1> HIDE DEF status
<1>3. sent \in Nat /\ sent <= t
  <2>1. u.sentAt \in Nat
    BY DEF AssignmentTasks
  <2>2. u.sentAt <= t
    BY DEF AssignmentInv
  <2> QED BY <2>1, <2>2
<1>4. /\ now1 \in {"failed", "done", "awaitingArrival", "dropped"}
      /\ now1 = "awaitingArrival" => k \in Devices
      /\ now1 \in {"failed", "awaitingArrival"} => u.dropReason = "none"
      /\ now1 = "dropped" => u.dropReason # "none"
  BY <1>1
<1>5. tried \in BOOLEAN
  BY DEF AssignmentTasks
<1> HIDE DEF tried, sent, now1
<1>6. /\ v \in AssignmentTasks /\ v.status = now1 /\ v.attempts = u.attempts
      /\ v.lastIssued = u.lastIssued /\ v.dropReason = u.dropReason
      /\ v.assignment = u.assignment /\ v.sentAt = sent
  BY <1>2, <1>3, <1>4, <1>5 DEF AssignmentTasks, Statuses
<1>7. TaskBounds(v, t)
  BY <1>4, <1>6 DEF TaskBounds, AssignmentInv
<1>8. AssignmentInv(k, v, q, h, t)
  BY <1>3, <1>4, <1>6, <1>7 DEF AssignmentInv
<1> QED BY <1>4, <1>6, <1>8

\* The results of the give-aways, one for each of those issued.
LEMMA ReportGiveAwayInv ==
  ASSUME NEW j, NEW h, NEW t \in Nat, JobInv(j, h, t), NothingPending(j), NEW results,
         \A k \in DOMAIN results : results[k] \in Outcomes3,
         NEW w, w = ReportGiveAway(t, j, results)
  PROVE  /\ JobInv(w, h, t) /\ NothingPending(w) /\ w.ownership = j.ownership
         /\ \A k \in DOMAIN w.assignments : w.assignments[k].status # "issued"
         /\ w.commands = j.commands
<1> DEFINE A == DOMAIN j.assignments
           b == [k \in A |-> IF j.assignments[k].status = "issued"
                             THEN ReportedTask(k, j.assignments[k], t, results)
                             ELSE j.assignments[k]]
<1>1. /\ j = [commands |-> j.commands, assignments |-> j.assignments,
              ownership |-> j.ownership, seqs |-> j.seqs]
      /\ j \in Jobs /\ A \in SUBSET Keys
      /\ j.assignments \in [A -> AssignmentTasks]
      /\ j.commands \in Seq(CommandTasks) /\ j.ownership \in Ownership \cup {None}
      /\ j.seqs \in SeqMap
  BY JobShape DEF JobInv
<1>2. w = [j EXCEPT !.assignments = b]
  BY DEF ReportGiveAway, ReportedTask
<1>3. w = [commands |-> j.commands, assignments |-> b, ownership |-> j.ownership,
           seqs |-> j.seqs]
  <2> HIDE DEF b
  <2> QED BY <1>1, <1>2, WithAssignments
<1>4. ASSUME NEW k \in A
      PROVE  /\ b[k] \in AssignmentTasks /\ AssignmentInv(k, b[k], j.seqs[k], h, t)
             /\ b[k].status \notin {"pending", "issued"}
  <2> DEFINE u == j.assignments[k]
  <2>1. /\ u \in AssignmentTasks /\ AssignmentInv(k, u, j.seqs[k], h, t) /\ u.status # "pending"
        /\ k \in Keys
        /\ b[k] = IF u.status = "issued" THEN ReportedTask(k, u, t, results) ELSE u
    BY <1>1, <1>4 DEF JobInv, NothingPending
  <2> HIDE DEF u, b
  <2>2. CASE u.status = "issued"
    <3>1. b[k] = ReportedTask(k, u, t, results)
      BY <2>1, <2>2
    <3>2. k \in DOMAIN results => results[k] \in Outcomes3
      OBVIOUS
    <3> QED BY <2>1, <2>2, <3>1, <3>2, ReportedAssignment
  <2>3. CASE u.status # "issued"
    BY <2>1, <2>3
  <2> QED BY <2>2, <2>3
<1>5. DOMAIN b = A /\ b \in [A -> AssignmentTasks]
  BY <1>4
<1> HIDE DEF b
<1>7. /\ w.commands = j.commands /\ w.assignments = b /\ w.ownership = j.ownership
      /\ w.seqs = j.seqs
  BY <1>3
<1>8. w \in Jobs
  <2> HIDE DEF A
  <2>1. [commands |-> j.commands, assignments |-> b, ownership |-> j.ownership,
         seqs |-> j.seqs] \in Jobs
    BY <1>1, <1>5, JobMade
  <2> QED BY <1>3, <2>1
<1>9. JobInv(w, h, t)
  <2>1. \A i \in DOMAIN w.commands : TaskBounds(w.commands[i], t)
    BY <1>7 DEF JobInv
  <2>2. \A k \in DOMAIN w.assignments : AssignmentInv(k, w.assignments[k], w.seqs[k], h, t)
    BY <1>4, <1>5, <1>7
  <2>3. w.ownership = None => /\ DOMAIN w.commands = {}
                              /\ DOMAIN w.assignments # {} \/ w.seqs # NoSeqs
    BY <1>5, <1>7 DEF JobInv
  <2>4. w.ownership # None =>
          /\ DOMAIN w.assignments = {} /\ w.seqs = NoSeqs
          /\ \A i \in DOMAIN w.commands : CommandFits(w.commands[i], w.ownership)
    BY <1>5, <1>7 DEF JobInv
  <2> HIDE DEF A
  <2> QED BY <1>8, <2>1, <2>2, <2>3, <2>4, JobInvIs
<1> QED BY <1>4, <1>5, <1>7, <1>9 DEF NothingPending

LEMMA StateShape ==
  ASSUME NEW s \in ServerStates
  PROVE  /\ IsServerState(s) /\ s # None
         /\ \A k \in DOMAIN s.assignments :
              /\ k \in Keys /\ s.assignments[k] \in Assignment /\ s.assignments[k].seq \in Nat \ {0}
              /\ s.assignments[k].assignee \in Hosts /\ s.assignments[k].arrived \in BOOLEAN
BY StatesAssumption DEF IsServerState, Assignment, SeqNumbers

Recorded(d, t) == WithVerdict(d, t, "giveNow") \cup WithVerdict(d, t, "alreadyArrived")

\* A job for the assignments: they are another host's takes, not handled yet,
\* and what is to be given away the state wants.
LEMMA GiveAwayJobInv ==
  ASSUME NEW d, d.handled \in Handled, d.latest \in ServerStates, NEW t \in Nat,
         NEW j, j = GiveAwayJob(d, t), j # None \/ Recorded(d, t) # {}
  PROVE  /\ JobInv(j, d.handled, t) /\ PendingFits(j, d.latest) /\ j.ownership = None
         /\ Recorded(d, t) # {} /\ DOMAIN j.commands = {}
         /\ DOMAIN j.assignments = WithVerdict(d, t, "giveNow") /\ AllPending(j)
         /\ \A k \in Keys : j.seqs[k] = IF k \in Recorded(d, t)
                                        THEN d.latest.assignments[k].seq ELSE 0
<1> DEFINE s == d.latest
           give == WithVerdict(d, t, "giveNow")
           rec == Recorded(d, t)
           c == <<>>
           b == [k \in give |-> NewAssignmentTask(s.assignments[k])]
           q == [k \in Keys |-> IF k \in rec THEN s.assignments[k].seq ELSE 0]
<1>1. rec # {} /\ j = [commands |-> c, assignments |-> b, ownership |-> None, seqs |-> q]
  BY DEF GiveAwayJob, Recorded
<1>2. IsServerState(s) /\ s # None
  BY StateShape
<1>3. ASSUME NEW k \in rec
      PROVE  /\ k \in DOMAIN s.assignments /\ k \in Keys /\ s.assignments[k] \in Assignment
             /\ s.assignments[k].assignee # Me
             /\ d.handled.seqs[k] # s.assignments[k].seq
             /\ s.assignments[k].seq \in Nat \ {0}
  <2>1. k \in PendingKeys(d.handled, s)
    BY <1>3 DEF Recorded, WithVerdict
  <2> QED BY <2>1, StateShape DEF PendingKeys, Has
<1>4. ASSUME NEW k \in give
      PROVE  /\ k \in rec /\ ~s.assignments[k].arrived /\ s.assignments[k].assignee \in s.live
  <2>1. k \in rec /\ Verdict(t, s, d.limiter, k) = "giveNow"
    BY <1>4 DEF Recorded, WithVerdict
  <2>2. s.assignments[k].arrived \in BOOLEAN
    BY <2>1, <1>3, StateShape
  <2>3. ~s.assignments[k].arrived
    BY <2>1 DEF Verdict
  <2>4. s.assignments[k].assignee \in s.live
    BY <2>1, <2>3 DEF Verdict
  <2> QED BY <2>1, <2>3, <2>4
<1> HIDE DEF rec, give
<1>5. ASSUME NEW k \in give
      PROVE  /\ b[k] \in AssignmentTasks /\ AssignmentInv(k, b[k], q[k], d.handled, t)
             /\ Wants(s, k, b[k]) /\ b[k].status = "pending"
  <2> DEFINE a == s.assignments[k]
  <2>1. /\ k \in DOMAIN s.assignments /\ k \in Keys /\ a \in Assignment /\ a.assignee # Me
        /\ d.handled.seqs[k] # a.seq /\ a.seq \in Nat \ {0} /\ ~a.arrived /\ a.assignee \in s.live
        /\ k \in rec
    BY <1>3, <1>4, <1>5
  <2>2. b[k] = NewAssignmentTask(a) /\ q[k] = a.seq
    BY <1>5, <2>1
  <2> DEFINE u == b[k]
  <2>3. /\ u.status = "pending" /\ u.attempts = 0 /\ u.lastIssued = 0 /\ u.dropReason = "none"
        /\ u.assignment = a /\ u.sentAt = 0
    BY <2>2 DEF NewAssignmentTask
  <2>4. u \in AssignmentTasks
    BY <2>1, <2>2 DEF NewAssignmentTask, AssignmentTasks, Statuses
  <2>5. Wants(s, k, u)
    BY <2>1, <2>3 DEF Wants, Current
  <2> HIDE DEF u
  <2>6. TaskBounds(u, t)
    BY <2>3, TimingAssumption DEF TaskBounds, MaxAttempts
  <2>7. AssignmentInv(k, u, q[k], d.handled, t)
    BY <2>1, <2>2, <2>3, <2>6 DEF AssignmentInv
  <2> QED BY <2>3, <2>4, <2>5, <2>7 DEF u
<1>6. c \in Seq(CommandTasks) /\ DOMAIN c = {}
  OBVIOUS
<1>7. give \in SUBSET Keys /\ DOMAIN b = give /\ b \in [give -> AssignmentTasks]
  BY <1>3, <1>4, <1>5
<1>8. q \in SeqMap
  BY <1>3 DEF SeqMap
<1>9. q # NoSeqs
  <2>1. PICK k : k \in rec
    BY <1>1
  <2>2. k \in Keys /\ q[k] # 0
    BY <1>3, <2>1
  <2> QED BY <2>2 DEF NoSeqs
<1>11. q = [k \in Keys |-> IF k \in rec THEN s.assignments[k].seq ELSE 0]
  OBVIOUS
<1> HIDE DEF b, q, c
<1>12. j.commands = c /\ j.assignments = b /\ j.ownership = None /\ j.seqs = q
  BY <1>1
<1>13. j \in Jobs
  <2>1. [commands |-> c, assignments |-> b, ownership |-> None, seqs |-> q] \in Jobs
    BY <1>6, <1>7, <1>8, JobMade
  <2> QED BY <1>1, <2>1
<1>14. JobInv(j, d.handled, t)
  <2>1. \A i \in DOMAIN j.commands : TaskBounds(j.commands[i], t)
    BY <1>6, <1>12
  <2>2. \A k \in DOMAIN j.assignments : AssignmentInv(k, j.assignments[k], j.seqs[k], d.handled, t)
    BY <1>5, <1>7, <1>12
  <2>3. j.ownership = None => /\ DOMAIN j.commands = {}
                              /\ DOMAIN j.assignments # {} \/ j.seqs # NoSeqs
    BY <1>6, <1>9, <1>12
  <2>4. j.ownership # None =>
          /\ DOMAIN j.assignments = {} /\ j.seqs = NoSeqs
          /\ \A i \in DOMAIN j.commands : CommandFits(j.commands[i], j.ownership)
    BY <1>12
  <2> QED BY <1>13, <2>1, <2>2, <2>3, <2>4, JobInvIs
<1>15. PendingFits(j, s)
  BY <1>5, <1>7, <1>12 DEF PendingFits
<1>16. AllPending(j)
  BY <1>5, <1>6, <1>7, <1>12 DEF AllPending
<1> QED BY <1>1, <1>6, <1>7, <1>11, <1>12, <1>14, <1>15, <1>16 DEF rec, give

\* The commands of an ownership change, with the list of its direction.
LEMMA OwnershipJobInv ==
  ASSUME NEW s \in ServerStates, NEW h, NEW t \in Nat, NEW j,
         \/ s.owner = Me /\ j = OwnershipChangeJob(s, OnActivation, TRUE)
         \/ s.owner # Me /\ s.owner # NoHost /\ j = OwnershipChangeJob(s, OnDeactivation, FALSE)
  PROVE  /\ JobInv(j, h, t) /\ PendingFits(j, s) /\ j # None
         /\ j.ownership = [owner |-> s.owner, activation |-> s.activation]
         /\ DOMAIN j.assignments = {} /\ ~CommandsExpired(j, s) /\ AllPending(j)
<1> DEFINE activating == s.owner = Me
           list == IF activating THEN OnActivation ELSE OnDeactivation
           o == [owner |-> s.owner, activation |-> s.activation]
           c == [i \in DOMAIN list |->
                   [run |-> list[i],
                    activation |-> IF activating /\ list[i] \in Takes THEN s.activation ELSE 0]]
           d == [i \in DOMAIN c |-> NewCommandTask(c[i])]
           b == [k \in {} |-> None]
<1>1. j = [commands |-> d, assignments |-> b, ownership |-> o, seqs |-> NoSeqs]
  <2>1. CASE activating
    <3>1. c = [i \in DOMAIN OnActivation |-> Command(OnActivation[i], TRUE, s.activation)]
      BY <2>1 DEF Command
    <3> HIDE DEF c
    <3> QED BY <2>1, <3>1 DEF OwnershipChangeJob, NewOwnershipJob
  <2>2. CASE ~activating
    <3>1. c = [i \in DOMAIN OnDeactivation |-> Command(OnDeactivation[i], FALSE, s.activation)]
      BY <2>2 DEF Command
    <3> HIDE DEF c
    <3> QED BY <2>2, <3>1 DEF OwnershipChangeJob, NewOwnershipJob
  <2> QED BY <2>1, <2>2
<1>15. activating => s.owner # NoHost
  BY HostsAssumption
<1>2. /\ IsServerState(s) /\ o \in Ownership /\ s.activation \in Nat
  BY StateShape DEF IsServerState, Ownership
<1>3. list \in Seq(Takes \cup {"exec"}) /\ (~activating => list \in Seq({"exec"}))
  <2>1. Seq({"exec"}) \subseteq Seq(Takes \cup {"exec"})
    OBVIOUS
  <2> QED BY <2>1, CommandsAssumption
<1>4. DOMAIN list = 1..Len(list) /\ Len(list) \in Nat
  BY <1>3
<1>5. ASSUME NEW i \in DOMAIN list
      PROVE  /\ d[i] = NewCommandTask(c[i]) /\ c[i] \in Commands
             /\ activating /\ c[i].run \in Takes => c[i].activation = s.activation
             /\ ~activating => c[i].run = "exec"
  <2>1. list[i] \in Takes \cup {"exec"} /\ (~activating => list[i] = "exec")
    <3>1. ASSUME NEW S, list \in Seq(S) PROVE list[i] \in S
      BY <1>4, <1>5, <3>1
    <3> QED BY <1>3, <3>1
  <2>2. c[i] = [run |-> list[i],
                activation |-> IF activating /\ list[i] \in Takes THEN s.activation ELSE 0]
    BY <1>5
  <2>3. d[i] = NewCommandTask(c[i])
    BY <1>5
  <2> HIDE DEF c, d
  <2>4. c[i].run = list[i] /\ c[i].activation = IF activating /\ list[i] \in Takes THEN s.activation ELSE 0
    BY <2>2
  <2>5. c[i] \in Commands
    <3>1. c[i] = [run |-> c[i].run, activation |-> c[i].activation]
      BY <2>2
    <3>2. c[i].run \in Takes \cup {"exec"} /\ c[i].activation \in Nat
      BY <1>2, <2>1, <2>4
    <3> QED BY <3>1, <3>2 DEF Commands
  <2> QED BY <2>1, <2>3, <2>4, <2>5
<1>6. DOMAIN c = DOMAIN list /\ DOMAIN d = DOMAIN list /\ d = [i \in DOMAIN d |-> d[i]]
  OBVIOUS
<1> HIDE DEF c, d, o
<1>7. ASSUME NEW i \in DOMAIN d
      PROVE  /\ d[i] \in CommandTasks /\ TaskBounds(d[i], t) /\ d[i].status = "pending"
             /\ CommandFits(d[i], o)
  <2>1. /\ d[i] = NewCommandTask(c[i]) /\ c[i] \in Commands
        /\ activating /\ c[i].run \in Takes => c[i].activation = s.activation
        /\ ~activating => c[i].run = "exec"
    BY <1>5, <1>6, <1>7
  <2>2. /\ d[i].status = "pending" /\ d[i].attempts = 0 /\ d[i].lastIssued = 0
        /\ d[i].dropReason = "none" /\ d[i].cmd = c[i]
    BY <2>1 DEF NewCommandTask
  <2>3. d[i] \in CommandTasks
    BY <2>1 DEF NewCommandTask, CommandTasks, Statuses
  <2>4. TaskBounds(d[i], t)
    BY <2>2, TimingAssumption DEF TaskBounds, MaxAttempts
  <2>5. CommandFits(d[i], o)
    BY <2>1, <2>2 DEF CommandFits, o
  <2> QED BY <2>2, <2>3, <2>4, <2>5
<1>8. d \in Seq(CommandTasks)
  <2>1. d \in [1..Len(list) -> CommandTasks]
    BY <1>4, <1>6, <1>7
  <2> QED BY <1>4, <2>1
<1>9. b \in [{} -> AssignmentTasks] /\ DOMAIN b = {} /\ NoSeqs \in SeqMap
  BY DEF NoSeqs, SeqMap
<1> HIDE DEF b
<1>10. /\ j.commands = d /\ j.assignments = b /\ j.ownership = o /\ j.seqs = NoSeqs
  BY <1>1
<1>11. j \in Jobs
  <2>1. {} \in SUBSET Keys
    OBVIOUS
  <2>2. [commands |-> d, assignments |-> b, ownership |-> o, seqs |-> NoSeqs] \in Jobs
    BY <1>2, <1>8, <1>9, <2>1, JobMade
  <2> QED BY <1>1, <2>2
<1>12. o # None /\ j # None
  BY <1>2, <1>11, NoneAssumption
<1>13. JobInv(j, h, t)
  <2>1. \A i \in DOMAIN j.commands : TaskBounds(j.commands[i], t)
    BY <1>7, <1>10
  <2>2. \A k \in DOMAIN j.assignments : AssignmentInv(k, j.assignments[k], j.seqs[k], h, t)
    BY <1>9, <1>10
  <2>3. j.ownership = None => /\ DOMAIN j.commands = {}
                              /\ DOMAIN j.assignments # {} \/ j.seqs # NoSeqs
    BY <1>10, <1>12
  <2>4. j.ownership # None =>
          /\ DOMAIN j.assignments = {} /\ j.seqs = NoSeqs
          /\ \A i \in DOMAIN j.commands : CommandFits(j.commands[i], j.ownership)
    BY <1>7, <1>9, <1>10
  <2> QED BY <1>11, <2>1, <2>2, <2>3, <2>4, JobInvIs
<1>14. ~CommandsExpired(j, s)
  BY <1>10 DEF CommandsExpired, o
<1>16. AllPending(j)
  BY <1>7, <1>9, <1>10 DEF AllPending
<1> QED BY <1>9, <1>10, <1>12, <1>13, <1>14, <1>16 DEF PendingFits, o

LEMMA RecordInv ==
  ASSUME NEW h \in Handled, NEW j \in Jobs, NEW g, g = AddRecord(h, j)
  PROVE  /\ g \in Handled
         /\ g.ownership = IF j.ownership # None THEN j.ownership ELSE h.ownership
         /\ g.seqs = [k \in Keys |-> IF j.seqs[k] # 0 THEN j.seqs[k] ELSE h.seqs[k]]
BY JobShape DEF AddRecord, Handled, SeqMap

LimiterFits(l, t) ==
  /\ \A k \in Keys : \A i \in DOMAIN l.recent[k] : l.recent[k][i] \in 1..t
  /\ l.trippedAt <= t

LEMMA CountInv ==
  ASSUME NEW l \in Limiters, NEW t \in Nat \ {0}, LimiterFits(l, t), NEW tried,
         NEW w, w = Count(l, t, tried)
  PROVE  /\ w \in Limiters /\ LimiterFits(w, t)
         /\ tried = {} => w = l
<1> DEFINE old == t - Larger(BreakerWindow, Cooldown)
           r == [k \in Keys |-> IF k \in tried THEN Append(After(l.recent[k], old), t)
                                ELSE l.recent[k]]
           p == IF \E k \in tried : InWindow(l, t, k) >= BreakerMax THEN t ELSE l.trippedAt
<1>1. w = [recent |-> r, trippedAt |-> p]
  BY DEF Count
<1>2. ASSUME NEW k \in Keys
      PROVE  r[k] \in Seq(1..t)
  <2>1. l.recent[k] \in Seq(1..t)
    <3>1. l.recent[k] \in Seq(Nat)
      BY DEF Limiters
    <3>2. \A i \in DOMAIN l.recent[k] : l.recent[k][i] \in 1..t
      BY DEF LimiterFits
    <3>3. DOMAIN l.recent[k] = 1..Len(l.recent[k]) /\ Len(l.recent[k]) \in Nat
      BY <3>1
    <3>4. l.recent[k] \in [1..Len(l.recent[k]) -> 1..t]
      BY <3>1, <3>2, <3>3
    <3> QED BY <3>3, <3>4
  <2>2. After(l.recent[k], old) \in Seq(1..t)
    <3> DEFINE z == l.recent[k]
               P == {i \in DOMAIN z : z[i] > old}
    <3>1. Len(z) \in Nat /\ \A i \in 1..Len(z) : i \in P => z[i] \in 1..t
      BY <2>1
    <3> HIDE DEF z, P
    <3>2. AtPositions(z, P) \in Seq(1..t)
      BY <3>1, AtPositionsIn
    <3> QED BY <3>2 DEF After, z, P
  <2> DEFINE z == After(l.recent[k], old)
  <2>3. r[k] = IF k \in tried THEN Append(z, t) ELSE l.recent[k]
    OBVIOUS
  <2>4. z \in Seq(1..t) /\ t \in 1..t
    BY <2>2
  <2> HIDE DEF z, r
  <2>5. Append(z, t) \in Seq(1..t)
    BY <2>4, AppendProperties
  <2> QED BY <2>1, <2>3, <2>5
<1>3. p \in Nat /\ p <= t
  BY DEF Limiters, LimiterFits
<1>4. tried = {} => r = l.recent /\ p = l.trippedAt
  BY DEF Limiters
<1>5. DOMAIN r = Keys /\ r = [k \in Keys |-> r[k]]
  OBVIOUS
<1> HIDE DEF r, p
<1>6. w.recent = r /\ w.trippedAt = p
  BY <1>1
<1>7. w \in Limiters
  <2>1. r \in [Keys -> Seq(Nat)]
    <3>1. ASSUME NEW k \in Keys PROVE r[k] \in Seq(Nat)
      <4>1. Seq(1..t) \subseteq Seq(Nat)
        OBVIOUS
      <4> QED BY <1>2, <4>1
    <3> QED BY <1>5, <3>1
  <2> QED BY <1>1, <1>3, <2>1 DEF Limiters
<1>8. LimiterFits(w, t)
  <2>1. ASSUME NEW k \in Keys, NEW i \in DOMAIN r[k]
        PROVE  r[k][i] \in 1..t
    BY <1>2
  <2> QED BY <1>3, <1>6, <2>1 DEF LimiterFits
<1>9. tried = {} => w = l
  <2>1. l = [recent |-> l.recent, trippedAt |-> l.trippedAt]
    BY DEF Limiters
  <2> QED BY <1>1, <1>4, <2>1
<1> QED BY <1>7, <1>8, <1>9

-----------------------------------------------------------------------------
(* The decider through the loop.                                           *)

Decisions ==
  [type : {"claim"}]
  \cup [type : {"issue"}, run : Seq(Commands),
        giveAway : UNION {[K -> Assignment] : K \in SUBSET Keys}]
  \cup [type : {"save"}, handled : Handled, job : Jobs \cup {None}, notify : SUBSET Keys]

\* The decider d at the time t, in the middle of a call.
MidInv(d, t) ==
  /\ d \in Deciders
  /\ d.handled = None => d.latest = None
  /\ d.job # None => /\ d.latest # None /\ JobInv(d.job, d.handled, t)
                     /\ PendingFits(d.job, d.latest)
                     /\ Busy(d.job) => NothingPending(d.job)
  /\ LimiterFits(d.limiter, t)
  /\ d.claimedAttach <= d.lastAttach /\ d.lastAttach <= t

LEMMA MidShape ==
  ASSUME NEW t, NEW d, MidInv(d, t)
  PROVE  /\ d.handled \in Handled \cup {None} /\ d.job \in Jobs \cup {None}
         /\ d.limiter \in Limiters /\ d.latest \in ServerStates \cup {None}
         /\ d.lastAttach \in Nat /\ d.claimedAttach \in Nat
         /\ d.job # None => /\ d.latest \in ServerStates /\ d.handled \in Handled
                            /\ d.job \in Jobs
         /\ d.latest # None => d.handled \in Handled /\ d.latest \in ServerStates
BY DEF MidInv, Deciders

LEMMA MidIs ==
  ASSUME NEW t, NEW d, NEW h \in Handled \cup {None}, NEW j \in Jobs \cup {None},
         NEW l \in Limiters, NEW s \in ServerStates \cup {None}, NEW a \in Nat, NEW c \in Nat,
         d = [handled |-> h, job |-> j, limiter |-> l, latest |-> s, lastAttach |-> a,
              claimedAttach |-> c],
         h = None => s = None,
         j # None => /\ s # None /\ JobInv(j, h, t) /\ PendingFits(j, s)
                     /\ Busy(j) => NothingPending(j),
         LimiterFits(l, t), c <= a, a <= t
  PROVE  MidInv(d, t)
BY DEF MidInv, Deciders

LEMMA BusyIs ==
  ASSUME NEW j
  PROVE  Busy(j) <=> \/ \E k \in DOMAIN j.assignments : j.assignments[k].status = "issued"
                     \/ \E i \in DOMAIN j.commands : j.commands[i].status = "issued"
BY DEF Busy, EveryTask

LEMMA SettledIs ==
  ASSUME NEW j
  PROVE  Settled(j) <=> /\ \A k \in DOMAIN j.assignments : Over(j.assignments[k])
                        /\ \A i \in DOMAIN j.commands : Over(j.commands[i])
BY DEF Settled, EveryTask

LEMMA NothingDueIs ==
  ASSUME NEW j, NEW t
  PROVE  NothingDue(t, j) <=> /\ \A k \in DOMAIN j.assignments : ~Due(t, j.assignments[k])
                              /\ \A i \in DOMAIN j.commands : ~Due(t, j.commands[i])
BY DEF NothingDue, EveryTask

\* The windows of the devices sent are open at t.
WindowsOpen(j, t) ==
  \A k \in DOMAIN j.assignments :
    j.assignments[k].status = "awaitingArrival" => t < ArrivalDeadline(j.assignments[k])

\* The job in flight, with the newest state applied.
LEMMA AdvancedInv ==
  ASSUME NEW t \in Nat, NEW d, MidInv(d, t), d.job # None, NEW j, j = Advanced(t, d)
  PROVE  /\ JobInv(j, d.handled, t) /\ Applied(j, d.latest) /\ PendingFits(j, d.latest)
         /\ Busy(j) <=> Busy(d.job)
         /\ NothingPending(d.job) => NothingPending(j)
         /\ Busy(j) => NothingPending(j)
         /\ WindowsOpen(j, t) /\ j \in Jobs /\ j # None /\ j.ownership = d.job.ownership
         /\ DOMAIN j.assignments = DOMAIN d.job.assignments
         /\ DOMAIN j.commands = DOMAIN d.job.commands
<1>1. /\ d.latest # None /\ JobInv(d.job, d.handled, t) /\ PendingFits(d.job, d.latest)
      /\ Busy(d.job) => NothingPending(d.job)
  BY DEF MidInv
<1>2. IsServerState(d.latest)
  BY <1>1, MidShape, StateShape
<1>3. j = Expire(t, ApplyState(d.job, d.latest))
  BY DEF Advanced
<1>4. /\ JobInv(j, d.handled, t) /\ Applied(j, d.latest) /\ j.ownership = d.job.ownership
      /\ DOMAIN j.assignments = DOMAIN d.job.assignments
      /\ DOMAIN j.commands = DOMAIN d.job.commands
      /\ \A k \in DOMAIN d.job.assignments :
           /\ j.assignments[k].status = "issued" <=> d.job.assignments[k].status = "issued"
           /\ j.assignments[k].status = "pending" => d.job.assignments[k].status = "pending"
           /\ j.assignments[k].status = "awaitingArrival" =>
                t < ArrivalDeadline(j.assignments[k])
      /\ \A i \in DOMAIN d.job.commands :
           /\ j.commands[i].status = "issued" <=> d.job.commands[i].status = "issued"
           /\ j.commands[i].status = "pending" => d.job.commands[i].status = "pending"
  BY <1>1, <1>2, <1>3, AppliedInv
<1>5. Busy(j) <=> Busy(d.job)
  BY <1>4, BusyIs
<1>6. NothingPending(d.job) => NothingPending(j)
  BY <1>4 DEF NothingPending
<1>7. PendingFits(j, d.latest)
  BY <1>4 DEF PendingFits, Applied, Unfinished
<1>8. j \in Jobs /\ j # None
  <2>1. j \in Jobs
    BY <1>4 DEF JobInv
  <2> QED BY <2>1, NoneAssumption
<1>9. WindowsOpen(j, t)
  BY <1>4 DEF WindowsOpen
<1> QED BY <1>1, <1>4, <1>5, <1>6, <1>7, <1>8, <1>9

\* Where a call leaves the decider: waiting for something, or with nothing to do.
Stopped(d, t) ==
  /\ d.job = None => ~ClaimDue(d, t) /\ NextJob(t, d) = None
  /\ d.job # None => /\ NothingPending(d.job) /\ Applied(d.job, d.latest)
                     /\ WindowsOpen(d.job, t)
                     /\ ~Busy(d.job) => ~Settled(d.job) /\ NothingDue(t, d.job)

\* The job j is made for the state d holds: an ownership change, or give-aways.
FreshOwner(d, j) ==
  \/ /\ Activating(d.handled, d.latest)
     /\ j = OwnershipChangeJob(d.latest, OnActivation, TRUE)
  \/ /\ ~Activating(d.handled, d.latest) /\ Deactivating(d.handled, d.latest)
     /\ j = OwnershipChangeJob(d.latest, OnDeactivation, FALSE)
FreshGive(d, t, j) ==
  /\ ~Activating(d.handled, d.latest) /\ ~Deactivating(d.handled, d.latest)
  /\ j = GiveAwayJob(d, t)

LEMMA NextJobIs ==
  ASSUME NEW t, NEW d, NEW j, j = NextJob(t, d), j # None
  PROVE  d.latest # None /\ (FreshOwner(d, j) \/ FreshGive(d, t, j))
BY DEF NextJob, Reconcile, FreshOwner, FreshGive

LEMMA FreshOwnerInv ==
  ASSUME NEW d, d.latest \in ServerStates, NEW t \in Nat, NEW j, FreshOwner(d, j)
  PROVE  /\ JobInv(j, d.handled, t) /\ PendingFits(j, d.latest) /\ j # None
         /\ j.ownership = [owner |-> d.latest.owner, activation |-> d.latest.activation]
         /\ DOMAIN j.assignments = {} /\ ~CommandsExpired(j, d.latest) /\ AllPending(j)
<1> DEFINE s == d.latest
<1>1. \/ s.owner = Me /\ j = OwnershipChangeJob(s, OnActivation, TRUE)
      \/ s.owner # Me /\ s.owner # NoHost /\ j = OwnershipChangeJob(s, OnDeactivation, FALSE)
  BY DEF FreshOwner, Activating, Deactivating
<1> QED BY <1>1, OwnershipJobInv

LEMMA FreshGiveInv ==
  ASSUME NEW d, d.handled \in Handled, d.latest \in ServerStates, NEW t \in Nat,
         NEW j, FreshGive(d, t, j), j # None
  PROVE  /\ JobInv(j, d.handled, t) /\ PendingFits(j, d.latest) /\ j.ownership = None
         /\ Recorded(d, t) # {} /\ DOMAIN j.commands = {}
         /\ DOMAIN j.assignments = WithVerdict(d, t, "giveNow") /\ AllPending(j)
         /\ \A k \in Keys : j.seqs[k] = IF k \in Recorded(d, t)
                                        THEN d.latest.assignments[k].seq ELSE 0
<1>1. j = GiveAwayJob(d, t)
  BY DEF FreshGive
<1> QED BY <1>1, GiveAwayJobInv

\* Everything of a new job is pending.
LEMMA FreshJob ==
  ASSUME NEW t \in Nat, NEW d, MidInv(d, t), d.latest # None, NEW j, j # None,
         FreshOwner(d, j) \/ FreshGive(d, t, j)
  PROVE  /\ JobInv(j, d.handled, t) /\ PendingFits(j, d.latest) /\ j \in Jobs
         /\ Applied(j, d.latest) /\ WindowsOpen(j, t) /\ ~Busy(j) /\ AllPending(j)
<1>1. d.latest \in ServerStates /\ d.handled \in Handled
  BY MidShape
<1>2. /\ JobInv(j, d.handled, t) /\ PendingFits(j, d.latest) /\ AllPending(j)
      /\ CommandsExpired(j, d.latest) => DOMAIN j.commands = {}
  <2>1. CASE FreshOwner(d, j)
    BY <1>1, <2>1, FreshOwnerInv
  <2>2. CASE FreshGive(d, t, j)
    BY <1>1, <2>2, FreshGiveInv
  <2> QED BY <2>1, <2>2
<1>3. ~Busy(j)
  BY <1>2, BusyIs DEF AllPending
<1>4. Applied(j, d.latest) /\ WindowsOpen(j, t)
  BY <1>2 DEF Applied, WindowsOpen, PendingFits, AllPending
<1> QED BY <1>2, <1>3, <1>4 DEF JobInv

-----------------------------------------------------------------------------
(* What each kind of round does to the decider.                            *)

\* The fields of d but for its job.
SameButJob(e, d, j) ==
  /\ e.handled = d.handled /\ e.job = j /\ e.limiter = d.limiter /\ e.latest = d.latest
  /\ e.lastAttach = d.lastAttach /\ e.claimedAttach = d.claimedAttach

LEMMA MidJob ==
  ASSUME NEW t \in Nat, NEW d, MidInv(d, t), d.latest # None, NEW j, JobInv(j, d.handled, t),
         PendingFits(j, d.latest), Busy(j) => NothingPending(j), NEW e, e = [d EXCEPT !.job = j]
  PROVE  MidInv(e, t) /\ SameButJob(e, d, j) /\ j # None
<1>1. /\ d.handled \in Handled \cup {None} /\ d.limiter \in Limiters
      /\ d.latest \in ServerStates \cup {None} /\ d.lastAttach \in Nat /\ d.claimedAttach \in Nat
  BY MidShape
<1>2. j \in Jobs
  BY DEF JobInv
<1>3. e = [handled |-> d.handled, job |-> j, limiter |-> d.limiter, latest |-> d.latest,
           lastAttach |-> d.lastAttach, claimedAttach |-> d.claimedAttach]
  <2>1. d \in Deciders
    BY DEF MidInv
  <2> QED BY <2>1, WithJob
<1>4. /\ d.handled = None => d.latest = None
      /\ LimiterFits(d.limiter, t) /\ d.claimedAttach <= d.lastAttach /\ d.lastAttach <= t
  BY DEF MidInv
<1>5. MidInv(e, t)
  BY <1>1, <1>2, <1>3, <1>4, MidIs
<1> QED BY <1>2, <1>3, <1>5, NoneAssumption DEF SameButJob

\* A job that waits for the report of its issue.
LEMMA MidBusy ==
  ASSUME NEW t \in Nat, NEW d, MidInv(d, t), d.job # None, NEW j, j = Advanced(t, d),
         Busy(j), NEW e, e = [d EXCEPT !.job = j]
  PROVE  MidInv(e, t) /\ Stopped(e, t) /\ SameButJob(e, d, j) /\ j # None
<1>1. /\ JobInv(j, d.handled, t) /\ Applied(j, d.latest) /\ PendingFits(j, d.latest)
      /\ NothingPending(j) /\ WindowsOpen(j, t)
  BY AdvancedInv
<1>2. d.latest # None
  BY DEF MidInv
<1>3. MidInv(e, t) /\ SameButJob(e, d, j) /\ j # None
  BY <1>1, <1>2, MidJob
<1> QED BY <1>1, <1>3 DEF Stopped, SameButJob

\* A job that waits, and the issue of what is due of it.
LEMMA MidWaits ==
  ASSUME NEW t \in Nat, NEW d, MidInv(d, t), d.job # None, NEW j, j = Advanced(t, d),
         ~Busy(j), ~Settled(j), NEW w, w = Issue(t, j), NEW e, e = [d EXCEPT !.job = w]
  PROVE  /\ MidInv(e, t) /\ Stopped(e, t) /\ SameButJob(e, d, w) /\ w # None
         /\ Busy(w) <=> ~NothingDue(t, j)
<1>1. /\ JobInv(j, d.handled, t) /\ Applied(j, d.latest) /\ PendingFits(j, d.latest)
      /\ WindowsOpen(j, t)
  BY AdvancedInv
<1>2. /\ JobInv(w, d.handled, t) /\ w.ownership = j.ownership
      /\ DOMAIN w.assignments = DOMAIN j.assignments
      /\ DOMAIN w.commands = DOMAIN j.commands
      /\ \A k \in DOMAIN j.assignments : w.assignments[k] = IssuedTask(t, j.assignments[k])
      /\ \A i \in DOMAIN j.commands : w.commands[i] = IssuedTask(t, j.commands[i])
      /\ NothingPending(w)
      /\ NothingDue(t, j) => w = j
  BY <1>1, IssueInv
<1>3. PendingFits(w, d.latest)
  BY <1>2 DEF PendingFits, NothingPending
<1>4. d.latest # None
  BY DEF MidInv
<1>5. MidInv(e, t) /\ SameButJob(e, d, w) /\ w # None
  BY <1>2, <1>3, <1>4, MidJob
<1>6. CASE NothingDue(t, j)
  <2>1. w = j
    BY <1>2, <1>6
  <2> QED BY <1>1, <1>2, <1>5, <1>6, <2>1 DEF Stopped, SameButJob
<1>7. CASE ~NothingDue(t, j)
  <2>1. ASSUME NEW k \in DOMAIN j.assignments
        PROVE  /\ ~Due(t, j.assignments[k]) => w.assignments[k] = j.assignments[k]
               /\ Due(t, j.assignments[k]) =>
                    /\ w.assignments[k].status = "issued"
                    /\ w.assignments[k].assignment = j.assignments[k].assignment
                    /\ j.assignments[k].status \in Unfinished
    <3>1. j.assignments[k] \in AssignmentTasks
      BY <1>1, JobShape DEF JobInv
    <3>2. w.assignments[k] = IssuedTask(t, j.assignments[k])
      BY <1>2
    <3> QED BY <3>1, <3>2 DEF IssuedTask, IssueTask, AssignmentTasks, Due, Retriable, Unfinished
  <2>2. ASSUME NEW i \in DOMAIN j.commands
        PROVE  /\ ~Due(t, j.commands[i]) => w.commands[i] = j.commands[i]
               /\ Due(t, j.commands[i]) =>
                    w.commands[i].status = "issued" /\ j.commands[i].status \in Unfinished
    <3>1. j.commands[i] \in CommandTasks
      <4>1. j.commands \in Seq(CommandTasks)
        BY <1>1, JobShape DEF JobInv
      <4> QED BY <4>1
    <3>2. w.commands[i] = IssuedTask(t, j.commands[i])
      BY <1>2
    <3> QED BY <3>1, <3>2 DEF IssuedTask, IssueTask, CommandTasks, Due, Retriable, Unfinished
  <2>3. Busy(w)
    BY <1>2, <1>7, <2>1, <2>2, NothingDueIs, BusyIs
  <2>4. CommandsExpired(w, d.latest) <=> CommandsExpired(j, d.latest)
    BY <1>2 DEF CommandsExpired
  <2>5. Applied(w, d.latest)
    <3>1. ASSUME NEW k \in DOMAIN w.assignments
          PROVE  /\ w.assignments[k].status \in Unfinished => Wants(d.latest, k, w.assignments[k])
                 /\ w.assignments[k].status = "issued" /\ ~Current(d.latest, k, w.assignments[k])
                      => w.assignments[k].dropReason # "none"
      <4>1. CASE Due(t, j.assignments[k])
        <5>1. Wants(d.latest, k, j.assignments[k])
          BY <1>1, <1>2, <2>1, <4>1 DEF Applied
        <5>2. Current(d.latest, k, w.assignments[k])
          BY <1>2, <2>1, <4>1, <5>1 DEF Wants, Current
        <5> QED BY <1>2, <2>1, <4>1, <5>2 DEF Unfinished
      <4>2. CASE ~Due(t, j.assignments[k])
        BY <1>1, <1>2, <2>1, <4>2 DEF Applied
      <4> QED BY <4>1, <4>2
    <3>2. ASSUME NEW i \in DOMAIN w.commands, CommandsExpired(w, d.latest)
          PROVE  /\ w.commands[i].status \notin Unfinished
                 /\ w.commands[i].status = "issued" => w.commands[i].dropReason # "none"
      BY <1>1, <1>2, <2>2, <2>4, <3>2 DEF Applied
    <3> QED BY <3>1, <3>2 DEF Applied
  <2>6. WindowsOpen(w, t)
    BY <1>1, <1>2, <2>1 DEF WindowsOpen
  <2> QED BY <1>2, <1>5, <1>7, <2>3, <2>5, <2>6 DEF Stopped, SameButJob
<1> QED BY <1>6, <1>7

\* A job that is over, and its record.
LEMMA MidEnds ==
  ASSUME NEW t \in Nat \ {0}, NEW d, MidInv(d, t), d.job # None, NEW j, j = Advanced(t, d),
         NEW h, h = AddRecord(d.handled, j), NEW l, l = Count(d.limiter, t, Tried(j)),
         NEW e, e = [handled |-> h, job |-> None, limiter |-> l, latest |-> d.latest,
                     lastAttach |-> d.lastAttach, claimedAttach |-> d.claimedAttach]
  PROVE  /\ MidInv(e, t) /\ e.job = None /\ e.latest = d.latest
         /\ e.lastAttach = d.lastAttach /\ e.claimedAttach = d.claimedAttach
         /\ e.handled = h /\ h \in Handled /\ e.limiter = l
<1>1. /\ d.handled \in Handled /\ d.limiter \in Limiters
      /\ d.latest \in ServerStates \cup {None} /\ d.lastAttach \in Nat /\ d.claimedAttach \in Nat
  BY MidShape
<1>2. /\ LimiterFits(d.limiter, t) /\ d.claimedAttach <= d.lastAttach /\ d.lastAttach <= t
      /\ d \in Deciders
  BY DEF MidInv
<1>3. j \in Jobs
  BY AdvancedInv
<1>4. h \in Handled
  BY <1>1, <1>3, RecordInv
<1>5. l \in Limiters /\ LimiterFits(l, t)
  BY <1>1, <1>2, CountInv
<1>7. h # None
  BY <1>4, NoneAssumption
<1>8. MidInv(e, t)
  BY <1>1, <1>2, <1>4, <1>5, <1>7, MidIs
<1>9. /\ e.handled = h /\ e.limiter = l /\ e.job = None /\ e.latest = d.latest
      /\ e.lastAttach = d.lastAttach /\ e.claimedAttach = d.claimedAttach
  OBVIOUS
<1> QED BY ONLY <1>4, <1>8, <1>9

\* A claim: the attach is answered.
LEMMA MidClaims ==
  ASSUME NEW t \in Nat, NEW d, MidInv(d, t), NEW e, e = [d EXCEPT !.claimedAttach = d.lastAttach]
  PROVE  /\ MidInv(e, t) /\ e.job = d.job /\ e.latest = d.latest /\ e.handled = d.handled
         /\ e.lastAttach = d.lastAttach /\ e.claimedAttach = d.lastAttach /\ ~ClaimDue(e, t)
         /\ e.limiter = d.limiter
<1>1. /\ d.handled \in Handled \cup {None} /\ d.limiter \in Limiters /\ d.job \in Jobs \cup {None}
      /\ d.latest \in ServerStates \cup {None} /\ d.lastAttach \in Nat /\ d.claimedAttach \in Nat
  BY MidShape
<1>2. /\ LimiterFits(d.limiter, t) /\ d.lastAttach <= t /\ d.lastAttach <= d.lastAttach
      /\ d \in Deciders
      /\ d.handled = None => d.latest = None
      /\ d.job # None => /\ d.latest # None /\ JobInv(d.job, d.handled, t)
                         /\ PendingFits(d.job, d.latest)
                         /\ Busy(d.job) => NothingPending(d.job)
  BY <1>1 DEF MidInv
<1>3. e = [handled |-> d.handled, job |-> d.job, limiter |-> d.limiter, latest |-> d.latest,
           lastAttach |-> d.lastAttach, claimedAttach |-> d.lastAttach]
  BY <1>2, WithClaim
<1>4. MidInv(e, t)
  BY <1>1, <1>2, <1>3, MidIs
<1>5. e.lastAttach = d.lastAttach /\ e.claimedAttach = d.lastAttach
  BY <1>3
<1> QED BY <1>3, <1>4, <1>5 DEF ClaimDue, ClaimAt

\* A new job.
LEMMA MidStarts ==
  ASSUME NEW t \in Nat, NEW d, MidInv(d, t), NEW j, j = NextJob(t, d), j # None,
         NEW e, e = [d EXCEPT !.job = j]
  PROVE  /\ MidInv(e, t) /\ SameButJob(e, d, j) /\ d.latest # None
         /\ FreshOwner(d, j) \/ FreshGive(d, t, j)
         /\ Applied(j, d.latest) /\ WindowsOpen(j, t) /\ ~Busy(j) /\ AllPending(j)
<1>1. d.latest # None /\ (FreshOwner(d, j) \/ FreshGive(d, t, j))
  BY NextJobIs
<1>2. /\ JobInv(j, d.handled, t) /\ PendingFits(j, d.latest) /\ j \in Jobs
      /\ Applied(j, d.latest) /\ WindowsOpen(j, t) /\ ~Busy(j) /\ AllPending(j)
  BY <1>1, FreshJob
<1>3. MidInv(e, t) /\ SameButJob(e, d, j)
  BY <1>1, <1>2, MidJob
<1> QED BY <1>1, <1>2, <1>3

-----------------------------------------------------------------------------
(* A round keeps the decider's invariant.                                  *)

LEMMA IssueTyped ==
  ASSUME NEW j \in Jobs, NEW t
  PROVE  IssueDecision(t, j) \in Decisions
<1> DEFINE c == DueCommands(t, j)
           r == [i \in DOMAIN c |-> c[i].cmd]
           g == [k \in DueKeys(t, j) |-> j.assignments[k].assignment]
<1>1. j.commands \in Seq(CommandTasks)
  BY JobShape
<1>2. c \in Seq(CommandTasks)
  <2> DEFINE z == j.commands
             P == {i \in DOMAIN z : Due(t, z[i])}
  <2>1. Len(z) \in Nat /\ \A i \in 1..Len(z) : i \in P => z[i] \in CommandTasks
    BY <1>1
  <2> HIDE DEF z, P
  <2>2. AtPositions(z, P) \in Seq(CommandTasks)
    BY <2>1, AtPositionsIn
  <2> QED BY <2>2 DEF DueCommands, z, P
<1>3. g \in [DueKeys(t, j) -> Assignment] /\ DueKeys(t, j) \in SUBSET Keys
  <2>1. ASSUME NEW k \in DueKeys(t, j) PROVE j.assignments[k].assignment \in Assignment
    <3>1. j.assignments[k] \in AssignmentTasks
      BY JobShape DEF DueKeys
    <3> QED BY <3>1 DEF AssignmentTasks
  <2>2. DueKeys(t, j) \in SUBSET Keys
    BY JobShape DEF DueKeys
  <2> QED BY <2>1, <2>2
<1> HIDE DEF c, g
<1>4. r \in Seq(Commands)
  <2>1. DOMAIN c = 1..Len(c) /\ Len(c) \in Nat /\ \A i \in 1..Len(c) : c[i] \in CommandTasks
    BY <1>2
  <2>2. \A i \in 1..Len(c) : c[i].cmd \in Commands
    BY <2>1 DEF CommandTasks
  <2>3. r \in [1..Len(c) -> Commands]
    BY <2>1, <2>2
  <2> QED BY <2>1, <2>3
<1> HIDE DEF r
<1>5. IssueDecision(t, j) = [type |-> "issue", run |-> r, giveAway |-> g]
  BY DEF IssueDecision, r, g, c
<1> QED BY <1>3, <1>4, <1>5 DEF Decisions

LEMMA SaveTyped ==
  ASSUME NEW h \in Handled, NEW j \in Jobs
  PROVE  SaveDecision(h, j, NotifyFor(j)) \in Decisions
<1>1. NotifyFor(j) \in SUBSET Keys
  BY JobShape DEF NotifyFor
<1> HIDE DEF NotifyFor
<1> QED BY <1>1 DEF SaveDecision, Decisions

Loops == [m : Deciders, ds : Seq(Decisions), more : BOOLEAN]

\* No round changes what was observed, and the last one leaves the decider
\* with nothing to do at t.
LEMMA RoundMid ==
  ASSUME NEW t \in Nat \ {0}, NEW x \in Loops, MidInv(x.m, t), x.more,
         NEW y, y = Round(t, x)
  PROVE  /\ y \in Loops /\ MidInv(y.m, t)
         /\ y.m.latest = x.m.latest /\ y.m.lastAttach = x.m.lastAttach
         /\ ~y.more => Stopped(y.m, t)
         /\ \/ RoundBusy(t, x, y) \/ RoundWaits(t, x, y) \/ RoundEnds(t, x, y)
            \/ RoundClaims(t, x, y) \/ RoundStarts(t, x, y) \/ RoundStops(t, x, y)
<1>1. Shaped(x) /\ x.m \in Deciders /\ x.ds \in Seq(Decisions)
  BY DEF Loops, Shaped
<1>2. /\ Shaped(y)
      /\ \/ RoundBusy(t, x, y) \/ RoundWaits(t, x, y) \/ RoundEnds(t, x, y)
         \/ RoundClaims(t, x, y) \/ RoundStarts(t, x, y) \/ RoundStops(t, x, y)
  BY <1>1, RoundIs
<1> DEFINE Good == /\ MidInv(y.m, t) /\ y.ds \in Seq(Decisions)
                   /\ y.m.latest = x.m.latest /\ y.m.lastAttach = x.m.lastAttach
                   /\ ~y.more => Stopped(y.m, t)
<1>3. ASSUME RoundBusy(t, x, y) PROVE Good
  <2>1. /\ x.m.job # None /\ Busy(Advanced(t, x.m))
        /\ y.m = [x.m EXCEPT !.job = Advanced(t, x.m)] /\ y.ds = x.ds
    BY <1>3 DEF RoundBusy
  <2>2. MidInv(y.m, t) /\ Stopped(y.m, t) /\ SameButJob(y.m, x.m, Advanced(t, x.m))
    BY <2>1, MidBusy
  <2> QED BY <1>1, <2>1, <2>2 DEF SameButJob
<1>4. ASSUME RoundWaits(t, x, y) PROVE Good
  <2> DEFINE j == Advanced(t, x.m)
  <2>1. /\ x.m.job # None /\ ~Busy(j) /\ ~Settled(j)
        /\ y.m = [x.m EXCEPT !.job = Issue(t, j)]
        /\ y.ds = x.ds \/ y.ds = Append(x.ds, IssueDecision(t, j))
    BY <1>4 DEF RoundWaits
  <2>2. MidInv(y.m, t) /\ Stopped(y.m, t) /\ SameButJob(y.m, x.m, Issue(t, j))
    BY <2>1, MidWaits
  <2>3. IssueDecision(t, j) \in Decisions
    BY <2>1, AdvancedInv, IssueTyped
  <2> HIDE DEF j
  <2>4. Append(x.ds, IssueDecision(t, j)) \in Seq(Decisions)
    BY <1>1, <2>3, AppendProperties
  <2> QED BY <1>1, <2>1, <2>2, <2>4 DEF SameButJob
<1>5. ASSUME RoundEnds(t, x, y) PROVE Good
  <2> DEFINE j == Advanced(t, x.m)
             h == AddRecord(x.m.handled, j)
             l == Count(x.m.limiter, t, Tried(j))
  <2>1. /\ x.m.job # None
        /\ y.m = [handled |-> h, job |-> None, limiter |-> l, latest |-> x.m.latest,
                  lastAttach |-> x.m.lastAttach, claimedAttach |-> x.m.claimedAttach]
        /\ y.ds = Append(x.ds, SaveDecision(h, j, NotifyFor(j))) /\ y.more
    BY <1>5 DEF RoundEnds
  <2>15. /\ j = Advanced(t, x.m) /\ h = AddRecord(x.m.handled, j)
         /\ l = Count(x.m.limiter, t, Tried(j))
    OBVIOUS
  <2> HIDE DEF j, h, l
  <2>2. /\ MidInv(y.m, t) /\ y.m.latest = x.m.latest /\ y.m.lastAttach = x.m.lastAttach
        /\ y.m.handled = h /\ h \in Handled
    BY <2>1, <2>15, MidEnds
  <2>3. j \in Jobs
    BY <2>1, <2>15, AdvancedInv
  <2> HIDE DEF j, h
  <2>4. SaveDecision(h, j, NotifyFor(j)) \in Decisions
    BY <2>2, <2>3, SaveTyped
  <2>5. Append(x.ds, SaveDecision(h, j, NotifyFor(j))) \in Seq(Decisions)
    BY <1>1, <2>4, AppendProperties
  <2> QED BY <2>1, <2>2, <2>5
<1>6. ASSUME RoundClaims(t, x, y) PROVE Good
  <2>1. /\ y.m = [x.m EXCEPT !.claimedAttach = x.m.lastAttach]
        /\ y.ds = Append(x.ds, ClaimDecision) /\ y.more
    BY <1>6 DEF RoundClaims
  <2>2. MidInv(y.m, t) /\ y.m.latest = x.m.latest /\ y.m.lastAttach = x.m.lastAttach
    BY <2>1, MidClaims
  <2>3. ClaimDecision \in Decisions
    BY DEF ClaimDecision, Decisions
  <2>4. Append(x.ds, ClaimDecision) \in Seq(Decisions)
    BY <1>1, <2>3, AppendProperties
  <2> QED BY <2>1, <2>2, <2>4
<1>7. ASSUME RoundStarts(t, x, y) PROVE Good
  <2>1. /\ NextJob(t, x.m) # None /\ y.m = [x.m EXCEPT !.job = NextJob(t, x.m)]
        /\ y.ds = x.ds /\ y.more
    BY <1>7 DEF RoundStarts
  <2>2. MidInv(y.m, t) /\ SameButJob(y.m, x.m, NextJob(t, x.m))
    BY <2>1, MidStarts
  <2> QED BY <1>1, <2>1, <2>2 DEF SameButJob
<1>8. ASSUME RoundStops(t, x, y) PROVE Good
  BY <1>1, <1>8 DEF RoundStops, Stopped
<1>9. Good
  BY <1>2, <1>3, <1>4, <1>5, <1>6, <1>7, <1>8
<1>10. y \in Loops
  <2>1. y.m \in Deciders
    BY <1>9 DEF MidInv
  <2> HIDE DEF MidInv, Stopped
  <2> QED BY <1>2, <1>9, <2>1 DEF Shaped, Loops
<1> QED BY <1>2, <1>9, <1>10

-----------------------------------------------------------------------------
(* The loop ends: how many more rounds it can take from the decider d.     *)

Free(t, d) == d.job = None /\ ~ClaimDue(d, t)
NoEdge(d) == ~Activating(d.handled, d.latest) /\ ~Deactivating(d.handled, d.latest)
Rank(t, d, n) ==
  \/ n >= 6 /\ d.job = None
  \/ n >= 5 /\ Free(t, d)
  \/ n >= 4 /\ d.job # None /\ FreshOwner(d, d.job) /\ ~ClaimDue(d, t)
  \/ n >= 3 /\ Free(t, d) /\ NoEdge(d)
  \/ n >= 2 /\ d.job # None /\ FreshGive(d, t, d.job) /\ ~ClaimDue(d, t)
  \/ n >= 1 /\ Free(t, d) /\ NextJob(t, d) = None

\* A new job with the newest state applied is as it was made.
LEMMA FreshAdvanced ==
  ASSUME NEW t \in Nat, NEW d, MidInv(d, t), d.job # None,
         FreshOwner(d, d.job) \/ FreshGive(d, t, d.job), NEW j, j = Advanced(t, d)
  PROVE  j = d.job /\ ~Busy(j) /\ AllPending(j) /\ d.latest # None
<1>1. d.latest # None
  BY DEF MidInv
<1>2. /\ Applied(d.job, d.latest) /\ WindowsOpen(d.job, t) /\ ~Busy(d.job) /\ AllPending(d.job)
      /\ d.job \in Jobs
  BY <1>1, FreshJob
<1>3. \A k \in DOMAIN d.job.assignments : d.job.assignments[k].status = "awaitingArrival" =>
        ~(t >= ArrivalDeadline(d.job.assignments[k]))
  <2>1. ASSUME NEW k \in DOMAIN d.job.assignments
        PROVE  d.job.assignments[k].status # "awaitingArrival"
    BY <1>2 DEF AllPending
  <2> QED BY <2>1
<1>4. j = d.job
  BY <1>1, <1>2, <1>3, AppliedSame DEF Advanced
<1> QED BY <1>1, <1>2, <1>4

\* A new job that is over at once has no task.
LEMMA FreshSettled ==
  ASSUME NEW j, AllPending(j), Settled(j)
  PROVE  /\ DOMAIN j.assignments = {} /\ DOMAIN j.commands = {}
         /\ Tried(j) = {} /\ NotifyFor(j) = {}
<1>1. DOMAIN j.assignments = {} /\ DOMAIN j.commands = {}
  BY SettledIs DEF AllPending, Over
<1> QED BY <1>1 DEF Tried, NotifyFor

\* The end of a new job: its record settles what it was made for.
LEMMA OwnerRecorded ==
  ASSUME NEW d, NEW s \in ServerStates, s = d.latest, NEW j, FreshOwner(d, j),
         NEW e, e.latest = s,
         e.handled.ownership = [owner |-> s.owner, activation |-> s.activation]
  PROVE  NoEdge(e)
BY DEF NoEdge, Activating, Deactivating, FreshOwner

LEMMA GiveRecorded ==
  ASSUME NEW t \in Nat, NEW d, MidInv(d, t), d.latest # None,
         NEW j, j # None, FreshGive(d, t, j), DOMAIN j.assignments = {},
         NEW e, e.latest = d.latest, e.limiter = d.limiter, e.handled = AddRecord(d.handled, j)
  PROVE  NextJob(t, e) = None
<1>1. d.latest \in ServerStates /\ d.handled \in Handled
  BY MidShape
<1>2. /\ JobInv(j, d.handled, t) /\ j.ownership = None
      /\ WithVerdict(d, t, "giveNow") = {}
      /\ \A k \in Keys : j.seqs[k] = IF k \in Recorded(d, t) THEN d.latest.assignments[k].seq ELSE 0
  BY <1>1, FreshGiveInv
<1>3. j \in Jobs
  BY <1>2 DEF JobInv
<1>4. /\ e.handled.ownership = d.handled.ownership
      /\ e.handled.seqs = [k \in Keys |-> IF j.seqs[k] # 0 THEN j.seqs[k] ELSE d.handled.seqs[k]]
  BY <1>1, <1>2, <1>3, RecordInv
<1>5. NoEdge(e)
  BY <1>4 DEF FreshGive, NoEdge, Activating, Deactivating
<1>6. ASSUME NEW k \in PendingKeys(e.handled, e.latest)
      PROVE  /\ k \in PendingKeys(d.handled, d.latest)
             /\ Verdict(t, d.latest, d.limiter, k) \notin {"giveNow", "alreadyArrived"}
  <2>1. /\ k \in DOMAIN d.latest.assignments /\ k \in Keys
        /\ d.latest.assignments[k].assignee # Me /\ d.latest.assignments[k].seq # 0
        /\ e.handled.seqs[k] # d.latest.assignments[k].seq
    BY <1>1, <1>6, StateShape DEF PendingKeys, Has
  <2>2. k \notin Recorded(d, t) /\ j.seqs[k] = 0 /\ e.handled.seqs[k] = d.handled.seqs[k]
    BY <1>2, <1>4, <2>1
  <2>3. k \in PendingKeys(d.handled, d.latest)
    BY <2>1, <2>2 DEF PendingKeys, Has
  <2> QED BY <2>2, <2>3 DEF Recorded, WithVerdict
<1>7. WithVerdict(e, t, "giveNow") = {} /\ WithVerdict(e, t, "alreadyArrived") = {}
  BY <1>6 DEF WithVerdict
<1>8. GiveAwayJob(e, t) = None
  BY <1>7 DEF GiveAwayJob
<1> QED BY <1>5, <1>8 DEF NextJob, Reconcile, NoEdge

\* Each round leaves one fewer to go.
LEMMA RoundRank ==
  ASSUME NEW t \in Nat \ {0}, NEW x \in Loops, MidInv(x.m, t), x.more,
         NEW n \in 1..6, Rank(t, x.m, n), NEW y, y = Round(t, x)
  PROVE  y.more => n - 1 \in 1..6 /\ Rank(t, y.m, n - 1)
<1> DEFINE d == x.m
           e == y.m
           Good == y.more => n - 1 \in 1..6 /\ Rank(t, e, n - 1)
<1>1. \/ RoundBusy(t, x, y) \/ RoundWaits(t, x, y) \/ RoundEnds(t, x, y)
      \/ RoundClaims(t, x, y) \/ RoundStarts(t, x, y) \/ RoundStops(t, x, y)
  BY RoundMid
<1>2. CASE RoundBusy(t, x, y) \/ RoundWaits(t, x, y) \/ RoundStops(t, x, y)
  BY <1>2 DEF RoundBusy, RoundWaits, RoundStops
<1>3. ASSUME RoundClaims(t, x, y) PROVE Good
  <2>1. d.job = None /\ ClaimDue(d, t) /\ e = [d EXCEPT !.claimedAttach = d.lastAttach]
    BY <1>3 DEF RoundClaims
  <2>2. Free(t, e)
    <3>1. e.job = d.job /\ ~ClaimDue(e, t)
      BY <2>1, MidClaims
    <3> QED BY <2>1, <3>1 DEF Free
  <2>3. n = 6
    BY <2>1 DEF Rank, Free
  <2> QED BY <2>2, <2>3 DEF Rank
<1>4. ASSUME RoundStarts(t, x, y) PROVE Good
  <2>1. /\ d.job = None /\ ~ClaimDue(d, t) /\ NextJob(t, d) # None
        /\ e = [d EXCEPT !.job = NextJob(t, d)]
    BY <1>4 DEF RoundStarts
  <2>2. /\ SameButJob(e, d, NextJob(t, d)) /\ d.latest # None
        /\ FreshOwner(d, NextJob(t, d)) \/ FreshGive(d, t, NextJob(t, d))
    BY <2>1, MidStarts
  <2>3. ~ClaimDue(e, t) /\ e.job # None
    BY <2>1, <2>2 DEF SameButJob, ClaimDue, ClaimAt
  <2>4. CASE FreshOwner(d, NextJob(t, d))
    <3>1. FreshOwner(e, e.job)
      BY <2>2, <2>4 DEF SameButJob, FreshOwner
    <3>2. ~NoEdge(d)
      BY <2>4 DEF FreshOwner, NoEdge
    <3>3. n >= 5
      BY <2>1, <3>2 DEF Rank
    <3> QED BY <2>3, <3>1, <3>3 DEF Rank
  <2>5. CASE FreshGive(d, t, NextJob(t, d))
    <3>1. FreshGive(e, t, e.job)
      <4>1. GiveAwayJob(e, t) = GiveAwayJob(d, t)
        BY <2>2 DEF SameButJob, GiveAwayJob, WithVerdict
      <4> QED BY <2>2, <2>5, <4>1 DEF SameButJob, FreshGive
    <3>2. n >= 3
      BY <2>1 DEF Rank
    <3> QED BY <2>3, <3>1, <3>2 DEF Rank
  <2> QED BY <2>2, <2>4, <2>5
<1>5. ASSUME RoundEnds(t, x, y) PROVE Good
  <2> DEFINE j == Advanced(t, d)
             h == AddRecord(d.handled, j)
             l == Count(d.limiter, t, Tried(j))
  <2>1. /\ d.job # None /\ Settled(j)
        /\ e = [handled |-> h, job |-> None, limiter |-> l, latest |-> d.latest,
                lastAttach |-> d.lastAttach, claimedAttach |-> d.claimedAttach]
    BY <1>5 DEF RoundEnds
  <2>2. /\ ~ClaimDue(d, t)
        /\ (FreshOwner(d, d.job) /\ n >= 4) \/ (FreshGive(d, t, d.job) /\ n >= 2)
    BY <2>1 DEF Rank, Free
  <2>3. /\ j = d.job /\ d.latest # None /\ Tried(j) = {} /\ DOMAIN j.assignments = {}
        /\ d.latest \in ServerStates /\ d.handled \in Handled /\ d.limiter \in Limiters
    <3>1. j = d.job /\ AllPending(j) /\ d.latest # None
      BY <2>1, <2>2, FreshAdvanced
    <3>2. Tried(j) = {} /\ DOMAIN j.assignments = {}
      BY <2>1, <3>1, FreshSettled
    <3>3. d.latest \in ServerStates /\ d.handled \in Handled /\ d.limiter \in Limiters
      BY <2>1, MidShape
    <3> QED BY <3>1, <3>2, <3>3
  <2>35. j = Advanced(t, d) /\ h = AddRecord(d.handled, j) /\ l = Count(d.limiter, t, Tried(j))
    OBVIOUS
  <2> HIDE DEF j, h, l
  <2>4. /\ e.job = None /\ e.latest = d.latest /\ e.handled = h /\ e.limiter = l
        /\ e.lastAttach = d.lastAttach /\ e.claimedAttach = d.claimedAttach
    BY <2>1
  <2>5. Free(t, e)
    BY <2>2, <2>4 DEF Free, ClaimDue, ClaimAt
  <2>6. CASE FreshOwner(d, d.job) /\ n >= 4
    <3>1. j.ownership = [owner |-> d.latest.owner, activation |-> d.latest.activation]
      BY <2>3, <2>6, FreshOwnerInv
    <3>2. j \in Jobs /\ j # None
      BY <2>1, <2>35, AdvancedInv
    <3>3. d.latest \in ServerStates /\ IsServerState(d.latest)
      BY <2>3, StateShape
    <3>4. j.ownership # None
      <4>1. j.ownership \in Ownership
        BY <3>1, <3>3 DEF IsServerState, Ownership
      <4> QED BY <4>1, NoneAssumption
    <3>5. e.handled.ownership = [owner |-> d.latest.owner, activation |-> d.latest.activation]
      <4>1. d.handled \in Handled /\ j \in Jobs /\ h = AddRecord(d.handled, j)
        BY <2>3, <2>35, <3>2
      <4>2. h.ownership = IF j.ownership # None THEN j.ownership ELSE d.handled.ownership
        BY ONLY <4>1, RecordInv
      <4> QED BY <2>4, <3>1, <3>4, <4>2
    <3>6. NoEdge(e)
      BY <2>3, <2>4, <2>6, <3>5, OwnerRecorded
    <3> QED BY <2>5, <2>6, <3>6 DEF Rank
  <2>7. CASE FreshGive(d, t, d.job) /\ n >= 2
    <3>1. l = d.limiter
      <4>1. LimiterFits(d.limiter, t)
        BY DEF MidInv
      <4> QED BY <2>3, <2>35, <4>1, CountInv
    <3>2. NextJob(t, e) = None
      BY <2>1, <2>3, <2>35, <2>4, <2>7, <3>1, GiveRecorded
    <3> QED BY <2>5, <2>7, <3>2 DEF Rank
  <2> QED BY <2>2, <2>6, <2>7
<1> QED BY <1>1, <1>2, <1>3, <1>4, <1>5

\* The loop states after which at most n rounds are left, of a call that
\* began at the decider b.
Going(t, b, n) ==
  {x \in Loops : /\ MidInv(x.m, t)
                 /\ x.m.latest = b.latest /\ x.m.lastAttach = b.lastAttach
                 /\ ~x.more => Stopped(x.m, t)
                 /\ x.more => n \in 1..6 /\ Rank(t, x.m, n)}

LEMMA GoingOn ==
  ASSUME NEW t \in Nat \ {0}, NEW b, NEW n \in 1..6, NEW x \in Going(t, b, n)
  PROVE  Round(t, x) \in Going(t, b, n - 1)
<1> DEFINE y == Round(t, x)
<1>1. /\ x \in Loops /\ MidInv(x.m, t)
      /\ x.m.latest = b.latest /\ x.m.lastAttach = b.lastAttach
      /\ ~x.more => Stopped(x.m, t)
      /\ x.more => Rank(t, x.m, n)
  BY DEF Going
<1>2. CASE ~x.more
  <2>1. y = x
    BY <1>2, RoundOver
  <2> QED BY <1>1, <1>2, <2>1 DEF Going
<1>3. CASE x.more
  <2>1. /\ y \in Loops /\ MidInv(y.m, t)
        /\ y.m.latest = x.m.latest /\ y.m.lastAttach = x.m.lastAttach
        /\ ~y.more => Stopped(y.m, t)
    BY <1>1, <1>3, RoundMid
  <2>2. y.more => n - 1 \in 1..6 /\ Rank(t, y.m, n - 1)
    BY <1>1, <1>3, RoundRank
  <2> HIDE DEF y
  <2>3. y \in Going(t, b, n - 1)
    BY <1>1, <2>1, <2>2 DEF Going
  <2> QED BY <2>3 DEF y
<1> QED BY <1>2, <1>3

\* A call: the rounds allowed are enough, and it ends where there is nothing
\* to do but wait.
LEMMA CallEnds ==
  ASSUME NEW t \in Nat \ {0}, NEW b, MidInv(b, t), NEW d \in Seq(Decisions),
         NEW z, z = AdvanceTime(t, b, d)
  PROVE  /\ z \in Loops /\ MidInv(z.m, t) /\ Stopped(z.m, t) /\ ~z.more
         /\ z.m.latest = b.latest /\ z.m.lastAttach = b.lastAttach
<1> DEFINE x0 == [m |-> b, ds |-> d, more |-> TRUE]
           x1 == Round(t, x0)
           x2 == Round(t, x1)
           x3 == Round(t, x2)
           x4 == Round(t, x3)
           x5 == Round(t, x4)
           x6 == Round(t, x5)
           x7 == Round(t, x6)
<1>1. z = x7
  BY AdvanceRounds
<1>2. x0 \in Loops /\ x0.m = b /\ x0.more /\ MidInv(x0.m, t)
  BY DEF Loops, MidInv
<1> HIDE DEF x0
<1>3. x1 \in Going(t, b, 6)
  <2>1. /\ x1 \in Loops /\ MidInv(x1.m, t)
        /\ x1.m.latest = x0.m.latest /\ x1.m.lastAttach = x0.m.lastAttach
        /\ ~x1.more => Stopped(x1.m, t)
        /\ \/ RoundBusy(t, x0, x1) \/ RoundWaits(t, x0, x1) \/ RoundEnds(t, x0, x1)
           \/ RoundClaims(t, x0, x1) \/ RoundStarts(t, x0, x1) \/ RoundStops(t, x0, x1)
    BY <1>2, RoundMid
  <2>2. x1.more => Rank(t, x1.m, 6)
    <3>1. CASE x0.m.job # None
      <4>1. x1.more => x1.m.job = None
        <5> HIDE DEF x1
        <5> QED BY <2>1, <3>1 DEF RoundBusy, RoundWaits, RoundEnds, RoundClaims, RoundStarts, RoundStops
      <4> QED BY <4>1 DEF Rank
    <3>2. CASE x0.m.job = None
      <4>1. Rank(t, x0.m, 6)
        BY <3>2 DEF Rank
      <4>2. x1.more => Rank(t, x1.m, 5)
        BY <1>2, <4>1, RoundRank
      <4> QED BY <4>2 DEF Rank
    <3> QED BY <3>1, <3>2
  <2> HIDE DEF x1
  <2> QED BY <1>2, <2>1, <2>2 DEF Going
<1> HIDE DEF x1
<1>4. x2 \in Going(t, b, 5)
  BY <1>3, GoingOn
<1> HIDE DEF x2
<1>5. x3 \in Going(t, b, 4)
  BY <1>4, GoingOn
<1> HIDE DEF x3
<1>6. x4 \in Going(t, b, 3)
  BY <1>5, GoingOn
<1> HIDE DEF x4
<1>7. x5 \in Going(t, b, 2)
  BY <1>6, GoingOn
<1> HIDE DEF x5
<1>8. x6 \in Going(t, b, 1)
  BY <1>7, GoingOn
<1> HIDE DEF x6
<1>9. x7 \in Going(t, b, 0)
  BY <1>8, GoingOn
<1> HIDE DEF x7
<1> QED BY <1>1, <1>9 DEF Going

\* What every round keeps, the call keeps.
LEMMA LoopKeeps ==
  ASSUME NEW t, NEW b, NEW d, NEW S, [m |-> b, ds |-> d, more |-> TRUE] \in S,
         \A x \in S : Round(t, x) \in S
  PROVE  AdvanceTime(t, b, d) \in S
BY AdvanceRounds

-----------------------------------------------------------------------------
(* Between two calls, and what a call may observe.                         *)

CallInv(d, t) == MidInv(d, t) /\ (d.job # None => NothingPending(d.job))

LEMMA CallMid ==
  ASSUME NEW t \in Nat \ {0}, NEW b, MidInv(b, t), NEW d \in Seq(Decisions),
         NEW z, z = AdvanceTime(t, b, d)
  PROVE  CallInv(z.m, t) /\ Stopped(z.m, t) /\ z.ds \in Seq(Decisions)
<1>1. z \in Loops /\ MidInv(z.m, t) /\ Stopped(z.m, t)
  BY CallEnds
<1>2. z.ds \in Seq(Decisions)
  BY <1>1 DEF Loops
<1> QED BY <1>1, <1>2 DEF CallInv, Stopped

\* A decider just made, from what agent.json says.
LEMMA NewInv ==
  ASSUME NEW t \in Nat, NEW rec \in Handled \cup {None}, NEW d, d = NewDecider(rec)
  PROVE  CallInv(d, t) /\ d.job = None /\ d.latest = None /\ Stopped(d, t)
<1> DEFINE e == <<>>
<1>1. e \in Seq(Nat) /\ DOMAIN e = {}
  OBVIOUS
<1> DEFINE l == [recent |-> [k \in Keys |-> e], trippedAt |-> 0]
<1>2. l = NewRateLimiter
  BY DEF NewRateLimiter
<1> HIDE DEF e
<1>3. l \in Limiters /\ LimiterFits(l, t)
  BY <1>1 DEF Limiters, LimiterFits
<1> HIDE DEF l
<1>4. d = [handled |-> rec, job |-> None, limiter |-> l, latest |-> None,
           lastAttach |-> 0, claimedAttach |-> 0]
  BY <1>2 DEF NewDecider
<1>5. MidInv(d, t)
  BY <1>3, <1>4, MidIs
<1>6. ~ClaimDue(d, t) /\ NextJob(t, d) = None
  BY <1>4 DEF ClaimDue, ClaimAt, NextJob
<1> QED BY <1>4, <1>5, <1>6 DEF CallInv, Stopped

\* Time alone breaks no invariant.
LEMMA LaterJob ==
  ASSUME NEW t \in Nat, NEW u \in Nat, t <= u, NEW h, NEW j, JobInv(j, h, t)
  PROVE  JobInv(j, h, u)
<1>1. j \in Jobs
  BY DEF JobInv
<1>2. ASSUME NEW i \in DOMAIN j.commands PROVE TaskBounds(j.commands[i], u)
  <2>1. j.commands[i] \in CommandTasks
    <3>1. j.commands \in Seq(CommandTasks)
      BY <1>1, JobShape
    <3> QED BY <3>1
  <2>2. j.commands[i].lastIssued \in Nat
    BY <2>1 DEF CommandTasks
  <2> QED BY <2>2 DEF JobInv, TaskBounds
<1>3. ASSUME NEW k \in DOMAIN j.assignments
      PROVE  AssignmentInv(k, j.assignments[k], j.seqs[k], h, u)
  <2>1. j.assignments[k] \in AssignmentTasks
    BY <1>1, JobShape
  <2>2. j.assignments[k].lastIssued \in Nat /\ j.assignments[k].sentAt \in Nat
    BY <2>1 DEF AssignmentTasks
  <2>3. AssignmentInv(k, j.assignments[k], j.seqs[k], h, t)
    BY DEF JobInv
  <2> DEFINE v == j.assignments[k]
  <2> HIDE DEF v
  <2>4. TaskBounds(v, t) /\ v.sentAt <= t /\ v.lastIssued \in Nat /\ v.sentAt \in Nat
    BY <2>2, <2>3 DEF AssignmentInv, v
  <2>5. TaskBounds(v, u) /\ v.sentAt <= u
    BY <2>4 DEF TaskBounds
  <2> QED BY <2>3, <2>5 DEF AssignmentInv, v
<1> QED BY <1>2, <1>3 DEF JobInv

LEMMA LaterInv ==
  ASSUME NEW t \in Nat, NEW u \in Nat, t <= u, NEW d, CallInv(d, t)
  PROVE  CallInv(d, u)
<1>1. MidInv(d, t)
  BY DEF CallInv
<1>2. LimiterFits(d.limiter, u)
  <2>1. LimiterFits(d.limiter, t) /\ d.limiter.trippedAt \in Nat
    BY <1>1 DEF MidInv, Deciders, Limiters
  <2> QED BY <2>1 DEF LimiterFits
<1>3. d.lastAttach <= u
  <2>1. d.lastAttach \in Nat /\ d.lastAttach <= t
    BY <1>1 DEF MidInv, Deciders
  <2> QED BY <2>1
<1>4. d.job # None => JobInv(d.job, d.handled, u)
  BY <1>1, LaterJob DEF MidInv
<1> QED BY <1>1, <1>2, <1>3, <1>4 DEF CallInv, MidInv

\* A state observed.
LEMMA StateSeen ==
  ASSUME NEW t \in Nat, NEW d, CallInv(d, t), NEW s \in ServerStates,
         NEW e, e = HandleState(d, s)
  PROVE  /\ MidInv(e, t) /\ e.job = d.job
         /\ e.lastAttach = d.lastAttach /\ e.claimedAttach = d.claimedAttach
         /\ d.handled = None => /\ e.handled = Adopted(s) /\ e.handled \in Handled
                                /\ e.job = None /\ e.latest = None
         /\ d.handled # None => e.handled = d.handled /\ e.latest = s
<1>1. /\ d.handled \in Handled \cup {None} /\ d.job \in Jobs \cup {None}
      /\ d.limiter \in Limiters /\ d.latest \in ServerStates \cup {None}
      /\ d.lastAttach \in Nat /\ d.claimedAttach \in Nat
  BY MidShape DEF CallInv
<1>2. /\ d \in Deciders
      /\ d.handled = None => d.latest = None
      /\ d.job # None => d.latest # None /\ JobInv(d.job, d.handled, t)
      /\ LimiterFits(d.limiter, t) /\ d.claimedAttach <= d.lastAttach /\ d.lastAttach <= t
      /\ d.job # None => NothingPending(d.job)
  BY DEF CallInv, MidInv
<1>3. IsServerState(s) /\ s # None
  BY StateShape
<1>4. CASE d.handled = None
  <2> DEFINE h == Adopted(s)
  <2>1. h \in Handled
    <3>1. [owner |-> s.owner, activation |-> s.activation] \in Ownership
      BY <1>3 DEF IsServerState, Ownership
    <3>2. [k \in Keys |-> IF k \in DOMAIN s.assignments
                          THEN s.assignments[k].seq ELSE 0] \in SeqMap
      BY StateShape DEF SeqMap
    <3> QED BY <3>1, <3>2 DEF Adopted, Handled
  <2>2. e = [d EXCEPT !.handled = h]
    BY <1>4 DEF HandleState
  <2> HIDE DEF h
  <2>3. d.job = None /\ d.latest = None
    BY <1>2, <1>4
  <2>4. e = [handled |-> h, job |-> d.job, limiter |-> d.limiter, latest |-> d.latest,
             lastAttach |-> d.lastAttach, claimedAttach |-> d.claimedAttach]
    BY <1>2, <2>2 DEF Deciders
  <2>5. h # None
    BY <2>1, NoneAssumption
  <2>6. MidInv(e, t)
    BY <1>1, <1>2, <2>1, <2>3, <2>4, <2>5, MidIs
  <2> QED BY <1>4, <2>1, <2>3, <2>4, <2>6 DEF h
<1>5. CASE d.handled # None
  <2>1. e = [d EXCEPT !.latest = s]
    BY <1>5 DEF HandleState
  <2>2. e = [handled |-> d.handled, job |-> d.job, limiter |-> d.limiter, latest |-> s,
             lastAttach |-> d.lastAttach, claimedAttach |-> d.claimedAttach]
    BY <1>2, <2>1 DEF Deciders
  <2>3. d.job # None => PendingFits(d.job, s)
    BY <1>2 DEF PendingFits, NothingPending
  <2>4. MidInv(e, t)
    BY <1>1, <1>2, <1>3, <1>5, <2>2, <2>3, MidIs
  <2> QED BY <1>5, <2>2, <2>4
<1> QED BY <1>4, <1>5

\* An attach observed.
LEMMA AttachSeen ==
  ASSUME NEW t \in Nat, NEW d, CallInv(d, t), NEW e, e = HandleAttach(d, t)
  PROVE  /\ MidInv(e, t) /\ e.job = d.job /\ e.latest = d.latest /\ e.handled = d.handled
         /\ e.lastAttach = t /\ e.claimedAttach = d.claimedAttach
<1>1. /\ d.handled \in Handled \cup {None} /\ d.job \in Jobs \cup {None}
      /\ d.limiter \in Limiters /\ d.latest \in ServerStates \cup {None}
      /\ d.lastAttach \in Nat /\ d.claimedAttach \in Nat
  BY MidShape DEF CallInv
<1>2. /\ d \in Deciders
      /\ d.handled = None => d.latest = None
      /\ d.job # None => /\ d.latest # None /\ JobInv(d.job, d.handled, t)
                         /\ PendingFits(d.job, d.latest) /\ NothingPending(d.job)
      /\ LimiterFits(d.limiter, t) /\ d.claimedAttach <= d.lastAttach /\ d.lastAttach <= t
  BY DEF CallInv, MidInv
<1>3. e = [handled |-> d.handled, job |-> d.job, limiter |-> d.limiter, latest |-> d.latest,
           lastAttach |-> t, claimedAttach |-> d.claimedAttach]
  BY <1>2 DEF HandleAttach, Deciders
<1>4. d.claimedAttach <= t
  BY <1>1, <1>2
<1>5. MidInv(e, t)
  BY <1>1, <1>2, <1>3, <1>4, MidIs
<1> QED BY <1>3, <1>5

\* The results of an issue observed.
LEMMA ReportSeen ==
  ASSUME NEW t \in Nat, NEW d, CallInv(d, t), d.job # None, NEW results, NEW e, NEW j,
         e = [d EXCEPT !.job = j],
         \/ j = ReportRun(d.job, results)
         \/ /\ \A k \in DOMAIN results : results[k] \in Outcomes3
            /\ j = ReportGiveAway(t, d.job, results)
  PROVE  MidInv(e, t) /\ SameButJob(e, d, j) /\ j # None
<1>1. /\ MidInv(d, t) /\ d.latest # None /\ JobInv(d.job, d.handled, t) /\ NothingPending(d.job)
  BY DEF CallInv, MidInv
<1>2. JobInv(j, d.handled, t) /\ NothingPending(j)
  <2>1. CASE j = ReportRun(d.job, results)
    BY <1>1, <2>1, ReportRunInv
  <2>2. CASE /\ \A k \in DOMAIN results : results[k] \in Outcomes3
             /\ j = ReportGiveAway(t, d.job, results)
    BY <1>1, <2>2, ReportGiveAwayInv
  <2> QED BY <2>1, <2>2
<1>3. PendingFits(j, d.latest)
  BY <1>2 DEF PendingFits, NothingPending
<1> QED BY <1>1, <1>2, <1>3, MidJob

-----------------------------------------------------------------------------
(* The timer.                                                              *)

LEMMA LimitedIs ==
  ASSUME NEW l \in Limiters, NEW t \in Nat, NEW k \in Keys, NEW v, v = LimitedUntil(l, t, k)
  PROVE  /\ v \in Nat
         /\ v # 0 => /\ v > t
                     /\ \A u \in Nat : u < v => LimitedUntil(l, u, k) = v
<1> DEFINE until == Larger(CooldownEnds(l, k), PauseEnds(l))
<1>1. l.recent[k] \in Seq(Nat) /\ l.trippedAt \in Nat
  BY DEF Limiters
<1>2. CooldownEnds(l, k) \in Nat
  <2>1. CASE l.recent[k] = <<>>
    BY <2>1 DEF CooldownEnds
  <2>2. CASE l.recent[k] # <<>>
    <3>1. Len(l.recent[k]) \in 1..Len(l.recent[k])
      BY <1>1, <2>2
    <3>2. l.recent[k][Len(l.recent[k])] \in Nat
      BY <1>1, <3>1
    <3> QED BY <2>2, <3>2, LimitsAssumption DEF CooldownEnds
  <2> QED BY <2>1, <2>2
<1>3. PauseEnds(l) \in Nat
  BY <1>1, LimitsAssumption DEF PauseEnds
<1>4. until \in Nat
  BY <1>2, <1>3 DEF Larger
<1>5. \A u : LimitedUntil(l, u, k) = IF u < until THEN until ELSE 0
  BY DEF LimitedUntil
<1> HIDE DEF until
<1> QED BY <1>4, <1>5

LEMMA DeadlinesTyped ==
  ASSUME NEW j \in Jobs
  PROVE  Deadlines(j) \subseteq Nat
<1>1. ASSUME NEW k \in DOMAIN j.assignments
      PROVE  ArrivalDeadline(j.assignments[k]) \in Nat /\ RetryAt(j.assignments[k]) \in Nat
  <2>1. j.assignments[k] \in AssignmentTasks
    BY JobShape
  <2>2. j.assignments[k].sentAt \in Nat /\ j.assignments[k].lastIssued \in Nat
    BY <2>1 DEF AssignmentTasks
  <2> QED BY <2>2, TimingAssumption DEF ArrivalDeadline, RetryAt
<1>2. ASSUME NEW i \in DOMAIN j.commands PROVE RetryAt(j.commands[i]) \in Nat
  <2>1. j.commands[i] \in CommandTasks
    <3>1. j.commands \in Seq(CommandTasks)
      BY JobShape
    <3> QED BY <3>1
  <2>2. j.commands[i].lastIssued \in Nat
    BY <2>1 DEF CommandTasks
  <2> QED BY <2>2, TimingAssumption DEF RetryAt
<1> QED BY <1>1, <1>2 DEF Deadlines

LEMMA GiveAwayMade ==
  ASSUME NEW d, d.handled \in Handled, d.latest \in ServerStates, NEW t \in Nat,
         Recorded(d, t) # {}
  PROVE  GiveAwayJob(d, t) \in Jobs
<1>1. PICK j : j = GiveAwayJob(d, t)
  OBVIOUS
<1>2. JobInv(j, d.handled, t)
  BY <1>1, GiveAwayJobInv
<1> QED BY <1>1, <1>2 DEF JobInv

\* The timer is asked for the earliest of the deadlines to come.
LEMMA WakeIs ==
  ASSUME NEW t \in Nat, NEW d, MidInv(d, t), NEW w, w = WakeAt(d, t)
  PROVE  w \in Nat /\ \A u \in WakeCandidates(d, t) : w # 0 /\ w <= u /\ u \in Nat
<1> DEFINE c == WakeCandidates(d, t)
<1>1. /\ d.job \in Jobs \cup {None} /\ d.limiter \in Limiters
      /\ d.lastAttach \in Nat /\ d.latest \in ServerStates \cup {None}
  BY MidShape
<1>2. c \subseteq Nat
  <2>1. ClaimAt(d) \in Nat
    BY <1>1, TimingAssumption DEF ClaimAt
  <2>2. d.job # None => Deadlines(d.job) \subseteq Nat
    BY <1>1, DeadlinesTyped
  <2>3. d.latest # None => LimitLifts(d, t) \subseteq Nat
    <3>1. ASSUME NEW k \in WithVerdict(d, t, "rateLimited"), d.latest # None
          PROVE  LimitedUntil(d.limiter, t, k) \in Nat
      <4>1. k \in DOMAIN d.latest.assignments
        BY DEF WithVerdict, PendingKeys
      <4>2. k \in Keys
        BY <1>1, <3>1, <4>1, StateShape
      <4> QED BY <1>1, <4>2, LimitedIs
    <3> QED BY <3>1 DEF LimitLifts
  <2> QED BY <2>1, <2>2, <2>3 DEF WakeCandidates
<1>3. \A u \in c : u > t
  BY DEF WakeCandidates
<1>4. w = IF c = {} THEN 0 ELSE CHOOSE a \in c : \A u \in c : a <= u
  BY DEF WakeAt
<1> HIDE DEF c
<1>5. CASE c # {}
  <2>1. \E a \in c : \A u \in c : a <= u
    BY <1>2, <1>5, LeastNat
  <2>2. w \in c /\ \A u \in c : w <= u
    BY <1>4, <1>5, <2>1
  <2>3. w # 0
    BY <1>2, <1>3, <2>2
  <2> QED BY <1>2, <2>2, <2>3 DEF c
<1>6. CASE c = {}
  BY <1>4, <1>6 DEF c
<1> QED BY <1>5, <1>6

\* Until the timer is due, a decider with nothing to do has nothing to do.
LEMMA StaysStopped ==
  ASSUME NEW t \in Nat \ {0}, NEW d, CallInv(d, t), Stopped(d, t),
         NEW u \in Nat, t <= u, WakeAt(d, t) = 0 \/ u < WakeAt(d, t)
  PROVE  Stopped(d, u)
<1>1. /\ MidInv(d, t) /\ d.job \in Jobs \cup {None} /\ d.limiter \in Limiters
      /\ d.lastAttach \in Nat /\ d.latest \in ServerStates \cup {None}
      /\ d.latest # None => d.handled \in Handled
      /\ d.job # None => d.latest # None /\ d.job \in Jobs
  BY MidShape DEF CallInv, MidInv
<1>2. \A v \in WakeCandidates(d, t) : u < v
  <2>1. PICK w : w = WakeAt(d, t)
    OBVIOUS
  <2>2. w \in Nat /\ \A v \in WakeCandidates(d, t) : w # 0 /\ w <= v /\ v \in Nat
    BY <1>1, <2>1, WakeIs
  <2> QED BY <2>1, <2>2
<1>3. CASE d.job = None
  <2>1. ~ClaimDue(d, t) /\ NextJob(t, d) = None
    BY <1>3 DEF Stopped
  <2>2. ~ClaimDue(d, u)
    <3>1. PICK n \in Nat : n = ClaimAt(d)
      BY <1>1, TimingAssumption DEF ClaimAt
    <3>2. n # 0 /\ n > t => n \in WakeCandidates(d, t)
      BY <3>1 DEF WakeCandidates
    <3> QED BY <1>2, <2>1, <3>1, <3>2 DEF ClaimDue
  <2>3. CASE d.latest = None
    BY <1>3, <2>2, <2>3 DEF Stopped, NextJob
  <2>4. CASE d.latest # None
    <3>1. d.latest \in ServerStates /\ d.latest # None /\ d.handled \in Handled
      BY <1>1, <2>4
    <3>2. NoEdge(d)
      <4>1. \A j : FreshOwner(d, j) => j # None
        BY <3>1, FreshOwnerInv
      <4> QED BY <2>1, <2>4, <4>1 DEF NextJob, Reconcile, FreshOwner, NoEdge
    <3>3. GiveAwayJob(d, t) = None
      BY <2>1, <2>4, <3>2 DEF NextJob, Reconcile, NoEdge
    <3>4. Recorded(d, t) = {}
      <4>1. ASSUME Recorded(d, t) # {} PROVE GiveAwayJob(d, t) \in Jobs
        BY <3>1, <4>1, GiveAwayMade
      <4> QED BY <3>3, <4>1, NoneAssumption
    <3>5. ASSUME NEW k \in PendingKeys(d.handled, d.latest)
          PROVE  Verdict(u, d.latest, d.limiter, k) \notin {"giveNow", "alreadyArrived"}
      <4>1. k \in Keys
        BY <3>1, StateShape DEF PendingKeys
      <4>2. Verdict(t, d.latest, d.limiter, k) \notin {"giveNow", "alreadyArrived"}
        BY <3>4 DEF Recorded, WithVerdict
      <4>3. PICK v \in Nat : /\ v = LimitedUntil(d.limiter, t, k)
                             /\ v # 0 => v > t /\ (LimitedUntil(d.limiter, u, k) = v \/ u >= v)
        BY <1>1, <4>1, LimitedIs
      <4>4. d.latest.assignments[k].arrived \in BOOLEAN
        BY <3>1, StateShape DEF PendingKeys
      <4>5. CASE d.latest.assignments[k].assignee \notin d.latest.live
        BY <4>2, <4>4, <4>5 DEF Verdict
      <4>6. CASE d.latest.assignments[k].assignee \in d.latest.live
        <5>1. Verdict(t, d.latest, d.limiter, k) = "rateLimited" /\ v # 0
          BY <4>2, <4>3, <4>4, <4>6 DEF Verdict
        <5>2. v \in WakeCandidates(d, t)
          <6>1. k \in WithVerdict(d, t, "rateLimited")
            BY <5>1 DEF WithVerdict
          <6>2. v \in LimitLifts(d, t)
            BY <4>3, <6>1 DEF LimitLifts
          <6>3. v > t
            BY <4>3, <5>1
          <6> QED BY <1>3, <2>4, <6>2, <6>3 DEF WakeCandidates
        <5> QED BY <1>2, <4>2, <4>3, <4>4, <4>6, <5>1, <5>2 DEF Verdict
      <4> QED BY <4>5, <4>6
    <3>6. GiveAwayJob(d, u) = None
      BY <3>5 DEF GiveAwayJob, WithVerdict
    <3>7. NextJob(u, d) = None
      BY <2>4, <3>2, <3>6 DEF NextJob, Reconcile, NoEdge
    <3> QED BY <1>3, <2>2, <3>7 DEF Stopped
  <2> QED BY <2>3, <2>4
<1>4. CASE d.job # None
  <2> DEFINE j == d.job
  <2>1. /\ NothingPending(j) /\ Applied(j, d.latest) /\ WindowsOpen(j, t) /\ j \in Jobs
        /\ ~Busy(j) => ~Settled(j) /\ NothingDue(t, j)
    BY <1>1, <1>4 DEF Stopped
  <2>2. \A v \in Deadlines(j) : v > t => u < v
    BY <1>2, <1>4 DEF WakeCandidates
  <2> HIDE DEF j
  <2>3. WindowsOpen(j, u)
    <3>1. ASSUME NEW k \in DOMAIN j.assignments, j.assignments[k].status = "awaitingArrival"
          PROVE  u < ArrivalDeadline(j.assignments[k])
      <4>1. PICK v : v = ArrivalDeadline(j.assignments[k])
        OBVIOUS
      <4>2. v \in Deadlines(j)
        BY <3>1, <4>1 DEF Deadlines
      <4>3. t < v
        BY <2>1, <3>1, <4>1 DEF WindowsOpen
      <4>4. v \in Nat
        BY <2>1, <4>2, DeadlinesTyped
      <4> QED BY <2>2, <4>1, <4>2, <4>3, <4>4
    <3> QED BY <3>1 DEF WindowsOpen
  <2>4. ASSUME ~Busy(j) PROVE NothingDue(u, j)
    <3>1. NothingDue(t, j)
      BY <2>1, <2>4
    <3>2. ASSUME NEW k \in DOMAIN j.assignments PROVE ~Due(u, j.assignments[k])
      <4>1. ~Due(t, j.assignments[k])
        BY <3>1, NothingDueIs
      <4>2. CASE Retriable(j.assignments[k])
        <5>1. PICK v : v = RetryAt(j.assignments[k])
          OBVIOUS
        <5>2. v \in Deadlines(j)
          BY <2>4, <4>2, <5>1 DEF Deadlines
        <5>3. v \in Nat
          BY <2>1, <5>2, DeadlinesTyped
        <5> QED BY <2>2, <4>1, <4>2, <5>1, <5>2, <5>3 DEF Due
      <4> QED BY <4>1, <4>2 DEF Due
    <3>3. ASSUME NEW i \in DOMAIN j.commands PROVE ~Due(u, j.commands[i])
      <4>1. ~Due(t, j.commands[i])
        BY <3>1, NothingDueIs
      <4>2. CASE Retriable(j.commands[i])
        <5>1. PICK v : v = RetryAt(j.commands[i])
          OBVIOUS
        <5>2. v \in Deadlines(j)
          BY <2>4, <4>2, <5>1 DEF Deadlines
        <5>3. v \in Nat
          BY <2>1, <5>2, DeadlinesTyped
        <5> QED BY <2>2, <4>1, <4>2, <5>1, <5>2, <5>3 DEF Due
      <4> QED BY <4>1, <4>2 DEF Due
    <3> QED BY <3>2, <3>3, NothingDueIs
  <2> QED BY <1>4, <2>1, <2>3, <2>4 DEF Stopped, j
<1> QED BY <1>3, <1>4

\* A call with nothing observed leaves such a decider as it is.
LEMMA StoppedIdle ==
  ASSUME NEW t \in Nat \ {0}, NEW d, CallInv(d, t), Stopped(d, t), NEW x, x = AdvanceTime(t, d, <<>>)
  PROVE  x.m = d /\ x.ds = <<>> /\ ~x.more
<1> DEFINE x0 == [m |-> d, ds |-> <<>>, more |-> TRUE]
           y == Round(t, x0)
<1>1. x0 \in Loops /\ x0.m = d /\ x0.ds = <<>> /\ x0.more /\ MidInv(d, t)
  BY DEF Loops, MidInv, CallInv
<1> HIDE DEF x0
<1>2. \/ RoundBusy(t, x0, y) \/ RoundWaits(t, x0, y) \/ RoundEnds(t, x0, y)
      \/ RoundClaims(t, x0, y) \/ RoundStarts(t, x0, y) \/ RoundStops(t, x0, y)
  BY <1>1, RoundMid
<1>3. y.m = d /\ y.ds = <<>> /\ ~y.more
  <2> HIDE DEF y
  <2>1. CASE d.job = None
    BY <1>1, <1>2, <2>1
       DEF Stopped, RoundBusy, RoundWaits, RoundEnds, RoundClaims, RoundStarts, RoundStops
  <2>2. CASE d.job # None
    <3> DEFINE j == Advanced(t, d)
    <3>1. d.latest # None /\ d.job \in Jobs /\ d \in Deciders
      BY <1>1, <2>2, MidShape DEF MidInv
    <3>2. /\ Applied(d.job, d.latest) /\ WindowsOpen(d.job, t)
          /\ ~Busy(d.job) => ~Settled(d.job) /\ NothingDue(t, d.job)
      BY <2>2 DEF Stopped
    <3>3. \A k \in DOMAIN d.job.assignments : d.job.assignments[k].status = "awaitingArrival" =>
            ~(t >= ArrivalDeadline(d.job.assignments[k]))
      <4>1. ASSUME NEW k \in DOMAIN d.job.assignments,
                   d.job.assignments[k].status = "awaitingArrival"
            PROVE  ~(t >= ArrivalDeadline(d.job.assignments[k]))
        <5>1. d.job.assignments[k] \in AssignmentTasks
          BY <3>1, JobShape
        <5>2. ArrivalDeadline(d.job.assignments[k]) \in Nat
          BY <5>1, TimingAssumption DEF ArrivalDeadline, AssignmentTasks
        <5> QED BY <3>2, <4>1, <5>2 DEF WindowsOpen
      <4> QED BY <4>1
    <3>4. j = d.job
      BY <3>1, <3>2, <3>3, AppliedSame DEF Advanced
    <3> HIDE DEF j
    <3>5. [d EXCEPT !.job = d.job] = d
      BY <3>1 DEF Deciders
    <3>6. CASE RoundBusy(t, x0, y)
      BY <1>1, <3>4, <3>5, <3>6 DEF RoundBusy, j
    <3>7. CASE RoundWaits(t, x0, y)
      <4>1. /\ ~Busy(j) /\ y.m = [d EXCEPT !.job = Issue(t, j)] /\ ~y.more
            /\ NothingDue(t, j) => y.ds = <<>>
        BY <1>1, <3>7 DEF RoundWaits, j
      <4>2. NothingDue(t, j) /\ JobInv(j, d.handled, t)
        BY <1>1, <2>2, <3>2, <3>4, <4>1 DEF MidInv
      <4>3. Issue(t, j) = j
        <5>1. PICK w, h : w = Issue(t, j) /\ JobInv(j, h, t)
          BY <4>2
        <5>2. t \in Nat
          OBVIOUS
        <5>3. NothingDue(t, j) => w = j
          BY ONLY <5>1, <5>2, IssueInv
        <5> QED BY <4>2, <5>1, <5>3
      <4> QED BY <3>4, <3>5, <4>1, <4>2, <4>3
    <3>8. ~RoundEnds(t, x0, y)
      BY <1>1, <3>2, <3>4 DEF RoundEnds, j
    <3> QED BY <1>1, <1>2, <2>2, <3>6, <3>7, <3>8 DEF RoundClaims, RoundStarts, RoundStops
  <2> QED BY <2>1, <2>2
<1>4. [m |-> d, ds |-> <<>>, more |-> TRUE] \in {x0, y}
  BY DEF x0
<1>5. \A z \in {x0, y} : Round(t, z) \in {x0, y}
  <2> HIDE DEF y
  <2>1. Round(t, x0) = y
    BY DEF y
  <2>2. Round(t, y) = y
    BY <1>3, RoundOver
  <2> QED BY <2>1, <2>2
<1>6. x \in {x0, y} /\ ~x.more
  <2>1. AdvanceTime(t, d, <<>>) \in {x0, y}
    BY <1>4, <1>5, LoopKeeps
  <2>2. <<>> \in Seq(Decisions)
    OBVIOUS
  <2>3. ~x.more
    BY <1>1, <2>2, CallEnds
  <2> QED BY <2>1, <2>3
<1> QED BY <1>1, <1>3, <1>6

-----------------------------------------------------------------------------
(* The specification.                                                      *)

\* Between two calls: the decider is what a call at some earlier time left,
\* with nothing to do at that time and the timer armed for what comes next.
DeciderInv ==
  /\ now \in 1..MaxNow /\ disk \in Handled \cup {None}
  /\ observed \in Contract!Observations \cup {"none"}
  /\ \E t \in 1..now : CallInv(m, t) /\ Stopped(m, t) /\ wake = WakeAt(m, t)

LEMMA InvNow ==
  ASSUME DeciderInv
  PROVE  /\ CallInv(m, now) /\ MidInv(m, now) /\ now \in Nat \ {0} /\ wake \in Nat
         /\ disk \in Handled \cup {None}
<1>1. PICK t \in 1..now : CallInv(m, t) /\ wake = WakeAt(m, t)
  BY DEF DeciderInv
<1>2. now \in Nat \ {0} /\ t \in Nat /\ t <= now /\ disk \in Handled \cup {None}
  BY <1>1 DEF DeciderInv
<1>3. CallInv(m, now)
  BY <1>1, <1>2, LaterInv
<1>4. wake \in Nat
  BY <1>1, <1>2, WakeIs DEF CallInv
<1> QED BY <1>2, <1>3, <1>4 DEF CallInv

\* What a save writes.
LEMMA SavedTyped ==
  ASSUME NEW d \in Seq(Decisions), NEW i \in Saves(d)
  PROVE  /\ d[i] \in Decisions /\ d[i].type = "save" /\ d[i].handled \in Handled
         /\ d[i].job \in Jobs \cup {None} /\ d[i].notify \in SUBSET Keys
<1>1. d[i] \in Decisions /\ d[i].type = "save"
  BY DEF Saves
<1> QED BY <1>1 DEF Decisions

\* A call, whatever it observed.
LEMMA DecideInv ==
  ASSUME DeciderInv, NEW o \in Contract!Observations, NEW b, MidInv(b, now),
         NEW d \in Seq(Decisions), Decide(o, b, d)
  PROVE  DeciderInv'
<1>1. PICK x : x = AdvanceTime(now, b, d)
  OBVIOUS
<1>2. /\ m' = x.m /\ ds' = x.ds /\ wake' = WakeAt(x.m, now) /\ disk' \in DiskAfter(x.ds)
      /\ now' = now /\ observed' \in Contract!Observations
  BY <1>1 DEF Decide
<1>3. now \in Nat \ {0} /\ now \in 1..MaxNow /\ disk \in Handled \cup {None}
  BY InvNow DEF DeciderInv
<1>4. CallInv(x.m, now) /\ Stopped(x.m, now) /\ x.ds \in Seq(Decisions)
  BY <1>1, <1>3, CallMid
<1>5. disk' \in Handled \cup {None}
  <2>1. ASSUME NEW i \in Saves(x.ds) PROVE x.ds[i].handled \in Handled
    BY <1>4, SavedTyped
  <2> QED BY <1>2, <1>3, <2>1 DEF DiskAfter
<1>6. \E t \in 1..now' : CallInv(m', t) /\ Stopped(m', t) /\ wake' = WakeAt(m', t)
  BY <1>2, <1>3, <1>4
<1> QED BY <1>2, <1>3, <1>5, <1>6 DEF DeciderInv

\* The calls the agent makes: the kind of the observation, the decider it
\* leaves, and the decisions it makes itself.
Observed(o, b, d) ==
  \/ /\ o = "state"
     /\ \E s \in ServerStates :
          /\ b = HandleState(m, s)
          /\ d = IF m.handled = None THEN <<SaveDecision(Adopted(s), None, {})>> ELSE <<>>
  \/ o = "other" /\ b = HandleAttach(m, now) /\ d = <<>>
  \/ /\ o = "report" /\ IssuedCommands # {} /\ d = <<>>
     /\ \E results \in CommandResults : b = HandleRan(m, results)
  \/ /\ o = "report" /\ IssuedKeys # {} /\ d = <<>>
     /\ \E results \in GiveAwayResults : b = HandleGaveAway(m, now, results)
  \/ o = "other" /\ b = m /\ d = <<>>

CallStep == \E o, b, d : Observed(o, b, d) /\ Decide(o, b, d)

LEMMA StepCases ==
  ASSUME Next
  PROVE  CallStep \/ Tick \/ Restart
<1>1. CASE \E s \in ServerStates : ObserveState(s)
  BY <1>1 DEF ObserveState, CallStep, Observed
<1>2. CASE ObserveAttach
  BY <1>2 DEF ObserveAttach, CallStep, Observed
<1>3. CASE \E results \in CommandResults : ObserveRan(results)
  BY <1>3 DEF ObserveRan, CallStep, Observed
<1>4. CASE TimerFires \/ GenerationStarts
  BY <1>4 DEF TimerFires, GenerationStarts, CallStep, Observed
<1>5. CASE \E results \in GiveAwayResults : ObserveGaveAway(results)
  BY <1>5 DEF ObserveGaveAway, CallStep, Observed
<1> QED BY <1>1, <1>2, <1>3, <1>4, <1>5 DEF Next, OtherStep

\* Each observation leaves a decider that keeps the invariant.
LEMMA ObservedInv ==
  ASSUME DeciderInv, NEW o, NEW b, NEW d, Observed(o, b, d)
  PROVE  /\ o \in Contract!Observations
         /\ MidInv(b, now) /\ d \in Seq(Decisions)
         /\ b.job = None <=> m.job = None
         /\ b.claimedAttach = m.claimedAttach
         /\ b.handled = m.handled \/ (m.handled = None /\ b.job = None /\ b.latest = None)
         /\ m.handled # None => d = <<>>
         /\ \A i \in DOMAIN d : d[i].type = "save" /\ d[i].job = None /\ d[i].notify = {}
<1>1. CallInv(m, now) /\ MidInv(m, now) /\ now \in Nat \ {0} /\ now \in Nat
  BY InvNow
<1>2. <<>> \in Seq(Decisions)
  OBVIOUS
<1> DEFINE Good == /\ MidInv(b, now) /\ d \in Seq(Decisions)
                   /\ b.job = None <=> m.job = None
                   /\ b.claimedAttach = m.claimedAttach
                   /\ b.handled = m.handled \/ (m.handled = None /\ b.job = None /\ b.latest = None)
                   /\ m.handled # None => d = <<>>
                   /\ \A i \in DOMAIN d :
                        d[i].type = "save" /\ d[i].job = None /\ d[i].notify = {}
<1>3. ASSUME NEW s \in ServerStates, b = HandleState(m, s),
             d = IF m.handled = None THEN <<SaveDecision(Adopted(s), None, {})>> ELSE <<>>
      PROVE  Good
  <2>1. /\ MidInv(b, now) /\ b.job = m.job /\ b.claimedAttach = m.claimedAttach
        /\ m.handled = None => /\ b.handled = Adopted(s) /\ b.handled \in Handled
                               /\ b.job = None /\ b.latest = None
        /\ m.handled # None => b.handled = m.handled
    BY <1>1, <1>3, StateSeen
  <2>2. ASSUME m.handled = None PROVE d \in Seq(Decisions)
    <3>1. SaveDecision(Adopted(s), None, {}) \in Decisions
      BY <2>1, <2>2 DEF SaveDecision, Decisions
    <3> QED BY <1>3, <2>2, <3>1
  <2>3. \A i \in DOMAIN d : d[i].type = "save" /\ d[i].job = None /\ d[i].notify = {}
    <3>1. CASE m.handled = None
      <4>1. PICK q : q = SaveDecision(Adopted(s), None, {})
        OBVIOUS
      <4>2. q.type = "save" /\ q.job = None /\ q.notify = {}
        BY <4>1 DEF SaveDecision
      <4>3. d = <<q>>
        BY <1>3, <3>1, <4>1
      <4> QED BY <4>2, <4>3
    <3>2. CASE m.handled # None
      BY <1>3, <3>2
    <3> QED BY <3>1, <3>2
  <2> QED BY <1>2, <1>3, <2>1, <2>2, <2>3
<1>4. ASSUME b = HandleAttach(m, now), d = <<>> PROVE Good
  BY <1>1, <1>2, <1>4, AttachSeen
<1>5. ASSUME d = <<>>, m.job # None, NEW j, b = [m EXCEPT !.job = j], NEW results,
             \/ j = ReportRun(m.job, results)
             \/ /\ \A k \in DOMAIN results : results[k] \in Outcomes3
                /\ j = ReportGiveAway(now, m.job, results)
      PROVE  Good
  <2>1. MidInv(b, now) /\ SameButJob(b, m, j) /\ j # None
    BY <1>1, <1>5, ReportSeen
  <2> QED BY <1>2, <1>5, <2>1 DEF SameButJob
<1>6. ASSUME IssuedCommands # {}, d = <<>>, NEW results \in CommandResults,
             b = HandleRan(m, results)
      PROVE  Good
  <2>1. m.job # None
    BY <1>6 DEF IssuedCommands
  <2>2. b = [m EXCEPT !.job = ReportRun(m.job, results)]
    BY <1>6, <2>1 DEF HandleRan
  <2> QED BY <1>5, <1>6, <2>1, <2>2
<1>7. ASSUME IssuedKeys # {}, d = <<>>, NEW results \in GiveAwayResults,
             b = HandleGaveAway(m, now, results)
      PROVE  Good
  <2>1. m.job # None
    BY <1>7 DEF IssuedKeys
  <2>2. b = [m EXCEPT !.job = ReportGiveAway(now, m.job, results)]
    BY <1>7, <2>1 DEF HandleGaveAway
  <2>3. \A k \in DOMAIN results : results[k] \in Outcomes3
    BY <1>7 DEF GiveAwayResults, Outcomes3
  <2> QED BY <1>5, <1>7, <2>1, <2>2, <2>3
<1>8. ASSUME b = m, d = <<>> PROVE Good
  BY <1>1, <1>2, <1>8
<1>9. Good
  BY <1>3, <1>4, <1>6, <1>7, <1>8 DEF Observed
<1>10. o \in Contract!Observations
  BY DEF Observed, Contract!Observations
<1> QED BY <1>9, <1>10

LEMMA InitInv ==
  ASSUME Init
  PROVE  DeciderInv
<1>1. m = NewDecider(None) /\ now = 1 /\ wake = 0 /\ disk = None /\ observed = "none"
  BY DEF Init
<1>2. CallInv(m, 1) /\ m.job = None /\ m.latest = None /\ Stopped(m, 1)
  BY <1>1, NewInv
<1>3. WakeAt(m, 1) = 0
  BY <1>1 DEF NewDecider, WakeAt, WakeCandidates, ClaimAt
<1> QED BY <1>1, <1>2, <1>3, BoundsAssumption DEF DeciderInv

LEMMA StepInv ==
  ASSUME DeciderInv, [Next]_vars
  PROVE  DeciderInv'
<1>1. ASSUME NEW o, NEW b, NEW d, Observed(o, b, d), Decide(o, b, d) PROVE DeciderInv'
  BY <1>1, ObservedInv, DecideInv
<1>2. CASE Tick
  <2>1. /\ now' = now + 1 /\ now < MaxNow /\ m' = m /\ wake' = wake /\ disk' = disk
        /\ now \in 1..MaxNow
    BY <1>2 DEF Tick, DeciderInv
  <2>2. PICK t \in 1..now : CallInv(m, t) /\ Stopped(m, t) /\ wake = WakeAt(m, t)
    BY DEF DeciderInv
  <2>3. t \in 1..now' /\ now' \in 1..MaxNow
    BY <2>1, <2>2, BoundsAssumption
  <2>4. CallInv(m', t) /\ Stopped(m', t) /\ wake' = WakeAt(m', t)
    BY <2>1, <2>2
  <2>5. disk' \in Handled \cup {None} /\ observed' \in Contract!Observations \cup {"none"}
    BY <1>2, <2>1 DEF DeciderInv, Tick
  <2> QED BY <2>3, <2>4, <2>5 DEF DeciderInv
<1>3. CASE Restart
  <2>1. /\ m' = NewDecider(disk) /\ wake' = 0 /\ now' = now /\ disk' = disk
        /\ observed' = "none"
    BY <1>3 DEF Restart
  <2>2. disk \in Handled \cup {None} /\ now \in 1..MaxNow /\ now \in 1..now
    BY InvNow DEF DeciderInv
  <2>3. CallInv(m', now) /\ Stopped(m', now)
    BY <2>1, <2>2, NewInv
  <2>4. WakeAt(m', now) = 0
    BY <2>1 DEF NewDecider, WakeAt, WakeCandidates, ClaimAt
  <2> QED BY <2>1, <2>2, <2>3, <2>4 DEF DeciderInv
<1>4. CASE UNCHANGED vars
  BY <1>4 DEF vars, DeciderInv
<1> QED BY <1>1, <1>2, <1>3, <1>4, StepCases DEF CallStep

LEMMA InvTypes ==
  ASSUME DeciderInv
  PROVE  TypeOK
<1>1. /\ MidInv(m, now) /\ now \in Nat \ {0} /\ now \in 1..MaxNow /\ wake \in Nat
      /\ disk \in Handled \cup {None} /\ observed \in {"none", "report", "state", "other"}
  BY InvNow DEF DeciderInv, Contract!Observations
<1>2. /\ m.handled \in Handled \cup {None} /\ m.latest \in ServerStates \cup {None}
      /\ m.limiter \in Limiters /\ m.lastAttach \in Nat /\ m.claimedAttach \in Nat
  BY <1>1, MidShape
<1>3. ASSUME m.job # None PROVE JobOK(m.job)
  <2> DEFINE j == m.job
  <2>1. j \in Jobs /\ JobInv(j, m.handled, now)
    BY <1>1, <1>3, MidShape DEF MidInv
  <2> HIDE DEF j
  <2>2. /\ j.commands \in Seq(CommandTasks) /\ DOMAIN j.assignments \in SUBSET Keys
        /\ j.assignments \in [DOMAIN j.assignments -> AssignmentTasks]
        /\ j.ownership \in Ownership \cup {None} /\ j.seqs \in SeqMap
    BY <2>1, JobShape
  <2>3. ASSUME NEW i \in DOMAIN j.commands PROVE CommandTaskOK(j.commands[i])
    <3> DEFINE c == j.commands[i]
    <3>1. c \in CommandTasks /\ TaskBounds(c, now)
      BY <2>1, <2>2 DEF JobInv
    <3> HIDE DEF c
    <3>2. /\ c.status \in Statuses \ {"awaitingArrival"} /\ c.attempts \in Nat
          /\ c.lastIssued \in Nat /\ c.dropReason \in DropReasons \cup {"none"}
          /\ c.cmd.run \in Takes \cup {"exec"} /\ c.cmd.activation \in Nat
      BY <3>1 DEF CommandTasks, Commands
    <3>3. HeaderOK(c)
      BY <1>1, <3>1, <3>2, TimingAssumption DEF HeaderOK, TaskBounds, MaxAttempts
    <3> QED BY <3>2, <3>3 DEF CommandTaskOK, c
  <2>4. ASSUME NEW k \in DOMAIN j.assignments PROVE AssignmentTaskOK(k, j.assignments[k])
    <3> DEFINE u == j.assignments[k]
    <3>1. u \in AssignmentTasks /\ AssignmentInv(k, u, j.seqs[k], m.handled, now)
      BY <2>1, <2>2 DEF JobInv
    <3> HIDE DEF u
    <3>2. /\ u.status \in Statuses /\ u.attempts \in Nat
          /\ u.lastIssued \in Nat /\ u.dropReason \in DropReasons \cup {"none"}
          /\ u.assignment \in Assignment /\ u.triedToMove \in BOOLEAN /\ u.sentAt \in Nat
      BY <3>1 DEF AssignmentTasks
    <3>3. TaskBounds(u, now) /\ u.sentAt <= now /\ (u.status = "awaitingArrival" => k \in Devices)
      BY <3>1 DEF AssignmentInv
    <3>4. HeaderOK(u)
      BY <1>1, <3>2, <3>3, TimingAssumption DEF HeaderOK, TaskBounds, MaxAttempts
    <3> QED BY <1>1, <3>2, <3>3, <3>4 DEF AssignmentTaskOK, u
  <2>5. j.ownership = None <=> j.seqs # NoSeqs \/ DOMAIN j.assignments # {}
    BY <2>1 DEF JobInv
  <2> QED BY <2>2, <2>3, <2>4, <2>5 DEF JobOK, j
<1>4. LimiterOK(m.limiter)
  BY <1>1, <1>2 DEF MidInv, LimiterFits, LimiterOK, Limiters
<1>5. m.claimedAttach \in 0..m.lastAttach /\ m.lastAttach \in 0..now
  BY <1>1, <1>2 DEF MidInv
<1> QED BY <1>1, <1>2, <1>3, <1>4, <1>5 DEF TypeOK

\* Every variable keeps the values of its type, at every time and whatever the
\* server and the worker answer: no number of calls takes a job, its tasks'
\* attempts and times, or the limiter's memory out of range.
THEOREM TypeCorrect == Spec => []TypeOK
<1>1. Init => DeciderInv
  BY InitInv
<1>2. DeciderInv /\ [Next]_vars => DeciderInv'
  BY StepInv
<1>3. DeciderInv => TypeOK
  BY InvTypes
<1> QED BY <1>1, <1>2, <1>3, PTL DEF Spec

LEMMA InvQuiet ==
  ASSUME DeciderInv
  PROVE  NoLostWakeup
<1>1. SUFFICES ASSUME wake = 0 \/ now < wake, NEW x, x = AdvanceTime(now, m, <<>>)
               PROVE  x.m = m /\ x.ds = <<>> /\ ~x.more
  BY DEF NoLostWakeup
<1>2. PICK t \in 1..now : CallInv(m, t) /\ Stopped(m, t) /\ wake = WakeAt(m, t)
  BY DEF DeciderInv
<1>3. CallInv(m, now) /\ now \in Nat \ {0} /\ now \in Nat /\ t \in Nat \ {0} /\ t <= now
  BY InvNow, <1>2
<1>4. Stopped(m, now)
  BY <1>1, <1>2, <1>3, StaysStopped
<1> QED BY <1>1, <1>3, <1>4, StoppedIdle

\* advanceTime and wakeAt together lose no deadline: until the timer asked for
\* is due, one more call would decide nothing and change nothing, and the
\* rounds a call may take are always enough.
THEOREM WakeupCorrect == Spec => []NoLostWakeup
<1>1. Init => DeciderInv
  BY InitInv
<1>2. DeciderInv /\ [Next]_vars => DeciderInv'
  BY StepInv
<1>3. DeciderInv => NoLostWakeup
  BY InvQuiet
<1> QED BY <1>1, <1>2, <1>3, PTL DEF Spec

-----------------------------------------------------------------------------
(* The decisions of a call.                                                *)

\* The issue q, made for what was due of the job of the decider e.
IssueFits(t, e, q) ==
  \E j : /\ q = IssueDecision(t, j) /\ JobInv(j, e.handled, t) /\ Applied(j, e.latest)
         /\ e.job = Issue(t, j) /\ e.job # None
\* The save q, of a job that is over with the state s applied, or of the adoption.
SaveFits(t, s, q) ==
  IF q.job = None THEN q.notify = {}
  ELSE /\ \E h : JobInv(q.job, h, t)
       /\ Settled(q.job) /\ Applied(q.job, s) /\ q.notify = NotifyFor(q.job)

\* The loop states of a call that began at b.
Decided(t, b) ==
  {x \in Loops : /\ MidInv(x.m, t) /\ x.m.latest = b.latest
                 /\ \A i \in Saves(x.ds) : SaveFits(t, b.latest, x.ds[i])
                 /\ \A i \in Issues(x.ds) : ~x.more /\ IssueFits(t, x.m, x.ds[i])}

LEMMA DecisionKinds ==
  /\ \A h, j, n : /\ SaveDecision(h, j, n).type = "save"
                  /\ SaveDecision(h, j, n).job = j /\ SaveDecision(h, j, n).notify = n
                  /\ SaveDecision(h, j, n).handled = h
  /\ \A t, j : IssueDecision(t, j).type = "issue"
  /\ ClaimDecision.type = "claim"
BY DEF SaveDecision, IssueDecision, ClaimDecision

LEMMA DecidedOn ==
  ASSUME NEW t \in Nat \ {0}, NEW b, NEW x \in Decided(t, b), NEW y, y = Round(t, x)
  PROVE  y \in Decided(t, b)
<1>1. /\ x \in Loops /\ MidInv(x.m, t) /\ x.m.latest = b.latest
      /\ \A i \in Saves(x.ds) : SaveFits(t, b.latest, x.ds[i])
      /\ \A i \in Issues(x.ds) : ~x.more /\ IssueFits(t, x.m, x.ds[i])
  BY DEF Decided
<1>2. CASE ~x.more
  BY <1>2, RoundOver
<1>3. CASE x.more
  <2>1. /\ y \in Loops /\ MidInv(y.m, t) /\ y.m.latest = x.m.latest
        /\ \/ RoundBusy(t, x, y) \/ RoundWaits(t, x, y) \/ RoundEnds(t, x, y)
           \/ RoundClaims(t, x, y) \/ RoundStarts(t, x, y) \/ RoundStops(t, x, y)
    BY <1>1, <1>3, RoundMid
  <2> DEFINE New(q) ==
               /\ q.type = "save" => SaveFits(t, b.latest, q)
               /\ q.type = "issue" => ~y.more /\ IssueFits(t, y.m, q)
  <2>2. y.ds = x.ds \/ \E q : y.ds = Append(x.ds, q) /\ New(q)
    <3>1. CASE RoundBusy(t, x, y) \/ RoundStarts(t, x, y) \/ RoundStops(t, x, y)
      BY <3>1 DEF RoundBusy, RoundStarts, RoundStops
    <3>2. CASE RoundClaims(t, x, y)
      <4>1. y.ds = Append(x.ds, ClaimDecision)
        BY <3>2 DEF RoundClaims
      <4> QED BY <4>1, DecisionKinds
    <3>3. CASE RoundWaits(t, x, y)
      <4> DEFINE j == Advanced(t, x.m)
      <4>1. /\ x.m.job # None /\ ~Busy(j) /\ ~Settled(j)
            /\ y.m = [x.m EXCEPT !.job = Issue(t, j)] /\ ~y.more
            /\ y.ds = x.ds \/ y.ds = Append(x.ds, IssueDecision(t, j))
        BY <3>3 DEF RoundWaits
      <4>2. SameButJob(y.m, x.m, Issue(t, j)) /\ Issue(t, j) # None
        BY <1>1, <4>1, MidWaits
      <4>3. JobInv(j, x.m.handled, t) /\ Applied(j, x.m.latest)
        BY <1>1, <4>1, AdvancedInv
      <4> HIDE DEF j
      <4>4. IssueFits(t, y.m, IssueDecision(t, j))
        BY <4>2, <4>3 DEF IssueFits, SameButJob
      <4> QED BY <4>1, <4>4, DecisionKinds
    <3>4. CASE RoundEnds(t, x, y)
      <4> DEFINE j == Advanced(t, x.m)
                 q == SaveDecision(AddRecord(x.m.handled, j), j, NotifyFor(j))
      <4>1. x.m.job # None /\ Settled(j) /\ y.ds = Append(x.ds, q)
        BY <3>4 DEF RoundEnds
      <4>2. JobInv(j, x.m.handled, t) /\ Applied(j, x.m.latest) /\ j # None
        BY <1>1, <4>1, AdvancedInv
      <4> HIDE DEF j
      <4>3. q.type = "save" /\ q.job = j /\ q.notify = NotifyFor(j)
        BY DecisionKinds
      <4> HIDE DEF q
      <4>4. SaveFits(t, b.latest, q)
        BY <1>1, <4>1, <4>2, <4>3 DEF SaveFits
      <4> QED BY <4>1, <4>3, <4>4
    <3> QED BY <2>1, <3>1, <3>2, <3>3, <3>4
  <2>3. x.ds \in Seq(Decisions) /\ y.ds \in Seq(Decisions) /\ Issues(x.ds) = {}
    BY <1>1, <1>3, <2>1 DEF Loops
  <2>4. ASSUME NEW i \in DOMAIN y.ds
        PROVE  /\ y.ds[i].type = "save" => SaveFits(t, b.latest, y.ds[i])
               /\ y.ds[i].type = "issue" => ~y.more /\ IssueFits(t, y.m, y.ds[i])
    <3>1. CASE i \in DOMAIN x.ds /\ y.ds[i] = x.ds[i]
      BY <1>1, <2>3, <3>1 DEF Saves, Issues
    <3>2. CASE \E q : y.ds = Append(x.ds, q) /\ New(q) /\ y.ds[i] = q
      BY <3>2
    <3> HIDE DEF New
    <3>3. CASE y.ds = x.ds
      BY <3>1, <3>3
    <3>4. ASSUME NEW q, y.ds = Append(x.ds, q), New(q)
          PROVE  (i \in DOMAIN x.ds /\ y.ds[i] = x.ds[i]) \/ y.ds[i] = q
      <4>1. Len(x.ds) \in Nat /\ DOMAIN x.ds = 1..Len(x.ds)
        BY <2>3
      <4>2. DOMAIN y.ds = 1..Len(x.ds) + 1 /\ y.ds[Len(x.ds) + 1] = q
            /\ \A n \in 1..Len(x.ds) : y.ds[n] = x.ds[n]
        BY <2>3, <3>4
      <4> QED BY <4>1, <4>2
    <3> QED BY <2>2, <3>1, <3>2, <3>3, <3>4
  <2> HIDE DEF New
  <2> QED BY <1>1, <2>1, <2>4 DEF Decided, Saves, Issues
<1> QED BY <1>2, <1>3

\* Decisions made before advanceTime that only save, and save what may be saved.
OnlySaves(t, b, d) ==
  \A i \in DOMAIN d : d[i].type = "save" /\ SaveFits(t, b.latest, d[i])

\* The decisions z.ds of a call whose handler left the decider at b.
CallDecided(t, b, z) ==
  /\ z.m.latest = b.latest
  /\ \A i \in Saves(z.ds) : SaveFits(t, b.latest, z.ds[i])
  /\ \A i \in Issues(z.ds) : IssueFits(t, z.m, z.ds[i])

\* What a call decides, and the decider it leaves.
LEMMA CallDecides ==
  ASSUME NEW t \in Nat \ {0}, NEW b, MidInv(b, t), NEW d \in Seq(Decisions),
         OnlySaves(t, b, d),
         NEW z, z = AdvanceTime(t, b, d)
  PROVE  CallDecided(t, b, z)
<1> DEFINE x0 == [m |-> b, ds |-> d, more |-> TRUE]
<1>1. x0 \in Decided(t, b)
  <2>1. x0 \in Loops /\ x0.m = b /\ x0.ds = d
    BY DEF Loops, MidInv
  <2> HIDE DEF x0
  <2> QED BY <2>1 DEF Decided, OnlySaves, Saves, Issues
<1>2. \A x \in Decided(t, b) : Round(t, x) \in Decided(t, b)
  BY DecidedOn
<1>3. z \in Decided(t, b)
  BY <1>1, <1>2, LoopKeeps
<1> QED BY <1>3 DEF Decided, CallDecided

LEMMA StepDecides ==
  ASSUME DeciderInv, Next
  PROVE  /\ now \in Nat \ {0}
         /\ \A i \in Saves(ds') : SaveFits(now, m'.latest, ds'[i])
         /\ \A i \in Issues(ds') : IssueFits(now, m', ds'[i])
<1>1. now \in Nat \ {0}
  BY InvNow
<1>2. ASSUME NEW o, NEW b, NEW d, Observed(o, b, d), Decide(o, b, d)
      PROVE  /\ \A i \in Saves(ds') : SaveFits(now, m'.latest, ds'[i])
             /\ \A i \in Issues(ds') : IssueFits(now, m', ds'[i])
  <2>1. /\ MidInv(b, now) /\ d \in Seq(Decisions)
        /\ \A i \in DOMAIN d : d[i].type = "save" /\ d[i].job = None /\ d[i].notify = {}
    BY <1>2, ObservedInv
  <2>2. PICK z : z = AdvanceTime(now, b, d)
    OBVIOUS
  <2>3. m' = z.m /\ ds' = z.ds
    BY <1>2, <2>2 DEF Decide
  <2>4. OnlySaves(now, b, d)
    BY <2>1 DEF OnlySaves, SaveFits
  <2>5. CallDecided(now, b, z)
    <3>1. MidInv(b, now) /\ d \in Seq(Decisions)
      BY <2>1
    <3> QED BY ONLY <1>1, <3>1, <2>2, <2>4, CallDecides, Zenon
  <2> QED BY <2>3, <2>5 DEF CallDecided
<1>3. CASE Tick \/ Restart
  <2>1. ds' = <<>>
    BY <1>3 DEF Tick, Restart
  <2> QED BY <1>1, <2>1 DEF Saves, Issues
<1> QED BY <1>1, <1>2, <1>3, StepCases DEF CallStep

LEMMA GiveAwayStep ==
  ASSUME DeciderInv, Next, NEW i \in Issues(ds'), NEW k \in DOMAIN ds'[i].giveAway
  PROVE  LET a == ds'[i].giveAway[k]
             s == m'.latest
         IN /\ k \in DOMAIN s.assignments
            /\ s.assignments[k].seq = a.seq /\ ~s.assignments[k].arrived
            /\ a.assignee # Me /\ a.assignee \in s.live
            /\ ~Has(m'.handled, k, a.seq)
<1>1. PICK j : /\ ds'[i] = IssueDecision(now, j) /\ JobInv(j, m'.handled, now)
               /\ Applied(j, m'.latest)
  BY StepDecides DEF IssueFits
<1>2. DOMAIN ds'[i].giveAway = DueKeys(now, j) /\ ds'[i].giveAway[k] = j.assignments[k].assignment
  BY <1>1 DEF IssueDecision
<1>3. k \in DOMAIN j.assignments /\ Due(now, j.assignments[k])
  BY <1>2 DEF DueKeys
<1>4. j.assignments[k].status \in Unfinished
  BY <1>3 DEF Due, Retriable, Unfinished
<1>5. Wants(m'.latest, k, j.assignments[k])
  BY <1>1, <1>3, <1>4 DEF Applied
<1>6. AssignmentInv(k, j.assignments[k], j.seqs[k], m'.handled, now)
  BY <1>1, <1>3 DEF JobInv
<1> QED BY <1>2, <1>5, <1>6 DEF Wants, Current, AssignmentInv, Has

\* Every give-away, at its first issue and at every retry, is of a take the
\* newest state still holds for another, live host that has not reported the
\* device arrived, and that this host has not handled (see reconcile, issue).
THEOREM GiveAwayCorrect == Spec => GiveAwayAuthorised
<1>1. Init => DeciderInv
  BY InitInv
<1>2. DeciderInv /\ [Next]_vars => DeciderInv'
  BY StepInv
<1>3. DeciderInv /\ [Next]_vars =>
        [\A i \in Issues(ds') : \A k \in DOMAIN ds'[i].giveAway :
           LET a == ds'[i].giveAway[k]
               s == m'.latest
           IN /\ k \in DOMAIN s.assignments
              /\ s.assignments[k].seq = a.seq /\ ~s.assignments[k].arrived
              /\ a.assignee # Me /\ a.assignee \in s.live
              /\ ~Has(m'.handled, k, a.seq)]_vars
  BY GiveAwayStep
<1> QED BY <1>1, <1>2, <1>3, PTL DEF Spec, GiveAwayAuthorised

LEMMA CommandsStep ==
  ASSUME DeciderInv, Next, NEW i \in Issues(ds'), NEW c \in DOMAIN ds'[i].run
  PROVE  LET cmd == ds'[i].run[c]
             o   == m'.job.ownership
         IN /\ o.owner = Me => /\ m'.latest.owner = Me
                               /\ m'.latest.activation = o.activation
                               /\ cmd.run \in Takes => cmd.activation = o.activation
            /\ o.owner # Me => m'.latest.owner # Me /\ cmd.run = "exec"
<1>1. PICK j : /\ ds'[i] = IssueDecision(now, j) /\ JobInv(j, m'.handled, now)
               /\ Applied(j, m'.latest) /\ m'.job = Issue(now, j)
  BY StepDecides DEF IssueFits
<1>2. now \in Nat
  BY StepDecides
<1> DEFINE z == j.commands
           P == {n \in DOMAIN z : Due(now, z[n])}
           T == {u \in CommandTasks : \E n \in DOMAIN z : u = z[n] /\ Due(now, u)}
           w == DueCommands(now, j)
<1>3. z \in Seq(CommandTasks)
  BY <1>1, JobShape DEF JobInv
<1>4. w \in Seq(T)
  <2>1. Len(z) \in Nat /\ \A n \in 1..Len(z) : n \in P => z[n] \in T
    BY <1>3
  <2>2. w = AtPositions(z, P)
    BY DEF DueCommands
  <2> HIDE DEF z, P, T, w
  <2> QED BY <2>1, <2>2, AtPositionsIn
<1>5. ds'[i].run = [n \in DOMAIN w |-> w[n].cmd]
  BY <1>1 DEF IssueDecision
<1> HIDE DEF w
<1>6. c \in DOMAIN w /\ ds'[i].run[c] = w[c].cmd /\ w[c] \in T
  BY <1>4, <1>5
<1>7. PICK n \in DOMAIN j.commands : w[c] = j.commands[n] /\ Due(now, j.commands[n])
  BY <1>6
<1> HIDE DEF z, P, T
<1>8. j.commands[n].status \in Unfinished
  BY <1>7 DEF Due, Retriable, Unfinished
<1>9. ~CommandsExpired(j, m'.latest)
  BY <1>1, <1>7, <1>8 DEF Applied
<1>10. j.ownership # None /\ CommandFits(j.commands[n], j.ownership)
  BY <1>1, <1>7 DEF JobInv
<1>11. m'.job.ownership = j.ownership
  <2>1. PICK h, x : JobInv(j, h, now) /\ x = Issue(now, j)
    BY <1>1
  <2>2. /\ JobInv(x, h, now) /\ x.ownership = j.ownership
        /\ DOMAIN x.assignments = DOMAIN j.assignments
        /\ DOMAIN x.commands = DOMAIN j.commands
        /\ \A k \in DOMAIN j.assignments : x.assignments[k] = IssuedTask(now, j.assignments[k])
        /\ \A g \in DOMAIN j.commands : x.commands[g] = IssuedTask(now, j.commands[g])
        /\ NothingPending(x)
        /\ NothingDue(now, j) => x = j
    BY <1>2, <2>1, IssueInv
  <2> QED BY <1>1, <2>1, <2>2
<1> QED BY <1>6, <1>7, <1>9, <1>10, <1>11 DEF CommandsExpired, CommandFits

\* The commands of an ownership change are issued and retried only while the
\* newest state still calls for them, and takes only under its activation
\* (see commandsExpired and command).
THEOREM CommandsCorrect == Spec => CommandsAuthorised
<1>1. Init => DeciderInv
  BY InitInv
<1>2. DeciderInv /\ [Next]_vars => DeciderInv'
  BY StepInv
<1>3. DeciderInv /\ [Next]_vars =>
        [\A i \in Issues(ds') : \A c \in DOMAIN ds'[i].run :
           LET cmd == ds'[i].run[c]
               o   == m'.job.ownership
           IN /\ o.owner = Me => /\ m'.latest.owner = Me
                                 /\ m'.latest.activation = o.activation
                                 /\ cmd.run \in Takes => cmd.activation = o.activation
              /\ o.owner # Me => m'.latest.owner # Me /\ cmd.run = "exec"]_vars
  BY CommandsStep
<1> QED BY <1>1, <1>2, <1>3, PTL DEF Spec, CommandsAuthorised

LEMMA LastAttempt ==
  ASSUME NEW u, NEW t, TaskBounds(u, t), u.attempts \in Nat, u.status = "failed", Over(u)
  PROVE  u.attempts = MaxAttempts
<1>1. u.attempts <= MaxAttempts /\ MaxAttempts \in Nat
  BY TimingAssumption DEF TaskBounds, MaxAttempts
<1>2. ~(u.attempts < MaxAttempts)
  BY DEF Over, Retriable
<1> QED BY <1>1, <1>2

LEMMA RecordedStep ==
  ASSUME DeciderInv, Next, NEW i \in Saves(ds'), ds'[i].job # None,
         NEW k \in DOMAIN ds'[i].job.assignments
  PROVE  LET j == ds'[i].job
             t == j.assignments[k]
         IN IF j.seqs[k] # 0
            THEN \/ t.status = "done"
                 \/ t.status = "failed" /\ t.attempts = MaxAttempts
                 \/ t.status = "dropped" /\ t.dropReason = "replaced"
            ELSE t.status = "dropped" /\ t.dropReason = "assignee not live"
<1> DEFINE j == ds'[i].job
           u == j.assignments[k]
<1>1. PICK h : JobInv(j, h, now)
  BY StepDecides DEF SaveFits
<1>2. Settled(j)
  BY StepDecides DEF SaveFits
<1> HIDE DEF j
<1>3. Over(u)
  BY <1>2, SettledIs DEF j
<1>4. u \in AssignmentTasks /\ AssignmentInv(k, u, j.seqs[k], h, now)
  <2>1. j \in Jobs /\ k \in DOMAIN j.assignments
    BY <1>1 DEF JobInv, j
  <2> QED BY <1>1, <2>1, JobShape DEF JobInv
<1> HIDE DEF u
<1>5. u.dropReason \in DropReasons \cup {"none"} /\ u.attempts \in Nat
  BY <1>4 DEF AssignmentTasks
<1>6. u.status = "failed" => u.attempts = MaxAttempts
  BY <1>3, <1>4, <1>5, LastAttempt DEF AssignmentInv
<1>7. u.status \in {"done", "failed", "dropped"}
  BY <1>3 DEF Over
<1>8. CASE j.seqs[k] # 0
  <2>1. u.status = "dropped" => u.dropReason = "replaced"
    BY <1>4, <1>5, <1>8 DEF AssignmentInv, DropReasons
  <2> QED BY <1>6, <1>7, <1>8, <2>1 DEF j, u
<1>9. CASE j.seqs[k] = 0
  BY <1>4, <1>9 DEF AssignmentInv, j, u
<1> QED BY <1>8, <1>9

\* What is recorded as handled is over for good: moved, not here, out of
\* attempts or replaced; what was held back because its assignee died is not
\* recorded (see advanceJob and dropExpiredAssignments).
THEOREM RecordCorrect == Spec => RecordedMeansOver
<1>1. Init => DeciderInv
  BY InitInv
<1>2. DeciderInv /\ [Next]_vars => DeciderInv'
  BY StepInv
<1>3. DeciderInv /\ [Next]_vars =>
        [\A i \in Saves(ds') : ds'[i].job # None =>
           LET j == ds'[i].job
           IN \A k \in DOMAIN j.assignments :
                LET t == j.assignments[k]
                IN IF j.seqs[k] # 0
                   THEN \/ t.status = "done"
                        \/ t.status = "failed" /\ t.attempts = MaxAttempts
                        \/ t.status = "dropped" /\ t.dropReason = "replaced"
                   ELSE t.status = "dropped" /\ t.dropReason = "assignee not live"]_vars
  BY RecordedStep
<1> QED BY <1>1, <1>2, <1>3, PTL DEF Spec, RecordedMeansOver

LEMMA NotifyStep ==
  ASSUME DeciderInv, Next, NEW i \in Saves(ds'), NEW k \in ds'[i].notify
  PROVE  LET t == ds'[i].job.assignments[k]
             s == m'.latest
         IN /\ t.attempts = MaxAttempts /\ t.assignment.prev = Me
            /\ Current(s, k, t) /\ ~s.assignments[k].arrived
            /\ t.assignment.assignee \in s.live
<1> DEFINE j == ds'[i].job
           u == j.assignments[k]
<1>1. /\ j # None /\ Settled(j) /\ Applied(j, m'.latest) /\ ds'[i].notify = NotifyFor(j)
      /\ \E h : JobInv(j, h, now)
  BY StepDecides DEF SaveFits
<1>2. PICK h : JobInv(j, h, now)
  BY <1>1
<1> HIDE DEF j
<1>3. k \in DOMAIN j.assignments /\ u.status = "failed" /\ u.assignment.prev = Me
  BY <1>1 DEF NotifyFor
<1>4. Over(u) /\ Wants(m'.latest, k, u)
  BY <1>1, <1>3, SettledIs DEF Applied, Unfinished
<1>5. u \in AssignmentTasks /\ AssignmentInv(k, u, j.seqs[k], h, now)
  <2>1. j \in Jobs
    BY <1>2 DEF JobInv
  <2> QED BY <1>2, <1>3, <2>1, JobShape DEF JobInv
<1> HIDE DEF u
<1>6. u.attempts \in Nat
  BY <1>5 DEF AssignmentTasks
<1>7. u.attempts = MaxAttempts
  BY <1>3, <1>4, <1>5, <1>6, LastAttempt DEF AssignmentInv
<1> QED BY <1>3, <1>4, <1>7 DEF Wants, u, j

\* A notification is for a give-away that failed for good and that the newest
\* state still wants (see failureLogs).
THEOREM NotifyCorrect == Spec => NotifyJustified
<1>1. Init => DeciderInv
  BY InitInv
<1>2. DeciderInv /\ [Next]_vars => DeciderInv'
  BY StepInv
<1>3. DeciderInv /\ [Next]_vars =>
        [\A i \in Saves(ds') : \A k \in ds'[i].notify :
           LET t == ds'[i].job.assignments[k]
               s == m'.latest
           IN /\ t.attempts = MaxAttempts /\ t.assignment.prev = Me
              /\ Current(s, k, t) /\ ~s.assignments[k].arrived
              /\ t.assignment.assignee \in s.live]_vars
  BY NotifyStep
<1> QED BY <1>1, <1>2, <1>3, PTL DEF Spec, NotifyJustified

-----------------------------------------------------------------------------
(* Claims.                                                                 *)

LEMMA AppendKinds ==
  ASSUME NEW s \in Seq(Decisions), NEW q, NEW r, r = Append(s, q)
  PROVE  /\ Len(s) \in Nat /\ Len(s) + 1 \notin DOMAIN s /\ DOMAIN s = 1..Len(s)
         /\ Saves(r) = Saves(s) \cup (IF q.type = "save" THEN {Len(s) + 1} ELSE {})
         /\ Claims(r) = Claims(s) \cup (IF q.type = "claim" THEN {Len(s) + 1} ELSE {})
         /\ r[Len(s) + 1] = q
<1>1. Len(s) \in Nat /\ DOMAIN s = 1..Len(s) /\ Len(s) + 1 \notin DOMAIN s
  OBVIOUS
<1>2. /\ DOMAIN r = 1..(Len(s) + 1) /\ r[Len(s) + 1] = q
      /\ \A i \in DOMAIN s : r[i] = s[i]
  OBVIOUS
<1>3. DOMAIN r = DOMAIN s \cup {Len(s) + 1}
  BY <1>1, <1>2
<1> QED BY <1>1, <1>2, <1>3 DEF Saves, Claims

LEMMA AppendIssue ==
  ASSUME NEW s \in Seq(Decisions), NEW q, NEW r, r = Append(s, q), q.type = "issue"
  PROVE  Saves(r) = Saves(s) /\ Claims(r) = Claims(s)
<1>1. /\ Saves(r) = Saves(s) \cup (IF q.type = "save" THEN {Len(s) + 1} ELSE {})
      /\ Claims(r) = Claims(s) \cup (IF q.type = "claim" THEN {Len(s) + 1} ELSE {})
  BY AppendKinds
<1> QED BY <1>1

LEMMA AppendSave ==
  ASSUME NEW s \in Seq(Decisions), NEW q, NEW r, r = Append(s, q), q.type = "save"
  PROVE  Saves(r) = Saves(s) \cup {Len(s) + 1} /\ Claims(r) = Claims(s)
<1>1. /\ Saves(r) = Saves(s) \cup (IF q.type = "save" THEN {Len(s) + 1} ELSE {})
      /\ Claims(r) = Claims(s) \cup (IF q.type = "claim" THEN {Len(s) + 1} ELSE {})
  BY AppendKinds
<1> QED BY <1>1

LEMMA AppendClaim ==
  ASSUME NEW s \in Seq(Decisions), NEW q, NEW r, r = Append(s, q), q.type = "claim"
  PROVE  /\ Saves(r) = Saves(s) /\ Claims(r) = Claims(s) \cup {Len(s) + 1}
         /\ Len(s) \in Nat /\ \A e \in Saves(s) : e \in 1..Len(s)
<1>1. /\ Saves(r) = Saves(s) \cup (IF q.type = "save" THEN {Len(s) + 1} ELSE {})
      /\ Claims(r) = Claims(s) \cup (IF q.type = "claim" THEN {Len(s) + 1} ELSE {})
  BY AppendKinds
<1>2. Saves(r) = Saves(s) /\ Claims(r) = Claims(s) \cup {Len(s) + 1}
  BY <1>1
<1>3. Saves(s) \subseteq 1..Len(s)
  BY DEF Saves
<1>4. \A e \in Saves(s) : e \in 1..Len(s)
  BY ONLY <1>3
<1> QED BY <1>1, <1>2, <1>4

\* The loop states of a call that began at b, as far as claims go.
NoClaimYet(b, x) == Claims(x.ds) = {} /\ x.m.claimedAttach = b.claimedAttach
OneClaim(t, b, x) ==
  \E i : /\ Claims(x.ds) = {i} /\ x.m.claimedAttach = b.lastAttach
         /\ t >= b.lastAttach + Settle /\ b.claimedAttach < b.lastAttach
         /\ b.job # None => \E e \in Saves(x.ds) : e < i
Claiming(t, b) ==
  {x \in Loops : /\ MidInv(x.m, t) /\ x.m.lastAttach = b.lastAttach
                 /\ NoClaimYet(b, x) \/ OneClaim(t, b, x)
                 /\ b.job # None /\ Saves(x.ds) = {} => x.m.job # None
                 /\ x.m.job # None /\ (b.job = None \/ Saves(x.ds) # {}) => ~ClaimDue(x.m, t)}

LEMMA ClaimingOn ==
  ASSUME NEW t \in Nat \ {0}, NEW b, NEW x \in Claiming(t, b), NEW y, y = Round(t, x)
  PROVE  y \in Claiming(t, b)
<1>1. /\ x \in Loops /\ MidInv(x.m, t) /\ x.m.lastAttach = b.lastAttach
      /\ NoClaimYet(b, x) \/ OneClaim(t, b, x)
      /\ b.job # None /\ Saves(x.ds) = {} => x.m.job # None
      /\ x.m.job # None /\ (b.job = None \/ Saves(x.ds) # {}) => ~ClaimDue(x.m, t)
      /\ x.ds \in Seq(Decisions)
  BY DEF Claiming, Loops
<1>2. CASE ~x.more
  BY <1>2, RoundOver
<1>3. CASE x.more
  <2>1. /\ y \in Loops /\ MidInv(y.m, t) /\ y.m.lastAttach = x.m.lastAttach
        /\ \/ RoundBusy(t, x, y) \/ RoundWaits(t, x, y) \/ RoundEnds(t, x, y)
           \/ RoundClaims(t, x, y) \/ RoundStarts(t, x, y) \/ RoundStops(t, x, y)
    BY <1>1, <1>3, RoundMid
  <2> DEFINE Good == /\ NoClaimYet(b, y) \/ OneClaim(t, b, y)
                     /\ b.job # None /\ Saves(y.ds) = {} => y.m.job # None
                     /\ y.m.job # None /\ (b.job = None \/ Saves(y.ds) # {}) => ~ClaimDue(y.m, t)
  <2>2. ASSUME Saves(y.ds) = Saves(x.ds), Claims(y.ds) = Claims(x.ds),
               y.m.claimedAttach = x.m.claimedAttach
        PROVE  NoClaimYet(b, y) \/ OneClaim(t, b, y)
    BY <1>1, <2>2 DEF NoClaimYet, OneClaim
  <2>3. ASSUME RoundBusy(t, x, y) \/ RoundWaits(t, x, y) PROVE Good
    <3> DEFINE j == Advanced(t, x.m)
    <3>1. x.m.job # None /\ (y.ds = x.ds \/ y.ds = Append(x.ds, IssueDecision(t, j)))
      BY <2>3 DEF RoundBusy, RoundWaits
    <3>2. \E w : SameButJob(y.m, x.m, w) /\ w # None
      <4>1. CASE RoundBusy(t, x, y)
        <5>1. Busy(j) /\ y.m = [x.m EXCEPT !.job = j]
          BY <4>1 DEF RoundBusy
        <5>2. SameButJob(y.m, x.m, j) /\ j # None
          BY <1>1, <3>1, <5>1, MidBusy
        <5> QED BY <5>2
      <4>2. CASE RoundWaits(t, x, y)
        <5>1. ~Busy(j) /\ ~Settled(j) /\ y.m = [x.m EXCEPT !.job = Issue(t, j)]
          BY <4>2 DEF RoundWaits
        <5>2. SameButJob(y.m, x.m, Issue(t, j)) /\ Issue(t, j) # None
          BY <1>1, <3>1, <5>1, MidWaits
        <5> QED BY <5>2
      <4> QED BY <2>3, <4>1, <4>2
    <3> HIDE DEF j
    <3>3. Saves(y.ds) = Saves(x.ds) /\ Claims(y.ds) = Claims(x.ds)
      <4>1. CASE y.ds = x.ds
        BY <4>1
      <4>2. CASE y.ds = Append(x.ds, IssueDecision(t, j))
        <5>1. PICK q : q = IssueDecision(t, j)
          OBVIOUS
        <5>2. q.type = "issue" /\ y.ds = Append(x.ds, q)
          BY <4>2, <5>1, DecisionKinds
        <5> QED BY <1>1, <5>2, AppendIssue
      <4> QED BY <3>1, <4>1, <4>2
    <3>4. /\ y.m.job # None /\ y.m.claimedAttach = x.m.claimedAttach
          /\ ClaimDue(y.m, t) <=> ClaimDue(x.m, t)
      BY <3>2 DEF SameButJob, ClaimDue, ClaimAt
    <3> QED BY <1>1, <2>2, <3>1, <3>3, <3>4
  <2>4. ASSUME RoundEnds(t, x, y) PROVE Good
    <3> DEFINE j == Advanced(t, x.m)
               q == SaveDecision(AddRecord(x.m.handled, j), j, NotifyFor(j))
    <3>1. /\ y.ds = Append(x.ds, q) /\ y.m.job = None
          /\ y.m.claimedAttach = x.m.claimedAttach
      BY <2>4 DEF RoundEnds
    <3>2. q.type = "save"
      BY DecisionKinds
    <3> HIDE DEF q
    <3>3. Saves(y.ds) = Saves(x.ds) \cup {Len(x.ds) + 1} /\ Claims(y.ds) = Claims(x.ds)
      BY <1>1, <3>1, <3>2, AppendSave
    <3>4. NoClaimYet(b, y) \/ OneClaim(t, b, y)
      BY <1>1, <3>1, <3>3 DEF NoClaimYet, OneClaim
    <3> QED BY <3>1, <3>3, <3>4
  <2>5. ASSUME RoundClaims(t, x, y) PROVE Good
    <3>1. /\ x.m.job = None /\ ClaimDue(x.m, t) /\ y.m = [x.m EXCEPT !.claimedAttach = x.m.lastAttach]
          /\ y.ds = Append(x.ds, ClaimDecision)
      BY <2>5 DEF RoundClaims
    <3>2. y.m.job = None /\ y.m.claimedAttach = b.lastAttach
      BY <1>1, <3>1, MidClaims
    <3>3. /\ Saves(y.ds) = Saves(x.ds) /\ Claims(y.ds) = Claims(x.ds) \cup {Len(x.ds) + 1}
          /\ Len(x.ds) \in Nat /\ \A e \in Saves(x.ds) : e \in 1..Len(x.ds)
      <4>1. PICK q : q = ClaimDecision
        OBVIOUS
      <4>2. q.type = "claim" /\ y.ds = Append(x.ds, q)
        BY <3>1, <4>1, DecisionKinds
      <4> QED BY <1>1, <4>2, AppendClaim
    <3>4. /\ t >= x.m.lastAttach + Settle /\ x.m.claimedAttach < x.m.lastAttach
      <4>1. /\ x.m.claimedAttach \in Nat /\ x.m.lastAttach \in Nat
            /\ x.m.claimedAttach <= x.m.lastAttach
        BY <1>1, MidShape DEF MidInv
      <4> QED BY <3>1, <4>1, TimingAssumption DEF ClaimDue, ClaimAt
    <3>5. NoClaimYet(b, x)
      <4>1. x.m.claimedAttach # b.lastAttach
        BY <1>1, <3>1 DEF ClaimDue, ClaimAt
      <4> QED BY <1>1, <4>1 DEF OneClaim
    <3>6. b.job # None => \E e \in Saves(y.ds) : e < Len(x.ds) + 1
      <4>1. ASSUME b.job # None PROVE \E e \in Saves(x.ds) : e < Len(x.ds) + 1
        <5>1. PICK e : e \in Saves(x.ds)
          BY <1>1, <3>1, <4>1
        <5> QED BY <3>3, <5>1
      <4> QED BY <3>3, <4>1
    <3>7. OneClaim(t, b, y)
      <4>1. Claims(y.ds) = {Len(x.ds) + 1}
        BY <3>3, <3>5 DEF NoClaimYet
      <4> QED BY <1>1, <3>2, <3>4, <3>5, <3>6, <4>1 DEF OneClaim, NoClaimYet
    <3> QED BY <1>1, <3>1, <3>2, <3>3, <3>7
  <2>6. ASSUME RoundStarts(t, x, y) PROVE Good
    <3>1. /\ x.m.job = None /\ ~ClaimDue(x.m, t) /\ NextJob(t, x.m) # None
          /\ y.m = [x.m EXCEPT !.job = NextJob(t, x.m)] /\ y.ds = x.ds
      BY <2>6 DEF RoundStarts
    <3>2. SameButJob(y.m, x.m, NextJob(t, x.m))
      BY <1>1, <3>1, MidStarts
    <3>3. ~ClaimDue(y.m, t) /\ y.m.claimedAttach = x.m.claimedAttach /\ y.m.job # None
      BY <3>1, <3>2 DEF SameButJob, ClaimDue, ClaimAt
    <3> QED BY <2>2, <3>1, <3>3
  <2>7. ASSUME RoundStops(t, x, y) PROVE Good
    BY <1>1, <2>2, <2>7 DEF RoundStops
  <2> QED BY <1>1, <2>1, <2>3, <2>4, <2>5, <2>6, <2>7 DEF Claiming
<1> QED BY <1>2, <1>3

LEMMA CallClaims ==
  ASSUME NEW t \in Nat \ {0}, NEW b, MidInv(b, t), NEW d \in Seq(Decisions),
         \A i \in DOMAIN d : d[i].type = "save", b.job # None => d = <<>>,
         NEW z, z = AdvanceTime(t, b, d)
  PROVE  /\ z.m.lastAttach = b.lastAttach
         /\ NoClaimYet(b, z) \/ OneClaim(t, b, z)
         /\ z.m.job # None /\ (b.job = None \/ Saves(z.ds) # {}) => ~ClaimDue(z.m, t)
<1> DEFINE x0 == [m |-> b, ds |-> d, more |-> TRUE]
<1>1. x0 \in Claiming(t, b)
  <2>1. x0 \in Loops /\ x0.m = b /\ x0.ds = d
    BY DEF Loops, MidInv
  <2> HIDE DEF x0
  <2>2. NoClaimYet(b, x0)
    BY <2>1 DEF NoClaimYet, Claims
  <2>3. b.job # None => Saves(d) = {}
    BY DEF Saves
  <2>4. b.job = None => ~(x0.m.job # None)
    BY <2>1
  <2> QED BY <2>1, <2>2, <2>3, <2>4 DEF Claiming
<1>2. \A x \in Claiming(t, b) : Round(t, x) \in Claiming(t, b)
  BY ClaimingOn
<1>3. z \in Claiming(t, b)
  BY <1>1, <1>2, LoopKeeps
<1> QED BY <1>3 DEF Claiming

LEMMA ClaimStep ==
  ASSUME DeciderInv, Next
  PROVE  /\ \A i \in Claims(ds') :
              /\ now >= m'.lastAttach + Settle /\ m.claimedAttach < m'.lastAttach
              /\ Cardinality(Claims(ds')) = 1
              /\ m.job # None => \E e \in Saves(ds') : e < i
         /\ StartsJob => ~ClaimDue(m', now)
<1>1. now \in Nat \ {0} /\ MidInv(m, now)
  BY InvNow
<1> DEFINE Good ==
      /\ \A i \in Claims(ds') :
           /\ now >= m'.lastAttach + Settle /\ m.claimedAttach < m'.lastAttach
           /\ Cardinality(Claims(ds')) = 1
           /\ m.job # None => \E e \in Saves(ds') : e < i
      /\ StartsJob => ~ClaimDue(m', now)
<1>2. ASSUME NEW o, NEW b, NEW d, Observed(o, b, d), Decide(o, b, d) PROVE Good
  <2>1. /\ MidInv(b, now) /\ d \in Seq(Decisions)
        /\ b.job = None <=> m.job = None
        /\ b.claimedAttach = m.claimedAttach
        /\ b.handled = m.handled \/ (m.handled = None /\ b.job = None /\ b.latest = None)
        /\ m.handled # None => d = <<>>
        /\ \A i \in DOMAIN d : d[i].type = "save" /\ d[i].job = None /\ d[i].notify = {}
    BY <1>2, ObservedInv
  <2>2. b.job # None => d = <<>>
    <3>1. b.job # None => b.handled # None
      BY <2>1, NoneAssumption, MidShape
    <3> QED BY <2>1, <3>1
  <2>3. PICK z : z = AdvanceTime(now, b, d)
    OBVIOUS
  <2>4. m' = z.m /\ ds' = z.ds
    BY <1>2, <2>3 DEF Decide
  <2>5. /\ z.m.lastAttach = b.lastAttach
        /\ NoClaimYet(b, z) \/ OneClaim(now, b, z)
        /\ z.m.job # None /\ (b.job = None \/ Saves(z.ds) # {}) => ~ClaimDue(z.m, now)
    BY <1>1, <2>1, <2>2, <2>3, CallClaims
  <2>6. StartsJob => ~ClaimDue(m', now)
    BY <2>1, <2>4, <2>5 DEF StartsJob
  <2>7. CASE NoClaimYet(b, z)
    BY <2>4, <2>6, <2>7 DEF NoClaimYet
  <2>8. CASE OneClaim(now, b, z)
    <3>1. PICK i : /\ Claims(z.ds) = {i}
                   /\ now >= b.lastAttach + Settle /\ b.claimedAttach < b.lastAttach
                   /\ b.job # None => \E e \in Saves(z.ds) : e < i
      BY <2>8 DEF OneClaim
    <3>2. Cardinality({i}) = 1
      BY FS_Singleton
    <3> QED BY <2>1, <2>4, <2>5, <2>6, <3>1, <3>2
  <2> QED BY <2>5, <2>7, <2>8
<1>3. CASE Tick
  BY <1>3 DEF Tick, Claims, Saves, StartsJob
<1>4. CASE Restart
  <2>1. m'.job = None /\ ds' = <<>>
    BY <1>4 DEF Restart, NewDecider
  <2> QED BY <2>1 DEF Claims, StartsJob
<1> QED BY <1>2, <1>3, <1>4, StepCases DEF CallStep

\* A claim waits until the last attach is Settle old, answers an attach that
\* no claim answered, is made once in a call and after the job in flight is
\* over; no new job starts ahead of a claim that is due (see advanceTime).
THEOREM ClaimCorrect == Spec => ClaimDiscipline
<1>1. Init => DeciderInv
  BY InitInv
<1>2. DeciderInv /\ [Next]_vars => DeciderInv'
  BY StepInv
<1>3. DeciderInv /\ [Next]_vars =>
        [/\ \A i \in Claims(ds') :
              /\ now >= m'.lastAttach + Settle /\ m.claimedAttach < m'.lastAttach
              /\ Cardinality(Claims(ds')) = 1
              /\ m.job # None => \E e \in Saves(ds') : e < i
         /\ StartsJob => ~ClaimDue(m', now)]_vars
  BY ClaimStep
<1> QED BY <1>1, <1>2, <1>3, PTL DEF Spec, ClaimDiscipline

-----------------------------------------------------------------------------
(* The contract.                                                           *)

\* What the agent is handed of the decisions s.
Kept(s) == AtPositions([i \in DOMAIN s |-> ForAgent(s[i])],
                       {i \in DOMAIN s : ForAgent(s[i]) # "saved"})
Words == {"saved", "notify", "claim", "issue"}

LEMMA WordIs ==
  /\ \A q \in Decisions : ForAgent(q) \in Words
  /\ \A h, j, n : /\ n = {} => ForAgent(SaveDecision(h, j, n)) = "saved"
                  /\ n # {} => ForAgent(SaveDecision(h, j, n)) = "notify"
  /\ \A t, j : ForAgent(IssueDecision(t, j)) = "issue"
  /\ ForAgent(ClaimDecision) = "claim"
<1>1. \A q \in Decisions : ForAgent(q) \in Words
  BY DEF ForAgent, Decisions, Words
<1>2. \A h, j, n : /\ SaveDecision(h, j, n).type = "save"
                   /\ SaveDecision(h, j, n).notify = n
  BY DecisionKinds
<1>3. \A h, j, n : /\ n = {} => ForAgent(SaveDecision(h, j, n)) = "saved"
                   /\ n # {} => ForAgent(SaveDecision(h, j, n)) = "notify"
  BY <1>2 DEF ForAgent
<1>4. \A t, j : ForAgent(IssueDecision(t, j)) = "issue"
  BY DEF ForAgent, IssueDecision
<1>5. ForAgent(ClaimDecision) = "claim"
  BY DEF ForAgent, ClaimDecision
<1> QED BY <1>1, <1>3, <1>4, <1>5

LEMMA KeptAppend ==
  ASSUME NEW s \in Seq(Decisions), NEW q \in Decisions, NEW r, r = Append(s, q)
  PROVE  /\ ForAgent(q) = "saved" => Kept(r) = Kept(s)
         /\ ForAgent(q) # "saved" => Kept(r) = Append(Kept(s), ForAgent(q))
<1> DEFINE f == [i \in DOMAIN s |-> ForAgent(s[i])]
           g == [i \in DOMAIN r |-> ForAgent(r[i])]
           P == {i \in DOMAIN s : ForAgent(s[i]) # "saved"}
           Q == {i \in DOMAIN r : ForAgent(r[i]) # "saved"}
           w == ForAgent(q)
<1>1. /\ Len(s) \in Nat /\ DOMAIN s = 1..Len(s) /\ DOMAIN r = 1..(Len(s) + 1)
      /\ r[Len(s) + 1] = q /\ \A i \in 1..Len(s) : r[i] = s[i] /\ s[i] \in Decisions
  OBVIOUS
<1>2. w \in Words /\ \A i \in 1..Len(s) : ForAgent(s[i]) \in Words
  BY <1>1, WordIs
<1>3. f \in Seq(Words) /\ Len(f) = Len(s)
  BY <1>1, <1>2
<1>4. g = Append(f, w)
  <2>1. /\ Append(f, w) \in Seq(Words) /\ Len(Append(f, w)) = Len(s) + 1
        /\ Append(f, w)[Len(s) + 1] = w /\ \A i \in 1..Len(s) : Append(f, w)[i] = f[i]
    BY <1>1, <1>2, <1>3, AppendProperties
  <2>2. /\ DOMAIN g = 1..(Len(s) + 1) /\ g[Len(s) + 1] = w
        /\ \A i \in 1..Len(s) : g[i] = f[i]
    BY <1>1
  <2>3. DOMAIN Append(f, w) = 1..(Len(s) + 1)
    BY <2>1
  <2>4. \A i \in 1..(Len(s) + 1) : g[i] = Append(f, w)[i]
    BY <1>1, <2>1, <2>2
  <2>5. g = [i \in 1..(Len(s) + 1) |-> g[i]]
    BY <2>2
  <2>6. Append(f, w) = [i \in 1..(Len(s) + 1) |-> Append(f, w)[i]]
    BY <2>1
  <2> HIDE DEF f, g, w
  <2> QED BY <2>4, <2>5, <2>6
<1>5. /\ \A i \in 1..Len(s) : i \in P <=> i \in Q
      /\ Len(s) + 1 \in Q <=> w # "saved"
  BY <1>1
<1>6. Kept(s) = AtPositions(f, P) /\ Kept(r) = AtPositions(g, Q)
  BY DEF Kept
<1> HIDE DEF f, g, P, Q, w
<1>7. \A i \in 1..Len(f) : i \in P <=> i \in Q
  BY <1>3, <1>5
<1>8. AtPositions(Append(f, w), Q) =
        IF Len(f) + 1 \in Q THEN Append(AtPositions(f, P), w) ELSE AtPositions(f, P)
  BY <1>2, <1>3, <1>7, AtPositionsAppend
<1>9. /\ w = "saved" => Kept(r) = Kept(s)
      /\ w # "saved" => Kept(r) = Append(Kept(s), w)
  BY <1>3, <1>4, <1>5, <1>6, <1>8
<1> QED BY <1>9 DEF w

LEMMA KeptTold ==
  ASSUME NEW s \in Seq(Decisions), NEW q \in Decisions, NEW r, r = Append(s, q),
         NEW w, w = ForAgent(q), w # "saved"
  PROVE  Kept(r) = Append(Kept(s), w)
<1>1. /\ ForAgent(q) = "saved" => Kept(r) = Kept(s)
      /\ ForAgent(q) # "saved" => Kept(r) = Append(Kept(s), ForAgent(q))
  BY KeptAppend
<1> QED BY <1>1

LEMMA KeptNone == Kept(<<>>) = <<>>
<1>1. [i \in DOMAIN <<>> |-> ForAgent(<<>>[i])] = <<>>
  OBVIOUS
<1> QED BY <1>1, AtPositionsNone DEF Kept

\* A new job that is not over has something due.
LEMMA FreshDue ==
  ASSUME NEW t, NEW j, AllPending(j), ~Settled(j)
  PROVE  ~NothingDue(t, j)
BY SettledIs, NothingDueIs DEF AllPending, Due

\* The loop states of a call that began at b: the job in flight has not been
\* looked at, or no job but new ones is in flight, or the call is over.
Opening(b) == {<<>>} \cup (IF b.job # None THEN {<<"notify">>} ELSE {})
Openings(b) == Opening(b) \cup {Append(w, "claim") : w \in Opening(b)}
Untouched(b, x) == b.job # None /\ x.m.job = b.job /\ Kept(x.ds) = <<>>
Afresh(t, b, x) ==
  /\ b.job # None => ~Busy(b.job)
  /\ \/ Kept(x.ds) \in Opening(b)
     \/ Kept(x.ds) \in Openings(b) /\ ~ClaimDue(x.m, t)
  /\ x.m.job # None => FreshOwner(x.m, x.m.job) \/ FreshGive(x.m, t, x.m.job)
Answered(b, x) ==
  \/ /\ x.m.job = None /\ Kept(x.ds) \in Openings(b)
     /\ b.job # None => ~Busy(b.job)
  \/ /\ x.m.job # None /\ Busy(x.m.job) /\ b.latest # None
     /\ b.job # None => ~Busy(b.job)
     /\ \E w \in Openings(b) : Kept(x.ds) = Append(w, "issue")
  \/ /\ b.job # None /\ x.m.job # None /\ Kept(x.ds) = <<>>
     /\ Busy(x.m.job) <=> Busy(b.job)
Staged(t, b) ==
  {x \in Loops : /\ MidInv(x.m, t) /\ x.m.latest = b.latest
                 /\ x.more => Untouched(b, x) \/ Afresh(t, b, x)
                 /\ ~x.more => Answered(b, x)}

LEMMA UntouchedOn ==
  ASSUME NEW t \in Nat \ {0}, NEW b, NEW x \in Loops, MidInv(x.m, t), x.m.latest = b.latest,
         x.more, Untouched(b, x), NEW y, y = Round(t, x)
  PROVE  /\ y.more => Afresh(t, b, y)
         /\ ~y.more => Answered(b, y)
<1> DEFINE j == Advanced(t, x.m)
           Good == /\ y.more => Afresh(t, b, y)
                   /\ ~y.more => Answered(b, y)
<1>1. b.job # None /\ x.m.job = b.job /\ Kept(x.ds) = <<>> /\ x.ds \in Seq(Decisions)
  BY DEF Untouched, Loops
<1>2. /\ Busy(j) <=> Busy(b.job)
      /\ j \in Jobs
  BY <1>1, AdvancedInv
<1>3. b.latest # None
  BY <1>1 DEF MidInv
<1>4. \/ RoundBusy(t, x, y) \/ RoundWaits(t, x, y) \/ RoundEnds(t, x, y)
      \/ RoundClaims(t, x, y) \/ RoundStarts(t, x, y) \/ RoundStops(t, x, y)
  BY RoundMid
<1>5. ~RoundClaims(t, x, y) /\ ~RoundStarts(t, x, y) /\ ~RoundStops(t, x, y)
  BY <1>1 DEF RoundClaims, RoundStarts, RoundStops
<1>6. ASSUME RoundBusy(t, x, y) PROVE Good
  <2>1. /\ Busy(j) /\ y.m = [x.m EXCEPT !.job = j] /\ y.ds = x.ds /\ ~y.more
    BY <1>6 DEF RoundBusy
  <2>2. SameButJob(y.m, x.m, j) /\ j # None
    BY <1>1, <2>1, MidBusy
  <2> QED BY <1>1, <1>2, <2>1, <2>2 DEF Answered, SameButJob
<1>7. ASSUME RoundWaits(t, x, y) PROVE Good
  <2>1. /\ ~Busy(j) /\ ~Settled(j) /\ y.m = [x.m EXCEPT !.job = Issue(t, j)] /\ ~y.more
        /\ NothingDue(t, j) => y.ds = x.ds
        /\ ~NothingDue(t, j) => y.ds = Append(x.ds, IssueDecision(t, j))
    BY <1>7 DEF RoundWaits
  <2>2. PICK w : w = Issue(t, j)
    OBVIOUS
  <2>3. /\ SameButJob(y.m, x.m, w) /\ w # None
        /\ Busy(w) <=> ~NothingDue(t, j)
    BY <1>1, <2>1, <2>2, MidWaits
  <2>4. y.m.job # None /\ (Busy(y.m.job) <=> ~NothingDue(t, j))
    BY <2>3 DEF SameButJob
  <2>5. CASE NothingDue(t, j)
    BY <1>1, <1>2, <2>1, <2>4, <2>5 DEF Answered
  <2>6. CASE ~NothingDue(t, j)
    <3>1. PICK q : q = IssueDecision(t, j)
      OBVIOUS
    <3>2. q \in Decisions /\ ForAgent(q) = "issue" /\ y.ds = Append(x.ds, q)
      BY <1>2, <2>1, <2>6, <3>1, IssueTyped, WordIs
    <3>3. Kept(y.ds) = Append(<<>>, "issue")
      <4>1. Kept(y.ds) = Append(Kept(x.ds), "issue")
        BY <1>1, <3>2, KeptTold
      <4> QED BY <1>1, <4>1
    <3>4. <<>> \in Openings(b)
      BY DEF Openings, Opening
    <3> QED BY <1>2, <1>3, <2>1, <2>4, <2>6, <3>3, <3>4 DEF Answered
  <2> QED BY <2>5, <2>6
<1>8. ASSUME RoundEnds(t, x, y) PROVE Good
  <2>1. PICK h : h = AddRecord(x.m.handled, j)
    OBVIOUS
  <2>2. PICK q : q = SaveDecision(h, j, NotifyFor(j))
    OBVIOUS
  <2>3. /\ ~Busy(j) /\ y.m.job = None /\ y.ds = Append(x.ds, q) /\ y.more
    BY <1>8, <2>1, <2>2 DEF RoundEnds
  <2>4. h \in Handled
    <3>1. x.m.handled \in Handled
      BY <1>1, MidShape
    <3> QED BY <1>2, <2>1, <3>1, RecordInv
  <2>5. q \in Decisions /\ ForAgent(q) \in {"saved", "notify"}
    BY <1>2, <2>2, <2>4, SaveTyped, WordIs
  <2>6. Kept(y.ds) \in Opening(b)
    <3>1. /\ ForAgent(q) = "saved" => Kept(y.ds) = <<>>
          /\ ForAgent(q) = "notify" => Kept(y.ds) = <<"notify">>
      <4>1. /\ ForAgent(q) = "saved" => Kept(y.ds) = Kept(x.ds)
            /\ ForAgent(q) # "saved" => Kept(y.ds) = Append(Kept(x.ds), ForAgent(q))
        BY <1>1, <2>3, <2>5, KeptAppend
      <4>2. Append(<<>>, "notify") = <<"notify">>
        OBVIOUS
      <4> QED BY <1>1, <4>1, <4>2
    <3> QED BY <1>1, <2>5, <3>1 DEF Opening
  <2> QED BY <1>2, <2>3, <2>6 DEF Afresh
<1> QED BY <1>4, <1>5, <1>6, <1>7, <1>8

LEMMA AfreshOn ==
  ASSUME NEW t \in Nat \ {0}, NEW b, NEW x \in Loops, MidInv(x.m, t), x.m.latest = b.latest,
         x.more, Afresh(t, b, x), NEW y, y = Round(t, x)
  PROVE  /\ y.more => Afresh(t, b, y)
         /\ ~y.more => Answered(b, y)
<1> DEFINE j == Advanced(t, x.m)
           Good == /\ y.more => Afresh(t, b, y)
                   /\ ~y.more => Answered(b, y)
<1>1. /\ x.ds \in Seq(Decisions)
      /\ b.job # None => ~Busy(b.job)
      /\ Kept(x.ds) \in Opening(b) \/ (Kept(x.ds) \in Openings(b) /\ ~ClaimDue(x.m, t))
      /\ x.m.job # None => FreshOwner(x.m, x.m.job) \/ FreshGive(x.m, t, x.m.job)
      /\ Kept(x.ds) \in Openings(b)
  BY DEF Afresh, Loops, Openings
<1>2. \/ RoundBusy(t, x, y) \/ RoundWaits(t, x, y) \/ RoundEnds(t, x, y)
      \/ RoundClaims(t, x, y) \/ RoundStarts(t, x, y) \/ RoundStops(t, x, y)
  BY RoundMid
<1>3. ASSUME x.m.job # None
      PROVE  j = x.m.job /\ ~Busy(j) /\ AllPending(j) /\ j \in Jobs /\ x.m.latest # None
  BY <1>1, <1>3, FreshAdvanced, AdvancedInv
<1>4. ~RoundBusy(t, x, y)
  BY <1>3 DEF RoundBusy
<1>5. ASSUME RoundWaits(t, x, y) PROVE Good
  <2>1. /\ x.m.job # None /\ ~Busy(j) /\ ~Settled(j)
        /\ y.m = [x.m EXCEPT !.job = Issue(t, j)] /\ ~y.more
        /\ ~NothingDue(t, j) => y.ds = Append(x.ds, IssueDecision(t, j))
    BY <1>5 DEF RoundWaits
  <2>2. PICK w : w = Issue(t, j)
    OBVIOUS
  <2>3. ~NothingDue(t, j)
    BY <1>3, <2>1, FreshDue
  <2>4. SameButJob(y.m, x.m, w) /\ w # None /\ Busy(w)
    <3>1. /\ SameButJob(y.m, x.m, w) /\ w # None
          /\ Busy(w) <=> ~NothingDue(t, j)
      BY <2>1, <2>2, MidWaits
    <3> QED BY <2>3, <3>1
  <2>5. PICK q : q = IssueDecision(t, j)
    OBVIOUS
  <2>6. q \in Decisions /\ ForAgent(q) = "issue" /\ y.ds = Append(x.ds, q)
    BY <1>3, <2>1, <2>3, <2>5, IssueTyped, WordIs
  <2>7. Kept(y.ds) = Append(Kept(x.ds), "issue")
    <3>1. x.ds \in Seq(Decisions)
      BY <1>1
    <3> QED BY ONLY <2>6, <3>1, KeptTold
  <2>8. y.m.job # None /\ Busy(y.m.job) /\ b.latest # None
    BY <1>3, <2>1, <2>4 DEF SameButJob
  <2> QED BY <1>1, <2>1, <2>7, <2>8 DEF Answered
<1>6. ASSUME RoundEnds(t, x, y) PROVE Good
  <2>1. PICK h : h = AddRecord(x.m.handled, j)
    OBVIOUS
  <2>2. PICK q : q = SaveDecision(h, j, NotifyFor(j))
    OBVIOUS
  <2>3. /\ x.m.job # None /\ Settled(j) /\ y.m.job = None /\ y.ds = Append(x.ds, q) /\ y.more
        /\ y.m.lastAttach = x.m.lastAttach /\ y.m.claimedAttach = x.m.claimedAttach
    BY <1>6, <2>1, <2>2 DEF RoundEnds
  <2>4. h \in Handled
    <3>1. x.m.handled \in Handled
      BY <2>3, MidShape
    <3> QED BY <1>3, <2>1, <2>3, <3>1, RecordInv
  <2>5. NotifyFor(j) = {}
    BY <1>3, <2>3, FreshSettled
  <2>6. q \in Decisions /\ ForAgent(q) = "saved"
    BY <1>3, <2>2, <2>3, <2>4, <2>5, SaveTyped, WordIs
  <2>7. Kept(y.ds) = Kept(x.ds)
    BY <1>1, <2>3, <2>6, KeptAppend
  <2>8. ClaimDue(y.m, t) <=> ClaimDue(x.m, t)
    BY <2>3 DEF ClaimDue, ClaimAt
  <2> QED BY <1>1, <2>3, <2>7, <2>8 DEF Afresh
<1>7. ASSUME RoundClaims(t, x, y) PROVE Good
  <2>1. /\ x.m.job = None /\ ClaimDue(x.m, t) /\ y.m = [x.m EXCEPT !.claimedAttach = x.m.lastAttach]
        /\ y.ds = Append(x.ds, ClaimDecision) /\ y.more
    BY <1>7 DEF RoundClaims
  <2>2. y.m.job = None /\ ~ClaimDue(y.m, t)
    BY <2>1, MidClaims
  <2>3. PICK q : q = ClaimDecision
    OBVIOUS
  <2>4. q \in Decisions /\ ForAgent(q) = "claim" /\ y.ds = Append(x.ds, q)
    BY <2>1, <2>3, WordIs DEF ClaimDecision, Decisions
  <2>5. Kept(y.ds) = Append(Kept(x.ds), "claim") /\ Kept(x.ds) \in Opening(b)
    <3>1. Kept(y.ds) = Append(Kept(x.ds), "claim")
      <4>1. x.ds \in Seq(Decisions)
        BY <1>1
      <4> QED BY ONLY <2>4, <4>1, KeptTold
    <3> QED BY <1>1, <2>1, <3>1
  <2>6. Kept(y.ds) \in Openings(b)
    BY <2>5 DEF Openings
  <2> QED BY <1>1, <2>1, <2>2, <2>6 DEF Afresh
<1>8. ASSUME RoundStarts(t, x, y) PROVE Good
  <2>1. /\ x.m.job = None /\ NextJob(t, x.m) # None
        /\ y.m = [x.m EXCEPT !.job = NextJob(t, x.m)] /\ y.ds = x.ds /\ y.more
    BY <1>8 DEF RoundStarts
  <2>2. PICK w : w = NextJob(t, x.m)
    OBVIOUS
  <2>3. /\ SameButJob(y.m, x.m, w)
        /\ FreshOwner(x.m, w) \/ FreshGive(x.m, t, w)
    BY <2>1, <2>2, MidStarts
  <2>4. FreshOwner(y.m, y.m.job) \/ FreshGive(y.m, t, y.m.job)
    <3>1. CASE FreshOwner(x.m, w)
      BY <2>3, <3>1 DEF SameButJob, FreshOwner
    <3>2. CASE FreshGive(x.m, t, w)
      <4>1. GiveAwayJob(y.m, t) = GiveAwayJob(x.m, t)
        BY <2>3 DEF SameButJob, GiveAwayJob, WithVerdict
      <4> QED BY <2>3, <3>2, <4>1 DEF SameButJob, FreshGive
    <3> QED BY <2>3, <3>1, <3>2
  <2>5. ClaimDue(y.m, t) <=> ClaimDue(x.m, t)
    BY <2>3 DEF SameButJob, ClaimDue, ClaimAt
  <2> QED BY <1>1, <2>1, <2>4, <2>5 DEF Afresh
<1>9. ASSUME RoundStops(t, x, y) PROVE Good
  <2>1. x.m.job = None /\ y.m = x.m /\ y.ds = x.ds /\ ~y.more
    BY <1>9 DEF RoundStops
  <2> QED BY <1>1, <2>1 DEF Answered
<1> QED BY <1>2, <1>4, <1>5, <1>6, <1>7, <1>8, <1>9

LEMMA StagedOn ==
  ASSUME NEW t \in Nat \ {0}, NEW b, NEW x \in Staged(t, b), NEW y, y = Round(t, x)
  PROVE  y \in Staged(t, b)
<1>1. /\ x \in Loops /\ MidInv(x.m, t) /\ x.m.latest = b.latest
      /\ x.more => Untouched(b, x) \/ Afresh(t, b, x)
      /\ ~x.more => Answered(b, x)
  BY DEF Staged
<1>2. CASE ~x.more
  BY <1>2, RoundOver
<1>3. CASE x.more
  <2>1. y \in Loops /\ MidInv(y.m, t) /\ y.m.latest = b.latest
    BY <1>1, <1>3, RoundMid
  <2>2. /\ y.more => Afresh(t, b, y)
        /\ ~y.more => Answered(b, y)
    BY <1>1, <1>3, UntouchedOn, AfreshOn
  <2> QED BY <2>1, <2>2 DEF Staged
<1> QED BY <1>2, <1>3

\* What a call hands the agent, from where it began.
LEMMA CallAnswers ==
  ASSUME NEW t \in Nat \ {0}, NEW b, MidInv(b, t), NEW d \in Seq(Decisions), Kept(d) = <<>>,
         NEW z, z = AdvanceTime(t, b, d)
  PROVE  z.m.latest = b.latest /\ Answered(b, z)
<1> DEFINE x0 == [m |-> b, ds |-> d, more |-> TRUE]
<1>1. x0 \in Staged(t, b)
  <2>1. x0 \in Loops /\ x0.m = b /\ x0.ds = d /\ x0.more
    BY DEF Loops, MidInv
  <2> HIDE DEF x0
  <2>2. CASE b.job # None
    BY <2>1, <2>2 DEF Staged, Untouched
  <2>3. CASE b.job = None
    <3>1. Kept(x0.ds) \in Opening(b)
      BY <2>1 DEF Opening
    <3>2. Afresh(t, b, x0)
      BY <2>1, <2>3, <3>1 DEF Afresh
    <3> QED BY <2>1, <3>2 DEF Staged
  <2> QED BY <2>2, <2>3
<1>2. \A x \in Staged(t, b) : Round(t, x) \in Staged(t, b)
  BY StagedOn
<1>3. z \in Staged(t, b)
  BY <1>1, <1>2, LoopKeeps
<1>4. ~z.more
  BY CallEnds
<1> QED BY <1>3, <1>4 DEF Staged

\* How the contract names what a call hands over.
LEMMA FreshHas ==
  ASSUME NEW n \in {<<>>, <<"notify">>}, NEW w \in {n, Append(n, "claim")}
  PROVE  /\ Contract!Outcome("idle", w) \in Contract!Fresh(n)
         /\ Contract!Outcome("issued", Append(w, "issue")) \in Contract!Fresh(n)
<1>1. PICK c \in {<<>>, <<"claim">>} : w = n \o c
  <2>1. n = n \o <<>> /\ Append(n, "claim") = n \o <<"claim">>
    OBVIOUS
  <2> QED BY <2>1
<1>2. w \in Seq(Words) /\ Append(w, "issue") = w \o <<"issue">>
  <2>1. /\ "issue" \in Words /\ "claim" \in Words /\ "notify" \in Words
    BY DEF Words
  <2>2. n \in Seq(Words)
    <3>1. <<>> \in Seq(Words)
      OBVIOUS
    <3>2. <<"notify">> \in Seq(Words)
      BY <2>1
    <3> QED BY <3>1, <3>2
  <2>3. w \in Seq(Words)
    BY <2>1, <2>2, AppendProperties
  <2> QED BY <2>1, <2>3, AppendIsConcat
<1>3. c \in Contract!Optional("claim")
  BY <1>1 DEF Contract!Optional
<1>4. Contract!Outcome("idle", w) \in Contract!Fresh(n)
  BY <1>1, <1>3 DEF Contract!Fresh
<1>5. Contract!Outcome("issued", Append(w, "issue")) \in Contract!Fresh(n)
  <2>1. Append(w, "issue") = n \o c \o <<"issue">>
    BY <1>1, <1>2
  <2>2. Contract!Outcome("issued", n \o c \o <<"issue">>) \in Contract!Fresh(n)
    BY ONLY <1>3 DEF Contract!Fresh
  <2> QED BY ONLY <2>1, <2>2
<1> QED BY <1>4, <1>5

LEMMA BlankHas ==
  ASSUME NEW w \in {<<>>, Append(<<>>, "claim")}
  PROVE  Contract!Outcome("blank", w) \in Contract!Blank
<1>1. Append(<<>>, "claim") = <<"claim">>
  OBVIOUS
<1> QED BY <1>1 DEF Contract!Blank, Contract!Optional

LEMMA OpeningsAre ==
  ASSUME NEW b, NEW w \in Openings(b)
  PROVE  \E n \in {<<>>, <<"notify">>} : /\ w \in {n, Append(n, "claim")}
                                         /\ b.job = None => n = <<>>
BY DEF Openings, Opening

\* The outcome of a call that began at the decider b, for a call that observed
\* o in the phase p.
LEMMA AnswerFits ==
  ASSUME NEW t, NEW b, NEW z, MidInv(b, t), MidInv(z.m, t), z.m.latest = b.latest,
         Answered(b, z), NEW p, NEW o,
         p = "blank" => b.job = None /\ (b.latest # None => o = "state"),
         p # "blank" => b.latest # None,
         p = "idle" => b.job = None,
         p = "issued" /\ o # "report" => b.job # None /\ Busy(b.job),
         b.job # None /\ Busy(b.job) => p = "issued" /\ o # "report",
         p \in {"blank", "idle", "issued", "waiting"}
  PROVE  \E q : /\ Contract!Outcome(q, Kept(z.ds)) \in Contract!Outcomes(p, o)
                /\ z.m.latest = None => q = "blank"
                /\ z.m.latest # None /\ z.m.job = None => q = "idle"
                /\ z.m.latest # None /\ z.m.job # None /\ Busy(z.m.job) => q = "issued"
                /\ z.m.latest # None /\ z.m.job # None /\ ~Busy(z.m.job) => q = "waiting"
<1> DEFINE k == Kept(z.ds)
           Good(q) == /\ Contract!Outcome(q, k) \in Contract!Outcomes(p, o)
                      /\ z.m.latest = None => q = "blank"
                      /\ z.m.latest # None /\ z.m.job = None => q = "idle"
                      /\ z.m.latest # None /\ z.m.job # None /\ Busy(z.m.job) => q = "issued"
                      /\ z.m.latest # None /\ z.m.job # None /\ ~Busy(z.m.job) => q = "waiting"
<1>1. /\ b.job # None => b.latest # None
      /\ z.m.job # None => z.m.latest # None
  BY DEF MidInv
<1>2. ASSUME NEW w, w \in Openings(b), ~(p = "issued" /\ o # "report"), b.latest # None
      PROVE  /\ Contract!Outcome("idle", w) \in Contract!Outcomes(p, o)
             /\ Contract!Outcome("issued", Append(w, "issue")) \in Contract!Outcomes(p, o)
  <2>1. PICK n \in {<<>>, <<"notify">>} : /\ w \in {n, Append(n, "claim")}
                                          /\ b.job = None => n = <<>>
    BY <1>2, OpeningsAre
  <2>2. /\ Contract!Outcome("idle", w) \in Contract!Fresh(n)
        /\ Contract!Outcome("issued", Append(w, "issue")) \in Contract!Fresh(n)
    BY <2>1, FreshHas
  <2>3. Contract!Fresh(n) \subseteq Contract!Outcomes(p, o)
    <3>1. CASE p = "blank" \/ p = "idle"
      <4>1. n = <<>> /\ (p = "blank" => o = "state")
        BY <1>2, <2>1, <3>1
      <4> QED BY <3>1, <4>1 DEF Contract!Outcomes
    <3>2. CASE p = "issued" \/ p = "waiting"
      <4>1. Contract!Outcomes(p, o) = Contract!Ongoing
        BY <1>2, <3>2 DEF Contract!Outcomes
      <4>2. n \in Contract!Optional("notify")
        BY DEF Contract!Optional
      <4>3. Contract!Fresh(n) \subseteq Contract!Ongoing
        BY <4>2 DEF Contract!Ongoing
      <4> QED BY <4>1, <4>3
    <3> QED BY <3>1, <3>2
  <2> QED BY <2>2, <2>3
<1>3. CASE b.latest = None
  <2>1. p = "blank" /\ b.job = None /\ z.m.job = None /\ z.m.latest = None
    BY <1>1, <1>3
  <2>2. k \in Openings(b)
    BY <2>1 DEF Answered
  <2>3. k \in {<<>>, Append(<<>>, "claim")}
    BY <2>1, <2>2, OpeningsAre
  <2>4. Contract!Outcome("blank", k) \in Contract!Blank
    BY <2>3, BlankHas
  <2>5. Contract!Outcome("blank", k) \in Contract!Outcomes(p, o)
    BY <2>1, <2>4 DEF Contract!Outcomes
  <2> QED BY <2>1, <2>5
<1>4. CASE b.latest # None
  <2>1. ASSUME z.m.job = None, k \in Openings(b), b.job # None => ~Busy(b.job)
        PROVE  Good("idle")
    BY <1>2, <1>4, <2>1
  <2>2. ASSUME z.m.job # None, Busy(z.m.job), b.job # None => ~Busy(b.job),
               NEW w \in Openings(b), k = Append(w, "issue")
        PROVE  Good("issued")
    BY <1>2, <1>4, <2>2
  <2>3. ASSUME b.job # None, z.m.job # None, k = <<>>, Busy(z.m.job) <=> Busy(b.job)
        PROVE  Good("issued") \/ Good("waiting")
    <3>1. p \in {"issued", "waiting"} /\ z.m.latest # None
      BY <1>4, <2>3
    <3>2. ASSUME Busy(b.job) PROVE Good("issued")
      <4>1. p = "issued" /\ o # "report"
        BY <2>3, <3>2
      <4>2. Contract!Outcomes(p, o) = {Contract!Outcome("issued", <<>>)}
        BY <4>1 DEF Contract!Outcomes
      <4> QED BY <2>3, <3>1, <3>2, <4>2
    <3>3. ASSUME ~Busy(b.job) PROVE Good("waiting")
      <4>1. ~(p = "issued" /\ o # "report")
        BY <3>3
      <4>2. Contract!Outcomes(p, o) = Contract!Ongoing
        BY <3>1, <4>1 DEF Contract!Outcomes
      <4>3. Contract!Outcome("waiting", <<>>) \in Contract!Ongoing
        BY DEF Contract!Ongoing
      <4> QED BY <2>3, <3>1, <3>3, <4>2, <4>3
    <3> QED BY <3>2, <3>3
  <2> QED BY <2>1, <2>2, <2>3 DEF Answered
<1> QED BY <1>3, <1>4

LEMMA PhaseIs ==
  /\ m.latest = None => Phase = "blank"
  /\ m.latest # None /\ m.job = None => Phase = "idle"
  /\ m.latest # None /\ m.job # None /\ Busy(m.job) => Phase = "issued"
  /\ m.latest # None /\ m.job # None /\ ~Busy(m.job) => Phase = "waiting"
BY DEF Phase

\* What the decider an observation leaves tells of the phase it came in.
LEMMA ObservedPhase ==
  ASSUME DeciderInv, NEW o, NEW b, NEW d, Observed(o, b, d)
  PROVE  /\ o \in Contract!Observations
         /\ o = "report" => Phase = "issued"
         /\ Phase = "blank" => b.job = None /\ (b.latest # None => o = "state")
         /\ Phase # "blank" => b.latest # None
         /\ Phase = "idle" => b.job = None
         /\ Phase = "issued" /\ o # "report" => b.job # None /\ Busy(b.job)
         /\ b.job # None /\ Busy(b.job) => Phase = "issued" /\ o # "report"
<1> DEFINE Good(w) ==
             /\ w = "report" => Phase = "issued"
             /\ Phase = "blank" => b.job = None /\ (b.latest # None => w = "state")
             /\ Phase # "blank" => b.latest # None
             /\ Phase = "idle" => b.job = None
             /\ Phase = "issued" /\ w # "report" => b.job # None /\ Busy(b.job)
             /\ b.job # None /\ Busy(b.job) => Phase = "issued" /\ w # "report"
<1>1. /\ CallInv(m, now) /\ MidInv(m, now) /\ now \in Nat
      /\ m.job # None => m.latest # None
      /\ m.handled = None => m.latest = None
  BY InvNow DEF MidInv
<1>2. /\ m.latest = None => Phase = "blank" /\ m.job = None
      /\ m.latest # None /\ m.job = None => Phase = "idle"
      /\ m.latest # None /\ m.job # None /\ Busy(m.job) => Phase = "issued"
      /\ m.latest # None /\ m.job # None /\ ~Busy(m.job) => Phase = "waiting"
  BY <1>1, PhaseIs
<1> HIDE DEF Good
<1>3. ASSUME b.job = m.job, NEW w, w # "report",
             b.latest = m.latest \/ (w = "state" /\ (m.latest # None => b.latest # None))
      PROVE  Good(w)
  BY <1>1, <1>2, <1>3 DEF Good
<1>4. ASSUME m.job # None, Busy(m.job), b.job # None, ~Busy(b.job), b.latest = m.latest
      PROVE  Good("report")
  BY <1>1, <1>2, <1>4 DEF Good
<1>5. ASSUME NEW s \in ServerStates, b = HandleState(m, s) PROVE Good("state")
  <2>1. /\ b.job = m.job
        /\ m.handled = None => b.latest = None
        /\ m.handled # None => b.latest = s
    BY <1>1, <1>5, StateSeen
  <2>2. s # None
    BY StatesAssumption
  <2> QED BY <1>1, <1>3, <2>1, <2>2
<1>6. ASSUME b = HandleAttach(m, now) PROVE Good("other")
  BY <1>1, <1>3, <1>6, AttachSeen
<1>7. ASSUME IssuedCommands # {}, NEW results \in CommandResults, b = HandleRan(m, results)
      PROVE  Good("report")
  <2> DEFINE j == ReportRun(m.job, results)
  <2>1. /\ m.job # None
        /\ \E i \in DOMAIN m.job.commands : m.job.commands[i].status = "issued"
    BY <1>7 DEF IssuedCommands
  <2>2. b = [m EXCEPT !.job = j]
    BY <1>7, <2>1 DEF HandleRan
  <2>3. JobInv(m.job, m.handled, now) /\ NothingPending(m.job)
    BY <1>1, <2>1 DEF CallInv, MidInv
  <2>4. /\ JobInv(j, m.handled, now) /\ NothingPending(j) /\ j.ownership = m.job.ownership
        /\ \A i \in DOMAIN j.commands : j.commands[i].status # "issued"
        /\ j.assignments = m.job.assignments
    BY <1>1, <2>3, ReportRunInv
  <2>5. SameButJob(b, m, j) /\ j # None
    BY <1>1, <2>1, <2>2, ReportSeen
  <2> HIDE DEF j
  <2>6. DOMAIN m.job.assignments = {}
    BY <2>1, <2>3 DEF JobInv
  <2>7. ~Busy(j) /\ Busy(m.job)
    BY <2>1, <2>4, <2>6, BusyIs
  <2> QED BY <1>4, <2>1, <2>5, <2>7 DEF SameButJob
<1>8. ASSUME IssuedKeys # {}, NEW results \in GiveAwayResults,
             b = HandleGaveAway(m, now, results)
      PROVE  Good("report")
  <2> DEFINE j == ReportGiveAway(now, m.job, results)
  <2>1. /\ m.job # None
        /\ \E k \in DOMAIN m.job.assignments : m.job.assignments[k].status = "issued"
    BY <1>8 DEF IssuedKeys
  <2>2. b = [m EXCEPT !.job = j]
    BY <1>8, <2>1 DEF HandleGaveAway
  <2>3. JobInv(m.job, m.handled, now) /\ NothingPending(m.job)
    BY <1>1, <2>1 DEF CallInv, MidInv
  <2>35. \A k \in DOMAIN results : results[k] \in Outcomes3
    BY <1>8 DEF GiveAwayResults, Outcomes3
  <2>4. /\ JobInv(j, m.handled, now) /\ NothingPending(j) /\ j.ownership = m.job.ownership
        /\ \A k \in DOMAIN j.assignments : j.assignments[k].status # "issued"
        /\ j.commands = m.job.commands
    BY <1>1, <2>3, <2>35, ReportGiveAwayInv
  <2>5. SameButJob(b, m, j) /\ j # None
    BY <1>1, <2>1, <2>2, <2>35, ReportSeen
  <2> HIDE DEF j
  <2>6. DOMAIN m.job.commands = {}
    BY <2>1, <2>3 DEF JobInv
  <2>7. ~Busy(j) /\ Busy(m.job)
    BY <2>1, <2>4, <2>6, BusyIs
  <2> QED BY <1>4, <2>1, <2>5, <2>7 DEF SameButJob
<1>9. ASSUME b = m PROVE Good("other")
  BY <1>3, <1>9
<1>10. o \in Contract!Observations /\ Good(o)
  BY <1>5, <1>6, <1>7, <1>8, <1>9 DEF Observed, Contract!Observations
<1> QED BY <1>10 DEF Good

LEMMA CallContract ==
  ASSUME DeciderInv, NEW o, NEW b, NEW d, Observed(o, b, d), Decide(o, b, d)
  PROVE  Contract!Next
<1>1. /\ MidInv(b, now) /\ d \in Seq(Decisions)
      /\ m.handled # None => d = <<>>
      /\ now \in Nat \ {0}
  BY ObservedInv, InvNow
<1>2. Kept(d) = <<>>
  <2>1. CASE d = <<>>
    BY <2>1, KeptNone
  <2>2. CASE d # <<>>
    <3>1. PICK s \in ServerStates : d = <<SaveDecision(Adopted(s), None, {})>>
      BY <2>2 DEF Observed
    <3>2. PICK q : q = SaveDecision(Adopted(s), None, {})
      OBVIOUS
    <3>3. d = <<q>> /\ ForAgent(q) = "saved"
      BY <3>1, <3>2, WordIs
    <3>4. q \in Decisions /\ d = Append(<<>>, q) /\ <<>> \in Seq(Decisions)
      BY <1>1, <3>3
    <3>5. Kept(d) = Kept(<<>>)
      BY ONLY <3>3, <3>4, KeptAppend
    <3> QED BY <3>5, KeptNone
  <2> QED BY <2>1, <2>2
<1>3. PICK z : z = AdvanceTime(now, b, d)
  OBVIOUS
<1>4. m' = z.m /\ ds' = z.ds /\ observed' = o
  BY <1>3 DEF Decide
<1>5. MidInv(z.m, now) /\ z.m.latest = b.latest /\ Answered(b, z)
  BY <1>1, <1>2, <1>3, CallEnds, CallAnswers
<1>6. /\ o \in Contract!Observations
      /\ o = "report" => Phase = "issued"
      /\ Phase = "blank" => b.job = None /\ (b.latest # None => o = "state")
      /\ Phase # "blank" => b.latest # None
      /\ Phase = "idle" => b.job = None
      /\ Phase = "issued" /\ o # "report" => b.job # None /\ Busy(b.job)
      /\ b.job # None /\ Busy(b.job) => Phase = "issued" /\ o # "report"
  BY ObservedPhase
<1>7. Phase \in {"blank", "idle", "issued", "waiting"}
  BY PhaseIs
<1>8. PICK q : /\ Contract!Outcome(q, Kept(z.ds)) \in Contract!Outcomes(Phase, o)
               /\ z.m.latest = None => q = "blank"
               /\ z.m.latest # None /\ z.m.job = None => q = "idle"
               /\ z.m.latest # None /\ z.m.job # None /\ Busy(z.m.job) => q = "issued"
               /\ z.m.latest # None /\ z.m.job # None /\ ~Busy(z.m.job) => q = "waiting"
  BY <1>1, <1>5, <1>6, <1>7, AnswerFits
<1>9. Phase' = q
  BY <1>4, <1>8 DEF Phase
<1>10. Batch' = Kept(z.ds)
  BY <1>4 DEF Batch, Kept
<1>11. Contract!Decide(o)
  <2>1. PICK x : x = Contract!Outcome(q, Kept(z.ds))
    OBVIOUS
  <2>2. x.phase = q /\ x.batch = Kept(z.ds)
    BY <2>1 DEF Contract!Outcome
  <2> QED BY <1>4, <1>6, <1>8, <1>9, <1>10, <2>1, <2>2 DEF Contract!Decide
<1> QED BY <1>6, <1>11 DEF Contract!Next

LEMMA ContractStep ==
  ASSUME DeciderInv, [Next]_vars
  PROVE  [Contract!Next]_<<Phase, Batch, observed>>
<1>1. ASSUME NEW o, NEW b, NEW d, Observed(o, b, d), Decide(o, b, d) PROVE Contract!Next
  BY <1>1, CallContract
<1>2. CASE Tick
  <2>1. m' = m /\ ds' = <<>> /\ observed' = "none"
    BY <1>2 DEF Tick
  <2>2. Phase' = Phase /\ Batch' = <<>>
    <3>1. Kept(<<>>) = <<>>
      BY KeptNone
    <3> QED BY <2>1, <3>1 DEF Phase, Batch, Kept
  <2> QED BY <2>1, <2>2 DEF Contract!Next, Contract!Rest
<1>3. CASE Restart
  <2>1. m' = NewDecider(disk) /\ ds' = <<>> /\ observed' = "none"
    BY <1>3 DEF Restart
  <2>2. Phase' = "blank"
    BY <2>1 DEF Phase, NewDecider
  <2>3. Batch' = <<>>
    <3>1. Kept(<<>>) = <<>>
      BY KeptNone
    <3> QED BY <2>1, <3>1 DEF Batch, Kept
  <2> QED BY <2>1, <2>2, <2>3 DEF Contract!Next, Contract!Crash
<1>4. CASE UNCHANGED vars
  BY <1>4 DEF vars, Phase, Batch
<1> QED BY <1>1, <1>2, <1>3, <1>4, StepCases DEF CallStep

LEMMA ContractInit ==
  ASSUME Init
  PROVE  Contract!Init
<1>1. m = NewDecider(None) /\ ds = <<>> /\ observed = "none"
  BY DEF Init
<1>2. Phase = "blank"
  BY <1>1 DEF Phase, NewDecider
<1>3. Batch = <<>>
  <2>1. Kept(<<>>) = <<>>
    BY KeptNone
  <2> QED BY <1>1, <2>1 DEF Batch, Kept
<1> QED BY <1>1, <1>2, <1>3 DEF Contract!Init

\* Every call of the decider decides what its contract allows for what that
\* very call observed, so that the agent's loop and worker may be reasoned
\* about with the contract's Outcomes in its place.  One issue is outstanding
\* at a time; a state, an attach, the timer or a new generation then decides
\* nothing and leaves it outstanding, and only its report ends it; a call
\* notifies of a job before it claims and claims before it issues; and only a
\* state ends the wait for the first one.
THEOREM ContractCorrect == Spec => ImplementsContract
<1>1. Init => DeciderInv /\ Contract!Init
  BY InitInv, ContractInit
<1>2. DeciderInv /\ [Next]_vars => DeciderInv'
  BY StepInv
<1>3. DeciderInv /\ [Next]_vars => [Contract!Next]_<<Phase, Batch, observed>>
  BY ContractStep
<1> QED BY <1>1, <1>2, <1>3, PTL DEF Spec, ImplementsContract, Contract!Spec

-----------------------------------------------------------------------------
(* The adoption.                                                           *)

\* The loop states of a call that has no state to act on.
Stateless(t, b) ==
  {x \in Loops : /\ MidInv(x.m, t) /\ x.m.latest = None /\ x.m.job = None
                 /\ x.m.handled = b.handled /\ Issues(x.ds) = {}}

LEMMA StatelessOn ==
  ASSUME NEW t \in Nat \ {0}, NEW b, NEW x \in Stateless(t, b), NEW y, y = Round(t, x)
  PROVE  y \in Stateless(t, b)
<1>1. /\ x \in Loops /\ MidInv(x.m, t) /\ x.m.latest = None /\ x.m.job = None
      /\ x.m.handled = b.handled /\ Issues(x.ds) = {} /\ x.ds \in Seq(Decisions)
  BY DEF Stateless, Loops
<1>2. CASE ~x.more
  BY <1>2, RoundOver
<1>3. CASE x.more
  <2>1. /\ y \in Loops /\ MidInv(y.m, t) /\ y.m.latest = x.m.latest
        /\ \/ RoundBusy(t, x, y) \/ RoundWaits(t, x, y) \/ RoundEnds(t, x, y)
           \/ RoundClaims(t, x, y) \/ RoundStarts(t, x, y) \/ RoundStops(t, x, y)
    BY <1>1, <1>3, RoundMid
  <2>2. ~RoundBusy(t, x, y) /\ ~RoundWaits(t, x, y) /\ ~RoundEnds(t, x, y)
    BY <1>1 DEF RoundBusy, RoundWaits, RoundEnds
  <2>3. ~RoundStarts(t, x, y)
    BY <1>1 DEF RoundStarts, NextJob
  <2>4. ASSUME RoundClaims(t, x, y)
        PROVE  y.m.job = None /\ y.m.handled = b.handled /\ Issues(y.ds) = {}
    <3>1. /\ y.m = [x.m EXCEPT !.claimedAttach = x.m.lastAttach]
          /\ y.ds = Append(x.ds, ClaimDecision)
      BY <2>4 DEF RoundClaims
    <3>2. y.m.job = None /\ y.m.handled = b.handled
      BY <1>1, <3>1, MidClaims
    <3>3. PICK q : q = ClaimDecision
      OBVIOUS
    <3>4. q.type = "claim" /\ y.ds = Append(x.ds, q)
      BY <3>1, <3>3, DecisionKinds
    <3>5. Issues(y.ds) = {}
      BY <1>1, <3>4 DEF Issues
    <3> QED BY <3>2, <3>5
  <2>5. ASSUME RoundStops(t, x, y)
        PROVE  y.m.job = None /\ y.m.handled = b.handled /\ Issues(y.ds) = {}
    BY <1>1, <2>5 DEF RoundStops
  <2> QED BY <1>1, <2>1, <2>2, <2>3, <2>4, <2>5 DEF Stateless
<1> QED BY <1>2, <1>3

LEMMA StatelessCall ==
  ASSUME NEW t \in Nat \ {0}, NEW b, MidInv(b, t), b.latest = None, b.job = None,
         NEW d \in Seq(Decisions), \A i \in DOMAIN d : d[i].type = "save",
         NEW z, z = AdvanceTime(t, b, d)
  PROVE  z.m.job = None /\ z.m.handled = b.handled /\ Issues(z.ds) = {}
<1> DEFINE x0 == [m |-> b, ds |-> d, more |-> TRUE]
<1>1. x0 \in Stateless(t, b)
  <2>1. x0 \in Loops /\ x0.m = b /\ x0.ds = d
    BY DEF Loops, MidInv
  <2> HIDE DEF x0
  <2>2. Issues(d) = {}
    BY DEF Issues
  <2> QED BY <2>1, <2>2 DEF Stateless
<1>2. \A x \in Stateless(t, b) : Round(t, x) \in Stateless(t, b)
  BY StatelessOn
<1>3. z \in Stateless(t, b)
  BY <1>1, <1>2, LoopKeeps
<1> QED BY <1>3 DEF Stateless

\* The state that was adopted, seen again, asks for nothing.
LEMMA AdoptedIdle ==
  ASSUME NEW t \in Nat \ {0}, NEW d, MidInv(d, t), Stopped(d, t), d.job = None,
         NEW s \in ServerStates, d.handled = Adopted(s), d.handled # None,
         NEW e, e = [d EXCEPT !.latest = s]
  PROVE  AdvanceTime(t, e, <<>>).ds = <<>>
<1>1. /\ d.handled \in Handled \cup {None} /\ d.limiter \in Limiters
      /\ d.lastAttach \in Nat /\ d.claimedAttach \in Nat /\ d \in Deciders
      /\ LimiterFits(d.limiter, t) /\ d.claimedAttach <= d.lastAttach /\ d.lastAttach <= t
  BY MidShape DEF MidInv
<1>2. IsServerState(s) /\ s # None
  BY StateShape
<1>3. e = [handled |-> d.handled, job |-> None, limiter |-> d.limiter, latest |-> s,
           lastAttach |-> d.lastAttach, claimedAttach |-> d.claimedAttach]
  BY <1>1 DEF Deciders
<1>4. MidInv(e, t)
  BY <1>1, <1>3, MidIs
<1>6. /\ e.handled.ownership = [owner |-> s.owner, activation |-> s.activation]
      /\ \A k \in Keys : e.handled.seqs[k] = IF k \in DOMAIN s.assignments
                                             THEN s.assignments[k].seq ELSE 0
      /\ e.latest = s /\ e.job = None /\ e.limiter = d.limiter
      /\ e.lastAttach = d.lastAttach /\ e.claimedAttach = d.claimedAttach
  BY <1>3 DEF Adopted
<1>7. ~Activating(e.handled, s) /\ ~Deactivating(e.handled, s)
  BY <1>6 DEF Activating, Deactivating
<1>8. PendingKeys(e.handled, s) = {}
  BY <1>2, <1>6 DEF PendingKeys, Has, IsServerState
<1>9. NextJob(t, e) = None
  <2>1. WithVerdict(e, t, "giveNow") = {} /\ WithVerdict(e, t, "alreadyArrived") = {}
    BY <1>6, <1>8 DEF WithVerdict
  <2>2. GiveAwayJob(e, t) = None
    BY <2>1 DEF GiveAwayJob
  <2> QED BY <1>6, <1>7, <2>2 DEF NextJob, Reconcile
<1>10. ~ClaimDue(e, t)
  BY <1>6 DEF Stopped, ClaimDue, ClaimAt
<1>11. CallInv(e, t) /\ Stopped(e, t)
  BY <1>4, <1>6, <1>9, <1>10 DEF CallInv, Stopped
<1> QED BY <1>11, StoppedIdle

LEMMA AdoptionStep ==
  ASSUME DeciderInv, Next, m.handled = None, m'.handled # None
  PROVE  /\ Issues(ds') = {} /\ m'.job = None
         /\ \A s \in ServerStates : Adopted(s) = m'.handled =>
              AdvanceTime(now, [m' EXCEPT !.latest = s], <<>>).ds = <<>>
<1>1. now \in Nat \ {0} /\ MidInv(m, now) /\ disk \in Handled \cup {None}
  BY InvNow
<1> DEFINE Good == Issues(ds') = {} /\ m'.job = None /\ MidInv(m', now) /\ Stopped(m', now)
<1>2. ASSUME NEW o, NEW b, NEW d, Observed(o, b, d), Decide(o, b, d) PROVE Good
  <2>1. /\ MidInv(b, now) /\ d \in Seq(Decisions)
        /\ b.handled = m.handled \/ (m.handled = None /\ b.job = None /\ b.latest = None)
        /\ \A i \in DOMAIN d : d[i].type = "save" /\ d[i].job = None /\ d[i].notify = {}
    BY <1>2, ObservedInv
  <2>2. b.job = None /\ b.latest = None
    BY <2>1 DEF MidInv
  <2>3. PICK z : z = AdvanceTime(now, b, d)
    OBVIOUS
  <2>4. m' = z.m /\ ds' = z.ds
    BY <1>2, <2>3 DEF Decide
  <2>5. MidInv(z.m, now) /\ Stopped(z.m, now)
    BY <1>1, <2>1, <2>3, CallEnds
  <2>6. z.m.job = None /\ Issues(z.ds) = {}
    BY <1>1, <2>1, <2>2, <2>3, StatelessCall
  <2> QED BY <2>4, <2>5, <2>6
<1>3. ASSUME Restart PROVE Good
  <2>1. m' = NewDecider(disk) /\ ds' = <<>>
    BY <1>3 DEF Restart
  <2>2. CallInv(m', now) /\ m'.job = None /\ Stopped(m', now)
    BY <1>1, <2>1, NewInv
  <2> QED BY <2>1, <2>2 DEF CallInv, Issues
<1>4. ~Tick
  BY DEF Tick
<1>5. Good
  BY <1>2, <1>3, <1>4, StepCases DEF CallStep
<1>6. ASSUME NEW s \in ServerStates, Adopted(s) = m'.handled
      PROVE  AdvanceTime(now, [m' EXCEPT !.latest = s], <<>>).ds = <<>>
  BY <1>1, <1>5, <1>6, AdoptedIdle
<1> QED BY <1>5, <1>6

\* The first state a host without agent.json sees starts no work, neither in
\* that call nor when the very same state is seen again.
THEOREM AdoptionCorrect == Spec => AdoptionNeverActs
<1>1. Init => DeciderInv
  BY InitInv
<1>2. DeciderInv /\ [Next]_vars => DeciderInv'
  BY StepInv
<1>3. DeciderInv /\ [Next]_vars =>
        [m.handled = None /\ m'.handled # None =>
           /\ Issues(ds') = {} /\ m'.job = None
           /\ \A s \in ServerStates : Adopted(s) = m'.handled =>
                AdvanceTime(now, [m' EXCEPT !.latest = s], <<>>).ds = <<>>]_vars
  BY AdoptionStep
<1> QED BY <1>1, <1>2, <1>3, PTL DEF Spec, AdoptionNeverActs

-----------------------------------------------------------------------------
(* Counting the times of a sequence after T.                               *)

Later(s, T) == Cardinality({i \in DOMAIN s : s[i] > T})

LEMMA LaterShape ==
  ASSUME NEW s \in Seq(Nat), NEW T
  PROVE  /\ IsFiniteSet({i \in DOMAIN s : s[i] > T}) /\ Later(s, T) \in Nat
         /\ Len(s) + 1 \notin {i \in DOMAIN s : s[i] > T}
<1>1. Len(s) \in Nat /\ DOMAIN s = 1..Len(s)
  OBVIOUS
<1>2. IsFiniteSet(1..Len(s))
  BY <1>1, FS_Interval
<1>3. IsFiniteSet({i \in DOMAIN s : s[i] > T})
  <2>1. {i \in DOMAIN s : s[i] > T} \subseteq 1..Len(s)
    BY <1>1
  <2> QED BY <1>2, <2>1, FS_Subset
<1>4. Later(s, T) \in Nat
  BY <1>3, FS_CardinalityType DEF Later
<1> QED BY <1>1, <1>3, <1>4

LEMMA LaterAppend ==
  ASSUME NEW s \in Seq(Nat), NEW a \in Nat, NEW T \in Int, NEW r, r = Append(s, a)
  PROVE  /\ a > T => Later(r, T) = Later(s, T) + 1
         /\ ~(a > T) => Later(r, T) = Later(s, T)
<1> DEFINE S == {i \in DOMAIN s : s[i] > T}
           R == {i \in DOMAIN r : r[i] > T}
<1>1. /\ Len(s) \in Nat /\ DOMAIN s = 1..Len(s) /\ DOMAIN r = 1..(Len(s) + 1)
      /\ r[Len(s) + 1] = a /\ \A i \in 1..Len(s) : r[i] = s[i]
  OBVIOUS
<1>2. IsFiniteSet(S) /\ Len(s) + 1 \notin S
  BY LaterShape
<1>3. ASSUME a > T PROVE Cardinality(R) = Cardinality(S) + 1
  <2>1. R = S \cup {Len(s) + 1}
    BY <1>1, <1>3
  <2> HIDE DEF S, R
  <2> QED BY <1>2, <2>1, FS_AddElement
<1>4. ASSUME ~(a > T) PROVE R = S
  BY <1>1, <1>4
<1> QED BY <1>3, <1>4 DEF Later

LEMMA LaterNone ==
  ASSUME NEW s \in Seq(Nat), NEW T \in Int, \A i \in DOMAIN s : s[i] <= T
  PROVE  Later(s, T) = 0
<1>1. \A i \in DOMAIN s : s[i] \in Nat
  OBVIOUS
<1>2. {i \in DOMAIN s : s[i] > T} = {}
  BY <1>1
<1> QED BY <1>2, FS_EmptySet DEF Later

LEMMA LaterLess ==
  ASSUME NEW s \in Seq(Nat), NEW T \in Int, NEW U \in Int, T <= U
  PROVE  Later(s, U) <= Later(s, T)
<1> DEFINE S == {i \in DOMAIN s : s[i] > T}
           R == {i \in DOMAIN s : s[i] > U}
<1>1. \A i \in DOMAIN s : s[i] \in Nat
  OBVIOUS
<1>2. R \subseteq S
  BY <1>1
<1>3. IsFiniteSet(S)
  BY LaterShape
<1> HIDE DEF S, R
<1>4. Cardinality(R) <= Cardinality(S)
  BY <1>2, <1>3, FS_Subset
<1> QED BY <1>4 DEF Later, S, R

\* Forgetting the times up to old leaves the later ones.
LEMMA AfterLater ==
  ASSUME NEW s \in Seq(Nat), NEW old \in Int, NEW T \in Int, old <= T, NEW r, r = After(s, old)
  PROVE  r \in Seq(Nat) /\ Later(r, T) = Later(s, T)
<1> DEFINE n == Len(s)
           P == {i \in DOMAIN s : s[i] > old}
           C(i) == {h \in 1..i : s[h] > T}
<1>1. n \in Nat /\ DOMAIN s = 1..n /\ \A i \in 1..n : s[i] \in Nat
  OBVIOUS
<1>2. PICK f : Keeps(s, P, n, f) /\ AtPositions(s, P) = f[n]
  BY <1>1, AtPositionsIs
<1> DEFINE U == {i \in 0..n : f[i] \in Seq(Nat) /\ Later(f[i], T) = Cardinality(C(i))}
<1>3. 0 \in U
  <2>1. f[0] = <<>>
    BY <1>1, <1>2 DEF Keeps
  <2>2. <<>> \in Seq(Nat) /\ \A i \in DOMAIN <<>> : <<>>[i] <= T
    OBVIOUS
  <2>3. Later(<<>>, T) = 0
    BY <2>2, LaterNone
  <2>4. C(0) = {}
    OBVIOUS
  <2>5. Cardinality(C(0)) = 0
    BY <2>4, FS_EmptySet
  <2>6. 0 \in 0..n
    BY <1>1
  <2>7. f[0] \in Seq(Nat) /\ Later(f[0], T) = Cardinality(C(0))
    BY <2>1, <2>2, <2>3, <2>5
  <2> HIDE DEF C, n
  <2> QED BY <2>6, <2>7
<1>4. ASSUME NEW i \in 0..n, i # n, i \in U
      PROVE  i + 1 \in U
  <2> HIDE DEF U, C, P, n
  <2>1. /\ i + 1 \in 0..n /\ i + 1 # 0 /\ (i + 1) - 1 = i /\ i + 1 \in 1..n
        /\ s[i + 1] \in Nat
    BY <1>1, <1>4
  <2> USE DEF U, C, P
  <2>2. f[i + 1] = IF i + 1 \in P THEN Append(f[i], s[i + 1]) ELSE f[i]
    BY <1>2, <2>1 DEF Keeps
  <2>3. f[i] \in Seq(Nat) /\ Later(f[i], T) = Cardinality(C(i))
    BY <1>4
  <2>4. i + 1 \in P <=> s[i + 1] > old
    BY <1>1, <2>1
  <2>5. f[i + 1] \in Seq(Nat)
    BY <2>1, <2>2, <2>3, AppendProperties
  <2>6. /\ s[i + 1] > T => Cardinality(C(i + 1)) = Cardinality(C(i)) + 1
        /\ ~(s[i + 1] > T) => C(i + 1) = C(i)
    <3>1. IsFiniteSet(C(i))
      <4>1. IsFiniteSet(1..i) /\ C(i) \subseteq 1..i
        BY <1>4, FS_Interval
      <4> QED BY <4>1, FS_Subset
    <3>2. i + 1 \notin C(i)
      BY <2>1
    <3>3. s[i + 1] > T => C(i + 1) = C(i) \cup {i + 1}
      BY <2>1
    <3>4. ~(s[i + 1] > T) => C(i + 1) = C(i)
      BY <2>1
    <3> HIDE DEF C
    <3>5. Cardinality(C(i) \cup {i + 1}) = Cardinality(C(i)) + 1
      BY <3>1, <3>2, FS_AddElement
    <3> QED BY <3>3, <3>4, <3>5
  <2> HIDE DEF C, P
  <2>7. Later(f[i + 1], T) = Cardinality(C(i + 1))
    <3>1. CASE s[i + 1] > T
      <4>1. f[i + 1] = Append(f[i], s[i + 1])
        BY <2>1, <2>2, <2>4, <3>1
      <4>2. Later(f[i + 1], T) = Later(f[i], T) + 1
        BY <2>1, <2>3, <3>1, <4>1, LaterAppend
      <4> QED BY <2>3, <2>6, <3>1, <4>2
    <3>2. CASE ~(s[i + 1] > T)
      <4>1. Later(Append(f[i], s[i + 1]), T) = Later(f[i], T)
        BY <2>1, <2>3, <3>2, LaterAppend
      <4> QED BY <2>2, <2>3, <2>6, <3>2, <4>1
    <3> QED BY <3>1, <3>2
  <2> QED BY <2>1, <2>5, <2>7
<1> HIDE DEF U
<1>5. 0..n \subseteq U
  BY <1>1, <1>3, <1>4, UpTo
<1>6. n \in U
  BY <1>1, <1>5
<1>7. f[n] \in Seq(Nat) /\ Later(f[n], T) = Cardinality(C(n))
  BY <1>6 DEF U
<1>8. Cardinality(C(n)) = Later(s, T)
  BY <1>1 DEF Later
<1>9. r = f[n]
  BY <1>2 DEF After
<1> QED BY <1>7, <1>8, <1>9

LEMMA AfterLen ==
  ASSUME NEW s \in Seq(Nat), NEW T \in Int, NEW r, r = After(s, T)
  PROVE  Len(r) = Later(s, T)
<1> DEFINE G == {x \in Nat : x > T}
<1>1. r \in Seq(G)
  <2> DEFINE P == {i \in DOMAIN s : s[i] > T}
  <2>1. Len(s) \in Nat /\ \A i \in 1..Len(s) : i \in P => s[i] \in G
    OBVIOUS
  <2>2. r = AtPositions(s, P)
    BY DEF After
  <2> HIDE DEF P, G
  <2> QED BY <2>1, <2>2, AtPositionsIn
<1>2. Len(r) \in Nat /\ DOMAIN r = 1..Len(r) /\ \A i \in 1..Len(r) : r[i] > T
  BY <1>1
<1>3. {i \in DOMAIN r : r[i] > T} = 1..Len(r)
  BY <1>2
<1>4. Later(r, T) = Len(r)
  <2> DEFINE R == {i \in DOMAIN r : r[i] > T}
  <2>1. Cardinality(1..Len(r)) = Len(r)
    <3>1. ASSUME NEW l \in Nat PROVE Cardinality(1..l) = l
      <4>1. Cardinality(1..l) = IF 1 > l THEN 0 ELSE (l - 1) + 1
        BY ONLY FS_Interval, 1 \in Int, l \in Int
      <4> QED BY ONLY <4>1, l \in Nat
    <3> QED BY <1>2, <3>1
  <2>2. Later(r, T) = Cardinality(R)
    BY DEF Later
  <2>3. R = 1..Len(r)
    BY <1>3
  <2> HIDE DEF R
  <2> QED BY <2>1, <2>2, <2>3
<1>5. Later(r, T) = Later(s, T)
  BY AfterLater
<1> QED BY <1>4, <1>5

-----------------------------------------------------------------------------
(* The rate limiter bounds the moves of a name.                            *)

Window == IF BreakerWindow <= BreakerPause THEN BreakerWindow ELSE BreakerPause

\* The breaker lets jobs through at t.
Clear(l, t) == l.trippedAt = 0 \/ t >= l.trippedAt + BreakerPause

\* The moves mv of a name, by the limiter's memory rec of them and the time
\* the breaker tripped: the limiter counts at least as many, they are at most
\* BreakerMax in a window, and BreakerMax only once the breaker tripped.
Bounded(mv, rec, trip, t) ==
  /\ mv \in Seq(Nat) /\ \A i \in DOMAIN mv : mv[i] <= t
  /\ \A T \in Int : T >= t - BreakerWindow => Later(mv, T) <= Later(rec, T)
  /\ Later(mv, t - Window) <= BreakerMax
  /\ \/ Later(mv, t - Window) < BreakerMax
     \/ trip # 0 /\ \A i \in DOMAIN mv : mv[i] <= trip

LEMMA WindowIs == Window \in Nat /\ Window <= BreakerWindow /\ Window <= BreakerPause
BY LimitsAssumption DEF Window

\* Time alone only lets moves out of the window.
LEMMA BoundedLater ==
  ASSUME NEW mv, NEW rec, NEW trip, NEW t \in Nat, Bounded(mv, rec, trip, t),
         NEW u \in Nat, t <= u
  PROVE  Bounded(mv, rec, trip, u)
<1>1. /\ mv \in Seq(Nat) /\ \A i \in DOMAIN mv : mv[i] <= t
      /\ \A T \in Int : T >= t - BreakerWindow => Later(mv, T) <= Later(rec, T)
      /\ Later(mv, t - Window) <= BreakerMax
      /\ \/ Later(mv, t - Window) < BreakerMax
         \/ trip # 0 /\ \A i \in DOMAIN mv : mv[i] <= trip
  BY DEF Bounded
<1>2. BreakerWindow \in Nat /\ BreakerMax \in Nat
  BY LimitsAssumption
<1>3. PICK a \in Int : a = t - Window
  BY WindowIs
<1>4. PICK c \in Int : c = u - Window
  BY WindowIs
<1>5. a <= c
  BY <1>3, <1>4, WindowIs
<1>6. Later(mv, c) <= Later(mv, a) /\ Later(mv, a) \in Nat /\ Later(mv, c) \in Nat
  BY <1>1, <1>5, LaterLess, LaterShape
<1>7. \A i \in DOMAIN mv : mv[i] <= u
  <2>1. \A i \in DOMAIN mv : mv[i] \in Nat
    BY <1>1
  <2> QED BY <1>1, <2>1
<1>8. \A T \in Int : T >= u - BreakerWindow => T >= t - BreakerWindow
  BY <1>2
<1>9. Later(mv, c) <= BreakerMax /\ (Later(mv, a) < BreakerMax => Later(mv, c) < BreakerMax)
  BY <1>1, <1>2, <1>3, <1>6
<1> QED BY <1>1, <1>3, <1>4, <1>7, <1>8, <1>9 DEF Bounded

\* What the limiter remembers once it counted: tried or not, no move in the
\* window is forgotten.
LEMMA CountKeeps ==
  ASSUME NEW l \in Limiters, NEW t \in Nat \ {0}, NEW tried, NEW w, w = Count(l, t, tried),
         NEW k \in Keys, NEW T \in Int, T >= t - BreakerWindow
  PROVE  /\ Later(l.recent[k], T) \in Nat
         /\ k \notin tried => w.recent[k] = l.recent[k]
         /\ k \in tried => /\ t > T => Later(w.recent[k], T) = Later(l.recent[k], T) + 1
                           /\ ~(t > T) => Later(w.recent[k], T) = Later(l.recent[k], T)
<1> DEFINE old == t - Larger(BreakerWindow, Cooldown)
           r == l.recent[k]
           a == After(r, old)
<1>1. old \in Int /\ old <= T
  BY LimitsAssumption DEF Larger
<1>2. r \in Seq(Nat)
  BY DEF Limiters
<1>3. w.recent[k] = IF k \in tried THEN Append(a, t) ELSE r
  BY DEF Count
<1> HIDE DEF old, a, r
<1>4. a \in Seq(Nat) /\ Later(a, T) = Later(r, T)
  BY <1>1, <1>2, AfterLater DEF a
<1>5. PICK z : z = Append(a, t)
  OBVIOUS
<1>6. (t > T => Later(z, T) = Later(a, T) + 1) /\ (~(t > T) => Later(z, T) = Later(a, T))
  BY <1>4, <1>5, LaterAppend
<1>7. Later(r, T) \in Nat
  BY <1>2, LaterShape
<1> QED BY <1>3, <1>4, <1>5, <1>6, <1>7 DEF r

\* The breaker trips on the count of a name.
LEMMA CountTrips ==
  ASSUME NEW l \in Limiters, NEW t \in Nat \ {0}, NEW tried, NEW w, w = Count(l, t, tried)
  PROVE  /\ w.trippedAt = t \/ w.trippedAt = l.trippedAt
         /\ \A k \in tried \cap Keys :
              1 + Later(l.recent[k], t - BreakerWindow) >= BreakerMax => w.trippedAt = t
<1>1. w.trippedAt = IF \E k \in tried : InWindow(l, t, k) >= BreakerMax THEN t ELSE l.trippedAt
  BY DEF Count
<1>2. ASSUME NEW k \in tried \cap Keys
      PROVE  InWindow(l, t, k) = 1 + Later(l.recent[k], t - BreakerWindow)
  <2>1. PICK T \in Int : T = t - BreakerWindow
    BY LimitsAssumption
  <2>2. PICK s \in Seq(Nat) : s = l.recent[k]
    BY DEF Limiters
  <2>3. PICK r : r = After(s, T)
    OBVIOUS
  <2>4. Len(r) = Later(s, T)
    BY <2>3, AfterLen
  <2> QED BY <2>1, <2>2, <2>3, <2>4 DEF InWindow
<1> QED BY <1>1, <1>2

\* A name the job moved, counted with it.
LEMMA BoundedMoved ==
  ASSUME NEW l \in Limiters, NEW t \in Nat \ {0}, NEW tried, NEW w, w = Count(l, t, tried),
         NEW k \in tried \cap Keys, Clear(l, t),
         NEW mv, Bounded(mv, l.recent[k], l.trippedAt, t), NEW nv, nv = Append(mv, t)
  PROVE  Bounded(nv, w.recent[k], w.trippedAt, t)
<1>1. /\ mv \in Seq(Nat) /\ \A i \in DOMAIN mv : mv[i] <= t
      /\ \A T \in Int : T >= t - BreakerWindow => Later(mv, T) <= Later(l.recent[k], T)
      /\ Later(mv, t - Window) <= BreakerMax
      /\ \/ Later(mv, t - Window) < BreakerMax
         \/ l.trippedAt # 0 /\ \A i \in DOMAIN mv : mv[i] <= l.trippedAt
  BY DEF Bounded
<1>2. BreakerWindow \in Nat /\ BreakerPause \in Nat /\ BreakerMax \in Nat \ {0}
  BY LimitsAssumption
<1>3. \A i \in DOMAIN mv : mv[i] \in Nat
  BY <1>1
<1>4. l.trippedAt \in Nat
  BY DEF Limiters
<1>5. PICK a \in Int : a = t - Window
  BY WindowIs
<1>6. PICK c \in Int : c = t - BreakerWindow
  BY <1>2
<1>7. c <= a /\ a <= t /\ (Window = 0 => ~(t > a)) /\ (Window # 0 => t > a)
  BY <1>2, <1>5, <1>6, WindowIs
<1>8. /\ nv \in Seq(Nat) /\ \A i \in DOMAIN nv : nv[i] <= t
  <2>1. DOMAIN nv = 1..(Len(mv) + 1) /\ Len(mv) \in Nat /\ DOMAIN mv = 1..Len(mv)
    BY <1>1
  <2>2. nv[Len(mv) + 1] = t /\ \A i \in DOMAIN mv : nv[i] = mv[i]
    BY <1>1
  <2>3. nv \in Seq(Nat)
    BY <1>1, AppendProperties
  <2> QED BY <1>1, <2>1, <2>2, <2>3
<1>9. ASSUME NEW T \in Int
      PROVE  /\ t > T => Later(nv, T) = Later(mv, T) + 1
             /\ ~(t > T) => Later(nv, T) = Later(mv, T)
             /\ Later(mv, T) \in Nat
  <2>1. (t > T => Later(nv, T) = Later(mv, T) + 1) /\ (~(t > T) => Later(nv, T) = Later(mv, T))
    <3>1. mv \in Seq(Nat) /\ t \in Nat
      BY <1>1
    <3> QED BY ONLY <3>1, nv = Append(mv, t), T \in Int, LaterAppend
  <2>2. Later(mv, T) \in Nat
    BY <1>1, LaterShape
  <2> QED BY <2>1, <2>2
<1>10. ASSUME NEW T \in Int, T >= t - BreakerWindow
       PROVE  Later(nv, T) <= Later(w.recent[k], T)
  <2>1. /\ Later(l.recent[k], T) \in Nat
        /\ t > T => Later(w.recent[k], T) = Later(l.recent[k], T) + 1
        /\ ~(t > T) => Later(w.recent[k], T) = Later(l.recent[k], T)
    BY <1>10, CountKeeps
  <2>2. Later(mv, T) <= Later(l.recent[k], T)
    BY <1>1, <1>10
  <2>3. /\ t > T => Later(nv, T) = Later(mv, T) + 1
        /\ ~(t > T) => Later(nv, T) = Later(mv, T)
        /\ Later(mv, T) \in Nat
    BY <1>9
  <2>4. CASE t > T
    BY <2>1, <2>2, <2>3, <2>4
  <2>5. CASE ~(t > T)
    BY <2>1, <2>2, <2>3, <2>5
  <2> QED BY <2>4, <2>5
<1>11. Later(mv, a) < BreakerMax
  <2>1. CASE l.trippedAt # 0 /\ \A i \in DOMAIN mv : mv[i] <= l.trippedAt
    <3>1. l.trippedAt <= a
      BY <1>2, <1>4, <1>5, <2>1, WindowIs DEF Clear
    <3>2. \A i \in DOMAIN mv : mv[i] <= a
      BY <1>3, <1>4, <2>1, <3>1
    <3>3. Later(mv, a) = 0
      BY <1>1, <3>2, LaterNone
    <3> QED BY <1>2, <3>3
  <2> QED BY <1>1, <1>5, <2>1
<1>14. /\ t > a => Later(nv, a) = Later(mv, a) + 1
       /\ ~(t > a) => Later(nv, a) = Later(mv, a)
       /\ Later(mv, a) \in Nat /\ Later(nv, a) \in Nat
  <2>1. /\ t > a => Later(nv, a) = Later(mv, a) + 1
        /\ ~(t > a) => Later(nv, a) = Later(mv, a)
        /\ Later(mv, a) \in Nat
    BY <1>9
  <2> QED BY <1>8, <2>1, LaterShape
<1>12. Later(nv, a) <= BreakerMax
  <2>1. CASE t > a
    BY <1>2, <1>11, <1>14, <2>1
  <2>2. CASE ~(t > a)
    BY <1>2, <1>11, <1>14, <2>2
  <2> QED BY <2>1, <2>2
<1>13. Later(nv, a) < BreakerMax \/ (w.trippedAt # 0 /\ \A i \in DOMAIN nv : nv[i] <= w.trippedAt)
  <2>1. CASE Window = 0
    <3>1. Later(nv, a) = Later(mv, a)
      BY <1>7, <1>14, <2>1
    <3> QED BY <1>11, <3>1
  <2>2. CASE Window # 0 /\ Later(nv, a) >= BreakerMax
    <3>1. Later(mv, a) + 1 >= BreakerMax
      BY <1>7, <1>14, <2>2
    <3>2. Later(mv, a) <= Later(mv, c) /\ Later(mv, c) \in Nat /\ Later(mv, a) \in Nat
      BY <1>1, <1>7, <1>9, LaterLess
    <3>3. Later(mv, c) <= Later(l.recent[k], c) /\ Later(l.recent[k], c) \in Nat
      <4>1. c >= t - BreakerWindow
        BY <1>2, <1>6
      <4> QED BY <1>1, <4>1, CountKeeps
    <3>4. 1 + Later(l.recent[k], c) >= BreakerMax
      BY <1>2, <3>1, <3>2, <3>3
    <3>5. w.trippedAt = t
      BY <1>6, <3>4, CountTrips
    <3> QED BY <1>8, <3>5
  <2>3. Later(nv, a) < BreakerMax \/ Later(nv, a) >= BreakerMax
    BY <1>2, <1>14
  <2> QED BY <2>1, <2>2, <2>3
<1> QED BY <1>5, <1>8, <1>10, <1>12, <1>13 DEF Bounded

\* A name it did not move.
LEMMA BoundedKept ==
  ASSUME NEW l \in Limiters, NEW t \in Nat \ {0}, NEW tried, NEW w, w = Count(l, t, tried),
         NEW k \in Keys, NEW mv, Bounded(mv, l.recent[k], l.trippedAt, t)
  PROVE  Bounded(mv, w.recent[k], w.trippedAt, t)
<1>1. /\ mv \in Seq(Nat) /\ \A i \in DOMAIN mv : mv[i] <= t
      /\ \A T \in Int : T >= t - BreakerWindow => Later(mv, T) <= Later(l.recent[k], T)
      /\ Later(mv, t - Window) <= BreakerMax
      /\ \/ Later(mv, t - Window) < BreakerMax
         \/ l.trippedAt # 0 /\ \A i \in DOMAIN mv : mv[i] <= l.trippedAt
  BY DEF Bounded
<1>2. ASSUME NEW T \in Int, T >= t - BreakerWindow
      PROVE  Later(mv, T) <= Later(w.recent[k], T)
  <2>1. /\ Later(l.recent[k], T) \in Nat
        /\ k \notin tried => w.recent[k] = l.recent[k]
        /\ k \in tried => /\ t > T => Later(w.recent[k], T) = Later(l.recent[k], T) + 1
                          /\ ~(t > T) => Later(w.recent[k], T) = Later(l.recent[k], T)
    BY <1>2, CountKeeps
  <2>2. Later(mv, T) <= Later(l.recent[k], T) /\ Later(mv, T) \in Nat
    BY <1>1, <1>2, LaterShape
  <2> QED BY <2>1, <2>2
<1>3. w.trippedAt = t \/ w.trippedAt = l.trippedAt
  BY CountTrips
<1> QED BY <1>1, <1>2, <1>3 DEF Bounded

-----------------------------------------------------------------------------
(* The limiter through a call: it counts what the job that ended tried.    *)

TriedAt(d) == IF d.job = None THEN {} ELSE Tried(d.job)
JobEnds(s) == {i \in Saves(s) : s[i].job # None}

\* A job that gives away was let through by the breaker.
JobClear(d, t) ==
  d.job # None /\ DOMAIN d.job.assignments # {} => Clear(d.limiter, t)

LEMMA LimitOver ==
  ASSUME NEW l \in Limiters, NEW t \in Nat, NEW k \in Keys, LimitedUntil(l, t, k) = 0
  PROVE  Clear(l, t)
<1> DEFINE c == CooldownEnds(l, k)
           p == PauseEnds(l)
<1>1. l.recent[k] \in Seq(Nat) /\ l.trippedAt \in Nat
  BY DEF Limiters
<1>2. c \in Nat
  <2>1. CASE l.recent[k] = <<>>
    BY <2>1 DEF CooldownEnds
  <2>2. CASE l.recent[k] # <<>>
    <3>1. Len(l.recent[k]) \in 1..Len(l.recent[k])
      BY <1>1, <2>2
    <3>2. l.recent[k][Len(l.recent[k])] \in Nat
      BY <1>1, <3>1
    <3> QED BY <2>2, <3>2, LimitsAssumption DEF CooldownEnds
  <2> QED BY <2>1, <2>2
<1>3. p \in Nat
  BY <1>1, LimitsAssumption DEF PauseEnds
<1>4. ~(t < Larger(c, p))
  <2>1. Larger(c, p) \in Nat
    BY <1>2, <1>3 DEF Larger
  <2> HIDE DEF c, p
  <2>2. LimitedUntil(l, t, k) = IF t < Larger(c, p) THEN Larger(c, p) ELSE 0
    BY DEF LimitedUntil, c, p
  <2> QED BY <2>1, <2>2
<1>5. t >= p
  <2> HIDE DEF c, p
  <2> QED BY <1>2, <1>3, <1>4 DEF Larger
<1> QED BY <1>5 DEF PauseEnds, Clear

\* Nothing of a new job is tried yet, and the breaker lets it give away.
LEMMA FreshClear ==
  ASSUME NEW t \in Nat, NEW d, MidInv(d, t), NEW j, j = NextJob(t, d), j # None,
         NEW e, SameButJob(e, d, j)
  PROVE  TriedAt(e) = {} /\ JobClear(e, t)
<1>1. d.latest # None /\ (FreshOwner(d, j) \/ FreshGive(d, t, j))
  BY NextJobIs
<1>2. d.latest \in ServerStates /\ d.handled \in Handled /\ d.limiter \in Limiters
  BY <1>1, MidShape
<1>3. e.job = j /\ e.limiter = d.limiter
  BY DEF SameButJob
<1>4. CASE FreshOwner(d, j)
  <2>1. DOMAIN j.assignments = {}
    BY <1>2, <1>4, FreshOwnerInv
  <2> QED BY <1>3, <2>1 DEF TriedAt, Tried, JobClear
<1>5. CASE FreshGive(d, t, j)
  <2> DEFINE give == WithVerdict(d, t, "giveNow")
  <2>1. DOMAIN j.assignments = give
    BY <1>2, <1>5, FreshGiveInv
  <2>2. \A k \in give : j.assignments[k].triedToMove = FALSE
    <3>1. j = GiveAwayJob(d, t)
      BY <1>5 DEF FreshGive
    <3>2. j.assignments = [k \in give |-> NewAssignmentTask(d.latest.assignments[k])]
      BY <3>1 DEF GiveAwayJob
    <3> HIDE DEF give
    <3> QED BY <3>2 DEF NewAssignmentTask
  <2>3. ASSUME NEW k \in give PROVE Clear(d.limiter, t)
    <3>1. k \in Keys
      BY <1>2, StateShape DEF WithVerdict, PendingKeys
    <3>2. LimitedUntil(d.limiter, t, k) = 0
      BY DEF WithVerdict, Verdict
    <3> QED BY <1>2, <3>1, <3>2, LimitOver
  <2> HIDE DEF give
  <2> QED BY <1>3, <2>1, <2>2, <2>3 DEF TriedAt, Tried, JobClear
<1> QED BY <1>1, <1>4, <1>5

\* What was tried stays tried while the job is in flight.
LEMMA AdvancedTried ==
  ASSUME NEW t \in Nat, NEW d, MidInv(d, t), d.job # None, NEW j, j = Advanced(t, d)
  PROVE  /\ Tried(j) = TriedAt(d) /\ DOMAIN j.assignments = DOMAIN d.job.assignments
         /\ JobInv(j, d.handled, t)
<1>1. d.latest # None /\ JobInv(d.job, d.handled, t) /\ PendingFits(d.job, d.latest)
  BY DEF MidInv
<1>2. IsServerState(d.latest)
  BY <1>1, MidShape, StateShape
<1>3. j = Expire(t, ApplyState(d.job, d.latest))
  BY DEF Advanced
<1>4. /\ JobInv(j, d.handled, t) /\ DOMAIN j.assignments = DOMAIN d.job.assignments
      /\ \A k \in DOMAIN d.job.assignments :
           j.assignments[k].triedToMove = d.job.assignments[k].triedToMove
  BY <1>1, <1>2, <1>3, AppliedInv
<1> QED BY <1>4 DEF Tried, TriedAt

LEMMA IssuedTried ==
  ASSUME NEW t \in Nat, NEW j, NEW h, JobInv(j, h, t), NEW w, w = Issue(t, j)
  PROVE  Tried(w) = Tried(j) /\ DOMAIN w.assignments = DOMAIN j.assignments
<1>1. /\ JobInv(w, h, t) /\ w.ownership = j.ownership
      /\ DOMAIN w.assignments = DOMAIN j.assignments
      /\ DOMAIN w.commands = DOMAIN j.commands
      /\ \A k \in DOMAIN j.assignments : w.assignments[k] = IssuedTask(t, j.assignments[k])
      /\ \A i \in DOMAIN j.commands : w.commands[i] = IssuedTask(t, j.commands[i])
      /\ NothingPending(w)
      /\ NothingDue(t, j) => w = j
  BY IssueInv
<1>2. ASSUME NEW k \in DOMAIN j.assignments
      PROVE  w.assignments[k].triedToMove = j.assignments[k].triedToMove
  <2>1. j.assignments[k] \in AssignmentTasks
    BY JobShape DEF JobInv
  <2>2. PICK u \in AssignmentTasks : u = j.assignments[k]
    BY <2>1
  <2>3. IssuedTask(t, u).triedToMove = u.triedToMove
    BY DEF IssuedTask, IssueTask, AssignmentTasks
  <2> QED BY <1>1, <2>2, <2>3
<1> QED BY <1>1, <1>2 DEF Tried

LEMMA AppendEnds ==
  ASSUME NEW s \in Seq(Decisions), NEW q, NEW r, r = Append(s, q)
  PROVE  /\ q.type # "save" => JobEnds(r) = JobEnds(s)
         /\ q.type = "save" /\ q.job # None => JobEnds(r) # {}
<1>1. Len(s) \in Nat /\ DOMAIN s = 1..Len(s)
  OBVIOUS
<1>2. /\ DOMAIN r = 1..(Len(s) + 1) /\ r[Len(s) + 1] = q
      /\ \A i \in DOMAIN s : r[i] = s[i]
  OBVIOUS
<1>3. DOMAIN r = DOMAIN s \cup {Len(s) + 1} /\ Len(s) + 1 \notin DOMAIN s
  BY <1>1, <1>2
<1>4. ASSUME q.type # "save" PROVE JobEnds(r) = JobEnds(s)
  BY <1>2, <1>3, <1>4 DEF JobEnds, Saves
<1>5. ASSUME q.type = "save", q.job # None PROVE JobEnds(r) # {}
  BY <1>2, <1>3, <1>5 DEF JobEnds, Saves
<1> QED BY <1>4, <1>5

\* The loop states of a call that began at b, as far as the limiter goes.
NoEndYet(b, x) ==
  JobEnds(x.ds) = {} /\ x.m.limiter = b.limiter /\ TriedAt(x.m) = TriedAt(b)
Ended(t, b, x) ==
  /\ JobEnds(x.ds) # {} /\ x.m.limiter = Count(b.limiter, t, TriedAt(b))
  /\ TriedAt(x.m) = {}
Metered(t, b) ==
  {x \in Loops : /\ MidInv(x.m, t) /\ JobClear(x.m, t)
                 /\ NoEndYet(b, x) \/ Ended(t, b, x)}

LEMMA MeteredOn ==
  ASSUME NEW t \in Nat \ {0}, NEW b, b.limiter \in Limiters, NEW x \in Metered(t, b),
         NEW y, y = Round(t, x)
  PROVE  y \in Metered(t, b)
<1>1. /\ x \in Loops /\ MidInv(x.m, t) /\ JobClear(x.m, t) /\ x.ds \in Seq(Decisions)
      /\ NoEndYet(b, x) \/ Ended(t, b, x)
  BY DEF Metered, Loops
<1>2. CASE ~x.more
  BY <1>2, RoundOver
<1>3. CASE x.more
  <2>1. /\ y \in Loops /\ MidInv(y.m, t)
        /\ \/ RoundBusy(t, x, y) \/ RoundWaits(t, x, y) \/ RoundEnds(t, x, y)
           \/ RoundClaims(t, x, y) \/ RoundStarts(t, x, y) \/ RoundStops(t, x, y)
    BY <1>1, <1>3, RoundMid
  <2> DEFINE Good == JobClear(y.m, t) /\ (NoEndYet(b, y) \/ Ended(t, b, y))
  <2>2. ASSUME JobEnds(y.ds) = JobEnds(x.ds), y.m.limiter = x.m.limiter,
               TriedAt(y.m) = TriedAt(x.m)
        PROVE  NoEndYet(b, y) \/ Ended(t, b, y)
    BY <1>1, <2>2 DEF NoEndYet, Ended
  <2>3. ASSUME NEW q, q.type # "save", y.ds = x.ds \/ y.ds = Append(x.ds, q)
        PROVE  JobEnds(y.ds) = JobEnds(x.ds)
    <3>1. CASE y.ds = Append(x.ds, q)
      BY <1>1, <2>3, <3>1, AppendEnds
    <3> QED BY <2>3, <3>1
  <2>4. ASSUME RoundBusy(t, x, y) \/ RoundWaits(t, x, y) PROVE Good
    <3> DEFINE j == Advanced(t, x.m)
    <3>1. x.m.job # None /\ (y.ds = x.ds \/ y.ds = Append(x.ds, IssueDecision(t, j)))
      BY <2>4 DEF RoundBusy, RoundWaits
    <3>2. /\ Tried(j) = TriedAt(x.m) /\ DOMAIN j.assignments = DOMAIN x.m.job.assignments
          /\ JobInv(j, x.m.handled, t)
      BY <1>1, <3>1, AdvancedTried
    <3>3. \E w : /\ SameButJob(y.m, x.m, w) /\ w # None /\ Tried(w) = TriedAt(x.m)
                 /\ DOMAIN w.assignments = DOMAIN x.m.job.assignments
      <4>1. CASE RoundBusy(t, x, y)
        <5>1. Busy(j) /\ y.m = [x.m EXCEPT !.job = j]
          BY <4>1 DEF RoundBusy
        <5>2. SameButJob(y.m, x.m, j) /\ j # None
          BY <1>1, <3>1, <5>1, MidBusy
        <5> QED BY <3>2, <5>2
      <4>2. CASE RoundWaits(t, x, y)
        <5>1. ~Busy(j) /\ ~Settled(j) /\ y.m = [x.m EXCEPT !.job = Issue(t, j)]
          BY <4>2 DEF RoundWaits
        <5>2. PICK w : w = Issue(t, j)
          OBVIOUS
        <5>3. SameButJob(y.m, x.m, w) /\ w # None
          BY <1>1, <3>1, <5>1, <5>2, MidWaits
        <5> HIDE DEF j
        <5>4. Tried(w) = Tried(j) /\ DOMAIN w.assignments = DOMAIN j.assignments
          BY <3>2, <5>2, IssuedTried
        <5> QED BY <3>2, <5>3, <5>4
      <4> QED BY <2>4, <4>1, <4>2
    <3> HIDE DEF j
    <3>4. JobEnds(y.ds) = JobEnds(x.ds)
      <4>1. PICK q : q = IssueDecision(t, j)
        OBVIOUS
      <4>2. q.type = "issue"
        BY <4>1, DecisionKinds
      <4> QED BY <2>3, <3>1, <4>1, <4>2
    <3>5. PICK w : /\ SameButJob(y.m, x.m, w) /\ w # None /\ Tried(w) = TriedAt(x.m)
                   /\ DOMAIN w.assignments = DOMAIN x.m.job.assignments
      BY <3>3
    <3>6. y.m.limiter = x.m.limiter /\ y.m.job = w
      BY <3>5 DEF SameButJob
    <3>7. TriedAt(y.m) = TriedAt(x.m)
      BY <3>5, <3>6 DEF TriedAt
    <3>8. JobClear(y.m, t)
      BY <1>1, <3>1, <3>5, <3>6 DEF JobClear
    <3> QED BY <2>2, <3>4, <3>6, <3>7, <3>8
  <2>5. ASSUME RoundEnds(t, x, y) PROVE Good
    <3> DEFINE j == Advanced(t, x.m)
               q == SaveDecision(AddRecord(x.m.handled, j), j, NotifyFor(j))
    <3>1. /\ y.ds = Append(x.ds, q) /\ y.m.job = None /\ x.m.job # None
          /\ y.m.limiter = Count(x.m.limiter, t, Tried(j))
      BY <2>5 DEF RoundEnds
    <3>2. Tried(j) = TriedAt(x.m)
      BY <1>1, <3>1, AdvancedTried
    <3>3. q.type = "save" /\ q.job # None
      <4>1. j # None
        BY <1>1, <3>1, AdvancedInv
      <4>2. q.type = "save" /\ q.job = j
        BY DecisionKinds
      <4> QED BY <4>1, <4>2
    <3> HIDE DEF q, j
    <3>4. JobEnds(y.ds) # {}
      BY <1>1, <3>1, <3>3, AppendEnds
    <3>5. y.m.limiter = Count(b.limiter, t, TriedAt(b))
      <4>1. CASE NoEndYet(b, x)
        BY <3>1, <3>2, <4>1 DEF NoEndYet
      <4>2. CASE Ended(t, b, x)
        <5>1. PICK l : l = x.m.limiter
          OBVIOUS
        <5>2. l \in Limiters /\ LimiterFits(l, t)
          BY <1>1, <5>1, MidShape DEF MidInv
        <5>3. PICK w : w = Count(l, t, {})
          OBVIOUS
        <5>4. /\ w \in Limiters /\ LimiterFits(w, t)
              /\ {} = {} => w = l
          BY <5>2, <5>3, CountInv
        <5> QED BY <3>1, <3>2, <4>2, <5>1, <5>3, <5>4 DEF Ended
      <4> QED BY <1>1, <4>1, <4>2
    <3>6. TriedAt(y.m) = {} /\ JobClear(y.m, t)
      BY <3>1 DEF TriedAt, JobClear
    <3> QED BY <3>4, <3>5, <3>6 DEF Ended
  <2>6. ASSUME RoundClaims(t, x, y) PROVE Good
    <3>1. /\ x.m.job = None /\ ClaimDue(x.m, t) /\ y.m = [x.m EXCEPT !.claimedAttach = x.m.lastAttach]
          /\ y.ds = Append(x.ds, ClaimDecision)
      BY <2>6 DEF RoundClaims
    <3>2. y.m.job = None /\ y.m.limiter = x.m.limiter
      <4>1. x.m \in Deciders
        BY <1>1 DEF MidInv
      <4> QED BY <3>1, <4>1 DEF Deciders
    <3>3. JobEnds(y.ds) = JobEnds(x.ds)
      <4>1. PICK q : q = ClaimDecision
        OBVIOUS
      <4>2. q.type = "claim"
        BY <4>1, DecisionKinds
      <4> QED BY <2>3, <3>1, <4>1, <4>2
    <3>4. TriedAt(y.m) = TriedAt(x.m) /\ JobClear(y.m, t)
      BY <3>1, <3>2 DEF TriedAt, JobClear
    <3> QED BY <2>2, <3>2, <3>3, <3>4
  <2>7. ASSUME RoundStarts(t, x, y) PROVE Good
    <3> DEFINE n == NextJob(t, x.m)
    <3>1. /\ x.m.job = None /\ ~ClaimDue(x.m, t) /\ n # None
          /\ y.m = [x.m EXCEPT !.job = n] /\ y.ds = x.ds
      BY <2>7 DEF RoundStarts
    <3>2. SameButJob(y.m, x.m, n)
      BY <1>1, <3>1, MidStarts
    <3>3. TriedAt(y.m) = {} /\ JobClear(y.m, t)
      BY <1>1, <3>1, <3>2, FreshClear
    <3> HIDE DEF n
    <3>4. TriedAt(x.m) = {} /\ y.m.limiter = x.m.limiter
      BY <3>1, <3>2 DEF SameButJob, TriedAt
    <3> QED BY <2>2, <3>1, <3>3, <3>4
  <2>8. ASSUME RoundStops(t, x, y) PROVE Good
    BY <1>1, <2>2, <2>8 DEF RoundStops
  <2> QED BY <2>1, <2>4, <2>5, <2>6, <2>7, <2>8 DEF Metered
<1> QED BY <1>2, <1>3

LEMMA CallMeters ==
  ASSUME NEW t \in Nat \ {0}, NEW b, MidInv(b, t), JobClear(b, t), NEW d \in Seq(Decisions),
         \A i \in DOMAIN d : d[i].job = None, NEW z, z = AdvanceTime(t, b, d)
  PROVE  /\ JobClear(z.m, t)
         /\ NoEndYet(b, z) \/ Ended(t, b, z)
<1> DEFINE x0 == [m |-> b, ds |-> d, more |-> TRUE]
<1>1. x0 \in Metered(t, b)
  <2>1. x0 \in Loops /\ x0.m = b /\ x0.ds = d
    BY DEF Loops, MidInv
  <2> HIDE DEF x0
  <2>2. JobEnds(d) = {}
    BY DEF JobEnds, Saves
  <2> QED BY <2>1, <2>2 DEF Metered, NoEndYet
<1>2. b.limiter \in Limiters
  BY MidShape
<1>3. \A x \in Metered(t, b) : Round(t, x) \in Metered(t, b)
  BY <1>2, MeteredOn
<1>4. z \in Metered(t, b)
  BY <1>1, <1>3, LoopKeeps
<1> QED BY <1>4 DEF Metered

-----------------------------------------------------------------------------
(* What is observed before the call.                                       *)

LEMMA RanTried ==
  ASSUME NEW j \in Jobs, NEW results, NEW w, w = ReportRun(j, results)
  PROVE  w.assignments = j.assignments /\ Tried(w) = Tried(j)
<1>1. w.assignments = j.assignments
  <2>1. /\ j = [commands |-> j.commands, assignments |-> j.assignments,
                ownership |-> j.ownership, seqs |-> j.seqs]
    BY JobShape
  <2>2. \E c : w = [j EXCEPT !.commands = c]
    BY DEF ReportRun
  <2>3. PICK c : w = [j EXCEPT !.commands = c]
    BY <2>2
  <2> QED BY <2>1, <2>3
<1> QED BY <1>1 DEF Tried

\* What the worker wrote is tried.
LEMMA GaveTried ==
  ASSUME NEW j \in Jobs, NEW t \in Nat, NEW results, NEW w, w = ReportGiveAway(t, j, results)
  PROVE  /\ DOMAIN w.assignments = DOMAIN j.assignments /\ Tried(j) \subseteq Tried(w)
         /\ \A k \in DOMAIN j.assignments :
              /\ j.assignments[k].status = "issued" /\ k \in Written(results)
              => k \in Tried(w)
<1> DEFINE A == DOMAIN j.assignments
           b == [k \in A |-> IF j.assignments[k].status = "issued"
                             THEN ReportedTask(k, j.assignments[k], t, results)
                             ELSE j.assignments[k]]
<1>1. /\ j = [commands |-> j.commands, assignments |-> j.assignments,
              ownership |-> j.ownership, seqs |-> j.seqs]
      /\ j.assignments \in [A -> AssignmentTasks]
  BY JobShape
<1>2. w = [j EXCEPT !.assignments = b]
  BY DEF ReportGiveAway, ReportedTask
<1>3. w.assignments = b
  <2> HIDE DEF b
  <2> QED BY <1>1, <1>2
<1>4. ASSUME NEW k \in A
      PROVE  /\ j.assignments[k].triedToMove => b[k].triedToMove
             /\ j.assignments[k].status = "issued" /\ k \in Written(results)
                => b[k].triedToMove
  <2>1. PICK u \in AssignmentTasks : u = j.assignments[k]
    BY <1>1
  <2> DEFINE v == ReportedTask(k, u, t, results)
  <2>2. b[k] = IF u.status = "issued" THEN v ELSE u
    BY <2>1
  <2>3. (u.triedToMove => v.triedToMove) /\ (k \in Written(results) => v.triedToMove)
    <3> DEFINE reported == k \in DOMAIN results
               result == IF reported THEN results[k] ELSE "err"
               status == GiveAwayOutcome(k, reported, result)
               tried == u.triedToMove \/ ~reported \/ result # "notHere"
               sent == IF status = "awaitingArrival" THEN t ELSE u.sentAt
               now1 == IF u.dropReason # "none" /\ status # "done" THEN "dropped" ELSE status
    <3>1. v = [u EXCEPT !.triedToMove = tried, !.sentAt = sent, !.status = now1]
      BY DEF ReportedTask
    <3>2. (u.triedToMove => tried) /\ (k \in Written(results) => tried)
      BY DEF Written
    <3>3. tried \in BOOLEAN
      BY DEF AssignmentTasks
    <3> HIDE DEF tried, sent, now1, v
    <3>4. v.triedToMove = tried
      BY <3>1, <3>3 DEF AssignmentTasks
    <3> QED BY <3>2, <3>4
  <2> HIDE DEF b, v
  <2> QED BY <2>1, <2>2, <2>3
<1>5. DOMAIN b = A
  OBVIOUS
<1> HIDE DEF b
<1> QED BY <1>3, <1>4, <1>5 DEF Tried

\* An observation only adds to what was tried.
LEMMA ObservedTried ==
  ASSUME DeciderInv, NEW o, NEW b, NEW d, Observed(o, b, d), JobClear(m, now)
  PROVE  /\ b.limiter = m.limiter /\ TriedAt(m) \subseteq TriedAt(b) /\ JobClear(b, now)
<1>1. CallInv(m, now) /\ MidInv(m, now) /\ now \in Nat \ {0} /\ now \in Nat
  BY InvNow
<1>2. m \in Deciders
  BY <1>1 DEF MidInv
<1> DEFINE Good == b.limiter = m.limiter /\ TriedAt(m) \subseteq TriedAt(b) /\ JobClear(b, now)
<1>3. ASSUME b.job = m.job, b.limiter = m.limiter PROVE Good
  BY <1>3 DEF TriedAt, JobClear
<1>4. ASSUME m.job # None, NEW j, b = [m EXCEPT !.job = j], j # None,
             Tried(m.job) \subseteq Tried(j),
             DOMAIN j.assignments = DOMAIN m.job.assignments
      PROVE  Good
  <2>1. b.limiter = m.limiter /\ b.job = j
    BY <1>2, <1>4 DEF Deciders
  <2> QED BY <1>4, <2>1 DEF TriedAt, JobClear
<1>5. ASSUME NEW s \in ServerStates, b = HandleState(m, s) PROVE Good
  <2>1. b.job = m.job /\ b.limiter = m.limiter
    BY <1>2, <1>5 DEF HandleState, Deciders
  <2> QED BY <1>3, <2>1
<1>6. ASSUME b = HandleAttach(m, now) PROVE Good
  <2>1. b.job = m.job /\ b.limiter = m.limiter
    BY <1>2, <1>6 DEF HandleAttach, Deciders
  <2> QED BY <1>3, <2>1
<1>7. ASSUME IssuedCommands # {}, NEW results \in CommandResults, b = HandleRan(m, results)
      PROVE  Good
  <2>1. m.job # None /\ m.job \in Jobs
    BY <1>1, <1>7, MidShape DEF IssuedCommands
  <2>2. PICK j : j = ReportRun(m.job, results)
    OBVIOUS
  <2>3. b = [m EXCEPT !.job = j]
    BY <1>7, <2>1, <2>2 DEF HandleRan
  <2>4. j.assignments = m.job.assignments /\ Tried(j) = Tried(m.job)
    BY <2>1, <2>2, RanTried
  <2>5. j # None
    BY <1>1, <2>1, <2>2, <2>3, ReportSeen
  <2> QED BY <1>4, <2>1, <2>3, <2>4, <2>5
<1>8. ASSUME IssuedKeys # {}, NEW results \in GiveAwayResults,
             b = HandleGaveAway(m, now, results)
      PROVE  Good
  <2>1. m.job # None /\ m.job \in Jobs
    BY <1>1, <1>8, MidShape DEF IssuedKeys
  <2>2. PICK j : j = ReportGiveAway(now, m.job, results)
    OBVIOUS
  <2>3. b = [m EXCEPT !.job = j]
    BY <1>8, <2>1, <2>2 DEF HandleGaveAway
  <2>4. DOMAIN j.assignments = DOMAIN m.job.assignments /\ Tried(m.job) \subseteq Tried(j)
    BY <1>1, <2>1, <2>2, GaveTried
  <2>5. \A k \in DOMAIN results : results[k] \in Outcomes3
    BY <1>8 DEF GiveAwayResults, Outcomes3
  <2>6. j # None
    BY <1>1, <2>1, <2>2, <2>3, <2>5, ReportSeen
  <2> QED BY <1>4, <2>1, <2>3, <2>4, <2>6
<1>9. ASSUME b = m PROVE Good
  BY <1>3, <1>9
<1> QED BY <1>5, <1>6, <1>7, <1>8, <1>9 DEF Observed

\* The keys the worker wrote are among those tried.
LEMMA WrittenTried ==
  ASSUME DeciderInv, IssuedKeys # {}, NEW results \in GiveAwayResults,
         NEW b, b = HandleGaveAway(m, now, results)
  PROVE  Written(results) \subseteq TriedAt(b)
<1>1. CallInv(m, now) /\ MidInv(m, now) /\ now \in Nat
  BY InvNow
<1>2. m \in Deciders
  BY <1>1 DEF MidInv
<1>3. m.job # None /\ m.job \in Jobs
  BY <1>1, MidShape DEF IssuedKeys
<1>4. PICK j : j = ReportGiveAway(now, m.job, results)
  OBVIOUS
<1>5. b = [m EXCEPT !.job = j]
  BY <1>3, <1>4 DEF HandleGaveAway
<1>6. b.job = j
  BY <1>2, <1>5 DEF Deciders
<1>7. \A k \in DOMAIN m.job.assignments :
        m.job.assignments[k].status = "issued" /\ k \in Written(results) => k \in Tried(j)
  BY <1>1, <1>3, <1>4, GaveTried
<1>8. \A k \in Written(results) :
        k \in DOMAIN m.job.assignments /\ m.job.assignments[k].status = "issued"
  BY <1>3 DEF Written, GiveAwayResults, IssuedKeys
<1>9. j # None
  <2>1. \A k \in DOMAIN results : results[k] \in Outcomes3
    BY DEF GiveAwayResults, Outcomes3
  <2> QED BY <1>1, <1>3, <1>4, <1>5, <2>1, ReportSeen
<1> QED BY <1>6, <1>7, <1>8, <1>9 DEF TriedAt

-----------------------------------------------------------------------------
(* DeciderBudget.                                                          *)

\* The history of the moves follows the limiter.
BudgetInv ==
  /\ DeciderInv
  /\ JobClear(m, now)
  /\ wrote \subseteq TriedAt(m)
  /\ DOMAIN moves = Keys
  /\ \A k \in Keys : Bounded(moves[k], m.limiter.recent[k], m.limiter.trippedAt, now)

\* A call after which the keys w are known to be written.
WritingStep ==
  \E o, b, d, w : Observed(o, b, d) /\ Decide(o, b, d) /\ w \subseteq TriedAt(b) /\ Writing(w)

LEMMA BudgetCases ==
  ASSUME DeciderInv, BudgetNext
  PROVE  \/ WritingStep
         \/ Tick /\ Writing({})
         \/ Restart /\ wrote' = {} /\ moves' = NoMoves
<1>1. ASSUME NEW o, NEW b, NEW d, Observed(o, b, d), Decide(o, b, d), Writing({}) PROVE WritingStep
  BY <1>1 DEF WritingStep
<1>2. CASE OtherStep /\ Writing({})
  <2>1. CASE \E s \in ServerStates : ObserveState(s)
    <3>1. PICK s \in ServerStates : ObserveState(s)
      BY <2>1
    <3>2. \E o, b, d : Observed(o, b, d) /\ Decide(o, b, d)
      BY <3>1 DEF ObserveState, Observed
    <3> QED BY <1>1, <1>2, <3>2
  <2>2. CASE ObserveAttach
    <3>1. \E o, b, d : Observed(o, b, d) /\ Decide(o, b, d)
      BY <2>2 DEF ObserveAttach, Observed
    <3> QED BY <1>1, <1>2, <3>1
  <2>3. CASE \E results \in CommandResults : ObserveRan(results)
    <3>1. \E o, b, d : Observed(o, b, d) /\ Decide(o, b, d)
      BY <2>3 DEF ObserveRan, Observed
    <3> QED BY <1>1, <1>2, <3>1
  <2>4. CASE TimerFires \/ GenerationStarts
    <3>1. \E o, b, d : Observed(o, b, d) /\ Decide(o, b, d)
      BY <2>4 DEF TimerFires, GenerationStarts, Observed
    <3> QED BY <1>1, <1>2, <3>1
  <2>5. CASE Tick
    BY <1>2, <2>5
  <2> QED BY <1>2, <2>1, <2>2, <2>3, <2>4, <2>5 DEF OtherStep
<1>3. ASSUME NEW results \in GiveAwayResults, ObserveGaveAway(results), Writing(Written(results))
      PROVE  WritingStep
  <2>1. PICK b : b = HandleGaveAway(m, now, results)
    OBVIOUS
  <2>2. IssuedKeys # {} /\ Decide("report", b, <<>>) /\ Observed("report", b, <<>>)
    BY <1>3, <2>1 DEF ObserveGaveAway, Observed
  <2>3. Written(results) \subseteq TriedAt(b)
    BY <2>1, <2>2, WrittenTried
  <2> QED BY <1>3, <2>2, <2>3 DEF WritingStep
<1> QED BY <1>2, <1>3 DEF BudgetNext

LEMMA BudgetCall ==
  ASSUME BudgetInv, NEW o, NEW b, NEW d, NEW w, Observed(o, b, d), Decide(o, b, d),
         w \subseteq TriedAt(b), Writing(w)
  PROVE  BudgetInv'
<1>1. /\ DeciderInv /\ JobClear(m, now) /\ wrote \subseteq TriedAt(m) /\ DOMAIN moves = Keys
      /\ \A k \in Keys : Bounded(moves[k], m.limiter.recent[k], m.limiter.trippedAt, now)
  BY DEF BudgetInv
<1>2. /\ o \in Contract!Observations
      /\ MidInv(b, now) /\ d \in Seq(Decisions)
      /\ b.job = None <=> m.job = None
      /\ b.claimedAttach = m.claimedAttach
      /\ b.handled = m.handled \/ (m.handled = None /\ b.job = None /\ b.latest = None)
      /\ m.handled # None => d = <<>>
      /\ \A i \in DOMAIN d : d[i].type = "save" /\ d[i].job = None /\ d[i].notify = {}
  BY <1>1, ObservedInv
<1>3. b.limiter = m.limiter /\ TriedAt(m) \subseteq TriedAt(b) /\ JobClear(b, now)
  BY <1>1, ObservedTried
<1>4. PICK z : z = AdvanceTime(now, b, d)
  OBVIOUS
<1>5. m' = z.m /\ ds' = z.ds /\ now' = now
  BY <1>4 DEF Decide
<1>6. now \in Nat \ {0}
  BY <1>1, InvNow
<1>7. JobClear(z.m, now) /\ (NoEndYet(b, z) \/ Ended(now, b, z))
  BY <1>2, <1>3, <1>4, <1>6, CallMeters
<1>8. DeciderInv'
  BY <1>1, <1>2, <1>4, DecideInv
<1>9. PICK all : all = wrote \cup w
  OBVIOUS
<1>10. all \subseteq TriedAt(b)
  BY <1>1, <1>3, <1>9
<1>11. JobOver <=> JobEnds(z.ds) # {}
  BY <1>5 DEF JobOver, JobEnds
<1>12. /\ wrote' = IF JobOver THEN {} ELSE all
       /\ moves' = [k \in Keys |-> IF JobOver /\ k \in all
                                   THEN Append(moves[k], now) ELSE moves[k]]
  BY <1>9 DEF Writing
<1>13. PICK l \in Limiters : l = m.limiter
  BY <1>2, <1>3, MidShape
<1>14. CASE NoEndYet(b, z)
  <2>1. ~JobOver /\ z.m.limiter = l /\ TriedAt(z.m) = TriedAt(b)
    BY <1>3, <1>11, <1>13, <1>14 DEF NoEndYet
  <2>2. wrote' = all /\ DOMAIN moves' = Keys /\ \A k \in Keys : moves'[k] = moves[k]
    BY <1>12, <2>1
  <2>3. ASSUME NEW k \in Keys
        PROVE  Bounded(moves'[k], m'.limiter.recent[k], m'.limiter.trippedAt, now')
    BY <1>1, <1>5, <1>13, <2>1, <2>2
  <2>4. wrote' \subseteq TriedAt(m') /\ JobClear(m', now')
    BY <1>5, <1>7, <1>10, <2>1, <2>2
  <2> QED BY <1>8, <2>2, <2>3, <2>4 DEF BudgetInv
<1>15. CASE Ended(now, b, z)
  <2>1. PICK tried : tried = TriedAt(b)
    OBVIOUS
  <2>2. PICK c : c = Count(l, now, tried)
    OBVIOUS
  <2>3. JobOver /\ z.m.limiter = c
    BY <1>3, <1>11, <1>13, <1>15, <2>1, <2>2 DEF Ended
  <2>4. /\ wrote' = {} /\ DOMAIN moves' = Keys
        /\ \A k \in Keys : /\ k \in all => moves'[k] = Append(moves[k], now)
                           /\ k \notin all => moves'[k] = moves[k]
    BY <1>12, <2>3
  <2>5. ASSUME NEW k \in Keys
        PROVE  Bounded(moves'[k], c.recent[k], c.trippedAt, now)
    <3>1. Bounded(moves[k], l.recent[k], l.trippedAt, now)
      BY <1>1, <1>13
    <3>2. CASE k \in all
      <4>1. k \in tried \cap Keys
        BY <1>10, <2>1, <3>2
      <4>2. Clear(l, now)
        <5>1. b.job # None /\ DOMAIN b.job.assignments # {}
          BY <1>10, <3>2 DEF TriedAt, Tried
        <5> QED BY <1>3, <1>13, <5>1 DEF JobClear
      <4>3. PICK mv : mv = moves[k]
        OBVIOUS
      <4>4. PICK nv : nv = Append(mv, now)
        OBVIOUS
      <4>5. Bounded(mv, l.recent[k], l.trippedAt, now)
        BY <3>1, <4>3
      <4>6. Bounded(nv, c.recent[k], c.trippedAt, now)
        BY <1>6, <2>2, <4>1, <4>2, <4>4, <4>5, BoundedMoved
      <4> QED BY <2>4, <3>2, <4>3, <4>4, <4>6
    <3>3. CASE k \notin all
      <4>1. PICK mv : mv = moves[k]
        OBVIOUS
      <4>2. Bounded(mv, c.recent[k], c.trippedAt, now)
        BY <1>6, <2>2, <3>1, <4>1, BoundedKept
      <4> QED BY <2>4, <3>3, <4>1, <4>2
    <3> QED BY <3>2, <3>3
  <2>6. ASSUME NEW k \in Keys
        PROVE  Bounded(moves'[k], m'.limiter.recent[k], m'.limiter.trippedAt, now')
    BY <1>5, <2>3, <2>5
  <2>7. wrote' \subseteq TriedAt(m') /\ JobClear(m', now')
    BY <1>5, <1>7, <2>4
  <2> QED BY <1>8, <2>4, <2>6, <2>7 DEF BudgetInv
<1> QED BY <1>7, <1>14, <1>15

\* A name never moved.
LEMMA NoMovesBounded ==
  ASSUME NEW t \in Nat, NEW e, e = <<>>
  PROVE  Bounded(e, e, 0, t)
<1>1. e \in Seq(Nat) /\ DOMAIN e = {}
  OBVIOUS
<1>2. ASSUME NEW T \in Int PROVE Later(e, T) = 0
  BY <1>1, LaterNone
<1>3. t - Window \in Int
  BY WindowIs
<1> QED BY <1>1, <1>2, <1>3, LimitsAssumption DEF Bounded

LEMMA BudgetFresh ==
  ASSUME NEW t \in Nat, NEW rec, NEW d, d = NewDecider(rec)
  PROVE  /\ JobClear(d, t) /\ DOMAIN NoMoves = Keys
         /\ \A k \in Keys : Bounded(NoMoves[k], d.limiter.recent[k], d.limiter.trippedAt, t)
<1>1. d.job = None /\ d.limiter = NewRateLimiter
  BY DEF NewDecider
<1>2. JobClear(d, t)
  BY <1>1 DEF JobClear
<1>3. PICK e : e = <<>>
  OBVIOUS
<1>4. Bounded(e, e, 0, t)
  BY <1>3, NoMovesBounded
<1>5. ASSUME NEW k \in Keys
      PROVE  NoMoves[k] = e /\ d.limiter.recent[k] = e /\ d.limiter.trippedAt = 0
  BY <1>1, <1>3 DEF NoMoves, NewRateLimiter
<1>6. DOMAIN NoMoves = Keys
  BY DEF NoMoves
<1> QED BY <1>2, <1>4, <1>5, <1>6

LEMMA BudgetInitInv ==
  ASSUME BudgetInit
  PROVE  BudgetInv
<1>1. DeciderInv /\ m = NewDecider(None) /\ wrote = {} /\ moves = NoMoves /\ now = 1
  BY InitInv DEF BudgetInit, Init
<1> QED BY <1>1, BudgetFresh DEF BudgetInv

LEMMA BudgetStepInv ==
  ASSUME BudgetInv, [BudgetNext]_budgetVars
  PROVE  BudgetInv'
<1>1. /\ DeciderInv /\ JobClear(m, now) /\ wrote \subseteq TriedAt(m) /\ DOMAIN moves = Keys
      /\ \A k \in Keys : Bounded(moves[k], m.limiter.recent[k], m.limiter.trippedAt, now)
      /\ now \in Nat
  BY InvNow DEF BudgetInv
<1>2. CASE WritingStep
  <2>1. PICK o, b, d, w : Observed(o, b, d) /\ Decide(o, b, d) /\ w \subseteq TriedAt(b) /\ Writing(w)
    BY <1>2 DEF WritingStep
  <2> QED BY <2>1, BudgetCall
<1>3. CASE Tick /\ Writing({})
  <2>1. m' = m /\ now' = now + 1 /\ ds' = <<>>
    BY <1>3 DEF Tick
  <2>2. ~JobOver
    BY <2>1 DEF JobOver, Saves
  <2>3. wrote' = wrote /\ DOMAIN moves' = Keys /\ \A k \in Keys : moves'[k] = moves[k]
    BY <1>3, <2>2 DEF Writing
  <2>4. DeciderInv'
    BY <1>1, <1>3, StepInv DEF Next, OtherStep
  <2>5. now' \in Nat /\ now <= now'
    BY <1>1, <2>1
  <2>6. ASSUME NEW k \in Keys
        PROVE  Bounded(moves'[k], m'.limiter.recent[k], m'.limiter.trippedAt, now')
    <3>1. PICK mv : mv = moves[k]
      OBVIOUS
    <3>2. PICK rec : rec = m.limiter.recent[k]
      OBVIOUS
    <3>3. PICK trip : trip = m.limiter.trippedAt
      OBVIOUS
    <3>4. Bounded(mv, rec, trip, now)
      BY <1>1, <3>1, <3>2, <3>3
    <3>5. Bounded(mv, rec, trip, now')
      BY <1>1, <2>5, <3>4, BoundedLater
    <3> QED BY <2>1, <2>3, <3>1, <3>2, <3>3, <3>5
  <2>7. JobClear(m', now')
    <3>1. m.limiter.trippedAt \in Nat
      BY <1>1, InvNow DEF MidInv, Deciders, Limiters
    <3> QED BY <1>1, <2>1, <3>1, LimitsAssumption DEF JobClear, Clear
  <2> QED BY <1>1, <2>1, <2>3, <2>4, <2>6, <2>7 DEF BudgetInv
<1>4. CASE Restart /\ wrote' = {} /\ moves' = NoMoves
  <2>1. m' = NewDecider(disk) /\ now' = now
    BY <1>4 DEF Restart
  <2>2. DeciderInv'
    BY <1>1, <1>4, StepInv DEF Next
  <2>3. /\ JobClear(m', now') /\ DOMAIN NoMoves = Keys
        /\ \A k \in Keys : Bounded(NoMoves[k], m'.limiter.recent[k], m'.limiter.trippedAt, now')
    BY <1>1, <2>1, BudgetFresh
  <2> QED BY <1>4, <2>2, <2>3 DEF BudgetInv
<1>5. CASE UNCHANGED budgetVars
  BY <1>1, <1>5 DEF budgetVars, BudgetInv, DeciderInv
<1> QED BY <1>1, <1>2, <1>3, <1>4, <1>5, BudgetCases

\* What the breaker is for (see ratelimit.go): whatever is observed, one name
\* is moved at most BreakerMax times in a window.  BudgetInv is needed: the
\* limiter counts what the jobs tried, and a job goes on with what the breaker
\* let through when it started.
THEOREM BudgetCorrect == BudgetSpec => []WriteLoopBounded
<1>1. BudgetInit => BudgetInv
  BY BudgetInitInv
<1>2. BudgetInv /\ [BudgetNext]_budgetVars => BudgetInv'
  BY BudgetStepInv
<1>3. BudgetInv => WriteLoopBounded
  <2>1. ASSUME BudgetInv, NEW k \in Keys PROVE Later(moves[k], now - Window) <= BreakerMax
    BY <2>1 DEF BudgetInv, Bounded
  <2> QED BY <2>1 DEF WriteLoopBounded, Later, Window
<1> QED BY <1>1, <1>2, <1>3, PTL DEF BudgetSpec

=============================================================================
