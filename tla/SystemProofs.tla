---------------------------- MODULE SystemProofs ----------------------------
(***************************************************************************)
(* Proofs about what the user sees of the whole: where each thing is       *)
(* (System), for any hosts, things, channels and number of claims and      *)
(* faults; and, at the end, who owns (Claims), for any hosts, addresses,   *)
(* number of attempts and bounds.                                          *)
(*                                                                         *)
(* The invariant of one host speaks of the rest of the system through a    *)
(* record W, the world: what is recorded, and which host no longer stands  *)
(* between a thing and its newest assignee.  A call of Decide is then      *)
(* proved in one world, and the other steps by what they do to the world.  *)
(***************************************************************************)
EXTENDS System, Claims, ServerProofs, SequenceTheorems

-----------------------------------------------------------------------------
(* The world.                                                              *)

\* k is with its newest assignee, or on its way there.
AtHome(k) ==
  LET a == assignments[k].assignee IN Here(a, k) \/ heading[k] = a

\* Host h no longer stands between k and its newest assignee: k has got there,
\* or is not here and nobody will bring it.
Freed(h, k) ==
  missed[k] \/ strayed[k] \/ AtHome(k) \/ (~Here(h, k) /\ ~ComingTo(h, k))

\* The devices a host found are still here, but for what was moved by hand.
World ==
  [a       |-> assignments,
   free    |-> {p \in Hosts \X Keys : /\ p[2] \in DOMAIN assignments
                                      /\ p[1] = assignments[p[2]].assignee \/ Freed(p[1], p[2])},
   here    |-> {p \in Hosts \X Keys : Here(p[1], p[2]) \/ p \in pressed},
   strayed |-> {k \in Keys : strayed[k]}]

\* What holds in every world: a seq is a number, and what has arrived is with
\* its assignee.
WorldOK(W) ==
  /\ DOMAIN W.a \subseteq Keys
  /\ \A k \in DOMAIN W.a : /\ W.a[k].seq \in Nat \ {0} /\ W.a[k].assignee \in Hosts
                           /\ W.a[k].prev \in Hosts \cup {NoHost} /\ W.a[k].arrived \in BOOLEAN
                           /\ W.a[k].arrived => \A h \in Hosts : <<h, k>> \in W.free

\* V is a later world than W: an assignment is the same, or a newer one; under
\* the same one an arrival is not taken back, and a host stays out of the way.
LaterWorld(W, V) ==
  /\ DOMAIN W.a \subseteq DOMAIN V.a
  /\ \A k \in DOMAIN W.a :
       \/ V.a[k].seq > W.a[k].seq
       \/ /\ V.a[k].seq = W.a[k].seq /\ V.a[k].assignee = W.a[k].assignee
          /\ W.a[k].arrived => V.a[k].arrived
          /\ \A h \in Hosts : <<h, k>> \in W.free => <<h, k>> \in V.free

-----------------------------------------------------------------------------
(* A host in a world: its agent m, with the issue w at its worker.         *)

\* An assignment of k that somebody has heard of: an old one, or the newest.
Known(k, a, W) ==
  /\ k \in DOMAIN W.a /\ a.seq \in Nat \ {0} /\ a.seq <= W.a[k].seq
  /\ a.seq = W.a[k].seq => a.assignee = W.a[k].assignee

\* The state heard last.
LatestInv(m, W) ==
  m.latest # None =>
    /\ m.latest \in States
    /\ \A k \in DOMAIN m.latest.assignments :
         /\ Known(k, m.latest.assignments[k], W)
         /\ m.latest.assignments[k].seq = W.a[k].seq /\ m.latest.assignments[k].arrived
              => W.a[k].arrived

\* n is the seq of an assignment of k no newer than the state heard last.
Heard(m, k, n) ==
  /\ m.latest # None /\ k \in DOMAIN m.latest.assignments
  /\ n <= m.latest.assignments[k].seq

\* What agent.json says was handled.
HandledInv(h, m, W) ==
  /\ m.handled \in Records
  /\ \A k \in Keys : m.handled.seqs[k] # 0 =>
       /\ k \in DOMAIN W.a /\ m.handled.seqs[k] <= W.a[k].seq
       /\ m.latest # None => Heard(m, k, m.handled.seqs[k])
       /\ m.handled.seqs[k] = W.a[k].seq => <<h, k>> \in W.free

\* The attempts of the task t that failed, as far as the worker w knows.
Failures(w, k, t) ==
  IF t.status = "issued" /\ w.moves[k].result = None THEN t.attempts - 1 ELSE t.attempts

\* A result after which the task is done.
Done(k, r) == r = "notHere" \/ (r = "ok" /\ k \in Screens)

\* A task about the newest take of k, to be recorded: it has freed k, or it is
\* not done and a retry is left.
NewestTask(h, w, k, t, W) ==
  /\ t.dropReason = "none" /\ t.status # "dropped"
  /\ t.status = "done" => <<h, k>> \in W.free
  /\ t.status = "issued" /\ Done(k, w.moves[k].result) => <<h, k>> \in W.free
  /\ <<h, k>> \in W.free \/ Failures(w, k, t) <= SwitchRetries

TaskShape(t) ==
  /\ t = [status |-> t.status, attempts |-> t.attempts, lastIssued |-> t.lastIssued,
          dropReason |-> t.dropReason, assignment |-> t.assignment,
          triedToMove |-> t.triedToMove, sentAt |-> t.sentAt]
  /\ t.attempts \in Nat
  /\ t.status \in {"pending", "issued", "awaitingArrival", "failed", "done", "dropped"}

\* One task of a job that records n for k, with the issue w at the worker.
TaskInv(h, m, w, k, t, n, W) ==
  LET a == t.assignment
  IN /\ TaskShape(t) /\ Known(k, a, W) /\ a.assignee \in Hosts \ {h}
     /\ n \in {0, a.seq} /\ m.handled.seqs[k] < a.seq /\ Heard(m, k, a.seq)
     /\ a.seq = m.latest.assignments[k].seq => a.assignee = m.latest.assignments[k].assignee
     /\ t.status = "issued" => k \in DOMAIN w.moves /\ w.moves[k].of = a
     /\ n # 0 /\ a.seq = W.a[k].seq => NewestTask(h, w, k, t, W)

\* What a job records without a task is what was seen to have arrived.
RecordInv(h, m, k, n, W) ==
  /\ m.handled.seqs[k] < n /\ Heard(m, k, n)
  /\ n = W.a[k].seq => <<h, k>> \in W.free

JobShape(j) ==
  /\ j = [commands |-> j.commands, assignments |-> j.assignments,
          ownership |-> j.ownership, seqs |-> j.seqs]
  /\ j.commands = <<>> \/ DOMAIN j.assignments = {}
  /\ j.commands = [i \in DOMAIN j.commands |-> j.commands[i]]
  /\ j.assignments = [k \in DOMAIN j.assignments |-> j.assignments[k]]
  /\ DOMAIN j.assignments \subseteq Keys
  /\ j.ownership \in [owner : Hosts \cup {NoHost}, activation : Nat] \cup {None}
  /\ j.seqs \in [Keys -> Nat]

JobInv(h, m, w, j, W) ==
  /\ JobShape(j)
  /\ \A k \in DOMAIN j.assignments : TaskInv(h, m, w, k, j.assignments[k], j.seqs[k], W)
  /\ \A k \in Keys \ DOMAIN j.assignments : j.seqs[k] # 0 => RecordInv(h, m, k, j.seqs[k], W)

DeciderShape(m) ==
  m = [handled |-> m.handled, job |-> m.job, limiter |-> m.limiter, latest |-> m.latest,
       lastAttach |-> 0, claimedAttach |-> 0]

AgentInv(h, m, w, W) ==
  /\ DeciderShape(m) /\ LatestInv(m, W) /\ HandledInv(h, m, W)
  /\ m.job # None => m.latest # None /\ JobInv(h, m, w, m.job, W)

\* The issue w at the worker of host h: what its checks found is still here,
\* and what it gives away is not its own but for what strayed.
CommandShape(c) == c = [cmd |-> c.cmd, result |-> c.result, here |-> c.here]
WriteInv(h, k, v, W) ==
  /\ v = [of |-> v.of, result |-> v.result] /\ v.result \in Results \cup {None}
  /\ Known(k, v.of, W) /\ v.of.assignee \in Hosts \ {h}
  /\ h = W.a[k].assignee => k \in W.strayed
WorkInv(h, w, W) ==
  w # None =>
    /\ w = [run |-> w.run, moves |-> w.moves]
    /\ w.run = <<>> \/ DOMAIN w.moves = {}
    /\ w.run = [i \in DOMAIN w.run |-> w.run[i]]
    /\ w.moves = [k \in DOMAIN w.moves |-> w.moves[k]]
    /\ \A i \in DOMAIN w.run :
         /\ CommandShape(w.run[i])
         /\ w.run[i].here # None =>
              \A k \in w.run[i].here : k \in Devices /\ <<h, k>> \in W.here
    /\ DOMAIN w.moves \subseteq Keys
    /\ \A k \in DOMAIN w.moves : WriteInv(h, k, w.moves[k], W)

-----------------------------------------------------------------------------
(* The inductive invariant.                                                *)

\* A take is of a thing that is somewhere; only devices are ever on their way.
ThingsInv ==
  /\ place \in [Keys -> Hosts \cup {NoHost}] /\ heading \in [Keys -> Hosts \cup {NoHost}]
  /\ missed \in [Keys -> BOOLEAN] /\ strayed \in [Keys -> BOOLEAN]
  /\ pressed \subseteq Hosts \X Keys
  /\ \A k \in Keys : heading[k] # NoHost => k \in Devices
  /\ \A k \in DOMAIN assignments : place[k] # NoHost

SeqsInv == \A k \in DOMAIN assignments : assignments[k].seq <= epoch

HostsInv ==
  /\ agents = [h \in Hosts |-> agents[h]] /\ work = [h \in Hosts |-> work[h]]
  /\ \A h \in Hosts : AgentInv(h, agents[h], work[h], World) /\ WorkInv(h, work[h], World)

\* What a worker posts is a take of things that are somewhere.
RequestOK(r) ==
  /\ r.host \in Hosts /\ DOMAIN r.takes \subseteq Keys
  /\ \A k \in DOMAIN r.takes :
       place[k] # NoHost /\ r.takes[k] \in [payload : Payloads, arrived : BOOLEAN]
LateInv == \A r \in late : RequestOK(r)

SystemInv == MemoryInv /\ SeqsInv /\ ThingsInv /\ LateInv /\ ArrivedIsHere /\ HostsInv

-----------------------------------------------------------------------------
(* From one world to a later one.                                          *)

LEMMA LaterKnown ==
  ASSUME NEW W, NEW V, WorldOK(W), WorldOK(V), LaterWorld(W, V), NEW k, NEW a, Known(k, a, W)
  PROVE  /\ Known(k, a, V)
         /\ a.seq = V.a[k].seq => a.seq = W.a[k].seq
BY DEF WorldOK, LaterWorld, Known

\* Of what is said of the newest take, all stays: it is the same take, or another
\* one is the newest.
LEMMA LaterFree ==
  ASSUME NEW W, NEW V, WorldOK(W), WorldOK(V), LaterWorld(W, V), NEW h \in Hosts,
         NEW k \in DOMAIN W.a, NEW n, n <= W.a[k].seq, n \in Nat, n = V.a[k].seq
  PROVE  n = W.a[k].seq /\ (<<h, k>> \in W.free => <<h, k>> \in V.free)
BY DEF WorldOK, LaterWorld

LEMMA LaterTask ==
  ASSUME NEW W, NEW V, WorldOK(W), WorldOK(V), LaterWorld(W, V), NEW h \in Hosts,
         NEW m, NEW w, NEW k, NEW t, NEW n, TaskInv(h, m, w, k, t, n, W)
  PROVE  TaskInv(h, m, w, k, t, n, V)
<1> DEFINE a == t.assignment
<1>1. /\ TaskShape(t) /\ Known(k, a, W) /\ a.assignee \in Hosts \ {h}
      /\ n \in {0, a.seq} /\ m.handled.seqs[k] < a.seq /\ Heard(m, k, a.seq)
      /\ a.seq = m.latest.assignments[k].seq => a.assignee = m.latest.assignments[k].assignee
      /\ t.status = "issued" => k \in DOMAIN w.moves /\ w.moves[k].of = a
      /\ n # 0 /\ a.seq = W.a[k].seq => NewestTask(h, w, k, t, W)
  BY DEF TaskInv
<1>2. Known(k, a, V) /\ (a.seq = V.a[k].seq => a.seq = W.a[k].seq)
  BY <1>1, LaterKnown
<1>3. ASSUME n # 0, a.seq = V.a[k].seq PROVE NewestTask(h, w, k, t, V)
  <2>1. NewestTask(h, w, k, t, W)
    BY <1>1, <1>2, <1>3
  <2>2. <<h, k>> \in W.free => <<h, k>> \in V.free
    BY <1>1, <1>3, LaterFree DEF Known
  <2>3. Failures(w, k, t) \in Int
    BY <1>1 DEF Failures, TaskShape
  <2> QED BY <2>1, <2>2, <2>3 DEF NewestTask
<1> QED BY <1>1, <1>2, <1>3 DEF TaskInv

LEMMA LaterAgent ==
  ASSUME NEW W, NEW V, WorldOK(W), WorldOK(V), LaterWorld(W, V), NEW h \in Hosts,
         NEW m, NEW w, AgentInv(h, m, w, W)
  PROVE  AgentInv(h, m, w, V)
<1>1. DeciderShape(m) /\ LatestInv(m, W) /\ HandledInv(h, m, W)
      /\ (m.job # None => m.latest # None /\ JobInv(h, m, w, m.job, W))
  BY DEF AgentInv
<1>2. LatestInv(m, V)
  <2> SUFFICES ASSUME m.latest # None PROVE LatestInv(m, V)
    BY DEF LatestInv
  <2>1. m.latest \in States
    BY <1>1 DEF LatestInv
  <2>2. ASSUME NEW k \in DOMAIN m.latest.assignments
        PROVE  /\ Known(k, m.latest.assignments[k], V)
               /\ m.latest.assignments[k].seq = V.a[k].seq /\ m.latest.assignments[k].arrived
                    => V.a[k].arrived
    <3> DEFINE a == m.latest.assignments[k]
    <3>1. Known(k, a, W) /\ (a.seq = W.a[k].seq /\ a.arrived => W.a[k].arrived)
      BY <1>1 DEF LatestInv
    <3>2. Known(k, a, V) /\ (a.seq = V.a[k].seq => a.seq = W.a[k].seq)
      BY <3>1, LaterKnown
    <3> QED BY <3>1, <3>2 DEF LaterWorld, WorldOK, Known
  <2> QED BY <2>1, <2>2 DEF LatestInv
<1>3. HandledInv(h, m, V)
  <2>1. m.handled \in Records
    BY <1>1 DEF HandledInv
  <2>2. ASSUME NEW k \in Keys, m.handled.seqs[k] # 0
        PROVE  /\ k \in DOMAIN V.a /\ m.handled.seqs[k] <= V.a[k].seq
               /\ m.latest # None => Heard(m, k, m.handled.seqs[k])
               /\ m.handled.seqs[k] = V.a[k].seq => <<h, k>> \in V.free
    <3>1. /\ k \in DOMAIN W.a /\ m.handled.seqs[k] <= W.a[k].seq
          /\ m.latest # None => Heard(m, k, m.handled.seqs[k])
          /\ m.handled.seqs[k] = W.a[k].seq => <<h, k>> \in W.free
      BY <1>1, <2>2 DEF HandledInv
    <3>2. m.handled.seqs[k] \in Nat
      BY <2>1 DEF Records
    <3>3. k \in DOMAIN V.a /\ m.handled.seqs[k] <= V.a[k].seq
      BY <3>1, <3>2 DEF LaterWorld, WorldOK
    <3>4. m.handled.seqs[k] = V.a[k].seq => <<h, k>> \in V.free
      BY <3>1, <3>2, LaterFree
    <3> QED BY <3>1, <3>3, <3>4
  <2> QED BY <2>1, <2>2 DEF HandledInv
<1>4. ASSUME m.job # None PROVE JobInv(h, m, w, m.job, V)
  <2> DEFINE j == m.job
  <2>1. /\ JobShape(j)
        /\ \A k \in DOMAIN j.assignments : TaskInv(h, m, w, k, j.assignments[k], j.seqs[k], W)
        /\ \A k \in Keys \ DOMAIN j.assignments :
             j.seqs[k] # 0 => RecordInv(h, m, k, j.seqs[k], W)
    BY <1>1, <1>4 DEF JobInv
  <2> HIDE DEF j
  <2>2. \A k \in DOMAIN j.assignments : TaskInv(h, m, w, k, j.assignments[k], j.seqs[k], V)
    BY <2>1, LaterTask
  <2>3. ASSUME NEW k \in Keys \ DOMAIN j.assignments, j.seqs[k] # 0
        PROVE  RecordInv(h, m, k, j.seqs[k], V)
    <3>1. RecordInv(h, m, k, j.seqs[k], W) /\ j.seqs[k] \in Nat
      BY <2>1, <2>3 DEF JobShape
    <3>2. k \in DOMAIN W.a /\ j.seqs[k] <= W.a[k].seq
      <4>1. m.latest # None /\ k \in DOMAIN m.latest.assignments
            /\ j.seqs[k] <= m.latest.assignments[k].seq
        BY <3>1 DEF RecordInv, Heard
      <4>2. Known(k, m.latest.assignments[k], W)
        BY <1>1, <4>1 DEF LatestInv
      <4> QED BY <3>1, <4>1, <4>2 DEF Known, WorldOK
    <3>3. j.seqs[k] = V.a[k].seq => <<h, k>> \in V.free
      BY <3>1, <3>2, LaterFree DEF RecordInv
    <3> QED BY <3>1, <3>3 DEF RecordInv
  <2>4. JobShape(j)
    BY <2>1
  <2> QED BY <2>2, <2>3, <2>4 DEF JobInv, j
<1> QED BY <1>1, <1>2, <1>3, <1>4 DEF AgentInv

\* Of its issue an agent knows the writes.
LEMMA SameWrites ==
  ASSUME NEW W, NEW h, NEW m, NEW w, NEW v, AgentInv(h, m, w, W), v.moves = w.moves
  PROVE  AgentInv(h, m, v, W)
<1> SUFFICES ASSUME m.job # None PROVE JobInv(h, m, v, m.job, W)
  BY DEF AgentInv
<1> DEFINE j == m.job
<1>1. JobInv(h, m, w, j, W)
  BY DEF AgentInv
<1> HIDE DEF j
<1>2. ASSUME NEW k, NEW t, NEW n, TaskInv(h, m, w, k, t, n, W)
      PROVE  TaskInv(h, m, v, k, t, n, W)
  BY <1>2 DEF TaskInv, NewestTask, Failures
<1> QED BY <1>1, <1>2 DEF JobInv, j

-----------------------------------------------------------------------------
(* What a round does to the job in flight: ApplyState and Expire, task by  *)
(* task.                                                                   *)

DropTask(h, k, u, s) ==
  CASE ~D(h)!Current(s, k, u) -> D(h)!Drop(u, "replaced")
    [] D(h)!HeldBack(s, k, u) -> D(h)!Drop(u, "assignee not live")
    [] OTHER -> u
ArriveTask(h, k, u, s) ==
  IF /\ u.status \in {"awaitingArrival", "failed"}
     /\ D(h)!Current(s, k, u) /\ k \in Devices /\ s.assignments[k].arrived
  THEN [u EXCEPT !.status = "done"] ELSE u
ExpireTask(h, u, t) ==
  IF u.status = "awaitingArrival" /\ t >= D(h)!ArrivalDeadline(u)
  THEN [u EXCEPT !.status = "failed"] ELSE u
NextTask(h, k, u, s, t) == ExpireTask(h, ArriveTask(h, k, DropTask(h, k, u, s), s), t)
NextTasks(h, j, s, t) ==
  [k \in DOMAIN j.assignments |-> NextTask(h, k, j.assignments[k], s, t)]
NextSeqs(h, j, s) ==
  [k \in Keys |-> IF k \in DOMAIN j.assignments /\ D(h)!HeldBack(s, k, j.assignments[k])
                  THEN 0 ELSE j.seqs[k]]
Advanced(h, j, s, t) == D(h)!Expire(t, D(h)!ApplyState(j, s))

LEMMA WithCommands ==
  ASSUME NEW c, NEW a, NEW o, NEW q, NEW b, NEW j, NEW v,
         j = [commands |-> c, assignments |-> a, ownership |-> o, seqs |-> q],
         v = [j EXCEPT !.commands = b]
  PROVE  v = [commands |-> b, assignments |-> a, ownership |-> o, seqs |-> q]
OBVIOUS

LEMMA WithTasks ==
  ASSUME NEW c, NEW a, NEW o, NEW q, NEW b, NEW j, NEW v,
         j = [commands |-> c, assignments |-> a, ownership |-> o, seqs |-> q],
         v = [j EXCEPT !.assignments = b]
  PROVE  v = [commands |-> c, assignments |-> b, ownership |-> o, seqs |-> q]
OBVIOUS

LEMMA WithSeqs ==
  ASSUME NEW c, NEW a, NEW o, NEW q, NEW b, NEW r, NEW j, NEW v,
         j = [commands |-> c, assignments |-> a, ownership |-> o, seqs |-> q],
         v = [j EXCEPT !.assignments = b, !.seqs = r]
  PROVE  v = [commands |-> c, assignments |-> b, ownership |-> o, seqs |-> r]
OBVIOUS

LEMMA WithBoth ==
  ASSUME NEW c, NEW a, NEW o, NEW q, NEW b, NEW d, NEW j, NEW v,
         j = [commands |-> c, assignments |-> a, ownership |-> o, seqs |-> q],
         v = [j EXCEPT !.commands = d, !.assignments = b]
  PROVE  v = [commands |-> d, assignments |-> b, ownership |-> o, seqs |-> q]
OBVIOUS

LEMMA EmptyList == ASSUME NEW c, c = <<>> PROVE c = [i \in DOMAIN c |-> c[i]]
<1>1. c \in Seq({})
  OBVIOUS
<1> QED BY ONLY <1>1

LEMMA NoElement == ASSUME NEW c, c = [i \in DOMAIN c |-> c[i]], DOMAIN c = {} PROVE c = <<>>
OBVIOUS

LEMMA AdvancedJob ==
  ASSUME NEW h, NEW j, JobShape(j), NEW s, s # None, NEW t
  PROVE  \E c : /\ Advanced(h, j, s, t) =
                     [commands |-> c, assignments |-> NextTasks(h, j, s, t),
                      ownership |-> j.ownership, seqs |-> NextSeqs(h, j, s)]
                /\ c = [i \in DOMAIN c |-> c[i]] /\ (j.commands = <<>> => c = <<>>)
<1> DEFINE c1 == D(h)!DropExpiredCommands(j, s).commands
           q2 == NextSeqs(h, j, s)
           a2 == [k \in DOMAIN j.assignments |-> DropTask(h, k, j.assignments[k], s)]
           a3 == [k \in DOMAIN j.assignments |-> ArriveTask(h, k, a2[k], s)]
           a4 == [k \in DOMAIN j.assignments |-> ExpireTask(h, a3[k], t)]
           j1 == [commands |-> c1, assignments |-> j.assignments,
                  ownership |-> j.ownership, seqs |-> j.seqs]
           j2 == [commands |-> c1, assignments |-> a2, ownership |-> j.ownership, seqs |-> q2]
           j3 == [commands |-> c1, assignments |-> a3, ownership |-> j.ownership, seqs |-> q2]
           j4 == [commands |-> c1, assignments |-> a4, ownership |-> j.ownership, seqs |-> q2]
<1>1. j = [commands |-> j.commands, assignments |-> j.assignments,
           ownership |-> j.ownership, seqs |-> j.seqs]
      /\ j.commands = [i \in DOMAIN j.commands |-> j.commands[i]]
  BY DEF JobShape
<1>2. /\ D(h)!DropExpiredCommands(j, s) = j1
      /\ c1 = [i \in DOMAIN c1 |-> c1[i]] /\ (j.commands = <<>> => c1 = <<>>)
  <2> DEFINE v == D(h)!DropExpiredCommands(j, s)
             d == [i \in DOMAIN j.commands |-> D(h)!Drop(j.commands[i], "ownership moved")]
  <2>1. v = j \/ v = [j EXCEPT !.commands = d]
    BY DEF D!DropExpiredCommands
  <2>2. d = [i \in DOMAIN d |-> d[i]] /\ DOMAIN d = DOMAIN j.commands
    OBVIOUS
  <2>3. j.commands = <<>> => d = <<>>
    <3> HIDE DEF d
    <3> QED BY <2>2, NoElement
  <2> HIDE DEF d, v
  <2>4. v = j \/ v = [commands |-> d, assignments |-> j.assignments,
                      ownership |-> j.ownership, seqs |-> j.seqs]
    BY <1>1, <2>1, WithCommands
  <2> QED BY <1>1, <2>2, <2>3, <2>4 DEF v
<1> HIDE DEF c1
<1>3. D(h)!DropExpiredAssignments(j1, s) = j2
  <2>1. j1.assignments = j.assignments /\ j1.seqs = j.seqs
    OBVIOUS
  <2>2. j1 = [commands |-> c1, assignments |-> j.assignments,
              ownership |-> j.ownership, seqs |-> j.seqs]
    OBVIOUS
  <2> DEFINE w == D(h)!DropExpiredAssignments(j1, s)
  <2> HIDE DEF j1
  <2>3. w = [j1 EXCEPT !.assignments = a2, !.seqs = q2]
    BY <2>1 DEF D!DropExpiredAssignments, DropTask, NextSeqs, D!Keys, Keys
  <2> HIDE DEF w, a2, q2
  <2>4. w = [commands |-> c1, assignments |-> a2, ownership |-> j.ownership, seqs |-> q2]
    BY <2>2, <2>3, WithSeqs
  <2> QED BY <2>4 DEF w
<1>4. D(h)!MarkArrived(j2, s) = j3
  <2> HIDE DEF q2
  <2>1. j2.assignments = a2 /\ DOMAIN a2 = DOMAIN j.assignments
    OBVIOUS
  <2>2. j2 = [commands |-> c1, assignments |-> a2, ownership |-> j.ownership, seqs |-> q2]
    OBVIOUS
  <2> DEFINE w == D(h)!MarkArrived(j2, s)
  <2> HIDE DEF j2, a2
  <2>3. w = [j2 EXCEPT !.assignments = a3]
    BY <2>1 DEF D!MarkArrived, ArriveTask
  <2> HIDE DEF w, a3
  <2>4. w = [commands |-> c1, assignments |-> a3, ownership |-> j.ownership, seqs |-> q2]
    BY <2>2, <2>3, WithTasks
  <2> QED BY <2>4 DEF w
<1>5. D(h)!Expire(t, j3) = j4
  <2> HIDE DEF q2
  <2>1. j3.assignments = a3 /\ DOMAIN a3 = DOMAIN j.assignments
    OBVIOUS
  <2>2. j3 = [commands |-> c1, assignments |-> a3, ownership |-> j.ownership, seqs |-> q2]
    OBVIOUS
  <2> DEFINE w == D(h)!Expire(t, j3)
  <2> HIDE DEF j3, a3
  <2>3. w = [j3 EXCEPT !.assignments = a4]
    BY <2>1 DEF D!Expire, ExpireTask
  <2> HIDE DEF w, a4
  <2>4. w = [commands |-> c1, assignments |-> a4, ownership |-> j.ownership, seqs |-> q2]
    BY <2>2, <2>3, WithTasks
  <2> QED BY <2>4 DEF w
<1>6. Advanced(h, j, s, t) = j4
  <2> HIDE DEF j1, j2, j3, j4
  <2> QED BY <1>2, <1>3, <1>4, <1>5 DEF D!ApplyState, Advanced
<1>7. a4 = NextTasks(h, j, s, t)
  BY DEF NextTask, NextTasks
<1> HIDE DEF a4, q2
<1> QED BY <1>2, <1>6, <1>7 DEF q2

\* A task no longer about what the state says is dropped, or will be.
LEMMA ReplacedTask ==
  ASSUME NEW h, NEW k, NEW u, TaskShape(u), NEW s, NEW t, ~D(h)!Current(s, k, u)
  PROVE  LET v == NextTask(h, k, u, s, t)
         IN /\ TaskShape(v) /\ v.assignment = u.assignment /\ v.attempts = u.attempts
            /\ v.status = IF u.status \in {"done", "issued"} THEN u.status ELSE "dropped"
<1> DEFINE d == DropTask(h, k, u, s)
<1>1. d = D(h)!Drop(u, "replaced")
  <2>1. ~D(h)!HeldBack(s, k, u)
    BY DEF D!HeldBack
  <2> QED BY <2>1 DEF DropTask
<1>2. /\ TaskShape(d) /\ d.assignment = u.assignment /\ d.attempts = u.attempts
      /\ d.status = IF u.status \in {"done", "issued"} THEN u.status ELSE "dropped"
  <2> HIDE DEF d
  <2>1. CASE u.status \in {"done", "dropped"}
    <3>1. d = u
      BY <1>1, <2>1 DEF D!Drop
    <3> QED BY <2>1, <3>1
  <2>2. CASE u.status = "issued"
    <3>1. PICK r : d = [u EXCEPT !.dropReason = r]
      BY <1>1, <2>2 DEF D!Drop
    <3> QED BY <2>2, <3>1 DEF TaskShape
  <2>3. CASE u.status \notin {"done", "dropped", "issued"}
    <3>1. d = [u EXCEPT !.status = "dropped", !.dropReason = "replaced"]
      BY <1>1, <2>3 DEF D!Drop
    <3> QED BY <2>3, <3>1 DEF TaskShape
  <2> QED BY <2>1, <2>2, <2>3
<1>3. ArriveTask(h, k, d, s) = d
  <2> HIDE DEF d
  <2>1. ~D(h)!Current(s, k, d)
    BY <1>2 DEF D!Current
  <2> QED BY <2>1 DEF ArriveTask
<1>4. ExpireTask(h, d, t) = d
  <2> HIDE DEF d
  <2> QED BY <1>2 DEF ExpireTask
<1> HIDE DEF d
<1> QED BY <1>2, <1>3, <1>4 DEF NextTask, d

\* A task held back is dropped, and leaves the record.
LEMMA HeldBackTask ==
  ASSUME NEW h, NEW k, NEW u, TaskShape(u), NEW s, NEW t, D(h)!HeldBack(s, k, u)
  PROVE  LET v == NextTask(h, k, u, s, t)
         IN /\ TaskShape(v) /\ v.assignment = u.assignment /\ v.attempts = u.attempts
            /\ v.status = "dropped"
<1> DEFINE d == DropTask(h, k, u, s)
<1>1. D(h)!Current(s, k, u) /\ u.status \notin {"done", "dropped", "issued"}
  BY DEF D!HeldBack
<1>2. d = D(h)!Drop(u, "assignee not live")
  BY <1>1 DEF DropTask
<1> HIDE DEF d
<1>3. d = [u EXCEPT !.status = "dropped", !.dropReason = "assignee not live"]
  BY <1>1, <1>2 DEF D!Drop
<1>4. /\ TaskShape(d) /\ d.assignment = u.assignment /\ d.attempts = u.attempts
      /\ d.status = "dropped"
  BY <1>3 DEF TaskShape
<1>5. ArriveTask(h, k, d, s) = d /\ ExpireTask(h, d, t) = d
  BY <1>4 DEF ArriveTask, ExpireTask
<1> QED BY <1>4, <1>5 DEF NextTask, d

\* Any other task goes on, has arrived, or has waited for its window.
LEMMA OngoingTask ==
  ASSUME NEW h, NEW k, NEW u, TaskShape(u), NEW s, NEW t,
         D(h)!Current(s, k, u), ~D(h)!HeldBack(s, k, u)
  PROVE  LET v == NextTask(h, k, u, s, t)
         IN /\ TaskShape(v) /\ v.assignment = u.assignment /\ v.attempts = u.attempts
            /\ v.dropReason = u.dropReason
            /\ \/ v.status = u.status
               \/ v.status = "done" /\ u.status \in {"awaitingArrival", "failed"}
                    /\ s.assignments[k].arrived
               \/ v.status = "failed" /\ u.status = "awaitingArrival"
<1> DEFINE a == ArriveTask(h, k, u, s)
<1>1. DropTask(h, k, u, s) = u
  BY DEF DropTask
<1>2. /\ TaskShape(a) /\ a.assignment = u.assignment /\ a.attempts = u.attempts
      /\ a.dropReason = u.dropReason
      /\ \/ a.status = u.status
         \/ a.status = "done" /\ u.status \in {"awaitingArrival", "failed"}
              /\ s.assignments[k].arrived
  <2>1. CASE a = u
    BY <2>1
  <2>2. CASE a # u
    <3> HIDE DEF a
    <3>1. a = [u EXCEPT !.status = "done"] /\ u.status \in {"awaitingArrival", "failed"}
          /\ s.assignments[k].arrived
      BY <2>2 DEF ArriveTask, a
    <3> QED BY <3>1 DEF TaskShape
  <2> QED BY <2>1, <2>2
<1> HIDE DEF a
<1> DEFINE e == ExpireTask(h, a, t)
<1>3. /\ TaskShape(e) /\ e.assignment = a.assignment /\ e.attempts = a.attempts
      /\ e.dropReason = a.dropReason
      /\ \/ e.status = a.status
         \/ e.status = "failed" /\ a.status = "awaitingArrival"
  <2>1. CASE e = a
    BY <1>2, <2>1
  <2>2. CASE e # a
    <3> HIDE DEF e
    <3>1. e = [a EXCEPT !.status = "failed"] /\ a.status = "awaitingArrival"
      BY <2>2 DEF ExpireTask, e
    <3> QED BY <1>2, <3>1 DEF TaskShape
  <2> QED BY <2>1, <2>2
<1> HIDE DEF e
<1>4. NextTask(h, k, u, s, t) = e
  BY <1>1 DEF NextTask, a, e
<1> QED BY <1>2, <1>3, <1>4

\* What a state makes of a task of the job in flight.  What is due afterwards
\* is about the assignment that the state lists.
LEMMA AdvancedTask ==
  ASSUME NEW W, WorldOK(W), NEW h \in Hosts, NEW m, NEW w, LatestInv(m, W), m.latest # None,
         NEW k, NEW u, NEW n, TaskInv(h, m, w, k, u, n, W), NEW t
  PROVE  LET v == NextTask(h, k, u, m.latest, t)
             q == IF D(h)!HeldBack(m.latest, k, u) THEN 0 ELSE n
         IN /\ TaskInv(h, m, w, k, v, q, W)
            /\ v.status \in {"pending", "failed"} => D(h)!Current(m.latest, k, v)
<1> DEFINE v == NextTask(h, k, u, m.latest, t)
           q == IF D(h)!HeldBack(m.latest, k, u) THEN 0 ELSE n
           a == u.assignment
           s == m.latest
<1>1. /\ TaskShape(u) /\ Known(k, a, W) /\ a.assignee \in Hosts \ {h}
      /\ n \in {0, a.seq} /\ m.handled.seqs[k] < a.seq /\ Heard(m, k, a.seq)
      /\ a.seq = s.assignments[k].seq => a.assignee = s.assignments[k].assignee
      /\ u.status = "issued" => k \in DOMAIN w.moves /\ w.moves[k].of = a
      /\ n # 0 /\ a.seq = W.a[k].seq => NewestTask(h, w, k, u, W)
  BY DEF TaskInv
<1>2. k \in DOMAIN s.assignments /\ Known(k, s.assignments[k], W) /\ k \in DOMAIN W.a
  BY <1>1 DEF Heard, LatestInv, Known
<1> HIDE DEF v
<1>3. CASE ~D(h)!Current(s, k, u)
  <2>1. /\ TaskShape(v) /\ v.assignment = a /\ v.status # "pending" /\ v.status # "failed"
        /\ v.status = "issued" => u.status = "issued"
    BY <1>1, <1>3, ReplacedTask DEF v
  <2>2. a.seq # W.a[k].seq
    BY <1>1, <1>2, <1>3 DEF D!Current, Heard, Known, WorldOK
  <2>3. q \in {0, a.seq}
    BY <1>1
  <2> HIDE DEF q
  <2> QED BY <1>1, <2>1, <2>2, <2>3 DEF TaskInv, v, q
<1>4. CASE D(h)!HeldBack(s, k, u)
  <2>1. TaskShape(v) /\ v.assignment = a /\ v.status = "dropped"
    BY <1>1, <1>4, HeldBackTask DEF v
  <2>2. q = 0
    BY <1>4
  <2> HIDE DEF q
  <2> QED BY <1>1, <2>1, <2>2 DEF TaskInv, v, q
<1>5. CASE D(h)!Current(s, k, u) /\ ~D(h)!HeldBack(s, k, u)
  <2>1. /\ TaskShape(v) /\ v.assignment = a /\ v.attempts = u.attempts
        /\ v.dropReason = u.dropReason
        /\ \/ v.status = u.status
           \/ v.status = "done" /\ u.status \in {"awaitingArrival", "failed"}
                /\ s.assignments[k].arrived
           \/ v.status = "failed" /\ u.status = "awaitingArrival"
    BY <1>1, <1>5, OngoingTask DEF v
  <2>2. q = n
    BY <1>5
  <2>3. ASSUME n # 0, a.seq = W.a[k].seq PROVE NewestTask(h, w, k, v, W)
    <3>1. NewestTask(h, w, k, u, W)
      BY <1>1, <2>3
    <3>2. CASE v.status = u.status
      BY <2>1, <3>1, <3>2 DEF NewestTask, Failures
    <3>3. CASE v.status = "done" /\ s.assignments[k].arrived
      <4>1. <<h, k>> \in W.free
        BY <1>2, <1>5, <2>3, <3>3 DEF LatestInv, D!Current, WorldOK
      <4> QED BY <2>1, <3>1, <3>3, <4>1 DEF NewestTask
    <3>4. CASE v.status = "failed" /\ u.status = "awaitingArrival"
      <4>1. Failures(w, k, v) = u.attempts /\ Failures(w, k, u) = u.attempts
        BY <2>1, <3>4 DEF Failures
      <4> QED BY <2>1, <3>1, <3>4, <4>1 DEF NewestTask
    <3> QED BY <2>1, <3>2, <3>3, <3>4
  <2>4. D(h)!Current(s, k, v)
    BY <1>5, <2>1 DEF D!Current
  <2>5. v.status = "issued" => u.status = "issued"
    BY <2>1
  <2> HIDE DEF q
  <2>6. TaskInv(h, m, w, k, v, q, W)
    BY <1>1, <2>1, <2>2, <2>3, <2>5 DEF TaskInv
  <2> QED BY <2>4, <2>6 DEF v, q
<1> QED BY <1>3, <1>4, <1>5

LEMMA AdvancedInv ==
  ASSUME NEW W, WorldOK(W), NEW h \in Hosts, NEW m, NEW w, AgentInv(h, m, w, W),
         m.job # None, NEW t
  PROVE  LET j == Advanced(h, m.job, m.latest, t)
         IN /\ JobInv(h, m, w, j, W)
            /\ \A k \in DOMAIN j.assignments :
                 j.assignments[k].status \in {"pending", "failed"} =>
                   D(h)!Current(m.latest, k, j.assignments[k])
<1> DEFINE i == m.job
           j == Advanced(h, i, m.latest, t)
<1>1. /\ LatestInv(m, W) /\ m.latest # None
      /\ JobShape(i)
      /\ \A k \in DOMAIN i.assignments : TaskInv(h, m, w, k, i.assignments[k], i.seqs[k], W)
      /\ \A k \in Keys \ DOMAIN i.assignments :
           i.seqs[k] # 0 => RecordInv(h, m, k, i.seqs[k], W)
  BY DEF AgentInv, JobInv
<1> HIDE DEF i
<1>2. PICK c : /\ j = [commands |-> c, assignments |-> NextTasks(h, i, m.latest, t),
                       ownership |-> i.ownership, seqs |-> NextSeqs(h, i, m.latest)]
               /\ c = [n \in DOMAIN c |-> c[n]] /\ (i.commands = <<>> => c = <<>>)
  BY <1>1, AdvancedJob
<1> HIDE DEF j
<1>3. JobShape(j)
  <2>1. NextSeqs(h, i, m.latest) \in [Keys -> Nat]
    BY <1>1 DEF NextSeqs, JobShape
  <2> QED BY <1>1, <1>2, <2>1 DEF JobShape, NextTasks
<1>4. ASSUME NEW k \in DOMAIN j.assignments
      PROVE  /\ TaskInv(h, m, w, k, j.assignments[k], j.seqs[k], W)
             /\ j.assignments[k].status \in {"pending", "failed"} =>
                  D(h)!Current(m.latest, k, j.assignments[k])
  <2>1. k \in DOMAIN i.assignments /\ k \in Keys
        /\ j.assignments[k] = NextTask(h, k, i.assignments[k], m.latest, t)
    BY <1>1, <1>2 DEF JobShape, NextTasks
  <2>2. j.seqs[k] = IF D(h)!HeldBack(m.latest, k, i.assignments[k]) THEN 0 ELSE i.seqs[k]
    BY <1>2, <2>1 DEF NextSeqs
  <2>3. TaskInv(h, m, w, k, i.assignments[k], i.seqs[k], W)
    BY <1>1, <2>1
  <2> QED BY <1>1, <2>1, <2>2, <2>3, AdvancedTask
<1>5. ASSUME NEW k \in Keys \ DOMAIN j.assignments, j.seqs[k] # 0
      PROVE  RecordInv(h, m, k, j.seqs[k], W)
  <2>1. k \notin DOMAIN i.assignments /\ j.seqs[k] = i.seqs[k]
    BY <1>2, <1>5 DEF NextSeqs, NextTasks
  <2> QED BY <1>1, <1>5, <2>1
<1> QED BY <1>3, <1>4, <1>5 DEF JobInv, j, i

\* What is said of a job depends on the record kept and on the state heard.
LEMMA SameRecord ==
  ASSUME NEW W, NEW h, NEW m, NEW o, NEW w, NEW j, JobInv(h, m, w, j, W),
         o.handled = m.handled, o.latest = m.latest
  PROVE  JobInv(h, o, w, j, W)
<1>1. ASSUME NEW k, NEW t, NEW n, TaskInv(h, m, w, k, t, n, W)
      PROVE  TaskInv(h, o, w, k, t, n, W)
  BY <1>1 DEF TaskInv, Heard
<1>2. ASSUME NEW k, NEW n, RecordInv(h, m, k, n, W)
      PROVE  RecordInv(h, o, k, n, W)
  BY <1>2 DEF RecordInv, Heard
<1> QED BY <1>1, <1>2 DEF JobInv

LEMMA DeciderJob ==
  ASSUME NEW a, NEW b, NEW c, NEW d, NEW e, NEW f, NEW j, NEW m, NEW o,
         m = [handled |-> a, job |-> b, limiter |-> c, latest |-> d, lastAttach |-> e,
              claimedAttach |-> f],
         o = [m EXCEPT !.job = j]
  PROVE  o = [handled |-> a, job |-> j, limiter |-> c, latest |-> d, lastAttach |-> e,
              claimedAttach |-> f]
OBVIOUS

LEMMA DeciderRecord ==
  ASSUME NEW a, NEW b, NEW c, NEW d, NEW e, NEW f, NEW r, NEW l, NEW m, NEW o,
         m = [handled |-> a, job |-> b, limiter |-> c, latest |-> d, lastAttach |-> e,
              claimedAttach |-> f],
         o = [m EXCEPT !.handled = r, !.job = None, !.limiter = l]
  PROVE  o = [handled |-> r, job |-> None, limiter |-> l, latest |-> d, lastAttach |-> e,
              claimedAttach |-> f]
OBVIOUS

LEMMA Recording ==
  ASSUME NEW m, DeciderShape(m), NEW r, NEW l, NEW o,
         o = [m EXCEPT !.handled = r, !.job = None, !.limiter = l]
  PROVE  o = [handled |-> r, job |-> None, limiter |-> l, latest |-> m.latest,
              lastAttach |-> 0, claimedAttach |-> 0]
<1>1. PICK a, b, c, d : m = [handled |-> a, job |-> b, limiter |-> c, latest |-> d,
                             lastAttach |-> 0, claimedAttach |-> 0]
  BY Zenon DEF DeciderShape
<1>2. d = m.latest
  BY <1>1
<1>3. o = [handled |-> r, job |-> None, limiter |-> l, latest |-> d,
           lastAttach |-> 0, claimedAttach |-> 0]
  BY <1>1, DeciderRecord
<1> QED BY <1>2, <1>3

\* The agent goes on with the job j, or with none.
LEMMA WithJob ==
  ASSUME NEW W, NEW h, NEW m, NEW w, DeciderShape(m), LatestInv(m, W), HandledInv(h, m, W),
         NEW v, NEW j, j # None => m.latest # None /\ JobInv(h, m, v, j, W)
  PROVE  LET o == [m EXCEPT !.job = j]
         IN /\ AgentInv(h, o, v, W)
            /\ o.handled = m.handled /\ o.latest = m.latest /\ o.job = j
<1> DEFINE o == [m EXCEPT !.job = j]
<1>1. o.handled = m.handled /\ o.latest = m.latest /\ o.job = j /\ DeciderShape(o)
  <2>1. o = [handled |-> m.handled, job |-> j, limiter |-> m.limiter, latest |-> m.latest,
             lastAttach |-> 0, claimedAttach |-> 0]
    <3> HIDE DEF o
    <3>1. o = [m EXCEPT !.job = j]
      BY DEF o
    <3> QED BY <3>1, DeciderJob DEF DeciderShape
  <2> HIDE DEF o
  <2> QED BY <2>1 DEF DeciderShape
<1> HIDE DEF o
<1>2. LatestInv(o, W)
  BY <1>1 DEF LatestInv
<1>3. HandledInv(h, o, W)
  BY <1>1 DEF HandledInv, Heard
<1>4. j # None => o.latest # None /\ JobInv(h, o, v, j, W)
  BY <1>1, SameRecord
<1> QED BY <1>1, <1>2, <1>3, <1>4 DEF AgentInv, o

-----------------------------------------------------------------------------
(* The end of a job: what it did is recorded.                              *)

LEMMA EndRecord ==
  ASSUME NEW W, WorldOK(W), NEW h \in Hosts, NEW m, NEW w, HandledInv(h, m, W), LatestInv(m, W),
         NEW j, JobInv(h, m, w, j, W), D(h)!Settled(j)
  PROVE  LET r == D(h)!AddRecord(m.handled, j)
         IN /\ r \in Records
            /\ \A k \in Keys : \/ r.seqs[k] = m.handled.seqs[k]
                               \/ /\ m.handled.seqs[k] < r.seqs[k] /\ Heard(m, k, r.seqs[k])
                                  /\ r.seqs[k] = W.a[k].seq => <<h, k>> \in W.free
<1> DEFINE r == D(h)!AddRecord(m.handled, j)
<1>1. JobShape(j) /\ m.handled \in Records
  BY DEF JobInv, HandledInv
<1>2. r = [ownership |-> IF j.ownership # None THEN j.ownership ELSE m.handled.ownership,
           seqs |-> [k \in Keys |-> IF j.seqs[k] # 0 THEN j.seqs[k] ELSE m.handled.seqs[k]]]
  BY DEF D!AddRecord, D!Keys, Keys
<1> HIDE DEF r
<1>3. r \in Records
  <2>1. r.ownership \in [owner : Hosts \cup {NoHost}, activation : Nat]
    BY <1>1, <1>2 DEF JobShape, Records
  <2>2. r.seqs \in [Keys -> Nat]
    BY <1>1, <1>2 DEF JobShape, Records
  <2> QED BY <1>2, <2>1, <2>2 DEF Records
<1>4. ASSUME NEW k \in Keys, j.seqs[k] # 0
      PROVE  /\ m.handled.seqs[k] < j.seqs[k] /\ Heard(m, k, j.seqs[k])
             /\ j.seqs[k] = W.a[k].seq => <<h, k>> \in W.free
  <2>1. CASE k \notin DOMAIN j.assignments
    BY <1>4, <2>1 DEF JobInv, RecordInv
  <2>2. CASE k \in DOMAIN j.assignments
    <3> DEFINE u == j.assignments[k]
    <3>1. TaskInv(h, m, w, k, u, j.seqs[k], W)
      BY <2>2 DEF JobInv
    <3>2. D(h)!Over(u)
      BY <2>2 DEF D!Settled, D!EveryTask
    <3> HIDE DEF u
    <3>3. j.seqs[k] = u.assignment.seq
      BY <1>4, <3>1 DEF TaskInv
    <3>4. ASSUME j.seqs[k] = W.a[k].seq PROVE <<h, k>> \in W.free
      <4>1. NewestTask(h, w, k, u, W) /\ TaskShape(u)
        BY <1>4, <3>1, <3>3, <3>4 DEF TaskInv
      <4>2. CASE u.status = "done"
        BY <4>1, <4>2 DEF NewestTask
      <4>3. CASE u.status = "failed" /\ ~D(h)!Retriable(u)
        <5>1. u.attempts >= 1 + SwitchRetries
          BY <4>1, <4>3, CasesAssumption DEF D!Retriable, D!MaxAttempts, TaskShape
        <5>2. Failures(w, k, u) = u.attempts
          BY <4>3 DEF Failures
        <5> QED BY <4>1, <5>1, <5>2, CasesAssumption DEF NewestTask, WorldOK, TaskShape
      <4> QED BY <3>2, <4>1, <4>2, <4>3 DEF NewestTask, D!Over
    <3> QED BY <3>1, <3>3, <3>4 DEF TaskInv
  <2> QED BY <2>1, <2>2
<1>5. \A k \in Keys : r.seqs[k] = IF j.seqs[k] # 0 THEN j.seqs[k] ELSE m.handled.seqs[k]
  BY <1>2
<1> QED BY <1>3, <1>4, <1>5 DEF r

Pending(h, m) == IF m.latest = None THEN {} ELSE D(h)!PendingKeys(m.handled, m.latest)

LEMMA EndInv ==
  ASSUME NEW W, WorldOK(W), NEW h \in Hosts, NEW m, NEW w, DeciderShape(m), HandledInv(h, m, W),
         LatestInv(m, W), m.latest # None, NEW j, JobInv(h, m, w, j, W), D(h)!Settled(j), NEW l
  PROVE  LET o == [m EXCEPT !.handled = D(h)!AddRecord(m.handled, j), !.job = None,
                            !.limiter = l]
         IN AgentInv(h, o, w, W) /\ o.latest = m.latest /\ Pending(h, o) \subseteq Pending(h, m)
<1> DEFINE r == D(h)!AddRecord(m.handled, j)
           o == [m EXCEPT !.handled = r, !.job = None, !.limiter = l]
<1>1. /\ r \in Records
      /\ \A k \in Keys : \/ r.seqs[k] = m.handled.seqs[k]
                         \/ /\ m.handled.seqs[k] < r.seqs[k] /\ Heard(m, k, r.seqs[k])
                            /\ r.seqs[k] = W.a[k].seq => <<h, k>> \in W.free
  BY EndRecord
<1> HIDE DEF r
<1>2. o.handled = r /\ o.latest = m.latest /\ o.job = None /\ DeciderShape(o)
  <2>1. o = [handled |-> r, job |-> None, limiter |-> l, latest |-> m.latest,
             lastAttach |-> 0, claimedAttach |-> 0]
    <3> HIDE DEF o
    <3>1. o = [m EXCEPT !.handled = r, !.job = None, !.limiter = l]
      BY DEF o
    <3> QED BY <3>1, Recording
  <2> HIDE DEF o
  <2> QED BY <2>1 DEF DeciderShape
<1> HIDE DEF o
<1>3. LatestInv(o, W)
  BY <1>2 DEF LatestInv
<1>4. HandledInv(h, o, W)
  <2>1. ASSUME NEW k \in Keys, r.seqs[k] # 0
        PROVE  /\ k \in DOMAIN W.a /\ r.seqs[k] <= W.a[k].seq
               /\ Heard(m, k, r.seqs[k])
               /\ r.seqs[k] = W.a[k].seq => <<h, k>> \in W.free
    <3>1. CASE r.seqs[k] = m.handled.seqs[k]
      BY <2>1, <3>1 DEF HandledInv
    <3>2. CASE Heard(m, k, r.seqs[k]) /\ (r.seqs[k] = W.a[k].seq => <<h, k>> \in W.free)
      <4>1. Known(k, m.latest.assignments[k], W) /\ r.seqs[k] <= m.latest.assignments[k].seq
        BY <3>2 DEF LatestInv, Heard
      <4>2. r.seqs[k] \in Nat
        BY <1>1 DEF Records
      <4> QED BY <3>2, <4>1, <4>2 DEF Known, WorldOK
    <3> QED BY <1>1, <3>1, <3>2
  <2> QED BY <1>1, <1>2, <2>1 DEF HandledInv, Heard
<1>5. Pending(h, o) \subseteq Pending(h, m)
  <2> SUFFICES ASSUME NEW k \in DOMAIN m.latest.assignments,
                      m.handled.seqs[k] = m.latest.assignments[k].seq
               PROVE  r.seqs[k] = m.latest.assignments[k].seq
    BY <1>2 DEF Pending, D!PendingKeys, D!Has
  <2>1. Known(k, m.latest.assignments[k], W)
    BY DEF LatestInv
  <2>2. k \in Keys /\ m.handled.seqs[k] \in Nat /\ r.seqs[k] \in Nat
    BY <1>1, <2>1 DEF Known, WorldOK, HandledInv, Records
  <2>3. ~(m.handled.seqs[k] < r.seqs[k] /\ r.seqs[k] <= m.latest.assignments[k].seq)
    BY <2>2
  <2> QED BY <1>1, <2>2, <2>3 DEF Heard
<1> QED BY <1>2, <1>3, <1>4, <1>5 DEF AgentInv, o, r

-----------------------------------------------------------------------------
(* An issue: what is due goes to the worker.                               *)

LEMMA NonePicked == ASSUME NEW h, NEW P PROVE D(h)!AtPositions(<<>>, P) = <<>>
<1> DEFINE Keeps(f) == f = [n \in 0..Len(<<>>) |->
                              IF n = 0 THEN <<>>
                              ELSE IF n \in P THEN Append(f[n - 1], <<>>[n]) ELSE f[n - 1]]
           g == [n \in 0..0 |-> <<>>]
           f == CHOOSE f : Keeps(f)
<1>1. Len(<<>>) = 0
  OBVIOUS
<1>2. Keeps(g)
  <2>1. \A n \in 0..0 : n = 0
    OBVIOUS
  <2> QED BY <1>1, <2>1
<1>3. Keeps(f)
  <2> HIDE DEF g, Keeps
  <2> QED BY <1>2
<1>4. D(h)!AtPositions(<<>>, P) = f[Len(<<>>)]
  <2> HIDE DEF g
  <2> QED BY DEF D!AtPositions
<1> HIDE DEF f
<1> QED BY <1>1, <1>3, <1>4

Started(h, t, j) == Issued(D(h)!IssueDecision(t, j))

\* The issue v of the job j at time t.
IsStart(h, t, j, v) ==
  /\ v = [run |-> v.run, moves |-> v.moves]
  /\ v.run = [i \in DOMAIN v.run |-> v.run[i]]
  /\ v.moves = [k \in DOMAIN v.moves |-> v.moves[k]]
  /\ DOMAIN v.moves = D(h)!DueKeys(t, j)
  /\ \A k \in DOMAIN v.moves :
       v.moves[k] = [of |-> j.assignments[k].assignment, result |-> None]
  /\ j.commands = <<>> => v.run = <<>>
  /\ \A i \in DOMAIN v.run : CommandShape(v.run[i]) /\ v.run[i].here \in {None, {}}

LEMMA StartedIs ==
  ASSUME NEW h, NEW t, NEW j PROVE IsStart(h, t, j, Started(h, t, j))
<1> DEFINE d == D(h)!IssueDecision(t, j)
           v == Started(h, t, j)
<1>1. /\ d.run = [i \in DOMAIN D(h)!DueCommands(t, j) |-> D(h)!DueCommands(t, j)[i].cmd]
      /\ d.giveAway = [k \in D(h)!DueKeys(t, j) |-> j.assignments[k].assignment]
  BY DEF D!IssueDecision
<1> HIDE DEF d
<1>2. v = [run   |-> [i \in DOMAIN d.run |-> [cmd |-> d.run[i], result |-> None,
                        here |-> IF d.run[i].run = "take-hid" THEN None ELSE {}]],
           moves |-> [k \in DOMAIN d.giveAway |-> [of |-> d.giveAway[k], result |-> None]]]
  BY DEF Started, Issued, d
<1> HIDE DEF v
<1>3. v = [run |-> v.run, moves |-> v.moves] /\ v.run = [i \in DOMAIN v.run |-> v.run[i]]
  BY <1>2
<1>4. /\ v.moves = [k \in DOMAIN v.moves |-> v.moves[k]]
      /\ DOMAIN v.moves = D(h)!DueKeys(t, j)
      /\ \A k \in DOMAIN v.moves :
           v.moves[k] = [of |-> j.assignments[k].assignment, result |-> None]
  BY <1>1, <1>2
<1>5. ASSUME j.commands = <<>> PROVE v.run = <<>>
  <2>1. D(h)!DueCommands(t, j) = <<>>
    BY <1>5, NonePicked DEF D!DueCommands
  <2>2. DOMAIN v.run = {}
    BY <1>1, <1>2, <2>1
  <2> QED BY <1>3, <2>2, NoElement
<1>6. ASSUME NEW i \in DOMAIN v.run
      PROVE  CommandShape(v.run[i]) /\ v.run[i].here \in {None, {}}
  BY <1>2 DEF CommandShape
<1> QED BY <1>3, <1>4, <1>5, <1>6 DEF IsStart, v

IssuedTask(h, t, u) == IF D(h)!Due(t, u) THEN D(h)!IssueTask(t, u) ELSE u
IssuedTasks(h, t, j) == [k \in DOMAIN j.assignments |-> IssuedTask(h, t, j.assignments[k])]

LEMMA IssuedFields ==
  ASSUME NEW a, NEW b, NEW c, NEW d, NEW e, NEW f, NEW g, NEW u, NEW i, NEW n, NEW t,
         u = [status |-> a, attempts |-> b, lastIssued |-> c, dropReason |-> d,
              assignment |-> e, triedToMove |-> f, sentAt |-> g],
         i = [u EXCEPT !.status = "issued", !.attempts = n, !.lastIssued = t]
  PROVE  i = [status |-> "issued", attempts |-> n, lastIssued |-> t, dropReason |-> d,
              assignment |-> e, triedToMove |-> f, sentAt |-> g]
OBVIOUS

LEMMA IssuedTaskInv ==
  ASSUME NEW W, NEW h, NEW m, NEW w, NEW k, NEW u, NEW n, TaskInv(h, m, w, k, u, n, W),
         u.status # "issued", NEW v, NEW t,
         D(h)!Due(t, u) =>
           k \in DOMAIN v.moves /\ v.moves[k] = [of |-> u.assignment, result |-> None]
  PROVE  TaskInv(h, m, v, k, IssuedTask(h, t, u), n, W)
<1> DEFINE i == IssuedTask(h, t, u)
<1>1. CASE ~D(h)!Due(t, u)
  <2>1. i = u
    BY <1>1 DEF IssuedTask
  <2> HIDE DEF i
  <2> QED BY <2>1 DEF TaskInv, NewestTask, Failures, i
<1>2. CASE D(h)!Due(t, u)
  <2>1. i = [u EXCEPT !.status = "issued", !.attempts = u.attempts + 1, !.lastIssued = t]
    BY <1>2 DEF IssuedTask, D!IssueTask
  <2>2. TaskShape(u)
    BY DEF TaskInv
  <2> HIDE DEF i
  <2>3. /\ TaskShape(i) /\ i.status = "issued" /\ i.attempts = u.attempts + 1
        /\ i.dropReason = u.dropReason /\ i.assignment = u.assignment
    <3>1. PICK a, b, c, d, e, f, g :
            u = [status |-> a, attempts |-> b, lastIssued |-> c, dropReason |-> d,
                 assignment |-> e, triedToMove |-> f, sentAt |-> g]
      BY <2>2, Zenon DEF TaskShape
    <3>2. i = [status |-> "issued", attempts |-> u.attempts + 1, lastIssued |-> t,
               dropReason |-> d, assignment |-> e, triedToMove |-> f, sentAt |-> g]
      BY <2>1, <3>1, IssuedFields
    <3>3. u.attempts \in Nat /\ d = u.dropReason /\ e = u.assignment
      BY <2>2, <3>1 DEF TaskShape
    <3> QED BY <3>2, <3>3 DEF TaskShape
  <2>4. ASSUME NewestTask(h, w, k, u, W) PROVE NewestTask(h, v, k, i, W)
    <3>1. v.moves[k].result = None
      BY <1>2
    <3>2. Failures(v, k, i) = u.attempts /\ Failures(w, k, u) = u.attempts
      BY <2>2, <2>3, <3>1 DEF Failures, TaskShape
    <3>3. ~Done(k, None)
      BY NothingYet DEF Results, Done
    <3> QED BY <2>3, <2>4, <3>1, <3>2, <3>3 DEF NewestTask
  <2>5. k \in DOMAIN v.moves /\ v.moves[k].of = i.assignment
    BY <1>2, <2>3
  <2> QED BY <2>3, <2>4, <2>5 DEF TaskInv, i
<1> QED BY <1>1, <1>2

LEMMA IssueInv ==
  ASSUME NEW W, NEW h, NEW m, NEW w, NEW j, JobInv(h, m, w, j, W), ~D(h)!Busy(j), NEW t, NEW v,
         \A k \in D(h)!DueKeys(t, j) :
           k \in DOMAIN v.moves /\ v.moves[k] = [of |-> j.assignments[k].assignment, result |-> None]
  PROVE  JobInv(h, m, v, D(h)!Issue(t, j), W)
<1> DEFINE i == D(h)!Issue(t, j)
           c == [n \in DOMAIN j.commands |-> IssuedTask(h, t, j.commands[n])]
<1>1. /\ JobShape(j)
      /\ \A k \in DOMAIN j.assignments : TaskInv(h, m, w, k, j.assignments[k], j.seqs[k], W)
      /\ \A k \in Keys \ DOMAIN j.assignments :
           j.seqs[k] # 0 => RecordInv(h, m, k, j.seqs[k], W)
  BY DEF JobInv
<1>2. c = [n \in DOMAIN c |-> c[n]] /\ (j.commands = <<>> => c = <<>>)
  <2>1. c = [n \in DOMAIN c |-> c[n]] /\ DOMAIN c = DOMAIN j.commands
    OBVIOUS
  <2> HIDE DEF c
  <2> QED BY <2>1, NoElement
<1>3. i = [commands |-> c, assignments |-> IssuedTasks(h, t, j),
           ownership |-> j.ownership, seqs |-> j.seqs]
  <2>1. i = [j EXCEPT !.commands = c, !.assignments = IssuedTasks(h, t, j)]
    BY DEF D!Issue, IssuedTask, IssuedTasks
  <2> HIDE DEF i, c
  <2> QED BY <1>1, <2>1, WithBoth DEF JobShape
<1> HIDE DEF i, c
<1>4. JobShape(i)
  BY <1>1, <1>2, <1>3 DEF JobShape, IssuedTasks
<1>5. ASSUME NEW k \in DOMAIN i.assignments
      PROVE  TaskInv(h, m, v, k, i.assignments[k], i.seqs[k], W)
  <2> DEFINE u == j.assignments[k]
  <2>1. k \in DOMAIN j.assignments /\ i.assignments[k] = IssuedTask(h, t, u)
        /\ i.seqs[k] = j.seqs[k]
    BY <1>3 DEF IssuedTasks
  <2>2. u.status # "issued"
    BY <2>1 DEF D!Busy, D!EveryTask
  <2>3. D(h)!Due(t, u) => /\ k \in DOMAIN v.moves
                          /\ v.moves[k] = [of |-> u.assignment, result |-> None]
    BY <2>1 DEF D!DueKeys
  <2>4. TaskInv(h, m, w, k, u, j.seqs[k], W)
    BY <1>1, <2>1
  <2> HIDE DEF u
  <2> QED BY <2>1, <2>2, <2>3, <2>4, IssuedTaskInv
<1>6. ASSUME NEW k \in Keys \ DOMAIN i.assignments, i.seqs[k] # 0
      PROVE  RecordInv(h, m, k, i.seqs[k], W)
  BY <1>1, <1>3, <1>6 DEF IssuedTasks
<1> QED BY <1>4, <1>5, <1>6 DEF JobInv, i

-----------------------------------------------------------------------------
(* A job starts: an ownership change, or what there is to give away.       *)

LEMMA OwnershipJobInv ==
  ASSUME NEW W, NEW h, NEW m, LatestInv(m, W), m.latest # None, NEW w, NEW list, NEW b
  PROVE  JobInv(h, m, w, D(h)!OwnershipChangeJob(m.latest, list, b), W)
<1> DEFINE j == D(h)!OwnershipChangeJob(m.latest, list, b)
<1>1. PICK c : /\ j = [commands |-> c, assignments |-> [k \in {} |-> None],
                       ownership |-> [owner |-> m.latest.owner,
                                      activation |-> m.latest.activation],
                       seqs |-> [k \in Keys |-> 0]]
               /\ c = [i \in DOMAIN c |-> c[i]]
  <2> DEFINE c == [i \in DOMAIN list |-> D(h)!Command(list[i], b, m.latest.activation)]
             e == [i \in DOMAIN c |-> D(h)!NewCommandTask(c[i])]
  <2>1. j = [commands |-> e, assignments |-> [k \in {} |-> None],
             ownership |-> [owner |-> m.latest.owner, activation |-> m.latest.activation],
             seqs |-> [k \in Keys |-> 0]]
    BY DEF D!OwnershipChangeJob, D!NewOwnershipJob, D!NoSeqs, D!Keys, Keys
  <2>2. e = [i \in DOMAIN e |-> e[i]]
    OBVIOUS
  <2> HIDE DEF e, j
  <2> QED BY <2>1, <2>2
<1> HIDE DEF j
<1>2. JobShape(j)
  <2>1. j.ownership \in [owner : Hosts \cup {NoHost}, activation : Nat]
    BY <1>1 DEF LatestInv, States
  <2>2. j.seqs \in [Keys -> Nat]
    BY <1>1
  <2>3. DOMAIN j.assignments = {} /\ j.assignments = [k \in DOMAIN j.assignments |-> j.assignments[k]]
    BY <1>1
  <2>4. j = [commands |-> j.commands, assignments |-> j.assignments,
             ownership |-> j.ownership, seqs |-> j.seqs]
        /\ j.commands = [i \in DOMAIN j.commands |-> j.commands[i]]
    BY <1>1
  <2> QED BY <2>1, <2>2, <2>3, <2>4 DEF JobShape
<1> QED BY <1>1, <1>2 DEF JobInv, j

\* What the state lists for k, and how a decider takes it.
LEMMA ListedTask ==
  ASSUME NEW W, WorldOK(W), NEW h \in Hosts, NEW m, HandledInv(h, m, W), LatestInv(m, W),
         m.latest # None, NEW k \in D(h)!PendingKeys(m.handled, m.latest)
  PROVE  LET a == m.latest.assignments[k]
         IN /\ k \in DOMAIN m.latest.assignments /\ k \in Keys
            /\ Known(k, a, W) /\ a.assignee \in Hosts \ {h}
            /\ m.handled.seqs[k] < a.seq /\ Heard(m, k, a.seq)
            /\ a.arrived /\ a.seq = W.a[k].seq => <<h, k>> \in W.free
<1> DEFINE a == m.latest.assignments[k]
<1>1. k \in DOMAIN m.latest.assignments /\ a.assignee # h /\ m.handled.seqs[k] # a.seq
  BY DEF D!PendingKeys, D!Has
<1>2. Known(k, a, W) /\ (a.seq = W.a[k].seq /\ a.arrived => W.a[k].arrived)
  BY <1>1 DEF LatestInv
<1>3. k \in Keys /\ k \in DOMAIN W.a
  BY <1>2 DEF Known, WorldOK
<1>4. a.assignee \in Hosts
  <2>1. m.latest.assignments \in
          UNION {[K -> [assignee : Hosts, prev : Hosts \cup {NoHost},
                        seq : Nat \ {0}, arrived : BOOLEAN]] : K \in SUBSET Keys}
    BY DEF LatestInv, States
  <2>2. PICK K \in SUBSET Keys :
          m.latest.assignments \in [K -> [assignee : Hosts, prev : Hosts \cup {NoHost},
                                          seq : Nat \ {0}, arrived : BOOLEAN]]
    BY <2>1
  <2> QED BY <1>1, <2>2
<1>5. a.seq \in Nat \ {0} /\ m.handled.seqs[k] \in Nat
  BY <1>2, <1>3 DEF Known, HandledInv, Records
<1>6. m.handled.seqs[k] < a.seq
  <2>1. CASE m.handled.seqs[k] = 0
    BY <1>5, <2>1
  <2>2. CASE m.handled.seqs[k] # 0
    <3>1. Heard(m, k, m.handled.seqs[k])
      BY <1>3, <2>2 DEF HandledInv
    <3> QED BY <1>1, <1>5, <3>1 DEF Heard
  <2> QED BY <2>1, <2>2
<1>7. a.seq <= a.seq
  BY <1>5
<1>8. a.arrived /\ a.seq = W.a[k].seq => <<h, k>> \in W.free
  BY <1>2, <1>3 DEF WorldOK
<1> HIDE DEF a
<1> QED BY <1>1, <1>2, <1>3, <1>4, <1>6, <1>7, <1>8 DEF Heard, a

LEMMA NewTask ==
  ASSUME NEW W, WorldOK(W), NEW h \in Hosts, NEW m, HandledInv(h, m, W), LatestInv(m, W),
         m.latest # None, NEW k \in D(h)!PendingKeys(m.handled, m.latest), NEW w
  PROVE  LET a == m.latest.assignments[k]
         IN TaskInv(h, m, w, k, D(h)!NewAssignmentTask(a), a.seq, W)
<1> DEFINE a == m.latest.assignments[k]
           u == D(h)!NewAssignmentTask(a)
<1>1. /\ Known(k, a, W) /\ a.assignee \in Hosts \ {h}
      /\ m.handled.seqs[k] < a.seq /\ Heard(m, k, a.seq)
  BY ListedTask
<1> HIDE DEF a
<1>2. u = [status |-> "pending", attempts |-> 0, lastIssued |-> 0, dropReason |-> "none",
           assignment |-> a, triedToMove |-> FALSE, sentAt |-> 0]
  BY DEF D!NewAssignmentTask
<1> HIDE DEF u
<1>3. TaskShape(u) /\ u.status = "pending" /\ u.assignment = a /\ u.dropReason = "none"
      /\ u.attempts = 0
  BY <1>2 DEF TaskShape
<1>4. NewestTask(h, w, k, u, W)
  BY <1>3, CasesAssumption DEF NewestTask, Failures
<1> QED BY <1>1, <1>3, <1>4 DEF TaskInv, a, u

LEMMA GiveAwayJobInv ==
  ASSUME NEW W, WorldOK(W), NEW h \in Hosts, NEW m, HandledInv(h, m, W), LatestInv(m, W),
         m.latest # None, NEW w, NEW t, D(h)!GiveAwayJob(m, t) # None
  PROVE  JobInv(h, m, w, D(h)!GiveAwayJob(m, t), W)
<1> DEFINE j == D(h)!GiveAwayJob(m, t)
           give == D(h)!WithVerdict(m, t, "giveNow")
           seen1 == D(h)!WithVerdict(m, t, "alreadyArrived")
           a == m.latest.assignments
           pend == D(h)!PendingKeys(m.handled, m.latest)
<1>1. j = [commands |-> <<>>, assignments |-> [k \in give |-> D(h)!NewAssignmentTask(a[k])],
           ownership |-> None,
           seqs |-> [k \in Keys |-> IF k \in give \cup seen1 THEN a[k].seq ELSE 0]]
  BY DEF D!GiveAwayJob, D!Keys, Keys
<1>2. give \subseteq pend /\ seen1 \subseteq pend
  BY DEF D!WithVerdict
<1>3. ASSUME NEW k \in seen1 PROVE a[k].arrived
  <2>1. D(h)!Verdict(t, m.latest, m.limiter, k) = "alreadyArrived"
    BY DEF D!WithVerdict
  <2>2. ASSUME ~a[k].arrived
        PROVE  D(h)!Verdict(t, m.latest, m.limiter, k) # "alreadyArrived"
    BY <2>2 DEF D!Verdict
  <2> QED BY <2>1, <2>2
<1>4. \A k \in pend :
        /\ k \in DOMAIN a /\ k \in Keys
        /\ Known(k, a[k], W) /\ a[k].assignee \in Hosts \ {h}
        /\ m.handled.seqs[k] < a[k].seq /\ Heard(m, k, a[k].seq)
        /\ a[k].arrived /\ a[k].seq = W.a[k].seq => <<h, k>> \in W.free
  BY ListedTask
<1>5. \A k \in pend : TaskInv(h, m, w, k, D(h)!NewAssignmentTask(a[k]), a[k].seq, W)
  BY NewTask
<1> HIDE DEF j, give, seen1, a, pend
<1>6. JobShape(j)
  <2>1. j.seqs \in [Keys -> Nat]
    <3>1. \A k \in Keys : (IF k \in give \cup seen1 THEN a[k].seq ELSE 0) \in Nat
      BY <1>2, <1>4 DEF Known
    <3> QED BY <1>1, <3>1
  <2>2. DOMAIN j.assignments \subseteq Keys
        /\ j.assignments = [k \in DOMAIN j.assignments |-> j.assignments[k]]
    BY <1>1, <1>2, <1>4
  <2>3. j.commands = [i \in DOMAIN j.commands |-> j.commands[i]]
    <3>1. j.commands = <<>>
      BY <1>1
    <3> QED BY <3>1, EmptyList
  <2> QED BY <1>1, <2>1, <2>2, <2>3 DEF JobShape
<1>7. ASSUME NEW k \in DOMAIN j.assignments
      PROVE  TaskInv(h, m, w, k, j.assignments[k], j.seqs[k], W)
  <2>1. k \in give /\ k \in pend /\ k \in Keys
    BY <1>1, <1>2, <1>4
  <2>2. j.assignments[k] = D(h)!NewAssignmentTask(a[k]) /\ j.seqs[k] = a[k].seq
    BY <1>1, <2>1
  <2> QED BY <1>5, <2>1, <2>2
<1>8. ASSUME NEW k \in Keys \ DOMAIN j.assignments, j.seqs[k] # 0
      PROVE  RecordInv(h, m, k, j.seqs[k], W)
  <2>1. k \in seen1 /\ j.seqs[k] = a[k].seq
    BY <1>1, <1>8
  <2> QED BY <1>2, <1>3, <1>4, <2>1 DEF RecordInv
<1> QED BY <1>6, <1>7, <1>8 DEF JobInv, j

LEMMA ReconcileInv ==
  ASSUME NEW W, WorldOK(W), NEW h \in Hosts, NEW m, HandledInv(h, m, W), LatestInv(m, W),
         m.latest # None, NEW w, NEW t, D(h)!Reconcile(m, t) # None
  PROVE  JobInv(h, m, w, D(h)!Reconcile(m, t), W)
<1>1. \/ \E list, b : D(h)!Reconcile(m, t) = D(h)!OwnershipChangeJob(m.latest, list, b)
      \/ D(h)!Reconcile(m, t) = D(h)!GiveAwayJob(m, t)
  BY DEF D!Reconcile
<1>2. CASE \E list, b : D(h)!Reconcile(m, t) = D(h)!OwnershipChangeJob(m.latest, list, b)
  BY <1>2, OwnershipJobInv
<1>3. CASE D(h)!Reconcile(m, t) = D(h)!GiveAwayJob(m, t)
  BY <1>3, GiveAwayJobInv
<1> QED BY <1>1, <1>2, <1>3

-----------------------------------------------------------------------------
(* The worker reports, and has no issue any more.                          *)

\* What is said of a task that is not issued does not depend on the worker.
LEMMA NotIssued ==
  ASSUME NEW W, NEW h, NEW m, NEW w, NEW v, NEW k, NEW u, NEW n, u.status # "issued",
         TaskInv(h, m, w, k, u, n, W)
  PROVE  TaskInv(h, m, v, k, u, n, W)
BY DEF TaskInv, NewestTask, Failures

LEMMA RanInv ==
  ASSUME NEW W, NEW h, NEW m, NEW w, NEW j, JobInv(h, m, w, j, W), DOMAIN w.moves = {},
         NEW v, NEW results
  PROVE  JobInv(h, m, v, D(h)!ReportRun(j, results), W)
<1> DEFINE i == D(h)!ReportRun(j, results)
<1>1. /\ JobShape(j)
      /\ \A k \in DOMAIN j.assignments : TaskInv(h, m, w, k, j.assignments[k], j.seqs[k], W)
      /\ \A k \in Keys \ DOMAIN j.assignments :
           j.seqs[k] # 0 => RecordInv(h, m, k, j.seqs[k], W)
  BY DEF JobInv
<1>2. PICK c : /\ i = [commands |-> c, assignments |-> j.assignments,
                       ownership |-> j.ownership, seqs |-> j.seqs]
               /\ c = [n \in DOMAIN c |-> c[n]] /\ (j.commands = <<>> => c = <<>>)
  <2> DEFINE f == i.commands
  <2>1. \E g : /\ i = [j EXCEPT !.commands = g]
               /\ g = [n \in DOMAIN j.commands |-> g[n]]
    <3> DEFINE at(n) == D(h)!Cardinality({l \in 1..n : j.commands[l].status = "issued"})
               result(n) == IF at(n) <= Len(results) THEN results[at(n)] ELSE "err"
               g == [n \in DOMAIN j.commands |->
                      IF j.commands[n].status = "issued"
                      THEN D(h)!Report(j.commands[n], result(n)) ELSE j.commands[n]]
    <3>1. i = [j EXCEPT !.commands = g]
      BY Zenon DEF D!ReportRun
    <3>2. g = [n \in DOMAIN j.commands |-> g[n]]
      OBVIOUS
    <3> HIDE DEF g, i
    <3> QED BY <3>1, <3>2
  <2>2. i = [j EXCEPT !.commands = f] /\ f = [n \in DOMAIN f |-> f[n]]
        /\ DOMAIN f = DOMAIN j.commands
    <3> PICK g : i = [j EXCEPT !.commands = g] /\ g = [n \in DOMAIN j.commands |-> g[n]]
      BY <2>1
    <3> HIDE DEF i
    <3>1. i = [commands |-> g, assignments |-> j.assignments,
               ownership |-> j.ownership, seqs |-> j.seqs]
      BY <1>1, WithCommands DEF JobShape
    <3> QED BY <3>1
  <2> HIDE DEF i, f
  <2>3. j.commands = <<>> => f = <<>>
    BY <2>2, NoElement
  <2> QED BY <1>1, <2>2, <2>3, WithCommands DEF JobShape
<1> HIDE DEF i
<1>3. JobShape(i)
  BY <1>1, <1>2 DEF JobShape
<1>4. ASSUME NEW k \in DOMAIN j.assignments
      PROVE  TaskInv(h, m, v, k, j.assignments[k], j.seqs[k], W)
  <2>1. TaskInv(h, m, w, k, j.assignments[k], j.seqs[k], W)
    BY <1>1
  <2>2. j.assignments[k].status # "issued"
    BY <2>1 DEF TaskInv
  <2> QED BY <2>1, <2>2, NotIssued
<1> QED BY <1>1, <1>2, <1>3, <1>4 DEF JobInv, i

ReportedTask(h, t, k, u, results) ==
  LET reported == k \in DOMAIN results
      result   == IF reported THEN results[k] ELSE "err"
      status   == D(h)!GiveAwayOutcome(k, reported, result)
  IN [u EXCEPT
        !.triedToMove = @ \/ ~reported \/ result # "notHere",
        !.sentAt = IF status = "awaitingArrival" THEN t ELSE @,
        !.status = IF u.dropReason # "none" /\ status # "done" THEN "dropped" ELSE status]
ReportedTasks(h, t, j, results) ==
  [k \in DOMAIN j.assignments |->
     IF j.assignments[k].status = "issued"
     THEN ReportedTask(h, t, k, j.assignments[k], results) ELSE j.assignments[k]]

LEMMA ReportedFields ==
  ASSUME NEW a, NEW b, NEW c, NEW d, NEW e, NEW f, NEW g, NEW u, NEW i, NEW x, NEW y, NEW z,
         u = [status |-> a, attempts |-> b, lastIssued |-> c, dropReason |-> d,
              assignment |-> e, triedToMove |-> f, sentAt |-> g],
         i = [u EXCEPT !.triedToMove = x, !.sentAt = y, !.status = z]
  PROVE  i = [status |-> z, attempts |-> b, lastIssued |-> c, dropReason |-> d,
              assignment |-> e, triedToMove |-> x, sentAt |-> y]
OBVIOUS

LEMMA ReportedIs ==
  ASSUME NEW h, NEW t, NEW k, NEW u, TaskShape(u), NEW results, k \in DOMAIN results,
         results[k] \in Results
  PROVE  LET i == ReportedTask(h, t, k, u, results)
         IN /\ TaskShape(i) /\ i.attempts = u.attempts /\ i.dropReason = u.dropReason
            /\ i.assignment = u.assignment /\ i.status # "issued"
            /\ u.dropReason = "none" =>
                 i.status = CASE results[k] = "notHere" -> "done"
                              [] results[k] = "err" -> "failed"
                              [] OTHER -> IF k \in Screens THEN "done" ELSE "awaitingArrival"
<1> DEFINE i == ReportedTask(h, t, k, u, results)
           s == D(h)!GiveAwayOutcome(k, TRUE, results[k])
           z == IF u.dropReason # "none" /\ s # "done" THEN "dropped" ELSE s
<1>1. s = CASE results[k] = "notHere" -> "done"
            [] results[k] = "err" -> "failed"
            [] OTHER -> IF k \in Screens THEN "done" ELSE "awaitingArrival"
  <2>1. results[k] = "ok" \/ results[k] = "err" \/ results[k] = "notHere"
    BY DEF Results
  <2>2. CASE results[k] = "ok"
    BY <2>2 DEF D!GiveAwayOutcome
  <2>3. CASE results[k] = "err"
    BY <2>3 DEF D!GiveAwayOutcome
  <2>4. CASE results[k] = "notHere"
    BY <2>4 DEF D!GiveAwayOutcome
  <2> QED BY <2>1, <2>2, <2>3, <2>4
<1>2. s \in {"done", "failed", "awaitingArrival"}
  BY <1>1
<1>3. \E x, y : i = [u EXCEPT !.triedToMove = x, !.sentAt = y, !.status = z]
  BY DEF ReportedTask
<1>4. z \in {"done", "failed", "awaitingArrival", "dropped"} /\ (u.dropReason = "none" => z = s)
  BY <1>2
<1> HIDE DEF i, z, s
<1>5. PICK x, y : i = [u EXCEPT !.triedToMove = x, !.sentAt = y, !.status = z]
  BY <1>3
<1>6. PICK a, b, c, d, e, f, g :
        u = [status |-> a, attempts |-> b, lastIssued |-> c, dropReason |-> d,
             assignment |-> e, triedToMove |-> f, sentAt |-> g]
  BY Zenon DEF TaskShape
<1>7. i = [status |-> z, attempts |-> b, lastIssued |-> c, dropReason |-> d,
           assignment |-> e, triedToMove |-> x, sentAt |-> y]
  BY <1>5, <1>6, ReportedFields
<1>8. u.attempts \in Nat /\ b = u.attempts /\ d = u.dropReason /\ e = u.assignment
  BY <1>6 DEF TaskShape
<1>9. TaskShape(i) /\ i.attempts = u.attempts /\ i.dropReason = u.dropReason
      /\ i.assignment = u.assignment /\ i.status = z
  BY <1>4, <1>7, <1>8 DEF TaskShape
<1> QED BY <1>1, <1>4, <1>9 DEF i

LEMMA ReportedTaskInv ==
  ASSUME NEW W, NEW h, NEW m, NEW w, NEW k, NEW u, NEW n, TaskInv(h, m, w, k, u, n, W),
         u.status = "issued", NEW results, k \in DOMAIN results, results[k] \in Results,
         results[k] = w.moves[k].result, NEW v, NEW t
  PROVE  TaskInv(h, m, v, k, ReportedTask(h, t, k, u, results), n, W)
<1> DEFINE i == ReportedTask(h, t, k, u, results)
<1>1. TaskShape(u)
  BY DEF TaskInv
<1>2. /\ TaskShape(i) /\ i.attempts = u.attempts /\ i.dropReason = u.dropReason
      /\ i.assignment = u.assignment /\ i.status # "issued"
      /\ u.dropReason = "none" =>
           i.status = CASE results[k] = "notHere" -> "done"
                        [] results[k] = "err" -> "failed"
                        [] OTHER -> IF k \in Screens THEN "done" ELSE "awaitingArrival"
  BY <1>1, ReportedIs
<1> HIDE DEF i
<1>3. ASSUME NewestTask(h, w, k, u, W) PROVE NewestTask(h, v, k, i, W)
  <2>1. results[k] \in {"ok", "notHere", "err"} /\ results[k] # None
    BY NothingYet DEF Results
  <2>2. Failures(w, k, u) = u.attempts /\ Failures(v, k, i) = u.attempts
    BY <1>2, <2>1 DEF Failures
  <2>3. i.status \in {"done", "failed", "awaitingArrival"}
        /\ (i.status = "done" => Done(k, results[k]))
    <3>1. u.dropReason = "none"
      BY <1>3 DEF NewestTask
    <3>2. CASE results[k] = "err"
      BY <1>2, <3>1, <3>2
    <3>3. CASE results[k] = "ok"
      BY <1>2, <3>1, <3>3 DEF Done
    <3>4. CASE results[k] = "notHere"
      BY <1>2, <3>1, <3>4 DEF Done
    <3> QED BY <2>1, <3>2, <3>3, <3>4
  <2> QED BY <1>2, <1>3, <2>1, <2>2, <2>3 DEF NewestTask
<1> QED BY <1>2, <1>3 DEF TaskInv, i

LEMMA GaveAwayInv ==
  ASSUME NEW W, NEW h, NEW m, NEW w, NEW j, JobInv(h, m, w, j, W), NEW results,
         DOMAIN results = DOMAIN w.moves,
         \A k \in DOMAIN w.moves : results[k] \in Results /\ results[k] = w.moves[k].result,
         NEW v, NEW t
  PROVE  JobInv(h, m, v, D(h)!ReportGiveAway(t, j, results), W)
<1> DEFINE i == D(h)!ReportGiveAway(t, j, results)
<1>1. /\ JobShape(j)
      /\ \A k \in DOMAIN j.assignments : TaskInv(h, m, w, k, j.assignments[k], j.seqs[k], W)
      /\ \A k \in Keys \ DOMAIN j.assignments :
           j.seqs[k] # 0 => RecordInv(h, m, k, j.seqs[k], W)
  BY DEF JobInv
<1>2. i = [commands |-> j.commands, assignments |-> ReportedTasks(h, t, j, results),
           ownership |-> j.ownership, seqs |-> j.seqs]
  <2>1. i = [j EXCEPT !.assignments = ReportedTasks(h, t, j, results)]
    BY DEF D!ReportGiveAway, ReportedTasks, ReportedTask
  <2> HIDE DEF i
  <2> QED BY <1>1, <2>1, WithTasks DEF JobShape
<1> HIDE DEF i
<1>3. JobShape(i)
  BY <1>1, <1>2 DEF JobShape, ReportedTasks
<1>4. ASSUME NEW k \in DOMAIN j.assignments
      PROVE  TaskInv(h, m, v, k, i.assignments[k], j.seqs[k], W)
  <2> DEFINE u == j.assignments[k]
  <2>1. TaskInv(h, m, w, k, u, j.seqs[k], W)
    BY <1>1
  <2>2. i.assignments[k] = IF u.status = "issued" THEN ReportedTask(h, t, k, u, results) ELSE u
    BY <1>2 DEF ReportedTasks
  <2> HIDE DEF u
  <2>3. CASE u.status = "issued"
    <3>1. k \in DOMAIN results /\ results[k] \in Results /\ results[k] = w.moves[k].result
      BY <2>1, <2>3 DEF TaskInv
    <3> QED BY <2>1, <2>2, <2>3, <3>1, ReportedTaskInv
  <2>4. CASE u.status # "issued"
    BY <2>1, <2>2, <2>4, NotIssued
  <2> QED BY <2>3, <2>4
<1>5. DOMAIN i.assignments = DOMAIN j.assignments /\ i.seqs = j.seqs
  BY <1>2 DEF ReportedTasks
<1> QED BY <1>1, <1>3, <1>4, <1>5 DEF JobInv, i

-----------------------------------------------------------------------------
(* The loop of advanceTime, round by round.                                *)

\* What the worker is left with.
LoopWork(w, ds) == IF IssuesOf(ds) = {} THEN w ELSE Issued(TheIssue(ds))

\* The issue v just made on the state heard: it gives away what that state
\* asks for.
StartInv(h, v, m, W) ==
  /\ v = [run |-> v.run, moves |-> v.moves]
  /\ v.run = <<>> \/ DOMAIN v.moves = {}
  /\ v.run = [i \in DOMAIN v.run |-> v.run[i]]
  /\ v.moves = [k \in DOMAIN v.moves |-> v.moves[k]]
  /\ \A i \in DOMAIN v.run : CommandShape(v.run[i]) /\ v.run[i].here \in {None, {}}
  /\ DOMAIN v.moves \subseteq Pending(h, m)
  /\ \A k \in DOMAIN v.moves :
       LET a == v.moves[k].of
       IN /\ v.moves[k] = [of |-> a, result |-> None]
          /\ Known(k, a, W) /\ a.assignee \in Hosts \ {h}
          /\ a.assignee = m.latest.assignments[k].assignee

\* The loop state x of a call on the agent m, w being at the worker before.
IsList(ds) == \E S : ds \in Seq(S)
LoopInv(h, m, w, x, W) ==
  /\ x = [m |-> x.m, ds |-> x.ds, more |-> x.more] /\ IsList(x.ds)
  /\ x.m.latest = m.latest /\ Pending(h, x.m) \subseteq Pending(h, m)
  /\ AgentInv(h, x.m, LoopWork(w, x.ds), W)
  /\ IssuesOf(x.ds) # {} =>
       /\ ~x.more
       /\ StartInv(h, Issued(TheIssue(x.ds)), m, W)
       /\ DOMAIN TheIssue(x.ds).giveAway = DOMAIN Issued(TheIssue(x.ds)).moves

LEMMA OneMore ==
  ASSUME NEW ds, IsList(ds), NEW d
  PROVE  LET e == Append(ds, d)
         IN /\ IsList(e)
            /\ d.type # "issue" => IssuesOf(e) = IssuesOf(ds)
            /\ d.type = "issue" /\ IssuesOf(ds) = {} => IssuesOf(e) # {} /\ TheIssue(e) = d
<1> DEFINE e == Append(ds, d)
<1>1. PICK S : ds \in Seq(S)
  BY DEF IsList
<1>2. e \in Seq(S \cup {d}) /\ DOMAIN e = 1..(Len(ds) + 1) /\ DOMAIN ds = 1..Len(ds)
      /\ Len(ds) \in Nat /\ e[Len(ds) + 1] = d /\ \A i \in 1..Len(ds) : e[i] = ds[i]
  <2>1. ds \in Seq(S \cup {d}) /\ d \in S \cup {d}
    BY <1>1
  <2> QED BY <2>1
<1> HIDE DEF e
<1>3. IsList(e)
  BY <1>2 DEF IsList
<1>4. d.type # "issue" => IssuesOf(e) = IssuesOf(ds)
  BY <1>2 DEF IssuesOf
<1>5. ASSUME d.type = "issue", IssuesOf(ds) = {}
      PROVE  IssuesOf(e) # {} /\ TheIssue(e) = d
  <2>1. IssuesOf(e) = {Len(ds) + 1}
    BY <1>2, <1>5 DEF IssuesOf
  <2> QED BY <1>2, <2>1 DEF TheIssue
<1> QED BY <1>3, <1>4, <1>5 DEF e

\* A round of the job in flight.
LEMMA IssueStart ==
  ASSUME NEW W, NEW h \in Hosts, NEW m, HandledInv(h, m, W), m.latest # None, NEW w, NEW j,
         JobInv(h, m, w, j, W), NEW t, NEW o, o.latest = m.latest,
         Pending(h, m) \subseteq Pending(h, o),
         \A k \in DOMAIN j.assignments :
           j.assignments[k].status \in {"pending", "failed"} =>
             D(h)!Current(m.latest, k, j.assignments[k])
  PROVE  StartInv(h, Started(h, t, j), o, W)
<1> DEFINE v == Started(h, t, j)
<1>1. IsStart(h, t, j, v)
  BY StartedIs
<1> HIDE DEF v
<1>2. ASSUME NEW k \in DOMAIN v.moves
      PROVE  /\ k \in Pending(h, m)
             /\ v.moves[k] = [of |-> v.moves[k].of, result |-> None]
             /\ Known(k, v.moves[k].of, W) /\ v.moves[k].of.assignee \in Hosts \ {h}
             /\ v.moves[k].of.assignee = m.latest.assignments[k].assignee
  <2> DEFINE u == j.assignments[k]
  <2>1. k \in DOMAIN j.assignments /\ D(h)!Due(t, u)
        /\ v.moves[k] = [of |-> u.assignment, result |-> None]
    BY <1>1 DEF IsStart, D!DueKeys
  <2>2. TaskInv(h, m, w, k, u, j.seqs[k], W) /\ k \in Keys
    BY <2>1 DEF JobInv, JobShape
  <2>3. D(h)!Current(m.latest, k, u)
    BY <2>1 DEF D!Due, D!Retriable
  <2> HIDE DEF u
  <2>4. /\ Known(k, u.assignment, W) /\ u.assignment.assignee \in Hosts \ {h}
        /\ m.handled.seqs[k] < u.assignment.seq
        /\ u.assignment.seq = m.latest.assignments[k].seq =>
             u.assignment.assignee = m.latest.assignments[k].assignee
    BY <2>2 DEF TaskInv
  <2>5. m.handled.seqs[k] # u.assignment.seq
    <3>1. m.handled.seqs[k] \in Nat /\ u.assignment.seq \in Nat
      BY <2>2, <2>4 DEF HandledInv, Records, Known
    <3> QED BY <2>4, <3>1
  <2>6. k \in Pending(h, m)
    BY <2>3, <2>4, <2>5 DEF Pending, D!PendingKeys, D!Current, D!Has
  <2>7. v.moves[k].of = u.assignment
    BY <2>1
  <2> QED BY <2>1, <2>3, <2>4, <2>6, <2>7 DEF D!Current
<1>3. v.run = <<>> \/ DOMAIN v.moves = {}
  <2>1. j.commands = <<>> \/ DOMAIN j.assignments = {}
    BY DEF JobInv, JobShape
  <2> QED BY <1>1, <2>1 DEF IsStart, D!DueKeys
<1> QED BY <1>1, <1>2, <1>3 DEF StartInv, IsStart, v

LEMMA AdvanceJobInv ==
  ASSUME NEW W, WorldOK(W), NEW h \in Hosts, NEW m, NEW w, NEW x, LoopInv(h, m, w, x, W),
         x.more, x.m.job # None, NEW t
  PROVE  LoopInv(h, m, w, D(h)!AdvanceJob(t, x), W)
<1> DEFINE n == x.m
           j == Advanced(h, n.job, n.latest, t)
           y == D(h)!AdvanceJob(t, x)
<1>1. IssuesOf(x.ds) = {} /\ AgentInv(h, n, w, W) /\ IsList(x.ds)
      /\ n.latest = m.latest /\ Pending(h, n) \subseteq Pending(h, m)
  BY DEF LoopInv, LoopWork
<1>2. DeciderShape(n) /\ LatestInv(n, W) /\ HandledInv(h, n, W) /\ n.latest # None
  BY <1>1 DEF AgentInv
<1>3. /\ JobInv(h, n, w, j, W)
      /\ \A k \in DOMAIN j.assignments :
           j.assignments[k].status \in {"pending", "failed"} =>
             D(h)!Current(n.latest, k, j.assignments[k])
  BY <1>1, AdvancedInv
<1>4. /\ D(h)!Busy(j) => y = D(h)!Waits(x, j, x.ds)
      /\ ~D(h)!Busy(j) /\ ~D(h)!Settled(j) =>
           y = D(h)!Waits(x, D(h)!Issue(t, j),
                          IF D(h)!NothingDue(t, j) THEN x.ds
                          ELSE Append(x.ds, D(h)!IssueDecision(t, j)))
      /\ ~D(h)!Busy(j) /\ D(h)!Settled(j) => y = D(h)!EndJob(t, x, j)
  BY DEF D!AdvanceJob, Advanced
<1> HIDE DEF j, y
<1>5. CASE D(h)!Busy(j)
  <2> DEFINE o == [n EXCEPT !.job = j]
  <2>1. y = [m |-> o, ds |-> x.ds, more |-> FALSE]
    BY <1>4, <1>5 DEF D!Waits
  <2>2. AgentInv(h, o, w, W) /\ o.handled = n.handled /\ o.latest = n.latest
    BY <1>2, <1>3, WithJob
  <2> HIDE DEF o
  <2> QED BY <1>1, <2>1, <2>2 DEF LoopInv, LoopWork, Pending, y
<1>6. CASE ~D(h)!Busy(j) /\ ~D(h)!Settled(j) /\ D(h)!NothingDue(t, j)
  <2> DEFINE i == D(h)!Issue(t, j)
             o == [n EXCEPT !.job = i]
  <2>1. y = [m |-> o, ds |-> x.ds, more |-> FALSE]
    BY <1>4, <1>6 DEF D!Waits
  <2>2. JobInv(h, n, w, i, W)
    <3>1. D(h)!DueKeys(t, j) = {}
      BY <1>6 DEF D!NothingDue, D!EveryTask, D!DueKeys
    <3> QED BY <1>3, <1>6, <3>1, IssueInv
  <2> HIDE DEF i
  <2>3. AgentInv(h, o, w, W) /\ o.handled = n.handled /\ o.latest = n.latest
    BY <1>2, <2>2, WithJob
  <2> HIDE DEF o
  <2> QED BY <1>1, <2>1, <2>3 DEF LoopInv, LoopWork, Pending, y
<1>7. CASE ~D(h)!Busy(j) /\ ~D(h)!Settled(j) /\ ~D(h)!NothingDue(t, j)
  <2> DEFINE i == D(h)!Issue(t, j)
             o == [n EXCEPT !.job = i]
             d == D(h)!IssueDecision(t, j)
             e == Append(x.ds, d)
             v == Started(h, t, j)
  <2>1. y = [m |-> o, ds |-> e, more |-> FALSE]
    BY <1>4, <1>7 DEF D!Waits
  <2>2. d.type = "issue" /\ d.giveAway = [k \in D(h)!DueKeys(t, j) |-> j.assignments[k].assignment]
    BY DEF D!IssueDecision
  <2>3. IsStart(h, t, j, v)
    BY StartedIs
  <2>4. v = Issued(d)
    BY DEF Started
  <2>5. StartInv(h, v, m, W)
    BY <1>1, <1>2, <1>3, IssueStart
  <2> HIDE DEF i, d, v
  <2>6. JobInv(h, n, v, i, W)
    <3>1. \A k \in D(h)!DueKeys(t, j) :
             k \in DOMAIN v.moves
             /\ v.moves[k] = [of |-> j.assignments[k].assignment, result |-> None]
      BY <2>3 DEF IsStart
    <3> QED BY <1>3, <1>7, <3>1, IssueInv DEF i
  <2>7. AgentInv(h, o, v, W) /\ o.handled = n.handled /\ o.latest = n.latest
    BY <1>2, <2>6, WithJob
  <2>8. IsList(e) /\ IssuesOf(e) # {} /\ TheIssue(e) = d
    BY <1>1, <2>2, OneMore
  <2>9. DOMAIN d.giveAway = DOMAIN v.moves
    BY <2>2, <2>3 DEF IsStart
  <2> HIDE DEF o, e
  <2>10. Pending(h, o) = Pending(h, n)
    BY <2>7 DEF Pending
  <2> QED BY <1>1, <2>1, <2>4, <2>5, <2>7, <2>8, <2>9, <2>10 DEF LoopInv, LoopWork, y
<1>8. CASE ~D(h)!Busy(j) /\ D(h)!Settled(j)
  <2> DEFINE l == D(h)!Count(n.limiter, t, D(h)!Tried(j))
             o == [n EXCEPT !.handled = D(h)!AddRecord(n.handled, j), !.job = None,
                            !.limiter = l]
             d == D(h)!SaveDecision(D(h)!AddRecord(n.handled, j), j, D(h)!NotifyFor(j))
             e == Append(x.ds, d)
  <2>1. y = [m |-> o, ds |-> e, more |-> TRUE]
    BY <1>4, <1>8 DEF D!EndJob
  <2>2. d.type # "issue"
    BY DEF D!SaveDecision
  <2> HIDE DEF d, l
  <2>3. IsList(e) /\ IssuesOf(e) = {}
    BY <1>1, <2>2, OneMore
  <2>4. AgentInv(h, o, w, W) /\ o.latest = n.latest /\ Pending(h, o) \subseteq Pending(h, n)
    BY <1>2, <1>3, <1>8, EndInv
  <2> HIDE DEF o, e
  <2> QED BY <1>1, <2>1, <2>3, <2>4 DEF LoopInv, LoopWork, y
<1> QED BY <1>5, <1>6, <1>7, <1>8

LEMMA RoundInv ==
  ASSUME NEW W, WorldOK(W), NEW h \in Hosts, NEW m, NEW w, NEW x, LoopInv(h, m, w, x, W), NEW t
  PROVE  LoopInv(h, m, w, D(h)!Round(t, x), W)
<1> DEFINE n == x.m
           y == D(h)!Round(t, x)
<1>1. CASE ~x.more
  BY <1>1 DEF D!Round
<1>2. CASE x.more /\ n.job # None
  <2>1. y = D(h)!AdvanceJob(t, x)
    BY <1>2 DEF D!Round
  <2> HIDE DEF y
  <2> QED BY <1>2, <2>1, AdvanceJobInv DEF y
<1>3. CASE x.more /\ n.job = None
  <2> DEFINE i == IF n.latest = None THEN None ELSE D(h)!Reconcile(n, t)
             o == [n EXCEPT !.job = i]
  <2>1. IssuesOf(x.ds) = {} /\ AgentInv(h, n, w, W) /\ IsList(x.ds)
        /\ n.latest = m.latest /\ Pending(h, n) \subseteq Pending(h, m)
    BY <1>3 DEF LoopInv, LoopWork
  <2>2. DeciderShape(n) /\ LatestInv(n, W) /\ HandledInv(h, n, W)
    BY <2>1 DEF AgentInv
  <2>3. ~D(h)!ClaimDue(n, t)
    <3>1. n.lastAttach = 0 /\ n.claimedAttach = 0
      BY <2>2 DEF DeciderShape
    <3> HIDE DEF n
    <3> QED BY <3>1 DEF D!ClaimDue, D!ClaimAt
  <2>4. y = D(h)!StartJob(x, i)
    BY <1>3, <2>3 DEF D!Round
  <2> HIDE DEF i, y
  <2>5. CASE i = None
    <3>1. y = [m |-> x.m, ds |-> x.ds, more |-> FALSE]
      BY <2>4, <2>5 DEF D!StartJob
    <3> QED BY <2>1, <3>1 DEF LoopInv, LoopWork, y
  <2>6. CASE i # None
    <3>1. y = [m |-> o, ds |-> x.ds, more |-> TRUE]
      BY <2>4, <2>6 DEF D!StartJob
    <3>2. n.latest # None /\ JobInv(h, n, w, i, W)
      BY <2>2, <2>6, ReconcileInv DEF i
    <3>3. AgentInv(h, o, w, W) /\ o.handled = n.handled /\ o.latest = n.latest
      BY <2>2, <3>2, WithJob
    <3> HIDE DEF o
    <3>4. Pending(h, o) = Pending(h, n)
      BY <3>3 DEF Pending
    <3> QED BY <2>1, <3>1, <3>3, <3>4 DEF LoopInv, LoopWork, y
  <2> QED BY <2>5, <2>6
<1> QED BY <1>1, <1>2, <1>3

\* A call is its rounds, one after the other.
LEMMA CallIsRounds ==
  ASSUME NEW h, NEW t, NEW m, NEW d
  PROVE  LET R(x) == D(h)!Round(t, x)
         IN D(h)!AdvanceTime(t, m, d) =
              R(R(R(R(R(R(R([m |-> m, ds |-> d, more |-> TRUE])))))))
<1> DEFINE R(x) == D(h)!Round(t, x)
           x0 == [m |-> m, ds |-> d, more |-> TRUE]
           x1 == R(x0)
           x2 == R(x1)
           x3 == R(x2)
           x4 == R(x3)
           x5 == R(x4)
           x6 == R(x5)
           x7 == R(x6)
           Calls(f) == f = [n \in 0..7 |-> IF n = 0 THEN x0 ELSE R(f[n - 1])]
           g == [n \in 0..7 |-> CASE n = 0 -> x0 [] n = 1 -> x1 [] n = 2 -> x2 [] n = 3 -> x3
                                  [] n = 4 -> x4 [] n = 5 -> x5 [] n = 6 -> x6 [] OTHER -> x7]
           f == CHOOSE f : Calls(f)
<1>1. D(h)!AdvanceTime(t, m, d) = f[7]
  <2> HIDE DEF g
  <2> QED BY DEF D!AdvanceTime, D!Rounds
<1>2. x1 = R(x0) /\ x2 = R(x1) /\ x3 = R(x2) /\ x4 = R(x3) /\ x5 = R(x4) /\ x6 = R(x5) /\ x7 = R(x6)
  OBVIOUS
<1>3. g[0] = x0 /\ g[1] = x1 /\ g[2] = x2 /\ g[3] = x3 /\ g[4] = x4 /\ g[5] = x5 /\ g[6] = x6
      /\ g[7] = x7
  <2> HIDE DEF x0, x1, x2, x3, x4, x5, x6, x7
  <2> QED OBVIOUS
<1>4. DOMAIN g = 0..7 /\ g = [n \in DOMAIN g |-> g[n]]
  <2> HIDE DEF x0, x1, x2, x3, x4, x5, x6, x7
  <2> QED OBVIOUS
<1> HIDE DEF x0, x1, x2, x3, x4, x5, x6, x7, g, R
<1>5. Calls(g)
  <2>1. \A n \in 0..7 : n = 0 \/ n = 1 \/ n = 2 \/ n = 3 \/ n = 4 \/ n = 5 \/ n = 6 \/ n = 7
    OBVIOUS
  <2>2. ASSUME NEW n \in 0..7 PROVE g[n] = IF n = 0 THEN x0 ELSE R(g[n - 1])
    BY <1>2, <1>3, <2>1
  <2> QED BY <1>4, <2>2
<1> HIDE DEF Calls
<1>6. Calls(f)
  BY <1>5
<1> HIDE DEF f
<1>7. f[7] = x7
  <2>1. f[0] = x0 /\ \A n \in 1..7 : f[n] = R(f[n - 1])
    BY <1>6 DEF Calls
  <2>2. f[1] = R(f[0]) /\ f[2] = R(f[1]) /\ f[3] = R(f[2]) /\ f[4] = R(f[3])
        /\ f[5] = R(f[4]) /\ f[6] = R(f[5]) /\ f[7] = R(f[6])
    BY <2>1
  <2> QED BY <1>2, <2>1, <2>2
<1> QED BY <1>1, <1>2, <1>7 DEF R, x0

\* What a call of Decide leaves, in the world it is made in.
LEMMA CallInv ==
  ASSUME NEW W, WorldOK(W), NEW h \in Hosts, NEW m, NEW w, AgentInv(h, m, w, W), NEW t
  PROVE  LoopInv(h, m, w, D(h)!AdvanceTime(t, m, <<>>), W)
<1> DEFINE R(x) == D(h)!Round(t, x)
           x0 == [m |-> m, ds |-> <<>>, more |-> TRUE]
<1>1. LoopInv(h, m, w, x0, W)
  <2>1. IsList(<<>>) /\ IssuesOf(<<>>) = {}
    <3>1. <<>> \in Seq({})
      OBVIOUS
    <3> QED BY <3>1 DEF IsList, IssuesOf
  <2> QED BY <2>1 DEF LoopInv, LoopWork
<1>2. D(h)!AdvanceTime(t, m, <<>>) = R(R(R(R(R(R(R(x0)))))))
  BY CallIsRounds
<1>3. \A x : LoopInv(h, m, w, x, W) => LoopInv(h, m, w, R(x), W)
  BY RoundInv
<1> HIDE DEF R, x0
<1> QED BY <1>1, <1>2, <1>3

-----------------------------------------------------------------------------
(* The world of a state.                                                   *)

LEMMA WorldFits == MemoryInv /\ ArrivedIsHere => WorldOK(World)
<1> SUFFICES ASSUME MemoryInv, ArrivedIsHere PROVE WorldOK(World)
  OBVIOUS
<1>1. World.a = assignments
  BY DEF World
<1>2. DOMAIN assignments \subseteq Keys /\ \A k \in DOMAIN assignments : assignments[k] \in Stored
  BY DEF MemoryInv, ContentInv, StoredOK
<1>3. ASSUME NEW k \in DOMAIN assignments, assignments[k].arrived, NEW h \in Hosts
      PROVE  <<h, k>> \in World.free
  <2>1. Freed(h, k)
    BY <1>3 DEF ArrivedIsHere, Freed, AtHome
  <2> QED BY <1>2, <2>1 DEF World
<1>4. ASSUME NEW k \in DOMAIN assignments
      PROVE  /\ assignments[k].seq \in Nat \ {0} /\ assignments[k].assignee \in Hosts
             /\ assignments[k].prev \in Hosts \cup {NoHost} /\ assignments[k].arrived \in BOOLEAN
  BY <1>2 DEF Stored
<1> QED BY <1>1, <1>2, <1>3, <1>4 DEF WorldOK

LEMMA InFree ==
  ASSUME NEW h \in Hosts, NEW k \in Keys
  PROVE  <<h, k>> \in World.free <=>
           k \in DOMAIN assignments /\ (h = assignments[k].assignee \/ Freed(h, k))
BY DEF World

\* V is a later world when the assignments are the same, and who is out of the
\* way stays so.
LEMMA SameTakes ==
  ASSUME NEW W, NEW V, WorldOK(W), V.a = W.a,
         \A h \in Hosts : \A k \in DOMAIN W.a : <<h, k>> \in W.free => <<h, k>> \in V.free
  PROVE  LaterWorld(W, V)
BY DEF LaterWorld

LEMMA LaterWork ==
  ASSUME NEW W, NEW V, WorldOK(W), WorldOK(V), LaterWorld(W, V), NEW h \in Hosts,
         NEW w, WorkInv(h, w, W),
         \A k \in Devices :
           w # None /\ w.run # <<>> /\ <<h, k>> \in W.here => <<h, k>> \in V.here,
         \A k \in DOMAIN V.a :
           w # None /\ k \in DOMAIN w.moves /\ h = V.a[k].assignee => k \in V.strayed
  PROVE  WorkInv(h, w, V)
<1> SUFFICES ASSUME w # None PROVE WorkInv(h, w, V)
  BY DEF WorkInv
<1>1. /\ w = [run |-> w.run, moves |-> w.moves]
      /\ w.run = <<>> \/ DOMAIN w.moves = {}
      /\ w.run = [i \in DOMAIN w.run |-> w.run[i]]
      /\ w.moves = [k \in DOMAIN w.moves |-> w.moves[k]]
      /\ \A i \in DOMAIN w.run :
           /\ CommandShape(w.run[i])
           /\ w.run[i].here # None =>
                \A k \in w.run[i].here : k \in Devices /\ <<h, k>> \in W.here
      /\ DOMAIN w.moves \subseteq Keys
      /\ \A k \in DOMAIN w.moves : WriteInv(h, k, w.moves[k], W)
  BY DEF WorkInv
<1>2. ASSUME NEW i \in DOMAIN w.run, w.run[i].here # None, NEW k \in w.run[i].here
      PROVE  k \in Devices /\ <<h, k>> \in V.here
  <2>1. w.run # <<>>
    <3>1. DOMAIN <<>> = {}
      OBVIOUS
    <3> QED BY <3>1
  <2> QED BY <1>1, <1>2, <2>1
<1>3. ASSUME NEW k \in DOMAIN w.moves PROVE WriteInv(h, k, w.moves[k], V)
  <2> DEFINE v == w.moves[k]
  <2>1. /\ v = [of |-> v.of, result |-> v.result] /\ v.result \in Results \cup {None}
        /\ Known(k, v.of, W) /\ v.of.assignee \in Hosts \ {h}
    BY <1>1 DEF WriteInv
  <2> HIDE DEF v
  <2>2. Known(k, v.of, V)
    BY <2>1, LaterKnown
  <2> QED BY <2>1, <2>2 DEF WriteInv, Known, v
<1> QED BY <1>1, <1>2, <1>3 DEF WorkInv

-----------------------------------------------------------------------------
(* A call of Decide.                                                       *)

LEMMA DeciderLimiter ==
  ASSUME NEW a, NEW b, NEW c, NEW d, NEW e, NEW f, NEW l, NEW m, NEW o,
         m = [handled |-> a, job |-> b, limiter |-> c, latest |-> d, lastAttach |-> e,
              claimedAttach |-> f],
         o = [m EXCEPT !.limiter = l]
  PROVE  o = [handled |-> a, job |-> b, limiter |-> l, latest |-> d, lastAttach |-> e,
              claimedAttach |-> f]
OBVIOUS

LEMMA DeciderLatest ==
  ASSUME NEW a, NEW b, NEW c, NEW d, NEW e, NEW f, NEW s, NEW m, NEW o,
         m = [handled |-> a, job |-> b, limiter |-> c, latest |-> d, lastAttach |-> e,
              claimedAttach |-> f],
         o = [m EXCEPT !.latest = s]
  PROVE  o = [handled |-> a, job |-> b, limiter |-> c, latest |-> s, lastAttach |-> e,
              claimedAttach |-> f]
OBVIOUS

LEMMA WithLimiter ==
  ASSUME NEW W, NEW h, NEW m, NEW w, AgentInv(h, m, w, W), NEW l
  PROVE  LET o == [m EXCEPT !.limiter = l]
         IN AgentInv(h, o, w, W) /\ o.handled = m.handled /\ o.latest = m.latest
<1> DEFINE o == [m EXCEPT !.limiter = l]
<1>1. o = [handled |-> m.handled, job |-> m.job, limiter |-> l, latest |-> m.latest,
           lastAttach |-> 0, claimedAttach |-> 0]
  <2>1. o = [m EXCEPT !.limiter = l]
    OBVIOUS
  <2>2. DeciderShape(m)
    BY DEF AgentInv
  <2> HIDE DEF o
  <2> QED BY <2>1, <2>2, DeciderLimiter DEF DeciderShape
<1> HIDE DEF o
<1>2. DeciderShape(o) /\ o.handled = m.handled /\ o.latest = m.latest /\ o.job = m.job
  BY <1>1 DEF DeciderShape
<1>3. LatestInv(o, W)
  BY <1>2 DEF AgentInv, LatestInv
<1>4. HandledInv(h, o, W)
  BY <1>2 DEF AgentInv, HandledInv, Heard
<1>5. o.job # None => o.latest # None /\ JobInv(h, o, w, o.job, W)
  BY <1>2, SameRecord DEF AgentInv
<1> QED BY <1>2, <1>3, <1>4, <1>5 DEF AgentInv, o

\* The agent hears of the newest state.
LEMMA HearInv ==
  ASSUME NEW W, WorldOK(W), NEW h \in Hosts, NEW m, NEW w, AgentInv(h, m, w, W),
         NEW s \in States, DOMAIN s.assignments = DOMAIN W.a,
         \A k \in DOMAIN W.a : /\ s.assignments[k].seq = W.a[k].seq
                               /\ s.assignments[k].assignee = W.a[k].assignee
                               /\ s.assignments[k].arrived => W.a[k].arrived
  PROVE  LET o == [m EXCEPT !.latest = s]
         IN AgentInv(h, o, w, W) /\ o.handled = m.handled /\ o.latest = s
<1> DEFINE o == [m EXCEPT !.latest = s]
<1>1. o = [handled |-> m.handled, job |-> m.job, limiter |-> m.limiter, latest |-> s,
           lastAttach |-> 0, claimedAttach |-> 0]
  <2>1. o = [m EXCEPT !.latest = s]
    OBVIOUS
  <2>2. DeciderShape(m)
    BY DEF AgentInv
  <2> HIDE DEF o
  <2> QED BY <2>1, <2>2, DeciderLatest DEF DeciderShape
<1> HIDE DEF o
<1>2. DeciderShape(o) /\ o.handled = m.handled /\ o.latest = s /\ o.job = m.job
  BY <1>1 DEF DeciderShape
<1>3. LatestInv(m, W) /\ HandledInv(h, m, W) /\ o.latest # None
  BY <1>2, NoStruct DEF AgentInv
<1>4. LatestInv(o, W)
  BY <1>2 DEF LatestInv, Known, WorldOK
<1>5. ASSUME NEW k \in DOMAIN W.a, NEW n, n <= W.a[k].seq PROVE Heard(o, k, n)
  BY <1>2, <1>3, <1>5 DEF Heard
<1>6. HandledInv(h, o, W)
  BY <1>2, <1>3, <1>5 DEF HandledInv
<1>7. ASSUME m.job # None PROVE JobInv(h, o, w, m.job, W)
  <2> DEFINE j == m.job
  <2>1. /\ JobShape(j)
        /\ \A k \in DOMAIN j.assignments : TaskInv(h, m, w, k, j.assignments[k], j.seqs[k], W)
        /\ \A k \in Keys \ DOMAIN j.assignments :
             j.seqs[k] # 0 => RecordInv(h, m, k, j.seqs[k], W)
    BY <1>7 DEF AgentInv, JobInv
  <2> HIDE DEF j
  <2>2. ASSUME NEW k, NEW u, NEW n, TaskInv(h, m, w, k, u, n, W)
        PROVE  TaskInv(h, o, w, k, u, n, W)
    <3>1. Known(k, u.assignment, W)
      BY <2>2 DEF TaskInv
    <3>2. Heard(o, k, u.assignment.seq)
      BY <1>5, <3>1 DEF Known
    <3>3. u.assignment.seq = o.latest.assignments[k].seq =>
            u.assignment.assignee = o.latest.assignments[k].assignee
      BY <1>2, <3>1 DEF Known
    <3> QED BY <1>2, <2>2, <3>2, <3>3 DEF TaskInv
  <2>3. ASSUME NEW k \in Keys \ DOMAIN j.assignments, j.seqs[k] # 0
        PROVE  RecordInv(h, o, k, j.seqs[k], W)
    <3>1. RecordInv(h, m, k, j.seqs[k], W) /\ j.seqs[k] \in Nat
      BY <2>1, <2>3 DEF JobShape
    <3>2. Known(k, m.latest.assignments[k], W) /\ j.seqs[k] <= m.latest.assignments[k].seq
      BY <1>3, <3>1 DEF RecordInv, Heard, LatestInv
    <3>3. k \in DOMAIN W.a /\ j.seqs[k] <= W.a[k].seq
      BY <3>1, <3>2 DEF Known, WorldOK
    <3>4. Heard(o, k, j.seqs[k])
      BY <1>5, <3>3
    <3> QED BY <1>2, <3>1, <3>4 DEF RecordInv
  <2> QED BY <2>1, <2>2, <2>3 DEF JobInv, j
<1> QED BY <1>2, <1>3, <1>4, <1>6, <1>7 DEF AgentInv, o

\* An issue as it starts.
LEMMA StartWork ==
  ASSUME NEW W, WorldOK(W), NEW V, V.a = W.a, NEW h \in Hosts, NEW m, NEW v,
         StartInv(h, v, m, W),
         \A k \in DOMAIN v.moves : k \in DOMAIN W.a /\ h = W.a[k].assignee => k \in V.strayed
  PROVE  WorkInv(h, v, V)
<1>1. ASSUME NEW k \in DOMAIN v.moves
      PROVE  k \in Keys /\ WriteInv(h, k, v.moves[k], V)
  <2> DEFINE a == v.moves[k].of
  <2>1. /\ v.moves[k] = [of |-> a, result |-> None]
        /\ Known(k, a, W) /\ a.assignee \in Hosts \ {h}
    BY DEF StartInv
  <2>2. v.moves[k].result = None
    BY <2>1
  <2>3. k \in Keys
    BY <2>1 DEF Known, WorldOK
  <2> HIDE DEF a
  <2> QED BY <2>1, <2>2, <2>3 DEF WriteInv, Known, a
<1> QED BY <1>1 DEF StartInv, WorkInv

\* What host h brings after a call it brought before, or it brings it to the
\* newest assignee.
LEMMA DecideBrings ==
  ASSUME SystemInv, NEW h \in Hosts, NEW m, NEW w, w \in {work[h], None}, NEW x,
         LoopInv(h, m, w, x, World), m.handled = agents[h].handled,
         \/ m.latest = agents[h].latest
         \/ \A k \in DOMAIN m.latest.assignments :
              m.latest.assignments[k].assignee = assignments[k].assignee,
         agents'[h].handled = x.m.handled, agents'[h].latest = x.m.latest,
         work'[h] = LoopWork(w, x.ds),
         NEW g \in Hosts, NEW k \in DOMAIN assignments, g # assignments[k].assignee,
         Brings(h, g, k)'
  PROVE  Brings(h, g, k)
<1>1. ASSUME k \in Pending(h, m), m.latest.assignments[k].assignee = g
      PROVE  Brings(h, g, k)
  BY <1>1 DEF Pending, Brings, D!PendingKeys
<1>2. /\ x.m.latest = m.latest /\ Pending(h, x.m) \subseteq Pending(h, m)
      /\ IssuesOf(x.ds) # {} => StartInv(h, Issued(TheIssue(x.ds)), m, World)
  BY DEF LoopInv
<1>3. \/ /\ k \in Writes(h)' /\ work'[h].moves[k].of.assignee = g
         /\ work'[h].moves[k].result = None
      \/ /\ agents'[h].latest # None
         /\ k \in D(h)!PendingKeys(agents'[h].handled, agents'[h].latest)
         /\ agents'[h].latest.assignments[k].assignee = g
  BY DEF Brings
<1>4. CASE /\ k \in Writes(h)' /\ work'[h].moves[k].of.assignee = g
           /\ work'[h].moves[k].result = None
  <2>1. CASE IssuesOf(x.ds) = {}
    <3>1. work'[h] = work[h]
      BY <1>4, <2>1 DEF LoopWork, Writes
    <3> QED BY <1>4, <3>1 DEF Writes, Brings
  <2>2. CASE IssuesOf(x.ds) # {}
    <3> DEFINE v == Issued(TheIssue(x.ds))
    <3>1. work'[h] = v /\ StartInv(h, v, m, World)
      BY <1>2, <2>2 DEF LoopWork
    <3> HIDE DEF v
    <3> QED BY <1>1, <1>4, <3>1 DEF StartInv, Writes
  <2> QED BY <2>1, <2>2
<1>5. CASE /\ agents'[h].latest # None
           /\ k \in D(h)!PendingKeys(agents'[h].handled, agents'[h].latest)
           /\ agents'[h].latest.assignments[k].assignee = g
  <2>1. k \in Pending(h, x.m)
    BY <1>2, <1>5 DEF Pending
  <2> QED BY <1>1, <1>2, <1>5, <2>1
<1> QED BY <1>3, <1>4, <1>5

\* A host stays out of the way when nothing starts to bring k to it.
LEMMA StaysFree ==
  ASSUME NEW h \in Hosts, NEW k \in DOMAIN assignments, k \in Keys, <<h, k>> \in World.free,
         k \in DOMAIN assignments', assignments'[k].assignee = assignments[k].assignee,
         missed[k] => missed'[k], strayed[k] => strayed'[k],
         AtHome(k) => AtHome(k)' \/ missed'[k] \/ strayed'[k],
         ~AtHome(k) /\ ~Here(h, k) /\ ~ComingTo(h, k) =>
           missed'[k] \/ strayed'[k] \/ (~Here(h, k)' /\ heading'[k] # h),
         \A g \in Hosts :
           h # assignments[k].assignee /\ g \notin {h, assignments[k].assignee} /\ Brings(g, h, k)'
             => Brings(g, h, k)
  PROVE  <<h, k>> \in World.free'
<1>1. CASE h = assignments[k].assignee
  BY <1>1 DEF World
<1>2. CASE h # assignments[k].assignee
  <2>1. Freed(h, k)
    BY <1>2, InFree
  <2>2. Freed(h, k)'
    <3>1. CASE missed[k] \/ strayed[k] \/ AtHome(k)
      BY <2>1, <3>1 DEF Freed
    <3>2. CASE ~AtHome(k) /\ ~Here(h, k) /\ ~ComingTo(h, k)
      <4>1. missed'[k] \/ strayed'[k] \/ ~ComingTo(h, k)'
        BY <1>2, <3>2 DEF ComingTo
      <4> QED BY <3>2, <4>1 DEF Freed
    <3> QED BY <2>1, <3>1, <3>2 DEF Freed
  <2> QED BY <2>2 DEF World
<1> QED BY <1>1, <1>2

LEMMA DecideInv ==
  ASSUME SystemInv, NEW h \in Hosts, NEW t, NEW m, NEW w, Decide(h, t, m, w),
         AgentInv(h, m, w, World), w \in {work[h], None}, m.handled = agents[h].handled,
         \/ m.latest = agents[h].latest
         \/ \A k \in DOMAIN m.latest.assignments :
              m.latest.assignments[k].assignee = assignments[k].assignee,
         UNCHANGED <<owner, epoch, activation, assignments, thingVars, late, missed, pressed>>
  PROVE  SystemInv'
<1> DEFINE x == D(h)!AdvanceTime(t, m, <<>>)
<1>1. MemoryInv /\ SeqsInv /\ ThingsInv /\ LateInv /\ ArrivedIsHere /\ HostsInv
  BY DEF SystemInv
<1>2. WorldOK(World)
  BY <1>1, WorldFits
<1>3. LoopInv(h, m, w, x, World)
  BY <1>2, CallInv
<1>4. /\ agents' = [agents EXCEPT ![h] = [x.m EXCEPT !.limiter = D(h)!NewRateLimiter]]
      /\ work' = [work EXCEPT ![h] = LoopWork(w, x.ds)]
      /\ strayed' = [k \in Keys |->
           strayed[k] \/ /\ IssuesOf(x.ds) # {} /\ k \in DOMAIN TheIssue(x.ds).giveAway
                         /\ k \in DOMAIN assignments /\ assignments[k].assignee = h]
  BY DEF Decide, LoopWork
<1> HIDE DEF x
<1>5. /\ AgentInv(h, agents'[h], work'[h], World)
      /\ agents'[h].handled = x.m.handled /\ agents'[h].latest = x.m.latest
      /\ work'[h] = LoopWork(w, x.ds)
      /\ agents' = [g \in Hosts |-> agents'[g]] /\ work' = [g \in Hosts |-> work'[g]]
      /\ \A g \in Hosts \ {h} : agents'[g] = agents[g] /\ work'[g] = work[g]
  <2> DEFINE o == [x.m EXCEPT !.limiter = D(h)!NewRateLimiter]
  <2>1. AgentInv(h, o, LoopWork(w, x.ds), World)
        /\ o.handled = x.m.handled /\ o.latest = x.m.latest
    BY <1>3, WithLimiter DEF LoopInv
  <2>2. agents' = [agents EXCEPT ![h] = o]
    BY <1>4
  <2> HIDE DEF o
  <2>3. agents = [g \in Hosts |-> agents[g]] /\ work = [g \in Hosts |-> work[g]]
    BY <1>1 DEF HostsInv
  <2> QED BY <1>4, <2>1, <2>2, <2>3
<1>6. MemoryInv' /\ SeqsInv'
  BY <1>1 DEF MemoryInv, ContentInv, SeqsInv
<1>7. ThingsInv' /\ LateInv'
  <2>1. strayed' \in [Keys -> BOOLEAN]
    BY <1>4
  <2> QED BY <1>1, <2>1 DEF ThingsInv, LateInv, RequestOK, thingVars
<1>8. \A k \in Keys : strayed[k] => strayed'[k]
  BY <1>4
<1>9. ArrivedIsHere'
  <2>1. DOMAIN assignments \subseteq Keys
    BY <1>1 DEF MemoryInv, ContentInv, StoredOK
  <2> QED BY <1>1, <1>8, <2>1 DEF ArrivedIsHere, Here, thingVars
<1>10. WorldOK(World)'
  BY <1>6, <1>7, <1>9, WorldFits, PTL
<1>11. \A g \in Hosts : \A k \in DOMAIN assignments : <<g, k>> \in World.free => <<g, k>> \in World.free'
  <2> SUFFICES ASSUME NEW g \in Hosts, NEW k \in DOMAIN assignments, <<g, k>> \in World.free
               PROVE  <<g, k>> \in World.free'
    OBVIOUS
  <2>1. k \in Keys
    BY <1>2 DEF WorldOK, World
  <2>2. AtHome(k)' = AtHome(k) /\ Here(g, k)' = Here(g, k) /\ heading' = heading
    BY DEF AtHome, Here, thingVars
  <2>3. \A f \in Hosts :
          g # assignments[k].assignee /\ f \notin {g, assignments[k].assignee} /\ Brings(f, g, k)'
            => Brings(f, g, k)
    <3> SUFFICES ASSUME NEW f \in Hosts, g # assignments[k].assignee, Brings(f, g, k)'
                 PROVE  Brings(f, g, k)
      OBVIOUS
    <3>1. CASE f = h
      BY <1>3, <1>5, <3>1, DecideBrings
    <3>2. CASE f # h
      <4>1. agents'[f] = agents[f] /\ work'[f] = work[f]
        BY <1>5, <3>2
      <4> QED BY <4>1 DEF Brings, Writes
    <3> QED BY <3>1, <3>2
  <2>4. ~Here(g, k) /\ ~ComingTo(g, k) => heading'[k] # g
    BY <2>2 DEF ComingTo
  <2> QED BY <1>8, <2>1, <2>2, <2>3, <2>4, StaysFree
<1>12. LaterWorld(World, World')
  <2>1. World'.a = World.a /\ World.a = assignments
    BY DEF World
  <2> QED BY <1>2, <1>11, <2>1, SameTakes
<1>13. ASSUME NEW g \in Hosts
       PROVE  AgentInv(g, agents'[g], work'[g], World') /\ WorkInv(g, work'[g], World')
  <2>1. AgentInv(g, agents'[g], work'[g], World) /\ WorkInv(g, work[g], World)
    BY <1>1, <1>5 DEF HostsInv
  <2>2. AgentInv(g, agents'[g], work'[g], World')
    BY <1>2, <1>10, <1>12, <2>1, LaterAgent
  <2>3. WorkInv(g, work[g], World')
    <3>1. World'.here = World.here /\ World'.a = World.a
      BY DEF World, Here, thingVars
    <3>2. \A k \in World.strayed : k \in World'.strayed
      BY <1>8 DEF World
    <3>3. \A k \in DOMAIN World.a :
            work[g] # None /\ k \in DOMAIN work[g].moves /\ g = World.a[k].assignee =>
              k \in World.strayed
      BY <2>1 DEF WorkInv, WriteInv
    <3> QED BY <1>2, <1>10, <1>12, <2>1, <3>1, <3>2, <3>3, LaterWork
  <2>4. WorkInv(g, work'[g], World')
    <3>1. CASE g # h
      BY <1>5, <2>3, <3>1
    <3>2. CASE g = h /\ IssuesOf(x.ds) = {}
      <4>1. work'[h] = w
        BY <1>5, <3>2 DEF LoopWork
      <4> QED BY <2>3, <3>2, <4>1 DEF WorkInv
    <3>3. CASE g = h /\ IssuesOf(x.ds) # {}
      <4> DEFINE v == Issued(TheIssue(x.ds))
      <4>1. work'[h] = v /\ StartInv(h, v, m, World)
            /\ DOMAIN TheIssue(x.ds).giveAway = DOMAIN v.moves
        BY <1>3, <1>5, <3>3 DEF LoopInv, LoopWork
      <4>2. World'.a = World.a /\ World.a = assignments
        BY DEF World
      <4>3. ASSUME NEW k \in DOMAIN v.moves, k \in DOMAIN assignments, h = assignments[k].assignee
            PROVE  k \in World'.strayed
        <5>1. k \in Keys
          BY <1>2, <4>2, <4>3 DEF WorldOK
        <5> QED BY <1>4, <3>3, <4>1, <4>3, <5>1 DEF World
      <4> HIDE DEF v
      <4> QED BY <1>2, <3>3, <4>1, <4>2, <4>3, StartWork
    <3> QED BY <3>1, <3>2, <3>3
  <2> QED BY <2>2, <2>4
<1>14. HostsInv'
  BY <1>5, <1>13 DEF HostsInv
<1> QED BY <1>6, <1>7, <1>9, <1>14 DEF SystemInv

-----------------------------------------------------------------------------
(* The agents: what they hear, when they wake, what their workers report.  *)

LEMMA ShownIs ==
  ASSUME MemoryInv
  PROVE  /\ Shown \in States /\ DOMAIN Shown.assignments = DOMAIN assignments
         /\ \A k \in DOMAIN assignments :
              /\ Shown.assignments[k].seq = assignments[k].seq
              /\ Shown.assignments[k].assignee = assignments[k].assignee
              /\ Shown.assignments[k].arrived = assignments[k].arrived
<1> DEFINE a == [k \in DOMAIN assignments |->
                   [assignee |-> assignments[k].assignee, prev |-> assignments[k].prev,
                    seq |-> assignments[k].seq, arrived |-> assignments[k].arrived]]
           l == {h \in Hosts : IsLive(h)}
           A == [assignee : Hosts, prev : Hosts \cup {NoHost}, seq : Nat \ {0},
                 arrived : BOOLEAN]
<1>1. Shown = [owner |-> owner, activation |-> activation, live |-> l, assignments |-> a]
  BY DEF Shown
<1>2. owner \in Hosts \cup {NoHost} /\ activation \in Nat
  BY DEF MemoryInv, ContentInv
<1>3. l \in SUBSET Hosts
  OBVIOUS
<1>4. DOMAIN assignments \subseteq Keys /\ \A k \in DOMAIN assignments : assignments[k] \in Stored
  BY DEF MemoryInv, ContentInv, StoredOK
<1>5. a \in [DOMAIN assignments -> A]
  <2>1. \A k \in DOMAIN assignments :
          [assignee |-> assignments[k].assignee, prev |-> assignments[k].prev,
           seq |-> assignments[k].seq, arrived |-> assignments[k].arrived] \in A
    BY <1>4 DEF Stored
  <2> HIDE DEF A
  <2> QED BY <2>1
<1>6. a \in UNION {[K -> A] : K \in SUBSET Keys}
  <2> HIDE DEF a, A
  <2> QED BY <1>4, <1>5
<1>7. /\ DOMAIN a = DOMAIN assignments
      /\ \A k \in DOMAIN assignments :
           /\ a[k].seq = assignments[k].seq /\ a[k].assignee = assignments[k].assignee
           /\ a[k].arrived = assignments[k].arrived
  OBVIOUS
<1>8. Shown \in States
  <2> HIDE DEF a, l
  <2> QED BY <1>1, <1>2, <1>3, <1>6 DEF States
<1>9. Shown.assignments = a
  <2> HIDE DEF a, l
  <2> QED BY <1>1
<1> HIDE DEF a
<1> QED BY <1>7, <1>8, <1>9

LEMMA StateArrivesInv ==
  ASSUME SystemInv, NEW h \in Hosts, StateArrives(h) PROVE SystemInv'
<1> DEFINE m == D(h)!HandleState(agents[h], Shown)
<1>1. /\ Decide(h, clock[h], m, work[h])
      /\ UNCHANGED <<content, epoch, disk, conn, graceLeft, thingVars, late, missed, pressed>>
  BY DEF StateArrives
<1>2. WorldOK(World) /\ AgentInv(h, agents[h], work[h], World) /\ MemoryInv
  BY WorldFits DEF SystemInv, HostsInv
<1>3. m = [agents[h] EXCEPT !.latest = Shown]
  <2>1. agents[h].handled # None
    BY <1>2, NoStruct DEF AgentInv, HandledInv
  <2> QED BY <2>1 DEF D!HandleState
<1> HIDE DEF m
<1>4. /\ Shown \in States /\ DOMAIN Shown.assignments = DOMAIN assignments
      /\ \A k \in DOMAIN assignments :
           /\ Shown.assignments[k].seq = assignments[k].seq
           /\ Shown.assignments[k].assignee = assignments[k].assignee
           /\ Shown.assignments[k].arrived = assignments[k].arrived
  BY <1>2, ShownIs
<1>5. AgentInv(h, m, work[h], World) /\ m.handled = agents[h].handled /\ m.latest = Shown
  <2>1. World.a = assignments
    BY DEF World
  <2> QED BY <1>2, <1>3, <1>4, <2>1, HearInv
<1>6. UNCHANGED <<owner, epoch, activation, assignments, thingVars, late, missed, pressed>>
  BY <1>1 DEF content
<1> QED BY <1>1, <1>4, <1>5, <1>6, DecideInv

LEMMA TimerFiresInv ==
  ASSUME SystemInv, NEW h \in Hosts, TimerFires(h) PROVE SystemInv'
<1>1. PICK t : Decide(h, t, agents[h], work[h])
  BY DEF TimerFires
<1>2. UNCHANGED <<owner, epoch, activation, assignments, thingVars, late, missed, pressed>>
  BY DEF TimerFires, serverVars, vars
<1>3. AgentInv(h, agents[h], work[h], World)
  BY DEF SystemInv, HostsInv
<1> QED BY <1>1, <1>2, <1>3, DecideInv

LEMMA ReportsInv ==
  ASSUME SystemInv, NEW h \in Hosts, Reports(h) PROVE SystemInv'
<1> DEFINE w == work[h]
           m == agents[h]
           ran == [i \in DOMAIN w.run |-> w.run[i].result]
           gave == [k \in DOMAIN w.moves |-> w.moves[k].result]
<1>1. UNCHANGED <<owner, epoch, activation, assignments, thingVars, late, missed, pressed>>
  BY DEF Reports, serverVars, vars
<1>2. AgentInv(h, m, w, World) /\ WorkInv(h, w, World)
  BY DEF SystemInv, HostsInv
<1>3. DeciderShape(m) /\ LatestInv(m, World) /\ HandledInv(h, m, World)
      /\ (m.job # None => m.latest # None /\ JobInv(h, m, w, m.job, World))
  BY <1>2 DEF AgentInv
<1>4. w # None /\ \A k \in DOMAIN w.moves : w.moves[k].result # None
  BY DEF Reports, Writes
<1>5. /\ w.run = <<>> \/ DOMAIN w.moves = {}
      /\ \A k \in DOMAIN w.moves : w.moves[k].result \in Results
  <2>1. \A k \in DOMAIN w.moves : w.moves[k].result \in Results \cup {None}
    BY <1>2, <1>4 DEF WorkInv, WriteInv
  <2> QED BY <1>2, <1>4, <2>1 DEF WorkInv
<1>6. IF w.run # <<>> THEN Decide(h, clock[h], D(h)!HandleRan(m, ran), None)
      ELSE Decide(h, clock[h], D(h)!HandleGaveAway(m, clock[h], gave), None)
  BY DEF Reports
<1>7. ASSUME NEW o, AgentInv(h, o, None, World), o.handled = m.handled, o.latest = m.latest,
             Decide(h, clock[h], o, None)
      PROVE  SystemInv'
  BY <1>1, <1>7, DecideInv
<1>8. m.job = None => AgentInv(h, m, None, World)
  BY <1>2 DEF AgentInv
<1> DEFINE o1 == D(h)!HandleRan(m, ran)
           o2 == D(h)!HandleGaveAway(m, clock[h], gave)
<1> HIDE DEF w, m
<1>9. CASE w.run # <<>>
  <2>1. AgentInv(h, o1, None, World) /\ o1.handled = m.handled /\ o1.latest = m.latest
    <3> HIDE DEF ran
    <3>1. CASE m.job = None
      BY <1>8, <3>1 DEF D!HandleRan
    <3>2. CASE m.job # None
      <4> DEFINE j == D(h)!ReportRun(m.job, ran)
      <4>1. o1 = [m EXCEPT !.job = j]
        BY <3>2 DEF D!HandleRan
      <4>2. JobInv(h, m, None, j, World)
        BY <1>3, <1>5, <1>9, <3>2, RanInv
      <4> HIDE DEF j, o1
      <4> QED BY <1>3, <3>2, <4>1, <4>2, WithJob
    <3> QED BY <3>1, <3>2
  <2> HIDE DEF o1
  <2> QED BY <1>6, <1>7, <1>9, <2>1 DEF o1
<1>10. CASE w.run = <<>>
  <2>1. AgentInv(h, o2, None, World) /\ o2.handled = m.handled /\ o2.latest = m.latest
    <3>1. DOMAIN gave = DOMAIN w.moves
          /\ \A k \in DOMAIN w.moves : gave[k] \in Results /\ gave[k] = w.moves[k].result
      BY <1>5
    <3> HIDE DEF gave
    <3>2. CASE m.job = None
      BY <1>8, <3>2 DEF D!HandleGaveAway
    <3>3. CASE m.job # None
      <4> DEFINE j == D(h)!ReportGiveAway(clock[h], m.job, gave)
      <4>1. o2 = [m EXCEPT !.job = j]
        BY <3>3 DEF D!HandleGaveAway
      <4>2. JobInv(h, m, None, j, World)
        BY <1>3, <3>1, <3>3, GaveAwayInv
      <4> HIDE DEF j, o2
      <4> QED BY <1>3, <3>3, <4>1, <4>2, WithJob
    <3> QED BY <3>2, <3>3
  <2> HIDE DEF o2
  <2> QED BY <1>6, <1>7, <1>10, <2>1 DEF o2
<1> QED BY <1>9, <1>10

-----------------------------------------------------------------------------
(* The steps that leave the agents alone.                                  *)

LEMMA QuietWorld ==
  ASSUME WorldOK(World), DOMAIN assignments' = DOMAIN assignments,
         \A k \in DOMAIN assignments :
           /\ assignments'[k].seq = assignments[k].seq
           /\ assignments'[k].assignee = assignments[k].assignee
           /\ assignments[k].arrived => assignments'[k].arrived,
         \A k \in Keys : (missed[k] => missed'[k]) /\ (strayed[k] => strayed'[k]),
         \A k \in DOMAIN assignments :
           AtHome(k) => AtHome(k)' \/ missed'[k] \/ strayed'[k],
         \A h \in Hosts, k \in DOMAIN assignments :
           ~AtHome(k) /\ ~Here(h, k) /\ ~ComingTo(h, k) =>
             missed'[k] \/ strayed'[k] \/ (~Here(h, k)' /\ heading'[k] # h),
         \A g \in Hosts, h \in Hosts, k \in DOMAIN assignments : Brings(g, h, k)' => Brings(g, h, k)
  PROVE  LaterWorld(World, World')
<1>1. World.a = assignments /\ World'.a = assignments'
  BY DEF World
<1>2. ASSUME NEW h \in Hosts, NEW k \in DOMAIN assignments, <<h, k>> \in World.free
      PROVE  <<h, k>> \in World'.free
  <2>1. k \in Keys
    BY <1>1 DEF WorldOK
  <2> QED BY <1>2, <2>1, StaysFree
<1> QED BY <1>1, <1>2 DEF LaterWorld

LEMMA HostsLater ==
  ASSUME HostsInv, WorldOK(World), WorldOK(World'), LaterWorld(World, World'),
         agents' = agents, work' = [g \in Hosts |-> work'[g]],
         \A g \in Hosts : \/ work'[g].moves = work[g].moves
                          \/ AgentInv(g, agents[g], work'[g], World'),
         \A g \in Hosts : WorkInv(g, work'[g], World')
  PROVE  HostsInv'
<1>1. ASSUME NEW g \in Hosts PROVE AgentInv(g, agents[g], work'[g], World')
  <2>1. AgentInv(g, agents[g], work[g], World')
    BY LaterAgent DEF HostsInv
  <2> QED BY <2>1, SameWrites
<1> QED BY <1>1 DEF HostsInv

\* The coordinator, the things and the user move; no host does, and nothing is
\* taken.
LEMMA QuietInv ==
  ASSUME SystemInv, MemoryInv', SeqsInv', ThingsInv', LateInv', ArrivedIsHere',
         UNCHANGED <<agents, work>>, LaterWorld(World, World'),
         DOMAIN assignments' = DOMAIN assignments,
         \A k \in DOMAIN assignments : assignments'[k].assignee = assignments[k].assignee,
         \A k \in Keys : strayed[k] => strayed'[k],
         pressed \subseteq pressed',
         \A h \in Hosts, k \in Devices : Here(h, k) => Here(h, k)' \/ <<h, k>> \in pressed'
  PROVE  SystemInv'
<1>1. HostsInv /\ WorldOK(World)
  BY WorldFits DEF SystemInv
<1>2. WorldOK(World)'
  BY WorldFits, PTL
<1>3. work = [g \in Hosts |-> work[g]]
  BY <1>1 DEF HostsInv
<1>4. ASSUME NEW g \in Hosts PROVE WorkInv(g, work[g], World')
  <2>1. WorkInv(g, work[g], World)
    BY <1>1 DEF HostsInv
  <2>2. \A k \in Devices : <<g, k>> \in World.here => <<g, k>> \in World'.here
    BY DEF World, Keys
  <2>3. \A k \in DOMAIN World'.a :
          work[g] # None /\ k \in DOMAIN work[g].moves /\ g = World'.a[k].assignee =>
            k \in World'.strayed
    <3>1. World'.a = assignments' /\ World.a = assignments
      BY DEF World
    <3>2. \A k \in World.strayed : k \in World'.strayed
      BY DEF World
    <3> QED BY <2>1, <3>1, <3>2 DEF WorkInv, WriteInv
  <2> QED BY <1>1, <1>2, <2>1, <2>2, <2>3, LaterWork
<1>5. HostsInv'
  BY <1>1, <1>2, <1>3, <1>4, HostsLater
<1> QED BY <1>5 DEF SystemInv

\* A thing that is somewhere stays somewhere.
LEMMA LateKept ==
  ASSUME LateInv, late' \subseteq late,
         \A k \in Keys : place[k] # NoHost => place'[k] # NoHost
  PROVE  LateInv'
BY DEF LateInv, RequestOK

\* What it says has arrived is what its check found.
LEMMA RequestFits ==
  ASSUME NEW h \in Hosts, NEW c
  PROVE  LET r == Request(h, c)
         IN /\ RequestOK(r) /\ r.host = h /\ r.takes = TakesOf(h, c)
            /\ \A k \in DOMAIN r.takes : r.takes[k].arrived => k \in c.here
<1> DEFINE r == Request(h, c)
           takes == TakesOf(h, c)
           K == {j \in IF c.cmd.run = "take-screen" THEN Screens ELSE Devices :
                   place[j] # NoHost}
<1>1. takes = [k \in K |-> [payload |-> h, arrived |-> k \in c.here]]
  BY DEF TakesOf
<1>2. K \subseteq Keys /\ \A k \in K : place[k] # NoHost
  BY DEF Keys
<1>3. r.host = h /\ r.takes = takes
  BY DEF Request
<1> HIDE DEF K, takes, r
<1>4. DOMAIN takes = K
  BY <1>1
<1>5. ASSUME NEW k \in K
      PROVE  /\ takes[k] \in [payload : Payloads, arrived : BOOLEAN]
             /\ takes[k].arrived => k \in c.here
  <2> DEFINE b == k \in c.here
  <2>1. takes[k] = [payload |-> h, arrived |-> b] /\ b \in BOOLEAN
    BY <1>1
  <2>2. b => k \in c.here
    OBVIOUS
  <2> HIDE DEF b
  <2> QED BY <2>1, <2>2, PayloadsAreHosts
<1> QED BY <1>2, <1>3, <1>4, <1>5 DEF RequestOK, r, takes

LEMMA SameBrings ==
  ASSUME UNCHANGED <<agents, work>>, NEW g, NEW h, NEW k, Brings(g, h, k)'
  PROVE  Brings(g, h, k)
BY DEF Brings, Writes

LEMMA ClaimsKeepInv ==
  ASSUME SystemInv, NEW h \in Hosts, Claims(h) PROVE SystemInv'
<1>1. PICK retake \in BOOLEAN : Claim(h, retake, FALSE)
  BY DEF Claims
<1>2. UNCHANGED <<agentVars, thingVars, late, missed, strayed, pressed>>
  BY DEF Claims, marks
<1>3. MemoryInv /\ SeqsInv /\ ThingsInv /\ ArrivedIsHere /\ WorldOK(World)
  BY WorldFits DEF SystemInv
<1>4. MemoryInv'
  BY <1>1, <1>3, ClaimMemory
<1>5. assignments' = assignments /\ epoch' = epoch + 1
  BY <1>1 DEF Claim, Bump
<1>6. SeqsInv'
  BY <1>3, <1>5 DEF SeqsInv, MemoryInv, ContentInv, StoredOK, Stored
<1>7. ThingsInv' /\ LateInv'
  BY <1>2, <1>3, <1>5, LateKept DEF ThingsInv, thingVars, SystemInv
<1>8. ArrivedIsHere'
  BY <1>2, <1>3, <1>5 DEF ArrivedIsHere, Here, thingVars
<1>9. LaterWorld(World, World')
  <2>1. \A g, k : Here(g, k)' = Here(g, k)
    BY <1>2 DEF Here, thingVars
  <2>2. \A k : AtHome(k)' = AtHome(k)
    BY <1>2, <1>5 DEF AtHome, Here, thingVars
  <2>3. \A g, f, k : Brings(g, f, k)' => Brings(g, f, k)
    BY <1>2, SameBrings DEF agentVars
  <2>4. \A g, k : ~ComingTo(g, k) => heading'[k] # g
    BY <1>2 DEF ComingTo, thingVars
  <2> QED BY <1>2, <1>3, <1>5, <2>1, <2>2, <2>3, <2>4, QuietWorld
<1>10. UNCHANGED <<agents, work>>
  BY <1>2 DEF agentVars
<1> QED BY <1>2, <1>4, <1>5, <1>6, <1>7, <1>8, <1>9, <1>10, QuietInv DEF Here, thingVars

LEMMA LandsInv ==
  ASSUME SystemInv, NEW k \in Devices, Lands(k) PROVE SystemInv'
<1>1. /\ heading[k] # NoHost
      /\ place' = [place EXCEPT ![k] = heading[k]]
      /\ heading' = [heading EXCEPT ![k] = NoHost]
      /\ UNCHANGED <<serverVars, agentVars, late, missed, strayed, pressed>>
  BY DEF Lands, marks
<1>2. MemoryInv /\ SeqsInv /\ ThingsInv /\ ArrivedIsHere /\ WorldOK(World)
  BY WorldFits DEF SystemInv
<1>3. k \in Keys /\ heading[k] \in Hosts
  BY <1>1, <1>2 DEF ThingsInv, Keys
<1>4. MemoryInv' /\ SeqsInv' /\ assignments' = assignments
  BY <1>1, <1>2 DEF serverVars, vars, MemoryInv, ContentInv, SeqsInv
<1>5. /\ place'[k] = heading[k] /\ heading'[k] = NoHost
      /\ \A l \in Keys \ {k} : place'[l] = place[l] /\ heading'[l] = heading[l]
  BY <1>1, <1>2, <1>3 DEF ThingsInv
<1>6. ThingsInv'
  <2>1. /\ place' \in [Keys -> Hosts \cup {NoHost}] /\ heading' \in [Keys -> Hosts \cup {NoHost}]
    BY <1>1, <1>2, <1>3 DEF ThingsInv
  <2>2. \A l \in Keys : heading'[l] # NoHost => l \in Devices
    BY <1>2, <1>5 DEF ThingsInv
  <2>3. \A l \in DOMAIN assignments : place'[l] # NoHost
    BY <1>2, <1>3, <1>5, HostsAssumption DEF ThingsInv, MemoryInv, ContentInv, StoredOK
  <2> QED BY <1>1, <1>2, <1>4, <2>1, <2>2, <2>3 DEF ThingsInv
<1>7. \A h \in Hosts, l \in Keys : Here(h, l) => Here(h, l)'
  BY <1>1, <1>5 DEF Here
<1>8. ArrivedIsHere'
  BY <1>1, <1>2, <1>4, <1>7 DEF ArrivedIsHere, MemoryInv, ContentInv, StoredOK, Stored
<1>9. LaterWorld(World, World')
  <2>1. \A l \in DOMAIN assignments : l \in Keys /\ assignments[l].assignee \in Hosts
    BY <1>2 DEF MemoryInv, ContentInv, StoredOK, Stored
  <2>2. \A l \in DOMAIN assignments : AtHome(l) => AtHome(l)'
    BY <1>1, <1>4, <1>5, <1>7, <2>1, HostsAssumption DEF AtHome, Here
  <2>3. ASSUME NEW g \in Hosts, NEW l \in DOMAIN assignments, ~Here(g, l), ~ComingTo(g, l)
        PROVE  ~Here(g, l)' /\ heading'[l] # g
    BY <1>5, <2>1, <2>3, HostsAssumption DEF Here, ComingTo
  <2>4. \A g, f, l : Brings(g, f, l)' => Brings(g, f, l)
    BY <1>1, SameBrings DEF agentVars
  <2> QED BY <1>1, <1>2, <1>4, <2>2, <2>3, <2>4, QuietWorld
<1>10. UNCHANGED <<agents, work>>
  BY <1>1 DEF agentVars
<1>11. LateInv'
  BY <1>1, <1>3, <1>5, LateKept, HostsAssumption DEF SystemInv
<1> QED BY <1>1, <1>4, <1>6, <1>7, <1>8, <1>9, <1>10, <1>11, QuietInv DEF Keys

LEMMA ArrivalReportedInv ==
  ASSUME SystemInv, NEW k \in Devices, ArrivalReported(k) PROVE SystemInv'
<1> DEFINE a == assignments[k].assignee
           n == [j \in {k} |-> assignments[k].seq]
<1>1. /\ k \in DOMAIN assignments /\ Here(a, k) /\ Arrived(a, n)
      /\ UNCHANGED <<agentVars, thingVars, late, missed, strayed, pressed>>
  BY DEF ArrivalReported, marks
<1>2. MemoryInv /\ SeqsInv /\ ThingsInv /\ ArrivedIsHere /\ WorldOK(World)
  BY WorldFits DEF SystemInv
<1>3. \A l \in DOMAIN assignments : l \in Keys /\ assignments[l] \in Stored
  BY <1>2 DEF MemoryInv, ContentInv, StoredOK
<1>4. MemoryInv'
  <2>1. DOMAIN n \subseteq Devices /\ a \in Hosts
    BY <1>1, <1>3 DEF Stored
  <2> HIDE DEF a, n
  <2> QED BY <1>1, <1>2, <2>1, ArrivedMemory
<1>5. /\ DOMAIN assignments' = DOMAIN assignments /\ epoch' = epoch + 1
      /\ \A l \in DOMAIN assignments :
           /\ assignments'[l].seq = assignments[l].seq
           /\ assignments'[l].assignee = assignments[l].assignee
           /\ assignments[l].arrived => assignments'[l].arrived
           /\ l # k => assignments'[l].arrived = assignments[l].arrived
  <2>1. Matching(a, n) \subseteq {k}
    BY DEF Matching
  <2>2. /\ assignments' = [l \in DOMAIN assignments |->
             IF l \in Matching(a, n) THEN [assignments[l] EXCEPT !.arrived = TRUE]
             ELSE assignments[l]]
        /\ epoch' = epoch + 1
    BY <1>1 DEF Arrived, Bump
  <2> HIDE DEF a, n
  <2>3. ASSUME NEW l \in DOMAIN assignments
        PROVE  LET r == [assignments[l] EXCEPT !.arrived = TRUE]
               IN r.seq = assignments[l].seq /\ r.assignee = assignments[l].assignee /\ r.arrived
    BY <1>3 DEF Stored
  <2>4. ASSUME NEW l \in DOMAIN assignments
        PROVE  \/ assignments'[l] = assignments[l]
               \/ l = k /\ assignments'[l] = [assignments[l] EXCEPT !.arrived = TRUE]
    BY <2>1, <2>2
  <2>5. DOMAIN assignments' = DOMAIN assignments
    BY <2>2
  <2> QED BY <2>2, <2>3, <2>4, <2>5
<1>6. SeqsInv'
  <2>1. epoch \in Nat
    BY <1>2 DEF MemoryInv, ContentInv
  <2> QED BY <1>2, <1>3, <1>5, <2>1 DEF SeqsInv, Stored
<1>7. ThingsInv' /\ LateInv'
  BY <1>1, <1>2, <1>5, LateKept DEF ThingsInv, thingVars, SystemInv
<1>8. \A g, l : Here(g, l)' = Here(g, l)
  BY <1>1 DEF Here, thingVars
<1>9. ArrivedIsHere'
  <2>1. ASSUME NEW l \in DOMAIN assignments, assignments'[l].arrived
        PROVE  Here(assignments[l].assignee, l) \/ strayed[l]
    BY <1>1, <1>2, <1>5, <2>1 DEF ArrivedIsHere
  <2>2. place' = place /\ heading' = heading /\ strayed' = strayed
    BY <1>1 DEF thingVars
  <2> QED BY <1>5, <2>1, <2>2 DEF ArrivedIsHere, Here
<1>10. LaterWorld(World, World')
  <2>1. \A l \in DOMAIN assignments : AtHome(l)' = AtHome(l)
    BY <1>1, <1>5, <1>8 DEF AtHome, thingVars
  <2>2. \A g, f, l : Brings(g, f, l)' => Brings(g, f, l)
    BY <1>1, SameBrings DEF agentVars
  <2>3. \A g, l : ~ComingTo(g, l) => heading'[l] # g
    BY <1>1 DEF ComingTo, thingVars
  <2> QED BY <1>1, <1>2, <1>5, <1>8, <2>1, <2>2, <2>3, QuietWorld
<1>11. UNCHANGED <<agents, work>>
  BY <1>1 DEF agentVars
<1> QED BY <1>1, <1>4, <1>5, <1>6, <1>7, <1>8, <1>9, <1>10, <1>11, QuietInv

LEMMA UserMovesInv ==
  ASSUME SystemInv, NEW k \in Keys, NEW h \in Hosts, UserMoves(k, h) PROVE SystemInv'
<1>1. /\ place[k] # NoHost /\ Moves(k, h) /\ strayed' = [strayed EXCEPT ![k] = TRUE]
      /\ pressed' = pressed \cup (Hosts \X ({k} \cap Devices))
      /\ UNCHANGED <<serverVars, agentVars, late, missed>>
  BY DEF UserMoves
<1>2. MemoryInv /\ SeqsInv /\ ThingsInv /\ LateInv /\ ArrivedIsHere /\ WorldOK(World)
  BY WorldFits DEF SystemInv
<1>3. /\ place' \in [Keys -> Hosts \cup {NoHost}] /\ heading' \in [Keys -> Hosts \cup {NoHost}]
      /\ \A l \in Keys \ {k} : place'[l] = place[l] /\ heading'[l] = heading[l]
      /\ \A l \in Keys : place[l] # NoHost => place'[l] # NoHost
      /\ \A l \in Keys : heading'[l] # NoHost => l \in Devices
  <2>1. CASE k \in Screens
    <3>1. place' = [place EXCEPT ![k] = h] /\ heading' = heading
      BY <1>1, <2>1 DEF Moves
    <3> QED BY <1>2, <3>1, HostsAssumption DEF ThingsInv
  <2>2. CASE k \notin Screens
    <3>1. heading' = [heading EXCEPT ![k] = h] /\ place' = place /\ k \in Devices
      BY <1>1, <2>2 DEF Moves, Keys
    <3> QED BY <1>2, <3>1 DEF ThingsInv
  <2> QED BY <2>1, <2>2
<1>4. MemoryInv' /\ SeqsInv' /\ assignments' = assignments
  BY <1>1, <1>2 DEF serverVars, vars, MemoryInv, ContentInv, SeqsInv
<1>5. /\ strayed' \in [Keys -> BOOLEAN] /\ strayed'[k] = TRUE
      /\ \A l \in Keys : strayed[l] => strayed'[l]
  BY <1>1, <1>2 DEF ThingsInv
<1>6. ThingsInv' /\ LateInv'
  <2>1. \A l \in DOMAIN assignments : place'[l] # NoHost
    BY <1>2, <1>3 DEF ThingsInv, MemoryInv, ContentInv, StoredOK
  <2>2. pressed' \subseteq Hosts \X Keys
    BY <1>1, <1>2 DEF ThingsInv
  <2> QED BY <1>1, <1>2, <1>3, <1>4, <1>5, <2>1, <2>2, LateKept DEF ThingsInv
<1>7. \A g \in Hosts, l \in Keys \ {k} : Here(g, l)' = Here(g, l)
  BY <1>3 DEF Here
<1>8. \A l \in DOMAIN assignments : l \in Keys /\ assignments[l].assignee \in Hosts
  BY <1>2 DEF MemoryInv, ContentInv, StoredOK, Stored
<1>9. ArrivedIsHere'
  BY <1>2, <1>4, <1>5, <1>7, <1>8 DEF ArrivedIsHere
<1>10. LaterWorld(World, World')
  <2>1. \A l \in DOMAIN assignments : AtHome(l) => AtHome(l)' \/ strayed'[l]
    BY <1>3, <1>4, <1>5, <1>7, <1>8 DEF AtHome
  <2>2. ASSUME NEW g \in Hosts, NEW l \in DOMAIN assignments, ~Here(g, l), ~ComingTo(g, l)
        PROVE  strayed'[l] \/ (~Here(g, l)' /\ heading'[l] # g)
    BY <1>3, <1>5, <1>7, <1>8, <2>2 DEF ComingTo
  <2>3. \A g, f, l : Brings(g, f, l)' => Brings(g, f, l)
    BY <1>1, SameBrings DEF agentVars
  <2>4. /\ DOMAIN assignments' = DOMAIN assignments
        /\ \A l \in DOMAIN assignments :
             /\ assignments'[l].seq = assignments[l].seq
             /\ assignments'[l].assignee = assignments[l].assignee
             /\ assignments[l].arrived => assignments'[l].arrived
    BY <1>4
  <2> QED BY <1>1, <1>2, <1>5, <2>1, <2>2, <2>3, <2>4, QuietWorld
<1>11. UNCHANGED <<agents, work>>
  BY <1>1 DEF agentVars
<1>12. ASSUME NEW g \in Hosts, NEW l \in Devices, Here(g, l)
       PROVE  Here(g, l)' \/ <<g, l>> \in pressed'
  BY <1>1, <1>7, <1>12 DEF Keys
<1>13. DOMAIN assignments' = DOMAIN assignments
       /\ \A l \in DOMAIN assignments : assignments'[l].assignee = assignments[l].assignee
  BY <1>4
<1>14. pressed \subseteq pressed'
  BY <1>1
<1> QED BY <1>4, <1>5, <1>6, <1>9, <1>10, <1>11, <1>12, <1>13, <1>14, QuietInv

-----------------------------------------------------------------------------
(* The agent that stops.                                                   *)

LEMMA RestartsInv ==
  ASSUME SystemInv, NEW h \in Hosts, AgentRestarts(h) PROVE SystemInv'
<1>1. /\ agents' = [agents EXCEPT ![h] = D(h)!NewDecider(agents[h].handled)]
      /\ work' = [work EXCEPT ![h] = None]
      /\ UNCHANGED <<content, epoch, disk, conn, graceLeft, clock, thingVars, missed, strayed,
                     pressed>>
      /\ \E sent \in SUBSET Posting(h) : late' = late \cup sent
  BY DEF AgentRestarts, marks
<1>2. /\ MemoryInv /\ SeqsInv /\ ThingsInv /\ LateInv /\ ArrivedIsHere /\ HostsInv
      /\ WorldOK(World)
  BY WorldFits DEF SystemInv
<1>3. UNCHANGED <<owner, epoch, activation, assignments, place, heading, missed, strayed,
                  pressed>>
  BY <1>1 DEF content, thingVars
<1>4. MemoryInv' /\ SeqsInv' /\ ArrivedIsHere'
  BY <1>2, <1>3 DEF MemoryInv, ContentInv, SeqsInv, ArrivedIsHere, Here
<1>5. ASSUME NEW q \in late' PROVE q \in late \/ \E c : q = Request(h, c)
  BY <1>1, <1>5 DEF Posting
<1>6. ThingsInv' /\ LateInv'
  <2>1. ASSUME NEW q \in late' PROVE RequestOK(q)
    BY <1>2, <1>5, <2>1, RequestFits DEF LateInv
  <2> QED BY <1>2, <1>3, <2>1 DEF ThingsInv, LateInv, RequestOK
<1>7. WorldOK(World)'
  BY <1>4, <1>6, WorldFits, PTL
<1>8. /\ agents' = [g \in Hosts |-> agents'[g]] /\ work' = [g \in Hosts |-> work'[g]]
      /\ \A g \in Hosts \ {h} : agents'[g] = agents[g] /\ work'[g] = work[g]
      /\ agents'[h] = D(h)!NewDecider(agents[h].handled) /\ work'[h] = None
  <2> DEFINE o == D(h)!NewDecider(agents[h].handled)
  <2> HIDE DEF o
  <2>1. agents = [g \in Hosts |-> agents[g]] /\ work = [g \in Hosts |-> work[g]]
        /\ agents' = [agents EXCEPT ![h] = o]
    BY <1>1, <1>2 DEF HostsInv, o
  <2>2. /\ agents' = [g \in Hosts |-> agents'[g]] /\ agents'[h] = o
        /\ \A g \in Hosts \ {h} : agents'[g] = agents[g]
    BY <2>1
  <2>3. /\ work' = [g \in Hosts |-> work'[g]] /\ work'[h] = None
        /\ \A g \in Hosts \ {h} : work'[g] = work[g]
    BY <1>1, <2>1
  <2> QED BY <2>2, <2>3 DEF o
<1>9. DeciderShape(agents'[h]) /\ agents'[h].handled = agents[h].handled
      /\ agents'[h].job = None /\ agents'[h].latest = None
  <2> DEFINE o == agents'[h]
  <2>1. o = [handled |-> agents[h].handled, job |-> None, limiter |-> D(h)!NewRateLimiter,
             latest |-> None, lastAttach |-> 0, claimedAttach |-> 0]
    BY <1>8 DEF D!NewDecider
  <2> HIDE DEF o
  <2> QED BY <2>1 DEF DeciderShape, o
<1>10. LaterWorld(World, World')
  <2>1. \A g, k : Here(g, k)' = Here(g, k)
    BY <1>3 DEF Here
  <2>2. \A k : AtHome(k)' = AtHome(k)
    BY <1>3 DEF AtHome, Here
  <2>3. ASSUME NEW g \in Hosts, NEW f, NEW k, Brings(g, f, k)' PROVE Brings(g, f, k)
    <3>1. g # h
      BY <1>8, <1>9, <2>3 DEF Brings, Writes
    <3>2. agents'[g] = agents[g] /\ work'[g] = work[g]
      BY <1>8, <3>1
    <3> QED BY <2>3, <3>2 DEF Brings, Writes
  <2>4. \A g, k : ~ComingTo(g, k) => heading'[k] # g
    BY <1>3 DEF ComingTo
  <2> QED BY <1>2, <1>3, <2>1, <2>2, <2>3, <2>4, QuietWorld
<1>11. World'.a = World.a /\ World'.here = World.here /\ World'.strayed = World.strayed
  BY <1>3 DEF World, Here
<1>12. ASSUME NEW g \in Hosts
       PROVE  AgentInv(g, agents'[g], work'[g], World') /\ WorkInv(g, work'[g], World')
  <2>1. CASE g = h
    <3>1. AgentInv(h, agents[h], work[h], World')
      BY <1>2, <1>7, <1>10, LaterAgent DEF HostsInv
    <3>2. HandledInv(h, agents'[h], World')
      BY <1>9, <3>1 DEF AgentInv, HandledInv
    <3> QED BY <1>8, <1>9, <2>1, <3>2 DEF AgentInv, LatestInv, WorkInv
  <2>2. CASE g # h
    <3>1. AgentInv(g, agents[g], work[g], World) /\ WorkInv(g, work[g], World)
      BY <1>2 DEF HostsInv
    <3>2. AgentInv(g, agents[g], work[g], World')
      BY <1>2, <1>7, <1>10, <3>1, LaterAgent
    <3>3. WorkInv(g, work[g], World')
      BY <1>11, <3>1 DEF WorkInv, WriteInv, Known
    <3> QED BY <1>8, <2>2, <3>2, <3>3
  <2> QED BY <2>1, <2>2
<1>13. HostsInv'
  BY <1>8, <1>12 DEF HostsInv
<1> QED BY <1>4, <1>6, <1>13 DEF SystemInv

-----------------------------------------------------------------------------
(* The worker's commands.                                                  *)

\* The command i of host h is now c.
CommandIs(h, i, c) ==
  /\ work' = [g \in Hosts |-> work'[g]]
  /\ \A g \in Hosts \ {h} : work'[g] = work[g]
  /\ work'[h] = [run |-> [work[h].run EXCEPT ![i] = c], moves |-> work[h].moves]

LEMMA HereSet ==
  ASSUME HostsInv, NEW h \in Hosts, NEW i \in Commands(h), NEW f,
         work' = [work EXCEPT ![h].run[i].here = f]
  PROVE  LET c == work[h].run[i]
         IN CommandIs(h, i, [cmd |-> c.cmd, result |-> c.result, here |-> f])
<1> DEFINE w == work[h]
           c == w.run[i]
<1>1. work = [g \in Hosts |-> work[g]] /\ WorkInv(h, w, World) /\ w # None /\ i \in DOMAIN w.run
  BY DEF HostsInv, Commands
<1>2. w = [run |-> w.run, moves |-> w.moves] /\ CommandShape(c)
  BY <1>1 DEF WorkInv
<1>3. [c EXCEPT !.here = f] = [cmd |-> c.cmd, result |-> c.result, here |-> f]
  <2> DEFINE o == c.cmd
             r == c.result
  <2>1. c = [cmd |-> o, result |-> r, here |-> c.here]
    BY <1>2 DEF CommandShape
  <2> HIDE DEF o, r, c
  <2>2. [c EXCEPT !.here = f] = [cmd |-> o, result |-> r, here |-> f]
    BY <2>1
  <2> QED BY <2>2 DEF o, r
<1> DEFINE d == [c EXCEPT !.here = f]
           v == [w EXCEPT !.run = [w.run EXCEPT ![i] = d]]
<1>4. work' = [work EXCEPT ![h] = v]
  OBVIOUS
<1> HIDE DEF d
<1>5. v = [run |-> [w.run EXCEPT ![i] = d], moves |-> w.moves]
  <2> DEFINE a == w.run
             b == w.moves
             e == [a EXCEPT ![i] = d]
  <2>1. w = [run |-> a, moves |-> b]
    BY <1>2
  <2> HIDE DEF a, b, w
  <2>2. [w EXCEPT !.run = e] = [run |-> e, moves |-> b]
    BY <2>1
  <2> QED BY <2>2 DEF a, b
<1> HIDE DEF v
<1> QED BY <1>1, <1>3, <1>4, <1>5 DEF CommandIs, d

LEMMA ResultSet ==
  ASSUME HostsInv, NEW h \in Hosts, NEW i \in Commands(h), NEW r, SetResult(h, i, r)
  PROVE  LET c == work[h].run[i]
         IN CommandIs(h, i, [cmd |-> c.cmd, result |-> r, here |-> c.here])
<1> DEFINE w == work[h]
           c == w.run[i]
<1>1. work = [g \in Hosts |-> work[g]] /\ WorkInv(h, w, World) /\ w # None /\ i \in DOMAIN w.run
  BY DEF HostsInv, Commands
<1>2. w = [run |-> w.run, moves |-> w.moves] /\ CommandShape(c)
  BY <1>1 DEF WorkInv
<1>3. [c EXCEPT !.result = r] = [cmd |-> c.cmd, result |-> r, here |-> c.here]
  <2> DEFINE o == c.cmd
             f == c.here
  <2>1. c = [cmd |-> o, result |-> c.result, here |-> f]
    BY <1>2 DEF CommandShape
  <2> HIDE DEF o, f, c
  <2>2. [c EXCEPT !.result = r] = [cmd |-> o, result |-> r, here |-> f]
    BY <2>1
  <2> QED BY <2>2 DEF o, f
<1> DEFINE d == [c EXCEPT !.result = r]
           v == [w EXCEPT !.run = [w.run EXCEPT ![i] = d]]
<1>4. work' = [work EXCEPT ![h] = v]
  BY DEF SetResult
<1> HIDE DEF d
<1>5. v = [run |-> [w.run EXCEPT ![i] = d], moves |-> w.moves]
  <2> DEFINE a == w.run
             b == w.moves
             e == [a EXCEPT ![i] = d]
  <2>1. w = [run |-> a, moves |-> b]
    BY <1>2
  <2> HIDE DEF a, b, w
  <2>2. [w EXCEPT !.run = e] = [run |-> e, moves |-> b]
    BY <2>1
  <2> QED BY <2>2 DEF a, b
<1> HIDE DEF v
<1> QED BY <1>1, <1>3, <1>4, <1>5 DEF CommandIs, d

\* A command that has looked found devices that are here.
LEMMA CommandWork ==
  ASSUME HostsInv, NEW h \in Hosts, NEW i \in Commands(h), NEW c, CommandIs(h, i, c),
         CommandShape(c),
         c.here # None => \A k \in c.here : k \in Devices /\ <<h, k>> \in World.here
  PROVE  /\ \A g \in Hosts : WorkInv(g, work'[g], World)
         /\ \A g \in Hosts : work'[g].moves = work[g].moves /\ Writes(g)' \subseteq Writes(g)
<1> DEFINE w == work[h]
           v == work'[h]
<1>1. WorkInv(h, w, World) /\ w # None /\ i \in DOMAIN w.run
  BY DEF HostsInv, Commands
<1>2. v = [run |-> [w.run EXCEPT ![i] = c], moves |-> w.moves]
      /\ \A g \in Hosts \ {h} : work'[g] = work[g]
  BY DEF CommandIs
<1>3. Writes(h) = DOMAIN w.moves
  BY <1>1 DEF Writes
<1>4. Writes(h)' \subseteq DOMAIN v.moves
  BY DEF Writes
<1> HIDE DEF v, w
<1>5. v.moves = w.moves /\ v.run = [w.run EXCEPT ![i] = c]
  BY <1>2
<1>6. WorkInv(h, v, World)
  <2>1. /\ w.run = <<>> \/ DOMAIN w.moves = {}
        /\ w.run = [n \in DOMAIN w.run |-> w.run[n]]
        /\ w.moves = [k \in DOMAIN w.moves |-> w.moves[k]]
        /\ \A n \in DOMAIN w.run :
             /\ CommandShape(w.run[n])
             /\ w.run[n].here # None =>
                  \A k \in w.run[n].here : k \in Devices /\ <<h, k>> \in World.here
        /\ DOMAIN w.moves \subseteq Keys
        /\ \A k \in DOMAIN w.moves : WriteInv(h, k, w.moves[k], World)
    BY <1>1 DEF WorkInv
  <2>2. w.run # <<>>
    <3>1. DOMAIN <<>> = {}
      OBVIOUS
    <3> QED BY <1>1, <3>1
  <2>3. /\ v.run = [n \in DOMAIN v.run |-> v.run[n]] /\ DOMAIN v.run = DOMAIN w.run
        /\ v.run[i] = c /\ \A n \in DOMAIN v.run \ {i} : v.run[n] = w.run[n]
    BY <1>1, <1>5, <2>1
  <2>4. ASSUME NEW n \in DOMAIN v.run
        PROVE  /\ CommandShape(v.run[n])
               /\ v.run[n].here # None =>
                    \A k \in v.run[n].here : k \in Devices /\ <<h, k>> \in World.here
    BY <2>1, <2>3
  <2>5. v = [run |-> v.run, moves |-> v.moves]
    BY <1>2, <1>5
  <2> QED BY <1>5, <2>1, <2>2, <2>3, <2>4, <2>5 DEF WorkInv
<1>7. ASSUME NEW g \in Hosts, g # h
      PROVE  /\ WorkInv(g, work'[g], World)
             /\ work'[g].moves = work[g].moves /\ Writes(g)' \subseteq Writes(g)
  BY <1>2, <1>7 DEF HostsInv, Writes
<1> QED BY <1>3, <1>4, <1>5, <1>6, <1>7 DEF v, w

LEMMA TakesLookInv ==
  ASSUME SystemInv, NEW h \in Hosts, NEW i \in Commands(h), TakesLook(h, i) PROVE SystemInv'
<1> DEFINE c == work[h].run[i]
<1>1. PICK found \in SUBSET {k \in Devices : Here(h, k)} :
        work' = [work EXCEPT ![h].run[i].here = found]
  BY DEF TakesLook
<1>2. /\ UNCHANGED <<serverVars, agents, seen, clock, thingVars, late, missed, strayed>>
      /\ pressed' = {p \in pressed : p[1] # h \/ ~Here(h, p[2])}
  BY DEF TakesLook
<1>3. UNCHANGED <<owner, epoch, activation, assignments, place, heading, late, missed, strayed>>
  BY <1>2 DEF serverVars, vars, thingVars
<1>4. /\ MemoryInv /\ SeqsInv /\ ThingsInv /\ LateInv /\ ArrivedIsHere /\ HostsInv
      /\ WorldOK(World)
  BY WorldFits DEF SystemInv
<1>5. MemoryInv' /\ SeqsInv' /\ ThingsInv' /\ LateInv' /\ ArrivedIsHere'
  BY <1>2, <1>3, <1>4, LateKept
     DEF MemoryInv, ContentInv, SeqsInv, ThingsInv, ArrivedIsHere, Here
<1>6. WorldOK(World)'
  BY <1>5, WorldFits, PTL
<1> DEFINE d == [cmd |-> c.cmd, result |-> c.result, here |-> found]
<1>7. CommandIs(h, i, d)
  BY <1>1, <1>4, HereSet
<1>8. CommandShape(d) /\ d.here = found
  BY DEF CommandShape
<1>9. \A k \in found : k \in Devices /\ <<h, k>> \in World.here
  BY DEF World, Keys
<1> HIDE DEF d
<1>10. /\ \A g \in Hosts : WorkInv(g, work'[g], World)
       /\ \A g \in Hosts : work'[g].moves = work[g].moves /\ Writes(g)' \subseteq Writes(g)
  BY <1>4, <1>7, <1>8, <1>9, CommandWork
<1>11. LaterWorld(World, World')
  <2>1. \A g, k : Here(g, k)' = Here(g, k)
    BY <1>3 DEF Here
  <2>2. \A k : AtHome(k)' = AtHome(k)
    BY <1>3 DEF AtHome, Here
  <2>3. ASSUME NEW g \in Hosts, NEW f, NEW k, Brings(g, f, k)' PROVE Brings(g, f, k)
    BY <1>2, <1>10, <2>3 DEF Brings
  <2>4. \A g, k : ~ComingTo(g, k) => heading'[k] # g
    BY <1>3 DEF ComingTo
  <2> QED BY <1>3, <1>4, <2>1, <2>2, <2>3, <2>4, QuietWorld
<1>12. World'.a = World.a /\ World'.here = World.here /\ World'.strayed = World.strayed
  <2>1. \A g \in Hosts, k \in Keys :
          Here(g, k)' \/ <<g, k>> \in pressed' <=> Here(g, k) \/ <<g, k>> \in pressed
    BY <1>2, <1>3 DEF Here
  <2> QED BY <1>3, <2>1 DEF World
<1>13. \A g \in Hosts : WorkInv(g, work'[g], World')
  BY <1>10, <1>12 DEF WorkInv, WriteInv, Known
<1>14. HostsInv'
  BY <1>2, <1>4, <1>6, <1>7, <1>10, <1>11, <1>13, HostsLater DEF CommandIs
<1> QED BY <1>5, <1>14 DEF SystemInv

\* What a take leaves: of each thing the assignment is the same, or the newest
\* one, with the host that took it.
TakenBy(r, k) ==
  /\ Retaken(k) /\ assignments'[k].assignee = r.host /\ assignments'[k].seq = epoch + 1
  /\ assignments'[k].arrived => k \in DOMAIN r.takes /\ r.takes[k].arrived
  /\ place[k] # NoHost
TakenFrom(r) ==
  /\ MemoryInv' /\ SeqsInv' /\ DOMAIN assignments \subseteq DOMAIN assignments'
  /\ \A k \in DOMAIN assignments' :
       \/ TakenBy(r, k)
       \/ ~Retaken(k) /\ k \in DOMAIN assignments /\ assignments'[k] = assignments[k]

LEMMA TakeRecords ==
  ASSUME SystemInv, NEW r, RequestOK(r), NEW act,
         Take(r.host, act, r.takes) \/ UNCHANGED serverVars
  PROVE  TakenFrom(r)
<1> DEFINE takes == r.takes
           h == r.host
<1>1. MemoryInv /\ SeqsInv
  BY DEF SystemInv
<1>2. /\ h \in Hosts /\ DOMAIN takes \subseteq Keys
      /\ \A k \in DOMAIN takes :
           place[k] # NoHost /\ takes[k] \in [payload : Payloads, arrived : BOOLEAN]
  BY DEF RequestOK
<1> HIDE DEF takes, h
<1>3. epoch \in Nat /\ \A k \in DOMAIN assignments : assignments[k].seq <= epoch
                                                     /\ assignments[k].seq \in Nat
  BY <1>1 DEF MemoryInv, ContentInv, StoredOK, Stored, SeqsInv
<1>4. CASE Take(h, act, takes)
  <2> DEFINE new == {k \in DOMAIN takes : ~SameTake(h, k, takes[k])}
  <2>1. MemoryInv'
    BY <1>1, <1>2, <1>4, TakeMemory
  <2>2. /\ assignments' = [k \in DOMAIN assignments \cup new |->
             IF k \in new THEN Recorded(h, k, takes[k], epoch + 1) ELSE assignments[k]]
        /\ epoch' = epoch + 1
    BY <1>4 DEF Take, Bump
  <2>3. ASSUME NEW k \in new
        PROVE  LET n == Recorded(h, k, takes[k], epoch + 1)
               IN n.assignee = h /\ n.seq = epoch + 1 /\ (n.arrived => takes[k].arrived)
    BY <1>2 DEF Recorded
  <2>4. \A k \in new : place[k] # NoHost /\ k \in DOMAIN takes
    BY <1>2
  <2> HIDE DEF new
  <2>5. ASSUME NEW k \in new PROVE TakenBy(r, k)
    <3>1. k \in DOMAIN assignments' /\ assignments'[k] = Recorded(h, k, takes[k], epoch + 1)
      BY <2>2
    <3>2. k \in DOMAIN assignments => assignments'[k].seq # assignments[k].seq
      BY <1>3, <2>3, <3>1
    <3> QED BY <2>3, <2>4, <3>1, <3>2 DEF TakenBy, Retaken, takes, h
  <2>6. ASSUME NEW k \in DOMAIN assignments', k \notin new
        PROVE  ~Retaken(k) /\ k \in DOMAIN assignments /\ assignments'[k] = assignments[k]
    BY <2>2, <2>6 DEF Retaken
  <2>7. SeqsInv'
    <3>1. ASSUME NEW k \in DOMAIN assignments' PROVE assignments'[k].seq <= epoch + 1
      <4>1. CASE k \in new
        BY <1>3, <2>5, <4>1 DEF TakenBy
      <4>2. CASE k \notin new
        BY <1>3, <2>6, <4>2
      <4> QED BY <4>1, <4>2
    <3> QED BY <2>2, <3>1 DEF SeqsInv
  <2>8. DOMAIN assignments \subseteq DOMAIN assignments'
    BY <2>2
  <2> QED BY <2>1, <2>5, <2>6, <2>7, <2>8 DEF TakenFrom
<1>5. CASE UNCHANGED serverVars
  <2>1. UNCHANGED <<owner, epoch, activation, assignments>>
    BY <1>5 DEF serverVars, vars
  <2>2. MemoryInv' /\ SeqsInv'
    BY <1>1, <2>1 DEF MemoryInv, ContentInv, SeqsInv
  <2> QED BY <2>1, <2>2 DEF Retaken, TakenFrom
<1> QED BY <1>4, <1>5 DEF takes, h

\* A take is recorded; what its host gives away, or no longer has, strayed.
LEMMA TakenInv ==
  ASSUME SystemInv, NEW r, r.host \in Hosts, TakenFrom(r), LateInv', NEW away, MarksAfter(away),
         UNCHANGED <<agents, thingVars>>, work' = [g \in Hosts |-> work'[g]],
         \A g \in Hosts : work'[g].moves = work[g].moves /\ Writes(g)' \subseteq Writes(g),
         \A g \in Hosts : WorkInv(g, work'[g], World),
         Writes(r.host) \subseteq away,
         \A k \in DOMAIN r.takes : r.takes[k].arrived => Here(r.host, k) \/ k \in away
  PROVE  SystemInv'
<1> DEFINE h == r.host
<1>1. /\ missed' = [k \in Keys |-> missed[k] /\ ~Retaken(k)]
      /\ strayed' = [k \in Keys |-> IF Retaken(k) THEN k \in away ELSE strayed[k]]
      /\ pressed' = pressed
  BY DEF MarksAfter
<1>2. /\ MemoryInv /\ SeqsInv /\ ThingsInv /\ ArrivedIsHere /\ HostsInv /\ WorldOK(World)
  BY WorldFits DEF SystemInv
<1>3. /\ MemoryInv' /\ SeqsInv' /\ DOMAIN assignments \subseteq DOMAIN assignments'
      /\ \A k \in DOMAIN assignments' :
           \/ TakenBy(r, k)
           \/ ~Retaken(k) /\ k \in DOMAIN assignments /\ assignments'[k] = assignments[k]
  BY DEF TakenFrom
<1>4. place' = place /\ heading' = heading /\ agents' = agents
      /\ \A g, k : Here(g, k)' = Here(g, k)
  BY DEF thingVars, Here
<1>5. \A k \in Keys : /\ ~Retaken(k) => strayed'[k] = strayed[k] /\ missed'[k] = missed[k]
                      /\ Retaken(k) /\ k \in away => strayed'[k]
  BY <1>1, <1>2 DEF ThingsInv
<1>6. DOMAIN assignments' \subseteq Keys
  BY <1>3 DEF MemoryInv, ContentInv, StoredOK
<1>7. ThingsInv'
  <2>1. missed' \in [Keys -> BOOLEAN]
    BY <1>1
  <2>2. strayed' \in [Keys -> BOOLEAN]
    <3>1. ASSUME NEW k \in Keys
          PROVE  (IF Retaken(k) THEN k \in away ELSE strayed[k]) \in BOOLEAN
      <4>1. strayed[k] \in BOOLEAN /\ (k \in away) \in BOOLEAN
        BY <1>2 DEF ThingsInv
      <4> QED BY <4>1
    <3> QED BY <1>1, <3>1
  <2>3. \A k \in DOMAIN assignments' : place[k] # NoHost
    BY <1>2, <1>3 DEF ThingsInv, TakenBy
  <2> QED BY <1>1, <1>2, <1>4, <2>1, <2>2, <2>3 DEF ThingsInv
<1>8. ArrivedIsHere'
  <2>1. ASSUME NEW k \in DOMAIN assignments', assignments'[k].arrived
        PROVE  Here(assignments'[k].assignee, k) \/ strayed'[k]
    <3>1. CASE TakenBy(r, k)
      BY <1>5, <1>6, <2>1, <3>1 DEF TakenBy
    <3>2. CASE ~Retaken(k) /\ k \in DOMAIN assignments /\ assignments'[k] = assignments[k]
      BY <1>2, <1>5, <1>6, <2>1, <3>2 DEF ArrivedIsHere
    <3> QED BY <1>3, <3>1, <3>2
  <2> QED BY <1>4, <2>1 DEF ArrivedIsHere, Here
<1>9. WorldOK(World)'
  BY <1>3, <1>8, WorldFits, PTL
<1>10. World.a = assignments /\ World'.a = assignments' /\ World'.here = World.here
  BY <1>1, <1>4 DEF World
<1>11. LaterWorld(World, World')
  <2>1. ASSUME NEW k \in DOMAIN assignments
        PROVE  \/ assignments'[k].seq > assignments[k].seq
               \/ /\ assignments'[k] = assignments[k]
                  /\ \A g \in Hosts : <<g, k>> \in World.free => <<g, k>> \in World'.free
    <3>1. CASE TakenBy(r, k)
      BY <1>2, <3>1 DEF TakenBy, SeqsInv, MemoryInv, ContentInv, StoredOK, Stored
    <3>2. CASE ~Retaken(k) /\ assignments'[k] = assignments[k]
      <4>1. k \in Keys /\ k \in DOMAIN assignments'
        BY <1>3, <1>6
      <4>2. AtHome(k)' = AtHome(k)
        BY <1>4, <3>2 DEF AtHome
      <4>3. ASSUME NEW g \in Hosts, NEW f, Brings(g, f, k)' PROVE Brings(g, f, k)
        BY <1>4, <4>3 DEF Brings
      <4>4. \A g : ~ComingTo(g, k) => heading'[k] # g
        BY <1>4 DEF ComingTo
      <4>5. missed'[k] = missed[k] /\ strayed'[k] = strayed[k]
        BY <1>5, <3>2, <4>1
      <4>6. ASSUME NEW g \in Hosts, <<g, k>> \in World.free PROVE <<g, k>> \in World'.free
        BY <1>4, <3>2, <4>1, <4>2, <4>3, <4>4, <4>5, <4>6, StaysFree
      <4> QED BY <3>2, <4>6
    <3> QED BY <1>3, <3>1, <3>2
  <2> QED BY <1>3, <1>10, <2>1 DEF LaterWorld
<1>12. ASSUME NEW g \in Hosts PROVE WorkInv(g, work'[g], World')
  <2>1. ASSUME NEW k \in DOMAIN assignments', work'[g] # None, k \in DOMAIN work'[g].moves,
               g = assignments'[k].assignee
        PROVE  k \in World'.strayed
    <3>1. CASE TakenBy(r, k)
      <4>1. g = h /\ k \in Writes(g)'
        BY <2>1, <3>1 DEF TakenBy, Writes
      <4>2. strayed'[k] /\ k \in Keys
        BY <1>5, <1>6, <2>1, <3>1, <4>1 DEF TakenBy
      <4> QED BY <4>2 DEF World
    <3>2. CASE k \in DOMAIN assignments /\ assignments'[k] = assignments[k] /\ ~Retaken(k)
      <4>1. WriteInv(g, k, work'[g].moves[k], World)
        BY <2>1 DEF WorkInv
      <4>2. k \in World.strayed
        BY <1>10, <2>1, <3>2, <4>1 DEF WriteInv
      <4> QED BY <1>5, <3>2, <4>2 DEF World
    <3> QED BY <1>3, <2>1, <3>1, <3>2
  <2> QED BY <1>2, <1>9, <1>10, <1>11, <2>1, LaterWork
<1>13. HostsInv'
  BY <1>2, <1>4, <1>9, <1>11, <1>12, HostsLater
<1> QED BY <1>3, <1>7, <1>8, <1>13 DEF SystemInv

LEMMA TakeEndsInv ==
  ASSUME SystemInv, NEW h \in Hosts, NEW i \in Commands(h), TakeEnds(h, i) PROVE SystemInv'
<1> DEFINE c == work[h].run[i]
           q == Request(h, c)
           away == {k \in c.here : <<h, k>> \in pressed /\ ~Here(h, k)}
<1>1. c.here # None /\ (Posted(h, c) \/ UNCHANGED serverVars)
      /\ (late' = late \/ late' = late \cup {q})
  BY DEF TakeEnds
<1>2. PICK r : SetResult(h, i, r)
  BY DEF TakeEnds
<1>3. MarksAfter(away) /\ UNCHANGED <<agents, thingVars>>
  BY DEF TakeEnds
<1>4. ThingsInv /\ LateInv /\ HostsInv
  BY DEF SystemInv
<1>5. /\ WorkInv(h, work[h], World) /\ work[h] # None /\ i \in DOMAIN work[h].run
      /\ DOMAIN work[h].moves = {} /\ CommandShape(c)
      /\ \A k \in c.here : k \in Devices /\ <<h, k>> \in World.here
  <2>1. WorkInv(h, work[h], World) /\ work[h] # None /\ i \in DOMAIN work[h].run
    BY <1>4 DEF HostsInv, Commands
  <2>2. work[h].run # <<>>
    <3>1. DOMAIN <<>> = {}
      OBVIOUS
    <3> QED BY <2>1, <3>1
  <2> QED BY <1>1, <2>1, <2>2 DEF WorkInv
<1> DEFINE d == [cmd |-> c.cmd, result |-> r, here |-> c.here]
<1>6. CommandIs(h, i, d)
  BY <1>2, <1>4, ResultSet
<1>7. CommandShape(d) /\ d.here = c.here
  BY DEF CommandShape
<1>8. \A k \in c.here : Here(h, k) \/ k \in away
  BY <1>5 DEF World
<1>9. /\ RequestOK(q) /\ q.host = h /\ q.takes = TakesOf(h, c)
      /\ \A k \in DOMAIN q.takes : q.takes[k].arrived => k \in c.here
  BY RequestFits
<1>10. \E act : Take(q.host, act, q.takes) \/ UNCHANGED serverVars
  BY <1>1, <1>9 DEF Posted
<1> HIDE DEF c, d, q, away
<1>11. /\ \A g \in Hosts : WorkInv(g, work'[g], World)
       /\ \A g \in Hosts : work'[g].moves = work[g].moves /\ Writes(g)' \subseteq Writes(g)
  BY <1>4, <1>5, <1>6, <1>7, CommandWork
<1>12. LateInv'
  <2>1. place' = place
    BY <1>3 DEF thingVars
  <2> QED BY <1>1, <1>4, <1>9, <2>1 DEF LateInv, RequestOK
<1>13. TakenFrom(q)
  BY <1>9, <1>10, TakeRecords
<1>14. Writes(h) = {}
  BY <1>5 DEF Writes
<1> QED BY <1>3, <1>6, <1>8, <1>9, <1>11, <1>12, <1>13, <1>14, TakenInv DEF CommandIs

LEMMA LateTakeInv ==
  ASSUME SystemInv, NEW r \in late, LateTake(r) PROVE SystemInv'
<1> DEFINE away == Writes(r.host) \cup {k \in DOMAIN r.takes : r.takes[k].arrived /\ ~Here(r.host, k)}
<1>1. /\ late' = late \ {r} /\ Take(r.host, r.activation, r.takes) /\ MarksAfter(away)
      /\ UNCHANGED <<agents, work, thingVars>>
  BY DEF LateTake, agentVars
<1>2. LateInv /\ HostsInv /\ RequestOK(r)
  BY DEF SystemInv, LateInv
<1>3. TakenFrom(r)
  BY <1>1, <1>2, TakeRecords
<1>4. LateInv'
  BY <1>1, <1>2, LateKept DEF thingVars
<1>5. /\ work' = [g \in Hosts |-> work'[g]]
      /\ \A g \in Hosts : work'[g].moves = work[g].moves /\ Writes(g)' \subseteq Writes(g)
      /\ \A g \in Hosts : WorkInv(g, work'[g], World)
  BY <1>1, <1>2 DEF HostsInv, Writes
<1>6. /\ Writes(r.host) \subseteq away
      /\ \A k \in DOMAIN r.takes : r.takes[k].arrived => Here(r.host, k) \/ k \in away
  OBVIOUS
<1> HIDE DEF away
<1> QED BY <1>1, <1>2, <1>3, <1>4, <1>5, <1>6, TakenInv DEF RequestOK

-----------------------------------------------------------------------------
(* The worker's writes.                                                    *)

\* The write of k by host h is now c.
WriteIs(h, k, c) ==
  /\ work' = [g \in Hosts |-> work'[g]]
  /\ \A g \in Hosts \ {h} : work'[g] = work[g]
  /\ work'[h] = [run |-> work[h].run, moves |-> [work[h].moves EXCEPT ![k] = c]]

LEMMA MoveSet ==
  ASSUME HostsInv, NEW h \in Hosts, NEW k \in Writes(h), NEW r,
         work' = [work EXCEPT ![h].moves[k].result = r]
  PROVE  WriteIs(h, k, [of |-> work[h].moves[k].of, result |-> r])
<1> DEFINE w == work[h]
           c == w.moves[k]
<1>1. work = [g \in Hosts |-> work[g]] /\ WorkInv(h, w, World) /\ w # None /\ k \in DOMAIN w.moves
  BY DEF HostsInv, Writes
<1>2. w = [run |-> w.run, moves |-> w.moves] /\ c = [of |-> c.of, result |-> c.result]
  BY <1>1 DEF WorkInv, WriteInv
<1>3. [c EXCEPT !.result = r] = [of |-> c.of, result |-> r]
  <2> DEFINE o == c.of
  <2>1. c = [of |-> o, result |-> c.result]
    BY <1>2
  <2> HIDE DEF o, c
  <2>2. [c EXCEPT !.result = r] = [of |-> o, result |-> r]
    BY <2>1
  <2> QED BY <2>2 DEF o
<1> DEFINE d == [c EXCEPT !.result = r]
           v == [w EXCEPT !.moves = [w.moves EXCEPT ![k] = d]]
<1>4. work' = [work EXCEPT ![h] = v]
  OBVIOUS
<1> HIDE DEF d
<1>5. v = [run |-> w.run, moves |-> [w.moves EXCEPT ![k] = d]]
  <2> DEFINE a == w.run
             b == w.moves
             e == [b EXCEPT ![k] = d]
  <2>1. w = [run |-> a, moves |-> b]
    BY <1>2
  <2> HIDE DEF a, b, w
  <2>2. [w EXCEPT !.moves = e] = [run |-> a, moves |-> e]
    BY <2>1
  <2> QED BY <2>2 DEF a, b
<1> HIDE DEF v
<1> QED BY <1>1, <1>3, <1>4, <1>5 DEF WriteIs, d

\* The write of k ends with r: unless h no longer stands in the way of k, the
\* task is not done and a retry is left.
LEMMA MoveTask ==
  ASSUME NEW W, NEW V, WorldOK(W), WorldOK(V), LaterWorld(W, V), V.a = W.a, NEW h \in Hosts,
         NEW m, NEW w, AgentInv(h, m, w, W), NEW k \in DOMAIN w.moves, w.moves[k].result = None,
         NEW r \in Results, NEW v, w.moves = [l \in DOMAIN w.moves |-> w.moves[l]],
         v.moves = [w.moves EXCEPT ![k] = [of |-> w.moves[k].of, result |-> r]],
         w.moves[k].of.seq = W.a[k].seq =>
           \/ <<h, k>> \in V.free
           \/ /\ ~Done(k, r)
              /\ m.job # None /\ k \in DOMAIN m.job.assignments =>
                   m.job.assignments[k].attempts # 1 + SwitchRetries
  PROVE  AgentInv(h, m, v, V)
<1>1. AgentInv(h, m, w, V)
  BY LaterAgent
<1> SUFFICES ASSUME m.job # None PROVE JobInv(h, m, v, m.job, V)
  BY <1>1 DEF AgentInv
<1> DEFINE j == m.job
<1>2. JobInv(h, m, w, j, W) /\ JobInv(h, m, w, j, V)
  BY <1>1 DEF AgentInv
<1> HIDE DEF j
<1>3. /\ DOMAIN v.moves = DOMAIN w.moves /\ v.moves[k].of = w.moves[k].of /\ v.moves[k].result = r
      /\ \A l \in DOMAIN w.moves \ {k} : v.moves[l] = w.moves[l]
  OBVIOUS
<1>4. ASSUME NEW l, NEW t, NEW n, TaskInv(h, m, w, l, t, n, W), TaskInv(h, m, w, l, t, n, V),
             l \in DOMAIN m.job.assignments, t = m.job.assignments[l]
      PROVE  TaskInv(h, m, v, l, t, n, V)
  <2>1. CASE t.status # "issued"
    BY <1>4, <2>1 DEF TaskInv, NewestTask, Failures
  <2>2. CASE t.status = "issued" /\ l # k
    <3>1. l \in DOMAIN w.moves /\ v.moves[l] = w.moves[l]
      BY <1>3, <1>4, <2>2 DEF TaskInv
    <3> QED BY <1>3, <1>4, <3>1 DEF TaskInv, NewestTask, Failures
  <2>3. CASE t.status = "issued" /\ l = k
    <3> DEFINE a == t.assignment
    <3>1. v.moves[k].of = a /\ w.moves[k].of = a /\ t.attempts \in Nat
      BY <1>3, <1>4, <2>3 DEF TaskInv, TaskShape
    <3>2. ASSUME n # 0, a.seq = V.a[k].seq PROVE NewestTask(h, v, k, t, V)
      <4>1. NewestTask(h, w, k, t, W) /\ k \in DOMAIN W.a
        BY <1>4, <2>3, <3>2 DEF TaskInv, Known
      <4>2. Failures(w, k, t) = t.attempts - 1 /\ Failures(v, k, t) \in {t.attempts - 1, t.attempts}
        BY <2>3 DEF Failures
      <4>3. CASE <<h, k>> \in V.free
        BY <2>3, <4>1, <4>3 DEF NewestTask
      <4>4. CASE <<h, k>> \notin V.free
        <5>1. ~Done(k, r) /\ t.attempts # 1 + SwitchRetries /\ <<h, k>> \notin W.free
          BY <1>4, <2>3, <3>1, <3>2, <4>1, <4>4 DEF LaterWorld, WorldOK
        <5>2. t.attempts - 1 <= SwitchRetries
          BY <4>1, <4>2, <5>1 DEF NewestTask
        <5>3. Failures(v, k, t) <= SwitchRetries
          BY <3>1, <4>2, <5>1, <5>2, CasesAssumption
        <5> QED BY <1>3, <2>3, <4>1, <5>1, <5>3 DEF NewestTask
      <4> QED BY <4>3, <4>4
    <3> QED BY <1>3, <1>4, <2>3, <3>1, <3>2 DEF TaskInv
  <2> QED BY <2>1, <2>2, <2>3
<1> QED BY <1>2, <1>4 DEF JobInv, j

LEMMA MoveEndsInv ==
  ASSUME SystemInv, NEW h \in Hosts, NEW k \in Writes(h), NEW r \in Results, MoveEnds(h, k, r)
  PROVE  SystemInv'
<1> DEFINE w == work[h]
           o == w.moves[k].of
           to == o.assignee
           c == [of |-> o, result |-> r]
<1>1. /\ w.moves[k].result = None
      /\ work' = [work EXCEPT ![h].moves[k].result = r]
      /\ UNCHANGED <<serverVars, agents, seen, clock, late, strayed, pressed>>
  BY DEF MoveEnds
<1>2. \/ Here(h, k) /\ Moves(k, to) /\ UNCHANGED missed
      \/ /\ missed' = [missed EXCEPT ![k] =
              missed[k] \/ /\ ForNewest(h, k) /\ Settles(h, k, r)
                           /\ Here(h, k) \/ ComingTo(h, k)]
         /\ UNCHANGED thingVars
  BY DEF MoveEnds
<1>3. UNCHANGED <<owner, epoch, activation, assignments, agents, late, strayed, pressed>>
  BY <1>1 DEF serverVars, vars
<1>4. /\ MemoryInv /\ SeqsInv /\ ThingsInv /\ ArrivedIsHere /\ HostsInv /\ WorldOK(World)
  BY WorldFits DEF SystemInv
<1>5. World.a = assignments /\ World'.a = assignments /\ World'.strayed = World.strayed
  BY <1>3 DEF World
<1>6. /\ WorkInv(h, w, World) /\ w # None /\ k \in DOMAIN w.moves
      /\ AgentInv(h, agents[h], w, World)
  BY <1>4 DEF HostsInv, Writes
<1>7. /\ k \in Keys /\ k \in DOMAIN assignments /\ to \in Hosts \ {h} /\ assignments[k].assignee \in Hosts
      /\ o.seq = assignments[k].seq => to = assignments[k].assignee
      /\ h = assignments[k].assignee => strayed[k]
      /\ w.run = <<>> /\ w.moves = [l \in DOMAIN w.moves |-> w.moves[l]]
      /\ DOMAIN w.moves \subseteq Keys
  <2>1. WriteInv(h, k, w.moves[k], World)
        /\ w.run = <<>> /\ w.moves = [l \in DOMAIN w.moves |-> w.moves[l]]
        /\ DOMAIN w.moves \subseteq Keys
    BY <1>6 DEF WorkInv
  <2>2. Known(k, o, World) /\ to \in Hosts \ {h} /\ (h = World.a[k].assignee => k \in World.strayed)
    BY <2>1 DEF WriteInv
  <2>3. k \in World.strayed => strayed[k]
    BY DEF World
  <2> QED BY <1>4, <1>5, <2>1, <2>2, <2>3 DEF Known, WorldOK
<1>8. WriteIs(h, k, c)
  BY <1>1, <1>4, MoveSet
<1> DEFINE v == work'[h]
<1>9. v = [run |-> w.run, moves |-> [w.moves EXCEPT ![k] = c]]
      /\ \A g \in Hosts \ {h} : work'[g] = work[g]
  BY <1>8 DEF WriteIs
<1>10. /\ v.run = <<>> /\ v.moves = [w.moves EXCEPT ![k] = c]
       /\ v = [run |-> v.run, moves |-> v.moves]
       /\ v.moves = [l \in DOMAIN v.moves |-> v.moves[l]]
       /\ DOMAIN v.moves = DOMAIN w.moves /\ v.moves[k] = c
       /\ \A l \in DOMAIN w.moves \ {k} : v.moves[l] = w.moves[l]
  <2> HIDE DEF v, c
  <2>1. v.run = <<>> /\ v.moves = [w.moves EXCEPT ![k] = c] /\ v = [run |-> v.run, moves |-> v.moves]
    BY <1>7, <1>9
  <2> QED BY <1>6, <1>7, <2>1
<1>11. Here(h, k) => heading[k] = NoHost
  BY DEF Here
\* Where things are.
<1> DEFINE moved == /\ Here(h, k)
                    /\ (place'[k] = to /\ heading'[k] = NoHost) \/ heading'[k] = to
                    /\ \A g \in Hosts \ {to} : ~Here(g, k)' /\ heading'[k] # g
<1>12. /\ \A l \in Keys \ {k} : place'[l] = place[l] /\ heading'[l] = heading[l]
       /\ moved \/ (place' = place /\ heading' = heading)
       /\ place' \in [Keys -> Hosts \cup {NoHost}] /\ heading' \in [Keys -> Hosts \cup {NoHost}]
       /\ heading'[k] # NoHost => k \in Devices
       /\ place[k] # NoHost => place'[k] # NoHost
  <2>1. CASE Here(h, k) /\ Moves(k, to) /\ k \in Screens
    <3>1. place' = [place EXCEPT ![k] = to] /\ heading' = heading
      BY <2>1 DEF Moves
    <3> HIDE DEF to
    <3>2. place'[k] = to /\ heading'[k] = NoHost
      BY <1>4, <1>7, <1>11, <2>1, <3>1 DEF ThingsInv
    <3>3. \A g \in Hosts \ {to} : ~Here(g, k)' /\ heading'[k] # g
      BY <3>2, HostsAssumption DEF Here
    <3> QED BY <1>4, <1>7, <2>1, <3>1, <3>2, <3>3, HostsAssumption DEF ThingsInv
  <2>2. CASE Here(h, k) /\ Moves(k, to) /\ k \notin Screens
    <3>1. heading' = [heading EXCEPT ![k] = to] /\ place' = place /\ k \in Devices
      BY <1>7, <2>2 DEF Moves, Keys
    <3> HIDE DEF to
    <3>2. heading'[k] = to
      BY <1>4, <1>7, <3>1 DEF ThingsInv
    <3>3. \A g \in Hosts \ {to} : ~Here(g, k)' /\ heading'[k] # g
      BY <1>7, <3>2, HostsAssumption DEF Here
    <3> QED BY <1>4, <1>7, <2>2, <3>1, <3>2, <3>3 DEF ThingsInv
  <2>3. CASE UNCHANGED thingVars
    BY <1>4, <1>7, <2>3 DEF ThingsInv, thingVars
  <2> QED BY <1>2, <2>1, <2>2, <2>3
<1>13. moved \/ \A g : Here(g, k)' = Here(g, k)
  BY <1>12 DEF Here
<1>14. \A g, l : l \in Keys \ {k} => Here(g, l)' = Here(g, l)
  BY <1>12 DEF Here
<1>15. /\ \A l \in Keys : missed[l] => missed'[l]
       /\ missed' \in [Keys -> BOOLEAN]
  <2>1. \/ missed' = missed
        \/ \E b \in BOOLEAN : missed' = [missed EXCEPT ![k] = missed[k] \/ b]
    <3>1. (ForNewest(h, k) /\ Settles(h, k, r) /\ (Here(h, k) \/ ComingTo(h, k))) \in BOOLEAN
      OBVIOUS
    <3> QED BY <1>2, <3>1
  <2> QED BY <1>4, <1>7, <2>1 DEF ThingsInv
<1>16. LateInv'
  <2>1. \A l \in Keys : place[l] # NoHost => place'[l] # NoHost
    BY <1>12
  <2> QED BY <1>3, <2>1, LateKept DEF SystemInv
<1>17. MemoryInv' /\ SeqsInv'
  BY <1>3, <1>4 DEF MemoryInv, ContentInv, SeqsInv
<1>18. DOMAIN assignments \subseteq Keys
  BY <1>4, <1>5 DEF WorldOK
<1> HIDE DEF moved, v, c, to, o, w
<1>19. ThingsInv'
  <2>1. \A l \in Keys : heading'[l] # NoHost => l \in Devices
    BY <1>4, <1>12 DEF ThingsInv
  <2>2. \A l \in DOMAIN assignments : place'[l] # NoHost
    BY <1>4, <1>12, <1>18 DEF ThingsInv
  <2> QED BY <1>3, <1>4, <1>12, <1>15, <2>1, <2>2 DEF ThingsInv
\* Only a host that strayed has its own thing.
<1>20. Here(h, k) /\ ~strayed[k] => ~AtHome(k)
  BY <1>7, <1>11, HostsAssumption DEF AtHome, Here
<1>21. ArrivedIsHere'
  <2>1. ASSUME NEW l \in DOMAIN assignments, assignments[l].arrived
        PROVE  Here(assignments[l].assignee, l)' \/ strayed[l]
    <3>1. Here(assignments[l].assignee, l) \/ strayed[l]
      BY <1>4, <2>1 DEF ArrivedIsHere
    <3>2. CASE l = k /\ moved
      BY <1>20, <3>1, <3>2 DEF moved, AtHome
    <3>3. CASE ~(l = k /\ moved)
      BY <1>3, <1>13, <1>14, <1>18, <3>1, <3>3 DEF Here
    <3> QED BY <3>2, <3>3
  <2> QED BY <1>3, <2>1 DEF ArrivedIsHere, Here
<1>22. WorldOK(World)'
  BY <1>17, <1>19, <1>21, WorldFits, PTL
\* The write is over, so that h brings k to nobody.
<1>23. \A g \in Hosts : Writes(g)' \subseteq Writes(g)
  <2>1. Writes(h)' \subseteq DOMAIN v.moves
    BY DEF Writes, v
  <2>2. Writes(h) = DOMAIN w.moves
    BY <1>6 DEF Writes, w
  <2>3. \A g \in Hosts \ {h} : Writes(g)' = Writes(g)
    BY <1>9 DEF Writes
  <2> QED BY <1>10, <2>1, <2>2, <2>3
<1>24. ASSUME NEW g \in Hosts, NEW f, NEW l, Brings(g, f, l)' PROVE Brings(g, f, l)
  <2>1. CASE /\ l \in Writes(g)' /\ work'[g].moves[l].of.assignee = f
             /\ work'[g].moves[l].result = None
    <3>1. l \in Writes(g)
      BY <1>23, <2>1
    <3>2. g # h => work'[g] = work[g]
      BY <1>9
    <3>3. g = h => l # k /\ l \in DOMAIN w.moves
      BY <1>6, <1>10, <2>1, <3>1, NothingYet DEF Writes, v, c, w
    <3>4. work'[g].moves[l] = work[g].moves[l]
      BY <1>10, <3>2, <3>3 DEF v, w
    <3> QED BY <2>1, <3>1, <3>4 DEF Brings
  <2>2. CASE /\ agents'[g].latest # None
             /\ l \in D(g)!PendingKeys(agents'[g].handled, agents'[g].latest)
             /\ agents'[g].latest.assignments[l].assignee = f
    BY <1>3, <2>2 DEF Brings
  <2> QED BY <1>24, <2>1, <2>2 DEF Brings
<1>25. Brings(h, to, k)
  BY <1>1 DEF Brings, to, o, w
<1>26. LaterWorld(World, World')
  <2>1. ASSUME NEW l \in DOMAIN assignments, AtHome(l) PROVE AtHome(l)' \/ missed'[l] \/ strayed'[l]
    <3>1. CASE l = k /\ moved
      BY <1>3, <1>20, <2>1, <3>1 DEF moved
    <3>2. CASE l # k \/ (l = k /\ ~moved)
      BY <1>3, <1>12, <1>13, <1>14, <1>18, <2>1, <3>2 DEF AtHome
    <3> QED BY <3>1, <3>2
  <2>2. ASSUME NEW g \in Hosts, NEW l \in DOMAIN assignments,
               ~AtHome(l) /\ ~Here(g, l) /\ ~ComingTo(g, l)
        PROVE  ~Here(g, l)' /\ heading'[l] # g
    <3>1. CASE l = k /\ moved
      <4>1. h # assignments[k].assignee
        BY <2>2, <3>1 DEF moved, AtHome
      <4>2. g # to
        BY <1>7, <1>25, <2>2, <3>1, <4>1 DEF ComingTo
      <4> QED BY <3>1, <4>2 DEF moved
    <3>2. CASE l # k \/ (l = k /\ ~moved)
      BY <1>12, <1>13, <1>14, <1>18, <2>2, <3>2 DEF ComingTo
    <3> QED BY <3>1, <3>2
  <2> QED BY <1>3, <1>4, <1>15, <1>24, <2>1, <2>2, QuietWorld
<1>27. ASSUME o.seq = assignments[k].seq
       PROVE  <<h, k>> \in World'.free \/ ~Settles(h, k, r)
  <2>1. CASE Here(h, k) /\ Moves(k, to)
    <3>1. moved
      <4>1. place' # place \/ heading' # heading
        <5>1. CASE k \in Screens
          <6>1. place' = [place EXCEPT ![k] = to]
            BY <2>1, <5>1 DEF Moves
          <6>2. place'[k] = to /\ place[k] = h
            BY <1>4, <1>7, <2>1, <6>1 DEF ThingsInv, Here
          <6> QED BY <1>7, <6>2
        <5>2. CASE k \notin Screens
          <6>1. heading' = [heading EXCEPT ![k] = to]
            BY <2>1, <5>2 DEF Moves
          <6>2. heading'[k] = to /\ heading[k] = NoHost
            BY <1>4, <1>7, <1>11, <2>1, <6>1 DEF ThingsInv
          <6> QED BY <1>7, <6>2, HostsAssumption
        <5> QED BY <5>1, <5>2
      <4> QED BY <1>12, <4>1
    <3>2. AtHome(k)'
      BY <1>3, <1>7, <1>27, <3>1 DEF moved, AtHome, Here
    <3>3. Freed(h, k)'
      BY <3>2 DEF Freed
    <3> QED BY <1>3, <1>7, <3>3 DEF World
  <2>2. CASE ~(Here(h, k) /\ Moves(k, to)) /\ Settles(h, k, r)
    <3>1. ForNewest(h, k)
      BY <1>7, <1>27 DEF ForNewest, o, w
    <3>2. /\ missed' = [missed EXCEPT ![k] =
                missed[k] \/ /\ ForNewest(h, k) /\ Settles(h, k, r)
                             /\ Here(h, k) \/ ComingTo(h, k)]
          /\ UNCHANGED thingVars
      BY <1>2, <2>2
    <3>3. Here(h, k) \/ ComingTo(h, k) => missed'[k]
      BY <1>4, <1>7, <2>2, <3>1, <3>2 DEF ThingsInv
    <3>4. Here(h, k)' => Here(h, k)
      BY <3>2 DEF Here, thingVars
    <3>5. ComingTo(h, k)' => ComingTo(h, k)
      BY <1>3, <1>24, <3>2 DEF ComingTo, thingVars
    <3>6. Freed(h, k)'
      BY <3>3, <3>4, <3>5 DEF Freed
    <3> QED BY <1>3, <1>7, <3>6 DEF World
  <2> QED BY <2>1, <2>2
<1>28. AgentInv(h, agents[h], v, World')
  <2>1. /\ k \in DOMAIN w.moves /\ w.moves[k].result = None
        /\ AgentInv(h, agents[h], w, World)
        /\ v.moves = [w.moves EXCEPT ![k] = [of |-> w.moves[k].of, result |-> r]]
    BY <1>1, <1>5, <1>6, <1>10 DEF w, o, c
  <2>3. w.moves[k].of.seq = World.a[k].seq =>
          \/ <<h, k>> \in World'.free
          \/ /\ ~Done(k, r)
             /\ agents[h].job # None /\ k \in DOMAIN agents[h].job.assignments =>
                  agents[h].job.assignments[k].attempts # 1 + SwitchRetries
    <3>1. ~Settles(h, k, r) =>
            /\ ~Done(k, r)
            /\ agents[h].job # None /\ k \in DOMAIN agents[h].job.assignments =>
                 agents[h].job.assignments[k].attempts # 1 + SwitchRetries
      BY DEF Settles, LastAttempt, Done, D!MaxAttempts
    <3> QED BY <1>5, <1>27, <3>1 DEF o
  <2>2. World'.a = World.a /\ WorldOK(World')
    BY <1>5, <1>22
  <2> QED BY <1>4, <1>7, <1>26, <2>1, <2>2, <2>3, MoveTask
<1>29. ASSUME NEW g \in Hosts PROVE WorkInv(g, work'[g], World')
  <2>1. WorkInv(g, work[g], World)
    BY <1>4 DEF HostsInv
  <2>2. CASE g # h
    <3>1. \A l \in Devices : <<g, l>> \in World.here => <<g, l>> \in World'.here
      <4>1. ASSUME NEW l \in Devices, Here(g, l) PROVE Here(g, l)'
        <5>1. CASE l = k /\ moved
          BY <2>2, <4>1, <5>1 DEF moved, Here
        <5>2. CASE l # k \/ (l = k /\ ~moved)
          BY <1>13, <1>14, <4>1, <5>2 DEF Keys
        <5> QED BY <5>1, <5>2
      <4> QED BY <1>3, <4>1 DEF World, Keys
    <3>2. ASSUME NEW l \in DOMAIN World'.a, work[g] # None, l \in DOMAIN work[g].moves,
                 g = World'.a[l].assignee
          PROVE  l \in World'.strayed
      BY <1>5, <2>1, <3>2 DEF WorkInv, WriteInv
    <3>3. WorkInv(g, work[g], World')
      BY <1>4, <1>22, <1>26, <2>1, <3>1, <3>2, LaterWork
    <3> QED BY <1>9, <2>2, <3>3
  <2>3. CASE g = h
    <3>1. WriteInv(h, k, c, World)
      <4>1. WriteInv(h, k, w.moves[k], World)
        BY <1>6 DEF WorkInv, w
      <4> QED BY <4>1 DEF WriteInv, c, o
    <3>2. \A l \in DOMAIN v.moves : WriteInv(h, l, v.moves[l], World')
      <4>1. \A l \in DOMAIN w.moves : WriteInv(h, l, w.moves[l], World)
        BY <1>6 DEF WorkInv, w
      <4> QED BY <1>5, <1>10, <3>1, <4>1 DEF WriteInv, Known
    <3>3. DOMAIN v.run = {} /\ v.run = [n \in DOMAIN v.run |-> v.run[n]]
      <4>1. DOMAIN <<>> = {}
        OBVIOUS
      <4> QED BY <1>10, <4>1, EmptyList
    <3> QED BY <1>7, <1>10, <2>3, <3>2, <3>3 DEF WorkInv, v
  <2> QED BY <2>2, <2>3
<1>30. HostsInv'
  <2>1. \A g \in Hosts : work'[g].moves = work[g].moves \/ AgentInv(g, agents[g], work'[g], World')
    BY <1>9, <1>28 DEF v
  <2> QED BY <1>3, <1>4, <1>8, <1>22, <1>26, <1>29, <2>1, HostsLater DEF WriteIs
<1> QED BY <1>16, <1>17, <1>19, <1>21, <1>30 DEF SystemInv

-----------------------------------------------------------------------------
(* The whole.                                                              *)

LEMMA SystemStarts == SystemInit => SystemInv
<1> SUFFICES ASSUME SystemInit PROVE SystemInv
  OBVIOUS
<1>1. MemoryInv /\ DOMAIN assignments = {}
  BY InitInv DEF SystemInit, IInv, Init, Empty, NoAssignments
<1>2. place \in [Keys -> Hosts \cup {NoHost}]
  BY DEF SystemInit
<1>3. ThingsInv /\ LateInv
  <2>1. heading = [k \in Keys |-> NoHost] /\ missed = [k \in Keys |-> FALSE]
        /\ strayed = [k \in Keys |-> FALSE] /\ late = {} /\ pressed = {}
    BY DEF SystemInit
  <2> QED BY <1>1, <1>2, <2>1 DEF ThingsInv, LateInv
<1>4. SeqsInv /\ ArrivedIsHere
  BY <1>1 DEF SeqsInv, ArrivedIsHere
<1> DEFINE none == [ownership |-> [owner |-> NoHost, activation |-> 0],
                    seqs |-> [k \in Keys |-> 0]]
<1>5. none \in Records /\ \A k \in Keys : none.seqs[k] = 0
  BY DEF Records
<1>6. \A h \in Hosts : D(h)!NoSeqs = [k \in Keys |-> 0]
  BY DEF D!NoSeqs, D!Keys, Keys
<1>7. /\ agents = [h \in Hosts |-> agents[h]] /\ work = [h \in Hosts |-> work[h]]
      /\ \A h \in Hosts : agents[h] = D(h)!NewDecider(none) /\ work[h] = None
  <2>1. agents = [h \in Hosts |-> D(h)!NewDecider(
           [ownership |-> [owner |-> NoHost, activation |-> 0], seqs |-> D(h)!NoSeqs])]
        /\ work = [h \in Hosts |-> None]
    BY DEF SystemInit
  <2>2. agents = [h \in Hosts |-> D(h)!NewDecider(none)]
    BY <1>6, <2>1
  <2> HIDE DEF none
  <2> QED BY <2>1, <2>2
<1> HIDE DEF none
<1>8. ASSUME NEW h \in Hosts
      PROVE  AgentInv(h, agents[h], work[h], World) /\ WorkInv(h, work[h], World)
  <2> DEFINE m == agents[h]
  <2>1. m = [handled |-> none, job |-> None, limiter |-> D(h)!NewRateLimiter, latest |-> None,
             lastAttach |-> 0, claimedAttach |-> 0]
    BY <1>7 DEF D!NewDecider
  <2> HIDE DEF m
  <2>2. AgentInv(h, m, work[h], World)
    BY <1>5, <2>1 DEF AgentInv, DeciderShape, LatestInv, HandledInv
  <2> QED BY <1>7, <2>2 DEF WorkInv, m
<1> QED BY <1>1, <1>3, <1>4, <1>7, <1>8 DEF SystemInv, HostsInv

LEMMA NothingHappens == SystemInv /\ UNCHANGED systemVars => SystemInv'
<1> SUFFICES ASSUME SystemInv, UNCHANGED systemVars PROVE SystemInv'
  OBVIOUS
<1>1. UNCHANGED <<owner, epoch, activation, assignments, agents, work, place, heading, late,
                  missed, strayed, pressed>>
  BY DEF systemVars, serverVars, vars, agentVars, thingVars, marks
<1>2. MemoryInv' /\ SeqsInv' /\ ThingsInv' /\ LateInv' /\ ArrivedIsHere'
  BY <1>1, LateKept DEF SystemInv, MemoryInv, ContentInv, SeqsInv, ThingsInv, ArrivedIsHere, Here
<1>3. World' = World
  BY <1>1 DEF World, Freed, AtHome, Here, ComingTo, Brings, Writes
<1>4. HostsInv'
  BY <1>1, <1>3 DEF SystemInv, HostsInv
<1> QED BY <1>2, <1>4 DEF SystemInv

LEMMA SystemStep == SystemInv /\ [SystemNext]_systemVars => SystemInv'
<1> SUFFICES ASSUME SystemInv, [SystemNext]_systemVars PROVE SystemInv'
  OBVIOUS
<1>1. ASSUME NEW h \in Hosts,
             StateArrives(h) \/ TimerFires(h) \/ Claims(h) \/ Reports(h) \/ AgentRestarts(h)
      PROVE  SystemInv'
  BY <1>1, StateArrivesInv, TimerFiresInv, ClaimsKeepInv, ReportsInv, RestartsInv
<1>2. ASSUME NEW h \in Hosts, NEW i \in Commands(h), TakesLook(h, i) \/ TakeEnds(h, i)
      PROVE  SystemInv'
  BY <1>2, TakesLookInv, TakeEndsInv
<1>3. ASSUME NEW h \in Hosts, NEW k \in Writes(h), NEW r \in Results, MoveEnds(h, k, r)
      PROVE  SystemInv'
  BY <1>3, MoveEndsInv
<1>4. ASSUME NEW k \in Devices, Lands(k) \/ ArrivalReported(k)
      PROVE  SystemInv'
  BY <1>4, LandsInv, ArrivalReportedInv
<1>5. ASSUME NEW r \in late, LateTake(r) PROVE SystemInv'
  BY <1>5, LateTakeInv
<1>6. ASSUME NEW k \in Keys, NEW h \in Hosts, UserMoves(k, h) PROVE SystemInv'
  BY <1>6, UserMovesInv
<1> QED BY <1>1, <1>2, <1>3, <1>4, <1>5, <1>6, NothingHappens DEF SystemNext

\* The inductive invariant holds in every state of every system, whatever number
\* of writes fail or move nothing, answers are lost, takes are late, agents stop
\* and things are moved by hand: what each agent knows, has handled and has at
\* its worker agrees with the coordinator and with where the things are.
THEOREM SystemInductive == SystemSpec => []SystemInv
BY SystemStarts, SystemStep, PTL DEF SystemSpec

\* Once every other host has dealt with the newest take none stands in its way:
\* the thing is with its assignee, or was missed or strayed.
LEMMA HandledFollows == SystemInv => FollowsTakes
<1> SUFFICES ASSUME SystemInv, NEW k \in DOMAIN assignments, DealtWith(k), heading[k] = NoHost,
                    ~missed[k], ~strayed[k]
             PROVE  place[k] = assignments[k].assignee
  BY DEF FollowsTakes
<1> DEFINE g == place[k]
<1>1. MemoryInv /\ ThingsInv /\ HostsInv
  BY DEF SystemInv
<1>2. k \in Keys /\ assignments[k].seq \in Nat \ {0} /\ assignments[k].assignee \in Hosts
  BY <1>1 DEF MemoryInv, ContentInv, StoredOK, Stored
<1>3. g \in Hosts
  BY <1>1, <1>2 DEF ThingsInv
<1> SUFFICES ASSUME g # assignments[k].assignee PROVE FALSE
  OBVIOUS
<1>4. agents[g].handled.seqs[k] = assignments[k].seq
  BY <1>3 DEF DealtWith
<1>5. HandledInv(g, agents[g], World) /\ World.a = assignments
  BY <1>1, <1>3 DEF HostsInv, AgentInv, World
<1>6. Freed(g, k)
  BY <1>2, <1>3, <1>4, <1>5, InFree DEF HandledInv
<1> QED BY <1>2, <1>6, HostsAssumption DEF Freed, AtHome, Here

\* Each thing follows its newest take: once every other host has dealt with it
\* and nothing is on its way, the thing is with the host that took it, whatever
\* older writes are still going on, and however often writes fail or move
\* nothing, agents stop, answers are lost, takes are late and the user moves
\* things by hand; but for a take that a host dealt with without moving what it
\* had or was being brought (missed) and for what strayed since.
THEOREM FollowsCorrect == SystemSpec => []FollowsTakes
BY SystemInductive, HandledFollows, PTL

\* A device marked arrived is with its assignee until a newer take, whatever is
\* sent, lost, late or repeated; but for a host that sends away what it took
\* itself, and for the user who moves it by hand.
THEOREM ArrivedCorrect == SystemSpec => []ArrivedIsHere
<1>1. SystemInv => ArrivedIsHere
  BY DEF SystemInv
<1> QED BY <1>1, SystemInductive, PTL

\* With the agents and workers that post the takes, as with any: one activation
\* has one taker.
THEOREM SystemOneTaker == SystemSpec => []OneTakerPerActivation
<1>1. SystemInv => OneTakerPerActivation
  BY Zenon DEF SystemInv, MemoryInv, ContentInv, OneTakerPerActivation
<1> QED BY <1>1, SystemInductive, PTL

\* Whoever a thing is taken from, or taken again from, the host to notify of a
\* failure is never the one that asked.
THEOREM SystemPrev == SystemSpec => []PrevIsAnotherHost
<1>1. SystemInv => PrevIsAnotherHost
  BY Zenon DEF SystemInv, MemoryInv, ContentInv, PrevIsAnotherHost
<1> QED BY <1>1, SystemInductive, PTL


\* What a step does to the coordinator: a claim, a take or a report of the hosts,
\* or nothing that is shown.
LEMMA SystemSeqs == SystemInv /\ [SystemNext]_systemVars => SeqStep /\ EpochStep
<1> SUFFICES ASSUME SystemInv, [SystemNext]_systemVars PROVE SeqStep /\ EpochStep
  OBVIOUS
<1>1. /\ epoch \in Nat
      /\ \A k \in DOMAIN assignments :
           assignments[k] \in Stored /\ assignments[k].seq \in Nat /\ assignments[k].seq <= epoch
  BY DEF SystemInv, MemoryInv, ContentInv, StoredOK, Stored, SeqsInv
<1>2. ASSUME NEW h, NEW retake, Claim(h, retake, FALSE)
      PROVE  SeqStep /\ EpochStep
  <2>1. assignments' = assignments /\ epoch' = epoch + 1
    BY <1>2 DEF Claim, Bump
  <2> QED BY <1>1, <2>1 DEF SeqStep, EpochStep
<1>3. ASSUME NEW h, NEW act, NEW takes, Take(h, act, takes)
      PROVE  SeqStep /\ EpochStep
  <2>1. PICK new : assignments' = [k \in DOMAIN assignments \cup new |->
             IF k \in new THEN Recorded(h, k, takes[k], epoch + 1) ELSE assignments[k]]
    BY <1>3 DEF Take
  <2>2. \A k \in new : k \in DOMAIN assignments' /\ assignments'[k].seq = epoch + 1
    BY <2>1 DEF Recorded
  <2>3. \A k \in DOMAIN assignments' \ new : k \in DOMAIN assignments
                                             /\ assignments'[k] = assignments[k]
    BY <2>1
  <2>4. epoch' = epoch + 1
    BY <1>3 DEF Take, Bump
  <2> QED BY <1>1, <2>2, <2>3, <2>4 DEF SeqStep, EpochStep
<1>4. ASSUME NEW h, NEW arrivals, Arrived(h, arrivals)
      PROVE  SeqStep /\ EpochStep
  <2>1. /\ DOMAIN assignments' = DOMAIN assignments
        /\ \A k \in DOMAIN assignments :
             \/ assignments'[k] = assignments[k]
             \/ assignments'[k] = [assignments[k] EXCEPT !.arrived = TRUE]
        /\ epoch' = epoch + 1
    BY <1>4 DEF Arrived, Bump
  <2>2. \A k \in DOMAIN assignments : assignments'[k].seq = assignments[k].seq
    BY <1>1, <2>1 DEF Stored
  <2> QED BY <1>1, <2>1, <2>2 DEF SeqStep, EpochStep
<1>5. CASE UNCHANGED content
  <2>1. assignments' = assignments
    BY <1>5 DEF content
  <2> QED BY <1>5, <2>1 DEF SeqStep, EpochStep
<1>6. ASSUME NEW h \in Hosts,
             StateArrives(h) \/ TimerFires(h) \/ Claims(h) \/ Reports(h) \/ AgentRestarts(h)
      PROVE  UNCHANGED content \/ \E retake : Claim(h, retake, FALSE)
  BY <1>6 DEF StateArrives, TimerFires, Claims, Reports, AgentRestarts, serverVars, vars, content
<1>7. ASSUME NEW h \in Hosts, NEW i \in Commands(h), TakesLook(h, i) \/ TakeEnds(h, i)
      PROVE  UNCHANGED content \/ \E act, takes : Take(h, act, takes)
  BY <1>7 DEF TakesLook, TakeEnds, Posted, serverVars, vars, content
<1>8. ASSUME NEW h \in Hosts, NEW k \in Writes(h), NEW r \in Results, MoveEnds(h, k, r)
      PROVE  UNCHANGED content
  BY <1>8 DEF MoveEnds, serverVars, vars, content
<1>9. ASSUME NEW k \in Devices, Lands(k) \/ ArrivalReported(k)
      PROVE  UNCHANGED content \/ \E h, arrivals : Arrived(h, arrivals)
  BY <1>9 DEF Lands, ArrivalReported, serverVars, vars, content
<1>10. ASSUME NEW k \in Keys, NEW h \in Hosts, UserMoves(k, h)
       PROVE  UNCHANGED content
  BY <1>10 DEF UserMoves, serverVars, vars, content
<1>11. ASSUME NEW r \in late, LateTake(r)
       PROVE  \E h, act, takes : Take(h, act, takes)
  BY <1>11 DEF LateTake
<1>12. UNCHANGED systemVars => UNCHANGED content
  BY DEF systemVars, serverVars, vars, content
<1> QED BY <1>2, <1>3, <1>4, <1>5, <1>6, <1>7, <1>8, <1>9, <1>10, <1>11, <1>12 DEF SystemNext

\* A seq identifies one recording with every host at work, so that what agent.json
\* says was handled is of that recording and no other.
THEOREM SystemSeqsCorrect == SystemSpec => SeqIdentifiesRecording
<1>1. SystemSpec => [][SeqStep]_systemVars
  BY SystemInductive, SystemSeqs, PTL DEF SystemSpec
<1>2. [SeqStep]_systemVars => [SeqStep]_vars
  BY DEF systemVars, serverVars
<1>3. SystemSpec => [][SeqStep]_vars
  BY <1>1, <1>2, PTL
<1> QED BY <1>3 DEF SeqIdentifiesRecording, SeqStep

\* Every change of the owner, the activation or the assignments moves the epoch,
\* so that the agents fetch it; live, which deciders read too, does not move it.
THEOREM SystemEpochs == SystemSpec => EveryChangeMovesEpoch
<1>1. SystemSpec => [][EpochStep]_systemVars
  BY SystemInductive, SystemSeqs, PTL DEF SystemSpec
<1>2. [EpochStep]_systemVars => [EpochStep]_vars
  BY DEF systemVars, serverVars
<1>3. SystemSpec => [][EpochStep]_vars
  BY <1>1, <1>2, PTL
<1> QED BY <1>3 DEF EveryChangeMovesEpoch, EpochStep

-----------------------------------------------------------------------------
(* Who owns: the claims of one host, against the same coordinator whatever *)
(* becomes of state.json.                                                  *)

Claimers == [attempt : 0..Attempts, trying : BOOLEAN, cached : BOOLEAN,
             at : Addrs \cup {NoAddr}, request : Requests]

\* A claim tries, or waits for an attempt it still has.
ClaimerInv ==
  /\ claimer \in Claimers /\ home \in Addrs
  /\ claimer.trying => Busy
  /\ Busy /\ ~claimer.trying => claimer.attempt < Attempts

\* The claim under way has not been processed, as far as it can tell: it will
\* bring the ownership here, or give up.
Undecided == Busy /\ claimer.request \notin {"changed", "unchanged"}

\* The owner is the host chosen last; or it is this one that was chosen and a
\* claim that will say so is still to come.
Followed ==
  \/ last = NoHost \/ excused
  \/ last # Me /\ owner = last
  \/ last = Me /\ (owner = Me \/ due \/ Undecided)

ClaimsInv == ClaimerInv /\ excused \in BOOLEAN /\ due \in BOOLEAN /\ Followed

LEMMA AttemptRecord ==
  ASSUME NEW n, NEW c, c = Attempt(n)
  PROVE  c = [attempt |-> n, trying |-> TRUE, cached |-> FALSE, at |-> NoAddr,
              request |-> "none"]
BY DEF Attempt, Resting

LEMMA RestingOK ==
  /\ Resting \in Claimers /\ ~Resting.trying /\ Resting.attempt = 0 /\ Resting.request = "none"
  /\ \A n \in 1..Attempts :
       /\ Attempt(n) \in Claimers /\ Attempt(n).trying /\ Attempt(n).attempt = n
       /\ Attempt(n).request = "none"
<1>1. Resting \in Claimers /\ ~Resting.trying /\ Resting.attempt = 0 /\ Resting.request = "none"
  BY ClaimBounds DEF Resting, Claimers, Requests
<1>2. ASSUME NEW n \in 1..Attempts
      PROVE  /\ Attempt(n) \in Claimers /\ Attempt(n).trying /\ Attempt(n).attempt = n
             /\ Attempt(n).request = "none"
  <2>1. Attempt(n) = [attempt |-> n, trying |-> TRUE, cached |-> FALSE, at |-> NoAddr,
                      request |-> "none"]
    BY AttemptRecord
  <2>2. n \in 0..Attempts
    BY ClaimBounds
  <2> QED BY <2>1, <2>2 DEF Claimers, Requests
<1> QED BY <1>1, <1>2

LEMMA InitClaims == ClaimsInit => ClaimsInv
BY RestingOK DEF ClaimsInit, ClaimsInv, ClaimerInv, Followed, Busy

-----------------------------------------------------------------------------
(* The loop and the user.                                                  *)

LEMMA UserClaims ==
  ASSUME ClaimsInv, Attaches \/ HandsClaim \/ \E h \in Hosts : AttachesElsewhere(h) \/ Activates(h)
  PROVE  ClaimsInv'
<1>1. CASE Attaches
  BY <1>1 DEF Attaches, Chooses, ClaimsInv, ClaimerInv, Followed, findVars, Busy
<1>2. ASSUME NEW h \in Hosts, AttachesElsewhere(h) \/ Activates(h)
      PROVE  ClaimsInv'
  <2>1. owner' = h /\ last' = h /\ excused' = FALSE
        /\ UNCHANGED <<claimer, due, home>>
    BY <1>2 DEF AttachesElsewhere, Activates, Chooses, Claim, claimVars, findVars, vars
  <2> QED BY <2>1 DEF ClaimsInv, ClaimerInv, Followed, Busy
<1>3. CASE HandsClaim /\ Busy
  <2>1. /\ due' = FALSE /\ UNCHANGED <<claimer, home, last, owner>>
        /\ excused' = (excused \/ claimer.request \in {"changed", "unchanged"})
    BY <1>3 DEF HandsClaim, vars, findVars
  <2>2. excused' \in BOOLEAN /\ (excused => excused')
        /\ (claimer.request \in {"changed", "unchanged"} => excused')
    BY <2>1 DEF ClaimsInv
  <2> QED BY <1>3, <2>1, <2>2 DEF ClaimsInv, ClaimerInv, Followed, Busy, Undecided
<1>4. CASE HandsClaim /\ ~Busy
  <2>1. /\ due' = FALSE /\ claimer' = Attempt(1) /\ UNCHANGED <<home, last, owner, excused>>
    BY <1>4 DEF HandsClaim, vars, findVars
  <2>2. 1 \in 1..Attempts
    BY ClaimBounds
  <2>3. /\ claimer' \in Claimers /\ claimer'.trying /\ claimer'.attempt = 1
        /\ claimer'.request = "none"
    BY <2>1, <2>2, RestingOK
  <2>4. ClaimerInv' /\ Undecided'
    BY <2>1, <2>3 DEF ClaimsInv, ClaimerInv, Busy, Undecided
  <2> QED BY <2>1, <2>4 DEF ClaimsInv, Followed
<1> QED BY <1>1, <1>2, <1>3, <1>4

-----------------------------------------------------------------------------
(* The coordinator processes a claim, on time or late.                     *)

LEMMA ProcessedOK ==
  ASSUME ClaimsInv, NEW r \in {"changed", "unchanged", "refused"}, Processed(r)
  PROVE  /\ excused' \in BOOLEAN /\ last' = last /\ (excused => excused')
         /\ r = "changed" => owner' = Me /\ (last # Me => excused')
         /\ r = "unchanged" => owner' = Me /\ owner = Me
         /\ r = "refused" => owner' = owner
<1>1. excused' \in BOOLEAN /\ last' = last /\ (excused => excused')
      /\ (r = "changed" /\ last # Me => excused')
  BY DEF Processed, ClaimsInv
<1> QED BY <1>1 DEF Processed, Claim, vars

LEMMA ReachesClaims ==
  ASSUME ClaimsInv, Reaches PROVE ClaimsInv'
<1>1. PICK r \in {"changed", "unchanged", "refused"} :
        Processed(r) /\ claimer' = [claimer EXCEPT !.request = r]
  BY DEF Reaches
<1>2. /\ claimer.request = "sent" /\ UNCHANGED <<due, home>>
  BY DEF Reaches, findVars
<1>3. ClaimerInv'
  BY <1>1, <1>2 DEF ClaimsInv, ClaimerInv, Claimers, Requests, Busy
<1>4. r = "refused" => (Undecided' <=> Undecided)
  BY <1>1, <1>2 DEF ClaimsInv, ClaimerInv, Claimers, Undecided, Busy
<1> QED BY <1>1, <1>2, <1>3, <1>4, ProcessedOK DEF ClaimsInv, Followed

LEMMA StrayClaims ==
  ASSUME ClaimsInv, StrayEnds PROVE ClaimsInv'
<1>1. UNCHANGED <<due, claimer, home>> /\ (ClaimerInv' <=> ClaimerInv) /\ (Undecided' <=> Undecided)
  BY DEF StrayEnds, findVars, ClaimerInv, Undecided, Busy
<1>2. CASE \E r \in {"changed", "unchanged", "refused"} : Processed(r)
  BY <1>1, <1>2, ProcessedOK DEF ClaimsInv, Followed
<1>3. CASE UNCHANGED <<vars, userVars>>
  BY <1>1, <1>3 DEF vars, userVars, ClaimsInv, Followed
<1> QED BY <1>2, <1>3 DEF StrayEnds

-----------------------------------------------------------------------------
(* The rest of a claim, and what happens around it.                        *)

LEMMA AttemptClaims ==
  ASSUME ClaimsInv,
         \/ \E a \in Addrs : TriesCandidate(a) \/ HomeMoves(a)
         \/ CandidateFails \/ Answered \/ NextAttempt
  PROVE  ClaimsInv'
<1>1. UNCHANGED <<owner, due, last, excused>>
  BY DEF TriesCandidate, HomeMoves, CandidateFails, Answered, NextAttempt, vars, userVars,
         serverButWaits, content
<1>2. CASE \E a \in Addrs : TriesCandidate(a)
  <2>1. ClaimerInv' /\ (Undecided => Undecided')
    BY <1>2 DEF TriesCandidate, findVars, ClaimsInv, ClaimerInv, Claimers, Requests, Busy,
                Undecided
  <2> QED BY <1>1, <2>1 DEF ClaimsInv, Followed
<1>3. CASE \E a \in Addrs : HomeMoves(a)
  <2>1. ClaimerInv' /\ (Undecided => Undecided')
    BY <1>3 DEF HomeMoves, ClaimsInv, ClaimerInv, Claimers, Requests, Busy, Undecided
  <2> QED BY <1>1, <2>1 DEF ClaimsInv, Followed
<1>4. CASE CandidateFails
  <2>1. ClaimerInv' /\ (Undecided => Undecided')
    BY <1>4 DEF CandidateFails, findVars, ClaimsInv, ClaimerInv, Claimers, Requests, Busy,
                Undecided
  <2> QED BY <1>1, <2>1 DEF ClaimsInv, Followed
<1>5. CASE Answered
  <2>1. ClaimerInv' /\ ~Undecided
    BY <1>5, RestingOK DEF Answered, ClaimsInv, ClaimerInv, Busy, Undecided
  <2> QED BY <1>1, <2>1 DEF ClaimsInv, Followed
<1>6. CASE NextAttempt
  <2>1. claimer.attempt + 1 \in 1..Attempts /\ claimer' = Attempt(claimer.attempt + 1)
        /\ home' = home
    BY <1>6, ClaimBounds DEF NextAttempt, findVars, ClaimsInv, ClaimerInv, Claimers, Busy
  <2>2. ClaimerInv' /\ Undecided'
    BY <2>1, RestingOK DEF ClaimsInv, ClaimerInv, Busy, Undecided
  <2> QED BY <1>1, <2>2 DEF ClaimsInv, Followed
<1> QED BY <1>2, <1>3, <1>4, <1>5, <1>6

LEMMA DeadlineClaims ==
  ASSUME ClaimsInv, DeadlineEnds PROVE ClaimsInv'
<1>1. /\ claimer.trying /\ Busy /\ claimer.attempt \in 1..Attempts
      /\ claimer' = IF claimer.attempt < Attempts
                    THEN [Resting EXCEPT !.attempt = claimer.attempt] ELSE Resting
      /\ excused' = (excused \/ (claimer.attempt = Attempts /\ last = Me))
      /\ UNCHANGED <<owner, due, last, home>>
  BY ClaimBounds DEF DeadlineEnds, ClaimsInv, ClaimerInv, Claimers, Busy, vars, findVars
<1>2. excused' \in BOOLEAN /\ (excused => excused')
      /\ (claimer.attempt = Attempts /\ last = Me => excused')
  BY <1>1 DEF ClaimsInv
<1>3. CASE claimer.attempt < Attempts
  <2>1. /\ claimer' \in Claimers /\ ~claimer'.trying /\ claimer'.attempt = claimer.attempt
        /\ claimer'.request = "none"
    <3>1. claimer' = [attempt |-> claimer.attempt, trying |-> FALSE, cached |-> FALSE,
                      at |-> NoAddr, request |-> "none"]
      BY <1>1, <1>3 DEF Resting
    <3>2. claimer.attempt \in 0..Attempts
      BY <1>1, ClaimBounds
    <3> QED BY <3>1, <3>2 DEF Claimers, Requests
  <2> QED BY <1>1, <1>2, <1>3, <2>1 DEF ClaimsInv, ClaimerInv, Followed, Busy, Undecided
<1>4. CASE ~(claimer.attempt < Attempts)
  <2>1. claimer' = Resting /\ claimer.attempt = Attempts
    BY <1>1, <1>4, ClaimBounds
  <2> QED BY <1>1, <1>2, <2>1, RestingOK DEF ClaimsInv, ClaimerInv, Followed, Busy
<1> QED BY <1>3, <1>4

LEMMA WatcherClaims ==
  ASSUME ClaimsInv,
         ConnectsCached \/ FallsThrough \/ BrowseFinds \/ PollFails \/ UNCHANGED allVars
  PROVE  ClaimsInv'
<1>1. UNCHANGED <<owner, due, claimer, home, last, excused>>
  BY DEF ConnectsCached, FallsThrough, BrowseFinds, PollFails, Connects, allVars, vars,
         claimVars, findVars, userVars, serverButWaits, content
<1> QED BY <1>1 DEF ClaimsInv, ClaimerInv, Followed, Busy, Undecided

-----------------------------------------------------------------------------
\* Once no claim is due, tried or on its way, the owner is the host the user
\* chose last, but for the exceptions that "excused" records, each of a claim
\* slower than the user.
THEOREM OwnerCorrect == ClaimsSpec => []OwnerFollowsAttach
<1>1. ClaimsInv /\ [ClaimsNext]_allVars => ClaimsInv'
  BY UserClaims, ReachesClaims, StrayClaims, AttemptClaims, DeadlineClaims, WatcherClaims
     DEF ClaimsNext
<1>2. ClaimsInv => OwnerFollowsAttach
  BY DEF ClaimsInv, Followed, OwnerFollowsAttach, Undecided
<1> QED BY <1>1, <1>2, InitClaims, PTL DEF ClaimsSpec

=============================================================================
