--------------------------- MODULE DetectorProofs ---------------------------
(***************************************************************************)
(* Proofs about the attach detector, for any devices, number of interfaces *)
(* of each, receivers and bound: an attach is never more than one edge.    *)
(* The queue of HID events is a future of what the detector tracks, which  *)
(* ends with the interfaces there are.                                     *)
(***************************************************************************)
EXTENDS Detector, FiniteSetTheorems, SequenceTheorems, TLAPS

\* The events of the library.
Events == {e \in [type : {"connected", "disconnected"}, path : Paths,
                  of : Things \cup {Unknown}] :
             e.type = "connected" => e.of = e.path[1]}

\* What an event does to the interfaces tracked.
Then(e, S) ==
  IF e.path[1] \notin Targets THEN S
  ELSE IF e.type = "connected" THEN S \cup {e.path} ELSE S \ {e.path}

\* 1 for an absent->present edge of t.
Rise(t, S, T) == IF PathsOf(t, S) = {} /\ PathsOf(t, T) # {} THEN 1 ELSE 0

\* Reading q takes the detector from the interfaces S to the interfaces T, over
\* those of h; d counts the edges still to come.
Future(q, S, T, h, d) ==
  /\ h \in [0..Len(q) -> SUBSET Paths] /\ d \in [Targets -> [0..Len(q) -> Nat]]
  /\ h[0] = S /\ h[Len(q)] = T
  /\ \A i \in 1..Len(q) : h[i] = Then(q[i], h[i - 1])
  /\ \A t \in Targets :
       /\ d[t][Len(q)] = 0
       /\ \A i \in 1..Len(q) : d[t][i - 1] = d[t][i] + Rise(t, h[i - 1], h[i])

LEMMA ThenPaths ==
  ASSUME NEW e \in Events, NEW S \in SUBSET Paths
  PROVE  Then(e, S) \in SUBSET Paths
BY DEF Events, Then

\* Nothing to read, nothing to come.
LEMMA FutureEmpty ==
  ASSUME NEW S \in SUBSET Paths
  PROVE  \E h, d : Future(<<>>, S, S, h, d) /\ \A t \in Targets : d[t][0] = 0
<1> DEFINE h == [i \in 0..0 |-> S]
           d == [t \in Targets |-> [i \in 0..0 |-> 0]]
<1>1. Len(<<>>) = 0
  OBVIOUS
<1>2. Future(<<>>, S, S, h, d) /\ \A t \in Targets : d[t][0] = 0
  BY <1>1 DEF Future
<1> QED BY <1>2

\* One more event: one edge more to come, if it is one.
LEMMA FutureGrows ==
  ASSUME NEW q \in Seq(Events), NEW e \in Events, NEW S, NEW T, NEW h, NEW d,
         Future(q, S, T, h, d)
  PROVE  \E h2, d2 : /\ Future(Append(q, e), S, Then(e, T), h2, d2)
                     /\ \A t \in Targets : d2[t][0] = d[t][0] + Rise(t, T, Then(e, T))
<1> DEFINE n == Len(q)
           r == Append(q, e)
           h2 == [i \in 0..(n + 1) |-> IF i \in 0..n THEN h[i] ELSE Then(e, T)]
           d2 == [t \in Targets |-> [i \in 0..(n + 1) |->
                   IF i \in 0..n THEN d[t][i] + Rise(t, T, Then(e, T)) ELSE 0]]
<1>1. /\ n \in Nat /\ Len(r) = n + 1 /\ r[n + 1] = e
      /\ \A i \in 1..n : r[i] = q[i]
  BY AppendProperties, LenProperties
<1>2. /\ h \in [0..n -> SUBSET Paths] /\ d \in [Targets -> [0..n -> Nat]]
      /\ h[0] = S /\ h[n] = T
      /\ \A i \in 1..n : h[i] = Then(q[i], h[i - 1])
      /\ \A t \in Targets :
           /\ d[t][n] = 0
           /\ \A i \in 1..n : d[t][i - 1] = d[t][i] + Rise(t, h[i - 1], h[i])
  BY DEF Future
<1>3. \A A, B : \A t \in Targets : Rise(t, A, B) \in Nat
  BY DEF Rise
<1>4. T \in SUBSET Paths /\ Then(e, T) \in SUBSET Paths
  BY <1>1, <1>2, ThenPaths
<1> HIDE DEF n, r
<1>5. h2 \in [0..(n + 1) -> SUBSET Paths] /\ d2 \in [Targets -> [0..(n + 1) -> Nat]]
  BY <1>1, <1>2, <1>3, <1>4
<1>6. /\ \A i \in 0..n : h2[i] = h[i]
      /\ h2[n + 1] = Then(e, T)
      /\ \A t \in Targets : /\ d2[t][n + 1] = 0
                            /\ \A i \in 0..n : d2[t][i] = d[t][i] + Rise(t, T, Then(e, T))
  BY <1>1
<1> HIDE DEF h2, d2
<1>7. ASSUME NEW i \in 1..(n + 1) PROVE h2[i] = Then(r[i], h2[i - 1])
  <2>1. CASE i \in 1..n
    <3>1. i - 1 \in 0..n /\ i \in 0..n
      BY <1>1, <2>1
    <3> QED BY <1>1, <1>2, <1>6, <2>1, <3>1
  <2>2. CASE i = n + 1
    <3>1. i - 1 = n /\ n \in 0..n
      BY <1>1, <2>2
    <3> QED BY <1>1, <1>2, <1>6, <2>2, <3>1
  <2> QED BY <1>1, <2>1, <2>2
<1>8. ASSUME NEW t \in Targets, NEW i \in 1..(n + 1)
      PROVE  d2[t][i - 1] = d2[t][i] + Rise(t, h2[i - 1], h2[i])
  <2>1. CASE i \in 1..n
    <3>1. i - 1 \in 0..n /\ i \in 0..n
      BY <1>1, <2>1
    <3>2. /\ d2[t][i - 1] = d[t][i - 1] + Rise(t, T, Then(e, T))
          /\ d2[t][i] = d[t][i] + Rise(t, T, Then(e, T))
          /\ h2[i - 1] = h[i - 1] /\ h2[i] = h[i]
      BY <1>6, <3>1
    <3>3. d[t][i - 1] = d[t][i] + Rise(t, h[i - 1], h[i])
      BY <1>2, <2>1
    <3>4. d[t][i] \in Nat /\ d[t][i - 1] \in Nat
      BY <1>2, <3>1
    <3>5. Rise(t, T, Then(e, T)) \in Nat /\ Rise(t, h[i - 1], h[i]) \in Nat
      BY <1>3
    <3> QED BY <3>2, <3>3, <3>4, <3>5
  <2>2. CASE i = n + 1
    <3>1. i - 1 = n /\ n \in 0..n
      BY <1>1, <2>2
    <3>2. d2[t][n] = d[t][n] + Rise(t, T, Then(e, T)) /\ d[t][n] = 0 /\ h2[n] = T
      BY <1>2, <1>6, <3>1
    <3>3. d2[t][n + 1] = 0 /\ h2[n + 1] = Then(e, T)
      BY <1>6
    <3>4. Rise(t, T, Then(e, T)) \in Nat
      BY <1>3
    <3> QED BY <2>2, <3>1, <3>2, <3>3, <3>4
  <2> QED BY <1>1, <2>1, <2>2
<1>9. 0 \in 0..n /\ n + 1 \in 1..(n + 1)
  BY <1>1
<1>10. h2[0] = S
  BY <1>2, <1>6, <1>9
<1>11. Future(r, S, Then(e, T), h2, d2)
  BY <1>1, <1>5, <1>6, <1>7, <1>8, <1>10 DEF Future
<1>12. \A t \in Targets : d2[t][0] = d[t][0] + Rise(t, T, Then(e, T))
  BY <1>6, <1>9
<1> QED BY <1>11, <1>12 DEF r

\* The first event read: one edge less to come, if it is one.
LEMMA FutureShrinks ==
  ASSUME NEW q \in Seq(Events), q # <<>>, NEW S, NEW T, NEW h, NEW d, Future(q, S, T, h, d)
  PROVE  \E h2, d2 : /\ Future(Tail(q), Then(Head(q), S), T, h2, d2)
                     /\ \A t \in Targets : d[t][0] = d2[t][0] + Rise(t, S, Then(Head(q), S))
<1> DEFINE n == Len(q)
           r == Tail(q)
           h2 == [i \in 0..(n - 1) |-> h[i + 1]]
           d2 == [t \in Targets |-> [i \in 0..(n - 1) |-> d[t][i + 1]]]
<1>1. /\ n \in Nat \ {0} /\ Len(r) = n - 1 /\ Head(q) = q[1]
      /\ \A i \in 1..(n - 1) : r[i] = q[i + 1]
  BY HeadTailProperties, LenProperties, EmptySeq
<1>2. /\ h \in [0..n -> SUBSET Paths] /\ d \in [Targets -> [0..n -> Nat]]
      /\ h[0] = S /\ h[n] = T
      /\ \A i \in 1..n : h[i] = Then(q[i], h[i - 1])
      /\ \A t \in Targets :
           /\ d[t][n] = 0
           /\ \A i \in 1..n : d[t][i - 1] = d[t][i] + Rise(t, h[i - 1], h[i])
  BY DEF Future
<1> HIDE DEF n, r
<1>3. \A i \in 0..(n - 1) : i + 1 \in 1..n /\ i + 1 \in 0..n /\ (i + 1) - 1 = i
  BY <1>1
<1>4. h2 \in [0..(n - 1) -> SUBSET Paths] /\ d2 \in [Targets -> [0..(n - 1) -> Nat]]
  BY <1>2, <1>3
<1>5. /\ \A i \in 0..(n - 1) : h2[i] = h[i + 1]
      /\ \A t \in Targets, i \in 0..(n - 1) : d2[t][i] = d[t][i + 1]
  OBVIOUS
<1> HIDE DEF h2, d2
<1>6. 0 \in 0..(n - 1) /\ n - 1 \in 0..(n - 1) /\ (n - 1) + 1 = n /\ 1 \in 1..n
  BY <1>1
<1>7. h2[0] = Then(Head(q), S) /\ h2[n - 1] = T
  BY <1>1, <1>2, <1>5, <1>6
<1>8. ASSUME NEW i \in 1..(n - 1)
      PROVE  /\ h2[i] = Then(r[i], h2[i - 1])
             /\ \A t \in Targets : d2[t][i - 1] = d2[t][i] + Rise(t, h2[i - 1], h2[i])
  <2>1. /\ i \in 0..(n - 1) /\ i - 1 \in 0..(n - 1) /\ (i - 1) + 1 = i
        /\ i + 1 \in 1..n /\ (i + 1) - 1 = i
    BY <1>1
  <2>2. h2[i] = h[i + 1] /\ h2[i - 1] = h[i]
    BY <1>5, <2>1
  <2>3. \A t \in Targets : d2[t][i] = d[t][i + 1] /\ d2[t][i - 1] = d[t][i]
    BY <1>5, <2>1
  <2>4. h[i + 1] = Then(q[i + 1], h[i])
    BY <1>2, <2>1
  <2>5. \A t \in Targets : d[t][i] = d[t][i + 1] + Rise(t, h[i], h[i + 1])
    BY <1>2, <2>1
  <2> QED BY <1>1, <2>2, <2>3, <2>4, <2>5
<1>9. \A t \in Targets : d2[t][n - 1] = 0
  BY <1>2, <1>5, <1>6
<1>10. Future(r, Then(Head(q), S), T, h2, d2)
  BY <1>1, <1>4, <1>7, <1>8, <1>9 DEF Future
<1>11. \A t \in Targets : d[t][0] = d2[t][0] + Rise(t, S, Then(Head(q), S))
  <2>1. 1 - 1 = 0 /\ 0 + 1 = 1
    OBVIOUS
  <2>2. \A t \in Targets : d[t][0] = d[t][1] + Rise(t, h[0], h[1])
    BY <1>2, <1>6, <2>1
  <2>3. h[1] = Then(Head(q), S) /\ \A t \in Targets : d2[t][0] = d[t][1]
    BY <1>1, <1>2, <1>5, <1>6, <2>1
  <2> QED BY <1>2, <2>2, <2>3
<1> QED BY <1>10, <1>11 DEF r

-----------------------------------------------------------------------------
(* The invariant.                                                          *)

Tracked(S) == {p \in S : p[1] \in Targets}

SourceInv ==
  /\ nodes \in SUBSET Paths
  /\ source \in [Sources -> {"opening", "running", "over"}]
  /\ phase # "running" => source["hid"] = "over"

\* The counters are the numbers of interfaces tracked.
CountInv ==
  /\ presence \in [paths : SUBSET Paths, count : [Targets -> Nat]]
  /\ \A p \in presence.paths : p[1] \in Targets
  /\ \A t \in Targets : presence.count[t] = Cardinality(PathsOf(t, presence.paths))

\* What the queue has still to tell are the edges due.
Coming(q, S, T, due1) ==
  \E h, d : Future(q, S, T, h, d) /\ \A t \in Targets : due1[t] = d[t][0]

QueueInv ==
  /\ queue \in Seq(Events) /\ due \in [Targets -> Nat]
  /\ IF source["hid"] = "running" THEN Coming(queue, presence.paths, Tracked(nodes), due)
     ELSE queue = <<>> /\ \A t \in Targets : due[t] = 0

DetectorInv == SourceInv /\ CountInv /\ QueueInv

\* A thing has finitely many interfaces.
LEMMA PathsFinite ==
  ASSUME NEW t, NEW S \in SUBSET Paths
  PROVE  IsFiniteSet(PathsOf(t, S))
<1>1. IsFiniteSet(1..Interfaces)
  BY DetectorAssumption, FS_Interval
<1>2. IsFiniteSet({t} \X (1..Interfaces))
  BY <1>1, FS_Singleton, FS_Product
<1>3. PathsOf(t, S) \subseteq {t} \X (1..Interfaces)
  BY DEF PathsOf, Paths
<1> QED BY <1>2, <1>3, FS_Subset

LEMMA CountedAgain ==
  ASSUME NEW S \in SUBSET Paths, \A p \in S : p[1] \in Targets
  PROVE  [t \in Targets |-> Cardinality(PathsOf(t, S))] \in [Targets -> Nat]
BY PathsFinite, FS_CardinalityType

\* add and remove keep the counters, and the first interface is the edge.
LEMMA AddCounts ==
  ASSUME CountInv, NEW p \in Paths, p[1] \in Targets
  PROVE  LET c == Add(p).presence
         IN /\ c \in [paths : SUBSET Paths, count : [Targets -> Nat]]
            /\ c.paths = presence.paths \cup {p}
            /\ \A t \in Targets : c.count[t] = Cardinality(PathsOf(t, c.paths))
            /\ Add(p).edge <=> PathsOf(p[1], presence.paths) = {}
<1> DEFINE S == presence.paths
           u == p[1]
<1>1. /\ S \in SUBSET Paths /\ presence.count \in [Targets -> Nat]
      /\ \A t \in Targets : presence.count[t] = Cardinality(PathsOf(t, S))
  BY DEF CountInv
<1>2. CASE p \in S
  <2>1. Add(p) = [presence |-> presence, edge |-> FALSE]
    BY <1>2 DEF Add
  <2>2. S \cup {p} = S /\ p \in PathsOf(u, S)
    BY <1>2 DEF PathsOf
  <2> QED BY <1>1, <2>1, <2>2 DEF CountInv
<1>3. CASE p \notin S
  <2> DEFINE c == [paths |-> S \cup {p}, count |-> [presence.count EXCEPT ![u] = @ + 1]]
  <2>1. Add(p).presence = c /\ (Add(p).edge <=> presence.count[u] = 0)
    BY <1>3 DEF Add
  <2>2. c \in [paths : SUBSET Paths, count : [Targets -> Nat]]
    BY <1>1
  <2>3. c.paths = S \cup {p} /\ c.count = [presence.count EXCEPT ![u] = @ + 1]
    OBVIOUS
  <2>4. ASSUME NEW t \in Targets
        PROVE  c.count[t] = Cardinality(PathsOf(t, S \cup {p}))
    <3>1. CASE t = u
      <4>1. PathsOf(t, S \cup {p}) = PathsOf(t, S) \cup {p} /\ p \notin PathsOf(t, S)
        BY <1>3, <3>1 DEF PathsOf
      <4>2. IsFiniteSet(PathsOf(t, S))
        BY <1>1, PathsFinite
      <4>3. Cardinality(PathsOf(t, S) \cup {p}) = Cardinality(PathsOf(t, S)) + 1
        BY <4>1, <4>2, FS_AddElement
      <4> QED BY <1>1, <2>3, <3>1, <4>1, <4>3
    <3>2. CASE t # u
      <4>1. PathsOf(t, S \cup {p}) = PathsOf(t, S)
        BY <3>2 DEF PathsOf
      <4> QED BY <1>1, <2>3, <3>2, <4>1
    <3> QED BY <3>1, <3>2
  <2>5. presence.count[u] = 0 <=> PathsOf(u, S) = {}
    <3>1. IsFiniteSet(PathsOf(u, S))
      BY <1>1, PathsFinite
    <3> QED BY <1>1, <3>1, FS_EmptySet
  <2> HIDE DEF c
  <2> QED BY <2>1, <2>2, <2>3, <2>4, <2>5
<1> QED BY <1>2, <1>3

LEMMA RemoveCounts ==
  ASSUME CountInv, NEW e \in Events
  PROVE  LET c == Remove(e)
         IN /\ c \in [paths : SUBSET Paths, count : [Targets -> Nat]]
            /\ c.paths = presence.paths \ {e.path}
            /\ \A t \in Targets : c.count[t] = Cardinality(PathsOf(t, c.paths))
<1> DEFINE S == presence.paths
           p == e.path
           u == p[1]
<1>1. /\ S \in SUBSET Paths /\ presence.count \in [Targets -> Nat]
      /\ \A t \in Targets : presence.count[t] = Cardinality(PathsOf(t, S))
  BY DEF CountInv
<1>2. CASE p \notin S
  <2>1. Remove(e) = presence /\ S \ {p} = S
    BY <1>2 DEF Remove
  <2> QED BY <1>1, <2>1 DEF CountInv
<1>3. CASE p \in S
  <2> DEFINE c == [paths |-> S \ {p}, count |-> [presence.count EXCEPT ![u] = @ - 1]]
  <2>1. Remove(e) = c
    BY <1>3 DEF Remove
  <2>2. u \in Targets /\ p \in PathsOf(u, S) /\ IsFiniteSet(PathsOf(u, S))
    BY <1>1, <1>3, PathsFinite DEF CountInv, PathsOf
  <2>3. Cardinality(PathsOf(u, S) \ {p}) = Cardinality(PathsOf(u, S)) - 1
    BY <2>2, FS_RemoveElement
  <2>4. Cardinality(PathsOf(u, S) \ {p}) \in Nat
    BY <2>2, FS_Subset, FS_CardinalityType
  <2>5. presence.count[u] - 1 \in Nat
    BY <1>1, <2>2, <2>3, <2>4
  <2>6. c \in [paths : SUBSET Paths, count : [Targets -> Nat]]
    BY <1>1, <2>2, <2>5
  <2>7. c.paths = S \ {p} /\ c.count = [presence.count EXCEPT ![u] = @ - 1]
    OBVIOUS
  <2>8. ASSUME NEW t \in Targets
        PROVE  c.count[t] = Cardinality(PathsOf(t, S \ {p}))
    <3>1. CASE t = u
      <4>1. PathsOf(t, S \ {p}) = PathsOf(t, S) \ {p}
        BY DEF PathsOf
      <4> QED BY <1>1, <2>2, <2>3, <2>7, <3>1, <4>1
    <3>2. CASE t # u
      <4>1. PathsOf(t, S \ {p}) = PathsOf(t, S)
        BY <3>2 DEF PathsOf
      <4> QED BY <1>1, <2>7, <3>2, <4>1
    <3> QED BY <3>1, <3>2
  <2> HIDE DEF c
  <2> QED BY <2>1, <2>6, <2>7, <2>8
<1> QED BY <1>2, <1>3


LEMMA NothingCounted ==
  /\ NoPresence \in [paths : SUBSET Paths, count : [Targets -> Nat]]
  /\ NoPresence.paths = {}
  /\ \A t \in Targets : NoPresence.count[t] = Cardinality(PathsOf(t, NoPresence.paths))
<1>1. \A t : PathsOf(t, {}) = {}
  BY DEF PathsOf
<1>2. Cardinality({}) = 0
  BY FS_EmptySet
<1> QED BY <1>1, <1>2 DEF NoPresence

LEMMA InitDetector == Init => DetectorInv
<1> SUFFICES ASSUME Init PROVE DetectorInv
  OBVIOUS
<1>1. nodes \in SUBSET Paths
  BY DEF Init, PathsOf, Paths
<1>2. SourceInv
  BY <1>1 DEF Init, SourceInv, Idle, Sources
<1>3. CountInv
  BY NothingCounted DEF Init, CountInv
<1>4. QueueInv
  BY <1>2 DEF Init, QueueInv, SourceInv, Idle, Sources
<1> QED BY <1>2, <1>3, <1>4 DEF DetectorInv

\* A source that returns takes its share of the state with it.
LEMMA ReturnsInv ==
  ASSUME DetectorInv, NEW s \in Sources, Returns(s), UNCHANGED <<nodes, phase>>
  PROVE  DetectorInv'
<1>1. SourceInv'
  BY DEF DetectorInv, SourceInv, Returns
<1>2. CASE s = "hid"
  <2>1. CountInv'
    BY <1>2, NothingCounted DEF Returns, CountInv
  <2>2. source'["hid"] = "over"
    BY <1>2 DEF DetectorInv, SourceInv, Returns
  <2>3. QueueInv'
    BY <1>2, <2>2 DEF Returns, QueueInv
  <2> QED BY <1>1, <2>1, <2>3 DEF DetectorInv
<1>3. CASE s # "hid"
  <2>1. CountInv'
    BY <1>3 DEF DetectorInv, Returns, CountInv
  <2>2. source'["hid"] = source["hid"]
    BY <1>3 DEF DetectorInv, SourceInv, Returns, Sources
  <2>3. QueueInv'
    BY <1>3, <2>2 DEF DetectorInv, Returns, QueueInv, Coming, Tracked
  <2> QED BY <1>1, <2>1, <2>3 DEF DetectorInv
<1> QED BY <1>2, <1>3

\* The queue starts empty, or with an interface there is already.
LEMMA OpensInv == DetectorInv /\ Opens => DetectorInv'
<1> SUFFICES ASSUME DetectorInv, Opens PROVE DetectorInv'
  OBVIOUS
<1> DEFINE T == Tracked(nodes)
<1>1. SourceInv'
  BY DEF DetectorInv, SourceInv, Opens
<1>2. T \in SUBSET Paths /\ \A p \in T : p[1] \in Targets
  BY DEF DetectorInv, SourceInv, Tracked
<1>3. /\ presence' = [paths |-> T, count |-> [t \in Targets |-> Cardinality(PathsOf(t, T))]]
      /\ nodes' = nodes /\ due' = [t \in Targets |-> 0]
  BY DEF Opens, Tracked
<1>4. CountInv'
  <2>1. [t \in Targets |-> Cardinality(PathsOf(t, T))] \in [Targets -> Nat]
    BY <1>2, CountedAgain
  <2> QED BY <1>2, <1>3, <2>1 DEF CountInv
<1>5. source'["hid"] = "running"
  BY DEF DetectorInv, SourceInv, Opens, Sources
<1>6. PICK h, d : Future(<<>>, T, T, h, d) /\ \A t \in Targets : d[t][0] = 0
  BY <1>2, FutureEmpty
<1>7. presence'.paths = T /\ Tracked(nodes') = T /\ due' \in [Targets -> Nat]
  BY <1>3
<1> HIDE DEF T
<1>8. ASSUME queue' = <<>> PROVE QueueInv'
  <2>1. Coming(<<>>, T, T, due')
    BY <1>3, <1>6 DEF Coming
  <2> QED BY <1>5, <1>7, <1>8, <2>1 DEF QueueInv
<1>9. ASSUME NEW p \in nodes, queue' = <<Event("connected", p, p[1])>>
      PROVE  QueueInv'
  <2> DEFINE e == Event("connected", p, p[1])
             none == <<>>
  <2>1. e \in Events
    BY DEF DetectorInv, SourceInv, Events, Event, Paths
  <2>2. queue' = Append(none, e) /\ queue' \in Seq(Events)
    BY <1>9, <2>1
  <2>3. Then(e, T) = T
    BY DEF Then, Event, Tracked, T
  <2>4. \A t \in Targets : Rise(t, T, T) = 0
    BY DEF Rise
  <2>5. none \in Seq(Events) /\ Future(none, T, T, h, d)
    BY <1>6
  <2> HIDE DEF e, none
  <2>6. PICK h2, d2 : /\ Future(Append(none, e), T, Then(e, T), h2, d2)
                      /\ \A t \in Targets : d2[t][0] = d[t][0] + Rise(t, T, Then(e, T))
    BY <2>1, <2>5, FutureGrows
  <2>7. \A t \in Targets : due'[t] = d2[t][0]
    BY <1>3, <1>6, <2>3, <2>4, <2>6
  <2>8. Coming(queue', T, T, due')
    BY <2>2, <2>3, <2>6, <2>7 DEF Coming
  <2> QED BY <1>5, <1>7, <2>2, <2>8 DEF QueueInv
<1>10. QueueInv'
  BY <1>8, <1>9 DEF Opens
<1> QED BY <1>1, <1>4, <1>10 DEF DetectorInv

\* An event read is an edge just when it is one of those due.
LEMMA HidEventInv == DetectorInv /\ HidEvent => DetectorInv'
<1> SUFFICES ASSUME DetectorInv, HidEvent PROVE DetectorInv'
  OBVIOUS
<1> DEFINE e == Head(queue)
           S == presence.paths
           T == Tracked(nodes)
<1>1. /\ queue \in Seq(Events) /\ queue # <<>> /\ queue' = Tail(queue)
      /\ source["hid"] = "running" /\ due \in [Targets -> Nat] /\ Coming(queue, S, T, due)
      /\ nodes' = nodes /\ source' = source /\ phase' = phase
  BY DEF DetectorInv, QueueInv, HidEvent
<1>2. e \in Events /\ queue' \in Seq(Events)
  BY <1>1, HeadTailProperties
<1>3. SourceInv'
  BY <1>1 DEF DetectorInv, SourceInv
<1>4. CountInv
  BY DEF DetectorInv
<1>5. PICK h, d : Future(queue, S, T, h, d) /\ \A t \in Targets : due[t] = d[t][0]
  BY <1>1 DEF Coming
<1> HIDE DEF S, T
<1>6. PICK h2, d2 : /\ Future(Tail(queue), Then(e, S), T, h2, d2)
                    /\ \A t \in Targets : d[t][0] = d2[t][0] + Rise(t, S, Then(e, S))
  BY <1>1, <1>5, FutureShrinks
<1>7. 0 \in 0..Len(Tail(queue)) /\ \A t \in Targets : d2[t][0] \in Nat
  <2>1. Tail(queue) \in Seq(Events) /\ Len(Tail(queue)) \in Nat
    BY <1>1, <1>2
  <2>2. 0 \in 0..Len(Tail(queue))
    BY <2>1
  <2> QED BY <1>6, <2>2 DEF Future
\* What is left is to relate the step to Then and Rise.
<1>8. SUFFICES /\ CountInv' /\ presence'.paths = Then(e, S)
               /\ due' \in [Targets -> Int]
               /\ \A t \in Targets : due'[t] = due[t] - Rise(t, S, Then(e, S))
  <2>1. \A t \in Targets : Rise(t, S, Then(e, S)) \in Nat
    BY DEF Rise
  <2>2. \A t \in Targets : due'[t] = d2[t][0]
    BY <1>5, <1>6, <1>7, <1>8, <2>1
  <2>3. due' \in [Targets -> Nat]
    BY <1>7, <1>8, <2>2
  <2>4. Coming(queue', presence'.paths, T, due')
    BY <1>1, <1>6, <1>8, <2>2 DEF Coming
  <2>5. Tracked(nodes') = T
    BY <1>1 DEF T
  <2>6. QueueInv'
    BY <1>1, <1>2, <2>3, <2>4, <2>5 DEF QueueInv
  <2> QED BY <1>3, <1>8, <2>6 DEF DetectorInv
<1>9. S \in SUBSET Paths /\ \A p \in S : p[1] \in Targets
  BY <1>4 DEF CountInv, S
<1>10. CASE e.type = "disconnected"
  <2>1. presence' = Remove(e) /\ due' = due
    BY <1>10 DEF HidEvent
  <2>2. Then(e, S) = S \ {e.path}
    BY <1>9, <1>10 DEF Then
  <2>3. presence'.paths = Then(e, S)
    BY <1>2, <1>4, <2>1, <2>2, RemoveCounts DEF S
  <2>4. CountInv'
    BY <1>2, <1>4, <1>9, <2>1, <2>2, <2>3, RemoveCounts DEF CountInv
  <2>5. \A t \in Targets : Rise(t, S, Then(e, S)) = 0
    BY <2>2 DEF Rise, PathsOf
  <2> QED BY <1>1, <2>1, <2>3, <2>4, <2>5
<1>11. CASE e.type # "disconnected" /\ e.of \notin Targets
  <2>1. presence' = presence /\ due' = due
    BY <1>11 DEF HidEvent
  <2>2. e.path[1] \notin Targets
    BY <1>2, <1>11 DEF Events
  <2>3. Then(e, S) = S
    BY <2>2 DEF Then
  <2>4. CountInv'
    BY <1>4, <2>1 DEF CountInv
  <2>5. \A t \in Targets : Rise(t, S, Then(e, S)) = 0
    BY <2>3 DEF Rise
  <2> QED BY <1>1, <2>1, <2>3, <2>4, <2>5 DEF S
<1>12. CASE e.type # "disconnected" /\ e.of \in Targets
  <2> DEFINE u == e.of
             edge == Add(e.path).edge
  <2>1. /\ presence' = Add(e.path).presence
        /\ due' = IF edge THEN [due EXCEPT ![u] = @ - 1] ELSE due
    BY <1>12 DEF HidEvent
  <2>2. e.type = "connected" /\ e.path[1] = u /\ e.path \in Paths
    BY <1>2, <1>12 DEF Events
  <2>3. Then(e, S) = S \cup {e.path}
    BY <1>12, <2>2 DEF Then
  <2>4. /\ presence' \in [paths : SUBSET Paths, count : [Targets -> Nat]]
        /\ presence'.paths = S \cup {e.path}
        /\ \A t \in Targets : presence'.count[t] = Cardinality(PathsOf(t, presence'.paths))
        /\ edge <=> PathsOf(u, S) = {}
    BY <1>4, <1>12, <2>1, <2>2, AddCounts DEF S
  <2>5. CountInv'
    BY <1>9, <1>12, <2>2, <2>4 DEF CountInv
  <2>6. ASSUME NEW t \in Targets
        PROVE  Rise(t, S, Then(e, S)) = IF t = u /\ edge THEN 1 ELSE 0
    <3>1. CASE t = u
      <4>1. e.path \in PathsOf(t, S \cup {e.path})
        BY <2>2, <3>1 DEF PathsOf
      <4> HIDE DEF u, edge
      <4> QED BY <2>3, <2>4, <3>1, <4>1 DEF Rise
    <3>2. CASE t # u
      <4>1. PathsOf(t, S \cup {e.path}) = PathsOf(t, S)
        BY <2>2, <3>2 DEF PathsOf
      <4> QED BY <2>3, <3>2, <4>1 DEF Rise
    <3> QED BY <3>1, <3>2
  <2> HIDE DEF u, edge
  <2>7. due' \in [Targets -> Int]
    <3>1. CASE edge
      <4>1. due' = [due EXCEPT ![u] = @ - 1]
        BY <2>1, <3>1
      <4>2. due \in [Targets -> Int] /\ u \in Targets
        BY <1>1, <1>12 DEF u
      <4>3. due[u] - 1 \in Int
        BY <4>2
      <4> QED BY <4>1, <4>2, <4>3
    <3>2. CASE ~edge
      BY <1>1, <2>1, <3>2
    <3> QED BY <3>1, <3>2
  <2>8. \A t \in Targets : due'[t] = due[t] - (IF t = u /\ edge THEN 1 ELSE 0)
    BY <1>1, <2>1
  <2> QED BY <2>3, <2>4, <2>5, <2>6, <2>7, <2>8
<1> QED BY <1>10, <1>11, <1>12

\* A device tells the running watch one event more.
LEMMA TellsInv ==
  ASSUME DetectorInv, source["hid"] = "running",
         NEW e \in Events, queue' = Append(queue, e), UNCHANGED <<source, phase, presence>>,
         nodes' \in SUBSET Paths, Tracked(nodes') = Then(e, Tracked(nodes)),
         due' \in [Targets -> Nat],
         \A t \in Targets :
           due'[t] = due[t] + Rise(t, Tracked(nodes), Then(e, Tracked(nodes)))
  PROVE  DetectorInv'
<1> DEFINE S == presence.paths
           T == Tracked(nodes)
<1>1. queue \in Seq(Events) /\ Coming(queue, S, T, due)
  BY DEF DetectorInv, QueueInv
<1>2. PICK h, d : Future(queue, S, T, h, d) /\ \A t \in Targets : due[t] = d[t][0]
  BY <1>1 DEF Coming
<1> HIDE DEF S, T
<1>3. PICK h2, d2 : /\ Future(Append(queue, e), S, Then(e, T), h2, d2)
                    /\ \A t \in Targets : d2[t][0] = d[t][0] + Rise(t, T, Then(e, T))
  BY <1>1, <1>2, FutureGrows
<1>4. \A t \in Targets : due'[t] = d2[t][0]
  BY <1>2, <1>3 DEF T
<1>5. Coming(queue', S, Then(e, T), due')
  BY <1>3, <1>4 DEF Coming
<1>6. queue' \in Seq(Events)
  BY <1>1, AppendProperties
<1>7. QueueInv'
  BY <1>5, <1>6 DEF QueueInv, S, T
<1>8. SourceInv' /\ CountInv'
  BY DEF DetectorInv, SourceInv, CountInv
<1> QED BY <1>7, <1>8 DEF DetectorInv

\* Nobody watches.
LEMMA UntoldInv ==
  ASSUME DetectorInv, source["hid"] # "running", nodes' \in SUBSET Paths,
         UNCHANGED <<source, phase, presence, queue, due>>
  PROVE  DetectorInv'
<1>1. SourceInv' /\ CountInv'
  BY DEF DetectorInv, SourceInv, CountInv
<1>2. QueueInv'
  BY DEF DetectorInv, QueueInv
<1> QED BY <1>1, <1>2 DEF DetectorInv

LEMMA AppearsInv == ASSUME DetectorInv, NEW p \in Paths, Appears(p) PROVE DetectorInv'
<1>1. nodes' = nodes \cup {p} /\ nodes' \in SUBSET Paths /\ UNCHANGED <<source, phase, presence>>
  BY DEF Appears, DetectorInv, SourceInv
<1>2. CASE source["hid"] = "running"
  <2> DEFINE e == Event("connected", p, p[1])
             T == Tracked(nodes)
  <2>1. e \in Events /\ queue' = Append(queue, e)
    BY <1>2 DEF Appears, Tells, Events, Event, Paths
  <2>2. e.path = p /\ e.type = "connected"
    BY DEF Event
  <2>3. Tracked(nodes') = Then(e, T)
    BY <1>1, <2>2 DEF Tracked, Then
  <2>4. due \in [Targets -> Nat]
    BY DEF DetectorInv, QueueInv
  <2>5. \A t \in Targets : PathsOf(t, T) = PathsOf(t, nodes)
    BY DEF PathsOf, Tracked
  <2>6. CASE p[1] \in Targets /\ ~Present(p[1])
    <3>1. due' = [due EXCEPT ![p[1]] = @ + 1]
      BY <1>2, <2>6 DEF Appears
    <3>2. ASSUME NEW t \in Targets
          PROVE  Rise(t, T, Then(e, T)) = IF t = p[1] THEN 1 ELSE 0
      <4>1. CASE t = p[1]
        <5>1. PathsOf(t, T) = {} /\ p \in PathsOf(t, Then(e, T))
          BY <2>2, <2>5, <2>6, <4>1 DEF Present, PathsOf, Then
        <5> QED BY <4>1, <5>1 DEF Rise
      <4>2. CASE t # p[1]
        <5>1. PathsOf(t, Then(e, T)) = PathsOf(t, T)
          BY <2>2, <4>2 DEF PathsOf, Then
        <5> QED BY <4>2, <5>1 DEF Rise
      <4> QED BY <4>1, <4>2
    <3>3. /\ due' \in [Targets -> Nat]
          /\ \A t \in Targets : due'[t] = due[t] + (IF t = p[1] THEN 1 ELSE 0)
      BY <2>4, <2>6, <3>1
    <3> HIDE DEF e, T
    <3>4. \A t \in Targets : due'[t] = due[t] + Rise(t, T, Then(e, T))
      BY <3>2, <3>3
    <3> QED BY <1>1, <1>2, <2>1, <2>3, <3>3, <3>4, TellsInv DEF T
  <2>7. CASE ~(p[1] \in Targets /\ ~Present(p[1]))
    <3>1. due' = due
      BY <2>7 DEF Appears
    <3>2. ASSUME NEW t \in Targets
          PROVE  Rise(t, T, Then(e, T)) = 0
      <4>1. CASE t = p[1]
        <5>1. PathsOf(t, T) # {}
          BY <2>5, <2>7, <4>1 DEF Present
        <5> QED BY <5>1 DEF Rise
      <4>2. CASE t # p[1]
        <5>1. PathsOf(t, Then(e, T)) = PathsOf(t, T)
          BY <2>2, <4>2 DEF PathsOf, Then
        <5> QED BY <5>1 DEF Rise
      <4> QED BY <4>1, <4>2
    <3> HIDE DEF e, T
    <3>3. \A t \in Targets : due'[t] = due[t] + Rise(t, T, Then(e, T))
      BY <2>4, <3>1, <3>2
    <3> QED BY <1>1, <1>2, <2>1, <2>3, <2>4, <3>1, <3>3, TellsInv DEF T
  <2> QED BY <2>6, <2>7
<1>3. CASE source["hid"] # "running"
  <2>1. queue' = queue /\ due' = due
    BY <1>3 DEF Appears, Tells
  <2> QED BY <1>1, <1>3, <2>1, UntoldInv
<1> QED BY <1>2, <1>3

LEMMA GoesInv == ASSUME DetectorInv, NEW p \in Paths, Goes(p) PROVE DetectorInv'
<1>1. /\ nodes' = nodes \ {p} /\ nodes' \in SUBSET Paths
      /\ UNCHANGED <<source, phase, presence, due>>
  BY DEF Goes, DetectorInv, SourceInv
<1>2. CASE source["hid"] = "running"
  <2>1. PICK of \in {p[1], Unknown} : queue' = Append(queue, Event("disconnected", p, of))
    BY <1>2 DEF Goes, Tells
  <2> DEFINE e == Event("disconnected", p, of)
             T == Tracked(nodes)
  <2>2. e \in Events
    BY DEF Events, Event, Paths
  <2>3. e.path = p /\ e.type # "connected"
    BY DEF Event
  <2>4. Tracked(nodes') = Then(e, T)
    BY <1>1, <2>3 DEF Tracked, Then
  <2>5. due \in [Targets -> Nat]
    BY DEF DetectorInv, QueueInv
  <2>6. \A t \in Targets : Rise(t, T, Then(e, T)) = 0
    BY <2>3 DEF Rise, PathsOf, Then
  <2> HIDE DEF e, T
  <2>7. \A t \in Targets : due'[t] = due[t] + Rise(t, T, Then(e, T))
    BY <1>1, <2>5, <2>6
  <2> QED BY <1>1, <1>2, <2>1, <2>2, <2>4, <2>5, <2>7, TellsInv DEF T, e
<1>3. CASE source["hid"] # "running"
  <2>1. queue' = queue
    BY <1>3 DEF Goes, Tells
  <2> QED BY <1>1, <1>3, <2>1, UntoldInv
<1> QED BY <1>2, <1>3

\* The invariant says nothing of the rest.
LEMMA SameInv ==
  ASSUME DetectorInv, UNCHANGED <<nodes, source, phase, presence, queue, due>>
  PROVE  DetectorInv'
BY DEF DetectorInv, SourceInv, CountInv, QueueInv, Coming, Tracked

LEMMA NextDetector == DetectorInv /\ [Next]_vars => DetectorInv'
<1> SUFFICES ASSUME DetectorInv, [Next]_vars PROVE DetectorInv'
  OBVIOUS
<1>0. "hid" \in Sources /\ Receivers \subseteq Sources
  BY DEF Sources
<1>1. CASE UNCHANGED vars
  BY <1>1, SameInv DEF vars
<1>2. CASE GuardsUp
  <2>1. SourceInv' /\ CountInv' /\ QueueInv'
    BY <1>2 DEF GuardsUp, DetectorInv, SourceInv, CountInv, QueueInv, Coming, Tracked
  <2> QED BY <2>1 DEF DetectorInv
<1>3. CASE GuardsDown
  <2>1. SourceInv' /\ source'["hid"] = "over"
    BY <1>0, <1>3 DEF GuardsDown, DetectorInv, SourceInv, Idle
  <2>2. CountInv'
    BY <1>3, NothingCounted DEF GuardsDown, CountInv
  <2>3. QueueInv'
    BY <1>3, <2>1 DEF GuardsDown, QueueInv
  <2> QED BY <2>1, <2>2, <2>3 DEF DetectorInv
<1>4. CASE RunStarts
  <2>1. source["hid"] = "over" /\ source'["hid"] = "opening"
    BY <1>0, <1>4 DEF RunStarts, DetectorInv, SourceInv
  <2>2. SourceInv' /\ CountInv'
    BY <1>4 DEF RunStarts, DetectorInv, SourceInv, CountInv
  <2>3. QueueInv'
    BY <1>4, <2>1 DEF RunStarts, DetectorInv, QueueInv
  <2> QED BY <2>2, <2>3 DEF DetectorInv
<1>5. CASE RunReturns
  <2>1. source["hid"] = "over"
    BY <1>0, <1>5 DEF RunReturns, Idle
  <2>2. SourceInv' /\ CountInv' /\ QueueInv'
    BY <1>5, <2>1 DEF RunReturns, DetectorInv, SourceInv, CountInv, QueueInv
  <2> QED BY <2>2 DEF DetectorInv
<1>6. CASE LoopReceives
  BY <1>6, SameInv DEF LoopReceives
<1>7. CASE Opens
  BY <1>7, OpensInv
<1>8. CASE OpenFails \/ HidFails
  BY <1>0, <1>8, ReturnsInv DEF OpenFails, HidFails, Fails
<1>9. CASE HidEvent
  BY <1>9, HidEventInv
<1>10. CASE \E r \in Receivers : ReceiverEdge(r)
  BY <1>10, SameInv DEF ReceiverEdge
<1>11. CASE \E r \in Receivers : ReceiverFails(r)
  BY <1>0, <1>11, ReturnsInv DEF ReceiverFails, Fails
<1>12. CASE \E s \in Sources : Cancelled(s)
  BY <1>12, ReturnsInv DEF Cancelled
<1>13. CASE \E p \in Paths : Appears(p) \/ Goes(p)
  BY <1>13, AppearsInv, GoesInv
<1> QED
  BY <1>1, <1>2, <1>3, <1>4, <1>5, <1>6, <1>7, <1>8, <1>9, <1>10, <1>11, <1>12, <1>13
  DEF Next

-----------------------------------------------------------------------------
\* The inductive invariant: what each source has counted and what the library
\* still has to tell it is what is plugged in (detect_hid.go).
THEOREM DetectorCorrect == Spec => []DetectorInv
BY InitDetector, NextDetector, PTL DEF Spec

\* However the interfaces of a device come and go, and whatever the library
\* repeats, the detector never reports one attach twice (presence.add and
\* presence.remove, detect_hid.go).
THEOREM OneEdgeCorrect == Spec => []OneEdgePerAttach
<1>1. DetectorInv => OneEdgePerAttach
  BY DEF DetectorInv, QueueInv, OneEdgePerAttach
<1> QED BY <1>1, DetectorCorrect, PTL

=============================================================================
