--------------------------- MODULE ArrivalProofs ---------------------------
(***************************************************************************)
(* Proofs about the arrival watcher, for any hosts, names, devices, window *)
(* and bounds: its coordinator is the one of Server, and while state.json  *)
(* is kept an arrival it reports is real and reported once.                *)
(***************************************************************************)
EXTENDS Arrival, ServerProofs

-----------------------------------------------------------------------------
(* The coordinator it reports to is the coordinator.                       *)

\* Nothing is newer than the epoch, in memory and in the file.
Bounded(e, act, a) == act <= e /\ e <= MaxEpoch /\ \A k \in DOMAIN a : a[k].seq <= e
BoundInv == /\ Bounded(epoch, activation, assignments)
            /\ Bounded(disk.epoch, disk.activation, disk.assignments)

LEMMA BumpBound ==
  ASSUME IInv, BoundInv, Bump, activation' \in {activation, activation + 1},
         \A k \in DOMAIN assignments' : assignments'[k].seq <= epoch + 1
  PROVE  BoundInv'
<1>1. epoch \in Nat /\ activation \in Nat /\ epoch < MaxEpoch /\ epoch' = epoch + 1
  BY DEF IInv, MemoryInv, ContentInv, Bump
<1>2. Bounded(epoch', activation', assignments')
  BY <1>1, BoundsAssumption DEF BoundInv, Bounded
<1> QED BY <1>2 DEF BoundInv, Bounded, Bump, Persist

LEMMA BoundNext == IInv /\ BoundInv /\ [Next]_vars => BoundInv'
<1> SUFFICES ASSUME IInv, BoundInv, [Next]_vars PROVE BoundInv'
  OBVIOUS
<1>1. /\ epoch \in Nat /\ \A k \in DOMAIN assignments : /\ assignments[k].seq <= epoch
                                                        /\ assignments[k] \in Stored
  BY DEF IInv, MemoryInv, ContentInv, StoredOK, BoundInv, Bounded
<1>2. \A k \in DOMAIN assignments : assignments[k].seq \in Nat
  BY <1>1 DEF Stored
<1>3. CASE \E id \in Hosts, retake, force \in BOOLEAN : Claim(id, retake, force)
  BY <1>1, <1>2, <1>3, BumpBound DEF Claim
<1>4. ASSUME NEW id \in Hosts, NEW act \in 0..MaxEpoch, NEW takes \in TakeRequests,
             Take(id, act, takes)
      PROVE  BoundInv'
  <2>1. PICK new : assignments' = [k \in DOMAIN assignments \cup new |->
           IF k \in new THEN Recorded(id, k, takes[k], epoch + 1) ELSE assignments[k]]
    BY <1>4 DEF Take
  <2>2. \A k \in DOMAIN assignments' : assignments'[k].seq <= epoch + 1
    BY <1>1, <1>2, <2>1 DEF Recorded
  <2> QED BY <1>4, <2>2, BumpBound DEF Take
<1>5. ASSUME NEW id \in Hosts, NEW arrivals \in ArrivalRequests, Arrived(id, arrivals)
      PROVE  BoundInv'
  <2>1. /\ DOMAIN assignments' = DOMAIN assignments
        /\ \A k \in DOMAIN assignments :
             \/ assignments'[k] = assignments[k]
             \/ assignments'[k] = [assignments[k] EXCEPT !.arrived = TRUE]
    BY <1>5 DEF Arrived
  <2>2. \A k \in DOMAIN assignments' : assignments'[k].seq <= epoch + 1
    BY <1>1, <1>2, <2>1 DEF Stored
  <2> QED BY <1>5, <2>2, BumpBound DEF Arrived
<1>6. CASE Restart
  BY <1>6, BoundsAssumption DEF Restart, BoundInv, Bounded, Empty, NoAssignments
<1>7. CASE UNCHANGED <<content, epoch, disk>>
  BY <1>7 DEF content, BoundInv, Bounded
<1>8. (\E c \in Conns, id \in Hosts : WaitRegisters(c, id)) \/ (\E c \in Conns : WaitReturns(c))
      \/ (\E c \in Conns : Deregister(c)) \/ Tick \/ UNCHANGED vars
      => UNCHANGED <<content, epoch, disk>>
  BY DEF WaitRegisters, WaitReturns, Deregister, Tick, vars, content
<1> QED BY <1>3, <1>4, <1>5, <1>6, <1>7, <1>8 DEF Next

\* What is offered, watched and posted has the form of what the coordinator
\* hands out and takes.
ArrivalTypes ==
  /\ linked \in [Devices -> BOOLEAN]
  /\ offered # None => StoredOK(offered) /\ \A k \in DOMAIN offered : offered[k].seq <= MaxEpoch
  /\ DOMAIN watching \subseteq Devices
  /\ \A k \in DOMAIN watching : watching[k].seq \in 1..MaxEpoch
  /\ report \in ArrivalRequests /\ (stray # None => stray \in ArrivalRequests)

LEMMA Requests ==
  /\ NoReport \in ArrivalRequests
  /\ \A r \in ArrivalRequests : DOMAIN r \subseteq Devices
  /\ \A D \in SUBSET Devices : \A r \in [D -> 1..MaxEpoch] : r \in ArrivalRequests
BY DEF ArrivalRequests, NoReport

LEMMA ArrivalStep ==
  IInv /\ BoundInv /\ ArrivalTypes /\ [ArrivalNext]_arrivalVars => [Next]_vars
<1> SUFFICES ASSUME IInv, BoundInv, ArrivalTypes, [ArrivalNext]_arrivalVars PROVE [Next]_vars
  OBVIOUS
<1>1. Me \in Hosts /\ activation \in 0..MaxEpoch
  BY ArrivalAssumption, BoundsAssumption DEF IInv, MemoryInv, ContentInv, BoundInv, Bounded
<1>2. CASE StateOffered \/ Reconnects \/ Track \/ TickerFires \/ AnswerArrives \/ PostFails
           \/ GuardsFlap \/ LinkChanges \/ TimePasses \/ UNCHANGED arrivalVars
           \/ \E failing \in SUBSET DOMAIN watching : Poll(failing)
  BY <1>2 DEF StateOffered, Reconnects, Track, TickerFires, AnswerArrives, PostFails, GuardsFlap,
              LinkChanges, TimePasses, Poll, arrivalVars, serverVars
<1>3. CASE PostHandled
  BY <1>1, <1>3 DEF PostHandled, Handle, ArrivalTypes, serverVars, Next
<1>4. CASE StrayHandled
  BY <1>1, <1>4 DEF StrayHandled, Handle, ArrivalTypes, serverVars, Next
<1>5. CASE ServerChanges
  BY <1>1, <1>5 DEF ServerChanges, Claimed, Taken, Next
<1> QED BY <1>2, <1>3, <1>4, <1>5 DEF ArrivalNext

LEMMA ArrivalTypesNext ==
  IInv /\ BoundInv /\ ArrivalTypes /\ [ArrivalNext]_arrivalVars => ArrivalTypes'
<1> SUFFICES ASSUME IInv, BoundInv, ArrivalTypes, [ArrivalNext]_arrivalVars PROVE ArrivalTypes'
  OBVIOUS
<1>1. CASE StateOffered
  <2>1. offered' = assignments /\ StoredOK(assignments)
        /\ \A k \in DOMAIN assignments : assignments[k].seq <= MaxEpoch
    <3>1. /\ StoredOK(assignments) /\ epoch \in Nat /\ epoch <= MaxEpoch
          /\ \A k \in DOMAIN assignments : /\ assignments[k].seq <= epoch
                                           /\ assignments[k] \in Stored
      BY DEF IInv, MemoryInv, ContentInv, StoredOK, BoundInv, Bounded
    <3> QED BY <1>1, <3>1, BoundsAssumption DEF StateOffered, Stored
  <2> QED BY <1>1, <2>1 DEF StateOffered, ArrivalTypes, StoredOK
<1>2. CASE Track
  <2>1. \A k \in Current(offered) : /\ k \in Devices /\ offered[k].seq \in 1..MaxEpoch
    BY <1>2, BoundsAssumption DEF Track, ArrivalTypes, StoredOK, Stored, Current
  <2>2. /\ DOMAIN watching' = Current(offered)
        /\ \A k \in Current(offered) :
             \/ watching'[k] = [seq |-> offered[k].seq, since |-> now]
             \/ watching'[k] = watching[k] /\ watching[k].seq = offered[k].seq
    BY <1>2 DEF Track
  <2>3. \A k \in DOMAIN watching' : k \in Devices /\ watching'[k].seq \in 1..MaxEpoch
    BY <2>1, <2>2
  <2> QED BY <1>2, <2>3 DEF Track, ArrivalTypes
<1>3. ASSUME NEW failing \in SUBSET DOMAIN watching, Poll(failing)
      PROVE  ArrivalTypes'
  <2>1. PICK alive \in SUBSET DOMAIN watching : watching' = [k \in alive |-> watching[k]]
    BY <1>3 DEF Poll
  <2>2. PICK here \in SUBSET DOMAIN watching : report' = [k \in here |-> watching[k].seq]
    BY <1>3 DEF Poll
  <2>3. here \in SUBSET Devices /\ report' \in [here -> 1..MaxEpoch]
    BY <2>2 DEF ArrivalTypes
  <2>4. report' \in ArrivalRequests
    BY <2>3, Requests
  <2> QED BY <1>3, <2>1, <2>4 DEF Poll, ArrivalTypes, StoredOK
<1>4. CASE AnswerArrives
  <2>1. watching' = [k \in DOMAIN watching \ DOMAIN report |-> watching[k]] /\ report' = NoReport
    BY <1>4 DEF AnswerArrives, Acknowledge
  <2> QED BY <1>4, <2>1, Requests DEF AnswerArrives, ArrivalTypes, StoredOK
<1>5. CASE PostFails \/ GuardsFlap
  BY <1>5, Requests DEF PostFails, GuardsFlap, ArrivalTypes, StoredOK, NoReport
<1>6. CASE Reconnects \/ TickerFires \/ PostHandled \/ TimePasses \/ StrayHandled
           \/ ServerChanges \/ UNCHANGED arrivalVars
  BY <1>6 DEF Reconnects, TickerFires, PostHandled, TimePasses, StrayHandled, ServerChanges,
              arrivalVars, watcherVars, ArrivalTypes, StoredOK
<1>7. CASE LinkChanges
  BY <1>7 DEF LinkChanges, watcherVars, ArrivalTypes, StoredOK
<1> QED BY <1>1, <1>2, <1>3, <1>4, <1>5, <1>6, <1>7 DEF ArrivalNext

ArrivalBase == IInv /\ BoundInv /\ ArrivalTypes

LEMMA ArrivalBaseCorrect == ArrivalSpec => []ArrivalBase
<1>1. ArrivalInit => Init /\ BoundInv /\ ArrivalTypes
  BY Requests, BoundsAssumption DEF ArrivalInit, Init, BoundInv, Bounded, Empty, NoAssignments,
     ArrivalTypes, NoReport
<1>2. ArrivalBase /\ [ArrivalNext]_arrivalVars => ArrivalBase'
  BY ArrivalStep, ArrivalTypesNext, NextInv, BoundNext DEF ArrivalBase
<1> QED BY <1>1, <1>2, InitInv, PTL DEF ArrivalSpec, ArrivalBase

\* The arrival watcher posts the coordinator nothing but well-formed reports:
\* with it, late posts included, the coordinator behaves as Server says.
THEOREM ReportedServer == ArrivalSpec => Spec
<1>1. ArrivalInit => Init
  BY DEF ArrivalInit
<1>2. ArrivalBase /\ [ArrivalNext]_arrivalVars => [Next]_vars
  BY ArrivalStep DEF ArrivalBase
<1> QED BY <1>1, <1>2, ArrivalBaseCorrect, PTL DEF ArrivalSpec, Spec

-----------------------------------------------------------------------------
(* While the file is kept, an assignment is only ever replaced by a newer  *)
(* recording, and only a report of its own seq marks it arrived.           *)

\* What a step of the coordinator may do to the assignments.
Moves ==
  \A k \in DOMAIN assignments :
    /\ k \in DOMAIN assignments'
    /\ \/ assignments[k].seq < assignments'[k].seq
       \/ /\ assignments'[k].seq = assignments[k].seq
          /\ assignments'[k].assignee = assignments[k].assignee
          /\ assignments[k].arrived => assignments'[k].arrived

\* What marks k arrived, of the arrivals posted.
MarkedBy(arrivals) ==
  \A k \in DOMAIN assignments :
    /\ k \in DOMAIN assignments'
    /\ assignments'[k].seq = assignments[k].seq
    /\ assignments'[k].arrived /\ ~assignments[k].arrived =>
         k \in DOMAIN arrivals /\ arrivals[k] = assignments[k].seq
MarksNothing ==
  \A k \in DOMAIN assignments :
    k \in DOMAIN assignments' /\ assignments'[k].seq = assignments[k].seq
      /\ assignments'[k].arrived => assignments[k].arrived

LEMMA StoredTypes ==
  IInv => \A k \in DOMAIN assignments : /\ assignments[k] \in Stored
                                        /\ assignments[k].seq \in Nat \ {0}
BY DEF IInv, MemoryInv, ContentInv, StoredOK, Stored

LEMMA ChangeMoves ==
  ASSUME IInv, FileInv, ~FileLost, Claimed \/ Taken \/ Restart
  PROVE  Moves /\ MarksNothing
<1>1. CASE Claimed
  BY <1>1 DEF Claimed, Claim, Moves, MarksNothing
<1>2. CASE Taken
  <2>1. PICK id \in Hosts, takes \in TakeRequests : Take(id, activation, takes)
    BY <1>2 DEF Taken
  <2>2. PICK new : assignments' = [k \in DOMAIN assignments \cup new |->
           IF k \in new THEN Recorded(id, k, takes[k], epoch + 1) ELSE assignments[k]]
    BY <2>1 DEF Take
  <2>3. \A k \in DOMAIN assignments : assignments[k].seq < epoch + 1
    BY SeqTypes DEF FileInv
  <2>4. \A k \in DOMAIN assignments : /\ k \in DOMAIN assignments'
                                      /\ \/ assignments'[k].seq = epoch + 1
                                         \/ assignments'[k] = assignments[k]
    BY <2>2 DEF Recorded
  <2>5. Moves
    BY <2>3, <2>4 DEF Moves
  <2>6. MarksNothing
    BY <2>3, <2>4, SeqTypes DEF MarksNothing
  <2> QED BY <2>5, <2>6
<1>3. CASE Restart
  <2>1. assignments' = assignments
    BY <1>3, RestartFile DEF content
  <2> QED BY <2>1 DEF Moves, MarksNothing
<1> QED BY <1>1, <1>2, <1>3

LEMMA HandleMoves ==
  ASSUME IInv, NEW arrivals \in ArrivalRequests, Handle(arrivals)
  PROVE  /\ Moves /\ MarkedBy(arrivals)
         /\ \A k \in DOMAIN arrivals \cap DOMAIN assignments :
              assignments[k].assignee = Me /\ assignments[k].seq = arrivals[k]
                => assignments'[k].arrived /\ assignments'[k].seq = assignments[k].seq
<1>1. \A k \in DOMAIN assignments : assignments[k] \in Stored
  BY StoredTypes
<1>2. CASE Arrived(Me, arrivals)
  <2>1. /\ DOMAIN assignments' = DOMAIN assignments
        /\ \A k \in Matching(Me, arrivals) :
             k \in DOMAIN assignments /\ assignments'[k] = [assignments[k] EXCEPT !.arrived = TRUE]
        /\ \A k \in DOMAIN assignments \ Matching(Me, arrivals) : assignments'[k] = assignments[k]
    BY <1>2 DEF Arrived, Matching
  <2>2. \A k \in Matching(Me, arrivals) :
          /\ assignments'[k].arrived /\ assignments'[k].seq = assignments[k].seq
          /\ assignments'[k].assignee = assignments[k].assignee
          /\ k \in DOMAIN arrivals /\ arrivals[k] = assignments[k].seq
    BY <1>1, <2>1 DEF Stored, Matching
  <2>3. Moves /\ MarkedBy(arrivals)
    BY <2>1, <2>2 DEF Moves, MarkedBy
  <2>4. \A k \in DOMAIN arrivals \cap DOMAIN assignments :
          assignments[k].assignee = Me /\ assignments[k].seq = arrivals[k]
            /\ k \notin Matching(Me, arrivals) => assignments[k].arrived
    BY DEF Matching
  <2> QED BY <2>1, <2>2, <2>3, <2>4
<1>3. CASE Matching(Me, arrivals) = {} /\ UNCHANGED serverVars
  <2>1. assignments' = assignments
    BY <1>3 DEF serverVars, vars
  <2>2. Moves /\ MarkedBy(arrivals)
    BY <2>1 DEF Moves, MarkedBy
  <2> QED BY <1>3, <2>1, <2>2 DEF Matching
<1> QED BY <1>2, <1>3 DEF Handle

-----------------------------------------------------------------------------
(* What the watcher knows of the coordinator.                              *)

\* s is a seq k has or had, and as long as k has it, it is this host's.
Mine(k, s) ==
  /\ k \in DOMAIN assignments /\ s \in Nat \ {0} /\ s <= assignments[k].seq
  /\ s = assignments[k].seq => assignments[k].assignee = Me

\* Nothing is left to report under s.
Settled(k, s) ==
  /\ k \in DOMAIN assignments /\ s \in Nat \ {0}
  /\ \/ s < assignments[k].seq
     \/ s = assignments[k].seq /\ assignments[k].arrived

\* k was linked here under s, if s still is the seq of k.
Real(k, s) == Mine(k, s) /\ (<<k, s>> \in seen \/ s < assignments[k].seq)

\* The state in the channel is one the coordinator had.
OfferedInv ==
  offered # None =>
    \A k \in DOMAIN offered :
      /\ k \in DOMAIN assignments /\ offered[k].seq \in Nat \ {0}
      /\ offered[k].seq <= assignments[k].seq
      /\ offered[k].seq = assignments[k].seq => offered[k].assignee = assignments[k].assignee

\* What is watched is of an older state than what is offered.
WatchedInv ==
  \A k \in DOMAIN watching :
    /\ k \in Devices /\ Mine(k, watching[k].seq)
    /\ offered # None => k \in DOMAIN offered /\ watching[k].seq <= offered[k].seq

\* A post is of what is watched, and true; once handled there is no more to it.
PostedInv ==
  /\ phase \notin {"posting", "answering"} => DOMAIN report = {}
  /\ \A k \in DOMAIN report :
       /\ k \in DOMAIN watching /\ report[k] = watching[k].seq /\ Real(k, report[k])
       /\ phase = "answering" => Settled(k, report[k])
  /\ stray # None => \A k \in DOMAIN stray : Real(k, stray[k])

\* An answered post leaves nothing to poll for, whichever state comes next.
AckedInv ==
  \A k \in Devices, s \in Nat :
    <<k, s>> \in acked =>
      /\ Settled(k, s)
      /\ offered # None => /\ k \in DOMAIN offered /\ s <= offered[k].seq
                           /\ offered[k].seq = s => offered[k].arrived \/ reported[k] = s
      /\ k \in DOMAIN watching => s < watching[k].seq
AckedTypes == acked \subseteq Devices \X Nat /\ reported \in [Devices -> Nat]

SeenInv == \A k \in Devices : Assigned(k) /\ linked[k] => <<k, assignments[k].seq>> \in seen

ReportInv == OfferedInv /\ WatchedInv /\ PostedInv /\ AckedInv /\ AckedTypes /\ SeenInv

-----------------------------------------------------------------------------
(* Steps of the coordinator and of the device.                             *)

LEMMA Held ==
  ASSUME IInv, IInv', Moves, seen \subseteq seen'
  PROVE  \A k, s : /\ Mine(k, s) => Mine(k, s)'
                   /\ Settled(k, s) => Settled(k, s)'
                   /\ Real(k, s) => Real(k, s)'
<1>1. /\ \A k \in DOMAIN assignments : assignments[k].seq \in Nat
      /\ \A k \in DOMAIN assignments' : assignments'[k].seq \in Nat
  <2>1. \A k \in DOMAIN assignments : assignments[k].seq \in Nat
    BY StoredTypes
  <2>2. \A k \in DOMAIN assignments' : assignments'[k].seq \in Nat
    BY DEF IInv, MemoryInv, ContentInv, StoredOK, Stored
  <2> QED BY <2>1, <2>2
<1>2. ASSUME NEW k, NEW s, Mine(k, s) PROVE Mine(k, s)'
  BY <1>1, <1>2 DEF Moves, Mine
<1>3. ASSUME NEW k, NEW s, Settled(k, s) PROVE Settled(k, s)'
  BY <1>1, <1>3 DEF Moves, Settled
<1>4. ASSUME NEW k, NEW s, Real(k, s) PROVE Real(k, s)'
  <2>1. Mine(k, s)' /\ Mine(k, s)
    BY <1>2, <1>4 DEF Real
  <2>2. <<k, s>> \in seen' \/ s < assignments'[k].seq
    BY <1>1, <1>4, <2>1 DEF Moves, Real, Mine
  <2> QED BY <2>1, <2>2 DEF Real
<1> QED BY <1>2, <1>3, <1>4

LEMMA Observed ==
  ASSUME Observe PROVE seen \subseteq seen' /\ SeenInv' /\ acked' = acked
BY DEF Observe, SeenInv, Assigned

\* The watcher's knowledge outlives any step of the coordinator.
LEMMA KnowledgeKept ==
  ASSUME ReportInv, IInv, IInv', Moves, seen \subseteq seen',
         UNCHANGED <<offered, watching, reported, acked>>
  PROVE  OfferedInv' /\ WatchedInv' /\ AckedInv' /\ AckedTypes'
<1>1. /\ \A k \in DOMAIN assignments : assignments[k].seq \in Nat
      /\ \A k \in DOMAIN assignments' : assignments'[k].seq \in Nat
  <2>1. \A k \in DOMAIN assignments : assignments[k].seq \in Nat
    BY StoredTypes
  <2>2. \A k \in DOMAIN assignments' : assignments'[k].seq \in Nat
    BY DEF IInv, MemoryInv, ContentInv, StoredOK, Stored
  <2> QED BY <2>1, <2>2
<1>2. \A k, s : (Mine(k, s) => Mine(k, s)') /\ (Settled(k, s) => Settled(k, s)')
  BY Held
<1>3. OfferedInv'
  BY <1>1 DEF ReportInv, OfferedInv, Moves
<1>4. WatchedInv'
  BY <1>2 DEF ReportInv, WatchedInv
<1>5. AckedInv' /\ AckedTypes'
  BY <1>2 DEF ReportInv, AckedInv, AckedTypes
<1> QED BY <1>3, <1>4, <1>5

LEMMA PostHandledReport ==
  ASSUME ReportInv, IInv, IInv', ArrivalTypes, PostHandled PROVE ReportInv'
<1>1. /\ Moves
      /\ \A k \in DOMAIN report \cap DOMAIN assignments :
           assignments[k].assignee = Me /\ assignments[k].seq = report[k]
             => assignments'[k].arrived /\ assignments'[k].seq = assignments[k].seq
  BY HandleMoves DEF PostHandled, ArrivalTypes
<1>2. seen \subseteq seen' /\ SeenInv' /\ UNCHANGED <<offered, watching, reported, report, acked, stray>>
  BY Observed DEF PostHandled
<1>3. \A k, s : (Mine(k, s) => Mine(k, s)') /\ (Real(k, s) => Real(k, s)')
  BY <1>1, <1>2, Held
<1>4. \A k \in DOMAIN report : Settled(k, report[k])'
  <2> SUFFICES ASSUME NEW k \in DOMAIN report PROVE Settled(k, report[k])'
    OBVIOUS
  <2>1. Mine(k, report[k]) /\ Mine(k, report[k])'
    BY <1>2, <1>3 DEF ReportInv, PostedInv, Real
  <2>2. assignments[k].seq \in Nat /\ assignments'[k].seq \in Nat
    <3>1. \A l \in DOMAIN assignments' : assignments'[l].seq \in Nat
      BY DEF IInv, MemoryInv, ContentInv, StoredOK, Stored
    <3> QED BY <2>1, <3>1, StoredTypes DEF Mine
  <2>3. CASE report[k] < assignments[k].seq
    BY <1>1, <1>2, <2>1, <2>2, <2>3 DEF Settled, Mine, Moves
  <2>4. CASE report[k] = assignments[k].seq
    BY <1>1, <1>2, <2>1, <2>2, <2>4 DEF Settled, Mine
  <2> QED BY <2>1, <2>2, <2>3, <2>4 DEF Mine
<1>5. PostedInv'
  BY <1>2, <1>3, <1>4 DEF PostHandled, ReportInv, PostedInv
<1> QED BY <1>1, <1>2, <1>5, KnowledgeKept DEF ReportInv

LEMMA StrayHandledReport ==
  ASSUME ReportInv, IInv, IInv', ArrivalTypes, StrayHandled PROVE ReportInv'
<1>1. Moves
  BY HandleMoves DEF StrayHandled, ArrivalTypes
<1>2. seen \subseteq seen' /\ SeenInv' /\ stray' = None
      /\ UNCHANGED <<offered, watching, reported, report, acked, phase>>
  BY Observed DEF StrayHandled, watcherVars
<1>3. \A k, s : /\ Mine(k, s) => Mine(k, s)'
                /\ Settled(k, s) => Settled(k, s)'
                /\ Real(k, s) => Real(k, s)'
  BY <1>1, <1>2, Held
<1>4. PostedInv'
  BY <1>2, <1>3 DEF ReportInv, PostedInv
<1> QED BY <1>1, <1>2, <1>4, KnowledgeKept DEF ReportInv

\* Anything that happens around the watcher.
LEMMA AroundReport ==
  ASSUME ReportInv, IInv, IInv', FileInv, ~FileLost, ServerChanges \/ LinkChanges
  PROVE  ReportInv'
<1>1. Moves
  <2>1. CASE ServerChanges
    BY <2>1, ChangeMoves DEF ServerChanges
  <2>2. CASE LinkChanges
    BY <2>2 DEF LinkChanges, serverVars, vars, Moves
  <2> QED BY <2>1, <2>2
<1>2. seen \subseteq seen' /\ SeenInv'
      /\ UNCHANGED <<offered, watching, reported, report, acked, phase, stray>>
  BY Observed DEF ServerChanges, LinkChanges, watcherVars
<1>3. \A k, s : /\ Mine(k, s) => Mine(k, s)'
                /\ Settled(k, s) => Settled(k, s)'
                /\ Real(k, s) => Real(k, s)'
  BY <1>1, <1>2, Held
<1>4. PostedInv'
  BY <1>2, <1>3 DEF ReportInv, PostedInv
<1> QED BY <1>1, <1>2, <1>4, KnowledgeKept DEF ReportInv

-----------------------------------------------------------------------------
(* Steps of the watcher, which leave the coordinator and the device alone. *)

LEMMA Unmoved ==
  ASSUME UNCHANGED <<serverVars, linked, seen>>, ReportInv
  PROVE  /\ assignments' = assignments /\ SeenInv'
         /\ \A k, s : /\ Mine(k, s)' <=> Mine(k, s)
                      /\ Settled(k, s)' <=> Settled(k, s)
                      /\ Real(k, s)' <=> Real(k, s)
BY DEF serverVars, vars, ReportInv, SeenInv, Assigned, Mine, Settled, Real

LEMMA StateOfferedReport ==
  ASSUME ReportInv, IInv, StateOffered PROVE ReportInv'
<1>1. /\ offered' = assignments /\ UNCHANGED <<phase, watching, reported, report, stray, acked>>
      /\ UNCHANGED <<serverVars, linked, seen>>
  BY DEF StateOffered, history
<1>2. /\ assignments' = assignments /\ SeenInv'
      /\ \A k, s : /\ Mine(k, s)' <=> Mine(k, s)
                   /\ Settled(k, s)' <=> Settled(k, s)
                   /\ Real(k, s)' <=> Real(k, s)
  BY <1>1, Unmoved
<1>3. \A k \in DOMAIN assignments : assignments[k].seq \in Nat \ {0}
  BY StoredTypes
<1>4. OfferedInv'
  BY <1>1, <1>2, <1>3 DEF OfferedInv
<1>5. WatchedInv' /\ PostedInv'
  BY <1>1, <1>2 DEF ReportInv, WatchedInv, PostedInv, Mine
<1>6. AckedInv' /\ AckedTypes'
  BY <1>1, <1>2, <1>3 DEF ReportInv, AckedInv, AckedTypes, Settled
<1> QED BY <1>2, <1>4, <1>5, <1>6 DEF ReportInv

LEMMA TrackReport ==
  ASSUME ReportInv, IInv, Track PROVE ReportInv'
<1>1. /\ offered # None /\ offered' = None /\ phase = "select" /\ phase' = "polling"
      /\ UNCHANGED <<report, stray, acked>> /\ UNCHANGED <<serverVars, linked, seen>>
      /\ reported' \in [Devices -> {0} \cup {reported[k] : k \in Devices}]
  BY DEF Track
<1>2. /\ assignments' = assignments /\ SeenInv'
      /\ \A k, s : /\ Mine(k, s)' <=> Mine(k, s)
                   /\ Settled(k, s)' <=> Settled(k, s)
                   /\ Real(k, s)' <=> Real(k, s)
  BY <1>1, Unmoved
<1>3. /\ DOMAIN watching' = Current(offered)
      /\ \A k \in Current(offered) : watching'[k].seq = offered[k].seq
  <2>1. /\ DOMAIN watching' = Current(offered)
        /\ \A k \in Current(offered) :
             \/ watching'[k] = [seq |-> offered[k].seq, since |-> now]
             \/ watching'[k] = watching[k] /\ watching[k].seq = offered[k].seq
    BY DEF Track
  <2> QED BY <2>1
<1>4. WatchedInv'
  BY <1>1, <1>2, <1>3 DEF ReportInv, WatchedInv, OfferedInv, Current, Mine
<1>5. OfferedInv' /\ PostedInv'
  BY <1>1, <1>2 DEF ReportInv, OfferedInv, PostedInv
<1>6. AckedInv'
  <2> SUFFICES ASSUME NEW k \in Devices, NEW s \in Nat, <<k, s>> \in acked
               PROVE  Settled(k, s) /\ (k \in Current(offered) => s < offered[k].seq)
    BY <1>1, <1>2, <1>3 DEF AckedInv
  <2>1. /\ Settled(k, s) /\ k \in DOMAIN offered /\ s <= offered[k].seq
        /\ offered[k].seq = s => offered[k].arrived \/ reported[k] = s
    BY <1>1 DEF ReportInv, AckedInv
  <2>2. offered[k].seq \in Nat
    BY <1>1, <2>1 DEF ReportInv, OfferedInv
  <2> QED BY <2>1, <2>2 DEF Current
<1>7. AckedTypes'
  BY <1>1 DEF ReportInv, AckedTypes
<1> QED BY <1>2, <1>4, <1>5, <1>6, <1>7 DEF ReportInv

LEMMA PollReport ==
  ASSUME ReportInv, IInv, NEW failing \in SUBSET DOMAIN watching, Poll(failing)
  PROVE  ReportInv'
<1>1. PICK alive \in SUBSET DOMAIN watching, here \in SUBSET DOMAIN watching :
        /\ here \subseteq alive
        /\ watching' = [k \in alive |-> watching[k]]
        /\ report' = [k \in here |-> watching[k].seq]
        /\ \A k \in here : linked[k]
        /\ phase' = IF here = {} THEN "select" ELSE "posting"
  BY DEF Poll
<1>2. /\ UNCHANGED <<offered, reported, stray, acked>> /\ UNCHANGED <<serverVars, linked, seen>>
  BY DEF Poll, history
<1>3. /\ assignments' = assignments /\ SeenInv'
      /\ \A k, s : /\ Mine(k, s)' <=> Mine(k, s)
                   /\ Settled(k, s)' <=> Settled(k, s)
                   /\ Real(k, s)' <=> Real(k, s)
  BY <1>2, Unmoved
<1>4. \A k \in here : Real(k, watching[k].seq)
  <2> SUFFICES ASSUME NEW k \in here PROVE Real(k, watching[k].seq)
    OBVIOUS
  <2>1. k \in Devices /\ Mine(k, watching[k].seq) /\ linked[k]
    BY <1>1 DEF ReportInv, WatchedInv
  <2>2. assignments[k].seq \in Nat
    BY <2>1, StoredTypes DEF Mine
  <2>3. CASE watching[k].seq = assignments[k].seq
    BY <2>1, <2>3 DEF Real, Mine, ReportInv, SeenInv, Assigned
  <2>4. CASE watching[k].seq < assignments[k].seq
    BY <2>1, <2>4 DEF Real
  <2> QED BY <2>1, <2>2, <2>3, <2>4 DEF Mine
<1>5. PostedInv'
  BY <1>1, <1>2, <1>3, <1>4 DEF ReportInv, PostedInv
<1>6. OfferedInv' /\ WatchedInv' /\ AckedInv' /\ AckedTypes'
  BY <1>1, <1>2, <1>3 DEF ReportInv, OfferedInv, WatchedInv, AckedInv, AckedTypes
<1> QED BY <1>3, <1>5, <1>6 DEF ReportInv

\* The answer: what it answers is settled, newer than what was answered
\* before, and not older than what may be offered.
LEMMA AnswerReport ==
  ASSUME ReportInv, IInv, ArrivalTypes, AnswerArrives PROVE ReportInv'
<1>1. /\ phase = "answering" /\ phase' = "select" /\ report' = NoReport
      /\ reported' = [k \in Devices |-> IF k \in DOMAIN report THEN report[k] ELSE reported[k]]
      /\ watching' = [k \in DOMAIN watching \ DOMAIN report |-> watching[k]]
      /\ acked' = acked \cup {<<k, report[k]>> : k \in DOMAIN report}
      /\ UNCHANGED <<offered, stray>> /\ UNCHANGED <<serverVars, linked, seen>>
  BY DEF AnswerArrives, Acknowledge
<1>2. /\ assignments' = assignments /\ SeenInv'
      /\ \A k, s : /\ Mine(k, s)' <=> Mine(k, s)
                   /\ Settled(k, s)' <=> Settled(k, s)
                   /\ Real(k, s)' <=> Real(k, s)
  BY <1>1, Unmoved
<1>3. \A k \in DOMAIN report :
        /\ k \in Devices /\ k \in DOMAIN watching /\ report[k] = watching[k].seq
        /\ report[k] \in Nat /\ Settled(k, report[k])
        /\ offered # None => k \in DOMAIN offered /\ report[k] <= offered[k].seq
  BY <1>1 DEF ReportInv, PostedInv, WatchedInv, Settled
<1>4. OfferedInv' /\ WatchedInv'
  BY <1>1, <1>2 DEF ReportInv, OfferedInv, WatchedInv
<1>5. PostedInv'
  BY <1>1, <1>2 DEF ReportInv, PostedInv, NoReport
<1>6. AckedTypes'
  BY <1>1, <1>3 DEF ReportInv, AckedTypes
<1>7. AckedInv'
  <2> SUFFICES ASSUME NEW k \in Devices, NEW s \in Nat, <<k, s>> \in acked'
               PROVE  /\ Settled(k, s)
                      /\ offered # None =>
                           /\ k \in DOMAIN offered /\ s <= offered[k].seq
                           /\ offered[k].seq = s => offered[k].arrived \/ reported'[k] = s
                      /\ k \in DOMAIN watching' => s < watching'[k].seq
    BY <1>1, <1>2 DEF AckedInv
  <2>1. CASE <<k, s>> \in acked
    <3>1. /\ Settled(k, s)
          /\ offered # None => /\ k \in DOMAIN offered /\ s <= offered[k].seq
                               /\ offered[k].seq = s => offered[k].arrived \/ reported[k] = s
          /\ k \in DOMAIN watching => s < watching[k].seq
      BY <2>1 DEF ReportInv, AckedInv
    <3>2. CASE k \in DOMAIN report
      <4>1. offered # None => s < offered[k].seq
        <5>1. offered # None => offered[k].seq \in Nat
          BY <3>1 DEF ReportInv, OfferedInv
        <5> QED BY <1>3, <3>1, <3>2, <5>1
      <4>2. k \notin DOMAIN watching'
        BY <1>1, <3>2
      <4> QED BY <3>1, <4>1, <4>2
    <3>3. CASE k \notin DOMAIN report
      BY <1>1, <3>1, <3>3
    <3> QED BY <3>2, <3>3
  <2>2. CASE <<k, s>> \notin acked
    <3>1. k \in DOMAIN report /\ s = report[k]
      BY <1>1, <2>2
    <3>2. reported'[k] = s /\ k \notin DOMAIN watching'
      BY <1>1, <3>1
    <3> QED BY <1>3, <3>1, <3>2
  <2> QED BY <2>1, <2>2
<1> QED BY <1>2, <1>4, <1>5, <1>6, <1>7 DEF ReportInv

LEMMA GivenUpReport ==
  ASSUME ReportInv, IInv, PostFails \/ GuardsFlap PROVE ReportInv'
<1>1. /\ phase' = "select" /\ report' = NoReport /\ stray' \in {stray, report}
      /\ acked' = acked /\ UNCHANGED <<serverVars, linked, seen>>
      /\ \/ UNCHANGED <<offered, watching, reported>>
         \/ /\ offered' = None /\ watching' = NoReport
            /\ reported' = [k \in Devices |-> 0]
  BY DEF PostFails, GuardsFlap, history
<1>2. /\ assignments' = assignments /\ SeenInv'
      /\ \A k, s : /\ Mine(k, s)' <=> Mine(k, s)
                   /\ Settled(k, s)' <=> Settled(k, s)
                   /\ Real(k, s)' <=> Real(k, s)
  BY <1>1, Unmoved
<1>3. PostedInv'
  BY <1>1, <1>2 DEF ReportInv, PostedInv, NoReport
<1>4. OfferedInv' /\ WatchedInv' /\ AckedInv' /\ AckedTypes'
  <2>1. CASE UNCHANGED <<offered, watching, reported>>
    BY <1>1, <1>2, <2>1 DEF ReportInv, OfferedInv, WatchedInv, AckedInv, AckedTypes
  <2>2. CASE offered' = None /\ watching' = NoReport /\ reported' = [k \in Devices |-> 0]
    BY <1>1, <1>2, <2>2 DEF ReportInv, OfferedInv, WatchedInv, AckedInv, AckedTypes, NoReport
  <2> QED BY <1>1, <2>1, <2>2
<1> QED BY <1>2, <1>3, <1>4 DEF ReportInv

LEMMA OtherReport ==
  ASSUME ReportInv, IInv,
         Reconnects \/ TickerFires \/ TimePasses \/ UNCHANGED arrivalVars
  PROVE  ReportInv'
<1>1. /\ UNCHANGED <<offered, watching, reported, report, stray, acked>>
      /\ UNCHANGED <<serverVars, linked, seen>>
      /\ phase' = phase \/ (phase = "select" /\ phase' = "polling")
  BY DEF Reconnects, TickerFires, TimePasses, arrivalVars, watcherVars, history
<1>2. /\ assignments' = assignments /\ SeenInv'
      /\ \A k, s : /\ Mine(k, s)' <=> Mine(k, s)
                   /\ Settled(k, s)' <=> Settled(k, s)
                   /\ Real(k, s)' <=> Real(k, s)
  BY <1>1, Unmoved
<1> QED BY <1>1, <1>2 DEF ReportInv, OfferedInv, WatchedInv, PostedInv, AckedInv, AckedTypes

-----------------------------------------------------------------------------
(* What the invariant says, while the file is kept.                        *)

KeptBase == ArrivalBase /\ FileInv

LEMMA ReportInvNext ==
  ASSUME ~FileLost
  PROVE  KeptBase /\ IInv' /\ ReportInv /\ [ArrivalNext]_arrivalVars => ReportInv'
BY PostHandledReport, StrayHandledReport, AroundReport, StateOfferedReport, TrackReport,
   PollReport, AnswerReport, GivenUpReport, OtherReport
   DEF KeptBase, ArrivalBase, ArrivalNext

LEMMA ReportInvInit == ArrivalInit => ReportInv
BY DEF ArrivalInit, Init, NoAssignments, NoReport, ReportInv, OfferedInv, WatchedInv, PostedInv,
       AckedInv, AckedTypes, SeenInv, Assigned

LEMMA ReportInvCorrect ==
  ASSUME ~PersistFails, ~FileLost PROVE ArrivalSpec => [](KeptBase /\ ReportInv)
<1>1. FileInv /\ IInv /\ [Next]_vars => FileInv'
  BY NextFile
<1>2. Spec => []FileInv
  BY <1>1, InductiveInv, InitFile, PTL DEF Spec
<1>3. ArrivalSpec => []KeptBase
  BY <1>2, ReportedServer, ArrivalBaseCorrect, PTL DEF KeptBase
<1>4. KeptBase => IInv
  BY DEF KeptBase, ArrivalBase
<1> QED BY <1>3, <1>4, ReportInvInit, ReportInvNext, PTL DEF ArrivalSpec

\* While the file is kept, the watcher never polls for a recording whose
\* arrival was confirmed, though older states that do not show it may come.
THEOREM ReportedOnceCorrect ==
  ASSUME ~PersistFails, ~FileLost PROVE ArrivalSpec => []ReportedOnce
<1>1. KeptBase /\ ReportInv => ReportedOnce
  <2> SUFFICES ASSUME ReportInv, NEW k \in DOMAIN watching, <<k, watching[k].seq>> \in acked
               PROVE  FALSE
    BY DEF ReportedOnce
  <2>1. k \in Devices /\ watching[k].seq \in Nat
    BY DEF ReportInv, WatchedInv, Mine
  <2>2. watching[k].seq < watching[k].seq
    BY <2>1 DEF ReportInv, AckedInv
  <2> QED BY <2>1, <2>2
<1> QED BY <1>1, ReportInvCorrect, PTL

\* The step of ArrivalIsReal.
RealStep ==
  \A k \in Devices :
    /\ k \in DOMAIN assignments /\ Assigned(k) /\ ~assignments[k].arrived
    /\ k \in DOMAIN assignments' /\ assignments'[k].seq = assignments[k].seq
    /\ assignments'[k].arrived
    => <<k, assignments[k].seq>> \in seen

LEMMA MarkedReal ==
  ASSUME IInv, NEW r, MarkedBy(r), \A k \in DOMAIN r : Real(k, r[k])
  PROVE  RealStep
<1> SUFFICES ASSUME NEW k \in DOMAIN assignments, ~assignments[k].arrived,
                    assignments'[k].arrived
             PROVE  <<k, assignments[k].seq>> \in seen
  BY DEF RealStep
<1>1. k \in DOMAIN r /\ r[k] = assignments[k].seq
  BY DEF MarkedBy
<1>2. assignments[k].seq \in Nat
  BY StoredTypes
<1> QED BY <1>1, <1>2 DEF Real

\* While the file is kept, an assignment marked arrived by a report was linked
\* here while it was this host's, however late or often the report came.
THEOREM ArrivalCorrect ==
  ASSUME ~PersistFails, ~FileLost PROVE ArrivalSpec => ArrivalIsReal
<1>1. KeptBase /\ ReportInv /\ [ArrivalNext]_arrivalVars => RealStep
  <2> SUFFICES ASSUME IInv, FileInv, ArrivalTypes, ReportInv, [ArrivalNext]_arrivalVars
               PROVE  RealStep
    BY DEF KeptBase, ArrivalBase
  <2>1. CASE PostHandled
    <3>1. MarkedBy(report)
      BY <2>1, HandleMoves DEF PostHandled, ArrivalTypes
    <3>2. \A k \in DOMAIN report : Real(k, report[k])
      BY DEF ReportInv, PostedInv
    <3> QED BY <3>1, <3>2, MarkedReal
  <2>2. CASE StrayHandled
    <3>1. MarkedBy(stray)
      BY <2>2, HandleMoves DEF StrayHandled, ArrivalTypes
    <3>2. \A k \in DOMAIN stray : Real(k, stray[k])
      BY <2>2 DEF StrayHandled, ReportInv, PostedInv
    <3> QED BY <3>1, <3>2, MarkedReal
  <2>3. CASE ServerChanges
    <3>1. MarksNothing
      BY <2>3, ChangeMoves DEF ServerChanges
    <3> QED BY <3>1 DEF MarksNothing, RealStep
  <2>4. CASE UNCHANGED assignments
    BY <2>4 DEF RealStep
  <2>5. CASE StateOffered \/ Reconnects \/ Track \/ TickerFires \/ AnswerArrives \/ PostFails
             \/ GuardsFlap \/ LinkChanges \/ TimePasses \/ UNCHANGED arrivalVars
             \/ \E failing \in SUBSET DOMAIN watching : Poll(failing)
    BY <2>4, <2>5 DEF StateOffered, Reconnects, Track, TickerFires, AnswerArrives, PostFails,
                      GuardsFlap, LinkChanges, TimePasses, Poll, arrivalVars, serverVars, vars
  <2> QED BY <2>1, <2>2, <2>3, <2>5 DEF ArrivalNext
<1>2. ArrivalSpec => [][RealStep]_arrivalVars
  BY <1>1, ReportInvCorrect, PTL DEF ArrivalSpec
<1> QED BY <1>2 DEF ArrivalIsReal, RealStep

\* What is proved of the seqs and epochs of the coordinator holds with the
\* watcher's reports, on time, lost or late.
THEOREM ReportedSeqs ==
  ASSUME ~PersistFails, ~FileLost
  PROVE  ArrivalSpec => SeqIdentifiesRecording /\ EveryChangeMovesEpoch
BY ReportedServer, SeqCorrect, EpochCorrect, PTL

=============================================================================
