---------------------------- MODULE ServerProofs ----------------------------
(***************************************************************************)
(* Proofs about the coordinator, for any hosts, names, number of open      *)
(* waits and bounds, whether writes of state.json fail and whether it is   *)
(* lost.  What the file holds satisfies everything memory does, so that a  *)
(* restart finds it again.                                                 *)
(***************************************************************************)
EXTENDS Server, FiniteSetTheorems, TLAPS

\* What memory and the file both satisfy.
ContentInv(o, e, act, a) ==
  /\ o \in Hosts \cup {NoHost} /\ e \in Nat /\ act \in Nat
  /\ StoredOK(a)
  /\ OneTaker(o, act, a)
  /\ PrevIsOther(a)

MemoryInv == ContentInv(owner, epoch, activation, assignments)
DiskInv == ContentInv(disk.owner, disk.epoch, disk.activation, disk.assignments)

Phase == {"idle", "waiting", "returning"}
ConnOK ==
  /\ conn \in [Conns -> [phase : Phase, id : Hosts \cup {NoHost}, epoch : Nat, closed : BOOLEAN]]
  /\ \A c \in Conns : conn[c].phase # "idle" => conn[c].id \in Hosts
CountOK == waiters \in [Hosts -> Nat] /\ graceLeft \in [Hosts -> 0..LiveGrace]

\* The inductive invariant.
IInv == /\ MemoryInv /\ DiskInv
        /\ ConnOK /\ CountOK
        /\ NoWaiterAsleepOnOldEpoch /\ WaitersCounted

LEMMA InvTypeOK == IInv => TypeOK
BY DEF IInv, MemoryInv, DiskInv, ContentInv, ConnOK, CountOK, Phase, TypeOK

LEMMA InitInv == Init => IInv
<1> SUFFICES ASSUME Init PROVE IInv
  OBVIOUS
<1>1. MemoryInv /\ DiskInv
  BY DEF Init, Empty, NoAssignments, MemoryInv, DiskInv, ContentInv, StoredOK, OneTaker, PrevIsOther
<1>2. ConnOK
  BY DEF Init, Idle, ConnOK, Phase
<1>2a. CountOK
  <2>1. 0 \in 0..LiveGrace
    BY BoundsAssumption
  <2> QED BY <2>1 DEF Init, CountOK
<1>3. NoWaiterAsleepOnOldEpoch
  BY DEF Init, Idle, NoWaiterAsleepOnOldEpoch
<1>4. WaitersCounted
  <2>1. \A id \in Hosts : OpenWaits(id) = {}
    BY DEF Init, Idle, OpenWaits
  <2> QED BY <2>1, FS_EmptySet DEF Init, WaitersCounted
<1> QED BY <1>1, <1>2, <1>2a, <1>3, <1>4 DEF IInv

-----------------------------------------------------------------------------
(* What a take records.                                                    *)

LEMMA RecordedOK ==
  ASSUME MemoryInv,
         NEW id \in Hosts, NEW k \in Keys, NEW t \in [payload : Payloads, arrived : BOOLEAN],
         NEW next \in Nat \ {0}
  PROVE  LET r == Recorded(id, k, t, next)
         IN /\ r \in Stored
            /\ k \in Screens => ~r.arrived
            /\ r.assignee = id /\ r.activation = activation /\ r.prev # id
<1>1. k \in DOMAIN assignments => assignments[k] \in Stored /\ assignments[k].prev # assignments[k].assignee
  BY DEF MemoryInv, ContentInv, StoredOK, PrevIsOther
<1>2. activation \in Nat
  BY DEF MemoryInv, ContentInv
<1>3. k \in Screens => k \notin Devices
  BY KindsAssumption
<1> QED BY <1>1, <1>2, <1>3, HostsAssumption DEF Recorded, Stored

\* The end of a mutation: what it leaves in memory is persisted or not, and
\* every wait that was asleep is awake.
LEMMA BumpInv ==
  ASSUME IInv, Bump, MemoryInv' PROVE IInv'
<1>1. DiskInv'
  BY DEF IInv, DiskInv, MemoryInv, Bump, Persist
<1>2. \A c \in Conns : conn'[c].phase = conn[c].phase /\ conn'[c].id = conn[c].id
                       /\ (conn'[c].phase = "waiting" => conn'[c].closed)
  BY DEF IInv, ConnOK, Bump, Wake
<1>3. ConnOK'
  BY DEF IInv, ConnOK, Bump, Wake
<1>4. CountOK'
  BY DEF IInv, CountOK, Bump
<1>5. NoWaiterAsleepOnOldEpoch'
  BY <1>2 DEF NoWaiterAsleepOnOldEpoch
<1>6. WaitersCounted'
  <2>1. \A id \in Hosts : OpenWaits(id)' = OpenWaits(id)
    BY <1>2 DEF OpenWaits
  <2> QED BY <2>1 DEF IInv, WaitersCounted, Bump
<1> QED BY <1>1, <1>3, <1>4, <1>5, <1>6 DEF IInv

LEMMA ClaimMemory ==
  ASSUME MemoryInv, NEW id \in Hosts, NEW retake, NEW force, Claim(id, retake, force)
  PROVE  MemoryInv'
<1>1. /\ owner' = id /\ epoch' = epoch + 1 /\ activation' = activation + 1
      /\ assignments' = assignments
  BY DEF Claim, Bump
<1>2. activation \in Nat /\ epoch \in Nat
      /\ \A k \in DOMAIN assignments : /\ assignments[k].activation \in Nat
                                       /\ assignments[k].activation <= activation
  BY DEF MemoryInv, ContentInv, StoredOK, Stored, OneTaker, PrevIsOther
<1>3. OneTaker(owner', activation', assignments')
  BY <1>1, <1>2 DEF OneTaker
<1>4. StoredOK(assignments') /\ PrevIsOther(assignments')
  BY <1>1 DEF MemoryInv, ContentInv, StoredOK, PrevIsOther
<1>5. owner' \in Hosts \cup {NoHost} /\ epoch' \in Nat /\ activation' \in Nat
  BY <1>1, <1>2
<1> QED BY <1>3, <1>4, <1>5, Zenon DEF MemoryInv, ContentInv

LEMMA ClaimInv ==
  ASSUME IInv, NEW id \in Hosts, NEW retake \in BOOLEAN, NEW force \in BOOLEAN,
         Claim(id, retake, force)
  PROVE  IInv'
<1>1. MemoryInv'
  BY ClaimMemory DEF IInv
<1> QED BY <1>1, BumpInv DEF Claim

LEMMA TakeMemory ==
  ASSUME MemoryInv, NEW id \in Hosts, NEW act, NEW takes, Take(id, act, takes),
         DOMAIN takes \subseteq Keys,
         \A k \in DOMAIN takes : takes[k] \in [payload : Payloads, arrived : BOOLEAN]
  PROVE  MemoryInv'
<1> DEFINE new == {k \in DOMAIN takes : ~SameTake(id, k, takes[k])}
<1>1. DOMAIN takes \subseteq Keys
      /\ \A k \in DOMAIN takes : takes[k] \in [payload : Payloads, arrived : BOOLEAN]
  OBVIOUS
<1>2. epoch + 1 \in Nat \ {0}
  BY DEF MemoryInv, ContentInv, StoredOK, OneTaker, PrevIsOther
<1>3. /\ id = owner /\ owner' = owner /\ activation' = activation /\ epoch' = epoch + 1
      /\ assignments' = [k \in DOMAIN assignments \cup new |->
           IF k \in new THEN Recorded(id, k, takes[k], epoch + 1) ELSE assignments[k]]
  BY DEF Take, Bump
<1>4. \A k \in new :
        LET r == Recorded(id, k, takes[k], epoch + 1)
        IN /\ r \in Stored /\ (k \in Screens => ~r.arrived)
           /\ r.assignee = id /\ r.activation = activation /\ r.prev # id
  BY <1>1, <1>2, RecordedOK
<1> HIDE DEF new
<1>5. new \subseteq Keys
  BY <1>1 DEF new
<1>6. StoredOK(assignments')
  BY <1>3, <1>4, <1>5 DEF MemoryInv, ContentInv, StoredOK
<1>7. OneTaker(owner', activation', assignments')
  <2> SUFFICES ASSUME NEW k \in DOMAIN assignments'
               PROVE  /\ assignments'[k].activation <= activation
                      /\ assignments'[k].activation = activation => assignments'[k].assignee = id
    BY <1>3 DEF OneTaker
  <2>1. activation \in Nat
    BY DEF MemoryInv, ContentInv
  <2>2. CASE k \in new
    BY <1>3, <1>4, <2>1, <2>2
  <2>3. CASE k \notin new
    BY <1>3, <2>3 DEF MemoryInv, ContentInv, OneTaker
  <2> QED BY <2>2, <2>3
<1>8. PrevIsOther(assignments')
  BY <1>3, <1>4 DEF MemoryInv, ContentInv, PrevIsOther
<1> QED BY <1>2, <1>3, <1>6, <1>7, <1>8 DEF MemoryInv, ContentInv

LEMMA TakeInv ==
  ASSUME IInv, NEW id \in Hosts, NEW act \in 0..MaxEpoch, NEW takes \in TakeRequests,
         Take(id, act, takes)
  PROVE  IInv'
<1>1. DOMAIN takes \subseteq Keys
      /\ \A k \in DOMAIN takes : takes[k] \in [payload : Payloads, arrived : BOOLEAN]
  BY DEF TakeRequests
<1>2. MemoryInv'
  BY <1>1, TakeMemory DEF IInv
<1> QED BY <1>2, BumpInv DEF Take

LEMMA ArrivedMemory ==
  ASSUME MemoryInv, NEW id \in Hosts, NEW arrivals, DOMAIN arrivals \subseteq Devices,
         Arrived(id, arrivals)
  PROVE  MemoryInv'
<1>1. Matching(id, arrivals) \subseteq Devices \cap DOMAIN assignments
  BY DEF Matching
<1>2. /\ DOMAIN assignments' = DOMAIN assignments
      /\ \A k \in DOMAIN assignments :
           \/ assignments'[k] = assignments[k]
           \/ k \in Devices /\ assignments'[k] = [assignments[k] EXCEPT !.arrived = TRUE]
  BY <1>1 DEF Arrived
<1>3. \A k \in DOMAIN assignments :
        /\ assignments'[k] \in Stored
        /\ k \in Screens => ~assignments'[k].arrived
        /\ assignments'[k].assignee = assignments[k].assignee
        /\ assignments'[k].prev = assignments[k].prev
        /\ assignments'[k].activation = assignments[k].activation
  <2>1. \A k \in DOMAIN assignments : /\ k \in Keys /\ assignments[k] \in Stored
                                      /\ k \in Screens => ~assignments[k].arrived
    BY DEF MemoryInv, ContentInv, StoredOK
  <2> SUFFICES ASSUME NEW k \in DOMAIN assignments
               PROVE  /\ assignments'[k] \in Stored
                      /\ k \in Screens => ~assignments'[k].arrived
                      /\ assignments'[k].assignee = assignments[k].assignee
                      /\ assignments'[k].prev = assignments[k].prev
                      /\ assignments'[k].activation = assignments[k].activation
    OBVIOUS
  <2>2. CASE assignments'[k] = assignments[k]
    BY <2>1, <2>2
  <2>3. CASE k \in Devices /\ assignments'[k] = [assignments[k] EXCEPT !.arrived = TRUE]
    <3>1. [assignments[k] EXCEPT !.arrived = TRUE] \in Stored
      BY <2>1 DEF Stored
    <3>2. k \notin Screens
      BY <2>3, KindsAssumption
    <3> QED BY <2>1, <2>3, <3>1, <3>2 DEF Stored
  <2> QED BY <1>2, <2>2, <2>3
<1>4. owner' = owner /\ activation' = activation /\ epoch' = epoch + 1
  BY DEF Arrived, Bump
<1>5. /\ owner \in Hosts \cup {NoHost} /\ epoch \in Nat /\ activation \in Nat
      /\ StoredOK(assignments) /\ OneTaker(owner, activation, assignments)
      /\ PrevIsOther(assignments)
  BY Zenon DEF MemoryInv, ContentInv
<1>6. StoredOK(assignments') /\ OneTaker(owner', activation', assignments')
      /\ PrevIsOther(assignments')
  BY <1>2, <1>3, <1>4, <1>5 DEF StoredOK, OneTaker, PrevIsOther
<1>7. owner' \in Hosts \cup {NoHost} /\ epoch' \in Nat /\ activation' \in Nat
  <2>1. owner \in Hosts \cup {NoHost} /\ epoch \in Nat /\ activation \in Nat
    BY <1>5, Zenon
  <2> QED BY <2>1, <1>4
<1> QED BY <1>6, <1>7, Zenon DEF MemoryInv, ContentInv

LEMMA ArrivedInv ==
  ASSUME IInv, NEW id \in Hosts, NEW arrivals \in ArrivalRequests, Arrived(id, arrivals)
  PROVE  IInv'
<1>1. DOMAIN arrivals \subseteq Devices
  BY DEF ArrivalRequests
<1>2. MemoryInv'
  BY <1>1, ArrivedMemory DEF IInv
<1> QED BY <1>2, BumpInv DEF Arrived

-----------------------------------------------------------------------------
(* The waits.  One wait at a time changes phase, so a host's count follows  *)
(* the set of its waits by one.                                            *)

LEMMA WaitRegistersInv ==
  ASSUME IInv, NEW c \in Conns, NEW id \in Hosts, WaitRegisters(c, id)
  PROVE  IInv'
<1>1. MemoryInv' /\ DiskInv'
  BY DEF IInv, MemoryInv, DiskInv, ContentInv, StoredOK, OneTaker, PrevIsOther,
         WaitRegisters, content
<1>2. /\ epoch' = epoch /\ epoch \in Nat
      /\ conn' = [conn EXCEPT ![c] = [phase |-> "waiting", id |-> id, epoch |-> epoch,
                                      closed |-> FALSE]]
      /\ waiters' = [waiters EXCEPT ![id] = @ + 1] /\ graceLeft' = graceLeft
  BY DEF WaitRegisters, IInv, MemoryInv, ContentInv
<1>3. ConnOK'
  BY <1>2 DEF IInv, ConnOK, Phase
<1>4. CountOK'
  BY <1>2 DEF IInv, CountOK
<1>5. NoWaiterAsleepOnOldEpoch'
  BY <1>2 DEF IInv, ConnOK, NoWaiterAsleepOnOldEpoch
<1>6. WaitersCounted'
  <2>1. c \notin OpenWaits(id) /\ OpenWaits(id)' = OpenWaits(id) \cup {c}
    BY <1>2 DEF IInv, ConnOK, OpenWaits, WaitRegisters
  <2>2. \A h \in Hosts \ {id} : OpenWaits(h)' = OpenWaits(h)
    BY <1>2 DEF IInv, ConnOK, OpenWaits, WaitRegisters
  <2>3. Cardinality(OpenWaits(id)') = Cardinality(OpenWaits(id)) + 1
    <3>1. IsFiniteSet(OpenWaits(id))
      BY ConnsAssumption, FS_Subset DEF OpenWaits
    <3> QED BY <2>1, <3>1, FS_AddElement
  <2> QED BY <1>2, <2>2, <2>3 DEF IInv, CountOK, WaitersCounted
<1> QED BY <1>1, <1>3, <1>4, <1>5, <1>6 DEF IInv

LEMMA WaitReturnsInv ==
  ASSUME IInv, NEW c \in Conns, WaitReturns(c) PROVE IInv'
<1>1. MemoryInv' /\ DiskInv'
  BY DEF IInv, MemoryInv, DiskInv, ContentInv, StoredOK, OneTaker, PrevIsOther,
         WaitReturns, content
<1>2. /\ conn[c].phase = "waiting"
      /\ conn' = [conn EXCEPT ![c] = [@ EXCEPT !.phase = "returning"]]
      /\ waiters' = waiters /\ graceLeft' = graceLeft /\ epoch' = epoch
  BY DEF WaitReturns
<1>3. ConnOK'
  BY <1>2 DEF IInv, ConnOK, Phase
<1>4. CountOK'
  BY <1>2 DEF IInv, CountOK
<1>5. NoWaiterAsleepOnOldEpoch'
  BY <1>2 DEF IInv, ConnOK, NoWaiterAsleepOnOldEpoch
<1>6. WaitersCounted'
  <2>1. \A h \in Hosts : OpenWaits(h)' = OpenWaits(h)
    BY <1>2 DEF IInv, ConnOK, OpenWaits
  <2> QED BY <1>2, <2>1 DEF IInv, WaitersCounted
<1> QED BY <1>1, <1>3, <1>4, <1>5, <1>6 DEF IInv

LEMMA DeregisterInv ==
  ASSUME IInv, NEW c \in Conns, Deregister(c) PROVE IInv'
<1>0. PICK id \in Hosts : id = conn[c].id
  BY DEF IInv, ConnOK, Deregister
<1>1. MemoryInv' /\ DiskInv'
  BY DEF IInv, MemoryInv, DiskInv, ContentInv, StoredOK, OneTaker, PrevIsOther,
         Deregister, content
<1>2. /\ conn[c].phase = "returning" /\ epoch' = epoch
      /\ conn' = [conn EXCEPT ![c] = Idle]
      /\ waiters' = [waiters EXCEPT ![id] = @ - 1]
      /\ graceLeft' = [graceLeft EXCEPT ![id] = IF waiters[id] <= 1 THEN LiveGrace ELSE @]
  BY <1>0 DEF Deregister
<1>4. c \in OpenWaits(id) /\ OpenWaits(id)' = OpenWaits(id) \ {c}
  BY <1>0, <1>2, HostsAssumption DEF IInv, ConnOK, OpenWaits, Idle
<1>5. \A h \in Hosts \ {id} : OpenWaits(h)' = OpenWaits(h)
  BY <1>0, <1>2, HostsAssumption DEF IInv, ConnOK, OpenWaits, Idle
<1>6. IsFiniteSet(OpenWaits(id))
  BY ConnsAssumption, FS_Subset DEF OpenWaits
<1>7. Cardinality(OpenWaits(id)') = Cardinality(OpenWaits(id)) - 1
  BY <1>4, <1>6, FS_RemoveElement
<1>8. waiters[id] = Cardinality(OpenWaits(id)) /\ waiters[id] > 0
  <2>1. Cardinality(OpenWaits(id)) \in Nat /\ Cardinality(OpenWaits(id)) # 0
    BY <1>4, <1>6, FS_CardinalityType, FS_EmptySet
  <2> QED BY <2>1 DEF IInv, WaitersCounted
<1>9. ConnOK'
  BY <1>2 DEF IInv, ConnOK, Phase, Idle
<1>10. CountOK'
  <2>1. LiveGrace \in 0..LiveGrace
    BY BoundsAssumption
  <2> QED BY <1>2, <1>8, <2>1 DEF IInv, CountOK
<1>11. NoWaiterAsleepOnOldEpoch'
  BY <1>2 DEF IInv, ConnOK, NoWaiterAsleepOnOldEpoch, Idle
<1>12. WaitersCounted'
  BY <1>2, <1>5, <1>7, <1>8 DEF IInv, CountOK, WaitersCounted
<1> QED BY <1>1, <1>9, <1>10, <1>11, <1>12 DEF IInv

LEMMA TickInv ==
  ASSUME IInv, Tick PROVE IInv'
<1>1. MemoryInv' /\ DiskInv'
  BY DEF IInv, MemoryInv, DiskInv, ContentInv, StoredOK, OneTaker, PrevIsOther, Tick, content
<1>2. conn' = conn /\ waiters' = waiters /\ epoch' = epoch
  BY DEF Tick
<1>3. CountOK'
  BY BoundsAssumption DEF IInv, CountOK, Tick
<1>4. ConnOK' /\ NoWaiterAsleepOnOldEpoch'
  BY <1>2 DEF IInv, ConnOK, NoWaiterAsleepOnOldEpoch
<1>5. WaitersCounted'
  BY <1>2 DEF IInv, WaitersCounted, OpenWaits
<1> QED BY <1>1, <1>3, <1>4, <1>5 DEF IInv

\* What the process loads satisfies the invariant of memory, the file kept or
\* not, since the file always did.
LEMMA RestartInv ==
  ASSUME IInv, Restart PROVE IInv'
<1>1. PICK d \in {disk} \cup (IF FileLost THEN {Empty} ELSE {}) :
        /\ owner' = d.owner /\ epoch' = d.epoch /\ activation' = d.activation
        /\ assignments' = d.assignments /\ disk' = disk
        /\ conn' = [c \in Conns |-> Idle] /\ waiters' = [id \in Hosts |-> 0]
        /\ graceLeft' = [id \in Hosts |-> 0]
  BY DEF Restart
<1>2. d = disk \/ d = Empty
  OBVIOUS
<1>3. MemoryInv'
  <2>1. CASE d = disk
    BY <1>1, <2>1 DEF IInv, MemoryInv, DiskInv, ContentInv, StoredOK, OneTaker, PrevIsOther
  <2>2. CASE d = Empty
    BY <1>1, <2>2 DEF MemoryInv, ContentInv, StoredOK, OneTaker, PrevIsOther, Empty, NoAssignments
  <2> QED BY <1>2, <2>1, <2>2
<1>4. DiskInv'
  BY <1>1 DEF IInv, DiskInv, ContentInv, StoredOK, OneTaker, PrevIsOther
<1>5. ConnOK' /\ NoWaiterAsleepOnOldEpoch'
  BY <1>1 DEF ConnOK, Phase, Idle, NoWaiterAsleepOnOldEpoch
<1>6. CountOK'
  <2>1. 0 \in 0..LiveGrace
    BY BoundsAssumption
  <2> QED BY <1>1, <2>1 DEF CountOK
<1>7. WaitersCounted'
  <2>1. \A id \in Hosts : OpenWaits(id)' = {}
    BY <1>1 DEF OpenWaits, Idle
  <2> QED BY <1>1, <2>1, FS_EmptySet DEF WaitersCounted
<1> QED BY <1>3, <1>4, <1>5, <1>6, <1>7 DEF IInv

-----------------------------------------------------------------------------
LEMMA NextInv == IInv /\ [Next]_vars => IInv'
<1> SUFFICES ASSUME IInv, [Next]_vars PROVE IInv'
  OBVIOUS
<1>1. CASE \E id \in Hosts, retake, force \in BOOLEAN : Claim(id, retake, force)
  BY <1>1, ClaimInv
<1>2. CASE \E id \in Hosts, act \in 0..MaxEpoch, takes \in TakeRequests : Take(id, act, takes)
  BY <1>2, TakeInv
<1>3. CASE \E id \in Hosts, arrivals \in ArrivalRequests : Arrived(id, arrivals)
  BY <1>3, ArrivedInv
<1>4. CASE \E c \in Conns, id \in Hosts : WaitRegisters(c, id)
  BY <1>4, WaitRegistersInv
<1>5. CASE \E c \in Conns : WaitReturns(c)
  BY <1>5, WaitReturnsInv
<1>6. CASE \E c \in Conns : Deregister(c)
  BY <1>6, DeregisterInv
<1>7. CASE Tick
  BY <1>7, TickInv
<1>8. CASE Restart
  BY <1>8, RestartInv
<1>9. CASE UNCHANGED vars
  BY <1>9 DEF vars, IInv, MemoryInv, DiskInv, ContentInv, StoredOK, OneTaker, PrevIsOther,
              ConnOK, CountOK, NoWaiterAsleepOnOldEpoch, WaitersCounted, OpenWaits
<1> QED BY <1>1, <1>2, <1>3, <1>4, <1>5, <1>6, <1>7, <1>8, <1>9 DEF Next

\* The inductive invariant holds in every state of every server.
THEOREM InductiveInv == Spec => []IInv
BY InitInv, NextInv, PTL DEF Spec

\* Every variable, the file and the waits keep their types: a screen is never
\* arrived, a count of waits is never negative.
THEOREM TypeCorrect == Spec => []TypeOK
BY InductiveInv, InvTypeOK, PTL

\* One activation has one taker, in memory and so after any restart, whatever
\* the claims and takes that race and whichever writes of the file are lost.
THEOREM OneTakerCorrect == Spec => []OneTakerPerActivation
<1>1. IInv => OneTakerPerActivation
  BY Zenon DEF IInv, MemoryInv, ContentInv, OneTakerPerActivation
<1> QED BY <1>1, InductiveInv, PTL

\* The host to notify of a failure is never the one that asked.
THEOREM PrevCorrect == Spec => []PrevIsAnotherHost
<1>1. IInv => PrevIsAnotherHost
  BY Zenon DEF IInv, MemoryInv, ContentInv, PrevIsAnotherHost
<1> QED BY <1>1, InductiveInv, PTL

\* No /wait sleeps through a change.
THEOREM WaitersWoken == Spec => []NoWaiterAsleepOnOldEpoch
<1>1. IInv => NoWaiterAsleepOnOldEpoch
  BY DEF IInv
<1> QED BY <1>1, InductiveInv, PTL

\* The liveness of a host counts its open waits, no more and no less.
THEOREM LiveCountCorrect == Spec => []WaitersCounted
<1>1. IInv => WaitersCounted
  BY DEF IInv
<1> QED BY <1>1, InductiveInv, PTL

-----------------------------------------------------------------------------
(* While every write of state.json succeeds and the file is never lost, it *)
(* holds what memory holds after every step, so that a restart changes     *)
(* nothing a client can see, and no seq is ever used again.                *)

FileInv == /\ disk = Memory
           /\ \A k \in DOMAIN assignments : assignments[k].seq <= epoch

SeqStep ==
  \A k \in DOMAIN assignments' :
    IF k \in DOMAIN assignments /\ assignments'[k].seq = assignments[k].seq
    THEN \/ assignments'[k] = assignments[k]
         \/ assignments'[k] = [assignments[k] EXCEPT !.arrived = TRUE]
    ELSE \A l \in DOMAIN assignments : assignments[l].seq < assignments'[k].seq
EpochStep == content' # content => epoch' # epoch

LEMMA SeqTypes == IInv => /\ epoch \in Nat
                          /\ \A k \in DOMAIN assignments : assignments[k].seq \in Nat \ {0}
BY DEF IInv, MemoryInv, ContentInv, StoredOK, OneTaker, PrevIsOther, Stored

LEMMA BumpPersists ==
  ASSUME ~PersistFails, Bump PROVE disk' = Memory' /\ epoch' = epoch + 1
BY DEF Bump, Persist, Memory

\* What a step that leaves the assignments alone does to them.
LEMMA SameAssignments ==
  ASSUME FileInv, IInv, assignments' = assignments, epoch' \in {epoch, epoch + 1}
  PROVE  SeqStep /\ \A k \in DOMAIN assignments' : assignments'[k].seq <= epoch'
BY SeqTypes DEF FileInv, SeqStep

LEMMA ClaimFile ==
  ASSUME ~PersistFails, FileInv, IInv, NEW id \in Hosts, NEW retake \in BOOLEAN,
         NEW force \in BOOLEAN, Claim(id, retake, force)
  PROVE  FileInv' /\ SeqStep /\ EpochStep
<1>1. disk' = Memory' /\ epoch' = epoch + 1 /\ assignments' = assignments
  BY BumpPersists DEF Claim
<1> QED BY <1>1, SameAssignments, SeqTypes DEF FileInv, EpochStep

LEMMA TakeFile ==
  ASSUME ~PersistFails, FileInv, IInv, NEW id \in Hosts, NEW act \in 0..MaxEpoch,
         NEW takes \in TakeRequests, Take(id, act, takes)
  PROVE  FileInv' /\ SeqStep /\ EpochStep
<1>1. disk' = Memory' /\ epoch' = epoch + 1
  BY BumpPersists DEF Take
<1>2. PICK new : assignments' = [k \in DOMAIN assignments \cup new |->
           IF k \in new THEN Recorded(id, k, takes[k], epoch + 1) ELSE assignments[k]]
  BY DEF Take
<1>3. \A k \in new : assignments'[k].seq = epoch + 1
  BY <1>2 DEF Recorded
<1>4. \A k \in DOMAIN assignments' \ new : k \in DOMAIN assignments
                                           /\ assignments'[k] = assignments[k]
  BY <1>2
<1>5. \A k \in DOMAIN assignments : assignments[k].seq <= epoch /\ assignments[k].seq \in Nat
  BY SeqTypes DEF FileInv
<1>6. SeqStep
  BY <1>3, <1>4, <1>5, SeqTypes DEF SeqStep
<1>7. \A k \in DOMAIN assignments' : assignments'[k].seq <= epoch'
  BY <1>1, <1>3, <1>4, <1>5, SeqTypes
<1> QED BY <1>1, <1>6, <1>7, SeqTypes DEF FileInv, EpochStep

LEMMA ArrivedFile ==
  ASSUME ~PersistFails, FileInv, IInv, NEW id \in Hosts, NEW arrivals \in ArrivalRequests,
         Arrived(id, arrivals)
  PROVE  FileInv' /\ SeqStep /\ EpochStep
<1>1. disk' = Memory' /\ epoch' = epoch + 1
  BY BumpPersists DEF Arrived
<1>2. /\ DOMAIN assignments' = DOMAIN assignments
      /\ \A k \in DOMAIN assignments :
           \/ assignments'[k] = assignments[k]
           \/ assignments'[k] = [assignments[k] EXCEPT !.arrived = TRUE]
  BY DEF Arrived
<1>3. \A k \in DOMAIN assignments : assignments[k] \in Stored
  BY DEF IInv, MemoryInv, ContentInv, StoredOK, OneTaker, PrevIsOther
<1>4. \A k \in DOMAIN assignments : assignments'[k].seq = assignments[k].seq
  BY <1>2, <1>3 DEF Stored
<1>5. SeqStep
  BY <1>2, <1>4 DEF SeqStep
<1>6. \A k \in DOMAIN assignments' : assignments'[k].seq <= epoch'
  BY <1>1, <1>2, <1>4, SeqTypes DEF FileInv
<1> QED BY <1>1, <1>5, <1>6, SeqTypes DEF FileInv, EpochStep

\* Everything else leaves memory and the file alone: a wait, the time, and a
\* restart that loads what was in memory.
LEMMA OtherFile ==
  ASSUME FileInv, IInv, UNCHANGED <<content, epoch, disk>>
  PROVE  FileInv' /\ SeqStep /\ EpochStep
<1>1. owner' = owner /\ activation' = activation /\ assignments' = assignments
      /\ epoch' = epoch /\ disk' = disk
  BY DEF content
<1> QED BY <1>1, SameAssignments DEF FileInv, EpochStep, Memory, content

LEMMA RestartFile ==
  ASSUME ~FileLost, FileInv, Restart PROVE UNCHANGED <<content, epoch, disk>>
BY DEF FileInv, Restart, Memory, content

LEMMA NextFile ==
  ASSUME ~PersistFails, ~FileLost
  PROVE  FileInv /\ IInv /\ [Next]_vars => FileInv' /\ SeqStep /\ EpochStep
<1> SUFFICES ASSUME FileInv, IInv, [Next]_vars PROVE FileInv' /\ SeqStep /\ EpochStep
  OBVIOUS
<1>1. CASE \E id \in Hosts, retake, force \in BOOLEAN : Claim(id, retake, force)
  BY <1>1, ClaimFile
<1>2. CASE \E id \in Hosts, act \in 0..MaxEpoch, takes \in TakeRequests : Take(id, act, takes)
  BY <1>2, TakeFile
<1>3. CASE \E id \in Hosts, arrivals \in ArrivalRequests : Arrived(id, arrivals)
  BY <1>3, ArrivedFile
<1>4. CASE \E c \in Conns, id \in Hosts : WaitRegisters(c, id)
  BY <1>4, OtherFile DEF WaitRegisters
<1>5. CASE \E c \in Conns : WaitReturns(c) \/ Deregister(c)
  BY <1>5, OtherFile DEF WaitReturns, Deregister
<1>6. CASE Tick
  BY <1>6, OtherFile DEF Tick
<1>7. CASE Restart
  BY <1>7, RestartFile, OtherFile
<1>8. CASE UNCHANGED vars
  BY <1>8, OtherFile DEF vars, content
<1> QED BY <1>1, <1>2, <1>3, <1>4, <1>5, <1>6, <1>7, <1>8 DEF Next

LEMMA InitFile == Init => FileInv
BY DEF Init, FileInv, Empty, NoAssignments, Memory

\* A client that waits for another epoch than its own sees every change, over
\* any restart, as long as the file is kept.
THEOREM EpochCorrect ==
  ASSUME ~PersistFails, ~FileLost PROVE Spec => EveryChangeMovesEpoch
<1>1. FileInv /\ IInv /\ [Next]_vars => FileInv' /\ EpochStep
  BY NextFile
<1>2. Spec => [][EpochStep]_vars
  BY <1>1, InitFile, InductiveInv, PTL DEF Spec
<1> QED BY <1>2 DEF EveryChangeMovesEpoch, EpochStep

\* A seq identifies one recording, over any restart, as long as the file is
\* kept: what a host recorded as handled is never asked for again.
THEOREM SeqCorrect ==
  ASSUME ~PersistFails, ~FileLost PROVE Spec => SeqIdentifiesRecording
<1>1. FileInv /\ IInv /\ [Next]_vars => FileInv' /\ SeqStep
  BY NextFile
<1>2. Spec => [][SeqStep]_vars
  BY <1>1, InitFile, InductiveInv, PTL DEF Spec
<1> QED BY <1>2 DEF SeqIdentifiesRecording, SeqStep

=============================================================================
