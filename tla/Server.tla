------------------------------- MODULE Server -------------------------------
(***************************************************************************)
(* The coordinator (server/server.go): one ownership bit, the last take of *)
(* each name, and the /claim /take /arrived /state /wait API over them.    *)
(* Every handler holds s.mu for the whole of its work, so each is one      *)
(* action; handleWait takes the lock three times and sleeps in between, so *)
(* a connection goes through phases.                                       *)
(*                                                                         *)
(* Left out: what the handlers only answer or log, "since" and server_id   *)
(* (read by no client decision), and requests refused for their shape      *)
(* alone (validID, validateTakes, decodeBody), which change nothing.       *)
(***************************************************************************)
EXTENDS Integers, FiniteSets

CONSTANTS
  Hosts,        \* ids that pass validID
  NoHost,       \* the empty string: no owner, no previous assignee
  Screens,      \* assignment keys of kind screen
  Devices,      \* assignment keys of kind hid
  Payloads,     \* what a take writes: an upper-cased input, or a channel
  Conns,       \* bound: the /wait requests open at one time
  LiveGrace,    \* LiveGraceTime, in ticks
  MaxEpoch,     \* bound on the epochs of one server process
  PersistFails, \* whether a write of state.json may fail
  FileLost      \* whether state.json may be found corrupt at a restart

ASSUME HostsAssumption == NoHost \notin Hosts
ASSUME KindsAssumption == Screens \cap Devices = {}
ASSUME ConnsAssumption == IsFiniteSet(Conns)
ASSUME BoundsAssumption == LiveGrace \in Nat /\ MaxEpoch \in Nat
ASSUME FaultsAssumption == PersistFails \in BOOLEAN /\ FileLost \in BOOLEAN

Keys == Screens \cup Devices

VARIABLES
  owner, epoch, activation,
  assignments,  \* the StoredAssignment of each key taken so far
  disk,         \* state.json
  conn,         \* the /wait requests
  waiters,      \* open waits per host, as the handlers count them
  graceLeft     \* what is left of the grace since a host's last wait closed

content == <<owner, activation, assignments>>
waits == <<conn, waiters, graceLeft>>
vars == <<owner, epoch, activation, assignments, disk, conn, waiters, graceLeft>>

Stored == [assignee : Hosts, prev : Hosts \cup {NoHost}, seq : Nat \ {0},
           payload : Payloads, arrived : BOOLEAN, activation : Nat]
Memory == [owner |-> owner, epoch |-> epoch, activation |-> activation,
           assignments |-> assignments]
NoAssignments == [k \in {} |-> NoHost]
Empty == [owner |-> NoHost, epoch |-> 0, activation |-> 0, assignments |-> NoAssignments]

\* closed: the broadcast channel this wait captured has been closed.
Idle == [phase |-> "idle", id |-> NoHost, epoch |-> 0, closed |-> FALSE]

-----------------------------------------------------------------------------
\* isLiveLocked: an open /wait, or the last one closed within the grace.
IsLive(id) == waiters[id] > 0 \/ graceLeft[id] > 0

\* wake: every wait asleep on the channel closed is awake from now on.
Wake == conn' = [c \in Conns |-> IF conn[c].phase = "waiting"
                                 THEN [conn[c] EXCEPT !.closed = TRUE] ELSE conn[c]]

\* persist: a failed write is logged and leaves the old file.
Persist ==
  disk' \in {[owner |-> owner', epoch |-> epoch', activation |-> activation',
              assignments |-> assignments']}
            \cup (IF PersistFails THEN {disk} ELSE {})

\* Mutant of Bump: the waiters sleep on.
BumpSilently ==
  /\ epoch < MaxEpoch
  /\ epoch' = epoch + 1
  /\ Persist
  /\ UNCHANGED waits

\* The end of every mutation (bumpLocked): one epoch step, persisted, every
\* waiter woken.
Bump ==
  /\ epoch < MaxEpoch
  /\ epoch' = epoch + 1
  /\ Persist
  /\ Wake
  /\ UNCHANGED <<waiters, graceLeft>>

\* Mutant of Claim: the activation stays.
ClaimSameActivation(id, retake, force) ==
  /\ id # owner \/ retake
  /\ IsLive(id) \/ force
  /\ owner' = id
  /\ UNCHANGED <<activation, assignments>>
  /\ Bump

\* POST /claim/{id}: idempotent on the owner unless retake.
Claim(id, retake, force) ==
  /\ id # owner \/ retake
  /\ IsLive(id) \/ force
  /\ owner' = id
  /\ activation' = activation + 1
  /\ UNCHANGED assignments
  /\ Bump

\* The take t of key k changes nothing: a restarted agent posts it again.
SameTake(id, k, t) ==
  /\ k \in DOMAIN assignments
  /\ assignments[k].assignee = id /\ assignments[k].payload = t.payload
  /\ assignments[k].activation = activation

\* Mutants of Recorded: an arrived screen; prev always the last assignee; a
\* take of the same assignee keeping its seq; the arrival of the last take kept.
RecordedArrived(id, k, t, next) ==
  [assignee |-> id, seq |-> next, payload |-> t.payload,
   arrived |-> t.arrived, activation |-> activation,
   prev |-> IF k \in DOMAIN assignments /\ assignments[k].assignee # id
            THEN assignments[k].assignee ELSE NoHost]
RecordedOver(id, k, t, next) ==
  [assignee |-> id, seq |-> next, payload |-> t.payload,
   arrived |-> t.arrived /\ k \in Devices, activation |-> activation,
   prev |-> IF k \in DOMAIN assignments THEN assignments[k].assignee ELSE NoHost]
RecordedInPlace(id, k, t, next) ==
  LET again == k \in DOMAIN assignments /\ assignments[k].assignee = id
  IN [assignee |-> id, seq |-> IF again THEN assignments[k].seq ELSE next,
      payload |-> t.payload, arrived |-> t.arrived /\ k \in Devices,
      activation |-> activation,
      prev |-> IF again THEN assignments[k].prev ELSE NoHost]

RecordedStillArrived(id, k, t, next) ==
  LET was == k \in DOMAIN assignments /\ assignments[k].arrived
  IN [assignee |-> id, seq |-> next, payload |-> t.payload,
      arrived |-> (t.arrived \/ was) /\ k \in Devices, activation |-> activation,
      prev |-> IF k \in DOMAIN assignments /\ assignments[k].assignee # id
               THEN assignments[k].assignee ELSE NoHost]

\* The recording of the take t of key k, at the epoch next.
Recorded(id, k, t, next) ==
  [assignee |-> id, seq |-> next, payload |-> t.payload,
   arrived |-> t.arrived /\ k \in Devices, activation |-> activation,
   prev |-> CASE k \notin DOMAIN assignments -> NoHost
              [] k \in DOMAIN assignments /\ assignments[k].assignee # id
                   -> assignments[k].assignee
              [] OTHER -> assignments[k].prev]

\* POST /take/{id}: only the owner, under the current activation.  takes is a
\* function on the keys taken.
Take(id, act, takes) ==
  LET next == epoch + 1
      new  == {k \in DOMAIN takes : ~SameTake(id, k, takes[k])}
  IN /\ id = owner /\ act = activation
     /\ new # {}
     /\ assignments' = [k \in DOMAIN assignments \cup new |->
          IF k \in new THEN Recorded(id, k, takes[k], next) ELSE assignments[k]]
     /\ UNCHANGED <<owner, activation>>
     /\ Bump

\* Mutant of Matching: whatever the seq.
MatchingAnySeq(id, arrivals) ==
  {k \in DOMAIN arrivals \cap DOMAIN assignments :
     assignments[k].assignee = id /\ ~assignments[k].arrived}

\* POST /arrived/{id}: an arrival that does not match a current assignment of
\* this assignee is ignored.  arrivals is a function from keys to seqs.
Matching(id, arrivals) ==
  {k \in DOMAIN arrivals \cap DOMAIN assignments :
     /\ assignments[k].assignee = id /\ assignments[k].seq = arrivals[k]
     /\ ~assignments[k].arrived}

\* Mutant of Arrived: not a change worth an epoch.
ArrivedQuietly(id, arrivals) ==
  /\ Matching(id, arrivals) # {}
  /\ assignments' = [k \in DOMAIN assignments |->
       IF k \in Matching(id, arrivals)
       THEN [assignments[k] EXCEPT !.arrived = TRUE] ELSE assignments[k]]
  /\ UNCHANGED <<owner, activation, epoch, waits>>
  /\ Persist

Arrived(id, arrivals) ==
  /\ Matching(id, arrivals) # {}
  /\ assignments' = [k \in DOMAIN assignments |->
       IF k \in Matching(id, arrivals)
       THEN [assignments[k] EXCEPT !.arrived = TRUE] ELSE assignments[k]]
  /\ UNCHANGED <<owner, activation>>
  /\ Bump

-----------------------------------------------------------------------------
(* GET /wait.  A wait for another epoch than the current one is answered   *)
(* at once and changes nothing.                                            *)

WaitRegisters(c, id) ==
  /\ conn[c].phase = "idle"
  /\ conn' = [conn EXCEPT ![c] = [phase |-> "waiting", id |-> id, epoch |-> epoch,
                                  closed |-> FALSE]]
  /\ waiters' = [waiters EXCEPT ![id] = @ + 1]
  /\ UNCHANGED <<content, epoch, disk, graceLeft>>

\* The select: the broadcast, the 50 s timeout or the client gone away.
\* deregister then takes the lock again, so others may run in between.
WaitReturns(c) ==
  /\ conn[c].phase = "waiting"
  /\ conn' = [conn EXCEPT ![c].phase = "returning"]
  /\ UNCHANGED <<content, epoch, disk, waiters, graceLeft>>

\* Mutant of Deregister: the host is forgotten with the first of its waits.
DeregisterHost(c) ==
  LET id == conn[c].id
  IN /\ conn[c].phase = "returning"
     /\ conn' = [conn EXCEPT ![c] = Idle]
     /\ waiters' = [waiters EXCEPT ![id] = 0]
     /\ graceLeft' = [graceLeft EXCEPT ![id] = LiveGrace]
     /\ UNCHANGED <<content, epoch, disk>>

Deregister(c) ==
  LET id == conn[c].id
  IN /\ conn[c].phase = "returning"
     /\ conn' = [conn EXCEPT ![c] = Idle]
     /\ waiters' = [waiters EXCEPT ![id] = @ - 1]
     /\ graceLeft' = [graceLeft EXCEPT ![id] =
                        IF waiters[id] <= 1 THEN LiveGrace ELSE @]
     /\ UNCHANGED <<content, epoch, disk>>

\* Time passes: the graces run out.
Tick ==
  /\ \E id \in Hosts : graceLeft[id] > 0
  /\ graceLeft' = [id \in Hosts |-> IF graceLeft[id] > 0 THEN graceLeft[id] - 1 ELSE 0]
  /\ UNCHANGED <<content, epoch, disk, conn, waiters>>

\* Mutant of Restart: the epoch is not loaded.
RestartAtEpochZero ==
  /\ owner' = disk.owner /\ epoch' = 0 /\ activation' = disk.activation
  /\ assignments' = disk.assignments
  /\ conn' = [c \in Conns |-> Idle]
  /\ waiters' = [id \in Hosts |-> 0]
  /\ graceLeft' = [id \in Hosts |-> 0]
  /\ UNCHANGED disk

\* The process dies and NewServer loads state.json; a missing or corrupt file
\* is a fresh server.  No wait survives, and no host is live at first.
Restart ==
  \E d \in {disk} \cup (IF FileLost THEN {Empty} ELSE {}) :
    /\ owner' = d.owner /\ epoch' = d.epoch /\ activation' = d.activation
    /\ assignments' = d.assignments
    /\ conn' = [c \in Conns |-> Idle]
    /\ waiters' = [id \in Hosts |-> 0]
    /\ graceLeft' = [id \in Hosts |-> 0]
    /\ UNCHANGED disk

-----------------------------------------------------------------------------
Init ==
  /\ owner = NoHost /\ epoch = 0 /\ activation = 0
  /\ assignments = NoAssignments
  /\ disk = Empty
  /\ conn = [c \in Conns |-> Idle]
  /\ waiters = [id \in Hosts |-> 0]
  /\ graceLeft = [id \in Hosts |-> 0]

TakeRequests == UNION {[D -> [payload : Payloads, arrived : BOOLEAN]] : D \in SUBSET Keys}
ArrivalRequests == UNION {[D -> 1..MaxEpoch] : D \in SUBSET Devices}

Next ==
  \/ \E id \in Hosts, retake, force \in BOOLEAN : Claim(id, retake, force)
  \/ \E id \in Hosts, act \in 0..MaxEpoch, takes \in TakeRequests : Take(id, act, takes)
  \/ \E id \in Hosts, arrivals \in ArrivalRequests : Arrived(id, arrivals)
  \/ \E c \in Conns, id \in Hosts : WaitRegisters(c, id)
  \/ \E c \in Conns : WaitReturns(c)
  \/ \E c \in Conns : Deregister(c)
  \/ Tick
  \/ Restart

Spec == Init /\ [][Next]_vars

-----------------------------------------------------------------------------
(* Properties.                                                             *)

StoredOK(a) ==
  /\ DOMAIN a \subseteq Keys
  /\ \A k \in DOMAIN a : a[k] \in Stored /\ (k \in Screens => ~a[k].arrived)

TypeOK ==
  /\ owner \in Hosts \cup {NoHost} /\ epoch \in Nat /\ activation \in Nat
  /\ StoredOK(assignments)
  /\ disk.owner \in Hosts \cup {NoHost} /\ disk.epoch \in Nat /\ disk.activation \in Nat
  /\ StoredOK(disk.assignments)
  /\ conn \in [Conns -> [phase : {"idle", "waiting", "returning"},
                         id : Hosts \cup {NoHost}, epoch : Nat, closed : BOOLEAN]]
  /\ \A c \in Conns : conn[c].phase # "idle" => conn[c].id \in Hosts
  /\ waiters \in [Hosts -> Nat] /\ graceLeft \in [Hosts -> 0..LiveGrace]

\* One activation has one taker: every assignment recorded under the current
\* activation names the current owner, so a take that raced a claim is
\* either refused or older than the new owner's activation.
OneTaker(o, act, a) ==
  \A k \in DOMAIN a : /\ a[k].activation <= act
                      /\ a[k].activation = act => a[k].assignee = o
OneTakerPerActivation == OneTaker(owner, activation, assignments)

\* The host an assignment's failure is notified on (prev) is never the one
\* that asked for it, however takes and claims interleave.
PrevIsOther(a) == \A k \in DOMAIN a : a[k].prev # a[k].assignee
PrevIsAnotherHost == PrevIsOther(assignments)

\* A seq identifies one recording, across keys and restarts: what replaces an
\* assignment has a seq no recording had before, and under one seq nothing
\* changes but the arrival, which is never taken back.
SeqIdentifiesRecording ==
  [][\A k \in DOMAIN assignments' :
       IF k \in DOMAIN assignments /\ assignments'[k].seq = assignments[k].seq
       THEN \/ assignments'[k] = assignments[k]
            \/ assignments'[k] = [assignments[k] EXCEPT !.arrived = TRUE]
       ELSE \A l \in DOMAIN assignments : assignments[l].seq < assignments'[k].seq]_vars

\* Clients only look again once the epoch differs from theirs: every change of
\* the owner, the activation or an assignment, arrivals included, moves the
\* epoch.  live, which /state shows as well, changes with the waits alone and
\* does not.
EveryChangeMovesEpoch == [][content' # content => epoch' # epoch]_vars

\* No lost wake-up: a wait still asleep waits for the current epoch.
NoWaiterAsleepOnOldEpoch ==
  \A c \in Conns : conn[c].phase = "waiting" /\ ~conn[c].closed => conn[c].epoch = epoch

\* A host counts as live exactly as long as one of its waits has not been
\* deregistered: the counts never leak, go negative or are dropped early.
OpenWaits(id) == {c \in Conns : conn[c].phase # "idle" /\ conn[c].id = id}
WaitersCounted == \A id \in Hosts : waiters[id] = Cardinality(OpenWaits(id))

=============================================================================
