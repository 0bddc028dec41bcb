------------------------------ MODULE Decider ------------------------------
(***************************************************************************)
(* One host's Decider (model/decider.go) driven the way agent/agent.go     *)
(* drives it: an observation at a time on one goroutine, the clock read    *)
(* when the observation is processed, the timer armed for the deadline the *)
(* call returned, every Save written to agent.json as the call's decisions *)
(* are carried out, and the process restarted from that file at any time.  *)
(*                                                                         *)
(* The server is any source of the states in ServerStates, in any order:   *)
(* /wait coalesces states, and the server's own state may be lost.  The    *)
(* worker is any source of results for the issue outstanding: it reports   *)
(* exactly one result per command or assignment issued (agent/worker.go).  *)
(***************************************************************************)
EXTENDS DeciderCore

CONSTANTS
  ServerStates,   \* the states /state and /wait may answer
  AttachTimes,    \* bound: when the receiver may attach
  MaxNow          \* bound: the clock stops there

ASSUME StatesAssumption == /\ \A s \in ServerStates : IsServerState(s)
                           /\ None \notin ServerStates
ASSUME BoundsAssumption == MaxNow \in Nat \ {0} /\ AttachTimes \subseteq Nat

VARIABLES
  m,      \* the Decider
  now,    \* the loop's clock
  wake,   \* when the loop's timer fires, 0 when it is stopped
  ds,     \* the decisions of the call this step made, <<>> when it made none
  disk,   \* agent.json, None when there is no such file
  observed  \* history: the kind of observation this step's call handed over
            \* ("report", "state" or "other"), "none" when it made none

vars == <<m, now, wake, ds, disk, observed>>

-----------------------------------------------------------------------------
\* state.Save is inline and in order; one that fails is logged and leaves
\* the old file.
Saves(decisions) == {i \in DOMAIN decisions : decisions[i].type = "save"}
DiskAfter(decisions) == {disk} \cup {decisions[i].handled : i \in Saves(decisions)}

\* Decide(now, observation), for an observation of kind o whose own handler
\* left m1 and returned ds1; the loop then saves and rearms its timer.
Decide(o, m1, ds1) ==
  LET x == AdvanceTime(now, m1, ds1)
  IN /\ m' = x.m
     /\ ds' = x.ds
     /\ wake' = WakeAt(x.m, now)
     /\ disk' \in DiskAfter(x.ds)
     /\ observed' = o
     /\ UNCHANGED now

Init ==
  /\ m = NewDecider(None)
  /\ now = 1
  /\ wake = 0
  /\ ds = <<>>
  /\ disk = None
  /\ observed = "none"

ObserveState(s) ==
  LET adopted == IF m.handled = None THEN <<SaveDecision(Adopted(s), None, {})>>
                 ELSE <<>>
  IN Decide("state", HandleState(m, s), adopted)

ObserveAttach == now \in AttachTimes /\ Decide("other", HandleAttach(m, now), <<>>)

IssuedCommands == IF m.job = None THEN {}
                  ELSE {i \in DOMAIN m.job.commands : m.job.commands[i].status = "issued"}
IssuedKeys == IF m.job = None THEN {}
              ELSE {k \in DOMAIN m.job.assignments : m.job.assignments[k].status = "issued"}
CommandResults == [1..Cardinality(IssuedCommands) -> {"ok", "err"}]
GiveAwayResults == [IssuedKeys -> {"ok", "err", "notHere"}]

\* The worker's results, while its issue is outstanding.
ObserveRan(results) ==
  IssuedCommands # {} /\ Decide("report", HandleRan(m, results), <<>>)

ObserveGaveAway(results) ==
  IssuedKeys # {} /\ Decide("report", HandleGaveAway(m, now, results), <<>>)

\* The timer may be served late, never early.
TimerFires == wake # 0 /\ now >= wake /\ Decide("other", m, <<>>)

\* A new guards-up generation calls Decide with nothing observed.
GenerationStarts == Decide("other", m, <<>>)

Tick ==
  /\ now < MaxNow
  /\ now' = now + 1
  /\ ds' = <<>>
  /\ observed' = "none"
  /\ UNCHANGED <<m, wake, disk>>

\* The process dies, at any point, and starts again from agent.json.
Restart ==
  /\ m' = NewDecider(disk)
  /\ wake' = 0
  /\ ds' = <<>>
  /\ observed' = "none"
  /\ UNCHANGED <<now, disk>>

OtherStep ==
  \/ \E s \in ServerStates : ObserveState(s)
  \/ ObserveAttach
  \/ \E results \in CommandResults : ObserveRan(results)
  \/ TimerFires
  \/ GenerationStarts
  \/ Tick

Next ==
  \/ OtherStep
  \/ \E results \in GiveAwayResults : ObserveGaveAway(results)
  \/ Restart

Spec == Init /\ [][Next]_vars

-----------------------------------------------------------------------------
(* Types.                                                                  *)

HeaderOK(t) ==
  /\ t.status \in Statuses /\ t.attempts \in 0..MaxAttempts
  /\ t.lastIssued \in 0..now /\ t.dropReason \in DropReasons \cup {"none"}
  /\ t.status \in {"issued", "awaitingArrival", "failed"} => t.attempts > 0
CommandTaskOK(t) == /\ HeaderOK(t) /\ t.status # "awaitingArrival"
                    /\ t.cmd.run \in Takes \cup {"exec"} /\ t.cmd.activation \in Nat
AssignmentTaskOK(k, t) ==
  /\ HeaderOK(t) /\ t.assignment \in Assignment
  /\ t.triedToMove \in BOOLEAN /\ t.sentAt \in 0..now
  /\ t.status = "awaitingArrival" => k \in Devices
JobOK(j) ==
  /\ \A i \in DOMAIN j.commands : CommandTaskOK(j.commands[i])
  /\ DOMAIN j.assignments \subseteq Keys
  /\ \A k \in DOMAIN j.assignments : AssignmentTaskOK(k, j.assignments[k])
  /\ j.ownership \in Ownership \cup {None}
  /\ j.seqs \in SeqMap
  /\ j.ownership = None <=> j.seqs # NoSeqs \/ DOMAIN j.assignments # {}
LimiterOK(l) == /\ \A k \in Keys : \A i \in DOMAIN l.recent[k] : l.recent[k][i] \in 1..now
                /\ l.trippedAt \in 0..now

\* The values every variable ranges over; a job holds either the commands of
\* an ownership change or give-aways, never both.
TypeOK ==
  /\ m.handled \in Handled \cup {None}
  /\ m.latest \in ServerStates \cup {None}
  /\ m.job # None => JobOK(m.job)
  /\ LimiterOK(m.limiter)
  /\ m.claimedAttach \in 0..m.lastAttach /\ m.lastAttach \in 0..now
  /\ now \in 1..MaxNow /\ wake \in Nat
  /\ disk \in Handled \cup {None}
  /\ observed \in {"none", "report", "state", "other"}

-----------------------------------------------------------------------------
(* What must hold of the decider.                                         *)

Issues(decisions) == {i \in DOMAIN decisions : decisions[i].type = "issue"}
Claims(decisions) == {i \in DOMAIN decisions : decisions[i].type = "claim"}

\* advanceTime and wakeAt together lose no deadline: until the timer they
\* ask for is due, another call with nothing observed would neither decide
\* anything nor change the decider.  It also says that advanceTime ends
\* within the rounds modelled and that reconciling a state again is idle.
NoLostWakeup ==
  wake = 0 \/ now < wake =>
    LET x == AdvanceTime(now, m, <<>>)
    IN x.m = m /\ x.ds = <<>> /\ ~x.more

\* What authorises a give-away, at its first issue and at every retry: the
\* newest state still holds that very take for another host, which is live
\* and has not reported it arrived, and this host has not handled it.
GiveAwayAuthorised ==
  [][\A i \in Issues(ds') : \A k \in DOMAIN ds'[i].giveAway :
       LET a == ds'[i].giveAway[k]
           s == m'.latest
       IN /\ k \in DOMAIN s.assignments
          /\ s.assignments[k].seq = a.seq /\ ~s.assignments[k].arrived
          /\ a.assignee # Me /\ a.assignee \in s.live
          /\ ~Has(m'.handled, k, a.seq)]_vars

\* The commands of an ownership change are issued and retried only while the
\* newest state still calls for them, and takes only under its activation.
CommandsAuthorised ==
  [][\A i \in Issues(ds') : \A c \in DOMAIN ds'[i].run :
       LET cmd == ds'[i].run[c]
           o   == m'.job.ownership
       IN /\ o.owner = Me => /\ m'.latest.owner = Me
                             /\ m'.latest.activation = o.activation
                             /\ cmd.run \in Takes => cmd.activation = o.activation
          /\ o.owner # Me => m'.latest.owner # Me /\ cmd.run = "exec"]_vars

StartsJob == m'.job # None /\ (m.job = None \/ Saves(ds') # {})

\* A claim waits until the last attach is Settle old, answers an attach no
\* claim answered, and never interrupts a job; no new job starts ahead of a
\* claim that is due.
ClaimDiscipline ==
  [][/\ \A i \in Claims(ds') :
          /\ now >= m'.lastAttach + Settle /\ m.claimedAttach < m'.lastAttach
          /\ Cardinality(Claims(ds')) = 1
          /\ m.job # None => \E e \in Saves(ds') : e < i
     /\ StartsJob => ~ClaimDue(m', now)]_vars

\* An assignment is recorded as handled only when it is over for good: moved
\* (a device: arrived), not here, out of attempts, or replaced by a newer
\* take.  One held back because its assignee died is not recorded.
RecordedMeansOver ==
  [][\A i \in Saves(ds') : ds'[i].job # None =>
       LET j == ds'[i].job
       IN \A k \in DOMAIN j.assignments :
            LET t == j.assignments[k]
            IN IF j.seqs[k] # 0
               THEN \/ t.status = "done"
                    \/ t.status = "failed" /\ t.attempts = MaxAttempts
                    \/ t.status = "dropped" /\ t.dropReason = "replaced"
               ELSE t.status = "dropped" /\ t.dropReason = "assignee not live"]_vars

\* The notification is for a give-away that failed for good: every attempt
\* was made, this host was the previous assignee, and the newest state still
\* wants it, from a live assignee that has not reported it arrived.
NotifyJustified ==
  [][\A i \in Saves(ds') : \A k \in ds'[i].notify :
       LET t == ds'[i].job.assignments[k]
           s == m'.latest
       IN /\ t.attempts = MaxAttempts /\ t.assignment.prev = Me
          /\ Current(s, k, t) /\ ~s.assignments[k].arrived
          /\ t.assignment.assignee \in s.live]_vars

\* The Decider as its contract sees it, call by call and with what each call
\* observed: a save is for the worker only when it carries a notification.
\* While an issue is outstanding a state, an attach, the timer or a new
\* generation decides nothing and leaves it outstanding; only its report ends
\* it, and only a state ends the wait for the first one.
Phase == CASE m.latest = None -> "blank"
           [] m.latest # None /\ m.job = None -> "idle"
           [] OTHER -> IF Busy(m.job) THEN "issued" ELSE "waiting"
ForAgent(d) == CASE d.type = "save" -> IF d.notify # {} THEN "notify" ELSE "saved"
                 [] OTHER -> d.type
Batch == AtPositions([i \in DOMAIN ds |-> ForAgent(ds[i])],
                     {i \in DOMAIN ds : ForAgent(ds[i]) # "saved"})
Contract == INSTANCE DeciderContract WITH phase <- Phase, batch <- Batch
ImplementsContract == Contract!Spec

\* With no agent.json the first state is adopted: no work in that call, and
\* none when the very same state is seen again.
AdoptionNeverActs ==
  [][m.handled = None /\ m'.handled # None =>
       /\ Issues(ds') = {} /\ m'.job = None
       /\ \A s \in ServerStates : Adopted(s) = m'.handled =>
            AdvanceTime(now, [m' EXCEPT !.latest = s], <<>>).ds = <<>>]_vars

=============================================================================
