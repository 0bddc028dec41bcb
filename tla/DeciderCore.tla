---------------------------- MODULE DeciderCore ----------------------------
(***************************************************************************)
(* The pure decision state machine of model/decider.go: tasks, jobs, the   *)
(* rate limiter and Decide, one operator per Go function.  An operator     *)
(* takes the value the Go method is called on and returns the value it     *)
(* leaves behind, so one call of Decide is one atomic step of whatever     *)
(* module uses it, as it is in the agent (one goroutine owns the Decider). *)
(*                                                                         *)
(* Times are integers, 0 is the zero time.Time.  Logs, task names and the  *)
(* "reasons" map that only deduplicates log lines are left out; the reason *)
(* a task was dropped for is kept as one of three words.                   *)
(***************************************************************************)
EXTENDS Integers, Sequences, FiniteSets

CONSTANTS
  Me,             \* DeciderConfig.ID: the host that runs this decider
  Hosts,          \* every host name that may own or be an assignee
  Screens,        \* assignment keys of kind screen
  Devices,        \* assignment keys of kind hid
  NoHost,         \* the empty string: no owner, no previous assignee
  None,           \* a nil pointer
  OnActivation,   \* the -A list: "take-screen", "take-hid" or "exec" each
  OnDeactivation, \* the -D list, only "exec"
  Settle, SwitchRetries, RetrySpacing, ArrivalWindow,
  Cooldown, BreakerWindow, BreakerMax, BreakerPause

Takes == {"take-screen", "take-hid"}

\* The lists and knobs connect accepts (validateConnect); a zero Settle or
\* spacing is legal in the flags too, so only the sign is assumed.
ASSUME HostsAssumption == Me \in Hosts /\ None \notin Hosts /\ NoHost \notin Hosts
ASSUME KindsAssumption == Screens \cap Devices = {}
ASSUME CommandsAssumption == /\ OnActivation \in Seq(Takes \cup {"exec"})
                             /\ OnDeactivation \in Seq({"exec"})
ASSUME TimingAssumption == /\ Settle \in Nat /\ SwitchRetries \in Nat
                           /\ RetrySpacing \in Nat /\ ArrivalWindow \in Nat
ASSUME LimitsAssumption == /\ Cooldown \in Nat /\ BreakerWindow \in Nat
                           /\ BreakerMax \in Nat \ {0} /\ BreakerPause \in Nat

Keys == Screens \cup Devices
MaxAttempts == 1 + SwitchRetries
Larger(a, b) == IF a >= b THEN a ELSE b

-----------------------------------------------------------------------------
(* What /state says: the fields the decider reads.  assignments is the     *)
(* sorted list of /state as a function on the keys it lists, live the set  *)
(* of hosts whose Live entry is true.  A seq is never 0: the server sets it *)
(* to an epoch it has just incremented.                                    *)

SeqNumbers == Nat \ {0}
Assignment == [assignee : Hosts, prev : Hosts \cup {NoHost},
               seq : SeqNumbers, arrived : BOOLEAN]

IsServerState(s) ==
  /\ s.owner \in Hosts \cup {NoHost} /\ s.activation \in Nat /\ s.live \subseteq Hosts
  /\ DOMAIN s.assignments \subseteq Keys
  /\ \A k \in DOMAIN s.assignments :
       /\ s.assignments[k] \in Assignment
       /\ k \in Screens => ~s.assignments[k].arrived

\* handled.seqs as a total function: 0 for a key the map lacks.
Ownership == [owner : Hosts \cup {NoHost}, activation : Nat]
SeqMap == [Keys -> Nat]
Handled == [ownership : Ownership, seqs : SeqMap]
Has(h, k, seq) == h.seqs[k] = seq
NoSeqs == [k \in Keys |-> 0]

\* handled.add: what a job handled, over what was handled before.
AddRecord(h, j) ==
  [ownership |-> IF j.ownership # None THEN j.ownership ELSE h.ownership,
   seqs |-> [k \in Keys |-> IF j.seqs[k] # 0 THEN j.seqs[k] ELSE h.seqs[k]]]

-----------------------------------------------------------------------------
(* The rate limiter.                                                       *)

NewRateLimiter == [recent |-> [k \in Keys |-> <<>>], trippedAt |-> 0]

CooldownEnds(l, k) ==
  IF l.recent[k] = <<>> THEN 0 ELSE l.recent[k][Len(l.recent[k])] + Cooldown

PauseEnds(l) == IF l.trippedAt = 0 THEN 0 ELSE l.trippedAt + BreakerPause

\* limitedUntil: the later of the two holds still running, 0 when none is.
LimitedUntil(l, now, k) ==
  LET until == Larger(CooldownEnds(l, k), PauseEnds(l))
  IN IF now < until THEN until ELSE 0

\* The elements of s at the positions P, in their order.
AtPositions(s, P) ==
  LET kept[n \in 0..Len(s)] == IF n = 0 THEN <<>>
                               ELSE IF n \in P THEN Append(kept[n - 1], s[n]) ELSE kept[n - 1]
  IN kept[Len(s)]

After(times, t) == AtPositions(times, {i \in DOMAIN times : times[i] > t})

\* Mutant of InWindow: the move being counted is forgotten.
InWindowBefore(l, now, k) == Len(After(l.recent[k], now - BreakerWindow))

InWindow(l, now, k) == 1 + Len(After(l.recent[k], now - BreakerWindow))

\* count, for every key a job tried to move: the names are independent but
\* for the breaker, which any of them trips.
Count(l, now, tried) ==
  [recent |-> [k \in Keys |->
     IF k \in tried
     THEN Append(After(l.recent[k], now - Larger(BreakerWindow, Cooldown)), now)
     ELSE l.recent[k]],
   trippedAt |-> IF \E k \in tried : InWindow(l, now, k) >= BreakerMax
                 THEN now ELSE l.trippedAt]

-----------------------------------------------------------------------------
(* Tasks.                                                                  *)

Statuses == {"pending", "issued", "awaitingArrival", "failed", "done", "dropped"}
DropReasons == {"ownership moved", "replaced", "assignee not live"}

\* Mutant of Drop: an issued task is dropped at once, its report not awaited.
DropAtOnce(t, reason) ==
  IF t.status \in {"done", "dropped"} THEN t
  ELSE [t EXCEPT !.status = "dropped", !.dropReason = reason]

\* drop: an issued task is only marked, a finished one stays as it is.
Drop(t, reason) ==
  CASE t.status \in {"done", "dropped"} -> t
    [] t.status = "issued" ->
         [t EXCEPT !.dropReason = IF @ = "none" THEN reason ELSE @]
    [] OTHER -> [t EXCEPT !.status = "dropped", !.dropReason = reason]

\* report, for a result that is "ok" or an error.
Report(t, result) ==
  [t EXCEPT !.status = CASE result = "ok"       -> "done"
                         [] result # "ok" /\ t.dropReason # "none" -> "dropped"
                         [] OTHER               -> "failed"]

\* Mutant of Retriable: one attempt too many.
RetriableOnceMore(t) == t.status = "failed" /\ t.attempts <= MaxAttempts

Retriable(t) == t.status = "failed" /\ t.attempts < MaxAttempts
RetryAt(t) == t.lastIssued + RetrySpacing
Due(now, t) == t.status = "pending" \/ (Retriable(t) /\ now >= RetryAt(t))
IssueTask(now, t) ==
  [t EXCEPT !.status = "issued", !.attempts = @ + 1, !.lastIssued = now]
ArrivalDeadline(t) == t.sentAt + ArrivalWindow

\* Nothing is left to do for the task.
Over(t) == t.status \in {"done", "dropped"}
             \/ (t.status = "failed" /\ ~Retriable(t))

\* command: only an activation takes, under its activation.
Command(run, activating, activation) ==
  [run |-> run,
   activation |-> IF activating /\ run \in Takes THEN activation ELSE 0]

NewCommandTask(cmd) == [status |-> "pending", attempts |-> 0, lastIssued |-> 0,
                        dropReason |-> "none", cmd |-> cmd]
NewAssignmentTask(a) == [status |-> "pending", attempts |-> 0, lastIssued |-> 0,
                         dropReason |-> "none", assignment |-> a,
                         triedToMove |-> FALSE, sentAt |-> 0]

Commands == [run : Takes \cup {"exec"}, activation : Nat]
CommandTasks ==
  [status : Statuses \ {"awaitingArrival"}, attempts : Nat, lastIssued : Nat,
   dropReason : DropReasons \cup {"none"}, cmd : Commands]
AssignmentTasks ==
  [status : Statuses, attempts : Nat, lastIssued : Nat,
   dropReason : DropReasons \cup {"none"}, assignment : Assignment,
   triedToMove : BOOLEAN, sentAt : Nat]

-----------------------------------------------------------------------------
(* Jobs: commands is a sequence (results are matched by position),         *)
(* assignments a function on the keys given away; ownership and seqs are   *)
(* the record, what the job adds to handled at its end.                    *)

Jobs == [commands : Seq(CommandTasks),
         assignments : UNION {[K -> AssignmentTasks] : K \in SUBSET Keys},
         ownership : Ownership \cup {None}, seqs : SeqMap]

\* A nil pointer is no struct.
ASSUME NoneAssumption == None \notin Ownership \cup Handled \cup Jobs

NewOwnershipJob(o, cmds) ==
  [commands |-> [i \in DOMAIN cmds |-> NewCommandTask(cmds[i])],
   assignments |-> [k \in {} |-> None], ownership |-> o, seqs |-> NoSeqs]

EveryTask(j, P(_)) == /\ \A i \in DOMAIN j.commands : P(j.commands[i])
                      /\ \A k \in DOMAIN j.assignments : P(j.assignments[k])

Settled(j) == LET Finished(t) == Over(t) IN EveryTask(j, Finished)
Busy(j) == LET NotIssued(t) == t.status # "issued" IN ~EveryTask(j, NotIssued)
NothingDue(now, j) == LET NotDue(t) == ~Due(now, t) IN EveryTask(j, NotDue)

\* issue: the tasks due at now go together.
Issue(now, j) ==
  LET Issued(t) == IF Due(now, t) THEN IssueTask(now, t) ELSE t
  IN [j EXCEPT !.commands = [i \in DOMAIN j.commands |-> Issued(j.commands[i])],
               !.assignments = [k \in DOMAIN j.assignments |-> Issued(j.assignments[k])]]

DueKeys(now, j) == {k \in DOMAIN j.assignments : Due(now, j.assignments[k])}
DueCommands(now, j) ==
  AtPositions(j.commands, {i \in DOMAIN j.commands : Due(now, j.commands[i])})

\* expire: the devices sent that did not arrive in their window have failed.
Expire(now, j) ==
  [j EXCEPT !.assignments = [k \in DOMAIN j.assignments |->
     LET t == j.assignments[k]
     IN IF t.status = "awaitingArrival" /\ now >= ArrivalDeadline(t)
        THEN [t EXCEPT !.status = "failed"] ELSE t]]

\* Mutant of Deadlines: no timer for the arrival windows.
RetryDeadlines(j) ==
  {RetryAt(t) : t \in {u \in {j.assignments[k] : k \in DOMAIN j.assignments} : Retriable(u)}}

\* deadlines: the arrival windows and, once no issue is outstanding, the retries.
Deadlines(j) ==
  LET Sent    == {k \in DOMAIN j.assignments : j.assignments[k].status = "awaitingArrival"}
      RetryK  == {k \in DOMAIN j.assignments : Retriable(j.assignments[k])}
      RetryC  == {i \in DOMAIN j.commands : Retriable(j.commands[i])}
  IN {ArrivalDeadline(j.assignments[k]) : k \in Sent}
     \cup (IF Busy(j) THEN {}
           ELSE {RetryAt(j.assignments[k]) : k \in RetryK}
                  \cup {RetryAt(j.commands[i]) : i \in RetryC})

\* reportRun: the results match the issued commands in order; a command with
\* no result failed.
ReportRun(j, results) ==
  LET Position(i) == Cardinality({h \in 1..i : j.commands[h].status = "issued"})
      Result(i) == IF Position(i) <= Len(results) THEN results[Position(i)] ELSE "err"
  IN [j EXCEPT !.commands = [i \in DOMAIN j.commands |->
        IF j.commands[i].status = "issued"
        THEN Report(j.commands[i], Result(i)) ELSE j.commands[i]]]

\* The status one give-away result leads to: a screen has no receipt, a device
\* sent awaits its arrival, nothing to move here is not a failure.
GiveAwayOutcome(k, reported, result) ==
  CASE ~reported                             -> "failed"
    [] reported /\ result = "notHere"        -> "done"
    [] reported /\ result = "err"            -> "failed"
    [] reported /\ result = "ok" /\ k \in Screens -> "done"
    [] OTHER                                 -> "awaitingArrival"

\* reportGiveAway: results is a function on the keys reported.
ReportGiveAway(now, j, results) ==
  LET After1(k, t) ==
        LET reported == k \in DOMAIN results
            result   == IF reported THEN results[k] ELSE "err"
            status   == GiveAwayOutcome(k, reported, result)
        IN [t EXCEPT
              !.triedToMove = @ \/ ~reported \/ result # "notHere",
              !.sentAt = IF status = "awaitingArrival" THEN now ELSE @,
              !.status = IF t.dropReason # "none" /\ status # "done"
                         THEN "dropped" ELSE status]
  IN [j EXCEPT !.assignments = [k \in DOMAIN j.assignments |->
        IF j.assignments[k].status = "issued"
        THEN After1(k, j.assignments[k]) ELSE j.assignments[k]]]

\* Mutant of CommandsExpired: a newer activation of this host is not noticed.
CommandsExpiredWithOwner(j, s) ==
  j.ownership # None /\ (j.ownership.owner = Me <=> s.owner # Me)

\* commandsExpired.
CommandsExpired(j, s) ==
  /\ j.ownership # None
  /\ IF j.ownership.owner = Me
     THEN s.owner # Me \/ s.activation # j.ownership.activation
     ELSE s.owner = Me

\* s still holds the assignment the task is about.
Current(s, k, t) ==
  k \in DOMAIN s.assignments /\ s.assignments[k].seq = t.assignment.seq

\* Mutant of HeldBack: liveness is looked at only when the job starts.
NeverHeldBack(s, k, t) == FALSE

HeldBack(s, k, t) ==
  /\ Current(s, k, t)
  /\ t.assignment.assignee \notin s.live
  /\ t.status \notin {"issued", "done", "dropped"}

DropExpiredCommands(j, s) ==
  IF CommandsExpired(j, s)
  THEN [j EXCEPT !.commands =
          [i \in DOMAIN j.commands |-> Drop(j.commands[i], "ownership moved")]]
  ELSE j

\* Mutant of DropExpiredAssignments: what is held back stays in the record.
DropAndRecord(j, s) ==
  [j EXCEPT !.assignments = [k \in DOMAIN j.assignments |->
     LET t == j.assignments[k]
     IN CASE ~Current(s, k, t) -> Drop(t, "replaced")
          [] HeldBack(s, k, t) -> Drop(t, "assignee not live")
          [] OTHER -> t]]

\* dropExpiredAssignments: a replaced assignment stays in the record, one
\* whose assignee is not live leaves it and stays pending.
DropExpiredAssignments(j, s) ==
  [j EXCEPT
     !.assignments = [k \in DOMAIN j.assignments |->
        LET t == j.assignments[k]
        IN CASE ~Current(s, k, t) -> Drop(t, "replaced")
             [] HeldBack(s, k, t) -> Drop(t, "assignee not live")
             [] OTHER -> t],
     !.seqs = [k \in Keys |->
        IF k \in DOMAIN j.assignments /\ HeldBack(s, k, j.assignments[k])
        THEN 0 ELSE j.seqs[k]]]

\* Mutant of MarkArrived: an arrival after the window closed is ignored.
MarkArrivedInWindow(j, s) ==
  [j EXCEPT !.assignments = [k \in DOMAIN j.assignments |->
     LET t == j.assignments[k]
     IN IF /\ t.status = "awaitingArrival"
           /\ Current(s, k, t) /\ k \in Devices /\ s.assignments[k].arrived
        THEN [t EXCEPT !.status = "done"] ELSE t]]

\* markArrived: the arrival is the receipt, even after the window closed.
MarkArrived(j, s) ==
  [j EXCEPT !.assignments = [k \in DOMAIN j.assignments |->
     LET t == j.assignments[k]
     IN IF /\ t.status \in {"awaitingArrival", "failed"}
           /\ Current(s, k, t) /\ k \in Devices /\ s.assignments[k].arrived
        THEN [t EXCEPT !.status = "done"] ELSE t]]

ApplyState(j, s) ==
  IF s = None THEN j
  ELSE MarkArrived(DropExpiredAssignments(DropExpiredCommands(j, s), s), s)

Tried(j) == {k \in DOMAIN j.assignments : j.assignments[k].triedToMove}

NotifyFor(j) == {k \in DOMAIN j.assignments :
                   j.assignments[k].status = "failed" /\ j.assignments[k].assignment.prev = Me}

-----------------------------------------------------------------------------
(* Reconciling a state while idle.                                         *)

Activating(h, s) ==
  s.owner = Me /\ (h.ownership.owner # Me \/ s.activation # h.ownership.activation)
Deactivating(h, s) == s.owner # Me /\ s.owner # NoHost /\ h.ownership.owner = Me

OwnershipChangeJob(s, list, activating) ==
  NewOwnershipJob([owner |-> s.owner, activation |-> s.activation],
                  [i \in DOMAIN list |-> Command(list[i], activating, s.activation)])

\* pendingAssignments: someone else's, at a seq not handled yet.
PendingKeys(h, s) ==
  {k \in DOMAIN s.assignments :
     s.assignments[k].assignee # Me /\ ~Has(h, k, s.assignments[k].seq)}

Verdict(now, s, l, k) ==
  CASE s.assignments[k].arrived -> "alreadyArrived"
    [] ~s.assignments[k].arrived /\ s.assignments[k].assignee \notin s.live
         -> "assigneeNotLive"
    [] OTHER -> IF LimitedUntil(l, now, k) # 0 THEN "rateLimited" ELSE "giveNow"

WithVerdict(m, now, v) ==
  {k \in PendingKeys(m.handled, m.latest) : Verdict(now, m.latest, m.limiter, k) = v}

GiveAwayJob(m, now) ==
  LET give     == WithVerdict(m, now, "giveNow")
      recorded == give \cup WithVerdict(m, now, "alreadyArrived")
      a        == m.latest.assignments
  IN IF recorded = {} THEN None
     ELSE [commands |-> <<>>,
           assignments |-> [k \in give |-> NewAssignmentTask(a[k])],
           ownership |-> None,
           seqs |-> [k \in Keys |-> IF k \in recorded THEN a[k].seq ELSE 0]]

\* reconcile: the activation edge, the deactivation edge, then assignments.
Reconcile(m, now) ==
  CASE Activating(m.handled, m.latest) ->
         OwnershipChangeJob(m.latest, OnActivation, TRUE)
    [] ~Activating(m.handled, m.latest) /\ Deactivating(m.handled, m.latest) ->
         OwnershipChangeJob(m.latest, OnDeactivation, FALSE)
    [] OTHER -> GiveAwayJob(m, now)

-----------------------------------------------------------------------------
(* The Decider and Decide.                                                 *)

\* NewDecider, from what agent.json says: None when there is no agent.json.
NewDecider(rec) ==
  [handled |-> rec, job |-> None, limiter |-> NewRateLimiter, latest |-> None,
   lastAttach |-> 0, claimedAttach |-> 0]

\* Mutant of Adopted: the assignments are left to be given away.
AdoptedOwnership(s) ==
  [ownership |-> [owner |-> s.owner, activation |-> s.activation], seqs |-> NoSeqs]

\* handleState: the first state is adopted, and not reconciled.
Adopted(s) ==
  [ownership |-> [owner |-> s.owner, activation |-> s.activation],
   seqs |-> [k \in Keys |-> IF k \in DOMAIN s.assignments
                            THEN s.assignments[k].seq ELSE 0]]
HandleState(m, s) == IF m.handled = None THEN [m EXCEPT !.handled = Adopted(s)]
                     ELSE [m EXCEPT !.latest = s]

HandleAttach(m, now) == [m EXCEPT !.lastAttach = now]

ClaimAt(m) == IF m.lastAttach = m.claimedAttach THEN 0 ELSE m.lastAttach + Settle
ClaimDue(m, now) == ClaimAt(m) # 0 /\ ClaimAt(m) <= now

HandleRan(m, results) ==
  IF m.job = None THEN m ELSE [m EXCEPT !.job = ReportRun(@, results)]
HandleGaveAway(m, now, results) ==
  IF m.job = None THEN m ELSE [m EXCEPT !.job = ReportGiveAway(now, @, results)]

\* The decisions, without their logs; a save also carries the job it ends,
\* which failureLogs reports on, None for the adoption.
ClaimDecision == [type |-> "claim"]
IssueDecision(now, j) ==
  [type |-> "issue",
   run |-> [i \in DOMAIN DueCommands(now, j) |-> DueCommands(now, j)[i].cmd],
   giveAway |-> [k \in DueKeys(now, j) |-> j.assignments[k].assignment]]
SaveDecision(h, j, notify) ==
  [type |-> "save", handled |-> h, job |-> j, notify |-> notify]

\* How a round of advanceTime leaves the loop state x = [m, ds, more], more
\* being whether it goes round again: the job in flight waits, or ends and is
\* recorded; a claim is made; a job is started if there is one.
Waits(x, j, ds1) == [m |-> [x.m EXCEPT !.job = j], ds |-> ds1, more |-> FALSE]
EndJob(now, x, j) ==
  LET h == AddRecord(x.m.handled, j)
  IN [m |-> [x.m EXCEPT !.handled = h, !.job = None,
                        !.limiter = Count(x.m.limiter, now, Tried(j))],
      ds |-> Append(x.ds, SaveDecision(h, j, NotifyFor(j))), more |-> TRUE]
AnswerAttach(x) == [m |-> [x.m EXCEPT !.claimedAttach = x.m.lastAttach],
               ds |-> Append(x.ds, ClaimDecision), more |-> TRUE]
StartJob(x, j) ==
  IF j = None THEN [m |-> x.m, ds |-> x.ds, more |-> FALSE]
  ELSE [m |-> [x.m EXCEPT !.job = j], ds |-> x.ds, more |-> TRUE]

\* advanceJob, on the loop state x.
AdvanceJob(now, x) ==
  LET j == Expire(now, ApplyState(x.m.job, x.m.latest))
  IN CASE Busy(j) -> Waits(x, j, x.ds)
       [] ~Busy(j) /\ ~Settled(j) ->
            Waits(x, Issue(now, j),
                  IF NothingDue(now, j) THEN x.ds
                  ELSE Append(x.ds, IssueDecision(now, j)))
       [] OTHER -> EndJob(now, x, j)

\* Mutant of Round: a claim that is due does not wait for the job's end.
RoundClaimsFirst(now, x) ==
  CASE ~x.more -> x
    [] x.more /\ ClaimDue(x.m, now) -> AnswerAttach(x)
    [] x.more /\ ~ClaimDue(x.m, now) /\ x.m.job # None -> AdvanceJob(now, x)
    [] OTHER -> StartJob(x, IF x.m.latest = None THEN None ELSE Reconcile(x.m, now))

\* One round of the loop of advanceTime.
Round(now, x) ==
  CASE ~x.more -> x
    [] x.more /\ x.m.job # None -> AdvanceJob(now, x)
    [] x.more /\ x.m.job = None /\ ClaimDue(x.m, now) -> AnswerAttach(x)
    [] OTHER -> StartJob(x, IF x.m.latest = None THEN None ELSE Reconcile(x.m, now))

\* advanceTime: seven rounds are enough (end of a job, claim, ownership job
\* without commands and its end, job that only records arrivals and its end,
\* nothing left); that the last round asks for no more is a property of
\* the module that uses this one.
Rounds == 7
AdvanceTime(now, m, ds) ==
  LET after[n \in 0..Rounds] == IF n = 0 THEN [m |-> m, ds |-> ds, more |-> TRUE]
                                ELSE Round(now, after[n - 1])
  IN after[Rounds]

LimitLifts(m, now) ==
  {LimitedUntil(m.limiter, now, k) : k \in WithVerdict(m, now, "rateLimited")}

\* Mutant of WakeCandidates: no timer for the claim.
WakeForWork(m, now) ==
  {t \in (IF m.job # None THEN Deadlines(m.job)
          ELSE IF m.latest # None THEN LimitLifts(m, now) ELSE {}) : t > now}

\* wakeAt: the earliest future deadline, 0 when there is none.
WakeCandidates(m, now) ==
  {t \in {ClaimAt(m)} \cup (IF m.job # None THEN Deadlines(m.job)
                            ELSE IF m.latest # None THEN LimitLifts(m, now)
                            ELSE {}) : t > now}
WakeAt(m, now) ==
  LET c == WakeCandidates(m, now)
  IN IF c = {} THEN 0 ELSE CHOOSE t \in c : \A u \in c : t <= u

=============================================================================
