# soft-kvm, verified

TLA+ models, TLC runs and TLAPS proofs of soft-kvm: two or more hosts that
share one monitor, keyboard and mouse through a small coordinator.  The models
are translated from the Go source; SPEC.md and the comments are quoted only
where the code disagrees with them.

Inside this directory, `tlc -config X.cfg M` checks a run of the table below
and `tlapm XProofs.tla` the proofs of a module.  PROJECT.json maps every
definition to the lines it stands for.

## The system

A **coordinator** (`server/`) keeps one ownership bit, an activation counter
and the last *take* of every screen and device.  Each host runs an **agent**
(`agent/`): attaching the keyboard's receiver claims the ownership; becoming
the owner runs commands, among them `take-screen` and `take-hid`, which record
at the coordinator that a thing should come to this host; and every *other*
host, which may be the one that holds the thing, writes it away.

| Part | State it keeps | Operations | Talks to |
|---|---|---|---|
| coordinator, `server/server.go` | owner, epoch, activation, assignments; state.json; waiters and last wait per host; the broadcast channel | `/claim` `/take` `/arrived` `/state` `/wait`, persist, restart | agents over HTTPS |
| decision state machine, `model/decider.go` | handled record, newest state, one job of tasks, rate limiter, attach times | `Decide` on a state, a result, an attach or nothing | called by the loop only |
| loop and supervisor, `agent/agent.go` | channels, the timer, agent.json | generations under the guards, carrying out decisions | Decider, worker, claimer, watchers |
| worker, `agent/worker.go` | the issue in hand | commands, takes, monitor and device writes, notifications | loop by channel, coordinator, hardware |
| claimer, `agent/agent.go` | the claim in flight | four attempts with back-off | discovery, coordinator |
| server watcher, `agent/watcher.go`, `client/` | epoch of the last state | `/state`, `/wait`, reconnect, sleep detection | coordinator; sends the loop each state |
| arrival watcher, `agent/arrival.go` | devices polled for, arrivals reported | track, poll, `/arrived` | offered states by the loop; coordinator |
| detectors, `detect/` | the interfaces present per target; the sources of one errgroup | attach edges, a restart after a failure | loop by channel |
| receiver protocol, `hidpp/` | the request in flight on a node | presence of a slot, send a device, tap of link changes | worker, arrival watcher, detectors |
| discovery, `discover/` | cached address | candidates: flag, environment, cache, mDNS | watcher, claimer, worker |
| screens, `screen/`; guard, `platform/` | (macOS: a display cache) | one monitor write; up or down | worker; supervisor |
| identity, command line, services | none at run time | key derivation, flags, unit files | |

Everything between two hosts goes through the coordinator, and everything
inside an agent through channels: the Decider is touched by the loop's
goroutine only, so a call of it is atomic, and handlers of the coordinator hold
one mutex, so each is atomic except `/wait`, which takes it at registration and
again at deregistration.

### What is hard

* **Interleaving.** A claim moves the ownership while takes of the old owner
  are on the wire; a `/wait` registers while the epoch moves; `offerLatest`
  drains a channel somebody reads; the guards cancel a generation under a loop
  that is handing work over.
* **Stale state.** Retries run 10 s later on a state replaced since; the arrival
  watcher works from states older than its own reports.
* **Crashes.** An agent dies between a write and its record; the coordinator
  dies between two epochs, cannot write state.json or finds it corrupt.
* **Loss and delay.** A request may be lost before or after it was applied, or
  be applied after its sender gave up.
* **Two hosts at once.** Every host gives away every thing another host took, in
  parallel, each from its own view of the assignments; what decides where the
  thing ends is the order of their writes.
* **Deadlines.** One timer serves retries, arrival windows, the settle time and
  two kinds of rate limit; the decider waits for a report *without* a deadline.

What makes each part correct is stated by the properties below; PROJECT.json
lists the hazards at the line where each bites, with the property that watches
it or the reason none does yet.

## Modules

    DeciderCore <- Decider <- DeciderBudget <- MCDeciderBudget
         |            |   \---- MCDecider
         |        implements
         |            v
         |     DeciderContract <- Agent
         v
       System <- MCSystem     Detector
         ^
    Server <- Watch, Arrival, Claims, ServerProofs      Receiver <- MCReceiver

    DeciderBudget <- DeciderProofs    Agent <- AgentProofs    Detector <- DetectorProofs
    ServerProofs <- WatchProofs, ArrivalProofs       System, Claims, ServerProofs <- SystemProofs
    Receiver <- ReceiverProofs

**DeciderCore** is the pure decision machine, one operator per method: the
rate limiter, tasks (`Drop`, `Report`, `Due`, ...), jobs (`Issue`, `Expire`,
`ReportGiveAway`, `MarkArrived`, ...), `Reconcile`, and `AdvanceTime`, which
goes round `Round` until a round decides nothing, as `advanceTime` loops.
Times are integers and 0 is the zero `time.Time`.  Maps with a zero default are
total functions.

**Decider** drives it as the loop does: `ObserveState`, `ObserveAttach`,
`ObserveRan`, `ObserveGaveAway`, `TimerFires` (late, never early),
`GenerationStarts`, `Tick`, `Restart`.  A step is one whole call of `Decide`
and what the loop does with it: the saves, each of which may fail and leave the
old agent.json, and the timer it rearms.  States come in any order from
`ServerStates`, since `/wait` coalesces them and the coordinator may lose its
file.  The variable `ds` is the batch of decisions, which the properties read.

**DeciderContract** is what the rest of the agent needs of the Decider: blank,
idle, waiting or issued, and which batches a call may return in each for what it
observed: `Outcomes(phase, observation)`.  The observation is a variable of it,
so that a state or a timer has only the outcomes of a state or a timer, and only
its report ends an issue.  Decider implements it (`ImplementsContract`, with
`Phase`, `Batch` and the history variable `observed`, the observation of the call
just made, as the refinement mapping; checked by the run `decider_ownership` and
proved), and **Agent** takes the outcome of each call from `Outcomes` of the
observation its loop hands over.

**DeciderBudget** adds a history of the moves attempted, kept apart from the
limiter's own memory, to state what the limiter is for.

**Agent** has the goroutines of one agent: the loop by its program points
(select, `offerLatest` in its three channel operations, carrying out a batch
one decision at a time), the worker, the claimer, the senders, the supervisor
with its generations, and the bounded channels.  One host, no data: a state is
a number, an issue a name.

**Server** is the coordinator.  A handler under the mutex is one action;
`/wait` is three (`WaitRegisters`, `WaitReturns`, `Deregister`), with
`conn[c].closed` for the broadcast channel the request captured.  `Restart`
loads `disk`, or nothing if the file is lost.  What a handler only answers is
left out, as are requests refused for their shape.

**System** composes Server with one Decider and one worker per host (DeciderCore
instantiated once per host) and the place of every screen and device.  A host's
step is one call of `Decide` on the state it fetched (`StateArrives`), on the
results of its worker (`Reports`) or on its timer; between them its worker runs
the take commands (`TakesLook`, then `TakeEnds`, which posts) and the writes of
a give-away in parallel (`MoveEnds`).  A monitor obeys the host it shows; a
device sent is on its way until it `Lands`.  A write to what is here can end in
every way the code has: it moves the thing, fails with or without effect,
succeeds and is ignored, finds no display, or meets a linked device that leaves
the probe unanswered, which `slotOnline` (hidpp/hidpp.go:903) reads as not
linked, so that nothing is moved and nothing retried.  Agents stop and start
again from agent.json; answers of `/take` are lost; a take that was given up, or
posted by an agent that stopped, is `late` and recorded at any time later or
never (`LateTake`); users move screens and devices by hand (`UserMoves`).  All of
these count as faults, whose number only the run bounds.  `missed`, `strayed` and
`pressed` are histories: a host dealt with a take without moving what it had or
was being brought; the thing was moved by hand, or given away by its own taker,
since its newest take; a device was moved by hand since a host may have found it
present.  Time is left out except for the arrival window: settle, retry spacing
and rate limits, which Decider has, are zero.

**Claims** is the claimer and discovery of one host, `Me`, against Server, with
the claims of the other hosts as single steps.  `claimer` holds the attempt, the
candidate tried and how far the request is; `cache` and `home` are the address
cached and the coordinator's; `watcher` is how far `connectServer` is.  An
attempt's deadline may come at any point, also before the first candidate has
answered, and a request given up may still be applied (`strays`).  `last` is
what the user asked for, `excused` why the owner may be another host.

**Detector** is one agent's attach detector: the HID source with its presence
counts, one abstract source per receiver (whose protocol is in Receiver), the
errgroup that ties them together, and `detectorLoop`.  Interfaces appear and go
one by one.  The HID library is external: it is assumed to report every change
in order after its snapshot, repeating at most what the snapshot has, and to know the VID:PID of what
appears, though not of what goes.  `due` and `unheard` are histories.

**Watch** runs one watcher against Server.  `at` is its program point;
`HandlerSelects` and `HandlerAnswers` are the two ends of the coordinator's
`/wait`, and requests fail (`RequestFails`), hang until their own deadline
(`RequestTimesOut`) or are cut off by `ServerRestarts`.  The wall-clock jump of
sleep detection may follow any answer.

**Arrival** runs one arrival watcher against Server, with devices that are
linked or not, the states offered to it, a post that is applied, answered, lost
or left behind (`stray`), and generations that start over.  `seen`, `acked` and
`first` are histories for the properties only.

**Receiver** is one HID++ node: a receiver with two slots, or a device on its
own.  `conn` holds, for the worker's `Send`, a presence check and the trigger
detector, the point its call has reached in the handshake, the register read,
the probe of a slot, the lookup of changeHost, setHost or the tap, with its
nudges and the reports it has not read.  A request is answered late, never, or
in any order, and its reply reaches every open connection; links and nodes come
and go; deadlines and cancellation end a call anywhere.  `asked`, `link` and
`plugged` are the hardware's.  `was`, `excused`, `due` and `owed` are histories.

## Runs

| Run | Question | Bounds |
|---|---|---|
| decider_device | one device: what is given away, retried, recorded, notified | two takes by the other host and one by this one, live or not, arrived or not; one retry; 6 ticks, an arrival window of 2 |
| decider_ownership | ownership, commands, claims against a screen to give away | owners h1, h2 or none, two activations, attaches at ticks 1 and 2; 4 ticks |
| decider_budget | does the limiter bound the moves | one monitor taken again and again, another once; breaker of 2, 7 ticks |
| agent | queues, order and shutdown under guard flaps; every issue reports while the guards stay up and notifications return | 2 states per generation; the process may stop |
| agent_issue_lost | *violated*: an issue dropped with its generation | |
| watch | does the watcher sleep on news, go back in time, or miss the last state | 2 connections, 3 epochs; requests fail, hang, and the coordinator restarts |
| watch_hangs | *violated*: a request that hangs ends the watcher | |
| arrival | are arrivals real, reported once, and reported in the end; seqs and epochs | 1 device, 2 hosts, 5 epochs, a window of 1 in 2 ticks, guard flaps while the clock runs |
| receiver | what Send, Present and the detector may conclude from replies and links; that calls end | 2 watched slots or a direct device, 2 nudges, one call at a time, one request on its way, one unread report |
| system | where do the screen and the mouse end, with two whole hosts and a fault anywhere | a screen or a mouse, two claims and one fault (a write that fails, is ignored or meets a silent device; a lost answer; a late take; an agent that stops; a move by hand); one claim and three faults (screen) or two (mouse); or a screen, three claims and no fault; one retry, a window of 1; hosts symmetric |
| claims | who owns after claims that are retried, delayed and dropped; do claims end; does the cache heal | 2 hosts, 2 addresses, the code's 4 attempts, 4 attaches or activations, one move of the coordinator, one stray request |
| detector | is an attach one edge, and is it heard | two targets and another device with 2 interfaces each, 1 receiver, 3 appearances or disappearances; failures and guard flaps without bound |

Why these bounds: the coordinator's rules compare a request with the current
record, so two hosts, one key of each kind and enough epochs for claim, take,
take again, and in `arrival` claim, take, claim, take of one key, cover the ways
two recordings relate; two connections are needed for one host's waits to
overlap, which `watch` has.  Failed writes of state.json, a lost file and the
grace of a host between two waits are in Server and in its proofs, and are
switched off in the runs.
In `system` two claims make an assignment change hands, and a third brings it
back, which is what a superseded write needs to do harm.  The third is a screen's
only and without a fault: a mouse that comes back has 325 000 states of its own,
most of what a run can take, and every number of claims, screens and mice is
covered by the theorems.  One claim with several faults has the retries run out,
an agent stop twice, and a fault follow a fault; the number of faults is a bound
of the run alone.
In `claims` four attaches let each host claim before and after every attempt of
the other.  In `detector` three changes are a target that comes, goes and comes,
or one of two interfaces lost and found; the rest, sources that fail and guards
that flap, is unbounded.
The decider treats names alike and separately except for the breaker, which
`decider_budget` checks with two names; its bounded clock is longer than the
sum of the deadlines that can follow each other in the instance.  Seqs and
activations are only compared for equality by the decider, so two or three of
them stand for any.  The worker's queue of four never holds more than two
(`SendNeverBlocks`), so its bound is the code's own.
In `receiver`, one call runs at a time and everyone else on the node is the
action `OtherAsks`, which puts requests whose replies can be mistaken at any
point; with one request on its way a late reply is still taken by the next
nudge or the next call.  Two calls at once or two requests exceed ten and one
million states.

`CHECK_DEADLOCK FALSE` is used by the run `agent`, in which the process may be
stopped and then ends, and by `system` and `claims`, which end when
their users have made their last claim and all is settled.

### The properties

Decider: `NoLostWakeup` (until the timer asked for, calling again would do
nothing: no deadline is missed and the loop of `advanceTime` ends),
`GiveAwayAuthorised` and `CommandsAuthorised` (what authorises every issue and
every retry, by the newest state), `RecordedMeansOver`, `NotifyJustified`,
`AdoptionNeverActs`, `ClaimDiscipline`, `WriteLoopBounded`, and the refinement
`ImplementsContract`.
Agent: `OneIssueAtATime`, `SendNeverBlocks`, `NewestStateOffered`,
`SteadyIssuesReport`, `StopReturns`; violated, `IssueNotLost`.
Server: `OneTakerPerActivation`, `PrevIsAnotherHost`, `SeqIdentifiesRecording`,
`EveryChangeMovesEpoch`, `NoWaiterAsleepOnOldEpoch`, `WaitersCounted`.
Watch: `SleepsUpToDate`, `StatesInOrder`, `FollowsUnlessTimedOut`; violated,
`FollowsServer`.
Arrival: `ArrivalIsReal`, `ReportedOnce`, `ArrivalReported`.
Receiver: `HereWasHere` and `NothingWasNotHere` (what "sent", "linked" and
"nothing to move" imply about the link while the call ran), `EdgesAreLinks` and
`TappedLinkIsEdge` (attach edges against link changes, both ways),
`CallsReturn`.
System: `FollowsTakes` (each thing ends with the host that took it last) and
`ArrivedIsHere` (a device marked arrived is with its assignee until taken
again), each but for the exceptions it names (`missed`, `strayed`), besides `OneTakerPerActivation` and `PrevIsAnotherHost` with the takes
that agents really post.
Claims: `OwnerFollowsAttach`, `ClaimsEnd`, `CacheFollowsHome`.
Detector: `OneEdgePerAttach`, `AttachIsHeard`.
`TypeOK` of Decider is checked and proved, those of Server, Agent and Receiver
are proved; Watch and Arrival are typed by lemmas of their proofs (`Chain`,
`ArrivalTypes`).
Each is stated in words above its definition, and PROJECT.json names for each a
mutation of the code's translation that breaks it.

### Fairness

* **Agent.** Every goroutine that can run does in the end (the Go scheduler);
  a command or a write ends (`--switch-timeout`).  Nothing makes the guards
  come back up, a state arrive, or a notification command return: the code does
  not bound it, so both are antecedents of `SteadyIssuesReport`.
* **Watch.** Weak fairness for what needs only the scheduler or the handler's
  50 s timeout; strong fairness for `Connects`, `WaitArrives` and `Fetches`,
  that is, a request made again and again is answered in the end.  A network
  that never lets one through satisfies no property of this kind.
* **Arrival.** Weak fairness for the ticker, the clock, the arrival of states
  (what Watch shows) and the end of a post (its timeout); strong fairness for `Track`, as
  `select` picks at random among ready channels, for a poll whose presence
  checks all succeed, and for a post that reaches the coordinator.
* **Claims.** Weak fairness for the hand-over by the loop, for deadlines and
  back-offs, and for a request given up to end; a browse repeated for ever finds
  the coordinator.  Nothing makes a candidate fail early, a request reach the
  coordinator or an answer come back.
* **Detector.** Weak fairness for goroutines that can run and the back-off;
  strong fairness for `hid.Watch`, which succeeds if tried again and again.
  Nothing is assumed of the receivers.
* **Receiver.** Weak fairness for opening and writing when they can, for the end
  of a read at its deadline, and for the tap's reads.  Nothing is assumed of the
  hardware, and no presence check need be made again.

Liveness is stated for finitely many changes: epochs are bounded.

## Where the code disagrees with its documents

1. `agent_issue_lost`.  `send` (agent/agent.go:387) prefers, at random, the
   cancellation of the generation to the queue, and the issue is gone while the
   Decider waits for its report without a deadline, in every later generation.
2. `watch_hangs`.  `watch` takes a request's own deadline for the end of its
   context (agent/watcher.go:61) and returns nil: the generation goes on
   without a watcher, and the agent follows nothing until it is restarted or
   the guards flap.
Seen while modelling, in traces of the models with a property stated more
strongly, and not kept as runs:

* **A take given away by its taker.**  When a host's own take is accepted, the
  newest state it has seen is older than that take.  `advanceTime` reconciles it
  as soon as the activation job is over (model/decider.go:949, 839-872), and an
  earlier take by another host, still pending in that state, makes this host
  give away the thing it has just taken.  The other host has dealt with the new
  take already, so the thing stays on the wrong host until the next take.
  SPEC.md:295-298 says that "the server's own checks — a take under a stale
  activation gets a 409 — cover the moment before the agent sees that state":
  there is no such check for give-aways.  `FollowsTakes` excuses it (`strayed`).
* **A give-away too early.**  A host asked to give a thing away while an older
  write is still bringing it has nothing to move and records the take as dealt
  with; the thing arrives and stays (`missed`).
* **A silent device.**  A linked device that does not answer the probe of a
  give-away counts as not linked (hidpp/hidpp.go:901-908), the give-away as
  nothing to move (agent/worker.go:280-282), and the take as dealt with: the
  device stays with its old host without a retry or a notification (`missed`,
  and the exception of `NothingWasNotHere`).
* **A claim dropped.**  agent/agent.go:403-405 says of claims that "one dropped
  while another is in flight loses nothing".  It does when the one in flight has
  been processed already, its answer is slow, and another host has claimed since
  (`excused`).
* **A stale address that swallows packets** takes the whole 5 s of each of the
  four attempts, as the cached address comes first in each, and the claim is
  given up; SPEC.md:316-317 says that "a stale entry only costs one failed
  request".  The watcher, whose stream has no deadline, heals the cache
  (`CacheFollowsHome`).
* **A detector that is not run again.**  `detectorLoop` returns for any error
  that is a `context.DeadlineExceeded` (agent/agent.go:369), also the one of an
  unanswered handshake (hidpp/hidpp.go:495), wrapped in the error of `Run`: the
  agent has no detector until the guards flap.  agent/agent.go:360-361 says
  "failures are retried, cancellation is the only exit".  `AttachIsHeard`
  excuses it (`gone`).
* **A receiver that flaps.**  Every new `Run` counts the targets attached as one
  edge, which claims.  SPEC.md:894 says that this "changes no owner", which is
  so only on the host that owns: while a receiver stays unplugged, a host with
  another target attached claims again after every back-off.
* **Replies by header.**  HID++ replies are matched by a header that all
  getFeature requests to one device share (hidpp/hidpp.go:684), so `Send` may
  take the reply to an earlier nudge or to somebody else's probe for the index
  of changeHost; SPEC.md:232-233 says that they "are matched to their request".
* **A lost state.json** restarts the activation counter (server/server.go:80);
  an owner that handled the same number before does not run its commands.
* An owner lost by the coordinator (`""`) is not a deactivation edge
  (model/decider.go:801), where SPEC.md:258 only asks for `owner != me`.
* The notification command is not bounded by `--switch-timeout`
  (agent/worker.go:58) and holds the only worker, where SPEC.md:223-225 says
  that every issue reports; `SteadyIssuesReport` assumes that it returns.
* A device dropped at the end of its arrival window is polled for again after
  any later state (agent/arrival.go:80-88), where SPEC.md:888 ends the polling
  60 s after the take.

## Proofs

Each theorem holds for every value of the constants: any hosts, names, commands,
timings, breaker limits and bounds.  What is assumed of the constants
is named where they are declared, and is what `validateConnect` and the types of
the code give: hosts are not the empty string, a name is not both a screen and a
device, durations are not negative, a nil pointer is no struct
(`NoneAssumption`, `NoStruct`), a thing has finitely many interfaces.

| Module | Theorems | Of |
|---|---|---|
| ServerProofs | `TypeCorrect`, `OneTakerCorrect`, `PrevCorrect`, `WaitersWoken`, `LiveCountCorrect`; file kept: `EpochCorrect`, `SeqCorrect` | the coordinator |
| WatchProofs | `WatchedServer`, `WatcherWoken`, `WatcherCounted`; file kept: `SleepsCorrect`, `OrderCorrect` | Server under a watcher |
| ArrivalProofs | `ReportedServer`; file kept: `ReportedOnceCorrect`, `ArrivalCorrect`, `ReportedSeqs` | Server under an arrival watcher |
| SystemProofs | `SystemInductive`, `FollowsCorrect`, `ArrivedCorrect`, `SystemOneTaker`, `SystemPrev`, `SystemSeqsCorrect`, `SystemEpochs` | where each thing is, over all hosts |
| | `OwnerCorrect` | who owns: claims and discovery |
| AgentProofs | `OneIssueCorrect`, `SendCorrect`, `NewestOffered`, `TypeCorrect`; no flaps: `IssueKept` | the goroutines of an agent |
| DetectorProofs | `OneEdgeCorrect` | the attach detectors |
| ReceiverProofs | `HereCorrect`, `NothingCorrect`, `EdgesCorrect`, `TypeCorrect` | one HID++ node and the calls on it |
| DeciderProofs | `TypeCorrect`, `WakeupCorrect`, `GiveAwayCorrect`, `CommandsCorrect`, `RecordCorrect`, `NotifyCorrect`, `ClaimCorrect`, `AdoptionCorrect`, `ContractCorrect`, `BudgetCorrect` | the decision state machine |

*File kept* is `~PersistFails` and `~FileLost`, hypotheses of the theorem:
without them a restart gives an epoch or a seq a second meaning, and the
properties are false.  *No flaps* is `~GuardFlaps`: with flaps the run
`agent_issue_lost` violates the property, so the theorem says that the flap is
the only cause.

**ServerProofs.**  The first five theorems follow from the inductive invariant
`IInv`.  The properties about assignments are not inductive alone, because a
restart replaces memory by the file: `ContentInv` (types, one taker per
activation, prev differs) is therefore required of memory *and* of the file, and
`Persist` keeps it because the file is either what memory has become or what it
was.  One taker per activation needs that no assignment's activation exceeds the
counter: a claim moves the counter past every assignment, and a take writes the
current owner.  `WaitersCounted` needs that the host of an open wait is a host,
and the cardinality lemmas of the library for adding and removing one
connection.  There is a lemma per action, and `NextInv` combines them.  The last
two are about steps: `FileInv` adds to `IInv` that the file equals memory and
that no seq exceeds the epoch; `SeqStep` and `EpochStep` are then shown action
by action.

**WatchProofs, ArrivalProofs.**  Every step of the composition is a step of
Server or leaves it alone (`WatchedServer`, `ReportedServer`), so Server's
theorems carry over to it.  For the watcher, `WatchInv` says that what it has
got, what is in the channel and what the loop has decided on are states the
coordinator has had (`Past`), each older the further it has come (`Chain`), and
that a `/wait` asks for the epoch of the state sent last (`Asks`).  For
arrivals, `ReportInv` orders the seqs of one key along the way of a state: what
is polled for is not newer than what was offered, which is not newer than what
the coordinator has, and with equal seqs they are the same recording; what was
acknowledged is settled at the coordinator, and neither polled for nor tracked
again from the state offered, since that shows it arrived or `reported` has its
seq.

**SystemProofs.**  Neither `FollowsTakes` nor `ArrivedIsHere` is inductive: that a
thing ends with the host that took it last depends on what every other host has
heard, has recorded, is retrying and has at its worker.  `SystemInv` says it:

* Of a host and a thing the rest of the system only matters through a few facts,
  collected in `World`: what is recorded, which devices are where a host found
  them, but for those moved by hand, what strayed, and
  `free`, the pairs of a host and a thing between which and its newest assignee
  that host no longer stands (`Freed`: the thing is at home or on its way there,
  or not here and nobody else is bringing it, or it was missed or strayed).
* `AgentInv(h, m, w, W)` relates an agent `m` and the issue `w` at its worker to a
  world.  What agent.json records under the newest seq has freed the thing
  (`HandledInv`); so has what a job will record (`RecordInv`); a task about the
  newest take has, or a retry is left (`NewestTask`): a last write that moves
  nothing marks the thing as missed in the very step that ends it.
  `WorkInv` says of the issue that what a command's check found is still here
  when its take is posted, unless it was moved by hand, and that a host gives
  away its own thing only if it strayed.  `LateInv` says that a late take is of
  things that are somewhere.
* `LaterWorld`: an assignment is kept or replaced by one with a greater seq, an
  arrival is kept, a host out of the way stays so.  `AgentInv` survives in any
  later world (`LaterAgent`), so that a step of one host says nothing of the
  others but that the world it leaves is later.
* A call of `Decide` is proved in one world, round by round over the operators of
  DeciderCore (`RoundInv`, `CallIsRounds`, `CallInv`): `ApplyState` and `Expire`
  task by task, a report, an issue, the end of a job, the start of the next.  That
  the decider brings nothing it did not bring before is `DecideBrings`.  The
  other steps are proved by what they do to the world, each in a lemma of its
  own.

Assumed besides: payloads lead to hosts.  How many hosts, things, claims, epochs,
retries and faults there are is arbitrary, where the run has two hosts and one
thing; nothing ties the faults to the retries.

`SystemSeqsCorrect` and `SystemEpochs` are about the coordinator's steps there, one
lemma action by action (`SystemSeqs`) from the order of the seqs.  They need no
hypothesis on its file, because System's coordinator does not restart; for the
one that does they are proved in ServerProofs.

The same module has `OwnerCorrect`, about Claims.  `ClaimsInv`: the owner is the
host the user chose last, or a claim that will make it so is due or undecided, or
`excused` records a crossing.

**AgentProofs.**  `WorkInv` follows one issue from the Decider's batch through
the queue, the worker and the results back to it: it is in at most one of these
places at a time, and in none unless the Decider waits for it.  That a send never blocks
needs besides that a notification is sent into an empty queue.  `SteadyInv`
turns "at most one" into "exactly one" while the guards stay up.  `OfferInv`
says what `offerLatest` may assume at each of its program points.

**DetectorProofs.**  `CountInv`: a presence count is the number of interfaces
tracked.  `QueueInv`: what the library still has to tell, told to the counters
as they are, gives the edges that are due (`Future` names the interfaces and the
edges to come at every point of the queue), whatever is repeated or has lost its
VID:PID.

**ReceiverProofs.**  `ReceiverInv` says for each call in progress what it may
conclude from where it is and what it has not read yet.  That the target was
linked (`Here`): it is now, its node was opened, or the inbox holds a reply from
its index that is no refusal; such replies are sent only while it is linked,
whichever connection asked.  That it was not (`Away`): it is not now, the node
is gone, or the inbox holds a refusal of the slot's.  It is inductive because a
call that starts knows its target's link and every change of the links, and
every reply, tells the calls in progress (`Told`, `HappensInv`).  What a call is
for decides where it can be (`Underway`), so that only a probe of a slot ends in
"linked" or "nothing to move".  `DueInv` counts for the detector: a slot that is
linked when it starts, or answers its probe, is due an edge, and no slot has more
reports of taking the link in the tap's inbox than edges due (`Covers`, a
descending function in the place of a sum, which would need induction).
Here slots, triggers, attempts, concurrent calls, requests on their way and
inboxes are any, where the run has one call, one request and one report.

**DeciderProofs.**  A call of `Decide` is an observation and then rounds until
one decides nothing.

* `DeciderInv`: at the last call, made at some `t` up to now, the machine was
  left as `CallInv` (jobs well formed and for the state they were made for, the
  limiter's memory within its windows, attaches in order) and `Stopped` (one
  more round at `t` does nothing) say, and the timer is `WakeAt` of it.
  `Stopped` is what makes it inductive: `NoLostWakeup` carries it from `t` to
  any time before the timer.
* There is a lemma for each kind of round (`RoundBusy`, `RoundWaits`,
  `RoundEnds`, `RoundClaims`, `RoundStarts`, `RoundStops`).  A rank shows that
  the rounds the model unrolls are enough (`CallEnds`), so the bound on rounds
  is a fact, not an assumption.
* An action property is read off a set of the machines and decisions a call may
  pass through (`Going`, `Decided`, `Claiming`, `Staged`, `Stateless`) that
  every round keeps: `LoopKeeps` then gives it for the whole call.
* For `ContractCorrect` the stages of a call (`Staged`) are those of the
  contract's batches, and each step of Decider maps to a step of
  DeciderContract or to a stutter under `Phase`, `Batch` and `observed`: a call
  to `Decide(o)` for the very `o` it observed (`ObservedPhase`, `CallContract`),
  `Tick` to `Rest`, `Restart` to `Crash`.
* For `BudgetCorrect` the limiter's own memory and the history of the moves are
  related key by key (`Bounded`): what a job tries was let through when it
  started, and what the worker wrote was tried.
* Results and commands are matched by position among the issued ones
  (`AtPositions`), which the proofs reason about by the least position at
  which a claim would fail, as induction cannot be cited.

`DeciderInv` itself is not a run's invariant, because TLC cannot test membership
of the union of function sets over tasks with unbounded times in `Jobs` as it
stands; `TypeOK`, `NoLostWakeup` and the action properties, which it implies,
are.

### Only model-checked

* All liveness, which is out of the prover's reach, like ENABLED:
  `SteadyIssuesReport`, `StopReturns`, `FollowsUnlessTimedOut`,
  `ArrivalReported`, `ClaimsEnd`, `CacheFollowsHome`, `AttachIsHeard`,
  `TappedLinkIsEdge`, `CallsReturn`, and the violated `FollowsServer`.

## Not modelled

* The bytes: JSON, TLS, DDC/CI and HID++ framing, argument parsing, paths, unit
  files, log wording, the `detect` wizard.
* The choice among several nodes of one VID:PID, and reads of the pairing table.
* `since` and `server_id`, which no client decides by.
* The order of fsync and rename in `state.Save`: a save replaces the file or
  does not.
* How a monitor or a receiver is found and written (`screen/`, most of `detect`'s
  wizard): a write is an action with a result.
* `--server` and SOFTKVM_SERVER, which make discovery one fixed address;
  advertising and the fingerprint in the TXT record.
* The macOS guard's cache of the display list: a guard is up or down.

## Plan

In order of what matters most.

1. *Done.* Decider with its contract and budget; Agent; Server and its proofs;
   Watch; Arrival; Receiver; then System, Claims and Detector.
2. Proofs.  *Done* for every invariant and action property a run checks: Server,
   Watch, Arrival, Claims, Agent, Detector, Receiver, Decider with its budget
   and contract, and System.
3. If bounds allow: a lost file and failed saves in System.

Theorems are stated in modules of their own, as ServerProofs is, and modules to
be proved about use no RECURSIVE operator.
