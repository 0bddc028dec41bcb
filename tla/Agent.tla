------------------------------- MODULE Agent -------------------------------
(***************************************************************************)
(* The goroutines of the agent (agent/agent.go, agent/worker.go): the      *)
(* supervisor and its guards-up generations, the loop that owns the        *)
(* Decider, the worker, the claimer, and the channels between them.  The   *)
(* Decider is its contract (DeciderContract): the loop calls it and        *)
(* carries out what it decides, one decision at a time.                    *)
(*                                                                         *)
(* A state of the server is the number of the /state that brought it, a    *)
(* work decision "notify" or the name of its issue; logs, saves (inline,   *)
(* see Decider) and the commands and writes themselves are left out.  A    *)
(* command or write always ends (--switch-timeout); the notification is    *)
(* not bounded by the code.                                                *)
(***************************************************************************)
EXTENDS Naturals, Sequences, FiniteSets

CONSTANTS
  GuardFlaps,    \* whether the Guard ever reports down
  Stops,         \* whether the process is ever told to stop
  MaxStates      \* bound on the states the watcher sends in one generation

ASSUME AgentAssumption == /\ GuardFlaps \in BOOLEAN /\ Stops \in BOOLEAN
                          /\ MaxStates \in Nat

VARIABLES
  phase, batch,  \* the Decider, and what the loop has left to carry out
  issue,         \* the name of the last issue: they alternate
  loop,          \* where the loop goroutine is
  gen,           \* the generation: "up", "cancelled" by the guards, gone with
                 \* the guards "down", or "over" for good
  run,           \* the supervisor: "running", "draining" or "returned"
  stop,          \* ctx of run is cancelled
  attachCh, stateCh, arrivalCh,   \* 0 when empty, capacity 1
  sent, offered, seen,  \* last state sent by the watcher, read by the loop
                        \* and read by the arrival watcher, in this generation
  decisions, results,   \* buffered channels
  worker, claimer

generationVars == <<attachCh, stateCh, arrivalCh, sent, offered, seen>>
workVars == <<decisions, results, worker, claimer>>
supervisorVars == <<gen, run, stop>>
vars == <<phase, batch, issue, loop, generationVars, workVars, supervisorVars>>

\* Decide(o) below takes its outcomes for the observation o the loop hands
\* over, which the contract records in a variable of its own.
Contract == INSTANCE DeciderContract WITH observed <- "none"

DecisionsCap == 4
ResultsCap == 1
Issues == {"odd", "even"}
NextIssue == IF issue = "odd" THEN "even" ELSE "odd"
\* The goroutines of a generation run until all of them have returned.
Running == {"up", "cancelled"}
\* ctx of the generation is cancelled: errGuardsDown, or the process stops.
Done == gen = "cancelled" \/ stop

-----------------------------------------------------------------------------
(* The loop.                                                               *)

\* One call of Decide, after which the loop carries out what it decided.
Decide(observation) ==
  \E o \in Contract!Outcomes(phase, observation) :
    /\ phase' = o.phase /\ batch' = o.batch
    /\ issue' = IF \E i \in DOMAIN o.batch : o.batch[i] = "issue"
                THEN NextIssue ELSE issue
    /\ loop' = IF o.batch = <<>> THEN "select" ELSE "carrying"

\* The first call of a generation, with nothing observed.
LoopStarts ==
  /\ loop = "start"
  /\ Decide("other")
  /\ UNCHANGED <<generationVars, workVars, supervisorVars>>

LoopAttach ==
  /\ loop = "select" /\ attachCh = 1
  /\ attachCh' = 0
  /\ Decide("other")
  /\ UNCHANGED <<stateCh, arrivalCh, sent, offered, seen, workVars, supervisorVars>>

LoopTimer ==
  /\ loop = "select"
  /\ Decide("other")
  /\ UNCHANGED <<generationVars, workVars, supervisorVars>>

\* A state is first offered to the arrival watcher (offerLatest: send, else
\* drain, send again; none of the three blocks), then decided on.
LoopReceivesState ==
  /\ loop = "select" /\ stateCh # 0
  /\ offered' = stateCh /\ stateCh' = 0
  /\ loop' = "offer"
  /\ UNCHANGED <<phase, batch, issue, attachCh, arrivalCh, sent, seen, workVars, supervisorVars>>

Offered == arrivalCh = 0 /\ arrivalCh' = offered /\ Decide("state")

\* Mutant of LoopOffers: a state not read yet is kept, the newer one dropped.
LoopOffersOnce ==
  /\ loop = "offer"
  /\ \/ Offered
     \/ arrivalCh # 0 /\ Decide("state") /\ UNCHANGED arrivalCh
  /\ UNCHANGED <<attachCh, stateCh, sent, offered, seen, workVars, supervisorVars>>

LoopOffers ==
  /\ loop = "offer"
  /\ \/ Offered
     \/ arrivalCh # 0 /\ loop' = "drain" /\ UNCHANGED <<phase, batch, issue, arrivalCh>>
  /\ UNCHANGED <<attachCh, stateCh, sent, offered, seen, workVars, supervisorVars>>

LoopDrains ==
  /\ loop = "drain"
  /\ arrivalCh' = 0 /\ loop' = "reoffer"
  /\ UNCHANGED <<phase, batch, issue, attachCh, stateCh, sent, offered, seen,
                 workVars, supervisorVars>>

LoopOffersAgain ==
  /\ loop = "reoffer"
  /\ \/ Offered
     \/ arrivalCh # 0 /\ Decide("state") /\ UNCHANGED arrivalCh
  /\ UNCHANGED <<attachCh, stateCh, sent, offered, seen, workVars, supervisorVars>>

LoopReceivesResult ==
  /\ loop = "select" /\ results # <<>>
  /\ results' = Tail(results)
  /\ Decide("report")
  /\ UNCHANGED <<generationVars, decisions, worker, claimer, supervisorVars>>

\* The decision carried out: the loop goes on to the next, or selects again.
Carried == /\ batch' = Tail(batch)
           /\ loop' = IF Len(batch) = 1 THEN "select" ELSE "carrying"

\* A claim is handed over only while the claimer waits for one.
LoopClaims ==
  /\ loop = "carrying" /\ Head(batch) = "claim"
  /\ claimer' = IF claimer = "waiting" THEN "claiming" ELSE claimer
  /\ Carried
  /\ UNCHANGED <<phase, issue, generationVars, decisions, results, worker, supervisorVars>>

Work == IF Head(batch) = "issue" THEN issue ELSE "notify"

\* send: blocks while the channel is full, and may be chosen over ctx.Done.
LoopSends ==
  /\ loop = "carrying" /\ Head(batch) # "claim"
  /\ Len(decisions) < DecisionsCap
  /\ decisions' = Append(decisions, Work)
  /\ Carried
  /\ UNCHANGED <<phase, issue, generationVars, results, worker, claimer, supervisorVars>>

\* ctx.Done is chosen, in the select or in the middle of a send: the loop
\* leaves what it had still to carry out.
LoopQuits ==
  /\ Done
  /\ loop = "select" \/ (loop = "carrying" /\ Head(batch) # "claim")
  /\ loop' = "gone" /\ batch' = <<>>
  /\ UNCHANGED <<phase, issue, generationVars, workVars, supervisorVars>>

-----------------------------------------------------------------------------
(* The other goroutines of a generation.                                   *)

DetectorSends ==
  /\ gen \in Running /\ attachCh = 0
  /\ attachCh' = 1
  /\ UNCHANGED <<phase, batch, issue, loop, stateCh, arrivalCh, sent, offered, seen,
                 workVars, supervisorVars>>

WatcherSends ==
  /\ gen \in Running /\ stateCh = 0 /\ sent < MaxStates
  /\ sent' = sent + 1 /\ stateCh' = sent'
  /\ UNCHANGED <<phase, batch, issue, loop, attachCh, arrivalCh, offered, seen,
                 workVars, supervisorVars>>

ArrivalWatchReads ==
  /\ gen \in Running /\ arrivalCh # 0
  /\ seen' = arrivalCh /\ arrivalCh' = 0
  /\ UNCHANGED <<phase, batch, issue, loop, attachCh, stateCh, sent, offered,
                 workVars, supervisorVars>>

-----------------------------------------------------------------------------
(* The worker and the claimer, which outlive generations.                  *)

Worker(at) == [at |-> at, issue |-> "odd"]

WorkerReceives ==
  /\ worker.at = "idle" /\ decisions # <<>>
  /\ decisions' = Tail(decisions)
  /\ worker' = IF Head(decisions) = "notify" THEN Worker("notifying")
               ELSE [at |-> "working", issue |-> Head(decisions)]
  /\ UNCHANGED <<phase, batch, issue, loop, generationVars, results, claimer, supervisorVars>>

\* Every command or write of the issue has ended, within its own bound.
WorkerFinishes ==
  /\ worker.at = "working"
  /\ worker' = [worker EXCEPT !.at = "posting"]
  /\ UNCHANGED <<phase, batch, issue, loop, generationVars, decisions, results, claimer,
                 supervisorVars>>

\* Mutant of WorkerPosts: a result nobody waits for is dropped.
WorkerPostsOrDrops ==
  /\ worker.at = "posting"
  /\ results' = IF loop = "select" THEN Append(results, worker.issue) ELSE results
  /\ worker' = Worker("idle")
  /\ UNCHANGED <<phase, batch, issue, loop, generationVars, decisions, claimer, supervisorVars>>

\* post: blocks while the last result is not read, unless the process stops.
WorkerPosts ==
  /\ worker.at = "posting"
  /\ \/ Len(results) < ResultsCap /\ results' = Append(results, worker.issue)
     \/ stop /\ UNCHANGED results
  /\ worker' = Worker("idle")
  /\ UNCHANGED <<phase, batch, issue, loop, generationVars, decisions, claimer, supervisorVars>>

WorkerNotified ==
  /\ worker.at = "notifying"
  /\ worker' = Worker("idle")
  /\ UNCHANGED <<phase, batch, issue, loop, generationVars, decisions, results, claimer,
                 supervisorVars>>

WorkerQuits ==
  /\ worker.at = "idle" /\ stop
  /\ worker' = Worker("gone")
  /\ UNCHANGED <<phase, batch, issue, loop, generationVars, decisions, results, claimer,
                 supervisorVars>>

\* The claim has been answered, or its four attempts have failed.
ClaimEnds ==
  /\ claimer = "claiming"
  /\ claimer' = "waiting"
  /\ UNCHANGED <<phase, batch, issue, loop, generationVars, decisions, results, worker,
                 supervisorVars>>

ClaimerQuits ==
  /\ claimer = "waiting" /\ stop
  /\ claimer' = "gone"
  /\ UNCHANGED <<phase, batch, issue, loop, generationVars, decisions, results, worker,
                 supervisorVars>>

-----------------------------------------------------------------------------
(* The supervisor: run, generation, waitGuardsUp and guardWatch.           *)

GuardGoesDown ==
  /\ GuardFlaps /\ gen = "up" /\ loop # "gone"
  /\ gen' = "cancelled"
  /\ UNCHANGED <<phase, batch, issue, loop, generationVars, workVars, run, stop>>

\* generation's Wait: every goroutine of it has returned, and its first error
\* says whether run goes on.
GenerationEnds ==
  /\ gen \in Running /\ loop = "gone"
  /\ gen' = IF gen = "cancelled" THEN "down" ELSE "over"
  /\ UNCHANGED <<phase, batch, issue, loop, generationVars, workVars, run, stop>>

\* The guards are up again, which a stop may race: fresh channels, the same
\* Decider.
GuardsUp ==
  /\ gen = "down" /\ run = "running"
  /\ gen' = "up" /\ loop' = "start"
  /\ attachCh' = 0 /\ stateCh' = 0 /\ arrivalCh' = 0
  /\ sent' = 0 /\ offered' = 0 /\ seen' = 0
  /\ UNCHANGED <<phase, batch, issue, workVars, run, stop>>

Stop ==
  /\ Stops /\ ~stop
  /\ stop' = TRUE
  /\ UNCHANGED <<phase, batch, issue, loop, generationVars, workVars, gen, run>>

\* Mutant of RunDrains: nothing but the guards ends the wait for them.
RunDrainsAfterGeneration ==
  /\ run = "running" /\ gen = "over" /\ stop
  /\ run' = "draining"
  /\ UNCHANGED <<phase, batch, issue, loop, generationVars, workVars, gen, stop>>

\* cancel, then workers.Wait.
RunDrains ==
  /\ run = "running" /\ gen \in {"down", "over"} /\ stop
  /\ run' = "draining"
  /\ UNCHANGED <<phase, batch, issue, loop, generationVars, workVars, gen, stop>>

RunReturns ==
  /\ run = "draining" /\ worker.at = "gone" /\ claimer = "gone"
  /\ run' = "returned"
  /\ UNCHANGED <<phase, batch, issue, loop, generationVars, workVars, gen, stop>>

-----------------------------------------------------------------------------
Init ==
  /\ phase = "blank" /\ batch = <<>> /\ issue = "odd"
  /\ loop = "start" /\ gen = "up" /\ run = "running" /\ stop = FALSE
  /\ attachCh = 0 /\ stateCh = 0 /\ arrivalCh = 0
  /\ sent = 0 /\ offered = 0 /\ seen = 0
  /\ decisions = <<>> /\ results = <<>>
  /\ worker = Worker("idle") /\ claimer = "waiting"

Offering == LoopOffers \/ LoopDrains \/ LoopOffersAgain

Next ==
  \/ LoopStarts \/ LoopAttach \/ LoopTimer \/ LoopReceivesState \/ Offering
  \/ LoopReceivesResult \/ LoopClaims \/ LoopSends \/ LoopQuits
  \/ DetectorSends \/ WatcherSends \/ ArrivalWatchReads
  \/ WorkerReceives \/ WorkerFinishes \/ WorkerPosts \/ WorkerNotified \/ WorkerQuits
  \/ ClaimEnds \/ ClaimerQuits
  \/ GuardGoesDown \/ GenerationEnds \/ GuardsUp \/ Stop \/ RunDrains \/ RunReturns

Spec == Init /\ [][Next]_vars

\* The scheduler runs every goroutine that can go on.  Go's select chooses
\* among its ready cases at random, so a case that is ready again and again
\* is chosen in the end: strong fairness, for the cases of the loop's select.
SchedulerFairness ==
  /\ WF_vars(LoopStarts) /\ WF_vars(Offering)
  /\ WF_vars(LoopClaims) /\ WF_vars(LoopSends)
  /\ SF_vars(LoopReceivesResult) /\ SF_vars(LoopQuits)
  /\ WF_vars(WorkerReceives) /\ WF_vars(WorkerFinishes) /\ SF_vars(WorkerPosts)
  /\ SF_vars(WorkerQuits) /\ WF_vars(ClaimEnds) /\ SF_vars(ClaimerQuits)
  /\ WF_vars(GenerationEnds) /\ SF_vars(RunDrains) /\ WF_vars(RunReturns)

\* The notification command is a child process nothing bounds while the agent
\* runs; a stopping agent kills it.
KilledOnStop == stop /\ WorkerNotified
FairSpec == Spec /\ SchedulerFairness /\ WF_vars(KilledOnStop)

-----------------------------------------------------------------------------
(* Properties.                                                             *)

Goroutines == {"start", "select", "offer", "drain", "reoffer", "carrying", "gone"}

\* The channels hold what the code sends on them, within their capacity.
TypeOK ==
  /\ phase \in Contract!Phases /\ issue \in Issues
  /\ batch = <<>> <=> loop # "carrying"
  /\ \A i \in DOMAIN batch : batch[i] \in {"notify", "claim", "issue"}
  /\ loop \in Goroutines /\ gen \in Running \cup {"down", "over"}
  /\ run \in {"running", "draining", "returned"} /\ stop \in BOOLEAN
  /\ attachCh \in 0..1 /\ {stateCh, arrivalCh, offered, seen} \subseteq 0..sent
  /\ sent \in 0..MaxStates
  /\ Len(decisions) <= DecisionsCap
  /\ \A i \in DOMAIN decisions : decisions[i] \in Issues \cup {"notify"}
  /\ Len(results) <= ResultsCap /\ \A i \in DOMAIN results : results[i] \in Issues
  /\ worker.at \in {"idle", "working", "posting", "notifying", "gone"}
  /\ claimer \in {"waiting", "claiming", "gone"}

\* Where the outstanding issue can be: still to send, queued, in hand or done.
ToSend == \E i \in DOMAIN batch : batch[i] = "issue"
Queued == {i \in DOMAIN decisions : decisions[i] \in Issues}
InHand == worker.at \in {"working", "posting"}

\* Once the Decider has issued, the issue is somewhere on its way there and
\* back until its result is read: no decision and no result is lost while
\* the process runs, so the Decider can wait with no deadline of its own.
IssueNotLost ==
  phase = "issued" /\ ~stop =>
    ToSend \/ Queued # {} \/ InHand \/ results # <<>>

\* At no time is a second issue anywhere between the loop and the worker, so
\* a result always answers the issue the Decider waits for.
OneIssueAtATime ==
  /\ \A i, j \in Queued : i = j
  /\ \A i \in Queued : decisions[i] = issue /\ ~InHand /\ results = <<>> /\ ~ToSend
  /\ InHand => worker.issue = issue /\ results = <<>> /\ ~ToSend
  /\ results # <<>> => results[1] = issue /\ phase = "issued" /\ ~ToSend

\* What is queued and what one call adds to it is never more than a
\* notification and an issue: the queue's capacity is never reached, so the
\* loop never blocks in send, whatever the worker is doing.
SendNeverBlocks ==
  loop = "carrying" =>
    Len(decisions) + Cardinality({i \in DOMAIN batch : batch[i] # "claim"}) <= 2

\* offerLatest loses nothing: once the loop has decided on a state, the
\* arrival watcher has read it or will read it next.
NewestStateOffered ==
  loop \in {"select", "carrying"} => offered \in {arrivalCh, seen} /\ arrivalCh \in {0, offered}

\* Every issue reports, and the report is read, while the guards stay up and
\* every notification returns: the Decider, the loop and the worker never wait
\* for each other for ever.
EveryIssueReports ==
  \A i \in Issues : phase = "issued" /\ issue = i ~> phase # "issued" \/ issue # i \/ stop
SteadyIssuesReport ==
  [](gen \in {"up", "over"}) /\ []<>(worker.at # "notifying") => EveryIssueReports

\* Told to stop, the agent returns.
StopReturns == stop ~> run = "returned"

=============================================================================
