------------------------------- MODULE System -------------------------------
(***************************************************************************)
(* The whole: the coordinator of Server, the decider of DeciderCore and    *)
(* the worker (agent/worker.go) of every host, and where each screen and   *)
(* device is.  An agent hears of the coordinator's states (Watch), decides *)
(* (Decider), and its worker posts takes and gives things away, one issue  *)
(* at a time and the writes of an issue in parallel; an agent may stop at  *)
(* any point and start again from agent.json.                              *)
(*                                                                         *)
(* Left to the other modules: failed saves (Decider), a coordinator that   *)
(* starts again (Watch, Arrival), reports and claims given up and applied  *)
(* later (Arrival, Claims), and time but for the arrival windows: settle,  *)
(* spacing and rate limits are zero.  A payload, input or channel, is the  *)
(* host it leads to.  Each key is written through hardware of its own, so  *)
(* no write waits for another's.  The -D list is empty.                    *)
(***************************************************************************)
EXTENDS Server, Sequences

CONSTANTS
  None, SwitchRetries, ArrivalWindow,
  Cases  \* what a behaviour is about: the things every host declares, and the
         \* bounds on the claims and on the faults: the writes that fail or
         \* move nothing, the takes and answers lost or late, the agents
         \* stopped and the things moved by hand

ASSUME CasesAssumption ==
  /\ SwitchRetries \in Nat
  /\ Cases \subseteq [things : SUBSET Keys, claims : Nat, faults : Nat]
ASSUME PayloadsAreHosts == Payloads = Hosts

\* What a task of the worker comes to.
Results == {"ok", "err", "notHere"}
ASSUME NothingYet == None \notin Results

VARIABLES
  agents,   \* the Decider of each host; what it handled is in agent.json
  seen,     \* the epoch of the state it fetched last, -1 when it has to connect
  clock,    \* the time its deadlines have reached
  work,     \* the issue its worker carries out, None when there is none
  place,    \* the host that shows the screen, or that the device is linked to
  heading,  \* where a device sent is going, NoHost once it is there
  left,     \* the claims and the faults still to come
  late,     \* the takes whose worker does not wait for them any more
  missed,   \* history: a host dealt with the newest take and moved nothing,
            \* although it had the thing or an older take brought it there
  strayed,  \* history: since the newest take the thing was moved by hand, or its
            \* assignee was told to give it away
  pressed   \* history: the hosts and devices such that the device was moved by
            \* hand since the host may have found it

agentVars == <<agents, seen, clock, work>>
thingVars == <<place, heading>>
serverVars == vars
marks == <<missed, strayed, pressed>>
systemVars == <<serverVars, agentVars, thingVars, left, late, marks>>

\* The -A list, of a take per kind of thing declared; a thing that is not
\* declared is nowhere.
Here(h, k) == place[k] = h /\ heading[k] = NoHost
gesture == (IF \E k \in Screens : place[k] # NoHost THEN <<"take-screen">> ELSE <<>>)
             \o (IF \E k \in Devices : place[k] # NoHost THEN <<"take-hid">> ELSE <<>>)

D(me) == INSTANCE DeciderCore
           WITH Me <- me, OnActivation <- gesture, OnDeactivation <- <<>>,
                Settle <- 0, RetrySpacing <- 0, Cooldown <- 0, BreakerWindow <- 0,
                BreakerMax <- 2, BreakerPause <- 0

\* A nil pointer is no struct: no agent.json, no state yet.
States == [owner : Hosts \cup {NoHost}, activation : Nat, live : SUBSET Hosts,
           assignments : UNION {[K -> [assignee : Hosts, prev : Hosts \cup {NoHost},
                                       seq : Nat \ {0}, arrived : BOOLEAN]] :
                                K \in SUBSET Keys}]
Records == [ownership : [owner : Hosts \cup {NoHost}, activation : Nat],
            seqs : [Keys -> Nat]]
ASSUME NoStruct == None \notin States /\ None \notin Records

-----------------------------------------------------------------------------
Fault == left.faults > 0 /\ left' = [left EXCEPT !.faults = @ - 1]

\* GET /state, as far as deciders read it: the owner is always listed, and a
\* host is live while it waits.
Shown ==
  [owner |-> owner, activation |-> activation, live |-> {h \in Hosts : IsLive(h)},
   assignments |-> [k \in DOMAIN assignments |->
     [assignee |-> assignments[k].assignee, prev |-> assignments[k].prev,
      seq |-> assignments[k].seq, arrived |-> assignments[k].arrived]]]

\* The worker's view of an issue: every command and every write without a
\* result so far, and whether the command has looked where the devices are.
Issued(d) ==
  [run   |-> [i \in DOMAIN d.run |-> [cmd |-> d.run[i], result |-> None,
                here |-> IF d.run[i].run = "take-hid" THEN None ELSE {}]],
   moves |-> [k \in DOMAIN d.giveAway |-> [of |-> d.giveAway[k], result |-> None]]]

\* One call of Decide by the loop of host h, at time t; an issue goes to the
\* worker, which has none then (OneIssueAtATime in Agent); a call makes one at
\* most.  Between jobs there is no deadline, and the clock starts again.
IssuesOf(ds) == {i \in DOMAIN ds : ds[i].type = "issue"}
TheIssue(ds) == ds[CHOOSE i \in IssuesOf(ds) : TRUE]

Decide(h, t, m, ongoing) ==
  LET x == D(h)!AdvanceTime(t, m, <<>>)
  IN /\ agents' = [agents EXCEPT ![h] = [x.m EXCEPT !.limiter = D(h)!NewRateLimiter]]
     /\ clock' = [clock EXCEPT ![h] = IF x.m.job = None THEN 1 ELSE t]
     /\ work' = [work EXCEPT ![h] =
                   IF IssuesOf(x.ds) = {} THEN ongoing ELSE Issued(TheIssue(x.ds))]
     /\ strayed' = [k \in Keys |->
          strayed[k] \/ /\ IssuesOf(x.ds) # {} /\ k \in DOMAIN TheIssue(x.ds).giveAway
                        /\ k \in DOMAIN assignments /\ assignments[k].assignee = h]

\* The watcher fetches the state, the loop takes it, and the next /wait opens:
\* the host is live from its first one on.  A state handed over late is a
\* decision whose writes start late.
StateArrives(h) ==
  /\ seen[h] # epoch
  /\ seen' = [seen EXCEPT ![h] = epoch]
  /\ waiters' = [waiters EXCEPT ![h] = 1]
  /\ Decide(h, clock[h], D(h)!HandleState(agents[h], Shown), work[h])
  /\ UNCHANGED <<content, epoch, disk, conn, graceLeft, thingVars, left, late,
                 missed, pressed>>

\* The timer: a device sent has linked somewhere within its window.
TimerFires(h) ==
  LET t == D(h)!WakeAt(agents[h], clock[h])
  IN /\ t # 0 /\ \A k \in Devices : heading[k] = NoHost
     /\ Decide(h, t, agents[h], work[h])
     /\ UNCHANGED <<serverVars, seen, thingVars, left, late, missed, pressed>>

\* A claim, by an attach (retake is false) or by `activate`.
Claims(h) ==
  /\ left.claims > 0 /\ left' = [left EXCEPT !.claims = @ - 1]
  /\ \E retake \in BOOLEAN : Claim(h, retake, FALSE)
  /\ UNCHANGED <<agentVars, thingVars, late, marks>>

-----------------------------------------------------------------------------
(* The worker: runCommands and giveAwayAll, every task in parallel.        *)

Commands(h) == IF work[h] = None THEN {} ELSE DOMAIN work[h].run
Writes(h) == IF work[h] = None THEN {} ELSE DOMAIN work[h].moves

SetResult(h, i, r) == work' = [work EXCEPT ![h].run[i].result = r]

\* hidTakes asks which devices are here, before the take is posted; a presence
\* check that fails reads as absent.
TakesLook(h, i) ==
  LET c == work[h].run[i]
  IN /\ c.here = None
     /\ \E found \in SUBSET {k \in Devices : Here(h, k)} :
          work' = [work EXCEPT ![h].run[i].here = found]
     /\ pressed' = {p \in pressed : p[1] # h \/ ~Here(h, p[2])}
     /\ UNCHANGED <<serverVars, agents, seen, clock, thingVars, left, late,
                    missed, strayed>>

\* screenTakes and hidTakes.
TakesOf(h, c) ==
  [k \in {j \in IF c.cmd.run = "take-screen" THEN Screens ELSE Devices :
            place[j] # NoHost} |->
     [payload |-> h, arrived |-> k \in c.here]]
Request(h, c) == [host |-> h, activation |-> c.cmd.activation, takes |-> TakesOf(h, c)]
Posting(h) == {Request(h, work[h].run[i]) :
                 i \in {j \in Commands(h) : /\ work[h].run[j].here # None
                                           /\ work[h].run[j].result = None}}

\* The coordinator's answer: recorded, all known already, or a 409.
Posted(h, c) ==
  \/ Take(h, c.cmd.activation, TakesOf(h, c))
  \/ /\ \/ h # owner \/ c.cmd.activation # activation
        \/ \A k \in DOMAIN TakesOf(h, c) : SameTake(h, k, TakesOf(h, c)[k])
     /\ UNCHANGED serverVars

\* k has a newer take: what happened under the older ones is over.  The things
\* away strayed from it at once.
Retaken(k) == /\ k \in DOMAIN assignments'
              /\ k \in DOMAIN assignments => assignments'[k] # assignments[k]
MarksAfter(away) ==
  /\ missed' = [k \in Keys |-> missed[k] /\ ~Retaken(k)]
  /\ strayed' = [k \in Keys |-> IF Retaken(k) THEN k \in away ELSE strayed[k]]
  /\ UNCHANGED pressed

\* take, through eachServer.  It fails when no candidate answers: the take was
\* recorded and its answer is lost, or it is late and perhaps never recorded.
TakeEnds(h, i) ==
  LET c == work[h].run[i]
  IN /\ c.here # None /\ c.result = None
     /\ \/ /\ Posted(h, c)
           /\ \/ /\ SetResult(h, i, IF h = owner /\ c.cmd.activation = activation
                                    THEN "ok" ELSE "err")
                 /\ UNCHANGED left
              \/ SetResult(h, i, "err") /\ Fault
           /\ UNCHANGED late
        \/ /\ SetResult(h, i, "err") /\ Fault
           /\ late' = late \cup {Request(h, c)}
           /\ UNCHANGED serverVars
     /\ MarksAfter({k \in c.here : <<h, k>> \in pressed /\ ~Here(h, k)})
     /\ UNCHANGED <<agents, seen, clock, thingVars>>

\* A late take is recorded, when its host may be giving away what it took.
LateTake(r) ==
  /\ late' = late \ {r}
  /\ Take(r.host, r.activation, r.takes)
  /\ MarksAfter(Writes(r.host) \cup
                   {k \in DOMAIN r.takes : r.takes[k].arrived /\ ~Here(r.host, k)})
  /\ UNCHANGED <<agentVars, thingVars, left>>

\* Host g is moving k to h, or will by the last state it heard.
Brings(g, h, k) ==
  LET s == agents[g].latest
  IN \/ /\ k \in Writes(g) /\ work[g].moves[k].of.assignee = h
        /\ work[g].moves[k].result = None
     \/ /\ s # None
        /\ k \in D(g)!PendingKeys(agents[g].handled, s) /\ s.assignments[k].assignee = h

\* k is on its way to h, or another host than its newest assignee brings it.
ComingTo(h, k) ==
  \/ heading[k] = h
  \/ \E g \in Hosts \ {h, assignments[k].assignee} : Brings(g, h, k)

\* The write is for the newest take of k.
ForNewest(h, k) ==
  k \in DOMAIN assignments /\ work[h].moves[k].of.seq = assignments[k].seq

\* A screen is shown elsewhere, a device is on its way.
Moves(k, to) ==
  IF k \in Screens
  THEN place' = [place EXCEPT ![k] = to] /\ UNCHANGED heading
  ELSE heading' = [heading EXCEPT ![k] = to] /\ UNCHANGED place

\* The decider will not write again: nothing was here, a screen has been
\* written, for which there is no receipt, or no retry is left.
LastAttempt(h, k) == /\ agents[h].job # None /\ k \in DOMAIN agents[h].job.assignments
                     /\ agents[h].job.assignments[k].attempts = D(h)!MaxAttempts
Settles(h, k, r) == r = "notHere" \/ (r = "ok" /\ k \in Screens) \/ LastAttempt(h, k)

\* giveAwayAssignment.  A screen obeys the host it shows and ignores the
\* others, whose write succeeds, fails or finds no display; a device that is
\* not linked here is not here.  A write to what is here may fail after it took
\* effect, or have none: it fails, the monitor or the device ignores it, the
\* display is not listed, or a linked device leaves the probe unanswered
\* (slotOnline), which reads as not linked.
MoveEnds(h, k, r) ==
  /\ work[h].moves[k].result = None
  /\ work' = [work EXCEPT ![h].moves[k].result = r]
  /\ \/ /\ Here(h, k) /\ r = "ok"
        /\ Moves(k, work[h].moves[k].of.assignee) /\ UNCHANGED <<left, missed>>
     \/ /\ Here(h, k) /\ r = "err" /\ Fault
        /\ Moves(k, work[h].moves[k].of.assignee) /\ UNCHANGED missed
     \/ /\ \/ Here(h, k) /\ Fault
           \/ ~Here(h, k) /\ (k \in Devices => r # "ok") /\ UNCHANGED left
        /\ missed' = [missed EXCEPT ![k] =
             @ \/ /\ ForNewest(h, k) /\ Settles(h, k, r)
                  /\ Here(h, k) \/ ComingTo(h, k)]
        /\ UNCHANGED thingVars
  /\ UNCHANGED <<serverVars, agents, seen, clock, late, strayed, pressed>>

\* Every task of the issue is over: the worker posts the results, and the
\* loop decides.
Reports(h) ==
  LET w == work[h]
  IN /\ w # None
     /\ \A i \in Commands(h) : w.run[i].result # None
     /\ \A k \in Writes(h) : w.moves[k].result # None
     /\ IF w.run # <<>>
        THEN Decide(h, clock[h], D(h)!HandleRan(agents[h],
                      [i \in DOMAIN w.run |-> w.run[i].result]), None)
        ELSE Decide(h, clock[h], D(h)!HandleGaveAway(agents[h], clock[h],
                      [k \in DOMAIN w.moves |-> w.moves[k].result]), None)
     /\ UNCHANGED <<serverVars, seen, thingVars, left, late, missed, pressed>>

\* A device sent links to the host of its channel.
Lands(k) ==
  /\ heading[k] # NoHost
  /\ place' = [place EXCEPT ![k] = heading[k]]
  /\ heading' = [heading EXCEPT ![k] = NoHost]
  /\ UNCHANGED <<serverVars, agentVars, left, late, marks>>

\* The assignee's arrival watcher reports the device (Arrival).
ArrivalReported(k) ==
  /\ k \in DOMAIN assignments /\ Here(assignments[k].assignee, k)
  /\ seen[assignments[k].assignee] # -1
  /\ Arrived(assignments[k].assignee, [j \in {k} |-> assignments[k].seq])
  /\ UNCHANGED <<agentVars, thingVars, left, late, marks>>

\* The user presses the input button of a monitor, an Easy-Switch key or a
\* host button.
UserMoves(k, h) ==
  /\ place[k] # NoHost /\ h # IF heading[k] = NoHost THEN place[k] ELSE heading[k]
  /\ Fault
  /\ Moves(k, h)
  /\ strayed' = [strayed EXCEPT ![k] = TRUE]
  /\ pressed' = pressed \cup (Hosts \X ({k} \cap Devices))
  /\ UNCHANGED <<serverVars, agentVars, late, missed>>

\* An agent stops, its writes with it but not what it posted, and starts again
\* from agent.json, while it still counts as live or later.
AgentRestarts(h) ==
  /\ Fault
  /\ agents' = [agents EXCEPT ![h] = D(h)!NewDecider(agents[h].handled)]
  /\ seen' = [seen EXCEPT ![h] = -1]
  /\ work' = [work EXCEPT ![h] = None]
  /\ waiters' \in {waiters, [waiters EXCEPT ![h] = 0]}
  /\ \E sent \in SUBSET Posting(h) : late' = late \cup sent
  /\ UNCHANGED <<content, epoch, disk, conn, graceLeft, clock, thingVars, marks>>

-----------------------------------------------------------------------------
SystemInit ==
  /\ Init
  /\ agents = [h \in Hosts |-> D(h)!NewDecider(
       [ownership |-> [owner |-> NoHost, activation |-> 0], seqs |-> D(h)!NoSeqs])]
  /\ seen = [h \in Hosts |-> -1]
  /\ clock = [h \in Hosts |-> 1]
  /\ work = [h \in Hosts |-> None]
  /\ \E c \in Cases :
       /\ place \in {p \in [Keys -> Hosts \cup {NoHost}] :
                      \A k \in Keys : k \in c.things <=> p[k] # NoHost}
       /\ left = [claims |-> c.claims, faults |-> c.faults]
  /\ heading = [k \in Keys |-> NoHost]
  /\ late = {}
  /\ missed = [k \in Keys |-> FALSE] /\ strayed = [k \in Keys |-> FALSE]
  /\ pressed = {}

SystemNext ==
  \/ \E h \in Hosts : StateArrives(h) \/ TimerFires(h) \/ Claims(h)
                      \/ Reports(h) \/ AgentRestarts(h)
  \/ \E h \in Hosts : \E i \in Commands(h) : TakesLook(h, i) \/ TakeEnds(h, i)
  \/ \E h \in Hosts : \E k \in Writes(h), r \in Results :
       MoveEnds(h, k, r)
  \/ \E k \in Devices : Lands(k) \/ ArrivalReported(k)
  \/ \E r \in late : LateTake(r)
  \/ \E k \in Keys, h \in Hosts : UserMoves(k, h)

SystemSpec == SystemInit /\ [][SystemNext]_systemVars

-----------------------------------------------------------------------------
(* Properties.                                                             *)

\* Every host but its assignee has dealt with the newest take of k.
DealtWith(k) ==
  \A h \in Hosts \ {assignments[k].assignee} :
    agents[h].handled.seqs[k] = assignments[k].seq

\* Each thing follows its newest take: once every other host has dealt with
\* it and nothing is on its way, the thing is with the host that took it,
\* whatever older writes were still going on, however often agents stopped,
\* takes were repeated or late and writes failed and were tried again; a user
\* who moved it elsewhere has it back by taking it again.  The exceptions are
\* missed: a host dealt with the take and moved nothing, because its last retry
\* failed, the monitor ignored the write, a linked device did not answer, or
\* the thing was not there yet and another host, which had not heard of the
\* take, brought it under an older one; and strayed: the user moved it by hand
\* since, or its new host gave it away on a state that did not show the take.
FollowsTakes ==
  \A k \in DOMAIN assignments :
    DealtWith(k) /\ heading[k] = NoHost =>
      place[k] = assignments[k].assignee \/ missed[k] \/ strayed[k]

\* A device marked arrived, by its take or by a report, is with the assignee
\* and stays there until a newer take, whatever is sent, lost, late or repeated
\* meanwhile, unless the user moves it by hand (an Easy-Switch key, a host
\* button) or its assignee sends away what it has itself taken (strayed).
ArrivedIsHere ==
  \A k \in DOMAIN assignments :
    assignments[k].arrived => Here(assignments[k].assignee, k) \/ strayed[k]

=============================================================================
