------------------------------- MODULE Arrival -------------------------------
(***************************************************************************)
(* One host's arrival watcher (agent/arrival.go) against the coordinator   *)
(* of Server: from the states the loop offers it, it polls the devices     *)
(* this host took until they are linked here, or the window is over, and   *)
(* posts /arrived over a network that loses requests and answers and may   *)
(* deliver a request after the watcher has given it up.                    *)
(*                                                                         *)
(* Devices are those this host declares; the others are skipped.  What     *)
(* lies between the coordinator and offerLatest (Watch, Agent) keeps the   *)
(* order of the states and is a snapshot waiting in the channel here.      *)
(***************************************************************************)
EXTENDS Server

CONSTANTS
  Me,          \* the host of this agent
  None,        \* nothing
  ArrivalFor,  \* in ticks
  MaxNow       \* bound on the clock

ASSUME ArrivalAssumption == Me \in Hosts /\ ArrivalFor \in Nat /\ MaxNow \in Nat

VARIABLES
  now,
  linked,    \* whether each device is linked to this host
  shown,     \* the epoch offered last, -1 for none since the last connection
  offered,   \* the arrival channel: the assignments of a state, or None
  phase,     \* where the goroutine is
  watching,  \* the devices polled for: [seq, since]
  reported,  \* the seq reported and not yet seen arrived, 0 for none
  report,    \* the arrivals being posted
  stray,     \* a post the watcher gave up that may still reach the server
  \* History:
  seen,      \* <<k, seq>> linked here while seq was this host's assignment
  acked,     \* <<k, seq>> whose post was answered
  first      \* when this watcher first saw each <<k, seq>>

serverVars == vars
watcherVars == <<offered, phase, watching, reported, report>>
history == <<seen, acked, first>>
arrivalVars == <<serverVars, now, linked, shown, watcherVars, stray, history>>

NoReport == [k \in {} |-> 0]

-----------------------------------------------------------------------------
\* Assigned(k): the coordinator has k with this host.
Assigned(k) == k \in DOMAIN assignments /\ assignments[k].assignee = Me

\* What is seen in the state this step leads to.
Observe ==
  /\ seen' = seen \cup {<<k, assignments'[k].seq>> :
                          k \in {d \in DOMAIN assignments' :
                                   assignments'[d].assignee = Me /\ linked'[d]}}
  /\ UNCHANGED <<acked, first>>

\* A state reaches the channel: the loop offers each state the watcher of the
\* server sends it, one per change of the epoch and one per connection.
StateOffered ==
  /\ shown # epoch
  /\ shown' = epoch /\ offered' = assignments
  /\ UNCHANGED <<serverVars, now, linked, phase, watching, reported, report, stray, history>>

Reconnects ==
  /\ shown # -1 /\ shown' = -1
  /\ UNCHANGED <<serverVars, now, linked, watcherVars, stray, history>>

\* Mutant of Current: what was reported is looked for again.
CurrentReported(a) ==
  {k \in DOMAIN a \cap Devices : a[k].assignee = Me /\ ~a[k].arrived}

\* The assignments of the state to poll for.
Current(a) ==
  {k \in DOMAIN a \cap Devices : /\ a[k].assignee = Me /\ ~a[k].arrived
                                 /\ reported[k] # a[k].seq}

\* track: a (key, seq) keeps its window while it stays current; an arrival the
\* state shows needs no more remembering.
Track ==
  /\ phase = "select" /\ offered # None
  /\ LET fresh(k) == ~(k \in DOMAIN watching /\ watching[k].seq = offered[k].seq)
         new == {<<k, offered[k].seq>> : k \in Current(offered)} \ DOMAIN first
     IN /\ watching' = [k \in Current(offered) |->
             IF fresh(k) THEN [seq |-> offered[k].seq, since |-> now] ELSE watching[k]]
        /\ first' = [ks \in DOMAIN first \cup new |-> IF ks \in new THEN now ELSE first[ks]]
  /\ reported' = [k \in Devices |->
       IF k \in DOMAIN offered /\ offered[k].assignee = Me /\ offered[k].arrived
       THEN 0 ELSE reported[k]]
  /\ offered' = None /\ phase' = "polling"
  /\ UNCHANGED <<serverVars, now, linked, shown, report, stray, seen, acked>>

TickerFires ==
  /\ phase = "select"
  /\ phase' = "polling"
  /\ UNCHANGED <<serverVars, now, linked, shown, offered, watching, reported, report,
                 stray, history>>

\* poll, up to the post: HIDPresent fails for the devices of failing.
Poll(failing) ==
  LET alive == {k \in DOMAIN watching : now - watching[k].since <= ArrivalFor}
      here  == {k \in alive \ failing : linked[k]}
  IN /\ phase = "polling"
     /\ watching' = [k \in alive |-> watching[k]]
     /\ report' = [k \in here |-> watching[k].seq]
     /\ phase' = IF here = {} THEN "select" ELSE "posting"
     /\ UNCHANGED <<serverVars, now, linked, shown, offered, reported, stray, history>>

\* The coordinator handles a post, which changes something or nothing.
Handle(arrivals) ==
  \/ Arrived(Me, arrivals)
  \/ Matching(Me, arrivals) = {} /\ UNCHANGED serverVars

PostHandled ==
  /\ phase = "posting"
  /\ Handle(report)
  /\ phase' = "answering"
  /\ UNCHANGED <<now, linked, shown, offered, watching, reported, report, stray>>
  /\ Observe

Acknowledge ==
  /\ reported' = [k \in Devices |-> IF k \in DOMAIN report THEN report[k] ELSE reported[k]]
  /\ watching' = [k \in DOMAIN watching \ DOMAIN report |-> watching[k]]
  /\ report' = NoReport /\ phase' = "select"

AnswerArrives ==
  /\ phase = "answering"
  /\ Acknowledge
  /\ acked' = acked \cup {<<k, report[k]>> : k \in DOMAIN report}
  /\ UNCHANGED <<serverVars, now, linked, shown, offered, stray, seen, first>>

\* Mutant of PostFails: a post that failed counts as made.
PostFailsCounted ==
  /\ phase \in {"posting", "answering"}
  /\ Acknowledge
  /\ UNCHANGED <<serverVars, now, linked, shown, offered, stray, history>>

\* No candidate answered within stateTimeout: the next poll tries again.  The
\* post is lost, or still on its way (one such post at a time, a bound).
PostFails ==
  /\ phase \in {"posting", "answering"}
  /\ report' = NoReport /\ phase' = "select"
  /\ \/ UNCHANGED stray
     \/ phase = "posting" /\ stray' = report
  /\ UNCHANGED <<serverVars, now, linked, shown, offered, watching, reported, history>>

StrayHandled ==
  /\ stray # None
  /\ Handle(stray) /\ stray' = None
  /\ UNCHANGED <<now, linked, shown, watcherVars>>
  /\ Observe

\* The guards cancel the generation; the next one starts with a new watcher
\* (a bound: they flap only while the bounded clock runs).
GuardsFlap ==
  /\ now < MaxNow
  /\ shown' = -1 /\ offered' = None /\ phase' = "select"
  /\ watching' = NoReport /\ reported' = [k \in Devices |-> 0] /\ report' = NoReport
  /\ first' = NoReport
  /\ \/ UNCHANGED stray
     \/ phase = "posting" /\ stray' = report
  /\ UNCHANGED <<serverVars, now, linked, seen, acked>>

-----------------------------------------------------------------------------
\* The rest of the system: claims and takes of any host, the coordinator
\* restarting, devices coming and going, time.
Claimed == \E id \in Hosts, retake \in BOOLEAN : Claim(id, retake, TRUE)
Taken   == \E id \in Hosts, takes \in TakeRequests : Take(id, activation, takes)

\* The bounded epochs leave room for the arrival of every device.
ServerChanges ==
  /\ \/ epoch + Cardinality(Devices) < MaxEpoch /\ (Claimed \/ Taken)
     \/ Restart
  /\ UNCHANGED <<now, linked, shown, watcherVars, stray>>
  /\ Observe

LinkChanges ==
  /\ \E k \in Devices : linked' = [linked EXCEPT ![k] = ~@]
  /\ UNCHANGED <<serverVars, now, shown, watcherVars, stray>>
  /\ Observe

TimePasses ==
  /\ now < MaxNow
  /\ now' = now + 1
  /\ UNCHANGED <<serverVars, linked, shown, watcherVars, stray, history>>

ArrivalInit ==
  /\ Init
  /\ now = 0 /\ linked \in [Devices -> BOOLEAN]
  /\ shown = -1 /\ offered = None /\ phase = "select"
  /\ watching = NoReport /\ reported = [k \in Devices |-> 0] /\ report = NoReport
  /\ stray = None
  /\ seen = {} /\ acked = {} /\ first = NoReport

ArrivalNext ==
  \/ StateOffered \/ Reconnects \/ Track \/ TickerFires
  \/ \E failing \in SUBSET DOMAIN watching : Poll(failing)
  \/ PostHandled \/ AnswerArrives \/ PostFails \/ StrayHandled \/ GuardsFlap
  \/ ServerChanges \/ LinkChanges \/ TimePasses

\* The states keep coming (Watch); select picks a ready channel at random; a
\* presence check or a post tried again and again succeeds in the end; a post
\* has a timeout.
ArrivalFairness ==
  /\ WF_arrivalVars(StateOffered) /\ SF_arrivalVars(Track) /\ WF_arrivalVars(TickerFires)
  /\ SF_arrivalVars(Poll({})) /\ SF_arrivalVars(PostHandled)
  /\ WF_arrivalVars(AnswerArrives \/ PostFails) /\ WF_arrivalVars(TimePasses)

ArrivalSpec == ArrivalInit /\ [][ArrivalNext]_arrivalVars
FairArrivalSpec == ArrivalSpec /\ ArrivalFairness

-----------------------------------------------------------------------------
(* Properties.                                                             *)

ArrivalTypeOK ==
  /\ TypeOK
  /\ phase \in {"select", "polling", "posting", "answering"}
  /\ DOMAIN watching \subseteq Devices
  /\ \A k \in DOMAIN watching : watching[k].seq \in Nat \ {0} /\ watching[k].since \in 0..now
  /\ reported \in [Devices -> Nat]
  /\ (phase \in {"posting", "answering"}) = (DOMAIN report # {})

\* An arrival is real: an assignment of this host marked arrived is one during
\* which the device was linked here, however late or often its report came,
\* and whatever was taken in between; takes that find the device here say so
\* themselves.
ArrivalIsReal ==
  [][\A k \in Devices :
       /\ k \in DOMAIN assignments /\ Assigned(k) /\ ~assignments[k].arrived
       /\ k \in DOMAIN assignments' /\ assignments'[k].seq = assignments[k].seq
       /\ assignments'[k].arrived
       => <<k, assignments[k].seq>> \in seen]_arrivalVars

\* A report answered is not made again: the watcher does not poll for a
\* recording whose arrival the server has confirmed, though older states that
\* do not show it may still come.
ReportedOnce == \A k \in DOMAIN watching : <<k, watching[k].seq>> \notin acked

\* The watcher has known the current assignment of k for longer than the
\* window.
WindowOver(k) ==
  LET ks == <<k, assignments[k].seq>>
  IN ks \in DOMAIN first /\ now - first[ks] > ArrivalFor

\* A device that stays here while it is assigned here is marked arrived,
\* through failed polls, lost posts, guard flaps and restarts of the
\* coordinator, unless the window ends first.
ArrivalReported ==
  \A k \in Devices :
    <>[](Assigned(k) /\ linked[k])
      => <>[](Assigned(k) /\ (assignments[k].arrived \/ WindowOver(k)))
=============================================================================
