------------------------------ MODULE Detector ------------------------------
(***************************************************************************)
(* The attach detector of one agent (detect/detect_hid.go and Detector.Run *)
(* of detect/detect_hidpp.go) and the loop that runs it again when it      *)
(* fails (detectorLoop of agent/agent.go).  Its sources share an errgroup: *)
(* the HID detector, which counts the interfaces of every target, and one  *)
(* watchReceiver per receiver, whose own protocol is in Receiver.          *)
(*                                                                         *)
(* The HID library is external: it tells the interfaces there are when the *)
(* watch starts, may repeat any of them as an event, and then reports every *)
(* change in order.  A connected event carries its VID:PID; a disconnected *)
(* one may have lost it.                                                   *)
(***************************************************************************)
EXTENDS Integers, Sequences, FiniteSets

CONSTANTS
  Things,      \* the VID:PIDs that come and go
  Targets,     \* those with a --trigger entry without a slot
  Interfaces,  \* how many HID interfaces each has
  Receivers,   \* the receivers of the --trigger entries with a slot
  Unknown,     \* the VID:PID an event has lost
  MaxChanges   \* bound: interfaces that appear or go

ASSUME DetectorAssumption ==
  /\ Targets \subseteq Things /\ Unknown \notin Things
  /\ Interfaces \in Nat \ {0} /\ MaxChanges \in Nat

VARIABLES
  nodes,     \* the interface paths there are
  changes,
  phase,     \* detectorLoop: "down" (guards), "backoff", "running" or returned: "gone"
  source,    \* each goroutine of Run: "opening", "running" or "over"
  err,       \* the first error of the group, which cancels it
  queue,     \* HID events not read yet
  presence,  \* the paths tracked and the interfaces counted per target
  attach,    \* the attach channel, capacity 1
  \* History:
  due,       \* absent->present transitions of each target since the watch opened, less its edges
  unheard    \* targets attached since the loop last took an edge, less those nobody watched leave

vars == <<nodes, changes, phase, source, err, queue, presence, attach, due, unheard>>

Paths == Things \X (1..Interfaces)     \* an interface belongs to one thing
Sources == {"hid"} \cup Receivers
NoPresence == [paths |-> {}, count |-> [t \in Targets |-> 0]]
Idle == [s \in Sources |-> "over"]
PathsOf(t, set) == {p \in set : p[1] = t}
Present(t) == PathsOf(t, nodes) # {}
Event(type, path, of) == [type |-> type, path |-> path, of |-> of]

-----------------------------------------------------------------------------
(* presence.                                                               *)

\* Mutant of Add: one count for all targets.
AddGlobal(p) ==
  IF p \in presence.paths THEN [presence |-> presence, edge |-> FALSE]
  ELSE [presence |-> [paths |-> presence.paths \cup {p},
                      count |-> [presence.count EXCEPT ![p[1]] = @ + 1]],
        edge |-> presence.paths = {}]

\* Mutant of Add: every interface is an edge.
AddEvery(p) ==
  IF p \in presence.paths THEN [presence |-> presence, edge |-> FALSE]
  ELSE [presence |-> [paths |-> presence.paths \cup {p},
                      count |-> [presence.count EXCEPT ![p[1]] = @ + 1]],
        edge |-> TRUE]

\* add: the first interface of its target is the absent->present edge.
Add(p) ==
  IF p \in presence.paths THEN [presence |-> presence, edge |-> FALSE]
  ELSE [presence |-> [paths |-> presence.paths \cup {p},
                      count |-> [presence.count EXCEPT ![p[1]] = @ + 1]],
        edge |-> presence.count[p[1]] = 0]

\* remove, by path alone; a path never tracked is ignored.
Remove(ev) ==
  IF ev.path \notin presence.paths THEN presence
  ELSE [paths |-> presence.paths \ {ev.path},
        count |-> [presence.count EXCEPT ![ev.path[1]] = @ - 1]]

-----------------------------------------------------------------------------
(* HIDDetector.Run.                                                        *)

\* hid.Watch succeeds.  Targets attached already count as one edge together.
Opens ==
  /\ source["hid"] = "opening"
  /\ source' = [source EXCEPT !["hid"] = "running"]
  /\ LET there == {p \in nodes : p[1] \in Targets}
     IN /\ presence' = [paths |-> there,
                        count |-> [t \in Targets |-> Cardinality(PathsOf(t, there))]]
        /\ attach' = (attach \/ there # {})
  /\ \/ queue' = <<>>
     \/ \E p \in nodes : queue' = <<Event("connected", p, p[1])>>
  /\ due' = [t \in Targets |-> 0]
  /\ unheard' = {t \in unheard : Present(t)}
  /\ UNCHANGED <<nodes, changes, phase, err>>

\* A source returns: of the HID detector nothing is left.
Returns(s) ==
  /\ source' = [source EXCEPT ![s] = "over"]
  /\ IF s = "hid"
     THEN queue' = <<>> /\ presence' = NoPresence /\ due' = [t \in Targets |-> 0]
     ELSE UNCHANGED <<queue, presence, due>>

\* The first error of the group cancels it.
Fails(s, e) == Returns(s) /\ err' = IF err = "none" THEN e ELSE err

OpenFails ==
  /\ source["hid"] = "opening"
  /\ Fails("hid", "error")
  /\ UNCHANGED <<nodes, changes, phase, attach, unheard>>

\* One event of the library.  A connected event of no target is ignored.
HidEvent ==
  /\ source["hid"] = "running" /\ queue # <<>>
  /\ queue' = Tail(queue)
  /\ LET ev == Head(queue)
         added == Add(ev.path)
     IN IF ev.type = "disconnected"
        THEN presence' = Remove(ev) /\ UNCHANGED <<attach, due>>
        ELSE IF ev.of \notin Targets THEN UNCHANGED <<presence, attach, due>>
        ELSE /\ presence' = added.presence
             /\ attach' = (attach \/ added.edge)
             /\ due' = IF added.edge THEN [due EXCEPT ![ev.of] = @ - 1] ELSE due
  /\ UNCHANGED <<nodes, changes, phase, source, err, unheard>>

\* The watch closes unexpectedly, with what it had still to tell.
HidFails ==
  /\ source["hid"] = "running"
  /\ Fails("hid", "error")
  /\ UNCHANGED <<nodes, changes, phase, attach, unheard>>

-----------------------------------------------------------------------------
(* watchReceiver, Detector.Run and detectorLoop.                           *)

\* A watched slot holds the link at startup, or takes it.
ReceiverEdge(r) ==
  /\ source[r] = "running"
  /\ attach' = TRUE
  /\ UNCHANGED <<nodes, changes, phase, source, err, queue, presence, due, unheard>>

\* The receiver is gone, or did not answer a request before its deadline.
ReceiverFails(r) ==
  /\ source[r] = "running"
  /\ \E e \in {"error", "deadline"} : Fails(r, e)
  /\ UNCHANGED <<nodes, changes, phase, attach, unheard>>

\* The loop of detectorLoop calls Run, which starts every source.
RunStarts ==
  /\ phase = "backoff" /\ phase' = "running"
  /\ source' = [s \in Sources |-> IF s = "hid" THEN "opening" ELSE "running"]
  /\ err' = "none"
  /\ UNCHANGED <<nodes, changes, queue, presence, attach, due, unheard>>

\* A source sees that the group's context ended, and what it had not read of
\* the queue is lost.  One that opens does not look.
Cancelled(s) ==
  /\ err # "none" /\ source[s] = "running"
  /\ Returns(s)
  /\ UNCHANGED <<nodes, changes, phase, err, attach, unheard>>

\* Run returns the first error once all sources have returned; one that is a
\* deadline's, of whatever request, ends detectorLoop.
RunReturns ==
  /\ phase = "running" /\ source = Idle
  /\ phase' = IF err = "deadline" THEN "gone" ELSE "backoff"
  /\ UNCHANGED <<nodes, changes, source, err, queue, presence, attach, due, unheard>>

\* The loop takes the edge.
LoopReceives ==
  /\ attach /\ attach' = FALSE
  /\ unheard' = {}
  /\ UNCHANGED <<nodes, changes, phase, source, err, queue, presence, due>>

\* The generation ends, with its channels, and another begins.
GuardsDown ==
  /\ phase # "down" /\ phase' = "down"
  /\ source' = Idle /\ err' = "none" /\ queue' = <<>> /\ attach' = FALSE
  /\ presence' = NoPresence /\ due' = [t \in Targets |-> 0]
  /\ UNCHANGED <<nodes, changes, unheard>>

GuardsUp ==
  /\ phase = "down" /\ phase' = "backoff"
  /\ UNCHANGED <<nodes, changes, source, err, queue, presence, attach, due, unheard>>

-----------------------------------------------------------------------------
(* The devices.                                                            *)

Tells(ev) == queue' = IF source["hid"] = "running" THEN Append(queue, ev) ELSE queue

Appears(p) ==
  /\ p \notin nodes /\ changes < MaxChanges
  /\ nodes' = nodes \cup {p} /\ changes' = changes + 1
  /\ Tells(Event("connected", p, p[1]))
  /\ IF p[1] \in Targets /\ ~Present(p[1])
     THEN /\ due' = IF source["hid"] = "running" THEN [due EXCEPT ![p[1]] = @ + 1] ELSE due
          /\ unheard' = unheard \cup {p[1]}
     ELSE UNCHANGED <<due, unheard>>
  /\ UNCHANGED <<phase, source, err, presence, attach>>

Goes(p) ==
  /\ p \in nodes /\ changes < MaxChanges
  /\ nodes' = nodes \ {p} /\ changes' = changes + 1
  /\ \E of \in {p[1], Unknown} : Tells(Event("disconnected", p, of))
  /\ UNCHANGED <<phase, source, err, presence, attach, due, unheard>>

-----------------------------------------------------------------------------
Init ==
  /\ nodes \in {UNION {PathsOf(t, Paths) : t \in there} : there \in SUBSET Things}
  /\ changes = 0
  /\ phase = "down" /\ source = Idle /\ err = "none"
  /\ queue = <<>> /\ presence = NoPresence /\ attach = FALSE
  /\ due = [t \in Targets |-> 0] /\ unheard = {t \in Targets : Present(t)}

Next ==
  \/ GuardsUp \/ GuardsDown \/ RunStarts \/ RunReturns \/ LoopReceives
  \/ Opens \/ OpenFails \/ HidEvent \/ HidFails
  \/ \E r \in Receivers : ReceiverEdge(r) \/ ReceiverFails(r)
  \/ \E s \in Sources : Cancelled(s)
  \/ \E p \in Paths : Appears(p) \/ Goes(p)

\* Goroutines go on, a backoff ends, and hid.Watch succeeds in the end when it
\* is tried again and again.
Fairness ==
  /\ WF_vars(RunStarts) /\ WF_vars(RunReturns) /\ WF_vars(LoopReceives)
  /\ WF_vars(HidEvent) /\ SF_vars(Opens)
  /\ \A s \in Sources : WF_vars(Cancelled(s))

Spec == Init /\ [][Next]_vars /\ Fairness

-----------------------------------------------------------------------------
(* Properties.                                                             *)

\* An attach is one edge, however many interfaces it brings, in whatever order
\* they come and go, and whatever the library repeats.
OneEdgePerAttach == \A t \in Targets : due[t] >= 0

\* An attach is heard: the loop takes an edge, though sources fail and Run is
\* tried again, unless the guards end the generation, the target leaves while
\* nobody watches, or a deadline has ended detectorLoop.
AttachIsHeard ==
  \A t \in Targets :
    t \in unheard ~> (t \notin unheard \/ phase \in {"down", "gone"})

=============================================================================
