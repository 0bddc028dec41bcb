------------------------------ MODULE Receiver ------------------------------
(***************************************************************************)
(* What one agent does with one HID++ interface (hidpp/hidpp.go): a Logi   *)
(* receiver with its pairing slots, or a device attached on its own.       *)
(* Three goroutines use it, each through a connection of its own: the      *)
(* worker giving a device away (giveDevice, Target.Send), a presence check *)
(* of the arrival poll or take-hid (Target.Present), and the trigger       *)
(* detector (detect/detect_hidpp.go), which taps the receiver's link       *)
(* notifications.  Every open connection reads every report of the         *)
(* interface, so a connection sees the replies to the others' requests.    *)
(*                                                                         *)
(* Requests and reports are records, and a device keeps feature f at index *)
(* f.  The candidate nodes of one VID:PID are one node here, and reframing a   *)
(* short report as a long one (send) is a write that succeeds.             *)
(***************************************************************************)
EXTENDS Integers, Sequences, FiniteSets

CONSTANTS
  Slots,     \* the occupied pairing slots of the receiver
  Watched,   \* the slots of the --trigger entries, a sequence in their order
  Kinds,     \* what the interface may be: "receiver", "device"
  Attempts,  \* probeAttempts
  MaxOpen,   \* bound: calls in progress at once
  MaxAsked,  \* bound: requests on their way at once, those over it are lost
  MaxInbox   \* bound: reports a connection holds, those over it are lost

ASSUME ReceiverAssumption ==
  /\ Slots \subseteq 1..6
  /\ Watched \in Seq(Slots)
  /\ Kinds \subseteq {"receiver", "device"}
  /\ {Attempts, MaxAsked, MaxInbox} \subseteq Nat \ {0}
  /\ MaxOpen \in Nat

VARIABLES
  kind,       \* what the interface is
  plugged,    \* its node exists
  link,       \* whether each slot holds the radio link
  asked,      \* requests on their way, which may be answered in any order
  conn,       \* the call of each goroutine and where it is in it
  attach,     \* the attach channel, capacity 1
  \* History, while the detector runs:
  due,        \* how often each slot took the link, or held it when Run began, less its edges
  owed        \* a watched slot took the link before the tap's eyes

env == <<kind, plugged, link, asked>>
vars == <<env, conn, attach, due, owed>>

Callers == {"worker", "poll", "tap"}
Direct == 0                       \* DeviceIndexDirect
Indexes == Slots \cup {Direct}
Root == 0                         \* features, and where a device keeps them
FeatureSet == 1
ChangeHost == 2
Refused == -1                     \* the value of an error reply

\* Where a call is.  The detector is "over" when detectorLoop has returned
\* although its generation goes on.
Places == {"idle", "returned", "over", "opening", "handshake", "register", "online", "feature", "sethost", "tap"}

\* A call: what it is for, where it is, the device index, the attempt, the
\* changeHost index found, whether its request was written; the reports not
\* read and whether the node is gone; what it returned.  For the properties
\* only: the target was linked at some time during the call ("was"); it was
\* not, or left a probe unanswered, or the call was cancelled ("excused").
Closed == [goal |-> "none", at |-> "idle", target |-> Direct, tries |-> 1,
           feat |-> Root, sent |-> FALSE, inbox |-> <<>>, cut |-> FALSE,
           result |-> "none", was |-> FALSE, excused |-> FALSE]

NothingDue == [s \in Slots |-> 0]
Triggers == {Watched[n] : n \in DOMAIN Watched}
Linked(i) == IF i = Direct THEN plugged ELSE link[i]
Idle(p) == conn[p].at \in {"idle", "returned", "over"}
Calling(p) == ~Idle(p)
Reading == {p \in Callers : Calling(p) /\ conn[p].at # "opening" /\ ~conn[p].cut}

-----------------------------------------------------------------------------
\* The request of p at this point: what it asks, and of which device index.
Question(p) ==
  LET i == conn[p].target
  IN CASE conn[p].at = "handshake" -> [to |-> Direct, feat |-> Root, fn |-> "getFeature", arg |-> FeatureSet]
       [] conn[p].at = "register"  -> [to |-> Direct, feat |-> Root, fn |-> "readRegister", arg |-> Root]
       [] conn[p].at = "online"    -> [to |-> i, feat |-> Root, fn |-> "getFeature", arg |-> Root]
       [] conn[p].at = "feature"   -> [to |-> i, feat |-> Root, fn |-> "getFeature", arg |-> ChangeHost]
       [] conn[p].at = "sethost"   -> [to |-> i, feat |-> conn[p].feat, fn |-> "setHost", arg |-> Root]

Asking(p) == conn[p].at \in {"handshake", "register", "online", "feature", "sethost"}

Report(q, value) ==
  [from |-> q.to, feat |-> q.feat, fn |-> q.fn, value |-> value]
LinkChange(s, up) ==
  [from |-> s, feat |-> Root, fn |-> "link", value |-> IF up THEN 1 ELSE 0]

\* Mutant of Matches: the device index is not compared.
MatchesAnyIndex(p, r) ==
  LET q == Question(p) IN r.feat = q.feat /\ r.fn = q.fn

\* matchReply, matchRegisterReply: by device index, feature index and function.
Matches(p, r) ==
  LET q == Question(p) IN r.from = q.to /\ r.feat = q.feat /\ r.fn = q.fn

\* What a queue of n places keeps of s.
Within(s, n) == SubSeq(s, 1, IF Len(s) < n THEN Len(s) ELSE n)

\* What becomes of the calls when a device index is linked (up), is no longer,
\* or stays as it is, and replies, then link changes, reach every connection that
\* has room.  Link changes only mean something to the tap, which reads nothing
\* else once it taps: what would be discarded is left out.
Hears(p, replies, changes) ==
  LET heard == (IF conn[p].at = "tap" THEN <<>> ELSE replies)
               \o (IF p = "tap" THEN changes ELSE <<>>)
  IN IF p \in Reading THEN Within(conn[p].inbox \o heard, MaxInbox) ELSE conn[p].inbox

Happens(replies, changes, ups, downs) ==
  [p \in Callers |-> [conn[p] EXCEPT
     !.inbox = Hears(p, replies, changes),
     !.was = @ \/ (p # "tap" /\ Calling(p) /\ conn[p].target \in ups),
     !.excused = @ \/ (p = "worker" /\ Calling(p) /\ conn[p].target \in downs)]]

-----------------------------------------------------------------------------
\* The steps of a call: goroutine p, whose call has become c, goes on or ends.

Goto(p, c, place) ==
  /\ conn' = [conn EXCEPT ![p] = [c EXCEPT !.at = place, !.tries = 1, !.sent = FALSE]]
  /\ UNCHANGED <<attach, due, owed>>

\* The call returns r.  Of the detector Run fails, and detectorLoop runs it
\* again, except after an error that is a deadline's: it returns.
Return(p, c, r) ==
  /\ conn' = [conn EXCEPT ![p] =
       IF p = "tap" THEN [Closed EXCEPT !.at = IF r = "silent" THEN "over" ELSE "idle"]
       ELSE [Closed EXCEPT !.at = "returned", !.result = IF r = "silent" THEN "failed" ELSE r,
                           !.was = c.was /\ r \in {"sent", "linked"},
                           !.excused = c.excused /\ r = "nothing"]]
  /\ due' = IF p = "tap" THEN NothingDue ELSE due
  /\ owed' = (owed /\ p # "tap")
  /\ UNCHANGED attach

\* emitAttach: an edge already queued makes this one redundant.
EmitAttach(s) == attach' = TRUE /\ due' = [due EXCEPT ![s] = @ - 1]

\* A call starts, and what the calls before it returned is forgotten.
CallStarts(p, goal, target) ==
  /\ Idle(p) /\ Cardinality({q \in Callers : Calling(q)}) < MaxOpen
  /\ conn' = [q \in Callers |->
       IF q = p THEN [Closed EXCEPT !.goal = goal, !.at = "opening", !.target = target,
                                    !.was = p # "tap" /\ Linked(target),
                                    !.excused = p = "worker" /\ ~Linked(target)]
       ELSE IF conn[q].at = "returned" THEN Closed ELSE conn[q]]
  /\ UNCHANGED <<env, attach, owed>>

\* giveDevice calls Send for a declared device of this interface.
WorkerSends ==
  /\ \E i \in IF kind = "receiver" THEN Slots ELSE {Direct} : CallStarts("worker", "send", i)
  /\ UNCHANGED due

\* The arrival poll or take-hid calls Present for a slot; for a bare VID:PID
\* that opens nothing.
PollChecks ==
  /\ kind = "receiver"
  /\ \E s \in Slots : CallStarts("poll", "present", s)
  /\ UNCHANGED due

\* detectorLoop runs watchReceiver, which probes the watched slots in turn.
DetectorRuns ==
  /\ kind = "receiver" /\ Watched # <<>> /\ conn["tap"].at # "over"
  /\ CallStarts("tap", "startup", Watched[1])
  /\ due' = [s \in Slots |-> IF link[s] THEN 1 ELSE 0]

\* openInterface finds a node it can open.
Opens(p) ==
  /\ conn[p].at = "opening" /\ plugged
  /\ Goto(p, conn[p], "handshake") /\ UNCHANGED env

\* No node (ErrNoInterface): nothing to move, not present, or no receiver to
\* watch, for which Run fails.
NotThere(p) ==
  /\ conn[p].at = "opening" /\ ~plugged
  /\ Return(p, conn[p], IF conn[p].goal = "send" THEN "nothing" ELSE "unlinked")
  /\ UNCHANGED env

\* The node cannot be opened (permissions).
OpenFails(p) ==
  /\ conn[p].at = "opening" /\ plugged
  /\ Return(p, conn[p], "failed") /\ UNCHANGED env

\* send
Writes(p) ==
  /\ Asking(p) /\ ~conn[p].sent /\ ~conn[p].cut
  /\ asked' = IF Cardinality(asked) < MaxAsked THEN asked \cup {Question(p)} ELSE asked
  /\ conn' = [conn EXCEPT ![p].sent = TRUE]
  /\ UNCHANGED <<kind, plugged, link, attach, due, owed>>

\* watchReceiver after the probe of a slot: one that holds the link counts as
\* one attach edge and ends the probing; then the tap.
StartupProbed(p, on) ==
  LET later == {n \in DOMAIN Watched : \A m \in DOMAIN Watched :
                                         Watched[m] = conn[p].target => m < n}
      next  == CHOOSE n \in later : \A m \in later : n <= m
      taps  == on \/ later = {}
  IN /\ conn' = [conn EXCEPT ![p] =
          [Closed EXCEPT !.goal = IF taps THEN "watch" ELSE "startup", !.at = "opening",
                         !.target = IF taps THEN Direct ELSE Watched[next]]]
     /\ IF on THEN EmitAttach(conn[p].target) ELSE UNCHANGED <<attach, due>>
     /\ UNCHANGED owed

\* slotOnline told whether the slot holds the link: moveTo goes on or returns,
\* Present returns, watchReceiver goes on.
SlotIs(p, c, on) ==
  \/ c.goal = "send" /\ on /\ Goto(p, c, "feature")
  \/ c.goal = "send" /\ ~on /\ Return(p, c, "nothing")
  \/ c.goal = "present" /\ Return(p, c, IF on THEN "linked" ELSE "unlinked")
  \/ c.goal = "startup" /\ StartupProbed(p, on)

\* An exchange that ended without an answer and is not tried again.
GivesUp(p, c) ==
  \/ c.at = "online" /\ SlotIs(p, c, FALSE)
  \/ c.at \in {"handshake", "register", "feature"} /\ Return(p, c, "failed")

\* The write fails, the node being gone; of setHost too, that is a failure.
WriteFails(p) ==
  /\ Asking(p) /\ ~conn[p].sent /\ conn[p].cut
  /\ GivesUp(p, conn[p]) \/ (conn[p].at = "sethost" /\ Return(p, conn[p], "failed"))
  /\ UNCHANGED env

\* exchange discards a report that does not match.
Discards(p) ==
  /\ Asking(p) /\ conn[p].sent /\ conn[p].inbox # <<>> /\ ~Matches(p, Head(conn[p].inbox))
  /\ conn' = [conn EXCEPT ![p].inbox = Tail(@)]
  /\ UNCHANGED <<env, attach, due, owed>>

\* A matching report.  Any answers the handshake; an error reply is no link,
\* no feature, or a refusal to move.  The reports behind it are the next
\* request's to read.
Answered(p) ==
  /\ Asking(p) /\ conn[p].sent /\ conn[p].inbox # <<>> /\ Matches(p, Head(conn[p].inbox))
  /\ LET value == Head(conn[p].inbox).value
         c == [conn[p] EXCEPT !.inbox = Tail(@)]
     IN \/ /\ c.at \in {"handshake", "register"}
           /\ Goto(p, c, CASE c.goal = "watch" -> "tap"
                           [] c.goal # "watch" /\ c.target = Direct -> "feature"
                           [] OTHER -> "online")
        \/ c.at = "online" /\ SlotIs(p, c, value # Refused)
        \/ c.at = "feature" /\ value \in {Refused, Root} /\ Return(p, c, "failed")
        \/ /\ c.at = "feature" /\ value \notin {Refused, Root}
           /\ Goto(p, [c EXCEPT !.feat = value], "sethost")
        \/ c.at = "sethost" /\ Return(p, c, IF value = Refused THEN "failed" ELSE "sent")
  /\ UNCHANGED env

\* Mutant of Nudges: the attempts are not counted.
NudgesUncounted(p) ==
  /\ conn[p].sent /\ conn[p].at \in {"handshake", "online", "feature"}
  /\ conn[p].tries < Attempts
  /\ conn' = [conn EXCEPT ![p].sent = FALSE, ![p].excused = @ \/ (p = "worker" /\ conn[p].at = "online")]
  /\ UNCHANGED <<env, attach, due, owed>>

\* The time of one request is over: nudge again while attempts are left.
Nudges(p) ==
  /\ conn[p].sent /\ conn[p].at \in {"handshake", "online", "feature"}
  /\ conn[p].tries < Attempts
  /\ conn' = [conn EXCEPT ![p].tries = @ + 1, ![p].sent = FALSE,
                          ![p].excused = @ \/ (p = "worker" /\ conn[p].at = "online")]
  /\ UNCHANGED <<env, attach, due, owed>>

\* ... and then the register is read, or the exchange is given up; no reply to
\* setHost is a device that left.
Silent(p) ==
  /\ Asking(p) /\ conn[p].sent
  /\ conn[p].at \in {"handshake", "online", "feature"} => conn[p].tries = Attempts
  /\ LET c == [conn[p] EXCEPT !.excused = @ \/ (p = "worker" /\ conn[p].at = "online")]
     IN \/ c.at = "handshake" /\ Goto(p, c, "register")
        \/ c.at = "register" /\ Return(p, c, "silent")
        \/ c.at \in {"online", "feature"} /\ GivesUp(p, c)
        \/ c.at = "sethost" /\ Return(p, c, "sent")
  /\ UNCHANGED env

\* A read fails because the node is gone, which for setHost is a success.
LinkDrops(p) ==
  /\ Asking(p) /\ conn[p].sent /\ conn[p].inbox = <<>> /\ conn[p].cut
  /\ GivesUp(p, conn[p]) \/ (conn[p].at = "sethost" /\ Return(p, conn[p], "sent"))
  /\ UNCHANGED env

\* What a call returns when its context ends: a probe cut short is "not linked".
CutShort(c) ==
  CASE c.at # "online" -> "failed"
    [] c.at = "online" /\ c.goal = "send" -> "nothing"
    [] OTHER -> "unlinked"

\* Mutant of DeadlineEnds: the worker takes what Send returned.
DeadlineEndsUnchecked(p) ==
  /\ p # "tap" /\ Calling(p)
  /\ Return(p, conn[p], CutShort(conn[p]))
  /\ UNCHANGED env

\* --switch-timeout ends; for the worker, bounded returns that whatever Send
\* returned.
DeadlineEnds(p) ==
  /\ p # "tap" /\ Calling(p)
  /\ Return(p, conn[p], IF p = "worker" THEN "failed" ELSE CutShort(conn[p]))
  /\ UNCHANGED env

\* The context of a call ends: the agent stops, or the generation is torn down.
Cancelled(p) ==
  /\ p # "tap" /\ Calling(p)
  /\ Return(p, [conn[p] EXCEPT !.excused = TRUE], CutShort(conn[p]))
  /\ UNCHANGED env

\* The generation is torn down with its detector and its channels.
GenerationEnds ==
  /\ conn["tap"] # Closed \/ attach
  /\ conn' = [conn EXCEPT !["tap"] = Closed]
  /\ attach' = FALSE /\ due' = NothingDue /\ owed' = FALSE
  /\ UNCHANGED env

-----------------------------------------------------------------------------
\* Mutant of IsEdge: a drop is acted on too.
IsEdgeOrDrop(r) == r.fn = "link" /\ r.from \in Triggers

\* Mutant of IsEdge: only the first slot of the receiver is watched for.
IsEdgeOfFirst(r) == r.fn = "link" /\ r.value = 1 /\ r.from = Watched[1]

\* WatchLinks and the goroutine it hands events to: only a watched slot taking
\* the link is an edge.
IsEdge(r) == r.fn = "link" /\ r.value = 1 /\ r.from \in Triggers

TapReads ==
  /\ conn["tap"].at = "tap" /\ conn["tap"].inbox # <<>>
  /\ conn' = [conn EXCEPT !["tap"].inbox = Tail(@)]
  /\ LET r == Head(conn["tap"].inbox)
     IN IF IsEdge(r) THEN EmitAttach(r.from) /\ owed' = FALSE
                     ELSE UNCHANGED <<attach, due, owed>>
  /\ UNCHANGED env

\* The node is gone.
TapFails ==
  /\ conn["tap"].at = "tap" /\ conn["tap"].inbox = <<>> /\ conn["tap"].cut
  /\ Return("tap", conn["tap"], "failed") /\ UNCHANGED env

\* The loop takes the edge.
LoopTakesAttach ==
  /\ attach /\ attach' = FALSE
  /\ UNCHANGED <<env, conn, due, owed>>

-----------------------------------------------------------------------------
\* The hardware and its user.

\* A device switches to this host, and the receiver says so.
LinkUp(s) ==
  /\ kind = "receiver" /\ plugged /\ ~link[s]
  /\ Len(conn["tap"].inbox) < MaxInbox
  /\ link' = [link EXCEPT ![s] = TRUE]
  /\ conn' = Happens(<<>>, <<LinkChange(s, TRUE)>>, {s}, {})
  /\ due' = IF Idle("tap") \/ due[s] > MaxInbox THEN due ELSE [due EXCEPT ![s] = @ + 1]
  /\ owed' = (owed \/ (s \in Triggers /\ conn["tap"].at = "tap" /\ ~conn["tap"].cut))
  /\ UNCHANGED <<kind, plugged, asked, attach>>

\* The user switches a device away, or it goes to sleep.
LinkDown(s) ==
  /\ link[s] /\ link' = [link EXCEPT ![s] = FALSE]
  /\ conn' = Happens(<<>>, <<LinkChange(s, FALSE)>>, {}, {s})
  /\ UNCHANGED <<kind, plugged, asked, attach, due, owed>>

\* The node goes away with everything behind it, after the replies given.
Gone(replies) ==
  /\ plugged' = FALSE
  /\ link' = [s \in Slots |-> FALSE]
  /\ asked' = {}
  /\ LET last == Happens(replies, <<>>, {}, Indexes)
     IN conn' = [p \in Callers |-> [last[p] EXCEPT !.cut = @ \/ p \in Reading]]
  /\ UNCHANGED <<kind, attach, due, owed>>

Unplug == plugged /\ Gone(<<>>)

Plug ==
  /\ ~plugged /\ plugged' = TRUE
  /\ conn' = Happens(<<>>, <<>>, {Direct}, {})
  /\ UNCHANGED <<kind, link, asked, attach, due, owed>>

\* Another connection opens the interface or probes a slot: a call over
\* MaxOpen, or `soft-kvm detect`.  Its replies can be taken for those of a call
\* here that asks by the same header.
OtherAsks ==
  /\ plugged /\ Cardinality(asked) < MaxAsked
  /\ \E i \in Indexes : LET f == IF i = Direct THEN FeatureSet ELSE Root IN
       asked' = asked \cup {[to |-> i, feat |-> Root, fn |-> "getFeature", arg |-> f]}
  /\ UNCHANGED <<kind, plugged, link, conn, attach, due, owed>>

\* What a device answers.  A receiver answers for 0xFF and for an unlinked slot
\* with an error reply, and its registers itself.
Value(q) ==
  IF ~Linked(q.to) THEN Refused
  ELSE CASE q.fn = "readRegister" -> 1
         [] q.fn = "setHost"      -> 0
         [] q.fn = "getFeature"   -> IF q.to = Direct /\ kind = "receiver" THEN Refused ELSE q.arg

AsksToMove(q) == Linked(q.to) /\ q.fn = "setHost" /\ q.feat = ChangeHost

\* A device answers a request, ...
Answers(q) ==
  /\ ~AsksToMove(q) /\ (q.fn = "readRegister" => kind = "receiver")
  /\ asked' = asked \ {q}
  /\ conn' = Happens(<<Report(q, Value(q))>>, <<>>, {}, {})
  /\ UNCHANGED <<kind, plugged, link, attach, due, owed>>

\* ... refuses to move, ...
RefusesToMove(q) ==
  /\ AsksToMove(q)
  /\ asked' = asked \ {q}
  /\ conn' = Happens(<<Report(q, Refused)>>, <<>>, {}, {})
  /\ UNCHANGED <<kind, plugged, link, attach, due, owed>>

\* ... moves, with or without an ACK, ...
Moves(q) ==
  /\ AsksToMove(q)
  /\ \E ack \in {<<>>, <<Report(q, 0)>>} :
       \/ q.to = Direct /\ Gone(ack)
       \/ /\ q.to # Direct
          /\ link' = [link EXCEPT ![q.to] = FALSE]
          /\ asked' = asked \ {q}
          /\ conn' = Happens(ack, <<LinkChange(q.to, FALSE)>>, {}, {q.to})
          /\ UNCHANGED <<kind, plugged, attach, due, owed>>

\* ... or, dozing, takes no notice.
Ignores(q) ==
  /\ asked' = asked \ {q}
  /\ UNCHANGED <<kind, plugged, link, conn, attach, due, owed>>

-----------------------------------------------------------------------------
Init ==
  /\ kind \in Kinds
  /\ plugged = TRUE
  /\ link \in [Slots -> IF kind = "receiver" THEN BOOLEAN ELSE {FALSE}]
  /\ asked = {}
  /\ conn = [p \in Callers |-> Closed]
  /\ attach = FALSE /\ due = NothingDue /\ owed = FALSE

Proceeds(p) == Opens(p) \/ NotThere(p) \/ OpenFails(p) \/ Writes(p) \/ WriteFails(p)
TimesOut(p) == Nudges(p) \/ Silent(p)
Reads(p)    == Discards(p) \/ Answered(p) \/ LinkDrops(p)

Hardware ==
  \/ \E s \in Slots : LinkUp(s) \/ LinkDown(s)
  \/ OtherAsks
  \/ \E q \in asked : Answers(q) \/ RefusesToMove(q) \/ Moves(q) \/ Ignores(q)
  \/ Unplug \/ Plug

Next ==
  \/ WorkerSends \/ PollChecks \/ DetectorRuns
  \/ \E p \in Callers : Proceeds(p) \/ TimesOut(p) \/ Reads(p) \/ DeadlineEnds(p) \/ Cancelled(p)
  \/ TapReads \/ TapFails \/ LoopTakesAttach \/ GenerationEnds
  \/ Hardware

Spec == Init /\ [][Next]_vars

\* A call that can open and write does, a read ends at its deadline however many
\* reports it discards, and the tap reads.  Nothing is assumed of the hardware.
Fairness ==
  /\ \A p \in {"worker", "poll"} : WF_vars(Proceeds(p)) /\ WF_vars(TimesOut(p))
  /\ WF_vars(TapReads)

FairSpec == Spec /\ Fairness

-----------------------------------------------------------------------------
Reports ==
  [from : Indexes, feat : Root..ChangeHost, value : Refused..ChangeHost,
   fn : {"getFeature", "readRegister", "setHost", "link"}]
Requests ==
  [to : Indexes, feat : Root..ChangeHost, arg : Root..ChangeHost,
   fn : {"getFeature", "readRegister", "setHost"}]

Calls ==
  [goal : {"none", "send", "present", "startup", "watch"}, at : Places, target : Indexes,
   tries : 1..Attempts, feat : Root..ChangeHost, sent : BOOLEAN, inbox : Seq(Reports),
   cut : BOOLEAN, result : {"none", "sent", "nothing", "failed", "linked", "unlinked"},
   was : BOOLEAN, excused : BOOLEAN]

\* The state has its type: bounded queues of well-formed requests and reports,
\* and calls that are somewhere.
TypeOK ==
  /\ kind \in Kinds /\ plugged \in BOOLEAN /\ link \in [Slots -> BOOLEAN]
  /\ asked \subseteq Requests /\ IsFiniteSet(asked) /\ Cardinality(asked) <= MaxAsked
  /\ conn \in [Callers -> Calls] /\ \A p \in Callers : Len(conn[p].inbox) <= MaxInbox
  /\ attach \in BOOLEAN /\ owed \in BOOLEAN /\ due \in [Slots -> 0..(MaxInbox + 1)]

\* Present and Send say a device was here only if it was linked at some time
\* while they ran: no reply of an earlier exchange, of another slot or to
\* another goroutine's request counts for it.
HereWasHere ==
  \A p \in Callers : conn[p].result \in {"sent", "linked"} => conn[p].was

\* A give-away ends with "nothing to move", which the Decider takes for done,
\* only if the device was off the link at some time while Send ran or left a
\* probe unanswered, or the generation was torn down: not for another slot's
\* refusal, and not for a switch timeout.
NothingWasNotHere ==
  \A p \in Callers : conn[p].result = "nothing" => conn[p].excused

\* Every attach edge stands for one watched slot that took the link, or held
\* it when the detector was started, and no other edge did since.
EdgesAreLinks ==
  [][~attach /\ attach' => \E s \in Triggers : due'[s] = due[s] - 1 /\ due[s] > 0]_vars

\* A watched slot that takes the link while the tap reads becomes an attach
\* edge, unless the detector stops or the receiver is unplugged first.
TappedLinkIsEdge == owed ~> ~owed

\* Every Send and every Present returns, with a node that goes away, devices
\* that do not answer, and reports for others in between.
CallsReturn ==
  \A p \in {"worker", "poll"} : Calling(p) ~> Idle(p)

=============================================================================
