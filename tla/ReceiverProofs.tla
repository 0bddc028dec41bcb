--------------------------- MODULE ReceiverProofs ---------------------------
(***************************************************************************)
(* Proofs about one HID++ interface and the calls on it, for any slots,    *)
(* triggers, numbers of calls, requests and reports: what Send, Present    *)
(* and the detector conclude from replies and link changes is true.        *)
(***************************************************************************)
EXTENDS Receiver, FiniteSetTheorems, SequenceTheorems, WellFoundedInduction, TLAPS

LEMMA LeastNat ==
  ASSUME NEW T \in SUBSET Nat, T # {}
  PROVE  \E x \in T : \A y \in T : x <= y
<1>1. PICK x \in T : \A y \in T : <<y, x>> \notin OpToRel(<, Nat)
  BY NatLessThanWellFounded, WFMin
<1>2. ASSUME NEW y \in T PROVE x <= y
  <2>1. <<y, x>> \notin OpToRel(<, Nat)
    BY <1>1
  <2>2. ~(y < x)
    BY <2>1 DEF OpToRel
  <2> QED BY <2>2
<1> QED BY <1>2

-----------------------------------------------------------------------------
(* The invariant.                                                          *)

Busy(c) == c.at \notin {"idle", "returned", "over"}

\* A reply of the call's target, in its inbox: what it tells of the link.
Replies(c) == {c.inbox[i] : i \in DOMAIN c.inbox}
Linking(c, r) == r.from = c.target /\ r.fn # "link" /\ r.value # Refused
Unlinking(c, r) == /\ r.from = c.target /\ c.target \in Slots
                   /\ r.fn = "getFeature" /\ r.value = Refused

\* What the call may conclude that the target was linked from: it is, its node
\* was opened, or a reply of its own says so.
Here(c) ==
  /\ Linked(c.target) => c.was
  /\ c.target = Direct /\ c.at # "opening" => c.was
  /\ \A r \in Replies(c) : Linking(c, r) => c.was

\* ... and that it was not.
Away(c) ==
  /\ ~Linked(c.target) => c.excused
  /\ c.cut => c.excused
  /\ \A r \in Replies(c) : Unlinking(c, r) => c.excused

\* What a call is for decides where it can be.
Underway(p, c) ==
  /\ c.goal # "none" /\ c.result = "none"
  /\ c.goal \in {"present", "startup"} => c.target \in Slots
  /\ c.goal = "startup" => c.target \in Triggers
  /\ c.goal = "watch" => c.target = Direct
  /\ c.at = "online" => c.target \in Slots
  /\ c.at \in {"feature", "sethost"} => c.goal = "send" /\ c.was
  /\ c.at = "tap" => c.goal = "watch"
  /\ p # "tap" => Here(c)
  /\ p = "worker" => Away(c)

Goals(p) == CASE p = "worker" -> {"none", "send"}
              [] p = "poll"   -> {"none", "present"}
              [] p = "tap"    -> {"none", "startup", "watch"}

Fits(p, c) ==
  /\ c \in Calls /\ Len(c.inbox) <= MaxInbox /\ c.goal \in Goals(p)
  /\ Busy(c) => Underway(p, c)
  /\ p = "tap" => c.result = "none"
  /\ c.result \in {"sent", "linked"} => c.was
  /\ c.result = "nothing" => c.excused

HardwareInv ==
  /\ kind \in Kinds /\ plugged \in BOOLEAN /\ link \in [Slots -> BOOLEAN]
  /\ ~plugged => \A s \in Slots : ~link[s]
  /\ asked \subseteq Requests /\ IsFiniteSet(asked) /\ Cardinality(asked) <= MaxAsked

CallsInv == conn \in [Callers -> Calls] /\ \A p \in Callers : Fits(p, conn[p])

ReceiverInv == HardwareInv /\ CallsInv

-----------------------------------------------------------------------------
(* Calls that go on or end.                                                *)

LEMMA Bounds ==
  /\ Attempts \in Nat \ {0} /\ MaxAsked \in Nat \ {0} /\ MaxInbox \in Nat \ {0}
  /\ 1 \in 1..Attempts /\ 0 \notin Slots
BY ReceiverAssumption

\* Calls made from the closed one.
LEMMA ClosedCall ==
  /\ Closed \in Calls /\ Closed.goal = "none" /\ Closed.at = "idle" /\ Closed.target = Direct
  /\ Closed.inbox = <<>> /\ Closed.result = "none" /\ Closed.cut = FALSE
<1>1. <<>> \in Seq(Reports)
  OBVIOUS
<1> QED BY <1>1, Bounds DEF Closed, Calls, Places, Indexes, Root, ChangeHost

LEMMA ClosedAt ==
  ASSUME NEW a \in Places, NEW d, d = [Closed EXCEPT !.at = a]
  PROVE  d \in Calls /\ d.at = a /\ d.goal = "none" /\ d.inbox = <<>> /\ d.result = "none"
BY ClosedCall DEF Calls

\* A call at rest.
LEMMA AtRest ==
  ASSUME NEW p \in Callers, NEW c \in Calls, ~Busy(c), c.inbox = <<>>, c.goal = "none",
         p = "tap" => c.result = "none", c.result \in {"sent", "linked"} => c.was,
         c.result = "nothing" => c.excused
  PROVE  Fits(p, c)
BY ReceiverAssumption DEF Fits, Goals, Callers

\* What fits a call depends on nothing but the links.
LEMMA FitsStays ==
  ASSUME NEW q \in Callers, NEW d, Fits(q, d), UNCHANGED <<plugged, link>>
  PROVE  Fits(q, d)'
<1>1. \A i : Linked(i)' <=> Linked(i)
  BY DEF Linked
<1>2. Underway(q, d) => Underway(q, d)'
  BY <1>1 DEF Underway, Here, Away, Replies, Linking, Unlinking, Triggers, Goals
<1> QED BY <1>2 DEF Fits, Busy, Goals

\* Every call fits, and no link changes.
LEMMA AllCalls ==
  ASSUME \A q \in Callers : Fits(q, conn'[q]), conn' \in [Callers -> Calls], HardwareInv',
         UNCHANGED <<plugged, link>>
  PROVE  ReceiverInv'
<1>1. ASSUME NEW q \in Callers PROVE Fits(q, conn[q])'
  <2>1. PICK d : d = conn'[q]
    OBVIOUS
  <2>2. Fits(q, d)'
    BY <2>1, FitsStays
  <2> QED BY <2>1, <2>2
<1> QED BY <1>1 DEF ReceiverInv, CallsInv

\* Only one call changes, and no link.
LEMMA OneCall ==
  ASSUME ReceiverInv, NEW p \in Callers, NEW c, Fits(p, c), HardwareInv',
         UNCHANGED <<plugged, link>>, conn' = [conn EXCEPT ![p] = c]
  PROVE  ReceiverInv'
<1>1. conn' \in [Callers -> Calls]
  BY DEF ReceiverInv, CallsInv, Fits
<1>2. \A q \in Callers : Fits(q, conn'[q])
  BY DEF ReceiverInv, CallsInv
<1> QED BY <1>1, <1>2, AllCalls

LEMMA EnvStays == ReceiverInv /\ UNCHANGED env => HardwareInv' /\ UNCHANGED <<plugged, link>>
BY DEF ReceiverInv, HardwareInv, env

\* The call goes on at a place its goal allows.
LEMMA GotoFits ==
  ASSUME ReceiverInv, NEW p \in Callers, NEW c, Fits(p, c), Busy(c), UNCHANGED env,
         NEW place \in Places \ {"idle", "returned", "over", "opening"},
         p # "tap" /\ c.target = Direct => c.was,
         place = "online" => c.target \in Slots,
         place \in {"feature", "sethost"} => c.goal = "send" /\ c.was,
         place = "tap" => c.goal = "watch",
         Goto(p, c, place)
  PROVE  ReceiverInv'
<1> DEFINE d == [c EXCEPT !.at = place, !.tries = 1, !.sent = FALSE]
<1>1. /\ d \in Calls /\ d.at = place
      /\ d.goal = c.goal /\ d.target = c.target /\ d.inbox = c.inbox /\ d.cut = c.cut
      /\ d.result = c.result /\ d.was = c.was /\ d.excused = c.excused
  <2>1. c \in Calls
    BY DEF Fits
  <2> QED BY <2>1, Bounds DEF Calls
<1>2. conn' = [conn EXCEPT ![p] = d]
  BY DEF Goto
<1> HIDE DEF d
<1>3. Underway(p, c)
  BY DEF Fits
<1>4. Replies(d) = Replies(c) /\ \A r : /\ Linking(d, r) <=> Linking(c, r)
                                        /\ Unlinking(d, r) <=> Unlinking(c, r)
  BY <1>1 DEF Replies, Linking, Unlinking
<1>5. p # "tap" => Here(d)
  BY <1>1, <1>3, <1>4 DEF Underway, Here
<1>6. p = "worker" => Away(d)
  BY <1>1, <1>3, <1>4 DEF Underway, Away
<1>7. Underway(p, d)
  BY <1>1, <1>3, <1>5, <1>6 DEF Underway
<1>8. Fits(p, d)
  BY <1>1, <1>7 DEF Fits
<1> QED BY <1>2, <1>8, OneCall, EnvStays

\* The call returns what it may.
LEMMA ReturnFits ==
  ASSUME ReceiverInv, NEW p \in Callers, NEW c \in Calls, UNCHANGED env,
         NEW r \in {"sent", "nothing", "failed", "linked", "unlinked", "silent"},
         r \in {"sent", "linked"} /\ p # "tap" => c.was,
         r = "nothing" /\ p # "tap" => c.excused,
         Return(p, c, r)
  PROVE  ReceiverInv'
<1>1. CASE p = "tap"
  <2> DEFINE d == [Closed EXCEPT !.at = IF r = "silent" THEN "over" ELSE "idle"]
  <2>1. /\ d \in Calls /\ d.at \in {"over", "idle"} /\ d.inbox = <<>> /\ d.goal = "none"
        /\ d.result = "none"
    <3> DEFINE a == IF r = "silent" THEN "over" ELSE "idle"
    <3>1. a \in Places /\ a \in {"over", "idle"} /\ d = [Closed EXCEPT !.at = a]
      BY DEF Places
    <3> HIDE DEF a, d
    <3> QED BY <3>1, ClosedAt
  <2>2. conn' = [conn EXCEPT ![p] = d]
    BY <1>1 DEF Return
  <2> HIDE DEF d
  <2>3. Fits(p, d)
    BY <2>1, AtRest DEF Busy
  <2> QED BY <2>2, <2>3, OneCall, EnvStays
<1>2. CASE p # "tap"
  <2> DEFINE d == [Closed EXCEPT !.at = "returned", !.result = IF r = "silent" THEN "failed" ELSE r,
                           !.was = c.was /\ r \in {"sent", "linked"},
                           !.excused = c.excused /\ r = "nothing"]
  <2>1. c.was \in BOOLEAN /\ c.excused \in BOOLEAN
    BY DEF Calls
  <2>2. /\ d \in Calls /\ d.at = "returned" /\ d.inbox = <<>> /\ d.goal = "none"
        /\ d.result = (IF r = "silent" THEN "failed" ELSE r)
        /\ d.was = (c.was /\ r \in {"sent", "linked"})
        /\ d.excused = (c.excused /\ r = "nothing")
    BY <2>1, ClosedCall DEF Calls, Places
  <2>3. conn' = [conn EXCEPT ![p] = d]
    BY <1>2 DEF Return
  <2> HIDE DEF d
  <2>4. Fits(p, d)
    BY <1>2, <2>2, AtRest DEF Busy
  <2> QED BY <2>3, <2>4, OneCall, EnvStays
<1> QED BY <1>1, <1>2

\* The reports behind the first.
LEMMA ReadFits ==
  ASSUME NEW p \in Callers, NEW c, Fits(p, c), c.inbox # <<>>, NEW d,
         d = [c EXCEPT !.inbox = Tail(@)]
  PROVE  /\ Fits(p, d) /\ Head(c.inbox) \in Replies(c) /\ Head(c.inbox) \in Reports
         /\ d.at = c.at /\ d.goal = c.goal /\ d.target = c.target /\ d.cut = c.cut
         /\ d.result = c.result /\ d.was = c.was /\ d.excused = c.excused
<1>1. /\ c \in Calls /\ c.inbox \in Seq(Reports) /\ Len(c.inbox) <= MaxInbox
  BY DEF Fits, Calls
<1>2. PICK q \in Seq(Reports) : q = c.inbox
  BY <1>1
<1>3. /\ Tail(q) \in Seq(Reports) /\ Len(Tail(q)) = Len(q) - 1 /\ Len(q) \in Nat \ {0}
      /\ \A i \in DOMAIN Tail(q) : Tail(q)[i] = q[i + 1] /\ i + 1 \in DOMAIN q
      /\ Head(q) = q[1] /\ 1 \in DOMAIN q /\ q[1] \in Reports
  BY <1>2
<1>4. /\ d \in Calls /\ d.inbox = Tail(q)
      /\ d.at = c.at /\ d.goal = c.goal /\ d.target = c.target /\ d.cut = c.cut
      /\ d.result = c.result /\ d.was = c.was /\ d.excused = c.excused
  BY <1>1, <1>2, <1>3 DEF Calls
<1>5. Replies(d) \subseteq Replies(c) /\ Head(q) \in Replies(c)
  BY <1>2, <1>3, <1>4 DEF Replies
<1>6. \A r : (Linking(d, r) <=> Linking(c, r)) /\ (Unlinking(d, r) <=> Unlinking(c, r))
  BY <1>4 DEF Linking, Unlinking
<1>7. Here(c) => Here(d)
  BY <1>4, <1>5, <1>6 DEF Here
<1>8. Away(c) => Away(d)
  BY <1>4, <1>5, <1>6 DEF Away
<1>9. Busy(d) => Underway(p, d)
  BY <1>4, <1>7, <1>8 DEF Fits, Busy, Underway
<1>10. Len(d.inbox) <= MaxInbox
  BY <1>1, <1>2, <1>3, <1>4, ReceiverAssumption
<1> QED BY <1>2, <1>3, <1>4, <1>5, <1>9, <1>10 DEF Fits

-----------------------------------------------------------------------------
(* The steps of a call.                                                    *)

LEMMA CallNow ==
  ASSUME ReceiverInv, NEW p \in Callers
  PROVE  Fits(p, conn[p]) /\ conn[p] \in Calls /\ (Calling(p) => Underway(p, conn[p]))
BY DEF ReceiverInv, CallsInv, Fits, Calling, Idle, Busy

\* A change of a call in progress that its facts do not depend on.
LEMMA SameFits ==
  ASSUME NEW p \in Callers, NEW c, Fits(p, c), Busy(c), NEW d \in Calls,
         d.at = c.at, d.goal = c.goal, d.target = c.target, d.cut = c.cut, d.inbox = c.inbox,
         d.result = c.result, c.was => d.was, c.excused => d.excused
  PROVE  Fits(p, d)
<1>1. Underway(p, c)
  BY DEF Fits
<1>2. Replies(d) = Replies(c) /\ \A r : /\ Linking(d, r) <=> Linking(c, r)
                                        /\ Unlinking(d, r) <=> Unlinking(c, r)
  BY DEF Replies, Linking, Unlinking
<1>3. (Here(c) => Here(d)) /\ (Away(c) => Away(d))
  BY <1>2 DEF Here, Away
<1>4. Underway(p, d)
  BY <1>1, <1>3 DEF Underway
<1> QED BY <1>4 DEF Fits

\* What an unanswered probe excuses.
LEMMA UnansweredFits ==
  ASSUME ReceiverInv, NEW p \in Callers, Calling(p), NEW c,
         c = [conn[p] EXCEPT !.excused = @ \/ (p = "worker" /\ conn[p].at = "online")]
  PROVE  /\ Fits(p, c) /\ c \in Calls /\ Busy(c)
         /\ c.at = conn[p].at /\ c.goal = conn[p].goal /\ c.target = conn[p].target
         /\ c.was = conn[p].was
         /\ p = "worker" /\ c.at = "online" => c.excused
<1>1. conn[p] \in Calls /\ Fits(p, conn[p]) /\ Busy(conn[p])
  BY CallNow DEF Calling, Idle, Busy
<1>2. PICK o \in Calls : o = conn[p]
  BY <1>1
<1>3. o.excused \in BOOLEAN
  BY DEF Calls
<1>4. c = [o EXCEPT !.excused = @ \/ (p = "worker" /\ o.at = "online")]
  BY <1>2
<1>5. /\ c \in Calls /\ c.at = o.at /\ c.goal = o.goal /\ c.target = o.target /\ c.was = o.was
      /\ c.cut = o.cut /\ c.inbox = o.inbox /\ c.result = o.result
      /\ o.excused => c.excused
      /\ p = "worker" /\ c.at = "online" => c.excused
  BY <1>3, <1>4 DEF Calls
<1> QED BY <1>1, <1>2, <1>5, SameFits DEF Busy

LEMMA OpensInv == ASSUME ReceiverInv, NEW p \in Callers, Opens(p) PROVE ReceiverInv'
<1>1. Calling(p) /\ Busy(conn[p]) /\ plugged
  BY DEF Opens, Calling, Idle, Busy
<1>2. Fits(p, conn[p]) /\ Underway(p, conn[p])
  BY <1>1, CallNow
<1>3. p # "tap" /\ conn[p].target = Direct => conn[p].was
  BY <1>1, <1>2 DEF Underway, Here, Linked
<1> QED BY <1>1, <1>2, <1>3, GotoFits DEF Opens, Places

LEMMA NotThereInv == ASSUME ReceiverInv, NEW p \in Callers, NotThere(p) PROVE ReceiverInv'
<1>1. Calling(p) /\ ~plugged
  BY DEF NotThere, Calling, Idle
<1>2. Fits(p, conn[p]) /\ Underway(p, conn[p]) /\ conn[p] \in Calls
  BY <1>1, CallNow
<1>3. ~Linked(conn[p].target)
  <2>1. conn[p].target \in Slots \cup {Direct}
    BY <1>2 DEF Calls, Indexes
  <2> QED BY <1>1, <2>1 DEF Linked, ReceiverInv, HardwareInv
<1>4. conn[p].goal = "send" => p = "worker"
  BY <1>2 DEF Fits, Goals, Callers
<1>5. conn[p].goal = "send" => conn[p].excused
  BY <1>2, <1>3, <1>4 DEF Underway, Away
<1> QED BY <1>2, <1>5, ReturnFits DEF NotThere

LEMMA OpenFailsInv == ASSUME ReceiverInv, NEW p \in Callers, OpenFails(p) PROVE ReceiverInv'
BY CallNow, ReturnFits DEF OpenFails

\* One request more on its way.
LEMMA AsksMore ==
  ASSUME HardwareInv, NEW q \in Requests, Cardinality(asked) < MaxAsked, NEW more,
         more = asked \cup {q}
  PROVE  more \subseteq Requests /\ IsFiniteSet(more) /\ Cardinality(more) <= MaxAsked
<1>1. IsFiniteSet(asked) /\ asked \subseteq Requests
  BY DEF HardwareInv
<1>2. Cardinality(asked) \in Nat
  BY <1>1, FS_CardinalityType
<1>3. /\ IsFiniteSet(more)
      /\ Cardinality(more) = IF q \in asked THEN Cardinality(asked) ELSE Cardinality(asked) + 1
  BY <1>1, FS_AddElement
<1> QED BY <1>1, <1>2, <1>3, Bounds

LEMMA WritesInv == ASSUME ReceiverInv, NEW p \in Callers, Writes(p) PROVE ReceiverInv'
<1>1. conn[p] \in Calls /\ Fits(p, conn[p]) /\ Busy(conn[p])
  BY CallNow DEF Writes, Asking, Busy
<1>2. PICK o \in Calls : o = conn[p]
  BY <1>1
<1> DEFINE d == [o EXCEPT !.sent = TRUE]
<1>3. conn' = [conn EXCEPT ![p] = d] /\ UNCHANGED <<kind, plugged, link>>
  BY <1>2 DEF Writes
<1>4. /\ d \in Calls /\ d.at = o.at /\ d.goal = o.goal /\ d.target = o.target /\ d.cut = o.cut
      /\ d.inbox = o.inbox /\ d.result = o.result /\ d.was = o.was /\ d.excused = o.excused
  BY DEF Calls
<1> HIDE DEF d
<1>5. Fits(p, d)
  BY <1>1, <1>2, <1>4, SameFits
<1>6. Question(p) \in Requests
  <2>1. /\ o.target \in Indexes /\ o.feat \in Root..ChangeHost /\ Direct \in Indexes
        /\ Root \in Root..ChangeHost /\ FeatureSet \in Root..ChangeHost
        /\ ChangeHost \in Root..ChangeHost
    BY DEF Calls, Indexes, Root, ChangeHost, FeatureSet
  <2>2. o.at \in {"handshake", "register", "online", "feature", "sethost"}
    BY <1>2 DEF Writes, Asking
  <2> QED BY <1>2, <2>1, <2>2 DEF Question, Requests
<1>7. HardwareInv'
  <2>1. asked' \subseteq Requests /\ IsFiniteSet(asked') /\ Cardinality(asked') <= MaxAsked
    <3>1. CASE asked' = asked
      BY <3>1 DEF ReceiverInv, HardwareInv
    <3>2. CASE Cardinality(asked) < MaxAsked /\ asked' = asked \cup {Question(p)}
      <4> QED BY <1>6, <3>2, AsksMore DEF ReceiverInv
    <3> QED BY <3>1, <3>2 DEF Writes
  <2> QED BY <1>3, <2>1 DEF ReceiverInv, HardwareInv
<1> QED BY <1>3, <1>5, <1>7, OneCall

\* watchReceiver goes to a watched slot, or taps.
LEMMA StartupProbedInv ==
  ASSUME ReceiverInv, conn["tap"].target \in Slots, NEW on, StartupProbed("tap", on), UNCHANGED env
  PROVE  ReceiverInv'
<1> DEFINE later == {n \in DOMAIN Watched : \A m \in DOMAIN Watched :
                                         Watched[m] = conn["tap"].target => m < n}
           next  == CHOOSE n \in later : \A m \in later : n <= m
           taps  == on \/ later = {}
           g     == IF taps THEN "watch" ELSE "startup"
           i     == IF taps THEN Direct ELSE Watched[next]
           d     == [Closed EXCEPT !.goal = g, !.at = "opening", !.target = i]
<1>1. ~taps => Watched[next] \in Slots /\ Watched[next] \in Triggers
  <2>1. DOMAIN Watched \subseteq Nat /\ \A n \in DOMAIN Watched : Watched[n] \in Slots
    BY ReceiverAssumption
  <2>2. later \in SUBSET Nat /\ later \subseteq DOMAIN Watched
    BY <2>1
  <2> HIDE DEF later
  <2>3. later # {} => next \in later
    BY <2>2, LeastNat
  <2> QED BY <2>1, <2>2, <2>3 DEF Triggers
<1>2. conn' = [conn EXCEPT !["tap"] = d]
  BY DEF StartupProbed
<1>3. i \in Indexes /\ g \in {"startup", "watch"}
  BY <1>1 DEF Indexes
<1>4. /\ g = "startup" => i \in Slots /\ i \in Triggers
      /\ g = "watch" => i = Direct
  BY <1>1
<1>5. /\ d \in Calls /\ d.at = "opening" /\ d.goal = g /\ d.target = i
      /\ d.inbox = <<>> /\ d.result = "none"
  <2> HIDE DEF g, i
  <2> QED BY <1>3, ClosedCall DEF Calls, Places
<1> HIDE DEF d, g, i
<1>6. Fits("tap", d)
  BY <1>3, <1>4, <1>5, Bounds DEF Fits, Underway, Goals
<1>7. "tap" \in Callers
  BY DEF Callers
<1> QED BY <1>2, <1>6, <1>7, OneCall, EnvStays

\* A probe of a slot told whether it holds the link.
LEMMA SlotIsInv ==
  ASSUME ReceiverInv, NEW p \in Callers, Calling(p), NEW c, Fits(p, c), Busy(c),
         c.goal = conn[p].goal, c.target = conn[p].target, UNCHANGED env,
         NEW on \in BOOLEAN, on /\ p # "tap" => c.was, ~on /\ p = "worker" => c.excused,
         SlotIs(p, c, on)
  PROVE  ReceiverInv'
<1>1. c \in Calls /\ Underway(p, c)
  BY DEF Fits
<1>2. CASE c.goal = "send"
  <2>1. p = "worker"
    BY <1>2 DEF Fits, Goals, Callers
  <2>2. CASE on /\ Goto(p, c, "feature")
    BY <1>2, <2>1, <2>2, GotoFits DEF Places
  <2>3. CASE ~on /\ Return(p, c, "nothing")
    BY <1>1, <2>1, <2>3, ReturnFits
  <2> QED BY <1>2, <2>2, <2>3 DEF SlotIs
<1>3. CASE c.goal = "present"
  <2>1. p # "tap" /\ Return(p, c, IF on THEN "linked" ELSE "unlinked")
    BY <1>3 DEF Fits, Goals, Callers, SlotIs
  <2>2. CASE on
    BY <1>1, <2>1, <2>2, ReturnFits
  <2>3. CASE ~on
    BY <1>1, <2>1, <2>3, ReturnFits
  <2> QED BY <2>2, <2>3
<1>4. CASE c.goal = "startup"
  <2>1. p = "tap" /\ StartupProbed(p, on)
    BY <1>4 DEF Fits, Goals, Callers, SlotIs
  <2>2. conn["tap"].target \in Slots
    BY <1>1, <1>4, <2>1 DEF Underway
  <2> QED BY <2>1, <2>2, StartupProbedInv
<1> QED BY <1>2, <1>3, <1>4 DEF SlotIs

\* An exchange that is given up, for a reason that excuses a probe.
LEMMA GivesUpInv ==
  ASSUME ReceiverInv, NEW p \in Callers, Calling(p), NEW c, Fits(p, c), Busy(c),
         c.goal = conn[p].goal, c.target = conn[p].target, UNCHANGED env,
         c.at = "online" /\ p = "worker" => c.excused, GivesUp(p, c)
  PROVE  ReceiverInv'
<1>1. c \in Calls
  BY DEF Fits
<1>2. CASE c.at = "online" /\ SlotIs(p, c, FALSE)
  BY <1>2, SlotIsInv
<1>3. CASE Return(p, c, "failed")
  BY <1>1, <1>3, ReturnFits
<1> QED BY <1>2, <1>3 DEF GivesUp

LEMMA WriteFailsInv == ASSUME ReceiverInv, NEW p \in Callers, WriteFails(p) PROVE ReceiverInv'
<1>1. Calling(p) /\ Busy(conn[p]) /\ conn[p].cut
  BY DEF WriteFails, Asking, Calling, Idle, Busy
<1>2. Fits(p, conn[p]) /\ Underway(p, conn[p]) /\ conn[p] \in Calls
  BY <1>1, CallNow
<1>3. p = "worker" => conn[p].excused
  BY <1>1, <1>2 DEF Underway, Away
<1>4. CASE GivesUp(p, conn[p])
  BY <1>1, <1>2, <1>3, <1>4, GivesUpInv DEF WriteFails
<1>5. CASE Return(p, conn[p], "failed")
  BY <1>2, <1>5, ReturnFits DEF WriteFails
<1> QED BY <1>4, <1>5 DEF WriteFails

LEMMA LinkDropsInv == ASSUME ReceiverInv, NEW p \in Callers, LinkDrops(p) PROVE ReceiverInv'
<1>1. Calling(p) /\ Busy(conn[p]) /\ conn[p].cut
  BY DEF LinkDrops, Asking, Calling, Idle, Busy
<1>2. Fits(p, conn[p]) /\ Underway(p, conn[p]) /\ conn[p] \in Calls
  BY <1>1, CallNow
<1>3. p = "worker" => conn[p].excused
  BY <1>1, <1>2 DEF Underway, Away
<1>4. CASE GivesUp(p, conn[p])
  BY <1>1, <1>2, <1>3, <1>4, GivesUpInv DEF LinkDrops
<1>5. CASE conn[p].at = "sethost" /\ Return(p, conn[p], "sent")
  BY <1>2, <1>5, ReturnFits DEF LinkDrops, Underway
<1> QED BY <1>4, <1>5 DEF LinkDrops

LEMMA DiscardsInv == ASSUME ReceiverInv, NEW p \in Callers, Discards(p) PROVE ReceiverInv'
<1> DEFINE d == [conn[p] EXCEPT !.inbox = Tail(@)]
<1>1. conn' = [conn EXCEPT ![p] = d] /\ UNCHANGED env /\ conn[p].inbox # <<>>
  BY DEF Discards
<1>2. Fits(p, d)
  BY <1>1, CallNow, ReadFits
<1> QED BY <1>1, <1>2, OneCall, EnvStays

\* A matching reply is one of the target's, if it is about a device at all.
LEMMA AnsweredInv == ASSUME ReceiverInv, NEW p \in Callers, Answered(p) PROVE ReceiverInv'
<1> DEFINE r == Head(conn[p].inbox)
           c == [conn[p] EXCEPT !.inbox = Tail(@)]
<1>1. Calling(p) /\ Busy(conn[p]) /\ conn[p].inbox # <<>> /\ UNCHANGED env
  BY DEF Answered, Asking, Calling, Idle, Busy
<1>2. Fits(p, conn[p]) /\ Underway(p, conn[p]) /\ conn[p] \in Calls
  BY <1>1, CallNow
<1>3. /\ Fits(p, c) /\ r \in Replies(conn[p]) /\ r \in Reports
      /\ c.at = conn[p].at /\ c.goal = conn[p].goal /\ c.target = conn[p].target
      /\ c.cut = conn[p].cut
      /\ c.result = conn[p].result /\ c.was = conn[p].was /\ c.excused = conn[p].excused
  BY <1>1, <1>2, ReadFits
<1>4. /\ r.from = Question(p).to /\ r.fn = Question(p).fn
      /\ \/ /\ c.at \in {"handshake", "register"}
            /\ Goto(p, c, CASE c.goal = "watch" -> "tap"
                            [] c.goal # "watch" /\ c.target = Direct -> "feature"
                            [] OTHER -> "online")
         \/ c.at = "online" /\ SlotIs(p, c, r.value # Refused)
         \/ c.at = "feature" /\ r.value \in {Refused, Root} /\ Return(p, c, "failed")
         \/ /\ c.at = "feature" /\ r.value \notin {Refused, Root}
            /\ Goto(p, [c EXCEPT !.feat = r.value], "sethost")
         \/ c.at = "sethost" /\ Return(p, c, IF r.value = Refused THEN "failed" ELSE "sent")
  BY DEF Answered, Matches
<1> HIDE DEF c, r
<1>5. Busy(c) /\ Underway(p, c) /\ c \in Calls
  BY <1>1, <1>3 DEF Busy, Fits
<1>6. ASSUME c.at \in {"handshake", "register"},
             Goto(p, c, CASE c.goal = "watch" -> "tap"
                          [] c.goal # "watch" /\ c.target = Direct -> "feature"
                          [] OTHER -> "online")
      PROVE  ReceiverInv'
  <2> DEFINE place == CASE c.goal = "watch" -> "tap"
                        [] c.goal # "watch" /\ c.target = Direct -> "feature"
                        [] OTHER -> "online"
  <2>1. p # "tap" /\ c.target = Direct => c.was
    BY <1>5, <1>6 DEF Underway, Here
  <2>2. c.target \in Slots \cup {Direct}
    BY <1>5 DEF Calls, Indexes
  <2>3. c.goal \in {"send", "present", "startup", "watch"}
    BY <1>5 DEF Underway, Calls
  <2>4. /\ place = "tap" <=> c.goal = "watch"
        /\ place = "feature" => c.target = Direct
    OBVIOUS
  <2>5. place = "online" => c.target \in Slots
    BY <2>2
  <2>6. place = "feature" => c.goal = "send" /\ c.was
    <3> SUFFICES ASSUME place = "feature" PROVE c.goal = "send" /\ c.was
      OBVIOUS
    <3>1. c.goal # "watch" /\ c.target = Direct
      <4> HIDE DEF place
      <4> QED BY <2>4
    <3>2. c.goal = "send"
      BY <1>5, <2>3, <3>1, Bounds DEF Underway, Direct
    <3>3. p # "tap"
      BY <1>3, <3>2 DEF Fits, Goals
    <3> QED BY <2>1, <3>1, <3>2, <3>3
  <2>7. place \in {"tap", "feature", "online"}
    OBVIOUS
  <2>8. Goto(p, c, place)
    BY <1>6
  <2> HIDE DEF place
  <2>9. place \in Places \ {"idle", "returned", "over", "opening"} /\ place # "sethost"
    BY <2>7 DEF Places
  <2> QED BY <1>1, <1>3, <1>5, <2>1, <2>4, <2>5, <2>6, <2>8, <2>9, GotoFits
<1>7. ASSUME c.at = "online", SlotIs(p, c, r.value # Refused) PROVE ReceiverInv'
  <2>1. r.from = c.target /\ r.fn = "getFeature" /\ c.target \in Slots
    BY <1>3, <1>4, <1>5, <1>7 DEF Question, Underway
  <2>2. Linking(conn[p], r) \/ Unlinking(conn[p], r)
    BY <1>3, <2>1 DEF Linking, Unlinking
  <2>3. r.value # Refused /\ p # "tap" => c.was
    BY <1>2, <1>3, <2>1 DEF Linking, Underway, Here
  <2>4. r.value = Refused /\ p = "worker" => c.excused
    BY <1>2, <1>3, <2>1 DEF Unlinking, Underway, Away
  <2>5. PICK on \in BOOLEAN : on = (r.value # Refused)
    OBVIOUS
  <2> QED BY <1>1, <1>3, <1>5, <1>7, <2>3, <2>4, <2>5, SlotIsInv
<1>8. ASSUME c.at = "feature", r.value \notin {Refused, Root},
             Goto(p, [c EXCEPT !.feat = r.value], "sethost")
      PROVE  ReceiverInv'
  <2> DEFINE d == [c EXCEPT !.feat = r.value]
  <2>1. r.value \in Root..ChangeHost
    BY <1>3, <1>8 DEF Reports, Refused, Root, ChangeHost
  <2>2. /\ d \in Calls /\ d.at = c.at /\ d.goal = c.goal /\ d.target = c.target /\ d.cut = c.cut
        /\ d.inbox = c.inbox /\ d.result = c.result /\ d.was = c.was /\ d.excused = c.excused
    BY <1>5, <2>1 DEF Calls
  <2> HIDE DEF d
  <2>3. Fits(p, d) /\ Busy(d) /\ d.goal = "send" /\ d.was
    BY <1>3, <1>5, <1>8, <2>2, SameFits DEF Busy, Underway
  <2>4. Goto(p, d, "sethost")
    BY <1>8 DEF d
  <2> QED BY <1>1, <2>3, <2>4, GotoFits DEF Places
<1>9. ASSUME c.at = "feature", Return(p, c, "failed") PROVE ReceiverInv'
  BY <1>1, <1>5, <1>9, ReturnFits
<1>10. ASSUME c.at = "sethost", Return(p, c, IF r.value = Refused THEN "failed" ELSE "sent")
       PROVE  ReceiverInv'
  BY <1>1, <1>5, <1>10, ReturnFits DEF Underway
<1> QED BY <1>4, <1>6, <1>7, <1>8, <1>9, <1>10

LEMMA NudgesInv == ASSUME ReceiverInv, NEW p \in Callers, Nudges(p) PROVE ReceiverInv'
<1>1. Calling(p) /\ UNCHANGED env /\ conn[p].tries < Attempts
  BY DEF Nudges, Calling, Idle
<1>2. Fits(p, conn[p]) /\ conn[p] \in Calls /\ Busy(conn[p])
  BY <1>1, CallNow DEF Calling, Idle, Busy
<1>3. PICK o \in Calls : o = conn[p]
  BY <1>2
<1> DEFINE d == [o EXCEPT !.tries = @ + 1, !.sent = FALSE,
                          !.excused = @ \/ (p = "worker" /\ o.at = "online")]
<1>4. conn' = [conn EXCEPT ![p] = d]
  BY <1>3 DEF Nudges
<1>5. o.tries + 1 \in 1..Attempts /\ o.excused \in BOOLEAN
  BY <1>1, <1>3, Bounds DEF Calls
<1>6. /\ d \in Calls /\ d.at = o.at /\ d.goal = o.goal /\ d.target = o.target /\ d.cut = o.cut
      /\ d.inbox = o.inbox /\ d.result = o.result /\ d.was = o.was /\ (o.excused => d.excused)
  BY <1>5 DEF Calls
<1> HIDE DEF d
<1>7. Fits(p, d)
  BY <1>2, <1>3, <1>6, SameFits
<1> QED BY <1>1, <1>4, <1>7, OneCall, EnvStays

LEMMA SilentInv == ASSUME ReceiverInv, NEW p \in Callers, Silent(p) PROVE ReceiverInv'
<1> DEFINE c == [conn[p] EXCEPT !.excused = @ \/ (p = "worker" /\ conn[p].at = "online")]
<1>1. Calling(p) /\ UNCHANGED env
  BY DEF Silent, Asking, Calling, Idle
<1>2. /\ Fits(p, c) /\ c \in Calls /\ Busy(c)
      /\ c.at = conn[p].at /\ c.goal = conn[p].goal /\ c.target = conn[p].target
      /\ c.was = conn[p].was
      /\ p = "worker" /\ c.at = "online" => c.excused
  BY <1>1, UnansweredFits
<1>3. \/ c.at = "handshake" /\ Goto(p, c, "register")
      \/ c.at = "register" /\ Return(p, c, "silent")
      \/ c.at \in {"online", "feature"} /\ GivesUp(p, c)
      \/ c.at = "sethost" /\ Return(p, c, "sent")
  BY DEF Silent
<1> HIDE DEF c
<1>4. Underway(p, c)
  BY <1>2 DEF Fits
<1>5. CASE c.at = "handshake" /\ Goto(p, c, "register")
  <2>1. p # "tap" /\ c.target = Direct => c.was
    BY <1>4, <1>5 DEF Underway, Here
  <2> QED BY <1>1, <1>2, <1>5, <2>1, GotoFits DEF Places
<1>6. CASE Return(p, c, "silent")
  BY <1>1, <1>2, <1>6, ReturnFits
<1>7. CASE GivesUp(p, c)
  BY <1>1, <1>2, <1>7, GivesUpInv
<1>8. CASE c.at = "sethost" /\ Return(p, c, "sent")
  BY <1>1, <1>2, <1>4, <1>8, ReturnFits DEF Underway
<1> QED BY <1>3, <1>5, <1>6, <1>7, <1>8

LEMMA EndsInv ==
  ASSUME ReceiverInv, NEW p \in Callers, DeadlineEnds(p) \/ Cancelled(p) PROVE ReceiverInv'
<1>1. p # "tap" /\ Calling(p) /\ UNCHANGED env
  BY DEF DeadlineEnds, Cancelled
<1>2. Fits(p, conn[p]) /\ Underway(p, conn[p]) /\ conn[p] \in Calls
  BY <1>1, CallNow
<1> DEFINE r == CutShort(conn[p])
           c == [conn[p] EXCEPT !.excused = TRUE]
<1>3. r \in {"failed", "nothing", "unlinked"} /\ (r = "nothing" => conn[p].goal = "send")
  BY DEF CutShort
<1>4. r = "nothing" => p = "worker"
  BY <1>2, <1>3 DEF Fits, Goals, Callers
<1>5. c \in Calls /\ c.excused
  BY <1>2 DEF Calls
<1> HIDE DEF c
<1>6. CASE DeadlineEnds(p)
  <2>1. Return(p, conn[p], IF p = "worker" THEN "failed" ELSE r)
    BY <1>6 DEF DeadlineEnds
  <2> HIDE DEF r
  <2>2. PICK v : v = IF p = "worker" THEN "failed" ELSE r
    OBVIOUS
  <2>3. v \in {"failed", "unlinked"} /\ Return(p, conn[p], v)
    BY <1>3, <1>4, <2>1, <2>2
  <2> QED BY <1>1, <1>2, <2>3, ReturnFits
<1>7. CASE Cancelled(p)
  <2>1. Return(p, c, r)
    BY <1>7 DEF Cancelled, c
  <2> HIDE DEF r
  <2> QED BY <1>1, <1>3, <1>5, <2>1, ReturnFits
<1> QED BY <1>6, <1>7

\* A call starts: whether its target is linked is known to it.
LEMMA CallStartsInv ==
  ASSUME ReceiverInv, NEW p \in Callers, NEW g \in Goals(p) \ {"none"}, NEW i \in Indexes,
         g \in {"present", "startup"} => i \in Slots, g = "startup" => i \in Triggers,
         g # "watch", CallStarts(p, g, i)
  PROVE  ReceiverInv'
<1> DEFINE d == [Closed EXCEPT !.goal = g, !.at = "opening", !.target = i,
                               !.was = p # "tap" /\ Linked(i),
                               !.excused = p = "worker" /\ ~Linked(i)]
<1>1. /\ UNCHANGED env
      /\ conn' = [q \in Callers |->
           IF q = p THEN d ELSE IF conn[q].at = "returned" THEN Closed ELSE conn[q]]
  BY DEF CallStarts
<1>2. Linked(i) \in BOOLEAN
  BY DEF Linked, ReceiverInv, HardwareInv, Indexes
<1>3. g \in {"none", "send", "present", "startup", "watch"}
  BY DEF Goals, Callers
<1>4. /\ d \in Calls /\ d.at = "opening" /\ d.goal = g /\ d.target = i
      /\ d.inbox = <<>> /\ d.result = "none" /\ d.cut = FALSE
      /\ (d.was <=> p # "tap" /\ Linked(i)) /\ (d.excused <=> p = "worker" /\ ~Linked(i))
  BY <1>2, <1>3, ClosedCall DEF Calls, Places
<1> HIDE DEF d
<1>5. Fits(p, d)
  <2>1. Replies(d) = {} /\ Len(d.inbox) <= MaxInbox
    BY <1>4, Bounds DEF Replies
  <2>2. p # "tap" => Here(d)
    BY <1>4, <2>1 DEF Here
  <2>3. p = "worker" => Away(d)
    BY <1>4, <2>1 DEF Away
  <2>4. Underway(p, d)
    BY <1>4, <2>2, <2>3 DEF Underway
  <2> QED BY <1>4, <2>1, <2>4 DEF Fits
<1>6. ASSUME NEW q \in Callers PROVE Fits(q, conn'[q]) /\ conn'[q] \in Calls
  <2>1. CASE q = p
    BY <1>1, <1>4, <1>5, <2>1
  <2>2. CASE q # p /\ conn[q].at = "returned"
    BY <1>1, <2>2, ClosedCall, AtRest DEF Busy
  <2>3. CASE q # p /\ conn[q].at # "returned"
    BY <1>1, <2>3, CallNow
  <2> QED BY <2>1, <2>2, <2>3
<1>7. conn' \in [Callers -> Calls]
  BY <1>1, <1>6
<1> QED BY <1>1, <1>6, <1>7, AllCalls, EnvStays

LEMMA StartsInv ==
  ASSUME ReceiverInv, WorkerSends \/ PollChecks \/ DetectorRuns PROVE ReceiverInv'
<1>1. {"worker", "poll", "tap"} \subseteq Callers /\ Direct \in Indexes /\ Slots \subseteq Indexes
  BY DEF Callers, Indexes
<1>2. CASE WorkerSends
  <2>1. PICK i \in Indexes : CallStarts("worker", "send", i)
    BY <1>1, <1>2 DEF WorkerSends
  <2> QED BY <1>1, <2>1, CallStartsInv DEF Goals
<1>3. CASE PollChecks
  <2>1. PICK i \in Slots : CallStarts("poll", "present", i)
    BY <1>3 DEF PollChecks
  <2> QED BY <1>1, <2>1, CallStartsInv DEF Goals
<1>4. CASE DetectorRuns
  <2>1. CallStarts("tap", "startup", Watched[1]) /\ Watched # <<>>
    BY <1>4 DEF DetectorRuns
  <2>2. Watched[1] \in Slots /\ 1 \in DOMAIN Watched
    BY <2>1, ReceiverAssumption
  <2>3. Watched[1] \in Triggers
    BY <2>2 DEF Triggers
  <2> QED BY <1>1, <2>1, <2>2, <2>3, CallStartsInv DEF Goals
<1> QED BY <1>2, <1>3, <1>4

\* The detector's own steps.
LEMMA TapInv ==
  ASSUME ReceiverInv, TapReads \/ TapFails \/ LoopTakesAttach \/ GenerationEnds
  PROVE  ReceiverInv'
<1>1. "tap" \in Callers
  BY DEF Callers
<1>2. CASE TapReads
  <2> DEFINE d == [conn["tap"] EXCEPT !.inbox = Tail(@)]
  <2>1. conn' = [conn EXCEPT !["tap"] = d] /\ UNCHANGED env /\ conn["tap"].inbox # <<>>
    BY <1>2 DEF TapReads
  <2>2. Fits("tap", d)
    BY <1>1, <2>1, CallNow, ReadFits
  <2> QED BY <1>1, <2>1, <2>2, OneCall, EnvStays
<1>3. CASE TapFails
  BY <1>1, <1>3, CallNow, ReturnFits DEF TapFails
<1>4. CASE LoopTakesAttach
  <2>1. UNCHANGED env /\ conn' = [conn EXCEPT !["tap"] = conn["tap"]]
    BY <1>4 DEF LoopTakesAttach, ReceiverInv, CallsInv
  <2> QED BY <1>1, <2>1, CallNow, OneCall, EnvStays
<1>5. CASE GenerationEnds
  <2>1. UNCHANGED env /\ conn' = [conn EXCEPT !["tap"] = Closed]
    BY <1>5 DEF GenerationEnds
  <2>2. Fits("tap", Closed)
    BY <1>1, ClosedCall, AtRest DEF Busy
  <2> QED BY <1>1, <2>1, <2>2, OneCall, EnvStays
<1> QED BY <1>2, <1>3, <1>4, <1>5

-----------------------------------------------------------------------------
(* The hardware.                                                           *)

\* What is kept of q and what comes behind it.
LEMMA WithinKeeps ==
  ASSUME NEW q \in Seq(Reports), NEW w \in Seq(Reports), NEW k, k = Within(q \o w, MaxInbox)
  PROVE  /\ k \in Seq(Reports) /\ Len(k) <= MaxInbox
         /\ \A i \in 1..Len(k) : \/ i \in 1..Len(q) /\ k[i] = q[i]
                                 \/ /\ i > Len(q) /\ i - Len(q) \in 1..Len(w)
                                    /\ k[i] = w[i - Len(q)]
         /\ Len(q) + Len(w) <= MaxInbox => Len(k) = Len(q) + Len(w)
         /\ Len(q) <= MaxInbox => Len(q) <= Len(k)
<1>1. PICK v \in Seq(Reports) : v = q \o w
  BY ConcatProperties
<1>2. /\ Len(v) = Len(q) + Len(w) /\ Len(v) \in Nat /\ Len(q) \in Nat /\ Len(w) \in Nat
      /\ \A i \in 1..Len(v) : v[i] = IF i <= Len(q) THEN q[i] ELSE w[i - Len(q)]
  BY <1>1
<1>3. PICK n \in Nat : n = IF Len(v) < MaxInbox THEN Len(v) ELSE MaxInbox
  BY <1>2, Bounds
<1>4. n <= Len(v) /\ n <= MaxInbox /\ k = SubSeq(v, 1, n)
  BY <1>1, <1>2, <1>3, Bounds DEF Within
<1>5. k \in Seq(Reports) /\ Len(k) = n /\ \A i \in 1..n : k[i] = v[i]
  BY <1>2, <1>4
<1>6. \A i \in 1..n : v[i] \in Reports
  BY <1>2, <1>4
<1>7. \A i \in 1..n : \/ i \in 1..Len(q) /\ k[i] = q[i]
                      \/ i > Len(q) /\ i - Len(q) \in 1..Len(w) /\ k[i] = w[i - Len(q)]
  BY <1>2, <1>4, <1>5
<1>8. Len(q) + Len(w) <= MaxInbox => Len(k) = Len(q) + Len(w)
  BY <1>2, <1>3, <1>5, Bounds
<1>9. Len(q) <= MaxInbox => Len(q) <= Len(k)
  BY <1>2, <1>3, <1>5, Bounds
<1> QED BY <1>4, <1>5, <1>7, <1>8, <1>9

\* Replies are true, and changes of the links known to the calls.
Told(replies, changes, ups, downs) ==
  /\ replies \in Seq(Reports) /\ changes \in Seq(Reports)
  /\ \A n \in DOMAIN changes : changes[n].fn = "link"
  /\ \A n \in DOMAIN replies :
       /\ replies[n].value # Refused => Linked(replies[n].from)
       /\ replies[n].fn = "getFeature" /\ replies[n].from \in Slots /\ replies[n].value = Refused
            => ~Linked(replies[n].from)
  /\ \A i \in Indexes : /\ Linked(i)' => Linked(i) \/ i \in ups
                        /\ ~Linked(i)' => ~Linked(i) \/ i \in downs

LEMMA HeardFits ==
  ASSUME ReceiverInv, NEW replies, NEW changes, NEW ups, NEW downs,
         Told(replies, changes, ups, downs), NEW p \in Callers, NEW o \in Calls, o = conn[p],
         NEW d \in Calls, d.at = o.at, d.goal = o.goal, d.target = o.target, d.result = o.result,
         d.inbox = Hears(p, replies, changes), d.cut => o.cut \/ Indexes \subseteq downs,
         o.was => d.was, p # "tap" /\ Calling(p) /\ o.target \in ups => d.was,
         o.excused => d.excused, p = "worker" /\ Calling(p) /\ o.target \in downs => d.excused
  PROVE  Fits(p, d)'
<1>1. Fits(p, o)
  BY CallNow
<1>2. o.target \in Indexes /\ o.inbox \in Seq(Reports) /\ d.inbox \in Seq(Reports)
  BY DEF Calls
<1>3. Len(d.inbox) <= MaxInbox
  <2> DEFINE w == (IF conn[p].at = "tap" THEN <<>> ELSE replies)
                  \o (IF p = "tap" THEN changes ELSE <<>>)
  <2>1. w \in Seq(Reports)
    BY DEF Told
  <2>2. d.inbox = Within(o.inbox \o w, MaxInbox) \/ d.inbox = o.inbox
    BY DEF Hears
  <2> HIDE DEF w
  <2> QED BY <1>1, <1>2, <2>1, <2>2, WithinKeeps DEF Fits
<1>4. p # "tap" => \A r \in Replies(d) : r \in Replies(o) \/ \E n \in DOMAIN replies : r = replies[n]
  <2> SUFFICES ASSUME p # "tap", d.inbox # o.inbox
               PROVE  \A r \in Replies(d) :
                        r \in Replies(o) \/ \E n \in DOMAIN replies : r = replies[n]
    BY DEF Replies
  <2> DEFINE w == (IF conn[p].at = "tap" THEN <<>> ELSE replies) \o <<>>
  <2>1. w = replies \/ w = <<>>
    BY DEF Told
  <2>2. w \in Seq(Reports) /\ \A i \in 1..Len(w) : i \in DOMAIN replies /\ w[i] = replies[i]
    BY <2>1 DEF Told
  <2>3. d.inbox = Within(o.inbox \o w, MaxInbox)
    BY DEF Hears
  <2> HIDE DEF w
  <2>4. \A i \in 1..Len(d.inbox) :
          \/ i \in 1..Len(o.inbox) /\ d.inbox[i] = o.inbox[i]
          \/ i - Len(o.inbox) \in 1..Len(w) /\ d.inbox[i] = w[i - Len(o.inbox)]
    <3>1. PICK q \in Seq(Reports) : q = o.inbox
      BY <1>2
    <3>2. PICK k : k = d.inbox /\ k = Within(q \o w, MaxInbox)
      BY <2>3, <3>1
    <3>3. w \in Seq(Reports)
      BY <2>2
    <3>4. \A i \in 1..Len(k) : \/ i \in 1..Len(q) /\ k[i] = q[i]
                               \/ /\ i > Len(q) /\ i - Len(q) \in 1..Len(w)
                                  /\ k[i] = w[i - Len(q)]
      BY <3>2, <3>3, WithinKeeps
    <3> QED BY <3>1, <3>2, <3>4
  <2>5. \A i \in 1..Len(d.inbox) :
          \/ i \in DOMAIN o.inbox /\ d.inbox[i] = o.inbox[i]
          \/ \E n \in DOMAIN replies : d.inbox[i] = replies[n]
    <3>1. \A n \in 1..Len(w) : n \in DOMAIN replies /\ w[n] = replies[n]
      BY <2>2
    <3>2. DOMAIN o.inbox = 1..Len(o.inbox)
      BY <1>2
    <3> QED BY <2>4, <3>1, <3>2
  <2> QED BY <1>2, <2>5 DEF Replies
<1>5. ASSUME Calling(p), p # "tap" PROVE Here(d)'
  <2>1. Here(o)
    BY <1>1, <1>5 DEF Fits, Underway, Calling, Idle, Busy
  <2>2. Linked(d.target)' => d.was
    BY <1>2, <1>5, <2>1 DEF Told, Here
  <2>3. d.target = Direct /\ d.at # "opening" => d.was
    BY <2>1 DEF Here
  <2>4. ASSUME NEW r \in Replies(d), Linking(d, r) PROVE d.was
    <3>1. CASE r \in Replies(o)
      BY <2>1, <2>4, <3>1 DEF Here, Linking
    <3>2. CASE \E n \in DOMAIN replies : r = replies[n]
      BY <2>1, <2>4, <3>2 DEF Here, Linking, Told
    <3> QED BY <1>4, <1>5, <3>1, <3>2
  <2> QED BY <2>2, <2>3, <2>4 DEF Here, Replies, Linking
<1>6. ASSUME Calling(p), p = "worker" PROVE Away(d)'
  <2>1. Away(o)
    BY <1>1, <1>6 DEF Fits, Underway, Calling, Idle, Busy
  <2>2. ~Linked(d.target)' => d.excused
    BY <1>2, <1>6, <2>1 DEF Told, Away
  <2>3. d.cut => d.excused
    BY <1>2, <1>6, <2>1 DEF Away
  <2>4. ASSUME NEW r \in Replies(d), Unlinking(d, r) PROVE d.excused
    <3>1. CASE r \in Replies(o)
      BY <2>1, <2>4, <3>1 DEF Away, Unlinking
    <3>2. CASE \E n \in DOMAIN replies : r = replies[n]
      BY <2>1, <2>4, <3>2 DEF Away, Unlinking, Told
    <3> QED BY <1>4, <1>6, <3>1, <3>2
  <2> QED BY <2>2, <2>3, <2>4 DEF Away, Replies, Unlinking
<1>7. Busy(d) => Underway(p, d)'
  <2>1. Busy(d) => Calling(p) /\ Underway(p, o)
    BY <1>1 DEF Busy, Calling, Idle, Fits
  <2> QED BY <1>5, <1>6, <2>1 DEF Underway, Triggers
<1> QED BY <1>1, <1>3, <1>7 DEF Fits, Busy, Goals

\* The connections are cut.
CutOff(last) == [p \in Callers |-> [last[p] EXCEPT !.cut = @ \/ p \in Reading]]

LEMMA HappensInv ==
  ASSUME ReceiverInv, HardwareInv', NEW replies, NEW changes, NEW ups, NEW downs,
         Told(replies, changes, ups, downs), NEW last, last = Happens(replies, changes, ups, downs),
         conn' = last \/ (Indexes \subseteq downs /\ conn' = CutOff(last))
  PROVE  ReceiverInv'
<1>1. ASSUME NEW p \in Callers
      PROVE  conn'[p] \in Calls /\ Fits(p, conn[p])'
  <2>1. PICK o \in Calls : o = conn[p]
    BY CallNow
  <2>2. PICK q : q = Hears(p, replies, changes)
    OBVIOUS
  <2>3. q \in Seq(Reports)
    <3> DEFINE w == (IF conn[p].at = "tap" THEN <<>> ELSE replies)
                    \o (IF p = "tap" THEN changes ELSE <<>>)
    <3>1. w \in Seq(Reports)
      BY DEF Told
    <3>2. q = Within(o.inbox \o w, MaxInbox) \/ q = o.inbox
      BY <2>1, <2>2 DEF Hears
    <3> HIDE DEF w
    <3> QED BY <3>1, <3>2, WithinKeeps DEF Calls
  <2>4. PICK was \in BOOLEAN : was = (o.was \/ (p # "tap" /\ Calling(p) /\ o.target \in ups))
    BY DEF Calls
  <2>5. PICK excused \in BOOLEAN :
          excused = (o.excused \/ (p = "worker" /\ Calling(p) /\ o.target \in downs))
    BY DEF Calls
  <2>6. last[p] = [o EXCEPT !.inbox = q, !.was = was, !.excused = excused]
    BY <2>1, <2>2, <2>4, <2>5 DEF Happens
  <2>7. /\ last[p] \in Calls /\ last[p].at = o.at /\ last[p].goal = o.goal
        /\ last[p].target = o.target /\ last[p].result = o.result /\ last[p].inbox = q
        /\ last[p].cut = o.cut /\ last[p].was = was /\ last[p].excused = excused
    BY <2>3, <2>6 DEF Calls
  <2>8. PICK d : d = conn'[p]
    OBVIOUS
  <2>9. \/ d = last[p]
        \/ Indexes \subseteq downs /\ d = [last[p] EXCEPT !.cut = @ \/ p \in Reading]
    BY <2>8 DEF CutOff
  <2>10. o.cut \in BOOLEAN
    BY DEF Calls
  <2>11. /\ d \in Calls /\ d.at = o.at /\ d.goal = o.goal
         /\ d.target = o.target /\ d.result = o.result /\ d.inbox = q
         /\ d.cut => o.cut \/ Indexes \subseteq downs
         /\ d.was = was /\ d.excused = excused
    <3>1. CASE d = last[p]
      BY <2>7, <2>10, <3>1
    <3>2. CASE Indexes \subseteq downs /\ d = [last[p] EXCEPT !.cut = @ \/ p \in Reading]
      <4>1. PICK l \in Calls : l = last[p]
        BY <2>7
      <4>2. PICK c \in BOOLEAN : c = (l.cut \/ p \in Reading)
        BY DEF Calls
      <4>3. d = [l EXCEPT !.cut = c]
        BY <3>2, <4>1, <4>2
      <4>4. /\ d \in Calls /\ d.at = l.at /\ d.goal = l.goal /\ d.target = l.target
            /\ d.result = l.result /\ d.inbox = l.inbox /\ d.was = l.was /\ d.excused = l.excused
        BY <4>3 DEF Calls
      <4> QED BY <2>7, <3>2, <4>1, <4>4
    <3> QED BY <2>9, <3>1, <3>2
  <2>12. /\ o.was => d.was
         /\ p # "tap" /\ Calling(p) /\ o.target \in ups => d.was
         /\ o.excused => d.excused
         /\ p = "worker" /\ Calling(p) /\ o.target \in downs => d.excused
    BY <2>4, <2>5, <2>11
  <2>13. Fits(p, d)'
    BY <2>1, <2>2, <2>11, <2>12, HeardFits
  <2> QED BY <2>8, <2>11, <2>13
<1>2. conn' \in [Callers -> Calls]
  BY <1>1 DEF Happens, CutOff
<1> QED BY <1>1, <1>2 DEF ReceiverInv, CallsInv

\* A report is a sequence of its own.
LEMMA OneReport ==
  ASSUME NEW r \in Reports
  PROVE  /\ <<r>> \in Seq(Reports) /\ Len(<<r>>) = 1 /\ DOMAIN <<r>> = {1} /\ <<r>>[1] = r
         /\ <<>> \in Seq(Reports) /\ DOMAIN <<>> = {}
<1>1. DOMAIN <<r>> = {1}
  <2>1. DOMAIN <<r>> = 1..1
    OBVIOUS
  <2> QED BY <2>1
<1> QED BY <1>1

LEMMA LinkReport ==
  ASSUME NEW s \in Slots, NEW up \in BOOLEAN
  PROVE  LinkChange(s, up) \in Reports /\ LinkChange(s, up).fn = "link"
BY DEF LinkChange, Reports, Indexes, Root, ChangeHost, Refused

LEMMA LinkedStays ==
  ASSUME UNCHANGED <<plugged, link>>, NEW i PROVE Linked(i)' <=> Linked(i)
BY DEF Linked

\* A link changes by itself.
LEMMA LinksInv ==
  ASSUME ReceiverInv, NEW s \in Slots, LinkUp(s) \/ LinkDown(s) PROVE ReceiverInv'
<1>1. /\ kind \in Kinds /\ plugged \in BOOLEAN /\ link \in [Slots -> BOOLEAN]
      /\ ~plugged => \A i \in Slots : ~link[i]
      /\ asked \subseteq Requests /\ IsFiniteSet(asked) /\ Cardinality(asked) <= MaxAsked
  BY DEF ReceiverInv, HardwareInv
<1>2. CASE LinkUp(s)
  <2>1. /\ plugged /\ link' = [link EXCEPT ![s] = TRUE] /\ UNCHANGED <<kind, plugged, asked>>
        /\ conn' = Happens(<<>>, <<LinkChange(s, TRUE)>>, {s}, {})
    BY <1>2 DEF LinkUp
  <2>2. HardwareInv'
    BY <1>1, <2>1 DEF HardwareInv
  <2>3. \A i \in Indexes : /\ Linked(i)' => Linked(i) \/ i \in {s}
                           /\ ~Linked(i)' => ~Linked(i)
    BY <1>1, <2>1 DEF Linked, Indexes
  <2>4. Told(<<>>, <<LinkChange(s, TRUE)>>, {s}, {})
    <3>1. PICK r \in Reports : r = LinkChange(s, TRUE) /\ r.fn = "link"
      BY LinkReport
    <3> QED BY <2>3, <3>1, OneReport DEF Told
  <2> QED BY <2>1, <2>2, <2>4, HappensInv
<1>3. CASE LinkDown(s)
  <2>1. /\ link' = [link EXCEPT ![s] = FALSE] /\ UNCHANGED <<kind, plugged, asked>>
        /\ conn' = Happens(<<>>, <<LinkChange(s, FALSE)>>, {}, {s})
    BY <1>3 DEF LinkDown
  <2>2. HardwareInv'
    BY <1>1, <2>1 DEF HardwareInv
  <2>3. \A i \in Indexes : /\ Linked(i)' => Linked(i)
                           /\ ~Linked(i)' => ~Linked(i) \/ i \in {s}
    BY <1>1, <2>1 DEF Linked, Indexes
  <2>4. Told(<<>>, <<LinkChange(s, FALSE)>>, {}, {s})
    <3>1. PICK r \in Reports : r = LinkChange(s, FALSE) /\ r.fn = "link"
      BY LinkReport
    <3> QED BY <2>3, <3>1, OneReport DEF Told
  <2> QED BY <2>1, <2>2, <2>4, HappensInv
<1> QED BY <1>2, <1>3

\* A reply is a report, and what an honest one tells.
LEMMA ReplyReport ==
  ASSUME NEW q \in Requests, NEW value \in Refused..ChangeHost
  PROVE  /\ Report(q, value) \in Reports /\ Report(q, value).from = q.to
         /\ Report(q, value).fn = q.fn /\ Report(q, value).value = value
BY DEF Report, Reports, Requests

\* One request less.
LEMMA AsksLess ==
  ASSUME HardwareInv, NEW q \in asked, UNCHANGED <<kind, plugged>>, link' \in [Slots -> BOOLEAN],
         ~plugged => \A i \in Slots : ~link'[i], asked' = asked \ {q}
  PROVE  HardwareInv' /\ q \in Requests
<1>1. IsFiniteSet(asked) /\ asked \subseteq Requests /\ Cardinality(asked) <= MaxAsked
  BY DEF HardwareInv
<1>2. IsFiniteSet(asked') /\ Cardinality(asked') = Cardinality(asked) - 1
  BY <1>1, FS_RemoveElement
<1>3. Cardinality(asked) \in Nat
  BY <1>1, FS_CardinalityType
<1>4. Cardinality(asked') <= MaxAsked
  BY <1>1, <1>2, <1>3, Bounds
<1> QED BY <1>1, <1>2, <1>4 DEF HardwareInv

\* The node goes away, after replies that are true.
LEMMA GoneInv ==
  ASSUME ReceiverInv, NEW replies \in Seq(Reports),
         \A n \in DOMAIN replies : replies[n].value # Refused /\ Linked(replies[n].from),
         Gone(replies)
  PROVE  ReceiverInv'
<1>1. kind \in Kinds
  BY DEF ReceiverInv, HardwareInv
<1>2. /\ UNCHANGED kind /\ plugged' = FALSE /\ link' = [s \in Slots |-> FALSE] /\ asked' = {}
  BY DEF Gone
<1>3. /\ IsFiniteSet(asked') /\ Cardinality(asked') <= MaxAsked /\ asked' \subseteq Requests
  <2>1. PICK T : T = asked'
    OBVIOUS
  <2>2. IsFiniteSet(T) /\ Cardinality(T) = 0
    BY <1>2, <2>1, FS_EmptySet
  <2> QED BY <1>2, <2>1, <2>2, Bounds
<1>4. HardwareInv'
  BY <1>1, <1>2, <1>3 DEF HardwareInv
<1>5. \A i \in Indexes : ~Linked(i)'
  BY <1>2 DEF Linked, Indexes
<1>6. Told(replies, <<>>, {}, Indexes)
  BY <1>5, OneReport DEF Told
<1>7. PICK last : /\ last = Happens(replies, <<>>, {}, Indexes)
                  /\ conn' = CutOff(last)
  BY DEF Gone, CutOff
<1> QED BY <1>4, <1>6, <1>7, HappensInv

\* A device answers, or refuses to move.
LEMMA AnswersInv ==
  ASSUME ReceiverInv, NEW q \in asked, Answers(q) \/ RefusesToMove(q)
  PROVE  ReceiverInv'
<1>1. UNCHANGED <<kind, plugged, link>> /\ asked' = asked \ {q}
  BY DEF Answers, RefusesToMove
<1>2. HardwareInv' /\ q \in Requests
  BY <1>1, AsksLess DEF ReceiverInv, HardwareInv
<1>3. q.to \in Indexes /\ q.arg \in Root..ChangeHost
      /\ q.fn \in {"getFeature", "readRegister", "setHost"}
  BY <1>2 DEF Requests
<1>4. ASSUME NEW value \in Refused..ChangeHost,
             value # Refused => Linked(q.to),
             q.fn = "getFeature" /\ q.to \in Slots /\ value = Refused => ~Linked(q.to),
             conn' = Happens(<<Report(q, value)>>, <<>>, {}, {})
      PROVE  ReceiverInv'
  <2>1. PICK r \in Reports : /\ r = Report(q, value) /\ r.from = q.to /\ r.fn = q.fn
                             /\ r.value = value
    BY <1>2, ReplyReport
  <2>2. \A i : Linked(i)' <=> Linked(i)
    BY <1>1, LinkedStays
  <2>3. Told(<<r>>, <<>>, {}, {})
    BY <1>4, <2>1, <2>2, OneReport DEF Told
  <2>4. conn' = Happens(<<r>>, <<>>, {}, {})
    BY <1>4, <2>1
  <2> QED BY <1>2, <2>3, <2>4, HappensInv
<1>5. CASE Answers(q)
  <2>1. Value(q) \in Refused..ChangeHost
    BY <1>3 DEF Value, Refused, ChangeHost, Root
  <2>2. Value(q) # Refused => Linked(q.to)
    BY DEF Value
  <2>3. q.fn = "getFeature" /\ q.to \in Slots /\ Value(q) = Refused => ~Linked(q.to)
    BY <1>3, Bounds DEF Value, Refused, ChangeHost, Root, Direct
  <2>4. conn' = Happens(<<Report(q, Value(q))>>, <<>>, {}, {})
    BY <1>5 DEF Answers
  <2> QED BY <1>4, <2>1, <2>2, <2>3, <2>4
<1>6. CASE RefusesToMove(q)
  <2>1. Refused \in Refused..ChangeHost
    BY DEF Refused, ChangeHost
  <2> QED BY <1>4, <1>6, <2>1 DEF RefusesToMove, AsksToMove
<1> QED BY <1>5, <1>6

\* A device moves, with or without an ACK.
LEMMA MovesInv ==
  ASSUME ReceiverInv, NEW q \in asked, Moves(q) PROVE ReceiverInv'
<1>1. q \in Requests /\ q.to \in Indexes /\ q.fn = "setHost" /\ Linked(q.to)
  BY DEF ReceiverInv, HardwareInv, Requests, Moves, AsksToMove
<1>2. PICK r \in Reports : /\ r = Report(q, 0) /\ r.from = q.to /\ r.fn = "setHost" /\ r.value = 0
  <2>1. 0 \in Refused..ChangeHost
    BY DEF Refused, ChangeHost
  <2> QED BY <1>1, <2>1, ReplyReport
<1>3. PICK ack \in {<<>>, <<r>>} :
        \/ q.to = Direct /\ Gone(ack)
        \/ /\ q.to # Direct
           /\ link' = [link EXCEPT ![q.to] = FALSE]
           /\ asked' = asked \ {q}
           /\ conn' = Happens(ack, <<LinkChange(q.to, FALSE)>>, {}, {q.to})
           /\ UNCHANGED <<kind, plugged, attach, due, owed>>
  BY <1>2 DEF Moves
<1>4. /\ ack \in Seq(Reports)
      /\ \A n \in DOMAIN ack : ack[n].value # Refused /\ Linked(ack[n].from) /\ ack[n].fn = "setHost"
  <2>1. CASE ack = <<>>
    BY <2>1, OneReport
  <2>2. CASE ack = <<r>>
    <3>1. r.value # Refused /\ Linked(r.from) /\ r.fn = "setHost"
      BY <1>1, <1>2 DEF Refused
    <3>2. <<r>> \in Seq(Reports) /\ DOMAIN <<r>> = {1} /\ <<r>>[1] = r
      BY OneReport
    <3> QED BY <2>2, <3>1, <3>2
  <2> QED BY <2>1, <2>2
<1>5. CASE q.to = Direct /\ Gone(ack)
  BY <1>4, <1>5, GoneInv
<1>6. CASE q.to # Direct
  <2>1. /\ kind \in Kinds /\ plugged \in BOOLEAN /\ link \in [Slots -> BOOLEAN]
        /\ ~plugged => \A i \in Slots : ~link[i]
    BY DEF ReceiverInv, HardwareInv
  <2>2. q.to \in Slots /\ link' = [link EXCEPT ![q.to] = FALSE] /\ UNCHANGED <<kind, plugged>>
        /\ conn' = Happens(ack, <<LinkChange(q.to, FALSE)>>, {}, {q.to}) /\ asked' = asked \ {q}
    BY <1>1, <1>3, <1>6 DEF Indexes
  <2>3. HardwareInv'
    BY <2>1, <2>2, AsksLess DEF ReceiverInv
  <2>4. \A i \in Indexes : /\ Linked(i)' => Linked(i)
                           /\ ~Linked(i)' => ~Linked(i) \/ i \in {q.to}
    BY <2>1, <2>2 DEF Linked, Indexes
  <2>5. Told(ack, <<LinkChange(q.to, FALSE)>>, {}, {q.to})
    <3>1. PICK c \in Reports : c = LinkChange(q.to, FALSE) /\ c.fn = "link"
      BY <2>2, LinkReport
    <3>2. \A n \in DOMAIN ack : ack[n].value # Refused /\ Linked(ack[n].from) /\ ack[n].fn = "setHost"
      BY <1>4
    <3>3. ack \in Seq(Reports)
      BY <1>4
    <3>4. <<c>> \in Seq(Reports) /\ \A n \in DOMAIN <<c>> : <<c>>[n].fn = "link"
      BY <3>1, OneReport
    <3> QED BY <2>4, <3>1, <3>2, <3>3, <3>4 DEF Told
  <2> QED BY <2>2, <2>3, <2>5, HappensInv
<1>7. (q.to = Direct /\ Gone(ack)) \/ q.to # Direct
  BY <1>3
<1> QED BY <1>5, <1>6, <1>7

LEMMA HardwareStepInv == ASSUME ReceiverInv, Hardware PROVE ReceiverInv'
<1>1. /\ kind \in Kinds /\ plugged \in BOOLEAN /\ link \in [Slots -> BOOLEAN]
      /\ ~plugged => \A i \in Slots : ~link[i]
      /\ asked \subseteq Requests /\ IsFiniteSet(asked) /\ Cardinality(asked) <= MaxAsked
  BY DEF ReceiverInv, HardwareInv
<1>2. CASE OtherAsks
  <2>1. PICK i \in Indexes :
          asked' = asked \cup {[to |-> i, feat |-> Root, fn |-> "getFeature",
                                arg |-> IF i = Direct THEN FeatureSet ELSE Root]}
    BY <1>2 DEF OtherAsks
  <2>2. PICK q : q = [to |-> i, feat |-> Root, fn |-> "getFeature",
                      arg |-> IF i = Direct THEN FeatureSet ELSE Root]
    OBVIOUS
  <2>3. q \in Requests
    BY <2>2 DEF Requests, Root, FeatureSet, ChangeHost
  <2>4. UNCHANGED <<kind, plugged, link, conn>> /\ Cardinality(asked) < MaxAsked
    BY <1>2 DEF OtherAsks
  <2>5. HardwareInv'
    BY <1>1, <2>1, <2>2, <2>3, <2>4, AsksMore DEF HardwareInv, ReceiverInv
  <2>6. \A p \in Callers : Fits(p, conn'[p])
    BY <2>4, CallNow
  <2> QED BY <2>4, <2>5, <2>6, AllCalls DEF ReceiverInv, CallsInv
<1>3. ASSUME NEW q \in asked, Ignores(q) PROVE ReceiverInv'
  <2>1. UNCHANGED <<kind, plugged, link, conn>> /\ asked' = asked \ {q}
    BY <1>3 DEF Ignores
  <2>2. HardwareInv'
    BY <1>1, <2>1, AsksLess DEF ReceiverInv
  <2>3. \A p \in Callers : Fits(p, conn'[p])
    BY <2>1, CallNow
  <2> QED BY <2>1, <2>2, <2>3, AllCalls DEF ReceiverInv, CallsInv
<1>4. CASE Unplug
  <2>1. <<>> \in Seq(Reports) /\ DOMAIN <<>> = {}
    OBVIOUS
  <2> QED BY <1>4, <2>1, GoneInv DEF Unplug
<1>5. CASE Plug
  <2>1. plugged' = TRUE /\ UNCHANGED <<kind, link, asked>>
        /\ conn' = Happens(<<>>, <<>>, {Direct}, {})
    BY <1>5 DEF Plug
  <2>2. HardwareInv'
    BY <1>1, <2>1 DEF HardwareInv
  <2>3. \A i \in Indexes : /\ Linked(i)' => Linked(i) \/ i \in {Direct}
                           /\ ~Linked(i)' => ~Linked(i)
    BY <2>1 DEF Linked
  <2>4. Told(<<>>, <<>>, {Direct}, {})
    BY <2>3, OneReport DEF Told
  <2> QED BY <2>1, <2>2, <2>4, HappensInv
<1> QED BY <1>2, <1>3, <1>4, <1>5, LinksInv, AnswersInv, MovesInv DEF Hardware

-----------------------------------------------------------------------------
(* The specification.                                                      *)

LEMMA ReceiverInvInit == Init => ReceiverInv
<1> SUFFICES ASSUME Init PROVE ReceiverInv
  OBVIOUS
<1>1. kind \in Kinds /\ plugged = TRUE /\ link \in [Slots -> BOOLEAN] /\ asked = {}
  BY DEF Init
<1>2. HardwareInv
  <2>1. IsFiniteSet(asked) /\ Cardinality(asked) = 0
    BY <1>1, FS_EmptySet
  <2> QED BY <1>1, <2>1, Bounds DEF HardwareInv
<1>3. \A p \in Callers : Fits(p, Closed)
  BY ClosedCall, AtRest DEF Busy
<1>4. CallsInv
  BY <1>3, ClosedCall DEF Init, CallsInv
<1> QED BY <1>2, <1>4 DEF ReceiverInv

LEMMA ReceiverInvNext == ReceiverInv /\ [Next]_vars => ReceiverInv'
<1> SUFFICES ASSUME ReceiverInv, [Next]_vars PROVE ReceiverInv'
  OBVIOUS
<1>1. CASE WorkerSends \/ PollChecks \/ DetectorRuns
  BY <1>1, StartsInv
<1>2. CASE \E p \in Callers : Proceeds(p)
  BY <1>2, OpensInv, NotThereInv, OpenFailsInv, WritesInv, WriteFailsInv DEF Proceeds
<1>3. CASE \E p \in Callers : TimesOut(p)
  BY <1>3, NudgesInv, SilentInv DEF TimesOut
<1>4. CASE \E p \in Callers : Reads(p)
  BY <1>4, DiscardsInv, AnsweredInv, LinkDropsInv DEF Reads
<1>5. CASE \E p \in Callers : DeadlineEnds(p) \/ Cancelled(p)
  BY <1>5, EndsInv
<1>6. CASE TapReads \/ TapFails \/ LoopTakesAttach \/ GenerationEnds
  BY <1>6, TapInv
<1>7. CASE Hardware
  BY <1>7, HardwareStepInv
<1>8. CASE UNCHANGED vars
  <2>1. HardwareInv' /\ UNCHANGED <<plugged, link>> /\ UNCHANGED conn
    BY <1>8 DEF vars, env, ReceiverInv, HardwareInv
  <2>2. \A p \in Callers : Fits(p, conn'[p])
    BY <2>1, CallNow
  <2> QED BY <2>1, <2>2, AllCalls DEF ReceiverInv, CallsInv
<1> QED BY <1>1, <1>2, <1>3, <1>4, <1>5, <1>6, <1>7, <1>8 DEF Next

\* What Send, Present and the detector may conclude at every point of every
\* exchange follows from the replies they hold and the links as they are.
THEOREM ReceiverInductive == Spec => []ReceiverInv
BY ReceiverInvInit, ReceiverInvNext, PTL DEF Spec

\* Present and Send say a device was here only if it was linked at some time
\* while they ran, whatever is asked and answered on the other connections.
THEOREM HereCorrect == Spec => []HereWasHere
<1>1. ReceiverInv => HereWasHere
  BY DEF ReceiverInv, CallsInv, Fits, HereWasHere
<1> QED BY <1>1, ReceiverInductive, PTL

\* A give-away ends with "nothing to move" only if the device was off the link
\* at some time while Send ran, left a probe unanswered, or was cancelled.
THEOREM NothingCorrect == Spec => []NothingWasNotHere
<1>1. ReceiverInv => NothingWasNotHere
  BY DEF ReceiverInv, CallsInv, Fits, NothingWasNotHere
<1> QED BY <1>1, ReceiverInductive, PTL

-----------------------------------------------------------------------------
(* The detector's edges.                                                   *)

Up(r, s) == r.fn = "link" /\ r.value = 1 /\ r.from = s

\* There are at most n reports in q that s took the link: d counts those left
\* behind each place.
Covers(q, s, n) ==
  \E d \in [0..Len(q) -> Nat] :
    d[0] <= n /\ \A i \in 1..Len(q) : d[i - 1] >= d[i] + IF Up(q[i], s) THEN 1 ELSE 0

\* An edge the detector may still emit is due: from the probe of a slot, when
\* it started, or from a report not read.
DueInv ==
  /\ attach \in BOOLEAN /\ owed \in BOOLEAN /\ due \in [Slots -> 0..(MaxInbox + 1)]
  /\ conn["tap"].goal # "none" => Busy(conn["tap"])
  /\ conn["tap"].goal = "startup" =>
       /\ \A s \in Slots : link[s] => due[s] > 0
       /\ \A r \in Replies(conn["tap"]) : Linking(conn["tap"], r) => due[conn["tap"].target] > 0
  /\ conn["tap"].goal = "watch" => \A s \in Slots : Covers(conn["tap"].inbox, s, due[s])

\* A step keeps it, and emits an edge only for a watched slot to which one is due.
DueStep ==
  /\ DueInv'
  /\ ~attach /\ attach' => \E s \in Triggers : due'[s] = due[s] - 1 /\ due[s] > 0

\* What it says of the tap after a step.
LEMMA DueNow ==
  ASSUME attach' \in BOOLEAN, owed' \in BOOLEAN, due' \in [Slots -> 0..(MaxInbox + 1)],
         NEW t, t = conn'["tap"], t.goal # "none" => Busy(t),
         t.goal = "startup" =>
           /\ \A s \in Slots : link'[s] => due'[s] > 0
           /\ \A r \in Replies(t) : Linking(t, r) => due'[t.target] > 0,
         t.goal = "watch" => \A s \in Slots : Covers(t.inbox, s, due'[s])
  PROVE  DueInv'
<1>1. Busy(conn["tap"])' <=> Busy(t)
  BY DEF Busy
<1>2. /\ Replies(conn["tap"])' = Replies(t)
      /\ \A r : Linking(conn["tap"], r)' <=> Linking(t, r)
  BY DEF Replies, Linking
<1>3. \A s : Covers(conn["tap"].inbox, s, due[s])' <=> Covers(t.inbox, s, due'[s])
  BY DEF Covers, Up
<1> QED BY <1>1, <1>2, <1>3 DEF DueInv

\* A step that emits no edge.
LEMMA DueStays ==
  ASSUME DueInv, UNCHANGED <<attach, due, owed>>,
         NEW t, t = conn'["tap"], t.goal # "none" => Busy(t),
         t.goal = "startup" =>
           /\ \A s \in Slots : link'[s] => due'[s] > 0
           /\ \A r \in Replies(t) : Linking(t, r) => due'[t.target] > 0,
         t.goal = "watch" => \A s \in Slots : Covers(t.inbox, s, due'[s])
  PROVE  DueStep
<1>1. attach' \in BOOLEAN /\ owed' \in BOOLEAN /\ due' \in [Slots -> 0..(MaxInbox + 1)]
  BY DEF DueInv
<1>2. DueInv'
  BY <1>1, DueNow
<1> QED BY <1>2 DEF DueStep

LEMMA CoversNone == ASSUME NEW s, NEW n \in Nat PROVE Covers(<<>>, s, n)
<1> DEFINE e == [i \in 0..0 |-> 0]
<1>1. Len(<<>>) = 0 /\ 0..0 = {0} /\ 1..0 = {}
  OBVIOUS
<1>2. e \in [0..Len(<<>>) -> Nat] /\ e[0] <= n /\ 1..Len(<<>>) = {}
  BY <1>1
<1> HIDE DEF e
<1> QED BY <1>2 DEF Covers

\* Where a report is read.
LEMMA CoversTail ==
  ASSUME NEW q \in Seq(Reports), q # <<>>, NEW s, NEW n \in Nat, Covers(q, s, n)
  PROVE  /\ Covers(Tail(q), s, n)
         /\ Up(Head(q), s) => n > 0 /\ Covers(Tail(q), s, n - 1)
<1>1. PICK d \in [0..Len(q) -> Nat] :
        d[0] <= n /\ \A i \in 1..Len(q) : d[i - 1] >= d[i] + IF Up(q[i], s) THEN 1 ELSE 0
  BY DEF Covers
<1>2. /\ Len(q) \in Nat \ {0} /\ Len(Tail(q)) = Len(q) - 1 /\ Head(q) = q[1]
      /\ \A i \in 1..(Len(q) - 1) : Tail(q)[i] = q[i + 1]
  OBVIOUS
<1> DEFINE e == [i \in 0..(Len(q) - 1) |-> d[i + 1]]
<1>3. e \in [0..Len(Tail(q)) -> Nat] /\ e[0] = d[1]
  BY <1>2
<1>4. ASSUME NEW i \in 1..Len(Tail(q))
      PROVE  e[i - 1] >= e[i] + IF Up(Tail(q)[i], s) THEN 1 ELSE 0
  <2>1. /\ i + 1 \in 1..Len(q) /\ e[i - 1] = d[i] /\ e[i] = d[i + 1] /\ Tail(q)[i] = q[i + 1]
        /\ (i + 1) - 1 = i
    BY <1>2
  <2> QED BY <1>1, <2>1
<1>5. d[0] >= d[1] + IF Up(Head(q), s) THEN 1 ELSE 0
  BY <1>1, <1>2
<1>6. d[0] \in Nat /\ d[1] \in Nat
  BY <1>2
<1>7. e[0] <= n /\ (Up(Head(q), s) => n > 0 /\ e[0] <= n - 1)
  BY <1>1, <1>3, <1>5, <1>6
<1> HIDE DEF e
<1> QED BY <1>3, <1>4, <1>7 DEF Covers

\* Where reports are added, none of them that s took the link, or one for which
\* an edge more is due.
LEMMA CoversMore ==
  ASSUME NEW q \in Seq(Reports), NEW k \in Seq(Reports), NEW s, NEW n \in Nat, NEW m \in Nat,
         n <= m, Covers(q, s, n), Len(q) <= Len(k), \A i \in 1..Len(q) : k[i] = q[i],
         \/ \A i \in (Len(q) + 1)..Len(k) : ~Up(k[i], s)
         \/ Len(k) = Len(q) + 1 /\ n < m
  PROVE  Covers(k, s, m)
<1>1. PICK d \in [0..Len(q) -> Nat] :
        d[0] <= n /\ \A i \in 1..Len(q) : d[i - 1] >= d[i] + IF Up(q[i], s) THEN 1 ELSE 0
  BY DEF Covers
<1>2. Len(q) \in Nat /\ Len(k) \in Nat
  OBVIOUS
<1>3. CASE \A i \in (Len(q) + 1)..Len(k) : ~Up(k[i], s)
  <2> DEFINE e == [i \in 0..Len(k) |-> IF i <= Len(q) THEN d[i] ELSE d[Len(q)]]
  <2>1. e \in [0..Len(k) -> Nat] /\ e[0] = d[0]
    BY <1>2
  <2>2. ASSUME NEW i \in 1..Len(k) PROVE e[i - 1] >= e[i] + IF Up(k[i], s) THEN 1 ELSE 0
    <3>1. CASE i <= Len(q)
      <4>1. e[i - 1] = d[i - 1] /\ e[i] = d[i] /\ i \in 1..Len(q) /\ k[i] = q[i]
        BY <1>2, <3>1
      <4> QED BY <1>1, <4>1
    <3>2. CASE i > Len(q)
      <4>1. e[i - 1] = d[Len(q)] /\ e[i] = d[Len(q)] /\ i \in (Len(q) + 1)..Len(k)
            /\ d[Len(q)] \in Nat
        BY <1>2, <3>2
      <4> QED BY <1>3, <4>1
    <3> QED BY <1>2, <3>1, <3>2
  <2>3. e[0] <= m
    BY <1>1, <1>2, <2>1
  <2> HIDE DEF e
  <2> QED BY <2>1, <2>2, <2>3 DEF Covers
<1>4. CASE Len(k) = Len(q) + 1 /\ n < m
  <2> DEFINE e == [i \in 0..Len(k) |-> IF i <= Len(q) THEN d[i] + 1 ELSE d[Len(q)]]
  <2>1. e \in [0..Len(k) -> Nat] /\ e[0] = d[0] + 1 /\ d[0] \in Nat
    BY <1>2
  <2>2. ASSUME NEW i \in 1..Len(k) PROVE e[i - 1] >= e[i] + IF Up(k[i], s) THEN 1 ELSE 0
    <3>1. CASE i <= Len(q)
      <4>1. /\ i \in 1..Len(q) /\ i \in 0..Len(q) /\ i - 1 \in 0..Len(q)
            /\ i \in 0..Len(k) /\ i - 1 \in 0..Len(k) /\ i - 1 <= Len(q)
        BY <1>2, <3>1
      <4>2. k[i] = q[i] /\ d[i - 1] \in Nat /\ d[i] \in Nat
        BY <4>1
      <4>3. e[i - 1] = d[i - 1] + 1 /\ e[i] = d[i] + 1
        BY <3>1, <4>1
      <4>4. d[i - 1] >= d[i] + IF Up(k[i], s) THEN 1 ELSE 0
        BY <1>1, <4>1, <4>2
      <4> QED BY <4>2, <4>3, <4>4
    <3>2. CASE i > Len(q)
      <4>1. e[i - 1] = d[Len(q)] + 1 /\ e[i] = d[Len(q)] /\ d[Len(q)] \in Nat
        BY <1>2, <1>4, <3>2
      <4> QED BY <4>1
    <3> QED BY <1>2, <3>1, <3>2
  <2>3. e[0] <= m
    BY <1>1, <1>4, <2>1
  <2> HIDE DEF e
  <2> QED BY <2>1, <2>2, <2>3 DEF Covers
<1> QED BY <1>3, <1>4

\* No more than there are reports.
LEMMA CoversAll ==
  ASSUME NEW k \in Seq(Reports), NEW s, NEW n \in Nat, Len(k) <= n PROVE Covers(k, s, n)
<1>1. Len(k) \in Nat
  OBVIOUS
<1> DEFINE e == [i \in 0..Len(k) |-> Len(k) - i]
<1>2. e \in [0..Len(k) -> Nat] /\ e[0] <= n
  BY <1>1
<1>3. ASSUME NEW i \in 1..Len(k) PROVE e[i - 1] >= e[i] + IF Up(k[i], s) THEN 1 ELSE 0
  BY <1>1
<1> HIDE DEF e
<1> QED BY <1>2, <1>3 DEF Covers

\* The calls of the others are nothing to it, nor is the tap's own while it is
\* for the same, with the same reports to read, or less the first.
LEMMA OneDue ==
  ASSUME ReceiverInv, DueInv, NEW p \in Callers, UNCHANGED <<link, attach, due, owed>>,
         NEW d, conn' = [conn EXCEPT ![p] = d],
         d.goal = conn[p].goal, d.target = conn[p].target, Busy(d),
         d.inbox = conn[p].inbox \/ (conn[p].inbox # <<>> /\ d.inbox = Tail(conn[p].inbox))
  PROVE  DueStep
<1>1. "tap" \in Callers /\ conn \in [Callers -> Calls]
  BY DEF Callers, ReceiverInv, CallsInv
<1>2. CASE p # "tap"
  <2>1. conn'["tap"] = conn["tap"]
    BY <1>1, <1>2
  <2> QED BY <2>1 DEF DueStep, DueInv
<1>3. CASE p = "tap"
  <2>1. PICK o \in Calls : o = conn["tap"]
    BY <1>1
  <2>2. PICK q \in Seq(Reports) : q = o.inbox
    BY DEF Calls
  <2>3. conn'["tap"] = d /\ (d.inbox = q \/ (q # <<>> /\ d.inbox = Tail(q)))
        /\ d.goal = o.goal /\ d.target = o.target
    BY <1>1, <1>3, <2>1, <2>2
  <2>4. Replies(d) \subseteq Replies(o)
    <3>1. CASE d.inbox = q
      BY <2>2, <3>1 DEF Replies
    <3>2. CASE q # <<>> /\ d.inbox = Tail(q)
      <4>1. \A i \in DOMAIN Tail(q) : Tail(q)[i] = q[i + 1] /\ i + 1 \in DOMAIN q
        BY <3>2
      <4> QED BY <2>2, <3>2, <4>1 DEF Replies
    <3> QED BY <2>3, <3>1, <3>2
  <2>5. \A r : Linking(d, r) <=> Linking(o, r)
    BY <2>3 DEF Linking
  <2>6. ASSUME o.goal = "watch", NEW s \in Slots PROVE Covers(d.inbox, s, due[s])
    <3>1. Covers(q, s, due[s]) /\ due[s] \in Nat
      BY <2>1, <2>2, <2>6 DEF DueInv
    <3> QED BY <2>3, <3>1, CoversTail
  <2>7. /\ o.goal = "startup" =>
             /\ \A s \in Slots : link[s] => due[s] > 0
             /\ \A r \in Replies(d) : Linking(d, r) => due[d.target] > 0
    BY <2>1, <2>3, <2>4, <2>5 DEF DueInv
  <2>8. PICK t : t = conn'["tap"]
    OBVIOUS
  <2>9. /\ t.goal # "none" => Busy(t)
        /\ t.goal = "startup" =>
             /\ \A s \in Slots : link'[s] => due'[s] > 0
             /\ \A r \in Replies(t) : Linking(t, r) => due'[t.target] > 0
        /\ t.goal = "watch" => \A s \in Slots : Covers(t.inbox, s, due'[s])
    BY <2>3, <2>6, <2>7, <2>8
  <2> QED BY <2>8, <2>9, DueStays DEF DueInv
<1> QED BY <1>2, <1>3

LEMMA GotoDue ==
  ASSUME ReceiverInv, DueInv, NEW p \in Callers, NEW c \in Calls, UNCHANGED env,
         NEW place \in Places \ {"idle", "returned", "over"},
         c.goal = conn[p].goal, c.target = conn[p].target,
         c.inbox = conn[p].inbox \/ (conn[p].inbox # <<>> /\ c.inbox = Tail(conn[p].inbox)),
         Goto(p, c, place)
  PROVE  DueStep
<1> DEFINE d == [c EXCEPT !.at = place, !.tries = 1, !.sent = FALSE]
<1>1. d.goal = c.goal /\ d.target = c.target /\ d.inbox = c.inbox /\ Busy(d)
  BY DEF Calls, Busy
<1>2. conn' = [conn EXCEPT ![p] = d] /\ UNCHANGED <<link, attach, due, owed>>
  BY DEF Goto, env
<1> HIDE DEF d
<1> QED BY <1>1, <1>2, OneDue

\* The tap's call ends, and what was due is forgotten.
LEMMA TapOver ==
  ASSUME ReceiverInv, DueInv, NEW d, conn'["tap"] = d, d.goal = "none", due' = NothingDue,
         attach' \in {attach, FALSE}, owed' \in BOOLEAN
  PROVE  DueStep
<1>1. due' \in [Slots -> 0..(MaxInbox + 1)]
  BY Bounds DEF NothingDue
<1>2. attach' \in BOOLEAN /\ (attach' => attach)
  <2>1. CASE attach' = attach
    BY <2>1 DEF DueInv
  <2>2. CASE attach' = FALSE
    BY <2>2
  <2> QED BY <2>1, <2>2
<1>3. PICK t : t = conn'["tap"] /\ t.goal = "none"
  OBVIOUS
<1> QED BY <1>1, <1>2, <1>3, DueNow DEF DueStep

LEMMA ReturnDue ==
  ASSUME ReceiverInv, DueInv, NEW p \in Callers, NEW c \in Calls, NEW r, UNCHANGED env,
         Return(p, c, r)
  PROVE  DueStep
<1>1. "tap" \in Callers /\ conn \in [Callers -> Calls] /\ owed' \in BOOLEAN
  BY DEF Callers, ReceiverInv, CallsInv, Return
<1>2. CASE p = "tap"
  <2> DEFINE a == IF r = "silent" THEN "over" ELSE "idle"
             d == [Closed EXCEPT !.at = a]
  <2>1. conn'["tap"] = d /\ due' = NothingDue /\ attach' = attach
    BY <1>1, <1>2 DEF Return
  <2>2. a \in Places
    BY DEF Places
  <2> HIDE DEF a
  <2>3. d.goal = "none"
    BY <2>2, ClosedAt
  <2> HIDE DEF d
  <2> QED BY <1>1, <2>1, <2>3, TapOver
<1>3. CASE p # "tap"
  <2>1. conn'["tap"] = conn["tap"] /\ UNCHANGED <<link, attach, due>>
    BY <1>1, <1>3 DEF Return, env
  <2> QED BY <1>1, <2>1 DEF DueStep, DueInv
<1> QED BY <1>2, <1>3

\* A probe of a slot ended: an edge only if it is due.
LEMMA StartupProbedDue ==
  ASSUME ReceiverInv, DueInv, conn["tap"].goal = "startup", conn["tap"].target \in Triggers,
         NEW on \in BOOLEAN, on => due[conn["tap"].target] > 0,
         StartupProbed("tap", on), UNCHANGED env
  PROVE  DueStep
<1> DEFINE later == {n \in DOMAIN Watched : \A m \in DOMAIN Watched :
                                         Watched[m] = conn["tap"].target => m < n}
           next  == CHOOSE n \in later : \A m \in later : n <= m
           taps  == on \/ later = {}
           g     == IF taps THEN "watch" ELSE "startup"
           i     == IF taps THEN Direct ELSE Watched[next]
           d     == [Closed EXCEPT !.goal = g, !.at = "opening", !.target = i]
<1>1. conn' = [conn EXCEPT !["tap"] = d]
  BY DEF StartupProbed
<1>2. g \in {"startup", "watch"} /\ (on => g = "watch")
  OBVIOUS
<1>3. d.goal = g /\ d.inbox = <<>> /\ Busy(d)
  <2> HIDE DEF g, i
  <2> QED BY ClosedCall DEF Calls, Busy
<1> HIDE DEF d, g
<1>4. conn'["tap"] = d
  BY <1>1 DEF Callers, ReceiverInv, CallsInv
<1>5. Replies(d) = {}
  BY <1>3 DEF Replies
<1>6. CASE on
  <2> DEFINE s == conn["tap"].target
  <2>1. s \in Slots
    BY ReceiverAssumption DEF Triggers
  <2>2. attach' = TRUE /\ due' = [due EXCEPT ![s] = @ - 1] /\ UNCHANGED owed
    BY <1>6 DEF StartupProbed, EmitAttach
  <2>3. due \in [Slots -> 0..(MaxInbox + 1)] /\ owed \in BOOLEAN /\ due[s] > 0
    BY <1>6 DEF DueInv
  <2> HIDE DEF s
  <2>4. due' \in [Slots -> 0..(MaxInbox + 1)] /\ due'[s] = due[s] - 1
    BY <2>1, <2>2, <2>3, Bounds
  <2>5. \A z \in Slots : Covers(d.inbox, z, due'[z])
    BY <1>3, <2>4, CoversNone
  <2>6. DueInv'
    BY <1>2, <1>3, <1>4, <1>6, <2>2, <2>3, <2>4, <2>5, DueNow
  <2>7. s \in Triggers
    BY DEF s
  <2> QED BY <2>3, <2>4, <2>6, <2>7 DEF DueStep
<1>7. CASE ~on
  <2>1. UNCHANGED <<attach, due, owed, link>>
    BY <1>7 DEF StartupProbed, env
  <2>2. \A z \in Slots : Covers(d.inbox, z, due'[z])
    BY <1>3, <2>1, CoversNone DEF DueInv
  <2>3. \A z \in Slots : link'[z] => due'[z] > 0
    BY <2>1 DEF DueInv
  <2> QED BY <1>2, <1>3, <1>4, <1>5, <2>1, <2>2, <2>3, DueStays
<1> QED BY <1>6, <1>7

LEMMA SlotIsDue ==
  ASSUME ReceiverInv, DueInv, NEW p \in Callers, Calling(p), NEW c, Fits(p, c), Busy(c),
         c.goal = conn[p].goal, c.target = conn[p].target,
         c.inbox = conn[p].inbox \/ (conn[p].inbox # <<>> /\ c.inbox = Tail(conn[p].inbox)),
         UNCHANGED env, NEW on \in BOOLEAN,
         on /\ c.goal = "startup" /\ p = "tap" => due[c.target] > 0, SlotIs(p, c, on)
  PROVE  DueStep
<1>1. c \in Calls /\ Underway(p, c)
  BY DEF Fits
<1>2. CASE on /\ Goto(p, c, "feature")
  BY <1>1, <1>2, GotoDue DEF Places
<1>3. CASE \E r : Return(p, c, r)
  BY <1>1, <1>3, ReturnDue
<1>4. CASE c.goal = "startup" /\ StartupProbed(p, on)
  <2>1. p = "tap"
    BY <1>4 DEF Fits, Goals, Callers
  <2>2. conn["tap"].goal = "startup" /\ conn["tap"].target \in Triggers
    BY <1>1, <1>4, <2>1 DEF Underway
  <2>3. on => due[conn["tap"].target] > 0
    BY <1>4, <2>1
  <2> QED BY <1>4, <2>1, <2>2, <2>3, StartupProbedDue
<1> QED BY <1>2, <1>3, <1>4 DEF SlotIs

LEMMA GivesUpDue ==
  ASSUME ReceiverInv, DueInv, NEW p \in Callers, Calling(p), NEW c, Fits(p, c), Busy(c),
         c.goal = conn[p].goal, c.target = conn[p].target, c.inbox = conn[p].inbox,
         UNCHANGED env, GivesUp(p, c)
  PROVE  DueStep
<1>1. CASE SlotIs(p, c, FALSE)
  BY <1>1, SlotIsDue
<1>2. CASE Return(p, c, "failed")
  BY <1>2, ReturnDue DEF Fits
<1> QED BY <1>1, <1>2 DEF GivesUp

\* The steps of a call.
LEMMA ProceedsDue ==
  ASSUME ReceiverInv, DueInv, NEW p \in Callers, Proceeds(p) PROVE DueStep
<1>1. Calling(p) /\ Busy(conn[p])
  BY DEF Proceeds, Opens, NotThere, OpenFails, Writes, WriteFails, Asking, Calling, Idle, Busy
<1>2. Fits(p, conn[p]) /\ conn[p] \in Calls
  BY CallNow
<1>3. CASE Opens(p)
  BY <1>2, <1>3, GotoDue DEF Opens, Places
<1>4. CASE UNCHANGED env /\ \E r : Return(p, conn[p], r)
  BY <1>2, <1>4, ReturnDue
<1>5. CASE Writes(p)
  <2> DEFINE d == [conn[p] EXCEPT !.sent = TRUE]
  <2>1. /\ d.goal = conn[p].goal /\ d.target = conn[p].target /\ d.inbox = conn[p].inbox
        /\ d.at = conn[p].at
    BY <1>2 DEF Calls
  <2>2. conn' = [conn EXCEPT ![p] = d] /\ UNCHANGED <<link, attach, due, owed>>
    BY <1>5 DEF Writes
  <2> HIDE DEF d
  <2>3. Busy(d)
    BY <1>1, <2>1 DEF Busy
  <2> QED BY <2>1, <2>2, <2>3, OneDue
<1>6. CASE UNCHANGED env /\ GivesUp(p, conn[p])
  BY <1>1, <1>2, <1>6, GivesUpDue
<1> QED BY <1>3, <1>4, <1>5, <1>6 DEF Proceeds, NotThere, OpenFails, WriteFails

LEMMA TimesOutDue ==
  ASSUME ReceiverInv, DueInv, NEW p \in Callers, TimesOut(p) PROVE DueStep
<1>1. Calling(p) /\ Busy(conn[p]) /\ UNCHANGED env
  BY DEF TimesOut, Nudges, Silent, Asking, Calling, Idle, Busy
<1>2. Fits(p, conn[p]) /\ conn[p] \in Calls
  BY CallNow
<1>3. CASE Nudges(p)
  <2> DEFINE d == [conn[p] EXCEPT !.tries = @ + 1, !.sent = FALSE,
                                  !.excused = @ \/ (p = "worker" /\ conn[p].at = "online")]
  <2>1. /\ d.goal = conn[p].goal /\ d.target = conn[p].target /\ d.inbox = conn[p].inbox
        /\ d.at = conn[p].at
    BY <1>2 DEF Calls
  <2>2. conn' = [conn EXCEPT ![p] = d] /\ UNCHANGED <<link, attach, due, owed>>
    BY <1>1, <1>3 DEF Nudges, env
  <2> HIDE DEF d
  <2>3. Busy(d)
    BY <1>1, <2>1 DEF Busy
  <2> QED BY <2>1, <2>2, <2>3, OneDue
<1>4. CASE Silent(p)
  <2> DEFINE c == [conn[p] EXCEPT !.excused = @ \/ (p = "worker" /\ conn[p].at = "online")]
  <2>1. c.inbox = conn[p].inbox
    BY <1>2 DEF Calls
  <2>2. /\ Fits(p, c) /\ c \in Calls /\ Busy(c)
        /\ c.goal = conn[p].goal /\ c.target = conn[p].target
    BY <1>1, UnansweredFits
  <2>3. Goto(p, c, "register") \/ (\E r : Return(p, c, r)) \/ GivesUp(p, c)
    BY <1>4 DEF Silent
  <2> HIDE DEF c
  <2>4. CASE Goto(p, c, "register")
    BY <1>1, <2>1, <2>2, <2>4, GotoDue DEF Places
  <2>5. CASE \E r : Return(p, c, r)
    BY <1>1, <2>2, <2>5, ReturnDue
  <2>6. CASE GivesUp(p, c)
    BY <1>1, <2>1, <2>2, <2>6, GivesUpDue
  <2> QED BY <2>3, <2>4, <2>5, <2>6
<1> QED BY <1>3, <1>4 DEF TimesOut

LEMMA ReadsDue ==
  ASSUME ReceiverInv, DueInv, NEW p \in Callers, Reads(p) PROVE DueStep
<1>1. Calling(p) /\ Busy(conn[p]) /\ UNCHANGED env
  BY DEF Reads, Discards, Answered, LinkDrops, Asking, Calling, Idle, Busy
<1>2. Fits(p, conn[p]) /\ conn[p] \in Calls
  BY CallNow
<1>3. CASE LinkDrops(p)
  <2>1. GivesUp(p, conn[p]) \/ \E r : Return(p, conn[p], r)
    BY <1>3 DEF LinkDrops
  <2> QED BY <1>1, <1>2, <2>1, GivesUpDue, ReturnDue
<1>4. CASE conn[p].inbox # <<>> /\ ~LinkDrops(p)
  <2> DEFINE c == [conn[p] EXCEPT !.inbox = Tail(@)]
             r == Head(conn[p].inbox)
  <2>1. /\ Fits(p, c) /\ r \in Replies(conn[p]) /\ r \in Reports
        /\ c.at = conn[p].at /\ c.goal = conn[p].goal /\ c.target = conn[p].target
    BY <1>2, <1>4, ReadFits
  <2>2. c.inbox = Tail(conn[p].inbox)
    BY <1>2 DEF Calls
  <2>3. \/ conn' = [conn EXCEPT ![p] = c] /\ UNCHANGED <<attach, due, owed>>
        \/ /\ r.from = Question(p).to /\ r.fn = Question(p).fn
           /\ \/ c.at = "online" /\ SlotIs(p, c, r.value # Refused)
              \/ \E z : Return(p, c, z)
              \/ c.at = "feature" /\ Goto(p, [c EXCEPT !.feat = r.value], "sethost")
                 /\ r.value \notin {Refused, Root}
              \/ Goto(p, c, CASE c.goal = "watch" -> "tap"
                              [] c.goal # "watch" /\ c.target = Direct -> "feature"
                              [] OTHER -> "online")
    BY <1>4 DEF Reads, Discards, Answered, Matches
  <2> HIDE DEF c, r
  <2>4. Busy(c) /\ c \in Calls /\ Underway(p, c)
    BY <1>1, <2>1 DEF Busy, Fits
  <2>5. CASE conn' = [conn EXCEPT ![p] = c] /\ UNCHANGED <<attach, due, owed>>
    <3>1. UNCHANGED link
      BY <1>1 DEF env
    <3> QED BY <1>4, <2>1, <2>2, <2>4, <2>5, <3>1, OneDue
  <2>6. ASSUME r.from = Question(p).to, r.fn = Question(p).fn, c.at = "online",
               SlotIs(p, c, r.value # Refused)
        PROVE  DueStep
    <3>1. r.from = c.target /\ r.fn = "getFeature"
      BY <2>1, <2>6 DEF Question
    <3>2. ASSUME r.value # Refused, c.goal = "startup", p = "tap" PROVE due[c.target] > 0
      <4>1. Linking(conn["tap"], r)
        BY <2>1, <3>1, <3>2 DEF Linking
      <4> QED BY <2>1, <3>2, <4>1 DEF DueInv
    <3>3. PICK on \in BOOLEAN : on = (r.value # Refused)
      OBVIOUS
    <3> QED BY <1>1, <1>4, <2>1, <2>2, <2>4, <2>6, <3>2, <3>3, SlotIsDue
  <2>7. CASE \E z : Return(p, c, z)
    BY <1>1, <2>4, <2>7, ReturnDue
  <2>8. ASSUME Goto(p, [c EXCEPT !.feat = r.value], "sethost"), r.value \notin {Refused, Root}
        PROVE  DueStep
    <3> DEFINE d == [c EXCEPT !.feat = r.value]
    <3>1. r.value \in Root..ChangeHost
      BY <2>1, <2>8 DEF Reports, Refused, Root, ChangeHost
    <3>2. d \in Calls /\ d.goal = c.goal /\ d.target = c.target /\ d.inbox = c.inbox
      BY <2>4, <3>1 DEF Calls
    <3>3. Goto(p, d, "sethost")
      BY <2>8
    <3> HIDE DEF d
    <3> QED BY <1>1, <1>4, <2>1, <2>2, <3>2, <3>3, GotoDue DEF Places
  <2>9. ASSUME Goto(p, c, CASE c.goal = "watch" -> "tap"
                            [] c.goal # "watch" /\ c.target = Direct -> "feature"
                            [] OTHER -> "online")
        PROVE  DueStep
    <3> DEFINE place == CASE c.goal = "watch" -> "tap"
                          [] c.goal # "watch" /\ c.target = Direct -> "feature"
                          [] OTHER -> "online"
    <3>1. place \in {"tap", "feature", "online"}
      OBVIOUS
    <3>2. Goto(p, c, place)
      BY <2>9
    <3> HIDE DEF place
    <3>3. place \in Places \ {"idle", "returned", "over"}
      BY <3>1 DEF Places
    <3> QED BY <1>1, <1>4, <2>1, <2>2, <2>4, <3>2, <3>3, GotoDue
  <2> QED BY <2>3, <2>5, <2>6, <2>7, <2>8, <2>9
<1> QED BY <1>3, <1>4 DEF Reads, Discards, Answered

LEMMA EndsDue ==
  ASSUME ReceiverInv, DueInv, NEW p \in Callers, DeadlineEnds(p) \/ Cancelled(p) PROVE DueStep
<1>1. conn[p] \in Calls /\ UNCHANGED env
  BY CallNow DEF DeadlineEnds, Cancelled
<1>2. [conn[p] EXCEPT !.excused = TRUE] \in Calls
  BY <1>1 DEF Calls
<1> QED BY <1>1, <1>2, ReturnDue DEF DeadlineEnds, Cancelled

LEMMA StartsDue ==
  ASSUME ReceiverInv, DueInv, WorkerSends \/ PollChecks \/ DetectorRuns PROVE DueStep
<1>1. "tap" \in Callers
  BY DEF Callers
<1>2. ASSUME NEW p \in {"worker", "poll"}, NEW g, NEW i, CallStarts(p, g, i), UNCHANGED due
      PROVE  DueStep
  <2>1. UNCHANGED <<link, attach, due, owed>>
    BY <1>2 DEF CallStarts, env
  <2>2. PICK t : t = conn'["tap"]
    OBVIOUS
  <2>3. t = conn["tap"] \/ t = Closed
    BY <1>1, <1>2, <2>2 DEF CallStarts
  <2>4. CASE t = Closed
    BY <2>1, <2>2, <2>4, ClosedCall, DueStays
  <2>5. CASE t = conn["tap"]
    <3>1. t.goal # "none" => Busy(t)
      BY <2>5 DEF DueInv
    <3>2. t.goal = "startup" =>
             /\ \A s \in Slots : link'[s] => due'[s] > 0
             /\ \A r \in Replies(t) : Linking(t, r) => due'[t.target] > 0
      BY <2>1, <2>5 DEF DueInv
    <3>3. t.goal = "watch" => \A s \in Slots : Covers(t.inbox, s, due'[s])
      BY <2>1, <2>5 DEF DueInv
    <3> QED BY <2>1, <2>2, <3>1, <3>2, <3>3, DueStays
  <2> QED BY <2>3, <2>4, <2>5
<1>3. CASE WorkerSends \/ PollChecks
  BY <1>2, <1>3 DEF WorkerSends, PollChecks
<1>4. CASE DetectorRuns
  <2> DEFINE i == Watched[1]
             d == [Closed EXCEPT !.goal = "startup", !.at = "opening", !.target = i,
                                 !.was = "tap" # "tap" /\ Linked(i),
                                 !.excused = "tap" = "worker" /\ ~Linked(i)]
  <2>1. conn'["tap"] = d /\ UNCHANGED <<link, attach, owed>>
    BY <1>1, <1>4 DEF DetectorRuns, CallStarts, env
  <2>2. due' = [s \in Slots |-> IF link[s] THEN 1 ELSE 0]
    BY <1>4 DEF DetectorRuns
  <2>3. d.goal = "startup" /\ d.inbox = <<>> /\ Busy(d)
    <3> HIDE DEF i
    <3> QED BY ClosedCall DEF Calls, Busy
  <2> HIDE DEF d
  <2>4. Replies(d) = {}
    BY <2>3 DEF Replies
  <2>5. due' \in [Slots -> 0..(MaxInbox + 1)] /\ \A s \in Slots : link'[s] => due'[s] > 0
    BY <2>1, <2>2, Bounds
  <2>6. attach' \in BOOLEAN /\ owed' \in BOOLEAN
    BY <2>1 DEF DueInv
  <2>7. DueInv'
    BY <2>1, <2>3, <2>4, <2>5, <2>6, DueNow
  <2> QED BY <2>1, <2>7 DEF DueStep
<1> QED BY <1>3, <1>4

LEMMA TapDue ==
  ASSUME ReceiverInv, DueInv, TapReads \/ TapFails \/ LoopTakesAttach \/ GenerationEnds
  PROVE  DueStep
<1>1. "tap" \in Callers /\ conn \in [Callers -> Calls] /\ conn["tap"] \in Calls
  BY DEF Callers, ReceiverInv, CallsInv
<1>2. CASE TapReads
  <2>1. PICK o \in Calls : o = conn["tap"]
    BY <1>1
  <2>2. PICK q \in Seq(Reports) : q = o.inbox
    BY DEF Calls
  <2>3. q # <<>> /\ o.at = "tap" /\ UNCHANGED link
    BY <1>2, <2>1, <2>2 DEF TapReads, env
  <2>4. Busy(o) /\ o.goal = "watch"
    BY <1>1, <2>1, <2>3, CallNow DEF Busy, Fits, Underway
  <2>5. PICK d : d = [o EXCEPT !.inbox = Tail(q)]
    OBVIOUS
  <2>6. conn' = [conn EXCEPT !["tap"] = d]
    BY <1>2, <2>1, <2>2, <2>5 DEF TapReads
  <2>7. /\ d.inbox = Tail(q) /\ d.goal = o.goal /\ d.target = o.target /\ d.at = o.at
        /\ conn'["tap"] = d
    BY <1>1, <2>5, <2>6 DEF Calls
  <2>8. CASE ~IsEdge(Head(q))
    <3>1. UNCHANGED <<link, attach, due, owed>>
      BY <1>2, <2>1, <2>2, <2>3, <2>8 DEF TapReads
    <3> QED BY <1>1, <2>1, <2>2, <2>3, <2>4, <2>6, <2>7, <3>1, OneDue DEF Busy
  <2>9. CASE IsEdge(Head(q))
    <3>1. PICK s : s = Head(q).from
      OBVIOUS
    <3>2. attach' = TRUE /\ due' = [due EXCEPT ![s] = @ - 1] /\ owed' = FALSE
      BY <1>2, <2>1, <2>2, <2>9, <3>1 DEF TapReads, EmitAttach
    <3>3. s \in Triggers /\ s \in Slots /\ Up(Head(q), s)
      BY <2>9, <3>1, ReceiverAssumption DEF IsEdge, Up, Triggers
    <3>4. due \in [Slots -> 0..(MaxInbox + 1)] /\ \A z \in Slots : Covers(q, z, due[z])
      BY <2>1, <2>2, <2>4 DEF DueInv
    <3>5. due[s] > 0 /\ due[s] \in Nat
      BY <2>3, <3>3, <3>4, CoversTail
    <3>6. due' \in [Slots -> 0..(MaxInbox + 1)] /\ due'[s] = due[s] - 1
      BY <3>2, <3>3, <3>4, <3>5, Bounds
    <3>7. ASSUME NEW z \in Slots PROVE Covers(d.inbox, z, due'[z])
      <4>1. CASE z = s
        BY <2>3, <2>7, <3>3, <3>4, <3>5, <3>6, <4>1, CoversTail
      <4>2. CASE z # s
        BY <2>3, <2>7, <3>2, <3>4, <4>2, CoversTail
      <4> QED BY <4>1, <4>2
    <3>8. DueInv'
      BY <2>4, <2>7, <3>2, <3>6, <3>7, DueNow DEF Busy
    <3> QED BY <3>3, <3>5, <3>6, <3>8 DEF DueStep
  <2> QED BY <2>8, <2>9
<1>3. CASE TapFails
  BY <1>1, <1>3, ReturnDue DEF TapFails
<1>4. CASE LoopTakesAttach
  <2>1. attach' = FALSE /\ UNCHANGED <<link, due, owed, conn>>
    BY <1>4 DEF LoopTakesAttach, env
  <2> QED BY <2>1 DEF DueStep, DueInv
<1>5. CASE GenerationEnds
  <2>1. conn'["tap"] = Closed /\ attach' = FALSE /\ due' = NothingDue /\ owed' = FALSE
    BY <1>1, <1>5 DEF GenerationEnds
  <2> QED BY <2>1, ClosedCall, TapOver
<1> QED BY <1>2, <1>3, <1>4, <1>5

\* What the tap's connection hears of the hardware.
LEMMA HappensTap ==
  ASSUME ReceiverInv, NEW replies \in Seq(Reports), NEW changes \in Seq(Reports),
         NEW ups, NEW downs, NEW last, last = Happens(replies, changes, ups, downs),
         conn' = last \/ conn' = CutOff(last), NEW o, o = conn["tap"], NEW t, t = conn'["tap"]
  PROVE  /\ t.goal = o.goal /\ t.at = o.at /\ t.target = o.target
         /\ \/ t.inbox = o.inbox
            \/ t.inbox = Within(o.inbox \o changes, MaxInbox)
            \/ t.inbox = Within(o.inbox \o (replies \o changes), MaxInbox)
<1>1. "tap" \in Callers /\ o \in Calls
  BY CallNow DEF Callers
<1>2. PICK q : q = Hears("tap", replies, changes)
  OBVIOUS
<1>3. PICK l : l = last["tap"]
  OBVIOUS
<1>4. l.goal = o.goal /\ l.at = o.at /\ l.target = o.target /\ l.inbox = q
  <2>1. \E was, excused : l = [o EXCEPT !.inbox = q, !.was = was, !.excused = excused]
    BY <1>1, <1>2, <1>3 DEF Happens
  <2> QED BY <1>1, <2>1 DEF Calls
<1>5. t = l \/ \E cut : t = [l EXCEPT !.cut = cut]
  BY <1>1, <1>3 DEF CutOff
<1>6. t.goal = o.goal /\ t.at = o.at /\ t.target = o.target /\ t.inbox = q
  <2>1. \E was, excused : l = [o EXCEPT !.inbox = q, !.was = was, !.excused = excused]
    BY <1>1, <1>2, <1>3 DEF Happens
  <2> QED BY <1>1, <1>4, <1>5, <2>1 DEF Calls
<1>7. <<>> \o changes = changes
  OBVIOUS
<1>8. \/ q = o.inbox
      \/ q = Within(o.inbox \o changes, MaxInbox)
      \/ q = Within(o.inbox \o (replies \o changes), MaxInbox)
  BY <1>2, <1>7 DEF Hears
<1> QED BY <1>6, <1>8

\* No report that a slot took the link, and no reply of an unlinked one but a
\* refusal.
NoUp(r) == /\ r.fn = "link" => r.value # 1
           /\ r.fn # "link" /\ r.value # Refused => Linked(r.from)

LEMMA TapHears ==
  ASSUME ReceiverInv, DueInv, NEW w \in Seq(Reports), \A n \in 1..Len(w) : NoUp(w[n]),
         NEW o, o = conn["tap"], NEW t, t = conn'["tap"],
         t.goal = o.goal, t.at = o.at, t.target = o.target,
         t.inbox = o.inbox \/ t.inbox = Within(o.inbox \o w, MaxInbox),
         UNCHANGED <<attach, due, owed>>, \A s \in Slots : link'[s] => link[s]
  PROVE  DueStep
<1>1. "tap" \in Callers /\ o \in Calls /\ Fits("tap", o)
  BY CallNow DEF Callers
<1>2. PICK q \in Seq(Reports) : q = o.inbox /\ Len(q) <= MaxInbox
  BY <1>1 DEF Calls, Fits
<1>3. PICK k : k = t.inbox
  OBVIOUS
<1>4. /\ k \in Seq(Reports) /\ Len(q) <= Len(k)
      /\ \A i \in 1..Len(k) : \/ i \in 1..Len(q) /\ k[i] = q[i]
                              \/ i > Len(q) /\ NoUp(k[i])
  <2>1. CASE k = q
    BY <1>2, <2>1
  <2>2. CASE k = Within(q \o w, MaxInbox)
    <3>1. \A i \in 1..Len(k) : \/ i \in 1..Len(q) /\ k[i] = q[i]
                               \/ /\ i > Len(q) /\ i - Len(q) \in 1..Len(w)
                                  /\ k[i] = w[i - Len(q)]
      BY <2>2, WithinKeeps
    <3>2. k \in Seq(Reports) /\ (Len(q) <= MaxInbox => Len(q) <= Len(k))
      BY <2>2, WithinKeeps
    <3> QED BY <1>2, <3>1, <3>2
  <2> QED BY <1>2, <1>3, <2>1, <2>2
<1>5. Len(q) \in Nat /\ Len(k) \in Nat /\ DOMAIN k = 1..Len(k) /\ DOMAIN q = 1..Len(q)
  BY <1>2, <1>4
<1>6. t.goal # "none" => Busy(t)
  BY DEF DueInv, Busy
<1>7. ASSUME t.goal = "startup"
      PROVE  /\ \A s \in Slots : link'[s] => due'[s] > 0
             /\ \A r \in Replies(t) : Linking(t, r) => due'[t.target] > 0
  <2>1. \A s \in Slots : link[s] => due[s] > 0
    BY <1>7 DEF DueInv
  <2>2. t.target \in Slots
    BY <1>1, <1>6, <1>7 DEF Fits, Underway, Busy
  <2>3. ASSUME NEW r \in Replies(t), Linking(t, r) PROVE due[t.target] > 0
    <3>1. PICK i \in 1..Len(k) : r = k[i]
      BY <1>3, <1>5 DEF Replies
    <3>2. CASE i \in 1..Len(q) /\ k[i] = q[i]
      <4>1. r \in Replies(o) /\ Linking(o, r)
        BY <1>2, <1>5, <2>3, <3>1, <3>2 DEF Replies, Linking
      <4> QED BY <1>7, <4>1 DEF DueInv
    <3>3. CASE NoUp(k[i])
      <4>1. Linked(r.from) /\ r.from = t.target
        BY <2>3, <3>1, <3>3 DEF NoUp, Linking
      <4>2. link[t.target]
        BY <2>2, <4>1, Bounds DEF Linked, Direct
      <4> QED BY <2>1, <2>2, <4>2
    <3> QED BY <1>4, <3>1, <3>2, <3>3
  <2> QED BY <2>1, <2>3
<1>8. ASSUME t.goal = "watch", NEW s \in Slots PROVE Covers(t.inbox, s, due'[s])
  <2>1. Covers(q, s, due[s]) /\ due[s] \in Nat
    BY <1>2, <1>8 DEF DueInv
  <2>2. \A i \in 1..Len(q) : k[i] = q[i]
    BY <1>4, <1>5
  <2>3. \A i \in (Len(q) + 1)..Len(k) : ~Up(k[i], s)
    <3>1. \A i \in (Len(q) + 1)..Len(k) : i \in 1..Len(k) /\ ~(i \in 1..Len(q))
      BY <1>5
    <3> QED BY <1>4, <3>1 DEF NoUp, Up
  <2>4. Covers(k, s, due[s])
    BY <1>4, <2>1, <2>2, <2>3, CoversMore
  <2> QED BY <1>3, <2>4
<1> QED BY <1>6, <1>7, <1>8, DueStays

LEMMA HappensDue ==
  ASSUME ReceiverInv, DueInv, NEW replies \in Seq(Reports), NEW changes \in Seq(Reports),
         \A n \in DOMAIN replies : NoUp(replies[n]), \A n \in DOMAIN changes : NoUp(changes[n]),
         NEW ups, NEW downs, NEW last, last = Happens(replies, changes, ups, downs),
         conn' = last \/ conn' = CutOff(last),
         UNCHANGED <<attach, due, owed>>, \A s \in Slots : link'[s] => link[s]
  PROVE  DueStep
<1>1. PICK o : o = conn["tap"]
  OBVIOUS
<1>2. PICK t : t = conn'["tap"]
  OBVIOUS
<1>3. PICK w \in Seq(Reports) : w = replies \o changes
  BY ConcatProperties
<1>4. \A n \in 1..Len(w) : NoUp(w[n])
  <2>1. /\ Len(w) = Len(replies) + Len(changes)
        /\ \A n \in 1..Len(w) : w[n] = IF n <= Len(replies) THEN replies[n]
                                       ELSE changes[n - Len(replies)]
    BY <1>3
  <2>2. \A n \in 1..Len(w) : \/ n \in DOMAIN replies /\ w[n] = replies[n]
                             \/ /\ n - Len(replies) \in DOMAIN changes
                                /\ w[n] = changes[n - Len(replies)]
    BY <2>1
  <2> QED BY <2>2
<1>5. \A n \in 1..Len(changes) : NoUp(changes[n])
  OBVIOUS
<1>6. /\ t.goal = o.goal /\ t.at = o.at /\ t.target = o.target
      /\ \/ t.inbox = o.inbox
         \/ t.inbox = Within(o.inbox \o changes, MaxInbox)
         \/ t.inbox = Within(o.inbox \o w, MaxInbox)
  BY <1>1, <1>2, <1>3, HappensTap
<1>7. CASE t.inbox = o.inbox \/ t.inbox = Within(o.inbox \o w, MaxInbox)
  BY <1>1, <1>2, <1>4, <1>6, <1>7, TapHears
<1>8. CASE t.inbox = Within(o.inbox \o changes, MaxInbox)
  BY <1>1, <1>2, <1>5, <1>6, <1>8, TapHears
<1> QED BY <1>6, <1>7, <1>8

\* A slot takes the link: an edge is due for it.
LEMMA LinkUpDue == ASSUME ReceiverInv, DueInv, NEW s \in Slots, LinkUp(s) PROVE DueStep
<1>1. "tap" \in Callers /\ conn["tap"] \in Calls /\ Fits("tap", conn["tap"])
  BY CallNow DEF Callers
<1>2. PICK o \in Calls : o = conn["tap"] /\ Fits("tap", o)
  BY <1>1
<1>3. PICK q \in Seq(Reports) : q = o.inbox /\ Len(q) < MaxInbox
  BY <1>2 DEF Calls, LinkUp
<1>4. PICK r \in Reports : r = LinkChange(s, TRUE) /\ r.fn = "link" /\ r.from = s
  <2>1. LinkChange(s, TRUE).from = s
    BY DEF LinkChange
  <2> QED BY <2>1, LinkReport
<1>5. PICK w \in Seq(Reports) : w = <<r>> /\ Len(w) = 1 /\ w[1] = r
  BY OneReport
<1>6. PICK t : t = conn'["tap"]
  OBVIOUS
<1>7. PICK k : k = t.inbox
  OBVIOUS
<1>8. /\ t.goal = o.goal /\ t.at = o.at /\ t.target = o.target
      /\ k = q \/ k = Within(q \o w, MaxInbox)
  <2>1. PICK e \in Seq(Reports) : e = <<>>
    BY OneReport
  <2>2. conn' = Happens(e, w, {s}, {})
    BY <1>4, <1>5, <2>1 DEF LinkUp
  <2>3. e \o w = w
    BY <2>1
  <2>4. PICK last, ups, downs : last = Happens(e, w, ups, downs) /\ conn' = last
    BY <2>2
  <2>5. /\ t.goal = o.goal /\ t.at = o.at /\ t.target = o.target
        /\ \/ t.inbox = o.inbox
           \/ t.inbox = Within(o.inbox \o w, MaxInbox)
           \/ t.inbox = Within(o.inbox \o (e \o w), MaxInbox)
    BY <1>2, <1>6, <2>4, HappensTap
  <2> QED BY <1>3, <1>7, <2>3, <2>5
<1>9. Len(q) \in Nat
  BY <1>3
<1>10. \/ k = q
      \/ /\ k \in Seq(Reports) /\ Len(k) = Len(q) + 1
         /\ \A i \in 1..Len(k) : (i \in 1..Len(q) /\ k[i] = q[i]) \/ (i = Len(q) + 1 /\ k[i] = r)
  <2> SUFFICES ASSUME k = Within(q \o w, MaxInbox)
               PROVE  /\ k \in Seq(Reports) /\ Len(k) = Len(q) + 1
                      /\ \A i \in 1..Len(k) : \/ i \in 1..Len(q) /\ k[i] = q[i]
                                              \/ i = Len(q) + 1 /\ k[i] = r
    BY <1>8
  <2>1. \A i \in 1..Len(k) : \/ i \in 1..Len(q) /\ k[i] = q[i]
                             \/ /\ i > Len(q) /\ i - Len(q) \in 1..Len(w)
                                /\ k[i] = w[i - Len(q)]
    BY WithinKeeps
  <2>2. k \in Seq(Reports) /\ (Len(q) + Len(w) <= MaxInbox => Len(k) = Len(q) + Len(w))
    BY WithinKeeps
  <2>3. Len(k) = Len(q) + 1
    BY <1>3, <1>9, <1>5, <2>2, Bounds
  <2>4. ASSUME NEW i \in 1..Len(k)
        PROVE  (i \in 1..Len(q) /\ k[i] = q[i]) \/ (i = Len(q) + 1 /\ k[i] = r)
    <3>1. CASE i > Len(q)
      <4>1. i - Len(q) = 1 /\ i = Len(q) + 1
        BY <1>9, <2>3, <3>1
      <4> QED BY <1>9, <1>5, <2>1, <3>1, <4>1
    <3>2. CASE ~(i > Len(q))
      BY <1>9, <2>1, <3>2
    <3> QED BY <3>1, <3>2
  <2> QED BY <2>2, <2>3, <2>4
<1>11. /\ attach' = attach /\ link' = [link EXCEPT ![s] = TRUE]
       /\ due' = IF Idle("tap") \/ due[s] > MaxInbox THEN due ELSE [due EXCEPT ![s] = @ + 1]
       /\ owed' \in BOOLEAN
  BY DEF LinkUp, DueInv
<1>12. due \in [Slots -> 0..(MaxInbox + 1)] /\ link \in [Slots -> BOOLEAN] /\ attach \in BOOLEAN
  BY DEF DueInv, ReceiverInv, HardwareInv
<1>13. /\ due' \in [Slots -> 0..(MaxInbox + 1)] /\ \A z \in Slots : due[z] <= due'[z]
       /\ \A z \in Slots : due'[z] \in Nat /\ due[z] \in Nat
  <2>1. CASE due' = due
    BY <1>12, <2>1, Bounds
  <2>2. CASE due' = [due EXCEPT ![s] = @ + 1] /\ ~(due[s] > MaxInbox)
    BY <1>12, <2>2, Bounds
  <2> QED BY <1>11, <2>1, <2>2
<1>14. t.goal # "none" => Busy(t) /\ ~Idle("tap")
  BY <1>2, <1>8 DEF DueInv, Busy, Idle
<1>15. ASSUME t.goal = "startup"
       PROVE  /\ \A z \in Slots : link'[z] => due'[z] > 0
              /\ \A x \in Replies(t) : Linking(t, x) => due'[t.target] > 0
  <2>1. \A z \in Slots : link[z] => due[z] > 0
    BY <1>2, <1>8, <1>15 DEF DueInv
  <2>2. due'[s] > 0
    <3>1. CASE due[s] > MaxInbox
      BY <1>11, <1>13, <3>1, Bounds
    <3>2. CASE ~(due[s] > MaxInbox)
      <4>1. due'[s] = due[s] + 1
        BY <1>11, <1>12, <1>14, <1>15, <3>2
      <4> QED BY <1>13, <4>1
    <3> QED BY <3>1, <3>2
  <2>3. t.target \in Slots
    BY <1>2, <1>8, <1>14, <1>15 DEF Fits, Underway, Busy
  <2>4. ASSUME NEW x \in Replies(t), Linking(t, x) PROVE due'[t.target] > 0
    <3>1. x \in Replies(o) \/ x = r
      <4>1. DOMAIN q = 1..Len(q) /\ (k \in Seq(Reports) => DOMAIN k = 1..Len(k))
        OBVIOUS
      <4>2. PICK i \in DOMAIN k : x = k[i]
        BY <1>7 DEF Replies
      <4> QED BY <1>3, <1>10, <4>1, <4>2 DEF Replies
    <3>2. x \in Replies(o) /\ Linking(o, x)
      BY <1>4, <1>8, <2>4, <3>1 DEF Linking
    <3>3. due[t.target] > 0
      BY <1>2, <1>8, <1>15, <3>2 DEF DueInv
    <3> QED BY <1>13, <2>3, <3>3
  <2>5. \A z \in Slots : link'[z] => due'[z] > 0
    <3>1. ASSUME NEW z \in Slots, link'[z], z # s PROVE due'[z] > 0
      <4>1. due[z] > 0
        BY <1>11, <1>12, <2>1, <3>1
      <4> QED BY <1>13, <4>1
    <3> QED BY <2>2, <3>1
  <2> QED BY <2>4, <2>5
<1>16. ASSUME t.goal = "watch", NEW z \in Slots PROVE Covers(t.inbox, z, due'[z])
  <2>1. Covers(q, z, due[z]) /\ due[z] \in Nat /\ due'[z] \in Nat /\ due[z] <= due'[z]
    BY <1>2, <1>3, <1>8, <1>13, <1>16 DEF DueInv
  <2>2. CASE k = q
    <3>1. \A i \in (Len(q) + 1)..Len(k) : ~Up(k[i], z)
      BY <1>9, <2>2
    <3> QED BY <1>7, <1>9, <2>1, <2>2, <3>1, CoversMore
  <2>3. CASE k # q
    <3>1. /\ k \in Seq(Reports) /\ Len(k) = Len(q) + 1 /\ Len(q) <= Len(k)
          /\ \A i \in 1..Len(q) : k[i] = q[i]
          /\ k[Len(q) + 1] = r
      BY <1>9, <1>10, <2>3
    <3>2. CASE z # s
      <4>1. \A i \in (Len(q) + 1)..Len(k) : ~Up(k[i], z)
        <5>1. \A i \in (Len(q) + 1)..Len(k) : i = Len(q) + 1
          BY <1>9, <3>1
        <5> QED BY <1>4, <3>1, <3>2, <5>1 DEF Up
      <4> QED BY <1>7, <2>1, <3>1, <4>1, CoversMore
    <3>3. CASE z = s /\ due[s] > MaxInbox
      <4>1. Len(k) <= due'[z]
        BY <1>3, <1>9, <2>1, <3>1, <3>3, Bounds
      <4> QED BY <1>7, <2>1, <3>1, <4>1, CoversAll
    <3>4. CASE z = s /\ ~(due[s] > MaxInbox)
      <4>1. due'[z] = due[z] + 1
        BY <1>11, <1>12, <1>14, <1>16, <3>4
      <4>2. due[z] < due'[z]
        BY <2>1, <4>1
      <4> QED BY <1>7, <2>1, <3>1, <4>2, CoversMore
    <3> QED BY <3>2, <3>3, <3>4
  <2> QED BY <2>2, <2>3
<1>17. DueInv'
  BY <1>6, <1>11, <1>12, <1>13, <1>14, <1>15, <1>16, DueNow
<1> QED BY <1>11, <1>17 DEF DueStep

LEMMA NoReport ==
  /\ \E e \in Seq(Reports) : e = <<>> /\ \A n \in DOMAIN e : NoUp(e[n])
  /\ \A r \in Reports : NoUp(r) =>
       \E w \in Seq(Reports) : w = <<r>> /\ \A n \in DOMAIN w : NoUp(w[n])
<1>1. <<>> \in Seq(Reports) /\ DOMAIN <<>> = {}
  OBVIOUS
<1>2. \A n \in DOMAIN <<>> : NoUp(<<>>[n])
  BY <1>1
<1>3. ASSUME NEW r \in Reports, NoUp(r)
      PROVE  \E w \in Seq(Reports) : w = <<r>> /\ \A n \in DOMAIN w : NoUp(w[n])
  <2>1. <<r>> \in Seq(Reports) /\ DOMAIN <<r>> = {1} /\ <<r>>[1] = r
    BY OneReport
  <2>2. \A n \in DOMAIN <<r>> : NoUp(<<r>>[n])
    BY <1>3, <2>1
  <2> WITNESS <<r>> \in Seq(Reports)
  <2> QED BY <2>2
<1>4. \E e \in Seq(Reports) : e = <<>> /\ \A n \in DOMAIN e : NoUp(e[n])
  <2> WITNESS <<>> \in Seq(Reports)
  <2> QED BY <1>2
<1> QED BY <1>3, <1>4

\* A slot leaves the link.
LEMMA LinkDownDue == ASSUME ReceiverInv, DueInv, NEW s \in Slots, LinkDown(s) PROVE DueStep
<1>1. PICK r \in Reports : r = LinkChange(s, FALSE)
  BY LinkReport
<1>2. NoUp(r)
  BY <1>1 DEF NoUp, LinkChange
<1>3. /\ \A z \in Slots : link'[z] => link[z]
      /\ UNCHANGED <<attach, due, owed>>
  <2>1. link \in [Slots -> BOOLEAN] /\ link' = [link EXCEPT ![s] = FALSE]
    BY DEF LinkDown, ReceiverInv, HardwareInv
  <2> QED BY <2>1 DEF LinkDown
<1>4. PICK e \in Seq(Reports), w \in Seq(Reports) :
        /\ e = <<>> /\ \A n \in DOMAIN e : NoUp(e[n])
        /\ w = <<r>> /\ \A n \in DOMAIN w : NoUp(w[n])
  BY <1>2, NoReport
<1>5. PICK last, ups, downs : last = Happens(e, w, ups, downs) /\ conn' = last
  BY <1>1, <1>4 DEF LinkDown
<1> QED BY <1>3, <1>4, <1>5, HappensDue

LEMMA GoneDue ==
  ASSUME ReceiverInv, DueInv, NEW replies \in Seq(Reports),
         \A n \in DOMAIN replies : NoUp(replies[n]), Gone(replies)
  PROVE  DueStep
<1>1. (\A z \in Slots : link'[z] => link[z]) /\ UNCHANGED <<attach, due, owed>>
  BY DEF Gone
<1>2. PICK e \in Seq(Reports) : e = <<>> /\ \A n \in DOMAIN e : NoUp(e[n])
  BY NoReport
<1>3. PICK last, ups, downs : last = Happens(replies, e, ups, downs) /\ conn' = CutOff(last)
  BY <1>2 DEF Gone, CutOff
<1> QED BY <1>1, <1>2, <1>3, HappensDue

LEMMA AnswersDue ==
  ASSUME ReceiverInv, DueInv, NEW q \in asked, Answers(q) \/ RefusesToMove(q)
  PROVE  DueStep
<1>1. q \in Requests
  BY DEF ReceiverInv, HardwareInv
<1>2. PICK v \in Refused..ChangeHost :
        /\ v # Refused => Linked(q.to)
        /\ conn' = Happens(<<Report(q, v)>>, <<>>, {}, {})
  <2>1. CASE Answers(q)
    <3>1. Value(q) \in Refused..ChangeHost
      BY <1>1 DEF Value, Refused, ChangeHost, Root, Requests
    <3>2. Value(q) # Refused => Linked(q.to)
      BY DEF Value
    <3> QED BY <2>1, <3>1, <3>2 DEF Answers
  <2>2. CASE RefusesToMove(q)
    <3>1. Refused \in Refused..ChangeHost
      BY DEF Refused, ChangeHost
    <3> QED BY <2>2, <3>1 DEF RefusesToMove
  <2> QED BY <2>1, <2>2
<1>3. PICK r \in Reports : r = Report(q, v) /\ r.from = q.to /\ r.fn = q.fn /\ r.value = v
  BY <1>1, ReplyReport
<1>4. NoUp(r)
  BY <1>1, <1>2, <1>3 DEF NoUp, Requests
<1>5. PICK e \in Seq(Reports), w \in Seq(Reports) :
        /\ e = <<>> /\ \A n \in DOMAIN e : NoUp(e[n])
        /\ w = <<r>> /\ \A n \in DOMAIN w : NoUp(w[n])
  BY <1>4, NoReport
<1>6. PICK last, ups, downs : last = Happens(w, e, ups, downs) /\ conn' = last
  BY <1>2, <1>3, <1>5
<1>7. UNCHANGED <<link, attach, due, owed>>
  BY DEF Answers, RefusesToMove
<1> QED BY <1>5, <1>6, <1>7, HappensDue

LEMMA MovesDue == ASSUME ReceiverInv, DueInv, NEW q \in asked, Moves(q) PROVE DueStep
<1>1. q \in Requests /\ q.to \in Indexes /\ q.fn = "setHost" /\ Linked(q.to)
  BY DEF ReceiverInv, HardwareInv, Requests, Moves, AsksToMove
<1>2. PICK r \in Reports : r = Report(q, 0) /\ NoUp(r)
  <2>1. 0 \in Refused..ChangeHost
    BY DEF Refused, ChangeHost
  <2>2. PICK r \in Reports : r = Report(q, 0) /\ r.from = q.to /\ r.fn = q.fn
    BY <1>1, <2>1, ReplyReport
  <2> QED BY <1>1, <2>2 DEF NoUp
<1>3. PICK ack \in {<<>>, <<r>>} :
        \/ Gone(ack)
        \/ /\ q.to # Direct
           /\ link' = [link EXCEPT ![q.to] = FALSE]
           /\ conn' = Happens(ack, <<LinkChange(q.to, FALSE)>>, {}, {q.to})
           /\ UNCHANGED <<attach, due, owed>>
  BY <1>2 DEF Moves
<1>4. ack \in Seq(Reports) /\ \A n \in DOMAIN ack : NoUp(ack[n])
  <2>1. CASE ack = <<>>
    BY <2>1, OneReport
  <2>2. CASE ack = <<r>>
    <3>1. <<r>> \in Seq(Reports) /\ DOMAIN <<r>> = {1} /\ <<r>>[1] = r
      BY OneReport
    <3> QED BY <1>2, <2>2, <3>1
  <2> QED BY <2>1, <2>2
<1>5. CASE Gone(ack)
  BY <1>4, <1>5, GoneDue
<1>6. CASE ~Gone(ack)
  <2>1. /\ q.to \in Slots /\ link' = [link EXCEPT ![q.to] = FALSE] /\ link \in [Slots -> BOOLEAN]
        /\ UNCHANGED <<attach, due, owed>>
    BY <1>1, <1>3, <1>6 DEF Indexes, ReceiverInv, HardwareInv
  <2>2. \A z \in Slots : link'[z] => link[z]
    BY <2>1
  <2>3. PICK c \in Reports : c = LinkChange(q.to, FALSE)
    BY <2>1, LinkReport
  <2>4. NoUp(c)
    BY <2>3 DEF NoUp, LinkChange
  <2>5. PICK w \in Seq(Reports) : w = <<c>> /\ \A n \in DOMAIN w : NoUp(w[n])
    BY <2>4, NoReport
  <2>6. PICK last, ups, downs : last = Happens(ack, w, ups, downs) /\ conn' = last
    BY <1>3, <1>6, <2>3, <2>5
  <2> QED BY <1>4, <2>1, <2>2, <2>5, <2>6, HappensDue
<1> QED BY <1>5, <1>6

LEMMA HardwareDue == ASSUME ReceiverInv, DueInv, Hardware PROVE DueStep
<1>1. PICK e \in Seq(Reports) : e = <<>> /\ \A n \in DOMAIN e : NoUp(e[n])
  BY NoReport
<1>2. ASSUME UNCHANGED <<link, conn, attach, due, owed>> PROVE DueStep
  BY <1>2 DEF DueStep, DueInv
<1>3. CASE OtherAsks
  BY <1>2, <1>3 DEF OtherAsks
<1>4. ASSUME NEW q \in asked, Ignores(q) PROVE DueStep
  BY <1>2, <1>4 DEF Ignores
<1>5. CASE Unplug
  BY <1>1, <1>5, GoneDue DEF Unplug
<1>6. CASE Plug
  <2>1. PICK last, ups, downs : last = Happens(e, e, ups, downs) /\ conn' = last
    BY <1>1, <1>6 DEF Plug
  <2>2. UNCHANGED <<link, attach, due, owed>>
    BY <1>6 DEF Plug
  <2> QED BY <1>1, <2>1, <2>2, HappensDue
<1> QED BY <1>3, <1>4, <1>5, <1>6, LinkUpDue, LinkDownDue, AnswersDue, MovesDue DEF Hardware

-----------------------------------------------------------------------------
(* The detector, and the types.                                            *)

LEMMA DueInvInit == Init => DueInv
<1> SUFFICES ASSUME Init PROVE DueInv
  OBVIOUS
<1>1. conn["tap"] = Closed /\ attach = FALSE /\ owed = FALSE /\ due = NothingDue
  BY DEF Init, Callers
<1>2. due \in [Slots -> 0..(MaxInbox + 1)]
  BY <1>1, Bounds DEF NothingDue
<1> QED BY <1>1, <1>2, ClosedCall DEF DueInv

LEMMA DueInvNext == ReceiverInv /\ DueInv /\ [Next]_vars => DueStep
<1> SUFFICES ASSUME ReceiverInv, DueInv, [Next]_vars PROVE DueStep
  OBVIOUS
<1>1. CASE WorkerSends \/ PollChecks \/ DetectorRuns
  BY <1>1, StartsDue
<1>2. CASE \E p \in Callers : Proceeds(p) \/ TimesOut(p) \/ Reads(p) \/ DeadlineEnds(p) \/ Cancelled(p)
  BY <1>2, ProceedsDue, TimesOutDue, ReadsDue, EndsDue
<1>3. CASE TapReads \/ TapFails \/ LoopTakesAttach \/ GenerationEnds
  BY <1>3, TapDue
<1>4. CASE Hardware
  BY <1>4, HardwareDue
<1>5. CASE UNCHANGED vars
  <2>1. UNCHANGED <<link, conn, attach, due, owed>>
    BY <1>5 DEF vars, env
  <2> QED BY <2>1 DEF DueStep, DueInv
<1> QED BY <1>1, <1>2, <1>3, <1>4, <1>5 DEF Next

\* What the probes of the start and the reports not read can still raise is due
\* an edge.
THEOREM DueInductive == Spec => []DueInv
<1>1. ReceiverInv /\ DueInv /\ [Next]_vars => DueInv'
  BY DueInvNext DEF DueStep
<1> QED BY <1>1, DueInvInit, ReceiverInductive, PTL DEF Spec

\* Every attach edge stands for one watched slot that took the link, or held it
\* when the detector was started, and no other edge did since.
THEOREM EdgesCorrect == Spec => EdgesAreLinks
<1>1. /\ ReceiverInv /\ DueInv /\ [Next]_vars
      => [~attach /\ attach' => \E s \in Triggers : due'[s] = due[s] - 1 /\ due[s] > 0]_vars
  BY DueInvNext DEF DueStep
<1> QED BY <1>1, ReceiverInductive, DueInductive, PTL DEF Spec, EdgesAreLinks

\* The state has its type: the queues of requests and of reports keep their
\* bounds, the calls are somewhere, and no more edges are emitted than are due.
THEOREM TypeCorrect == Spec => []TypeOK
<1>1. ReceiverInv /\ DueInv => TypeOK
  BY DEF ReceiverInv, HardwareInv, CallsInv, Fits, DueInv, TypeOK
<1> QED BY <1>1, ReceiverInductive, DueInductive, PTL
=============================================================================
