---------------------------- MODULE AgentProofs ----------------------------
(***************************************************************************)
(* Proofs about the goroutines of the agent, for any number of states per  *)
(* generation, whether the guards flap and whether the process is told to  *)
(* stop.                                                                   *)
(***************************************************************************)
EXTENDS Agent, FiniteSetTheorems, SequenceTheorems, TLAPS

\* What a call may leave to carry out, and what is left of it later.
Batches ==
  {<<>>, <<"notify">>, <<"claim">>, <<"issue">>, <<"notify", "claim">>,
   <<"notify", "issue">>, <<"claim", "issue">>, <<"notify", "claim", "issue">>}
Holds(b, d) == \E i \in DOMAIN b : b[i] = d

\* The forms a batch takes.
LEMMA BatchFacts ==
  ASSUME NEW b \in Batches
  PROVE  /\ Holds(b, "notify") => b # <<>> /\ b[1] = "notify"
         /\ b # <<>> => /\ Head(b) \in {"notify", "claim", "issue"}
                        /\ Tail(b) \in Batches
                        /\ Len(b) = 1 <=> Tail(b) = <<>>
                        /\ ~Holds(Tail(b), "notify")
                        /\ Head(b) # "issue" => (Holds(Tail(b), "issue") <=> Holds(b, "issue"))
                        /\ Head(b) = "issue" => Tail(b) = <<>> /\ Holds(b, "issue")
<1> USE DEF Batches, Holds
<1>1. CASE b = <<>>
  BY <1>1
<1>2. CASE b = <<"notify">>
  BY <1>2
<1>3. CASE b = <<"claim">>
  BY <1>3
<1>4. CASE b = <<"issue">>
  BY <1>4
<1>5. CASE b = <<"notify", "claim">>
  BY <1>5
<1>6. CASE b = <<"notify", "issue">>
  BY <1>6
<1>7. CASE b = <<"claim", "issue">>
  BY <1>7
<1>8. CASE b = <<"notify", "claim", "issue">>
  BY <1>8
<1> QED BY <1>1, <1>2, <1>3, <1>4, <1>5, <1>6, <1>7, <1>8

LEMMA OutcomeFacts ==
  ASSUME NEW p \in Contract!Phases, NEW o \in Contract!Observations,
         NEW x \in Contract!Outcomes(p, o)
  PROVE  /\ x.phase \in Contract!Phases
         /\ x.batch \in Batches
         /\ p = "issued" /\ o # "report" => x.phase = "issued" /\ x.batch = <<>>
         /\ p # "issued" \/ o = "report" => (x.phase = "issued" <=> Holds(x.batch, "issue"))
         /\ Holds(x.batch, "notify") => p = "waiting" \/ (p = "issued" /\ o = "report")
         /\ x.phase = "waiting" => /\ p = "waiting" \/ (p = "issued" /\ o = "report")
                                   /\ x.batch = <<>>
BY DEF Contract!Phases, Contract!Observations, Contract!Outcomes, Contract!Outcome,
       Contract!Fresh, Contract!Blank, Contract!Ongoing, Contract!Optional, Batches, Holds
-----------------------------------------------------------------------------
(* The inductive invariant.                                                *)

\* What a worker and the channels to and from it may hold.
Workers == [at : {"idle", "working", "posting", "notifying", "gone"}, issue : Issues]
Queue == {<<>>, <<"notify">>, <<issue>>, <<"notify", issue>>}
WorkTypes ==
  /\ phase \in Contract!Phases /\ issue \in Issues /\ batch \in Batches
  /\ loop \in Goroutines /\ (batch = <<>> <=> loop # "carrying")
  /\ decisions \in Queue /\ results \in {<<>>, <<issue>>}
  /\ worker \in Workers
  /\ gen \in Running \cup {"down", "over"} /\ (gen \in {"down", "over"} => loop = "gone")

\* The issue of the Decider is in at most one place at a time, on its way
\* through batch, queue, worker and result, and in none unless the Decider
\* waits.  That it is in one whenever the Decider waits is SteadyInv's, while
\* the guards stay up: a generation that ends may take it along.
QueueHolds == decisions \notin {<<>>, <<"notify">>}
OnePlace ==
  /\ ToSend \/ QueueHolds \/ InHand \/ results # <<>> => phase = "issued"
  /\ ToSend => ~QueueHolds /\ ~InHand /\ results = <<>>
  /\ QueueHolds => ~InHand /\ results = <<>>
  /\ InHand => worker.issue = issue /\ results = <<>>
  /\ phase = "issued" /\ batch # <<>> => ToSend

\* A notification is sent into an empty queue.
NotifiesFirst ==
  /\ Holds(batch, "notify") => decisions = <<>>
  /\ InHand \/ results # <<>> \/ phase = "waiting" => decisions = <<>>
  /\ phase = "waiting" => batch = <<>>

WorkInv == WorkTypes /\ OnePlace /\ NotifiesFirst

\* One call of the Decider keeps it, as long as a report is passed on only
\* when one was read.
LEMMA DecideInv ==
  ASSUME WorkInv, NEW o \in Contract!Observations, Decide(o), loop # "carrying",
         UNCHANGED <<decisions, worker, gen>>, gen \in Running,
         \/ o # "report" /\ UNCHANGED results
         \/ o = "report" /\ results # <<>> /\ results' = <<>>
  PROVE  WorkInv'
<1>1. PICK x \in Contract!Outcomes(phase, o) :
        /\ phase' = x.phase /\ batch' = x.batch
        /\ issue' = IF Holds(x.batch, "issue") THEN NextIssue ELSE issue
        /\ loop' = IF x.batch = <<>> THEN "select" ELSE "carrying"
  BY DEF Decide, Holds
<1>2. phase \in Contract!Phases /\ issue \in Issues /\ batch = <<>>
  BY DEF WorkInv, WorkTypes
<1>3. /\ phase' \in Contract!Phases /\ batch' \in Batches
      /\ phase = "issued" /\ o # "report" => phase' = "issued" /\ batch' = <<>>
      /\ phase # "issued" \/ o = "report" => (phase' = "issued" <=> Holds(batch', "issue"))
      /\ Holds(batch', "notify") => phase = "waiting" \/ (phase = "issued" /\ o = "report")
      /\ phase' = "waiting" => /\ phase = "waiting" \/ (phase = "issued" /\ o = "report")
                               /\ batch' = <<>>
  BY <1>1, <1>2, OutcomeFacts
<1>4. issue' \in Issues
  BY <1>1, <1>2 DEF Issues, NextIssue
<1>5. Holds(<<>>, "issue") = FALSE
  BY DEF Holds
<1>6. ~ToSend /\ (ToSend' <=> Holds(batch', "issue"))
  BY <1>2 DEF ToSend, Holds
<1>7. o = "report" => phase = "issued" /\ decisions = <<>> /\ ~InHand
  BY DEF WorkInv, OnePlace, NotifiesFirst
<1>8. CASE phase = "issued" /\ o # "report"
  <2>1. /\ phase' = "issued" /\ batch' = <<>> /\ issue' = issue /\ loop' = "select"
        /\ results' = results /\ decisions' = decisions /\ worker' = worker /\ gen' = gen
    BY <1>1, <1>3, <1>5, <1>8
  <2>2. ~ToSend'
    BY <1>5, <1>6, <2>1
  <2>3. ~Holds(batch', "notify")
    BY <2>1 DEF Holds
  <2> QED BY <1>2, <1>3, <1>8, <2>1, <2>2, <2>3
          DEF WorkInv, WorkTypes, OnePlace, NotifiesFirst, Queue, QueueHolds, InHand,
              Goroutines, Running
<1>9. CASE phase # "issued" \/ o = "report"
  <2>1. ~InHand /\ ~QueueHolds /\ results' = <<>>
    BY <1>7, <1>9 DEF WorkInv, WorkTypes, OnePlace, QueueHolds, InHand
  <2>2. ~InHand' /\ ~QueueHolds' /\ decisions' \in {<<>>, <<"notify">>}
    BY <2>1 DEF QueueHolds, InHand
  <2>3. Holds(batch', "notify") \/ phase' = "waiting" => decisions' = <<>>
    BY <1>3, <1>7 DEF WorkInv, NotifiesFirst
  <2>4. WorkTypes'
    BY <1>1, <1>3, <1>4, <2>1, <2>2 DEF WorkInv, WorkTypes, Queue, Goroutines, Running
  <2>5. OnePlace'
    <3>1. ToSend' <=> phase' = "issued"
      BY <1>3, <1>6, <1>9
    <3> QED BY <2>1, <2>2, <3>1 DEF OnePlace
  <2>6. NotifiesFirst'
    BY <1>3, <2>1, <2>2, <2>3 DEF NotifiesFirst
  <2> QED BY <2>4, <2>5, <2>6 DEF WorkInv
<1> QED BY <1>8, <1>9

\* The queue, as it is filled and emptied.
LEMMA QueueFacts ==
  /\ \A e : Append(<<>>, e) = <<e>>
  /\ Append(<<"notify">>, issue) = <<"notify", issue>>
  /\ \A e : Head(<<e>>) = e /\ Tail(<<e>>) = <<>>
  /\ Head(<<"notify", issue>>) = "notify" /\ Tail(<<"notify", issue>>) = <<issue>>
<1>1. Append(<<"notify">>, issue) = <<"notify", issue>>
  <2> DEFINE S == {"notify", issue}
  <2>1. <<"notify">> \in Seq(S) /\ <<"notify", issue>> \in Seq(S) /\ issue \in S
    OBVIOUS
  <2>2. /\ Append(<<"notify">>, issue) \in Seq(S) /\ Len(Append(<<"notify">>, issue)) = 2
        /\ Append(<<"notify">>, issue)[1] = "notify" /\ Append(<<"notify">>, issue)[2] = issue
    BY <2>1, AppendProperties
  <2>3. Len(<<"notify", issue>>) = 2 /\ <<"notify", issue>>[1] = "notify"
        /\ <<"notify", issue>>[2] = issue
    OBVIOUS
  <2>4. \A i \in 1..2 : i = 1 \/ i = 2
    OBVIOUS
  <2> HIDE DEF S
  <2> QED BY <2>1, <2>2, <2>3, <2>4, SeqEqual
<1> QED BY <1>1

\* What is queued tells its words apart.
LEMMA QueueWord ==
  ASSUME NEW e, e # "notify"
  PROVE  /\ <<e>> # <<>> /\ <<e>> # <<"notify">>
         /\ <<"notify", e>> # <<>> /\ <<"notify", e>> # <<"notify">>
<1>1. Len(<<e>>) = 1 /\ Len(<<"notify">>) = 1 /\ Len(<<"notify", e>>) = 2 /\ Len(<<>>) = 0
  OBVIOUS
<1>2. <<e>>[1] = e /\ <<"notify">>[1] = "notify"
  OBVIOUS
<1> QED BY <1>1, <1>2

\* The steps of the loop that call the Decider.
LEMMA LoopDecidesInv ==
  ASSUME WorkInv,
         \/ LoopStarts \/ LoopAttach \/ LoopTimer \/ LoopReceivesState \/ Offering
         \/ LoopReceivesResult
  PROVE  WorkInv'
<1>1. gen \notin {"down", "over"} => gen \in Running
  BY DEF WorkInv, WorkTypes
<1>2. "other" \in Contract!Observations /\ "state" \in Contract!Observations
      /\ "report" \in Contract!Observations
  BY DEF Contract!Observations
<1>3. ASSUME loop \in {"start", "select", "offer", "reoffer"},
             UNCHANGED <<decisions, results, worker, gen>>, Decide("other") \/ Decide("state")
      PROVE  WorkInv'
  <2>1. gen \in Running
    BY <1>1, <1>3 DEF WorkInv, WorkTypes
  <2> QED BY <1>2, <1>3, <2>1, DecideInv
<1>4. ASSUME UNCHANGED <<phase, batch, issue, decisions, results, worker, gen>>,
             loop \in {"select", "offer", "drain"}, loop' \in {"offer", "drain", "reoffer"}
      PROVE  WorkInv'
  BY <1>4 DEF WorkInv, WorkTypes, OnePlace, NotifiesFirst, ToSend, Queue, QueueHolds, InHand,
              Goroutines, Running
<1>5. CASE LoopStarts \/ LoopAttach \/ LoopTimer
  BY <1>3, <1>5 DEF LoopStarts, LoopAttach, LoopTimer, generationVars, workVars, supervisorVars
<1>6. CASE LoopReceivesState
  BY <1>4, <1>6 DEF LoopReceivesState, workVars, supervisorVars
<1>7. CASE LoopOffers
  BY <1>3, <1>4, <1>7 DEF LoopOffers, Offered, workVars, supervisorVars
<1>8. CASE LoopDrains
  BY <1>4, <1>8 DEF LoopDrains, workVars, supervisorVars
<1>9. CASE LoopOffersAgain
  BY <1>3, <1>9 DEF LoopOffersAgain, Offered, workVars, supervisorVars
<1>10. CASE LoopReceivesResult
  <2>1. /\ loop = "select" /\ results # <<>> /\ results' = Tail(results) /\ Decide("report")
        /\ UNCHANGED <<decisions, worker, gen>>
    BY <1>10 DEF LoopReceivesResult, supervisorVars
  <2>2. results' = <<>>
    BY <2>1, QueueFacts DEF WorkInv, WorkTypes
  <2>3. gen \in Running
    BY <1>1, <2>1 DEF WorkInv, WorkTypes
  <2> QED BY <1>2, <2>1, <2>2, <2>3, DecideInv
<1> QED BY <1>5, <1>6, <1>7, <1>8, <1>9, <1>10 DEF Offering

\* The loop carries out a decision, or leaves the rest of them.
LEMMA LoopCarriesInv ==
  ASSUME WorkInv, LoopClaims \/ LoopSends \/ LoopQuits PROVE WorkInv'
<1>1. loop = "carrying" =>
        /\ batch # <<>> /\ Head(batch) \in {"notify", "claim", "issue"}
        /\ Tail(batch) \in Batches /\ (Len(batch) = 1 <=> Tail(batch) = <<>>)
        /\ ~Holds(Tail(batch), "notify")
        /\ Head(batch) # "issue" => (Holds(Tail(batch), "issue") <=> Holds(batch, "issue"))
        /\ Head(batch) = "issue" => Tail(batch) = <<>> /\ Holds(batch, "issue")
  BY BatchFacts DEF WorkInv, WorkTypes
<1>2. ToSend <=> Holds(batch, "issue")
  BY DEF ToSend, Holds
<1>3. ToSend' <=> Holds(batch', "issue")
  BY DEF ToSend, Holds
<1>4. ~Holds(<<>>, "issue") /\ ~Holds(<<>>, "notify")
  BY DEF Holds
<1>5. CASE LoopClaims
  <2>1. /\ loop = "carrying" /\ Head(batch) = "claim" /\ batch' = Tail(batch)
        /\ loop' = IF Len(batch) = 1 THEN "select" ELSE "carrying"
        /\ UNCHANGED <<phase, issue, decisions, results, worker, gen>>
    BY <1>5 DEF LoopClaims, Carried, supervisorVars
  <2>2. ToSend' <=> ToSend
    BY <1>1, <1>2, <1>3, <2>1
  <2>3. WorkTypes'
    BY <1>1, <2>1 DEF WorkInv, WorkTypes, Goroutines, Queue, Running
  <2>4. OnePlace' /\ NotifiesFirst'
    BY <1>1, <2>1, <2>2 DEF WorkInv, OnePlace, NotifiesFirst, QueueHolds, InHand
  <2> QED BY <2>3, <2>4 DEF WorkInv
<1>6. CASE LoopSends
  <2>1. /\ loop = "carrying" /\ Head(batch) \in {"notify", "issue"} /\ batch' = Tail(batch)
        /\ decisions' = Append(decisions, Work)
        /\ loop' = IF Len(batch) = 1 THEN "select" ELSE "carrying"
        /\ UNCHANGED <<phase, issue, results, worker, gen>>
    BY <1>1, <1>6 DEF LoopSends, Carried, supervisorVars
  <2>2. CASE Head(batch) = "notify"
    <3>1. decisions = <<>>
      BY <1>1, <2>1, <2>2 DEF WorkInv, NotifiesFirst, Holds
    <3>2. decisions' = <<"notify">>
      BY <2>1, <2>2, <3>1, QueueFacts DEF Work
    <3>3. ToSend' <=> ToSend
      BY <1>1, <1>2, <1>3, <2>1, <2>2
    <3>4. WorkTypes'
      BY <1>1, <2>1, <3>2 DEF WorkInv, WorkTypes, Goroutines, Queue, Running
    <3>5. ~InHand /\ results = <<>> /\ phase # "waiting"
      BY <1>1, <2>1, <3>1 DEF WorkInv, OnePlace, NotifiesFirst
    <3>6. OnePlace' /\ NotifiesFirst'
      BY <1>1, <2>1, <3>1, <3>2, <3>3, <3>5
         DEF WorkInv, OnePlace, NotifiesFirst, QueueHolds, InHand
    <3> QED BY <3>4, <3>6 DEF WorkInv
  <2>3. CASE Head(batch) = "issue"
    <3>1. /\ ToSend /\ ~QueueHolds /\ ~InHand /\ results = <<>> /\ phase = "issued"
      BY <1>1, <1>2, <2>1, <2>3 DEF WorkInv, OnePlace
    <3>2. decisions' \in {<<issue>>, <<"notify", issue>>}
      BY <2>1, <2>3, <3>1, QueueFacts DEF Work, QueueHolds
    <3>3. batch' = <<>> /\ loop' = "select" /\ ~ToSend'
      BY <1>1, <1>3, <1>4, <2>1, <2>3
    <3>4. WorkTypes'
      BY <2>1, <3>2, <3>3 DEF WorkInv, WorkTypes, Goroutines, Queue, Running, Batches
    <3>5. OnePlace' /\ NotifiesFirst'
      BY <1>4, <2>1, <3>1, <3>3 DEF OnePlace, NotifiesFirst, QueueHolds, InHand
    <3> QED BY <3>4, <3>5 DEF WorkInv
  <2> QED BY <2>1, <2>2, <2>3
<1>7. CASE LoopQuits
  <2>1. /\ loop' = "gone" /\ batch' = <<>>
        /\ UNCHANGED <<phase, issue, decisions, results, worker, gen>>
    BY <1>7 DEF LoopQuits, workVars, supervisorVars
  <2>2. ~ToSend'
    BY <1>3, <1>4, <2>1
  <2>3. WorkTypes'
    BY <2>1 DEF WorkInv, WorkTypes, Goroutines, Queue, Running, Batches
  <2>4. OnePlace' /\ NotifiesFirst'
    BY <1>4, <2>1, <2>2 DEF WorkInv, OnePlace, NotifiesFirst, QueueHolds, InHand
  <2> QED BY <2>3, <2>4 DEF WorkInv
<1> QED BY <1>5, <1>6, <1>7

\* The worker takes the head of the queue, works on it and posts.
LEMMA WorkerInv ==
  ASSUME WorkInv,
         WorkerReceives \/ WorkerFinishes \/ WorkerPosts \/ WorkerNotified \/ WorkerQuits
  PROVE  WorkInv'
<1>1. /\ UNCHANGED <<phase, batch, issue, loop, gen>>
      /\ ToSend' <=> ToSend
      /\ Holds(batch', "notify") <=> Holds(batch, "notify")
  BY DEF WorkerReceives, WorkerFinishes, WorkerPosts, WorkerNotified, WorkerQuits,
         supervisorVars, ToSend, Holds
<1>2. worker \in Workers /\ issue \in Issues /\ issue # "notify"
  BY DEF WorkInv, WorkTypes, Issues
<1>3. CASE WorkerReceives
  <2>1. /\ worker.at = "idle" /\ decisions # <<>> /\ decisions' = Tail(decisions)
        /\ worker' = IF Head(decisions) = "notify" THEN Worker("notifying")
                     ELSE [at |-> "working", issue |-> Head(decisions)]
        /\ results' = results /\ ~InHand
    BY <1>3 DEF WorkerReceives, InHand
  <2>2. CASE Head(decisions) = "notify"
    <3>1. decisions' \in {<<>>, <<issue>>} /\ (QueueHolds' <=> QueueHolds)
      <4>1. decisions \in {<<"notify">>, <<"notify", issue>>}
        BY <1>2, <2>1, <2>2, QueueFacts DEF WorkInv, WorkTypes, Queue
      <4>2. <<issue>> # <<>> /\ <<issue>> # <<"notify">> /\ <<"notify", issue>> # <<>>
            /\ <<"notify", issue>> # <<"notify">>
        BY <1>2, QueueWord
      <4>3. CASE decisions = <<"notify">>
        <5>1. decisions' = <<>>
          BY <2>1, <4>3, QueueFacts
        <5> QED BY <4>3, <5>1 DEF QueueHolds
      <4>4. CASE decisions = <<"notify", issue>>
        <5>1. decisions' = <<issue>>
          BY <2>1, <4>4, QueueFacts
        <5> QED BY <4>2, <4>4, <5>1 DEF QueueHolds
      <4> QED BY <4>1, <4>3, <4>4
    <3>2. worker' = [at |-> "notifying", issue |-> "odd"] /\ ~InHand'
      BY <2>1, <2>2 DEF Worker, InHand
    <3>3. worker' \in Workers
      BY <3>2 DEF Workers, Issues
    <3>4. ~Holds(batch, "notify") /\ phase # "waiting" /\ results = <<>>
      BY <2>1 DEF WorkInv, WorkTypes, NotifiesFirst
    <3>5. WorkTypes'
      BY <1>1, <2>1, <3>1, <3>3 DEF WorkInv, WorkTypes, Queue
    <3> QED BY <1>1, <2>1, <3>1, <3>2, <3>4, <3>5 DEF WorkInv, OnePlace, NotifiesFirst
  <2>3. CASE Head(decisions) # "notify"
    <3>1. decisions = <<issue>> /\ decisions' = <<>> /\ QueueHolds /\ ~QueueHolds'
      BY <1>1, <1>2, <2>1, <2>3, QueueFacts DEF WorkInv, WorkTypes, Queue, QueueHolds
    <3>2. worker' = [at |-> "working", issue |-> issue] /\ worker'.issue = issue
      BY <2>1, <2>3, <3>1, QueueFacts
    <3>3. worker' \in Workers
      BY <1>2, <3>2 DEF Workers
    <3>4. WorkTypes'
      BY <1>1, <2>1, <3>1, <3>3 DEF WorkInv, WorkTypes, Queue
    <3>5. phase = "issued" /\ ~ToSend /\ results = <<>>
      BY <3>1 DEF WorkInv, OnePlace
    <3> QED BY <1>1, <2>1, <3>1, <3>2, <3>4, <3>5 DEF WorkInv, OnePlace, NotifiesFirst
  <2> QED BY <2>2, <2>3
<1>4. CASE WorkerFinishes
  <2>1. /\ worker' \in Workers /\ worker'.issue = worker.issue /\ InHand /\ InHand'
        /\ UNCHANGED <<decisions, results>>
    BY <1>2, <1>4 DEF WorkerFinishes, Workers, InHand
  <2> QED BY <1>1, <2>1 DEF WorkInv, WorkTypes, OnePlace, NotifiesFirst, Queue, QueueHolds
<1>5. CASE WorkerPosts
  <2>1. /\ InHand /\ worker' = Worker("idle") /\ decisions' = decisions
        /\ results' \in {results, Append(results, worker.issue)}
    BY <1>5 DEF WorkerPosts, InHand
  <2>2. results = <<>> /\ worker.issue = issue /\ ~ToSend /\ ~QueueHolds /\ phase = "issued"
        /\ decisions = <<>>
    BY <2>1 DEF WorkInv, OnePlace, NotifiesFirst
  <2>3. results' \in {<<>>, <<issue>>}
    BY <2>1, <2>2, QueueFacts
  <2>4. worker' \in Workers /\ ~InHand'
    BY <2>1 DEF Worker, Workers, InHand, Issues
  <2>5. WorkTypes'
    BY <1>1, <2>1, <2>3, <2>4 DEF WorkInv, WorkTypes, Queue
  <2> QED BY <1>1, <2>1, <2>2, <2>4, <2>5 DEF WorkInv, OnePlace, NotifiesFirst, QueueHolds
<1>6. CASE WorkerNotified \/ WorkerQuits
  <2>1. /\ worker' \in Workers /\ ~InHand /\ ~InHand' /\ UNCHANGED <<decisions, results>>
    BY <1>6 DEF WorkerNotified, WorkerQuits, Worker, Workers, InHand, Issues
  <2> QED BY <1>1, <2>1 DEF WorkInv, WorkTypes, OnePlace, NotifiesFirst, Queue, QueueHolds
<1> QED BY <1>3, <1>4, <1>5, <1>6

\* The supervisor: a generation begins and ends with nothing in its loop.
LEMMA SupervisorInv ==
  ASSUME WorkInv, GuardGoesDown \/ GenerationEnds \/ GuardsUp PROVE WorkInv'
<1>1. UNCHANGED <<phase, batch, issue, decisions, results, worker>>
      /\ (ToSend' <=> ToSend) /\ (InHand' <=> InHand) /\ (QueueHolds' <=> QueueHolds)
      /\ (Holds(batch', "notify") <=> Holds(batch, "notify"))
  BY DEF GuardGoesDown, GenerationEnds, GuardsUp, workVars, ToSend, InHand, QueueHolds, Holds
<1>2. OnePlace' /\ NotifiesFirst'
  BY <1>1 DEF WorkInv, OnePlace, NotifiesFirst
<1>3. /\ loop' \in Goroutines /\ (batch' = <<>> <=> loop' # "carrying")
      /\ gen' \in Running \cup {"down", "over"} /\ (gen' \in {"down", "over"} => loop' = "gone")
  BY <1>1 DEF GuardGoesDown, GenerationEnds, GuardsUp, WorkInv, WorkTypes, Goroutines, Running
<1> QED BY <1>1, <1>2, <1>3 DEF WorkInv, WorkTypes, Queue

\* Everything else leaves the work alone.
LEMMA OtherInv ==
  ASSUME WorkInv, UNCHANGED <<phase, batch, issue, loop, decisions, results, worker, gen>>
  PROVE  WorkInv'
BY DEF WorkInv, WorkTypes, OnePlace, NotifiesFirst, ToSend, InHand, QueueHolds, Queue, Holds

LEMMA WorkInvInit == Init => WorkInv
BY DEF Init, WorkInv, WorkTypes, OnePlace, NotifiesFirst, ToSend, InHand, QueueHolds, Queue,
       Holds, Worker, Workers, Issues, Batches, Goroutines, Running, Contract!Phases

LEMMA WorkInvNext == WorkInv /\ [Next]_vars => WorkInv'
<1> SUFFICES ASSUME WorkInv, [Next]_vars PROVE WorkInv'
  OBVIOUS
<1>1. CASE DetectorSends \/ WatcherSends \/ ArrivalWatchReads \/ ClaimEnds \/ ClaimerQuits
           \/ Stop \/ RunDrains \/ RunReturns
  BY <1>1, OtherInv DEF DetectorSends, WatcherSends, ArrivalWatchReads, ClaimEnds, ClaimerQuits,
                        Stop, RunDrains, RunReturns, workVars, supervisorVars
<1>2. CASE UNCHANGED vars
  BY <1>2, OtherInv DEF vars, workVars, supervisorVars
<1> QED BY <1>1, <1>2, LoopDecidesInv, LoopCarriesInv, WorkerInv, SupervisorInv DEF Next

\* The inductive invariant of the way of an issue from the Decider to the
\* worker and back: whatever generations the guards end, it is in at most one
\* place, it is the newest issue that is there, and it is nowhere once the
\* Decider no longer waits.
THEOREM WorkInvCorrect == Spec => []WorkInv
BY WorkInvInit, WorkInvNext, PTL DEF Spec

-----------------------------------------------------------------------------
(* What the invariant says.                                                *)

\* A result always answers the issue the Decider waits for.
THEOREM OneIssueCorrect == Spec => []OneIssueAtATime
<1>1. WorkInv => OneIssueAtATime
  <2> SUFFICES ASSUME WorkInv PROVE OneIssueAtATime
    OBVIOUS
  <2>1. issue \in Issues /\ "notify" \notin Issues
    BY DEF WorkInv, WorkTypes, Issues
  <2>2. CASE decisions \in {<<>>, <<"notify">>}
    <3>1. Queued = {}
      BY <2>1, <2>2 DEF Queued
    <3> QED BY <3>1 DEF WorkInv, WorkTypes, OnePlace, OneIssueAtATime
  <2>3. CASE decisions = <<issue>>
    <3>1. DOMAIN decisions = 1..1 /\ decisions[1] = issue
      BY <2>3
    <3>2. Queued = {1}
      BY <2>1, <3>1 DEF Queued
    <3>3. QueueHolds
      BY <2>1, <2>3, QueueWord DEF QueueHolds
    <3> QED BY <3>1, <3>2, <3>3 DEF WorkInv, OnePlace, OneIssueAtATime
  <2>4. CASE decisions = <<"notify", issue>>
    <3>1. DOMAIN decisions = 1..2 /\ decisions[1] = "notify" /\ decisions[2] = issue
      BY <2>4
    <3>2. Queued = {2}
      BY <2>1, <3>1 DEF Queued
    <3>3. QueueHolds
      BY <2>1, <2>4, QueueWord DEF QueueHolds
    <3> QED BY <3>1, <3>2, <3>3 DEF WorkInv, OnePlace, OneIssueAtATime
  <2> QED BY <2>2, <2>3, <2>4 DEF WorkInv, WorkTypes, Queue
<1> QED BY <1>1, WorkInvCorrect, PTL

\* How much of a batch goes to the worker.
LEMMA SendCount ==
  ASSUME NEW b \in Batches, NEW S, S = {i \in DOMAIN b : b[i] # "claim"}
  PROVE  /\ Cardinality(S) \in 0..2
         /\ ~Holds(b, "notify") => Cardinality(S) \in 0..1
         /\ ~Holds(b, "notify") /\ ~Holds(b, "issue") => Cardinality(S) = 0
<1>1. Cardinality({}) = 0 /\ \A i : Cardinality({i}) = 1
  BY FS_EmptySet, FS_Singleton
<1>2. Cardinality({1, 2}) = 2 /\ Cardinality({1, 3}) = 2
  <2>1. {1, 2} = {1} \cup {2} /\ {1, 3} = {1} \cup {3} /\ 2 \notin {1} /\ 3 \notin {1}
    OBVIOUS
  <2>2. IsFiniteSet({1}) /\ Cardinality({1}) = 1
    BY FS_Singleton
  <2>3. /\ Cardinality({1} \cup {2}) = IF 2 \in {1} THEN 1 ELSE 1 + 1
        /\ Cardinality({1} \cup {3}) = IF 3 \in {1} THEN 1 ELSE 1 + 1
    BY <2>2, FS_AddElement, Zenon
  <2> QED BY <2>1, <2>3
<1>3. CASE b \in {<<>>, <<"claim">>}
  <2>1. S = {}
    BY <1>3
  <2> QED BY <1>1, <2>1
<1>4. CASE b \in {<<"notify">>, <<"notify", "claim">>}
  <2>1. S = {1} /\ Holds(b, "notify")
    BY <1>4 DEF Holds
  <2> QED BY <1>1, <2>1
<1>5. CASE b = <<"issue">>
  <2>1. DOMAIN b = 1..1 /\ b[1] = "issue"
    BY <1>5
  <2>2. S = {1}
    BY <2>1
  <2>3. Holds(b, "issue")
    BY <2>1 DEF Holds
  <2>4. Cardinality(S) = 1
    BY <1>1, <2>2
  <2> QED BY <2>3, <2>4
<1>6. CASE b = <<"claim", "issue">>
  <2>1. S = {2} /\ Holds(b, "issue")
    BY <1>6 DEF Holds
  <2> QED BY <1>1, <2>1
<1>7. CASE b \in {<<"notify", "issue">>, <<"notify", "claim", "issue">>}
  <2>1. S \in {{1, 2}, {1, 3}} /\ Holds(b, "notify")
    BY <1>7 DEF Holds
  <2> QED BY <1>2, <2>1
<1> QED BY <1>3, <1>4, <1>5, <1>6, <1>7 DEF Batches

\* The loop never blocks in send, whatever the worker is doing.
THEOREM SendCorrect == Spec => []SendNeverBlocks
<1>1. WorkInv => SendNeverBlocks
  <2> SUFFICES ASSUME WorkInv PROVE SendNeverBlocks
    OBVIOUS
  <2> DEFINE S == {i \in DOMAIN batch : batch[i] # "claim"}
  <2>1. /\ batch \in Batches /\ decisions \in Queue
        /\ Holds(batch, "notify") => decisions = <<>>
        /\ Holds(batch, "issue") => decisions \in {<<>>, <<"notify">>}
    BY DEF WorkInv, WorkTypes, OnePlace, NotifiesFirst, QueueHolds, ToSend, Holds
  <2>2. /\ Cardinality(S) \in 0..2
        /\ ~Holds(batch, "notify") => Cardinality(S) \in 0..1
        /\ ~Holds(batch, "notify") /\ ~Holds(batch, "issue") => Cardinality(S) = 0
    BY <2>1, SendCount
  <2>3. /\ Len(decisions) \in 0..2
        /\ decisions = <<>> => Len(decisions) = 0
        /\ decisions = <<"notify">> => Len(decisions) = 1
    BY <2>1 DEF Queue
  <2> HIDE DEF S
  <2>4. Len(decisions) + Cardinality(S) <= 2
    BY <2>1, <2>2, <2>3
  <2> QED BY <2>4 DEF SendNeverBlocks, S
<1> QED BY <1>1, WorkInvCorrect, PTL

-----------------------------------------------------------------------------
(* An issue is lost with its generation only.                              *)

\* While the guards stay up, a loop ends with the process alone.
SteadyInv ==
  /\ gen \in {"up", "over"} /\ (loop = "gone" => stop)
  /\ phase = "issued" /\ ~stop => ToSend \/ QueueHolds \/ InHand \/ results # <<>>

\* A call of the Decider that leaves it waiting hands out the issue, or leaves
\* the one it waits for where it was.
LEMMA DecideSteady ==
  ASSUME WorkInv, SteadyInv, NEW o \in Contract!Observations, Decide(o), loop # "carrying",
         UNCHANGED <<decisions, worker, gen, stop>>,
         o # "report" => UNCHANGED results
  PROVE  SteadyInv'
<1>1. PICK x \in Contract!Outcomes(phase, o) :
        /\ phase' = x.phase /\ batch' = x.batch
        /\ loop' = IF x.batch = <<>> THEN "select" ELSE "carrying"
  BY DEF Decide
<1>2. phase \in Contract!Phases /\ batch = <<>>
  BY DEF WorkInv, WorkTypes
<1>3. \/ phase = "issued" /\ o # "report"
      \/ phase' = "issued" => Holds(batch', "issue")
  BY <1>1, <1>2, OutcomeFacts
<1>4. (ToSend' <=> Holds(batch', "issue")) /\ ~ToSend
  BY <1>2 DEF ToSend, Holds
<1>5. gen' \in {"up", "over"} /\ loop' # "gone"
  BY <1>1 DEF SteadyInv
<1>6. phase' = "issued" /\ ~stop' => ToSend' \/ QueueHolds' \/ InHand' \/ results' # <<>>
  BY <1>3, <1>4 DEF SteadyInv, QueueHolds, InHand
<1> QED BY <1>5, <1>6 DEF SteadyInv

\* The ways of an issue from the loop to its result.
LEMMA CarrySteady ==
  ASSUME WorkInv, WorkInv', SteadyInv, LoopClaims \/ LoopSends PROVE SteadyInv'
<1>1. /\ loop = "carrying" /\ batch' = Tail(batch) /\ loop' \in {"select", "carrying"}
      /\ UNCHANGED <<phase, results, worker, gen, stop>>
      /\ Head(batch) = "claim" => decisions' = decisions
      /\ Head(batch) # "claim" => decisions' = Append(decisions, Work)
  BY DEF LoopClaims, LoopSends, Carried, supervisorVars
<1>2. /\ Head(batch) \in {"notify", "claim", "issue"}
      /\ Head(batch) = "notify" => decisions = <<>>
      /\ Head(batch) # "issue" => (Holds(Tail(batch), "issue") <=> Holds(batch, "issue"))
  <2>1. batch \in Batches /\ batch # <<>> /\ (Holds(batch, "notify") => decisions = <<>>)
    BY <1>1 DEF WorkInv, WorkTypes, NotifiesFirst
  <2>2. Head(batch) = "notify" => Holds(batch, "notify")
    BY <2>1 DEF Holds, Batches
  <2> QED BY <2>1, <2>2, BatchFacts
<1>3. (ToSend <=> Holds(batch, "issue")) /\ (ToSend' <=> Holds(batch', "issue"))
  BY DEF ToSend, Holds
<1>4. InHand' <=> InHand
  BY <1>1 DEF InHand
<1>5. CASE Head(batch) # "issue"
  <2>1. QueueHolds => QueueHolds'
    <3>1. decisions = <<>> => ~QueueHolds
      BY DEF QueueHolds
    <3>2. Head(batch) = "claim" => (QueueHolds' <=> QueueHolds)
      BY <1>1 DEF QueueHolds
    <3> QED BY <1>2, <1>5, <3>1, <3>2
  <2> QED BY <1>1, <1>2, <1>3, <1>4, <1>5, <2>1 DEF SteadyInv
<1>6. CASE Head(batch) = "issue"
  <2>1. issue # "notify" /\ decisions' = Append(decisions, issue)
    BY <1>1, <1>6 DEF Work, WorkInv, WorkTypes, Issues
  <2>2. ~QueueHolds
    <3>1. batch \in Batches /\ batch # <<>>
      BY <1>1 DEF WorkInv, WorkTypes
    <3>2. Holds(batch, "issue")
      BY <1>6, <3>1, BatchFacts
    <3> QED BY <1>3, <3>2 DEF WorkInv, OnePlace
  <2>3. decisions' \in {<<issue>>, <<"notify", issue>>}
    BY <2>1, <2>2, QueueFacts DEF QueueHolds
  <2>4. QueueHolds'
    BY <2>1, <2>3, QueueWord DEF QueueHolds
  <2> QED BY <1>1, <2>4 DEF SteadyInv
<1> QED BY <1>5, <1>6

LEMMA WorkerSteady ==
  ASSUME WorkInv, WorkInv', SteadyInv,
         WorkerReceives \/ WorkerFinishes \/ WorkerPosts \/ WorkerNotified \/ WorkerQuits
  PROVE  SteadyInv'
<1>1. UNCHANGED <<phase, batch, loop, gen, stop>> /\ (ToSend' <=> ToSend)
  BY DEF WorkerReceives, WorkerFinishes, WorkerPosts, WorkerNotified, WorkerQuits,
         supervisorVars, ToSend
<1>2. CASE WorkerReceives
  <2>1. /\ decisions \in Queue /\ decisions' = Tail(decisions) /\ results' = results
        /\ worker' = IF Head(decisions) = "notify" THEN Worker("notifying")
                     ELSE [at |-> "working", issue |-> Head(decisions)]
        /\ ~InHand /\ issue # "notify"
    BY <1>2 DEF WorkerReceives, WorkInv, WorkTypes, InHand, Issues
  <2>2. QueueHolds => QueueHolds' \/ InHand'
    <3>1. CASE decisions = <<issue>>
      <4>1. worker'.at = "working"
        BY <2>1, <3>1, QueueFacts
      <4> QED BY <4>1 DEF InHand
    <3>2. CASE decisions = <<"notify", issue>>
      <4>1. decisions' = <<issue>>
        BY <2>1, <3>2, QueueFacts
      <4> QED BY <2>1, <4>1, QueueWord DEF QueueHolds
    <3> QED BY <2>1, <3>1, <3>2 DEF Queue, QueueHolds
  <2> QED BY <1>1, <2>1, <2>2 DEF SteadyInv
<1>3. CASE WorkerFinishes
  <2>1. InHand' /\ UNCHANGED <<decisions, results>>
    BY <1>3 DEF WorkerFinishes, WorkInv, WorkTypes, Workers, InHand
  <2> QED BY <1>1, <2>1 DEF SteadyInv
<1>4. CASE WorkerPosts
  <2>1. InHand /\ (stop \/ results' = Append(results, worker.issue))
    BY <1>4 DEF WorkerPosts, InHand
  <2>2. results = <<>>
    BY <2>1 DEF WorkInv, OnePlace
  <2>3. stop \/ results' # <<>>
    BY <2>1, <2>2, QueueFacts
  <2> QED BY <1>1, <2>3 DEF SteadyInv
<1>5. CASE WorkerNotified \/ WorkerQuits
  <2>1. ~InHand /\ UNCHANGED <<decisions, results>>
    BY <1>5 DEF WorkerNotified, WorkerQuits, InHand
  <2> QED BY <1>1, <2>1 DEF SteadyInv, QueueHolds
<1> QED BY <1>2, <1>3, <1>4, <1>5

\* While the guards stay up the Decider never waits for an issue that is
\* nowhere: what the run of flapping guards shows to fail is their doing.
THEOREM IssueKept == ASSUME ~GuardFlaps PROVE Spec => []IssueNotLost
<1>1. Init => SteadyInv
  BY DEF Init, SteadyInv
<1>2. WorkInv /\ WorkInv' /\ SteadyInv /\ [Next]_vars => SteadyInv'
  <2> SUFFICES ASSUME WorkInv, WorkInv', SteadyInv, [Next]_vars PROVE SteadyInv'
    OBVIOUS
  <2>1. "other" \in Contract!Observations /\ "state" \in Contract!Observations
        /\ "report" \in Contract!Observations
    BY DEF Contract!Observations
  <2>2. ASSUME loop \in {"start", "select", "offer", "reoffer"},
               UNCHANGED <<decisions, results, worker, gen, stop>>,
               Decide("other") \/ Decide("state")
        PROVE  SteadyInv'
    BY <2>1, <2>2, DecideSteady
  <2>3. ASSUME UNCHANGED <<phase, batch, decisions, results, worker, gen>>,
               loop' \in {"offer", "drain", "reoffer"} \/ loop' = loop,
               stop => stop'
        PROVE  SteadyInv'
    <3>1. (loop' = "gone" => loop = "gone") /\ (stop => stop')
      BY <2>3
    <3>2. (ToSend' <=> ToSend) /\ (QueueHolds' <=> QueueHolds) /\ (InHand' <=> InHand)
      BY <2>3 DEF ToSend, QueueHolds, InHand
    <3> QED BY <2>3, <3>1, <3>2 DEF SteadyInv
  <2>4. CASE LoopStarts \/ LoopAttach \/ LoopTimer
    BY <2>2, <2>4 DEF LoopStarts, LoopAttach, LoopTimer, workVars, supervisorVars
  <2>5. CASE LoopReceivesState \/ LoopDrains
    BY <2>3, <2>5 DEF LoopReceivesState, LoopDrains, workVars, supervisorVars
  <2>6. CASE LoopOffers
    BY <2>2, <2>3, <2>6 DEF LoopOffers, Offered, workVars, supervisorVars
  <2>7. CASE LoopOffersAgain
    BY <2>2, <2>7 DEF LoopOffersAgain, Offered, workVars, supervisorVars
  <2>8. CASE LoopReceivesResult
    BY <2>1, <2>8, DecideSteady DEF LoopReceivesResult, supervisorVars
  <2>9. CASE LoopQuits
    BY <2>9 DEF LoopQuits, Done, SteadyInv, supervisorVars
  <2>10. CASE DetectorSends \/ WatcherSends \/ ArrivalWatchReads \/ ClaimEnds \/ ClaimerQuits
              \/ Stop \/ RunDrains \/ RunReturns
    BY <2>3, <2>10 DEF DetectorSends, WatcherSends, ArrivalWatchReads, ClaimEnds, ClaimerQuits,
                       Stop, RunDrains, RunReturns, workVars, supervisorVars
  <2>11. CASE GuardGoesDown \/ GuardsUp
    BY <2>11 DEF GuardGoesDown, GuardsUp, SteadyInv
  <2>12. CASE GenerationEnds
    BY <2>12 DEF GenerationEnds, SteadyInv, workVars, ToSend, QueueHolds, InHand
  <2>13. CASE UNCHANGED vars
    BY <2>3, <2>13 DEF vars, workVars, supervisorVars
  <2> QED BY <2>4, <2>5, <2>6, <2>7, <2>8, <2>9, <2>10, <2>11, <2>12, <2>13,
             CarrySteady, WorkerSteady DEF Next, Offering
<1>3. WorkInv /\ SteadyInv => IssueNotLost
  <2> SUFFICES ASSUME WorkInv, SteadyInv, QueueHolds PROVE Queued # {}
    BY DEF SteadyInv, IssueNotLost
  <2>1. issue \in Issues
    BY DEF WorkInv, WorkTypes
  <2>2. CASE decisions = <<issue>>
    <3>1. 1 \in DOMAIN decisions /\ decisions[1] = issue
      BY <2>2
    <3> QED BY <2>1, <3>1 DEF Queued
  <2>3. CASE decisions = <<"notify", issue>>
    <3>1. 2 \in DOMAIN decisions /\ decisions[2] = issue
      BY <2>3
    <3> QED BY <2>1, <3>1 DEF Queued
  <2> QED BY <2>2, <2>3 DEF WorkInv, WorkTypes, Queue, QueueHolds
<1> QED BY <1>1, <1>2, <1>3, WorkInvCorrect, PTL DEF Spec

-----------------------------------------------------------------------------
(* offerLatest, and the types.                                             *)

Sent == 0..MaxStates
OfferTypes ==
  /\ sent \in Sent
  /\ stateCh \in 0..sent /\ arrivalCh \in 0..sent /\ offered \in 0..sent /\ seen \in 0..sent
  /\ attachCh \in 0..1 /\ run \in {"running", "draining", "returned"} /\ stop \in BOOLEAN
  /\ claimer \in {"waiting", "claiming", "gone"}

\* The channel is empty once drained, the loop being its only sender, and
\* between two offers nothing else fills it.
OfferInv ==
  /\ OfferTypes
  /\ loop = "reoffer" => arrivalCh = 0
  /\ loop = "start" => offered = 0 /\ seen = 0 /\ arrivalCh = 0
  /\ NewestStateOffered

\* A call of the Decider after which everything has been offered.
LEMMA DecideOffer ==
  ASSUME OfferTypes', NEW o, Decide(o),
         offered' \in {arrivalCh', seen'}, arrivalCh' \in {0, offered'}
  PROVE  OfferInv'
<1>1. loop' \in {"select", "carrying"}
  BY DEF Decide
<1> QED BY <1>1 DEF OfferInv, NewestStateOffered

\* The inductive invariant of offerLatest, by the program points of the loop.
THEOREM OfferCorrect == Spec => []OfferInv
<1>1. Init => OfferInv
  <2>1. Init => OfferTypes
    <3>1. 0 \in 0..MaxStates /\ 0 \in 0..0 /\ 0 \in 0..1
      BY AgentAssumption
    <3> QED BY <3>1 DEF Init, OfferTypes, Sent
  <2> QED BY <2>1 DEF Init, OfferInv, NewestStateOffered
<1>2. OfferInv /\ [Next]_vars => OfferInv'
  <2> SUFFICES ASSUME OfferInv, [Next]_vars PROVE OfferInv'
    OBVIOUS
  <2>0. OfferTypes
    BY DEF OfferInv
  <2>1. CASE LoopStarts \/ LoopAttach \/ LoopTimer \/ LoopReceivesResult
    <3>1. /\ \/ Decide("other") \/ Decide("report")
          /\ loop \in {"start", "select"} /\ attachCh' \in {attachCh, 0}
          /\ UNCHANGED <<stateCh, arrivalCh, sent, offered, seen, claimer, run, stop>>
      BY <2>1 DEF LoopStarts, LoopAttach, LoopTimer, LoopReceivesResult, generationVars,
                  workVars, supervisorVars
    <3>2. OfferTypes'
      BY <2>0, <3>1 DEF OfferTypes
    <3>3. offered' \in {arrivalCh', seen'} /\ arrivalCh' \in {0, offered'}
      BY <3>1 DEF OfferInv, NewestStateOffered
    <3> QED BY <3>1, <3>2, <3>3, DecideOffer
  <2>2. CASE LoopReceivesState
    <3>1. OfferTypes'
      BY AgentAssumption, <2>0, <2>2 DEF LoopReceivesState, OfferTypes, Sent, workVars, supervisorVars
    <3> QED BY <2>2, <3>1 DEF LoopReceivesState, OfferInv, NewestStateOffered
  <2>3. CASE LoopOffers \/ LoopOffersAgain
    <3>1. /\ \/ Offered
             \/ loop' = "drain" /\ UNCHANGED arrivalCh
          /\ UNCHANGED <<attachCh, stateCh, sent, offered, seen, claimer, run, stop>>
      BY <2>3 DEF LoopOffers, LoopOffersAgain, OfferInv, workVars, supervisorVars
    <3>2. CASE Offered
      <4>1. OfferTypes'
        BY <2>0, <3>1, <3>2 DEF Offered, OfferTypes
      <4>2. Decide("state") /\ arrivalCh' = offered'
        BY <3>1, <3>2 DEF Offered
      <4> QED BY <4>1, <4>2, DecideOffer
    <3>3. CASE loop' = "drain" /\ UNCHANGED arrivalCh
      <4>1. OfferTypes'
        BY <2>0, <3>1, <3>3 DEF OfferTypes
      <4> QED BY <3>3, <4>1 DEF OfferInv, NewestStateOffered
    <3> QED BY <3>1, <3>2, <3>3
  <2>4. CASE LoopDrains
    <3>1. OfferTypes'
      BY AgentAssumption, <2>0, <2>4 DEF LoopDrains, OfferTypes, Sent, workVars, supervisorVars
    <3> QED BY <2>4, <3>1 DEF LoopDrains, OfferInv, NewestStateOffered
  <2>5. CASE LoopClaims \/ LoopSends \/ LoopQuits
    <3>1. /\ loop' \in {"select", "carrying", "gone"} /\ loop \in {"select", "carrying"}
          /\ claimer' \in {claimer, "claiming"}
          /\ UNCHANGED <<attachCh, stateCh, arrivalCh, sent, offered, seen, run, stop>>
      BY <2>5 DEF LoopClaims, LoopSends, LoopQuits, Carried, generationVars, workVars,
                  supervisorVars
    <3>2. OfferTypes'
      BY <2>0, <3>1 DEF OfferTypes
    <3> QED BY <3>1, <3>2 DEF OfferInv, NewestStateOffered
  <2>6. CASE DetectorSends \/ WatcherSends
    <3>1. OfferTypes'
      BY <2>0, <2>6, AgentAssumption
         DEF DetectorSends, WatcherSends, OfferTypes, Sent, workVars, supervisorVars
    <3> QED BY <2>6, <3>1 DEF DetectorSends, WatcherSends, OfferInv, NewestStateOffered
  <2>7. CASE ArrivalWatchReads
    <3>1. OfferTypes'
      BY AgentAssumption, <2>0, <2>7 DEF ArrivalWatchReads, OfferTypes, Sent, workVars, supervisorVars
    <3> QED BY <2>7, <3>1 DEF ArrivalWatchReads, OfferInv, NewestStateOffered
  <2>8. CASE WorkerReceives \/ WorkerFinishes \/ WorkerPosts \/ WorkerNotified \/ WorkerQuits
             \/ ClaimEnds \/ ClaimerQuits \/ GuardGoesDown \/ GenerationEnds
             \/ Stop \/ RunDrains \/ RunReturns \/ UNCHANGED vars
    <3>1. /\ claimer' \in {claimer, "waiting", "gone"}
          /\ run' \in {run, "draining", "returned"} /\ (stop' = stop \/ stop' = TRUE)
          /\ UNCHANGED <<loop, attachCh, stateCh, arrivalCh, sent, offered, seen>>
      BY <2>8 DEF WorkerReceives, WorkerFinishes, WorkerPosts, WorkerNotified, WorkerQuits,
                  ClaimEnds, ClaimerQuits, GuardGoesDown, GenerationEnds, Stop, RunDrains,
                  RunReturns, vars, generationVars, workVars, supervisorVars
    <3>2. OfferTypes'
      BY <2>0, <3>1 DEF OfferTypes
    <3> QED BY <3>1, <3>2 DEF OfferInv, NewestStateOffered
  <2>9. CASE GuardsUp
    <3>1. OfferTypes'
      BY <2>0, <2>9, AgentAssumption DEF GuardsUp, OfferTypes, Sent, workVars
    <3> QED BY <2>9, <3>1 DEF GuardsUp, OfferInv, NewestStateOffered
  <2> QED BY <2>1, <2>2, <2>3, <2>4, <2>5, <2>6, <2>7, <2>8, <2>9 DEF Next, Offering
<1> QED BY <1>1, <1>2, PTL DEF Spec

\* Once the loop has decided on a state, the arrival watcher has read it or
\* will read it next: offerLatest loses nothing.
THEOREM NewestOffered == Spec => []NewestStateOffered
BY OfferCorrect, PTL DEF OfferInv

\* The channels hold what the code sends on them, within their capacity.
THEOREM TypeCorrect == Spec => []TypeOK
<1>1. WorkInv /\ OfferInv => TypeOK
  <2> SUFFICES ASSUME WorkTypes, OfferTypes PROVE TypeOK
    BY DEF WorkInv, OfferInv
  <2>1. \A i \in DOMAIN batch : batch[i] \in {"notify", "claim", "issue"}
    BY DEF WorkTypes, Batches
  <2>2. Len(decisions) <= 2 /\ \A i \in DOMAIN decisions : decisions[i] \in Issues \cup {"notify"}
    <3>1. CASE decisions = <<>>
      BY <3>1
    <3>2. CASE decisions = <<"notify">>
      BY <3>2
    <3>3. CASE decisions = <<issue>>
      <4>1. Len(decisions) = 1 /\ DOMAIN decisions = 1..1 /\ decisions[1] = issue
        BY <3>3
      <4> QED BY <4>1 DEF WorkTypes
    <3>4. CASE decisions = <<"notify", issue>>
      <4>1. /\ Len(decisions) = 2 /\ DOMAIN decisions = 1..2
            /\ decisions[1] = "notify" /\ decisions[2] = issue
        BY <3>4
      <4> QED BY <4>1 DEF WorkTypes
    <3> QED BY <3>1, <3>2, <3>3, <3>4 DEF WorkTypes, Queue
  <2>3. Len(results) <= 1 /\ \A i \in DOMAIN results : results[i] \in Issues
    <3>1. CASE results = <<>>
      BY <3>1
    <3>2. CASE results = <<issue>>
      <4>1. Len(results) = 1 /\ DOMAIN results = 1..1 /\ results[1] = issue
        BY <3>2
      <4> QED BY <4>1 DEF WorkTypes
    <3> QED BY <3>1, <3>2 DEF WorkTypes
  <2>4. Len(decisions) <= DecisionsCap /\ Len(results) <= ResultsCap
    BY <2>2, <2>3 DEF DecisionsCap, ResultsCap, WorkTypes, Queue
  <2>5. worker.at \in {"idle", "working", "posting", "notifying", "gone"}
    BY DEF WorkTypes, Workers
  <2> QED BY <2>1, <2>2, <2>3, <2>4, <2>5 DEF WorkTypes, OfferTypes, Sent, TypeOK
<1> QED BY <1>1, WorkInvCorrect, OfferCorrect, PTL

=============================================================================
