---------------------------- MODULE WatchProofs ----------------------------
(***************************************************************************)
(* Proofs about the watcher, for any hosts, number of open waits and epoch *)
(* bound, whether requests hang or not: its coordinator is the one of      *)
(* Server and keeps what is proved of it, and while state.json is kept the *)
(* watcher never sleeps on news and never brings an older state after a    *)
(* newer one.                                                              *)
(***************************************************************************)
EXTENDS Watch, ServerProofs

-----------------------------------------------------------------------------
(* The coordinator that is watched is the coordinator.                     *)

LEMMA WatchStep == [WatchNext]_watchVars => [Next]_vars
<1> SUFFICES ASSUME [WatchNext]_watchVars PROVE [Next]_vars
  OBVIOUS
<1>1. CASE Connects \/ NoCandidate \/ BackoffEnds \/ Sends \/ LoopReceives \/ Fetches
           \/ RequestFails \/ RequestTimesOut \/ UNCHANGED watchVars
  BY <1>1 DEF Connects, NoCandidate, BackoffEnds, Sends, LoopReceives, Fetches, RequestFails,
              RequestTimesOut, watchVars, serverVars
<1>2. CASE WaitArrives
  BY <1>2, WatchAssumption DEF WaitArrives, serverVars, Next
<1>3. CASE \E c \in Conns : HandlerSelects(c) \/ HandlerAnswers(c)
  BY <1>3 DEF HandlerSelects, HandlerAnswers, Next
<1>4. CASE ServerRestarts
  BY <1>4 DEF ServerRestarts, Next
<1>5. CASE Claimed
  BY <1>5 DEF Claimed, Next
<1> QED BY <1>1, <1>2, <1>3, <1>4, <1>5 DEF WatchNext

\* The watcher asks the coordinator nothing a host may not ask it: under every
\* watcher, the coordinator behaves as Server says it does.
THEOREM WatchedServer == WatchSpec => Spec
<1>1. WatchInit => Init
  BY DEF WatchInit
<1> QED BY <1>1, WatchStep, PTL DEF WatchSpec, Spec

\* No /wait of the watcher sleeps through a change, whatever is lost on the way.
THEOREM WatcherWoken == WatchSpec => []NoWaiterAsleepOnOldEpoch
BY WatchedServer, WaitersWoken, PTL

\* The watcher's requests, failed or not, leave its host's count of waits right.
THEOREM WatcherCounted == WatchSpec => []WaitersCounted
BY WatchedServer, LiveCountCorrect, PTL

-----------------------------------------------------------------------------
(* What the watcher knows.                                                 *)

\* A state the coordinator has had: the epoch tells it from any other.
Past(s) ==
  /\ s.epoch \in Nat /\ s.activation \in Nat
  /\ s.epoch <= epoch /\ s.activation <= activation
  /\ s.epoch = epoch => s = Memory
NoNewer(s, t) == s.epoch <= t.epoch /\ s.activation <= t.activation

\* The watcher has a state to go by.
Knows == at \in {"sending", "asking", "asleep", "fetching"}

\* What is on its way to the loop is older the further it has come.
Chain ==
  /\ Knows => Past(got)
  /\ stateCh # None => Past(stateCh) /\ (Knows => NoNewer(stateCh, got))
  /\ decided # None => /\ Past(decided) /\ (Knows => NoNewer(decided, got))
                       /\ stateCh # None => NoNewer(decided, stateCh)

\* The /wait is for the state sent last.
Asks ==
  /\ at \in {"asking", "asleep"} => asked = got.epoch
  /\ at = "asleep" => /\ on \in Conns /\ conn[on].phase \in {"waiting", "returning"}
                      /\ conn[on].epoch = asked

WatchInv == Chain /\ Asks

\* The invariants of the coordinator while the file is kept.
KeptInv == IInv /\ FileInv

LEMMA MemoryPast == IInv => Past(Memory)
BY DEF IInv, MemoryInv, ContentInv, Past, Memory

\* Time does not make a past state a future one.
LEMMA PastStays ==
  ASSUME NEW s, Past(s), IInv,
         \/ UNCHANGED <<content, epoch>>
         \/ epoch' = epoch + 1 /\ activation' \in {activation, activation + 1}
  PROVE  Past(s)'
<1>1. epoch \in Nat /\ activation \in Nat
  BY DEF IInv, MemoryInv, ContentInv
<1>2. CASE UNCHANGED <<content, epoch>>
  BY <1>2 DEF content, Past, Memory
<1>3. CASE epoch' = epoch + 1 /\ activation' \in {activation, activation + 1}
  BY <1>1, <1>3 DEF Past
<1> QED BY <1>2, <1>3

\* Steps of the watcher alone.
LEMMA WatcherStep ==
  ASSUME WatchInv, IInv, UNCHANGED serverVars,
         \/ Connects \/ NoCandidate \/ BackoffEnds \/ Sends \/ LoopReceives \/ Fetches
         \/ RequestFails \/ RequestTimesOut
  PROVE  WatchInv'
<1>1. UNCHANGED <<epoch, activation, conn, Memory>> /\ UNCHANGED <<content, epoch>>
  BY DEF serverVars, vars, Memory, content
<1>2. \A s : Past(s)' <=> Past(s)
  BY <1>1 DEF Past
<1>3. CASE Connects \/ Fetches
  <2>1. /\ at' = "sending" /\ got' = Memory /\ stateCh' = stateCh /\ decided' = decided
    BY <1>3 DEF Connects, Fetches
  <2>2. \A s : Past(s) => NoNewer(s, Memory)
    BY DEF Past, NoNewer, Memory
  <2>3. Past(Memory)
    BY MemoryPast
  <2> QED BY <1>2, <2>1, <2>2, <2>3 DEF WatchInv, Chain, Asks, Knows
<1>4. CASE NoCandidate \/ BackoffEnds \/ RequestFails \/ RequestTimesOut
  BY <1>2, <1>4 DEF NoCandidate, BackoffEnds, RequestFails, RequestTimesOut,
                    WatchInv, Chain, Asks, Knows
<1>5. CASE Sends
  <2>1. /\ at = "sending" /\ at' = "asking" /\ stateCh' = got /\ asked' = got.epoch
        /\ got' = got /\ decided' = decided
    BY <1>5 DEF Sends
  <2>2. Past(got) => NoNewer(got, got)
    BY DEF Past, NoNewer
  <2> QED BY <1>2, <2>1, <2>2 DEF WatchInv, Chain, Asks, Knows
<1>6. CASE LoopReceives
  BY <1>1, <1>2, <1>6 DEF LoopReceives, WatchInv, Chain, Asks, Knows
<1> QED BY <1>3, <1>4, <1>5, <1>6

\* The coordinator's steps: its state moves forward, and a wait keeps the
\* epoch it was registered with.
LEMMA ServedStep ==
  ASSUME WatchInv, IInv,
         \/ UNCHANGED <<content, epoch>>
         \/ epoch' = epoch + 1 /\ activation' \in {activation, activation + 1},
         UNCHANGED <<asked, got, stateCh, decided>>,
         Knows' => Knows, at' = "asking" => at \in {"asking", "asleep"},
         at' = "asleep" => /\ at \in {"asking", "asleep"}
                           /\ on' \in Conns /\ conn'[on'].phase \in {"waiting", "returning"}
                           /\ conn'[on'].epoch = asked
  PROVE  WatchInv'
<1>1. \A s : Past(s) => Past(s)'
  BY PastStays
<1>2. Chain'
  BY <1>1 DEF WatchInv, Chain, NoNewer
<1>3. Asks'
  BY DEF WatchInv, Asks
<1> QED BY <1>2, <1>3 DEF WatchInv

LEMMA WatchInvNext ==
  ASSUME ~FileLost PROVE KeptInv /\ WatchInv /\ [WatchNext]_watchVars => WatchInv'
<1> SUFFICES ASSUME IInv, FileInv, WatchInv, [WatchNext]_watchVars PROVE WatchInv'
  BY DEF KeptInv
<1>1. CASE Connects \/ NoCandidate \/ BackoffEnds \/ Sends \/ LoopReceives \/ Fetches
           \/ RequestFails \/ RequestTimesOut
  <2>1. UNCHANGED serverVars
    BY <1>1 DEF Connects, NoCandidate, BackoffEnds, Sends, LoopReceives, Fetches, RequestFails,
                RequestTimesOut
  <2> QED BY <1>1, <2>1, WatcherStep
<1>2. CASE WaitArrives
  <2>1. at = "asking" /\ UNCHANGED <<content, epoch>> /\ UNCHANGED <<asked, got, stateCh, decided>>
    BY <1>2 DEF WaitArrives, WaitRegisters, serverVars, vars, content
  <2>2. at' = "fetching" \/ (/\ at' = "asleep" /\ on' \in Conns
                             /\ conn'[on'].phase = "waiting" /\ conn'[on'].epoch = asked)
    BY <1>2 DEF WaitArrives, WaitRegisters, IInv, ConnOK
  <2> QED BY <2>1, <2>2, ServedStep DEF Knows
<1>3. ASSUME NEW c \in Conns, HandlerSelects(c)
      PROVE  WatchInv'
  <2>1. UNCHANGED <<content, epoch>> /\ UNCHANGED <<at, on, asked, got, stateCh, decided>>
    BY <1>3 DEF HandlerSelects, WaitReturns, watcherVars, content
  <2>2. at = "asleep" => conn'[on].phase \in {"waiting", "returning"} /\ conn'[on].epoch = asked
    BY <1>3 DEF HandlerSelects, WaitReturns, IInv, ConnOK, Phase, WatchInv, Asks
  <2> QED BY <2>1, <2>2, ServedStep DEF Knows, WatchInv, Asks
<1>4. ASSUME NEW c \in Conns, HandlerAnswers(c)
      PROVE  WatchInv'
  <2>1. UNCHANGED <<content, epoch>> /\ UNCHANGED <<on, asked, got, stateCh, decided>>
    BY <1>4 DEF HandlerAnswers, Deregister, content
  <2>2. CASE at = "asleep" /\ on = c
    <3>1. at' \in {"asking", "connecting", "fetching"}
      BY <1>4, <2>2 DEF HandlerAnswers
    <3> QED BY <2>1, <2>2, <3>1, ServedStep DEF Knows
  <2>3. CASE ~(at = "asleep" /\ on = c)
    <3>1. at' = at
      BY <1>4, <2>3 DEF HandlerAnswers
    <3>2. at = "asleep" => conn'[on] = conn[on]
      BY <1>4, <2>3 DEF HandlerAnswers, Deregister, IInv, ConnOK, WatchInv, Asks
    <3> QED BY <2>1, <3>1, <3>2, ServedStep DEF Knows, WatchInv, Asks
  <2> QED BY <2>2, <2>3
<1>5. CASE ServerRestarts
  <2>1. UNCHANGED <<content, epoch>> /\ UNCHANGED <<on, asked, got, stateCh, decided>>
    BY <1>5, RestartFile DEF ServerRestarts
  <2>2. (at' \in {"backoff", "fetching"} /\ at = "asleep") \/ (at' = at /\ at # "asleep")
    BY <1>5 DEF ServerRestarts
  <2> QED BY <2>1, <2>2, ServedStep DEF Knows
<1>6. CASE Claimed
  <2>1. /\ epoch' = epoch + 1 /\ activation' = activation + 1
        /\ UNCHANGED <<at, on, asked, got, stateCh, decided>>
    BY <1>6 DEF Claimed, Claim, Bump, watcherVars
  <2>2. at = "asleep" => conn'[on].phase \in {"waiting", "returning"} /\ conn'[on].epoch = asked
    <3>1. conn' = [c \in Conns |-> IF conn[c].phase = "waiting"
                                   THEN [conn[c] EXCEPT !.closed = TRUE] ELSE conn[c]]
      BY <1>6 DEF Claimed, Claim, Bump, Wake
    <3>2. \A c \in Conns : conn[c] \in [phase : Phase, id : Hosts \cup {NoHost}, epoch : Nat,
                                       closed : BOOLEAN]
      BY DEF IInv, ConnOK
    <3>3. \A c \in Conns : conn'[c].phase = conn[c].phase /\ conn'[c].epoch = conn[c].epoch
      BY <3>1, <3>2
    <3> QED BY <3>3 DEF WatchInv, Asks
  <2> QED BY <2>1, <2>2, ServedStep DEF Knows, WatchInv, Asks
<1>7. CASE UNCHANGED watchVars
  <2>1. UNCHANGED <<content, epoch>> /\ UNCHANGED <<at, on, asked, got, stateCh, decided, conn>>
    BY <1>7 DEF watchVars, serverVars, vars, watcherVars, content
  <2> QED BY <2>1, ServedStep DEF Knows, WatchInv, Asks
<1> QED BY <1>1, <1>2, <1>3, <1>4, <1>5, <1>6, <1>7 DEF WatchNext

LEMMA KeptCorrect ==
  ASSUME ~PersistFails, ~FileLost PROVE WatchSpec => [](KeptInv /\ WatchInv)
<1>1. KeptInv /\ [Next]_vars => FileInv'
  BY NextFile DEF KeptInv
<1>2. WatchSpec => []KeptInv
  BY <1>1, WatchedServer, InductiveInv, InitFile, PTL DEF KeptInv, Spec
<1>3. WatchInit => WatchInv
  BY DEF WatchInit, WatchInv, Chain, Asks, Knows
<1>4. KeptInv /\ WatchInv /\ [WatchNext]_watchVars => WatchInv'
  BY WatchInvNext
<1> QED BY <1>2, <1>3, <1>4, PTL DEF WatchSpec

-----------------------------------------------------------------------------
\* While the file is kept, the watcher sleeps only on the state it sent last:
\* an epoch it waits for stands for one state, over any restart.
THEOREM SleepsCorrect ==
  ASSUME ~PersistFails, ~FileLost PROVE WatchSpec => []SleepsUpToDate
<1>1. KeptInv /\ WatchInv => SleepsUpToDate
  <2> SUFFICES ASSUME IInv, WatchInv, at = "asleep", conn[on].phase = "waiting", ~conn[on].closed
               PROVE  got = Memory
    BY DEF KeptInv, SleepsUpToDate
  <2>1. conn[on].epoch = epoch
    BY DEF IInv, NoWaiterAsleepOnOldEpoch, WatchInv, Asks
  <2>2. got.epoch = epoch /\ Past(got)
    BY <2>1 DEF WatchInv, Asks, Chain, Knows
  <2> QED BY <2>2 DEF Past
<1> QED BY <1>1, KeptCorrect, PTL

DecidedStep ==
  decided # None => decided'.epoch >= decided.epoch /\ decided'.activation >= decided.activation

\* While the file is kept, the loop never decides on an older state after a
\* newer one, however many requests fail in between.
THEOREM OrderCorrect ==
  ASSUME ~PersistFails, ~FileLost PROVE WatchSpec => StatesInOrder
<1>1. WatchInv /\ [WatchNext]_watchVars => DecidedStep
  <2> SUFFICES ASSUME WatchInv, [WatchNext]_watchVars, decided # None
               PROVE  decided'.epoch >= decided.epoch /\ decided'.activation >= decided.activation
    BY DEF DecidedStep
  <2>1. Past(decided)
    BY DEF WatchInv, Chain
  <2>2. CASE LoopReceives
    <3>1. NoNewer(decided, stateCh) /\ Past(stateCh) /\ decided' = stateCh
      BY <2>2 DEF LoopReceives, WatchInv, Chain
    <3> QED BY <2>1, <3>1 DEF Past, NoNewer
  <2>3. decided' = decided \/ LoopReceives
    <3>1. CASE Connects \/ NoCandidate \/ BackoffEnds \/ Sends \/ Fetches
               \/ RequestFails \/ RequestTimesOut \/ WaitArrives \/ ServerRestarts
      BY <3>1 DEF Connects, NoCandidate, BackoffEnds, Sends, Fetches, RequestFails,
                  RequestTimesOut, WaitArrives, ServerRestarts
    <3>2. CASE \E c \in Conns : HandlerSelects(c) \/ HandlerAnswers(c)
      BY <3>2 DEF HandlerSelects, HandlerAnswers, watcherVars
    <3>3. CASE Claimed \/ UNCHANGED watchVars
      BY <3>3 DEF Claimed, watchVars, watcherVars
    <3> QED BY <3>1, <3>2, <3>3 DEF WatchNext
  <2> QED BY <2>1, <2>2, <2>3 DEF Past
<1>2. WatchSpec => [][DecidedStep]_watchVars
  BY <1>1, KeptCorrect, PTL DEF WatchSpec
<1> QED BY <1>2 DEF StatesInOrder, DecidedStep

=============================================================================
