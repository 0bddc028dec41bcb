-------------------------------- MODULE Watch --------------------------------
(***************************************************************************)
(* One host's watcher (agent/watcher.go, over client/client.go) following  *)
(* the coordinator of Server through a network that loses requests and     *)
(* answers, across restarts of the coordinator: GET /state, then /wait and *)
(* /state again and again, each state sent to the loop.                    *)
(*                                                                         *)
(* A resolution yields a candidate that answers or none (discover.go);     *)
(* the state file is kept (PersistFails, FileLost) unless a configuration  *)
(* says otherwise.  Only claims change the coordinator here: to the        *)
(* watcher any change of the epoch is as good as another.                  *)
(***************************************************************************)
EXTENDS Server

CONSTANTS
  Me,            \* the host of this agent
  None,          \* no state
  RequestsHang   \* whether a request may hang until its deadline

ASSUME WatchAssumption == Me \in Hosts /\ RequestsHang \in BOOLEAN

VARIABLES
  at,        \* where the watcher goroutine is
  asked,     \* the epoch of its /wait
  on,        \* the connection its /wait sleeps on
  got,       \* the last state fetched
  stateCh,   \* capacity 1, None when empty
  decided    \* the last state the loop took from stateCh

watcherVars == <<at, asked, on, got, stateCh, decided>>
serverVars == vars
watchVars == <<serverVars, watcherVars>>

Places == {"connecting", "sending", "asking", "asleep", "fetching", "backoff", "gone"}

-----------------------------------------------------------------------------
\* connectServer: a candidate's /state answers.
Connects ==
  /\ at = "connecting"
  /\ got' = Memory /\ at' = "sending"
  /\ UNCHANGED <<serverVars, asked, on, stateCh, decided>>

\* No candidate answered, in time or at all.
NoCandidate ==
  /\ at = "connecting"
  /\ at' = "backoff"
  /\ UNCHANGED <<serverVars, asked, on, got, stateCh, decided>>

BackoffEnds ==
  /\ at = "backoff"
  /\ at' = "connecting"
  /\ UNCHANGED <<serverVars, asked, on, got, stateCh, decided>>

\* Mutant of Sends: asks for the epoch the coordinator has by now.
SendsNewerEpoch ==
  /\ at = "sending" /\ stateCh = None
  /\ stateCh' = got /\ asked' = epoch /\ at' = "asking"
  /\ UNCHANGED <<serverVars, on, got, decided>>

\* sendState, which blocks while the loop has not taken the last one; the next
\* /wait asks for the epoch of the state sent.
Sends ==
  /\ at = "sending" /\ stateCh = None
  /\ stateCh' = got /\ asked' = got.epoch /\ at' = "asking"
  /\ UNCHANGED <<serverVars, on, got, decided>>

LoopReceives ==
  /\ stateCh # None
  /\ decided' = stateCh /\ stateCh' = None
  /\ UNCHANGED <<serverVars, at, asked, on, got>>

\* /wait arrives: answered at once when its epoch is not the current one.
WaitArrives ==
  /\ at = "asking"
  /\ \/ /\ asked # epoch
        /\ at' = "fetching"
        /\ UNCHANGED <<serverVars, on>>
     \/ /\ asked = epoch
        /\ \E c \in Conns : WaitRegisters(c, Me) /\ on' = c
        /\ at' = "asleep"
  /\ UNCHANGED <<asked, got, stateCh, decided>>

\* The handler's select: broadcast, 50 s, or the client gone.
HandlerSelects(c) == WaitReturns(c) /\ UNCHANGED watcherVars

\* The answer leaves once the handler has deregistered: 200 only after the
\* broadcast, 204 when the timeout was chosen.  A wall clock that jumped makes
\* the watcher reconnect, whatever the answer.
HandlerAnswers(c) ==
  /\ Deregister(c)
  /\ IF at = "asleep" /\ on = c
     THEN at' \in {"asking", "connecting"} \cup (IF conn[c].closed THEN {"fetching"} ELSE {})
     ELSE UNCHANGED at
  /\ UNCHANGED <<asked, on, got, stateCh, decided>>

\* Mutant of Fetches: the state is told from the one before by its owner.
FetchesOwner ==
  /\ at = "fetching"
  /\ got' = IF owner = got.owner THEN [got EXCEPT !.epoch = epoch] ELSE Memory
  /\ at' = "sending"
  /\ UNCHANGED <<serverVars, asked, on, stateCh, decided>>

\* /state after a wake.
Fetches ==
  /\ at = "fetching"
  /\ got' = Memory /\ at' = "sending"
  /\ UNCHANGED <<serverVars, asked, on, stateCh, decided>>

\* /wait or /state fails: refused, reset, or an answer that is no 2xx.  The
\* coordinator notices, or not, in its own time.
RequestFails ==
  /\ at \in {"asking", "asleep", "fetching"}
  /\ at' = "backoff"
  /\ UNCHANGED <<serverVars, asked, on, got, stateCh, decided>>

\* /wait or /state reaches the deadline of its own context: watch takes the
\* error, which is a DeadlineExceeded, for the end of the agent's context and
\* returns that context's error, nil.
RequestTimesOut ==
  /\ RequestsHang /\ at \in {"asking", "asleep", "fetching"}
  /\ at' = "gone"
  /\ UNCHANGED <<serverVars, asked, on, got, stateCh, decided>>

\* The coordinator stops and starts again.  A /wait it held is reset, or,
\* when it shuts down gracefully, ends as an empty 200, which is a wake.
ServerRestarts ==
  /\ Restart
  /\ IF at = "asleep" THEN at' \in {"backoff", "fetching"} ELSE UNCHANGED at
  /\ UNCHANGED <<asked, on, got, stateCh, decided>>

Claimed == /\ \E id \in Hosts, retake \in BOOLEAN : Claim(id, retake, TRUE)
           /\ UNCHANGED watcherVars

WatchInit ==
  /\ Init
  /\ at = "connecting" /\ asked = 0 /\ on \in Conns
  /\ got = None /\ stateCh = None /\ decided = None

WatchNext ==
  \/ Connects \/ NoCandidate \/ BackoffEnds \/ Sends \/ LoopReceives
  \/ WaitArrives \/ Fetches \/ RequestFails \/ RequestTimesOut
  \/ \E c \in Conns : HandlerSelects(c) \/ HandlerAnswers(c)
  \/ ServerRestarts \/ Claimed

\* A request tried again and again is answered in the end; the loop takes
\* what it is sent (Agent); the handler's select has a timeout.
WatchFairness ==
  /\ SF_watchVars(Connects) /\ SF_watchVars(Fetches) /\ SF_watchVars(WaitArrives)
  /\ WF_watchVars(BackoffEnds) /\ WF_watchVars(Sends) /\ WF_watchVars(LoopReceives)
  /\ \A c \in Conns : /\ WF_watchVars(HandlerSelects(c))
                      /\ WF_watchVars(HandlerAnswers(c))

WatchSpec == WatchInit /\ [][WatchNext]_watchVars
FairWatchSpec == WatchSpec /\ WatchFairness

-----------------------------------------------------------------------------
(* Properties.                                                             *)

WatchTypeOK ==
  /\ TypeOK
  /\ at \in Places /\ asked \in Nat /\ on \in Conns
  /\ \A s \in {got, stateCh, decided} \ {None} :
       /\ s.owner \in Hosts \cup {NoHost} /\ s.epoch \in Nat /\ s.activation \in Nat
       /\ StoredOK(s.assignments)
  /\ at \in {"sending", "asking", "asleep", "fetching"} => got # None

\* The watcher never sleeps on news: while its /wait is registered and not
\* woken, the state it sent the loop last is the coordinator's state, not
\* merely one with the same epoch.
SleepsUpToDate ==
  at = "asleep" /\ conn[on].phase = "waiting" /\ ~conn[on].closed => got = Memory

\* States reach the loop in the order they were current in: the decider never
\* acts on an older state after a newer one.
StatesInOrder ==
  [][decided # None => decided'.epoch >= decided.epoch /\ decided'.activation >= decided.activation]_watchVars

\* The loop ends up with the coordinator's state and keeps it, once the
\* coordinator changes no more (its epochs are bounded here): a failed
\* request is no more than an occasion to look again.
FollowsServer == <>[](decided = Memory)

\* The same while no request runs into its own deadline, whatever else is
\* lost on the way.
FollowsUnlessTimedOut == FollowsServer \/ <>[](at = "gone")

=============================================================================
