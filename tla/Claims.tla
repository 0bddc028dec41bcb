------------------------------- MODULE Claims -------------------------------
(***************************************************************************)
(* The claims of one host (claim and claimLoop of agent/agent.go) and how  *)
(* it finds the coordinator (Resolver of discover/discover.go and          *)
(* connectServer of agent/watcher.go), against the coordinator of Server   *)
(* and the claims of the other hosts.                                      *)
(*                                                                         *)
(* A keyboard attaches; once the decider is idle it hands a claim to the   *)
(* claimer, which tries it four times.  An attempt goes through the        *)
(* addresses the resolver yields, the cached one first and then what mDNS  *)
(* finds, round after round, until one answers or the attempt's 5 s are    *)
(* over; so the time an address that swallows packets takes is taken from  *)
(* the others.  The watcher, which has no such limit, opens the /wait that *)
(* makes the host live, without which a claim is refused.                  *)
(*                                                                         *)
(* Left out: --server and SOFTKVM_SERVER, a resolver of one fixed address, *)
(* and an agent that stops (Agent).                                        *)
(***************************************************************************)
EXTENDS Server

CONSTANTS
  Me,           \* the host whose claims are modelled step by step
  Addrs,        \* addresses a candidate may have
  NoAddr,       \* nothing cached
  Attempts,     \* the 4 of claim
  MaxAttaches,  \* bound: attaches and activations, here and elsewhere
  MaxMoves,     \* bound: the times the coordinator changes its address
  MaxStrays     \* bound: requests given up that may still reach it

ASSUME MeAssumption == Me \in Hosts /\ NoAddr \notin Addrs
ASSUME ClaimBounds == /\ Attempts \in Nat \ {0} /\ MaxAttaches \in Nat
                      /\ MaxMoves \in Nat /\ MaxStrays \in Nat

VARIABLES
  due,      \* the decider will hand a claim over as soon as it is idle
  claimer,  \* claim: which attempt, what it tries, and the request under way
  strays,   \* requests given up and not yet lost
  watcher,  \* "cached" or "browsing" (connectServer), or "polling" (poll)
  cache,    \* the address file of the resolver
  home,     \* where the coordinator listens
  attaches, moves,
  last,     \* history: the host the user chose last, by attach or `activate`
  excused   \* history: why the owner may be another one since then

claimVars == <<due, claimer, strays>>
findVars == <<watcher, cache, home, moves>>
userVars == <<attaches, last, excused>>
allVars == <<vars, claimVars, findVars, userVars>>
serverButWaits == <<content, epoch, disk, conn, graceLeft>>

\* request: none, under way and not there yet, or how the coordinator has
\* answered it, before the claimer knows.
Requests == {"none", "sent", "changed", "unchanged", "refused"}
Resting == [attempt |-> 0, trying |-> FALSE, cached |-> FALSE, at |-> NoAddr,
            request |-> "none"]
Attempt(n) == [Resting EXCEPT !.attempt = n, !.trying = TRUE]
Busy == claimer.attempt # 0

-----------------------------------------------------------------------------
(* The loop and the user.                                                  *)

Chooses(h) ==
  /\ attaches < MaxAttaches /\ attaches' = attaches + 1
  /\ last' = h /\ excused' = FALSE

\* The keyboard attaches here; settled and with no job in flight the decider
\* claims, which is HandsClaim.
Attaches ==
  /\ Chooses(Me)
  /\ due' = TRUE
  /\ UNCHANGED <<vars, claimer, strays, findVars>>

\* The keyboard attaches on another host, whose claim succeeds at once.
AttachesElsewhere(h) ==
  /\ h # Me /\ Chooses(h)
  /\ Claim(h, FALSE, FALSE) \/ (h = owner /\ UNCHANGED vars)
  /\ UNCHANGED <<claimVars, findVars>>

\* activateCmd: `soft-kvm activate h` on this machine, which caches the address.
Activates(h) ==
  /\ Chooses(h)
  /\ Claim(h, TRUE, FALSE)
  /\ cache' = home
  /\ UNCHANGED <<claimVars, watcher, home, moves>>

\* The send of a claim: the channel has no buffer, and a claim that finds the
\* claimer busy is dropped.  If the coordinator has processed the claim under
\* way already, nothing will answer this attach.
HandsClaim ==
  /\ due /\ due' = FALSE
  /\ IF Busy
     THEN /\ excused' = (excused \/ claimer.request \in {"changed", "unchanged"})
          /\ UNCHANGED claimer
     ELSE claimer' = Attempt(1) /\ UNCHANGED excused
  /\ UNCHANGED <<vars, strays, findVars, attaches, last>>

-----------------------------------------------------------------------------
(* claim.                                                                  *)

\* Resolve, as a stream: the cached address once, then whatever a browse round
\* yields: the coordinator's entry lists several addresses, not all of them
\* routable, and entries outlive it.
Candidates(cachedTried) ==
  IF ~cachedTried /\ cache # NoAddr THEN {cache} ELSE Addrs

TriesCandidate(a) ==
  /\ claimer.trying /\ claimer.request = "none" /\ a \in Candidates(claimer.cached)
  /\ claimer' = [claimer EXCEPT !.cached = TRUE, !.at = a, !.request = "sent"]
  /\ UNCHANGED <<vars, due, strays, findVars, userVars>>

\* handleClaim for a claim of Me, whose outcome is r.  A claim that takes the
\* ownership back from a host chosen since crossed that host's.
Processed(r) ==
  /\ CASE r = "changed"   -> Claim(Me, FALSE, FALSE)
       [] r = "unchanged" -> owner = Me /\ UNCHANGED vars
       [] r = "refused"   -> owner # Me /\ ~IsLive(Me) /\ UNCHANGED vars
  /\ excused' = (excused \/ (r = "changed" /\ last # Me))
  /\ UNCHANGED <<attaches, last>>

Reaches ==
  /\ claimer.request = "sent" /\ claimer.at = home
  /\ \E r \in {"changed", "unchanged", "refused"} :
       Processed(r) /\ claimer' = [claimer EXCEPT !.request = r]
  /\ UNCHANGED <<due, strays, findVars>>

\* Mutant of Answered: a refusal is an answer like any other.
AnsweredAnyhow ==
  /\ claimer.request \in {"changed", "unchanged", "refused"}
  /\ claimer' = Resting
  /\ cache' = IF claimer.request = "changed" THEN claimer.at ELSE cache
  /\ UNCHANGED <<vars, due, strays, watcher, home, moves, userVars>>

\* The answer comes back, and the claim is over.
Answered ==
  /\ claimer.request \in {"changed", "unchanged"}
  /\ claimer' = Resting
  /\ cache' = IF claimer.request = "changed" THEN claimer.at ELSE cache
  /\ UNCHANGED <<vars, due, strays, watcher, home, moves, userVars>>

\* The request fails before the attempt's deadline, refused by the address or
\* the coordinator, or its answer lost: on to the next candidate.
CandidateFails ==
  /\ claimer.request # "none"
  /\ claimer' = [claimer EXCEPT !.request = "none"]
  /\ UNCHANGED <<vars, due, strays, findVars, userVars>>

\* Mutant of DeadlineEnds: the time is up for the stream, not for a request.
DeadlineEndsStream ==
  /\ claimer.trying /\ claimer.request = "none"
  /\ claimer' = IF claimer.attempt < Attempts THEN [claimer EXCEPT !.trying = FALSE]
                ELSE Resting
  /\ excused' = (excused \/ (claimer.attempt = Attempts /\ last = Me))
  /\ UNCHANGED <<vars, due, strays, findVars, attaches, last>>

\* The attempt's context ends: so does its request, which may still be on its
\* way, and the stream.  After the last attempt the claim is given up.
DeadlineEnds ==
  /\ claimer.trying
  /\ \/ /\ claimer.request = "sent" /\ claimer.at = home
        /\ strays < MaxStrays /\ strays' = strays + 1
     \/ UNCHANGED strays
  /\ claimer' = IF claimer.attempt < Attempts
                THEN [Resting EXCEPT !.attempt = claimer.attempt] ELSE Resting
  /\ excused' = (excused \/ (claimer.attempt = Attempts /\ last = Me))
  /\ UNCHANGED <<vars, due, findVars, attaches, last>>

\* The backoff before the next attempt is over.
NextAttempt ==
  /\ Busy /\ ~claimer.trying
  /\ claimer' = Attempt(claimer.attempt + 1)
  /\ UNCHANGED <<vars, due, strays, findVars, userVars>>

\* A request given up reaches the coordinator after all, or is lost.
StrayEnds ==
  /\ strays > 0 /\ strays' = strays - 1
  /\ \/ \E r \in {"changed", "unchanged", "refused"} : Processed(r)
     \/ UNCHANGED <<vars, userVars>>
  /\ UNCHANGED <<due, claimer, findVars>>

-----------------------------------------------------------------------------
(* connectServer and poll, and the coordinator's whereabouts.              *)

\* A candidate answered /state: it is cached, and the /wait makes Me live.
Connects ==
  /\ cache' = home
  /\ watcher' = "polling"
  /\ waiters' = [waiters EXCEPT ![Me] = 1]
  /\ UNCHANGED <<serverButWaits, claimVars, home, moves, userVars>>

ConnectsCached == watcher = "cached" /\ cache = home /\ Connects

\* Mutant of FallsThrough: connectServer starts again with the cached address.
FallsThroughNever ==
  /\ watcher = "cached" /\ cache = NoAddr
  /\ watcher' = "browsing"
  /\ UNCHANGED <<vars, claimVars, cache, home, moves, userVars>>

\* The cached address, if there is one, does not answer.
FallsThrough ==
  /\ watcher = "cached"
  /\ watcher' = "browsing"
  /\ UNCHANGED <<vars, claimVars, cache, home, moves, userVars>>

\* A browse yields, among others, an address that answers.
BrowseFinds == watcher = "browsing" /\ Connects

\* The /wait or the /state after it fails: Me is live no longer.
PollFails ==
  /\ watcher = "polling"
  /\ watcher' = "cached"
  /\ waiters' = [waiters EXCEPT ![Me] = 0]
  /\ UNCHANGED <<serverButWaits, claimVars, cache, home, moves, userVars>>

\* The coordinator starts again, with its state.json, at another address; what
\* was under way to it or from it is lost.
HomeMoves(a) ==
  /\ a # home /\ moves < MaxMoves /\ moves' = moves + 1
  /\ home' = a
  /\ watcher' = IF watcher = "polling" THEN "cached" ELSE watcher
  /\ waiters' = [waiters EXCEPT ![Me] = 0]
  /\ claimer' = IF claimer.request = "none" THEN claimer
                ELSE [claimer EXCEPT !.request = "sent", !.at = home]
  /\ strays' = 0
  /\ UNCHANGED <<serverButWaits, due, cache, userVars>>

-----------------------------------------------------------------------------
\* The other hosts are live throughout.
ClaimsInit ==
  /\ owner = NoHost /\ epoch = 0 /\ activation = 0
  /\ assignments = NoAssignments /\ disk = Empty /\ conn = [c \in Conns |-> Idle]
  /\ waiters = [h \in Hosts |-> IF h = Me THEN 0 ELSE 1]
  /\ graceLeft = [h \in Hosts |-> 0]
  /\ due = FALSE /\ claimer = Resting /\ strays = 0
  /\ watcher = "cached" /\ cache \in Addrs \cup {NoAddr} /\ home \in Addrs
  /\ moves = 0 /\ attaches = 0 /\ last = NoHost /\ excused = FALSE

ClaimsNext ==
  \/ Attaches \/ HandsClaim
  \/ \E h \in Hosts : AttachesElsewhere(h) \/ Activates(h)
  \/ \E a \in Addrs : TriesCandidate(a) \/ HomeMoves(a)
  \/ Reaches \/ Answered \/ CandidateFails \/ DeadlineEnds \/ NextAttempt
  \/ StrayEnds
  \/ ConnectsCached \/ FallsThrough \/ BrowseFinds \/ PollFails

\* The loop hands over, contexts reach their deadlines, and backoffs and
\* requests end; a browse that is repeated for ever finds the coordinator.
ClaimsFairness ==
  /\ WF_allVars(HandsClaim) /\ WF_allVars(DeadlineEnds) /\ WF_allVars(NextAttempt)
  /\ WF_allVars(StrayEnds)
  /\ WF_allVars(ConnectsCached \/ FallsThrough) /\ WF_allVars(BrowseFinds)

ClaimsSpec == ClaimsInit /\ [][ClaimsNext]_allVars /\ ClaimsFairness

-----------------------------------------------------------------------------
(* Properties.                                                             *)

\* The ownership follows the user: once no claim is due, tried or on its way,
\* the owner is the host where the keyboard attached, or that was activated,
\* last.  Three exceptions, each needing a claim slower than the user: a claim
\* retried or delayed takes the ownership back, the last attach came after the
\* coordinator had processed the claim still under way, or every attempt
\* failed.
OwnerFollowsAttach ==
  ~due /\ ~Busy /\ strays = 0 /\ last # NoHost /\ ~excused => owner = last

\* Every claim comes to an end, found or given up, whatever the addresses
\* tried do with the packets, and the claimer is free for the next attach.
ClaimsEnd == []<>(~due /\ ~Busy)

\* The cache heals: once the coordinator stays where it is, its address is
\* cached and stays so, whatever was cached before.
CacheFollowsHome == <>[](cache = home)

=============================================================================
