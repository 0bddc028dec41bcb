--------------------------- MODULE DeciderContract ---------------------------
(***************************************************************************)
(* What the agent's loop and worker rely on of model.Decider: one issue is *)
(* outstanding at a time, nothing is decided while it is, and only its     *)
(* report ends it; one call decides at most a notification, a claim and an *)
(* issue, in that order; a claim never comes in the middle of a job.  What *)
(* a call observed is part of the behaviour, since what it may decide      *)
(* depends on it.  Decider implements this specification; Agent is built   *)
(* on its Outcomes.                                                        *)
(***************************************************************************)
EXTENDS Sequences

VARIABLES
  phase,   \* no state seen yet ("blank"), no job in flight ("idle"), a job with
           \* an issue outstanding ("issued"), a job without ("waiting")
  batch,   \* the decisions of the call for the claimer and the worker
  observed \* what the call observed, "none" when the last step was no call

Phases == {"blank", "idle", "issued", "waiting"}
\* The observation of a call: the report of an issue, a state, or another
\* (an attach, or nothing).
Observations == {"report", "state", "other"}
Optional(d) == {<<>>, <<d>>}
Outcome(p, b) == [phase |-> p, batch |-> b]

\* What a call may decide once no job is in flight, after the prefix n.
Fresh(n) ==
  {Outcome("idle", n \o c) : c \in Optional("claim")}
  \cup {Outcome("issued", n \o c \o <<"issue">>) : c \in Optional("claim")}

\* With no state to act on, only a claim; the state adopted when there was
\* no agent.json is not acted on either.
Blank == {Outcome("blank", c) : c \in Optional("claim")}

\* Mutant of Ongoing: a failure is notified before the last retry.
OngoingNotifying == {Outcome("waiting", n) : n \in Optional("notify")}
                      \cup {Outcome("issued", <<"issue">>)}
                      \cup UNION {Fresh(n) : n \in Optional("notify")}

\* A job goes on waiting, is issued again, or ends.
Ongoing == {Outcome("waiting", <<>>), Outcome("issued", <<"issue">>)}
             \cup UNION {Fresh(n) : n \in Optional("notify")}

\* Mutant of Outcomes: a deadline of the decider's own on the report.
OutcomesWithDeadline(p, o) ==
  CASE p = "blank" -> Blank \cup (IF o = "state" THEN Fresh(<<>>) ELSE {})
    [] p = "idle"  -> Fresh(<<>>)
    [] OTHER       -> Ongoing

Outcomes(p, o) ==
  CASE p = "blank"  -> Blank \cup (IF o = "state" THEN Fresh(<<>>) ELSE {})
    [] p = "idle"   -> Fresh(<<>>)
    [] p = "issued" /\ o # "report" -> {Outcome("issued", <<>>)}
    [] OTHER        -> Ongoing

Init == phase = "blank" /\ batch = <<>> /\ observed = "none"

Decide(o) ==
  /\ o = "report" => phase = "issued"
  /\ observed' = o
  /\ \E x \in Outcomes(phase, o) : phase' = x.phase /\ batch' = x.batch

\* The job in flight does not survive the process.
Crash == phase' = "blank" /\ batch' = <<>> /\ observed' = "none"

\* Time passes between two calls.
Rest == phase' = phase /\ batch' = <<>> /\ observed' = "none"

Next == (\E o \in Observations : Decide(o)) \/ Crash \/ Rest

Spec == Init /\ [][Next]_<<phase, batch, observed>>

=============================================================================
