----------------------------- MODULE DeployWait -----------------------------
(***************************************************************************)
(* deployAndWait of dokploy_application and dokploy_compose: one service   *)
(* on a Dokploy server, deployed by successive applies of this provider    *)
(* and, now and then, by somebody else (the web UI, a webhook).  An apply  *)
(* reads the id of the newest deployment, posts the deploy and polls the   *)
(* service's status until it is terminal; a "gate" keeps it from believing *)
(* a status left by an earlier deployment.  One poll is two or three GETs, *)
(* and the server moves between any two of them.                           *)
(*                                                                         *)
(* The server is external.  What the provider relies on is how it commits  *)
(* a deployment: the row of its history and the status "running".          *)
(*   CommitPoint = "before_response"  before the POST is answered, as      *)
(*                  measured in the comment of fetchStatus                 *)
(*                 "between_polls"    perhaps later, but never while the   *)
(*                  GETs of one poll are in progress                       *)
(*                 "any_time"         perhaps later, at any time           *)
(***************************************************************************)
EXTENDS Integers, Sequences, FiniteSets

CONSTANTS
  MaxApplies,      \* bound: applies of this provider that deploy
  MaxOutside,      \* bound: deployments started by anybody else
  CommitPoint,     \* when the server commits an accepted deploy
  HistoryMayFail,  \* whether a GET of the deployment history may fail
  Overlap          \* whether deployments of one service may overlap

ASSUME BoundsAssumption ==
  MaxApplies \in Nat /\ MaxOutside \in Nat

ASSUME ServerAssumption ==
  /\ CommitPoint \in {"before_response", "between_polls", "any_time"}
  /\ HistoryMayFail \in BOOLEAN
  /\ Overlap \in BOOLEAN

Applies == 1 .. MaxApplies
Outsider == 0    \* the owner of a deployment no apply of ours asked for
NoId == 0        \* the empty deployment id ""

VARIABLES
  status,     \* the server's status of the service
  rows,       \* its deployment history, oldest first; an id is an index
  request,    \* the deploy POST of each apply, as the network and server see it
  pc,         \* where the provider is in deployAndWait
  apply,      \* the apply in progress, or the last one
  prior,      \* newest deployment id read before the POST
  started,    \* the gate of fetchStatus: open once TRUE
  seen,       \* the status the poll in progress has read
  reads,      \* history GETs made by this wait
  expired,    \* the deadline timer of the waiter has fired
  result,     \* how the last deployAndWait returned
  named       \* the deployment id its diagnostic names

server == <<status, rows, request>>
vars == <<status, rows, request, pc, apply, prior, started, seen, reads,
          expired, result, named>>

ReadsCap == 3    \* bound: reads counts the history GETs up to here
OneMoreRead == IF reads < ReadsCap THEN reads + 1 ELSE reads

Statuses == {"idle", "running", "done", "error"}
Waiting == {"poll", "gate", "newest", "select"}

Newest == Len(rows)
Owned(a) == {d \in 1 .. Len(rows) : rows[d].owner = a}
Quiet == /\ \A a \in Applies : request[a] \notin {"sent", "accepted"}
         /\ \A d \in 1 .. Len(rows) : rows[d].phase # "running"

Init ==
  /\ status = "idle"
  /\ rows = <<>>
  /\ request = [a \in Applies |-> "none"]
  /\ pc = "idle"
  /\ apply = 0
  /\ prior = NoId
  /\ started = FALSE
  /\ seen = "idle"
  /\ reads = 0
  /\ expired = FALSE
  /\ result = "none"
  /\ named = NoId

-----------------------------------------------------------------------------
(* The provider. *)

\* Create or Update reaches deployAndWait.
StartApply ==
  /\ pc \in {"idle", "ended"}
  /\ apply < MaxApplies
  /\ Overlap \/ Quiet
  /\ apply' = apply + 1
  /\ pc' = "prior"
  /\ reads' = 0
  /\ expired' = FALSE
  /\ result' = "none"
  /\ named' = NoId
  /\ UNCHANGED <<server, prior, started, seen>>

\* Mutant: the second newest deployment is read.
NewestOrEmptyOffByOne == {Newest - 1}

\* newestDeploymentID: best effort, a failed GET yields the empty id.
NewestOrEmpty == {Newest} \cup (IF HistoryMayFail THEN {NoId} ELSE {})

ReadPrior ==
  /\ pc = "prior"
  /\ prior' \in NewestOrEmpty
  /\ started' = (prior' = NoId)
  /\ pc' = "send"
  /\ UNCHANGED <<server, apply, seen, reads, expired, result, named>>

SendDeploy ==
  /\ pc = "send"
  /\ request' = [request EXCEPT ![apply] = "sent"]
  /\ pc' = "posted"
  /\ UNCHANGED <<status, rows, apply, prior, started, seen, reads, expired,
                 result, named>>

DeployAnswered ==
  /\ pc = "posted"
  /\ request[apply] \in {"accepted", "committed"}
  /\ pc' = "poll"
  /\ UNCHANGED <<server, apply, prior, started, seen, reads, expired, result,
                 named>>

End(how, id) ==
  /\ pc' = "ended"
  /\ result' = how
  /\ named' = id

\* Mutant: the error of the POST is ignored, and the status polled.
DeployFailsIgnored ==
  /\ pc = "posted"
  /\ pc' = "poll"
  /\ UNCHANGED <<server, apply, prior, started, seen, reads, expired, result,
                 named>>

\* The POST fails for the client, whatever became of it at the server.
DeployFails ==
  /\ pc = "posted"
  /\ End("failed", NoId)
  /\ UNCHANGED <<server, apply, prior, started, seen, reads, expired>>

\* What fetch and Wait do with a status once the gate is open.
Judge(s) ==
  \/ s = "done" /\ End("success", NoId)
  \/ s = "error" /\ pc' = "newest" /\ UNCHANGED <<result, named>>
  \/ s \in {"idle", "running"} /\ pc' = "select" /\ UNCHANGED <<result, named>>

PollStatus ==
  /\ pc = "poll"
  /\ seen' = status
  /\ IF started
       THEN Judge(status)
       ELSE pc' = "gate" /\ UNCHANGED <<result, named>>
  /\ UNCHANGED <<server, apply, prior, started, reads, expired>>

PollFails ==
  /\ pc = "poll"
  /\ End("failed", NoId)
  /\ UNCHANGED <<server, apply, prior, started, seen, reads, expired>>

\* Mutants: no gate at all; a gate that an unchanged id opens.
GateOpensAlways == TRUE
GateOpensOnOldId == Newest >= prior

\* Mutant: the gate is passed without being latched.
PollGateUnlatched ==
  /\ pc = "gate"
  /\ reads' = OneMoreRead
  /\ IF Newest # prior THEN Judge(seen)
                       ELSE pc' = "select" /\ UNCHANGED <<result, named>>
  /\ UNCHANGED <<server, apply, prior, started, seen, expired>>

\* The gate: open on a new id, on an empty history, and on a failed GET.
GateOpens == Newest # prior \/ Newest = NoId

PollGate ==
  /\ pc = "gate"
  /\ reads' = OneMoreRead
  /\ \/ /\ GateOpens \/ HistoryMayFail
        /\ started' = TRUE
        /\ Judge(seen)
     \/ /\ ~GateOpens
        /\ pc' = "select"
        /\ UNCHANGED <<started, result, named>>
  /\ UNCHANGED <<server, apply, prior, seen, expired>>

\* The status was "error": fetch names the newest deployment, if it can.
PollNewest ==
  /\ pc = "newest"
  /\ reads' = OneMoreRead
  /\ \E id \in NewestOrEmpty : End("failed", id)
  /\ UNCHANGED <<server, apply, prior, started, seen, expired>>

\* The three cases of the waiter's select.
Tick ==
  /\ pc = "select"
  /\ pc' = "poll"
  /\ UNCHANGED <<server, apply, prior, started, seen, reads, expired, result,
                 named>>

\* Mutant: the deadline's case breaks out of the select and not of the loop.
DeadlineBreaksSelect ==
  /\ pc = "select"
  /\ expired
  /\ pc' = "poll"
  /\ UNCHANGED <<server, apply, prior, started, seen, reads, expired, result,
                 named>>

Deadline ==
  /\ pc = "select"
  /\ expired
  /\ End("timeout", NoId)
  /\ UNCHANGED <<server, apply, prior, started, seen, reads, expired>>

Cancelled ==
  /\ pc = "select"
  /\ End("cancelled", NoId)
  /\ UNCHANGED <<server, apply, prior, started, seen, reads, expired>>

TimerFires ==
  /\ pc \in Waiting
  /\ ~expired
  /\ expired' = TRUE
  /\ UNCHANGED <<server, pc, apply, prior, started, seen, reads, result, named>>

-----------------------------------------------------------------------------
(* The server (external). *)

\* A deployment begins: a new row, and the service is running it.
Begin(owner) ==
  /\ rows' = Append(rows, [owner |-> owner, phase |-> "running"])
  /\ status' = "running"

ServerAccepts(a) ==
  /\ request[a] = "sent"
  /\ IF CommitPoint = "before_response"
       THEN /\ Begin(a)
            /\ request' = [request EXCEPT ![a] = "committed"]
       ELSE /\ request' = [request EXCEPT ![a] = "accepted"]
            /\ UNCHANGED <<status, rows>>
  /\ UNCHANGED <<pc, apply, prior, started, seen, reads, expired, result, named>>

ServerCommits(a) ==
  /\ request[a] = "accepted"
  /\ CommitPoint = "between_polls" => pc \notin {"gate", "newest"}
  /\ Begin(a)
  /\ request' = [request EXCEPT ![a] = "committed"]
  /\ UNCHANGED <<pc, apply, prior, started, seen, reads, expired, result, named>>

\* The request never reaches the server.
RequestLost(a) ==
  /\ request[a] = "sent"
  /\ request' = [request EXCEPT ![a] = "lost"]
  /\ UNCHANGED <<status, rows, pc, apply, prior, started, seen, reads, expired,
                 result, named>>

\* A build ends; the last one to end decides the status of the service.
BuildEnds(d) ==
  /\ rows[d].phase = "running"
  /\ \E outcome \in {"done", "error"} :
       /\ rows' = [rows EXCEPT ![d].phase = outcome]
       /\ status' = outcome
  /\ UNCHANGED <<request, pc, apply, prior, started, seen, reads, expired,
                 result, named>>

OutsiderDeploys ==
  /\ Overlap \/ (pc \in {"idle", "ended"} /\ Quiet)
  /\ Cardinality(Owned(Outsider)) < MaxOutside
  /\ Begin(Outsider)
  /\ UNCHANGED <<request, pc, apply, prior, started, seen, reads, expired,
                 result, named>>

-----------------------------------------------------------------------------
Provider ==
  \/ StartApply \/ ReadPrior \/ SendDeploy \/ DeployAnswered \/ DeployFails
  \/ PollStatus \/ PollFails \/ PollGate \/ PollNewest
  \/ Tick \/ Deadline \/ Cancelled \/ TimerFires

Server ==
  \/ \E a \in Applies : ServerAccepts(a) \/ ServerCommits(a) \/ RequestLost(a)
  \/ \E d \in 1 .. Len(rows) : BuildEnds(d)
  \/ OutsiderDeploys

Next == Provider \/ Server

Spec == Init /\ [][Next]_vars

\* Every request is answered or fails (the client's own timeouts), the timer
\* fires, and select draws one of its ready cases at random: a deadline that
\* stays ready is drawn in the end.  Nothing is assumed of the server.
Fairness ==
  /\ WF_vars(ReadPrior)
  /\ WF_vars(SendDeploy)
  /\ WF_vars(DeployAnswered \/ DeployFails)
  /\ WF_vars(PollStatus \/ PollFails)
  /\ WF_vars(PollGate)
  /\ WF_vars(PollNewest)
  /\ WF_vars(TimerFires)
  /\ WF_vars(Tick \/ Deadline \/ Cancelled)
  /\ SF_vars(Deadline)

FairSpec == Spec /\ Fairness

-----------------------------------------------------------------------------
(* Properties. *)

RowType == [owner : 0 .. MaxApplies, phase : {"running", "done", "error"}]

\* Every variable has its type, and the apply that is waiting is a real one.
TypeOK ==
  /\ status \in Statuses
  /\ rows \in Seq(RowType)
  /\ request \in [Applies -> {"none", "sent", "accepted", "committed", "lost"}]
  /\ pc \in {"idle", "prior", "send", "posted", "ended"} \cup Waiting
  /\ apply \in 0 .. MaxApplies
  /\ pc # "idle" => apply \in Applies
  /\ prior \in Nat
  /\ started \in BOOLEAN
  /\ seen \in Statuses
  /\ reads \in 0 .. ReadsCap
  /\ expired \in BOOLEAN
  /\ result \in {"none", "success", "failed", "timeout", "cancelled"}
  /\ named \in Nat

\* deployAndWait returns nil only when the deployment it posted has run to
\* "done": the success is never read off an earlier deployment's status
\* (fetchStatus, "makes the check causal instead of timing-dependent").
SuccessIsCausal ==
  result = "success" => \E d \in Owned(apply) : rows[d].phase = "done"

\* A failed deployment is reported only for a failure of the deployment this
\* apply posted, and the id in the diagnostic is that deployment's id.
ErrorIsCausal ==
  /\ pc = "newest" => \E d \in Owned(apply) : rows[d].phase = "error"
  /\ named # NoId => named \in Owned(apply) /\ rows[named].phase = "error"

\* "The id can only change because this deploy created a record": a gate that
\* was shut and has opened implies that the server has our deployment.
GateIsCausal ==
  (pc \in Waiting /\ prior # NoId /\ started) => Owned(apply) # {}

\* "Deployment history is read at most twice per wait": once for the gate,
\* once for the diagnostic.
HistoryReadAtMostTwice == reads <= 2

\* deployAndWait implements Deployment: what its caller asked for is begun once
\* at most, and what its caller is told is true of that deployment and of no
\* other, however many requests are late and histories old.
Outcome(a) ==
  IF Owned(a) = {} THEN "none" ELSE rows[CHOOSE d \in Owned(a) : TRUE].phase

Verdict ==
  CASE result = "success" -> "success"
    [] named # NoId       -> "failure"
    [] result = "none"    -> "none"
    [] OTHER              -> "unknown"

Abstract == INSTANCE Deployment WITH
  Callers <- Applies,
  Nobody  <- 0,
  asked   <- 1 .. apply,
  current <- apply,
  outcome <- [a \in Applies |-> Outcome(a)],
  verdict <- Verdict
ImplementsDeployment == Abstract!Spec

\* Every deployAndWait returns, whatever the server does: no status, lost row
\* or unreadable history keeps the apply past its deployment_timeout.
WaitEnds == (pc = "prior") ~> (pc = "ended")
=============================================================================
