--------------------------- MODULE DeployWaitInv ----------------------------
(***************************************************************************)
(* The inductive invariants behind SuccessIsCausal, ErrorIsCausal and      *)
(* HistoryReadAtMostTwice, for a server that commits a deployment before   *)
(* it answers the POST and runs one deployment of a service at a time, and *)
(* behind GateIsCausal and the refinement of Deployment.                   *)
(***************************************************************************)
EXTENDS DeployWait

\* The row of the newest deployment.
Last == rows[Len(rows)]

\* No request is ever accepted without being committed, only the last apply
\* can have one in flight, and it posts at most once.
RequestInv ==
  /\ \A a \in Applies : request[a] # "accepted"
  /\ \A a \in Applies : a # apply => request[a] # "sent"
  /\ \A a \in Applies : a > apply => request[a] = "none"
  /\ pc \in {"prior", "send"} => request[apply] = "none"
  /\ pc = "posted" => request[apply] # "none"

\* Nothing else runs once our apply is on its way to the server.
QuietInv ==
  (pc \in {"prior", "send"} \/ (pc # "idle" /\ request[apply] = "sent"))
    => \A d \in 1 .. Len(rows) : rows[d].phase # "running"

\* While we wait, the newest row is ours and the status is about it.
OursInv ==
  (pc \in {"posted"} \cup Waiting /\ request[apply] = "committed")
    => /\ Len(rows) > 0
       /\ Last.owner = apply
       /\ Last.phase = status
       /\ prior < Len(rows)
       /\ \A d \in 1 .. Len(rows) - 1 : rows[d].phase # "running"

\* A status already read stays true of our deployment once it is terminal.
SeenInv ==
  /\ pc \in Waiting => request[apply] = "committed"
  /\ pc = "gate" /\ seen \in {"done", "error"} => Last.phase = seen
  /\ pc = "newest" => Last.phase = "error"
  /\ pc \in {"send", "posted"} => prior <= Len(rows)

\* The gate is read once, the newest id at most once after it.
ReadsInv ==
  /\ pc \in {"prior", "send", "posted", "gate"} => reads = 0
  /\ pc \in {"poll", "select", "newest"} => reads <= (IF started THEN 1 ELSE 0)
  /\ pc = "gate" => ~started
  /\ reads <= 2

MeasuredInv ==
  /\ TypeOK
  /\ RequestInv
  /\ QuietInv
  /\ OursInv
  /\ SeenInv
  /\ ReadsInv
  /\ SuccessIsCausal
  /\ ErrorIsCausal

-----------------------------------------------------------------------------
(* The inductive invariant behind GateIsCausal, for a server that runs one *)
(* deployment of a service at a time but commits it when it likes.         *)

\* As long as our deployment is not in the history, the newest one is the one
\* read before the POST, and the gate stays shut.
GateInv ==
  /\ TypeOK
  /\ \A a \in Applies : a # apply => request[a] \notin {"sent", "accepted"}
  /\ (pc \in {"send", "posted"} \cup Waiting /\ prior # NoId /\ Owned(apply) = {})
       => Len(rows) = prior /\ ~started

-----------------------------------------------------------------------------
(* The same for a server that commits when it likes, but not while a poll  *)
(* is in progress, and whose history can be read: the gate sees to it.     *)

\* Only the last apply can have a request in flight, and a wait follows an
\* answered one.
FlightInv ==
  /\ \A a \in Applies : a # apply => request[a] \notin {"sent", "accepted"}
  /\ \A a \in Applies : a > apply => request[a] = "none"
  /\ pc \in {"prior", "send"} => request[apply] = "none"
  /\ pc \in Waiting => request[apply] \in {"accepted", "committed"}

\* Until our deployment is committed nothing runs, the history is as it was
\* read, and the gate is shut unless there is no history at all.
Pending == pc \notin {"idle", "ended"} /\ request[apply] # "committed"
InFlight == pc # "idle" /\ request[apply] \in {"sent", "accepted"}

ShutInv ==
  /\ Pending \/ InFlight => \A d \in 1 .. Len(rows) : rows[d].phase # "running"
  /\ (Pending /\ pc # "prior") => Len(rows) = prior /\ (started <=> prior = NoId)
  /\ rows = <<>> => status = "idle"
  /\ pc = "gate" => ~started

\* Once it is committed, a poll that has read a terminal status has read ours.
PolledInv ==
  /\ (pc = "gate" /\ request[apply] = "committed" /\ seen \in {"done", "error"})
       => Last.phase = seen
  /\ pc = "newest" => request[apply] = "committed" /\ Last.phase = "error"

GatedInv ==
  /\ TypeOK
  /\ FlightInv
  /\ ShutInv
  /\ OursInv
  /\ PolledInv
  /\ SuccessIsCausal
  /\ ErrorIsCausal

\* The servers the causality of the gate is proved for.
CausalServer ==
  /\ Overlap = FALSE
  /\ \/ CommitPoint = "before_response"
     \/ CommitPoint = "between_polls" /\ HistoryMayFail = FALSE

-----------------------------------------------------------------------------
(* What the refinement of Deployment needs besides, of any server.         *)

\* A deployment has one row at most, from the moment its request is committed.
RowsInv ==
  /\ \A a \in Applies : request[a] # "committed" => Owned(a) = {}
  /\ \A a \in Applies : a > apply => request[a] = "none"
  /\ pc \in {"prior", "send"} => request[apply] = "none"
  /\ \A d, e \in 1 .. Len(rows) :
       (rows[d].owner = rows[e].owner /\ rows[d].owner # Outsider) => d = e

\* There is a result, and perhaps a name in it, when a wait has ended.
ResultInv ==
  /\ pc = "idle" => apply = 0
  /\ result = "none" <=> pc # "ended"
  /\ named # NoId => result = "failed"

BookInv == TypeOK /\ RowsInv /\ ResultInv
=============================================================================
