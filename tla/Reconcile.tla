------------------------------ MODULE Reconcile -------------------------------
(***************************************************************************)
(* What `terraform apply` over a resource promises the operator: a run     *)
(* writes nothing but what is wanted, begins deployments only of a record  *)
(* that has all of it, and reports success only when the record has it.    *)
(* Any other end leaves the record somewhere on the way.  Where somebody   *)
(* else changes the record during a run, the first is all that is promised *)
(* of that run.                                                            *)
(***************************************************************************)
EXTENDS Integers

CONSTANTS
  NoRecord,  \* there is no record, or nothing has been deployed
  Unseen     \* what a hidden field may hold instead

VARIABLES
  wanted,    \* the values wanted of some fields; which of the fields no read
             \* returns (hidden), which an update sends again as last read (resent)
  record,    \* the fields of the record that the provider keeps
  deployed,  \* what its last deployment was begun of
  verdict,   \* how the last run has ended; "none" if something else is wanted now
  disturbed, \* somebody else has changed the record since the run looked at it
  others     \* how often anybody else has changed it

vars == <<wanted, record, deployed, verdict, disturbed, others>>

Init ==
  /\ record = NoRecord
  /\ deployed = NoRecord
  /\ verdict = "none"
  /\ disturbed = FALSE
  /\ others = 0

\* The record has all that is wanted of it.
Meets ==
  /\ record # NoRecord
  /\ \A k \in DOMAIN wanted.value :
       \/ record[k] = wanted.value[k]
       \/ k \in wanted.hidden /\ record[k] \in Unseen

\* The operator wants something else, whatever it is.
Ask ==
  /\ verdict # "running"
  /\ verdict' = "none"
  /\ UNCHANGED <<record, deployed, disturbed, others>>

Begin ==
  /\ verdict # "running"
  /\ verdict' = "running"
  /\ disturbed' = FALSE
  /\ UNCHANGED <<wanted, record, deployed, others>>

\* A call changes fields to what is wanted of them, also when it then fails.
Write ==
  /\ verdict = "running"
  /\ verdict' \in {"running", "error"}
  /\ record # NoRecord /\ record' # NoRecord
  /\ DOMAIN record' = DOMAIN record
  /\ \A k \in DOMAIN record :
       \/ record'[k] = record[k]
       \/ k \in DOMAIN wanted.value /\ record'[k] = wanted.value[k]
       \/ k \in wanted.resent /\ disturbed
  /\ UNCHANGED <<wanted, deployed, disturbed, others>>

\* A new record, as the server makes it.
Create ==
  /\ verdict = "running"
  /\ record = NoRecord /\ record' # NoRecord
  /\ deployed' = NoRecord
  /\ UNCHANGED <<wanted, verdict, disturbed, others>>

\* The record is deleted, or lost sight of.
Remove ==
  /\ verdict = "running"
  /\ verdict' \in {"running", "error"}
  /\ record' = NoRecord
  /\ deployed' = NoRecord
  /\ UNCHANGED <<wanted, disturbed, others>>

\* The last thing a run does, if it does it.
Deploy ==
  /\ verdict = "running"
  /\ verdict' \in {"ok", "error"}
  /\ disturbed \/ Meets
  /\ deployed' = record
  /\ UNCHANGED <<wanted, record, disturbed, others>>

Succeed ==
  /\ verdict = "running"
  /\ verdict' = "ok"
  /\ disturbed \/ Meets
  /\ UNCHANGED <<wanted, record, deployed, disturbed, others>>

Fail ==
  /\ verdict' = "error"
  /\ UNCHANGED <<wanted, record, deployed, disturbed, others>>

\* Somebody else changes the record or deletes it.
Disturb ==
  /\ others' = others + 1
  /\ disturbed' = TRUE
  /\ UNCHANGED <<wanted, verdict>>

Next ==
  \/ Ask \/ Begin \/ Write \/ Create \/ Remove \/ Deploy \/ Succeed \/ Fail
  \/ Disturb

Spec == Init /\ [][Next]_vars
=============================================================================
