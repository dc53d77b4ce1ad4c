----------------------------- MODULE Deployment -----------------------------
(***************************************************************************)
(* What deployAndWait promises to the Create or Update that calls it: the  *)
(* deployment asked for is begun once at most, success is reported only    *)
(* when that deployment is done, and its failure is named only when it has *)
(* failed.  Any other end leaves open what became of it: it may begin, or  *)
(* go on, after the caller has given up.                                   *)
(***************************************************************************)
CONSTANTS Callers, Nobody

VARIABLES
  asked,    \* the callers so far
  current,  \* the last of them
  outcome,  \* outcome[c]: what has become of the deployment of caller c
  verdict   \* what the last caller has been told

vars == <<asked, current, outcome, verdict>>

Init ==
  /\ asked = {}
  /\ current = Nobody
  /\ outcome = [c \in Callers |-> "none"]
  /\ verdict = "none"

\* One caller after the other, each once.
Ask(c) ==
  /\ asked # {} => verdict # "none"
  /\ c \notin asked
  /\ asked' = asked \cup {c}
  /\ current' = c
  /\ verdict' = "none"
  /\ UNCHANGED outcome

Begin(c) ==
  /\ c \in asked
  /\ outcome[c] = "none"
  /\ outcome' = [outcome EXCEPT ![c] = "running"]
  /\ UNCHANGED <<asked, current, verdict>>

End(c, how) ==
  /\ outcome[c] = "running"
  /\ outcome' = [outcome EXCEPT ![c] = how]
  /\ UNCHANGED <<asked, current, verdict>>

Tell(what) ==
  /\ asked # {}
  /\ verdict = "none"
  /\ what = "success" => outcome[current] = "done"
  /\ what = "failure" => outcome[current] = "error"
  /\ verdict' = what
  /\ UNCHANGED <<asked, current, outcome>>

Next ==
  \/ \E c \in Callers : Ask(c) \/ Begin(c) \/ End(c, "done") \/ End(c, "error")
  \/ \E what \in {"success", "failure", "unknown"} : Tell(what)

Spec == Init /\ [][Next]_vars
=============================================================================
