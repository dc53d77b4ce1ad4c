----------------------------- MODULE CreateBind -----------------------------
(***************************************************************************)
(* What creating a record whose POST does not return its id promises: the  *)
(* call ends by binding the one record it made itself, or it fails.  How   *)
(* the id is found, and what else happens at the server, is left open.     *)
(***************************************************************************)
CONSTANTS Callers, NoRecord

VARIABLES
  made,    \* made[c]: the records the POST of caller c has made
  bound,   \* bound[c]: the record c has put in its state
  failed   \* callers whose create has failed

vars == <<made, bound, failed>>

Init ==
  /\ made = [c \in Callers |-> {}]
  /\ bound = [c \in Callers |-> NoRecord]
  /\ failed = {}

\* One POST makes one record, which is nobody else's.  It may outlive a
\* caller that has failed.
Make(c) ==
  /\ made[c] = {}
  /\ \E r \in made'[c] : /\ \A d \in Callers : r \notin made[d]
                         /\ made' = [made EXCEPT ![c] = {r}]
  /\ UNCHANGED <<bound, failed>>

Bind(c) ==
  /\ bound[c] = NoRecord
  /\ c \notin failed
  /\ \E r \in made[c] : bound' = [bound EXCEPT ![c] = r]
  /\ UNCHANGED <<made, failed>>

Fail(c) ==
  /\ bound[c] = NoRecord
  /\ failed' = failed \cup {c}
  /\ UNCHANGED <<made, bound>>

Next == \E c \in Callers : Make(c) \/ Bind(c) \/ Fail(c)

Spec == Init /\ [][Next]_vars
=============================================================================
