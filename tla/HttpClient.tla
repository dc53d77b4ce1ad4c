----------------------------- MODULE HttpClient -----------------------------
(***************************************************************************)
(* client.do and client.attempt under one resource of Terraform: the       *)
(* refresh, create and delete of a record, over a network that loses,      *)
(* delays and cuts off requests and answers, and behind intermediaries     *)
(* that answer for the server.  A GET is retried after a network error or  *)
(* a 5xx; a POST never is.  A 404 takes the record out of the state only   *)
(* if confirmedNotFound recognises it as the server's own; a 2xx is        *)
(* checked for the identity of its record only when it answers a GET.      *)
(***************************************************************************)
EXTENDS Integers, FiniteSets

CONSTANTS
  RetryAttempts,   \* attempts of a GET (retryAttempts, 3 in New)
  MaxCalls,        \* bound: calls made by Terraform
  MaxRecords       \* bound: ids the server can hand out

ASSUME BoundsAssumption ==
  /\ RetryAttempts \in Nat \ {0}
  /\ MaxCalls \in Nat
  /\ MaxRecords \in Nat \ {0}

NoId == 0       \* no record in the state
EmptyId == -1   \* the id that a create decodes from an answer without one
Ops == {"get", "create", "delete"}

VARIABLES
  records,   \* ids of the records at the server
  issued,    \* ids handed out so far
  wire,      \* requests on their way, one per attempt
  calls,     \* calls made so far
  errors,    \* creates that have reported an error
  fooled,    \* POSTs that succeeded on a 2xx that was not the server's
  op,        \* the call in progress
  attempts,  \* attempts it has begun
  phase,     \* "idle", "ready", "sent" or "backoff"
  reply,     \* what the attempt in progress has been answered
  tracked,   \* the id in the Terraform state
  content    \* the id of the record the state's attributes were read from

server == <<records, issued>>
vars == <<records, issued, wire, calls, errors, fooled, op, attempts, phase,
          reply, tracked, content>>

\* What an attempt can be answered.  "gone" is a structured NOT_FOUND for the
\* very lookup or deletion asked; "hidden" any other 404; "foreign" a 2xx that is
\* not the server's but reads as one (a deletion's may be empty), about the
\* record id or none; "garbled" a 2xx that does not decode; "refused"
\* any other 4xx; "unavailable" a 5xx; "broken" a network error or a deadline.
NoReply == [kind |-> "none", id |-> NoId]
Reply(kind) == [kind |-> kind, id |-> NoId]
Good(id) == [kind |-> "good", id |-> id]
Foreign(id) == [kind |-> "foreign", id |-> id]
Retryable == {"unavailable", "broken"}
NotServers == {"hidden", "foreign", "garbled", "refused", "unavailable", "broken"}

Request == [call |-> calls, attempt |-> attempts + 1, op |-> op, id |-> tracked]

Init ==
  /\ records = {}
  /\ issued = 0
  /\ wire = {}
  /\ calls = 0
  /\ errors = 0
  /\ fooled = 0
  /\ op = "get"
  /\ attempts = 0
  /\ phase = "idle"
  /\ reply = NoReply
  /\ tracked = NoId
  /\ content = NoId

-----------------------------------------------------------------------------
(* Terraform calls; do loops over attempts. *)

Call(o) ==
  /\ phase = "idle"
  /\ calls < MaxCalls
  /\ (o = "create") <=> (tracked = NoId)
  /\ calls' = calls + 1
  /\ op' = o
  /\ attempts' = 0
  /\ phase' = "ready"
  /\ reply' = NoReply
  /\ UNCHANGED <<server, wire, errors, fooled, tracked, content>>

\* Mutants: one attempt too many; a POST is retried as well.
AttemptsOfOneMore(o) == IF o = "get" THEN RetryAttempts + 1 ELSE 1
AttemptsOfAny(o) == RetryAttempts

AttemptsOf(o) == IF o = "get" THEN RetryAttempts ELSE 1

\* Mutant: attempts are not counted.
SendUncounted ==
  /\ phase = "ready"
  /\ phase' = "sent"
  /\ reply' = NoReply
  /\ wire' = wire \cup {Request}
  /\ UNCHANGED <<server, calls, errors, fooled, op, attempts, tracked, content>>

Send ==
  /\ phase = "ready"
  /\ attempts' = attempts + 1
  /\ phase' = "sent"
  /\ reply' = NoReply
  /\ wire' = wire \cup {Request}
  /\ UNCHANGED <<server, calls, errors, fooled, op, tracked, content>>

Backoff ==
  /\ phase = "backoff"
  /\ phase' = "ready"
  /\ UNCHANGED <<server, wire, calls, errors, fooled, op, attempts, reply,
                 tracked, content>>

\* The call ends, with the state its resource keeps: Read drops a record that
\* is confirmed gone, Delete also counts that as success, Create stores the id.
Finish(id, of) ==
  /\ phase' = "idle"
  /\ tracked' = id
  /\ content' = of
  /\ UNCHANGED <<server, wire, calls, op, attempts, reply>>

\* Mutant: the identity of the record in the answer is not checked.
AcceptedUnchecked == reply.kind \in {"good", "foreign"}

\* A 2xx that is well-formed is a success, except that a GET must be about the
\* record asked for.
Accepted ==
  \/ reply.kind = "good"
  \/ /\ reply.kind = "foreign"
     /\ op = "get" => reply.id = tracked /\ tracked # EmptyId

\* Mutant: any 404 counts as the server's.
ConfirmedByStatus == reply.kind \in {"gone", "hidden"}

\* A request with an empty id is about no record, so nothing confirms it gone.
Confirmed == reply.kind = "gone" /\ tracked # EmptyId

Succeeds ==
  /\ phase = "sent"
  /\ Accepted
  /\ \/ op = "get" /\ Finish(tracked, reply.id)
     \/ op = "create" /\ Finish(reply.id, reply.id)
     \/ op = "delete" /\ Finish(NoId, NoId)
  /\ fooled' = fooled + (IF op # "get" /\ reply.kind = "foreign" THEN 1 ELSE 0)
  /\ UNCHANGED errors

ConfirmedNotFound ==
  /\ phase = "sent"
  /\ Confirmed
  /\ Finish(NoId, NoId)
  /\ UNCHANGED <<errors, fooled>>

Fails ==
  /\ phase = "sent"
  /\ reply # NoReply /\ ~Accepted /\ ~Confirmed
  /\ reply.kind \in Retryable => attempts >= AttemptsOf(op)
  /\ Finish(tracked, content)
  /\ errors' = errors + (IF op = "create" THEN 1 ELSE 0)
  /\ UNCHANGED fooled

Retries ==
  /\ phase = "sent"
  /\ reply.kind \in Retryable
  /\ attempts < AttemptsOf(op)
  /\ phase' = "backoff"
  /\ UNCHANGED <<server, wire, calls, errors, fooled, op, attempts, reply,
                 tracked, content>>

\* The context ends while do waits between two attempts.
Cancelled ==
  /\ phase = "backoff"
  /\ Finish(tracked, content)
  /\ UNCHANGED <<errors, fooled>>

-----------------------------------------------------------------------------
(* The server, the network and what stands between (external). *)

Answered(r, req) ==
  reply' = IF /\ phase = "sent"
              /\ reply = NoReply
              /\ req.call = calls
              /\ req.attempt = attempts
             THEN r ELSE reply

\* The server takes a request, perhaps long after its client has given up.
Serve(req) ==
  /\ wire' = wire \ {req}
  /\ \/ /\ req.op = "get"
        /\ Answered(IF req.id \in records THEN Good(req.id) ELSE Reply("gone"), req)
        /\ UNCHANGED server
     \/ /\ req.op = "create"
        /\ issued < MaxRecords
        /\ issued' = issued + 1
        /\ records' = records \cup {issued + 1}
        /\ Answered(Good(issued + 1), req)
     \/ /\ req.op = "delete"
        /\ records' = records \ {req.id}
        /\ Answered(IF req.id \in records THEN Good(req.id) ELSE Reply("gone"), req)
        /\ UNCHANGED issued
  /\ UNCHANGED <<calls, errors, fooled, op, attempts, phase, tracked, content>>

\* An answer that is not the server's, whether or not it had the request; or
\* its answer cut off.  Another's 2xx may name a record, or none.
Disturb ==
  /\ phase = "sent"
  /\ reply.kind \notin NotServers
  /\ \/ \E kind \in NotServers \ {"foreign"} : reply' = Reply(kind)
     \/ \E id \in {EmptyId} \cup 1 .. issued : reply' = Foreign(id)
  /\ UNCHANGED <<server, wire, calls, errors, fooled, op, attempts, phase,
                 tracked, content>>

RequestLost(req) ==
  /\ wire' = wire \ {req}
  /\ UNCHANGED <<server, calls, errors, fooled, op, attempts, phase, reply,
                 tracked, content>>

OutsideDelete(id) ==
  /\ records' = records \ {id}
  /\ UNCHANGED <<issued, wire, calls, errors, fooled, op, attempts, phase,
                 reply,
                 tracked, content>>

-----------------------------------------------------------------------------
Next ==
  \/ \E o \in Ops : Call(o)
  \/ Send \/ Backoff \/ Succeeds \/ ConfirmedNotFound \/ Fails \/ Retries
  \/ Cancelled \/ Disturb
  \/ \E req \in wire : Serve(req) \/ RequestLost(req)
  \/ \E id \in records : OutsideDelete(id)

Spec == Init /\ [][Next]_vars

\* Every attempt has a deadline, so it is answered, if only by a timeout.
Fairness ==
  /\ WF_vars(Send)
  /\ WF_vars(Backoff \/ Cancelled)
  /\ WF_vars(Succeeds \/ ConfirmedNotFound \/ Fails \/ Retries)
  /\ WF_vars(Disturb)

FairSpec == Spec /\ Fairness

-----------------------------------------------------------------------------
(* Properties. *)

Kinds == {"none", "good", "gone"} \cup NotServers

\* Every variable has its type, and only ids that were issued are tracked.
TypeOK ==
  /\ issued \in 0 .. MaxRecords
  /\ records \subseteq 1 .. issued
  /\ wire \subseteq [call : 1 .. calls, attempt : 1 .. RetryAttempts,
                      op : Ops, id : EmptyId .. issued]
  /\ calls \in 0 .. MaxCalls
  /\ errors \in 0 .. calls
  /\ fooled \in 0 .. calls
  /\ op \in Ops
  /\ attempts \in 0 .. RetryAttempts
  /\ phase \in {"idle", "ready", "sent", "backoff"}
  /\ reply \in [kind : Kinds, id : EmptyId .. issued]
  /\ tracked \in EmptyId .. issued
  /\ content \in EmptyId .. issued

\* Terraform forgets a record only when the server has it no more: no proxy
\* error, missing route or lost answer erases state (confirmedNotFound).  The
\* one exception is a deletion that somebody else has answered with a 2xx,
\* which the client takes for the server's (attempt, out == nil).
ForgottenOnlyWhenGone ==
  [][tracked # NoId /\ tracked' = NoId
       => tracked \notin records \/ (op = "delete" /\ reply.kind = "foreign")]_vars

\* A record that exists outside the state was left there by a call of its own:
\* a create that reported an error, or a POST that somebody else answered with
\* a 2xx.  However late the requests arrive and whatever is lost, no call makes
\* two records, and no answer of the server drops one ("Never retried").
OrphansAreReported ==
  phase = "idle" => Cardinality(records \ {tracked}) <= errors + fooled

\* The attributes in the state are those of the record the state names
\* (validateResponse, "resource identity mismatch").
ContentIsOwn == content = tracked

\* Every call returns, after at most its attempts.
CallReturns == (phase # "idle") ~> (phase = "idle")
=============================================================================
