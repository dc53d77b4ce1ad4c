--------------------------- MODULE HttpClientInv ----------------------------
(* Inductive invariants of HttpClient.                                     *)
EXTENDS HttpClient

\* A call has begun the attempts it is allowed and no more; only a GET waits
\* for another; and a create is called exactly when there is no record.
PhaseInv ==
  /\ phase # "idle" => /\ errors < calls /\ fooled < calls
                       /\ op = "create" <=> tracked = NoId
  /\ phase = "ready" => attempts < AttemptsOf(op)
  /\ phase = "backoff" => attempts > 0 /\ attempts < AttemptsOf(op)
  /\ phase = "sent" => attempts > 0 /\ attempts <= AttemptsOf(op)

\* The requests of the call in progress ask what the call asks.
WireInv ==
  /\ IsFiniteSet(wire)
  /\ \A req \in wire :
       (phase # "idle" /\ req.call = calls) => req.op = op /\ req.id = tracked

\* What an answer of the server says is true of the record, and stays true; a
\* 2xx of somebody else is never about no id at all.
ReplyInv ==
  phase = "sent" =>
    /\ reply.kind = "gone" => op # "create" /\ tracked \notin records
    /\ reply.kind = "good" => /\ op = "get" => reply.id = tracked
                              /\ op = "create" => reply.id # NoId
                              /\ op = "delete" => tracked \notin records
    /\ reply.kind = "foreign" => reply.id # NoId

CallInv ==
  /\ TypeOK
  /\ PhaseInv
  /\ WireInv
  /\ ReplyInv
  /\ ContentIsOwn

\* The records outside the state, and the creates that may yet make one.
Creates(W) == {req \in W : req.op = "create"}
StraysOf(R, id, W) == Cardinality(R \ {id}) + Cardinality(Creates(W))

\* Each is one of a call that has reported an error or taken another's 2xx for
\* the server's, but for the one of the call in progress; and when the server
\* has answered that one, its record is not a stray.
Unreported == IF phase = "sent" /\ op = "create" THEN 1 ELSE 0
OrphanInv ==
  /\ StraysOf(records, tracked, wire) <= errors + fooled + Unreported
  /\ (phase = "sent" /\ op = "create" /\ reply.kind = "good")
       => StraysOf(records, reply.id, wire) <= errors + fooled

-----------------------------------------------------------------------------
(* What is retried.                                                        *)

\* The requests of the call in progress are those of the attempts it has begun.
AttemptInv ==
  phase # "idle" => \A req \in wire : req.call = calls => req.attempt <= attempts

\* A create or delete is sent once, at its call's first attempt; a GET is sent
\* again only with a new attempt, and never more often than New allows.
NeverRetried ==
  [][\A req \in wire' \ wire :
       /\ req.op # "get" => attempts = 0 /\ attempts' = 1
       /\ attempts' <= AttemptsOf(req.op)
       /\ \A old \in wire : old.call = req.call =>
            old.op = "get" /\ old.attempt < req.attempt]_vars
=============================================================================
