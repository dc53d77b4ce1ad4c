-------------------------- MODULE HttpClientProofs --------------------------
(* What HttpClient guarantees, proved for any number of attempts, calls    *)
(* and records.                                                            *)
EXTENDS HttpClientInv, FiniteSetTheorems, TLAPS

RequestType(c, i) ==
  [call : 1 .. c, attempt : 1 .. RetryAttempts, op : Ops, id : EmptyId .. i]
ReplyType(i) == [kind : Kinds, id : EmptyId .. i]

\* Requests keep their type as calls are made and ids handed out.
LEMMA RequestTypeGrows ==
  ASSUME NEW c \in Nat, NEW d \in Nat, NEW i \in Nat, NEW j \in Nat,
         c <= d, i <= j
  PROVE  RequestType(c, i) \subseteq RequestType(d, j)
BY DEF RequestType, EmptyId

\* So do answers.
LEMMA ReplyTypeGrows ==
  ASSUME NEW i \in Nat, NEW j \in Nat, i <= j
  PROVE  ReplyType(i) \subseteq ReplyType(j)
BY DEF ReplyType, EmptyId

\* The answers the model gives have the type of answers.
LEMMA ReplyTypes ==
  ASSUME NEW i \in Nat
  PROVE  /\ NoReply \in ReplyType(i)
         /\ \A kind \in Kinds : Reply(kind) \in ReplyType(i)
         /\ \A id \in EmptyId .. i :
              Good(id) \in ReplyType(i) /\ Foreign(id) \in ReplyType(i)
         /\ \A id : Good(id).kind = "good" /\ Good(id).id = id
         /\ \A id : Foreign(id).kind = "foreign" /\ Foreign(id).id = id
         /\ \A kind : Reply(kind).kind = kind
         /\ NoReply.kind = "none"
BY DEF ReplyType, NoReply, Reply, Good, Foreign, Kinds, NotServers, NoId, EmptyId

\* What TypeOK says of the numbers.
LEMMA Numbers ==
  ASSUME TypeOK
  PROVE  /\ issued \in Nat /\ calls \in Nat /\ errors \in Nat /\ fooled \in Nat
         /\ attempts \in Nat /\ MaxRecords \in Nat /\ MaxCalls \in Nat
         /\ RetryAttempts \in Nat \ {0}
BY BoundsAssumption DEF TypeOK, BoundsAssumption

\* The call in progress begins one more attempt: its request is on the wire.
LEMMA RequestOnWire ==
  ASSUME TypeOK, PhaseInv, phase = "ready"
  PROVE  /\ Request \in RequestType(calls, issued)
         /\ Request.call = calls /\ Request.op = op /\ Request.id = tracked
         /\ attempts + 1 \in 1 .. RetryAttempts
         /\ attempts + 1 <= AttemptsOf(op)
<1>1. attempts + 1 \in 1 .. RetryAttempts /\ attempts + 1 <= AttemptsOf(op)
  BY Numbers DEF PhaseInv, AttemptsOf
<1>2. calls \in 1 .. calls
  BY Numbers DEF PhaseInv
<1> QED
  BY <1>1, <1>2 DEF Request, RequestType, TypeOK

\* The end of a call is typed when the ids it leaves in the state are.
LEMMA FinishType ==
  ASSUME TypeOK, NEW id \in EmptyId .. issued, NEW of \in EmptyId .. issued,
         Finish(id, of), errors' \in 0 .. calls, fooled' \in 0 .. calls
  PROVE  TypeOK'
BY DEF TypeOK, Finish, server

\* The variables start with their types.
LEMMA TypeInit == Init => TypeOK
<1> SUFFICES ASSUME Init PROVE TypeOK
  OBVIOUS
<1>1. reply \in ReplyType(0)
  BY ReplyTypes DEF Init
<1> QED
  BY <1>1, BoundsAssumption
     DEF Init, TypeOK, NoId, EmptyId, Ops, BoundsAssumption, ReplyType

\* Every step preserves the types.
LEMMA TypeStep ==
  ASSUME TypeOK, PhaseInv, WireInv, [Next]_vars
  PROVE  TypeOK'
<1>a. /\ wire \subseteq RequestType(calls, issued)
      /\ reply \in ReplyType(issued)
  BY DEF TypeOK, RequestType, ReplyType
<1> USE DEF server
<1>1. ASSUME NEW o \in Ops, Call(o) PROVE TypeOK'
  <2>1. /\ calls + 1 \in 0 .. MaxCalls
        /\ errors \in 0 .. calls + 1 /\ fooled \in 0 .. calls + 1
    BY <1>1, Numbers DEF Call, TypeOK
  <2>2. wire \subseteq RequestType(calls + 1, issued)
    BY <1>a, Numbers, RequestTypeGrows
  <2>3. NoReply \in ReplyType(issued)
    BY Numbers, ReplyTypes
  <2> QED
    BY <1>1, <2>1, <2>2, <2>3, Numbers DEF Call, TypeOK, RequestType, ReplyType
<1>2. CASE Send
  <2>1. /\ wire' \subseteq RequestType(calls, issued)
        /\ attempts' \in 0 .. RetryAttempts
    BY <1>a, <1>2, RequestOnWire, Numbers DEF Send
  <2>2. NoReply \in ReplyType(issued)
    BY Numbers, ReplyTypes
  <2> QED
    BY <1>2, <2>1, <2>2 DEF Send, TypeOK, RequestType, ReplyType
<1>3. CASE Backoff \/ Retries
  BY <1>3 DEF Backoff, Retries, TypeOK
<1>4. CASE Succeeds
  <2>1. /\ NoId \in EmptyId .. issued
        /\ reply.id \in EmptyId .. issued /\ tracked \in EmptyId .. issued
        /\ errors' \in 0 .. calls /\ fooled' \in 0 .. calls
    BY <1>4, Numbers DEF Succeeds, TypeOK, PhaseInv, NoId, EmptyId
  <2> QED
    BY <1>4, <2>1, FinishType DEF Succeeds
<1>5. CASE ConfirmedNotFound
  <2>1. NoId \in EmptyId .. issued /\ errors' \in 0 .. calls /\ fooled' \in 0 .. calls
    BY <1>5, Numbers DEF ConfirmedNotFound, TypeOK, NoId, EmptyId
  <2> QED
    BY <1>5, <2>1, FinishType DEF ConfirmedNotFound
<1>6. CASE Fails
  <2>1. /\ errors' \in 0 .. calls /\ fooled' \in 0 .. calls
        /\ tracked \in EmptyId .. issued /\ content \in EmptyId .. issued
    BY <1>6, Numbers DEF Fails, TypeOK, PhaseInv
  <2> QED
    BY <1>6, <2>1, FinishType DEF Fails
<1>7. CASE Cancelled
  <2>1. /\ errors' \in 0 .. calls /\ fooled' \in 0 .. calls
        /\ tracked \in EmptyId .. issued /\ content \in EmptyId .. issued
    BY <1>7 DEF Cancelled, TypeOK
  <2> QED
    BY <1>7, <2>1, FinishType DEF Cancelled
<1>8. CASE Disturb
  <2>1. ASSUME NEW kind \in NotServers, reply' = Reply(kind)
        PROVE  reply' \in ReplyType(issued)
    BY <2>1, Numbers, ReplyTypes DEF Kinds
  <2>2. ASSUME NEW id \in {EmptyId} \cup 1 .. issued, reply' = Foreign(id)
        PROVE  reply' \in ReplyType(issued)
    <3>1. id \in EmptyId .. issued
      BY Numbers DEF EmptyId
    <3> QED
      BY <2>2, <3>1, Numbers, ReplyTypes
  <2>3. reply' \in ReplyType(issued)
    BY <1>8, <2>1, <2>2 DEF Disturb
  <2> QED
    BY <1>8, <2>3 DEF Disturb, TypeOK, ReplyType
<1>9. ASSUME NEW req \in wire, Serve(req) PROVE TypeOK'
  <2>1. req.id \in EmptyId .. issued /\ wire' \subseteq RequestType(calls, issued)
    BY <1>a, <1>9 DEF Serve, RequestType
  <2>2. CASE /\ UNCHANGED issued
             /\ records' \subseteq records
             /\ Answered(IF req.id \in records THEN Good(req.id) ELSE Reply("gone"), req)
    <3>1. reply' \in ReplyType(issued)
      BY <1>a, <2>1, <2>2, Numbers, ReplyTypes DEF Answered, Kinds
    <3> QED
      BY <1>9, <2>1, <2>2, <3>1 DEF Serve, TypeOK, RequestType, ReplyType
  <2>3. CASE /\ issued < MaxRecords
             /\ issued' = issued + 1
             /\ records' = records \cup {issued + 1}
             /\ Answered(Good(issued + 1), req)
    <3>1. reply' \in ReplyType(issued + 1)
      BY <1>a, <2>3, Numbers, ReplyTypes, ReplyTypeGrows DEF Answered, EmptyId
    <3>2. wire' \subseteq RequestType(calls, issued + 1)
      BY <2>1, Numbers, RequestTypeGrows
    <3>3. issued + 1 \in 0 .. MaxRecords /\ records' \subseteq 1 .. issued + 1
      BY <2>3, Numbers DEF TypeOK
    <3>4. tracked \in EmptyId .. issued + 1 /\ content \in EmptyId .. issued + 1
      BY Numbers DEF TypeOK, EmptyId
    <3> QED
      BY <1>9, <2>3, <3>1, <3>2, <3>3, <3>4
         DEF Serve, TypeOK, RequestType, ReplyType
  <2> QED
    BY <1>9, <2>2, <2>3 DEF Serve
<1>10. ASSUME NEW req \in wire, RequestLost(req) PROVE TypeOK'
  BY <1>10 DEF RequestLost, TypeOK
<1>11. ASSUME NEW id \in records, OutsideDelete(id) PROVE TypeOK'
  BY <1>11 DEF OutsideDelete, TypeOK
<1>12. CASE UNCHANGED vars
  BY <1>12 DEF vars, TypeOK
<1> QED
  BY <1>1, <1>2, <1>3, <1>4, <1>5, <1>6, <1>7, <1>8, <1>9, <1>10, <1>11, <1>12
     DEF Next


\* Every step keeps a call to its attempts (do, retryAttempts).
LEMMA PhaseStep ==
  ASSUME TypeOK, PhaseInv, [Next]_vars
  PROVE  PhaseInv'
<1> USE Numbers DEF PhaseInv, AttemptsOf, server
<1>1. ASSUME NEW o \in Ops, Call(o) PROVE PhaseInv'
  BY <1>1 DEF Call, TypeOK
<1>2. CASE Send
  BY <1>2 DEF Send
<1>3. CASE Backoff \/ Retries
  BY <1>3 DEF Backoff, Retries
<1>4. CASE Succeeds \/ ConfirmedNotFound \/ Fails \/ Cancelled
  BY <1>4 DEF Succeeds, ConfirmedNotFound, Fails, Cancelled, Finish
<1>5. CASE Disturb
  BY <1>5 DEF Disturb
<1>6. ASSUME NEW req \in wire, Serve(req) \/ RequestLost(req) PROVE PhaseInv'
  BY <1>6 DEF Serve, RequestLost
<1>7. ASSUME NEW id \in records, OutsideDelete(id) PROVE PhaseInv'
  BY <1>7 DEF OutsideDelete
<1>8. CASE UNCHANGED vars
  BY <1>8 DEF vars
<1> QED
  BY <1>1, <1>2, <1>3, <1>4, <1>5, <1>6, <1>7, <1>8 DEF Next

\* Every step keeps the requests of a call to what the call asks.
LEMMA WireStep ==
  ASSUME TypeOK, PhaseInv, WireInv, [Next]_vars
  PROVE  WireInv'
<1> USE DEF WireInv, server
<1>1. ASSUME NEW o \in Ops, Call(o) PROVE WireInv'
  <2>1. \A req \in wire : req.call # calls + 1
    BY Numbers DEF TypeOK
  <2> QED
    BY <1>1, <2>1 DEF Call
<1>2. CASE Send
  <2>1. IsFiniteSet(wire')
    BY <1>2, FS_AddElement DEF Send
  <2> QED
    BY <1>2, <2>1, RequestOnWire DEF Send
<1>3. CASE Backoff \/ Retries \/ Disturb
  BY <1>3 DEF Backoff, Retries, Disturb
<1>4. CASE Succeeds \/ ConfirmedNotFound \/ Fails \/ Cancelled
  BY <1>4 DEF Succeeds, ConfirmedNotFound, Fails, Cancelled, Finish
<1>6. ASSUME NEW req \in wire, Serve(req) \/ RequestLost(req) PROVE WireInv'
  <2>1. IsFiniteSet(wire')
    BY <1>6, FS_RemoveElement DEF Serve, RequestLost
  <2> QED
    BY <1>6, <2>1 DEF Serve, RequestLost
<1>7. ASSUME NEW id \in records, OutsideDelete(id) PROVE WireInv'
  BY <1>7 DEF OutsideDelete
<1>8. CASE UNCHANGED vars
  BY <1>8 DEF vars
<1> QED
  BY <1>1, <1>2, <1>3, <1>4, <1>6, <1>7, <1>8 DEF Next

\* Every step keeps the answer true of the record, and of the attempt only.
LEMMA ReplyStep ==
  ASSUME TypeOK, PhaseInv, WireInv, ReplyInv, [Next]_vars
  PROVE  ReplyInv'
<1> USE DEF ReplyInv, server
<1>1. ASSUME NEW o \in Ops, Call(o) PROVE ReplyInv'
  BY <1>1 DEF Call
<1>2. CASE Send
  BY <1>2, ReplyTypes DEF Send, NoReply
<1>3. CASE Backoff \/ Retries
  BY <1>3 DEF Backoff, Retries
<1>4. CASE Succeeds \/ ConfirmedNotFound \/ Fails \/ Cancelled
  BY <1>4 DEF Succeeds, ConfirmedNotFound, Fails, Cancelled, Finish
<1>5. CASE Disturb
  BY <1>5, Numbers DEF Disturb, Reply, Foreign, NotServers, NoId, EmptyId
<1>6. ASSUME NEW req \in wire, Serve(req) PROVE ReplyInv'
  <2>1. /\ UNCHANGED <<phase, op, tracked, calls, attempts>>
        /\ (phase = "sent" /\ req.call = calls) => req.op = op /\ req.id = tracked
        /\ req.op \in Ops
    BY <1>6 DEF Serve, WireInv, TypeOK
  <2>2. tracked \notin records => tracked \notin records'
    BY <1>6, Numbers DEF Serve, TypeOK
  <2>3. CASE reply' = reply
    BY <2>1, <2>2, <2>3
  <2>4. CASE reply' # reply
    <3>1. phase = "sent" /\ req.op = op /\ req.id = tracked
      BY <1>6, <2>1, <2>4 DEF Serve, Answered
    <3>2. CASE req.op = "get" /\ req.id \in records
      BY <1>6, <2>1, <2>4, <3>1, <3>2 DEF Serve, Answered, Good
    <3>3. CASE req.op = "create"
      BY <1>6, <2>1, <2>4, <3>1, <3>3, Numbers DEF Serve, Answered, Good, NoId
    <3>4. CASE req.op # "create" /\ req.id \notin records
      BY <1>6, <2>1, <2>2, <2>4, <3>1, <3>4 DEF Serve, Answered, Reply
    <3>5. CASE req.op = "delete" /\ req.id \in records
      BY <1>6, <2>1, <2>4, <3>1, <3>5 DEF Serve, Answered, Good
    <3> QED
      BY <2>1, <3>2, <3>3, <3>4, <3>5 DEF Ops
  <2> QED
    BY <2>3, <2>4
<1>7. ASSUME NEW req \in wire, RequestLost(req) PROVE ReplyInv'
  BY <1>7 DEF RequestLost
<1>8. ASSUME NEW id \in records, OutsideDelete(id) PROVE ReplyInv'
  BY <1>8 DEF OutsideDelete
<1>9. CASE UNCHANGED vars
  BY <1>9 DEF vars
<1> QED
  BY <1>1, <1>2, <1>3, <1>4, <1>5, <1>6, <1>7, <1>8, <1>9 DEF Next

\* Every step keeps the attributes those of the record the state names.
LEMMA ContentStep ==
  ASSUME TypeOK, ReplyInv, ContentIsOwn, [Next]_vars
  PROVE  ContentIsOwn'
<1> USE DEF ContentIsOwn
<1>1. CASE Succeeds
  BY <1>1 DEF Succeeds, Accepted, Finish, ReplyInv
<1>2. CASE ConfirmedNotFound \/ Fails \/ Cancelled
  BY <1>2 DEF ConfirmedNotFound, Fails, Cancelled, Finish
<1>3. CASE UNCHANGED <<tracked, content>>
  BY <1>3
<1> QED
  BY <1>1, <1>2, <1>3
     DEF Next, vars, Call, Send, Backoff, Retries, Disturb, Serve, RequestLost,
         OutsideDelete

\* At first no call is in progress.
LEMMA CallInit == Init => CallInv
<1>1. Init => TypeOK
  BY TypeInit
<1>2. Init => IsFiniteSet(wire)
  BY FS_EmptySet DEF Init
<1> QED
  BY <1>1, <1>2
     DEF Init, CallInv, PhaseInv, WireInv, ReplyInv, ContentIsOwn, NoId

\* Every step preserves what holds of the call in progress.
LEMMA CallStep == CallInv /\ [Next]_vars => CallInv'
BY TypeStep, PhaseStep, WireStep, ReplyStep, ContentStep DEF CallInv

\* The invariant of the call in progress holds.
LEMMA CallAlways == Spec => []CallInv
BY CallInit, CallStep, PTL DEF Spec

\* The type invariant of HttpClient: attempts never exceed their limit, and
\* only ids that were handed out are in the state.
THEOREM TypeCorrect == Spec => []TypeOK
<1>1. CallInv => TypeOK
  BY DEF CallInv
<1> QED
  BY <1>1, CallAlways, PTL

\* The attributes in the state are always those of the record it names,
\* whatever answers for the server ("resource identity mismatch").
THEOREM OwnContent == Spec => []ContentIsOwn
<1>1. CallInv => ContentIsOwn
  BY DEF CallInv
<1> QED
  BY <1>1, CallAlways, PTL

\* No lost, late or unconfirmed answer makes Terraform forget a record that
\* exists, and another's 2xx does only when it answers a deletion.
THEOREM Forgotten == Spec => ForgottenOnlyWhenGone
<1>1. ASSUME CallInv, [Next]_vars
      PROVE  [tracked # NoId /\ tracked' = NoId
                => \/ tracked \notin records
                   \/ op = "delete" /\ reply.kind = "foreign"]_vars
  <2>1. CASE Succeeds
    BY <1>1, <2>1 DEF CallInv, PhaseInv, ReplyInv, Succeeds, Accepted, Finish
  <2>2. CASE ConfirmedNotFound
    BY <1>1, <2>2 DEF CallInv, ReplyInv, ConfirmedNotFound, Confirmed
  <2>3. CASE Fails \/ Cancelled
    BY <2>3 DEF Fails, Cancelled, Finish
  <2>4. CASE UNCHANGED tracked
    BY <2>4
  <2> QED
    BY <1>1, <2>1, <2>2, <2>3, <2>4
       DEF Next, vars, Call, Send, Backoff, Retries, Disturb, Serve,
           RequestLost, OutsideDelete
<1> QED
  BY <1>1, CallAlways, PTL DEF Spec, ForgottenOnlyWhenGone

-----------------------------------------------------------------------------
(* What is retried. *)

\* Every step keeps the requests of the call within the attempts begun.
LEMMA AttemptStep ==
  ASSUME CallInv, AttemptInv, [Next]_vars
  PROVE  AttemptInv'
<1> USE DEF AttemptInv, CallInv, server
<1>1. ASSUME NEW o \in Ops, Call(o) PROVE AttemptInv'
  <2>1. \A req \in wire : req.call # calls + 1
    BY Numbers DEF TypeOK
  <2> QED
    BY <1>1, <2>1 DEF Call
<1>2. CASE Send
  <2>1. /\ attempts \in Nat /\ attempts' = attempts + 1 /\ phase # "idle"
        /\ wire' = wire \cup {Request} /\ calls' = calls
    BY <1>2, Numbers DEF Send, TypeOK
  <2>2. \A req \in wire : req.call = calls => req.attempt <= attempts
    BY <2>1
  <2>3. \A req \in wire : req.attempt \in Nat
    BY BoundsAssumption DEF TypeOK, BoundsAssumption
  <2>4. Request.attempt = attempts + 1
    BY DEF Request
  <2>5. ASSUME NEW req \in wire', req.call = calls PROVE req.attempt <= attempts + 1
    <3>1. CASE req = Request
      BY <2>1, <2>4, <3>1
    <3>2. CASE req \in wire
      BY <2>1, <2>2, <2>3, <2>5, <3>2
    <3> QED
      BY <2>1, <3>1, <3>2
  <2> QED
    BY <2>1, <2>5
<1>3. CASE Backoff \/ Retries \/ Disturb
  BY <1>3 DEF Backoff, Retries, Disturb
<1>4. CASE Succeeds \/ ConfirmedNotFound \/ Fails \/ Cancelled
  BY <1>4 DEF Succeeds, ConfirmedNotFound, Fails, Cancelled, Finish
<1>5. ASSUME NEW req \in wire, Serve(req) \/ RequestLost(req) PROVE AttemptInv'
  BY <1>5 DEF Serve, RequestLost
<1>6. ASSUME NEW id \in records, OutsideDelete(id) PROVE AttemptInv'
  BY <1>6 DEF OutsideDelete
<1>7. CASE UNCHANGED vars
  BY <1>7 DEF vars
<1> QED
  BY <1>1, <1>2, <1>3, <1>4, <1>5, <1>6, <1>7 DEF Next

\* A POST that may have reached the server is never sent again, whatever its
\* attempt was answered; a GET is, up to the attempts of New.
THEOREM PostsOnce == Spec => NeverRetried
<1>1. Init => AttemptInv
  BY DEF Init, AttemptInv
<1>2. CallInv /\ AttemptInv /\ [Next]_vars => AttemptInv'
  BY AttemptStep
<1>3. ASSUME CallInv, AttemptInv, [Next]_vars
      PROVE  [\A req \in wire' \ wire :
                /\ req.op # "get" => attempts = 0 /\ attempts' = 1
                /\ attempts' <= AttemptsOf(req.op)
                /\ \A old \in wire : old.call = req.call =>
                     old.op = "get" /\ old.attempt < req.attempt]_vars
  <2> SUFFICES ASSUME NEW req \in wire' \ wire
               PROVE  /\ req.op # "get" => attempts = 0 /\ attempts' = 1
                      /\ attempts' <= AttemptsOf(req.op)
                      /\ \A old \in wire : old.call = req.call =>
                           old.op = "get" /\ old.attempt < req.attempt
    OBVIOUS
  <2>1. Send /\ req = Request
    BY <1>3
       DEF Next, vars, Call, Send, Backoff, Succeeds, ConfirmedNotFound, Fails,
           Retries, Cancelled, Finish, Disturb, Serve, RequestLost, OutsideDelete
  <2>2. /\ attempts \in Nat /\ attempts < AttemptsOf(op) /\ attempts' = attempts + 1
        /\ phase # "idle" /\ RetryAttempts \in Nat
    BY <1>3, <2>1, BoundsAssumption
       DEF Send, CallInv, PhaseInv, TypeOK, BoundsAssumption
  <2>3. req.op = op /\ req.call = calls /\ req.attempt = attempts + 1
    BY <2>1 DEF Request
  <2>4. op # "get" => attempts = 0
    BY <2>2 DEF AttemptsOf
  <2>5. attempts + 1 <= AttemptsOf(op)
    BY <2>2 DEF AttemptsOf
  <2>6. ASSUME NEW old \in wire, old.call = calls
        PROVE  old.op = "get" /\ old.attempt < attempts + 1
    <3>1. old.attempt \in Nat \ {0} /\ old.attempt <= attempts /\ old.op = op
      BY <1>3, <2>2, <2>6, BoundsAssumption
         DEF CallInv, WireInv, AttemptInv, TypeOK, BoundsAssumption
    <3> QED
      BY <2>2, <2>4, <3>1
  <2> QED
    BY <2>2, <2>3, <2>4, <2>5, <2>6
<1> QED
  BY <1>1, <1>2, <1>3, CallAlways, PTL DEF Spec, NeverRetried

-----------------------------------------------------------------------------
(* Records nobody was told of. *)

\* Strays are counted.
LEMMA StraysFinite ==
  ASSUME NEW R, NEW W, NEW id, IsFiniteSet(R), IsFiniteSet(W)
  PROVE  /\ IsFiniteSet(R \ {id}) /\ IsFiniteSet(Creates(W))
         /\ Cardinality(R \ {id}) \in Nat /\ Cardinality(Creates(W)) \in Nat
         /\ StraysOf(R, id, W) \in Nat
<1>1. IsFiniteSet(R \ {id}) /\ IsFiniteSet(Creates(W))
  BY FS_Subset DEF Creates
<1>2. Cardinality(R \ {id}) \in Nat /\ Cardinality(Creates(W)) \in Nat
  BY <1>1, FS_CardinalityType
<1> QED
  BY <1>1, <1>2 DEF StraysOf

\* Deleting records and losing requests leaves no more of them.
LEMMA FewerStrays ==
  ASSUME NEW R, NEW W, NEW id, IsFiniteSet(R), IsFiniteSet(W),
         NEW S \in SUBSET R, NEW V \in SUBSET W
  PROVE  StraysOf(S, id, V) <= StraysOf(R, id, W)
<1>1. IsFiniteSet(S) /\ IsFiniteSet(V)
  BY FS_Subset
<1>2. S \ {id} \subseteq R \ {id} /\ Creates(V) \subseteq Creates(W)
  BY DEF Creates
<1>3. /\ Cardinality(S \ {id}) <= Cardinality(R \ {id})
      /\ Cardinality(Creates(V)) <= Cardinality(Creates(W))
  BY <1>2, StraysFinite, FS_Subset
<1>4. /\ Cardinality(S \ {id}) \in Nat /\ Cardinality(Creates(V)) \in Nat
      /\ Cardinality(R \ {id}) \in Nat /\ Cardinality(Creates(W)) \in Nat
  BY <1>1, StraysFinite
<1> QED
  BY <1>3, <1>4 DEF StraysOf

\* A request is one more at most, and only if it creates.
LEMMA OneMoreRequest ==
  ASSUME NEW R, NEW W, NEW id, IsFiniteSet(R), IsFiniteSet(W), NEW req
  PROVE  StraysOf(R, id, W \cup {req})
           <= StraysOf(R, id, W) + (IF req.op = "create" THEN 1 ELSE 0)
<1>f. /\ IsFiniteSet(Creates(W))
      /\ Cardinality(R \ {id}) \in Nat /\ Cardinality(Creates(W)) \in Nat
  BY StraysFinite
<1>1. CASE req.op = "create"
  <2>1. Creates(W \cup {req}) = Creates(W) \cup {req}
    BY <1>1 DEF Creates
  <2> DEFINE n == Cardinality(Creates(W))
             m == Cardinality(Creates(W) \cup {req})
  <2>2. n \in Nat /\ (m = n \/ m = n + 1)
    BY <1>f, FS_AddElement
  <2>3. m <= n + 1 /\ m \in Nat
    <3> HIDE DEF n, m
    <3> QED
      BY <2>2
  <2>4. Cardinality(Creates(W \cup {req})) = m
    BY <2>1
  <2> QED
    BY <1>f, <1>1, <2>3, <2>4 DEF StraysOf
<1>2. CASE req.op # "create"
  <2>1. Creates(W \cup {req}) = Creates(W)
    BY <1>2 DEF Creates
  <2> QED
    BY <1>f, <1>2, <2>1 DEF StraysOf
<1> QED
  BY <1>1, <1>2

\* A create that takes effect turns a request into a record, which is no stray
\* if its id is the one in the state.
LEMMA ServedCreate ==
  ASSUME NEW R, NEW W, NEW id, IsFiniteSet(R), IsFiniteSet(W),
         NEW req \in W, req.op = "create", NEW new, new \notin R
  PROVE  /\ new # id => StraysOf(R \cup {new}, id, W \ {req}) = StraysOf(R, id, W)
         /\ id \notin R =>
              StraysOf(R \cup {new}, new, W \ {req}) = StraysOf(R, id, W) - 1
<1>1. Creates(W \ {req}) = Creates(W) \ {req} /\ req \in Creates(W)
  BY DEF Creates
<1>2. Cardinality(Creates(W \ {req})) = Cardinality(Creates(W)) - 1
  BY <1>1, StraysFinite, FS_RemoveElement
<1>3. ASSUME new # id
      PROVE  Cardinality((R \cup {new}) \ {id}) = Cardinality(R \ {id}) + 1
  <2>1. (R \cup {new}) \ {id} = (R \ {id}) \cup {new} /\ new \notin R \ {id}
    BY <1>3
  <2> QED
    BY <2>1, StraysFinite, FS_AddElement
<1>4. ASSUME id \notin R PROVE (R \cup {new}) \ {new} = R \ {id}
  BY <1>4
<1>5. /\ Cardinality(R \ {id}) \in Nat /\ Cardinality(Creates(W)) \in Nat
  BY StraysFinite
<1> QED
  BY <1>2, <1>3, <1>4, <1>5 DEF StraysOf

\* Tracking another id leaves one more at most, and none if the first was the
\* id of no record.
LEMMA LeastStrays ==
  ASSUME NEW R, NEW W, NEW id, NEW jd, IsFiniteSet(R), IsFiniteSet(W)
  PROVE  /\ StraysOf(R, jd, W) <= StraysOf(R, id, W) + 1
         /\ id \notin R => StraysOf(R, jd, W) <= StraysOf(R, id, W)
<1>1. /\ IsFiniteSet(R \ {id}) /\ Cardinality(R \ {id}) \in Nat
      /\ IsFiniteSet(R \ {jd}) /\ Cardinality(R \ {jd}) \in Nat
      /\ Cardinality(Creates(W)) \in Nat
  BY StraysFinite
<1>2. /\ IsFiniteSet((R \ {id}) \cup {id})
      /\ Cardinality((R \ {id}) \cup {id}) = Cardinality(R \ {id}) + 1
  BY <1>1, FS_AddElement
<1>3. Cardinality(R \ {jd}) <= Cardinality((R \ {id}) \cup {id})
  <2>1. R \ {jd} \subseteq (R \ {id}) \cup {id}
    OBVIOUS
  <2> QED
    BY <1>2, <2>1, FS_Subset
<1>4. ASSUME id \notin R PROVE Cardinality(R \ {jd}) <= Cardinality(R \ {id})
  <2>1. R \ {jd} \subseteq R \ {id}
    BY <1>4
  <2> QED
    BY <1>1, <2>1, FS_Subset
<1> QED
  BY <1>1, <1>2, <1>3, <1>4 DEF StraysOf

\* Every step preserves that strays are accounted for.
LEMMA OrphanStep ==
  ASSUME CallInv, OrphanInv, [Next]_vars
  PROVE  OrphanInv'
<1>a. TypeOK /\ PhaseInv /\ WireInv /\ ReplyInv
  BY DEF CallInv
<1>b. /\ IsFiniteSet(records) /\ IsFiniteSet(wire)
      /\ NoId \notin records /\ issued + 1 \notin records
  <2>1. IsFiniteSet(1 .. issued)
    BY <1>a, Numbers, FS_Interval
  <2>2. records \subseteq 1 .. issued
    BY <1>a DEF TypeOK
  <2>3. IsFiniteSet(records)
    BY <2>1, <2>2, FS_Subset
  <2> QED
    BY <1>a, <2>2, <2>3, Numbers DEF WireInv, NoId
<1>n. \A id : StraysOf(records, id, wire) \in Nat
  BY <1>b, StraysFinite
<1> USE <1>n, Numbers, <1>a DEF OrphanInv, Unreported, server
<1>1. ASSUME NEW o \in Ops, Call(o) PROVE OrphanInv'
  BY <1>1 DEF Call
<1>2. CASE Send
  <2>1. StraysOf(records, tracked, wire \cup {Request})
          <= StraysOf(records, tracked, wire) + (IF op = "create" THEN 1 ELSE 0)
    BY <1>b, <1>2, RequestOnWire, OneMoreRequest DEF Send
  <2>2. StraysOf(records, tracked, wire \cup {Request}) \in Nat
    BY <1>b, StraysFinite, FS_AddElement
  <2>3. reply'.kind # "good"
    BY <1>2, ReplyTypes DEF Send
  <2> QED
    BY <1>2, <2>1, <2>2, <2>3 DEF Send
<1>3. CASE Backoff \/ Retries
  BY <1>3 DEF Backoff, Retries, PhaseInv, AttemptsOf
<1>4. CASE Succeeds
  <2>1. UNCHANGED <<records, wire, errors>> /\ phase' = "idle"
    BY <1>4 DEF Succeeds, Finish
  <2>2. CASE op = "create" /\ reply.kind = "good"
    BY <1>4, <2>1, <2>2 DEF Succeeds, Finish
  <2>3. CASE op = "create" /\ reply.kind = "foreign"
    <3>1. tracked' = reply.id /\ fooled' = fooled + 1 /\ tracked \notin records
      BY <1>b, <1>4, <2>3 DEF Succeeds, Finish, PhaseInv
    <3>2. StraysOf(records, reply.id, wire) <= StraysOf(records, tracked, wire)
      BY <1>b, <3>1, LeastStrays
    <3> QED
      BY <1>4, <2>1, <2>3, <3>1, <3>2 DEF Succeeds
  <2>4. CASE op = "get"
    BY <1>4, <2>1, <2>4 DEF Succeeds, Finish
  <2>5. CASE op = "delete" /\ reply.kind = "good"
    <3>1. tracked \notin records /\ tracked' = NoId /\ fooled' = fooled
      BY <1>4, <2>5 DEF Succeeds, Finish, ReplyInv
    <3>2. StraysOf(records, NoId, wire) <= StraysOf(records, tracked, wire)
      BY <1>b, <3>1, LeastStrays
    <3> QED
      BY <2>1, <2>5, <3>1, <3>2
  <2>6. CASE op = "delete" /\ reply.kind = "foreign"
    <3>1. tracked' = NoId /\ fooled' = fooled + 1
      BY <1>4, <2>6 DEF Succeeds, Finish
    <3>2. StraysOf(records, NoId, wire) <= StraysOf(records, tracked, wire) + 1
      BY <1>b, LeastStrays
    <3> QED
      BY <2>1, <2>6, <3>1, <3>2
  <2> QED
    BY <1>4, <2>2, <2>3, <2>4, <2>5, <2>6 DEF Succeeds, Accepted
<1>5. CASE ConfirmedNotFound
  <2>1. tracked \notin records /\ op # "create"
    BY <1>5 DEF ConfirmedNotFound, Confirmed, ReplyInv
  <2>2. StraysOf(records, NoId, wire) <= StraysOf(records, tracked, wire)
    BY <1>b, <2>1, LeastStrays
  <2> QED
    BY <1>5, <2>1, <2>2 DEF ConfirmedNotFound, Finish
<1>6. CASE Fails \/ Cancelled
  BY <1>6 DEF Fails, Cancelled, Finish
<1>7. CASE Disturb
  <2>1. reply'.kind # "good"
    BY <1>7 DEF Disturb, Reply, Foreign, NotServers
  <2> QED
    BY <1>7, <2>1 DEF Disturb
<1>8. ASSUME NEW req \in wire, Serve(req) PROVE OrphanInv'
  <2>1. /\ UNCHANGED <<phase, op, tracked, errors, fooled>>
        /\ wire' = wire \ {req}
        /\ req.op \in Ops
    BY <1>8 DEF Serve, TypeOK
  <2>2. reply' # reply => phase = "sent" /\ req.op = op /\ req.id = tracked
    BY <1>8 DEF Serve, Answered, WireInv
  <2>3. CASE req.op # "create"
    <3>1. records' \subseteq records /\ wire' \subseteq wire
      BY <1>8, <2>1, <2>3 DEF Serve
    <3>2. \A id : StraysOf(records', id, wire') <= StraysOf(records, id, wire)
      BY <1>b, <3>1, FewerStrays
    <3>3. \A id : StraysOf(records', id, wire') \in Nat
      BY <1>b, <3>1, FS_Subset, StraysFinite
    <3> QED
      BY <2>1, <2>2, <2>3, <3>2, <3>3 DEF TypeOK
  <2>4. CASE req.op = "create"
    <3>1. /\ records' = records \cup {issued + 1}
          /\ Answered(Good(issued + 1), req)
      BY <1>8, <2>4 DEF Serve
    <3>2. \A id : id # issued + 1 =>
            StraysOf(records', id, wire') = StraysOf(records, id, wire)
      BY <1>b, <2>1, <2>4, <3>1, ServedCreate
    <3>3. tracked # issued + 1 /\ reply.id # issued + 1
      BY DEF TypeOK
    <3>4. CASE reply' = reply
      BY <2>1, <3>2, <3>3, <3>4
    <3>5. CASE reply' # reply
      <4>1. reply'.id = issued + 1 /\ tracked = NoId /\ phase = "sent" /\ op = "create"
        BY <2>2, <2>4, <3>1, <3>5 DEF Answered, Good, PhaseInv
      <4>2. StraysOf(records', issued + 1, wire') = StraysOf(records, tracked, wire) - 1
        BY <1>b, <2>1, <2>4, <3>1, <4>1, ServedCreate
      <4>3. StraysOf(records', tracked, wire') = StraysOf(records, tracked, wire)
        BY <3>2, <3>3
      <4>4. StraysOf(records', tracked, wire') <= errors + fooled + 1
        BY <4>1, <4>3
      <4>5. StraysOf(records', reply'.id, wire') <= errors + fooled
        BY <4>1, <4>2
      <4> QED
        BY <2>1, <4>1, <4>4, <4>5
    <3> QED
      BY <3>4, <3>5
  <2> QED
    BY <2>3, <2>4
<1>9. ASSUME UNCHANGED <<phase, op, tracked, errors, fooled, reply>>,
             records' \subseteq records, wire' \subseteq wire
      PROVE  OrphanInv'
  <2>1. \A id : StraysOf(records', id, wire') <= StraysOf(records, id, wire)
    BY <1>b, <1>9, FewerStrays
  <2>2. \A id : StraysOf(records', id, wire') \in Nat
    BY <1>b, <1>9, FS_Subset, StraysFinite
  <2> QED
    BY <1>9, <2>1, <2>2
<1>10. ASSUME NEW req \in wire, RequestLost(req) PROVE OrphanInv'
  BY <1>9, <1>10 DEF RequestLost
<1>11. ASSUME NEW id \in records, OutsideDelete(id) PROVE OrphanInv'
  BY <1>9, <1>11 DEF OutsideDelete
<1>12. CASE UNCHANGED vars
  BY <1>9, <1>12 DEF vars
<1> QED
  BY <1>1, <1>2, <1>3, <1>4, <1>5, <1>6, <1>7, <1>8, <1>10, <1>11, <1>12
     DEF Next

\* A record exists outside the state only after a create of its own reported
\* an error, or a POST took another's 2xx for the server's, however many
\* answers are lost, late or foreign: no call makes two records, and no answer
\* of the server drops one ("Never retried").
THEOREM Orphans == Spec => []OrphansAreReported
<1>1. Init => CallInv /\ OrphanInv
  <2>1. Init => StraysOf(records, tracked, wire) = 0
    BY FS_EmptySet DEF Init, StraysOf, Creates
  <2> QED
    BY <2>1, CallInit DEF Init, OrphanInv, Unreported
<1>2. CallInv /\ OrphanInv /\ [Next]_vars => CallInv' /\ OrphanInv'
  BY CallStep, OrphanStep
<1>3. CallInv /\ OrphanInv => OrphansAreReported
  <2> SUFFICES ASSUME CallInv, OrphanInv, phase = "idle"
               PROVE  Cardinality(records \ {tracked}) <= errors + fooled
    BY DEF OrphansAreReported
  <2>1. IsFiniteSet(records) /\ IsFiniteSet(wire)
    <3>1. IsFiniteSet(1 .. issued)
      BY Numbers, FS_Interval DEF CallInv
    <3> QED
      BY <3>1, FS_Subset DEF CallInv, TypeOK, WireInv
  <2>2. /\ Cardinality(records \ {tracked}) \in Nat
        /\ Cardinality(Creates(wire)) \in Nat
    BY <2>1, StraysFinite
  <2>3. errors \in Nat /\ fooled \in Nat
    BY Numbers DEF CallInv
  <2> QED
    BY <2>2, <2>3 DEF OrphanInv, Unreported, StraysOf
<1> QED
  BY <1>1, <1>2, <1>3, PTL DEF Spec
=============================================================================
