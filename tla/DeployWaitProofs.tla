-------------------------- MODULE DeployWaitProofs --------------------------
(* What DeployWait guarantees, proved for any number of applies and of     *)
(* foreign deployments.                                                    *)
EXTENDS DeployWaitInv, TLAPS

\* A deployment that begins is appended: the older rows keep their place.
LEMMA BeginRows ==
  ASSUME TypeOK, NEW owner \in 0 .. MaxApplies, Begin(owner)
  PROVE  /\ rows' \in Seq(RowType)
         /\ Len(rows') = Len(rows) + 1
         /\ rows'[Len(rows')] = [owner |-> owner, phase |-> "running"]
         /\ \A d \in 1 .. Len(rows) : rows'[d] = rows[d]
         /\ status' = "running"
<1>1. [owner |-> owner, phase |-> "running"] \in RowType
  BY DEF RowType
<1> QED
  BY <1>1 DEF Begin, TypeOK

\* A build that ends changes the phase of its own row and nothing else.
LEMMA BuildRows ==
  ASSUME TypeOK, NEW d \in 1 .. Len(rows), BuildEnds(d)
  PROVE  /\ rows' \in Seq(RowType)
         /\ Len(rows') = Len(rows)
         /\ rows[d].phase = "running"
         /\ \A e \in 1 .. Len(rows) : e # d => rows'[e] = rows[e]
         /\ rows'[d].owner = rows[d].owner
         /\ rows'[d].phase = status'
         /\ status' \in {"done", "error"}
<1>1. PICK outcome \in {"done", "error"} :
        /\ rows' = [rows EXCEPT ![d].phase = outcome]
        /\ status' = outcome
  BY DEF BuildEnds
<1>2. rows[d] \in RowType
  BY DEF TypeOK
<1>3. [rows[d] EXCEPT !.phase = outcome] \in RowType
  BY <1>2 DEF RowType
<1>4. rows' \in Seq(RowType) /\ Len(rows') = Len(rows)
  BY <1>1, <1>3 DEF TypeOK
<1>5. rows'[d] = [rows[d] EXCEPT !.phase = outcome]
  BY <1>1 DEF TypeOK
<1>6. \A e \in 1 .. Len(rows) : e # d => rows'[e] = rows[e]
  BY <1>1 DEF TypeOK
<1> QED
  BY <1>1, <1>2, <1>4, <1>5, <1>6 DEF BuildEnds, RowType

\* Every step preserves the types.
LEMMA TypeStep == TypeOK /\ [Next]_vars => TypeOK'
<1> USE BoundsAssumption, ServerAssumption DEF BoundsAssumption, ServerAssumption
<1> SUFFICES ASSUME TypeOK, [Next]_vars
             PROVE  TypeOK'
  OBVIOUS
<1> USE DEF server, Waiting, Statuses, Applies
<1>1. CASE StartApply
  <2>1. apply' \in Applies /\ apply' \in 0 .. MaxApplies
    BY <1>1 DEF TypeOK, StartApply
  <2>2. reads' \in 0 .. ReadsCap /\ named' \in Nat
    BY <1>1 DEF StartApply, NoId, ReadsCap
  <2> QED
    BY <1>1, <2>1, <2>2 DEF TypeOK, StartApply
<1>2. CASE ReadPrior
  BY <1>2 DEF TypeOK, ReadPrior, NewestOrEmpty, Newest, NoId
<1>3. CASE SendDeploy
  BY <1>3 DEF TypeOK, SendDeploy
<1>4. CASE DeployAnswered \/ Tick \/ TimerFires
  BY <1>4 DEF TypeOK, DeployAnswered, Tick, TimerFires
<1>5. CASE DeployFails \/ PollFails \/ Deadline \/ Cancelled
  BY <1>5 DEF TypeOK, DeployFails, PollFails, Deadline, Cancelled, End, NoId
<1>6. CASE PollStatus
  BY <1>6 DEF TypeOK, PollStatus, Judge, End, NoId
<1>7. CASE PollGate
  <2>1. reads' \in 0 .. ReadsCap
    BY <1>7 DEF TypeOK, PollGate, OneMoreRead, ReadsCap
  <2>2. started' \in BOOLEAN
    BY <1>7 DEF TypeOK, PollGate
  <2>3. /\ pc' \in {"ended", "newest", "select"}
        /\ result' \in {"none", "success", "failed", "timeout", "cancelled"}
        /\ named' \in Nat
    BY <1>7 DEF TypeOK, PollGate, Judge, End, NoId
  <2> QED
    BY <1>7, <2>1, <2>2, <2>3 DEF TypeOK, PollGate
<1>8. CASE PollNewest
  BY <1>8 DEF TypeOK, PollNewest, NewestOrEmpty, Newest, End, NoId,
              OneMoreRead, ReadsCap
<1>9. ASSUME NEW a \in Applies, ServerAccepts(a) PROVE TypeOK'
  <2>1. CASE CommitPoint = "before_response"
    <3>1. Begin(a) /\ a \in 0 .. MaxApplies
      BY <1>9, <2>1 DEF ServerAccepts
    <3>2. rows' \in Seq(RowType) /\ status' = "running"
      BY <3>1, BeginRows
    <3> QED
      BY <1>9, <2>1, <3>2 DEF TypeOK, ServerAccepts
  <2>2. CASE CommitPoint # "before_response"
    BY <1>9, <2>2 DEF TypeOK, ServerAccepts
  <2> QED BY <2>1, <2>2
<1>10. ASSUME NEW a \in Applies, ServerCommits(a) PROVE TypeOK'
  <2>1. Begin(a) /\ a \in 0 .. MaxApplies
    BY <1>10 DEF ServerCommits
  <2>2. rows' \in Seq(RowType) /\ status' = "running"
    BY <2>1, BeginRows
  <2> QED
    BY <1>10, <2>2 DEF TypeOK, ServerCommits
<1>11. ASSUME NEW a \in Applies, RequestLost(a) PROVE TypeOK'
  BY <1>11 DEF TypeOK, RequestLost
<1>12. ASSUME NEW d \in 1 .. Len(rows), BuildEnds(d) PROVE TypeOK'
  BY <1>12, BuildRows DEF TypeOK, BuildEnds
<1>13. CASE OutsiderDeploys
  <2>1. Begin(0)
    BY <1>13 DEF OutsiderDeploys, Outsider
  <2> 0 \in 0 .. MaxApplies
    OBVIOUS
  <2>2. rows' \in Seq(RowType) /\ status' = "running"
    BY <2>1, BeginRows
  <2> QED
    BY <1>13, <2>2 DEF TypeOK, OutsiderDeploys
<1>14. CASE UNCHANGED vars
  BY <1>14 DEF TypeOK, vars
<1> QED
  BY <1>1, <1>2, <1>3, <1>4, <1>5, <1>6, <1>7, <1>8, <1>9, <1>10, <1>11,
     <1>12, <1>13, <1>14 DEF Next, Provider, Server

\* The variables start with their types.
LEMMA TypeInit == Init => TypeOK
<1> USE BoundsAssumption DEF BoundsAssumption
<1> SUFFICES ASSUME Init PROVE TypeOK
  OBVIOUS
<1>1. rows \in Seq(RowType)
  BY DEF Init
<1>2. request \in [Applies -> {"none", "sent", "accepted", "committed", "lost"}]
  BY DEF Init
<1>3. apply \in 0 .. MaxApplies /\ pc = "idle" /\ pc \in {"idle", "prior", "send", "posted", "ended"} \cup Waiting
  BY DEF Init, Waiting
<1>4. prior \in Nat /\ reads \in 0 .. ReadsCap /\ named \in Nat
  BY DEF Init, NoId, ReadsCap
<1>5. status \in Statuses /\ seen \in Statuses
  BY DEF Init, Statuses
<1> QED
  BY <1>1, <1>2, <1>3, <1>4, <1>5 DEF Init, TypeOK

\* The type invariant holds whatever the server promises.
THEOREM TypeCorrect == Spec => []TypeOK
<1>1. Init => TypeOK
  BY TypeInit
<1>2. TypeOK /\ [Next]_vars => TypeOK'
  BY TypeStep
<1> QED
  BY <1>1, <1>2, PTL DEF Spec

\* Every step preserves the invariant of a server that commits before it
\* answers and does not overlap deployments.
LEMMA MeasuredStep ==
  ASSUME CommitPoint = "before_response", Overlap = FALSE,
         MeasuredInv, [Next]_vars
  PROVE  MeasuredInv'
<1> USE BoundsAssumption DEF BoundsAssumption, server, Waiting, Applies
<1> TypeOK /\ TypeOK'
  BY TypeStep DEF MeasuredInv
<1> USE DEF TypeOK
<1>1. CASE StartApply
  <2>1. RequestInv'
    BY <1>1 DEF MeasuredInv, RequestInv, StartApply, Quiet, NoId
  <2>2. QuietInv'
    BY <1>1 DEF MeasuredInv, QuietInv, Quiet, RequestInv, StartApply, NoId
  <2>3. OursInv'
    BY <1>1 DEF MeasuredInv, OursInv, Last, RequestInv, StartApply, Quiet, NoId
  <2>4. SeenInv'
    BY <1>1 DEF MeasuredInv, SeenInv, OursInv, Last, RequestInv, StartApply, Quiet, NoId
  <2>5. ReadsInv'
    BY <1>1 DEF MeasuredInv, ReadsInv, SeenInv, OursInv, StartApply, Quiet, NoId
  <2>6. SuccessIsCausal'
    BY <1>1 DEF MeasuredInv, SuccessIsCausal, OursInv, SeenInv, Last, Owned, StartApply, Quiet, NoId
  <2>7. ErrorIsCausal'
    BY <1>1 DEF MeasuredInv, ErrorIsCausal, OursInv, SeenInv, Last, Owned, NoId, StartApply, Quiet
  <2> QED
    BY <2>1, <2>2, <2>3, <2>4, <2>5, <2>6, <2>7 DEF MeasuredInv
<1>2. CASE ReadPrior
  <2>1. RequestInv'
    BY <1>2 DEF MeasuredInv, RequestInv, ReadPrior, NewestOrEmpty, Newest, NoId
  <2>2. QuietInv'
    BY <1>2 DEF MeasuredInv, QuietInv, Quiet, RequestInv, ReadPrior, NewestOrEmpty, Newest, NoId
  <2>3. OursInv'
    BY <1>2 DEF MeasuredInv, OursInv, Last, RequestInv, ReadPrior, NewestOrEmpty, Newest, NoId
  <2>4. SeenInv'
    BY <1>2 DEF MeasuredInv, SeenInv, OursInv, Last, RequestInv, ReadPrior, NewestOrEmpty, Newest, NoId
  <2>5. ReadsInv'
    BY <1>2 DEF MeasuredInv, ReadsInv, SeenInv, OursInv, ReadPrior, NewestOrEmpty, Newest, NoId
  <2>6. SuccessIsCausal'
    BY <1>2 DEF MeasuredInv, SuccessIsCausal, OursInv, SeenInv, Last, Owned, ReadPrior, NewestOrEmpty, Newest, NoId
  <2>7. ErrorIsCausal'
    BY <1>2 DEF MeasuredInv, ErrorIsCausal, OursInv, SeenInv, Last, Owned, NoId, ReadPrior, NewestOrEmpty, Newest
  <2> QED
    BY <2>1, <2>2, <2>3, <2>4, <2>5, <2>6, <2>7 DEF MeasuredInv
<1>3. CASE SendDeploy
  <2>1. RequestInv'
    BY <1>3 DEF MeasuredInv, RequestInv, SendDeploy
  <2>2. QuietInv'
    BY <1>3 DEF MeasuredInv, QuietInv, Quiet, RequestInv, SendDeploy
  <2>3. OursInv'
    BY <1>3 DEF MeasuredInv, OursInv, Last, RequestInv, SendDeploy
  <2>4. SeenInv'
    BY <1>3 DEF MeasuredInv, SeenInv, OursInv, Last, RequestInv, SendDeploy
  <2>5. ReadsInv'
    BY <1>3 DEF MeasuredInv, ReadsInv, SeenInv, OursInv, SendDeploy
  <2>6. SuccessIsCausal'
    BY <1>3 DEF MeasuredInv, SuccessIsCausal, OursInv, SeenInv, Last, Owned, SendDeploy
  <2>7. ErrorIsCausal'
    BY <1>3 DEF MeasuredInv, ErrorIsCausal, OursInv, SeenInv, Last, Owned, NoId, SendDeploy
  <2> QED
    BY <2>1, <2>2, <2>3, <2>4, <2>5, <2>6, <2>7 DEF MeasuredInv
<1>4. CASE DeployAnswered
  <2>1. RequestInv'
    BY <1>4 DEF MeasuredInv, RequestInv, DeployAnswered
  <2>2. QuietInv'
    BY <1>4 DEF MeasuredInv, QuietInv, Quiet, RequestInv, DeployAnswered
  <2>3. OursInv'
    BY <1>4 DEF MeasuredInv, OursInv, Last, RequestInv, DeployAnswered
  <2>4. SeenInv'
    BY <1>4 DEF MeasuredInv, SeenInv, OursInv, Last, RequestInv, DeployAnswered
  <2>5. ReadsInv'
    BY <1>4 DEF MeasuredInv, ReadsInv, SeenInv, OursInv, DeployAnswered
  <2>6. SuccessIsCausal'
    BY <1>4 DEF MeasuredInv, SuccessIsCausal, OursInv, SeenInv, Last, Owned, DeployAnswered
  <2>7. ErrorIsCausal'
    BY <1>4 DEF MeasuredInv, ErrorIsCausal, OursInv, SeenInv, Last, Owned, NoId, DeployAnswered
  <2> QED
    BY <2>1, <2>2, <2>3, <2>4, <2>5, <2>6, <2>7 DEF MeasuredInv
<1>5. CASE DeployFails
  <2>1. RequestInv'
    BY <1>5 DEF MeasuredInv, RequestInv, DeployFails, End, NoId
  <2>2. QuietInv'
    BY <1>5 DEF MeasuredInv, QuietInv, Quiet, RequestInv, DeployFails, End, NoId
  <2>3. OursInv'
    BY <1>5 DEF MeasuredInv, OursInv, Last, RequestInv, DeployFails, End, NoId
  <2>4. SeenInv'
    BY <1>5 DEF MeasuredInv, SeenInv, OursInv, Last, RequestInv, DeployFails, End, NoId
  <2>5. ReadsInv'
    BY <1>5 DEF MeasuredInv, ReadsInv, SeenInv, OursInv, DeployFails, End, NoId
  <2>6. SuccessIsCausal'
    BY <1>5 DEF MeasuredInv, SuccessIsCausal, OursInv, SeenInv, Last, Owned, DeployFails, End, NoId
  <2>7. ErrorIsCausal'
    BY <1>5 DEF MeasuredInv, ErrorIsCausal, OursInv, SeenInv, Last, Owned, NoId, DeployFails, End
  <2> QED
    BY <2>1, <2>2, <2>3, <2>4, <2>5, <2>6, <2>7 DEF MeasuredInv
<1>6. CASE PollStatus
  <2>1. RequestInv'
    BY <1>6 DEF MeasuredInv, RequestInv, PollStatus, Judge, End, NoId
  <2>2. QuietInv'
    BY <1>6 DEF MeasuredInv, QuietInv, Quiet, RequestInv, PollStatus, Judge, End, NoId
  <2>3. OursInv'
    BY <1>6 DEF MeasuredInv, OursInv, Last, RequestInv, PollStatus, Judge, End, NoId
  <2>4. SeenInv'
    BY <1>6 DEF MeasuredInv, SeenInv, OursInv, Last, RequestInv, PollStatus, Judge, End, NoId
  <2>5. ReadsInv'
    BY <1>6 DEF MeasuredInv, ReadsInv, SeenInv, OursInv, PollStatus, Judge, End, NoId
  <2>6. SuccessIsCausal'
    BY <1>6 DEF MeasuredInv, SuccessIsCausal, OursInv, SeenInv, Last, Owned, PollStatus, Judge, End, NoId
  <2>7. ErrorIsCausal'
    BY <1>6 DEF MeasuredInv, ErrorIsCausal, OursInv, SeenInv, Last, Owned, NoId, PollStatus, Judge, End
  <2> QED
    BY <2>1, <2>2, <2>3, <2>4, <2>5, <2>6, <2>7 DEF MeasuredInv
<1>7. CASE PollFails
  <2>1. RequestInv'
    BY <1>7 DEF MeasuredInv, RequestInv, PollFails, End, NoId
  <2>2. QuietInv'
    BY <1>7 DEF MeasuredInv, QuietInv, Quiet, RequestInv, PollFails, End, NoId
  <2>3. OursInv'
    BY <1>7 DEF MeasuredInv, OursInv, Last, RequestInv, PollFails, End, NoId
  <2>4. SeenInv'
    BY <1>7 DEF MeasuredInv, SeenInv, OursInv, Last, RequestInv, PollFails, End, NoId
  <2>5. ReadsInv'
    BY <1>7 DEF MeasuredInv, ReadsInv, SeenInv, OursInv, PollFails, End, NoId
  <2>6. SuccessIsCausal'
    BY <1>7 DEF MeasuredInv, SuccessIsCausal, OursInv, SeenInv, Last, Owned, PollFails, End, NoId
  <2>7. ErrorIsCausal'
    BY <1>7 DEF MeasuredInv, ErrorIsCausal, OursInv, SeenInv, Last, Owned, NoId, PollFails, End
  <2> QED
    BY <2>1, <2>2, <2>3, <2>4, <2>5, <2>6, <2>7 DEF MeasuredInv
<1>8. CASE PollGate
  <2>1. RequestInv'
    BY <1>8 DEF MeasuredInv, RequestInv, PollGate, Judge, End, NoId, OneMoreRead, ReadsCap, GateOpens, Newest
  <2>2. QuietInv'
    BY <1>8 DEF MeasuredInv, QuietInv, Quiet, RequestInv, PollGate, Judge, End, NoId, OneMoreRead, ReadsCap, GateOpens, Newest
  <2>3. OursInv'
    BY <1>8 DEF MeasuredInv, OursInv, Last, RequestInv, PollGate, Judge, End, NoId, OneMoreRead, ReadsCap, GateOpens, Newest
  <2>4. SeenInv'
    BY <1>8 DEF MeasuredInv, SeenInv, OursInv, Last, RequestInv, PollGate, Judge, End, NoId, OneMoreRead, ReadsCap, GateOpens, Newest
  <2>5. ReadsInv'
    BY <1>8 DEF MeasuredInv, ReadsInv, SeenInv, OursInv, PollGate, Judge, End, NoId, OneMoreRead, ReadsCap, GateOpens, Newest
  <2>6. SuccessIsCausal'
    BY <1>8 DEF MeasuredInv, SuccessIsCausal, OursInv, SeenInv, Last, Owned, PollGate, Judge, End, NoId, OneMoreRead, ReadsCap, GateOpens, Newest
  <2>7. ErrorIsCausal'
    BY <1>8 DEF MeasuredInv, ErrorIsCausal, OursInv, SeenInv, Last, Owned, NoId, PollGate, Judge, End, OneMoreRead, ReadsCap, GateOpens, Newest
  <2> QED
    BY <2>1, <2>2, <2>3, <2>4, <2>5, <2>6, <2>7 DEF MeasuredInv
<1>9. CASE PollNewest
  <2>1. RequestInv'
    BY <1>9 DEF MeasuredInv, RequestInv, PollNewest, NewestOrEmpty, Newest, End, NoId, OneMoreRead, ReadsCap
  <2>2. QuietInv'
    BY <1>9 DEF MeasuredInv, QuietInv, Quiet, RequestInv, PollNewest, NewestOrEmpty, Newest, End, NoId, OneMoreRead, ReadsCap
  <2>3. OursInv'
    BY <1>9 DEF MeasuredInv, OursInv, Last, RequestInv, PollNewest, NewestOrEmpty, Newest, End, NoId, OneMoreRead, ReadsCap
  <2>4. SeenInv'
    BY <1>9 DEF MeasuredInv, SeenInv, OursInv, Last, RequestInv, PollNewest, NewestOrEmpty, Newest, End, NoId, OneMoreRead, ReadsCap
  <2>5. ReadsInv'
    BY <1>9 DEF MeasuredInv, ReadsInv, SeenInv, OursInv, PollNewest, NewestOrEmpty, Newest, End, NoId, OneMoreRead, ReadsCap
  <2>6. SuccessIsCausal'
    BY <1>9 DEF MeasuredInv, SuccessIsCausal, OursInv, SeenInv, Last, Owned, PollNewest, NewestOrEmpty, Newest, End, NoId, OneMoreRead, ReadsCap
  <2>7. ErrorIsCausal'
    BY <1>9 DEF MeasuredInv, ErrorIsCausal, OursInv, SeenInv, Last, Owned, NoId, PollNewest, NewestOrEmpty, Newest, End, OneMoreRead, ReadsCap
  <2> QED
    BY <2>1, <2>2, <2>3, <2>4, <2>5, <2>6, <2>7 DEF MeasuredInv
<1>10. CASE Tick \/ TimerFires
  <2>1. RequestInv'
    BY <1>10 DEF MeasuredInv, RequestInv, Tick, TimerFires
  <2>2. QuietInv'
    BY <1>10 DEF MeasuredInv, QuietInv, Quiet, RequestInv, Tick, TimerFires
  <2>3. OursInv'
    BY <1>10 DEF MeasuredInv, OursInv, Last, RequestInv, Tick, TimerFires
  <2>4. SeenInv'
    BY <1>10 DEF MeasuredInv, SeenInv, OursInv, Last, RequestInv, Tick, TimerFires
  <2>5. ReadsInv'
    BY <1>10 DEF MeasuredInv, ReadsInv, SeenInv, OursInv, Tick, TimerFires
  <2>6. SuccessIsCausal'
    BY <1>10 DEF MeasuredInv, SuccessIsCausal, OursInv, SeenInv, Last, Owned, Tick, TimerFires
  <2>7. ErrorIsCausal'
    BY <1>10 DEF MeasuredInv, ErrorIsCausal, OursInv, SeenInv, Last, Owned, NoId, Tick, TimerFires
  <2> QED
    BY <2>1, <2>2, <2>3, <2>4, <2>5, <2>6, <2>7 DEF MeasuredInv
<1>11. CASE Deadline \/ Cancelled
  <2>1. RequestInv'
    BY <1>11 DEF MeasuredInv, RequestInv, Deadline, Cancelled, End, NoId
  <2>2. QuietInv'
    BY <1>11 DEF MeasuredInv, QuietInv, Quiet, RequestInv, Deadline, Cancelled, End, NoId
  <2>3. OursInv'
    BY <1>11 DEF MeasuredInv, OursInv, Last, RequestInv, Deadline, Cancelled, End, NoId
  <2>4. SeenInv'
    BY <1>11 DEF MeasuredInv, SeenInv, OursInv, Last, RequestInv, Deadline, Cancelled, End, NoId
  <2>5. ReadsInv'
    BY <1>11 DEF MeasuredInv, ReadsInv, SeenInv, OursInv, Deadline, Cancelled, End, NoId
  <2>6. SuccessIsCausal'
    BY <1>11 DEF MeasuredInv, SuccessIsCausal, OursInv, SeenInv, Last, Owned, Deadline, Cancelled, End, NoId
  <2>7. ErrorIsCausal'
    BY <1>11 DEF MeasuredInv, ErrorIsCausal, OursInv, SeenInv, Last, Owned, NoId, Deadline, Cancelled, End
  <2> QED
    BY <2>1, <2>2, <2>3, <2>4, <2>5, <2>6, <2>7 DEF MeasuredInv
<1>12. CASE OutsiderDeploys
  <2>0. Begin(0)
    BY <1>12 DEF OutsiderDeploys, Outsider
  <2> 0 \in 0 .. MaxApplies
    OBVIOUS
  <2>b. /\ Len(rows') = Len(rows) + 1
        /\ rows'[Len(rows')] = [owner |-> 0, phase |-> "running"]
        /\ \A d \in 1 .. Len(rows) : rows'[d] = rows[d]
        /\ status' = "running"
    BY <2>0, BeginRows
  <2>1. RequestInv'
    BY <1>12, <2>b DEF MeasuredInv, RequestInv, OutsiderDeploys, Outsider, Quiet
  <2>2. QuietInv'
    BY <1>12, <2>b DEF MeasuredInv, QuietInv, Quiet, RequestInv, OutsiderDeploys, Outsider
  <2>3. OursInv'
    BY <1>12, <2>b DEF MeasuredInv, OursInv, Last, RequestInv, OutsiderDeploys, Outsider, Quiet
  <2>4. SeenInv'
    BY <1>12, <2>b DEF MeasuredInv, SeenInv, OursInv, Last, RequestInv, OutsiderDeploys, Outsider, Quiet
  <2>5. ReadsInv'
    BY <1>12, <2>b DEF MeasuredInv, ReadsInv, SeenInv, OursInv, OutsiderDeploys, Outsider, Quiet
  <2>6. SuccessIsCausal'
    BY <1>12, <2>b DEF MeasuredInv, SuccessIsCausal, OursInv, SeenInv, Last, Owned, OutsiderDeploys, Outsider, Quiet
  <2>7. ErrorIsCausal'
    BY <1>12, <2>b DEF MeasuredInv, ErrorIsCausal, OursInv, SeenInv, Last, Owned, NoId, OutsiderDeploys, Outsider, Quiet
  <2> QED
    BY <2>1, <2>2, <2>3, <2>4, <2>5, <2>6, <2>7 DEF MeasuredInv
<1>13. CASE UNCHANGED vars
  <2>1. RequestInv'
    BY <1>13 DEF MeasuredInv, RequestInv, vars
  <2>2. QuietInv'
    BY <1>13 DEF MeasuredInv, QuietInv, Quiet, RequestInv, vars
  <2>3. OursInv'
    BY <1>13 DEF MeasuredInv, OursInv, Last, RequestInv, vars
  <2>4. SeenInv'
    BY <1>13 DEF MeasuredInv, SeenInv, OursInv, Last, RequestInv, vars
  <2>5. ReadsInv'
    BY <1>13 DEF MeasuredInv, ReadsInv, SeenInv, OursInv, vars
  <2>6. SuccessIsCausal'
    BY <1>13 DEF MeasuredInv, SuccessIsCausal, OursInv, SeenInv, Last, Owned, vars
  <2>7. ErrorIsCausal'
    BY <1>13 DEF MeasuredInv, ErrorIsCausal, OursInv, SeenInv, Last, Owned, NoId, vars
  <2> QED
    BY <2>1, <2>2, <2>3, <2>4, <2>5, <2>6, <2>7 DEF MeasuredInv
<1>14. ASSUME NEW a \in Applies, ServerAccepts(a) PROVE MeasuredInv'
  <2>0. Begin(a) /\ a = apply /\ a \in 0 .. MaxApplies
    BY <1>14 DEF ServerAccepts, MeasuredInv, RequestInv
  <2>b. /\ Len(rows') = Len(rows) + 1
        /\ rows'[Len(rows')] = [owner |-> a, phase |-> "running"]
        /\ \A d \in 1 .. Len(rows) : rows'[d] = rows[d]
        /\ status' = "running"
    BY <2>0, BeginRows
  <2>1. RequestInv'
    BY <1>14, <2>0, <2>b DEF MeasuredInv, RequestInv, ServerAccepts
  <2>2. QuietInv'
    BY <1>14, <2>0, <2>b DEF MeasuredInv, QuietInv, Quiet, RequestInv, ServerAccepts
  <2>3. OursInv'
    BY <1>14, <2>0, <2>b DEF MeasuredInv, OursInv, SeenInv, QuietInv, Last, ServerAccepts
  <2>4. SeenInv'
    BY <1>14, <2>0, <2>b DEF MeasuredInv, SeenInv, OursInv, Last, RequestInv, ServerAccepts
  <2>5. ReadsInv'
    BY <1>14, <2>0, <2>b DEF MeasuredInv, ReadsInv, SeenInv, OursInv, ServerAccepts
  <2>6. SuccessIsCausal'
    BY <1>14, <2>0, <2>b DEF MeasuredInv, SuccessIsCausal, OursInv, SeenInv, Last, Owned, ServerAccepts
  <2>7. ErrorIsCausal'
    BY <1>14, <2>0, <2>b DEF MeasuredInv, ErrorIsCausal, OursInv, SeenInv, Last, Owned, NoId, ServerAccepts
  <2> QED
    BY <2>1, <2>2, <2>3, <2>4, <2>5, <2>6, <2>7 DEF MeasuredInv
<1>15. ASSUME NEW a \in Applies, ServerCommits(a) PROVE MeasuredInv'
  BY <1>15 DEF MeasuredInv, RequestInv, ServerCommits
<1>16. ASSUME NEW a \in Applies, RequestLost(a) PROVE MeasuredInv'
  <2>1. RequestInv'
    BY <1>16 DEF MeasuredInv, RequestInv, RequestLost
  <2>2. QuietInv'
    BY <1>16 DEF MeasuredInv, QuietInv, Quiet, RequestInv, RequestLost
  <2>3. OursInv'
    BY <1>16 DEF MeasuredInv, OursInv, Last, RequestInv, RequestLost
  <2>4. SeenInv'
    BY <1>16 DEF MeasuredInv, SeenInv, OursInv, Last, RequestInv, RequestLost
  <2>5. ReadsInv'
    BY <1>16 DEF MeasuredInv, ReadsInv, SeenInv, OursInv, RequestLost
  <2>6. SuccessIsCausal'
    BY <1>16 DEF MeasuredInv, SuccessIsCausal, OursInv, SeenInv, Last, Owned, RequestLost
  <2>7. ErrorIsCausal'
    BY <1>16 DEF MeasuredInv, ErrorIsCausal, OursInv, SeenInv, Last, Owned, NoId, RequestLost
  <2> QED
    BY <2>1, <2>2, <2>3, <2>4, <2>5, <2>6, <2>7 DEF MeasuredInv
<1>17. ASSUME NEW d \in 1 .. Len(rows), BuildEnds(d) PROVE MeasuredInv'
  <2>1. RequestInv'
    BY <1>17, BuildRows DEF MeasuredInv, RequestInv, BuildEnds
  <2>2. QuietInv'
    BY <1>17, BuildRows DEF MeasuredInv, QuietInv, Quiet, RequestInv, BuildEnds
  <2>3. OursInv'
    BY <1>17, BuildRows DEF MeasuredInv, OursInv, Last, RequestInv, BuildEnds
  <2>4. SeenInv'
    BY <1>17, BuildRows DEF MeasuredInv, SeenInv, OursInv, Last, RequestInv, BuildEnds
  <2>5. ReadsInv'
    BY <1>17, BuildRows DEF MeasuredInv, ReadsInv, SeenInv, OursInv, BuildEnds
  <2>6. SuccessIsCausal'
    BY <1>17, BuildRows DEF MeasuredInv, SuccessIsCausal, OursInv, SeenInv, Last, Owned, BuildEnds
  <2>7. ErrorIsCausal'
    BY <1>17, BuildRows DEF MeasuredInv, ErrorIsCausal, OursInv, SeenInv, Last, Owned, NoId, BuildEnds
  <2> QED
    BY <2>1, <2>2, <2>3, <2>4, <2>5, <2>6, <2>7 DEF MeasuredInv
<1> QED
  BY <1>1, <1>2, <1>3, <1>4, <1>5, <1>6, <1>7, <1>8, <1>9, <1>10, <1>11, <1>12, <1>13, <1>14, <1>15, <1>16, <1>17
     DEF Next, Provider, Server

\* Nothing is deployed at first.
LEMMA MeasuredInit == Init => MeasuredInv
<1>1. Init => TypeOK
  BY TypeInit
<1> QED
  BY <1>1 DEF Init, MeasuredInv, RequestInv, QuietInv, OursInv, SeenInv,
              ReadsInv, SuccessIsCausal, ErrorIsCausal, Waiting, NoId

\* The invariant of a server that commits before it answers.
LEMMA Measured ==
  ASSUME CommitPoint = "before_response", Overlap = FALSE
  PROVE  Spec => []MeasuredInv
<1>1. Init => MeasuredInv
  BY MeasuredInit
<1>2. MeasuredInv /\ [Next]_vars => MeasuredInv'
  BY MeasuredStep
<1> QED
  BY <1>1, <1>2, PTL DEF Spec

\* With that server, one wait reads the deployment history twice at most,
\* however many times it polls.
THEOREM TwoHistoryReads ==
  ASSUME CommitPoint = "before_response", Overlap = FALSE
  PROVE  Spec => []HistoryReadAtMostTwice
<1>1. MeasuredInv => HistoryReadAtMostTwice
  BY DEF MeasuredInv, ReadsInv, HistoryReadAtMostTwice
<1> QED
  BY <1>1, Measured, PTL

-----------------------------------------------------------------------------
(* The gate, whenever the server commits. *)

\* Every step keeps the gate shut until our deployment is in the history.
LEMMA GateStep ==
  ASSUME HistoryMayFail = FALSE, Overlap = FALSE, GateInv, [Next]_vars
  PROVE  GateInv'
<1>0. TypeOK /\ TypeOK'
  BY TypeStep DEF GateInv
<1> USE <1>0 DEF Applies, Waiting, NoId, server
<1>1. CASE StartApply
  BY <1>1 DEF GateInv, StartApply, Quiet
<1>2. CASE ReadPrior
  BY <1>2 DEF GateInv, ReadPrior, NewestOrEmpty, Newest, Owned, TypeOK
<1>3. CASE SendDeploy
  BY <1>3 DEF GateInv, SendDeploy, Owned, TypeOK
<1>4. CASE PollGate
  BY <1>4 DEF GateInv, PollGate, GateOpens, Judge, End, Newest, Owned, TypeOK
<1>5. CASE DeployAnswered \/ DeployFails \/ PollFails \/ Tick \/ Deadline
             \/ Cancelled \/ TimerFires
  BY <1>5 DEF GateInv, DeployAnswered, DeployFails, PollFails, Tick, Deadline,
              Cancelled, TimerFires, End, Owned
<1>6. CASE PollStatus \/ PollNewest
  BY <1>6 DEF GateInv, PollStatus, PollNewest, Judge, End, Owned
<1>7. CASE UNCHANGED vars
  BY <1>7 DEF GateInv, Owned, vars
<1>8. ASSUME NEW a \in Applies, ServerAccepts(a) \/ ServerCommits(a) \/ RequestLost(a)
      PROVE  GateInv'
  <2>1. a = apply /\ a \in 0 .. MaxApplies
    BY <1>8, BoundsAssumption
       DEF GateInv, ServerAccepts, ServerCommits, RequestLost, BoundsAssumption
  <2>2. CASE UNCHANGED rows
    BY <1>8, <2>1, <2>2
       DEF GateInv, ServerAccepts, ServerCommits, RequestLost, Begin, Owned, TypeOK
  <2>3. CASE Begin(a)
    <3>1. Len(rows') \in 1 .. Len(rows') /\ rows'[Len(rows')].owner = a
      <4>1. /\ Len(rows') = Len(rows) + 1
            /\ rows'[Len(rows')] = [owner |-> a, phase |-> "running"]
        BY <2>1, <2>3, BeginRows
      <4>2. Len(rows) \in Nat
        BY DEF TypeOK
      <4> QED
        BY <4>1, <4>2
    <3>2. Owned(apply)' # {}
      BY <1>8, <2>1, <3>1
         DEF Owned, ServerAccepts, ServerCommits, RequestLost
    <3> QED
      BY <1>8, <2>1, <3>2
         DEF GateInv, ServerAccepts, ServerCommits, RequestLost, TypeOK
  <2> QED
    BY <1>8, <2>2, <2>3 DEF ServerAccepts, ServerCommits, RequestLost
<1>9. ASSUME NEW d \in 1 .. Len(rows), BuildEnds(d) PROVE GateInv'
  <2>1. Len(rows') = Len(rows) /\ \A e \in 1 .. Len(rows) : rows'[e].owner = rows[e].owner
    BY <1>9, BuildRows
  <2>2. Owned(apply)' = Owned(apply)
    BY <1>9, <2>1 DEF Owned, BuildEnds
  <2> QED
    BY <1>9, <2>1, <2>2 DEF GateInv, BuildEnds
<1>10. CASE OutsiderDeploys
  BY <1>10 DEF GateInv, OutsiderDeploys
<1> QED
  BY <1>1, <1>2, <1>3, <1>4, <1>5, <1>6, <1>7, <1>8, <1>9, <1>10
     DEF Next, Provider, Server

\* "The id can only change because this deploy created a record": where the
\* history can be read and deployments do not overlap, an open gate means that
\* the server has our deployment, whenever it commits it.
THEOREM GateCausal ==
  ASSUME HistoryMayFail = FALSE, Overlap = FALSE
  PROVE  Spec => []GateIsCausal
<1>1. Init => GateInv
  BY TypeInit DEF Init, GateInv, Waiting
<1>2. GateInv /\ [Next]_vars => GateInv'
  BY GateStep
<1>3. GateInv => GateIsCausal
  BY DEF GateInv, GateIsCausal
<1> QED
  BY <1>1, <1>2, <1>3, PTL DEF Spec
-----------------------------------------------------------------------------
(* The gate, with a server that may commit after it has answered.          *)

\* Every step preserves the invariant of a server that may commit after it has
\* answered, but not between the GETs of one poll.
LEMMA GatedStep ==
  ASSUME CommitPoint = "between_polls", HistoryMayFail = FALSE, Overlap = FALSE,
         GatedInv, [Next]_vars
  PROVE  GatedInv'
<1> USE BoundsAssumption
    DEF BoundsAssumption, server, Waiting, Applies, NoId, Statuses
<1> TypeOK /\ TypeOK'
  BY TypeStep DEF GatedInv
<1> USE DEF TypeOK
<1>1. CASE StartApply
  BY <1>1
     DEF GatedInv, FlightInv, ShutInv, OursInv, PolledInv, SuccessIsCausal,
         ErrorIsCausal, StartApply, Quiet
<1>2. CASE ReadPrior
  BY <1>2
     DEF GatedInv, FlightInv, ShutInv, Pending, InFlight, OursInv, PolledInv,
         SuccessIsCausal, ErrorIsCausal, Last, Owned, ReadPrior, NewestOrEmpty,
         Newest
<1>3. CASE SendDeploy \/ DeployAnswered \/ Tick \/ TimerFires
  BY <1>3
     DEF GatedInv, FlightInv, ShutInv, Pending, InFlight, OursInv, PolledInv,
         SuccessIsCausal, ErrorIsCausal, Last, Owned, SendDeploy,
         DeployAnswered, Tick, TimerFires
<1>4. CASE DeployFails \/ PollFails \/ Deadline \/ Cancelled
  BY <1>4
     DEF GatedInv, FlightInv, ShutInv, Pending, InFlight, OursInv, PolledInv,
         SuccessIsCausal, ErrorIsCausal, DeployFails, PollFails, Deadline,
         Cancelled, End
<1>5. CASE PollNewest
  BY <1>5
     DEF GatedInv, FlightInv, ShutInv, Pending, OursInv, PolledInv,
         SuccessIsCausal, ErrorIsCausal, Last, Owned, PollNewest, NewestOrEmpty,
         Newest, End
<1>6. CASE UNCHANGED vars
  BY <1>6
     DEF GatedInv, FlightInv, ShutInv, Pending, InFlight, OursInv, PolledInv,
         SuccessIsCausal, ErrorIsCausal, Last, Owned, vars
<1>7. ASSUME NEW a \in Applies, RequestLost(a) PROVE GatedInv'
  BY <1>7
     DEF GatedInv, FlightInv, ShutInv, Pending, InFlight, OursInv, PolledInv,
         SuccessIsCausal, ErrorIsCausal, Owned, RequestLost
<1>8. CASE PollStatus
  <2>1. FlightInv'
    BY <1>8 DEF GatedInv, FlightInv, PollStatus, Judge, End
  <2>2. ShutInv'
    BY <1>8 DEF GatedInv, ShutInv, Pending, InFlight, PollStatus, Judge, End
  <2>3. OursInv'
    BY <1>8 DEF GatedInv, OursInv, Last, PollStatus
  <2>4. PolledInv'
    BY <1>8
       DEF GatedInv, PolledInv, OursInv, ShutInv, Pending, Last, PollStatus,
           Judge, End
  <2>5. SuccessIsCausal'
    BY <1>8
       DEF GatedInv, SuccessIsCausal, OursInv, ShutInv, Pending, Last, Owned,
           PollStatus, Judge
  <2>6. ErrorIsCausal'
    BY <1>8
       DEF GatedInv, ErrorIsCausal, OursInv, ShutInv, Pending, Last, Owned,
           PollStatus, Judge, End
  <2> QED
    BY <2>1, <2>2, <2>3, <2>4, <2>5, <2>6 DEF GatedInv
<1>9. CASE PollGate
  <2>1. FlightInv'
    BY <1>9 DEF GatedInv, FlightInv, PollGate, Judge, End
  <2>2. ShutInv'
    BY <1>9
       DEF GatedInv, ShutInv, Pending, InFlight, PollGate, Judge, End,
           GateOpens, Newest
  <2>3. OursInv'
    BY <1>9 DEF GatedInv, OursInv, Last, PollGate
  <2>4. PolledInv'
    BY <1>9
       DEF GatedInv, PolledInv, ShutInv, Pending, Last, PollGate, Judge, End,
           GateOpens, Newest
  <2>5. SuccessIsCausal'
    BY <1>9
       DEF GatedInv, SuccessIsCausal, OursInv, PolledInv, ShutInv, Pending,
           Last, Owned, PollGate, Judge, GateOpens, Newest
  <2>6. ErrorIsCausal'
    BY <1>9
       DEF GatedInv, ErrorIsCausal, OursInv, PolledInv, ShutInv, Pending, Last,
           Owned, PollGate, Judge, End, GateOpens, Newest
  <2> QED
    BY <2>1, <2>2, <2>3, <2>4, <2>5, <2>6 DEF GatedInv
<1>10. CASE OutsiderDeploys
  <2>a. Begin(0) /\ 0 \in 0 .. MaxApplies
    BY <1>10 DEF OutsiderDeploys, Outsider
  <2>b. /\ Len(rows') = Len(rows) + 1
        /\ rows'[Len(rows')] = [owner |-> 0, phase |-> "running"]
        /\ \A d \in 1 .. Len(rows) : rows'[d] = rows[d]
        /\ status' = "running"
    BY <2>a, BeginRows
  <2>1. FlightInv'
    BY <1>10 DEF GatedInv, FlightInv, OutsiderDeploys
  <2>2. ShutInv'
    BY <1>10, <2>b DEF ShutInv, Pending, InFlight, OutsiderDeploys, Quiet
  <2>3. OursInv'
    BY <1>10 DEF OursInv, OutsiderDeploys
  <2>4. PolledInv'
    BY <1>10 DEF PolledInv, OutsiderDeploys
  <2>5. SuccessIsCausal'
    BY <1>10, <2>b
       DEF GatedInv, SuccessIsCausal, Owned, OutsiderDeploys, Outsider
  <2>6. ErrorIsCausal'
    BY <1>10, <2>b DEF GatedInv, ErrorIsCausal, Owned, OutsiderDeploys
  <2> QED
    BY <2>1, <2>2, <2>3, <2>4, <2>5, <2>6 DEF GatedInv
<1>11. ASSUME NEW a \in Applies, ServerAccepts(a) PROVE GatedInv'
  <2>a. a = apply /\ UNCHANGED <<rows, status>>
    BY <1>11 DEF ServerAccepts, GatedInv, FlightInv
  <2>1. FlightInv'
    BY <1>11 DEF GatedInv, FlightInv, ServerAccepts
  <2>2. ShutInv'
    BY <1>11 DEF GatedInv, ShutInv, Pending, InFlight, ServerAccepts
  <2>3. OursInv'
    BY <1>11, <2>a DEF OursInv, ServerAccepts
  <2>4. PolledInv'
    BY <1>11, <2>a DEF GatedInv, PolledInv, ServerAccepts
  <2>5. SuccessIsCausal'
    BY <1>11 DEF GatedInv, SuccessIsCausal, Owned, ServerAccepts
  <2>6. ErrorIsCausal'
    BY <1>11 DEF GatedInv, ErrorIsCausal, Owned, ServerAccepts
  <2> QED
    BY <2>1, <2>2, <2>3, <2>4, <2>5, <2>6 DEF GatedInv
<1>12. ASSUME NEW a \in Applies, ServerCommits(a) PROVE GatedInv'
  <2>a. Begin(a) /\ a = apply /\ a \in 0 .. MaxApplies
    BY <1>12 DEF ServerCommits, GatedInv, FlightInv
  <2>b. /\ Len(rows') = Len(rows) + 1
        /\ rows'[Len(rows')] = [owner |-> a, phase |-> "running"]
        /\ \A d \in 1 .. Len(rows) : rows'[d] = rows[d]
        /\ status' = "running"
    BY <2>a, BeginRows
  <2>1. FlightInv'
    BY <1>12 DEF GatedInv, FlightInv, ServerCommits
  <2>2. ShutInv'
    BY <1>12, <2>a, <2>b DEF ShutInv, Pending, InFlight, ServerCommits
  <2>3. OursInv'
    BY <1>12, <2>a, <2>b
       DEF GatedInv, OursInv, Last, ServerCommits, ShutInv, Pending
  <2>4. PolledInv'
    BY <1>12 DEF PolledInv, ServerCommits
  <2>5. SuccessIsCausal'
    BY <1>12, <2>b DEF GatedInv, SuccessIsCausal, Owned, ServerCommits
  <2>6. ErrorIsCausal'
    BY <1>12, <2>b DEF GatedInv, ErrorIsCausal, Owned, ServerCommits
  <2> QED
    BY <2>1, <2>2, <2>3, <2>4, <2>5, <2>6 DEF GatedInv
<1>13. ASSUME NEW d \in 1 .. Len(rows), BuildEnds(d) PROVE GatedInv'
  <2>1. FlightInv'
    BY <1>13 DEF GatedInv, FlightInv, BuildEnds
  <2>2. ShutInv'
    BY <1>13 DEF GatedInv, ShutInv, Pending, InFlight, BuildEnds
  <2>3. OursInv'
    BY <1>13 DEF GatedInv, OursInv, Last, BuildEnds
  <2>4. PolledInv'
    BY <1>13 DEF GatedInv, PolledInv, Last, BuildEnds
  <2>5. SuccessIsCausal'
    BY <1>13 DEF GatedInv, SuccessIsCausal, Owned, BuildEnds
  <2>6. ErrorIsCausal'
    BY <1>13 DEF GatedInv, ErrorIsCausal, Owned, BuildEnds
  <2> QED
    BY <2>1, <2>2, <2>3, <2>4, <2>5, <2>6 DEF GatedInv
<1> QED
  BY <1>1, <1>2, <1>3, <1>4, <1>5, <1>6, <1>7, <1>8, <1>9, <1>10, <1>11, <1>12,
     <1>13
     DEF Next, Provider, Server

\* Nothing is deployed at first.
LEMMA GatedInit == Init => GatedInv
<1>1. Init => TypeOK
  BY TypeInit
<1> QED
  BY <1>1
     DEF Init, GatedInv, FlightInv, ShutInv, Pending, OursInv, PolledInv,
         SuccessIsCausal, ErrorIsCausal, Waiting

\* The invariant of that server.
LEMMA Gated ==
  ASSUME CommitPoint = "between_polls", HistoryMayFail = FALSE, Overlap = FALSE
  PROVE  Spec => []GatedInv
<1>1. Init => GatedInv
  BY GatedInit
<1>2. GatedInv /\ [Next]_vars => GatedInv'
  BY GatedStep
<1> QED
  BY <1>1, <1>2, PTL DEF Spec

\* With a server that runs one deployment of a service at a time, and commits it
\* before it answers the POST, or before the next poll and can then be read,
\* deployAndWait never takes a success from an earlier deployment, for any
\* number of applies.
THEOREM SuccessCausal ==
  ASSUME CausalServer
  PROVE  Spec => []SuccessIsCausal
<1>1. CASE CommitPoint = "before_response"
  <2>1. MeasuredInv => SuccessIsCausal
    BY DEF MeasuredInv
  <2>2. Spec => []MeasuredInv
    BY <1>1, Measured DEF CausalServer
  <2> QED
    BY <2>1, <2>2, PTL
<1>2. CASE CommitPoint = "between_polls" /\ HistoryMayFail = FALSE
  <2>1. GatedInv => SuccessIsCausal
    BY DEF GatedInv
  <2>2. Spec => []GatedInv
    BY <1>2, Gated DEF CausalServer
  <2> QED
    BY <2>1, <2>2, PTL
<1> QED
  BY <1>1, <1>2 DEF CausalServer

\* With the same server, an error is reported for a failure of our deployment
\* only, and the diagnostic names that deployment.
THEOREM ErrorCausal ==
  ASSUME CausalServer
  PROVE  Spec => []ErrorIsCausal
<1>1. CASE CommitPoint = "before_response"
  <2>1. MeasuredInv => ErrorIsCausal
    BY DEF MeasuredInv
  <2>2. Spec => []MeasuredInv
    BY <1>1, Measured DEF CausalServer
  <2> QED
    BY <2>1, <2>2, PTL
<1>2. CASE CommitPoint = "between_polls" /\ HistoryMayFail = FALSE
  <2>1. GatedInv => ErrorIsCausal
    BY DEF GatedInv
  <2>2. Spec => []GatedInv
    BY <1>2, Gated DEF CausalServer
  <2> QED
    BY <2>1, <2>2, PTL
<1> QED
  BY <1>1, <1>2 DEF CausalServer

-----------------------------------------------------------------------------
(* DeployWait implements Deployment. *)

\* A deployment that begins belongs to its owner, and to nobody else.
LEMMA BeginOwns ==
  ASSUME TypeOK, NEW owner \in 0 .. MaxApplies, Begin(owner)
  PROVE  /\ Owned(owner)' = Owned(owner) \cup {Len(rows) + 1}
         /\ \A b \in Applies : b # owner => Owned(b)' = Owned(b)
<1>0. /\ Len(rows') = Len(rows) + 1
      /\ rows'[Len(rows')] = [owner |-> owner, phase |-> "running"]
      /\ \A d \in 1 .. Len(rows) : rows'[d] = rows[d]
  BY BeginRows, Zenon
<1>1. /\ Len(rows') = Len(rows) + 1
      /\ rows'[Len(rows) + 1].owner = owner
      /\ \A d \in 1 .. Len(rows) : rows'[d] = rows[d]
  BY <1>0
<1>2. Len(rows) \in Nat
  BY DEF TypeOK
<1>3. 1 .. Len(rows') = 1 .. Len(rows) \cup {Len(rows) + 1}
  BY <1>1, <1>2
<1> QED
  BY <1>1, <1>2, <1>3 DEF Owned

\* A build that ends changes no owner.
LEMMA BuildOwns ==
  ASSUME TypeOK, NEW d \in 1 .. Len(rows), BuildEnds(d)
  PROVE  \A b \in Applies : Owned(b)' = Owned(b)
<1>1. Len(rows') = Len(rows) /\ \A e \in 1 .. Len(rows) : rows'[e].owner = rows[e].owner
  BY BuildRows
<1> QED
  BY <1>1 DEF Owned

\* The server commits the deployment of an apply, with the answer or later.
Commits(a) ==
  \/ ServerAccepts(a) /\ CommitPoint = "before_response"
  \/ ServerCommits(a)

\* It does so once, and adds the one row.
LEMMA CommitsOnce ==
  ASSUME TypeOK, NEW a \in Applies, Commits(a)
  PROVE  /\ Len(rows') = Len(rows) + 1
         /\ rows'[Len(rows) + 1] = [owner |-> a, phase |-> "running"]
         /\ \A d \in 1 .. Len(rows) : rows'[d] = rows[d]
         /\ Owned(a)' = Owned(a) \cup {Len(rows) + 1}
         /\ \A b \in Applies : b # a => Owned(b)' = Owned(b)
         /\ request[a] \in {"sent", "accepted"}
         /\ request' = [request EXCEPT ![a] = "committed"]
         /\ UNCHANGED <<pc, apply, result, named>>
<1>1. Begin(a)
  BY DEF Commits, ServerAccepts, ServerCommits
<1>2. a \in 0 .. MaxApplies
  BY BoundsAssumption DEF BoundsAssumption, Applies
<1>3. /\ Len(rows') = Len(rows) + 1
      /\ rows'[Len(rows')] = [owner |-> a, phase |-> "running"]
      /\ \A d \in 1 .. Len(rows) : rows'[d] = rows[d]
  BY <1>1, <1>2, BeginRows, Zenon
<1>4. /\ Owned(a)' = Owned(a) \cup {Len(rows) + 1}
      /\ \A b \in Applies : b # a => Owned(b)' = Owned(b)
  BY <1>1, <1>2, BeginOwns, Zenon
<1> QED
  BY <1>3, <1>4 DEF Commits, ServerAccepts, ServerCommits

\* Every step keeps the books: a deployment has one row at most, and a wait that
\* has ended has a result.  The server may promise anything.
LEMMA BookStep ==
  ASSUME BookInv, [Next]_vars
  PROVE  BookInv'
<1> USE BoundsAssumption DEF BoundsAssumption, server, Waiting, Applies, NoId, Outsider
<1>0. TypeOK /\ TypeOK'
  BY TypeStep DEF BookInv
<1> USE <1>0 DEF TypeOK
<1>1. CASE StartApply
  BY <1>1 DEF StartApply, BookInv, RowsInv, ResultInv, Owned
<1>2. CASE ReadPrior \/ SendDeploy \/ DeployAnswered \/ Tick \/ TimerFires
  BY <1>2
     DEF ReadPrior, SendDeploy, DeployAnswered, Tick, TimerFires, BookInv,
         RowsInv, ResultInv, Owned
<1>3. CASE DeployFails \/ PollFails \/ PollNewest \/ Deadline \/ Cancelled
  BY <1>3
     DEF DeployFails, PollFails, PollNewest, Deadline, Cancelled, End, BookInv,
         RowsInv, ResultInv, Owned
<1>4. CASE PollStatus \/ PollGate
  BY <1>4
     DEF PollStatus, PollGate, Judge, End, BookInv, RowsInv, ResultInv, Owned
<1>5. ASSUME NEW a \in Applies, Commits(a) PROVE BookInv'
  <2>1. /\ Len(rows') = Len(rows) + 1
        /\ rows'[Len(rows) + 1] = [owner |-> a, phase |-> "running"]
        /\ \A d \in 1 .. Len(rows) : rows'[d] = rows[d]
    BY <1>5, CommitsOnce
  <2>2. /\ request[a] \in {"sent", "accepted"}
        /\ request' = [request EXCEPT ![a] = "committed"]
        /\ UNCHANGED <<pc, apply, result, named>>
        /\ \A b \in Applies : b # a => Owned(b)' = Owned(b)
    BY <1>5, CommitsOnce
  <2>3. /\ Owned(a) = {}
        /\ Len(rows) \in Nat /\ \A d \in 1 .. Len(rows) : rows[d] \in RowType
    BY <2>2 DEF BookInv, RowsInv
  <2>5. \A b \in Applies : request'[b] # "committed" => Owned(b)' = {}
    BY <2>2 DEF BookInv, RowsInv
  <2>6. \A d, e \in 1 .. Len(rows') :
          (rows'[d].owner = rows'[e].owner /\ rows'[d].owner # 0) => d = e
    <3>1. \A d \in 1 .. Len(rows') : d = Len(rows) + 1 \/ d \in 1 .. Len(rows)
      BY <2>1
    <3>2. /\ rows'[Len(rows) + 1].owner = a
          /\ \A d \in 1 .. Len(rows) : rows[d].owner # a
      BY <2>1, <2>3 DEF Owned
    <3>3. \A d, e \in 1 .. Len(rows) :
            (rows[d].owner = rows[e].owner /\ rows[d].owner # 0) => d = e
      BY DEF BookInv, RowsInv
    <3>4. \A d, e \in 1 .. Len(rows) :
            (rows'[d].owner = rows'[e].owner /\ rows'[d].owner # 0) => d = e
      BY <2>1, <3>3
    <3>5. \A d \in 1 .. Len(rows) : rows'[d].owner # a
      BY <2>1, <3>2
    <3> HIDE DEF TypeOK, server, Waiting, Applies, NoId, Outsider, BoundsAssumption
    <3> QED
      BY <3>1, <3>2, <3>4, <3>5
  <2>7. (pc' \in {"prior", "send"} => request'[apply'] = "none")
          /\ \A b \in Applies : b > apply' => request'[b] = "none"
    BY <2>2 DEF BookInv, RowsInv
  <2> QED
    BY <2>2, <2>6 DEF BookInv, RowsInv, ResultInv
<1>6. ASSUME NEW a \in Applies,
             (ServerAccepts(a) /\ CommitPoint # "before_response") \/ RequestLost(a)
      PROVE  BookInv'
  BY <1>6 DEF ServerAccepts, RequestLost, BookInv, RowsInv, ResultInv, Owned
<1>7. ASSUME NEW d \in 1 .. Len(rows), BuildEnds(d) PROVE BookInv'
  <2>1. Len(rows') = Len(rows) /\ \A e \in 1 .. Len(rows) : rows'[e].owner = rows[e].owner
    BY <1>7, BuildRows
  <2>2. \A a \in Applies : Owned(a)' = Owned(a)
    BY <1>7, BuildOwns
  <2> QED
    BY <1>7, <2>2 DEF BuildEnds, BookInv, RowsInv, ResultInv
<1>8. CASE OutsiderDeploys
  <2>1. Begin(0) /\ 0 \in 0 .. MaxApplies
    BY <1>8 DEF OutsiderDeploys
  <2>2. /\ Len(rows') = Len(rows) + 1
        /\ rows'[Len(rows')] = [owner |-> 0, phase |-> "running"]
        /\ \A d \in 1 .. Len(rows) : rows'[d] = rows[d]
    BY <2>1, BeginRows
  <2>3. (\A b \in Applies : Owned(b)' = Owned(b)) /\ Len(rows) \in Nat
    BY <2>1, BeginOwns
  <2>4. \A d, e \in 1 .. Len(rows') :
          (rows'[d].owner = rows'[e].owner /\ rows'[d].owner # 0) => d = e
    <3>1. \A d \in 1 .. Len(rows') : d = Len(rows) + 1 \/ d \in 1 .. Len(rows)
      BY <2>2
    <3>2. rows'[Len(rows) + 1].owner = 0
      BY <2>2
    <3> QED
      BY <2>2, <3>1, <3>2 DEF BookInv, RowsInv
  <2> QED
    BY <1>8, <2>3, <2>4 DEF OutsiderDeploys, BookInv, RowsInv, ResultInv
<1>9. CASE UNCHANGED vars
  BY <1>9 DEF vars, BookInv, RowsInv, ResultInv, Owned
<1>10. ASSUME NEW a \in Applies, ServerAccepts(a) \/ ServerCommits(a) \/ RequestLost(a)
       PROVE  BookInv'
  BY <1>5, <1>6, <1>10 DEF Commits
<1> QED
  BY <1>1, <1>2, <1>3, <1>4, <1>7, <1>8, <1>9, <1>10 DEF Next, Provider, Server

LEMMA BookInit == Init => BookInv
<1>1. Init => TypeOK
  BY TypeInit
<1> QED
  BY <1>1 DEF Init, BookInv, RowsInv, ResultInv, Owned

\* What the history says of a deployment is what its one row says.
LEMMA OneRow ==
  ASSUME BookInv, NEW a \in Applies, NEW d \in Owned(a)
  PROVE  Outcome(a) = rows[d].phase
BY DEF Outcome, Owned, BookInv, RowsInv, Applies, Outsider

OutcomeMap == [a \in Applies |-> Outcome(a)]

\* A step that leaves the rows alone leaves every outcome alone.
LEMMA SameOutcomes ==
  ASSUME UNCHANGED rows
  PROVE  OutcomeMap' = OutcomeMap
BY DEF OutcomeMap, Outcome, Owned

\* Every step that tells the truth is a step of Deployment or a stutter.
LEMMA StepImplements ==
  ASSUME BookInv, BookInv', SuccessIsCausal', ErrorIsCausal', [Next]_vars
  PROVE  [Abstract!Next]_(Abstract!vars)
<1> USE BoundsAssumption DEF BoundsAssumption, server, Waiting, NoId
<1>0. TypeOK /\ TypeOK'
  BY DEF BookInv
<1> USE <1>0 DEF TypeOK
<1>1. ASSUME UNCHANGED <<rows, apply, result, named>>
      PROVE  UNCHANGED Abstract!vars
  BY <1>1, SameOutcomes DEF Abstract!vars, OutcomeMap, Verdict
<1>2. CASE StartApply
  <2>1. /\ pc \in {"idle", "ended"} /\ apply' = apply + 1 /\ apply' \in Applies
        /\ result' = "none" /\ named' = 0 /\ UNCHANGED rows
    BY <1>2 DEF StartApply
  <2>2. Verdict' = "none" /\ OutcomeMap' = OutcomeMap
    BY <2>1, SameOutcomes DEF Verdict
  <2>3. 1 .. apply # {} => Verdict # "none"
    BY <2>1 DEF BookInv, ResultInv, Verdict
  <2>4. apply' \notin 1 .. apply /\ (1 .. apply)' = (1 .. apply) \cup {apply'}
    BY <2>1
  <2>5. Abstract!Ask(apply')
    BY <2>2, <2>3, <2>4 DEF Abstract!Ask, OutcomeMap
  <2> QED
    BY <2>1, <2>5 DEF Abstract!Next
<1>3. CASE ReadPrior \/ SendDeploy \/ DeployAnswered \/ Tick \/ TimerFires \/ UNCHANGED vars
  BY <1>1, <1>3
     DEF ReadPrior, SendDeploy, DeployAnswered, Tick, TimerFires, vars
<1>4. ASSUME pc # "ended", pc # "idle", result' # "none", UNCHANGED <<rows, apply>>
      PROVE  Abstract!Next
  <2>1. Verdict = "none" /\ 1 .. apply # {} /\ apply \in Applies
    BY <1>4 DEF BookInv, ResultInv, Verdict
  <2>2. OutcomeMap' = OutcomeMap
    BY <1>4, SameOutcomes
  <2>3. Verdict' \in {"success", "failure", "unknown"}
    BY <1>4 DEF Verdict
  <2>4. Verdict' = "success" => OutcomeMap[apply] = "done"
    <3> SUFFICES ASSUME Verdict' = "success" PROVE OutcomeMap[apply] = "done"
      OBVIOUS
    <3>1. result' = "success"
      BY DEF Verdict
    <3>2. PICK d \in Owned(apply) : rows[d].phase = "done"
      BY <1>4, <3>1 DEF SuccessIsCausal, Owned
    <3> QED
      BY <2>1, <3>2, OneRow DEF OutcomeMap
  <2>5. Verdict' = "failure" => OutcomeMap[apply] = "error"
    <3> SUFFICES ASSUME Verdict' = "failure" PROVE OutcomeMap[apply] = "error"
      OBVIOUS
    <3>1. named' # 0
      BY DEF Verdict
    <3>2. named' \in Owned(apply) /\ rows[named'].phase = "error"
      BY <1>4, <3>1 DEF ErrorIsCausal, Owned
    <3> QED
      BY <2>1, <3>2, OneRow DEF OutcomeMap
  <2>6. Abstract!Tell(Verdict')
    BY <1>4, <2>1, <2>2, <2>4, <2>5 DEF Abstract!Tell, OutcomeMap
  <2> QED
    BY <2>3, <2>6 DEF Abstract!Next
<1>5. CASE DeployFails \/ PollFails \/ PollNewest \/ Deadline \/ Cancelled
  BY <1>4, <1>5 DEF DeployFails, PollFails, PollNewest, Deadline, Cancelled, End
<1>6. CASE PollStatus \/ PollGate
  <2>1. pc \notin {"idle", "ended"} /\ UNCHANGED <<rows, apply>>
    BY <1>6 DEF PollStatus, PollGate
  <2>2. CASE result' # "none"
    BY <1>4, <2>1, <2>2
  <2>3. CASE result' = "none"
    <3>1. UNCHANGED <<result, named>>
      BY <1>6, <2>3 DEF PollStatus, PollGate, Judge, End
    <3> QED
      BY <1>1, <2>1, <3>1
  <2> QED
    BY <2>2, <2>3
<1>7. ASSUME NEW a \in Applies, Commits(a) PROVE Abstract!Next
  <2>1. /\ rows'[Len(rows) + 1] = [owner |-> a, phase |-> "running"]
        /\ \A d \in 1 .. Len(rows) : rows'[d] = rows[d]
        /\ Owned(a)' = Owned(a) \cup {Len(rows) + 1}
        /\ \A b \in Applies : b # a => Owned(b)' = Owned(b)
        /\ request[a] \in {"sent", "accepted"}
        /\ UNCHANGED <<apply, result, named>>
    BY <1>7, CommitsOnce
  <2>2. a \in 1 .. apply /\ Owned(a) = {}
    BY <2>1 DEF BookInv, RowsInv, Applies
  <2>3. Outcome(a) = "none"
    BY <2>2 DEF Outcome
  <2>4. Owned(a)' = {Len(rows) + 1}
    BY <2>1, <2>2
  <2>5. Outcome(a)' = "running"
    BY <2>1, <2>4 DEF Outcome
  <2>6. ASSUME NEW b \in Applies, b # a PROVE Outcome(b)' = Outcome(b)
    <3>1. Owned(b)' = Owned(b) /\ \A d \in Owned(b) : rows'[d] = rows[d]
      BY <2>1, <2>6 DEF Owned
    <3> QED
      BY <3>1 DEF Outcome
  <2>7. OutcomeMap' = [OutcomeMap EXCEPT ![a] = "running"]
    BY <2>5, <2>6 DEF OutcomeMap
  <2>8. Verdict' = Verdict
    BY <2>1 DEF Verdict
  <2>9. Abstract!Begin(a)
    BY <2>1, <2>2, <2>3, <2>7, <2>8 DEF Abstract!Begin, OutcomeMap
  <2> QED
    BY <2>9 DEF Abstract!Next
<1>8. ASSUME NEW a \in Applies,
             (ServerAccepts(a) /\ CommitPoint # "before_response") \/ RequestLost(a)
      PROVE  UNCHANGED Abstract!vars
  BY <1>1, <1>8 DEF ServerAccepts, RequestLost
<1>9. ASSUME NEW d \in 1 .. Len(rows), BuildEnds(d)
      PROVE  [Abstract!Next]_(Abstract!vars)
  <2>1. /\ Len(rows') = Len(rows)
        /\ rows[d].phase = "running"
        /\ \A e \in 1 .. Len(rows) : e # d => rows'[e] = rows[e]
        /\ rows'[d].owner = rows[d].owner
        /\ rows'[d].phase = status'
        /\ status' \in {"done", "error"}
        /\ UNCHANGED <<apply, result, named>>
    BY <1>9 DEF BuildEnds
  <2>2. Verdict' = Verdict
    BY <2>1 DEF Verdict
  <2>3. \A b \in Applies : Owned(b)' = Owned(b)
    BY <1>9, BuildOwns
  <2>4. ASSUME NEW b \in Applies, b # rows[d].owner PROVE Outcome(b)' = Outcome(b)
    <3>1. Owned(b)' = Owned(b) /\ \A e \in Owned(b) : rows'[e] = rows[e]
      BY <2>1, <2>4 DEF Owned
    <3> QED
      BY <3>1 DEF Outcome
  <2>5. ASSUME NEW b \in Applies, b = rows[d].owner PROVE Abstract!Next
    <3>1. d \in Owned(b) /\ d \in Owned(b)'
      BY <2>3, <2>5 DEF Owned
    <3>2. Outcome(b) = "running"
      BY <2>1, <3>1, OneRow
    <3>3. Owned(b)' = {d}
      <4>1. Owned(b) \subseteq {d}
        BY <2>5 DEF Owned, BookInv, RowsInv, Applies, Outsider
      <4> QED
        BY <2>3, <3>1, <4>1
    <3>4. Outcome(b)' = status'
      BY <2>1, <3>3 DEF Outcome
    <3>5. OutcomeMap' = [OutcomeMap EXCEPT ![b] = status']
      <4>1. \A c \in Applies : c # b => Outcome(c)' = Outcome(c)
        BY <2>4, <2>5
      <4> QED
        BY <3>4, <4>1 DEF OutcomeMap
    <3>6. Abstract!End(b, status')
      BY <2>1, <2>2, <3>2, <3>5 DEF Abstract!End, OutcomeMap
    <3> QED
      BY <2>1, <3>6 DEF Abstract!Next
  <2>6. CASE rows[d].owner \notin Applies
    <3>1. OutcomeMap' = OutcomeMap
      BY <2>4, <2>6 DEF OutcomeMap
    <3> QED
      BY <2>1, <2>2, <3>1 DEF Abstract!vars, OutcomeMap
  <2> QED
    BY <2>5, <2>6
<1>10. CASE OutsiderDeploys
  <2>1. Begin(0) /\ 0 \in 0 .. MaxApplies /\ UNCHANGED <<apply, result, named>>
    BY <1>10 DEF OutsiderDeploys, Outsider
  <2>2. /\ Len(rows') = Len(rows) + 1
        /\ rows'[Len(rows')] = [owner |-> 0, phase |-> "running"]
        /\ \A d \in 1 .. Len(rows) : rows'[d] = rows[d]
    BY <2>1, BeginRows
  <2>3. ASSUME NEW b \in Applies PROVE Outcome(b)' = Outcome(b)
    <3>1. Owned(b)' = Owned(b) /\ \A d \in Owned(b) : rows'[d] = rows[d]
      BY <2>2, BeginOwns DEF Owned, Applies
    <3> QED
      BY <3>1 DEF Outcome
  <2>4. OutcomeMap' = OutcomeMap
    BY <2>3 DEF OutcomeMap
  <2> QED
    BY <2>1, <2>4 DEF Abstract!vars, OutcomeMap, Verdict
<1>11. ASSUME NEW a \in Applies, ServerAccepts(a) \/ ServerCommits(a) \/ RequestLost(a)
       PROVE  [Abstract!Next]_(Abstract!vars)
  BY <1>7, <1>8, <1>11 DEF Commits
<1> QED
  BY <1>2, <1>3, <1>5, <1>6, <1>9, <1>10, <1>11 DEF Next, Provider, Server

\* Nothing is asked of the server at first.
LEMMA InitImplements == Init => Abstract!Init
<1> SUFFICES ASSUME Init PROVE Abstract!Init
  OBVIOUS
<1>1. 1 .. apply = {}
  BY DEF Init
<1>2. \A a \in Applies : Outcome(a) = "none"
  BY DEF Init, Outcome, Owned
<1>3. Verdict = "none"
  BY DEF Init, Verdict, NoId
<1> QED
  BY <1>1, <1>2, <1>3 DEF Init, Abstract!Init

\* With the server of SuccessCausal, deployAndWait implements Deployment: what
\* the caller is told is true of the one deployment it asked for, through any
\* number of applies, foreign deployments, late commits and lost requests.
THEOREM Implements ==
  ASSUME CausalServer
  PROVE  Spec => ImplementsDeployment
<1>1. BookInv /\ [Next]_vars => BookInv'
  BY BookStep
<1>2. Spec => []SuccessIsCausal /\ []ErrorIsCausal
  BY SuccessCausal, ErrorCausal
<1>3. BookInv /\ BookInv' /\ SuccessIsCausal' /\ ErrorIsCausal' /\ [Next]_vars
        => [Abstract!Next]_(Abstract!vars)
  BY StepImplements
<1> QED
  BY <1>1, <1>2, <1>3, BookInit, InitImplements, PTL
     DEF Spec, ImplementsDeployment, Abstract!Spec
=============================================================================
