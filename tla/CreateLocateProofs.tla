------------------------- MODULE CreateLocateProofs -------------------------
(* What CreateLocate guarantees, proved for any threads, processes, scopes *)
(* and request contents, and any number of foreign records.                *)
EXTENDS CreateLocateInv, FiniteSetTheorems, TLAPS

\* A record that is made is appended; the older ones keep their place.
LEMMA MakeLedger ==
  ASSUME TypeOK, NEW o \in Threads \cup {Foreign}, NEW s \in Scopes,
         NEW c \in Contents, Make(o, s, c)
  PROVE  /\ ledger' \in Seq(RecordType)
         /\ Len(ledger') = Len(ledger) + 1
         /\ ledger'[Len(ledger) + 1] = [owner |-> o, scope |-> s, content |-> c]
         /\ \A i \in 1 .. Len(ledger) : ledger'[i] = ledger[i]
         /\ alive' = alive \cup {Len(ledger) + 1}
         /\ Ids' = Ids \cup {Len(ledger) + 1}
<1>1. [owner |-> o, scope |-> s, content |-> c] \in RecordType
  BY DEF RecordType
<1> QED
  BY <1>1 DEF Make, TypeOK, Ids

\* Taking or releasing a lock keeps the type of the lock maps (lockParent).
LEMMA SetLockType ==
  ASSUME TypeOK, NEW t \in Threads, NEW h \in Threads \cup {NoThread},
         SetLock(t, h)
  PROVE  lock' \in [Processes -> [Scopes -> Threads \cup {NoThread}]]
BY ThreadsAssumption DEF TypeOK, SetLock, ThreadsAssumption

\* The variables start with their types: nothing listed, nothing locked.
LEMMA TypeInit == Init => TypeOK
<1> SUFFICES ASSUME Init PROVE TypeOK
  OBVIOUS
<1>1. ledger \in Seq(RecordType) /\ alive \subseteq Ids
  BY DEF Init
<1>2. lock \in [Processes -> [Scopes -> Threads \cup {NoThread}]]
  BY DEF Init
<1>3. pc \in [Threads -> PCs] /\ result \in [Threads -> Results]
  BY DEF Init, PCs, Results
<1>4. /\ request \in [Threads -> {"none", "sent", "done"}]
      /\ before \in [Threads -> SUBSET Ids]
      /\ bound \in [Threads -> Ids \cup {NoRecord}]
  BY DEF Init
<1> QED
  BY <1>1, <1>2, <1>3, <1>4 DEF TypeOK

\* Every step preserves the types.
LEMMA TypeStep == TypeOK /\ [Next]_vars => TypeOK'
<1> USE ThreadsAssumption DEF ThreadsAssumption
<1> SUFFICES ASSUME TypeOK, [Next]_vars
             PROVE  TypeOK'
  OBVIOUS
<1>1. ASSUME NEW t \in Threads, Acquire(t) PROVE TypeOK'
  <2>1. lock' \in [Processes -> [Scopes -> Threads \cup {NoThread}]]
    BY <1>1, SetLockType DEF Acquire
  <2> QED
    BY <1>1, <2>1 DEF TypeOK, Acquire, PCs, Ids
<1>2. ASSUME NEW t \in Threads, ListBefore(t) PROVE TypeOK'
  BY <1>2 DEF TypeOK, ListBefore, List, PCs, Ids
<1>3. ASSUME NEW t \in Threads, SendCreate(t) PROVE TypeOK'
  BY <1>3 DEF TypeOK, SendCreate, PCs, Ids
<1>4. ASSUME NEW t \in Threads, CreateAnswered(t) PROVE TypeOK'
  BY <1>4 DEF TypeOK, CreateAnswered, PCs, Ids
<1>5. ASSUME NEW t \in Threads, NEW how \in Results,
             NEW id \in Ids \cup {NoRecord}, Return(t, how, id),
             UNCHANGED <<ledger, alive, request, before>>
      PROVE  TypeOK'
  <2>1. lock' \in [Processes -> [Scopes -> Threads \cup {NoThread}]]
    BY <1>5, SetLockType DEF Return
  <2> QED
    BY <1>5, <2>1 DEF TypeOK, Return, PCs, Ids
<1>6. ASSUME NEW t \in Threads, CallFails(t) PROVE TypeOK'
  BY <1>5, <1>6 DEF CallFails, Results
<1>7. ASSUME NEW t \in Threads, ListAfter(t) PROVE TypeOK'
  <2>1. Located(t) \subseteq Ids
    BY DEF Located, Matching, Fresh, List, TypeOK
  <2> QED
    BY <1>5, <1>7, <2>1 DEF ListAfter, Results
<1>8. ASSUME NEW t \in Threads, ServerCreates(t) PROVE TypeOK'
  <2>1. Make(t, ScopeOf[t], ContentOf[t])
    BY <1>8 DEF ServerCreates
  <2>2. ContentOf[t] \in Contents /\ ScopeOf[t] \in Scopes
    BY DEF Contents
  <2>3. /\ ledger' \in Seq(RecordType)
        /\ alive' = alive \cup {Len(ledger) + 1}
        /\ Ids' = Ids \cup {Len(ledger) + 1}
    BY <2>1, <2>2, MakeLedger
  <2> QED
    BY <1>8, <2>3 DEF TypeOK, ServerCreates
<1>9. ASSUME NEW s \in Scopes, NEW c \in Contents, ForeignCreate(s, c)
      PROVE  TypeOK'
  <2>1. /\ ledger' \in Seq(RecordType)
        /\ alive' = alive \cup {Len(ledger) + 1}
        /\ Ids' = Ids \cup {Len(ledger) + 1}
    BY <1>9, MakeLedger DEF ForeignCreate
  <2> QED
    BY <1>9, <2>1 DEF TypeOK, ForeignCreate
<1>10. ASSUME NEW i \in alive, ForeignDelete(i) PROVE TypeOK'
  BY <1>10 DEF TypeOK, ForeignDelete, Ids
<1>11. CASE UNCHANGED vars
  BY <1>11 DEF TypeOK, vars, Ids
<1> QED
  BY <1>1, <1>2, <1>3, <1>4, <1>6, <1>7, <1>8, <1>9, <1>10, <1>11
     DEF Next, Thread, Outside

\* The type invariant of CreateLocate.
THEOREM TypeCorrect == Spec => []TypeOK
<1>1. Init => TypeOK
  BY TypeInit
<1>2. TypeOK /\ [Next]_vars => TypeOK'
  BY TypeStep
<1> QED
  BY <1>1, <1>2, PTL DEF Spec

-----------------------------------------------------------------------------
(* The lock. *)

\* Taking or releasing one lock leaves every other one alone.
LEMMA SetLockEffect ==
  ASSUME TypeOK, NEW t \in Threads, NEW h, SetLock(t, h)
  PROVE  \A u \in Threads :
           LockOf(u)' = IF ProcessOf[u] = ProcessOf[t] /\ ScopeOf[u] = ScopeOf[t]
                          THEN h ELSE LockOf(u)
BY ThreadsAssumption DEF TypeOK, SetLock, LockOf, ThreadsAssumption

\* Every step preserves that a thread in its window holds its lock.
LEMMA LockStep ==
  ASSUME TypeOK, LockInv, [Next]_vars
  PROVE  LockInv'
<1> USE ThreadsAssumption DEF ThreadsAssumption, InWindow
<1>1. ASSUME NEW t \in Threads, Acquire(t) PROVE LockInv'
  <2>1. \A u \in Threads :
          LockOf(u)' = IF ProcessOf[u] = ProcessOf[t] /\ ScopeOf[u] = ScopeOf[t]
                         THEN t ELSE LockOf(u)
    BY <1>1, SetLockEffect DEF Acquire
  <2>2. \A u \in Threads :
          (ProcessOf[u] = ProcessOf[t] /\ ScopeOf[u] = ScopeOf[t])
            => LockOf(u) = NoThread
    BY <1>1 DEF Acquire, LockOf
  <2> QED
    BY <1>1, <2>1, <2>2 DEF LockInv, Acquire, TypeOK
<1>2. ASSUME NEW t \in Threads, NEW how, NEW id, Return(t, how, id), InWindow(t)
      PROVE  LockInv'
  <2>1. \A u \in Threads :
          LockOf(u)' = IF ProcessOf[u] = ProcessOf[t] /\ ScopeOf[u] = ScopeOf[t]
                         THEN NoThread ELSE LockOf(u)
    BY <1>2, SetLockEffect DEF Return
  <2>2. \A u \in Threads :
          (ProcessOf[u] = ProcessOf[t] /\ ScopeOf[u] = ScopeOf[t])
            => LockOf(u) = t
    BY <1>2 DEF LockInv, LockOf
  <2> QED
    BY <1>2, <2>1, <2>2 DEF LockInv, Return, TypeOK
<1>3. ASSUME NEW t \in Threads, CallFails(t) \/ ListAfter(t) PROVE LockInv'
  BY <1>2, <1>3 DEF CallFails, ListAfter
<1>4. ASSUME NEW t \in Threads,
             ListBefore(t) \/ SendCreate(t) \/ CreateAnswered(t)
      PROVE  LockInv'
  BY <1>4 DEF LockInv, LockOf, TypeOK, ListBefore, SendCreate, CreateAnswered
<1>5. CASE Outside \/ UNCHANGED vars
  BY <1>5 DEF LockInv, LockOf, Outside, ServerCreates, ForeignCreate,
              ForeignDelete, vars
<1> QED
  BY <1>1, <1>3, <1>4, <1>5 DEF Next, Thread

\* Within one process the windows of one scope never overlap: every path of
\* createAndLocate and locateCreated that takes the lock gives it back.
THEOREM Exclusion == Spec => []MutualExclusion
<1>1. Init => LockInv
  BY ThreadsAssumption DEF Init, LockInv, LockOf, InWindow, ThreadsAssumption
<1>2. TypeOK /\ LockInv /\ [Next]_vars => LockInv'
  BY LockStep
<1>3. LockInv => MutualExclusion
  BY DEF LockInv, LockOf, MutualExclusion
<1> QED
  BY <1>1, <1>2, <1>3, TypeCorrect, PTL DEF Spec

\* A lock is taken by who waited for it, and given back by who held it.
LEMMA HeldStep ==
  ASSUME TypeOK, LockInv, NoLockLeft, [Next]_vars
  PROVE  NoLockLeft'
<1> USE ThreadsAssumption DEF ThreadsAssumption, InWindow
<1>0. ASSUME NEW t \in Threads, NEW h, SetLock(t, h),
             NEW p \in Processes, NEW s \in Scopes
      PROVE  lock'[p][s] = IF p = ProcessOf[t] /\ s = ScopeOf[t]
                             THEN h ELSE lock[p][s]
  BY <1>0 DEF TypeOK, SetLock
<1>1. ASSUME NEW t \in Threads, Acquire(t) PROVE NoLockLeft'
  <2>1. SetLock(t, t) /\ LockOf(t) = NoThread
    BY <1>1 DEF Acquire
  <2>2. \A u \in Threads : InWindow(u) => InWindow(u)'
    BY <1>1 DEF Acquire, TypeOK
  <2>3. InWindow(t)'
    BY <1>1 DEF Acquire, TypeOK
  <2> QED
    BY <1>0, <2>1, <2>2, <2>3 DEF NoLockLeft
<1>2. ASSUME NEW t \in Threads, NEW how, NEW id, Return(t, how, id), InWindow(t)
      PROVE  NoLockLeft'
  <2>1. SetLock(t, NoThread) /\ LockOf(t) = t
    BY <1>2 DEF Return, LockInv
  <2>2. \A u \in Threads : u # t => (InWindow(u)' <=> InWindow(u))
    BY <1>2 DEF Return, TypeOK
  <2> QED
    BY <1>0, <2>1, <2>2 DEF NoLockLeft, LockOf
<1>3. ASSUME NEW t \in Threads, CallFails(t) \/ ListAfter(t) PROVE NoLockLeft'
  BY <1>2, <1>3 DEF CallFails, ListAfter
<1>4. ASSUME NEW t \in Threads,
             ListBefore(t) \/ SendCreate(t) \/ CreateAnswered(t)
      PROVE  NoLockLeft'
  <2>1. lock' = lock
    BY <1>4 DEF ListBefore, SendCreate, CreateAnswered
  <2>2. \A u \in Threads : InWindow(u) => InWindow(u)'
    BY <1>4 DEF TypeOK, ListBefore, SendCreate, CreateAnswered
  <2> QED
    BY <2>1, <2>2 DEF NoLockLeft
<1>5. CASE Outside \/ UNCHANGED vars
  BY <1>5 DEF NoLockLeft, Outside, ServerCreates, ForeignCreate, ForeignDelete,
              vars
<1> QED
  BY <1>1, <1>3, <1>4, <1>5 DEF Next, Thread

\* No path leaves a lock behind, so no create waits for one that has returned,
\* and none waits for one that waits itself.
THEOREM LocksGivenBack == Spec => [](NoLockLeft /\ NobodyIsStuck)
<1>1. Init => LockInv /\ NoLockLeft
  BY ThreadsAssumption
     DEF Init, LockInv, NoLockLeft, LockOf, InWindow, ThreadsAssumption
<1>2. TypeOK /\ LockInv /\ NoLockLeft /\ [Next]_vars => (LockInv /\ NoLockLeft)'
  BY LockStep, HeldStep
<1>3. LockInv /\ NoLockLeft => NobodyIsStuck
  <2> SUFFICES ASSUME LockInv, NoLockLeft PROVE NobodyIsStuck
    OBVIOUS
  <2>1. ASSUME NEW t \in Threads, pc[t] = "start", LockOf(t) # NoThread
        PROVE  \E u \in Threads : Siblings(t, u) /\ InWindow(u) /\ LockOf(u) = u
    <3>1. PICK u \in Threads : /\ LockOf(t) = u
                               /\ ProcessOf[u] = ProcessOf[t]
                               /\ ScopeOf[u] = ScopeOf[t]
                               /\ InWindow(u)
      BY <2>1, ThreadsAssumption DEF NoLockLeft, LockOf, ThreadsAssumption
    <3> QED
      BY <2>1, <3>1 DEF Siblings, LockInv, InWindow
  <2> QED
    BY <2>1 DEF NobodyIsStuck, NoLockLeft
<1> QED
  BY <1>1, <1>2, <1>3, TypeCorrect, PTL DEF Spec

-----------------------------------------------------------------------------
(* What a call returns. *)

\* A record that is made is its owner's, and nobody else's.
LEMMA MadeEffect ==
  ASSUME TypeOK, NEW o \in Threads \cup {Foreign}, NEW s \in Scopes,
         NEW c \in Contents, Make(o, s, c)
  PROVE  /\ Made(o)' = Made(o) \cup {Len(ledger) + 1}
         /\ \A u : u # o => Made(u)' = Made(u)
<1>1. /\ Len(ledger') = Len(ledger) + 1
      /\ ledger'[Len(ledger) + 1] = [owner |-> o, scope |-> s, content |-> c]
      /\ \A i \in 1 .. Len(ledger) : ledger'[i] = ledger[i]
  BY MakeLedger
<1>2. ledger'[Len(ledger) + 1].owner = o
  BY <1>1
<1>3. Len(ledger) \in Nat
  BY DEF TypeOK
<1> QED
  BY <1>1, <1>2, <1>3 DEF Made, Ids

\* With nobody deleting, what a call locates is its own record.
LEMMA LocatedIsOwn ==
  ASSUME OwnInv, NEW t \in Threads, pc[t] = "after", NEW id \in Located(t)
  PROVE  id \in Made(t)
<1>1. PICK i \in Ids : /\ ledger[i] = [owner |-> t, scope |-> ScopeOf[t],
                                       content |-> ContentOf[t]]
                       /\ Made(t) = {i}
  BY DEF OwnInv, BaseInv, RequestInv, MadeInv, MadeOne
<1>2. i \in Fresh(t) /\ i \in Matching(t)
  BY <1>1 DEF OwnInv, BaseInv, WindowInv, NothingDeleted, Fresh, Matching, List
<1>3. IsFiniteSet(Fresh(t)) /\ IsFiniteSet(Matching(t))
  <2>1. Len(ledger) \in Nat
    BY DEF OwnInv, BaseInv, TypeOK
  <2>2. IsFiniteSet(Ids)
    BY <2>1, FS_Interval DEF Ids
  <2>3. Fresh(t) \subseteq Ids /\ Matching(t) \subseteq Ids
    BY DEF OwnInv, BaseInv, NothingDeleted, Fresh, Matching, List
  <2> QED
    BY <2>2, <2>3, FS_Subset
<1>4. CASE Cardinality(Fresh(t)) = 1
  <2>1. PICK x : Fresh(t) = {x}
    BY <1>3, <1>4, FS_Singleton
  <2> QED
    BY <1>1, <1>2, <1>4, <2>1 DEF Located
<1>5. CASE Cardinality(Fresh(t)) # 1 /\ Cardinality(Matching(t)) = 1
  <2>1. PICK x : Matching(t) = {x}
    BY <1>3, <1>5, FS_Singleton
  <2> QED
    BY <1>1, <1>2, <1>5, <2>1 DEF Located
<1> QED
  BY <1>4, <1>5 DEF Located

\* Every step preserves what holds of every call.
LEMMA BaseStep ==
  ASSUME BaseInv, [Next]_vars
  PROVE  BaseInv'
<1> USE ThreadsAssumption DEF ThreadsAssumption
<1>a. TypeOK /\ TypeOK'
  BY TypeStep DEF BaseInv
<1>b. ASSUME UNCHANGED ledger
      PROVE  /\ Ids' = Ids
             /\ \A u : Made(u)' = Made(u)
             /\ \A u \in Threads : MadeOne(u)' <=> MadeOne(u)
  BY <1>b DEF Ids, Made, MadeOne
<1>c. ASSUME UNCHANGED <<bound, result>>,
             \A t \in Threads : pc'[t] = "ended" <=> pc[t] = "ended"
      PROVE  ResultInv'
  BY <1>c DEF BaseInv, ResultInv
<1>1. ASSUME NEW t \in Threads, Acquire(t) PROVE BaseInv'
  <2>1. RequestInv' /\ UNCHANGED <<ledger, bound, result>>
    BY <1>a, <1>1 DEF BaseInv, RequestInv, TypeOK, Acquire
  <2>2. MadeInv'
    BY <1>a, <1>b, <1>1 DEF BaseInv, MadeInv, TypeOK, Acquire
  <2>3. WindowInv'
    BY <1>a, <1>b, <1>1 DEF BaseInv, RequestInv, MadeInv, WindowInv, TypeOK,
                            Acquire
  <2>4. \A u \in Threads : pc'[u] = "ended" <=> pc[u] = "ended"
    BY <1>a, <1>1 DEF TypeOK, Acquire
  <2> QED
    BY <1>a, <1>c, <2>1, <2>2, <2>3, <2>4 DEF BaseInv
<1>2. ASSUME NEW t \in Threads, ListBefore(t) PROVE BaseInv'
  <2>1. RequestInv' /\ UNCHANGED <<ledger, bound, result>>
    BY <1>a, <1>2 DEF BaseInv, RequestInv, TypeOK, ListBefore
  <2>2. MadeInv'
    BY <1>a, <1>b, <1>2 DEF BaseInv, MadeInv, TypeOK, ListBefore
  <2>3. WindowInv'
    BY <1>a, <1>b, <1>2 DEF BaseInv, RequestInv, MadeInv, WindowInv, TypeOK,
                            ListBefore
  <2>4. \A u \in Threads : pc'[u] = "ended" <=> pc[u] = "ended"
    BY <1>a, <1>2 DEF TypeOK, ListBefore
  <2> QED
    BY <1>a, <1>c, <2>1, <2>2, <2>3, <2>4 DEF BaseInv
<1>3. ASSUME NEW t \in Threads, SendCreate(t) PROVE BaseInv'
  <2>1. RequestInv' /\ UNCHANGED <<ledger, bound, result>>
    BY <1>a, <1>3 DEF BaseInv, RequestInv, TypeOK, SendCreate
  <2>2. MadeInv'
    BY <1>a, <1>b, <1>3 DEF BaseInv, RequestInv, MadeInv, TypeOK, SendCreate
  <2>3. WindowInv'
    BY <1>a, <1>b, <1>3 DEF BaseInv, RequestInv, MadeInv, WindowInv, TypeOK,
                            SendCreate
  <2>4. \A u \in Threads : pc'[u] = "ended" <=> pc[u] = "ended"
    BY <1>a, <1>3 DEF TypeOK, SendCreate
  <2> QED
    BY <1>a, <1>c, <2>1, <2>2, <2>3, <2>4 DEF BaseInv
<1>4. ASSUME NEW t \in Threads, CreateAnswered(t) PROVE BaseInv'
  <2>1. RequestInv' /\ UNCHANGED <<ledger, bound, result>>
    BY <1>a, <1>4 DEF BaseInv, RequestInv, TypeOK, CreateAnswered
  <2>2. MadeInv'
    BY <1>a, <1>b, <1>4 DEF BaseInv, MadeInv, TypeOK, CreateAnswered
  <2>3. WindowInv'
    BY <1>a, <1>b, <1>4 DEF BaseInv, RequestInv, MadeInv, WindowInv, TypeOK,
                            CreateAnswered
  <2>4. \A u \in Threads : pc'[u] = "ended" <=> pc[u] = "ended"
    BY <1>a, <1>4 DEF TypeOK, CreateAnswered
  <2> QED
    BY <1>a, <1>c, <2>1, <2>2, <2>3, <2>4 DEF BaseInv
<1>5. ASSUME NEW t \in Threads, NEW how \in Results \ {"none"}, NEW id,
             Return(t, how, id), pc[t] \in {"before", "posted", "after"},
             how # "bound" => id = NoRecord,
             UNCHANGED <<ledger, alive, request, before>>
      PROVE  BaseInv'
  <2>1. RequestInv' /\ MadeInv'
    BY <1>a, <1>b, <1>5 DEF BaseInv, RequestInv, MadeInv, TypeOK, Return
  <2>2. WindowInv'
    BY <1>a, <1>b, <1>5 DEF BaseInv, WindowInv, TypeOK, Return
  <2>3. ResultInv'
    BY <1>a, <1>5 DEF BaseInv, ResultInv, TypeOK, Return
  <2> QED
    BY <1>a, <2>1, <2>2, <2>3 DEF BaseInv
<1>6. ASSUME NEW t \in Threads, CallFails(t) \/ ListAfter(t) PROVE BaseInv'
  BY <1>5, <1>6 DEF CallFails, ListAfter, Results
<1>8. ASSUME NEW o \in Threads \cup {Foreign}, NEW s \in Scopes,
             NEW c \in Contents, Make(o, s, c), UNCHANGED <<pc, before>>
      PROVE  /\ \A u \in Threads : o # u => (MadeOne(u) => MadeOne(u)')
             /\ \A u \in Threads : o # u => Made(u)' = Made(u)
             /\ Made(o)' = Made(o) \cup {Len(ledger) + 1}
             /\ \A u \in Threads : Len(ledger) + 1 \notin before[u]
             /\ Ids' = Ids \cup {Len(ledger) + 1}
             /\ ledger'[Len(ledger) + 1] = [owner |-> o, scope |-> s, content |-> c]
  <2>1. /\ Len(ledger) \in Nat
        /\ \A i \in Ids : ledger'[i] = ledger[i]
        /\ Ids' = Ids \cup {Len(ledger) + 1}
        /\ ledger'[Len(ledger) + 1] = [owner |-> o, scope |-> s, content |-> c]
    <3>1. Len(ledger) \in Nat
      BY <1>a DEF TypeOK
    <3> QED
      BY <1>a, <1>8, <3>1, MakeLedger DEF Ids
  <2>2. /\ Made(o)' = Made(o) \cup {Len(ledger) + 1}
        /\ \A u : u # o => Made(u)' = Made(u)
    BY <1>a, <1>8, MadeEffect
  <2>3. \A u \in Threads : o # u => (MadeOne(u) => MadeOne(u)')
    BY <2>1, <2>2 DEF MadeOne
  <2>4. \A u \in Threads : Len(ledger) + 1 \notin before[u]
    BY <1>a, <2>1 DEF TypeOK, Ids
  <2> QED
    BY <2>1, <2>2, <2>3, <2>4
<1>9. ASSUME NEW t \in Threads, ServerCreates(t) PROVE BaseInv'
  <2>1. /\ Make(t, ScopeOf[t], ContentOf[t])
        /\ ContentOf[t] \in Contents /\ ScopeOf[t] \in Scopes
        /\ UNCHANGED <<pc, before, bound, result>>
    BY <1>9 DEF ServerCreates, Contents
  <2>2. RequestInv'
    BY <1>a, <1>9 DEF BaseInv, RequestInv, TypeOK, ServerCreates
  <2>3. Made(t)' = {Len(ledger) + 1}
    BY <1>8, <1>9, <2>1 DEF BaseInv, MadeInv, ServerCreates
  <2>4. MadeOne(t)'
    BY <1>8, <2>1, <2>3 DEF MadeOne
  <2>5. MadeInv'
    BY <1>a, <1>8, <1>9, <2>1, <2>4 DEF BaseInv, MadeInv, TypeOK, ServerCreates
  <2>6. WindowInv'
    BY <1>8, <2>1, <2>3 DEF BaseInv, WindowInv
  <2>7. ResultInv'
    BY <1>c, <2>1
  <2> QED
    BY <1>a, <2>2, <2>5, <2>6, <2>7 DEF BaseInv
<1>10. ASSUME NEW s \in Scopes, NEW c \in Contents, ForeignCreate(s, c)
       PROVE  BaseInv'
  <2>1. Make(Foreign, s, c) /\ UNCHANGED <<request, pc, before, bound, result>>
    BY <1>10 DEF ForeignCreate
  <2>2. /\ \A u \in Threads : Foreign # u => (MadeOne(u) => MadeOne(u)')
        /\ \A u \in Threads : Foreign # u => Made(u)' = Made(u)
    BY <1>8, <2>1
  <2>3. \A u \in Threads : (MadeOne(u) => MadeOne(u)') /\ Made(u)' = Made(u)
    BY <2>2 DEF Foreign
  <2>4. RequestInv' /\ MadeInv' /\ WindowInv'
    BY <2>1, <2>3 DEF BaseInv, RequestInv, MadeInv, WindowInv
  <2>5. ResultInv'
    BY <1>c, <2>1
  <2> QED
    BY <1>a, <2>4, <2>5 DEF BaseInv
<1>11. CASE UNCHANGED vars \/ \E i \in alive : ForeignDelete(i)
  <2>1. UNCHANGED <<ledger, request, pc, before, bound, result>>
    BY <1>11 DEF vars, ForeignDelete
  <2>2. RequestInv' /\ MadeInv' /\ WindowInv'
    BY <1>b, <2>1 DEF BaseInv, RequestInv, MadeInv, WindowInv
  <2>3. ResultInv'
    BY <1>c, <2>1
  <2> QED
    BY <1>a, <2>2, <2>3 DEF BaseInv
<1> QED
  BY <1>1, <1>2, <1>3, <1>4, <1>6, <1>9, <1>10, <1>11
     DEF Next, Thread, Outside

\* With nobody deleting, every step preserves that calls bind their own.
LEMMA OwnStep ==
  ASSUME ForeignDeletes = FALSE, OwnInv, [Next]_vars
  PROVE  OwnInv'
<1> USE ThreadsAssumption DEF ThreadsAssumption
<1>a. TypeOK /\ BaseInv /\ BaseInv'
  BY BaseStep DEF OwnInv, BaseInv
<1>b. ASSUME UNCHANGED <<ledger, alive, bound, result>>
      PROVE  OwnInv'
  BY <1>a, <1>b DEF OwnInv, NothingDeleted, BindsOwn, Ids, Made
<1>1. ASSUME NEW t \in Threads,
             Acquire(t) \/ ListBefore(t) \/ SendCreate(t) \/ CreateAnswered(t)
      PROVE  OwnInv'
  BY <1>b, <1>1 DEF Acquire, ListBefore, SendCreate, CreateAnswered
<1>2. ASSUME NEW t \in Threads, NEW how \in Results, NEW id, Return(t, how, id),
             how = "bound" => id \in Made(t),
             UNCHANGED <<ledger, alive, request, before>>
      PROVE  OwnInv'
  <2>1. NothingDeleted'
    BY <1>2 DEF OwnInv, NothingDeleted, Ids
  <2>2. BindsOwn'
    BY <1>a, <1>2 DEF OwnInv, BindsOwn, TypeOK, Return, Made, Ids
  <2> QED
    BY <1>a, <2>1, <2>2 DEF OwnInv
<1>3. ASSUME NEW t \in Threads, CallFails(t) PROVE OwnInv'
  BY <1>2, <1>3 DEF CallFails, Results
<1>4. ASSUME NEW t \in Threads, ListAfter(t) PROVE OwnInv'
  <2>1. \A id \in Located(t) : id \in Made(t)
    BY <1>4, LocatedIsOwn DEF ListAfter
  <2> QED
    BY <1>2, <1>4, <2>1 DEF ListAfter, Results
<1>5. ASSUME NEW o \in Threads \cup {Foreign}, NEW s \in Scopes,
             NEW c \in Contents, Make(o, s, c), UNCHANGED <<bound, result>>
      PROVE  OwnInv'
  <2>1. /\ alive' = alive \cup {Len(ledger) + 1}
        /\ Ids' = Ids \cup {Len(ledger) + 1}
    BY <1>a, <1>5, MakeLedger
  <2>2. /\ Made(o)' = Made(o) \cup {Len(ledger) + 1}
        /\ \A u : u # o => Made(u)' = Made(u)
    BY <1>a, <1>5, MadeEffect
  <2>3. BindsOwn'
    BY <1>5, <2>2 DEF OwnInv, BindsOwn
  <2> QED
    BY <1>a, <2>1, <2>3 DEF OwnInv, NothingDeleted
<1>6. ASSUME NEW t \in Threads, ServerCreates(t) PROVE OwnInv'
  BY <1>5, <1>6 DEF ServerCreates, Contents
<1>7. ASSUME NEW s \in Scopes, NEW c \in Contents, ForeignCreate(s, c)
      PROVE  OwnInv'
  BY <1>5, <1>7 DEF ForeignCreate
<1>8. CASE UNCHANGED vars
  BY <1>b, <1>8 DEF vars
<1> QED
  BY <1>1, <1>3, <1>4, <1>6, <1>7, <1>8 DEF Next, Thread, Outside, ForeignDelete

\* Before the first call nothing is listed, posted or bound.
LEMMA OwnInit == Init => OwnInv
BY TypeInit DEF Init, OwnInv, BaseInv, RequestInv, MadeInv, WindowInv, NothingDeleted, ResultInv,
                BindsOwn, Made, Ids, NoRecord

\* Unless somebody deletes records in the window, a create that succeeds has
\* returned its own record: across threads, processes, lost answers, late
\* POSTs and foreign creates, for createAndLocate and locateCreated alike.
THEOREM OwnRecord ==
  ASSUME ForeignDeletes = FALSE
  PROVE  Spec => []BindsOwn
<1>1. Init => OwnInv
  BY OwnInit
<1>2. OwnInv /\ [Next]_vars => OwnInv'
  BY OwnStep
<1>3. OwnInv => BindsOwn
  BY DEF OwnInv, BaseInv
<1> QED
  BY <1>1, <1>2, <1>3, PTL DEF Spec

-----------------------------------------------------------------------------
(* Siblings, with records deleted by anybody meanwhile. *)

\* A record that is made is new to every thread, and was nobody's before.
LEMMA MakeIsNew ==
  ASSUME TypeOK, NEW o \in Threads \cup {Foreign}, NEW s \in Scopes,
         NEW c \in Contents, Make(o, s, c)
  PROVE  /\ Ids \subseteq Ids'
         /\ \A i \in Ids : ledger'[i] = ledger[i] /\ (i \in alive' <=> i \in alive)
         /\ \A u : u # o => Made(u)' = Made(u)
         /\ alive # Ids => alive' # Ids'
<1>1. /\ Len(ledger) \in Nat
      /\ alive \subseteq Ids
      /\ Len(ledger) + 1 \notin Ids
  BY DEF TypeOK, Ids
<1>2. /\ \A i \in Ids : ledger'[i] = ledger[i]
      /\ alive' = alive \cup {Len(ledger) + 1}
      /\ Ids' = Ids \cup {Len(ledger) + 1}
  BY MakeLedger DEF Ids
<1>3. \A u : u # o => Made(u)' = Made(u)
  BY MadeEffect
<1> QED
  BY <1>1, <1>2, <1>3

\* The records a list returns are in its scope and exist.
LEMMA LocatedIsFresh ==
  ASSUME NEW t \in Threads, NEW id \in Located(t)
  PROVE  id \in Fresh(t)
BY DEF Located, Matching

\* Two siblings are never in their windows together.
LEMMA SiblingsTakeTurns ==
  ASSUME LockInv, NEW t \in Threads, NEW u \in Threads, Siblings(t, u), InWindow(t)
  PROVE  ~InWindow(u)
BY DEF LockInv, LockOf, Siblings

\* Every step preserves that a sibling's record is not new to later lists.
LEMMA SharedStep ==
  ASSUME BaseInv, LockInv, SharedInv, [Next]_vars
  PROVE  SharedInv'
<1>a. TypeOK /\ TypeOK'
  BY BaseStep DEF BaseInv
<1>b. ASSUME UNCHANGED <<ledger, bound, result, before>>, alive' \subseteq alive,
             \A u \in Threads : Listed(u)' => Listed(u)
      PROVE  SharedInv'
  BY <1>b DEF SharedInv, NoSharedRecord, Ids, Siblings
<1>1. ASSUME NEW t \in Threads, Acquire(t) \/ SendCreate(t) \/ CreateAnswered(t)
      PROVE  SharedInv'
  <2>1. \A u \in Threads : Listed(u)' => Listed(u)
    BY <1>a, <1>1 DEF Listed, Acquire, SendCreate, CreateAnswered, TypeOK
  <2> QED
    BY <1>b, <1>1, <2>1 DEF Acquire, SendCreate, CreateAnswered
<1>2. ASSUME NEW t \in Threads, ListBefore(t) PROVE SharedInv'
  <2>1. \A v, u \in Threads :
          (Siblings(v, u) /\ result[v] = "bound" /\ Listed(u)')
            => bound[v] \in before'[u] \/ bound[v] \notin alive
    <3>1. ASSUME NEW v \in Threads, Siblings(v, t), result[v] = "bound"
          PROVE  bound[v] \in before'[t] \/ bound[v] \notin alive
      BY <1>a, <1>2, <3>1 DEF ListBefore, List, Siblings, SharedInv, TypeOK
    <3>2. ASSUME NEW u \in Threads, u # t
          PROVE  before'[u] = before[u] /\ (Listed(u)' <=> Listed(u))
      BY <1>a, <1>2, <3>2 DEF ListBefore, Listed, TypeOK
    <3> QED
      BY <3>1, <3>2 DEF SharedInv
  <2> QED
    BY <1>2, <2>1 DEF SharedInv, NoSharedRecord, ListBefore, Ids, Siblings
<1>3. ASSUME NEW t \in Threads, NEW how \in Results, NEW id, Return(t, how, id),
             InWindow(t), how = "bound" => pc[t] = "after" /\ id \in Fresh(t),
             UNCHANGED <<ledger, alive, request, before>>
      PROVE  SharedInv'
  <2>1. /\ \A u \in Threads : u # t => /\ result'[u] = result[u]
                                       /\ bound'[u] = bound[u]
                                       /\ Listed(u)' <=> Listed(u)
        /\ result'[t] = how /\ bound'[t] = id /\ ~Listed(t)'
    BY <1>a, <1>3 DEF Return, Listed, TypeOK
  <2>2. how = "bound" => id \in Ids /\ ledger[id].scope = ScopeOf[t]
    BY <1>a, <1>3 DEF Fresh, List, TypeOK
  <2>3. \A v \in Threads : result'[v] = "bound" =>
          bound'[v] \in Ids' /\ ledger'[bound'[v]].scope = ScopeOf[v]
    BY <1>3, <2>1, <2>2 DEF SharedInv, Ids
  <2>4. ASSUME NEW v \in Threads, NEW u \in Threads, Siblings(v, u),
               result'[v] = "bound", Listed(u)'
        PROVE  bound'[v] \in before'[u] \/ bound'[v] \notin alive'
    <3>1. u # t /\ Listed(u) /\ InWindow(u)
      BY <2>1, <2>4 DEF Listed, InWindow
    <3>2. v # t
      BY <1>3, <2>4, <3>1, SiblingsTakeTurns
    <3> QED
      BY <1>3, <2>1, <2>4, <3>1, <3>2 DEF SharedInv
  <2>5. ASSUME NEW u \in Threads, u # t, ProcessOf[u] = ProcessOf[t],
               result[u] = "bound", how = "bound"
        PROVE  bound[u] # id
    <3>1. CASE ScopeOf[u] = ScopeOf[t]
      <4>1. bound[u] \in before[t] \/ bound[u] \notin alive
        BY <1>3, <2>5, <3>1 DEF SharedInv, Siblings, Listed
      <4> QED
        BY <1>3, <2>5, <4>1 DEF Fresh, List
    <3>2. CASE ScopeOf[u] # ScopeOf[t]
      BY <2>2, <2>5, <3>2 DEF SharedInv
    <3> QED
      BY <3>1, <3>2
  <2>6. NoSharedRecord'
    BY <2>1, <2>5 DEF SharedInv, NoSharedRecord
  <2> QED
    BY <2>3, <2>4, <2>6 DEF SharedInv, Siblings
<1>4. ASSUME NEW t \in Threads, CallFails(t) PROVE SharedInv'
  BY <1>3, <1>4 DEF CallFails, Results, InWindow
<1>5. ASSUME NEW t \in Threads, ListAfter(t) PROVE SharedInv'
  BY <1>3, <1>5, LocatedIsFresh DEF ListAfter, Results, InWindow
<1>6. ASSUME NEW o \in Threads \cup {Foreign}, NEW s \in Scopes,
             NEW c \in Contents, Make(o, s, c),
             UNCHANGED <<pc, before, bound, result>>
      PROVE  SharedInv'
  <2>1. /\ Ids \subseteq Ids'
        /\ \A i \in Ids : ledger'[i] = ledger[i] /\ (i \in alive' <=> i \in alive)
    BY <1>a, <1>6, MakeIsNew
  <2> QED
    BY <1>6, <2>1 DEF SharedInv, NoSharedRecord, Listed, Siblings
<1>7. ASSUME NEW t \in Threads, ServerCreates(t) PROVE SharedInv'
  BY <1>6, <1>7, ThreadsAssumption DEF ServerCreates, Contents, ThreadsAssumption
<1>8. ASSUME NEW s \in Scopes, NEW c \in Contents, ForeignCreate(s, c)
      PROVE  SharedInv'
  BY <1>6, <1>8 DEF ForeignCreate
<1>9. CASE UNCHANGED vars \/ \E i \in alive : ForeignDelete(i)
  BY <1>b, <1>9 DEF vars, ForeignDelete, Listed
<1> QED
  BY <1>1, <1>2, <1>4, <1>5, <1>7, <1>8, <1>9 DEF Next, Thread, Outside

\* Nothing is listed, made, bound or locked at first.
LEMMA BaseInit == Init => BaseInv /\ LockInv
<1>1. Init => BaseInv
  BY OwnInit DEF OwnInv
<1>2. Init => LockInv
  BY ThreadsAssumption DEF Init, LockInv, LockOf, InWindow, ThreadsAssumption
<1> QED
  BY <1>1, <1>2

\* Two resources of one process never end up managing one record, whatever is
\* deleted, given up, or created by others while they are created.
THEOREM NeverShared == Spec => []NoSharedRecord
<1>1. Init => BaseInv /\ LockInv /\ SharedInv
  BY BaseInit DEF Init, SharedInv, NoSharedRecord
<1>2. BaseInv /\ LockInv /\ SharedInv /\ [Next]_vars
        => BaseInv' /\ LockInv' /\ SharedInv'
  BY BaseStep, LockStep, SharedStep DEF BaseInv
<1>3. SharedInv => NoSharedRecord
  BY DEF SharedInv
<1> QED
  BY <1>1, <1>2, <1>3, PTL DEF Spec

\* A thread that finds nothing new has lost its own record.
LEMMA MissingIsDeleted ==
  ASSUME BaseInv, NEW t \in Threads, pc[t] = "after", Fresh(t) = {}
  PROVE  alive # Ids
<1>1. PICK i \in Ids : /\ ledger[i] = [owner |-> t, scope |-> ScopeOf[t],
                                       content |-> ContentOf[t]]
                       /\ Made(t) = {i}
  BY DEF BaseInv, RequestInv, MadeInv, MadeOne
<1>2. i \notin before[t] /\ ledger[i].scope = ScopeOf[t]
  BY <1>1 DEF BaseInv, WindowInv
<1> QED
  BY <1>1, <1>2 DEF Fresh, List

\* A thread that finds several new records finds one it has not made.
LEMMA AmbiguousIsAnothers ==
  ASSUME BaseInv, NEW t \in Threads, pc[t] = "after", Fresh(t) # {},
         Located(t) = {}
  PROVE  \E i \in Fresh(t) : i \notin Made(t)
<1>1. PICK k : Made(t) = {k}
  BY DEF BaseInv, RequestInv, MadeInv, MadeOne
<1>2. SUFFICES ASSUME Fresh(t) \subseteq Made(t) PROVE FALSE
  OBVIOUS
<1>3. Fresh(t) = {k}
  BY <1>1, <1>2
<1>4. Cardinality(Fresh(t)) = 1
  BY <1>3, FS_Singleton
<1> QED
  BY <1>4 DEF Located

\* A record of a thread is in its scope.
LEMMA MadeInScope ==
  ASSUME BaseInv, NEW u \in Threads, NEW i \in Made(u)
  PROVE  /\ i \in Ids
         /\ ledger[i].scope = ScopeOf[u] /\ ledger[i].owner = u
         /\ request[u] = "done"
<1>1. request[u] = "done" /\ MadeOne(u)
  BY DEF BaseInv, MadeInv
<1>2. PICK k \in Ids : /\ ledger[k] = [owner |-> u, scope |-> ScopeOf[u],
                                       content |-> ContentOf[u]]
                       /\ Made(u) = {k}
  BY <1>1 DEF MadeOne
<1> QED
  BY <1>1, <1>2

\* A record that confuses a thread comes from outside its process, or from a
\* POST of a sibling that was given up.
Confuses(i, t) ==
  /\ i \in Ids /\ ledger[i].scope = ScopeOf[t] /\ i \notin before[t]
  /\ \A u \in Threads : ledger[i].owner = u =>
       ProcessOf[u] # ProcessOf[t] \/ result[u] = "failed"

\* What confuses a thread that has ended goes on explaining its ambiguity.
LEMMA ConfusesStays ==
  ASSUME BaseInv, NEW t \in Threads, NEW i, Confuses(i, t),
         Ids \subseteq Ids', ledger'[i] = ledger[i], before'[t] = before[t],
         \A u \in Threads : result[u] = "failed" => result'[u] = "failed"
  PROVE  Confuses(i, t)'
BY DEF Confuses

\* When a call is ambiguous, something outside the siblings confuses it.
LEMMA AmbiguousIsOutsiders ==
  ASSUME BaseInv, LockInv, SiblingInv, NEW t \in Threads, pc[t] = "after",
         Fresh(t) # {}, Located(t) = {}
  PROVE  \E i \in Ids : Confuses(i, t)
<1>1. PICK i \in Fresh(t) : i \notin Made(t)
  BY AmbiguousIsAnothers
<1>2. /\ i \in Ids /\ i \in alive /\ ledger[i].scope = ScopeOf[t]
      /\ i \notin before[t]
  BY <1>1 DEF Fresh, List, BaseInv, TypeOK
<1>3. ASSUME NEW u \in Threads, ledger[i].owner = u, ProcessOf[u] = ProcessOf[t]
      PROVE  result[u] = "failed"
  <2>1. i \in Made(u) /\ u # t
    BY <1>1, <1>2, <1>3 DEF Made
  <2>2. Siblings(t, u) /\ request[u] = "done"
    BY <1>2, <1>3, <2>1, MadeInScope DEF Siblings
  <2>3. ~InWindow(u)
    BY <2>2, SiblingsTakeTurns DEF InWindow
  <2>4. pc[u] = "ended"
    BY <2>2, <2>3 DEF BaseInv, TypeOK, RequestInv, InWindow, PCs
  <2>5. result[u] # "none"
    BY <2>4 DEF BaseInv, ResultInv
  <2> QED
    BY <1>2, <2>1, <2>2, <2>5 DEF SiblingInv, Answered, Listed
<1> QED
  BY <1>2, <1>3 DEF Confuses

\* Every step preserves that only outsiders confuse a create.
LEMMA SiblingStep ==
  ASSUME BaseInv, LockInv, SiblingInv, [Next]_vars
  PROVE  SiblingInv'
<1>a. TypeOK /\ TypeOK' /\ BaseInv'
  BY BaseStep DEF BaseInv
<1>b. ASSUME UNCHANGED <<ledger, result, before>>, alive' \subseteq alive,
             \A u \in Threads : Listed(u)' => Listed(u),
             \A u \in Threads : request[u] = "done" => request'[u] = "done"
      PROVE  SiblingInv'
  <2>1. Ids' = Ids /\ \A u : Made(u)' = Made(u)
    BY <1>b DEF Ids, Made
  <2>2. alive # Ids => alive' # Ids'
    BY <1>a, <1>b, <2>1 DEF TypeOK
  <2>3. OnlyOutsidersConfuse'
    BY <1>b, <2>1, <2>2 DEF SiblingInv, OnlyOutsidersConfuse
  <2> QED
    BY <1>b, <2>1, <2>3 DEF SiblingInv, Answered, Siblings
<1>1. ASSUME NEW t \in Threads, Acquire(t) \/ SendCreate(t) \/ CreateAnswered(t)
      PROVE  SiblingInv'
  <2>1. \A u \in Threads : Listed(u)' => Listed(u)
    BY <1>a, <1>1 DEF Listed, Acquire, SendCreate, CreateAnswered, TypeOK
  <2>2. \A u \in Threads : request[u] = "done" => request'[u] = "done"
    BY <1>a, <1>1 DEF BaseInv, RequestInv, Acquire, SendCreate, CreateAnswered,
                      TypeOK
  <2> QED
    BY <1>b, <1>1, <2>1, <2>2 DEF Acquire, SendCreate, CreateAnswered
<1>2. ASSUME NEW t \in Threads, ListBefore(t) PROVE SiblingInv'
  <2>1. Ids' = Ids /\ \A u : Made(u)' = Made(u)
    BY <1>2 DEF ListBefore, Ids, Made
  <2>2. ASSUME NEW u \in Threads, Siblings(t, u), NEW i \in Made(u)
        PROVE  i \in before'[t] \/ i \notin alive
    <3>1. ledger[i].scope = ScopeOf[t]
      BY <2>2, MadeInScope DEF Siblings
    <3> QED
      BY <1>a, <1>2, <3>1 DEF ListBefore, List, TypeOK
  <2>3. ASSUME NEW u \in Threads, u # t
        PROVE  before'[u] = before[u] /\ (Listed(u)' <=> Listed(u))
    BY <1>a, <1>2, <2>3 DEF ListBefore, Listed, TypeOK
  <2>4. result[t] = "none"
    BY <1>2 DEF BaseInv, ResultInv, ListBefore
  <2>5. OnlyOutsidersConfuse'
    BY <1>2, <2>1, <2>3, <2>4 DEF SiblingInv, OnlyOutsidersConfuse, ListBefore
  <2> QED
    BY <1>2, <2>1, <2>2, <2>3, <2>5
       DEF SiblingInv, Answered, Siblings, ListBefore
<1>3. ASSUME NEW t \in Threads, NEW how \in Results, NEW id, Return(t, how, id),
             InWindow(t), how # "failed" => request[t] = "done",
             how = "missing" => alive # Ids,
             how = "ambiguous" => \E i \in Ids : Confuses(i, t),
             UNCHANGED <<ledger, alive, request, before>>
      PROVE  SiblingInv'
  <2>1. /\ \A u \in Threads : u # t => /\ result'[u] = result[u]
                                       /\ Listed(u)' <=> Listed(u)
        /\ result'[t] = how /\ ~Listed(t)'
    BY <1>a, <1>3 DEF Return, Listed, TypeOK
  <2>2. Ids' = Ids /\ \A u : Made(u)' = Made(u)
    BY <1>3 DEF Ids, Made
  <2>3. \A u \in Threads : Answered(u)' => request'[u] = "done"
    BY <1>3, <2>1 DEF SiblingInv, Answered
  <2>4. ASSUME NEW v \in Threads, NEW u \in Threads, Siblings(v, u),
               Answered(u)', Listed(v)'
        PROVE  \A i \in Made(u) : i \in before[v] \/ i \notin alive
    <3>1. v # t /\ Listed(v) /\ InWindow(v)
      BY <2>1, <2>4 DEF Listed, InWindow
    <3>2. u # t
      BY <1>3, <2>4, <3>1, SiblingsTakeTurns
    <3> QED
      BY <2>1, <2>4, <3>1, <3>2 DEF SiblingInv, Answered
  <2>5. result[t] = "none"
    BY <1>3 DEF BaseInv, ResultInv, InWindow
  <2>6. \A u \in Threads : result[u] = "failed" => result'[u] = "failed"
    BY <2>1, <2>5
  <2>7. ASSUME NEW v \in Threads, result'[v] = "missing" PROVE alive' # Ids'
    BY <1>3, <2>1, <2>2, <2>7 DEF SiblingInv, OnlyOutsidersConfuse
  <2>8. ASSUME NEW v \in Threads, result'[v] = "ambiguous"
        PROVE  \E i \in Ids' : Confuses(i, v)'
    <3>1. PICK i \in Ids : Confuses(i, v)
      BY <1>3, <2>1, <2>8 DEF SiblingInv, OnlyOutsidersConfuse, Confuses
    <3> QED
      BY <1>3, <2>2, <2>6, <3>1, ConfusesStays
  <2>9. OnlyOutsidersConfuse'
    BY <2>7, <2>8 DEF OnlyOutsidersConfuse, Confuses
  <2> QED
    BY <1>3, <2>2, <2>3, <2>4, <2>9 DEF SiblingInv, Siblings
<1>4. ASSUME NEW t \in Threads, CallFails(t) PROVE SiblingInv'
  BY <1>3, <1>4 DEF CallFails, Results, InWindow
<1>5. ASSUME NEW t \in Threads, ListAfter(t) PROVE SiblingInv'
  <2>1. request[t] = "done" /\ InWindow(t)
    BY <1>5 DEF BaseInv, RequestInv, ListAfter, InWindow
  <2>2. Fresh(t) = {} => alive # Ids
    BY <1>5, MissingIsDeleted DEF ListAfter
  <2>3. (Fresh(t) # {} /\ Located(t) = {}) => \E i \in Ids : Confuses(i, t)
    BY <1>5, AmbiguousIsOutsiders DEF ListAfter
  <2> QED
    BY <1>3, <1>5, <2>1, <2>2, <2>3 DEF ListAfter, Results
<1>6. ASSUME NEW o \in Threads \cup {Foreign}, NEW s \in Scopes,
             NEW c \in Contents, Make(o, s, c), UNCHANGED <<pc, before, result>>,
             \A u \in Threads : u = o => request[u] # "done",
             \A u \in Threads : request[u] = "done" => request'[u] = "done"
      PROVE  SiblingInv'
  <2>1. /\ Ids \subseteq Ids'
        /\ \A i \in Ids : ledger'[i] = ledger[i] /\ (i \in alive' <=> i \in alive)
        /\ \A u : u # o => Made(u)' = Made(u)
        /\ alive # Ids => alive' # Ids'
    BY <1>a, <1>6, MakeIsNew
  <2>2. ASSUME NEW v \in Threads, NEW u \in Threads, Siblings(v, u),
               Answered(u), Listed(v)
        PROVE  \A i \in Made(u)' : i \in before[v] \/ i \notin alive'
    <3>1. request[u] = "done" /\ u # o
      BY <1>6, <2>2 DEF SiblingInv
    <3>2. Made(u)' = Made(u) /\ Made(u) \subseteq Ids
      BY <2>1, <3>1 DEF Made
    <3> QED
      BY <2>1, <2>2, <3>2 DEF SiblingInv
  <2>3. ASSUME NEW v \in Threads, result[v] = "ambiguous"
        PROVE  \E i \in Ids' : Confuses(i, v)'
    <3>1. PICK i \in Ids : Confuses(i, v)
      BY <2>3 DEF SiblingInv, OnlyOutsidersConfuse, Confuses
    <3> QED
      BY <1>6, <2>1, <3>1, ConfusesStays
  <2>4. OnlyOutsidersConfuse'
    BY <1>6, <2>1, <2>3 DEF SiblingInv, OnlyOutsidersConfuse, Confuses
  <2> QED
    BY <1>6, <2>2, <2>4 DEF SiblingInv, Answered, Listed, Siblings
<1>7. ASSUME NEW t \in Threads, ServerCreates(t) PROVE SiblingInv'
  <2>1. \A u \in Threads : request[u] = "done" => request'[u] = "done"
    BY <1>a, <1>7 DEF ServerCreates, TypeOK
  <2>2. /\ Make(t, ScopeOf[t], ContentOf[t])
        /\ ContentOf[t] \in Contents /\ ScopeOf[t] \in Scopes
        /\ UNCHANGED <<pc, before, result>>
        /\ request[t] # "done"
    BY <1>7, ThreadsAssumption DEF ServerCreates, Contents, ThreadsAssumption
  <2> QED
    BY <1>6, <2>1, <2>2
<1>8. ASSUME NEW s \in Scopes, NEW c \in Contents, ForeignCreate(s, c)
      PROVE  SiblingInv'
  BY <1>6, <1>8, ThreadsAssumption DEF ForeignCreate, Foreign, ThreadsAssumption
<1>9. CASE UNCHANGED vars \/ \E i \in alive : ForeignDelete(i)
  BY <1>b, <1>9 DEF vars, ForeignDelete, Listed
<1> QED
  BY <1>1, <1>2, <1>4, <1>5, <1>7, <1>8, <1>9 DEF Next, Thread, Outside

\* The creates of one apply never make each other fail: a record that is not
\* found was deleted, and an ambiguity comes from outside the process or from
\* a POST of it that had been given up, for createAndLocate and locateCreated.
THEOREM OutsidersConfuse == Spec => []OnlyOutsidersConfuse
<1>1. Init => BaseInv /\ LockInv /\ SiblingInv
  BY BaseInit DEF Init, SiblingInv, OnlyOutsidersConfuse, Answered
<1>2. BaseInv /\ LockInv /\ SiblingInv /\ [Next]_vars
        => BaseInv' /\ LockInv' /\ SiblingInv'
  BY BaseStep, LockStep, SiblingStep DEF BaseInv
<1>3. SiblingInv => OnlyOutsidersConfuse
  BY DEF SiblingInv
<1> QED
  BY <1>1, <1>2, <1>3, PTL DEF Spec

-----------------------------------------------------------------------------
(* CreateLocate implements CreateBind. *)

Failed == {t \in Threads : result[t] \in {"failed", "missing", "ambiguous"}}
MadeMap == [t \in Threads |-> Made(t)]

\* A step that makes no record and gives no result is a stutter of CreateBind.
LEMMA Stutter ==
  ASSUME UNCHANGED bound, UNCHANGED result,
         \A t \in Threads : Made(t)' = Made(t)
  PROVE  UNCHANGED Abstract!vars
BY DEF Abstract!vars

\* A return binds the caller's own record, or fails.
LEMMA ReturnRefines ==
  ASSUME OwnInv, NEW t \in Threads, NEW how \in Results \ {"none"}, NEW id,
         Return(t, how, id), pc[t] # "ended",
         how = "bound" => id \in Made(t),
         how # "bound" => id = NoRecord,
         UNCHANGED ledger
  PROVE  Abstract!Bind(t) \/ Abstract!Fail(t)
<1>1. bound[t] = NoRecord /\ result[t] = "none"
  BY DEF OwnInv, BaseInv, ResultInv
<1>2. MadeMap' = MadeMap
  BY DEF MadeMap, Made, Ids
<1>3. result' = [result EXCEPT ![t] = how] /\ bound' = [bound EXCEPT ![t] = id]
  BY DEF Return
<1>4. CASE how = "bound"
  <2>1. Failed' = Failed /\ t \notin Failed
    BY <1>1, <1>3, <1>4 DEF Failed, OwnInv, BaseInv, TypeOK
  <2> QED
    BY <1>1, <1>2, <1>3, <1>4, <2>1 DEF Abstract!Bind, Failed, MadeMap
<1>5. CASE how # "bound"
  <2>1. Failed' = Failed \cup {t}
    BY <1>1, <1>3, <1>5 DEF Failed, Results, OwnInv, BaseInv, TypeOK
  <2>2. bound' = bound
    BY <1>1, <1>3, <1>5 DEF OwnInv, BaseInv, TypeOK
  <2> QED
    BY <1>1, <1>2, <2>1, <2>2 DEF Abstract!Fail, Failed, MadeMap
<1> QED
  BY <1>4, <1>5

\* Every step is a step of CreateBind, or leaves what it speaks of alone.
LEMMA StepRefines ==
  ASSUME ForeignDeletes = FALSE, OwnInv, [Next]_vars
  PROVE  [Abstract!Next]_(Abstract!vars)
<1> USE DEF Abstract!Next
<1>1. ASSUME UNCHANGED <<ledger, bound, result>>
      PROVE  UNCHANGED Abstract!vars
  BY <1>1, Stutter DEF Made, Ids
<1>2. ASSUME NEW t \in Threads,
             Acquire(t) \/ ListBefore(t) \/ SendCreate(t) \/ CreateAnswered(t)
      PROVE  UNCHANGED Abstract!vars
  BY <1>1, <1>2 DEF Acquire, ListBefore, SendCreate, CreateAnswered
<1>3. ASSUME NEW t \in Threads, CallFails(t) PROVE Abstract!Next
  BY <1>3, ReturnRefines DEF CallFails, Results
<1>4. ASSUME NEW t \in Threads, ListAfter(t) PROVE Abstract!Next
  <2>1. \A id \in Located(t) : id \in Made(t)
    BY <1>4, LocatedIsOwn DEF ListAfter
  <2> QED
    BY <1>4, <2>1, ReturnRefines DEF ListAfter, Results
<1>5. ASSUME NEW t \in Threads, ServerCreates(t) PROVE Abstract!Next
  <2>1. /\ Make(t, ScopeOf[t], ContentOf[t])
        /\ ContentOf[t] \in Contents /\ ScopeOf[t] \in Scopes
        /\ UNCHANGED <<bound, result>>
    BY <1>5, ThreadsAssumption DEF ServerCreates, Contents, ThreadsAssumption
  <2>2. /\ Made(t)' = Made(t) \cup {Len(ledger) + 1}
        /\ \A u : u # t => Made(u)' = Made(u)
    BY <2>1, MadeEffect DEF OwnInv, BaseInv
  <2>3. Made(t) = {}
    BY <1>5 DEF OwnInv, BaseInv, MadeInv, ServerCreates
  <2>4. \A u \in Threads : Len(ledger) + 1 \notin Made(u)
    BY DEF Made, Ids, OwnInv, BaseInv, TypeOK
  <2>5. MadeMap' = [MadeMap EXCEPT ![t] = {Len(ledger) + 1}]
    BY <2>2, <2>3 DEF MadeMap
  <2>6. Abstract!Make(t)
    BY <2>1, <2>2, <2>3, <2>4, <2>5 DEF Abstract!Make, MadeMap
  <2> QED
    BY <2>6
<1>6. ASSUME NEW s \in Scopes, NEW c \in Contents, ForeignCreate(s, c)
      PROVE  UNCHANGED Abstract!vars
  <2>1. \A u \in Threads : Made(u)' = Made(u)
    BY <1>6, MadeEffect, ThreadsAssumption
       DEF ForeignCreate, Foreign, OwnInv, BaseInv, ThreadsAssumption
  <2> QED
    BY <1>6, <2>1, Stutter DEF ForeignCreate
<1>7. CASE UNCHANGED vars
  BY <1>1, <1>7 DEF vars
<1> QED
  BY <1>2, <1>3, <1>4, <1>5, <1>6, <1>7
     DEF Next, Thread, Outside, ForeignDelete

\* Seen from outside, a create whose POST does not return the id is one that
\* atomically binds the record it made or fails, however its lists and those
\* of its siblings interleave, as long as nobody deletes records meanwhile.
THEOREM Refinement ==
  ASSUME ForeignDeletes = FALSE
  PROVE  Spec => ImplementsCreateBind
<1>1. Init => OwnInv /\ Abstract!Init
  BY OwnInit DEF Init, Abstract!Init, Made, Ids
<1>2. OwnInv /\ [Next]_vars => OwnInv' /\ [Abstract!Next]_(Abstract!vars)
  BY OwnStep, StepRefines
<1> QED
  BY <1>1, <1>2, PTL DEF Spec, ImplementsCreateBind, Abstract!Spec
=============================================================================
