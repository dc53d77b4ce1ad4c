---------------------------- MODULE CreateLocate ----------------------------
(***************************************************************************)
(* createAndLocate and locateCreated: creating a record whose POST does    *)
(* not return its id.  The caller lists the ids of the scope (a parent     *)
(* record, or an organization-wide collection), posts, lists again and     *)
(* takes the id that is new.  Terraform runs several resources at once, so *)
(* a mutex per scope makes the sequence atomic within one provider         *)
(* process; a second process and the web UI take no part in the mutex.     *)
(***************************************************************************)
EXTENDS Integers, Sequences, FiniteSets

CONSTANTS
  Threads,         \* resources being created, one call each
  Processes,       \* provider processes
  Scopes,          \* what the lists and the locks are keyed by
  ProcessOf,       \* the process a thread runs in
  ScopeOf,         \* the scope a thread creates in
  ContentOf,       \* the fields a thread sends
  NoThread,        \* nobody holds the lock
  MaxForeign,      \* bound: records made by anybody else
  ByContent,       \* scopes of locateCreated; the others' are createAndLocate's
  LateCommits,     \* a POST given up by its client may still take effect
  ForeignDeletes   \* somebody else may delete records meanwhile

ASSUME ThreadsAssumption ==
  /\ ProcessOf \in [Threads -> Processes]
  /\ ScopeOf \in [Threads -> Scopes]
  /\ NoThread \notin Threads

ASSUME ModesAssumption ==
  /\ MaxForeign \in Nat
  /\ ByContent \subseteq Scopes
  /\ LateCommits \in BOOLEAN
  /\ ForeignDeletes \in BOOLEAN

VARIABLES
  ledger,    \* every record ever made, in order: its owner, scope and fields
  alive,     \* ids (indices of ledger) of the records that still exist
  request,   \* the POST of each thread: "none", "sent" or "done"
  lock,      \* createLocateLocks, one map per process
  pc,        \* where each thread is
  before,    \* the ids each thread has seen before its POST
  bound,     \* the id each thread returns
  result     \* how each thread's call ended

vars == <<ledger, alive, request, lock, pc, before, bound, result>>

NoRecord == 0
Foreign == NoThread      \* the owner of a record none of the threads made
Contents == {ContentOf[t] : t \in Threads}
Ids == 1 .. Len(ledger)
\* Mutant: positions in the list are taken for ids.
ListOfPositions(s) == {i + 1 : i \in {j \in alive : ledger[j].scope = s}}

Made(t) == {i \in Ids : ledger[i].owner = t}
List(s) == {i \in alive : ledger[i].scope = s}

Init ==
  /\ ledger = <<>>
  /\ alive = {}
  /\ request = [t \in Threads |-> "none"]
  /\ lock = [p \in Processes |-> [s \in Scopes |-> NoThread]]
  /\ pc = [t \in Threads |-> "start"]
  /\ before = [t \in Threads |-> {}]
  /\ bound = [t \in Threads |-> NoRecord]
  /\ result = [t \in Threads |-> "none"]

-----------------------------------------------------------------------------
LockOf(t) == lock[ProcessOf[t]][ScopeOf[t]]
SetLock(t, holder) ==
  lock' = [lock EXCEPT ![ProcessOf[t]] = [@ EXCEPT ![ScopeOf[t]] = holder]]

\* Mutant: the lock is not waited for.
AcquireUnlocked(t) ==
  /\ pc[t] = "start"
  /\ SetLock(t, t)
  /\ pc' = [pc EXCEPT ![t] = "before"]
  /\ UNCHANGED <<ledger, alive, request, before, bound, result>>

Acquire(t) ==
  /\ pc[t] = "start"
  /\ LockOf(t) = NoThread
  /\ SetLock(t, t)
  /\ pc' = [pc EXCEPT ![t] = "before"]
  /\ UNCHANGED <<ledger, alive, request, before, bound, result>>

\* Every return runs the deferred unlock.
Return(t, how, id) ==
  /\ SetLock(t, NoThread)
  /\ pc' = [pc EXCEPT ![t] = "ended"]
  /\ result' = [result EXCEPT ![t] = how]
  /\ bound' = [bound EXCEPT ![t] = id]

\* Mutant: the lock covers the first list only.
ListBeforeUnlocks(t) ==
  /\ pc[t] = "before"
  /\ SetLock(t, NoThread)
  /\ before' = [before EXCEPT ![t] = List(ScopeOf[t])]
  /\ pc' = [pc EXCEPT ![t] = "create"]
  /\ UNCHANGED <<ledger, alive, request, bound, result>>

ListBefore(t) ==
  /\ pc[t] = "before"
  /\ before' = [before EXCEPT ![t] = List(ScopeOf[t])]
  /\ pc' = [pc EXCEPT ![t] = "create"]
  /\ UNCHANGED <<ledger, alive, request, lock, bound, result>>

SendCreate(t) ==
  /\ pc[t] = "create"
  /\ request' = [request EXCEPT ![t] = "sent"]
  /\ pc' = [pc EXCEPT ![t] = "posted"]
  /\ UNCHANGED <<ledger, alive, lock, before, bound, result>>

CreateAnswered(t) ==
  /\ pc[t] = "posted"
  /\ request[t] = "done"
  /\ pc' = [pc EXCEPT ![t] = "after"]
  /\ UNCHANGED <<ledger, alive, request, lock, before, bound, result>>

\* Mutant: the unlock is not deferred, so an early return skips it.
CallFailsLocked(t) ==
  /\ pc[t] \in {"before", "posted", "after"}
  /\ pc' = [pc EXCEPT ![t] = "ended"]
  /\ result' = [result EXCEPT ![t] = "failed"]
  /\ UNCHANGED <<ledger, alive, request, lock, before, bound>>

\* A list or the POST fails, or its answer is lost.
CallFails(t) ==
  /\ pc[t] \in {"before", "posted", "after"}
  /\ Return(t, "failed", NoRecord)
  /\ UNCHANGED <<ledger, alive, request, before>>

\* What is new since the first list, and which of it has the fields we sent.
Fresh(t) == List(ScopeOf[t]) \ before[t]
Matching(t) == {i \in Fresh(t) : ledger[i].content = ContentOf[t]}

\* Mutants: one of several new ids is returned; one of several that match is.
LocatedAnyNew(t) == Fresh(t)
LocatedAnyMatch(t) ==
  IF Cardinality(Fresh(t)) = 1 THEN Fresh(t) ELSE Matching(t)

\* The ids the call may return: the only new one, or (locateCreated) the only
\* one of several that matches.
Located(t) ==
  IF Cardinality(Fresh(t)) = 1 THEN Fresh(t)
  ELSE IF ScopeOf[t] \in ByContent /\ Cardinality(Matching(t)) = 1 THEN Matching(t)
  ELSE {}

ListAfter(t) ==
  /\ pc[t] = "after"
  /\ \/ \E id \in Located(t) : Return(t, "bound", id)
     \/ Fresh(t) = {} /\ Return(t, "missing", NoRecord)
     \/ /\ Fresh(t) # {}
        /\ Located(t) = {}
        /\ Return(t, "ambiguous", NoRecord)
  /\ UNCHANGED <<ledger, alive, request, before>>

-----------------------------------------------------------------------------
(* The server and whoever else uses it (external). *)

Make(owner, scope, content) ==
  /\ ledger' = Append(ledger,
                 [owner |-> owner, scope |-> scope, content |-> content])
  /\ alive' = alive \cup {Len(ledger) + 1}

ServerCreates(t) ==
  /\ request[t] = "sent"
  /\ LateCommits \/ pc[t] = "posted"
  /\ Make(t, ScopeOf[t], ContentOf[t])
  /\ request' = [request EXCEPT ![t] = "done"]
  /\ UNCHANGED <<lock, pc, before, bound, result>>

ForeignCreate(s, c) ==
  /\ Cardinality(Made(Foreign)) < MaxForeign
  /\ Make(Foreign, s, c)
  /\ UNCHANGED <<request, lock, pc, before, bound, result>>

ForeignDelete(i) ==
  /\ ForeignDeletes
  /\ alive' = alive \ {i}
  /\ UNCHANGED <<ledger, request, lock, pc, before, bound, result>>

-----------------------------------------------------------------------------
Thread(t) ==
  \/ Acquire(t) \/ ListBefore(t) \/ SendCreate(t) \/ CreateAnswered(t)
  \/ CallFails(t) \/ ListAfter(t)

Outside ==
  \/ \E t \in Threads : ServerCreates(t)
  \/ \E s \in Scopes, c \in Contents : ForeignCreate(s, c)
  \/ \E i \in alive : ForeignDelete(i)

Next == (\E t \in Threads : Thread(t)) \/ Outside

Spec == Init /\ [][Next]_vars

\* Every call returns or fails in the end, and sync.Mutex starves nobody.
Fairness ==
  \A t \in Threads : /\ SF_vars(Acquire(t))
                     /\ WF_vars(ListBefore(t) \/ CallFails(t))
                     /\ WF_vars(SendCreate(t))
                     /\ WF_vars(CreateAnswered(t) \/ CallFails(t))
                     /\ WF_vars(ListAfter(t) \/ CallFails(t))

FairSpec == Spec /\ Fairness

-----------------------------------------------------------------------------
(* Properties. *)

PCs == {"start", "before", "create", "posted", "after", "ended"}
Results == {"none", "bound", "failed", "missing", "ambiguous"}
RecordType == [owner : Threads \cup {Foreign}, scope : Scopes, content : Contents]

\* Every variable has its type, and the ids the threads hold were handed out.
TypeOK ==
  /\ ledger \in Seq(RecordType)
  /\ alive \subseteq Ids
  /\ request \in [Threads -> {"none", "sent", "done"}]
  /\ lock \in [Processes -> [Scopes -> Threads \cup {NoThread}]]
  /\ pc \in [Threads -> PCs]
  /\ before \in [Threads -> SUBSET Ids]
  /\ bound \in [Threads -> Ids \cup {NoRecord}]
  /\ result \in [Threads -> Results]

\* A call that succeeds returns the id of the record its own POST made, never
\* that of a sibling created in the same window (appchild.go, locate.go).
BindsOwn ==
  \A t \in Threads : result[t] = "bound" => bound[t] \in Made(t)

\* Two resources never end up managing one record, whoever deletes records
\* meanwhile: within a process the lock sees to it.
NoSharedRecord ==
  \A t, u \in Threads :
    (/\ ProcessOf[t] = ProcessOf[u] /\ t # u
     /\ result[t] = "bound" /\ result[u] = "bound") => bound[t] # bound[u]

\* The creates of one apply never make each other fail: if nothing is deleted
\* a new record is always found, and "Something outside this apply" is to blame
\* for an ambiguity, or a POST of this process that its client had given up.
OnlyOutsidersConfuse ==
  \A t \in Threads :
    /\ result[t] = "missing" => alive # Ids
    /\ result[t] = "ambiguous" =>
         \E i \in Ids :
           /\ ledger[i].scope = ScopeOf[t] /\ i \notin before[t]
           /\ \A u \in Threads : ledger[i].owner = u =>
                ProcessOf[u] # ProcessOf[t] \/ result[u] = "failed"

\* Within one process, two threads are never between the lists of one scope.
InWindow(t) == pc[t] \in {"before", "create", "posted", "after"}
MutualExclusion ==
  \A t, u \in Threads :
    (/\ ProcessOf[t] = ProcessOf[u]
     /\ ScopeOf[t] = ScopeOf[u]
     /\ InWindow(t) /\ InWindow(u)) => t = u

\* The calls implement CreateBind: they bind atomically what they made, or fail.
Abstract == INSTANCE CreateBind WITH
  Callers <- Threads,
  made <- [t \in Threads |-> Made(t)],
  failed <- {t \in Threads : result[t] \in {"failed", "missing", "ambiguous"}}
ImplementsCreateBind == Abstract!Spec

\* Every create returns: the lock is released on every path, and waiting for
\* it never becomes waiting for each other.
EveryCreateReturns == \A t \in Threads : <>(pc[t] = "ended")
=============================================================================
