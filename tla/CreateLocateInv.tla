-------------------------- MODULE CreateLocateInv ---------------------------
(* Inductive invariants of CreateLocate.                                   *)
EXTENDS CreateLocate

\* The threads between their lists are exactly the holders of the locks.
LockInv == \A t \in Threads : InWindow(t) <=> LockOf(t) = t

\* A thread lists after a POST that took effect, and has sent none before.
RequestInv ==
  \A t \in Threads :
    /\ pc[t] = "after" => request[t] = "done"
    /\ pc[t] \in {"start", "before", "create"} => request[t] = "none"

\* A POST that has taken effect has made one record, with the sender's scope
\* and fields; one that has not has made none.
MadeOne(t) ==
  \E i \in Ids : /\ ledger[i] = [owner |-> t, scope |-> ScopeOf[t],
                                 content |-> ContentOf[t]]
                 /\ Made(t) = {i}

MadeInv ==
  \A t \in Threads : IF request[t] = "done" THEN MadeOne(t) ELSE Made(t) = {}

\* While a thread is in its window, its own record is new to it.
WindowInv ==
  \A t \in Threads :
    pc[t] \in {"create", "posted", "after"} => Made(t) \cap before[t] = {}

\* With nobody deleting, that record is still there.
NothingDeleted == alive = Ids

\* A thread has a result only once it has ended.
ResultInv ==
  \A t \in Threads : /\ result[t] # "none" <=> pc[t] = "ended"
                     /\ bound[t] # NoRecord => result[t] = "bound"

\* What holds of every call, whoever deletes records meanwhile.
BaseInv ==
  /\ TypeOK
  /\ RequestInv
  /\ MadeInv
  /\ WindowInv
  /\ ResultInv

OwnInv ==
  /\ BaseInv
  /\ NothingDeleted
  /\ BindsOwn

-----------------------------------------------------------------------------
(* Siblings: threads of one process creating in one scope.                 *)

Siblings(t, u) ==
  t # u /\ ProcessOf[t] = ProcessOf[u] /\ ScopeOf[t] = ScopeOf[u]

Listed(t) == pc[t] \in {"create", "posted", "after"}

\* What a sibling has bound is not new to a thread that lists after it.
SharedInv ==
  /\ \A t \in Threads : result[t] = "bound" =>
       bound[t] \in Ids /\ ledger[bound[t]].scope = ScopeOf[t]
  /\ \A t, u \in Threads :
       (Siblings(t, u) /\ result[t] = "bound" /\ Listed(u))
         => bound[t] \in before[u] \/ bound[t] \notin alive
  /\ NoSharedRecord

\* Nor is what a sibling has made, unless its POST was given up.
Answered(u) == result[u] \notin {"none", "failed"}
SiblingInv ==
  /\ \A u \in Threads : Answered(u) => request[u] = "done"
  /\ \A t, u \in Threads : (Siblings(t, u) /\ Answered(u) /\ Listed(t))
       => \A i \in Made(u) : i \in before[t] \/ i \notin alive
  /\ OnlyOutsidersConfuse

-----------------------------------------------------------------------------
(* Waiting for a lock.                                                     *)

\* A lock that is taken is held by a thread of its process that is in its
\* window in that scope: no return and no error leaves one behind.
NoLockLeft ==
  \A p \in Processes, s \in Scopes :
    lock[p][s] # NoThread =>
      \E u \in Threads : /\ lock[p][s] = u
                         /\ ProcessOf[u] = p /\ ScopeOf[u] = s
                         /\ InWindow(u)

\* Whoever waits for a lock waits for a thread that waits for none, and when all
\* have returned every lock is free (lockParent's unlocks are all deferred).
NobodyIsStuck ==
  /\ \A t \in Threads :
       (pc[t] = "start" /\ LockOf(t) # NoThread)
         => \E u \in Threads : Siblings(t, u) /\ InWindow(u) /\ LockOf(u) = u
  /\ (\A t \in Threads : ~InWindow(t))
       => \A p \in Processes, s \in Scopes : lock[p][s] = NoThread
=============================================================================
