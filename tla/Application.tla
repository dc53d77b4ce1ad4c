---------------------------- MODULE Application -----------------------------
(***************************************************************************)
(* dokploy_application over successive `terraform apply` runs: refresh     *)
(* (Read), plan, and Create, Update or Delete as sequences of API calls    *)
(* any of which may fail, with or without having taken effect, while the   *)
(* operator edits the configuration between runs and somebody else uses    *)
(* the server at any time.                                                 *)
(*                                                                         *)
(* The attributes are taken in groups, by the endpoint that writes them:   *)
(*   place   environment_id                         application.move       *)
(*   meta    name, description and the settings     application.update     *)
(*           that do not deploy (operationalChanged)                       *)
(*   net     network_ids, swarm, ...                application.update     *)
(*   source  the source block                       application.save*      *)
(*   watch   watch_paths, enable_submodules         the same, unless the   *)
(*                                                  source is docker       *)
(*   build   the build block (optional, computed)   application.saveBuildType *)
(*   env     env, build_args, build_secrets, ...    application.saveEnvironment *)
(* deploy_on_change is true throughout.                                    *)
(***************************************************************************)
EXTENDS Integers, Sequences

CONSTANTS
  Groups,        \* the groups a run looks at
  ValuesOf,      \* the values of each group
  Default,       \* the record application.create makes
  Unset,         \* an optional block the configuration leaves out
  Absent,        \* no state, no record, no plan
  Docker,        \* the docker values of the source group
  MaxEdits,      \* bound: edits of the configuration
  MaxFailures,   \* bound: API calls that fail
  MaxOutside     \* bound: changes made by anybody else

AllGroups == {"place", "meta", "net", "source", "watch", "build", "env"}

\* The build block is the only one that may be left out and is computed.
ASSUME GroupsAssumption ==
  /\ Groups \subseteq AllGroups
  /\ \A g \in Groups : Default[g] \in ValuesOf[g] \ {Unset}
  /\ DOMAIN ValuesOf = Groups /\ DOMAIN Default = Groups
  /\ \A g \in Groups \ {"build"} : Unset \notin ValuesOf[g]

ASSUME BoundsAssumption ==
  MaxEdits \in Nat /\ MaxFailures \in Nat /\ MaxOutside \in Nat

VARIABLES
  config,     \* the configuration
  state,      \* the Terraform state, or Absent
  tainted,    \* Create failed after storing a state: replace at the next apply
  server,     \* the application at the server, or Absent
  deployed,   \* what the last deployment begun was made from
  pc,         \* where Terraform is
  plan,       \* the planned values of the apply
  prior,      \* the state it was planned against
  result,     \* how the last apply ended; "none" after an edit
  meddled,    \* somebody else changed the server since the last refresh
  edits, failures, outside   \* counters for the bounds

vars == <<config, state, tainted, server, deployed, pc, plan, prior, result,
          meddled, edits, failures, outside>>

Models == {m \in [Groups -> UNION {ValuesOf[g] : g \in Groups}] :
             \A g \in Groups : m[g] \in ValuesOf[g]}

ASSUME AbsentAssumption == Absent \notin Models

\* The calls of Update, in order; Create makes the same ones after its own.
Steps == <<"move", "update", "source", "build", "env">>

CarriedBy(step) ==
  Groups \cap CASE step = "move"   -> {"place"}
                [] step = "update" -> {"meta", "net"}
                [] step = "source" -> {"source", "watch"}
                [] step = "build"  -> {"build"}
                [] step = "env"    -> {"env"}

\* Mutant: network_ids is left out of the update request.
WrittenByWithoutNet(step, m) ==
  IF step = "source" /\ "source" \in Groups /\ m["source"] \in Docker
    THEN CarriedBy(step) \ {"watch"} ELSE CarriedBy(step) \ {"net"}

\* saveDockerProvider has no watch paths and no submodules to send.
WrittenBy(step, m) ==
  IF step = "source" /\ "source" \in Groups /\ m["source"] \in Docker
    THEN CarriedBy(step) \ {"watch"} ELSE CarriedBy(step)

Init ==
  /\ config = [g \in Groups |-> IF Unset \in ValuesOf[g] THEN Unset ELSE Default[g]]
  /\ state = Absent
  /\ tainted = FALSE
  /\ server = Absent
  /\ deployed = Absent
  /\ pc = "idle"
  /\ plan = Absent
  /\ prior = Absent
  /\ result = "none"
  /\ meddled = FALSE
  /\ edits = 0
  /\ failures = 0
  /\ outside = 0

-----------------------------------------------------------------------------
(* Refresh and plan. *)

\* A call may fail while the budget lasts; one about a record that is gone
\* always does.
MayFail ==
  /\ failures < MaxFailures
  /\ failures' = failures + 1

CallMayFail == MayFail \/ (server = Absent /\ UNCHANGED failures)

Refresh ==
  /\ pc = "idle"
  /\ pc' = "plan"
  /\ state' = IF state = Absent THEN Absent ELSE server
  /\ tainted' = (tainted /\ server # Absent)
  /\ meddled' = FALSE
  /\ UNCHANGED <<config, server, deployed, plan, prior, result, edits,
                 failures, outside>>

RefreshFails ==
  /\ pc = "idle"
  /\ state # Absent /\ server # Absent
  /\ MayFail
  /\ result' = "error"
  /\ UNCHANGED <<config, state, tainted, server, deployed, pc, plan, prior,
                 meddled, edits, outside>>

\* A computed block left out of the configuration keeps its state value.
Planned ==
  [g \in Groups |-> IF config[g] = Unset /\ state # Absent THEN state[g]
                                                          ELSE config[g]]

Plan ==
  /\ pc = "plan"
  /\ plan' = Planned
  /\ prior' = state
  /\ \/ state = Absent /\ pc' = "create" /\ UNCHANGED result
     \/ state # Absent /\ tainted /\ pc' = "delete" /\ UNCHANGED result
     \/ /\ state # Absent /\ ~tainted
        /\ IF Planned = state
             THEN pc' = "idle" /\ result' = "ok"
             ELSE pc' = Steps[1] /\ UNCHANGED result
  /\ UNCHANGED <<config, state, tainted, server, deployed, meddled, edits,
                 failures, outside>>

-----------------------------------------------------------------------------
(* Delete, and the calls of Create and Update. *)

Creating == prior = Absent

\* Delete for a replacement; an application that is gone counts as deleted.
Delete ==
  /\ pc = "delete"
  /\ server' = Absent
  /\ deployed' = Absent
  /\ state' = Absent
  /\ tainted' = FALSE
  /\ prior' = Absent
  /\ plan' = config
  /\ pc' = "create"
  /\ UNCHANGED <<config, result, meddled, edits, failures, outside>>

DeleteFails ==
  /\ pc = "delete"
  /\ server # Absent
  /\ MayFail
  /\ server' \in {server, Absent}
  /\ deployed' = IF server' = Absent THEN Absent ELSE deployed
  /\ pc' = "idle"
  /\ result' = "error"
  /\ UNCHANGED <<config, state, tainted, plan, prior, meddled, edits, outside>>

\* application.create takes the name, the description and the place.
CreateCall ==
  /\ pc = "create"
  /\ server' = [g \in Groups |-> IF g \in {"place"} THEN plan[g] ELSE Default[g]]
  /\ deployed' = Absent
  /\ pc' = "update"
  /\ UNCHANGED <<config, state, tainted, plan, prior, result, meddled, edits,
                 failures, outside>>

\* Nothing is stored: a record made by a create whose answer is lost is not
\* this resource's any more.
CreateFails ==
  /\ pc = "create"
  /\ MayFail
  /\ pc' = "idle"
  /\ result' = "error"
  /\ UNCHANGED <<config, state, tainted, server, deployed, plan, prior, meddled,
                 edits, outside>>

After(step) ==
  LET i == CHOOSE j \in DOMAIN Steps : Steps[j] = step
  IN  IF i < Len(Steps) THEN Steps[i + 1] ELSE "readback"

\* Mutant: Create saves a build block that the configuration leaves out.
NeededUnset(step) ==
  IF Creating
    THEN CASE step = "env" -> \E g \in CarriedBy(step) : plan[g] # Default[g]
           [] OTHER        -> TRUE
    ELSE \E g \in CarriedBy(step) : plan[g] # prior[g] /\ plan[g] # Unset

\* Mutant: the source is saved when its block changes, watch_paths or not.
NeededByBlock(step) ==
  IF Creating
    THEN CASE step = "build" -> \E g \in CarriedBy(step) : plan[g] # Unset
           [] step = "env"   -> \E g \in CarriedBy(step) : plan[g] # Default[g]
           [] OTHER          -> TRUE
    ELSE \E g \in CarriedBy(step) \ {"watch"} :
           plan[g] # prior[g] /\ plan[g] # Unset

\* Update calls an endpoint when something it carries differs from the state;
\* Create calls every one that has something to say.
Needed(step) ==
  IF Creating
    THEN CASE step = "build" -> \E g \in CarriedBy(step) : plan[g] # Unset
           [] step = "env"   -> \E g \in CarriedBy(step) : plan[g] # Default[g]
           [] OTHER          -> TRUE
    ELSE \E g \in CarriedBy(step) : plan[g] # prior[g] /\ plan[g] # Unset

Write(step) ==
  server' = [g \in Groups |-> IF g \in WrittenBy(step, plan) THEN plan[g]
                                                           ELSE server[g]]

Save(step) ==
  /\ pc = step
  /\ IF Needed(step) THEN server # Absent /\ Write(step) ELSE UNCHANGED server
  /\ pc' = After(step)
  /\ UNCHANGED <<config, state, tainted, deployed, plan, prior, result, meddled,
                 edits, failures, outside>>

\* Update returns without touching the state; Create stores what it planned
\* (persistPartial), and Terraform taints a resource whose create has failed.
Abort ==
  /\ pc' = "idle"
  /\ result' = "error"
  /\ IF Creating THEN state' = plan /\ tainted' = TRUE
                 ELSE UNCHANGED <<state, tainted>>

SaveFails(step) ==
  /\ pc = step
  /\ Needed(step)
  /\ CallMayFail
  /\ UNCHANGED server \/ (server # Absent /\ Write(step))
  /\ Abort
  /\ UNCHANGED <<config, deployed, plan, prior, meddled, edits, outside>>

\* setComputed: a block left unset is filled in from the server.
ReadBack ==
  /\ pc = "readback"
  /\ server # Absent
  /\ plan' = [g \in Groups |-> IF plan[g] = Unset THEN server[g] ELSE plan[g]]
  /\ pc' = "deploy"
  /\ UNCHANGED <<config, state, tainted, server, deployed, prior, result,
                 meddled, edits, failures, outside>>

ReadBackFails ==
  /\ pc = "readback"
  /\ CallMayFail
  /\ Abort
  /\ UNCHANGED <<config, server, deployed, plan, prior, meddled, edits, outside>>

DeployGroups == Groups \ {"place", "meta"}

\* Mutant: the environment does not count as a change to deploy.
deployNeededWithoutEnv(m, s) == \E g \in DeployGroups \ {"env"} : m[g] # s[g]

deployNeeded(m, s) == \E g \in DeployGroups : m[g] # s[g]

Deploys == IF Creating THEN TRUE ELSE deployNeeded(plan, prior)

\* deployAndWait, when there is something to deploy, and the final State.Set.
Finish ==
  /\ pc = "deploy"
  /\ IF Deploys THEN server # Absent /\ deployed' = server
                ELSE UNCHANGED deployed
  /\ state' = plan
  /\ pc' = "idle"
  /\ result' = "ok"
  /\ UNCHANGED <<config, tainted, server, plan, prior, meddled, edits,
                 failures, outside>>

\* The deploy is refused, fails, or outlives the wait: the state is stored.
DeployFails ==
  /\ pc = "deploy"
  /\ Deploys
  /\ CallMayFail
  /\ deployed' \in {deployed, server}
  /\ state' = plan
  /\ tainted' = Creating
  /\ pc' = "idle"
  /\ result' = "error"
  /\ UNCHANGED <<config, server, plan, prior, meddled, edits, outside>>

-----------------------------------------------------------------------------
(* The operator, and whoever else uses the server. *)

Edit(g, v) ==
  /\ pc = "idle"
  /\ edits < MaxEdits
  /\ v # config[g]
  /\ config' = [config EXCEPT ![g] = v]
  /\ edits' = edits + 1
  /\ result' = "none"
  /\ UNCHANGED <<state, tainted, server, deployed, pc, plan, prior, meddled,
                 failures, outside>>

OutsideChange(g, v) ==
  /\ server # Absent
  /\ outside < MaxOutside
  /\ v \notin {server[g], Unset}
  /\ server' = [server EXCEPT ![g] = v]
  /\ meddled' = TRUE
  /\ outside' = outside + 1
  /\ UNCHANGED <<config, state, tainted, deployed, pc, plan, prior, result,
                 edits, failures>>

OutsideDelete ==
  /\ server # Absent
  /\ outside < MaxOutside
  /\ server' = Absent
  /\ deployed' = Absent
  /\ meddled' = TRUE
  /\ outside' = outside + 1
  /\ UNCHANGED <<config, state, tainted, pc, plan, prior, result, edits,
                 failures>>

-----------------------------------------------------------------------------
Calls == {"move", "update", "source", "build", "env"}

Next ==
  \/ Refresh \/ RefreshFails \/ Plan
  \/ Delete \/ DeleteFails \/ CreateCall \/ CreateFails
  \/ \E step \in Calls : Save(step) \/ SaveFails(step)
  \/ ReadBack \/ ReadBackFails \/ Finish \/ DeployFails
  \/ \E g \in Groups : \E v \in ValuesOf[g] : Edit(g, v) \/ OutsideChange(g, v)
  \/ OutsideDelete

Spec == Init /\ [][Next]_vars

-----------------------------------------------------------------------------
(* Properties. *)

\* Every variable has its type; the server never holds an unset value.
TypeOK ==
  /\ config \in Models
  /\ state = Absent \/ state \in Models
  /\ tainted \in BOOLEAN
  /\ server = Absent \/ (server \in Models /\ \A g \in Groups : server[g] # Unset)
  /\ deployed = Absent \/ deployed \in Models
  /\ pc \in {"idle", "plan", "delete", "create", "readback", "deploy"} \cup Calls
  /\ plan = Absent \/ plan \in Models
  /\ prior = Absent \/ prior \in Models
  /\ result \in {"none", "ok", "error"}
  /\ meddled \in BOOLEAN
  /\ edits \in 0 .. MaxEdits
  /\ failures \in 0 .. MaxFailures
  /\ outside \in 0 .. MaxOutside

\* The last apply of the present configuration ended without an error, and
\* nobody else has touched the server since it looked.
Applied == pc = "idle" /\ result = "ok" /\ ~meddled

\* The groups the configuration has a say in: not the watch paths of docker.
Managed == IF "source" \in Groups /\ config["source"] \in Docker
             THEN Groups \ {"watch"} ELSE Groups

\* An apply that ends without an error has brought the server to the
\* configuration, whatever half-finished, tainted or drifted state it started
\* from (persistPartial, "The next apply will converge").
ApplyConverges ==
  Applied => /\ server # Absent
             /\ \A g \in Managed : config[g] # Unset => server[g] = config[g]

\* The handlers implement Reconcile: whatever fails, they write nothing but
\* what is configured, deploy nothing but all of it, and end without an error
\* only when the server has it; a block left out is not theirs.
Wanted ==
  [value |-> [g \in {h \in Managed : config[h] # Unset} |-> config[g]],
   hidden |-> {}, resent |-> {}]

Contract == INSTANCE Reconcile WITH
  NoRecord <- Absent,
  Unseen <- {},
  wanted <- Wanted,
  record <- server,
  verdict <- IF pc = "idle" THEN result ELSE "running",
  disturbed <- meddled,
  others <- outside
ImplementsReconcile == Contract!Spec

\* After such an apply the state holds what the server holds, so the next
\* plan is empty: state never "claims a value the server does not hold".
StateIsHonest ==
  Applied => ~tainted /\ \A g \in Managed : state[g] = server[g]

\* An apply that changed something a deployment is made of, and ended without
\* an error, has deployed all of what the server now holds.
ChangedByApply ==
  IF prior = Absent THEN TRUE ELSE \E g \in DeployGroups : plan[g] # prior[g]
AppliedChangeIsDeployed ==
  (Applied /\ server # Absent /\ ChangedByApply)
    => \A g \in DeployGroups : deployed # Absent /\ deployed[g] = server[g]

\* "A service redeploys when its configuration changes": once an apply ends
\* without an error, what the server holds has been deployed.
ChangeIsDeployed ==
  Applied => \A g \in DeployGroups : deployed # Absent /\ deployed[g] = server[g]
=============================================================================
