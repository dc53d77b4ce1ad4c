------------------------------ MODULE Service -------------------------------
(***************************************************************************)
(* A database, libsql or compose service over successive `terraform apply` *)
(* runs: refresh (Read), plan, and Create, Update or Delete as sequences   *)
(* of calls any of which may fail, with or without having taken effect,    *)
(* while the operator edits the configuration between runs and somebody    *)
(* else uses the server at any time.  ServiceKinds says what the services  *)
(* differ in.                                                              *)
(*                                                                         *)
(* The attributes are taken in groups, by the request that carries them:   *)
(*   place             environment_id               move                   *)
(*   names             database_name, _user         create only            *)
(*   meta              name, description            create and update      *)
(*   image             docker_image                 create and update      *)
(*   node              sqld_node, sqld_primary_url  create and update      *)
(*   ops               networks, limits, swarm; the source of a compose    *)
(*                                                  update                 *)
(*   env               env                          saveEnvironment        *)
(*   port, admin, grpc the external ports           saveExternalPort(s)    *)
(* Each is First (what a server has when nothing was sent: no port, the    *)
(* primary node) or Other.  A secret is given as the plain attribute, as   *)
(* its write-only companion with or without a version, or, when the server *)
(* can make one up, left out.                                              *)
(***************************************************************************)
EXTENDS Integers, Sequences

CONSTANTS
  Kinds,        \* the services to look at
  First, Other, \* the values of a group
  Passwords,    \* the secrets a configuration may give
  Empty,        \* "" as a secret
  Generated,    \* the secret a server makes up
  Theirs,       \* a secret somebody else sets
  Null,         \* no value
  Unknown,      \* "known after apply"
  Absent,       \* no state, no record, no plan, no answer
  Versioned,    \* an edit of a companion comes with a new version
  MaxEdits,     \* bound: edits of the configuration
  MaxFailures,  \* bound: calls that fail
  MaxOutside,   \* bound: changes made by anybody else
  Edited,       \* bound: the groups the operator changes
  Disturbed     \* bound: the groups they change

ASSUME ValuesAssumption ==
  /\ First # Other
  /\ Passwords # {}
  /\ Passwords \cap {Empty, Generated, Theirs} = {}
  /\ {Null, Unknown} \cap (Passwords \cup {Empty, Generated, Theirs}) = {}
  /\ Generated # Empty /\ Null # Unknown

ASSUME BoundsAssumption ==
  /\ Versioned \in BOOLEAN
  /\ MaxEdits \in Nat /\ MaxFailures \in Nat /\ MaxOutside \in Nat

SomeSecret == Passwords \cup {Empty, Generated, Theirs}

\* The states and plans of a service, and its records.
ModelsOf(k) ==
  [attrs : [k.schema.groups -> {First, Other}],
   secret : [k.schema.secrets -> SomeSecret \cup {Null, Unknown}],
   version : [k.schema.secrets -> 0 .. MaxEdits + 1], auto : BOOLEAN]

RecordsOf(k) ==
  [attrs : [k.schema.groups -> {First, Other}],
   secret : [k.schema.secrets -> SomeSecret]]

ASSUME AbsentAssumption ==
  \A k \in Kinds : Absent \notin ModelsOf(k) \cup RecordsOf(k)

VARIABLES
  kind,       \* the service
  config,     \* the configuration
  state,      \* the Terraform state, or Absent
  flags,      \* the private state: the secrets whose companion is in use
  tainted,    \* Create failed after storing a state: replace at the next apply
  server,     \* the record, or Absent
  deployed,   \* what the last deployment begun was made from
  pc,         \* where Terraform is
  plan,       \* the planned values of the apply
  prior,      \* the state it was planned against
  seen,       \* the record as the handler last read it, or Absent
  result,     \* how the last apply ended; "none" after an edit
  meddled,    \* somebody else changed the record since the last refresh
  edits, failures, outside   \* counters for the bounds

vars == <<kind, config, state, flags, tainted, server, deployed, pc, plan,
          prior, seen, result, meddled, edits, failures, outside>>

Groups   == kind.schema.groups
Secrets  == kind.schema.secrets
Computed == kind.schema.computed
Ports    == Groups \cap {"port", "admin", "grpc"}
Models   == ModelsOf(kind)
Records  == RecordsOf(kind)

\* A configuration, a state or a plan, and a record.
Configuration(attrs, form, secret, version, auto) ==
  [attrs |-> attrs, form |-> form, secret |-> secret, version |-> version, auto |-> auto]

Model(attrs, secret, version, auto) ==
  [attrs |-> attrs, secret |-> secret, version |-> version, auto |-> auto]

Stored(attrs, secret) == [attrs |-> attrs, secret |-> secret]

\* ValidateConfig: a replica has no external port.
Valid(attrs) ==
  ("node" \in Groups /\ attrs["node"] = Other) => \A p \in Ports : attrs[p] = First

\* What a configuration may say of a secret: the forms the schema lets it
\* take.  Where the server makes up another one, "" is enough to tell from.
FirstPassword == CHOOSE v \in Passwords : TRUE

SecretChoices(s) ==
  IF s \in Computed
    THEN {[form |-> f, secret |-> v] : f \in {"plain", "companion"},
                                      v \in {FirstPassword, Empty}}
         \cup {[form |-> "omitted", secret |-> Null]}
    ELSE {[form |-> f, secret |-> v] : f \in {"plain", "companion"}, v \in Passwords}

VersionOf(form, next) == IF form = "companion" /\ Versioned THEN next ELSE 0

\* deploy_on_change by default; a libsql with no port or with all three.
Init ==
  /\ kind \in Kinds
  /\ \E open \in {{}, IF "node" \in Groups THEN Ports ELSE {}} :
     \E c \in [Secrets -> UNION {SecretChoices(s) : s \in Secrets}] :
       /\ \A s \in Secrets :
            c[s] \in SecretChoices(s) /\ c[s].secret \in {Null, FirstPassword}
       /\ config = Configuration(
                      [g \in Groups |-> IF g \in open THEN Other ELSE First],
                      [s \in Secrets |-> c[s].form],
                      [s \in Secrets |-> c[s].secret],
                      [s \in Secrets |-> VersionOf(c[s].form, 1)],
                      TRUE)
  /\ state = Absent
  /\ flags = {}
  /\ tainted = FALSE
  /\ server = Absent
  /\ deployed = Absent
  /\ pc = "idle"
  /\ plan = Absent
  /\ prior = Absent
  /\ seen = Absent
  /\ result = "none"
  /\ meddled = FALSE
  /\ edits = 0
  /\ failures = 0
  /\ outside = 0

-----------------------------------------------------------------------------
(* Refresh and plan. *)

\* A call may fail while the budget lasts.
MayFail ==
  /\ failures < MaxFailures
  /\ failures' = failures + 1

\* flatten, and the flags hide what companions set.
Flattened ==
  Model(server.attrs,
        [s \in Secrets |-> IF s \in flags THEN Null ELSE server.secret[s]],
        state.version, state.auto)

Refresh ==
  /\ pc = "idle"
  /\ pc' = "plan"
  /\ IF state # Absent /\ server # Absent
       THEN state' = Flattened /\ UNCHANGED <<flags, tainted>>
       ELSE state' = Absent /\ flags' = {} /\ tainted' = FALSE
  /\ meddled' = FALSE
  /\ plan' = Absent /\ prior' = Absent
  /\ UNCHANGED <<kind, config, server, deployed, seen, result, edits, failures,
                 outside>>

RefreshFails ==
  /\ pc = "idle"
  /\ state # Absent /\ server # Absent
  /\ MayFail
  /\ result' = "error"
  /\ plan' = Absent /\ prior' = Absent
  /\ UNCHANGED <<kind, config, state, flags, tainted, server, deployed, pc,
                 seen, meddled, edits, outside>>

Companions == {s \in Secrets : config.form[s] = "companion"}

\* The configuration, with the computed secrets it leaves unset taken from
\* `filled`.
PlanWith(filled) ==
  Model(config.attrs,
        [s \in Secrets |-> IF config.form[s] = "plain" THEN config.secret[s]
                           ELSE IF s \in Computed THEN filled[s]
                           ELSE Null],
        config.version, config.auto)

\* Terraform proposes the state's value for a computed secret left unset...
Proposed == PlanWith(state.secret)

\* ... and if anything else differs ComputedSecretPlan has its say.
ComputedSecretPlan(s) ==
  IF s \in Companions THEN Null
  ELSE IF state.secret[s] = Null THEN Unknown
  ELSE state.secret[s]

Planned ==
  IF Proposed = state THEN state
  ELSE PlanWith([s \in Secrets |-> ComputedSecretPlan(s)])

PlannedNew == PlanWith([s \in Secrets |-> Unknown])

\* RequiresReplace.
MustReplace ==
  tainted \/ ("names" \in Groups /\ config.attrs["names"] # state.attrs["names"])

Plan ==
  /\ pc = "plan"
  /\ prior' = state
  /\ \/ state = Absent /\ plan' = PlannedNew /\ pc' = "create" /\ UNCHANGED result
     \/ /\ state # Absent /\ MustReplace
        /\ plan' = PlannedNew /\ pc' = "delete" /\ UNCHANGED result
     \/ /\ state # Absent /\ ~MustReplace
        /\ plan' = Planned
        /\ IF Planned # state THEN pc' = kind.flow.updates[1] /\ UNCHANGED result
                             ELSE pc' = "idle" /\ result' = "ok"
  /\ UNCHANGED <<kind, config, state, flags, tainted, server, deployed, seen,
                 meddled, edits, failures, outside>>

-----------------------------------------------------------------------------
(* Delete and create. *)

Creating == prior = Absent

Stop(how) == pc' = "idle" /\ result' = how /\ seen' = Absent

\* Delete for a replacement; a service that is gone counts as deleted.
Delete ==
  /\ pc = "delete"
  /\ server' = Absent
  /\ deployed' = Absent
  /\ state' = Absent
  /\ flags' = {}
  /\ tainted' = FALSE
  /\ prior' = Absent
  /\ pc' = "create"
  /\ UNCHANGED <<kind, config, plan, seen, result, meddled, edits, failures,
                 outside>>

DeleteFails ==
  /\ pc = "delete"
  /\ server # Absent
  /\ MayFail
  /\ server' \in {server, Absent}
  /\ deployed' = IF server' = Absent THEN Absent ELSE deployed
  /\ Stop("error")
  /\ UNCHANGED <<kind, config, state, flags, tainted, plan, prior, meddled,
                 edits, outside>>

\* checkCredentialsCreatable: the server would generate a secret for a "".
Uncreatable == \E s \in Computed : config.secret[s] = Empty

\* A create request: "" and an absent key both leave a computed secret to the
\* server.
Made ==
  Stored([g \in Groups |-> IF g \in kind.wire.made THEN plan.attrs[g] ELSE First],
         [s \in Secrets |-> IF config.secret[s] = Null THEN Generated
                                                       ELSE config.secret[s]])

Steps == IF Creating THEN kind.flow.creates ELSE kind.flow.updates

PositionOf(step) == CHOOSE i \in DOMAIN Steps : Steps[i] = step

After(step) == Steps[PositionOf(step) + 1]

CreateCall ==
  /\ pc = "create"
  /\ ~Uncreatable
  /\ server' = Made
  /\ deployed' = Absent
  /\ flags' = Companions
  /\ pc' = After("create")
  /\ UNCHANGED <<kind, config, state, tainted, plan, prior, seen, result,
                 meddled, edits, failures, outside>>

\* Nothing is stored: a record made by a create whose answer is lost is not
\* this resource's any more.
CreateFails ==
  /\ pc = "create"
  /\ MayFail \/ (Uncreatable /\ UNCHANGED failures)
  /\ Stop("error")
  /\ UNCHANGED <<kind, config, state, flags, tainted, server, deployed, plan,
                 prior, meddled, edits, outside>>

-----------------------------------------------------------------------------
(* What the calls of Create and Update carry. *)

PriorAttr(g) == IF Creating THEN First ELSE prior.attrs[g]

Changed(g) == plan.attrs[g] # PriorAttr(g)

PortsChanged == {p \in Ports : Changed(p)}

\* Mutant: the ports are sent after the update whatever the node becomes.
NeverBefore == FALSE

\* A replica refuses every change of its ports, so they are cleared before
\* the update makes it one.
BecomingReplica ==
  /\ "node" \in Groups /\ ~Creating
  /\ plan.attrs["node"] = Other /\ prior.attrs["node"] # Other

\* Mutant: three nulls travel in one request.
NeverSplit == FALSE

\* All three ports are to be cleared, which one request may not say.
FullClear ==
  "grpc" \in Ports /\ PortsChanged = Ports /\ \A p \in Ports : plan.attrs[p] = First

\* setComputed: the image and a computed secret are what the record holds.
Resolved(record) ==
  Model([g \in Groups |-> IF g = "image" THEN record.attrs[g] ELSE plan.attrs[g]],
        [s \in Secrets |-> IF s \notin Computed THEN plan.secret[s]
                           ELSE IF s \in Companions THEN Null
                           ELSE record.secret[s]],
        plan.version, plan.auto)

\* The value a handler holds for a secret when it makes the update.
Held(s) ==
  IF Creating /\ s \in Computed THEN Resolved(seen).secret[s] ELSE plan.secret[s]

\* Mutant: a companion goes out at the switch only, not with a new version.
SendsAtSwitch(s) ==
  \/ Held(s) \notin {Null, Unknown}
  \/ s \in Companions /\ (Creating \/ prior.secret[s] # Null)

\* SecretToUpdate: a plain value is sent; a companion is sent when the plain
\* one has just left the state, or its version has changed.
Sends(s) ==
  \/ Held(s) \notin {Null, Unknown}
  \/ /\ s \in Companions
     /\ IF Creating
          THEN s \notin Computed \/ plan.version[s] # 0
          ELSE prior.secret[s] # Null \/ plan.version[s] # prior.version[s]

\* credentialsNeedServerValue
NeedsServerValue == \E s \in Computed : Held(s) \in {Null, Unknown} /\ ~Sends(s)

\* Mutant: nothing to send goes out as "".
NothingIsEmpty(s) ==
  IF ~Sends(s) THEN Empty
  ELSE IF Held(s) \notin {Null, Unknown} THEN Held(s) ELSE config.secret[s]

\* resolveCredentials: what the update says of a secret; Empty if nothing.
ToSend(s) ==
  IF Sends(s) THEN IF Held(s) \notin {Null, Unknown} THEN Held(s) ELSE config.secret[s]
  ELSE IF s \in Computed THEN seen.secret[s] ELSE Empty

\* An empty value drops the key, and the server keeps what it holds, unless
\* the key is always sent.
StoredSecret(s) ==
  IF ToSend(s) = Empty /\ s \notin kind.wire.literal THEN server.secret[s]
                                                     ELSE ToSend(s)

Carried(step) ==
  CASE step = "move"                     -> {"place"}
    [] step = "update"                   -> kind.wire.updated
    [] step = "env"                      -> {"env"}
    [] step \in {"early", "ports"}       -> IF FullClear THEN Ports \ {"grpc"}
                                                         ELSE PortsChanged
    [] step \in {"earlyRest", "portsRest"} -> {"grpc"}

\* Whether a handler makes the call of a step.
Needed(step) ==
  \/ step = "move" /\ Changed("place")
  \/ step = "before" /\ NeedsServerValue
  \/ step = "readback"
  \/ step = "update" /\ (~Creating \/ kind.flow.follow = "always" \/ Changed("ops"))
  \/ step = "env" /\ Changed("env")
  \/ step = "early" /\ BecomingReplica /\ PortsChanged # {}
  \/ step = "earlyRest" /\ BecomingReplica /\ FullClear
  \/ step = "ports" /\ ~BecomingReplica /\ PortsChanged # {}
  \/ step = "portsRest" /\ ~BecomingReplica /\ FullClear

\* libsql.saveExternalPorts refuses a replica, and a request of three nulls.
Refused(step) ==
  /\ step \in {"early", "earlyRest", "ports", "portsRest"}
  /\ "node" \in Groups
  /\ \/ server.attrs["node"] = Other
     \/ Carried(step) = Ports /\ \A p \in Ports : plan.attrs[p] = First

Effect(step) ==
  server' = Stored([g \in Groups |-> IF g \in Carried(step) THEN plan.attrs[g]
                                                          ELSE server.attrs[g]],
                   [s \in Secrets |-> IF step = "update" THEN StoredSecret(s)
                                                         ELSE server.secret[s]])

-----------------------------------------------------------------------------
(* The calls of Create and Update. *)

Writes == {"move", "early", "earlyRest", "update", "env", "ports", "portsRest"}
Reads  == {"before", "readback"}

\* Nothing but the provider's own attributes differs: libsql and compose
\* store them without a call.
OnlyProviderAttributesChanged ==
  /\ kind.flow.deploys = "any"
  /\ plan.attrs = prior.attrs /\ plan.secret = prior.secret
  /\ plan.version = prior.version

\* Update notes the companions in use once the service is in its place.
Noted(step) == flags' = IF step = "move" THEN Companions ELSE flags

Shortcut ==
  /\ pc = "move"
  /\ OnlyProviderAttributesChanged
  /\ state' = plan
  /\ Noted("move")
  /\ Stop("ok")
  /\ UNCHANGED <<kind, config, tainted, server, deployed, plan, prior, meddled,
                 edits, failures, outside>>

Call(step) ==
  /\ pc = step
  /\ ~(step = "move" /\ OnlyProviderAttributesChanged)
  /\ IF Needed(step) THEN server # Absent /\ ~Refused(step) /\ Effect(step)
                     ELSE UNCHANGED server
  /\ Noted(step)
  /\ pc' = After(step)
  /\ UNCHANGED <<kind, config, state, tainted, deployed, plan, prior, seen,
                 result, meddled, edits, failures, outside>>

\* The read before an update, and the one at the end.
Look(step) ==
  /\ pc = step
  /\ IF Needed(step) THEN server # Absent /\ seen' = server
                     ELSE UNCHANGED seen
  /\ pc' = After(step)
  /\ UNCHANGED <<kind, config, state, flags, tainted, server, deployed, plan,
                 prior, result, meddled, edits, failures, outside>>

\* Mutant: a secret that is still unknown goes into the state.
StillUnknown(secret) == plan

\* resolveUnknownComputedCredentials: one more read, if it succeeds, for a
\* secret that is still unknown.
Salvaged(secret) ==
  Model(plan.attrs,
        [s \in Secrets |-> IF plan.secret[s] # Unknown THEN plan.secret[s]
                           ELSE IF secret = Absent \/ s \in Companions THEN Null
                           ELSE secret[s]],
        plan.version, plan.auto)

\* Update returns without touching the state; Create stores what it has
\* (persistPartial), and Terraform taints a resource whose create has failed.
Abort ==
  /\ IF Creating
       THEN /\ tainted' = TRUE
            /\ IF seen # Absent THEN state' = Resolved(seen)
               ELSE \E read \in {Absent} \cup (IF server = Absent THEN {}
                                               ELSE {server.secret}) :
                      state' = Salvaged(read)
       ELSE UNCHANGED <<state, tainted>>
  /\ Stop("error")

\* A call fails: refused, about a service that is gone, or by misfortune, and
\* then it may have taken effect.
CallFails(step) ==
  /\ pc = step
  /\ Needed(step)
  /\ IF server = Absent \/ Refused(step)
       THEN UNCHANGED <<server, failures>>
       ELSE MayFail /\ (UNCHANGED server \/ Effect(step))
  /\ Abort
  /\ UNCHANGED <<kind, config, flags, deployed, plan, prior, meddled, edits,
                 outside>>

LookFails(step) ==
  /\ pc = step
  /\ Needed(step)
  /\ IF server = Absent THEN UNCHANGED failures ELSE MayFail
  /\ Abort
  /\ UNCHANGED <<kind, config, flags, server, deployed, plan, prior, meddled,
                 edits, outside>>

\* What a deployment is made of.
DeployGroups == Groups \ {"place", "names", "meta"}

\* Mutant: a new version of a companion does not count.
VersionsDoNotCount(m, s) ==
  \/ \E g \in DeployGroups : m.attrs[g] # s.attrs[g]
  \/ \E x \in Secrets : m.secret[x] # s.secret[x]

deployNeeded(m, s) ==
  \/ \E g \in DeployGroups : m.attrs[g] # s.attrs[g]
  \/ \E x \in Secrets : m.secret[x] # s.secret[x] \/ m.version[x] # s.version[x]

Deploys ==
  plan.auto /\ IF Creating \/ kind.flow.deploys = "any" THEN TRUE
               ELSE deployNeeded(Resolved(seen), prior)

\* Terraform holds an apply to what it has planned.
Consistent(m) ==
  /\ m.attrs = plan.attrs
  /\ \A s \in Secrets : plan.secret[s] # Unknown => m.secret[s] = plan.secret[s]

\* deployAndWait, when there is something to deploy, one more read that need
\* not succeed, and the final State.Set.
Finish ==
  /\ pc = "deploy"
  /\ IF Deploys THEN server # Absent /\ deployed' = server ELSE UNCHANGED deployed
  /\ \E record \in IF Deploys THEN {seen, server} ELSE {seen} :
       /\ state' = Resolved(record)
       /\ tainted' = (Creating /\ ~Consistent(Resolved(record)))
       /\ Stop(IF Consistent(Resolved(record)) THEN "ok" ELSE "error")
  /\ UNCHANGED <<kind, config, flags, server, plan, prior, meddled, edits,
                 failures, outside>>

\* The deploy is refused, fails, or outlives the wait: the state is stored.
DeployFails ==
  /\ pc = "deploy"
  /\ Deploys
  /\ IF server = Absent THEN UNCHANGED failures ELSE MayFail
  /\ deployed' \in {deployed, server}
  /\ state' = Resolved(seen)
  /\ tainted' = Creating
  /\ Stop("error")
  /\ UNCHANGED <<kind, config, flags, server, plan, prior, meddled, edits,
                 outside>>

-----------------------------------------------------------------------------
(* The operator, and whoever else uses the server. *)

Reconfigure(c) ==
  /\ pc = "idle"
  /\ edits < MaxEdits
  /\ c # config
  /\ config' = c
  /\ edits' = edits + 1
  /\ result' = "none"
  /\ plan' = Absent /\ prior' = Absent
  /\ UNCHANGED <<kind, state, flags, tainted, server, deployed, pc, seen,
                 meddled, failures, outside>>

\* One group changes, or all ports, or all ports and the node.
EditAttrs(G) ==
  LET attrs == [g \in Groups |-> IF g \notin G THEN config.attrs[g]
                                 ELSE IF config.attrs[g] = First THEN Other ELSE First]
  IN  /\ Valid(attrs)
      /\ Reconfigure(Configuration(attrs, config.form, config.secret,
                                   config.version, config.auto))

EditSets ==
  {{g} : g \in Groups \cap Edited} \cup {Ports, Ports \cup (Groups \cap {"node"})}

\* Without versions, a companion is only switched to.
EditSecret(s, c) ==
  /\ c.form = "companion" => Versioned \/ s \notin Companions
  /\ Reconfigure(Configuration(config.attrs,
       [config.form EXCEPT ![s] = c.form],
       [config.secret EXCEPT ![s] = c.secret],
       [config.version EXCEPT ![s] = VersionOf(c.form, edits + 2)],
       config.auto))

EditAuto ==
  Reconfigure(Configuration(config.attrs, config.form, config.secret,
                            config.version, ~config.auto))

Meddle ==
  /\ server # Absent
  /\ outside < MaxOutside
  /\ meddled' = TRUE
  /\ outside' = outside + 1
  /\ UNCHANGED <<kind, config, state, flags, tainted, pc, plan, prior, seen,
                 result, edits, failures>>

OutsideChange(g) ==
  /\ Meddle
  /\ ~(g \in Ports /\ "node" \in Groups /\ server.attrs["node"] = Other)
  /\ server' = Stored([server.attrs EXCEPT ![g] = IF @ = First THEN Other ELSE First],
                      server.secret)
  /\ UNCHANGED deployed

OutsideSecret(s) ==
  /\ Meddle
  /\ server.secret[s] # Theirs
  /\ server' = Stored(server.attrs, [server.secret EXCEPT ![s] = Theirs])
  /\ UNCHANGED deployed

OutsideDelete ==
  /\ Meddle
  /\ server' = Absent
  /\ deployed' = Absent

-----------------------------------------------------------------------------
Terraform ==
  \/ Refresh \/ RefreshFails \/ Plan
  \/ Delete \/ DeleteFails \/ CreateCall \/ CreateFails \/ Shortcut
  \/ \E step \in Writes : Call(step) \/ CallFails(step)
  \/ \E step \in Reads : Look(step) \/ LookFails(step)
  \/ Finish \/ DeployFails

Others ==
  \/ \E G \in EditSets : EditAttrs(G)
  \/ \E s \in Secrets : \E c \in SecretChoices(s) : EditSecret(s, c)
  \/ EditAuto
  \/ \E g \in Groups \cap Disturbed : OutsideChange(g)
  \/ \E s \in Secrets : OutsideSecret(s)
  \/ OutsideDelete

Next == Terraform \/ Others

Spec == Init /\ [][Next]_vars

\* The operator runs apply again until it ends well, and an apply goes on.
FairSpec == Spec /\ WF_vars(Terraform)

-----------------------------------------------------------------------------
(* Properties. *)

ModelTypes ==
  /\ state = Absent \/ (state \in Models /\ \A s \in Secrets : state.secret[s] # Unknown)
  /\ plan = Absent \/ plan \in Models
  /\ prior = Absent \/ prior \in Models

RecordTypes ==
  /\ server = Absent \/ server \in Records
  /\ deployed = Absent \/ deployed \in Records
  /\ seen = Absent \/ seen \in Records

PlaceTypes ==
  /\ kind \in Kinds
  /\ Valid(config.attrs)
  /\ flags \subseteq Secrets
  /\ pc \in {"idle", "plan", "delete", "create", "deploy"} \cup Writes \cup Reads
  /\ result \in {"none", "ok", "error"}
  /\ edits \in 0 .. MaxEdits /\ failures \in 0 .. MaxFailures
  /\ outside \in 0 .. MaxOutside

Booleans == tainted \in BOOLEAN /\ meddled \in BOOLEAN

\* Every variable has its type: nothing unknown gets into the state, and the
\* server always holds a secret.
TypeOK == ModelTypes /\ RecordTypes /\ PlaceTypes /\ Booleans

\* The last apply of the present configuration ended without an error, and
\* nobody else has touched the server since it looked.
Applied == pc = "idle" /\ result = "ok" /\ ~meddled

\* What the server should hold for a secret.  Nobody sees a companion change
\* behind Terraform's back, and a secret left out is the server's own.
Satisfied(s) ==
  /\ config.form[s] = "plain" => server.secret[s] = config.secret[s]
  /\ config.form[s] = "companion" => server.secret[s] \in {config.secret[s], Theirs}

\* An apply that ends without an error has brought the server to the
\* configuration, secrets included, and the state to the server, with no
\* companion in it, whatever half-finished, tainted or drifted state it
\* started from (persistPartial, "The next apply will converge").
ApplyConverges ==
  Applied =>
    /\ server # Absent /\ ~tainted
    /\ server.attrs = config.attrs
    /\ \A s \in Secrets : Satisfied(s)
    /\ state.attrs = server.attrs
    /\ \A s \in Secrets :
         state.secret[s] = IF s \in flags THEN Null ELSE server.secret[s]
    /\ \A s \in Secrets : s \in flags => config.form[s] # "plain"
    /\ Companions \subseteq flags

\* The handlers implement Reconcile, of the attributes and the secrets alike.
Told == {s \in Secrets : config.form[s] # "omitted"}
Wanted ==
  [value |-> [k \in Groups \cup Told |->
                IF k \in Groups THEN config.attrs[k] ELSE config.secret[k]],
   hidden |-> Companions, resent |-> Computed]

FieldsOf(r) ==
  IF r = Absent THEN <<>>
  ELSE [k \in Groups \cup Secrets |-> IF k \in Groups THEN r.attrs[k] ELSE r.secret[k]]

Contract == INSTANCE Reconcile WITH
  NoRecord <- <<>>,
  Unseen <- {Theirs},
  wanted <- Wanted,
  record <- FieldsOf(server),
  deployed <- FieldsOf(deployed),
  verdict <- IF pc = "idle" THEN result ELSE "running",
  disturbed <- meddled,
  others <- outside
ImplementsReconcile == Contract!Spec

\* No apply sets a secret of a live service to anything but what the
\* configuration says now: a root password left to the server is never wiped
\* or replaced on the way (resolveCredentials), unless somebody else changes
\* the record meanwhile.
SecretsAreKept ==
  [][(Terraform /\ ~meddled /\ server # Absent /\ server' # Absent /\ pc # "create")
       => \A s \in Secrets :
            server'.secret[s] \in {server.secret[s], config.secret[s]}]_vars

\* An apply that changed something a deployment is made of, and ended without
\* an error, has deployed all of what the server now holds.
ChangedByApply ==
  \/ prior = Absent
  \/ \E g \in DeployGroups : plan.attrs[g] # prior.attrs[g]
  \/ \E s \in Secrets : plan.version[s] # prior.version[s]
                        \/ plan.secret[s] \notin {Unknown, prior.secret[s]}
AppliedChangeIsDeployed ==
  (Applied /\ plan # Absent /\ plan.auto /\ ChangedByApply)
    => /\ deployed # Absent /\ deployed.secret = server.secret
       /\ \A g \in DeployGroups : deployed.attrs[g] = server.attrs[g]

\* Ports that somebody else gave a service just before it became a replica:
\* no request can clear them any more.
Stuck ==
  /\ "node" \in Groups /\ server # Absent /\ outside > 0
  /\ server.attrs["node"] = Other /\ config.attrs["node"] = Other
  /\ \E p \in Ports : server.attrs[p] # First

\* As long as nobody else changes the record, the server refuses no call, and
\* no record on the way is a replica with ports, whatever has failed before:
\* the ports go first or last as the node requires, and three nulls never
\* travel together.
NeverRefused ==
  outside = 0 =>
    /\ \A step \in Writes : pc = step /\ Needed(step) => ~Refused(step)
    /\ server # Absent => Valid(server.attrs)

\* Applies that are run again end well and keep ending well, once nothing
\* fails and nobody interferes: no order of calls leaves a service that the
\* server then refuses to change (the replica's ports, the three nulls), and
\* no plan contradicts its result for good.  A "" for a generated secret can
\* never be created.
Settles == <>[](result = "ok" \/ Stuck \/ (Uncreatable /\ server = Absent))

\* The switch from the plain attribute to a companion reaches the server
\* (tfutil.go, SecretToUpdate: "the config switched to the companion").
SwitchIsSent == Applied => \A s \in Companions : server.secret[s] \in {config.secret[s], Theirs}
=============================================================================
