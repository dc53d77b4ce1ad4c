# TLA+ models of terraform-provider-dokploy

A Terraform provider for a Dokploy server: a Go process that Terraform starts,
which turns plan, create, read, update and delete of 48 resource types into
calls of Dokploy's HTTP API. Almost everything hard about it is about a server
that moves between two calls, calls that fail after they took effect, and
Terraform running ten resources at once. That is what the models are about.
Paths below are relative to `src/internal/`.

## Inventory

| Component | State | Operations | Interacts with | What makes it correct |
|---|---|---|---|---|
| HTTP client (`client/client.go`) | none between calls; attempt counter, context | Get (3 attempts), Post and PostDeploy (one) | every resource; server, proxies | every call ends, a POST is sent once |
| Response validation (`client/response_validation.go`) | none | classify an answer | HTTP client, `Read`, `Delete` | only the server's own NOT_FOUND erases state; an answer is about the record asked for |
| Create and locate (`client/appchild.go`, `client/locate.go`) | one mutex per scope | list, POST, list, take the new id | redirect, security, backup, ssh key, notification, AI, git providers, libsql | the id bound is the record made, no deadlock |
| Deploy waiter (`deploy/deploy.go`, `client/deployment.go`) | timer, ticker, gate | poll until terminal | application, compose, databases, libsql | the verdict is about this deployment; the wait ends |
| Application (`resources/application`) | Terraform state, private flags | Create, Read, Update, Delete, plan | waiter, HTTP client | an apply converges; state is honest; changes are deployed |
| Compose (`resources/compose`) | as application, state version 0 to 1 | the same, and UpgradeState | waiter | the same |
| Databases (`resources/database`), libsql (`resources/libsql`) | as application, credentials, external port | the same | waiter (status only, no history) | the same; credentials neither lost nor reset |
| Env variables (`resources/envvars`) | the map in the state; the whole env text of a record | GET then write back, read back, clear | application, compose, environment: they save the same record | neither resource undoes the other; what is written can be read back |
| Children of a service: port, redirect, security, mount, domain, backup, schedule, patch | one record with a parent | CRUD | create-and-locate, parent references | bound to the right parent and id |
| Checked resources: registry, destination, AI, git providers, notification | one record | verify, then write | create-and-locate | nothing is written that a check refused |
| Web server settings, user permissions | one record, several endpoints | several writes per apply | HTTP client | partial failures converge |
| Plain records: project, environment, organization, server, certificate, network, tag, api key, user, telemetry, vault provider | one record | CRUD | HTTP client | as application, with one write |
| Plan helpers, write-only secrets (`tfutil`) | private-state flags | ModifyPlan, SetWriteOnlyFlags, hide | resources with secrets | no secret in state; a dropped secret is cleared |
| Lookup, data sources, swarm conversion | none | pure functions | - | unique match; expand and flatten are inverse |

Behaviours that are hard: the status and the history of a deployment are two
GETs; a POST that failed for the client may still run; two resources of one
apply create siblings at the same moment; an Update is up to five writes and
any may be the last; the web UI takes part in none of the provider's locks;
a proxy answers for the server. `PROJECT.json` lists each hazard at its line
with the properties that watch it.

## Modules

| Module | Models | Kind |
|---|---|---|
| `Deployment` | what `deployAndWait` promises to the Create or Update that calls it | abstract specification |
| `DeployWait` | `deployAndWait`, `fetchStatus`, `newestDeploymentID` of application and compose, and `Waiter.Wait` | state machine, refines `Deployment` |
| `DeployWaitInv`, `DeployWaitProofs` | inductive invariants and proofs | proof |
| `CreateBind` | what a create without an id in its answer promises | abstract specification |
| `CreateLocate` | `createAndLocate`, `locateCreated`, `lockParent` | state machine, refines `CreateBind` |
| `CreateLocateInv`, `CreateLocateProofs` | inductive invariants and proofs | proof |
| `HttpClient` | `do`, `attempt`, `confirmedNotFound`, `validateResponse` under Read, Create, Delete | state machine |
| `HttpClientInv`, `HttpClientProofs` | inductive invariants and proofs | proof |
| `Reconcile` | what an apply over a resource promises the operator | abstract specification |
| `Application` | `dokploy_application` over successive applies | state machine, refines `Reconcile` |
| `ApplicationInv`, `ApplicationProofs` | inductive invariant and proofs | proof |
| `Service` | a database, libsql or compose service over successive applies, with its credentials | state machine, refines `Reconcile` |
| `ServiceKinds` | the seven services: requests, schema and order of calls of each | data |
| `ServiceInv`, `ServiceProofs` | inductive invariants and proofs | proof |
| `EnvVars` | `dokploy_environment_variables`, and the resource whose record it writes to | state machine |
| `EnvVarsInv`, `EnvVarsProofs` | inductive invariants and proofs | proof |
| `Record` | one record under one resource over successive applies: read, plan, create, update, delete, secrets, tests | state machine, refines `Reconcile` |
| `RecordInv`, `RecordProofs` | inductive invariants and proofs, for every kind that is `Sound` | proof |
| `RecordKinds` | the resources that have this shape: endpoints, schema and handlers of each | data |
| `MC*` | values of the constants for TLC | model checking |

A definition whose name ends in a description of a fault, under a comment
"Mutant", is the form a definition would have with a plausible bug. Nothing in
the specifications uses it; `PROJECT.json` pairs it with the property that
tells the two apart.

### Deployment and DeployWait

`pc` follows `deployAndWait`: `prior` (the history GET before the POST),
`send`, `posted` (the deploy POST in flight), then one poll of `fetchStatus`:
`poll` (the status GET), `gate` (the history GET while `started` is false),
`newest` (the id for the diagnostic) and `select` (the waiter's select). One
GET is one action, because the server moves between any two of them. The
server is external: an accepted request is committed (row and status together)
at the moment `CommitPoint` allows, builds end in any order and with either
outcome, and others deploy. `HistoryMayFail` lets the best-effort history GETs
fail; `Overlap` lets deployments of one service overlap.

`Deployment` is the promise: callers come one after the other; the deployment
of each is begun once at most, also when its answer is lost and it begins after
the caller has left; success is told only when it is done, a failure is named
only when it has failed, and any other end says nothing of it. This is what the
last step of `Application` and `Service` relies on.

What the runs show:

- `deploy_wait_measured`: if the server commits before it answers, which the
  comment of `fetchStatus` measured, and deployments do not overlap, success
  and failure are always about the deployment that was posted, even when the
  read of the prior id failed and the gate is off; the history is read at most
  twice; every wait ends.
- `deploy_wait_gated`: if the server commits later, but not inside a poll, the
  gate is what makes the verdict right, so that `DeployWait` implements
  `Deployment`. This needs the history to be readable.
- `deploy_wait_toctou`: the finding that the gate does rely on the measured
  order, because one poll reads the status before the history.

With `Overlap` the provider cannot tell whose outcome it reads: somebody
else's deployment opens the gate, although the comment says "the id can only
change because this deploy created a record". And while the gate is shut every
poll reads the history, so that "at most twice" depends on the measured order.
Set `Overlap = TRUE`, or check `HistoryReadAtMostTwice` in the gated
configuration, to see either.

### CreateBind and CreateLocate

Each thread is the create of one resource; `ProcessOf` places threads in
provider processes with a lock map each. A list is the set of ids that exist
at that moment; the POST takes effect at the server at any moment while it is
in flight, or later when `LateCommits`. `ledger` records who made what, so that
"its own record" can be stated; the code sees only ids and fields.
`ByContent` holds the scopes that use `locateCreated`. The mapping to `CreateBind` takes `made`
from the ledger; a step that is not a server create, a binding or a failure is
a stutter.

Runs: `create_locate_shared` (two processes and the UI in one scope, late
requests: mutex, binding, refinement of `CreateBind`, liveness; located by
content, which includes the unique new id of `createAndLocate`, and the proofs
cover both) and `create_locate_meddled` (deletions as well: still no record with
two owners, and no create of one apply that makes another fail). With deletions
`BindsOwn` does not hold: when the record just made is deleted and a foreign one
appears in the window, the foreign id is the only new one and is bound.

### HttpClient

One resource's calls in sequence; every attempt puts one request on the wire,
which the server may take at any later moment, so that late effects of an
abandoned attempt are there. `Disturb` replaces the answer by one that is not
the server's own: a 404 (`hidden`), a 2xx that does not decode (`garbled`), a
4xx, a 5xx, a broken connection, or a 2xx that reads as a good answer
(`foreign`), about any record or none. What the client makes of the last is
`Accepted`: only a GET compares the identity of the record. A deletion takes any
well-formed or empty 2xx for the server's (`client.go:171-175`) and drops its
record, which may still exist; a create stores the id it decodes, which may be
empty (`EmptyId`) or another's. Such a resource with an empty id fails every
refresh, because nothing confirms an empty id as gone (`Confirmed`).

`errors` counts creates that reported an error and `fooled` the POSTs that
succeeded on a foreign 2xx. `http_client_calls` shows that nothing else leaves a
record outside the state (`OrphansAreReported`) or forgets one that exists
(`ForgottenOnlyWhenGone`), and that a GET never mixes two up.

### Reconcile

`Reconcile` is the promise of an apply to whoever runs it, without endpoints,
calls or plans: a run writes nothing but what is wanted, makes a record only
where it has none, begins a deployment only of a record that has all that is
wanted, and reports success of no other record; any other end is an error and
leaves the record somewhere on the way. What somebody else changes during a run
excuses where that run ends (`disturbed`), but no later one and none of its
writes: `others` counts those changes, so that a step of the provider cannot
pass for one of them. `wanted` names the fields that no read returns (`hidden`),
which may hold a value that nobody sees (`Unseen`) instead, and those that an
update sends again as it has read them (`resent`), the one exception to what a
disturbed run may write.

`Application` maps its record as it is, with the groups that the configuration
sets (`Managed`) as what is wanted. `Service` maps its two parts, attributes and
secrets, to one record of fields (`FieldsOf`); hidden are the companions, whose
change by somebody else (`Theirs`) nobody sees, and resent is a root password
left to the server. `Record` has no deployment and maps its record while it is
in the state or on its way there (`Ours`): what a failed Create leaves behind is
lost sight of (`Remove`), and the next run is about another record. Hidden is
every secret but a plain one that reads return (`Shown`), and it may hold
anything: what is known of it is the secret part of `ApplyConverges`. In all
three a run is `running` from the refresh to the end of the handler; a call is
a `Write` or, when it has nothing to say, no step at all. The contract says
nothing of the state: that it follows the server is `StateIsHonest` and the rest
of `ApplyConverges`.

### Application

The attributes are grouped by the endpoint that writes them, since the guards
of Update and Create are per endpoint. One action is one API call with its
guard; `SaveFails` has the call fail with or without effect. `Abort` is
`persistPartial` in Create and a plain return in Update. `deployed` is a
history variable: what the last deployment was made from. Edits happen between
runs; others change or delete the application at any time, which excuses the
apply in progress (`meddled`) but no later one.

`application_converge` has all groups and checks `ImplementsReconcile`, which
includes `ApplyConverges`, beside what the state and the deployment hold after
an apply. `application_lost` is a finding: a save
that took effect in an apply that then failed is read back into the state, the
next plan is empty, and what is configured is never deployed. Watch paths under
a `docker` source are not sent by `dockerRequest`
(`resources/application/model.go:327`) and so not cleared either; the schema
says that Dokploy ignores them there, and `Managed` leaves them out.

### Service and ServiceKinds

Groups are again what one request carries: `place` (move), `names` (the name
and user of the database: create only, a change replaces the service), `meta`,
`image`, `node` (libsql's replica role), `ops` (what create cannot say), `env`,
and the external ports. A kind of `ServiceKinds` says which of them a create
and an update carry, which secrets it has, and the calls of Create and Update
in their order (`flow`): `before` is the read that `resolveCredentials` makes
when it needs the server's value, `early` the clearing of ports that a future
replica needs, `portsRest` the third null of a full clear. Handlers walk their
`flow` with one action per call; each may fail with or without effect
(`CallFails`), is passed over when it has nothing to say (`Needed`), and is
refused by the server where the client's comments say so (`Refused`). A Create
that fails stores what it has, `Salvaged` being the one more read of
`resolveUnknownComputedCredentials`. A deployment and the wait for it are one
step here: `DeployWait` is what that step does.

Secrets come as the plain attribute, as a write-only companion with a version,
or are left to the server (`Computed`: the root passwords of MySQL and
MariaDB). The image is given in every configuration.

`service_converge` has all seven kinds, and asks that an apply that ends well
has brought attributes and secrets to the record and the record to the state
(`ApplyConverges`), that its own changes were deployed, that no secret of a
live service is ever set to anything but what the configuration says
(`SecretsAreKept`, an action property), that the server refuses no call and no
record on the way is a replica with ports as long as nobody else changes it
(`NeverRefused`: the order of the ports and of the node, and the clearing of all
three), and that applies run again and again settle (`Settles`). Three ends are the code's own: a root password of `""` is
refused only after a replacement has deleted the service (`Uncreatable`); ports
that somebody else gave a service just before it became a replica can be
cleared by no later request (`Stuck`); and an update that fails after it has
raised the flag of a companion, followed by a configuration with neither form,
leaves a null in the state although the record holds a secret
(`tfutil/tfutil.go:541-543` reads as if it were filled in). `service_switch`
is a finding: without a version the switch of a root password to its companion
has an empty plan.

### EnvVars

The record is `[text, fields]`: the env text, and the other fields that its
endpoint carries (build arguments, build secrets and `create_env_file`;
`create_env_file`; or name and description). `owner` is that record as the
owner's state has it: by the documentation's `ignore_changes = [env]` the owner
sends the text it last read whenever one of the other fields changes
(`SaveOwner`). `Get` and `Put` are the two halves of `writeEnv`. The run
refreshes the owner, then the map; Create and Update wait for the owner, whose
id they refer to, and a Delete may come before it, after it or around it.
Because what a line may hold decides what can be read back, lines are sequences
of characters and `parseEnv` and `renderEnv` are written out; the sort order of
the names is the constant `Sorted`, and `TAB` stands for all white space but the
space and the carriage return. `raced` and `meddled` say that somebody else
wrote since the GET of `writeEnv` or since the refresh. `left` says that the text
at the server is one this resource wrote, `kept` that the owner's copy is,
`restored` that the owner has put such a copy back, and `warned` that an error was
reported since this resource wrote.

`env_vars_shared` has both resources, edits of both, failures, and UI text with
comments, CRLF, a repeated name and a line that is no pair. Its maps are legible
ones and two that `ValidateConfig` accepts though they are not (`Legible`): an
apply of those ends in an error, and what it says of the others holds beside
them. It shows that a run that ends well satisfies both resources
(`BothConverge`), that no write undoes a field of the other
(`OthersFieldsAreKept`), that a legible map is read back as written
(`LegibleMapIsReadBack`), and that a text stays behind in no state only after an
error or when the owner has put it back (`LeftoversAreReported`).

The last two are as strong as the code allows. When one apply removes the map and
changes another field of its owner, nothing orders the two; an owner that saves
last puts the old text back, the text is in no state, and no error is reported,
although "Delete clears the target's env text" (`resources/envvars/resource.go:310`).
Without `restored` in the property TLC shows it in one write and one removal. And
a name that starts with `#`, or with a tab, passes `ValidateConfig`
(`resource.go:73`) and is then skipped as a comment or trimmed (`env.go:19-26`):
the map read back is another, or the text is unreadable when the name is nothing
but a tab, and the apply fails every time, although that it "could not be read
back" is why `ValidateConfig` rejects a value (`resource.go:56-57`). Without `Legible` in the property TLC
shows it at the first write.

One thing more that the run shows and no property forbids: a line that is no
pair makes every refresh, and so every plan, fail until somebody removes it by
hand.

### Record and RecordKinds

Some thirty resources are written to one pattern, and what goes wrong in them
goes wrong where they differ from it: an id dropped between two calls, a stored
secret resent instead of the new one, a flag set too late. `Record` is the
pattern, its variations fields of `kind`; `RecordKinds` gives each resource as
three records, `...Wire` from `client/`, `...Schema` and `...Flow` from its
`resource.go`. Resources that come out equal (`tag`, `mount`, `schedule`) do so
because their handlers are. Attributes are one of three: `main`, carried by
every call; `extra`, which the create call cannot express (a disabled domain,
tags of a project, the sharing of a git provider); and the secret.

`pc` is Terraform's place: `idle`, `plan` (after Read), `delete` (for a
replacement), then the handler: `before` (flags, the member or organization a
create needs, the stored secret an update resends), `check`, `send`, `fetch`
(the read inside a client's create), `follow` (the call for `extra`), `back`
(the read at the end), `save`, `test` (git providers). Every call has an action
in which it fails, with or without effect where it writes. What Terraform does
is modelled as external: a failed Create with a state taints it, a tainted
record is replaced, the private state of a failing Update is kept, a result
that differs from the plan is "inconsistent".

`record_converge` checks all kinds. `CompanionKeptOut` is about configurations
that never gave the secret openly: once one has, a failed switch may leave it
in the state until the next apply that ends well. `CreatedIsRecorded` is about
the kinds of `Recording`; organization, server, user and Gitea do drop the id
when a later call of Create fails, and the record is made twice. `doubt` marks
a secret that changed where no read shows it (a withholding server, or a
companion in use): neither the provider nor Terraform can notice. A patch whose
create fails half way is kept in the state "so the next apply retries the
update instead of a second create" (`resources/patch/resource.go:119-120`);
in fact Terraform replaces it, since it is tainted.

A vault provider looks for its name before it creates (`NameRefused`): a
create whose answer was lost leaves a provider that holds the name, and every
later create is refused until somebody removes it. `dokploy_backup` is a kind
like the others; that its create locates what it made is `CreateLocate`'s part.

`Sound` says what a kind has to be for the theorems: a companion's flag wherever
a read returns the secret, a replacement for a new secret that no update can
carry, no step for a secret or an extra attribute that the kind does not have.
TLC checks it of every kind of `RecordKinds` on each run (`KindsAssumption`).

Left out: companions without a version (`service_switch` has one); attributes
whose change replaces the record, except the secret and where all do; the map
of extra settings of telemetry; that `ai.update`, an upsert, might make a record
again that is gone (an update of a record that is gone fails here). Two secrets
of one resource are one.

## Bounds

- DeployWait: 3 applies and 1 outside deployment: a first deployment (gate off),
  one with a predecessor, and one after either has failed or timed out; ids
  only matter by being equal or newer. `ReadsCap` = 3 stops counting one above
  the bound that is claimed.
- CreateLocate: 3 threads, 1 or 2 processes, 1 or 2 scopes, 1 foreign record:
  a collision needs two creates in one window, a second collision a third.
- HttpClient: 3 attempts as in `New`, bounds on calls and ids in the cfg: a
  create, what follows its failure, and a record to confuse it with.
- Application: two values of every group, 2 edits, 2 failed calls, 1 outside
  change: a failure, a failure while repairing it, and drift in between.
- EnvVars: three legible maps (empty, one, two variables), one that reads as
  another and one that cannot be read, two texts of the UI, two values of the other fields, 3 edits, 2 failed calls, 1 outside change:
  write, change or remove, and repair once more after a failure.
- Record: two values of each attribute and two secrets, 2 edits, 2 failed calls,
  1 outside change: a switch of the secret's form that fails, and the repair of
  it that fails. Values and secrets are symmetric.
- Service: two values of each group and two secrets, 2 edits, 1 failed call, 1
  outside change. The operator edits `place`, `names`, `ops`, `env`, the ports
  singly or all at once with the replica role, every secret and
  `deploy_on_change`; `meta` and `image` travel with `ops` and would repeat it.
  Others change a port or a secret, or delete: a port is what can get stuck.
  `service_switch` is MySQL without versions, one edit.

Deadlock checking is off where the bounds let a run come to its end.

## Fairness

`DeployWait`: each call of the provider returns (`requestTimeout` and
`deployTimeout` bound an attempt), the timer fires, and Go's `select` draws a
ready case at random, so a deadline that stays ready is drawn in the end
(strong fairness of `Deadline`). Nothing is assumed of the server.
`CreateLocate`: each call returns; `sync.Mutex` hands over to a waiter that has
waited long enough (starvation mode), hence strong fairness of `Acquire`.
`HttpClient`: an attempt that is not answered is answered by its deadline
(`Disturb`), and the client moves on. `Service`: an apply that has begun goes on
(weak fairness of `Terraform`), and the operator runs apply again: the retry
that the error texts ask for is the operator's, so that `Settles` is a claim
about applies that are repeated, not about one. `Application`, `EnvVars` and
`Record` have no liveness property.

## Proofs

Checked by TLAPS for every value of the constants, under the assumptions in the
modules, which TLC also evaluates. TLC checked each inductive invariant before
it was proved. The properties themselves are nowhere inductive; what follows
names what was missing.

`DeployWaitProofs`
- `TypeCorrect`.
- `TwoHistoryReads`: for `CommitPoint = "before_response"` and no overlap.
- `SuccessCausal`, `ErrorCausal`: for a `CausalServer`, one that commits before
  it answers, or at any time outside a poll if its history can be read; no
  overlap. In the first case a "done" just read is ours because from the commit
  to the end of the wait the newest row is ours and agrees with the status
  (`OursInv`), nothing else runs when our request is taken (`QuietInv`), a request
  is in flight for the last apply only (`RequestInv`), and a terminal status read
  before the gate is still true after it (`SeenInv`): together `MeasuredInv`. In
  the second (`GatedInv`) the status may be stale for many polls: until our
  deployment is committed nothing runs, the history is as it was read before the
  POST, and the gate is shut (`ShutInv`); once it is, a terminal status read in a
  poll is that of our row (`PolledInv`).
- `GateCausal`: for any commit point, if the history can be read and nobody else
  deploys meanwhile, a shut gate opens on our own row only (`GateInv`).
- `Implements`: for a `CausalServer`, `DeployWait` implements `Deployment`, every
  step a step of it or a stutter. The outcome of a caller's deployment is that of
  the one row it owns: none before the commit and no second one after
  (`RowsInv`); a name in the diagnostic goes with a failure (`ResultInv`); that
  the verdicts are true is `SuccessCausal` and `ErrorCausal`.

`CreateLocateProofs`
- `TypeCorrect`, and `Exclusion` from `LockInv` (being in the window is holding
  the lock).
- `OwnRecord` and `Refinement`: if nobody deletes records, a create that succeeds
  binds its own, and `CreateLocate` implements `CreateBind`. Our record is new to
  us, still exists, and is the only one of ours (`OwnInv`), so a unique new, or a
  unique matching, id is ours. Neither needs the mutex.
- `NeverShared`: with deletions as well, from `SharedInv` and the mutex: an id
  that is new in one window was not bound in an earlier window.
- `OutsidersConfuse`: an id that is new in a window and not our own comes from
  outside the process, since the siblings wait for the lock (`SiblingInv`).
- `LocksGivenBack`: no return and no error leaves a lock behind, and whoever waits
  for one waits for a create that waits for none, so that what
  `EveryCreateReturns` needs of the scheduler is only that calls return.

`HttpClientProofs`
- `TypeCorrect`, `OwnContent`, `Forgotten` from `CallInv`: what an answer of the
  server says of the record is true and stays true, whatever request of an older
  call takes effect meanwhile.
- `Orphans`: records outside the state, and create requests that may yet make
  one, are together no more than the creates that reported an error, the POSTs
  that were fooled by a foreign 2xx and the create in progress (`OrphanInv`, by
  counting finite sets).
- `PostsOnce`: no POST has a second attempt, since the requests of the call in
  progress are those of the attempts it has begun (`AttemptInv`).

`EnvVarsProofs`
- `TypeCorrect`, `FieldsKept`, `Leftovers` from `IInv`: until somebody else
  writes, what is about to be resent is what is stored (`FreshInv`); a text of
  this resource that is in no state, was not complained of and was not put back
  by the owner is between its write and the end of Create (`LeftInv`); `PlaceInv` is what each place of the
  run knows of the map and the fields.
- `ReadBackIsLegible` from `RoundTrip` and `ReadBackInv`: `parseEnv` is the inverse
  of `renderEnv` on the maps that are `Valid` and `Legible`, whatever their names
  and values are made of (`LineReads`: no carriage return is cut, the line is no
  comment, its first `=` is the one that `renderEnv` put there, and the name is not
  trimmed); and no step but a write of somebody else changes the text in between.
- `Convergence` from `ConvergeInv`, for every map, legible or not: a run whose
  read-back differs from the map ends in an error.

`ApplicationProofs`, for any groups, values and Docker sources
- `TypeCorrect`: in particular the server never holds an unset block.
- `Converges`, `Honest`, `Deployed` from `IInv`: behind the place of the handler
  the record is as planned, and ahead of it as the create call or the refresh
  left it, whichever calls were needed (`SavedInv`); an apply carries out the
  configuration, on a record that is not tainted (`PlanInv`); and the plan is
  made from what the refresh found (`RefreshedInv`). A call that is not needed
  carries what is there already: this is where the guards of Update and Create
  are used, one by one.
- `OnlyConfiguredWritten`, `WholeDeployed`: what a single step may do, from the
  same invariants and `LeftOutInv` (a block left out is planned as it is). A call
  writes a block only as the configuration has it now, and what a deployment is
  begun of is the whole configuration, also when the apply fails later on, of
  which `Honest` and `Deployed` say nothing.
- `Implements`: every step is one of `Reconcile` or a stutter. That a save is a
  `Write` is `SavesConfigured` and `WritesWanted`, that the end of a handler is a
  `Deploy` or `Succeed` is `Converges` in the step that ends it, and that a Create
  finds no record of this resource is `OrphanInv`: only a Create under way works
  on a record that is in no state.

`RecordProofs`, for every kind that is `Sound`, not only those of `RecordKinds`
- `TypeCorrect`: no mask reaches a record or a state (`PlaceInv`).
- `KeptOut`: the flag is up before there is a state to hide from (`FlagInv`).
- `Recorded`: a known id is in the state or on its way there (`KnownInv`).
- `OnlyChecked`: what the test passed is what is about to be written (`TestInv`).
- `Converges` and `Consistent`, from `ConvergeInv`, the conjunction of what each
  phase knows: versions are never reused (`VersionInv`), the flag follows the
  configuration (`InUseInv`), the state before the write is what the refresh found
  (`RefreshedInv`, `InPlaceInv`), what the state says of a secret is so unless in
  doubt (`SecretInv`), what was sent is there (`SentInv`, `CarriedInv`), and
  after the write the record is as planned and as answered (`WrittenInv`,
  `ExtraInv`, `DoneInv`). `MuteInv` is the special case of a secret that reads
  return and no update carries.
- `Implements`, from `WritesInv` beside those: a write carries the configured
  secret, none, or the one that was read (`ResentInv`); until the call for the
  extra attribute an update has left it alone (`LeftInv`); a secret that reads
  show is the configured one when a handler has come to its end (`ShownInv`),
  and the record is in the state by then (`EndedInv`).

`ServiceProofs`, for the seven services of `ServiceKinds` (`OurServices`: their
sequences of calls are walked through one by one), any secrets and bounds
- `TypeCorrect`, from `BaseInv`: the configuration keeps its own rules
  (`ConfigInv`), the plan of a handler is the configuration (`PlanInv`), and a
  handler has looked at the record before it needs what it holds (`SeenInv`).
- `SecretsKept`, with or without versions, from `KeptInv`: what a handler saw of
  the secrets is so until its own update (`FreshInv`), an apply in place knows
  of each secret what the record holds or nothing, a create has given what it
  was told of (`GivenInv`), and the refresh found what the state says
  (`RefreshedInv`). Without them `ToSend` might resend a stale root password.
- `Converges` and `Deployed`, for `Versioned`, from `ConvergeInv`: behind the
  place of the handler the record is as planned, ahead of it as planned or as it
  was (`SavedInv`, with `Ahead` for the groups whose call is yet to come); the
  flags follow the configuration (`FlagsInv`); a companion whose version the
  state has is at the server, which failed updates do not undo (`SentInv`); and
  after the update each secret is what was asked for (`SatisfiedInv`).
  `service_switch` shows why `Versioned` cannot be dropped.
- `NothingRefused`, with or without versions, from `AcceptedInv`: a replica has
  no ports at any moment (`ValidInv`), because those a service still has when the
  update makes it one are not ahead any more (`SavedInv`), and the node is as the
  refresh found it until that update (`NodeInv`).
- `OnlyConfiguredWritten` (with or without versions) and `WholeDeployed` (for
  `Versioned`): the same two action properties as of `Application`, the second
  with the secrets.
- `Implements`, for `Versioned`: the seven services implement `Reconcile` as well.
  An update may write a secret that is not wanted only where it resends a
  computed one, and then only if somebody else changed it since the refresh:
  `KeptInv` again (`WritesWanted`). `OrphanInv` is that of `Application`.

`OnlyConfigured`, `WholeIsDeployed`, `NoLockLeft`, `NobodyIsStuck` and
`NeverRetried`, stated in the `Inv` modules, `ApplyConverges` of `Application` and
`ImplementsReconcile` of `Service` and `Record` are proved and belong to no run;
TLC agreed with each on the instance of its module's run before.

Model-checked only: liveness (`WaitEnds`, `EveryCreateReturns`, `CallReturns`,
`Settles`: fairness and `ENABLED` are beyond the prover).

## Not modelled

Wording of diagnostics, schemas and validators, import (but for `EnvVars`). In
`Application`: the carried-over `status` (ModifyPlan copies it only when nothing
else changed), the private flag of the write-only preview secret, the
best-effort GET after a deploy, `deploy_on_change = false` (in `Service` it is).
The error returns of a Create that has made its record but cannot build the
next request from the plan, which store no state
(`database/resource.go:279-282`, `application/resource.go:719-722`): the values
come from a plan that the framework has typed already. Answers of intermediaries
are in `HttpClient` only; in the other modules a call takes effect or not, and
succeeds or fails.
The orphan left by a create whose answer was lost is `HttpClient`'s subject
(`OrphansAreReported`), not that of the resources. State upgraders, which change
no record. The web server settings and the permissions of a user: calls of the
same shape as `Application`'s, without create and delete. Parent references,
swarm settings, lookup and the data sources: pure copies and filters without a
state, one call each. Everything about `src/dogfood` and `src/acceptance`
(tooling).

## Plan

Done in this order: `DeployWait`, `CreateLocate`, `HttpClient`, `Application`,
`EnvVars`, `Record`, `Service`, their proofs, and `Reconcile`. Left:

1. `EnvVars` against a contract like `Reconcile`, of one key of a shared record.
2. The deploy step of `Application` and `Service` refined by `DeployWait`.
3. The web server settings and the user permissions; pure operators for parent
   references, lookup and swarm settings against reference definitions.
