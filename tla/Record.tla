------------------------------- MODULE Record -------------------------------
(***************************************************************************)
(* One record of the Dokploy server under one resource of the provider,    *)
(* over successive `terraform apply` runs: refresh (Read), plan, and       *)
(* Create, Update or Delete as sequences of calls any of which may fail,   *)
(* with or without having taken effect.                                    *)
(*                                                                         *)
(* The resources share this shape and differ in the calls they make, in    *)
(* what a failure leaves in the state, and in how a secret travels.  A     *)
(* kind says which: RecordKinds has one for each resource.  The attributes *)
(* are taken in three groups: main (every create and update carries it),   *)
(* extra (the create call cannot express it) and the secret, which the     *)
(* configuration gives as a plain attribute or as its write-only companion *)
(* with a version (tfutil.WriteOnlyCompanions).                            *)
(***************************************************************************)
EXTENDS Integers

CONSTANTS
  Kinds,        \* the kinds to look at
  Values,       \* values of the main attributes
  Secrets,      \* secrets the configuration may give
  Theirs,       \* a secret somebody else sets
  Default,      \* the extra attribute as the create call leaves it
  Other,        \* another value of it
  Unset,        \* an extra attribute the configuration leaves out
  Null,         \* no secret
  Mask,         \* what a masking server answers, and takes for "keep yours"
  Absent,       \* no state, no record, no answer
  MaxEdits,     \* bound: edits of the configuration
  MaxFailures,  \* bound: calls that fail
  MaxOutside    \* bound: changes made by anybody else

-----------------------------------------------------------------------------
(* What a resource is made of. *)

\* The endpoints: what a read answers for the secret; what create answers.
Wires == [secret: {"none", "returned", "withheld", "masked"},
          create: {"record", "id", "nothing"}]

\* The schema: the changes that replace the record; whether the extra
\* attribute, left out, keeps the server's value (Optional and Computed).
Schemas == [replaces: {"nothing", "secret", "all"}, keeps: BOOLEAN]

\* The handlers, in the order of their calls:
\*   prelude  Create reads something first: the organization, the user, a list
\*   unique   and refuses when a record of that name is there already
\*   flags    when the private state notes that the companion is in use
\*   stored   when Update reads the record for the secret it has to resend
\*   check    verify_connection: before or after the write
\*   extra    the call that writes it: the main update after a create, an
\*            endpoint of its own on a change of the plan ("own") or on a
\*            difference with the record ("share")
\*   onFail   a failed call for it leaves the created record out of the
\*            state, puts it there, puts it there without the attribute, or
\*            does not stop the handler
\*   back     Create reads the record again at the end
\*   backFail the same as onFail, of that read
\*   reread   Update reads the record after writing it
\*   saves    the state is what the server answered, or what was planned
Flows == [prelude: BOOLEAN, unique: BOOLEAN, flags: {"never", "first", "late"},
          stored: {"never", "needed", "always"},
          sends: {"new", "every"},
          check: {"none", "before", "after"},
          extra: {"none", "update", "own", "share"},
          onFail: {"forget", "keep", "blank", "go_on"},
          back: {"never", "extra", "always"}, backFail: {"forget", "keep"},
          reread: BOOLEAN, saves: {"answer", "plan"}]

KindType == [wire: Wires, schema: Schemas, flow: Flows]

\* Only a record with a secret has flags and stored secrets, and a secret
\* that no update carries is replaced with its record.
Sound(k) ==
  /\ k.wire.secret = "none" =>
       k.flow.flags = "never" /\ k.flow.stored = "never" /\ k.flow.check = "none"
  /\ k.flow.flags = "never" => k.wire.secret \in {"none", "withheld"}
  /\ k.flow.sends = "every" => k.flow.stored = "never"
  /\ (k.wire.secret # "none" /\ k.flow.stored = "never" /\ k.flow.sends = "new")
       => k.schema.replaces = "secret"
  /\ k.schema.keeps => k.flow.extra # "none"
  /\ k.flow.unique => k.flow.prelude

ASSUME KindsAssumption == Kinds \subseteq KindType /\ \A k \in Kinds : Sound(k)

ASSUME SecretsAssumption ==
  /\ Null \notin Secrets \cup {Theirs, Mask}
  /\ Mask \notin Secrets \cup {Theirs}
  /\ Theirs \notin Secrets

ASSUME ExtraAssumption == Default # Other /\ Unset \notin {Default, Other}

ASSUME BoundsAssumption ==
  MaxEdits \in Nat /\ MaxFailures \in Nat /\ MaxOutside \in Nat

VARIABLES
  kind,       \* the resource
  config,     \* the configuration
  openly,     \* the secrets it has ever given as the plain attribute
  state,      \* the Terraform state, or Absent
  flag,       \* the private state: the companion is in use
  tainted,    \* Create failed after storing a state: replace at the next apply
  server,     \* the record, or Absent
  known,      \* the provider has been told the id of that record
  pc,         \* where Terraform is
  prior,      \* the state the apply was planned against
  sending,    \* the secret the write carries
  passed,     \* what the last connection test that passed was about
  rec,        \* the record as the last answer had it
  result,     \* how the last apply ended; "none" after an edit
  meddled,    \* somebody else changed the record since the last refresh
  doubt,      \* the secret changed at the server behind the state's back
  edits, failures, outside   \* counters for the bounds

vars == <<kind, config, openly, state, flag, tainted, server, known, pc, prior,
          sending, passed, rec, result, meddled, doubt, edits, failures,
          outside>>

HasSecret(k) == k.wire.secret # "none"

ExtraOf(k) == IF k.flow.extra = "none" THEN {Default}
              ELSE {Default, Other} \cup (IF k.schema.keeps THEN {Unset} ELSE {})

\* A companion never comes without a version here, nor with a used one.
Configs(k) ==
  {c \in [main: Values, extra: ExtraOf(k), form: {"plain", "companion"},
          secret: Secrets \cup {Null}, version: 0 .. MaxEdits + 1,
          verify: BOOLEAN] :
     /\ (c.secret # Null) <=> HasSecret(k)
     /\ c.form = "companion" => HasSecret(k)
     /\ (c.version > 0) <=> (c.form = "companion")
     /\ c.verify => k.flow.check # "none"}

Plain(c) == IF c.form = "plain" THEN c.secret ELSE Null

Init ==
  /\ kind \in Kinds
  /\ config \in {c \in Configs(kind) : c.version \in {0, 1}}
  /\ openly = {Plain(config)} \ {Null}
  /\ state = Absent
  /\ flag = FALSE
  /\ tainted = FALSE
  /\ server = Absent
  /\ known = FALSE
  /\ pc = "idle"
  /\ prior = Absent
  /\ sending = Null
  /\ passed = Absent
  /\ rec = Absent
  /\ result = "none"
  /\ meddled = FALSE
  /\ doubt = FALSE
  /\ edits = 0
  /\ failures = 0
  /\ outside = 0

-----------------------------------------------------------------------------
(* Refresh and plan. *)

\* A call may fail while the budget lasts; one about a record that is gone
\* always does.
MayFail ==
  /\ failures < MaxFailures
  /\ failures' = failures + 1

CallMayFail == MayFail \/ (server = Absent /\ UNCHANGED failures)

Model(m, x, s, v, t) ==
  [main |-> m, extra |-> x, secret |-> s, version |-> v, verify |-> t]

\* Mutant: hideWriteOnly is left out.
FlattenOpenly(r, m) ==
  Model(r.main, r.extra,
        IF kind.wire.secret = "returned" THEN r.secret ELSE m.secret,
        m.version, m.verify)

\* flatten and hideWriteOnly: the record read into the model m.  A secret that
\* no read returns keeps the value it has there.
Flatten(r, m) ==
  Model(r.main, r.extra,
        IF flag THEN Null
        ELSE IF kind.wire.secret = "returned" THEN r.secret ELSE m.secret,
        m.version, m.verify)

Refresh ==
  /\ pc = "idle"
  /\ pc' = "plan"
  /\ state' = IF state = Absent \/ server = Absent THEN Absent
              ELSE Flatten(server, state)
  /\ flag' = (flag /\ state' # Absent)
  /\ tainted' = (tainted /\ state' # Absent)
  /\ doubt' = (doubt /\ state' # Absent /\ (flag \/ kind.wire.secret # "returned"))
  /\ meddled' = FALSE
  /\ result' = "none"
  /\ UNCHANGED <<kind, config, openly, server, known, prior, sending, passed,
                 rec, edits, failures, outside>>

RefreshFails ==
  /\ pc = "idle"
  /\ state # Absent /\ server # Absent
  /\ MayFail
  /\ result' = "error"
  /\ UNCHANGED <<kind, config, openly, state, flag, tainted, server, known, pc,
                 prior, sending, passed, rec, meddled, doubt, edits, outside>>

\* A computed attribute left out of the configuration keeps its state value.
PlannedFrom(s) ==
  Model(config.main,
        IF config.extra = Unset /\ s # Absent THEN s.extra ELSE config.extra,
        Plain(config), config.version, config.verify)

MustReplace(m, s) ==
  CASE kind.schema.replaces = "all"    -> m # s
    [] kind.schema.replaces = "secret" -> m.secret # s.secret \/ m.version # s.version
    [] OTHER                           -> FALSE

Plan ==
  /\ pc = "plan"
  /\ prior' = state
  /\ \/ /\ state = Absent
        /\ pc' = "before" /\ UNCHANGED result
     \/ /\ state # Absent
        /\ tainted \/ MustReplace(PlannedFrom(state), state)
        /\ pc' = "delete" /\ UNCHANGED result
     \/ /\ state # Absent
        /\ ~tainted /\ ~MustReplace(PlannedFrom(state), state)
        /\ PlannedFrom(state) # state
        /\ pc' = "before" /\ UNCHANGED result
     \/ /\ state # Absent
        /\ ~tainted /\ PlannedFrom(state) = state
        /\ pc' = "idle" /\ result' = "ok"
  /\ UNCHANGED <<kind, config, openly, state, flag, tainted, server, known,
                 sending, passed, rec, meddled, doubt, edits, failures, outside>>

\* Delete for a replacement; a record that is gone counts as deleted.
Delete ==
  /\ pc = "delete"
  /\ server' = Absent
  /\ known' = FALSE
  /\ state' = Absent
  /\ flag' = FALSE
  /\ tainted' = FALSE
  /\ prior' = Absent
  /\ pc' = "before"
  /\ UNCHANGED <<kind, config, openly, sending, passed, rec, result, meddled,
                 doubt, edits, failures, outside>>

DeleteFails ==
  /\ pc = "delete"
  /\ server # Absent
  /\ MayFail
  /\ server' \in {server, Absent}
  /\ known' = (known /\ server' # Absent)
  /\ pc' = "idle"
  /\ result' = "error"
  /\ UNCHANGED <<kind, config, openly, state, flag, tainted, prior, sending,
                 passed, rec, meddled, doubt, edits, outside>>

-----------------------------------------------------------------------------
(* Before the write: the flags, the reads that come first, the test. *)

Creating == prior = Absent
Planned == PlannedFrom(prior)

\* Mutant: a new version alone sends nothing.
SendsNewUnversioned ==
  \/ Plain(config) # Null
  \/ config.form = "companion" /\ prior.secret # Null

\* SecretToUpdate: there is something new to send.
SendsNew ==
  \/ Plain(config) # Null
  \/ config.form = "companion"
       /\ (prior.secret # Null \/ config.version # prior.version)

ReadsStored ==
  /\ ~Creating
  /\ \/ kind.flow.stored = "always"
     \/ kind.flow.stored = "needed" /\ ~SendsNew

\* SecretToCreate, SecretToUpdate, and the stored secret when there is nothing
\* new to send.  Mask also stands for an update without the secret.
SecretToSend ==
  CASE ~HasSecret(kind)                           -> Null
    [] HasSecret(kind) /\ (Creating \/ kind.flow.sends = "every") -> config.secret
    [] HasSecret(kind) /\ ~Creating /\ kind.flow.sends = "new"
         -> IF kind.flow.stored # "never" /\ SendsNew THEN config.secret
            ELSE IF ReadsStored /\ kind.wire.secret # "masked" THEN server.secret
            ELSE Mask

InUse == kind.flow.flags # "never" /\ config.form = "companion"

\* A handler that gives up.  Update leaves the prior state, Create nothing,
\* or the model m, which Terraform then takes for tainted.  The private state
\* is stored with the state, also by an update that fails.
GiveUp ==
  /\ pc' = "idle"
  /\ result' = "error"
  /\ IF Creating THEN state' = Absent /\ flag' = FALSE /\ tainted' = FALSE
                 ELSE UNCHANGED <<state, flag, tainted>>

\* Mutant: Create returns its error before it sets the state.
GiveUpWithout(m) == GiveUp

GiveUpWith(m) ==
  /\ pc' = "idle"
  /\ result' = "error"
  /\ IF Creating THEN state' = m /\ tainted' = TRUE /\ UNCHANGED flag
                 ELSE UNCHANGED <<state, flag, tainted>>

\* A record that nobody's state holds has the name the plan gives the new one:
\* the name is a main attribute.
NameTaken ==
  Creating /\ kind.flow.unique /\ server # Absent /\ server.main = config.main

Before ==
  /\ pc = "before"
  /\ ~NameTaken
  /\ ReadsStored => server # Absent
  /\ sending' = SecretToSend
  /\ flag' = InUse
  /\ pc' = "check"
  /\ UNCHANGED <<kind, config, openly, state, tainted, server, known, prior,
                 passed, rec, result, meddled, doubt, edits, failures, outside>>

PreludeFails ==
  /\ pc = "before"
  /\ Creating /\ kind.flow.prelude
  /\ MayFail
  /\ GiveUp
  /\ UNCHANGED <<kind, config, openly, server, known, prior, sending, passed,
                 rec, meddled, doubt, edits, outside>>

NameRefused ==
  /\ pc = "before"
  /\ NameTaken
  /\ GiveUp
  /\ UNCHANGED <<kind, config, openly, server, known, prior, sending, passed,
                 rec, meddled, doubt, edits, failures, outside>>

StoredFails ==
  /\ pc = "before"
  /\ ReadsStored
  /\ CallMayFail
  /\ pc' = "idle"
  /\ result' = "error"
  /\ flag' = IF kind.flow.flags = "first" THEN InUse ELSE flag
  /\ UNCHANGED <<kind, config, openly, state, tainted, server, known, prior,
                 sending, passed, rec, meddled, doubt, edits, outside>>

Tests(when) == kind.flow.check = when /\ config.verify

\* Mutant: an update without a secret clears it.
MeantLiterally(s) == s

\* The secret a call is about: its own, or the one the server has.
Meant(s) == IF s = Mask THEN server.secret ELSE s

\* Mutant: Update tests the record as it is, not as planned.
CheckPrior ==
  /\ pc = "check"
  /\ IF Tests("before")
       THEN /\ sending = Mask => server # Absent
            /\ passed' = [main |-> IF Creating THEN config.main ELSE prior.main,
                          secret |-> Meant(sending)]
       ELSE UNCHANGED passed
  /\ pc' = "send"
  /\ UNCHANGED <<kind, config, openly, state, flag, tainted, server, known,
                 prior, sending, rec, result, meddled, doubt, edits, failures,
                 outside>>

Check ==
  /\ pc = "check"
  /\ IF Tests("before")
       THEN /\ sending = Mask => server # Absent
            /\ passed' = [main |-> config.main, secret |-> Meant(sending)]
       ELSE UNCHANGED passed
  /\ pc' = "send"
  /\ UNCHANGED <<kind, config, openly, state, flag, tainted, server, known,
                 prior, sending, rec, result, meddled, doubt, edits, failures,
                 outside>>

\* VerifyConnection refuses: nothing is written.
CheckFails ==
  /\ pc = "check"
  /\ Tests("before")
  /\ MayFail \/ (sending = Mask /\ server = Absent /\ UNCHANGED failures)
  /\ GiveUp
  /\ UNCHANGED <<kind, config, openly, server, known, prior, sending, passed,
                 rec, meddled, doubt, edits, outside>>

-----------------------------------------------------------------------------
(* The write, and what has to follow it. *)

Stored(m, x, s) == [main |-> m, extra |-> x, secret |-> s]

\* What the create call makes of the plan, and what the main update does.
Made == Stored(config.main, Default, sending)
\* Mutant: the main attributes are left out of the update.
UpdatedWithoutMain == Stored(server.main,
                             IF kind.flow.extra = "update" THEN Planned.extra
                             ELSE server.extra,
                             Meant(sending))

Updated == Stored(config.main,
                  IF kind.flow.extra = "update" THEN Planned.extra ELSE server.extra,
                  Meant(sending))

SendCreate ==
  /\ pc = "send" /\ Creating
  /\ server' = Made
  /\ rec' = Made
  /\ known' = (kind.wire.create # "nothing")
  /\ doubt' = FALSE
  /\ pc' = "fetch"
  /\ UNCHANGED <<kind, config, openly, state, flag, tainted, prior, sending,
                 passed, result, meddled, edits, failures, outside>>

\* A record made by a create whose answer is lost is nobody's.
SendCreateFails ==
  /\ pc = "send" /\ Creating
  /\ MayFail
  /\ \/ UNCHANGED <<server, known>>
     \/ server' = Made /\ known' = FALSE
  /\ GiveUp
  /\ UNCHANGED <<kind, config, openly, prior, sending, passed, rec, meddled,
                 doubt, edits, outside>>

Write ==
  /\ server # Absent
  /\ server' = Updated
  /\ doubt' = (doubt \/ Updated.secret # server.secret)

SendUpdate ==
  /\ pc = "send" /\ ~Creating
  /\ Write
  /\ rec' = Updated
  /\ pc' = "fetch"
  /\ UNCHANGED <<kind, config, openly, state, flag, tainted, known, prior,
                 sending, passed, result, meddled, edits, failures, outside>>

SendUpdateFails ==
  /\ pc = "send" /\ ~Creating
  /\ CallMayFail
  /\ Write \/ UNCHANGED <<server, doubt>>
  /\ GiveUp
  /\ UNCHANGED <<kind, config, openly, known, prior, sending, passed, rec,
                 meddled, edits, outside>>

\* The read inside the client's create call, and the one Update makes before
\* it shares a git provider.
Fetches ==
  IF Creating THEN kind.wire.create # "record" ELSE kind.flow.extra = "share"

Fetch ==
  /\ pc = "fetch"
  /\ IF Fetches
       THEN server # Absent /\ rec' = server /\ known' = TRUE
       ELSE UNCHANGED <<rec, known>>
  /\ pc' = "follow"
  /\ UNCHANGED <<kind, config, openly, state, flag, tainted, server, prior,
                 sending, passed, result, meddled, doubt, edits, failures,
                 outside>>

FetchFails ==
  /\ pc = "fetch"
  /\ Fetches
  /\ CallMayFail
  /\ GiveUp
  /\ UNCHANGED <<kind, config, openly, server, known, prior, sending, passed,
                 rec, meddled, doubt, edits, outside>>

\* The extra attribute before the call for it, as the handler sees it.
PriorExtra ==
  CASE kind.flow.extra = "share" -> rec.extra
    [] kind.flow.extra # "share" /\ Creating
         -> IF kind.schema.keeps THEN Unset ELSE Default
    [] OTHER -> prior.extra

Follows ==
  /\ kind.flow.extra \in {"own", "share"} \cup (IF Creating THEN {"update"} ELSE {})
  /\ Planned.extra \notin {Unset, PriorExtra}

WriteExtra ==
  /\ server # Absent
  /\ server' = Stored(IF kind.flow.extra = "update" THEN config.main ELSE server.main,
                      Planned.extra, server.secret)

Follow ==
  /\ pc = "follow"
  /\ IF Follows
       THEN /\ WriteExtra
            /\ rec' = Stored(rec.main, Planned.extra, rec.secret)
       ELSE UNCHANGED <<server, rec>>
  /\ pc' = "back"
  /\ UNCHANGED <<kind, config, openly, state, flag, tainted, known, prior,
                 sending, passed, result, meddled, doubt, edits, failures,
                 outside>>

\* What a create that stops halfway puts in the state.
Kept ==
  IF kind.flow.saves = "plan"
    THEN Model(config.main, IF Planned.extra = Unset THEN rec.extra ELSE Planned.extra,
               Plain(config), config.version, config.verify)
    ELSE Flatten(rec, Planned)

FollowFails ==
  /\ pc = "follow"
  /\ Follows
  /\ CallMayFail
  /\ WriteExtra \/ UNCHANGED server
  /\ \/ /\ kind.flow.onFail = "go_on"
        /\ pc' = "back" /\ result' = "error"
        /\ UNCHANGED <<state, flag, tainted>>
     \/ kind.flow.onFail = "keep" /\ GiveUpWith(Kept)
     \/ kind.flow.onFail = "blank" /\ GiveUpWith([Kept EXCEPT !.extra = Default])
     \/ kind.flow.onFail = "forget" /\ GiveUp
  /\ UNCHANGED <<kind, config, openly, known, prior, sending, passed, rec,
                 meddled, doubt, edits, outside>>

ReadsBack ==
  IF Creating
    THEN \/ kind.flow.back = "always"
         \/ kind.flow.back = "extra" /\ Follows
    ELSE kind.flow.reread /\ kind.flow.extra # "share"

Back ==
  /\ pc = "back"
  /\ IF ReadsBack THEN server # Absent /\ rec' = server ELSE UNCHANGED rec
  /\ pc' = "save"
  /\ UNCHANGED <<kind, config, openly, state, flag, tainted, server, known,
                 prior, sending, passed, result, meddled, doubt, edits,
                 failures, outside>>

BackFails ==
  /\ pc = "back"
  /\ ReadsBack
  /\ CallMayFail
  /\ \/ kind.flow.backFail = "keep" /\ GiveUpWith(Kept)
     \/ kind.flow.backFail = "forget" /\ GiveUp
  /\ UNCHANGED <<kind, config, openly, server, known, prior, sending, passed,
                 rec, meddled, doubt, edits, outside>>

\* Terraform compares what comes back with what it planned.
Matches(m) ==
  /\ m.main = Planned.main
  /\ m.secret = Planned.secret
  /\ Planned.extra # Unset => m.extra = Planned.extra

Save ==
  /\ pc = "save"
  /\ state' = Kept
  /\ result' = IF result = "none" /\ ~Matches(Kept) THEN "inconsistent" ELSE result
  /\ tainted' = (Creating /\ result' # "none")
  /\ doubt' = (doubt /\ (sending # config.secret \/ meddled))
  /\ pc' = "test"
  /\ UNCHANGED <<kind, config, openly, flag, server, known, prior, sending,
                 passed, rec, meddled, edits, failures, outside>>

\* A git provider is tested by its id, after the state has been set.
Test ==
  /\ pc = "test"
  /\ IF Tests("after")
       THEN server # Absent /\ passed' = [main |-> server.main, secret |-> server.secret]
       ELSE UNCHANGED passed
  /\ result' = IF result = "none" THEN "ok" ELSE result
  /\ pc' = "idle"
  /\ UNCHANGED <<kind, config, openly, state, flag, tainted, server, known,
                 prior, sending, rec, meddled, doubt, edits, failures, outside>>

TestFails ==
  /\ pc = "test"
  /\ Tests("after")
  /\ CallMayFail
  /\ result' = "error"
  /\ tainted' = Creating
  /\ pc' = "idle"
  /\ UNCHANGED <<kind, config, openly, state, flag, server, known, prior,
                 sending, passed, rec, meddled, doubt, edits, outside>>

-----------------------------------------------------------------------------
(* The operator, and whoever else uses the server. *)

\* One attribute at a time; a companion gets a version never used before.
Edited(c) ==
  /\ c # config
  /\ \/ c = [config EXCEPT !.main = c.main]
     \/ c = [config EXCEPT !.extra = c.extra]
     \/ c = [config EXCEPT !.verify = c.verify]
     \/ /\ c = [config EXCEPT !.form = c.form, !.secret = c.secret, !.version = c.version]
        /\ c.form = "companion" => c.version = edits + 2

Edit ==
  /\ pc = "idle"
  /\ edits < MaxEdits
  /\ \E c \in Configs(kind) : Edited(c) /\ config' = c
  /\ openly' = openly \cup ({Plain(config')} \ {Null})
  /\ edits' = edits + 1
  /\ result' = "none"
  /\ UNCHANGED <<kind, state, flag, tainted, server, known, pc, prior, sending,
                 passed, rec, meddled, doubt, failures, outside>>

OutsideChange ==
  /\ server # Absent
  /\ outside < MaxOutside
  /\ \/ \E m \in Values : server' = Stored(m, server.extra, server.secret)
     \/ \E x \in ExtraOf(kind) \ {Unset} : server' = Stored(server.main, x, server.secret)
     \/ HasSecret(kind) /\ server' = Stored(server.main, server.extra, Theirs)
  /\ server' # server
  /\ doubt' = (doubt \/ server'.secret # server.secret)
  /\ meddled' = TRUE
  /\ outside' = outside + 1
  /\ UNCHANGED <<kind, config, openly, state, flag, tainted, known, pc, prior,
                 sending, passed, rec, result, edits, failures>>

OutsideDelete ==
  /\ server # Absent
  /\ outside < MaxOutside
  /\ server' = Absent
  /\ known' = FALSE
  /\ meddled' = TRUE
  /\ outside' = outside + 1
  /\ UNCHANGED <<kind, config, openly, state, flag, tainted, pc, prior, sending,
                 passed, rec, result, doubt, edits, failures>>

-----------------------------------------------------------------------------
Next ==
  \/ Refresh \/ RefreshFails \/ Plan \/ Delete \/ DeleteFails
  \/ Before \/ PreludeFails \/ NameRefused \/ StoredFails
  \/ Check \/ CheckFails
  \/ SendCreate \/ SendCreateFails \/ SendUpdate \/ SendUpdateFails
  \/ Fetch \/ FetchFails \/ Follow \/ FollowFails \/ Back \/ BackFails
  \/ Save \/ Test \/ TestFails
  \/ Edit \/ OutsideChange \/ OutsideDelete

Spec == Init /\ [][Next]_vars

-----------------------------------------------------------------------------
(* Properties. *)

SomeSecret == Secrets \cup {Theirs, Null}
Records == [main: Values, extra: {Default, Other}, secret: SomeSecret]
States == [main: Values, extra: {Default, Other}, secret: SomeSecret,
           version: 0 .. MaxEdits + 1, verify: BOOLEAN]

ASSUME AbsentAssumption == Absent \notin Records \cup States

\* Every variable has its type; no record and no state holds the mask.
TypeOK ==
  /\ kind \in Kinds
  /\ config \in Configs(kind)
  /\ openly \subseteq Secrets
  /\ state \in States \cup {Absent}
  /\ flag \in BOOLEAN /\ tainted \in BOOLEAN /\ known \in BOOLEAN
  /\ server \in Records \cup {Absent}
  /\ pc \in {"idle", "plan", "delete", "before", "check", "send", "fetch",
             "follow", "back", "save", "test"}
  /\ prior \in States \cup {Absent}
  /\ sending \in SomeSecret \cup {Mask}
  /\ passed \in [main: Values, secret: SomeSecret] \cup {Absent}
  /\ rec \in Records \cup {Absent}
  /\ result \in {"none", "ok", "error", "inconsistent"}
  /\ meddled \in BOOLEAN /\ doubt \in BOOLEAN
  /\ edits \in 0 .. MaxEdits
  /\ failures \in 0 .. MaxFailures
  /\ outside \in 0 .. MaxOutside

\* The last apply of the present configuration ended without an error, and
\* nobody else has touched the record since it looked.
Applied == pc = "idle" /\ result = "ok" /\ ~meddled

\* An apply that ends without an error has brought the record to the
\* configuration, whatever half-finished, tainted or drifted state it started
\* from: the promise of the handlers' messages, "The next apply will
\* converge".  A secret that changed where no read shows it is excepted.
ApplyConverges ==
  Applied =>
    /\ server # Absent
    /\ server.main = config.main
    /\ config.extra # Unset => server.extra = config.extra
    /\ doubt \/ server.secret = config.secret

\* The handlers implement Reconcile.  What a read shows is wanted; a secret that
\* is resent, or an attribute that is left out, goes back as it was read.
Shown == kind.wire.secret = "returned" /\ config.form = "plain"
Wanted ==
  [value |-> [k \in {"main", "secret"} \cup (IF config.extra = Unset THEN {} ELSE {"extra"})
                |-> config[k]],
   hidden |-> IF Shown THEN {} ELSE {"secret"},
   resent |-> (IF config.extra = Unset THEN {"extra"} ELSE {})
              \cup (IF kind.flow.stored = "never" THEN {} ELSE {"secret"})]

\* A record that a failed Create has left behind is nobody's.
Ours == state # Absent \/ pc \in {"fetch", "follow", "back", "save"}
OurRecord == IF Ours THEN server ELSE Absent

Contract == INSTANCE Reconcile WITH
  NoRecord <- Absent,
  Unseen <- SomeSecret,
  wanted <- Wanted,
  record <- OurRecord,
  deployed <- Absent,
  verdict <- IF pc # "idle" THEN "running"
             ELSE IF result = "inconsistent" THEN "error" ELSE result,
  disturbed <- meddled,
  others <- outside
ImplementsReconcile == Contract!Spec

\* Terraform never finds that the provider "produced an inconsistent result
\* after apply" when nobody else interferes: flatten, hideWriteOnly and
\* setComputed give back what was planned.
ConsistentResult == result = "inconsistent" => meddled

\* While every configuration has used the companion, the state never holds
\* the secret, not even one that a read returns: "The write-only companion
\* keeps it out of the Terraform state".
CompanionKeptOut ==
  (openly = {} /\ state # Absent) => state.secret = Null

\* The handlers after whose create call nothing drops the id.
Recording(k) ==
  /\ k.wire.create # "id"
  /\ k.flow.extra = "none" \/ k.flow.onFail # "forget"
  /\ k.flow.back = "never" \/ k.flow.backFail = "keep"

\* "Record the created id in state and return the error": once such a handler
\* has been told the id of a record, Terraform keeps track of the record
\* until it is gone, whichever of the later calls fail.
CreatedIsRecorded ==
  (Recording(kind) /\ pc = "idle" /\ known /\ server # Absent) => state # Absent

ChecksWrite ==
  (/\ pc = "send" /\ server' # Absent /\ server' # server /\ ~meddled'
   /\ Tests("before"))
    => passed = [main |-> server'.main, secret |-> server'.secret]

\* With verify_connection, what is written is what passed the test: the
\* resolved secret together with the planned attributes.  (A server that
\* masks the secret tests the one it has, which somebody may change before
\* the write.)
CheckedWrites == [][ChecksWrite]_vars
=============================================================================
