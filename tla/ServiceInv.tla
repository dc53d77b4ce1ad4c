----------------------------- MODULE ServiceInv -----------------------------
(* Inductive invariants of Service, for the services of ServiceKinds.      *)
EXTENDS Service, ServiceKinds

Handling == pc \in Writes \cup Reads \cup {"deploy"}
Applying == Handling \/ pc = "create"

\* The calls of the handler that are still to come.
Later == {Steps[i] : i \in PositionOf(pc) .. Len(Steps)}

\* A configuration gives every secret in a form that the schema allows, and
\* its versions are never reused: the next one is edits + 2.
ConfigInv ==
  /\ config = Configuration(config.attrs, config.form, config.secret,
                            config.version, config.auto)
  /\ config.attrs \in [Groups -> {First, Other}]
  /\ config.form \in [Secrets -> {"plain", "companion", "omitted"}]
  /\ config.secret \in [Secrets -> Passwords \cup {Empty, Null}]
  /\ config.version \in [Secrets -> 0 .. MaxEdits + 1]
  /\ config.auto \in BOOLEAN
  /\ \A s \in Secrets :
       /\ config.form[s] = "omitted" <=> config.secret[s] = Null
       /\ s \notin Computed => config.secret[s] \in Passwords
       /\ config.version[s] <= edits + 1
       /\ config.version[s] > 0 => config.form[s] = "companion"
       /\ config.form[s] = "companion" /\ Versioned => config.version[s] > 0

\* What an apply carries out: the configuration, on a state that is not
\* tainted, and in place only what need not be replaced.
PlannedSecret(s) ==
  IF config.form[s] = "plain" THEN config.secret[s]
  ELSE IF s \notin Computed THEN Null
  ELSE IF Creating THEN Unknown
  ELSE IF s \in Companions THEN Null
  ELSE IF prior.secret[s] = Null THEN Unknown ELSE prior.secret[s]

PlanInv ==
  /\ Applying =>
       /\ plan = Model(config.attrs, [s \in Secrets |-> PlannedSecret(s)],
                       config.version, config.auto)
       /\ state = prior /\ ~tainted
       /\ ~Creating => ("names" \in Groups => plan.attrs["names"] = prior.attrs["names"])
  /\ pc = "delete" => plan = PlannedNew /\ state # Absent
  /\ pc = "create" => Creating
  /\ Handling => pc \in {Steps[i] : i \in DOMAIN Steps}
  /\ tainted => state # Absent
  /\ state # Absent => \A s \in Secrets : state.version[s] <= edits + 1

\* A handler has looked at the record before it needs what it holds.
SeenInv ==
  /\ ~Handling => seen = Absent
  /\ (Handling /\ "readback" \notin Later) => seen # Absent
  /\ (pc = "update" /\ ~Creating /\ NeedsServerValue) => seen # Absent

BaseInv == TypeOK /\ ConfigInv /\ PlanInv /\ SeenInv

\* What it saw of the secrets is so until its own update.
FreshInv ==
  /\ (Handling /\ seen # Absent /\ ~meddled
        /\ ("update" \in Later \/ "readback" \notin Later))
       => server # Absent /\ seen.secret = server.secret
  /\ (Handling /\ ~Creating /\ ~meddled /\ "readback" \notin Later) => seen = server

\* A create has given every secret it was told of; before its update, an
\* apply in place has seen what the record holds, or nothing.
GivenInv ==
  /\ (Handling /\ Creating /\ ~meddled) =>
       /\ server # Absent
       /\ \A s \in Secrets :
            server.secret[s] = IF config.secret[s] = Null THEN Generated
                                                          ELSE config.secret[s]
  /\ (Handling /\ ~Creating /\ ~meddled /\ "update" \in Later) =>
       /\ server # Absent
       /\ \A s \in Secrets : prior.secret[s] \in {Null, server.secret[s]}

\* The plan is made from what the refresh found.
RefreshedInv ==
  (pc \in {"plan", "move"} /\ state # Absent /\ ~meddled) =>
    /\ server # Absent
    /\ state.attrs = server.attrs
    /\ \A s \in Secrets :
         state.secret[s] = IF s \in flags THEN Null ELSE server.secret[s]

KeptInv == FreshInv /\ GivenInv /\ RefreshedInv
-----------------------------------------------------------------------------
(* Convergence. *)

\* The groups a call is there for: the ports go first when the service becomes
\* a replica, and all three are cleared in two requests.
FirstPorts == IF FullClear THEN Ports \ {"grpc"} ELSE Ports
OtherPorts == IF FullClear THEN {"grpc"} ELSE {}

Carries(step) ==
  CASE step = "move"      -> {"place"}
    [] step = "update"    -> kind.wire.updated
    [] step = "env"       -> {"env"}
    [] step = "early"     -> IF BecomingReplica THEN FirstPorts ELSE {}
    [] step = "earlyRest" -> IF BecomingReplica THEN OtherPorts ELSE {}
    [] step = "ports"     -> IF BecomingReplica THEN {} ELSE FirstPorts
    [] step = "portsRest" -> IF BecomingReplica THEN {} ELSE OtherPorts
    [] OTHER              -> {}

\* The groups ahead of the place of a handler, but for those a create made.
Ahead ==
  {g \in Groups : (\E step \in Later : g \in Carries(step))
                    /\ ~(Creating /\ g \in kind.wire.made)}

\* Behind its place the record is as planned, and ahead of it as planned or
\* as it was.
SavedInv ==
  (Handling /\ ~meddled) =>
    /\ server # Absent
    /\ \A g \in Groups : server.attrs[g] = plan.attrs[g]
                           \/ (g \in Ahead /\ server.attrs[g] = PriorAttr(g))

\* The flags follow the configuration while a handler runs, and stay with the
\* state that it left.
FlagsInv ==
  /\ (Handling /\ pc # "move") => flags = Companions
  /\ state # Absent =>
       \A s \in Secrets :
         (state.version[s] = config.version[s] /\ config.version[s] > 0) => s \in flags

\* A companion whose version the state has, or that the handler has sent, is
\* at the server, unless somebody else has set the secret.
CompanionAt(record, s) ==
  record # Absent => record.secret[s] \in {config.secret[s], Theirs}

SentInv ==
  \A s \in Secrets : config.version[s] > 0 =>
    /\ (state # Absent /\ state.version[s] = config.version[s])
         => CompanionAt(server, s) /\ (Handling => CompanionAt(seen, s))
    /\ (Handling /\ (Creating \/ "update" \notin Later)) => CompanionAt(server, s)

\* What was sent of the secrets is what was asked for.
SatisfiedInv ==
  (Handling /\ ~meddled /\ "update" \notin Later) => \A s \in Secrets : Satisfied(s)

ConvergeInv == SavedInv /\ FlagsInv /\ SentInv /\ SatisfiedInv

-----------------------------------------------------------------------------
(* What the server accepts.                                                *)

\* Only the update carries the node.
NodeInv ==
  (Handling /\ ~Creating /\ ~meddled /\ "node" \in Groups /\ "update" \in Later)
    => server # Absent /\ server.attrs["node"] = prior.attrs["node"]

\* As long as nobody else changes it, a replica has no ports, at no moment of
\* any apply.
ValidInv ==
  /\ meddled => outside > 0
  /\ outside = 0 =>
       /\ server # Absent => Valid(server.attrs)
       /\ (Applying /\ ~Creating) => Valid(prior.attrs)

AcceptedInv == NodeInv /\ ValidInv

-----------------------------------------------------------------------------
(* What a single step may do. *)

\* Only a Create under way works on a record that is in no state.
OrphanInv == (state = Absent /\ ~Handling) => server = Absent

\* No call of a handler sets a group of a live service to anything but what the
\* configuration says of it now, not even when somebody else changes the record
\* meanwhile or an earlier apply was left half done.
OnlyConfigured ==
  [][(Terraform /\ server # Absent /\ server' # Absent /\ pc # "create")
       => \A g \in Groups :
            server'.attrs[g] \in {server.attrs[g], config.attrs[g]}]_vars

\* A deployment that the provider begins is one of the whole configuration, the
\* secrets included, also when it then fails: never of a service whose ports,
\* environment or companions are yet to be sent.
WholeIsDeployed ==
  [][(Terraform /\ ~meddled /\ deployed' \notin {deployed, Absent})
       => /\ deployed' = server /\ server.attrs = config.attrs
          /\ \A s \in Secrets : Satisfied(s)]_vars
=============================================================================
