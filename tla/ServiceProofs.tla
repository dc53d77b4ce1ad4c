---------------------------- MODULE ServiceProofs ----------------------------
(* What Service guarantees for the services of ServiceKinds, proved for    *)
(* any secrets and any number of edits, failures and changes by others.    *)
EXTENDS ServiceInv, TLAPS

-----------------------------------------------------------------------------
(* The services and the calls of their handlers. *)

\* The calls of Create and Update in order.
LEMMA EngineSteps ==
  /\ DOMAIN EngineFlow.creates = 1 .. 6 /\ Len(EngineFlow.creates) = 6
  /\ EngineFlow.creates[1] = "create" /\ EngineFlow.creates[2] = "env"
  /\ EngineFlow.creates[3] = "ports" /\ EngineFlow.creates[4] = "readback"
  /\ EngineFlow.creates[5] = "update" /\ EngineFlow.creates[6] = "deploy"
  /\ DOMAIN EngineFlow.updates = 1 .. 7 /\ Len(EngineFlow.updates) = 7
  /\ EngineFlow.updates[1] = "move" /\ EngineFlow.updates[2] = "before"
  /\ EngineFlow.updates[3] = "update" /\ EngineFlow.updates[4] = "env"
  /\ EngineFlow.updates[5] = "ports" /\ EngineFlow.updates[6] = "readback"
  /\ EngineFlow.updates[7] = "deploy"
BY DEF EngineFlow

LEMMA LibsqlSteps ==
  /\ DOMAIN LibsqlFlow.creates = 1 .. 7 /\ Len(LibsqlFlow.creates) = 7
  /\ LibsqlFlow.creates[1] = "create" /\ LibsqlFlow.creates[2] = "update"
  /\ LibsqlFlow.creates[3] = "env" /\ LibsqlFlow.creates[4] = "ports"
  /\ LibsqlFlow.creates[5] = "portsRest" /\ LibsqlFlow.creates[6] = "readback"
  /\ LibsqlFlow.creates[7] = "deploy"
  /\ DOMAIN LibsqlFlow.updates = 1 .. 9 /\ Len(LibsqlFlow.updates) = 9
  /\ LibsqlFlow.updates[1] = "move" /\ LibsqlFlow.updates[2] = "early"
  /\ LibsqlFlow.updates[3] = "earlyRest" /\ LibsqlFlow.updates[4] = "update"
  /\ LibsqlFlow.updates[5] = "env" /\ LibsqlFlow.updates[6] = "ports"
  /\ LibsqlFlow.updates[7] = "portsRest" /\ LibsqlFlow.updates[8] = "readback"
  /\ LibsqlFlow.updates[9] = "deploy"
BY DEF LibsqlFlow

LEMMA ComposeSteps ==
  /\ DOMAIN ComposeFlow.creates = 1 .. 5 /\ Len(ComposeFlow.creates) = 5
  /\ ComposeFlow.creates[1] = "create" /\ ComposeFlow.creates[2] = "update"
  /\ ComposeFlow.creates[3] = "env" /\ ComposeFlow.creates[4] = "readback"
  /\ ComposeFlow.creates[5] = "deploy"
  /\ DOMAIN ComposeFlow.updates = 1 .. 5 /\ Len(ComposeFlow.updates) = 5
  /\ ComposeFlow.updates[1] = "move" /\ ComposeFlow.updates[2] = "update"
  /\ ComposeFlow.updates[3] = "env" /\ ComposeFlow.updates[4] = "readback"
  /\ ComposeFlow.updates[5] = "deploy"
BY DEF ComposeFlow

\* A handler makes each call once and ends with the deployment.
Ordered(steps) ==
  /\ Len(steps) \in Nat \ {0} /\ DOMAIN steps = 1 .. Len(steps)
  /\ \A i, j \in DOMAIN steps : steps[i] = steps[j] => i = j
  /\ steps[Len(steps)] = "deploy"

\* What the flows have in common.  Reading back comes last in an update, and
\* before the update of a create where a secret may still be unknown.
Sound(flow, generated) ==
  /\ Ordered(flow.creates) /\ Ordered(flow.updates)
  /\ \A i \in DOMAIN flow.creates :
       /\ flow.creates[i] = "create" <=> i = 1
       /\ i > 1 => flow.creates[i] \in {"update", "env", "ports", "portsRest",
                                        "readback", "deploy"}
  /\ \A i \in DOMAIN flow.updates :
       /\ flow.updates[i] = "move" <=> i = 1
       /\ flow.updates[i] \in Writes \cup Reads \cup {"deploy"}
       /\ flow.updates[i] = "readback" <=> i = Len(flow.updates) - 1
  /\ \E i \in DOMAIN flow.creates : flow.creates[i] = "update"
  /\ \E i \in DOMAIN flow.updates : flow.updates[i] = "update"
  /\ \E i \in DOMAIN flow.creates :
       /\ flow.creates[i] = "readback"
       /\ generated => \A j \in DOMAIN flow.creates : flow.creates[j] = "update" => i < j
  /\ generated => \A j \in DOMAIN flow.updates :
       flow.updates[j] = "update" => j > 1 /\ flow.updates[j - 1] = "before"

LEMMA EngineSound == \A generated \in BOOLEAN : Sound(EngineFlow, generated)
<1>1. Ordered(EngineFlow.creates)
  BY EngineSteps DEF Ordered
<1>2. Ordered(EngineFlow.updates)
  BY EngineSteps DEF Ordered
<1> QED
  BY <1>1, <1>2, EngineSteps DEF Sound, Writes, Reads

LEMMA LibsqlSound == Sound(LibsqlFlow, FALSE)
<1>1. Ordered(LibsqlFlow.creates)
  BY LibsqlSteps DEF Ordered
<1>2. Ordered(LibsqlFlow.updates)
  BY LibsqlSteps DEF Ordered
<1> QED
  BY <1>1, <1>2, LibsqlSteps DEF Sound, Writes, Reads

LEMMA ComposeSound == Sound(ComposeFlow, FALSE)
<1>1. Ordered(ComposeFlow.creates)
  BY ComposeSteps DEF Ordered
<1>2. Ordered(ComposeFlow.updates)
  BY ComposeSteps DEF Ordered
<1> QED
  BY <1>1, <1>2, ComposeSteps DEF Sound, Writes, Reads

\* What the services have in common.
LEMMA ServiceParts ==
  ASSUME NEW k \in AllServices
  PROVE  /\ Sound(k.flow, k.schema.computed # {})
         /\ k.flow \in {EngineFlow, LibsqlFlow, ComposeFlow}
         /\ k.schema.computed \subseteq k.schema.secrets
         /\ k.wire.literal = k.schema.computed
         /\ k.flow.deploys \in {"changed", "any"}
         /\ k.flow.deploys = "any" => k.schema.computed = {}
<1> DEFINE Good(m) == /\ Sound(m.flow, m.schema.computed # {})
                      /\ m.flow \in {EngineFlow, LibsqlFlow, ComposeFlow}
                      /\ m.schema.computed \subseteq m.schema.secrets
                      /\ m.wire.literal = m.schema.computed
                      /\ m.flow.deploys \in {"changed", "any"}
                      /\ m.flow.deploys = "any" => m.schema.computed = {}
<1>e. \A m : (m.flow = EngineFlow /\ m.schema.computed \subseteq m.schema.secrets
                /\ m.wire.literal = m.schema.computed) => Good(m)
  <2>1. EngineFlow.deploys = "changed"
    BY DEF EngineFlow
  <2>2. \A m : Sound(EngineFlow, m.schema.computed # {})
    BY EngineSound
  <2> QED
    BY <2>1, <2>2
<1>l. \A m : (m.flow \in {LibsqlFlow, ComposeFlow} /\ m.schema.computed = {}
                /\ m.wire.literal = {}) => Good(m)
  <2>1. LibsqlFlow.deploys = "any" /\ ComposeFlow.deploys = "any"
    BY DEF LibsqlFlow, ComposeFlow
  <2>2. \A m : m.schema.computed = {} => /\ Sound(LibsqlFlow, m.schema.computed # {})
                                         /\ Sound(ComposeFlow, m.schema.computed # {})
    BY LibsqlSound, ComposeSound
  <2> QED
    BY <2>1, <2>2
<1> HIDE DEF Good
<1>1. Good(PostgresKind)
  BY <1>e DEF PostgresKind, PostgresWire, Kind, Wire, Schema
<1>2. Good(MysqlKind)
  BY <1>e DEF MysqlKind, MysqlWire, Kind, Wire, Schema
<1>3. Good(MariadbKind)
  BY <1>e DEF MariadbKind, MariadbWire, Kind, Wire, Schema
<1>4. Good(MongoKind)
  BY <1>e DEF MongoKind, MongoWire, Kind, Wire, Schema
<1>5. Good(RedisKind)
  BY <1>e DEF RedisKind, RedisWire, Kind, Wire, Schema
<1>6. Good(LibsqlKind)
  BY <1>l DEF LibsqlKind, LibsqlWire, Kind, Wire, Schema
<1>7. Good(ComposeKind)
  BY <1>l DEF ComposeKind, ComposeWire, Kind, Wire, Schema
<1> QED
  BY <1>1, <1>2, <1>3, <1>4, <1>5, <1>6, <1>7 DEF AllServices, Good

OurServices == Kinds \subseteq AllServices

LEMMA KindParts ==
  ASSUME OurServices, kind \in Kinds
  PROVE  /\ Sound(kind.flow, Computed # {})
         /\ Computed \subseteq Secrets
         /\ kind.wire.literal = Computed
         /\ kind.flow.deploys \in {"changed", "any"}
         /\ kind.flow.deploys = "any" => Computed = {}
BY ServiceParts DEF OurServices, Computed, Secrets

\* An update starts with the move.
LEMMA StartsWithMove ==
  ASSUME OurServices, kind \in Kinds
  PROVE  kind.flow.updates[1] = "move"
<1>1. Sound(kind.flow, Computed # {})
  BY KindParts
<1>2. 1 \in DOMAIN kind.flow.updates
  BY <1>1 DEF Sound, Ordered
<1> QED
  BY <1>1, <1>2 DEF Sound

\* The calls ahead in any list of them.
LEMMA Positions ==
  ASSUME NEW steps, Ordered(steps), NEW i \in DOMAIN steps
  PROVE  (CHOOSE j \in DOMAIN steps : steps[j] = steps[i]) = i
BY DEF Ordered

\* The place of a handler, and where a call takes it.
LEMMA LaterParts ==
  ASSUME OurServices, kind \in Kinds, Handling, pc \in {Steps[i] : i \in DOMAIN Steps}
  PROVE  /\ pc \in Later
         /\ Later \subseteq Writes \cup Reads \cup {"create", "deploy"}
         /\ pc = "deploy" => Later = {"deploy"}
         /\ pc # "deploy" => /\ After(pc) \in Later \ {pc}
                             /\ After(pc) \in Writes \cup Reads \cup {"deploy"}
                             /\ After(pc) # "move"
                             /\ After(pc) \in {Steps[i] : i \in DOMAIN Steps}
         /\ "deploy" \in Later
         /\ (~Creating /\ pc \in Writes \cup {"before"}) => "readback" \in Later
         /\ (~Creating /\ "readback" \notin Later) => Later = {"deploy"}
         /\ (Creating /\ Computed # {} /\ "update" \in Later /\ pc = "update")
              => "readback" \notin Later
         /\ (~Creating /\ Computed # {} /\ pc # "deploy" /\ After(pc) = "update")
              => pc = "before"
         /\ (Creating => pc \notin {"move", "before"})
<1> DEFINE n == Len(Steps)
           p == PositionOf(pc)
<1>1. /\ Sound(kind.flow, Computed # {}) /\ Ordered(Steps)
      /\ Steps = IF Creating THEN kind.flow.creates ELSE kind.flow.updates
  BY KindParts DEF Sound, Steps
<1>2. /\ n \in Nat \ {0} /\ DOMAIN Steps = 1 .. n
      /\ \A i, j \in 1 .. n : Steps[i] = Steps[j] => i = j
      /\ Steps[n] = "deploy"
  BY <1>1 DEF Ordered
<1>3. p \in 1 .. n /\ Steps[p] = pc
  BY <1>1, <1>2, Positions DEF PositionOf
<1>4. After(pc) = Steps[p + 1]
  BY DEF After
<1>5. Later = {Steps[i] : i \in p .. n}
  BY DEF Later
<1>6. pc = "deploy" <=> p = n
  BY <1>2, <1>3
<1>7. \A i \in 1 .. n : Steps[i] \in Writes \cup Reads \cup {"create", "deploy"}
  BY <1>1, <1>2 DEF Sound, Writes, Reads
<1>8. p < n => p + 1 \in 1 .. n /\ Steps[p + 1] # pc /\ Steps[p + 1] \in Later
  BY <1>2, <1>3, <1>5
<1>9. p < n => Steps[p + 1] \notin {"create", "move"}
  <2> SUFFICES ASSUME p < n PROVE Steps[p + 1] \notin {"create", "move"}
    OBVIOUS
  <2>1. p + 1 \in 1 .. n /\ p + 1 > 1
    BY <1>2, <1>3
  <2>2. CASE Creating
    BY <1>1, <1>2, <2>1, <2>2 DEF Sound
  <2>3. CASE ~Creating
    <3>1. \A i \in 1 .. n : /\ Steps[i] = "move" <=> i = 1
                           /\ Steps[i] \in Writes \cup Reads \cup {"deploy"}
      BY <1>1, <1>2, <2>3 DEF Sound
    <3>2. /\ Steps[p + 1] = "move" <=> p + 1 = 1
          /\ Steps[p + 1] \in Writes \cup Reads \cup {"deploy"}
      BY <2>1, <3>1
    <3> QED
      BY <1>2, <1>3, <2>1, <3>2 DEF Writes, Reads
  <2> QED
    BY <2>2, <2>3
<1> HIDE DEF n, p
<1>10. pc \in Later /\ "deploy" \in Later
  BY <1>2, <1>3, <1>5
<1>11. Later \subseteq Writes \cup Reads \cup {"create", "deploy"}
  BY <1>2, <1>3, <1>5, <1>7
<1>12. pc = "deploy" => Later = {"deploy"}
  BY <1>2, <1>3, <1>5, <1>6
<1>13. pc # "deploy" => /\ After(pc) \in Later \ {pc}
                        /\ After(pc) \in Writes \cup Reads \cup {"deploy"}
                        /\ After(pc) # "move"
                        /\ After(pc) \in {Steps[i] : i \in DOMAIN Steps}
  BY <1>2, <1>3, <1>4, <1>6, <1>7, <1>8, <1>9
<1>14. ~Creating => \A i \in 1 .. n : Steps[i] = "readback" <=> i = n - 1
  BY <1>1, <1>2 DEF Sound
<1>15. (~Creating /\ pc \in Writes \cup {"before"}) => "readback" \in Later
  <2> SUFFICES ASSUME ~Creating, pc \in Writes \cup {"before"} PROVE "readback" \in Later
    OBVIOUS
  <2>1. p # n /\ p # n - 1
    BY <1>2, <1>3, <1>14 DEF Writes
  <2>2. n - 1 \in p .. n /\ n - 1 \in 1 .. n
    BY <1>2, <1>3, <2>1
  <2> QED
    BY <1>5, <1>14, <2>2
<1>16. (~Creating /\ "readback" \notin Later) => Later = {"deploy"}
  <2> SUFFICES ASSUME ~Creating, "readback" \notin Later PROVE Later = {"deploy"}
    OBVIOUS
  <2>1. p = n
    BY <1>2, <1>3, <1>5, <1>14
  <2> QED
    BY <1>6, <1>12, <2>1
<1>17. (Creating /\ Computed # {} /\ pc = "update") => "readback" \notin Later
  <2> SUFFICES ASSUME Creating, Computed # {}, pc = "update", "readback" \in Later
               PROVE  FALSE
    OBVIOUS
  <2>1. PICK i \in p .. n : Steps[i] = "readback"
    BY <1>5
  <2>2. PICK j \in 1 .. n : /\ Steps[j] = "readback"
                            /\ \A u \in 1 .. n : Steps[u] = "update" => j < u
    BY <1>1, <1>2 DEF Sound
  <2>3. i \in 1 .. n /\ i = j
    BY <1>2, <1>3, <2>1, <2>2
  <2> QED
    BY <1>2, <1>3, <2>1, <2>2, <2>3
<1>18. (~Creating /\ Computed # {} /\ pc # "deploy" /\ After(pc) = "update")
         => pc = "before"
  <2> SUFFICES ASSUME ~Creating, Computed # {}, pc # "deploy", After(pc) = "update"
               PROVE  pc = "before"
    OBVIOUS
  <2>1. \A j \in 1 .. n : Steps[j] = "update" => j > 1 /\ Steps[j - 1] = "before"
    BY <1>1, <1>2 DEF Sound
  <2>2. p + 1 \in 1 .. n /\ Steps[p + 1] = "update"
    BY <1>2, <1>3, <1>4, <1>6
  <2>3. Steps[(p + 1) - 1] = "before"
    BY <2>1, <2>2
  <2>4. (p + 1) - 1 = p
    BY <1>2, <1>3
  <2> QED
    BY <1>3, <2>3, <2>4
<1>19. Creating => pc \notin {"move", "before"}
  <2>1. Creating => Steps[p] \in {"create", "update", "env", "ports", "portsRest",
                                  "readback", "deploy"}
    BY <1>1, <1>2, <1>3 DEF Sound
  <2> QED
    BY <1>3, <2>1
<1> QED
  BY <1>10, <1>11, <1>12, <1>13, <1>15, <1>16, <1>17, <1>18, <1>19

\* A call leaves behind it only itself.
LEMMA LaterStep ==
  ASSUME OurServices, kind \in Kinds, Handling, pc \in {Steps[i] : i \in DOMAIN Steps},
         pc # "deploy", pc' = After(pc), Steps' = Steps
  PROVE  Later' = Later \ {pc}
<1> DEFINE n == Len(Steps)
           p == PositionOf(pc)
<1>1. Ordered(Steps) /\ Ordered(Steps')
  BY KindParts DEF Sound, Steps
<1>2. /\ n \in Nat \ {0} /\ DOMAIN Steps = 1 .. n
      /\ \A i, j \in 1 .. n : Steps[i] = Steps[j] => i = j
      /\ Steps[n] = "deploy"
  BY <1>1 DEF Ordered
<1>3. p \in 1 .. n /\ Steps[p] = pc /\ p # n
  BY <1>1, <1>2, Positions DEF PositionOf
<1>4. pc' = Steps[p + 1] /\ p + 1 \in 1 .. n
  BY <1>2, <1>3 DEF After
<1>5. PositionOf(pc)' = p + 1
  <2>1. PositionOf(pc)' = CHOOSE i \in DOMAIN Steps : Steps[i] = Steps[p + 1]
    BY <1>4 DEF PositionOf
  <2> QED
    BY <1>1, <1>2, <1>4, <2>1, Positions
<1>6. Later = {Steps[i] : i \in p .. n} /\ Later' = {Steps[i] : i \in p + 1 .. n}
  BY <1>5 DEF Later
<1> HIDE DEF n, p
<1>7. \A i \in p .. n : Steps[i] = pc <=> i = p
  BY <1>2, <1>3
<1> QED
  BY <1>2, <1>3, <1>6, <1>7

-----------------------------------------------------------------------------
(* Configurations, plans, states and records. *)

LEMMA ValueParts ==
  /\ First # Other
  /\ Null \notin SomeSecret /\ Unknown \notin SomeSecret /\ Null # Unknown
  /\ Empty \in SomeSecret /\ Generated \in SomeSecret /\ Theirs \in SomeSecret
  /\ Passwords \subseteq SomeSecret /\ Empty \notin Passwords
BY ValuesAssumption DEF ValuesAssumption, SomeSecret

\* States and plans are taken apart and put together within their types.
LEMMA FieldParts ==
  /\ \A a, s, v, x : /\ Model(a, s, v, x).attrs = a
                     /\ Model(a, s, v, x).secret = s
                     /\ Model(a, s, v, x).version = v
                     /\ Model(a, s, v, x).auto = x
  /\ \A a, s : Stored(a, s).attrs = a /\ Stored(a, s).secret = s
BY DEF Model, Stored

LEMMA ModelParts ==
  /\ \A m \in Models : /\ m.attrs \in [Groups -> {First, Other}]
                       /\ m.secret \in [Secrets -> SomeSecret \cup {Null, Unknown}]
                       /\ m.version \in [Secrets -> 0 .. MaxEdits + 1]
                       /\ m.auto \in BOOLEAN
  /\ \A a \in [Groups -> {First, Other}],
        s \in [Secrets -> SomeSecret \cup {Null, Unknown}],
        v \in [Secrets -> 0 .. MaxEdits + 1], x \in BOOLEAN :
       Model(a, s, v, x) \in Models
BY DEF Models, ModelsOf, Model, Groups, Secrets

LEMMA RecordParts ==
  /\ \A r \in Records : /\ r.attrs \in [Groups -> {First, Other}]
                        /\ r.secret \in [Secrets -> SomeSecret]
  /\ \A a \in [Groups -> {First, Other}], s \in [Secrets -> SomeSecret] :
       Stored(a, s) \in Records
BY DEF Records, RecordsOf, Stored, Groups, Secrets

LEMMA AbsentParts ==
  ASSUME kind \in Kinds
  PROVE  Absent \notin Models /\ Absent \notin Records
BY AbsentAssumption DEF AbsentAssumption, Models, Records

\* What is configured of a secret.
LEMMA ConfigParts ==
  ASSUME ConfigInv
  PROVE  /\ config.attrs \in [Groups -> {First, Other}]
         /\ config.version \in [Secrets -> 0 .. MaxEdits + 1]
         /\ config.auto \in BOOLEAN
         /\ \A s \in Secrets :
              /\ config.form[s] \in {"plain", "companion", "omitted"}
              /\ config.secret[s] \in SomeSecret \cup {Null}
              /\ config.form[s] = "omitted" <=> config.secret[s] = Null
              /\ s \notin Computed => config.secret[s] \in Passwords
              /\ s \in Companions <=> config.form[s] = "companion"
              /\ config.version[s] \in Nat /\ config.version[s] <= edits + 1
              /\ config.version[s] > 0 => s \in Companions
              /\ (s \in Companions /\ Versioned) => config.version[s] > 0
BY ValueParts, BoundsAssumption DEF ConfigInv, Companions, SomeSecret, BoundsAssumption

\* What an apply has planned.
LEMMA PlannedParts ==
  ASSUME OurServices, BaseInv, Applying
  PROVE  /\ plan.attrs = config.attrs /\ plan.version = config.version
         /\ plan.auto = config.auto
         /\ plan.secret = [s \in Secrets |-> PlannedSecret(s)]
         /\ plan \in Models /\ state = prior /\ ~tainted
         /\ \A s \in Secrets :
              /\ plan.secret[s] = PlannedSecret(s)
              /\ PlannedSecret(s) \in SomeSecret \cup {Null, Unknown}
              /\ s \notin Computed => PlannedSecret(s) # Unknown
              /\ ~Creating => prior.secret[s] \in SomeSecret \cup {Null}
<1>1. /\ plan = Model(config.attrs, [s \in Secrets |-> PlannedSecret(s)],
                      config.version, config.auto)
      /\ state = prior /\ ~tainted
  BY DEF BaseInv, PlanInv
<1>2. /\ plan.attrs = config.attrs /\ plan.version = config.version
      /\ plan.auto = config.auto
      /\ plan.secret = [s \in Secrets |-> PlannedSecret(s)]
  BY <1>1, FieldParts
<1>3. \A s \in Secrets : ~Creating => prior.secret[s] \in SomeSecret \cup {Null}
  <2>1. ~Creating => prior \in Models /\ \A s \in Secrets : prior.secret[s] # Unknown
    BY <1>1 DEF BaseInv, TypeOK, ModelTypes, RecordTypes, PlaceTypes, Creating
  <2> QED
    BY <2>1, ModelParts
<1>4. \A s \in Secrets : /\ PlannedSecret(s) \in SomeSecret \cup {Null, Unknown}
                         /\ s \notin Computed => PlannedSecret(s) # Unknown
  BY <1>3, ConfigParts, ValueParts DEF BaseInv, PlannedSecret
<1>5. plan \in Models
  <2>1. [s \in Secrets |-> PlannedSecret(s)] \in [Secrets -> SomeSecret \cup {Null, Unknown}]
    BY <1>4
  <2>2. /\ config.attrs \in [Groups -> {First, Other}]
        /\ config.version \in [Secrets -> 0 .. MaxEdits + 1]
        /\ config.auto \in BOOLEAN
    BY ConfigParts DEF BaseInv
  <2> QED
    BY <1>1, <2>1, <2>2, ModelParts
<1> QED
  BY <1>1, <1>2, <1>3, <1>4, <1>5

\* What Plan proposes is what an apply has to plan.
LEMMA PlanWithParts ==
  ASSUME OurServices, kind \in Kinds, ConfigInv, NEW filled,
         \A s \in Computed : filled[s] \in SomeSecret \cup {Null, Unknown}
  PROVE  /\ PlanWith(filled) \in Models
         /\ PlanWith(filled).attrs = config.attrs
         /\ PlanWith(filled).version = config.version
         /\ PlanWith(filled).auto = config.auto
         /\ \A s \in Secrets :
              PlanWith(filled).secret[s] = IF config.form[s] = "plain" THEN config.secret[s]
                                           ELSE IF s \in Computed THEN filled[s]
                                           ELSE Null
<1> DEFINE secret == [s \in Secrets |-> IF config.form[s] = "plain" THEN config.secret[s]
                                        ELSE IF s \in Computed THEN filled[s]
                                        ELSE Null]
<1>1. PlanWith(filled) = Model(config.attrs, secret, config.version, config.auto)
  BY DEF PlanWith
<1>2. \A s \in Secrets : secret[s] \in SomeSecret \cup {Null, Unknown}
  BY ConfigParts
<1>3. secret \in [Secrets -> SomeSecret \cup {Null, Unknown}]
  BY <1>2
<1>4. PlanWith(filled) \in Models
  BY <1>1, <1>3, ConfigParts, ModelParts
<1> QED
  BY <1>1, <1>4, FieldParts

\* What a call holds of the record.
LEMMA EffectParts ==
  ASSUME OurServices, BaseInv, Handling, server # Absent, NEW step,
         step = "update" => \A s \in Secrets : StoredSecret(s) \in SomeSecret,
         Effect(step)
  PROVE  /\ server' \in Records /\ server' # Absent
         /\ \A g \in Groups :
              server'.attrs[g] = IF g \in Carried(step) THEN plan.attrs[g] ELSE server.attrs[g]
         /\ \A s \in Secrets :
              server'.secret[s] = IF step = "update" THEN StoredSecret(s) ELSE server.secret[s]
         /\ step # "update" => server'.secret = server.secret
<1> DEFINE attrs == [g \in Groups |-> IF g \in Carried(step) THEN plan.attrs[g]
                                                            ELSE server.attrs[g]]
           secret == [s \in Secrets |-> IF step = "update" THEN StoredSecret(s)
                                                           ELSE server.secret[s]]
<1>1. server' = Stored(attrs, secret)
  BY DEF Effect
<1>2. /\ server \in Records /\ kind \in Kinds
      /\ plan.attrs \in [Groups -> {First, Other}]
  BY PlannedParts, ModelParts DEF BaseInv, TypeOK, ModelTypes, RecordTypes, PlaceTypes, Applying
<1>3. /\ server.attrs \in [Groups -> {First, Other}]
      /\ server.secret \in [Secrets -> SomeSecret]
  BY <1>2, RecordParts
<1>4. attrs \in [Groups -> {First, Other}]
  BY <1>2, <1>3
<1>5. secret \in [Secrets -> SomeSecret]
  BY <1>3
<1>6. server' \in Records /\ server'.attrs = attrs /\ server'.secret = secret
  BY <1>1, <1>4, <1>5, RecordParts, FieldParts
<1>7. step # "update" => secret = server.secret
  BY <1>3
<1> QED
  BY <1>2, <1>6, <1>7, AbsentParts

\* Where the secret that an update stores comes from.
Source(s) ==
  IF config.form[s] = "plain" THEN IF Creating /\ s \in Computed THEN "seen" ELSE "config"
  ELSE IF config.form[s] = "companion"
    THEN IF Creating
           THEN IF s \in Computed /\ config.version[s] = 0 THEN "seen" ELSE "config"
           ELSE IF prior.secret[s] # Null \/ config.version[s] # prior.version[s]
                  THEN "config"
                  ELSE IF s \in Computed THEN "seen" ELSE "server"
  ELSE IF Creating \/ prior.secret[s] = Null THEN "seen" ELSE "prior"

LEMMA StoredParts ==
  ASSUME OurServices, BaseInv, pc = "update", server # Absent, NEW s \in Secrets
  PROVE  /\ StoredSecret(s) \in SomeSecret
         /\ Source(s) = "config" => /\ StoredSecret(s) = config.secret[s]
                                    /\ config.form[s] # "omitted"
         /\ Source(s) = "seen" => /\ StoredSecret(s) = seen.secret[s]
                                  /\ seen # Absent /\ s \in Computed
         /\ Source(s) = "server" => StoredSecret(s) = server.secret[s]
         /\ Source(s) = "prior" => /\ StoredSecret(s) = prior.secret[s]
                                   /\ prior.secret[s] # Null /\ ~Creating
         /\ Source(s) \in {"config", "seen", "server", "prior"}
<1>1. Handling /\ Applying /\ kind \in Kinds
  BY DEF Handling, Applying, Writes, BaseInv, TypeOK, PlaceTypes
<1>2. Computed \subseteq Secrets /\ kind.wire.literal = Computed
  BY <1>1, KindParts
<1>3. /\ server.secret[s] \in SomeSecret
      /\ seen # Absent => seen.secret[s] \in SomeSecret
  BY RecordParts DEF BaseInv, TypeOK, ModelTypes, RecordTypes, PlaceTypes
<1>4. /\ plan.secret[s] = PlannedSecret(s)
      /\ plan.version[s] = config.version[s]
      /\ ~Creating => prior.secret[s] \in SomeSecret \cup {Null}
  BY <1>1, PlannedParts
<1>5. /\ config.form[s] \in {"plain", "companion", "omitted"}
      /\ config.secret[s] \in SomeSecret \cup {Null}
      /\ config.form[s] = "omitted" <=> config.secret[s] = Null
      /\ s \notin Computed => config.secret[s] \in Passwords
      /\ s \in Companions <=> config.form[s] = "companion"
  BY ConfigParts DEF BaseInv
<1>6. (Creating /\ Computed # {}) => seen # Absent
  <2> SUFFICES ASSUME Creating, Computed # {} PROVE seen # Absent
    OBVIOUS
  <2>1. pc \in Later /\ "readback" \notin Later
    BY <1>1, LaterParts DEF BaseInv, PlanInv
  <2> QED
    BY <1>1, <2>1 DEF BaseInv, SeenInv
<1>7. (~Creating /\ s \in Computed /\ Held(s) \in {Null, Unknown} /\ ~Sends(s)) => seen # Absent
  BY DEF BaseInv, SeenInv, NeedsServerValue
<1>8. Held(s) = IF Creating /\ s \in Computed
                  THEN IF s \in Companions THEN Null ELSE seen.secret[s]
                  ELSE PlannedSecret(s)
  <2>1. s \in Computed => Resolved(seen).secret[s] = IF s \in Companions THEN Null
                                                     ELSE seen.secret[s]
    BY FieldParts DEF Resolved
  <2> QED
    BY <1>4, <2>1 DEF Held
<1>9. Sends(s) <=> \/ Held(s) \notin {Null, Unknown}
                   \/ /\ s \in Companions
                      /\ IF Creating
                           THEN s \notin Computed \/ config.version[s] # 0
                           ELSE prior.secret[s] # Null \/ config.version[s] # prior.version[s]
  BY <1>4 DEF Sends
<1>10. StoredSecret(s) = IF ToSend(s) = Empty /\ s \notin Computed THEN server.secret[s]
                                                                   ELSE ToSend(s)
  BY <1>2 DEF StoredSecret
<1>11. ToSend(s) = IF Sends(s) THEN IF Held(s) \notin {Null, Unknown} THEN Held(s)
                                                                      ELSE config.secret[s]
                   ELSE IF s \in Computed THEN seen.secret[s] ELSE Empty
  BY DEF ToSend
<1>12. CASE s \notin Computed
  <2>1. Held(s) = IF config.form[s] = "plain" THEN config.secret[s] ELSE Null
    BY <1>8, <1>12 DEF PlannedSecret
  <2>2. CASE config.form[s] = "plain"
    BY <1>5, <1>9, <1>10, <1>11, <1>12, <2>1, <2>2, ValueParts DEF Source
  <2>3. CASE config.form[s] = "companion"
    BY <1>3, <1>5, <1>9, <1>10, <1>11, <1>12, <2>1, <2>3, ValueParts DEF Source
  <2> QED
    BY <1>5, <1>12, <2>2, <2>3, ValueParts
<1>13. CASE s \in Computed /\ Creating
  <2>1. seen # Absent
    BY <1>6, <1>13
  <2>2. Held(s) = IF s \in Companions THEN Null ELSE seen.secret[s]
    BY <1>8, <1>13
  <2>3. StoredSecret(s) = ToSend(s)
    BY <1>10, <1>13
  <2>4. CASE s \in Companions
    BY <1>3, <1>5, <1>9, <1>11, <1>13, <2>1, <2>2, <2>3, <2>4, ValueParts DEF Source
  <2>5. CASE s \notin Companions
    <3>1. StoredSecret(s) = seen.secret[s]
      BY <1>3, <1>9, <1>11, <1>13, <2>1, <2>2, <2>3, <2>5, ValueParts
    <3>2. Source(s) = "seen"
      BY <1>5, <1>13, <2>5 DEF Source
    <3> QED
      BY <1>3, <1>13, <2>1, <3>1, <3>2
  <2> QED
    BY <2>4, <2>5
<1>14. CASE s \in Computed /\ ~Creating
  <2>1. StoredSecret(s) = ToSend(s)
    BY <1>10, <1>14
  <2>2. Held(s) = PlannedSecret(s)
    BY <1>8, <1>14
  <2>3. CASE config.form[s] = "plain"
    <3>1. Held(s) = config.secret[s] /\ config.secret[s] \in SomeSecret
      BY <1>5, <2>2, <2>3 DEF PlannedSecret
    <3> QED
      BY <1>9, <1>11, <1>14, <2>1, <2>3, <3>1, ValueParts DEF Source
  <2>4. CASE config.form[s] = "companion"
    <3>1. Held(s) = Null
      BY <1>5, <1>14, <2>2, <2>4 DEF PlannedSecret
    <3> QED
      BY <1>3, <1>5, <1>7, <1>9, <1>11, <1>14, <2>1, <2>4, <3>1, ValueParts DEF Source
  <2>5. CASE config.form[s] = "omitted"
    <3>1. Held(s) = IF prior.secret[s] = Null THEN Unknown ELSE prior.secret[s]
      BY <1>5, <1>14, <2>2, <2>5 DEF PlannedSecret
    <3>2. s \notin Companions
      BY <1>5, <2>5
    <3> QED
      BY <1>3, <1>4, <1>5, <1>7, <1>9, <1>11, <1>14, <2>1, <2>5, <3>1, <3>2, ValueParts
         DEF Source
  <2> QED
    BY <1>5, <2>3, <2>4, <2>5
<1> QED
  BY <1>12, <1>13, <1>14

-----------------------------------------------------------------------------
(* Types, plans and what a handler has seen. *)

\* What an apply leaves in the state.
LEMMA ResolvedParts ==
  ASSUME OurServices, BaseInv, Handling, NEW record \in Records
  PROVE  /\ Resolved(record) \in Models
         /\ Resolved(record).version = config.version
         /\ Resolved(record).auto = config.auto
         /\ \A g \in Groups : Resolved(record).attrs[g] = IF g = "image" THEN record.attrs[g]
                                                                      ELSE plan.attrs[g]
         /\ \A s \in Secrets :
              /\ Resolved(record).secret[s] = IF s \notin Computed THEN plan.secret[s]
                                              ELSE IF s \in Companions THEN Null
                                              ELSE record.secret[s]
              /\ Resolved(record).secret[s] # Unknown
<1> DEFINE attrs == [g \in Groups |-> IF g = "image" THEN record.attrs[g] ELSE plan.attrs[g]]
           secret == [s \in Secrets |-> IF s \notin Computed THEN plan.secret[s]
                                        ELSE IF s \in Companions THEN Null
                                        ELSE record.secret[s]]
<1>1. Resolved(record) = Model(attrs, secret, plan.version, plan.auto)
  BY DEF Resolved
<1>2. /\ plan \in Models /\ plan.version = config.version /\ plan.auto = config.auto
      /\ \A s \in Secrets :
           /\ plan.secret[s] \in SomeSecret \cup {Null, Unknown}
           /\ s \notin Computed => plan.secret[s] # Unknown
  BY PlannedParts DEF Applying
<1>3. /\ plan.attrs \in [Groups -> {First, Other}]
      /\ plan.version \in [Secrets -> 0 .. MaxEdits + 1] /\ plan.auto \in BOOLEAN
  BY <1>2, ModelParts
<1>4. /\ record.attrs \in [Groups -> {First, Other}]
      /\ record.secret \in [Secrets -> SomeSecret]
  BY RecordParts
<1>5. attrs \in [Groups -> {First, Other}]
  BY <1>3, <1>4
<1>6. \A s \in Secrets : secret[s] \in SomeSecret \cup {Null, Unknown} /\ secret[s] # Unknown
  BY <1>2, <1>4, ValueParts
<1>7. secret \in [Secrets -> SomeSecret \cup {Null, Unknown}]
  BY <1>6
<1>8. Resolved(record) \in Models
  BY <1>1, <1>3, <1>5, <1>7, ModelParts
<1>9. /\ Resolved(record).attrs = attrs /\ Resolved(record).secret = secret
      /\ Resolved(record).version = config.version /\ Resolved(record).auto = config.auto
  BY <1>1, <1>2, FieldParts
<1> QED
  BY <1>6, <1>8, <1>9

LEMMA SalvagedParts ==
  ASSUME OurServices, BaseInv, Handling, NEW read,
         read = Absent \/ read \in [Secrets -> SomeSecret]
  PROVE  /\ Salvaged(read) \in Models
         /\ Salvaged(read).version = config.version
         /\ \A s \in Secrets : Salvaged(read).secret[s] # Unknown
<1> DEFINE secret == [s \in Secrets |-> IF plan.secret[s] # Unknown THEN plan.secret[s]
                                        ELSE IF read = Absent \/ s \in Companions THEN Null
                                        ELSE read[s]]
<1>1. Salvaged(read) = Model(plan.attrs, secret, plan.version, plan.auto)
  BY DEF Salvaged
<1>2. /\ plan \in Models /\ plan.version = config.version
      /\ \A s \in Secrets : plan.secret[s] \in SomeSecret \cup {Null, Unknown}
  BY PlannedParts DEF Applying
<1>3. /\ plan.attrs \in [Groups -> {First, Other}]
      /\ plan.version \in [Secrets -> 0 .. MaxEdits + 1] /\ plan.auto \in BOOLEAN
  BY <1>2, ModelParts
<1>4. \A s \in Secrets : secret[s] \in SomeSecret \cup {Null, Unknown} /\ secret[s] # Unknown
  BY <1>2, ValueParts
<1>5. secret \in [Secrets -> SomeSecret \cup {Null, Unknown}]
  BY <1>4
<1>6. Salvaged(read) \in Models
  BY <1>1, <1>3, <1>5, ModelParts
<1>7. Salvaged(read).secret = secret /\ Salvaged(read).version = config.version
  BY <1>1, <1>2, FieldParts
<1> QED
  BY <1>4, <1>6, <1>7

\* What may become the state.
Storable(m) ==
  /\ m \in Models
  /\ \A s \in Secrets : m.secret[s] # Unknown /\ m.version[s] <= edits + 1

LEMMA ResolvedStorable ==
  ASSUME OurServices, BaseInv, Handling, NEW record \in Records
  PROVE  Storable(Resolved(record))
BY ResolvedParts, ConfigParts DEF Storable, BaseInv

\* What a failed handler leaves in the state.
LEMMA AbortParts ==
  ASSUME OurServices, BaseInv, Handling, Abort
  PROVE  /\ pc' = "idle" /\ seen' = Absent /\ result' = "error"
         /\ Creating => tainted' /\ Storable(state') /\ state'.version = config.version
         /\ ~Creating => state' = state /\ tainted' = tainted
<1>1. /\ pc' = "idle" /\ seen' = Absent /\ result' = "error"
      /\ ~Creating => state' = state /\ tainted' = tainted
  BY DEF Abort, Stop
<1>2. CASE Creating /\ seen # Absent
  <2>1. tainted' /\ state' = Resolved(seen) /\ seen \in Records
    BY <1>2 DEF Abort, BaseInv, TypeOK, RecordTypes
  <2>2. Storable(state') /\ state'.version = config.version
    BY <2>1, ResolvedStorable, ResolvedParts
  <2> QED
    BY <1>1, <1>2, <2>1, <2>2
<1>3. CASE Creating /\ seen = Absent
  <2>1. tainted'
    BY <1>3 DEF Abort
  <2>2. PICK read \in {Absent} \cup (IF server = Absent THEN {} ELSE {server.secret}) :
          state' = Salvaged(read)
    BY <1>3 DEF Abort
  <2>3. read = Absent \/ read \in [Secrets -> SomeSecret]
    BY <2>2, RecordParts DEF BaseInv, TypeOK, RecordTypes
  <2>4. Storable(state') /\ state'.version = config.version
    BY <2>2, <2>3, SalvagedParts, ConfigParts DEF Storable, BaseInv
  <2> QED
    BY <1>1, <1>3, <2>1, <2>4
<1> QED
  BY <1>1, <1>2, <1>3

\* What depends on the service only, and on the configuration only.
LEMMA SameKind ==
  ASSUME kind' = kind
  PROVE  /\ Groups' = Groups /\ Secrets' = Secrets /\ Computed' = Computed
         /\ Ports' = Ports /\ Models' = Models /\ Records' = Records
BY DEF Groups, Secrets, Computed, Ports, Models, Records

LEMMA SameConfig ==
  ASSUME ConfigInv, kind' = kind, config' = config, edits' = edits
  PROVE  ConfigInv' /\ Companions' = Companions
BY DEF ConfigInv, Companions, Groups, Secrets, Computed

\* What depends on the apply only.
LEMMA SameApply ==
  ASSUME kind' = kind, config' = config, plan' = plan, prior' = prior
  PROVE  /\ Creating' = Creating /\ Steps' = Steps /\ Computed' = Computed
         /\ Companions' = Companions
         /\ \A s : PlannedSecret(s)' = PlannedSecret(s)
         /\ ~Creating => NeedsServerValue' = NeedsServerValue
<1>1. /\ Creating' = Creating /\ Computed' = Computed /\ Companions' = Companions
      /\ Steps' = Steps
  BY DEF Creating, Steps, Computed, Companions, Secrets
<1>2. \A s : PlannedSecret(s)' = PlannedSecret(s)
  BY <1>1 DEF PlannedSecret
<1>3. ASSUME ~Creating PROVE NeedsServerValue' = NeedsServerValue
  <2>1. \A s : Held(s)' = Held(s)
    BY <1>1, <1>3 DEF Held
  <2>2. \A s : Sends(s)' <=> Sends(s)
    BY <1>1, <1>3, <2>1 DEF Sends
  <2> QED
    BY <1>1, <2>1, <2>2 DEF NeedsServerValue
<1> QED
  BY <1>1, <1>2, <1>3

\* Between applies there is nothing to keep but what is in the state.
LEMMA IdleBase ==
  ASSUME pc' \in {"idle", "plan"}, seen' = Absent, tainted' => state' # Absent,
         state' # Absent => \A s \in Secrets' : state'.version[s] <= edits' + 1
  PROVE  PlanInv' /\ SeenInv'
BY DEF PlanInv, SeenInv, Applying, Handling, Writes, Reads

LEMMA BooleansStep ==
  ASSUME Booleans, [Next]_vars
  PROVE  Booleans'
<1>1. CASE Refresh
  BY <1>1, Zenon DEF Booleans, Refresh
<1>2. CASE RefreshFails \/ Plan
  BY <1>2, Zenon DEF Booleans, RefreshFails, Plan
<1>3. CASE Delete \/ DeleteFails
  BY <1>3, Zenon DEF Booleans, Delete, DeleteFails
<1>4. CASE CreateCall \/ CreateFails \/ Shortcut
  BY <1>4, Zenon DEF Booleans, CreateCall, CreateFails, Shortcut
<1>5. CASE \E step \in Writes : Call(step) \/ CallFails(step)
  BY <1>5, Zenon DEF Booleans, Call, CallFails, Abort
<1>6. CASE \E step \in Reads : Look(step) \/ LookFails(step)
  BY <1>6, Zenon DEF Booleans, Look, LookFails, Abort
<1>7. CASE Finish
  <2>1. meddled' = meddled /\ \E x \in {TRUE, FALSE} : tainted' = x
    BY <1>7, Zenon DEF Finish
  <2> QED
    BY <2>1, Zenon DEF Booleans
<1>8. CASE DeployFails
  <2>1. meddled' = meddled /\ tainted' = Creating
    BY <1>8, Zenon DEF DeployFails
  <2> QED
    BY <2>1, Zenon DEF Booleans, Creating
<1>9. CASE Others
  <2>1. tainted' = tainted /\ (meddled' = meddled \/ meddled' = TRUE)
    BY <1>9, Zenon DEF Others, EditAttrs, EditSecret, EditAuto, Reconfigure, OutsideChange,
                       OutsideSecret, OutsideDelete, Meddle
  <2> QED
    BY <2>1, Zenon DEF Booleans
<1>10. CASE UNCHANGED vars
  BY <1>10, Zenon DEF Booleans, vars
<1> QED
  BY <1>1, <1>2, <1>3, <1>4, <1>5, <1>6, <1>7, <1>8, <1>9, <1>10, Zenon DEF Next, Terraform

\* BaseInv without its Booleans.
Base ==
  ModelTypes /\ RecordTypes /\ PlaceTypes /\ ConfigInv /\ PlanInv /\ SeenInv

LEMMA BaseParts == BaseInv <=> Base /\ Booleans
BY DEF BaseInv, Base, TypeOK

LEMMA BaseNext == Base' /\ Booleans' => BaseInv'
BY DEF BaseInv, Base, TypeOK

\* What a refresh stores.
LEMMA FlattenedParts ==
  ASSUME OurServices, BaseInv, state # Absent, server # Absent
  PROVE  /\ Flattened \in Models /\ Flattened # Absent
         /\ Flattened.version = state.version
         /\ \A s \in Secrets : Flattened.secret[s] # Unknown
<1> DEFINE secret == [s \in Secrets |-> IF s \in flags THEN Null ELSE server.secret[s]]
<1>1. state \in Models /\ server \in Records
  BY DEF BaseInv, TypeOK, ModelTypes, RecordTypes
<1>2. /\ state.version \in [Secrets -> 0 .. MaxEdits + 1] /\ state.auto \in BOOLEAN
      /\ server.attrs \in [Groups -> {First, Other}]
      /\ server.secret \in [Secrets -> SomeSecret]
  BY <1>1, ModelParts, RecordParts
<1>3. /\ secret \in [Secrets -> SomeSecret \cup {Null, Unknown}]
      /\ \A s \in Secrets : secret[s] # Unknown
  BY <1>2, ValueParts
<1>4. Flattened = Model(server.attrs, secret, state.version, state.auto)
  BY DEF Flattened
<1>5. Flattened \in Models
  BY <1>2, <1>3, <1>4, ModelParts
<1> QED
  BY <1>3, <1>4, <1>5, FieldParts, AbsentParts DEF BaseInv, TypeOK, PlaceTypes

LEMMA RefreshBase ==
  ASSUME OurServices, BaseInv, Refresh \/ RefreshFails
  PROVE  Base'
<1>1. /\ kind' = kind /\ config' = config /\ edits' = edits
      /\ Groups' = Groups /\ Secrets' = Secrets /\ Models' = Models /\ Records' = Records
  BY SameKind DEF Refresh, RefreshFails
<1>2. ConfigInv'
  BY <1>1, SameConfig DEF Refresh, RefreshFails, BaseInv
<1>3. seen' = Absent
  <2>1. pc = "idle" /\ seen' = seen
    BY DEF Refresh, RefreshFails
  <2> QED
    BY <2>1 DEF BaseInv, SeenInv, Handling, Writes, Reads
<1>4. /\ state' # Absent =>
           /\ state' \in Models /\ state # Absent
           /\ \A s \in Secrets : state'.secret[s] # Unknown
           /\ state'.version = state.version
      /\ (state' = Flattened /\ state # Absent /\ server # Absent) => state' # Absent
  <2>1. CASE state' = Flattened /\ state # Absent /\ server # Absent
    BY <2>1, FlattenedParts
  <2>2. CASE state' = state
    BY <2>2 DEF BaseInv, TypeOK, ModelTypes
  <2>3. \/ state' = Absent \/ state' = state
        \/ state' = Flattened /\ state # Absent /\ server # Absent
    BY DEF Refresh, RefreshFails
  <2> QED
    BY <2>1, <2>2, <2>3
<1>5. plan' = Absent /\ prior' = Absent /\ server' = server /\ deployed' = deployed
  BY DEF Refresh, RefreshFails
<1>6. ModelTypes'
  BY <1>1, <1>4, <1>5 DEF ModelTypes
<1>7. RecordTypes'
  BY <1>1, <1>3, <1>5 DEF BaseInv, TypeOK, RecordTypes
<1>8. PlaceTypes'
  <2>1. /\ flags' = {} \/ flags' = flags
        /\ pc' \in {"plan", "idle"}
        /\ result' \in {result, "error"} /\ outside' = outside
    BY DEF Refresh, RefreshFails
  <2>2. failures' \in 0 .. MaxFailures
    BY BoundsAssumption DEF Refresh, RefreshFails, MayFail, BaseInv, TypeOK, PlaceTypes,
                            BoundsAssumption
  <2>3. Valid(config.attrs)'
    BY <1>1, SameKind DEF BaseInv, TypeOK, PlaceTypes, Valid
  <2> QED
    BY <1>1, <2>1, <2>2, <2>3 DEF BaseInv, TypeOK, PlaceTypes
<1>9. PlanInv' /\ SeenInv'
  <2>1. pc' \in {"idle", "plan"}
    BY DEF Refresh, RefreshFails
  <2>2. tainted' => state' # Absent
    <3>1. CASE Refresh /\ state # Absent /\ server # Absent
      BY <1>4, <3>1, Zenon DEF Refresh
    <3>2. CASE Refresh /\ ~(state # Absent /\ server # Absent)
      BY <3>2, Zenon DEF Refresh
    <3>3. CASE RefreshFails
      BY <3>3, Zenon DEF RefreshFails
    <3> QED
      BY <3>1, <3>2, <3>3, Zenon
  <2>3. state' # Absent => \A s \in Secrets' : state'.version[s] <= edits' + 1
    BY <1>1, <1>4 DEF BaseInv, PlanInv
  <2> QED
    BY <1>3, <2>1, <2>2, <2>3, IdleBase
<1> QED
  BY <1>2, <1>6, <1>7, <1>8, <1>9 DEF Base

\* An update starts with the move, and has all of its calls ahead.
LEMMA FirstCall ==
  ASSUME OurServices, kind \in Kinds, kind' = kind, ~Creating', pc' = kind.flow.updates[1]
  PROVE  /\ pc' = "move" /\ Handling' /\ pc' \in {Steps'[i] : i \in DOMAIN Steps'}
         /\ "readback" \in Later' /\ "update" \in Later'
         /\ Later' = {Steps'[i] : i \in DOMAIN Steps'}
<1> DEFINE steps == kind.flow.updates
<1>1. Sound(kind.flow, Computed # {}) /\ Ordered(steps) /\ Steps' = steps
  BY KindParts DEF Sound, Steps
<1>2. Len(steps) \in Nat \ {0} /\ DOMAIN steps = 1 .. Len(steps)
  BY <1>1 DEF Ordered
<1>3. pc' = "move" /\ pc' = steps[1] /\ 1 \in DOMAIN steps
  BY <1>1, <1>2 DEF Sound
<1>4. PositionOf(pc)' = 1
  <2>1. PositionOf(pc)' = CHOOSE i \in DOMAIN steps : steps[i] = steps[1]
    BY <1>1, <1>3 DEF PositionOf
  <2> QED
    BY <1>1, <1>3, <2>1, Positions
<1>5. Later' = {steps[i] : i \in 1 .. Len(steps)}
  BY <1>1, <1>4 DEF Later
<1>6. \E i \in DOMAIN steps : steps[i] = "update"
  BY <1>1 DEF Sound
<1>7. \E i \in DOMAIN steps : steps[i] = "readback"
  <2>1. \A i \in DOMAIN steps : steps[i] = "readback" <=> i = Len(steps) - 1
    BY <1>1 DEF Sound
  <2>2. Len(steps) # 1
    BY <1>1, <1>2, <1>3 DEF Ordered
  <2>3. Len(steps) - 1 \in DOMAIN steps
    <3>1. \A m \in Nat \ {0} : m # 1 => m - 1 \in 1 .. m
      OBVIOUS
    <3> QED
      BY <1>2, <2>2, <3>1, Zenon
  <2> QED
    BY <2>1, <2>3
<1> QED
  BY <1>1, <1>2, <1>3, <1>5, <1>6, <1>7 DEF Handling, Writes

\* After its first call a create has all others ahead.
LEMMA SecondCall ==
  ASSUME OurServices, kind \in Kinds, kind' = kind, Creating, Creating',
         pc = "create", pc' = After("create")
  PROVE  /\ pc' # "move" /\ Handling' /\ pc' \in {Steps'[i] : i \in DOMAIN Steps'}
         /\ "readback" \in Later' /\ "update" \in Later'
         /\ Later' = {Steps'[i] : i \in DOMAIN Steps'} \ {"create"}
<1> DEFINE steps == kind.flow.creates
           n == Len(steps)
<1>1. Sound(kind.flow, Computed # {}) /\ Ordered(steps) /\ Steps' = steps /\ Steps = steps
  BY KindParts DEF Sound, Steps
<1>2. n \in Nat \ {0} /\ DOMAIN steps = 1 .. n
  BY <1>1 DEF Ordered
<1>3. /\ \A i \in 1 .. n : steps[i] = "create" <=> i = 1
      /\ \A i \in 1 .. n : i > 1 => steps[i] \in {"update", "env", "ports", "portsRest",
                                                 "readback", "deploy"}
  BY <1>1, <1>2 DEF Sound
<1>4. n > 1 /\ 2 \in DOMAIN steps
  BY <1>1, <1>2, <1>3 DEF Ordered
<1>5. PositionOf("create") = 1
  BY <1>1, <1>2, <1>3, Positions DEF PositionOf
<1>6. pc' = steps[2]
  BY <1>1, <1>5 DEF After
<1>7. PositionOf(pc)' = 2
  <2>1. PositionOf(pc)' = CHOOSE i \in DOMAIN steps : steps[i] = steps[2]
    BY <1>1, <1>6 DEF PositionOf
  <2> QED
    BY <1>1, <1>4, <2>1, Positions
<1>8. Later' = {steps[i] : i \in 2 .. n}
  BY <1>1, <1>7 DEF Later
<1>9. \A i \in 1 .. n : i \in 2 .. n <=> steps[i] # "create"
  BY <1>2, <1>3
<1>10. Later' = {steps[i] : i \in 1 .. n} \ {"create"}
  BY <1>2, <1>8, <1>9
<1>11. \E i \in 1 .. n : steps[i] = "update"
  BY <1>1, <1>2 DEF Sound
<1>12. \E i \in 1 .. n : steps[i] = "readback"
  BY <1>1, <1>2 DEF Sound
<1>13. pc' \in {"update", "env", "ports", "portsRest", "readback", "deploy"}
  BY <1>2, <1>3, <1>4, <1>6
<1> QED
  BY <1>1, <1>2, <1>4, <1>6, <1>10, <1>11, <1>12, <1>13 DEF Handling, Writes, Reads

\* The bounds of a step that only a failure, if anything, counts in.
LEMMA SameCounters ==
  ASSUME BaseInv, kind' = kind, config' = config, edits' = edits, outside' = outside,
         MayFail \/ failures' = failures
  PROVE  /\ kind' \in Kinds /\ Valid(config.attrs)' /\ edits' \in 0 .. MaxEdits
         /\ outside' \in 0 .. MaxOutside /\ failures' \in 0 .. MaxFailures
         /\ Groups' = Groups /\ Secrets' = Secrets /\ Computed' = Computed
         /\ Models' = Models /\ Records' = Records
         /\ ConfigInv' /\ Companions' = Companions
<1>1. kind' \in Kinds /\ Valid(config.attrs)' /\ edits' \in 0 .. MaxEdits
      /\ outside' \in 0 .. MaxOutside
  BY SameKind DEF BaseInv, TypeOK, PlaceTypes, Valid
<1>2. failures' \in 0 .. MaxFailures
  BY BoundsAssumption DEF MayFail, BaseInv, TypeOK, PlaceTypes, BoundsAssumption
<1> QED
  BY <1>1, <1>2, SameKind, SameConfig DEF BaseInv

LEMMA PlanBase ==
  ASSUME OurServices, BaseInv, Plan
  PROVE  Base'
<1>1. /\ kind' = kind /\ config' = config /\ edits' = edits /\ outside' = outside
      /\ failures' = failures /\ state' = state /\ flags' = flags
      /\ server' = server /\ deployed' = deployed /\ seen' = seen /\ prior' = state
      /\ pc = "plan"
  BY DEF Plan
<1>2. tainted' = tainted
  BY Zenon DEF Plan
<1>3. /\ kind' \in Kinds /\ Valid(config.attrs)' /\ edits' \in 0 .. MaxEdits
      /\ outside' \in 0 .. MaxOutside /\ failures' \in 0 .. MaxFailures
      /\ Groups' = Groups /\ Secrets' = Secrets /\ Computed' = Computed
      /\ Models' = Models /\ Records' = Records
      /\ ConfigInv' /\ Companions' = Companions
  BY <1>1, SameCounters
<1>4. kind \in Kinds /\ ConfigInv /\ Computed \subseteq Secrets
  BY KindParts DEF BaseInv, TypeOK, PlaceTypes
<1>5. seen' = Absent
  BY <1>1 DEF BaseInv, SeenInv, Handling, Writes, Reads
<1>6. PlannedNew \in Models
  BY <1>4, PlanWithParts DEF PlannedNew
<1>7. state # Absent => Planned \in Models
  <2> SUFFICES ASSUME state # Absent PROVE Planned \in Models
    OBVIOUS
  <2>1. state \in Models
    BY DEF BaseInv, TypeOK, ModelTypes
  <2>2. \A s \in Secrets : ComputedSecretPlan(s) \in SomeSecret \cup {Null, Unknown}
    BY <2>1, ModelParts DEF ComputedSecretPlan
  <2>3. PlanWith([s \in Secrets |-> ComputedSecretPlan(s)]) \in Models
    BY <1>4, <2>2, PlanWithParts
  <2> QED
    BY <2>1, <2>3 DEF Planned
<1>8. /\ plan' = PlannedNew \/ (state # Absent /\ plan' = Planned)
      /\ pc' \in {"idle", "create", "delete"} \cup {kind.flow.updates[1]}
      /\ result' \in {result, "ok"}
  BY DEF Plan
<1>9. /\ pc' = "create" => state = Absent /\ plan' = PlannedNew
      /\ pc' = "delete" => state # Absent /\ plan' = PlannedNew
      /\ pc' = "move" => /\ state # Absent /\ Planned # state /\ plan' = Planned
                         /\ ~MustReplace
  <2>1. kind.flow.updates[1] = "move"
    BY <1>4, StartsWithMove
  <2> QED
    BY <2>1 DEF Plan
<1>10. ModelTypes'
  BY <1>1, <1>3, <1>6, <1>7, <1>8 DEF ModelTypes, BaseInv, TypeOK
<1>11. RecordTypes'
  BY <1>1, <1>3 DEF BaseInv, TypeOK, RecordTypes
<1>12. pc' \in {"idle", "create", "delete", "move"}
  <2>1. kind.flow.updates[1] = "move"
    BY <1>4, StartsWithMove
  <2> QED
    BY <1>8, <2>1
<1>13. PlaceTypes'
  BY <1>1, <1>3, <1>8, <1>12 DEF BaseInv, TypeOK, PlaceTypes, Writes
<1>14. /\ pc' = "create" => ~tainted'
       /\ pc' = "move" => ~tainted'
       /\ tainted' => state' # Absent
  BY <1>1, <1>2, <1>9, Zenon DEF MustReplace, BaseInv, PlanInv
<1>15. state' # Absent => \A s \in Secrets' : state'.version[s] <= edits' + 1
  BY <1>1, <1>3 DEF BaseInv, PlanInv
<1>16. pc' = "create" =>
         plan' = Model(config'.attrs, [s \in Secrets' |-> PlannedSecret(s)'],
                       config'.version, config'.auto)
  <2> SUFFICES ASSUME pc' = "create"
               PROVE  plan' = Model(config'.attrs, [s \in Secrets' |-> PlannedSecret(s)'],
                                    config'.version, config'.auto)
    OBVIOUS
  <2>1. Creating' /\ plan' = PlannedNew
    BY <1>1, <1>9 DEF Creating
  <2>2. \A s \in Secrets : PlannedSecret(s)' = IF config.form[s] = "plain" THEN config.secret[s]
                                               ELSE IF s \in Computed THEN Unknown ELSE Null
    BY <1>1, <1>3, <2>1 DEF PlannedSecret
  <2>3. [s \in Secrets |-> IF config.form[s] = "plain" THEN config.secret[s]
                           ELSE IF s \in Computed THEN [x \in Secrets |-> Unknown][s]
                           ELSE Null]
          = [s \in Secrets |-> PlannedSecret(s)']
    BY <2>2
  <2> QED
    BY <1>1, <1>3, <2>1, <2>3 DEF PlannedNew, PlanWith
<1>17. pc' = "move" =>
         plan' = Model(config'.attrs, [s \in Secrets' |-> PlannedSecret(s)'],
                       config'.version, config'.auto)
  <2> SUFFICES ASSUME pc' = "move"
               PROVE  plan' = Model(config'.attrs, [s \in Secrets' |-> PlannedSecret(s)'],
                                    config'.version, config'.auto)
    OBVIOUS
  <2>1. ~Creating' /\ plan' = PlanWith([s \in Secrets |-> ComputedSecretPlan(s)])
    BY <1>1, <1>9 DEF Creating, Planned
  <2>2. \A s \in Secrets : PlannedSecret(s)' = IF config.form[s] = "plain" THEN config.secret[s]
                                               ELSE IF s \in Computed THEN ComputedSecretPlan(s)
                                               ELSE Null
    BY <1>1, <1>3, <2>1 DEF PlannedSecret, ComputedSecretPlan
  <2>3. [s \in Secrets |-> IF config.form[s] = "plain" THEN config.secret[s]
                           ELSE IF s \in Computed
                             THEN [x \in Secrets |-> ComputedSecretPlan(x)][s]
                           ELSE Null]
          = [s \in Secrets |-> PlannedSecret(s)']
    BY <2>2
  <2> QED
    BY <1>1, <1>3, <2>1, <2>3 DEF PlanWith
<1>18. CASE pc' = "idle"
  BY <1>3, <1>5, <1>10, <1>11, <1>13, <1>14, <1>15, <1>18, IdleBase DEF Base
<1>19. CASE pc' = "create"
  <2>1. PlanInv'
    BY <1>1, <1>9, <1>14, <1>15, <1>16, <1>19
       DEF PlanInv, Applying, Handling, Writes, Reads, Creating
  <2>2. SeenInv'
    BY <1>5, <1>19 DEF SeenInv, Handling, Writes, Reads
  <2> QED
    BY <1>3, <1>10, <1>11, <1>13, <2>1, <2>2 DEF Base
<1>20. CASE pc' = "delete"
  <2>1. PlannedNew' = PlannedNew
    BY <1>1, <1>3 DEF PlannedNew, PlanWith
  <2>2. PlanInv'
    BY <1>1, <1>9, <1>14, <1>15, <1>20, <2>1 DEF PlanInv, Applying, Handling, Writes, Reads
  <2>3. SeenInv'
    BY <1>5, <1>20 DEF SeenInv, Handling, Writes, Reads
  <2> QED
    BY <1>3, <1>10, <1>11, <1>13, <2>2, <2>3 DEF Base
<1>21. CASE pc' = "move"
  <2>1. ~Creating' /\ state # Absent /\ ~MustReplace
    BY <1>1, <1>9, <1>21 DEF Creating
  <2>2. /\ pc' \in {Steps'[i] : i \in DOMAIN Steps'}
        /\ "readback" \in Later'
    BY <1>1, <1>4, <1>8, <1>21, <2>1, FirstCall
  <2>3. "names" \in Groups => config.attrs["names"] = state.attrs["names"]
    BY <2>1 DEF MustReplace
  <2>4. plan'.attrs = config.attrs
    BY <1>1, <1>17, <1>21, FieldParts
  <2>5. PlanInv'
    <3>1. pc' # "delete" /\ pc' # "create"
      BY <1>21
    <3>2. state' = prior' /\ ("names" \in Groups' => plan'.attrs["names"] = prior'.attrs["names"])
      BY <1>1, <1>3, <2>3, <2>4
    <3> QED
      BY <1>14, <1>15, <1>17, <1>21, <2>2, <3>1, <3>2 DEF PlanInv
  <2>6. SeenInv'
    BY <1>5, <1>21, <2>2 DEF SeenInv
  <2> QED
    BY <1>3, <1>10, <1>11, <1>13, <2>5, <2>6 DEF Base
<1> QED
  BY <1>12, <1>18, <1>19, <1>20, <1>21

LEMMA DeleteBase ==
  ASSUME OurServices, BaseInv, Delete
  PROVE  Base'
<1>1. /\ kind' = kind /\ config' = config /\ edits' = edits /\ outside' = outside
      /\ failures' = failures /\ state' = Absent /\ flags' = {} /\ result' = result
      /\ server' = Absent /\ deployed' = Absent /\ seen' = seen /\ prior' = Absent
      /\ pc = "delete" /\ pc' = "create" /\ plan' = plan
  BY DEF Delete
<1>2. ~tainted'
  BY Zenon DEF Delete
<1>3. /\ kind' \in Kinds /\ Valid(config.attrs)' /\ edits' \in 0 .. MaxEdits
      /\ outside' \in 0 .. MaxOutside /\ failures' \in 0 .. MaxFailures
      /\ Groups' = Groups /\ Secrets' = Secrets /\ Computed' = Computed
      /\ Models' = Models /\ Records' = Records
      /\ ConfigInv' /\ Companions' = Companions
  BY <1>1, SameCounters
<1>4. seen' = Absent
  BY <1>1 DEF BaseInv, SeenInv, Handling, Writes, Reads
<1>5. plan' = Model(config'.attrs, [s \in Secrets' |-> PlannedSecret(s)'],
                    config'.version, config'.auto)
  <2>1. Creating' /\ plan' = PlannedNew
    BY <1>1 DEF Creating, BaseInv, PlanInv
  <2>2. \A s \in Secrets : PlannedSecret(s)' = IF config.form[s] = "plain" THEN config.secret[s]
                                               ELSE IF s \in Computed THEN Unknown ELSE Null
    BY <1>1, <1>3, <2>1 DEF PlannedSecret
  <2>3. [s \in Secrets |-> IF config.form[s] = "plain" THEN config.secret[s]
                           ELSE IF s \in Computed THEN [x \in Secrets |-> Unknown][s]
                           ELSE Null]
          = [s \in Secrets |-> PlannedSecret(s)']
    BY <2>2
  <2> QED
    BY <1>1, <1>3, <2>1, <2>3 DEF PlannedNew, PlanWith
<1>6. ModelTypes' /\ RecordTypes'
  BY <1>1, <1>3 DEF BaseInv, TypeOK, ModelTypes, RecordTypes
<1>7. PlaceTypes'
  BY <1>1, <1>3 DEF BaseInv, TypeOK, PlaceTypes
<1>8. PlanInv'
  BY <1>1, <1>2, <1>5 DEF PlanInv, Applying, Handling, Writes, Reads, Creating
<1>9. SeenInv'
  BY <1>1, <1>4 DEF SeenInv, Handling, Writes, Reads
<1> QED
  BY <1>3, <1>6, <1>7, <1>8, <1>9 DEF Base

LEMMA StopBase ==
  ASSUME OurServices, BaseInv, DeleteFails \/ CreateFails
  PROVE  Base'
<1>1. /\ kind' = kind /\ config' = config /\ edits' = edits /\ outside' = outside
      /\ MayFail \/ failures' = failures
      /\ state' = state /\ flags' = flags /\ seen' = Absent /\ prior' = prior
      /\ pc' = "idle" /\ plan' = plan /\ result' = "error"
  BY DEF DeleteFails, CreateFails, Stop
<1>2. tainted' = tainted
  BY Zenon DEF DeleteFails, CreateFails
<1>3. server' \in {server, Absent} /\ deployed' \in {deployed, Absent}
  BY DEF DeleteFails, CreateFails
<1>4. /\ kind' \in Kinds /\ Valid(config.attrs)' /\ edits' \in 0 .. MaxEdits
      /\ outside' \in 0 .. MaxOutside /\ failures' \in 0 .. MaxFailures
      /\ Groups' = Groups /\ Secrets' = Secrets /\ Computed' = Computed
      /\ Models' = Models /\ Records' = Records
      /\ ConfigInv' /\ Companions' = Companions
  BY <1>1, SameCounters
<1>5. ModelTypes' /\ RecordTypes'
  BY <1>1, <1>3, <1>4 DEF BaseInv, TypeOK, ModelTypes, RecordTypes
<1>6. PlaceTypes'
  BY <1>1, <1>4 DEF BaseInv, TypeOK, PlaceTypes
<1>7. tainted' => state' # Absent
  BY <1>1, <1>2, Zenon DEF BaseInv, PlanInv
<1>8. PlanInv' /\ SeenInv'
  <2>1. state' # Absent => \A s \in Secrets' : state'.version[s] <= edits' + 1
    BY <1>1, <1>4 DEF BaseInv, PlanInv
  <2> QED
    BY <1>1, <1>7, <2>1, IdleBase
<1> QED
  BY <1>4, <1>5, <1>6, <1>8 DEF Base

LEMMA MadeParts ==
  ASSUME OurServices, BaseInv, Applying
  PROVE  /\ Made \in Records
         /\ \A g \in Groups : Made.attrs[g] = IF g \in kind.wire.made THEN plan.attrs[g]
                                                                      ELSE First
         /\ \A s \in Secrets : Made.secret[s] = IF config.secret[s] = Null THEN Generated
                                                                         ELSE config.secret[s]
<1> DEFINE attrs == [g \in Groups |-> IF g \in kind.wire.made THEN plan.attrs[g] ELSE First]
           secret == [s \in Secrets |-> IF config.secret[s] = Null THEN Generated
                                                                   ELSE config.secret[s]]
<1>1. Made = Stored(attrs, secret)
  BY DEF Made
<1>2. plan.attrs \in [Groups -> {First, Other}]
  BY PlannedParts, ModelParts
<1>3. attrs \in [Groups -> {First, Other}]
  BY <1>2
<1>4. secret \in [Secrets -> SomeSecret]
  BY ConfigParts, ValueParts DEF BaseInv
<1> QED
  BY <1>1, <1>3, <1>4, RecordParts, FieldParts

LEMMA CreateBase ==
  ASSUME OurServices, BaseInv, CreateCall
  PROVE  Base'
<1>1. /\ kind' = kind /\ config' = config /\ edits' = edits /\ outside' = outside
      /\ failures' = failures /\ state' = state /\ flags' = Companions /\ result' = result
      /\ server' = Made /\ deployed' = Absent /\ seen' = seen /\ prior' = prior
      /\ pc = "create" /\ pc' = After("create") /\ plan' = plan
  BY DEF CreateCall
<1>2. tainted' = tainted
  BY Zenon DEF CreateCall
<1>3. /\ kind' \in Kinds /\ Valid(config.attrs)' /\ edits' \in 0 .. MaxEdits
      /\ outside' \in 0 .. MaxOutside /\ failures' \in 0 .. MaxFailures
      /\ Groups' = Groups /\ Secrets' = Secrets /\ Computed' = Computed
      /\ Models' = Models /\ Records' = Records
      /\ ConfigInv' /\ Companions' = Companions
  BY <1>1, SameCounters
<1>4. seen' = Absent
  BY <1>1 DEF BaseInv, SeenInv, Handling, Writes, Reads
<1>5. Creating /\ Applying /\ kind \in Kinds /\ pc # "move" /\ pc # "delete"
  BY <1>1 DEF BaseInv, PlanInv, Applying, TypeOK, PlaceTypes
<1>6. /\ Creating' /\ Steps' = Steps
      /\ \A s : PlannedSecret(s)' = PlannedSecret(s)
  BY <1>1, <1>5, SameApply
<1>7. /\ pc' # "move" /\ Handling' /\ pc' \in {Steps'[i] : i \in DOMAIN Steps'}
      /\ "readback" \in Later'
  BY <1>1, <1>5, <1>6, SecondCall
<1>8. ModelTypes' /\ RecordTypes'
  BY <1>1, <1>3, <1>5, MadeParts DEF BaseInv, TypeOK, ModelTypes, RecordTypes
<1>9. PlaceTypes'
  <2>1. Companions \subseteq Secrets
    BY DEF Companions
  <2>2. pc' \in Writes \cup Reads \cup {"deploy"}
    BY <1>7 DEF Handling
  <2> QED
    BY <1>1, <1>3, <2>1, <2>2 DEF BaseInv, TypeOK, PlaceTypes
<1>10. PlanInv'
  <2>1. pc' # "delete" /\ pc' # "create"
    BY <1>7 DEF Handling, Writes, Reads
  <2>2. /\ plan' = Model(config'.attrs, [s \in Secrets' |-> PlannedSecret(s)'],
                         config'.version, config'.auto)
        /\ state' = prior'
    BY <1>1, <1>3, <1>5, <1>6 DEF BaseInv, PlanInv
  <2>3. ~tainted'
    BY <1>2, <1>5, Zenon DEF BaseInv, PlanInv
  <2>4. state' # Absent => \A s \in Secrets' : state'.version[s] <= edits' + 1
    BY <1>1, <1>3 DEF BaseInv, PlanInv
  <2> QED
    BY <1>6, <1>7, <2>1, <2>2, <2>3, <2>4 DEF PlanInv
<1>11. SeenInv'
  BY <1>4, <1>6, <1>7 DEF SeenInv
<1> QED
  BY <1>3, <1>8, <1>9, <1>10, <1>11 DEF Base

LEMMA ShortcutBase ==
  ASSUME OurServices, BaseInv, Shortcut
  PROVE  Base'
<1>1. /\ kind' = kind /\ config' = config /\ edits' = edits /\ outside' = outside
      /\ failures' = failures /\ state' = plan /\ flags' = Companions /\ result' = "ok"
      /\ server' = server /\ deployed' = deployed /\ seen' = Absent /\ prior' = prior
      /\ pc = "move" /\ pc' = "idle" /\ plan' = plan
      /\ kind.flow.deploys = "any"
  BY DEF Shortcut, Stop, Noted, OnlyProviderAttributesChanged
<1>2. tainted' = tainted
  BY Zenon DEF Shortcut
<1>3. /\ kind' \in Kinds /\ Valid(config.attrs)' /\ edits' \in 0 .. MaxEdits
      /\ outside' \in 0 .. MaxOutside /\ failures' \in 0 .. MaxFailures
      /\ Groups' = Groups /\ Secrets' = Secrets /\ Computed' = Computed
      /\ Models' = Models /\ Records' = Records
      /\ ConfigInv' /\ Companions' = Companions
  BY <1>1, SameCounters
<1>4. Applying /\ Computed = {}
  BY <1>1, KindParts DEF Applying, Handling, Writes, BaseInv, TypeOK, PlaceTypes
<1>5. /\ plan \in Models /\ ~tainted /\ plan.version = config.version
      /\ \A s \in Secrets : plan.secret[s] # Unknown
  BY <1>4, PlannedParts
<1>6. ModelTypes' /\ RecordTypes'
  BY <1>1, <1>3, <1>5 DEF BaseInv, TypeOK, ModelTypes, RecordTypes
<1>7. PlaceTypes'
  BY <1>1, <1>3 DEF BaseInv, TypeOK, PlaceTypes, Companions
<1>8. PlanInv' /\ SeenInv'
  <2>1. ~tainted'
    BY <1>2, <1>5, Zenon
  <2>2. \A s \in Secrets' : state'.version[s] <= edits' + 1
    BY <1>1, <1>3, <1>5, ConfigParts DEF BaseInv
  <2> QED
    BY <1>1, <2>1, <2>2, IdleBase
<1> QED
  BY <1>3, <1>6, <1>7, <1>8 DEF Base

LEMMA WriteParts ==
  ASSUME OurServices, BaseInv, NEW step \in Writes, pc = step, server # Absent, Effect(step)
  PROVE  /\ server' \in Records /\ server' # Absent
         /\ \A g \in Groups :
              server'.attrs[g] = IF g \in Carried(step) THEN plan.attrs[g] ELSE server.attrs[g]
         /\ \A s \in Secrets :
              server'.secret[s] = IF step = "update" THEN StoredSecret(s) ELSE server.secret[s]
         /\ step # "update" => server'.secret = server.secret
<1>1. Handling
  BY DEF Handling
<1>2. step = "update" => \A s \in Secrets : StoredSecret(s) \in SomeSecret
  BY StoredParts
<1> QED
  BY <1>1, <1>2, EffectParts

\* A handler goes on to its next call.
LEMMA GoesOn ==
  ASSUME OurServices, BaseInv, pc \in Writes \cup Reads, pc' = After(pc),
         kind' = kind, config' = config, edits' = edits, plan' = plan, prior' = prior,
         state' = state, tainted' = tainted
  PROVE  /\ Handling /\ Handling' /\ PlanInv'
         /\ pc' \in Writes \cup Reads \cup {"deploy"} /\ pc' # "move"
         /\ pc \in Later /\ pc' \in Later' /\ Later' = Later \ {pc}
         /\ Creating' = Creating /\ Steps' = Steps
         /\ ~Creating => NeedsServerValue' = NeedsServerValue
<1>1. Handling /\ kind \in Kinds /\ pc # "deploy"
  BY DEF Handling, BaseInv, TypeOK, PlaceTypes, Writes, Reads
<1>2. pc \in {Steps[i] : i \in DOMAIN Steps}
  BY <1>1 DEF BaseInv, PlanInv
<1>3. /\ Creating' = Creating /\ Steps' = Steps
      /\ \A s : PlannedSecret(s)' = PlannedSecret(s)
      /\ ~Creating => NeedsServerValue' = NeedsServerValue
  BY SameApply
<1>4. /\ pc \in Later /\ pc' \in Later \ {pc} /\ pc' # "move"
      /\ pc' \in Writes \cup Reads \cup {"deploy"}
      /\ pc' \in {Steps'[i] : i \in DOMAIN Steps'}
  BY <1>1, <1>2, <1>3, LaterParts
<1>5. Later' = Later \ {pc}
  BY <1>1, <1>2, <1>3, LaterStep
<1>6. Handling'
  BY <1>4 DEF Handling
<1>7. PlanInv'
  <2>1. pc' # "delete" /\ pc' # "create"
    BY <1>4 DEF Writes, Reads
  <2>2. /\ plan' = Model(config'.attrs, [s \in Secrets' |-> PlannedSecret(s)'],
                         config'.version, config'.auto)
        /\ state' = prior'
        /\ ~Creating' => ("names" \in Groups' => plan'.attrs["names"] = prior'.attrs["names"])
    BY <1>1, <1>3, SameKind DEF BaseInv, PlanInv, Applying
  <2>3. ~tainted'
    BY <1>1, Zenon DEF BaseInv, PlanInv, Applying
  <2>4. state' # Absent => \A s \in Secrets' : state'.version[s] <= edits' + 1
    BY SameKind DEF BaseInv, PlanInv
  <2> QED
    BY <1>4, <2>1, <2>2, <2>3, <2>4 DEF PlanInv
<1> QED
  BY <1>1, <1>3, <1>4, <1>5, <1>6, <1>7

\* Of a service that generates secrets, an update comes right after the read
\* before it.
LEMMA BeforeUpdate ==
  ASSUME OurServices, BaseInv, pc \in Writes \cup Reads, After(pc) = "update", ~Creating,
         NeedsServerValue
  PROVE  pc = "before"
<1>1. Handling /\ kind \in Kinds /\ pc # "deploy"
  BY DEF Handling, BaseInv, TypeOK, PlaceTypes, Writes, Reads
<1>2. pc \in {Steps[i] : i \in DOMAIN Steps}
  BY <1>1 DEF BaseInv, PlanInv
<1>3. Computed # {}
  BY DEF NeedsServerValue
<1> QED
  BY <1>1, <1>2, <1>3, LaterParts

LEMMA CallBase ==
  ASSUME OurServices, BaseInv, NEW step \in Writes, Call(step)
  PROVE  Base'
<1>1. /\ kind' = kind /\ config' = config /\ edits' = edits /\ outside' = outside
      /\ failures' = failures /\ state' = state /\ result' = result
      /\ deployed' = deployed /\ seen' = seen /\ prior' = prior
      /\ pc = step /\ pc' = After(pc) /\ plan' = plan
      /\ server' = server \/ (server # Absent /\ Effect(step))
      /\ flags' \in {flags, Companions}
  BY DEF Call, Noted
<1>2. tainted' = tainted
  BY Zenon DEF Call
<1>3. /\ kind' \in Kinds /\ Valid(config.attrs)' /\ edits' \in 0 .. MaxEdits
      /\ outside' \in 0 .. MaxOutside /\ failures' \in 0 .. MaxFailures
      /\ Groups' = Groups /\ Secrets' = Secrets /\ Computed' = Computed
      /\ Models' = Models /\ Records' = Records
      /\ ConfigInv' /\ Companions' = Companions
  BY <1>1, SameCounters
<1>4. /\ Handling /\ Handling' /\ PlanInv'
      /\ pc' \in Writes \cup Reads \cup {"deploy"}
      /\ Later' = Later \ {pc} /\ Creating' = Creating
      /\ ~Creating => NeedsServerValue' = NeedsServerValue
  BY <1>1, <1>2, GoesOn
<1>5. server' = Absent \/ server' \in Records
  BY <1>1, WriteParts DEF BaseInv, TypeOK, RecordTypes
<1>6. ModelTypes' /\ RecordTypes'
  BY <1>1, <1>3, <1>5 DEF BaseInv, TypeOK, ModelTypes, RecordTypes
<1>7. PlaceTypes'
  BY <1>1, <1>3, <1>4 DEF BaseInv, TypeOK, PlaceTypes, Companions
<1>8. SeenInv'
  <2>1. "readback" \notin Later' => seen' # Absent
    <3>1. pc # "readback"
      BY <1>1 DEF Writes
    <3> QED
      BY <1>1, <1>4, <3>1 DEF BaseInv, SeenInv
  <2>2. ~(pc' = "update" /\ ~Creating' /\ NeedsServerValue')
    BY <1>1, <1>4, BeforeUpdate DEF Writes
  <2> QED
    BY <1>4, <2>1, <2>2 DEF SeenInv
<1> QED
  BY <1>3, <1>4, <1>6, <1>7, <1>8 DEF Base

LEMMA LookBase ==
  ASSUME OurServices, BaseInv, NEW step \in Reads, Look(step)
  PROVE  Base'
<1>1. /\ kind' = kind /\ config' = config /\ edits' = edits /\ outside' = outside
      /\ failures' = failures /\ state' = state /\ result' = result
      /\ deployed' = deployed /\ server' = server /\ prior' = prior
      /\ pc = step /\ pc' = After(pc) /\ plan' = plan /\ flags' = flags
      /\ IF Needed(step) THEN server # Absent /\ seen' = server ELSE seen' = seen
  BY DEF Look
<1>2. tainted' = tainted
  BY Zenon DEF Look
<1>3. /\ kind' \in Kinds /\ Valid(config.attrs)' /\ edits' \in 0 .. MaxEdits
      /\ outside' \in 0 .. MaxOutside /\ failures' \in 0 .. MaxFailures
      /\ Groups' = Groups /\ Secrets' = Secrets /\ Computed' = Computed
      /\ Models' = Models /\ Records' = Records
      /\ ConfigInv' /\ Companions' = Companions
  BY <1>1, SameCounters
<1>4. /\ Handling /\ Handling' /\ PlanInv'
      /\ pc' \in Writes \cup Reads \cup {"deploy"}
      /\ Later' = Later \ {pc} /\ Creating' = Creating
      /\ ~Creating => NeedsServerValue' = NeedsServerValue
  BY <1>1, <1>2, GoesOn
<1>5. ModelTypes' /\ RecordTypes'
  BY <1>1, <1>3 DEF BaseInv, TypeOK, ModelTypes, RecordTypes
<1>6. PlaceTypes'
  BY <1>1, <1>3, <1>4 DEF BaseInv, TypeOK, PlaceTypes
<1>7. SeenInv'
  <2>1. "readback" \notin Later' => seen' # Absent
    <3>1. CASE pc = "readback"
      BY <1>1, <3>1 DEF Needed
    <3>2. CASE pc = "before"
      <4>1. ~Creating /\ "readback" \in Later
        BY <1>4, <3>2, LaterParts DEF BaseInv, PlanInv, TypeOK, PlaceTypes
      <4> QED
        BY <1>4, <3>2, <4>1
    <3> QED
      BY <1>1, <3>1, <3>2 DEF Reads
  <2>2. (pc' = "update" /\ ~Creating' /\ NeedsServerValue') => seen' # Absent
    <3> SUFFICES ASSUME pc' = "update", ~Creating', NeedsServerValue' PROVE seen' # Absent
      OBVIOUS
    <3>1. ~Creating /\ NeedsServerValue
      BY <1>4
    <3>2. pc = "before"
      BY <1>1, <3>1, BeforeUpdate
    <3>3. Needed(step)
      BY <1>1, <3>1, <3>2 DEF Needed
    <3> QED
      BY <1>1, <3>3
  <2> QED
    BY <1>4, <2>1, <2>2 DEF SeenInv
<1> QED
  BY <1>3, <1>4, <1>5, <1>6, <1>7 DEF Base

\* What ends an apply with something storable.
LEMMA EndBase ==
  ASSUME OurServices, BaseInv,
         kind' = kind, config' = config, edits' = edits, outside' = outside,
         MayFail \/ failures' = failures, flags' = flags, plan' = plan, prior' = prior,
         pc' = "idle", seen' = Absent, result' \in {"ok", "error"},
         server' = Absent \/ server' \in Records,
         deployed' = Absent \/ deployed' \in Records,
         Storable(state') \/ (state' = state /\ tainted' = tainted)
  PROVE  Base'
<1>1. /\ kind' \in Kinds /\ Valid(config.attrs)' /\ edits' \in 0 .. MaxEdits
      /\ outside' \in 0 .. MaxOutside /\ failures' \in 0 .. MaxFailures
      /\ Groups' = Groups /\ Secrets' = Secrets /\ Computed' = Computed
      /\ Models' = Models /\ Records' = Records
      /\ ConfigInv' /\ Companions' = Companions
  BY SameCounters
<1>2. Storable(state') => /\ state' \in Models /\ state' # Absent
                          /\ \A s \in Secrets : /\ state'.secret[s] # Unknown
                                                /\ state'.version[s] <= edits' + 1
  BY AbsentParts DEF Storable, BaseInv, TypeOK, PlaceTypes
<1>3. ModelTypes' /\ RecordTypes'
  BY <1>1, <1>2 DEF BaseInv, TypeOK, ModelTypes, RecordTypes
<1>4. PlaceTypes'
  BY <1>1 DEF BaseInv, TypeOK, PlaceTypes
<1>5. tainted' => state' # Absent
  BY <1>2, Zenon DEF BaseInv, PlanInv
<1>6. state' # Absent => \A s \in Secrets' : state'.version[s] <= edits' + 1
  BY <1>1, <1>2 DEF BaseInv, PlanInv
<1>7. PlanInv' /\ SeenInv'
  BY <1>5, <1>6, IdleBase
<1> QED
  BY <1>1, <1>3, <1>4, <1>7 DEF Base

LEMMA CallFailsBase ==
  ASSUME OurServices, BaseInv, NEW step \in Writes, CallFails(step)
  PROVE  Base'
<1>1. /\ kind' = kind /\ config' = config /\ edits' = edits /\ outside' = outside
      /\ MayFail \/ failures' = failures
      /\ flags' = flags /\ plan' = plan /\ prior' = prior /\ deployed' = deployed
      /\ pc = step /\ Abort
      /\ server' = server \/ (server # Absent /\ Effect(step))
  BY DEF CallFails
<1>2. Handling
  BY <1>1 DEF Handling
<1>3. /\ pc' = "idle" /\ seen' = Absent /\ result' = "error"
      /\ Storable(state') \/ (state' = state /\ tainted' = tainted)
  BY <1>1, <1>2, AbortParts
<1>4. server' = Absent \/ server' \in Records
  BY <1>1, WriteParts DEF BaseInv, TypeOK, RecordTypes
<1> QED
  BY <1>1, <1>3, <1>4, EndBase DEF BaseInv, TypeOK, RecordTypes

LEMMA LookFailsBase ==
  ASSUME OurServices, BaseInv, NEW step \in Reads, LookFails(step)
  PROVE  Base'
<1>1. /\ kind' = kind /\ config' = config /\ edits' = edits /\ outside' = outside
      /\ MayFail \/ failures' = failures
      /\ flags' = flags /\ plan' = plan /\ prior' = prior /\ deployed' = deployed
      /\ pc = step /\ Abort /\ server' = server
  BY DEF LookFails
<1>2. Handling
  BY <1>1 DEF Handling
<1>3. /\ pc' = "idle" /\ seen' = Absent /\ result' = "error"
      /\ Storable(state') \/ (state' = state /\ tainted' = tainted)
  BY <1>1, <1>2, AbortParts
<1> QED
  BY <1>1, <1>3, EndBase DEF BaseInv, TypeOK, RecordTypes

\* A handler that is about to deploy has looked at what it made.
LEMMA DeployParts ==
  ASSUME OurServices, BaseInv, pc = "deploy"
  PROVE  Handling /\ Applying /\ seen \in Records /\ seen # Absent /\ Later = {"deploy"}
<1>1. Handling /\ kind \in Kinds
  BY DEF Handling, BaseInv, TypeOK, PlaceTypes
<1>2. Later = {"deploy"}
  BY <1>1, LaterParts DEF BaseInv, PlanInv
<1> QED
  BY <1>1, <1>2 DEF BaseInv, SeenInv, TypeOK, RecordTypes, Applying

LEMMA FinishBase ==
  ASSUME OurServices, BaseInv, Finish
  PROVE  Base'
<1>1. /\ kind' = kind /\ config' = config /\ edits' = edits /\ outside' = outside
      /\ failures' = failures /\ server' = server
      /\ flags' = flags /\ plan' = plan /\ prior' = prior
      /\ pc = "deploy" /\ pc' = "idle" /\ seen' = Absent /\ result' \in {"ok", "error"}
      /\ deployed' = deployed \/ deployed' = server
  BY DEF Finish, Stop
<1>2. Handling /\ seen \in Records
  BY <1>1, DeployParts
<1>3. Storable(state')
  <2>1. \E record \in Records : state' = Resolved(record)
    <3>1. PICK record \in IF Deploys THEN {seen, server} ELSE {seen} : state' = Resolved(record)
      BY DEF Finish
    <3>2. Deploys => server \in Records
      BY DEF Finish, BaseInv, TypeOK, RecordTypes
    <3> QED
      BY <1>2, <3>1, <3>2
  <2> QED
    BY <1>2, <2>1, ResolvedStorable
<1> QED
  BY <1>1, <1>3, EndBase DEF BaseInv, TypeOK, RecordTypes

LEMMA DeployFailsBase ==
  ASSUME OurServices, BaseInv, DeployFails
  PROVE  Base'
<1>1. /\ kind' = kind /\ config' = config /\ edits' = edits /\ outside' = outside
      /\ MayFail \/ failures' = failures
      /\ server' = server
      /\ flags' = flags /\ plan' = plan /\ prior' = prior
      /\ pc = "deploy" /\ pc' = "idle" /\ seen' = Absent /\ result' = "error"
      /\ deployed' \in {deployed, server} /\ state' = Resolved(seen)
  BY DEF DeployFails, Stop
<1>2. Handling /\ seen \in Records
  BY <1>1, DeployParts
<1>3. Storable(state')
  BY <1>1, <1>2, ResolvedStorable
<1> QED
  BY <1>1, <1>3, EndBase DEF BaseInv, TypeOK, RecordTypes

\* An edit gives the next configuration its place among the types.
LEMMA ReconfigureBase ==
  ASSUME OurServices, BaseInv, NEW c, Reconfigure(c), ConfigInv', Valid(config.attrs)'
  PROVE  Base'
<1>1. /\ kind' = kind /\ config' = c /\ edits' = edits + 1 /\ outside' = outside
      /\ failures' = failures /\ state' = state /\ flags' = flags /\ server' = server
      /\ deployed' = deployed /\ pc = "idle" /\ pc' = pc /\ seen' = seen
      /\ result' = "none" /\ plan' = Absent /\ prior' = Absent /\ edits < MaxEdits
  BY DEF Reconfigure
<1>2. tainted' = tainted
  BY Zenon DEF Reconfigure
<1>3. Secrets' = Secrets /\ Models' = Models /\ Records' = Records
  BY <1>1, SameKind
<1>4. ModelTypes' /\ RecordTypes'
  BY <1>1, <1>3 DEF BaseInv, TypeOK, ModelTypes, RecordTypes
<1>5. edits \in Nat /\ edits' \in 0 .. MaxEdits
  BY <1>1, BoundsAssumption DEF BaseInv, TypeOK, PlaceTypes, BoundsAssumption
<1>6. PlaceTypes'
  BY <1>1, <1>3, <1>5 DEF BaseInv, TypeOK, PlaceTypes
<1>7. PlanInv' /\ SeenInv'
  <2>1. seen' = Absent
    BY <1>1 DEF BaseInv, SeenInv, Handling, Writes, Reads
  <2>2. tainted' => state' # Absent
    BY <1>1, <1>2, Zenon DEF BaseInv, PlanInv
  <2>3. state' # Absent => \A s \in Secrets' : state'.version[s] <= edits' + 1
    <3> SUFFICES ASSUME state # Absent, NEW s \in Secrets PROVE state.version[s] <= edits' + 1
      BY <1>1, <1>3
    <3>1. state.version[s] \in Nat /\ state.version[s] <= edits + 1
      <4>1. state.version \in [Secrets -> 0 .. MaxEdits + 1]
        BY ModelParts DEF BaseInv, TypeOK, ModelTypes
      <4> QED
        BY <4>1, BoundsAssumption DEF BoundsAssumption, BaseInv, PlanInv
    <3> QED
      BY <1>1, <1>5, <3>1
  <2> QED
    BY <1>1, <2>1, <2>2, <2>3, IdleBase
<1> QED
  BY <1>4, <1>6, <1>7 DEF Base

LEMMA ConfigurationParts ==
  \A a, f, s, v, x : /\ Configuration(a, f, s, v, x).attrs = a
                     /\ Configuration(a, f, s, v, x).form = f
                     /\ Configuration(a, f, s, v, x).secret = s
                     /\ Configuration(a, f, s, v, x).version = v
                     /\ Configuration(a, f, s, v, x).auto = x
BY DEF Configuration

\* What may be configured of a secret.
LEMMA ChoiceParts ==
  ASSUME NEW s, NEW c \in SecretChoices(s)
  PROVE  /\ c.form \in {"plain", "companion", "omitted"}
         /\ c.secret \in Passwords \cup {Empty, Null}
         /\ c.form = "omitted" <=> c.secret = Null
         /\ s \notin Computed => c.secret \in Passwords
<1>1. FirstPassword \in Passwords
  BY ValuesAssumption DEF FirstPassword, ValuesAssumption
<1>2. Null \notin Passwords /\ Null # Empty
  BY ValuesAssumption DEF ValuesAssumption
<1>3. CASE s \in Computed
  <2>1. CASE \E f \in {"plain", "companion"}, v \in {FirstPassword, Empty} :
               c = [form |-> f, secret |-> v]
    BY <1>1, <1>2, <1>3, <2>1
  <2>2. CASE c = [form |-> "omitted", secret |-> Null]
    BY <1>1, <1>2, <1>3, <2>2
  <2> QED
    BY <1>3, <2>1, <2>2 DEF SecretChoices
<1>4. CASE s \notin Computed
  <2>1. PICK f \in {"plain", "companion"}, v \in Passwords : c = [form |-> f, secret |-> v]
    BY <1>4 DEF SecretChoices
  <2> QED
    BY <1>2, <2>1
<1> QED
  BY <1>3, <1>4

LEMMA VersionParts ==
  ASSUME NEW form, NEW next \in Nat \ {0}
  PROVE  /\ VersionOf(form, next) \in {0, next}
         /\ VersionOf(form, next) > 0 => form = "companion"
         /\ form = "companion" /\ Versioned => VersionOf(form, next) > 0
BY DEF VersionOf

LEMMA BaseInit ==
  ASSUME OurServices, Init
  PROVE  BaseInv
<1>1. /\ kind \in Kinds /\ state = Absent /\ flags = {} /\ server = Absent
      /\ deployed = Absent /\ pc = "idle" /\ plan = Absent /\ prior = Absent
      /\ seen = Absent /\ result = "none" /\ edits = 0 /\ failures = 0 /\ outside = 0
  BY DEF Init
<1>2. Booleans
  BY Zenon DEF Init, Booleans
<1>3. ~tainted
  BY Zenon DEF Init
<1>4. PICK open \in {{}, IF "node" \in Groups THEN Ports ELSE {}},
           c \in [Secrets -> UNION {SecretChoices(s) : s \in Secrets}] :
         /\ \A s \in Secrets : c[s] \in SecretChoices(s)
         /\ config = Configuration(
                      [g \in Groups |-> IF g \in open THEN Other ELSE First],
                      [s \in Secrets |-> c[s].form],
                      [s \in Secrets |-> c[s].secret],
                      [s \in Secrets |-> VersionOf(c[s].form, 1)],
                      TRUE)
  BY DEF Init
<1>5. /\ config.attrs = [g \in Groups |-> IF g \in open THEN Other ELSE First]
      /\ config.form = [s \in Secrets |-> c[s].form]
      /\ config.secret = [s \in Secrets |-> c[s].secret]
      /\ config.version = [s \in Secrets |-> VersionOf(c[s].form, 1)]
      /\ config.auto = TRUE
  BY <1>4 DEF Configuration
<1>6. \A s \in Secrets : /\ c[s].form \in {"plain", "companion", "omitted"}
                         /\ c[s].secret \in Passwords \cup {Empty, Null}
                         /\ c[s].form = "omitted" <=> c[s].secret = Null
                         /\ s \notin Computed => c[s].secret \in Passwords
  BY <1>4, ChoiceParts
<1>7. \A s \in Secrets :
        /\ config.version[s] \in {0, 1}
        /\ config.version[s] > 0 => config.form[s] = "companion"
        /\ config.form[s] = "companion" /\ Versioned => config.version[s] > 0
  BY <1>5, VersionParts
<1>8. ConfigInv
  <2>1. config = Configuration(config.attrs, config.form, config.secret, config.version,
                               config.auto)
    BY <1>4, <1>5
  <2>2. config.attrs \in [Groups -> {First, Other}] /\ config.auto \in BOOLEAN
    BY <1>5
  <2>3. /\ config.form \in [Secrets -> {"plain", "companion", "omitted"}]
        /\ config.secret \in [Secrets -> Passwords \cup {Empty, Null}]
    BY <1>5, <1>6
  <2>4. config.version \in [Secrets -> 0 .. MaxEdits + 1]
    BY <1>5, <1>7, BoundsAssumption DEF BoundsAssumption
  <2>5. \A s \in Secrets : /\ config.form[s] = "omitted" <=> config.secret[s] = Null
                           /\ s \notin Computed => config.secret[s] \in Passwords
    BY <1>5, <1>6
  <2>6. \A s \in Secrets : config.version[s] <= edits + 1
    BY <1>1, <1>7
  <2> QED
    BY <1>7, <2>1, <2>2, <2>3, <2>4, <2>5, <2>6 DEF ConfigInv
<1>9. ModelTypes /\ RecordTypes
  BY <1>1 DEF ModelTypes, RecordTypes
<1>10. PlaceTypes
  <2>1. Valid(config.attrs)
    <3>1. "node" \in Groups => config.attrs["node"] = First
      BY <1>5 DEF Ports
    <3> QED
      BY <3>1, ValueParts DEF Valid
  <2> QED
    BY <1>1, <2>1, BoundsAssumption DEF PlaceTypes, BoundsAssumption
<1>11. PlanInv /\ SeenInv
  BY <1>1, <1>3 DEF PlanInv, SeenInv, Applying, Handling, Writes, Reads
<1> QED
  BY <1>2, <1>8, <1>9, <1>10, <1>11, BaseParts DEF Base

LEMMA EditBase ==
  ASSUME OurServices, BaseInv,
         \/ \E G \in EditSets : EditAttrs(G)
         \/ \E s \in Secrets : \E c \in SecretChoices(s) : EditSecret(s, c)
         \/ EditAuto
  PROVE  Base'
<1>1. /\ config.attrs \in [Groups -> {First, Other}]
      /\ config.form \in [Secrets -> {"plain", "companion", "omitted"}]
      /\ config.secret \in [Secrets -> Passwords \cup {Empty, Null}]
      /\ config.version \in [Secrets -> 0 .. MaxEdits + 1]
      /\ config.auto \in BOOLEAN
      /\ \A s \in Secrets :
           /\ config.form[s] = "omitted" <=> config.secret[s] = Null
           /\ s \notin Computed => config.secret[s] \in Passwords
           /\ config.version[s] <= edits + 1
           /\ config.version[s] > 0 => config.form[s] = "companion"
           /\ config.form[s] = "companion" /\ Versioned => config.version[s] > 0
  BY DEF BaseInv, ConfigInv
<1>2. edits \in Nat /\ edits <= MaxEdits /\ MaxEdits \in Nat
  BY BoundsAssumption DEF BaseInv, TypeOK, PlaceTypes, BoundsAssumption
<1>3. Valid(config.attrs)
  BY DEF BaseInv, TypeOK, PlaceTypes
<1>4. \A s \in Secrets : config.version[s] \in Nat
  BY <1>1, <1>2
<1>5. ASSUME NEW G \in EditSets, EditAttrs(G) PROVE Base'
  <2> DEFINE attrs == [g \in Groups |-> IF g \notin G THEN config.attrs[g]
                                        ELSE IF config.attrs[g] = First THEN Other ELSE First]
             c == Configuration(attrs, config.form, config.secret, config.version, config.auto)
  <2>1. Reconfigure(c) /\ Valid(attrs)
    BY <1>5 DEF EditAttrs
  <2>2. kind' = kind /\ config' = c /\ edits' = edits + 1
    BY <2>1 DEF Reconfigure
  <2>3. Groups' = Groups /\ Secrets' = Secrets /\ Computed' = Computed /\ Ports' = Ports
    BY <2>2, SameKind
  <2>4. /\ c.attrs = attrs /\ c.form = config.form /\ c.secret = config.secret
        /\ c.version = config.version /\ c.auto = config.auto
    BY ConfigurationParts
  <2>5. attrs \in [Groups -> {First, Other}]
    BY <1>1
  <2>6. \A s \in Secrets : config.version[s] <= edits' + 1
    BY <1>1, <1>2, <1>4, <2>2
  <2> HIDE DEF attrs
  <2>7. ConfigInv'
    BY <1>1, <2>2, <2>3, <2>4, <2>5, <2>6 DEF ConfigInv
  <2>8. Valid(config.attrs)'
    BY <2>1, <2>2, <2>3, <2>4 DEF Valid
  <2> QED
    BY <2>1, <2>7, <2>8, ReconfigureBase
<1>6. ASSUME NEW s \in Secrets, NEW choice \in SecretChoices(s), EditSecret(s, choice) PROVE Base'
  <2> DEFINE form == [config.form EXCEPT ![s] = choice.form]
             secret == [config.secret EXCEPT ![s] = choice.secret]
             version == [config.version EXCEPT ![s] = VersionOf(choice.form, edits + 2)]
             c == Configuration(config.attrs, form, secret, version, config.auto)
  <2>1. Reconfigure(c)
    BY <1>6 DEF EditSecret
  <2>2. kind' = kind /\ config' = c /\ edits' = edits + 1 /\ edits < MaxEdits
    BY <2>1 DEF Reconfigure
  <2>3. Groups' = Groups /\ Secrets' = Secrets /\ Computed' = Computed /\ Ports' = Ports
    BY <2>2, SameKind
  <2>4. /\ c.attrs = config.attrs /\ c.form = form /\ c.secret = secret
        /\ c.version = version /\ c.auto = config.auto
    BY ConfigurationParts
  <2>5. /\ choice.form \in {"plain", "companion", "omitted"}
        /\ choice.secret \in Passwords \cup {Empty, Null}
        /\ choice.form = "omitted" <=> choice.secret = Null
        /\ s \notin Computed => choice.secret \in Passwords
    BY <1>6, ChoiceParts
  <2>6. /\ VersionOf(choice.form, edits + 2) \in {0, edits + 2}
        /\ VersionOf(choice.form, edits + 2) > 0 => choice.form = "companion"
        /\ choice.form = "companion" /\ Versioned => VersionOf(choice.form, edits + 2) > 0
    BY <1>2, VersionParts
  <2>7. /\ form \in [Secrets -> {"plain", "companion", "omitted"}]
        /\ secret \in [Secrets -> Passwords \cup {Empty, Null}]
    BY <1>1, <2>5
  <2>8. version \in [Secrets -> 0 .. MaxEdits + 1]
    BY <1>1, <1>2, <2>2, <2>6
  <2>9. \A x \in Secrets : /\ form[x] = "omitted" <=> secret[x] = Null
                           /\ x \notin Computed => secret[x] \in Passwords
    BY <1>1, <2>5
  <2>10. \A x \in Secrets : /\ version[x] <= edits' + 1
                            /\ version[x] > 0 => form[x] = "companion"
                            /\ form[x] = "companion" /\ Versioned => version[x] > 0
    <3>1. ASSUME NEW x \in Secrets, x # s
          PROVE  form[x] = config.form[x] /\ version[x] = config.version[x]
      BY <1>1, <3>1
    <3>2. form[s] = choice.form /\ version[s] = VersionOf(choice.form, edits + 2)
      BY <1>1
    <3> QED
      BY <1>1, <1>2, <1>4, <2>2, <2>6, <3>1, <3>2
  <2> HIDE DEF form, secret, version
  <2>11. ConfigInv'
    BY <1>1, <2>2, <2>3, <2>4, <2>7, <2>8, <2>9, <2>10 DEF ConfigInv
  <2>12. Valid(config.attrs)'
    BY <1>3, <2>2, <2>3, <2>4 DEF Valid
  <2> QED
    BY <2>1, <2>11, <2>12, ReconfigureBase
<1>7. ASSUME EditAuto PROVE Base'
  <2> DEFINE c == Configuration(config.attrs, config.form, config.secret, config.version,
                                ~config.auto)
  <2>1. Reconfigure(c)
    BY <1>7 DEF EditAuto
  <2>2. kind' = kind /\ config' = c /\ edits' = edits + 1
    BY <2>1 DEF Reconfigure
  <2>3. Groups' = Groups /\ Secrets' = Secrets /\ Computed' = Computed /\ Ports' = Ports
    BY <2>2, SameKind
  <2>4. /\ c.attrs = config.attrs /\ c.form = config.form /\ c.secret = config.secret
        /\ c.version = config.version /\ c.auto = ~config.auto
    BY ConfigurationParts
  <2>5. \A s \in Secrets : config.version[s] <= edits' + 1
    BY <1>1, <1>2, <1>4, <2>2
  <2>6. c.auto \in BOOLEAN
    BY <2>4, Zenon
  <2>7. ConfigInv'
    <3>1. c = Configuration(c.attrs, c.form, c.secret, c.version, c.auto)
      BY <2>4, Zenon
    <3> HIDE DEF c
    <3> QED
      BY <1>1, <2>2, <2>3, <2>4, <2>5, <2>6, <3>1 DEF ConfigInv
  <2>8. Valid(config.attrs)'
    BY <1>3, <2>2, <2>3, <2>4 DEF Valid
  <2> QED
    BY <2>1, <2>7, <2>8, ReconfigureBase
<1> QED
  BY <1>5, <1>6, <1>7

\* What anybody else does to the record.
LEMMA OutsideParts ==
  ASSUME OurServices, BaseInv,
         \/ \E g \in Groups \cap Disturbed : OutsideChange(g)
         \/ \E s \in Secrets : OutsideSecret(s)
         \/ OutsideDelete
  PROVE  /\ kind' = kind /\ config' = config /\ edits' = edits /\ failures' = failures
         /\ state' = state /\ flags' = flags /\ seen' = seen /\ plan' = plan
         /\ prior' = prior /\ pc' = pc /\ result' = result /\ tainted' = tainted /\ meddled'
         /\ server # Absent /\ outside' = outside + 1 /\ outside < MaxOutside
         /\ (server' = Absent /\ deployed' = Absent)
            \/ (/\ server' \in Records /\ deployed' = deployed
                /\ \A s \in Secrets : server'.secret[s] \in {server.secret[s], Theirs})
<1>1. Meddle
  BY DEF OutsideChange, OutsideSecret, OutsideDelete
<1>2. /\ kind' = kind /\ config' = config /\ edits' = edits /\ failures' = failures
      /\ state' = state /\ flags' = flags /\ seen' = seen /\ plan' = plan
      /\ prior' = prior /\ pc' = pc /\ result' = result
      /\ server # Absent /\ outside' = outside + 1 /\ outside < MaxOutside
  BY <1>1 DEF Meddle
<1>3. tainted' = tainted /\ meddled'
  BY <1>1, Zenon DEF Meddle
<1>4. server.attrs \in [Groups -> {First, Other}] /\ server.secret \in [Secrets -> SomeSecret]
  BY <1>2, RecordParts DEF BaseInv, TypeOK, RecordTypes
<1>5. ASSUME NEW g \in Groups \cap Disturbed, OutsideChange(g)
      PROVE  /\ server' \in Records /\ deployed' = deployed
             /\ \A s \in Secrets : server'.secret[s] \in {server.secret[s], Theirs}
  <2> DEFINE attrs == [server.attrs EXCEPT ![g] = IF @ = First THEN Other ELSE First]
  <2>1. server' = Stored(attrs, server.secret) /\ deployed' = deployed
    BY <1>5 DEF OutsideChange
  <2>2. attrs \in [Groups -> {First, Other}]
    BY <1>4
  <2> HIDE DEF attrs
  <2> QED
    BY <1>4, <2>1, <2>2, RecordParts, FieldParts
<1>6. ASSUME NEW s \in Secrets, OutsideSecret(s)
      PROVE  /\ server' \in Records /\ deployed' = deployed
             /\ \A x \in Secrets : server'.secret[x] \in {server.secret[x], Theirs}
  <2> DEFINE secret == [server.secret EXCEPT ![s] = Theirs]
  <2>1. server' = Stored(server.attrs, secret) /\ deployed' = deployed
    BY <1>6 DEF OutsideSecret
  <2>2. /\ secret \in [Secrets -> SomeSecret]
        /\ \A x \in Secrets : secret[x] \in {server.secret[x], Theirs}
    BY <1>4, ValueParts
  <2> HIDE DEF secret
  <2> QED
    BY <1>4, <2>1, <2>2, RecordParts, FieldParts
<1>7. OutsideDelete => server' = Absent /\ deployed' = Absent
  BY DEF OutsideDelete
<1> QED
  BY <1>2, <1>3, <1>5, <1>6, <1>7

\* What concerns neither the handler nor the state.
LEMMA AsideBase ==
  ASSUME OurServices, BaseInv,
         kind' = kind, config' = config, edits' = edits, failures' = failures,
         state' = state, flags' = flags, seen' = seen, plan' = plan, prior' = prior,
         pc' = pc, result' = result, tainted' = tainted, outside' \in 0 .. MaxOutside,
         server' = Absent \/ server' \in Records,
         deployed' = Absent \/ deployed' = deployed
  PROVE  Base'
<1>1. Groups' = Groups /\ Secrets' = Secrets /\ Models' = Models /\ Records' = Records
  BY SameKind
<1>2. ConfigInv'
  BY SameConfig DEF BaseInv
<1>3. ModelTypes' /\ RecordTypes'
  BY <1>1 DEF BaseInv, TypeOK, ModelTypes, RecordTypes
<1>4. PlaceTypes'
  <2>1. Valid(config.attrs)'
    BY SameKind DEF BaseInv, TypeOK, PlaceTypes, Valid
  <2> QED
    BY <1>1, <2>1 DEF BaseInv, TypeOK, PlaceTypes
<1>5. /\ Creating' = Creating /\ Steps' = Steps /\ Handling' = Handling /\ Later' = Later
      /\ \A s : PlannedSecret(s)' = PlannedSecret(s)
      /\ ~Creating => NeedsServerValue' = NeedsServerValue
  BY SameApply DEF Handling, Later, PositionOf
<1>6. PlannedNew' = PlannedNew
  BY SameKind DEF PlannedNew, PlanWith
<1>7. PlanInv'
  <2>1. Applying' => Applying
    BY DEF Applying, Handling
  <2>2. Applying' => ~tainted'
    BY <2>1, Zenon DEF BaseInv, PlanInv
  <2>3. tainted' => state' # Absent
    BY Zenon DEF BaseInv, PlanInv
  <2> QED
    BY <1>1, <1>5, <1>6, <2>1, <2>2, <2>3 DEF BaseInv, PlanInv
<1>8. SeenInv'
  BY <1>5 DEF BaseInv, SeenInv
<1> QED
  BY <1>2, <1>3, <1>4, <1>7, <1>8 DEF Base

LEMMA OutsideBase ==
  ASSUME OurServices, BaseInv,
         \/ \E g \in Groups \cap Disturbed : OutsideChange(g)
         \/ \E s \in Secrets : OutsideSecret(s)
         \/ OutsideDelete
  PROVE  Base'
<1>1. outside' \in 0 .. MaxOutside
  BY OutsideParts, BoundsAssumption DEF BaseInv, TypeOK, PlaceTypes, BoundsAssumption
<1> QED
  BY <1>1, OutsideParts, AsideBase

LEMMA StutterBase ==
  ASSUME OurServices, BaseInv, UNCHANGED vars
  PROVE  Base'
<1>1. /\ kind' = kind /\ config' = config /\ edits' = edits /\ failures' = failures
      /\ state' = state /\ flags' = flags /\ seen' = seen /\ plan' = plan
      /\ prior' = prior /\ pc' = pc /\ result' = result
      /\ outside' = outside /\ server' = server /\ deployed' = deployed
  BY DEF vars
<1>2. tainted' = tainted
  BY Zenon DEF vars
<1> QED
  BY <1>1, <1>2, AsideBase DEF BaseInv, TypeOK, RecordTypes, PlaceTypes

LEMMA BaseStep ==
  ASSUME OurServices, BaseInv, [Next]_vars
  PROVE  BaseInv'
<1>1. Booleans'
  BY BooleansStep, BaseParts
<1> SUFFICES Base'
  BY <1>1, BaseNext
<1>2. CASE Refresh \/ RefreshFails
  BY <1>2, RefreshBase
<1>3. CASE Plan
  BY <1>3, PlanBase
<1>4. CASE Delete
  BY <1>4, DeleteBase
<1>5. CASE DeleteFails \/ CreateFails
  BY <1>5, StopBase
<1>6. CASE CreateCall
  BY <1>6, CreateBase
<1>7. CASE Shortcut
  BY <1>7, ShortcutBase
<1>8. CASE \E step \in Writes : Call(step) \/ CallFails(step)
  BY <1>8, CallBase, CallFailsBase
<1>9. CASE \E step \in Reads : Look(step) \/ LookFails(step)
  BY <1>9, LookBase, LookFailsBase
<1>10. CASE Finish
  BY <1>10, FinishBase
<1>11. CASE DeployFails
  BY <1>11, DeployFailsBase
<1>12. CASE \/ \E G \in EditSets : EditAttrs(G)
            \/ \E s \in Secrets : \E c \in SecretChoices(s) : EditSecret(s, c)
            \/ EditAuto
  BY <1>12, EditBase
<1>13. CASE \/ \E g \in Groups \cap Disturbed : OutsideChange(g)
            \/ \E s \in Secrets : OutsideSecret(s)
            \/ OutsideDelete
  BY <1>13, OutsideBase
<1>14. CASE UNCHANGED vars
  BY <1>14, StutterBase
<1> QED
  BY <1>2, <1>3, <1>4, <1>5, <1>6, <1>7, <1>8, <1>9, <1>10, <1>11, <1>12, <1>13, <1>14, Zenon
     DEF Next, Terraform, Others

LEMMA BaseHolds ==
  ASSUME OurServices
  PROVE  Spec => []BaseInv
<1>1. Init => BaseInv
  BY BaseInit
<1>2. BaseInv /\ [Next]_vars => BaseInv'
  BY BaseStep
<1> QED
  BY <1>1, <1>2, PTL DEF Spec

\* Nothing unknown ever gets into the state, and no record is without a
\* secret, for the services of ServiceKinds.
THEOREM TypeCorrect ==
  ASSUME OurServices
  PROVE  Spec => []TypeOK
<1>1. BaseInv => TypeOK
  BY DEF BaseInv
<1> QED
  BY <1>1, BaseHolds, PTL

-----------------------------------------------------------------------------
(* The secrets of a live service. *)

\* A secret that an update stores is the one at the server or the configured
\* one; the update of a create changes none.
LEMMA UpdateKeeps ==
  ASSUME OurServices, BaseInv, FreshInv, GivenInv, ~meddled, pc = "update", server # Absent,
         NEW s \in Secrets
  PROVE  /\ StoredSecret(s) \in {server.secret[s], config.secret[s]}
         /\ Creating => StoredSecret(s) = server.secret[s]
<1>1. Handling /\ "update" \in Later
  <2>1. Handling /\ kind \in Kinds
    BY DEF Handling, Writes, BaseInv, TypeOK, PlaceTypes
  <2> QED
    BY <2>1, LaterParts DEF BaseInv, PlanInv
<1>2. CASE Source(s) = "config"
  <2>1. StoredSecret(s) = config.secret[s] /\ config.secret[s] # Null
    BY <1>2, StoredParts, ConfigParts DEF BaseInv
  <2> QED
    BY <1>1, <2>1 DEF GivenInv
<1>3. CASE Source(s) = "seen"
  <2>1. StoredSecret(s) = seen.secret[s] /\ seen # Absent
    BY <1>3, StoredParts
  <2> QED
    BY <1>1, <2>1 DEF FreshInv
<1>4. CASE Source(s) = "server"
  BY <1>4, StoredParts
<1>5. CASE Source(s) = "prior"
  <2>1. StoredSecret(s) = prior.secret[s] /\ prior.secret[s] # Null /\ ~Creating
    BY <1>5, StoredParts
  <2> QED
    BY <1>1, <2>1 DEF GivenInv
<1> QED
  BY <1>2, <1>3, <1>4, <1>5, StoredParts

\* Outside a handler there is nothing to keep but what a refresh has found.
LEMMA IdleKept ==
  ASSUME pc' \in {"idle", "delete", "create"}
  PROVE  KeptInv'
BY DEF KeptInv, FreshInv, GivenInv, RefreshedInv, Handling, Writes, Reads

LEMMA MeddledKept == meddled' => KeptInv'
BY DEF KeptInv, FreshInv, GivenInv, RefreshedInv

LEMMA RefreshKept ==
  ASSUME OurServices, BaseInv, Refresh
  PROVE  KeptInv'
<1>1. pc' = "plan" /\ kind' = kind /\ server' = server
  BY DEF Refresh
<1>2. Secrets' = Secrets
  BY <1>1, SameKind
<1>3. CASE state # Absent /\ server # Absent
  <2>1. state' = Flattened /\ flags' = flags
    BY <1>3 DEF Refresh
  <2>2. /\ state'.attrs = server.attrs
        /\ state'.secret = [s \in Secrets |-> IF s \in flags THEN Null ELSE server.secret[s]]
    BY <2>1, FieldParts DEF Flattened
  <2> QED
    BY <1>1, <1>2, <1>3, <2>1, <2>2
       DEF KeptInv, FreshInv, GivenInv, RefreshedInv, Handling, Writes, Reads
<1>4. CASE ~(state # Absent /\ server # Absent)
  <2>1. state' = Absent
    BY <1>4 DEF Refresh
  <2> QED
    BY <1>1, <2>1 DEF KeptInv, FreshInv, GivenInv, RefreshedInv, Handling, Writes, Reads
<1> QED
  BY <1>3, <1>4

LEMMA PlanKept ==
  ASSUME OurServices, BaseInv, KeptInv, Plan
  PROVE  KeptInv'
<1>1. /\ kind' = kind /\ state' = state /\ flags' = flags /\ server' = server
      /\ seen' = seen /\ prior' = state /\ pc = "plan" /\ meddled' = meddled
  BY DEF Plan
<1>2. Secrets' = Secrets /\ kind \in Kinds
  BY <1>1, SameKind DEF BaseInv, TypeOK, PlaceTypes
<1>3. \/ pc' \in {"idle", "delete", "create"}
      \/ pc' = kind.flow.updates[1] /\ state # Absent
  BY DEF Plan
<1>4. CASE pc' = kind.flow.updates[1] /\ state # Absent
  <2>1. ~Creating'
    BY <1>1, <1>4 DEF Creating
  <2>2. pc' = "move" /\ "readback" \in Later'
    BY <1>1, <1>2, <1>4, <2>1, FirstCall
  <2>3. seen' = Absent
    BY <1>1 DEF BaseInv, SeenInv, Handling, Writes, Reads
  <2>4. FreshInv'
    BY <2>1, <2>2, <2>3 DEF FreshInv
  <2>5. ~meddled' => /\ server # Absent /\ state.attrs = server.attrs
                     /\ \A s \in Secrets :
                          state.secret[s] = IF s \in flags THEN Null ELSE server.secret[s]
    BY <1>1, <1>4 DEF KeptInv, RefreshedInv
  <2>6. GivenInv' /\ RefreshedInv'
    BY <1>1, <1>2, <2>1, <2>5 DEF GivenInv, RefreshedInv
  <2> QED
    BY <2>4, <2>6 DEF KeptInv
<1> QED
  BY <1>3, <1>4, IdleKept

LEMMA CreateKept ==
  ASSUME OurServices, BaseInv, CreateCall
  PROVE  KeptInv'
<1>1. /\ kind' = kind /\ config' = config /\ server' = Made /\ seen' = seen /\ prior' = prior
      /\ pc = "create" /\ pc' = After("create")
  BY DEF CreateCall
<1>2. seen' = Absent
  BY <1>1 DEF BaseInv, SeenInv, Handling, Writes, Reads
<1>3. Creating /\ Creating' /\ Applying /\ kind \in Kinds /\ Secrets' = Secrets
  BY <1>1, SameKind DEF BaseInv, PlanInv, Applying, TypeOK, PlaceTypes, Creating
<1>4. pc' # "move" /\ pc' # "plan"
  BY <1>1, <1>3, SecondCall DEF Handling, Writes, Reads
<1>5. Made # Absent
  BY <1>3, MadeParts, AbsentParts
<1>6. \A s \in Secrets : Made.secret[s] = IF config.secret[s] = Null THEN Generated
                                                                     ELSE config.secret[s]
  BY <1>3, MadeParts
<1> QED
  BY <1>1, <1>2, <1>3, <1>4, <1>5, <1>6 DEF KeptInv, FreshInv, GivenInv, RefreshedInv

LEMMA CallKept ==
  ASSUME OurServices, BaseInv, KeptInv, NEW step \in Writes, Call(step)
  PROVE  KeptInv'
<1>1. /\ kind' = kind /\ config' = config /\ edits' = edits /\ state' = state
      /\ seen' = seen /\ prior' = prior /\ pc = step /\ pc' = After(pc) /\ plan' = plan
      /\ server' = server \/ (server # Absent /\ Effect(step))
  BY DEF Call
<1>2. tainted' = tainted /\ meddled' = meddled
  BY Zenon DEF Call
<1> SUFFICES ASSUME ~meddled PROVE KeptInv'
  BY <1>2, MeddledKept, Zenon
<1>3. /\ Handling /\ Handling' /\ pc' # "move" /\ pc' # "plan"
      /\ pc \in Later /\ Later' = Later \ {pc} /\ Creating' = Creating
  BY <1>1, <1>2, GoesOn DEF Writes, Reads
<1>4. Secrets' = Secrets /\ kind \in Kinds
  BY <1>1, SameKind DEF BaseInv, TypeOK, PlaceTypes
<1>5. pc # "readback" /\ (~Creating => "readback" \in Later)
  BY <1>1, <1>3, <1>4, LaterParts DEF BaseInv, PlanInv, Writes
<1>6. server # Absent => server' # Absent
  BY <1>1, WriteParts
<1>7. (server # Absent /\ (step # "update" \/ Creating)) => server'.secret = server.secret
  <2> SUFFICES ASSUME server # Absent, Effect(step), step # "update" \/ Creating
               PROVE  server'.secret = server.secret
    BY <1>1
  <2>1. CASE step # "update"
    BY <1>1, <2>1, WriteParts
  <2>2. CASE step = "update" /\ Creating
    <3>1. \A s \in Secrets : server'.secret[s] = server.secret[s]
      BY <1>1, <2>2, WriteParts, UpdateKeeps DEF KeptInv
    <3>2. server.secret \in [Secrets -> SomeSecret] /\ server'.secret \in [Secrets -> SomeSecret]
      BY <1>1, WriteParts, RecordParts DEF BaseInv, TypeOK, RecordTypes
    <3> QED
      BY <3>1, <3>2
  <2> QED
    BY <2>1, <2>2
<1>8. FreshInv'
  <2>1. ASSUME seen # Absent, "update" \in Later' \/ "readback" \notin Later'
        PROVE  server' # Absent /\ seen.secret = server'.secret
    <3>1. "update" \in Later \/ "readback" \notin Later
      BY <1>3, <1>5, <2>1
    <3>2. server # Absent /\ seen.secret = server.secret
      BY <1>3, <2>1, <3>1 DEF KeptInv, FreshInv
    <3>3. step # "update" \/ Creating
      BY <1>1, <1>3, <1>5, <2>1
    <3> QED
      BY <1>6, <1>7, <3>2, <3>3
  <2>2. ~Creating' => "readback" \in Later'
    BY <1>3, <1>5
  <2> QED
    BY <1>1, <2>1, <2>2 DEF FreshInv
<1>9. GivenInv'
  <2>1. ASSUME Creating
        PROVE  /\ server' # Absent
               /\ \A s \in Secrets :
                    server'.secret[s] = IF config.secret[s] = Null THEN Generated
                                                                   ELSE config.secret[s]
    <3>1. /\ server # Absent
          /\ \A s \in Secrets : server.secret[s] = IF config.secret[s] = Null THEN Generated
                                                                            ELSE config.secret[s]
      BY <1>3, <2>1 DEF KeptInv, GivenInv
    <3> QED
      BY <1>6, <1>7, <2>1, <3>1
  <2>2. ASSUME ~Creating, "update" \in Later'
        PROVE  server' # Absent /\ \A s \in Secrets : prior.secret[s] \in {Null, server'.secret[s]}
    <3>1. server # Absent /\ \A s \in Secrets : prior.secret[s] \in {Null, server.secret[s]}
      BY <1>3, <2>2 DEF KeptInv, GivenInv
    <3>2. step # "update"
      BY <1>1, <1>3, <2>2
    <3> QED
      BY <1>6, <1>7, <3>1, <3>2
  <2> QED
    BY <1>1, <1>3, <1>4, <2>1, <2>2 DEF GivenInv
<1>10. RefreshedInv'
  BY <1>3 DEF RefreshedInv
<1> QED
  BY <1>8, <1>9, <1>10 DEF KeptInv

LEMMA LookKept ==
  ASSUME OurServices, BaseInv, KeptInv, NEW step \in Reads, Look(step)
  PROVE  KeptInv'
<1>1. /\ kind' = kind /\ config' = config /\ edits' = edits /\ state' = state
      /\ server' = server /\ prior' = prior /\ pc = step /\ pc' = After(pc) /\ plan' = plan
      /\ IF Needed(step) THEN server # Absent /\ seen' = server ELSE seen' = seen
  BY DEF Look
<1>2. tainted' = tainted /\ meddled' = meddled
  BY Zenon DEF Look
<1> SUFFICES ASSUME ~meddled PROVE KeptInv'
  BY <1>2, MeddledKept, Zenon
<1>3. /\ Handling /\ Handling' /\ pc' # "move" /\ pc' # "plan"
      /\ pc \in Later /\ Later' = Later \ {pc} /\ Creating' = Creating
  BY <1>1, <1>2, GoesOn DEF Writes, Reads
<1>4. Secrets' = Secrets /\ kind \in Kinds
  BY <1>1, SameKind DEF BaseInv, TypeOK, PlaceTypes
<1>5. pc = "before" => ~Creating /\ "readback" \in Later
  BY <1>3, <1>4, LaterParts DEF BaseInv, PlanInv
<1>6. pc = "readback" => Needed(step)
  BY <1>1 DEF Needed
<1>7. pc \in {"before", "readback"}
  BY <1>1 DEF Reads
<1>8. FreshInv'
  <2>1. CASE Needed(step)
    BY <1>1, <2>1 DEF FreshInv
  <2>2. CASE ~Needed(step)
    <3>1. pc = "before" /\ seen' = seen
      BY <1>1, <1>6, <1>7, <2>2
    <3>2. /\ "readback" \in Later /\ "readback" \in Later'
          /\ "update" \in Later' => "update" \in Later
      BY <1>3, <1>5, <3>1
    <3> QED
      BY <1>1, <1>3, <3>1, <3>2 DEF KeptInv, FreshInv
  <2> QED
    BY <2>1, <2>2
<1>9. GivenInv'
  BY <1>1, <1>3, <1>4 DEF KeptInv, GivenInv
<1>10. RefreshedInv'
  BY <1>3 DEF RefreshedInv
<1> QED
  BY <1>8, <1>9, <1>10 DEF KeptInv

LEMMA KeptStep ==
  ASSUME OurServices, BaseInv, KeptInv, [Next]_vars
  PROVE  KeptInv'
<1>1. CASE Refresh
  BY <1>1, RefreshKept
<1>2. CASE RefreshFails \/ DeleteFails \/ CreateFails \/ Shortcut \/ Finish \/ DeployFails
  BY <1>2, IdleKept DEF RefreshFails, DeleteFails, CreateFails, Shortcut, Finish, DeployFails,
                        Stop
<1>3. CASE Plan
  BY <1>3, PlanKept
<1>4. CASE Delete
  BY <1>4, IdleKept DEF Delete
<1>5. CASE CreateCall
  BY <1>5, CreateKept
<1>6. ASSUME NEW step \in Writes, Call(step) \/ CallFails(step) PROVE KeptInv'
  BY <1>6, CallKept, IdleKept DEF CallFails, Abort, Stop
<1>7. ASSUME NEW step \in Reads, Look(step) \/ LookFails(step) PROVE KeptInv'
  BY <1>7, LookKept, IdleKept DEF LookFails, Abort, Stop
<1>8. CASE \/ \E G \in EditSets : EditAttrs(G)
           \/ \E s \in Secrets : \E c \in SecretChoices(s) : EditSecret(s, c)
           \/ EditAuto
  BY <1>8, IdleKept DEF EditAttrs, EditSecret, EditAuto, Reconfigure
<1>9. CASE \/ \E g \in Groups \cap Disturbed : OutsideChange(g)
           \/ \E s \in Secrets : OutsideSecret(s)
           \/ OutsideDelete
  BY <1>9, OutsideParts, MeddledKept
<1>10. CASE UNCHANGED vars
  <2>1. /\ kind' = kind /\ config' = config /\ state' = state /\ flags' = flags
        /\ seen' = seen /\ plan' = plan /\ prior' = prior /\ pc' = pc /\ server' = server
    BY <1>10 DEF vars
  <2>2. meddled' = meddled
    BY <1>10, Zenon DEF vars
  <2>3. /\ Creating' = Creating /\ Handling' = Handling /\ Later' = Later /\ Secrets' = Secrets
    BY <2>1, SameApply, SameKind DEF Handling, Later, PositionOf
  <2> QED
    BY <2>1, <2>2, <2>3 DEF KeptInv, FreshInv, GivenInv, RefreshedInv
<1> QED
  BY <1>1, <1>2, <1>3, <1>4, <1>5, <1>6, <1>7, <1>8, <1>9, <1>10, Zenon
     DEF Next, Terraform, Others

\* What a step of an apply does to the secrets of a live service.
LEMMA SecretsStep ==
  ASSUME OurServices, BaseInv, KeptInv, Terraform, ~meddled, server # Absent,
         server' # Absent, pc # "create", NEW s \in Secrets
  PROVE  server'.secret[s] \in {server.secret[s], config.secret[s]}
<1>1. CASE server' = server
  BY <1>1
<1>2. CASE server' # server
  <2>1. PICK step \in Writes : pc = step /\ Effect(step)
    BY <1>2 DEF Terraform, Refresh, RefreshFails, Plan, Delete, DeleteFails, CreateCall,
                CreateFails, Shortcut, Call, CallFails, Look, LookFails, Finish, DeployFails
  <2>2. server'.secret[s] = IF step = "update" THEN StoredSecret(s) ELSE server.secret[s]
    BY <2>1, WriteParts
  <2> QED
    BY <2>1, <2>2, UpdateKeeps DEF KeptInv
<1> QED
  BY <1>1, <1>2

\* A secret of a live service is never set to anything but the one that is
\* configured, for the services of ServiceKinds.
THEOREM SecretsKept ==
  ASSUME OurServices
  PROVE  Spec => SecretsAreKept
<1>1. Init => KeptInv
  BY DEF Init, KeptInv, FreshInv, GivenInv, RefreshedInv, Handling, Writes, Reads
<1>2. BaseInv /\ KeptInv /\ [Next]_vars => KeptInv'
  BY KeptStep
<1>3. BaseInv /\ KeptInv /\ [Next]_vars =>
        [(Terraform /\ ~meddled /\ server # Absent /\ server' # Absent /\ pc # "create")
           => \A s \in Secrets :
                server'.secret[s] \in {server.secret[s], config.secret[s]}]_vars
  BY SecretsStep
<1> QED
  BY <1>1, <1>2, <1>3, BaseHolds, PTL DEF Spec, SecretsAreKept

-----------------------------------------------------------------------------
(* What the calls carry. *)

Has(steps, step) == \E i \in DOMAIN steps : steps[i] = step

\* Every group is in the create request or carried by a later call of a
\* create, and all but the names are carried by the calls of an update.
Carrying(wire, schema, flow) ==
  /\ \A g \in schema.groups :
       g \in wire.updated \cup {"place", "env", "names", "port", "admin", "grpc"}
  /\ schema.groups \cap {"place", "names"} \subseteq wire.made
  /\ Has(flow.creates, "update") /\ Has(flow.creates, "env")
  /\ Has(flow.updates, "move") /\ Has(flow.updates, "update") /\ Has(flow.updates, "env")
  /\ schema.groups \cap {"port", "admin", "grpc"} # {} =>
       Has(flow.creates, "ports") /\ Has(flow.updates, "ports")
  /\ "grpc" \in schema.groups =>
       Has(flow.creates, "portsRest") /\ Has(flow.updates, "portsRest")
  /\ ("node" \in schema.groups /\ schema.groups \cap {"port", "admin", "grpc"} # {}) =>
       Has(flow.updates, "early")
  /\ ("node" \in schema.groups /\ "grpc" \in schema.groups) => Has(flow.updates, "earlyRest")
  /\ flow.follow = "always" \/ wire.updated \subseteq wire.made \cup {"ops"}

LEMMA EngineHas ==
  /\ Has(EngineFlow.creates, "update") /\ Has(EngineFlow.creates, "env")
  /\ Has(EngineFlow.creates, "ports") /\ Has(EngineFlow.updates, "move")
  /\ Has(EngineFlow.updates, "update") /\ Has(EngineFlow.updates, "env")
  /\ Has(EngineFlow.updates, "ports")
BY EngineSteps DEF Has

LEMMA LibsqlHas ==
  /\ Has(LibsqlFlow.creates, "update") /\ Has(LibsqlFlow.creates, "env")
  /\ Has(LibsqlFlow.creates, "ports") /\ Has(LibsqlFlow.creates, "portsRest")
  /\ Has(LibsqlFlow.updates, "move") /\ Has(LibsqlFlow.updates, "update")
  /\ Has(LibsqlFlow.updates, "env") /\ Has(LibsqlFlow.updates, "ports")
  /\ Has(LibsqlFlow.updates, "portsRest") /\ Has(LibsqlFlow.updates, "early")
  /\ Has(LibsqlFlow.updates, "earlyRest")
BY LibsqlSteps DEF Has

LEMMA ComposeHas ==
  /\ Has(ComposeFlow.creates, "update") /\ Has(ComposeFlow.creates, "env")
  /\ Has(ComposeFlow.updates, "move") /\ Has(ComposeFlow.updates, "update")
  /\ Has(ComposeFlow.updates, "env")
BY ComposeSteps DEF Has

LEMMA CarryingParts ==
  ASSUME NEW k \in AllServices
  PROVE  Carrying(k.wire, k.schema, k.flow)
<1>1. \A wire, schema :
        (/\ wire.updated = EngineUpdated
         /\ schema.groups = EngineGroups /\ wire.made = {"place", "meta", "image"})
          => Carrying(wire, schema, EngineFlow)
  BY EngineHas DEF Carrying, EngineUpdated, EngineGroups
<1>2. \A wire, schema :
        (/\ wire.updated = EngineUpdated
         /\ schema.groups = EngineGroups \cup {"names"}
         /\ wire.made = {"place", "meta", "image", "names"})
          => Carrying(wire, schema, EngineFlow)
  BY EngineHas DEF Carrying, EngineUpdated, EngineGroups
<1>3. Carrying(PostgresKind.wire, PostgresKind.schema, PostgresKind.flow)
  BY <1>2 DEF PostgresKind, PostgresWire, Kind, Wire, Schema
<1>4. Carrying(MysqlKind.wire, MysqlKind.schema, MysqlKind.flow)
  BY <1>2 DEF MysqlKind, MysqlWire, Kind, Wire, Schema
<1>5. Carrying(MariadbKind.wire, MariadbKind.schema, MariadbKind.flow)
  BY <1>2 DEF MariadbKind, MariadbWire, Kind, Wire, Schema
<1>6. Carrying(MongoKind.wire, MongoKind.schema, MongoKind.flow)
  BY <1>2 DEF MongoKind, MongoWire, Kind, Wire, Schema
<1>7. Carrying(RedisKind.wire, RedisKind.schema, RedisKind.flow)
  BY <1>1 DEF RedisKind, RedisWire, Kind, Wire, Schema
<1>8. Carrying(LibsqlKind.wire, LibsqlKind.schema, LibsqlKind.flow)
  <2>1. LibsqlFlow.follow = "always"
    BY DEF LibsqlFlow
  <2> QED
    BY <2>1, LibsqlHas DEF Carrying, LibsqlKind, LibsqlWire, Kind, Wire, Schema
<1>9. Carrying(ComposeKind.wire, ComposeKind.schema, ComposeKind.flow)
  <2>1. ComposeFlow.follow = "always"
    BY DEF ComposeFlow
  <2> QED
    BY <2>1, ComposeHas DEF Carrying, ComposeKind, ComposeWire, Kind, Wire, Schema
<1> QED
  BY <1>3, <1>4, <1>5, <1>6, <1>7, <1>8, <1>9 DEF AllServices

LEMMA CarriesParts ==
  /\ Carries("move") = {"place"} /\ Carries("update") = kind.wire.updated
  /\ Carries("env") = {"env"}
  /\ Carries("early") = IF BecomingReplica THEN FirstPorts ELSE {}
  /\ Carries("earlyRest") = IF BecomingReplica THEN OtherPorts ELSE {}
  /\ Carries("ports") = IF BecomingReplica THEN {} ELSE FirstPorts
  /\ Carries("portsRest") = IF BecomingReplica THEN {} ELSE OtherPorts
  /\ Carries("readback") = {} /\ Carries("before") = {} /\ Carries("deploy") = {}
BY DEF Carries

LEMMA CarriedParts ==
  /\ Carried("move") = {"place"} /\ Carried("update") = kind.wire.updated
  /\ Carried("env") = {"env"}
  /\ Carried("early") = IF FullClear THEN Ports \ {"grpc"} ELSE PortsChanged
  /\ Carried("ports") = IF FullClear THEN Ports \ {"grpc"} ELSE PortsChanged
  /\ Carried("earlyRest") = {"grpc"} /\ Carried("portsRest") = {"grpc"}
BY DEF Carried

\* With all the calls ahead, so are all the groups that the record may not
\* have as planned.
Covers ==
  (\A i \in DOMAIN Steps : Steps[i] = "create" \/ Steps[i] \in Later) =>
    \A g \in Groups : \/ g \in Ahead
                      \/ Creating /\ g \in kind.wire.made
                      \/ ~Creating /\ g = "names"

LEMMA AllCovered ==
  ASSUME OurServices
  PROVE  BaseInv => Covers
<1> SUFFICES ASSUME BaseInv,
                    \A i \in DOMAIN Steps : Steps[i] = "create" \/ Steps[i] \in Later,
                    NEW g \in Groups,
                    ~(Creating /\ g \in kind.wire.made), ~(~Creating /\ g = "names")
             PROVE  g \in Ahead
  BY DEF Covers
<1>1. Carrying(kind.wire, kind.schema, kind.flow)
  BY CarryingParts DEF OurServices, BaseInv, TypeOK, PlaceTypes
<1>2. Steps = IF Creating THEN kind.flow.creates ELSE kind.flow.updates
  BY DEF Steps
<1>3. \A step : step # "create" /\ Has(Steps, step) => step \in Later
  BY DEF Has
<1>4. g \in kind.wire.updated \cup {"place", "env", "names", "port", "admin", "grpc"}
  BY <1>1 DEF Carrying, Groups
<1> SUFFICES \E step \in Later : g \in Carries(step)
  BY DEF Ahead
<1>5. CASE g \in kind.wire.updated
  <2>1. "update" \in Later
    BY <1>1, <1>2, <1>3 DEF Carrying
  <2> QED
    BY <1>5, <2>1, CarriesParts
<1>6. CASE g = "env"
  <2>1. "env" \in Later
    BY <1>1, <1>2, <1>3 DEF Carrying
  <2> QED
    BY <1>6, <2>1, CarriesParts
<1>7. CASE g \in {"place", "names"}
  <2>1. ~Creating /\ g = "place"
    BY <1>1, <1>7 DEF Carrying, Groups
  <2>2. "move" \in Later
    BY <1>1, <1>2, <1>3, <2>1 DEF Carrying
  <2> QED
    BY <2>1, <2>2, CarriesParts
<1>8. CASE g \in {"port", "admin", "grpc"}
  <2>1. g \in Ports /\ kind.schema.groups \cap {"port", "admin", "grpc"} # {}
    BY <1>8 DEF Ports, Groups
  <2>2. g \in FirstPorts \/ (g \in OtherPorts /\ "grpc" \in kind.schema.groups)
    BY <2>1 DEF FirstPorts, OtherPorts, Groups
  <2>3. CASE BecomingReplica
    <3>1. ~Creating /\ "node" \in kind.schema.groups
      BY <2>3 DEF BecomingReplica, Groups
    <3>2. "early" \in Later /\ ("grpc" \in kind.schema.groups => "earlyRest" \in Later)
      BY <1>1, <1>2, <1>3, <2>1, <3>1 DEF Carrying
    <3> QED
      BY <2>2, <2>3, <3>2, CarriesParts
  <2>4. CASE ~BecomingReplica
    <3>1. "ports" \in Later /\ ("grpc" \in kind.schema.groups => "portsRest" \in Later)
      BY <1>1, <1>2, <1>3, <2>1 DEF Carrying
    <3> QED
      BY <2>2, <2>4, <3>1, CarriesParts
  <2> QED
    BY <2>3, <2>4
<1> QED
  BY <1>4, <1>5, <1>6, <1>7, <1>8

LEMMA AllCoveredNext ==
  ASSUME OurServices
  PROVE  BaseInv' => Covers'
BY AllCovered, PTL

\* A call brings the groups it is there for, unless they are as they were.
LEMMA Delivers ==
  ASSUME OurServices, BaseInv, NEW step \in Writes, NEW g \in Groups, g \in Carries(step),
         ~(Creating /\ g \in kind.wire.made)
  PROVE  (Needed(step) /\ g \in Carried(step)) \/ plan.attrs[g] = PriorAttr(g)
<1>1. Carrying(kind.wire, kind.schema, kind.flow)
  BY CarryingParts DEF OurServices, BaseInv, TypeOK, PlaceTypes
<1>2. Changed(g) <=> plan.attrs[g] # PriorAttr(g)
  BY DEF Changed
<1>3. g \in Ports => (g \in PortsChanged <=> Changed(g))
  BY DEF PortsChanged
<1>4. CASE step = "move"
  <2>1. g = "place" /\ Carried(step) = {"place"}
    BY <1>4, CarriesParts, CarriedParts
  <2> QED
    BY <1>2, <1>4, <2>1 DEF Needed
<1>5. CASE step = "update"
  <2>1. g \in kind.wire.updated /\ Carried(step) = kind.wire.updated
    BY <1>5, CarriesParts, CarriedParts
  <2>2. Needed(step) <=> (~Creating \/ kind.flow.follow = "always" \/ Changed("ops"))
    BY <1>5 DEF Needed
  <2>3. (Creating /\ kind.flow.follow # "always") => g = "ops"
    BY <1>1, <2>1 DEF Carrying
  <2> QED
    BY <1>2, <2>1, <2>2, <2>3
<1>6. CASE step = "env"
  <2>1. g = "env" /\ Carried(step) = {"env"}
    BY <1>6, CarriesParts, CarriedParts
  <2> QED
    BY <1>2, <1>6, <2>1 DEF Needed
<1>7. CASE step \in {"early", "ports"}
  <2>1. /\ g \in FirstPorts
        /\ Carried(step) = IF FullClear THEN Ports \ {"grpc"} ELSE PortsChanged
        /\ step = "early" => BecomingReplica
        /\ step = "ports" => ~BecomingReplica
    BY <1>7, CarriesParts, CarriedParts
  <2>2. g \in Ports
    BY <2>1 DEF FirstPorts
  <2>3. (PortsChanged # {}) => Needed(step)
    BY <1>7, <2>1 DEF Needed
  <2>4. CASE FullClear
    <3>1. PortsChanged = Ports /\ g \in Ports \ {"grpc"}
      BY <2>1, <2>4 DEF FullClear, FirstPorts
    <3> QED
      BY <2>1, <2>2, <2>3, <2>4, <3>1
  <2>5. CASE ~FullClear
    BY <1>2, <1>3, <2>1, <2>2, <2>3, <2>5
  <2> QED
    BY <2>4, <2>5
<1>8. CASE step \in {"earlyRest", "portsRest"}
  <2>1. /\ g \in OtherPorts /\ Carried(step) = {"grpc"}
        /\ step = "earlyRest" => BecomingReplica
        /\ step = "portsRest" => ~BecomingReplica
    BY <1>8, CarriesParts, CarriedParts
  <2>2. FullClear /\ g = "grpc"
    BY <2>1 DEF OtherPorts
  <2> QED
    BY <1>8, <2>1, <2>2 DEF Needed
<1> QED
  BY <1>4, <1>5, <1>6, <1>7, <1>8 DEF Writes

\* What else depends on the apply only.
LEMMA SamePorts ==
  ASSUME kind' = kind, config' = config, plan' = plan, prior' = prior
  PROVE  /\ \A g : PriorAttr(g)' = PriorAttr(g)
         /\ \A step : Carries(step)' = Carries(step)
<1>1. Creating' = Creating /\ Ports' = Ports /\ Groups' = Groups
  BY SameApply, SameKind
<1>2. \A g : PriorAttr(g)' = PriorAttr(g)
  BY <1>1 DEF PriorAttr
<1>3. (BecomingReplica' <=> BecomingReplica) /\ (FullClear' <=> FullClear)
  <2>1. \A g : Changed(g)' <=> Changed(g)
    BY <1>2 DEF Changed
  <2>2. PortsChanged' = PortsChanged
    BY <1>1, <2>1 DEF PortsChanged
  <2> QED
    BY <1>1, <2>2 DEF BecomingReplica, FullClear
<1>4. FirstPorts' = FirstPorts /\ OtherPorts' = OtherPorts
  BY <1>1, <1>3 DEF FirstPorts, OtherPorts
<1>5. \A step : Carries(step)' = Carries(step)
  BY <1>3, <1>4 DEF Carries
<1> QED
  BY <1>2, <1>5

-----------------------------------------------------------------------------
(* The attributes of a record on its way to what is planned. *)

LEMMA SavedIdle ==
  ASSUME pc' \in {"idle", "plan", "delete", "create"} \/ meddled'
  PROVE  SavedInv'
BY DEF SavedInv, Handling, Writes, Reads

LEMMA PlanSaved ==
  ASSUME OurServices, BaseInv, BaseInv', KeptInv, Plan
  PROVE  SavedInv'
<1>1. /\ kind' = kind /\ config' = config /\ state' = state /\ server' = server
      /\ prior' = state /\ pc = "plan" /\ meddled' = meddled
  BY DEF Plan
<1>2. \/ pc' \in {"idle", "delete", "create"}
      \/ pc' = kind.flow.updates[1] /\ state # Absent
  BY DEF Plan
<1> SUFFICES ASSUME pc' = kind.flow.updates[1], state # Absent, ~meddled PROVE SavedInv'
  BY <1>1, <1>2, SavedIdle, Zenon
<1>3. ~Creating' /\ kind \in Kinds /\ Groups' = Groups
  BY <1>1, SameKind DEF Creating, BaseInv, TypeOK, PlaceTypes
<1>4. /\ pc' = "move" /\ Handling'
      /\ Later' = {Steps'[i] : i \in DOMAIN Steps'}
  BY <1>1, <1>3, FirstCall
<1>5. \A g \in Groups : g \in Ahead' \/ g = "names"
  <2>1. Covers'
    BY AllCoveredNext
  <2> QED
    BY <1>3, <1>4, <2>1 DEF Covers
<1>6. server # Absent /\ state.attrs = server.attrs
  BY <1>1 DEF KeptInv, RefreshedInv
<1>7. "names" \in Groups => plan'.attrs["names"] = state.attrs["names"]
  BY <1>1, <1>3, <1>4 DEF BaseInv, PlanInv, Applying
<1>8. \A g \in Groups : PriorAttr(g)' = state.attrs[g]
  BY <1>1, <1>3 DEF PriorAttr
<1> QED
  BY <1>1, <1>3, <1>5, <1>6, <1>7, <1>8 DEF SavedInv

LEMMA CreateSaved ==
  ASSUME OurServices, BaseInv, BaseInv', CreateCall
  PROVE  SavedInv'
<1>1. /\ kind' = kind /\ config' = config /\ server' = Made /\ prior' = prior
      /\ plan' = plan /\ pc = "create" /\ pc' = After("create")
  BY DEF CreateCall
<1>2. Creating /\ Creating' /\ Applying /\ kind \in Kinds /\ Groups' = Groups
  BY <1>1, SameKind DEF BaseInv, PlanInv, Applying, TypeOK, PlaceTypes, Creating
<1>3. Later' = {Steps'[i] : i \in DOMAIN Steps'} \ {"create"}
  BY <1>1, <1>2, SecondCall
<1>4. \A g \in Groups : g \in Ahead' \/ g \in kind.wire.made
  <2>1. Covers'
    BY AllCoveredNext
  <2> QED
    BY <1>1, <1>2, <1>3, <2>1 DEF Covers
<1>5. /\ Made # Absent
      /\ \A g \in Groups : Made.attrs[g] = IF g \in kind.wire.made THEN plan.attrs[g] ELSE First
  BY <1>2, MadeParts, AbsentParts
<1>6. \A g \in Groups : PriorAttr(g)' = First
  BY <1>2 DEF PriorAttr
<1> QED
  BY <1>1, <1>2, <1>4, <1>5, <1>6 DEF SavedInv

LEMMA CallSaved ==
  ASSUME OurServices, BaseInv, SavedInv, NEW step \in Writes, Call(step)
  PROVE  SavedInv'
<1>1. /\ kind' = kind /\ config' = config /\ edits' = edits /\ state' = state
      /\ prior' = prior /\ pc = step /\ pc' = After(pc) /\ plan' = plan
      /\ IF Needed(step) THEN server # Absent /\ Effect(step) ELSE server' = server
  BY DEF Call
<1>2. tainted' = tainted /\ meddled' = meddled
  BY Zenon DEF Call
<1> SUFFICES ASSUME ~meddled PROVE SavedInv'
  BY <1>2, SavedIdle, Zenon
<1>3. Handling /\ pc \in Later /\ Later' = Later \ {pc} /\ Creating' = Creating
  BY <1>1, <1>2, GoesOn
<1>4. /\ Groups' = Groups
      /\ \A g : PriorAttr(g)' = PriorAttr(g)
      /\ \A x : Carries(x)' = Carries(x)
  BY <1>1, SamePorts, SameKind
<1>5. \A g \in Groups : /\ g \in Ahead <=> /\ \E x \in Later : g \in Carries(x)
                                          /\ ~(Creating /\ g \in kind.wire.made)
                        /\ g \in Ahead' <=> /\ \E x \in Later \ {pc} : g \in Carries(x)
                                           /\ ~(Creating /\ g \in kind.wire.made)
  BY <1>1, <1>3, <1>4 DEF Ahead
<1>6. /\ server # Absent
      /\ \A g \in Groups : server.attrs[g] = plan.attrs[g]
                             \/ (g \in Ahead /\ server.attrs[g] = PriorAttr(g))
  BY <1>3 DEF SavedInv
<1>7. /\ server' # Absent
      /\ \A g \in Groups :
           server'.attrs[g] = IF Needed(step) /\ g \in Carried(step) THEN plan.attrs[g]
                                                                     ELSE server.attrs[g]
  BY <1>1, <1>6, WriteParts
<1>8. ASSUME NEW g \in Groups
      PROVE  server'.attrs[g] = plan.attrs[g]
               \/ (g \in Ahead' /\ server'.attrs[g] = PriorAttr(g))
  <2>1. CASE Needed(step) /\ g \in Carried(step)
    BY <1>7, <2>1
  <2>2. CASE ~(Needed(step) /\ g \in Carried(step))
    <3>1. server'.attrs[g] = server.attrs[g]
      BY <1>7, <2>2
    <3>2. CASE server.attrs[g] = plan.attrs[g]
      BY <3>1, <3>2
    <3>3. CASE g \in Ahead /\ server.attrs[g] = PriorAttr(g)
      <4>1. CASE g \in Ahead'
        BY <3>1, <3>3, <4>1
      <4>2. CASE g \notin Ahead'
        <5>1. g \in Carries(step) /\ ~(Creating /\ g \in kind.wire.made)
          BY <1>1, <1>5, <3>3, <4>2
        <5>2. plan.attrs[g] = PriorAttr(g)
          BY <2>2, <5>1, Delivers
        <5> QED
          BY <3>1, <3>3, <5>2
      <4> QED
        BY <4>1, <4>2
    <3> QED
      BY <1>6, <3>2, <3>3
  <2> QED
    BY <2>1, <2>2
<1> QED
  BY <1>1, <1>4, <1>7, <1>8 DEF SavedInv

LEMMA LookSaved ==
  ASSUME OurServices, BaseInv, SavedInv, NEW step \in Reads, Look(step)
  PROVE  SavedInv'
<1>1. /\ kind' = kind /\ config' = config /\ edits' = edits /\ state' = state
      /\ prior' = prior /\ pc = step /\ pc' = After(pc) /\ plan' = plan /\ server' = server
  BY DEF Look
<1>2. tainted' = tainted /\ meddled' = meddled
  BY Zenon DEF Look
<1> SUFFICES ASSUME ~meddled PROVE SavedInv'
  BY <1>2, SavedIdle, Zenon
<1>3. Handling /\ pc \in Later /\ Later' = Later \ {pc} /\ Creating' = Creating
  BY <1>1, <1>2, GoesOn
<1>4. /\ Groups' = Groups
      /\ \A g : PriorAttr(g)' = PriorAttr(g)
      /\ \A x : Carries(x)' = Carries(x)
  BY <1>1, SamePorts, SameKind
<1>5. Carries(pc) = {}
  BY <1>1, CarriesParts DEF Reads
<1>6. \A g \in Groups : g \in Ahead => g \in Ahead'
  BY <1>1, <1>3, <1>4, <1>5 DEF Ahead
<1> QED
  BY <1>1, <1>3, <1>4, <1>6 DEF SavedInv

LEMMA SavedStep ==
  ASSUME OurServices, BaseInv, BaseInv', KeptInv, SavedInv, [Next]_vars
  PROVE  SavedInv'
<1>1. CASE Refresh \/ RefreshFails \/ DeleteFails \/ CreateFails \/ Shortcut \/ Finish
           \/ DeployFails
  BY <1>1, SavedIdle DEF Refresh, RefreshFails, DeleteFails, CreateFails, Shortcut, Finish,
                         DeployFails, Stop
<1>2. CASE Plan
  BY <1>2, PlanSaved
<1>3. CASE Delete
  BY <1>3, SavedIdle DEF Delete
<1>4. CASE CreateCall
  BY <1>4, CreateSaved
<1>5. ASSUME NEW step \in Writes, Call(step) \/ CallFails(step) PROVE SavedInv'
  BY <1>5, CallSaved, SavedIdle DEF CallFails, Abort, Stop
<1>6. ASSUME NEW step \in Reads, Look(step) \/ LookFails(step) PROVE SavedInv'
  BY <1>6, LookSaved, SavedIdle DEF LookFails, Abort, Stop
<1>7. CASE \/ \E G \in EditSets : EditAttrs(G)
           \/ \E s \in Secrets : \E c \in SecretChoices(s) : EditSecret(s, c)
           \/ EditAuto
  BY <1>7, SavedIdle DEF EditAttrs, EditSecret, EditAuto, Reconfigure
<1>8. CASE \/ \E g \in Groups \cap Disturbed : OutsideChange(g)
           \/ \E s \in Secrets : OutsideSecret(s)
           \/ OutsideDelete
  BY <1>8, OutsideParts, SavedIdle
<1>9. CASE UNCHANGED vars
  <2>1. /\ kind' = kind /\ config' = config /\ state' = state
        /\ plan' = plan /\ prior' = prior /\ pc' = pc /\ server' = server
    BY <1>9 DEF vars
  <2>2. meddled' = meddled
    BY <1>9, Zenon DEF vars
  <2>3. /\ Creating' = Creating /\ Handling' = Handling /\ Later' = Later /\ Groups' = Groups
        /\ \A g : PriorAttr(g)' = PriorAttr(g)
        /\ \A x : Carries(x)' = Carries(x)
    BY <2>1, SameApply, SameKind, SamePorts DEF Handling, Later, PositionOf
  <2>4. Ahead' = Ahead
    BY <2>1, <2>3 DEF Ahead
  <2> QED
    BY <2>1, <2>2, <2>3, <2>4 DEF SavedInv
<1> QED
  BY <1>1, <1>2, <1>3, <1>4, <1>5, <1>6, <1>7, <1>8, <1>9, Zenon
     DEF Next, Terraform, Others

-----------------------------------------------------------------------------
(* The companions: their flags, and what has been sent of them. *)

\* What an edit leaves to keep: a version is new or as it was.
LEMMA EditParts ==
  ASSUME OurServices, BaseInv,
         \/ \E G \in EditSets : EditAttrs(G)
         \/ \E s \in Secrets : \E c \in SecretChoices(s) : EditSecret(s, c)
         \/ EditAuto
  PROVE  /\ kind' = kind /\ state' = state /\ flags' = flags /\ server' = server
         /\ pc' = "idle" /\ result' = "none"
         /\ \A s \in Secrets :
              \/ config'.version[s] = config.version[s] /\ config'.secret[s] = config.secret[s]
              \/ config'.version[s] = 0
              \/ state # Absent => config'.version[s] # state.version[s]
<1>1. /\ kind' = kind /\ state' = state /\ flags' = flags /\ server' = server
      /\ pc' = "idle" /\ result' = "none"
  BY DEF EditAttrs, EditSecret, EditAuto, Reconfigure
<1>2. ASSUME (\E G \in EditSets : EditAttrs(G)) \/ EditAuto
      PROVE  config'.version = config.version /\ config'.secret = config.secret
  <2>1. ASSUME NEW G \in EditSets, EditAttrs(G)
        PROVE  config'.version = config.version /\ config'.secret = config.secret
    BY <2>1, ConfigurationParts DEF EditAttrs, Reconfigure
  <2>2. ASSUME EditAuto
        PROVE  config'.version = config.version /\ config'.secret = config.secret
    <3>1. PICK auto : config' = Configuration(config.attrs, config.form, config.secret,
                                              config.version, auto)
      BY <2>2, Zenon DEF EditAuto, Reconfigure
    <3> QED
      BY <3>1, ConfigurationParts
  <2> QED
    BY <1>2, <2>1, <2>2
<1>3. ASSUME NEW s \in Secrets, NEW c \in SecretChoices(s), EditSecret(s, c), NEW x \in Secrets
      PROVE  \/ config'.version[x] = config.version[x] /\ config'.secret[x] = config.secret[x]
             \/ config'.version[x] = 0
             \/ state # Absent => config'.version[x] # state.version[x]
  <2> DEFINE secret == [config.secret EXCEPT ![s] = c.secret]
             version == [config.version EXCEPT ![s] = VersionOf(c.form, edits + 2)]
  <2>1. config'.secret = secret /\ config'.version = version
    BY <1>3, ConfigurationParts DEF EditSecret, Reconfigure
  <2>2. /\ config.secret \in [Secrets -> Passwords \cup {Empty, Null}]
        /\ config.version \in [Secrets -> 0 .. MaxEdits + 1]
    BY DEF BaseInv, ConfigInv
  <2>3. edits \in Nat
    BY BoundsAssumption DEF BaseInv, TypeOK, PlaceTypes, BoundsAssumption
  <2>4. VersionOf(c.form, edits + 2) \in {0, edits + 2}
    BY <2>3 DEF VersionOf
  <2>5. state # Absent => state.version[x] \in Nat /\ state.version[x] <= edits + 1
    <3>1. state # Absent => state.version \in [Secrets -> 0 .. MaxEdits + 1]
      BY ModelParts DEF BaseInv, TypeOK, ModelTypes
    <3> QED
      BY <3>1, BoundsAssumption DEF BoundsAssumption, BaseInv, PlanInv
  <2>6. CASE x = s
    <3>1. version[x] = VersionOf(c.form, edits + 2)
      BY <2>2, <2>6
    <3> QED
      BY <2>1, <2>3, <2>4, <2>5, <3>1
  <2>7. CASE x # s
    BY <2>1, <2>2, <2>7
  <2> QED
    BY <2>6, <2>7
<1> QED
  BY <1>1, <1>2, <1>3

\* A failed handler leaves the versions that it found or was given.
LEMMA AbortVersion ==
  ASSUME OurServices, BaseInv, Handling, Abort
  PROVE  /\ Creating => state'.version = config.version
         /\ ~Creating => state' = state
BY AbortParts

LEMMA FlagsStep ==
  ASSUME OurServices, BaseInv, FlagsInv, [Next]_vars
  PROVE  FlagsInv'
<1> DEFINE Follows == state' # Absent =>
             \A s \in Secrets : (/\ state'.version[s] = config.version[s]
                                 /\ config.version[s] > 0) => s \in flags'
<1>c. \A s \in Secrets : config.version[s] > 0 => s \in Companions
  BY ConfigParts DEF BaseInv
<1>f. state # Absent =>
        \A s \in Secrets : (/\ state.version[s] = config.version[s]
                            /\ config.version[s] > 0) => s \in flags
  BY DEF FlagsInv
<1>i. ASSUME pc' \in {"idle", "plan", "delete", "create"}, kind' = kind, config' = config, Follows
      PROVE  FlagsInv'
  BY <1>i, SameKind DEF FlagsInv, Handling, Writes, Reads
<1>1. CASE Refresh
  <2>1. /\ pc' = "plan" /\ kind' = kind /\ config' = config
        /\ \/ state' = Absent
           \/ state' = Flattened /\ flags' = flags /\ state # Absent
    BY <1>1 DEF Refresh
  <2>2. Flattened.version = state.version
    BY FieldParts DEF Flattened
  <2> QED
    BY <1>f, <1>i, <2>1, <2>2
<1>2. CASE RefreshFails \/ DeleteFails \/ CreateFails
  BY <1>2, <1>f, <1>i DEF RefreshFails, DeleteFails, CreateFails, Stop
<1>3. CASE Plan
  <2>1. /\ kind' = kind /\ config' = config /\ state' = state /\ flags' = flags
        /\ \/ pc' \in {"idle", "delete", "create"}
           \/ pc' = kind.flow.updates[1] /\ state # Absent /\ prior' = state
    BY <1>3 DEF Plan
  <2>2. pc' = kind.flow.updates[1] /\ state # Absent /\ prior' = state => pc' = "move"
    BY <2>1, FirstCall DEF Creating, BaseInv, TypeOK, PlaceTypes
  <2> QED
    BY <1>f, <2>1, <2>2, SameKind DEF FlagsInv, Handling, Writes, Reads
<1>4. CASE Delete
  BY <1>4, <1>i DEF Delete
<1>5. CASE CreateCall \/ Shortcut
  <2>1. /\ kind' = kind /\ config' = config /\ flags' = Companions
    BY <1>5 DEF CreateCall, Shortcut, Noted
  <2>2. Companions' = Companions /\ Secrets' = Secrets
    BY <2>1, SameKind DEF Companions
  <2> QED
    BY <1>c, <2>1, <2>2 DEF FlagsInv
<1>6. ASSUME NEW step \in Writes, Call(step) PROVE FlagsInv'
  <2>1. /\ kind' = kind /\ config' = config /\ edits' = edits /\ state' = state
        /\ plan' = plan /\ prior' = prior /\ pc = step /\ pc' = After(pc)
        /\ flags' = IF pc = "move" THEN Companions ELSE flags
    BY <1>6 DEF Call, Noted
  <2>2. Companions' = Companions /\ Secrets' = Secrets /\ Handling
    BY <2>1, SameKind DEF Companions, Handling
  <2>3. flags' = Companions
    BY <2>1, <2>2 DEF FlagsInv
  <2> QED
    BY <1>c, <2>1, <2>2, <2>3 DEF FlagsInv
<1>7. ASSUME NEW step \in Reads, Look(step) PROVE FlagsInv'
  <2>1. /\ kind' = kind /\ config' = config /\ state' = state /\ pc = step /\ flags' = flags
    BY <1>7 DEF Look
  <2>2. Companions' = Companions /\ Secrets' = Secrets /\ Handling /\ pc # "move"
    BY <2>1, SameKind DEF Companions, Handling, Reads
  <2> QED
    BY <1>f, <2>1, <2>2 DEF FlagsInv
<1>8. ASSUME \E step \in Writes \cup Reads : pc = step /\ Abort, flags' = flags,
             kind' = kind, config' = config
      PROVE  FlagsInv'
  <2>1. Handling /\ Abort /\ kind \in Kinds
    BY <1>8 DEF Handling, BaseInv, TypeOK, PlaceTypes
  <2>2. pc' = "idle"
    BY <2>1, AbortParts
  <2>3. CASE Creating
    <3>1. pc # "move"
      BY <2>1, <2>3, LaterParts DEF BaseInv, PlanInv
    <3>2. flags' = Companions
      BY <1>8, <2>1, <3>1 DEF FlagsInv
    <3> QED
      BY <1>c, <1>i, <1>8, <2>2, <3>2
  <2>4. CASE ~Creating
    BY <1>f, <1>i, <1>8, <2>1, <2>2, <2>4, AbortVersion
  <2> QED
    BY <2>3, <2>4
<1>9. ASSUME NEW step, (step \in Writes /\ CallFails(step)) \/ (step \in Reads /\ LookFails(step))
      PROVE  FlagsInv'
  BY <1>8, <1>9 DEF CallFails, LookFails
<1>10. CASE Finish \/ DeployFails
  <2>1. /\ kind' = kind /\ config' = config /\ flags' = flags /\ pc = "deploy" /\ pc' = "idle"
    BY <1>10 DEF Finish, DeployFails, Stop
  <2>2. flags = Companions
    BY <2>1 DEF FlagsInv, Handling
  <2> QED
    BY <1>c, <1>i, <2>1, <2>2
<1>11. CASE \/ \E G \in EditSets : EditAttrs(G)
            \/ \E s \in Secrets : \E c \in SecretChoices(s) : EditSecret(s, c)
            \/ EditAuto
  <2>1. /\ kind' = kind /\ state' = state /\ flags' = flags /\ pc' = "idle"
        /\ \A s \in Secrets : \/ config'.version[s] = config.version[s]
                              \/ config'.version[s] = 0
                              \/ state # Absent => config'.version[s] # state.version[s]
    BY <1>11, EditParts
  <2> QED
    BY <1>f, <2>1, SameKind DEF FlagsInv, Handling, Writes, Reads
<1>12. CASE \/ (\/ \E g \in Groups \cap Disturbed : OutsideChange(g)
                \/ \E s \in Secrets : OutsideSecret(s)
                \/ OutsideDelete)
            \/ UNCHANGED vars
  <2>1. kind' = kind /\ config' = config /\ state' = state /\ flags' = flags /\ pc' = pc
    BY <1>12, OutsideParts DEF vars
  <2>2. Companions' = Companions /\ Secrets' = Secrets
    BY <2>1, SameKind DEF Companions
  <2> QED
    BY <2>1, <2>2 DEF FlagsInv, Handling
<1> QED
  BY <1>1, <1>2, <1>3, <1>4, <1>5, <1>6, <1>7, <1>9, <1>10, <1>11, <1>12, Zenon
     DEF Next, Terraform, Others

\* The update of a handler sends every companion whose version the server
\* may not have.
LEMMA UpdateSends ==
  ASSUME OurServices, BaseInv, SentInv, pc = "update", server # Absent,
         NEW s \in Secrets, config.version[s] > 0
  PROVE  StoredSecret(s) \in {config.secret[s], Theirs}
<1>1. config.form[s] = "companion" /\ config.version[s] # 0
  BY ConfigParts DEF BaseInv
<1>2. Handling /\ state = prior
  BY DEF Handling, Applying, Writes, BaseInv, PlanInv
<1>3. CASE Source(s) = "config"
  BY <1>3, StoredParts
<1>4. CASE Source(s) # "config"
  <2>1. ~Creating /\ config.version[s] = prior.version[s] /\ Source(s) \in {"seen", "server"}
    BY <1>1, <1>4 DEF Source
  <2>2. CompanionAt(server, s) /\ CompanionAt(seen, s)
    BY <1>2, <2>1 DEF SentInv, Creating
  <2> QED
    BY <2>1, <2>2, StoredParts DEF CompanionAt
<1> QED
  BY <1>3, <1>4

LEMMA SentEffect ==
  ASSUME OurServices, BaseInv, SentInv, NEW step \in Writes, pc = step,
         NEW s \in Secrets, config.version[s] > 0,
         server' = server \/ (server # Absent /\ Effect(step))
  PROVE  /\ CompanionAt(server, s) => CompanionAt(server', s)
         /\ (step = "update" /\ server # Absent /\ Effect(step)) => CompanionAt(server', s)
<1>1. CASE server' = server /\ ~(server # Absent /\ Effect(step))
  BY <1>1
<1>2. CASE server # Absent /\ Effect(step) /\ step = "update"
  <2>1. server'.secret[s] = StoredSecret(s)
    BY <1>2, WriteParts
  <2> QED
    BY <1>2, <2>1, UpdateSends DEF CompanionAt
<1>3. CASE server # Absent /\ Effect(step) /\ step # "update"
  <2>1. server'.secret = server.secret
    BY <1>3, WriteParts
  <2> QED
    BY <1>3, <2>1 DEF CompanionAt
<1> QED
  BY <1>1, <1>2, <1>3

LEMMA SentStep ==
  ASSUME OurServices, BaseInv, SentInv, [Next]_vars
  PROVE  SentInv'
<1>c. \A s \in Secrets : config.version[s] > 0 => /\ s \in Companions
                                                  /\ config.secret[s] # Null
  BY ConfigParts DEF BaseInv
<1>s. \A s \in Secrets :
        (config.version[s] > 0 /\ state # Absent /\ state.version[s] = config.version[s])
          => CompanionAt(server, s) /\ (Handling => CompanionAt(seen, s))
  BY DEF SentInv
<1>h. \A s \in Secrets :
        (config.version[s] > 0 /\ Handling /\ (Creating \/ "update" \notin Later))
          => CompanionAt(server, s)
  BY DEF SentInv
<1>i. ASSUME pc' \in {"idle", "plan", "delete", "create"}, kind' = kind, config' = config,
             \A s \in Secrets :
               (/\ config.version[s] > 0 /\ state' # Absent
                /\ state'.version[s] = config.version[s]) => CompanionAt(server', s)
      PROVE  SentInv'
  <2>1. ~Handling' /\ Secrets' = Secrets
    BY <1>i, SameKind DEF Handling, Writes, Reads
  <2> QED
    BY <1>i, <2>1 DEF SentInv, CompanionAt
<1>1. CASE Refresh
  <2>1. /\ pc' = "plan" /\ kind' = kind /\ config' = config /\ server' = server
        /\ state' = Absent \/ (state' = Flattened /\ state # Absent)
    BY <1>1 DEF Refresh
  <2>2. Flattened.version = state.version
    BY FieldParts DEF Flattened
  <2> QED
    BY <1>s, <1>i, <2>1, <2>2
<1>2. CASE RefreshFails \/ DeleteFails \/ CreateFails
  <2>1. /\ pc' = "idle" /\ kind' = kind /\ config' = config /\ server' \in {server, Absent}
        /\ state' = state
    BY <1>2 DEF RefreshFails, DeleteFails, CreateFails, Stop, BaseInv, TypeOK, PlaceTypes
  <2> QED
    BY <1>s, <1>i, <2>1 DEF CompanionAt
<1>3. CASE Plan
  <2>1. /\ kind' = kind /\ config' = config /\ state' = state /\ server' = server
        /\ seen' = seen /\ prior' = state
        /\ \/ pc' \in {"idle", "delete", "create"}
           \/ pc' = kind.flow.updates[1] /\ state # Absent
    BY <1>3 DEF Plan
  <2>2. CASE pc' = kind.flow.updates[1] /\ state # Absent
    <3>1. ~Creating' /\ "update" \in Later'
      BY <2>1, <2>2, FirstCall DEF Creating, BaseInv, TypeOK, PlaceTypes
    <3>2. seen' = Absent
      BY <1>3, <2>1 DEF Plan, BaseInv, SeenInv, Handling, Writes, Reads
    <3>3. Secrets' = Secrets
      BY <2>1, SameKind
    <3> QED
      BY <1>s, <2>1, <3>1, <3>2, <3>3 DEF SentInv, CompanionAt
  <2> QED
    BY <1>s, <1>i, <2>1, <2>2
<1>4. CASE Delete
  BY <1>4, <1>i DEF Delete
<1>5. CASE CreateCall
  <2>1. /\ kind' = kind /\ config' = config /\ server' = Made /\ state' = state
        /\ prior' = prior /\ pc = "create"
    BY <1>5 DEF CreateCall
  <2>2. Applying /\ state' = Absent /\ Secrets' = Secrets
    BY <2>1, SameKind DEF Applying, BaseInv, PlanInv, Creating
  <2>3. \A s \in Secrets : config.version[s] > 0 => Made.secret[s] = config.secret[s]
    BY <1>c, <2>2, MadeParts
  <2> QED
    BY <2>1, <2>2, <2>3 DEF SentInv, CompanionAt
<1>6. CASE Shortcut
  <2>1. /\ pc = "move" /\ pc' = "idle" /\ kind' = kind /\ config' = config /\ server' = server
        /\ state' = plan /\ plan.version = prior.version
    BY <1>6 DEF Shortcut, Stop, OnlyProviderAttributesChanged
  <2>2. Handling /\ Applying
    BY <2>1 DEF Handling, Applying, Writes
  <2>3. plan.version = config.version /\ state = prior /\ ~Creating
    BY <2>1, <2>2, PlannedParts, LaterParts DEF BaseInv, PlanInv, TypeOK, PlaceTypes
  <2> QED
    BY <1>s, <1>i, <2>1, <2>3 DEF Creating
<1>7. ASSUME NEW step \in Writes, Call(step) PROVE SentInv'
  <2>1. /\ kind' = kind /\ config' = config /\ edits' = edits /\ state' = state
        /\ plan' = plan /\ prior' = prior /\ pc = step /\ pc' = After(pc) /\ seen' = seen
        /\ IF Needed(step) THEN server # Absent /\ Effect(step) ELSE server' = server
    BY <1>7 DEF Call
  <2>2. tainted' = tainted
    BY <1>7, Zenon DEF Call
  <2>3. Handling /\ pc \in Later /\ Later' = Later \ {pc} /\ Creating' = Creating
    BY <2>1, <2>2, GoesOn
  <2>4. Secrets' = Secrets
    BY <2>1, SameKind
  <2>5. ASSUME NEW s \in Secrets, config.version[s] > 0
        PROVE  /\ CompanionAt(server, s) => CompanionAt(server', s)
               /\ (step = "update" /\ server # Absent /\ Effect(step)) => CompanionAt(server', s)
    BY <2>1, <2>5, SentEffect
  <2>6. ASSUME NEW s \in Secrets, config.version[s] > 0, state # Absent,
               state.version[s] = config.version[s]
        PROVE  CompanionAt(server', s) /\ CompanionAt(seen, s)
    BY <1>s, <2>3, <2>5, <2>6
  <2>7. ASSUME NEW s \in Secrets, config.version[s] > 0, Creating \/ "update" \notin Later'
        PROVE  CompanionAt(server', s)
    <3>1. CASE Creating \/ "update" \notin Later
      BY <1>h, <2>3, <2>5, <2>7, <3>1
    <3>2. CASE ~Creating /\ "update" \in Later
      <4>1. step = "update"
        BY <2>1, <2>3, <2>7, <3>2
      <4>2. Needed(step)
        BY <3>2, <4>1 DEF Needed
      <4> QED
        BY <2>1, <2>5, <2>7, <4>1, <4>2
    <3> QED
      BY <3>1, <3>2
  <2> QED
    BY <2>1, <2>3, <2>4, <2>6, <2>7 DEF SentInv, CompanionAt
<1>8. ASSUME NEW step \in Reads, Look(step) PROVE SentInv'
  <2>1. /\ kind' = kind /\ config' = config /\ edits' = edits /\ state' = state
        /\ plan' = plan /\ prior' = prior /\ pc = step /\ pc' = After(pc) /\ server' = server
        /\ seen' \in {seen, server}
    BY <1>8 DEF Look
  <2>2. tainted' = tainted
    BY <1>8, Zenon DEF Look
  <2>3. Handling /\ pc \in Later /\ Later' = Later \ {pc} /\ Creating' = Creating
    BY <2>1, <2>2, GoesOn
  <2>4. Secrets' = Secrets /\ pc # "update"
    BY <2>1, SameKind DEF Reads
  <2>5. \A s \in Secrets :
          (config.version[s] > 0 /\ state # Absent /\ state.version[s] = config.version[s])
            => CompanionAt(server, s) /\ CompanionAt(seen', s)
    BY <1>s, <2>1, <2>3
  <2>6. \A s \in Secrets :
          (config.version[s] > 0 /\ (Creating \/ "update" \notin Later'))
            => CompanionAt(server, s)
    BY <1>h, <2>3, <2>4
  <2> QED
    BY <2>1, <2>3, <2>4, <2>5, <2>6 DEF SentInv, CompanionAt
<1>9. ASSUME NEW step \in Writes \cup Reads, pc = step, Abort, kind' = kind, config' = config,
             server' = server \/ (step \in Writes /\ server # Absent /\ Effect(step))
      PROVE  SentInv'
  <2>1. Handling /\ pc' = "idle"
    BY <1>9, AbortParts DEF Handling
  <2>2. ASSUME NEW s \in Secrets, config.version[s] > 0, CompanionAt(server, s)
        PROVE  CompanionAt(server', s)
    BY <1>9, <2>2, SentEffect
  <2>3. CASE Creating
    BY <1>h, <1>i, <1>9, <2>1, <2>2, <2>3
  <2>4. CASE ~Creating
    <3>1. state' = state
      BY <1>9, <2>1, <2>4, AbortVersion
    <3> QED
      BY <1>s, <1>i, <1>9, <2>1, <2>2, <3>1
  <2> QED
    BY <2>3, <2>4
<1>10. ASSUME NEW step, (step \in Writes /\ CallFails(step)) \/ (step \in Reads /\ LookFails(step))
       PROVE  SentInv'
  <2>1. /\ step \in Writes \cup Reads /\ pc = step /\ Abort /\ kind' = kind /\ config' = config
        /\ server' = server \/ (step \in Writes /\ server # Absent /\ Effect(step))
    BY <1>10 DEF CallFails, LookFails
  <2> QED
    BY <1>9, <2>1
<1>11. CASE Finish \/ DeployFails
  <2>1. /\ kind' = kind /\ config' = config /\ server' = server /\ pc = "deploy" /\ pc' = "idle"
    BY <1>11 DEF Finish, DeployFails, Stop
  <2>2. Handling /\ "update" \notin Later
    BY <2>1, DeployParts
  <2> QED
    BY <1>h, <1>i, <2>1, <2>2
<1>12. CASE \/ \E G \in EditSets : EditAttrs(G)
            \/ \E s \in Secrets : \E c \in SecretChoices(s) : EditSecret(s, c)
            \/ EditAuto
  <2>1. /\ kind' = kind /\ state' = state /\ server' = server /\ pc' = "idle"
        /\ \A s \in Secrets :
             \/ config'.version[s] = config.version[s] /\ config'.secret[s] = config.secret[s]
             \/ config'.version[s] = 0
             \/ state # Absent => config'.version[s] # state.version[s]
    BY <1>12, EditParts
  <2>2. ~Handling' /\ Secrets' = Secrets
    BY <2>1, SameKind DEF Handling, Writes, Reads
  <2> QED
    BY <1>s, <2>1, <2>2 DEF SentInv, CompanionAt
<1>13. CASE \/ \E g \in Groups \cap Disturbed : OutsideChange(g)
            \/ \E s \in Secrets : OutsideSecret(s)
            \/ OutsideDelete
  <2>1. /\ kind' = kind /\ config' = config /\ state' = state /\ seen' = seen /\ pc' = pc
        /\ plan' = plan /\ prior' = prior /\ server # Absent
        /\ server' = Absent \/ \A s \in Secrets : server'.secret[s] \in {server.secret[s], Theirs}
    BY <1>13, OutsideParts
  <2>2. /\ Creating' = Creating /\ Handling' = Handling /\ Later' = Later /\ Secrets' = Secrets
    BY <2>1, SameApply, SameKind DEF Handling, Later, PositionOf
  <2> QED
    BY <2>1, <2>2 DEF SentInv, CompanionAt
<1>14. CASE UNCHANGED vars
  <2>1. /\ kind' = kind /\ config' = config /\ state' = state /\ seen' = seen /\ pc' = pc
        /\ plan' = plan /\ prior' = prior /\ server' = server
    BY <1>14 DEF vars
  <2>2. /\ Creating' = Creating /\ Handling' = Handling /\ Later' = Later /\ Secrets' = Secrets
    BY <2>1, SameApply, SameKind DEF Handling, Later, PositionOf
  <2> QED
    BY <2>1, <2>2 DEF SentInv, CompanionAt
<1> QED
  BY <1>1, <1>2, <1>3, <1>4, <1>5, <1>6, <1>7, <1>8, <1>10, <1>11, <1>12, <1>13, <1>14, Zenon
     DEF Next, Terraform, Others

-----------------------------------------------------------------------------
(* The end of an apply. *)

LEMMA SatisfiedIdle ==
  ASSUME pc' \in {"idle", "plan", "delete", "create"} \/ meddled'
  PROVE  SatisfiedInv'
BY DEF SatisfiedInv, Handling, Writes, Reads

\* An apply in place stores what it is told of the secrets, and a create had
\* it already.
LEMMA UpdateSatisfies ==
  ASSUME OurServices, Versioned, BaseInv, KeptInv, SentInv, ~meddled, pc = "update",
         server # Absent, Effect("update") \/ (Creating /\ server' = server),
         NEW s \in Secrets
  PROVE  /\ config.form[s] = "plain" => server'.secret[s] = config.secret[s]
         /\ config.form[s] = "companion" => server'.secret[s] \in {config.secret[s], Theirs}
<1>1. /\ config.form[s] = "omitted" <=> config.secret[s] = Null
      /\ config.form[s] = "companion" => config.version[s] > 0
  BY ConfigParts DEF BaseInv
<1>2. CASE Creating
  <2>1. Handling
    BY DEF Handling, Writes
  <2>2. server.secret[s] = IF config.secret[s] = Null THEN Generated ELSE config.secret[s]
    BY <1>2, <2>1 DEF KeptInv, GivenInv
  <2>3. Effect("update") => server'.secret[s] = server.secret[s]
    BY <1>2, WriteParts, UpdateKeeps DEF KeptInv, Writes
  <2> QED
    BY <1>1, <2>2, <2>3
<1>3. CASE ~Creating
  <2>1. server'.secret[s] = StoredSecret(s)
    BY <1>3, WriteParts DEF Writes
  <2>2. CASE config.form[s] = "plain"
    <3>1. Source(s) = "config"
      BY <1>3, <2>2 DEF Source
    <3> QED
      BY <2>1, <2>2, <3>1, StoredParts
  <2>3. CASE config.form[s] = "companion"
    BY <1>1, <2>1, <2>3, UpdateSends
  <2> QED
    BY <2>2, <2>3
<1> QED
  BY <1>2, <1>3

LEMMA SatisfiedStep ==
  ASSUME OurServices, Versioned, BaseInv, KeptInv, SentInv, SatisfiedInv, [Next]_vars
  PROVE  SatisfiedInv'
<1>1. CASE Refresh \/ RefreshFails \/ DeleteFails \/ CreateFails \/ Shortcut \/ Finish
           \/ DeployFails
  BY <1>1, SatisfiedIdle DEF Refresh, RefreshFails, DeleteFails, CreateFails, Shortcut, Finish,
                             DeployFails, Stop
<1>2. CASE Plan
  <2>1. /\ kind' = kind /\ prior' = state
        /\ \/ pc' \in {"idle", "delete", "create"}
           \/ pc' = kind.flow.updates[1] /\ state # Absent
    BY <1>2 DEF Plan
  <2>2. CASE pc' = kind.flow.updates[1] /\ state # Absent
    <3>1. "update" \in Later'
      BY <2>1, <2>2, FirstCall DEF Creating, BaseInv, TypeOK, PlaceTypes
    <3> QED
      BY <3>1 DEF SatisfiedInv
  <2> QED
    BY <2>1, <2>2, SatisfiedIdle
<1>3. CASE Delete
  BY <1>3, SatisfiedIdle DEF Delete
<1>4. CASE CreateCall
  <2>1. kind' = kind /\ prior' = prior /\ pc = "create" /\ pc' = After("create")
    BY <1>4 DEF CreateCall
  <2>2. "update" \in Later'
    BY <2>1, SecondCall DEF Creating, BaseInv, PlanInv, TypeOK, PlaceTypes
  <2> QED
    BY <2>2 DEF SatisfiedInv
<1>5. ASSUME NEW step \in Writes, Call(step) PROVE SatisfiedInv'
  <2>1. /\ kind' = kind /\ config' = config /\ edits' = edits /\ state' = state
        /\ plan' = plan /\ prior' = prior /\ pc = step /\ pc' = After(pc)
        /\ IF Needed(step) THEN server # Absent /\ Effect(step) ELSE server' = server
    BY <1>5 DEF Call
  <2>2. tainted' = tainted /\ meddled' = meddled
    BY <1>5, Zenon DEF Call
  <2> SUFFICES ASSUME ~meddled, "update" \notin Later' PROVE SatisfiedInv'
    BY <2>2, SatisfiedIdle, Zenon DEF SatisfiedInv
  <2>3. Handling /\ pc \in Later /\ Later' = Later \ {pc}
    BY <2>1, <2>2, GoesOn
  <2>4. Secrets' = Secrets
    BY <2>1, SameKind
  <2>5. CASE step = "update"
    <3>1. ~Creating => Needed(step)
      BY <2>5 DEF Needed
    <3>2. Creating => server # Absent
      BY <2>3 DEF KeptInv, GivenInv
    <3>3. server # Absent /\ (Effect("update") \/ (Creating /\ server' = server))
      BY <2>1, <2>5, <3>1, <3>2
    <3> QED
      BY <2>1, <2>4, <2>5, <3>3, UpdateSatisfies DEF SatisfiedInv, Satisfied
  <2>6. CASE step # "update"
    <3>1. \A s \in Secrets : Satisfied(s)
      BY <2>1, <2>3, <2>6 DEF SatisfiedInv
    <3>2. server' = server \/ server'.secret = server.secret
      BY <2>1, <2>6, WriteParts
    <3> QED
      BY <2>1, <2>4, <3>1, <3>2 DEF SatisfiedInv, Satisfied
  <2> QED
    BY <2>5, <2>6
<1>6. ASSUME NEW step \in Reads, Look(step) PROVE SatisfiedInv'
  <2>1. /\ kind' = kind /\ config' = config /\ edits' = edits /\ state' = state
        /\ plan' = plan /\ prior' = prior /\ pc = step /\ pc' = After(pc) /\ server' = server
    BY <1>6 DEF Look
  <2>2. tainted' = tainted /\ meddled' = meddled
    BY <1>6, Zenon DEF Look
  <2>3. Handling /\ pc \in Later /\ Later' = Later \ {pc}
    BY <2>1, <2>2, GoesOn
  <2>4. Secrets' = Secrets /\ pc # "update"
    BY <2>1, SameKind DEF Reads
  <2> SUFFICES ASSUME ~meddled, "update" \notin Later' PROVE SatisfiedInv'
    BY <2>2, SatisfiedIdle, Zenon DEF SatisfiedInv
  <2>5. \A s \in Secrets : Satisfied(s)
    BY <2>3, <2>4 DEF SatisfiedInv
  <2> QED
    BY <2>1, <2>4, <2>5 DEF SatisfiedInv, Satisfied
<1>7. ASSUME NEW step, (step \in Writes /\ CallFails(step)) \/ (step \in Reads /\ LookFails(step))
      PROVE  SatisfiedInv'
  BY <1>7, SatisfiedIdle DEF CallFails, LookFails, Abort, Stop
<1>8. CASE \/ \E G \in EditSets : EditAttrs(G)
           \/ \E s \in Secrets : \E c \in SecretChoices(s) : EditSecret(s, c)
           \/ EditAuto
  BY <1>8, SatisfiedIdle DEF EditAttrs, EditSecret, EditAuto, Reconfigure
<1>9. CASE \/ \E g \in Groups \cap Disturbed : OutsideChange(g)
           \/ \E s \in Secrets : OutsideSecret(s)
           \/ OutsideDelete
  BY <1>9, OutsideParts, SatisfiedIdle
<1>10. CASE UNCHANGED vars
  <2>1. /\ kind' = kind /\ config' = config /\ pc' = pc
        /\ plan' = plan /\ prior' = prior /\ server' = server
    BY <1>10 DEF vars
  <2>2. meddled' = meddled
    BY <1>10, Zenon DEF vars
  <2>3. Handling' = Handling /\ Later' = Later /\ Secrets' = Secrets
    BY <2>1, SameApply, SameKind DEF Handling, Later, PositionOf
  <2> QED
    BY <2>1, <2>2, <2>3 DEF SatisfiedInv, Satisfied
<1> QED
  BY <1>1, <1>2, <1>3, <1>4, <1>5, <1>6, <1>7, <1>8, <1>9, <1>10, Zenon
     DEF Next, Terraform, Others

\* A handler that is about to deploy has brought the record to the plan.
LEMMA AtDeploy ==
  ASSUME OurServices, BaseInv, KeptInv, ConvergeInv, pc = "deploy", ~meddled
  PROVE  /\ server # Absent /\ server \in Records /\ seen \in Records
         /\ server.attrs = config.attrs /\ plan.attrs = config.attrs
         /\ flags = Companions
         /\ \A s \in Secrets : Satisfied(s) /\ seen.secret[s] = server.secret[s]
         /\ ~Creating => seen = server
<1>1. Handling /\ Applying /\ seen \in Records /\ seen # Absent /\ Later = {"deploy"}
  BY DeployParts
<1>2. server # Absent /\ server \in Records
  BY <1>1 DEF ConvergeInv, SavedInv, BaseInv, TypeOK, RecordTypes
<1>3. plan.attrs = config.attrs /\ plan.attrs \in [Groups -> {First, Other}]
  BY <1>1, PlannedParts, ModelParts
<1>4. server.attrs = plan.attrs
  <2>1. Ahead = {}
    BY <1>1, CarriesParts DEF Ahead
  <2>2. \A g \in Groups : server.attrs[g] = plan.attrs[g]
    BY <1>1, <2>1 DEF ConvergeInv, SavedInv
  <2>3. server.attrs \in [Groups -> {First, Other}]
    BY <1>2, RecordParts
  <2> QED
    BY <1>3, <2>2, <2>3
<1>5. flags = Companions
  BY <1>1 DEF ConvergeInv, FlagsInv
<1>6. \A s \in Secrets : Satisfied(s)
  BY <1>1 DEF ConvergeInv, SatisfiedInv
<1>7. seen.secret = server.secret /\ (~Creating => seen = server)
  BY <1>1 DEF KeptInv, FreshInv
<1> QED
  BY <1>1, <1>2, <1>3, <1>4, <1>5, <1>6, <1>7

LEMMA FinishConverges ==
  ASSUME OurServices, BaseInv, KeptInv, ConvergeInv, Finish, ~meddled, result' = "ok"
  PROVE  ApplyConverges'
<1>1. PICK record \in IF Deploys THEN {seen, server} ELSE {seen} :
        state' = Resolved(record) /\ Consistent(Resolved(record)) /\ ~tainted'
  BY Zenon DEF Finish, Stop
<1>2. /\ kind' = kind /\ config' = config /\ server' = server /\ flags' = flags
      /\ pc = "deploy"
  BY DEF Finish
<1>3. /\ server # Absent /\ server \in Records /\ seen \in Records
      /\ server.attrs = config.attrs /\ plan.attrs = config.attrs
      /\ flags = Companions
      /\ \A s \in Secrets : Satisfied(s) /\ seen.secret[s] = server.secret[s]
  BY <1>2, AtDeploy
<1>4. record \in Records /\ \A s \in Secrets : record.secret[s] = server.secret[s]
  BY <1>1, <1>3
<1>5. Handling /\ Applying
  BY <1>2, DeployParts
<1>6. state'.attrs = server.attrs
  BY <1>1, <1>3 DEF Consistent
<1>7. \A s \in Secrets : state'.secret[s] = IF s \in flags THEN Null ELSE server.secret[s]
  <2> SUFFICES ASSUME NEW s \in Secrets
               PROVE  state'.secret[s] = IF s \in flags THEN Null ELSE server.secret[s]
    OBVIOUS
  <2>1. state'.secret[s] = IF s \notin Computed THEN plan.secret[s]
                           ELSE IF s \in Companions THEN Null
                           ELSE record.secret[s]
    BY <1>1, <1>4, <1>5, ResolvedParts
  <2>2. s \in Computed => state'.secret[s] = IF s \in flags THEN Null ELSE server.secret[s]
    BY <1>3, <1>4, <2>1
  <2>3. ASSUME s \notin Computed
        PROVE  state'.secret[s] = IF s \in flags THEN Null ELSE server.secret[s]
    <3>1. state'.secret[s] = IF config.form[s] = "plain" THEN config.secret[s] ELSE Null
      BY <1>5, <2>1, <2>3, PlannedParts DEF PlannedSecret
    <3>2. /\ config.form[s] \in {"plain", "companion"}
          /\ s \in Companions <=> config.form[s] = "companion"
      BY <2>3, ConfigParts, ValueParts DEF BaseInv
    <3>3. config.form[s] = "plain" => server.secret[s] = config.secret[s]
      BY <1>3 DEF Satisfied
    <3> QED
      BY <1>3, <3>1, <3>2, <3>3
  <2> QED
    BY <2>2, <2>3
<1>8. \A s \in Secrets : s \in flags => config.form[s] # "plain"
  BY <1>3 DEF Companions
<1>9. Secrets' = Secrets /\ Companions' = Companions
  BY <1>2, SameKind DEF Companions
<1>10. \A s \in Secrets : Satisfied(s)'
  BY <1>2, <1>3 DEF Satisfied
<1> QED
  BY <1>1, <1>2, <1>3, <1>6, <1>7, <1>8, <1>9, <1>10 DEF ApplyConverges

\* A plan that finds nothing to do, or only what needs no call, finds the
\* service as the configuration wants it.
LEMMA Refreshed ==
  ASSUME OurServices, Versioned, BaseInv, KeptInv, ConvergeInv, pc \in {"plan", "move"},
         state # Absent, ~meddled,
         state.attrs = config.attrs, state.version = config.version,
         \A s \in Secrets : config.form[s] = "plain" => state.secret[s] = config.secret[s]
  PROVE  /\ server # Absent /\ server.attrs = config.attrs
         /\ \A s \in Secrets : Satisfied(s)
         /\ \A s \in Secrets : state.secret[s] = IF s \in flags THEN Null ELSE server.secret[s]
         /\ \A s \in Secrets : s \in flags => config.form[s] # "plain"
         /\ Companions \subseteq flags
<1>1. /\ server # Absent /\ state.attrs = server.attrs
      /\ \A s \in Secrets : state.secret[s] = IF s \in flags THEN Null ELSE server.secret[s]
  BY DEF KeptInv, RefreshedInv
<1>2. \A s \in Secrets : /\ config.form[s] = "plain" => config.secret[s] # Null
                         /\ config.form[s] = "companion" => config.version[s] > 0
                         /\ s \in Companions <=> config.form[s] = "companion"
  BY ConfigParts DEF BaseInv
<1>3. \A s \in Secrets : s \in flags => config.form[s] # "plain"
  BY <1>1, <1>2
<1>4. \A s \in Secrets : config.form[s] = "companion" => CompanionAt(server, s) /\ s \in flags
  BY <1>2 DEF ConvergeInv, SentInv, FlagsInv
<1>5. \A s \in Secrets : Satisfied(s)
  BY <1>1, <1>2, <1>3, <1>4 DEF Satisfied, CompanionAt
<1>6. Companions \subseteq flags
  BY <1>4 DEF Companions
<1> QED
  BY <1>1, <1>3, <1>5, <1>6

LEMMA ShortcutConverges ==
  ASSUME OurServices, Versioned, BaseInv, KeptInv, ConvergeInv, Shortcut, ~meddled
  PROVE  ApplyConverges'
<1>1. /\ pc = "move" /\ kind' = kind /\ config' = config /\ server' = server
      /\ state' = plan /\ flags' = Companions /\ kind.flow.deploys = "any"
      /\ plan.attrs = prior.attrs /\ plan.secret = prior.secret /\ plan.version = prior.version
  BY DEF Shortcut, Noted, OnlyProviderAttributesChanged
<1>2. Handling /\ Applying /\ kind \in Kinds
  BY <1>1 DEF Handling, Applying, Writes, BaseInv, TypeOK, PlaceTypes
<1>3. /\ plan.attrs = config.attrs /\ plan.version = config.version /\ state = prior
      /\ \A s \in Secrets : plan.secret[s] = PlannedSecret(s)
  BY <1>2, PlannedParts
<1>4. state # Absent /\ Computed = {}
  BY <1>1, <1>2, <1>3, KindParts, LaterParts DEF Creating, BaseInv, PlanInv
<1>5. \A s \in Secrets : config.form[s] = "plain" => state.secret[s] = config.secret[s]
  BY <1>1, <1>3 DEF PlannedSecret
<1>6. /\ server # Absent /\ server.attrs = config.attrs
      /\ \A s \in Secrets : Satisfied(s)
  BY <1>1, <1>3, <1>4, <1>5, Refreshed
<1>7. \A s \in Secrets : plan.secret[s] = IF s \in Companions THEN Null ELSE server.secret[s]
  <2> SUFFICES ASSUME NEW s \in Secrets
               PROVE  plan.secret[s] = IF s \in Companions THEN Null ELSE server.secret[s]
    OBVIOUS
  <2>1. /\ config.form[s] \in {"plain", "companion"}
        /\ s \in Companions <=> config.form[s] = "companion"
    BY <1>4, ConfigParts, ValueParts DEF BaseInv
  <2>2. plan.secret[s] = IF config.form[s] = "plain" THEN config.secret[s] ELSE Null
    BY <1>3, <1>4 DEF PlannedSecret
  <2> QED
    BY <1>6, <2>1, <2>2 DEF Satisfied
<1>8. ~tainted'
  BY <1>2, Zenon DEF Shortcut, BaseInv, PlanInv
<1>9. Secrets' = Secrets /\ Companions' = Companions
  BY <1>1, SameKind DEF Companions
<1>10. \A s \in Secrets : Satisfied(s)'
  BY <1>1, <1>6 DEF Satisfied
<1>11. \A s \in Secrets : s \in Companions => config.form[s] # "plain"
  BY DEF Companions
<1> QED
  BY <1>1, <1>3, <1>6, <1>7, <1>8, <1>9, <1>10, <1>11 DEF ApplyConverges

LEMMA PlanConverges ==
  ASSUME OurServices, Versioned, BaseInv, KeptInv, ConvergeInv, Plan, ~meddled, pc' = "idle"
  PROVE  ApplyConverges'
<1>1. /\ pc = "plan" /\ kind' = kind /\ config' = config /\ server' = server
      /\ state' = state /\ flags' = flags
  BY DEF Plan
<1>2. kind.flow.updates[1] # "idle"
  BY StartsWithMove DEF BaseInv, TypeOK, PlaceTypes
<1>3. state # Absent /\ ~MustReplace /\ Planned = state
  BY <1>2 DEF Plan
<1>4. ~tainted'
  <2>1. tainted' = tainted
    BY Zenon DEF Plan
  <2> QED
    BY <1>3, <2>1, Zenon DEF MustReplace
<1>5. kind \in Kinds /\ ConfigInv /\ Computed \subseteq Secrets
  BY KindParts DEF BaseInv, TypeOK, PlaceTypes
<1>6. \E filled : /\ state = PlanWith(filled)
                  /\ \A s \in Computed : filled[s] \in SomeSecret \cup {Null, Unknown}
  <2>1. \A s \in Secrets : state.secret[s] \in SomeSecret \cup {Null, Unknown}
    BY <1>3, ModelParts DEF BaseInv, TypeOK, ModelTypes
  <2>2. CASE Proposed = state
    BY <1>5, <2>1, <2>2 DEF Proposed
  <2>3. CASE Proposed # state
    <3>1. state = PlanWith([s \in Secrets |-> ComputedSecretPlan(s)])
      BY <1>3, <2>3 DEF Planned
    <3>2. \A s \in Secrets : ComputedSecretPlan(s) \in SomeSecret \cup {Null, Unknown}
      BY <2>1 DEF ComputedSecretPlan
    <3> QED
      BY <1>5, <3>1, <3>2
  <2> QED
    BY <2>2, <2>3
<1>7. /\ state.attrs = config.attrs /\ state.version = config.version
      /\ \A s \in Secrets : config.form[s] = "plain" => state.secret[s] = config.secret[s]
  BY <1>5, <1>6, PlanWithParts
<1>8. /\ server # Absent /\ server.attrs = config.attrs
      /\ \A s \in Secrets : Satisfied(s)
      /\ \A s \in Secrets : state.secret[s] = IF s \in flags THEN Null ELSE server.secret[s]
      /\ \A s \in Secrets : s \in flags => config.form[s] # "plain"
      /\ Companions \subseteq flags
  BY <1>1, <1>3, <1>7, Refreshed
<1>9. Secrets' = Secrets /\ Companions' = Companions
  BY <1>1, SameKind DEF Companions
<1>10. \A s \in Secrets : Satisfied(s)'
  BY <1>1, <1>8 DEF Satisfied
<1> QED
  BY <1>1, <1>4, <1>7, <1>8, <1>9, <1>10 DEF ApplyConverges

\* What can end an apply well.
LEMMA EndsWell ==
  ASSUME OurServices, BaseInv, [Next]_vars, Applied'
  PROVE  \/ Finish /\ ~meddled /\ result' = "ok"
         \/ Shortcut /\ ~meddled
         \/ Plan /\ ~meddled /\ pc' = "idle"
         \/ UNCHANGED vars
<1>1. pc' = "idle" /\ result' = "ok"
  BY DEF Applied
<1>2. ~meddled'
  BY Zenon DEF Applied
<1>3. ASSUME Finish \/ Shortcut \/ Plan PROVE ~meddled
  BY <1>2, <1>3, Zenon DEF Finish, Shortcut, Plan
<1>4. ~Refresh /\ ~Delete /\ ~CreateFails /\ ~DeleteFails /\ ~RefreshFails /\ ~DeployFails
  BY <1>1 DEF Refresh, Delete, CreateFails, DeleteFails, RefreshFails, DeployFails, Stop
<1>5. ~CreateCall
  <2> SUFFICES ASSUME CreateCall PROVE FALSE
    OBVIOUS
  <2>1. kind' = kind /\ prior' = prior /\ pc = "create" /\ pc' = After("create")
    BY DEF CreateCall
  <2>2. Handling'
    BY <2>1, SecondCall DEF Creating, BaseInv, PlanInv, TypeOK, PlaceTypes
  <2> QED
    BY <1>1, <2>2 DEF Handling, Writes, Reads
<1>6. ASSUME NEW step \in Writes \cup Reads, Call(step) \/ Look(step) PROVE FALSE
  <2>1. /\ kind' = kind /\ config' = config /\ edits' = edits /\ state' = state
        /\ plan' = plan /\ prior' = prior /\ pc = step /\ pc' = After(pc)
    BY <1>6 DEF Call, Look
  <2>2. tainted' = tainted
    BY <1>6, Zenon DEF Call, Look
  <2>3. Handling'
    BY <2>1, <2>2, GoesOn
  <2> QED
    BY <1>1, <2>3 DEF Handling, Writes, Reads
<1>7. ASSUME NEW step, CallFails(step) \/ LookFails(step) PROVE FALSE
  BY <1>1, <1>7 DEF CallFails, LookFails, Abort, Stop
<1>8. ~Others
  BY <1>1, <1>2, EditParts, OutsideParts DEF Others
<1> QED
  BY <1>1, <1>3, <1>4, <1>5, <1>6, <1>7, <1>8, Zenon DEF Next, Terraform

LEMMA ConvergesStep ==
  ASSUME OurServices, Versioned, BaseInv, KeptInv, ConvergeInv, ApplyConverges, [Next]_vars
  PROVE  ApplyConverges'
<1> SUFFICES ASSUME Applied' PROVE ApplyConverges'
  BY DEF ApplyConverges
<1>1. CASE UNCHANGED vars
  <2>1. /\ kind' = kind /\ config' = config /\ state' = state /\ flags' = flags
        /\ server' = server /\ pc' = pc /\ result' = result
    BY <1>1 DEF vars
  <2>2. meddled' = meddled /\ tainted' = tainted
    BY <1>1, Zenon DEF vars
  <2>3. Applied
    BY <2>1, <2>2, Zenon DEF Applied
  <2>4. Secrets' = Secrets /\ Companions' = Companions
    BY <2>1, SameKind DEF Companions
  <2>5. \A s : Satisfied(s)' <=> Satisfied(s)
    BY <2>1 DEF Satisfied
  <2>6. ~tainted'
    BY <2>2, <2>3, Zenon DEF ApplyConverges
  <2>7. /\ server # Absent /\ server.attrs = config.attrs
        /\ \A s \in Secrets : Satisfied(s)
        /\ state.attrs = server.attrs
        /\ \A s \in Secrets :
             state.secret[s] = IF s \in flags THEN Null ELSE server.secret[s]
        /\ \A s \in Secrets : s \in flags => config.form[s] # "plain"
        /\ Companions \subseteq flags
    BY <2>3 DEF ApplyConverges
  <2> QED
    BY <2>1, <2>4, <2>5, <2>6, <2>7 DEF ApplyConverges
<1> QED
  BY <1>1, EndsWell, FinishConverges, ShortcutConverges, PlanConverges

\* An apply that has nothing to deploy has changed nothing that a deployment
\* is made of.
LEMMA NothingToDeploy ==
  ASSUME OurServices, BaseInv, KeptInv, ConvergeInv, pc = "deploy", ~meddled, ~Creating,
         ~deployNeeded(Resolved(seen), prior)
  PROVE  ~ChangedByApply
<1>1. /\ server.attrs = config.attrs /\ plan.attrs = config.attrs /\ seen \in Records
      /\ \A s \in Secrets : Satisfied(s) /\ seen.secret[s] = server.secret[s]
      /\ seen = server
  BY AtDeploy
<1>2. Handling /\ Applying
  BY DeployParts
<1>3. /\ \A g \in DeployGroups : Resolved(seen).attrs[g] = prior.attrs[g]
      /\ \A s \in Secrets : /\ Resolved(seen).secret[s] = prior.secret[s]
                            /\ Resolved(seen).version[s] = prior.version[s]
  BY DEF deployNeeded
<1>4. /\ Resolved(seen).version = config.version
      /\ \A g \in Groups : Resolved(seen).attrs[g] = IF g = "image" THEN seen.attrs[g]
                                                                    ELSE plan.attrs[g]
      /\ \A s \in Secrets : Resolved(seen).secret[s] = IF s \notin Computed THEN plan.secret[s]
                                                       ELSE IF s \in Companions THEN Null
                                                       ELSE seen.secret[s]
  BY <1>1, <1>2, ResolvedParts
<1>5. /\ plan.version = config.version
      /\ \A s \in Secrets : plan.secret[s] = PlannedSecret(s)
  BY <1>2, PlannedParts
<1>6. \A g \in DeployGroups : plan.attrs[g] = prior.attrs[g]
  BY <1>1, <1>3, <1>4 DEF DeployGroups
<1>7. \A s \in Secrets : plan.version[s] = prior.version[s]
  BY <1>3, <1>4, <1>5
<1>8. \A s \in Secrets : plan.secret[s] \in {Unknown, prior.secret[s]}
  <2> SUFFICES ASSUME NEW s \in Secrets PROVE plan.secret[s] \in {Unknown, prior.secret[s]}
    OBVIOUS
  <2>1. CASE s \notin Computed
    BY <1>3, <1>4, <2>1
  <2>2. CASE s \in Computed
    <3>1. CASE s \in Companions
      BY <1>3, <1>4, <1>5, <2>2, <3>1 DEF PlannedSecret, Companions
    <3>2. CASE s \notin Companions
      <4>1. seen.secret[s] = prior.secret[s]
        BY <1>3, <1>4, <2>2, <3>2
      <4>2. config.form[s] = "plain" => plan.secret[s] = server.secret[s]
        BY <1>1, <1>5 DEF PlannedSecret, Satisfied
      <4>3. config.form[s] # "plain" => plan.secret[s] \in {Unknown, prior.secret[s]}
        BY <1>5, <2>2, <3>2 DEF PlannedSecret
      <4> QED
        BY <1>1, <4>1, <4>2, <4>3
    <3> QED
      BY <3>1, <3>2
  <2> QED
    BY <2>1, <2>2
<1> QED
  BY <1>6, <1>7, <1>8 DEF ChangedByApply, Creating

LEMMA DeployedStep ==
  ASSUME OurServices, Versioned, BaseInv, KeptInv, ConvergeInv, AppliedChangeIsDeployed,
         [Next]_vars
  PROVE  AppliedChangeIsDeployed'
<1> SUFFICES ASSUME Applied', ChangedByApply', plan' # Absent, plan'.auto
             PROVE  /\ deployed' # Absent /\ deployed'.secret = server'.secret
                    /\ \A g \in DeployGroups' : deployed'.attrs[g] = server'.attrs[g]
  BY DEF AppliedChangeIsDeployed
<1>1. CASE Finish /\ ~meddled
  <2>1. /\ kind' = kind /\ server' = server /\ plan' = plan /\ prior' = prior /\ pc = "deploy"
        /\ IF Deploys THEN server # Absent /\ deployed' = server ELSE deployed' = deployed
    BY <1>1 DEF Finish
  <2>2. CASE Deploys
    BY <2>1, <2>2
  <2>3. CASE ~Deploys
    <3>1. plan.auto
      BY <2>1, Zenon
    <3>2. ~Creating /\ ~deployNeeded(Resolved(seen), prior)
      BY <2>3, <3>1, Zenon DEF Deploys
    <3>3. ~ChangedByApply
      BY <1>1, <2>1, <3>2, NothingToDeploy
    <3>4. ChangedByApply' <=> ChangedByApply
      BY <2>1, SameKind DEF ChangedByApply, DeployGroups
    <3> QED
      BY <3>3, <3>4
  <2> QED
    BY <2>2, <2>3
<1>2. CASE Shortcut
  <2>1. /\ kind' = kind /\ plan' = plan /\ prior' = prior /\ pc = "move"
        /\ plan.attrs = prior.attrs /\ plan.secret = prior.secret /\ plan.version = prior.version
    BY <1>2 DEF Shortcut, OnlyProviderAttributesChanged
  <2>2. ~Creating
    <3>1. Handling /\ kind \in Kinds
      BY <2>1 DEF Handling, Writes, BaseInv, TypeOK, PlaceTypes
    <3> QED
      BY <2>1, <3>1, LaterParts DEF BaseInv, PlanInv
  <2> QED
    BY <2>1, <2>2 DEF ChangedByApply, Creating
<1>3. CASE Plan /\ pc' = "idle"
  <2>1. kind.flow.updates[1] # "idle"
    BY StartsWithMove DEF BaseInv, TypeOK, PlaceTypes
  <2>2. state # Absent /\ prior' = state /\ plan' = state
    BY <1>3, <2>1 DEF Plan
  <2> QED
    BY <2>2 DEF ChangedByApply
<1>4. CASE UNCHANGED vars
  <2>1. /\ kind' = kind /\ server' = server /\ plan' = plan /\ prior' = prior /\ pc' = pc
        /\ result' = result /\ deployed' = deployed
    BY <1>4 DEF vars
  <2>2. Applied /\ ChangedByApply /\ plan.auto /\ DeployGroups' = DeployGroups
    <3>1. meddled' = meddled
      BY <1>4, Zenon DEF vars
    <3>2. Applied
      BY <2>1, <3>1, Zenon DEF Applied
    <3>3. ChangedByApply /\ DeployGroups' = DeployGroups
      BY <2>1, SameKind DEF ChangedByApply, DeployGroups
    <3>4. plan.auto
      BY <2>1, Zenon
    <3> QED
      BY <3>2, <3>3, <3>4
  <2>3. plan # Absent
    BY <2>1
  <2> QED
    BY <2>1, <2>2, <2>3 DEF AppliedChangeIsDeployed
<1> QED
  BY <1>1, <1>2, <1>3, <1>4, EndsWell

LEMMA ConvergeInit == Init => ConvergeInv /\ ApplyConverges /\ AppliedChangeIsDeployed
<1> SUFFICES ASSUME Init PROVE ConvergeInv /\ ApplyConverges /\ AppliedChangeIsDeployed
  OBVIOUS
<1>1. state = Absent /\ pc = "idle" /\ result = "none"
  BY DEF Init
<1> QED
  BY <1>1 DEF ConvergeInv, SavedInv, FlagsInv, SentInv, SatisfiedInv, ApplyConverges,
              AppliedChangeIsDeployed, Applied, Handling, Writes, Reads

LEMMA ConvergeStep ==
  ASSUME OurServices, Versioned, BaseInv, BaseInv', KeptInv, ConvergeInv, [Next]_vars
  PROVE  ConvergeInv'
BY SavedStep, FlagsStep, SentStep, SatisfiedStep DEF ConvergeInv

LEMMA ConvergeHolds ==
  ASSUME OurServices, Versioned
  PROVE  Spec => [](BaseInv /\ KeptInv /\ ConvergeInv)
<1>1. Init => KeptInv /\ ConvergeInv
  BY ConvergeInit DEF Init, KeptInv, FreshInv, GivenInv, RefreshedInv, Handling, Writes, Reads
<1>2. BaseInv /\ BaseInv' /\ KeptInv /\ ConvergeInv /\ [Next]_vars => KeptInv' /\ ConvergeInv'
  BY KeptStep, ConvergeStep
<1> QED
  BY <1>1, <1>2, BaseHolds, PTL DEF Spec

\* An apply that ends well has brought the service to its configuration,
\* secrets included, for the services of ServiceKinds, when an edit of a
\* companion comes with a new version.
THEOREM Converges ==
  ASSUME OurServices, Versioned
  PROVE  Spec => []ApplyConverges
<1>1. Init => ApplyConverges
  BY ConvergeInit
<1>2. BaseInv /\ KeptInv /\ ConvergeInv /\ ApplyConverges /\ [Next]_vars => ApplyConverges'
  BY ConvergesStep
<1> QED
  BY <1>1, <1>2, ConvergeHolds, PTL DEF Spec

\* An apply that ends well has deployed what it has changed.
THEOREM Deployed ==
  ASSUME OurServices, Versioned
  PROVE  Spec => []AppliedChangeIsDeployed
<1>1. Init => AppliedChangeIsDeployed
  BY ConvergeInit
<1>2. BaseInv /\ KeptInv /\ ConvergeInv /\ AppliedChangeIsDeployed /\ [Next]_vars
        => AppliedChangeIsDeployed'
  BY DeployedStep
<1> QED
  BY <1>1, <1>2, ConvergeHolds, PTL DEF Spec

-----------------------------------------------------------------------------
(* What the server accepts. *)

\* Only libsql has nodes: three ports, which neither a create nor an update
\* carries, and a node that the update does.
LEMMA ReplicaParts ==
  ASSUME OurServices, kind \in Kinds, "node" \in Groups
  PROVE  /\ kind.flow = LibsqlFlow
         /\ Ports = {"port", "admin", "grpc"}
         /\ Ports \cap (kind.wire.made \cup kind.wire.updated) = {}
<1> DEFINE Good(k) == "node" \in k.schema.groups =>
             /\ k.flow = LibsqlFlow
             /\ {"port", "admin", "grpc"} \subseteq k.schema.groups
             /\ {"port", "admin", "grpc"} \cap (k.wire.made \cup k.wire.updated) = {}
<1>1. Good(PostgresKind)
  BY DEF PostgresKind, Kind, Schema, EngineGroups
<1>2. Good(MysqlKind)
  BY DEF MysqlKind, Kind, Schema, EngineGroups
<1>3. Good(MariadbKind)
  BY DEF MariadbKind, Kind, Schema, EngineGroups
<1>4. Good(MongoKind)
  BY DEF MongoKind, Kind, Schema, EngineGroups
<1>5. Good(RedisKind)
  BY DEF RedisKind, Kind, Schema, EngineGroups
<1>6. Good(LibsqlKind)
  BY DEF LibsqlKind, LibsqlWire, Kind, Wire, Schema
<1>7. Good(ComposeKind)
  BY DEF ComposeKind, Kind, Schema
<1>8. \A k \in AllServices : Good(k)
  BY <1>1, <1>2, <1>3, <1>4, <1>5, <1>6, <1>7 DEF AllServices
<1> HIDE DEF Good
<1>9. Good(kind)
  BY <1>8 DEF OurServices
<1> QED
  BY <1>9 DEF Good, Groups, Ports

\* An update sends the ports that go first before the node, and the others
\* after it.
LEMMA ReplicaOrder ==
  ASSUME OurServices, BaseInv, "node" \in Groups, Handling
  PROVE  /\ pc \in {"early", "earlyRest"} => ~Creating /\ "update" \in Later
         /\ pc = "update" => {"early", "earlyRest"} \cap Later = {}
         /\ pc \in {"ports", "portsRest"} => "update" \notin Later
<1>1. kind \in Kinds /\ kind.flow = LibsqlFlow /\ pc \in {Steps[i] : i \in DOMAIN Steps}
  BY ReplicaParts DEF BaseInv, TypeOK, PlaceTypes, PlanInv
<1> DEFINE p == PositionOf(pc)
<1>2. p \in DOMAIN Steps /\ Steps[p] = pc
  BY <1>1 DEF PositionOf
<1>3. Later = {Steps[i] : i \in p .. Len(Steps)}
  BY DEF Later
<1> HIDE DEF p
<1>4. CASE Creating
  <2>1. Steps = LibsqlFlow.creates
    BY <1>1, <1>4 DEF Steps
  <2>2. pc \notin {"early", "earlyRest"} /\ {"early", "earlyRest"} \cap Later = {}
    BY <1>2, <1>3, <2>1, LibsqlSteps
  <2>3. pc \in {"ports", "portsRest"} => p \in 4 .. 5
    BY <1>2, <2>1, LibsqlSteps
  <2> QED
    BY <1>3, <2>1, <2>2, <2>3, LibsqlSteps
<1>5. CASE ~Creating
  <2>1. Steps = LibsqlFlow.updates
    BY <1>1, <1>5 DEF Steps
  <2>2. /\ pc \in {"early", "earlyRest"} => p \in 2 .. 3
        /\ pc = "update" => p = 4
        /\ pc \in {"ports", "portsRest"} => p \in 6 .. 7
    BY <1>2, <2>1, LibsqlSteps
  <2> QED
    BY <1>3, <1>5, <2>1, <2>2, LibsqlSteps
<1> QED
  BY <1>4, <1>5

\* What a call carries of the node and of the ports.
LEMMA ReplicaCarried ==
  ASSUME OurServices, kind \in Kinds, "node" \in Groups, NEW step \in Writes
  PROVE  /\ step # "update" => "node" \notin Carried(step)
         /\ step \in {"move", "env", "update"} => Ports \cap Carried(step) = {}
<1>1. Ports = {"port", "admin", "grpc"} /\ Ports \cap kind.wire.updated = {}
  BY ReplicaParts
<1>2. PortsChanged \subseteq Ports
  BY DEF PortsChanged
<1> QED
  BY <1>1, <1>2, CarriedParts DEF Writes

\* A call that the server takes, whether its answer is lost or not.
Taken(step) ==
  pc = step /\ Needed(step) /\ server # Absent /\ ~Refused(step) /\ Effect(step)

\* A replica that the update makes has its ports cleared by then.
LEMMA ClearedFirst ==
  ASSUME OurServices, BaseInv, SavedInv, ValidInv, outside = 0, "node" \in Groups,
         pc = "update", plan.attrs["node"] = Other, NEW p \in Ports
  PROVE  server.attrs[p] = First
<1>1. Handling /\ Applying /\ ~meddled /\ kind \in Kinds
  BY DEF Handling, Applying, Writes, ValidInv, BaseInv, TypeOK, PlaceTypes
<1>2. plan.attrs[p] = First
  BY <1>1, PlannedParts DEF Valid, BaseInv, TypeOK, PlaceTypes
<1>3. server.attrs[p] = plan.attrs[p] \/ (p \in Ahead /\ server.attrs[p] = PriorAttr(p))
  BY <1>1 DEF SavedInv, Ports
<1>4. CASE Creating \/ prior.attrs["node"] = Other
  BY <1>1, <1>2, <1>3, <1>4 DEF PriorAttr, ValidInv, Valid
<1>5. CASE ~Creating /\ prior.attrs["node"] # Other
  <2>1. BecomingReplica
    BY <1>5 DEF BecomingReplica
  <2>2. {"early", "earlyRest"} \cap Later = {}
    BY <1>1, ReplicaOrder
  <2>3. p \in {"port", "admin", "grpc"} /\ p \notin kind.wire.updated
    BY <1>1, ReplicaParts
  <2>4. p \notin Ahead
    <3>1. Later \subseteq Writes \cup Reads \cup {"create", "deploy"}
      BY <1>1, LaterParts DEF BaseInv, PlanInv
    <3>2. Carries("create") = {}
      BY DEF Carries
    <3>3. \A step \in Later : p \notin Carries(step)
      BY <2>1, <2>2, <2>3, <3>1, <3>2, CarriesParts DEF Writes, Reads
    <3> QED
      BY <3>3 DEF Ahead
  <2> QED
    BY <1>2, <1>3, <2>4
<1> QED
  BY <1>4, <1>5

\* No call that the server takes makes a replica with ports.
LEMMA TakenValid ==
  ASSUME OurServices, BaseInv, SavedInv, ValidInv, outside = 0,
         NEW step \in Writes, Taken(step), kind' = kind
  PROVE  server' # Absent => Valid(server.attrs)'
<1>1. Handling /\ kind \in Kinds /\ Groups' = Groups /\ Ports' = Ports
  BY SameKind DEF Taken, Handling, BaseInv, TypeOK, PlaceTypes
<1>2. \A g \in Groups :
        server'.attrs[g] = IF g \in Carried(step) THEN plan.attrs[g] ELSE server.attrs[g]
  BY WriteParts DEF Taken
<1> SUFFICES ASSUME "node" \in Groups, server'.attrs["node"] = Other, NEW p \in Ports
             PROVE  server'.attrs[p] = First
  BY <1>1 DEF Valid
<1>3. p \in Groups
  BY DEF Ports
<1>4. CASE step = "update"
  <2>1. p \notin Carried(step)
    BY <1>1, <1>4, ReplicaCarried
  <2>2. CASE "node" \in Carried(step)
    BY <1>2, <1>3, <1>4, <2>1, <2>2, ClearedFirst DEF Taken
  <2>3. CASE "node" \notin Carried(step)
    BY <1>2, <1>3, <2>1, <2>3 DEF ValidInv, Valid, Taken
  <2> QED
    BY <2>2, <2>3
<1>5. CASE step \in {"move", "env"}
  BY <1>1, <1>2, <1>3, <1>5, ReplicaCarried DEF ValidInv, Valid, Taken
<1>6. CASE step \in {"early", "earlyRest", "ports", "portsRest"}
  <2>1. server.attrs["node"] # Other
    BY <1>6 DEF Taken, Refused
  <2>2. "node" \notin Carried(step)
    BY <1>1, <1>6, ReplicaCarried
  <2> QED
    BY <1>2, <2>1, <2>2
<1> QED
  BY <1>4, <1>5, <1>6 DEF Writes

LEMMA NodeIdle ==
  ASSUME pc' \in {"idle", "plan", "delete", "create"} \/ Creating' \/ meddled'
  PROVE  NodeInv'
BY DEF NodeInv, Handling, Writes, Reads

LEMMA PlanNode ==
  ASSUME OurServices, BaseInv, KeptInv, Plan
  PROVE  NodeInv'
<1>1. /\ kind' = kind /\ server' = server /\ prior' = state /\ pc = "plan"
      /\ meddled' = meddled
  BY DEF Plan
<1> SUFFICES ASSUME state # Absent, ~meddled PROVE NodeInv'
  BY <1>1, NodeIdle DEF Creating
<1>2. server # Absent /\ state.attrs = server.attrs
  BY <1>1 DEF KeptInv, RefreshedInv
<1> QED
  BY <1>1, <1>2 DEF NodeInv

LEMMA CallNode ==
  ASSUME OurServices, BaseInv, NodeInv, NEW step \in Writes \cup Reads,
         \/ step \in Writes /\ Call(step)
         \/ step \in Reads /\ Look(step)
  PROVE  NodeInv'
<1>1. /\ kind' = kind /\ config' = config /\ edits' = edits /\ state' = state
      /\ prior' = prior /\ pc = step /\ pc' = After(pc) /\ plan' = plan
      /\ \/ server' = server
         \/ step \in Writes /\ server # Absent /\ Effect(step)
  BY DEF Call, Look
<1>2. tainted' = tainted /\ meddled' = meddled
  BY Zenon DEF Call, Look
<1>3. /\ Handling /\ Creating' = Creating /\ Groups' = Groups /\ kind \in Kinds
      /\ Later' = Later \ {pc}
  BY <1>1, <1>2, GoesOn, SameKind DEF BaseInv, TypeOK, PlaceTypes
<1> SUFFICES ASSUME ~Creating, ~meddled, "node" \in Groups, "update" \in Later \ {pc}
             PROVE  server' # Absent /\ server'.attrs["node"] = prior.attrs["node"]
  BY <1>1, <1>2, <1>3 DEF NodeInv
<1>4. server # Absent /\ server.attrs["node"] = prior.attrs["node"]
  BY <1>3 DEF NodeInv
<1>5. ASSUME step \in Writes, Effect(step)
      PROVE  server' # Absent /\ server'.attrs["node"] = server.attrs["node"]
  BY <1>1, <1>3, <1>4, <1>5, WriteParts, ReplicaCarried
<1> QED
  BY <1>1, <1>4, <1>5

LEMMA NodeStep ==
  ASSUME OurServices, BaseInv, KeptInv, NodeInv, [Next]_vars
  PROVE  NodeInv'
<1>1. CASE Refresh \/ RefreshFails \/ DeleteFails \/ CreateFails \/ Shortcut \/ Finish
           \/ DeployFails
  BY <1>1, NodeIdle DEF Refresh, RefreshFails, DeleteFails, CreateFails, Shortcut, Finish,
                        DeployFails, Stop
<1>2. CASE Plan
  BY <1>2, PlanNode
<1>3. CASE Delete
  BY <1>3, NodeIdle DEF Delete
<1>4. CASE CreateCall
  <2>1. Creating /\ prior' = prior
    BY <1>4 DEF CreateCall, BaseInv, PlanInv
  <2> QED
    BY <2>1, NodeIdle DEF Creating
<1>5. ASSUME NEW step \in Writes, Call(step) \/ CallFails(step) PROVE NodeInv'
  BY <1>5, CallNode, NodeIdle DEF CallFails, Abort, Stop
<1>6. ASSUME NEW step \in Reads, Look(step) \/ LookFails(step) PROVE NodeInv'
  BY <1>6, CallNode, NodeIdle DEF LookFails, Abort, Stop
<1>7. CASE \/ \E G \in EditSets : EditAttrs(G)
           \/ \E s \in Secrets : \E c \in SecretChoices(s) : EditSecret(s, c)
           \/ EditAuto
  BY <1>7, NodeIdle DEF EditAttrs, EditSecret, EditAuto, Reconfigure
<1>8. CASE \/ \E g \in Groups \cap Disturbed : OutsideChange(g)
           \/ \E s \in Secrets : OutsideSecret(s)
           \/ OutsideDelete
  BY <1>8, OutsideParts, NodeIdle
<1>9. CASE UNCHANGED vars
  <2>1. /\ kind' = kind /\ config' = config /\ plan' = plan /\ prior' = prior /\ pc' = pc
        /\ server' = server
    BY <1>9 DEF vars
  <2>2. meddled' = meddled
    BY <1>9, Zenon DEF vars
  <2>3. Creating' = Creating /\ Handling' = Handling /\ Later' = Later /\ Groups' = Groups
    BY <2>1, SameApply, SameKind DEF Handling, Later, PositionOf
  <2> QED
    BY <2>1, <2>2, <2>3 DEF NodeInv
<1> QED
  BY <1>1, <1>2, <1>3, <1>4, <1>5, <1>6, <1>7, <1>8, <1>9, Zenon
     DEF Next, Terraform, Others

\* What ValidInv says of the record, and of the prior state of an apply.
ValidServer == server # Absent => Valid(server.attrs)
ValidPrior  == (Applying /\ ~Creating) => Valid(prior.attrs)

LEMMA ValidParts ==
  ValidInv <=> (meddled => outside > 0) /\ (outside = 0 => ValidServer /\ ValidPrior)
BY DEF ValidInv, ValidServer, ValidPrior

LEMMA ValidIdle ==
  ASSUME pc' \in {"idle", "plan", "delete", "create"}, pc' = "create" => prior' = Absent
  PROVE  ValidPrior'
BY DEF ValidPrior, Applying, Handling, Creating, Writes, Reads

LEMMA ValidKept ==
  ASSUME kind' = kind,
         server' = server \/ server' = Absent
  PROVE  ValidServer => ValidServer'
<1>1. Groups' = Groups /\ Ports' = Ports
  BY SameKind
<1> QED
  BY <1>1 DEF ValidServer, Valid

\* The steps of Terraform: nobody else has changed the record.
LEMMA TerraformValid ==
  ASSUME OurServices, BaseInv, KeptInv, SavedInv, ValidInv, Terraform, outside = 0
  PROVE  ValidServer' /\ ValidPrior'
<1>0. ~meddled /\ ValidServer /\ ValidPrior /\ kind \in Kinds
  BY ValidParts DEF BaseInv, TypeOK, PlaceTypes
<1>1. CASE Refresh \/ RefreshFails \/ DeleteFails \/ CreateFails \/ Shortcut \/ Finish
           \/ DeployFails
  <2>1. /\ pc' \in {"idle", "plan"} /\ kind' = kind
        /\ server' = server \/ server' = Absent
    BY <1>1 DEF Refresh, RefreshFails, DeleteFails, CreateFails, Shortcut, Finish,
                DeployFails, Stop
  <2> QED
    BY <1>0, <2>1, ValidIdle, ValidKept
<1>2. CASE Plan
  <2>1. kind' = kind /\ server' = server /\ prior' = state /\ pc = "plan"
    BY <1>2 DEF Plan
  <2>2. ValidServer'
    BY <1>0, <2>1, ValidKept
  <2>3. ASSUME state # Absent PROVE Valid(prior.attrs)'
    <3>1. server # Absent /\ state.attrs = server.attrs
      BY <1>0, <2>1, <2>3 DEF KeptInv, RefreshedInv
    <3> QED
      BY <2>1, <2>2, <3>1 DEF ValidServer
  <2> QED
    BY <2>1, <2>2, <2>3 DEF ValidPrior, Creating
<1>3. CASE Delete
  <2>1. kind' = kind /\ server' = Absent /\ prior' = Absent /\ pc' = "create"
    BY <1>3 DEF Delete
  <2> QED
    BY <1>0, <2>1, ValidIdle, ValidKept
<1>4. CASE CreateCall
  <2>1. /\ kind' = kind /\ server' = Made /\ prior' = prior /\ pc = "create"
    BY <1>4 DEF CreateCall
  <2>2. Creating /\ Creating' /\ Applying
    BY <2>1 DEF Applying, Creating, BaseInv, PlanInv
  <2>3. \A g \in Groups : Made.attrs[g] = IF g \in kind.wire.made THEN plan.attrs[g] ELSE First
    BY <2>2, MadeParts
  <2>4. "node" \in Groups => \A p \in Ports : Made.attrs[p] = First
    BY <1>0, <2>3, ReplicaParts DEF Ports
  <2>5. Groups' = Groups /\ Ports' = Ports
    BY <2>1, SameKind
  <2> QED
    BY <2>1, <2>2, <2>4, <2>5 DEF ValidServer, ValidPrior, Valid
<1>5. ASSUME NEW step \in Writes, Call(step) \/ CallFails(step)
      PROVE  ValidServer' /\ ValidPrior'
  <2>1. /\ kind' = kind /\ prior' = prior /\ pc = step
        /\ server' = server \/ Taken(step)
    BY <1>5 DEF Call, CallFails, Taken
  <2>2. ValidServer'
    BY <1>0, <2>1, TakenValid, ValidKept DEF ValidServer
  <2>3. Applying /\ Creating' = Creating /\ Groups' = Groups /\ Ports' = Ports
    BY <2>1, SameKind DEF Applying, Handling, Creating
  <2> QED
    BY <1>0, <2>1, <2>2, <2>3 DEF ValidPrior, Valid
<1>6. ASSUME NEW step \in Reads, Look(step) \/ LookFails(step)
      PROVE  ValidServer' /\ ValidPrior'
  <2>1. kind' = kind /\ prior' = prior /\ pc = step /\ server' = server
    BY <1>6 DEF Look, LookFails
  <2>2. ValidServer'
    BY <1>0, <2>1, ValidKept
  <2>3. Applying /\ Creating' = Creating /\ Groups' = Groups /\ Ports' = Ports
    BY <2>1, SameKind DEF Applying, Handling, Creating
  <2> QED
    BY <1>0, <2>1, <2>2, <2>3 DEF ValidPrior, Valid
<1> QED
  BY <1>1, <1>2, <1>3, <1>4, <1>5, <1>6, Zenon DEF Terraform

\* Terraform changes neither count nor, but for a refresh, the mark.
LEMMA TerraformAside ==
  ASSUME Terraform
  PROVE  outside' = outside /\ (meddled' => meddled)
<1>1. CASE Refresh
  <2>1. outside' = outside /\ ~meddled'
    BY <1>1 DEF Refresh
  <2> QED
    BY <2>1
<1>2. CASE RefreshFails \/ Plan \/ Delete \/ DeleteFails \/ CreateCall \/ CreateFails
           \/ Shortcut \/ Finish \/ DeployFails
  <2>1. outside' = outside
    BY <1>2 DEF RefreshFails, Plan, Delete, DeleteFails, CreateCall, CreateFails, Shortcut,
                Finish, DeployFails
  <2>2. meddled' = meddled
    BY <1>2, Zenon DEF RefreshFails, Plan, Delete, DeleteFails, CreateCall, CreateFails,
                       Shortcut, Finish, DeployFails
  <2> QED
    BY <2>1, <2>2
<1>3. ASSUME NEW step, Call(step) \/ CallFails(step) \/ Look(step) \/ LookFails(step)
      PROVE  outside' = outside /\ (meddled' => meddled)
  <2>1. outside' = outside
    BY <1>3 DEF Call, CallFails, Look, LookFails
  <2>2. meddled' = meddled
    BY <1>3, Zenon DEF Call, CallFails, Look, LookFails
  <2> QED
    BY <2>1, <2>2
<1> QED
  BY <1>1, <1>2, <1>3, Zenon DEF Terraform

LEMMA ValidStep ==
  ASSUME OurServices, BaseInv, KeptInv, SavedInv, ValidInv, [Next]_vars
  PROVE  ValidInv'
<1>1. /\ ValidInv => (meddled => outside > 0) /\ (outside = 0 => ValidServer /\ ValidPrior)
      /\ (meddled' => outside' > 0) /\ (outside' = 0 => ValidServer' /\ ValidPrior')
           => ValidInv'
  BY DEF ValidInv, ValidServer, ValidPrior
<1>2. CASE Terraform
  BY <1>1, <1>2, TerraformAside, TerraformValid
<1>3. CASE \/ \E G \in EditSets : EditAttrs(G)
           \/ \E s \in Secrets : \E c \in SecretChoices(s) : EditSecret(s, c)
           \/ EditAuto
  <2>1. PICK c : Reconfigure(c)
    BY <1>3 DEF EditAttrs, EditSecret, EditAuto
  <2>2. pc' = "idle" /\ kind' = kind /\ server' = server /\ outside' = outside
    BY <2>1 DEF Reconfigure
  <2>3. meddled' = meddled
    BY <2>1, Zenon DEF Reconfigure
  <2> QED
    BY <1>1, <2>2, <2>3, ValidIdle, ValidKept
<1>4. CASE \/ \E g \in Groups \cap Disturbed : OutsideChange(g)
           \/ \E s \in Secrets : OutsideSecret(s)
           \/ OutsideDelete
  <2>1. outside \in Nat /\ outside' = outside + 1
    BY <1>4, OutsideParts, BoundsAssumption
       DEF BaseInv, TypeOK, PlaceTypes, BoundsAssumption
  <2> QED
    BY <1>1, <2>1
<1>5. CASE UNCHANGED vars
  <2>1. /\ kind' = kind /\ prior' = prior /\ pc' = pc /\ server' = server
        /\ outside' = outside
    BY <1>5 DEF vars
  <2>2. meddled' = meddled
    BY <1>5, Zenon DEF vars
  <2>3. /\ Applying' = Applying /\ Creating' = Creating /\ Groups' = Groups
        /\ Ports' = Ports
    BY <2>1, SameKind DEF Applying, Handling, Creating
  <2> QED
    BY <1>1, <2>1, <2>2, <2>3 DEF ValidServer, ValidPrior, Valid
<1> QED
  BY <1>2, <1>3, <1>4, <1>5, Zenon DEF Next, Others

\* As long as nobody else changes the record, the server refuses no call and
\* holds no replica with ports.
LEMMA NothingToRefuse ==
  ASSUME OurServices, BaseInv, SavedInv, NodeInv, ValidInv
  PROVE  NeverRefused
<1> SUFFICES ASSUME outside = 0, NEW step \in Writes, pc = step, Needed(step), Refused(step)
             PROVE  FALSE
  BY ValidParts DEF NeverRefused, ValidServer
<1>1. Handling /\ Applying /\ ~meddled /\ kind \in Kinds
  BY DEF Handling, Applying, ValidInv, BaseInv, TypeOK, PlaceTypes
<1>2. /\ "node" \in Groups /\ step \in {"early", "earlyRest", "ports", "portsRest"}
      /\ \/ server.attrs["node"] = Other
         \/ Carried(step) = Ports /\ \A p \in Ports : plan.attrs[p] = First
  BY DEF Refused
<1>3. Ports = {"port", "admin", "grpc"} /\ "node" \notin Ports
  BY <1>1, <1>2, ReplicaParts
<1>4. ~(Carried(step) = Ports /\ \A p \in Ports : plan.attrs[p] = First)
  BY <1>2, <1>3, CarriedParts DEF FullClear
<1>5. CASE step \in {"early", "earlyRest"}
  <2>1. BecomingReplica
    BY <1>5 DEF Needed
  <2>2. ~Creating /\ "update" \in Later
    BY <1>1, <1>2, <1>5, ReplicaOrder
  <2>3. server.attrs["node"] # Other
    BY <1>1, <1>2, <2>1, <2>2 DEF NodeInv, BecomingReplica
  <2> QED
    BY <1>2, <1>4, <2>3
<1>6. CASE step \in {"ports", "portsRest"}
  <2>1. ~BecomingReplica /\ (PortsChanged # {} \/ FullClear)
    BY <1>6 DEF Needed
  <2>2. PICK p \in Ports : Changed(p)
    BY <1>3, <2>1 DEF FullClear, PortsChanged
  <2>3. "node" \notin Ahead
    <3>1. "update" \notin Later /\ Later \subseteq Writes \cup Reads \cup {"create", "deploy"}
      BY <1>1, <1>2, <1>6, ReplicaOrder, LaterParts DEF BaseInv, PlanInv
    <3>2. Carries("create") = {} /\ "node" \notin FirstPorts /\ "node" \notin OtherPorts
      BY <1>3 DEF Carries, FirstPorts, OtherPorts
    <3>3. ASSUME NEW x \in Later PROVE "node" \notin Carries(x)
      <4>1. x \in {"move", "env", "early", "earlyRest", "ports", "portsRest",
                  "before", "readback", "create", "deploy"}
        BY <3>1 DEF Writes, Reads
      <4>2. CASE x \in {"early", "earlyRest", "ports", "portsRest"}
        <5>1. Carries(x) \in {FirstPorts, OtherPorts, {}}
          BY <4>2, CarriesParts
        <5> QED
          BY <3>2, <5>1
      <4>3. CASE x \in {"move", "env", "before", "readback", "create", "deploy"}
        <5>1. Carries(x) \in {{"place"}, {"env"}, {}}
          BY <4>3, <3>2, CarriesParts
        <5> QED
          BY <5>1
      <4> QED
        BY <4>1, <4>2, <4>3
    <3> QED
      BY <3>3 DEF Ahead
  <2>4. plan.attrs["node"] = Other
    BY <1>1, <1>2, <1>4, <2>3 DEF SavedInv
  <2>5. plan.attrs[p] = First
    BY <1>1, <1>2, <2>4, PlannedParts DEF Valid, BaseInv, TypeOK, PlaceTypes
  <2>6. PriorAttr(p) = First
    BY <1>1, <1>2, <2>1, <2>4 DEF PriorAttr, BecomingReplica, ValidInv, Valid
  <2> QED
    BY <2>2, <2>5, <2>6 DEF Changed
<1> QED
  BY <1>2, <1>5, <1>6

\* While nobody else changes the record, no call of an apply is refused and
\* no replica has ports, whatever fails and however often the operator edits.
THEOREM NothingRefused ==
  ASSUME OurServices
  PROVE  Spec => []NeverRefused
<1>1. Init => KeptInv /\ SavedInv /\ NodeInv /\ ValidInv
  <2> SUFFICES ASSUME Init PROVE KeptInv /\ SavedInv /\ NodeInv /\ ValidInv
    OBVIOUS
  <2>1. pc = "idle" /\ server = Absent /\ ~meddled
    BY DEF Init
  <2> QED
    BY <2>1 DEF KeptInv, FreshInv, GivenInv, RefreshedInv, SavedInv, NodeInv, ValidInv,
                Applying, Handling, Writes, Reads
<1>2. BaseInv /\ BaseInv' /\ KeptInv /\ SavedInv /\ NodeInv /\ ValidInv /\ [Next]_vars
        => KeptInv' /\ SavedInv' /\ NodeInv' /\ ValidInv'
  BY KeptStep, SavedStep, NodeStep, ValidStep
<1>3. BaseInv /\ SavedInv /\ NodeInv /\ ValidInv => NeverRefused
  BY NothingToRefuse
<1> QED
  BY <1>1, <1>2, <1>3, BaseHolds, PTL DEF Spec

-----------------------------------------------------------------------------
(* What a single step may do. *)

LEMMA OnlyConfiguredStep ==
  ASSUME OurServices, BaseInv, Terraform, server # Absent, server' # Absent, pc # "create",
         NEW g \in Groups
  PROVE  server'.attrs[g] \in {server.attrs[g], config.attrs[g]}
<1>1. CASE server' = server
  BY <1>1
<1>2. CASE server' # server
  <2>1. PICK step \in Writes : pc = step /\ Effect(step)
    BY <1>2 DEF Terraform, Refresh, RefreshFails, Plan, Delete, DeleteFails, CreateCall,
                CreateFails, Shortcut, Call, CallFails, Look, LookFails, Finish, DeployFails
  <2>2. server'.attrs[g] = IF g \in Carried(step) THEN plan.attrs[g] ELSE server.attrs[g]
    BY <2>1, WriteParts
  <2>3. plan.attrs = config.attrs
    BY <2>1, PlannedParts DEF Applying, Handling
  <2> QED
    BY <2>2, <2>3
<1> QED
  BY <1>1, <1>2

LEMMA WholeStep ==
  ASSUME OurServices, BaseInv, KeptInv, ConvergeInv, Terraform, ~meddled,
         deployed' \notin {deployed, Absent}
  PROVE  /\ deployed' = server /\ server.attrs = config.attrs
         /\ \A s \in Secrets : Satisfied(s)
<1>1. pc = "deploy" /\ deployed' = server
  BY DEF Terraform, Refresh, RefreshFails, Plan, Delete, DeleteFails, CreateCall,
         CreateFails, Shortcut, Call, CallFails, Look, LookFails, Finish, DeployFails
<1> QED
  BY <1>1, AtDeploy

\* No call of a handler writes an attribute but as configured, whatever failed
\* before it and whoever interferes, for the services of ServiceKinds.
THEOREM OnlyConfiguredWritten ==
  ASSUME OurServices
  PROVE  Spec => OnlyConfigured
<1>1. BaseInv /\ [Next]_vars =>
        [(Terraform /\ server # Absent /\ server' # Absent /\ pc # "create")
           => \A g \in Groups :
                server'.attrs[g] \in {server.attrs[g], config.attrs[g]}]_vars
  BY OnlyConfiguredStep
<1> QED
  BY <1>1, BaseHolds, PTL DEF Spec, OnlyConfigured

\* Every deployment that the provider begins is one of the whole configuration,
\* when an edit of a companion comes with a new version.
THEOREM WholeDeployed ==
  ASSUME OurServices, Versioned
  PROVE  Spec => WholeIsDeployed
<1>1. BaseInv /\ KeptInv /\ ConvergeInv /\ [Next]_vars =>
        [(Terraform /\ ~meddled /\ deployed' \notin {deployed, Absent})
           => /\ deployed' = server /\ server.attrs = config.attrs
              /\ \A s \in Secrets : Satisfied(s)]_vars
  BY WholeStep
<1> QED
  BY <1>1, ConvergeHolds, PTL DEF Spec, WholeIsDeployed
-----------------------------------------------------------------------------
(* The contract with the operator. *)

\* No secret is named like a group of attributes.
LEMMA ServiceNames ==
  ASSUME NEW k \in AllServices
  PROVE  "meta" \in k.schema.groups /\ k.schema.groups \cap k.schema.secrets = {}
<1> DEFINE Apart(m) == "meta" \in m.schema.groups /\ m.schema.groups \cap m.schema.secrets = {}
<1>e. \A m : (m.schema.groups \subseteq EngineGroups \cup {"names"} /\ "meta" \in m.schema.groups
                /\ m.schema.secrets \subseteq {"password", "root"}) => Apart(m)
  BY DEF EngineGroups
<1> HIDE DEF Apart
<1>1. Apart(PostgresKind)
  BY <1>e DEF PostgresKind, Kind, Schema, EngineGroups
<1>2. Apart(MysqlKind)
  BY <1>e DEF MysqlKind, Kind, Schema, EngineGroups
<1>3. Apart(MariadbKind)
  BY <1>e DEF MariadbKind, Kind, Schema, EngineGroups
<1>4. Apart(MongoKind)
  BY <1>e DEF MongoKind, Kind, Schema, EngineGroups
<1>5. Apart(RedisKind)
  BY <1>e DEF RedisKind, Kind, Schema, EngineGroups
<1>6. Apart(LibsqlKind)
  BY DEF Apart, LibsqlKind, Kind, Schema
<1>7. Apart(ComposeKind)
  BY DEF Apart, ComposeKind, Kind, Schema
<1> QED
  BY <1>1, <1>2, <1>3, <1>4, <1>5, <1>6, <1>7 DEF AllServices, Apart

\* The fields of a record are its groups and its secrets.
LEMMA FieldsParts ==
  ASSUME OurServices, kind \in Kinds
  PROVE  /\ FieldsOf(Absent) = <<>>
         /\ \A r : r # Absent =>
              /\ FieldsOf(r) # <<>> /\ DOMAIN FieldsOf(r) = Groups \cup Secrets
              /\ \A g \in Groups : FieldsOf(r)[g] = r.attrs[g]
              /\ \A s \in Secrets : FieldsOf(r)[s] = r.secret[s]
<1>1. "meta" \in Groups /\ Groups \cap Secrets = {}
  BY ServiceNames DEF OurServices, Groups, Secrets
<1>2. ASSUME NEW r, r # Absent
      PROVE  /\ FieldsOf(r) # <<>> /\ DOMAIN FieldsOf(r) = Groups \cup Secrets
             /\ \A g \in Groups : FieldsOf(r)[g] = r.attrs[g]
             /\ \A s \in Secrets : FieldsOf(r)[s] = r.secret[s]
  <2>1. FieldsOf(r) = [k \in Groups \cup Secrets |->
                         IF k \in Groups THEN r.attrs[k] ELSE r.secret[k]]
    BY <1>2 DEF FieldsOf
  <2>2. DOMAIN FieldsOf(r) = Groups \cup Secrets
    BY <2>1
  <2>3. FieldsOf(r) # <<>>
    <3>1. DOMAIN <<>> = {}
      OBVIOUS
    <3> QED
      BY <1>1, <2>2, <3>1
  <2> QED
    BY <1>1, <2>1, <2>2, <2>3
<1> QED
  BY <1>2 DEF FieldsOf

LEMMA FieldsNext ==
  ASSUME kind' = kind
  PROVE  FieldsOf(server)' = FieldsOf(server') /\ FieldsOf(deployed)' = FieldsOf(deployed')
BY SameKind DEF FieldsOf

\* What is wanted of them is what is configured.
LEMMA WantedParts ==
  ASSUME OurServices, kind \in Kinds
  PROVE  /\ Told \subseteq Secrets /\ DOMAIN Wanted.value = Groups \cup Told
         /\ \A g \in Groups : Wanted.value[g] = config.attrs[g]
         /\ \A s \in Told : Wanted.value[s] = config.secret[s]
         /\ Wanted.hidden = Companions /\ Wanted.resent = Computed
<1>1. Groups \cap Secrets = {}
  BY ServiceNames DEF OurServices, Groups, Secrets
<1>2. Wanted.value = [k \in Groups \cup Told |->
                        IF k \in Groups THEN config.attrs[k] ELSE config.secret[k]]
  BY DEF Wanted
<1>3. Told \subseteq Secrets
  BY DEF Told
<1>4. Wanted.hidden = Companions /\ Wanted.resent = Computed
  BY DEF Wanted
<1> QED
  BY <1>1, <1>2, <1>3, <1>4

LEMMA WantedNext ==
  ASSUME kind' = kind, config' = config
  PROVE  Wanted' = Wanted
BY SameKind DEF Wanted, Told, Companions

\* A service in which everything is as configured meets the contract.
LEMMA MeetsParts ==
  ASSUME OurServices, BaseInv, server # Absent, server.attrs = config.attrs,
         \A s \in Secrets : Satisfied(s)
  PROVE  Contract!Meets
<1>1. kind \in Kinds
  BY DEF BaseInv, TypeOK, PlaceTypes
<1>2. ASSUME NEW s \in Told
      PROVE  \/ server.secret[s] = config.secret[s]
             \/ s \in Companions /\ server.secret[s] = Theirs
  BY <1>2, ConfigParts DEF BaseInv, Told, Satisfied
<1>3. \A k \in DOMAIN Wanted.value :
        \/ FieldsOf(server)[k] = Wanted.value[k]
        \/ k \in Wanted.hidden /\ FieldsOf(server)[k] = Theirs
  BY <1>1, <1>2, FieldsParts, WantedParts
<1> QED
  BY <1>1, <1>3, FieldsParts DEF Contract!Meets

\* A call changes what it changes to what is wanted of it, but that an update
\* sends again the secrets it has read, which somebody else may have changed.
LEMMA WritesWanted ==
  ASSUME OurServices, BaseInv, KeptInv, NEW step \in Writes, pc = step,
         server # Absent, Effect(step)
  PROVE  /\ server' # Absent
         /\ \A k \in Groups \cup Secrets :
              \/ FieldsOf(server')[k] = FieldsOf(server)[k]
              \/ k \in DOMAIN Wanted.value /\ FieldsOf(server')[k] = Wanted.value[k]
              \/ k \in Wanted.resent /\ meddled
<1>1. kind \in Kinds /\ Handling /\ Applying
  BY DEF BaseInv, TypeOK, PlaceTypes, Handling, Applying
<1>2. /\ server' \in Records /\ server' # Absent
      /\ \A g \in Groups :
           server'.attrs[g] = IF g \in Carried(step) THEN plan.attrs[g] ELSE server.attrs[g]
      /\ \A s \in Secrets :
           server'.secret[s] = IF step = "update" THEN StoredSecret(s) ELSE server.secret[s]
  BY WriteParts
<1>3. plan.attrs = config.attrs
  BY <1>1, PlannedParts
<1>4. ASSUME NEW s \in Secrets, step = "update", server'.secret[s] # server.secret[s]
      PROVE  \/ s \in Told /\ server'.secret[s] = config.secret[s]
             \/ s \in Computed /\ meddled
  <2>1. server'.secret[s] = StoredSecret(s) /\ StoredSecret(s) \in SomeSecret
    BY <1>2, <1>4, StoredParts
  <2>2. CASE ~meddled
    <3>1. server'.secret[s] = config.secret[s]
      BY <1>4, <2>1, <2>2, UpdateKeeps DEF KeptInv
    <3>2. config.secret[s] # Null
      BY <2>1, <3>1, ValueParts
    <3> QED
      BY <3>1, <3>2, ConfigParts DEF BaseInv, Told
  <2>3. CASE Source(s) = "config"
    BY <2>1, <2>3, <1>4, StoredParts DEF Told
  <2>4. CASE Source(s) = "server"
    BY <2>1, <2>4, <1>4, StoredParts
  <2>5. CASE meddled /\ Source(s) = "seen"
    BY <2>5, <1>4, StoredParts
  <2>6. CASE meddled /\ Source(s) = "prior"
    <3>1. config.form[s] \notin {"plain", "companion"}
      BY <2>6 DEF Source
    <3> QED
      BY <2>6, <3>1, ConfigParts, ValueParts DEF BaseInv
  <2> QED
    BY <1>4, <2>2, <2>3, <2>4, <2>5, <2>6, StoredParts
<1>5. \A g \in Groups : \/ FieldsOf(server')[g] = FieldsOf(server)[g]
                        \/ FieldsOf(server')[g] = Wanted.value[g]
  BY <1>1, <1>2, <1>3, FieldsParts, WantedParts
<1>6. \A s \in Secrets : \/ FieldsOf(server')[s] = FieldsOf(server)[s]
                         \/ s \in Told /\ FieldsOf(server')[s] = Wanted.value[s]
                         \/ s \in Computed /\ meddled
  BY <1>1, <1>2, <1>4, FieldsParts, WantedParts
<1> QED
  BY <1>1, <1>2, <1>5, <1>6, WantedParts

\* A step that leaves the service and its configuration alone changes neither
\* what is wanted nor what a record is.
LEMMA ContractSame ==
  ASSUME OurServices, BaseInv, [Next]_vars
  PROVE  /\ kind' = kind /\ kind \in Kinds /\ result # "running"
         /\ FieldsOf(server)' = FieldsOf(server')
         /\ FieldsOf(deployed)' = FieldsOf(deployed')
         /\ config' = config => Wanted' = Wanted
<1>1. kind' = kind
  BY EditParts, OutsideParts
     DEF Next, Terraform, Others, vars, Refresh, RefreshFails, Plan, Delete, DeleteFails,
         CreateCall, CreateFails, Shortcut, Call, CallFails, Look, LookFails, Finish,
         DeployFails
<1> QED
  BY <1>1, FieldsNext, WantedNext DEF BaseInv, TypeOK, PlaceTypes

\* Where an apply ends well, the contract is met.
LEMMA EndMeets ==
  ASSUME OurServices, BaseInv, ApplyConverges', kind' = kind, config' = config,
         server' = server, pc' = "idle", result' = "ok", ~meddled, meddled' = meddled
  PROVE  Contract!Meets
<1>1. Applied'
  BY Zenon DEF Applied
<1>2. Secrets' = Secrets /\ \A s : Satisfied(s)' <=> Satisfied(s)
  BY SameKind DEF Satisfied
<1>3. server # Absent /\ server.attrs = config.attrs /\ \A s \in Secrets : Satisfied(s)
  BY <1>1, <1>2 DEF ApplyConverges
<1> QED
  BY <1>3, MeetsParts

LEMMA OrphanStep ==
  ASSUME OurServices, BaseInv, OrphanInv, [Next]_vars
  PROVE  OrphanInv'
<1>0. kind \in Kinds
  BY DEF BaseInv, TypeOK, PlaceTypes
<1>1. CASE Refresh \/ RefreshFails \/ Delete \/ DeleteFails \/ CreateFails
  <2>1. state' = Absent => server' = Absent \/ (server' = server /\ state = Absent)
    BY <1>1, FlattenedParts DEF Refresh, RefreshFails, Delete, DeleteFails, CreateFails
  <2>2. ~Handling
    BY <1>1 DEF Refresh, RefreshFails, Delete, DeleteFails, CreateFails, Handling, Writes, Reads
  <2> QED
    BY <2>1, <2>2 DEF OrphanInv
<1>8. CASE Plan \/ UNCHANGED vars
  <2>1. state' = state /\ server' = server /\ (Handling => Handling')
    BY <1>8 DEF Plan, vars, Handling, Writes, Reads
  <2> QED
    BY <2>1 DEF OrphanInv
<1>2. CASE CreateCall
  <2>1. pc = "create" /\ pc' = After("create") /\ prior' = prior /\ kind' = kind
    BY <1>2 DEF CreateCall
  <2>2. Applying /\ Creating /\ Creating' /\ kind \in Kinds
    BY <2>1 DEF Applying, Creating, BaseInv, PlanInv, TypeOK, PlaceTypes
  <2> QED
    BY <2>1, <2>2, SecondCall DEF OrphanInv
<1>3. CASE Shortcut \/ Finish \/ DeployFails
  <2>1. /\ Handling
        /\ \/ state' = plan
           \/ \E record \in Records : state' = Resolved(record)
    BY <1>3, DeployParts DEF Shortcut, Finish, DeployFails, Handling, Writes, Deploys,
                             BaseInv, TypeOK, RecordTypes
  <2>2. plan # Absent
    BY <1>0, <2>1, PlannedParts, AbsentParts DEF Applying
  <2>3. state' # Absent
    BY <1>0, <2>1, <2>2, ResolvedStorable, AbsentParts DEF Storable
  <2> QED
    BY <2>3 DEF OrphanInv
<1>4. ASSUME NEW step \in Writes \cup Reads,
             \/ step \in Writes /\ Call(step)
             \/ step \in Reads /\ Look(step)
      PROVE  OrphanInv'
  <2>1. /\ kind' = kind /\ config' = config /\ edits' = edits /\ state' = state
        /\ prior' = prior /\ pc = step /\ pc' = After(pc) /\ plan' = plan
    BY <1>4 DEF Call, Look
  <2>2. tainted' = tainted
    BY <1>4, Zenon DEF Call, Look
  <2>3. Handling'
    BY <1>4, <2>1, <2>2, GoesOn
  <2> QED
    BY <2>3 DEF OrphanInv
<1>5. ASSUME NEW step \in Writes \cup Reads,
             \/ step \in Writes /\ CallFails(step)
             \/ step \in Reads /\ LookFails(step)
      PROVE  OrphanInv'
  <2>1. Handling /\ Abort
    BY <1>5 DEF CallFails, LookFails, Handling
  <2>2. state = prior
    BY <2>1 DEF BaseInv, PlanInv, Applying
  <2>3. state' # Absent
    BY <1>0, <2>1, <2>2, AbortParts, AbsentParts DEF Storable, Creating
  <2> QED
    BY <2>3 DEF OrphanInv
<1>6. CASE \/ \E G \in EditSets : EditAttrs(G)
           \/ \E s \in Secrets : \E c \in SecretChoices(s) : EditSecret(s, c)
           \/ EditAuto
  BY <1>6 DEF EditAttrs, EditSecret, EditAuto, Reconfigure, OrphanInv, Handling
<1>7. CASE \/ \E g \in Groups \cap Disturbed : OutsideChange(g)
           \/ \E s \in Secrets : OutsideSecret(s)
           \/ OutsideDelete
  <2>1. server # Absent /\ state' = state /\ pc' = pc
    BY <1>7, OutsideParts
  <2> QED
    BY <2>1 DEF OrphanInv, Handling
<1> QED
  BY <1>1, <1>2, <1>3, <1>4, <1>5, <1>6, <1>7, <1>8 DEF Next, Terraform, Others

\* A call is a Write of the contract, or none of its steps.
LEMMA ContractCall ==
  ASSUME OurServices, BaseInv, KeptInv, [Next]_vars, NEW step \in Writes,
         Call(step) \/ CallFails(step)
  PROVE  [Contract!Next]_(Contract!vars)
<1>0. /\ kind' = kind /\ kind \in Kinds /\ result # "running"
      /\ FieldsOf(server)' = FieldsOf(server')
      /\ FieldsOf(deployed)' = FieldsOf(deployed')
      /\ config' = config => Wanted' = Wanted
  BY ContractSame
<1>1. /\ pc = step /\ pc # "idle" /\ config' = config /\ deployed' = deployed
      /\ outside' = outside
      /\ edits' = edits /\ plan' = plan /\ prior' = prior
      /\ server' = server \/ (server # Absent /\ Effect(step))
  BY DEF Call, CallFails, Writes
<1>2. meddled' = meddled
  BY Zenon DEF Call, CallFails
<1>3. Call(step) => pc' # "idle"
  <2> SUFFICES ASSUME Call(step) PROVE pc' # "idle"
    OBVIOUS
  <2>1. pc' = After(pc) /\ state' = state
    BY <1>1 DEF Call
  <2>2. tainted' = tainted
    BY Zenon DEF Call
  <2> QED
    BY <1>0, <1>1, <2>1, <2>2, GoesOn DEF Writes, Reads
<1>4. CallFails(step) => pc' = "idle" /\ result' = "error"
  BY DEF CallFails, Abort, Stop
<1>5. FieldsOf(deployed') = FieldsOf(deployed)
  BY <1>1
<1>6. CASE server' = server
  <2>1. CASE Call(step)
    BY <1>0, <1>1, <1>2, <1>3, <1>5, <1>6, <2>1 DEF Contract!vars
  <2>2. CASE CallFails(step)
    BY <1>0, <1>1, <1>2, <1>4, <1>5, <1>6, <2>2 DEF Contract!Next, Contract!Fail
  <2> QED
    BY <2>1, <2>2
<1>7. CASE server # Absent /\ Effect(step)
  <2>1. /\ server' # Absent
        /\ \A k \in Groups \cup Secrets :
             \/ FieldsOf(server')[k] = FieldsOf(server)[k]
             \/ k \in DOMAIN Wanted.value /\ FieldsOf(server')[k] = Wanted.value[k]
             \/ k \in Wanted.resent /\ meddled
    BY <1>1, <1>7, WritesWanted
  <2>2. /\ FieldsOf(server) # <<>> /\ FieldsOf(server') # <<>>
        /\ DOMAIN FieldsOf(server) = Groups \cup Secrets
        /\ DOMAIN FieldsOf(server') = Groups \cup Secrets
    BY <1>0, <1>7, <2>1, FieldsParts
  <2>3. (IF pc' = "idle" THEN result' ELSE "running") \in {"running", "error"}
    BY <1>3, <1>4
  <2> QED
    BY <1>0, <1>1, <1>2, <1>5, <2>1, <2>2, <2>3 DEF Contract!Next, Contract!Write
<1> QED
  BY <1>1, <1>6, <1>7

\* Every step of a handler is one of the contract.
LEMMA ContractStep ==
  ASSUME OurServices, BaseInv, KeptInv, ConvergeInv, OrphanInv, ApplyConverges',
         [Next]_vars
  PROVE  [Contract!Next]_(Contract!vars)
<1> USE DEF Contract!Next, Contract!vars
<1>0. /\ kind' = kind /\ kind \in Kinds /\ result # "running"
      /\ FieldsOf(server)' = FieldsOf(server')
      /\ FieldsOf(deployed)' = FieldsOf(deployed')
      /\ config' = config => Wanted' = Wanted
      /\ FieldsOf(Absent) = <<>> /\ \A r : r # Absent => FieldsOf(r) # <<>>
  BY ContractSame, FieldsParts
<1>1. CASE Refresh
  <2>1. meddled' = FALSE
    BY <1>1, Zenon DEF Refresh
  <2> QED
    BY <1>0, <1>1, <2>1 DEF Refresh, Contract!Begin
<1>2. CASE \/ RefreshFails \/ CreateFails
           \/ \E step \in Reads : LookFails(step)
  <2>1. meddled' = meddled
    BY <1>2, Zenon DEF RefreshFails, CreateFails, LookFails
  <2> QED
    BY <1>0, <1>2, <2>1 DEF RefreshFails, CreateFails, LookFails, Abort, Stop, Contract!Fail
<1>3. CASE Plan \/ Shortcut
  <2>1. /\ pc # "idle" /\ server' = server /\ deployed' = deployed /\ config' = config
        /\ outside' = outside
        /\ (pc' = "idle" /\ result' = "ok") \/ pc' # "idle"
    <3>1. kind.flow.updates[1] # "idle"
      BY <1>0, StartsWithMove
    <3> QED
      BY <1>3, <3>1 DEF Plan, Shortcut, Stop
  <2>2. meddled' = meddled
    BY <1>3, Zenon DEF Plan, Shortcut
  <2>3. CASE pc' = "idle" /\ result' = "ok"
    <3>1. meddled \/ Contract!Meets
      BY <1>0, <2>1, <2>2, <2>3, EndMeets
    <3> QED
      BY <1>0, <2>1, <2>2, <2>3, <3>1 DEF Contract!Succeed
  <2>4. CASE pc' # "idle"
    BY <1>0, <2>1, <2>2, <2>4
  <2> QED
    BY <2>1, <2>3, <2>4
<1>4. CASE Delete
  <2>1. meddled' = meddled
    BY <1>4, Zenon DEF Delete
  <2> QED
    BY <1>0, <1>4, <2>1 DEF Delete, Contract!Remove
<1>5. CASE DeleteFails
  <2>1. meddled' = meddled
    BY <1>5, Zenon DEF DeleteFails
  <2>2. /\ pc # "idle" /\ pc' = "idle" /\ result' = "error" /\ config' = config
        /\ outside' = outside
        /\ \/ server' = Absent /\ deployed' = Absent
           \/ server' = server /\ deployed' = deployed
    BY <1>5 DEF DeleteFails, Stop
  <2>3. CASE server' = Absent /\ deployed' = Absent
    BY <1>0, <2>1, <2>2, <2>3 DEF Contract!Remove
  <2>4. CASE server' = server /\ deployed' = deployed
    BY <1>0, <2>1, <2>2, <2>4 DEF Contract!Fail
  <2> QED
    BY <2>2, <2>3, <2>4
<1>6. CASE CreateCall
  <2>1. /\ pc = "create" /\ pc' = After("create") /\ prior' = prior /\ config' = config
        /\ server' = Made /\ deployed' = Absent /\ outside' = outside
    BY <1>6 DEF CreateCall
  <2>2. meddled' = meddled
    BY <1>6, Zenon DEF CreateCall
  <2>3. Applying /\ Creating /\ Creating'
    BY <2>1 DEF Applying, Creating, BaseInv, PlanInv
  <2>4. pc' # "idle"
    BY <1>0, <2>1, <2>3, SecondCall DEF Handling, Writes, Reads
  <2>5. server' # Absent
    BY <1>0, <2>1, <2>3, MadeParts, AbsentParts
  <2>6. server = Absent
    BY <2>1 DEF OrphanInv, Handling, Applying, Writes, Reads, Creating, BaseInv, PlanInv
  <2> QED
    BY <1>0, <2>1, <2>2, <2>4, <2>5, <2>6 DEF Contract!Create
<1>7. CASE \E step \in Writes : Call(step) \/ CallFails(step)
  BY <1>7, ContractCall
<1>8. CASE \E step \in Reads : Look(step)
  <2>1. PICK step \in Reads : Look(step)
    BY <1>8
  <2>2. /\ pc = step /\ pc # "idle" /\ pc' = After(pc) /\ config' = config
        /\ edits' = edits /\ plan' = plan /\ prior' = prior /\ state' = state
        /\ server' = server /\ deployed' = deployed /\ outside' = outside
    BY <2>1 DEF Look, Reads
  <2>3. meddled' = meddled /\ tainted' = tainted
    BY <2>1, Zenon DEF Look
  <2>4. pc' # "idle"
    BY <1>0, <2>2, <2>3, GoesOn DEF Writes, Reads
  <2> QED
    BY <1>0, <2>2, <2>3, <2>4
<1>9. CASE Finish \/ DeployFails
  <2>1. /\ pc = "deploy" /\ pc' = "idle" /\ result' \in {"ok", "error"}
        /\ config' = config /\ server' = server /\ outside' = outside
        /\ deployed' = deployed \/ deployed' = server
    BY <1>9 DEF Finish, DeployFails, Stop
  <2>2. meddled' = meddled
    BY <1>9, Zenon DEF Finish, DeployFails
  <2>3. meddled \/ Contract!Meets
    BY <2>1, AtDeploy, MeetsParts
  <2>4. CASE deployed' = server
    BY <1>0, <2>1, <2>2, <2>3, <2>4 DEF Contract!Deploy
  <2>5. CASE deployed' = deployed
    BY <1>0, <2>1, <2>2, <2>3, <2>5 DEF Contract!Succeed, Contract!Fail
  <2> QED
    BY <2>1, <2>4, <2>5
<1>10. CASE \/ \E G \in EditSets : EditAttrs(G)
            \/ \E s \in Secrets : \E c \in SecretChoices(s) : EditSecret(s, c)
            \/ EditAuto
  <2>1. /\ pc = "idle" /\ pc' = "idle" /\ result' = "none"
        /\ server' = server /\ deployed' = deployed /\ outside' = outside
    BY <1>10 DEF EditAttrs, EditSecret, EditAuto, Reconfigure
  <2>2. meddled' = meddled
    BY <1>10, Zenon DEF EditAttrs, EditSecret, EditAuto, Reconfigure
  <2> QED
    BY <1>0, <2>1, <2>2 DEF Contract!Ask
<1>11. CASE \/ \E g \in Groups \cap Disturbed : OutsideChange(g)
            \/ \E s \in Secrets : OutsideSecret(s)
            \/ OutsideDelete
  <2>1. meddled' = TRUE
    BY <1>11, Zenon DEF OutsideChange, OutsideSecret, OutsideDelete, Meddle
  <2>2. config' = config /\ pc' = pc /\ result' = result /\ outside' = outside + 1
    BY <1>11, OutsideParts
  <2> QED
    BY <1>0, <2>1, <2>2 DEF Contract!Disturb
<1>12. CASE UNCHANGED vars
  <2>1. meddled' = meddled
    BY <1>12, Zenon DEF vars
  <2> QED
    BY <1>0, <1>12, <2>1 DEF vars
<1> QED
  BY <1>1, <1>2, <1>3, <1>4, <1>5, <1>6, <1>7, <1>8, <1>9, <1>10, <1>11, <1>12
     DEF Next, Terraform, Others

\* The handlers of the services of ServiceKinds implement Reconcile, their
\* secrets included, when an edit of a companion comes with a new version.
THEOREM Implements ==
  ASSUME OurServices, Versioned
  PROVE  Spec => ImplementsReconcile
<1>1. Init => Contract!Init /\ OrphanInv
  <2> SUFFICES ASSUME Init PROVE Contract!Init /\ OrphanInv
    OBVIOUS
  <2>1. kind \in Kinds /\ server = Absent /\ deployed = Absent /\ pc = "idle"
        /\ result = "none" /\ outside = 0
    BY DEF Init
  <2>2. meddled = FALSE
    BY Zenon DEF Init
  <2> QED
    BY <2>1, <2>2, FieldsParts DEF Contract!Init, OrphanInv
<1>2. BaseInv /\ OrphanInv /\ [Next]_vars => OrphanInv'
  BY OrphanStep
<1>3. BaseInv /\ KeptInv /\ ConvergeInv /\ OrphanInv /\ ApplyConverges' /\ [Next]_vars
        => [Contract!Next]_(Contract!vars)
  BY ContractStep
<1> QED
  BY <1>1, <1>2, <1>3, ConvergeHolds, Converges, PTL DEF Spec, ImplementsReconcile, Contract!Spec
=============================================================================
