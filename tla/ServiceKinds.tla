---------------------------- MODULE ServiceKinds ----------------------------
(***************************************************************************)
(* The services of the provider as kinds of module Service: what the       *)
(* requests of the client carry (wire), what the schema has (schema) and   *)
(* which calls the handlers make, in which order (flow).                   *)
(***************************************************************************)

\* made     the groups a create request carries
\* updated  the groups an update request carries
\* literal  the secrets whose key an update always carries: "" clears them,
\*          where omitempty drops the key of the others
Wire(made, updated, literal) ==
  [made |-> made, updated |-> updated, literal |-> literal]

\* computed: the server makes up a secret that the configuration leaves out.
Schema(groups, secrets, computed) ==
  [groups |-> groups, secrets |-> secrets, computed |-> computed]

Kind(wire, schema, flow) == [wire |-> wire, schema |-> schema, flow |-> flow]

-----------------------------------------------------------------------------
(* The five database engines share one resource.  Its Create makes the     *)
(* update only for what a create cannot carry, and its Update deploys only *)
(* what a deployment is made of.                                           *)

EngineFlow ==
  [creates |-> <<"create", "env", "ports", "readback", "update", "deploy">>,
   updates |-> <<"move", "before", "update", "env", "ports", "readback", "deploy">>,
   follow |-> "needed", deploys |-> "changed"]

EngineGroups == {"place", "meta", "image", "ops", "env", "port"}
EngineUpdated == {"meta", "image", "ops"}

PostgresWire == Wire({"place", "meta", "image", "names"}, EngineUpdated, {})
PostgresKind == Kind(PostgresWire,
                     Schema(EngineGroups \cup {"names"}, {"password"}, {}), EngineFlow)

MysqlWire == Wire({"place", "meta", "image", "names"}, EngineUpdated, {"root"})
MysqlKind == Kind(MysqlWire,
                  Schema(EngineGroups \cup {"names"}, {"password", "root"}, {"root"}),
                  EngineFlow)

MariadbWire == Wire({"place", "meta", "image", "names"}, EngineUpdated, {"root"})
MariadbKind == Kind(MariadbWire,
                    Schema(EngineGroups \cup {"names"}, {"password", "root"}, {"root"}),
                    EngineFlow)

\* replica_sets travels and deploys with the image.
MongoWire == Wire({"place", "meta", "image", "names"}, EngineUpdated, {})
MongoKind == Kind(MongoWire,
                  Schema(EngineGroups \cup {"names"}, {"password"}, {}), EngineFlow)

RedisWire == Wire({"place", "meta", "image"}, EngineUpdated, {})
RedisKind == Kind(RedisWire, Schema(EngineGroups, {"password"}, {}), EngineFlow)

-----------------------------------------------------------------------------
(* Libsql has three ports and may be a replica, which takes none; libsql   *)
(* and compose deploy after every update that is not about the provider    *)
(* alone.                                                                  *)

LibsqlFlow ==
  [creates |-> <<"create", "update", "env", "ports", "portsRest", "readback", "deploy">>,
   updates |-> <<"move", "early", "earlyRest", "update", "env", "ports",
                 "portsRest", "readback", "deploy">>,
   follow |-> "always", deploys |-> "any"]

LibsqlWire == Wire({"place", "meta", "image", "node"},
                   {"meta", "image", "ops", "node"}, {})
LibsqlKind == Kind(LibsqlWire,
                   Schema({"place", "meta", "image", "ops", "env", "node",
                           "port", "admin", "grpc"}, {"password"}, {}),
                   LibsqlFlow)

ComposeFlow ==
  [creates |-> <<"create", "update", "env", "readback", "deploy">>,
   updates |-> <<"move", "update", "env", "readback", "deploy">>,
   follow |-> "always", deploys |-> "any"]

\* The source block and the flags are out of compose.create's reach.
ComposeWire == Wire({"place", "meta"}, {"meta", "ops"}, {})
ComposeKind == Kind(ComposeWire, Schema({"place", "meta", "ops", "env"}, {}, {}),
                    ComposeFlow)

AllServices == {PostgresKind, MysqlKind, MariadbKind, MongoKind, RedisKind,
                LibsqlKind, ComposeKind}
=============================================================================
