----------------------------- MODULE MCService ------------------------------
(* Instances of Service with the services of ServiceKinds.                 *)
EXTENDS Service, ServiceKinds

CONSTANTS p, q

MCPasswords == {p, q}
OnlyMysql == {MysqlKind}
=============================================================================
