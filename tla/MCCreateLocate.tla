--------------------------- MODULE MCCreateLocate ---------------------------
(* Instances of CreateLocate: three creates, of two provider processes in  *)
(* one scope, or of one process in two scopes.                             *)
EXTENDS CreateLocate

CONSTANTS t1, t2, t3, p1, p2, s1, s2, x, y

MCThreads == {t1, t2, t3}

\* One process; t1 and t2 create siblings, t3 creates elsewhere.
OneProcess == [t \in MCThreads |-> p1]
TwoScopes == [t \in MCThreads |-> IF t = t3 THEN s2 ELSE s1]

\* Two processes creating in one scope, two of the requests identical.
TwoProcesses == [t \in MCThreads |-> IF t = t3 THEN p2 ELSE p1]
OneScope == [t \in MCThreads |-> s1]
TwoContents == [t \in MCThreads |-> IF t = t1 THEN x ELSE y]
=============================================================================
