---------------------------- MODULE MCDeployWait ----------------------------
(* Bounds for model checking DeployWait: a first deployment and two more, *)
(* with one deployment of somebody else before, between or among them.    *)
EXTENDS DeployWait

MCApplies == 3
MCOutside == 1
=============================================================================
