------------------------------ MODULE MCTeardown ------------------------------
(* A server with one workload, a Gateway and up to two pods.                *)
EXTENDS Teardown, TLC

CONSTANTS workload, gateway, p1, p2

OneType == [o \in Objects |->
  CASE o = workload -> "deployments" [] o = gateway -> "gateways" [] OTHER -> PodType]
=============================================================================
