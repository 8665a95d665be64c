--------------------------- MODULE MC_Deployment ---------------------------
(***************************************************************************)
(* A small instance of the deployment.  The orders of the other traders    *)
(* and of the panel are like those of the demo, which makes fewer queues.  *)
(***************************************************************************)
EXTENDS DeploymentProperties

OneQuote == {SubSeq(DemoMakers, 1, 1)}
OneTake == {DemoTakers[2]}
=============================================================================
