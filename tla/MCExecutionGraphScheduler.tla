--------------------- MODULE MCExecutionGraphScheduler ---------------------
(* Every graph over three nodes; two nodes share an accelerator.            *)
EXTENDS ExecutionGraphScheduler, TLC

CONSTANTS CPU, VULKAN

MCResource == (1 :> VULKAN) @@ (2 :> VULKAN) @@ (3 :> CPU)
=============================================================================
