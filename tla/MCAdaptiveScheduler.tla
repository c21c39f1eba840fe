------------------------- MODULE MCAdaptiveScheduler -------------------------
(* Two of the workers, which are alike; a workload that runs anywhere, one  *)
(* that only the accelerator runs, one that is too large for it.            *)
EXTENDS AdaptiveScheduler, TLC

CONSTANT VULKAN

MCDestroyOrder == <<VULKAN, CPU>>

MCMemory == CPU :> 4 @@ VULKAN :> 2

MCWorkloads ==
    {[callbacks |-> {CPU, VULKAN}, bytes |-> 1], [callbacks |-> {VULKAN}, bytes |-> 0],
     [callbacks |-> {CPU, VULKAN}, bytes |-> 3]}
=============================================================================
