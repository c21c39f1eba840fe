-------------------------- MODULE MCHeteroAccelSDK --------------------------
(* Two threads with a session each, or sharing one; a machine with a GPU    *)
(* that is large enough, one with a small GPU and one without; a model file *)
(* that states everything and one, of a type the shaders lack, that does    *)
(* not.                                                                     *)
EXTENDS HeteroAccelSDK, TLC

CONSTANTS t1, t2, s1, s2

Hyper == [layers |-> 1, embd |-> 4, heads |-> 2, kv |-> 1, ff |-> 4, vocab |-> 3, ctx |-> 4]

Machine(gpus) == [cpu |-> "Intel", free |-> 8000, vulkan |-> gpus, dxgi |-> <<>>]
Gpu(bytes) == [vendor |-> "Intel", vram |-> bytes, compute |-> TRUE]

MCInventories ==
    {Machine(<<Gpu(6000)>>), Machine(<<Gpu(500), Gpu(900)>>), Machine(<<>>)}

MCModelFiles ==
    {[hash |-> "a", quant |-> "F16", arch |-> "qwen2", bytes |-> 400, ctx |-> 4, hp |-> Hyper],
     [hash |-> "b", quant |-> "Q4_K", arch |-> "", bytes |-> 300, ctx |-> 0,
      hp |-> [Hyper EXCEPT !.ff = 0, !.vocab = 0]]}

MCDefaults == [ctx |-> 8, hp |-> Hyper]

MCSymmetry == Permutations({t1, t2}) \cup Permutations({s1, s2})
=============================================================================
