---------------------------- MODULE MCCommandLine ----------------------------
(* Files and machines on both sides of every threshold of the planner: a    *)
(* model that fits, one of which a part fits, one of which less than 15%    *)
(* fits; devices below and above the 1 GB that streaming asks for.          *)
EXTENDS CommandLine, TLC

MCKeyOrder == <<"hydroxl", "llama.cpp">>

MCFiles ==
    {[exists |-> e, size |-> s, meta |-> m, layers |-> l, kv |-> k, vision |-> v] :
        e \in {TRUE}, s \in {2, 7, 40}, m \in {TRUE}, l \in {0, 1, 8}, k \in {0, 3}, v \in {FALSE}}
    \cup {[exists |-> TRUE, size |-> 2, meta |-> TRUE, layers |-> 8, kv |-> 3, vision |-> TRUE]}
    \cup {[exists |-> e, size |-> s, meta |-> FALSE, layers |-> 0, kv |-> 0, vision |-> FALSE] :
        e \in BOOLEAN, s \in {0, 7}}

MCMachines ==
    {[initialized |-> TRUE, ram |-> r, vulkan |-> v, cuda |-> c] :
        r \in {3, 9, 64}, v \in {-1, 0, 3, 9, 64}, c \in BOOLEAN}
    \cup {[initialized |-> FALSE, ram |-> 64, vulkan |-> 64, cuda |-> TRUE]}

llama(backends) == {"TEXT_GENERATION"} \cup backends

MCRegistries ==
    LET both == {"BACKEND_CPU", "BACKEND_VULKAN"} IN
    {<<>>,
     "llama.cpp" :> llama(both),
     "llama.cpp" :> llama(Backends),
     "llama.cpp" :> llama({"BACKEND_CPU"}),
     "llama.cpp" :> llama({"BACKEND_VULKAN"}),
     "llama.cpp" :> NoEngine,
     "hydroxl" :> llama({"BACKEND_CPU"}) @@ "llama.cpp" :> llama(both)}

MCConfigs ==
    LET all == [accelerator |-> TRUE, partial |-> TRUE, streaming |-> TRUE, cpu |-> TRUE] IN
    {all, [x \in DOMAIN all |-> FALSE]} \cup {[all EXCEPT ![x] = FALSE] : x \in DOMAIN all}

\* Every strategy for the accelerator and without it; budgets that one of the
\* two regions of a file of 7 fits, both fit, or none.
MCMadePlans ==
    [viable : {TRUE}, mode : {"VULKAN", "HYBRID"},
     residency : {"FULL_RESIDENT", "PARTIAL_RESIDENT", "HYBRID", "STREAMING", "CPU_FALLBACK"},
     budget : {0, 4, 7}]
    \cup {[viable |-> FALSE, mode |-> "CPU", residency |-> "CPU_FALLBACK", budget |-> 7]}

MCGpuMemories == {-1, 6}

Symmetry == Permutations(Callers)
=============================================================================
