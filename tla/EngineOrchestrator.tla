-------------------------- MODULE EngineOrchestrator ------------------------
(***************************************************************************)
(* src/orchestration/EngineOrchestrator.cpp, OrchestratorInit.cpp and      *)
(* BackendCapabilities.h: which backend serves a model, and the engine     *)
(* that create_engine makes for it.  The orchestrator is a singleton       *)
(* under one mutex; its state (backends_, factories_, perf_history_) is    *)
(* passed to the operators as arguments, and the methods that change it    *)
(* return its new value.                                                   *)
(*                                                                         *)
(* A request is [model, quant, arch, bytes, hp, ctx, latency, fallback,    *)
(* forced]; forced = "" for the automatic choice.  Throughputs are in      *)
(* thousandths of tokens per second, as in PerfProfile.                    *)
(***************************************************************************)
EXTENDS MemoryEstimator, FiniteSets

CONSTANTS
    MinRam,         \* min_ram_bytes of the two built-in backends
    CpuQuants,      \* quantizations the CPU engine supports
    VulkanQuants,   \* quantizations the shaders support
    Archs           \* supported_arch of both

\* A backend that lists no quantization would support them all.
ASSUME OrchestratorAssumption == VulkanQuants # {}

CPU == "hydroxl_cpu"
VK == "hydroxl_vulkan"
NoBackend == ""

NoHistory == [b \in {} |-> 0]

CpuBackend ==
    [id |-> CPU, quants |-> CpuQuants, archs |-> Archs, vulkan |-> FALSE,
     min_ram |-> MinRam, throughput |-> 1000, init_ms |-> 2000, priority |-> 10]

VulkanBackendCaps ==
    [id |-> VK, quants |-> VulkanQuants, archs |-> Archs, vulkan |-> TRUE,
     min_ram |-> MinRam, throughput |-> 2500, init_ms |-> 500, priority |-> 20]

\* A backend that is registered again replaces its entry.
register_backend(backends, caps) ==
    IF \E i \in DOMAIN backends : backends[i].id = caps.id
    THEN [i \in DOMAIN backends |-> IF backends[i].id = caps.id THEN caps ELSE backends[i]]
    ELSE Append(backends, caps)

register_default_backends(backends, hw) ==
    LET cpu == register_backend(backends, CpuBackend)
    IN  IF hw.has_vulkan THEN register_backend(cpu, VulkanBackendCaps) ELSE cpu

\* The constructor and reset() install the factories of the two adapters.
BuiltinFactories == {CPU, VK}

-----------------------------------------------------------------------------
\* No backend states a VRAM minimum, so best_gpu() decides nothing here.
is_available(b, hw) ==
    /\ b.vulkan => hw.has_vulkan
    /\ b.min_ram > 0 => available_system_ram(hw) >= b.min_ram

supports_quant(b, quant) == b.quants = {} \/ quant \in b.quants

supports_arch(b, arch) == arch = "" \/ b.archs = {} \/ arch \in b.archs

memory_needed(req) ==
    IF req.hp.layers > 0 /\ req.hp.embd > 0 /\ req.hp.vocab > 0
    THEN estimate(req.hp, req.ctx)
    ELSE (req.bytes * 12) \div 10

HighPressure(req, hw) ==
    LET ram == IF AssumedRam = 0 THEN available_system_ram(hw) ELSE AssumedRam
    IN  ram > 0 /\ memory_needed(req) > (ram * 9) \div 10

\* Video memory that is unknown (0) rejects nobody.
FitsMemory(b, req, hw) ==
    LET vram == best_gpu(hw).vram
    IN  IF b.vulkan THEN vram = 0 \/ vram >= memory_needed(req)
        ELSE available_system_ram(hw) >= memory_needed(req)

\* Mutant: the memory of the device is not looked at.
CandidateBlind(b, req, hw) ==
    /\ is_available(b, hw)
    /\ supports_quant(b, req.quant)
    /\ supports_arch(b, req.arch)

Candidate(b, req, hw) ==
    /\ ~ (HighPressure(req, hw) /\ b.vulkan)
    /\ is_available(b, hw)
    /\ supports_quant(b, req.quant)
    /\ supports_arch(b, req.arch)
    /\ memory_needed(req) > 0 => FitsMemory(b, req, hw)

-----------------------------------------------------------------------------
Observed(b, history) == b.id \in DOMAIN history /\ history[b.id] > 0

\* The factor for free memory in quarters: 1 to 2, half of available / needed.
Headroom(req, hw) ==
    LET need == memory_needed(req)
        free == available_system_ram(hw)
        half == (2 * free) \div need
    IN  IF need = 0 \/ free = 0 THEN 4
        ELSE IF half < 4 THEN 4 ELSE IF half > 8 THEN 8 ELSE half

\* throughput * headroom / (1 + init_cost / 1000) + priority * 0.001.  An
\* observed speed replaces the nominal one.
Score(b, req, hw, history) ==
    LET throughput == IF Observed(b, history) THEN history[b.id] ELSE b.throughput
        cost == 1000 + IF b.init_ms < 50 THEN 50 ELSE b.init_ms
        factor == IF req.latency THEN 2 * cost ELSE cost
    IN  (throughput * Headroom(req, hw) * 250) \div factor + b.priority

\* Candidates in the order of registration, and the one sorted first.
BestCandidate(req, hw, backends, history) ==
    LET Fits(i) == Candidate(backends[i], req, hw)
        S(i) == Score(backends[i], req, hw, history)
        fit == {i \in DOMAIN backends : Fits(i)}
    IN  {i \in fit : \A j \in fit : S(j) <= S(i)}

Result(id, fallback, history) == [backend |-> id, fallback |-> fallback, history |-> history]

\* A forced backend is taken without a look at memory; when it cannot serve, or
\* is not registered, the CPU backend stands in, if the request allows that.
SelectForced(req, hw, backends) ==
    IF \E i \in DOMAIN backends :
           /\ backends[i].id = req.forced
           /\ is_available(backends[i], hw)
           /\ supports_quant(backends[i], req.quant)
           /\ supports_arch(backends[i], req.arch)
    THEN Result(req.forced, FALSE, FALSE)
    ELSE IF req.fallback THEN Result(CPU, TRUE, FALSE)
    ELSE Result(NoBackend, FALSE, FALSE)

\* The first registered backend that needs no GPU, whatever it supports.
SelectFallback(req, backends) ==
    LET host == {i \in DOMAIN backends : backends[i].id = CPU \/ ~ backends[i].vulkan}
    IN  IF req.fallback /\ host # {}
        THEN Result(backends[CHOOSE i \in host : \A j \in host : i <= j].id, TRUE, FALSE)
        ELSE Result(NoBackend, FALSE, FALSE)

\* The results select_backend may return: equal scores may be sorted either way.
select_backend(req, hw, backends, history) ==
    LET best == BestCandidate(req, hw, backends, history)
    IN  IF req.forced # "" THEN {SelectForced(req, hw, backends)}
        ELSE IF best # {}
        THEN {Result(backends[i].id, FALSE, Observed(backends[i], history)) : i \in best}
        ELSE {SelectFallback(req, backends)}

\* The backend whose engine create_engine returns, NoBackend for null; ready is
\* the set of backends whose engine initializes on this model now.
create_engine(sel, req, factories, ready) ==
    LET fallback == /\ req.fallback /\ sel.backend # CPU
                    /\ CPU \in factories /\ CPU \in ready
    IN  IF sel.backend = NoBackend THEN NoBackend
        ELSE IF sel.backend \in factories \cap ready THEN sel.backend
        ELSE IF fallback THEN CPU ELSE NoBackend

\* The best speed ever reported for a backend.
record_performance(history, id, speed) ==
    LET best == IF id \in DOMAIN history /\ history[id] > speed THEN history[id] ELSE speed
    IN  [b \in DOMAIN history \cup {id} |-> IF b = id THEN best ELSE history[b]]
=============================================================================
