-------------------------- MODULE ExecutionPlanner --------------------------
(***************************************************************************)
(* src/planner/ExecutionPlanner: the placement of a model, decided from    *)
(* its requirements, the capability report, the engine registry and the    *)
(* configuration.  A plan is a decision only; reasons, warnings and        *)
(* confidence, which explain it, and the context limit, which nothing     *)
(* reads, are left out.  The residency and the fallback of a plan that has *)
(* none is "AUTO", its layer budget -1.                                    *)
(***************************************************************************)
EXTENDS CapabilityAnalyzer, Integers, Sequences

CONSTANT KeyOrder       \* the engine keys, ascending

ASSUME KeyOrderAssumption == KeyOrder \in Seq(STRING)

PartialResidentPercent == 15

Modes == {"CPU", "VULKAN", "CUDA", "HYBRID", "UNSUPPORTED"}

unsupportedPlan(bytes) ==
    [viable |-> FALSE, executable |-> FALSE, engine |-> "", mode |-> "UNSUPPORTED",
     residency |-> "AUTO", fallback |-> "AUTO", budget |-> 0, model |-> bytes,
     layers |-> -1]

hasBackend(caps, mode) ==
    CASE mode = "CPU"    -> "BACKEND_CPU" \in caps
      [] mode = "VULKAN" -> "BACKEND_VULKAN" \in caps
      [] mode = "CUDA"   -> "BACKEND_CUDA" \in caps
      [] mode = "HYBRID" -> /\ "BACKEND_CPU" \in caps
                            /\ caps \cap {"BACKEND_VULKAN", "BACKEND_CUDA"} # {}
      [] OTHER -> FALSE

\* A candidate: its factory makes an engine, the report lists and supports
\* it, and it offers what the model needs.
eligible(req, report, registry, key) ==
    /\ registry[key] # NoEngine
    /\ DOMAIN report.engines # {} => key \in DOMAIN report.engines /\ report.engines[key]
    /\ req.needs \subseteq registry[key]

\* The engine with the smallest key, "" for none.
selectEngine(candidates, registry, mode) ==
    LET fit == {i \in DOMAIN KeyOrder :
                   KeyOrder[i] \in candidates /\ hasBackend(registry[KeyOrder[i]], mode)}
    IN  IF fit = {} THEN "" ELSE KeyOrder[CHOOSE i \in fit : \A j \in fit : i <= j]

\* The share of the layers that the accelerator's memory pays for, at least
\* one and not all of them (0 if their number is unknown).
partialLayers(layers, accelerator_bytes, model_bytes) ==
    LET share == (layers * accelerator_bytes) \div model_bytes
        some  == IF share = 0 THEN 1 ELSE share
        less  == IF some >= layers THEN layers - 1 ELSE some
    IN  IF layers = 0 THEN 0 ELSE IF less = 0 THEN 1 ELSE less

usable(report, d) == report.devices[d].is_available

\* Mutant: the device's memory is not compared with the model's.
fitsAny(req, report, d) == req.estimated > 0 /\ usable(report, d)

fits(req, report, d) ==
    /\ req.estimated > 0
    /\ usable(report, d)
    /\ report.devices[d].memory >= req.estimated

partial(req, report, config, d) ==
    LET memory == report.devices[d].memory IN
    /\ config.partial
    /\ req.estimated > 0 /\ usable(report, d)
    /\ memory # 0 /\ memory < req.estimated
    /\ memory * 100 >= req.estimated * PartialResidentPercent

\* Partial residency is shared between the CPU and the accelerator.
partialMode(mode) == "HYBRID"

cpuFallbackAvailable(req, report, config, engine) ==
    config.cpu /\ fits(req, report, "CPU") /\ engine["CPU"] # ""

\* The choices in the order they are tried: full residency, partial
\* residency, the streaming plan that nothing carries out yet, the CPU.
Placements(req, report, config, engine) ==
    LET full(mode, d) ==
            IF config.accelerator /\ fits(req, report, d) /\ engine[mode] # ""
            THEN <<[mode |-> mode, residency |-> "FULL_RESIDENT", device |-> d]>> ELSE <<>>
        part(mode, d) ==
            IF config.accelerator /\ partial(req, report, config, d) /\ engine[mode] # ""
            THEN <<[mode |-> partialMode(mode), residency |-> "PARTIAL_RESIDENT", device |-> d]>> ELSE <<>>
        stream ==
            IF /\ config.streaming /\ report.streaming
               /\ config.accelerator /\ (usable(report, "Vulkan") \/ usable(report, "CUDA"))
               /\ \E mode \in Modes : engine[mode] # ""
            THEN <<[mode |-> "HYBRID", residency |-> "STREAMING",
                    device |-> IF usable(report, "Vulkan") THEN "Vulkan" ELSE "CUDA"]>> ELSE <<>>
        cpu == IF cpuFallbackAvailable(req, report, config, engine)
               THEN <<[mode |-> "CPU", residency |-> "CPU_FALLBACK", device |-> "CPU"]>> ELSE <<>>
    IN  full("CUDA", "CUDA") \o full("VULKAN", "Vulkan") \o part("CUDA", "CUDA")
        \o part("VULKAN", "Vulkan") \o stream \o cpu

ModeOf(d) == CASE d = "CPU" -> "CPU" [] d = "Vulkan" -> "VULKAN" [] d = "CUDA" -> "CUDA"

\* The engine of a partial or streaming plan is looked up for the device, and
\* only then for HYBRID.
EngineFor(choice, engine) ==
    LET shared == choice.residency \in {"PARTIAL_RESIDENT", "STREAMING"}
        first  == engine[IF shared THEN ModeOf(choice.device) ELSE choice.mode]
    IN  IF first = "" /\ choice.mode = "HYBRID" THEN engine["HYBRID"] ELSE first

\* The plan of a choice.
Filled(req, report, choice, key, cpu) ==
    LET budget == report.devices[choice.device].memory
        share  == partialLayers(req.layers, budget, req.estimated)
    IN  [viable |-> TRUE, executable |-> choice.residency # "STREAMING",
         engine |-> key, mode |-> choice.mode, residency |-> choice.residency,
         fallback |-> IF choice.residency # "CPU_FALLBACK" /\ cpu THEN "CPU_FALLBACK" ELSE "AUTO",
         budget |-> budget, model |-> req.estimated,
         layers |-> CASE choice.residency = "FULL_RESIDENT" -> IF req.layers > 0 THEN req.layers ELSE -1
                      [] choice.residency = "PARTIAL_RESIDENT" -> IF share > 0 THEN share ELSE -1
                      [] choice.residency = "STREAMING" -> -1
                      [] choice.residency = "CPU_FALLBACK" -> 0]

\* plan: the format is known (see inspect).  The first choice stands: if no
\* engine serves it the plan is unsupported, whatever else could have run.
plan(req, report, registry, config) ==
    LET candidates == {k \in DOMAIN registry : eligible(req, report, registry, k)}
        engine == [mode \in Modes |-> selectEngine(candidates, registry, mode)]
        choices == Placements(req, report, config, engine)
        key == EngineFor(choices[1], engine)
    IN  IF \/ ~(config.accelerator \/ config.partial \/ config.streaming \/ config.cpu)
           \/ candidates = {} \/ req.estimated = 0 \/ choices = <<>>
        THEN unsupportedPlan(req.estimated)
        ELSE IF key = "" THEN unsupportedPlan(req.estimated)
        ELSE Filled(req, report, choices[1], key, cpuFallbackAvailable(req, report, config, engine))
=============================================================================
