------------------------- MODULE CapabilityAnalyzer -------------------------
(***************************************************************************)
(* src/analysis and src/backend/BackendManager: what is known of a model   *)
(* file, of the engines and of the machine before a plan is made.          *)
(*                                                                         *)
(* Memory is counted in units of 256 MB.  A file is a record: whether it   *)
(* exists, its size, whether llama.cpp reads its metadata and, if so, the  *)
(* layers, the KV cache estimate from parameters and context, and whether  *)
(* the architecture is a vision one.  A machine is a record: whether the   *)
(* runtime was initialised, the RAM that is free, the device-local heaps   *)
(* of the Vulkan device (-1 for no device) and whether CUDA is there.      *)
(* Names, reasons and the printed report are left out.                     *)
(***************************************************************************)
EXTENDS Integers

GB        == 4      \* 1 GB in units
Workspace == 1      \* the 256 MB of overhead

\* The engine capabilities the planner compares (VISION, ... are required by
\* a model; BACKEND_* are offered by an engine).
Backends == {"BACKEND_CPU", "BACKEND_VULKAN", "BACKEND_CUDA"}

-----------------------------------------------------------------------------
(* GGUFInspector.                                                           *)

\* What a file needs; the format is always taken to be GGUF.  The estimate is
\* 0 for a file whose size cannot be read and is positive for any other.
inspect(file) ==
    [estimated |-> IF file.exists
                   THEN file.size + Workspace + IF file.meta THEN file.kv ELSE file.size \div 5
                   ELSE 0,
     layers    |-> IF file.meta THEN file.layers ELSE 0,
     needs     |-> {"TEXT_GENERATION"} \cup IF file.meta /\ file.vision THEN {"VISION"} ELSE {}]

-----------------------------------------------------------------------------
(* BackendManager.                                                          *)

DeviceTypes == {"CPU", "Vulkan", "CUDA"}

\* The CPU is always available and its free RAM counts.  Vulkan is there when
\* the backend initialises, with the sum of its device-local heaps.  Nothing
\* ever sets the memory of the CUDA device.
discover(machine) ==
    [d \in DeviceTypes |->
        CASE d = "CPU"    -> [is_available |-> TRUE, memory |-> machine.ram]
          [] d = "Vulkan" -> [is_available |-> machine.vulkan >= 0,
                              memory |-> IF machine.vulkan >= 0 THEN machine.vulkan ELSE 0]
          [] d = "CUDA"   -> [is_available |-> machine.cuda, memory |-> 0]]

-----------------------------------------------------------------------------
(* CapabilityAnalyzer.                                                      *)

\* The key that analyze knows to read GGUF files.
LlamaCpp == "llama.cpp"

\* registry maps a key to the capabilities of the engine its factory makes,
\* or to NoEngine if the factory makes none.
NoEngine == {"none"}

supported(req, registry, key) ==
    /\ registry[key] # NoEngine
    /\ key = LlamaCpp
    /\ req.needs \cap {"TEXT_GENERATION", "VISION"} \subseteq registry[key]

\* Without a backend manager (a runtime that was not initialised) the report
\* has no device.
analyze(req, registry, machine) ==
    LET found == discover(machine)
        devices == [d \in DeviceTypes |->
                       IF machine.initialized THEN found[d]
                       ELSE [is_available |-> FALSE, memory |-> 0]]
        largest_at_least(n) == \E d \in DeviceTypes : devices[d].is_available /\ devices[d].memory >= n
    IN  [engines   |-> [k \in DOMAIN registry |-> supported(req, registry, k)],
         devices   |-> devices,
         full      |-> req.estimated > 0 /\ largest_at_least(req.estimated),
         streaming |-> req.estimated > 0 /\ largest_at_least(GB)]
=============================================================================
