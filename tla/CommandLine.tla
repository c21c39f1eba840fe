----------------------------- MODULE CommandLine -----------------------------
(***************************************************************************)
(* src/cli: one process runs one command on a model file.                  *)
(*   residency  plans and applies the plan with PlanResidencyAdapter;      *)
(*   graph      plans and builds a graph with ExecutionGraphBuilder;       *)
(*   chat       makes requests to HeteroRuntime (module AutoTuner);        *)
(*   library    no command: a client builds an ExecutionGraph itself.      *)
(*   apply      no command: a client has PlanResidencyAdapter apply a plan *)
(*              of its own making, as test_p14_plan_integration.cpp does;  *)
(*   build      and has ExecutionGraphBuilder build the graph of one.      *)
(* They share nothing that a step changes, so every behaviour runs one.    *)
(*                                                                         *)
(* The residency manager is modelled in full by ModelResidency; here its   *)
(* ensureResident answers either way.  The commands plan with the default  *)
(* configuration; the planner's other configurations are covered too.      *)
(***************************************************************************)
EXTENDS AutoTuner, ExecutionGraph, ExecutionPlanner

CONSTANTS
    Files, Machines,        \* see CapabilityAnalyzer
    Registries,             \* what the engine registry may hold
    Configs,                \* PlannerConfig
    MadePlans               \* the plans that a client makes

ASSUME FilesAssumption ==
    Files \subseteq [exists : BOOLEAN, size : Nat, meta : BOOLEAN, layers : Nat, kv : Nat,
                     vision : BOOLEAN]

ASSUME MachinesAssumption ==
    Machines \subseteq [initialized : BOOLEAN, ram : Nat, vulkan : Nat \cup {-1}, cuda : BOOLEAN]

\* AUTO is FULL_RESIDENT to both readers of a plan.  ACCELERATOR_OFFLOAD,
\* which the adapter takes for PARTIAL_RESIDENT and the builder refuses, is
\* left out.
ASSUME MadePlansAssumption ==
    MadePlans \subseteq [viable : BOOLEAN, mode : Modes \ {"UNSUPPORTED"},
                         residency : {"FULL_RESIDENT", "PARTIAL_RESIDENT", "HYBRID", "STREAMING",
                                      "CPU_FALLBACK"},
                         budget : Nat]

VARIABLES
    subject,    \* the command and what it runs on
    decision,   \* the plan
    apply,      \* PlanResidencyAdapter::apply
    builder     \* ExecutionGraphBuilder::build

vars == <<subject, decision, apply, builder, graphVars, tunerVars>>

NoPlan  == [viable |-> FALSE, mode |-> "none"]
NotDone == [pc |-> "none"]

wholeFileRegion(file) == <<IF file.exists THEN file.size ELSE 0>>

\* A file whose metadata is read gives one region, or one per tensor in a
\* build whose llama.cpp lists the tensors (here two of them); any other file
\* is taken as a whole.  The code checks only that a tensor lies within the
\* file; that the tensors of a file do not overlap is assumed.
extract(file, tensors) ==
    IF file.exists /\ file.meta /\ tensors
    THEN <<file.size \div 2, file.size - (file.size \div 2)>> ELSE wholeFileRegion(file)

Quiet ==
    /\ gpuMem = -1 /\ cuda = FALSE /\ modelSize = 0
    /\ states = [k \in Keys |-> NoState]
    /\ profiles = [k \in Keys |-> NoStats] /\ saved = profiles
    /\ request = [c \in Callers |-> Idle] /\ disturbed = 0

Init ==
    /\ apply = NotDone /\ builder = NotDone
    /\ GraphInit
    /\ \/ /\ subject \in [command : {"residency", "graph"}, file : Files, machine : Machines,
                          registry : Registries, config : Configs, tensors : BOOLEAN]
          /\ decision = NoPlan /\ Quiet
       \/ /\ subject \in [command : {"apply", "build"}, file : Files, tensors : BOOLEAN]
          /\ decision \in MadePlans /\ Quiet
       \/ subject = [command |-> "library"] /\ decision = NoPlan /\ Quiet
       \/ subject = [command |-> "chat"] /\ decision = NoPlan /\ TunerInit

-----------------------------------------------------------------------------
(* HeteroRuntime::planExecution, common to the commands.                    *)

Requirements == inspect(subject.file)
Report == analyze(Requirements, subject.registry, subject.machine)

planExecution ==
    /\ subject.command \in {"residency", "graph"} /\ decision = NoPlan
    /\ decision' = plan(Requirements, Report, subject.registry, subject.config)
    /\ UNCHANGED <<subject, apply, builder, graphVars, tunerVars>>

Regions == extract(subject.file, subject.tensors)

\* The commands, the adapter and the builder stop at a plan that is not viable.
Planned(commands) == subject.command \in commands /\ decision # NoPlan /\ decision.viable

-----------------------------------------------------------------------------
(* runResidencyCommand and PlanResidencyAdapter::apply.  i is the region    *)
(* that is next; asked are the calls of ensureResident.                     *)

use_accel == decision.mode \in {"VULKAN", "CUDA"}

\* The command opens the file first; a file without bytes gives no region.
\* A streaming plan loads nothing and succeeds.
applyBegins ==
    /\ Planned({"residency", "apply"}) /\ apply = NotDone
    /\ apply' = [pc |-> IF \/ ~subject.file.exists \/ Regions = <<0>>
                           \/ decision.residency = "STREAMING" THEN "done" ELSE "region",
                 i |-> 1, ram |-> 0, uploaded |-> 0, asked |-> {}, cancel |-> FALSE,
                 success |-> decision.residency = "STREAMING" /\ subject.file.exists /\ Regions # <<0>>]
    /\ UNCHANGED <<subject, decision, builder, graphVars, tunerVars>>

\* The caller of the adapter cancels; the command itself never does.
Cancel ==
    /\ apply.pc = "region" /\ ~apply.cancel
    /\ apply' = [apply EXCEPT !.cancel = TRUE]
    /\ UNCHANGED <<subject, decision, builder, graphVars, tunerVars>>

applyCancelled ==
    /\ apply.pc = "region" /\ apply.cancel /\ apply.i <= Len(Regions)
    /\ apply' = [apply EXCEPT !.pc = "done"]
    /\ UNCHANGED <<subject, decision, builder, graphVars, tunerVars>>

\* The target of the first call for a region.
Target == IF use_accel /\ decision.residency \in {"FULL_RESIDENT", "HYBRID"}
          THEN "ACCELERATOR" ELSE "RAM"

\* Mutant: every region is compared with the whole budget.
UploadsEach(size) ==
    /\ use_accel /\ decision.residency = "PARTIAL_RESIDENT"
    /\ decision.budget > 0 /\ size <= decision.budget

\* A second call uploads what a partial plan's budget has room for.
Uploads(size) ==
    /\ use_accel /\ decision.residency = "PARTIAL_RESIDENT"
    /\ decision.budget > 0 /\ apply.uploaded + size <= decision.budget

\* Mutant: the loop ends at the first region that is not loaded.
applyRegionOrStop(ok, up) ==
    LET size   == Regions[apply.i]
        second == ok /\ Uploads(size)
    IN  /\ apply.pc = "region" /\ ~apply.cancel /\ apply.i <= Len(Regions)
        /\ up => second
        /\ apply' = [apply EXCEPT
               !.i = IF ok THEN @ + 1 ELSE Len(Regions) + 1,
               !.ram = @ + IF ok THEN 1 ELSE 0,
               !.asked = @ \cup {<<apply.i, Target>>}
                           \cup (IF second THEN {<<apply.i, "ACCELERATOR">>} ELSE {}),
               !.uploaded = @ + IF (ok /\ Target = "ACCELERATOR") \/ up THEN size ELSE 0]
        /\ UNCHANGED <<subject, decision, builder, graphVars, tunerVars>>

\* One region; ok and up are the manager's answers, which may differ from
\* what it is asked because of its own budgets and of a cancellation.
applyRegion(ok, up) ==
    LET size   == Regions[apply.i]
        second == ok /\ Uploads(size)
    IN  /\ apply.pc = "region" /\ ~apply.cancel /\ apply.i <= Len(Regions)
        /\ up => second
        /\ apply' = [apply EXCEPT
               !.i = @ + 1,
               !.ram = @ + IF ok THEN 1 ELSE 0,
               !.asked = @ \cup {<<apply.i, Target>>}
                           \cup (IF second THEN {<<apply.i, "ACCELERATOR">>} ELSE {}),
               !.uploaded = @ + IF (ok /\ Target = "ACCELERATOR") \/ up THEN size ELSE 0]
        /\ UNCHANGED <<subject, decision, builder, graphVars, tunerVars>>

\* CPU_FALLBACK wants every region; the other strategies are content with one.
applyEnds ==
    /\ apply.pc = "region" /\ apply.i > Len(Regions)
    /\ apply' = [apply EXCEPT !.pc = "done",
                    !.success = IF decision.residency = "CPU_FALLBACK"
                                THEN apply.ram = Len(Regions) ELSE apply.ram > 0]
    /\ UNCHANGED <<subject, decision, builder, graphVars, tunerVars>>

ResidencyCommand ==
    \/ applyBegins \/ Cancel \/ applyCancelled \/ applyEnds
    \/ \E ok, up \in BOOLEAN : applyRegion(ok, up)

-----------------------------------------------------------------------------
(* runGraphCommand and ExecutionGraphBuilder::build: the residency nodes,   *)
(* the barrier with an edge from each of them, the compute node.            *)

\* The targets of the residency nodes: of a partial plan RAM only, "for
\* simplicity".
NodeTargets ==
    CASE decision.residency = "FULL_RESIDENT" ->
             [r \in DOMAIN Regions |-> IF use_accel THEN "ACCELERATOR" ELSE "RAM"]
      [] decision.residency \in {"PARTIAL_RESIDENT", "HYBRID", "CPU_FALLBACK"} ->
             [r \in DOMAIN Regions |-> "RAM"]
      [] decision.residency = "STREAMING" -> <<>>

buildBegins ==
    /\ Planned({"graph", "build"}) /\ builder = NotDone
    /\ builder' = [pc |-> "nodes", next_id |-> 1, linked |-> 0, targets |-> NodeTargets]
    /\ UNCHANGED <<subject, decision, apply, graphVars, tunerVars>>

Residencies == Len(builder.targets)
Sync        == Residencies + 1
Compute     == Residencies + 2

\* The residency nodes and then the barrier get the ids 1, 2, ...
buildNode ==
    /\ builder.pc = "nodes"
    /\ addNode(builder.next_id)
    /\ builder' = [builder EXCEPT !.next_id = @ + 1,
                      !.pc = IF builder.next_id = Sync THEN "edges" ELSE @]
    /\ UNCHANGED <<subject, decision, apply, tunerVars>>

AllLinked == builder.linked = Residencies

buildEdge ==
    /\ builder.pc = "edges" /\ ~AllLinked
    /\ addDependency(builder.linked + 1, Sync)
    /\ builder' = [builder EXCEPT !.linked = @ + 1]
    /\ UNCHANGED <<subject, decision, apply, tunerVars>>

buildCompute ==
    /\ builder.pc = "edges" /\ AllLinked
    /\ addNode(builder.next_id)
    /\ builder' = [builder EXCEPT !.next_id = @ + 1, !.pc = "link"]
    /\ UNCHANGED <<subject, decision, apply, tunerVars>>

buildLink ==
    /\ builder.pc = "link"
    /\ addDependency(Sync, Compute)
    /\ builder' = [builder EXCEPT !.pc = "validate"]
    /\ UNCHANGED <<subject, decision, apply, tunerVars>>

buildValidates ==
    /\ builder.pc = "validate"
    /\ validate
    /\ builder' = [builder EXCEPT !.pc = "validating"]
    /\ UNCHANGED <<subject, decision, apply, tunerVars>>

\* The search of validate, and what build makes of its answer.
buildSearches ==
    /\ builder.pc = "validating"
    /\ validateGoesOn
    /\ builder' = [builder EXCEPT !.pc = CASE search'.pc = "valid" -> "built"
                                           [] search'.pc = "cycle" -> "refused"
                                           [] OTHER -> @]
    /\ UNCHANGED <<subject, decision, apply, tunerVars>>

GraphCommand ==
    buildBegins \/ buildNode \/ buildEdge \/ buildCompute \/ buildLink \/ buildValidates \/ buildSearches

-----------------------------------------------------------------------------
Next ==
    \/ planExecution \/ ResidencyCommand \/ GraphCommand
    \/ subject.command = "library" /\ GraphNext
       /\ UNCHANGED <<subject, decision, apply, builder, tunerVars>>
    \/ subject.command = "chat" /\ TunerNext
       /\ UNCHANGED <<subject, decision, apply, builder, graphVars>>

Spec == Init /\ [][Next]_vars

-----------------------------------------------------------------------------
(* Properties.                                                              *)

\* ExecutionPlan.h: executable "only when a currently shipped engine can
\* carry the plan out": the engine of the planner's plan is registered, was
\* not rejected and offers the backend of a device that is there; what is to
\* be resident in full fits this device; and of a partial placement, all but
\* the one layer that is always asked for fits, and a layer is left to the
\* CPU unless the model has only one.
PlanIsCarriedOut ==
    /\ subject.command \in {"residency", "graph"}
    /\ decision # NoPlan /\ decision.viable /\ decision.executable
    =>  \E d \in DeviceTypes :
            LET memory == Report.devices[d].memory IN
            /\ usable(Report, d) /\ decision.budget = memory
            /\ decision.engine \in DOMAIN subject.registry /\ Report.engines[decision.engine]
            /\ hasBackend(subject.registry[decision.engine], ModeOf(d))
            /\ decision.residency \in {"FULL_RESIDENT", "CPU_FALLBACK"} =>
                   decision.mode = ModeOf(d) /\ decision.model <= memory
            /\ decision.residency = "PARTIAL_RESIDENT" /\ decision.layers # -1 =>
                   /\ decision.layers \in 1..(IF Requirements.layers > 1 THEN Requirements.layers - 1 ELSE 1)
                   /\ decision.layers = 1
                      \/ decision.layers * decision.model <= memory * Requirements.layers

\* What the adapter sends to the accelerator, without asking for its free
\* memory, is within the memory the plan was made for: for the planner's
\* plans, and for every partial plan whatever loads and uploads have failed.
\* So is what a CPU fallback of the planner brings into RAM.
UploadsFit ==
    apply.pc \in {"region", "done"} =>
        /\ subject.command = "residency" \/ decision.residency = "PARTIAL_RESIDENT" =>
               apply.uploaded <= decision.budget
        /\ /\ subject.command = "residency" /\ decision.residency = "CPU_FALLBACK"
           /\ apply.pc = "done" /\ apply.success
           => subject.file.size <= decision.budget

\* The adapter and the graph are two readings of one plan.  They ask the
\* residency manager for the same regions, the adapter whatever loads fail
\* on the way; and the planner's plans they place alike.  They differ in two
\* of the plans a client can make for an accelerator (PlanResidencyAdapter.h:9,
\* ExecutionGraphBuilder.cpp:46-47; the planner's partial plans are for
\* HYBRID, for which the adapter uploads nothing): of PARTIAL_RESIDENT the
\* adapter uploads, besides, regions that the budget has room for; for HYBRID
\* it asks for the accelerator and not for RAM.  The graph asks for all of
\* its regions before it computes, as the adapter does before it returns, and
\* is never refused by its own validation.
OneReading ==
    /\ builder.pc # "refused"
    /\ apply.pc = "done" /\ ~apply.cancel /\ subject.file.exists /\ Regions # <<0>> =>
           LET graph == {<<r, NodeTargets[r]>> : r \in DOMAIN NodeTargets} IN
           /\ {a[1] : a \in apply.asked} = DOMAIN NodeTargets
           /\ apply.asked # graph =>
                  /\ subject.command = "apply" /\ use_accel
                  /\ decision.residency \in {"PARTIAL_RESIDENT", "HYBRID"}
           /\ decision.residency # "HYBRID" => graph \subseteq apply.asked
           /\ decision.residency = "PARTIAL_RESIDENT" =>
                  \A a \in apply.asked \ graph :
                      a[2] = "ACCELERATOR" /\ Regions[a[1]] <= decision.budget
    /\ builder.pc = "built" =>
           /\ DOMAIN builder.targets = IF decision.residency = "STREAMING" THEN {} ELSE DOMAIN Regions
           /\ \A n \in nodes \ {Compute} : Compute \in ReachableFrom(n)
           /\ ReachableFrom(Compute) = {}
=============================================================================
