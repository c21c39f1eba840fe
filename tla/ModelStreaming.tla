--------------------------- MODULE ModelStreaming ---------------------------
(***************************************************************************)
(* src/model: ModelManager::executeLayer with PrefetchEngine, LayerManager,*)
(* StreamingEngine and ResourceResidencyManager, over the CPU side of      *)
(* MemoryManager.  A resource moves between DISK, WARM and HOT; every move *)
(* is made by a thread of its own (std::async), and the only lock is the   *)
(* one around a single access of ResourceResidencyManager::states_.        *)
(*                                                                         *)
(* Threads: one that executes layers, the asynchronous tasks it and its    *)
(* prefetches start, and clients that call evict and promoteToHotAsync.    *)
(* StreamingEngine allocates host memory only, so a block has no location: *)
(* MemoryManager::move to ACCELERATOR always fails, and a move to CPU      *)
(* finds the block there.  Sizes, telemetry and the cost model's view of   *)
(* the first input are left out; resources are registered once, on DISK,   *)
(* and the residency COLD is never stored.                                 *)
(***************************************************************************)
EXTENDS Integers, FiniteSets

CONSTANTS
    Resources,      \* registered ModelResources
    Layers,         \* layer ids of one model, integers
    inputResources, \* ModelLayer::input_resources of a layer
    dependsOn,      \* ModelLayer::depends_on_layers of a layer
    Distance,       \* prefetch_distance_
    Tasks,          \* slots for asynchronous tasks; bounds how many run
    Evictors,       \* client threads that evict
    Blocks,         \* memory blocks
    MaxLayers,      \* bound: calls of executeLayer
    MaxCalls,       \* bound: client calls
    None

ASSUME StreamingAssumption ==
    /\ Layers \subseteq Int
    /\ inputResources \in [Layers -> SUBSET Resources]
    /\ dependsOn \in [Layers -> SUBSET Layers]
    /\ Distance \in Nat
    /\ MaxLayers \in Nat /\ MaxCalls \in Nat
    /\ None \notin Blocks \cup Resources \cup Tasks

VARIABLES
    states,     \* ResourceResidencyManager::states_
    block,      \* ModelResource::block
    live,       \* blocks that MemoryManager has handed out (activeBlocks_)
    task,       \* the asynchronous tasks
    exec,       \* the executeLayer in progress
    evictor,    \* the evict each client has in progress
    calls       \* client calls and executed layers so far

vars == <<states, block, live, task, exec, evictor, calls>>

Residencies == {"DISK", "WARM", "HOT", "LOADING", "EVICTING"}

FreeSlot == [kind |-> "free", pc |-> "none", res |-> None]
Resting  == [pc |-> "idle", res |-> None, current |-> "DISK", target |-> "DISK"]

Init ==
    /\ states = [r \in Resources |-> "DISK"]
    /\ block = [r \in Resources |-> None]
    /\ live = {}
    /\ task = [t \in Tasks |-> FreeSlot]
    /\ exec = [pc |-> "idle", layer |-> None, todo |-> {}, task |-> None]
    /\ evictor = [e \in Evictors |-> Resting]
    /\ calls = [exec |-> 0, client |-> 0]

-----------------------------------------------------------------------------
(* LayerManager and PrefetchEngine.                                         *)

\* Layers that declare l as a dependency; without any, layer l + 1.
getSuccessors(l) ==
    LET explicit == {s \in Layers : l \in dependsOn[s]}
    IN  IF explicit # {} THEN explicit ELSE {l + 1} \cap Layers

\* The layers that the breadth-first search from l reaches: each is the end of
\* a chain of at most Distance successors.
Frontier(l) ==
    {s \in Layers : \E n \in 1..Distance : \E chain \in [0..n -> Layers] :
        /\ chain[0] = l /\ chain[n] = s
        /\ \A i \in 1..n : chain[i] \in getSuccessors(chain[i - 1])}

\* The inputs onLayerRequested looks at, each with the layer it is for.
Prefetches(l) ==
    {x \in Layers \X Resources : x[1] \in Frontier(l) /\ x[2] \in inputResources[x[1]]}

-----------------------------------------------------------------------------
(* Asynchronous tasks: loadToWarmAsync and promoteToHotAsync.               *)

\* The slot for the next std::async; slots are all alike.
FreeSlots == {t \in Tasks : task[t] = FreeSlot}
NextSlot  == CHOOSE t \in FreeSlots : TRUE

Spawn(kind, r) ==
    /\ FreeSlots # {}
    /\ task' = [task EXCEPT ![NextSlot] = [kind |-> kind, pc |-> "begin", res |-> r]]

\* ResourceResidencyManager::transition and tryBeginTransition.
Transition(r, from, to) ==
    states' = IF states[r] = from THEN [states EXCEPT ![r] = to] ELSE states

\* A task ends.  Nobody looks at its result: executeLayer waits for it only,
\* prefetches are pruned, and clients drop their futures.
Finish(t) ==
    task' = [task EXCEPT ![t] = IF exec.task = t THEN [@ EXCEPT !.pc = "done"] ELSE FreeSlot]

\* loadToWarmAsync: only the task that takes DISK to LOADING goes on.
LoadBegin(t) ==
    LET r == task[t].res IN
    /\ task[t].kind = "load" /\ task[t].pc = "begin"
    /\ Transition(r, "DISK", "LOADING")
    /\ IF states[r] = "DISK" THEN task' = [task EXCEPT ![t].pc = "allocate"]
       ELSE Finish(t)
    /\ UNCHANGED <<block, live, exec, evictor, calls>>

LoadAllocate(t) ==
    LET r == task[t].res IN
    /\ task[t].kind = "load" /\ task[t].pc = "allocate"
    /\ Blocks \ live # {}
    /\ LET b == CHOOSE x \in Blocks \ live : TRUE IN
          /\ live' = live \cup {b}
          /\ block' = [block EXCEPT ![r] = b]
    /\ task' = [task EXCEPT ![t].pc = "finish"]
    /\ UNCHANGED <<states, exec, evictor, calls>>

\* No memory: back to DISK.
LoadFails(t) ==
    LET r == task[t].res IN
    /\ task[t].kind = "load" /\ task[t].pc = "allocate"
    /\ block' = [block EXCEPT ![r] = None]
    /\ Transition(r, "LOADING", "DISK")
    /\ Finish(t)
    /\ UNCHANGED <<live, exec, evictor, calls>>

\* The read is done; whether the transition happens is not looked at.
LoadFinish(t) ==
    /\ task[t].kind = "load" /\ task[t].pc = "finish"
    /\ Transition(task[t].res, "LOADING", "WARM")
    /\ Finish(t)
    /\ UNCHANGED <<block, live, exec, evictor, calls>>

\* promoteToHotAsync: WARM to LOADING.
PromoteBegin(t) ==
    LET r == task[t].res IN
    /\ task[t].kind \in {"promoteCPU", "promoteGPU"} /\ task[t].pc = "begin"
    /\ Transition(r, "WARM", "LOADING")
    /\ IF states[r] = "WARM" THEN task' = [task EXCEPT ![t].pc = "move"]
       ELSE Finish(t)
    /\ UNCHANGED <<block, live, exec, evictor, calls>>

\* A CPU target needs no move; a move to ACCELERATOR fails.
PromoteFinish(t) ==
    /\ task[t].pc = "move"
    /\ \/ /\ task[t].kind = "promoteCPU"
          /\ Transition(task[t].res, "LOADING", "HOT")
          /\ Finish(t)
       \/ /\ task[t].kind = "promoteGPU"
          /\ Transition(task[t].res, "LOADING", "WARM")
          /\ Finish(t)
    /\ UNCHANGED <<block, live, exec, evictor, calls>>

TaskStep(t) ==
    \/ LoadBegin(t) \/ LoadAllocate(t) \/ LoadFails(t) \/ LoadFinish(t)
    \/ PromoteBegin(t) \/ PromoteFinish(t)

-----------------------------------------------------------------------------
(* executeLayer.                                                            *)

\* Prefetching is skipped under memory pressure.
executeLayer(l) ==
    /\ exec.pc = "idle"
    /\ calls.exec < MaxLayers
    /\ calls' = [calls EXCEPT !.exec = @ + 1]
    /\ \E pressure \in BOOLEAN :
          exec' = [pc |-> "prefetch", layer |-> l, task |-> None,
                   todo |-> IF pressure THEN {} ELSE Prefetches(l)]
    /\ UNCHANGED <<states, block, live, task, evictor>>

\* One input of a successor: a load is started if it is on DISK.
PrefetchInput ==
    /\ exec.pc = "prefetch"
    /\ \E x \in exec.todo :
          /\ exec' = [exec EXCEPT !.todo = @ \ {x}]
          /\ IF states[x[2]] = "DISK" THEN Spawn("load", x[2])
             ELSE UNCHANGED task
    /\ UNCHANGED <<states, block, live, evictor, calls>>

\* Go on with the inputs of the layer itself.
GotoInputs(pc) ==
    exec' = [exec EXCEPT !.pc = pc, !.todo = inputResources[exec.layer], !.task = None]

PrefetchDone ==
    /\ exec.pc = "prefetch" /\ exec.todo = {}
    /\ GotoInputs("inputs")
    /\ UNCHANGED <<states, block, live, task, evictor, calls>>

\* Mutant: an input is checked again after its load, until it has loaded.
CheckInputAgain ==
    /\ exec.pc = "inputs"
    /\ \E r \in exec.todo :
          IF states[r] = "DISK"
          THEN /\ Spawn("load", r)
               /\ exec' = [exec EXCEPT !.pc = "loading", !.task = NextSlot]
          ELSE exec' = [exec EXCEPT !.todo = @ \ {r}] /\ UNCHANGED task
    /\ UNCHANGED <<states, block, live, evictor, calls>>

\* One input: if it is on DISK, load it and wait for the task.
CheckInput ==
    /\ exec.pc = "inputs"
    /\ \E r \in exec.todo :
          IF states[r] = "DISK"
          THEN /\ Spawn("load", r)
               /\ exec' = [exec EXCEPT !.pc = "loading", !.todo = @ \ {r}, !.task = NextSlot]
          ELSE exec' = [exec EXCEPT !.todo = @ \ {r}] /\ UNCHANGED task
    /\ UNCHANGED <<states, block, live, evictor, calls>>

\* future.wait() returns; its value is not looked at.
Waited(from, to) ==
    /\ exec.pc = from
    /\ task[exec.task].pc = "done"
    /\ exec' = [exec EXCEPT !.pc = to, !.task = None]
    /\ task' = [task EXCEPT ![exec.task] = FreeSlot]
    /\ UNCHANGED <<states, block, live, evictor, calls>>

LoadWaited == Waited("loading", "inputs")

\* schedule and wait: the workload runs on a worker of AdaptiveScheduler.
Dispatch ==
    /\ exec.pc = "inputs" /\ exec.todo = {}
    /\ GotoInputs("dispatch")
    /\ UNCHANGED <<states, block, live, task, evictor, calls>>

Dispatched ==
    /\ exec.pc = "dispatch"
    /\ GotoInputs("promote")
    /\ UNCHANGED <<states, block, live, task, evictor, calls>>

\* Inputs that are WARM are promoted, one after the other.
PromoteInput ==
    /\ exec.pc = "promote"
    /\ \E r \in exec.todo :
          IF states[r] = "WARM"
          THEN /\ Spawn("promoteCPU", r)
               /\ exec' = [exec EXCEPT !.pc = "promoting", !.todo = @ \ {r}, !.task = NextSlot]
          ELSE exec' = [exec EXCEPT !.todo = @ \ {r}] /\ UNCHANGED task
    /\ UNCHANGED <<states, block, live, evictor, calls>>

PromoteWaited == Waited("promoting", "promote")

LayerDone ==
    /\ exec.pc = "promote" /\ exec.todo = {}
    /\ exec' = [exec EXCEPT !.pc = "idle", !.layer = None]
    /\ UNCHANGED <<states, block, live, task, evictor, calls>>

ExecStep ==
    \/ PrefetchInput \/ PrefetchDone \/ CheckInput \/ LoadWaited
    \/ Dispatch \/ Dispatched \/ PromoteInput \/ PromoteWaited \/ LayerDone

-----------------------------------------------------------------------------
(* Client calls of StreamingEngine.                                         *)

ClientCall ==
    /\ calls.client < MaxCalls
    /\ calls' = [calls EXCEPT !.client = @ + 1]

promoteToHotAsync(r, kind) ==
    /\ ClientCall
    /\ Spawn(kind, r)
    /\ UNCHANGED <<states, block, live, exec, evictor>>

\* evict: the residency is read first; at the target already, it returns.
evict(e, r, target) ==
    /\ evictor[e].pc = "idle"
    /\ ClientCall
    /\ states[r] # target
    /\ evictor' = [evictor EXCEPT ![e] =
                      [pc |-> "begin", res |-> r, current |-> states[r], target |-> target]]
    /\ UNCHANGED <<states, block, live, task, exec>>

\* Mutant: the eviction goes to work without marking the resource.
EvictBeginUnmarked(e) ==
    LET v == evictor[e] IN
    /\ v.pc = "begin"
    /\ evictor' = [evictor EXCEPT ![e] =
                      IF states[v.res] = v.current THEN [v EXCEPT !.pc = "work"] ELSE Resting]
    /\ UNCHANGED <<states, block, live, task, exec, calls>>

\* Any residency that is still the one read goes to EVICTING.
EvictBegin(e) ==
    LET v == evictor[e] IN
    /\ v.pc = "begin"
    /\ Transition(v.res, v.current, "EVICTING")
    /\ evictor' = [evictor EXCEPT ![e] =
                      IF states[v.res] = v.current THEN [v EXCEPT !.pc = "work"] ELSE Resting]
    /\ UNCHANGED <<block, live, task, exec, calls>>

\* Mutant: the released block stays in the resource.
EvictReleaseKeeps(e) ==
    LET v == evictor[e] IN
    /\ v.pc = "work" /\ v.current \in {"WARM", "HOT"} /\ v.target = "DISK"
    /\ live' = live \ {block[v.res]}
    /\ evictor' = [evictor EXCEPT ![e].pc = "finish"]
    /\ UNCHANGED <<states, block, task, exec, calls>>

\* WARM or HOT to DISK: the block is released.
EvictRelease(e) ==
    LET v == evictor[e] IN
    /\ v.pc = "work" /\ v.current \in {"WARM", "HOT"} /\ v.target = "DISK"
    /\ live' = live \ {block[v.res]}
    /\ block' = [block EXCEPT ![v.res] = None]
    /\ evictor' = [evictor EXCEPT ![e].pc = "finish"]
    /\ UNCHANGED <<states, task, exec, calls>>

EvictReleased(e) ==
    /\ evictor[e].pc = "finish"
    /\ Transition(evictor[e].res, "EVICTING", "DISK")
    /\ evictor' = [evictor EXCEPT ![e] = Resting]
    /\ UNCHANGED <<block, live, task, exec, calls>>

\* HOT to WARM moves the block; every other path is invalid, and the
\* residency that was read is put back.
EvictOther(e) ==
    LET v == evictor[e] IN
    /\ v.pc = "work" /\ ~(v.current \in {"WARM", "HOT"} /\ v.target = "DISK")
    /\ Transition(v.res, "EVICTING",
                  IF v.current = "HOT" /\ v.target = "WARM" THEN "WARM" ELSE v.current)
    /\ evictor' = [evictor EXCEPT ![e] = Resting]
    /\ UNCHANGED <<block, live, task, exec, calls>>

EvictStep(e) ==
    EvictBegin(e) \/ EvictRelease(e) \/ EvictReleased(e) \/ EvictOther(e)

-----------------------------------------------------------------------------
Next ==
    \/ \E l \in Layers : executeLayer(l)
    \/ ExecStep
    \/ \E t \in Tasks : TaskStep(t)
    \/ \E e \in Evictors : EvictStep(e)
    \/ \E r \in Resources :
          \/ \E kind \in {"promoteCPU", "promoteGPU"} : promoteToHotAsync(r, kind)
          \/ \E e \in Evictors, target \in {"DISK", "WARM"} : evict(e, r, target)

\* Started threads run; clients need not call.
Fairness ==
    /\ WF_vars(ExecStep)
    /\ \A t \in Tasks : WF_vars(TaskStep(t))
    /\ \A e \in Evictors : WF_vars(EvictStep(e))

Spec == Init /\ [][Next]_vars /\ Fairness

-----------------------------------------------------------------------------
(* Properties.                                                              *)

\* ModelTypes.h: "block; Will be valid when WARM or HOT".  Whoever loads,
\* promotes or evicts meanwhile, a resource that is WARM or HOT has a block
\* that MemoryManager still knows.
BlockWhenResident ==
    \A r \in Resources : states[r] \in {"WARM", "HOT"} => block[r] \in live

\* Every block handed out is held by exactly one resource: no two loads
\* allocate for the same resource and none is released twice.
NoBlockLost ==
    /\ \A b \in live : \E r \in Resources : block[r] = b
    /\ \A r, s \in Resources : r # s /\ block[r] # None => block[r] # block[s]
    /\ \A r \in Resources : block[r] # None => block[r] \in live

\* executeLayer returns: the tasks it waits for all end.
LayerReturns == exec.pc # "idle" ~> exec.pc = "idle"

=============================================================================
