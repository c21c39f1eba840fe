--------------------------- MODULE HeteroRuntime ----------------------------
(***************************************************************************)
(* src/inference/HeteroRuntime.cpp with WorkloadRegistry.cpp and           *)
(* LlamaCppExecutionEngine.cpp: client threads that generate, a thread     *)
(* that loads, unloads, shuts down and initializes, and cancellation from  *)
(* anywhere.                                                               *)
(*                                                                         *)
(* Two locks matter.  mutex_ guards the runtime and is held across model   *)
(* loading; engine_mutex_ of an engine is held across a whole execution,   *)
(* and is taken under mutex_ to unload a model, never the other way round. *)
(* doGenerate holds mutex_ in two sections and runs the engine between     *)
(* them, on the engine it fetched in the first.  The registry has a lock   *)
(* of its own that is held for one access; cancelWorkload takes only that. *)
(*                                                                         *)
(* A request is a call of generate or generateWorkload by one client       *)
(* thread.  Its workload entry, when it has one, is named by the request.  *)
(* Clients keep to the order of HeteroRuntime.h: they let their requests   *)
(* return before shutdown.  The contents of prompts, results and           *)
(* telemetry, and the layer counts behind a placement, are left out.       *)
(* All engines share the llama.cpp backend, initialized for the first and  *)
(* freed with the last of them; a streaming request loads one of its own.  *)
(***************************************************************************)
EXTENDS Integers, FiniteSets

CONSTANTS
    Requests,       \* client threads, one request each
    Models,         \* model paths
    Engines,        \* engine objects; an unreferenced one is free for reuse
    Placements,     \* the n_gpu_layers a TuningConfig may hold
    Admin,          \* the thread that loads, unloads, shuts down, initializes
    None,           \* a null pointer, an absent key, a free lock
    MaxAdminOps     \* bound: operations of Admin

Threads == Requests \cup {Admin}

ASSUME RuntimeAssumption ==
    /\ Admin \notin Requests
    /\ None \notin Threads \cup Engines \cup Placements
    /\ Models # {} /\ IsFiniteSet(Requests) /\ IsFiniteSet(Engines)
    /\ MaxAdminOps \in Nat

VARIABLES
    initialized,    \* initialized_
    registry,       \* the state of a request's WorkloadEntry, "none" without one
    cancelFlag,     \* its cancel_requested
    engines,        \* engines_: the engine of a model path
    placed,         \* loaded_configs_: its placement
    engine,         \* engine objects: initialized_, modelLoaded_, backend state_
    mutex,          \* the thread that holds mutex_
    engineLock,     \* the thread that holds an engine's engine_mutex_
    pc,             \* where a thread is
    target,         \* the model path a thread works on
    tcfg,           \* the placement resolveAndApplyConfig gave it
    held,           \* the shared_ptr<IExecutionEngine> a request holds
    outcome,        \* the result of a request
    adminOps,       \* operations Admin has begun
    streams,        \* the requests that have a TokenCallback
    backendRefs     \* s_backendRefCount: who needs the llama.cpp backend

vars == <<initialized, registry, cancelFlag, engines, placed, engine, mutex,
          engineLock, pc, target, tcfg, held, outcome, adminOps, streams, backendRefs>>
llama == <<streams, backendRefs>>

-----------------------------------------------------------------------------
NewEngine == [init |-> FALSE, loaded |-> FALSE, state |-> "DISCOVERED"]

\* After initialize, loadModel and createContext of its backend.
LoadedEngine == [init |-> TRUE, loaded |-> TRUE, state |-> "READY"]

Init ==
    /\ initialized = TRUE
    /\ registry = [r \in Requests |-> "none"]
    /\ cancelFlag = [r \in Requests |-> FALSE]
    /\ engines = [m \in Models |-> None]
    /\ placed = [m \in Models |-> None]
    /\ engine = [e \in Engines |-> NewEngine]
    /\ mutex = None
    /\ engineLock = [e \in Engines |-> None]
    /\ pc = [t \in Threads |-> "idle"]
    /\ target = [t \in Threads |-> CHOOSE m \in Models : TRUE]
    /\ tcfg = [t \in Threads |-> None]
    /\ held = [r \in Requests |-> None]
    /\ outcome = [r \in Requests |-> "none"]
    /\ adminOps = 0
    /\ streams = {}
    /\ backendRefs = 0

-----------------------------------------------------------------------------
(* Helpers.                                                                 *)

Goto(t, l) == pc' = [pc EXCEPT ![t] = l]

\* The engine objects once the map and the requests' pointers are as given:
\* one that nothing refers to any more is destroyed.
Alive(objects, map, refs) ==
    [e \in Engines |->
        IF (\E m \in Models : map[m] = e) \/ (\E r \in Requests : refs[r] = e)
        THEN objects[e] ELSE NewEngine]

\* The call of a request returns before it has an engine.
ReturnWith(r, o) ==
    /\ Goto(r, "done")
    /\ outcome' = [outcome EXCEPT ![r] = o]

\* A setter of WorkloadRegistry: no effect without an entry.
SetEntry(r, s) ==
    registry' = IF registry[r] = "none" THEN registry
                ELSE [registry EXCEPT ![r] = s]

\* Engine objects that nothing references.
FreeEngines ==
    {e \in Engines : (\A m \in Models : engines[m] # e) /\ (\A r \in Requests : held[r] # e)}

\* LlamaCppBackend::unload gives up while the backend is EXECUTING.
Unloaded(e) ==
    [engine[e] EXCEPT !.loaded = FALSE,
        !.state = IF @ = "EXECUTING" THEN @ ELSE "RELEASED"]

ShutDown(e) == [Unloaded(e) EXCEPT !.init = FALSE]

\* LlamaCppEngine::shutdown gives the llama.cpp backend back, the last one
\* frees it; a failed initialize has counted up and down again.
Released(es) ==
    /\ backendRefs' = backendRefs - Cardinality({e \in es : engine[e].state = "READY"})
    /\ UNCHANGED streams

-----------------------------------------------------------------------------
(* Starting a request, and cancelling.                                      *)

\* generateWorkload registers a workload and goes on in doGenerate.
generateWorkload(r, m) ==
    /\ pc[r] = "idle"
    /\ registry' = [registry EXCEPT ![r] = "QUEUED"]
    /\ cancelFlag' = [cancelFlag EXCEPT ![r] = FALSE]
    /\ target' = [target EXCEPT ![r] = m]
    /\ Goto(r, "start")
    /\ UNCHANGED <<initialized, engines, placed, engine, mutex, engineLock,
                   tcfg, held, outcome, adminOps, llama>>

\* generate, and generateStreaming with its callback, run without a workload.
generate(r, m) ==
    /\ pc[r] = "idle"
    /\ streams' \in {streams, streams \cup {r}} /\ UNCHANGED backendRefs
    /\ target' = [target EXCEPT ![r] = m]
    /\ Goto(r, "start")
    /\ UNCHANGED <<initialized, registry, cancelFlag, engines, placed, engine,
                   mutex, engineLock, tcfg, held, outcome, adminOps>>

\* registerWorkload only tracks: no public call runs such a workload.
registerWorkload(r) ==
    /\ pc[r] = "idle"
    /\ registry' = [registry EXCEPT ![r] = "QUEUED"]
    /\ Goto(r, "tracked")
    /\ UNCHANGED <<initialized, cancelFlag, engines, placed, engine, mutex,
                   engineLock, target, tcfg, held, outcome, adminOps, llama>>

\* cancelWorkload takes the registry's lock, not mutex_.
cancelWorkload(r) ==
    /\ registry[r] # "none"
    /\ cancelFlag' = [cancelFlag EXCEPT ![r] = TRUE]
    /\ registry' = IF registry[r] = "QUEUED"
                   THEN [registry EXCEPT ![r] = "CANCELLED"] ELSE registry
    /\ UNCHANGED <<initialized, engines, placed, engine, mutex, engineLock, pc,
                   target, tcfg, held, outcome, adminOps, llama>>

-----------------------------------------------------------------------------
(* doGenerate, first section under mutex_.                                  *)

\* Not initialized, or an empty prompt: the entry stays QUEUED.
Reject(r) ==
    /\ pc[r] = "start"
    /\ mutex = None
    /\ ReturnWith(r, "rejected")
    /\ UNCHANGED <<initialized, registry, cancelFlag, engines, placed, engine,
                   mutex, engineLock, target, tcfg, held, adminOps, llama>>

\* isCancelled.
Enter(r) ==
    /\ pc[r] = "start"
    /\ mutex = None
    /\ initialized
    /\ IF cancelFlag[r]
       THEN ReturnWith(r, "cancelledEarly") /\ UNCHANGED mutex
       ELSE Goto(r, "admit") /\ mutex' = r /\ UNCHANGED outcome
    /\ UNCHANGED <<initialized, registry, cancelFlag, engines, placed, engine,
                   engineLock, target, tcfg, held, adminOps, llama>>

\* setRunning, a second access of the registry: unconditional.
Admit(r) ==
    /\ pc[r] = "admit"
    /\ SetEntry(r, "RUNNING")
    /\ Goto(r, "place")
    /\ UNCHANGED <<initialized, cancelFlag, engines, placed, engine, mutex,
                   engineLock, target, tcfg, held, outcome, adminOps, llama>>

\* resolveAndApplyConfig may give any placement: it depends on pressure, the
\* number of active workloads and what the tuner is exploring.  A loaded
\* engine with another placement is to be replaced.
Place(t) ==
    /\ pc[t] = "place"
    /\ \E p \in Placements :
        LET m == target[t] IN
        /\ \/ /\ engines[m] = None
              /\ tcfg' = [tcfg EXCEPT ![t] = p]
              /\ Goto(t, "create")
              /\ UNCHANGED <<mutex, held>>
           \/ /\ engines[m] # None
              /\ placed[m] # p
              /\ tcfg' = [tcfg EXCEPT ![t] = p]
              /\ Goto(t, "reload")
              /\ UNCHANGED <<mutex, held>>
           \/ /\ engines[m] # None
              /\ placed[m] = p
              /\ mutex' = None
              /\ UNCHANGED tcfg
              /\ IF t = Admin THEN Goto(t, "idle") /\ UNCHANGED held
                 ELSE Goto(t, "wait") /\ held' = [held EXCEPT ![t] = engines[m]]
    /\ UNCHANGED <<initialized, registry, cancelFlag, engines, placed, engine,
                   engineLock, target, outcome, adminOps, llama>>

\* Mutant: the old engine is unloaded without waiting for its execution.
ReloadNow(t) ==
    LET m == target[t]
        e == engines[m]
    IN  /\ pc[t] = "reload"
        /\ engines' = [engines EXCEPT ![m] = None]
        /\ engine' = Alive([engine EXCEPT ![e] = Unloaded(e)], engines', held)
        /\ placed' = [placed EXCEPT ![m] = None]
        /\ Goto(t, "create")
        /\ Released({e})
        /\ UNCHANGED <<initialized, registry, cancelFlag, mutex, engineLock,
                       target, tcfg, held, outcome, adminOps>>

\* Mutant: the unloaded engine is not erased from engines_.
ReloadKeeps(t) ==
    LET e == engines[target[t]]
    IN  /\ pc[t] = "reload"
        /\ engineLock[e] = None
        /\ engine' = [engine EXCEPT ![e] = Unloaded(e)]
        /\ Goto(t, "create")
        /\ Released({e})
        /\ UNCHANGED <<initialized, registry, cancelFlag, engines, placed, mutex,
                       engineLock, target, tcfg, held, outcome, adminOps>>

\* unloadModel on the old engine waits for the execution in progress on it.
Reload(t) ==
    LET m == target[t]
        e == engines[m]
    IN  /\ pc[t] = "reload"
        /\ engineLock[e] = None
        /\ engines' = [engines EXCEPT ![m] = None]
        /\ engine' = Alive([engine EXCEPT ![e] = Unloaded(e)], engines', held)
        /\ placed' = [placed EXCEPT ![m] = None]
        /\ Goto(t, "create")
        /\ Released({e})
        /\ UNCHANGED <<initialized, registry, cancelFlag, mutex, engineLock,
                       target, tcfg, held, outcome, adminOps>>

\* create, initialize and loadModel succeed: the engine, a new object, is stored.
Create(t) ==
    LET e == CHOOSE e \in FreeEngines : TRUE IN
    /\ pc[t] = "create"
    /\ FreeEngines # {}
    /\ engine' = [engine EXCEPT ![e] = LoadedEngine]
    /\ engines' = [engines EXCEPT ![target[t]] = e]
    /\ placed' = [placed EXCEPT ![target[t]] = tcfg[t]]
    /\ IF t = Admin THEN Goto(t, "idle") /\ UNCHANGED held
       ELSE Goto(t, "wait") /\ held' = [held EXCEPT ![t] = e]
    /\ tcfg' = [tcfg EXCEPT ![t] = None]
    /\ mutex' = None
    /\ backendRefs' = backendRefs + 1 /\ UNCHANGED streams
    /\ UNCHANGED <<initialized, registry, cancelFlag, engineLock, target,
                   outcome, adminOps>>

\* The registry has no factory, or the model does not load: an early return,
\* after setRunning and before any setter that would end the entry.
CreateFails(t) ==
    /\ pc[t] = "create"
    /\ mutex' = None
    /\ tcfg' = [tcfg EXCEPT ![t] = None]
    /\ IF t = Admin THEN Goto(t, "idle") /\ UNCHANGED outcome
       ELSE ReturnWith(t, "loadFailed")
    /\ UNCHANGED <<initialized, registry, cancelFlag, engines, placed, engine,
                   engineLock, target, held, adminOps, llama>>

-----------------------------------------------------------------------------
(* doGenerate between the sections: execute on the engine, under its        *)
(* engine_mutex_ but without mutex_.                                        *)

\* The engine may have been unloaded or shut down since it was fetched.
LockEngine(r) ==
    LET e == held[r] IN
    /\ pc[r] = "wait"
    /\ engineLock[e] = None
    /\ IF engine[e].init /\ engine[e].loaded
       THEN /\ engineLock' = [engineLock EXCEPT ![e] = r]
            /\ engine' = [engine EXCEPT ![e].state = "EXECUTING"]
            /\ Goto(r, IF r \in streams THEN "stream" ELSE "evaluate")
            /\ UNCHANGED outcome
       ELSE /\ outcome' = [outcome EXCEPT ![r] = "failed"]
            /\ Goto(r, "record")
            /\ UNCHANGED <<engineLock, engine>>
    /\ UNCHANGED <<initialized, registry, cancelFlag, engines, placed, mutex,
                   target, tcfg, held, adminOps, llama>>

\* The engine of its own that a streaming request runs on is shut down.
StreamEnds(r) ==
    /\ backendRefs' = IF r \in streams /\ pc[r] # "stream" THEN backendRefs - 1 ELSE backendRefs
    /\ UNCHANGED streams

\* Mutant: engine_mutex_ is kept for the second section.
FinishExecutionLocked(r, o) ==
    /\ engine' = [engine EXCEPT ![held[r]].state = "READY"]
    /\ outcome' = [outcome EXCEPT ![r] = o]
    /\ Goto(r, "record")
    /\ StreamEnds(r)
    /\ UNCHANGED <<initialized, registry, cancelFlag, engines, placed, mutex,
                   engineLock, target, tcfg, held, adminOps>>

\* The engine's result: the backend is READY again and the lock is released.
FinishExecution(r, o) ==
    /\ engine' = [engine EXCEPT ![held[r]].state = "READY"]
    /\ engineLock' = [engineLock EXCEPT ![held[r]] = None]
    /\ outcome' = [outcome EXCEPT ![r] = o]
    /\ Goto(r, "record")
    /\ StreamEnds(r)
    /\ UNCHANGED <<initialized, registry, cancelFlag, engines, placed, mutex,
                   target, tcfg, held, adminOps>>

\* runInference with a callback loads the model a second time, under the lock
\* of its engine but not under mutex_.
StreamInit(r) ==
    /\ pc[r] = "stream"
    /\ \/ FinishExecution(r, "failed")
       \/ /\ backendRefs' = backendRefs + 1
          /\ Goto(r, "evaluate")
          /\ UNCHANGED <<initialized, registry, cancelFlag, engines, placed,
                         engine, mutex, engineLock, target, tcfg, held,
                         outcome, adminOps, streams>>

\* Mutant: the flag is looked at in the token loop only.
EvaluateUncancelled(r) ==
    /\ pc[r] = "evaluate"
    /\ \/ FinishExecution(r, "failed")
       \/ /\ Goto(r, "generate")
          /\ UNCHANGED <<initialized, registry, cancelFlag, engines, placed,
                         engine, mutex, engineLock, target, tcfg, held,
                         outcome, adminOps, llama>>

\* LlamaCppEngine::infer up to the prompt: it may fail, and it looks at the
\* cancel flag once, before evaluating.
Evaluate(r) ==
    /\ pc[r] = "evaluate"
    /\ \/ FinishExecution(r, "failed")
       \/ cancelFlag[r] /\ FinishExecution(r, "cancelledBefore")
       \/ /\ ~cancelFlag[r]
          /\ Goto(r, "generate")
          /\ UNCHANGED <<initialized, registry, cancelFlag, engines, placed,
                         engine, mutex, engineLock, target, tcfg, held,
                         outcome, adminOps, llama>>

\* The token loop: it ends by itself, or on seeing the flag at a token.
GenerateTokens(r) ==
    /\ pc[r] = "generate"
    /\ \/ FinishExecution(r, "success")
       \/ cancelFlag[r] /\ FinishExecution(r, "cancelledMid")

-----------------------------------------------------------------------------
(* doGenerate, second section under mutex_: profile, tune, end the entry.   *)
(* A cancelled token loop reports success, so it is recorded as one; one    *)
(* cancelled before evaluation is left as it is.                            *)
Record(r) ==
    /\ pc[r] = "record"
    /\ mutex = None
    /\ CASE outcome[r] \in {"success", "cancelledMid"} -> SetEntry(r, "COMPLETED")
         [] outcome[r] = "cancelledBefore"             -> UNCHANGED registry
         [] OTHER                                      -> SetEntry(r, "FAILED")
    /\ held' = [held EXCEPT ![r] = None]
    /\ engine' = Alive(engine, engines, held')
    /\ Goto(r, "done")
    /\ UNCHANGED <<initialized, cancelFlag, engines, placed, mutex,
                   engineLock, target, tcfg, outcome, adminOps, llama>>

-----------------------------------------------------------------------------
(* The administrating thread.                                               *)

\* The operation takes mutex_ and goes on at l.
AdminBegin(l) ==
    /\ pc[Admin] = "idle"
    /\ mutex = None
    /\ adminOps < MaxAdminOps
    /\ adminOps' = adminOps + 1
    /\ mutex' = Admin
    /\ Goto(Admin, l)

loadModel(m) ==
    /\ AdminBegin("place")
    /\ initialized
    /\ target' = [target EXCEPT ![Admin] = m]
    /\ UNCHANGED <<initialized, registry, cancelFlag, engines, placed, engine,
                   engineLock, tcfg, held, outcome, llama>>

unloadModel(m) ==
    /\ AdminBegin("unload")
    /\ engines[m] # None
    /\ target' = [target EXCEPT ![Admin] = m]
    /\ UNCHANGED <<initialized, registry, cancelFlag, engines, placed, engine,
                   engineLock, tcfg, held, outcome, llama>>

\* Under mutex_, wait for the engine, unload it and shut it down.
Unload ==
    LET m == target[Admin]
        e == engines[m]
    IN  /\ pc[Admin] = "unload"
        /\ engineLock[e] = None
        /\ engines' = [engines EXCEPT ![m] = None]
        /\ engine' = Alive([engine EXCEPT ![e] = ShutDown(e)], engines', held)
        /\ placed' = [placed EXCEPT ![m] = None]
        /\ mutex' = None
        /\ Goto(Admin, "idle")
        /\ Released({e})
        /\ UNCHANGED <<initialized, registry, cancelFlag, engineLock, target,
                       tcfg, held, outcome, adminOps>>

Quiet == \A r \in Requests : pc[r] \in {"idle", "done", "tracked"}

\* Clients let their requests return first.
shutdown ==
    /\ Quiet
    /\ initialized
    /\ AdminBegin("stop")
    /\ UNCHANGED <<initialized, registry, cancelFlag, engines, placed, engine,
                   engineLock, target, tcfg, held, outcome, llama>>

Stop ==
    /\ pc[Admin] = "stop"
    /\ \A m \in Models : engines[m] # None => engineLock[engines[m]] = None
    /\ engines' = [m \in Models |-> None]
    /\ engine' = Alive([e \in Engines |-> ShutDown(e)], engines', held)
    /\ placed' = [m \in Models |-> None]
    /\ initialized' = FALSE
    /\ mutex' = None
    /\ Goto(Admin, "idle")
    /\ Released(Engines)
    /\ UNCHANGED <<registry, cancelFlag, engineLock, target, tcfg, held,
                   outcome, adminOps>>

\* initialize after a shutdown makes a new, empty WorkloadRegistry; like
\* shutdown it is called while no request runs.
initialize ==
    /\ Quiet
    /\ ~initialized
    /\ pc[Admin] = "idle"
    /\ mutex = None
    /\ initialized' = TRUE
    /\ registry' = [r \in Requests |-> "none"]
    /\ cancelFlag' = [r \in Requests |-> FALSE]
    /\ UNCHANGED <<engines, placed, engine, mutex, engineLock, pc, target, tcfg,
                   held, outcome, adminOps, llama>>

-----------------------------------------------------------------------------
RequestStep(r) ==
    \/ Reject(r) \/ Enter(r) \/ Admit(r)
    \/ LockEngine(r) \/ StreamInit(r) \/ Evaluate(r) \/ GenerateTokens(r) \/ Record(r)

LoadStep(t) == Place(t) \/ Reload(t) \/ Create(t) \/ CreateFails(t)

AdminStep == Unload \/ Stop

Client ==
    \/ \E r \in Requests, m \in Models : generateWorkload(r, m) \/ generate(r, m)
    \/ \E r \in Requests : registerWorkload(r) \/ cancelWorkload(r)
    \/ \E m \in Models : loadModel(m) \/ unloadModel(m)
    \/ shutdown
    \/ initialize

Next ==
    \/ Client
    \/ \E r \in Requests : RequestStep(r)
    \/ \E t \in Threads : LoadStep(t)
    \/ AdminStep

\* A thread inside a call runs on; a free lock is eventually given to a
\* thread that waits for it.  Nothing obliges clients to call.
Fairness ==
    /\ \A r \in Requests : WF_vars(RequestStep(r)) /\ WF_vars(LoadStep(r))
    /\ WF_vars(LoadStep(Admin))
    /\ WF_vars(AdminStep)

Spec == Init /\ [][Next]_vars /\ Fairness

-----------------------------------------------------------------------------
(* Properties.                                                              *)

\* ExecutionContext.h: "A single IExecutionEngine instance serialises
\* concurrent calls".  While a request executes, its engine stays loaded and
\* executes for no one else, whatever reload, unload or shutdown waits; and the
\* llama.cpp backend, which all engines share, is counted once for each model
\* that is loaded, so that nobody frees it under an execution.
ExecutionOwnsEngine ==
    /\ \A r \in Requests : pc[r] \in {"stream", "evaluate", "generate"} =>
          LET e == held[r] IN
          /\ engineLock[e] = r
          /\ engine[e] = [init |-> TRUE, loaded |-> TRUE, state |-> "EXECUTING"]
    /\ backendRefs = Cardinality({e \in Engines : engine[e].state \in {"READY", "EXECUTING"}})
                   + Cardinality({r \in streams : pc[r] \in {"evaluate", "generate"}})

\* When mutex_ is free, every engine in engines_ is initialized and has its
\* model loaded, no engine serves two paths, and its placement is recorded:
\* the next request may run on it without looking.
StoredEnginesServe ==
    mutex = None =>
        \A m \in Models :
            /\ engines[m] = None <=> placed[m] = None
            /\ engines[m] # None =>
                  /\ engine[engines[m]].init /\ engine[engines[m]].loaded
                  /\ \A n \in Models \ {m} : engines[n] # engines[m]

\* The second section of doGenerate ends the entry with the engine's result.
\* setCancelled is never called, although test_p9_cancellation.cpp leaves it to
\* the execution code: what was cancelled in the token loop is COMPLETED, and
\* what was cancelled before the prompt was evaluated stays RUNNING.
RecordedAs(r) ==
    /\ outcome[r] \in {"success", "cancelledMid"} => registry'[r] = "COMPLETED"
    /\ outcome[r] = "failed" => registry'[r] = "FAILED"
    /\ outcome[r] = "cancelledBefore" => registry'[r] = "RUNNING"

\* The one step that takes an ended entry back: setRunning of a request whose
\* cancellation came after its isCancelled.
Revived(r) ==
    /\ registry[r] = "CANCELLED" /\ registry'[r] = "RUNNING"
    /\ pc[r] = "admit" /\ cancelFlag[r]

\* The entry of an executed request ends as RecordedAs says.  An entry in one of
\* the three states WorkloadRegistry counts as terminal stays there until the
\* registry is made anew, with the exception Revived; and whoever saw a workload
\* CANCELLED never sees it COMPLETED, revived or not: the flag, which setRunning
\* leaves set, stops the execution before its first token.
ExecutedEntriesEnd ==
    /\ [][ \A r \in Requests :
             /\ pc[r] = "record" /\ pc'[r] = "done" /\ registry[r] # "none" => RecordedAs(r)
             /\ registry[r] \in {"COMPLETED", "FAILED", "CANCELLED"} =>
                   registry'[r] \in {registry[r], "none"} \/ Revived(r) ]_vars
    /\ \A r \in Requests :
          [](registry[r] = "CANCELLED" => [](registry[r] # "COMPLETED"))

\* Every request, and every load, unload and shutdown, returns: no order of
\* mutex_ and engine_mutex_ blocks a thread for good.
CallsReturn ==
    /\ \A r \in Requests : pc[r] = "start" ~> pc[r] = "done"
    /\ mutex = Admin ~> mutex # Admin

=============================================================================
