----------------------------- MODULE PluginLoader -----------------------------
(***************************************************************************)
(* src/plugin/PluginLoader: the cache of plugins and their modules.        *)
(* plugin_load, plugin_execute and plugin_unload run under plugin_mutex;   *)
(* plugin_discover probes each file without it, by loading and unloading   *)
(* the module, and takes the mutex only to enter what it found.  The       *)
(* operating system counts the loads of a module (dlopen, LoadLibrary).    *)
(* Names, identities and messages are left out.  Files may change: whether *)
(* a module loads and validates is decided anew each time.                 *)
(***************************************************************************)
EXTENDS Integers, FiniteSets

CONSTANTS
    Paths,          \* plugin files
    Discoverers,    \* threads that call plugin_discover
    None

ASSUME PluginAssumption == IsFiniteSet(Discoverers) /\ None \notin Paths

VARIABLES
    cache,      \* plugin_cache: known, state, loaded, initialized, error
    handle,     \* module_handle is set
    refs,       \* how often the module is loaded in the process
    inner,      \* whether the plugin has been initialized and not shut down
    probe,      \* the plugin_discover of each thread
    ran         \* the plugin whose pluginExecute the last step called

vars == <<cache, handle, refs, inner, probe, ran>>

NotProbing == [pc |-> "idle", path |-> None, held |-> FALSE, ok |-> FALSE]

\* PluginInternalState as it is created.
Init ==
    /\ cache = [p \in Paths |-> [known |-> FALSE, state |-> "DISCOVERED", loaded |-> FALSE,
                                 initialized |-> FALSE, error |-> FALSE]]
    /\ handle = [p \in Paths |-> FALSE]
    /\ refs = [p \in Paths |-> 0]
    /\ inner = [p \in Paths |-> FALSE]
    /\ probe = [d \in Discoverers |-> NotProbing]
    /\ ran = None

-----------------------------------------------------------------------------
(* plugin_discover, one file of the directory at a time.                    *)

\* The module is loaded, unless that fails, and validated.
ProbeLoad(d, p) ==
    /\ probe[d].pc = "idle"
    /\ \E loads, valid \in BOOLEAN :
          /\ probe' = [probe EXCEPT ![d] = [pc |-> "probing", path |-> p, held |-> loads,
                                            ok |-> loads /\ valid]]
          /\ refs' = IF loads THEN [refs EXCEPT ![p] = @ + 1] ELSE refs
    /\ ran' = None
    /\ UNCHANGED <<cache, handle, inner>>

\* Mutant: the probed module is not freed when it does not validate.
ProbeFreeValid(d) ==
    LET p == probe[d].path IN
    /\ probe[d].pc = "probing"
    /\ refs' = IF probe[d].ok THEN [refs EXCEPT ![p] = @ - 1] ELSE refs
    /\ probe' = [probe EXCEPT ![d].pc = "store", ![d].held = FALSE]
    /\ ran' = None
    /\ UNCHANGED <<cache, handle, inner>>

ProbeFree(d) ==
    LET p == probe[d].path IN
    /\ probe[d].pc = "probing"
    /\ refs' = IF probe[d].held THEN [refs EXCEPT ![p] = @ - 1] ELSE refs
    /\ probe' = [probe EXCEPT ![d].pc = "store", ![d].held = FALSE]
    /\ ran' = None
    /\ UNCHANGED <<cache, handle, inner>>

\* Mutant: what was found replaces the entry, loaded or not.
ProbeStoreAlways(d) ==
    LET p == probe[d].path IN
    /\ probe[d].pc = "store"
    /\ cache' = [cache EXCEPT ![p] = [known |-> TRUE, state |-> "DISCOVERED", loaded |-> FALSE,
                                      initialized |-> FALSE, error |-> ~probe[d].ok]]
    /\ probe' = [probe EXCEPT ![d] = NotProbing]
    /\ ran' = None
    /\ UNCHANGED <<handle, refs, inner>>

\* A new entry is DISCOVERED; an entry that is not loaded gets the error only.
ProbeStore(d) ==
    LET p == probe[d].path IN
    /\ probe[d].pc = "store"
    /\ cache' = IF cache[p].loaded THEN cache
                ELSE [cache EXCEPT ![p].known = TRUE, ![p].error = ~probe[d].ok]
    /\ probe' = [probe EXCEPT ![d] = NotProbing]
    /\ ran' = None
    /\ UNCHANGED <<handle, refs, inner>>

-----------------------------------------------------------------------------
(* plugin_load.                                                             *)

\* The module does not load, or does not validate and is freed again.
LoadFails(p) ==
    /\ ~cache[p].loaded
    /\ cache' = [cache EXCEPT ![p].known = TRUE, ![p].state = "UNLOADED", ![p].error = TRUE]
    /\ handle' = [handle EXCEPT ![p] = FALSE]
    /\ ran' = None
    /\ UNCHANGED <<refs, inner, probe>>

\* The module stays loaded whether or not pluginInitialize succeeds.
LoadSucceeds(p) ==
    /\ ~cache[p].loaded
    /\ \E up \in BOOLEAN :
          /\ cache' = [cache EXCEPT ![p] = [known |-> TRUE, loaded |-> TRUE, initialized |-> up,
                          state |-> IF up THEN "INITIALIZED" ELSE "LOADED", error |-> ~up]]
          /\ inner' = [inner EXCEPT ![p] = up]
    /\ refs' = [refs EXCEPT ![p] = @ + 1]
    /\ handle' = [handle EXCEPT ![p] = TRUE]
    /\ ran' = None
    /\ UNCHANGED probe

-----------------------------------------------------------------------------
\* plugin_execute: only loaded is looked at.  The call may report an error.
plugin_execute(p) ==
    /\ cache[p].loaded
    /\ ran' = p
    /\ \E rc \in BOOLEAN :
          cache' = IF rc THEN [cache EXCEPT ![p].error = TRUE] ELSE cache
    /\ UNCHANGED <<handle, refs, inner, probe>>

\* plugin_unload of an entry that is not loaded.
UnloadNothing(p) ==
    /\ cache[p].known /\ ~cache[p].loaded /\ ~handle[p]
    /\ cache' = [cache EXCEPT ![p].state = "UNLOADED"]
    /\ ran' = None
    /\ UNCHANGED <<handle, refs, inner, probe>>

\* plugin_unload: shut down if it was initialized, then free the module.
Unload(p) ==
    /\ cache[p].loaded \/ handle[p]
    /\ inner' = [inner EXCEPT ![p] = @ /\ ~(cache[p].initialized /\ handle[p])]
    /\ refs' = IF handle[p] THEN [refs EXCEPT ![p] = @ - 1] ELSE refs
    /\ handle' = [handle EXCEPT ![p] = FALSE]
    /\ cache' = [cache EXCEPT ![p].loaded = FALSE, ![p].initialized = @ /\ ~handle[p],
                              ![p].state = "UNLOADED"]
    /\ ran' = None
    /\ UNCHANGED probe

Next ==
    \/ \E d \in Discoverers : ProbeFree(d) \/ ProbeStore(d) \/ \E p \in Paths : ProbeLoad(d, p)
    \/ \E p \in Paths :
          LoadFails(p) \/ LoadSucceeds(p) \/ plugin_execute(p) \/ UnloadNothing(p) \/ Unload(p)

Spec == Init /\ [][Next]_vars

-----------------------------------------------------------------------------
(* Properties.                                                              *)

Count(b) == IF b THEN 1 ELSE 0

\* Every load of a module is matched by one free: it is mapped once for the
\* handle in the cache and once for every probe that is looking at it; and
\* plugin_execute calls no plugin whose module is not the one in the cache.
LoadsAreFreed ==
    /\ \A p \in Paths :
          refs[p] = Count(handle[p]) + Cardinality({d \in Discoverers : probe[d].held /\ probe[d].path = p})
    /\ ran # None => handle[ran]

\* The entry, the handle and the plugin agree on the state of its life,
\* whatever a probe of the same file writes in between; so a plugin is shut
\* down before its module goes.
LifecycleAgrees ==
    \A p \in Paths :
        /\ cache[p].loaded <=> handle[p]
        /\ cache[p].loaded <=> cache[p].state \in {"LOADED", "INITIALIZED"}
        /\ cache[p].initialized <=> cache[p].state = "INITIALIZED"
        /\ cache[p].initialized <=> inner[p]

=============================================================================
