--------------------------- MODULE HandlesProofs ---------------------------
(***************************************************************************)
(* Proofs about the two components that keep handles of what is outside    *)
(* the process: PluginLoader, of the modules it has loaded, and            *)
(* VulkanClients, of the buffers on the device.                            *)
(*                                                                         *)
(* PluginLoader, for every set of files and every finite set of threads    *)
(* that discover.  LoadsAreFreed counts the probes that hold a module, so  *)
(* the invariant says when a probe may hold one (ProbesHold): between      *)
(* ProbeLoad and ProbeFree only, and of a file it knows.  LifecycleAgrees  *)
(* is inductive with the types.                                            *)
(*                                                                         *)
(* VulkanClients, for every model, prompt and list of devices.  What is    *)
(* noted of a buffer is its size as long as the buffer exists (Sized), and *)
(* ids are never given out twice; the weights that forward_token uses are  *)
(* among those initialize has uploaded (Supply), each with the elements    *)
(* that the shader goes through (OperationSupplied).                       *)
(*                                                                         *)
(* HandlesOwned, for every set of sizes a host may ask for as well.  An    *)
(* operation of the tensor operations takes objects that members and       *)
(* buffers_ name to such objects again, each buffer named once (Owns),     *)
(* however far it has come when a call of Vulkan fails.  A shutdown may    *)
(* find less: it begins from Leaves, where the layouts of a pipeline that  *)
(* failed to load are named and gone, and ends with nothing (Idle, Bare).  *)
(* A host owns buffers by its own ids (HostOwns), and what it believes to  *)
(* have allocated is their sum, an induction over sets of naturals         *)
(* (SmallestNat, UsedWithout).  OwnInv says which of these holds when.     *)
(***************************************************************************)
EXTENDS VulkanClients, PluginLoader, FiniteSetTheorems, WellFoundedInduction, TLAPS

PluginStates == {"DISCOVERED", "UNLOADED", "LOADED", "INITIALIZED"}

Entries == [known : BOOLEAN, state : PluginStates, loaded : BOOLEAN,
            initialized : BOOLEAN, error : BOOLEAN]

Probes == [pc : {"idle", "probing", "store"}, path : Paths \cup {None},
           held : BOOLEAN, ok : BOOLEAN]

\* The variables keep their types: PluginInternalState, and what a probe of
\* plugin_discover remembers.
TypeOK ==
    /\ cache \in [Paths -> Entries]
    /\ handle \in [Paths -> BOOLEAN]
    /\ refs \in [Paths -> Int]
    /\ inner \in [Paths -> BOOLEAN]
    /\ probe \in [Discoverers -> Probes]
    /\ ran \in Paths \cup {None}

\* A probe works on a file, and holds its module until it has freed it.
ProbesHold ==
    \A d \in Discoverers :
        /\ probe[d].pc # "idle" => probe[d].path \in Paths
        /\ probe[d].held => probe[d].pc = "probing"

\* The probes that hold the module of p.
Holders(p) == {d \in Discoverers : probe[d].held /\ probe[d].path = p}

IInv == TypeOK /\ ProbesHold /\ LoadsAreFreed /\ LifecycleAgrees

-----------------------------------------------------------------------------
(* Counting.                                                                *)

\* Sets of discovering threads can be counted.
LEMMA HoldersCount ==
    ASSUME NEW p \in Paths
    PROVE  IsFiniteSet(Holders(p)) /\ Cardinality(Holders(p)) \in Nat
  <1>1. Holders(p) \subseteq Discoverers BY DEF Holders
  <1> QED BY <1>1, PluginAssumption, FS_Subset, FS_CardinalityType

\* A thread that holds a module is one more, and the counts of other files
\* stay as they are.
LEMMA ModuleTaken ==
    ASSUME IInv, NEW d \in Discoverers, NEW p \in Paths, ProbeLoad(d, p), probe'[d].held
    PROVE  /\ Cardinality(Holders(p)') = Cardinality(Holders(p)) + 1
           /\ \A q \in Paths \ {p} : Holders(q)' = Holders(q)
  <1>1. /\ probe'[d].path = p
        /\ \A e \in Discoverers \ {d} : probe'[e] = probe[e]
    BY DEF ProbeLoad, IInv, TypeOK, Entries, Probes
  <1>2. ~probe[d].held BY DEF ProbeLoad, IInv, ProbesHold
  <1>3. Holders(p)' = Holders(p) \cup {d} /\ d \notin Holders(p)
    BY <1>1, <1>2 DEF Holders
  <1>4. \A q \in Paths \ {p} : Holders(q)' = Holders(q) BY <1>1, <1>2 DEF Holders
  <1>5. IsFiniteSet(Holders(p)) BY ONLY p \in Paths, HoldersCount
  <1>6. Cardinality(Holders(p) \cup {d}) = Cardinality(Holders(p)) + 1
    BY ONLY <1>3, <1>5, FS_AddElement
  <1> QED BY ONLY <1>3, <1>4, <1>6

\* A thread that frees the module it held is one less.
LEMMA ModuleFreed ==
    ASSUME IInv, NEW d \in Discoverers, ProbeFree(d), probe[d].held,
           NEW p \in Paths, p = probe[d].path
    PROVE  /\ Cardinality(Holders(p)') = Cardinality(Holders(p)) - 1
           /\ \A q \in Paths \ {p} : Holders(q)' = Holders(q)
  <1>1. ~probe'[d].held /\ \A e \in Discoverers \ {d} : probe'[e] = probe[e]
    BY DEF ProbeFree, IInv, TypeOK, Entries, Probes
  <1>2. Holders(p)' = Holders(p) \ {d} /\ d \in Holders(p) BY <1>1 DEF Holders
  <1>3. \A q \in Paths \ {p} : Holders(q)' = Holders(q) BY <1>1 DEF Holders
  <1>4. IsFiniteSet(Holders(p)) BY ONLY p \in Paths, HoldersCount
  <1>5. Cardinality(Holders(p) \ {d}) = Cardinality(Holders(p)) - 1
    BY ONLY <1>2, <1>4, FS_RemoveElement
  <1> QED BY ONLY <1>2, <1>3, <1>5

\* Other steps hold what was held before.
LEMMA SameHolders ==
    ASSUME \A d \in Discoverers : /\ probe'[d].held <=> probe[d].held
                                  /\ probe[d].held => probe'[d].path = probe[d].path
    PROVE  \A p \in Paths : Holders(p)' = Holders(p)
  BY DEF Holders

\* LoadsAreFreed in terms of Holders.
LEMMA LoadsByHolders ==
    /\ LoadsAreFreed <=> /\ \A p \in Paths : refs[p] = Count(handle[p]) + Cardinality(Holders(p))
                         /\ ran # None => handle[ran]
    /\ LoadsAreFreed' <=> /\ \A p \in Paths : refs'[p] = Count(handle'[p]) + Cardinality(Holders(p)')
                          /\ ran' # None => handle'[ran']
  BY DEF LoadsAreFreed, Holders, Count

-----------------------------------------------------------------------------
(* Each operation preserves the invariant.                                  *)

LEMMA InitIInv == Init => IInv
  <1> SUFFICES ASSUME Init PROVE IInv OBVIOUS
  <1>1. TypeOK BY DEF Init, TypeOK, Entries, Probes, NotProbing, PluginStates
  <1>2. ProbesHold BY DEF Init, ProbesHold, NotProbing
  <1>3. \A p \in Paths : Holders(p) = {} BY DEF Init, Holders, NotProbing
  <1>4. LoadsAreFreed
    <2>1. \A p \in Paths : refs[p] = Count(handle[p]) + Cardinality(Holders(p))
      <3>1. \A p \in Paths : Cardinality(Holders(p)) = 0 BY <1>3, FS_EmptySet
      <3>2. \A p \in Paths : ~handle[p] /\ refs[p] = 0 BY DEF Init
      <3>3. \A p \in Paths : Count(handle[p]) = 0 BY <3>2 DEF Count
      <3> QED BY <3>1, <3>2, <3>3
    <2> QED BY <2>1, LoadsByHolders DEF Init
  <1>5. LifecycleAgrees BY DEF Init, LifecycleAgrees
  <1> QED BY <1>1, <1>2, <1>4, <1>5 DEF IInv

\* plugin_discover maps the module of a file.
LEMMA ProbeLoadStep ==
    ASSUME IInv, NEW d \in Discoverers, NEW p \in Paths, ProbeLoad(d, p) PROVE IInv'
  <1> USE DEF IInv
  <1>1. TypeOK' BY DEF ProbeLoad, TypeOK, Entries, Probes
  <1>2. ProbesHold' BY DEF ProbeLoad, ProbesHold, TypeOK, Entries, Probes
  <1>3. LifecycleAgrees' BY DEF ProbeLoad, LifecycleAgrees
  <1>4. LoadsAreFreed'
    <2>1. CASE probe'[d].held
      <3>1. refs' = [refs EXCEPT ![p] = @ + 1] BY <2>1 DEF ProbeLoad, TypeOK, Entries, Probes
      <3>2. /\ refs'[p] = refs[p] + 1 /\ \A q \in Paths \ {p} : refs'[q] = refs[q]
            /\ refs[p] = Count(handle[p]) + Cardinality(Holders(p))
            /\ Cardinality(Holders(p)') = Cardinality(Holders(p)) + 1
            /\ \A q \in Paths \ {p} : Holders(q)' = Holders(q)
        BY <2>1, <3>1, ModuleTaken, LoadsByHolders DEF TypeOK, Entries, Probes
      <3>3. refs'[p] = Count(handle[p]) + Cardinality(Holders(p)')
        BY <3>2, HoldersCount DEF Count
      <3> QED BY <3>2, <3>3, LoadsByHolders DEF ProbeLoad
    <2>2. CASE ~probe'[d].held
      <3>1. refs' = refs BY <2>2 DEF ProbeLoad, TypeOK, Entries, Probes
      <3>2. \A q \in Paths : Holders(q)' = Holders(q)
        <4>1. \A e \in Discoverers : (probe'[e].held <=> probe[e].held) /\ (probe[e].held => probe'[e] = probe[e])
          BY <2>2 DEF ProbeLoad, TypeOK, ProbesHold, Probes
        <4> QED BY <4>1, SameHolders
      <3> QED BY <3>1, <3>2, LoadsByHolders DEF ProbeLoad
    <2> QED BY <2>1, <2>2
  <1> QED BY <1>1, <1>2, <1>3, <1>4

\* plugin_discover frees what it mapped.
LEMMA ProbeFreeStep ==
    ASSUME IInv, NEW d \in Discoverers, ProbeFree(d) PROVE IInv'
  <1> USE DEF IInv
  <1>0. probe[d].path \in Paths BY DEF ProbeFree, ProbesHold
  <1>1. TypeOK'
    <2>1. refs' \in [Paths -> Int] BY <1>0 DEF ProbeFree, TypeOK, Entries, Probes
    <2>2. probe' \in [Discoverers -> Probes]
      <3> DEFINE new == [probe[d] EXCEPT !.pc = "store", !.held = FALSE]
      <3>1. probe \in [Discoverers -> Probes] BY DEF TypeOK
      <3>2. new \in Probes BY ONLY <3>1, d \in Discoverers DEF Probes
      <3>3. probe' = [probe EXCEPT ![d] = new] BY <3>1 DEF ProbeFree
      <3> HIDE DEF new
      <3> QED BY ONLY <3>1, <3>2, <3>3
    <2> QED BY <2>1, <2>2 DEF ProbeFree, TypeOK, Entries, Probes
  <1>2. ProbesHold' BY DEF ProbeFree, ProbesHold, TypeOK, Entries, Probes
  <1>3. LifecycleAgrees' BY DEF ProbeFree, LifecycleAgrees
  <1>4. LoadsAreFreed'
    <2>1. CASE probe[d].held
      <3> DEFINE p == probe[d].path
      <3>1. \A q \in Paths : refs[q] = Count(handle[q]) + Cardinality(Holders(q))
        BY LoadsByHolders
      <3>2. /\ refs' = [refs EXCEPT ![p] = @ - 1] /\ UNCHANGED handle /\ ran' = None
        BY <2>1 DEF ProbeFree
      <3>3. ASSUME NEW q \in Paths PROVE refs'[q] = Count(handle'[q]) + Cardinality(Holders(q)')
        <4>1. CASE q = p
          <5>1. Cardinality(Holders(q)') = Cardinality(Holders(q)) - 1 BY <2>1, <4>1, ModuleFreed
          <5>2. refs'[q] = refs[q] - 1 BY <3>2, <4>1 DEF TypeOK, Entries, Probes
          <5> QED BY <5>1, <5>2, <3>1, <3>2, HoldersCount DEF Count
        <4>2. CASE q # p
          <5>1. Holders(q)' = Holders(q) BY <1>0, <2>1, <4>2, ModuleFreed
          <5>2. refs'[q] = refs[q] BY <3>2, <4>2 DEF TypeOK, Entries, Probes
          <5> QED BY <5>1, <5>2, <3>1, <3>2
        <4> QED BY <4>1, <4>2
      <3> QED BY <3>2, <3>3, LoadsByHolders
    <2>2. CASE ~probe[d].held
      <3>1. refs' = refs BY <2>2 DEF ProbeFree
      <3>2. \A q \in Paths : Holders(q)' = Holders(q)
        BY <2>2, SameHolders DEF ProbeFree, TypeOK, Entries, Probes
      <3> QED BY <3>1, <3>2, LoadsByHolders DEF ProbeFree
    <2> QED BY <2>1, <2>2
  <1> QED BY <1>1, <1>2, <1>3, <1>4

\* plugin_discover enters what it found, possibly long after it looked.
LEMMA ProbeStoreStep ==
    ASSUME IInv, NEW d \in Discoverers, ProbeStore(d) PROVE IInv'
  <1> USE DEF IInv
  <1>0. probe[d].path \in Paths BY DEF ProbeStore, ProbesHold
  <1>1. TypeOK'
    <2>1. cache' \in [Paths -> Entries]
      <3> DEFINE p == probe[d].path
                 error == ~probe[d].ok
                 new == [cache[p] EXCEPT !.known = TRUE, !.error = error]
      <3>1. new \in Entries
        <4>1. cache[p] \in Entries BY <1>0 DEF TypeOK
        <4>2. error \in BOOLEAN OBVIOUS
        <4> HIDE DEF p, error
        <4> QED BY ONLY <4>1, <4>2 DEF Entries
      <3>2. cache' = cache \/ cache' = [cache EXCEPT ![p] = new] BY DEF ProbeStore
      <3>3. cache \in [Paths -> Entries] BY DEF TypeOK
      <3> HIDE DEF p, new
      <3> QED BY ONLY <3>1, <3>2, <3>3
    <2>2. probe' \in [Discoverers -> Probes] BY DEF ProbeStore, TypeOK, Probes, NotProbing
    <2> QED BY <2>1, <2>2 DEF ProbeStore, TypeOK, Entries, Probes
  <1>2. ProbesHold' BY DEF ProbeStore, ProbesHold, TypeOK, Entries, Probes, NotProbing
  <1>3. LifecycleAgrees' BY <1>0 DEF ProbeStore, LifecycleAgrees, TypeOK, Entries, Probes
  <1>4. \A q \in Paths : Holders(q)' = Holders(q)
    <2>1. ~probe[d].held BY DEF ProbeStore, ProbesHold
    <2>2. ~probe'[d].held /\ \A e \in Discoverers \ {d} : probe'[e] = probe[e]
      BY DEF ProbeStore, TypeOK, NotProbing
    <2> QED BY <2>1, <2>2, SameHolders
  <1>5. LoadsAreFreed' BY <1>4, LoadsByHolders DEF ProbeStore
  <1> QED BY <1>1, <1>2, <1>3, <1>5

\* plugin_load, plugin_execute and plugin_unload, under plugin_mutex.
LEMMA LockedStep ==
    ASSUME IInv, NEW p \in Paths,
           LoadFails(p) \/ LoadSucceeds(p) \/ plugin_execute(p) \/ UnloadNothing(p) \/ Unload(p)
    PROVE  IInv'
  <1> USE DEF IInv, LoadFails, LoadSucceeds, plugin_execute, UnloadNothing, Unload
  <1>0. UNCHANGED probe OBVIOUS
  <1>1. TypeOK'
    <2> USE DEF TypeOK, Entries, PluginStates
    <2>0. cache[p] \in Entries OBVIOUS
    <2>1. CASE LoadFails(p)
      <3>1. [cache[p] EXCEPT !.known = TRUE, !.state = "UNLOADED", !.error = TRUE] \in Entries
        BY <2>0
      <3>2. cache' \in [Paths -> Entries] BY <2>1, <3>1
      <3> QED BY <2>1, <3>2
    <2>2. CASE LoadSucceeds(p) BY <2>2
    <2>3. CASE plugin_execute(p)
      <3>1. [cache[p] EXCEPT !.error = TRUE] \in Entries BY <2>0
      <3>2. cache' \in [Paths -> Entries] BY <2>3, <3>1
      <3> QED BY <2>3, <3>2
    <2>4. CASE UnloadNothing(p) BY <2>4
    <2>5. CASE Unload(p)
      <3>1. [cache[p] EXCEPT !.loaded = FALSE, !.initialized = @ /\ ~handle[p], !.state = "UNLOADED"]
               \in Entries
        BY <2>0
      <3>2. cache' \in [Paths -> Entries] BY <2>5, <3>1
      <3>3. inner' \in [Paths -> BOOLEAN] /\ handle' \in [Paths -> BOOLEAN] BY <2>5
      <3>4. refs' \in [Paths -> Int] BY <2>5
      <3> QED BY <2>5, <3>2, <3>3, <3>4
    <2> QED BY <2>1, <2>2, <2>3, <2>4, <2>5
  <1>2. ProbesHold' BY <1>0 DEF ProbesHold
  <1>3. LifecycleAgrees'
    <2> USE DEF LifecycleAgrees, TypeOK, Entries
    <2>1. CASE LoadFails(p) BY <2>1
    <2>2. CASE LoadSucceeds(p) BY <2>2
    <2>3. CASE plugin_execute(p) BY <2>3
    <2>4. CASE UnloadNothing(p) BY <2>4
    <2>5. CASE Unload(p) BY <2>5
    <2> QED BY <2>1, <2>2, <2>3, <2>4, <2>5
  <1>4. \A q \in Paths : Holders(q)' = Holders(q) BY <1>0 DEF Holders
  <1>5. LoadsAreFreed'
    <2> USE <1>4, LoadsByHolders, HoldersCount DEF TypeOK, Entries, Probes, Count
    <2>1. CASE LoadFails(p) BY <2>1 DEF LifecycleAgrees
    <2>2. CASE LoadSucceeds(p) BY <2>2 DEF LifecycleAgrees
    <2>3. CASE plugin_execute(p) BY <2>3 DEF LifecycleAgrees
    <2>4. CASE UnloadNothing(p) BY <2>4
    <2>5. CASE Unload(p) BY <2>5
    <2> QED BY <2>1, <2>2, <2>3, <2>4, <2>5
  <1> QED BY <1>1, <1>2, <1>3, <1>5

-----------------------------------------------------------------------------
\* The invariant holds of every behaviour of the loader.
THEOREM Invariance == Spec => []IInv
  <1>1. IInv /\ [Next]_vars => IInv'
    <2> SUFFICES ASSUME IInv, [Next]_vars PROVE IInv' OBVIOUS
    <2>1. CASE UNCHANGED vars
      BY <2>1 DEF vars, IInv, TypeOK, ProbesHold, LoadsAreFreed, LifecycleAgrees
    <2>2. ASSUME NEW d \in Discoverers,
                 ProbeFree(d) \/ ProbeStore(d) \/ \E p \in Paths : ProbeLoad(d, p)
          PROVE  IInv'
      BY <2>2, ProbeFreeStep, ProbeStoreStep, ProbeLoadStep
    <2> QED BY <2>1, <2>2, LockedStep DEF Next
  <1> QED BY <1>1, InitIInv, PTL DEF Spec

\* Every load of a plugin's module is matched by one free, and pluginExecute
\* is called in a mapped module, however discoveries interleave with
\* plugin_load and plugin_unload.
THEOREM LoadsMatchFrees == Spec => []LoadsAreFreed
  <1>1. IInv => LoadsAreFreed BY DEF IInv
  <1> QED BY <1>1, Invariance, PTL

\* The cache entry, the module handle and the plugin itself agree on the state
\* of its life, whatever a probe enters late.
THEOREM LifecyclesAgree == Spec => []LifecycleAgrees
  <1>1. IInv => LifecycleAgrees BY DEF IInv
  <1> QED BY <1>1, Invariance, PTL

-----------------------------------------------------------------------------
(* VulkanClients.  First the backend.                                       *)

\* Ids of buffers have been handed out, none of them 0.
BackendOK(v) ==
    /\ v \in [live : {v.live}, held : {v.held}, buffers : {v.buffers}, next : {v.next},
              available : {v.available}, memory : {v.memory}, twice : {v.twice}]
    /\ v.next \in Nat \ {0}
    /\ \A i \in DOMAIN v.buffers : i \in Nat \ {0} /\ i < v.next /\ v.buffers[i] \in Nat

\* From v to w, no buffer has changed.
SameBuffers(v, w) == BackendOK(w) /\ w.buffers = v.buffers /\ w.next = v.next

\* From v to w, old buffers have kept their sizes or are gone.
Later(v, w) ==
    /\ BackendOK(w) /\ v.next <= w.next
    /\ \A i \in DOMAIN w.buffers : i < v.next => i \in DOMAIN v.buffers /\ w.buffers[i] = v.buffers[i]

LEMMA SameIsLater ==
    ASSUME NEW v, NEW w, BackendOK(v), SameBuffers(v, w)
    PROVE  Later(v, w)
  BY DEF SameBuffers, Later, BackendOK

LEMMA DestroyKeeps ==
    ASSUME NEW v, NEW H, BackendOK(v)
    PROVE  SameBuffers(v, Destroy(v, H))
  BY DEF Destroy, BackendOK, SameBuffers

LEMMA FailKeeps ==
    ASSUME NEW v, BackendOK(v)
    PROVE  SameBuffers(v, fail(v))
  BY DEF fail, BackendOK, SameBuffers

LEMMA LiveKeeps ==
    ASSUME NEW v, NEW H, BackendOK(v)
    PROVE  SameBuffers(v, [v EXCEPT !.live = @ \cup H])
  BY DEF BackendOK, SameBuffers

LEMMA AttemptKeeps ==
    ASSUME NEW v, NEW script, NEW o \in Attempt(v, script), BackendOK(v)
    PROVE  SameBuffers(v, o.v)
  <1>1. PICK k \in 0..Len(script) :
          o = [v |-> Destroy([v EXCEPT !.live = @ \cup Made(script, k)],
                                IF k < Len(script) THEN script[k + 1].undo ELSE {}),
               made |-> Made(script, k),
               ok |-> k = Len(script)]
    BY DEF Attempt
  <1> DEFINE w == [v EXCEPT !.live = @ \cup Made(script, k)]
             H == IF k < Len(script) THEN script[k + 1].undo ELSE {}
  <1>2. SameBuffers(v, w)
    BY LiveKeeps
  <1>3. o.v = Destroy(w, H)
    BY <1>1
  <1> HIDE DEF w, H
  <1> QED
    BY <1>2, <1>3, DestroyKeeps DEF SameBuffers

LEMMA SameTwice ==
    ASSUME NEW u, NEW v, NEW w, SameBuffers(u, v), SameBuffers(v, w)
    PROVE  SameBuffers(u, w)
  BY DEF SameBuffers

\* createBuffer: a new id and its size, or nothing new.
LEMMA BufferCreated ==
    ASSUME NEW v, NEW n \in Nat, NEW c \in createBuffer(v, n), BackendOK(v)
    PROVE  /\ Later(v, c.v)
           /\ \/ c.id = 0
              \/ /\ c.id = v.next /\ c.v.next = v.next + 1
                 /\ c.id \in DOMAIN c.v.buffers /\ c.v.buffers[c.id] = n
  <1> DEFINE buffer == <<"buffer", v.next>>
             script == <<Step(buffer, {}), Step(<<"memory", v.next>>, {buffer})>>
             Entered(w) == [w EXCEPT !.next = @ + 1,
                              !.buffers = [i \in DOMAIN @ \cup {v.next} |-> IF i = v.next THEN n ELSE @[i]]]
  <1>1. CASE n = 0
    <2>1. c = [v |-> fail(v), id |-> 0]
      BY <1>1 DEF createBuffer
    <2> QED
      BY <2>1, FailKeeps, SameIsLater
  <1>2. CASE n # 0
    <2>1. PICK o \in Attempt(v, script) :
            c = IF o.ok /\ v.memory # "none" THEN [v |-> Entered(o.v), id |-> v.next]
                ELSE [v |-> fail(IF o.ok THEN Destroy(o.v, o.made) ELSE o.v), id |-> 0]
      BY <1>2 DEF createBuffer
    <2>2. SameBuffers(v, o.v)
      BY AttemptKeeps
    <2>3. CASE o.ok /\ v.memory # "none"
      <3> DEFINE w == o.v
                 f == [i \in DOMAIN w.buffers \cup {v.next} |-> IF i = v.next THEN n ELSE w.buffers[i]]
      <3>1. c.id = v.next /\ c.v = [w EXCEPT !.next = w.next + 1, !.buffers = f]
        BY <2>1, <2>3
      <3>2. BackendOK(w) /\ w.buffers = v.buffers /\ w.next = v.next
        BY <2>2 DEF SameBuffers
      <3> HIDE DEF w
      <3>3. c.v \in [live : {w.live}, held : {w.held}, buffers : {f}, next : {v.next + 1},
                     available : {w.available}, memory : {w.memory}, twice : {w.twice}]
        BY <3>1, <3>2 DEF BackendOK
      <3>4. /\ DOMAIN f = DOMAIN v.buffers \cup {v.next} /\ f[v.next] = n
            /\ \A i \in DOMAIN v.buffers \ {v.next} : f[i] = v.buffers[i]
        BY <3>2
      <3> HIDE DEF f
      <3>5. v.next \in Nat \ {0} /\ \A i \in DOMAIN v.buffers : i \in Nat \ {0} /\ i < v.next /\ v.buffers[i] \in Nat
        BY DEF BackendOK
      <3>6. \A i \in DOMAIN f : i \in Nat \ {0} /\ i < v.next + 1 /\ f[i] \in Nat
        BY <3>4, <3>5
      <3>7. BackendOK(c.v)
        BY <3>3, <3>5, <3>6 DEF BackendOK
      <3>8. \A i \in DOMAIN f : i < v.next => i \in DOMAIN v.buffers /\ f[i] = v.buffers[i]
        BY <3>4, <3>5
      <3>9. c.v.buffers = f /\ c.v.next = v.next + 1
        BY <3>3
      <3>10. Later(v, c.v)
        BY <3>5, <3>7, <3>8, <3>9 DEF Later
      <3> QED
        BY <3>1, <3>4, <3>9, <3>10
    <2>4. CASE ~(o.ok /\ v.memory # "none")
      <3> DEFINE w == IF o.ok THEN Destroy(o.v, o.made) ELSE o.v
      <3>1. SameBuffers(v, w)
        BY <2>2, DestroyKeeps, SameTwice DEF SameBuffers
      <3>2. c = [v |-> fail(w), id |-> 0]
        BY <2>1, <2>4
      <3> HIDE DEF w
      <3>3. SameBuffers(v, fail(w))
        BY <3>1, FailKeeps, SameTwice DEF SameBuffers
      <3> QED
        BY <3>2, <3>3, SameIsLater
    <2> QED
      BY <2>3, <2>4
  <1> QED
    BY <1>1, <1>2

LEMMA BufferDestroyed ==
    ASSUME NEW v, NEW id, BackendOK(v)
    PROVE  Later(v, destroyBuffer(v, id)) /\ destroyBuffer(v, id).next = v.next
  <1>1. CASE id \notin DOMAIN v.buffers
    BY <1>1 DEF destroyBuffer, Later, BackendOK
  <1>2. CASE id \in DOMAIN v.buffers
    <2> DEFINE w == Destroy(v, BufferObjects(id))
               f == [i \in DOMAIN w.buffers \ {id} |-> w.buffers[i]]
               d == destroyBuffer(v, id)
    <2>1. SameBuffers(v, w)
      BY DestroyKeeps
    <2>2. d = [w EXCEPT !.buffers = f]
      BY <1>2 DEF destroyBuffer
    <2> HIDE DEF w, d
    <2>3. d \in [live : {w.live}, held : {w.held}, buffers : {f}, next : {v.next},
                 available : {w.available}, memory : {w.memory}, twice : {w.twice}]
      BY <2>1, <2>2 DEF BackendOK, SameBuffers
    <2>4. DOMAIN f = DOMAIN v.buffers \ {id} /\ \A i \in DOMAIN f : f[i] = v.buffers[i]
      BY <2>1 DEF SameBuffers
    <2> HIDE DEF f
    <2>5. BackendOK(d)
      BY <2>3, <2>4 DEF BackendOK
    <2> QED
      BY <2>3, <2>4, <2>5 DEF Later, d, BackendOK
  <1> QED
    BY <1>1, <1>2

LEMMA BuffersDestroyed ==
    ASSUME NEW v, NEW ids, BackendOK(v)
    PROVE  Later(v, destroyBuffers(v, ids)) /\ DOMAIN destroyBuffers(v, ids).buffers = DOMAIN v.buffers \ ids
  <1> DEFINE known == ids \cap DOMAIN v.buffers
             w == Destroy(v, UNION {BufferObjects(i) : i \in known})
             f == [i \in DOMAIN w.buffers \ known |-> w.buffers[i]]
             d == destroyBuffers(v, ids)
  <1>1. SameBuffers(v, w)
    BY DestroyKeeps
  <1>2. d = [w EXCEPT !.buffers = f]
    BY DEF destroyBuffers
  <1> HIDE DEF w, d
  <1>3. d \in [live : {w.live}, held : {w.held}, buffers : {f}, next : {v.next},
               available : {w.available}, memory : {w.memory}, twice : {w.twice}]
    BY <1>1, <1>2 DEF BackendOK, SameBuffers
  <1>4. DOMAIN f = DOMAIN v.buffers \ ids /\ \A i \in DOMAIN f : f[i] = v.buffers[i]
    BY <1>1 DEF SameBuffers
  <1> HIDE DEF f
  <1>5. BackendOK(d)
    BY <1>3, <1>4 DEF BackendOK
  <1> QED
    BY <1>3, <1>4, <1>5 DEF Later, d, BackendOK

LEMMA LaterTwice ==
    ASSUME NEW u, NEW v, NEW w, BackendOK(u), Later(u, v), Later(v, w)
    PROVE  Later(u, w)
  <1>1. u.next \in Nat /\ v.next \in Nat /\ w.next \in Nat /\ u.next <= v.next /\ v.next <= w.next
    BY DEF Later, BackendOK
  <1>2. ASSUME NEW i \in DOMAIN w.buffers, i < u.next
        PROVE  i \in DOMAIN u.buffers /\ w.buffers[i] = u.buffers[i]
    <2>1. i \in Nat
      BY DEF Later, BackendOK
    <2>2. i < v.next
      BY <1>1, <1>2, <2>1
    <2> QED
      BY <1>2, <2>2 DEF Later
  <1> QED
    BY <1>1, <1>2 DEF Later

\* Transfers change no buffer's size.
LEMMA TransferKeeps ==
    ASSUME NEW v, NEW o \in Transfer(v), BackendOK(v)
    PROVE  SameBuffers(v, o.v)
  <1>1. CASE o \in copyBuffer(v)
    <2> DEFINE s == Own("staging")
               m == Own("stagingMemory")
               script == <<Step(s, {}), Step(m, {s}), Step(Own("cmd"), {s, m})>>
    <2>1. PICK p \in Attempt(v, script) :
            o = [v |-> IF p.ok THEN Destroy(p.v, p.made) ELSE fail(p.v), ok |-> p.ok]
      BY <1>1 DEF copyBuffer
    <2>2. SameBuffers(v, p.v)
      BY AttemptKeeps
    <2> QED
      BY <2>1, <2>2, DestroyKeeps, FailKeeps DEF SameBuffers
  <1>2. CASE o \in {[v |-> v, ok |-> TRUE], [v |-> fail(v), ok |-> FALSE]}
    <2>1. o.v = v \/ o.v = fail(v)
      BY <1>2
    <2> QED
      BY <2>1, FailKeeps DEF SameBuffers
  <1> QED
    BY <1>1, <1>2 DEF Transfer

LEMMA UploadBytesKeeps ==
    ASSUME NEW v, NEW id, NEW n, NEW o \in uploadBytes(v, id, n), BackendOK(v)
    PROVE  SameBuffers(v, o.v)
  <1>1. o = [v |-> fail(v), ok |-> FALSE] \/ o \in Transfer(v)
    BY DEF uploadBytes
  <1> QED
    BY <1>1, FailKeeps, TransferKeeps

LEMMA DownloadKeeps ==
    ASSUME NEW v, NEW id, NEW o \in download(v, id), BackendOK(v)
    PROVE  SameBuffers(v, o.v)
  <1>1. o = [v |-> fail(v), ok |-> FALSE] \/ o \in Transfer(v)
    BY DEF download
  <1> QED
    BY <1>1, FailKeeps, TransferKeeps
-----------------------------------------------------------------------------
(* The tensor operations.                                                   *)

TmpSlots == {"x", "out", "b"}

\* What is noted of a buffer is its size, as long as the buffer exists.
Sized(v, b) ==
    /\ b.id \in Nat /\ b.n \in Nat /\ b.id < v.next
    /\ b.id \in DOMAIN v.buffers => v.buffers[b.id] = b.n

\* What a dispatch has bound is large enough.
Fits(bound) == \A b \in bound : b.id # 0 => b.size >= b.n

Shape(u) ==
    u \in [vk : {u.vk}, ready : {u.ready}, device : {u.device}, held : {u.held}, tensors : {u.tensors},
           tmp : {u.tmp}, bound : {u.bound}]

OpsOK(u) ==
    /\ Shape(u) /\ BackendOK(u.vk)
    /\ u.tmp = [s \in TmpSlots |-> u.tmp[s]] /\ \A s \in TmpSlots : Sized(u.vk, u.tmp[s])
    /\ \A x \in DOMAIN u.tensors : Sized(u.vk, u.tensors[x])

LEMMA StaySized ==
    ASSUME NEW v, NEW w, NEW b, BackendOK(v), Later(v, w), Sized(v, b)
    PROVE  Sized(w, b)
  <1>1. v.next \in Nat /\ w.next \in Nat /\ v.next <= w.next
    BY DEF Later, BackendOK
  <1>2. b.id \in Nat /\ b.id < w.next
    BY <1>1 DEF Sized
  <1> QED
    BY <1>2 DEF Sized, Later

\* The tensor operations after their backend has gone on.
LEMMA BackendGoesOn ==
    ASSUME NEW u, NEW w, OpsOK(u), Later(u.vk, w)
    PROVE  /\ OpsOK([u EXCEPT !.vk = w])
           /\ [u EXCEPT !.vk = w] \in [vk : {w}, ready : {u.ready}, device : {u.device}, held : {u.held},
                                       tensors : {u.tensors}, tmp : {u.tmp}, bound : {u.bound}]
  <1> DEFINE y == [u EXCEPT !.vk = w]
  <1>1. y \in [vk : {w}, ready : {u.ready}, device : {u.device}, held : {u.held},
               tensors : {u.tensors}, tmp : {u.tmp}, bound : {u.bound}]
    BY DEF OpsOK, Shape
  <1> HIDE DEF y
  <1>2. y.vk = w /\ y.tensors = u.tensors /\ y.tmp = u.tmp /\ Shape(y)
    BY <1>1 DEF Shape
  <1>3. \A s \in TmpSlots : Sized(w, u.tmp[s])
    BY StaySized DEF OpsOK
  <1>4. \A x \in DOMAIN u.tensors : Sized(w, u.tensors[x])
    BY StaySized DEF OpsOK
  <1>5. BackendOK(w)
    BY DEF Later
  <1>6. OpsOK(y)
    BY <1>2, <1>3, <1>4, <1>5 DEF OpsOK
  <1> QED
    BY <1>1, <1>6 DEF y

\* From u to y: tensors are the same, and what is bound was so or fits.
Served(u, y) == OpsOK(y) /\ y.tensors = u.tensors /\ (Fits(u.bound) => Fits(y.bound))

\* What an operation leaves of the transient buffers.
SameTmp(u, y) == Served(u, y) /\ y.tmp = u.tmp /\ y.bound = u.bound

LEMMA ServedTwice ==
    ASSUME NEW u, NEW y, NEW z, Served(u, y), Served(y, z)
    PROVE  Served(u, z)
  BY DEF Served

\* ensure makes the buffer of a slot large enough, and leaves the others.
LEMMA EnsureServes ==
    ASSUME NEW u, NEW s \in TmpSlots, NEW n \in Nat, NEW o \in ensure(u, s, n), OpsOK(u)
    PROVE  /\ o.ok /\ Served(u, o.t) /\ o.t.tmp[s].n >= n
           /\ \A r \in TmpSlots \ {s} : o.t.tmp[r] = u.tmp[r]
  <1>1. CASE u.tmp[s].id # 0 /\ u.tmp[s].n >= n
    <2>1. o = [t |-> u, ok |-> TRUE]
      BY <1>1 DEF ensure
    <2> QED
      BY <1>1, <2>1 DEF Served
  <1>2. CASE ~(u.tmp[s].id # 0 /\ u.tmp[s].n >= n)
    <2> DEFINE d == destroyBuffer(u.vk, u.tmp[s].id)
    <2>1. PICK c \in createBuffer(d, n) :
            o = [t |-> [u EXCEPT !.vk = c.v, !.tmp[s] = [id |-> c.id, n |-> n]], ok |-> TRUE]
      BY <1>2 DEF ensure
    <2>2. BackendOK(u.vk) /\ Shape(u) /\ u.tmp = [r \in TmpSlots |-> u.tmp[r]]
      BY DEF OpsOK
    <2>3. Later(u.vk, d)
      BY <2>2, BufferDestroyed
    <2>4. BackendOK(d)
      BY <2>3 DEF Later
    <2> HIDE DEF d
    <2>5. /\ Later(d, c.v)
          /\ \/ c.id = 0
             \/ c.id = d.next /\ c.v.next = d.next + 1 /\ c.id \in DOMAIN c.v.buffers /\ c.v.buffers[c.id] = n
      BY <2>4, BufferCreated
    <2>6. Later(u.vk, c.v) /\ BackendOK(c.v)
      <3>1. Later(d, c.v)
        BY <2>5
      <3> QED
        BY <2>2, <2>3, <3>1, LaterTwice DEF Later
    <2> DEFINE b == [id |-> c.id, n |-> n]
               y == o.t
               T == [u.tmp EXCEPT ![s] = b]
    <2>7. Sized(c.v, b)
      <3>1. d.next \in Nat \ {0} /\ c.v.next \in Nat \ {0} /\ 0 \notin DOMAIN c.v.buffers
        BY <2>4, <2>6 DEF BackendOK
      <3>2. CASE c.id = 0
        BY <3>1, <3>2 DEF Sized
      <3>3. CASE c.id = d.next /\ c.v.next = d.next + 1 /\ c.v.buffers[c.id] = n
        BY <3>1, <3>3 DEF Sized
      <3> QED
        BY <2>5, <3>2, <3>3
    <2>8. T = [r \in TmpSlots |-> T[r]] /\ T[s] = b /\ \A r \in TmpSlots \ {s} : T[r] = u.tmp[r]
      BY <2>2
    <2>9. o.ok /\ y \in [vk : {c.v}, ready : {u.ready}, device : {u.device}, held : {u.held},
                         tensors : {u.tensors}, tmp : {T}, bound : {u.bound}]
      BY <2>1, <2>2 DEF Shape
    <2> HIDE DEF b, T, y
    <2>10. \A r \in TmpSlots : Sized(c.v, T[r])
      BY <2>2, <2>6, <2>7, <2>8, StaySized DEF OpsOK
    <2>11. \A x \in DOMAIN u.tensors : Sized(c.v, u.tensors[x])
      BY <2>2, <2>6, StaySized DEF OpsOK
    <2>12. Shape(y) /\ y.vk = c.v /\ y.tensors = u.tensors /\ y.tmp = T /\ y.bound = u.bound
      BY <2>9 DEF Shape
    <2>13. OpsOK(y)
      BY <2>6, <2>8, <2>10, <2>11, <2>12 DEF OpsOK
    <2>14. b.n >= n
      BY DEF b
    <2> QED
      BY <2>8, <2>9, <2>12, <2>13, <2>14 DEF Served, y
  <1> QED
    BY <1>1, <1>2

LEMMA OnKeeps ==
    ASSUME NEW u, NEW o, OpsOK(u), SameBuffers(u.vk, o.v)
    PROVE  SameTmp(u, On(u, o).t) /\ On(u, o).t.ready = u.ready
  <1>1. Later(u.vk, o.v)
    BY SameIsLater DEF OpsOK
  <1>2. On(u, o).t = [u EXCEPT !.vk = o.v]
    BY DEF On
  <1> DEFINE y == [u EXCEPT !.vk = o.v]
  <1>3. OpsOK(y) /\ y \in [vk : {o.v}, ready : {u.ready}, device : {u.device}, held : {u.held},
                           tensors : {u.tensors}, tmp : {u.tmp}, bound : {u.bound}]
    BY <1>1, BackendGoesOn
  <1> HIDE DEF y
  <1>4. y.tensors = u.tensors /\ y.tmp = u.tmp /\ y.bound = u.bound /\ y.ready = u.ready
    BY <1>3
  <1> QED
    BY <1>2, <1>3, <1>4 DEF SameTmp, Served, y

LEMMA UploadServes ==
    ASSUME NEW u, NEW s, NEW n, NEW o \in Upload(u, s, n), OpsOK(u)
    PROVE  SameTmp(u, o.t)
  <1>1. PICK p \in uploadBytes(u.vk, u.tmp[s].id, n) : o = On(u, p)
    BY DEF Upload
  <1> QED
    BY <1>1, UploadBytesKeeps, OnKeeps DEF OpsOK

LEMMA DownloadServes ==
    ASSUME NEW u, NEW s, NEW o \in Download(u, s), OpsOK(u)
    PROVE  SameTmp(u, o.t)
  <1>1. PICK p \in download(u.vk, u.tmp[s].id) : o = On(u, p)
    BY DEF Download
  <1> QED
    BY <1>1, DownloadKeeps, OnKeeps DEF OpsOK

\* A dispatch whose bindings fit.
LEMMA DispatchServes ==
    ASSUME NEW u, NEW bindings, NEW o \in runPipeline(u, bindings), OpsOK(u), Fits(bindings)
    PROVE  Served(u, o.t)
  <1> DEFINE set == <<"set", "ops">>
             script == <<Step(set, {}), Step(<<"cmd", "ops">>, {set})>>
             Bind(v) == [u EXCEPT !.vk = v, !.bound = bindings]
  <1>1. CASE o.t = u
    BY <1>1 DEF Served
  <1>2. CASE o.t # u
    <2>1. PICK p \in Attempt(u.vk, script) : o.t = Bind(Destroy(p.v, p.made)) \/ o.t = Bind(p.v)
      <3>1. u.ready
        <4> SUFFICES ASSUME ~u.ready PROVE FALSE
          OBVIOUS
        <4>1. o \in {[t |-> u, ok |-> FALSE]}
          BY DEF runPipeline
        <4> QED
          BY <1>2, <4>1
      <3>2. PICK p \in Attempt(u.vk, script) :
              o \in IF p.ok THEN {[t |-> Bind(Destroy(p.v, p.made)), ok |-> TRUE],
                                  [t |-> Bind(Destroy(p.v, p.made)), ok |-> FALSE]}
                    ELSE {[t |-> IF p.made = {} THEN u ELSE Bind(p.v), ok |-> FALSE]}
        BY <3>1 DEF runPipeline
      <3> HIDE DEF Bind, script
      <3>3. CASE p.ok
        BY <3>2, <3>3
      <3>4. CASE ~p.ok
        BY <1>2, <3>2, <3>4
      <3> QED
        BY <3>3, <3>4
    <2>2. PICK w : SameBuffers(u.vk, w) /\ o.t = Bind(w)
      <3>1. SameBuffers(u.vk, p.v)
        BY AttemptKeeps DEF OpsOK
      <3>2. SameBuffers(u.vk, Destroy(p.v, p.made))
        BY <3>1, DestroyKeeps DEF SameBuffers
      <3> QED
        BY <2>1, <3>1, <3>2
    <2> DEFINE z == [u EXCEPT !.vk = w]
    <2>3. OpsOK(z) /\ z \in [vk : {w}, ready : {u.ready}, device : {u.device}, held : {u.held},
                             tensors : {u.tensors}, tmp : {u.tmp}, bound : {u.bound}]
      BY <2>2, SameIsLater, BackendGoesOn DEF OpsOK
    <2>4. o.t \in [vk : {w}, ready : {u.ready}, device : {u.device}, held : {u.held},
                   tensors : {u.tensors}, tmp : {u.tmp}, bound : {bindings}]
      BY <2>2 DEF OpsOK, Shape
    <2> HIDE DEF z
    <2>5. OpsOK(o.t)
      BY <2>3, <2>4 DEF OpsOK, Shape
    <2> QED
      BY <2>4, <2>5 DEF Served
  <1> QED
    BY <1>1, <1>2

LEMMA BindingFits ==
    ASSUME NEW u, NEW b, NEW n \in Nat, OpsOK(u), Sized(u.vk, b), b.n >= n
    PROVE  Binding(u, b.id, n).id # 0 => Binding(u, b.id, n).size >= Binding(u, b.id, n).n
  <1>1. CASE b.id \notin DOMAIN u.vk.buffers
    BY <1>1 DEF Binding, getVkBuffer
  <1>2. CASE b.id \in DOMAIN u.vk.buffers
    <2>1. b.id # 0 /\ u.vk.buffers[b.id] = b.n
      BY <1>2 DEF OpsOK, BackendOK, Sized
    <2> QED
      BY <1>2, <2>1 DEF Binding, getVkBuffer
  <1> QED
    BY <1>1, <1>2
LEMMA SlotFits ==
    ASSUME NEW u, NEW s \in TmpSlots, NEW n \in Nat, OpsOK(u), u.tmp[s].n >= n
    PROVE  Binding(u, u.tmp[s].id, n).id # 0 =>
               Binding(u, u.tmp[s].id, n).size >= Binding(u, u.tmp[s].id, n).n
  BY BindingFits DEF OpsOK

\* matvec on a tensor of m rows of k.
LEMMA MatvecServes ==
    ASSUME NEW u, NEW A, NEW m \in Nat, NEW k \in Nat, NEW o \in matvec(u, A, m, k),
           OpsOK(u), u.tmp["x"].n >= k, u.tmp["out"].n >= m,
           A \in DOMAIN u.tensors => u.tensors[A].n = m * k
    PROVE  Served(u, o.t)
  <1> DEFINE bindings == {Binding(u, u.tensors[A].id, m * k), Binding(u, u.tmp["x"].id, k),
                          Binding(u, u.tmp["out"].id, m)}
  <1>1. CASE o.t = u
    BY <1>1 DEF Served
  <1>2. CASE o.t # u
    <2>1. A \in DOMAIN u.tensors /\ o \in runPipeline(u, bindings)
      BY <1>2 DEF matvec
    <2>2. m * k \in Nat
      OBVIOUS
    <2>3. Sized(u.vk, u.tensors[A]) /\ u.tensors[A].n >= m * k
      BY <2>1, <2>2 DEF OpsOK
    <2>4. "x" \in TmpSlots /\ "out" \in TmpSlots
      BY DEF TmpSlots
    <2>5. Fits(bindings)
      BY <2>2, <2>3, <2>4, BindingFits, SlotFits DEF Fits
    <2> QED
      BY <2>1, <2>5, DispatchServes
  <1> QED
    BY <1>1, <1>2

LEMMA MatvecHostServes ==
    ASSUME NEW u, NEW A, NEW m \in Nat, NEW k \in Nat, NEW o \in matvecHost(u, A, m, k),
           OpsOK(u), A \in DOMAIN u.tensors => u.tensors[A].n = m * k
    PROVE  Served(u, o.t)
  <1>0. "x" \in TmpSlots /\ "out" \in TmpSlots
    BY DEF TmpSlots
  <1> DEFINE Ready(y) == Served(u, y) /\ y.tmp["x"].n >= k /\ y.tmp["out"].n >= m
             buffers == Then(ensure(u, "x", k), LAMBDA y : ensure(y, "out", m))
             loaded == Then(buffers, LAMBDA y : Upload(y, "x", k))
             run == Then(loaded, LAMBDA y : matvec(y, A, m, k))
  <1>1. ASSUME NEW p \in buffers PROVE p.ok /\ Ready(p.t)
    <2>1. PICK q \in ensure(u, "x", k) : p \in IF q.ok THEN ensure(q.t, "out", m) ELSE {q}
      BY DEF Then
    <2>2. q.ok /\ Served(u, q.t) /\ q.t.tmp["x"].n >= k
      BY <1>0, EnsureServes
    <2>3. p \in ensure(q.t, "out", m)
      BY <2>1, <2>2
    <2>4. OpsOK(q.t)
      BY <2>2 DEF Served
    <2>5. p.ok /\ Served(q.t, p.t) /\ p.t.tmp["out"].n >= m /\ p.t.tmp["x"] = q.t.tmp["x"]
      BY <1>0, <2>3, <2>4, EnsureServes
    <2> QED
      BY <2>2, <2>5, ServedTwice
  <1> HIDE DEF buffers
  <1>2. ASSUME NEW p \in loaded PROVE Ready(p.t)
    <2>1. PICK q \in buffers : p \in IF q.ok THEN Upload(q.t, "x", k) ELSE {q}
      BY DEF Then
    <2>2. Ready(q.t) /\ p \in Upload(q.t, "x", k)
      BY <1>1, <2>1
    <2>3. SameTmp(q.t, p.t)
      BY <2>2, UploadServes DEF Served
    <2> QED
      BY <2>2, <2>3, ServedTwice DEF SameTmp
  <1> HIDE DEF loaded
  <1>3. ASSUME NEW p \in run PROVE Served(u, p.t)
    <2>1. PICK q \in loaded : p \in IF q.ok THEN matvec(q.t, A, m, k) ELSE {q}
      BY DEF Then
    <2>2. Ready(q.t)
      BY <1>2
    <2>3. CASE q.ok
      <3>1. OpsOK(q.t) /\ q.t.tensors = u.tensors
        BY <2>2 DEF Served
      <3>2. Served(q.t, p.t)
        BY <2>1, <2>2, <2>3, <3>1, MatvecServes
      <3> QED
        BY <2>2, <3>2, ServedTwice
    <2> QED
      BY <2>1, <2>2, <2>3
  <1> HIDE DEF run
  <1>4. PICK q \in run : o \in IF q.ok THEN Download(q.t, "out") ELSE {q}
    BY DEF matvecHost, Then, run, loaded, buffers
  <1>5. CASE q.ok
    <2>1. SameTmp(q.t, o.t)
      BY <1>3, <1>4, <1>5, DownloadServes DEF Served
    <2> QED
      BY <1>3, <2>1, ServedTwice DEF SameTmp
  <1> QED
    BY <1>3, <1>4, <1>5
LEMMA RmsnormServes ==
    ASSUME NEW u, NEW w, NEW n \in Nat, NEW o \in rmsnorm(u, w, n),
           OpsOK(u), w \in DOMAIN u.tensors => u.tensors[w].n = n
    PROVE  Served(u, o.t)
  <1>0. "x" \in TmpSlots /\ "out" \in TmpSlots
    BY DEF TmpSlots
  <1> DEFINE Ready(y) == Served(u, y) /\ y.tmp["x"].n >= n /\ y.tmp["out"].n >= n
             buffers == Then(ensure(u, "x", n), LAMBDA y : ensure(y, "out", n))
             loaded == Then(buffers, LAMBDA y : Upload(y, "x", n))
             Bindings(y) == {Binding(y, y.tmp["x"].id, n), Binding(y, y.tensors[w].id, n),
                             Binding(y, y.tmp["out"].id, n)}
             Dispatch(y) == runPipeline(y, Bindings(y))
             run == Then(loaded, Dispatch)
  <1>1. CASE w \notin DOMAIN u.tensors
    BY <1>1 DEF rmsnorm, Served
  <1>2. CASE w \in DOMAIN u.tensors
    <2>1. ASSUME NEW p \in buffers PROVE p.ok /\ Ready(p.t)
      <3>1. PICK q \in ensure(u, "x", n) : p \in IF q.ok THEN ensure(q.t, "out", n) ELSE {q}
        BY DEF Then
      <3>2. q.ok /\ Served(u, q.t) /\ q.t.tmp["x"].n >= n
        BY <1>0, EnsureServes
      <3>3. p \in ensure(q.t, "out", n)
        BY <3>1, <3>2
      <3>4. OpsOK(q.t)
        BY <3>2 DEF Served
      <3>5. p.ok /\ Served(q.t, p.t) /\ p.t.tmp["out"].n >= n /\ p.t.tmp["x"] = q.t.tmp["x"]
        BY <1>0, <3>3, <3>4, EnsureServes
      <3> QED
        BY <3>2, <3>5, ServedTwice
    <2> HIDE DEF buffers
    <2>2. ASSUME NEW p \in loaded PROVE Ready(p.t)
      <3>1. PICK q \in buffers : p \in IF q.ok THEN Upload(q.t, "x", n) ELSE {q}
        BY DEF Then
      <3>2. Ready(q.t) /\ p \in Upload(q.t, "x", n)
        BY <2>1, <3>1
      <3>3. SameTmp(q.t, p.t)
        BY <3>2, UploadServes DEF Served
      <3> QED
        BY <3>2, <3>3, ServedTwice DEF SameTmp
    <2> HIDE DEF loaded
    <2>3. ASSUME NEW y, Ready(y), NEW p \in Dispatch(y) PROVE Served(u, p.t)
      <3>1. OpsOK(y) /\ y.tensors = u.tensors
        BY <2>3 DEF Served
      <3>2. Sized(y.vk, y.tensors[w]) /\ y.tensors[w].n >= n
        BY <1>2, <3>1 DEF OpsOK
      <3>3. Fits(Bindings(y))
        BY <1>0, <2>3, <3>1, <3>2, BindingFits, SlotFits DEF Fits
      <3> HIDE DEF Bindings
      <3>4. Served(y, p.t)
        BY <2>3, <3>1, <3>3, DispatchServes
      <3> QED
        BY <2>3, <3>4, ServedTwice
    <2>4. ASSUME NEW p \in run PROVE Served(u, p.t)
      <3> HIDE DEF Dispatch
      <3>1. PICK q \in loaded : p \in IF q.ok THEN Dispatch(q.t) ELSE {q}
        BY DEF Then
      <3> QED
        BY <2>2, <2>3, <3>1
    <2> HIDE DEF run
    <2>5. PICK q \in run : o \in IF q.ok THEN Download(q.t, "out") ELSE {q}
      BY <1>2 DEF rmsnorm, Then, run, loaded, buffers
    <2>6. CASE q.ok
      <3>1. SameTmp(q.t, o.t)
        BY <2>4, <2>5, <2>6, DownloadServes DEF Served
      <3> QED
        BY <2>4, <3>1, ServedTwice DEF SameTmp
    <2> QED
      BY <2>4, <2>5, <2>6
  <1> QED
    BY <1>1, <1>2

LEMMA ElemwiseServes ==
    ASSUME NEW u, NEW n \in Nat, NEW o \in elemwise(u, n), OpsOK(u)
    PROVE  Served(u, o.t)
  <1>0. "x" \in TmpSlots /\ "b" \in TmpSlots /\ "out" \in TmpSlots
    BY DEF TmpSlots
  <1> DEFINE Ready(y) == Served(u, y) /\ \A s \in TmpSlots : y.tmp[s].n >= n
             two == Then(ensure(u, "x", n), LAMBDA y : ensure(y, "b", n))
             buffers == Then(two, LAMBDA y : ensure(y, "out", n))
             half == Then(buffers, LAMBDA y : Upload(y, "x", n))
             loaded == Then(half, LAMBDA y : Upload(y, "b", n))
             Bindings(y) == {Binding(y, y.tmp[s].id, n) : s \in {"x", "b", "out"}}
             Dispatch(y) == runPipeline(y, Bindings(y))
             run == Then(loaded, Dispatch)
  <1>1. ASSUME NEW p \in two
        PROVE  p.ok /\ Served(u, p.t) /\ p.t.tmp["x"].n >= n /\ p.t.tmp["b"].n >= n
    <2>1. PICK q \in ensure(u, "x", n) : p \in IF q.ok THEN ensure(q.t, "b", n) ELSE {q}
      BY DEF Then
    <2>2. q.ok /\ Served(u, q.t) /\ q.t.tmp["x"].n >= n
      BY <1>0, EnsureServes
    <2>3. p \in ensure(q.t, "b", n)
      BY <2>1, <2>2
    <2>4. OpsOK(q.t)
      BY <2>2 DEF Served
    <2>5. p.ok /\ Served(q.t, p.t) /\ p.t.tmp["b"].n >= n /\ p.t.tmp["x"] = q.t.tmp["x"]
      BY <1>0, <2>3, <2>4, EnsureServes
    <2> QED
      BY <2>2, <2>5, ServedTwice
  <1> HIDE DEF two
  <1>2. ASSUME NEW p \in buffers PROVE p.ok /\ Ready(p.t)
    <2>1. PICK q \in two : p \in IF q.ok THEN ensure(q.t, "out", n) ELSE {q}
      BY DEF Then
    <2>2. q.ok /\ Served(u, q.t) /\ q.t.tmp["x"].n >= n /\ q.t.tmp["b"].n >= n
      BY <1>1
    <2>3. p \in ensure(q.t, "out", n)
      BY <2>1, <2>2
    <2>4. OpsOK(q.t)
      BY <2>2 DEF Served
    <2>5. /\ p.ok /\ Served(q.t, p.t) /\ p.t.tmp["out"].n >= n
          /\ p.t.tmp["x"] = q.t.tmp["x"] /\ p.t.tmp["b"] = q.t.tmp["b"]
      BY <1>0, <2>3, <2>4, EnsureServes
    <2>6. \A s \in TmpSlots : p.t.tmp[s].n >= n
      BY <2>2, <2>5 DEF TmpSlots
    <2> QED
      BY <2>2, <2>5, <2>6, ServedTwice
  <1> HIDE DEF buffers
  <1>3. ASSUME NEW y, Ready(y), NEW s, NEW p \in Upload(y, s, n) PROVE Ready(p.t)
    <2>1. SameTmp(y, p.t)
      BY <1>3, UploadServes DEF Served
    <2> QED
      BY <1>3, <2>1, ServedTwice DEF SameTmp
  <1>4. ASSUME NEW p \in half PROVE Ready(p.t)
    <2>1. PICK q \in buffers : p \in IF q.ok THEN Upload(q.t, "x", n) ELSE {q}
      BY DEF Then
    <2> HIDE DEF Ready
    <2> QED
      BY <1>2, <1>3, <2>1
  <1> HIDE DEF half
  <1>5. ASSUME NEW p \in loaded PROVE Ready(p.t)
    <2>1. PICK q \in half : p \in IF q.ok THEN Upload(q.t, "b", n) ELSE {q}
      BY DEF Then
    <2> HIDE DEF Ready
    <2> QED
      BY <1>3, <1>4, <2>1
  <1> HIDE DEF loaded
  <1>6. ASSUME NEW y, Ready(y), NEW p \in Dispatch(y) PROVE Served(u, p.t)
    <2>1. OpsOK(y)
      BY <1>6 DEF Served
    <2>2. Fits(Bindings(y))
      BY <1>0, <1>6, <2>1, SlotFits DEF Fits
    <2> HIDE DEF Bindings
    <2>3. Served(y, p.t)
      BY <1>6, <2>1, <2>2, DispatchServes
    <2> QED
      BY <1>6, <2>3, ServedTwice
  <1>7. ASSUME NEW p \in run PROVE Served(u, p.t)
    <2> HIDE DEF Dispatch
    <2>1. PICK q \in loaded : p \in IF q.ok THEN Dispatch(q.t) ELSE {q}
      BY DEF Then
    <2>2. Served(u, q.t)
      BY <1>5
    <2> QED
      BY <1>5, <1>6, <2>1, <2>2
  <1> HIDE DEF run
  <1>8. PICK q \in run : o \in IF q.ok THEN Download(q.t, "out") ELSE {q}
    BY DEF elemwise, Then, run, loaded, half, buffers, two
  <1>9. CASE q.ok
    <2>1. SameTmp(q.t, o.t)
      BY <1>7, <1>8, <1>9, DownloadServes DEF Served
    <2> QED
      BY <1>7, <2>1, ServedTwice DEF SameTmp
  <1> QED
    BY <1>7, <1>8, <1>9
-----------------------------------------------------------------------------
(* Starting, stopping and the weights.                                      *)

LEMMA ShutdownKeeps ==
    ASSUME NEW v, BackendOK(v)
    PROVE  Later(v, shutdown(v)) /\ DOMAIN shutdown(v).buffers = {}
  <1> DEFINE H == v.held \cup UNION {BufferObjects(id) : id \in DOMAIN v.buffers}
             w == Destroy(v, H)
             d == shutdown(v)
             none == <<>>
  <1>1. SameBuffers(v, w)
    BY DestroyKeeps
  <1>2. d = [w EXCEPT !.held = {}, !.buffers = none, !.available = FALSE]
    BY DEF shutdown
  <1> HIDE DEF w, d
  <1>3. d \in [live : {w.live}, held : {{}}, buffers : {none}, next : {v.next},
               available : {FALSE}, memory : {w.memory}, twice : {w.twice}]
    BY <1>1, <1>2 DEF BackendOK, SameBuffers
  <1>4. DOMAIN none = {}
    OBVIOUS
  <1> HIDE DEF none
  <1>5. d.buffers = none /\ d.next = v.next /\ v.next \in Nat \ {0}
    BY <1>3 DEF BackendOK
  <1>6. BackendOK(d)
    BY <1>3, <1>4, <1>5 DEF BackendOK
  <1> QED
    BY <1>4, <1>5, <1>6 DEF Later, d

LEMMA OpsShutdownServes ==
    ASSUME NEW u, OpsOK(u)
    PROVE  OpsOK(opsShutdown(u)) /\ opsShutdown(u).bound = u.bound
  <1> DEFINE ids == {u.tmp[s].id : s \in DOMAIN u.tmp} \cup {u.tensors[x].id : x \in DOMAIN u.tensors}
             cleared == destroyBuffers(Destroy(u.vk, u.held), ids)
             y == opsShutdown(u)
  <1>1. Shape(u) /\ BackendOK(u.vk)
    BY DEF OpsOK
  <1>2. CASE u.device
    <2>1. BackendOK(Destroy(u.vk, u.held))
      BY <1>1, DestroyKeeps DEF SameBuffers
    <2>2. y = [NoOps EXCEPT !.vk = shutdown(cleared), !.bound = u.bound]
      BY <1>2 DEF opsShutdown
    <2>3. Later(Destroy(u.vk, u.held), cleared)
      BY <2>1, BuffersDestroyed
    <2> HIDE DEF cleared, y
    <2>5. BackendOK(cleared)
      BY <2>3 DEF Later
    <2> DEFINE z == shutdown(cleared)
    <2>6. BackendOK(z) /\ DOMAIN z.buffers = {}
      BY <2>5, ShutdownKeeps DEF Later
    <2> HIDE DEF z
    <2> DEFINE T == [s \in TmpSlots |-> [id |-> 0, n |-> 0]]
               none == <<>>
    <2>7. y \in [vk : {z}, ready : {FALSE}, device : {FALSE}, held : {{}}, tensors : {none}, tmp : {T},
                 bound : {u.bound}]
      BY <2>2 DEF NoOps, NoBuffer, TmpSlots, z
    <2>8. T = [s \in TmpSlots |-> T[s]] /\ \A s \in TmpSlots : Sized(z, T[s])
      BY <2>6 DEF Sized, BackendOK
    <2>9. DOMAIN none = {}
      OBVIOUS
    <2> HIDE DEF none, T
    <2>10. OpsOK(y)
      BY <2>6, <2>7, <2>8, <2>9 DEF OpsOK, Shape
    <2> QED
      BY <2>7, <2>10 DEF y
  <1>3. CASE ~u.device
    <2> DEFINE z == shutdown(u.vk)
    <2>1. Later(u.vk, z)
      BY <1>1, ShutdownKeeps
    <2>2. y = [u EXCEPT !.vk = z, !.ready = FALSE]
      BY <1>3 DEF opsShutdown
    <2> HIDE DEF z, y
    <2> DEFINE x == [u EXCEPT !.vk = z]
    <2>3. OpsOK(x) /\ x \in [vk : {z}, ready : {u.ready}, device : {u.device}, held : {u.held},
                             tensors : {u.tensors}, tmp : {u.tmp}, bound : {u.bound}]
      BY <2>1, BackendGoesOn
    <2>4. y \in [vk : {z}, ready : {FALSE}, device : {u.device}, held : {u.held},
                 tensors : {u.tensors}, tmp : {u.tmp}, bound : {u.bound}]
      BY <1>1, <2>2 DEF Shape
    <2> HIDE DEF x
    <2>5. OpsOK(y)
      BY <2>3, <2>4 DEF OpsOK, Shape
    <2> QED
      BY <2>4, <2>5 DEF y
  <1> QED
    BY <1>2, <1>3

\* From u to y, nothing new was bound.
Started(u, y) == OpsOK(y) /\ y.bound = u.bound

LEMMA PipelineStarts ==
    ASSUME NEW u, NEW p, NEW o \in loadPipeline(u, p), OpsOK(u)
    PROVE  Started(u, o.t)
  <1> DEFINE sh == <<"shader", p>>
             dsl == <<"dsl", p>>
             pll == <<"pll", p>>
             script == <<Step(sh, {}), Step(dsl, {sh}), Step(pll, {dsl, sh}),
                         Step(<<"pipeline", p>>, {sh, pll, dsl})>>
  <1>1. PICK a \in Attempt(u.vk, script) :
          o = [t |-> [u EXCEPT !.vk = IF a.ok THEN Destroy(a.v, {sh}) ELSE a.v, !.held = @ \cup (a.made \ {sh})],
               ok |-> a.ok]
    BY DEF loadPipeline
  <1> DEFINE w == IF a.ok THEN Destroy(a.v, {sh}) ELSE a.v
  <1>2. SameBuffers(u.vk, w)
    <2>1. SameBuffers(u.vk, a.v)
      BY AttemptKeeps DEF OpsOK
    <2> QED
      BY <2>1, DestroyKeeps DEF SameBuffers
  <1>3. o.t = [u EXCEPT !.vk = w, !.held = @ \cup (a.made \ {sh})]
    BY <1>1
  <1> HIDE DEF w
  <1> DEFINE x == [u EXCEPT !.vk = w]
  <1>4. OpsOK(x) /\ x \in [vk : {w}, ready : {u.ready}, device : {u.device}, held : {u.held},
                           tensors : {u.tensors}, tmp : {u.tmp}, bound : {u.bound}]
    BY <1>2, SameIsLater, BackendGoesOn DEF OpsOK
  <1>5. o.t \in [vk : {w}, ready : {u.ready}, device : {u.device}, held : {u.held \cup (a.made \ {sh})},
                 tensors : {u.tensors}, tmp : {u.tmp}, bound : {u.bound}]
    BY <1>3 DEF OpsOK, Shape
  <1> HIDE DEF x
  <1>6. OpsOK(o.t)
    BY <1>4, <1>5 DEF OpsOK, Shape
  <1> QED
    BY <1>5, <1>6 DEF Started

LEMMA PipelinesStart ==
    ASSUME NEW u, NEW o \in loadPipelines(u), OpsOK(u)
    PROVE  Started(u, o.t)
  <1> DEFINE Load(k, y) == {IF p.ok THEN p ELSE [t |-> opsShutdown(p.t), ok |-> FALSE] :
                                p \in loadPipeline(y, Pipelines[k])}
             Second(y) == Then(Load(1, y), LAMBDA w : Load(2, w))
             Third(y) == Then(Second(y), LAMBDA w : Load(3, w))
  <1>1. ASSUME NEW y, NEW k, Started(u, y), NEW p \in Load(k, y) PROVE Started(u, p.t)
    <2>1. PICK q \in loadPipeline(y, Pipelines[k]) :
            p = IF q.ok THEN q ELSE [t |-> opsShutdown(q.t), ok |-> FALSE]
      OBVIOUS
    <2>2. Started(y, q.t)
      BY <1>1, PipelineStarts DEF Started
    <2> QED
      BY <1>1, <2>1, <2>2, OpsShutdownServes DEF Started
  <1> HIDE DEF Load
  <1>2. Started(u, u)
    BY DEF Started
  <1>3. ASSUME NEW p \in Second(u) PROVE Started(u, p.t)
    <2>1. PICK q \in Load(1, u) : p \in IF q.ok THEN Load(2, q.t) ELSE {q}
      BY DEF Then
    <2> QED
      BY <1>1, <1>2, <2>1
  <1> HIDE DEF Second
  <1>4. ASSUME NEW p \in Third(u) PROVE Started(u, p.t)
    <2>1. PICK q \in Second(u) : p \in IF q.ok THEN Load(3, q.t) ELSE {q}
      BY DEF Then
    <2> QED
      BY <1>1, <1>3, <2>1
  <1> HIDE DEF Third
  <1>5. PICK q \in Third(u) : o \in IF q.ok THEN Load(4, q.t) ELSE {q}
    BY DEF loadPipelines, Then, Third, Second, Load
  <1> QED
    BY <1>1, <1>4, <1>5

LEMMA BackendInitialized ==
    ASSUME NEW v, NEW devices, NEW o \in initialize(v, devices), BackendOK(v)
    PROVE  SameBuffers(v, o.v)
  <1> DEFINE chosen == selectPhysicalDevice(devices)
             all == CoreScript \o PipelineScript \o <<Step(Own("pool"), {Own("shader")})>>
             script == IF chosen = 0 THEN SubSeq(all, 1, 1) ELSE all
             Held(a) == [a.v EXCEPT !.held = @ \cup (a.made \ {Own("shader")})]
             Done(a) == [a.v EXCEPT !.held = @ \cup (a.made \ {Own("shader")}), !.available = TRUE,
                               !.memory = devices[chosen].memory,
                               !.live = @ \ {Own("shader")}]
  <1>1. PICK a \in Attempt(v, script) :
          o = IF a.ok /\ chosen # 0 THEN [v |-> Done(a), ok |-> TRUE] ELSE [v |-> fail(Held(a)), ok |-> FALSE]
    BY DEF initialize, Partly
  <1>2. SameBuffers(v, a.v)
    BY AttemptKeeps
  <1> HIDE DEF chosen
  <1>3. SameBuffers(v, Done(a))
    BY <1>2 DEF SameBuffers, BackendOK
  <1>4. SameBuffers(v, Held(a))
    BY <1>2 DEF SameBuffers, BackendOK
  <1> HIDE DEF Done, Held
  <1>5. SameBuffers(v, fail(Held(a)))
    BY <1>4, FailKeeps DEF SameBuffers
  <1> QED
    BY <1>1, <1>3, <1>5
LEMMA OpsInitializeStarts ==
    ASSUME NEW u, NEW devices, NEW o \in opsInitialize(u, devices), OpsOK(u)
    PROVE  Started(u, o.t)
  <1> DEFINE pool(y) == {[t |-> [y EXCEPT !.vk.live = @ \cup {Pool}, !.held = @ \cup {Pool}], ok |-> TRUE],
                         [t |-> y, ok |-> FALSE]}
             begun == {On(u, p) : p \in initialize(u.vk, devices)}
             pooled == Then(begun, LAMBDA y : pool([y EXCEPT !.device = TRUE]))
             all == Then(pooled, loadPipelines)
  <1>1. CASE u.ready
    <2>1. o \in {[t |-> u, ok |-> TRUE]}
      BY <1>1 DEF opsInitialize
    <2> QED
      BY <2>1 DEF Started
  <1>2. CASE ~u.ready
    <2>1. ASSUME NEW p \in begun PROVE Started(u, p.t)
      <3>1. PICK q \in initialize(u.vk, devices) : p = On(u, q)
        OBVIOUS
      <3> QED
        BY <3>1, BackendInitialized, OnKeeps DEF OpsOK, Started, SameTmp, Served
    <2> HIDE DEF begun
    <2>2. ASSUME NEW y, Started(u, y) PROVE Started(u, [y EXCEPT !.device = TRUE])
      <3> DEFINE x == [y EXCEPT !.device = TRUE]
      <3>1. x \in [vk : {y.vk}, ready : {y.ready}, device : {TRUE}, held : {y.held}, tensors : {y.tensors},
                   tmp : {y.tmp}, bound : {y.bound}]
        BY <2>2 DEF Started, OpsOK, Shape
      <3> HIDE DEF x
      <3>2. OpsOK(x)
        BY <2>2, <3>1 DEF Started, OpsOK, Shape
      <3> QED
        BY <2>2, <3>1, <3>2 DEF Started, x
    <2>3. ASSUME NEW y, Started(u, y), NEW p \in pool(y) PROVE Started(u, p.t)
      <3> DEFINE w == [y.vk EXCEPT !.live = @ \cup {Pool}]
                 x == [y EXCEPT !.vk = w]
                 z == [y EXCEPT !.vk.live = @ \cup {Pool}, !.held = @ \cup {Pool}]
      <3>1. p.t = y \/ p.t = z
        BY <2>3
      <3>2. SameBuffers(y.vk, w)
        BY <2>3, LiveKeeps DEF Started, OpsOK
      <3>3. OpsOK(x) /\ x \in [vk : {w}, ready : {y.ready}, device : {y.device}, held : {y.held},
                               tensors : {y.tensors}, tmp : {y.tmp}, bound : {y.bound}]
        <4>1. OpsOK(y) /\ BackendOK(y.vk)
          BY <2>3 DEF Started, OpsOK
        <4>2. Later(y.vk, w)
          BY <3>2, <4>1, SameIsLater
        <4> HIDE DEF w
        <4> QED
          BY <4>1, <4>2, BackendGoesOn
      <3>4. z \in [vk : {w}, ready : {y.ready}, device : {y.device}, held : {y.held \cup {Pool}},
                   tensors : {y.tensors}, tmp : {y.tmp}, bound : {y.bound}]
        BY <2>3 DEF Started, OpsOK, Shape
      <3> HIDE DEF x, w, z
      <3>5. OpsOK(z)
        BY <3>3, <3>4 DEF OpsOK, Shape
      <3> QED
        BY <2>3, <3>1, <3>4, <3>5 DEF Started
    <2> HIDE DEF pool
    <2>4. ASSUME NEW p \in pooled PROVE Started(u, p.t)
      <3>1. PICK q \in begun : p \in IF q.ok THEN pool([q.t EXCEPT !.device = TRUE]) ELSE {q}
        BY DEF Then
      <3>2. Started(u, q.t)
        BY <2>1
      <3> QED
        BY <2>2, <2>3, <3>1, <3>2
    <2> HIDE DEF pooled
    <2>5. ASSUME NEW p \in all PROVE Started(u, p.t)
      <3>1. PICK q \in pooled : p \in IF q.ok THEN loadPipelines(q.t) ELSE {q}
        BY DEF Then
      <3>2. Started(u, q.t)
        BY <2>4
      <3>3. ASSUME p \in loadPipelines(q.t) PROVE Started(q.t, p.t)
        BY <3>2, <3>3, PipelinesStart DEF Started
      <3> QED
        BY <3>1, <3>2, <3>3 DEF Started
    <2> HIDE DEF all
    <2>6. PICK p \in all : o = IF p.ok THEN [t |-> [p.t EXCEPT !.ready = TRUE], ok |-> TRUE] ELSE p
      BY <1>2 DEF opsInitialize, Then, all, pooled, pool, begun
    <2>7. Started(u, p.t)
      BY <2>5
    <2> DEFINE y == p.t
               x == [y EXCEPT !.ready = TRUE]
    <2>8. x \in [vk : {y.vk}, ready : {TRUE}, device : {y.device}, held : {y.held}, tensors : {y.tensors},
                 tmp : {y.tmp}, bound : {y.bound}]
      BY <2>7 DEF Started, OpsOK, Shape
    <2>9. o.t = x \/ o.t = y
      BY <2>6
    <2> HIDE DEF x, y
    <2>10. Started(u, y)
      BY <2>7 DEF y
    <2>11. OpsOK(x)
      BY <2>8, <2>10 DEF Started, OpsOK, Shape
    <2> QED
      BY <2>8, <2>9, <2>10, <2>11 DEF Started
  <1> QED
    BY <1>1, <1>2
\* uploadTensor: the tensor is there with its size, the others are as before.
LEMMA TensorUploaded ==
    ASSUME NEW u, NEW name, NEW n \in Nat, NEW o \in uploadTensor(u, name, n), OpsOK(u)
    PROVE  /\ Started(u, o.t)
           /\ o.ok => /\ name \in DOMAIN o.t.tensors /\ o.t.tensors[name].n = n
                      /\ \A x \in DOMAIN u.tensors \ {name} :
                            x \in DOMAIN o.t.tensors /\ o.t.tensors[x] = u.tensors[x]
  <1> DEFINE has == name \in DOMAIN u.tensors
             rest == [x \in DOMAIN u.tensors \ {name} |-> u.tensors[x]]
             Erased == [u EXCEPT !.vk = destroyBuffer(@, u.tensors[name].id), !.tensors = rest]
             before == IF has THEN Erased ELSE u
             Entered(y, id) == [y EXCEPT !.tensors = [x \in DOMAIN @ \cup {name} |->
                                                      IF x = name THEN [id |-> id, n |-> n] ELSE @[x]]]
             Fill(c) == {IF p.ok THEN [t |-> Entered([before EXCEPT !.vk = p.v], c.id), ok |-> TRUE]
                         ELSE [t |-> [before EXCEPT !.vk = destroyBuffer(p.v, c.id)], ok |-> FALSE] :
                             p \in uploadBytes(c.v, c.id, n)}
  <1>0. Shape(u) /\ BackendOK(u.vk)
    BY DEF OpsOK
  <1>1. CASE ~u.ready \/ n = 0
    <2>1. o \in {[t |-> u, ok |-> FALSE]}
      BY <1>1 DEF uploadTensor
    <2> QED
      BY <2>1 DEF Started
  <1>2. CASE ~(~u.ready \/ n = 0) /\ has /\ u.tensors[name].n = n
    <2>1. PICK p \in uploadBytes(u.vk, u.tensors[name].id, n) : o = On(u, p)
      BY <1>2 DEF uploadTensor
    <2>2. SameTmp(u, o.t)
      BY <1>0, <2>1, UploadBytesKeeps, OnKeeps
    <2> QED
      BY <1>2, <2>2 DEF Started, SameTmp, Served
  <1>3. CASE ~(~u.ready \/ n = 0) /\ ~(has /\ u.tensors[name].n = n)
    <2>1. PICK c \in createBuffer(before.vk, n) :
            o \in IF c.id = 0 THEN {[t |-> [before EXCEPT !.vk = c.v], ok |-> FALSE]} ELSE Fill(c)
      BY <1>3 DEF uploadTensor
    <2>2. /\ Started(u, before)
          /\ \A x \in DOMAIN u.tensors \ {name} : x \in DOMAIN before.tensors /\ before.tensors[x] = u.tensors[x]
      <3>1. CASE ~has
        BY <3>1 DEF Started
      <3>2. CASE has
        <4> DEFINE d == destroyBuffer(u.vk, u.tensors[name].id)
                   x == [u EXCEPT !.vk = d]
        <4>1. Later(u.vk, d)
          BY <1>0, BufferDestroyed
        <4> HIDE DEF d
        <4>2. OpsOK(x) /\ x \in [vk : {d}, ready : {u.ready}, device : {u.device}, held : {u.held},
                                 tensors : {u.tensors}, tmp : {u.tmp}, bound : {u.bound}]
          BY <4>1, BackendGoesOn
        <4>3. Erased \in [vk : {d}, ready : {u.ready}, device : {u.device}, held : {u.held},
                          tensors : {rest}, tmp : {u.tmp}, bound : {u.bound}]
          BY <1>0 DEF Shape, d
        <4>4. DOMAIN rest = DOMAIN u.tensors \ {name} /\ \A k \in DOMAIN rest : rest[k] = u.tensors[k]
          OBVIOUS
        <4> HIDE DEF x, rest, Erased
        <4>5. OpsOK(Erased)
          BY <4>2, <4>3, <4>4 DEF OpsOK, Shape
        <4>6. before = Erased /\ Erased.tensors = rest /\ Erased.bound = u.bound
          BY <3>2, <4>3
        <4> HIDE DEF before
        <4> QED
          BY <4>4, <4>5, <4>6 DEF Started
      <3> QED
        BY <3>1, <3>2
    <2> HIDE DEF before, rest
    <2>3. OpsOK(before) /\ BackendOK(before.vk) /\ Shape(before) /\ before.bound = u.bound
      BY <2>2 DEF Started, OpsOK
    <2>4. /\ Later(before.vk, c.v)
          /\ \/ c.id = 0
             \/ /\ c.id = before.vk.next /\ c.v.next = before.vk.next + 1
                /\ c.id \in DOMAIN c.v.buffers /\ c.v.buffers[c.id] = n
      BY <2>3, BufferCreated
    <2>5. ASSUME NEW w, Later(before.vk, w) PROVE Started(u, [before EXCEPT !.vk = w])
      <3> DEFINE x == [before EXCEPT !.vk = w]
      <3>1. OpsOK(x) /\ x \in [vk : {w}, ready : {before.ready}, device : {before.device}, held : {before.held},
                               tensors : {before.tensors}, tmp : {before.tmp}, bound : {before.bound}]
        BY <2>3, <2>5, BackendGoesOn
      <3> HIDE DEF x
      <3> QED
        BY <2>3, <3>1 DEF Started, x
    <2>6. CASE c.id = 0
      <3>1. o = [t |-> [before EXCEPT !.vk = c.v], ok |-> FALSE]
        BY <2>1, <2>6
      <3> QED
        BY <2>4, <2>5, <3>1
    <2>7. CASE c.id # 0
      <3>1. PICK p \in uploadBytes(c.v, c.id, n) :
              o = IF p.ok THEN [t |-> Entered([before EXCEPT !.vk = p.v], c.id), ok |-> TRUE]
                  ELSE [t |-> [before EXCEPT !.vk = destroyBuffer(p.v, c.id)], ok |-> FALSE]
        BY <2>1, <2>7
      <3>2. BackendOK(c.v) /\ SameBuffers(c.v, p.v)
        BY <2>4, UploadBytesKeeps DEF Later
      <3>3. Later(before.vk, p.v) /\ BackendOK(p.v)
        <4>1. Later(before.vk, c.v) /\ Later(c.v, p.v)
          BY <2>4, <3>2, SameIsLater
        <4> QED
          BY <2>3, <4>1, LaterTwice DEF Later
      <3>4. CASE ~p.ok
        <4>1. Later(p.v, destroyBuffer(p.v, c.id))
          BY <3>3, BufferDestroyed
        <4>2. Later(before.vk, destroyBuffer(p.v, c.id))
          BY <2>3, <3>3, <4>1, LaterTwice
        <4> QED
          BY <2>5, <3>1, <3>4, <4>2
      <3>5. CASE p.ok
        <4> DEFINE x == [before EXCEPT !.vk = p.v]
                   b == [id |-> c.id, n |-> n]
                   T == [k \in DOMAIN before.tensors \cup {name} |-> IF k = name THEN b ELSE before.tensors[k]]
        <4>1. OpsOK(x) /\ x \in [vk : {p.v}, ready : {before.ready}, device : {before.device}, held : {before.held},
                                 tensors : {before.tensors}, tmp : {before.tmp}, bound : {before.bound}]
          BY <2>3, <3>3, BackendGoesOn
        <4>2. o.ok /\ o.t = [x EXCEPT !.tensors = [k \in DOMAIN x.tensors \cup {name} |->
                                                      IF k = name THEN b ELSE x.tensors[k]]]
          BY <3>1, <3>5
        <4> HIDE DEF x
        <4>3. o.t \in [vk : {p.v}, ready : {before.ready}, device : {before.device}, held : {before.held},
                       tensors : {T}, tmp : {before.tmp}, bound : {before.bound}]
          BY <4>1, <4>2
        <4>4. /\ DOMAIN T = DOMAIN before.tensors \cup {name} /\ T[name] = b
              /\ \A k \in DOMAIN before.tensors \ {name} : T[k] = before.tensors[k]
          OBVIOUS
        <4>5. Sized(p.v, b)
          <5>1. c.id = before.vk.next /\ p.v.next = before.vk.next + 1 /\ p.v.buffers[c.id] = n
            BY <2>4, <2>7, <3>2 DEF SameBuffers
          <5>2. before.vk.next \in Nat
            BY <2>3 DEF BackendOK
          <5> QED
            BY <5>1, <5>2 DEF Sized
        <4>6. b.n = n
          OBVIOUS
        <4> HIDE DEF T, b
        <4>7. \A k \in DOMAIN T : Sized(p.v, T[k])
          BY <4>1, <4>4, <4>5 DEF OpsOK
        <4>8. OpsOK(o.t)
          BY <4>1, <4>3, <4>7 DEF OpsOK, Shape
        <4>9. o.t.tensors = T /\ o.t.bound = u.bound
          BY <2>3, <4>3
        <4> QED
          BY <2>2, <4>4, <4>6, <4>8, <4>9 DEF Started
      <3> QED
        BY <3>4, <3>5
    <2> QED
      BY <2>6, <2>7
  <1> QED
    BY <1>1, <1>2, <1>3

-----------------------------------------------------------------------------
(* What initialize uploads and forward_token uses.                           *)

\* Dimensions of a model.
ModelRecords == [layers : Nat, embd : Nat \ {0}, q : Nat \ {0}, kv : Nat \ {0}, ff : Nat \ {0}, vocab : Nat \ {0}]

\* The elements of a weight, by its name in a layer.
Elements(m, x) ==
    IF x \in {"output_norm", "attn_norm", "ffn_norm"} THEN m.embd
    ELSE IF x = "output.weight" THEN m.vocab * m.embd
    ELSE IF x = "attn_q" THEN m.q * m.embd
    ELSE IF x \in {"attn_k", "attn_v"} THEN m.kv * m.embd
    ELSE IF x = "attn_output" THEN m.embd * m.q
    ELSE IF x \in {"ffn_gate", "ffn_up"} THEN m.ff * m.embd
    ELSE m.embd * m.ff

LayerNames == <<"attn_norm", "attn_q", "attn_k", "attn_v", "attn_output", "ffn_norm", "ffn_gate", "ffn_up", "ffn_down">>

LEMMA ElementsNat ==
    ASSUME NEW m \in ModelRecords, NEW x
    PROVE  Elements(m, x) \in Nat
  <1>1. \A a, b \in Nat : a * b \in Nat
    OBVIOUS
  <1> QED
    BY <1>1 DEF Elements, ModelRecords

\* What is uploaded, at which place.
LEMMA WeightAt ==
    ASSUME NEW m \in ModelRecords
    PROVE  /\ DOMAIN Weights(m) = 1..2 + 9 * m.layers /\ Len(Weights(m)) = 2 + 9 * m.layers
           /\ Weights(m)[1] = Tensor(0, "output_norm", Elements(m, "output_norm"))
           /\ Weights(m)[2] = Tensor(0, "output.weight", Elements(m, "output.weight"))
           /\ \A l \in 1..m.layers, k \in 1..9 :
                 Weights(m)[2 + 9 * (l - 1) + k] = Tensor(l, LayerNames[k], Elements(m, LayerNames[k]))
  <1> DEFINE Layer(l) == <<Tensor(l, "attn_norm", m.embd), Tensor(l, "attn_q", m.q * m.embd),
                      Tensor(l, "attn_k", m.kv * m.embd), Tensor(l, "attn_v", m.kv * m.embd),
                      Tensor(l, "attn_output", m.embd * m.q), Tensor(l, "ffn_norm", m.embd),
                      Tensor(l, "ffn_gate", m.ff * m.embd), Tensor(l, "ffn_up", m.ff * m.embd),
                      Tensor(l, "ffn_down", m.embd * m.ff)>>
             Outer == <<Tensor(0, "output_norm", m.embd), Tensor(0, "output.weight", m.vocab * m.embd)>>
             W == Weights(m)
             n == 2 + 9 * m.layers
  <1>1. W = [i \in 1..n |-> IF i <= 2 THEN Outer[i] ELSE Layer(((i - 3) \div 9) + 1)[((i - 3) % 9) + 1]]
    BY DEF Weights
  <1>2. m.layers \in Nat /\ n \in Nat /\ n >= 2
    BY DEF ModelRecords
  <1>3. Outer[1] = Tensor(0, "output_norm", Elements(m, "output_norm"))
        /\ Outer[2] = Tensor(0, "output.weight", Elements(m, "output.weight"))
    BY DEF Elements
  <1>4. ASSUME NEW l, NEW k \in 1..9 PROVE Layer(l)[k] = Tensor(l, LayerNames[k], Elements(m, LayerNames[k]))
    <2>1. k = 1 \/ k = 2 \/ k = 3 \/ k = 4 \/ k = 5 \/ k = 6 \/ k = 7 \/ k = 8 \/ k = 9
      OBVIOUS
    <2>a. CASE k \in 1..3
      BY <2>a DEF Elements, LayerNames
    <2>b. CASE k \in 4..6
      BY <2>b DEF Elements, LayerNames
    <2>c. CASE k \in 7..9
      BY <2>c DEF Elements, LayerNames
    <2> QED
      BY <2>1, <2>a, <2>b, <2>c
  <1> HIDE DEF Layer, Outer, W
  <1>5. DOMAIN W = 1..n /\ Len(W) = n
    BY <1>1, <1>2
  <1>6. W[1] = Outer[1] /\ W[2] = Outer[2]
    BY <1>1, <1>2
  <1>7. ASSUME NEW l \in 1..m.layers, NEW k \in 1..9 PROVE W[2 + 9 * (l - 1) + k] = Layer(l)[k]
    <2> DEFINE i == 2 + 9 * (l - 1) + k
    <2>1. i \in 1..n /\ ~(i <= 2)
      BY <1>2
    <2>2. (i - 3) \div 9 = l - 1 /\ (i - 3) % 9 = k - 1
      BY <1>2
    <2>3. (l - 1) + 1 = l /\ (k - 1) + 1 = k
      BY <1>2
    <2> HIDE DEF i
    <2> QED
      BY <1>1, <2>1, <2>2, <2>3 DEF i
  <1> QED
    BY <1>3, <1>4, <1>5, <1>6, <1>7 DEF W

\* A place among the weights of the layers, or among the operations, that
\* are a to each layer.
LEMMA PlaceInLayer ==
    ASSUME NEW a \in Nat \ {0}, NEW b \in Nat, NEW i \in 1..a * b
    PROVE  \E l \in 1..b, k \in 1..a : i = a * (l - 1) + k /\ (i - 1) \div a = l - 1 /\ (i - 1) % a = k - 1
  <1> DEFINE q == (i - 1) \div a
             r == (i - 1) % a
  <1>0. a * b \in Nat
    OBVIOUS
  <1>1. q \in Nat /\ r \in 0..a - 1 /\ i - 1 = a * q + r
    BY <1>0
  <1> HIDE DEF q, r
  <1>2. q < b
    <2>1. SUFFICES ASSUME q >= b PROVE FALSE
      BY <1>1
    <2>2. a * q >= a * b
      BY <1>1, <2>1
    <2>3. a * q \in Nat
      BY <1>1
    <2> QED
      BY <1>0, <1>1, <2>2, <2>3
  <1>3. q + 1 \in 1..b /\ r + 1 \in 1..a /\ i = a * ((q + 1) - 1) + (r + 1)
    <2>1. (q + 1) - 1 = q /\ a * q \in Nat
      BY <1>1
    <2> QED
      BY <1>1, <1>2, <2>1
  <1>4. (q + 1) - 1 = q /\ (r + 1) - 1 = r
    BY <1>1
  <1> QED
    BY <1>3, <1>4 DEF q, r

\* A weight has the size its name stands for.
LEMMA WeightSize ==
    ASSUME NEW m \in ModelRecords, NEW j \in DOMAIN Weights(m)
    PROVE  Weights(m)[j].n \in Nat /\ Weights(m)[j].n = Elements(m, Weights(m)[j].name[1])
  <1>1. \A l, x : Tensor(l, x, Elements(m, x)).n = Elements(m, Tensor(l, x, Elements(m, x)).name[1])
    BY DEF Tensor
  <1>2. m.layers \in Nat /\ j \in 1..2 + 9 * m.layers
    BY WeightAt DEF ModelRecords
  <1>3. \E l, x : Weights(m)[j] = Tensor(l, x, Elements(m, x))
    <2>1. CASE j = 1
      BY <2>1, WeightAt
    <2>2. CASE j = 2
      BY <2>2, WeightAt
    <2>3. CASE j > 2
      <3>1. j - 2 \in 1..9 * m.layers /\ 9 \in Nat \ {0}
        BY <1>2, <2>3
      <3>a. \E l \in 1..m.layers, k \in 1..9 :
               j - 2 = 9 * (l - 1) + k /\ (j - 2 - 1) \div 9 = l - 1 /\ (j - 2 - 1) % 9 = k - 1
        BY ONLY <1>2, <3>1, PlaceInLayer, Zenon
      <3>2. PICK l \in 1..m.layers, k \in 1..9 : j - 2 = 9 * (l - 1) + k
        BY ONLY <3>a
      <3>3. j = 2 + 9 * (l - 1) + k
        BY <1>2, <3>2
      <3>4. Weights(m)[2 + 9 * (l - 1) + k] = Tensor(l, LayerNames[k], Elements(m, LayerNames[k]))
        BY WeightAt, Zenon
      <3> QED
        BY <3>3, <3>4, Zenon
    <2> QED
      BY <1>2, <2>1, <2>2, <2>3
  <1>4. Weights(m)[j].n = Elements(m, Weights(m)[j].name[1])
    BY <1>1, <1>3
  <1> QED
    BY <1>4, ElementsNat

\* An operation has sizes, and the weight it names is uploaded with as many
\* elements as it goes through.
Supplied(m, x) ==
    /\ x.op \in {"embed", "attend", "rmsnorm", "matvec", "elemwise"} /\ x.m \in Nat /\ x.k \in Nat
    /\ x.op = "rmsnorm" => \E j \in DOMAIN Weights(m) : Weights(m)[j].name = x.w /\ Weights(m)[j].n = x.m
    /\ x.op = "matvec" => \E j \in DOMAIN Weights(m) : Weights(m)[j].name = x.w /\ Weights(m)[j].n = x.m * x.k

LEMMA LayerWeight ==
    ASSUME NEW m \in ModelRecords, NEW l \in 1..m.layers, NEW k \in 1..9
    PROVE  \E j \in DOMAIN Weights(m) :
              Weights(m)[j].name = <<LayerNames[k], l>> /\ Weights(m)[j].n = Elements(m, LayerNames[k])
  <1>1. 2 + 9 * (l - 1) + k \in DOMAIN Weights(m)
    <2>1. m.layers \in Nat
      BY DEF ModelRecords
    <2>2. 2 + 9 * (l - 1) + k \in 1..2 + 9 * m.layers
      BY <2>1
    <2>3. DOMAIN Weights(m) = 1..2 + 9 * m.layers
      BY WeightAt, Zenon
    <2> QED
      BY <2>2, <2>3
  <1>2. Weights(m)[2 + 9 * (l - 1) + k] = Tensor(l, LayerNames[k], Elements(m, LayerNames[k]))
    BY WeightAt, Zenon
  <1> QED
    BY <1>1, <1>2 DEF Tensor

LEMMA NormSupplied ==
    ASSUME NEW m \in ModelRecords, NEW l \in 1..m.layers, NEW k \in {1, 6}
    PROVE  Supplied(m, Norm(l, LayerNames[k], m.embd))
  <1>1. Elements(m, LayerNames[k]) = m.embd /\ m.embd \in Nat
    BY DEF Elements, LayerNames, ModelRecords
  <1>2. k \in 1..9
    OBVIOUS
  <1> QED
    BY <1>1, <1>2, LayerWeight DEF Supplied, Norm

LEMMA MulSupplied ==
    ASSUME NEW m \in ModelRecords, NEW l \in 1..m.layers, NEW k \in 1..9, NEW a \in Nat, NEW b \in Nat,
           Elements(m, LayerNames[k]) = a * b
    PROVE  Supplied(m, Mul(l, LayerNames[k], a, b))
  BY LayerWeight DEF Supplied, Mul

\* forward_token uses only weights that initialize has uploaded.
LEMMA OperationSupplied ==
    ASSUME NEW m \in ModelRecords, NEW i \in DOMAIN forward_token(m)
    PROVE  Supplied(m, forward_token(m)[i])
  <1> DEFINE Layer(l) == <<Norm(l, "attn_norm", m.embd), Mul(l, "attn_q", m.q, m.embd),
                      Mul(l, "attn_k", m.kv, m.embd), Mul(l, "attn_v", m.kv, m.embd), Attend,
                      Mul(l, "attn_output", m.embd, m.q), Elem(m.embd),
                      Norm(l, "ffn_norm", m.embd), Mul(l, "ffn_gate", m.ff, m.embd),
                      Mul(l, "ffn_up", m.ff, m.embd),
                      Elem(m.ff), Mul(l, "ffn_down", m.embd, m.ff), Elem(m.embd)>>
             Outer == <<Norm(0, "output_norm", m.embd), Mul(0, "output.weight", m.vocab, m.embd)>>
             last == 1 + 13 * m.layers
             F == forward_token(m)
  <1>1. F = [n \in 1..last + 2 |-> IF n = 1 THEN Embed ELSE IF n > last THEN Outer[n - last]
                                   ELSE Layer(((n - 2) \div 13) + 1)[((n - 2) % 13) + 1]]
    BY DEF forward_token
  <1>2. m.layers \in Nat /\ m.embd \in Nat /\ m.q \in Nat /\ m.kv \in Nat /\ m.ff \in Nat /\ m.vocab \in Nat
    BY DEF ModelRecords
  <1>3. Supplied(m, Embed) /\ Supplied(m, Attend) /\ \A n \in Nat : Supplied(m, Elem(n))
    BY DEF Supplied, Embed, Attend, Elem
  <1>4. Supplied(m, Outer[1]) /\ Supplied(m, Outer[2])
    <2>1. 1 \in DOMAIN Weights(m) /\ 2 \in DOMAIN Weights(m)
      BY <1>2, WeightAt
    <2>a. /\ Weights(m)[1] = Tensor(0, "output_norm", Elements(m, "output_norm"))
          /\ Weights(m)[2] = Tensor(0, "output.weight", Elements(m, "output.weight"))
      BY WeightAt, Zenon
    <2>2. Weights(m)[1].name = <<"output_norm", 0>> /\ Weights(m)[1].n = m.embd
      BY <2>a DEF Elements, Tensor
    <2>3. Weights(m)[2].name = <<"output.weight", 0>> /\ Weights(m)[2].n = m.vocab * m.embd
      BY <2>a DEF Elements, Tensor
    <2>4. Supplied(m, Norm(0, "output_norm", m.embd))
      BY <1>2, <2>1, <2>2 DEF Supplied, Norm
    <2>5. Supplied(m, Mul(0, "output.weight", m.vocab, m.embd))
      BY <1>2, <2>1, <2>3 DEF Supplied, Mul
    <2> QED
      BY <2>4, <2>5
  <1>5. ASSUME NEW l \in 1..m.layers, NEW k \in 1..13 PROVE Supplied(m, Layer(l)[k])
    <2>1. LayerNames[1] = "attn_norm" /\ LayerNames[6] = "ffn_norm"
      BY DEF LayerNames
    <2>2. CASE k \in {1, 8}
      <3>1. Supplied(m, Norm(l, "attn_norm", m.embd)) /\ Supplied(m, Norm(l, "ffn_norm", m.embd))
        BY <2>1, NormSupplied
      <3> QED
        BY <2>2, <3>1
    <2>3. CASE k \in {5, 7, 11, 13}
      BY <1>2, <1>3, <2>3
    <2>4. CASE k = 2
      <3>1. LayerNames[2] = "attn_q" /\ Elements(m, LayerNames[2]) = m.q * m.embd
        BY DEF LayerNames, Elements
      <3> QED
        BY <1>2, <2>4, <3>1, MulSupplied
    <2>5. CASE k = 3
      <3>1. LayerNames[3] = "attn_k" /\ Elements(m, LayerNames[3]) = m.kv * m.embd
        BY DEF LayerNames, Elements
      <3> QED
        BY <1>2, <2>5, <3>1, MulSupplied
    <2>6. CASE k = 4
      <3>1. LayerNames[4] = "attn_v" /\ Elements(m, LayerNames[4]) = m.kv * m.embd
        BY DEF LayerNames, Elements
      <3> QED
        BY <1>2, <2>6, <3>1, MulSupplied
    <2>7. CASE k = 6
      <3>1. LayerNames[5] = "attn_output" /\ Elements(m, LayerNames[5]) = m.embd * m.q
        BY DEF LayerNames, Elements
      <3> QED
        BY <1>2, <2>7, <3>1, MulSupplied
    <2>8. CASE k = 9
      <3>1. LayerNames[7] = "ffn_gate" /\ Elements(m, LayerNames[7]) = m.ff * m.embd
        BY DEF LayerNames, Elements
      <3> QED
        BY <1>2, <2>8, <3>1, MulSupplied
    <2>9. CASE k = 10
      <3>1. LayerNames[8] = "ffn_up" /\ Elements(m, LayerNames[8]) = m.ff * m.embd
        BY DEF LayerNames, Elements
      <3> QED
        BY <1>2, <2>9, <3>1, MulSupplied
    <2>10. CASE k = 12
      <3>1. LayerNames[9] = "ffn_down" /\ Elements(m, LayerNames[9]) = m.embd * m.ff
        BY DEF LayerNames, Elements
      <3> QED
        BY <1>2, <2>10, <3>1, MulSupplied
    <2>11. k \in {1, 8} \/ k \in {5, 7, 11, 13} \/ k = 2 \/ k = 3 \/ k = 4 \/ k = 6 \/ k = 9 \/ k = 10 \/ k = 12
      OBVIOUS
    <2> QED
      BY <2>2, <2>3, <2>4, <2>5, <2>6, <2>7, <2>8, <2>9, <2>10, <2>11
  <1> HIDE DEF Layer, Outer, F
  <1>6. i \in 1..last + 2
    BY <1>1, <1>2 DEF F
  <1>7. CASE i = 1
    <2>1. F[i] = Embed
      BY <1>1, <1>6, <1>7
    <2> QED
      BY <1>3, <2>1 DEF F
  <1>8. CASE i > last
    <2>1. ~(i = 1) /\ (i - last = 1 \/ i - last = 2)
      BY <1>2, <1>6, <1>8
    <2>2. F[i] = Outer[i - last]
      BY <1>1, <1>6, <1>8, <2>1
    <2> QED
      BY <1>4, <2>1, <2>2 DEF F
  <1>9. CASE i # 1 /\ ~(i > last)
    <2>1. i - 1 \in 1..13 * m.layers /\ 13 \in Nat \ {0}
      BY <1>2, <1>6, <1>9
    <2>a. \E l \in 1..m.layers, k \in 1..13 :
             i - 1 = 13 * (l - 1) + k /\ (i - 1 - 1) \div 13 = l - 1 /\ (i - 1 - 1) % 13 = k - 1
      BY ONLY <1>2, <2>1, PlaceInLayer, Zenon
    <2>2. PICK l \in 1..m.layers, k \in 1..13 :
            (i - 1 - 1) \div 13 = l - 1 /\ (i - 1 - 1) % 13 = k - 1
      BY <2>a, Zenon
    <2>3. (i - 1) - 1 = i - 2 /\ (l - 1) + 1 = l /\ (k - 1) + 1 = k
      BY <1>2, <1>6
    <2>4. F[i] = Layer(((i - 2) \div 13) + 1)[((i - 2) % 13) + 1]
      BY <1>1, <1>6, <1>9
    <2>5. F[i] = Layer(l)[k]
      BY <2>2, <2>3, <2>4
    <2> QED
      BY <1>5, <2>5 DEF F
  <1> QED
    BY <1>2, <1>6, <1>7, <1>8, <1>9

-----------------------------------------------------------------------------
(* The specification.                                                       *)

\* A weight is there, with its size.
Uploaded(u, w) == w.name \in DOMAIN u.tensors /\ u.tensors[w.name].n = w.n

\* The weights of an engine that is ready are there, and of one that loads
\* those before the next; no call runs while it loads.
Supply(u, ready, uploads) ==
    /\ ready \subseteq ModelRecords
    /\ uploads = {} => \A m \in ready : \A j \in DOMAIN Weights(m) : Uploaded(u, Weights(m)[j])
    /\ \A x \in uploads :
          /\ x \in [model : ModelRecords, next : Nat \ {0}]
          /\ \A j \in DOMAIN Weights(x.model) : j < x.next => Uploaded(u, Weights(x.model)[j])

ClientInv ==
    /\ Shape(t) /\ Fits(t.bound)
    /\ client = "adapter" => OpsOK(t)
    /\ client # "adapter" \/ ~tried => is_ready = {} /\ loading = {}
    /\ loading # {} => call = NoCall
    /\ Supply(t, is_ready, loading)

LEMMA NothingToSupply ==
    ASSUME NEW u
    PROVE  Supply(u, {}, {})
  BY DEF Supply

LEMMA NoOpsOK ==
    OpsOK(NoOps) /\ Shape(NoOps) /\ NoOps.bound = {}
  <1> DEFINE v == NoBackend
             b == NoBuffer
  <1>1. BackendOK(v) /\ v.next = 1
    BY DEF BackendOK, NoBackend
  <1>2. Sized(v, b)
    <2>1. b.id = 0 /\ b.n = 0 /\ DOMAIN v.buffers = {}
      BY DEF NoBuffer, NoBackend
    <2> QED
      BY <1>1, <2>1 DEF Sized
  <1> HIDE DEF v, b
  <1>3. NoOps \in [vk : {v}, ready : {FALSE}, device : {FALSE}, held : {{}}, tensors : {<<>>},
                      tmp : {[s \in TmpSlots |-> b]}, bound : {{}}]
    BY DEF NoOps, TmpSlots, v, b
  <1>4. Shape(NoOps) /\ NoOps.bound = {}
    BY <1>3 DEF Shape
  <1>5. DOMAIN NoOps.tensors = {}
    <2>1. NoOps.tensors = <<>>
      BY <1>3
    <2> QED
      BY <2>1
  <1>6. NoOps.vk = v /\ NoOps.tmp = [s \in TmpSlots |-> b]
    BY <1>3
  <1> QED
    BY <1>1, <1>2, <1>4, <1>5, <1>6 DEF OpsOK

\* The host's actions touch nothing but its backend.
LEMMA HostKeeps ==
    ASSUME NEW v, ClientInv, client = "host", Host(v)
    PROVE  ClientInv'
  <1>1. t' = [t EXCEPT !.vk = v] /\ client' = client /\ is_ready' = is_ready /\ loading' = loading
    BY DEF Host
  <1>2. is_ready = {} /\ loading = {} /\ Shape(t) /\ Fits(t.bound)
    BY DEF ClientInv
  <1>3. t' \in [vk : {v}, ready : {t.ready}, device : {t.device}, held : {t.held},
                tensors : {t.tensors}, tmp : {t.tmp}, bound : {t.bound}]
    BY <1>1, <1>2 DEF Shape
  <1>4. Shape(t') /\ t'.bound = t.bound
    BY <1>3 DEF Shape
  <1>5. Supply(t', is_ready', loading')
    BY <1>1, <1>2, NothingToSupply
  <1> QED
    BY <1>1, <1>2, <1>4, <1>5 DEF ClientInv

\* One operation of run_stream.
LEMMA OperationKeeps ==
    ASSUME ClientInv, Operation
    PROVE  ClientInv'
  <1>0. PICK m \in is_ready :
          /\ call.at \in DOMAIN forward_token(m)
          /\ \E o \in Outcomes(forward_token(m)[call.at]) : t' = o.t
    BY DEF Operation
  <1>1. PICK o \in Outcomes(forward_token(m)[call.at]) : t' = o.t
    BY <1>0
  <1>2. client' = client /\ is_ready' = is_ready /\ loading' = loading /\ tried' = tried
    BY DEF Operation
  <1>3. client = "adapter" /\ tried /\ OpsOK(t) /\ Fits(t.bound) /\ m \in ModelRecords
    BY <1>0 DEF ClientInv, Supply
  <1>4. loading = {}
    <2>1. call.at # 0
      <3>1. m.layers \in Nat
        BY <1>3 DEF ModelRecords
      <3> QED
        BY <1>0, <3>1 DEF forward_token
    <2> QED
      BY <2>1 DEF ClientInv, NoCall
  <1>5. \A j \in DOMAIN Weights(m) : Uploaded(t, Weights(m)[j])
    BY <1>0, <1>4 DEF ClientInv, Supply
  <1> DEFINE x == forward_token(m)[call.at]
  <1>6. Supplied(m, x)
    BY <1>0, <1>3, OperationSupplied
  <1> HIDE DEF x
  <1>7. o \in Outcomes(x)
    BY <1>1 DEF x
  <1>8. Served(t, o.t)
    <2>1. CASE x.op = "embed"
      <3>1. o.t = t
        BY <1>7, <2>1 DEF Outcomes
      <3> QED
        BY <1>3, <3>1 DEF Served
    <2>2. CASE x.op = "attend"
      <3>1. o.t = t
        BY <1>7, <2>2 DEF Outcomes
      <3> QED
        BY <1>3, <3>1 DEF Served
    <2>3. CASE x.op = "rmsnorm"
      <3>1. o \in rmsnorm(t, x.w, x.m)
        BY <1>7, <2>3 DEF Outcomes
      <3>2. x.m \in Nat /\ (x.w \in DOMAIN t.tensors => t.tensors[x.w].n = x.m)
        BY <1>5, <1>6, <2>3 DEF Supplied, Uploaded
      <3> QED
        BY <1>3, <3>1, <3>2, RmsnormServes
    <2>4. CASE x.op = "matvec"
      <3>1. o \in matvecHost(t, x.w, x.m, x.k)
        BY <1>7, <2>4 DEF Outcomes
      <3>2. x.m \in Nat /\ x.k \in Nat /\ (x.w \in DOMAIN t.tensors => t.tensors[x.w].n = x.m * x.k)
        BY <1>5, <1>6, <2>4 DEF Supplied, Uploaded
      <3> QED
        BY <1>3, <3>1, <3>2, MatvecHostServes
    <2>5. CASE x.op = "elemwise"
      <3>1. o \in elemwise(t, x.m)
        BY <1>7, <2>5 DEF Outcomes
      <3>2. x.m \in Nat
        BY <1>6 DEF Supplied
      <3> QED
        BY <1>3, <3>1, <3>2, ElemwiseServes
    <2> QED
      BY <1>6, <2>1, <2>2, <2>3, <2>4, <2>5 DEF Supplied
  <1>9. OpsOK(t') /\ Shape(t') /\ Fits(t'.bound) /\ t'.tensors = t.tensors
    BY <1>1, <1>3, <1>8 DEF Served, OpsOK
  <1>10. Supply(t', is_ready', loading')
    BY <1>2, <1>4, <1>9 DEF ClientInv, Supply, Uploaded
  <1> QED
    BY <1>2, <1>3, <1>4, <1>9, <1>10 DEF ClientInv

\* One upload of initialize.
LEMMA UploadKeeps ==
    ASSUME ClientInv, UploadWeight
    PROVE  ClientInv'
  <1>1. PICK x \in loading :
          /\ x.next \in DOMAIN Weights(x.model)
          /\ \E o \in uploadTensor(t, Weights(x.model)[x.next].name, Weights(x.model)[x.next].n) :
                \/ o.ok /\ t' = o.t /\ loading' = {[x EXCEPT !.next = @ + 1]} /\ UNCHANGED is_ready
                \/ ~o.ok /\ t' = opsShutdown(o.t) /\ loading' = {} /\ is_ready' = {}
    BY DEF UploadWeight
  <1> DEFINE W == Weights(x.model)
  <1>2. client' = client /\ tried' = tried /\ call' = call
    BY DEF UploadWeight
  <1>3. /\ client = "adapter" /\ tried /\ call = NoCall /\ OpsOK(t) /\ Fits(t.bound)
        /\ x \in [model : ModelRecords, next : Nat \ {0}]
    BY <1>1 DEF ClientInv, Supply
  <1>4. \A j \in DOMAIN W : W[j].n \in Nat /\ W[j].n = Elements(x.model, W[j].name[1])
    <2>1. x.model \in ModelRecords
      BY <1>3
    <2> QED
      BY <2>1, WeightSize
  <1>5. \A j \in DOMAIN W : j \in Int
    BY <1>3, WeightAt DEF ModelRecords
  <1>6. \A j \in DOMAIN W : j < x.next => Uploaded(t, W[j])
    BY <1>1 DEF ClientInv, Supply
  <1> HIDE DEF W
  <1>7. PICK o \in uploadTensor(t, W[x.next].name, W[x.next].n) :
          \/ o.ok /\ t' = o.t /\ loading' = {[x EXCEPT !.next = @ + 1]} /\ UNCHANGED is_ready
          \/ ~o.ok /\ t' = opsShutdown(o.t) /\ loading' = {} /\ is_ready' = {}
    BY <1>1 DEF W
  <1> DEFINE name == W[x.next].name
             n == W[x.next].n
  <1>8. n \in Nat
    BY <1>1, <1>4 DEF W
  <1> HIDE DEF name, n
  <1>9. /\ Started(t, o.t)
        /\ o.ok => /\ name \in DOMAIN o.t.tensors /\ o.t.tensors[name].n = n
                   /\ \A y \in DOMAIN t.tensors \ {name} :
                         y \in DOMAIN o.t.tensors /\ o.t.tensors[y] = t.tensors[y]
    <2>1. o \in uploadTensor(t, name, n)
      BY <1>7 DEF name, n
    <2> QED
      BY <1>3, <1>8, <2>1, TensorUploaded
  <1>10. CASE o.ok /\ t' = o.t /\ loading' = {[x EXCEPT !.next = @ + 1]} /\ UNCHANGED is_ready
    <2>1. OpsOK(t') /\ Shape(t') /\ Fits(t'.bound)
      BY <1>3, <1>9, <1>10 DEF Started, OpsOK
    <2>2. ASSUME NEW j \in DOMAIN W, j < x.next + 1 PROVE Uploaded(t', W[j])
      <3>1. CASE W[j].name = name
        <4>1. W[j].n = n
          BY <1>1, <1>4, <3>1 DEF name, n, W
        <4> QED
          BY <1>9, <1>10, <3>1, <4>1 DEF Uploaded
      <3>2. CASE W[j].name # name
        <4>1. j # x.next
          BY <3>2 DEF name
        <4>2. j < x.next
          BY <1>3, <1>5, <2>2, <4>1
        <4>3. Uploaded(t, W[j])
          BY <1>6, <4>2
        <4> QED
          BY <1>9, <1>10, <3>2, <4>3 DEF Uploaded
      <3> QED
        BY <3>1, <3>2
    <2> DEFINE y == [x EXCEPT !.next = @ + 1]
    <2>3. y \in [model : ModelRecords, next : Nat \ {0}] /\ y.model = x.model /\ y.next = x.next + 1
      BY <1>3
    <2> HIDE DEF y
    <2>4. loading' = {y} /\ is_ready' = is_ready
      BY <1>10 DEF y
    <2>5. Supply(t', is_ready', loading')
      <3>1. is_ready' \subseteq ModelRecords /\ loading' # {}
        BY <2>4 DEF ClientInv, Supply
      <3>2. \A z \in loading' : z = y
        BY <2>4
      <3>3. \A j \in DOMAIN Weights(y.model) : j < y.next => Uploaded(t', Weights(y.model)[j])
        BY <2>2, <2>3 DEF W
      <3> QED
        BY <2>3, <3>1, <3>2, <3>3 DEF Supply
    <2> QED
      BY <1>2, <1>3, <2>1, <2>5 DEF ClientInv
  <1>11. CASE ~o.ok /\ t' = opsShutdown(o.t) /\ loading' = {} /\ is_ready' = {}
    <2>1. OpsOK(t') /\ t'.bound = t.bound
      BY <1>9, <1>11, OpsShutdownServes DEF Started
    <2>2. Shape(t')
      BY <2>1 DEF OpsOK
    <2>3. Supply(t', is_ready', loading')
      BY <1>11, NothingToSupply
    <2> QED
      BY <1>2, <1>3, <1>11, <2>1, <2>2, <2>3 DEF ClientInv
  <1> QED
    BY <1>7, <1>10, <1>11

\* initialize up to its first upload.
LEMMA InitializeKeeps ==
    ASSUME NEW d, NEW m \in ModelRecords, ClientInv, InitializeModel(d, m)
    PROVE  ClientInv'
  <1>1. /\ client = "adapter" /\ call = NoCall /\ loading = {} /\ client' = client /\ call' = call /\ tried'
    BY DEF InitializeModel
  <1>2. PICK o \in opsInitialize(t, d) :
          \/ t' = opsShutdown(o.t) /\ is_ready' = {} /\ loading' = loading
          \/ t' = o.t /\ loading' = {[model |-> m, next |-> 1]} /\ is_ready' = is_ready
    BY DEF InitializeModel
  <1>3. OpsOK(t) /\ Fits(t.bound) /\ is_ready \subseteq ModelRecords
    BY <1>1 DEF ClientInv, Supply
  <1>4. OpsOK(o.t) /\ o.t.bound = t.bound
    BY <1>3, OpsInitializeStarts DEF Started
  <1>5. OpsOK(t') /\ t'.bound = t.bound
    BY <1>2, <1>4, OpsShutdownServes
  <1>6. Shape(t')
    BY <1>5 DEF OpsOK
  <1>7. Supply(t', is_ready', loading')
    <2>1. CASE is_ready' = {} /\ loading' = loading
      BY <1>1, <2>1, NothingToSupply
    <2>2. CASE loading' = {[model |-> m, next |-> 1]} /\ is_ready' = is_ready
      <3> DEFINE y == [model |-> m, next |-> 1]
      <3>1. y \in [model : ModelRecords, next : Nat \ {0}] /\ y.model = m /\ y.next = 1
        OBVIOUS
      <3>2. \A j \in DOMAIN Weights(m) : ~(j < 1)
        BY WeightAt DEF ModelRecords
      <3>3. loading' # {} /\ \A z \in loading' : z = y
        BY <2>2
      <3> HIDE DEF y
      <3> QED
        BY <1>3, <2>2, <3>1, <3>2, <3>3 DEF Supply
    <2> QED
      BY <1>2, <2>1, <2>2
  <1> QED
    BY <1>1, <1>3, <1>5, <1>6, <1>7 DEF ClientInv

LEMMA ClientStep ==
    ASSUME Models \subseteq ModelRecords, ClientInv, [ClientNext]_clientVars
    PROVE  ClientInv'
  <1>0. CASE UNCHANGED clientVars
    BY <1>0 DEF clientVars, ClientInv, Supply, OpsOK, Shape, Fits, Uploaded, Sized, BackendOK
  <1>1. ASSUME NEW who, Construct(who) PROVE ClientInv'
    <2>1. t' = NoOps /\ is_ready' = is_ready /\ loading' = loading /\ client = "gone"
      BY <1>1 DEF Construct
    <2>2. is_ready = {} /\ loading = {}
      BY <2>1 DEF ClientInv
    <2>3. OpsOK(t') /\ Shape(t') /\ Fits(t'.bound)
      BY <2>1, NoOpsOK DEF Fits
    <2>4. Supply(t', is_ready', loading')
      BY <2>1, <2>2, NothingToSupply
    <2> QED
      BY <2>1, <2>2, <2>3, <2>4 DEF ClientInv
  <1>2. ASSUME NEW d, InitializeFails(d) PROVE ClientInv'
    <2>1. client = "adapter" /\ ~tried /\ is_ready' = is_ready /\ loading' = loading /\ client' = client
      BY <1>2 DEF InitializeFails
    <2>2. PICK o \in opsInitialize(t, d) : t' = o.t
      BY <1>2 DEF InitializeFails
    <2>3. is_ready = {} /\ loading = {} /\ OpsOK(t) /\ Fits(t.bound)
      BY <2>1 DEF ClientInv
    <2>4. OpsOK(t') /\ t'.bound = t.bound
      BY <2>2, <2>3, OpsInitializeStarts DEF Started
    <2>5. Shape(t') /\ Supply(t', is_ready', loading')
      BY <2>1, <2>3, <2>4, NothingToSupply DEF OpsOK
    <2> QED
      BY <2>1, <2>3, <2>4, <2>5 DEF ClientInv
  <1>3. ASSUME NEW d, HostInitialize(d) PROVE ClientInv'
    <2>1. client = "host" /\ \E v : Host(v)
      BY <1>3 DEF HostInitialize
    <2> QED
      BY <2>1, HostKeeps
  <1>4. ASSUME NEW d, NEW m \in Models, InitializeModel(d, m) PROVE ClientInv'
    BY <1>4, InitializeKeeps
  <1>5. ASSUME NEW p, run_stream(p) PROVE ClientInv'
    BY <1>5 DEF run_stream, ClientInv
  <1>6. CASE InitializeDone
    <2>1. PICK x \in loading : x.next = Len(Weights(x.model)) + 1 /\ is_ready' = {x.model}
      BY <1>6 DEF InitializeDone
    <2>2. loading' = {} /\ client' = client /\ t' = t /\ tried' = tried
      BY <1>6 DEF InitializeDone
    <2>3. client = "adapter" /\ tried /\ x \in [model : ModelRecords, next : Nat \ {0}]
      BY <2>1 DEF ClientInv, Supply
    <2>4. \A j \in DOMAIN Weights(x.model) : j < x.next
      <3>1. x.model \in ModelRecords /\ x.model.layers \in Nat
        BY <2>3 DEF ModelRecords
      <3>2. DOMAIN Weights(x.model) = 1..2 + 9 * x.model.layers /\ Len(Weights(x.model)) = 2 + 9 * x.model.layers
        BY <3>1, WeightAt
      <3> QED
        BY <2>1, <3>1, <3>2
    <2>5. Supply(t', is_ready', loading')
      <3>1. \A j \in DOMAIN Weights(x.model) : Uploaded(t, Weights(x.model)[j])
        BY <2>1, <2>4 DEF ClientInv, Supply
      <3>2. x.model \in ModelRecords
        BY <2>3
      <3> QED
        BY <2>1, <2>2, <3>1, <3>2 DEF Supply
    <2> QED
      BY <2>2, <2>3, <2>5 DEF ClientInv
  <1>7. CASE Token
    <2>1. client' = client /\ t' = t /\ is_ready' = is_ready /\ loading' = loading /\ tried' = tried
      BY <1>7 DEF Token
    <2>2. loading = {}
      <3>1. PICK m \in is_ready : call.at = Len(forward_token(m)) + 1
        BY <1>7 DEF Token
      <3>2. m.layers \in Nat
        BY <3>1 DEF ClientInv, Supply, ModelRecords
      <3>3. Len(forward_token(m)) = 1 + 13 * m.layers + 2
        BY <3>2 DEF forward_token
      <3> QED
        BY <3>1, <3>2, <3>3 DEF ClientInv, NoCall
    <2> QED
      BY <2>1, <2>2 DEF ClientInv
  <1>8. CASE DestroyAdapter
    <2>1. /\ client = "adapter" /\ loading = {} /\ client' = "gone"
          /\ t' = opsShutdown(t) /\ is_ready' = {} /\ loading' = loading
      BY <1>8 DEF DestroyAdapter
    <2>2. OpsOK(t) /\ Fits(t.bound)
      BY <2>1 DEF ClientInv
    <2>3. OpsOK(t') /\ t'.bound = t.bound
      BY <2>1, <2>2, OpsShutdownServes
    <2>4. Shape(t') /\ Supply(t', is_ready', loading')
      BY <2>1, <2>3, NothingToSupply DEF OpsOK
    <2> QED
      BY <2>1, <2>2, <2>3, <2>4 DEF ClientInv
  <1>9. ASSUME NEW key, NEW n, allocate(key, n) PROVE ClientInv'
    <2>1. client = "host" /\ \E v : Host(v)
      BY <1>9 DEF allocate
    <2> QED
      BY <2>1, HostKeeps
  <1>10. ASSUME NEW n, VectorAddBenchmark(n) PROVE ClientInv'
    <2>1. client = "host" /\ \E v : Host(v)
      BY <1>10 DEF VectorAddBenchmark
    <2> QED
      BY <2>1, HostKeeps
  <1>11. ASSUME NEW k, release(k) PROVE ClientInv'
    <2>1. client = "host" /\ \E v : Host(v)
      BY <1>11 DEF release
    <2> QED
      BY <2>1, HostKeeps
  <1>12. ASSUME NEW k, NEW n, upload(k, n) PROVE ClientInv'
    <2>1. client = "host" /\ \E v : Host(v)
      BY <1>12 DEF upload
    <2> QED
      BY <2>1, HostKeeps
  <1>13. CASE DestroyHost
    <2>1. client = "host" /\ client' = "gone" /\ is_ready' = is_ready /\ loading' = loading
      BY <1>13 DEF DestroyHost
    <2>2. \E v : t' = [t EXCEPT !.vk = v]
      BY <1>13 DEF DestroyHost
    <2>3. PICK v : t' = [t EXCEPT !.vk = v]
      BY <2>2
    <2>4. is_ready = {} /\ loading = {} /\ Shape(t) /\ Fits(t.bound)
      BY <2>1 DEF ClientInv
    <2>5. t' \in [vk : {v}, ready : {t.ready}, device : {t.device}, held : {t.held},
                  tensors : {t.tensors}, tmp : {t.tmp}, bound : {t.bound}]
      BY <2>3, <2>4 DEF Shape
    <2>6. Shape(t') /\ t'.bound = t.bound /\ Supply(t', is_ready', loading')
      BY <2>1, <2>4, <2>5, NothingToSupply DEF Shape
    <2> QED
      BY <2>1, <2>4, <2>6 DEF ClientInv
  <1>14. CASE ClientNext
    BY <1>1, <1>2, <1>3, <1>4, <1>5, <1>6, <1>7, <1>8, <1>9, <1>10, <1>11, <1>12, <1>13, <1>14,
       OperationKeeps, UploadKeeps DEF ClientNext
  <1> QED
    BY <1>0, <1>14

LEMMA ClientStart ==
    ASSUME ClientInit
    PROVE  ClientInv
  <1>1. t = NoOps /\ is_ready = {} /\ loading = {} /\ client = "gone"
    BY DEF ClientInit
  <1> QED
    BY <1>1, NoOpsOK, NothingToSupply DEF ClientInv, Fits

\* VulkanTensorOps::ensure and uploadTensor: for every model, prompt and
\* device, whatever call of Vulkan fails and however often an engine is
\* initialized again, a dispatch binds only buffers that hold all the
\* elements its shader goes through.
THEOREM DispatchesFit == ClientSpec => []DispatchFits
  <1>1. ClientInit => ClientInv
    BY ClientStart
  <1>2. ClientInv /\ [ClientNext]_clientVars => ClientInv'
    <2>1. Models \subseteq ModelRecords
      BY ModelsAssumption DEF ModelRecords
    <2> QED
      BY <2>1, ClientStep
  <1>3. ClientInv => DispatchFits
    BY DEF ClientInv, Fits, DispatchFits
  <1> QED
    BY <1>1, <1>2, <1>3, PTL DEF ClientSpec

-----------------------------------------------------------------------------
(* HandlesOwned.  First the objects of a backend.                           *)

\* The kinds of objects that outlive an operation, buffers and their memory apart.
KeptKinds == {"instance", "device", "commandPool", "dsl", "pll", "pipeline", "pool"}
BufferKinds == {"buffer", "memory"}

ObjectsOf(v) == UNION {BufferObjects(i) : i \in DOMAIN v.buffers}

\* The objects that exist are those in R and those of the buffers.
Holds(v, R) ==
    /\ BackendOK(v)
    /\ v.live = R \cup ObjectsOf(v)
    /\ \A h \in R : h[1] \in KeptKinds

\* From v to w, no object was made for good and none was lost.
SameObjects(v, w) == SameBuffers(v, w) /\ w.live = v.live /\ w.held = v.held /\ w.twice = v.twice

LEMMA SameHolds ==
    ASSUME NEW v, NEW w, NEW R, Holds(v, R), SameObjects(v, w)
    PROVE  Holds(w, R)
  BY DEF Holds, SameObjects, SameBuffers, ObjectsOf

LEMMA SameObjectsTwice ==
    ASSUME NEW u, NEW v, NEW w, SameObjects(u, v), SameObjects(v, w)
    PROVE  SameObjects(u, w)
  BY DEF SameObjects, SameBuffers

LEMMA SelfSame ==
    ASSUME NEW v, BackendOK(v)
    PROVE  SameObjects(v, v)
  BY DEF SameObjects, SameBuffers

LEMMA FailObjects ==
    ASSUME NEW v, BackendOK(v)
    PROVE  SameObjects(v, fail(v))
  <1>1. SameBuffers(v, fail(v))
    BY FailKeeps
  <1> QED
    BY <1>1 DEF fail, BackendOK, SameObjects

\* What Destroy changes.
LEMMA DestroyObjects ==
    ASSUME NEW v, NEW H, BackendOK(v)
    PROVE  /\ SameBuffers(v, Destroy(v, H)) /\ Destroy(v, H).held = v.held
           /\ Destroy(v, H).live = v.live \ H
           /\ Destroy(v, H).twice = v.twice \cup (H \ v.live)
  <1>1. SameBuffers(v, Destroy(v, H))
    BY DestroyKeeps
  <1> QED
    BY <1>1 DEF Destroy, BackendOK

\* What a script leaves that ends after its first k calls.
LEMMA AttemptObjects ==
    ASSUME NEW v, NEW script, NEW o \in Attempt(v, script), BackendOK(v)
    PROVE  \E k, undo :
              /\ k \in 0..Len(script) /\ undo = IF k < Len(script) THEN script[k + 1].undo ELSE {}
              /\ o.made = Made(script, k) /\ (o.ok <=> k = Len(script))
              /\ SameBuffers(v, o.v) /\ o.v.held = v.held
              /\ o.v.live = (v.live \cup o.made) \ undo
              /\ o.v.twice = v.twice \cup (undo \ (v.live \cup o.made))
  <1>1. PICK k \in 0..Len(script) :
          o = [v |-> Destroy([v EXCEPT !.live = @ \cup Made(script, k)],
                                IF k < Len(script) THEN script[k + 1].undo ELSE {}),
               made |-> Made(script, k),
               ok |-> k = Len(script)]
    BY DEF Attempt
  <1> DEFINE w == [v EXCEPT !.live = @ \cup Made(script, k)]
             undo == IF k < Len(script) THEN script[k + 1].undo ELSE {}
  <1>2. SameBuffers(v, w)
    BY LiveKeeps
  <1>3. w.live = v.live \cup Made(script, k) /\ w.held = v.held /\ w.twice = v.twice
    BY DEF BackendOK
  <1>4. o.v = Destroy(w, undo) /\ o.made = Made(script, k) /\ (o.ok <=> k = Len(script))
    BY <1>1
  <1> HIDE DEF w
  <1>5. BackendOK(w)
    BY <1>2 DEF SameBuffers
  <1>6. /\ SameBuffers(w, o.v) /\ o.v.held = w.held /\ o.v.live = w.live \ undo
        /\ o.v.twice = w.twice \cup (undo \ w.live)
    BY <1>4, <1>5, DestroyObjects
  <1>7. SameBuffers(v, o.v)
    BY <1>2, <1>6, SameTwice
  <1> QED
    BY <1>3, <1>4, <1>6, <1>7

\* A script that undoes all it has made when it fails, and makes new objects only.
Tidy(v, script) ==
    \A k \in 1..Len(script) : script[k].undo = Made(script, k - 1) /\ script[k].make \notin v.live

LEMMA TidyAttempt ==
    ASSUME NEW v, NEW script, NEW o \in Attempt(v, script), BackendOK(v), Tidy(v, script), Len(script) \in Nat
    PROVE  /\ ~o.ok => SameObjects(v, o.v)
           /\ o.ok => /\ SameBuffers(v, o.v) /\ o.v.held = v.held /\ o.v.twice = v.twice
                      /\ o.made = Made(script, Len(script)) /\ o.v.live = v.live \cup o.made
                      /\ SameObjects(v, Destroy(o.v, o.made))
  <1>1. PICK k, undo :
              /\ k \in 0..Len(script) /\ undo = IF k < Len(script) THEN script[k + 1].undo ELSE {}
              /\ o.made = Made(script, k) /\ (o.ok <=> k = Len(script))
              /\ SameBuffers(v, o.v) /\ o.v.held = v.held
              /\ o.v.live = (v.live \cup o.made) \ undo
              /\ o.v.twice = v.twice \cup (undo \ (v.live \cup o.made))
    BY AttemptObjects
  <1>2. o.made \cap v.live = {}
    <2>1. ASSUME NEW h \in o.made PROVE h \notin v.live
      <3>1. PICK i \in 1..k : h = script[i].make
        BY <1>1 DEF Made
      <3>2. i \in 1..Len(script)
        BY <1>1
      <3> QED
        BY <3>1, <3>2 DEF Tidy
    <2> QED
      BY <2>1
  <1>3. CASE k < Len(script)
    <2>1. k + 1 \in 1..Len(script) /\ (k + 1) - 1 = k
      BY <1>1, <1>3
    <2>2. undo = o.made
      BY <1>1, <1>3, <2>1 DEF Tidy
    <2>3. o.v.live = v.live /\ o.v.twice = v.twice
      BY <1>1, <1>2, <2>2
    <2> QED
      BY <1>1, <1>3, <2>3 DEF SameObjects
  <1>4. CASE k = Len(script)
    <2>1. undo = {}
      BY <1>1, <1>4
    <2>2. o.v.live = v.live \cup o.made /\ o.v.twice = v.twice /\ o.ok
      BY <1>1, <1>4, <2>1
    <2> DEFINE d == Destroy(o.v, o.made)
    <2>3. BackendOK(o.v)
      BY <1>1 DEF SameBuffers
    <2>4. SameBuffers(o.v, d) /\ d.held = o.v.held /\ d.live = o.v.live \ o.made /\ d.twice = o.v.twice \cup (o.made \ o.v.live)
      BY <2>3, DestroyObjects
    <2> HIDE DEF d
    <2>5. d.live = v.live /\ d.twice = v.twice
      BY <1>2, <2>2, <2>4
    <2>6. SameObjects(v, d)
      BY <1>1, <2>4, <2>5, SameTwice DEF SameObjects
    <2> QED
      BY <1>1, <1>4, <2>2, <2>6 DEF d
  <1> QED
    BY <1>1, <1>3, <1>4

\* Scripts of two and of three calls.
LEMMA TwoCalls ==
    ASSUME NEW v, NEW a, NEW b, a \notin v.live, b \notin v.live
    PROVE  LET script == <<Step(a, {}), Step(b, {a})>>
           IN  Len(script) \in Nat /\ Tidy(v, script) /\ Made(script, Len(script)) = {a, b}
  <1> DEFINE script == <<Step(a, {}), Step(b, {a})>>
  <1>1. Len(script) = 2 /\ script[1] = Step(a, {}) /\ script[2] = Step(b, {a})
    OBVIOUS
  <1> HIDE DEF script
  <1>2. Made(script, 0) = {} /\ Made(script, 1) = {a} /\ Made(script, 2) = {a, b}
    BY <1>1 DEF Made, Step
  <1>3. \A k \in 1..2 : k = 1 \/ k = 2
    OBVIOUS
  <1>4. 1 - 1 = 0 /\ 2 - 1 = 1
    OBVIOUS
  <1>5. script[1].undo = {} /\ script[1].make = a /\ script[2].undo = {a} /\ script[2].make = b
    BY <1>1 DEF Step
  <1>6. Tidy(v, script)
    BY <1>1, <1>2, <1>3, <1>4, <1>5 DEF Tidy
  <1> QED
    BY <1>1, <1>2, <1>6 DEF script

LEMMA ThreeCalls ==
    ASSUME NEW v, NEW a, NEW b, NEW c, a \notin v.live, b \notin v.live, c \notin v.live
    PROVE  LET script == <<Step(a, {}), Step(b, {a}), Step(c, {a, b})>>
           IN  Len(script) \in Nat /\ Tidy(v, script) /\ Made(script, Len(script)) = {a, b, c}
  <1> DEFINE script == <<Step(a, {}), Step(b, {a}), Step(c, {a, b})>>
  <1>1. Len(script) = 3 /\ script[1] = Step(a, {}) /\ script[2] = Step(b, {a}) /\ script[3] = Step(c, {a, b})
    OBVIOUS
  <1> HIDE DEF script
  <1>2. Made(script, 0) = {} /\ Made(script, 1) = {a} /\ Made(script, 2) = {a, b} /\ Made(script, 3) = {a, b, c}
    BY <1>1 DEF Made, Step
  <1>3. \A k \in 1..3 : k = 1 \/ k = 2 \/ k = 3
    OBVIOUS
  <1>4. 1 - 1 = 0 /\ 2 - 1 = 1 /\ 3 - 1 = 2
    OBVIOUS
  <1>5. /\ script[1].undo = {} /\ script[1].make = a /\ script[2].undo = {a} /\ script[2].make = b
        /\ script[3].undo = {a, b} /\ script[3].make = c
    BY <1>1 DEF Step
  <1>6. Tidy(v, script)
    BY <1>1, <1>2, <1>3, <1>4, <1>5 DEF Tidy
  <1> QED
    BY <1>1, <1>2, <1>6 DEF script

\* An object of another kind does not exist between two operations.
LEMMA NotKept ==
    ASSUME NEW v, NEW R, NEW kind, NEW owner, Holds(v, R), kind \notin KeptKinds \cup BufferKinds
    PROVE  <<kind, owner>> \notin v.live
  <1>1. <<kind, owner>>[1] = kind
    OBVIOUS
  <1>2. <<kind, owner>> \notin R
    BY <1>1 DEF Holds
  <1>3. \A i : <<kind, owner>> \notin BufferObjects(i)
    BY DEF BufferObjects, BufferKinds
  <1> QED
    BY <1>2, <1>3 DEF Holds, ObjectsOf

LEMMA TransferObjects ==
    ASSUME NEW v, NEW R, NEW o \in Transfer(v), Holds(v, R)
    PROVE  SameObjects(v, o.v)
  <1>0. BackendOK(v)
    BY DEF Holds
  <1>1. CASE o \in copyBuffer(v)
    <2> DEFINE a == Own("staging")
               b == Own("stagingMemory")
               c == Own("cmd")
               script == <<Step(a, {}), Step(b, {a}), Step(c, {a, b})>>
    <2>1. PICK p \in Attempt(v, script) :
            o = [v |-> IF p.ok THEN Destroy(p.v, p.made) ELSE fail(p.v), ok |-> p.ok]
      BY <1>1 DEF copyBuffer
    <2>2. a \notin v.live /\ b \notin v.live /\ c \notin v.live
      BY NotKept DEF Own, KeptKinds, BufferKinds
    <2>3. Len(script) \in Nat /\ Tidy(v, script)
      BY <2>2, ThreeCalls
    <2> HIDE DEF script, a, b, c
    <2>4. /\ ~p.ok => SameObjects(v, p.v)
          /\ p.ok => SameObjects(v, Destroy(p.v, p.made))
      BY <1>0, <2>3, TidyAttempt
    <2>5. CASE p.ok
      BY <2>1, <2>4, <2>5
    <2>6. CASE ~p.ok
      <3>1. SameObjects(p.v, fail(p.v))
        BY <2>4, <2>6, FailObjects DEF SameObjects, SameBuffers
      <3> QED
        BY <2>1, <2>4, <2>6, <3>1, SameObjectsTwice
    <2> QED
      BY <2>5, <2>6
  <1>2. CASE o \in {[v |-> v, ok |-> TRUE], [v |-> fail(v), ok |-> FALSE]}
    <2>1. o.v = v \/ o.v = fail(v)
      BY <1>2
    <2> QED
      BY <1>0, <2>1, FailObjects, SelfSame
  <1> QED
    BY <1>1, <1>2 DEF Transfer

LEMMA UploadBytesObjects ==
    ASSUME NEW v, NEW R, NEW id, NEW n, NEW o \in uploadBytes(v, id, n), Holds(v, R)
    PROVE  SameObjects(v, o.v)
  <1>1. o = [v |-> fail(v), ok |-> FALSE] \/ o \in Transfer(v)
    BY DEF uploadBytes
  <1>2. SameObjects(v, fail(v))
    BY FailObjects DEF Holds
  <1> QED
    BY <1>1, <1>2, TransferObjects

LEMMA DownloadObjects ==
    ASSUME NEW v, NEW R, NEW id, NEW o \in download(v, id), Holds(v, R)
    PROVE  SameObjects(v, o.v)
  <1>1. o = [v |-> fail(v), ok |-> FALSE] \/ o \in Transfer(v)
    BY DEF download
  <1>2. SameObjects(v, fail(v))
    BY FailObjects DEF Holds
  <1> QED
    BY <1>1, <1>2, TransferObjects

LEMMA VectorAddObjects ==
    ASSUME NEW v, NEW R, NEW ids, NEW o \in executeVectorAdd(v, ids), Holds(v, R)
    PROVE  SameObjects(v, o.v)
  <1>0. BackendOK(v)
    BY DEF Holds
  <1> DEFINE a == Own("set")
             b == Own("cmd")
             script == <<Step(a, {}), Step(b, {a})>>
  <1>1. a \notin v.live /\ b \notin v.live
    BY NotKept DEF Own, KeptKinds, BufferKinds
  <1>2. Len(script) \in Nat /\ Tidy(v, script)
    BY <1>1, TwoCalls
  <1>3. \/ o = [v |-> fail(v), ok |-> FALSE]
        \/ \E p \in Attempt(v, script) :
              IF p.ok THEN o \in {[v |-> Destroy(p.v, p.made), ok |-> TRUE], [v |-> fail(Destroy(p.v, p.made)), ok |-> FALSE]}
              ELSE o = [v |-> fail(p.v), ok |-> FALSE]
    BY <1>1 DEF executeVectorAdd
  <1> HIDE DEF script, a, b
  <1>4. CASE o = [v |-> fail(v), ok |-> FALSE]
    BY <1>0, <1>4, FailObjects
  <1>5. ASSUME NEW p \in Attempt(v, script),
               IF p.ok THEN o \in {[v |-> Destroy(p.v, p.made), ok |-> TRUE], [v |-> fail(Destroy(p.v, p.made)), ok |-> FALSE]}
               ELSE o = [v |-> fail(p.v), ok |-> FALSE]
        PROVE  SameObjects(v, o.v)
    <2> DEFINE w == IF p.ok THEN Destroy(p.v, p.made) ELSE p.v
    <2>1. SameObjects(v, w)
      BY <1>0, <1>2, TidyAttempt
    <2>2. o.v = w \/ o.v = fail(w)
      BY <1>5
    <2> HIDE DEF w
    <2>3. SameObjects(w, fail(w))
      BY <2>1, FailObjects DEF SameObjects, SameBuffers
    <2> QED
      BY <2>1, <2>2, <2>3, SameObjectsTwice
  <1> QED
    BY <1>3, <1>4, <1>5

\* From v to w the buffers have become those of D, and nothing else has changed.
NowBuffers(v, w, R, D) == Holds(w, R) /\ w.held = v.held /\ w.twice = v.twice /\ DOMAIN w.buffers = D

LEMMA SameNow ==
    ASSUME NEW v, NEW w, NEW R, Holds(v, R), SameObjects(v, w)
    PROVE  NowBuffers(v, w, R, DOMAIN v.buffers)
  <1>1. Holds(w, R)
    BY SameHolds
  <1> QED
    BY <1>1 DEF NowBuffers, SameObjects, SameBuffers

LEMMA CreateObjects ==
    ASSUME NEW v, NEW R, NEW n \in Nat, NEW c \in createBuffer(v, n), Holds(v, R)
    PROVE  \/ c.id = 0 /\ NowBuffers(v, c.v, R, DOMAIN v.buffers)
           \/ /\ c.id \in Nat \ {0} /\ c.id \notin DOMAIN v.buffers
              /\ NowBuffers(v, c.v, R, DOMAIN v.buffers \cup {c.id})
  <1> DEFINE a == <<"buffer", v.next>>
             b == <<"memory", v.next>>
             script == <<Step(a, {}), Step(b, {a})>>
             Entered(w) == [w EXCEPT !.next = @ + 1,
                              !.buffers = [i \in DOMAIN @ \cup {v.next} |-> IF i = v.next THEN n ELSE @[i]]]
  <1>0. BackendOK(v) /\ v.next \in Nat \ {0} /\ v.next \notin DOMAIN v.buffers
    BY DEF Holds, BackendOK
  <1>1. CASE n = 0
    <2>1. c = [v |-> fail(v), id |-> 0]
      BY <1>1 DEF createBuffer
    <2>2. SameObjects(v, fail(v))
      BY <1>0, FailObjects
    <2> QED
      BY <2>1, <2>2, SameNow
  <1>2. CASE n # 0
    <2>1. PICK o \in Attempt(v, script) :
            c = IF o.ok /\ v.memory # "none" THEN [v |-> Entered(o.v), id |-> v.next]
                ELSE [v |-> fail(IF o.ok THEN Destroy(o.v, o.made) ELSE o.v), id |-> 0]
      BY <1>2 DEF createBuffer
    <2>2. a \notin v.live /\ b \notin v.live
      <3>1. ASSUME NEW i \in DOMAIN v.buffers PROVE a \notin BufferObjects(i) /\ b \notin BufferObjects(i)
        <4>1. i # v.next
          BY <1>0
        <4> QED
          BY <4>1 DEF BufferObjects
      <3>2. a[1] = "buffer" /\ b[1] = "memory"
        OBVIOUS
      <3>3. a \notin R /\ b \notin R
        BY <3>2 DEF Holds, KeptKinds
      <3> HIDE DEF a, b
      <3> QED
        BY <3>1, <3>3 DEF Holds, ObjectsOf
    <2>3. Len(script) \in Nat /\ Tidy(v, script) /\ Made(script, Len(script)) = {a, b}
      BY <2>2, TwoCalls
    <2> HIDE DEF script
    <2>4. /\ ~o.ok => SameObjects(v, o.v)
          /\ o.ok => /\ SameBuffers(v, o.v) /\ o.v.held = v.held /\ o.v.twice = v.twice
                     /\ o.v.live = v.live \cup {a, b}
                     /\ SameObjects(v, Destroy(o.v, o.made))
      BY <1>0, <2>3, TidyAttempt
    <2>5. CASE o.ok /\ v.memory # "none"
      <3> DEFINE w == o.v
                 f == [i \in DOMAIN w.buffers \cup {v.next} |-> IF i = v.next THEN n ELSE w.buffers[i]]
      <3>1. c.id = v.next /\ c.v = [w EXCEPT !.next = w.next + 1, !.buffers = f]
        BY <2>1, <2>5
      <3>2. BackendOK(w) /\ w.buffers = v.buffers /\ w.live = v.live \cup {a, b} /\ w.held = v.held /\ w.twice = v.twice
        BY <2>4, <2>5 DEF SameBuffers
      <3> HIDE DEF w
      <3>3. DOMAIN f = DOMAIN v.buffers \cup {v.next}
        BY <3>2
      <3>4. c.v.live = w.live /\ c.v.held = w.held /\ c.v.buffers = f /\ c.v.twice = w.twice
        <4> HIDE DEF f
        <4> QED
          BY <3>1, <3>2 DEF BackendOK
      <3> HIDE DEF f
      <3>5. BackendOK(c.v)
        BY <1>0, BufferCreated DEF Later
      <3>6. ObjectsOf(c.v) = ObjectsOf(v) \cup {a, b}
        BY <3>3, <3>4 DEF ObjectsOf, BufferObjects
      <3>7. Holds(c.v, R)
        BY <3>2, <3>4, <3>5, <3>6 DEF Holds
      <3> QED
        BY <1>0, <3>1, <3>2, <3>3, <3>4, <3>7 DEF NowBuffers
    <2>6. CASE ~(o.ok /\ v.memory # "none")
      <3> DEFINE w == IF o.ok THEN Destroy(o.v, o.made) ELSE o.v
      <3>1. SameObjects(v, w)
        BY <2>4
      <3>2. c = [v |-> fail(w), id |-> 0]
        BY <2>1, <2>6
      <3> HIDE DEF w
      <3>3. SameObjects(w, fail(w))
        BY <3>1, FailObjects DEF SameObjects, SameBuffers
      <3>4. SameObjects(v, fail(w))
        BY <3>1, <3>3, SameObjectsTwice
      <3> QED
        BY <3>2, <3>4, SameNow
    <2> QED
      BY <2>5, <2>6
  <1> QED
    BY <1>1, <1>2

\* Destroying buffers takes their objects and no others.
LEMMA DestroyedObjects ==
    ASSUME NEW v, NEW R, NEW ids, Holds(v, R)
    PROVE  NowBuffers(v, destroyBuffers(v, ids), R, DOMAIN v.buffers \ ids)
  <1> DEFINE known == ids \cap DOMAIN v.buffers
             H == UNION {BufferObjects(i) : i \in known}
             w == Destroy(v, H)
             f == [i \in DOMAIN w.buffers \ known |-> w.buffers[i]]
             d == destroyBuffers(v, ids)
  <1>0. BackendOK(v)
    BY DEF Holds
  <1>1. SameBuffers(v, w) /\ w.held = v.held /\ w.live = v.live \ H /\ w.twice = v.twice \cup (H \ v.live)
    <2> HIDE DEF H
    <2> QED
      BY <1>0, DestroyObjects
  <1>2. d = [w EXCEPT !.buffers = f]
    BY DEF destroyBuffers
  <1>3. H \subseteq v.live
    BY DEF Holds, ObjectsOf
  <1>4. \A h \in R : h \notin H
    <2>1. \A i : \A h \in BufferObjects(i) : h[1] \in BufferKinds
      BY DEF BufferObjects, BufferKinds
    <2>2. \A h \in H : h[1] \in BufferKinds
      BY <2>1
    <2> QED
      BY <2>2 DEF Holds, BufferKinds, KeptKinds
  <1>5. \A i, j : i # j => BufferObjects(i) \cap BufferObjects(j) = {}
    BY DEF BufferObjects
  <1>6. DOMAIN f = DOMAIN v.buffers \ ids
    BY <1>1 DEF SameBuffers
  <1>7. BackendOK(d) /\ DOMAIN d.buffers = DOMAIN v.buffers \ ids
    BY <1>0, BuffersDestroyed DEF Later
  <1> HIDE DEF w, d, f
  <1>8. d.live = w.live /\ d.held = w.held /\ d.twice = w.twice
    BY <1>1, <1>2 DEF BackendOK, SameBuffers
  <1>9. ObjectsOf(d) = ObjectsOf(v) \ H
    BY <1>5, <1>7 DEF ObjectsOf
  <1> HIDE DEF H
  <1>10. d.live = R \cup ObjectsOf(d)
    BY <1>1, <1>4, <1>8, <1>9 DEF Holds
  <1>11. d.twice = v.twice /\ d.held = v.held
    BY <1>1, <1>3, <1>8
  <1> QED
    BY <1>7, <1>10, <1>11 DEF Holds, NowBuffers, d

LEMMA DestroyedObject ==
    ASSUME NEW v, NEW R, NEW id, Holds(v, R)
    PROVE  NowBuffers(v, destroyBuffer(v, id), R, DOMAIN v.buffers \ {id})
  <1>1. CASE id \notin DOMAIN v.buffers
    <2>1. destroyBuffer(v, id) = v /\ DOMAIN v.buffers \ {id} = DOMAIN v.buffers
      BY <1>1 DEF destroyBuffer
    <2> QED
      BY <2>1 DEF NowBuffers
  <1>2. CASE id \in DOMAIN v.buffers
    <2>1. {id} \cap DOMAIN v.buffers = {id} /\ UNION {BufferObjects(i) : i \in {id}} = BufferObjects(id)
      BY <1>2
    <2>2. destroyBuffer(v, id) = destroyBuffers(v, {id})
      BY <1>2, <2>1 DEF destroyBuffer, destroyBuffers
    <2> QED
      BY <2>2, DestroyedObjects
  <1> QED
    BY <1>1, <1>2

-----------------------------------------------------------------------------
(* The objects of the tensor operations.                                    *)

Ids(u) == {u.tmp[s].id : s \in TmpSlots} \cup {u.tensors[x].id : x \in DOMAIN u.tensors}

\* No buffer is named twice.
OneName(u) ==
    /\ \A s, r \in TmpSlots : u.tmp[s].id = u.tmp[r].id /\ u.tmp[s].id # 0 => s = r
    /\ \A x, y \in DOMAIN u.tensors : u.tensors[x].id = u.tensors[y].id => x = y
    /\ \A x \in DOMAIN u.tensors : u.tensors[x].id # 0
    /\ \A s \in TmpSlots, x \in DOMAIN u.tensors : u.tmp[s].id # u.tensors[x].id

Members(u) == u.held \cup u.vk.held

\* What exists are the objects that members name and the buffers that are noted;
\* without a device there are the backend's at most.
Owns(u) ==
    /\ Shape(u) /\ u.tmp = [s \in TmpSlots |-> u.tmp[s]]
    /\ Holds(u.vk, Members(u)) /\ u.vk.twice \subseteq Layouts
    /\ \A h \in u.vk.held : h[2] = "backend"
    /\ \A h \in u.held : h[2] # "backend"
    /\ DOMAIN u.vk.buffers = Ids(u) \ {0} /\ OneName(u)
    /\ u.device \/ (u.held = {} /\ Ids(u) \subseteq {0})
    /\ u.ready => u.device

\* Between initialize and shutdown: with a device, and with everything.
Begun(u) == Owns(u) /\ u.device
Runs(u) == Begun(u) /\ u.ready

\* A backend that has made and lost nothing leaves the owners as they are.
LEMMA SameOwners ==
    ASSUME NEW u, NEW w, NEW b, NEW y, Owns(u), SameObjects(u.vk, w),
           y \in [vk : {w}, ready : {u.ready}, device : {u.device}, held : {u.held},
                  tensors : {u.tensors}, tmp : {u.tmp}, bound : {b}]
    PROVE  Owns(y) /\ y.device = u.device /\ y.ready = u.ready
  <1>1. /\ Shape(y) /\ y.vk = w /\ y.ready = u.ready /\ y.device = u.device /\ y.held = u.held
        /\ y.tensors = u.tensors /\ y.tmp = u.tmp
    BY DEF Shape
  <1>2. w.held = u.vk.held /\ w.twice = u.vk.twice /\ w.buffers = u.vk.buffers
    BY DEF SameObjects, SameBuffers
  <1>3. Members(y) = Members(u)
    BY <1>1, <1>2 DEF Members
  <1>4. Holds(w, Members(u))
    BY SameHolds DEF Owns
  <1>5. Ids(y) = Ids(u) /\ (OneName(y) <=> OneName(u))
    BY <1>1 DEF Ids, OneName
  <1> QED
    BY <1>1, <1>2, <1>3, <1>4, <1>5 DEF Owns

LEMMA OnOwns ==
    ASSUME NEW u, NEW o, Owns(u), SameObjects(u.vk, o.v)
    PROVE  Owns(On(u, o).t) /\ On(u, o).t.device = u.device /\ On(u, o).t.ready = u.ready
  <1>1. On(u, o).t \in [vk : {o.v}, ready : {u.ready}, device : {u.device}, held : {u.held},
                        tensors : {u.tensors}, tmp : {u.tmp}, bound : {u.bound}]
    BY DEF On, Owns, Shape
  <1> QED
    BY <1>1, SameOwners

LEMMA UploadOwns ==
    ASSUME NEW u, NEW s, NEW n, NEW o \in Upload(u, s, n), Runs(u)
    PROVE  Runs(o.t)
  <1>1. PICK p \in uploadBytes(u.vk, u.tmp[s].id, n) : o = On(u, p)
    BY DEF Upload
  <1>2. SameObjects(u.vk, p.v)
    BY UploadBytesObjects DEF Runs, Begun, Owns
  <1> QED
    BY <1>1, <1>2, OnOwns DEF Runs, Begun

LEMMA DownloadOwns ==
    ASSUME NEW u, NEW s, NEW o \in Download(u, s), Runs(u)
    PROVE  Runs(o.t)
  <1>1. PICK p \in download(u.vk, u.tmp[s].id) : o = On(u, p)
    BY DEF Download
  <1>2. SameObjects(u.vk, p.v)
    BY DownloadObjects DEF Runs, Begun, Owns
  <1> QED
    BY <1>1, <1>2, OnOwns DEF Runs, Begun

\* A dispatch gives back what it allocates, whether it is queued or not.
LEMMA DispatchOwns ==
    ASSUME NEW u, NEW bindings, NEW o \in runPipeline(u, bindings), Runs(u)
    PROVE  Runs(o.t)
  <1> DEFINE a == <<"set", "ops">>
             b == <<"cmd", "ops">>
             script == <<Step(a, {}), Step(b, {a})>>
             Bind(v) == [u EXCEPT !.vk = v, !.bound = bindings]
  <1>1. CASE o.t = u
    BY <1>1
  <1>2. CASE o.t # u
    <2>1. u.ready
      <3> SUFFICES ASSUME ~u.ready PROVE FALSE
        OBVIOUS
      <3>1. o \in {[t |-> u, ok |-> FALSE]}
        BY DEF runPipeline
      <3> QED
        BY <1>2, <3>1
    <2>2. PICK p \in Attempt(u.vk, script) :
            o \in IF p.ok THEN {[t |-> Bind(Destroy(p.v, p.made)), ok |-> TRUE],
                                [t |-> Bind(Destroy(p.v, p.made)), ok |-> FALSE]}
                  ELSE {[t |-> IF p.made = {} THEN u ELSE Bind(p.v), ok |-> FALSE]}
      BY <2>1 DEF runPipeline
    <2>3. Len(script) \in Nat /\ Tidy(u.vk, script)
      <3>1. Holds(u.vk, Members(u))
        BY DEF Runs, Begun, Owns
      <3>2. a \notin u.vk.live /\ b \notin u.vk.live
        BY <3>1, NotKept DEF KeptKinds, BufferKinds
      <3> QED
        BY <3>2, TwoCalls
    <2> HIDE DEF script
    <2> DEFINE w == IF p.ok THEN Destroy(p.v, p.made) ELSE p.v
    <2>4. SameObjects(u.vk, w)
      BY <2>3, TidyAttempt DEF Runs, Begun, Owns, Holds
    <2>5. o.t = Bind(w)
      <3> HIDE DEF Bind
      <3>1. CASE p.ok
        BY <2>2, <3>1
      <3>2. CASE ~p.ok
        BY <1>2, <2>2, <3>2
      <3> QED
        BY <3>1, <3>2
    <2> HIDE DEF w
    <2>6. o.t \in [vk : {w}, ready : {u.ready}, device : {u.device}, held : {u.held},
                   tensors : {u.tensors}, tmp : {u.tmp}, bound : {bindings}]
      BY <2>5 DEF Runs, Begun, Owns, Shape
    <2> QED
      BY <2>4, <2>6, SameOwners DEF Runs, Begun
  <1> QED
    BY <1>1, <1>2

\* A transient buffer is destroyed before its slot names another one.
LEMMA EnsureOwns ==
    ASSUME NEW u, NEW s \in TmpSlots, NEW n \in Nat, NEW o \in ensure(u, s, n), Runs(u)
    PROVE  o.ok /\ Runs(o.t)
  <1>1. CASE u.tmp[s].id # 0 /\ u.tmp[s].n >= n
    <2>1. o = [t |-> u, ok |-> TRUE]
      BY <1>1 DEF ensure
    <2> QED
      BY <2>1
  <1>2. CASE ~(u.tmp[s].id # 0 /\ u.tmp[s].n >= n)
    <2> DEFINE old == u.tmp[s].id
               d == destroyBuffer(u.vk, old)
               R == Members(u)
    <2>1. PICK c \in createBuffer(d, n) :
            o = [t |-> [u EXCEPT !.vk = c.v, !.tmp[s] = [id |-> c.id, n |-> n]], ok |-> TRUE]
      BY <1>2 DEF ensure
    <2>2. Shape(u) /\ u.tmp = [r \in TmpSlots |-> u.tmp[r]] /\ Holds(u.vk, R)
      BY DEF Runs, Begun, Owns
    <2>3. NowBuffers(u.vk, d, R, DOMAIN u.vk.buffers \ {old})
      BY <2>2, DestroyedObject
    <2> HIDE DEF R, d
    <2>4. \/ c.id = 0 /\ NowBuffers(d, c.v, R, DOMAIN d.buffers)
          \/ /\ c.id \in Nat \ {0} /\ c.id \notin DOMAIN d.buffers
             /\ NowBuffers(d, c.v, R, DOMAIN d.buffers \cup {c.id})
      BY <2>3, CreateObjects DEF NowBuffers
    <2> DEFINE b == [id |-> c.id, n |-> n]
               T == [u.tmp EXCEPT ![s] = b]
               y == o.t
    <2>5. T = [r \in TmpSlots |-> T[r]] /\ T[s] = b /\ \A r \in TmpSlots \ {s} : T[r] = u.tmp[r]
      BY <2>2
    <2>6. o.ok /\ y \in [vk : {c.v}, ready : {u.ready}, device : {u.device}, held : {u.held},
                         tensors : {u.tensors}, tmp : {T}, bound : {u.bound}]
      BY <2>1, <2>2 DEF Shape
    <2>7. b.id = c.id
      OBVIOUS
    <2> HIDE DEF b, T, y
    <2>8. /\ Shape(y) /\ y.vk = c.v /\ y.ready = u.ready /\ y.device = u.device /\ y.held = u.held
          /\ y.tensors = u.tensors /\ y.tmp = T
      BY <2>6 DEF Shape
    <2>9. /\ Holds(c.v, R) /\ c.v.held = u.vk.held /\ c.v.twice = u.vk.twice
          /\ DOMAIN c.v.buffers = ((DOMAIN u.vk.buffers \ {old}) \cup {c.id}) \ {0}
          /\ c.id # 0 => c.id \notin DOMAIN u.vk.buffers \ {old}
      <3>1. 0 \notin DOMAIN u.vk.buffers
        BY <2>2 DEF Holds, BackendOK
      <3> QED
        BY <2>3, <2>4, <3>1 DEF NowBuffers
    <2>10. DOMAIN u.vk.buffers = Ids(u) \ {0} /\ OneName(u)
      BY DEF Runs, Begun, Owns
    <2>11. \A r \in TmpSlots \ {s} : u.tmp[r].id \in (Ids(u) \ {old}) \cup {0}
      BY <2>10 DEF OneName, Ids
    <2>12. \A x \in DOMAIN u.tensors : u.tensors[x].id \in Ids(u) \ {old, 0}
      BY <2>10 DEF OneName, Ids
    <2>13. OneName(y)
      <3>1. \A r \in TmpSlots \ {s} : c.id # 0 => T[r].id # c.id
        BY <2>5, <2>9, <2>10, <2>11
      <3>2. \A x \in DOMAIN u.tensors : u.tensors[x].id # c.id
        BY <2>9, <2>10, <2>12
      <3>3. T[s].id = c.id
        BY <2>5, <2>7
      <3>4. \A p, r \in TmpSlots : T[p].id = T[r].id /\ T[p].id # 0 => p = r
        <4> TAKE p, r \in TmpSlots
        <4>1. CASE p # s /\ r # s
          BY <2>5, <2>10, <4>1 DEF OneName
        <4>2. CASE p = s \/ r = s
          BY <3>1, <3>3, <4>2
        <4> QED
          BY <4>1, <4>2
      <3>5. \A r \in TmpSlots, x \in DOMAIN u.tensors : T[r].id # u.tensors[x].id
        BY <2>5, <2>10, <3>2, <3>3 DEF OneName
      <3> QED
        BY <2>8, <2>10, <3>4, <3>5 DEF OneName
    <2>14. DOMAIN c.v.buffers = Ids(y) \ {0}
      <3>1. Ids(y) = {u.tmp[r].id : r \in TmpSlots \ {s}} \cup {c.id} \cup {u.tensors[x].id : x \in DOMAIN u.tensors}
        BY <2>5, <2>7, <2>8 DEF Ids
      <3>2. Ids(u) = {u.tmp[r].id : r \in TmpSlots \ {s}} \cup {old} \cup {u.tensors[x].id : x \in DOMAIN u.tensors}
        BY DEF Ids
      <3> QED
        BY <2>9, <2>10, <2>11, <2>12, <3>1, <3>2
    <2>15. Members(y) = R
      BY <2>8, <2>9 DEF Members, R
    <2>16. Runs(y)
      BY <2>2, <2>5, <2>8, <2>9, <2>13, <2>14, <2>15 DEF Runs, Begun, Owns
    <2> QED
      BY <2>6, <2>16 DEF y
  <1> QED
    BY <1>1, <1>2

LEMMA MatvecOwns ==
    ASSUME NEW u, NEW A, NEW m, NEW k, NEW o \in matvec(u, A, m, k), Runs(u)
    PROVE  Runs(o.t)
  <1> DEFINE bindings == {Binding(u, u.tensors[A].id, m * k), Binding(u, u.tmp["x"].id, k),
                          Binding(u, u.tmp["out"].id, m)}
  <1>1. o = [t |-> u, ok |-> FALSE] \/ o \in runPipeline(u, bindings)
    BY DEF matvec
  <1> HIDE DEF bindings
  <1> QED
    BY <1>1, DispatchOwns

LEMMA MatvecHostOwns ==
    ASSUME NEW u, NEW A, NEW m \in Nat, NEW k \in Nat, NEW o \in matvecHost(u, A, m, k), Runs(u)
    PROVE  Runs(o.t)
  <1> DEFINE buffers == Then(ensure(u, "x", k), LAMBDA y : ensure(y, "out", m))
             loaded == Then(buffers, LAMBDA y : Upload(y, "x", k))
             run == Then(loaded, LAMBDA y : matvec(y, A, m, k))
  <1>1. ASSUME NEW p \in buffers PROVE Runs(p.t)
    <2>1. PICK q \in ensure(u, "x", k) : p \in IF q.ok THEN ensure(q.t, "out", m) ELSE {q}
      BY DEF Then
    <2> QED
      BY <2>1, EnsureOwns DEF TmpSlots
  <1> HIDE DEF buffers
  <1>2. ASSUME NEW p \in loaded PROVE Runs(p.t)
    <2>1. PICK q \in buffers : p \in IF q.ok THEN Upload(q.t, "x", k) ELSE {q}
      BY DEF Then
    <2> QED
      BY <1>1, <2>1, UploadOwns
  <1> HIDE DEF loaded
  <1>3. ASSUME NEW p \in run PROVE Runs(p.t)
    <2>1. PICK q \in loaded : p \in IF q.ok THEN matvec(q.t, A, m, k) ELSE {q}
      BY DEF Then
    <2> QED
      BY <1>2, <2>1, MatvecOwns
  <1> HIDE DEF run
  <1>4. PICK q \in run : o \in IF q.ok THEN Download(q.t, "out") ELSE {q}
    BY DEF matvecHost, Then, run, loaded, buffers
  <1> QED
    BY <1>3, <1>4, DownloadOwns

LEMMA RmsnormOwns ==
    ASSUME NEW u, NEW w, NEW n \in Nat, NEW o \in rmsnorm(u, w, n), Runs(u)
    PROVE  Runs(o.t)
  <1> DEFINE buffers == Then(ensure(u, "x", n), LAMBDA y : ensure(y, "out", n))
             loaded == Then(buffers, LAMBDA y : Upload(y, "x", n))
             Bindings(y) == {Binding(y, y.tmp["x"].id, n), Binding(y, y.tensors[w].id, n),
                             Binding(y, y.tmp["out"].id, n)}
             Dispatch(y) == runPipeline(y, Bindings(y))
             run == Then(loaded, Dispatch)
  <1>1. ASSUME NEW p \in buffers PROVE Runs(p.t)
    <2>1. PICK q \in ensure(u, "x", n) : p \in IF q.ok THEN ensure(q.t, "out", n) ELSE {q}
      BY DEF Then
    <2> QED
      BY <2>1, EnsureOwns DEF TmpSlots
  <1> HIDE DEF buffers
  <1>2. ASSUME NEW p \in loaded PROVE Runs(p.t)
    <2>1. PICK q \in buffers : p \in IF q.ok THEN Upload(q.t, "x", n) ELSE {q}
      BY DEF Then
    <2> QED
      BY <1>1, <2>1, UploadOwns
  <1> HIDE DEF loaded
  <1>3. ASSUME NEW y, Runs(y), NEW p \in Dispatch(y) PROVE Runs(p.t)
    <2> HIDE DEF Bindings
    <2> QED
      BY <1>3, DispatchOwns
  <1> HIDE DEF Dispatch
  <1>4. ASSUME NEW p \in run PROVE Runs(p.t)
    <2>1. PICK q \in loaded : p \in IF q.ok THEN Dispatch(q.t) ELSE {q}
      BY DEF Then
    <2> QED
      BY <1>2, <1>3, <2>1
  <1> HIDE DEF run
  <1>5. \/ o = [t |-> u, ok |-> FALSE]
        \/ \E q \in run : o \in IF q.ok THEN Download(q.t, "out") ELSE {q}
    BY DEF rmsnorm, Then, run, Dispatch, loaded, buffers
  <1> QED
    BY <1>4, <1>5, DownloadOwns

LEMMA ElemwiseOwns ==
    ASSUME NEW u, NEW n \in Nat, NEW o \in elemwise(u, n), Runs(u)
    PROVE  Runs(o.t)
  <1> DEFINE two == Then(ensure(u, "x", n), LAMBDA y : ensure(y, "b", n))
             buffers == Then(two, LAMBDA y : ensure(y, "out", n))
             half == Then(buffers, LAMBDA y : Upload(y, "x", n))
             loaded == Then(half, LAMBDA y : Upload(y, "b", n))
             Bindings(y) == {Binding(y, y.tmp[s].id, n) : s \in {"x", "b", "out"}}
             Dispatch(y) == runPipeline(y, Bindings(y))
             run == Then(loaded, Dispatch)
  <1>1. ASSUME NEW p \in two PROVE Runs(p.t)
    <2>1. PICK q \in ensure(u, "x", n) : p \in IF q.ok THEN ensure(q.t, "b", n) ELSE {q}
      BY DEF Then
    <2> QED
      BY <2>1, EnsureOwns DEF TmpSlots
  <1> HIDE DEF two
  <1>2. ASSUME NEW p \in buffers PROVE Runs(p.t)
    <2>1. PICK q \in two : p \in IF q.ok THEN ensure(q.t, "out", n) ELSE {q}
      BY DEF Then
    <2> QED
      BY <1>1, <2>1, EnsureOwns DEF TmpSlots
  <1> HIDE DEF buffers
  <1>3. ASSUME NEW p \in half PROVE Runs(p.t)
    <2>1. PICK q \in buffers : p \in IF q.ok THEN Upload(q.t, "x", n) ELSE {q}
      BY DEF Then
    <2> QED
      BY <1>2, <2>1, UploadOwns
  <1> HIDE DEF half
  <1>4. ASSUME NEW p \in loaded PROVE Runs(p.t)
    <2>1. PICK q \in half : p \in IF q.ok THEN Upload(q.t, "b", n) ELSE {q}
      BY DEF Then
    <2> QED
      BY <1>3, <2>1, UploadOwns
  <1> HIDE DEF loaded
  <1>5. ASSUME NEW y, Runs(y), NEW p \in Dispatch(y) PROVE Runs(p.t)
    <2> HIDE DEF Bindings
    <2> QED
      BY <1>5, DispatchOwns
  <1> HIDE DEF Dispatch
  <1>6. ASSUME NEW p \in run PROVE Runs(p.t)
    <2>1. PICK q \in loaded : p \in IF q.ok THEN Dispatch(q.t) ELSE {q}
      BY DEF Then
    <2> QED
      BY <1>4, <1>5, <2>1
  <1> HIDE DEF run
  <1>7. PICK q \in run : o \in IF q.ok THEN Download(q.t, "out") ELSE {q}
    BY DEF elemwise, Then, run, Dispatch, loaded, half, buffers, two
  <1> QED
    BY <1>6, <1>7, DownloadOwns

\* A tensor's old buffer goes before its name gets another; a buffer that cannot
\* be filled goes too.
LEMMA UploadTensorOwns ==
    ASSUME NEW u, NEW name, NEW n \in Nat, NEW o \in uploadTensor(u, name, n), Runs(u)
    PROVE  Runs(o.t) /\ o.t.ready = u.ready
  <1> DEFINE has == name \in DOMAIN u.tensors
             rest == [x \in DOMAIN u.tensors \ {name} |-> u.tensors[x]]
             Erased == [u EXCEPT !.vk = destroyBuffer(@, u.tensors[name].id), !.tensors = rest]
             before == IF has THEN Erased ELSE u
             Entered(y, id) == [y EXCEPT !.tensors = [x \in DOMAIN @ \cup {name} |->
                                                      IF x = name THEN [id |-> id, n |-> n] ELSE @[x]]]
             Fill(c) == {IF p.ok THEN [t |-> Entered([before EXCEPT !.vk = p.v], c.id), ok |-> TRUE]
                         ELSE [t |-> [before EXCEPT !.vk = destroyBuffer(p.v, c.id)], ok |-> FALSE] :
                             p \in uploadBytes(c.v, c.id, n)}
  <1>0. Shape(u) /\ BackendOK(u.vk) /\ Holds(u.vk, Members(u)) /\ Owns(u)
    BY DEF Runs, Begun, Owns, Holds
  <1>1. CASE ~u.ready \/ n = 0
    <2>1. o \in {[t |-> u, ok |-> FALSE]}
      BY <1>1 DEF uploadTensor
    <2> QED
      BY <2>1
  <1>2. CASE ~(~u.ready \/ n = 0) /\ has /\ u.tensors[name].n = n
    <2>1. PICK p \in uploadBytes(u.vk, u.tensors[name].id, n) : o = On(u, p)
      BY <1>2 DEF uploadTensor
    <2>2. SameObjects(u.vk, p.v)
      BY <1>0, UploadBytesObjects
    <2>3. o.t.ready = u.ready
      BY <1>0, <2>1 DEF On, Shape
    <2> QED
      BY <1>0, <2>1, <2>2, <2>3, OnOwns DEF Runs, Begun
  <1>3. CASE ~(~u.ready \/ n = 0) /\ ~(has /\ u.tensors[name].n = n)
    <2>1. PICK c \in createBuffer(before.vk, n) :
            o \in IF c.id = 0 THEN {[t |-> [before EXCEPT !.vk = c.v], ok |-> FALSE]} ELSE Fill(c)
      BY <1>3 DEF uploadTensor
    <2>2. Runs(before) /\ before.ready = u.ready /\ name \notin DOMAIN before.tensors
      <3>1. CASE ~has
        BY <3>1
      <3>2. CASE has
        <4> DEFINE old == u.tensors[name].id
                   d == destroyBuffer(u.vk, old)
                   R == Members(u)
        <4>1. NowBuffers(u.vk, d, R, DOMAIN u.vk.buffers \ {old})
          BY <1>0, DestroyedObject
        <4>2. Erased \in [vk : {d}, ready : {u.ready}, device : {u.device}, held : {u.held},
                          tensors : {rest}, tmp : {u.tmp}, bound : {u.bound}]
          BY <1>0 DEF Shape
        <4>3. DOMAIN rest = DOMAIN u.tensors \ {name} /\ \A k \in DOMAIN rest : rest[k] = u.tensors[k]
          OBVIOUS
        <4>4. before = Erased
          BY <3>2
        <4> HIDE DEF d, rest, Erased, before, R
        <4>5. /\ Shape(before) /\ before.vk = d /\ before.ready = u.ready /\ before.device = u.device
              /\ before.held = u.held /\ before.tensors = rest /\ before.tmp = u.tmp
          BY <4>2, <4>4 DEF Shape
        <4>6. DOMAIN u.vk.buffers = Ids(u) \ {0} /\ OneName(u)
          BY <1>0 DEF Owns
        <4>7. OneName(before)
          BY <4>3, <4>5, <4>6 DEF OneName
        <4>8. Ids(before) = {u.tmp[s].id : s \in TmpSlots} \cup {u.tensors[x].id : x \in DOMAIN u.tensors \ {name}}
          BY <4>3, <4>5 DEF Ids
        <4>9. Ids(before) = Ids(u) \ {old}
          <5>1. \A s \in TmpSlots : u.tmp[s].id # old
            BY <3>2, <4>6 DEF OneName
          <5>2. \A x \in DOMAIN u.tensors \ {name} : u.tensors[x].id # old
            BY <3>2, <4>6 DEF OneName
          <5>3. Ids(u) = {u.tmp[s].id : s \in TmpSlots} \cup {u.tensors[x].id : x \in DOMAIN u.tensors \ {name}} \cup {old}
            BY <3>2 DEF Ids
          <5> QED
            BY <4>8, <5>1, <5>2, <5>3
        <4>10. Members(before) = R /\ before.vk.held = u.vk.held /\ before.vk.twice = u.vk.twice
          BY <4>1, <4>5 DEF NowBuffers, Members, R
        <4>11. Owns(before)
          BY <1>0, <4>1, <4>5, <4>6, <4>7, <4>9, <4>10 DEF Owns, NowBuffers
        <4> QED
          BY <4>3, <4>5, <4>11 DEF Runs, Begun
      <3> QED
        BY <3>1, <3>2
    <2> HIDE DEF before, rest
    <2> DEFINE e == before
               R == Members(e)
    <2>3. Owns(e) /\ Shape(e) /\ Holds(e.vk, R) /\ e.device /\ e.ready
      BY <2>2 DEF Runs, Begun, Owns
    <2> HIDE DEF e
    <2>4. \/ c.id = 0 /\ NowBuffers(e.vk, c.v, R, DOMAIN e.vk.buffers)
          \/ /\ c.id \in Nat \ {0} /\ c.id \notin DOMAIN e.vk.buffers
             /\ NowBuffers(e.vk, c.v, R, DOMAIN e.vk.buffers \cup {c.id})
      BY <2>1, <2>3, CreateObjects DEF e
    \* A backend with the same buffers again.
    <2>5. ASSUME NEW w, NowBuffers(e.vk, w, R, DOMAIN e.vk.buffers)
          PROVE  Runs([e EXCEPT !.vk = w]) /\ [e EXCEPT !.vk = w].ready = e.ready
      <3> DEFINE y == [e EXCEPT !.vk = w]
      <3>1. y \in [vk : {w}, ready : {e.ready}, device : {e.device}, held : {e.held},
                   tensors : {e.tensors}, tmp : {e.tmp}, bound : {e.bound}]
        BY <2>3 DEF Shape
      <3> HIDE DEF y
      <3>2. /\ Shape(y) /\ y.vk = w /\ y.ready = e.ready /\ y.device = e.device /\ y.held = e.held
            /\ y.tensors = e.tensors /\ y.tmp = e.tmp
        BY <3>1 DEF Shape
      <3>3. Members(y) = R /\ Ids(y) = Ids(e) /\ (OneName(y) <=> OneName(e))
        BY <2>5, <3>2 DEF Members, Ids, OneName, NowBuffers, R
      <3>4. Runs(y)
        BY <2>3, <2>5, <3>2, <3>3 DEF Runs, Begun, Owns, NowBuffers
      <3> QED
        BY <3>2, <3>4 DEF y
    <2>6. CASE c.id = 0
      <3>1. o = [t |-> [e EXCEPT !.vk = c.v], ok |-> FALSE]
        BY <2>1, <2>6 DEF e
      <3>2. NowBuffers(e.vk, c.v, R, DOMAIN e.vk.buffers)
        BY <2>4, <2>6
      <3> QED
        BY <2>2, <2>5, <3>1, <3>2 DEF e
    <2>7. CASE c.id # 0
      <3>1. PICK p \in uploadBytes(c.v, c.id, n) :
              o = IF p.ok THEN [t |-> Entered([e EXCEPT !.vk = p.v], c.id), ok |-> TRUE]
                  ELSE [t |-> [e EXCEPT !.vk = destroyBuffer(p.v, c.id)], ok |-> FALSE]
        BY <2>1, <2>7 DEF e
      <3>2. /\ c.id \in Nat \ {0} /\ c.id \notin DOMAIN e.vk.buffers
            /\ NowBuffers(e.vk, c.v, R, DOMAIN e.vk.buffers \cup {c.id})
        BY <2>4, <2>7
      <3>3. NowBuffers(e.vk, p.v, R, DOMAIN e.vk.buffers \cup {c.id})
        <4>1. Holds(c.v, R)
          BY <3>2 DEF NowBuffers
        <4>2. SameObjects(c.v, p.v)
          BY <4>1, UploadBytesObjects
        <4>3. NowBuffers(c.v, p.v, R, DOMAIN c.v.buffers)
          BY <4>1, <4>2, SameNow
        <4> QED
          BY <3>2, <4>3 DEF NowBuffers
      <3>4. CASE ~p.ok
        <4> DEFINE w == destroyBuffer(p.v, c.id)
        <4>1. NowBuffers(p.v, w, R, DOMAIN p.v.buffers \ {c.id})
          <5>1. Holds(p.v, R)
            BY <3>3 DEF NowBuffers
          <5> QED
            BY <5>1, DestroyedObject
        <4> HIDE DEF w
        <4>2. NowBuffers(e.vk, w, R, DOMAIN e.vk.buffers)
          BY <3>2, <3>3, <4>1 DEF NowBuffers
        <4>3. o.t = [e EXCEPT !.vk = w]
          BY <3>1, <3>4 DEF w
        <4> QED
          BY <2>2, <2>5, <4>2, <4>3 DEF e
      <3>5. CASE p.ok
        <4> DEFINE b == [id |-> c.id, n |-> n]
                   T == [k \in DOMAIN e.tensors \cup {name} |-> IF k = name THEN b ELSE e.tensors[k]]
                   y == o.t
        <4>1. y \in [vk : {p.v}, ready : {e.ready}, device : {e.device}, held : {e.held},
                     tensors : {T}, tmp : {e.tmp}, bound : {e.bound}]
          BY <2>3, <3>1, <3>5 DEF Shape
        <4>2. /\ DOMAIN T = DOMAIN e.tensors \cup {name} /\ T[name] = b
              /\ \A k \in DOMAIN e.tensors : T[k] = e.tensors[k]
          BY <2>2 DEF e
        <4>3. b.id = c.id
          OBVIOUS
        <4> HIDE DEF b, T, y
        <4>4. /\ Shape(y) /\ y.vk = p.v /\ y.ready = e.ready /\ y.device = e.device /\ y.held = e.held
              /\ y.tensors = T /\ y.tmp = e.tmp
          BY <4>1 DEF Shape
        <4>5. DOMAIN e.vk.buffers = Ids(e) \ {0} /\ OneName(e)
          BY <2>3 DEF Owns
        <4>6. c.id \notin Ids(e) /\ c.id # 0
          BY <3>2, <4>5
        <4>7. Ids(y) = Ids(e) \cup {c.id}
          <5>1. {T[x].id : x \in DOMAIN T} = {e.tensors[x].id : x \in DOMAIN e.tensors} \cup {c.id}
            BY <4>2, <4>3
          <5> QED
            BY <4>4, <5>1 DEF Ids
        <4>8. name \notin DOMAIN e.tensors
          BY <2>2 DEF e
        <4>9. OneName(y)
          <5>1. \A x \in DOMAIN e.tensors : e.tensors[x].id # c.id
            BY <4>6 DEF Ids
          <5>2. \A s \in TmpSlots : e.tmp[s].id # c.id
            BY <4>6 DEF Ids
          <5> QED
            BY <4>2, <4>3, <4>4, <4>5, <4>6, <4>8, <5>1, <5>2 DEF OneName
        <4>10. Members(y) = R /\ p.v.held = e.vk.held /\ p.v.twice = e.vk.twice
          BY <3>3, <4>4 DEF NowBuffers, Members, R
        <4>11. Runs(y)
          BY <2>3, <3>3, <4>4, <4>5, <4>6, <4>7, <4>9, <4>10 DEF Runs, Begun, Owns, NowBuffers
        <4> QED
          BY <2>2, <4>4, <4>11 DEF y, e
      <3> QED
        BY <3>4, <3>5
    <2> QED
      BY <2>6, <2>7
  <1> QED
    BY <1>1, <1>2, <1>3

-----------------------------------------------------------------------------
(* Shutting down, also what has only been begun.                            *)

\* Nothing is there that a shutdown does not destroy, and nothing is named that
\* is not there but the layouts of a pipeline that failed to load.
Leaves(u) ==
    /\ Shape(u) /\ u.tmp = [s \in TmpSlots |-> u.tmp[s]] /\ u.device
    /\ BackendOK(u.vk) /\ u.vk.twice \subseteq Layouts
    /\ u.vk.live \subseteq Members(u) \cup ObjectsOf(u.vk)
    /\ (Members(u) \cup ObjectsOf(u.vk)) \ u.vk.live \subseteq Layouts
    /\ \A h \in Members(u) : h[1] \in KeptKinds
    /\ \A h \in u.vk.held : h[2] = "backend"
    /\ \A h \in u.held : h[2] # "backend"
    /\ DOMAIN u.vk.buffers \subseteq Ids(u)

\* No device, and nothing that is named.
Idle(u) ==
    /\ Shape(u) /\ u.tmp = [s \in TmpSlots |-> u.tmp[s]] /\ ~u.ready /\ ~u.device
    /\ u.held = {} /\ Ids(u) \subseteq {0} /\ DOMAIN u.tensors = {}

\* A backend without objects.
Bare(v) ==
    BackendOK(v) /\ v.live = {} /\ v.held = {} /\ DOMAIN v.buffers = {} /\ v.twice \subseteq Layouts

LEMMA BegunLeaves ==
    ASSUME NEW u, Begun(u)
    PROVE  Leaves(u)
  BY DEF Begun, Owns, Holds, Leaves

LEMMA BareOwns ==
    ASSUME NEW u, Idle(u), Bare(u.vk)
    PROVE  Owns(u)
  <1>1. ObjectsOf(u.vk) = {} /\ Members(u) = {}
    BY DEF Idle, Bare, ObjectsOf, Members
  <1>2. Holds(u.vk, Members(u))
    BY <1>1 DEF Bare, Holds
  <1>3. OneName(u)
    BY DEF Idle, OneName, Ids
  <1> QED
    BY <1>2, <1>3 DEF Idle, Bare, Owns

\* shutdown of a backend destroys what it holds.
LEMMA ShutdownObjects ==
    ASSUME NEW v, BackendOK(v)
    PROVE  LET d == shutdown(v)
               H == v.held \cup ObjectsOf(v)
           IN  /\ BackendOK(d) /\ d.held = {} /\ DOMAIN d.buffers = {}
               /\ d.live = v.live \ H /\ d.twice = v.twice \cup (H \ v.live)
  <1> DEFINE H == v.held \cup ObjectsOf(v)
             w == Destroy(v, H)
             d == shutdown(v)
             none == <<>>
  <1>1. SameBuffers(v, w) /\ w.live = v.live \ H /\ w.twice = v.twice \cup (H \ v.live)
    <2> HIDE DEF H
    <2> QED
      BY DestroyObjects
  <1>2. d = [w EXCEPT !.held = {}, !.buffers = none, !.available = FALSE]
    BY DEF shutdown, ObjectsOf
  <1>3. BackendOK(d) /\ DOMAIN d.buffers = {}
    BY ShutdownKeeps DEF Later
  <1> HIDE DEF w, d, none
  <1>4. d.live = w.live /\ d.held = {} /\ d.twice = w.twice
    BY <1>1, <1>2 DEF BackendOK, SameBuffers
  <1> QED
    BY <1>1, <1>3, <1>4 DEF d

LEMMA LayoutKinds ==
    ASSUME NEW h \in Layouts
    PROVE  h[1] \in {"dsl", "pll"}
  BY DEF Layouts

LEMMA OpsShutdownBare ==
    ASSUME NEW u, Leaves(u) \/ (Owns(u) /\ ~u.device)
    PROVE  Idle(opsShutdown(u)) /\ Bare(opsShutdown(u).vk) /\ Owns(opsShutdown(u))
  <1> DEFINE ids == {u.tmp[s].id : s \in DOMAIN u.tmp} \cup {u.tensors[x].id : x \in DOMAIN u.tensors}
             first == Destroy(u.vk, u.held)
             cleared == destroyBuffers(first, ids)
             y == opsShutdown(u)
  <1>1. CASE Leaves(u)
    <2>1. /\ BackendOK(first) /\ first.buffers = u.vk.buffers /\ first.held = u.vk.held
          /\ first.live = u.vk.live \ u.held /\ first.twice = u.vk.twice \cup (u.held \ u.vk.live)
      BY <1>1, DestroyObjects DEF Leaves, SameBuffers
    <2>2. ids = Ids(u)
      BY <1>1 DEF Leaves, Ids
    <2> HIDE DEF first
    <2> DEFINE H == ObjectsOf(u.vk)
               known == ids \cap DOMAIN first.buffers
               w == Destroy(first, UNION {BufferObjects(i) : i \in known})
               f == [i \in DOMAIN w.buffers \ known |-> w.buffers[i]]
    <2>3. known = DOMAIN u.vk.buffers
      BY <1>1, <2>1, <2>2 DEF Leaves
    <2>4. UNION {BufferObjects(i) : i \in known} = H
      BY <2>3 DEF ObjectsOf
    <2> HIDE DEF H, known
    <2>5. /\ BackendOK(w) /\ w.buffers = u.vk.buffers /\ w.held = u.vk.held
          /\ w.live = first.live \ H /\ w.twice = first.twice \cup (H \ first.live)
      BY <2>1, <2>4, DestroyObjects DEF SameBuffers
    <2>6. cleared = [w EXCEPT !.buffers = f]
      BY DEF destroyBuffers, known
    <2>7. BackendOK(cleared) /\ DOMAIN cleared.buffers = {}
      <3>1. DOMAIN first.buffers \ ids = {}
        BY <1>1, <2>1, <2>2 DEF Leaves
      <3> QED
        BY <2>1, <3>1, BuffersDestroyed DEF Later
    <2>8. y = [NoOps EXCEPT !.vk = shutdown(cleared), !.bound = u.bound]
      BY <1>1 DEF opsShutdown, Leaves, first
    <2> HIDE DEF w, f, cleared, ids
    <2>9. cleared.live = w.live /\ cleared.held = w.held /\ cleared.twice = w.twice
      BY <2>5, <2>6 DEF BackendOK
    <2> DEFINE z == shutdown(cleared)
    <2>10. ObjectsOf(cleared) = {}
      BY <2>7 DEF ObjectsOf
    <2>11. /\ BackendOK(z) /\ z.held = {} /\ DOMAIN z.buffers = {}
           /\ z.live = cleared.live \ cleared.held
           /\ z.twice = cleared.twice \cup (cleared.held \ cleared.live)
      BY <2>7, <2>10, ShutdownObjects
    <2> HIDE DEF z
    <2>12. \A h \in H : h[1] \in BufferKinds
      BY DEF H, ObjectsOf, BufferObjects, BufferKinds
    <2>13. H \subseteq u.vk.live
      <3>1. \A h \in H : h \notin Layouts
        BY <2>12, LayoutKinds DEF BufferKinds
      <3>2. H \ u.vk.live \subseteq Layouts
        BY <1>1 DEF Leaves, H
      <3> QED
        BY <3>1, <3>2
    <2>14. u.held \cap u.vk.held = {}
      BY <1>1 DEF Leaves
    <2>15. \A h \in Members(u) : h \notin H
      BY <1>1, <2>12 DEF Leaves, KeptKinds, BufferKinds
    <2>16. u.held \cap H = {} /\ u.vk.held \cap H = {}
      BY <2>15 DEF Members
    <2>17. (u.held \cup u.vk.held) \ u.vk.live \subseteq Layouts /\ u.vk.live \subseteq u.held \cup u.vk.held \cup H
           /\ u.vk.twice \subseteq Layouts
      BY <1>1 DEF Leaves, Members, H
    <2>18. z.live = {}
      BY <2>1, <2>5, <2>9, <2>11, <2>17
    <2>19. z.twice \subseteq Layouts
      BY <2>1, <2>5, <2>9, <2>11, <2>13, <2>14, <2>16, <2>17
    <2> DEFINE T == [s \in TmpSlots |-> [id |-> 0, n |-> 0]]
               none == <<>>
    <2>20. y \in [vk : {z}, ready : {FALSE}, device : {FALSE}, held : {{}}, tensors : {none}, tmp : {T},
                  bound : {u.bound}]
      BY <2>8 DEF NoOps, NoBuffer, TmpSlots, z
    <2>21. T = [s \in TmpSlots |-> T[s]] /\ (\A s \in TmpSlots : T[s].id = 0) /\ DOMAIN none = {}
      OBVIOUS
    <2> HIDE DEF y, T, none
    <2>22. Shape(y) /\ y.vk = z /\ ~y.ready /\ ~y.device /\ y.held = {} /\ y.tensors = none /\ y.tmp = T
      BY <2>20 DEF Shape
    <2>23. Ids(y) \subseteq {0}
      BY <2>21, <2>22 DEF Ids
    <2>24. Idle(y)
      BY <2>21, <2>22, <2>23 DEF Idle
    <2>25. Bare(y.vk)
      BY <2>11, <2>18, <2>19, <2>22 DEF Bare
    <2> QED
      BY <2>24, <2>25, BareOwns DEF y
  <1>2. CASE Owns(u) /\ ~u.device
    <2> DEFINE z == shutdown(u.vk)
               H == u.vk.held \cup ObjectsOf(u.vk)
    <2>1. BackendOK(u.vk) /\ u.held = {} /\ Ids(u) \subseteq {0}
      BY <1>2 DEF Owns, Holds
    <2>2. /\ BackendOK(z) /\ z.held = {} /\ DOMAIN z.buffers = {}
          /\ z.live = u.vk.live \ H /\ z.twice = u.vk.twice \cup (H \ u.vk.live)
      BY <2>1, ShutdownObjects
    <2>3. u.vk.live = H /\ u.vk.twice \subseteq Layouts
      BY <1>2, <2>1 DEF Owns, Holds, Members
    <2>4. y = [u EXCEPT !.vk = z, !.ready = FALSE]
      BY <1>2 DEF opsShutdown
    <2> HIDE DEF y, z, H
    <2>5. Shape(u)
      BY <1>2 DEF Owns
    <2>6. y \in [vk : {z}, ready : {FALSE}, device : {u.device}, held : {u.held}, tensors : {u.tensors},
                 tmp : {u.tmp}, bound : {u.bound}]
      BY <2>4, <2>5 DEF Shape
    <2>7. /\ Shape(y) /\ y.vk = z /\ ~y.ready /\ ~y.device /\ y.held = {} /\ y.tensors = u.tensors
          /\ y.tmp = u.tmp
      BY <1>2, <2>1, <2>6 DEF Shape
    <2>8. DOMAIN u.tensors = {}
      <3>1. ASSUME NEW x \in DOMAIN u.tensors PROVE FALSE
        <4>1. u.tensors[x].id \in Ids(u)
          BY DEF Ids
        <4> QED
          BY <1>2, <2>1, <4>1 DEF Owns, OneName
      <3> QED
        BY <3>1
    <2>9. Ids(y) = Ids(u) /\ y.tmp = [s \in TmpSlots |-> y.tmp[s]]
      BY <1>2, <2>7 DEF Ids, Owns
    <2>10. Idle(y)
      BY <2>1, <2>7, <2>8, <2>9 DEF Idle
    <2>11. Bare(y.vk)
      BY <2>2, <2>3, <2>7 DEF Bare
    <2> QED
      BY <2>10, <2>11, BareOwns DEF y
  <1> QED
    BY <1>1, <1>2

-----------------------------------------------------------------------------
(* Starting.                                                                *)

Shader == Own("shader")

\* The calls that make the objects of a backend, in order.
BackendCalls == CoreScript \o PipelineScript \o <<Step(Own("pool"), {Own("shader")})>>

\* The elements of two sequences in a row.
LEMMA Joined ==
    ASSUME NEW S, NEW a \in Seq(S), NEW b \in Seq(S)
    PROVE  /\ a \o b \in Seq(S) /\ Len(a \o b) = Len(a) + Len(b)
           /\ \A i \in 1..Len(a) : (a \o b)[i] = a[i]
           /\ \A i \in 1..Len(b) : (a \o b)[Len(a) + i] = b[i]
  <1>1. Len(a) \in Nat /\ Len(b) \in Nat
    OBVIOUS
  <1>2. a \o b \in Seq(S) /\ Len(a \o b) = Len(a) + Len(b)
    OBVIOUS
  <1>3. ASSUME NEW i \in 1..Len(a) PROVE (a \o b)[i] = a[i]
    <2>1. i \in 1..Len(a) + Len(b)
      BY <1>1
    <2> QED
      BY <1>1, <2>1
  <1>4. ASSUME NEW i \in 1..Len(b) PROVE (a \o b)[Len(a) + i] = b[i]
    <2>1. Len(a) + i \in 1..Len(a) + Len(b) /\ ~(Len(a) + i <= Len(a)) /\ (Len(a) + i) - Len(a) = i
      BY <1>1
    <2> QED
      BY <1>1, <2>1
  <1> QED
    BY <1>2, <1>3, <1>4

LEMMA CallsOfBackend ==
    /\ Len(BackendCalls) = 8
    /\ Len(SubSeq(BackendCalls, 1, 1)) = 1 /\ SubSeq(BackendCalls, 1, 1)[1] = BackendCalls[1]
    /\ \A i \in 1..8 : /\ BackendCalls[i].undo = IF i < 5 THEN {} ELSE {Shader}
                       /\ i = 4 => BackendCalls[i].make = Shader
                       /\ i # 4 => \E kind \in KeptKinds : BackendCalls[i].make = Own(kind)
  <1> DEFINE a == CoreScript
             b == PipelineScript
             c == <<Step(Own("pool"), {Own("shader")})>>
  <1>1. /\ Len(a) = 3 /\ a[1] = Step(Own("instance"), {}) /\ a[2] = Step(Own("device"), {})
        /\ a[3] = Step(Own("commandPool"), {})
    BY DEF CoreScript
  <1>2. /\ Len(b) = 4 /\ b[1] = Step(Shader, {}) /\ b[2] = Step(Own("dsl"), {Shader})
        /\ b[3] = Step(Own("pll"), {Shader}) /\ b[4] = Step(Own("pipeline"), {Shader})
    BY DEF PipelineScript, Shader
  <1>3. Len(c) = 1 /\ c[1] = Step(Own("pool"), {Shader})
    BY DEF Shader
  <1>4. a \in Seq({a[1], a[2], a[3]}) /\ b \in Seq({b[1], b[2], b[3], b[4]}) /\ c \in Seq({c[1]})
    BY DEF CoreScript, PipelineScript
  <1>5. BackendCalls = a \o b \o c
    BY DEF BackendCalls
  <1> HIDE DEF a, b, c
  <1> DEFINE ab == a \o b
             S == {a[1], a[2], a[3], b[1], b[2], b[3], b[4], c[1]}
  <1>6. /\ ab \in Seq(S) /\ Len(ab) = 7
        /\ ab[1] = a[1] /\ ab[2] = a[2] /\ ab[3] = a[3]
        /\ ab[4] = b[1] /\ ab[5] = b[2] /\ ab[6] = b[3] /\ ab[7] = b[4]
    <2>1. a \in Seq(S) /\ b \in Seq(S)
      BY <1>4
    <2> HIDE DEF S
    <2>2. /\ ab \in Seq(S) /\ Len(ab) = Len(a) + Len(b)
          /\ \A i \in 1..Len(a) : ab[i] = a[i]
          /\ \A i \in 1..Len(b) : ab[Len(a) + i] = b[i]
      BY <2>1, Joined
    <2> HIDE DEF ab
    <2>3. /\ ab \in Seq(S) /\ Len(ab) = 3 + 4
          /\ \A i \in 1..3 : ab[i] = a[i]
          /\ \A i \in 1..4 : ab[3 + i] = b[i]
      BY <1>1, <1>2, <2>2
    <2>4. ab[3 + 1] = b[1] /\ ab[3 + 2] = b[2] /\ ab[3 + 3] = b[3] /\ ab[3 + 4] = b[4]
      BY <2>3
    <2> QED
      BY <2>3, <2>4
  <1>7. BackendCalls = ab \o c
    BY <1>5
  <1> HIDE DEF ab
  <1>8. /\ Len(BackendCalls) = 8 /\ BackendCalls \in Seq(S)
        /\ BackendCalls[1] = a[1] /\ BackendCalls[2] = a[2] /\ BackendCalls[3] = a[3]
        /\ BackendCalls[4] = b[1] /\ BackendCalls[5] = b[2] /\ BackendCalls[6] = b[3] /\ BackendCalls[7] = b[4]
        /\ BackendCalls[8] = c[1]
    <2>1. ab \in Seq(S) /\ c \in Seq(S)
      BY <1>4, <1>6
    <2> HIDE DEF S
    <2>2. /\ BackendCalls \in Seq(S) /\ Len(BackendCalls) = Len(ab) + Len(c)
          /\ \A i \in 1..Len(ab) : BackendCalls[i] = ab[i]
          /\ \A i \in 1..Len(c) : BackendCalls[Len(ab) + i] = c[i]
      BY <1>7, <2>1, Joined
    <2>3. /\ BackendCalls \in Seq(S) /\ Len(BackendCalls) = 7 + 1
          /\ \A i \in 1..7 : BackendCalls[i] = ab[i]
          /\ \A i \in 1..1 : BackendCalls[7 + i] = c[i]
      BY <1>3, <1>6, <2>2
    <2>4. BackendCalls[7 + 1] = c[1]
      BY <2>3
    <2> HIDE DEF BackendCalls
    <2> QED
      BY <1>6, <2>3, <2>4
  <1> HIDE DEF BackendCalls, S
  <1>9. \A i \in 1..8 : i \in {1, 2, 3, 4, 5, 6, 7, 8}
    OBVIOUS
  <1>10. ASSUME NEW i \in 1..8
         PROVE  /\ BackendCalls[i].undo = IF i < 5 THEN {} ELSE {Shader}
                /\ i = 4 => BackendCalls[i].make = Shader
                /\ i # 4 => \E kind \in KeptKinds : BackendCalls[i].make = Own(kind)
    <2> DEFINE B == BackendCalls
    <2>1. /\ B[1] = Step(Own("instance"), {}) /\ B[2] = Step(Own("device"), {}) /\ B[3] = Step(Own("commandPool"), {})
          /\ B[4] = Step(Shader, {}) /\ B[5] = Step(Own("dsl"), {Shader}) /\ B[6] = Step(Own("pll"), {Shader})
          /\ B[7] = Step(Own("pipeline"), {Shader}) /\ B[8] = Step(Own("pool"), {Shader})
      BY <1>1, <1>2, <1>3, <1>8
    <2> HIDE DEF B
    <2>2. i = 1 \/ i = 2 \/ i = 3 \/ i = 4 \/ i = 5 \/ i = 6 \/ i = 7 \/ i = 8
      BY <1>9
    <2>3. \A h, u : Step(h, u).make = h /\ Step(h, u).undo = u
      BY DEF Step
    <2>4. B[i].undo = IF i < 5 THEN {} ELSE {Shader}
      BY <2>1, <2>2, <2>3
    <2>5. i = 4 => B[i].make = Shader
      BY <2>1, <2>3
    <2>6. i # 4 => \E kind \in KeptKinds : B[i].make = Own(kind)
      BY <2>1, <2>2, <2>3 DEF KeptKinds
    <2> QED
      BY <2>4, <2>5, <2>6 DEF B
  <1>11. Len(SubSeq(BackendCalls, 1, 1)) = 1 /\ SubSeq(BackendCalls, 1, 1)[1] = BackendCalls[1]
    <2>1. 1 \in 1..8
      OBVIOUS
    <2> QED
      BY <1>8, <2>1
  <1> QED
    BY <1>8, <1>10, <1>11

\* initialize of a backend, as far as it goes: what is there is held.
LEMMA BackendStarts ==
    ASSUME NEW devices, NEW o \in initialize(NoBackend, devices)
    PROVE  /\ Holds(o.v, o.v.held) /\ o.v.twice = {} /\ DOMAIN o.v.buffers = {}
           /\ \A h \in o.v.held : h[2] = "backend"
  <1> DEFINE v == NoBackend
             chosen == selectPhysicalDevice(devices)
             script == IF chosen = 0 THEN SubSeq(BackendCalls, 1, 1) ELSE BackendCalls
             Held(a) == [a.v EXCEPT !.held = @ \cup (a.made \ {Shader})]
             Done(a) == [a.v EXCEPT !.held = @ \cup (a.made \ {Shader}), !.available = TRUE,
                               !.memory = devices[chosen].memory, !.live = @ \ {Shader}]
  <1>1. PICK a \in Attempt(v, script) :
          o = IF a.ok /\ chosen # 0 THEN [v |-> Done(a), ok |-> TRUE] ELSE [v |-> fail(Held(a)), ok |-> FALSE]
    BY DEF initialize, Partly, BackendCalls, Shader
  <1>2. BackendOK(v) /\ v.live = {} /\ v.held = {} /\ v.twice = {} /\ DOMAIN v.buffers = {}
    BY DEF NoBackend, BackendOK
  <1> HIDE DEF v, chosen
  <1>3. PICK k, undo :
          /\ k \in 0..Len(script) /\ undo = IF k < Len(script) THEN script[k + 1].undo ELSE {}
          /\ a.made = Made(script, k) /\ (a.ok <=> k = Len(script))
          /\ SameBuffers(v, a.v) /\ a.v.held = v.held
          /\ a.v.live = (v.live \cup a.made) \ undo
          /\ a.v.twice = v.twice \cup (undo \ (v.live \cup a.made))
    <2> HIDE DEF script
    <2> QED
      BY <1>2, AttemptObjects
  <1>4. /\ Len(script) = IF chosen = 0 THEN 1 ELSE 8
        /\ \A i \in 1..Len(script) : i \in 1..8 /\ script[i] = BackendCalls[i]
    <2>1. CASE chosen = 0
      <3>1. \A i \in 1..1 : i = 1 /\ i \in 1..8
        OBVIOUS
      <3> QED
        BY <2>1, <3>1, CallsOfBackend
    <2>2. CASE chosen # 0
      BY <2>2, CallsOfBackend
    <2> QED
      BY <2>1, <2>2
  <1> HIDE DEF script
  <1>5. \A h \in a.made \ {Shader} : \E kind \in KeptKinds : h = Own(kind)
    <2>1. ASSUME NEW h \in a.made \ {Shader} PROVE \E kind \in KeptKinds : h = Own(kind)
      <3>1. PICK i \in 1..k : h = script[i].make
        BY <1>3 DEF Made
      <3>2. i \in 1..Len(script)
        BY <1>3, <1>4
      <3>3. i # 4
        BY <1>4, <3>1, <3>2, CallsOfBackend
      <3> QED
        BY <1>4, <3>1, <3>2, <3>3, CallsOfBackend
    <2> QED
      BY <2>1
  <1>6. k >= 4 => Shader \in a.made
    <2>1. k >= 4 => 4 \in 1..Len(script) /\ 4 \in 1..k
      BY <1>3, <1>4
    <2>2. k >= 4 => script[4].make = Shader
      BY <1>4, <2>1, CallsOfBackend
    <2> QED
      BY <1>3, <2>1, <2>2 DEF Made
  <1>7. k < 4 => Shader \notin a.made
    <2>1. ASSUME k < 4, NEW i \in 1..k PROVE script[i].make # Shader
      <3>1. i \in 1..Len(script) /\ i # 4
        BY <1>3, <1>4, <2>1
      <3>2. PICK kind \in KeptKinds : script[i].make = Own(kind)
        BY <1>4, <3>1, CallsOfBackend
      <3> QED
        BY <3>2 DEF KeptKinds, Own, Shader
    <2> QED
      BY <1>3, <2>1 DEF Made
  <1>8. undo = IF k >= 4 /\ k < Len(script) THEN {Shader} ELSE {}
    <2>1. CASE k < Len(script)
      <3>1. k + 1 \in 1..Len(script) /\ (k + 1 < 5 <=> ~(k >= 4))
        BY <1>3, <1>4, <2>1
      <3> QED
        BY <1>3, <1>4, <2>1, <3>1, CallsOfBackend
    <2>2. CASE ~(k < Len(script))
      BY <1>3, <2>2
    <2> QED
      BY <2>1, <2>2
  <1>9. a.v.twice = {} /\ a.v.held = {} /\ a.v.live = a.made \ undo
    BY <1>2, <1>3, <1>6, <1>8
  <1>10. BackendOK(a.v) /\ DOMAIN a.v.buffers = {}
    BY <1>2, <1>3 DEF SameBuffers
  <1>11. ASSUME NEW w, BackendOK(w), w.live = a.made \ {Shader}, w.held = a.made \ {Shader}, DOMAIN w.buffers = {}
         PROVE  Holds(w, w.held) /\ \A h \in w.held : h[2] = "backend"
    <2>1. ObjectsOf(w) = {}
      BY <1>11 DEF ObjectsOf
    <2>2. \A kind : Own(kind)[1] = kind /\ Own(kind)[2] = "backend"
      BY DEF Own
    <2> QED
      BY <1>5, <1>11, <2>1, <2>2 DEF Holds
  <1>12. CASE a.ok /\ chosen # 0
    <2>1. undo = {} /\ o.v = Done(a)
      BY <1>1, <1>3, <1>8, <1>12
    <2> DEFINE w == Done(a)
    <2>2. BackendOK(w) /\ w.live = a.made \ {Shader} /\ w.held = a.made \ {Shader} /\ DOMAIN w.buffers = {} /\ w.twice = {}
      BY <1>9, <1>10, <2>1 DEF BackendOK
    <2> HIDE DEF w
    <2> QED
      BY <1>11, <2>1, <2>2 DEF w
  <1>13. CASE ~(a.ok /\ chosen # 0)
    <2> DEFINE w == Held(a)
    <2>1. k < Len(script) \/ k < 4
      BY <1>3, <1>4, <1>13
    <2>2. a.v.live = a.made \ {Shader}
      BY <1>6, <1>7, <1>8, <1>9, <2>1, <1>3
    <2>3. BackendOK(w) /\ w.live = a.made \ {Shader} /\ w.held = a.made \ {Shader} /\ DOMAIN w.buffers = {} /\ w.twice = {}
      BY <1>9, <1>10, <2>2 DEF BackendOK
    <2>4. o.v = fail(w)
      BY <1>1, <1>13
    <2> HIDE DEF w
    <2>5. SameObjects(w, fail(w))
      BY <2>3, FailObjects
    <2> DEFINE x == o.v
    <2>6. BackendOK(x) /\ x.live = a.made \ {Shader} /\ x.held = a.made \ {Shader} /\ DOMAIN x.buffers = {} /\ x.twice = {}
      BY <2>3, <2>4, <2>5 DEF SameObjects, SameBuffers
    <2> HIDE DEF x
    <2> QED
      BY <1>11, <2>6 DEF x
  <1> QED
    BY <1>12, <1>13

\* loadPipeline: what it has put into members when it fails are layouts that
\* are gone already.
LEMMA PipelineObjects ==
    ASSUME NEW u, NEW p \in {Pipelines[i] : i \in DOMAIN Pipelines}, NEW o \in loadPipeline(u, p), Begun(u)
    PROVE  IF o.ok THEN Begun(o.t) ELSE Leaves(o.t)
  <1> DEFINE sh == <<"shader", p>>
             dsl == <<"dsl", p>>
             pll == <<"pll", p>>
             pl == <<"pipeline", p>>
             script == <<Step(sh, {}), Step(dsl, {sh}), Step(pll, {dsl, sh}), Step(pl, {sh, pll, dsl})>>
  <1>1. PICK a \in Attempt(u.vk, script) :
          o = [t |-> [u EXCEPT !.vk = IF a.ok THEN Destroy(a.v, {sh}) ELSE a.v, !.held = @ \cup (a.made \ {sh})],
               ok |-> a.ok]
    BY DEF loadPipeline
  <1> DEFINE w == IF a.ok THEN Destroy(a.v, {sh}) ELSE a.v
             y == o.t
             R == Members(u)
  <1>2. Owns(u) /\ Shape(u) /\ Holds(u.vk, R) /\ BackendOK(u.vk) /\ u.device
    BY DEF Begun, Owns, Holds
  <1>3. o.ok = a.ok /\ y \in [vk : {w}, ready : {u.ready}, device : {u.device}, held : {u.held \cup (a.made \ {sh})},
                              tensors : {u.tensors}, tmp : {u.tmp}, bound : {u.bound}]
    BY <1>1, <1>2 DEF Shape
  <1>4. /\ Len(script) = 4 /\ script[1] = Step(sh, {}) /\ script[2] = Step(dsl, {sh})
        /\ script[3] = Step(pll, {dsl, sh}) /\ script[4] = Step(pl, {sh, pll, dsl})
    OBVIOUS
  <1>5. p \in {"matvec", "rmsnorm", "elemwise", "softmax"}
    BY DEF Pipelines
  <1>6. dsl \in Layouts /\ pll \in Layouts
    BY DEF Layouts
  <1>7. /\ dsl[1] \in KeptKinds /\ pll[1] \in KeptKinds /\ pl[1] \in KeptKinds
        /\ dsl[2] # "backend" /\ pll[2] # "backend" /\ pl[2] # "backend"
        /\ sh # dsl /\ sh # pll /\ sh # pl
    BY <1>5 DEF KeptKinds
  <1>8. sh \notin u.vk.live
    BY <1>2, NotKept DEF KeptKinds, BufferKinds
  <1> HIDE DEF script, sh, dsl, pll, pl
  <1>9. PICK k, undo :
          /\ k \in 0..Len(script) /\ undo = IF k < Len(script) THEN script[k + 1].undo ELSE {}
          /\ a.made = Made(script, k) /\ (a.ok <=> k = Len(script))
          /\ SameBuffers(u.vk, a.v) /\ a.v.held = u.vk.held
          /\ a.v.live = (u.vk.live \cup a.made) \ undo
          /\ a.v.twice = u.vk.twice \cup (undo \ (u.vk.live \cup a.made))
    <2>1. BackendOK(u.vk) /\ a \in Attempt(u.vk, script)
      BY <1>2
    <2> DEFINE v == u.vk
    <2> HIDE DEF v, w, y, R
    <2>2. BackendOK(v) /\ a \in Attempt(v, script)
      BY <2>1 DEF v
    <2>3. \E k, undo :
              /\ k \in 0..Len(script) /\ undo = IF k < Len(script) THEN script[k + 1].undo ELSE {}
              /\ a.made = Made(script, k) /\ (a.ok <=> k = Len(script))
              /\ SameBuffers(v, a.v) /\ a.v.held = v.held
              /\ a.v.live = (v.live \cup a.made) \ undo
              /\ a.v.twice = v.twice \cup (undo \ (v.live \cup a.made))
      BY <2>2, AttemptObjects
    <2> QED
      BY <2>3 DEF v
  <1>10. /\ Made(script, 0) = {} /\ Made(script, 1) = {sh} /\ Made(script, 2) = {sh, dsl}
         /\ Made(script, 3) = {sh, dsl, pll} /\ Made(script, 4) = {sh, dsl, pll, pl}
    BY <1>4 DEF Made, Step
  <1>11. k = 0 \/ k = 1 \/ k = 2 \/ k = 3 \/ k = 4
    BY <1>4, <1>9
  <1>12. Shape(u) /\ u.tmp = [s \in TmpSlots |-> u.tmp[s]] /\ u.vk.twice \subseteq Layouts
         /\ (\A h \in u.vk.held : h[2] = "backend") /\ (\A h \in u.held : h[2] # "backend")
         /\ DOMAIN u.vk.buffers = Ids(u) \ {0} /\ OneName(u)
    BY <1>2 DEF Owns
  <1>13. u.vk.live = u.held \cup u.vk.held \cup ObjectsOf(u.vk) /\ (\A h \in u.held \cup u.vk.held : h[1] \in KeptKinds)
    BY <1>2 DEF Holds, Members, R
  <1> HIDE DEF w, y, R
  <1>14. /\ Shape(y) /\ y.vk = w /\ y.ready = u.ready /\ y.device = u.device /\ y.held = u.held \cup (a.made \ {sh})
         /\ y.tensors = u.tensors /\ y.tmp = u.tmp
    BY <1>3 DEF Shape
  <1>15. Ids(y) = Ids(u) /\ (OneName(y) <=> OneName(u))
    BY <1>14 DEF Ids, OneName
  <1>16. CASE a.ok
    <2>1. a.made = {sh, dsl, pll, pl} /\ undo = {}
      BY <1>4, <1>9, <1>10, <1>16
    <2>2. w = Destroy(a.v, {sh})
      BY <1>16 DEF w
    <2>3. BackendOK(a.v)
      BY <1>9 DEF SameBuffers
    <2>4. SameBuffers(a.v, w) /\ w.held = a.v.held /\ w.live = a.v.live \ {sh} /\ w.twice = a.v.twice \cup ({sh} \ a.v.live)
      BY <2>2, <2>3, DestroyObjects
    <2>5. SameBuffers(u.vk, w)
      BY <1>9, <2>4, SameTwice
    <2>6. w.live = u.vk.live \cup {dsl, pll, pl} /\ w.twice = u.vk.twice /\ w.held = u.vk.held
      BY <1>7, <1>8, <1>9, <2>1, <2>4
    <2>7. y.held = u.held \cup {dsl, pll, pl}
      BY <1>7, <1>14, <2>1
    <2>8. ObjectsOf(w) = ObjectsOf(u.vk) /\ DOMAIN w.buffers = DOMAIN u.vk.buffers /\ BackendOK(w)
      BY <2>5 DEF SameBuffers, ObjectsOf
    <2>9. Members(y) = u.held \cup u.vk.held \cup {dsl, pll, pl}
      BY <1>14, <2>6, <2>7 DEF Members
    <2>10. Holds(w, Members(y))
      BY <1>7, <1>13, <2>6, <2>8, <2>9 DEF Holds
    <2>11. Owns(y)
      BY <1>2, <1>7, <1>12, <1>14, <1>15, <2>6, <2>7, <2>8, <2>10 DEF Owns
    <2> QED
      BY <1>2, <1>3, <1>14, <1>16, <2>11 DEF Begun, y
  <1>17. CASE ~a.ok
    <2>1. undo = a.made /\ a.made \subseteq {sh, dsl, pll}
      <3>1. \A h, H : Step(h, H).undo = H
        BY DEF Step
      <3>2. script[1].undo = {} /\ script[2].undo = {sh} /\ script[3].undo = {dsl, sh} /\ script[4].undo = {sh, pll, dsl}
        BY <1>4, <3>1
      <3> QED
        <4>1. 0 + 1 = 1 /\ 1 + 1 = 2 /\ 2 + 1 = 3 /\ 3 + 1 = 4
          OBVIOUS
        <4>2. undo = script[k + 1].undo /\ a.made = Made(script, k) /\ (k = 0 \/ k = 1 \/ k = 2 \/ k = 3)
          BY <1>4, <1>9, <1>11, <1>17
        <4>3. CASE k = 0
          BY <1>10, <3>2, <4>2, <4>1, <4>3
        <4>4. CASE k = 1
          BY <1>10, <3>2, <4>2, <4>1, <4>4
        <4>5. CASE k = 2
          BY <1>10, <3>2, <4>2, <4>1, <4>5
        <4>6. CASE k = 3
          BY <1>10, <3>2, <4>2, <4>1, <4>6
        <4> QED
          BY <4>2, <4>3, <4>4, <4>5, <4>6
    <2>2. w = a.v
      BY <1>17 DEF w
    <2>3. w.live = u.vk.live \ a.made /\ w.twice = u.vk.twice /\ w.held = u.vk.held
      BY <1>9, <2>1, <2>2
    <2>4. ObjectsOf(w) = ObjectsOf(u.vk) /\ DOMAIN w.buffers = DOMAIN u.vk.buffers /\ BackendOK(w)
      BY <1>9, <2>2 DEF SameBuffers, ObjectsOf
    <2>5. Members(y) = u.held \cup u.vk.held \cup (a.made \ {sh})
      BY <1>14, <2>3 DEF Members
    <2>6. a.made \ {sh} \subseteq {dsl, pll}
      BY <2>1
    <2>7. w.live \subseteq Members(y) \cup ObjectsOf(w)
      BY <1>13, <2>3, <2>4, <2>5
    <2>8. (Members(y) \cup ObjectsOf(w)) \ w.live \subseteq Layouts
      BY <1>6, <1>8, <1>13, <2>3, <2>4, <2>5, <2>6
    <2>9. (\A h \in Members(y) : h[1] \in KeptKinds) /\ (\A h \in y.held : h[2] # "backend")
      BY <1>7, <1>12, <1>13, <1>14, <2>5, <2>6
    <2>10. Leaves(y)
      BY <1>2, <1>12, <1>14, <1>15, <2>3, <2>4, <2>7, <2>8, <2>9 DEF Leaves
    <2> QED
      BY <1>3, <1>17, <2>10 DEF y
  <1> QED
    BY <1>16, <1>17

\* The four in turn.
LEMMA PipelinesOwn ==
    ASSUME NEW u, NEW o \in loadPipelines(u), Begun(u)
    PROVE  Owns(o.t) /\ (o.ok => Begun(o.t))
  <1> DEFINE Load(k, y) == {IF p.ok THEN p ELSE [t |-> opsShutdown(p.t), ok |-> FALSE] :
                                p \in loadPipeline(y, Pipelines[k])}
             Second(y) == Then(Load(1, y), LAMBDA w : Load(2, w))
             Third(y) == Then(Second(y), LAMBDA w : Load(3, w))
             Fine(p) == Owns(p.t) /\ (p.ok => Begun(p.t))
  <1>1. ASSUME NEW y, NEW k \in 1..4, Begun(y), NEW p \in Load(k, y) PROVE Fine(p)
    <2>1. PICK q \in loadPipeline(y, Pipelines[k]) :
            p = IF q.ok THEN q ELSE [t |-> opsShutdown(q.t), ok |-> FALSE]
      OBVIOUS
    <2>2. DOMAIN Pipelines = 1..4
      BY DEF Pipelines
    <2>3. IF q.ok THEN Begun(q.t) ELSE Leaves(q.t)
      BY <1>1, <2>2, PipelineObjects
    <2>4. CASE q.ok
      BY <2>1, <2>3, <2>4 DEF Begun
    <2>5. CASE ~q.ok
      <3>1. p.t = opsShutdown(q.t) /\ ~p.ok
        BY <2>1, <2>5
      <3> QED
        BY <2>3, <2>5, <3>1, OpsShutdownBare
    <2> QED
      BY <2>4, <2>5
  <1>2. 1 \in 1..4 /\ 2 \in 1..4 /\ 3 \in 1..4 /\ 4 \in 1..4
    OBVIOUS
  <1> HIDE DEF Load
  <1>3. ASSUME NEW p \in Second(u) PROVE Fine(p)
    <2>1. PICK q \in Load(1, u) : p \in IF q.ok THEN Load(2, q.t) ELSE {q}
      BY DEF Then
    <2> QED
      BY <1>1, <1>2, <2>1
  <1> HIDE DEF Second
  <1>4. ASSUME NEW p \in Third(u) PROVE Fine(p)
    <2>1. PICK q \in Second(u) : p \in IF q.ok THEN Load(3, q.t) ELSE {q}
      BY DEF Then
    <2> QED
      BY <1>1, <1>2, <1>3, <2>1
  <1> HIDE DEF Third
  <1>5. PICK q \in Third(u) : o \in IF q.ok THEN Load(4, q.t) ELSE {q}
    BY DEF loadPipelines, Then, Third, Second, Load
  <1> QED
    BY <1>1, <1>2, <1>4, <1>5

LEMMA NoOpsIdle ==
    /\ Idle(NoOps) /\ Bare(NoOps.vk) /\ Owns(NoOps) /\ NoOps.vk = NoBackend
  <1> DEFINE v == NoBackend
             b == NoBuffer
             none == <<>>
             T == [s \in TmpSlots |-> b]
  <1>1. BackendOK(v) /\ v.live = {} /\ v.held = {} /\ v.twice = {} /\ DOMAIN v.buffers = {}
    BY DEF NoBackend, BackendOK
  <1>2. Bare(v)
    BY <1>1 DEF Bare
  <1>3. T = [s \in TmpSlots |-> T[s]] /\ (\A s \in TmpSlots : T[s].id = 0) /\ DOMAIN none = {}
    BY DEF NoBuffer
  <1>4. NoOps \in [vk : {v}, ready : {FALSE}, device : {FALSE}, held : {{}}, tensors : {none}, tmp : {T}, bound : {{}}]
    BY DEF NoOps, TmpSlots
  <1> HIDE DEF v, b, none, T
  <1>5. /\ Shape(NoOps) /\ NoOps.vk = v /\ ~NoOps.ready /\ ~NoOps.device /\ NoOps.held = {}
        /\ NoOps.tensors = none /\ NoOps.tmp = T
    BY <1>4 DEF Shape
  <1>6. Ids(NoOps) \subseteq {0}
    BY <1>3, <1>5 DEF Ids
  <1>7. Idle(NoOps)
    BY <1>3, <1>5, <1>6 DEF Idle
  <1>8. Bare(NoOps.vk)
    BY <1>2, <1>5
  <1> QED
    BY <1>5, <1>7, <1>8, BareOwns DEF v

\* A backend that has been initialized, as far as it went, under its owner.
LEMMA BackendOwned ==
    ASSUME NEW u, NEW y, NEW w, NEW device \in BOOLEAN, Idle(u),
           Holds(w, w.held), w.twice \subseteq Layouts, DOMAIN w.buffers = {}, \A h \in w.held : h[2] = "backend",
           y \in [vk : {w}, ready : {u.ready}, device : {device}, held : {u.held},
                  tensors : {u.tensors}, tmp : {u.tmp}, bound : {u.bound}]
    PROVE  Owns(y) /\ (device => Begun(y))
  <1>1. /\ Shape(y) /\ y.vk = w /\ y.ready = u.ready /\ y.device = device /\ y.held = u.held
        /\ y.tensors = u.tensors /\ y.tmp = u.tmp
    BY DEF Shape
  <1>2. ~u.ready /\ u.held = {} /\ u.tmp = [s \in TmpSlots |-> u.tmp[s]] /\ Ids(u) \subseteq {0} /\ DOMAIN u.tensors = {}
    BY DEF Idle
  <1>3. Ids(y) = Ids(u) /\ OneName(y)
    BY <1>1, <1>2 DEF Ids, OneName
  <1>4. Members(y) = w.held
    BY <1>1, <1>2 DEF Members
  <1>5. Owns(y)
    BY <1>1, <1>2, <1>3, <1>4 DEF Owns
  <1> QED
    BY <1>1, <1>5 DEF Begun

LEMMA OpsInitializeOwns ==
    ASSUME NEW u, NEW devices, NEW o \in opsInitialize(u, devices), u = NoOps \/ (Owns(u) /\ u.ready)
    PROVE  Owns(o.t) /\ (o.ok => o.t.ready)
  <1> DEFINE pool(y) == {[t |-> [y EXCEPT !.vk.live = @ \cup {Pool}, !.held = @ \cup {Pool}], ok |-> TRUE],
                         [t |-> y, ok |-> FALSE]}
             begun == {On(u, p) : p \in initialize(u.vk, devices)}
             pooled == Then(begun, LAMBDA y : pool([y EXCEPT !.device = TRUE]))
             all == Then(pooled, loadPipelines)
             Fine(p) == Owns(p.t) /\ (p.ok => Begun(p.t))
  <1>1. CASE u.ready
    <2>1. o \in {[t |-> u, ok |-> TRUE]}
      BY <1>1 DEF opsInitialize
    <2> QED
      BY <1>1, <2>1, NoOpsIdle DEF Idle
  <1>2. CASE ~u.ready
    <2>0. u = NoOps /\ Idle(u) /\ u.vk = NoBackend /\ u.device = FALSE
      <3>1. NoOps.device = FALSE
        BY DEF NoOps
      <3> QED
        BY <1>2, <3>1, NoOpsIdle
    <2>1. ASSUME NEW p \in begun
          PROVE  Owns(p.t) /\ Begun([p.t EXCEPT !.device = TRUE])
      <3>1. PICK q \in initialize(NoBackend, devices) : p = On(u, q)
        BY <2>0
      <3> DEFINE w == q.v
                 y == p.t
                 z == [y EXCEPT !.device = TRUE]
      <3>2. /\ Holds(w, w.held) /\ w.twice \subseteq Layouts /\ DOMAIN w.buffers = {}
            /\ \A h \in w.held : h[2] = "backend"
        BY BackendStarts
      <3>3. y \in [vk : {w}, ready : {u.ready}, device : {FALSE}, held : {u.held}, tensors : {u.tensors},
                   tmp : {u.tmp}, bound : {u.bound}]
        BY <2>0, <3>1 DEF On, Idle, Shape
      <3>4. z \in [vk : {w}, ready : {u.ready}, device : {TRUE}, held : {u.held}, tensors : {u.tensors},
                   tmp : {u.tmp}, bound : {u.bound}]
        BY <3>3
      <3> HIDE DEF w, y, z
      <3>5. Owns(y)
        BY <2>0, <3>2, <3>3, BackendOwned
      <3>6. Begun(z)
        BY <2>0, <3>2, <3>4, BackendOwned
      <3> QED
        BY <3>5, <3>6 DEF y, z
    <2> HIDE DEF begun
    <2>2. ASSUME NEW y, Begun(y), NEW p \in pool(y) PROVE Fine(p)
      <3> DEFINE w == [y.vk EXCEPT !.live = @ \cup {Pool}]
                 z == [y EXCEPT !.vk.live = @ \cup {Pool}, !.held = @ \cup {Pool}]
      <3>1. p.t = y \/ p.t = z
        OBVIOUS
      <3>2. Owns(y) /\ Shape(y) /\ BackendOK(y.vk) /\ y.device /\ Holds(y.vk, Members(y))
        BY <2>2 DEF Begun, Owns, Holds
      <3>3. SameBuffers(y.vk, w) /\ w.live = y.vk.live \cup {Pool} /\ w.held = y.vk.held /\ w.twice = y.vk.twice
        <4>1. SameBuffers(y.vk, w)
          BY <3>2, LiveKeeps
        <4> QED
          BY <3>2, <4>1 DEF BackendOK
      <3>4. z \in [vk : {w}, ready : {y.ready}, device : {y.device}, held : {y.held \cup {Pool}},
                   tensors : {y.tensors}, tmp : {y.tmp}, bound : {y.bound}]
        BY <3>2 DEF Shape
      <3>5. Pool[1] \in KeptKinds /\ Pool[2] # "backend"
        BY DEF Pool, KeptKinds
      <3> HIDE DEF w, z
      <3>6. /\ Shape(z) /\ z.vk = w /\ z.ready = y.ready /\ z.device = y.device /\ z.held = y.held \cup {Pool}
            /\ z.tensors = y.tensors /\ z.tmp = y.tmp
        BY <3>4 DEF Shape
      <3>7. Ids(z) = Ids(y) /\ (OneName(z) <=> OneName(y)) /\ Members(z) = Members(y) \cup {Pool}
        BY <3>3, <3>6 DEF Ids, OneName, Members
      <3>8. Holds(w, Members(z))
        BY <3>2, <3>3, <3>5, <3>7 DEF Holds, SameBuffers, ObjectsOf
      <3>9. Owns(z)
        BY <3>2, <3>3, <3>5, <3>6, <3>7, <3>8 DEF Owns, SameBuffers
      <3> QED
        BY <2>2, <3>1, <3>2, <3>6, <3>9 DEF Begun
    <2> HIDE DEF pool
    <2>3. ASSUME NEW p \in pooled PROVE Fine(p)
      <3>1. PICK q \in begun : p \in IF q.ok THEN pool([q.t EXCEPT !.device = TRUE]) ELSE {q}
        BY DEF Then
      <3>2. Owns(q.t) /\ Begun([q.t EXCEPT !.device = TRUE])
        BY <2>1
      <3> QED
        BY <2>2, <3>1, <3>2
    <2> HIDE DEF pooled
    <2>4. ASSUME NEW p \in all PROVE Fine(p)
      <3>1. PICK q \in pooled : p \in IF q.ok THEN loadPipelines(q.t) ELSE {q}
        BY DEF Then
      <3>2. Fine(q)
        BY <2>3
      <3> QED
        BY <3>1, <3>2, PipelinesOwn
    <2> HIDE DEF all
    <2>5. PICK p \in all : o = IF p.ok THEN [t |-> [p.t EXCEPT !.ready = TRUE], ok |-> TRUE] ELSE p
      BY <1>2 DEF opsInitialize, Then, all, pooled, pool, begun
    <2>6. Fine(p)
      BY <2>4
    <2>7. CASE ~p.ok
      BY <2>5, <2>6, <2>7
    <2>8. CASE p.ok
      <3> DEFINE y == p.t
                 x == [y EXCEPT !.ready = TRUE]
      <3>1. Owns(y) /\ y.device /\ Shape(y)
        BY <2>6, <2>8 DEF Begun, Owns
      <3>2. x \in [vk : {y.vk}, ready : {TRUE}, device : {y.device}, held : {y.held}, tensors : {y.tensors},
                   tmp : {y.tmp}, bound : {y.bound}]
        BY <3>1 DEF Shape
      <3>3. o.t = x
        BY <2>5, <2>8
      <3> HIDE DEF x, y
      <3>4. /\ Shape(x) /\ x.vk = y.vk /\ x.ready /\ x.device = y.device /\ x.held = y.held
            /\ x.tensors = y.tensors /\ x.tmp = y.tmp
        BY <3>2 DEF Shape
      <3>5. Ids(x) = Ids(y) /\ (OneName(x) <=> OneName(y)) /\ Members(x) = Members(y)
        BY <3>4 DEF Ids, OneName, Members
      <3>6. Owns(x)
        BY <3>1, <3>4, <3>5 DEF Owns
      <3> QED
        BY <3>3, <3>4, <3>6
    <2> QED
      BY <2>7, <2>8
  <1> QED
    BY <1>1, <1>2

-----------------------------------------------------------------------------
(* The elements of all buffers of a host.                                   *)

\* A set of natural numbers has a smallest one.
LEMMA SmallestNat ==
    ASSUME NEW T, T \subseteq Nat, T # {}
    PROVE  \E x \in T : \A y \in T : x <= y
  <1> DEFINE R == OpToRel(<, Nat)
  <1>1. IsWellFoundedOn(R, Nat)
    BY NatLessThanWellFounded
  <1> HIDE DEF R
  <1>2. PICK x \in T : \A y \in T : ~(<<y, x>> \in R)
    BY <1>1, WFMin
  <1>3. ASSUME NEW y \in T PROVE ~(y < x)
    BY <1>2 DEF R, OpToRel
  <1> QED
    BY <1>2, <1>3

LEMMA SetInduction ==
    ASSUME NEW T, 0 \in T, \A n \in Nat : n \in T => n + 1 \in T
    PROVE  Nat \subseteq T
  <1> SUFFICES ASSUME Nat \ T # {} PROVE FALSE
    OBVIOUS
  <1>1. PICK x \in Nat \ T : \A y \in Nat \ T : x <= y
    BY SmallestNat, Nat \ T \subseteq Nat
  <1>2. x - 1 \in Nat /\ x - 1 \in T
    BY <1>1
  <1> QED
    BY <1>2, (x - 1) + 1 = x

\* The elements of the buffer with key k, if there is one.
Elems(b, k) == IF k \in DOMAIN b THEN b[k].n ELSE 0

\* f[k] are the elements of the buffers up to k.
Sums(f, b, N) == f = [k \in 0..N |-> IF k = 0 THEN 0 ELSE f[k - 1] + Elems(b, k)]

LEMMA SumsExist ==
    ASSUME NEW b, NEW N \in Nat
    PROVE  \E f : Sums(f, b, N)
  <1> DEFINE T == {n \in Nat : \E f : Sums(f, b, n)}
  <1>1. 0 \in T
    <2> DEFINE f == [k \in 0..0 |-> 0]
    <2>1. Sums(f, b, 0)
      <3>1. \A k \in 0..0 : k = 0
        OBVIOUS
      <3> QED
        BY <3>1 DEF Sums
    <2> QED
      BY <2>1
  <1>2. ASSUME NEW n \in Nat, n \in T PROVE n + 1 \in T
    <2>1. PICK f : Sums(f, b, n)
      BY <1>2
    <2> DEFINE g == [k \in 0..n + 1 |-> IF k = n + 1 THEN f[n] + Elems(b, n + 1) ELSE f[k]]
    <2>2. ASSUME NEW k \in 0..n + 1
          PROVE  g[k] = IF k = 0 THEN 0 ELSE g[k - 1] + Elems(b, k)
      <3>1. CASE k = n + 1
        <4>1. k - 1 = n /\ n \in 0..n + 1 /\ n # n + 1 /\ k # 0
          BY <3>1
        <4>2. g[n] = f[n]
          BY <4>1
        <4> QED
          BY <3>1, <4>1, <4>2
      <3>2. CASE k # n + 1
        <4>1. k \in 0..n /\ (k # 0 => k - 1 \in 0..n + 1 /\ k - 1 # n + 1)
          BY <3>2
        <4>2. f[k] = IF k = 0 THEN 0 ELSE f[k - 1] + Elems(b, k)
          BY <2>1, <4>1 DEF Sums
        <4> QED
          BY <3>2, <4>1, <4>2
      <3> QED
        BY <3>1, <3>2
    <2>3. DOMAIN g = 0..n + 1 /\ g = [k \in 0..n + 1 |-> g[k]]
      OBVIOUS
    <2> HIDE DEF g
    <2>4. Sums(g, b, n + 1)
      BY <2>2, <2>3 DEF Sums
    <2> QED
      BY <2>4
  <1> HIDE DEF T
  <1>3. Nat \subseteq T
    BY <1>1, <1>2, SetInduction
  <1> QED
    BY <1>3 DEF T

LEMMA UsedSums ==
    ASSUME NEW b
    PROVE  \E f : Sums(f, b, MaxHostId) /\ Used(b) = f[MaxHostId]
  <1> DEFINE f == CHOOSE g : Sums(g, b, MaxHostId)
  <1>1. Sums(f, b, MaxHostId)
    BY HostAssumption, SumsExist
  <1>2. Used(b) = f[MaxHostId]
    BY DEF Used, Sums, Elems
  <1> QED
    BY <1>1, <1>2

\* A buffer less, or one more.
LEMMA SumsWithout ==
    ASSUME NEW N \in Nat, NEW b, NEW c, NEW f, NEW g, Sums(f, b, N), Sums(g, c, N),
           NEW k \in DOMAIN b, k \in 1..N, DOMAIN c = DOMAIN b \ {k},
           \A j \in DOMAIN c : c[j] = b[j], \A j \in DOMAIN b : b[j].n \in Nat
    PROVE  \A j \in 0..N : g[j] \in Nat /\ f[j] = g[j] + (IF j >= k THEN b[k].n ELSE 0)
  <1> DEFINE P(j) == g[j] \in Nat /\ f[j] = g[j] + (IF j >= k THEN b[k].n ELSE 0)
             T == {j \in Nat : j <= N => P(j)}
  <1>1. 0 \in T
    <2>1. f[0] = 0 /\ g[0] = 0
      BY DEF Sums
    <2> QED
      BY <2>1
  <1>2. ASSUME NEW j \in Nat, j \in T PROVE j + 1 \in T
    <2>1. SUFFICES ASSUME j + 1 <= N PROVE P(j + 1)
      OBVIOUS
    <2>2. P(j) /\ j + 1 \in 0..N /\ j + 1 # 0 /\ (j + 1) - 1 = j
      BY <1>2, <2>1
    <2>3. f[j + 1] = f[j] + Elems(b, j + 1) /\ g[j + 1] = g[j] + Elems(c, j + 1)
      BY <2>2 DEF Sums
    <2>4. Elems(c, j + 1) \in Nat /\ Elems(b, j + 1) = Elems(c, j + 1) + (IF j + 1 = k THEN b[k].n ELSE 0)
      BY DEF Elems
    <2>5. b[k].n \in Nat
      OBVIOUS
    <2>6. CASE j + 1 = k
      <3>1. ~(j >= k) /\ j + 1 >= k
        BY <2>6
      <3> QED
        BY <2>2, <2>3, <2>4, <2>5, <2>6, <3>1
    <2>7. CASE j + 1 # k
      <3>1. j >= k <=> j + 1 >= k
        BY <2>7
      <3> QED
        BY <2>2, <2>3, <2>4, <2>5, <2>7, <3>1
    <2> QED
      BY <2>6, <2>7
  <1> HIDE DEF T
  <1>3. Nat \subseteq T
    BY <1>1, <1>2, SetInduction
  <1> QED
    BY <1>3 DEF T

LEMMA UsedWithout ==
    ASSUME NEW b, NEW c, NEW k \in DOMAIN b, k \in 1..MaxHostId, DOMAIN c = DOMAIN b \ {k},
           \A j \in DOMAIN c : c[j] = b[j], \A j \in DOMAIN b : b[j].n \in Nat
    PROVE  Used(c) \in Nat /\ Used(b) = Used(c) + b[k].n
  <1>1. MaxHostId \in Nat
    BY HostAssumption
  <1>2. PICK f : Sums(f, b, MaxHostId) /\ Used(b) = f[MaxHostId]
    BY UsedSums
  <1>3. PICK g : Sums(g, c, MaxHostId) /\ Used(c) = g[MaxHostId]
    BY UsedSums
  <1>4. \A j \in 0..MaxHostId : g[j] \in Nat /\ f[j] = g[j] + (IF j >= k THEN b[k].n ELSE 0)
    BY <1>1, <1>2, <1>3, SumsWithout
  <1> QED
    BY <1>1, <1>2, <1>3, <1>4

LEMMA UsedNothing ==
    ASSUME NEW b, DOMAIN b = {}
    PROVE  Used(b) = 0
  <1>1. PICK f : Sums(f, b, MaxHostId) /\ Used(b) = f[MaxHostId]
    BY UsedSums
  <1> DEFINE T == {j \in Nat : j <= MaxHostId => f[j] = 0}
  <1>2. 0 \in T
    BY <1>1, HostAssumption DEF Sums
  <1>3. ASSUME NEW j \in Nat, j \in T PROVE j + 1 \in T
    <2>1. SUFFICES ASSUME j + 1 <= MaxHostId PROVE f[j + 1] = 0
      OBVIOUS
    <2>2. f[j] = 0 /\ j + 1 \in 0..MaxHostId /\ j + 1 # 0 /\ (j + 1) - 1 = j
      BY <1>3, <2>1, HostAssumption
    <2>3. f[j + 1] = f[j] + Elems(b, j + 1)
      BY <1>1, <2>2 DEF Sums
    <2> QED
      BY <2>2, <2>3 DEF Elems
  <1> HIDE DEF T
  <1>4. Nat \subseteq T
    BY <1>2, <1>3, SetInduction
  <1> QED
    BY <1>1, <1>4, HostAssumption DEF T

-----------------------------------------------------------------------------
(* The host.                                                                *)

\* The backend of a host, and what VulkanAcceleratorMemory notes of its buffers.
HostOwns(u, a) ==
    /\ Idle(u) /\ Holds(u.vk, u.vk.held) /\ u.vk.twice \subseteq Layouts
    /\ \A h \in u.vk.held : h[2] = "backend"
    /\ a \in [buffers : {a.buffers}, used : {a.used}]
    /\ DOMAIN a.buffers \subseteq 1..MaxHostId
    /\ DOMAIN u.vk.buffers = {a.buffers[k].id : k \in DOMAIN a.buffers}
    /\ \A j, k \in DOMAIN a.buffers : a.buffers[j].id = a.buffers[k].id => j = k
    /\ \A k \in DOMAIN a.buffers : a.buffers[k].n \in Nat
    /\ a.used = Used(a.buffers)

OwnInv ==
    /\ client \in {"gone", "adapter", "host"}
    /\ client = "gone" => Idle(t) /\ Bare(t.vk) /\ acc = NoAcc
    /\ client = "adapter" => Owns(t) /\ acc = NoAcc /\ (~tried => t = NoOps)
    /\ client = "host" => HostOwns(t, acc) /\ (~tried => t = NoOps)
    /\ is_ready \cup loading # {} => t.ready

LEMMA IdleOn ==
    ASSUME NEW u, NEW w, Idle(u)
    PROVE  Idle([u EXCEPT !.vk = w]) /\ [u EXCEPT !.vk = w].vk = w
  <1> DEFINE y == [u EXCEPT !.vk = w]
  <1>1. y \in [vk : {w}, ready : {u.ready}, device : {u.device}, held : {u.held},
               tensors : {u.tensors}, tmp : {u.tmp}, bound : {u.bound}]
    BY DEF Idle, Shape
  <1> HIDE DEF y
  <1>2. /\ Shape(y) /\ y.vk = w /\ y.ready = u.ready /\ y.device = u.device /\ y.held = u.held
        /\ y.tensors = u.tensors /\ y.tmp = u.tmp
    BY <1>1 DEF Shape
  <1>3. Idle(y)
    BY <1>2 DEF Idle, Ids
  <1> QED
    BY <1>2, <1>3 DEF y

\* A host whose backend has the same buffers as before.
LEMMA HostKept ==
    ASSUME NEW u, NEW a, NEW w, HostOwns(u, a), NowBuffers(u.vk, w, u.vk.held, DOMAIN u.vk.buffers)
    PROVE  HostOwns([u EXCEPT !.vk = w], a)
  <1> DEFINE y == [u EXCEPT !.vk = w]
  <1>1. Idle(y) /\ y.vk = w
    BY IdleOn DEF HostOwns
  <1> HIDE DEF y
  <1>2. HostOwns(y, a)
    BY <1>1 DEF HostOwns, NowBuffers
  <1> QED
    BY <1>2 DEF y

LEMMA CreateThree ==
    ASSUME NEW v, NEW R, NEW n \in Nat, NEW c \in Create(v, n), Holds(v, R)
    PROVE  \E D : /\ NowBuffers(v, c.v, R, DOMAIN v.buffers \cup D) /\ D \cap DOMAIN v.buffers = {}
                  /\ D = {c.ids[1], c.ids[2], c.ids[3]} \ {0}
  <1>1. PICK p, q, r : /\ p \in createBuffer(v, n) /\ q \in createBuffer(p.v, n) /\ r \in createBuffer(q.v, n)
                       /\ c = [v |-> r.v, ids |-> <<p.id, q.id, r.id>>]
    BY DEF Create
  <1>2. 0 \notin DOMAIN v.buffers
    BY DEF Holds, BackendOK
  <1>3. ASSUME NEW x, Holds(x, R), NEW z \in createBuffer(x, n)
        PROVE  /\ NowBuffers(x, z.v, R, DOMAIN x.buffers \cup ({z.id} \ {0}))
               /\ z.id # 0 => z.id \notin DOMAIN x.buffers
    <2>1. \/ z.id = 0 /\ NowBuffers(x, z.v, R, DOMAIN x.buffers)
          \/ /\ z.id \in Nat \ {0} /\ z.id \notin DOMAIN x.buffers
             /\ NowBuffers(x, z.v, R, DOMAIN x.buffers \cup {z.id})
      BY <1>3, CreateObjects
    <2>2. CASE z.id = 0
      <3>1. DOMAIN x.buffers \cup ({z.id} \ {0}) = DOMAIN x.buffers
        BY <2>2
      <3> QED
        BY <2>1, <2>2, <3>1
    <2>3. CASE z.id # 0
      <3>1. {z.id} \ {0} = {z.id}
        BY <2>3
      <3> QED
        BY <2>1, <2>3, <3>1
    <2> QED
      BY <2>2, <2>3
  <1>4. NowBuffers(v, p.v, R, DOMAIN v.buffers \cup ({p.id} \ {0})) /\ (p.id # 0 => p.id \notin DOMAIN v.buffers)
    BY <1>1, <1>3
  <1>5. NowBuffers(p.v, q.v, R, DOMAIN p.v.buffers \cup ({q.id} \ {0})) /\ (q.id # 0 => q.id \notin DOMAIN p.v.buffers)
    BY <1>1, <1>3, <1>4 DEF NowBuffers
  <1>6. NowBuffers(q.v, r.v, R, DOMAIN q.v.buffers \cup ({r.id} \ {0})) /\ (r.id # 0 => r.id \notin DOMAIN q.v.buffers)
    BY <1>1, <1>3, <1>5 DEF NowBuffers
  <1> DEFINE D == {p.id, q.id, r.id} \ {0}
  <1>7. D \cap DOMAIN v.buffers = {}
    BY <1>4, <1>5, <1>6 DEF NowBuffers
  <1>8. DOMAIN r.v.buffers = DOMAIN v.buffers \cup D
    BY <1>4, <1>5, <1>6 DEF NowBuffers
  <1>9. NowBuffers(v, r.v, R, DOMAIN v.buffers \cup D)
    BY <1>4, <1>5, <1>6, <1>8 DEF NowBuffers
  <1>10. c.v = r.v /\ c.ids[1] = p.id /\ c.ids[2] = q.id /\ c.ids[3] = r.id
    BY <1>1
  <1> QED
    BY <1>7, <1>9, <1>10

LEMMA GoneThree ==
    ASSUME NEW v, NEW R, NEW ids, Holds(v, R)
    PROVE  NowBuffers(v, Gone(v, ids), R, DOMAIN v.buffers \ {ids[1], ids[2], ids[3]})
  <1> DEFINE p == destroyBuffer(v, ids[1])
             q == destroyBuffer(p, ids[2])
             r == destroyBuffer(q, ids[3])
  <1>1. r = Gone(v, ids)
    BY DEF Gone
  <1>2. NowBuffers(v, p, R, DOMAIN v.buffers \ {ids[1]})
    BY DestroyedObject
  <1> HIDE DEF p
  <1>3. NowBuffers(p, q, R, DOMAIN p.buffers \ {ids[2]})
    <2>1. Holds(p, R)
      BY <1>2 DEF NowBuffers
    <2> QED
      BY <2>1, DestroyedObject
  <1> HIDE DEF q
  <1>4. NowBuffers(q, r, R, DOMAIN q.buffers \ {ids[3]})
    <2>1. Holds(q, R)
      BY <1>3 DEF NowBuffers
    <2> QED
      BY <2>1, DestroyedObject
  <1> HIDE DEF r
  <1>5. NowBuffers(v, r, R, DOMAIN v.buffers \ {ids[1], ids[2], ids[3]})
    BY <1>2, <1>3, <1>4 DEF NowBuffers
  <1> QED
    BY <1>1, <1>5

LEMMA AddedObjects ==
    ASSUME NEW v, NEW R, NEW ids, NEW o \in Added(v, ids), Holds(v, R)
    PROVE  SameObjects(v, o.v)
  <1> DEFINE Ok(outcomes, Rest(_)) == UNION {IF p.ok THEN Rest(p.v) ELSE {p} : p \in outcomes}
             n == v.buffers[ids[1]]
             loaded == Ok(uploadBytes(v, ids[1], n), LAMBDA w : uploadBytes(w, ids[2], n))
             run == Ok(loaded, LAMBDA w : executeVectorAdd(w, {ids[1], ids[2], ids[3]}))
  <1> HIDE DEF n
  <1>1. ASSUME NEW p \in loaded PROVE SameObjects(v, p.v)
    <2>1. PICK q \in uploadBytes(v, ids[1], n) : p \in IF q.ok THEN uploadBytes(q.v, ids[2], n) ELSE {q}
      OBVIOUS
    <2>2. SameObjects(v, q.v) /\ Holds(q.v, R)
      BY UploadBytesObjects, SameHolds
    <2>3. CASE q.ok
      <3>1. SameObjects(q.v, p.v)
        BY <2>1, <2>2, <2>3, UploadBytesObjects
      <3> QED
        BY <2>2, <3>1, SameObjectsTwice
    <2>4. CASE ~q.ok
      BY <2>1, <2>2, <2>4
    <2> QED
      BY <2>3, <2>4
  <1> HIDE DEF loaded
  <1>2. ASSUME NEW p \in run PROVE SameObjects(v, p.v)
    <2>1. PICK q \in loaded : p \in IF q.ok THEN executeVectorAdd(q.v, {ids[1], ids[2], ids[3]}) ELSE {q}
      OBVIOUS
    <2>2. SameObjects(v, q.v)
      BY <1>1
    <2>3. Holds(q.v, R)
      BY <2>2, SameHolds
    <2>4. CASE q.ok
      <3>1. SameObjects(q.v, p.v)
        BY <2>1, <2>3, <2>4, VectorAddObjects
      <3> QED
        BY <2>2, <3>1, SameObjectsTwice
    <2>5. CASE ~q.ok
      BY <2>1, <2>2, <2>5
    <2> QED
      BY <2>4, <2>5
  <1> HIDE DEF run
  <1>3. PICK q \in run : o \in IF q.ok THEN download(q.v, ids[3]) ELSE {q}
    BY DEF Added, run, loaded, n
  <1>4. SameObjects(v, q.v)
    BY <1>2
  <1>5. Holds(q.v, R)
    BY <1>4, SameHolds
  <1>6. CASE q.ok
    <2>1. SameObjects(q.v, o.v)
      BY <1>3, <1>5, <1>6, DownloadObjects
    <2> QED
      BY <1>4, <2>1, SameObjectsTwice
  <1>7. CASE ~q.ok
    BY <1>3, <1>4, <1>7
  <1> QED
    BY <1>6, <1>7

LEMMA AllocateOwns ==
    ASSUME NEW key \in 1..MaxHostId, NEW n \in Nat, HostOwns(t, acc), allocate(key, n)
    PROVE  HostOwns(t', acc')
  <1> DEFINE b == acc.buffers
             B(id) == [k \in DOMAIN b \cup {key} |-> IF k = key THEN [id |-> id, n |-> n] ELSE b[k]]
  <1>1. key \notin DOMAIN b
    BY DEF allocate
  <1>2. PICK c \in createBuffer(t.vk, n) :
          Host(c.v) /\ acc' = IF c.id = 0 THEN acc ELSE [buffers |-> B(c.id), used |-> acc.used + n]
    BY DEF allocate
  <1>3. t' = [t EXCEPT !.vk = c.v]
    BY <1>2 DEF Host
  <1> DEFINE R == t.vk.held
  <1>4. Holds(t.vk, R) /\ Idle(t)
    BY DEF HostOwns
  <1> HIDE DEF R
  <1>5. \/ c.id = 0 /\ NowBuffers(t.vk, c.v, R, DOMAIN t.vk.buffers)
        \/ /\ c.id \in Nat \ {0} /\ c.id \notin DOMAIN t.vk.buffers
           /\ NowBuffers(t.vk, c.v, R, DOMAIN t.vk.buffers \cup {c.id})
    BY <1>4, CreateObjects
  <1>6. CASE c.id = 0
    <2>1. NowBuffers(t.vk, c.v, t.vk.held, DOMAIN t.vk.buffers)
      BY <1>5, <1>6 DEF R
    <2>2. HostOwns([t EXCEPT !.vk = c.v], acc)
      BY <2>1, HostKept
    <2> QED
      BY <1>2, <1>3, <1>6, <2>2
  <1>7. CASE c.id # 0
    <2> DEFINE N == B(c.id)
               u == t'
               a == acc'
    <2>1. Idle(u) /\ u.vk = c.v
      BY <1>3, <1>4, IdleOn
    <2>2. a = [buffers |-> N, used |-> acc.used + n]
      BY <1>2, <1>7
    <2>3. /\ DOMAIN N = DOMAIN b \cup {key} /\ N[key].id = c.id /\ N[key].n = n
          /\ \A k \in DOMAIN b : N[k] = b[k]
      BY <1>1
    <2> HIDE DEF N, b, u, a
    <2>4. a \in [buffers : {a.buffers}, used : {a.used}] /\ a.buffers = N /\ a.used = acc.used + n
      BY <2>2
    <2>5. /\ DOMAIN b \subseteq 1..MaxHostId /\ DOMAIN t.vk.buffers = {b[k].id : k \in DOMAIN b}
          /\ \A j, k \in DOMAIN b : b[j].id = b[k].id => j = k
          /\ \A k \in DOMAIN b : b[k].n \in Nat
          /\ acc.used = Used(b) /\ t.vk.twice \subseteq Layouts /\ \A h \in R : h[2] = "backend"
      BY DEF HostOwns, b, R
    <2>6. c.id \notin DOMAIN t.vk.buffers /\ NowBuffers(t.vk, c.v, R, DOMAIN t.vk.buffers \cup {c.id})
      BY <1>5, <1>7
    <2>7. /\ Holds(c.v, R) /\ c.v.held = R /\ c.v.twice \subseteq Layouts
          /\ DOMAIN c.v.buffers = DOMAIN t.vk.buffers \cup {c.id}
      BY <2>5, <2>6 DEF NowBuffers, R
    <2>8. DOMAIN c.v.buffers = {N[k].id : k \in DOMAIN N}
      BY <2>3, <2>5, <2>7
    <2>9. \A j, k \in DOMAIN N : N[j].id = N[k].id => j = k
      <3>1. \A k \in DOMAIN b : N[k].id # c.id
        BY <2>3, <2>5, <2>6
      <3> QED
        BY <2>3, <2>5, <3>1
    <2>10. DOMAIN N \subseteq 1..MaxHostId /\ \A k \in DOMAIN N : N[k].n \in Nat
      BY <2>3, <2>5
    <2>11. a.used = Used(N)
      <3>1. DOMAIN b = DOMAIN N \ {key} /\ \A j \in DOMAIN b : b[j] = N[j]
        BY <1>1, <2>3 DEF b
      <3>2. key \in DOMAIN N
        BY <2>3
      <3>3. Used(N) = Used(b) + N[key].n
        BY <2>10, <3>1, <3>2, UsedWithout
      <3> QED
        BY <2>3, <2>4, <2>5, <3>3
    <2>12. HostOwns(u, a)
      <3>1. /\ Holds(u.vk, u.vk.held) /\ u.vk.twice \subseteq Layouts /\ \A h \in u.vk.held : h[2] = "backend"
        BY <2>1, <2>5, <2>7
      <3>2. DOMAIN u.vk.buffers = {a.buffers[k].id : k \in DOMAIN a.buffers}
        BY <2>1, <2>4, <2>8
      <3>3. \A j, k \in DOMAIN a.buffers : a.buffers[j].id = a.buffers[k].id => j = k
        BY <2>4, <2>9
      <3>4. DOMAIN a.buffers \subseteq 1..MaxHostId /\ (\A k \in DOMAIN a.buffers : a.buffers[k].n \in Nat)
            /\ a.used = Used(a.buffers)
        BY <2>4, <2>10, <2>11
      <3> QED
        BY <2>1, <2>4, <3>1, <3>2, <3>3, <3>4 DEF HostOwns
    <2> QED
      BY <2>12 DEF u, a
  <1> QED
    BY <1>6, <1>7

LEMMA ReleaseOwns ==
    ASSUME NEW k, HostOwns(t, acc), release(k)
    PROVE  HostOwns(t', acc')
  <1> DEFINE b == acc.buffers
             N == [j \in DOMAIN b \ {k} |-> b[j]]
             old == b[k].id
             v == destroyBuffer(t.vk, old)
             u == t'
             a == acc'
             R == t.vk.held
  <1>1. k \in DOMAIN b /\ Host(v)
        /\ a = [buffers |-> N, used |-> IF acc.used >= b[k].n THEN acc.used - b[k].n ELSE 0]
    BY DEF release
  <1>2. t' = [t EXCEPT !.vk = v]
    BY <1>1 DEF Host
  <1>3. Holds(t.vk, R) /\ Idle(t)
    BY DEF HostOwns
  <1>4. NowBuffers(t.vk, v, R, DOMAIN t.vk.buffers \ {old})
    <2> HIDE DEF R, old
    <2> QED
      BY <1>3, DestroyedObject
  <1> HIDE DEF v
  <1>5. Idle(u) /\ u.vk = v
    BY <1>2, <1>3, IdleOn
  <1>6. DOMAIN N = DOMAIN b \ {k} /\ \A j \in DOMAIN N : N[j] = b[j]
    OBVIOUS
  <1>7. /\ DOMAIN b \subseteq 1..MaxHostId /\ DOMAIN t.vk.buffers = {b[j].id : j \in DOMAIN b}
        /\ \A i, j \in DOMAIN b : b[i].id = b[j].id => i = j
        /\ \A j \in DOMAIN b : b[j].n \in Nat
        /\ acc.used = Used(b) /\ t.vk.twice \subseteq Layouts /\ \A h \in R : h[2] = "backend"
    BY DEF HostOwns
  <1> HIDE DEF N, b, u, a, R
  <1>8. Used(N) \in Nat /\ Used(b) = Used(N) + b[k].n /\ b[k].n \in Nat
    BY <1>1, <1>6, <1>7, UsedWithout
  <1>9. a \in [buffers : {a.buffers}, used : {a.used}] /\ a.buffers = N /\ a.used = Used(N)
    <2>1. acc.used >= b[k].n /\ acc.used - b[k].n = Used(N)
      BY <1>7, <1>8
    <2>2. a = [buffers |-> N, used |-> Used(N)]
      BY <1>1, <2>1
    <2> QED
      BY <2>2
  <1>10. Holds(v, R) /\ v.held = R /\ v.twice \subseteq Layouts /\ DOMAIN v.buffers = DOMAIN t.vk.buffers \ {old}
    BY <1>4, <1>7 DEF NowBuffers, R
  <1>11. DOMAIN v.buffers = {N[j].id : j \in DOMAIN N}
    BY <1>1, <1>6, <1>7, <1>10
  <1>12. HostOwns(u, a)
    <2>1. /\ Holds(u.vk, u.vk.held) /\ u.vk.twice \subseteq Layouts /\ \A h \in u.vk.held : h[2] = "backend"
      BY <1>5, <1>7, <1>10
    <2>2. DOMAIN u.vk.buffers = {a.buffers[j].id : j \in DOMAIN a.buffers}
      BY <1>5, <1>9, <1>11
    <2>3. \A i, j \in DOMAIN a.buffers : a.buffers[i].id = a.buffers[j].id => i = j
      BY <1>6, <1>7, <1>9
    <2>4. DOMAIN a.buffers \subseteq 1..MaxHostId /\ (\A j \in DOMAIN a.buffers : a.buffers[j].n \in Nat)
          /\ a.used = Used(a.buffers)
      BY <1>6, <1>7, <1>9
    <2> QED
      BY <1>5, <1>9, <2>1, <2>2, <2>3, <2>4 DEF HostOwns
  <1> QED
    BY <1>12 DEF u, a

LEMMA BenchmarkOwns ==
    ASSUME NEW n \in Nat, HostOwns(t, acc), VectorAddBenchmark(n)
    PROVE  HostOwns(t', acc')
  <1> DEFINE R == t.vk.held
  <1>1. PICK c \in Create(t.vk, n) :
          IF 0 \in {c.ids[1], c.ids[2], c.ids[3]} THEN Host(Gone(c.v, c.ids))
          ELSE \E o \in Added(c.v, c.ids) : Host(Gone(o.v, c.ids))
    BY DEF VectorAddBenchmark
  <1>2. acc' = acc
    BY DEF VectorAddBenchmark
  <1>3. Holds(t.vk, R)
    BY DEF HostOwns
  <1> HIDE DEF R
  <1>4. PICK D : /\ NowBuffers(t.vk, c.v, R, DOMAIN t.vk.buffers \cup D) /\ D \cap DOMAIN t.vk.buffers = {}
                 /\ D = {c.ids[1], c.ids[2], c.ids[3]} \ {0}
    BY <1>3, CreateThree
  <1>5. PICK w : SameObjects(c.v, w) /\ Host(Gone(w, c.ids))
    <2>1. SameObjects(c.v, c.v)
      BY <1>4, SelfSame DEF NowBuffers, Holds
    <2>2. ASSUME NEW o \in Added(c.v, c.ids) PROVE SameObjects(c.v, o.v)
      BY <1>4, AddedObjects DEF NowBuffers
    <2> QED
      BY <1>1, <2>1, <2>2
  <1>6. NowBuffers(c.v, w, R, DOMAIN c.v.buffers)
    BY <1>4, <1>5, SameNow DEF NowBuffers
  <1> DEFINE z == Gone(w, c.ids)
  <1>7. NowBuffers(w, z, R, DOMAIN w.buffers \ {c.ids[1], c.ids[2], c.ids[3]})
    <2>1. Holds(w, R)
      BY <1>6 DEF NowBuffers
    <2> QED
      BY <2>1, GoneThree
  <1>8. t' = [t EXCEPT !.vk = z]
    BY <1>5 DEF Host
  <1> HIDE DEF z
  <1>9. 0 \notin DOMAIN t.vk.buffers
    BY <1>3 DEF Holds, BackendOK
  <1>10. NowBuffers(t.vk, z, R, DOMAIN t.vk.buffers)
    <2>1. DOMAIN z.buffers = (DOMAIN t.vk.buffers \cup D) \ {c.ids[1], c.ids[2], c.ids[3]}
      BY <1>4, <1>6, <1>7 DEF NowBuffers
    <2>2. DOMAIN z.buffers = DOMAIN t.vk.buffers
      BY <1>4, <1>9, <2>1
    <2> QED
      BY <1>4, <1>6, <1>7, <2>2 DEF NowBuffers
  <1>11. NowBuffers(t.vk, z, t.vk.held, DOMAIN t.vk.buffers)
    BY <1>10 DEF R
  <1> QED
    BY <1>2, <1>8, <1>11, HostKept

LEMMA HostUploadOwns ==
    ASSUME NEW k, NEW n, HostOwns(t, acc), upload(k, n)
    PROVE  HostOwns(t', acc')
  <1> DEFINE R == t.vk.held
  <1>1. PICK o \in uploadBytes(t.vk, acc.buffers[k].id, n) : Host(o.v)
    BY DEF upload
  <1>2. acc' = acc /\ t' = [t EXCEPT !.vk = o.v]
    BY <1>1 DEF upload, Host
  <1>3. Holds(t.vk, R)
    BY DEF HostOwns
  <1> HIDE DEF R
  <1>4. NowBuffers(t.vk, o.v, R, DOMAIN t.vk.buffers)
    BY <1>3, UploadBytesObjects, SameNow
  <1>5. NowBuffers(t.vk, o.v, t.vk.held, DOMAIN t.vk.buffers)
    BY <1>4 DEF R
  <1> QED
    BY <1>2, <1>5, HostKept

LEMMA HostInitializeOwns ==
    ASSUME NEW d, HostOwns(t, acc), t = NoOps, HostInitialize(d)
    PROVE  HostOwns(t', acc')
  <1>1. PICK o \in initialize(NoBackend, d) : Host(o.v)
    BY NoOpsIdle DEF HostInitialize
  <1>2. acc' = acc /\ t' = [t EXCEPT !.vk = o.v]
    BY <1>1 DEF HostInitialize, Host
  <1>3. /\ Holds(o.v, o.v.held) /\ o.v.twice = {} /\ DOMAIN o.v.buffers = {}
        /\ \A h \in o.v.held : h[2] = "backend"
    BY BackendStarts
  <1> DEFINE u == [t EXCEPT !.vk = o.v]
  <1>4. Idle(u) /\ u.vk = o.v
    BY IdleOn DEF HostOwns
  <1>5. DOMAIN t.vk.buffers = {}
    BY NoOpsIdle DEF Bare
  <1> HIDE DEF u
  <1>6. HostOwns(u, acc)
    BY <1>3, <1>4, <1>5 DEF HostOwns
  <1> QED
    BY <1>2, <1>6 DEF u

LEMMA DestroyHostOwns ==
    ASSUME HostOwns(t, acc), DestroyHost
    PROVE  Idle(t') /\ Bare(t'.vk)
  <1> DEFINE ids == {acc.buffers[k].id : k \in DOMAIN acc.buffers}
             R == t.vk.held
             w == destroyBuffers(t.vk, ids)
             z == shutdown(w)
  <1>1. t' = [t EXCEPT !.vk = z]
    BY DEF DestroyHost
  <1>2. Holds(t.vk, R) /\ Idle(t) /\ DOMAIN t.vk.buffers = ids /\ t.vk.twice \subseteq Layouts
    BY DEF HostOwns
  <1> HIDE DEF R, ids
  <1>3. NowBuffers(t.vk, w, R, DOMAIN t.vk.buffers \ ids)
    BY <1>2, DestroyedObjects
  <1> HIDE DEF w
  <1>4. ObjectsOf(w) = {} /\ w.held = R /\ w.live = R /\ w.twice = t.vk.twice /\ BackendOK(w)
    BY <1>2, <1>3 DEF NowBuffers, Holds, ObjectsOf, R
  <1>5. /\ BackendOK(z) /\ z.held = {} /\ DOMAIN z.buffers = {}
        /\ z.live = w.live \ (w.held \cup ObjectsOf(w)) /\ z.twice = w.twice \cup ((w.held \cup ObjectsOf(w)) \ w.live)
    BY <1>4, ShutdownObjects
  <1> HIDE DEF z
  <1>6. Bare(z)
    BY <1>2, <1>4, <1>5 DEF Bare
  <1> QED
    BY <1>1, <1>2, <1>6, IdleOn

-----------------------------------------------------------------------------
(* The invariant.                                                           *)

LEMMA NoAccOwns ==
    HostOwns(NoOps, NoAcc)
  <1> DEFINE none == <<>>
  <1>1. NoAcc \in [buffers : {none}, used : {0}]
    BY DEF NoAcc
  <1>2. DOMAIN none = {}
    OBVIOUS
  <1> HIDE DEF none
  <1>3. NoAcc \in [buffers : {NoAcc.buffers}, used : {NoAcc.used}] /\ DOMAIN NoAcc.buffers = {} /\ NoAcc.used = 0
    BY <1>1, <1>2
  <1>4. Used(NoAcc.buffers) = 0
    BY <1>3, UsedNothing
  <1>5. Holds(NoOps.vk, NoOps.vk.held)
    BY NoOpsIdle DEF Owns, Idle, Members
  <1> QED
    BY <1>3, <1>4, <1>5, NoOpsIdle DEF HostOwns, Bare

\* Nothing is asked of a backend before it is initialized.
LEMMA HostTried ==
    ASSUME HostOwns(t, acc), t = NoOps
    PROVE  ~t.vk.available /\ DOMAIN acc.buffers = {}
  <1>1. ~NoBackend.available /\ DOMAIN NoOps.vk.buffers = {} /\ NoOps.vk = NoBackend
    BY NoOpsIdle DEF NoBackend, Bare
  <1> QED
    BY <1>1 DEF HostOwns

\* A step of the host's.
LEMMA HostStays ==
    ASSUME ClientInv, OwnInv, client = "host", NEW v, Host(v), HostOwns(t', acc'), tried'
    PROVE  OwnInv'
  <1>1. client' = client /\ is_ready' = is_ready /\ loading' = loading
    BY DEF Host
  <1>2. is_ready' = {} /\ loading' = {}
    BY <1>1 DEF ClientInv
  <1> QED
    BY <1>1, <1>2 DEF OwnInv

LEMMA OperationOwns ==
    ASSUME ClientInv, OwnInv, Operation
    PROVE  OwnInv'
  <1>1. PICK m \in is_ready :
          /\ call.at \in DOMAIN forward_token(m)
          /\ \E o \in Outcomes(forward_token(m)[call.at]) : t' = o.t
    BY DEF Operation
  <1>2. PICK o \in Outcomes(forward_token(m)[call.at]) : t' = o.t
    BY <1>1
  <1>3. client' = client /\ is_ready' = is_ready /\ loading' = loading /\ tried' = tried /\ acc' = acc
    BY DEF Operation
  <1>4. client = "adapter" /\ tried /\ m \in ModelRecords
    BY <1>1 DEF ClientInv, Supply
  <1>5. Runs(t)
    BY <1>1, <1>4 DEF OwnInv, Owns, Runs, Begun
  <1> DEFINE x == forward_token(m)[call.at]
  <1>6. Supplied(m, x)
    BY <1>1, <1>4, OperationSupplied
  <1> HIDE DEF x
  <1>7. o \in Outcomes(x)
    BY <1>2 DEF x
  <1>8. Runs(o.t)
    <2>1. CASE x.op = "embed" \/ x.op = "attend"
      <3>1. o.t = t
        BY <1>7, <2>1 DEF Outcomes
      <3> QED
        BY <1>5, <3>1
    <2>2. CASE x.op = "rmsnorm"
      <3>1. o \in rmsnorm(t, x.w, x.m) /\ x.m \in Nat
        BY <1>6, <1>7, <2>2 DEF Outcomes, Supplied
      <3> QED
        BY <1>5, <3>1, RmsnormOwns
    <2>3. CASE x.op = "matvec"
      <3>1. o \in matvecHost(t, x.w, x.m, x.k) /\ x.m \in Nat /\ x.k \in Nat
        BY <1>6, <1>7, <2>3 DEF Outcomes, Supplied
      <3> QED
        BY <1>5, <3>1, MatvecHostOwns
    <2>4. CASE x.op = "elemwise"
      <3>1. o \in elemwise(t, x.m) /\ x.m \in Nat
        BY <1>6, <1>7, <2>4 DEF Outcomes, Supplied
      <3> QED
        BY <1>5, <3>1, ElemwiseOwns
    <2> QED
      BY <1>6, <2>1, <2>2, <2>3, <2>4 DEF Supplied
  <1>9. Owns(t') /\ t'.ready
    BY <1>2, <1>8 DEF Runs, Begun
  <1> QED
    BY <1>3, <1>4, <1>9 DEF OwnInv

LEMMA UploadWeightOwns ==
    ASSUME ClientInv, OwnInv, UploadWeight
    PROVE  OwnInv'
  <1>1. PICK x \in loading :
          /\ x.next \in DOMAIN Weights(x.model)
          /\ \E o \in uploadTensor(t, Weights(x.model)[x.next].name, Weights(x.model)[x.next].n) :
                \/ o.ok /\ t' = o.t /\ UNCHANGED is_ready
                \/ ~o.ok /\ t' = opsShutdown(o.t) /\ loading' = {} /\ is_ready' = {}
    BY DEF UploadWeight
  <1>2. client' = client /\ tried' = tried /\ acc' = acc
    BY DEF UploadWeight
  <1>3. client = "adapter" /\ tried /\ x.model \in ModelRecords
    BY <1>1 DEF ClientInv, Supply
  <1>4. Runs(t)
    BY <1>1, <1>3 DEF OwnInv, Owns, Runs, Begun
  <1> DEFINE w == Weights(x.model)[x.next]
             name == w.name
             n == w.n
  <1>5. n \in Nat
    BY <1>1, <1>3, WeightSize
  <1>6. PICK o \in uploadTensor(t, name, n) :
          \/ o.ok /\ t' = o.t /\ UNCHANGED is_ready
          \/ ~o.ok /\ t' = opsShutdown(o.t) /\ loading' = {} /\ is_ready' = {}
    BY <1>1
  <1> HIDE DEF name, n
  <1>7. Runs(o.t)
    BY <1>4, <1>5, <1>6, UploadTensorOwns
  <1>8. CASE o.ok /\ t' = o.t /\ UNCHANGED is_ready
    BY <1>2, <1>3, <1>7, <1>8 DEF OwnInv, Runs, Begun
  <1>9. CASE ~o.ok /\ t' = opsShutdown(o.t) /\ loading' = {} /\ is_ready' = {}
    <2>1. Owns(t')
      BY <1>7, <1>9, BegunLeaves, OpsShutdownBare DEF Runs
    <2> QED
      BY <1>2, <1>3, <1>9, <2>1 DEF OwnInv
  <1> QED
    BY <1>6, <1>8, <1>9

LEMMA InitializeOwns ==
    ASSUME NEW d, NEW m, ClientInv, OwnInv, InitializeModel(d, m)
    PROVE  OwnInv'
  <1>1. /\ client = "adapter" /\ client' = client /\ loading = {} /\ tried' /\ acc' = acc
        /\ ~tried \/ is_ready # {}
    BY DEF InitializeModel
  <1>2. PICK o \in opsInitialize(t, d) :
          /\ o.ok
          /\ \/ t' = opsShutdown(o.t) /\ is_ready' = {} /\ loading' = loading
             \/ t' = o.t
    BY DEF InitializeModel
  <1>3. t = NoOps \/ (Owns(t) /\ t.ready)
    BY <1>1 DEF OwnInv
  <1>4. Owns(o.t) /\ o.t.ready
    BY <1>2, <1>3, OpsInitializeOwns
  <1>5. CASE t' = o.t
    BY <1>1, <1>4, <1>5 DEF OwnInv
  <1>6. CASE t' = opsShutdown(o.t) /\ is_ready' = {} /\ loading' = loading
    <2>1. Begun(o.t)
      BY <1>4 DEF Begun, Owns
    <2>2. Owns(t')
      BY <1>6, <2>1, BegunLeaves, OpsShutdownBare
    <2> QED
      BY <1>1, <1>6, <2>2 DEF OwnInv
  <1> QED
    BY <1>2, <1>5, <1>6

LEMMA OwnStep ==
    ASSUME ClientInv, OwnInv, [ClientNext]_clientVars
    PROVE  OwnInv'
  <1>0. CASE UNCHANGED clientVars
    BY <1>0 DEF clientVars, OwnInv
  <1>1. ASSUME NEW who \in {"adapter", "host"}, Construct(who) PROVE OwnInv'
    <2>1. /\ t' = NoOps /\ acc' = NoAcc /\ client' = who /\ is_ready' = is_ready /\ loading' = loading
          /\ client = "gone"
      BY <1>1 DEF Construct
    <2>2. is_ready' = {} /\ loading' = {}
      BY <2>1 DEF ClientInv
    <2> QED
      BY <2>1, <2>2, NoOpsIdle, NoAccOwns DEF OwnInv
  <1>2. ASSUME NEW d, InitializeFails(d) PROVE OwnInv'
    <2>1. /\ client = "adapter" /\ ~tried /\ is_ready' = is_ready /\ loading' = loading /\ client' = client
          /\ tried' /\ acc' = acc
      BY <1>2 DEF InitializeFails
    <2>2. PICK o \in opsInitialize(t, d) : t' = o.t
      BY <1>2 DEF InitializeFails
    <2>3. is_ready' = {} /\ loading' = {} /\ t = NoOps
      BY <2>1 DEF ClientInv, OwnInv
    <2>4. Owns(t')
      BY <2>2, <2>3, OpsInitializeOwns
    <2> QED
      BY <2>1, <2>3, <2>4 DEF OwnInv
  <1>3. ASSUME NEW d, HostInitialize(d) PROVE OwnInv'
    <2>1. client = "host" /\ ~tried /\ tried' /\ \E v : Host(v)
      BY <1>3 DEF HostInitialize
    <2>2. HostOwns(t, acc) /\ t = NoOps
      BY <2>1 DEF OwnInv
    <2>3. HostOwns(t', acc')
      BY <1>3, <2>2, HostInitializeOwns
    <2> QED
      BY <2>1, <2>3, HostStays
  <1>4. ASSUME NEW d, NEW m, InitializeModel(d, m) PROVE OwnInv'
    BY <1>4, InitializeOwns
  <1>5. ASSUME NEW p, run_stream(p) PROVE OwnInv'
    BY <1>5 DEF run_stream, OwnInv
  <1>6. CASE InitializeDone
    <2>1. loading # {} /\ loading' = {} /\ client' = client /\ t' = t /\ tried' = tried /\ acc' = acc
      BY <1>6 DEF InitializeDone
    <2> QED
      BY <2>1 DEF OwnInv
  <1>7. CASE Token
    <2>1. /\ client' = client /\ t' = t /\ is_ready' = is_ready /\ loading' = loading /\ tried' = tried
          /\ acc' = acc
      BY <1>7 DEF Token
    <2> QED
      BY <2>1 DEF OwnInv
  <1>8. CASE DestroyAdapter
    <2>1. /\ client = "adapter" /\ loading' = {} /\ client' = "gone" /\ t' = opsShutdown(t) /\ is_ready' = {}
          /\ acc' = acc
      BY <1>8 DEF DestroyAdapter
    <2>2. Owns(t) /\ acc' = NoAcc
      BY <2>1 DEF OwnInv
    <2>3. Leaves(t) \/ (Owns(t) /\ ~t.device)
      BY <2>2, BegunLeaves DEF Begun
    <2>4. Idle(t') /\ Bare(t'.vk)
      BY <2>1, <2>3, OpsShutdownBare
    <2> QED
      BY <2>1, <2>2, <2>4 DEF OwnInv
  <1>9. ASSUME NEW key \in 1..MaxHostId, NEW n \in Sizes, allocate(key, n) PROVE OwnInv'
    <2>1. client = "host" /\ t.vk.available /\ tried' = tried /\ \E v : Host(v)
      BY <1>9 DEF allocate
    <2>2. HostOwns(t, acc) /\ tried
      BY <2>1, HostTried DEF OwnInv
    <2>3. HostOwns(t', acc')
      BY <1>9, <2>2, AllocateOwns, HostAssumption
    <2> QED
      BY <2>1, <2>2, <2>3, HostStays
  <1>10. ASSUME NEW n \in Sizes, VectorAddBenchmark(n) PROVE OwnInv'
    <2>1. client = "host" /\ t.vk.available /\ tried' = tried /\ \E v : Host(v)
      BY <1>10 DEF VectorAddBenchmark
    <2>2. HostOwns(t, acc) /\ tried
      BY <2>1, HostTried DEF OwnInv
    <2>3. HostOwns(t', acc')
      BY <1>10, <2>2, BenchmarkOwns, HostAssumption
    <2> QED
      BY <2>1, <2>2, <2>3, HostStays
  <1>11. ASSUME NEW k, release(k) PROVE OwnInv'
    <2>1. client = "host" /\ k \in DOMAIN acc.buffers /\ tried' = tried /\ \E v : Host(v)
      BY <1>11 DEF release
    <2>2. HostOwns(t, acc) /\ tried
      BY <2>1, HostTried DEF OwnInv
    <2>3. HostOwns(t', acc')
      BY <1>11, <2>2, ReleaseOwns
    <2> QED
      BY <2>1, <2>2, <2>3, HostStays
  <1>12. ASSUME NEW k, NEW n, upload(k, n) PROVE OwnInv'
    <2>1. client = "host" /\ t.vk.available /\ tried' = tried /\ \E v : Host(v)
      BY <1>12 DEF upload
    <2>2. HostOwns(t, acc) /\ tried
      BY <2>1, HostTried DEF OwnInv
    <2>3. HostOwns(t', acc')
      BY <1>12, <2>2, HostUploadOwns
    <2> QED
      BY <2>1, <2>2, <2>3, HostStays
  <1>13. CASE DestroyHost
    <2>1. client = "host" /\ client' = "gone" /\ is_ready' = is_ready /\ loading' = loading /\ acc' = NoAcc
      BY <1>13 DEF DestroyHost
    <2>2. HostOwns(t, acc) /\ is_ready' = {} /\ loading' = {}
      BY <2>1 DEF OwnInv, ClientInv
    <2>3. Idle(t') /\ Bare(t'.vk)
      BY <1>13, <2>2, DestroyHostOwns
    <2> QED
      BY <2>1, <2>2, <2>3 DEF OwnInv
  <1>14. CASE ClientNext
    BY <1>1, <1>2, <1>3, <1>4, <1>5, <1>6, <1>7, <1>8, <1>9, <1>10, <1>11, <1>12, <1>13, <1>14,
       OperationOwns, UploadWeightOwns DEF ClientNext
  <1> QED
    BY <1>0, <1>14

LEMMA OwnedIsNamed ==
    ASSUME OwnInv
    PROVE  HandlesOwned
  <1> DEFINE hosted == {acc.buffers[k].id : k \in DOMAIN acc.buffers}
  <1>1. NoAcc.buffers = <<>> /\ NoAcc.used = 0
    BY DEF NoAcc
  <1>2. DOMAIN NoAcc.buffers = {}
    BY <1>1
  <1>3. Used(NoAcc.buffers) = 0
    BY <1>2, UsedNothing
  <1>4. /\ t.vk.live = t.held \cup t.vk.held \cup ObjectsOf(t.vk)
        /\ DOMAIN t.vk.buffers = (Ids(t) \cup hosted) \ {0}
        /\ acc.used = Used(acc.buffers) /\ t.vk.twice \subseteq Layouts
        /\ t.tmp = [s \in TmpSlots |-> t.tmp[s]]
        /\ client = "gone" => t.vk.live = {}
    <2>1. CASE client = "gone"
      <3>1. Idle(t) /\ Bare(t.vk) /\ acc = NoAcc
        BY <2>1 DEF OwnInv
      <3>2. ObjectsOf(t.vk) = {} /\ hosted = {}
        BY <1>2, <3>1 DEF Bare, ObjectsOf
      <3> QED
        BY <1>1, <1>3, <3>1, <3>2 DEF Idle, Bare
    <2>2. CASE client = "adapter"
      <3>1. Owns(t) /\ acc = NoAcc
        BY <2>2 DEF OwnInv
      <3>2. hosted = {}
        BY <1>2, <3>1
      <3> QED
        BY <1>1, <1>3, <2>2, <3>1, <3>2 DEF Owns, Holds, Members
    <2>3. CASE client = "host"
      <3>1. HostOwns(t, acc)
        BY <2>3 DEF OwnInv
      <3>2. 0 \notin DOMAIN t.vk.buffers
        BY <3>1 DEF HostOwns, Holds, BackendOK
      <3> QED
        BY <2>3, <3>1, <3>2 DEF HostOwns, Idle, Holds
    <2> QED
      BY <2>1, <2>2, <2>3 DEF OwnInv
  <1>5. DOMAIN t.tmp = TmpSlots
    BY <1>4
  <1>6. {t.tensors[x].id : x \in DOMAIN t.tensors} \cup {t.tmp[s].id : s \in DOMAIN t.tmp} \cup hosted = Ids(t) \cup hosted
    BY <1>5 DEF Ids
  <1> HIDE DEF hosted
  <1>7. t.vk.live = t.held \cup t.vk.held \cup UNION {BufferObjects(i) : i \in DOMAIN t.vk.buffers}
    BY <1>4 DEF ObjectsOf
  <1> QED
    BY <1>4, <1>6, <1>7 DEF HandlesOwned, hosted

\* VulkanBackend, VulkanTensorOps and VulkanAcceleratorMemory: for every model,
\* prompt and list of devices, whatever call of Vulkan fails and at whatever
\* place, between two operations exactly the objects exist that members and
\* buffers_ name, every buffer has one owner, used_ is the sum of what the host
\* has allocated, and a client that is gone leaves nothing.
THEOREM ObjectsHaveOwners == ClientSpec => []HandlesOwned
  <1>1. ClientInit => ClientInv /\ OwnInv
    <2>1. ASSUME ClientInit PROVE OwnInv
      BY <2>1, NoOpsIdle DEF ClientInit, OwnInv
    <2> QED
      BY <2>1, ClientStart
  <1>2. ClientInv /\ OwnInv /\ [ClientNext]_clientVars => (ClientInv /\ OwnInv)'
    <2>1. Models \subseteq ModelRecords
      BY ModelsAssumption DEF ModelRecords
    <2> QED
      BY <2>1, ClientStep, OwnStep
  <1>3. ClientInv /\ OwnInv => HandlesOwned
    BY OwnedIsNamed
  <1> QED
    BY <1>1, <1>2, <1>3, PTL DEF ClientSpec
=============================================================================
