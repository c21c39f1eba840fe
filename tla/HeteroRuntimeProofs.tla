-------------------------- MODULE HeteroRuntimeProofs --------------------------
(***************************************************************************)
(* Proofs about HeteroRuntime, for any number of client threads, engine    *)
(* objects, model paths and placements.                                    *)
(*                                                                         *)
(* What an execution relies on is spread over the two locks.  mutex_ is    *)
(* held by the thread whose place in the code says so (ThreadOK), so that  *)
(* engines_ changes only under it.  A request keeps a pointer to the       *)
(* engine it fetched when it has left mutex_ (RequestOK); from then on,    *)
(* only the engine's own lock protects it (EngineOK).  The two meet in     *)
(* EngineOK: an engine has its model loaded exactly while a path leads to  *)
(* it, and it executes exactly while its lock is taken.                    *)
(***************************************************************************)
EXTENDS HeteroRuntime, FiniteSetTheorems, TLAPS

Critical == {"admit", "place", "reload", "create", "unload", "stop"}

Executing == {"stream", "evaluate", "generate"}

Holding == {"wait", "record"} \cup Executing

Places == {"idle", "start", "tracked", "done"} \cup Critical \cup Holding

EngineObjects ==
    [init : BOOLEAN, loaded : BOOLEAN, state : {"DISCOVERED", "READY", "EXECUTING", "RELEASED"}]

\* The variables keep their types: the members of HeteroRuntime, of its
\* engines and of the registry, and where each thread is.
TypeOK ==
    /\ registry \in [Requests -> {"none", "QUEUED", "RUNNING", "CANCELLED", "COMPLETED", "FAILED"}]
    /\ engines \in [Models -> Engines \cup {None}]
    /\ placed \in [Models -> Placements \cup {None}]
    /\ engine \in [Engines -> EngineObjects]
    /\ mutex \in Threads \cup {None}
    /\ engineLock \in [Engines -> Requests \cup {None}]
    /\ pc \in [Threads -> Places] /\ pc[Admin] \notin Holding
    /\ target \in [Threads -> Models]
    /\ tcfg \in [Threads -> Placements \cup {None}]
    /\ held \in [Requests -> Engines \cup {None}]
    /\ streams \subseteq Requests

\* Who is where decides who holds mutex_, and what was found under it stays.
ThreadOK(t) ==
    /\ pc[t] \in Critical <=> mutex = t
    /\ pc[t] \in {"reload", "unload"} => engines[target[t]] # None
    /\ pc[t] = "create" => engines[target[t]] = None
    /\ pc[t] \in {"reload", "create"} => tcfg[t] \in Placements

\* A request has its engine from the first section to the end of the second.
RequestOK(r) ==
    /\ pc[r] \in Holding <=> held[r] # None
    /\ pc[r] \in Executing => engineLock[held[r]] = r
    /\ pc[r] = "stream" => r \in streams
    /\ pc[Admin] = "stop" => pc[r] \in {"idle", "start", "tracked", "done"}
    /\ registry[r] \in {"COMPLETED", "FAILED"} => pc[r] = "done"

Stored(e) == \E m \in Models : engines[m] = e

Referenced(e) == Stored(e) \/ \E r \in Requests : held[r] = e

\* Its model is loaded while a path leads to it; it executes while it is locked.
EngineOK(e) ==
    /\ engine[e].state \in {"READY", "EXECUTING"} <=> Stored(e)
    /\ engine[e].loaded <=> Stored(e)
    /\ Stored(e) => engine[e].init
    /\ engine[e].state = "EXECUTING" <=> engineLock[e] # None
    /\ engineLock[e] # None => held[engineLock[e]] = e /\ pc[engineLock[e]] \in Executing
    /\ ~Referenced(e) => engine[e] = NewEngine

\* Different paths have different engines, and their placements are recorded.
StoreOK ==
    /\ \A m \in Models : engines[m] = None <=> placed[m] = None
    /\ \A m, n \in Models : engines[m] # None /\ engines[m] = engines[n] => m = n

Counted == {e \in Engines : engine[e].state \in {"READY", "EXECUTING"}}

Streaming == {r \in streams : pc[r] \in {"evaluate", "generate"}}

\* s_backendRefCount counts the loaded engines and the engines of streams.
CountOK == backendRefs = Cardinality(Counted) + Cardinality(Streaming)

IInv ==
    /\ TypeOK /\ StoreOK /\ CountOK
    /\ \A t \in Threads : ThreadOK(t)
    /\ \A r \in Requests : RequestOK(r)
    /\ \A e \in Engines : EngineOK(e)

USE RuntimeAssumption

-----------------------------------------------------------------------------
(* What a step leaves alone.                                                *)

\* One thread goes to another place.
LEMMA GotoFacts ==
    ASSUME TypeOK, NEW t \in Threads, NEW l \in Places, Goto(t, l)
    PROVE  /\ pc' \in [Threads -> Places] /\ pc'[t] = l
           /\ \A u \in Threads \ {t} : pc'[u] = pc[u]
  BY DEF TypeOK, Goto

\* The constants are what they should be.
LEMMA Constants ==
    /\ Admin \in Threads /\ None \notin Threads /\ None \notin Engines /\ None \notin Placements
    /\ Requests \subseteq Threads /\ Admin \notin Requests
    /\ \A t \in Threads : t # Admin => t \in Requests
  BY DEF Threads

\* A thread that does not hold mutex_ does not depend on who does.
LEMMA OtherThreads ==
    ASSUME IInv, NEW t \in Threads,
           \A u \in Threads \ {t} : pc'[u] = pc[u] /\ target'[u] = target[u] /\ tcfg'[u] = tcfg[u],
           \/ UNCHANGED <<mutex, engines>>
           \/ mutex = None /\ mutex' = t /\ UNCHANGED engines
           \/ mutex = t /\ mutex' \in {t, None}
    PROVE  \A u \in Threads \ {t} : ThreadOK(u)'
  <1> TAKE u \in Threads \ {t}
  <1>1. ThreadOK(u) BY DEF IInv
  <1>2. CASE UNCHANGED <<mutex, engines>> BY <1>1, <1>2 DEF ThreadOK
  <1>3. CASE ~UNCHANGED <<mutex, engines>>
    <2>1. mutex # u /\ mutex' # u BY <1>3, Constants
    <2>2. pc[u] \notin Critical BY <1>1, <2>1 DEF ThreadOK
    <2> QED BY <2>1, <2>2 DEF ThreadOK, Critical
  <1> QED BY <1>2, <1>3

\* A request does not depend on what the others do, as long as they leave it
\* the lock it holds.
LEMMA OtherRequests ==
    ASSUME IInv, NEW t \in Threads,
           \A u \in Threads \ {t} : pc'[u] = pc[u],
           \A q \in Requests \ {t} :
               /\ held'[q] = held[q]
               /\ registry'[q] \in {"COMPLETED", "FAILED"} => registry[q] = registry'[q]
               /\ pc[q] \in Executing => engineLock'[held[q]] = q,
           streams \subseteq streams',
           pc'[Admin] = "stop" => pc[Admin] = "stop" \/ Quiet
    PROVE  \A q \in Requests \ {t} : RequestOK(q)'
  <1> TAKE q \in Requests \ {t}
  <1>1. RequestOK(q) /\ pc'[q] = pc[q] BY Constants DEF IInv
  <1>2. pc'[Admin] = "stop" => pc[q] \in {"idle", "start", "tracked", "done"}
    BY <1>1 DEF RequestOK, Quiet
  <1> QED BY <1>1, <1>2 DEF RequestOK

\* Cardinalities of what is counted.
LEMMA CountFacts ==
    ASSUME TypeOK
    PROVE  /\ IsFiniteSet(Counted) /\ Cardinality(Counted) \in Nat
           /\ IsFiniteSet(Streaming) /\ Cardinality(Streaming) \in Nat
  <1>1. Counted \in SUBSET Engines /\ Streaming \in SUBSET Requests
    BY DEF TypeOK, Counted, Streaming
  <1>2. IsFiniteSet(Counted) /\ IsFiniteSet(Streaming) BY <1>1, FS_Subset
  <1> QED BY <1>2, FS_CardinalityType

\* A step of a thread that has no engine and touches none.
LEMMA LightStep ==
    ASSUME IInv, TypeOK', NEW t \in Threads,
           UNCHANGED <<engines, placed, engine, engineLock, held, backendRefs>>,
           \A u \in Threads \ {t} : pc'[u] = pc[u] /\ target'[u] = target[u] /\ tcfg'[u] = tcfg[u],
           \/ UNCHANGED mutex
           \/ mutex = None /\ mutex' = t
           \/ mutex = t /\ mutex' \in {t, None},
           ThreadOK(t)',
           pc[t] \notin Holding, pc'[t] \notin Holding,
           streams \subseteq streams', streams' \subseteq streams \cup {t},
           \A q \in Requests : registry'[q] \in {"COMPLETED", "FAILED"} => registry[q] = registry'[q],
           t \in Requests /\ registry'[t] \in {"COMPLETED", "FAILED"} => pc'[t] = "done",
           t \in Requests /\ pc[Admin] = "stop" => pc'[t] \in {"idle", "start", "tracked", "done"},
           pc'[Admin] = "stop" => pc[Admin] = "stop" \/ Quiet
    PROVE  IInv'
  <1>1. StoreOK' BY DEF IInv, StoreOK
  <1>2. CountOK'
    <2>1. Counted' = Counted BY DEF Counted
    <2>2. \A r \in Requests : pc[r] \in {"evaluate", "generate"} <=> pc'[r] \in {"evaluate", "generate"}
      BY Constants DEF Holding, Executing
    <2>3. \A r \in streams' : r \notin streams => pc'[r] \notin {"evaluate", "generate"}
      BY DEF Holding, Executing
    <2>4. Streaming' = Streaming BY <2>2, <2>3 DEF Streaming, IInv, TypeOK
    <2> QED BY <2>1, <2>4 DEF IInv, CountOK
  <1>3. \A u \in Threads : ThreadOK(u)' BY OtherThreads
  <1>4. \A q \in Requests \ {t} : RequestOK(q)'
    <2>1. \A q \in Requests : pc[q] \in Executing => engineLock[held[q]] = q BY DEF IInv, RequestOK
    <2> QED BY <2>1, OtherRequests
  <1>5. ASSUME t \in Requests PROVE RequestOK(t)'
    <2>1. RequestOK(t) /\ t # Admin BY <1>5, Constants DEF IInv
    <2>2. held'[t] = None BY <2>1 DEF RequestOK
    <2>3. pc'[Admin] = pc[Admin] BY <2>1, Constants
    <2>4. pc'[t] \notin Executing /\ pc'[t] # "stream" BY DEF Holding, Executing
    <2>5. pc'[Admin] = "stop" => pc'[t] \in {"idle", "start", "tracked", "done"} BY <1>5, <2>3
    <2> QED BY <1>5, <2>2, <2>4, <2>5 DEF RequestOK
  <1>6. ASSUME NEW e \in Engines PROVE EngineOK(e)'
    <2>1. EngineOK(e) BY DEF IInv
    <2>2. Stored(e)' = Stored(e) /\ Referenced(e)' = Referenced(e) BY DEF Stored, Referenced
    <2>3. engineLock[e] # None => pc'[engineLock[e]] = pc[engineLock[e]]
      <3>1. engineLock[e] # None => engineLock[e] \in Threads BY Constants DEF IInv, TypeOK
      <3>2. engineLock[e] # None => engineLock[e] # t BY <2>1 DEF EngineOK, Holding
      <3> QED BY <3>1, <3>2
    <2> QED BY <2>1, <2>2, <2>3 DEF EngineOK
  <1> QED BY <1>1, <1>2, <1>3, <1>4, <1>5, <1>6 DEF IInv

-----------------------------------------------------------------------------
(* Steps of threads that have no engine.                                    *)

\* At the start there is no engine.
LEMMA InitIInv == Init => IInv
  <1> SUFFICES ASSUME Init PROVE IInv OBVIOUS
  <1>1. \A m \in Models : engines[m] = None /\ placed[m] = None BY DEF Init
  <1>2. \A e \in Engines : engine[e] = NewEngine /\ engineLock[e] = None BY DEF Init
  <1>3. \A t \in Threads : pc[t] = "idle" BY DEF Init
  <1>4. \A r \in Requests : held[r] = None /\ registry[r] = "none" BY DEF Init
  <1>5. NewEngine \in EngineObjects /\ NewEngine.state = "DISCOVERED" /\ ~NewEngine.loaded
    BY DEF NewEngine, EngineObjects
  <1>6. TypeOK
    <2>1. engine \in [Engines -> EngineObjects] BY <1>5 DEF Init
    <2>2. pc \in [Threads -> Places] /\ pc[Admin] \notin Holding
      BY Constants DEF Init, Places, Holding, Executing
    <2> QED BY <2>1, <2>2 DEF Init, TypeOK
  <1>7. StoreOK BY <1>1 DEF StoreOK
  <1>8. CountOK
    <2>1. Counted = {} /\ Streaming = {} BY <1>2, <1>5 DEF Counted, Streaming, Init
    <2> QED BY <2>1, FS_EmptySet DEF CountOK, Init
  <1>9. \A t \in Threads : ThreadOK(t)
    <2>1. mutex = None BY DEF Init
    <2> QED BY <1>3, <2>1, Constants DEF ThreadOK, Critical
  <1>10. \A r \in Requests : RequestOK(r)
    BY <1>3, <1>4, Constants DEF RequestOK, Holding, Executing
  <1>11. \A e \in Engines : EngineOK(e)
    <2> TAKE e \in Engines
    <2>1. ~Stored(e) BY <1>1, Constants DEF Stored
    <2> QED BY <1>2, <1>5, <2>1 DEF EngineOK
  <1> QED BY <1>6, <1>7, <1>8, <1>9, <1>10, <1>11 DEF IInv

\* A client calls generateWorkload, generate or registerWorkload.
LEMMA CallStep ==
    ASSUME IInv, NEW r \in Requests, NEW m \in Models,
           generateWorkload(r, m) \/ generate(r, m) \/ registerWorkload(r)
    PROVE  IInv'
  <1>1. /\ UNCHANGED <<engines, placed, engine, engineLock, held, mutex, tcfg, backendRefs>>
        /\ pc[r] = "idle"
    BY DEF generateWorkload, generate, registerWorkload, llama
  <1>2. PICK l \in {"start", "tracked"} : Goto(r, l)
    BY DEF generateWorkload, generate, registerWorkload
  <1>3. /\ pc' \in [Threads -> Places] /\ pc'[r] = l
        /\ \A u \in Threads \ {r} : pc'[u] = pc[u]
    BY <1>2, GotoFacts, Constants DEF IInv, Places
  <1>4. /\ target' \in [Threads -> Models] /\ \A u \in Threads \ {r} : target'[u] = target[u]
    BY DEF generateWorkload, generate, registerWorkload, IInv, TypeOK
  <1>5. streams \subseteq streams' /\ streams' \subseteq streams \cup {r}
    BY DEF generateWorkload, generate, registerWorkload, llama
  <1>6. registry' = registry \/ registry' = [registry EXCEPT ![r] = "QUEUED"]
    BY DEF generateWorkload, generate, registerWorkload
  <1>7. RequestOK(r) /\ TypeOK BY DEF IInv
  <1>8. registry[r] \notin {"COMPLETED", "FAILED"} BY <1>1, <1>7 DEF RequestOK
  <1>9. TypeOK'
    BY <1>1, <1>3, <1>4, <1>5, <1>6, <1>7, Constants DEF TypeOK
  <1>10. ThreadOK(r)'
    <2>1. ThreadOK(r) BY Constants DEF IInv
    <2> QED BY <1>1, <1>3, <2>1 DEF ThreadOK, Critical
  <1>11. pc[r] \notin Holding /\ pc'[r] \notin Holding BY <1>1, <1>3 DEF Holding, Executing
  <1>12. \A q \in Requests : registry'[q] \in {"COMPLETED", "FAILED"} => registry[q] = registry'[q]
    BY <1>6, <1>7 DEF TypeOK
  <1>13. registry'[r] \notin {"COMPLETED", "FAILED"} BY <1>6, <1>7, <1>8 DEF TypeOK
  <1>14. pc'[Admin] = pc[Admin] BY <1>3, Constants
  <1> QED BY <1>1, <1>3, <1>4, <1>5, <1>9, <1>10, <1>11, <1>12, <1>13, <1>14, LightStep, Constants

\* cancelWorkload and initialize only write the registry.
LEMMA EntryStep ==
    ASSUME IInv, initialize \/ \E r \in Requests : cancelWorkload(r)
    PROVE  IInv'
  <1>1. UNCHANGED <<engines, placed, engine, engineLock, held, mutex, pc, target, tcfg,
                    streams, backendRefs>>
    BY DEF initialize, cancelWorkload, llama
  <1>2. TypeOK /\ ThreadOK(Admin) BY Constants DEF IInv
  <1>3. /\ registry' \in [Requests -> {"none", "QUEUED", "RUNNING", "CANCELLED", "COMPLETED", "FAILED"}]
        /\ \A q \in Requests : registry'[q] \in {"COMPLETED", "FAILED"} => registry[q] = registry'[q]
    BY <1>2 DEF initialize, cancelWorkload, TypeOK
  <1>4. TypeOK' BY <1>1, <1>2, <1>3 DEF TypeOK
  <1>5. ThreadOK(Admin)' BY <1>1, <1>2 DEF ThreadOK
  <1>6. pc[Admin] \notin Holding BY <1>2 DEF TypeOK
  <1> QED BY <1>1, <1>3, <1>4, <1>5, <1>6, LightStep, Constants

\* doGenerate returns early, or enters its first section.
LEMMA EnterStep ==
    ASSUME IInv, NEW r \in Requests, Reject(r) \/ Enter(r)
    PROVE  IInv'
  <1>1. /\ UNCHANGED <<engines, placed, engine, engineLock, held, tcfg, target, registry,
                       streams, backendRefs>>
        /\ pc[r] = "start" /\ mutex = None
    BY DEF Reject, Enter, llama
  <1>2. PICK l \in {"admit", "done"} :
           Goto(r, l) /\ (l = "done" => UNCHANGED mutex) /\ (l = "admit" => mutex' = r)
    BY DEF Reject, Enter, ReturnWith
  <1>3. /\ pc' \in [Threads -> Places] /\ pc'[r] = l
        /\ \A u \in Threads \ {r} : pc'[u] = pc[u]
    BY <1>2, GotoFacts, Constants DEF IInv, Places, Critical
  <1>4. RequestOK(r) /\ TypeOK BY DEF IInv
  <1>5. registry[r] \notin {"COMPLETED", "FAILED"} BY <1>1, <1>4 DEF RequestOK
  <1>6. pc'[Admin] = pc[Admin] BY <1>3, Constants
  <1>7. TypeOK' BY <1>1, <1>2, <1>3, <1>4, <1>6, Constants DEF TypeOK
  <1>8. ThreadOK(r)' BY <1>1, <1>2, <1>3, Constants DEF ThreadOK, Critical
  <1>9. pc[r] \notin Holding /\ pc'[r] \notin Holding BY <1>1, <1>3 DEF Holding, Executing
  <1>10. pc[Admin] # "stop"
    <2>1. ThreadOK(Admin) BY Constants DEF IInv
    <2> QED BY <1>1, <2>1, Constants DEF ThreadOK, Critical
  <1> QED BY <1>1, <1>2, <1>3, <1>5, <1>6, <1>7, <1>8, <1>9, <1>10, LightStep, Constants

\* setRunning.
LEMMA AdmitStep ==
    ASSUME IInv, NEW r \in Requests, Admit(r)
    PROVE  IInv'
  <1>1. /\ UNCHANGED <<engines, placed, engine, engineLock, held, tcfg, target, mutex,
                       streams, backendRefs>>
        /\ pc[r] = "admit" /\ Goto(r, "place")
    BY DEF Admit, llama
  <1>2. /\ pc' \in [Threads -> Places] /\ pc'[r] = "place"
        /\ \A u \in Threads \ {r} : pc'[u] = pc[u]
    BY <1>1, GotoFacts, Constants DEF IInv, Places, Critical
  <1>3. RequestOK(r) /\ TypeOK /\ ThreadOK(r) BY Constants DEF IInv
  <1>4. registry' = registry \/ registry' = [registry EXCEPT ![r] = "RUNNING"]
    BY DEF Admit, SetEntry
  <1>5. registry[r] \notin {"COMPLETED", "FAILED"} BY <1>1, <1>3 DEF RequestOK
  <1>6. pc'[Admin] = pc[Admin] BY <1>2, Constants
  <1>7. TypeOK' BY <1>1, <1>2, <1>3, <1>4, <1>6 DEF TypeOK
  <1>8. ThreadOK(r)' BY <1>1, <1>2, <1>3 DEF ThreadOK, Critical
  <1>9. pc[r] \notin Holding /\ pc'[r] \notin Holding BY <1>1, <1>2 DEF Holding, Executing
  <1>10. \A q \in Requests : registry'[q] \in {"COMPLETED", "FAILED"} => registry[q] = registry'[q]
    BY <1>3, <1>4 DEF TypeOK
  <1>11. registry'[r] \notin {"COMPLETED", "FAILED"} BY <1>3, <1>4, <1>5 DEF TypeOK
  <1>12. pc[Admin] # "stop"
    <2>1. ThreadOK(Admin) BY Constants DEF IInv
    <2> QED BY <1>1, <1>3, <2>1, Constants DEF ThreadOK, Critical
  <1> QED BY <1>1, <1>2, <1>6, <1>7, <1>8, <1>9, <1>10, <1>11, <1>12, LightStep, Constants

\* An operation of the administrating thread takes mutex_.
LEMMA BeginStep ==
    ASSUME IInv, shutdown \/ \E m \in Models : loadModel(m) \/ unloadModel(m)
    PROVE  IInv'
  <1>1. /\ UNCHANGED <<engines, placed, engine, engineLock, held, tcfg, registry, streams, backendRefs>>
        /\ pc[Admin] = "idle" /\ mutex = None /\ mutex' = Admin
    BY DEF shutdown, loadModel, unloadModel, AdminBegin, llama
  <1>2. TypeOK BY DEF IInv
  <1>3. PICK l \in {"place", "unload", "stop"} :
           /\ Goto(Admin, l) /\ (l = "stop" => Quiet)
           /\ target' \in [Threads -> Models]
           /\ \A u \in Threads \ {Admin} : target'[u] = target[u]
           /\ l = "unload" => engines[target'[Admin]] # None
    <2>1. CASE shutdown BY <1>2, <2>1 DEF shutdown, AdminBegin, TypeOK
    <2>2. ASSUME NEW m \in Models, loadModel(m) PROVE Goto(Admin, "place") /\ target' = [target EXCEPT ![Admin] = m]
      BY <2>2 DEF loadModel, AdminBegin
    <2>3. ASSUME NEW m \in Models, unloadModel(m)
          PROVE  /\ Goto(Admin, "unload") /\ target' = [target EXCEPT ![Admin] = m]
                 /\ engines[m] # None
      BY <2>3 DEF unloadModel, AdminBegin
    <2>4. ASSUME NEW m \in Models, target' = [target EXCEPT ![Admin] = m]
          PROVE  /\ target' \in [Threads -> Models] /\ target'[Admin] = m
                 /\ \A u \in Threads \ {Admin} : target'[u] = target[u]
      BY <1>2, <2>4, Constants DEF TypeOK
    <2> QED BY <2>1, <2>2, <2>3, <2>4
  <1>4. /\ pc' \in [Threads -> Places] /\ pc'[Admin] = l
        /\ \A u \in Threads \ {Admin} : pc'[u] = pc[u]
    BY <1>2, <1>3, GotoFacts, Constants DEF Places, Critical
  <1>5. pc'[Admin] \notin Holding /\ pc[Admin] \notin Holding BY <1>1, <1>4 DEF Holding, Executing
  <1>6. TypeOK' BY <1>1, <1>2, <1>3, <1>4, <1>5, Constants DEF TypeOK
  <1>7. ThreadOK(Admin)' BY <1>1, <1>3, <1>4 DEF ThreadOK, Critical
  <1> QED BY <1>1, <1>3, <1>4, <1>5, <1>6, <1>7, LightStep, Constants

\* The model does not load.
LEMMA FailStep ==
    ASSUME IInv, NEW t \in Threads, CreateFails(t)
    PROVE  IInv'
  <1>1. /\ UNCHANGED <<engines, placed, engine, engineLock, held, target, registry, streams, backendRefs>>
        /\ pc[t] = "create" /\ mutex' = None
    BY DEF CreateFails, llama
  <1>2. TypeOK /\ ThreadOK(t) BY DEF IInv
  <1>3. PICK l \in {"idle", "done"} : Goto(t, l) BY DEF CreateFails, ReturnWith
  <1>4. /\ pc' \in [Threads -> Places] /\ pc'[t] = l
        /\ \A u \in Threads \ {t} : pc'[u] = pc[u]
    BY <1>2, <1>3, GotoFacts DEF Places
  <1>5. pc'[t] \notin Holding /\ pc[t] \notin Holding BY <1>1, <1>4 DEF Holding, Executing
  <1>6. mutex = t BY <1>1, <1>2 DEF ThreadOK, Critical
  <1>7. tcfg' \in [Threads -> Placements \cup {None}] /\ \A u \in Threads \ {t} : tcfg'[u] = tcfg[u]
    BY <1>2 DEF CreateFails, TypeOK
  <1>8. pc'[Admin] \notin Holding BY <1>2, <1>4, <1>5, Constants DEF TypeOK
  <1>9. TypeOK' BY <1>1, <1>2, <1>4, <1>7, <1>8 DEF TypeOK
  <1>10. ThreadOK(t)' BY <1>1, <1>4, Constants DEF ThreadOK, Critical
  <1>11. t \in Requests => registry[t] \notin {"COMPLETED", "FAILED"}
    BY <1>1 DEF IInv, RequestOK
  <1>12. pc'[Admin] # "stop" /\ (t \in Requests => pc[Admin] # "stop")
    <2>1. ThreadOK(Admin) BY Constants DEF IInv
    <2> QED BY <1>4, <1>6, <2>1, Constants DEF ThreadOK, Critical
  <1> QED BY <1>1, <1>4, <1>5, <1>6, <1>7, <1>9, <1>10, <1>11, <1>12, LightStep

\* resolveAndApplyConfig: the model is to be loaded or loaded again, or the
\* engine is fetched.
LEMMA PlaceStep ==
    ASSUME IInv, NEW t \in Threads, Place(t)
    PROVE  IInv'
  <1> DEFINE m == target[t]
  <1>1. /\ UNCHANGED <<engines, placed, engine, engineLock, target, registry, streams, backendRefs>>
        /\ pc[t] = "place"
    BY DEF Place, llama
  <1>2. TypeOK /\ ThreadOK(t) /\ ThreadOK(Admin) BY Constants DEF IInv
  <1>3. m \in Models /\ mutex = t BY <1>1, <1>2 DEF TypeOK, ThreadOK, Critical
  <1>4. t \in Requests => registry[t] \notin {"COMPLETED", "FAILED"} BY <1>1 DEF IInv, RequestOK
  <1>5. pc[Admin] # "stop" BY <1>1, <1>2, <1>3 DEF ThreadOK, Critical
  <1>6. pc[t] \notin Holding BY <1>1 DEF Holding, Executing
  <1>7. ASSUME NEW p \in Placements, NEW l \in {"create", "reload"}, Goto(t, l),
               l = "create" <=> engines[m] = None,
               tcfg' = [tcfg EXCEPT ![t] = p], UNCHANGED <<mutex, held>>
        PROVE  IInv'
    <2>1. /\ pc' \in [Threads -> Places] /\ pc'[t] = l
          /\ \A u \in Threads \ {t} : pc'[u] = pc[u]
      BY <1>2, <1>7, GotoFacts DEF Places, Critical
    <2>2. pc'[t] \notin Holding BY <2>1 DEF Holding, Executing
    <2>3. /\ tcfg' \in [Threads -> Placements \cup {None}] /\ tcfg'[t] = p
          /\ \A u \in Threads \ {t} : tcfg'[u] = tcfg[u]
      BY <1>2, <1>7 DEF TypeOK
    <2>4. pc'[Admin] \notin Holding /\ pc'[Admin] # "stop" BY <1>2, <1>5, <2>1, <2>2, Constants DEF TypeOK
    <2>5. TypeOK' BY <1>1, <1>2, <1>7, <2>1, <2>3, <2>4 DEF TypeOK
    <2>6. ThreadOK(t)' BY <1>1, <1>3, <1>7, <2>1, <2>3 DEF ThreadOK, Critical
    <2> QED BY <1>1, <1>3, <1>4, <1>5, <1>6, <1>7, <2>1, <2>2, <2>3, <2>4, <2>5, <2>6, LightStep
  <1>8. ASSUME t = Admin, mutex' = None, Goto(t, "idle"), UNCHANGED <<tcfg, held>>
        PROVE  IInv'
    <2>1. /\ pc' \in [Threads -> Places] /\ pc'[t] = "idle"
          /\ \A u \in Threads \ {t} : pc'[u] = pc[u]
      BY <1>2, <1>8, GotoFacts DEF Places
    <2>2. pc'[t] \notin Holding BY <2>1 DEF Holding, Executing
    <2>3. TypeOK' BY <1>1, <1>2, <1>8, <2>1, <2>2 DEF TypeOK
    <2>4. ThreadOK(t)' BY <1>8, <2>1, Constants DEF ThreadOK, Critical
    <2> QED BY <1>1, <1>3, <1>6, <1>8, <2>1, <2>2, <2>3, <2>4, LightStep, Constants
  <1>9. ASSUME t # Admin, engines[m] # None, mutex' = None, Goto(t, "wait"),
               held' = [held EXCEPT ![t] = engines[m]], UNCHANGED tcfg
        PROVE  IInv'
    <2>1. t \in Requests /\ engines[m] \in Engines BY <1>2, <1>3, <1>9, Constants DEF TypeOK
    <2>2. /\ pc' \in [Threads -> Places] /\ pc'[t] = "wait"
          /\ \A u \in Threads \ {t} : pc'[u] = pc[u]
      BY <1>2, <1>9, GotoFacts DEF Places, Holding
    <2>3. /\ held' \in [Requests -> Engines \cup {None}] /\ held'[t] = engines[m]
          /\ \A q \in Requests \ {t} : held'[q] = held[q]
      BY <1>2, <1>9, <2>1 DEF TypeOK
    <2>4. pc'[Admin] = pc[Admin] BY <1>9, <2>2, Constants
    <2>5. TypeOK' BY <1>1, <1>2, <1>9, <2>2, <2>3, <2>4 DEF TypeOK
    <2>6. StoreOK' BY <1>1 DEF IInv, StoreOK
    <2>7. CountOK'
      <3>1. Counted' = Counted BY <1>1 DEF Counted
      <3>2. \A r \in Requests : pc[r] \in {"evaluate", "generate"} <=> pc'[r] \in {"evaluate", "generate"}
        BY <1>1, <2>2, Constants
      <3>3. Streaming' = Streaming BY <1>1, <1>2, <3>2 DEF Streaming, TypeOK
      <3> QED BY <1>1, <3>1, <3>3 DEF IInv, CountOK
    <2>8. ThreadOK(t)' BY <1>9, <2>2, Constants DEF ThreadOK, Critical
    <2>9. \A u \in Threads : ThreadOK(u)' BY <1>1, <1>3, <1>9, <2>2, <2>8, OtherThreads
    <2>10. \A q \in Requests \ {t} : RequestOK(q)'
      <3>1. \A q \in Requests : pc[q] \in Executing => engineLock'[held[q]] = q
        BY <1>1 DEF IInv, RequestOK
      <3> QED BY <1>1, <2>2, <2>3, <2>4, <3>1, OtherRequests
    <2>11. RequestOK(t)'
      <3>1. held'[t] # None BY <1>9, <2>3
      <3> QED BY <1>1, <1>4, <1>5, <2>1, <2>2, <2>4, <3>1 DEF RequestOK, Holding, Executing
    <2>12. ASSUME NEW e \in Engines PROVE EngineOK(e)'
      <3>1. EngineOK(e) BY DEF IInv
      <3>2. Stored(e)' <=> Stored(e) BY <1>1 DEF Stored
      <3>3. Referenced(e) => Referenced(e)'
        <4>1. held[t] = None BY <1>6, <2>1 DEF IInv, RequestOK
        <4> QED BY <2>3, <3>2, <4>1, Constants DEF Referenced
      <3>4. engineLock[e] # None =>
               /\ pc'[engineLock[e]] = pc[engineLock[e]] /\ held'[engineLock[e]] = held[engineLock[e]]
        <4>1. engineLock[e] # None => engineLock[e] \in Requests BY <1>2 DEF TypeOK
        <4>2. engineLock[e] # None => engineLock[e] # t BY <1>6, <3>1 DEF EngineOK, Holding
        <4> QED BY <2>2, <2>3, <4>1, <4>2, Constants
      <3> QED BY <1>1, <3>1, <3>2, <3>3, <3>4 DEF EngineOK
    <2> QED BY <2>5, <2>6, <2>7, <2>9, <2>10, <2>11, <2>12 DEF IInv
  <1>10. PICK p \in Placements :
           \/ /\ engines[m] = None /\ Goto(t, "create")
              /\ tcfg' = [tcfg EXCEPT ![t] = p] /\ UNCHANGED <<mutex, held>>
           \/ /\ engines[m] # None /\ Goto(t, "reload")
              /\ tcfg' = [tcfg EXCEPT ![t] = p] /\ UNCHANGED <<mutex, held>>
           \/ /\ engines[m] # None /\ mutex' = None /\ UNCHANGED tcfg
              /\ IF t = Admin THEN Goto(t, "idle") /\ UNCHANGED held
                 ELSE Goto(t, "wait") /\ held' = [held EXCEPT ![t] = engines[m]]
    BY DEF Place
  <1> HIDE DEF m
  <1> QED BY <1>7, <1>8, <1>9, <1>10

-----------------------------------------------------------------------------
(* Loading and unloading, under mutex_.                                     *)

\* unloadModel and shutdown of an engine that does not execute.
LEMMA UnloadFacts ==
    ASSUME TypeOK, NEW e \in Engines, engine[e].state # "EXECUTING",
           NEW o \in {Unloaded(e), ShutDown(e)}
    PROVE  o \in EngineObjects /\ ~o.loaded /\ o.state = "RELEASED"
  <1>1. engine[e] \in EngineObjects BY DEF TypeOK
  <1>2. /\ Unloaded(e) \in EngineObjects /\ ~Unloaded(e).loaded /\ Unloaded(e).state = "RELEASED"
    BY <1>1 DEF Unloaded, EngineObjects
  <1>3. /\ ShutDown(e) \in EngineObjects /\ ~ShutDown(e).loaded /\ ShutDown(e).state = "RELEASED"
    BY <1>2 DEF ShutDown, EngineObjects
  <1> QED BY <1>2, <1>3

\* A new engine has no model.
LEMMA NewFacts ==
    /\ NewEngine \in EngineObjects /\ NewEngine.state = "DISCOVERED" /\ ~NewEngine.loaded
    /\ LoadedEngine \in EngineObjects /\ LoadedEngine.state = "READY"
    /\ LoadedEngine.loaded /\ LoadedEngine.init
  BY DEF NewEngine, LoadedEngine, EngineObjects

\* The engine of a path is unloaded and erased, by a reload or by unloadModel.
LEMMA DropStep ==
    ASSUME IInv, NEW t \in Threads, NEW l \in {"create", "idle"}, NEW m \in Models,
           m = target[t], pc[t] \in {"reload", "unload"}, engineLock[engines[m]] = None,
           NEW o \in {Unloaded(engines[m]), ShutDown(engines[m])},
           engines' = [engines EXCEPT ![m] = None],
           engine' = Alive([engine EXCEPT ![engines[m]] = o], engines', held),
           placed' = [placed EXCEPT ![m] = None],
           Goto(t, l), Released({engines[m]}),
           l = "create" => UNCHANGED mutex /\ pc[t] = "reload",
           l = "idle" => mutex' = None,
           UNCHANGED <<registry, engineLock, target, tcfg, held>>
    PROVE  IInv'
  <1>1. TypeOK /\ ThreadOK(t) /\ ThreadOK(Admin) BY Constants DEF IInv
  <1>2. PICK e \in Engines : e = engines[m] /\ e # None BY <1>1, Constants DEF TypeOK, ThreadOK
  <1>3. EngineOK(e) /\ Stored(e) BY <1>2 DEF IInv, Stored
  <1>4. engine[e].state = "READY" BY <1>2, <1>3 DEF EngineOK
  <1>5. o \in EngineObjects /\ ~o.loaded /\ o.state = "RELEASED" BY <1>1, <1>2, <1>4, UnloadFacts
  <1>6. /\ engines' \in [Models -> Engines \cup {None}] /\ engines'[m] = None
        /\ \A n \in Models \ {m} : engines'[n] = engines[n]
    BY <1>1 DEF TypeOK
  <1>7. \A n \in Models \ {m} : engines[n] # e BY <1>2 DEF IInv, StoreOK
  <1>8. ~Stored(e)' BY <1>2, <1>6, <1>7 DEF Stored
  <1>9. \A x \in Engines \ {e} : (Stored(x)' <=> Stored(x)) /\ (Referenced(x)' <=> Referenced(x))
    <2> TAKE x \in Engines \ {e}
    <2>1. Stored(x)' <=> Stored(x) BY <1>2, <1>6, Constants DEF Stored
    <2> QED BY <2>1 DEF Referenced
  <1>10. \A x \in Engines : engine'[x] =
            IF Referenced(x)' THEN [engine EXCEPT ![e] = o][x] ELSE NewEngine
    BY <1>2 DEF Alive, Referenced, Stored
  <1>11. ASSUME NEW x \in Engines \ {e} PROVE engine'[x] = engine[x]
    <2>1. EngineOK(x) BY DEF IInv
    <2>2. [engine EXCEPT ![e] = o][x] = engine[x] BY <1>1 DEF TypeOK
    <2> QED BY <1>9, <1>10, <2>1, <2>2 DEF EngineOK
  <1>12. engine'[e] = o \/ engine'[e] = NewEngine
    <2>1. [engine EXCEPT ![e] = o][e] = o BY <1>1, <1>2 DEF TypeOK
    <2> QED BY <1>2, <1>10, <2>1
  <1>13. /\ engine'[e] \in EngineObjects /\ ~engine'[e].loaded
         /\ engine'[e].state \notin {"READY", "EXECUTING"}
    BY <1>5, <1>12, NewFacts
  <1>14. engine' \in [Engines -> EngineObjects]
    <2>1. \A x \in Engines : engine'[x] \in EngineObjects BY <1>1, <1>11, <1>13 DEF TypeOK
    <2>2. engine' = [x \in Engines |-> engine'[x]] BY DEF Alive
    <2> QED BY <2>1, <2>2
  <1>15. /\ pc' \in [Threads -> Places] /\ pc'[t] = l
         /\ \A u \in Threads \ {t} : pc'[u] = pc[u]
    BY <1>1, GotoFacts DEF Places, Critical
  <1>16. pc[t] \notin Holding /\ pc'[t] \notin Holding BY <1>15 DEF Holding, Executing
  <1>17. pc'[Admin] \notin Holding BY <1>1, <1>15, <1>16, Constants DEF TypeOK
  <1>18. mutex = t /\ mutex' \in {t, None} BY <1>1 DEF ThreadOK, Critical
  <1>19. pc[Admin] # "stop" /\ pc'[Admin] # "stop"
    BY <1>1, <1>15, <1>18, Constants DEF ThreadOK, Critical
  <1>20. UNCHANGED streams /\ placed' \in [Models -> Placements \cup {None}]
    BY <1>1 DEF Released, TypeOK
  <1>21. TypeOK' BY <1>1, <1>6, <1>14, <1>15, <1>17, <1>18, <1>20 DEF TypeOK
  <1>22. StoreOK' BY <1>1, <1>6 DEF IInv, StoreOK, TypeOK
  <1>23. CountOK'
    <2>1. Counted' = Counted \ {e} /\ e \in Counted
      <3>1. e \in Counted /\ e \notin Counted' BY <1>4, <1>13 DEF Counted
      <3>2. \A x \in Engines \ {e} : x \in Counted' <=> x \in Counted BY <1>11 DEF Counted
      <3>3. Counted \subseteq Engines /\ Counted' \subseteq Engines BY DEF Counted
      <3> QED BY <3>1, <3>2, <3>3
    <2>2. \A r \in Requests : pc[r] \in {"evaluate", "generate"} <=> pc'[r] \in {"evaluate", "generate"}
      BY <1>15, <1>16, Constants DEF Holding, Executing
    <2>3. Streaming' = Streaming BY <1>1, <1>20, <2>2 DEF Streaming, TypeOK
    <2>4. {x \in {e} : engine[x].state = "READY"} = {e} BY <1>4
    <2>5. backendRefs' = backendRefs - 1 BY <1>2, <2>4, FS_Singleton DEF Released
    <2>6. Cardinality(Counted \ {e}) = Cardinality(Counted) - 1
      BY <1>1, <2>1, CountFacts, FS_RemoveElement
    <2> QED BY <1>1, <2>1, <2>3, <2>5, <2>6, CountFacts DEF IInv, CountOK
  <1>24. ThreadOK(t)' BY <1>1, <1>6, <1>15, <1>18, Constants DEF ThreadOK, Critical
  <1>25. \A u \in Threads : ThreadOK(u)' BY <1>15, <1>18, <1>24, OtherThreads
  <1>26. \A q \in Requests \ {t} : RequestOK(q)'
    <2>1. \A q \in Requests : pc[q] \in Executing => engineLock'[held[q]] = q BY DEF IInv, RequestOK
    <2> QED BY <1>15, <1>19, <1>20, <2>1, OtherRequests
  <1>27. ASSUME t \in Requests PROVE RequestOK(t)'
    <2>1. RequestOK(t) BY <1>27 DEF IInv
    <2> QED BY <1>15, <1>16, <1>19, <2>1 DEF RequestOK, Holding, Executing
  <1>28. ASSUME NEW x \in Engines PROVE EngineOK(x)'
    <2>1. EngineOK(x) BY DEF IInv
    <2>2. engineLock[x] # None => pc'[engineLock[x]] = pc[engineLock[x]]
      <3>1. engineLock[x] # None => engineLock[x] \in Threads BY <1>1, Constants DEF TypeOK
      <3>2. engineLock[x] # None => engineLock[x] # t BY <1>16, <2>1 DEF EngineOK, Holding
      <3> QED BY <1>15, <3>1, <3>2
    <2>3. ~Referenced(x)' => engine'[x] = NewEngine BY <1>10
    <2>4. CASE x = e BY <1>2, <1>8, <1>13, <2>3, <2>4 DEF EngineOK
    <2>5. CASE x # e BY <1>9, <1>11, <2>1, <2>2, <2>3, <2>5 DEF EngineOK
    <2> QED BY <2>4, <2>5
  <1> QED BY <1>21, <1>22, <1>23, <1>25, <1>26, <1>27, <1>28 DEF IInv

\* An engine with another placement is unloaded before the model is loaded again.
LEMMA ReloadStep ==
    ASSUME IInv, NEW t \in Threads, Reload(t) PROVE IInv'
  <1>1. target[t] \in Models BY DEF IInv, TypeOK
  <1> QED BY <1>1, DropStep DEF Reload

\* unloadModel.
LEMMA UnloadStep ==
    ASSUME IInv, Unload PROVE IInv'
  <1>1. target[Admin] \in Models BY Constants DEF IInv, TypeOK
  <1> QED BY <1>1, DropStep, Constants DEF Unload

\* The model is loaded by a new engine.
LEMMA CreateStep ==
    ASSUME IInv, NEW t \in Threads, Create(t) PROVE IInv'
  <1>1. TypeOK /\ ThreadOK(t) /\ ThreadOK(Admin) BY Constants DEF IInv
  <1>2. PICK e \in FreeEngines : e = CHOOSE x \in FreeEngines : TRUE BY DEF Create
  <1>3. PICK m \in Models : m = target[t] BY <1>1 DEF TypeOK
  <1>4. /\ pc[t] = "create" /\ mutex' = None
        /\ engine' = [engine EXCEPT ![e] = LoadedEngine]
        /\ engines' = [engines EXCEPT ![m] = e]
        /\ placed' = [placed EXCEPT ![m] = tcfg[t]]
        /\ tcfg' = [tcfg EXCEPT ![t] = None]
        /\ backendRefs' = backendRefs + 1
        /\ UNCHANGED <<registry, engineLock, target, streams>>
        /\ \E l \in {"idle", "wait"} :
              /\ Goto(t, l) /\ (t = Admin => l = "idle" /\ held' = held)
              /\ t # Admin => l = "wait" /\ held' = [held EXCEPT ![t] = e]
    BY <1>2, <1>3 DEF Create
  <1>5. PICK l \in {"idle", "wait"} :
           /\ Goto(t, l) /\ (t = Admin => l = "idle" /\ held' = held)
           /\ t # Admin => l = "wait" /\ held' = [held EXCEPT ![t] = e]
    BY <1>4
  <1>6. e \in Engines /\ e # None /\ ~Stored(e) /\ ~Referenced(e)
    BY <1>2, Constants DEF FreeEngines, Stored, Referenced
  <1>7. engine[e] = NewEngine /\ EngineOK(e) BY <1>6 DEF IInv, EngineOK
  <1>8. m \in Models /\ engines[m] = None /\ tcfg[t] \in Placements /\ mutex = t
    BY <1>1, <1>3, <1>4 DEF TypeOK, ThreadOK, Critical
  <1>9. /\ engines' \in [Models -> Engines \cup {None}] /\ engines'[m] = e
        /\ \A n \in Models \ {m} : engines'[n] = engines[n]
    BY <1>1, <1>4, <1>6, <1>8 DEF TypeOK
  <1>10. /\ engine' \in [Engines -> EngineObjects] /\ engine'[e] = LoadedEngine
        /\ \A x \in Engines \ {e} : engine'[x] = engine[x]
    BY <1>1, <1>4, <1>6, NewFacts DEF TypeOK
  <1>11. /\ placed' \in [Models -> Placements \cup {None}] /\ placed'[m] # None
         /\ \A n \in Models \ {m} : placed'[n] = placed[n]
    BY <1>1, <1>4, <1>8, Constants DEF TypeOK
  <1>12. /\ tcfg' \in [Threads -> Placements \cup {None}]
         /\ \A u \in Threads \ {t} : tcfg'[u] = tcfg[u]
    BY <1>1, <1>4 DEF TypeOK
  <1>13. /\ held' \in [Requests -> Engines \cup {None}]
         /\ \A q \in Requests \ {t} : held'[q] = held[q]
         /\ t \in Requests => held'[t] = e /\ l = "wait"
         /\ t = Admin => l = "idle"
    BY <1>1, <1>5, <1>6, Constants DEF TypeOK
  <1>14. /\ pc' \in [Threads -> Places] /\ pc'[t] = l
         /\ \A u \in Threads \ {t} : pc'[u] = pc[u]
    BY <1>1, <1>5, GotoFacts DEF Places, Holding
  <1>15. pc'[Admin] \notin Holding BY <1>1, <1>13, <1>14, Constants DEF TypeOK, Holding, Executing
  <1>16. pc[t] \notin Holding BY <1>4 DEF Holding, Executing
  <1>17. pc[Admin] # "stop" /\ pc'[Admin] # "stop"
    BY <1>1, <1>4, <1>5, <1>8, <1>13, <1>14, Constants DEF ThreadOK, Critical
  <1>18. TypeOK' BY <1>1, <1>4, <1>9, <1>10, <1>11, <1>12, <1>13, <1>14, <1>15 DEF TypeOK
  <1>19. StoreOK'
    <2>1. \A n \in Models : engines[n] # e BY <1>6 DEF Stored
    <2> QED BY <1>6, <1>9, <1>11, <2>1 DEF IInv, StoreOK
  <1>20. CountOK'
    <2>1. Counted' = Counted \cup {e} /\ e \notin Counted
      BY <1>6, <1>7, <1>10, NewFacts DEF Counted
    <2>2. \A r \in Requests : pc[r] \in {"evaluate", "generate"} <=> pc'[r] \in {"evaluate", "generate"}
      BY <1>4, <1>14, Constants
    <2>3. Streaming' = Streaming BY <1>1, <1>4, <2>2 DEF Streaming, TypeOK
    <2>4. Cardinality(Counted \cup {e}) = Cardinality(Counted) + 1
      BY <1>1, <2>1, CountFacts, FS_AddElement
    <2> QED BY <1>1, <1>4, <2>1, <2>3, <2>4, CountFacts DEF IInv, CountOK
  <1>21. ThreadOK(t)' BY <1>4, <1>14, Constants DEF ThreadOK, Critical
  <1>22. \A u \in Threads : ThreadOK(u)' BY <1>4, <1>8, <1>12, <1>14, <1>21, OtherThreads
  <1>23. \A q \in Requests \ {t} : RequestOK(q)'
    <2>1. \A q \in Requests : pc[q] \in Executing => engineLock'[held[q]] = q
      BY <1>4 DEF IInv, RequestOK
    <2> QED BY <1>4, <1>13, <1>14, <1>17, <2>1, OtherRequests
  <1>24. ASSUME t \in Requests PROVE RequestOK(t)'
    <2>1. RequestOK(t) BY <1>24 DEF IInv
    <2> QED BY <1>4, <1>6, <1>13, <1>14, <1>17, <1>24, <2>1 DEF RequestOK, Holding, Executing
  <1>25. ASSUME NEW x \in Engines PROVE EngineOK(x)'
    <2>1. EngineOK(x) BY DEF IInv
    <2>2. engineLock[x] # None =>
             /\ pc'[engineLock[x]] = pc[engineLock[x]] /\ held'[engineLock[x]] = held[engineLock[x]]
      <3>1. engineLock[x] # None => engineLock[x] \in Requests BY <1>1 DEF TypeOK
      <3>2. engineLock[x] # None => engineLock[x] # t BY <1>16, <2>1 DEF EngineOK, Holding
      <3> QED BY <1>13, <1>14, <3>1, <3>2, Constants
    <2>3. CASE x = e
      <3>1. Stored(e)' /\ Referenced(e)' BY <1>8, <1>9 DEF Stored, Referenced
      <3>2. engineLock[e] = None BY <1>7, NewFacts DEF EngineOK
      <3> QED BY <1>4, <1>10, <2>3, <3>1, <3>2, NewFacts DEF EngineOK
    <2>4. CASE x # e
      <3>1. Stored(x)' <=> Stored(x) BY <1>8, <1>9, <2>4, Constants DEF Stored
      <3>2. Referenced(x) => Referenced(x)'
        <4>1. t \in Requests => held[t] = None BY <1>16 DEF IInv, RequestOK
        <4> QED BY <1>13, <3>1, <4>1, Constants DEF Referenced
      <3> QED BY <1>4, <1>10, <2>1, <2>2, <2>4, <3>1, <3>2 DEF EngineOK
    <2> QED BY <2>3, <2>4
  <1> QED BY <1>18, <1>19, <1>20, <1>22, <1>23, <1>24, <1>25 DEF IInv

\* shutdown: every engine is unloaded, and none is held.
LEMMA StopStep ==
    ASSUME IInv, Stop PROVE IInv'
  <1>1. TypeOK /\ ThreadOK(Admin) BY Constants DEF IInv
  <1>2. /\ pc[Admin] = "stop" /\ mutex' = None /\ Goto(Admin, "idle")
        /\ engines' = [m \in Models |-> None] /\ placed' = [m \in Models |-> None]
        /\ engine' = Alive([e \in Engines |-> ShutDown(e)], engines', held)
        /\ Released(Engines)
        /\ UNCHANGED <<registry, engineLock, target, tcfg, held, streams>>
    BY DEF Stop, Released
  <1>3. \A r \in Requests : pc[r] \in {"idle", "start", "tracked", "done"} /\ pc[r] \notin Holding
    BY <1>2 DEF IInv, RequestOK, Holding, Executing
  <1>4. \A r \in Requests : held[r] = None BY <1>3 DEF IInv, RequestOK
  <1>5. \A e \in Engines : engineLock[e] = None
    <2> TAKE e \in Engines
    <2>1. EngineOK(e) /\ engineLock[e] \in Requests \cup {None} BY <1>1 DEF IInv, TypeOK
    <2> QED BY <1>3, <2>1 DEF EngineOK, Holding
  <1>6. \A e \in Engines : ~Stored(e)' /\ ~Referenced(e)'
    BY <1>2, <1>4, Constants DEF Stored, Referenced
  <1>7. engine' = [e \in Engines |-> NewEngine]
    <2>1. \A e \in Engines : ~((\E m \in Models : engines'[m] = e) \/ (\E r \in Requests : held[r] = e))
      BY <1>2, <1>4, Constants
    <2> QED BY <1>2, <2>1 DEF Alive
  <1>8. /\ pc' \in [Threads -> Places] /\ pc'[Admin] = "idle"
        /\ \A u \in Threads \ {Admin} : pc'[u] = pc[u]
    BY <1>1, <1>2, GotoFacts, Constants DEF Places
  <1>9. mutex = Admin BY <1>1, <1>2 DEF ThreadOK, Critical
  <1>10. TypeOK'
    <2>1. pc'[Admin] \notin Holding BY <1>8 DEF Holding, Executing
    <2>2. engine' \in [Engines -> EngineObjects] BY <1>7, NewFacts
    <2> QED BY <1>1, <1>2, <1>8, <2>1, <2>2 DEF TypeOK
  <1>11. StoreOK' BY <1>2 DEF StoreOK
  <1>12. CountOK'
    <2>1. Counted' = {} BY <1>7, NewFacts DEF Counted
    <2>2. Streaming = {} BY <1>1, <1>3 DEF Streaming, TypeOK
    <2>3. Streaming' = {}
      <3>1. \A r \in Requests : pc'[r] = pc[r] BY <1>8, Constants
      <3> QED BY <1>1, <1>2, <1>3, <3>1 DEF Streaming, TypeOK
    <2>4. {e \in Engines : engine[e].state = "READY"} = Counted
      <3>1. \A e \in Engines : engine[e].state # "EXECUTING" BY <1>5 DEF IInv, EngineOK
      <3> QED BY <3>1 DEF Counted
    <2>5. backendRefs' = backendRefs - Cardinality(Counted) BY <1>2, <2>4 DEF Released
    <2>6. backendRefs = Cardinality(Counted) + 0 BY <2>2, FS_EmptySet DEF IInv, CountOK
    <2>7. backendRefs' = 0 BY <1>1, <2>5, <2>6, CountFacts
    <2> QED BY <2>1, <2>3, <2>7, FS_EmptySet DEF CountOK
  <1>13. ThreadOK(Admin)' BY <1>2, <1>8, Constants DEF ThreadOK, Critical
  <1>14. \A u \in Threads : ThreadOK(u)' BY <1>2, <1>8, <1>9, <1>13, OtherThreads, Constants
  <1>15. \A q \in Requests : RequestOK(q)'
    <2>1. \A q \in Requests : pc[q] \in Executing => engineLock'[held[q]] = q
      BY <1>2 DEF IInv, RequestOK
    <2> QED BY <1>2, <1>8, <2>1, OtherRequests, Constants
  <1>16. \A e \in Engines : EngineOK(e)' BY <1>2, <1>5, <1>6, <1>7, NewFacts DEF EngineOK
  <1> QED BY <1>10, <1>11, <1>12, <1>14, <1>15, <1>16 DEF IInv

-----------------------------------------------------------------------------
(* Execution, under the lock of the engine.                                 *)

\* A request goes on while it holds its engine: what it may change is the
\* state and the lock of that engine.
LEMMA HoldStep ==
    ASSUME IInv, NEW r \in Requests, NEW e \in Engines, e = held[r],
           NEW l \in Executing \cup {"record"}, pc[r] \in Holding, Goto(r, l),
           UNCHANGED <<registry, engines, placed, mutex, target, tcfg, held, streams>>,
           engine' \in [Engines -> EngineObjects],
           engineLock' \in [Engines -> Requests \cup {None}],
           \A x \in Engines \ {e} : engine'[x] = engine[x] /\ engineLock'[x] = engineLock[x],
           engineLock[e] \in {None, r},
           EngineOK(e)', l \in Executing => engineLock'[e] = r,
           l = "stream" => r \in streams,
           CountOK'
    PROVE  IInv'
  <1>1. TypeOK /\ RequestOK(r) /\ r \in Threads /\ r # Admin BY Constants DEF IInv
  <1>2. /\ pc' \in [Threads -> Places] /\ pc'[r] = l
        /\ \A u \in Threads \ {r} : pc'[u] = pc[u]
    BY <1>1, GotoFacts DEF Places, Holding
  <1>3. pc'[Admin] = pc[Admin] BY <1>1, <1>2, Constants
  <1>4. TypeOK' BY <1>1, <1>2, <1>3 DEF TypeOK
  <1>5. StoreOK' BY DEF IInv, StoreOK
  <1>6. ThreadOK(r)'
    <2>1. ThreadOK(r) /\ pc[r] \notin Critical BY <1>1 DEF IInv, Holding, Executing, Critical
    <2>2. pc'[r] \notin Critical BY <1>2 DEF Executing, Critical
    <2> QED BY <2>1, <2>2 DEF ThreadOK, Critical
  <1>7. \A u \in Threads : ThreadOK(u)' BY <1>1, <1>2, <1>6, OtherThreads
  <1>8. \A q \in Requests \ {r} : RequestOK(q)'
    <2>1. ASSUME NEW q \in Requests \ {r}, pc[q] \in Executing PROVE engineLock'[held[q]] = q
      <3>1. RequestOK(q) BY DEF IInv
      <3>2. engineLock[held[q]] = q /\ held[q] # None BY <2>1, <3>1 DEF RequestOK, Holding
      <3>3. held[q] \in Engines BY <1>1, <3>2 DEF TypeOK
      <3>4. held[q] # e BY <3>2, Constants
      <3> QED BY <3>2, <3>3, <3>4
    <2> QED BY <1>1, <1>2, <1>3, <2>1, OtherRequests
  <1>9. RequestOK(r)'
    <2>1. pc'[r] \in Holding BY <1>2 DEF Holding
    <2>2. held[r] # None BY Constants
    <2>3. pc[Admin] # "stop" /\ registry[r] \notin {"COMPLETED", "FAILED"}
      BY <1>1 DEF RequestOK, Holding, Executing
    <2> QED BY <1>2, <1>3, <2>1, <2>2, <2>3 DEF RequestOK, Executing
  <1>10. ASSUME NEW x \in Engines \ {e} PROVE EngineOK(x)'
    <2>1. EngineOK(x) BY DEF IInv
    <2>2. (Stored(x)' <=> Stored(x)) /\ (Referenced(x)' <=> Referenced(x)) BY DEF Stored, Referenced
    <2>3. engineLock[x] # None => pc'[engineLock[x]] = pc[engineLock[x]]
      <3>1. engineLock[x] # None => engineLock[x] \in Threads BY <1>1, Constants DEF TypeOK
      <3>2. engineLock[x] # None => engineLock[x] # r BY <2>1 DEF EngineOK
      <3> QED BY <1>2, <3>1, <3>2
    <2> QED BY <2>1, <2>2, <2>3 DEF EngineOK
  <1> QED BY <1>4, <1>5, <1>7, <1>8, <1>9, <1>10 DEF IInv

\* The state of one engine changes.
LEMMA StateSet ==
    ASSUME TypeOK, NEW e \in Engines, NEW s \in {"READY", "EXECUTING"},
           engine' = [engine EXCEPT ![e].state = s]
    PROVE  /\ engine' \in [Engines -> EngineObjects]
           /\ engine'[e] = [engine[e] EXCEPT !.state = s]
           /\ engine'[e].state = s
           /\ engine'[e].loaded = engine[e].loaded /\ engine'[e].init = engine[e].init
           /\ \A x \in Engines \ {e} : engine'[x] = engine[x]
  <1> DEFINE o == [engine[e] EXCEPT !.state = s]
  <1>1. engine[e] \in EngineObjects BY DEF TypeOK
  <1>2. o \in EngineObjects /\ o.state = s /\ o.loaded = engine[e].loaded /\ o.init = engine[e].init
    BY <1>1 DEF EngineObjects
  <1>3. engine' = [engine EXCEPT ![e] = o] BY DEF TypeOK
  <1>4. /\ engine' \in [Engines -> EngineObjects] /\ engine'[e] = o
        /\ \A x \in Engines \ {e} : engine'[x] = engine[x]
    BY <1>2, <1>3 DEF TypeOK
  <1> HIDE DEF o
  <1>5. engine'[e] = [engine[e] EXCEPT !.state = s] BY <1>4 DEF o
  <1> QED BY <1>2, <1>4, <1>5

\* What an executing request knows of its engine.
LEMMA ExecutingFacts ==
    ASSUME IInv, NEW r \in Requests, pc[r] \in Executing
    PROVE  /\ held[r] \in Engines /\ engineLock[held[r]] = r /\ EngineOK(held[r])
           /\ engine[held[r]].state = "EXECUTING" /\ Stored(held[r])
  <1>1. RequestOK(r) /\ TypeOK BY DEF IInv
  <1>2. held[r] \in Engines /\ engineLock[held[r]] = r BY <1>1 DEF RequestOK, TypeOK, Holding
  <1>3. EngineOK(held[r]) BY <1>2 DEF IInv
  <1> QED BY <1>2, <1>3, Constants DEF EngineOK

\* The engine's lock is taken, if the engine still has its model.
LEMMA LockStep ==
    ASSUME IInv, NEW r \in Requests, LockEngine(r) PROVE IInv'
  <1>1. TypeOK /\ RequestOK(r) /\ r \in Threads BY Constants DEF IInv
  <1>2. pc[r] = "wait" /\ pc[r] \in Holding BY DEF LockEngine, Holding
  <1>3. PICK e \in Engines : e = held[r] BY <1>1, <1>2 DEF RequestOK, TypeOK
  <1>4. /\ UNCHANGED <<registry, engines, placed, mutex, target, tcfg, held, streams, backendRefs>>
        /\ engineLock[e] = None
    BY <1>3 DEF LockEngine, llama
  <1>5. EngineOK(e) BY DEF IInv
  <1>6. (Stored(e)' <=> Stored(e)) /\ (Referenced(e)' <=> Referenced(e)) BY <1>4 DEF Stored, Referenced
  <1>7. CASE engine[e].init /\ engine[e].loaded
    <2>1. PICK l \in {"stream", "evaluate"} :
             Goto(r, l) /\ (l = "stream" <=> r \in streams)
      BY <1>3, <1>7 DEF LockEngine
    <2>2. /\ engineLock' = [engineLock EXCEPT ![e] = r]
          /\ engine' = [engine EXCEPT ![e].state = "EXECUTING"]
      BY <1>3, <1>7 DEF LockEngine
    <2>3. /\ engineLock' \in [Engines -> Requests \cup {None}] /\ engineLock'[e] = r
          /\ \A x \in Engines \ {e} : engineLock'[x] = engineLock[x]
      BY <1>1, <2>2 DEF TypeOK
    <2>4. /\ engine' \in [Engines -> EngineObjects] /\ engine'[e].state = "EXECUTING"
          /\ engine'[e].loaded = engine[e].loaded /\ engine'[e].init = engine[e].init
          /\ \A x \in Engines \ {e} : engine'[x] = engine[x]
      BY <1>1, <2>2, StateSet
    <2>5. Stored(e) /\ Referenced(e) /\ engine[e].state \in {"READY", "EXECUTING"}
      BY <1>5, <1>7 DEF EngineOK, Referenced
    <2>6. /\ pc'[r] = l /\ \A u \in Threads \ {r} : pc'[u] = pc[u]
      BY <1>1, <2>1, GotoFacts DEF Places, Holding, Executing
    <2>7. EngineOK(e)'
      BY <1>3, <1>4, <1>6, <1>7, <2>3, <2>4, <2>5, <2>6, Constants DEF EngineOK, Executing
    <2>8. CountOK'
      <3>1. Counted' = Counted BY <2>4, <2>5 DEF Counted
      <3>2. ASSUME NEW q \in streams
            PROVE  pc'[q] \in {"evaluate", "generate"} <=> pc[q] \in {"evaluate", "generate"}
        <4>1. CASE q = r BY <1>2, <2>1, <2>6, <3>2, <4>1
        <4>2. CASE q # r BY <1>1, <2>6, <4>2, Constants DEF TypeOK
        <4> QED BY <4>1, <4>2
      <3>3. Streaming' = Streaming BY <1>4, <3>2 DEF Streaming
      <3> QED BY <1>4, <3>1, <3>3 DEF IInv, CountOK
    <2>9. l \in Executing \cup {"record"} BY DEF Executing
    <2> QED BY <1>2, <1>3, <1>4, <2>1, <2>3, <2>4, <2>7, <2>8, <2>9, HoldStep
  <1>8. CASE ~(engine[e].init /\ engine[e].loaded)
    <2>1. Goto(r, "record") /\ UNCHANGED <<engineLock, engine>> BY <1>3, <1>8 DEF LockEngine
    <2>2. /\ pc'[r] = "record" /\ \A u \in Threads \ {r} : pc'[u] = pc[u]
      BY <1>1, <2>1, GotoFacts DEF Places, Holding
    <2>3. EngineOK(e)' BY <1>4, <1>5, <1>6, <2>1 DEF EngineOK
    <2>4. CountOK'
      <3>1. Counted' = Counted BY <2>1 DEF Counted
      <3>2. Streaming' = Streaming BY <1>1, <1>2, <1>4, <2>2, Constants DEF Streaming, TypeOK
      <3> QED BY <1>4, <3>1, <3>2 DEF IInv, CountOK
    <2>5. "record" \notin Executing BY DEF Executing
    <2> QED BY <1>1, <1>2, <1>3, <1>4, <2>1, <2>3, <2>4, <2>5, HoldStep DEF TypeOK
  <1> QED BY <1>7, <1>8

\* An execution ends: the engine is READY and its lock is free.
LEMMA FinishStep ==
    ASSUME IInv, NEW r \in Requests, NEW o, pc[r] \in Executing, FinishExecution(r, o)
    PROVE  IInv'
  <1>1. TypeOK /\ RequestOK(r) /\ r \in Threads BY Constants DEF IInv
  <1>2. PICK e \in Engines : e = held[r] BY ExecutingFacts
  <1>3. engineLock[e] = r /\ EngineOK(e) /\ engine[e].state = "EXECUTING" /\ Stored(e)
    BY <1>2, ExecutingFacts
  <1>4. /\ UNCHANGED <<registry, engines, placed, mutex, target, tcfg, held, streams>>
        /\ engine' = [engine EXCEPT ![e].state = "READY"]
        /\ engineLock' = [engineLock EXCEPT ![e] = None]
        /\ Goto(r, "record") /\ StreamEnds(r)
    BY <1>2 DEF FinishExecution, StreamEnds
  <1>5. /\ engineLock' \in [Engines -> Requests \cup {None}] /\ engineLock'[e] = None
        /\ \A x \in Engines \ {e} : engineLock'[x] = engineLock[x]
    BY <1>1, <1>4 DEF TypeOK
  <1>6. /\ engine' \in [Engines -> EngineObjects] /\ engine'[e].state = "READY"
        /\ engine'[e].loaded = engine[e].loaded /\ engine'[e].init = engine[e].init
        /\ \A x \in Engines \ {e} : engine'[x] = engine[x]
    BY <1>1, <1>4, StateSet
  <1>7. /\ pc'[r] = "record" /\ \A u \in Threads \ {r} : pc'[u] = pc[u]
    BY <1>1, <1>4, GotoFacts DEF Places, Holding
  <1>8. EngineOK(e)'
    <2>1. Stored(e)' /\ Referenced(e)' BY <1>3, <1>4 DEF Stored, Referenced
    <2> QED BY <1>3, <1>5, <1>6, <2>1 DEF EngineOK
  <1>9. CountOK'
    <2>1. Counted' = Counted BY <1>3, <1>6 DEF Counted
    <2>2. Streaming' = Streaming \ {r}
      <3>1. \A q \in streams : q # r => pc'[q] = pc[q] BY <1>1, <1>7, Constants DEF TypeOK
      <3> QED BY <1>4, <1>7, <3>1 DEF Streaming
    <2>3. r \in Streaming <=> r \in streams /\ pc[r] # "stream" BY DEF Streaming, Executing
    <2>4. backendRefs' = IF r \in Streaming THEN backendRefs - 1 ELSE backendRefs
      BY <1>4, <2>3 DEF StreamEnds
    <2>5. Cardinality(Streaming \ {r}) =
             IF r \in Streaming THEN Cardinality(Streaming) - 1 ELSE Cardinality(Streaming)
      BY <1>1, CountFacts, FS_RemoveElement
    <2> QED BY <1>1, <2>1, <2>2, <2>4, <2>5, CountFacts DEF IInv, CountOK
  <1>10. "record" \notin Executing /\ pc[r] \in Holding BY DEF Executing, Holding
  <1> QED BY <1>2, <1>3, <1>4, <1>5, <1>6, <1>8, <1>9, <1>10, HoldStep

\* The engine runs the request.
LEMMA RunStep ==
    ASSUME IInv, NEW r \in Requests, StreamInit(r) \/ Evaluate(r) \/ GenerateTokens(r)
    PROVE  IInv'
  <1>1. TypeOK /\ RequestOK(r) /\ r \in Threads BY Constants DEF IInv
  <1>2. pc[r] \in Executing /\ pc[r] \in Holding
    BY DEF StreamInit, Evaluate, GenerateTokens, Executing, Holding
  <1>3. PICK e \in Engines : e = held[r] BY <1>2, ExecutingFacts
  <1>4. engineLock[e] = r /\ EngineOK(e) BY <1>2, <1>3, ExecutingFacts
  <1>5. ASSUME NEW l \in {"evaluate", "generate"}, Goto(r, l),
               UNCHANGED <<registry, engines, placed, engine, engineLock, mutex, target, tcfg,
                           held, streams>>,
               backendRefs' = IF pc[r] = "stream" THEN backendRefs + 1 ELSE backendRefs
        PROVE  IInv'
    <2>1. /\ pc'[r] = l /\ \A u \in Threads \ {r} : pc'[u] = pc[u]
      BY <1>1, <1>5, GotoFacts DEF Places, Holding, Executing
    <2>2. l \in Executing /\ l # "stream" BY DEF Executing
    <2>3. EngineOK(e)'
      <3>1. (Stored(e)' <=> Stored(e)) /\ (Referenced(e)' <=> Referenced(e))
        BY <1>5 DEF Stored, Referenced
      <3> QED BY <1>4, <1>5, <2>1, <2>2, <3>1 DEF EngineOK
    <2>4. Counted' = Counted BY <1>5 DEF Counted
    <2>5. \A q \in streams : q # r => pc'[q] = pc[q] BY <1>1, <2>1, Constants DEF TypeOK
    <2>6. CountOK'
      <3>1. CASE pc[r] = "stream"
        <4>1. r \in streams /\ r \notin Streaming BY <1>1, <3>1 DEF RequestOK, Streaming
        <4>2. Streaming' = Streaming \cup {r} BY <1>5, <2>1, <2>5, <4>1 DEF Streaming
        <4>3. Cardinality(Streaming \cup {r}) = Cardinality(Streaming) + 1
          BY <1>1, <4>1, CountFacts, FS_AddElement
        <4> QED BY <1>1, <1>5, <2>4, <3>1, <4>2, <4>3, CountFacts DEF IInv, CountOK
      <3>2. CASE pc[r] # "stream"
        <4>1. Streaming' = Streaming BY <1>2, <1>5, <2>1, <2>5, <3>2 DEF Streaming, Executing
        <4> QED BY <1>5, <2>4, <3>2, <4>1 DEF IInv, CountOK
      <3> QED BY <3>1, <3>2
    <2> QED BY <1>1, <1>2, <1>3, <1>4, <1>5, <2>2, <2>3, <2>6, HoldStep DEF TypeOK
  <1>6. CASE \E o : FinishExecution(r, o) BY <1>2, <1>6, FinishStep
  <1>7. CASE StreamInit(r) BY <1>5, <1>6, <1>7 DEF StreamInit
  <1>8. CASE Evaluate(r) BY <1>5, <1>6, <1>8 DEF Evaluate, llama
  <1>9. CASE GenerateTokens(r) BY <1>6, <1>9 DEF GenerateTokens
  <1> QED BY <1>7, <1>8, <1>9

\* The second section: the entry ends and the request lets go of its engine.
LEMMA RecordStep ==
    ASSUME IInv, NEW r \in Requests, Record(r) PROVE IInv'
  <1>1. TypeOK /\ RequestOK(r) /\ r \in Threads /\ r # Admin BY Constants DEF IInv
  <1>2. /\ pc[r] = "record" /\ Goto(r, "done")
        /\ held' = [held EXCEPT ![r] = None]
        /\ engine' = Alive(engine, engines, held')
        /\ UNCHANGED <<engines, placed, mutex, engineLock, target, tcfg, streams, backendRefs>>
    BY DEF Record, llama
  <1>3. registry' \in {registry, [registry EXCEPT ![r] = "COMPLETED"], [registry EXCEPT ![r] = "FAILED"]}
    BY DEF Record, SetEntry
  <1>4. /\ pc' \in [Threads -> Places] /\ pc'[r] = "done"
        /\ \A u \in Threads \ {r} : pc'[u] = pc[u]
    BY <1>1, <1>2, GotoFacts DEF Places
  <1>5. /\ held' \in [Requests -> Engines \cup {None}] /\ held'[r] = None
        /\ \A q \in Requests \ {r} : held'[q] = held[q]
    BY <1>1, <1>2 DEF TypeOK
  <1>6. pc'[Admin] = pc[Admin] BY <1>1, <1>4, Constants
  <1>7. \A e \in Engines : engine'[e] = IF Referenced(e)' THEN engine[e] ELSE NewEngine
    BY <1>2 DEF Alive, Referenced, Stored
  <1>8. \A e \in Engines : Stored(e)' <=> Stored(e) BY <1>2 DEF Stored
  <1>9. \A e \in Engines : Referenced(e)' => Referenced(e)
    BY <1>5, <1>8, Constants DEF Referenced
  <1>10. \A e \in Engines : Stored(e) => engine'[e] = engine[e]
    BY <1>7, <1>8 DEF Referenced
  <1>11. engine' \in [Engines -> EngineObjects]
    <2>1. \A e \in Engines : engine'[e] \in EngineObjects BY <1>1, <1>7, NewFacts DEF TypeOK
    <2>2. engine' = [e \in Engines |-> engine'[e]] BY <1>2 DEF Alive
    <2> QED BY <2>1, <2>2
  <1>12. TypeOK'
    <2>1. registry' \in [Requests -> {"none", "QUEUED", "RUNNING", "CANCELLED", "COMPLETED", "FAILED"}]
      BY <1>1, <1>3 DEF TypeOK
    <2> QED BY <1>1, <1>2, <1>4, <1>5, <1>6, <1>11, <2>1 DEF TypeOK
  <1>13. StoreOK' BY <1>2 DEF IInv, StoreOK
  <1>14. CountOK'
    <2>1. ASSUME NEW e \in Engines PROVE e \in Counted' <=> e \in Counted
      <3>1. EngineOK(e) BY DEF IInv
      <3>2. CASE Stored(e) BY <1>10, <3>2 DEF Counted
      <3>3. CASE ~Stored(e)
        <4>1. engine[e].state \notin {"READY", "EXECUTING"} BY <3>1, <3>3 DEF EngineOK
        <4>2. engine'[e].state \notin {"READY", "EXECUTING"} BY <1>7, <4>1, NewFacts
        <4> QED BY <4>1, <4>2 DEF Counted
      <3> QED BY <3>2, <3>3
    <2>2. Counted' = Counted
      <3>1. Counted \subseteq Engines /\ Counted' \subseteq Engines BY DEF Counted
      <3> QED BY <2>1, <3>1
    <2>3. Streaming' = Streaming BY <1>1, <1>2, <1>4, Constants DEF Streaming, TypeOK
    <2> QED BY <1>2, <2>2, <2>3 DEF IInv, CountOK
  <1>15. ThreadOK(r)'
    <2>1. ThreadOK(r) /\ pc[r] \notin Critical BY <1>1, <1>2 DEF IInv, Critical
    <2> QED BY <1>2, <1>4, <2>1 DEF ThreadOK, Critical
  <1>16. \A u \in Threads : ThreadOK(u)' BY <1>1, <1>2, <1>4, <1>15, OtherThreads
  <1>17. \A q \in Requests \ {r} : RequestOK(q)'
    <2>1. \A q \in Requests : pc[q] \in Executing => engineLock'[held[q]] = q
      BY <1>2 DEF IInv, RequestOK
    <2>2. \A q \in Requests \ {r} : registry'[q] = registry[q] BY <1>1, <1>3 DEF TypeOK
    <2> QED BY <1>1, <1>2, <1>4, <1>5, <1>6, <2>1, <2>2, OtherRequests
  <1>18. RequestOK(r)' BY <1>1, <1>4, <1>5 DEF RequestOK, Holding, Executing
  <1>19. ASSUME NEW e \in Engines PROVE EngineOK(e)'
    <2>1. EngineOK(e) BY DEF IInv
    <2>2. engineLock[e] # None =>
             /\ pc'[engineLock[e]] = pc[engineLock[e]] /\ held'[engineLock[e]] = held[engineLock[e]]
      <3>1. engineLock[e] # None => engineLock[e] \in Requests BY <1>1 DEF TypeOK
      <3>2. engineLock[e] # None => engineLock[e] # r BY <1>2, <2>1 DEF EngineOK, Executing
      <3> QED BY <1>4, <1>5, <3>1, <3>2, Constants
    <2>3. ~Referenced(e)' => engine'[e] = NewEngine BY <1>7
    <2>4. CASE Stored(e) BY <1>2, <1>8, <1>10, <2>1, <2>2, <2>3, <2>4 DEF EngineOK
    <2>5. CASE ~Stored(e)
      <3>1. /\ engine[e].state \notin {"READY", "EXECUTING"} /\ ~engine[e].loaded
            /\ engineLock[e] = None
        BY <2>1, <2>5 DEF EngineOK
      <3>2. engine'[e].state \notin {"READY", "EXECUTING"} /\ ~engine'[e].loaded
        BY <1>7, <3>1, NewFacts
      <3> QED BY <1>2, <1>8, <2>3, <2>5, <3>1, <3>2 DEF EngineOK
    <2> QED BY <2>4, <2>5
  <1> QED BY <1>12, <1>13, <1>14, <1>16, <1>17, <1>18, <1>19 DEF IInv

-----------------------------------------------------------------------------
(* The theorems.                                                            *)

\* Every step of the runtime keeps the invariant.
LEMMA NextIInv == IInv /\ [Next]_vars => IInv'
  <1> SUFFICES ASSUME IInv, [Next]_vars PROVE IInv' OBVIOUS
  <1>1. CASE UNCHANGED vars
    <2>1. UNCHANGED <<registry, engines, placed, engine, engineLock, held, mutex, pc, target, tcfg,
                      streams, backendRefs>>
      BY <1>1 DEF vars
    <2>2. TypeOK /\ ThreadOK(Admin) BY Constants DEF IInv
    <2>3. TypeOK' BY <2>1, <2>2 DEF TypeOK
    <2>4. ThreadOK(Admin)' BY <2>1, <2>2 DEF ThreadOK
    <2>5. pc[Admin] \notin Holding BY <2>2 DEF TypeOK
    <2> QED BY <2>1, <2>3, <2>4, <2>5, LightStep, Constants
  <1>2. CASE Client
    <2>1. ASSUME NEW r \in Requests, registerWorkload(r) PROVE IInv' BY <2>1, CallStep
    <2> QED BY <1>2, <2>1, CallStep, EntryStep, BeginStep DEF Client
  <1>3. ASSUME NEW r \in Requests, RequestStep(r) PROVE IInv'
    BY <1>3, EnterStep, AdmitStep, LockStep, RunStep, RecordStep DEF RequestStep
  <1>4. ASSUME NEW t \in Threads, LoadStep(t) PROVE IInv'
    BY <1>4, PlaceStep, ReloadStep, CreateStep, FailStep DEF LoadStep
  <1>5. CASE AdminStep BY <1>5, UnloadStep, StopStep DEF AdminStep
  <1> QED BY <1>1, <1>2, <1>3, <1>4, <1>5 DEF Next

\* The two locks of HeteroRuntime and LlamaCppExecutionEngine, engines_ and the
\* engines that requests hold agree in every state of the runtime.
THEOREM Invariance == Spec => []IInv
  <1>1. Init => IInv BY InitIInv
  <1>2. IInv /\ [Next]_vars => IInv' BY NextIInv
  <1> QED BY <1>1, <1>2, PTL DEF Spec

\* While doGenerate executes without mutex_, its engine keeps its model and
\* serves no one else, whatever is reloaded, unloaded or shut down; and
\* s_backendRefCount is right, so that the llama.cpp backend is not freed.
THEOREM ExecutionsOwnEngines == Spec => []ExecutionOwnsEngine
  <1>1. ASSUME IInv, NEW r \in Requests, pc[r] \in {"stream", "evaluate", "generate"}
        PROVE  /\ engineLock[held[r]] = r
               /\ engine[held[r]] = [init |-> TRUE, loaded |-> TRUE, state |-> "EXECUTING"]
    <2> DEFINE o == engine[held[r]]
    <2>1. /\ held[r] \in Engines /\ engineLock[held[r]] = r /\ EngineOK(held[r])
          /\ o.state = "EXECUTING" /\ Stored(held[r])
      BY <1>1, ExecutingFacts DEF Executing
    <2>2. o \in EngineObjects BY <1>1, <2>1 DEF IInv, TypeOK
    <2>3. o.init /\ o.loaded BY <2>1 DEF EngineOK
    <2>4. o = [init |-> o.init, loaded |-> o.loaded, state |-> o.state] BY <2>2 DEF EngineObjects
    <2>5. o.init \in BOOLEAN /\ o.loaded \in BOOLEAN BY <2>2 DEF EngineObjects
    <2>6. o.init = TRUE /\ o.loaded = TRUE BY <2>3, <2>5
    <2> QED BY <2>1, <2>4, <2>6
  <1>2. IInv => ExecutionOwnsEngine
    BY <1>1 DEF IInv, CountOK, Counted, Streaming, ExecutionOwnsEngine
  <1> QED BY <1>2, Invariance, PTL

\* Whoever gets mutex_ of HeteroRuntime finds engines_ ready to serve: every
\* engine initialized, loaded and of one path, its placement recorded.
THEOREM StoredEnginesAreReady == Spec => []StoredEnginesServe
  <1>1. ASSUME IInv, NEW m \in Models, engines[m] # None
        PROVE  /\ engine[engines[m]].init /\ engine[engines[m]].loaded
               /\ \A n \in Models \ {m} : engines[n] # engines[m]
    <2>1. engines[m] \in Engines BY <1>1 DEF IInv, TypeOK
    <2>2. EngineOK(engines[m]) /\ Stored(engines[m]) BY <1>1, <2>1 DEF IInv, Stored
    <2> QED BY <1>1, <2>2 DEF IInv, EngineOK, StoreOK
  <1>2. IInv => StoredEnginesServe BY <1>1 DEF StoredEnginesServe, IInv, StoreOK
  <1> QED BY <1>2, Invariance, PTL

-----------------------------------------------------------------------------
(* The entries of the registry.                                             *)

EntryTypes ==
    /\ cancelFlag \in [Requests -> BOOLEAN]
    /\ outcome \in [Requests -> {"none", "rejected", "cancelledEarly", "loadFailed", "success",
                                 "failed", "cancelledBefore", "cancelledMid"}]

\* setRunning parts the entries that wait from those that are executed, and
\* whatever makes an entry CANCELLED leaves its flag set.
EntryOK(r) ==
    /\ registry[r] \in {"QUEUED", "CANCELLED"} => pc[r] \in {"start", "admit", "tracked", "done"}
    /\ registry[r] = "CANCELLED" => cancelFlag[r]

EntriesOK == EntryTypes /\ \A r \in Requests : EntryOK(r)

\* A workload that was CANCELLED: it stays so, or it is revived and then fails
\* or is turned away by the engine.
Lost(r) ==
    \/ registry[r] = "none" /\ pc[r] \in {"tracked", "done"}
    \/ registry[r] = "CANCELLED" /\ cancelFlag[r] /\ pc[r] \in {"start", "admit", "tracked", "done"}
    \/ /\ registry[r] = "RUNNING" /\ cancelFlag[r]
       /\ \/ pc[r] \in {"place", "reload", "create", "wait", "stream", "evaluate", "done"}
          \/ pc[r] = "record" /\ outcome[r] \in {"failed", "cancelledBefore"}
    \/ registry[r] = "FAILED" /\ pc[r] = "done"

\* What concerns the entry of a request.
Entry(r) == <<registry[r], cancelFlag[r], outcome[r], pc[r]>>

\* A step of another request, or of Admin, leaves it alone.
LEMMA EntryAlone ==
    ASSUME TypeOK, EntryTypes, Next, NEW r \in Requests
    PROVE  \/ Entry(r)' = Entry(r)
           \/ cancelWorkload(r) \/ initialize \/ registerWorkload(r)
           \/ \E m \in Models : generateWorkload(r, m) \/ generate(r, m)
           \/ RequestStep(r) \/ LoadStep(r)
  <1>1. r \in Threads /\ r # Admin BY Constants
  <1>2. ASSUME NEW t \in Threads, t # r, \E l : pc' = [pc EXCEPT ![t] = l],
               \/ UNCHANGED registry
               \/ t \in Requests /\ \E s : registry' = [registry EXCEPT ![t] = s],
               \/ UNCHANGED cancelFlag
               \/ t \in Requests /\ \E b : cancelFlag' = [cancelFlag EXCEPT ![t] = b],
               \/ UNCHANGED outcome
               \/ t \in Requests /\ \E o : outcome' = [outcome EXCEPT ![t] = o]
        PROVE  Entry(r)' = Entry(r)
    BY <1>1, <1>2 DEF TypeOK, EntryTypes, Entry
  <1>3. CASE Client
    <2>1. ASSUME NEW q \in Requests, q # r, cancelWorkload(q) PROVE Entry(r)' = Entry(r)
      BY <2>1 DEF cancelWorkload, TypeOK, EntryTypes, Entry
    <2>2. ASSUME NEW q \in Requests, q # r, NEW m \in Models, generateWorkload(q, m)
          PROVE  Entry(r)' = Entry(r)
      BY <1>2, <2>2, Constants DEF generateWorkload, Goto
    <2>3. ASSUME NEW q \in Requests, q # r, NEW m \in Models, generate(q, m)
          PROVE  Entry(r)' = Entry(r)
      BY <1>2, <2>3, Constants DEF generate, Goto
    <2>4. ASSUME NEW q \in Requests, q # r, registerWorkload(q) PROVE Entry(r)' = Entry(r)
      BY <1>2, <2>4, Constants DEF registerWorkload, Goto
    <2>5. ASSUME shutdown \/ \E m \in Models : loadModel(m) \/ unloadModel(m)
          PROVE  Entry(r)' = Entry(r)
      BY <1>1, <1>2, <2>5, Constants DEF shutdown, loadModel, unloadModel, AdminBegin, Goto
    <2> QED BY <1>3, <2>1, <2>2, <2>3, <2>4, <2>5 DEF Client
  <1>4. ASSUME NEW q \in Requests, q # r, RequestStep(q) PROVE Entry(r)' = Entry(r)
    <2>1. /\ \E l : pc' = [pc EXCEPT ![q] = l]
          /\ UNCHANGED registry \/ \E s : registry' = [registry EXCEPT ![q] = s]
          /\ UNCHANGED cancelFlag
          /\ UNCHANGED outcome \/ \E o : outcome' = [outcome EXCEPT ![q] = o]
      BY <1>4 DEF RequestStep, Reject, Enter, Admit, LockEngine, StreamInit, Evaluate,
                  GenerateTokens, Record, FinishExecution, ReturnWith, SetEntry, Goto
    <2> QED BY <1>2, <1>4, <2>1, Constants
  <1>5. ASSUME NEW t \in Threads, t # r, LoadStep(t) PROVE Entry(r)' = Entry(r)
    <2>1. ASSUME NEW l, Goto(t, l) PROVE pc'[r] = pc[r] BY <1>1, <1>5, <2>1 DEF Goto, TypeOK
    <2>2. CASE Place(t)
      <3>1. \E l : Goto(t, l) BY <2>2 DEF Place
      <3>2. UNCHANGED <<registry, cancelFlag, outcome>> BY <2>2 DEF Place
      <3> QED BY <2>1, <3>1, <3>2 DEF Entry
    <2>3. CASE Reload(t) BY <2>1, <2>3 DEF Reload, Entry
    <2>4. CASE Create(t)
      <3>1. UNCHANGED <<registry, cancelFlag, outcome>> BY <2>4 DEF Create
      <3>2. Goto(t, "idle") \/ Goto(t, "wait") BY <2>4 DEF Create
      <3> QED BY <2>1, <3>1, <3>2 DEF Entry
    <2>5. CASE CreateFails(t)
      <3>1. UNCHANGED <<registry, cancelFlag>> BY <2>5 DEF CreateFails
      <3>2. \/ Goto(t, "idle") /\ UNCHANGED outcome
            \/ Goto(t, "done") /\ outcome' = [outcome EXCEPT ![t] = "loadFailed"]
        BY <2>5 DEF CreateFails, ReturnWith
      <3>3. pc'[r] = pc[r] /\ outcome'[r] = outcome[r] BY <1>5, <2>1, <3>2 DEF EntryTypes
      <3> QED BY <3>1, <3>3 DEF Entry
    <2> QED BY <1>5, <2>2, <2>3, <2>4, <2>5 DEF LoadStep
  <1>6. CASE AdminStep
    <2>1. /\ \E l : pc' = [pc EXCEPT ![Admin] = l] /\ UNCHANGED <<registry, cancelFlag, outcome>>
      BY <1>6 DEF AdminStep, Unload, Stop, Goto
    <2> QED BY <1>1, <1>2, <2>1, Constants
  <1> QED BY <1>3, <1>4, <1>5, <1>6 DEF Next

\* What the calls about a request, and its own steps, do to its entry.
CancelMove(r) ==
    /\ registry[r] # "none" /\ cancelFlag'[r] /\ UNCHANGED <<pc, outcome>>
    /\ registry'[r] = IF registry[r] = "QUEUED" THEN "CANCELLED" ELSE registry[r]

BeginMove(r) ==
    /\ pc[r] = "idle" /\ pc'[r] \in {"start", "tracked"}
    /\ \/ registry'[r] = "QUEUED"
       \/ UNCHANGED <<registry, cancelFlag>> /\ pc'[r] = "start"

EnterMove(r) ==
    /\ pc[r] = "start" /\ UNCHANGED <<registry, cancelFlag>>
    /\ \/ pc'[r] = "done"
       \/ pc'[r] = "admit" /\ ~cancelFlag[r]

AdmitMove(r) ==
    /\ pc[r] = "admit" /\ pc'[r] = "place" /\ UNCHANGED <<cancelFlag, outcome>>
    /\ registry'[r] = IF registry[r] = "none" THEN "none" ELSE "RUNNING"

LoadMove(r) ==
    /\ pc[r] \in {"place", "reload", "create"} /\ pc'[r] \in {"reload", "create", "wait", "done"}
    /\ UNCHANGED <<registry, cancelFlag>>

EngineMove(r) ==
    /\ pc[r] \in {"wait", "stream", "evaluate", "generate"} /\ UNCHANGED <<registry, cancelFlag>>
    /\ \/ pc'[r] \in {"stream", "evaluate"} /\ pc[r] # "generate"
       \/ pc[r] = "evaluate" /\ ~cancelFlag[r] /\ pc'[r] = "generate"
       \/ pc'[r] = "record" /\ outcome'[r] \in {"failed", "cancelledBefore"}
       \/ pc[r] = "generate" /\ pc'[r] = "record"

RecordMove(r) ==
    /\ pc[r] = "record" /\ pc'[r] = "done" /\ UNCHANGED <<cancelFlag, outcome>>
    /\ registry[r] = "none" => registry'[r] = "none"
    /\ registry[r] # "none" =>
          registry'[r] = CASE outcome[r] \in {"success", "cancelledMid"} -> "COMPLETED"
                           [] outcome[r] = "cancelledBefore" -> registry[r]
                           [] OTHER -> "FAILED"

EntryMove(r) ==
    \/ CancelMove(r) \/ BeginMove(r) \/ EnterMove(r) \/ AdmitMove(r)
    \/ LoadMove(r) \/ EngineMove(r) \/ RecordMove(r)

\* Those are all its moves.
LEMMA EntryMoves ==
    ASSUME TypeOK, EntryTypes, NEW r \in Requests,
           \/ cancelWorkload(r) \/ registerWorkload(r)
           \/ \E m \in Models : generateWorkload(r, m) \/ generate(r, m)
           \/ RequestStep(r) \/ LoadStep(r)
    PROVE  EntryTypes' /\ EntryMove(r)
  <1>1. r \in Threads /\ r # Admin BY Constants
  <1>2. ASSUME NEW l, Goto(r, l) PROVE pc'[r] = l BY <1>1, <1>2 DEF Goto, TypeOK
  <1>3. ASSUME NEW o \in {"rejected", "cancelledEarly", "loadFailed", "success", "failed",
                          "cancelledBefore", "cancelledMid"},
               outcome' = [outcome EXCEPT ![r] = o], UNCHANGED cancelFlag
        PROVE  EntryTypes' /\ outcome'[r] = o
    BY <1>3 DEF EntryTypes
  <1>4. ASSUME UNCHANGED <<outcome, cancelFlag>> PROVE EntryTypes' BY <1>4 DEF EntryTypes
  <1>5. CASE cancelWorkload(r) BY <1>5 DEF cancelWorkload, TypeOK, EntryTypes, EntryMove, CancelMove
  <1>6. CASE registerWorkload(r)
    <2>1. /\ pc[r] = "idle" /\ UNCHANGED <<outcome, cancelFlag>> /\ Goto(r, "tracked")
          /\ registry' = [registry EXCEPT ![r] = "QUEUED"]
      BY <1>6 DEF registerWorkload
    <2>2. registry'[r] = "QUEUED" BY <2>1 DEF TypeOK
    <2>3. pc'[r] = "tracked" /\ EntryTypes' BY <1>2, <1>4, <2>1
    <2>4. BeginMove(r) BY <2>1, <2>2, <2>3 DEF BeginMove
    <2> QED BY <2>3, <2>4 DEF EntryMove
  <1>7. ASSUME NEW m \in Models, generateWorkload(r, m) PROVE EntryTypes' /\ EntryMove(r)
    <2>1. pc[r] = "idle" /\ Goto(r, "start") /\ registry'[r] = "QUEUED" /\ EntryTypes'
      BY <1>7 DEF generateWorkload, TypeOK, EntryTypes
    <2> QED BY <1>2, <2>1 DEF EntryMove, BeginMove
  <1>8. ASSUME NEW m \in Models, generate(r, m) PROVE EntryTypes' /\ EntryMove(r)
    <2>1. pc[r] = "idle" /\ Goto(r, "start") /\ UNCHANGED <<outcome, registry, cancelFlag>>
      BY <1>8 DEF generate
    <2> QED BY <1>2, <1>4, <2>1 DEF EntryMove, BeginMove
  <1>9. CASE Reject(r)
    <2>1. /\ pc[r] = "start" /\ Goto(r, "done") /\ outcome' = [outcome EXCEPT ![r] = "rejected"]
          /\ UNCHANGED <<registry, cancelFlag>>
      BY <1>9 DEF Reject, ReturnWith
    <2>2. pc'[r] = "done" BY <1>2, <2>1
    <2>3. EntryTypes' BY <1>3, <2>1
    <2>4. EnterMove(r) BY <2>1, <2>2 DEF EnterMove
    <2> QED BY <2>3, <2>4 DEF EntryMove
  <1>10. CASE Enter(r)
    <2>1. CASE cancelFlag[r]
      <3>1. /\ pc[r] = "start" /\ Goto(r, "done") /\ UNCHANGED <<registry, cancelFlag>>
            /\ outcome' = [outcome EXCEPT ![r] = "cancelledEarly"]
        BY <1>10, <2>1 DEF Enter, ReturnWith
      <3>2. pc'[r] = "done" BY <1>2, <3>1
      <3>3. EntryTypes' BY <1>3, <3>1
      <3>4. EnterMove(r) BY <3>1, <3>2 DEF EnterMove
      <3> QED BY <3>3, <3>4 DEF EntryMove
    <2>2. CASE ~cancelFlag[r] BY <1>2, <1>4, <1>10, <2>2 DEF Enter, EntryMove, EnterMove
    <2> QED BY <2>1, <2>2
  <1>11. CASE Admit(r) BY <1>2, <1>4, <1>11 DEF Admit, SetEntry, TypeOK, EntryMove, AdmitMove
  <1>12. CASE LoadStep(r)
    <2>1. CASE Place(r)
      <3>1. \E l \in {"reload", "create", "wait"} : Goto(r, l) BY <1>1, <2>1 DEF Place
      <3>2. pc[r] = "place" /\ UNCHANGED <<registry, cancelFlag, outcome>> BY <2>1 DEF Place
      <3> QED BY <1>2, <1>4, <3>1, <3>2 DEF EntryMove, LoadMove
    <2>2. CASE Reload(r) BY <1>2, <1>4, <2>2 DEF Reload, EntryMove, LoadMove
    <2>3. CASE Create(r) BY <1>1, <1>2, <1>4, <2>3 DEF Create, EntryMove, LoadMove
    <2>4. CASE CreateFails(r)
      BY <1>1, <1>2, <1>3, <2>4 DEF CreateFails, ReturnWith, EntryMove, LoadMove
    <2> QED BY <1>12, <2>1, <2>2, <2>3, <2>4 DEF LoadStep
  <1>13. ASSUME NEW o \in {"success", "failed", "cancelledBefore", "cancelledMid"},
                FinishExecution(r, o)
         PROVE  /\ EntryTypes' /\ pc'[r] = "record" /\ outcome'[r] = o
                /\ UNCHANGED <<registry, cancelFlag>>
    BY <1>2, <1>3, <1>13 DEF FinishExecution
  <1>14. CASE LockEngine(r)
    <2>1. pc[r] = "wait" /\ UNCHANGED <<registry, cancelFlag>> BY <1>14 DEF LockEngine
    <2>2. \/ Goto(r, IF r \in streams THEN "stream" ELSE "evaluate") /\ UNCHANGED outcome
          \/ Goto(r, "record") /\ outcome' = [outcome EXCEPT ![r] = "failed"]
      BY <1>14 DEF LockEngine
    <2>3. CASE Goto(r, "record") /\ outcome' = [outcome EXCEPT ![r] = "failed"]
      BY <1>2, <1>3, <2>1, <2>3 DEF EntryMove, EngineMove
    <2>4. CASE Goto(r, IF r \in streams THEN "stream" ELSE "evaluate") /\ UNCHANGED outcome
      <3>1. pc'[r] \in {"stream", "evaluate"} BY <1>2, <2>4
      <3> QED BY <1>4, <2>1, <2>4, <3>1 DEF EntryMove, EngineMove
    <2> QED BY <2>2, <2>3, <2>4
  <1>15. CASE StreamInit(r) BY <1>2, <1>4, <1>13, <1>15 DEF StreamInit, EntryMove, EngineMove
  <1>16. CASE Evaluate(r) BY <1>2, <1>4, <1>13, <1>16 DEF Evaluate, llama, EntryMove, EngineMove
  <1>17. CASE GenerateTokens(r) BY <1>13, <1>17 DEF GenerateTokens, EntryMove, EngineMove
  <1>18. CASE Record(r)
    <2>1. pc[r] = "record" /\ Goto(r, "done") /\ UNCHANGED <<cancelFlag, outcome>>
      BY <1>18 DEF Record
    <2>2. /\ registry[r] = "none" => registry'[r] = "none"
          /\ registry[r] # "none" =>
                registry'[r] = CASE outcome[r] \in {"success", "cancelledMid"} -> "COMPLETED"
                                 [] outcome[r] = "cancelledBefore" -> registry[r]
                                 [] OTHER -> "FAILED"
      BY <1>18 DEF Record, SetEntry, TypeOK
    <2> QED BY <1>2, <1>4, <2>1, <2>2 DEF EntryMove, RecordMove
  <1> QED BY <1>5, <1>6, <1>7, <1>8, <1>9, <1>10, <1>11, <1>12, <1>14, <1>15, <1>16, <1>17,
             <1>18 DEF RequestStep

\* What is in the registry, where its request is and its flag go together.
LEMMA EntriesStep == IInv /\ EntriesOK /\ [Next]_vars => EntriesOK'
  <1> SUFFICES ASSUME IInv, EntriesOK, [Next]_vars PROVE EntriesOK' OBVIOUS
  <1>1. TypeOK /\ EntryTypes BY DEF IInv, EntriesOK
  <1>2. CASE UNCHANGED vars BY <1>2 DEF vars, EntriesOK, EntryTypes, EntryOK
  <1>3. CASE Next
    <2>1. ASSUME NEW r \in Requests, EntryTypes', Entry(r)' = Entry(r) PROVE EntryOK(r)'
      BY <2>1 DEF Entry, EntriesOK, EntryOK
    <2>2. ASSUME NEW r \in Requests, EntryTypes', EntryMove(r) PROVE EntryOK(r)'
      <3>1. EntryOK(r) /\ pc[r] \in Places BY <1>1, <2>2, Constants DEF EntriesOK, TypeOK
      <3> QED BY <2>2, <3>1 DEF EntryMove, EntryOK, CancelMove, BeginMove, EnterMove, AdmitMove,
                                LoadMove, EngineMove, RecordMove
    <2>3. CASE initialize
      BY <1>1, <2>3 DEF initialize, EntriesOK, EntryTypes, EntryOK
    <2>4. CASE ~initialize
      <3>1. EntryTypes'
        <4>1. CASE \/ shutdown \/ AdminStep \/ \E m \in Models : loadModel(m) \/ unloadModel(m)
          BY <1>1, <4>1 DEF shutdown, loadModel, unloadModel, AdminStep, Unload, Stop, EntryTypes
        <4>2. CASE LoadStep(Admin)
          BY <1>1, <4>2 DEF LoadStep, Place, Reload, Create, CreateFails, EntryTypes
        <4>3. CASE \E r \in Requests :
                      \/ cancelWorkload(r) \/ registerWorkload(r)
                      \/ \E m \in Models : generateWorkload(r, m) \/ generate(r, m)
                      \/ RequestStep(r) \/ LoadStep(r)
          BY <1>1, <4>3, EntryMoves
        <4> QED BY <1>3, <2>4, <4>1, <4>2, <4>3, Constants DEF Next, Client
      <3> QED BY <1>1, <1>3, <2>1, <2>2, <2>4, <3>1, EntryAlone, EntryMoves DEF EntriesOK
    <2> QED BY <2>3, <2>4
  <1> QED BY <1>2, <1>3

LEMMA EntriesInit == Init => EntriesOK
  BY DEF Init, EntriesOK, EntryTypes, EntryOK

\* A workload that was CANCELLED keeps away from the token loop.
LEMMA LostStep ==
    ASSUME IInv, EntriesOK, [Next]_vars, NEW r \in Requests, Lost(r) PROVE Lost(r)'
  <1>1. TypeOK /\ EntryTypes BY DEF IInv, EntriesOK
  <1>2. CASE UNCHANGED vars BY <1>2 DEF vars, Lost
  <1>3. CASE Next
    <2>1. CASE Entry(r)' = Entry(r) BY <2>1 DEF Entry, Lost
    <2>2. CASE EntryMove(r)
      BY <2>2 DEF Lost, EntryMove, CancelMove, BeginMove, EnterMove, AdmitMove,
                  LoadMove, EngineMove, RecordMove
    <2>3. CASE initialize BY <2>3 DEF initialize, Quiet, Lost
    <2> QED BY <1>1, <1>3, <2>1, <2>2, <2>3, EntryAlone, EntryMoves
  <1> QED BY <1>2, <1>3

\* The second section records what the engine said, and an ended entry is left
\* alone but for the revival.
LEMMA EndStep ==
    ASSUME IInv, EntriesOK, Next, NEW r \in Requests
    PROVE  /\ pc[r] = "record" /\ pc'[r] = "done" /\ registry[r] # "none" => RecordedAs(r)
           /\ registry[r] \in {"COMPLETED", "FAILED", "CANCELLED"} =>
                 registry'[r] \in {registry[r], "none"} \/ Revived(r)
  <1>1. TypeOK /\ EntryTypes /\ RequestOK(r) /\ EntryOK(r) BY DEF IInv, EntriesOK
  <1>2. CASE Entry(r)' = Entry(r) BY <1>2 DEF Entry
  <1>3. CASE initialize BY <1>3 DEF initialize
  <1>4. CASE RecordMove(r)
    <2>1. registry[r] # "none" => registry[r] = "RUNNING"
      BY <1>1, <1>4 DEF RecordMove, RequestOK, EntryOK, TypeOK
    <2> QED BY <1>4, <2>1 DEF RecordMove, RecordedAs
  <1>5. CASE AdmitMove(r) BY <1>1, <1>5 DEF AdmitMove, RequestOK, EntryOK, Revived
  <1>6. CASE BeginMove(r) BY <1>1, <1>6 DEF BeginMove, RequestOK, EntryOK
  <1>7. CASE CancelMove(r) BY <1>7 DEF CancelMove
  <1>8. CASE EnterMove(r) \/ LoadMove(r) \/ EngineMove(r)
    BY <1>8 DEF EnterMove, LoadMove, EngineMove
  <1> QED BY <1>1, <1>2, <1>3, <1>4, <1>5, <1>6, <1>7, <1>8, EntryAlone, EntryMoves DEF EntryMove

\* The second section of doGenerate ends the entry of a request with its own
\* result.  No call of cancelWorkload, setRunning or another request changes an
\* entry that is COMPLETED or FAILED; one that is CANCELLED may be taken back to
\* RUNNING by its own setRunning, but is never COMPLETED.
THEOREM EntriesEnd == Spec => ExecutedEntriesEnd
  <1>1. Spec => [](IInv /\ EntriesOK)
    <2>1. Init => IInv /\ EntriesOK BY InitIInv, EntriesInit
    <2>2. IInv /\ EntriesOK /\ [Next]_vars => (IInv /\ EntriesOK)' BY NextIInv, EntriesStep
    <2> QED BY <2>1, <2>2, PTL DEF Spec
  <1>2. IInv /\ EntriesOK /\ [Next]_vars =>
          [ \A r \in Requests :
              /\ pc[r] = "record" /\ pc'[r] = "done" /\ registry[r] # "none" => RecordedAs(r)
              /\ registry[r] \in {"COMPLETED", "FAILED", "CANCELLED"} =>
                    registry'[r] \in {registry[r], "none"} \/ Revived(r) ]_vars
    BY EndStep
  <1>3. ASSUME NEW r \in Requests
        PROVE  Spec => [](registry[r] = "CANCELLED" => [](registry[r] # "COMPLETED"))
    <2>1. EntriesOK => (registry[r] = "CANCELLED" => Lost(r)) BY DEF EntriesOK, EntryOK, Lost
    <2>2. IInv /\ EntriesOK /\ [Next]_vars /\ Lost(r) => Lost(r)' BY LostStep
    <2>3. Lost(r) => registry[r] # "COMPLETED" BY DEF Lost
    <2> QED BY <1>1, <2>1, <2>2, <2>3, PTL DEF Spec
  <1>4. Spec => \A r \in Requests :
                   [](registry[r] = "CANCELLED" => [](registry[r] # "COMPLETED"))
    BY <1>3
  <1> QED BY <1>1, <1>2, <1>4, PTL DEF Spec, ExecutedEntriesEnd

=============================================================================
