------------------------ MODULE ModelStreamingProofs ------------------------
(***************************************************************************)
(* Proofs about ModelStreaming, for every set of resources, layers, blocks *)
(* and tasks and for any number of threads that evict.                     *)
(*                                                                         *)
(* The residency of a resource is all that keeps its transfers apart, and  *)
(* an eviction may take it away from a transfer in the middle and put it   *)
(* back.  So the invariant says who is entitled to what: at most one task  *)
(* transfers a resource (OneTransfer) and at most one eviction owns its    *)
(* EVICTING (OneOwner); a transfer goes on under an eviction only if that  *)
(* one will put LOADING back; and what the block is follows from these     *)
(* (BlocksMatch).                                                          *)
(*                                                                         *)
(* The last part is about MemoryManager, whose blocks these are: an entry  *)
(* of activeBlocks_ has its memory to itself.                              *)
(***************************************************************************)
EXTENDS ModelStreaming, MemoryManager, TLAPS

TaskRecords == [kind : {"free", "load", "promoteCPU", "promoteGPU"},
                pc : {"none", "begin", "allocate", "finish", "move", "done"},
                res : Resources \cup {None}]

EvictRecords == [pc : {"idle", "begin", "work", "finish"}, res : Resources \cup {None},
                 current : Residencies, target : {"DISK", "WARM"}]

ExecRecords == [pc : {"idle", "prefetch", "inputs", "loading", "dispatch", "promote", "promoting"},
                layer : Layers \cup {None}, task : Tasks \cup {None},
                todo : SUBSET (Resources \cup (Layers \X Resources))]

\* The variables keep their types, and threads in a call have a resource or a layer.
TypeOK ==
    /\ states \in [Resources -> Residencies]
    /\ block \in [Resources -> Blocks \cup {None}]
    /\ live \subseteq Blocks
    /\ task \in [Tasks -> TaskRecords]
    /\ \A t \in Tasks : task[t].pc # "none" => task[t].res \in Resources
    /\ evictor \in [Evictors -> EvictRecords]
    /\ \A e \in Evictors : evictor[e].pc # "idle" => evictor[e].res \in Resources
    /\ exec \in ExecRecords
    /\ exec.pc # "idle" => exec.layer \in Layers
    /\ IF exec.pc = "prefetch" THEN exec.todo \subseteq Layers \X Resources
       ELSE exec.pc # "idle" => exec.todo \subseteq Resources

\* A task between its compare-and-set and its end.
Active(t) ==
    \/ task[t].kind = "load" /\ task[t].pc \in {"allocate", "finish"}
    \/ task[t].pc = "move"

\* The eviction that took the residency of its resource to EVICTING; one that
\* found EVICTING changes nothing.
Owns(e) ==
    \/ evictor[e].pc = "work" /\ evictor[e].current # "EVICTING"
    \/ evictor[e].pc = "finish"

OneOwner ==
    /\ \A e \in Evictors : Owns(e) => states[evictor[e].res] = "EVICTING"
    /\ \A e, f \in Evictors : Owns(e) /\ Owns(f) /\ evictor[e].res = evictor[f].res => e = f

OneTransfer ==
    /\ \A t \in Tasks : Active(t) =>
          \/ states[task[t].res] = "LOADING"
          \/ \E e \in Evictors : /\ Owns(e) /\ evictor[e].res = task[t].res
                                 /\ evictor[e].pc = "work" /\ evictor[e].current = "LOADING"
    /\ \A t, u \in Tasks : Active(t) /\ Active(u) /\ task[t].res = task[u].res => t = u

BlocksMatch ==
    /\ \A r \in Resources : states[r] = "DISK" => block[r] = None
    /\ \A e \in Evictors : Owns(e) =>
          CASE evictor[e].pc = "finish" -> block[evictor[e].res] = None
            [] evictor[e].pc = "work" /\ evictor[e].current = "DISK" -> block[evictor[e].res] = None
            [] evictor[e].pc = "work" /\ evictor[e].current \in {"WARM", "HOT"} ->
                   block[evictor[e].res] \in live
            [] OTHER -> TRUE
    /\ \A t \in Tasks : Active(t) =>
          IF task[t].pc = "allocate" THEN block[task[t].res] = None
          ELSE block[task[t].res] \in live

IInv == TypeOK /\ OneOwner /\ OneTransfer /\ BlocksMatch /\ BlockWhenResident /\ NoBlockLost

USE StreamingAssumption

-----------------------------------------------------------------------------
(* Facts about tasks.                                                       *)

\* A task that ends is active no more; the others go on.
LEMMA FinishFacts ==
    ASSUME TypeOK, NEW t \in Tasks, task[t].res \in Resources, Finish(t)
    PROVE  /\ task' \in [Tasks -> TaskRecords]
           /\ task'[t].pc # "none" => task'[t].res \in Resources
           /\ \A u \in Tasks \ {t} : task'[u] = task[u]
           /\ ~Active(t)'
  <1>1. [task[t] EXCEPT !.pc = "done"] \in TaskRecords BY DEF TypeOK, TaskRecords
  <1>2. FreeSlot \in TaskRecords BY DEF FreeSlot, TaskRecords
  <1>3. task'[t] \in {[task[t] EXCEPT !.pc = "done"], FreeSlot}
    BY DEF Finish, TypeOK
  <1>4. task' \in [Tasks -> TaskRecords] BY <1>1, <1>2 DEF Finish, TypeOK
  <1>5. task'[t].pc \in {"done", "none"} /\ (task'[t].pc = "done" => task'[t].res = task[t].res)
    BY <1>1, <1>3 DEF FreeSlot, TypeOK, TaskRecords
  <1>6. \A u \in Tasks \ {t} : task'[u] = task[u] BY DEF Finish, TypeOK
  <1> QED BY <1>4, <1>5, <1>6 DEF Active

\* A task that goes on changes where it is.
LEMMA GoOnFacts ==
    ASSUME TypeOK, NEW t \in Tasks, NEW pc \in {"allocate", "finish", "move"},
           task' = [task EXCEPT ![t].pc = pc]
    PROVE  /\ task' \in [Tasks -> TaskRecords]
           /\ task'[t].pc = pc /\ task'[t].kind = task[t].kind /\ task'[t].res = task[t].res
           /\ \A u \in Tasks \ {t} : task'[u] = task[u]
  <1>1. [task[t] EXCEPT !.pc = pc] \in TaskRecords BY DEF TypeOK, TaskRecords
  <1>2. task' = [task EXCEPT ![t] = [task[t] EXCEPT !.pc = pc]] BY DEF TypeOK
  <1> QED BY <1>1, <1>2 DEF TypeOK, TaskRecords

\* A new task begins in a free slot.
LEMMA SpawnFacts ==
    ASSUME TypeOK, NEW r \in Resources, NEW kind \in {"load", "promoteCPU", "promoteGPU"},
           Spawn(kind, r)
    PROVE  /\ NextSlot \in Tasks
           /\ task' \in [Tasks -> TaskRecords]
           /\ \A t \in Tasks : task'[t].pc # "none" => task'[t].res \in Resources
           /\ \A t \in Tasks : task'[t] = task[t] \/ (~Active(t) /\ ~Active(t)')
  <1>1. NextSlot \in Tasks /\ task[NextSlot] = FreeSlot BY DEF Spawn, NextSlot, FreeSlots
  <1>2. [kind |-> kind, pc |-> "begin", res |-> r] \in TaskRecords BY DEF TaskRecords
  <1>3. task' = [task EXCEPT ![NextSlot] = [kind |-> kind, pc |-> "begin", res |-> r]]
    BY DEF Spawn
  <1>4. task' \in [Tasks -> TaskRecords] BY <1>1, <1>2, <1>3 DEF TypeOK
  <1>5. /\ task'[NextSlot] = [kind |-> kind, pc |-> "begin", res |-> r]
        /\ \A t \in Tasks : t # NextSlot => task'[t] = task[t]
    BY <1>1, <1>3 DEF TypeOK
  <1>6. ~Active(NextSlot) BY <1>1 DEF Active, FreeSlot
  <1>7. task'[NextSlot].pc = "begin" /\ task'[NextSlot].res = r BY <1>5
  <1>8. \A t \in Tasks : t = NextSlot => ~Active(t)' BY <1>7 DEF Active
  <1> QED BY <1>1, <1>4, <1>5, <1>6, <1>7, <1>8 DEF TypeOK

\* The compare-and-set of a residency.
LEMMA TransitionFacts ==
    ASSUME TypeOK, NEW r \in Resources, NEW from, NEW to \in Residencies, Transition(r, from, to)
    PROVE  /\ states' \in [Resources -> Residencies]
           /\ states'[r] = IF states[r] = from THEN to ELSE states[r]
           /\ \A s \in Resources \ {r} : states'[s] = states[s]
  BY DEF Transition, TypeOK

-----------------------------------------------------------------------------
(* Steps that transfer nothing.                                             *)

\* Nothing but tasks that are not active, and the executing thread, changes.
LEMMA InactiveStep ==
    ASSUME IInv, TypeOK', UNCHANGED <<states, block, live, evictor>>,
           \A t \in Tasks : task'[t] = task[t] \/ (~Active(t) /\ ~Active(t)')
    PROVE  IInv'
  <1>1. \A t \in Tasks : Active(t)' => task'[t] = task[t] /\ Active(t) BY DEF Active
  <1>2. \A e \in Evictors : Owns(e)' <=> Owns(e) BY DEF Owns
  <1>3. OneOwner' BY <1>2 DEF IInv, OneOwner
  <1>4. OneTransfer' BY <1>1, <1>2 DEF IInv, OneTransfer
  <1>5. BlocksMatch' BY <1>1, <1>2 DEF IInv, BlocksMatch
  <1>6. BlockWhenResident' /\ NoBlockLost' BY DEF IInv, BlockWhenResident, NoBlockLost
  <1> QED BY <1>3, <1>4, <1>5, <1>6 DEF IInv

LEMMA InitIInv == Init => IInv
  <1> SUFFICES ASSUME Init PROVE IInv OBVIOUS
  <1>1. TypeOK
    BY DEF Init, TypeOK, FreeSlot, Resting, TaskRecords, EvictRecords, ExecRecords, Residencies
  <1>2. \A t \in Tasks : ~Active(t) BY DEF Init, Active, FreeSlot
  <1>3. \A e \in Evictors : ~Owns(e) BY DEF Init, Owns, Resting
  <1>4. OneOwner /\ OneTransfer /\ BlocksMatch
    BY <1>2, <1>3 DEF OneOwner, OneTransfer, BlocksMatch, Init
  <1>5. BlockWhenResident /\ NoBlockLost BY DEF Init, BlockWhenResident, NoBlockLost
  <1> QED BY <1>1, <1>4, <1>5 DEF IInv

\* The thread in executeLayer starts tasks and waits for them, and promotions
\* by clients are started.
LEMMA ExecStepInv ==
    ASSUME IInv, ExecStep \/ (\E l \in Layers : executeLayer(l))
    PROVE  IInv'
  <1> USE DEF IInv
  <1>1. UNCHANGED <<states, block, live, evictor>>
    BY DEF ExecStep, executeLayer, PrefetchInput, PrefetchDone, CheckInput, LoadWaited, Waited,
           Dispatch, Dispatched, PromoteInput, PromoteWaited, LayerDone
  <1> DEFINE TaskOK == /\ task' \in [Tasks -> TaskRecords]
                       /\ \A t \in Tasks : task'[t].pc # "none" => task'[t].res \in Resources
                       /\ \A t \in Tasks : task'[t] = task[t] \/ (~Active(t) /\ ~Active(t)')
             ExecOK == /\ exec' \in ExecRecords
                       /\ exec'.pc # "idle" => exec'.layer \in Layers
                       /\ IF exec'.pc = "prefetch" THEN exec'.todo \subseteq Layers \X Resources
                          ELSE exec'.pc # "idle" => exec'.todo \subseteq Resources
  <1>2. UNCHANGED task => TaskOK BY DEF TypeOK
  <1>3. ASSUME NEW l \in Layers, executeLayer(l) PROVE TaskOK /\ ExecOK
    <2>1. exec'.pc = "prefetch" /\ exec'.layer = l /\ exec'.task = None
          /\ exec'.todo \subseteq Layers \X Resources
      BY <1>3 DEF executeLayer, Prefetches
    <2>2. ExecOK BY <1>3, <2>1 DEF executeLayer, ExecRecords, Prefetches
    <2> QED BY <1>2, <1>3, <2>2 DEF executeLayer
  <1>4. ASSUME PrefetchInput PROVE TaskOK /\ ExecOK
    <2>1. PICK x \in exec.todo :
             /\ exec' = [exec EXCEPT !.todo = @ \ {x}]
             /\ IF states[x[2]] = "DISK" THEN Spawn("load", x[2]) ELSE UNCHANGED task
      BY <1>4 DEF PrefetchInput
    <2>2. exec.pc = "prefetch" /\ x[2] \in Resources BY <1>4 DEF PrefetchInput, TypeOK
    <2>3. ExecOK BY <2>1, <2>2 DEF TypeOK, ExecRecords
    <2>4. TaskOK BY <1>2, <2>1, <2>2, SpawnFacts
    <2> QED BY <2>3, <2>4
  <1>5. ASSUME NEW pc \in {"inputs", "dispatch", "promote"}, exec.pc # "idle", GotoInputs(pc), UNCHANGED task
        PROVE  TaskOK /\ ExecOK
    BY <1>2, <1>5 DEF GotoInputs, TypeOK, ExecRecords
  <1>6. ASSUME NEW kind \in {"load", "promoteCPU"}, NEW from, NEW pc \in {"loading", "promoting"},
               exec.pc \in {"inputs", "promote"}, NEW r \in exec.todo,
               IF states[r] = from
               THEN /\ Spawn(kind, r)
                    /\ exec' = [exec EXCEPT !.pc = pc, !.todo = @ \ {r}, !.task = NextSlot]
               ELSE exec' = [exec EXCEPT !.todo = @ \ {r}] /\ UNCHANGED task
        PROVE  TaskOK /\ ExecOK
    <2>1. r \in Resources /\ exec.todo \subseteq Resources BY <1>6 DEF TypeOK
    <2>2. CASE states[r] = from
      <3>1. TaskOK /\ NextSlot \in Tasks BY <1>6, <2>1, <2>2, SpawnFacts
      <3>2. exec' = [exec EXCEPT !.pc = pc, !.todo = @ \ {r}, !.task = NextSlot] BY <1>6, <2>2
      <3>3. exec'.pc = pc /\ exec'.todo = exec.todo \ {r} /\ exec'.layer = exec.layer
        BY <3>2 DEF TypeOK, ExecRecords
      <3>4. exec' \in ExecRecords BY <3>1, <3>2 DEF TypeOK, ExecRecords
      <3> QED BY <1>6, <2>1, <3>1, <3>3, <3>4 DEF TypeOK
    <2>3. CASE states[r] # from BY <1>2, <1>6, <2>1, <2>3 DEF TypeOK, ExecRecords
    <2> QED BY <2>2, <2>3
  <1>7. ASSUME CheckInput PROVE TaskOK /\ ExecOK
    <2> HIDE DEF TaskOK, ExecOK
    <2> QED BY <1>6, <1>7 DEF CheckInput
  <1>8. ASSUME PromoteInput PROVE TaskOK /\ ExecOK
    <2> HIDE DEF TaskOK, ExecOK
    <2> QED BY <1>6, <1>8 DEF PromoteInput
  <1>9. ASSUME NEW from \in {"loading", "promoting"}, NEW to \in {"inputs", "promote"}, Waited(from, to)
        PROVE  TaskOK /\ ExecOK
    <2>1. ExecOK BY <1>9 DEF Waited, TypeOK, ExecRecords
    <2>2. FreeSlot \in TaskRecords /\ FreeSlot.pc = "none" BY DEF FreeSlot, TaskRecords
    <2>3. \A t \in Tasks : task'[t] = task[t] \/ (t = exec.task /\ task'[t] = FreeSlot)
      BY <1>9 DEF Waited, TypeOK
    <2>4. \A t \in Tasks : t = exec.task => ~Active(t) BY <1>9 DEF Waited, Active
    <2>5. \A t \in Tasks : task'[t] = FreeSlot => ~Active(t)' BY <2>2 DEF Active
    <2>6. task' \in [Tasks -> TaskRecords] BY <1>9, <2>2 DEF Waited, TypeOK
    <2>7. TaskOK BY <2>2, <2>3, <2>4, <2>5, <2>6 DEF TypeOK
    <2> QED BY <2>1, <2>7
  <1>10. ASSUME LayerDone PROVE TaskOK /\ ExecOK BY <1>2, <1>10 DEF LayerDone, TypeOK, ExecRecords
  <1>11. TaskOK /\ ExecOK
    <2>1. CASE PrefetchDone BY <1>5, <2>1 DEF PrefetchDone
    <2>2. CASE Dispatch BY <1>5, <2>2 DEF Dispatch
    <2>3. CASE Dispatched BY <1>5, <2>3 DEF Dispatched
    <2>4. CASE LoadWaited BY <1>9, <2>4 DEF LoadWaited
    <2>5. CASE PromoteWaited BY <1>9, <2>5 DEF PromoteWaited
    <2> HIDE DEF TaskOK, ExecOK
    <2> QED BY <1>3, <1>4, <1>7, <1>8, <1>10, <2>1, <2>2, <2>3, <2>4, <2>5 DEF ExecStep
  <1>12. TypeOK' BY <1>1, <1>11 DEF TypeOK
  <1> QED BY <1>1, <1>11, <1>12, InactiveStep

\* A client starts a promotion, or begins to evict.
LEMMA ClientStepInv ==
    ASSUME IInv, NEW r \in Resources,
           \/ \E kind \in {"promoteCPU", "promoteGPU"} : promoteToHotAsync(r, kind)
           \/ \E e \in Evictors, target \in {"DISK", "WARM"} : evict(e, r, target)
    PROVE  IInv'
  <1> USE DEF IInv
  <1>1. ASSUME NEW kind \in {"promoteCPU", "promoteGPU"}, promoteToHotAsync(r, kind) PROVE IInv'
    <2>1. TypeOK' BY <1>1, SpawnFacts DEF promoteToHotAsync, TypeOK
    <2> QED BY <1>1, <2>1, SpawnFacts, InactiveStep DEF promoteToHotAsync
  <1>2. ASSUME NEW e \in Evictors, NEW target \in {"DISK", "WARM"}, evict(e, r, target) PROVE IInv'
    <2> DEFINE v == [pc |-> "begin", res |-> r, current |-> states[r], target |-> target]
    <2>1. v \in EvictRecords BY DEF TypeOK, EvictRecords
    <2>2. evictor'[e] = v /\ \A f \in Evictors \ {e} : evictor'[f] = evictor[f]
      BY <1>2 DEF evict, TypeOK
    <2>3. TypeOK' BY <1>2, <2>1, <2>2 DEF evict, TypeOK
    <2>4. ~Owns(e) /\ ~Owns(e)' BY <1>2, <2>2 DEF Owns, evict
    <2>5. \A f \in Evictors : Owns(f)' => Owns(f) /\ evictor'[f] = evictor[f] BY <2>2, <2>4 DEF Owns
    <2>6. \A f \in Evictors : Owns(f) => Owns(f)' /\ evictor'[f] = evictor[f] BY <2>2, <2>4 DEF Owns
    <2>7. \A t \in Tasks : Active(t)' <=> Active(t) BY <1>2 DEF evict, Active
    <2>8. UNCHANGED <<states, block, live, task>> BY <1>2 DEF evict
    <2>9. OneOwner' BY <2>5, <2>8 DEF OneOwner
    <2>10. OneTransfer' BY <2>6, <2>7, <2>8 DEF OneTransfer
    <2>11. BlocksMatch' BY <2>5, <2>7, <2>8 DEF BlocksMatch
    <2> QED BY <2>3, <2>8, <2>9, <2>10, <2>11 DEF BlockWhenResident, NoBlockLost
  <1> QED BY <1>1, <1>2

-----------------------------------------------------------------------------
(* Tasks: loadToWarmAsync and promoteToHotAsync.                            *)

\* An eviction that meets an active transfer is one that will put LOADING back.
LEMMA OwnerOfLoading ==
    ASSUME IInv, NEW t \in Tasks, Active(t), NEW e \in Evictors, Owns(e),
           evictor[e].res = task[t].res
    PROVE  evictor[e].pc = "work" /\ evictor[e].current = "LOADING"
  BY DEF IInv, OneOwner, OneTransfer

\* A task that wins the compare-and-set is the only transfer of its resource:
\* while it was on DISK or WARM nobody else was at work on it.
LEMMA TransferBegins ==
    ASSUME IInv, NEW t \in Tasks, NEW from \in {"DISK", "WARM"}, NEW pc \in {"allocate", "move"},
           (from = "DISK" /\ pc = "allocate") \/ (from = "WARM" /\ pc = "move"),
           task[t].res \in Resources, states[task[t].res] = from,
           task[t].pc = "begin", pc = "allocate" => task[t].kind = "load",
           Transition(task[t].res, from, "LOADING"),
           task' = [task EXCEPT ![t].pc = pc],
           UNCHANGED <<block, live, exec, evictor>>
    PROVE  IInv'
  <1> USE DEF IInv
  <1> DEFINE r == task[t].res
  <1>1. /\ task' \in [Tasks -> TaskRecords] /\ task'[t].pc = pc /\ task'[t].kind = task[t].kind
        /\ task'[t].res = task[t].res /\ \A u \in Tasks \ {t} : task'[u] = task[u]
    BY GoOnFacts
  <1>2. /\ states' \in [Resources -> Residencies] /\ states'[r] = "LOADING"
        /\ \A x \in Resources \ {r} : states'[x] = states[x]
    BY TransitionFacts DEF Residencies
  <1>3. TypeOK' BY <1>1, <1>2 DEF TypeOK
  <1>4. \A e \in Evictors : (Owns(e)' <=> Owns(e)) /\ (Owns(e) => evictor[e].res \in Resources \ {r})
    BY DEF Owns, OneOwner, TypeOK
  <1>5. \A u \in Tasks : Active(u) => task[u].res \in Resources \ {r}
    <2>1. \A u \in Tasks : Active(u) => task[u].res \in Resources BY DEF Active, TypeOK
    <2> QED BY <1>4, <2>1 DEF OneTransfer
  <1>6. Active(t)' /\ \A u \in Tasks \ {t} : Active(u)' <=> Active(u) BY <1>1 DEF Active
  <1>7. OneOwner' BY <1>2, <1>4 DEF OneOwner
  <1>8. OneTransfer' BY <1>1, <1>2, <1>4, <1>5, <1>6 DEF OneTransfer
  <1>9. BlocksMatch'
    <2>1. \A x \in Resources : states'[x] = "DISK" => block'[x] = None BY <1>2 DEF BlocksMatch
    <2>2. IF pc = "allocate" THEN block[r] = None ELSE block[r] \in live
      BY DEF BlocksMatch, BlockWhenResident
    <2> QED BY <1>1, <1>4, <1>6, <2>1, <2>2 DEF BlocksMatch
  <1>10. BlockWhenResident' /\ NoBlockLost' BY <1>2 DEF BlockWhenResident, NoBlockLost
  <1> QED BY <1>3, <1>7, <1>8, <1>9, <1>10

\* A task whose compare-and-set fails ends.
LEMMA TransferRefused ==
    ASSUME IInv, NEW t \in Tasks, task[t].res \in Resources, ~Active(t), Finish(t),
           UNCHANGED <<states, block, live, exec, evictor>>
    PROVE  IInv'
  <1>1. TypeOK' BY FinishFacts DEF IInv, TypeOK
  <1> QED BY <1>1, FinishFacts, InactiveStep DEF IInv

\* loadToWarmAsync and promoteToHotAsync up to their compare-and-set.
LEMMA BeginStep ==
    ASSUME IInv, NEW t \in Tasks, LoadBegin(t) \/ PromoteBegin(t) PROVE IInv'
  <1>1. task[t].res \in Resources /\ task[t].pc = "begin" /\ ~Active(t)
    BY DEF IInv, TypeOK, LoadBegin, PromoteBegin, Active
  <1>2. CASE LoadBegin(t)
    <2>1. CASE states[task[t].res] = "DISK" BY <1>1, <1>2, <2>1, TransferBegins DEF LoadBegin
    <2>2. CASE states[task[t].res] # "DISK"
      BY <1>1, <1>2, <2>2, TransferRefused DEF LoadBegin, Transition
    <2> QED BY <2>1, <2>2
  <1>3. CASE PromoteBegin(t)
    <2>1. CASE states[task[t].res] = "WARM" BY <1>1, <1>3, <2>1, TransferBegins DEF PromoteBegin
    <2>2. CASE states[task[t].res] # "WARM"
      BY <1>1, <1>3, <2>2, TransferRefused DEF PromoteBegin, Transition
    <2> QED BY <2>1, <2>2
  <1> QED BY <1>2, <1>3

\* A load allocates: the resource had no block, and the new one is nobody's.
LEMMA AllocateStep ==
    ASSUME IInv, NEW t \in Tasks, LoadAllocate(t) PROVE IInv'
  <1> USE DEF IInv
  <1> DEFINE r == task[t].res
  <1>1. r \in Resources /\ task[t].pc = "allocate" /\ task[t].kind = "load" /\ Active(t)
    BY DEF LoadAllocate, TypeOK, Active
  <1>2. block[r] = None BY <1>1 DEF BlocksMatch
  <1>3. PICK b \in Blocks \ live : live' = live \cup {b} /\ block' = [block EXCEPT ![r] = b]
    BY DEF LoadAllocate
  <1>4. block'[r] = b /\ \A x \in Resources \ {r} : block'[x] = block[x] BY <1>1, <1>3 DEF TypeOK
  <1>5. /\ task' \in [Tasks -> TaskRecords] /\ task'[t].pc = "finish" /\ task'[t].kind = task[t].kind
        /\ task'[t].res = r /\ \A u \in Tasks \ {t} : task'[u] = task[u]
    BY GoOnFacts DEF LoadAllocate
  <1>6. UNCHANGED <<states, exec, evictor>> BY DEF LoadAllocate
  <1>7. TypeOK' BY <1>1, <1>3, <1>5, <1>6 DEF TypeOK
  <1>8. Active(t)' /\ \A u \in Tasks \ {t} : Active(u)' <=> Active(u) BY <1>1, <1>5 DEF Active
  <1>9. \A e \in Evictors : Owns(e)' <=> Owns(e) BY <1>6 DEF Owns
  <1>10. OneOwner' BY <1>6, <1>9 DEF OneOwner
  <1>11. OneTransfer' BY <1>1, <1>5, <1>6, <1>8, <1>9 DEF OneTransfer
  <1>12. BlocksMatch'
    <2>1. states[r] # "DISK" BY <1>1 DEF OneTransfer, OneOwner
    <2>2. \A x \in Resources : states'[x] = "DISK" => block'[x] = None
      BY <1>4, <1>6, <2>1 DEF BlocksMatch
    <2>3. ASSUME NEW e \in Evictors, Owns(e)'
          PROVE  CASE evictor'[e].pc = "finish" -> block'[evictor'[e].res] = None
                   [] evictor'[e].pc = "work" /\ evictor'[e].current = "DISK" -> block'[evictor'[e].res] = None
                   [] evictor'[e].pc = "work" /\ evictor'[e].current \in {"WARM", "HOT"} ->
                          block'[evictor'[e].res] \in live'
                   [] OTHER -> TRUE
      <3>1. Owns(e) /\ evictor'[e] = evictor[e] /\ evictor[e].res \in Resources
        BY <1>6, <1>9, <2>3 DEF Owns, TypeOK
      <3>2. CASE evictor[e].res = r BY <1>1, <3>1, <3>2, OwnerOfLoading
      <3>3. CASE evictor[e].res # r BY <1>3, <1>4, <3>1, <3>3 DEF BlocksMatch
      <3> QED BY <3>2, <3>3
    <2>4. ASSUME NEW u \in Tasks, Active(u)'
          PROVE  IF task'[u].pc = "allocate" THEN block'[task'[u].res] = None
                 ELSE block'[task'[u].res] \in live'
      <3>1. CASE u = t BY <1>3, <1>4, <1>5, <3>1
      <3>2. CASE u # t
        <4>1. Active(u) /\ task'[u] = task[u] /\ task[u].res \in Resources \ {r}
          BY <1>1, <1>5, <1>8, <2>4, <3>2 DEF OneTransfer, Active, TypeOK
        <4> QED BY <1>3, <1>4, <4>1 DEF BlocksMatch
      <3> QED BY <3>1, <3>2
    <2> QED BY <2>2, <2>3, <2>4 DEF BlocksMatch
  <1>13. BlockWhenResident'
    <2>1. states[r] \notin {"WARM", "HOT"} BY <1>1 DEF OneTransfer, OneOwner
    <2> QED BY <1>3, <1>4, <1>6, <2>1 DEF BlockWhenResident
  <1>14. NoBlockLost'
    <2>1. \A x \in Resources : block[x] # b BY <1>3 DEF NoBlockLost, TypeOK
    <2>2. b # None BY <1>3
    <2>3. \A c \in live' : \E x \in Resources : block'[x] = c
      <3> SUFFICES ASSUME NEW c \in live' PROVE \E x \in Resources : block'[x] = c OBVIOUS
      <3>1. CASE c = b BY <1>1, <1>4, <3>1
      <3>2. CASE c # b
        <4>1. PICK x \in Resources : block[x] = c BY <1>3, <3>2 DEF NoBlockLost
        <4>2. x # r BY <1>2, <1>3, <3>2, <4>1 DEF TypeOK
        <4> QED BY <1>4, <4>1, <4>2
      <3> QED BY <3>1, <3>2
    <2>4. \A x, y \in Resources : x # y /\ block'[x] # None => block'[x] # block'[y]
      BY <1>1, <1>4, <2>1, <2>2 DEF NoBlockLost
    <2>5. \A x \in Resources : block'[x] # None => block'[x] \in live'
      BY <1>3, <1>4 DEF NoBlockLost
    <2> QED BY <2>3, <2>4, <2>5 DEF NoBlockLost
  <1> QED BY <1>7, <1>10, <1>11, <1>12, <1>13, <1>14

\* A task that ends its transfer, or finds that an eviction has taken it: the
\* residency it leaves is one that its block agrees with.
LEMMA TransferEnds ==
    ASSUME IInv, NEW t \in Tasks, Active(t), task[t].res \in Resources,
           NEW to \in {"DISK", "WARM", "HOT"},
           to = "DISK" <=> task[t].pc = "allocate",
           Transition(task[t].res, "LOADING", to), Finish(t),
           UNCHANGED <<block, live, exec, evictor>>
    PROVE  IInv'
  <1> USE DEF IInv
  <1> DEFINE r == task[t].res
  <1>1. /\ task' \in [Tasks -> TaskRecords] /\ (task'[t].pc # "none" => task'[t].res \in Resources)
        /\ \A u \in Tasks \ {t} : task'[u] = task[u]
        /\ ~Active(t)'
    BY FinishFacts
  <1>2. /\ states' \in [Resources -> Residencies]
        /\ states'[r] = IF states[r] = "LOADING" THEN to ELSE states[r]
        /\ \A x \in Resources \ {r} : states'[x] = states[x]
    <2>1. to \in Residencies BY DEF Residencies
    <2> QED BY <2>1, TransitionFacts
  <1>3. TypeOK' BY <1>1, <1>2 DEF TypeOK
  <1>4. \A u \in Tasks : Active(u)' => u # t /\ Active(u) /\ task'[u] = task[u] /\ task[u].res \in Resources \ {r}
    BY <1>1 DEF Active, OneTransfer, TypeOK
  <1>5. \A e \in Evictors : (Owns(e)' <=> Owns(e)) /\ (Owns(e) => evictor[e].res \in Resources)
    BY DEF Owns, TypeOK
  <1>6. OneOwner' BY <1>2, <1>5 DEF OneOwner
  <1>7. OneTransfer' BY <1>2, <1>4, <1>5 DEF OneTransfer
  <1>8. to = "DISK" => block[r] = None BY DEF BlocksMatch
  <1>9. to # "DISK" => block[r] \in live BY DEF BlocksMatch
  <1>10. BlocksMatch'
    <2>1. \A x \in Resources : states'[x] = "DISK" => block'[x] = None BY <1>2, <1>8 DEF BlocksMatch
    <2> QED BY <1>4, <1>5, <2>1 DEF BlocksMatch
  <1>11. BlockWhenResident' BY <1>2, <1>9 DEF BlockWhenResident
  <1> QED BY <1>3, <1>6, <1>7, <1>10, <1>11 DEF NoBlockLost

\* LoadFails, LoadFinish and PromoteFinish are ends of a transfer.
LEMMA EndStep ==
    ASSUME IInv, NEW t \in Tasks, LoadFails(t) \/ LoadFinish(t) \/ PromoteFinish(t) PROVE IInv'
  <1> USE DEF IInv
  <1>1. Active(t) /\ task[t].res \in Resources
    BY DEF LoadFails, LoadFinish, PromoteFinish, Active, TypeOK
  <1>2. CASE LoadFails(t)
    <2>1. block[task[t].res] = None BY <1>1, <1>2 DEF LoadFails, BlocksMatch
    <2>2. block' = block BY <1>1, <1>2, <2>1 DEF LoadFails, TypeOK
    <2> QED BY <1>1, <1>2, <2>2, TransferEnds DEF LoadFails
  <1>3. CASE LoadFinish(t) BY <1>1, <1>3, TransferEnds DEF LoadFinish
  <1>4. CASE PromoteFinish(t) BY <1>1, <1>4, TransferEnds DEF PromoteFinish
  <1> QED BY <1>2, <1>3, <1>4

-----------------------------------------------------------------------------
(* Evictions.                                                               *)

\* The eviction of e changes as v says, the others go on.
LEMMA EvictorFacts ==
    ASSUME TypeOK, NEW e \in Evictors, NEW v \in EvictRecords,
           evictor' = [evictor EXCEPT ![e] = v], v.pc # "idle" => v.res \in Resources
    PROVE  /\ evictor' \in [Evictors -> EvictRecords]
           /\ \A f \in Evictors : evictor'[f].pc # "idle" => evictor'[f].res \in Resources
           /\ evictor'[e] = v
           /\ \A f \in Evictors \ {e} : evictor'[f] = evictor[f] /\ (Owns(f)' <=> Owns(f))
  BY DEF TypeOK, Owns

\* An eviction comes to rest.
LEMMA RestingFacts == Resting \in EvictRecords /\ Resting.pc = "idle"
  BY DEF Resting, EvictRecords, Residencies

\* Whoever reads a residency and still finds it owns the resource from then
\* on: it was nobody else's, or LOADING, or it was EVICTING before.
LEMMA EvictBeginStep ==
    ASSUME IInv, NEW e \in Evictors, EvictBegin(e) PROVE IInv'
  <1> USE DEF IInv
  <1> DEFINE v == evictor[e]
             r == evictor[e].res
             w == [v EXCEPT !.pc = "work"]
  <1>1. v \in EvictRecords /\ r \in Resources /\ v.pc = "begin" /\ ~Owns(e)
    BY DEF EvictBegin, TypeOK, Owns
  <1>2. w \in EvictRecords /\ w.pc = "work" /\ w.res = r /\ w.current = v.current
    BY <1>1 DEF EvictRecords
  <1>3. UNCHANGED <<block, live, task, exec>> BY DEF EvictBegin
  <1>4. \A t \in Tasks : Active(t)' <=> Active(t) BY <1>3 DEF Active
  <1>5. CASE states[r] # v.current
    <2>1. UNCHANGED states BY <1>5 DEF EvictBegin, Transition
    <2>2. evictor' = [evictor EXCEPT ![e] = Resting] BY <1>5 DEF EvictBegin
    <2>3. /\ evictor' \in [Evictors -> EvictRecords]
          /\ \A f \in Evictors : evictor'[f].pc # "idle" => evictor'[f].res \in Resources
          /\ evictor'[e] = Resting
          /\ \A f \in Evictors \ {e} : evictor'[f] = evictor[f] /\ (Owns(f)' <=> Owns(f))
      BY <2>2, RestingFacts, EvictorFacts
    <2>4. ~Owns(e)' BY <2>3, RestingFacts DEF Owns
    <2>5. TypeOK' BY <1>3, <2>1, <2>3 DEF TypeOK
    <2>6. OneOwner' BY <2>1, <2>3, <2>4 DEF OneOwner
    <2>7. OneTransfer' BY <1>1, <1>3, <1>4, <2>1, <2>3 DEF OneTransfer
    <2>8. BlocksMatch' BY <1>3, <1>4, <2>1, <2>3, <2>4 DEF BlocksMatch
    <2> QED BY <1>3, <2>1, <2>5, <2>6, <2>7, <2>8 DEF BlockWhenResident, NoBlockLost
  <1>6. CASE states[r] = v.current
    <2>1. evictor' = [evictor EXCEPT ![e] = w] BY <1>6 DEF EvictBegin
    <2>2. /\ evictor' \in [Evictors -> EvictRecords]
          /\ \A f \in Evictors : evictor'[f].pc # "idle" => evictor'[f].res \in Resources
          /\ evictor'[e] = w
          /\ \A f \in Evictors \ {e} : evictor'[f] = evictor[f] /\ (Owns(f)' <=> Owns(f))
      BY <1>1, <1>2, <2>1, EvictorFacts
    <2>3. /\ states' \in [Resources -> Residencies] /\ states'[r] = "EVICTING"
          /\ \A x \in Resources \ {r} : states'[x] = states[x]
      BY <1>1, <1>6, TransitionFacts DEF EvictBegin, Residencies
    <2>4. TypeOK' BY <1>3, <2>2, <2>3 DEF TypeOK
    <2>5. Owns(e)' <=> v.current # "EVICTING" BY <1>2, <2>2 DEF Owns
    <2>6. \A f \in Evictors \ {e} : Owns(f) => evictor[f].res \in Resources BY DEF Owns, TypeOK
    <2>7. v.current # "EVICTING" => \A f \in Evictors : Owns(f) => evictor[f].res # r
      BY <1>6 DEF OneOwner
    <2>8. OneOwner'
      <3>1. \A f \in Evictors : Owns(f)' => states'[evictor'[f].res] = "EVICTING"
        <4>1. \A f \in Evictors \ {e} : Owns(f)' => states'[evictor'[f].res] = "EVICTING"
          BY <2>2, <2>3, <2>6 DEF OneOwner
        <4>2. states'[evictor'[e].res] = "EVICTING" BY <1>2, <2>2, <2>3
        <4> QED BY ONLY <4>1, <4>2
      <3>2. ASSUME NEW f \in Evictors, NEW g \in Evictors, Owns(f)', Owns(g)',
                   evictor'[f].res = evictor'[g].res
            PROVE  f = g
        <4>1. CASE f # e /\ g # e BY <2>2, <3>2, <4>1 DEF OneOwner
        <4>2. CASE f = e /\ g # e BY <1>2, <2>2, <2>5, <2>7, <3>2, <4>2
        <4>3. CASE f # e /\ g = e BY <1>2, <2>2, <2>5, <2>7, <3>2, <4>3
        <4> QED BY <4>1, <4>2, <4>3
      <3> QED BY <3>1, <3>2 DEF OneOwner
    <2>9. OneTransfer'
      <3>1. ASSUME NEW t \in Tasks, Active(t)'
            PROVE  \/ states'[task'[t].res] = "LOADING"
                   \/ \E f \in Evictors : /\ Owns(f)' /\ evictor'[f].res = task'[t].res
                                          /\ evictor'[f].pc = "work" /\ evictor'[f].current = "LOADING"
        <4>1. Active(t) /\ task'[t] = task[t] /\ task[t].res \in Resources
          BY <1>3, <1>4, <3>1 DEF Active, TypeOK
        <4>2. CASE states[task[t].res] = "LOADING" /\ task[t].res = r
          <5>1. Owns(e)' BY <1>6, <2>5, <4>2
          <5>2. evictor'[e].res = r /\ evictor'[e].pc = "work" /\ evictor'[e].current = "LOADING"
            BY <1>2, <1>6, <2>2, <4>2
          <5> QED BY ONLY <4>1, <4>2, <5>1, <5>2, e \in Evictors
        <4>3. CASE states[task[t].res] = "LOADING" /\ task[t].res # r BY <2>3, <4>1, <4>3
        <4>4. CASE states[task[t].res] # "LOADING"
          <5>1. PICK f \in Evictors : /\ Owns(f) /\ evictor[f].res = task[t].res
                                      /\ evictor[f].pc = "work" /\ evictor[f].current = "LOADING"
            BY <4>1, <4>4 DEF OneTransfer
          <5> QED BY <1>1, <2>2, <4>1, <5>1
        <4> QED BY <4>2, <4>3, <4>4
      <3> QED BY <1>3, <1>4, <3>1 DEF OneTransfer
    <2>10. BlocksMatch'
      <3>1. \A x \in Resources : states'[x] = "DISK" => block'[x] = None BY <1>3, <2>3 DEF BlocksMatch
      <3>2. v.current = "DISK" => block[r] = None BY <1>1, <1>6 DEF BlocksMatch
      <3>3. v.current \in {"WARM", "HOT"} => block[r] \in live BY <1>1, <1>6 DEF BlockWhenResident
      <3>4. \A f \in Evictors : Owns(f)' =>
              CASE evictor'[f].pc = "finish" -> block[evictor'[f].res] = None
                [] evictor'[f].pc = "work" /\ evictor'[f].current = "DISK" -> block[evictor'[f].res] = None
                [] evictor'[f].pc = "work" /\ evictor'[f].current \in {"WARM", "HOT"} ->
                       block[evictor'[f].res] \in live
                [] OTHER -> TRUE
        <4> TAKE f \in Evictors
        <4>1. CASE f = e BY <1>2, <2>2, <3>2, <3>3, <4>1
        <4>2. CASE f # e BY <2>2, <4>2 DEF BlocksMatch
        <4> QED BY <4>1, <4>2
      <3> QED BY <1>3, <1>4, <3>1, <3>4 DEF BlocksMatch
    <2>11. BlockWhenResident' BY <1>3, <2>3 DEF BlockWhenResident
    <2> QED BY <1>3, <2>4, <2>8, <2>9, <2>10, <2>11 DEF NoBlockLost
  <1> QED BY <1>5, <1>6

\* An eviction that has the residency WARM or HOT to itself releases the block.
LEMMA EvictReleaseStep ==
    ASSUME IInv, NEW e \in Evictors, EvictRelease(e) PROVE IInv'
  <1> USE DEF IInv
  <1> DEFINE v == evictor[e]
             r == evictor[e].res
             w == [v EXCEPT !.pc = "finish"]
  <1>1. /\ v \in EvictRecords /\ r \in Resources /\ v.pc = "work" /\ v.current \in {"WARM", "HOT"}
        /\ Owns(e)
    BY DEF EvictRelease, TypeOK, Owns
  <1>2. w \in EvictRecords /\ w.pc = "finish" /\ w.res = r /\ w.current = v.current
    BY <1>1 DEF EvictRecords
  <1>3. UNCHANGED <<states, task, exec>> BY DEF EvictRelease
  <1>4. evictor' = [evictor EXCEPT ![e] = w] BY DEF EvictRelease
  <1>5. /\ evictor' \in [Evictors -> EvictRecords]
        /\ \A f \in Evictors : evictor'[f].pc # "idle" => evictor'[f].res \in Resources
        /\ evictor'[e] = w
        /\ \A f \in Evictors \ {e} : evictor'[f] = evictor[f] /\ (Owns(f)' <=> Owns(f))
    BY <1>1, <1>2, <1>4, EvictorFacts
  <1>6. Owns(e)' BY <1>1, <1>2, <1>5 DEF Owns
  <1>7. /\ live' = live \ {block[r]} /\ block' = [block EXCEPT ![r] = None] BY DEF EvictRelease
  <1>8. block'[r] = None /\ \A x \in Resources \ {r} : block'[x] = block[x]
    BY <1>1, <1>7 DEF TypeOK
  <1>9. block[r] \in live /\ states[r] = "EVICTING" BY <1>1 DEF BlocksMatch, OneOwner
  <1>10. TypeOK' BY <1>3, <1>5, <1>7 DEF TypeOK
  <1>11. \A t \in Tasks : Active(t)' <=> Active(t) BY <1>3 DEF Active
  <1>12. \A t \in Tasks : Active(t) => task[t].res \in Resources \ {r}
    <2>1. \A t \in Tasks : Active(t) => task[t].res \in Resources BY DEF Active, TypeOK
    <2> QED BY <1>1, <2>1, OwnerOfLoading
  <1>13. \A f \in Evictors \ {e} : Owns(f) => evictor[f].res \in Resources \ {r}
    BY <1>1 DEF OneOwner, Owns, TypeOK
  <1>14. \A x \in Resources \ {r} : block[x] \in live => block'[x] \in live'
    BY <1>1, <1>7, <1>8, <1>9 DEF NoBlockLost, TypeOK
  <1>15. OneOwner'
    <2>1. \A f \in Evictors : evictor'[f].res = evictor[f].res /\ (Owns(f)' <=> Owns(f))
      BY <1>1, <1>2, <1>5, <1>6
    <2> QED BY <1>3, <2>1 DEF OneOwner
  <1>16. OneTransfer' BY <1>1, <1>3, <1>5, <1>11 DEF OneTransfer
  <1>17. BlocksMatch'
    <2>1. \A x \in Resources : states'[x] = "DISK" => block'[x] = None
      BY <1>3, <1>8, <1>9 DEF BlocksMatch
    <2>2. ASSUME NEW f \in Evictors, Owns(f)'
          PROVE  CASE evictor'[f].pc = "finish" -> block'[evictor'[f].res] = None
                   [] evictor'[f].pc = "work" /\ evictor'[f].current = "DISK" -> block'[evictor'[f].res] = None
                   [] evictor'[f].pc = "work" /\ evictor'[f].current \in {"WARM", "HOT"} ->
                          block'[evictor'[f].res] \in live'
                   [] OTHER -> TRUE
      <3>1. CASE f = e BY <1>2, <1>5, <1>8, <3>1
      <3>2. CASE f # e BY <1>5, <1>8, <1>13, <1>14, <2>2, <3>2 DEF BlocksMatch
      <3> QED BY <3>1, <3>2
    <2>3. ASSUME NEW t \in Tasks, Active(t)'
          PROVE  IF task'[t].pc = "allocate" THEN block'[task'[t].res] = None
                 ELSE block'[task'[t].res] \in live'
      BY <1>3, <1>8, <1>11, <1>12, <1>14, <2>3 DEF BlocksMatch
    <2> QED BY <2>1, <2>2, <2>3 DEF BlocksMatch
  <1>18. BlockWhenResident' BY <1>3, <1>9, <1>14 DEF BlockWhenResident
  <1>19. NoBlockLost'
    <2>1. \A c \in live' : \E x \in Resources : block'[x] = c
      BY <1>7, <1>8 DEF NoBlockLost
    <2>2. \A x, y \in Resources : x # y /\ block'[x] # None => block'[x] # block'[y]
      BY <1>8 DEF NoBlockLost
    <2>3. \A x \in Resources : block'[x] # None => block'[x] \in live'
      BY <1>8, <1>14 DEF NoBlockLost
    <2> QED BY <2>1, <2>2, <2>3 DEF NoBlockLost
  <1> QED BY <1>10, <1>15, <1>16, <1>17, <1>18, <1>19

\* An eviction gives the residency up, for one that the block agrees with.
LEMMA EvictEnds ==
    ASSUME IInv, NEW e \in Evictors, Owns(e), NEW to \in Residencies \ {"EVICTING"},
           to = "LOADING" <=> evictor[e].pc = "work" /\ evictor[e].current = "LOADING",
           to = "DISK" => block[evictor[e].res] = None,
           to \in {"WARM", "HOT"} => block[evictor[e].res] \in live,
           Transition(evictor[e].res, "EVICTING", to),
           evictor' = [evictor EXCEPT ![e] = Resting],
           UNCHANGED <<block, live, task, exec>>
    PROVE  IInv'
  <1> USE DEF IInv
  <1> DEFINE r == evictor[e].res
  <1>1. r \in Resources /\ states[r] = "EVICTING" BY DEF Owns, TypeOK, OneOwner
  <1>2. /\ states' \in [Resources -> Residencies] /\ states'[r] = to
        /\ \A x \in Resources \ {r} : states'[x] = states[x]
    BY <1>1, TransitionFacts
  <1>3. /\ evictor' \in [Evictors -> EvictRecords]
        /\ \A f \in Evictors : evictor'[f].pc # "idle" => evictor'[f].res \in Resources
        /\ evictor'[e] = Resting
        /\ \A f \in Evictors \ {e} : evictor'[f] = evictor[f] /\ (Owns(f)' <=> Owns(f))
    BY RestingFacts, EvictorFacts
  <1>4. ~Owns(e)' BY <1>3, RestingFacts DEF Owns
  <1>5. TypeOK' BY <1>2, <1>3 DEF TypeOK
  <1>6. \A f \in Evictors \ {e} : Owns(f) => evictor[f].res \in Resources \ {r}
    BY DEF OneOwner, Owns, TypeOK
  <1>7. OneOwner' BY <1>2, <1>3, <1>4, <1>6 DEF OneOwner
  <1>8. \A t \in Tasks : (Active(t)' <=> Active(t)) /\ (Active(t) => task[t].res \in Resources)
    BY DEF Active, TypeOK
  <1>9. OneTransfer'
    <2>1. ASSUME NEW t \in Tasks, Active(t)'
          PROVE  \/ states'[task'[t].res] = "LOADING"
                 \/ \E f \in Evictors : /\ Owns(f)' /\ evictor'[f].res = task'[t].res
                                        /\ evictor'[f].pc = "work" /\ evictor'[f].current = "LOADING"
      <3>1. Active(t) /\ task[t].res \in Resources BY <1>8, <2>1
      <3>2. CASE task[t].res = r BY <1>2, <3>1, <3>2, OwnerOfLoading
      <3>3. CASE task[t].res # r
        <4>1. CASE states[task[t].res] = "LOADING" BY <1>2, <3>1, <3>3, <4>1
        <4>2. CASE states[task[t].res] # "LOADING" BY <1>3, <3>1, <3>3, <4>2 DEF OneTransfer
        <4> QED BY <4>1, <4>2
      <3> QED BY <3>2, <3>3
    <2> QED BY <1>8, <2>1 DEF OneTransfer
  <1>10. BlocksMatch'
    <2>1. \A x \in Resources : states'[x] = "DISK" => block'[x] = None BY <1>2 DEF BlocksMatch
    <2> QED BY <1>3, <1>4, <1>8, <2>1 DEF BlocksMatch
  <1>11. BlockWhenResident' BY <1>2 DEF BlockWhenResident
  <1> QED BY <1>5, <1>7, <1>9, <1>10, <1>11 DEF NoBlockLost

\* An eviction that found EVICTING puts EVICTING back, which changes nothing.
LEMMA EvictIdles ==
    ASSUME IInv, NEW e \in Evictors, ~Owns(e), UNCHANGED states,
           evictor' = [evictor EXCEPT ![e] = Resting],
           UNCHANGED <<block, live, task, exec>>
    PROVE  IInv'
  <1> USE DEF IInv
  <1>1. /\ evictor' \in [Evictors -> EvictRecords]
        /\ \A f \in Evictors : evictor'[f].pc # "idle" => evictor'[f].res \in Resources
        /\ evictor'[e] = Resting
        /\ \A f \in Evictors \ {e} : evictor'[f] = evictor[f] /\ (Owns(f)' <=> Owns(f))
    BY RestingFacts, EvictorFacts
  <1>2. ~Owns(e)' BY <1>1, RestingFacts DEF Owns
  <1>3. TypeOK' BY <1>1 DEF TypeOK
  <1>4. \A t \in Tasks : Active(t)' <=> Active(t) BY DEF Active
  <1>5. OneOwner' BY <1>1, <1>2 DEF OneOwner
  <1>6. OneTransfer' BY <1>1, <1>4 DEF OneTransfer
  <1>7. BlocksMatch' BY <1>1, <1>2, <1>4 DEF BlocksMatch
  <1> QED BY <1>3, <1>5, <1>6, <1>7 DEF BlockWhenResident, NoBlockLost

\* The end of an eviction, after a release or without one.
LEMMA EvictEndStep ==
    ASSUME IInv, NEW e \in Evictors, EvictReleased(e) \/ EvictOther(e) PROVE IInv'
  <1> USE DEF IInv
  <1> DEFINE v == evictor[e]
  <1>1. v \in EvictRecords /\ v.res \in Resources BY DEF EvictReleased, EvictOther, TypeOK
  <1>2. CASE EvictReleased(e)
    <2>1. Owns(e) /\ v.pc = "finish" BY <1>2 DEF EvictReleased, Owns
    <2>2. block[v.res] = None BY <2>1 DEF BlocksMatch
    <2> QED BY <1>2, <2>1, <2>2, EvictEnds DEF EvictReleased, Residencies
  <1>3. CASE EvictOther(e)
    <2> DEFINE to == IF v.current = "HOT" /\ v.target = "WARM" THEN "WARM" ELSE v.current
    <2>1. v.pc = "work" /\ to \in Residencies BY <1>1, <1>3 DEF EvictOther, EvictRecords, Residencies
    <2>2. Transition(v.res, "EVICTING", to) /\ UNCHANGED <<block, live, task, exec>>
          /\ evictor' = [evictor EXCEPT ![e] = Resting]
      BY <1>3 DEF EvictOther
    <2>3. CASE v.current = "EVICTING"
      <3>1. ~Owns(e) BY <2>1, <2>3 DEF Owns
      <3>2. states' = states BY <1>1, <2>2, <2>3 DEF Transition, TypeOK
      <3> QED BY <2>2, <3>1, <3>2, EvictIdles
    <2>4. CASE v.current # "EVICTING"
      <3>1. Owns(e) BY <2>1, <2>4 DEF Owns
      <3>2. to # "EVICTING" /\ (to = "LOADING" <=> v.current = "LOADING")
            /\ (to = "DISK" <=> v.current = "DISK")
            /\ (to \in {"WARM", "HOT"} => v.current \in {"WARM", "HOT"})
        BY <2>4
      <3>3. to = "DISK" => block[v.res] = None BY <2>1, <3>1, <3>2 DEF BlocksMatch
      <3>4. to \in {"WARM", "HOT"} => block[v.res] \in live BY <2>1, <3>1, <3>2 DEF BlocksMatch
      <3> HIDE DEF to
      <3> QED BY <2>1, <2>2, <3>1, <3>2, <3>3, <3>4, EvictEnds
    <2> QED BY <2>3, <2>4
  <1> QED BY <1>2, <1>3

-----------------------------------------------------------------------------
\* The invariant holds of every behaviour.
THEOREM Invariance == Spec => []IInv
  <1>1. IInv /\ [Next]_vars => IInv'
    <2> SUFFICES ASSUME IInv, [Next]_vars PROVE IInv' OBVIOUS
    <2>1. CASE UNCHANGED vars
      <3>1. TypeOK' BY <2>1 DEF vars, IInv, TypeOK
      <3> QED BY <2>1, <3>1, InactiveStep DEF vars
    <2>2. ASSUME NEW t \in Tasks, TaskStep(t) PROVE IInv'
      BY <2>2, BeginStep, AllocateStep, EndStep DEF TaskStep
    <2>3. ASSUME NEW e \in Evictors, EvictStep(e) PROVE IInv'
      BY <2>3, EvictBeginStep, EvictReleaseStep, EvictEndStep DEF EvictStep
    <2> QED BY <2>1, <2>2, <2>3, ExecStepInv, ClientStepInv DEF Next
  <1> QED BY <1>1, InitIInv, PTL DEF Spec

\* A resource that is WARM or HOT has a block that MemoryManager knows,
\* however many loads, promotions and evictions meet on it.
THEOREM ResidentHaveBlocks == Spec => []BlockWhenResident
  <1>1. IInv => BlockWhenResident BY DEF IInv
  <1> QED BY <1>1, Invariance, PTL

\* Every block that StreamingEngine has allocated is held by exactly one
\* resource: none leaks, none is shared, none is released twice.
THEOREM BlocksAreKept == Spec => []NoBlockLost
  <1>1. IInv => NoBlockLost BY DEF IInv
  <1> QED BY <1>1, Invariance, PTL

-----------------------------------------------------------------------------
(* The memory manager, from which the blocks come: for every number of      *)
(* handles, size of the pools and number of blocks evicted at a time.       *)

\* The free list of a pool holds allocated blocks, at most maxFree_ of them
\* and none twice, and an allocator has given out only ids before nextId_.
PoolOK(m) ==
    /\ m \in [records : SUBSET Nat, next : Nat \ {0}, free : Seq(Nat)]
    /\ \A r \in m.records : r # 0 /\ r < m.next
    /\ Len(m.free) <= MaxFree
    /\ \A k \in DOMAIN m.free : m.free[k] \in m.records
    /\ \A j, k \in DOMAIN m.free : m.free[j] = m.free[k] => j = k

\* A part of the memory has the block i, and not in its free list.
Backs(m, i) == i \in m.records /\ \A k \in DOMAIN m.free : m.free[k] # i

\* The entries of activeBlocks_ A have their memory in M.
EntriesOK(A, M) ==
    \A i \in DOMAIN A :
        /\ i # 0 /\ A[i].loc \in Places /\ A[i].id \in {0, i}
        /\ A[i].id # 0 => Backs(M[A[i].loc], i)

MemoryInv ==
    /\ DOMAIN mem = Places /\ mem = [l \in Places |-> mem[l]]
    /\ \A l \in Places : PoolOK(mem[l])
    /\ EntriesOK(active, mem)

-----------------------------------------------------------------------------
(* What the allocators and the pools do to one part of the memory.          *)

\* allocateInternal gives a block that nobody has, and takes nobody's.
LEMMA Allocated ==
    ASSUME NEW m, NEW kind, NEW o \in allocateInternal(m, kind), PoolOK(m), MaxFree \in Nat
    PROVE  /\ PoolOK(o.m)
           /\ o.id # 0 => Backs(o.m, o.id) /\ ~Backs(m, o.id)
           /\ \A i : Backs(m, i) => Backs(o.m, i)
           /\ \A i : Backs(o.m, i) => Backs(m, i) \/ (o.id # 0 /\ i = o.id)
  <1>1. CASE o = [m |-> m, id |-> 0]
    BY <1>1
  <1>2. CASE m.free # <<>> /\ o = [m |-> [m EXCEPT !.free = SubSeq(@, 1, Len(@) - 1)], id |-> m.free[Len(m.free)]]
    <2> DEFINE L == Len(m.free)
               f == SubSeq(m.free, 1, L - 1)
    <2>1. m \in [records : SUBSET Nat, next : Nat \ {0}, free : Seq(Nat)]
      BY DEF PoolOK
    <2>2. L \in Nat \ {0} /\ L \in DOMAIN m.free /\ DOMAIN m.free = 1..L
      BY <1>2, <2>1
    <2>3. f \in Seq(Nat) /\ Len(f) = L - 1 /\ DOMAIN f = 1..(L - 1) /\ \A k \in 1..(L - 1) : f[k] = m.free[k]
      <3>1. L - 1 \in 0..L /\ 1 <= L - 1 + 1
        BY <2>2
      <3>2. m.free \in Seq(Nat) /\ L \in Nat
        BY <2>1, <2>2
      <3>3. \A i \in 1..(L - 1) : i \in 1..L /\ m.free[i] \in Nat
        BY <2>2, <3>2
      <3> QED
        BY <2>2, <3>2, <3>3
    <2>4. o.m \in [records : {m.records}, next : {m.next}, free : {f}] /\ o.id = m.free[L]
      BY <1>2, <2>1
    <2> HIDE DEF L, f
    <2>5. m.free[L] \in m.records /\ m.free[L] # 0 /\ L <= MaxFree
      BY <2>2 DEF PoolOK, L
    <2>6. \A k \in 1..(L - 1) : f[k] # m.free[L]
      <3> SUFFICES ASSUME NEW k \in 1..(L - 1), m.free[k] = m.free[L] PROVE FALSE
        BY <2>3
      <3>1. k \in DOMAIN m.free /\ k # L
        BY <2>2
      <3> QED
        BY <2>2, <3>1 DEF PoolOK
    <2>7. PoolOK(o.m)
      <3>1. o.m \in [records : SUBSET Nat, next : Nat \ {0}, free : Seq(Nat)]
        BY <2>1, <2>3, <2>4
      <3>2. \A k \in 1..(L - 1) : k \in DOMAIN m.free
        BY <2>2
      <3>3. Len(f) <= MaxFree
        BY <2>2, <2>3, <2>5
      <3>4. \A r \in m.records : r # 0 /\ r < m.next
        BY DEF PoolOK
      <3>5. \A k \in DOMAIN f : f[k] \in m.records
        BY <2>3, <3>2 DEF PoolOK
      <3>6. \A j, k \in DOMAIN f : f[j] = f[k] => j = k
        BY <2>3, <3>2 DEF PoolOK
      <3> QED
        BY <2>4, <3>1, <3>3, <3>4, <3>5, <3>6 DEF PoolOK
    <2>8. Backs(o.m, o.id) /\ ~Backs(m, o.id)
      BY <2>2, <2>3, <2>4, <2>5, <2>6 DEF Backs
    <2>9. ASSUME NEW i, Backs(m, i) PROVE Backs(o.m, i)
      <3>1. i \in m.records /\ \A k \in DOMAIN m.free : m.free[k] # i
        BY <2>9 DEF Backs
      <3>2. \A k \in 1..(L - 1) : k \in DOMAIN m.free
        BY <2>2
      <3>3. \A k \in DOMAIN f : f[k] # i
        BY <2>3, <3>1, <3>2
      <3> QED
        BY <2>4, <3>1, <3>3 DEF Backs
    <2>10. ASSUME NEW i, Backs(o.m, i), i # o.id PROVE Backs(m, i)
      <3>1. i \in m.records /\ \A k \in 1..(L - 1) : m.free[k] # i
        BY <2>3, <2>4, <2>10 DEF Backs
      <3>2. \A k \in DOMAIN m.free : k = L \/ k \in 1..(L - 1)
        BY <2>2
      <3> QED
        BY <2>4, <2>10, <3>1, <3>2 DEF Backs
    <2> QED
      BY <2>4, <2>5, <2>7, <2>8, <2>9, <2>10
  <1>3. CASE o = [m |-> Fresh(m), id |-> m.next]
    <2>1. m \in [records : SUBSET Nat, next : Nat \ {0}, free : Seq(Nat)]
      BY DEF PoolOK
    <2>2. o.m \in [records : {m.records \cup {m.next}}, next : {m.next + 1}, free : {m.free}] /\ o.id = m.next
      BY <1>3, <2>1 DEF Fresh
    <2>3. m.next \notin m.records /\ m.next \in Nat \ {0}
      BY <2>1 DEF PoolOK
    <2>4. PoolOK(o.m)
      <3>1. o.m \in [records : SUBSET Nat, next : Nat \ {0}, free : Seq(Nat)]
        BY <2>1, <2>2
      <3>2. \A r \in o.m.records : r # 0 /\ r < o.m.next
        <4>1. \A r \in m.records : r \in Nat /\ r # 0 /\ r < m.next
          BY <2>1 DEF PoolOK
        <4>2. \A r \in m.records : r < m.next + 1
          BY <2>3, <4>1
        <4> QED
          BY <2>2, <2>3, <4>1, <4>2
      <3> QED
        BY <2>2, <3>1, <3>2 DEF PoolOK
    <2>5. Backs(o.m, o.id) /\ ~Backs(m, o.id)
      BY <2>2, <2>3 DEF Backs, PoolOK
    <2>6. o.id # 0
      BY <2>2, <2>3
    <2> QED
      BY <2>2, <2>4, <2>5, <2>6 DEF Backs
  <1> QED
    BY <1>1, <1>2, <1>3 DEF allocateInternal

\* freeInternal takes back a block that is backed, and no other.
LEMMA Freed ==
    ASSUME NEW m, NEW b, PoolOK(m), b.id # 0 => Backs(m, b.id), MaxFree \in Nat
    PROVE  /\ PoolOK(freeInternal(m, b))
           /\ \A i : i # b.id /\ Backs(m, i) => Backs(freeInternal(m, b), i)
           /\ \A i : Backs(freeInternal(m, b), i) => i # b.id /\ Backs(m, i)
  <1> DEFINE x == freeInternal(m, b)
  <1>1. CASE b.id = 0
    BY <1>1 DEF freeInternal, PoolOK, Backs
  <1>2. CASE x = [m EXCEPT !.free = Append(@, b.id)] /\ Len(m.free) < MaxFree /\ b.id # 0
    <2> DEFINE L == Len(m.free)
               f == Append(m.free, b.id)
    <2>1. m \in [records : SUBSET Nat, next : Nat \ {0}, free : Seq(Nat)]
      BY DEF PoolOK
    <2>2. b.id \in m.records /\ b.id \in Nat /\ \A k \in DOMAIN m.free : m.free[k] # b.id
      BY <1>2, <2>1 DEF Backs
    <2>3. L \in Nat /\ DOMAIN m.free = 1..L
      BY <2>1
    <2>4. /\ f \in Seq(Nat) /\ Len(f) = L + 1 /\ DOMAIN f = 1..(L + 1) /\ f[L + 1] = b.id
          /\ \A k \in 1..L : f[k] = m.free[k]
      BY <2>1, <2>2
    <2>5. x \in [records : {m.records}, next : {m.next}, free : {f}]
      BY <1>2, <2>1
    <2>6. Len(f) <= MaxFree
      BY <1>2, <2>3, <2>4
    <2> HIDE DEF L, f, x
    <2>7. PoolOK(x)
      <3>1. x \in [records : SUBSET Nat, next : Nat \ {0}, free : Seq(Nat)]
        BY <2>1, <2>4, <2>5
      <3>2. \A k \in DOMAIN f : (k \in DOMAIN m.free /\ f[k] = m.free[k]) \/ (k = L + 1 /\ f[k] = b.id)
        <4> SUFFICES ASSUME NEW k \in 1..(L + 1), k # L + 1 PROVE k \in DOMAIN m.free /\ f[k] = m.free[k]
          BY <2>4
        <4>1. k \in 1..L
          BY <2>3
        <4> QED
          BY <2>3, <2>4, <4>1
      <3>3. \A k \in DOMAIN f : f[k] \in m.records
        BY <2>2, <3>2 DEF PoolOK
      <3>4. \A j, k \in DOMAIN f : f[j] = f[k] => j = k
        BY <2>2, <3>2 DEF PoolOK
      <3> QED
        BY <2>5, <2>6, <3>1, <3>3, <3>4 DEF PoolOK
    <2>8. ASSUME NEW i, i # b.id, Backs(m, i) PROVE Backs(x, i)
      <3>1. i \in m.records /\ \A k \in 1..L : m.free[k] # i
        BY <2>3, <2>8 DEF Backs
      <3>2. ASSUME NEW k \in DOMAIN f PROVE f[k] # i
        <4>1. k = L + 1 \/ k \in 1..L
          BY <2>3, <2>4
        <4> QED
          BY <2>4, <2>8, <3>1, <4>1
      <3> QED
        BY <2>5, <3>1, <3>2 DEF Backs
    <2>9. ASSUME NEW i, Backs(x, i) PROVE i # b.id /\ Backs(m, i)
      <3>1. i \in m.records /\ \A k \in 1..(L + 1) : f[k] # i
        BY <2>4, <2>5, <2>9 DEF Backs
      <3>2. L + 1 \in 1..(L + 1) /\ \A k \in DOMAIN m.free : k \in 1..(L + 1) /\ k \in 1..L
        BY <2>3
      <3> QED
        BY <2>4, <3>1, <3>2 DEF Backs
    <2> QED
      BY <2>7, <2>8, <2>9 DEF x
  <1>3. CASE x = [m EXCEPT !.records = @ \ {b.id}] /\ b.id # 0
    <2>1. m \in [records : SUBSET Nat, next : Nat \ {0}, free : Seq(Nat)]
      BY DEF PoolOK
    <2>2. x \in [records : {m.records \ {b.id}}, next : {m.next}, free : {m.free}]
      BY <1>3, <2>1
    <2> HIDE DEF x
    <2>3. PoolOK(x)
      BY <1>3, <2>1, <2>2 DEF PoolOK, Backs
    <2>4. ASSUME NEW i, i # b.id, Backs(m, i) PROVE Backs(x, i)
      BY <2>2, <2>4 DEF Backs
    <2>5. ASSUME NEW i, Backs(x, i) PROVE i # b.id /\ Backs(m, i)
      BY <2>2, <2>5 DEF Backs
    <2> QED
      BY <2>3, <2>4, <2>5 DEF x
  <1> QED
    BY <1>1, <1>2, <1>3 DEF freeInternal

-----------------------------------------------------------------------------
(* The operations.                                                          *)

\* The limit of a pool is a natural number, and blocks are asked for on one
\* of the two sides.
ManagerAssumption == MaxFree \in Nat /\ Locations \subseteq Places

\* What is to be shown of an operation that changes one part of the memory.
LEMMA PartChanges ==
    ASSUME MemoryInv, NEW l \in Places, NEW m, mem' = [mem EXCEPT ![l] = m],
           PoolOK(m), EntriesOK(active', [mem EXCEPT ![l] = m])
    PROVE  MemoryInv'
  <1>1. DOMAIN mem' = Places /\ mem' = [k \in Places |-> mem'[k]]
    BY DEF MemoryInv
  <1>2. ASSUME NEW k \in Places PROVE PoolOK(mem'[k])
    <2>1. mem'[k] = IF k = l THEN m ELSE mem[k]
      BY DEF MemoryInv
    <2> QED
      BY <2>1 DEF MemoryInv
  <1> QED
    BY <1>1, <1>2 DEF MemoryInv, Places

\* A block that nobody had is entered in activeBlocks_.
LEMMA BlockEntered ==
    ASSUME ManagerAssumption, MemoryInv, NEW l \in Places, NEW kind, NEW pri,
           NEW o \in allocateInternal(mem[l], kind), o.id # 0,
           mem' = [mem EXCEPT ![l] = o.m],
           active' = Enter([id |-> o.id, kind |-> kind, loc |-> l, pri |-> pri])
    PROVE  MemoryInv'
  <1> DEFINE b == [id |-> o.id, kind |-> kind, loc |-> l, pri |-> pri]
             M == [mem EXCEPT ![l] = o.m]
  <1>1. PoolOK(mem[l]) /\ MaxFree \in Nat
    BY DEF MemoryInv, ManagerAssumption
  <1>2. PoolOK(o.m) /\ Backs(o.m, o.id) /\ \A i : Backs(mem[l], i) => Backs(o.m, i)
    BY <1>1, Allocated
  <1>3. M[l] = o.m /\ \A k \in Places \ {l} : M[k] = mem[k]
    BY DEF MemoryInv
  <1>4. b.id = o.id /\ b.loc = l
    OBVIOUS
  <1> HIDE DEF b, M
  <1>5. /\ DOMAIN active' = DOMAIN active \cup {b.id}
        /\ \A i \in DOMAIN active' : active'[i] = IF i = b.id THEN b ELSE active[i]
    BY DEF Enter, b
  <1>6. EntriesOK(active', M)
    <2> SUFFICES ASSUME NEW i \in DOMAIN active'
                 PROVE  /\ i # 0 /\ active'[i].loc \in Places /\ active'[i].id \in {0, i}
                        /\ active'[i].id # 0 => Backs(M[active'[i].loc], i)
      BY DEF EntriesOK
    <2>1. CASE i = b.id
      BY <1>2, <1>3, <1>4, <1>5, <2>1
    <2>2. CASE i # b.id
      <3>1. i \in DOMAIN active /\ active'[i] = active[i]
        BY <1>5, <2>2
      <3>2. /\ i # 0 /\ active[i].loc \in Places /\ active[i].id \in {0, i}
            /\ active[i].id # 0 => Backs(mem[active[i].loc], i)
        BY <3>1 DEF MemoryInv, EntriesOK
      <3> QED
        BY <1>2, <1>3, <3>1, <3>2
    <2> QED
      BY <2>1, <2>2
  <1> QED
    BY <1>2, <1>6, PartChanges DEF M

LEMMA AllocateCallStep ==
    ASSUME ManagerAssumption, MemoryInv, NEW s, NEW kind, NEW l \in Locations, NEW pri,
           allocate(s, kind, l, pri)
    PROVE  MemoryInv'
  <1>0. l \in Places /\ "CPU" \in Places
    BY DEF ManagerAssumption, Places
  <1>1. PICK o \in allocateInternal(mem[l], kind) :
          IF o.id # 0
          THEN /\ mem' = [mem EXCEPT ![l] = o.m]
               /\ active' = Enter([id |-> o.id, kind |-> kind, loc |-> l, pri |-> pri])
          ELSE \E c \in allocateInternal(mem["CPU"], kind) :
                 /\ c.id # 0
                 /\ mem' = [mem EXCEPT !["CPU"] = c.m]
                 /\ active' = Enter([id |-> c.id, kind |-> kind, loc |-> "CPU", pri |-> pri])
    BY DEF allocate
  <1>2. CASE o.id # 0
    BY <1>0, <1>1, <1>2, BlockEntered
  <1>3. CASE o.id = 0
    <2>1. PICK c \in allocateInternal(mem["CPU"], kind) :
                 /\ c.id # 0
                 /\ mem' = [mem EXCEPT !["CPU"] = c.m]
                 /\ active' = Enter([id |-> c.id, kind |-> kind, loc |-> "CPU", pri |-> pri])
      BY <1>1, <1>3
    <2> QED
      BY <1>0, <2>1, BlockEntered
  <1> QED
    BY <1>2, <1>3

\* An entry takes its memory with it, and no other entry's.
LEMMA DropStep ==
    ASSUME ManagerAssumption, MemoryInv, NEW i, Drop(i)
    PROVE  MemoryInv'
  <1>1. CASE i \notin DOMAIN active
    BY <1>1 DEF Drop, MemoryInv, Places
  <1>2. CASE i \in DOMAIN active
    <2> DEFINE b == active[i]
               m == freeInternal(mem[b.loc], b)
               M == [mem EXCEPT ![b.loc] = m]
    <2>1. /\ i # 0 /\ b.loc \in Places /\ b.id \in {0, i}
          /\ b.id # 0 => Backs(mem[b.loc], i)
      BY <1>2 DEF MemoryInv, EntriesOK
    <2>2. PoolOK(mem[b.loc]) /\ MaxFree \in Nat
      BY <2>1 DEF MemoryInv, ManagerAssumption
    <2>3. PoolOK(m) /\ \A j : j # b.id /\ Backs(mem[b.loc], j) => Backs(m, j)
      BY <2>1, <2>2, Freed
    <2>4. /\ mem' = M
          /\ active' = [j \in DOMAIN active \ {i} |-> active[j]]
      BY <1>2, <2>1 DEF Drop, MemoryInv
    <2>5. M[b.loc] = m /\ \A k \in Places \ {b.loc} : M[k] = mem[k]
      BY <2>1 DEF MemoryInv
    <2> HIDE DEF m, M
    <2>6. EntriesOK(active', M)
      <3> SUFFICES ASSUME NEW j \in DOMAIN active \ {i}
                   PROVE  /\ j # 0 /\ active[j].loc \in Places /\ active[j].id \in {0, j}
                          /\ active[j].id # 0 => Backs(M[active[j].loc], j)
        BY <2>4 DEF EntriesOK
      <3>1. /\ j # 0 /\ active[j].loc \in Places /\ active[j].id \in {0, j}
            /\ active[j].id # 0 => Backs(mem[active[j].loc], j)
        BY DEF MemoryInv, EntriesOK
      <3>2. j # b.id
        BY <2>1, <3>1
      <3> QED
        BY <2>3, <2>5, <3>1, <3>2
    <2> QED
      BY <2>1, <2>3, <2>4, <2>6, PartChanges DEF M
  <1> QED
    BY <1>1, <1>2

\* A move that fails gives back what it took.
LEMMA MoveFailsStep ==
    ASSUME ManagerAssumption, MemoryInv, NEW s, NEW d \in Locations, MoveFails(s, d)
    PROVE  MemoryInv'
  <1> DEFINE kind == active[held[s].id].kind
  <1>1. PICK o \in allocateInternal(mem[d], kind) :
          mem' = [mem EXCEPT ![d] = freeInternal(o.m, [NoBlock EXCEPT !.id = o.id, !.kind = kind])]
    BY DEF MoveFails
  <1>2. active' = active /\ d \in Places
    BY DEF MoveFails, ManagerAssumption
  <1> DEFINE c == [NoBlock EXCEPT !.id = o.id, !.kind = kind]
             m == freeInternal(o.m, c)
             M == [mem EXCEPT ![d] = m]
  <1>3. c.id = o.id
    BY DEF NoBlock
  <1> HIDE DEF c
  <1>4. PoolOK(mem[d]) /\ MaxFree \in Nat
    BY <1>2 DEF MemoryInv, ManagerAssumption
  <1>5. /\ PoolOK(o.m)
        /\ o.id # 0 => Backs(o.m, o.id) /\ ~Backs(mem[d], o.id)
        /\ \A i : Backs(mem[d], i) => Backs(o.m, i)
    BY <1>4, Allocated
  <1>6. PoolOK(m) /\ \A i : i # o.id /\ Backs(o.m, i) => Backs(m, i)
    BY <1>3, <1>4, <1>5, Freed
  <1>7. M[d] = m /\ \A k \in Places \ {d} : M[k] = mem[k]
    BY <1>2 DEF MemoryInv
  <1>8. mem' = M
    BY <1>1 DEF c
  <1> HIDE DEF m, M
  <1>9. EntriesOK(active', M)
    <2> SUFFICES ASSUME NEW i \in DOMAIN active
                 PROVE  /\ i # 0 /\ active[i].loc \in Places /\ active[i].id \in {0, i}
                        /\ active[i].id # 0 => Backs(M[active[i].loc], i)
      BY <1>2 DEF EntriesOK
    <2>1. /\ i # 0 /\ active[i].loc \in Places /\ active[i].id \in {0, i}
          /\ active[i].id # 0 => Backs(mem[active[i].loc], i)
      BY DEF MemoryInv, EntriesOK
    <2>2. Backs(mem[d], i) => i # o.id
      BY <1>5, <2>1
    <2> QED
      BY <1>5, <1>6, <1>7, <2>1, <2>2
  <1> QED
    BY <1>2, <1>6, <1>8, <1>9, PartChanges DEF M

\* A move leaves an entry without an id: its memory on the old side is given
\* back, and nothing accounts for the one on the new side.
LEMMA MoveSucceedsStep ==
    ASSUME ManagerAssumption, MemoryInv, NEW s, NEW d \in Locations, MoveSucceeds(s, d)
    PROVE  MemoryInv'
  <1> DEFINE h == held[s].id
             b == active[h]
             moved == [NoBlock EXCEPT !.loc = d]
  <1>1. PICK o \in allocateInternal(mem[d], b.kind) :
          mem' = [mem EXCEPT ![d] = o.m, ![b.loc] = freeInternal(@, b)]
    BY DEF MoveSucceeds
  <1>2. /\ d \in Places /\ h \in DOMAIN active /\ b.loc # d
        /\ active' = [active EXCEPT ![h] = moved]
    BY DEF MoveSucceeds, Movable, ManagerAssumption
  <1>3. moved.id = 0 /\ moved.loc = d
    BY DEF NoBlock
  <1> DEFINE m == freeInternal(mem[b.loc], b)
  <1>4. /\ h # 0 /\ b.loc \in Places /\ b.id \in {0, h}
        /\ b.id # 0 => Backs(mem[b.loc], h)
    BY <1>2 DEF MemoryInv, EntriesOK
  <1>5. PoolOK(mem[d]) /\ PoolOK(mem[b.loc]) /\ MaxFree \in Nat
    BY <1>2, <1>4 DEF MemoryInv, ManagerAssumption
  <1>6. PoolOK(o.m) /\ \A i : Backs(mem[d], i) => Backs(o.m, i)
    BY <1>5, Allocated
  <1>7. PoolOK(m) /\ \A i : i # b.id /\ Backs(mem[b.loc], i) => Backs(m, i)
    BY <1>4, <1>5, Freed
  <1>8. /\ DOMAIN mem' = Places /\ mem' = [l \in Places |-> mem'[l]]
        /\ mem'[d] = o.m /\ mem'[b.loc] = m
        /\ \A k \in Places \ {d, b.loc} : mem'[k] = mem[k]
    BY <1>1, <1>2, <1>4 DEF MemoryInv
  <1>9. /\ DOMAIN active' = DOMAIN active /\ active'[h] = moved
        /\ \A i \in DOMAIN active \ {h} : active'[i] = active[i]
    BY <1>2
  <1> HIDE DEF m, moved, h
  <1>10. \A l \in Places : PoolOK(mem'[l])
    BY <1>6, <1>7, <1>8 DEF MemoryInv
  <1>11. EntriesOK(active', mem')
    <2> SUFFICES ASSUME NEW i \in DOMAIN active
                 PROVE  /\ i # 0 /\ active'[i].loc \in Places /\ active'[i].id \in {0, i}
                        /\ active'[i].id # 0 => Backs(mem'[active'[i].loc], i)
      BY <1>9 DEF EntriesOK
    <2>1. /\ i # 0 /\ active[i].loc \in Places /\ active[i].id \in {0, i}
          /\ active[i].id # 0 => Backs(mem[active[i].loc], i)
      BY DEF MemoryInv, EntriesOK
    <2>2. CASE i = h
      BY <1>2, <1>3, <1>9, <2>1, <2>2
    <2>3. CASE i # h
      <3>1. i # b.id
        BY <1>4, <2>1, <2>3
      <3>2. active'[i] = active[i]
        BY <1>9, <2>3
      <3> QED
        BY <1>6, <1>7, <1>8, <2>1, <3>1, <3>2
    <2> QED
      BY <2>2, <2>3
  <1> QED
    BY <1>8, <1>10, <1>11 DEF MemoryInv, Places

-----------------------------------------------------------------------------
LEMMA MemoryInvSuffices == MemoryInv => EntriesBacked
  <1> SUFFICES ASSUME MemoryInv PROVE EntriesBacked
    OBVIOUS
  <1>1. ASSUME NEW i \in DOMAIN active, active[i].id # 0
        PROVE  active[i].id = i /\ i \in mem[active[i].loc].records \ FreeIds(active[i].loc)
    <2>1. active[i].id \in {0, i} /\ Backs(mem[active[i].loc], i)
      BY <1>1 DEF MemoryInv, EntriesOK
    <2> QED
      BY <1>1, <2>1 DEF Backs, FreeIds
  <1>2. ASSUME NEW l \in Places
        PROVE  /\ Len(mem[l].free) <= MaxFree
               /\ FreeIds(l) \subseteq mem[l].records
               /\ \A j, k \in DOMAIN mem[l].free : mem[l].free[j] = mem[l].free[k] => j = k
    BY DEF MemoryInv, PoolOK, FreeIds
  <1> QED
    BY <1>1, <1>2 DEF EntriesBacked

-----------------------------------------------------------------------------
(* Who loses what in an operation.                                          *)

LEMMA UsedBacks ==
    ASSUME NEW l \in Places
    PROVE  \A i : /\ i \in Used(l) <=> Backs(mem[l], i)
                  /\ i \in Used(l)' <=> Backs(mem'[l], i)
  BY DEF Used, FreeIds, Backs

\* A new block has its entry; what was under its id may be overwritten.
LEMMA EnterKeeps ==
    ASSUME NEW u \in Slots, NEW l \in Places, NEW b, b.id # 0, b.loc = l,
           \A i : Backs(mem'[l], i) <=> Backs(mem[l], i) \/ i = b.id,
           \A k \in Places \ {l} : mem'[k] = mem[k],
           active' = Enter(b), held[u].id = 0, held'[u] = b
    PROVE  (\A k \in Places : MemoryKept(k)) /\ (\A s \in Slots : HandleKept(s))
  <1>1. /\ DOMAIN active' = DOMAIN active \cup {b.id} /\ active'[b.id] = b
        /\ \A i \in DOMAIN active : i # b.id => active'[i] = active[i]
    BY DEF Enter
  <1>2. ASSUME NEW k \in Places
        PROVE  \A i : i \in Used(k)' <=> i \in Used(k) \/ (k = l /\ i = b.id)
    BY UsedBacks
  <1>3. ASSUME NEW k \in Places, NEW i, i # b.id PROVE i \in Owned(k)' <=> i \in Owned(k)
    BY <1>1, <1>3 DEF Owned
  <1>4. \A k \in Places : b.id \in Owned(k)' <=> k = l BY <1>1 DEF Owned
  <1>5. ASSUME NEW k \in Places PROVE MemoryKept(k)
    <2>1. Used(k) \subseteq Used(k)' BY <1>2
    <2>2. ASSUME NEW i \in Used(k)' \ Owned(k)', i \notin Used(k) \ Owned(k) PROVE Overwritten(i, k)
      <3>1. i \in Used(k) /\ i \in Owned(k) BY <1>2, <1>4, <2>2
      <3>2. i = b.id /\ k # l BY <1>3, <1>4, <2>2, <3>1
      <3> QED BY <1>1, <3>1, <3>2 DEF Overwritten
    <2> QED BY <2>1, <2>2 DEF MemoryKept
  <1>6. ASSUME NEW s \in Slots PROVE HandleKept(s)
    <2> SUFFICES ASSUME Valid(s), ~Valid(s)', held'[s] = held[s]
                 PROVE  \E t \in Slots \ {s} :
                           held'[t] # held[t] /\ held[s].id \in {held[t].id, held'[t].id}
      BY DEF HandleKept
    <2>1. held'[u] = b /\ held'[u] # held[u] OBVIOUS
    <2>2. held[s].id = b.id BY <1>1 DEF Valid, Owned
    <2> QED BY <2>1, <2>2
  <1> QED BY <1>5, <1>6

\* An entry takes its own memory with it.
LEMMA DropKeeps ==
    ASSUME ManagerAssumption, MemoryInv, NEW i, Drop(i)
    PROVE  /\ \A k \in Places : MemoryKept(k)
           /\ \A j \in DOMAIN active : j # i => j \in DOMAIN active' /\ active'[j] = active[j]
  <1>1. CASE i \notin DOMAIN active
    <2>1. UNCHANGED <<mem, active>> BY <1>1 DEF Drop
    <2> QED BY <2>1 DEF MemoryKept, Used, FreeIds, Owned
  <1>2. CASE i \in DOMAIN active
    <2>1. PICK b : b = active[i] OBVIOUS
    <2>2. /\ i # 0 /\ b.loc \in Places /\ b.id \in {0, i}
          /\ b.id # 0 => Backs(mem[b.loc], i)
      BY <1>2, <2>1 DEF MemoryInv, EntriesOK
    <2>3. PoolOK(mem[b.loc]) /\ MaxFree \in Nat BY <2>2 DEF MemoryInv, ManagerAssumption
    <2>4. PICK m : m = freeInternal(mem[b.loc], b) OBVIOUS
    <2>5. /\ mem' = [mem EXCEPT ![b.loc] = m]
          /\ active' = [j \in DOMAIN active \ {i} |-> active[j]]
      BY <1>2, <2>1, <2>4 DEF Drop
    <2>6. \A j : Backs(m, j) <=> j # b.id /\ Backs(mem[b.loc], j) BY <2>2, <2>3, <2>4, Freed
    <2>7. mem'[b.loc] = m /\ \A k \in Places \ {b.loc} : mem'[k] = mem[k]
      BY <2>2, <2>5 DEF MemoryInv
    <2>8. ASSUME NEW k \in Places
          PROVE  \A j : j \in Used(k)' <=> j \in Used(k) /\ ~(k = b.loc /\ j = b.id)
      BY <2>6, <2>7, UsedBacks
    <2>9. ASSUME NEW k \in Places
          PROVE  /\ \A j : j # i => (j \in Owned(k)' <=> j \in Owned(k))
                 /\ i \notin Owned(k)'
                 /\ i \in Owned(k) <=> (b.id = i /\ b.loc = k)
      BY <1>2, <2>1, <2>5 DEF Owned
    <2>10. ASSUME NEW k \in Places PROVE MemoryKept(k)
      <3>1. ASSUME NEW j \in Used(k) \ Used(k)' PROVE j \in Owned(k) \ Owned(k)'
        <4>1. k = b.loc /\ j = b.id BY <2>8, <3>1
        <4>2. ~Backs(mem[k], 0) BY <2>3, <4>1 DEF PoolOK, Backs
        <4>3. j # 0 BY <3>1, <4>2, UsedBacks
        <4> QED BY <2>2, <2>9, <4>1, <4>3
      <3>2. ASSUME NEW j \in Used(k)' \ Owned(k)', j \notin Used(k) \ Owned(k) PROVE FALSE
        BY <2>8, <2>9, <3>2
      <3> QED BY <3>1, <3>2 DEF MemoryKept
    <2> QED BY <2>5, <2>10
  <1> QED BY <1>1, <1>2

\* A failed move, in which part d changes and changes back, takes nothing.
LEMMA FailedMoveKeeps ==
    ASSUME ManagerAssumption, MemoryInv, NEW s, NEW d \in Locations, MoveFails(s, d)
    PROVE  \A k \in Places : MemoryKept(k)
  <1>1. PICK kind : kind = active[held[s].id].kind OBVIOUS
  <1>2. PICK o \in allocateInternal(mem[d], kind) :
          mem' = [mem EXCEPT ![d] = freeInternal(o.m, [NoBlock EXCEPT !.id = o.id, !.kind = kind])]
    BY <1>1 DEF MoveFails
  <1>3. active' = active /\ d \in Places /\ PoolOK(mem[d]) /\ MaxFree \in Nat
    BY DEF MoveFails, ManagerAssumption, MemoryInv
  <1>4. PICK c : c = [NoBlock EXCEPT !.id = o.id, !.kind = kind] OBVIOUS
  <1>5. c.id = o.id BY <1>4 DEF NoBlock
  <1>6. /\ PoolOK(o.m)
        /\ o.id # 0 => Backs(o.m, o.id) /\ ~Backs(mem[d], o.id)
        /\ \A i : Backs(mem[d], i) => Backs(o.m, i)
        /\ \A i : Backs(o.m, i) => Backs(mem[d], i) \/ (o.id # 0 /\ i = o.id)
    BY <1>3, Allocated
  <1>7. PICK m : m = freeInternal(o.m, c) OBVIOUS
  <1>8. \A i : Backs(m, i) <=> i # o.id /\ Backs(o.m, i) BY <1>3, <1>5, <1>6, <1>7, Freed
  <1>9. ~Backs(mem[d], 0) BY <1>3 DEF PoolOK, Backs
  <1>10. \A i : Backs(m, i) <=> Backs(mem[d], i) BY <1>6, <1>8, <1>9
  <1>11. mem'[d] = m /\ \A k \in Places \ {d} : mem'[k] = mem[k]
    BY <1>2, <1>3, <1>4, <1>7 DEF MemoryInv
  <1>12. ASSUME NEW k \in Places PROVE \A i : i \in Used(k)' <=> i \in Used(k)
    BY <1>10, <1>11, UsedBacks
  <1> QED BY <1>3, <1>12 DEF MemoryKept, Owned

\* A move gives back the entry's memory; the one it takes has no owner.
LEMMA MoveSucceedsKeeps ==
    ASSUME ManagerAssumption, MemoryInv, NEW s \in Slots, s \in DOMAIN held,
           NEW d \in Locations, MoveSucceeds(s, d)
    PROVE  (\A k \in Places : MemoryKept(k)) /\ (\A t \in Slots : HandleKept(t))
  <1>1. PICK h : h = held[s].id OBVIOUS
  <1>2. PICK b : b = active[h] OBVIOUS
  <1>3. PICK moved : moved = [NoBlock EXCEPT !.loc = d] OBVIOUS
  <1>4. moved.id = 0 /\ moved.loc = d BY <1>3 DEF NoBlock
  <1>5. /\ d \in Places /\ h \in DOMAIN active /\ b.loc # d /\ held[s].loc # d
        /\ active' = [active EXCEPT ![h] = moved]
        /\ held' = [held EXCEPT ![s] = moved]
    BY <1>1, <1>2, <1>3 DEF MoveSucceeds, Movable, ManagerAssumption
  <1>6. /\ h # 0 /\ b.loc \in Places /\ b.id \in {0, h}
        /\ b.id # 0 => Backs(mem[b.loc], h)
    BY <1>2, <1>5 DEF MemoryInv, EntriesOK
  <1>7. PICK m : m = freeInternal(mem[b.loc], b) OBVIOUS
  <1>8. PICK o \in allocateInternal(mem[d], b.kind) : mem' = [mem EXCEPT ![d] = o.m, ![b.loc] = m]
    <2>1. PICK p \in allocateInternal(mem[d], b.kind) :
             mem' = [mem EXCEPT ![d] = p.m, ![b.loc] = freeInternal(@, b)]
      BY <1>1, <1>2 DEF MoveSucceeds
    <2>2. mem' = [mem EXCEPT ![d] = p.m, ![b.loc] = m] BY <1>5, <1>7, <2>1
    <2> QED BY <2>2
  <1>9. PoolOK(mem[d]) /\ PoolOK(mem[b.loc]) /\ MaxFree \in Nat
    BY <1>5, <1>6 DEF MemoryInv, ManagerAssumption
  <1>10. \A i : Backs(m, i) <=> i # b.id /\ Backs(mem[b.loc], i) BY <1>6, <1>7, <1>9, Freed
  <1>11. \A i : Backs(mem[d], i) => Backs(o.m, i) BY <1>9, Allocated
  <1>12. /\ mem'[d] = o.m /\ mem'[b.loc] = m
         /\ \A k \in Places \ {d, b.loc} : mem'[k] = mem[k]
    BY <1>5, <1>6, <1>8 DEF MemoryInv
  <1>13. ASSUME NEW k \in Places
         PROVE  /\ k # d => \A j : j \in Used(k)' <=> j \in Used(k) /\ ~(k = b.loc /\ j = b.id)
                /\ k = d => \A j : j \in Used(k) => j \in Used(k)'
    BY <1>10, <1>11, <1>12, UsedBacks
  <1>14. /\ DOMAIN active' = DOMAIN active /\ active'[h] = moved
         /\ \A j \in DOMAIN active : j # h => active'[j] = active[j]
    BY <1>5
  <1>15. ASSUME NEW k \in Places
         PROVE  /\ \A j : j # h => (j \in Owned(k)' <=> j \in Owned(k))
                /\ h \notin Owned(k)'
                /\ h \in Owned(k) <=> (b.id = h /\ b.loc = k)
    BY <1>2, <1>4, <1>5, <1>6, <1>14 DEF Owned
  <1>16. Arrived(d) BY <1>1, <1>3, <1>5, <1>6, <1>14 DEF Arrived
  <1>17. ASSUME NEW k \in Places PROVE MemoryKept(k)
    <2>1. ASSUME NEW j \in Used(k) \ Used(k)' PROVE j \in Owned(k) \ Owned(k)'
      <3>1. k = b.loc /\ j = b.id BY <1>13, <2>1
      <3>2. ~Backs(mem[k], 0) BY <1>9, <3>1 DEF PoolOK, Backs
      <3>3. j # 0 BY <2>1, <3>2, UsedBacks
      <3> QED BY <1>6, <1>15, <3>1, <3>3
    <2>2. ASSUME NEW j \in Used(k)' \ Owned(k)', j \notin Used(k) \ Owned(k), k # d PROVE FALSE
      BY <1>13, <1>15, <2>2
    <2> QED BY <1>16, <2>1, <2>2 DEF MemoryKept
  <1>18. ASSUME NEW t \in Slots PROVE HandleKept(t)
    <2> SUFFICES ASSUME Valid(t), ~Valid(t)', held'[t] = held[t]
                 PROVE  \E u \in Slots \ {t} :
                           held'[u] # held[u] /\ held[t].id \in {held[u].id, held'[u].id}
      BY DEF HandleKept
    <2>1. held'[s] = moved /\ held'[s] # held[s] BY <1>1, <1>4, <1>5, <1>6
    <2>2. held[t].id = h BY <1>14 DEF Valid, Owned
    <2> QED BY <1>1, <2>1, <2>2
  <1> QED BY <1>17, <1>18

\* Every slot has a handle.
HandlesOK == DOMAIN held = Slots

\* A step of the manager, while the handles are what they should be.
LEMMA OwnersStep ==
    ASSUME ManagerAssumption, MemoryInv, DOMAIN held = Slots, ManagerNext
    PROVE  /\ DOMAIN held' = Slots
           /\ \A k \in Places : MemoryKept(k)
           /\ \A t \in Slots : HandleKept(t)
  <1>1. ASSUME NEW u \in Slots, NEW kind, NEW l \in Locations, NEW pri, allocate(u, kind, l, pri)
        PROVE  /\ DOMAIN held' = Slots
               /\ \A k \in Places : MemoryKept(k)
               /\ \A t \in Slots : HandleKept(t)
    <2>1. PICK p \in Places : \E o \in allocateInternal(mem[p], kind) :
             /\ o.id # 0
             /\ mem' = [mem EXCEPT ![p] = o.m]
             /\ active' = Enter([id |-> o.id, kind |-> kind, loc |-> p, pri |-> pri])
             /\ held' = [held EXCEPT ![u] = [id |-> o.id, kind |-> kind, loc |-> p, pri |-> pri]]
      BY <1>1 DEF allocate, ManagerAssumption, Places
    <2>2. PICK o \in allocateInternal(mem[p], kind) :
             /\ o.id # 0
             /\ mem' = [mem EXCEPT ![p] = o.m]
             /\ active' = Enter([id |-> o.id, kind |-> kind, loc |-> p, pri |-> pri])
             /\ held' = [held EXCEPT ![u] = [id |-> o.id, kind |-> kind, loc |-> p, pri |-> pri]]
      BY <2>1
    <2>3. PICK b : b = [id |-> o.id, kind |-> kind, loc |-> p, pri |-> pri] OBVIOUS
    <2>4. b.id = o.id /\ b.loc = p BY <2>3
    <2>5. PoolOK(mem[p]) /\ MaxFree \in Nat BY DEF MemoryInv, ManagerAssumption
    <2>6. \A i : Backs(o.m, i) <=> Backs(mem[p], i) \/ i = b.id BY <2>2, <2>4, <2>5, Allocated
    <2>7. mem'[p] = o.m /\ \A k \in Places \ {p} : mem'[k] = mem[k] BY <2>2 DEF MemoryInv
    <2>8. active' = Enter(b) /\ held' = [held EXCEPT ![u] = b] BY <2>2, <2>3
    <2>9. held'[u] = b /\ DOMAIN held' = Slots BY <2>8
    <2>10. held[u].id = 0 BY <1>1 DEF allocate
    <2> QED BY <2>2, <2>4, <2>6, <2>7, <2>8, <2>9, <2>10, EnterKeeps
  <1>2. ASSUME NEW i, Drop(i), NEW t \in Slots, held'[t] = held[t], Valid(t), ~Valid(t)'
        PROVE  held[t].id = i
    BY <1>2, DropKeeps DEF Valid, Owned
  <1>3. ASSUME NEW u \in Slots, release(u)
        PROVE  /\ DOMAIN held' = Slots
               /\ \A k \in Places : MemoryKept(k)
               /\ \A t \in Slots : HandleKept(t)
    <2>1. /\ Drop(held[u].id) /\ held[u].id # 0 /\ held' = [held EXCEPT ![u] = NoBlock]
      BY <1>3 DEF release
    <2>2. held'[u] # held[u] BY <2>1 DEF NoBlock
    <2>3. ASSUME NEW t \in Slots, Valid(t), ~Valid(t)', held'[t] = held[t]
          PROVE  \E v \in Slots \ {t} : held'[v] # held[v] /\ held[t].id \in {held[v].id, held'[v].id}
      BY <1>2, <2>1, <2>2, <2>3
    <2> QED BY <2>1, <2>3, DropKeeps DEF HandleKept
  <1>4. ASSUME NEW s \in Slots, NEW d \in Locations, MoveFails(s, d)
        PROVE  /\ DOMAIN held' = Slots
               /\ \A k \in Places : MemoryKept(k)
               /\ \A t \in Slots : HandleKept(t)
    <2>1. UNCHANGED <<active, held>> BY <1>4 DEF MoveFails
    <2> QED BY <1>4, <2>1, FailedMoveKeeps DEF HandleKept, Valid, Owned
  <1>5. ASSUME NEW s \in Slots, NEW d \in Locations, MoveSucceeds(s, d)
        PROVE  /\ DOMAIN held' = Slots
               /\ \A k \in Places : MemoryKept(k)
               /\ \A t \in Slots : HandleKept(t)
    BY <1>5, MoveSucceedsKeeps DEF MoveSucceeds
  <1>6. CASE enforcePressureLimits
    <2>1. UNCHANGED <<mem, active, held>> BY <1>6 DEF enforcePressureLimits
    <2> QED BY <2>1 DEF MemoryKept, HandleKept, Valid, Used, FreeIds, Owned
  <1>7. CASE evictNext
    <2>1. toEvict # <<>> /\ Drop(Head(toEvict)) /\ held' = held BY <1>7 DEF evictNext
    <2>2. \A t \in Slots : HandleKept(t) BY <1>2, <2>1 DEF HandleKept
    <2> QED BY <2>1, <2>2, DropKeeps
  <1> QED BY <1>1, <1>3, <1>4, <1>5, <1>6, <1>7 DEF ManagerNext, Operation

\* MemoryManager's bookkeeping: whatever handles are stale, whichever blocks an
\* eviction drops and whichever move fails, an entry of activeBlocks_ has its
\* memory to itself and a pool lists no block twice; memory loses its owner only
\* to an equal id of the other allocator or by a move, and a handle its memory
\* only to an eviction or to a handle of an equal id.
THEOREM MemoryKeepsOwners == ManagerSpec => MemoryHasOwner
  <1>0. ManagerAssumption
    BY MemoryAssumption DEF ManagerAssumption, Places
  <1>1. ManagerInit => MemoryInv
    <2> SUFFICES ASSUME ManagerInit PROVE MemoryInv
      OBVIOUS
    <2>1. DOMAIN mem = Places /\ mem = [l \in Places |-> mem[l]]
      BY DEF ManagerInit
    <2>2. ASSUME NEW l \in Places PROVE PoolOK(mem[l])
      <3>1. mem[l] = [records |-> {}, next |-> 1, free |-> <<>>]
        BY DEF ManagerInit
      <3> QED
        BY <1>0, <3>1 DEF PoolOK, ManagerAssumption
    <2>3. DOMAIN active = {}
      BY DEF ManagerInit
    <2> QED
      BY <2>1, <2>2, <2>3 DEF MemoryInv, EntriesOK
  <1>2. MemoryInv /\ [ManagerNext]_managerVars => MemoryInv'
    <2> SUFFICES ASSUME MemoryInv, [ManagerNext]_managerVars PROVE MemoryInv'
      OBVIOUS
    <2>1. CASE UNCHANGED managerVars
      BY <2>1 DEF managerVars, MemoryInv, Places
    <2>2. ASSUME NEW s \in Slots, NEW k \in Kinds, NEW l \in Locations, NEW p \in Priorities,
                 allocate(s, k, l, p)
          PROVE  MemoryInv'
      BY <1>0, <2>2, AllocateCallStep
    <2>3. ASSUME NEW s \in Slots, release(s) PROVE MemoryInv'
      BY <1>0, <2>3, DropStep DEF release
    <2>4. ASSUME NEW s \in Slots, NEW d \in Locations, MoveFails(s, d) PROVE MemoryInv'
      BY <1>0, <2>4, MoveFailsStep
    <2>5. ASSUME NEW s \in Slots, NEW d \in Locations, MoveSucceeds(s, d) PROVE MemoryInv'
      BY <1>0, <2>5, MoveSucceedsStep
    <2>6. CASE enforcePressureLimits
      BY <2>6 DEF enforcePressureLimits, MemoryInv, Places
    <2>7. CASE evictNext
      BY <1>0, <2>7, DropStep DEF evictNext
    <2> QED
      BY <2>1, <2>2, <2>3, <2>4, <2>5, <2>6, <2>7 DEF ManagerNext, Operation
  <1>3. ManagerInit => HandlesOK
    BY DEF ManagerInit, HandlesOK
  <1>4. MemoryInv /\ HandlesOK /\ [ManagerNext]_managerVars => HandlesOK'
    BY <1>0, OwnersStep DEF managerVars, HandlesOK
  <1>5. MemoryInv /\ HandlesOK /\ [ManagerNext]_managerVars =>
           [\A l \in Places : MemoryKept(l)]_managerVars
    BY <1>0, OwnersStep DEF HandlesOK
  <1>6. MemoryInv /\ HandlesOK /\ [ManagerNext]_managerVars =>
           [\A s \in Slots : HandleKept(s)]_managerVars
    BY <1>0, OwnersStep DEF HandlesOK
  <1> QED
    BY <1>1, <1>2, <1>3, <1>4, <1>5, <1>6, MemoryInvSuffices, PTL DEF ManagerSpec, MemoryHasOwner
=============================================================================
