-------------------- MODULE ExecutionGraphSchedulerProofs --------------------
(***************************************************************************)
(* Proofs about ExecutionGraphScheduler for every graph, set of resources  *)
(* and assignment of them: predecessors come first, exclusive resources    *)
(* are exclusive, no task outlives execute, and a failure reaches exactly  *)
(* what depends on it.                                                     *)
(***************************************************************************)
EXTENDS ExecutionGraphScheduler, FiniteSetTheorems, TLAPS

\* Predecessors that have not completed, and tasks that use a resource.
Missing(n) == {p \in Preds(n) : state[p] # "COMPLETED"}
Users(r)   == {n \in ActiveTasks : resource[n] = r}

(* The counters of the loop are cardinalities.  in_degree is one between    *)
(* the set-up and the end; active_resources is one until an exception, the  *)
(* only way to drop a future without giving its resource back.              *)
InDegreeCounts ==
    pc \notin {"validate", "returned"} =>
        \A n \in Nodes : in_degree[n] = Cardinality(Missing(n))

ActiveCounts ==
    pc \notin {"unwinding", "thrown"} =>
        \A r \in Resources : active[r] = Cardinality(Users(r))

\* READY is as good as started: nothing is waited for any more.
ReadyHaveAll ==
    \A n \in Nodes : state[n] \in Started \cup {"READY"} => Missing(n) = {}

\* A future is held only for a RUNNING node, and not before the set-up.
TasksRunning ==
    /\ \A n \in Nodes : task[n] # "none" => state[n] = "RUNNING"
    /\ pc = "validate" => \A n \in Nodes : task[n] = "none" /\ state[n] = "CREATED"

IInv ==
    /\ TypeOK
    /\ InDegreeCounts
    /\ ActiveCounts
    /\ ReadyHaveAll
    /\ TasksRunning
    /\ ExclusiveResources
    /\ NoTaskOutlives

-----------------------------------------------------------------------------
(* The sets that are counted are finite.                                    *)

\* Every set of nodes is finite.
LEMMA NodesFinite == ASSUME NEW S, S \subseteq Nodes PROVE IsFiniteSet(S)
  BY GraphAssumption, FS_Subset

\* Taking one node away lowers the count by one.
LEMMA CountWithout ==
    ASSUME NEW S, S \subseteq Nodes, NEW n \in S
    PROVE  /\ Cardinality(S) \in Nat
           /\ Cardinality(S) > 0
           /\ Cardinality(S \ {n}) = Cardinality(S) - 1
  <1>1. IsFiniteSet(S) BY NodesFinite
  <1>2. Cardinality(S) \in Nat BY <1>1, FS_CardinalityType
  <1>3. Cardinality(S \ {n}) = Cardinality(S) - 1 BY <1>1, FS_RemoveElement
  <1>4. Cardinality(S) # 0 BY <1>1, FS_EmptySet
  <1> QED BY <1>2, <1>3, <1>4

\* Adding one raises it by one.
LEMMA CountWith ==
    ASSUME NEW S, S \subseteq Nodes, NEW n \in Nodes, n \notin S
    PROVE  Cardinality(S \cup {n}) = Cardinality(S) + 1
  BY NodesFinite, FS_AddElement

\* A count is a natural number, and 0 for the empty set only.
LEMMA CountType ==
    ASSUME NEW S, S \subseteq Nodes
    PROVE  Cardinality(S) \in Nat /\ (Cardinality(S) = 0 <=> S = {})
  BY NodesFinite, FS_CardinalityType, FS_EmptySet

-----------------------------------------------------------------------------
(* Steps of the loop, one lemma per action or group of alike actions.       *)

\* Before the set-up nothing is counted and nothing runs.
LEMMA InitIInv == Init => IInv
  <1> SUFFICES ASSUME Init PROVE IInv OBVIOUS
  <1>1. TypeOK BY GraphAssumption DEF Init, TypeOK, GraphNodeState
  <1>2. ActiveTasks = {} BY DEF Init, ActiveTasks
  <1>3. ActiveCounts
    <2>1. \A r \in Resources : Users(r) = {} BY <1>2 DEF Users
    <2> QED BY <2>1, FS_EmptySet DEF Init, ActiveCounts
  <1>4. InDegreeCounts /\ ReadyHaveAll /\ TasksRunning
    BY DEF Init, InDegreeCounts, ReadyHaveAll, TasksRunning, Started
  <1>5. ExclusiveResources /\ NoTaskOutlives
    BY DEF Init, ExclusiveResources, NoTaskOutlives
  <1> QED BY <1>1, <1>3, <1>4, <1>5 DEF IInv

\* Steps that leave the trackers alone and start no task; one that drops a
\* future is on the way out.
LEMMA Frame ==
    ASSUME IInv, TypeOK',
           UNCHANGED <<edges, state, in_degree, active>>,
           \A n \in Nodes : task'[n] # "none" => task[n] # "none",
           pc' \notin {"validate", "returned"} => pc \notin {"validate", "returned"},
           pc' \notin {"unwinding", "thrown"} =>
              pc \notin {"unwinding", "thrown"} /\ ActiveTasks' = ActiveTasks,
           pc' = "validate" => pc = "validate",
           pc' \in {"returned", "thrown"} => ActiveTasks' = {}
    PROVE  IInv'
  <1> USE DEF IInv
  <1>1. \A n \in Nodes : Missing(n)' = Missing(n) BY DEF Missing, Preds
  <1>2. InDegreeCounts' BY <1>1 DEF InDegreeCounts
  <1>3. ActiveCounts'
    <2> SUFFICES ASSUME pc' \notin {"unwinding", "thrown"}
                 PROVE  \A r \in Resources : active'[r] = Cardinality(Users(r)')
      BY DEF ActiveCounts
    <2>1. \A r \in Resources : Users(r)' = Users(r) BY DEF Users
    <2> QED BY <2>1 DEF ActiveCounts
  <1>4. ReadyHaveAll' BY <1>1 DEF ReadyHaveAll
  <1>5. TasksRunning' BY DEF TasksRunning
  <1>6. ExclusiveResources' BY DEF ExclusiveResources
  <1>7. NoTaskOutlives' BY DEF NoTaskOutlives
  <1> QED BY <1>2, <1>3, <1>4, <1>5, <1>6, <1>7

\* Nothing runs before the set-up, nor when nothing is RUNNING.
LEMMA NothingActive ==
    ASSUME IInv, pc = "validate" \/ \A n \in Nodes : state[n] # "RUNNING"
    PROVE  ActiveTasks = {}
  BY DEF IInv, TasksRunning, ActiveTasks

\* The steps between dispatching and polling, and around the loop.
LEMMA LoopStep ==
    ASSUME IInv, \/ Refuse \/ StartPolling \/ PollPass \/ Again \/ Return
                 \/ \E n \in Nodes : PollPending(n)
    PROVE  IInv'
  <1>1. UNCHANGED <<edges, cancel, state, in_degree, active, task>>
    BY DEF Refuse, StartPolling, PollPass, Again, Return, PollPending, nodeVars
  <1>2. ActiveTasks' = ActiveTasks BY <1>1 DEF ActiveTasks
  <1>3. TypeOK'
    BY <1>1 DEF IInv, TypeOK, Refuse, StartPolling, PollPass, Again, Return, PollPending,
                nodeVars, ActiveTasks
  <1>4. CASE Refuse
    <2>1. ActiveTasks = {} BY <1>4, NothingActive DEF Refuse
    <2> QED BY <1>1, <1>2, <1>3, <1>4, <2>1, Frame DEF Refuse
  <1>5. CASE Return
    <2>1. ActiveTasks = {} BY <1>5, NothingActive DEF Return
    <2> QED BY <1>1, <1>2, <1>3, <1>5, <2>1, Frame DEF Return
  <1>6. CASE StartPolling \/ PollPass \/ Again \/ \E n \in Nodes : PollPending(n)
    <2>1. pc \in {"dispatch", "poll", "check"} /\ pc' \in {"poll", "check", "top"}
      BY <1>6 DEF StartPolling, PollPass, Again, PollPending
    <2> QED BY <1>1, <1>2, <1>3, <2>1, Frame
  <1> QED BY <1>4, <1>5, <1>6

\* A task ends, or the flag is set: nothing the loop keeps changes.
LEMMA OtherThreads ==
    ASSUME IInv, Cancel \/ \E n \in Nodes : TaskEnds(n) PROVE IInv'
  <1>1. UNCHANGED <<edges, state, in_degree, active, pc>>
    BY DEF Cancel, TaskEnds, nodeVars, loopVars
  <1>2. TypeOK' BY DEF IInv, TypeOK, Cancel, TaskEnds, nodeVars, loopVars
  <1>3. \A n \in Nodes : task'[n] # "none" <=> task[n] # "none"
    BY DEF IInv, TypeOK, Cancel, TaskEnds
  <1>4. ActiveTasks' = ActiveTasks BY <1>3 DEF ActiveTasks
  <1>5. pc \in {"returned", "thrown"} => ActiveTasks = {} BY DEF IInv, NoTaskOutlives
  <1> QED
    <2>1. CASE pc \in {"unwinding", "thrown"} BY <1>1, <1>2, <1>3, <1>4, <1>5, <2>1, Frame
    <2>2. CASE pc \notin {"unwinding", "thrown"} BY <1>1, <1>2, <1>3, <1>4, <1>5, <2>2, Frame
    <2> QED BY <2>1, <2>2

\* An exception drops futures, and leaves only when their threads have ended.
LEMMA WayOut ==
    ASSUME IInv, Unwound \/ \E n \in Nodes : PollThrew(n) PROVE IInv'
  <1>1. UNCHANGED <<edges, cancel, state, in_degree, active, finished, success>>
    BY DEF Unwound, PollThrew, nodeVars
  <1>2. CASE Unwound
    <2>1. TypeOK' BY <1>1, <1>2 DEF IInv, TypeOK, Unwound
    <2>2. \A n \in Nodes : task'[n] = "none" BY <1>2 DEF Unwound
    <2>3. ActiveTasks' = {} BY <2>2 DEF ActiveTasks
    <2> QED BY <1>1, <1>2, <2>1, <2>2, <2>3, Frame DEF Unwound
  <1>3. CASE \E n \in Nodes : PollThrew(n)
    <2>1. TypeOK' BY <1>1, <1>3 DEF IInv, TypeOK, PollThrew
    <2>2. \A n \in Nodes : task'[n] # "none" => task[n] # "none"
      BY <1>3 DEF IInv, TypeOK, PollThrew
    <2> QED BY <1>1, <1>3, <2>1, <2>2, Frame DEF PollThrew
  <1> QED BY <1>2, <1>3

\* The set-up counts the predecessors, none of which has completed.
LEMMA PrepareStep == ASSUME IInv, Prepare PROVE IInv'
  <1> USE DEF IInv
  <1>1. UNCHANGED <<edges, cancel, task, active, todo, finished>> /\ pc = "validate" /\ pc' = "top"
    BY DEF Prepare
  <1>2. \A n \in Nodes : Preds(n) \subseteq Nodes BY DEF Preds
  <1>3. \A n \in Nodes : /\ Cardinality(Preds(n)) \in Nat
                         /\ Cardinality(Preds(n)) = 0 <=> Preds(n) = {}
    BY <1>2, CountType
  <1>4. in_degree' \in [Nodes -> Nat] /\ \A n \in Nodes : in_degree'[n] = Cardinality(Preds(n))
    BY <1>3 DEF Prepare
  <1>5. \A n \in Nodes : state'[n] = IF in_degree'[n] = 0 THEN "READY" ELSE "CREATED"
    BY DEF Prepare
  <1>6. state' \in [Nodes -> GraphNodeState] BY DEF Prepare, GraphNodeState
  <1>7. TypeOK' BY <1>1, <1>4, <1>6 DEF TypeOK, Prepare
  <1>8. \A n \in Nodes : Missing(n)' = Preds(n) BY <1>1, <1>5 DEF Missing, Preds
  <1>9. InDegreeCounts' BY <1>4, <1>8 DEF InDegreeCounts
  <1>10. ActiveTasks' = ActiveTasks /\ ActiveTasks = {}
    BY <1>1, NothingActive DEF ActiveTasks
  <1>11. ActiveCounts'
    <2>1. \A r \in Resources : Users(r)' = Users(r) BY <1>10 DEF Users
    <2> QED BY <1>1, <2>1 DEF ActiveCounts
  <1>12. ReadyHaveAll' BY <1>3, <1>4, <1>5, <1>8 DEF ReadyHaveAll, Started
  <1>13. TasksRunning' BY <1>1 DEF TasksRunning
  <1>14. ExclusiveResources' /\ NoTaskOutlives' BY <1>1 DEF ExclusiveResources, NoTaskOutlives
  <1> QED BY <1>7, <1>9, <1>11, <1>12, <1>13, <1>14

\* A cancellation changes neither what has completed nor what runs.
LEMMA CheckCancelStep == ASSUME IInv, CheckCancel PROVE IInv'
  <1> USE DEF IInv
  <1>1. UNCHANGED <<edges, cancel, task, in_degree, active, finished>> /\ pc = "top" /\ pc' = "dispatch"
    BY DEF CheckCancel
  <1>2. TypeOK' BY <1>1 DEF TypeOK, CheckCancel, GraphNodeState
  <1>3. \A n \in Nodes : \/ state'[n] = state[n]
                         \/ state'[n] = "CANCELLED" /\ state[n] \in {"READY", "CREATED"}
    BY DEF CheckCancel, TypeOK
  <1>4. \A n \in Nodes : Missing(n)' = Missing(n)
    BY <1>1, <1>3 DEF Missing, Preds
  <1>5. InDegreeCounts' BY <1>1, <1>4 DEF InDegreeCounts
  <1>6. ActiveTasks' = ActiveTasks BY <1>1 DEF ActiveTasks
  <1>7. ActiveCounts'
    <2>1. \A r \in Resources : Users(r)' = Users(r) BY <1>6 DEF Users
    <2> QED BY <1>1, <2>1 DEF ActiveCounts
  <1>8. ReadyHaveAll' BY <1>3, <1>4 DEF ReadyHaveAll, Started
  <1>9. TasksRunning' BY <1>1, <1>3 DEF TasksRunning
  <1>10. ExclusiveResources' /\ NoTaskOutlives' BY <1>1 DEF ExclusiveResources, NoTaskOutlives
  <1> QED BY <1>2, <1>5, <1>7, <1>8, <1>9, <1>10

\* A node that is dispatched was READY, and found its resource free.
LEMMA DispatchStep == ASSUME IInv, NEW n \in Nodes, Dispatch(n) PROVE IInv'
  <1> USE DEF IInv
  <1> DEFINE r == resource[n]
  <1>0. r \in Resources BY GraphAssumption
  <1>1. UNCHANGED <<edges, cancel, in_degree, pc, finished, success>> /\ pc = "dispatch"
        /\ todo' \subseteq Nodes
    BY DEF Dispatch, TypeOK
  <1>2. CASE UNCHANGED <<state, active, task>>
    <2>1. TypeOK' BY <1>1, <1>2 DEF TypeOK
    <2>2. ActiveTasks' = ActiveTasks BY <1>2 DEF ActiveTasks
    <2> QED BY <1>1, <1>2, <2>1, <2>2, Frame
  <1>3. CASE ~UNCHANGED <<state, active, task>>
    <2>1. /\ state[n] = "READY" /\ checkResourceAvailable(r)
          /\ state' = [state EXCEPT ![n] = "RUNNING"]
          /\ active' = [active EXCEPT ![r] = @ + 1]
          /\ task' = [task EXCEPT ![n] = "running"]
      BY <1>3 DEF Dispatch
    <2>2. TypeOK' BY <1>0, <1>1, <2>1 DEF TypeOK, GraphNodeState
    <2>3. \A m \in Nodes : Missing(m)' = Missing(m)
      BY <1>1, <2>1 DEF Missing, Preds, TypeOK
    <2>4. InDegreeCounts' BY <1>1, <2>3 DEF InDegreeCounts
    <2>5. ReadyHaveAll' BY <2>1, <2>3 DEF ReadyHaveAll, TypeOK, Started
    <2>6. task[n] = "none" BY <2>1 DEF TasksRunning
    <2>7. ActiveTasks' = ActiveTasks \cup {n} /\ n \notin ActiveTasks
      BY <2>1, <2>6 DEF ActiveTasks, TypeOK
    <2>8. Users(r)' = Users(r) \cup {n} /\ n \notin Users(r) /\ Users(r) \subseteq Nodes
      BY <2>7 DEF Users, ActiveTasks
    <2>9. Cardinality(Users(r)') = Cardinality(Users(r)) + 1 BY <2>8, CountWith
    <2>10. \A q \in Resources : q # r => Users(q)' = Users(q) BY <2>7 DEF Users
    <2>11. ActiveCounts'
      <3>1. ASSUME NEW q \in Resources PROVE active'[q] = Cardinality(Users(q)')
        <4>1. active[q] = Cardinality(Users(q)) BY <1>1 DEF ActiveCounts
        <4>2. CASE q = r BY <1>0, <2>1, <2>9, <4>1, <4>2 DEF TypeOK
        <4>3. CASE q # r BY <1>0, <2>1, <2>10, <4>1, <4>3 DEF TypeOK
        <4> QED BY <4>2, <4>3
      <3> QED BY <3>1 DEF ActiveCounts
    <2>12. TasksRunning' BY <1>1, <2>1 DEF TasksRunning, TypeOK
    <2>13. r \notin Shared => Users(r) = {}
      BY <1>0, <1>1, <2>1, <2>8, CountType DEF checkResourceAvailable, ActiveCounts
    <2>14. ExclusiveResources'
      <3>1. \A m \in Nodes : m # n /\ resource[m] = r /\ r \notin Shared => task[m] = "none"
        BY <2>13 DEF Users, ActiveTasks
      <3>2. \A m \in Nodes : m # n => task'[m] = task[m] BY <2>1 DEF TypeOK
      <3> QED BY <3>1, <3>2 DEF ExclusiveResources
    <2>15. NoTaskOutlives' BY <1>1 DEF NoTaskOutlives
    <2> QED BY <2>2, <2>4, <2>5, <2>11, <2>12, <2>14, <2>15
  <1> QED BY <1>2, <1>3

-----------------------------------------------------------------------------
(* Collecting a future.                                                     *)

\* The node leaves active_tasks and gives its resource back.
LEMMA CollectStep ==
    ASSUME IInv, NEW n \in Nodes, task[n] # "none", Collect(n)
    PROVE  /\ active' \in [Resources -> Nat]
           /\ task' = [task EXCEPT ![n] = "none"]
           /\ ActiveCounts'
           /\ ExclusiveResources'
  <1> USE DEF IInv
  <1> DEFINE r == resource[n]
  <1>0. r \in Resources BY GraphAssumption
  <1>1. /\ pc = "poll" /\ pc' = pc
        /\ task' = [task EXCEPT ![n] = "none"]
        /\ active' = [active EXCEPT ![r] = @ - 1]
    BY DEF Collect
  <1>2. ActiveTasks' = ActiveTasks \ {n} /\ n \in ActiveTasks BY <1>1 DEF ActiveTasks, TypeOK
  <1>3. Users(r)' = Users(r) \ {n} /\ n \in Users(r) /\ Users(r) \subseteq Nodes
    BY <1>2 DEF Users, ActiveTasks
  <1>4. /\ Cardinality(Users(r)) \in Nat /\ Cardinality(Users(r)) > 0
        /\ Cardinality(Users(r)') = Cardinality(Users(r)) - 1
    BY <1>3, CountWithout
  <1>5. \A q \in Resources : q # r => Users(q)' = Users(q) BY <1>2 DEF Users
  <1>6. \A q \in Resources : active[q] = Cardinality(Users(q)) BY <1>1 DEF ActiveCounts
  <1>7. active' \in [Resources -> Nat] BY <1>0, <1>1, <1>4, <1>6 DEF TypeOK
  <1>8. ActiveCounts'
    <2>1. ASSUME NEW q \in Resources PROVE active'[q] = Cardinality(Users(q)')
      <3>1. CASE q = r BY <1>0, <1>1, <1>4, <1>6, <3>1 DEF TypeOK
      <3>2. CASE q # r BY <1>0, <1>1, <1>5, <1>6, <3>2 DEF TypeOK
      <3> QED BY <3>1, <3>2
    <2> QED BY <2>1 DEF ActiveCounts
  <1>9. ExclusiveResources' BY <1>1 DEF ExclusiveResources, TypeOK
  <1> QED BY <1>1, <1>7, <1>8, <1>9

\* A success lowers the in-degree of exactly the nodes that missed it.
LEMMA PollCompletedStep == ASSUME IInv, NEW n \in Nodes, PollCompleted(n) PROVE IInv'
  <1> USE DEF IInv
  <1>1. task[n] # "none" /\ Collect(n) BY DEF PollCompleted
  <1>2. /\ UNCHANGED <<edges, cancel, pc, success>> /\ pc = "poll"
        /\ finished' = TRUE /\ todo' \subseteq Nodes
    BY DEF PollCompleted, Collect, TypeOK
  <1>3. /\ active' \in [Resources -> Nat]
        /\ task' = [task EXCEPT ![n] = "none"]
        /\ ActiveCounts' /\ ExclusiveResources'
    BY <1>1, CollectStep
  <1>4. state[n] = "RUNNING" BY <1>1 DEF TasksRunning
  <1>5. \A m \in Nodes : in_degree'[m] = IF m \in Succs(n) THEN in_degree[m] - 1 ELSE in_degree[m]
    BY DEF PollCompleted
  <1>6. \A m \in Nodes : state'[m] = IF m = n THEN "COMPLETED"
                                    ELSE IF m \in Succs(n) /\ in_degree'[m] = 0 /\ state[m] = "CREATED"
                                    THEN "READY" ELSE state[m]
    BY DEF PollCompleted
  <1>7. state' \in [Nodes -> GraphNodeState] BY DEF PollCompleted, TypeOK, GraphNodeState
  <1>8. \A m \in Nodes : Missing(m)' = Missing(m) \ {n}
    BY <1>2, <1>6 DEF Missing, Preds
  <1>9. \A m \in Nodes : m \in Succs(n) <=> n \in Missing(m)
    BY <1>4 DEF Missing, Preds, Succs
  <1>10. \A m \in Nodes : Missing(m) \subseteq Nodes BY DEF Missing, Preds
  <1>11. \A m \in Nodes : in_degree[m] = Cardinality(Missing(m)) BY <1>2 DEF InDegreeCounts
  <1>12. ASSUME NEW m \in Nodes
         PROVE  in_degree'[m] \in Nat /\ in_degree'[m] = Cardinality(Missing(m)')
    <2>1. CASE m \in Succs(n)
      <3>1. /\ Cardinality(Missing(m)) \in Nat /\ Cardinality(Missing(m)) > 0
            /\ Cardinality(Missing(m) \ {n}) = Cardinality(Missing(m)) - 1
        BY <1>9, <1>10, <2>1, CountWithout
      <3>2. Cardinality(Missing(m)') = Cardinality(Missing(m) \ {n}) BY <1>8
      <3>3. in_degree'[m] = in_degree[m] - 1 BY <1>5, <2>1
      <3> QED BY <1>11, <3>1, <3>2, <3>3
    <2>2. CASE m \notin Succs(n)
      <3>1. Missing(m)' = Missing(m) BY <1>8, <1>9, <2>2
      <3> QED BY <1>5, <1>11, <2>2, <3>1 DEF TypeOK
    <2> QED BY <2>1, <2>2
  <1>13. in_degree' \in [Nodes -> Nat]
    <2>1. in_degree' = [m \in Nodes |-> IF m \in Succs(n) THEN in_degree[m] - 1 ELSE in_degree[m]]
      BY DEF PollCompleted
    <2> QED BY <1>12, <2>1
  <1>14. TypeOK' BY <1>2, <1>3, <1>7, <1>13 DEF TypeOK
  <1>15. InDegreeCounts' BY <1>12 DEF InDegreeCounts
  <1>16. ReadyHaveAll'
    <2> SUFFICES ASSUME NEW m \in Nodes, state'[m] \in Started \cup {"READY"}
                 PROVE  Missing(m)' = {}
      BY DEF ReadyHaveAll, Started
    <2>1. CASE state[m] \in Started \cup {"READY"}
      BY <1>8, <2>1 DEF ReadyHaveAll
    <2>2. CASE state[m] \notin Started \cup {"READY"}
      <3>1. in_degree'[m] = 0 BY <1>4, <1>6, <2>2 DEF Started
      <3>2. Missing(m)' \subseteq Nodes BY <1>8, <1>10
      <3> QED BY <1>12, <3>1, <3>2, CountType
    <2> QED BY <2>1, <2>2
  <1>17. TasksRunning' BY <1>2, <1>3, <1>6 DEF TasksRunning, TypeOK
  <1>18. NoTaskOutlives' BY <1>2 DEF NoTaskOutlives
  <1> QED BY <1>3, <1>14, <1>15, <1>16, <1>17, <1>18

\* A failure blocks nodes that have not started: none that has completed.
LEMMA PollFailedStep == ASSUME IInv, NEW n \in Nodes, PollFailed(n) PROVE IInv'
  <1> USE DEF IInv
  <1>1. task[n] # "none" /\ Collect(n) BY DEF PollFailed
  <1>2. /\ UNCHANGED <<edges, cancel, pc, in_degree>> /\ pc = "poll" /\ success' = FALSE
        /\ finished' = TRUE /\ todo' \subseteq Nodes
    BY DEF PollFailed, Collect, TypeOK
  <1>3. /\ active' \in [Resources -> Nat]
        /\ task' = [task EXCEPT ![n] = "none"]
        /\ ActiveCounts' /\ ExclusiveResources'
    BY <1>1, CollectStep
  <1>4. state[n] = "RUNNING" BY <1>1 DEF TasksRunning
  <1>5. failDependentNodes(n) \subseteq NotStarted BY DEF failDependentNodes
  <1>6. \A m \in Nodes : \/ state'[m] = state[m] /\ m # n
                         \/ state'[m] = "BLOCKED" /\ state[m] \in {"CREATED", "READY"}
                         \/ state'[m] = "FAILED" /\ m = n
    BY <1>5 DEF PollFailed, NotStarted
  <1>7. state' \in [Nodes -> GraphNodeState]
    <2>1. state' = [m \in Nodes |-> IF m \in failDependentNodes(n) THEN "BLOCKED"
                                    ELSE IF m = n THEN "FAILED" ELSE state[m]]
      BY DEF PollFailed
    <2> QED BY <2>1 DEF TypeOK, GraphNodeState
  <1>8. TypeOK' BY <1>2, <1>3, <1>7 DEF TypeOK
  <1>9. \A m \in Nodes : Missing(m)' = Missing(m)
    BY <1>2, <1>4, <1>6 DEF Missing, Preds
  <1>10. InDegreeCounts' BY <1>2, <1>9 DEF InDegreeCounts
  <1>11. ReadyHaveAll' BY <1>4, <1>6, <1>9 DEF ReadyHaveAll, Started
  <1>12. TasksRunning' BY <1>2, <1>3, <1>6 DEF TasksRunning, TypeOK
  <1>13. NoTaskOutlives' BY <1>2 DEF NoTaskOutlives
  <1> QED BY <1>3, <1>8, <1>10, <1>11, <1>12, <1>13

-----------------------------------------------------------------------------
\* Every step of the loop, of a task or of a canceller keeps the invariant.
LEMMA NextIInv == IInv /\ [Next]_vars => IInv'
  <1> SUFFICES ASSUME IInv, [Next]_vars PROVE IInv' OBVIOUS
  <1>1. CASE Loop
    <2>1. CASE Refuse \/ StartPolling \/ PollPass \/ Again \/ Return BY <2>1, LoopStep
    <2>2. CASE Prepare BY <2>2, PrepareStep
    <2>3. CASE CheckCancel BY <2>3, CheckCancelStep
    <2>4. CASE Unwound BY <2>4, WayOut
    <2>5. CASE \E n \in Nodes : Dispatch(n) BY <2>5, DispatchStep
    <2>6. CASE \E n \in Nodes : PollPending(n) BY <2>6, LoopStep
    <2>7. CASE \E n \in Nodes : PollCompleted(n) BY <2>7, PollCompletedStep
    <2>8. CASE \E n \in Nodes : PollFailed(n) BY <2>8, PollFailedStep
    <2>9. CASE \E n \in Nodes : PollThrew(n) BY <2>9, WayOut
    <2> QED BY <1>1, <2>1, <2>2, <2>3, <2>4, <2>5, <2>6, <2>7, <2>8, <2>9 DEF Loop
  <1>2. CASE Cancel \/ \E n \in Nodes : TaskEnds(n) BY <1>2, OtherThreads
  <1>3. CASE UNCHANGED vars
    <2>1. TypeOK' /\ ActiveTasks' = ActiveTasks
      BY <1>3 DEF IInv, TypeOK, ActiveTasks, vars, nodeVars, loopVars
    <2>2. pc \in {"returned", "thrown"} => ActiveTasks = {} BY DEF IInv, NoTaskOutlives
    <2>3. /\ UNCHANGED <<edges, state, in_degree, active, pc>>
          /\ \A n \in Nodes : task'[n] # "none" => task[n] # "none"
      BY <1>3 DEF vars, nodeVars, loopVars
    <2>4. CASE pc \in {"unwinding", "thrown"} BY <2>1, <2>2, <2>3, <2>4, Frame
    <2>5. CASE pc \notin {"unwinding", "thrown"} BY <2>1, <2>2, <2>3, <2>5, Frame
    <2> QED BY <2>4, <2>5
  <1> QED BY <1>1, <1>2, <1>3 DEF Next

\* The inductive invariant of execute.
THEOREM Inductive == Spec => []IInv
  BY InitIInv, NextIInv, PTL DEF Spec

\* in_degree and active_resources never go below zero, whatever completes,
\* fails or throws in whatever order.
THEOREM TypeCorrect == Spec => []TypeOK
  BY Inductive, PTL DEF IInv

\* Whatever the graph, a node starts only when every predecessor has
\* succeeded.
THEOREM PredecessorsComeFirst == Spec => []PredecessorsFirst
  <1>1. IInv => PredecessorsFirst
    BY DEF IInv, ReadyHaveAll, Missing, PredecessorsFirst
  <1> QED BY <1>1, Inductive, PTL

\* No two tasks hold an exclusive resource, also while an exception unwinds.
THEOREM ResourcesAreExclusive == Spec => []ExclusiveResources
  BY Inductive, PTL DEF IInv

\* When execute has returned or thrown, no task of it is left.
THEOREM TasksAreJoined == Spec => []NoTaskOutlives
  BY Inductive, PTL DEF IInv

-----------------------------------------------------------------------------
(* Failures.  What is BLOCKED or CANCELLED stays so; the invariant says     *)
(* what is left over meanwhile.                                             *)

\* A failure has reached everything that depends on it, and nothing else.
Propagated ==
    \A n \in Nodes :
        /\ state[n] = "BLOCKED" => \E p \in Preds(n) : state[p] \in {"FAILED", "BLOCKED"}
        /\ state[n] \in {"FAILED", "BLOCKED"} =>
              \A s \in Succs(n) : state[s] \in {"BLOCKED", "CANCELLED"}

\* A node that waits has something to wait for; a cancellation has found all
\* that had not started, and is not a success.
Leftovers ==
    /\ pc # "validate" /\ Acyclic =>
          \A n \in Nodes : state[n] = "CREATED" => Missing(n) # {}
    /\ \A n \in Nodes : state[n] = "CANCELLED" =>
          ~success /\ \A m \in Nodes : state[m] \notin {"CREATED", "READY"}

Returned ==
    pc = "returned" /\ Acyclic =>
        /\ \A n \in Nodes : state[n] \notin {"CREATED", "READY", "RUNNING"}
        /\ success => \A n \in Nodes : state[n] = "COMPLETED"

FInv == Propagated /\ Leftovers /\ Returned

\* Steps that leave the nodes alone.
LEMMA FailureFrame ==
    ASSUME FInv, UNCHANGED <<edges, state>>, pc' # "returned" \/ pc = "returned",
           pc' # "validate" => pc # "validate", success' = success
    PROVE  FInv'
  <1>1. \A n \in Nodes : Preds(n)' = Preds(n) /\ Succs(n)' = Succs(n) /\ Missing(n)' = Missing(n)
    BY DEF Preds, Succs, Missing
  <1>2. Acyclic' <=> Acyclic BY DEF Acyclic, Preds
  <1>3. Propagated' BY <1>1 DEF FInv, Propagated
  <1>4. Leftovers' BY <1>1, <1>2 DEF FInv, Leftovers
  <1>5. Returned' BY <1>2 DEF FInv, Returned
  <1> QED BY <1>3, <1>4, <1>5 DEF FInv

\* The set-up of a graph, or its refusal.
LEMMA FailureBegins == ASSUME IInv, FInv, Refuse \/ Prepare PROVE FInv'
  <1>1. CASE Refuse
    <2>1. UNCHANGED <<edges, state>> /\ pc = "validate" /\ pc' = "returned" /\ ~Acyclic
      BY <1>1 DEF Refuse, nodeVars
    <2>2. ~Acyclic' BY <2>1 DEF Acyclic, Preds
    <2>3. \A n \in Nodes : state'[n] = "CREATED" BY <2>1 DEF IInv, TasksRunning
    <2> QED BY <2>2, <2>3 DEF FInv, Propagated, Leftovers, Returned
  <1>2. CASE Prepare
    <2>1. UNCHANGED edges /\ pc' = "top" BY <1>2 DEF Prepare
    <2>2. \A n \in Nodes : state'[n] \in {"READY", "CREATED"} BY <1>2 DEF Prepare
    <2>3. \A n \in Nodes : state'[n] = "CREATED" => Missing(n)' # {}
      <3> SUFFICES ASSUME NEW n \in Nodes, state'[n] = "CREATED" PROVE Missing(n)' # {} OBVIOUS
      <3>1. Cardinality(Preds(n)) # 0 BY <1>2 DEF Prepare
      <3>2. Preds(n) \subseteq Nodes BY DEF Preds
      <3>3. Preds(n) # {} BY <3>1, <3>2, CountType
      <3>4. Missing(n)' = Preds(n) BY <2>1, <2>2, <3>2 DEF Missing, Preds
      <3> QED BY <3>3, <3>4
    <2> QED BY <2>1, <2>2, <2>3 DEF FInv, Propagated, Leftovers, Returned
  <1> QED BY <1>1, <1>2

\* A cancellation finds all that has not started.
LEMMA FailureCancelled == ASSUME IInv, FInv, CheckCancel PROVE FInv'
  <1>1. UNCHANGED edges /\ pc = "top" /\ pc' = "dispatch" BY DEF CheckCancel
  <1>2. CASE ~cancel BY <1>1, <1>2, FailureFrame DEF CheckCancel
  <1>3. CASE cancel
    <2>1. success' = FALSE BY <1>3 DEF CheckCancel
    <2>2. \A n \in Nodes : state'[n] =
             IF state[n] \in {"READY", "CREATED"} THEN "CANCELLED" ELSE state[n]
      BY <1>3 DEF CheckCancel
    <2>3. \A n \in Nodes : Preds(n)' = Preds(n) /\ Succs(n)' = Succs(n)
                            /\ Preds(n) \subseteq Nodes /\ Succs(n) \subseteq Nodes
      BY <1>1 DEF Preds, Succs
    <2>4. Propagated'
      <3> SUFFICES ASSUME NEW n \in Nodes
                   PROVE  /\ state'[n] = "BLOCKED" => \E p \in Preds(n) : state'[p] \in {"FAILED", "BLOCKED"}
                          /\ state'[n] \in {"FAILED", "BLOCKED"} =>
                                \A s \in Succs(n) : state'[s] \in {"BLOCKED", "CANCELLED"}
        BY <2>3 DEF Propagated
      <3>1. state'[n] = "BLOCKED" => \E p \in Preds(n) : state'[p] \in {"FAILED", "BLOCKED"}
        BY <2>2, <2>3 DEF FInv, Propagated
      <3>2. state'[n] \in {"FAILED", "BLOCKED"} => \A s \in Succs(n) : state'[s] \in {"BLOCKED", "CANCELLED"}
        BY <2>2, <2>3 DEF FInv, Propagated
      <3> QED BY <3>1, <3>2
    <2>5. Leftovers' BY <2>1, <2>2 DEF Leftovers
    <2>6. Returned' BY <1>1 DEF Returned
    <2> QED BY <2>4, <2>5, <2>6 DEF FInv
  <1> QED BY <1>2, <1>3

\* A node is dispatched.
LEMMA FailureDispatch == ASSUME IInv, FInv, NEW n \in Nodes, Dispatch(n) PROVE FInv'
  <1>1. UNCHANGED <<edges, pc, success>> /\ pc = "dispatch" BY DEF Dispatch
  <1>2. CASE UNCHANGED state BY <1>1, <1>2, FailureFrame
  <1>3. CASE ~UNCHANGED state
    <2>1. state[n] = "READY" /\ state' = [state EXCEPT ![n] = "RUNNING"] BY <1>3 DEF Dispatch
    <2>2. \A m \in Nodes : state'[m] = IF m = n THEN "RUNNING" ELSE state[m]
      BY <2>1 DEF IInv, TypeOK
    <2>3. \A m \in Nodes : /\ Preds(m)' = Preds(m) /\ Succs(m)' = Succs(m)
                            /\ Preds(m) \subseteq Nodes /\ Succs(m) \subseteq Nodes
      BY <1>1 DEF Preds, Succs
    <2>4. \A m \in Nodes : Missing(m)' = Missing(m) BY <2>1, <2>2, <2>3 DEF Missing
    <2>5. Propagated'
      <3> SUFFICES ASSUME NEW m \in Nodes
                   PROVE  /\ state'[m] = "BLOCKED" => \E p \in Preds(m) : state'[p] \in {"FAILED", "BLOCKED"}
                          /\ state'[m] \in {"FAILED", "BLOCKED"} =>
                                \A s \in Succs(m) : state'[s] \in {"BLOCKED", "CANCELLED"}
        BY <2>3 DEF Propagated
      <3>1. state'[m] = "BLOCKED" => \E p \in Preds(m) : state'[p] \in {"FAILED", "BLOCKED"}
        BY <2>1, <2>2, <2>3 DEF FInv, Propagated
      <3>2. state'[m] \in {"FAILED", "BLOCKED"} => \A s \in Succs(m) : state'[s] \in {"BLOCKED", "CANCELLED"}
        BY <2>1, <2>2, <2>3 DEF FInv, Propagated
      <3> QED BY <3>1, <3>2
    <2>6. Acyclic' <=> Acyclic BY <1>1 DEF Acyclic, Preds
    <2>7. Leftovers' BY <1>1, <2>1, <2>2, <2>4, <2>6 DEF FInv, Leftovers
    <2>8. Returned' BY <1>1 DEF Returned
    <2> QED BY <2>5, <2>7, <2>8 DEF FInv
  <1> QED BY <1>2, <1>3

\* What waits for a node that has not completed is neither READY nor started.
LEMMA Waiting ==
    ASSUME IInv, NEW n \in Nodes, state[n] # "COMPLETED", NEW s \in Succs(n)
    PROVE  s \in Nodes /\ state[s] \in {"CREATED", "BLOCKED", "CANCELLED"}
  <1>1. s \in Nodes /\ n \in Missing(s) BY DEF Succs, Missing, Preds
  <1>2. state[s] \notin Started \cup {"READY"} BY <1>1 DEF IInv, ReadyHaveAll
  <1> QED BY <1>1, <1>2 DEF IInv, TypeOK, GraphNodeState, Started

\* A node completes: what waited for it alone is READY.
LEMMA FailureCompleted == ASSUME IInv, FInv, NEW n \in Nodes, PollCompleted(n) PROVE FInv'
  <1>1. /\ UNCHANGED <<edges, pc, success>> /\ pc = "poll" /\ task[n] # "none"
    BY DEF PollCompleted, Collect
  <1>2. state[n] = "RUNNING" BY <1>1 DEF IInv, TasksRunning
  <1>3. \A m \in Nodes : state'[m] = IF m = n THEN "COMPLETED"
                                    ELSE IF m \in Succs(n) /\ in_degree'[m] = 0 /\ state[m] = "CREATED"
                                    THEN "READY" ELSE state[m]
    BY DEF PollCompleted
  <1>4. \A m \in Nodes : /\ Preds(m)' = Preds(m) /\ Succs(m)' = Succs(m)
                          /\ Preds(m) \subseteq Nodes /\ Succs(m) \subseteq Nodes
    BY <1>1 DEF Preds, Succs
  <1>5. \A m \in Nodes : state[m] \in {"FAILED", "BLOCKED", "CANCELLED"} => state'[m] = state[m]
    BY <1>2, <1>3
  <1>6. \A m \in Nodes : state'[m] \in {"FAILED", "BLOCKED", "CANCELLED"} => state[m] = state'[m]
    BY <1>3
  <1>7. Propagated'
    <2> SUFFICES ASSUME NEW m \in Nodes
                 PROVE  /\ state'[m] = "BLOCKED" => \E p \in Preds(m) : state'[p] \in {"FAILED", "BLOCKED"}
                        /\ state'[m] \in {"FAILED", "BLOCKED"} =>
                              \A s \in Succs(m) : state'[s] \in {"BLOCKED", "CANCELLED"}
      BY <1>4 DEF Propagated
    <2>1. state'[m] = "BLOCKED" => \E p \in Preds(m) : state'[p] \in {"FAILED", "BLOCKED"}
      BY <1>4, <1>5, <1>6 DEF FInv, Propagated
    <2>2. state'[m] \in {"FAILED", "BLOCKED"} => \A s \in Succs(m) : state'[s] \in {"BLOCKED", "CANCELLED"}
      BY <1>4, <1>5, <1>6 DEF FInv, Propagated
    <2> QED BY <2>1, <2>2
  <1>8. Acyclic' <=> Acyclic BY <1>1 DEF Acyclic, Preds
  <1>9. IInv' BY PollCompletedStep
  <1>10. ASSUME Acyclic, NEW m \in Nodes, state'[m] = "CREATED" PROVE Missing(m)' # {}
    <2>1. state[m] = "CREATED" /\ m # n BY <1>2, <1>3, <1>10
    <2>2. Missing(m) # {} BY <1>1, <1>10, <2>1 DEF FInv, Leftovers
    <2>3. CASE m \notin Succs(n)
      <3>1. \A p \in Preds(m) : p # n BY <2>3 DEF Preds, Succs
      <3>2. \A p \in Preds(m) : state'[p] = "COMPLETED" => state[p] = "COMPLETED"
        BY <1>3, <1>4, <3>1
      <3> QED BY <1>4, <2>2, <3>2 DEF Missing
    <2>4. CASE m \in Succs(n)
      <3>1. in_degree'[m] # 0 BY <1>3, <1>10, <2>1, <2>4
      <3>2. in_degree'[m] = Cardinality(Missing(m)') BY <1>1, <1>9 DEF IInv, InDegreeCounts
      <3> QED BY <3>1, <3>2, FS_EmptySet
    <2> QED BY <2>3, <2>4
  <1>11. Leftovers'
    <2>1. ASSUME NEW m \in Nodes, state'[m] = "CANCELLED"
          PROVE  ~success' /\ \A k \in Nodes : state'[k] \notin {"CREATED", "READY"}
      <3>1. state[m] = "CANCELLED" BY <1>6, <2>1
      <3>2. ~success /\ \A k \in Nodes : state[k] \notin {"CREATED", "READY"}
        BY <3>1 DEF FInv, Leftovers
      <3> QED BY <1>1, <1>3, <3>2
    <2> QED BY <1>8, <1>10, <2>1 DEF Leftovers
  <1>12. Returned' BY <1>1 DEF Returned
  <1> QED BY <1>7, <1>11, <1>12 DEF FInv

\* failDependentNodes stops where there is nothing more to block, and blocks
\* nothing but on account of the failed node or of one it has blocked.
LEMMA DependentNodes ==
    ASSUME NEW n \in Nodes
    PROVE  /\ failDependentNodes(n) \subseteq NotStarted
           /\ \A m \in failDependentNodes(n) \cup {n} :
                 Succs(m) \cap NotStarted \subseteq failDependentNodes(n)
           /\ \A m \in failDependentNodes(n) :
                 \E p \in failDependentNodes(n) \cup {n} : m \in Succs(p)
  <1> DEFINE Closed(S) == \A m \in S \cup {n} : Succs(m) \cap NotStarted \subseteq S
             B == {m \in NotStarted : \A S \in SUBSET NotStarted : Closed(S) => m \in S}
  <1>1. failDependentNodes(n) = B BY DEF failDependentNodes
  <1>2. B \subseteq NotStarted OBVIOUS
  <1>3. ASSUME NEW m \in B \cup {n}, NEW x \in Succs(m), x \in NotStarted PROVE x \in B
    <2> SUFFICES ASSUME NEW S \in SUBSET NotStarted, Closed(S) PROVE x \in S BY <1>3
    <2>1. m \in S \cup {n} OBVIOUS
    <2> QED BY <1>3, <2>1
  <1>4. ASSUME NEW m \in B, \A p \in B \cup {n} : m \notin Succs(p) PROVE FALSE
    <2> DEFINE S == B \ {m}
    <2>1. S \in SUBSET NotStarted OBVIOUS
    <2>2. Closed(S) BY <1>3, <1>4
    <2>3. m \in S BY <2>1, <2>2
    <2> QED BY <2>3
  <1> HIDE DEF B
  <1> QED BY <1>1, <1>2, <1>3, <1>4

\* A node fails: what depends on it is BLOCKED.
LEMMA FailureFails == ASSUME IInv, FInv, NEW n \in Nodes, PollFailed(n) PROVE FInv'
  <1> DEFINE B == failDependentNodes(n)
  <1>1. UNCHANGED <<edges, pc>> /\ pc = "poll" /\ task[n] # "none" /\ success' = FALSE
    BY DEF PollFailed, Collect
  <1>2. state[n] = "RUNNING" BY <1>1 DEF IInv, TasksRunning
  <1>3. /\ \A m \in B : m \in Nodes /\ state[m] \in {"CREATED", "READY"}
        /\ \A m \in B \cup {n}, s \in Nodes :
              s \in Succs(m) /\ state[s] \in {"CREATED", "READY"} => s \in B
        /\ \A m \in B : \E p \in B \cup {n} : m \in Succs(p)
    BY DependentNodes DEF NotStarted
  <1>4. \A m \in Nodes : state'[m] = IF m \in B THEN "BLOCKED" ELSE IF m = n THEN "FAILED" ELSE state[m]
    BY DEF PollFailed
  <1> HIDE DEF B
  <1>5. \A m \in Nodes : /\ Preds(m)' = Preds(m) /\ Succs(m)' = Succs(m)
                          /\ Preds(m) \subseteq Nodes /\ Succs(m) \subseteq Nodes
    BY <1>1 DEF Preds, Succs
  <1>6. \A m \in Nodes : state[m] \in {"FAILED", "BLOCKED", "CANCELLED"} => state'[m] = state[m]
    BY <1>2, <1>3, <1>4
  <1>7. n \notin B /\ state'[n] = "FAILED" BY <1>2, <1>3, <1>4
  <1>8. Propagated'
    <2> SUFFICES ASSUME NEW m \in Nodes
                 PROVE  /\ state'[m] = "BLOCKED" => \E p \in Preds(m) : state'[p] \in {"FAILED", "BLOCKED"}
                        /\ state'[m] \in {"FAILED", "BLOCKED"} =>
                              \A s \in Succs(m) : state'[s] \in {"BLOCKED", "CANCELLED"}
      BY <1>5 DEF Propagated
    <2>1. CASE m \in B \cup {n}
      <3>1. m \in B => \E p \in Preds(m) : state'[p] \in {"FAILED", "BLOCKED"}
        BY <1>3, <1>4, <1>7 DEF Preds, Succs
      <3>2. state[m] # "COMPLETED" BY <1>2, <1>3, <2>1
      <3>3. ASSUME NEW s \in Succs(m) PROVE state'[s] \in {"BLOCKED", "CANCELLED"}
        <4>1. s \in Nodes /\ state[s] \in {"CREATED", "BLOCKED", "CANCELLED"} BY <3>2, Waiting
        <4>2. CASE state[s] = "CREATED" BY <1>3, <1>4, <2>1, <4>1, <4>2
        <4>3. CASE state[s] \in {"BLOCKED", "CANCELLED"} BY <1>6, <4>1, <4>3
        <4> QED BY <4>1, <4>2, <4>3
      <3> QED BY <1>7, <2>1, <3>1, <3>3
    <2>2. CASE m \notin B \cup {n}
      <3>1. state'[m] = state[m] BY <1>4, <2>2
      <3>2. state[m] = "BLOCKED" => \E p \in Preds(m) : state'[p] \in {"FAILED", "BLOCKED"}
        BY <1>5, <1>6 DEF FInv, Propagated
      <3>3. state[m] \in {"FAILED", "BLOCKED"} => \A s \in Succs(m) : state'[s] \in {"BLOCKED", "CANCELLED"}
        BY <1>5, <1>6 DEF FInv, Propagated
      <3> QED BY <3>1, <3>2, <3>3
    <2> QED BY <2>1, <2>2
  <1>9. Acyclic' <=> Acyclic BY <1>1 DEF Acyclic, Preds
  <1>10. \A m \in Nodes : state'[m] = "COMPLETED" => state[m] = "COMPLETED" BY <1>4
  <1>11. \A m \in Nodes : state'[m] \in {"CREATED", "READY", "CANCELLED"} => state[m] = state'[m]
    BY <1>4
  <1>12. \A m \in Nodes : Missing(m) # {} => Missing(m)' # {} BY <1>5, <1>10 DEF Missing
  <1>13. Leftovers' BY <1>1, <1>9, <1>11, <1>12 DEF FInv, Leftovers
  <1>14. Returned' BY <1>1 DEF Returned
  <1> QED BY <1>8, <1>13, <1>14 DEF FInv

\* When nothing is READY or RUNNING, the nodes left over would wait for each
\* other: there is none in a graph without a cycle.
LEMMA FailureReturn == ASSUME IInv, FInv, Return PROVE FInv'
  <1>1. /\ UNCHANGED <<edges, state>> /\ pc = "check" /\ pc' = "returned"
        /\ success' <=> success /\ \A n \in Nodes : state[n] \in {"COMPLETED", "CANCELLED"}
    BY DEF Return, nodeVars, IInv, TypeOK
  <1>2. \A n \in Nodes : state[n] \notin {"READY", "RUNNING"} BY DEF Return
  <1>3. Acyclic' <=> Acyclic BY <1>1 DEF Acyclic, Preds
  <1>4. \A n \in Nodes : Preds(n)' = Preds(n) /\ Succs(n)' = Succs(n) /\ Missing(n)' = Missing(n)
    BY <1>1 DEF Preds, Succs, Missing
  <1>5. Propagated' BY <1>1, <1>4 DEF FInv, Propagated
  <1>6. Leftovers' BY <1>1, <1>3, <1>4 DEF FInv, Leftovers
  <1>7. ASSUME Acyclic PROVE \A n \in Nodes : state[n] # "CREATED"
    <2> DEFINE W == {n \in Nodes : state[n] = "CREATED"}
    <2>1. ASSUME NEW n \in W PROVE Preds(n) \cap W # {}
      <3>1. PICK p \in Preds(n) : state[p] # "COMPLETED"
        BY <1>1, <1>7 DEF FInv, Leftovers, Missing
      <3>2. p \in Nodes /\ n \in Succs(p) BY DEF Preds, Succs
      <3>3. state[p] \notin {"FAILED", "BLOCKED"} BY <3>2 DEF FInv, Propagated
      <3>4. state[p] # "CANCELLED" BY <3>2 DEF FInv, Leftovers
      <3>5. state[p] = "CREATED" BY <1>2, <3>1, <3>2, <3>3, <3>4 DEF IInv, TypeOK, GraphNodeState
      <3> QED BY <3>2, <3>5
    <2>2. W \in SUBSET Nodes OBVIOUS
    <2> HIDE DEF W
    <2>3. W = {} BY <1>7, <2>1, <2>2 DEF Acyclic
    <2> QED BY <2>3 DEF W
  <1>8. Returned'
    <2>1. ASSUME success' PROVE \A n \in Nodes : state[n] = "COMPLETED"
      BY <1>1, <2>1 DEF FInv, Leftovers
    <2> QED BY <1>1, <1>2, <1>3, <1>7, <2>1 DEF Returned
  <1> QED BY <1>5, <1>6, <1>8 DEF FInv

\* Every step keeps what is said of failures.
LEMMA NextFInv == IInv /\ FInv /\ [Next]_vars => FInv'
  <1> SUFFICES ASSUME IInv, FInv, [Next]_vars PROVE FInv' OBVIOUS
  <1>1. CASE Refuse \/ Prepare BY <1>1, FailureBegins
  <1>2. CASE CheckCancel BY <1>2, FailureCancelled
  <1>3. CASE \E n \in Nodes : Dispatch(n) BY <1>3, FailureDispatch
  <1>4. CASE \E n \in Nodes : PollCompleted(n) BY <1>4, FailureCompleted
  <1>5. CASE \E n \in Nodes : PollFailed(n) BY <1>5, FailureFails
  <1>6. CASE Return BY <1>6, FailureReturn
  <1>7. CASE \/ StartPolling \/ PollPass \/ Again \/ Unwound \/ UNCHANGED vars \/ Cancel
             \/ \E n \in Nodes : PollPending(n) \/ PollThrew(n) \/ TaskEnds(n)
    <2>1. /\ UNCHANGED <<edges, state, success>> /\ (pc' # "returned" \/ pc = "returned")
          /\ pc' # "validate" => pc # "validate"
      BY <1>7 DEF StartPolling, PollPass, Again, Unwound, vars, Cancel, PollPending, PollThrew,
                  TaskEnds, nodeVars, loopVars
    <2> QED BY <2>1, FailureFrame
  <1> QED BY <1>1, <1>2, <1>3, <1>4, <1>5, <1>6, <1>7 DEF Next, Loop

\* A failure that execute collects blocks exactly what depends on it, and when
\* execute returns no node is left over, and success means that all completed:
\* for every graph, every order of completion and cancellation at any time.
THEOREM FailuresPropagate == Spec => []FailurePropagates
  <1>1. Init => FInv
    <2> SUFFICES ASSUME Init PROVE FInv OBVIOUS
    <2>1. pc = "validate" /\ \A n \in Nodes : state[n] = "CREATED" BY DEF Init
    <2> QED BY <2>1 DEF FInv, Propagated, Leftovers, Returned
  <1>2. FInv => FailurePropagates BY DEF FInv, Propagated, Returned, FailurePropagates
  <1> QED BY <1>1, <1>2, NextFInv, Inductive, PTL DEF Spec
=============================================================================
