---------------------- MODULE ExecutionGraphScheduler ----------------------
(***************************************************************************)
(* src/execution/ExecutionGraphScheduler::execute.  The caller's thread    *)
(* runs the loop: look at the cancel flag, dispatch the READY nodes in the *)
(* order of their ids, poll the running tasks until one has finished, and  *)
(* go round while something is READY or RUNNING.  Every dispatched node    *)
(* runs in a thread of its own and another thread may cancel at any time.  *)
(*                                                                         *)
(* The graph is any graph that ExecutionGraph can build; validate is the   *)
(* acyclicity that module ExecutionGraph shows detectCycle to decide.      *)
(* Telemetry, messages and times are left out.                             *)
(***************************************************************************)
EXTENDS Integers, FiniteSets

CONSTANTS
    Nodes,          \* node ids
    Resources,      \* ExecutionResource
    Shared,         \* resources that take any number of nodes: CPU and NONE
    resource        \* IExecutionNode::getResource

ASSUME GraphAssumption ==
    /\ Nodes \subseteq Nat /\ IsFiniteSet(Nodes)
    /\ Shared \subseteq Resources
    /\ resource \in [Nodes -> Resources]

VARIABLES
    edges,          \* the graph: pairs <<predecessor, successor>>
    cancel,         \* *cancel_flag_ of the context
    state,          \* tracker[id].state
    in_degree,      \* tracker[id].in_degree
    active,         \* active_resources
    task,           \* the thread of a node
    pc,             \* where the loop is
    todo,           \* ids the present for-loop has still to visit
    finished,       \* task_finished
    success         \* overall_success

nodeVars  == <<state, in_degree, active>>
loopVars  == <<pc, todo, finished, success>>
vars == <<edges, cancel, task, nodeVars, loopVars>>

GraphNodeState ==
    {"CREATED", "READY", "RUNNING", "COMPLETED", "FAILED", "CANCELLED", "BLOCKED"}

Preds(n) == {p \in Nodes : <<p, n>> \in edges}
Succs(n) == {s \in Nodes : <<n, s>> \in edges}

TypeOK ==
    /\ edges \subseteq Nodes \X Nodes
    /\ cancel \in BOOLEAN
    /\ state \in [Nodes -> GraphNodeState]
    /\ in_degree \in [Nodes -> Nat]
    /\ active \in [Resources -> Nat]
    /\ task \in [Nodes -> {"none", "running", "ok", "failed", "threw"}]
    /\ pc \in {"validate", "top", "dispatch", "poll", "check", "returned", "unwinding", "thrown"}
    /\ todo \subseteq Nodes
    /\ finished \in BOOLEAN
    /\ success \in BOOLEAN

\* However nodes are picked, one of them waits for none of the others.
Acyclic == \A S \in SUBSET Nodes : S # {} => \E n \in S : Preds(n) \cap S = {}

Init ==
    /\ edges \in SUBSET (Nodes \X Nodes)
    /\ cancel \in BOOLEAN
    /\ state = [n \in Nodes |-> "CREATED"]
    /\ in_degree = [n \in Nodes |-> 0]
    /\ active = [r \in Resources |-> 0]
    /\ task = [n \in Nodes |-> "none"]
    /\ pc = "validate"
    /\ todo = {}
    /\ finished = FALSE
    /\ success = FALSE

-----------------------------------------------------------------------------
\* A graph with a cycle is refused.
Refuse ==
    /\ pc = "validate" /\ ~Acyclic
    /\ pc' = "returned" /\ success' = FALSE
    /\ UNCHANGED <<edges, cancel, task, nodeVars, todo, finished>>

\* The trackers are set up: a node without predecessors is READY.
Prepare ==
    /\ pc = "validate" /\ Acyclic
    /\ in_degree' = [n \in Nodes |-> Cardinality(Preds(n))]
    /\ state' = [n \in Nodes |-> IF in_degree'[n] = 0 THEN "READY" ELSE "CREATED"]
    /\ success' = TRUE
    /\ pc' = "top"
    /\ UNCHANGED <<edges, cancel, task, active, todo, finished>>

\* Mutant: READY nodes survive a cancellation.
CheckCancelReady ==
    /\ pc = "top"
    /\ IF cancel
       THEN /\ success' = FALSE
            /\ state' = [n \in Nodes |-> IF state[n] = "CREATED" THEN "CANCELLED" ELSE state[n]]
       ELSE UNCHANGED <<success, state>>
    /\ pc' = "dispatch" /\ todo' = Nodes
    /\ UNCHANGED <<edges, cancel, task, in_degree, active, finished>>

\* Top of the loop: a cancellation ends what has not started.
CheckCancel ==
    /\ pc = "top"
    /\ IF cancel
       THEN /\ success' = FALSE
            /\ state' = [n \in Nodes |->
                            IF state[n] \in {"READY", "CREATED"} THEN "CANCELLED" ELSE state[n]]
       ELSE UNCHANGED <<success, state>>
    /\ pc' = "dispatch" /\ todo' = Nodes
    /\ UNCHANGED <<edges, cancel, task, in_degree, active, finished>>

\* The for-loops visit ids in ascending order.
Visits(n) == n \in todo /\ \A m \in todo : n <= m

\* Mutant: a resource is looked at, and never found busy.
checkResourceAvailableAlways(r) == r \in Resources

\* Any number of nodes may use the CPU; every other resource is exclusive.
checkResourceAvailable(r) == r \in Shared \/ active[r] = 0

\* The next READY node is dispatched, unless its resource is busy or a
\* cancellation came meanwhile.
Dispatch(n) ==
    LET r == resource[n] IN
    /\ pc = "dispatch" /\ Visits(n)
    /\ IF state[n] = "READY" /\ ~cancel /\ checkResourceAvailable(r)
       THEN /\ state' = [state EXCEPT ![n] = "RUNNING"]
            /\ active' = [active EXCEPT ![r] = @ + 1]
            /\ task' = [task EXCEPT ![n] = "running"]
       ELSE UNCHANGED <<state, active, task>>
    /\ todo' = todo \ {n}
    /\ UNCHANGED <<edges, cancel, in_degree, pc, finished, success>>

\* active_tasks: the nodes whose future has not been collected.
ActiveTasks == {n \in Nodes : task[n] # "none"}

StartPolling ==
    /\ pc = "dispatch" /\ todo = {}
    /\ pc' = IF ActiveTasks = {} THEN "check" ELSE "poll"
    /\ todo' = ActiveTasks
    /\ finished' = FALSE
    /\ UNCHANGED <<edges, cancel, task, nodeVars, success>>

\* Not ready within the wait.
PollPending(n) ==
    /\ pc = "poll" /\ Visits(n)
    /\ task[n] = "running"
    /\ todo' = todo \ {n}
    /\ UNCHANGED <<edges, cancel, task, nodeVars, pc, finished, success>>

\* The part of a collected future that does not depend on its result.
Collect(n) ==
    /\ pc = "poll" /\ Visits(n)
    /\ task' = [task EXCEPT ![n] = "none"]
    /\ active' = [active EXCEPT ![resource[n]] = @ - 1]
    /\ finished' = TRUE
    /\ todo' = todo \ {n}
    /\ UNCHANGED <<edges, cancel, pc>>

\* Mutant: one completed predecessor is enough.
PollCompletedAny(n) ==
    /\ task[n] = "ok" /\ Collect(n)
    /\ in_degree' = [m \in Nodes |-> IF m \in Succs(n) THEN 0 ELSE in_degree[m]]
    /\ state' = [m \in Nodes |->
                    IF m = n THEN "COMPLETED"
                    ELSE IF m \in Succs(n) /\ in_degree'[m] = 0 /\ state[m] = "CREATED" THEN "READY"
                    ELSE state[m]]
    /\ UNCHANGED success

\* Success: the in-degree of the successors goes down; at 0 they are READY.
PollCompleted(n) ==
    /\ task[n] = "ok" /\ Collect(n)
    /\ in_degree' = [m \in Nodes |-> IF m \in Succs(n) THEN in_degree[m] - 1 ELSE in_degree[m]]
    /\ state' = [m \in Nodes |->
                    IF m = n THEN "COMPLETED"
                    ELSE IF m \in Succs(n) /\ in_degree'[m] = 0 /\ state[m] = "CREATED" THEN "READY"
                    ELSE state[m]]
    /\ UNCHANGED success

NotStarted == {m \in Nodes : state[m] \in {"CREATED", "READY"}}

\* Mutant: only the direct successors are blocked.
failDependentNodesDirect(n) == Succs(n) \cap NotStarted

\* The search goes on from the nodes it blocks, so that it finds the least
\* set that it cannot leave.
failDependentNodes(n) ==
    LET Closed(S) == \A m \in S \cup {n} : Succs(m) \cap NotStarted \subseteq S
    IN  {m \in NotStarted : \A S \in SUBSET NotStarted : Closed(S) => m \in S}

\* Failure: everything that depends on the node is BLOCKED.
PollFailed(n) ==
    /\ task[n] = "failed" /\ Collect(n)
    /\ state' = [m \in Nodes |->
                    IF m \in failDependentNodes(n) THEN "BLOCKED"
                    ELSE IF m = n THEN "FAILED" ELSE state[m]]
    /\ success' = FALSE
    /\ UNCHANGED in_degree

\* future.get rethrows what the node threw: execute is left, but the futures
\* of the tasks that still run are waited for as active_tasks is destroyed.
PollThrew(n) ==
    /\ pc = "poll" /\ Visits(n) /\ task[n] = "threw"
    /\ task' = [task EXCEPT ![n] = "none"]
    /\ pc' = "unwinding" /\ todo' = {}
    /\ UNCHANGED <<edges, cancel, nodeVars, finished, success>>

\* Mutant: the futures are dropped without waiting, as a thread's would be.
UnwoundDetached ==
    /\ pc = "unwinding"
    /\ pc' = "thrown"
    /\ UNCHANGED <<edges, cancel, task, nodeVars, todo, finished, success>>

Unwound ==
    /\ pc = "unwinding" /\ \A n \in Nodes : task[n] # "running"
    /\ pc' = "thrown"
    /\ task' = [n \in Nodes |-> "none"]
    /\ UNCHANGED <<edges, cancel, nodeVars, todo, finished, success>>

\* The pass over active_tasks is repeated until one has finished.
PollPass ==
    /\ pc = "poll" /\ todo = {}
    /\ IF finished THEN pc' = "check" /\ UNCHANGED todo
       ELSE todo' = ActiveTasks /\ UNCHANGED pc
    /\ UNCHANGED <<edges, cancel, task, nodeVars, finished, success>>

\* Round again after a poll, and while something is READY or RUNNING.
Again ==
    /\ pc = "check"
    /\ finished \/ \E n \in Nodes : state[n] \in {"READY", "RUNNING"}
    /\ pc' = "top"
    /\ UNCHANGED <<edges, cancel, task, nodeVars, todo, finished, success>>

\* Nothing is left: the result is computed.
Return ==
    /\ pc = "check"
    /\ ~finished /\ \A n \in Nodes : state[n] \notin {"READY", "RUNNING"}
    /\ pc' = "returned"
    /\ success' = (success /\ \A n \in Nodes : state[n] \in {"COMPLETED", "CANCELLED"})
    /\ UNCHANGED <<edges, cancel, task, nodeVars, todo, finished>>

Loop ==
    \/ Refuse \/ Prepare \/ CheckCancel \/ StartPolling \/ PollPass
    \/ Again \/ Return \/ Unwound
    \/ \E n \in Nodes : Dispatch(n) \/ PollPending(n) \/ PollCompleted(n)
                        \/ PollFailed(n) \/ PollThrew(n)

\* IExecutionNode::execute ends, in one of three ways.
TaskEnds(n) ==
    /\ task[n] = "running"
    /\ \E outcome \in {"ok", "failed", "threw"} :
          task' = [task EXCEPT ![n] = outcome]
    /\ UNCHANGED <<edges, cancel, nodeVars, loopVars>>

\* Another thread sets the flag of the context.
Cancel ==
    /\ ~cancel /\ pc \notin {"returned", "thrown"}
    /\ cancel' = TRUE
    /\ UNCHANGED <<edges, task, nodeVars, loopVars>>

Next == Loop \/ Cancel \/ \E n \in Nodes : TaskEnds(n)

\* The caller's thread and the threads of the nodes run; nobody must cancel.
Fairness == WF_vars(Loop) /\ \A n \in Nodes : WF_vars(TaskEnds(n))

Spec == Init /\ [][Next]_vars /\ Fairness

-----------------------------------------------------------------------------
(* Properties.                                                              *)

Started == {"RUNNING", "COMPLETED", "FAILED"}

\* ExecutionGraph.h: a predecessor "must finish before" its successor starts.
\* It has moreover succeeded.
PredecessorsFirst ==
    \A n \in Nodes : state[n] \in Started => \A p \in Preds(n) : state[p] = "COMPLETED"

\* An exclusive resource is in use by at most one node, whose thread may
\* still be at work: active_resources never lets a second one in.
ExclusiveResources ==
    \A n, m \in Nodes :
        n # m /\ resource[n] = resource[m] /\ resource[n] \notin Shared
            => ~(task[n] # "none" /\ task[m] # "none")

\* ExecutionGraphScheduler.h: "Execute the graph to completion or failure".  A
\* failure blocks exactly what depends on it: a BLOCKED node has a predecessor
\* that failed or is BLOCKED, and no successor of such a node is left to run.
\* When execute returns from a valid graph no node is left over, and success
\* means that every node has completed.
FailurePropagates ==
    /\ \A n \in Nodes :
          /\ state[n] = "BLOCKED" => \E p \in Preds(n) : state[p] \in {"FAILED", "BLOCKED"}
          /\ state[n] \in {"FAILED", "BLOCKED"} =>
                \A s \in Succs(n) : state[s] \in {"BLOCKED", "CANCELLED"}
    /\ pc = "returned" /\ Acyclic =>
          /\ \A n \in Nodes : state[n] \notin {"CREATED", "READY", "RUNNING"}
          /\ success => \A n \in Nodes : state[n] = "COMPLETED"

\* No thread of a node outlives execute, which owns the context and the
\* graph only by reference: also when it is left by an exception.
NoTaskOutlives == pc \in {"returned", "thrown"} => ActiveTasks = {}

\* execute returns or throws: the loop cannot spin on a node that is READY
\* and never dispatched.
Terminates == <>(pc \in {"returned", "thrown"})
=============================================================================
