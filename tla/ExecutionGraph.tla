--------------------------- MODULE ExecutionGraph ---------------------------
(***************************************************************************)
(* src/execution/ExecutionGraph: the graph is built node by node and edge  *)
(* by edge, and validate looks for a cycle with a depth-first search.      *)
(* Successor and predecessor lists keep the order of insertion; nodes_ is  *)
(* an unordered_map, so detectCycle may visit the nodes in any order.      *)
(* ExecutionGraphScheduler relies on validate refusing exactly the graphs  *)
(* that are not acyclic, which is what is checked here.                    *)
(*                                                                         *)
(* The recursion of dfs is a stack of its frames, and one action is one    *)
(* turn of its loop, one call or one return; nothing else happens to the   *)
(* graph until validate has returned.                                      *)
(***************************************************************************)
EXTENDS Integers, Sequences, FiniteSets

CONSTANT Ids        \* node ids of a client that builds a graph itself

VARIABLES
    nodes,          \* the keys of nodes_
    adj,            \* adj_: the successors of a node
    rev_adj,        \* rev_adj_: the predecessors of a node
    search          \* the call of validate, and what it has answered for this graph

graphVars == <<nodes, adj, rev_adj, search>>

\* pc is "none", "search", "valid" or "cycle"; state is that of detectCycle (0
\* unvisited, 1 visiting, 2 visited); frames are the calls of dfs, each with its
\* node and the position of the next successor.
NoSearch == [pc |-> "none", state |-> <<>>, frames |-> <<>>]

GraphInit == nodes = {} /\ adj = <<>> /\ rev_adj = <<>> /\ search = NoSearch

Elems(s) == {s[i] : i \in DOMAIN s}

Searching == search.pc = "search"

\* A node that was added before is replaced; its edges stay.
addNode(n) ==
    /\ ~Searching /\ search' = NoSearch
    /\ nodes' = nodes \cup {n}
    /\ adj' = [m \in nodes' |-> IF m \in nodes THEN adj[m] ELSE <<>>]
    /\ rev_adj' = [m \in nodes' |-> IF m \in nodes THEN rev_adj[m] ELSE <<>>]

\* Append x unless the list has it.
PushNew(s, x) == IF x \in Elems(s) THEN s ELSE Append(s, x)

\* Both ends must have been added.
addDependency(p, s) ==
    /\ ~Searching /\ search' = NoSearch
    /\ {p, s} \subseteq nodes
    /\ adj' = [adj EXCEPT ![p] = PushNew(@, s)]
    /\ rev_adj' = [rev_adj EXCEPT ![s] = PushNew(@, p)]
    /\ UNCHANGED nodes

-----------------------------------------------------------------------------
(* validate.                                                                *)

\* The search begins with all nodes unvisited.  An empty graph is valid.
validate ==
    /\ ~Searching
    /\ search' = [pc |-> IF nodes = {} THEN "valid" ELSE "search",
                  state |-> [n \in nodes |-> 0], frames |-> <<>>]
    /\ UNCHANGED <<nodes, adj, rev_adj>>

\* dfs is called for n.
Called(frames, n) == Append(frames, [node |-> n, next |-> 1])

\* The loop of detectCycle: any node that is unvisited may be the next.
detectCycle(n) ==
    /\ Searching /\ search.frames = <<>> /\ search.state[n] = 0
    /\ search' = [search EXCEPT !.state[n] = 1, !.frames = Called(<<>>, n)]
    /\ UNCHANGED <<nodes, adj, rev_adj>>

\* No node is left, and no cycle was found.
validateSucceeds ==
    /\ Searching /\ search.frames = <<>> /\ \A n \in nodes : search.state[n] # 0
    /\ search' = [search EXCEPT !.pc = "valid"]
    /\ UNCHANGED <<nodes, adj, rev_adj>>

Top == search.frames[Len(search.frames)]

\* The innermost loop of dfs goes on with its next successor.
Advanced == [search.frames EXCEPT ![Len(search.frames)].next = @ + 1]

\* Mutant: a node that was visited on another path counts as a back edge.
dfsLoopVisited ==
    /\ Searching /\ search.frames # <<>> /\ Top.next <= Len(adj[Top.node])
    /\ LET m == adj[Top.node][Top.next] IN
       search' = CASE search.state[m] # 0 -> [search EXCEPT !.pc = "cycle", !.frames = <<>>]
                   [] search.state[m] = 0 ->
                          [search EXCEPT !.state[m] = 1, !.frames = Called(Advanced, m)]
    /\ UNCHANGED <<nodes, adj, rev_adj>>

\* One successor: a node that is being visited closes a cycle, and all calls
\* return; one that is unvisited is searched first.
dfsLoop ==
    /\ Searching /\ search.frames # <<>> /\ Top.next <= Len(adj[Top.node])
    /\ LET m == adj[Top.node][Top.next] IN
       search' = CASE search.state[m] = 1 -> [search EXCEPT !.pc = "cycle", !.frames = <<>>]
                   [] search.state[m] = 0 ->
                          [search EXCEPT !.state[m] = 1, !.frames = Called(Advanced, m)]
                   [] search.state[m] = 2 -> [search EXCEPT !.frames = Advanced]
    /\ UNCHANGED <<nodes, adj, rev_adj>>

\* dfs has looked at all successors.
dfsReturns ==
    /\ Searching /\ search.frames # <<>> /\ Top.next > Len(adj[Top.node])
    /\ search' = [search EXCEPT !.state[Top.node] = 2,
                                !.frames = SubSeq(@, 1, Len(@) - 1)]
    /\ UNCHANGED <<nodes, adj, rev_adj>>

validateGoesOn ==
    validateSucceeds \/ dfsLoop \/ dfsReturns \/ \E n \in nodes : detectCycle(n)

\* A client that uses the graph directly.
GraphNext ==
    \/ \E n \in Ids : addNode(n)
    \/ \E p, s \in Ids : addDependency(p, s)
    \/ validate \/ validateGoesOn

-----------------------------------------------------------------------------
(* Properties.                                                              *)

\* The nodes that can be reached from n over at least one edge: they are in
\* every set that has the successors of n and of its own members.
ReachableFrom(n) ==
    {m \in nodes : \A S \in SUBSET nodes :
        (\A x \in S \cup {n} : Elems(adj[x]) \subseteq S) => m \in S}

\* However nodes are picked, one of them is a successor of none of the others.
Acyclic ==
    \A S \in SUBSET nodes : S # {} => \E n \in S : \A m \in S : n \notin Elems(adj[m])

\* validate accepts exactly the acyclic graphs, in whatever order the nodes
\* were added, the edges were added and the hash map is iterated (the comment
\* in detectCycle: "it doesn't matter for correctness"); and the in-degree that
\* the scheduler counts on rev_adj is how often it will decrement it along adj.
ValidateIsAcyclic ==
    /\ search.pc = "valid" => Acyclic
    /\ search.pc = "cycle" => ~Acyclic
    /\ \A n \in nodes :
          Len(rev_adj[n]) = Cardinality({e \in nodes \X (1..Cardinality(nodes)) :
                                            e[2] \in DOMAIN adj[e[1]] /\ adj[e[1]][e[2]] = n})

=============================================================================
