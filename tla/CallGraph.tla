------------------------------ MODULE CallGraph -----------------------------
(***************************************************************************)
(* The call graph of the archived upstream plugin (callgraph in            *)
(* api_analysis.py), walked depth first from an address within limits.     *)
(* A program is given by the references of its functions: for each of its  *)
(* instructions, the functions that the instruction refers to.  A jump     *)
(* inside a function is a reference to the function itself.                *)
(***************************************************************************)
EXTENDS Naturals, Sequences, FiniteSets

CONSTANTS
    Subs,       \* starts of functions
    Inside,     \* an address inside the function Main that is not its start
    Main,       \* the function from which clients start
    NoSub,      \* what a reference to no function refers to
    Programs,   \* functions to the instructions with their references
    Bounds      \* max_depth, max_nodes, max_edges, max_edges_per_func

VARIABLES
    program,    \* the program
    bounds,     \* the limits of the call
    root,       \* the address from which the walk starts
    nodes,      \* the depth of the addresses in the graph
    edges,      \* the edges so far
    walk,       \* the calls of traverse that have not returned, the innermost last
    truncated, per_func_capped

vars == <<program, bounds, root, nodes, edges, walk, truncated, per_func_capped>>

CallGraphAssumption ==
    /\ IsFiniteSet(Subs) /\ Main \in Subs /\ Inside \notin Subs /\ NoSub \notin Subs \cup {Inside}
    /\ \A p \in Programs : p \in [Subs -> Seq(Seq(Subs \cup {NoSub}))]
    /\ \A b \in Bounds : b.depth \in Nat /\ {b.nodes, b.edges, b.per} \subseteq Nat \ {0}

SubOf(a) == IF a = Inside THEN Main ELSE a

-----------------------------------------------------------------------------
(* The beginning of traverse.                                              *)
Frame(a, depth) == [at |-> a, depth |-> depth, insn |-> 1, ref |-> 1, added |-> 0]
Visit(a, depth, caller) ==
    IF depth > bounds.depth \/ a \in DOMAIN nodes
      THEN walk' = caller /\ UNCHANGED <<nodes, truncated>>
    ELSE IF Cardinality(DOMAIN nodes) >= bounds.nodes
      THEN truncated' = TRUE /\ walk' = <<>> /\ UNCHANGED nodes
    ELSE /\ nodes' = [b \in DOMAIN nodes \cup {a} |-> IF b = a THEN depth ELSE nodes[b]]
         /\ walk' = Append(caller, Frame(a, depth))
         /\ UNCHANGED truncated

Top == walk[Len(walk)]
Return == SubSeq(walk, 1, Len(walk) - 1)
Going == walk # <<>> /\ UNCHANGED <<program, bounds, root>>
Insns == program[SubOf(Top.at)]
Ended == Top.insn > Len(Insns)
AtReference == ~Ended /\ Top.ref <= Len(Insns[Top.insn])
Reference == Insns[Top.insn][Top.ref]
Past == [Top EXCEPT !.ref = @ + 1]
Full == Top.added >= bounds.per

(* The references of an instruction are done, or the instructions.  Only   *)
(* with a reference left in the instruction it is known that the limit of  *)
(* the function was met.                                                   *)
NextInstruction ==
    /\ Going /\ ~AtReference
    /\ walk' = IF Ended \/ Full THEN Return
               ELSE Append(Return, [Top EXCEPT !.insn = @ + 1, !.ref = 1])
    /\ UNCHANGED <<nodes, edges, truncated, per_func_capped>>
CapFunction ==
    /\ Going /\ AtReference /\ Full
    /\ per_func_capped' = TRUE /\ walk' = Return
    /\ UNCHANGED <<nodes, edges, truncated>>
PassReference ==
    /\ Going /\ AtReference /\ ~Full /\ Reference = NoSub
    /\ walk' = Append(Return, Past)
    /\ UNCHANGED <<nodes, edges, truncated, per_func_capped>>
CutEdges ==
    /\ Going /\ AtReference /\ ~Full /\ Reference # NoSub
    /\ Len(edges) >= bounds.edges
    /\ truncated' = TRUE /\ walk' = <<>>
    /\ UNCHANGED <<nodes, edges, per_func_capped>>
FollowReference ==
    /\ Going /\ AtReference /\ ~Full /\ Reference # NoSub
    /\ Len(edges) < bounds.edges
    /\ edges' = Append(edges, <<Top.at, Reference>>)
    /\ Visit(Reference, Top.depth + 1, Append(Return, [Past EXCEPT !.added = @ + 1]))
    /\ UNCHANGED per_func_capped

-----------------------------------------------------------------------------
Init ==
    /\ program \in Programs /\ bounds \in Bounds /\ root \in {Main, Inside}
    /\ nodes = [a \in {root} |-> 0] /\ edges = <<>>
    /\ walk = <<Frame(root, 0)>>
    /\ truncated = FALSE /\ per_func_capped = FALSE

Next == NextInstruction \/ CapFunction \/ PassReference \/ CutEdges \/ FollowReference

Spec == Init /\ [][Next]_vars

-----------------------------------------------------------------------------
(* A function that the program comes to from the root in up to n calls.    *)
Refers(f, g) == \E i \in DOMAIN program[f] : \E j \in DOMAIN program[f][i] : program[f][i][j] = g
Reached(f, n) ==
    \E path \in [0..n -> Subs] :
       /\ path[0] = SubOf(root) /\ path[n] = f
       /\ \A k \in 1..n : path[k] = path[k - 1] \/ Refers(path[k - 1], path[k])

(* The references of a function to functions, by their places: instruction *)
(* and reference of it; and the edges from a node, by theirs.              *)
InsnCalls(f, i) == {<<i, j>> : j \in {k \in DOMAIN program[f][i] : program[f][i][k] # NoSub}}
CallsOf(f) == UNION {InsnCalls(f, i) : i \in DOMAIN program[f]}
CallsBefore(f, i, j) == {c \in CallsOf(f) : c[1] < i \/ (c[1] = i /\ c[2] < j)}
EdgesBefore(a, k) == {l \in 1..(k - 1) : edges[l][1] = a}
EdgesOf(a) == EdgesBefore(a, Len(edges) + 1)

(* The edge k, from a, is the reference at c: as many are before it.       *)
IsEdge(a, k, c) ==
    /\ program[SubOf(a)][c[1]][c[2]] = edges[k][2]
    /\ Cardinality(CallsBefore(SubOf(a), c[1], c[2])) = Cardinality(EdgesBefore(a, k))

(* The graph says nothing that is not so: its nodes are functions that the *)
(* program comes to in as many calls as they are deep, the edges of a node *)
(* are the references of its function in their order, as far as they go,   *)
(* and no limit is passed.                                                 *)
GraphIsTrue ==
    /\ \A a \in DOMAIN nodes : nodes[a] <= bounds.depth /\ Reached(SubOf(a), nodes[a])
    /\ \A k \in DOMAIN edges : \E a \in DOMAIN nodes :
          edges[k][1] = a /\ \E c \in CallsOf(SubOf(a)) : IsEdge(a, k, c)
    /\ \A a \in DOMAIN nodes : Cardinality(EdgesOf(a)) <= bounds.per
    /\ Cardinality(DOMAIN nodes) <= bounds.nodes /\ Len(edges) <= bounds.edges

(* A graph that was not truncated, that stayed above the largest depth,    *)
(* and in which no function has as many edges as it may have, is all of    *)
(* the program that can be reached.  The flag per_func_capped would not do *)
(* for the last condition: most functions that are cut do not set it.      *)
GraphIsComplete ==
    /\ walk = <<>> /\ ~truncated
    /\ \A a \in DOMAIN nodes : nodes[a] < bounds.depth /\ Cardinality(EdgesOf(a)) < bounds.per
    => /\ {SubOf(a) : a \in DOMAIN nodes} = {f \in Subs : Reached(f, Cardinality(Subs))}
       /\ \A a \in DOMAIN nodes : Cardinality(EdgesOf(a)) = Cardinality(CallsOf(SubOf(a)))

GraphsAreTrue == GraphIsTrue /\ GraphIsComplete
=============================================================================
