----------------------------- MODULE PoseGraph ------------------------------
(***************************************************************************)
(* The pose graph of one mapping process: the scans Karto has accepted and *)
(* the edges between them, the part of it the Ceres solver holds, and the  *)
(* edges that the scans' poses satisfy.                                    *)
(*                                                                         *)
(* Poses are left out.  An edge is `bound' when the poses of its two scans *)
(* were last set so that it holds: by the match that added it, or by a     *)
(* solution it was part of.                                                *)
(***************************************************************************)
EXTENDS Integers, FiniteSets, Sequences

CONSTANTS
  MaxNodes,            \* scans of a graph
  MaxChains            \* loops that one scan closes

ASSUME GraphAssumption == MaxNodes \in Nat \ {0} /\ MaxChains \in Nat

SolverStatus == {"NotRun", "Converged", "Failed"}

NoCorrections == [nodes |-> {}, edges |-> {}]

EmptyGraph ==
  [nodes |-> 0,                  \* scans are 1..nodes
   edges |-> {},
   known |-> {},                 \* nodes_ of the solver
   constraints |-> {},           \* constraints_ of the solver
   corrections |-> NoCorrections,
   report |-> "NotRun",          \* last_report_
   bound |-> {}]

Edge(from, to, kind) == [from |-> from, to |-> to, kind |-> kind]

Ends(edge) == {edge.from, edge.to}

Loops(graph) == {e \in graph.edges : e.kind = "loop"}

-----------------------------------------------------------------------------
\* Of the solver.

\* ComputeReport.  With nothing to solve the corrections stay what they were.
Compute(graph, usable) ==
  LET residuals == {e \in graph.constraints : Ends(e) \subseteq graph.known}
  IN CASE graph.known = {} -> [graph EXCEPT !.report = "NotRun"]
       [] graph.known # {} /\ residuals = {} -> [graph EXCEPT !.report = "Failed"]
       [] residuals # {} /\ ~usable ->
            [graph EXCEPT !.report = "Failed", !.corrections = NoCorrections]
       [] residuals # {} /\ usable ->
            [graph EXCEPT !.report = "Converged",
                          !.corrections = [nodes |-> graph.known, edges |-> residuals]]

\* Mutant: the corrections outlive the graph they solve.
Clear_KeepsCorrections(graph) == [graph EXCEPT !.known = {}, !.constraints = {}]

Clear(graph) ==
  [graph EXCEPT !.known = {}, !.constraints = {}, !.corrections = NoCorrections]

-----------------------------------------------------------------------------
\* Of Karto's mapper.

\* Mutant: the solver is not given the loops.
AddConstraints_SkipsLoops(graph, edges) ==
  [graph EXCEPT !.constraints = @ \union {e \in edges : e.kind # "loop"}]

\* Of the solver, which is told of every new scan and edge.
AddConstraints(graph, edges) == [graph EXCEPT !.constraints = @ \union edges]
AddNode(graph, scan) == [graph EXCEPT !.known = @ \union {scan}]

\* A second edge between two scans is dropped.  The edges given are between different ones.
LinkScans(graph, edges) ==
  LET new == {edge \in edges : \A e \in graph.edges : Ends(e) # Ends(edge)}
  IN AddConstraints([graph EXCEPT !.edges = @ \union new, !.bound = @ \union new], new)

AddVertex(graph) == AddNode([graph EXCEPT !.nodes = @ + 1], graph.nodes + 1)

\* To the scan before, and to the nearest scan of each near chain.
AddEdges(graph, near) ==
  LET n == graph.nodes
      previous == IF n = 1 THEN {} ELSE {Edge(n - 1, n, "sequential")}
  IN LinkScans(LinkScans(graph, previous), {Edge(c, n, "near") : c \in near})

\* SetSensorPose: the scan leaves the pose its edges were bound at.
Posed(graph, scan) == [graph EXCEPT !.bound = {e \in @ : scan \notin Ends(e)}]

\* Every node of the solution is moved to it, and the solver is cleared.
CorrectPoses(graph, usable) ==
  LET solved == Compute(graph, usable)
      moved == solved.corrections.nodes
  IN Clear([solved EXCEPT !.bound = solved.corrections.edges
                                      \union {e \in @ : Ends(e) \intersect moved = {}}])

\* A chain matched well enough: `closest' is its scan nearest to the new one.
CloseLoop(graph, closest, usable) ==
  LET n == graph.nodes
  IN CorrectPoses(LinkScans(Posed(graph, n), {Edge(closest, n, "loop")}), usable)

\* TryCloseLoop, chain after chain.
CloseLoops(graph, closing, usable) ==
  LET after[k \in 0..Len(closing)] ==
        IF k = 0 THEN graph ELSE CloseLoop(after[k - 1], closing[k], usable)
  IN after[Len(closing)]

\* Process of an accepted scan; `closing' lists the chains that match.
Process(graph, near, closing, usable) ==
  CloseLoops(AddEdges(AddVertex(graph), near), closing, usable)

\* No more than so many of these scans, in their order.
InOrder(scans) ==
  {c \in UNION {[1..k -> scans] : k \in 0..MaxChains} : \A i, j \in DOMAIN c : i < j => c[i] < c[j]}

\* What the geometry may give: near chains end at, and loops close on, scans before
\* the last; loops are looked for in the order of the scans, and on no near chain.
Surroundings(graph) ==
  LET before == 1..graph.nodes - 1
      nears == {near \in SUBSET before : Cardinality(near) <= 1}
  IN UNION {{near} \X InOrder(before \ near) : near \in nears}

\* Restore of an archive of so many scans: the mapper links them again, without closing
\* loops, and puts each back at its saved pose.  The archived constraints are not read.
Restored(nodes, nears) ==
  LET after[k \in 0..nodes] ==
        IF k = 0 THEN EmptyGraph ELSE Process(after[k - 1], nears[k], <<>>, FALSE)
  IN after[nodes]

-----------------------------------------------------------------------------
\* The first loop that a process closes holds for as long as it is the only one.
HoldsFirstLoop(graph) ==
  \A e \in Loops(graph) : Loops(graph) = {e} => e \in graph.bound

\* When the solver gives no solution, the last scan stays where its last loop put it.
KeepsPoseUnsolved(graph) ==
  LET closed == {e \in Loops(graph) : e.to = graph.nodes}
  IN graph.report # "Converged" /\ closed # {} => closed \intersect graph.bound # {}
=============================================================================
