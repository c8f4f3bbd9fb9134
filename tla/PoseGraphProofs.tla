-------------------------- MODULE PoseGraphProofs ---------------------------
(***************************************************************************)
(* The pose graph of a mapping process, for any number of scans, of chains *)
(* and of loops: what every accepted scan keeps of it.                     *)
(***************************************************************************)
EXTENDS GraphArchive, LocalizationBuffer, SequenceTheorems, FiniteSetTheorems,
        WellFoundedInduction, TLAPS

LEMMA Least ==
  ASSUME NEW S \in SUBSET Nat, S # {}
  PROVE  \E m \in S : \A n \in S : m <= n
<1>1. PICK m \in S : \A n \in S : <<n, m>> \notin OpToRel(<, Nat)
  BY NatLessThanWellFounded, WFMin, Zenon
<1>2. \A n \in S : ~(n < m)
  BY <1>1, Zenon DEF OpToRel
<1>3. QED
  BY <1>2

Kinds == {"sequential", "near", "loop"}

Fields == {"nodes", "edges", "known", "constraints", "corrections", "report", "bound"}

\* Edges between scans that are there, from the earlier to the later one.
Links(n) == {e \in [from : 1..n, to : 1..n, kind : Kinds] : e.from < e.to}

\* A graph whose solver has no correction left over.
IsGraph(g) == Fields \subseteq DOMAIN g /\ g.corrections = NoCorrections

-----------------------------------------------------------------------------
\* What the operations of the mapper and the solver do to each field.

Fresh(g, links) == {edge \in links : \A e \in g.edges : Ends(e) # Ends(edge)}

\* Everything but the solver's report and corrections of the scans.
SameSolver(g, h) == h.known = g.known /\ h.report = g.report /\ h.nodes = g.nodes

LEMMA LinkLaw ==
  ASSUME NEW g, IsGraph(g), NEW links
  PROVE  /\ IsGraph(LinkScans(g, links)) /\ SameSolver(g, LinkScans(g, links))
         /\ LinkScans(g, links).edges = g.edges \union Fresh(g, links)
         /\ LinkScans(g, links).bound = g.bound \union Fresh(g, links)
         /\ LinkScans(g, links).constraints = g.constraints \union Fresh(g, links)
BY DEF IsGraph, Fields, LinkScans, AddConstraints, Fresh, SameSolver

LEMMA VertexLaw ==
  ASSUME NEW g, IsGraph(g)
  PROVE  /\ IsGraph(AddVertex(g)) /\ AddVertex(g).nodes = g.nodes + 1
         /\ AddVertex(g).known = g.known \union {g.nodes + 1}
         /\ AddVertex(g).edges = g.edges /\ AddVertex(g).bound = g.bound
         /\ AddVertex(g).constraints = g.constraints /\ AddVertex(g).report = g.report
BY DEF IsGraph, Fields, AddVertex, AddNode

LEMMA PosedLaw ==
  ASSUME NEW g, IsGraph(g), NEW scan
  PROVE  /\ IsGraph(Posed(g, scan)) /\ SameSolver(g, Posed(g, scan))
         /\ Posed(g, scan).edges = g.edges /\ Posed(g, scan).constraints = g.constraints
         /\ Posed(g, scan).bound = {e \in g.bound : scan \notin Ends(e)}
BY DEF IsGraph, Fields, Posed, SameSolver

\* The edges that the solver can solve.
Residuals(g) == {e \in g.constraints : Ends(e) \subseteq g.known}

LEMMA NothingCorrected == NoCorrections.edges = {} /\ NoCorrections.nodes = {}
BY DEF NoCorrections

\* With a usable solution the edges it is of hold, and without one nothing moves.
Corrected(g, h, usable) ==
  /\ IsGraph(h) /\ h.nodes = g.nodes /\ h.edges = g.edges
  /\ h.known = {} /\ h.constraints = {}
  /\ IF Residuals(g) # {} /\ usable
     THEN /\ h.report = "Converged"
          /\ h.bound = Residuals(g) \union {e \in g.bound : Ends(e) \intersect g.known = {}}
     ELSE h.report \in {"NotRun", "Failed"} /\ h.bound = g.bound

LEMMA CorrectLaw ==
  ASSUME NEW g, IsGraph(g), NEW usable \in BOOLEAN
  PROVE  Corrected(g, CorrectPoses(g, usable), usable)
<1> DEFINE r == Residuals(g)
           c == Compute(g, usable)
           h == CorrectPoses(g, usable)
<1>7. ASSUME Fields \subseteq DOMAIN c
      PROVE  /\ IsGraph(h) /\ h.nodes = c.nodes /\ h.edges = c.edges /\ h.report = c.report
             /\ h.known = {} /\ h.constraints = {}
             /\ h.bound = c.corrections.edges
                            \union {e \in c.bound : Ends(e) \intersect c.corrections.nodes = {}}
  BY <1>7 DEF IsGraph, Fields, CorrectPoses, Clear
<1>1. g.known = {} => r = {}
  BY DEF Residuals, Ends
<1>2. CASE g.known = {}
  <2>1. c = [g EXCEPT !.report = "NotRun"]
    BY <1>1, <1>2, Zenon DEF Compute, Residuals
  <2>2. /\ Fields \subseteq DOMAIN c /\ c.nodes = g.nodes /\ c.edges = g.edges
        /\ c.report = "NotRun" /\ c.bound = g.bound /\ c.corrections = NoCorrections
    BY <2>1 DEF IsGraph, Fields
  <2> HIDE DEF c
  <2>3. c.corrections.edges = {} /\ c.corrections.nodes = {}
    BY <2>2, NothingCorrected, Zenon
  <2>4. /\ IsGraph(h) /\ h.nodes = c.nodes /\ h.edges = c.edges /\ h.report = c.report
        /\ h.known = {} /\ h.constraints = {}
        /\ h.bound = {} \union {e \in c.bound : Ends(e) \intersect {} = {}}
    BY <1>7, <2>2, <2>3
  <2>5. h.bound = g.bound
    BY <2>2, <2>4
  <2>6. QED
    BY <1>1, <1>2, <2>2, <2>4, <2>5 DEF Corrected
<1>3. CASE g.known # {} /\ r = {}
  <2>1. c = [g EXCEPT !.report = "Failed"]
    BY <1>3 DEF Compute, Residuals
  <2>2. /\ Fields \subseteq DOMAIN c /\ c.nodes = g.nodes /\ c.edges = g.edges
        /\ c.report = "Failed" /\ c.bound = g.bound /\ c.corrections = NoCorrections
    BY <2>1 DEF IsGraph, Fields
  <2> HIDE DEF c
  <2>3. c.corrections.edges = {} /\ c.corrections.nodes = {}
    BY <2>2, NothingCorrected, Zenon
  <2>4. /\ IsGraph(h) /\ h.nodes = c.nodes /\ h.edges = c.edges /\ h.report = c.report
        /\ h.known = {} /\ h.constraints = {}
        /\ h.bound = {} \union {e \in c.bound : Ends(e) \intersect {} = {}}
    BY <1>7, <2>2, <2>3
  <2>5. h.bound = g.bound
    BY <2>2, <2>4
  <2>6. QED
    BY <1>3, <2>2, <2>4, <2>5 DEF Corrected
<1>4. CASE g.known # {} /\ r # {} /\ ~usable
  <2>1. c = [g EXCEPT !.report = "Failed", !.corrections = NoCorrections]
    BY <1>4 DEF Compute, Residuals
  <2>2. /\ Fields \subseteq DOMAIN c /\ c.nodes = g.nodes /\ c.edges = g.edges
        /\ c.report = "Failed" /\ c.bound = g.bound /\ c.corrections = NoCorrections
    BY <2>1 DEF IsGraph, Fields
  <2> HIDE DEF c
  <2>3. c.corrections.edges = {} /\ c.corrections.nodes = {}
    BY <2>2, NothingCorrected, Zenon
  <2>4. /\ IsGraph(h) /\ h.nodes = c.nodes /\ h.edges = c.edges /\ h.report = c.report
        /\ h.known = {} /\ h.constraints = {}
        /\ h.bound = {} \union {e \in c.bound : Ends(e) \intersect {} = {}}
    BY <1>7, <2>2, <2>3
  <2>5. h.bound = g.bound
    BY <2>2, <2>4
  <2>6. QED
    BY <1>4, <2>2, <2>4, <2>5 DEF Corrected
<1>5. CASE g.known # {} /\ r # {} /\ usable
  <2>1. c = [g EXCEPT !.report = "Converged", !.corrections = [nodes |-> g.known, edges |-> r]]
    BY <1>5 DEF Compute, Residuals
  <2>2. /\ Fields \subseteq DOMAIN c /\ c.nodes = g.nodes /\ c.edges = g.edges
        /\ c.report = "Converged" /\ c.bound = g.bound
        /\ c.corrections = [nodes |-> g.known, edges |-> r]
    BY <2>1 DEF IsGraph, Fields
  <2> HIDE DEF c
  <2>3. /\ IsGraph(h) /\ h.nodes = c.nodes /\ h.edges = c.edges /\ h.report = c.report
        /\ h.known = {} /\ h.constraints = {}
        /\ h.bound = r \union {e \in c.bound : Ends(e) \intersect g.known = {}}
    BY <1>7, <2>2
  <2>4. QED
    BY <1>5, <2>2, <2>3 DEF Corrected
<1>6. r # {} => g.known # {}
  BY <1>1
<1>8. QED
  BY <1>2, <1>3, <1>4, <1>5, <1>6

-----------------------------------------------------------------------------
\* A scan is added.

\* The edges to a new scan from these.
LinksTo(n, scans) == {Edge(c, n, kind) : c \in scans, kind \in {"sequential", "near"}}

\* The scans that a new scan may be linked with.
Neighbours(g, near) == near \union {c \in 1..g.nodes : c = g.nodes}

LEMMA AddedLaw ==
  ASSUME NEW g, IsGraph(g), g.nodes \in Nat, NEW near \in SUBSET (1..g.nodes)
  PROVE  LET n == g.nodes + 1
             h == AddEdges(AddVertex(g), near)
         IN \E links \in SUBSET LinksTo(n, Neighbours(g, near)) :
              /\ IsGraph(h) /\ h.nodes = n /\ h.known = g.known \union {n} /\ h.report = g.report
              /\ h.edges = g.edges \union links /\ h.bound = g.bound \union links
              /\ h.constraints = g.constraints \union links
<1> DEFINE n == g.nodes + 1
           v == AddVertex(g)
           previous == IF n = 1 THEN {} ELSE {Edge(n - 1, n, "sequential")}
           a == LinkScans(v, previous)
           nears == {Edge(c, n, "near") : c \in near}
           h == LinkScans(a, nears)
           links == Fresh(v, previous) \union Fresh(a, nears)
<1>1. /\ IsGraph(v) /\ v.nodes = n /\ v.known = g.known \union {n} /\ v.report = g.report
      /\ v.edges = g.edges /\ v.bound = g.bound /\ v.constraints = g.constraints
  BY VertexLaw
<1>2. AddEdges(v, near) = h
  BY <1>1, Zenon DEF AddEdges
<1>3. previous \subseteq LinksTo(n, Neighbours(g, near))
  <2>1. n # 1 => n - 1 \in 1..g.nodes /\ n - 1 = g.nodes
    OBVIOUS
  <2>2. n # 1 => n - 1 \in Neighbours(g, near)
    BY <2>1 DEF Neighbours
  <2>3. QED
    BY <2>2 DEF LinksTo
<1>4. nears \subseteq LinksTo(n, Neighbours(g, near))
  BY DEF LinksTo, Neighbours
<1> HIDE DEF v, n, previous, nears
<1>5. /\ IsGraph(a) /\ SameSolver(v, a)
      /\ a.edges = v.edges \union Fresh(v, previous)
      /\ a.bound = v.bound \union Fresh(v, previous)
      /\ a.constraints = v.constraints \union Fresh(v, previous)
  BY <1>1, LinkLaw
<1> HIDE DEF a
<1>6. /\ IsGraph(h) /\ SameSolver(a, h)
      /\ h.edges = a.edges \union Fresh(a, nears)
      /\ h.bound = a.bound \union Fresh(a, nears)
      /\ h.constraints = a.constraints \union Fresh(a, nears)
  BY <1>5, LinkLaw
<1> HIDE DEF h
<1>7. links \in SUBSET LinksTo(n, Neighbours(g, near))
  BY <1>3, <1>4 DEF Fresh
<1>8. /\ IsGraph(h) /\ h.nodes = n /\ h.known = g.known \union {n} /\ h.report = g.report
      /\ h.edges = g.edges \union links /\ h.bound = g.bound \union links
      /\ h.constraints = g.constraints \union links
  BY <1>1, <1>5, <1>6 DEF SameSolver
<1>9. QED
  BY <1>2, <1>7, <1>8 DEF n, v

-----------------------------------------------------------------------------
\* What every graph of a mapping process is.  Until a loop is closed the solver knows all of
\* it: that is why the first loop holds.

GraphInv(g) ==
  /\ IsGraph(g) /\ g.nodes \in Nat /\ g.report \in SolverStatus
  /\ g.edges \subseteq Links(g.nodes)
  /\ g.known \subseteq 1..g.nodes /\ g.constraints \subseteq g.edges /\ g.bound \subseteq g.edges
  /\ Loops(g) = {} => g.known = 1..g.nodes /\ g.constraints = g.edges
  /\ HoldsFirstLoop(g) /\ KeepsPoseUnsolved(g)

LEMMA EmptyIsGraph == GraphInv(EmptyGraph)
<1>1. IsGraph(EmptyGraph)
  BY DEF IsGraph, Fields, EmptyGraph
<1>2. /\ EmptyGraph.nodes = 0 /\ EmptyGraph.edges = {} /\ EmptyGraph.known = {}
      /\ EmptyGraph.constraints = {} /\ EmptyGraph.bound = {} /\ EmptyGraph.report = "NotRun"
  BY DEF EmptyGraph
<1>3. Loops(EmptyGraph) = {}
  <2>1. \A e : e \notin EmptyGraph.edges
    BY <1>2
  <2>2. QED
    BY <2>1, Zenon DEF Loops
<1>4. HoldsFirstLoop(EmptyGraph) /\ KeepsPoseUnsolved(EmptyGraph)
  BY <1>3 DEF HoldsFirstLoop, KeepsPoseUnsolved
<1>5. EmptyGraph.nodes \in Nat /\ 1..EmptyGraph.nodes = {}
  <2>1. 0 \in Nat /\ 1..0 = {}
    OBVIOUS
  <2>2. QED
    BY <1>2, <2>1, Zenon
<1>6. /\ EmptyGraph.edges \subseteq Links(EmptyGraph.nodes)
      /\ EmptyGraph.known \subseteq {} /\ EmptyGraph.constraints \subseteq {} /\ EmptyGraph.bound \subseteq {}
      /\ EmptyGraph.known = {} /\ EmptyGraph.constraints = EmptyGraph.edges
      /\ EmptyGraph.report \in SolverStatus
  BY <1>2 DEF SolverStatus
<1>7. QED
  BY <1>1, <1>2, <1>4, <1>5, <1>6, Zenon DEF GraphInv

LEMMA AddedKeeps ==
  ASSUME NEW g, GraphInv(g), NEW near \in SUBSET (1..g.nodes)
  PROVE  LET n == g.nodes + 1
             h == AddEdges(AddVertex(g), near)
         IN /\ GraphInv(h) /\ h.nodes = n
            /\ \A c \in 1..n : c \notin Neighbours(g, near)
                 => \A e \in h.edges : Ends(e) # {c, n}
<1> DEFINE n == g.nodes + 1
           h == AddEdges(AddVertex(g), near)
<1>1. /\ g.nodes \in Nat /\ n \in Nat /\ IsGraph(g) /\ g.edges \subseteq Links(g.nodes)
      /\ g.known \subseteq 1..g.nodes
  <2>1. /\ g.nodes \in Nat /\ IsGraph(g) /\ g.edges \subseteq Links(g.nodes)
        /\ g.known \subseteq 1..g.nodes
    BY Zenon DEF GraphInv
  <2>2. QED
    BY <2>1
<1>2. PICK links \in SUBSET LinksTo(n, Neighbours(g, near)) :
        /\ IsGraph(h) /\ h.nodes = n /\ h.known = g.known \union {n} /\ h.report = g.report
        /\ h.edges = g.edges \union links /\ h.bound = g.bound \union links
        /\ h.constraints = g.constraints \union links
  BY <1>1, AddedLaw
<1> HIDE DEF h
<1>3. ASSUME NEW e \in links
      PROVE  /\ e \in Links(n) /\ e.kind # "loop" /\ e.to = n
             /\ e.from \in Neighbours(g, near) /\ e.from # n
  <2>1. PICK c \in Neighbours(g, near), kind \in {"sequential", "near"} : e = Edge(c, n, kind)
    BY <1>2, <1>3 DEF LinksTo
  <2>2. c \in 1..g.nodes
    BY DEF Neighbours
  <2>3. c \in 1..n /\ n \in 1..n /\ c < n
    BY <1>1, <2>2
  <2>4. QED
    BY <2>1, <2>3 DEF Edge, Links, Kinds
<1>4. \A e \in g.edges : e \in Links(n) /\ e.from \in 1..g.nodes /\ e.to \in 1..g.nodes
  BY <1>1 DEF Links
<1>5. Loops(h) = Loops(g)
  BY <1>2, <1>3 DEF Loops
<1>6. h.edges \subseteq Links(n)
  BY <1>2, <1>3, <1>4
<1>7. \A e \in Loops(h) : e.to # n
  BY <1>1, <1>4, <1>5 DEF Loops
<1>8. h.known \subseteq 1..n /\ 1..n = 1..g.nodes \union {n}
  BY <1>1, <1>2
<1>9. HoldsFirstLoop(h) /\ KeepsPoseUnsolved(h)
  <2>1. HoldsFirstLoop(h)
    BY <1>2, <1>5 DEF GraphInv, HoldsFirstLoop
  <2>2. KeepsPoseUnsolved(h)
    BY <1>2, <1>7 DEF KeepsPoseUnsolved
  <2>3. QED
    BY <2>1, <2>2
<1>10. GraphInv(h)
  <2>1. h.constraints \subseteq h.edges /\ h.bound \subseteq h.edges
    BY <1>2 DEF GraphInv
  <2>2. Loops(h) = {} => h.known = 1..h.nodes /\ h.constraints = h.edges
    BY <1>2, <1>5, <1>8 DEF GraphInv
  <2>3. h.report \in SolverStatus
    BY <1>2 DEF GraphInv, SolverStatus
  <2>4. QED
    BY <1>1, <1>2, <1>6, <1>8, <1>9, <2>1, <2>2, <2>3 DEF GraphInv
<1>11. ASSUME NEW c \in 1..n, c \notin Neighbours(g, near), NEW e \in h.edges
       PROVE  Ends(e) # {c, n}
  <2>1. CASE e \in links
    BY <1>3, <1>11, <2>1 DEF Ends
  <2>2. CASE e \in g.edges
    <3>1. e.from # n /\ e.to # n
      BY <1>1, <1>4, <2>2
    <3>2. QED
      BY <3>1 DEF Ends
  <2>3. QED
    BY <1>2, <2>1, <2>2
<1>12. QED
  BY <1>2, <1>10, <1>11 DEF h

-----------------------------------------------------------------------------
\* A loop is closed.

LEMMA ClosedKeeps ==
  ASSUME NEW g, GraphInv(g), NEW closest \in 1..g.nodes - 1, NEW usable \in BOOLEAN,
         \A e \in g.edges : Ends(e) # {closest, g.nodes}
  PROVE  /\ GraphInv(CloseLoop(g, closest, usable))
         /\ CloseLoop(g, closest, usable).nodes = g.nodes
         /\ CloseLoop(g, closest, usable).edges
              = g.edges \union {Edge(closest, g.nodes, "loop")}
<1> DEFINE n == g.nodes
           edge == Edge(closest, n, "loop")
           p == Posed(g, n)
           l == LinkScans(p, {edge})
           h == CorrectPoses(l, usable)
<1>1. /\ n \in Nat /\ IsGraph(g) /\ g.edges \subseteq Links(n) /\ g.report \in SolverStatus
      /\ g.known \subseteq 1..n /\ g.constraints \subseteq g.edges /\ g.bound \subseteq g.edges
      /\ Loops(g) = {} => g.known = 1..n /\ g.constraints = g.edges
  BY Zenon DEF GraphInv
<1>2. edge \in Links(n) /\ edge.to = n /\ edge.kind = "loop" /\ Ends(edge) = {closest, n}
      /\ Ends(edge) \subseteq 1..n
  <2>1. closest \in 1..n /\ n \in 1..n /\ closest < n
    <3>1. n \in Nat
      BY <1>1
    <3>2. QED
      BY <3>1
  <2>2. edge.from = closest /\ edge.to = n /\ edge.kind = "loop"
    BY DEF Edge
  <2>3. edge \in Links(n)
    BY <2>1 DEF Edge, Links, Kinds
  <2>4. QED
    BY <2>1, <2>2, <2>3 DEF Ends
<1>3. CloseLoop(g, closest, usable) = h
  BY Zenon DEF CloseLoop
<1> HIDE DEF edge, n
<1>4. /\ IsGraph(p) /\ SameSolver(g, p) /\ p.edges = g.edges /\ p.constraints = g.constraints
      /\ p.bound = {e \in g.bound : n \notin Ends(e)}
  BY <1>1, PosedLaw
<1> HIDE DEF p
<1>5. Fresh(p, {edge}) = {edge}
  BY <1>2, <1>4 DEF Fresh, n
<1>6. /\ IsGraph(l) /\ SameSolver(p, l) /\ l.edges = g.edges \union {edge}
      /\ l.constraints = g.constraints \union {edge} /\ l.bound = p.bound \union {edge}
  <2>1. /\ IsGraph(l) /\ SameSolver(p, l) /\ l.edges = p.edges \union Fresh(p, {edge})
        /\ l.bound = p.bound \union Fresh(p, {edge})
        /\ l.constraints = p.constraints \union Fresh(p, {edge})
    BY <1>4, LinkLaw
  <2>2. QED
    BY <1>4, <1>5, <2>1, Zenon
<1> HIDE DEF l
<1>7. Corrected(l, h, usable)
  BY <1>6, CorrectLaw
<1> HIDE DEF h
<1>8. l.nodes = n /\ l.known = g.known
  BY <1>4, <1>6 DEF SameSolver, n
<1>9. /\ IsGraph(h) /\ h.nodes = n /\ h.edges = g.edges \union {edge}
      /\ h.known = {} /\ h.constraints = {}
      /\ IF Residuals(l) # {} /\ usable
         THEN /\ h.report = "Converged"
              /\ h.bound = Residuals(l) \union {e \in l.bound : Ends(e) \intersect g.known = {}}
         ELSE h.report \in {"NotRun", "Failed"} /\ h.bound = l.bound
  BY <1>6, <1>7, <1>8, Zenon DEF Corrected
<1>10. l.bound \subseteq h.edges /\ edge \in l.bound /\ Residuals(l) \subseteq h.edges
  BY <1>1, <1>4, <1>6, <1>9 DEF Residuals
<1>11. Loops(h) = Loops(g) \union {edge}
  BY <1>2, <1>9 DEF Loops
<1>12. HoldsFirstLoop(h)
  <2>1. SUFFICES ASSUME Loops(g) \subseteq {edge} PROVE edge \in h.bound
    BY <1>11, Zenon DEF HoldsFirstLoop
  <2>2. edge \notin g.edges
    BY <1>2 DEF n
  <2>3. Loops(g) = {}
    BY <2>1, <2>2 DEF Loops
  <2>4. edge \in Residuals(l)
    BY <1>1, <1>2, <1>6, <1>8, <2>3 DEF Residuals
  <2>5. QED
    BY <1>9, <1>10, <2>4
<1>13. KeepsPoseUnsolved(h)
  <2>1. SUFFICES ASSUME h.report # "Converged" PROVE edge \in h.bound
    BY <1>2, <1>9, <1>11 DEF KeepsPoseUnsolved
  <2>2. QED
    BY <1>9, <1>10, <2>1
<1>14. GraphInv(h)
  <2>1. h.edges \subseteq Links(h.nodes)
    BY <1>1, <1>2, <1>9
  <2>2. h.known \subseteq 1..h.nodes /\ h.constraints \subseteq h.edges
    BY <1>9
  <2>3. h.bound \subseteq h.edges
    BY <1>9, <1>10
  <2>4. h.report \in SolverStatus
    BY <1>9 DEF SolverStatus
  <2>5. Loops(h) # {}
    BY <1>11
  <2>6. QED
    BY <1>1, <1>9, <1>12, <1>13, <2>1, <2>2, <2>3, <2>4, <2>5, Zenon DEF GraphInv
<1>15. QED
  BY <1>3, <1>9, <1>14 DEF n, edge

\* Chain after chain: the graphs between.
ClosesLoops(after, g, closing, usable) ==
  /\ after[0] = g /\ CloseLoops(g, closing, usable) = after[Len(closing)]
  /\ \A k \in 1..Len(closing) : after[k] = CloseLoop(after[k - 1], closing[k], usable)

LEMMA LoopsLaw ==
  ASSUME NEW g, NEW closing, Len(closing) \in Nat, NEW usable
  PROVE  \E after : ClosesLoops(after, g, closing, usable)
<1> DEFINE count == Len(closing)
           next(f, k) == IF k = 0 THEN g ELSE CloseLoop(f[k - 1], closing[k], usable)
           Is(f, n) == f = [k \in 0..n |-> next(f, k)]
           none == {n \in Nat : ~\E f : Is(f, n)}
<1>1. none = {}
  <2>1. SUFFICES ASSUME none # {} PROVE FALSE
    OBVIOUS
  <2>2. PICK n \in none : \A m \in none : n <= m
    BY <2>1, Least
  <2>3. CASE n = 0
    <3>1. Is([k \in 0..0 |-> g], 0)
      OBVIOUS
    <3>2. QED
      BY <2>2, <2>3, <3>1
  <2>4. CASE n # 0
    <3>1. n - 1 \in Nat /\ n - 1 \notin none
      <4>1. n \in Nat /\ n - 1 < n
        BY <2>2
      <4> HIDE DEF none
      <4>2. QED
        BY <2>2, <2>4, <4>1
    <3>2. PICK f : Is(f, n - 1)
      BY <3>1
    <3> DEFINE b == [k \in 0..n |-> IF k = n THEN CloseLoop(f[n - 1], closing[n], usable) ELSE f[k]]
    <3>3. ASSUME NEW k \in 0..n PROVE b[k] = next(b, k)
      <4>1. CASE k = n
        BY <2>4, <3>1, <4>1
      <4>2. CASE k # n
        <5>1. k \in 0..n - 1 /\ f[k] = next(f, k)
          BY <2>2, <3>2, <4>2
        <5>2. k # 0 => b[k - 1] = f[k - 1]
          BY <2>2, <4>2
        <5>3. QED
          BY <4>2, <5>1, <5>2
      <4>3. QED
        BY <4>1, <4>2
    <3>4. b = [k \in 0..n |-> b[k]]
      OBVIOUS
    <3> HIDE DEF b
    <3>5. [k \in 0..n |-> b[k]] = [k \in 0..n |-> next(b, k)]
      BY <3>3
    <3>6. Is(b, n)
      BY <3>4, <3>5
    <3>7. QED
      BY <2>2, <3>6
  <2>5. QED
    BY <2>3, <2>4
<1> DEFINE after == CHOOSE f : Is(f, count)
<1>2. Is(after, count)
  BY <1>1
<1>3. CloseLoops(g, closing, usable) = after[count]
  BY DEF CloseLoops
<1> HIDE DEF after
<1>4. /\ after[0] = g
      /\ \A k \in 1..count : after[k] = CloseLoop(after[k - 1], closing[k], usable)
  BY <1>2
<1>5. QED
  BY <1>3, <1>4 DEF ClosesLoops

-----------------------------------------------------------------------------
\* A scan is accepted, and all of them are restored.

\* Chains that are on no near chain, nor twice among them.
Closable(g, near, closing) ==
  /\ Len(closing) \in Nat
  /\ \A k \in 1..Len(closing) : closing[k] \in 1..g.nodes /\ closing[k] \notin Neighbours(g, near)
  /\ \A j, k \in 1..Len(closing) : closing[j] = closing[k] => j = k

LEMMA ProcessKeeps ==
  ASSUME NEW g, GraphInv(g), NEW near \in SUBSET (1..g.nodes), NEW closing,
         Closable(g, near, closing), NEW usable \in BOOLEAN
  PROVE  /\ GraphInv(Process(g, near, closing, usable))
         /\ Process(g, near, closing, usable).nodes = g.nodes + 1
<1> DEFINE n == g.nodes + 1
           h == AddEdges(AddVertex(g), near)
           count == Len(closing)
<1>1. /\ GraphInv(h) /\ h.nodes = n
      /\ \A c \in 1..n : c \notin Neighbours(g, near) => \A e \in h.edges : Ends(e) # {c, n}
  BY AddedKeeps
<1> HIDE DEF h
<1>2. count \in Nat /\ g.nodes \in Nat
  BY Zenon DEF Closable, GraphInv
<1> PICK after : ClosesLoops(after, h, closing, usable)
  <2>1. Len(closing) \in Nat
    BY <1>2
  <2>2. QED
    BY <2>1, LoopsLaw, Zenon
<1>3. /\ after[0] = h /\ CloseLoops(h, closing, usable) = after[count]
      /\ \A k \in 1..count : after[k] = CloseLoop(after[k - 1], closing[k], usable)
  BY Zenon DEF ClosesLoops
<1> DEFINE Kept(k) == /\ GraphInv(after[k]) /\ after[k].nodes = n
                      /\ \A j \in 1..count : j > k => \A e \in after[k].edges : Ends(e) # {closing[j], n}
           broken == {k \in Nat : k <= count /\ ~Kept(k)}
<1>4. \A k \in 1..count : closing[k] \in 1..g.nodes /\ closing[k] \in 1..n /\ closing[k] # n
                          /\ closing[k] \in 1..n - 1
  BY <1>2 DEF Closable
<1>5. Kept(0)
  <2>1. ASSUME NEW j \in 1..count, NEW e \in h.edges PROVE Ends(e) # {closing[j], n}
    BY <1>1, <1>4 DEF Closable
  <2>2. QED
    BY <1>1, <1>3, <2>1
<1>6. ASSUME NEW k \in 1..count, Kept(k - 1) PROVE Kept(k)
  <2> DEFINE a == after[k - 1]
             c == closing[k]
  <2>1. /\ GraphInv(a) /\ a.nodes = n
        /\ \A j \in 1..count : j > k - 1 => \A e \in a.edges : Ends(e) # {closing[j], n}
    BY <1>6
  <2>2. c \in 1..a.nodes - 1 /\ \A e \in a.edges : Ends(e) # {c, a.nodes}
    <3>1. k > k - 1
      BY <1>2
    <3>2. QED
      BY <1>4, <2>1, <3>1
  <2>3. after[k] = CloseLoop(a, c, usable)
    BY <1>3
  <2> HIDE DEF a
  <2>4. GraphInv(after[k]) /\ after[k].nodes = n /\ after[k].edges = a.edges \union {Edge(c, n, "loop")}
    <3>1. GraphInv(a) /\ a.nodes = n
      BY <2>1
    <3> HIDE DEF c, n
    <3>2. /\ GraphInv(CloseLoop(a, c, usable)) /\ CloseLoop(a, c, usable).nodes = a.nodes
          /\ CloseLoop(a, c, usable).edges = a.edges \union {Edge(c, a.nodes, "loop")}
      BY <2>2, <3>1, ClosedKeeps
    <3>3. QED
      BY <2>3, <3>1, <3>2, Zenon
  <2>5. ASSUME NEW j \in 1..count, j > k, NEW e \in after[k].edges PROVE Ends(e) # {closing[j], n}
    <3>1. CASE e \in a.edges
      <4>1. j > k - 1
        BY <1>2, <2>5
      <4>2. QED
        BY <2>1, <3>1, <4>1
    <3>2. CASE e = Edge(c, n, "loop")
      <4>1. Ends(e) = {c, n}
        BY <3>2 DEF Edge, Ends
      <4>2. c # closing[j]
        <5>1. j # k
          BY <1>2, <2>5
        <5>2. QED
          BY <5>1 DEF Closable
      <4>3. c # n /\ closing[j] # n
        BY <1>4
      <4> HIDE DEF c, n
      <4>4. QED
        BY <4>1, <4>2, <4>3
    <3>3. QED
      BY <2>4, <2>5, <3>1, <3>2
  <2>6. QED
    BY <2>4, <2>5
<1>7. broken = {}
  <2>1. SUFFICES ASSUME broken # {} PROVE FALSE
    OBVIOUS
  <2> HIDE DEF Kept
  <2>2. PICK k \in broken : \A m \in broken : k <= m
    BY <2>1, Least
  <2>3. k \in Nat /\ k <= count /\ ~Kept(k)
    OBVIOUS
  <2>4. k # 0
    BY <1>5, <2>3
  <2>5. k \in 1..count /\ k - 1 \in Nat /\ k - 1 <= count /\ ~(k <= k - 1)
    BY <1>2, <2>3, <2>4
  <2>6. Kept(k - 1)
    BY <2>2, <2>5
  <2>7. QED
    BY <1>6, <2>3, <2>5, <2>6
<1>8. Kept(count)
  <2> HIDE DEF Kept
  <2>1. QED
    BY <1>2, <1>7
<1>9. Process(g, near, closing, usable) = after[count]
  BY <1>3, Zenon DEF Process, h
<1>10. QED
  BY <1>8, <1>9

LEMMA SurroundingsLaw ==
  ASSUME NEW g, g.nodes \in Nat, NEW around \in Surroundings(g)
  PROVE  around[1] \in SUBSET (1..g.nodes) /\ Closable(g, around[1], around[2])
<1> DEFINE before == 1..g.nodes - 1
           closing == around[2]
<1>1. PICK near \in SUBSET before : around \in {near} \X InOrder(before \ near)
  BY DEF Surroundings
<1>2. around[1] = near /\ closing \in InOrder(before \ near)
  BY <1>1
<1> HIDE DEF closing
<1>3. PICK k \in 0..MaxChains : closing \in [1..k -> before \ near]
  BY <1>2 DEF InOrder
<1>4. \A i, j \in DOMAIN closing : i < j => closing[i] < closing[j]
  BY <1>2 DEF InOrder
<1>5. k \in Nat
  BY GraphAssumption
<1>6. Len(closing) = k /\ DOMAIN closing = 1..k
  <2>1. DOMAIN closing = 1..k
    BY <1>3
  <2>2. closing \in Seq(before \ near)
    BY <1>3, <1>5, IsASeq
  <2>3. QED
    BY <1>5, <2>1, <2>2, LenProperties
<1>7. \A i \in 1..k : closing[i] \in before \ near
  BY <1>3
<1>8. before \subseteq 1..g.nodes /\ \A c \in before : c \in Nat /\ c # g.nodes
  OBVIOUS
<1> HIDE DEF before
<1>9. ASSUME NEW i \in 1..k, NEW j \in 1..k, closing[i] = closing[j] PROVE i = j
  <2>1. closing[i] \in Nat /\ closing[j] \in Nat
    BY <1>7, <1>8
  <2>2. ~(closing[i] < closing[j]) /\ ~(closing[j] < closing[i])
    BY <1>9, <2>1
  <2>3. ~(i < j) /\ ~(j < i)
    BY <1>4, <1>6, <2>2
  <2>4. QED
    BY <1>5, <2>3
<1>10. \A i \in 1..k : closing[i] \in 1..g.nodes /\ closing[i] \notin Neighbours(g, near)
  BY <1>7, <1>8 DEF Neighbours
<1>11. Closable(g, near, closing)
  BY <1>5, <1>6, <1>9, <1>10 DEF Closable
<1>12. QED
  BY <1>2, <1>8, <1>11 DEF closing

\* The graphs between, as the scans are put back.
Restoring(after, count, nears) ==
  /\ after[0] = EmptyGraph /\ Restored(count, nears) = after[count]
  /\ \A k \in 1..count : after[k] = Process(after[k - 1], nears[k], <<>>, FALSE)

LEMMA RestoreLaw ==
  ASSUME NEW count \in Nat, NEW nears
  PROVE  \E after : Restoring(after, count, nears)
<1> DEFINE next(f, k) == IF k = 0 THEN EmptyGraph ELSE Process(f[k - 1], nears[k], <<>>, FALSE)
           Is(f, n) == f = [k \in 0..n |-> next(f, k)]
           none == {n \in Nat : ~\E f : Is(f, n)}
<1>1. none = {}
  <2>1. SUFFICES ASSUME none # {} PROVE FALSE
    OBVIOUS
  <2>2. PICK n \in none : \A m \in none : n <= m
    BY <2>1, Least
  <2>3. CASE n = 0
    <3>1. Is([k \in 0..0 |-> EmptyGraph], 0)
      OBVIOUS
    <3>2. QED
      BY <2>2, <2>3, <3>1
  <2>4. CASE n # 0
    <3>1. n - 1 \in Nat /\ n - 1 \notin none
      <4>1. n \in Nat /\ n - 1 < n
        BY <2>2
      <4> HIDE DEF none
      <4>2. QED
        BY <2>2, <2>4, <4>1
    <3>2. PICK f : Is(f, n - 1)
      BY <3>1
    <3> DEFINE b == [k \in 0..n |-> IF k = n THEN Process(f[n - 1], nears[n], <<>>, FALSE) ELSE f[k]]
    <3>3. ASSUME NEW k \in 0..n PROVE b[k] = next(b, k)
      <4>1. CASE k = n
        <5>1. n - 1 \in 0..n /\ n - 1 # n
          BY <2>2, <2>4
        <5>2. b[n - 1] = f[n - 1] /\ b[n] = Process(f[n - 1], nears[n], <<>>, FALSE)
          BY <4>1, <5>1, Zenon
        <5>3. QED
          BY <2>4, <4>1, <5>2, Zenon
      <4>2. CASE k # n
        <5>1. k \in 0..n - 1 /\ f[k] = next(f, k)
          BY <2>2, <3>2, <4>2
        <5>2. k # 0 => k - 1 \in 0..n /\ k - 1 # n
          BY <5>1
        <5>3. k # 0 => b[k - 1] = f[k - 1]
          BY <5>2, Zenon
        <5>4. QED
          BY <4>2, <5>1, <5>3
      <4>3. QED
        BY <4>1, <4>2
    <3>4. b = [k \in 0..n |-> b[k]]
      OBVIOUS
    <3> HIDE DEF b
    <3>5. [k \in 0..n |-> b[k]] = [k \in 0..n |-> next(b, k)]
      BY <3>3
    <3>6. Is(b, n)
      BY <3>4, <3>5
    <3>7. QED
      BY <2>2, <3>6
  <2>5. QED
    BY <2>3, <2>4
<1> DEFINE after == CHOOSE f : Is(f, count)
<1>2. Is(after, count)
  BY <1>1
<1>3. Restored(count, nears) = after[count]
  BY DEF Restored
<1> HIDE DEF after
<1>4. /\ after[0] = EmptyGraph
      /\ \A k \in 1..count : after[k] = Process(after[k - 1], nears[k], <<>>, FALSE)
  BY <1>2
<1>5. QED
  BY <1>3, <1>4 DEF Restoring

LEMMA RestoredKeeps ==
  ASSUME NEW count \in Nat, NEW nears, \A k \in 1..count : nears[k] \subseteq 1..k - 1
  PROVE  GraphInv(Restored(count, nears)) /\ Restored(count, nears).nodes = count
<1>1. PICK after : Restoring(after, count, nears)
  BY RestoreLaw
<1> DEFINE Kept(k) == GraphInv(after[k]) /\ after[k].nodes = k
           broken == {k \in Nat : k <= count /\ ~Kept(k)}
<1>2. Kept(0)
  <2>1. EmptyGraph.nodes = 0
    BY DEF EmptyGraph
  <2>2. QED
    BY <1>1, <2>1, EmptyIsGraph DEF Restoring
<1>3. ASSUME NEW k \in 1..count, Kept(k - 1) PROVE Kept(k)
  <2> DEFINE g == after[k - 1]
  <2>1. GraphInv(g) /\ g.nodes = k - 1
    BY <1>3
  <2>2. after[k] = Process(g, nears[k], <<>>, FALSE)
    BY <1>1 DEF Restoring
  <2> HIDE DEF g
  <2>3. nears[k] \in SUBSET (1..g.nodes)
    BY <2>1
  <2>4. Closable(g, nears[k], <<>>)
    BY DEF Closable
  <2>5. GraphInv(after[k]) /\ after[k].nodes = g.nodes + 1
    BY <2>1, <2>2, <2>3, <2>4, ProcessKeeps
  <2>6. (k - 1) + 1 = k
    OBVIOUS
  <2>7. QED
    BY <2>1, <2>5, <2>6
<1>4. broken = {}
  <2>1. SUFFICES ASSUME broken # {} PROVE FALSE
    OBVIOUS
  <2> HIDE DEF Kept
  <2>2. PICK k \in broken : \A m \in broken : k <= m
    BY <2>1, Least
  <2>3. k \in Nat /\ k <= count /\ ~Kept(k)
    OBVIOUS
  <2>4. k # 0
    BY <1>2, <2>3
  <2>5. k \in 1..count /\ k - 1 \in Nat /\ k - 1 <= count /\ ~(k <= k - 1)
    BY <2>3, <2>4
  <2>6. Kept(k - 1)
    BY <2>2, <2>5
  <2>7. QED
    BY <1>3, <2>3, <2>5, <2>6
<1>5. Kept(count)
  <2> HIDE DEF Kept
  <2>1. QED
    BY <1>4
<1>6. QED
  BY <1>1, <1>5 DEF Restoring

-----------------------------------------------------------------------------
\* The archive.

LEMMA LinksAreFinite ==
  ASSUME NEW n \in Nat
  PROVE  IsFiniteSet(Links(n))
<1> DEFINE pairs == (1..n) \X (1..n)
           triples == pairs \X Kinds
           all == [from : 1..n, to : 1..n, kind : Kinds]
           f == [t \in triples |-> Edge(t[1][1], t[1][2], t[2])]
<1>1. IsFiniteSet(1..n)
  BY FS_Interval
<1>2. IsFiniteSet(Kinds)
  <2>1. Kinds = {"sequential"} \union {"near"} \union {"loop"}
    BY DEF Kinds
  <2>2. IsFiniteSet({"sequential"}) /\ IsFiniteSet({"near"}) /\ IsFiniteSet({"loop"})
    BY FS_Singleton
  <2>3. IsFiniteSet({"sequential"} \union {"near"})
    BY <2>2, FS_Union
  <2>4. QED
    BY <2>1, <2>2, <2>3, FS_Union
<1>3. IsFiniteSet(pairs)
  BY <1>1, FS_Product
<1>4. IsFiniteSet(triples)
  BY <1>2, <1>3, FS_Product
<1>5. f \in [triples -> all]
  BY DEF Edge
<1>6. ASSUME NEW e \in all PROVE \E t \in triples : f[t] = e
  <2>1. <<<<e.from, e.to>>, e.kind>> \in triples
    OBVIOUS
  <2>2. f[<<<<e.from, e.to>>, e.kind>>] = Edge(e.from, e.to, e.kind)
    BY <2>1
  <2>3. Edge(e.from, e.to, e.kind) = e
    BY DEF Edge
  <2>4. QED
    BY <2>1, <2>2, <2>3
<1> HIDE DEF f, triples, all
<1>7. f \in Surjection(triples, all)
  BY <1>5, <1>6 DEF Surjection
<1>8. IsFiniteSet(all)
  BY <1>4, <1>7, FS_Surjection
<1>9. Links(n) \subseteq all
  BY DEF Links, all
<1>10. QED
  BY <1>8, <1>9, FS_Subset

Row(e) ==
  [source |-> e.from, target |-> e.to, category |-> Category(e.kind), loop |-> e.kind = "loop"]

LEMMA CategoryLaw ==
  /\ Category("sequential") = "sequential" /\ Category("near") = "near_chain"
  /\ Category("loop") = "loop_closure"
  /\ \A k, l \in Kinds : Category(k) = Category(l) => k = l
  /\ \A k \in Kinds : k = "loop" <=> Category(k) = "loop_closure"
<1>1. /\ Category("sequential") = "sequential" /\ Category("near") = "near_chain"
      /\ Category("loop") = "loop_closure"
  BY DEF Category
<1>2. QED
  BY <1>1 DEF Kinds

\* As many rows of a category as edges of the kind.
LEMMA RowsCount ==
  ASSUME NEW n \in Nat, NEW edges \in SUBSET Links(n), NEW kind \in Kinds
  PROVE  Cardinality({c \in {Row(e) : e \in edges} : c.category = Category(kind)})
           = Cardinality({e \in edges : e.kind = kind})
<1> DEFINE some == {e \in edges : e.kind = kind}
           rows == {c \in {Row(e) : e \in edges} : c.category = Category(kind)}
           f == [e \in some |-> Row(e)]
<1>1. IsFiniteSet(some)
  <2>1. IsFiniteSet(edges)
    BY LinksAreFinite, FS_Subset
  <2>2. QED
    BY <2>1, FS_Subset
<1>2. \A e \in edges : e \in [from : 1..n, to : 1..n, kind : Kinds] /\ Row(e).category = Category(e.kind)
                       /\ Row(e).source = e.from /\ Row(e).target = e.to
  BY DEF Links, Row
<1>3. f \in [some -> rows]
  BY <1>2
<1>4. ASSUME NEW d \in some, NEW e \in some, f[d] = f[e] PROVE d = e
  <2>1. Row(d) = Row(e)
    BY <1>4
  <2>2. d.from = e.from /\ d.to = e.to /\ d.kind = e.kind
    BY <1>2, <2>1
  <2>3. QED
    BY <1>2, <2>2
<1>5. ASSUME NEW c \in rows PROVE \E e \in some : f[e] = c
  <2>1. PICK e \in edges : c = Row(e)
    OBVIOUS
  <2>2. Category(e.kind) = Category(kind) /\ e.kind \in Kinds
    BY <1>2, <2>1
  <2>3. e \in some
    BY <2>2, CategoryLaw
  <2>4. QED
    BY <2>1, <2>3
<1> HIDE DEF f, some, rows
<1>6. f \in Bijection(some, rows)
  BY <1>3, <1>4, <1>5 DEF Bijection, Injection, Surjection, IsInjective
<1>7. ExistsBijection(some, rows)
  BY <1>6 DEF ExistsBijection
<1>8. QED
  BY <1>1, <1>7, FS_Bijection DEF some, rows

LEMMA StatusLaw ==
  ASSUME NEW status \in SolverStatus
  PROVE  /\ ReadStatus(StatusName(status)) = status
         /\ StatusName(status) = IF status = "Converged" THEN "converged"
                                 ELSE IF status = "Failed" THEN "failed" ELSE "not_run"
<1>1. /\ StatusName("NotRun") = "not_run" /\ StatusName("Converged") = "converged"
      /\ StatusName("Failed") = "failed"
  BY DEF StatusName
<1>2. \A s \in SolverStatus : StatusName(s) = StatusName(status) => s = status
  BY <1>1 DEF SolverStatus
<1>3. ReadStatus(StatusName(status)) = status
  BY <1>2 DEF ReadStatus
<1>4. QED
  BY <1>1, <1>3 DEF SolverStatus

\* A row of the archive is what its category says.
LEMMA RowsRead ==
  ASSUME NEW n, NEW edges \in SUBSET Links(n), NEW c \in {Row(e) : e \in edges}
  PROVE  [c EXCEPT !.category = c.category, !.loop = c.category = "loop_closure"] = c
<1>1. PICK e \in edges : c = Row(e)
  OBVIOUS
<1>2. e.kind \in Kinds
  BY DEF Links
<1>3. c = [source |-> e.from, target |-> e.to, category |-> Category(e.kind), loop |-> e.kind = "loop"]
  BY <1>1 DEF Row
<1>4. c.category = Category(e.kind)
  BY <1>3
<1>5. (c.category = "loop_closure") = (e.kind = "loop")
  BY <1>2, <1>4, CategoryLaw
<1> DEFINE a == c.category
           b == (c.category = "loop_closure")
<1>6. c = [source |-> e.from, target |-> e.to, category |-> a, loop |-> b]
  BY <1>3, <1>4, <1>5, Zenon
<1> HIDE DEF a, b
<1>7. [c EXCEPT !.category = a] = c
  BY <1>6
<1>8. [c EXCEPT !.loop = b] = c
  BY <1>6
<1>9. [c EXCEPT !.category = a, !.loop = b] = [[c EXCEPT !.category = a] EXCEPT !.loop = b]
  OBVIOUS
<1>10. [c EXCEPT !.category = a, !.loop = b] = c
  BY <1>7, <1>8, <1>9, Zenon
<1>11. QED
  BY <1>10 DEF a, b

LEMMA ArchiveTellsAll ==
  ASSUME NEW g, GraphInv(g)
  PROVE  TellsAll(g)
<1> DEFINE rows == {Row(e) : e \in g.edges}
           scans == [i \in 1..g.nodes |-> i]
           Count(kind) == Cardinality({e \in g.edges : e.kind = kind})
           archive == ArchiveFromSnapshot(Snapshot(g))
           solver == [nodes |-> Len(scans), constraints |-> Cardinality(g.edges), loops |-> Count("loop"),
                      converged |-> g.report = "Converged", status |-> g.report]
           told == [nodes |-> Len(scans), constraints |-> Cardinality(g.edges), loops |-> Count("loop"),
                    converged |-> g.report = "Converged", status |-> StatusName(g.report)]
           file == Serialized(archive)
           payload == [scans |-> scans, constraints |-> rows, solver |-> told]
<1>1. g.nodes \in Nat /\ g.edges \in SUBSET Links(g.nodes) /\ g.report \in SolverStatus
  BY Zenon DEF GraphInv
<1>2. archive = [scans |-> scans, constraints |-> rows, solver |-> solver]
  BY DEF ArchiveFromSnapshot, Snapshot, Row
<1>3. Len(scans) = g.nodes
  <2>1. g.nodes \in Nat
    BY <1>1
  <2>2. scans \in [1..g.nodes -> Nat] /\ DOMAIN scans = 1..g.nodes
    BY <2>1
  <2> HIDE DEF scans
  <2>3. scans \in Seq(Nat)
    BY <2>1, <2>2, IsASeq
  <2>4. QED
    BY <2>1, <2>2, <2>3, LenProperties
<1>4. /\ Cardinality({c \in rows : c.category = "sequential"}) = Count("sequential")
      /\ Cardinality({c \in rows : c.category = "near_chain"}) = Count("near")
      /\ Cardinality({c \in rows : c.category = "loop_closure"}) = Count("loop")
  <2>1. \A kind \in Kinds : Cardinality({c \in rows : c.category = Category(kind)}) = Count(kind)
    BY <1>1, RowsCount
  <2> HIDE DEF Count, rows
  <2>2. QED
    BY <2>1, CategoryLaw DEF Kinds
<1>5. {<<c.source, c.target>> : c \in rows} = {<<e.from, e.to>> : e \in g.edges}
  <2>1. \A e \in g.edges : Row(e).source = e.from /\ Row(e).target = e.to
    BY DEF Row
  <2>2. {<<c.source, c.target>> : c \in rows} = {<<Row(e).source, Row(e).target>> : e \in g.edges}
    OBVIOUS
  <2>3. QED
    BY <2>1, <2>2
<1>6. \A c \in rows : [c EXCEPT !.category = c.category, !.loop = c.category = "loop_closure"] = c
  BY <1>1, RowsRead
<1> HIDE DEF rows, scans, Count, archive
<1>7. file = [version |-> 2, payload |-> payload, checksum |-> payload]
  BY <1>2 DEF Serialized
<1>8. ReadStatus(StatusName(g.report)) = g.report
  BY <1>1, StatusLaw
<1>9. Loaded(file) = archive
  <2>1. file.version = 2 /\ file.payload = payload
    BY <1>7
  <2> HIDE DEF file
  <2>2. Loaded(file) = [file.payload EXCEPT
                          !.constraints = {[c EXCEPT !.category = c.category,
                                                     !.loop = c.category = "loop_closure"] : c \in @},
                          !.solver.status = ReadStatus(@)]
    BY <2>1 DEF Loaded
  <2>3. {[c EXCEPT !.category = c.category, !.loop = c.category = "loop_closure"] : c \in rows} = rows
    <3> DEFINE read(c) == [c EXCEPT !.category = c.category, !.loop = c.category = "loop_closure"]
    <3>1. \A c \in rows : read(c) = c
      BY <1>6
    <3> HIDE DEF read
    <3>2. {read(c) : c \in rows} = rows
      BY <3>1
    <3>3. QED
      BY <3>2 DEF read
  <2>4. Loaded(file) = [scans |-> scans, constraints |-> rows,
                        solver |-> [told EXCEPT !.status = ReadStatus(@)]]
    <3> HIDE DEF told
    <3>1. Loaded(file) = [payload EXCEPT
                            !.constraints = {[c EXCEPT !.category = c.category,
                                                       !.loop = c.category = "loop_closure"] : c \in rows},
                            !.solver = [told EXCEPT !.status = ReadStatus(@)]]
      BY <2>1, <2>2
    <3>2. Loaded(file) = [payload EXCEPT !.constraints = rows,
                                         !.solver = [told EXCEPT !.status = ReadStatus(@)]]
      BY <2>3, <3>1
    <3>3. QED
      BY <3>2
  <2>5. [told EXCEPT !.status = ReadStatus(@)] = solver
    BY <1>8
  <2>6. QED
    BY <1>2, <2>4, <2>5
<1>10. Readable(file)
  BY <1>7 DEF Readable
<1>11. /\ Summary(archive).scans = g.nodes /\ Summary(archive).sequential = Count("sequential")
       /\ Summary(archive).nearChain = Count("near") /\ Summary(archive).loops = Count("loop")
       /\ Summary(archive).status = StatusName(g.report)
  BY <1>1, <1>2, <1>3, <1>4, StatusLaw DEF Summary, In
<1>12. /\ GraphStats(file).keyframes = g.nodes /\ GraphStats(file).loopClosures = Count("loop")
       /\ GraphStats(file).odomConstraints = Count("sequential")
       /\ GraphStats(file).loopConstraints = Count("loop")
       /\ GraphStats(file).status = StatusName(g.report)
  <2> DEFINE read == file.payload
  <2>1. read = payload
    BY <1>7
  <2> HIDE DEF told, file, read
  <2>2. read.scans = scans /\ read.constraints = rows /\ read.solver = told
    BY <2>1
  <2>3. told.loops = Count("loop") /\ told.status = StatusName(g.report)
    BY DEF told
  <2>4. In("sequential", read) = Count("sequential") /\ In("loop_closure", read) = Count("loop")
    BY <1>4, <2>2 DEF In
  <2>5. GraphStats(file) = [keyframes |-> Len(read.scans), constraints |-> Cardinality(read.constraints),
                            loopClosures |-> read.solver.loops,
                            odomConstraints |-> In("sequential", read),
                            loopConstraints |-> In("loop_closure", read),
                            status |-> read.solver.status]
    BY Zenon DEF GraphStats, read
  <2> HIDE DEF read
  <2>6. QED
    BY <1>3, <2>2, <2>3, <2>4, <2>5
<1>13. archive.constraints = rows
  BY <1>2
<1> HIDE DEF file, payload
<1>14. {<<c.source, c.target>> : c \in archive.constraints} = {<<e.from, e.to>> : e \in g.edges}
  BY <1>5, <1>13
<1> DEFINE summary == Summary(archive)
           stats == GraphStats(file)
<1>15. ReadStatus(stats.status) = g.report
  BY <1>8, <1>12
<1> HIDE DEF summary, stats
<1>16. /\ summary.scans = g.nodes /\ stats.keyframes = g.nodes
       /\ summary.sequential = Count("sequential") /\ stats.odomConstraints = summary.sequential
       /\ summary.loops = Count("loop") /\ stats.loopConstraints = summary.loops
       /\ stats.loopClosures = Count("loop") /\ summary.nearChain = Count("near")
       /\ summary.status = stats.status
  BY <1>11, <1>12 DEF summary, stats
<1>17. QED
  BY <1>9, <1>10, <1>14, <1>15, <1>16, Zenon DEF TellsAll, summary, stats, file, archive, Count
-----------------------------------------------------------------------------
\* The buffer of a mapper that localizes: the graph refers only to scans that are held.

Within(g, held) ==
  /\ IsGraph(g) /\ g.nodes \in Nat /\ held \subseteq 1..g.nodes
  /\ g.known \subseteq held /\ g.constraints \subseteq g.edges /\ g.bound \subseteq g.edges
  /\ \A e \in g.edges : Ends(e) \subseteq held

LEMMA LinkedWithin ==
  ASSUME NEW g, NEW held, Within(g, held), NEW links, \A e \in links : Ends(e) \subseteq held
  PROVE  Within(LinkScans(g, links), held) /\ LinkScans(g, links).nodes = g.nodes
<1> DEFINE h == LinkScans(g, links)
           new == Fresh(g, links)
<1>1. /\ IsGraph(h) /\ SameSolver(g, h) /\ h.edges = g.edges \union new
      /\ h.bound = g.bound \union new /\ h.constraints = g.constraints \union new
  BY LinkLaw DEF Within
<1>2. new \subseteq links
  BY DEF Fresh
<1> HIDE DEF h, new
<1>3. QED
  BY <1>1, <1>2 DEF Within, SameSolver, h

LEMMA AddedWithin ==
  ASSUME NEW g, NEW held, Within(g, held), NEW near \in SUBSET held,
         g.nodes # 0 => g.nodes \in held
  PROVE  LET n == g.nodes + 1
             h == AddEdges(AddVertex(g), near)
         IN Within(h, held \union {n}) /\ h.nodes = n
<1> DEFINE n == g.nodes + 1
           h == AddEdges(AddVertex(g), near)
<1>1. g.nodes \in Nat /\ IsGraph(g) /\ near \in SUBSET (1..g.nodes)
  BY DEF Within
<1>2. PICK links \in SUBSET LinksTo(n, Neighbours(g, near)) :
        /\ IsGraph(h) /\ h.nodes = n /\ h.known = g.known \union {n} /\ h.report = g.report
        /\ h.edges = g.edges \union links /\ h.bound = g.bound \union links
        /\ h.constraints = g.constraints \union links
  BY <1>1, AddedLaw
<1> HIDE DEF h
<1>3. Neighbours(g, near) \subseteq held
  BY DEF Neighbours
<1>4. ASSUME NEW e \in links PROVE Ends(e) \subseteq held \union {n}
  BY <1>2, <1>3 DEF LinksTo, Edge, Ends
<1>5. n \in Nat /\ held \union {n} \subseteq 1..n
  <2>1. g.nodes \in Nat
    BY <1>1
  <2>2. 1..g.nodes \subseteq 1..n /\ n \in 1..n /\ n \in Nat
    BY <2>1
  <2>3. held \subseteq 1..g.nodes
    BY DEF Within
  <2> HIDE DEF n
  <2>4. QED
    BY <2>2, <2>3
<1>6. QED
  BY <1>2, <1>4, <1>5 DEF Within, h

LEMMA ClosedWithin ==
  ASSUME NEW g, NEW held, Within(g, held), NEW closest \in held, g.nodes \in held
  PROVE  /\ Within(CloseLoop(g, closest, TRUE), held)
         /\ CloseLoop(g, closest, TRUE).nodes = g.nodes
<1> DEFINE n == g.nodes
           p == Posed(g, n)
           edge == Edge(closest, n, "loop")
           l == LinkScans(p, {edge})
           h == CorrectPoses(l, TRUE)
<1>1. CloseLoop(g, closest, TRUE) = h
  BY Zenon DEF CloseLoop
<1>2. /\ IsGraph(p) /\ SameSolver(g, p) /\ p.edges = g.edges /\ p.constraints = g.constraints
      /\ p.bound \subseteq g.bound
  BY PosedLaw DEF Within
<1>3. Ends(edge) \subseteq held
  BY DEF Edge, Ends
<1> HIDE DEF p, edge
<1>4. Within(p, held) /\ p.nodes = g.nodes
  BY <1>2 DEF Within, SameSolver
<1>5. Within(l, held) /\ l.nodes = g.nodes
  BY <1>3, <1>4, LinkedWithin
<1> HIDE DEF l
<1>6. Corrected(l, h, TRUE)
  BY <1>5, CorrectLaw DEF Within
<1> HIDE DEF h
<1>7. Residuals(l) \subseteq l.edges
  BY <1>5 DEF Within, Residuals
<1>8. h.bound \subseteq l.edges
  BY <1>5, <1>6, <1>7 DEF Corrected, Within
<1>9. QED
  BY <1>1, <1>5, <1>6, <1>8 DEF Corrected, Within

LEMMA LoopsWithin ==
  ASSUME NEW g, NEW held, Within(g, held), g.nodes \in held, NEW closing,
         Len(closing) \in Nat, \A k \in 1..Len(closing) : closing[k] \in held
  PROVE  /\ Within(CloseLoops(g, closing, TRUE), held)
         /\ CloseLoops(g, closing, TRUE).nodes = g.nodes
<1> DEFINE count == Len(closing)
<1>1. PICK after : ClosesLoops(after, g, closing, TRUE)
  BY LoopsLaw, Zenon
<1> DEFINE Kept(k) == Within(after[k], held) /\ after[k].nodes = g.nodes
           broken == {k \in Nat : k <= count /\ ~Kept(k)}
<1>2. Kept(0)
  BY <1>1 DEF ClosesLoops
<1>3. ASSUME NEW k \in 1..count, Kept(k - 1) PROVE Kept(k)
  <2> DEFINE a == after[k - 1]
             c == closing[k]
  <2>1. Within(a, held) /\ a.nodes = g.nodes /\ c \in held /\ a.nodes \in held
    BY <1>3
  <2>2. after[k] = CloseLoop(a, c, TRUE)
    BY <1>1 DEF ClosesLoops
  <2> HIDE DEF a, c
  <2>3. Within(CloseLoop(a, c, TRUE), held) /\ CloseLoop(a, c, TRUE).nodes = a.nodes
    BY <2>1, ClosedWithin
  <2>4. QED
    BY <2>1, <2>2, <2>3
<1>4. broken = {}
  <2>1. SUFFICES ASSUME broken # {} PROVE FALSE
    OBVIOUS
  <2> HIDE DEF Kept
  <2>2. PICK k \in broken : \A m \in broken : k <= m
    BY <2>1, Least
  <2>3. k \in Nat /\ k <= count /\ ~Kept(k)
    OBVIOUS
  <2>4. k # 0
    BY <1>2, <2>3
  <2>5. k \in 1..count /\ k - 1 \in Nat /\ k - 1 <= count /\ ~(k <= k - 1)
    BY <2>3, <2>4
  <2>6. Kept(k - 1)
    BY <2>2, <2>5
  <2>7. QED
    BY <1>3, <2>3, <2>5, <2>6
<1>5. Kept(count)
  <2> HIDE DEF Kept
  <2>1. QED
    BY <1>4
<1>6. QED
  BY <1>1, <1>5 DEF ClosesLoops

LEMMA RemovedWithin ==
  ASSUME NEW g, NEW held, Within(g, held), NEW scans
  PROVE  /\ Within(RemoveNodesFromGraph(g, scans), held \ scans)
         /\ RemoveNodesFromGraph(g, scans).nodes = g.nodes
<1> DEFINE cut == g.edges \ Clears(scans, g.edges)
           a == RemoveConstraints(g, cut)
           b == [a EXCEPT !.edges = @ \ cut, !.bound = @ \ cut]
           h == RemoveNodes(b, scans)
<1>1. RemoveNodesFromGraph(g, scans) = h
  BY Zenon DEF RemoveNodesFromGraph
<1>2. /\ IsGraph(a) /\ a.nodes = g.nodes /\ a.known = g.known /\ a.edges = g.edges
      /\ a.bound = g.bound
      /\ a.constraints = {c \in g.constraints : \A e \in cut : Ends(c) # Ends(e)}
  BY DEF Within, IsGraph, Fields, RemoveConstraints
<1> HIDE DEF cut, a
<1>3. /\ IsGraph(b) /\ b.nodes = g.nodes /\ b.known = g.known /\ b.edges = g.edges \ cut
      /\ b.bound = g.bound \ cut /\ b.constraints = a.constraints
  BY <1>2 DEF IsGraph, Fields
<1> HIDE DEF b
<1>4. Clears(scans, NoCorrections.edges) = {} /\ NoCorrections.nodes \ scans = {}
  BY NothingCorrected DEF Clears
<1>5. /\ Fields \subseteq DOMAIN h /\ h.nodes = g.nodes /\ h.known = g.known \ scans
      /\ h.edges = g.edges \ cut /\ h.bound = g.bound \ cut
      /\ h.constraints = Clears(scans, a.constraints)
      /\ h.corrections = [nodes |-> b.corrections.nodes \ scans,
                          edges |-> Clears(scans, b.corrections.edges)]
  BY <1>3 DEF RemoveNodes, IsGraph, Fields
<1>6. h.corrections = NoCorrections
  BY <1>3, <1>4, <1>5 DEF IsGraph, NoCorrections
<1> HIDE DEF h
<1>7. g.edges \ cut = Clears(scans, g.edges)
  BY DEF cut, Clears
<1>8. h.constraints \subseteq h.edges
  BY <1>2, <1>5 DEF Within, Clears
<1>9. \A e \in h.edges : Ends(e) \subseteq held \ scans
  BY <1>5, <1>7 DEF Within, Clears
<1>10. QED
  BY <1>1, <1>5, <1>6, <1>8, <1>9 DEF Within, IsGraph

\* The last running scans are the last of the buffer, and those before them the map's own.
Aligned(running, buffer, mapped) ==
  \A i \in 1..Len(running) :
    \/ running[i] \in 1..mapped
    \/ \E j \in 1..Len(buffer) : Len(buffer) - j = Len(running) - i /\ running[i] = buffer[j]

LEMMA AppendAligns ==
  ASSUME NEW running \in Seq(Nat), NEW buffer \in Seq(Nat), NEW mapped, NEW scan \in Nat,
         Aligned(running, buffer, mapped)
  PROVE  Aligned(Append(running, scan), Append(buffer, scan), mapped)
<1> DEFINE r == Append(running, scan)
           b == Append(buffer, scan)
<1>1. Len(running) \in Nat /\ Len(buffer) \in Nat
  BY LenProperties
<1>2. Len(r) = Len(running) + 1 /\ \A i \in 1..Len(running) : r[i] = running[i]
  BY AppendProperties
<1>3. r[Len(running) + 1] = scan
  BY AppendProperties
<1>4. Len(b) = Len(buffer) + 1 /\ \A i \in 1..Len(buffer) : b[i] = buffer[i]
  BY AppendProperties
<1>5. b[Len(buffer) + 1] = scan
  BY AppendProperties
<1> HIDE DEF r, b
<1>6. ASSUME NEW i \in 1..Len(r)
      PROVE  \/ r[i] \in 1..mapped
             \/ \E j \in 1..Len(b) : Len(b) - j = Len(r) - i /\ r[i] = b[j]
  <2>1. CASE i = Len(running) + 1
    <3>1. Len(b) \in 1..Len(b) /\ Len(b) - Len(b) = Len(r) - i
      BY <1>1, <1>2, <1>4, <2>1
    <3>2. r[i] = b[Len(b)]
      BY <1>3, <1>4, <1>5, <2>1
    <3>3. QED
      BY <3>1, <3>2
  <2>2. CASE i # Len(running) + 1
    <3>1. i \in 1..Len(running) /\ r[i] = running[i]
      BY <1>1, <1>2, <2>2
    <3>2. CASE running[i] \in 1..mapped
      BY <3>1, <3>2
    <3>3. CASE \E j \in 1..Len(buffer) : Len(buffer) - j = Len(running) - i /\ running[i] = buffer[j]
      <4>1. PICK j \in 1..Len(buffer) : Len(buffer) - j = Len(running) - i /\ running[i] = buffer[j]
        BY <3>3
      <4>2. j \in 1..Len(b) /\ Len(b) - j = Len(r) - i
        <5>1. Len(b) = Len(buffer) + 1 /\ Len(r) = Len(running) + 1
          BY <1>2, <1>4
        <5>2. j \in 1..Len(buffer) /\ Len(buffer) - j = Len(running) - i /\ i \in Int
          BY <3>1, <4>1
        <5> DEFINE nb == Len(buffer)
                   nr == Len(running)
        <5>3. nb \in Nat /\ nr \in Nat /\ j \in 1..nb /\ i \in Int /\ nb - j = nr - i
          BY <1>1, <5>2
        <5> HIDE DEF nb, nr
        <5>4. j \in 1..nb + 1 /\ (nb + 1) - j = (nr + 1) - i
          BY <5>3
        <5>5. QED
          BY <5>1, <5>4 DEF nb, nr
      <4>3. b[j] = buffer[j]
        BY <1>4
      <4>4. QED
        BY <3>1, <4>1, <4>2, <4>3
    <3>4. QED
      BY <3>1, <3>2, <3>3 DEF Aligned
  <2>3. QED
    BY <2>1, <2>2
<1>7. QED
  BY <1>6 DEF Aligned, r, b

LEMMA ShorterRunAligns ==
  ASSUME NEW running \in Seq(Nat), running # <<>>, NEW buffer \in Seq(Nat), NEW mapped,
         Aligned(running, buffer, mapped)
  PROVE  Aligned(Tail(running), buffer, mapped)
<1> DEFINE r == Tail(running)
<1>1. Len(running) \in Nat /\ Len(buffer) \in Nat
  BY LenProperties
<1>2. Len(r) = Len(running) - 1 /\ \A i \in 1..Len(r) : r[i] = running[i + 1]
  BY HeadTailProperties
<1> HIDE DEF r
<1>3. ASSUME NEW i \in 1..Len(r)
      PROVE  \/ r[i] \in 1..mapped
             \/ \E j \in 1..Len(buffer) : Len(buffer) - j = Len(r) - i /\ r[i] = buffer[j]
  <2>1. i + 1 \in 1..Len(running) /\ r[i] = running[i + 1]
    BY <1>1, <1>2
  <2>2. CASE running[i + 1] \in 1..mapped
    BY <2>1, <2>2
  <2>3. CASE \E j \in 1..Len(buffer) : Len(buffer) - j = Len(running) - (i + 1) /\ running[i + 1] = buffer[j]
    <3>1. PICK j \in 1..Len(buffer) : Len(buffer) - j = Len(running) - (i + 1) /\ running[i + 1] = buffer[j]
      BY <2>3
    <3>2. Len(buffer) - j = Len(r) - i
      BY <1>1, <1>2, <3>1
    <3>3. QED
      BY <2>1, <3>1, <3>2
  <2>4. QED
    BY <2>1, <2>2, <2>3 DEF Aligned
<1>4. QED
  BY <1>3 DEF Aligned, r

LEMMA ShorterBufferAligns ==
  ASSUME NEW running \in Seq(Nat), NEW buffer \in Seq(Nat), buffer # <<>>, NEW mapped,
         Len(running) < Len(buffer), Aligned(running, buffer, mapped)
  PROVE  Aligned(running, Tail(buffer), mapped)
<1> DEFINE b == Tail(buffer)
<1>1. Len(running) \in Nat /\ Len(buffer) \in Nat
  BY LenProperties
<1>2. Len(b) = Len(buffer) - 1 /\ \A i \in 1..Len(b) : b[i] = buffer[i + 1]
  BY HeadTailProperties
<1> HIDE DEF b
<1>3. ASSUME NEW i \in 1..Len(running)
      PROVE  \/ running[i] \in 1..mapped
             \/ \E j \in 1..Len(b) : Len(b) - j = Len(running) - i /\ running[i] = b[j]
  <2>2. CASE running[i] \in 1..mapped
    BY <2>2
  <2>3. CASE \E j \in 1..Len(buffer) : Len(buffer) - j = Len(running) - i /\ running[i] = buffer[j]
    <3>1. PICK j \in 1..Len(buffer) : Len(buffer) - j = Len(running) - i /\ running[i] = buffer[j]
      BY <2>3
    <3>2. j - 1 \in 1..Len(b) /\ Len(b) - (j - 1) = Len(running) - i /\ (j - 1) + 1 = j
      BY <1>1, <1>2, <3>1
    <3>3. b[j - 1] = buffer[j]
      BY <1>2, <3>2
    <3>4. QED
      BY <3>1, <3>2, <3>3
  <2>4. QED
    BY <2>2, <2>3 DEF Aligned
<1>4. QED
  BY <1>3 DEF Aligned, b

\* What a mapper that localizes keeps, but for the length of its buffer.
Buffering(m, mapped) ==
  /\ {"graph", "buffer", "freed", "running"} \subseteq DOMAIN m
  /\ m.buffer \in Seq(Nat) /\ m.running \in Seq(Nat) /\ Len(m.running) <= BufferSize
  /\ Within(m.graph, Held(m)) /\ m.freed \subseteq 1..m.graph.nodes /\ mapped \in 1..m.graph.nodes
  /\ Held(m) = (1..mapped) \union Buffered(m)
  /\ \A i \in 1..Len(m.buffer) : m.buffer[i] > mapped
  /\ \A i, j \in 1..Len(m.buffer) : m.buffer[i] = m.buffer[j] => i = j
  /\ Aligned(m.running, m.buffer, mapped)

LEMMA RestoredBuffers ==
  ASSUME NEW mapped \in Nat \ {0}
  PROVE  Buffering(RestoredMapper(mapped), mapped) /\ Len(RestoredMapper(mapped).buffer) <= BufferSize
<1> DEFINE m == RestoredMapper(mapped)
           nears == [i \in 1..mapped |-> {}]
           g == Restored(mapped, nears)
<1>1. m = [graph |-> g, buffer |-> <<>>, freed |-> {}, running |-> <<mapped>>]
  BY DEF RestoredMapper
<1>2. GraphInv(g) /\ g.nodes = mapped
  <2>1. \A k \in 1..mapped : nears[k] \subseteq 1..k - 1
    OBVIOUS
  <2>2. mapped \in Nat
    OBVIOUS
  <2> HIDE DEF nears
  <2>3. QED
    BY <2>1, <2>2, RestoredKeeps
<1> HIDE DEF g, m
<1>3. Held(m) = 1..mapped
  BY <1>1, <1>2 DEF Held
<1>4. Within(g, 1..mapped)
  <2>1. /\ IsGraph(g) /\ g.nodes \in Nat /\ g.edges \subseteq Links(mapped) /\ g.known \subseteq 1..mapped
        /\ g.constraints \subseteq g.edges /\ g.bound \subseteq g.edges
    BY <1>2, Zenon DEF GraphInv
  <2>2. \A e \in Links(mapped) : Ends(e) \subseteq 1..mapped
    BY DEF Links, Ends
  <2>3. QED
    BY <1>2, <2>1, <2>2 DEF Within
<1>5. /\ m.graph = g /\ m.freed = {} /\ m.buffer = <<>> /\ m.running = <<mapped>>
      /\ DOMAIN m = {"graph", "buffer", "freed", "running"}
  BY <1>1
<1>6. Buffered(m) = {} /\ Len(m.buffer) = 0 /\ m.buffer \in Seq(Nat)
  BY <1>5 DEF Buffered
<1>7. m.running \in Seq(Nat) /\ Len(m.running) = 1 /\ m.running[1] = mapped
  BY <1>5
<1>8. Aligned(m.running, m.buffer, mapped)
  BY <1>7 DEF Aligned
<1>9. 1 <= BufferSize /\ 0 <= BufferSize /\ mapped \in 1..mapped
  BY BufferAssumption
<1>10. QED
  BY <1>2, <1>3, <1>4, <1>5, <1>6, <1>7, <1>8, <1>9 DEF Buffering, m
LEMMA LinkedBuffers ==
  ASSUME NEW mapped \in Nat \ {0}, NEW m, Buffering(m, mapped), NEW near \in SUBSET Held(m)
  PROVE  LET n == m.graph.nodes + 1
         IN Within(Linked(m, near), Held(m) \union {n}) /\ Linked(m, near).nodes = n
<1> DEFINE g == m.graph
           n == g.nodes + 1
<1>1. Within(g, Held(m)) /\ g.nodes \in Nat /\ g.nodes \in 1..g.nodes
  <2>1. Within(g, Held(m)) /\ mapped \in 1..g.nodes
    BY Zenon DEF Buffering
  <2>2. g.nodes \in Nat
    BY <2>1, Zenon DEF Within
  <2>3. QED
    BY <2>1, <2>2
<1>2. Held(m) = (1..g.nodes) \ m.freed
  BY DEF Held
<1>3. CASE g.nodes \in m.freed
  <2>1. Linked(m, near) = AddVertex(g)
    BY <1>3 DEF Linked
  <2>2. 1..g.nodes \subseteq 1..n /\ n \in 1..n /\ n \in Nat
    BY <1>1
  <2> HIDE DEF g, n
  <2>3. /\ IsGraph(AddVertex(g)) /\ AddVertex(g).nodes = n /\ AddVertex(g).known = g.known \union {n}
        /\ AddVertex(g).edges = g.edges /\ AddVertex(g).bound = g.bound
        /\ AddVertex(g).constraints = g.constraints
    BY <1>1, VertexLaw DEF Within, n
  <2>4. Within(AddVertex(g), Held(m) \union {n})
    BY <1>1, <2>2, <2>3 DEF Within
  <2>5. QED
    BY <2>1, <2>3, <2>4 DEF n, g
<1>4. CASE g.nodes \notin m.freed
  <2>1. Linked(m, near) = AddEdges(AddVertex(g), near)
    BY <1>4 DEF Linked
  <2>2. g.nodes \in Held(m)
    BY <1>1, <1>2, <1>4
  <2>3. /\ Within(AddEdges(AddVertex(g), near), Held(m) \union {n})
        /\ AddEdges(AddVertex(g), near).nodes = n
    BY <1>1, <2>2, AddedWithin
  <2>4. QED
    BY <2>1, <2>3
<1>5. QED
  BY <1>3, <1>4

LEMMA LatestLaw ==
  ASSUME NEW running \in Seq(Nat), NEW buffer \in Seq(Nat), NEW mapped,
         Aligned(running, buffer, mapped), Len(running) <= BufferSize + 1
  PROVE  /\ Latest(running) \in Seq(Nat) /\ Len(Latest(running)) <= BufferSize
         /\ Aligned(Latest(running), buffer, mapped)
<1>1. Len(running) \in Nat /\ BufferSize \in Nat
  BY BufferAssumption, LenProperties
<1>2. CASE Len(running) > BufferSize
  <2>1. running # <<>>
    <3>1. Len(<<>>) = 0 /\ ~(0 > BufferSize)
      BY <1>1
    <3>2. QED
      BY <1>2, <3>1
  <2>2. Latest(running) = Tail(running)
    BY <1>2 DEF Latest
  <2>3. Tail(running) \in Seq(Nat) /\ Len(Tail(running)) = Len(running) - 1
    BY <2>1, HeadTailProperties
  <2>4. Aligned(Tail(running), buffer, mapped)
    BY <2>1, ShorterRunAligns
  <2>5. Len(running) - 1 <= BufferSize
    BY <1>1
  <2>6. QED
    BY <2>2, <2>3, <2>4, <2>5
<1>3. CASE ~(Len(running) > BufferSize)
  <2>1. Latest(running) = running
    BY <1>3 DEF Latest
  <2>2. Len(running) <= BufferSize
    BY <1>1, <1>3
  <2>3. QED
    BY <2>1, <2>2
<1>4. QED
  BY <1>2, <1>3

LEMMA AddedBuffers ==
  ASSUME NEW mapped \in Nat \ {0}, NEW m, Buffering(m, mapped), NEW near \in SUBSET Held(m),
         NEW closing, Len(closing) \in Nat, \A k \in 1..Len(closing) : closing[k] \in Held(m)
  PROVE  /\ Buffering(Added(m, near, closing), mapped)
         /\ Len(Added(m, near, closing).buffer) = Len(m.buffer) + 1
<1> DEFINE g == m.graph
           n == g.nodes + 1
           l == Linked(m, near)
           h == CloseLoops(l, closing, TRUE)
           b == Append(m.buffer, n)
           r == Append(m.running, n)
           a == Added(m, near, closing)
<1>1. /\ {"graph", "buffer", "freed", "running"} \subseteq DOMAIN m
      /\ m.buffer \in Seq(Nat) /\ m.running \in Seq(Nat) /\ Len(m.running) <= BufferSize
      /\ Within(g, Held(m)) /\ m.freed \subseteq 1..g.nodes /\ mapped \in 1..g.nodes
      /\ Held(m) = (1..mapped) \union Buffered(m)
      /\ \A i \in 1..Len(m.buffer) : m.buffer[i] > mapped
      /\ \A i, j \in 1..Len(m.buffer) : m.buffer[i] = m.buffer[j] => i = j
      /\ Aligned(m.running, m.buffer, mapped)
  BY Zenon DEF Buffering
<1>2. g.nodes \in Nat /\ Held(m) \subseteq 1..g.nodes
  BY <1>1, Zenon DEF Within
<1>3. n \in Nat /\ n \in 1..n /\ 1..n = 1..g.nodes \union {n} /\ n \notin 1..g.nodes
      /\ mapped \in 1..n /\ n > mapped
  <2>1. g.nodes \in Nat /\ mapped \in 1..g.nodes
    BY <1>1, <1>2
  <2>2. QED
    BY <2>1
<1>4. Within(l, Held(m) \union {n}) /\ l.nodes = n
  BY LinkedBuffers
<1> HIDE DEF l
<1>5. Within(h, Held(m) \union {n}) /\ h.nodes = n
  <2>1. l.nodes \in Held(m) \union {n}
    BY <1>4
  <2> HIDE DEF n
  <2>2. QED
    BY <1>4, <2>1, LoopsWithin
<1>6. a = [m EXCEPT !.graph = h, !.running = Latest(r), !.buffer = b]
  BY Zenon DEF Added, l
<1> HIDE DEF h, b, r, g, n
<1>7. /\ {"graph", "buffer", "freed", "running"} \subseteq DOMAIN a
      /\ a.graph = h /\ a.running = Latest(r) /\ a.buffer = b /\ a.freed = m.freed
  BY <1>1, <1>6
<1> HIDE DEF a
<1>8. Held(a) = Held(m) \union {n}
  <2>1. Held(a) = (1..n) \ m.freed
    BY <1>5, <1>7 DEF Held
  <2>2. Held(m) = (1..g.nodes) \ m.freed
    BY DEF Held, g
  <2>3. QED
    BY <1>1, <1>3, <2>1, <2>2
<1>9. /\ b \in Seq(Nat) /\ Len(b) = Len(m.buffer) + 1 /\ b[Len(m.buffer) + 1] = n
      /\ \A i \in 1..Len(m.buffer) : b[i] = m.buffer[i]
  BY <1>1, <1>3, AppendProperties DEF b
<1>10. r \in Seq(Nat) /\ Len(r) = Len(m.running) + 1
  BY <1>1, <1>3, AppendProperties DEF r
<1>11. /\ Len(m.buffer) \in Nat /\ DOMAIN m.buffer = 1..Len(m.buffer) /\ DOMAIN b = 1..Len(b)
       /\ Len(m.running) \in Nat
  BY <1>1, <1>9, LenProperties
<1>12. \A i \in 1..Len(b) : i \in 1..Len(m.buffer) \/ i = Len(m.buffer) + 1
  BY <1>9, <1>11
<1>13. Buffered(a) = Buffered(m) \union {n}
  <2>1. Buffered(a) = {b[i] : i \in 1..Len(b)}
    BY <1>7, <1>11 DEF Buffered
  <2>2. Buffered(m) = {m.buffer[i] : i \in 1..Len(m.buffer)}
    BY <1>11 DEF Buffered
  <2>3. \A i \in 1..Len(m.buffer) : i \in 1..Len(b)
    BY <1>9, <1>11
  <2>4. Len(m.buffer) + 1 \in 1..Len(b)
    BY <1>9, <1>11
  <2>5. ASSUME NEW i \in 1..Len(b) PROVE b[i] \in Buffered(m) \union {n}
    BY <1>9, <1>12, <2>2
  <2>6. Buffered(m) \subseteq Buffered(a)
    BY <1>9, <2>1, <2>2, <2>3
  <2>7. n \in Buffered(a)
    BY <1>9, <2>1, <2>4
  <2>8. QED
    BY <2>1, <2>5, <2>6, <2>7
<1>14. \A i \in 1..Len(m.buffer) : m.buffer[i] \in 1..g.nodes
  <2>1. \A i \in 1..Len(m.buffer) : m.buffer[i] \in Buffered(m)
    BY <1>11 DEF Buffered
  <2>2. QED
    BY <1>1, <1>2, <2>1
<1>15. \A i \in 1..Len(b) : b[i] > mapped
  BY <1>1, <1>3, <1>9, <1>12
<1>16. ASSUME NEW i \in 1..Len(b), NEW j \in 1..Len(b), b[i] = b[j] PROVE i = j
  <2>1. CASE i \in 1..Len(m.buffer) /\ j \in 1..Len(m.buffer)
    BY <1>1, <1>9, <1>16, <2>1
  <2>2. CASE i \in 1..Len(m.buffer) /\ j = Len(m.buffer) + 1
    BY <1>3, <1>9, <1>14, <1>16, <2>2
  <2>3. CASE j \in 1..Len(m.buffer) /\ i = Len(m.buffer) + 1
    BY <1>3, <1>9, <1>14, <1>16, <2>3
  <2>4. CASE i = Len(m.buffer) + 1 /\ j = Len(m.buffer) + 1
    BY <2>4
  <2>5. QED
    BY <1>12, <2>1, <2>2, <2>3, <2>4, Zenon
<1>17. Aligned(r, b, mapped)
  BY <1>1, <1>3, AppendAligns DEF r, b
<1>18. Len(r) <= BufferSize + 1
  <2>1. BufferSize \in Nat
    BY BufferAssumption
  <2>2. QED
    BY <1>1, <1>10, <1>11, <2>1
<1>19. Latest(r) \in Seq(Nat) /\ Len(Latest(r)) <= BufferSize /\ Aligned(Latest(r), b, mapped)
  BY <1>9, <1>10, <1>17, <1>18, LatestLaw
<1>20. m.freed \subseteq 1..n /\ (1..mapped) \union Buffered(a) = Held(a)
  BY <1>1, <1>3, <1>8, <1>13
<1>21. Buffering(a, mapped)
  BY <1>3, <1>5, <1>7, <1>8, <1>9, <1>15, <1>16, <1>19, <1>20 DEF Buffering
<1>22. QED
  BY <1>7, <1>9, <1>21 DEF a
LEMMA ForgottenBuffers ==
  ASSUME NEW mapped \in Nat \ {0}, NEW m, Buffering(m, mapped), BufferSize < Len(m.buffer)
  PROVE  /\ Buffering(Forget(m, Head(m.buffer)), mapped)
         /\ Len(Forget(m, Head(m.buffer)).buffer) = Len(m.buffer) - 1
<1> DEFINE g == m.graph
           oldest == Head(m.buffer)
           b == Tail(m.buffer)
           h == RemoveNodesFromGraph(g, {oldest})
           a == Forget(m, oldest)
<1>1. /\ {"graph", "buffer", "freed", "running"} \subseteq DOMAIN m
      /\ m.buffer \in Seq(Nat) /\ m.running \in Seq(Nat) /\ Len(m.running) <= BufferSize
      /\ Within(g, Held(m)) /\ m.freed \subseteq 1..g.nodes /\ mapped \in 1..g.nodes
      /\ Held(m) = (1..mapped) \union Buffered(m)
      /\ \A i \in 1..Len(m.buffer) : m.buffer[i] > mapped
      /\ \A i, j \in 1..Len(m.buffer) : m.buffer[i] = m.buffer[j] => i = j
      /\ Aligned(m.running, m.buffer, mapped)
  BY Zenon DEF Buffering
<1>2. g.nodes \in Nat /\ Held(m) \subseteq 1..g.nodes
  BY <1>1, Zenon DEF Within
<1>3. Len(m.buffer) \in Nat /\ Len(m.running) \in Nat /\ DOMAIN m.buffer = 1..Len(m.buffer)
  BY <1>1, LenProperties
<1>4. /\ m.buffer # <<>> /\ 1 \in 1..Len(m.buffer) /\ Len(m.running) < Len(m.buffer)
  <2>1. Len(<<>>) = 0
    OBVIOUS
  <2>2. BufferSize \in Nat
    BY BufferAssumption
  <2>3. 0 < Len(m.buffer) /\ Len(m.running) < Len(m.buffer)
    BY <1>1, <1>3, <2>2
  <2>4. QED
    BY <1>3, <2>1, <2>3
<1>5. oldest = m.buffer[1]
  BY <1>4
<1>6. b \in Seq(Nat) /\ Len(b) = Len(m.buffer) - 1 /\ \A i \in 1..Len(b) : b[i] = m.buffer[i + 1]
  BY <1>1, <1>4, HeadTailProperties
<1>7. Aligned(m.running, b, mapped)
  BY <1>1, <1>4, ShorterBufferAligns
<1> HIDE DEF oldest, b, g
<1>8. Within(h, Held(m) \ {oldest}) /\ h.nodes = g.nodes
  BY <1>1, RemovedWithin
<1>9. a = [m EXCEPT !.graph = h, !.buffer = b, !.freed = m.freed \union {oldest}]
  BY DEF Forget, g, b
<1> HIDE DEF h, a
<1>10. /\ {"graph", "buffer", "freed", "running"} \subseteq DOMAIN a
       /\ a.graph = h /\ a.running = m.running /\ a.buffer = b /\ a.freed = m.freed \union {oldest}
  BY <1>1, <1>9
<1>11. Held(a) = Held(m) \ {oldest}
  BY <1>8, <1>10 DEF Held, g
<1>12. \A i \in 1..Len(b) : i + 1 \in 1..Len(m.buffer) /\ i + 1 # 1 /\ b[i] = m.buffer[i + 1]
  BY <1>3, <1>6
<1>13. \A i \in 1..Len(m.buffer) : i = 1 \/ (i - 1 \in 1..Len(b) /\ (i - 1) + 1 = i)
  BY <1>3, <1>6
<1>14. DOMAIN b = 1..Len(b) /\ Len(b) \in Nat
  BY <1>6, LenProperties
<1>15. Buffered(a) = Buffered(m) \ {oldest}
  <2>1. Buffered(a) = {b[i] : i \in 1..Len(b)}
    BY <1>10, <1>14 DEF Buffered
  <2>2. Buffered(m) = {m.buffer[i] : i \in 1..Len(m.buffer)}
    BY <1>3 DEF Buffered
  <2>3. ASSUME NEW i \in 1..Len(b) PROVE b[i] \in Buffered(m) \ {oldest}
    BY <1>1, <1>4, <1>5, <1>12, <2>2
  <2>4. ASSUME NEW i \in 1..Len(m.buffer), m.buffer[i] # oldest PROVE m.buffer[i] \in Buffered(a)
    <3>1. i # 1
      BY <1>5, <2>4
    <3>2. i - 1 \in 1..Len(b) /\ b[i - 1] = m.buffer[i]
      BY <1>12, <1>13, <3>1
    <3>3. QED
      BY <2>1, <3>2
  <2>5. QED
    BY <2>1, <2>2, <2>3, <2>4
<1>16. oldest \notin 1..mapped /\ oldest \in 1..g.nodes
  <2>1. oldest > mapped
    BY <1>1, <1>4, <1>5
  <2>2. oldest \in Held(m)
    BY <1>1, <1>3, <1>4, <1>5 DEF Buffered
  <2>3. oldest \in 1..g.nodes /\ g.nodes \in Nat
    BY <1>2, <2>2
  <2>4. QED
    BY <2>1, <2>3
<1>17. (1..mapped) \union Buffered(a) = Held(a)
  BY <1>1, <1>11, <1>15, <1>16
<1>18. \A i \in 1..Len(b) : b[i] > mapped
  BY <1>1, <1>12
<1>19. ASSUME NEW i \in 1..Len(b), NEW j \in 1..Len(b), b[i] = b[j] PROVE i = j
  <2>1. m.buffer[i + 1] = m.buffer[j + 1] /\ i + 1 \in 1..Len(m.buffer) /\ j + 1 \in 1..Len(m.buffer)
    BY <1>12, <1>19
  <2>2. i + 1 = j + 1
    BY <1>1, <2>1
  <2>3. QED
    BY <2>2
<1>20. Buffering(a, mapped)
  <2>1. Within(h, Held(a)) /\ m.freed \union {oldest} \subseteq 1..h.nodes /\ mapped \in 1..h.nodes
    BY <1>1, <1>8, <1>11, <1>16
  <2>2. QED
    BY <1>1, <1>6, <1>7, <1>10, <1>17, <1>18, <1>19, <2>1 DEF Buffering
<1>21. QED
  BY <1>6, <1>10, <1>20 DEF a, oldest

\* With a buffer that is no longer than it may be.
Settled(m, mapped) == Buffering(m, mapped) /\ Len(m.buffer) <= BufferSize

LEMMA LocalizedBuffers ==
  ASSUME NEW mapped \in Nat \ {0}, NEW m, Settled(m, mapped), NEW near \in SUBSET Held(m),
         NEW closing, Len(closing) \in Nat, \A k \in 1..Len(closing) : closing[k] \in Held(m)
  PROVE  Settled(Localized(m, near, closing), mapped)
<1> DEFINE a == Added(m, near, closing)
<1>1. Buffering(m, mapped) /\ Len(m.buffer) <= BufferSize /\ m.buffer \in Seq(Nat)
  BY DEF Settled, Buffering
<1>2. Buffering(a, mapped) /\ Len(a.buffer) = Len(m.buffer) + 1
  BY <1>1, AddedBuffers
<1>3. Localized(m, near, closing) = AddScanToLocalizationBuffer(a)
  BY Zenon DEF Localized
<1> HIDE DEF a
<1>4. Len(m.buffer) \in Nat /\ BufferSize \in Nat
  BY <1>1, BufferAssumption, LenProperties
<1>5. CASE Len(a.buffer) > BufferSize
  <2>1. AddScanToLocalizationBuffer(a) = Forget(a, Head(a.buffer))
    BY <1>5 DEF AddScanToLocalizationBuffer
  <2>2. BufferSize < Len(a.buffer) /\ Len(a.buffer) - 1 <= BufferSize
    BY <1>1, <1>2, <1>4, <1>5
  <2>3. QED
    BY <1>2, <1>3, <2>1, <2>2, ForgottenBuffers DEF Settled
<1>6. CASE ~(Len(a.buffer) > BufferSize)
  <2>1. AddScanToLocalizationBuffer(a) = a
    BY <1>6 DEF AddScanToLocalizationBuffer
  <2>2. Len(a.buffer) <= BufferSize
    BY <1>2, <1>4, <1>6
  <2>3. QED
    BY <1>2, <1>3, <2>1, <2>2 DEF Settled
<1>7. QED
  BY <1>5, <1>6

LEMMA ClearedBuffers ==
  ASSUME NEW mapped \in Nat \ {0}, NEW m, Buffering(m, mapped)
  PROVE  /\ Settled(ClearLocalizationBuffer(m), mapped)
         /\ Held(ClearLocalizationBuffer(m)) = 1..mapped
         /\ ClearLocalizationBuffer(m).buffer = <<>>
<1> DEFINE g == m.graph
           h == RemoveNodesFromGraph(g, Buffered(m))
           a == ClearLocalizationBuffer(m)
<1>1. /\ m.buffer \in Seq(Nat)
      /\ Within(g, Held(m)) /\ m.freed \subseteq 1..g.nodes /\ mapped \in 1..g.nodes
      /\ Held(m) = (1..mapped) \union Buffered(m)
      /\ \A i \in 1..Len(m.buffer) : m.buffer[i] > mapped
  BY Zenon DEF Buffering
<1>2. g.nodes \in Nat /\ Held(m) \subseteq 1..g.nodes
  BY <1>1, Zenon DEF Within
<1>3. \A s \in Buffered(m) : s \notin 1..mapped
  <2>1. DOMAIN m.buffer = 1..Len(m.buffer)
    BY <1>1, LenProperties
  <2>2. \A i \in 1..Len(m.buffer) : m.buffer[i] \in Nat /\ m.buffer[i] > mapped
    BY <1>1, ElementOfSeq
  <2>3. QED
    BY <2>1, <2>2 DEF Buffered
<1> HIDE DEF g
<1>4. Within(h, Held(m) \ Buffered(m)) /\ h.nodes = g.nodes
  BY <1>1, RemovedWithin
<1>5. a = [graph |-> h, buffer |-> <<>>, freed |-> m.freed \union Buffered(m), running |-> <<>>]
  BY DEF ClearLocalizationBuffer, g
<1> HIDE DEF h, a
<1>6. /\ DOMAIN a = {"graph", "buffer", "freed", "running"} /\ a.graph = h /\ a.buffer = <<>>
      /\ a.running = <<>> /\ a.freed = m.freed \union Buffered(m)
  BY <1>5
<1>7. Held(a) = 1..mapped /\ Held(m) \ Buffered(m) = 1..mapped
  <2>1. Held(a) = Held(m) \ Buffered(m)
    BY <1>4, <1>6 DEF Held, g
  <2>2. QED
    BY <1>1, <1>3, <2>1
<1>8. Buffered(a) = {}
  BY <1>6 DEF Buffered
<1>9. <<>> \in Seq(Nat) /\ Len(<<>>) = 0 /\ 0 <= BufferSize
  BY BufferAssumption
<1>10. Aligned(<<>>, <<>>, mapped)
  BY DEF Aligned
<1>11. a.freed \subseteq 1..h.nodes /\ mapped \in 1..h.nodes
  BY <1>1, <1>2, <1>4, <1>6
<1>12. \A i \in 1..Len(<<>>) : FALSE
  BY <1>9
<1>13. Buffering(a, mapped)
  BY <1>4, <1>6, <1>7, <1>8, <1>9, <1>10, <1>11, <1>12 DEF Buffering
<1>14. QED
  BY <1>6, <1>7, <1>9, <1>13 DEF Settled, a
LEMMA LocalizationsSettle ==
  ASSUME NEW mapped \in Nat \ {0}, NEW m, Settled(m, mapped), NEW a \in Localizations(m)
  PROVE  Settled(a, mapped)
<1> DEFINE cleared == ClearLocalizationBuffer(m)
<1>1. \/ \E near \in Near(m), closing \in Closing(m) : a = Localized(m, near, closing)
      \/ \E nearest \in Held(cleared), near \in Near(cleared) : a = Anchored(cleared, nearest, near, <<>>)
  BY DEF Localizations
<1>2. \A x : \A near \in Near(x) : near \in SUBSET Held(x)
  BY DEF Near
<1>3. ASSUME NEW near \in Near(m), NEW closing \in Closing(m), a = Localized(m, near, closing)
      PROVE  Settled(a, mapped)
  <2>1. Len(closing) \in Nat /\ \A k \in 1..Len(closing) : closing[k] \in Held(m)
    <3>1. CASE closing = <<>>
      BY <3>1
    <3>2. CASE \E s \in Held(m) : closing = <<s>>
      BY <3>2
    <3>3. QED
      BY <3>1, <3>2 DEF Closing
  <2>2. near \in SUBSET Held(m)
    BY <1>2
  <2>3. QED
    BY <1>3, <2>1, <2>2, LocalizedBuffers
<1>4. ASSUME NEW nearest \in Held(cleared), NEW near \in Near(cleared),
             a = Anchored(cleared, nearest, near, <<>>)
      PROVE  Settled(a, mapped)
  <2> DEFINE c == [cleared EXCEPT !.running = <<nearest>>]
  <2>1. Settled(cleared, mapped) /\ Held(cleared) = 1..mapped /\ cleared.buffer = <<>>
    BY ClearedBuffers DEF Settled
  <2>2. a = Localized(c, near, <<>>)
    BY <1>4, Zenon DEF Anchored
  <2>3. near \in SUBSET Held(cleared)
    BY <1>2
  <2> HIDE DEF cleared
  <2>4. /\ {"graph", "buffer", "freed", "running"} \subseteq DOMAIN cleared
        /\ Within(cleared.graph, Held(cleared)) /\ cleared.freed \subseteq 1..cleared.graph.nodes
        /\ mapped \in 1..cleared.graph.nodes
        /\ Held(cleared) = (1..mapped) \union Buffered(cleared)
    BY <2>1, Zenon DEF Settled, Buffering
  <2>5. /\ {"graph", "buffer", "freed", "running"} \subseteq DOMAIN c
        /\ c.graph = cleared.graph /\ c.freed = cleared.freed /\ c.buffer = <<>>
        /\ c.running = <<nearest>>
    BY <2>1, <2>4
  <2> HIDE DEF c
  <2>6. Held(c) = Held(cleared) /\ Buffered(c) = Buffered(cleared)
    BY <2>1, <2>5 DEF Held, Buffered
  <2>7. nearest \in 1..mapped /\ nearest \in Nat
    BY <2>1
  <2>8. c.running \in Seq(Nat) /\ Len(c.running) = 1 /\ c.running[1] = nearest
    BY <2>5, <2>7
  <2>9. c.buffer \in Seq(Nat) /\ Len(c.buffer) = 0
    BY <2>5
  <2>10. Aligned(c.running, c.buffer, mapped)
    BY <2>7, <2>8 DEF Aligned
  <2>11. 1 <= BufferSize /\ 0 <= BufferSize
    BY BufferAssumption
  <2>12. Settled(c, mapped)
    BY <2>4, <2>5, <2>6, <2>8, <2>9, <2>10, <2>11 DEF Settled, Buffering
  <2>13. Len(<<>>) \in Nat /\ \A k \in 1..Len(<<>>) : <<>>[k] \in Held(c)
    OBVIOUS
  <2>14. Settled(Localized(c, near, <<>>), mapped)
    BY <2>3, <2>6, <2>12, <2>13, LocalizedBuffers
  <2>15. QED
    BY <2>2, <2>14
<1>5. QED
  BY <1>1, <1>3, <1>4

\* The mappers there may be, scan after scan.
Localizes(after, mapped, scans) ==
  /\ after[0] = {RestoredMapper(mapped)} /\ Localizing(mapped, scans) = UNION {after[k] : k \in 0..scans}
  /\ \A k \in 1..scans : after[k] = UNION {Localizations(m) : m \in after[k - 1]}

LEMMA LocalizingLaw ==
  ASSUME NEW mapped, NEW scans \in Nat
  PROVE  \E after : Localizes(after, mapped, scans)
<1> DEFINE next(f, k) == IF k = 0 THEN {RestoredMapper(mapped)}
                         ELSE UNION {Localizations(m) : m \in f[k - 1]}
           Is(f, n) == f = [k \in 0..n |-> next(f, k)]
           none == {n \in Nat : ~\E f : Is(f, n)}
<1>1. none = {}
  <2>1. SUFFICES ASSUME none # {} PROVE FALSE
    OBVIOUS
  <2>2. PICK n \in none : \A m \in none : n <= m
    BY <2>1, Least
  <2>3. CASE n = 0
    <3>1. Is([k \in 0..0 |-> {RestoredMapper(mapped)}], 0)
      OBVIOUS
    <3>2. QED
      BY <2>2, <2>3, <3>1
  <2>4. CASE n # 0
    <3>1. n - 1 \in Nat /\ n - 1 \notin none
      <4>1. n \in Nat /\ n - 1 < n
        BY <2>2
      <4> HIDE DEF none
      <4>2. QED
        BY <2>2, <2>4, <4>1
    <3>2. PICK f : Is(f, n - 1)
      BY <3>1
    <3> DEFINE b == [k \in 0..n |-> IF k = n THEN UNION {Localizations(m) : m \in f[n - 1]} ELSE f[k]]
    <3>3. ASSUME NEW k \in 0..n PROVE b[k] = next(b, k)
      <4>1. CASE k = n
        <5>1. b[n - 1] = f[n - 1] /\ b[n] = UNION {Localizations(m) : m \in f[n - 1]}
          BY <2>4, <3>1
        <5> HIDE DEF b
        <5>2. QED
          BY <2>4, <4>1, <5>1
      <4>2. CASE k # n
        <5>1. k \in 0..n - 1 /\ f[k] = next(f, k)
          <6>1. k \in 0..n - 1
            BY <2>2, <4>2
          <6> HIDE DEF next
          <6>2. QED
            BY <3>2, <6>1, Zenon
        <5>2. k # 0 => k - 1 \in 0..n /\ k - 1 # n
          BY <5>1
        <5>3. k # 0 => b[k - 1] = f[k - 1]
          BY <5>2, Zenon
        <5>4. QED
          BY <4>2, <5>1, <5>3
      <4>3. QED
        BY <4>1, <4>2
    <3>4. b = [k \in 0..n |-> b[k]]
      OBVIOUS
    <3> HIDE DEF b
    <3>5. [k \in 0..n |-> b[k]] = [k \in 0..n |-> next(b, k)]
      BY <3>3
    <3>6. Is(b, n)
      BY <3>4, <3>5
    <3>7. QED
      BY <2>2, <3>6
  <2>5. QED
    BY <2>3, <2>4
<1> DEFINE after == CHOOSE f : Is(f, scans)
<1>2. Is(after, scans)
  BY <1>1
<1>3. Localizing(mapped, scans) = UNION {after[k] : k \in 0..scans}
  BY DEF Localizing
<1> HIDE DEF after
<1>4. /\ after[0] = {RestoredMapper(mapped)}
      /\ \A k \in 1..scans : after[k] = UNION {Localizations(m) : m \in after[k - 1]}
  BY <1>2
<1>5. QED
  BY <1>3, <1>4 DEF Localizes

LEMMA LocalizingSettles ==
  ASSUME NEW mapped \in Nat \ {0}, NEW scans \in Nat, NEW m \in Localizing(mapped, scans)
  PROVE  Settled(m, mapped)
<1>1. PICK after : Localizes(after, mapped, scans)
  BY LocalizingLaw
<1> DEFINE Kept(k) == \A x \in after[k] : Settled(x, mapped)
           broken == {k \in Nat : k <= scans /\ ~Kept(k)}
<1>2. Kept(0)
  BY <1>1, RestoredBuffers DEF Localizes, Settled
<1>3. ASSUME NEW k \in 1..scans, Kept(k - 1) PROVE Kept(k)
  <2>1. SUFFICES ASSUME NEW x \in after[k] PROVE Settled(x, mapped)
    OBVIOUS
  <2>2. PICK y \in after[k - 1] : x \in Localizations(y)
    BY <1>1, <2>1 DEF Localizes
  <2>3. Settled(y, mapped)
    BY <1>3
  <2>4. QED
    BY <2>2, <2>3, LocalizationsSettle
<1>4. broken = {}
  <2>1. SUFFICES ASSUME broken # {} PROVE FALSE
    OBVIOUS
  <2> HIDE DEF Kept
  <2>2. PICK k \in broken : \A j \in broken : k <= j
    BY <2>1, Least
  <2>3. k \in Nat /\ k <= scans /\ ~Kept(k)
    OBVIOUS
  <2>4. k # 0
    BY <1>2, <2>3
  <2>5. k \in 1..scans /\ k - 1 \in Nat /\ k - 1 <= scans /\ ~(k <= k - 1)
    BY <2>3, <2>4
  <2>6. Kept(k - 1)
    BY <2>2, <2>5
  <2>7. QED
    BY <1>3, <2>3, <2>5, <2>6
<1>5. PICK k \in 0..scans : m \in after[k]
  BY <1>1 DEF Localizes
<1>6. Kept(k)
  <2> HIDE DEF Kept
  <2>1. k \in Nat /\ k <= scans
    BY <1>5
  <2>2. QED
    BY <1>4, <2>1
<1>7. QED
  BY <1>5, <1>6

LEMMA SettledForgets ==
  ASSUME NEW mapped, NEW m, Settled(m, mapped)
  PROVE  FreedScansAreForgotten(m, mapped)
<1> DEFINE g == m.graph
<1>1. /\ m.buffer \in Seq(Nat) /\ m.running \in Seq(Nat) /\ Len(m.buffer) <= BufferSize
      /\ Within(g, Held(m)) /\ Held(m) = (1..mapped) \union Buffered(m)
      /\ Aligned(m.running, m.buffer, mapped)
  BY Zenon DEF Settled, Buffering
<1>2. /\ g.known \subseteq Held(m) /\ g.corrections = NoCorrections
      /\ \A e \in g.edges : Ends(e) \subseteq Held(m)
      /\ g.constraints \subseteq g.edges /\ g.bound \subseteq g.edges
  BY <1>1, Zenon DEF Within, IsGraph
<1>3. g.corrections.nodes = {}
  BY <1>2, NothingCorrected
<1>4. UNION {Ends(e) : e \in g.edges \union g.constraints \union g.bound} \subseteq Held(m)
  BY <1>2
<1>5. ASSUME NEW i \in DOMAIN m.running PROVE m.running[i] \in Held(m)
  <2>1. i \in 1..Len(m.running) /\ DOMAIN m.buffer = 1..Len(m.buffer)
    BY <1>1, LenProperties
  <2>2. CASE m.running[i] \in 1..mapped
    BY <1>1, <2>2
  <2>3. CASE \E j \in 1..Len(m.buffer) : m.running[i] = m.buffer[j]
    BY <1>1, <2>1, <2>3 DEF Buffered
  <2>4. QED
    BY <1>1, <2>1, <2>2, <2>3 DEF Aligned
<1>6. QED
  BY <1>1, <1>2, <1>3, <1>4, <1>5 DEF FreedScansAreForgotten

\* However many scans a process localizes on a map of any size, with initial poses between
\* them: no edge, no constraint, no pose of the solver and no running scan refers to one
\* that Karto's mapper has freed, before and after the buffer is cleared; the map's own
\* scans stay, and no more than the buffer holds of the others.
THEOREM FreedScansStayForgotten ==
  \A mapped \in Nat \ {0}, scans \in Nat : \A m \in Localizing(mapped, scans) :
    FreedScansAreForgotten(m, mapped) /\ FreedScansAreForgotten(ClearLocalizationBuffer(m), mapped)
<1>1. SUFFICES ASSUME NEW mapped \in Nat \ {0}, NEW scans \in Nat, NEW m \in Localizing(mapped, scans)
               PROVE  /\ FreedScansAreForgotten(m, mapped)
                      /\ FreedScansAreForgotten(ClearLocalizationBuffer(m), mapped)
  OBVIOUS
<1>2. Settled(m, mapped)
  BY LocalizingSettles
<1>3. Settled(ClearLocalizationBuffer(m), mapped)
  BY <1>2, ClearedBuffers DEF Settled
<1>4. QED
  BY <1>2, <1>3, SettledForgets

\* The map and the scans that the mapping run takes.
LEMMA SmallBuffersForget == BuffersForget
<1>1. 2 \in Nat \ {0} /\ 4 \in Nat
  OBVIOUS
<1>2. QED
  BY <1>1, FreedScansStayForgotten DEF BuffersForget
=============================================================================
