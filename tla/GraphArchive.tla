--------------------------- MODULE GraphArchive ---------------------------
(***************************************************************************)
(* What of a pose graph is in its archive, and what the readers of the     *)
(* archive make of it: the mapper, the map's metadata and the quality      *)
(* report.  Poses, points and information matrices are left out.           *)
(***************************************************************************)
EXTENDS PoseGraph

\* The scans in order, the constraints by kind, and the solver's last report.
Snapshot(graph) ==
  LET Of(kind) == Cardinality({e \in graph.edges : e.kind = kind})
  IN [nodes |-> [i \in 1..graph.nodes |-> i], constraints |-> graph.edges,
      sequential |-> Of("sequential"), nearChain |-> Of("near"), loopClosures |-> Of("loop"),
      solver |-> graph.report]

\* Mutant: near chains fall through to the next category.
Category_FallsThrough(kind) == IF kind = "sequential" THEN "sequential" ELSE "loop_closure"

Category(kind) ==
  CASE kind = "sequential" -> "sequential"
    [] kind = "near" -> "near_chain"
    [] kind = "loop" -> "loop_closure"

ArchiveFromSnapshot(snapshot) ==
  [scans |-> snapshot.nodes,
   constraints |-> {[source |-> e.from, target |-> e.to, category |-> Category(e.kind),
                     loop |-> e.kind = "loop"] : e \in snapshot.constraints},
   solver |-> [nodes |-> Len(snapshot.nodes), constraints |-> Cardinality(snapshot.constraints),
               loops |-> snapshot.loopClosures, converged |-> snapshot.solver = "Converged",
               status |-> snapshot.solver]]

StatusName(status) ==
  CASE status = "NotRun" -> "not_run"
    [] status = "Converged" -> "converged"
    [] status = "Failed" -> "failed"

ReadStatus(name) == CHOOSE status \in SolverStatus : StatusName(status) = name

\* The file's JSON, the checksum being over the payload.
Serialized(archive) ==
  LET payload == [archive EXCEPT !.solver.status = StatusName(@)]
  IN [version |-> 2, payload |-> payload, checksum |-> payload]

Readable(file) == file.version \in {1, 2} /\ file.checksum = file.payload

\* LoadArchive: files of the first version only flag loops and have no status.
Loaded(file) ==
  LET CategoryOf(c) == CASE file.version = 2 -> c.category
                         [] file.version = 1 /\ c.loop -> "loop_closure"
                         [] file.version = 1 /\ ~c.loop -> "sequential"
  IN [file.payload EXCEPT
        !.constraints = {[c EXCEPT !.category = CategoryOf(c),
                                   !.loop = CategoryOf(c) = "loop_closure"] : c \in @},
        !.solver.status = IF file.version = 2 THEN ReadStatus(@) ELSE "NotRun"]

\* The constraints of an archive in a category.
In(category, archive) == Cardinality({c \in archive.constraints : c.category = category})

\* The metadata beside the map, with names of its own for the status.
Summary(archive) ==
  [scans |-> Len(archive.scans), constraints |-> Cardinality(archive.constraints),
   sequential |-> In("sequential", archive), nearChain |-> In("near_chain", archive),
   loops |-> In("loop_closure", archive),
   status |-> IF archive.solver.status = "Converged" THEN "converged"
              ELSE IF archive.solver.status = "Failed" THEN "failed" ELSE "not_run"]

\* graph_stats of the quality report, which reads the file on its own.
GraphStats(file) ==
  [keyframes |-> Len(file.payload.scans), constraints |-> Cardinality(file.payload.constraints),
   loopClosures |-> file.payload.solver.loops,
   odomConstraints |-> In("sequential", file.payload),
   loopConstraints |-> In("loop_closure", file.payload), status |-> file.payload.solver.status]

-----------------------------------------------------------------------------
\* Whatever graph is saved: read back it is the same archive, and every reader sees every
\* scan, every edge as what it is, and whether the solver converged.
TellsAll(graph) ==
  LET archive == ArchiveFromSnapshot(Snapshot(graph))
      file == Serialized(archive)
      summary == Summary(archive)
      stats == GraphStats(file)
      Count(kind) == Cardinality({e \in graph.edges : e.kind = kind})
  IN /\ Readable(file) /\ Loaded(file) = archive
     /\ {<<c.source, c.target>> : c \in archive.constraints} = {<<e.from, e.to>> : e \in graph.edges}
     /\ summary.scans = graph.nodes /\ stats.keyframes = graph.nodes
     /\ summary.sequential = Count("sequential") /\ stats.odomConstraints = summary.sequential
     /\ summary.loops = Count("loop") /\ stats.loopConstraints = summary.loops
     /\ stats.loopClosures = Count("loop") /\ summary.nearChain = Count("near")
     /\ summary.status = stats.status /\ ReadStatus(stats.status) = graph.report
=============================================================================
