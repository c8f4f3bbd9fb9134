------------------------- MODULE LocalizationBuffer -------------------------
(***************************************************************************)
(* Karto's mapper while it localizes: scans are added to the restored      *)
(* graph as if it was mapped on, and the oldest of them are taken out and  *)
(* freed again.  Four keepers hold scans: the graph, the solver, the       *)
(* running scans that the next one is matched with, and the buffer that    *)
(* says which to free; a scan that one of them keeps too long is a pointer *)
(* to freed memory.                                                        *)
(***************************************************************************)
EXTENDS PoseGraph

CONSTANT
  BufferSize           \* SCAN_BUFFER_SIZE, ten in the flows: the limit of both buffers

ASSUME BufferAssumption == BufferSize \in Nat \ {0}

\* Of the solver, which is told of the edges and of the scans that are removed.
RemoveConstraints(graph, cut) ==
  [graph EXCEPT !.constraints = {c \in @ : \A e \in cut : Ends(c) # Ends(e)}]

Clears(scans, edges) == {e \in edges : Ends(e) \intersect scans = {}}

RemoveNodes(graph, scans) ==
  [graph EXCEPT !.known = @ \ scans,
                !.constraints = Clears(scans, @),
                !.corrections = [nodes |-> @.nodes \ scans, edges |-> Clears(scans, @.edges)]]

\* Of Karto's mapper: the edges first, then the scans.
RemoveNodesFromGraph(graph, scans) ==
  LET cut == graph.edges \ Clears(scans, graph.edges)
  IN RemoveNodes([RemoveConstraints(graph, cut) EXCEPT !.edges = @ \ cut, !.bound = @ \ cut], scans)

\* After Restore of so many scans, which stay: none is in the buffer.
RestoredMapper(mapped) ==
  [graph |-> Restored(mapped, [i \in 1..mapped |-> {}]),
   buffer |-> <<>>, freed |-> {}, running |-> <<mapped>>]

Forget(mapper, scan) ==
  [mapper EXCEPT !.graph = RemoveNodesFromGraph(@, {scan}),
                 !.buffer = Tail(@), !.freed = @ \union {scan}]

Latest(seq) == IF Len(seq) > BufferSize THEN Tail(seq) ELSE seq

\* A scan whose predecessor is freed is linked to nothing.
Linked(mapper, near) ==
  IF mapper.graph.nodes \in mapper.freed THEN AddVertex(mapper.graph)
  ELSE AddEdges(AddVertex(mapper.graph), near)

\* ProcessLocalization of an accepted scan, up to the buffer.
Added(mapper, near, closing) ==
  LET scan == mapper.graph.nodes + 1
  IN [mapper EXCEPT
        !.graph = CloseLoops(Linked(mapper, near), closing, TRUE),
        !.running = Latest(Append(@, scan)), !.buffer = Append(@, scan)]

AddScanToLocalizationBuffer(mapper) ==
  IF Len(mapper.buffer) > BufferSize THEN Forget(mapper, Head(mapper.buffer)) ELSE mapper

Localized(mapper, near, closing) == AddScanToLocalizationBuffer(Added(mapper, near, closing))

Buffered(mapper) == {mapper.buffer[i] : i \in DOMAIN mapper.buffer}

\* SetInitialPose forgets what was localized.
ClearLocalizationBuffer(mapper) ==
  [graph |-> RemoveNodesFromGraph(mapper.graph, Buffered(mapper)),
   buffer |-> <<>>, freed |-> mapper.freed \union Buffered(mapper), running |-> <<>>]

\* ProcessAgainstNodesNearBy: the next scan is matched with the nearest that there is.
Anchored(mapper, nearest, near, closing) ==
  Localized([mapper EXCEPT !.running = <<nearest>>], near, closing)

-----------------------------------------------------------------------------
Held(mapper) == (1..mapper.graph.nodes) \ mapper.freed

Near(mapper) == {{}} \union {{s} : s \in Held(mapper)}
Closing(mapper) == {<<>>} \union {<<s>> : s \in Held(mapper)}

\* A scan localized where nothing or one of the others is near, with or without closing a
\* loop on one; or the first one after an initial pose.
Localizations(mapper) ==
  LET cleared == ClearLocalizationBuffer(mapper)
  IN {Localized(mapper, near, closing) : near \in Near(mapper), closing \in Closing(mapper)}
       \union {Anchored(cleared, nearest, near, <<>>) :
                  nearest \in Held(cleared), near \in Near(cleared)}

\* After so many scans.
Localizing(mapped, scans) ==
  LET after[k \in 0..scans] == IF k = 0 THEN {RestoredMapper(mapped)}
                               ELSE UNION {Localizations(m) : m \in after[k - 1]}
  IN UNION {after[k] : k \in 0..scans}

\* Whatever was localized, nothing refers to a scan that is freed: no edge, no constraint
\* and no pose of the solver, and none of the running scans.  The map's own scans stay, and
\* of the others no more than the buffer holds.
FreedScansAreForgotten(mapper, mapped) ==
  LET graph == mapper.graph
  IN /\ UNION {Ends(e) : e \in graph.edges \union graph.constraints \union graph.bound} \subseteq Held(mapper)
     /\ graph.known \union graph.corrections.nodes \subseteq Held(mapper)
     /\ \A i \in DOMAIN mapper.running : mapper.running[i] \in Held(mapper)
     /\ Held(mapper) = (1..mapped) \union Buffered(mapper)
     /\ Len(mapper.buffer) <= BufferSize

\* Of a small map, for four scans and the initial poses between them.
BuffersForget ==
  \A mapper \in Localizing(2, 4) :
    FreedScansAreForgotten(mapper, 2) /\ FreedScansAreForgotten(ClearLocalizationBuffer(mapper), 2)
=============================================================================
