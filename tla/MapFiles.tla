------------------------------ MODULE MapFiles ------------------------------
(***************************************************************************)
(* The saved map: the pose graph, the grid image, its YAML and its         *)
(* metadata on disk, and the programs that write and read them: a mapping  *)
(* session (run_mapping.py), navigation on the saved map                   *)
(* (run_navigation.py), finalize_map.py and sync_map_metadata.py.          *)
(*                                                                         *)
(* A program is the queue `todo' of what it has left to do; each step is   *)
(* one file renamed, moved or removed, and the program or the machine may  *)
(* stop between any two.  The operator runs one program at a time.  A      *)
(* rename is atomic and survives a power loss; data that nobody flushed    *)
(* does not, and its file is left empty.                                   *)
(***************************************************************************)
EXTENDS GraphArchive, LocalizationBuffer, SequencesExt

CONSTANTS
  MaxFrames,           \* maps begun
  MaxSaves,            \* saves of a pose graph begun
  MaxFaults            \* crashes, power losses and writes that fail

ASSUME FilesAssumption == MaxFrames \in Nat /\ MaxSaves \in Nat /\ MaxFaults \in Nat

VARIABLES
  disk,                \* [File -> contents]
  unflushed,           \* files written since the last flush
  karto,               \* the mapping process: [on, frame, graph]
  todo,                \* of the running program
  saved,               \* it has saved a whole map
  frames, saves, faults

vars == <<disk, unflushed, karto, todo, saved, frames, saves, faults>>

\* Mutant: the pose graph is moved first.
Artifacts_GraphFirst == <<"graph", "pgm", "yaml", "meta">>

\* In the order of MAP_ARTIFACTS, the pose graph last.
Artifacts == <<"pgm", "yaml", "meta", "graph">>

\* The two files that sync_map_metadata keeps in step.
Auxiliary == <<"keyboard", "readonly">>

File == ToSet(Artifacts) \union ToSet(Auxiliary) \union {"generated"}

None == [is |-> "absent"]
Torn == [is |-> "empty"]           \* after a power loss
Shipped == [is |-> "as shipped"]   \* an auxiliary flow, with the repository's metadata
Made == [is |-> "made"]            \* a generated flow, with the metadata of its time

Whole(file) == disk[file] \notin {None, Torn}

\* The two files that say where and how large the map is; reading an empty one raises.
Metadata == [yaml |-> disk["yaml"], pgm |-> disk["pgm"]]
MetadataRead == Whole("yaml") /\ Whole("pgm")

\* The files a session on the saved map needs: they must be there, and an empty file is.
Required(mode) == {"yaml", "pgm"} \union (IF mode = "localize" THEN {"graph"} ELSE {})

ReadyFor(mode) == \A f \in Required(mode) : disk[f] # None

Off == [on |-> FALSE, frame |-> 0, graph |-> EmptyGraph]

Put(file, content) == [op |-> "put", file |-> file, content |-> content]
Save(file, content) == [op |-> "save", file |-> file, content |-> content]
Do(op, file) == [op |-> op, file |-> file]

FilesInit ==
  /\ disk = [f \in File |-> IF f \in ToSet(Auxiliary) THEN Shipped ELSE None]
  /\ unflushed = {} /\ karto = Off /\ todo = <<>> /\ saved = FALSE
  /\ frames = 0 /\ saves = 0 /\ faults = 0

-----------------------------------------------------------------------------
\* The programs start.

Idle == todo = <<>> /\ ~karto.on

\* Begin a program with these steps.
Begin(steps) ==
  /\ Idle
  /\ todo' = steps /\ saved' = FALSE
  /\ UNCHANGED <<disk, unflushed, karto, frames, saves, faults>>

\* run_mapping: --clean moves the map away, before the checks and for a dry run too.
RunMapping(mode, dry) ==
  /\ mode = "continue" => disk["graph"] # None
  /\ dry => mode = "clean"
  /\ Begin((IF mode = "clean" THEN [i \in 1..4 |-> Do("move", Artifacts[i])] ELSE <<>>)
           \o (IF dry THEN <<>>
               ELSE <<Do("launch", IF mode = "continue" THEN mode ELSE "new"),
                      Do("sync", "generated")>>))

\* The flows with a node initial_pose_control; that of --slam has none, and find_node
\* raises before a file is written.
TakesInitialPose(mode) == mode \in {"localize", "navigation"}

\* run_navigation: the metadata go into the generated flow if both files are there.  The
\* flow is written before the preflight; a session on the saved map changes no file.
RunNavigation(mode, force) ==
  /\ mode = "localize" /\ ~force => ReadyFor(mode)
  /\ None \notin {disk["yaml"], disk["pgm"]} => MetadataRead
  /\ TakesInitialPose(mode)
  /\ Begin(<<Put("generated", Made)>>)

Cropped(content) == [content EXCEPT !.crop = TRUE]

\* finalize_map: a map that has nothing to crop, or no more, is left alone.
Finalize(crops) ==
  /\ MetadataRead
  /\ crops => ~disk["pgm"].crop
  /\ Begin((IF crops THEN <<Put("pgm", Cropped(disk["pgm"])), Put("yaml", Cropped(disk["yaml"]))>>
            ELSE <<>>)
           \o <<Do("sync", "generated")>>)

\* sync_map_metadata on its own.
SyncMap == Begin(<<Do("sync", "generated")>>)

\* clean removes the generated flows.
CleanRuntime == Begin(<<Do("unlink", "generated")>>)

-----------------------------------------------------------------------------
\* The steps of a program.

\* The next step is one of this kind.
Due(op) == ~karto.on /\ todo # <<>> /\ Head(todo).op = op

Written(file, content) ==
  /\ disk' = [disk EXCEPT ![file] = content]
  /\ unflushed' = unflushed \union {file}

\* A file goes to a directory of maps/backups of its own.
Move ==
  /\ Due("move")
  /\ disk' = [disk EXCEPT ![Head(todo).file] = None]
  /\ todo' = Tail(todo)
  /\ UNCHANGED <<unflushed, karto, saved, frames, saves, faults>>

\* A file is replaced.  The auxiliary flows are read first: an empty one raises, and the
\* program ends.
PutFile ==
  /\ Due("put")
  /\ LET step == Head(todo)
     IN IF step.file \in ToSet(Auxiliary) /\ ~Whole(step.file)
        THEN todo' = <<>> /\ UNCHANGED <<disk, unflushed>>
        ELSE todo' = Tail(todo) /\ Written(step.file, step.content)
  /\ UNCHANGED <<karto, saved, frames, saves, faults>>

\* Mutant: one of the auxiliary flows is forgotten.
Sync_OneFlow ==
  /\ Due("sync")
  /\ todo' = IF MetadataRead
             THEN <<Put("readonly", Metadata), Do("unlink", "generated")>> ELSE <<>>
  /\ UNCHANGED <<disk, unflushed, karto, saved, frames, saves, faults>>

\* The metadata are read, then the auxiliary flows are rewritten and the generated flow
\* is removed.
Sync ==
  /\ Due("sync")
  /\ todo' = IF MetadataRead
             THEN [i \in 1..2 |-> Put(Auxiliary[i], Metadata)] \o <<Do("unlink", "generated")>>
             ELSE <<>>
  /\ UNCHANGED <<disk, unflushed, karto, saved, frames, saves, faults>>

Unlink ==
  /\ Due("unlink")
  /\ disk' = [disk EXCEPT !["generated"] = None]
  /\ todo' = Tail(todo)
  /\ UNCHANGED <<unflushed, karto, saved, frames, saves, faults>>

-----------------------------------------------------------------------------
\* The mapping process.

\* The preflight, the flow or the archive may refuse: the program ends.
LaunchRefused ==
  /\ Due("launch")
  /\ todo' = <<>>
  /\ UNCHANGED <<disk, unflushed, karto, saved, frames, saves, faults>>

LaunchNew ==
  /\ Due("launch") /\ Head(todo).file = "new"
  /\ frames < MaxFrames /\ saves < MaxSaves
  /\ karto' = [on |-> TRUE, frame |-> frames + 1, graph |-> EmptyGraph]
  /\ frames' = frames + 1 /\ todo' = Tail(todo)
  /\ UNCHANGED <<disk, unflushed, saved, saves, faults>>

\* Restore takes every archived scan back; if it cannot, it throws (LaunchRefused).
LaunchContinue ==
  /\ Due("launch") /\ Head(todo).file = "continue" /\ Whole("graph")
  /\ saves < MaxSaves
  /\ \E near \in BOOLEAN :
       karto' = [on |-> TRUE, frame |-> disk["graph"].frame,
                 graph |-> Restored(disk["graph"].nodes,
                                    [i \in 1..disk["graph"].nodes |-> IF near /\ i > 2 THEN {i - 2} ELSE {}])]
  /\ todo' = Tail(todo)
  /\ UNCHANGED <<disk, unflushed, saved, frames, saves, faults>>

ScanAccepted ==
  /\ karto.on /\ karto.graph.nodes < MaxNodes
  /\ \E around \in Surroundings(karto.graph), usable \in BOOLEAN :
       karto' = [karto EXCEPT !.graph = Process(@, around[1], around[2], usable)]
  /\ UNCHANGED <<disk, unflushed, todo, saved, frames, saves, faults>>

\* Save: the graph is synced to disk by itself, then the map that is drawn from it.
SaveSteps(map) == <<Save("graph", map), Save("pgm", map), Save("yaml", map), Save("meta", map)>>

\* The Stop event: a graph without scans is not saved.
Stop ==
  /\ karto.on
  /\ IF karto.graph.nodes = 0 THEN todo' = todo /\ saves' = saves
     ELSE /\ saves' = saves + 1
          /\ todo' = SaveSteps([frame |-> karto.frame, save |-> saves + 1,
                                nodes |-> karto.graph.nodes, crop |-> FALSE]) \o todo
  /\ karto' = Off
  /\ UNCHANGED <<disk, unflushed, saved, frames, faults>>

\* The events end without a Stop, and main returns 0; or an output cannot be sent, and it
\* returns 1, after which run_mapping does not sync.
EventsEnd ==
  /\ karto.on /\ faults < MaxFaults
  /\ faults' = faults + 1 /\ karto' = Off /\ todo' \in {todo, <<>>}
  /\ UNCHANGED <<disk, unflushed, saved, frames, saves>>

\* Mutant: the archive is not synced to disk.
SaveFile_Unsynced ==
  /\ Due("save")
  /\ LET step == Head(todo)
     IN Written(step.file, step.content) /\ saved' = (saved \/ step.file = "meta")
  /\ todo' = Tail(todo)
  /\ UNCHANGED <<karto, frames, saves, faults>>

SaveFile ==
  /\ Due("save")
  /\ LET step == Head(todo)
     IN /\ disk' = [disk EXCEPT ![step.file] = step.content]
        /\ unflushed' = IF step.file = "graph" THEN unflushed \ {"graph"}
                        ELSE unflushed \union {step.file}
        /\ saved' = (saved \/ step.file = "meta")
  /\ todo' = Tail(todo)
  /\ UNCHANGED <<karto, frames, saves, faults>>

\* Stop catches what a write throws, and the program goes on with a part of the save.
SaveFails ==
  /\ Due("save") /\ faults < MaxFaults
  /\ faults' = faults + 1
  /\ \E n \in DOMAIN todo : /\ \A i \in DOMAIN todo : todo[i].op = "save" <=> i <= n
                           /\ todo' = SubSeq(todo, n + 1, Len(todo))
  /\ UNCHANGED <<disk, unflushed, karto, saved, frames, saves>>

-----------------------------------------------------------------------------
\* Everything stops; at a power loss some of what was not flushed is gone.
Crash ==
  /\ ~Idle /\ faults < MaxFaults
  /\ faults' = faults + 1 /\ karto' = Off /\ todo' = <<>>
  /\ UNCHANGED <<disk, unflushed, saved, frames, saves>>

PowerLoss ==
  /\ unflushed # {} /\ faults < MaxFaults
  /\ \E lost \in SUBSET unflushed :
       disk' = [f \in File |-> IF f \in lost /\ disk[f] # None THEN Torn ELSE disk[f]]
  /\ unflushed' = {} /\ karto' = Off /\ todo' = <<>> /\ faults' = faults + 1
  /\ UNCHANGED <<saved, frames, saves>>

Flushed ==
  /\ unflushed # {} /\ unflushed' = {}
  /\ UNCHANGED <<disk, karto, todo, saved, frames, saves, faults>>

Programs ==
  \/ \E mode \in {"clean", "continue", "new"}, dry \in BOOLEAN : RunMapping(mode, dry)
  \/ \E mode \in {"slam", "localize", "navigation"}, force \in BOOLEAN :
       RunNavigation(mode, force)
  \/ \E crops \in BOOLEAN : Finalize(crops)
  \/ SyncMap \/ CleanRuntime

FilesNext ==
  \/ Programs \/ Move \/ PutFile \/ Sync \/ Unlink
  \/ LaunchRefused \/ LaunchNew \/ LaunchContinue \/ ScanAccepted \/ Stop
  \/ SaveFile \/ SaveFails \/ EventsEnd \/ Crash \/ PowerLoss \/ Flushed

FilesSpec == FilesInit /\ [][FilesNext]_vars

-----------------------------------------------------------------------------
\* Whatever stops where, a map on disk is never newer than the pose graph beside it: the
\* graph is saved first and moved away last, so no map is left without the graph that
\* --continue and localization need.
SavesTrail ==
  \A f \in {"pgm", "yaml", "meta"} :
    Whole(f) => /\ Whole("graph")
                /\ \/ disk[f].frame < disk["graph"].frame
                   \/ disk[f].frame = disk["graph"].frame /\ disk[f].save <= disk["graph"].save

\* A saved pose graph goes only to the backups or, whole, to a graph of another map or to
\* one of the same map that has all its scans.
KeyframesAreKept ==
  [][disk["graph"] # None /\ disk'["graph"] # disk["graph"]
       => \/ Move
          \/ /\ disk'["graph"] \notin {None, Torn}
             /\ disk'["graph"].frame = disk["graph"].frame
                  => disk'["graph"].nodes >= disk["graph"].nodes]_vars

\* The files of one map, with the flows made from them, none of them stale.
Agree ==
  /\ \A f \in ToSet(Artifacts) : Whole(f)
  /\ \A f \in ToSet(Artifacts) : disk[f] = disk["graph"]
  /\ \A f \in ToSet(Auxiliary) : disk[f] = Metadata
  /\ disk["generated"] = None

\* A mapping session that saves and is not stopped leaves all files in agreement,
\* whatever was left on disk before it.
SavedSessionsAgree == [][Unlink /\ saved => Agree']_vars

\* Every graph the process works on: its first loop holds, and a scan keeps the pose its
\* last loop gave it when the solver finds no solution.
FirstLoopHolds == HoldsFirstLoop(karto.graph)
UnsolvedScansStay == KeepsPoseUnsolved(karto.graph)

\* The archive of any of them tells its readers all of it; and a process that localizes on
\* a restored graph frees no scan that it still uses.
ArchivesTellAll == TellsAll(karto.graph) /\ BuffersForget

\* The poses satisfy every loop that was closed.
LoopsStayBound == Loops(karto.graph) \subseteq karto.graph.bound
=============================================================================
