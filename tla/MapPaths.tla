------------------------------ MODULE MapPaths ------------------------------
(***************************************************************************)
(* Where the programs look for the map.  The scripts know the project's    *)
(* directory, a flow names a map relative to the applications' directory,  *)
(* and a node takes what is relative from the directory it runs in.  The   *)
(* run scripts make some of a flow's names absolute, by keys of their own: *)
(* the planner's among them, Karto's prefix not.                           *)
(*                                                                         *)
(* A directory is a sequence of names.  A name of a file or directory goes *)
(* a number of directories up and from there down, or is absolute.         *)
(***************************************************************************)
EXTENDS MissionSettings, Sequences

Absolute == -1
Name(up, down) == [up |-> up, down |-> down]

Resolve(dir, name) ==
  IF name.up = Absolute THEN name.down
  ELSE SubSeq(dir, 1, Len(dir) - name.up) \o name.down

-----------------------------------------------------------------------------
\* The scripts: ROOT is two directories above APP_DIR, which is where they lie.

AppDir(root) == root \o <<"apps", "adora_nano_navigation">>
MapDir(root) == root \o <<"mapping", "maps">>
MapName(root) == MapDir(root) \o <<"ms200_keyboard_map">>

\* What starts with a dot is made absolute, of the keys that the script knows.
absolutize_paths(keys, root, env) ==
  [key \in DOMAIN env |->
     IF key \in keys /\ env[key].up > 0 THEN Name(Absolute, Resolve(AppDir(root), env[key]))
     ELSE env[key]]

navigation_paths(root, env) ==
  absolutize_paths({"MAP_YAML_PATH", "MAP_PATH_PREFIX", "GRAPH_PATH"}, root, env)
mapping_paths(root, env) == absolutize_paths({"MAP_PATH_PREFIX"}, root, env)

Extension == {"pgm", "yaml", "metadata.json", "posegraph.dora"}
Named(base, extensions) == {<<base, extension>> : extension \in extensions}

\* What a clean mapping moves away, and what the preflight looks for.
MovedAway(root) == Named(MapName(root), Extension)
LookedFor(root) == Named(MapName(root), {"yaml", "pgm", "posegraph.dora"})

-----------------------------------------------------------------------------
\* The nodes, from the directory they run in.

\* Karto saves all of a map under its prefix, and loads the archive from there.
KartoFiles(cwd, env) ==
  Named(Resolve(cwd, Setting(env, "MAP_PREFIX", Name(0, <<"map">>))), Extension)

PlannerFile(cwd, env) ==
  <<Resolve(cwd, Setting(env, "MAP_YAML_PATH", Name(0, <<"map", "test_map">>))), "yaml">>

\* Of every flow.
InMaps == Name(2, <<"mapping", "maps", "ms200_keyboard_map">>)
KartoPaths == [MAP_PREFIX |-> InMaps]
PlannerPaths == [MAP_YAML_PATH |-> InMaps]

\* dora runs the nodes of a flow where it was started: the scripts start it in APP_DIR.
RunIn(root) == AppDir(root)

-----------------------------------------------------------------------------
\* Wherever the project lies: a mapping session saves the files that a clean one moves away,
\* a localizing one loads what the preflight looked for, and the planner reads the map that
\* was saved, in any directory it may run in.
MapIsOne ==
  \A root, cwd \in {<<>>, <<"home">>, <<"home", "robot", "dora">>} :
    LET saved == KartoFiles(RunIn(root), mapping_paths(root, KartoPaths))
        loaded == KartoFiles(RunIn(root), navigation_paths(root, KartoPaths))
    IN /\ saved = MovedAway(root) /\ loaded = saved
       /\ LookedFor(root) \subseteq saved
       /\ PlannerFile(cwd, navigation_paths(root, PlannerPaths)) \in saved
=============================================================================
