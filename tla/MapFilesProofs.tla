--------------------------- MODULE MapFilesProofs ---------------------------
(***************************************************************************)
(* What is on disk whatever stops where, for any number of scans, maps,    *)
(* saves and faults.  The invariant says where in its program the queue    *)
(* `todo' is, and what the steps before that place have left on disk.      *)
(***************************************************************************)
EXTENDS MapFiles, PoseGraphProofs, SequenceTheorems, TLAPS

\* The files of a map other than its graph, and the order they are all saved in.
Drawn == {"pgm", "yaml", "meta"}
SaveOrder == <<"graph", "pgm", "yaml", "meta">>

\* A map's files hold the number of the map and the number of the save they are of.
IsMap(c) == {"frame", "save"} \subseteq DOMAIN c /\ c.frame \in Nat /\ c.save \in Nat

NoNewer(c, d) == c.frame < d.frame \/ (c.frame = d.frame /\ c.save <= d.save)

\* The graph is never the file a power loss empties, and no file is of a map or a save
\* that is not begun.
OnDisk ==
  /\ disk = [f \in File |-> disk[f]]
  /\ frames \in Nat /\ saves \in Nat
  /\ \A f \in Drawn \union {"graph"} :
       Whole(f) => IsMap(disk[f]) /\ disk[f].frame <= frames /\ disk[f].save <= saves
  /\ "graph" \notin unflushed /\ disk["graph"] # Torn

\* A process that maps is on a map no older than any on disk, and is to be followed by
\* the sync alone.
InProcess ==
  /\ karto = [on |-> karto.on, frame |-> karto.frame, graph |-> karto.graph]
  /\ karto.on => /\ karto.frame \in Nat /\ karto.frame <= frames
                 /\ \A f \in Drawn \union {"graph"} : Whole(f) => disk[f].frame <= karto.frame
                 /\ Len(todo) = 1 /\ todo[1] = Do("sync", "generated")
                 /\ ~saved

IsQueue(q) == q \in Seq({q[i] : i \in DOMAIN q})

\* All files are of one save.
Level == \A f \in Drawn \union {"graph"} : Whole(f) /\ disk[f] = disk["graph"]

\* The places a program may be at.  Moving: the files before the k-th are gone.
Launching(at) ==
  /\ Len(todo) = at + 1
  /\ todo[at] \in {Do("launch", "new"), Do("launch", "continue")}
  /\ todo[at + 1] = Do("sync", "generated")

Moving(k) ==
  /\ Len(todo) = 5 - k \/ Launching(6 - k)
  /\ \A i \in 1..5 - k : todo[i] = Do("move", Artifacts[k - 1 + i])
  /\ \A j \in 1..k - 1 : disk[Artifacts[j]] = None
  /\ ~saved

\* Saving: the files before the k-th are of this save, and none is of a newer one.
Saving(k) ==
  LET map == todo[1].content
  IN /\ Len(todo) = 6 - k /\ todo[6 - k] = Do("sync", "generated")
     /\ \A i \in 1..5 - k : todo[i].op = "save" /\ todo[i] = Save(SaveOrder[k - 1 + i], map)
     /\ IsMap(map) /\ map.frame <= frames /\ map.save <= saves
     /\ \A j \in 1..k - 1 : disk[SaveOrder[j]] = map
     /\ \A f \in Drawn \union {"graph"} : Whole(f) => NoNewer(disk[f], map)
     /\ ~saved

\* Cropping: what is written is no newer than the graph.
Crops(c) ==
  /\ IsMap(c) /\ c.frame <= frames /\ c.save <= saves
  /\ Whole("graph") /\ NoNewer(c, disk["graph"])

PutDue(at, file) == todo[at].op = "put" /\ todo[at] = Put(file, todo[at].content)

Cropping ==
  /\ Len(todo) \in {2, 3} /\ todo[Len(todo)] = Do("sync", "generated")
  /\ PutDue(Len(todo) - 1, "yaml") /\ Crops(todo[Len(todo) - 1].content)
  /\ Len(todo) = 3 => PutDue(1, "pgm") /\ Crops(todo[1].content)
  /\ ~saved

SyncDue == Len(todo) = 1 /\ todo[1] = Do("sync", "generated") /\ (saved => Level)

\* Syncing: the flows before this place have what the map's files say.
Syncing ==
  /\ Len(todo) \in 1..3 /\ todo[Len(todo)] = Do("unlink", "generated")
  /\ Len(todo) >= 2 => PutDue(Len(todo) - 1, "readonly")
  /\ Len(todo) = 3 => PutDue(1, "keyboard")
  /\ saved => /\ Level
              /\ IF Len(todo) = 3 THEN todo[1].content = Metadata ELSE disk["keyboard"] = Metadata
              /\ IF Len(todo) >= 2 THEN todo[Len(todo) - 1].content = Metadata
                                   ELSE disk["readonly"] = Metadata

Generating == Len(todo) = 1 /\ todo[1] = Put("generated", Made) /\ ~saved

AtWork ==
  \/ todo = <<>>
  \/ \E k \in 1..4 : Moving(k)
  \/ Launching(1) /\ ~saved
  \/ \E k \in 1..4 : Saving(k)
  \/ Cropping
  \/ SyncDue
  \/ Syncing
  \/ Generating

FilesInv ==
  /\ OnDisk
  /\ InProcess
  /\ IsQueue(todo)
  /\ ~karto.on => AtWork
  /\ SavesTrail

-----------------------------------------------------------------------------
\* The files, and what is in them.

LEMMA FilesAre ==
  /\ File = {"graph", "pgm", "yaml", "meta", "keyboard", "readonly", "generated"}
  /\ ToSet(Artifacts) = Drawn \union {"graph"}
  /\ ToSet(Auxiliary) = {"keyboard", "readonly"}
<1>1. ToSet(Artifacts) = {"pgm", "yaml", "meta", "graph"}
  BY DEF ToSet, Artifacts
<1>2. ToSet(Auxiliary) = {"keyboard", "readonly"}
  BY DEF ToSet, Auxiliary
<1>3. QED
  BY <1>1, <1>2 DEF File, Drawn

LEMMA MapIsWhole ==
  ASSUME NEW c, IsMap(c)
  PROVE  c \notin {None, Torn}
BY DEF IsMap, None, Torn

LEMMA ContentsDiffer ==
  /\ None # Torn /\ None # Shipped /\ None # Made /\ Torn # Shipped /\ Torn # Made
BY DEF None, Torn, Shipped, Made

LEMMA MapsMade ==
  ASSUME NEW frame \in Nat, NEW save \in Nat, NEW nodes, NEW crop
  PROVE  LET c == [frame |-> frame, save |-> save, nodes |-> nodes, crop |-> crop]
         IN IsMap(c) /\ c.frame = frame /\ c.save = save
BY DEF IsMap

LEMMA CroppedMaps ==
  ASSUME NEW c, IsMap(c)
  PROVE  IsMap(Cropped(c)) /\ Cropped(c).frame = c.frame /\ Cropped(c).save = c.save
BY DEF IsMap, Cropped

LEMMA SequencesAreQueues ==
  ASSUME NEW S, NEW q \in Seq(S)
  PROVE  IsQueue(q)
BY DEF IsQueue

LEMMA ThreeJobs ==
  ASSUME NEW a, NEW b, NEW c
  PROVE  <<a, b>> \o <<c>> = <<a, b, c>>
<1> DEFINE S == {a, b, c}
           p == <<a, b>>
           q == <<c>>
           r == p \o q
           t == <<a, b, c>>
<1>1. /\ p \in Seq(S) /\ Len(p) = 2 /\ p[1] = a /\ p[2] = b
      /\ q \in Seq(S) /\ Len(q) = 1 /\ q[1] = c
      /\ t \in Seq(S) /\ Len(t) = 3 /\ t[1] = a /\ t[2] = b /\ t[3] = c
  OBVIOUS
<1> HIDE DEF S, p, q, t
<1>2. /\ r \in Seq(S) /\ Len(r) = Len(p) + Len(q)
      /\ \A i \in 1..Len(p) + Len(q) : r[i] = IF i <= Len(p) THEN p[i] ELSE q[i - Len(p)]
  BY <1>1, ConcatProperties
<1> HIDE DEF r
<1>3. \A i \in 1..3 : r[i] = t[i]
  <2>1. 1 \in 1..3 /\ 2 \in 1..3 /\ 3 \in 1..3 /\ Len(p) + Len(q) = 3
    BY <1>1
  <2>2. r[1] = a /\ r[2] = b /\ r[3] = c
    BY <1>1, <1>2, <2>1
  <2>3. QED
    BY <1>1, <2>2
<1>4. r = t
  BY <1>1, <1>2, <1>3, SeqEqual
<1>5. QED
  BY <1>4 DEF r, p, q, t

\* The jobs of a queue that is worked off from the front.
LEMMA QueueTail ==
  ASSUME NEW q, IsQueue(q), q # <<>>
  PROVE  /\ Len(q) \in Nat /\ Len(q) > 0 /\ Head(q) = q[1]
         /\ Len(Tail(q)) = Len(q) - 1 /\ IsQueue(Tail(q))
         /\ \A i \in 1..Len(q) - 1 : Tail(q)[i] = q[i + 1]
<1> DEFINE S == {q[i] : i \in DOMAIN q}
           t == Tail(q)
<1>1. q \in Seq(S)
  BY DEF IsQueue
<1> HIDE DEF S
<1>2. /\ Len(q) \in Nat /\ Len(q) > 0 /\ Head(q) = q[1] /\ t \in Seq(S) /\ Len(t) = Len(q) - 1
      /\ \A i \in 1..Len(q) - 1 : t[i] = q[i + 1]
  BY <1>1
<1> HIDE DEF t
<1>3. IsQueue(t)
  BY <1>2 DEF IsQueue
<1>4. QED
  BY <1>2, <1>3 DEF t

LEMMA QueueRest ==
  ASSUME NEW q, IsQueue(q), NEW n \in 0..Len(q)
  PROVE  LET r == SubSeq(q, n + 1, Len(q))
         IN /\ Len(r) = Len(q) - n /\ IsQueue(r)
            /\ \A i \in 1..Len(q) - n : r[i] = q[i + n]
<1> DEFINE S == {q[i] : i \in DOMAIN q}
           r == SubSeq(q, n + 1, Len(q))
<1>1. q \in Seq(S) /\ Len(q) \in Nat
  BY DEF IsQueue
<1> HIDE DEF S
<1>2. r \in Seq(S) /\ Len(r) = Len(q) - n /\ \A i \in 1..Len(q) - n : r[i] = q[i + n]
  BY <1>1
<1> HIDE DEF r
<1>3. IsQueue(r)
  BY <1>2 DEF IsQueue
<1>4. QED
  BY <1>2, <1>3 DEF r

LEMMA QueueConcat ==
  ASSUME NEW p, IsQueue(p), NEW q, IsQueue(q)
  PROVE  /\ IsQueue(p \o q)
         /\ Len(p) \in Nat /\ Len(q) \in Nat /\ Len(p \o q) = Len(p) + Len(q)
         /\ \A i \in 1..Len(p) : (p \o q)[i] = p[i]
         /\ \A i \in 1..Len(q) : (p \o q)[Len(p) + i] = q[i]
<1> DEFINE S == {p[i] : i \in DOMAIN p} \union {q[i] : i \in DOMAIN q}
           r == p \o q
<1>1. p \in Seq(S) /\ q \in Seq(S)
  BY DEF IsQueue
<1> HIDE DEF S
<1>2. /\ r \in Seq(S) /\ Len(p) \in Nat /\ Len(q) \in Nat /\ Len(r) = Len(p) + Len(q)
      /\ \A i \in 1..Len(r) : r[i] = IF i <= Len(p) THEN p[i] ELSE q[i - Len(p)]
  BY <1>1, ConcatProperties
<1> HIDE DEF r
<1>3. IsQueue(r)
  BY <1>2, SequencesAreQueues
<1>4. ASSUME NEW i \in 1..Len(q) PROVE r[Len(p) + i] = q[i]
  BY <1>2
<1>5. QED
  BY <1>2, <1>3, <1>4 DEF r

LEMMA QueueEmpty ==
  /\ IsQueue(<<>>)
  /\ \A q : IsQueue(q) /\ Len(q) = 0 => q = <<>>
<1>1. IsQueue(<<>>)
  BY DEF IsQueue
<1>2. ASSUME NEW q, IsQueue(q), Len(q) = 0 PROVE q = <<>>
  <2> DEFINE S == {q[i] : i \in DOMAIN q}
  <2>1. q \in Seq(S)
    BY <1>2 DEF IsQueue
  <2> HIDE DEF S
  <2>2. QED
    BY <1>2, <2>1
<1>3. QED
  BY <1>1, <1>2

-----------------------------------------------------------------------------
\* What a step keeps that leaves the files alone, and one that ends the program.

LEMMA FilesRest ==
  ASSUME FilesInv, disk' = disk, unflushed' \subseteq unflushed,
         frames' \in Nat, frames' >= frames, saves' \in Nat, saves' >= saves
  PROVE  OnDisk' /\ SavesTrail'
<1>1. \A f : Whole(f)' <=> Whole(f)
  BY DEF Whole
<1>2. OnDisk'
  <2>1. ASSUME NEW f \in Drawn \union {"graph"}, Whole(f)
        PROVE  IsMap(disk[f]) /\ disk[f].frame <= frames' /\ disk[f].save <= saves'
    BY <2>1 DEF FilesInv, OnDisk, IsMap
  <2>2. QED
    BY <1>1, <2>1 DEF FilesInv, OnDisk
<1>3. SavesTrail'
  BY <1>1 DEF FilesInv, SavesTrail
<1>4. QED
  BY <1>2, <1>3

\* No process maps in the next state.
LEMMA Off_InProcess ==
  ASSUME FilesInv, karto' = Off \/ (karto' = karto /\ ~karto.on)
  PROVE  InProcess' /\ ~karto'.on
BY DEF FilesInv, InProcess, Off

LEMMA Ended ==
  ASSUME FilesInv, OnDisk', SavesTrail', karto' = Off \/ (karto' = karto /\ ~karto.on),
         todo' = <<>>
  PROVE  FilesInv'
BY Off_InProcess, QueueEmpty DEF FilesInv, AtWork

LEMMA FilesStart == FilesInit => FilesInv
<1> SUFFICES ASSUME FilesInit PROVE FilesInv
  OBVIOUS
<1>1. \A f \in Drawn \union {"graph"} : disk[f] = None
  BY FilesAre DEF FilesInit, Drawn
<1>2. OnDisk
  BY <1>1, ContentsDiffer, FilesAre DEF FilesInit, OnDisk, Whole
<1>3. InProcess
  BY DEF FilesInit, InProcess, Off
<1>4. SavesTrail
  BY <1>1 DEF SavesTrail, Whole, Drawn
<1>5. QED
  BY <1>2, <1>3, <1>4, QueueEmpty DEF FilesInit, FilesInv, AtWork

-----------------------------------------------------------------------------
\* The programs start.

LEMMA Begun ==
  ASSUME FilesInv, NEW steps, Begin(steps), IsQueue(steps), AtWork'
  PROVE  FilesInv'
<1>1. OnDisk' /\ SavesTrail'
  BY FilesRest DEF Begin, FilesInv, OnDisk
<1>2. InProcess'
  BY Off_InProcess DEF Begin, Idle
<1>3. QED
  BY <1>1, <1>2 DEF FilesInv, Begin

LEMMA RunMappingKeeps ==
  ASSUME FilesInv, NEW mode, NEW dry \in BOOLEAN, RunMapping(mode, dry)
  PROVE  FilesInv'
<1> DEFINE moves == [i \in 1..4 |-> Do("move", Artifacts[i])]
           launch == IF mode = "continue" THEN mode ELSE "new"
           start == <<Do("launch", launch), Do("sync", "generated")>>
           front == IF mode = "clean" THEN moves ELSE <<>>
           rest == IF dry THEN <<>> ELSE start
<1>1. Begin(front \o rest) /\ todo' = front \o rest /\ ~saved' /\ (dry => mode = "clean")
  BY DEF RunMapping, Begin
<1>2. /\ IsQueue(moves) /\ Len(moves) = 4 /\ IsQueue(start) /\ Len(start) = 2
      /\ \A i \in 1..4 : moves[i] = Do("move", Artifacts[i])
      /\ start[1] \in {Do("launch", "new"), Do("launch", "continue")}
      /\ start[2] = Do("sync", "generated")
  BY DEF IsQueue
<1> HIDE DEF moves, start
<1>3. IsQueue(front) /\ IsQueue(rest)
  BY <1>2, QueueEmpty
<1> HIDE DEF front, rest
<1>4. /\ Len(todo') = Len(front) + Len(rest)
      /\ \A i \in 1..Len(front) : todo'[i] = front[i]
      /\ \A i \in 1..Len(rest) : todo'[Len(front) + i] = rest[i]
  BY <1>1, <1>3, QueueConcat
<1>5. IsQueue(todo')
  BY <1>1, <1>3, QueueConcat
<1>6. AtWork'
  <2>1. CASE mode = "clean"
    <3>1. /\ Len(front) = 4 /\ \A i \in 1..4 : front[i] = Do("move", Artifacts[i])
      BY <1>2, <2>1 DEF front
    <3>2. Len(todo') = 5 - 1 \/ Launching(6 - 1)'
      <4>1. CASE dry
        <5>1. Len(rest) = 0
          BY <4>1 DEF rest
        <5>2. QED
          BY <1>4, <3>1, <5>1
      <4>2. CASE ~dry
        <5>1. Len(rest) = 2 /\ rest[1] = start[1] /\ rest[2] = start[2]
          BY <1>2, <4>2 DEF rest
        <5>2. Len(todo') = 6 /\ todo'[5] = start[1] /\ todo'[6] = start[2]
          BY <1>4, <3>1, <5>1
        <5>3. QED
          BY <1>2, <5>2 DEF Launching
      <4>3. QED
        BY <4>1, <4>2
    <3>3. \A i \in 1..5 - 1 : todo'[i] = Do("move", Artifacts[1 - 1 + i])
      BY <1>4, <3>1
    <3>4. Moving(1)'
      <4>1. \A j \in 1..1 - 1 : disk'[Artifacts[j]] = None
        OBVIOUS
      <4>2. QED
        BY <1>1, <3>2, <3>3, <4>1, Zenon DEF Moving
    <3>5. QED
      BY <3>4 DEF AtWork
  <2>2. CASE mode # "clean"
    <3>1. Len(front) = 0 /\ Len(rest) = 2 /\ rest[1] = start[1] /\ rest[2] = start[2]
      BY <1>1, <1>2, <2>2 DEF front, rest
    <3>2. Len(todo') = 2 /\ todo'[1] = start[1] /\ todo'[2] = start[2]
      BY <1>4, <3>1
    <3>3. Launching(1)'
      BY <1>2, <3>2 DEF Launching
    <3>4. QED
      BY <1>1, <3>3 DEF AtWork
  <2>3. QED
    BY <2>1, <2>2
<1>7. QED
  BY <1>1, <1>5, <1>6, Begun

LEMMA SyncBegins ==
  ASSUME FilesInv, Begin(<<Do("sync", "generated")>>)
  PROVE  FilesInv'
<1>1. todo' = <<Do("sync", "generated")>> /\ ~saved'
  BY DEF Begin
<1>2. SyncDue'
  BY <1>1 DEF SyncDue
<1>3. IsQueue(<<Do("sync", "generated")>>)
  BY DEF IsQueue
<1>4. QED
  BY <1>2, <1>3, Begun DEF AtWork

LEMMA FinalizeKeeps ==
  ASSUME FilesInv, NEW crops \in BOOLEAN, Finalize(crops)
  PROVE  FilesInv'
<1>1. CASE ~crops
  <2>1. Begin(<<>> \o <<Do("sync", "generated")>>)
    BY <1>1 DEF Finalize
  <2>2. <<>> \o <<Do("sync", "generated")>> = <<Do("sync", "generated")>>
    OBVIOUS
  <2>3. QED
    BY <2>1, <2>2, SyncBegins
<1>2. CASE crops
  <2> DEFINE pgm == Cropped(disk["pgm"])
             yaml == Cropped(disk["yaml"])
             steps == <<Put("pgm", pgm), Put("yaml", yaml), Do("sync", "generated")>>
  <2>1. Begin(<<Put("pgm", pgm), Put("yaml", yaml)>> \o <<Do("sync", "generated")>>)
    BY <1>2 DEF Finalize
  <2>2. Begin(steps)
    <3>1. <<Put("pgm", pgm), Put("yaml", yaml)>> \o <<Do("sync", "generated")>> = steps
      BY ThreeJobs
    <3>2. QED
      BY <2>1, <3>1
  <2>3. todo' = steps /\ ~saved' /\ disk' = disk /\ frames' = frames /\ saves' = saves
    BY <2>2 DEF Begin
  <2>4. /\ Crops(pgm) /\ Crops(yaml)
    <3>1. ASSUME NEW f \in {"pgm", "yaml"} PROVE Crops(Cropped(disk[f]))
      <4>1. Whole(f) /\ f \in Drawn
        BY DEF Finalize, MetadataRead, Drawn
      <4>2. IsMap(disk[f]) /\ disk[f].frame <= frames /\ disk[f].save <= saves
        BY <4>1 DEF FilesInv, OnDisk
      <4>3. Whole("graph") /\ NoNewer(disk[f], disk["graph"])
        BY <4>1 DEF FilesInv, SavesTrail, NoNewer, Drawn
      <4>4. QED
        BY <4>2, <4>3, CroppedMaps DEF Crops, NoNewer
    <3>2. QED
      BY <3>1
  <2>5. Crops(pgm)' /\ Crops(yaml)' /\ pgm' = pgm /\ yaml' = yaml
    <3>1. pgm' = pgm /\ yaml' = yaml
      BY <2>3 DEF Cropped
    <3>2. QED
      BY <2>3, <2>4, <3>1 DEF Crops, Whole
  <2> HIDE DEF pgm, yaml
  <2>6. /\ Len(steps) = 3 /\ IsQueue(steps)
        /\ steps[1] = Put("pgm", pgm) /\ steps[2] = Put("yaml", yaml)
        /\ steps[3] = Do("sync", "generated")
    BY DEF IsQueue
  <2>7. /\ steps[1].op = "put" /\ steps[1].content = pgm
        /\ steps[2].op = "put" /\ steps[2].content = yaml
    BY <2>6 DEF Put
  <2> HIDE DEF steps
  <2>8. /\ Len(todo') = 3 /\ todo'[3] = Do("sync", "generated")
        /\ PutDue(2, "yaml")' /\ PutDue(1, "pgm")'
        /\ todo'[1].content = pgm /\ todo'[2].content = yaml
    BY <2>3, <2>6, <2>7 DEF PutDue
  <2>9. /\ Crops(todo[2].content)' /\ Crops(todo[1].content)'
    BY <2>5, <2>8 DEF Crops
  <2>10. Cropping'
    BY <2>3, <2>8, <2>9 DEF Cropping
  <2>11. QED
    BY <2>2, <2>6, <2>10, Begun DEF AtWork
<1>3. QED
  BY <1>1, <1>2

LEMMA ProgramsKeep ==
  ASSUME FilesInv, Programs
  PROVE  FilesInv'
<1>1. ASSUME NEW mode, NEW force \in BOOLEAN, RunNavigation(mode, force)
      PROVE  FilesInv'
  <2>1. Begin(<<Put("generated", Made)>>)
    BY <1>1 DEF RunNavigation
  <2>2. IsQueue(<<Put("generated", Made)>>)
    BY DEF IsQueue
  <2>3. Generating'
    BY <2>1 DEF Begin, Generating
  <2>4. QED
    BY <2>1, <2>2, <2>3, Begun DEF AtWork
<1>2. ASSUME CleanRuntime PROVE FilesInv'
  <2>1. Begin(<<Do("unlink", "generated")>>)
    BY <1>2 DEF CleanRuntime
  <2>2. IsQueue(<<Do("unlink", "generated")>>)
    BY DEF IsQueue
  <2>3. Syncing'
    BY <2>1 DEF Begin, Syncing
  <2>4. QED
    BY <2>1, <2>2, <2>3, Begun DEF AtWork
<1>3. QED
  BY <1>1, <1>2, RunMappingKeeps, FinalizeKeeps, SyncBegins DEF Programs, SyncMap

-----------------------------------------------------------------------------
\* The steps of a program.

\* What is done next tells where the program is.
LEMMA NextJobIs ==
  ASSUME FilesInv, NEW op, Due(op)
  PROVE  /\ ~karto.on /\ Len(todo) \in Nat \ {0} /\ Head(todo) = todo[1] /\ todo[1].op = op
         /\ op = "move" => \E k \in 1..4 : Moving(k)
         /\ op = "launch" => Launching(1) /\ ~saved
         /\ op = "save" => \E k \in 1..4 : Saving(k)
         /\ op = "put" => Cropping \/ Generating \/ (Syncing /\ Len(todo) \in 2..3)
         /\ op = "sync" => SyncDue
         /\ op = "unlink" => Syncing /\ Len(todo) = 1
<1>1. /\ ~karto.on /\ Len(todo) \in Nat \ {0} /\ Head(todo) = todo[1] /\ todo[1].op = op
      /\ todo # <<>> /\ AtWork
  BY QueueTail DEF Due, FilesInv
<1>2. ASSUME NEW k \in 1..4, Moving(k) PROVE op = "move"
  <2>1. 1 \in 1..5 - k
    OBVIOUS
  <2>2. todo[1] = Do("move", Artifacts[k - 1 + 1])
    BY <1>2, <2>1 DEF Moving
  <2>3. QED
    BY <1>1, <2>2 DEF Do
<1>3. ASSUME NEW k \in 1..4, Saving(k) PROVE op = "save"
  <2>1. 1 \in 1..5 - k
    OBVIOUS
  <2>2. QED
    BY <1>1, <1>3, <2>1 DEF Saving
<1>4. Launching(1) => op = "launch"
  BY <1>1 DEF Launching, Do
<1>5. Cropping => op = "put"
  <2>1. CASE Len(todo) = 2
    BY <1>1, <2>1 DEF Cropping, PutDue
  <2>2. CASE Len(todo) = 3
    BY <1>1, <2>2 DEF Cropping, PutDue
  <2>3. QED
    BY <2>1, <2>2 DEF Cropping
<1>6. SyncDue => op = "sync"
  BY <1>1 DEF SyncDue, Do
<1>7. Syncing => IF Len(todo) = 1 THEN op = "unlink" ELSE op = "put" /\ Len(todo) \in 2..3
  <2>1. CASE Len(todo) = 1
    BY <1>1, <2>1 DEF Syncing, Do
  <2>2. CASE Len(todo) = 2
    BY <1>1, <2>2 DEF Syncing, PutDue
  <2>3. CASE Len(todo) = 3
    BY <1>1, <2>3 DEF Syncing, PutDue
  <2>4. QED
    BY <2>1, <2>2, <2>3 DEF Syncing
<1>8. Generating => op = "put"
  BY <1>1 DEF Generating, Put
<1>9. QED
  BY <1>1, <1>2, <1>3, <1>4, <1>5, <1>6, <1>7, <1>8 DEF AtWork

\* The queue once the first job is done.
LEMMA JobDone ==
  ASSUME FilesInv, NEW op, Due(op), todo' = Tail(todo)
  PROVE  /\ Len(todo') = Len(todo) - 1 /\ IsQueue(todo')
         /\ \A i \in 1..Len(todo) - 1 : todo'[i] = todo[i + 1]
         /\ Len(todo) = 1 => todo' = <<>>
BY QueueTail, QueueEmpty DEF FilesInv, Due

LEMMA MoveKeeps ==
  ASSUME FilesInv, Move
  PROVE  FilesInv'
<1>1. /\ Due("move") /\ todo' = Tail(todo) /\ disk' = [disk EXCEPT ![todo[1].file] = None]
      /\ unflushed' = unflushed /\ karto' = karto /\ saved' = saved /\ frames' = frames /\ saves' = saves
  BY NextJobIs DEF Move
<1>2. PICK k \in 1..4 : Moving(k)
  BY <1>1, NextJobIs
<1> DEFINE gone == Artifacts[k]
<1>3. /\ 1 \in 1..5 - k /\ k - 1 + 1 = k
  OBVIOUS
<1>4. todo[1] = Do("move", gone)
  BY <1>2, <1>3 DEF Moving
<1>5. /\ gone \in Drawn \union {"graph"} /\ gone \in File
      /\ disk' = [disk EXCEPT ![gone] = None]
  BY <1>1, <1>4, FilesAre DEF Do, Drawn, Artifacts
<1>6. \A f \in File : disk'[f] = IF f = gone THEN None ELSE disk[f]
  BY <1>5 DEF FilesInv, OnDisk
<1>7. \A f \in File : Whole(f)' <=> Whole(f) /\ f # gone
  BY <1>6 DEF Whole
<1>8. OnDisk'
  <2>1. disk' = [f \in File |-> disk'[f]]
    BY <1>5 DEF FilesInv, OnDisk
  <2>2. disk'["graph"] # Torn
    BY <1>6, ContentsDiffer, FilesAre DEF FilesInv, OnDisk
  <2>3. ASSUME NEW f \in Drawn \union {"graph"}, Whole(f)'
        PROVE  IsMap(disk'[f]) /\ disk'[f].frame <= frames /\ disk'[f].save <= saves
    <3>1. f \in File
      BY FilesAre DEF Drawn
    <3>2. Whole(f) /\ disk'[f] = disk[f]
      BY <1>6, <1>7, <2>3, <3>1
    <3>3. QED
      BY <3>2 DEF FilesInv, OnDisk
  <2>4. QED
    BY <1>1, <2>1, <2>2, <2>3 DEF FilesInv, OnDisk
<1>9. InProcess'
  BY <1>1, Off_InProcess DEF Due
<1>10. IsQueue(todo')
  BY <1>1, JobDone
<1>11. \A j \in 1..k - 1 : disk'[Artifacts[j]] = None
  <2>1. ASSUME NEW j \in 1..k - 1 PROVE Artifacts[j] \in File
    BY FilesAre DEF Artifacts
  <2>2. QED
    BY <1>2, <1>6, <2>1 DEF Moving
<1>12. AtWork'
  <2>1. CASE k < 4
    <3>1. PICK m \in 1..4 : m = k + 1
      BY <2>1
    <3>2. Len(todo') = 5 - m \/ Launching(6 - m)'
      <4>1. CASE Len(todo) = 5 - k
        BY <1>1, <4>1, JobDone, <3>1
      <4>2. CASE Launching(6 - k)
        <5>1. Len(todo) = 7 - k
          BY <4>2 DEF Launching
        <5>2. Len(todo') = 6 - k /\ todo'[5 - k] = todo[6 - k] /\ todo'[6 - k] = todo[7 - k]
          BY <1>1, <2>1, <5>1, JobDone
        <5>3. QED
          BY <3>1, <4>2, <5>2 DEF Launching
      <4>3. QED
        BY <1>2, <4>1, <4>2 DEF Moving
    <3>3. ASSUME NEW i \in 1..5 - m
          PROVE  todo'[i] = Do("move", Artifacts[m - 1 + i])
      <4>1. i + 1 \in 1..5 - k /\ k - 1 + (i + 1) = m - 1 + i
        BY <3>1
      <4>2. Len(todo) >= 5 - k /\ Len(todo) \in Nat
        BY <1>2, <1>1, NextJobIs DEF Moving, Launching
      <4>3. todo'[i] = todo[i + 1]
        BY <1>1, <4>1, <4>2, JobDone
      <4>4. QED
        BY <1>2, <4>1, <4>3 DEF Moving
    <3>4. \A j \in 1..m - 1 : disk'[Artifacts[j]] = None
      BY <1>5, <1>6, <1>11, <3>1
    <3>5. Moving(m)'
      <4>1. ~saved'
        BY <1>1, <1>2 DEF Moving
      <4>2. QED
        BY <3>2, <3>3, <3>4, <4>1, Zenon DEF Moving
    <3>6. QED
      BY <3>1, <3>5 DEF AtWork
  <2>2. CASE k = 4
    <3>1. CASE Len(todo) = 1
      BY <1>1, <3>1, JobDone DEF AtWork
    <3>2. CASE Launching(2)
      <4>1. /\ Len(todo) = 3 /\ todo[3] = Do("sync", "generated")
            /\ todo[2] \in {Do("launch", "new"), Do("launch", "continue")}
        BY <3>2 DEF Launching
      <4>2. Len(todo') = 2 /\ todo'[1] = todo[2] /\ todo'[2] = todo[3]
        <5>1. /\ Len(todo') = Len(todo) - 1
              /\ \A i \in 1..Len(todo) - 1 : todo'[i] = todo[i + 1]
          BY <1>1, JobDone
        <5>2. QED
          BY <4>1, <5>1
      <4>3. Launching(1)'
        BY <4>1, <4>2 DEF Launching
      <4>4. QED
        BY <1>1, <1>2, <4>3 DEF AtWork, Moving
    <3>3. QED
      BY <1>2, <2>2, <3>1, <3>2 DEF Moving
  <2>3. QED
    BY <2>1, <2>2
<1>13. SavesTrail'
  <2>1. CASE gone # "graph"
    <3>1. disk'["graph"] = disk["graph"] /\ (Whole("graph")' <=> Whole("graph"))
      BY <1>6, <1>7, <2>1, FilesAre
    <3>2. ASSUME NEW f \in Drawn, Whole(f)' PROVE Whole(f) /\ disk'[f] = disk[f]
      BY <1>6, <1>7, <3>2, FilesAre DEF Drawn
    <3>3. QED
      BY <3>1, <3>2 DEF FilesInv, SavesTrail, Drawn
  <2>2. CASE gone = "graph"
    <3>1. k = 4
      BY <2>2 DEF Artifacts
    <3>2. disk'[Artifacts[1]] = None /\ disk'[Artifacts[2]] = None /\ disk'[Artifacts[3]] = None
      BY <1>11, <3>1
    <3>3. disk'["pgm"] = None /\ disk'["yaml"] = None /\ disk'["meta"] = None
      BY <3>2 DEF Artifacts
    <3>4. QED
      BY <3>3 DEF SavesTrail, Whole
  <2>3. QED
    BY <2>1, <2>2
<1>14. QED
  BY <1>8, <1>9, <1>10, <1>12, <1>13 DEF FilesInv

\* A file is written: the others stay.
LEMMA OneFileWritten ==
  ASSUME OnDisk, NEW file \in File, NEW content, disk' = [disk EXCEPT ![file] = content]
  PROVE  /\ disk' = [f \in File |-> disk'[f]]
         /\ disk'[file] = content
         /\ Whole(file)' <=> content \notin {None, Torn}
         /\ \A f \in File : f # file => disk'[f] = disk[f] /\ (Whole(f)' <=> Whole(f))
BY DEF OnDisk, Whole

\* One that is of no map changes nothing about the map.
LEMMA OtherFileWritten ==
  ASSUME FilesInv, NEW file \in {"keyboard", "readonly", "generated"}, NEW content,
         disk' = [disk EXCEPT ![file] = content], "graph" \notin unflushed',
         frames' = frames, saves' = saves
  PROVE  /\ OnDisk' /\ SavesTrail' /\ (Level' <=> Level) /\ Metadata' = Metadata
         /\ disk'[file] = content
         /\ \A f \in {"keyboard", "readonly"} : f # file => disk'[f] = disk[f]
<1>1. /\ file \in File /\ OnDisk
      /\ \A f \in Drawn \union {"graph"} : f \in File /\ f # file
  BY FilesAre DEF FilesInv, Drawn
<1>2. \A f \in Drawn \union {"graph"} : disk'[f] = disk[f] /\ (Whole(f)' <=> Whole(f))
  BY <1>1, OneFileWritten
<1>3. disk' = [f \in File |-> disk'[f]] /\ disk'[file] = content
  BY <1>1, OneFileWritten
<1>4. OnDisk'
  BY <1>2, <1>3 DEF FilesInv, OnDisk
<1>5. SavesTrail'
  BY <1>2 DEF FilesInv, SavesTrail, Drawn
<1>6. Level' <=> Level
  BY <1>2 DEF Level
<1>7. Metadata' = Metadata
  BY <1>2 DEF Metadata, Drawn
<1>8. \A f \in {"keyboard", "readonly"} : f # file => disk'[f] = disk[f]
  BY <1>1, OneFileWritten, FilesAre
<1>9. QED
  BY <1>3, <1>4, <1>5, <1>6, <1>7, <1>8

\* One of a map that is no newer than the graph.
LEMMA CropWritten ==
  ASSUME FilesInv, NEW file \in {"pgm", "yaml"}, NEW content, Crops(content),
         disk' = [disk EXCEPT ![file] = content], "graph" \notin unflushed',
         frames' = frames, saves' = saves
  PROVE  OnDisk' /\ SavesTrail' /\ disk'["graph"] = disk["graph"] /\ Whole("graph")'
<1>1. /\ file \in File /\ OnDisk /\ file # "graph" /\ "graph" \in File
      /\ \A f \in Drawn : f \in File
  BY FilesAre DEF FilesInv, Drawn
<1>2. \A f \in Drawn \union {"graph"} :
        f # file => disk'[f] = disk[f] /\ (Whole(f)' <=> Whole(f))
  BY <1>1, OneFileWritten
<1>3. disk' = [f \in File |-> disk'[f]] /\ disk'[file] = content
  BY <1>1, OneFileWritten
<1>4. disk'["graph"] = disk["graph"] /\ Whole("graph")' /\ Whole("graph")
  BY <1>1, <1>2 DEF Crops
<1>5. OnDisk'
  BY <1>2, <1>3, <1>4 DEF FilesInv, OnDisk, Crops
<1>6. SavesTrail'
  <2>1. ASSUME NEW f \in Drawn, Whole(f)' PROVE NoNewer(disk'[f], disk'["graph"])
    BY <1>1, <1>2, <1>3, <1>4, <2>1 DEF FilesInv, SavesTrail, Crops, NoNewer, Drawn
  <2>2. QED
    BY <1>4, <2>1 DEF SavesTrail, NoNewer, Drawn
<1>7. QED
  BY <1>4, <1>5, <1>6

LEMMA PutFileKeeps ==
  ASSUME FilesInv, PutFile
  PROVE  FilesInv'
<1> DEFINE job == todo[1]
<1>1. /\ Due("put") /\ Head(todo) = job /\ karto' = karto /\ ~karto.on
      /\ saved' = saved /\ frames' = frames /\ saves' = saves
      /\ Cropping \/ Generating \/ (Syncing /\ Len(todo) \in 2..3)
  BY NextJobIs DEF PutFile
<1>2. CASE job.file \in ToSet(Auxiliary) /\ ~Whole(job.file)
  <2>1. todo' = <<>> /\ disk' = disk /\ unflushed' = unflushed
    BY <1>1, <1>2 DEF PutFile
  <2>2. /\ unflushed' \subseteq unflushed
        /\ frames' \in Nat /\ frames' >= frames /\ saves' \in Nat /\ saves' >= saves
    BY <1>1, <2>1 DEF FilesInv, OnDisk
  <2>3. OnDisk' /\ SavesTrail'
    BY <2>1, <2>2, FilesRest
  <2>4. QED
    BY <1>1, <2>1, <2>3, Ended
<1>3. CASE ~(job.file \in ToSet(Auxiliary) /\ ~Whole(job.file))
  <2>1. /\ todo' = Tail(todo) /\ disk' = [disk EXCEPT ![job.file] = job.content]
        /\ unflushed' = unflushed \union {job.file}
    BY <1>1, <1>3 DEF PutFile, Written
  <2>2. InProcess' /\ ~karto'.on
    BY <1>1, Off_InProcess
  <2>3. /\ Len(todo') = Len(todo) - 1 /\ IsQueue(todo')
        /\ \A i \in 1..Len(todo) - 1 : todo'[i] = todo[i + 1]
        /\ Len(todo) = 1 => todo' = <<>>
    BY <1>1, <2>1, JobDone
  <2>4. CASE Cropping
    <3>1. /\ job = Put(job.file, job.content) /\ job.file \in {"pgm", "yaml"} /\ Crops(job.content)
      BY <2>4 DEF Cropping, PutDue, Put
    <3>2. OnDisk' /\ SavesTrail' /\ disk'["graph"] = disk["graph"] /\ Whole("graph")'
      BY <1>1, <2>1, <3>1, CropWritten DEF FilesInv, OnDisk
    <3>3. CASE Len(todo) = 2
      <4>1. SyncDue'
        BY <1>1, <2>3, <2>4, <3>3 DEF Cropping, SyncDue
      <4>2. QED
        BY <2>2, <2>3, <3>2, <4>1 DEF FilesInv, AtWork
    <3>4. CASE Len(todo) = 3
      <4>1. Len(todo') = 2 /\ todo'[1] = todo[2] /\ todo'[2] = todo[3]
        BY <2>3, <3>4
      <4>2. PutDue(1, "yaml")' /\ Crops(todo[1].content)'
        BY <1>1, <2>4, <3>2, <3>4, <4>1 DEF Cropping, PutDue, Crops
      <4>3. Cropping'
        BY <1>1, <2>4, <3>4, <4>1, <4>2 DEF Cropping
      <4>4. QED
        BY <2>2, <2>3, <3>2, <4>3 DEF FilesInv, AtWork
    <3>5. QED
      BY <2>4, <3>3, <3>4 DEF Cropping
  <2>5. CASE Generating
    <3>1. job.file = "generated" /\ Len(todo) = 1
      BY <2>5 DEF Generating, Put
    <3>2. disk' = [disk EXCEPT !["generated"] = job.content] /\ "graph" \notin unflushed'
      BY <2>1, <3>1 DEF FilesInv, OnDisk
    <3>3. OnDisk' /\ SavesTrail'
      <4>1. "generated" \in {"keyboard", "readonly", "generated"}
        OBVIOUS
      <4>2. QED
        BY <1>1, <3>2, <4>1, OtherFileWritten, Zenon
    <3>4. QED
      BY <1>1, <2>3, <3>1, <3>3, Ended
  <2>6. CASE Syncing /\ Len(todo) \in 2..3
    <3>1. job.file = (IF Len(todo) = 3 THEN "keyboard" ELSE "readonly")
      <4>1. Len(todo) = 3 => job = Put("keyboard", job.content)
        BY <2>6 DEF Syncing, PutDue
      <4>2. Len(todo) = 2 => job = Put("readonly", job.content)
        BY <2>6 DEF Syncing, PutDue
      <4>3. QED
        BY <2>6, <4>1, <4>2 DEF Put
    <3>2. /\ OnDisk' /\ SavesTrail' /\ (Level' <=> Level) /\ Metadata' = Metadata
          /\ disk'[job.file] = job.content
          /\ \A f \in {"keyboard", "readonly"} : f # job.file => disk'[f] = disk[f]
      <4>1. "graph" \notin unflushed'
        BY <2>1, <3>1 DEF FilesInv, OnDisk
      <4>2. job.file \in {"keyboard", "readonly", "generated"}
        BY <3>1
      <4> HIDE DEF job
      <4>3. QED
        BY <1>1, <2>1, <4>1, <4>2, OtherFileWritten, Zenon
    <3>3. Syncing'
      <4>1. CASE Len(todo) = 2
        <5>1. Len(todo') = 1 /\ todo'[1] = todo[2]
          BY <2>3, <4>1
        <5>2. QED
          BY <1>1, <2>6, <3>1, <3>2, <4>1, <5>1 DEF Syncing
      <4>2. CASE Len(todo) = 3
        <5>1. Len(todo') = 2 /\ todo'[1] = todo[2] /\ todo'[2] = todo[3]
          BY <2>3, <4>2
        <5>2. QED
          BY <1>1, <2>6, <3>1, <3>2, <4>2, <5>1 DEF Syncing, PutDue
      <4>3. QED
        BY <2>6, <4>1, <4>2
    <3>4. QED
      BY <2>2, <2>3, <3>2, <3>3 DEF FilesInv, AtWork
  <2>7. QED
    BY <1>1, <2>4, <2>5, <2>6
<1>4. QED
  BY <1>2, <1>3

LEMMA SyncKeeps ==
  ASSUME FilesInv, Sync
  PROVE  FilesInv'
<1>1. /\ SyncDue /\ karto' = karto /\ ~karto.on /\ disk' = disk /\ unflushed' = unflushed
      /\ saved' = saved /\ frames' = frames /\ saves' = saves
  BY NextJobIs DEF Sync
<1>2. OnDisk' /\ SavesTrail'
  BY <1>1, FilesRest DEF FilesInv, OnDisk
<1>3. CASE ~MetadataRead
  BY <1>1, <1>2, <1>3, Ended DEF Sync
<1>4. CASE MetadataRead
  <2> DEFINE keyboard == Put("keyboard", Metadata)
             readonly == Put("readonly", Metadata)
             unlink == Do("unlink", "generated")
             puts == [i \in 1..2 |-> Put(Auxiliary[i], Metadata)]
             last == <<unlink>>
  <2>1. todo' = puts \o last
    BY <1>4 DEF Sync
  <2>2. IsQueue(puts) /\ Len(puts) = 2 /\ puts[1] = keyboard /\ puts[2] = readonly
    <3>1. Auxiliary[1] = "keyboard" /\ Auxiliary[2] = "readonly"
      BY DEF Auxiliary
    <3>2. puts[1] = keyboard /\ puts[2] = readonly
      BY <3>1
    <3>3. puts \in Seq({puts[1], puts[2]}) /\ Len(puts) = 2
      OBVIOUS
    <3>4. QED
      BY <3>2, <3>3, SequencesAreQueues
  <2>3. IsQueue(last) /\ Len(last) = 1 /\ last[1] = unlink
    BY DEF IsQueue
  <2> HIDE DEF puts, last
  <2>4. /\ IsQueue(todo') /\ Len(todo') = Len(puts) + Len(last)
        /\ \A i \in 1..Len(puts) : todo'[i] = puts[i]
        /\ \A i \in 1..Len(last) : todo'[Len(puts) + i] = last[i]
    <3>1. IsQueue(puts) /\ IsQueue(last)
      BY <2>2, <2>3
    <3>2. QED
      BY <2>1, <3>1, QueueConcat
  <2>5. Len(todo') = 3 /\ todo'[1] = keyboard /\ todo'[2] = readonly /\ todo'[3] = unlink
    BY <2>2, <2>3, <2>4
  <2>6. PutDue(1, "keyboard")' /\ PutDue(2, "readonly")'
        /\ todo'[1].content = Metadata /\ todo'[2].content = Metadata
    BY <2>5 DEF PutDue, Put
  <2>7. (Level' <=> Level) /\ Metadata' = Metadata
    BY <1>1 DEF Level, Metadata, Whole
  <2>8. Syncing'
    BY <1>1, <2>5, <2>6, <2>7 DEF Syncing, SyncDue
  <2>9. QED
    BY <1>1, <1>2, <2>4, <2>8, Off_InProcess DEF FilesInv, AtWork
<1>5. QED
  BY <1>3, <1>4

LEMMA UnlinkKeeps ==
  ASSUME FilesInv, Unlink
  PROVE  /\ FilesInv'
         /\ saved => Agree'
<1>1. /\ Due("unlink") /\ Syncing /\ Len(todo) = 1 /\ karto' = karto /\ ~karto.on
      /\ disk' = [disk EXCEPT !["generated"] = None] /\ unflushed' = unflushed
      /\ frames' = frames /\ saves' = saves /\ todo' = Tail(todo)
  BY NextJobIs DEF Unlink
<1>2. /\ OnDisk' /\ SavesTrail' /\ (Level' <=> Level) /\ Metadata' = Metadata
      /\ disk'["generated"] = None
      /\ disk'["keyboard"] = disk["keyboard"] /\ disk'["readonly"] = disk["readonly"]
  BY <1>1, OtherFileWritten DEF FilesInv, OnDisk
<1>3. FilesInv'
  BY <1>1, <1>2, JobDone, Ended
<1>4. saved => Agree'
  <2>1. saved => Level' /\ disk'["keyboard"] = Metadata' /\ disk'["readonly"] = Metadata'
    BY <1>1, <1>2 DEF Syncing
  <2>2. QED
    BY <1>2, <2>1, FilesAre DEF Agree, Level
<1>5. QED
  BY <1>3, <1>4

-----------------------------------------------------------------------------
\* The mapping process.

LEMMA LaunchKeeps ==
  ASSUME FilesInv, LaunchNew \/ LaunchContinue
  PROVE  FilesInv'
<1>1. /\ Due("launch") /\ disk' = disk /\ unflushed' = unflushed /\ saved' = saved
      /\ saves' = saves /\ todo' = Tail(todo)
  BY DEF LaunchNew, LaunchContinue
<1>2. Launching(1) /\ ~saved
  BY <1>1, NextJobIs
<1>3. /\ Len(todo') = 1 /\ todo'[1] = Do("sync", "generated") /\ IsQueue(todo')
  BY <1>1, <1>2, JobDone DEF Launching
<1>4. /\ karto'.on
      /\ karto' = [on |-> karto'.on, frame |-> karto'.frame, graph |-> karto'.graph]
      /\ karto'.frame \in Nat /\ karto'.frame <= frames' /\ frames' \in Nat /\ frames' >= frames
      /\ \A f \in Drawn \union {"graph"} : Whole(f) => disk[f].frame <= karto'.frame
  <2>1. CASE LaunchNew
    <3>1. karto' = [on |-> TRUE, frame |-> frames + 1, graph |-> EmptyGraph] /\ frames' = frames + 1
      BY <2>1 DEF LaunchNew
    <3>2. karto'.on /\ karto'.frame = frames + 1 /\ karto'.graph = EmptyGraph
      BY <3>1
    <3>3. karto' = [on |-> karto'.on, frame |-> karto'.frame, graph |-> karto'.graph]
      BY <3>1
    <3>4. ASSUME NEW f \in Drawn \union {"graph"}, Whole(f)
          PROVE  disk[f].frame <= frames + 1
      <4>1. disk[f].frame \in Nat /\ disk[f].frame <= frames /\ frames \in Nat
        BY <3>4 DEF FilesInv, OnDisk, IsMap
      <4>2. QED
        BY <4>1
    <3>5. QED
      BY <3>1, <3>2, <3>3, <3>4 DEF FilesInv, OnDisk
  <2>2. CASE LaunchContinue
    <3>1. PICK graph : karto' = [on |-> TRUE, frame |-> disk["graph"].frame, graph |-> graph]
      BY <2>2 DEF LaunchContinue
    <3>2. karto'.on /\ karto'.frame = disk["graph"].frame /\ karto'.graph = graph
      BY <3>1
    <3>3. karto' = [on |-> karto'.on, frame |-> karto'.frame, graph |-> karto'.graph]
      BY <3>1
    <3>4. Whole("graph") /\ frames' = frames
      BY <2>2 DEF LaunchContinue
    <3>5. disk["graph"].frame \in Nat /\ disk["graph"].frame <= frames /\ frames \in Nat
      BY <3>4 DEF FilesInv, OnDisk, IsMap
    <3>6. \A f \in Drawn : Whole(f) => disk[f].frame <= disk["graph"].frame
      BY <3>5 DEF FilesInv, OnDisk, IsMap, SavesTrail, Drawn
    <3>7. QED
      BY <3>2, <3>3, <3>4, <3>5, <3>6
  <2>3. QED
    BY <2>1, <2>2
<1>5. OnDisk' /\ SavesTrail'
  <2>1. unflushed' \subseteq unflushed /\ saves' \in Nat /\ saves' >= saves
    BY <1>1 DEF FilesInv, OnDisk
  <2>2. QED
    BY <1>1, <1>4, <2>1, FilesRest
<1>6. InProcess'
  <2>1. \A f \in Drawn \union {"graph"} : Whole(f)' => disk'[f].frame <= karto'.frame
    BY <1>1, <1>4 DEF Whole
  <2>2. QED
    BY <1>1, <1>2, <1>3, <1>4, <2>1 DEF InProcess
<1>7. QED
  BY <1>3, <1>4, <1>5, <1>6 DEF FilesInv

LEMMA ScanAcceptedKeeps ==
  ASSUME FilesInv, ScanAccepted
  PROVE  FilesInv'
<1>1. /\ karto.on /\ disk' = disk /\ unflushed' = unflushed /\ todo' = todo /\ saved' = saved
      /\ frames' = frames /\ saves' = saves
  BY DEF ScanAccepted
<1>2. PICK graph : karto' = [karto EXCEPT !.graph = graph]
  BY DEF ScanAccepted
<1>3. /\ karto'.on = karto.on /\ karto'.frame = karto.frame
      /\ karto' = [on |-> karto'.on, frame |-> karto'.frame, graph |-> karto'.graph]
  <2> DEFINE on == karto.on
             frame == karto.frame
             old == karto.graph
  <2>1. karto = [on |-> on, frame |-> frame, graph |-> old]
    BY DEF FilesInv, InProcess
  <2>2. on = karto.on /\ frame = karto.frame
    OBVIOUS
  <2> HIDE DEF on, frame, old
  <2>3. karto' = [on |-> on, frame |-> frame, graph |-> graph]
    BY <1>2, <2>1
  <2>4. QED
    BY <2>2, <2>3
<1>4. OnDisk' /\ SavesTrail'
  <2>1. /\ unflushed' \subseteq unflushed
        /\ frames' \in Nat /\ frames' >= frames /\ saves' \in Nat /\ saves' >= saves
    BY <1>1 DEF FilesInv, OnDisk
  <2>2. QED
    BY <1>1, <2>1, FilesRest
<1>5. InProcess'
  BY <1>1, <1>3 DEF FilesInv, InProcess, Whole
<1>6. QED
  BY <1>1, <1>3, <1>4, <1>5 DEF FilesInv

\* The sync alone is left.
LEMMA SyncLeft ==
  ASSUME FilesInv, OnDisk', SavesTrail', karto' = Off,
         Len(todo') = 1, todo'[1] = Do("sync", "generated"), IsQueue(todo'), ~saved'
  PROVE  FilesInv'
<1>1. SyncDue'
  BY DEF SyncDue
<1>2. QED
  BY <1>1, Off_InProcess DEF FilesInv, AtWork

LEMMA EventsEndKeeps ==
  ASSUME FilesInv, EventsEnd
  PROVE  FilesInv'
<1>1. /\ karto.on /\ karto' = Off /\ todo' \in {todo, <<>>} /\ disk' = disk /\ unflushed' = unflushed
      /\ saved' = saved /\ frames' = frames /\ saves' = saves
  BY DEF EventsEnd
<1>2. OnDisk' /\ SavesTrail'
  <2>1. /\ unflushed' \subseteq unflushed
        /\ frames' \in Nat /\ frames' >= frames /\ saves' \in Nat /\ saves' >= saves
    BY <1>1 DEF FilesInv, OnDisk
  <2>2. QED
    BY <1>1, <2>1, FilesRest
<1>3. CASE todo' = <<>>
  BY <1>1, <1>2, <1>3, Ended
<1>4. CASE todo' = todo
  <2>1. /\ Len(todo') = 1 /\ todo'[1] = Do("sync", "generated") /\ IsQueue(todo') /\ ~saved'
    BY <1>1, <1>4 DEF FilesInv, InProcess
  <2>2. QED
    BY <1>1, <1>2, <2>1, SyncLeft
<1>5. QED
  BY <1>1, <1>3, <1>4

LEMMA StopKeeps ==
  ASSUME FilesInv, Stop
  PROVE  FilesInv'
<1>1. /\ karto.on /\ karto' = Off /\ disk' = disk /\ unflushed' = unflushed
      /\ saved' = saved /\ ~saved /\ frames' = frames
      /\ Len(todo) = 1 /\ todo[1] = Do("sync", "generated") /\ IsQueue(todo)
  BY DEF Stop, FilesInv, InProcess
<1>2. OnDisk' /\ SavesTrail' /\ frames \in Nat /\ saves \in Nat
  <2>1. saves' = saves \/ saves' = saves + 1
    BY DEF Stop
  <2>2. /\ unflushed' \subseteq unflushed /\ frames \in Nat /\ saves \in Nat
        /\ frames' \in Nat /\ frames' >= frames /\ saves' \in Nat /\ saves' >= saves
    BY <1>1, <2>1 DEF FilesInv, OnDisk
  <2>3. QED
    BY <1>1, <2>2, FilesRest
<1>3. CASE karto.graph.nodes = 0
  BY <1>1, <1>2, <1>3, SyncLeft DEF Stop
<1>4. CASE karto.graph.nodes # 0
  <2> DEFINE map == [frame |-> karto.frame, save |-> saves + 1,
                     nodes |-> karto.graph.nodes, crop |-> FALSE]
             steps == SaveSteps(map)
  <2>1. todo' = steps \o todo /\ saves' = saves + 1
    BY <1>4 DEF Stop
  <2>2. /\ IsMap(map) /\ map.frame = karto.frame /\ map.save = saves + 1
        /\ karto.frame \in Nat /\ karto.frame <= frames
        /\ \A f \in Drawn \union {"graph"} : Whole(f) => disk[f].frame <= karto.frame
    BY <1>1, <1>2, MapsMade DEF FilesInv, InProcess
  <2>3. \A f \in Drawn \union {"graph"} : Whole(f)' => NoNewer(disk'[f], map)
    BY <1>1, <1>2, <2>2 DEF FilesInv, OnDisk, IsMap, NoNewer, Whole
  <2> HIDE DEF map
  <2>4. IsQueue(steps) /\ Len(steps) = 4 /\ \A i \in 1..4 : steps[i] = Save(SaveOrder[i], map)
    BY DEF SaveSteps, SaveOrder, IsQueue
  <2> HIDE DEF steps
  <2>5. /\ IsQueue(todo') /\ Len(todo') = Len(steps) + Len(todo)
        /\ \A i \in 1..Len(steps) : todo'[i] = steps[i]
        /\ \A i \in 1..Len(todo) : todo'[Len(steps) + i] = todo[i]
    <3>1. IsQueue(steps) /\ IsQueue(todo)
      BY <1>1, <2>4
    <3>2. QED
      BY <2>1, <3>1, QueueConcat
  <2>6. /\ Len(todo') = 5 /\ todo'[5] = Do("sync", "generated")
        /\ \A i \in 1..4 : todo'[i] = Save(SaveOrder[i], map)
    BY <1>1, <2>4, <2>5
  <2>7. todo'[1].content = map
    BY <2>6 DEF Save
  <2>8. \A i \in 1..5 - 1 : todo'[i].op = "save" /\ todo'[i] = Save(SaveOrder[1 - 1 + i], map)
    BY <2>6 DEF Save
  <2>9. Len(todo') = 6 - 1 /\ todo'[6 - 1] = Do("sync", "generated")
    BY <2>6
  <2>10. IsMap(map) /\ map.frame <= frames' /\ map.save <= saves'
    BY <1>1, <1>2, <2>1, <2>2
  <2>11. Saving(1)'
    <3>1. \A j \in 1..1 - 1 : disk'[SaveOrder[j]] = map
      OBVIOUS
    <3>2. QED
      BY <1>1, <2>3, <2>7, <2>8, <2>9, <2>10, <3>1, Zenon DEF Saving
  <2>12. QED
    BY <1>1, <1>2, <2>5, <2>11, Off_InProcess DEF FilesInv, AtWork
<1>5. QED
  BY <1>3, <1>4

LEMMA SaveFileKeeps ==
  ASSUME FilesInv, SaveFile
  PROVE  FilesInv'
<1> DEFINE map == todo[1].content
<1>1. /\ Due("save") /\ Head(todo) = todo[1] /\ karto' = karto /\ ~karto.on
      /\ frames' = frames /\ saves' = saves /\ todo' = Tail(todo)
  BY NextJobIs DEF SaveFile
<1>2. PICK k \in 1..4 : Saving(k)
  BY <1>1, NextJobIs
<1> DEFINE file == SaveOrder[k]
<1>3. /\ Len(todo) = 6 - k /\ todo[6 - k] = Do("sync", "generated")
      /\ \A i \in 1..5 - k : todo[i].op = "save" /\ todo[i] = Save(SaveOrder[k - 1 + i], map)
      /\ IsMap(map) /\ map.frame <= frames /\ map.save <= saves
      /\ \A j \in 1..k - 1 : disk[SaveOrder[j]] = map
      /\ \A f \in Drawn \union {"graph"} : Whole(f) => NoNewer(disk[f], map)
      /\ ~saved
  BY <1>2 DEF Saving
<1>4. todo[1] = Save(file, map)
  <2>1. 1 \in 1..5 - k /\ k - 1 + 1 = k
    OBVIOUS
  <2>2. QED
    BY <1>3, <2>1
<1>5. /\ disk' = [disk EXCEPT ![file] = map]
      /\ "graph" \notin unflushed'
      /\ saved' = (saved \/ file = "meta")
  <2>1. todo[1].file = file /\ todo[1].content = map
    BY <1>4 DEF Save
  <2>2. /\ disk' = [disk EXCEPT ![file] = map] /\ saved' = (saved \/ file = "meta")
        /\ unflushed' = IF file = "graph" THEN unflushed \ {"graph"} ELSE unflushed \union {file}
    BY <1>1, <2>1 DEF SaveFile
  <2>3. QED
    BY <2>2 DEF FilesInv, OnDisk
<1> HIDE DEF map
<1>6. /\ file \in Drawn \union {"graph"} /\ Drawn \union {"graph"} \subseteq File
      /\ (file = "meta" <=> k = 4) /\ (file = "graph" <=> k = 1)
  BY FilesAre DEF SaveOrder, Drawn
<1> HIDE DEF file
<1>7. /\ disk' = [f \in File |-> disk'[f]] /\ disk'[file] = map /\ Whole(file)'
      /\ \A f \in File : f # file => disk'[f] = disk[f] /\ (Whole(f)' <=> Whole(f))
  BY <1>3, <1>5, <1>6, OneFileWritten, MapIsWhole DEF FilesInv
<1>8. disk'["graph"] = map
  <2>1. CASE k = 1
    BY <1>6, <1>7, <2>1
  <2>2. CASE k # 1
    <3>1. 1 \in 1..k - 1 /\ SaveOrder[1] = "graph"
      BY <2>2 DEF SaveOrder
    <3>2. disk["graph"] = map
      BY <1>3, <3>1
    <3>3. QED
      BY <1>6, <1>7, <2>2, <3>2
  <2>3. QED
    BY <2>1, <2>2
<1>9. OnDisk'
  <2>1. \A f \in Drawn \union {"graph"} :
          Whole(f)' => IsMap(disk'[f]) /\ disk'[f].frame <= frames /\ disk'[f].save <= saves
    BY <1>3, <1>6, <1>7 DEF FilesInv, OnDisk
  <2>2. disk'["graph"] # Torn
    BY <1>3, <1>8, MapIsWhole
  <2>3. QED
    BY <1>1, <1>5, <1>7, <2>1, <2>2 DEF FilesInv, OnDisk
<1>10. \A f \in Drawn \union {"graph"} : Whole(f)' => NoNewer(disk'[f], map)
  <2>1. NoNewer(map, map)
    BY <1>3 DEF NoNewer, IsMap
  <2>2. QED
    BY <1>3, <1>6, <1>7, <2>1
<1>11. SavesTrail'
  <2>1. Whole("graph")'
    BY <1>3, <1>8, MapIsWhole DEF Whole
  <2>2. QED
    BY <1>8, <1>10, <2>1 DEF SavesTrail, NoNewer, Drawn
<1>12. \A j \in 1..k : disk'[SaveOrder[j]] = map
  <2>1. ASSUME NEW j \in 1..k PROVE disk'[SaveOrder[j]] = map
    <3>1. SaveOrder[j] \in File
      BY FilesAre DEF SaveOrder
    <3>2. j = k \/ j \in 1..k - 1
      OBVIOUS
    <3>3. QED
      BY <1>3, <1>7, <3>1, <3>2 DEF file
  <2>2. QED
    BY <2>1
<1>13. /\ Len(todo') = 5 - k /\ IsQueue(todo')
       /\ \A i \in 1..5 - k : todo'[i] = todo[i + 1]
  BY <1>1, <1>3, JobDone
<1>14. AtWork'
  <2>1. CASE k < 4
    <3>1. PICK m \in 1..4 : m = k + 1
      BY <2>1
    <3>2. ASSUME NEW i \in 1..5 - m
          PROVE  todo'[i].op = "save" /\ todo'[i] = Save(SaveOrder[m - 1 + i], map)
      <4>1. i + 1 \in 1..5 - k /\ k - 1 + (i + 1) = m - 1 + i /\ i \in 1..5 - k
        BY <3>1
      <4>2. QED
        BY <1>3, <1>13, <4>1
    <3>3. todo'[1].content = map
      <4>1. 1 \in 1..5 - m
        BY <2>1, <3>1
      <4>2. todo'[1] = Save(SaveOrder[m - 1 + 1], map)
        BY <3>2, <4>1
      <4>3. QED
        BY <4>2 DEF Save
    <3>4. Len(todo') = 6 - m /\ todo'[6 - m] = Do("sync", "generated")
      <4>1. 6 - m = 5 - k /\ 5 - k \in 1..5 - k /\ (5 - k) + 1 = 6 - k
        BY <2>1, <3>1
      <4>2. QED
        BY <1>3, <1>13, <4>1
    <3>5. \A j \in 1..m - 1 : disk'[SaveOrder[j]] = map
      BY <1>12, <3>1
    <3>6. ~saved' /\ IsMap(map) /\ map.frame <= frames' /\ map.save <= saves'
      <4>1. file # "meta"
        BY <1>6, <2>1
      <4>2. ~saved'
        BY <1>3, <1>5, <4>1, Zenon
      <4>3. QED
        BY <1>1, <1>3, <4>2
    <3>7. Saving(m)'
      BY <1>10, <3>2, <3>3, <3>4, <3>5, <3>6, Zenon DEF Saving
    <3>8. QED
      BY <3>7 DEF AtWork
  <2>2. CASE k = 4
    <3>1. Len(todo') = 1 /\ todo'[1] = Do("sync", "generated")
      BY <1>3, <1>13, <2>2
    <3>2. Level'
      <4>1. /\ disk'["graph"] = map /\ disk'["pgm"] = map /\ disk'["yaml"] = map /\ disk'["meta"] = map
        BY <1>12, <2>2 DEF SaveOrder
      <4>2. QED
        BY <1>3, <4>1, MapIsWhole DEF Level, Whole, Drawn
    <3>3. SyncDue'
      BY <3>1, <3>2 DEF SyncDue
    <3>4. QED
      BY <3>3 DEF AtWork
  <2>3. QED
    BY <2>1, <2>2
<1>15. QED
  BY <1>1, <1>9, <1>11, <1>13, <1>14, Off_InProcess DEF FilesInv

LEMMA SaveFailsKeeps ==
  ASSUME FilesInv, SaveFails
  PROVE  FilesInv'
<1>1. /\ Due("save") /\ karto' = karto /\ ~karto.on /\ disk' = disk /\ unflushed' = unflushed
      /\ saved' = saved /\ frames' = frames /\ saves' = saves
  BY NextJobIs DEF SaveFails
<1>2. PICK k \in 1..4 : Saving(k)
  BY <1>1, NextJobIs
<1>3. /\ Len(todo) = 6 - k /\ todo[6 - k] = Do("sync", "generated")
      /\ \A i \in 1..5 - k : todo[i].op = "save"
      /\ ~saved
  BY <1>2 DEF Saving
<1>4. IsQueue(todo) /\ DOMAIN todo = 1..Len(todo)
  BY DEF FilesInv, IsQueue
<1>5. PICK n \in DOMAIN todo : /\ \A i \in DOMAIN todo : todo[i].op = "save" <=> i <= n
                               /\ todo' = SubSeq(todo, n + 1, Len(todo))
  BY DEF SaveFails
<1>6. n = 5 - k
  <2>1. n \in 1..6 - k
    BY <1>3, <1>4, <1>5
  <2>2. 6 - k \in DOMAIN todo /\ todo[6 - k].op # "save"
    BY <1>3, <1>4 DEF Do
  <2>3. ~(6 - k <= n)
    BY <1>5, <2>2
  <2>4. 5 - k \in DOMAIN todo /\ 5 - k \in 1..5 - k
    BY <1>3, <1>4
  <2>5. 5 - k <= n
    BY <1>3, <1>5, <2>4
  <2>6. QED
    BY <2>1, <2>3, <2>5
<1>7. /\ Len(todo') = 1 /\ IsQueue(todo') /\ todo'[1] = todo[1 + n]
  <2>1. n \in 0..Len(todo) /\ Len(todo) - n = 1
    BY <1>3, <1>6
  <2>2. /\ Len(todo') = Len(todo) - n /\ IsQueue(todo')
        /\ \A i \in 1..Len(todo) - n : todo'[i] = todo[i + n]
    BY <1>4, <1>5, <2>1, QueueRest
  <2>3. QED
    BY <1>3, <1>6, <2>1, <2>2
<1>8. todo'[1] = Do("sync", "generated")
  BY <1>3, <1>6, <1>7
<1>9. SyncDue'
  BY <1>1, <1>3, <1>7, <1>8 DEF SyncDue
<1>10. OnDisk' /\ SavesTrail'
  <2>1. /\ unflushed' \subseteq unflushed
        /\ frames' \in Nat /\ frames' >= frames /\ saves' \in Nat /\ saves' >= saves
    BY <1>1 DEF FilesInv, OnDisk
  <2>2. QED
    BY <1>1, <2>1, FilesRest
<1>11. QED
  BY <1>1, <1>7, <1>9, <1>10, Off_InProcess DEF FilesInv, AtWork

-----------------------------------------------------------------------------
\* Everything stops.

LEMMA CrashKeeps ==
  ASSUME FilesInv, Crash \/ LaunchRefused
  PROVE  FilesInv'
<1>1. /\ disk' = disk /\ unflushed' = unflushed /\ frames' = frames /\ saves' = saves
      /\ todo' = <<>>
      /\ karto' = Off \/ (karto' = karto /\ ~karto.on)
  BY DEF Crash, LaunchRefused, Due
<1>2. /\ unflushed' \subseteq unflushed
      /\ frames' \in Nat /\ frames' >= frames /\ saves' \in Nat /\ saves' >= saves
  BY <1>1 DEF FilesInv, OnDisk
<1>3. OnDisk' /\ SavesTrail'
  BY <1>1, <1>2, FilesRest
<1>4. QED
  BY <1>1, <1>3, Ended

LEMMA PowerLossKeeps ==
  ASSUME FilesInv, PowerLoss
  PROVE  FilesInv'
<1>1. PICK lost \in SUBSET unflushed :
        disk' = [f \in File |-> IF f \in lost /\ disk[f] # None THEN Torn ELSE disk[f]]
  BY DEF PowerLoss
<1>2. unflushed' = {} /\ karto' = Off /\ todo' = <<>> /\ frames' = frames /\ saves' = saves
  BY DEF PowerLoss
<1>3. /\ disk' = [f \in File |-> disk'[f]]
      /\ \A f \in File : disk'[f] = IF f \in lost /\ disk[f] # None THEN Torn ELSE disk[f]
  BY <1>1
<1>4. Drawn \union {"graph"} \subseteq File
  BY FilesAre DEF Drawn
<1>5. ASSUME NEW f \in Drawn \union {"graph"}, Whole(f)'
      PROVE  disk'[f] = disk[f] /\ Whole(f)
  BY <1>3, <1>4, <1>5 DEF Whole
<1>6. disk'["graph"] = disk["graph"] /\ (Whole("graph")' <=> Whole("graph"))
  <2>1. "graph" \notin lost /\ "graph" \in File
    BY <1>1, FilesAre DEF FilesInv, OnDisk
  <2>2. QED
    BY <1>3, <2>1 DEF Whole
<1>7. OnDisk'
  BY <1>2, <1>3, <1>5, <1>6 DEF FilesInv, OnDisk
<1>8. SavesTrail'
  <2>1. ASSUME NEW f \in Drawn, Whole(f)'
        PROVE  disk'[f] = disk[f] /\ Whole(f)
    BY <1>5, <2>1
  <2>2. QED
    BY <1>6, <2>1 DEF FilesInv, SavesTrail, Drawn
<1>9. QED
  BY <1>2, <1>7, <1>8, Ended

\* What only changes what the disk has taken, or nothing at all.
LEMMA StuttersKeep ==
  ASSUME FilesInv, disk' = disk, unflushed' \subseteq unflushed, karto' = karto, todo' = todo,
         saved' = saved, frames' = frames, saves' = saves
  PROVE  FilesInv'
<1>1. OnDisk' /\ SavesTrail'
  <2>1. frames' \in Nat /\ frames' >= frames /\ saves' \in Nat /\ saves' >= saves
    BY DEF FilesInv, OnDisk
  <2>2. QED
    BY <2>1, FilesRest
<1>2. InProcess'
  BY DEF FilesInv, InProcess, Whole
<1>3. IsQueue(todo')
  BY DEF FilesInv
<1>4. AtWork' <=> AtWork
  BY DEF AtWork, Moving, Launching, Saving, Cropping, SyncDue, Syncing, Generating,
         Level, Crops, PutDue, Whole, Metadata
<1>5. QED
  BY <1>1, <1>2, <1>3, <1>4 DEF FilesInv

-----------------------------------------------------------------------------
\* The specification.

LEMMA FilesNextKeeps ==
  ASSUME FilesInv, [FilesNext]_vars
  PROVE  FilesInv'
<1>1. CASE Flushed
  BY <1>1, StuttersKeep DEF Flushed
<1>2. CASE UNCHANGED vars
  BY <1>2, StuttersKeep DEF vars
<1>3. QED
  BY <1>1, <1>2, ProgramsKeep, MoveKeeps, PutFileKeeps, SyncKeeps, UnlinkKeeps, LaunchKeeps,
     ScanAcceptedKeeps, StopKeeps, EventsEndKeeps, SaveFileKeeps, SaveFailsKeeps, CrashKeeps,
     PowerLossKeeps DEF FilesNext

LEMMA FilesHold == FilesSpec => []FilesInv
BY FilesStart, FilesNextKeeps, PTL DEF FilesSpec
-----------------------------------------------------------------------------
\* The graphs: the one a process works on, the one on disk and the one that is being saved.

Counted(c) == "nodes" \in DOMAIN c /\ c.nodes \in Nat

\* Of the map in this file, if it is the one meant, no scan is missing.
NoFewer(file, frame, nodes) ==
  file \notin {None, Torn} /\ file.frame = frame => file.nodes <= nodes

SavesGraph(job) == job.op = "save" /\ job.file = "graph"

Graphs(file, jobs) ==
  \A i \in 1..Len(jobs) :
    SavesGraph(jobs[i]) => /\ Counted(jobs[i].content)
                           /\ NoFewer(file, jobs[i].content.frame, jobs[i].content.nodes)

GraphsInv ==
  /\ GraphInv(karto.graph)
  /\ Whole("graph") => Counted(disk["graph"])
  /\ karto.on => NoFewer(disk["graph"], karto.frame, karto.graph.nodes)
  /\ Graphs(disk["graph"], todo)

\* A program that does not save has no such job.
NoSaves(jobs) == \A i \in 1..Len(jobs) : jobs[i].op # "save"

LEMMA NoSavesConcat ==
  ASSUME NEW p, IsQueue(p), NoSaves(p), NEW q, IsQueue(q), NoSaves(q)
  PROVE  NoSaves(p \o q)
<1>1. /\ Len(p) \in Nat /\ Len(q) \in Nat /\ Len(p \o q) = Len(p) + Len(q)
      /\ \A i \in 1..Len(p) : (p \o q)[i] = p[i]
      /\ \A i \in 1..Len(q) : (p \o q)[Len(p) + i] = q[i]
  BY QueueConcat
<1>2. ASSUME NEW i \in 1..Len(p \o q) PROVE (p \o q)[i].op # "save"
  <2>1. CASE i <= Len(p)
    <3>1. i \in 1..Len(p)
      BY <1>1, <2>1
    <3>2. QED
      BY <1>1, <3>1 DEF NoSaves
  <2>2. CASE ~(i <= Len(p))
    <3>1. i - Len(p) \in 1..Len(q) /\ Len(p) + (i - Len(p)) = i
      BY <1>1, <2>2
    <3>2. QED
      BY <1>1, <3>1 DEF NoSaves
  <2>3. QED
    BY <2>1, <2>2
<1>3. QED
  BY <1>2 DEF NoSaves

\* What a step keeps that leaves the graph on disk alone and adds no job that saves one.
LEMMA GraphsRest ==
  ASSUME GraphsInv, disk'["graph"] = disk["graph"],
         karto' = karto \/ (~karto'.on /\ GraphInv(karto'.graph)),
         NoSaves(todo') \/ \A i \in 1..Len(todo') : \E j \in 1..Len(todo) : todo'[i] = todo[j]
  PROVE  GraphsInv'
<1>1. Whole("graph")' <=> Whole("graph")
  BY DEF Whole
<1>2. GraphInv(karto'.graph) /\ (karto'.on => NoFewer(disk'["graph"], karto'.frame, karto'.graph.nodes))
  BY DEF GraphsInv
<1>3. Graphs(disk'["graph"], todo')
  <2>1. CASE NoSaves(todo')
    BY <2>1 DEF Graphs, NoSaves, SavesGraph
  <2>2. CASE \A i \in 1..Len(todo') : \E j \in 1..Len(todo) : todo'[i] = todo[j]
    BY <2>2 DEF GraphsInv, Graphs
  <2>3. QED
    BY <2>1, <2>2
<1>4. QED
  BY <1>1, <1>2, <1>3 DEF GraphsInv

LEMMA OffGraph == Off.on = FALSE /\ GraphInv(Off.graph)
BY EmptyIsGraph DEF Off

LEMMA TailJobs ==
  ASSUME FilesInv, todo # <<>>, todo' = Tail(todo)
  PROVE  \A i \in 1..Len(todo') : \E j \in 1..Len(todo) : todo'[i] = todo[j]
<1>1. /\ Len(todo) \in Nat /\ Len(todo') = Len(todo) - 1
      /\ \A i \in 1..Len(todo) - 1 : todo'[i] = todo[i + 1]
  BY QueueTail DEF FilesInv
<1>2. \A i \in 1..Len(todo') : i + 1 \in 1..Len(todo) /\ i \in 1..Len(todo) - 1
  BY <1>1
<1>3. QED
  BY <1>1, <1>2

LEMMA NoJobs == NoSaves(<<>>)
BY DEF NoSaves

LEMMA GraphsStart == FilesInit => GraphsInv
<1> SUFFICES ASSUME FilesInit PROVE GraphsInv
  OBVIOUS
<1>2. karto.on = FALSE /\ GraphInv(karto.graph)
  BY OffGraph DEF FilesInit
<1>3. ~Whole("graph")
  BY FilesAre, ContentsDiffer DEF FilesInit, Whole
<1>4. Graphs(disk["graph"], todo)
  BY DEF FilesInit, Graphs
<1>5. QED
  BY <1>2, <1>3, <1>4 DEF GraphsInv

LEMMA ProgramsKeepGraphs ==
  ASSUME GraphsInv, Programs
  PROVE  GraphsInv'
<1>1. ASSUME NEW steps, Begin(steps), NoSaves(steps) PROVE GraphsInv'
  BY <1>1, GraphsRest DEF Begin
<1>2. ASSUME NEW mode, NEW dry \in BOOLEAN, RunMapping(mode, dry) PROVE GraphsInv'
  <2> DEFINE moves == [i \in 1..4 |-> Do("move", Artifacts[i])]
             launch == IF mode = "continue" THEN mode ELSE "new"
             start == <<Do("launch", launch), Do("sync", "generated")>>
             front == IF mode = "clean" THEN moves ELSE <<>>
             rest == IF dry THEN <<>> ELSE start
  <2>1. Begin(front \o rest)
    BY <1>2 DEF RunMapping
  <2>2. IsQueue(moves) /\ Len(moves) = 4 /\ NoSaves(moves)
    BY DEF IsQueue, NoSaves, Do
  <2>3. IsQueue(start) /\ NoSaves(start)
    BY DEF IsQueue, NoSaves, Do
  <2> HIDE DEF moves, start
  <2>4. IsQueue(front) /\ NoSaves(front) /\ IsQueue(rest) /\ NoSaves(rest)
    BY <2>2, <2>3, QueueEmpty, NoJobs
  <2> HIDE DEF front, rest
  <2>5. NoSaves(front \o rest)
    BY <2>4, NoSavesConcat
  <2>6. QED
    BY <1>1, <2>1, <2>5
<1>3. ASSUME NEW mode, NEW force \in BOOLEAN, RunNavigation(mode, force) PROVE GraphsInv'
  <2>1. Begin(<<Put("generated", Made)>>)
    BY <1>3 DEF RunNavigation
  <2>2. NoSaves(<<Put("generated", Made)>>)
    BY DEF NoSaves, Put
  <2>3. QED
    BY <1>1, <2>1, <2>2
<1>4. NoSaves(<<Do("sync", "generated")>>) /\ IsQueue(<<Do("sync", "generated")>>)
  BY DEF NoSaves, Do, IsQueue
<1>5. ASSUME NEW crops \in BOOLEAN, Finalize(crops) PROVE GraphsInv'
  <2> DEFINE pgm == Cropped(disk["pgm"])
             yaml == Cropped(disk["yaml"])
             puts == <<Put("pgm", pgm), Put("yaml", yaml)>>
             sync == <<Do("sync", "generated")>>
             front == IF crops THEN puts ELSE <<>>
  <2>1. Begin(front \o sync)
    BY <1>5 DEF Finalize
  <2> HIDE DEF pgm, yaml
  <2>2. IsQueue(puts) /\ NoSaves(puts)
    BY DEF NoSaves, Put, IsQueue
  <2> HIDE DEF puts
  <2>3. IsQueue(front) /\ NoSaves(front)
    BY <2>2, QueueEmpty, NoJobs
  <2> HIDE DEF front
  <2>4. NoSaves(front \o sync)
    BY <1>4, <2>3, NoSavesConcat
  <2>5. QED
    BY <1>1, <2>1, <2>4
<1>6. ASSUME SyncMap PROVE GraphsInv'
  BY <1>1, <1>4, <1>6 DEF SyncMap
<1>7. ASSUME CleanRuntime PROVE GraphsInv'
  <2>1. NoSaves(<<Do("unlink", "generated")>>)
    BY DEF NoSaves, Do
  <2>2. QED
    BY <1>1, <1>7, <2>1 DEF CleanRuntime
<1>8. QED
  BY <1>2, <1>3, <1>5, <1>6, <1>7 DEF Programs
LEMMA MoveKeepsGraphs ==
  ASSUME FilesInv, GraphsInv, Move
  PROVE  GraphsInv'
<1>1. /\ todo # <<>> /\ todo' = Tail(todo) /\ disk' = [disk EXCEPT ![Head(todo).file] = None]
      /\ karto' = karto
  BY DEF Move, Due
<1>2. \A i \in 1..Len(todo') : \E j \in 1..Len(todo) : todo'[i] = todo[j]
  BY <1>1, TailJobs
<1>3. CASE disk'["graph"] = disk["graph"]
  BY <1>1, <1>2, <1>3, GraphsRest
<1>4. CASE disk'["graph"] = None
  <2>1. ~Whole("graph")' /\ \A frame, nodes : NoFewer(disk'["graph"], frame, nodes)
    BY <1>4 DEF Whole, NoFewer
  <2>2. Graphs(disk'["graph"], todo')
    BY <1>2, <2>1 DEF GraphsInv, Graphs
  <2>3. QED
    BY <1>1, <2>1, <2>2 DEF GraphsInv
<1>5. disk'["graph"] = disk["graph"] \/ disk'["graph"] = None
  BY <1>1, FilesAre DEF FilesInv, OnDisk
<1>6. QED
  BY <1>3, <1>4, <1>5

\* Only the saves write the graph.
LEMMA PutLeavesGraph ==
  ASSUME FilesInv, PutFile
  PROVE  disk'["graph"] = disk["graph"]
<1>1. /\ Due("put") /\ Head(todo) = todo[1]
      /\ Cropping \/ Generating \/ (Syncing /\ Len(todo) \in 2..3)
  BY NextJobIs DEF PutFile
<1>2. todo[1].file # "graph"
  <2>1. Cropping => todo[1].file # "graph"
    BY DEF Cropping, PutDue, Put
  <2>2. Generating => todo[1].file # "graph"
    BY DEF Generating, Put
  <2>3. Syncing /\ Len(todo) \in 2..3 => todo[1].file # "graph"
    <3>1. Syncing /\ Len(todo) = 2 => todo[1].file # "graph"
      BY DEF Syncing, PutDue, Put
    <3>2. Syncing /\ Len(todo) = 3 => todo[1].file # "graph"
      BY DEF Syncing, PutDue, Put
    <3>3. Len(todo) \in 2..3 => Len(todo) = 2 \/ Len(todo) = 3
      OBVIOUS
    <3>4. QED
      BY <3>1, <3>2, <3>3
  <2>4. QED
    BY <1>1, <2>1, <2>2, <2>3
<1>3. disk' = disk \/ disk' = [disk EXCEPT ![todo[1].file] = todo[1].content]
  BY <1>1 DEF PutFile, Written
<1>4. QED
  BY <1>2, <1>3, FilesAre DEF FilesInv, OnDisk

LEMMA PutFileKeepsGraphs ==
  ASSUME FilesInv, GraphsInv, PutFile
  PROVE  GraphsInv'
<1>1. todo # <<>> /\ (todo' = Tail(todo) \/ todo' = <<>>) /\ karto' = karto
  BY DEF PutFile, Due
<1>2. NoSaves(todo') \/ \A i \in 1..Len(todo') : \E j \in 1..Len(todo) : todo'[i] = todo[j]
  BY <1>1, TailJobs, NoJobs
<1>3. QED
  BY <1>1, <1>2, PutLeavesGraph, GraphsRest

LEMMA SyncKeepsGraphs ==
  ASSUME GraphsInv, Sync
  PROVE  GraphsInv'
<1> DEFINE puts == [i \in 1..2 |-> Put(Auxiliary[i], Metadata)]
           last == <<Do("unlink", "generated")>>
<1>1. disk' = disk /\ karto' = karto /\ todo' \in {puts \o last, <<>>}
  BY DEF Sync
<1>2. IsQueue(puts) /\ NoSaves(puts) /\ IsQueue(last) /\ NoSaves(last)
  BY DEF IsQueue, NoSaves, Put, Do
<1> HIDE DEF puts, last
<1>3. NoSaves(puts \o last)
  BY <1>2, NoSavesConcat
<1>4. NoSaves(todo')
  BY <1>1, <1>3, NoJobs
<1>5. QED
  BY <1>1, <1>4, GraphsRest

LEMMA UnlinkKeepsGraphs ==
  ASSUME FilesInv, GraphsInv, Unlink
  PROVE  GraphsInv'
<1>1. /\ todo # <<>> /\ todo' = Tail(todo) /\ disk' = [disk EXCEPT !["generated"] = None]
      /\ karto' = karto
  BY DEF Unlink, Due
<1>2. disk'["graph"] = disk["graph"]
  BY <1>1, FilesAre DEF FilesInv, OnDisk
<1>3. QED
  BY <1>1, <1>2, TailJobs, GraphsRest

LEMMA LaunchKeepsGraphs ==
  ASSUME FilesInv, GraphsInv, LaunchNew \/ LaunchContinue
  PROVE  GraphsInv'
<1>1. disk' = disk /\ todo # <<>> /\ todo' = Tail(todo)
  BY DEF LaunchNew, LaunchContinue, Due
<1>2. Graphs(disk'["graph"], todo') /\ (Whole("graph")' <=> Whole("graph"))
  <2>1. \A i \in 1..Len(todo') : \E j \in 1..Len(todo) : todo'[i] = todo[j]
    BY <1>1, TailJobs
  <2>2. QED
    BY <1>1, <2>1 DEF GraphsInv, Graphs, Whole
<1>3. GraphInv(karto'.graph) /\ NoFewer(disk["graph"], karto'.frame, karto'.graph.nodes)
  <2>1. CASE LaunchNew
    <3>1. karto'.frame = frames + 1 /\ karto'.graph = EmptyGraph
      BY <2>1 DEF LaunchNew
    <3>2. Whole("graph") => disk["graph"].frame # frames + 1
      BY DEF FilesInv, OnDisk, IsMap
    <3>3. QED
      BY <3>1, <3>2, EmptyIsGraph DEF NoFewer, Whole
  <2>2. CASE LaunchContinue
    <3> DEFINE count == disk["graph"].nodes
               nears(near) == [i \in 1..count |-> IF near /\ i > 2 THEN {i - 2} ELSE {}]
    <3>1. PICK near \in BOOLEAN :
            karto' = [on |-> TRUE, frame |-> disk["graph"].frame,
                      graph |-> Restored(count, nears(near))]
      BY <2>2 DEF LaunchContinue
    <3>2. count \in Nat
      BY <2>2 DEF LaunchContinue, GraphsInv, Counted
    <3>3. \A k \in 1..count : nears(near)[k] \subseteq 1..k - 1
      OBVIOUS
    <3>4. karto'.frame = disk["graph"].frame /\ karto'.graph = Restored(count, nears(near))
      BY <3>1
    <3> HIDE DEF nears, count
    <3>5. GraphInv(karto'.graph) /\ karto'.graph.nodes = count
      BY <3>2, <3>3, <3>4, RestoredKeeps
    <3>6. count <= count
      BY <3>2
    <3>7. QED
      BY <3>5, <3>6 DEF NoFewer, count
  <2>3. QED
    BY <2>1, <2>2
<1>4. QED
  BY <1>1, <1>2, <1>3 DEF GraphsInv

LEMMA ScanAcceptedKeepsGraphs ==
  ASSUME FilesInv, GraphsInv, ScanAccepted
  PROVE  GraphsInv'
<1> DEFINE g == karto.graph
           h == karto'.graph
<1>1. karto.on /\ disk' = disk /\ todo' = todo
  BY DEF ScanAccepted
<1>2. PICK around \in Surroundings(g), usable \in BOOLEAN :
        karto' = [karto EXCEPT !.graph = Process(g, around[1], around[2], usable)]
  BY DEF ScanAccepted
<1>3. h = Process(g, around[1], around[2], usable) /\ karto'.frame = karto.frame
  <2>1. {"on", "frame", "graph"} = DOMAIN karto
    BY DEF FilesInv, InProcess
  <2>2. QED
    BY <1>2, <2>1
<1>4. GraphInv(g) /\ g.nodes \in Nat
  BY Zenon DEF GraphsInv, GraphInv
<1> HIDE DEF g, h
<1>5. around[1] \in SUBSET (1..g.nodes) /\ Closable(g, around[1], around[2])
  BY <1>4, SurroundingsLaw
<1>6. GraphInv(h) /\ h.nodes = g.nodes + 1
  BY <1>3, <1>4, <1>5, ProcessKeeps
<1>7. NoFewer(disk["graph"], karto'.frame, h.nodes)
  <2>1. NoFewer(disk["graph"], karto.frame, g.nodes)
    BY <1>1 DEF GraphsInv, g
  <2>2. Whole("graph") => disk["graph"].nodes \in Nat
    BY DEF GraphsInv, Counted
  <2>3. QED
    BY <1>3, <1>4, <1>6, <2>1, <2>2 DEF NoFewer, Whole
<1>8. Graphs(disk'["graph"], todo') /\ (Whole("graph")' <=> Whole("graph"))
  BY <1>1 DEF GraphsInv, Whole
<1>9. QED
  BY <1>1, <1>6, <1>7, <1>8 DEF GraphsInv, h

LEMMA StopKeepsGraphs ==
  ASSUME FilesInv, GraphsInv, Stop
  PROVE  GraphsInv'
<1>1. karto.on /\ karto' = Off /\ disk' = disk
  BY DEF Stop
<1>2. CASE karto.graph.nodes = 0
  <2>1. todo' = todo
    BY <1>2 DEF Stop
  <2>2. karto'.on = FALSE /\ GraphInv(karto'.graph)
    BY <1>1, OffGraph
  <2>3. \A i \in 1..Len(todo') : \E j \in 1..Len(todo) : todo'[i] = todo[j]
    BY <2>1
  <2>4. QED
    BY <1>1, <2>2, <2>3, GraphsRest
<1>3. CASE karto.graph.nodes # 0
  <2> DEFINE map == [frame |-> karto.frame, save |-> saves + 1,
                     nodes |-> karto.graph.nodes, crop |-> FALSE]
             steps == SaveSteps(map)
  <2>1. todo' = steps \o todo
    BY <1>3 DEF Stop
  <2>2. Counted(map) /\ NoFewer(disk["graph"], map.frame, map.nodes)
    <3>1. karto.graph.nodes \in Nat /\ NoFewer(disk["graph"], karto.frame, karto.graph.nodes)
      BY <1>1, Zenon DEF GraphsInv, GraphInv
    <3>2. map.frame = karto.frame /\ map.nodes = karto.graph.nodes /\ "nodes" \in DOMAIN map
      OBVIOUS
    <3> HIDE DEF map
    <3>3. QED
      BY <3>1, <3>2 DEF Counted
  <2> HIDE DEF map
  <2>3. IsQueue(steps) /\ Len(steps) = 4 /\ \A i \in 1..4 : steps[i].content = map
    BY DEF SaveSteps, Save, IsQueue
  <2>4. IsQueue(todo) /\ Len(todo) = 1 /\ todo[1] = Do("sync", "generated")
    BY <1>1 DEF FilesInv, InProcess
  <2> HIDE DEF steps
  <2>5. /\ Len(todo') = 5 /\ \A i \in 1..4 : todo'[i] = steps[i]
        /\ todo'[5] = todo[1]
    <3>1. /\ Len(todo') = Len(steps) + Len(todo)
          /\ \A i \in 1..Len(steps) : todo'[i] = steps[i]
          /\ \A i \in 1..Len(todo) : todo'[Len(steps) + i] = todo[i]
      <4>1. IsQueue(steps) /\ IsQueue(todo)
        BY <2>3, <2>4
      <4>2. QED
        BY <2>1, <4>1, QueueConcat
    <3>2. QED
      BY <2>3, <2>4, <3>1
  <2>6. ~SavesGraph(todo'[5])
    BY <2>4, <2>5 DEF SavesGraph, Do
  <2>7. Graphs(disk'["graph"], todo')
    BY <1>1, <2>2, <2>3, <2>5, <2>6 DEF Graphs
  <2>8. QED
    BY <1>1, <2>7, OffGraph DEF GraphsInv, Whole
<1>4. QED
  BY <1>2, <1>3

LEMMA EndsKeepGraphs ==
  ASSUME FilesInv, GraphsInv, LaunchRefused \/ EventsEnd \/ Crash \/ Flushed \/ UNCHANGED vars
  PROVE  GraphsInv'
<1>1. disk' = disk /\ (karto' = karto \/ karto' = Off) /\ todo' \in {todo, <<>>}
  BY DEF LaunchRefused, EventsEnd, Crash, Flushed, vars
<1>2. karto' = karto \/ (~karto'.on /\ GraphInv(karto'.graph))
  BY <1>1, OffGraph
<1>3. NoSaves(todo') \/ \A i \in 1..Len(todo') : \E j \in 1..Len(todo) : todo'[i] = todo[j]
  BY <1>1, NoJobs
<1>4. QED
  BY <1>1, <1>2, <1>3, GraphsRest

LEMMA PowerLossKeepsGraphs ==
  ASSUME FilesInv, GraphsInv, PowerLoss
  PROVE  GraphsInv' /\ disk'["graph"] = disk["graph"]
<1>1. PICK lost \in SUBSET unflushed :
        disk' = [f \in File |-> IF f \in lost /\ disk[f] # None THEN Torn ELSE disk[f]]
  BY DEF PowerLoss
<1>2. disk'["graph"] = disk["graph"]
  BY <1>1, FilesAre DEF FilesInv, OnDisk
<1>3. karto' = Off /\ todo' = <<>>
  BY DEF PowerLoss
<1>4. QED
  BY <1>2, <1>3, OffGraph, NoJobs, GraphsRest

LEMMA SaveFailsKeepsGraphs ==
  ASSUME FilesInv, GraphsInv, SaveFails
  PROVE  GraphsInv'
<1>1. disk' = disk /\ karto' = karto
  BY DEF SaveFails
<1>2. PICK n \in DOMAIN todo : todo' = SubSeq(todo, n + 1, Len(todo))
  BY DEF SaveFails
<1>3. IsQueue(todo) /\ Len(todo) \in Nat /\ n \in 1..Len(todo)
  <2>1. IsQueue(todo)
    BY DEF FilesInv
  <2>2. todo \in Seq({todo[i] : i \in DOMAIN todo})
    BY <2>1 DEF IsQueue
  <2>3. QED
    BY <2>1, <2>2, LenProperties
<1>4. n \in 0..Len(todo)
  BY <1>3
<1>5. Len(todo') = Len(todo) - n /\ \A i \in 1..Len(todo) - n : todo'[i] = todo[i + n]
  BY <1>2, <1>3, <1>4, QueueRest
<1>6. \A i \in 1..Len(todo') : \E j \in 1..Len(todo) : todo'[i] = todo[j]
  <2>1. \A i \in 1..Len(todo') : i + n \in 1..Len(todo) /\ i \in 1..Len(todo) - n
    BY <1>3, <1>5
  <2>2. QED
    BY <1>5, <2>1
<1>7. QED
  BY <1>1, <1>6, GraphsRest

\* What replaces the graph is whole, and has all the scans of the same map.
LEMMA SaveFileKeepsGraphs ==
  ASSUME FilesInv, GraphsInv, SaveFile
  PROVE  /\ GraphsInv'
         /\ disk'["graph"] # disk["graph"]
              => /\ disk'["graph"] \notin {None, Torn}
                 /\ NoFewer(disk["graph"], disk'["graph"].frame, disk'["graph"].nodes)
<1> DEFINE map == todo[1].content
<1>1. /\ Due("save") /\ Head(todo) = todo[1] /\ karto' = karto /\ ~karto.on /\ todo # <<>>
      /\ todo' = Tail(todo)
  BY NextJobIs DEF SaveFile, Due
<1>2. PICK k \in 1..4 : Saving(k)
  BY <1>1, NextJobIs
<1>3. /\ Len(todo) = 6 - k /\ todo[6 - k] = Do("sync", "generated")
      /\ \A i \in 1..5 - k : todo[i].op = "save" /\ todo[i] = Save(SaveOrder[k - 1 + i], map)
      /\ IsMap(map)
  BY <1>2 DEF Saving
<1>4. todo[1].op = "save" /\ todo[1].file = SaveOrder[k] /\ todo[1].content = map
  <2>1. 1 \in 1..5 - k /\ k - 1 + 1 = k
    OBVIOUS
  <2>2. todo[1].op = "save" /\ todo[1] = Save(SaveOrder[k], map)
    BY <1>3, <2>1
  <2>3. QED
    BY <2>2 DEF Save
<1>5. disk' = [disk EXCEPT ![SaveOrder[k]] = map]
  BY <1>1, <1>4 DEF SaveFile
<1>6. \A i \in 1..Len(todo') : \E j \in 1..Len(todo) : todo'[i] = todo[j]
  BY <1>1, TailJobs
<1>7. CASE k # 1
  <2>1. SaveOrder[k] # "graph"
    BY <1>7 DEF SaveOrder
  <2>2. disk'["graph"] = disk["graph"]
    BY <1>5, <2>1, FilesAre DEF FilesInv, OnDisk
  <2>3. QED
    BY <1>1, <1>6, <2>2, GraphsRest
<1>8. CASE k = 1
  <2>1. SaveOrder[k] = "graph" /\ Len(todo) = 5
    BY <1>3, <1>8 DEF SaveOrder
  <2>2. disk'["graph"] = map
    BY <1>5, <2>1, FilesAre DEF FilesInv, OnDisk
  <2>3. Counted(map) /\ NoFewer(disk["graph"], map.frame, map.nodes)
    <3>1. SavesGraph(todo[1]) /\ 1 \in 1..Len(todo)
      BY <1>4, <2>1 DEF SavesGraph
    <3>2. QED
      BY <3>1 DEF GraphsInv, Graphs
  <2>4. map \notin {None, Torn}
    BY <1>3, MapIsWhole
  <2>5. NoFewer(map, map.frame, map.nodes)
    BY <2>3 DEF NoFewer, Counted
  <2>6. Graphs(disk'["graph"], todo')
    <3>1. \A i \in 1..Len(todo') : i \in 1..4 /\ todo'[i] = todo[i + 1]
      <4>1. /\ Len(todo') = Len(todo) - 1 /\ \A i \in 1..Len(todo) - 1 : todo'[i] = todo[i + 1]
        BY <1>1, JobDone
      <4>2. QED
        BY <2>1, <4>1
    <3>2. \A i \in 1..3 : todo[i + 1] = Save(SaveOrder[i + 1], map) /\ SaveOrder[i + 1] # "graph"
      <4>1. \A j \in 1..4 : todo[j] = Save(SaveOrder[j], map)
        BY <1>3, <1>8
      <4>2. QED
        BY <4>1 DEF SaveOrder
    <3>3. todo[5] = Do("sync", "generated")
      BY <1>3, <1>8
    <3>4. ASSUME NEW i \in 1..Len(todo') PROVE ~SavesGraph(todo'[i])
      <4>1. CASE i \in 1..3
        BY <3>1, <3>2, <4>1 DEF SavesGraph, Save
      <4>2. CASE i = 4
        BY <3>1, <3>3, <4>2 DEF SavesGraph, Do
      <4>3. QED
        BY <3>1, <4>1, <4>2
    <3>5. QED
      BY <3>4 DEF Graphs
  <2>7. GraphsInv'
    BY <1>1, <2>2, <2>3, <2>6 DEF GraphsInv
  <2>8. QED
    BY <2>2, <2>3, <2>4, <2>7
<1>9. QED
  BY <1>7, <1>8

LEMMA GraphsNextKeep ==
  ASSUME FilesInv, GraphsInv, [FilesNext]_vars
  PROVE  GraphsInv'
BY ProgramsKeepGraphs, MoveKeepsGraphs, PutFileKeepsGraphs, SyncKeepsGraphs, UnlinkKeepsGraphs,
   LaunchKeepsGraphs, ScanAcceptedKeepsGraphs, StopKeepsGraphs, EndsKeepGraphs,
   PowerLossKeepsGraphs, SaveFailsKeepsGraphs, SaveFileKeepsGraphs DEF FilesNext

LEMMA GraphsHold == FilesSpec => []GraphsInv
BY GraphsStart, GraphsNextKeep, FilesHold, PTL DEF FilesSpec

\* Only a save, and the moves, change the graph on disk.
LEMMA OnlySavesReplace ==
  ASSUME FilesInv, [FilesNext]_vars, disk'["graph"] # disk["graph"]
  PROVE  Move \/ SaveFile
<1>1. Unlink => disk'["graph"] = disk["graph"]
  BY FilesAre DEF Unlink, FilesInv, OnDisk
<1>2. PowerLoss => disk'["graph"] = disk["graph"]
  BY FilesAre DEF PowerLoss, FilesInv, OnDisk
<1>3. Programs => disk' = disk
  BY DEF Programs, RunMapping, RunNavigation, Finalize, SyncMap, CleanRuntime, Begin
<1>4. Sync \/ LaunchRefused \/ LaunchNew \/ LaunchContinue \/ ScanAccepted \/ Stop \/ SaveFails
        \/ EventsEnd \/ Crash \/ Flushed \/ UNCHANGED vars => disk' = disk
  BY DEF Sync, LaunchRefused, LaunchNew, LaunchContinue, ScanAccepted, Stop, SaveFails,
         EventsEnd, Crash, Flushed, vars
<1>5. QED
  BY <1>1, <1>2, <1>3, <1>4, PutLeavesGraph DEF FilesNext

-----------------------------------------------------------------------------
\* The theorems.

\* Whatever program runs, whatever fails and wherever the power goes, a map on disk has
\* beside it a whole pose graph that is no older: SaveArchiveAtomic comes first and is
\* flushed, and MAP_ARTIFACTS moves it last.
THEOREM MapsHaveTheirGraph == FilesSpec => []SavesTrail
<1>1. FilesInv => SavesTrail
  BY DEF FilesInv
<1>2. QED
  BY <1>1, FilesHold, PTL

\* A mapping session that has saved its map and comes to its end leaves the four files of
\* one save, and the flows with what they say, whatever was on disk when it began.
THEOREM SessionsEndInAgreement == FilesSpec => SavedSessionsAgree
<1>1. ASSUME FilesInv, [FilesNext]_vars
      PROVE  [Unlink /\ saved => Agree']_vars
  BY <1>1, UnlinkKeeps
<1>2. QED
  BY <1>1, FilesHold, PTL DEF FilesSpec, SavedSessionsAgree

\* However many scans and chains: the first loop that a session closes holds for as long as
\* it is the only one, because until it the solver has been told of the whole graph.
THEOREM FirstLoopsHold == FilesSpec => []FirstLoopHolds
<1>1. GraphsInv => FirstLoopHolds
  BY Zenon DEF GraphsInv, GraphInv, FirstLoopHolds
<1>2. QED
  BY <1>1, GraphsHold, PTL

\* When the solver finds no solution, the scan that closed a loop stays where the match of
\* its last loop put it: no corrections are left over from an earlier solution.
THEOREM UnsolvedScansHold == FilesSpec => []UnsolvedScansStay
<1>1. GraphsInv => UnsolvedScansStay
  BY Zenon DEF GraphsInv, GraphInv, UnsolvedScansStay
<1>2. QED
  BY <1>1, GraphsHold, PTL

\* The archive of any graph of any session can be read back as what was written, and the
\* mapper, the map's metadata and the quality report count the same scans and edges of each
\* kind in it, and see the same status of the solver.  What a process then localizes on it
\* is freed only when nothing refers to it (FreedScansStayForgotten).
THEOREM ArchivesTell == FilesSpec => []ArchivesTellAll
<1>1. GraphsInv => ArchivesTellAll
  BY ArchiveTellsAll, SmallBuffersForget DEF GraphsInv, ArchivesTellAll
<1>2. QED
  BY <1>1, GraphsHold, PTL

\* Whatever program runs, whatever fails and wherever the power goes, a saved pose graph is
\* only moved to the backups, or replaced by a whole one that, if it is of the same map, has
\* every scan of it.
THEOREM NoKeyframeIsLost == FilesSpec => KeyframesAreKept
<1>1. ASSUME FilesInv, GraphsInv, [FilesNext]_vars
      PROVE  [disk["graph"] # None /\ disk'["graph"] # disk["graph"]
                => \/ Move
                   \/ /\ disk'["graph"] \notin {None, Torn}
                      /\ disk'["graph"].frame = disk["graph"].frame
                           => disk'["graph"].nodes >= disk["graph"].nodes]_vars
  <2>1. SUFFICES ASSUME disk["graph"] # None, disk'["graph"] # disk["graph"], ~Move
                 PROVE  /\ disk'["graph"] \notin {None, Torn}
                        /\ disk'["graph"].frame = disk["graph"].frame
                             => disk'["graph"].nodes >= disk["graph"].nodes
    OBVIOUS
  <2>2. SaveFile
    BY <1>1, <2>1, OnlySavesReplace
  <2>3. /\ disk'["graph"] \notin {None, Torn}
        /\ NoFewer(disk["graph"], disk'["graph"].frame, disk'["graph"].nodes)
        /\ GraphsInv'
    BY <1>1, <2>1, <2>2, SaveFileKeepsGraphs
  <2>4. Whole("graph") /\ Whole("graph")'
    BY <1>1, <2>1, <2>3 DEF FilesInv, OnDisk, Whole
  <2>5. disk["graph"].nodes \in Nat /\ disk'["graph"].nodes \in Nat
    BY <1>1, <2>3, <2>4 DEF GraphsInv, Counted
  <2>6. QED
    BY <2>3, <2>4, <2>5 DEF NoFewer, Whole
<1>2. QED
  BY <1>1, FilesHold, GraphsHold, PTL DEF FilesSpec, KeyframesAreKept
=============================================================================
