---------------------------- MODULE LidarDriver ----------------------------
(***************************************************************************)
(* The MS200 lidar's driver and node.  A receive thread finds the frames   *)
(* in the bytes of the serial line, puts their points together into        *)
(* revolutions and publishes each in full_scan_data_; the node's tick      *)
(* waits for one and copies it.  The two share the scan and its flag with  *)
(* no lock, and the event they meet at is a bare condition variable: a     *)
(* set() nobody waits for is lost.  Before the node opens the line, other  *)
(* programs have used it.                                                  *)
(*                                                                         *)
(* A frame is three units long: the two bytes of its header, and its       *)
(* payload with the CRC, which is the number of its first point.  A CRC    *)
(* holds of whole frames only.  A point's number gives its angle, its      *)
(* revolution and the measuring period, which the device starts anew when  *)
(* it is activated.  Time is counted in frames.                            *)
(***************************************************************************)
EXTENDS SerialPort, Sequences, SequencesExt

CONSTANTS
  SerialBaud,   \* SERIAL_BAUD, in the unit of the rates
  PerRev,       \* points of a revolution
  PerFrame,     \* POINT_PER_PACK
  Revs,         \* revolutions told apart
  Timeout,      \* GRAB_TIMEOUT_MS
  Stale,        \* the age after which a scan is no longer the last revolution
  Delay,        \* the frames' time that may pass while the node copies
  MaxDamage,    \* frames that do not arrive whole
  WireLimit,    \* units that wait in the tty
  Lines         \* the tty as the programs before left it

\* What is told apart is not nothing, a copy takes less time than a scan is fresh, and the
\* lidar's rate has a B constant of its own.
ASSUME LidarAssumption ==
  /\ {PerRev, PerFrame, Revs} \subseteq Nat \ {0}
  /\ {Timeout, Stale, Delay, MaxDamage, WireLimit} \subseteq Nat /\ Delay < Stale
  /\ SerialBaud \in StandardRates \ {B38400}
  /\ Lines \subseteq Termios

VARIABLES
  device,       \* "idle", "starting", "measuring", "gone"
  next,         \* the point it measures next
  damage,       \* history: frames damaged so far
  wire,         \* the units not read yet
  bin_buf_, head_flag,
  frames,       \* frames found and not yet put into temp_data
  temp_data, last_angle,
  rx,           \* "read", "publish": where the receive thread is
  full_scan_data_,  \* the two halves of the memory
  full_scan_ready_, valid_data_,
  node,         \* where the node's thread is
  waited, lag, age, \* frames since the wait began, the node was woken, the last publication
  scan_data     \* the halves copied

line == <<device, next, damage, wire>>
parser == <<bin_buf_, head_flag, frames>>
assembly == <<temp_data, last_angle, rx>>
shared == <<full_scan_data_, full_scan_ready_>>
consumer == <<node, waited, lag, scan_data>>
vars == <<portVars, line, parser, assembly, shared, consumer, valid_data_, age>>

Mark == -1
Version == -2
Garbage == -3
FrameSize == 3
Empty == <<<<>>, <<>>>>

Circle == PerRev * Revs    \* the points of a period; a node sees two of them
Angle(p) == p % PerRev
Revolution(p) == p \div PerRev
Period(p) == p \div Circle

NodeInit == node = "offline" /\ scan_data = Empty

Init ==
  /\ PortInit(Lines)
  /\ device \in {"idle", "measuring"} /\ next = 0 /\ damage = 0
  /\ NodeInit
  /\ wire = <<>> /\ bin_buf_ = <<>> /\ head_flag = FALSE /\ frames = <<>>
  /\ temp_data = <<>> /\ last_angle = 0 /\ rx = "read"
  /\ full_scan_data_ = Empty /\ full_scan_ready_ = FALSE
  /\ valid_data_ = FALSE
  /\ waited = 0 /\ lag = 0 /\ age = 0

\* The receive thread runs.
Connected == node \notin {"offline", "opened", "gone"}

-----------------------------------------------------------------------------
\* The device and the line.

\* The point i places after p.
After(p, i) == (Period(p) * Circle) + ((p + i) % Circle)

Points(frame) == [i \in 1..PerFrame |-> After(frame, i - 1)]

\* On the line: its header and what it holds; the rest is counted as one unit.
Frame(first) == <<Mark, Version, first>>

\* What may arrive of a damaged frame: a wrong payload, no first byte, nothing, or no more
\* than its header.
Damaged(frame) ==
  {Frame(Garbage), <<Version, frame>>, <<>>, <<Mark, Version>>}

Awake == node \in {"woken", "copying"}

\* A node that was woken is done with its copy before more than Delay frames' time is over.
Copying == IF Awake THEN lag < Delay /\ lag' = lag + 1 ELSE UNCHANGED lag

\* One frame's time, within which the receive thread is done with the frames it has found.
TimePasses ==
  /\ frames = <<>> /\ rx = "read" /\ Copying
  /\ waited' = IF node = "waiting" /\ waited < Timeout THEN waited + 1 ELSE waited
  /\ age' = IF age < Stale THEN age + 1 ELSE age

Emit ==
  /\ device = "measuring" /\ Connected
  /\ \/ wire' = wire \o Frame(next) /\ UNCHANGED damage
     \/ /\ damage < MaxDamage /\ damage' = damage + 1
        /\ \E units \in Damaged(next) : wire' = wire \o units
  /\ Len(wire') <= WireLimit
  /\ next' = After(next, PerFrame)
  /\ TimePasses
  /\ UNCHANGED <<portVars, device, parser, assembly, shared, node, scan_data, valid_data_>>

Silence ==
  /\ device # "measuring" /\ Connected /\ TimePasses
  /\ UNCHANGED <<portVars, line, parser, assembly, shared, node, scan_data, valid_data_>>

\* Activated, it turns for a while before it measures, from whatever angle.
SpinUp ==
  /\ device = "starting" /\ device' = "measuring"
  /\ \E a \in 0..PerRev - 1 : next' = (1 - Period(next)) * Circle + a
  /\ UNCHANGED <<portVars, damage, wire, parser, assembly, shared, consumer, valid_data_, age>>

\* The port the node will open, as SetSerialPort() and the defaults of Serial's constructor say.
NodePort ==
  [is_open |-> FALSE, bytesize |-> 8, parity |-> "none", stopbits |-> 1, flowcontrol |-> "none",
   rate |-> SerialBaud]

\* A line of this model once nothing it keeps matters any more.
NoLine == [DefaultLine(TRUE) EXCEPT !.flags = {"RAW"}, !.speed = SerialBaud]

PortForgotten == tty' = NoLine /\ told' = {} /\ port' = NodePort /\ failures' = MaxFailures

\* With the device goes its tty.
Unplug ==
  /\ device # "gone" /\ device' = "gone" /\ wire' = <<>> /\ next' = 0 /\ damage' = 0
  /\ IF node = "offline" THEN PortForgotten ELSE UNCHANGED portVars
  /\ UNCHANGED <<parser, assembly, shared, consumer, valid_data_, age>>

\* A command the device takes, or that does not reach it.
Told(mode) ==
  device' \in {device} \cup
    (CASE mode = "run" /\ device = "idle" -> {"starting"}
       [] mode = "stand" /\ device # "gone" -> {"idle"}
       [] OTHER -> {})

-----------------------------------------------------------------------------
\* The receive thread: uart_data_handle().

Drop(s, n) == SubSeq(s, n + 1, Len(s))
IsHeader(s, i) == s[i] = Mark /\ s[i + 1] = Version
CrcHolds(s) == IsHeader(s, 1) /\ s[3] >= 0

\* The units in front of the first header; the last two always stay.
Skip(s) ==
  LET places == {i \in 1..Len(s) - 2 : IsHeader(s, i)}
  IN  IF places = {} THEN Len(s) - 2 ELSE Min(places) - 1

\* Mutant: a frame whose CRC fails is removed whole.
AfterBadCrc_Whole(s) == Drop(s, FrameSize)

\* Only the header is removed, because the data may contain one.
AfterBadCrc(s) == Drop(s, 2)

\* Between two turns of the loop: the units left, the header flag, the units the last turn
\* skipped, the frames found and whether it was the last.
Turns == [units : Seq(Int), flagged : BOOLEAN, skipped : Nat, found : Seq(Int), done : BOOLEAN]

Turn[t \in Turns] ==
  LET skip == IF t.flagged THEN 0 ELSE Skip(t.units)
      rest == Drop(t.units, skip)
      left == Drop(rest, FrameSize)
      after(units, found, done) ==
        [units |-> units, flagged |-> FALSE, skipped |-> skip, found |-> found, done |-> done]
  IN  IF t.done \/ t.skipped >= Len(t.units) - 2 THEN [t EXCEPT !.done = TRUE]
      ELSE IF Len(rest) < FrameSize
        THEN [after(rest, t.found, TRUE) EXCEPT !.flagged = t.flagged \/ IsHeader(rest, 1)]
      ELSE IF ~CrcHolds(rest) THEN after(AfterBadCrc(rest), t.found, FALSE)
      ELSE after(left, Append(t.found, rest[3]), Len(left) < FrameSize)

\* The loop, from what is buffered and the header flag; a turn that is not the last takes two
\* units at least.
Parse(s, flagged) ==
  LET turns[k \in 0..Len(s) \div 2] ==
        IF k = 0
        THEN [units |-> s, flagged |-> flagged, skipped |-> 0, found |-> <<>>, done |-> Len(s) < FrameSize]
        ELSE Turn[turns[k - 1]]
  IN  turns[Len(s) \div 2]

\* Of what the port holds, the first n units.
Received(n) == SubSeq(wire, 1, n)

\* waitfordata() has data, and n units of it are read.
Read(n) ==
  /\ Connected /\ rx = "read" /\ frames = <<>>
  /\ n <= Len(wire)
  /\ wire' = Drop(wire, n)
  /\ valid_data_' = TRUE
  /\ LET parsed == Parse(bin_buf_ \o Received(n), head_flag)
     IN  bin_buf_' = parsed.units /\ head_flag' = parsed.flagged /\ frames' = parsed.found
  /\ UNCHANGED <<portVars, device, next, damage, assembly, shared, consumer, age>>

\* 500 ms without data, or a line that fails.
ReadFails ==
  /\ Connected /\ rx = "read" /\ frames = <<>> /\ wire = <<>> /\ device # "measuring"
  /\ valid_data_ /\ valid_data_' = FALSE
  /\ UNCHANGED <<portVars, line, parser, assembly, shared, consumer, age>>

\* Mutant: the angle the frame before ended with is forgotten.
Wrap_WithinFrame(points) ==
  LET falls == {i \in 2..PerFrame : Angle(points[i - 1]) > Angle(points[i])}
  IN  IF falls = {} THEN 0 ELSE Min(falls)

\* Where the angle falls in a frame, 0 when it does not.
Wrap(points) ==
  LET before(i) == IF i = 1 THEN last_angle ELSE Angle(points[i - 1])
      falls == {i \in 1..PerFrame : before(i) > Angle(points[i])}
  IN  IF falls = {} THEN 0 ELSE Min(falls)

\* A frame within a revolution.
Extend ==
  /\ Connected /\ rx = "read" /\ frames # <<>>
  /\ LET points == Points(frames[1])
     IN  /\ Wrap(points) = 0
         /\ temp_data' = temp_data \o points /\ last_angle' = Angle(points[PerFrame])
  /\ frames' = Tail(frames)
  /\ UNCHANGED <<portVars, line, bin_buf_, head_flag, rx, shared, node, waited, lag, scan_data, valid_data_, age>>

\* Mutant: the point the revolution begins with is left out.
Publish_SkipsFirst ==
  /\ Connected /\ rx = "read" /\ frames # <<>>
  /\ LET points == Points(frames[1])
         i == Wrap(points)
     IN  /\ i > 0
         /\ full_scan_data_' = [full_scan_data_ EXCEPT ![1] = temp_data \o SubSeq(points, 1, i - 1)]
         /\ temp_data' = Drop(points, i) /\ last_angle' = Angle(points[PerFrame])
  /\ full_scan_ready_' = FALSE
  /\ rx' = "publish" /\ frames' = Tail(frames)
  /\ UNCHANGED <<portVars, line, bin_buf_, head_flag, node, waited, lag, scan_data, valid_data_, age>>

\* The frame in which the next revolution begins: the flag falls and the copy starts.
Publish ==
  /\ Connected /\ rx = "read" /\ frames # <<>>
  /\ LET points == Points(frames[1])
         i == Wrap(points)
     IN  /\ i > 0
         /\ full_scan_data_' = [full_scan_data_ EXCEPT ![1] = temp_data \o SubSeq(points, 1, i - 1)]
         /\ temp_data' = Drop(points, i - 1) /\ last_angle' = Angle(points[PerFrame])
  /\ full_scan_ready_' = FALSE
  /\ rx' = "publish" /\ frames' = Tail(frames)
  /\ UNCHANGED <<portVars, line, bin_buf_, head_flag, node, waited, lag, scan_data, valid_data_, age>>

\* Event::set() wakes the thread that waits, and is forgotten when none does.
SetEvent ==
  IF node = "waiting" THEN node' = "woken" /\ waited' = 0 ELSE UNCHANGED <<node, waited>>

\* The copy is done; a scan that does not start within ten degrees is not announced.
Published ==
  /\ Connected /\ rx = "publish" /\ rx' = "read"
  /\ full_scan_data_' = [full_scan_data_ EXCEPT ![2] = full_scan_data_[1]]
  /\ IF full_scan_data_[1] # <<>> /\ Angle(full_scan_data_[1][1]) = 0
     THEN full_scan_ready_' = TRUE /\ SetEvent /\ age' = 0
     ELSE UNCHANGED <<full_scan_ready_, node, waited, age>>
  /\ UNCHANGED <<portVars, line, parser, temp_data, last_angle, lag, scan_data, valid_data_>>

-----------------------------------------------------------------------------
\* The node's thread.

Quiet == <<portVars, next, damage, wire, parser, assembly, valid_data_, waited, lag, age, scan_data>>

\* Deactive() found or saw the line silent.
ClearPoints == full_scan_data_' = Empty /\ UNCHANGED full_scan_ready_

\* With it go the units nobody has read.
PortCloses == wire' = <<>>

\* Another program has the line, before the node opens it.
Others ==
  /\ node = "offline" /\ device # "gone" /\ PortNext
  /\ UNCHANGED <<line, parser, assembly, shared, consumer, valid_data_, age>>

\* A tick opens the port; when a step of it fails, a tick a second later starts anew.
Connect ==
  /\ node = "offline" /\ device # "gone" /\ OpenWith(NodePort)
  /\ node' = IF port'.is_open THEN "opened" ELSE "offline"
  /\ UNCHANGED <<line, parser, assembly, shared, waited, lag, scan_data, valid_data_, age>>

\* The receive thread starts.  Of full_scan_ready_, never initialised, this is the first that
\* matters; of the line, its format is the last.
Opened ==
  /\ node = "opened" /\ node' = "connected"
  /\ full_scan_ready_' \in BOOLEAN
  /\ tty' = NoLine /\ failures' = MaxFailures
  /\ UNCHANGED <<port, told, line, parser, assembly, full_scan_data_, waited, lag, scan_data, valid_data_, age>>

\* Activate(), whose result is not used.
Activate ==
  /\ node = "connected"
  /\ IF valid_data_ THEN node' = "speed" /\ UNCHANGED device
     ELSE node' = "activating" /\ Told("run")
  /\ UNCHANGED <<Quiet, shared>>

\* The data came, or ten seconds have passed.
Activated ==
  /\ node = "activating" /\ node' = "speed"
  /\ UNCHANGED <<Quiet, device, shared>>

\* The speed is right.
SpeedIsRight ==
  /\ node = "speed" /\ node' = "grab"
  /\ UNCHANGED <<Quiet, device, shared>>

\* SetRotationSpeed() while data comes stops the measuring first.
SetRotationSpeed ==
  /\ node = "speed"
  /\ IF valid_data_ THEN node' = "pausing" /\ Told("stand") ELSE node' = "grab" /\ UNCHANGED device
  /\ UNCHANGED <<Quiet, shared>>

\* Ten seconds have passed and data still comes: the speed is left as it is.
PauseFails ==
  /\ node = "pausing" /\ valid_data_ /\ device = "measuring" /\ node' = "grab"
  /\ UNCHANGED <<Quiet, device, shared>>

\* The line is silent: the speed is set and the measuring is started again.
Resume ==
  /\ node = "pausing" /\ ~valid_data_ /\ node' = "running"
  /\ ClearPoints /\ Told("run")
  /\ UNCHANGED Quiet

\* The speed is looked at a second after the data is back, which is ten revolutions; a device
\* that took the command turns within the ten seconds allowed.
SpeedSet ==
  /\ node = "running" /\ node' = "grab"
  /\ CASE device = "measuring" -> rx = "read" /\ temp_data # <<>> /\ Period(temp_data[1]) = Period(next)
       [] device = "starting" -> FALSE
       [] OTHER -> ~valid_data_
  /\ UNCHANGED <<Quiet, device, shared>>

\* Mutant: the event remembers a set() that nobody waited for.
Tick_Remembers ==
  /\ node = "grab" /\ scan_data' = Empty
  /\ node' = IF full_scan_ready_ THEN "woken" ELSE "waiting"
  /\ UNCHANGED <<portVars, line, parser, assembly, shared, valid_data_, waited, lag, age>>

\* A tick waits for the event, whatever the flag says.
Tick ==
  /\ node = "grab" /\ scan_data' = Empty
  /\ node' = "waiting"
  /\ UNCHANGED <<portVars, line, parser, assembly, shared, valid_data_, waited, lag, age>>

TimesOut ==
  /\ node = "waiting" /\ waited = Timeout /\ node' = "grab" /\ waited' = 0
  /\ UNCHANGED <<portVars, line, parser, assembly, shared, lag, scan_data, valid_data_, age>>

CopyBegins ==
  /\ node = "woken"
  /\ IF full_scan_ready_
     THEN node' = "copying" /\ scan_data' = [scan_data EXCEPT ![1] = full_scan_data_[1]] /\ UNCHANGED lag
     ELSE node' = "grab" /\ lag' = 0 /\ UNCHANGED scan_data
  /\ UNCHANGED <<portVars, line, parser, assembly, shared, valid_data_, waited, age>>

\* The scan is copied, the flag falls, and a scan with points is sent.
CopyEnds ==
  /\ node = "copying" /\ node' = "grab"
  /\ scan_data' = [scan_data EXCEPT ![2] = full_scan_data_[2]]
  /\ full_scan_ready_' = FALSE /\ lag' = 0
  /\ UNCHANGED <<portVars, line, parser, assembly, full_scan_data_, valid_data_, waited, age>>

\* The process has ended; what it kept is reset here, as nothing reads it any more.
Ended ==
  /\ node' = "gone"
  /\ PortCloses /\ bin_buf_' = <<>> /\ head_flag' = FALSE /\ frames' = <<>>
  /\ temp_data' = <<>> /\ last_angle' = 0 /\ rx' = "read"
  /\ full_scan_data_' = Empty /\ full_scan_ready_' = FALSE /\ valid_data_' = FALSE
  /\ scan_data' = Empty /\ waited' = 0 /\ lag' = 0 /\ age' = 0
  /\ PortForgotten
  /\ UNCHANGED <<next, damage>>

\* The Stop event while data comes: Deactive() sends its command.
Stop ==
  /\ node = "grab" /\ valid_data_
  /\ node' = "leaving" /\ Told("stand")
  /\ UNCHANGED <<Quiet, shared>>

\* It sends none when the line is silent, and there is no driver to stop before a connection.
StopSilent ==
  /\ node = "offline" \/ (node = "grab" /\ ~valid_data_)
  /\ Ended /\ UNCHANGED device

\* The line is silent or ten seconds have passed: Disconnect(), once the receive thread ends.
Disconnect == node = "leaving" /\ rx = "read" /\ frames = <<>> /\ Ended /\ UNCHANGED device

-----------------------------------------------------------------------------
Receive == (\E n \in 1..WireLimit : Read(n)) \/ ReadFails \/ Extend \/ Publish \/ Published
Line == Emit \/ Silence \/ SpinUp \/ Unplug
Starts == Others \/ Connect \/ Opened \/ Activate \/ Activated \/ SpeedIsRight \/ SpeedSet \/ SetRotationSpeed \/ PauseFails \/ Resume
Grabs == Tick \/ TimesOut \/ CopyBegins \/ CopyEnds
Next == Line \/ Receive \/ Starts \/ Grabs \/ Stop \/ StopSilent \/ Disconnect

\* The device measures once it turns, both threads run, and the ticks come.
Fairness ==
  /\ WF_vars(Emit) /\ WF_vars(Receive) /\ WF_vars(Grabs)

Spec == Init /\ [][Next]_vars /\ Fairness

-----------------------------------------------------------------------------
Sent == node = "grab" /\ scan_data[2] # <<>>

\* The most frames that wait in the tty and the buffer.
Backlog == (2 * WireLimit - 1) \div FrameSize

\* A frame fits in the tty, the frames that do not arrive leave a gap shorter than a
\* revolution, and while a scan waits and is copied the next revolution does not end: the
\* frames that wait, that come meanwhile and that got lost are no more than one has.
RevolutionsAreLong ==
  /\ FrameSize <= WireLimit
  /\ PerFrame * MaxDamage + 1 < PerRev
  /\ PerFrame * (Backlog + Delay + MaxDamage) <= PerRev

\* Whatever the interleaving of the receive thread's writes and the node's copy, a scan
\* that is sent is one that was published whole: it starts where a revolution starts, its
\* angles rise, and all its points are of one revolution, lost and damaged frames or a pause
\* of the measuring between them or not.
ScansAreWhole ==
  Sent =>
    /\ scan_data[1] = scan_data[2]
    /\ Angle(scan_data[1][1]) = 0
    /\ \A i, j \in 1..Len(scan_data[1]) : i < j =>
         LET p == scan_data[1][i]
             q == scan_data[1][j]
         IN  Revolution(p) = Revolution(q) /\ Angle(p) < Angle(q)

\* A scan that is sent was completed within the last revolution's time: a scan that waited
\* for a node that did not wait for it is never sent later, after a pause, an unplugging or
\* however many ticks that timed out.
ScansAreFresh == [][CopyEnds /\ full_scan_data_[2] # <<>> => age < Stale]_vars

\* The intact frames among the units.
Intact(s) ==
  LET from[i \in 1..Len(s) + 1] ==
        IF i + 2 > Len(s) THEN <<>>
        ELSE IF IsHeader(s, i) /\ s[i + 2] >= 0 THEN <<s[i + 2]>> \o from[i + 1]
        ELSE from[i + 1]
  IN  from[1]

\* However the bytes are cut into reads, and whatever damaged frames lie between them, no
\* intact frame is lost, repeated, reordered or made up.
NoFrameLost ==
  [][(\E n \in 1..WireLimit : Read(n)) => Intact(bin_buf_ \o wire) = frames' \o Intact(bin_buf_' \o wire')]_vars

\* While the device measures and the node runs, scans keep being sent.
ScansFlow == <>[](device = "measuring" /\ node \in {"grab", "waiting", "woken", "copying"}) => []<>Sent

\* Whatever programs used the line before, in whatever order of calls of which some fail,
\* what open() or a setter said was made is made and stays so until a later call for it
\* fails; and when the node's open() succeeds, the line has the lidar's rate and format.
LineIsAsTold ==
  /\ SettingsAreAsTold
  /\ node = "opened" \/ Connected =>
       /\ port.is_open /\ "RAW" \in tty.flags
       /\ \A setting \in Settings : Shown(tty)[setting] = NodePort[setting]
=============================================================================
