------------------------------ MODULE Keyboard ------------------------------
(***************************************************************************)
(* Keyboard driving: the teleop process writes a line for the key that is  *)
(* held down in its loop, every 0.1 s, into a FIFO; the keyboard node      *)
(* drains the FIFO on every tick and sends the twist of the last line      *)
(* until it is too old.  A pipe loses what it holds when neither side has  *)
(* it open, refuses a write without a reader, and has a bound.             *)
(***************************************************************************)
EXTENDS Sequences, Integers

CONSTANTS
  Motion,       \* w s q e a d
  KeyTimeout,   \* KEY_COMMAND_TIMEOUT
  FifoSize      \* the lines the pipe holds

Line == Motion \cup {"stop"}

VARIABLES
  key,       \* command of the teleop process, "none" when it does not run
  writer,    \* it has the FIFO open
  fifo,      \* the lines not read yet
  node,      \* "off", "on", "gone": the keyboard node, which is the FIFO's reader
  latest, keyAge    \* latest; the time since received_at

vars == <<key, writer, fifo, node, latest, keyAge>>
process == <<key, writer>>

Init ==
  /\ key = "none" /\ writer = FALSE /\ fifo = <<>>
  /\ node = "off"
  /\ latest = "stop" /\ keyAge = KeyTimeout + 1

-----------------------------------------------------------------------------
\* What is left of the lines when the pipe may have lost its last open end.
Held(lines, w, n) == IF w \/ n = "on" THEN lines ELSE <<>>

Start ==
  /\ key = "none" /\ key' = "stop"
  /\ UNCHANGED <<writer, fifo, node, latest, keyAge>>

\* A non-blocking open for writing needs a reader; else the loop tries again.
Connect ==
  /\ key # "none" /\ ~writer /\ node = "on"
  /\ writer' = TRUE
  /\ UNCHANGED <<key, fifo, node, latest, keyAge>>

\* Whether the pipe takes one more line.
CanWrite(lines) == node = "on" /\ Len(lines) < FifoSize

\* A write that fails closes the FIFO, and the loop opens it again.
WriteLine(line) ==
  IF CanWrite(fifo)
  THEN fifo' = Append(fifo, line) /\ UNCHANGED writer
  ELSE writer' = FALSE /\ fifo' = Held(fifo, FALSE, node)

\* One turn of the loop: a key may have been pressed, and the line goes out.
LoopTurn(pressed) ==
  /\ key # "none" /\ writer
  /\ key' = pressed
  /\ WriteLine(pressed)
  /\ UNCHANGED <<node, latest, keyAge>>

\* x writes a stop, and the finally clause another; an interrupt only that one.  A stop the
\* pipe refuses is lost, and the process is gone all the same.
Quit(stops) ==
  /\ key # "none" /\ key' = "none"
  /\ writer' = FALSE
  /\ \E n \in 0..stops :
       /\ n < stops => ~CanWrite([i \in 1..Len(fifo) + n |-> "stop"]) \/ ~writer
       /\ n > 0 => writer /\ node = "on" /\ Len(fifo) + n <= FifoSize
       /\ fifo' = Held(fifo \o [i \in 1..n |-> "stop"], FALSE, node)
  /\ UNCHANGED <<node, latest, keyAge>>

\* The stop script writes a line of its own, between those of a process that still runs;
\* it gives up after a second without a reader or room.
ScriptStops ==
  /\ CanWrite(fifo) /\ fifo' = Append(fifo, "stop")
  /\ UNCHANGED <<process, node, latest, keyAge>>

\* The terminal or the process is killed.
Killed ==
  /\ key # "none" /\ key' = "none"
  /\ writer' = FALSE
  /\ fifo' = Held(fifo, FALSE, node)
  /\ UNCHANGED <<node, latest, keyAge>>

-----------------------------------------------------------------------------
NodeStarts ==
  /\ node = "off" /\ node' = "on"
  /\ UNCHANGED <<key, writer, fifo, latest, keyAge>>

\* Mutant: the last line counts however old it is.
CommandOf_Latched(line, a) == line

CommandOf(line, a) == IF a <= KeyTimeout THEN line ELSE "stop"

\* Every line is read; their time is that of the reading.
NodeTick ==
  /\ node = "on"
  /\ fifo' = <<>>
  /\ IF fifo = <<>> THEN UNCHANGED <<latest, keyAge>>
     ELSE latest' = fifo[Len(fifo)] /\ keyAge' = 0
  /\ UNCHANGED <<key, writer, node>>

\* After the Stop event's last "stop", or by a failure without it.
NodeLeaves ==
  /\ node = "on" /\ node' = "gone"
  /\ fifo' = Held(fifo, writer, "gone")
  /\ UNCHANGED <<key, writer, latest, keyAge>>

Elapse ==
  /\ keyAge' = IF keyAge > KeyTimeout THEN keyAge ELSE keyAge + 1
  /\ UNCHANGED <<key, writer, fifo, node, latest>>

-----------------------------------------------------------------------------
TypeOK ==
  /\ key \in Line \cup {"none"} /\ writer \in BOOLEAN
  /\ fifo \in Seq(Line) /\ Len(fifo) <= FifoSize
  /\ node \in {"off", "on", "gone"}
  /\ latest \in Line /\ keyAge \in 0..KeyTimeout + 1
=============================================================================
