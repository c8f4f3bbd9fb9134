----------------------------- MODULE SerialPort -----------------------------
(***************************************************************************)
(* A serial line and the SDK's Serial object.  The settings of the line    *)
(* belong to the tty and outlive the program that made them: open() and    *)
(* each setter read them, change their own part and write all of them      *)
(* back, while the object keeps what it was asked for, made or not.  Any   *)
(* system call may fail, as when the device is pulled out.                 *)
(***************************************************************************)
EXTENDS Integers

CONSTANTS
  Bytesizes, Parities, Stopbits, Flowcontrols, Rates,  \* that programs ask for
  StandardRates,   \* that have a B constant
  B38400, Fastest, \* of them, the one a divisor stands behind, and the last
  BaudBase,        \* baud_base
  MaxFailures      \* calls that fail

VARIABLES
  tty,      \* the line
  port,     \* the object of the program that uses it
  told,     \* history: the settings whose last call said that they are made
  failures  \* history: calls that failed

portVars == <<tty, port, told, failures>>

ParityNames == {"none", "odd", "even", "mark", "space"}
FlowNames == {"none", "hardware", "software"}

\* bytesize_t ... flowcontrol_t, without one and a half stop bits: they are set as one.
ASSUME PortAssumption ==
  /\ Bytesizes \subseteq 5..8 /\ Parities \subseteq ParityNames
  /\ Stopbits \subseteq {1, 2} /\ Flowcontrols \subseteq FlowNames
  /\ Rates \cup StandardRates \cup {BaudBase} \subseteq Nat \ {0}
  /\ B38400 < Fastest /\ {B38400, Fastest} \subseteq StandardRates
  /\ MaxFailures \in Nat

Settings == {"bytesize", "parity", "stopbits", "flowcontrol", "rate"}

-----------------------------------------------------------------------------
\* The flags of a tty and what they come to on the wire.

Flags == {"RAW", "PARENB", "PARODD", "CMSPAR", "CSTOPB", "CRTSCTS", "IXON"}

\* speed and bother are what CBAUD and its bit BOTHER hold; divisor is the kernel's.
Termios ==
  [csize : 5..8, flags : SUBSET Flags, speed : Nat, bother : BOOLEAN, divisor : Nat,
   termios2 : BOOLEAN]

\* As a driver makes it: a standard rate and no flag but those left out here.
DefaultLine(v2) ==
  [csize |-> 8, flags |-> {}, speed |-> B38400, bother |-> FALSE, divisor |-> 0, termios2 |-> v2]

ParityOf(l) ==
  IF "PARENB" \notin l.flags THEN "none"
  ELSE IF "CMSPAR" \in l.flags THEN IF "PARODD" \in l.flags THEN "mark" ELSE "space"
  ELSE IF "PARODD" \in l.flags THEN "odd" ELSE "even"

FlowOf(l) ==
  IF "CRTSCTS" \in l.flags THEN "hardware" ELSE IF "IXON" \in l.flags THEN "software" ELSE "none"

RateOf(l) == IF ~l.bother /\ l.speed = B38400 /\ l.divisor > 0 THEN BaudBase \div l.divisor ELSE l.speed

Shown(l) ==
  [bytesize |-> l.csize, parity |-> ParityOf(l), stopbits |-> IF "CSTOPB" \in l.flags THEN 2 ELSE 1,
   flowcontrol |-> FlowOf(l), rate |-> RateOf(l)]

With(tio, raised) == [tio EXCEPT !.flags = @ \cup raised]
Less(tio, cleared) == [tio EXCEPT !.flags = @ \ cleared]

\* cfmakeraw() asks for eight bits without parity, but clears neither of its other flags.
set_common_props(tio) == [With(Less(tio, {"PARENB"}), {"RAW"}) EXCEPT !.csize = 8]

set_databits(tio, databits) == [tio EXCEPT !.csize = databits]

set_parity(tio, parity) ==
  CASE parity = "none" -> Less(tio, {"PARENB"})
    [] parity = "even" -> With(Less(tio, {"PARODD"}), {"PARENB"})
    [] parity = "odd" -> With(tio, {"PARENB", "PARODD"})
    [] parity = "mark" -> With(tio, {"PARENB", "PARODD", "CMSPAR"})
    [] parity = "space" -> With(Less(tio, {"PARODD"}), {"PARENB", "CMSPAR"})

set_stopbits(tio, stopbits) == IF stopbits = 2 THEN With(tio, {"CSTOPB"}) ELSE Less(tio, {"CSTOPB"})

\* Mutant: hardware flow control is not taken back.
set_flowcontrol_Keeps(tio, flowcontrol) ==
  CASE flowcontrol = "none" -> Less(tio, {"IXON"})
    [] flowcontrol = "hardware" -> With(Less(tio, {"IXON"}), {"CRTSCTS"})
    [] flowcontrol = "software" -> With(Less(tio, {"CRTSCTS"}), {"IXON"})

set_flowcontrol(tio, flowcontrol) ==
  CASE flowcontrol = "none" -> Less(tio, {"CRTSCTS", "IXON"})
    [] flowcontrol = "hardware" -> With(Less(tio, {"IXON"}), {"CRTSCTS"})
    [] flowcontrol = "software" -> With(Less(tio, {"CRTSCTS"}), {"IXON"})

-----------------------------------------------------------------------------
\* What a call may leave of the line, and whether it says that it is done.

Done(l) == [line |-> l, ok |-> TRUE]
Failed(l) == [line |-> l, ok |-> FALSE]

\* The settings are read and written, or one of the two fails.
Attempt(l, tio) == {Failed(l), Done(tio)}

is_standardbaudrate(baudrate) == baudrate \in StandardRates

\* What an earlier custom rate left behind is cleared first, if that succeeds.  BOTHER is also
\* the bit that tells the faster half of the standard rates, which become the fastest for
\* the time being; CBAUD without it is no rate.
setStandardBaudRate(l, baudrate) ==
  LET plain == IF l.termios2 /\ (l.bother \/ l.speed > B38400)
               THEN [l EXCEPT !.bother = FALSE, !.speed = Fastest] ELSE l
      cleared == {plain, [plain EXCEPT !.divisor = 0]}
  IN {Failed(l)} \cup UNION {Attempt(c, [c EXCEPT !.bother = FALSE, !.speed = baudrate]) : c \in cleared}

\* Where the kernel has no rates of any value, or does not take this one, a divisor behind
\* the rate 38400 is set; and setting that rate clears the divisor.
setCustomBaudRate(l, baudrate) ==
  {Failed(l)}
  \cup (IF l.termios2 THEN {Done([l EXCEPT !.bother = TRUE, !.speed = baudrate])} ELSE {})
  \cup (IF baudrate > BaudBase THEN {}
        ELSE setStandardBaudRate([l EXCEPT !.divisor = BaudBase \div baudrate], B38400))

setBaudrate(l, baudrate) ==
  IF is_standardbaudrate(baudrate) THEN setStandardBaudRate(l, baudrate)
  ELSE setCustomBaudRate(l, baudrate)

Format(l, p) ==
  set_flowcontrol(
    set_stopbits(set_parity(set_databits(set_common_props(l), p.bytesize), p.parity), p.stopbits),
    p.flowcontrol)

\* The format first, then the rate: a failure between them leaves one of the two.
open(l, p) ==
  LET formatted == Attempt(l, Format(l, p))
  IN {r \in formatted : ~r.ok} \cup
     UNION {setBaudrate(r.line, p.rate) : r \in {f \in formatted : f.ok}}

\* The last close leaves the line as it is, or as the driver makes it.
Left(l) == {l, DefaultLine(l.termios2)}

-----------------------------------------------------------------------------
\* A program that uses the line.

Object ==
  [is_open : {FALSE}, bytesize : Bytesizes, parity : Parities, stopbits : Stopbits,
   flowcontrol : Flowcontrols, rate : Rates]

PortInit(lines) == tty \in lines /\ port \in Object /\ told = {} /\ failures = 0

Counted(r) ==
  IF r.ok THEN UNCHANGED failures ELSE failures < MaxFailures /\ failures' = failures + 1

\* A new object asks for what it likes.
Construct ==
  /\ ~port.is_open /\ port' \in Object
  /\ UNCHANGED <<tty, told, failures>>

\* A step that fails closes the file again.
OpenWith(p) ==
  /\ ~port.is_open
  /\ \E r \in open(tty, p) \cup {Failed(tty)} :
       /\ Counted(r)
       /\ port' = [p EXCEPT !.is_open = r.ok]
       /\ told' = IF r.ok THEN Settings ELSE {}
       /\ IF r.ok THEN tty' = r.line ELSE tty' \in Left(r.line)

Open == OpenWith(port)

\* close(), the destructor, or the end of the program.
Close ==
  /\ port.is_open /\ port' = [port EXCEPT !.is_open = FALSE]
  /\ told' = {} /\ tty' \in Left(tty)
  /\ UNCHANGED failures

\* To the port it has: closed and opened anew.
SetPort ==
  /\ port.is_open
  /\ \E l \in Left(tty) : \E r \in open(l, port) \cup {Failed(l)} :
       /\ Counted(r)
       /\ port' = [port EXCEPT !.is_open = r.ok]
       /\ told' = IF r.ok THEN Settings ELSE {}
       /\ IF r.ok THEN tty' = r.line ELSE tty' \in Left(r.line)

\* A setter's outcome.  What it was asked stays in the object when the line is not set, but
\* not always when it cannot be read.
Sets(setting, value, results) ==
  /\ port.is_open
  /\ \E r \in results :
       /\ Counted(r)
       /\ tty' = r.line
       /\ told' = IF r.ok THEN told \cup {setting} ELSE told \ {setting}
       /\ \/ port' = [port EXCEPT ![setting] = value]
          \/ ~r.ok /\ setting # "rate" /\ UNCHANGED port

SetBytesize(b) == Sets("bytesize", b, Attempt(tty, set_databits(tty, b)))
SetParity(p) == Sets("parity", p, Attempt(tty, set_parity(tty, p)))
SetStopbits(s) == Sets("stopbits", s, Attempt(tty, set_stopbits(tty, s)))
SetFlowcontrol(f) == Sets("flowcontrol", f, Attempt(tty, set_flowcontrol(tty, f)))
SetBaudrate(r) == Sets("rate", r, setBaudrate(tty, r))

PortNext ==
  \/ Construct \/ Open \/ Close \/ SetPort
  \/ \E b \in Bytesizes : SetBytesize(b)
  \/ \E p \in Parities : SetParity(p)
  \/ \E s \in Stopbits : SetStopbits(s)
  \/ \E f \in Flowcontrols : SetFlowcontrol(f)
  \/ \E r \in Rates : SetBaudrate(r)

-----------------------------------------------------------------------------
\* Over any calls of any programs one after the other, some of which fail at any step, a
\* setting that open() or a setter said was made is the one the object tells, and stays so
\* until a later call for it fails.  Excepted are an even or odd parity after a mark or space
\* one, whose flag nothing clears; a custom rate that needs a divisor; and the rate 38400
\* when a divisor behind it could not be cleared.
SettingsAreAsTold ==
  port.is_open => \A setting \in told :
    \/ Shown(tty)[setting] = port[setting]
    \/ setting = "parity" /\ "CMSPAR" \in tty.flags /\ port.parity \in {"even", "odd"}
    \/ /\ setting = "rate" /\ ~tty.bother
       /\ (~is_standardbaudrate(port.rate) \/ (port.rate = B38400 /\ tty.divisor > 0))
=============================================================================
