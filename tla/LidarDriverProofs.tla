------------------------- MODULE LidarDriverProofs -------------------------
(***************************************************************************)
(* The MS200 driver's serial line, its parser, the age of its scans and    *)
(* what is in them, for every device, every program that used the line     *)
(* before and every cut of the byte stream.                                *)
(***************************************************************************)
EXTENDS LidarDriver, SequenceTheorems, WellFoundedInduction, TLAPS

-----------------------------------------------------------------------------
\* The serial line.

\* An object, whatever it asks for.
PortType ==
  [is_open : BOOLEAN, bytesize : 5..8, parity : ParityNames, stopbits : {1, 2},
   flowcontrol : FlowNames, rate : Nat \ {0}]

\* What SettingsAreAsTold says of one setting of a line and an object.
AsTold(l, p, setting) ==
  \/ Shown(l)[setting] = p[setting]
  \/ setting = "parity" /\ "CMSPAR" \in l.flags /\ p.parity \in {"even", "odd"}
  \/ /\ setting = "rate" /\ ~l.bother
     /\ (~is_standardbaudrate(p.rate) \/ (p.rate = B38400 /\ l.divisor > 0))

\* The format of a line: all but its rate.
SameFormat(l, k) == l.csize = k.csize /\ l.flags = k.flags
SameRate(l, k) == l.speed = k.speed /\ l.bother = k.bother /\ l.divisor = k.divisor

LEMMA PortConstants ==
  /\ Bytesizes \subseteq 5..8 /\ Parities \subseteq ParityNames
  /\ Stopbits \subseteq {1, 2} /\ Flowcontrols \subseteq FlowNames
  /\ Rates \subseteq Nat \ {0} /\ StandardRates \subseteq Nat \ {0}
  /\ BaudBase \in Nat \ {0} /\ B38400 \in StandardRates /\ Fastest \in StandardRates
BY PortAssumption

\* A setting of the format does not depend on the rate, nor the rate on the format.
LEMMA AsToldFormat ==
  ASSUME NEW l \in Termios, NEW k \in Termios, SameFormat(l, k), NEW p \in PortType,
         NEW setting \in Settings \ {"rate"}, AsTold(k, p, setting)
  PROVE  AsTold(l, p, setting)
BY DEF AsTold, SameFormat, Shown, ParityOf, FlowOf, Settings, Termios, PortType

LEMMA AsToldRate ==
  ASSUME NEW l \in Termios, NEW k \in Termios, SameRate(l, k), NEW p \in PortType,
         AsTold(k, p, "rate")
  PROVE  AsTold(l, p, "rate")
BY DEF AsTold, SameRate, Shown, RateOf, Termios, PortType

\* Each setter's part of the line, and that it leaves the others'.
LEMMA DatabitsSet ==
  ASSUME NEW l \in Termios, NEW b \in 5..8, NEW k, k = set_databits(l, b)
  PROVE  /\ k \in Termios /\ SameRate(k, l) /\ k.flags = l.flags /\ k.csize = b
BY DEF set_databits, Termios, SameRate

LEMMA ParitySet ==
  ASSUME NEW l \in Termios, NEW p \in ParityNames, NEW k, k = set_parity(l, p)
  PROVE  /\ k \in Termios /\ SameRate(k, l) /\ k.csize = l.csize
         /\ \A f \in Flags \ {"PARENB", "PARODD", "CMSPAR"} : f \in k.flags <=> f \in l.flags
         /\ ParityOf(k) = p \/ ("CMSPAR" \in k.flags /\ p \in {"even", "odd"})
         /\ p = "none" => ParityOf(k) = p
<1>1. k \in Termios /\ SameRate(k, l) /\ k.csize = l.csize
  <2>1. CASE p = "none"  BY <2>1 DEF set_parity, Less, Termios, SameRate, Flags
  <2>2. CASE p = "even"  BY <2>2 DEF set_parity, Less, With, Termios, SameRate, Flags
  <2>3. CASE p = "odd"  BY <2>3 DEF set_parity, With, Termios, SameRate, Flags
  <2>4. CASE p = "mark"  BY <2>4 DEF set_parity, With, Termios, SameRate, Flags
  <2>5. CASE p = "space"  BY <2>5 DEF set_parity, Less, With, Termios, SameRate, Flags
  <2> QED  BY <2>1, <2>2, <2>3, <2>4, <2>5 DEF ParityNames
<1>2. /\ p = "none" => k.flags = l.flags \ {"PARENB"}
      /\ p = "even" => k.flags = (l.flags \ {"PARODD"}) \cup {"PARENB"}
      /\ p = "odd" => k.flags = l.flags \cup {"PARENB", "PARODD"}
      /\ p = "mark" => k.flags = l.flags \cup {"PARENB", "PARODD", "CMSPAR"}
      /\ p = "space" => k.flags = (l.flags \ {"PARODD"}) \cup {"PARENB", "CMSPAR"}
  <2>1. CASE p = "none"  BY <2>1 DEF set_parity, Less, Termios
  <2>2. CASE p = "even"  BY <2>2 DEF set_parity, Less, With, Termios
  <2>3. CASE p = "odd"  BY <2>3 DEF set_parity, With, Termios
  <2>4. CASE p = "mark"  BY <2>4 DEF set_parity, With, Termios
  <2>5. CASE p = "space"  BY <2>5 DEF set_parity, Less, With, Termios
  <2> QED  BY <2>1, <2>2, <2>3, <2>4, <2>5 DEF ParityNames
<1>3. \A f \in Flags \ {"PARENB", "PARODD", "CMSPAR"} : f \in k.flags <=> f \in l.flags
  <2>1. p = "none" \/ p = "even" \/ p = "odd" \/ p = "mark" \/ p = "space"
    BY DEF ParityNames
  <2> QED  BY <1>2, <2>1
<1>4. ParityOf(k) = p \/ ("CMSPAR" \in k.flags /\ p \in {"even", "odd"})
  <2>1. CASE p = "none"  BY <1>2, <2>1 DEF ParityOf
  <2>2. CASE p = "even"  BY <1>2, <2>2 DEF ParityOf
  <2>3. CASE p = "odd"  BY <1>2, <2>3 DEF ParityOf
  <2>4. CASE p = "mark"  BY <1>2, <2>4 DEF ParityOf
  <2>5. CASE p = "space"  BY <1>2, <2>5 DEF ParityOf
  <2> QED  BY <2>1, <2>2, <2>3, <2>4, <2>5 DEF ParityNames
<1>5. p = "none" => ParityOf(k) = p
  BY <1>2 DEF ParityOf
<1> QED  BY <1>1, <1>3, <1>4, <1>5

LEMMA StopbitsSet ==
  ASSUME NEW l \in Termios, NEW s \in {1, 2}, NEW k, k = set_stopbits(l, s)
  PROVE  /\ k \in Termios /\ SameRate(k, l) /\ k.csize = l.csize
         /\ \A f \in Flags \ {"CSTOPB"} : f \in k.flags <=> f \in l.flags
         /\ "CSTOPB" \in k.flags <=> s = 2
BY DEF set_stopbits, Less, With, Termios, SameRate, Flags

LEMMA FlowcontrolSet ==
  ASSUME NEW l \in Termios, NEW f \in FlowNames, NEW k, k = set_flowcontrol(l, f)
  PROVE  /\ k \in Termios /\ SameRate(k, l) /\ k.csize = l.csize
         /\ \A g \in Flags \ {"CRTSCTS", "IXON"} : g \in k.flags <=> g \in l.flags
         /\ FlowOf(k) = f
BY DEF set_flowcontrol, Less, With, Termios, SameRate, FlowNames, FlowOf, Flags

LEMMA CommonSet ==
  ASSUME NEW l \in Termios, NEW k, k = set_common_props(l)
  PROVE  k \in Termios /\ SameRate(k, l) /\ "RAW" \in k.flags
<1>1. Less(l, {"PARENB"}) \in Termios /\ SameRate(Less(l, {"PARENB"}), l)
  BY DEF Less, Termios, SameRate
<1> DEFINE m == Less(l, {"PARENB"})
<1> HIDE DEF m
<1>2. With(m, {"RAW"}) \in Termios /\ SameRate(With(m, {"RAW"}), m) /\ "RAW" \in With(m, {"RAW"}).flags
  BY <1>1 DEF m, With, Termios, SameRate, Flags
<1> DEFINE n == With(m, {"RAW"})
<1> HIDE DEF n
<1>3. k = [n EXCEPT !.csize = 8]
  BY DEF m, n, set_common_props
<1> QED  BY <1>1, <1>2, <1>3 DEF m, n, Termios, SameRate

\* After open() has formatted a line, it is raw and of the format asked for.
LEMMA FormatSet ==
  ASSUME NEW l \in Termios, NEW p \in PortType, NEW k, k = Format(l, p)
  PROVE  /\ k \in Termios /\ SameRate(k, l) /\ "RAW" \in k.flags
         /\ \A setting \in Settings \ {"rate"} : AsTold(k, p, setting)
         /\ p.parity = "none" => ParityOf(k) = "none"
<1> DEFINE a == set_common_props(l)
           b == set_databits(a, p.bytesize)
           c == set_parity(b, p.parity)
           d == set_stopbits(c, p.stopbits)
<1>0. /\ p.bytesize \in 5..8 /\ p.parity \in ParityNames /\ p.stopbits \in {1, 2}
      /\ p.flowcontrol \in FlowNames
  BY DEF PortType
<1>1. a \in Termios /\ SameRate(a, l) /\ "RAW" \in a.flags
  BY CommonSet
<1> HIDE DEF a
<1>2. b \in Termios /\ SameRate(b, a) /\ b.flags = a.flags /\ b.csize = p.bytesize
  BY <1>0, <1>1, DatabitsSet
<1> HIDE DEF b
<1>3. /\ c \in Termios /\ SameRate(c, b) /\ c.csize = b.csize
      /\ \A f \in Flags \ {"PARENB", "PARODD", "CMSPAR"} : f \in c.flags <=> f \in b.flags
      /\ ParityOf(c) = p.parity \/ ("CMSPAR" \in c.flags /\ p.parity \in {"even", "odd"})
      /\ p.parity = "none" => ParityOf(c) = p.parity
  BY <1>0, <1>2, ParitySet
<1> HIDE DEF c
<1>4. /\ d \in Termios /\ SameRate(d, c) /\ d.csize = c.csize
      /\ \A f \in Flags \ {"CSTOPB"} : f \in d.flags <=> f \in c.flags
      /\ "CSTOPB" \in d.flags <=> p.stopbits = 2
  BY <1>0, <1>3, StopbitsSet
<1> HIDE DEF d
<1>5. /\ k \in Termios /\ SameRate(k, d) /\ k.csize = d.csize
      /\ \A f \in Flags \ {"CRTSCTS", "IXON"} : f \in k.flags <=> f \in d.flags
      /\ FlowOf(k) = p.flowcontrol
  <2>1. k = set_flowcontrol(d, p.flowcontrol)
    BY DEF Format, a, b, c, d
  <2> QED  BY <2>1, <1>0, <1>4, FlowcontrolSet
<1>6. SameRate(k, l)
  BY <1>1, <1>2, <1>3, <1>4, <1>5 DEF SameRate
<1>7. "RAW" \in k.flags
  BY <1>1, <1>2, <1>3, <1>4, <1>5 DEF Flags
<1>8. \A f \in {"PARENB", "PARODD", "CMSPAR"} : f \in k.flags <=> f \in c.flags
  BY <1>4, <1>5 DEF Flags
<1>9. ParityOf(k) = ParityOf(c) /\ ("CMSPAR" \in k.flags <=> "CMSPAR" \in c.flags)
  BY <1>8 DEF ParityOf
<1>10. /\ Shown(k).bytesize = p.bytesize /\ Shown(k).stopbits = p.stopbits
       /\ Shown(k).flowcontrol = p.flowcontrol /\ Shown(k).parity = ParityOf(c)
  BY <1>0, <1>2, <1>3, <1>4, <1>5, <1>9 DEF Shown, Flags
<1>11. \A setting \in Settings \ {"rate"} : AsTold(k, p, setting)
  BY <1>3, <1>9, <1>10 DEF AsTold, Settings
<1> QED  BY <1>3, <1>5, <1>6, <1>7, <1>9, <1>11

\* What setStandardBaudRate() leaves when it succeeds, and when it fails.
LEMMA StandardSet ==
  ASSUME NEW l \in Termios, NEW baud \in StandardRates, NEW r \in setStandardBaudRate(l, baud)
  PROVE  /\ r.line \in Termios /\ r.ok \in BOOLEAN /\ SameFormat(r.line, l)
         /\ r.ok => ~r.line.bother /\ r.line.speed = baud
<1>1. baud \in Nat /\ Fastest \in Nat
  BY PortConstants
<1> DEFINE plain == IF l.termios2 /\ (l.bother \/ l.speed > B38400)
                    THEN [l EXCEPT !.bother = FALSE, !.speed = Fastest] ELSE l
           cleared == {plain, [plain EXCEPT !.divisor = 0]}
<1>2. plain \in Termios /\ SameFormat(plain, l)
  BY <1>1 DEF Termios, SameFormat
<1>3. \A c \in cleared : c \in Termios /\ SameFormat(c, l)
  <2> HIDE DEF plain
  <2> QED  BY <1>2 DEF Termios, SameFormat
<1>4. r = Failed(l) \/ \E c \in cleared : r \in Attempt(c, [c EXCEPT !.bother = FALSE, !.speed = baud])
  BY DEF setStandardBaudRate
<1>5. CASE r = Failed(l)
  BY <1>5 DEF Failed, SameFormat
<1>6. ASSUME NEW c \in cleared, r \in Attempt(c, [c EXCEPT !.bother = FALSE, !.speed = baud])
      PROVE  /\ r.line \in Termios /\ r.ok \in BOOLEAN /\ SameFormat(r.line, l)
             /\ r.ok => ~r.line.bother /\ r.line.speed = baud
  <2> DEFINE d == [c EXCEPT !.bother = FALSE, !.speed = baud]
  <2> HIDE DEF cleared
  <2>1. d \in Termios /\ SameFormat(d, c) /\ ~d.bother /\ d.speed = baud
    BY <1>1, <1>3 DEF Termios, SameFormat
  <2> HIDE DEF d
  <2>2. r = Failed(c) \/ r = Done(d)
    BY <1>6 DEF d, Attempt
  <2>3. CASE r = Failed(c)  BY <2>3, <1>3 DEF Failed
  <2>4. CASE r = Done(d)  BY <2>4, <2>1, <1>3 DEF Done, SameFormat
  <2> QED  BY <2>2, <2>3, <2>4
<1> QED  BY <1>4, <1>5, <1>6

\* The same of a rate without a B constant.
LEMMA CustomSet ==
  ASSUME NEW l \in Termios, NEW baud \in Nat \ {0}, NEW r \in setCustomBaudRate(l, baud)
  PROVE  /\ r.line \in Termios /\ r.ok \in BOOLEAN /\ SameFormat(r.line, l)
         /\ r.ok => ~r.line.bother \/ RateOf(r.line) = baud
<1>1. CASE r = Failed(l)
  BY <1>1 DEF Failed, SameFormat
<1>2. CASE r = Done([l EXCEPT !.bother = TRUE, !.speed = baud])
  BY <1>2 DEF Done, SameFormat, Termios, RateOf
<1>3. CASE r \in setStandardBaudRate([l EXCEPT !.divisor = BaudBase \div baud], B38400)
  <2> DEFINE d == [l EXCEPT !.divisor = BaudBase \div baud]
  <2>1. BaudBase \div baud \in Nat /\ B38400 \in StandardRates
    BY PortConstants
  <2>2. d \in Termios /\ SameFormat(d, l)
    BY <2>1 DEF Termios, SameFormat
  <2> HIDE DEF d
  <2>3. r \in setStandardBaudRate(d, B38400)
    BY <1>3 DEF d
  <2>4. /\ r.line \in Termios /\ r.ok \in BOOLEAN /\ SameFormat(r.line, d)
        /\ r.ok => ~r.line.bother
    BY <2>1, <2>2, <2>3, StandardSet
  <2> QED  BY <2>2, <2>4 DEF SameFormat
<1> QED  BY <1>1, <1>2, <1>3 DEF setCustomBaudRate

LEMMA BaudrateSet ==
  ASSUME NEW l \in Termios, NEW p \in PortType, NEW r \in setBaudrate(l, p.rate)
  PROVE  /\ r.line \in Termios /\ r.ok \in BOOLEAN /\ SameFormat(r.line, l)
         /\ r.ok => AsTold(r.line, p, "rate")
<1>1. p.rate \in Nat \ {0}
  BY DEF PortType
<1>2. CASE p.rate \in StandardRates
  <2>1. /\ r.line \in Termios /\ r.ok \in BOOLEAN /\ SameFormat(r.line, l)
        /\ r.ok => ~r.line.bother /\ r.line.speed = p.rate
    BY <1>2, StandardSet DEF setBaudrate, is_standardbaudrate
  <2>2. ASSUME r.ok
        PROVE  AsTold(r.line, p, "rate")
    BY <2>1, <2>2 DEF AsTold, Shown, RateOf
  <2> QED  BY <2>1, <2>2
<1>3. CASE p.rate \notin StandardRates
  <2>1. /\ r.line \in Termios /\ r.ok \in BOOLEAN /\ SameFormat(r.line, l)
        /\ r.ok => ~r.line.bother \/ RateOf(r.line) = p.rate
    BY <1>1, <1>3, CustomSet DEF setBaudrate, is_standardbaudrate
  <2>2. ASSUME r.ok
        PROVE  AsTold(r.line, p, "rate")
    BY <1>3, <2>1, <2>2 DEF AsTold, Shown, is_standardbaudrate
  <2> QED  BY <2>1, <2>2
<1> QED  BY <1>2, <1>3

\* When open() says that it is done, the line is as the object asks in every setting.
LEMMA Opens ==
  ASSUME NEW l \in Termios, NEW p \in PortType, NEW r \in open(l, p) \cup {Failed(l)}
  PROVE  /\ r.line \in Termios /\ r.ok \in BOOLEAN
         /\ r.ok => /\ \A setting \in Settings : AsTold(r.line, p, setting)
                    /\ "RAW" \in r.line.flags
                    /\ p.parity = "none" => ParityOf(r.line) = "none"
<1> DEFINE k == Format(l, p)
<1>1. /\ k \in Termios /\ "RAW" \in k.flags
      /\ \A setting \in Settings \ {"rate"} : AsTold(k, p, setting)
      /\ p.parity = "none" => ParityOf(k) = "none"
  BY FormatSet
<1>2. r = Failed(l) \/ r \in setBaudrate(k, p.rate)
  BY DEF open, Attempt, Failed, Done
<1> HIDE DEF k
<1>3. CASE r = Failed(l)
  BY <1>3 DEF Failed
<1>4. CASE r \in setBaudrate(k, p.rate)
  <2>1. /\ r.line \in Termios /\ r.ok \in BOOLEAN /\ SameFormat(r.line, k)
        /\ r.ok => AsTold(r.line, p, "rate")
    BY <1>1, <1>4, BaudrateSet
  <2>2. \A setting \in Settings \ {"rate"} : AsTold(r.line, p, setting)
    BY <1>1, <2>1, AsToldFormat
  <2>3. r.line.flags = k.flags /\ ParityOf(r.line) = ParityOf(k)
    BY <2>1 DEF SameFormat, ParityOf
  <2> QED  BY <1>1, <2>1, <2>2, <2>3 DEF Settings
<1> QED  BY <1>2, <1>3, <1>4

LEMMA LinesLeft ==
  ASSUME NEW l \in Termios, NEW k \in Left(l)
  PROVE  k \in Termios
<1>1. B38400 \in Nat /\ l.termios2 \in BOOLEAN
  BY PortConstants DEF Termios
<1>2. DefaultLine(l.termios2) \in Termios
  BY <1>1 DEF DefaultLine, Termios
<1> QED  BY <1>2 DEF Left

\* What every step keeps of the line and of the object: SettingsAreAsTold, with their types.
PortHolds(l, p, t) ==
  /\ l \in Termios /\ p \in PortType /\ t \subseteq Settings
  /\ p.is_open => \A setting \in t : AsTold(l, p, setting)

\* A line that is as the node's open() asks.
LinePrepared(l, p) ==
  /\ p.is_open /\ "RAW" \in l.flags
  /\ \A setting \in Settings : Shown(l)[setting] = NodePort[setting] /\ p[setting] = NodePort[setting]

LEMMA NodePortTyped ==
  /\ NodePort \in PortType /\ ~NodePort.is_open
  /\ NodePort.parity = "none" /\ NodePort.rate \in StandardRates \ {B38400}
BY LidarAssumption, PortConstants DEF NodePort, PortType, ParityNames, FlowNames

\* The outcome of an open(), if the object asked for p.
Opening(p, r) ==
  /\ port' = [p EXCEPT !.is_open = r.ok]
  /\ told' = IF r.ok THEN Settings ELSE {}
  /\ IF r.ok THEN tty' = r.line ELSE tty' \in Left(r.line)

LEMMA OpeningKeeps ==
  ASSUME NEW l \in Termios, NEW p \in PortType, NEW r \in open(l, p) \cup {Failed(l)},
         Opening(p, r)
  PROVE  /\ PortHolds(tty', port', told')
         /\ p = NodePort /\ port'.is_open => LinePrepared(tty', port')
<1>1. /\ r.line \in Termios /\ r.ok \in BOOLEAN
      /\ r.ok => /\ \A setting \in Settings : AsTold(r.line, p, setting)
                 /\ "RAW" \in r.line.flags
                 /\ p.parity = "none" => ParityOf(r.line) = "none"
  BY Opens
<1>2. /\ port' \in PortType /\ port'.is_open = r.ok
      /\ \A setting \in Settings : port'[setting] = p[setting]
  BY <1>1 DEF Opening, PortType, Settings
<1>3. tty' \in Termios /\ told' \subseteq Settings
  BY <1>1, LinesLeft DEF Opening
<1>4. CASE ~r.ok
  BY <1>2, <1>3, <1>4 DEF PortHolds
<1>5. CASE r.ok
  <2>1. tty' = r.line /\ port'.is_open
    BY <1>2, <1>5 DEF Opening
  <2>2. port'.parity = p.parity /\ port'.rate = p.rate
    BY <1>2 DEF Settings
  <2>3. \A setting \in Settings : AsTold(tty', port', setting)
    BY <1>1, <1>2, <1>5, <2>1, <2>2 DEF AsTold
  <2>4. PortHolds(tty', port', told')
    BY <1>2, <1>3, <2>3 DEF PortHolds
  <2>5. ASSUME p = NodePort
        PROVE  LinePrepared(tty', port')
    <3>1. \A setting \in Settings : AsTold(tty', NodePort, setting)
      BY <1>1, <1>5, <2>1, <2>5
    <3>2. Shown(tty').parity = NodePort.parity
      BY <1>1, <1>5, <2>1, <2>5, NodePortTyped DEF Shown
    <3>3. \A setting \in Settings : Shown(tty')[setting] = NodePort[setting]
      BY <3>1, <3>2, NodePortTyped DEF AsTold, Settings, is_standardbaudrate
    <3> QED  BY <1>1, <1>2, <1>5, <2>1, <2>5, <3>3 DEF LinePrepared
  <2> QED  BY <2>4, <2>5
<1> QED  BY <1>1, <1>4, <1>5

\* A setter changes its own part of the line and of the object, and no other.
LEMMA SetsKeeps ==
  ASSUME PortHolds(tty, port, told), NEW setting \in Settings, NEW value, NEW results,
         Sets(setting, value, results),
         [port EXCEPT ![setting] = value] \in PortType,
         \A r \in results :
           /\ r.line \in Termios /\ r.ok \in BOOLEAN
           /\ r.ok => AsTold(r.line, [port EXCEPT ![setting] = value], setting)
           /\ \A other \in Settings \ {setting} :
                AsTold(tty, port, other) => AsTold(r.line, port, other)
  PROVE  PortHolds(tty', port', told')
<1>1. PICK r \in results :
        /\ tty' = r.line
        /\ told' = IF r.ok THEN told \cup {setting} ELSE told \ {setting}
        /\ \/ port' = [port EXCEPT ![setting] = value]
           \/ ~r.ok /\ setting # "rate" /\ UNCHANGED port
  BY DEF Sets
<1>2. port \in PortType /\ port.is_open /\ told \subseteq Settings
      /\ \A other \in told : AsTold(tty, port, other)
  BY DEF PortHolds, Sets
<1>3. /\ port' \in PortType
      /\ \A other \in Settings \ {setting} : port'[other] = port[other]
  BY <1>1, <1>2 DEF PortType, Settings
<1>4. ASSUME NEW other \in told', other # setting
      PROVE  AsTold(tty', port', other)
  <2>1. other \in Settings /\ AsTold(tty', port, other)
    BY <1>1, <1>2, <1>4
  <2>2. port'[other] = port[other]
    BY <1>3, <1>4, <2>1
  <2> QED  BY <2>1, <2>2 DEF AsTold
<1>5. ASSUME setting \in told'
      PROVE  AsTold(tty', port', setting)
  BY <1>1, <1>2, <1>5
<1> QED  BY <1>1, <1>2, <1>3, <1>4, <1>5 DEF PortHolds

\* Of a line whose flags differ in one setting's, the other settings are as they were.
LEMMA OthersKept ==
  ASSUME NEW l \in Termios, NEW k \in Termios, NEW p \in PortType, NEW setting \in Settings,
         setting = "rate" \/ SameRate(k, l),
         setting = "bytesize" \/ k.csize = l.csize,
         setting = "parity" \/ \A f \in {"PARENB", "PARODD", "CMSPAR"} : f \in k.flags <=> f \in l.flags,
         setting = "stopbits" \/ ("CSTOPB" \in k.flags <=> "CSTOPB" \in l.flags),
         setting = "flowcontrol" \/ \A f \in {"CRTSCTS", "IXON"} : f \in k.flags <=> f \in l.flags,
         NEW other \in Settings \ {setting}, AsTold(l, p, other)
  PROVE  AsTold(k, p, other)
<1>1. CASE other = "rate"  BY <1>1 DEF AsTold, SameRate, Shown, RateOf
<1>2. CASE other = "bytesize"  BY <1>2 DEF AsTold, Shown
<1>3. CASE other = "parity"  BY <1>3 DEF AsTold, Shown, ParityOf
<1>4. CASE other = "stopbits"  BY <1>4 DEF AsTold, Shown
<1>5. CASE other = "flowcontrol"  BY <1>5 DEF AsTold, Shown, FlowOf
<1> QED  BY <1>1, <1>2, <1>3, <1>4, <1>5 DEF Settings

\* A setter's two outcomes, from what it makes of the line.
LEMMA AttemptKeeps ==
  ASSUME NEW l \in Termios, NEW k \in Termios, NEW p, NEW q, NEW setting, AsTold(k, q, setting),
         \A other \in Settings \ {setting} : AsTold(l, p, other) => AsTold(k, p, other),
         NEW r \in {Failed(l), Done(k)}
  PROVE  /\ r.line \in Termios /\ r.ok \in BOOLEAN
         /\ r.ok => AsTold(r.line, q, setting)
         /\ \A other \in Settings \ {setting} : AsTold(l, p, other) => AsTold(r.line, p, other)
<1>1. CASE r = Failed(l)
  <2>1. r.line = l /\ r.ok = FALSE
    BY <1>1 DEF Failed
  <2> QED  BY <2>1
<1>2. CASE r = Done(k)
  <2>1. r.line = k /\ r.ok = TRUE
    BY <1>2 DEF Done
  <2> QED  BY <2>1
<1> QED  BY <1>1, <1>2

\* No call of a program breaks what another said was made.
LEMMA PortKeeps ==
  ASSUME PortHolds(tty, port, told), PortNext
  PROVE  PortHolds(tty', port', told')
<1>0. tty \in Termios /\ port \in PortType /\ told \subseteq Settings
  BY DEF PortHolds
<1>1. CASE Construct
  BY <1>0, <1>1, PortConstants DEF Construct, Object, PortType, PortHolds
<1>2. CASE Open
  <2>1. PICK r \in open(tty, port) \cup {Failed(tty)} : Opening(port, r)
    BY <1>2 DEF Open, OpenWith, Opening
  <2> QED  BY <1>0, <2>1, OpeningKeeps
<1>3. CASE Close
  BY <1>0, <1>3, LinesLeft DEF Close, PortType, PortHolds
<1>4. CASE SetPort
  <2>1. PICK l \in Left(tty) : \E r \in open(l, port) \cup {Failed(l)} : Opening(port, r)
    BY <1>4 DEF SetPort, Opening
  <2>2. PICK r \in open(l, port) \cup {Failed(l)} : Opening(port, r)
    BY <2>1
  <2>3. l \in Termios
    BY <1>0, LinesLeft
  <2> QED  BY <1>0, <2>2, <2>3, OpeningKeeps
<1>5. ASSUME NEW b \in Bytesizes, SetBytesize(b)
      PROVE  PortHolds(tty', port', told')
  <2> DEFINE k == set_databits(tty, b)
             q == [port EXCEPT !["bytesize"] = b]
  <2>1. b \in 5..8
    BY PortConstants
  <2>2. k \in Termios /\ SameRate(k, tty) /\ k.flags = tty.flags /\ k.csize = b
    BY <1>0, <2>1, DatabitsSet
  <2>3. q \in PortType /\ q.bytesize = b
    BY <1>0, <2>1 DEF PortType
  <2> HIDE DEF k, q
  <2>4. AsTold(k, q, "bytesize")
    BY <2>2, <2>3 DEF AsTold, Shown
  <2>5. \A other \in Settings \ {"bytesize"} : AsTold(tty, port, other) => AsTold(k, port, other)
    BY <1>0, <2>2, OthersKept DEF Settings
  <2>6. Sets("bytesize", b, {Failed(tty), Done(k)})
    BY <1>5 DEF k, SetBytesize, Attempt
  <2>7. \A r \in {Failed(tty), Done(k)} :
          /\ r.line \in Termios /\ r.ok \in BOOLEAN
          /\ r.ok => AsTold(r.line, q, "bytesize")
          /\ \A other \in Settings \ {"bytesize"} :
               AsTold(tty, port, other) => AsTold(r.line, port, other)
    BY <1>0, <2>2, <2>4, <2>5, AttemptKeeps
  <2>8. "bytesize" \in Settings
    BY DEF Settings
  <2> QED  BY <2>3, <2>6, <2>7, <2>8, SetsKeeps DEF q
<1>6. ASSUME NEW p \in Parities, SetParity(p)
      PROVE  PortHolds(tty', port', told')
  <2> DEFINE k == set_parity(tty, p)
             q == [port EXCEPT !["parity"] = p]
  <2>1. p \in ParityNames
    BY PortConstants
  <2>2. /\ k \in Termios /\ SameRate(k, tty) /\ k.csize = tty.csize
        /\ \A f \in Flags \ {"PARENB", "PARODD", "CMSPAR"} : f \in k.flags <=> f \in tty.flags
        /\ ParityOf(k) = p \/ ("CMSPAR" \in k.flags /\ p \in {"even", "odd"})
    BY <1>0, <2>1, ParitySet
  <2>3. q \in PortType /\ q.parity = p
    BY <1>0, <2>1 DEF PortType
  <2> HIDE DEF k, q
  <2>4. AsTold(k, q, "parity")
    BY <2>2, <2>3 DEF AsTold, Shown
  <2>5. \A f \in {"CSTOPB", "CRTSCTS", "IXON"} : f \in k.flags <=> f \in tty.flags
    BY <2>2 DEF Flags
  <2>6. \A other \in Settings \ {"parity"} : AsTold(tty, port, other) => AsTold(k, port, other)
    BY <1>0, <2>2, <2>5, OthersKept DEF Settings
  <2>7. Sets("parity", p, {Failed(tty), Done(k)})
    BY <1>6 DEF k, SetParity, Attempt
  <2>8. \A r \in {Failed(tty), Done(k)} :
          /\ r.line \in Termios /\ r.ok \in BOOLEAN
          /\ r.ok => AsTold(r.line, q, "parity")
          /\ \A other \in Settings \ {"parity"} :
               AsTold(tty, port, other) => AsTold(r.line, port, other)
    BY <1>0, <2>2, <2>4, <2>6, AttemptKeeps
  <2>9. "parity" \in Settings
    BY DEF Settings
  <2> QED  BY <2>3, <2>7, <2>8, <2>9, SetsKeeps DEF q
<1>7. ASSUME NEW n \in Stopbits, SetStopbits(n)
      PROVE  PortHolds(tty', port', told')
  <2> DEFINE k == set_stopbits(tty, n)
             q == [port EXCEPT !["stopbits"] = n]
  <2>1. n \in {1, 2}
    BY PortConstants
  <2>2. /\ k \in Termios /\ SameRate(k, tty) /\ k.csize = tty.csize
        /\ \A f \in Flags \ {"CSTOPB"} : f \in k.flags <=> f \in tty.flags
        /\ "CSTOPB" \in k.flags <=> n = 2
    BY <1>0, <2>1, StopbitsSet
  <2>3. q \in PortType /\ q.stopbits = n
    BY <1>0, <2>1 DEF PortType
  <2> HIDE DEF k, q
  <2>4. AsTold(k, q, "stopbits")
    BY <2>1, <2>2, <2>3 DEF AsTold, Shown
  <2>5. \A f \in {"PARENB", "PARODD", "CMSPAR", "CRTSCTS", "IXON"} : f \in k.flags <=> f \in tty.flags
    BY <2>2 DEF Flags
  <2>6. \A other \in Settings \ {"stopbits"} : AsTold(tty, port, other) => AsTold(k, port, other)
    BY <1>0, <2>2, <2>5, OthersKept DEF Settings
  <2>7. Sets("stopbits", n, {Failed(tty), Done(k)})
    BY <1>7 DEF k, SetStopbits, Attempt
  <2>8. \A r \in {Failed(tty), Done(k)} :
          /\ r.line \in Termios /\ r.ok \in BOOLEAN
          /\ r.ok => AsTold(r.line, q, "stopbits")
          /\ \A other \in Settings \ {"stopbits"} :
               AsTold(tty, port, other) => AsTold(r.line, port, other)
    BY <1>0, <2>2, <2>4, <2>6, AttemptKeeps
  <2>9. "stopbits" \in Settings
    BY DEF Settings
  <2> QED  BY <2>3, <2>7, <2>8, <2>9, SetsKeeps DEF q
<1>8. ASSUME NEW f \in Flowcontrols, SetFlowcontrol(f)
      PROVE  PortHolds(tty', port', told')
  <2> DEFINE k == set_flowcontrol(tty, f)
             q == [port EXCEPT !["flowcontrol"] = f]
  <2>1. f \in FlowNames
    BY PortConstants
  <2>2. /\ k \in Termios /\ SameRate(k, tty) /\ k.csize = tty.csize
        /\ \A g \in Flags \ {"CRTSCTS", "IXON"} : g \in k.flags <=> g \in tty.flags
        /\ FlowOf(k) = f
    BY <1>0, <2>1, FlowcontrolSet
  <2>3. q \in PortType /\ q.flowcontrol = f
    BY <1>0, <2>1 DEF PortType
  <2> HIDE DEF k, q
  <2>4. AsTold(k, q, "flowcontrol")
    BY <2>2, <2>3 DEF AsTold, Shown
  <2>5. \A g \in {"PARENB", "PARODD", "CMSPAR", "CSTOPB"} : g \in k.flags <=> g \in tty.flags
    BY <2>2 DEF Flags
  <2>6. \A other \in Settings \ {"flowcontrol"} : AsTold(tty, port, other) => AsTold(k, port, other)
    BY <1>0, <2>2, <2>5, OthersKept DEF Settings
  <2>7. Sets("flowcontrol", f, {Failed(tty), Done(k)})
    BY <1>8 DEF k, SetFlowcontrol, Attempt
  <2>8. \A r \in {Failed(tty), Done(k)} :
          /\ r.line \in Termios /\ r.ok \in BOOLEAN
          /\ r.ok => AsTold(r.line, q, "flowcontrol")
          /\ \A other \in Settings \ {"flowcontrol"} :
               AsTold(tty, port, other) => AsTold(r.line, port, other)
    BY <1>0, <2>2, <2>4, <2>6, AttemptKeeps
  <2>9. "flowcontrol" \in Settings
    BY DEF Settings
  <2> QED  BY <2>3, <2>7, <2>8, <2>9, SetsKeeps DEF q
<1>9. ASSUME NEW baud \in Rates, SetBaudrate(baud)
      PROVE  PortHolds(tty', port', told')
  <2> DEFINE q == [port EXCEPT !["rate"] = baud]
             results == setBaudrate(tty, baud)
  <2>1. q \in PortType /\ q.rate = baud
    BY <1>0, PortConstants DEF PortType
  <2> HIDE DEF q
  <2>2. Sets("rate", baud, results)
    BY <1>9 DEF SetBaudrate
  <2>3. ASSUME NEW r \in results
        PROVE  /\ r.line \in Termios /\ r.ok \in BOOLEAN
               /\ r.ok => AsTold(r.line, q, "rate")
               /\ \A other \in Settings \ {"rate"} :
                    AsTold(tty, port, other) => AsTold(r.line, port, other)
    <3>1. /\ r.line \in Termios /\ r.ok \in BOOLEAN /\ SameFormat(r.line, tty)
          /\ r.ok => AsTold(r.line, q, "rate")
      BY <1>0, <2>1, BaudrateSet
    <3> QED  BY <1>0, <3>1, AsToldFormat
  <2> HIDE DEF results
  <2>4. "rate" \in Settings
    BY DEF Settings
  <2> QED  BY <2>1, <2>2, <2>3, <2>4, SetsKeeps DEF q
<1> QED  BY <1>1, <1>2, <1>3, <1>4, <1>5, <1>6, <1>7, <1>8, <1>9 DEF PortNext

\* What becomes of the line and of the object in a step of the driver.
LEMMA LineSteps ==
  ASSUME [Next]_vars
  PROVE  \/ /\ UNCHANGED <<tty, port, told>>
            /\ node \in {"offline", "gone"} => node' \in {"offline", "gone"}
         \/ PortForgotten /\ node' \in {"offline", "gone"}
         \/ PortNext /\ node' = "offline"
         \/ OpenWith(NodePort) /\ node' = (IF port'.is_open THEN "opened" ELSE "offline")
         \/ Opened
<1>1. CASE Line
  BY <1>1 DEF Line, Emit, Silence, SpinUp, Unplug, portVars, consumer
<1>2. CASE Receive
  BY <1>2 DEF Receive, Read, ReadFails, Extend, Publish, Published, SetEvent, Connected, portVars, consumer
<1>3. CASE Starts
  BY <1>3 DEF Starts, Others, Connect, Activate, Activated, SpeedIsRight, SpeedSet,
       SetRotationSpeed, PauseFails, Resume, Quiet, portVars, consumer
<1>4. CASE Grabs \/ Stop \/ StopSilent \/ Disconnect
  BY <1>4 DEF Grabs, Tick, TimesOut, CopyBegins, CopyEnds, Stop, StopSilent, Disconnect,
       Ended, Quiet, portVars
<1>5. CASE UNCHANGED vars
  BY <1>5 DEF vars, portVars, consumer
<1> QED  BY <1>1, <1>2, <1>3, <1>4, <1>5 DEF Next

LineHolds ==
  /\ PortHolds(tty, port, told)
  /\ node \notin {"offline", "gone"} => LinePrepared(tty, port)

LEMMA LineAtStart == Init => LineHolds
<1> SUFFICES ASSUME Init PROVE LineHolds
  OBVIOUS
<1>1. tty \in Termios /\ port \in Object /\ told = {} /\ node = "offline"
  BY LidarAssumption DEF Init, PortInit, NodeInit
<1>2. port \in PortType
  BY <1>1, PortConstants DEF Object, PortType
<1> QED  BY <1>1, <1>2 DEF LineHolds, PortHolds

LEMMA LineStays == LineHolds /\ [Next]_vars => LineHolds'
<1> SUFFICES ASSUME LineHolds, [Next]_vars PROVE LineHolds'
  OBVIOUS
<1>1. /\ tty \in Termios /\ port \in PortType /\ told \subseteq Settings
      /\ PortHolds(tty, port, told)
  BY DEF LineHolds, PortHolds
<1>2. NoLine \in Termios /\ "RAW" \in NoLine.flags
      /\ \A setting \in Settings : Shown(NoLine)[setting] = NodePort[setting]
  <2>1. SerialBaud \in Nat /\ B38400 \in Nat
    BY LidarAssumption, PortConstants
  <2>2. /\ NoLine.flags = {"RAW"} /\ NoLine.csize = 8 /\ NoLine.speed = SerialBaud
        /\ NoLine.bother = FALSE /\ NoLine.divisor = 0
    BY DEF NoLine, DefaultLine
  <2>3. NoLine \in Termios
    <3>1. DefaultLine(TRUE) \in Termios
      BY <2>1 DEF DefaultLine, Termios
    <3>2. {"RAW"} \in SUBSET Flags
      BY DEF Flags
    <3> QED  BY <2>1, <3>1, <3>2 DEF NoLine, Termios
  <2>4. ParityOf(NoLine) = "none" /\ FlowOf(NoLine) = "none" /\ RateOf(NoLine) = SerialBaud
    BY <2>2 DEF ParityOf, FlowOf, RateOf
  <2> QED
    BY <2>2, <2>3, <2>4 DEF Shown, NodePort, Settings
<1>3. CASE /\ UNCHANGED <<tty, port, told>>
           /\ node \in {"offline", "gone"} => node' \in {"offline", "gone"}
  BY <1>3 DEF LineHolds
<1>4. CASE PortForgotten /\ node' \in {"offline", "gone"}
  BY <1>2, <1>4, NodePortTyped DEF PortForgotten, LineHolds, PortHolds
<1>5. CASE PortNext /\ node' = "offline"
  BY <1>1, <1>5, PortKeeps DEF LineHolds
<1>6. CASE OpenWith(NodePort) /\ node' = (IF port'.is_open THEN "opened" ELSE "offline")
  <2>1. PICK r \in open(tty, NodePort) \cup {Failed(tty)} : Opening(NodePort, r)
    BY <1>6 DEF OpenWith, Opening
  <2>2. /\ PortHolds(tty', port', told')
        /\ port'.is_open => LinePrepared(tty', port')
    BY <1>1, <2>1, NodePortTyped, OpeningKeeps
  <2> QED  BY <1>6, <2>2 DEF LineHolds
<1>7. CASE Opened
  <2>1. LinePrepared(tty, port) /\ port' = port /\ told' = told /\ tty' = NoLine
    BY <1>7 DEF LineHolds, Opened
  <2>2. LinePrepared(tty', port')
    BY <1>2, <2>1 DEF LinePrepared
  <2>3. \A setting \in told' : AsTold(tty', port', setting)
    BY <1>1, <2>1, <2>2 DEF LinePrepared, AsTold
  <2> QED  BY <1>1, <1>2, <2>1, <2>2, <2>3 DEF LineHolds, PortHolds
<1> QED  BY <1>3, <1>4, <1>5, <1>6, <1>7, LineSteps

\* Whatever programs used the line before, in whatever order of calls of which some fail,
\* what open() or a setter said was made is made and stays so until a later call for it
\* fails; and when the node's open() succeeds, the line has the lidar's rate and format.
THEOREM LineFollowsCalls == Spec => []LineIsAsTold
<1>1. LineHolds => LineIsAsTold
  <2> SUFFICES ASSUME LineHolds PROVE LineIsAsTold
    OBVIOUS
  <2>1. SettingsAreAsTold
    BY DEF LineHolds, PortHolds, AsTold, SettingsAreAsTold
  <2> QED  BY <2>1 DEF LineHolds, LinePrepared, LineIsAsTold, Connected
<1> QED  BY <1>1, LineAtStart, LineStays, PTL DEF Spec

-----------------------------------------------------------------------------
\* The age of a scan.

\* While the node is awake no more time has passed since the scan it was woken for was
\* published than since it was woken; otherwise no time is counted against it.
AgeHolds ==
  /\ lag \in 0..Delay /\ age \in Nat
  /\ IF Awake THEN age <= lag ELSE lag = 0

LEMMA AgeAtStart == Init => AgeHolds
BY LidarAssumption DEF Init, NodeInit, AgeHolds, Awake

\* What becomes of the times in a step.
LEMMA AgeSteps ==
  ASSUME [Next]_vars
  PROVE  \/ TimePasses /\ node' = node
         \/ UNCHANGED <<lag, age>> /\ (node' = node \/ (node' \notin {"woken", "copying"} /\ ~Awake))
         \/ UNCHANGED <<lag, age>> /\ node = "woken" /\ node' = "copying"
         \/ Published
         \/ lag' = 0 /\ age' \in {0, age} /\ node' \notin {"woken", "copying"}
<1>1. CASE Line
  BY <1>1 DEF Line, Emit, Silence, SpinUp, Unplug, consumer
<1>2. CASE Receive
  BY <1>2 DEF Receive, Read, ReadFails, Extend, Publish, consumer
<1>3. CASE Starts
  BY <1>3 DEF Starts, Others, Connect, Opened, Activate, Activated, SpeedIsRight, SpeedSet,
       SetRotationSpeed, PauseFails, Resume, Quiet, consumer, Awake
<1>4. CASE Grabs \/ Stop \/ StopSilent \/ Disconnect
  BY <1>4 DEF Grabs, Tick, TimesOut, CopyBegins, CopyEnds, Stop, StopSilent, Disconnect,
       Ended, Quiet, Awake
<1>5. CASE UNCHANGED vars
  BY <1>5 DEF vars, consumer
<1> QED  BY <1>1, <1>2, <1>3, <1>4, <1>5 DEF Next

LEMMA AgeStays == AgeHolds /\ [Next]_vars => AgeHolds'
<1> SUFFICES ASSUME AgeHolds, [Next]_vars PROVE AgeHolds'
  OBVIOUS
<1>0. Delay \in Nat /\ Stale \in Nat
  BY LidarAssumption
<1>1. CASE TimePasses /\ node' = node
  BY <1>0, <1>1 DEF TimePasses, Copying, AgeHolds, Awake
<1>2. CASE UNCHANGED <<lag, age>> /\ (node' = node \/ (node' \notin {"woken", "copying"} /\ ~Awake))
  BY <1>2 DEF AgeHolds, Awake
<1>3. CASE UNCHANGED <<lag, age>> /\ node = "woken" /\ node' = "copying"
  BY <1>3 DEF AgeHolds, Awake
<1>4. CASE Published
  <2>1. lag' = lag /\ ((node' = node /\ age' = age) \/ (age' = 0 /\ node' \in {node, "woken"}))
    BY <1>4 DEF Published, SetEvent
  <2> QED  BY <1>0, <2>1 DEF AgeHolds, Awake
<1>5. CASE lag' = 0 /\ age' \in {0, age} /\ node' \notin {"woken", "copying"}
  BY <1>0, <1>5 DEF AgeHolds, Awake
<1> QED  BY <1>1, <1>2, <1>3, <1>4, <1>5, AgeSteps

\* A scan that is sent was completed within the last revolution's time: a scan that waited
\* for a node that did not wait for it is never sent later, after a pause, an unplugging or
\* however many ticks that timed out.
THEOREM SentScansAreFresh == Spec => ScansAreFresh
<1>1. AgeHolds /\ [Next]_vars => [CopyEnds /\ full_scan_data_[2] # <<>> => age < Stale]_vars
  BY LidarAssumption DEF AgeHolds, Awake, CopyEnds
<1> QED  BY <1>1, AgeAtStart, AgeStays, PTL DEF Spec, ScansAreFresh

-----------------------------------------------------------------------------
\* The parser.

\* A set of numbers that is not empty has a least.
LEMMA LeastOf ==
  ASSUME NEW S \in SUBSET Nat, S # {}
  PROVE  \E m \in S : \A n \in S : m <= n
<1>1. PICK m \in S : \A n \in S : <<n, m>> \notin OpToRel(<, Nat)
  BY NatLessThanWellFounded, WFMin, Zenon
<1>2. \A n \in S : ~(n < m)
  BY <1>1, Zenon DEF OpToRel
<1>3. \A n \in S : m <= n
  BY <1>2
<1> QED  BY <1>3

LEMMA DropLaw ==
  ASSUME NEW s \in Seq(Int), NEW n \in 0..Len(s)
  PROVE  /\ Drop(s, n) \in Seq(Int) /\ Len(Drop(s, n)) = Len(s) - n
         /\ \A i \in 1..Len(s) - n : Drop(s, n)[i] = s[n + i]
<1>1. \A i \in n + 1..Len(s) : s[i] \in Int
  BY ElementOfSeq
<1>2. Len(s) \in Nat
  BY LenProperties
<1> QED  BY <1>1, <1>2, SubSeqProperties DEF Drop

LEMMA DropNone ==
  ASSUME NEW s \in Seq(Int)
  PROVE  Drop(s, 0) = s
<1>1. Len(s) \in Nat
  BY LenProperties
<1> QED  BY <1>1, DropLaw, SeqEqual

LEMMA DropDrop ==
  ASSUME NEW s \in Seq(Int), NEW m \in 0..Len(s), NEW n \in 0..Len(s) - m
  PROVE  Drop(Drop(s, m), n) = Drop(s, m + n)
<1>0. Len(s) \in Nat /\ m \in Nat /\ n \in Nat /\ m + n <= Len(s) /\ m + n \in 0..Len(s)
  BY LenProperties
<1> DEFINE d == Drop(s, m)
<1>1. /\ d \in Seq(Int) /\ Len(d) = Len(s) - m
      /\ \A i \in 1..Len(s) - m : d[i] = s[m + i]
  BY <1>0, DropLaw
<1>2. /\ Drop(s, m + n) \in Seq(Int) /\ Len(Drop(s, m + n)) = Len(s) - (m + n)
      /\ \A i \in 1..Len(s) - (m + n) : Drop(s, m + n)[i] = s[m + n + i]
  BY <1>0, DropLaw
<1> HIDE DEF d
<1>3. /\ Drop(d, n) \in Seq(Int) /\ Len(Drop(d, n)) = Len(d) - n
      /\ \A i \in 1..Len(d) - n : Drop(d, n)[i] = d[n + i]
  <2>1. n \in 0..Len(d)
    BY <1>0, <1>1
  <2> QED  BY <1>1, <2>1, DropLaw
<1>4. ASSUME NEW i \in 1..Len(s) - (m + n)
      PROVE  Drop(d, n)[i] = Drop(s, m + n)[i]
  <2>1. n + i \in 1..Len(s) - m /\ i \in 1..Len(d) - n /\ m + (n + i) = m + n + i
    BY <1>0, <1>1
  <2> QED  BY <1>1, <1>2, <1>3, <2>1
<1>5. Len(Drop(d, n)) = Len(Drop(s, m + n))
  <2>1. (Len(s) - m) - n = Len(s) - (m + n)
    BY <1>0
  <2> QED  BY <1>1, <1>2, <1>3, <2>1
<1>6. \A i \in 1..Len(Drop(d, n)) : Drop(d, n)[i] = Drop(s, m + n)[i]
  BY <1>2, <1>4, <1>5
<1> QED  BY <1>2, <1>3, <1>5, <1>6, SeqEqual DEF d

LEMMA DropConcat ==
  ASSUME NEW s \in Seq(Int), NEW w \in Seq(Int), NEW n \in 0..Len(s)
  PROVE  Drop(s \o w, n) = Drop(s, n) \o w
<1>0. Len(s) \in Nat /\ Len(w) \in Nat
  BY LenProperties
<1> DEFINE c == s \o w
           d == Drop(s, n)
<1>1. /\ c \in Seq(Int) /\ Len(c) = Len(s) + Len(w)
      /\ \A i \in 1..Len(s) + Len(w) : c[i] = IF i <= Len(s) THEN s[i] ELSE w[i - Len(s)]
  BY ConcatProperties
<1>2. /\ d \in Seq(Int) /\ Len(d) = Len(s) - n
      /\ \A i \in 1..Len(s) - n : d[i] = s[n + i]
  BY DropLaw
<1> HIDE DEF c, d
<1>3. /\ d \o w \in Seq(Int) /\ Len(d \o w) = Len(d) + Len(w)
      /\ \A i \in 1..Len(d) + Len(w) : (d \o w)[i] = IF i <= Len(d) THEN d[i] ELSE w[i - Len(d)]
  BY <1>2, ConcatProperties
<1>4. /\ Drop(c, n) \in Seq(Int) /\ Len(Drop(c, n)) = Len(c) - n
      /\ \A i \in 1..Len(c) - n : Drop(c, n)[i] = c[n + i]
  <2>1. n \in 0..Len(c)
    BY <1>0, <1>1
  <2> QED  BY <1>1, <2>1, DropLaw
<1>5. Len(Drop(c, n)) = Len(d \o w)
  BY <1>0, <1>1, <1>2, <1>3, <1>4
<1>6. ASSUME NEW i \in 1..Len(d \o w)
      PROVE  Drop(c, n)[i] = (d \o w)[i]
  <2>1. i \in 1..Len(s) + Len(w) - n /\ n + i \in 1..Len(s) + Len(w) /\ n \in Nat
    BY <1>0, <1>2, <1>3
  <2>2. Drop(c, n)[i] = IF n + i <= Len(s) THEN s[n + i] ELSE w[n + i - Len(s)]
    <3>1. i \in 1..Len(c) - n
      BY <1>1, <2>1
    <3>2. Drop(c, n)[i] = c[n + i]
      BY <1>4, <3>1
    <3>3. c[n + i] = IF n + i <= Len(s) THEN s[n + i] ELSE w[(n + i) - Len(s)]
      BY <1>1, <2>1, Zenon
    <3> QED  BY <3>2, <3>3
  <2>3. (d \o w)[i] = IF i <= Len(s) - n THEN d[i] ELSE w[i - (Len(s) - n)]
    BY <1>2, <1>3, <1>6
  <2>4. n + i - Len(s) = i - (Len(s) - n) /\ (n + i <= Len(s) <=> i <= Len(s) - n)
    BY <1>0, <2>1
  <2>5. i <= Len(s) - n => d[i] = s[n + i]
    BY <1>0, <1>2, <2>1
  <2> QED  BY <2>2, <2>3, <2>4, <2>5
<1> QED  BY <1>3, <1>4, <1>5, <1>6, SeqEqual DEF c, d

\* The function by which Intact() is defined, and that there is one and only one.
FrameAt(s, i) == IsHeader(s, i) /\ s[i + 2] >= 0

IsFrom(s, f) ==
  f = [i \in 1..Len(s) + 1 |->
        IF i + 2 > Len(s) THEN <<>>
        ELSE IF FrameAt(s, i) THEN <<s[i + 2]>> \o f[i + 1]
        ELSE f[i + 1]]

\* It is found, unit by unit, from the end.
Found(s) == \E f : IsFrom(s, f) /\ \A g : IsFrom(s, g) => g = f

\* The units that follow the first: where the frames in them are.
LEMMA FrameAtShifts ==
  ASSUME NEW s \in Seq(Int), NEW n \in 0..Len(s), NEW i \in 1..Len(s) - n, i + 2 <= Len(s) - n
  PROVE  /\ FrameAt(Drop(s, n), i) <=> FrameAt(s, n + i)
         /\ Drop(s, n)[i + 2] = s[n + i + 2]
<1>0. Len(s) \in Nat
  BY LenProperties
<1>1. \A j \in 1..Len(s) - n : Drop(s, n)[j] = s[n + j]
  BY DropLaw
<1>2. Drop(s, n)[i] = s[n + i] /\ Drop(s, n)[i + 1] = s[n + i + 1] /\ Drop(s, n)[i + 2] = s[n + i + 2]
  <2>1. i \in 1..Len(s) - n /\ i + 1 \in 1..Len(s) - n /\ i + 2 \in 1..Len(s) - n
    BY <1>0
  <2>2. n + (i + 1) = n + i + 1 /\ n + (i + 2) = n + i + 2
    BY <1>0
  <2> QED  BY <1>1, <2>1, <2>2
<1> QED  BY <1>2 DEF FrameAt, IsHeader

LEMMA FromOfEmpty ==
  ASSUME NEW s \in Seq(Int), Len(s) = 0
  PROVE  Found(s)
<1> DEFINE f == [i \in 1..1 |-> <<>>]
<1>1. \A g : IsFrom(s, g) => g = f
  BY DEF IsFrom
<1>2. IsFrom(s, f)
  BY DEF IsFrom
<1> QED  BY <1>1, <1>2 DEF Found

\* The function of the units after the first.
LEMMA FromShifts ==
  ASSUME NEW s \in Seq(Int), Len(s) > 0, NEW f, IsFrom(s, f)
  PROVE  IsFrom(Drop(s, 1), [i \in 1..Len(s) |-> f[i + 1]])
<1> DEFINE t == Drop(s, 1)
           L == Len(s)
           k == [i \in 1..L |-> f[i + 1]]
           e(i) == IF i + 2 > L - 1 THEN <<>>
                   ELSE IF FrameAt(t, i) THEN <<t[i + 2]>> \o k[i + 1] ELSE k[i + 1]
<1>0. L \in Nat /\ 1 \in 0..L
  BY LenProperties
<1>1. t \in Seq(Int) /\ Len(t) = L - 1
  BY <1>0, DropLaw
<1>2. \A i \in 1..L + 1 : f[i] = IF i + 2 > L THEN <<>>
                              ELSE IF FrameAt(s, i) THEN <<s[i + 2]>> \o f[i + 1]
                              ELSE f[i + 1]
  BY DEF IsFrom
<1>3. ASSUME NEW i \in 1..L
      PROVE  f[i + 1] = e(i)
  <2>1. i + 1 \in 1..L + 1 /\ (i + 1) + 2 = i + 3 /\ (i + 1) + 1 = i + 2
    BY <1>0
  <2>2. f[i + 1] = IF i + 3 > L THEN <<>>
                   ELSE IF FrameAt(s, i + 1) THEN <<s[i + 3]>> \o f[i + 2] ELSE f[i + 2]
    BY <1>2, <2>1
  <2>3. CASE i + 3 > L  BY <1>0, <2>2, <2>3
  <2>4. CASE i + 3 <= L
    <3>1. /\ i \in 1..L - 1 /\ i + 2 <= L - 1 /\ i + 1 \in 1..L
          /\ ~(i + 3 > L) /\ ~(i + 2 > L - 1) /\ (i + 1) + 1 = i + 2
          /\ 1 + i = i + 1 /\ 1 + i + 2 = i + 3
      BY <1>0, <2>4
    <3>2. k[i + 1] = f[i + 2]
      BY <3>1
    <3>3. (FrameAt(t, i) <=> FrameAt(s, i + 1)) /\ t[i + 2] = s[i + 3]
      BY <1>0, <3>1, FrameAtShifts
    <3> HIDE DEF k, t
    <3> QED  BY <2>2, <3>1, <3>2, <3>3
  <2> QED  BY <1>0, <2>3, <2>4
<1>4. k = [i \in 1..L |-> e(i)]
  BY <1>3
<1>5. Len(t) + 1 = L
  BY <1>0, <1>1
<1> HIDE DEF k, t
<1>6. IsFrom(t, k)
  BY <1>1, <1>4, <1>5 DEF IsFrom
<1> QED  BY <1>6 DEF k, t

LEMMA FromOfMore ==
  ASSUME NEW s \in Seq(Int), Len(s) > 0, Found(Drop(s, 1))
  PROVE  Found(s)
<1>0. Len(s) \in Nat /\ 1 \in 0..Len(s)
  BY LenProperties
<1> DEFINE t == Drop(s, 1)
           L == Len(s)
<1>1. t \in Seq(Int) /\ Len(t) = L - 1
  BY <1>0, DropLaw
<1>2. \A i \in 1..L - 1 : i + 2 <= L - 1 =>
        (FrameAt(t, i) <=> FrameAt(s, i + 1)) /\ t[i + 2] = s[i + 3]
  BY <1>0, FrameAtShifts
<1>3. PICK h : IsFrom(t, h) /\ \A g : IsFrom(t, g) => g = h
  BY DEF Found
<1> HIDE DEF t
<1> DEFINE first == IF 3 > L THEN <<>> ELSE IF FrameAt(s, 1) THEN <<s[3]>> \o h[1] ELSE h[1]
           f == [i \in 1..L + 1 |-> IF i = 1 THEN first ELSE h[i - 1]]
<1>4. /\ h = [i \in 1..L |-> h[i]]
      /\ \A i \in 1..L : h[i] = IF i + 2 > L - 1 THEN <<>>
                                ELSE IF FrameAt(t, i) THEN <<t[i + 2]>> \o h[i + 1]
                                ELSE h[i + 1]
  <2>1. Len(t) + 1 = L
    BY <1>0, <1>1
  <2>2. h = [i \in 1..L |->
               IF i + 2 > Len(t) THEN <<>>
               ELSE IF FrameAt(t, i) THEN <<t[i + 2]>> \o h[i + 1] ELSE h[i + 1]]
    BY <1>3, <2>1 DEF IsFrom
  <2> QED  BY <1>1, <2>2
<1>5. IsFrom(s, f)
  <2> DEFINE e(i) == IF i + 2 > L THEN <<>>
                     ELSE IF FrameAt(s, i) THEN <<s[i + 2]>> \o f[i + 1] ELSE f[i + 1]
  <2>1. \A i \in 1..L + 1 : f[i] = IF i = 1 THEN first ELSE h[i - 1]
    OBVIOUS
  <2>2. f[1] = e(1)
    <3>1. f[1] = first /\ (3 <= L => f[2] = h[1])
      BY <1>0, <2>1
    <3> HIDE DEF f
    <3> QED  BY <1>0, <3>1
  <2>3. ASSUME NEW i \in 2..L + 1
        PROVE  f[i] = e(i)
    <3>1. f[i] = h[i - 1] /\ (i <= L => f[i + 1] = h[i])
      BY <1>0, <2>1
    <3> HIDE DEF f, first
    <3>2. i - 1 \in 1..L /\ (i - 1) + 2 = i + 1 /\ (i - 1) + 1 = i
      BY <1>0
    <3>3. h[i - 1] = IF i + 1 > L - 1 THEN <<>>
                     ELSE IF FrameAt(t, i - 1) THEN <<t[i + 1]>> \o h[i] ELSE h[i]
      BY <1>4, <3>2
    <3>4. ASSUME i + 1 <= L - 1
          PROVE  (FrameAt(t, i - 1) <=> FrameAt(s, i)) /\ t[i + 1] = s[i + 2]
      <4>1. i - 1 \in 1..L - 1 /\ (i - 1) + 2 <= L - 1 /\ (i - 1) + 3 = i + 2
        BY <1>0, <3>2, <3>4
      <4> QED  BY <1>2, <3>2, <4>1
    <3>5. CASE i + 2 > L  BY <1>0, <3>1, <3>3, <3>5
    <3>6. CASE i + 2 <= L
      <4>1. i + 1 <= L - 1 /\ i <= L /\ ~(i + 1 > L - 1) /\ ~(i + 2 > L)
        BY <1>0, <3>6
      <4> QED  BY <3>1, <3>3, <3>4, <4>1
    <3> QED  BY <1>0, <3>5, <3>6
  <2>4. \A i \in 1..L + 1 : f[i] = e(i)
    <3>1. \A i \in 1..L + 1 : i = 1 \/ i \in 2..L + 1
      BY <1>0
    <3> QED  BY <2>2, <2>3, <3>1
  <2>5. f = [i \in 1..L + 1 |-> f[i]]
    OBVIOUS
  <2> HIDE DEF f
  <2>6. f = [i \in 1..L + 1 |-> e(i)]
    BY <2>4, <2>5
  <2> QED  BY <2>6 DEF IsFrom
<1>6. ASSUME NEW g, IsFrom(s, g)
      PROVE  g = f
  <2>1. /\ g = [i \in 1..L + 1 |-> g[i]]
        /\ \A i \in 1..L + 1 : g[i] = IF i + 2 > L THEN <<>>
                                      ELSE IF FrameAt(s, i) THEN <<s[i + 2]>> \o g[i + 1]
                                      ELSE g[i + 1]
    BY <1>6 DEF IsFrom
  <2> DEFINE k == [i \in 1..L |-> g[i + 1]]
  <2>2. IsFrom(t, k)
    BY <1>6, FromShifts DEF t
  <2>3. k = h
    BY <1>3, <2>2
  <2>4. \A i \in 2..L + 1 : g[i] = h[i - 1]
    <3>1. \A i \in 2..L + 1 : i - 1 \in 1..L /\ (i - 1) + 1 = i
      BY <1>0
    <3>2. \A j \in 1..L : k[j] = g[j + 1]
      OBVIOUS
    <3> QED  BY <2>3, <3>1, <3>2
  <2>5. g[1] = first
    <3>1. 1 \in 1..L + 1 /\ 1 + 2 = 3 /\ 1 + 1 = 2 /\ 2 \in 2..L + 1 /\ 2 - 1 = 1
      BY <1>0
    <3>2. g[2] = h[1]
      BY <2>4, <3>1
    <3> QED  BY <2>1, <3>1, <3>2
  <2>6. \A i \in 1..L + 1 : g[i] = f[i]
    <3>1. \A i \in 1..L + 1 : i = 1 \/ i \in 2..L + 1
      BY <1>0
    <3> HIDE DEF first
    <3> QED  BY <1>0, <2>4, <2>5, <3>1
  <2> QED  BY <2>1, <2>6
<1> QED  BY <1>5, <1>6 DEF Found

\* There is one for every sequence: the shortest without one would have a tail without one.
LEMMA FromExists ==
  ASSUME NEW s \in Seq(Int)
  PROVE  Found(s)
<1> DEFINE Bad == {n \in Nat : \E u \in Seq(Int) : Len(u) = n /\ ~Found(u)}
<1>1. SUFFICES ASSUME ~Found(s) PROVE FALSE
  OBVIOUS
<1>2. Len(s) \in Bad
  BY <1>1, LenProperties
<1>3. PICK m \in Bad : \A n \in Bad : m <= n
  BY <1>2, LeastOf
<1>4. PICK u \in Seq(Int) : Len(u) = m /\ ~Found(u)
  BY <1>3
<1>5. m \in Nat
  BY <1>3
<1>6. CASE m = 0
  BY <1>4, <1>6, FromOfEmpty
<1>7. CASE m > 0
  <2>1. Drop(u, 1) \in Seq(Int) /\ Len(Drop(u, 1)) = m - 1
    BY <1>4, <1>5, <1>7, DropLaw
  <2>2. ~Found(Drop(u, 1))
    BY <1>4, <1>7, FromOfMore
  <2>3. m - 1 \in Bad
    BY <1>5, <1>7, <2>1, <2>2
  <2> QED  BY <1>3, <1>5, <2>3
<1> QED  BY <1>5, <1>6, <1>7

LEMMA IntactIs ==
  ASSUME NEW s \in Seq(Int)
  PROVE  \E f : IsFrom(s, f) /\ Intact(s) = f[1]
<1> DEFINE f == CHOOSE g : IsFrom(s, g)
<1>1. IsFrom(s, f)
  BY FromExists DEF Found
<1>2. Intact(s) = f[1]
  BY DEF Intact, IsFrom, FrameAt
<1> QED  BY <1>1, <1>2

\* The intact frames of some units: none of too few, and else that of the first place and
\* those of the rest.
LEMMA IntactOfFew ==
  ASSUME NEW s \in Seq(Int), Len(s) < 3
  PROVE  Intact(s) = <<>>
<1>1. PICK f : IsFrom(s, f) /\ Intact(s) = f[1]
  BY IntactIs
<1>2. Len(s) \in Nat
  BY LenProperties
<1> QED  BY <1>1, <1>2 DEF IsFrom

LEMMA IntactOfMore ==
  ASSUME NEW s \in Seq(Int), Len(s) >= 3
  PROVE  Intact(s) = IF FrameAt(s, 1) THEN <<s[3]>> \o Intact(Drop(s, 1)) ELSE Intact(Drop(s, 1))
<1> DEFINE t == Drop(s, 1)
           L == Len(s)
<1>0. L \in Nat /\ t \in Seq(Int) /\ Len(t) = L - 1
  <2>1. L \in Nat /\ 1 \in 0..L
    BY LenProperties
  <2> QED  BY <2>1, DropLaw
<1>1. PICK f : IsFrom(s, f) /\ Intact(s) = f[1]
  BY IntactIs
<1>2. PICK h : IsFrom(t, h) /\ Intact(t) = h[1]
  BY <1>0, IntactIs
<1>3. Found(t)
  BY <1>0, FromExists
<1>4. f = [i \in 1..L + 1 |-> f[i]]
      /\ \A i \in 1..L + 1 : f[i] = IF i + 2 > L THEN <<>>
                                  ELSE IF FrameAt(s, i) THEN <<s[i + 2]>> \o f[i + 1]
                                  ELSE f[i + 1]
  BY <1>1 DEF IsFrom
<1> DEFINE k == [i \in 1..L |-> f[i + 1]]
<1>5. IsFrom(t, k)
  BY <1>0, <1>1, FromShifts, SMTT(30)
<1>6. k = h
  BY <1>2, <1>3, <1>5 DEF Found
<1>7. f[2] = Intact(t)
  <2>1. 1 \in 1..L /\ 1 + 1 = 2
    BY <1>0
  <2>2. k[1] = f[2]
    BY <2>1
  <2> QED  BY <1>2, <1>6, <2>2
<1> HIDE DEF t, k
<1>8. 1 \in 1..L + 1 /\ ~(1 + 2 > L) /\ 1 + 2 = 3 /\ 1 + 1 = 2
  BY <1>0
<1>9. f[1] = IF FrameAt(s, 1) THEN <<s[3]>> \o f[2] ELSE f[2]
  BY <1>4, <1>8
<1> QED  BY <1>1, <1>7, <1>9 DEF t

LEMMA IntactTyped ==
  ASSUME NEW s \in Seq(Int)
  PROVE  Intact(s) \in Seq(Int)
<1> DEFINE Bad == {n \in Nat : \E u \in Seq(Int) : Len(u) = n /\ Intact(u) \notin Seq(Int)}
<1>1. SUFFICES ASSUME Intact(s) \notin Seq(Int) PROVE FALSE
  OBVIOUS
<1>2. Len(s) \in Bad
  BY <1>1, LenProperties
<1>3. PICK m \in Bad : \A n \in Bad : m <= n
  BY <1>2, LeastOf
<1>4. PICK u \in Seq(Int) : Len(u) = m /\ Intact(u) \notin Seq(Int)
  BY <1>3
<1>5. m \in Nat
  BY <1>3
<1>6. CASE m < 3
  BY <1>4, <1>6, IntactOfFew, EmptySeq
<1>7. CASE m >= 3
  <2>1. 1 \in 0..Len(u) /\ 3 \in 1..Len(u)
    BY <1>4, <1>5, <1>7
  <2>2. Drop(u, 1) \in Seq(Int) /\ Len(Drop(u, 1)) = m - 1
    BY <1>4, <2>1, DropLaw
  <2>3. Intact(Drop(u, 1)) \in Seq(Int)
    BY <1>3, <1>5, <1>7, <2>2
  <2>4. <<u[3]>> \in Seq(Int)
    BY <2>1, ElementOfSeq
  <2>5. <<u[3]>> \o Intact(Drop(u, 1)) \in Seq(Int)
    BY <2>3, <2>4, ConcatProperties
  <2> QED  BY <1>4, <1>7, <2>3, <2>5, IntactOfMore
<1> QED  BY <1>5, <1>6, <1>7

\* Units in front of which no intact frame begins may be left out.
LEMMA IntactSkips ==
  ASSUME NEW s \in Seq(Int), NEW n \in 0..Len(s),
         \A i \in 1..n : i + 2 <= Len(s) => ~FrameAt(s, i)
  PROVE  Intact(Drop(s, n)) = Intact(s)
<1> DEFINE Bad == {k \in 0..n : Intact(Drop(s, k)) # Intact(s)}
<1>0. Len(s) \in Nat /\ n \in Nat /\ n <= Len(s)
  BY LenProperties
<1>1. SUFFICES ASSUME Intact(Drop(s, n)) # Intact(s) PROVE FALSE
  OBVIOUS
<1>2. n \in Bad /\ Bad \in SUBSET Nat
  BY <1>0, <1>1
<1>3. PICK m \in Bad : \A k \in Bad : m <= k
  BY <1>2, LeastOf
<1>4. m \in 0..n /\ Intact(Drop(s, m)) # Intact(s)
  BY <1>3
<1>5. m # 0
  BY <1>4, DropNone
<1> DEFINE t == Drop(s, m - 1)
<1>6. m - 1 \in 0..n /\ m - 1 \in 0..Len(s) /\ m \in Nat
  BY <1>0, <1>4, <1>5
<1>7. Intact(t) = Intact(s)
  BY <1>3, <1>6
<1>8. t \in Seq(Int) /\ Len(t) = Len(s) - (m - 1)
  BY <1>6, DropLaw
<1>9. Drop(t, 1) = Drop(s, m)
  <2>1. 1 \in 0..Len(s) - (m - 1) /\ (m - 1) + 1 = m
    BY <1>0, <1>4, <1>6
  <2> QED  BY <1>6, <2>1, DropDrop
<1>10. Intact(Drop(t, 1)) = Intact(t)
  <2>1. CASE Len(t) < 3
    <3>1. 1 \in 0..Len(t) /\ Len(t) \in Nat
      BY <1>0, <1>4, <1>6, <1>8
    <3>2. Drop(t, 1) \in Seq(Int) /\ Len(Drop(t, 1)) = Len(t) - 1
      BY <1>8, <3>1, DropLaw
    <3>3. Len(Drop(t, 1)) < 3
      BY <2>1, <3>1, <3>2
    <3> QED  BY <1>8, <2>1, <3>2, <3>3, IntactOfFew
  <2>2. CASE Len(t) >= 3
    <3> DEFINE lt == Len(t)
               ls == Len(s)
    <3>1a. ls \in Nat /\ m \in Nat /\ n \in Nat /\ lt = ls - (m - 1) /\ lt >= 3
      BY <1>0, <1>6, <1>8, <2>2
    <3>1b. m >= 1 /\ m <= n /\ n <= ls
      <4> HIDE DEF t
      <4> QED  BY <1>0, <1>4, <1>5, <1>6
    <3>1. /\ 1 \in 1..Len(s) - (m - 1) /\ 1 + 2 <= Len(s) - (m - 1) /\ (m - 1) + 1 = m
          /\ m \in 1..n /\ m + 2 <= Len(s)
      <4>1. /\ 1 \in 1..ls - (m - 1) /\ 1 + 2 <= ls - (m - 1) /\ (m - 1) + 1 = m
            /\ m \in 1..n /\ m + 2 <= ls
        <5> HIDE DEF lt, ls, t
        <5> QED  BY <3>1a, <3>1b
      <4> QED  BY <4>1
    <3>2. FrameAt(t, 1) <=> FrameAt(s, m)
      BY <1>6, <3>1, FrameAtShifts
    <3>3. ~FrameAt(t, 1)
      BY <3>1, <3>2
    <3> QED  BY <1>8, <2>2, <3>3, IntactOfMore
  <2>3. Len(t) \in Nat
    BY <1>8, LenProperties
  <2> QED  BY <2>1, <2>2, <2>3
<1> QED  BY <1>4, <1>7, <1>9, <1>10

\* Units that begin with a header.
Headed(s) == Len(s) >= 2 /\ IsHeader(s, 1)

\* What the scan for a header skips: units with no header among them.
LEMMA SkipLaw ==
  ASSUME NEW s \in Seq(Int), Len(s) >= 3
  PROVE  /\ Skip(s) \in 0..Len(s) - 2
         /\ \A i \in 1..Skip(s) : ~IsHeader(s, i)
         /\ Skip(s) < Len(s) - 2 => IsHeader(s, Skip(s) + 1)
<1> DEFINE places == {i \in 1..Len(s) - 2 : IsHeader(s, i)}
<1>0. Len(s) \in Nat
  BY LenProperties
<1>1. CASE places = {}
  <2>1. Skip(s) = Len(s) - 2
    BY <1>1 DEF Skip
  <2> QED  BY <1>0, <1>1, <2>1
<1>2. CASE places # {}
  <2>1. PICK m \in places : \A n \in places : m <= n
    <3>1. places \in SUBSET Nat
      BY <1>0
    <3> QED  BY <1>2, <3>1, LeastOf
  <2>2. Min(places) \in places /\ \A n \in places : Min(places) <= n
    <3> HIDE DEF places
    <3> QED  BY <2>1 DEF Min
  <2>3. Skip(s) = Min(places) - 1
    BY <1>2 DEF Skip
  <2> DEFINE k == Min(places)
  <2>4. k \in 1..Len(s) - 2 /\ IsHeader(s, k)
    BY <2>2
  <2>5. \A i \in 1..k - 1 : i \notin places
    <3> HIDE DEF places
    <3> QED  BY <1>0, <2>2, <2>4
  <2>6. \A i \in 1..k - 1 : ~IsHeader(s, i)
    <3> HIDE DEF k
    <3> QED  BY <1>0, <2>4, <2>5
  <2> HIDE DEF k
  <2>7. Skip(s) = k - 1
    BY <2>3 DEF k
  <2> QED  BY <1>0, <2>4, <2>6, <2>7
<1> QED  BY <1>1, <1>2

\* Of units with others behind them, the frames that begin among the first.
LEMMA FrameAtConcat ==
  ASSUME NEW s \in Seq(Int), NEW w \in Seq(Int), NEW i \in 1..Len(s)
  PROVE  /\ s \o w \in Seq(Int) /\ Len(s \o w) = Len(s) + Len(w)
         /\ i + 1 <= Len(s) => (IsHeader(s \o w, i) <=> IsHeader(s, i))
         /\ i + 2 <= Len(s) => (FrameAt(s \o w, i) <=> FrameAt(s, i)) /\ (s \o w)[i + 2] = s[i + 2]
<1>0. Len(s) \in Nat /\ Len(w) \in Nat
  BY LenProperties
<1> DEFINE c == s \o w
<1>1. /\ c \in Seq(Int) /\ Len(c) = Len(s) + Len(w)
      /\ \A j \in 1..Len(s) + Len(w) : c[j] = IF j <= Len(s) THEN s[j] ELSE w[j - Len(s)]
  BY ConcatProperties
<1> HIDE DEF c
<1>2. \A j \in 1..Len(s) : c[j] = s[j]
  <2>1. \A j \in 1..Len(s) : j \in 1..Len(s) + Len(w) /\ j <= Len(s)
    BY <1>0
  <2> QED  BY <1>1, <2>1
<1>3. c[i] = s[i]
  BY <1>2
<1>4. i + 1 <= Len(s) => c[i + 1] = s[i + 1]
  BY <1>0, <1>2
<1>5. i + 2 <= Len(s) => c[i + 1] = s[i + 1] /\ c[i + 2] = s[i + 2]
  BY <1>0, <1>2
<1>6. (i + 1 <= Len(s) => (IsHeader(c, i) <=> IsHeader(s, i)))
  BY <1>3, <1>4 DEF IsHeader
<1>7. i + 2 <= Len(s) => (FrameAt(c, i) <=> FrameAt(s, i)) /\ c[i + 2] = s[i + 2]
  BY <1>3, <1>5 DEF FrameAt, IsHeader
<1> QED  BY <1>1, <1>6, <1>7 DEF c

\* With the units in front of the first header, no intact frame is left out.
LEMMA SkipKeeps ==
  ASSUME NEW s \in Seq(Int), Len(s) >= 3, NEW w \in Seq(Int)
  PROVE  Intact(Drop(s, Skip(s)) \o w) = Intact(s \o w)
<1>0. Len(s) \in Nat /\ Len(w) \in Nat
  BY LenProperties
<1>1. Skip(s) \in 0..Len(s) - 2 /\ \A i \in 1..Skip(s) : ~IsHeader(s, i)
  BY SkipLaw
<1> DEFINE n == Skip(s)
<1> HIDE DEF n
<1>2. n \in 0..Len(s) - 2 /\ \A i \in 1..n : ~IsHeader(s, i)
  BY <1>1 DEF n
<1>3. Drop(s, n) \o w = Drop(s \o w, n)
  <2>1. n \in 0..Len(s)
    BY <1>0, <1>2
  <2> QED  BY <2>1, DropConcat
<1>4. s \o w \in Seq(Int) /\ Len(s \o w) = Len(s) + Len(w)
  BY ConcatProperties
<1>5. ASSUME NEW i \in 1..n
      PROVE  ~FrameAt(s \o w, i)
  <2>1. i \in 1..Len(s) /\ i + 1 <= Len(s)
    BY <1>0, <1>2
  <2>2. IsHeader(s \o w, i) <=> IsHeader(s, i)
    BY <2>1, FrameAtConcat
  <2> QED  BY <1>2, <2>2 DEF FrameAt
<1>6. n \in 0..Len(s \o w)
  BY <1>0, <1>2, <1>4
<1> QED  BY <1>3, <1>4, <1>5, <1>6, IntactSkips DEF n

\* Behind a header whose CRC fails, no intact frame begins within it.
LEMMA BadCrcKeeps ==
  ASSUME NEW s \in Seq(Int), Len(s) >= 3, IsHeader(s, 1), ~CrcHolds(s), NEW w \in Seq(Int)
  PROVE  Intact(AfterBadCrc(s) \o w) = Intact(s \o w)
<1>0. Len(s) \in Nat /\ Len(w) \in Nat
  BY LenProperties
<1>1. s \o w \in Seq(Int) /\ Len(s \o w) = Len(s) + Len(w)
  BY ConcatProperties
<1>2. 2 \in 0..Len(s) /\ 2 \in 0..Len(s \o w) /\ 1 \in 1..Len(s) /\ 2 \in 1..Len(s)
      /\ 1 + 2 <= Len(s) /\ 2 + 1 <= Len(s)
  BY <1>0, <1>1
<1>3. Drop(s, 2) \o w = Drop(s \o w, 2)
  BY <1>2, DropConcat
<1>4. ~FrameAt(s \o w, 1)
  <2>1. FrameAt(s \o w, 1) <=> FrameAt(s, 1)
    BY <1>2, FrameAtConcat
  <2> QED  BY <2>1 DEF FrameAt, CrcHolds
<1>5. ~FrameAt(s \o w, 2)
  <2>1. IsHeader(s \o w, 2) <=> IsHeader(s, 2)
    BY <1>2, FrameAtConcat
  <2> QED  BY <2>1 DEF FrameAt, IsHeader, Mark, Version
<1>6. \A i \in 1..2 : ~FrameAt(s \o w, i)
  <2>1. \A i \in 1..2 : i = 1 \/ i = 2
    OBVIOUS
  <2> QED  BY <1>4, <1>5, <2>1
<1> QED  BY <1>1, <1>2, <1>3, <1>6, IntactSkips DEF AfterBadCrc

\* A frame whose CRC holds is the first intact one, and the next begins behind it.
LEMMA GoodCrcTakes ==
  ASSUME NEW s \in Seq(Int), Len(s) >= 3, CrcHolds(s), NEW w \in Seq(Int)
  PROVE  Intact(s \o w) = <<s[3]>> \o Intact(Drop(s, FrameSize) \o w)
<1> DEFINE c == s \o w
           d == Drop(c, 1)
<1>0. Len(s) \in Nat /\ Len(w) \in Nat
  BY LenProperties
<1>1. c \in Seq(Int) /\ Len(c) = Len(s) + Len(w)
  BY ConcatProperties
<1>2. /\ 1 \in 1..Len(s) /\ 2 \in 1..Len(s) /\ 3 \in 0..Len(s) /\ 1 \in 0..Len(c)
      /\ 1 + 2 <= Len(s) /\ 2 + 1 <= Len(s) /\ 1 + 2 = 3 /\ Len(c) >= 3
      /\ 2 \in 0..Len(c) - 1
  BY <1>0, <1>1
<1>3. FrameAt(c, 1) /\ c[3] = s[3]
  <2>1. (FrameAt(c, 1) <=> FrameAt(s, 1)) /\ c[3] = s[3]
    BY <1>2, FrameAtConcat
  <2> QED  BY <2>1 DEF FrameAt, CrcHolds
<1>4. Intact(c) = <<s[3]>> \o Intact(d)
  BY <1>1, <1>2, <1>3, IntactOfMore
<1>5. d \in Seq(Int) /\ Len(d) = Len(c) - 1 /\ \A i \in 1..Len(c) - 1 : d[i] = c[1 + i]
  BY <1>1, <1>2, DropLaw
<1>6. s[2] = Version /\ s[3] >= 0 /\ c[2] = s[2]
  <2>1. s[2] = Version /\ s[3] >= 0
    BY DEF CrcHolds, IsHeader
  <2>2. c[2] = s[2]
    BY <1>3, <2>1 DEF FrameAt, IsHeader
  <2> QED  BY <2>1, <2>2
<1>7. d[1] = Version /\ d[2] >= 0
  <2>1. 1 \in 1..Len(c) - 1 /\ 2 \in 1..Len(c) - 1 /\ 1 + 1 = 2
    BY <1>0, <1>1
  <2> QED  BY <1>2, <1>3, <1>5, <1>6, <2>1
<1> HIDE DEF d
<1>8. \A i \in 1..2 : ~FrameAt(d, i)
  <2>1. \A i \in 1..2 : i = 1 \/ i = 2
    OBVIOUS
  <2>2. ~FrameAt(d, 1) /\ ~FrameAt(d, 2)
    BY <1>7 DEF FrameAt, IsHeader, Mark, Version
  <2> QED  BY <2>1, <2>2
<1>9. Intact(Drop(d, 2)) = Intact(d)
  <2>1. 2 \in 0..Len(d)
    BY <1>2, <1>5
  <2> QED  BY <1>5, <1>8, <2>1, IntactSkips
<1>10. Drop(d, 2) = Drop(s, 3) \o w
  <2>1. Drop(d, 2) = Drop(c, 3)
    BY <1>1, <1>2, DropDrop, ZenonT(30) DEF d
  <2> QED  BY <1>2, <2>1, DropConcat
<1> QED  BY <1>4, <1>9, <1>10 DEF FrameSize

LEMMA Associative ==
  ASSUME NEW s \in Seq(Int), NEW t \in Seq(Int), NEW u \in Seq(Int)
  PROVE  (s \o t) \o u = s \o (t \o u)
BY ConcatAssociative, SMTT(30)

\* A turn of the loop loses no intact frame, repeats none and makes none up.
LEMMA TurnLaw ==
  ASSUME NEW t \in Turns, t.flagged => Headed(t.units), NEW w \in Seq(Int),
         NEW r, r = Turn[t]
  PROVE  /\ r \in Turns /\ (r.flagged => Headed(r.units))
         /\ r.found \o Intact(r.units \o w) = t.found \o Intact(t.units \o w)
<1> DEFINE skip == IF t.flagged THEN 0 ELSE Skip(t.units)
           rest == Drop(t.units, skip)
           left == Drop(rest, FrameSize)
           after(units, found, done) ==
             [units |-> units, flagged |-> FALSE, skipped |-> skip, found |-> found, done |-> done]
<1>0. t.units \in Seq(Int) /\ t.skipped \in Nat /\ t.found \in Seq(Int) /\ Len(t.units) \in Nat
      /\ t.flagged \in BOOLEAN /\ t.done \in BOOLEAN
  BY LenProperties DEF Turns
<1>1. r = IF t.done \/ t.skipped >= Len(t.units) - 2 THEN [t EXCEPT !.done = TRUE]
          ELSE IF Len(rest) < FrameSize
            THEN [after(rest, t.found, TRUE) EXCEPT !.flagged = t.flagged \/ IsHeader(rest, 1)]
          ELSE IF ~CrcHolds(rest) THEN after(AfterBadCrc(rest), t.found, FALSE)
          ELSE after(left, Append(t.found, rest[3]), Len(left) < FrameSize)
  BY DEF Turn
<1>2. CASE t.done \/ t.skipped >= Len(t.units) - 2
  <2>1. r = [t EXCEPT !.done = TRUE]
    BY <1>1, <1>2
  <2>2. r \in Turns /\ r.units = t.units /\ r.flagged = t.flagged /\ r.found = t.found
    BY <2>1 DEF Turns
  <2> QED  BY <2>2
<1>3. CASE ~(t.done \/ t.skipped >= Len(t.units) - 2)
  <2>1. Len(t.units) >= 3
    BY <1>0, <1>3
  <2>2. /\ skip \in 0..Len(t.units) - 2
        /\ t.flagged \/ (skip < Len(t.units) - 2 => IsHeader(t.units, skip + 1))
    BY <1>0, <2>1, SkipLaw
  <2>3. /\ rest \in Seq(Int) /\ Len(rest) = Len(t.units) - skip /\ Len(rest) \in Nat
        /\ \A i \in 1..Len(t.units) - skip : rest[i] = t.units[skip + i]
    <3> HIDE DEF skip
    <3>1. skip \in 0..Len(t.units)
      BY <1>0, <2>2
    <3> QED  BY <1>0, <3>1, DropLaw, LenProperties
  <2>4. Intact(rest \o w) = Intact(t.units \o w)
    <3>1. CASE t.flagged
      BY <1>0, <3>1, DropNone
    <3>2. CASE ~t.flagged
      BY <1>0, <2>1, <3>2, SkipKeeps
    <3> QED  BY <3>1, <3>2
  <2>5. Len(rest) >= 3 => IsHeader(rest, 1)
    <3>1. CASE t.flagged
      <4>1. rest = t.units
        BY <1>0, <3>1, DropNone
      <4> QED  BY <3>1, <4>1 DEF Headed
    <3>2. CASE ~t.flagged
      <4> HIDE DEF skip, rest
      <4>1. ASSUME Len(rest) >= 3
            PROVE  IsHeader(rest, 1)
        <5>1. /\ skip < Len(t.units) - 2 /\ 1 \in 1..Len(t.units) - skip
              /\ 2 \in 1..Len(t.units) - skip /\ (skip + 1) + 1 = skip + 2
          BY <1>0, <2>2, <2>3, <4>1, SMTT(30)
        <5>2. rest[1] = t.units[skip + 1] /\ rest[2] = t.units[skip + 2]
          BY <2>3, <5>1
        <5>3. IsHeader(t.units, skip + 1)
          BY <2>2, <3>2, <5>1
        <5> QED  BY <5>1, <5>2, <5>3 DEF IsHeader
      <4> QED  BY <4>1
    <3> QED  BY <3>1, <3>2
  <2>6. skip \in Nat /\ Len(rest) >= 2
    <3> HIDE DEF skip, rest
    <3> QED  BY <1>0, <2>2, <2>3
  <2>7. CASE Len(rest) < FrameSize
    <3>1. r = [after(rest, t.found, TRUE) EXCEPT !.flagged = t.flagged \/ IsHeader(rest, 1)]
      BY <1>1, <1>3, <2>7
    <3>2. t.flagged => rest = t.units
      BY <1>0, DropNone
    <3> HIDE DEF skip, rest
    <3>3. /\ r.units = rest /\ r.found = t.found /\ r.flagged = (t.flagged \/ IsHeader(rest, 1))
          /\ r = [units |-> rest, flagged |-> t.flagged \/ IsHeader(rest, 1), skipped |-> skip,
                  found |-> t.found, done |-> TRUE]
      BY <3>1
    <3>4. (t.flagged \/ IsHeader(rest, 1)) \in BOOLEAN
      BY <1>0 DEF IsHeader
    <3>5. r \in Turns
      <4> DEFINE flag == t.flagged \/ IsHeader(rest, 1)
      <4>1. flag \in BOOLEAN
        BY <3>4
      <4>2. r = [units |-> rest, flagged |-> flag, skipped |-> skip, found |-> t.found, done |-> TRUE]
        BY <3>3
      <4> HIDE DEF flag
      <4> QED  BY <1>0, <2>3, <2>6, <4>1, <4>2 DEF Turns
    <3>6. r.flagged => Headed(r.units)
      BY <2>6, <3>2, <3>3 DEF Headed
    <3> QED  BY <2>4, <3>3, <3>5, <3>6
  <2>8. CASE Len(rest) >= FrameSize /\ ~CrcHolds(rest)
    <3>1. r = after(AfterBadCrc(rest), t.found, FALSE)
      BY <1>1, <1>3, <2>3, <2>8 DEF FrameSize
    <3> HIDE DEF skip, rest
    <3>2. AfterBadCrc(rest) \in Seq(Int)
      <4>1. 2 \in 0..Len(rest)
        BY <2>3, <2>6
      <4> QED  BY <2>3, <4>1, DropLaw DEF AfterBadCrc
    <3>3. r \in Turns /\ r.units = AfterBadCrc(rest) /\ r.found = t.found /\ ~r.flagged
      BY <1>0, <2>6, <3>1, <3>2 DEF Turns
    <3>4. Intact(AfterBadCrc(rest) \o w) = Intact(rest \o w)
      BY <2>3, <2>5, <2>8, BadCrcKeeps DEF FrameSize
    <3> QED  BY <2>4, <3>3, <3>4
  <2>9. CASE Len(rest) >= FrameSize /\ CrcHolds(rest)
    <3>1. r = after(left, Append(t.found, rest[3]), Len(left) < FrameSize)
      BY <1>1, <1>3, <2>3, <2>9 DEF FrameSize
    <3> HIDE DEF skip, rest
    <3>2. left \in Seq(Int) /\ rest[3] \in Int /\ Len(rest) >= 3
      <4>1. 3 \in 0..Len(rest) /\ 3 \in 1..Len(rest) /\ Len(rest) >= 3
        BY <2>3, <2>9 DEF FrameSize
      <4> QED  BY <2>3, <4>1, DropLaw, ElementOfSeq DEF FrameSize
    <3>3. Append(t.found, rest[3]) \in Seq(Int) /\ Append(t.found, rest[3]) = t.found \o <<rest[3]>>
      <4>1. t.found \in Seq(Int) /\ rest[3] \in Int
        BY <1>0, <3>2
      <4>2. Append(t.found, rest[3]) = t.found \o <<rest[3]>>
        BY <4>1, AppendIsConcat
      <4>3. Append(t.found, rest[3]) \in Seq(Int)
        BY <4>1, AppendProperties
      <4> QED  BY <4>2, <4>3
    <3> HIDE DEF left
    <3>4. (Len(left) < FrameSize) \in BOOLEAN
      OBVIOUS
    <3>5. r \in Turns /\ r.units = left /\ r.found = t.found \o <<rest[3]>> /\ ~r.flagged
      BY <2>6, <3>1, <3>2, <3>3, <3>4 DEF Turns
    <3>6. Intact(rest \o w) = <<rest[3]>> \o Intact(left \o w)
      BY <2>3, <2>9, <3>2, GoodCrcTakes DEF left
    <3>7. Intact(left \o w) \in Seq(Int) /\ <<rest[3]>> \in Seq(Int)
      <4>1. left \o w \in Seq(Int)
        BY <3>2, ConcatProperties
      <4>2. Intact(left \o w) \in Seq(Int)
        BY <4>1, IntactTyped
      <4>3. <<rest[3]>> \in Seq(Int)
        BY <3>2
      <4> QED  BY <4>2, <4>3
    <3>8. (t.found \o <<rest[3]>>) \o Intact(left \o w) = t.found \o (<<rest[3]>> \o Intact(left \o w))
      <4>1. t.found \in Seq(Int)
        BY <1>0
      <4> QED  BY <3>7, <4>1, Associative
    <3> QED  BY <2>4, <3>5, <3>6, <3>8
  <2>10. Len(rest) < FrameSize \/ Len(rest) >= FrameSize
    <3> HIDE DEF rest
    <3> QED  BY <2>3 DEF FrameSize
  <2> QED  BY <2>7, <2>8, <2>9, <2>10, Zenon
<1> QED  BY <1>2, <1>3

\* The loop's turns, one after the other.
Turned(n, first, f) == f = [k \in 0..n |-> IF k = 0 THEN first ELSE Turn[f[k - 1]]]

LEMMA TurnsExist ==
  ASSUME NEW n \in Nat, NEW first
  PROVE  \E f : Turned(n, first, f)
<1> DEFINE Bad == {k \in Nat : ~\E f : Turned(k, first, f)}
<1>1. SUFFICES ASSUME n \in Bad PROVE FALSE
  OBVIOUS
<1>2. PICK m \in Bad : \A k \in Bad : m <= k
  BY <1>1, LeastOf
<1>3. m \in Nat /\ ~\E f : Turned(m, first, f)
  BY <1>2
<1>4. CASE m = 0
  <2> DEFINE f == [k \in 0..0 |-> first]
  <2>1. Turned(0, first, f)
    BY DEF Turned
  <2> QED  BY <1>3, <1>4, <2>1
<1>5. CASE m > 0
  <2>1. m - 1 \in Nat /\ m - 1 \notin Bad
    BY <1>2, <1>3, <1>5
  <2>2. PICK g : Turned(m - 1, first, g)
    BY <2>1
  <2> DEFINE f == [k \in 0..m |-> IF k = m THEN Turn[g[m - 1]] ELSE g[k]]
  <2>3. \A k \in 0..m - 1 : g[k] = IF k = 0 THEN first ELSE Turn[g[k - 1]]
    BY <2>2 DEF Turned
  <2>4. \A k \in 0..m : f[k] = IF k = m THEN Turn[g[m - 1]] ELSE g[k]
    OBVIOUS
  <2>5. f = [k \in 0..m |-> f[k]]
    OBVIOUS
  <2> HIDE DEF f
  <2>6. ASSUME NEW k \in 0..m
        PROVE  f[k] = IF k = 0 THEN first ELSE Turn[f[k - 1]]
    <3>1. CASE k = 0
      BY <1>3, <1>5, <2>3, <2>4, <3>1
    <3>2. CASE k # 0
      <4>1. k - 1 \in 0..m /\ k - 1 # m /\ m - 1 \in 0..m
        BY <1>3, <3>2
      <4>2. f[k - 1] = g[k - 1]
        BY <2>4, <4>1
      <4>3. k # m => k \in 0..m - 1
        BY <1>3
      <4>4. f[k] = Turn[g[k - 1]]
        BY <2>3, <2>4, <3>2, <4>3
      <4> QED  BY <3>2, <4>2, <4>4
    <3> QED  BY <3>1, <3>2
  <2>7. Turned(m, first, f)
    BY <2>5, <2>6 DEF Turned
  <2> QED  BY <1>3, <2>7
<1> QED  BY <1>3, <1>4, <1>5

\* What the loop leaves: typed, headed if it says so, and with every intact frame found or
\* still to be found.
LEMMA ParseLaw ==
  ASSUME NEW s \in Seq(Int), NEW flagged \in BOOLEAN, flagged => Headed(s), NEW w \in Seq(Int),
         NEW r, r = Parse(s, flagged)
  PROVE  /\ r \in Turns /\ (r.flagged => Headed(r.units))
         /\ r.found \o Intact(r.units \o w) = Intact(s \o w)
<1> DEFINE N == Len(s) \div 2
           first == [units |-> s, flagged |-> flagged, skipped |-> 0, found |-> <<>>,
                     done |-> Len(s) < FrameSize]
           f == CHOOSE g : Turned(N, first, g)
           Law(t) == /\ t \in Turns /\ (t.flagged => Headed(t.units))
                     /\ t.found \o Intact(t.units \o w) = Intact(s \o w)
           Bad == {k \in 0..N : ~Law(f[k])}
<1>1. N \in Nat
  BY LenProperties
<1>2. Turned(N, first, f)
  BY <1>1, TurnsExist
<1>3. r = f[N]
  BY DEF Parse, Turned
<1> HIDE DEF f, N
<1>4. \A k \in 0..N : f[k] = IF k = 0 THEN first ELSE Turn[f[k - 1]]
  BY <1>2 DEF Turned
<1>5. Law(first)
  <2> DEFINE short == Len(s) < FrameSize
  <2>1. short \in BOOLEAN
    OBVIOUS
  <2>2. first = [units |-> s, flagged |-> flagged, skipped |-> 0, found |-> <<>>, done |-> short]
    OBVIOUS
  <2> HIDE DEF short, first
  <2>3. <<>> \in Seq(Int)
    BY EmptySeq
  <2>4. first \in Turns /\ first.units = s /\ first.flagged = flagged /\ first.found = <<>>
    BY <2>1, <2>2, <2>3 DEF Turns
  <2>5. Intact(s \o w) \in Seq(Int)
    <3>1. s \o w \in Seq(Int)
      BY ConcatProperties
    <3> QED  BY <3>1, IntactTyped
  <2>6. <<>> \o Intact(s \o w) = Intact(s \o w)
    BY <2>5, ConcatEmptySeq
  <2> QED  BY <2>4, <2>6
<1>6. SUFFICES ASSUME ~Law(f[N]) PROVE FALSE
  BY <1>3
<1> HIDE DEF first, Law
<1>7. PICK m \in Bad : \A k \in Bad : m <= k
  <2>1. Bad \in SUBSET Nat /\ N \in Bad
    BY <1>1, <1>6
  <2> HIDE DEF Bad
  <2> QED  BY <2>1, LeastOf
<1>8. m \in 0..N /\ ~Law(f[m])
  BY <1>7
<1>9. m # 0
  BY <1>4, <1>5, <1>8
<1>10. m - 1 \in 0..N /\ m - 1 < m
  BY <1>1, <1>8, <1>9
<1>11. Law(f[m - 1])
  <2>1. m - 1 \notin Bad
    <3> HIDE DEF Bad
    <3> QED  BY <1>1, <1>7, <1>8, <1>10
  <2> QED  BY <1>10, <2>1
<1>12. f[m] = Turn[f[m - 1]]
  BY <1>4, <1>8, <1>9
<1>13. Law(f[m])
  <2> DEFINE t == f[m - 1]
             q == f[m]
  <2>1. /\ t \in Turns /\ (t.flagged => Headed(t.units))
        /\ t.found \o Intact(t.units \o w) = Intact(s \o w)
    BY <1>11 DEF Law
  <2>2. q = Turn[t]
    BY <1>12
  <2> HIDE DEF t, q
  <2>3. /\ q \in Turns /\ (q.flagged => Headed(q.units))
        /\ q.found \o Intact(q.units \o w) = t.found \o Intact(t.units \o w)
    BY <2>1, <2>2, TurnLaw
  <2>4. Law(q)
    BY <2>1, <2>3 DEF Law
  <2> QED  BY <2>4 DEF q
<1> QED  BY <1>8, <1>13

\* The units on their way, the header flag and what it says of the first units.
ParserHolds ==
  /\ wire \in Seq(Int) /\ bin_buf_ \in Seq(Int) /\ next \in Int
  /\ head_flag \in BOOLEAN /\ (head_flag => Headed(bin_buf_))

LEMMA AfterTyped ==
  ASSUME NEW p \in Int, NEW i \in Int
  PROVE  After(p, i) \in Int
<1>1. Circle \in Nat \ {0}
  BY LidarAssumption DEF Circle
<1> HIDE DEF Circle
<1>2. \A q \in Int : q \div Circle \in Int /\ q % Circle \in Int
  BY <1>1
<1>3. p \div Circle \in Int /\ (p + i) % Circle \in Int
  BY <1>2
<1> QED  BY <1>1, <1>3 DEF After, Period

LEMMA ParserAtStart == Init => ParserHolds
<1> SUFFICES ASSUME Init PROVE ParserHolds
  OBVIOUS
<1>1. wire = <<>> /\ bin_buf_ = <<>> /\ head_flag = FALSE /\ next = 0
  BY DEF Init
<1>2. <<>> \in Seq(Int)
  BY EmptySeq
<1>3. wire \in Seq(Int) /\ bin_buf_ \in Seq(Int) /\ next \in Int
  BY <1>1, <1>2
<1> QED  BY <1>1, <1>3, Zenon DEF ParserHolds

\* A read, by the law of the loop.
LEMMA ReadLaw ==
  ASSUME ParserHolds, NEW n \in 1..WireLimit, Read(n)
  PROVE  /\ ParserHolds'
         /\ Intact(bin_buf_ \o wire) = frames' \o Intact(bin_buf_' \o wire')
<1> DEFINE s == bin_buf_ \o Received(n)
           r == Parse(s, head_flag)
<1>0. /\ wire \in Seq(Int) /\ bin_buf_ \in Seq(Int) /\ next \in Int /\ head_flag \in BOOLEAN
      /\ Len(wire) \in Nat /\ Len(bin_buf_) \in Nat /\ n \in 0..Len(wire) /\ 1 \in 1..Len(wire)
  <2>1. /\ wire \in Seq(Int) /\ bin_buf_ \in Seq(Int) /\ next \in Int /\ head_flag \in BOOLEAN
        /\ n \in Nat \ {0} /\ n <= Len(wire)
    <3>1. WireLimit \in Nat
      BY LidarAssumption
    <3>2. n \in Nat \ {0}
      BY <3>1
    <3>3. n <= Len(wire)
      BY DEF Read
    <3>4. wire \in Seq(Int) /\ bin_buf_ \in Seq(Int) /\ next \in Int /\ head_flag \in BOOLEAN
      BY DEF ParserHolds
    <3> QED  BY <3>2, <3>3, <3>4
  <2>2. Len(wire) \in Nat /\ Len(bin_buf_) \in Nat
    BY <2>1, LenProperties
  <2> QED  BY <2>1, <2>2
<1>1. wire' = Drop(wire, n) /\ wire' \in Seq(Int) /\ next' = next
  BY <1>0, DropLaw DEF Read
<1>2. Received(n) \in Seq(Int) /\ Received(n) \o wire' = wire
  BY <1>0, <1>1, SubSeqProperties, ConcatAdjacentSubSeq, SubSeqFull DEF Received, Drop
<1>3. s \in Seq(Int) /\ s \o wire' = bin_buf_ \o wire
  <2>1. s \in Seq(Int)
    BY <1>0, <1>2, ConcatProperties
  <2>2. (bin_buf_ \o Received(n)) \o wire' = bin_buf_ \o (Received(n) \o wire')
    BY <1>0, <1>1, <1>2, Associative, ZenonT(30)
  <2> QED  BY <1>2, <2>1, <2>2
<1>4. head_flag => Headed(s)
  <2>1. ASSUME Headed(bin_buf_)
        PROVE  Headed(s)
    <3>1. 1 \in 1..Len(bin_buf_) /\ 1 + 1 <= Len(bin_buf_) /\ IsHeader(bin_buf_, 1)
      BY <1>0, <2>1 DEF Headed
    <3>2. IsHeader(s, 1) /\ Len(s) = Len(bin_buf_) + Len(Received(n))
      BY <1>0, <1>2, <3>1, FrameAtConcat
    <3>3. Len(s) >= 2
      BY <1>0, <1>2, <3>1, <3>2, LenProperties
    <3> QED  BY <3>2, <3>3 DEF Headed
  <2> QED  BY <2>1 DEF ParserHolds
<1> HIDE DEF s
<1>5. bin_buf_' = r.units /\ head_flag' = r.flagged /\ frames' = r.found
  BY DEF Read, s
<1> HIDE DEF r
<1>6. /\ r \in Turns /\ (r.flagged => Headed(r.units))
      /\ r.found \o Intact(r.units \o wire') = Intact(s \o wire')
  BY <1>0, <1>1, <1>3, <1>4, ParseLaw, ZenonT(30) DEF r
<1>7. r.units \in Seq(Int) /\ r.flagged \in BOOLEAN
  <2>1. r \in Turns
    BY <1>6
  <2> QED  BY <2>1 DEF Turns
<1>8. ParserHolds'
  <2>1. next' \in Int
    BY <1>0, <1>1
  <2> QED  BY <1>1, <1>5, <1>6, <1>7, <2>1, Zenon DEF ParserHolds
<1> QED  BY <1>3, <1>5, <1>6, <1>8

LEMMA ParserStays == ParserHolds /\ [Next]_vars => ParserHolds'
<1> SUFFICES ASSUME ParserHolds, [Next]_vars PROVE ParserHolds'
  OBVIOUS
<1>0. wire \in Seq(Int) /\ bin_buf_ \in Seq(Int) /\ next \in Int
  BY DEF ParserHolds
<1>1. CASE Emit
  <2>1. next' \in Int
    BY <1>0, <1>1, LidarAssumption, AfterTyped DEF Emit
  <2>2. \A units \in {Frame(next)} \cup Damaged(next) : units \in Seq(Int)
    <3>1. \A p \in Int : Frame(p) \in Seq(Int)
      BY DEF Frame, Mark, Version
    <3>2. Garbage \in Int /\ <<Version, next>> \in Seq(Int) /\ <<Mark, Version>> \in Seq(Int)
      BY <1>0 DEF Garbage, Mark, Version
    <3>3. <<>> \in Seq(Int)
      BY EmptySeq
    <3> QED  BY <1>0, <3>1, <3>2, <3>3 DEF Damaged
  <2>3. wire' \in Seq(Int)
    <3>1. PICK units \in {Frame(next)} \cup Damaged(next) : wire' = wire \o units
      BY <1>1 DEF Emit
    <3> QED  BY <1>0, <2>2, <3>1, ConcatProperties
  <2> QED  BY <1>1, <2>1, <2>3 DEF Emit, ParserHolds, parser
<1>2. CASE SpinUp
  <2>1. next' \in Int
    <3>1. PICK a \in 0..PerRev - 1 : next' = (1 - Period(next)) * Circle + a
      BY <1>2 DEF SpinUp
    <3>2. Circle \in Nat \ {0} /\ a \in Int
      BY <3>1, LidarAssumption DEF Circle
    <3> HIDE DEF Circle
    <3>3. Period(next) \in Int
      BY <1>0, <3>2 DEF Period
    <3> QED  BY <3>1, <3>2, <3>3
  <2> QED  BY <1>2, <2>1 DEF SpinUp, ParserHolds, parser
<1>3. CASE Silence \/ Unplug
  <2>1. <<>> \in Seq(Int)
    BY EmptySeq
  <2>2. /\ UNCHANGED <<bin_buf_, head_flag>>
        /\ (wire' = wire /\ next' = next) \/ (wire' = <<>> /\ next' = 0)
    BY <1>3 DEF Silence, Unplug, line, parser
  <2>3. wire' \in Seq(Int) /\ next' \in Int
    <3>1. CASE wire' = wire /\ next' = next
      BY <1>0, <3>1
    <3>2. CASE wire' = <<>> /\ next' = 0
      BY <2>1, <3>2
    <3> QED  BY <2>2, <3>1, <3>2
  <2> QED  BY <2>2, <2>3 DEF ParserHolds
<1>4. CASE \E n \in 1..WireLimit : Read(n)
  BY <1>4, ReadLaw
<1>5. CASE ReadFails \/ Extend \/ Publish \/ Published
  BY <1>5 DEF ReadFails, Extend, Publish, Published, line, parser, ParserHolds
<1>6. CASE Starts
  BY <1>6 DEF Starts, Others, Connect, Opened, Activate, Activated, SpeedIsRight, SpeedSet,
       SetRotationSpeed, PauseFails, Resume, Quiet, line, parser, ParserHolds
<1>7. CASE Grabs \/ Stop
  BY <1>7 DEF Grabs, Tick, TimesOut, CopyBegins, CopyEnds, Stop, Quiet, line, parser, ParserHolds
<1>8. CASE StopSilent \/ Disconnect
  <2>1. <<>> \in Seq(Int)
    BY EmptySeq
  <2>2. wire' = <<>> /\ bin_buf_' = <<>> /\ head_flag' = FALSE /\ next' = next
    BY <1>8 DEF StopSilent, Disconnect, Ended, PortCloses
  <2> QED  BY <1>0, <2>1, <2>2, Zenon DEF ParserHolds
<1>9. CASE UNCHANGED vars
  BY <1>9 DEF vars, line, parser, ParserHolds
<1> QED  BY <1>1, <1>2, <1>3, <1>4, <1>5, <1>6, <1>7, <1>8, <1>9 DEF Next, Line, Receive

\* However the bytes are cut into reads, and whatever damaged frames lie between them, no
\* intact frame is lost, repeated, reordered or made up.
THEOREM FramesAreFound == Spec => NoFrameLost
<1>1. ParserHolds /\ [Next]_vars =>
        [(\E n \in 1..WireLimit : Read(n)) =>
           Intact(bin_buf_ \o wire) = frames' \o Intact(bin_buf_' \o wire')]_vars
  BY ReadLaw
<1> QED  BY <1>1, ParserAtStart, ParserStays, PTL DEF Spec, NoFrameLost

-----------------------------------------------------------------------------
\* How much of a stream is frames.

\* A frame takes three units of its own.
LEMMA IntactShort ==
  ASSUME NEW s \in Seq(Int)
  PROVE  3 * Len(Intact(s)) <= Len(s)
<1> DEFINE Bad == {n \in Nat : \E u \in Seq(Int) : Len(u) = n /\ ~(3 * Len(Intact(u)) <= n)}
<1>1. SUFFICES ASSUME ~(3 * Len(Intact(s)) <= Len(s)) PROVE FALSE
  OBVIOUS
<1>2. Len(s) \in Bad
  BY <1>1, LenProperties
<1>3. PICK m \in Bad : \A n \in Bad : m <= n
  BY <1>2, LeastOf
<1>4. PICK u \in Seq(Int) : Len(u) = m /\ ~(3 * Len(Intact(u)) <= m)
  BY <1>3
<1>5. m \in Nat
  BY <1>3
<1>6. CASE m < 3
  <2>1. Intact(u) = <<>>
    BY <1>4, <1>6, IntactOfFew
  <2>2. Len(Intact(u)) = 0
    BY <2>1
  <2> QED  BY <1>4, <1>5, <2>2
<1>7. CASE m >= 3 /\ ~FrameAt(u, 1)
  <2>1. 1 \in 0..Len(u)
    BY <1>4, <1>5, <1>7
  <2>2. Drop(u, 1) \in Seq(Int) /\ Len(Drop(u, 1)) = m - 1
    BY <1>4, <2>1, DropLaw
  <2>3. Intact(u) = Intact(Drop(u, 1)) /\ m - 1 \in Nat
    <3>1. Len(u) >= 3 /\ m - 1 \in Nat
      BY <1>4, <1>5, <1>7
    <3>2. Intact(u) = Intact(Drop(u, 1))
      BY <1>4, <1>7, <3>1, IntactOfMore
    <3> QED  BY <3>1, <3>2
  <2>4. Len(Intact(u)) \in Nat
    BY <1>4, IntactTyped, LenProperties
  <2>5. m - 1 \in Bad
    BY <1>4, <1>5, <2>2, <2>3, <2>4
  <2> QED  BY <1>3, <1>5, <2>5
<1>8. CASE m >= 3 /\ FrameAt(u, 1)
  <2>1. 3 \in 0..Len(u) /\ 3 \in 1..Len(u)
    BY <1>4, <1>5, <1>8
  <2> DEFINE t == Drop(u, 3)
             i == Intact(t)
  <2>2. t \in Seq(Int) /\ Len(t) = m - 3
    BY <1>4, <2>1, DropLaw
  <2>3. CrcHolds(u)
    BY <1>8 DEF FrameAt, CrcHolds
  <2>4. Intact(u \o <<>>) = <<u[3]>> \o Intact(t \o <<>>)
    BY <1>4, <1>8, <2>3, EmptySeq, GoodCrcTakes DEF FrameSize
  <2>5. u \o <<>> = u /\ t \o <<>> = t
    BY <2>2, ConcatEmptySeq
  <2>6. i \in Seq(Int) /\ Len(i) \in Nat /\ <<u[3]>> \in Seq(Int) /\ Len(<<u[3]>>) = 1
    BY <2>1, <2>2, IntactTyped, ElementOfSeq, LenProperties
  <2>7. Len(Intact(u)) = 1 + Len(i)
    <3> HIDE DEF t, i
    <3>1. Intact(u) = <<u[3]>> \o i
      BY <2>4, <2>5 DEF i
    <3> QED  BY <2>6, <3>1, ConcatProperties
  <2>8. m - 3 \in Bad
    <3>1. m - 3 \in Nat /\ ~(3 * Len(i) <= m - 3)
      BY <1>4, <1>5, <1>8, <2>6, <2>7
    <3> QED  BY <2>2, <3>1
  <2> QED  BY <1>3, <1>5, <2>8
<1> QED  BY <1>5, <1>6, <1>7, <1>8

\* Of units with others behind them, the frames that lie among the first come first; a frame
\* that begins later begins in the last two of them.
LEMMA IntactBehind ==
  ASSUME NEW s \in Seq(Int), NEW w \in Seq(Int), Len(s) >= 2
  PROVE  Intact(s \o w) = Intact(s) \o Intact(Drop(s, Len(s) - 2) \o w)
<1> DEFINE Law(u) == Intact(u \o w) = Intact(u) \o Intact(Drop(u, Len(u) - 2) \o w)
           Bad == {n \in Nat : \E u \in Seq(Int) : Len(u) = n /\ n >= 2 /\ ~Law(u)}
<1>1. SUFFICES ASSUME ~Law(s) PROVE FALSE
  OBVIOUS
<1>2. Len(s) \in Bad
  BY <1>1, LenProperties
<1>3. PICK m \in Bad : \A n \in Bad : m <= n
  BY <1>2, LeastOf
<1>4. PICK u \in Seq(Int) : Len(u) = m /\ m >= 2 /\ ~Law(u)
  BY <1>3
<1>5. m \in Nat
  BY <1>3
<1>6. CASE m = 2
  <2>1. Intact(u) = <<>>
    <3>1. Len(u) < 3
      BY <1>4, <1>6
    <3> QED  BY <1>4, <3>1, IntactOfFew
  <2>2. Drop(u, Len(u) - 2) = u
    <3>1. Len(u) - 2 = 0
      BY <1>4, <1>6
    <3> QED  BY <1>4, <3>1, DropNone
  <2>3. u \o w \in Seq(Int)
    BY <1>4, ConcatProperties
  <2>4. Intact(u \o w) \in Seq(Int)
    BY <2>3, IntactTyped
  <2>5. <<>> \o Intact(u \o w) = Intact(u \o w)
    BY <2>4, ConcatEmptySeq
  <2> QED  BY <1>4, <2>1, <2>2, <2>5
<1>7. CASE m > 2
  <2> DEFINE d == Drop(u, 1)
             last == Drop(u, Len(u) - 2)
             c == u \o w
  <2>1. /\ 1 \in 0..Len(u) /\ 1 \in 1..Len(u) /\ 1 + 2 <= Len(u) /\ m - 3 \in 0..Len(u) - 1
        /\ m - 1 \in Nat /\ Len(u) - 2 = 1 + (m - 3) /\ m >= 3 /\ m - 1 >= 2 /\ m - 2 \in 0..Len(u)
    BY <1>4, <1>5, <1>7
  <2>2. d \in Seq(Int) /\ Len(d) = m - 1
    BY <1>4, <2>1, DropLaw
  <2>3. Drop(d, Len(d) - 2) = last
    <3>1. Len(d) - 2 = m - 3 /\ m - 3 \in 0..Len(u) - 1
      BY <1>5, <2>1, <2>2
    <3>2. Drop(Drop(u, 1), m - 3) = Drop(u, 1 + (m - 3))
      BY <1>4, <2>1, DropDrop
    <3> QED  BY <2>1, <3>1, <3>2
  <2>4. Law(d)
    <3>1. m - 1 \notin Bad
      BY SMTT(30), <1>3, <1>5
    <3> QED  BY <2>1, <2>2, <3>1
  <2>5. last \in Seq(Int) /\ last \o w \in Seq(Int)
    <3>1. Len(u) - 2 \in 0..Len(u)
      BY <1>4, <2>1
    <3>2. last \in Seq(Int)
      BY <1>4, <3>1, DropLaw
    <3> QED  BY <3>2, ConcatProperties
  <2>6. c \in Seq(Int) /\ Len(c) >= 3
    <3>1. Len(w) \in Nat /\ c \in Seq(Int) /\ Len(c) = Len(u) + Len(w)
      BY <1>4, ConcatProperties, LenProperties
    <3> QED  BY <1>4, <1>5, <2>1, <3>1
  <2>7. /\ FrameAt(c, 1) <=> FrameAt(u, 1)
        /\ c[3] = u[3] /\ u[3] \in Int
    <3>1. (FrameAt(c, 1) <=> FrameAt(u, 1)) /\ c[1 + 2] = u[1 + 2]
      BY <1>4, <2>1, FrameAtConcat
    <3>1a. 1 + 2 = 3
      OBVIOUS
    <3>2. u[3] \in Int
      <4>1. 3 \in 1..Len(u)
        BY <1>4, <1>5, <2>1
      <4> QED  BY <1>4, <4>1, ElementOfSeq
    <3> HIDE DEF c
    <3> QED  BY <3>1, <3>1a, <3>2
  <2>8. Drop(c, 1) = d \o w
    BY <1>4, <2>1, DropConcat
  <2> DEFINE x == Intact(d)
             y == Intact(last \o w)
  <2>9. x \in Seq(Int) /\ y \in Seq(Int) /\ <<u[3]>> \in Seq(Int)
    <3>1. x \in Seq(Int)
      BY <2>2, IntactTyped
    <3>2. y \in Seq(Int)
      BY <2>5, IntactTyped
    <3>3. <<u[3]>> \in Seq(Int)
      BY <2>7
    <3> QED  BY <3>1, <3>2, <3>3
  <2>10. Intact(d \o w) = x \o y
    BY <2>3, <2>4
  <2>11. Intact(u) = IF FrameAt(u, 1) THEN <<u[3]>> \o x ELSE x
    BY <1>4, <2>1, IntactOfMore
  <2>12. Intact(c) = IF FrameAt(u, 1) THEN <<u[3]>> \o (x \o y) ELSE x \o y
    <3> HIDE DEF c, d, x, y, last
    <3> QED  BY <2>6, <2>7, <2>8, <2>10, IntactOfMore
  <2>13. (<<u[3]>> \o x) \o y = <<u[3]>> \o (x \o y)
    <3>1. \A a, b, e \in Seq(Int) : (a \o b) \o e = a \o (b \o e)
      BY Associative, Zenon
    <3>2. x \in Seq(Int)
      BY <2>9
    <3>3. y \in Seq(Int)
      BY <2>9
    <3>4. <<u[3]>> \in Seq(Int)
      BY <2>9
    <3> HIDE DEF x, y
    <3> QED  BY ZenonT(30), <3>1, <3>2, <3>3, <3>4
  <2>14. Intact(c) = Intact(u) \o y
    <3> HIDE DEF c, x, y
    <3> QED  BY <2>11, <2>12, <2>13
  <2> QED  BY <1>4, <2>14
<1> QED  BY <1>4, <1>5, <1>6, <1>7

\* The frames of the first units are the first of all.
LEMMA IntactFirst ==
  ASSUME NEW s \in Seq(Int), NEW w \in Seq(Int)
  PROVE  \E t \in Seq(Int) : Intact(s \o w) = Intact(s) \o t
<1>0. Len(s) \in Nat
  BY LenProperties
<1>1. CASE Len(s) < 3
  <2>1. Intact(s) = <<>>
    BY <1>1, IntactOfFew
  <2>2. s \o w \in Seq(Int)
    BY ConcatProperties
  <2>3. Intact(s \o w) \in Seq(Int)
    BY <2>2, IntactTyped
  <2>4. <<>> \o Intact(s \o w) = Intact(s \o w)
    BY <2>3, ConcatEmptySeq
  <2> QED  BY <2>1, <2>3, <2>4
<1>2. CASE Len(s) >= 3
  <2>1. Len(s) - 2 \in 0..Len(s)
    BY <1>0, <1>2
  <2>2. Drop(s, Len(s) - 2) \in Seq(Int)
    BY <2>1, DropLaw
  <2>3. Drop(s, Len(s) - 2) \o w \in Seq(Int)
    BY <2>2, ConcatProperties
  <2>4. Intact(Drop(s, Len(s) - 2) \o w) \in Seq(Int)
    BY <2>3, IntactTyped
  <2>5. Len(s) >= 2
    BY <1>0, <1>2
  <2> QED  BY <2>4, <2>5, IntactBehind
<1>3. Len(s) < 3 \/ Len(s) >= 3
  BY <1>0
<1> QED  BY <1>1, <1>2, <1>3, Zenon

\* Units of which every header is whole.
Paired(s) == \A i \in 1..Len(s) : s[i] = Mark => i < Len(s) /\ s[i + 1] = Version

LEMMA PairedRest ==
  ASSUME NEW s \in Seq(Int), NEW n \in 0..Len(s), Paired(s)
  PROVE  Paired(Drop(s, n))
<1> DEFINE d == Drop(s, n)
<1>0. Len(s) \in Nat /\ n \in Nat /\ n <= Len(s)
  BY LenProperties
<1>1. Len(d) = Len(s) - n /\ \A i \in 1..Len(s) - n : d[i] = s[n + i]
  BY DropLaw
<1> HIDE DEF d
<1>2. ASSUME NEW i \in 1..Len(d), d[i] = Mark
      PROVE  i < Len(d) /\ d[i + 1] = Version
  <2>1. n + i \in 1..Len(s) /\ s[n + i] = Mark
    BY <1>0, <1>1, <1>2
  <2>2. n + i < Len(s) /\ s[n + i + 1] = Version
    BY <2>1 DEF Paired
  <2>3. i < Len(d) /\ i + 1 \in 1..Len(s) - n /\ n + (i + 1) = n + i + 1
    BY <1>0, <1>1, <2>2
  <2> QED  BY SMTT(30), <1>1, <2>2, <2>3
<1>3. Paired(d)
  BY <1>2 DEF Paired
<1> QED  BY <1>3 DEF d

LEMMA PairedMore ==
  ASSUME NEW s \in Seq(Int), NEW u \in Seq(Int), Paired(s), Paired(u)
  PROVE  Paired(s \o u)
<1> DEFINE c == s \o u
<1>0. Len(s) \in Nat /\ Len(u) \in Nat
  BY LenProperties
<1>1. /\ Len(c) = Len(s) + Len(u)
      /\ \A i \in 1..Len(s) + Len(u) : c[i] = IF i <= Len(s) THEN s[i] ELSE u[i - Len(s)]
  BY ConcatProperties
<1> HIDE DEF c
<1>2. ASSUME NEW i \in 1..Len(c), c[i] = Mark
      PROVE  i < Len(c) /\ c[i + 1] = Version
  <2>1. CASE i <= Len(s)
    <3>1. i \in 1..Len(s) /\ s[i] = Mark
      BY <1>0, <1>1, <1>2, <2>1
    <3>2. i < Len(s) /\ s[i + 1] = Version
      BY <3>1 DEF Paired
    <3>3. i + 1 \in 1..Len(s) + Len(u) /\ i + 1 <= Len(s) /\ i < Len(c)
      BY <1>0, <1>1, <3>2
    <3> QED  BY <1>1, <3>2, <3>3
  <2>2. CASE i > Len(s)
    <3>1. i - Len(s) \in 1..Len(u) /\ u[i - Len(s)] = Mark
      BY <1>0, <1>1, <1>2, <2>2
    <3>2. i - Len(s) < Len(u) /\ u[i - Len(s) + 1] = Version
      BY <3>1 DEF Paired
    <3>3. /\ i + 1 \in 1..Len(s) + Len(u) /\ ~(i + 1 <= Len(s)) /\ i < Len(c)
          /\ i + 1 - Len(s) = i - Len(s) + 1
      BY <1>0, <1>1, <2>2, <3>2
    <3> QED  BY <1>1, <3>2, <3>3
  <2> QED  BY <1>0, <1>1, <2>1, <2>2
<1>3. Paired(c)
  BY <1>2 DEF Paired
<1> QED  BY <1>3 DEF c

\* Two units or fewer with whole headers begin no frame with what follows.
LEMMA IntactTail ==
  ASSUME NEW t \in Seq(Int), Len(t) <= 2, Paired(t), NEW u \in Seq(Int), Len(u) > 0 => u[1] < 0
  PROVE  Intact(t \o u) = Intact(u)
<1> DEFINE n == Len(t)
           c == t \o u
<1>0. n \in 0..2 /\ n \in 0..Len(t) /\ Len(u) \in Nat
  <2>1. Len(t) \in Nat /\ Len(u) \in Nat
    BY LenProperties
  <2> HIDE DEF n
  <2>2. n \in Nat /\ n <= 2
    BY <2>1 DEF n
  <2>3. n \in 0..2 /\ n \in 0..n
    BY <2>2
  <2> QED  BY <2>1, <2>3 DEF n
<1>1. /\ c \in Seq(Int) /\ Len(c) = n + Len(u)
      /\ \A i \in 1..n + Len(u) : c[i] = IF i <= n THEN t[i] ELSE u[i - n]
  BY ConcatProperties
<1>2. Drop(c, n) = u
  <2>1. Drop(c, n) = Drop(t, n) \o u
    BY <1>0, DropConcat
  <2>2. Drop(t, n) \in Seq(Int) /\ Len(Drop(t, n)) = 0
    <3>1. Len(Drop(t, n)) = Len(t) - n /\ Drop(t, n) \in Seq(Int)
      BY <1>0, DropLaw
    <3> QED  BY <1>0, <3>1
  <2>3. Drop(t, n) = <<>>
    <3> HIDE DEF n
    <3> QED  BY <2>2, EmptySeq
  <2>4. <<>> \o u = u
    BY ConcatEmptySeq
  <2> QED  BY <2>1, <2>3, <2>4
<1> HIDE DEF c
<1>3. ASSUME NEW i \in 1..n, i + 2 <= Len(c)
      PROVE  ~FrameAt(c, i)
  <2>1. SUFFICES ASSUME c[i] = Mark, c[i + 2] >= 0 PROVE FALSE
    BY DEF FrameAt, IsHeader
  <2>2. t[i] = Mark /\ i \in 1..Len(t)
    BY SMTT(30), <1>0, <1>1, <2>1
  <2>3. i < n
    BY <2>2 DEF Paired
  <2>4. i = 1 /\ n = 2 /\ i + 2 \in 1..n + Len(u) /\ ~(i + 2 <= n) /\ i + 2 - n = 1 /\ Len(u) > 0
    <3> HIDE DEF n
    <3> QED  BY <1>0, <1>1, <1>3, <2>3
  <2>5. c[i + 2] = u[1]
    BY <1>1, <2>4
  <2>6. u[1] \in Int
    <3>1. 1 \in 1..Len(u)
      BY <1>0, <2>4
    <3> QED  BY <3>1, ElementOfSeq
  <2> QED  BY <2>1, <2>4, <2>5, <2>6
<1>4. n \in 0..Len(c)
  BY <1>0, <1>1
<1>5. Intact(Drop(c, n)) = Intact(c)
  BY <1>1, <1>3, <1>4, IntactSkips
<1> QED  BY <1>2, <1>5 DEF c

\* Units behind whole headers that are no payload: their frames are added.
LEMMA IntactAdds ==
  ASSUME NEW s \in Seq(Int), Paired(s), NEW u \in Seq(Int), Len(u) > 0 => u[1] < 0
  PROVE  Intact(s \o u) = Intact(s) \o Intact(u)
<1>0. Len(s) \in Nat
  BY LenProperties
<1>1. CASE Len(s) < 2
  <2>1. Intact(s) = <<>>
    <3>1. Len(s) < 3
      BY <1>0, <1>1
    <3> QED  BY <3>1, IntactOfFew
  <2>2. Intact(s \o u) = Intact(u)
    <3>1. Len(s) <= 2
      BY <1>0, <1>1
    <3> QED  BY <3>1, IntactTail
  <2>3. Intact(u) \in Seq(Int)
    BY IntactTyped
  <2>4. <<>> \o Intact(u) = Intact(u)
    BY <2>3, ConcatEmptySeq
  <2> QED  BY <2>1, <2>2, <2>4
<1>2. CASE Len(s) >= 2
  <2> DEFINE t == Drop(s, Len(s) - 2)
  <2>1. Len(s) - 2 \in 0..Len(s)
    BY <1>0, <1>2
  <2>2. t \in Seq(Int) /\ Len(t) = Len(s) - (Len(s) - 2) /\ Paired(t)
    BY <2>1, DropLaw, PairedRest
  <2>3. Len(t) <= 2
    <3>1. Len(t) = Len(s) - (Len(s) - 2)
      BY <2>2, Zenon
    <3>2. Len(s) - (Len(s) - 2) = 2 /\ 2 <= 2
      BY <1>0
    <3>3. Len(t) = 2
      BY <3>1, <3>2, Zenon
    <3> QED  BY <3>2, <3>3, Zenon
  <2> HIDE DEF t
  <2>4. Intact(t \o u) = Intact(u)
    BY <2>2, <2>3, IntactTail
  <2>5. Intact(s \o u) = Intact(s) \o Intact(t \o u)
    BY <1>2, IntactBehind DEF t
  <2> QED  BY <2>4, <2>5
<1>3. Len(s) < 2 \/ Len(s) >= 2
  BY <1>0
<1> QED  BY <1>1, <1>2, <1>3

\* What a frame, whole or damaged, adds to a stream.
LEMMA FrameAdds ==
  ASSUME NEW p \in Nat, NEW s \in Seq(Int), Paired(s)
  PROVE  /\ s \o Frame(p) \in Seq(Int) /\ Paired(s \o Frame(p))
         /\ Intact(s \o Frame(p)) = Intact(s) \o <<p>>
<1> DEFINE u == Frame(p)
<1>1. u = <<-1, -2, p>>
  BY DEF Frame, Mark, Version
<1>2. /\ u \in Seq(Int) /\ Len(u) = 3 /\ u[1] = -1 /\ u[2] = -2 /\ u[3] = p
      /\ u[1 + 1] = -2 /\ u[1 + 2] = p
  BY <1>1
<1> HIDE DEF u
<1>3. Paired(u)
  BY <1>2 DEF Paired, Mark, Version
<1>4. Intact(u) = <<p>>
  <2>1. FrameAt(u, 1)
    BY <1>2 DEF FrameAt, IsHeader, Mark, Version
  <2>2. Drop(u, 1) \in Seq(Int) /\ Len(Drop(u, 1)) = 2
    <3>1. 1 \in 0..Len(u) /\ Len(u) - 1 = 2
      BY <1>2
    <3> QED  BY <1>2, <3>1, DropLaw
  <2>3. Intact(Drop(u, 1)) = <<>>
    <3>1. Len(Drop(u, 1)) < 3
      <4>1. Len(Drop(u, 1)) = 2
        BY <2>2, Zenon
      <4>2. 2 < 3
        OBVIOUS
      <4> QED  BY <4>1, <4>2, Zenon
    <3> QED  BY <2>2, <3>1, IntactOfFew
  <2>4. Len(u) >= 3
    BY <1>2
  <2>5. Intact(u) = <<u[3]>> \o Intact(Drop(u, 1))
    BY <1>2, <2>1, <2>4, IntactOfMore
  <2>6. <<p>> \in Seq(Int)
    OBVIOUS
  <2>7. <<p>> \o <<>> = <<p>>
    BY <2>6, ConcatEmptySeq
  <2> QED  BY <1>2, <2>3, <2>5, <2>7
<1>5. Intact(s \o u) = Intact(s) \o Intact(u)
  BY <1>2, IntactAdds
<1>6. s \o u \in Seq(Int)
  BY <1>2, ConcatProperties
<1>7. Paired(s \o u)
  BY <1>2, <1>3, PairedMore
<1> QED  BY <1>4, <1>5, <1>6, <1>7 DEF u

LEMMA DamagedAdds ==
  ASSUME NEW p \in Nat, NEW s \in Seq(Int), Paired(s), NEW u \in Damaged(p)
  PROVE  /\ s \o u \in Seq(Int) /\ Paired(s \o u)
         /\ Intact(s \o u) = Intact(s)
<1>1. \/ u = <<-1, -2, -3>> \/ u = <<-2, p>> \/ u = <<>> \/ u = <<-1, -2>>
  BY DEF Damaged, Frame, Mark, Version, Garbage
<1>2. u \in Seq(Int) /\ Paired(u) /\ (Len(u) > 0 => u[1] < 0) /\ Intact(u) = <<>>
  <2>1. CASE u = <<-1, -2, -3>>
    <3>1. u \in Seq(Int) /\ Len(u) = 3 /\ u[1] = -1 /\ u[2] = -2 /\ u[3] = -3 /\ u[1 + 2] = -3
      BY <2>1
    <3>2. Paired(u)
      BY <3>1 DEF Paired, Mark, Version
    <3>3. ~FrameAt(u, 1)
      BY <3>1 DEF FrameAt
    <3>4. Drop(u, 1) \in Seq(Int) /\ Len(Drop(u, 1)) = 2
      <4>1. 1 \in 0..Len(u) /\ Len(u) - 1 = 2
        BY <3>1
      <4> QED  BY <3>1, <4>1, DropLaw
    <3>5. Intact(Drop(u, 1)) = <<>>
      <4>1. Len(Drop(u, 1)) < 3
        <5>1. Len(Drop(u, 1)) = 2
          BY <3>4, Zenon
        <5>2. 2 < 3
          OBVIOUS
        <5> QED  BY <5>1, <5>2, Zenon
      <4> QED  BY <3>4, <4>1, IntactOfFew
    <3>6. Len(u) >= 3
      BY <3>1
    <3>7. Intact(u) = <<>>
      BY <3>1, <3>3, <3>5, <3>6, IntactOfMore
    <3> QED  BY <3>1, <3>2, <3>7
  <2>2. CASE u = <<-2, p>>
    <3>1. u \in Seq(Int) /\ Len(u) = 2 /\ u[1] = -2 /\ u[2] = p
      BY <2>2
    <3>2. Paired(u)
      BY <3>1 DEF Paired, Mark, Version
    <3>3. Intact(u) = <<>>
      <4>1. Len(u) < 3
        BY <3>1
      <4> QED  BY <3>1, <4>1, IntactOfFew
    <3> QED  BY <3>1, <3>2, <3>3
  <2>3. CASE u = <<>>
    <3>1. u \in Seq(Int) /\ Len(u) = 0
      BY <2>3
    <3>2. Paired(u)
      BY <3>1 DEF Paired
    <3>3. Intact(u) = <<>>
      <4>1. Len(u) < 3
        BY <3>1
      <4> QED  BY <3>1, <4>1, IntactOfFew
    <3> QED  BY <3>1, <3>2, <3>3
  <2>4. CASE u = <<-1, -2>>
    <3>1. u \in Seq(Int) /\ Len(u) = 2 /\ u[1] = -1 /\ u[2] = -2
      BY <2>4
    <3>2. Paired(u)
      BY <3>1 DEF Paired, Mark, Version
    <3>3. Intact(u) = <<>>
      <4>1. Len(u) < 3
        BY <3>1
      <4> QED  BY <3>1, <4>1, IntactOfFew
    <3> QED  BY <3>1, <3>2, <3>3
  <2> QED  BY <1>1, <2>1, <2>2, <2>3, <2>4
<1>3. Intact(s \o u) = Intact(s) \o <<>>
  BY <1>2, IntactAdds
<1>4. Intact(s) \in Seq(Int)
  BY IntactTyped
<1>5. Intact(s) \o <<>> = Intact(s)
  BY <1>4, ConcatEmptySeq
<1>6. s \o u \in Seq(Int)
  BY <1>2, ConcatProperties
<1>7. Paired(s \o u)
  BY <1>2, PairedMore
<1> QED  BY <1>3, <1>5, <1>6, <1>7

\* What k turns of the loop leave of units s: the last of them, two less for every turn that
\* was not the last; and few, or not more than half, when the loop is done.
Leaves(t, s, k) ==
  /\ \E n \in 0..Len(s) : t.units = Drop(s, n)
  /\ ~t.done => /\ Len(t.units) + 2 * k <= Len(s)
                /\ t.skipped = 0 \/ t.skipped + Len(t.units) + 2 <= Len(s)
  /\ t.done => Len(t.units) <= 2 \/ 2 * Len(t.units) <= Len(s)

LEMMA TurnLeaves ==
  ASSUME NEW s \in Seq(Int), NEW k \in Nat, NEW t \in Turns, t.flagged => Headed(t.units),
         Leaves(t, s, k), NEW r, r = Turn[t]
  PROVE  Leaves(r, s, k + 1)
<1> DEFINE skip == IF t.flagged THEN 0 ELSE Skip(t.units)
           rest == Drop(t.units, skip)
           left == Drop(rest, FrameSize)
           after(units, found, done) ==
             [units |-> units, flagged |-> FALSE, skipped |-> skip, found |-> found, done |-> done]
           L == Len(t.units)
           N == Len(s)
<1>0. /\ t.units \in Seq(Int) /\ t.skipped \in Nat /\ t.found \in Seq(Int)
      /\ t.flagged \in BOOLEAN /\ t.done \in BOOLEAN
  BY DEF Turns
<1>0a. L \in Nat /\ N \in Nat
  BY <1>0, LenProperties
<1>1. r = IF t.done \/ t.skipped >= L - 2 THEN [t EXCEPT !.done = TRUE]
          ELSE IF Len(rest) < FrameSize
            THEN [after(rest, t.found, TRUE) EXCEPT !.flagged = t.flagged \/ IsHeader(rest, 1)]
          ELSE IF ~CrcHolds(rest) THEN after(AfterBadCrc(rest), t.found, FALSE)
          ELSE after(left, Append(t.found, rest[3]), Len(left) < FrameSize)
  BY DEF Turn
<1>2. PICK n \in 0..N : t.units = Drop(s, n)
  BY DEF Leaves
<1>3. L = N - n
  BY <1>2, DropLaw
<1>4. CASE t.done \/ t.skipped >= L - 2
  <2>1. r = [t EXCEPT !.done = TRUE]
    BY <1>1, <1>4
  <2>2. r.units = t.units /\ r.done = TRUE
    BY <2>1 DEF Turns
  <2>3. L <= 2 \/ 2 * L <= N
    <3>1. t.done => L <= 2 \/ 2 * L <= N
      BY DEF Leaves
    <3>2. ~t.done => t.skipped >= L - 2 /\ (t.skipped = 0 \/ t.skipped + L + 2 <= N)
      BY <1>4 DEF Leaves
    <3> HIDE DEF L, N
    <3> QED  BY <1>0, <1>0a, <3>1, <3>2
  <2> QED  BY <1>2, <2>2, <2>3 DEF Leaves
<1>5. CASE ~(t.done \/ t.skipped >= L - 2)
  <2>1. L >= 3
    BY <1>0, <1>0a, <1>5
  <2>2. skip \in 0..L - 2
    BY <1>0, <1>0a, <2>1, SkipLaw
  <2>3. rest \in Seq(Int) /\ Len(rest) = L - skip /\ rest = Drop(s, n + skip)
    <3> HIDE DEF skip
    <3>1. skip \in 0..L
      BY <1>0a, <2>2
    <3>2. rest \in Seq(Int) /\ Len(rest) = L - skip
      BY <1>0, <3>1, DropLaw
    <3>3. skip \in 0..N - n
      BY <1>3, <3>1
    <3>4. Drop(Drop(s, n), skip) = Drop(s, n + skip)
      BY <1>2, <3>3, DropDrop
    <3> QED  BY <1>2, <3>2, <3>4
  <2>4. L + 2 * k <= N
    BY <1>5 DEF Leaves
  <2> DEFINE R == Len(rest)
  <2>5. /\ skip \in Nat /\ R = L - skip /\ R \in Nat /\ R >= 2 /\ R <= L /\ skip + R <= N
        /\ n + skip \in 0..N /\ N - (n + skip) = R /\ n \in Nat
    <3>1. R = L - skip
      BY <2>3
    <3> HIDE DEF L, N, skip, R
    <3> QED  BY <1>0a, <1>2, <1>3, <2>2, <3>1
  <2>6. CASE R < FrameSize
    <3>1. r = [after(rest, t.found, TRUE) EXCEPT !.flagged = t.flagged \/ IsHeader(rest, 1)]
      BY <1>1, <1>5, <2>6
    <3>2. r.units = rest /\ r.done = TRUE
      <4> HIDE DEF rest, skip
      <4> QED  BY <3>1
    <3>3. R <= 2
      <4> HIDE DEF R
      <4> QED  BY <2>5, <2>6 DEF FrameSize
    <3> HIDE DEF rest, skip, L, N
    <3>4. \E x \in 0..Len(s) : r.units = Drop(s, x)
      BY <2>3, <2>5, <3>2 DEF N
    <3> QED  BY <3>2, <3>3, <3>4 DEF Leaves
  <2>7. CASE ~(R < FrameSize) /\ ~CrcHolds(rest)
    <3>1. r = after(AfterBadCrc(rest), t.found, FALSE)
      BY <1>1, <1>5, <2>7
    <3>2. r.units = Drop(rest, 2) /\ r.done = FALSE /\ r.skipped = skip
      <4> HIDE DEF rest, skip
      <4> QED  BY <3>1 DEF AfterBadCrc
    <3> HIDE DEF rest, skip, L, N, R
    <3>3. 2 \in 0..R /\ 2 \in 0..N - (n + skip) /\ n + skip + 2 \in 0..N
      BY <1>0a, <2>5
    <3>4. Len(r.units) = R - 2
      <4>1. Len(Drop(rest, 2)) = R - 2
        BY <2>3, <3>3, DropLaw DEF R
      <4> QED  BY <3>2, <4>1
    <3>5. r.units = Drop(s, n + skip + 2)
      BY <2>3, <2>5, <3>2, <3>3, DropDrop DEF N
    <3>6. (R - 2) + 2 * (k + 1) <= N /\ skip + (R - 2) + 2 <= N
      BY <1>0a, <2>4, <2>5
    <3>7. \E x \in 0..Len(s) : r.units = Drop(s, x)
      BY <3>3, <3>5 DEF N
    <3> QED  BY <3>2, <3>4, <3>6, <3>7 DEF Leaves, N
  <2>8. CASE ~(R < FrameSize) /\ CrcHolds(rest)
    <3>1. r = after(left, Append(t.found, rest[3]), Len(left) < FrameSize)
      BY <1>1, <1>5, <2>8
    <3>2. r.units = Drop(rest, 3) /\ r.done = (Len(Drop(rest, 3)) < 3) /\ r.skipped = skip
      <4> HIDE DEF rest, skip
      <4> QED  BY <3>1 DEF FrameSize
    <3>3. 3 \in 0..R /\ 3 \in 0..N - (n + skip) /\ n + skip + 3 \in 0..N
      <4> HIDE DEF rest, skip, L, N, R
      <4> QED  BY <1>0a, <2>5, <2>8 DEF FrameSize
    <3> HIDE DEF rest, skip, L, N, R
    <3>4. Len(Drop(rest, 3)) = R - 3
      BY <2>3, <3>3, DropLaw DEF R
    <3>5. Drop(rest, 3) = Drop(s, n + skip + 3)
      BY <2>3, <2>5, <3>3, DropDrop DEF N
    <3>6. (R - 3) + 2 * (k + 1) <= N /\ skip + (R - 3) + 2 <= N /\ (R - 3 < 3 => R - 3 <= 2)
      BY <1>0a, <2>4, <2>5
    <3>7. \E x \in 0..Len(s) : r.units = Drop(s, x)
      BY <3>2, <3>3, <3>5 DEF N
    <3> DEFINE U == Len(r.units)
    <3>8. U = R - 3 /\ r.done = (R - 3 < 3)
      BY <3>2, <3>4
    <3> HIDE DEF U
    <3>9. /\ ~r.done => U + 2 * (k + 1) <= N /\ skip + U + 2 <= N
          /\ r.done => U <= 2
      BY <3>6, <3>8
    <3> QED  BY <3>2, <3>7, <3>9 DEF Leaves, N, U
  <2> QED  BY <2>6, <2>7, <2>8
<1> QED  BY <1>4, <1>5

\* What the loop leaves in the buffer: the last of the units it had, and two at most or not
\* more than half of them.
LEMMA ParseLeaves ==
  ASSUME NEW s \in Seq(Int), NEW flagged \in BOOLEAN, flagged => Headed(s),
         NEW r, r = Parse(s, flagged)
  PROVE  /\ \E n \in 0..Len(s) : r.units = Drop(s, n)
         /\ Len(r.units) <= 2 \/ 2 * Len(r.units) <= Len(s)
<1> DEFINE N == Len(s) \div 2
           first == [units |-> s, flagged |-> flagged, skipped |-> 0, found |-> <<>>,
                     done |-> Len(s) < FrameSize]
           f == CHOOSE g : Turned(N, first, g)
           Law(t, k) == t \in Turns /\ (t.flagged => Headed(t.units)) /\ Leaves(t, s, k)
           Bad == {k \in 0..N : ~Law(f[k], k)}
<1>1. Len(s) \in Nat
  BY LenProperties
<1>1a. N \in Nat /\ Len(s) < 2 * N + 2
  <2> DEFINE l == Len(s)
  <2>1. l \in Nat
    BY <1>1
  <2> HIDE DEF l
  <2>2. l \div 2 \in Nat /\ l < 2 * (l \div 2) + 2
    BY <2>1
  <2> QED  BY <2>2 DEF l
<1>2. Turned(N, first, f)
  BY <1>1a, TurnsExist
<1>3. r = f[N]
  BY DEF Parse, Turned
<1> HIDE DEF f, N
<1>4. \A k \in 0..N : f[k] = IF k = 0 THEN first ELSE Turn[f[k - 1]]
  BY <1>2 DEF Turned
<1>5. Law(first, 0)
  <2> DEFINE short == Len(s) < FrameSize
  <2>1. short \in BOOLEAN
    OBVIOUS
  <2>2. first = [units |-> s, flagged |-> flagged, skipped |-> 0, found |-> <<>>, done |-> short]
    OBVIOUS
  <2> HIDE DEF short, first
  <2>3. <<>> \in Seq(Int)
    BY EmptySeq
  <2>4. first \in Turns /\ first.units = s /\ first.flagged = flagged /\ first.skipped = 0 /\ first.done = short
    BY <2>1, <2>2, <2>3 DEF Turns
  <2>5. s = Drop(s, 0) /\ 0 \in 0..Len(s)
    BY <1>1, DropNone
  <2>6. short => Len(s) <= 2
    BY <1>1 DEF short, FrameSize
  <2>7. Len(s) + 2 * 0 <= Len(s)
    BY <1>1
  <2>8. Leaves(first, s, 0)
    BY <2>4, <2>5, <2>6, <2>7 DEF Leaves
  <2> QED  BY <2>4, <2>8
<1> HIDE DEF first, Law
<1>6. Law(f[N], N)
  <2>1. SUFFICES ASSUME ~Law(f[N], N) PROVE FALSE
    OBVIOUS
  <2>2. PICK m \in Bad : \A k \in Bad : m <= k
    <3>1. Bad \in SUBSET Nat /\ N \in Bad
      BY <1>1a, <2>1
    <3> HIDE DEF Bad
    <3> QED  BY <3>1, LeastOf
  <2>3. m \in 0..N /\ ~Law(f[m], m)
    BY <2>2
  <2>4. m # 0
    BY <1>4, <1>5, <2>3
  <2>5. m - 1 \in 0..N /\ m - 1 < m /\ m - 1 \in Nat /\ m - 1 + 1 = m
    BY <1>1a, <2>3, <2>4
  <2>6. Law(f[m - 1], m - 1)
    <3>1. m - 1 \notin Bad
      <4> HIDE DEF Bad
      <4> QED  BY <1>1a, <2>2, <2>3, <2>5
    <3> QED  BY <2>5, <3>1
  <2>7. f[m] = Turn[f[m - 1]]
    BY <1>4, <2>3, <2>4
  <2> DEFINE t == f[m - 1]
             q == f[m]
  <2>8. t \in Turns /\ (t.flagged => Headed(t.units)) /\ Leaves(t, s, m - 1)
    BY <2>6 DEF Law
  <2>9. q = Turn[t]
    BY <2>7
  <2> HIDE DEF t, q
  <2>10. <<>> \in Seq(Int)
    BY EmptySeq
  <2>11. q \in Turns /\ (q.flagged => Headed(q.units))
    BY <2>8, <2>9, <2>10, TurnLaw
  <2>12. Leaves(q, s, m - 1 + 1)
    BY <2>5, <2>8, <2>9, TurnLeaves
  <2>13. Law(q, m)
    BY <2>5, <2>11, <2>12 DEF Law
  <2> QED  BY <2>3, <2>13 DEF q
<1>7. r \in Turns /\ Leaves(r, s, N)
  BY <1>3, <1>6 DEF Law
<1>8. Len(r.units) \in Nat
  BY <1>7, LenProperties DEF Turns
<1>9. Len(r.units) <= 2 \/ 2 * Len(r.units) <= Len(s)
  <2> DEFINE U == Len(r.units)
             S == Len(s)
  <2>1. /\ ~r.done => U + 2 * N <= S
        /\ r.done => U <= 2 \/ 2 * U <= S
    BY <1>7 DEF Leaves
  <2>2. U \in Nat /\ S \in Nat /\ S < 2 * N + 2
    BY <1>1, <1>1a, <1>8
  <2> HIDE DEF U, S
  <2>3. U <= 2 \/ 2 * U <= S
    BY <1>1a, <2>1, <2>2
  <2> QED  BY <2>3 DEF U, S
<1>10. \E n \in 0..Len(s) : r.units = Drop(s, n)
  BY <1>7 DEF Leaves
<1> QED  BY <1>9, <1>10

-----------------------------------------------------------------------------
\* The places of points.

\* A quotient and what is left.
LEMMA Divided ==
  ASSUME NEW n \in Nat \ {0}, NEW x \in Int
  PROVE  /\ x \div n \in Int /\ n * (x \div n) \in Int
         /\ x % n \in 0..n - 1 /\ x = n * (x \div n) + (x % n)
<1> DEFINE q == x \div n
           r == x % n
<1>1. q \in Int /\ r \in 0..n - 1 /\ x = n * q + r
  OBVIOUS
<1> HIDE DEF q, r
<1>2. n * q \in Int
  BY <1>1
<1> QED  BY <1>1, <1>2 DEF q, r

\* There is one quotient only.
LEMMA Quotient ==
  ASSUME NEW n \in Nat \ {0}, NEW c \in Int, NEW r \in 0..n - 1, NEW x, x = n * c + r
  PROVE  x \div n = c /\ x % n = r
<1> DEFINE q == x \div n
           m == x % n
<1>1. n * c \in Int /\ x \in Int
  OBVIOUS
<1>2. q \in Int /\ m \in 0..n - 1 /\ x = n * q + m
  BY <1>1, Divided
<1> HIDE DEF q, m
<1>3. n * (c - q) = m - r
  BY <1>2
<1>4. CASE c - q >= 1
  <2>1. n * (c - q) >= n
    BY <1>2, <1>4
  <2> QED  BY <1>2, <1>3, <2>1
<1>5. CASE c - q <= -1
  <2>1. n * (c - q) <= -n
    BY <1>2, <1>5
  <2> QED  BY <1>2, <1>3, <2>1
<1>6. q = c
  BY <1>2, <1>4, <1>5
<1>7. m = r
  BY <1>2, <1>3, <1>6
<1> QED  BY <1>6, <1>7 DEF q, m

\* Of two numbers less than n apart, the greater has the same quotient and the greater rest,
\* or the next quotient and the smaller rest.
LEMMA Apart ==
  ASSUME NEW n \in Nat \ {0}, NEW x \in Int, NEW y \in Int, x < y, y - x < n
  PROVE  \/ y \div n = x \div n /\ x % n < y % n
         \/ y \div n = x \div n + 1 /\ y % n < x % n
<1> DEFINE q == x \div n
           r == x % n
           p == n * q
<1>1. q \in Int /\ p \in Int /\ r \in 0..n - 1 /\ x = p + r
  BY Divided
<1> HIDE DEF q, r, p
<1>2. n * (q + 1) = p + n /\ q + 1 \in Int
  BY <1>1 DEF p
<1>3. CASE r + (y - x) < n
  <2>1. r + (y - x) \in 0..n - 1 /\ y = p + (r + (y - x))
    BY <1>1, <1>3
  <2> DEFINE rest == r + (y - x)
  <2>2. y \div n = q /\ y % n = rest
    <3>1. rest \in 0..n - 1 /\ y = n * q + rest
      BY <2>1 DEF p
    <3> HIDE DEF rest
    <3> QED  BY <1>1, <3>1, Quotient, Zenon
  <2>3. r < r + (y - x)
    BY <1>1
  <2> QED  BY <2>2, <2>3 DEF q, r
<1>4. CASE r + (y - x) >= n
  <2>1. r + (y - x) - n \in 0..n - 1 /\ y = (p + n) + (r + (y - x) - n)
    BY <1>1, <1>4
  <2> DEFINE rest == r + (y - x) - n
             following == q + 1
  <2>2a. y \div n = following /\ y % n = rest
    <3>1. following \in Int /\ rest \in 0..n - 1 /\ y = n * following + rest
      BY <1>2, <2>1
    <3> HIDE DEF rest, following
    <3> QED  BY <1>1, <3>1, Quotient, Zenon
  <2>3. r + (y - x) - n < r
    BY <1>1
  <2> QED  BY <2>2a, <2>3 DEF q, r
<1> QED  BY <1>1, <1>3, <1>4

\* The point of a period at a place, counted from the period's start.
At(period, place) == period * Circle + (place % Circle)

LEMMA CircleTyped == Circle \in Nat \ {0} /\ PerRev \in Nat \ {0} /\ Revs \in Nat \ {0} /\ PerFrame \in Nat \ {0}
<1>1. PerRev \in Nat \ {0} /\ Revs \in Nat \ {0} /\ PerFrame \in Nat \ {0}
  BY LidarAssumption
<1> QED  BY <1>1 DEF Circle

\* What a place says of its point.
LEMMA PlaceLaw ==
  ASSUME NEW period \in Nat, NEW place \in Int
  PROVE  /\ At(period, place) \in Nat
         /\ Period(At(period, place)) = period
         /\ Angle(At(period, place)) = place % PerRev
         /\ Revolution(At(period, place)) = Revs * period + ((place \div PerRev) % Revs)
<1> DEFINE q == place \div Circle
           r == place % Circle
           a == r \div PerRev
           b == r % PerRev
           p == At(period, place)
<1>0. Circle \in Nat \ {0} /\ PerRev \in Nat \ {0} /\ Revs \in Nat \ {0}
  BY CircleTyped
<1>1. q \in Int /\ r \in 0..Circle - 1 /\ place = Circle * q + r
  BY <1>0, Divided
<1>2. p = Circle * period + r /\ p \in Nat
  BY <1>0, <1>1 DEF At
<1>3. p \div Circle = period
  <2>1. period \in Int
    OBVIOUS
  <2> HIDE DEF r, p
  <2> QED  BY <1>0, <1>1, <1>2, <2>1, Quotient, Zenon
<1> HIDE DEF q, r, p
<1>4. a \in Int /\ b \in 0..PerRev - 1 /\ r = PerRev * a + b
  BY <1>0, <1>1, Divided
<1> HIDE DEF a, b
<1>5. a \in 0..Revs - 1
  <2>1. r >= 0 /\ r < PerRev * Revs
    BY <1>0, <1>1 DEF Circle
  <2>2. a >= 0
    <3>1. SUFFICES ASSUME a <= -1 PROVE FALSE
      BY <1>4
    <3>2. PerRev * a <= -PerRev
      BY <1>0, <1>4, <3>1
    <3> QED  BY <1>0, <1>4, <2>1, <3>2
  <2>3. a < Revs
    <3>1. SUFFICES ASSUME a - Revs >= 0 PROVE FALSE
      BY <1>0, <1>4
    <3>2. PerRev * (a - Revs) >= 0 /\ PerRev * (a - Revs) = PerRev * a - PerRev * Revs
      BY <1>0, <1>4, <3>1
    <3> QED  BY <1>0, <1>4, <2>1, <3>2
  <2> QED  BY <1>0, <1>4, <2>2, <2>3
<1>6. Circle * period = PerRev * (Revs * period) /\ Circle * q = PerRev * (Revs * q)
      /\ Revs * period \in Int /\ Revs * q \in Int
  BY <1>0, <1>1 DEF Circle
<1>7. p = PerRev * (Revs * period + a) + b /\ place = PerRev * (Revs * q + a) + b
  <2>1. \A k \in Int : PerRev * (k + a) = PerRev * k + PerRev * a
    BY <1>0, <1>4
  <2>2. PerRev * (Revs * period + a) = PerRev * (Revs * period) + PerRev * a
    BY <1>6, <2>1
  <2>3. PerRev * (Revs * q + a) = PerRev * (Revs * q) + PerRev * a
    BY <1>6, <2>1
  <2> QED  BY <1>0, <1>1, <1>2, <1>4, <1>6, <2>2, <2>3
<1>8. p \div PerRev = Revs * period + a /\ p % PerRev = b
  <2> DEFINE c == Revs * period + a
  <2>1. c \in Int /\ p = PerRev * c + b
    BY <1>4, <1>6, <1>7
  <2> HIDE DEF c
  <2>2. p \div PerRev = c /\ p % PerRev = b
    BY <1>0, <1>4, <2>1, Quotient, Zenon
  <2> QED  BY <2>2 DEF c
<1>9. place \div PerRev = Revs * q + a /\ place % PerRev = b
  <2> DEFINE c == Revs * q + a
  <2>1. c \in Int /\ place = PerRev * c + b
    BY <1>4, <1>6, <1>7
  <2> HIDE DEF c
  <2>2. place \div PerRev = c /\ place % PerRev = b
    BY <1>0, <1>4, <2>1, Quotient, Zenon
  <2> QED  BY <2>2 DEF c
<1>10. (place \div PerRev) % Revs = a
  <2>1. Revs * period + a = Revs * period + a /\ Revs * q + a \in Int
    BY <1>4, <1>6
  <2> DEFINE w == place \div PerRev
  <2>2. w = Revs * q + a
    BY <1>9
  <2> HIDE DEF w
  <2>3. w % Revs = a
    BY <1>0, <1>1, <1>5, <2>2, Quotient, Zenon
  <2> QED  BY <2>3 DEF w
<1> QED  BY <1>2, <1>3, <1>8, <1>9, <1>10 DEF p, Period, Angle, Revolution

\* The points that follow a point of a period are at the places that follow.
LEMMA AfterLaw ==
  ASSUME NEW period \in Nat, NEW place \in Int, NEW i \in Int
  PROVE  After(At(period, place), i) = At(period, place + i)
<1> DEFINE p == At(period, place)
           q == place \div Circle
           r == place % Circle
           k == (p + i) \div Circle
           m == (p + i) % Circle
<1>0. Circle \in Nat \ {0}
  BY CircleTyped
<1>1. q \in Int /\ r \in 0..Circle - 1 /\ place = Circle * q + r
  BY <1>0, Divided
<1>2. p = Circle * period + r /\ p \in Int
  BY <1>0, <1>1 DEF At
<1>3. Period(p) = period
  BY PlaceLaw
<1> HIDE DEF q, r, p
<1>4. k \in Int /\ m \in 0..Circle - 1 /\ p + i = Circle * k + m
  <2> DEFINE x == p + i
  <2>1. x \in Int
    BY <1>2
  <2> HIDE DEF x
  <2>2. x \div Circle \in Int /\ x % Circle \in 0..Circle - 1 /\ x = Circle * (x \div Circle) + (x % Circle)
    BY <1>0, <2>1, Divided
  <2> QED  BY <2>2 DEF x
<1> HIDE DEF k, m
<1>5. place + i = Circle * (k - period + q) + m
  <2>1. Circle * (k - period + q) = Circle * k - Circle * period + Circle * q
    BY <1>0, <1>1, <1>4
  <2>2. Circle * k \in Int /\ Circle * period \in Int /\ Circle * q \in Int
    BY <1>0, <1>1, <1>4
  <2> DEFINE a == Circle * k
             b == Circle * period
             c == Circle * q
  <2>3. a \in Int /\ b \in Int /\ c \in Int /\ place = c + r /\ p = b + r /\ p + i = a + m
    BY <1>1, <1>2, <1>4, <2>2
  <2>4. Circle * (k - period + q) = a - b + c
    BY <2>1
  <2> HIDE DEF a, b, c
  <2> QED  BY <1>1, <1>2, <1>4, <2>3, <2>4
<1>6. (place + i) % Circle = m
  <2> DEFINE c == k - period + q
             x == place + i
  <2>1. c \in Int /\ x = Circle * c + m
    BY <1>1, <1>4, <1>5
  <2> HIDE DEF c, x
  <2>2. x % Circle = m
    BY <1>0, <1>4, <2>1, Quotient, Zenon
  <2> QED  BY <2>2 DEF x
<1>7. After(p, i) = period * Circle + m
  BY <1>3 DEF After, m
<1> QED  BY <1>6, <1>7 DEF At, p

\* Of two points of a period less than a turn apart, the later is further in the same
\* revolution, or it is in the next and its angle is smaller.
LEMMA PointsApart ==
  ASSUME NEW period \in Nat, NEW x \in Int, NEW y \in Int, x < y, y - x < PerRev
  PROVE  \/ /\ y \div PerRev = x \div PerRev
            /\ Angle(At(period, x)) < Angle(At(period, y))
            /\ Revolution(At(period, x)) = Revolution(At(period, y))
         \/ /\ y \div PerRev = x \div PerRev + 1
            /\ Angle(At(period, y)) < Angle(At(period, x))
<1>1. PerRev \in Nat \ {0}
  BY CircleTyped
<1>2. \/ y \div PerRev = x \div PerRev /\ x % PerRev < y % PerRev
      \/ y \div PerRev = x \div PerRev + 1 /\ y % PerRev < x % PerRev
  BY <1>1, Apart
<1> QED  BY ZenonT(30), <1>2, PlaceLaw

-----------------------------------------------------------------------------
\* The frames that follow one another.

\* Points of one revolution whose angles rise, and a scan that begins with it.
Rising(s) ==
  \A i, j \in 1..Len(s) : i < j => Revolution(s[i]) = Revolution(s[j]) /\ Angle(s[i]) < Angle(s[j])

FirstAtZero(s) == s # <<>> /\ Angle(s[1]) = 0

\* Frames S behind points T, up to the place u of the device.  All but the first j frames and the
\* first m points are of its period; c is the place of the last point, and f those of the
\* frames.  No more than d frames are missing between c and u.
Follows(S, T, period, u, c, d, m, j, f) ==
  /\ c < u /\ u - c - 1 <= PerFrame * (Len(S) - j) + PerFrame * d
  /\ \A i \in j + 1..Len(S) :
       S[i] = At(period, f[i]) /\ c < f[i] /\ f[i] + PerFrame * (Len(S) + 1 - i) <= u
  /\ \A i \in j + 1..Len(S) : \A k \in i + 1..Len(S) : f[i] + PerFrame <= f[k]
  /\ \A i \in 1..j : Period(S[i]) # period
  /\ \A i \in 1..m : Period(T[i]) # period
  /\ \A i \in m + 1..Len(T) : Period(T[i]) = period
  /\ m < Len(T) => j = 0 /\ T[Len(T)] = At(period, c)

\* The frames with one more behind them.
Grown(X, T, period, u, c, d, m, j) ==
  /\ j \in 0..Len(X)
  /\ \E g \in [1..Len(X) -> Int] : Follows(X, T, period, u + PerFrame, c, d, m, j, g)

\* A frame that arrives whole.
LEMMA FollowsWhole ==
  ASSUME NEW S \in Seq(Int), NEW T \in Seq(Int), NEW period \in {0, 1}, NEW u \in Int, NEW c \in Int,
         NEW d \in Nat, NEW m \in 0..Len(T), NEW j \in 0..Len(S), NEW f \in [1..Len(S) -> Int],
         Follows(S, T, period, u, c, d, m, j, f),
         NEW X \in Seq(Int), X = S \o <<At(period, u)>>
  PROVE  Grown(X, T, period, u, c, d, m, j)
<1> DEFINE p == At(period, u)
           n == Len(S)
           g == [i \in 1..n + 1 |-> IF i <= n THEN f[i] ELSE u]
<1>0. n \in Nat /\ PerFrame \in Nat \ {0} /\ Len(T) \in Nat
  BY LenProperties, CircleTyped
<1>1. p \in Int
  BY PlaceLaw
<1>2. Len(X) = n + 1 /\ \A i \in 1..n + 1 : X[i] = IF i <= n THEN S[i] ELSE p
  <2>1. <<p>> \in Seq(Int) /\ Len(<<p>>) = 1 /\ <<p>>[1] = p
    BY <1>1
  <2> HIDE DEF p, n
  <2>2. /\ Len(X) = Len(S) + 1
        /\ \A i \in 1..Len(S) + 1 : X[i] = IF i <= Len(S) THEN S[i] ELSE <<p>>[i - Len(S)]
    BY <2>1, ConcatProperties DEF p
  <2>3. \A i \in 1..n + 1 : ~(i <= n) => i - n = 1
    BY <1>0
  <2> QED  BY <2>1, <2>2, <2>3 DEF n
<1>3. g \in [1..Len(X) -> Int]
  BY <1>0, <1>2
<1>4. \A i \in 1..n : g[i] = f[i]
  BY <1>0
<1>5. g[n + 1] = u
  BY <1>0
<1> HIDE DEF g, p
<1>6. c < u + PerFrame /\ (u + PerFrame) - c - 1 <= PerFrame * (Len(X) - j) + PerFrame * d
  <2>1. c < u /\ u - c - 1 <= PerFrame * (n - j) + PerFrame * d
    BY DEF Follows
  <2>2. PerFrame * (n + 1 - j) = PerFrame * (n - j) + PerFrame /\ PerFrame * (n - j) \in Int
    BY <1>0
  <2>3. PerFrame * d \in Int
    BY <1>0
  <2> DEFINE a == PerFrame * (n - j)
             b == PerFrame * d
  <2>4. a \in Int /\ b \in Int /\ u - c - 1 <= a + b
    BY <2>1, <2>2, <2>3
  <2>5. Len(X) - j = n + 1 - j
    BY <1>2
  <2>6. PerFrame * (Len(X) - j) = a + PerFrame
    BY <2>2, <2>5
  <2> HIDE DEF a, b, n
  <2>7. c < u + PerFrame /\ (u + PerFrame) - c - 1 <= (a + PerFrame) + b
    BY <1>0, <2>1, <2>4
  <2> QED  BY <2>6, <2>7 DEF b
<1>7. ASSUME NEW i \in j + 1..Len(X)
      PROVE  X[i] = At(period, g[i]) /\ c < g[i] /\ g[i] + PerFrame * (Len(X) + 1 - i) <= u + PerFrame
  <2>1. CASE i <= n
    <3>1. i \in j + 1..n /\ i \in 1..n /\ i \in 1..n + 1
      BY <1>0, <1>2, <2>1
    <3>2. X[i] = S[i] /\ g[i] = f[i] /\ f[i] \in Int
      BY <1>2, <1>4, <2>1, <3>1
    <3>3. S[i] = At(period, f[i]) /\ c < f[i] /\ f[i] + PerFrame * (n + 1 - i) <= u
      BY <3>1 DEF Follows
    <3>4. PerFrame * (n + 1 + 1 - i) = PerFrame * (n + 1 - i) + PerFrame /\ PerFrame * (n + 1 - i) \in Int
      BY <1>0, <3>1
    <3> DEFINE a == PerFrame * (n + 1 - i)
    <3>5. PerFrame * (Len(X) + 1 - i) = a + PerFrame /\ a \in Int /\ f[i] + a <= u
      BY <1>2, <3>3, <3>4
    <3> HIDE DEF a
    <3>6. f[i] + (a + PerFrame) <= u + PerFrame
      <4> DEFINE x == f[i]
      <4>1. x \in Int /\ a \in Int /\ x + a <= u
        BY <3>2, <3>5
      <4> HIDE DEF x
      <4>2. x + (a + PerFrame) <= u + PerFrame
        BY <1>0, <4>1
      <4> QED  BY <4>2 DEF x
    <3> QED  BY <3>2, <3>3, <3>5, <3>6
  <2>2. CASE i > n
    <3>1. i = n + 1 /\ i \in 1..n + 1 /\ ~(i <= n)
      BY SMTT(30), <1>0, <1>2, <2>2
    <3>2. X[i] = p /\ g[i] = u
      BY <1>2, <1>5, <3>1
    <3>3. Len(X) + 1 - i = 1 /\ PerFrame * 1 = PerFrame
      BY <1>0, <1>2, <3>1
    <3>4. c < u
      BY DEF Follows
    <3>5. PerFrame * (Len(X) + 1 - i) = PerFrame
      BY <3>3
    <3> QED  BY <1>0, <3>2, <3>4, <3>5 DEF p
  <2> QED  BY <1>0, <1>2, <2>1, <2>2
<1>8. ASSUME NEW i \in j + 1..Len(X), NEW k \in i + 1..Len(X)
      PROVE  g[i] + PerFrame <= g[k]
  <2>0. /\ i \in Int /\ k \in Int /\ j \in Int /\ 0 <= j /\ j + 1 <= i /\ i + 1 <= k /\ k <= n + 1
        /\ n \in Nat
    BY <1>0, <1>2
  <2>1. i \in j + 1..n /\ i \in 1..n /\ f[i] \in Int
    <3>1. i \in j + 1..n /\ i \in 1..n
      <4> HIDE DEF n
      <4> QED  BY <2>0
    <3> QED  BY <3>1
  <2>2. CASE k <= n
    <3>1. k \in i + 1..n /\ k \in 1..n
      <4> HIDE DEF n
      <4> QED  BY <2>0, <2>2
    <3> QED  BY <1>4, <2>1, <3>1 DEF Follows
  <2>3. CASE k > n
    <3>1. k = n + 1
      <4> HIDE DEF n
      <4> QED  BY <2>0, <2>3
    <3>2. f[i] + PerFrame * (n + 1 - i) <= u
      BY <2>1 DEF Follows
    <3> DEFINE e == n - i
               b == PerFrame * e
    <3>3. e \in Nat /\ PerFrame * (e + 1) = b + PerFrame /\ b \in Nat /\ n + 1 - i = e + 1
      <4> HIDE DEF n
      <4>1. e \in Nat /\ n + 1 - i = e + 1
        BY <2>0, <2>1
      <4> HIDE DEF e
      <4>2. PerFrame * (e + 1) = b + PerFrame /\ b \in Nat
        BY <1>0, <4>1
      <4> QED  BY <4>1, <4>2
    <3>4. f[i] + (b + PerFrame) <= u
      BY <3>2, <3>3
    <3> HIDE DEF b, e
    <3>5. f[i] + PerFrame <= u
      BY SMTT(30), <1>0, <2>1, <3>3, <3>4
    <3> QED  BY <1>4, <1>5, <2>1, <3>1, <3>5
  <2> QED  BY <1>0, <1>2, <2>2, <2>3
<1>9. \A i \in 1..j : Period(X[i]) # period
  <2>1. \A i \in 1..j : i \in 1..n + 1 /\ i <= n
    BY <1>0
  <2> QED  BY <1>2, <2>1 DEF Follows
<1>10. Follows(X, T, period, u + PerFrame, c, d, m, j, g)
  <2>1. /\ \A i \in 1..m : Period(T[i]) # period
        /\ \A i \in m + 1..Len(T) : Period(T[i]) = period
        /\ m < Len(T) => j = 0 /\ T[Len(T)] = At(period, c)
    BY DEF Follows
  <2> HIDE DEF n
  <2> QED  BY <1>6, <1>7, <1>8, <1>9, <2>1 DEF Follows
<1>11. j \in 0..Len(X)
  BY <1>0, <1>2
<1> QED  BY <1>2, <1>3, <1>10, <1>11 DEF Grown

\* A frame that is lost.
LEMMA FollowsLost ==
  ASSUME NEW S \in Seq(Int), NEW T \in Seq(Int), NEW period \in {0, 1}, NEW u \in Int, NEW c \in Int,
         NEW d \in Nat, NEW m \in 0..Len(T), NEW j \in 0..Len(S), NEW f \in [1..Len(S) -> Int],
         Follows(S, T, period, u, c, d, m, j, f)
  PROVE  Follows(S, T, period, u + PerFrame, c, d + 1, m, j, f)
<1>0. Len(S) \in Nat /\ PerFrame \in Nat \ {0}
  BY LenProperties, CircleTyped
<1> DEFINE a == PerFrame * (Len(S) - j)
           b == PerFrame * d
<1>1. a \in Int /\ b \in Int /\ PerFrame * (d + 1) = b + PerFrame
  BY <1>0
<1>2. c < u /\ u - c - 1 <= a + b
  BY DEF Follows
<1> HIDE DEF a, b
<1>3. c < u + PerFrame /\ (u + PerFrame) - c - 1 <= a + (b + PerFrame)
  BY <1>0, <1>1, <1>2
<1>4. ASSUME NEW i \in j + 1..Len(S)
      PROVE  S[i] = At(period, f[i]) /\ c < f[i] /\ f[i] + PerFrame * (Len(S) + 1 - i) <= u + PerFrame
  <2>1. S[i] = At(period, f[i]) /\ c < f[i] /\ f[i] + PerFrame * (Len(S) + 1 - i) <= u
    BY DEF Follows
  <2> DEFINE e == PerFrame * (Len(S) + 1 - i)
  <2>2. e \in Int /\ f[i] \in Int
    <3>1. i \in 1..Len(S)
      BY <1>0
    <3> QED  BY <1>0, <3>1
  <2>3. f[i] + e <= u
    BY <2>1
  <2> HIDE DEF e
  <2>4. f[i] + e <= u + PerFrame
    BY <1>0, <2>2, <2>3
  <2> QED  BY <2>1, <2>4 DEF e
<1>5. (u + PerFrame) - c - 1 <= PerFrame * (Len(S) - j) + PerFrame * (d + 1)
  BY <1>1, <1>3 DEF a
<1>6. /\ \A i \in j + 1..Len(S) : \A k \in i + 1..Len(S) : f[i] + PerFrame <= f[k]
      /\ \A i \in 1..j : Period(S[i]) # period
      /\ \A i \in 1..m : Period(T[i]) # period
      /\ \A i \in m + 1..Len(T) : Period(T[i]) = period
      /\ m < Len(T) => j = 0 /\ T[Len(T)] = At(period, c)
  BY DEF Follows
<1> QED  BY <1>3, <1>4, <1>5, <1>6 DEF Follows

\* The frames that are left, up to an earlier place.
CutShort(R, T, period, u, c, d) ==
  \E v \in Int : v <= u /\ \E g \in [1..Len(R) -> Int] : Follows(R, T, period, v, c, d, 0, 0, g)

\* The device is gone, and of the frames only the first are left.
LEMMA FollowsCut ==
  ASSUME NEW R \in Seq(Int), NEW t \in Seq(Int), NEW S \in Seq(Int), S = R \o t,
         NEW T \in Seq(Int), NEW period \in {0, 1}, NEW u \in Int, NEW c \in Int,
         NEW d \in Nat, NEW f \in [1..Len(S) -> Int], Follows(S, T, period, u, c, d, 0, 0, f)
  PROVE  CutShort(R, T, period, u, c, d)
<1> DEFINE n == Len(S)
           r == Len(R)
           k == Len(t)
           b == PerFrame * k
           v == u - b
           g == [i \in 1..r |-> f[i]]
           e == PerFrame * r
           w == PerFrame * d
<1>0. r \in Nat /\ k \in Nat /\ PerFrame \in Nat \ {0} /\ Len(T) \in Nat
  BY LenProperties, CircleTyped
<1>1. n = r + k /\ \A i \in 1..r + k : S[i] = IF i <= r THEN R[i] ELSE t[i - r]
  BY ConcatProperties
<1>2. PerFrame * n = e + b /\ b \in Nat /\ e \in Nat /\ w \in Nat
  <2> HIDE DEF n, r, k
  <2> QED  BY <1>0, <1>1
<1>3. \A i \in 1..r : i \in 1..n /\ R[i] = S[i] /\ g[i] = f[i] /\ f[i] \in Int
  <2>1. \A i \in 1..r : i \in 1..n /\ i \in 1..r + k /\ i <= r
    <3> HIDE DEF n, r, k
    <3> QED  BY <1>0, <1>1
  <2> QED  BY <1>1, <2>1
<1>4. c < u /\ u - c - 1 <= PerFrame * n + w
  <2>1. c < u /\ u - c - 1 <= PerFrame * (Len(S) - 0) + w
    BY DEF Follows
  <2>2. Len(S) - 0 = n
    BY <1>0, <1>1
  <2> QED  BY <2>1, <2>2
<1>5. v \in Int /\ v <= u
  <2> HIDE DEF b
  <2> QED  BY <1>2
<1>6. c < v
  <2>1. CASE n = 0
    <3>1. k = 0
      <4> HIDE DEF n, r, k
      <4> QED  BY <1>0, <1>1, <2>1
    <3>2. b = 0
      BY <1>0, <3>1
    <3> HIDE DEF b
    <3> QED  BY <1>4, <3>2
  <2>2. CASE n > 0
    <3>1. 1 \in 1..n /\ 1 \in 0 + 1..n
      <4> HIDE DEF n
      <4> QED  BY <1>0, <1>1, <2>2
    <3>2. c < f[1] /\ f[1] + PerFrame * (n + 1 - 1) <= u /\ f[1] \in Int
      BY <3>1 DEF Follows
    <3>3. n + 1 - 1 = n
      <4> HIDE DEF n
      <4> QED  BY <1>0, <1>1
    <3> DEFINE x == f[1]
    <3>4. c < x /\ x + (e + b) <= u /\ x \in Int
      BY <1>2, <3>2, <3>3
    <3> HIDE DEF x, e, b
    <3> QED  BY <1>2, <3>4
  <2>3. n \in Nat
    <3> HIDE DEF n
    <3> QED  BY <1>0, <1>1
  <2> QED  BY <2>1, <2>2, <2>3
<1>7. v - c - 1 <= PerFrame * (Len(R) - 0) + PerFrame * d
  <2>1. u - c - 1 <= (e + b) + w
    BY <1>2, <1>4
  <2>2. v - c - 1 <= e + w
    <3> HIDE DEF e, b, w
    <3> QED  BY <1>2, <2>1
  <2>3. Len(R) - 0 = r
    BY <1>0
  <2> QED  BY <2>2, <2>3
<1>8. ASSUME NEW i \in 0 + 1..Len(R)
      PROVE  R[i] = At(period, g[i]) /\ c < g[i] /\ g[i] + PerFrame * (Len(R) + 1 - i) <= v
  <2>1. i \in 1..r /\ i \in 1..n /\ i \in 0 + 1..n
    <3>1. i \in 1..r
      BY <1>0
    <3>2. i \in 1..n
      BY <1>3, <3>1
    <3> QED  BY <3>1, <3>2
  <2>2. R[i] = S[i] /\ g[i] = f[i] /\ f[i] \in Int
    BY <1>3, <2>1
  <2>3. S[i] = At(period, f[i]) /\ c < f[i] /\ f[i] + PerFrame * (n + 1 - i) <= u
    BY <2>1 DEF Follows
  <2> DEFINE a == PerFrame * (r + 1 - i)
             x == f[i]
  <2>4. PerFrame * (n + 1 - i) = a + b /\ a \in Int
    <3> HIDE DEF n, r, k
    <3>1. n + 1 - i = (r + 1 - i) + k /\ r + 1 - i \in Int /\ k \in Int
      BY <1>0, <1>1, <2>1
    <3>2. \A y, z \in Int : PerFrame * (y + z) = PerFrame * y + PerFrame * z
      BY <1>0
    <3>3. PerFrame * (n + 1 - i) = PerFrame * (r + 1 - i) + PerFrame * k
      BY <3>1, <3>2
    <3>4. PerFrame * (r + 1 - i) \in Int
      BY <1>0, <3>1
    <3> QED  BY <3>3, <3>4
  <2>5. x \in Int /\ x + (a + b) <= u
    BY <2>2, <2>3, <2>4
  <2>6. x + a <= v
    <3> HIDE DEF a, b, x
    <3> QED  BY <1>2, <2>4, <2>5
  <2> QED  BY <2>2, <2>3, <2>6
<1>9. ASSUME NEW i \in 0 + 1..Len(R), NEW l \in i + 1..Len(R)
      PROVE  g[i] + PerFrame <= g[l]
  <2>1. i \in 1..r /\ l \in 1..r
    BY <1>0
  <2>2. i \in 0 + 1..n /\ l \in i + 1..n
    <3> HIDE DEF n, r
    <3>1. i \in 1..n /\ l \in 1..n /\ i + 1 <= l
      BY <1>3, <2>1
    <3> QED  BY <1>0, <1>1, <3>1
  <2>3. f[i] + PerFrame <= f[l]
    BY <2>2 DEF Follows
  <2>4. g[i] = f[i] /\ g[l] = f[l]
    BY <1>3, <2>1
  <2> QED  BY <2>3, <2>4
<1>10. /\ \A i \in 1..0 : Period(R[i]) # period
       /\ \A i \in 1..0 : Period(T[i]) # period
       /\ \A i \in 0 + 1..Len(T) : Period(T[i]) = period
       /\ 0 < Len(T) => 0 = 0 /\ T[Len(T)] = At(period, c)
  BY DEF Follows
<1>11. g \in [1..Len(R) -> Int]
  BY <1>3
<1> HIDE DEF g, v
<1>12. Follows(R, T, period, v, c, d, 0, 0, g)
  BY <1>6, <1>7, <1>8, <1>9, <1>10 DEF Follows
<1> QED  BY <1>5, <1>11, <1>12 DEF CutShort

\* What the place x of the first frame says of the end of its points.
FirstFrame(S, x, period, u, c, d) ==
  /\ x \in Int /\ S[1] = At(period, x) /\ c < x /\ x + PerFrame <= u
  /\ x - c <= 1 + PerFrame * d
  /\ u - c - 1 <= PerFrame * Len(S) + PerFrame * d
  /\ u - (x + PerFrame - 1) - 1 <= PerFrame * (Len(S) - 1) + PerFrame * d

LEMMA FrameEnds ==
  ASSUME NEW S \in Seq(Int), NEW T \in Seq(Int), NEW period \in {0, 1}, NEW u \in Int, NEW c \in Int,
         NEW d \in Nat, NEW m \in 0..Len(T), NEW f \in [1..Len(S) -> Int], S # <<>>,
         Follows(S, T, period, u, c, d, m, 0, f)
  PROVE  FirstFrame(S, f[1], period, u, c, d)
<1> DEFINE n == Len(S)
           x == f[1]
           a == PerFrame * n
           b == PerFrame * d
           q == PerFrame * (n - 1)
<1>0. n \in Nat /\ n >= 1 /\ PerFrame \in Nat \ {0} /\ 1 \in 0 + 1..n /\ 1 \in 1..n
  <2>1. n \in Nat /\ PerFrame \in Nat \ {0}
    BY LenProperties, CircleTyped
  <2>2. n # 0
    BY EmptySeq
  <2> HIDE DEF n
  <2> QED  BY <2>1, <2>2
<1>1. S[1] = At(period, x) /\ c < x /\ x + PerFrame * (n + 1 - 1) <= u
  BY <1>0 DEF Follows
<1>2. x \in Int
  BY <1>0
<1>3. n + 1 - 1 = n /\ n - 0 = n
  <2> HIDE DEF n
  <2> QED  BY <1>0
<1>4. u - c - 1 <= PerFrame * (n - 0) + b
  BY DEF Follows
<1>5. a \in Int /\ b \in Int /\ q \in Int /\ a = q + PerFrame /\ q >= 0
  <2> HIDE DEF n
  <2>1. PerFrame * n = PerFrame * (n - 1) + PerFrame
    BY <1>0
  <2>2. n - 1 \in Nat
    BY <1>0
  <2> QED  BY <1>0, <2>1, <2>2
<1>6. x + a <= u /\ u - c - 1 <= a + b
  BY <1>1, <1>3, <1>4
<1> HIDE DEF x, a, b, q, n
<1>7. x + PerFrame <= u /\ x - c <= 1 + b /\ u - (x + PerFrame - 1) - 1 <= q + b
  BY <1>0, <1>1, <1>2, <1>5, <1>6
<1> QED  BY <1>1, <1>2, <1>6, <1>7 DEF FirstFrame, x, a, b, q, n

\* The frames behind the first.
FrameBehind(S, period, u, c, j, f, i) ==
  /\ i + 1 \in 1..Len(S) /\ f[i + 1] \in Int
  /\ S[i + 1] = At(period, f[i + 1]) /\ c < f[i + 1]
  /\ f[i + 1] + PerFrame * (Len(S) - 1 + 1 - i) <= u
  /\ j = 0 => f[1] + PerFrame <= f[i + 1]
  /\ \A k \in 1..Len(S) - 1 : i < k => f[i + 1] + PerFrame <= f[k + 1]

LEMMA FramesAfter ==
  ASSUME NEW S \in Seq(Int), NEW T \in Seq(Int), NEW period \in {0, 1}, NEW u \in Int, NEW c \in Int,
         NEW d \in Nat, NEW m \in 0..Len(T), NEW j \in 0..Len(S), NEW f \in [1..Len(S) -> Int], S # <<>>,
         Follows(S, T, period, u, c, d, m, j, f), NEW i \in 1..Len(S) - 1, i + 1 > j
  PROVE  FrameBehind(S, period, u, c, j, f, i)
<1> DEFINE n == Len(S)
<1>0. n \in Nat /\ j \in Nat
  BY LenProperties
<1>1. /\ i + 1 \in 1..n /\ i + 1 \in j + 1..n /\ n + 1 - (i + 1) = n - 1 + 1 - i
      /\ j = 0 => 1 \in j + 1..n /\ i + 1 \in 1 + 1..n
      /\ \A k \in 1..n - 1 : i < k => k + 1 \in (i + 1) + 1..n
  <2>1. i \in 1..n - 1
    OBVIOUS
  <2> HIDE DEF n
  <2> QED  BY <1>0, <2>1
<1>2. /\ S[i + 1] = At(period, f[i + 1]) /\ c < f[i + 1]
      /\ f[i + 1] + PerFrame * (Len(S) + 1 - (i + 1)) <= u
  BY <1>1 DEF Follows
<1>3. j = 0 => f[1] + PerFrame <= f[i + 1]
  BY <1>1 DEF Follows
<1>4. \A k \in 1..Len(S) - 1 : i < k => f[i + 1] + PerFrame <= f[k + 1]
  BY <1>1 DEF Follows
<1>5. f[i + 1] \in Int
  BY <1>1
<1>6. Len(S) + 1 - (i + 1) = Len(S) - 1 + 1 - i
  BY <1>1
<1>7. f[i + 1] + PerFrame * (Len(S) - 1 + 1 - i) <= u
  BY <1>2, <1>6
<1> QED  BY <1>1, <1>2, <1>3, <1>4, <1>5, <1>7 DEF FrameBehind

LEMMA TailTyped ==
  ASSUME NEW S \in Seq(Int), S # <<>>
  PROVE  /\ Len(S) \in Nat /\ Len(S) >= 1 /\ Tail(S) \in Seq(Int) /\ Len(Tail(S)) = Len(S) - 1
         /\ \A i \in 1..Len(S) - 1 : Tail(S)[i] = S[i + 1]
<1>1. Len(S) \in Nat /\ Len(S) # 0
  BY LenProperties, EmptySeq
<1>2. Tail(S) \in Seq(Int) /\ Len(Tail(S)) = Len(S) - 1 /\ \A i \in 1..Len(Tail(S)) : Tail(S)[i] = S[i + 1]
  BY HeadTailProperties
<1> QED  BY <1>1, <1>2

\* The indices behind a first one.
LEMMA Behind ==
  ASSUME NEW n \in Nat, NEW j \in 0..n, NEW h, h = n - 1
  PROVE  /\ \A i \in j + 1..h : i \in 1..n - 1 /\ i + 1 > j /\ i + 1 \in 1..n
         /\ \A i \in 0 + 1..h : i \in 1..n - 1 /\ i + 1 > 0 /\ i + 1 \in 1..n
         /\ \A i \in (j - 1) + 1..h : j >= 1 => i \in 1..n - 1 /\ i + 1 > j /\ i + 1 \in 1..n
         /\ \A i \in 1..j - 1 : i \in 1..n - 1 /\ i + 1 \in 1..j
         /\ \A i \in 1..n - 1 : \A k \in i + 1..h : k \in 1..n - 1 /\ i < k
OBVIOUS

\* Of points Y, those after the first m are of the period.
BegunAt(Y, m, period) ==
  /\ m \in 0..Len(Y) /\ m < Len(Y)
  /\ \A i \in 1..m : Period(Y[i]) # period
  /\ \A i \in m + 1..Len(Y) : Period(Y[i]) = period

\* The first frame is taken, and the place of the last point is then e.
NewTaken(S, Y, period, u, e, d, m) ==
  \E g \in [1..Len(Tail(S)) -> Int] : Follows(Tail(S), Y, period, u, e, d, m, 0, g)

\* The first frame is taken, its points the last of Y: those after the first m are of the period.
LEMMA FollowsTaken ==
  ASSUME NEW S \in Seq(Int), NEW T \in Seq(Int), NEW period \in {0, 1}, NEW u \in Int, NEW c \in Int,
         NEW d \in Nat, NEW l \in 0..Len(T), NEW f \in [1..Len(S) -> Int], S # <<>>,
         Follows(S, T, period, u, c, d, l, 0, f),
         NEW Y \in Seq(Int), NEW m, BegunAt(Y, m, period), NEW e, e = f[1] + PerFrame - 1,
         Y[Len(Y)] = At(period, e)
  PROVE  NewTaken(S, Y, period, u, e, d, m)
<1> DEFINE n == Len(S)
           R == Tail(S)
           g == [i \in 1..Len(R) |-> f[i + 1]]
<1>0. /\ n \in Nat /\ n >= 1 /\ R \in Seq(Int) /\ Len(R) = n - 1
      /\ \A i \in 1..n - 1 : R[i] = S[i + 1]
  BY TailTyped
<1>0a. PerFrame \in Nat \ {0}
  BY CircleTyped
<1>1. /\ f[1] \in Int /\ c < f[1] /\ f[1] + PerFrame <= u
      /\ u - e - 1 <= PerFrame * (n - 1) + PerFrame * d
  <2>1. Follows(S, T, period, u, c, d, l, 0, f) /\ S # <<>> /\ l \in 0..Len(T)
    OBVIOUS
  <2>2. FirstFrame(S, f[1], period, u, c, d)
    BY <2>1, FrameEnds, Zenon
  <2> QED  BY <2>2 DEF FirstFrame
<1>2. e \in Int /\ e < u
  <2> DEFINE x == f[1]
  <2>1. x \in Int /\ x + PerFrame <= u
    BY <1>1
  <2> HIDE DEF x
  <2>2. x + PerFrame - 1 \in Int /\ x + PerFrame - 1 < u
    BY <1>0a, <2>1
  <2> QED  BY <2>2 DEF x
<1>3. \A i \in 1..n - 1 : g[i] = f[i + 1]
  BY <1>0
<1>4. u - e - 1 <= PerFrame * (Len(R) - 0) + PerFrame * d
  <2>1. Len(R) - 0 = n - 1
    BY <1>0
  <2> QED  BY <1>1, <2>1
<1> HIDE DEF g, R
<1>5. ASSUME NEW i \in 0 + 1..Len(R)
      PROVE  /\ R[i] = At(period, g[i]) /\ e < g[i] /\ g[i] + PerFrame * (Len(R) + 1 - i) <= u
             /\ \A k \in i + 1..Len(R) : g[i] + PerFrame <= g[k]
  <2>1. i \in 1..n - 1 /\ i + 1 > 0 /\ \A k \in i + 1..Len(R) : k \in 1..n - 1 /\ i < k
    <3>1. n \in Nat /\ 0 \in 0..n /\ Len(R) = n - 1
      BY <1>0
    <3> HIDE DEF n
    <3> QED  BY <3>1, Behind, Zenon
  <2>2. /\ f[i + 1] \in Int /\ S[i + 1] = At(period, f[i + 1])
        /\ f[i + 1] + PerFrame * (n - 1 + 1 - i) <= u
        /\ f[1] + PerFrame <= f[i + 1]
        /\ \A k \in 1..n - 1 : i < k => f[i + 1] + PerFrame <= f[k + 1]
    <3>1. 0 \in 0..Len(S) /\ i \in 1..Len(S) - 1
      BY <1>0, <2>1
    <3>2. Follows(S, T, period, u, c, d, l, 0, f)
      OBVIOUS
    <3>3. FrameBehind(S, period, u, c, 0, f, i)
      BY <2>1, <3>1, <3>2, FramesAfter, Zenon
    <3> QED  BY <3>3 DEF FrameBehind
  <2>3. e < f[i + 1]
    <3> DEFINE x == f[1]
               y == f[i + 1]
    <3>1. x \in Int /\ y \in Int /\ x + PerFrame <= y
      BY <1>1, <2>2
    <3> HIDE DEF x, y
    <3>2. x + PerFrame - 1 < y
      BY <1>0a, <3>1
    <3> QED  BY <3>2 DEF x, y
  <2>4. Len(R) + 1 - i = n - 1 + 1 - i
    BY <1>0
  <2>5. g[i] + PerFrame * (Len(R) + 1 - i) <= u
    BY <1>3, <2>1, <2>2, <2>4
  <2>6. ASSUME NEW k \in i + 1..Len(R) PROVE g[i] + PerFrame <= g[k]
    BY <1>3, <2>1, <2>2
  <2> QED  BY <1>0, <1>3, <2>1, <2>2, <2>3, <2>5, <2>6
<1>6. \A i \in 1..0 : Period(R[i]) # period
  OBVIOUS
<1>7. g \in [1..Len(R) -> Int]
  <2>1. \A i \in 1..n - 1 : i + 1 \in 1..n
    <3> HIDE DEF n
    <3> QED  BY <1>0
  <2>2. \A i \in 1..n - 1 : f[i + 1] \in Int
    BY <2>1
  <2> QED  BY <1>0, <2>2 DEF g
<1>8. Follows(R, Y, period, u, e, d, m, 0, g)
  <2>1. /\ \A i \in 1..m : Period(Y[i]) # period
        /\ \A i \in m + 1..Len(Y) : Period(Y[i]) = period
        /\ m < Len(Y) => 0 = 0 /\ Y[Len(Y)] = At(period, e)
    BY DEF BegunAt
  <2> QED  BY <1>2, <1>4, <1>5, <1>6, <2>1 DEF Follows
<1> QED  BY <1>7, <1>8 DEF R, NewTaken

\* The first frame, of another period, is taken.
OldTaken(S, Y, period, u, c, d, j) ==
  /\ S # <<>> /\ j - 1 \in 0..Len(Tail(S))
  /\ \E g \in [1..Len(Tail(S)) -> Int] : Follows(Tail(S), Y, period, u, c, d, Len(Y), j - 1, g)

LEMMA FollowsOld ==
  ASSUME NEW S \in Seq(Int), NEW T \in Seq(Int), NEW period \in {0, 1}, NEW u \in Int, NEW c \in Int,
         NEW d \in Nat, NEW l \in 0..Len(T), NEW j \in 1..Len(S), NEW f \in [1..Len(S) -> Int],
         Follows(S, T, period, u, c, d, l, j, f),
         NEW Y \in Seq(Int), \A i \in 1..Len(Y) : Period(Y[i]) # period
  PROVE  OldTaken(S, Y, period, u, c, d, j)
<1> DEFINE n == Len(S)
           R == Tail(S)
           g == [i \in 1..Len(R) |-> f[i + 1]]
<1>0. S # <<>>
  <2>1. Len(S) \in Nat
    BY LenProperties
  <2>2. Len(S) # 0
    BY <2>1
  <2> QED  BY <2>2
<1>1. /\ n \in Nat /\ n >= 1 /\ R \in Seq(Int) /\ Len(R) = n - 1
      /\ \A i \in 1..n - 1 : R[i] = S[i + 1]
  BY <1>0, TailTyped
<1>2. Len(Y) \in Nat
  BY LenProperties
<1>3. j \in 0..n /\ j - 1 \in 0..Len(R) /\ Len(R) - (j - 1) = n - j
  <2>1. j \in 1..n
    OBVIOUS
  <2>2. j \in 0..n /\ j - 1 \in 0..n - 1 /\ (n - 1) - (j - 1) = n - j
    <3> HIDE DEF n
    <3> QED  BY <1>1, <2>1
  <2> QED  BY <1>1, <2>2
<1>4. c < u /\ u - c - 1 <= PerFrame * (Len(R) - (j - 1)) + PerFrame * d
  <2>1. c < u /\ u - c - 1 <= PerFrame * (n - j) + PerFrame * d
    BY DEF Follows
  <2> QED  BY <1>3, <2>1
<1>5. \A i \in 1..n - 1 : g[i] = f[i + 1]
  BY <1>1
<1> HIDE DEF g, R
<1>6. ASSUME NEW i \in (j - 1) + 1..Len(R)
      PROVE  /\ R[i] = At(period, g[i]) /\ c < g[i] /\ g[i] + PerFrame * (Len(R) + 1 - i) <= u
             /\ \A k \in i + 1..Len(R) : g[i] + PerFrame <= g[k]
  <2>1. i \in 1..n - 1 /\ i + 1 > j /\ \A k \in i + 1..Len(R) : k \in 1..n - 1 /\ i < k
    <3>1. n \in Nat /\ j \in 0..n /\ j >= 1 /\ Len(R) = n - 1
      BY <1>1, <1>3
    <3> HIDE DEF n
    <3> QED  BY <3>1, Behind, Zenon
  <2>2. /\ f[i + 1] \in Int /\ S[i + 1] = At(period, f[i + 1]) /\ c < f[i + 1]
        /\ f[i + 1] + PerFrame * (n - 1 + 1 - i) <= u
        /\ \A k \in 1..n - 1 : i < k => f[i + 1] + PerFrame <= f[k + 1]
    <3>1. j \in 0..Len(S) /\ i \in 1..Len(S) - 1
      BY <1>3, <2>1
    <3>2. FrameBehind(S, period, u, c, j, f, i)
      BY <1>0, <2>1, <3>1, FramesAfter, Zenon
    <3> QED  BY <3>2 DEF FrameBehind
  <2>4. Len(R) + 1 - i = n - 1 + 1 - i
    BY <1>1
  <2>5. g[i] + PerFrame * (Len(R) + 1 - i) <= u
    BY <1>5, <2>1, <2>2, <2>4
  <2>6. ASSUME NEW k \in i + 1..Len(R) PROVE g[i] + PerFrame <= g[k]
    BY <1>5, <2>1, <2>2
  <2> QED  BY <1>1, <1>5, <2>1, <2>2, <2>5, <2>6
<1>7. ASSUME NEW i \in 1..j - 1
      PROVE  Period(R[i]) # period
  <2>1. i \in 1..n - 1 /\ i + 1 \in 1..j
    <3>1. n \in Nat /\ j \in 0..n
      BY <1>1, <1>3
    <3> HIDE DEF n
    <3> QED  BY <3>1, Behind, Zenon
  <2> QED  BY <1>1, <2>1 DEF Follows
<1>8. g \in [1..Len(R) -> Int]
  <2>1. \A i \in 1..n - 1 : i + 1 \in 1..n
    <3> HIDE DEF n
    <3> QED  BY <1>1
  <2>2. \A i \in 1..n - 1 : f[i + 1] \in Int
    BY <2>1
  <2> QED  BY <1>1, <2>2 DEF g
<1>9. \A i \in Len(Y) + 1..Len(Y) : Period(Y[i]) = period
  BY <1>2
<1>10. Follows(R, Y, period, u, c, d, Len(Y), j - 1, g)
  BY <1>2, <1>4, <1>6, <1>7, <1>9 DEF Follows
<1> QED  BY <1>0, <1>3, <1>8, <1>10 DEF R, OldTaken

\* The device starts anew in the other period.
LEMMA FollowsAnew ==
  ASSUME NEW S \in Seq(Int), NEW T \in Seq(Int), NEW period \in {0, 1}, NEW a \in Int,
         NEW d \in Nat, NEW f,
         \A i \in 1..Len(S) : Period(S[i]) # period, \A i \in 1..Len(T) : Period(T[i]) # period
  PROVE  Follows(S, T, period, a, a - 1, d, Len(T), Len(S), f)
<1>0. Len(S) \in Nat /\ Len(T) \in Nat /\ PerFrame \in Nat \ {0}
  BY LenProperties, CircleTyped
<1>1. PerFrame * (Len(S) - Len(S)) = 0 /\ PerFrame * d \in Nat
  BY <1>0
<1>2. a - 1 < a /\ a - (a - 1) - 1 <= PerFrame * (Len(S) - Len(S)) + PerFrame * d
  <2> DEFINE b == PerFrame * d
             e == PerFrame * (Len(S) - Len(S))
  <2>1. b \in Nat /\ e = 0
    BY <1>1
  <2> HIDE DEF b, e
  <2>2. a - 1 < a /\ a - (a - 1) - 1 <= e + b
    BY <2>1
  <2> QED  BY <2>2 DEF b, e
<1>3. /\ \A i \in Len(S) + 1..Len(S) : FALSE
      /\ \A i \in Len(T) + 1..Len(T) : FALSE
      /\ ~(Len(T) < Len(T))
  BY <1>0
<1> QED  BY <1>2, <1>3 DEF Follows

-----------------------------------------------------------------------------
\* The points of a frame.

\* The points from the place x on.
Run(W, period, x) == W \in Seq(Int) /\ \A i \in 1..Len(W) : W[i] = At(period, x + (i - 1))

LEMMA PointsRun ==
  ASSUME NEW period \in {0, 1}, NEW x \in Int, NEW p, p = At(period, x)
  PROVE  Len(Points(p)) = PerFrame /\ Run(Points(p), period, x)
<1>0. PerFrame \in Nat \ {0} /\ period \in Nat
  BY CircleTyped
<1>1. \A i \in 1..PerFrame : After(p, i - 1) = At(period, x + (i - 1))
  <2> TAKE i \in 1..PerFrame
  <2>1. i - 1 \in Int
    BY <1>0
  <2> QED  BY <1>0, <2>1, AfterLaw
<1>2. \A i \in 1..PerFrame : At(period, x + (i - 1)) \in Int
  <2> TAKE i \in 1..PerFrame
  <2>1. x + (i - 1) \in Int
    BY <1>0
  <2>2. At(period, x + (i - 1)) \in Nat
    BY <1>0, <2>1, PlaceLaw
  <2> QED  BY <2>2
<1>3. \A i \in 1..PerFrame : Points(p)[i] = At(period, x + (i - 1)) /\ Points(p)[i] \in Int
  BY <1>1, <1>2 DEF Points
<1>4. Points(p) \in Seq(Int) /\ Len(Points(p)) = PerFrame
  BY <1>0, <1>1, <1>2 DEF Points
<1> QED  BY <1>3, <1>4 DEF Run

\* The points of a frame have its period.
LEMMA PointsOld ==
  ASSUME NEW p \in Int
  PROVE  /\ Points(p) \in Seq(Int) /\ Len(Points(p)) = PerFrame
         /\ \A i \in 1..PerFrame : Period(Points(p)[i]) = Period(p)
<1>0. PerFrame \in Nat \ {0} /\ Circle \in Nat \ {0}
  BY CircleTyped
<1>1. Period(p) \in Int
  BY <1>0, Divided DEF Period
<1>2. \A i \in 1..PerFrame : After(p, i - 1) \in Int /\ Period(After(p, i - 1)) = Period(p)
  <2> TAKE i \in 1..PerFrame
  <2> DEFINE q == Period(p)
             r == (p + (i - 1)) % Circle
             y == After(p, i - 1)
  <2>1. p + (i - 1) \in Int
    BY <1>0
  <2>2. r \in 0..Circle - 1 /\ q \in Int
    BY <1>0, <1>1, <2>1, Divided
  <2>3. y = q * Circle + r
    BY DEF After
  <2> HIDE DEF q, r, y
  <2>4. y = Circle * q + r /\ y \in Int
    BY <1>0, <2>2, <2>3
  <2>5. y \div Circle = q
    BY <1>0, <2>2, <2>4, Quotient, Zenon
  <2> QED  BY <2>4, <2>5 DEF Period, q, y
<1>3. Points(p) \in Seq(Int) /\ Len(Points(p)) = PerFrame
  BY <1>0, <1>2 DEF Points
<1>4. \A i \in 1..PerFrame : Points(p)[i] = After(p, i - 1)
  BY DEF Points
<1> QED  BY <1>2, <1>3, <1>4

\* A part of such points.
LEMMA RunFirst ==
  ASSUME NEW W, NEW period \in {0, 1}, NEW x \in Int, Run(W, period, x), NEW k \in 0..Len(W)
  PROVE  Len(SubSeq(W, 1, k)) = k /\ Run(SubSeq(W, 1, k), period, x)
<1>0. W \in Seq(Int) /\ Len(W) \in Nat /\ \A i \in 1..Len(W) : W[i] = At(period, x + (i - 1)) /\ W[i] \in Int
  BY LenProperties, ElementOfSeq DEF Run
<1>1. /\ SubSeq(W, 1, k) \in Seq(Int) /\ Len(SubSeq(W, 1, k)) = k
      /\ \A i \in 1..k : SubSeq(W, 1, k)[i] = W[i] /\ i \in 1..Len(W)
  BY <1>0
<1> QED  BY <1>0, <1>1 DEF Run

LEMMA RunRest ==
  ASSUME NEW W, NEW period \in {0, 1}, NEW x \in Int, Run(W, period, x), NEW k \in 0..Len(W)
  PROVE  Len(Drop(W, k)) = Len(W) - k /\ Run(Drop(W, k), period, x + k)
<1>0. W \in Seq(Int) /\ Len(W) \in Nat /\ \A i \in 1..Len(W) : W[i] = At(period, x + (i - 1))
  BY LenProperties DEF Run
<1>1. /\ Drop(W, k) \in Seq(Int) /\ Len(Drop(W, k)) = Len(W) - k
      /\ \A i \in 1..Len(W) - k : Drop(W, k)[i] = W[k + i]
  BY <1>0, DropLaw
<1>2. \A i \in 1..Len(W) - k : k + i \in 1..Len(W) /\ x + (k + i - 1) = x + k + (i - 1)
  BY <1>0
<1>3. \A i \in 1..Len(W) - k : Drop(W, k)[i] = At(period, x + k + (i - 1))
  <2> TAKE i \in 1..Len(W) - k
  <2>1. W[k + i] = At(period, x + (k + i - 1))
    BY <1>0, <1>2
  <2> QED  BY <1>1, <1>2, <2>1
<1> QED  BY <1>1, <1>3 DEF Run

-----------------------------------------------------------------------------
\* Revolutions.

\* Quotients follow their numbers.
LEMMA Ordered ==
  ASSUME NEW n \in Nat \ {0}, NEW x \in Int, NEW y \in Int, x <= y
  PROVE  x \div n <= y \div n
<1> DEFINE q == x \div n
           r == x % n
           s == y \div n
           t == y % n
<1>1. q \in Int /\ r \in 0..n - 1 /\ x = n * q + r
  BY Divided
<1>2. s \in Int /\ t \in 0..n - 1 /\ y = n * s + t
  BY Divided
<1> HIDE DEF q, r, s, t
<1>3. SUFFICES ASSUME q - s >= 1 PROVE FALSE
  BY <1>1, <1>2 DEF q, s
<1>4. n * (q - s) >= n /\ n * (q - s) = n * q - n * s
  BY <1>1, <1>2, <1>3
<1> QED  BY <1>1, <1>2, <1>4

\* A number between a multiple and the next.
LEMMA Between ==
  ASSUME NEW n \in Nat \ {0}, NEW q \in Int, NEW y \in Int, n * q <= y, y < n * (q + 1)
  PROVE  y \div n = q
<1> DEFINE r == y - n * q
<1>1. n * (q + 1) = n * q + n /\ n * q \in Int
  OBVIOUS
<1> DEFINE b == n * q
<1>2. b \in Int /\ b <= y /\ y < b + n /\ r = y - b
  BY <1>1
<1> HIDE DEF b
<1>3. r \in 0..n - 1 /\ y = b + r
  BY <1>2
<1> HIDE DEF r
<1>4. y = n * q + r
  BY <1>3 DEF b
<1> QED  BY <1>3, <1>4, Quotient, Zenon

\* Of two places of a turn the later has the greater angle.
LEMMA SameTurn ==
  ASSUME NEW period \in {0, 1}, NEW x \in Int, NEW y \in Int, x < y,
         x \div PerRev = y \div PerRev
  PROVE  /\ Angle(At(period, x)) < Angle(At(period, y))
         /\ Revolution(At(period, x)) = Revolution(At(period, y))
<1> DEFINE q == x \div PerRev
           r == x % PerRev
           t == y % PerRev
<1>0. PerRev \in Nat \ {0} /\ period \in Nat
  BY CircleTyped
<1>1. PerRev * q \in Int /\ r \in 0..PerRev - 1 /\ x = PerRev * q + r
  BY <1>0, Divided
<1>2. t \in 0..PerRev - 1 /\ y = PerRev * q + t
  BY <1>0, Divided
<1> DEFINE b == PerRev * q
<1>3. r < t
  <2>1. b \in Int /\ x = b + r /\ y = b + t
    BY <1>1, <1>2
  <2> HIDE DEF b, r, t
  <2> QED  BY <1>0, <1>1, <1>2, <2>1
<1>4. /\ Angle(At(period, x)) = x % PerRev /\ Angle(At(period, y)) = y % PerRev
      /\ Revolution(At(period, x)) = Revs * period + ((x \div PerRev) % Revs)
      /\ Revolution(At(period, y)) = Revs * period + ((y \div PerRev) % Revs)
  BY <1>0, PlaceLaw
<1>5. Revolution(At(period, x)) = Revolution(At(period, y))
  BY <1>4, Zenon
<1>6. Angle(At(period, x)) < Angle(At(period, y))
  BY <1>3, <1>4
<1> QED  BY <1>5, <1>6

\* A later place whose angle is smaller is of a later turn.
LEMMA LaterTurn ==
  ASSUME NEW x \in Int, NEW y \in Int, x < y, y % PerRev < x % PerRev, NEW z \in Int, y <= z
  PROVE  PerRev * (z \div PerRev) > x
<1> DEFINE q == x \div PerRev
           r == x % PerRev
           s == y \div PerRev
           t == y % PerRev
           v == z \div PerRev
<1>0. PerRev \in Nat \ {0}
  BY CircleTyped
<1>1. q \in Int /\ r \in 0..PerRev - 1 /\ x = PerRev * q + r
  BY <1>0, Divided
<1>2. s \in Int /\ t \in 0..PerRev - 1 /\ y = PerRev * s + t
  BY <1>0, Divided
<1>3. s <= v /\ v \in Int
  BY <1>0, Ordered, Divided
<1>4. t < r
  OBVIOUS
<1> HIDE DEF q, r, s, t, v
<1>5. s - q >= 1
  <2>1. SUFFICES ASSUME q - s >= 0 PROVE FALSE
    BY <1>1, <1>2
  <2>2. PerRev * (q - s) >= 0 /\ PerRev * (q - s) = PerRev * q - PerRev * s
    BY <1>0, <1>1, <1>2, <2>1
  <2> DEFINE a == PerRev * q
             b == PerRev * s
  <2>3. a \in Int /\ b \in Int /\ a - b >= 0 /\ x = a + r /\ y = b + t
    BY <1>0, <1>1, <1>2, <2>2
  <2> HIDE DEF a, b
  <2> QED  BY <1>1, <1>2, <1>4, <2>3
<1>6. v - (q + 1) >= 0
  BY <1>1, <1>2, <1>3, <1>5
<1>7. PerRev * (v - (q + 1)) >= 0
  BY <1>0, <1>1, <1>3, <1>6
<1>8. PerRev * (v - (q + 1)) = PerRev * v - PerRev * q - PerRev
  BY <1>0, <1>1, <1>3
<1> DEFINE a == PerRev * q
           b == PerRev * v
<1>9. a \in Int /\ b \in Int /\ b - a - PerRev >= 0 /\ x = a + r
  BY <1>0, <1>1, <1>3, <1>7, <1>8
<1> HIDE DEF a, b
<1>10. b > x
  BY <1>0, <1>1, <1>9
<1> QED  BY <1>10 DEF b, v

\* Points that begin at zero and are no more than a turn.
LEMMA RisingFromZero ==
  ASSUME NEW W, NEW period \in {0, 1}, NEW x \in Int, Run(W, period, x), Len(W) <= PerRev,
         FirstAtZero(W)
  PROVE  Rising(W)
<1>0. PerRev \in Nat \ {0} /\ period \in Nat
  BY CircleTyped
<1>1. W \in Seq(Int) /\ Len(W) \in Nat /\ \A i \in 1..Len(W) : W[i] = At(period, x + (i - 1))
  BY LenProperties DEF Run
<1>2. Len(W) # 0
  BY <1>1, EmptySeq DEF FirstAtZero
<1> DEFINE q == x \div PerRev
           b == PerRev * q
<1>3. x % PerRev = 0
  <2>1. 1 \in 1..Len(W) /\ x + (1 - 1) = x
    BY <1>1, <1>2
  <2>2. W[1] = At(period, x)
    BY <1>1, <2>1
  <2> QED  BY <1>0, <2>2, PlaceLaw DEF FirstAtZero
<1>4. b \in Int /\ q \in Int /\ x = b
  <2> DEFINE r == x % PerRev
  <2>1. b \in Int /\ q \in Int /\ x = b + r /\ r = 0
    BY <1>0, <1>3, Divided
  <2> HIDE DEF b, q, r
  <2> QED  BY <2>1
<1>5. \A i \in 1..Len(W) : (x + (i - 1)) \div PerRev = q
  <2> TAKE i \in 1..Len(W)
  <2> DEFINE y == x + (i - 1)
             r == i - 1
  <2>1. r \in 0..PerRev - 1
    BY <1>0, <1>1
  <2> HIDE DEF r
  <2>2. y = PerRev * q + r
    BY <1>4 DEF r
  <2> HIDE DEF y, q
  <2>3. y \div PerRev = q
    BY <1>0, <1>4, <2>1, <2>2, Quotient, Zenon
  <2> QED  BY <2>3 DEF y
<1> HIDE DEF q
<1>6. ASSUME NEW i \in 1..Len(W), NEW j \in 1..Len(W), i < j
      PROVE  Revolution(W[i]) = Revolution(W[j]) /\ Angle(W[i]) < Angle(W[j])
  <2> DEFINE y == x + (i - 1)
             z == x + (j - 1)
  <2>1. y \in Int /\ z \in Int /\ y < z
    BY <1>1, <1>6
  <2>2. y \div PerRev = z \div PerRev
    BY <1>5
  <2>3. W[i] = At(period, y) /\ W[j] = At(period, z)
    BY <1>1
  <2> HIDE DEF y, z
  <2> QED  BY <2>1, <2>2, <2>3, SameTurn
<1> QED  BY <1>6 DEF Rising

\* Points that rise, and more of the same turn.
LEMMA RisingMore ==
  ASSUME NEW T \in Seq(Int), T # <<>>, NEW period \in {0, 1}, NEW c \in Int, NEW x \in Int,
         T[Len(T)] = At(period, c), Rising(T), c < x, NEW W, Run(W, period, x),
         \A i \in 1..Len(W) : (x + (i - 1)) \div PerRev = c \div PerRev
  PROVE  Rising(T \o W)
<1>0. W \in Seq(Int) /\ Len(W) \in Nat /\ Len(T) \in Nat /\ \A i \in 1..Len(W) : W[i] = At(period, x + (i - 1))
  BY LenProperties DEF Run
<1>1. Len(T) # 0 /\ Len(T) \in 1..Len(T)
  <2>1. Len(T) # 0
    BY EmptySeq
  <2> QED  BY <1>0, <2>1
<1> DEFINE Y == T \o W
           n == Len(T)
           k == Len(W)
           z == At(period, c)
<1>2. Len(Y) = n + k /\ \A i \in 1..n + k : Y[i] = IF i <= n THEN T[i] ELSE W[i - n]
  BY <1>0, ConcatProperties
<1>3. \A i \in 1..n + k : i <= n => i \in 1..n /\ Y[i] = T[i]
  <2>1. \A i \in 1..n + k : i <= n => i \in 1..n
    <3> HIDE DEF n, k
    <3> QED  BY <1>0
  <2> QED  BY <1>2, <2>1
<1>4. \A i \in 1..n + k : ~(i <= n) => i - n \in 1..k /\ Y[i] = W[i - n]
  <2>1. \A i \in 1..n + k : ~(i <= n) => i - n \in 1..k
    <3> HIDE DEF n, k
    <3>1. n \in Nat /\ k \in Nat
      BY <1>0 DEF n, k
    <3> QED  BY <3>1
  <2> QED  BY <1>2, <2>1
<1>5. \A i \in 1..k : Revolution(z) = Revolution(W[i]) /\ Angle(z) < Angle(W[i])
  <2> TAKE i \in 1..k
  <2> DEFINE y == x + (i - 1)
  <2>1. y \in Int /\ c < y
    BY <1>0
  <2>2. W[i] = At(period, y) /\ c \div PerRev = y \div PerRev
    BY <1>0
  <2> HIDE DEF y
  <2> QED  BY <2>1, <2>2, SameTurn
<1>6. \A i, j \in 1..k : i < j => Revolution(W[i]) = Revolution(W[j]) /\ Angle(W[i]) < Angle(W[j])
  <2> SUFFICES ASSUME NEW i \in 1..k, NEW j \in 1..k, i < j
               PROVE  Revolution(W[i]) = Revolution(W[j]) /\ Angle(W[i]) < Angle(W[j])
    OBVIOUS
  <2> DEFINE y == x + (i - 1)
             v == x + (j - 1)
  <2>1. y \in Int /\ v \in Int /\ y < v
    BY <1>0
  <2>2. y \div PerRev = v \div PerRev
    BY <1>0
  <2>3. W[i] = At(period, y) /\ W[j] = At(period, v)
    BY <1>0
  <2> HIDE DEF y, v
  <2> QED  BY SMTT(30), <2>1, <2>2, <2>3, SameTurn
<1>7. \A i \in 1..n : i < n => Revolution(T[i]) = Revolution(z) /\ Angle(T[i]) < Angle(z)
  BY <1>1 DEF Rising
<1>8. /\ \A i \in 1..n : T[i] \in Int /\ Angle(T[i]) \in Int
      /\ z \in Int /\ Angle(z) \in Int
      /\ \A i \in 1..k : W[i] \in Int /\ Angle(W[i]) \in Int
  <2>0. PerRev \in Nat \ {0}
    BY CircleTyped
  <2>1. \A p \in Int : Angle(p) \in Int
    BY <2>0 DEF Angle
  <2>2. \A i \in 1..n : T[i] \in Int
    BY ElementOfSeq
  <2>3. \A i \in 1..k : W[i] \in Int
    BY <1>0, ElementOfSeq
  <2>4. z \in Int
    BY <1>1, <2>2
  <2> QED  BY <2>1, <2>2, <2>3, <2>4
<1>9. ASSUME NEW i \in 1..n + k, NEW j \in 1..n + k, i < j
      PROVE  Revolution(Y[i]) = Revolution(Y[j]) /\ Angle(Y[i]) < Angle(Y[j])
  <2> HIDE DEF Y, n, k, z
  <2>1. CASE j <= n
    <3>1. i <= n
      BY <1>0, <1>9, <2>1 DEF n, k
    <3>2. i \in 1..n /\ j \in 1..n /\ Y[i] = T[i] /\ Y[j] = T[j]
      BY <1>3, <2>1, <3>1
    <3> QED  BY <1>9, <3>2 DEF Rising, n
  <2>2. CASE i <= n /\ ~(j <= n)
    <3>1. i \in 1..n /\ Y[i] = T[i] /\ j - n \in 1..k /\ Y[j] = W[j - n]
      BY <1>3, <1>4, <2>2
    <3>2. Revolution(z) = Revolution(Y[j]) /\ Angle(z) < Angle(Y[j]) /\ Angle(Y[j]) \in Int
      BY <1>5, <1>8, <3>1
    <3>3. T[n] = z
      BY DEF n, z
    <3>4. CASE i = n
      BY <3>1, <3>2, <3>3, <3>4
    <3>5. CASE i < n
      <4>1. Revolution(T[i]) = Revolution(z) /\ Angle(T[i]) < Angle(z)
        BY <1>7, <3>1, <3>5
      <4> QED  BY <1>8, <3>1, <3>2, <4>1
    <3>6. i = n \/ i < n
      BY <1>0, <2>2 DEF n
    <3> QED  BY <3>4, <3>5, <3>6
  <2>3. CASE ~(i <= n)
    <3>1. ~(j <= n)
      BY <1>0, <1>9, <2>3 DEF n, k
    <3>2. i - n \in 1..k /\ Y[i] = W[i - n] /\ j - n \in 1..k /\ Y[j] = W[j - n]
      BY <1>4, <2>3, <3>1
    <3>3. i - n < j - n
      BY <1>0, <1>9 DEF n, k
    <3> QED  BY <1>6, <3>2, <3>3
  <2> QED  BY <2>1, <2>2, <2>3
<1> HIDE DEF Y
<1>10. Rising(Y)
  BY <1>2, <1>9 DEF Rising
<1> QED  BY <1>10 DEF Y

\* Places whose angles do not fall are of one turn.
LEMMA NoFall ==
  ASSUME PerRev > 1, NEW x \in Int, NEW k \in Nat,
         \A i \in 1..k : ~((x + (i - 1)) % PerRev > (x + i) % PerRev)
  PROVE  (x + k) \div PerRev = x \div PerRev
<1> DEFINE q == x \div PerRev
           y == x + k
           s == y \div PerRev
           b == PerRev * (q + 1)
<1>0. PerRev \in Nat \ {0}
  BY CircleTyped
<1>1. q \in Int /\ x < b /\ b \in Int /\ y \in Int /\ x <= y /\ b = PerRev * q + PerRev /\ PerRev * q \in Int
  <2> DEFINE r == x % PerRev
             a == PerRev * q
  <2>1. q \in Int /\ r \in 0..PerRev - 1 /\ x = a + r /\ a \in Int
    BY <1>0, Divided
  <2>2. b = a + PerRev
    <3> HIDE DEF q
    <3> QED  BY <1>0, <2>1
  <2> HIDE DEF q, r, a, b
  <2>3. x < b /\ b \in Int /\ y \in Int /\ x <= y
    BY <1>0, <2>1, <2>2
  <2> QED  BY <2>1, <2>2, <2>3 DEF a
<1>2. CASE y < b
  <2>1. PerRev * q <= x
    <3> DEFINE r == x % PerRev
               a == PerRev * q
    <3>1. r \in 0..PerRev - 1 /\ x = a + r /\ a \in Int
      BY <1>0, Divided
    <3> HIDE DEF r, a
    <3>2. a <= x
      BY <1>0, <3>1
    <3> QED  BY <3>2 DEF a
  <2> DEFINE a == PerRev * q
  <2>2. a <= y
    <3>1. a <= x /\ a \in Int
      BY <1>1, <2>1
    <3> HIDE DEF a, y
    <3> QED  BY <1>1, <3>1
  <2> HIDE DEF q, y
  <2>3. y \div PerRev = q
    BY <1>0, <1>1, <1>2, <2>2, Between
  <2> QED  BY <2>3 DEF q, y
<1>3. CASE y >= b
  <2> DEFINE i == b - x
  <2>1. i \in 1..k /\ x + i = b /\ x + (i - 1) = b - 1
    <3> HIDE DEF b
    <3> QED  BY <1>1, <1>3
  <2>2. b % PerRev = 0
    <3> DEFINE o == q + 1
    <3>1. o \in Int /\ 0 \in 0..PerRev - 1 /\ b = PerRev * o + 0
      BY <1>0, <1>1
    <3> HIDE DEF o, b
    <3> QED  BY <1>0, <3>1, Quotient, Zenon
  <2>3. (b - 1) % PerRev = PerRev - 1
    <3> DEFINE l == PerRev - 1
               v == b - 1
               a == PerRev * q
    <3>1. l \in 0..PerRev - 1
      BY <1>0
    <3>2. v = a + l
      <4>1. b = a + PerRev /\ a \in Int
        BY <1>1
      <4> HIDE DEF a, b
      <4> QED  BY <1>0, <4>1
    <3> HIDE DEF l, v, q
    <3>3. v % PerRev = l
      BY <1>0, <1>1, <3>1, <3>2, Quotient, Zenon
    <3> QED  BY <3>3 DEF l, v
  <2>4. ~((b - 1) % PerRev > b % PerRev)
    BY <2>1
  <2> QED  BY <1>0, <2>2, <2>3, <2>4
<1> HIDE DEF y, b
<1> QED  BY <1>1, <1>2, <1>3 DEF y

\* The hypothesis, in numbers.
LEMMA LongFacts ==
  ASSUME RevolutionsAreLong
  PROVE  /\ WireLimit \in Nat /\ WireLimit >= 3 /\ Backlog \in Nat /\ Backlog >= 1
         /\ 3 * Backlog <= 2 * WireLimit - 1 /\ 2 * WireLimit - 1 < 3 * (Backlog + 1)
         /\ MaxDamage \in Nat /\ Delay \in Nat /\ PerRev > 1 /\ PerFrame <= PerRev
<1>0. PerFrame \in Nat \ {0} /\ PerRev \in Nat \ {0} /\ MaxDamage \in Nat /\ Delay \in Nat /\ WireLimit \in Nat
  BY LidarAssumption
<1>1. WireLimit >= 3
  BY <1>0 DEF RevolutionsAreLong, FrameSize
<1> DEFINE n == 2 * WireLimit - 1
           q == n \div 3
           r == n % 3
<1>2. q \in Int /\ 3 * q \in Int /\ r \in 0..2 /\ n = 3 * q + r
  <2>1. n \in Int /\ 3 \in Nat \ {0}
    BY <1>0
  <2> HIDE DEF n
  <2>2. n \div 3 \in Int /\ 3 * (n \div 3) \in Int /\ n % 3 \in 0..3 - 1 /\ n = 3 * (n \div 3) + (n % 3)
    BY <2>1, Divided
  <2> QED  BY <2>2
<1>3. Backlog = q
  BY DEF Backlog, FrameSize
<1> HIDE DEF q, r
<1>4. q \in Nat /\ q >= 1 /\ 3 * q <= 2 * WireLimit - 1 /\ 2 * WireLimit - 1 < 3 * (q + 1)
  BY <1>0, <1>1, <1>2
<1> DEFINE b == PerFrame * MaxDamage
<1>5. b \in Nat /\ b + 1 < PerRev
  BY <1>0 DEF RevolutionsAreLong
<1>6. PerRev > 1
  <2> HIDE DEF b
  <2> QED  BY <1>0, <1>5
<1> DEFINE more == q - 1 + Delay + MaxDamage
<1>7. more \in Nat /\ q + Delay + MaxDamage = more + 1
  BY <1>0, <1>4
<1> HIDE DEF more
<1>8. PerFrame * (more + 1) <= PerRev
  BY <1>3, <1>7 DEF RevolutionsAreLong
<1>9. PerFrame * (more + 1) >= PerFrame
  BY <1>0, <1>7
<1>10. PerFrame <= PerRev
  BY <1>0, <1>7, <1>8, <1>9
<1> QED  BY <1>0, <1>1, <1>3, <1>4, <1>6, <1>10

\* Where the angle falls.
LEMMA WrapLaw ==
  ASSUME NEW W \in Seq(Int), Len(W) = PerFrame, last_angle \in Int, NEW w, w = Wrap(W)
  PROVE  /\ w \in 0..PerFrame
         /\ w = 0 => \A i \in 1..PerFrame :
              ~((IF i = 1 THEN last_angle ELSE Angle(W[i - 1])) > Angle(W[i]))
         /\ w # 0 => /\ (IF w = 1 THEN last_angle ELSE Angle(W[w - 1])) > Angle(W[w])
                     /\ \A i \in 1..w - 1 :
                          ~((IF i = 1 THEN last_angle ELSE Angle(W[i - 1])) > Angle(W[i]))
<1> DEFINE before(i) == IF i = 1 THEN last_angle ELSE Angle(W[i - 1])
           falls == {i \in 1..PerFrame : before(i) > Angle(W[i])}
<1>0. PerFrame \in Nat \ {0}
  BY CircleTyped
<1>1. w = IF falls = {} THEN 0 ELSE Min(falls)
  BY DEF Wrap
<1>2. CASE falls = {}
  <2>1. w = 0
    BY <1>1, <1>2
  <2>2. \A i \in 1..PerFrame : ~((IF i = 1 THEN last_angle ELSE Angle(W[i - 1])) > Angle(W[i]))
    <3> TAKE i \in 1..PerFrame
    <3>1. i \notin falls
      BY <1>2
    <3> QED  BY <3>1
  <2>3. w \in 0..PerFrame
    BY <1>0, <2>1
  <2> QED  BY <2>1, <2>2, <2>3
<1>3. CASE falls # {}
  <2>1. PICK m \in falls : \A n \in falls : m <= n
    <3>1. falls \in SUBSET Nat
      BY <1>0
    <3> HIDE DEF falls
    <3> QED  BY <1>3, <3>1, LeastOf
  <2>2. Min(falls) \in falls /\ \A n \in falls : Min(falls) <= n
    BY <2>1 DEF Min
  <2>3. w \in falls /\ \A n \in falls : w <= n
    BY <1>1, <1>3, <2>2
  <2>4. w \in 1..PerFrame /\ before(w) > Angle(W[w])
    BY <2>3
  <2>5. \A i \in 1..w - 1 : ~(before(i) > Angle(W[i]))
    <3> TAKE i \in 1..w - 1
    <3>1. i \in 1..PerFrame /\ ~(w <= i)
      BY <1>0, <2>4
    <3>2. i \notin falls
      BY <2>3, <3>1
    <3> QED  BY <3>1, <3>2
  <2> QED  BY <1>0, <2>4, <2>5
<1> QED  BY <1>2, <1>3

LastAngle(T) == IF T = <<>> THEN 0 ELSE Angle(T[Len(T)])

\* The points of a frame before the fall w.
Free(w) == IF w = 0 THEN PerFrame ELSE w - 1

\* A frame at the place x, behind points T whose last is at c, falls at its point w, or nowhere.
Wraps(T, c, x, w) ==
  /\ w \in 0..PerFrame
  /\ w # 1 /\ T # <<>> => ~(c % PerRev > x % PerRev)
  /\ w = 1 => T # <<>> /\ c % PerRev > x % PerRev
  /\ \A i \in 1..Free(w) - 1 : ~((x + (i - 1)) % PerRev > (x + i) % PerRev)
  /\ w > 1 => (x + (w - 2)) % PerRev > (x + (w - 1)) % PerRev

LEMMA WrapPlaces ==
  ASSUME NEW T \in Seq(Int), NEW period \in {0, 1}, NEW c \in Int, NEW x \in Int,
         T # <<>> => T[Len(T)] = At(period, c), last_angle = LastAngle(T),
         NEW w, w = Wrap(Points(At(period, x)))
  PROVE  Wraps(T, c, x, w)
<1> DEFINE p == At(period, x)
           W == Points(p)
<1>0. PerFrame \in Nat \ {0} /\ PerRev \in Nat \ {0} /\ period \in Nat
  BY CircleTyped
<1>1. Len(W) = PerFrame /\ W \in Seq(Int) /\ \A i \in 1..PerFrame : W[i] = At(period, x + (i - 1))
  <2>1. p = At(period, x)
    OBVIOUS
  <2> HIDE DEF p
  <2>2. Len(Points(p)) = PerFrame /\ Run(Points(p), period, x)
    BY <2>1, PointsRun
  <2> QED  BY <2>2 DEF Run
<1>2. \A i \in 1..PerFrame : Angle(W[i]) = (x + (i - 1)) % PerRev
  <2> TAKE i \in 1..PerFrame
  <2> DEFINE y == x + (i - 1)
  <2>1. y \in Int /\ W[i] = At(period, y)
    BY <1>0, <1>1
  <2> HIDE DEF y
  <2>2. Angle(W[i]) = y % PerRev
    BY <1>0, <2>1, PlaceLaw
  <2> QED  BY <2>2 DEF y
<1>3. last_angle = IF T = <<>> THEN 0 ELSE c % PerRev
  <2>1. Angle(At(period, c)) = c % PerRev
    BY <1>0, PlaceLaw
  <2> QED  BY <2>1 DEF LastAngle
<1>4. last_angle \in Int /\ x % PerRev \in 0..PerRev - 1 /\ c % PerRev \in Int
  <2>1. x % PerRev \in 0..PerRev - 1 /\ c % PerRev \in 0..PerRev - 1
    BY <1>0, Divided
  <2> QED  BY <1>3, <2>1
<1>5. /\ w \in 0..PerFrame
      /\ w = 0 => \A i \in 1..PerFrame :
           ~((IF i = 1 THEN last_angle ELSE Angle(W[i - 1])) > Angle(W[i]))
      /\ w # 0 => /\ (IF w = 1 THEN last_angle ELSE Angle(W[w - 1])) > Angle(W[w])
                  /\ \A i \in 1..w - 1 :
                       ~((IF i = 1 THEN last_angle ELSE Angle(W[i - 1])) > Angle(W[i]))
  <2>1. w = Wrap(W)
    OBVIOUS
  <2> HIDE DEF W
  <2> QED  BY <1>1, <1>4, <2>1, WrapLaw
<1> HIDE DEF W
<1>6. Free(w) \in 0..PerFrame
  BY <1>0, <1>5 DEF Free
<1>7. \A i \in 1..Free(w) : ~((IF i = 1 THEN last_angle ELSE Angle(W[i - 1])) > Angle(W[i]))
  BY <1>5 DEF Free
<1>8. \A i \in 1..Free(w) - 1 : ~((x + (i - 1)) % PerRev > (x + i) % PerRev)
  <2> TAKE i \in 1..Free(w) - 1
  <2>1. i + 1 \in 1..Free(w) /\ i + 1 # 1 /\ i + 1 - 1 = i /\ i \in 1..PerFrame /\ i + 1 \in 1..PerFrame
    BY <1>0, <1>6
  <2>2. ~(Angle(W[i]) > Angle(W[i + 1]))
    BY <1>7, <2>1
  <2>3. x + (i + 1 - 1) = x + i
    BY <2>1
  <2> QED  BY <1>2, <2>1, <2>2, <2>3
<1>9. Angle(W[1]) = x % PerRev
  <2>1. 1 \in 1..PerFrame /\ x + (1 - 1) = x
    BY <1>0
  <2> QED  BY <1>2, <2>1
<1>10. w # 1 /\ T # <<>> => ~(c % PerRev > x % PerRev)
  <2>1. w # 1 => 1 \in 1..Free(w)
    BY <1>0, <1>5 DEF Free
  <2> QED  BY <1>3, <1>7, <1>9, <2>1
<1>11. w = 1 => T # <<>> /\ c % PerRev > x % PerRev
  BY <1>3, <1>4, <1>5, <1>9
<1>12. w > 1 => (x + (w - 2)) % PerRev > (x + (w - 1)) % PerRev
  <2> HAVE w > 1
  <2>1. w - 1 \in 1..PerFrame /\ w \in 1..PerFrame /\ x + (w - 1 - 1) = x + (w - 2) /\ w # 1 /\ w # 0
    BY <1>0, <1>5
  <2>2. Angle(W[w - 1]) > Angle(W[w])
    BY <1>5, <2>1
  <2> QED  BY <1>2, <2>1, <2>2
<1> QED  BY <1>5, <1>8, <1>10, <1>11, <1>12 DEF Wraps

\* The k points from the place x on are of the turn of the place c.
OfTurn(x, k, c) == \A i \in 1..k : (x + (i - 1)) \div PerRev = c \div PerRev

\* The points before the fall are of the turn of the last point.
LEMMA FreePoints ==
  ASSUME RevolutionsAreLong, NEW T, T # <<>>, NEW c \in Int, NEW x \in Int, c < x, x - c < PerRev,
         NEW w, Wraps(T, c, x, w)
  PROVE  OfTurn(x, Free(w), c)
<1> SUFFICES \A i \in 1..Free(w) : (x + (i - 1)) \div PerRev = c \div PerRev
  BY DEF OfTurn
<1>0. PerFrame \in Nat \ {0} /\ PerRev \in Nat \ {0} /\ PerRev > 1
  BY CircleTyped, LongFacts
<1>1. w \in 0..PerFrame /\ Free(w) \in 0..PerFrame
  BY <1>0 DEF Wraps, Free
<1> TAKE i \in 1..Free(w)
<1>2. w # 1
  BY <1>0, <1>1 DEF Free
<1>3. x \div PerRev = c \div PerRev
  <2>1. ~(c % PerRev > x % PerRev)
    BY <1>2 DEF Wraps
  <2>2. c % PerRev \in Int /\ x % PerRev \in Int
    BY <1>0, Divided
  <2>3. \/ x \div PerRev = c \div PerRev
        \/ x % PerRev < c % PerRev
    BY <1>0, Apart
  <2> QED  BY <2>1, <2>2, <2>3
<1>4. i - 1 \in Nat /\ \A h \in 1..i - 1 : h \in 1..Free(w) - 1
  BY <1>1
<1>5. \A h \in 1..i - 1 : ~((x + (h - 1)) % PerRev > (x + h) % PerRev)
  BY <1>4 DEF Wraps
<1> DEFINE k == i - 1
<1>6. (x + k) \div PerRev = x \div PerRev
  <2> HIDE DEF k
  <2> QED  BY <1>0, <1>4, <1>5, NoFall DEF k
<1> QED  BY <1>3, <1>6

\* Points that rise if they begin at zero do so with those before the fall.
LEMMA TakenRises ==
  ASSUME RevolutionsAreLong, NEW T \in Seq(Int), NEW period \in {0, 1}, NEW c \in Int, NEW x \in Int,
         c < x, x - c < PerRev, NEW w, Wraps(T, c, x, w),
         T # <<>> => T[Len(T)] = At(period, c), FirstAtZero(T) => Rising(T),
         NEW W, Run(W, period, x), Len(W) = Free(w)
  PROVE  FirstAtZero(T \o W) => Rising(T \o W)
<1>0. PerFrame \in Nat \ {0} /\ PerRev \in Nat \ {0} /\ PerFrame <= PerRev
  BY CircleTyped, LongFacts
<1>1. Free(w) \in 0..PerFrame /\ W \in Seq(Int)
  BY <1>0 DEF Wraps, Free, Run
<1>2. CASE T = <<>>
  <2>1. T \o W = W
    BY <1>1, <1>2, ConcatEmptySeq
  <2>2. Len(W) <= PerRev
    BY <1>0, <1>1
  <2>3. FirstAtZero(W) => Rising(W)
    BY <2>2, RisingFromZero
  <2> QED  BY <2>1, <2>3
<1>3. CASE T # <<>>
  <2> HAVE FirstAtZero(T \o W)
  <2>1. T[1] = (T \o W)[1]
    <3>1. Len(T) \in Nat /\ Len(T) # 0 /\ Len(W) \in Nat
      BY <1>1, <1>3, LenProperties, EmptySeq
    <3>2. 1 \in 1..Len(T) + Len(W) /\ 1 <= Len(T)
      BY <3>1
    <3>3. \A i \in 1..Len(T) + Len(W) : (T \o W)[i] = IF i <= Len(T) THEN T[i] ELSE W[i - Len(T)]
      BY <1>1, ConcatProperties
    <3> QED  BY <3>2, <3>3
  <2>2. Rising(T)
    BY <1>3, <2>1 DEF FirstAtZero
  <2>3. \A i \in 1..Len(W) : (x + (i - 1)) \div PerRev = c \div PerRev
    <3>1. OfTurn(x, Free(w), c)
      BY <1>3, FreePoints
    <3> QED  BY <3>1 DEF OfTurn
  <2> QED  BY <1>3, <2>2, <2>3, RisingMore
<1> QED  BY <1>2, <1>3

\* What is left of the turn of the last point c, once l frames' time of the copy is over.
RoomLeft(u, c, l) == u + PerFrame * (Delay - l) <= PerRev * (c \div PerRev + 1)

\* While there is room no angle falls.
LEMMA RoomKeeps ==
  ASSUME NEW u \in Int, NEW c \in Int, NEW l \in 0..Delay, RoomLeft(u, c, l),
         NEW x \in Int, c < x, x + PerFrame <= u
  PROVE  /\ RoomLeft(u, x + PerFrame - 1, l)
         /\ \A T, w : Wraps(T, c, x, w) /\ T # <<>> => w = 0
<1> DEFINE q == c \div PerRev
           b == PerRev * (q + 1)
           e == PerFrame * (Delay - l)
           a == PerRev * q
<1>0. PerFrame \in Nat \ {0} /\ PerRev \in Nat \ {0} /\ Delay \in Nat
  BY CircleTyped, LidarAssumption
<1>1. e \in Nat
  <2>1. Delay - l \in Nat
    BY <1>0
  <2> QED  BY <1>0, <2>1
<1>2. q \in Int /\ a \in Int /\ a <= c /\ b \in Int
  <2> DEFINE r == c % PerRev
  <2>1. q \in Int /\ a \in Int /\ r \in 0..PerRev - 1 /\ c = a + r
    BY <1>0, Divided
  <2>2. b \in Int
    <3> HIDE DEF q
    <3> QED  BY <1>0, <2>1
  <2> HIDE DEF a, r, q, b
  <2> QED  BY <1>0, <2>1, <2>2
<1>3. u + e <= b
  BY DEF RoomLeft
<1>4. \A y \in Int : c <= y /\ y < u => y \div PerRev = q
  <2> TAKE y \in Int
  <2> HAVE c <= y /\ y < u
  <2>1. a <= y /\ y < b
    <3> HIDE DEF a, b, e, q
    <3> QED  BY <1>1, <1>2, <1>3
  <2> HIDE DEF q
  <2> QED  BY <1>0, <1>2, <2>1, Between
<1>5. RoomLeft(u, x + PerFrame - 1, l)
  <2> DEFINE y == x + PerFrame - 1
  <2>1. y \in Int /\ c <= y /\ y < u
    BY <1>0
  <2>2. y \div PerRev = q
    BY <1>4, <2>1
  <2> QED  BY <1>3, <2>2 DEF RoomLeft
<1>6. ASSUME NEW T, NEW w, Wraps(T, c, x, w), T # <<>>, w # 0
      PROVE  FALSE
  <2>0. w \in 1..PerFrame
    BY <1>6 DEF Wraps
  <2>1. CASE w = 1
    <3>1. c % PerRev > x % PerRev
      BY <1>6, <2>1 DEF Wraps
    <3>2. x \div PerRev = q /\ c \div PerRev = q
      <4>1. x < u /\ c <= x
        BY <1>0
      <4> QED  BY <1>4, <4>1
    <3>3. c % PerRev < x % PerRev
      <4>1. /\ c % PerRev \in Int /\ x % PerRev \in Int
            /\ c = PerRev * q + (c % PerRev) /\ x = PerRev * q + (x % PerRev)
        <5>1. c % PerRev \in 0..PerRev - 1 /\ c = PerRev * (c \div PerRev) + (c % PerRev)
          BY <1>0, Divided
        <5>2. x % PerRev \in 0..PerRev - 1 /\ x = PerRev * (x \div PerRev) + (x % PerRev)
          BY <1>0, Divided
        <5>3. c % PerRev \in Int /\ x % PerRev \in Int
          BY <1>0, <5>1, <5>2
        <5> QED  BY <3>2, <5>1, <5>2, <5>3, Zenon
      <4> DEFINE r == c % PerRev
                 t == x % PerRev
      <4>2. r \in Int /\ t \in Int /\ c = a + r /\ x = a + t
        BY <4>1
      <4> HIDE DEF r, t, a
      <4>3. r < t
        BY <1>2, <4>2
      <4> QED  BY <4>3 DEF r, t
    <3>4. c % PerRev \in Int /\ x % PerRev \in Int
      BY <1>0, Divided
    <3> QED  BY <3>1, <3>3, <3>4
  <2>2. CASE w > 1
    <3> DEFINE y == x + (w - 2)
               z == x + (w - 1)
    <3>1. y % PerRev > z % PerRev
      BY <1>6, <2>2 DEF Wraps
    <3>2. y \in Int /\ z \in Int /\ y < z /\ c <= y /\ z < u /\ c <= z /\ y < u
      BY <1>0, <2>0, <2>2
    <3>3. y \div PerRev = q /\ z \div PerRev = q
      BY <1>4, <3>2
    <3> HIDE DEF y, z
    <3>4. /\ y % PerRev \in Int /\ z % PerRev \in Int
          /\ y = PerRev * q + (y % PerRev) /\ z = PerRev * q + (z % PerRev)
      <4>1. y % PerRev \in 0..PerRev - 1 /\ y = PerRev * (y \div PerRev) + (y % PerRev)
        BY <1>0, <3>2, Divided
      <4>2. z % PerRev \in 0..PerRev - 1 /\ z = PerRev * (z \div PerRev) + (z % PerRev)
        BY <1>0, <3>2, Divided
      <4>3. y % PerRev \in Int /\ z % PerRev \in Int
        BY <1>0, <4>1, <4>2
      <4> QED  BY <3>3, <4>1, <4>2, <4>3, Zenon
    <3> DEFINE r == y % PerRev
               t == z % PerRev
    <3>5. r \in Int /\ t \in Int /\ y = a + r /\ z = a + t /\ r > t
      BY <3>1, <3>4
    <3> HIDE DEF r, t, a
    <3> QED  BY <1>2, <3>2, <3>5
  <2> QED  BY <1>0, <2>0, <2>1, <2>2
<1> QED  BY <1>5, <1>6

\* There is room when the angle falls.
LEMMA RoomMade ==
  ASSUME RevolutionsAreLong, NEW u \in Int, NEW c \in Int, NEW x \in Int, c < x,
         NEW T, NEW w, Wraps(T, c, x, w), w # 0,
         NEW n \in 0..Backlog, NEW d \in 0..MaxDamage, u - c - 1 <= PerFrame * n + PerFrame * d
  PROVE  RoomLeft(u, x + PerFrame - 1, 0)
<1> DEFINE v == x + PerFrame - 1
           q == v \div PerRev
           a == PerRev * q
           s == PerFrame * n
           t == PerFrame * d
           e == PerFrame * Delay
<1>0. PerFrame \in Nat \ {0} /\ PerRev \in Nat \ {0} /\ Delay \in Nat /\ Backlog \in Nat /\ MaxDamage \in Nat
  BY CircleTyped, LongFacts
<1>1. v \in Int /\ q \in Int /\ a \in Int
  <2>1. v \in Int
    BY <1>0
  <2> HIDE DEF v
  <2> QED  BY <1>0, <2>1, Divided
<1>2. a > c
  <2>0. w \in 1..PerFrame
    BY DEF Wraps
  <2>1. CASE w = 1
    <3>1. x % PerRev < c % PerRev
      <4>1. c % PerRev > x % PerRev
        BY <2>1 DEF Wraps
      <4> QED  BY <4>1
    <3>2. x <= v
      BY <1>0
    <3> HIDE DEF v
    <3> QED  BY <1>1, <3>1, <3>2, LaterTurn
  <2>2. CASE w > 1
    <3> DEFINE y == x + (w - 2)
               z == x + (w - 1)
    <3>1. z % PerRev < y % PerRev
      <4>1. y % PerRev > z % PerRev
        BY <2>2 DEF Wraps
      <4> QED  BY <4>1
    <3>2. y \in Int /\ z \in Int /\ y < z /\ z <= v /\ c < y
      BY <1>0, <2>0, <2>2
    <3> HIDE DEF v, y, z
    <3>3. a > y
      BY <1>1, <3>1, <3>2, LaterTurn
    <3> HIDE DEF a
    <3> QED  BY <1>1, <3>2, <3>3
  <2> QED  BY <1>0, <2>0, <2>1, <2>2
<1>3. s \in Nat /\ t \in Nat /\ e \in Nat /\ s + e + t <= PerRev
  <2>1. n + Delay + d <= Backlog + Delay + MaxDamage
    BY <1>0
  <2> DEFINE m == n + Delay + d
             h == Backlog + Delay + MaxDamage
  <2>2. m \in Nat /\ h \in Nat /\ m <= h
    BY <1>0, <2>1
  <2>3. PerFrame * h <= PerRev
    BY DEF RevolutionsAreLong
  <2>4. PerFrame * m = s + e + t /\ s \in Nat /\ t \in Nat /\ e \in Nat
    BY <1>0
  <2> DEFINE o == PerFrame * m
             k == PerFrame * h
  <2>5. o <= k /\ o \in Int /\ k \in Int
    <3> HIDE DEF m, h
    <3>1. h - m \in Nat
      BY <2>2
    <3>2. PerFrame * (h - m) >= 0 /\ PerFrame * (h - m) = PerFrame * h - PerFrame * m
      BY <1>0, <2>2, <3>1
    <3>3. PerFrame * h \in Int /\ PerFrame * m \in Int
      BY <1>0, <2>2
    <3> QED  BY <3>2, <3>3
  <2>6. o = s + e + t /\ k <= PerRev
    BY <2>3, <2>4
  <2> HIDE DEF o, k, s, t, e, m, h
  <2>7. s \in Nat /\ t \in Nat /\ e \in Nat
    BY <2>4
  <2> QED  BY <1>0, <2>5, <2>6, <2>7
<1>4. u - c - 1 <= s + t
  OBVIOUS
<1>5. PerRev * (q + 1) = a + PerRev
  <2> HIDE DEF q
  <2> QED  BY <1>0, <1>1
<1>6. PerFrame * (Delay - 0) = e
  BY <1>0
<1>7. u + e <= a + PerRev
  <2> HIDE DEF a, s, t, e, v
  <2> QED  BY <1>0, <1>1, <1>2, <1>3, <1>4
<1> QED  BY <1>5, <1>6, <1>7 DEF RoomLeft

-----------------------------------------------------------------------------
\* A frame is put together with the points before it.

\* Frames S behind points T, which rise if they begin at zero and are all of the period.
Chain(S, T, period, u, c, d, m, j, f) ==
  /\ period \in {0, 1} /\ u \in Int /\ c \in Int /\ d \in 0..MaxDamage
  /\ m \in 0..Len(T) /\ j \in 0..Len(S) /\ f \in [1..Len(S) -> Int]
  /\ Follows(S, T, period, u, c, d, m, j, f)
  /\ m = 0 /\ FirstAtZero(T) => Rising(T)

\* The first frame is taken; the points are then Y, and V is the scan that ends at the fall w.
Taken(S, T, Y, V, w, period, u, c, d, m, j) ==
  \E e \in Int, k \in Nat, i \in Nat, g \in [1..Len(Tail(S)) -> Int] :
    /\ Chain(Tail(S), Y, period, u, e, d, k, i, g)
    /\ k + i > 0 => m + j > 0
    /\ m + j = 0 /\ T # <<>> => \A l \in 0..Delay : RoomLeft(u, c, l) => w = 0 /\ RoomLeft(u, e, l)
    /\ m + j = 0 /\ w # 0 /\ Len(S) <= Backlog => RoomLeft(u, e, 0) /\ (FirstAtZero(V) => Rising(V))

\* What is left of points T and a frame's W that fall at w, or nowhere.
Remains(T, W, w, Y) ==
  /\ w \in 0..PerFrame /\ Y \in Seq(Int) /\ Len(Y) \in Nat /\ Len(Y) > 0
  /\ w # 0 => w - 1 \in 0..Len(W) /\ Len(Y) = PerFrame - (w - 1)
              /\ \A i \in 1..Len(Y) : w - 1 + i \in 1..PerFrame /\ Y[i] = W[w - 1 + i]
  /\ w = 0 => /\ Len(Y) = Len(T) + PerFrame
              /\ \A i \in 1..Len(T) : Y[i] = T[i]
              /\ \A i \in Len(T) + 1..Len(Y) : i - Len(T) \in 1..PerFrame /\ Y[i] = W[i - Len(T)]

LEMMA LeftOver ==
  ASSUME NEW T \in Seq(Int), last_angle = LastAngle(T), NEW W \in Seq(Int), Len(W) = PerFrame,
         NEW w, w = Wrap(W), NEW Y, Y = IF w = 0 THEN T \o W ELSE Drop(W, w - 1)
  PROVE  Remains(T, W, w, Y)
<1>0. PerFrame \in Nat \ {0} /\ PerRev \in Nat \ {0} /\ Len(T) \in Nat
  BY CircleTyped, LenProperties
<1>1. last_angle \in Int
  <2>1. CASE T = <<>>
    BY <2>1 DEF LastAngle
  <2>2. CASE T # <<>>
    <3>1. Len(T) # 0
      BY <2>2, EmptySeq
    <3>2. Len(T) \in 1..Len(T)
      BY <1>0, <3>1
    <3>3. T[Len(T)] \in Int
      BY <3>2, ElementOfSeq
    <3>4. \A p \in Int : Angle(p) \in Int
      BY <1>0 DEF Angle
    <3> QED  BY <2>2, <3>3, <3>4 DEF LastAngle
  <2> QED  BY <2>1, <2>2
<1>2. w \in 0..PerFrame
  BY <1>1, WrapLaw
<1>3. CASE w # 0
  <2>1. w - 1 \in 0..PerFrame - 1 /\ w - 1 \in 0..Len(W)
    BY <1>0, <1>2, <1>3
  <2>2. Y = Drop(W, w - 1)
    BY <1>3
  <2>3. /\ Y \in Seq(Int) /\ Len(Y) = PerFrame - (w - 1)
        /\ \A i \in 1..PerFrame - (w - 1) : Y[i] = W[w - 1 + i]
    BY ZenonT(30), <2>1, <2>2, DropLaw
  <2>4. Len(Y) \in Nat /\ Len(Y) > 0
    <3>1. PerFrame - (w - 1) \in Nat /\ PerFrame - (w - 1) > 0
      BY <1>0, <2>1
    <3> QED  BY <2>3, <3>1
  <2>5. \A i \in 1..PerFrame - (w - 1) : w - 1 + i \in 1..PerFrame
    BY <1>0, <2>1
  <2> QED  BY <1>2, <1>3, <2>1, <2>3, <2>4, <2>5 DEF Remains
<1>4. CASE w = 0
  <2>1. Y = T \o W
    BY <1>4
  <2>2. /\ Y \in Seq(Int) /\ Len(Y) = Len(T) + PerFrame
        /\ \A i \in 1..Len(T) + PerFrame : Y[i] = IF i <= Len(T) THEN T[i] ELSE W[i - Len(T)]
    <3>1. /\ Y \in Seq(Int) /\ Len(Y) = Len(T) + Len(W)
          /\ \A i \in 1..Len(T) + Len(W) : Y[i] = IF i <= Len(T) THEN T[i] ELSE W[i - Len(T)]
      BY ZenonT(30), <2>1, ConcatProperties
    <3> QED  BY <3>1
  <2> DEFINE n == Len(T)
  <2>3. /\ \A i \in 1..n : i \in 1..n + PerFrame /\ i <= n
        /\ \A i \in n + 1..n + PerFrame : i \in 1..n + PerFrame /\ ~(i <= n) /\ i - n \in 1..PerFrame
        /\ n + PerFrame \in Nat /\ n + PerFrame > 0
    <3> HIDE DEF n
    <3>1. n \in Nat
      BY <1>0 DEF n
    <3> QED  BY <1>0, <3>1
  <2> QED  BY <1>2, <1>4, <2>2, <2>3 DEF Remains
<1> QED  BY <1>3, <1>4

\* A frame of the period before.
LEMMA TakenOld ==
  ASSUME NEW S \in Seq(Int), NEW T \in Seq(Int), last_angle = LastAngle(T),
         NEW period, NEW u, NEW c, NEW d, NEW m, NEW j, NEW f,
         Chain(S, T, period, u, c, d, m, j, f), j > 0,
         NEW W, W = Points(S[1]), NEW w, w = Wrap(W), NEW Y, Y = IF w = 0 THEN T \o W ELSE Drop(W, w - 1),
         NEW V
  PROVE  Taken(S, T, Y, V, w, period, u, c, d, m, j)
<1>0. /\ period \in {0, 1} /\ u \in Int /\ c \in Int /\ d \in 0..MaxDamage /\ d \in Nat
      /\ m \in 0..Len(T) /\ j \in 1..Len(S) /\ f \in [1..Len(S) -> Int]
      /\ Follows(S, T, period, u, c, d, m, j, f)
      /\ MaxDamage \in Nat /\ Len(S) \in Nat /\ Len(T) \in Nat /\ m \in Nat
  <2>1. MaxDamage \in Nat /\ Len(S) \in Nat /\ Len(T) \in Nat
    BY LidarAssumption, LenProperties
  <2>2. /\ period \in {0, 1} /\ u \in Int /\ c \in Int /\ d \in 0..MaxDamage
        /\ m \in 0..Len(T) /\ j \in 0..Len(S) /\ f \in [1..Len(S) -> Int]
        /\ Follows(S, T, period, u, c, d, m, j, f)
    BY DEF Chain
  <2>3. j \in 1..Len(S) /\ d \in Nat /\ m \in Nat
    BY <2>1, <2>2
  <2> QED  BY <2>1, <2>2, <2>3
<1>1. S[1] \in Int /\ Period(S[1]) # period /\ 1 \in 1..j
  <2>1. 1 \in 1..Len(S) /\ 1 \in 1..j
    BY <1>0
  <2>2. \A i \in 1..j : Period(S[i]) # period
    BY <1>0 DEF Follows
  <2> QED  BY <2>1, <2>2, ElementOfSeq
<1>2. /\ W \in Seq(Int) /\ Len(W) = PerFrame
      /\ \A i \in 1..PerFrame : Period(W[i]) # period
  BY <1>1, PointsOld
<1>3. m = Len(T)
  <2>1. ~(m < Len(T))
    BY <1>0 DEF Follows
  <2> QED  BY <1>0, <2>1
<1>4. \A i \in 1..Len(T) : Period(T[i]) # period
  BY <1>0, <1>3 DEF Follows
<1>5. /\ w \in 0..PerFrame /\ Y \in Seq(Int) /\ Len(Y) \in Nat /\ Len(Y) > 0
      /\ w # 0 => \A i \in 1..Len(Y) : w - 1 + i \in 1..PerFrame /\ Y[i] = W[w - 1 + i]
      /\ w = 0 => /\ Len(Y) = Len(T) + PerFrame
                  /\ \A i \in 1..Len(T) : Y[i] = T[i]
                  /\ \A i \in Len(T) + 1..Len(Y) : i - Len(T) \in 1..PerFrame /\ Y[i] = W[i - Len(T)]
  <2>1. Remains(T, W, w, Y)
    BY <1>2, LeftOver
  <2> QED  BY <2>1 DEF Remains
<1>6. \A i \in 1..Len(Y) : Period(Y[i]) # period
  <2> TAKE i \in 1..Len(Y)
  <2>1. CASE w # 0
    BY <1>2, <1>5, <2>1
  <2>2. CASE w = 0
    <3>1. CASE i \in 1..Len(T)
      BY <1>4, <1>5, <2>2, <3>1
    <3>2. CASE i \in Len(T) + 1..Len(Y)
      BY <1>2, <1>5, <2>2, <3>2
    <3>3. i \in 1..Len(T) \/ i \in Len(T) + 1..Len(Y)
      BY <1>0, <1>5
    <3> QED  BY <3>1, <3>2, <3>3
  <2> QED  BY <2>1, <2>2
<1>7. /\ S # <<>> /\ j - 1 \in 0..Len(Tail(S))
      /\ \E g \in [1..Len(Tail(S)) -> Int] :
           Follows(Tail(S), Y, period, u, c, d, Len(Y), j - 1, g)
  <2>1. Y \in Seq(Int) /\ \A i \in 1..Len(Y) : Period(Y[i]) # period
    BY <1>5, <1>6
  <2>2. OldTaken(S, Y, period, u, c, d, j)
    BY ZenonT(30), <1>0, <2>1, FollowsOld
  <2> QED  BY <2>2 DEF OldTaken
<1>8. PICK g \in [1..Len(Tail(S)) -> Int] : Follows(Tail(S), Y, period, u, c, d, Len(Y), j - 1, g)
  BY <1>7
<1>9. Len(Y) \in 0..Len(Y) /\ Len(Y) # 0
  BY <1>5
<1>10. Chain(Tail(S), Y, period, u, c, d, Len(Y), j - 1, g)
  BY <1>0, <1>7, <1>8, <1>9 DEF Chain
<1>11. j - 1 \in Nat /\ m + j > 0 /\ ~(m + j = 0)
  BY <1>0
<1> QED  BY <1>0, <1>5, <1>10, <1>11 DEF Taken

\* A frame of the period.
LEMMA TakenNew ==
  ASSUME RevolutionsAreLong,
         NEW S \in Seq(Int), S # <<>>, NEW T \in Seq(Int), last_angle = LastAngle(T),
         NEW period, NEW u, NEW c, NEW d, NEW m, NEW f,
         Chain(S, T, period, u, c, d, m, 0, f),
         NEW W, W = Points(S[1]), NEW w, w = Wrap(W), NEW Y, Y = IF w = 0 THEN T \o W ELSE Drop(W, w - 1),
         NEW V, V = T \o SubSeq(W, 1, w - 1)
  PROVE  Taken(S, T, Y, V, w, period, u, c, d, m, 0)
<1> DEFINE x == f[1]
           e == x + PerFrame - 1
           k == IF w = 0 THEN m ELSE 0
<1>0. /\ period \in {0, 1} /\ period \in Nat /\ u \in Int /\ c \in Int /\ d \in 0..MaxDamage /\ d \in Nat
      /\ m \in 0..Len(T) /\ 0 \in 0..Len(S) /\ f \in [1..Len(S) -> Int]
      /\ Follows(S, T, period, u, c, d, m, 0, f)
      /\ m = 0 /\ FirstAtZero(T) => Rising(T)
      /\ MaxDamage \in Nat /\ Len(S) \in Nat /\ Len(T) \in Nat /\ m \in Nat
  <2>1. MaxDamage \in Nat /\ Len(S) \in Nat /\ Len(T) \in Nat
    BY LidarAssumption, LenProperties
  <2>2. /\ period \in {0, 1} /\ u \in Int /\ c \in Int /\ d \in 0..MaxDamage
        /\ m \in 0..Len(T) /\ 0 \in 0..Len(S) /\ f \in [1..Len(S) -> Int]
        /\ Follows(S, T, period, u, c, d, m, 0, f)
        /\ m = 0 /\ FirstAtZero(T) => Rising(T)
    BY DEF Chain
  <2>3. d \in Nat /\ m \in Nat /\ period \in Nat
    BY <2>1, <2>2
  <2> QED  BY <2>1, <2>2, <2>3
<1>0a. PerFrame \in Nat \ {0} /\ PerRev \in Nat \ {0} /\ PerFrame <= PerRev
  BY CircleTyped, LongFacts
<1>1. FirstFrame(S, x, period, u, c, d)
  BY <1>0, FrameEnds
<1>2. /\ x \in Int /\ S[1] = At(period, x) /\ c < x /\ x + PerFrame <= u
      /\ x - c <= 1 + PerFrame * d
      /\ u - c - 1 <= PerFrame * Len(S) + PerFrame * d
  BY <1>1 DEF FirstFrame
<1> HIDE DEF x
<1>3. W = Points(At(period, x)) /\ Len(W) = PerFrame /\ Run(W, period, x) /\ W \in Seq(Int)
  <2>1. W = Points(S[1]) /\ S[1] = At(period, x)
    BY <1>2
  <2>2. Len(Points(S[1])) = PerFrame /\ Run(Points(S[1]), period, x)
    BY <1>0, <1>2, PointsRun
  <2> QED  BY <2>1, <2>2 DEF Run
<1>4. x - c < PerRev
  <2> DEFINE b == PerFrame * d
             h == PerFrame * MaxDamage
  <2>1. x - c <= 1 + b /\ h + 1 < PerRev
    BY <1>2 DEF RevolutionsAreLong
  <2>2. b \in Int /\ h \in Int /\ b <= h
    <3>1. MaxDamage - d \in Nat
      BY <1>0
    <3>2. PerFrame * (MaxDamage - d) >= 0 /\ PerFrame * (MaxDamage - d) = h - b
      BY <1>0, <1>0a, <3>1
    <3>3. b \in Int /\ h \in Int
      BY <1>0, <1>0a
    <3> HIDE DEF b, h
    <3> QED  BY <3>2, <3>3
  <2> HIDE DEF b, h
  <2> QED  BY <1>0, <1>0a, <1>2, <2>1, <2>2
<1>5. Remains(T, W, w, Y)
  BY <1>3, LeftOver
<1>6. /\ w \in 0..PerFrame /\ Y \in Seq(Int) /\ Len(Y) \in Nat /\ Len(Y) > 0
      /\ w # 0 => w - 1 \in 0..Len(W) /\ Len(Y) = PerFrame - (w - 1)
                  /\ \A i \in 1..Len(Y) : w - 1 + i \in 1..PerFrame /\ Y[i] = W[w - 1 + i]
      /\ w = 0 => /\ Len(Y) = Len(T) + PerFrame
                  /\ \A i \in 1..Len(T) : Y[i] = T[i]
                  /\ \A i \in Len(T) + 1..Len(Y) : i - Len(T) \in 1..PerFrame /\ Y[i] = W[i - Len(T)]
  BY <1>5 DEF Remains
<1>7. e \in Int /\ W[PerFrame] = At(period, e)
  <2>1. PerFrame \in 1..Len(W) /\ x + (PerFrame - 1) = e /\ e \in Int
    BY <1>0a, <1>2, <1>3
  <2>2. \A i \in 1..Len(W) : W[i] = At(period, x + (i - 1))
    BY <1>3 DEF Run
  <2> QED  BY <2>1, <2>2
<1>8. \A i \in 1..PerFrame : Period(W[i]) = period
  <2> TAKE i \in 1..PerFrame
  <2>1. x + (i - 1) \in Int /\ W[i] = At(period, x + (i - 1))
    BY <1>0a, <1>2, <1>3 DEF Run
  <2> QED  BY <1>0, <2>1, PlaceLaw
<1>9. /\ k \in 0..Len(Y) /\ k < Len(Y) /\ k \in Nat
      /\ \A i \in 1..k : Period(Y[i]) # period
      /\ \A i \in k + 1..Len(Y) : Period(Y[i]) = period
      /\ Y[Len(Y)] = At(period, e)
  <2>1. CASE w # 0
    <3>1. k = 0 /\ w \in 1..PerFrame
      BY <1>6, <2>1
    <3>2. k \in 0..Len(Y) /\ k < Len(Y) /\ k \in Nat
      BY <1>6, <3>1
    <3>3. \A i \in 1..Len(Y) : Period(Y[i]) = period
      <4> TAKE i \in 1..Len(Y)
      <4> DEFINE h == w - 1 + i
      <4>1. h \in 1..PerFrame /\ Y[i] = W[h]
        BY <1>6, <2>1
      <4> HIDE DEF h
      <4> QED  BY <1>8, <4>1
    <3>4. Len(Y) \in 1..Len(Y) /\ w - 1 + Len(Y) = PerFrame
      BY SMTT(30), <1>0a, <1>6, <2>1, <3>1
    <3>5. Y[Len(Y)] = W[PerFrame]
      BY <1>6, <2>1, <3>4
    <3> HIDE DEF k
    <3>6. \A i \in 1..k : Period(Y[i]) # period
      BY <3>1
    <3>7. \A i \in k + 1..Len(Y) : Period(Y[i]) = period
      BY <3>1, <3>3
    <3> QED  BY <1>7, <3>2, <3>5, <3>6, <3>7
  <2>2. CASE w = 0
    <3>1. k = m
      BY <2>2
    <3>2. /\ Len(Y) = Len(T) + PerFrame
          /\ \A i \in 1..Len(T) : Y[i] = T[i]
          /\ \A i \in Len(T) + 1..Len(Y) : i - Len(T) \in 1..PerFrame /\ Y[i] = W[i - Len(T)]
      BY <1>6, <2>2
    <3> HIDE DEF k
    <3>3. k \in 0..Len(Y) /\ k < Len(Y) /\ k \in Nat
      BY SMTT(30), <1>0, <1>0a, <3>1, <3>2
    <3>4. /\ \A i \in 1..m : Period(T[i]) # period
          /\ \A i \in m + 1..Len(T) : Period(T[i]) = period
      BY <1>0 DEF Follows
    <3>5. \A i \in 1..k : Period(Y[i]) # period
      <4>1. \A i \in 1..k : i \in 1..m /\ i \in 1..Len(T)
        BY <1>0, <3>1
      <4> QED  BY <3>2, <3>4, <4>1
    <3>6. \A i \in k + 1..Len(Y) : Period(Y[i]) = period
      <4> TAKE i \in k + 1..Len(Y)
      <4>1. CASE i \in m + 1..Len(T)
        <5>1. i \in 1..Len(T)
          BY <1>0, <4>1
        <5> QED  BY <3>2, <3>4, <4>1, <5>1
      <4>2. CASE i \in Len(T) + 1..Len(Y)
        BY <1>8, <3>2, <4>2
      <4>3. i \in m + 1..Len(T) \/ i \in Len(T) + 1..Len(Y)
        BY <1>0, <1>6, <3>1
      <4> QED  BY <4>1, <4>2, <4>3
    <3>7. Len(Y) \in Len(T) + 1..Len(Y) /\ Len(Y) - Len(T) = PerFrame
      BY <1>0, <1>0a, <3>2
    <3>8. Y[Len(Y)] = W[PerFrame]
      BY <3>2, <3>7
    <3> QED  BY <1>7, <3>3, <3>5, <3>6, <3>8
  <2> QED  BY <2>1, <2>2
<1>10. NewTaken(S, Y, period, u, e, d, k)
  <2> HIDE DEF e, k
  <2>1. e = f[1] + PerFrame - 1
    BY DEF e, x
  <2>2. BegunAt(Y, k, period) /\ Y[Len(Y)] = At(period, e) /\ Y \in Seq(Int)
    BY <1>6, <1>9 DEF BegunAt
  <2>3. /\ period \in {0, 1} /\ u \in Int /\ c \in Int /\ d \in Nat
        /\ m \in 0..Len(T) /\ f \in [1..Len(S) -> Int]
        /\ Follows(S, T, period, u, c, d, m, 0, f)
    BY <1>0
  <2> QED  BY ZenonT(30), <2>1, <2>2, <2>3, FollowsTaken
<1>11. PICK g \in [1..Len(Tail(S)) -> Int] : Follows(Tail(S), Y, period, u, e, d, k, 0, g)
  BY <1>10 DEF NewTaken
<1>12. m = 0 => /\ T # <<>> => T[Len(T)] = At(period, c)
                /\ Wraps(T, c, x, w)
                /\ FirstAtZero(T) => Rising(T)
  <2> HAVE m = 0
  <2>1. T # <<>> => m < Len(T)
    <3>1. T # <<>> => Len(T) # 0
      BY EmptySeq
    <3> QED  BY <1>0, <3>1
  <2>2. T # <<>> => T[Len(T)] = At(period, c)
    BY <1>0, <2>1 DEF Follows
  <2>3. w = Wrap(Points(At(period, x)))
    BY <1>3
  <2>4. Wraps(T, c, x, w)
    BY <1>0, <1>2, <2>2, <2>3, WrapPlaces
  <2> QED  BY <1>0, <2>2, <2>4
<1>13. k = 0 /\ FirstAtZero(Y) => Rising(Y)
  <2> HAVE k = 0 /\ FirstAtZero(Y)
  <2>1. CASE w # 0
    <3>1. w - 1 \in 0..Len(W) /\ Y = Drop(W, w - 1) /\ Len(Y) = PerFrame - (w - 1)
      BY <1>6, <2>1
    <3>2. Run(Y, period, x + (w - 1))
      BY ZenonT(30), <1>0, <1>2, <1>3, <3>1, RunRest
    <3>3. x + (w - 1) \in Int /\ Len(Y) <= PerRev
      BY SMTT(30), <1>0a, <1>2, <1>3, <3>1
    <3> QED  BY <1>0, <3>2, <3>3, RisingFromZero
  <2>2. CASE w = 0
    <3>1. m = 0 /\ Y = T \o W /\ Free(w) = PerFrame
      BY <2>2 DEF Free
    <3>2. Len(W) = Free(w)
      BY <1>3, <3>1
    <3>3. FirstAtZero(T \o W) => Rising(T \o W)
      BY <1>0, <1>2, <1>3, <1>4, <1>12, <3>1, <3>2, TakenRises
    <3> QED  BY <3>1, <3>3
  <2> QED  BY <2>1, <2>2
<1>14. Chain(Tail(S), Y, period, u, e, d, k, 0, g)
  <2>1. 0 \in 0..Len(Tail(S))
    <3>1. Len(Tail(S)) \in Nat
      BY LenProperties, HeadTailProperties
    <3> QED  BY <3>1
  <2> HIDE DEF k, e
  <2> QED  BY <1>0, <1>7, <1>9, <1>11, <1>13, <2>1 DEF Chain
<1>15. k + 0 > 0 => m + 0 > 0
  BY <1>0, <1>9
<1>16. m + 0 = 0 /\ T # <<>> => \A l \in 0..Delay : RoomLeft(u, c, l) => w = 0 /\ RoomLeft(u, e, l)
  <2> SUFFICES ASSUME m = 0, T # <<>>, NEW l \in 0..Delay, RoomLeft(u, c, l)
               PROVE  w = 0 /\ RoomLeft(u, e, l)
    BY <1>0
  <2>1. Wraps(T, c, x, w)
    BY <1>12
  <2>2. /\ RoomLeft(u, x + PerFrame - 1, l)
        /\ \A R, v : Wraps(R, c, x, v) /\ R # <<>> => v = 0
    BY <1>0, <1>2, RoomKeeps
  <2> QED  BY <2>1, <2>2
<1>17. m + 0 = 0 /\ w # 0 /\ Len(S) <= Backlog => RoomLeft(u, e, 0) /\ (FirstAtZero(V) => Rising(V))
  <2> SUFFICES ASSUME m = 0, w # 0, Len(S) <= Backlog
               PROVE  RoomLeft(u, e, 0) /\ (FirstAtZero(V) => Rising(V))
    BY <1>0
  <2>1. Wraps(T, c, x, w) /\ (T # <<>> => T[Len(T)] = At(period, c)) /\ (FirstAtZero(T) => Rising(T))
    BY <1>12
  <2>2. Len(S) \in 0..Backlog
    <3>1. Backlog \in Nat
      BY LongFacts
    <3> QED  BY <1>0, <3>1
  <2>3. RoomLeft(u, x + PerFrame - 1, 0)
    BY <1>0, <1>2, <2>1, <2>2, RoomMade
  <2>4. w - 1 \in 0..Len(W) /\ Free(w) = w - 1
    BY <1>6 DEF Free
  <2> DEFINE U == SubSeq(W, 1, w - 1)
  <2>5. Len(U) = w - 1 /\ Run(U, period, x)
    BY <1>0, <1>2, <1>3, <2>4, RunFirst
  <2> HIDE DEF U
  <2>6. FirstAtZero(T \o U) => Rising(T \o U)
    BY <1>0, <1>2, <1>4, <2>1, <2>4, <2>5, TakenRises
  <2> QED  BY <2>3, <2>6 DEF U
<1> HIDE DEF e, k
<1>18. 0 \in Nat /\ k \in Nat /\ e \in Int
  BY <1>7, <1>9
<1> QED  BY <1>11, <1>14, <1>15, <1>16, <1>17, <1>18 DEF Taken

-----------------------------------------------------------------------------
\* Scans.

\* The frames found and those still on their way.
Stream == frames \o Intact(bin_buf_ \o wire)

Kinds ==
  /\ temp_data \in Seq(Int) /\ frames \in Seq(Int) /\ last_angle = LastAngle(temp_data)
  /\ device \in {"idle", "starting", "measuring", "gone"} /\ rx \in {"read", "publish"}
  /\ damage \in 0..MaxDamage /\ \E period \in {0, 1}, place \in Int : next = At(period, place)

\* Little waits, the device's frames are headed, and a silent line is empty.
Buffers ==
  /\ Len(bin_buf_) < WireLimit /\ Len(wire) <= WireLimit
  /\ Len(Stream) <= Backlog
  /\ device # "gone" => Paired(bin_buf_ \o wire)
  /\ ~valid_data_ => frames = <<>> /\ rx = "read" /\ (device # "measuring" => wire = <<>>)

\* The device has sent nothing yet.
Early ==
  \/ device = "starting" /\ node # "running"
  \/ device = "idle" /\ node \in {"offline", "opened", "connected", "activating", "speed"}

Fresh == Early => temp_data = <<>> /\ Stream = <<>>

\* The period is not about to change, and the node not to end.
Settled == node \notin {"running", "leaving", "gone"}

Whole(s) == FirstAtZero(s) /\ Rising(s)

\* What is published and copied.
Scans ==
  /\ full_scan_data_ \in [1..2 -> Seq(Int)] /\ scan_data \in [1..2 -> Seq(Int)]
  /\ rx = "publish" /\ Settled /\ FirstAtZero(full_scan_data_[1]) => Rising(full_scan_data_[1])
  /\ Awake => rx = "read" /\ full_scan_data_[1] = full_scan_data_[2] /\ Whole(full_scan_data_[1])
  /\ IF node = "copying" THEN scan_data[1] = full_scan_data_[1]
     ELSE scan_data[2] = <<>> \/ (scan_data[1] = scan_data[2] /\ Whole(scan_data[1]))

\* No scan will be sent any more that is not sent already.
Aside ==
  \/ node \in {"leaving", "gone"}
  \/ node = "running" /\ device = "gone"
  \/ /\ device \in {"idle", "gone"} /\ frames = <<>> /\ wire = <<>> /\ rx = "read"
     /\ node \in {"grab", "waiting"}

\* The frames follow one another behind the points, and while a scan is on its way to the node
\* no revolution ends.
Linked(period, u, c, d, m, j, f) ==
  /\ Chain(Stream, temp_data, period, u, c, d, m, j, f)
  /\ device # "gone" => next = At(period, u) /\ d = damage
  /\ m + j > 0 => node = "running" /\ device = "measuring"
  /\ (rx = "publish" /\ Settled) \/ Awake => temp_data # <<>> /\ RoomLeft(u, c, lag)

InOrder ==
  \E period \in {0, 1}, u \in Int, c \in Int, d \in 0..MaxDamage, m \in Nat, j \in Nat :
    \E f \in [1..Len(Stream) -> Int] : Linked(period, u, c, d, m, j, f)

Links == Aside \/ InOrder

WholeHolds == ParserHolds /\ AgeHolds /\ Kinds /\ Buffers /\ Fresh /\ Scans /\ Links

LEMMA FirstOfConcat ==
  ASSUME NEW s \in Seq(Int), s # <<>>, NEW t \in Seq(Int), NEW S, S = s \o t
  PROVE  /\ S \in Seq(Int) /\ S # <<>> /\ S[1] = s[1] /\ s[1] \in Int
         /\ Tail(s) \in Seq(Int) /\ Tail(s) \o t = Tail(S) /\ Len(Tail(S)) <= Len(S)
<1>0. /\ Len(s) \in Nat /\ Len(t) \in Nat /\ Len(s) >= 1
      /\ Tail(s) \in Seq(Int) /\ Len(Tail(s)) = Len(s) - 1
      /\ \A i \in 1..Len(s) - 1 : Tail(s)[i] = s[i + 1]
  BY TailTyped, LenProperties
<1>1. /\ S \in Seq(Int) /\ Len(S) = Len(s) + Len(t)
      /\ \A i \in 1..Len(s) + Len(t) : S[i] = IF i <= Len(s) THEN s[i] ELSE t[i - Len(s)]
  BY ConcatProperties
<1>2. S # <<>> /\ S[1] = s[1] /\ s[1] \in Int
  <2>1. 1 \in 1..Len(s) + Len(t) /\ 1 <= Len(s) /\ 1 \in 1..Len(s) /\ Len(S) # 0
    BY <1>0, <1>1
  <2>2. S # <<>>
    BY <2>1, EmptySeq
  <2> QED  BY <1>1, <2>1, <2>2, ElementOfSeq
<1>3. /\ Tail(S) \in Seq(Int) /\ Len(Tail(S)) = Len(S) - 1
      /\ \A i \in 1..Len(S) - 1 : Tail(S)[i] = S[i + 1]
  BY <1>1, <1>2, TailTyped
<1> DEFINE Y == Tail(s) \o t
           n == Len(s)
           k == Len(t)
<1>4. /\ Y \in Seq(Int) /\ Len(Y) = Len(Tail(s)) + k
      /\ \A i \in 1..Len(Tail(s)) + k : Y[i] = IF i <= Len(Tail(s)) THEN Tail(s)[i] ELSE t[i - Len(Tail(s))]
  BY <1>0, ConcatProperties
<1>5. /\ Len(Y) = n - 1 + k /\ Len(Tail(S)) = n - 1 + k
      /\ \A i \in 1..n - 1 + k : Y[i] = IF i <= n - 1 THEN Tail(s)[i] ELSE t[i - (n - 1)]
  <2>1. Len(Tail(S)) = n + k - 1 /\ n + k - 1 = n - 1 + k
    BY <1>0, <1>1, <1>3
  <2> QED  BY <1>0, <1>4, <2>1
<1>6. \A i \in 1..n - 1 + k : Y[i] = Tail(S)[i]
  <2> TAKE i \in 1..n - 1 + k
  <2>1. i \in 1..Len(S) - 1 /\ i + 1 \in 1..n + k
    BY <1>0, <1>1
  <2>2. Tail(S)[i] = S[i + 1]
    BY <1>3, <2>1
  <2>3. CASE i <= n - 1
    <3>1. i + 1 <= n /\ i \in 1..n - 1
      BY <1>0, <2>3
    <3>2. Y[i] = Tail(s)[i]
      BY <1>5, <2>3
    <3>3. Tail(s)[i] = s[i + 1]
      BY <1>0, <3>1
    <3>4. S[i + 1] = s[i + 1]
      BY <1>1, <2>1, <3>1
    <3> QED  BY <2>2, <3>2, <3>3, <3>4
  <2>4. CASE ~(i <= n - 1)
    <3>1. ~(i + 1 <= n) /\ i + 1 - n = i - (n - 1)
      BY <1>0, <2>4
    <3>2. Y[i] = t[i - (n - 1)]
      BY <1>5, <2>4
    <3>3. S[i + 1] = t[i + 1 - n]
      BY <1>1, <2>1, <3>1
    <3> QED  BY <2>2, <3>1, <3>2, <3>3
  <2> QED  BY <2>3, <2>4
<1>7. Y = Tail(S)
  <2> HIDE DEF Y, n, k
  <2> QED  BY <1>3, <1>4, <1>5, <1>6, SeqEqual
<1>8. Len(Tail(S)) <= Len(S)
  <2>1. Len(S) \in Nat
    BY <1>1, LenProperties
  <2> QED  BY <1>3, <2>1
<1> QED  BY <1>0, <1>1, <1>2, <1>7, <1>8

\* The stream is typed, and short enough.
LEMMA StreamTyped ==
  ASSUME ParserHolds, frames \in Seq(Int)
  PROVE  /\ bin_buf_ \o wire \in Seq(Int) /\ Intact(bin_buf_ \o wire) \in Seq(Int) /\ Stream \in Seq(Int)
<1>1. bin_buf_ \o wire \in Seq(Int)
  BY ConcatProperties DEF ParserHolds
<1>2. Intact(bin_buf_ \o wire) \in Seq(Int)
  BY <1>1, IntactTyped
<1> QED  BY <1>1, <1>2, ConcatProperties DEF Stream

LEMMA StreamSame ==
  ASSUME frames' = frames, bin_buf_' = bin_buf_, wire' = wire
  PROVE  Stream' = Stream
BY DEF Stream

\* What a read does to the units and the frames.
ReadDone ==
  /\ frames = <<>> /\ rx = "read" /\ wire # <<>>
  /\ frames' \in Seq(Int) /\ Stream' = Stream
  /\ Len(bin_buf_') < WireLimit /\ Len(wire') <= WireLimit
  /\ Paired(bin_buf_ \o wire) => Paired(bin_buf_' \o wire')

LEMMA ReadStream ==
  ASSUME RevolutionsAreLong, ParserHolds, Len(bin_buf_) < WireLimit, Len(wire) <= WireLimit,
         NEW n \in 1..WireLimit, Read(n)
  PROVE  ReadDone
<1> DEFINE s == bin_buf_ \o Received(n)
           r == Parse(s, head_flag)
<1>0. /\ wire \in Seq(Int) /\ bin_buf_ \in Seq(Int) /\ head_flag \in BOOLEAN
      /\ Len(wire) \in Nat /\ Len(bin_buf_) \in Nat /\ WireLimit \in Nat /\ WireLimit >= 3
  BY LenProperties, LongFacts DEF ParserHolds
<1>0a. n \in Nat /\ n >= 1 /\ n <= Len(wire) /\ n \in 0..Len(wire) /\ 1 \in 1..Len(wire)
  <2>1. n <= Len(wire)
    BY DEF Read
  <2> QED  BY <1>0, <2>1
<1>0b. frames = <<>> /\ rx = "read" /\ wire # <<>>
  <2>1. wire # <<>>
    BY <1>0, <1>0a, EmptySeq
  <2> QED  BY <2>1 DEF Read
<1>1. wire' = Drop(wire, n) /\ wire' \in Seq(Int) /\ Len(wire') = Len(wire) - n
  BY <1>0, <1>0a, DropLaw DEF Read
<1>2. Received(n) \in Seq(Int) /\ Received(n) \o wire' = wire /\ Len(Received(n)) = n
  <2>1. Received(n) \in Seq(Int) /\ Received(n) \o wire' = wire
    <3>1. /\ Received(n) = SubSeq(wire, 1, n) /\ wire' = SubSeq(wire, n + 1, Len(wire))
          /\ \A i \in 1..n : wire[i] \in Int
      BY <1>0, <1>0a, <1>1 DEF Received, Drop
    <3>2. SubSeq(wire, 1, n) \in Seq(Int)
      BY <1>0, <1>0a, <3>1, SubSeqProperties
    <3>3. 1 \in 1..Len(wire) + 1 /\ n \in 1 - 1..Len(wire) /\ Len(wire) \in n..Len(wire)
      BY <1>0, <1>0a
    <3>4. SubSeq(wire, 1, n) \o SubSeq(wire, n + 1, Len(wire)) = SubSeq(wire, 1, Len(wire))
      BY <1>0, <3>3, ConcatAdjacentSubSeq
    <3>5. SubSeq(wire, 1, Len(wire)) = wire
      BY <1>0, SubSeqFull
    <3> QED  BY <3>1, <3>2, <3>4, <3>5
  <2>2. Len(Received(n)) = n
    BY <1>0, <1>0a DEF Received
  <2> QED  BY <2>1, <2>2
<1>3. s \in Seq(Int) /\ s \o wire' = bin_buf_ \o wire /\ Len(s) = Len(bin_buf_) + n
  <2>1. s \in Seq(Int) /\ Len(s) = Len(bin_buf_) + n
    BY <1>0, <1>2, ConcatProperties
  <2>2. (bin_buf_ \o Received(n)) \o wire' = bin_buf_ \o (Received(n) \o wire')
    BY <1>0, <1>1, <1>2, Associative, ZenonT(30)
  <2> QED  BY <1>2, <2>1, <2>2
<1>4. head_flag => Headed(s)
  <2>1. ASSUME Headed(bin_buf_)
        PROVE  Headed(s)
    <3>1. 1 \in 1..Len(bin_buf_) /\ 1 + 1 <= Len(bin_buf_) /\ IsHeader(bin_buf_, 1)
      BY <1>0, <2>1 DEF Headed
    <3>2. IsHeader(s, 1)
      BY <1>0, <1>2, <3>1, FrameAtConcat
    <3>3. Len(s) >= 2
      BY <1>0, <1>0a, <1>3, <3>1
    <3> QED  BY <3>2, <3>3 DEF Headed
  <2> QED  BY <2>1 DEF ParserHolds
<1> HIDE DEF s
<1>5. bin_buf_' = r.units /\ frames' = r.found
  BY DEF Read, s
<1> HIDE DEF r
<1>6. /\ \E k \in 0..Len(s) : r.units = Drop(s, k)
      /\ Len(r.units) <= 2 \/ 2 * Len(r.units) <= Len(s)
  BY <1>0, <1>3, <1>4, ParseLeaves DEF r
<1>7. r \in Turns
  BY <1>0, <1>1, <1>3, <1>4, ParseLaw, ZenonT(30) DEF r
<1>8. r.found \in Seq(Int) /\ r.units \in Seq(Int)
  BY <1>7 DEF Turns
<1>9. Len(bin_buf_') < WireLimit
  <2> DEFINE l == Len(r.units)
             b == Len(bin_buf_)
  <2>1. l \in Nat /\ b \in Nat /\ b < WireLimit /\ (l <= 2 \/ 2 * l <= b + n) /\ n <= WireLimit
    BY <1>0, <1>3, <1>6, <1>8, LenProperties
  <2> HIDE DEF l, b
  <2>2. l < WireLimit
    BY <1>0, <1>0a, <2>1
  <2> QED  BY <1>5, <2>2 DEF l
<1>10. Len(wire') <= WireLimit
  BY <1>0, <1>0a, <1>1
<1>11. Stream' = Stream
  <2>1. Intact(bin_buf_ \o wire) = frames' \o Intact(bin_buf_' \o wire')
    BY ReadLaw
  <2>2. Intact(bin_buf_ \o wire) \in Seq(Int)
    BY <1>0, ConcatProperties, IntactTyped
  <2>3. Stream = Intact(bin_buf_ \o wire)
    BY <1>0b, <2>2, ConcatEmptySeq DEF Stream
  <2> QED  BY <2>1, <2>3 DEF Stream
<1>12. Paired(bin_buf_ \o wire) => Paired(bin_buf_' \o wire')
  <2> HAVE Paired(bin_buf_ \o wire)
  <2>1. PICK k \in 0..Len(s) : r.units = Drop(s, k)
    BY <1>6
  <2>2. Drop(s \o wire', k) = Drop(s, k) \o wire'
    BY <1>1, <1>3, <2>1, DropConcat
  <2>3. bin_buf_' \o wire' = Drop(bin_buf_ \o wire, k)
    BY <1>3, <1>5, <2>1, <2>2
  <2>4. bin_buf_ \o wire \in Seq(Int) /\ k \in 0..Len(bin_buf_ \o wire)
    <3>1. bin_buf_ \o wire \in Seq(Int) /\ Len(bin_buf_ \o wire) = Len(bin_buf_) + Len(wire)
      BY <1>0, ConcatProperties
    <3> QED  BY <1>0, <1>0a, <1>3, <2>1, <3>1
  <2> QED  BY <2>3, <2>4, PairedRest
<1> QED  BY <1>0b, <1>5, <1>8, <1>9, <1>10, <1>11, <1>12 DEF ReadDone

\* What the device does to the units and the frames.
EmitDone ==
  /\ frames = <<>> /\ rx = "read" /\ device = "measuring" /\ device' = device /\ node' = node
  /\ wire' \in Seq(Int) /\ Len(wire') <= WireLimit /\ Paired(bin_buf_' \o wire')
  /\ \/ damage' = damage /\ Stream' = Stream \o <<next>>
     \/ damage < MaxDamage /\ damage' = damage + 1 /\ Stream' = Stream
  /\ Len(Stream') <= Backlog

LEMMA EmitStream ==
  ASSUME RevolutionsAreLong, ParserHolds, next \in Nat, Len(bin_buf_) < WireLimit,
         Paired(bin_buf_ \o wire), Emit
  PROVE  EmitDone
<1> DEFINE s == bin_buf_ \o wire
<1>0. /\ wire \in Seq(Int) /\ bin_buf_ \in Seq(Int) /\ Len(bin_buf_) \in Nat
      /\ WireLimit \in Nat /\ WireLimit >= 3 /\ Backlog \in Nat
      /\ 3 * Backlog <= 2 * WireLimit - 1 /\ 2 * WireLimit - 1 < 3 * (Backlog + 1)
  BY LenProperties, LongFacts DEF ParserHolds
<1>1. /\ frames = <<>> /\ frames' = frames /\ bin_buf_' = bin_buf_ /\ rx = "read"
      /\ device = "measuring" /\ device' = device /\ node' = node /\ Len(wire') <= WireLimit
  BY DEF Emit, TimePasses, parser
<1>2. s \in Seq(Int) /\ Intact(s) \in Seq(Int) /\ Stream = Intact(s)
  <2>1. s \in Seq(Int)
    BY <1>0, ConcatProperties
  <2> HIDE DEF s
  <2>2. Intact(s) \in Seq(Int)
    BY <2>1, IntactTyped
  <2>3. frames \o Intact(s) = Intact(s)
    BY <1>1, <2>2, ConcatEmptySeq
  <2> QED  BY <2>1, <2>2, <2>3 DEF Stream, s
<1>3. \A units \in Seq(Int) : wire' = wire \o units => wire' \in Seq(Int) /\ bin_buf_' \o wire' = s \o units
  <2> SUFFICES ASSUME NEW units \in Seq(Int), wire' = wire \o units
               PROVE  wire' \in Seq(Int) /\ bin_buf_' \o wire' = s \o units
    OBVIOUS
  <2>1. (bin_buf_ \o wire) \o units = bin_buf_ \o (wire \o units)
    BY <1>0, Associative
  <2>2. wire \o units \in Seq(Int)
    BY <1>0, ConcatProperties
  <2> QED  BY <1>1, <2>1, <2>2
<1>4. \A units \in Seq(Int) : s \o units \in Seq(Int) /\ Intact(s \o units) \in Seq(Int)
  BY <1>2, ConcatProperties, IntactTyped
<1>5. \A units \in Seq(Int) : wire' = wire \o units => Stream' = Intact(s \o units)
  <2> SUFFICES ASSUME NEW units \in Seq(Int), wire' = wire \o units
               PROVE  Stream' = Intact(s \o units)
    OBVIOUS
  <2>1. <<>> \o Intact(s \o units) = Intact(s \o units)
    BY <1>4, ConcatEmptySeq
  <2> QED  BY <1>1, <1>3, <2>1 DEF Stream
<1> DEFINE More == /\ wire' \in Seq(Int) /\ Paired(bin_buf_' \o wire')
                   /\ \/ damage' = damage /\ Stream' = Stream \o <<next>>
                      \/ damage < MaxDamage /\ damage' = damage + 1 /\ Stream' = Stream
                   /\ Stream' = Intact(bin_buf_' \o wire')
<1>6. More
  <2>1. CASE wire' = wire \o Frame(next) /\ damage' = damage
    <3>1. Frame(next) \in Seq(Int)
      BY DEF Frame, Mark, Version
    <3>2. Paired(s \o Frame(next)) /\ Intact(s \o Frame(next)) = Intact(s) \o <<next>>
      BY <1>2, FrameAdds
    <3>3. Stream' = Stream \o <<next>>
      BY <1>2, <1>5, <2>1, <3>1, <3>2
    <3> QED  BY <1>3, <1>5, <2>1, <3>1, <3>2, <3>3
  <2>2. CASE /\ damage < MaxDamage /\ damage' = damage + 1
             /\ \E units \in Damaged(next) : wire' = wire \o units
    <3>1. PICK units \in Damaged(next) : wire' = wire \o units
      BY <2>2
    <3>2. units \in Seq(Int)
      <4>1. \A p \in Int : Frame(p) \in Seq(Int)
        BY DEF Frame, Mark, Version
      <4>2. Garbage \in Int /\ <<Version, next>> \in Seq(Int) /\ <<Mark, Version>> \in Seq(Int)
        BY DEF Garbage, Mark, Version
      <4>3. <<>> \in Seq(Int)
        BY EmptySeq
      <4> QED  BY <3>1, <4>1, <4>2, <4>3 DEF Damaged
    <3>3. Paired(s \o units) /\ Intact(s \o units) = Intact(s)
      BY <1>2, <3>1, DamagedAdds
    <3>4. Stream' = Stream
      BY <1>2, <1>5, <3>1, <3>2, <3>3
    <3> QED  BY <1>3, <1>5, <2>2, <3>1, <3>2, <3>3, <3>4
  <2>3. \/ wire' = wire \o Frame(next) /\ damage' = damage
        \/ /\ damage < MaxDamage /\ damage' = damage + 1
           /\ \E units \in Damaged(next) : wire' = wire \o units
    BY DEF Emit
  <2> QED  BY <2>1, <2>2, <2>3
<1>7. Len(Stream') <= Backlog
  <2> DEFINE t == bin_buf_' \o wire'
             i == Len(Intact(t))
             l == Len(t)
             w == Len(wire')
             b == Len(bin_buf_)
  <2>1. wire' \in Seq(Int) /\ Stream' = Intact(t)
    BY <1>6
  <2>2. t \in Seq(Int) /\ l = b + w /\ w \in Nat /\ b \in Nat
    <3>1. t \in Seq(Int) /\ l = Len(bin_buf_') + Len(wire')
      BY <1>0, <1>1, <2>1, ConcatProperties
    <3> QED  BY <1>0, <1>1, <2>1, <3>1, LenProperties
  <2> HIDE DEF t
  <2>3. 3 * i <= l /\ i \in Nat
    <3>1. 3 * Len(Intact(t)) <= Len(t)
      BY <2>2, IntactShort
    <3>2. Intact(t) \in Seq(Int)
      BY <2>2, IntactTyped
    <3> QED  BY <3>1, <3>2, LenProperties
  <2>4. w <= WireLimit /\ b < WireLimit
    BY <1>1
  <2>5. Len(Stream') = i
    BY <2>1
  <2> HIDE DEF i, l, w, b
  <2> QED  BY <1>0, <2>2, <2>3, <2>4, <2>5
<1> QED  BY <1>1, <1>6, <1>7 DEF EmitDone

\* What the receive thread does with a frame that falls at w, or nowhere.
TakeDone(w) ==
  LET W == Points(frames[1])
  IN  /\ frames # <<>> /\ rx = "read" /\ frames' = Tail(frames) /\ frames' \in Seq(Int)
      /\ Stream # <<>> /\ Stream[1] = frames[1] /\ Stream' = Tail(Stream) /\ Len(Stream') <= Len(Stream)
      /\ W \in Seq(Int) /\ Len(W) = PerFrame /\ w = Wrap(W)
      /\ temp_data' = IF w = 0 THEN temp_data \o W ELSE Drop(W, w - 1)
      /\ temp_data' \in Seq(Int) /\ temp_data' # <<>> /\ last_angle' = LastAngle(temp_data')
      /\ UNCHANGED <<device, next, damage, wire, bin_buf_, head_flag, valid_data_, node, lag, scan_data>>
      /\ IF w = 0 THEN rx' = rx /\ full_scan_data_' = full_scan_data_
         ELSE /\ rx' = "publish"
              /\ full_scan_data_' = [full_scan_data_ EXCEPT ![1] = temp_data \o SubSeq(W, 1, w - 1)]

LEMMA TakeStream ==
  ASSUME ParserHolds, Kinds, Extend \/ Publish
  PROVE  \E w : TakeDone(w)
<1> DEFINE p == frames[1]
           W == Points(p)
           w == Wrap(W)
           T == temp_data
           Y == IF w = 0 THEN T \o W ELSE Drop(W, w - 1)
<1>0. /\ frames \in Seq(Int) /\ T \in Seq(Int) /\ last_angle = LastAngle(T)
      /\ PerFrame \in Nat \ {0} /\ PerRev \in Nat \ {0}
  BY CircleTyped DEF Kinds
<1>1. frames # <<>> /\ rx = "read" /\ frames' = Tail(frames)
  BY DEF Extend, Publish
<1>2. p \in Int /\ Intact(bin_buf_ \o wire) \in Seq(Int)
  <2>1. Intact(bin_buf_ \o wire) \in Seq(Int)
    BY <1>0, StreamTyped
  <2> QED  BY <1>0, <1>1, <2>1, FirstOfConcat
<1>3. W \in Seq(Int) /\ Len(W) = PerFrame
  BY <1>2, PointsOld
<1>4. /\ bin_buf_' = bin_buf_ /\ wire' = wire
      /\ UNCHANGED <<device, next, damage, wire, bin_buf_, head_flag, valid_data_, node, lag, scan_data>>
  BY DEF Extend, Publish, line
<1>5. /\ Stream # <<>> /\ Stream[1] = p /\ Tail(frames) \in Seq(Int)
      /\ Tail(frames) \o Intact(bin_buf_ \o wire) = Tail(Stream) /\ Len(Tail(Stream)) <= Len(Stream)
  <2>1. Stream = frames \o Intact(bin_buf_ \o wire)
    BY DEF Stream
  <2> QED  BY <1>0, <1>1, <1>2, <2>1, FirstOfConcat
<1>6. Stream' = Tail(Stream)
  BY <1>1, <1>4, <1>5 DEF Stream
<1> HIDE DEF W
<1>7. Remains(T, W, w, Y)
  BY <1>0, <1>3, LeftOver
<1>8. last_angle' = Angle(W[PerFrame])
  BY DEF Extend, Publish, W
<1>9. temp_data' = Y
  <2>1. CASE Extend
    <3>1. w = 0 /\ temp_data' = T \o W
      BY <2>1 DEF Extend, W
    <3> QED  BY <3>1
  <2>2. CASE Publish
    <3>1. w > 0 /\ temp_data' = Drop(W, w - 1)
      BY <2>2 DEF Publish, W
    <3>2. w # 0
      BY <1>7, <3>1 DEF Remains
    <3> QED  BY <3>1, <3>2
  <2> QED  BY <2>1, <2>2
<1>10. IF w = 0 THEN rx' = rx /\ full_scan_data_' = full_scan_data_
       ELSE /\ rx' = "publish"
            /\ full_scan_data_' = [full_scan_data_ EXCEPT ![1] = temp_data \o SubSeq(W, 1, w - 1)]
  <2>1. CASE Extend
    <3>1. w = 0 /\ rx' = rx /\ full_scan_data_' = full_scan_data_
      BY <2>1 DEF Extend, W, shared
    <3> QED  BY <3>1
  <2>2. CASE Publish
    <3>1. /\ w > 0 /\ rx' = "publish"
          /\ full_scan_data_' = [full_scan_data_ EXCEPT ![1] = temp_data \o SubSeq(W, 1, w - 1)]
      BY <2>2 DEF Publish, W
    <3>2. w # 0
      BY <1>7, <3>1 DEF Remains
    <3> QED  BY <3>1, <3>2
  <2> QED  BY <2>1, <2>2
<1> HIDE DEF w
<1>11. /\ w \in 0..PerFrame /\ Y \in Seq(Int) /\ Len(Y) \in Nat /\ Len(Y) > 0
       /\ w # 0 => Len(Y) = PerFrame - (w - 1)
                   /\ \A i \in 1..Len(Y) : w - 1 + i \in 1..PerFrame /\ Y[i] = W[w - 1 + i]
       /\ w = 0 => /\ Len(Y) = Len(T) + PerFrame
                   /\ \A i \in Len(T) + 1..Len(Y) : i - Len(T) \in 1..PerFrame /\ Y[i] = W[i - Len(T)]
  BY <1>7 DEF Remains
<1>12. Y[Len(Y)] = W[PerFrame] /\ Y # <<>>
  <2>0. Len(T) \in Nat
    BY <1>0, LenProperties
  <2>1. CASE w # 0
    <3>1. Len(Y) \in 1..Len(Y) /\ w - 1 + Len(Y) = PerFrame
      BY <1>0, <1>11, <2>1
    <3> HIDE DEF Y
    <3>2. Y[Len(Y)] = W[w - 1 + Len(Y)]
      BY <1>11, <2>1, <3>1
    <3> QED  BY <3>1, <3>2
  <2>2. CASE w = 0
    <3>1. Len(Y) \in Len(T) + 1..Len(Y) /\ Len(Y) - Len(T) = PerFrame
      BY <1>0, <1>11, <2>0, <2>2
    <3> HIDE DEF Y
    <3>2. Y[Len(Y)] = W[Len(Y) - Len(T)]
      BY <1>11, <2>2, <3>1
    <3> QED  BY <3>1, <3>2
  <2>3. Y # <<>>
    <3>1. Len(Y) # 0
      BY <1>11
    <3> HIDE DEF Y
    <3> QED  BY <1>11, <3>1, EmptySeq
  <2> QED  BY <2>1, <2>2, <2>3
<1>13. last_angle' = LastAngle(temp_data')
  <2> HIDE DEF Y
  <2>1. LastAngle(Y) = Angle(Y[Len(Y)])
    BY <1>12 DEF LastAngle
  <2> QED  BY <1>8, <1>9, <1>12, <2>1
<1>14. temp_data' \in Seq(Int) /\ temp_data' # <<>>
  <2> HIDE DEF Y
  <2> QED  BY <1>9, <1>11, <1>12
<1>15. Len(Stream') <= Len(Stream) /\ frames' \in Seq(Int)
  BY <1>1, <1>5, <1>6
<1> SUFFICES TakeDone(w)
  OBVIOUS
<1>16. temp_data' = IF w = 0 THEN temp_data \o W ELSE Drop(W, w - 1)
  BY <1>9
<1>17. w = Wrap(W)
  BY DEF w
<1> HIDE DEF Y, T
<1> QED  BY <1>1, <1>3, <1>4, <1>5, <1>6, <1>10, <1>13, <1>14, <1>15, <1>16, <1>17 DEF TakeDone, W

\* The frames that follow one another still do.
LEMMA TakeLinks ==
  ASSUME RevolutionsAreLong, ParserHolds, Kinds, NEW w, TakeDone(w),
         NEW V, V = temp_data \o SubSeq(Points(frames[1]), 1, w - 1),
         NEW period, NEW u, NEW c, NEW d, NEW m, NEW j, NEW f,
         Chain(Stream, temp_data, period, u, c, d, m, j, f)
  PROVE  Taken(Stream, temp_data, temp_data', V, w, period, u, c, d, m, j)
<1> DEFINE W == Points(Stream[1])
           Y == temp_data'
<1>1. /\ Stream \in Seq(Int) /\ temp_data \in Seq(Int) /\ last_angle = LastAngle(temp_data)
      /\ Stream # <<>>
  <2>1. temp_data \in Seq(Int) /\ last_angle = LastAngle(temp_data) /\ frames \in Seq(Int)
    BY DEF Kinds
  <2>2. Stream \in Seq(Int)
    BY <2>1, StreamTyped
  <2>3. Stream # <<>>
    BY DEF TakeDone
  <2> QED  BY <2>1, <2>2, <2>3
<1>2. W = Points(frames[1])
  <2>1. Stream[1] = frames[1]
    BY DEF TakeDone
  <2> QED  BY <2>1
<1>3. /\ w = Wrap(W) /\ Y = (IF w = 0 THEN temp_data \o W ELSE Drop(W, w - 1))
      /\ V = temp_data \o SubSeq(W, 1, w - 1)
  <2>1. /\ w = Wrap(Points(frames[1]))
        /\ Y = (IF w = 0 THEN temp_data \o Points(frames[1]) ELSE Drop(Points(frames[1]), w - 1))
    BY DEF TakeDone
  <2> QED  BY <1>2, <2>1
<1>4. W = Points(Stream[1])
  OBVIOUS
<1> HIDE DEF W, Y
<1>5. CASE j = 0
  <2>1. Chain(Stream, temp_data, period, u, c, d, m, 0, f)
    BY <1>5
  <2>2. Taken(Stream, temp_data, Y, V, w, period, u, c, d, m, 0)
    BY <1>1, <1>3, <1>4, <2>1, TakenNew
  <2> QED  BY <1>5, <2>2 DEF Y
<1>6. CASE j # 0
  <2>1. j > 0
    <3>1. j \in 0..Len(Stream)
      BY DEF Chain
    <3> QED  BY <1>6, <3>1
  <2>2. Taken(Stream, temp_data, Y, V, w, period, u, c, d, m, j)
    BY <1>1, <1>3, <1>4, <2>1, TakenOld
  <2> QED  BY <2>2 DEF Y
<1> QED  BY <1>5, <1>6

\* Nothing is on its way, from the device to the points.
LEMMA NothingComes ==
  ASSUME frames = <<>>, bin_buf_ = <<>>, wire = <<>>
  PROVE  Stream = <<>>
<1>1. <<>> \in Seq(Int) /\ Len(<<>>) = 0 /\ 0 < 3
  BY EmptySeq
<1>2. <<>> \o <<>> = <<>>
  BY <1>1, ConcatEmptySeq
<1>3. Intact(<<>>) = <<>>
  BY <1>1, IntactOfFew, Zenon
<1> QED  BY <1>2, <1>3 DEF Stream

\* The same when a variable keeps its value after the process has ended.
LEMMA NothingComesAfter ==
  ASSUME frames' = <<>>, bin_buf_' = <<>>, wire' = <<>>
  PROVE  Stream' = <<>>
<1>1. <<>> \in Seq(Int) /\ Len(<<>>) = 0 /\ 0 < 3
  BY EmptySeq
<1>2. <<>> \o <<>> = <<>>
  BY <1>1, ConcatEmptySeq
<1>3. Intact(<<>>) = <<>>
  BY <1>1, IntactOfFew, Zenon
<1> QED  BY <1>2, <1>3 DEF Stream

\* What a command does to the device.
LEMMA CommandDone ==
  ASSUME NEW mode \in {"run", "stand"}, Told(mode)
  PROVE  \/ device' = device
         \/ mode = "run" /\ device = "idle" /\ device' = "starting"
         \/ mode = "stand" /\ device # "gone" /\ device' = "idle"
<1>1. CASE mode = "run"
  BY <1>1 DEF Told
<1>2. CASE mode = "stand"
  BY <1>2 DEF Told
<1> QED  BY <1>1, <1>2

\* The node's steps, as far as the stream and the points are concerned.
NodeSteps == Starts \/ Grabs \/ Stop

LEMMA NodeKeeps ==
  ASSUME NodeSteps
  PROVE  /\ UNCHANGED <<next, damage, wire, bin_buf_, head_flag, frames, temp_data, last_angle, rx, valid_data_>>
         /\ Stream' = Stream
         /\ \/ device' = device
            \/ Activate /\ ~valid_data_ /\ device = "idle" /\ device' = "starting"
            \/ Resume /\ device = "idle" /\ device' = "starting"
            \/ SetRotationSpeed /\ valid_data_ /\ device # "gone" /\ device' = "idle"
            \/ Stop /\ valid_data_ /\ device # "gone" /\ device' = "idle"
<1>1. UNCHANGED <<next, damage, wire, bin_buf_, head_flag, frames, temp_data, last_angle, rx, valid_data_>>
  <2>1. CASE Starts
    BY <2>1 DEF Starts, Others, Connect, Opened, Activate, Activated, SpeedIsRight, SpeedSet,
         SetRotationSpeed, PauseFails, Resume, Quiet, line, parser, assembly
  <2>2. CASE Grabs \/ Stop
    BY <2>2 DEF Grabs, Tick, TimesOut, CopyBegins, CopyEnds, Stop, Quiet, line, parser, assembly
  <2> QED  BY <2>1, <2>2 DEF NodeSteps
<1>2. CASE Others \/ Connect \/ Opened \/ Activated \/ SpeedIsRight \/ SpeedSet \/ PauseFails \/ Grabs
  BY <1>1, <1>2, StreamSame DEF Others, Connect, Opened, Activated, SpeedIsRight, SpeedSet, PauseFails,
       Grabs, Tick, TimesOut, CopyBegins, CopyEnds, line
<1>3. CASE Activate
  BY <1>1, <1>3, CommandDone, StreamSame DEF Activate
<1>4. CASE Resume
  BY <1>1, <1>4, CommandDone, StreamSame DEF Resume
<1>5. CASE SetRotationSpeed
  BY <1>1, <1>5, CommandDone, StreamSame DEF SetRotationSpeed
<1>6. CASE Stop
  BY <1>1, <1>6, CommandDone, StreamSame DEF Stop
<1> QED  BY <1>2, <1>3, <1>4, <1>5, <1>6 DEF NodeSteps, Starts

\* The step's kinds.
LEMMA Steps ==
  ASSUME [Next]_vars
  PROVE  \/ Emit \/ Silence \/ SpinUp \/ Unplug
         \/ (\E n \in 1..WireLimit : Read(n)) \/ ReadFails \/ Extend \/ Publish \/ Published
         \/ NodeSteps \/ (Ended /\ device' = device) \/ UNCHANGED vars
BY DEF Next, Line, Receive, NodeSteps, StopSilent, Disconnect

\* After the process has ended nothing is on its way.
EndDone ==
  /\ wire' = <<>> /\ bin_buf_' = <<>> /\ head_flag' = FALSE /\ frames' = <<>> /\ temp_data' = <<>>
  /\ last_angle' = 0 /\ rx' = "read" /\ full_scan_data_' = Empty /\ scan_data' = Empty
  /\ node' = "gone" /\ next' = next /\ damage' = damage /\ lag' = 0 /\ Stream' = <<>>

LEMMA Ends ==
  ASSUME Ended
  PROVE  EndDone
<1>1. /\ wire' = <<>> /\ bin_buf_' = <<>> /\ head_flag' = FALSE /\ frames' = <<>> /\ temp_data' = <<>>
      /\ last_angle' = 0 /\ rx' = "read" /\ full_scan_data_' = Empty /\ scan_data' = Empty
      /\ node' = "gone" /\ next' = next /\ damage' = damage /\ lag' = 0
  BY DEF Ended, PortCloses
<1> QED  BY <1>1, NothingComesAfter DEF EndDone

\* The points are typed and the device is at a place of a period.
LEMMA KindsAtStart == Init => Kinds
<1> SUFFICES ASSUME Init PROVE Kinds
  OBVIOUS
<1>1. <<>> \in Seq(Int)
  BY EmptySeq
<1>2. /\ temp_data = <<>> /\ frames = <<>> /\ last_angle = 0 /\ rx = "read" /\ damage = 0 /\ next = 0
      /\ device \in {"idle", "measuring"}
  BY DEF Init
<1>3. MaxDamage \in Nat
  BY LidarAssumption
<1>4. 0 = At(0, 0)
  <2>1. Circle \in Nat \ {0}
    BY CircleTyped
  <2>2. 0 * Circle = 0 /\ 0 % Circle = 0
    <3> HIDE DEF Circle
    <3> QED  BY <2>1
  <2> QED  BY <2>2 DEF At
<1>5. \E period \in {0, 1}, place \in Int : next = At(period, place)
  BY <1>2, <1>4
<1>6. damage \in 0..MaxDamage
  BY <1>2, <1>3
<1>7. last_angle = LastAngle(temp_data)
  BY <1>2 DEF LastAngle
<1>8. temp_data \in Seq(Int) /\ frames \in Seq(Int)
  BY <1>1, <1>2
<1> QED  BY <1>2, <1>5, <1>6, <1>7, <1>8, Zenon DEF Kinds

\* Where the device measures next.
LEMMA PlacesAt ==
  ASSUME NEW period \in {0, 1}, NEW place \in Int, next = At(period, place)
  PROVE  /\ next \in Nat /\ Period(next) = period
         /\ Emit => next' = At(period, place + PerFrame)
         /\ SpinUp => \E a \in Int : next' = At(1 - period, a) /\ 1 - period \in {0, 1}
<1>1. next \in Nat /\ Period(next) = period
  BY PlaceLaw
<1>2. PerFrame \in Int
  BY CircleTyped
<1>3. ASSUME Emit PROVE next' = At(period, place + PerFrame)
  <2>1. next' = After(next, PerFrame)
    BY <1>3 DEF Emit
  <2> QED  BY <1>2, <2>1, AfterLaw
<1>4. ASSUME SpinUp PROVE \E a \in Int : next' = At(1 - period, a) /\ 1 - period \in {0, 1}
  <2>1. PICK a \in 0..PerRev - 1 : next' = (1 - Period(next)) * Circle + a
    BY <1>4 DEF SpinUp
  <2>2. Circle \in Nat \ {0} /\ PerRev \in Nat \ {0} /\ Revs \in Nat \ {0}
    BY CircleTyped
  <2>3. PerRev <= Circle
    BY <2>2 DEF Circle
  <2> HIDE DEF Circle
  <2>4. a \in Int /\ a % Circle = a
    BY <2>2, <2>3
  <2> QED  BY <1>1, <2>1, <2>4 DEF At
<1> QED  BY <1>1, <1>3, <1>4

Placed == \E period \in {0, 1}, place \in Int : next = At(period, place)

\* The points and the frames.
KindsPoints ==
  /\ temp_data \in Seq(Int) /\ frames \in Seq(Int) /\ last_angle = LastAngle(temp_data)
  /\ rx \in {"read", "publish"}

KindsDevice ==
  /\ device \in {"idle", "starting", "measuring", "gone"}
  /\ damage \in 0..MaxDamage /\ Placed

LEMMA KindsParts == Kinds <=> KindsPoints /\ KindsDevice
BY DEF Kinds, KindsPoints, KindsDevice, Placed

LEMMA KindsPointsStay ==
  ASSUME RevolutionsAreLong, WholeHolds, [Next]_vars
  PROVE  KindsPoints'
<1>0. ParserHolds /\ Kinds /\ Buffers /\ KindsPoints
  BY KindsParts DEF WholeHolds
<1>1. CASE UNCHANGED <<temp_data, frames, last_angle, rx>>
  BY <1>0, <1>1 DEF KindsPoints, LastAngle
<1>2. CASE Emit \/ Silence \/ SpinUp \/ Unplug \/ ReadFails
  <2>1. UNCHANGED <<temp_data, frames, last_angle, rx>>
    BY <1>2 DEF Emit, Silence, SpinUp, Unplug, ReadFails, parser, assembly
  <2> QED  BY <1>1, <2>1
<1>3. CASE \E n \in 1..WireLimit : Read(n)
  <2>1. PICK n \in 1..WireLimit : Read(n)
    BY <1>3
  <2>2. ReadDone
    BY <1>0, <2>1, ReadStream DEF Buffers
  <2>3. UNCHANGED <<temp_data, last_angle, rx>>
    BY <2>1 DEF Read, assembly
  <2> QED  BY <1>0, <2>2, <2>3 DEF ReadDone, KindsPoints, LastAngle
<1>4. CASE Extend \/ Publish
  <2>1. PICK w : TakeDone(w)
    BY <1>0, <1>4, TakeStream
  <2>2. /\ temp_data' \in Seq(Int) /\ frames' \in Seq(Int) /\ last_angle' = LastAngle(temp_data')
        /\ rx = "read" /\ (rx' = rx \/ rx' = "publish")
    BY <2>1 DEF TakeDone
  <2> QED  BY <2>2 DEF KindsPoints, LastAngle
<1>5. CASE Published
  <2>1. UNCHANGED <<temp_data, frames, last_angle>> /\ rx' = "read"
    BY <1>5 DEF Published, parser
  <2> QED  BY <1>0, <2>1 DEF KindsPoints, LastAngle
<1>6. CASE NodeSteps
  BY <1>1, <1>6, NodeKeeps
<1>7. CASE Ended /\ device' = device
  <2>1. temp_data' = <<>> /\ frames' = <<>> /\ last_angle' = 0 /\ rx' = "read"
    BY <1>7, Ends DEF EndDone
  <2>2. <<>> \in Seq(Int)
    BY EmptySeq
  <2>3. temp_data' \in Seq(Int) /\ frames' \in Seq(Int)
    BY <2>1, <2>2
  <2>4. last_angle' = LastAngle(temp_data)'
    BY <2>1 DEF LastAngle
  <2> QED  BY <2>1, <2>3, <2>4 DEF KindsPoints
<1>8. CASE UNCHANGED vars
  BY <1>1, <1>8 DEF vars, parser, assembly
<1> QED  BY <1>2, <1>3, <1>4, <1>5, <1>6, <1>7, <1>8, Steps

LEMMA KindsDeviceStay ==
  ASSUME RevolutionsAreLong, WholeHolds, [Next]_vars
  PROVE  KindsDevice'
<1>0. ParserHolds /\ Kinds /\ Buffers /\ KindsDevice
  BY KindsParts DEF WholeHolds
<1>1. CASE UNCHANGED <<device, damage, next>>
  BY <1>0, <1>1 DEF KindsDevice, Placed
<1>2. CASE Emit
  <2>1. PICK period \in {0, 1}, place \in Int : next = At(period, place)
    BY <1>0 DEF KindsDevice, Placed
  <2>2. next \in Nat /\ next' = At(period, place + PerFrame) /\ place + PerFrame \in Int
    BY <1>2, <2>1, PlacesAt, CircleTyped
  <2>3. Placed'
    BY <2>2 DEF Placed
  <2>4. Paired(bin_buf_ \o wire) /\ Len(bin_buf_) < WireLimit
    BY <1>0, <1>2 DEF Buffers, Emit
  <2>5. EmitDone
    BY <1>0, <1>2, <2>2, <2>4, EmitStream
  <2>6. device' = device /\ (damage' = damage \/ (damage < MaxDamage /\ damage' = damage + 1))
    BY <2>5 DEF EmitDone
  <2>7. MaxDamage \in Nat /\ damage \in 0..MaxDamage
    BY <1>0, LidarAssumption DEF KindsDevice
  <2>8. damage' \in 0..MaxDamage
    BY <2>6, <2>7
  <2> QED  BY <1>0, <2>3, <2>6, <2>8 DEF KindsDevice
<1>3. CASE SpinUp
  <2>1. PICK period \in {0, 1}, place \in Int : next = At(period, place)
    BY <1>0 DEF KindsDevice, Placed
  <2>2. Placed'
    BY <1>3, <2>1, PlacesAt DEF Placed
  <2>3. device' = "measuring" /\ damage' = damage
    BY <1>3 DEF SpinUp
  <2> QED  BY <1>0, <2>2, <2>3 DEF KindsDevice
<1>4. CASE Unplug
  <2>1. device' = "gone" /\ damage' = 0 /\ next' = 0 /\ MaxDamage \in Nat
    BY <1>4, LidarAssumption DEF Unplug
  <2>2. 0 = At(0, 0)
    <3>1. Circle \in Nat \ {0}
      BY CircleTyped
    <3>2. 0 * Circle = 0 /\ 0 % Circle = 0
      <4> HIDE DEF Circle
      <4> QED  BY <3>1
    <3> QED  BY <3>2 DEF At
  <2>3. Placed'
    BY <2>1, <2>2 DEF Placed
  <2>4. damage' \in 0..MaxDamage
    BY <2>1
  <2> QED  BY <2>1, <2>3, <2>4 DEF KindsDevice
<1>5. CASE \/ Silence \/ (\E n \in 1..WireLimit : Read(n)) \/ ReadFails \/ Extend \/ Publish \/ Published
           \/ (Ended /\ device' = device) \/ UNCHANGED vars
  <2>1. UNCHANGED <<device, damage, next>>
    BY <1>5 DEF Silence, Read, ReadFails, Extend, Publish, Published, Ended, vars, line
  <2> QED  BY <1>1, <2>1
<1>6. CASE NodeSteps
  <2>1. /\ UNCHANGED <<damage, next>>
        /\ device' = device \/ device' = "starting" \/ device' = "idle"
    BY <1>6, NodeKeeps
  <2> QED  BY <1>0, <2>1 DEF KindsDevice, Placed
<1> QED  BY <1>2, <1>3, <1>4, <1>5, <1>6, Steps

LEMMA KindsStay ==
  ASSUME RevolutionsAreLong, WholeHolds, [Next]_vars
  PROVE  Kinds'
<1>1. KindsPoints' /\ KindsDevice'
  BY KindsPointsStay, KindsDeviceStay
<1> QED  BY <1>1 DEF Kinds, KindsPoints, KindsDevice, Placed

-----------------------------------------------------------------------------
\* The buffers.

LEMMA BuffersAtStart ==
  ASSUME RevolutionsAreLong, Init
  PROVE  Buffers
<1>1. bin_buf_ = <<>> /\ wire = <<>> /\ frames = <<>> /\ rx = "read"
  BY DEF Init
<1>2. WireLimit \in Nat /\ WireLimit >= 3 /\ Backlog \in Nat
  BY LongFacts
<1>3. Len(bin_buf_) = 0 /\ Len(wire) = 0 /\ Len(Stream) = 0
  BY <1>1, NothingComes, EmptySeq
<1>4. Paired(bin_buf_ \o wire)
  <2>1. Len(bin_buf_ \o wire) = 0
    BY <1>1, ConcatProperties, EmptySeq
  <2> QED  BY <2>1 DEF Paired
<1> QED  BY <1>1, <1>2, <1>3, <1>4 DEF Buffers

\* Reads leave fewer units than a tty holds, and a device sends no more than it takes.
LEMMA BuffersStay ==
  ASSUME RevolutionsAreLong, WholeHolds, [Next]_vars
  PROVE  Buffers'
<1>0. ParserHolds /\ Kinds /\ Buffers
  BY DEF WholeHolds
<1>0a. /\ Len(bin_buf_) < WireLimit /\ Len(wire) <= WireLimit /\ Len(Stream) <= Backlog
       /\ device # "gone" => Paired(bin_buf_ \o wire)
       /\ ~valid_data_ => frames = <<>> /\ rx = "read" /\ (device # "measuring" => wire = <<>>)
  BY <1>0 DEF Buffers
<1>0b. WireLimit \in Nat /\ WireLimit >= 3 /\ Backlog \in Nat
  BY LongFacts
<1>1. CASE Emit
  <2>1. PICK period \in {0, 1}, place \in Int : next = At(period, place)
    BY <1>0 DEF Kinds
  <2>2. next \in Nat
    BY <2>1, PlacesAt
  <2>3. Paired(bin_buf_ \o wire)
    BY <1>0a, <1>1 DEF Emit
  <2>4. EmitDone
    BY <1>0, <1>0a, <1>1, <2>2, <2>3, EmitStream
  <2>5. bin_buf_' = bin_buf_ /\ frames' = frames /\ rx' = rx /\ valid_data_' = valid_data_
    BY <1>1 DEF Emit, parser, assembly
  <2> QED  BY <1>0a, <2>4, <2>5 DEF EmitDone, Buffers
<1>2. CASE Silence \/ SpinUp \/ Published \/ UNCHANGED vars
  <2>1. /\ UNCHANGED <<wire, bin_buf_, frames, valid_data_>>
        /\ device' = device \/ (device # "measuring" /\ device # "gone" /\ device' = "measuring")
        /\ rx' = rx \/ rx' = "read"
    BY <1>2 DEF Silence, SpinUp, Published, vars, line, parser, assembly
  <2>2. Stream' = Stream
    BY <2>1, StreamSame
  <2> QED  BY <1>0a, <2>1, <2>2 DEF Buffers
<1>3. CASE Unplug
  <2>1. UNCHANGED <<bin_buf_, frames, valid_data_, rx>> /\ wire' = <<>> /\ device' = "gone"
    BY <1>3 DEF Unplug, parser, assembly
  <2>2. Len(wire') = 0
    BY <2>1, EmptySeq
  <2>3. Len(Stream') <= Len(Stream) /\ Len(Stream) \in Nat /\ Len(Stream') \in Nat
    <3>1. /\ bin_buf_ \in Seq(Int) /\ wire \in Seq(Int) /\ frames \in Seq(Int)
          /\ Intact(bin_buf_) \in Seq(Int)
      BY <1>0, IntactTyped DEF ParserHolds, Kinds
    <3>2. PICK t \in Seq(Int) : Intact(bin_buf_ \o wire) = Intact(bin_buf_) \o t
      BY <3>1, IntactFirst
    <3>3. bin_buf_' \o wire' = bin_buf_
      BY <2>1, <3>1, ConcatEmptySeq
    <3>4. Stream' = frames \o Intact(bin_buf_)
      BY <2>1, <3>3 DEF Stream
    <3>5. /\ Stream = frames \o (Intact(bin_buf_) \o t)
      BY <3>2 DEF Stream
    <3>6. /\ Intact(bin_buf_) \o t \in Seq(Int) /\ Len(Intact(bin_buf_) \o t) = Len(Intact(bin_buf_)) + Len(t)
          /\ Len(t) \in Nat /\ Len(Intact(bin_buf_)) \in Nat /\ Len(frames) \in Nat
      BY <3>1, ConcatProperties, LenProperties
    <3>7. /\ Len(Stream) = Len(frames) + (Len(Intact(bin_buf_)) + Len(t))
          /\ Len(Stream') = Len(frames) + Len(Intact(bin_buf_))
      BY <3>1, <3>4, <3>5, <3>6, ConcatProperties
    <3> QED  BY <3>6, <3>7
  <2>4. Len(Stream') <= Backlog
    BY <1>0a, <1>0b, <2>3
  <2> QED  BY <1>0a, <1>0b, <2>1, <2>2, <2>4 DEF Buffers
<1>4. CASE \E n \in 1..WireLimit : Read(n)
  <2>1. PICK n \in 1..WireLimit : Read(n)
    BY <1>4
  <2>2. ReadDone
    BY <1>0, <1>0a, <2>1, ReadStream
  <2>3. valid_data_' = TRUE /\ device' = device
    BY <2>1 DEF Read
  <2> QED  BY <1>0a, <2>2, <2>3 DEF ReadDone, Buffers
<1>5. CASE ReadFails
  <2>1. /\ UNCHANGED <<device, wire, bin_buf_, frames, rx>>
        /\ rx = "read" /\ frames = <<>> /\ wire = <<>> /\ device # "measuring"
    BY <1>5 DEF ReadFails, line, parser, assembly
  <2>2. Stream' = Stream
    BY <2>1, StreamSame
  <2> QED  BY <1>0a, <2>1, <2>2 DEF Buffers
<1>6. CASE Extend \/ Publish
  <2>1. PICK w : TakeDone(w)
    BY <1>0, <1>6, TakeStream
  <2>2. /\ UNCHANGED <<device, wire, bin_buf_, valid_data_>> /\ frames # <<>>
        /\ Len(Stream') <= Len(Stream) /\ Stream' = Tail(Stream) /\ Stream # <<>>
    BY <2>1 DEF TakeDone
  <2>3. Len(Stream') <= Backlog
    <3>1. Stream \in Seq(Int)
      BY <1>0, StreamTyped DEF Kinds
    <3>2. Len(Stream) \in Nat /\ Len(Tail(Stream)) \in Nat
      BY <2>2, <3>1, TailTyped, LenProperties
    <3> QED  BY <1>0a, <1>0b, <2>2, <3>2
  <2> QED  BY <1>0a, <2>2, <2>3 DEF Buffers
<1>7. CASE NodeSteps
  <2>1. /\ UNCHANGED <<wire, bin_buf_, frames, rx, valid_data_>> /\ Stream' = Stream
        /\ \/ device' = device
           \/ device = "idle" /\ device' = "starting"
           \/ valid_data_ /\ device # "gone" /\ device' = "idle"
    BY <1>7, NodeKeeps
  <2> QED  BY <1>0a, <2>1 DEF Buffers
<1>8. CASE Ended /\ device' = device
  <2>1. bin_buf_' = <<>> /\ wire' = <<>> /\ frames' = <<>> /\ rx' = "read" /\ Stream' = <<>>
    BY <1>8, Ends DEF EndDone
  <2>2. Len(bin_buf_') = 0 /\ Len(wire') = 0 /\ Len(Stream') = 0
    BY <2>1, EmptySeq
  <2>3. Paired(bin_buf_' \o wire')
    <3>1. Len(bin_buf_' \o wire') = 0
      BY <2>1, ConcatProperties, EmptySeq
    <3> QED  BY <3>1 DEF Paired
  <2> QED  BY <1>0b, <2>1, <2>2, <2>3 DEF Buffers
<1> QED  BY <1>1, <1>2, <1>3, <1>4, <1>5, <1>6, <1>7, <1>8, Steps

-----------------------------------------------------------------------------
\* A device that has not measured yet has sent nothing.

LEMMA FreshStays ==
  ASSUME RevolutionsAreLong, WholeHolds, [Next]_vars
  PROVE  Fresh'
<1>0. ParserHolds /\ Kinds /\ Buffers /\ (Early => temp_data = <<>> /\ Stream = <<>>)
  BY DEF WholeHolds, Fresh
<1> SUFFICES ASSUME Early' PROVE temp_data' = <<>> /\ Stream' = <<>>
  BY DEF Fresh
<1>1. CASE Early /\ UNCHANGED <<temp_data>> /\ Stream' = Stream
  BY <1>0, <1>1
<1>2. CASE Emit \/ SpinUp \/ Unplug
  <2>1. device' = "measuring" \/ device' = "gone"
    BY <1>2 DEF Emit, SpinUp, Unplug
  <2> QED  BY <2>1 DEF Early
<1>3. CASE Silence \/ ReadFails \/ Published \/ UNCHANGED vars
  <2>1. /\ UNCHANGED <<wire, bin_buf_, frames, temp_data, device>>
        /\ node' = node \/ (node = "waiting" /\ node' = "woken")
    BY <1>3 DEF Silence, ReadFails, Published, SetEvent, vars, line, parser, assembly, consumer
  <2>2. Stream' = Stream
    BY <2>1, StreamSame
  <2>3. Early
    BY <2>1 DEF Early
  <2> QED  BY <1>1, <2>1, <2>2, <2>3
<1>4. CASE \E n \in 1..WireLimit : Read(n)
  <2>1. PICK n \in 1..WireLimit : Read(n)
    BY <1>4
  <2>2. ReadDone
    BY <1>0, <2>1, ReadStream DEF Buffers
  <2>3. UNCHANGED <<temp_data, device, node>>
    BY <2>1 DEF Read, assembly, consumer
  <2>4. Early
    BY <2>3 DEF Early
  <2> QED  BY <1>1, <2>2, <2>3, <2>4 DEF ReadDone
<1>5. CASE Extend \/ Publish
  <2>1. PICK w : TakeDone(w)
    BY <1>0, <1>5, TakeStream
  <2>2. UNCHANGED <<device, node>> /\ Stream # <<>>
    BY <2>1 DEF TakeDone
  <2>3. Early
    BY <2>2 DEF Early
  <2> QED  BY <1>0, <2>2, <2>3
<1>6. CASE NodeSteps
  <2>1. UNCHANGED <<temp_data>> /\ Stream' = Stream
    BY <1>6, NodeKeeps
  <2>2. Early
    <3>1. CASE Others \/ Connect \/ Opened \/ Activated \/ SpeedIsRight \/ PauseFails \/ Grabs
      BY <3>1 DEF Early, Others, Connect, Opened, Activated, SpeedIsRight, PauseFails, Grabs, Tick,
           TimesOut, CopyBegins, CopyEnds, line, consumer
    <3>2. CASE Activate
      <4>1. node = "connected" /\ (device' = device \/ device = "idle")
        BY <1>6, <3>2, NodeKeeps, CommandDone DEF Activate
      <4> QED  BY <4>1 DEF Early
    <3>3. CASE Resume
      BY <3>3 DEF Early, Resume
    <3>4. CASE SpeedSet
      BY <3>4 DEF Early, SpeedSet
    <3>5. CASE SetRotationSpeed
      <4>1. /\ node = "speed" /\ node' \in {"pausing", "grab"}
            /\ device' = device \/ device' = "idle"
        BY <3>5, CommandDone DEF SetRotationSpeed
      <4> QED  BY <4>1 DEF Early
    <3>6. CASE Stop
      <4>1. node' = "leaving" /\ (device' = device \/ device' = "idle") /\ node = "grab"
        BY <3>6, CommandDone DEF Stop
      <4> QED  BY <4>1 DEF Early
    <3> QED  BY <1>6, <3>1, <3>2, <3>3, <3>4, <3>5, <3>6 DEF NodeSteps, Starts
  <2> QED  BY <1>1, <2>1, <2>2
<1>7. CASE Ended /\ device' = device
  BY <1>7, Ends DEF EndDone
<1> QED  BY <1>2, <1>3, <1>4, <1>5, <1>6, <1>7, Steps

\* Halves of the memory.
LEMMA HalvesTyped ==
  /\ Empty \in [1..2 -> Seq(Int)] /\ Empty[1] = <<>> /\ Empty[2] = <<>>
  /\ \A h \in [1..2 -> Seq(Int)], s \in Seq(Int), i \in 1..2 :
       /\ [h EXCEPT ![i] = s] \in [1..2 -> Seq(Int)] /\ [h EXCEPT ![i] = s][i] = s
       /\ \A k \in 1..2 : k # i => [h EXCEPT ![i] = s][k] = h[k]
<1>1. <<>> \in Seq(Int)
  BY EmptySeq
<1>2. \A x : x \in Seq(Int) => <<x, x>> \in [1..2 -> Seq(Int)] /\ <<x, x>>[1] = x /\ <<x, x>>[2] = x
  OBVIOUS
<1>3. Empty = <<<<>>, <<>>>>
  BY DEF Empty
<1>4. Empty \in [1..2 -> Seq(Int)] /\ Empty[1] = <<>> /\ Empty[2] = <<>>
  BY <1>1, <1>2, <1>3, Zenon
<1>5. \A h \in [1..2 -> Seq(Int)], s \in Seq(Int), i \in 1..2 :
       /\ [h EXCEPT ![i] = s] \in [1..2 -> Seq(Int)] /\ [h EXCEPT ![i] = s][i] = s
       /\ \A k \in 1..2 : k # i => [h EXCEPT ![i] = s][k] = h[k]
  OBVIOUS
<1> QED  BY <1>4, <1>5

\* The parts of Scans.
Typed == full_scan_data_ \in [1..2 -> Seq(Int)] /\ scan_data \in [1..2 -> Seq(Int)]
Announced == rx = "publish" /\ Settled /\ FirstAtZero(full_scan_data_[1]) => Rising(full_scan_data_[1])
Woken == Awake => rx = "read" /\ full_scan_data_[1] = full_scan_data_[2] /\ Whole(full_scan_data_[1])
Copied ==
  IF node = "copying" THEN scan_data[1] = full_scan_data_[1]
  ELSE scan_data[2] = <<>> \/ (scan_data[1] = scan_data[2] /\ Whole(scan_data[1]))

LEMMA ScansParts == Scans <=> Typed /\ Announced /\ Woken /\ Copied
BY DEF Scans, Typed, Announced, Woken, Copied

LEMMA ScansSame ==
  ASSUME Scans, UNCHANGED <<full_scan_data_, scan_data, rx, node>>
  PROVE  Scans'
BY ScansParts DEF Scans, Awake, Settled, Whole, FirstAtZero, Rising

\* Nothing is published or copied at the start.
LEMMA ScansAtStart == Init => Scans
<1> SUFFICES ASSUME Init PROVE Scans
  OBVIOUS
<1>1. full_scan_data_ = Empty /\ scan_data = Empty /\ rx = "read" /\ node = "offline"
  BY DEF Init, NodeInit
<1>2. Typed /\ Announced /\ Woken /\ Copied
  BY <1>1, HalvesTyped, "read" # "publish" DEF Typed, Announced, Woken, Copied, Awake
<1> QED  BY <1>2, ScansParts

\* What a frame leaves and publishes while the node may be woken.
LEMMA TakeOwed ==
  ASSUME RevolutionsAreLong, WholeHolds, NEW w, TakeDone(w),
         NEW V, V = temp_data \o SubSeq(Points(frames[1]), 1, w - 1)
  PROVE  /\ Awake => w = 0
         /\ w # 0 /\ Settled /\ FirstAtZero(V) => Rising(V)
<1>0. ParserHolds /\ Kinds /\ Links /\ Len(Stream) <= Backlog /\ lag \in 0..Delay
  BY DEF WholeHolds, Buffers, AgeHolds
<1>1. frames # <<>>
  BY DEF TakeDone
<1> SUFFICES ASSUME Settled
             PROVE  (Awake => w = 0) /\ (w # 0 /\ FirstAtZero(V) => Rising(V))
  BY DEF Awake, Settled
<1>2. ~Aside
  BY <1>1 DEF Aside, Settled
<1>3. PICK period \in {0, 1}, u \in Int, c \in Int, d \in 0..MaxDamage, m \in Nat, j \in Nat,
           f \in [1..Len(Stream) -> Int] : Linked(period, u, c, d, m, j, f)
  BY <1>0, <1>2 DEF Links, InOrder
<1>4. /\ Chain(Stream, temp_data, period, u, c, d, m, j, f)
      /\ m + j > 0 => node = "running"
      /\ Awake => temp_data # <<>> /\ RoomLeft(u, c, lag)
  BY <1>3 DEF Linked
<1>5. m + j = 0
  BY <1>4 DEF Settled
<1>6. Taken(Stream, temp_data, temp_data', V, w, period, u, c, d, m, j)
  BY <1>0, <1>4, TakeLinks
<1>7. PICK e \in Int :
        /\ m + j = 0 /\ temp_data # <<>> => \A l \in 0..Delay : RoomLeft(u, c, l) => w = 0 /\ RoomLeft(u, e, l)
        /\ m + j = 0 /\ w # 0 /\ Len(Stream) <= Backlog => RoomLeft(u, e, 0) /\ (FirstAtZero(V) => Rising(V))
  BY <1>6 DEF Taken
<1> QED  BY <1>0, <1>4, <1>5, <1>7

\* A scan is published whole, and while it is copied the next one is not begun.
LEMMA ScansStay ==
  ASSUME RevolutionsAreLong, WholeHolds, [Next]_vars
  PROVE  Scans'
<1>0. ParserHolds /\ Kinds /\ Buffers /\ Scans /\ Typed /\ Announced /\ Woken /\ Copied
  BY ScansParts DEF WholeHolds
<1>1. CASE \/ Emit \/ Silence \/ SpinUp \/ Unplug \/ (\E n \in 1..WireLimit : Read(n)) \/ ReadFails
           \/ UNCHANGED vars
  <2>1. UNCHANGED <<full_scan_data_, scan_data, rx, node>>
    BY <1>1 DEF Emit, Silence, SpinUp, Unplug, Read, ReadFails, vars, assembly, shared, consumer
  <2> QED  BY <1>0, <2>1, ScansSame
<1>2. CASE Extend \/ Publish
  <2>1. PICK w : TakeDone(w)
    BY <1>0, <1>2, TakeStream
  <2> DEFINE W == Points(frames[1])
             V == temp_data \o SubSeq(W, 1, w - 1)
  <2>2. /\ UNCHANGED <<node, scan_data>> /\ W \in Seq(Int) /\ Len(W) = PerFrame
        /\ IF w = 0 THEN rx' = rx /\ full_scan_data_' = full_scan_data_
           ELSE rx' = "publish" /\ full_scan_data_' = [full_scan_data_ EXCEPT ![1] = V]
    BY <2>1 DEF TakeDone
  <2>3. (Awake => w = 0) /\ (w # 0 /\ Settled /\ FirstAtZero(V) => Rising(V))
    BY <2>1, TakeOwed
  <2>4. CASE w = 0
    BY <1>0, <2>2, <2>4, ScansSame
  <2>5. CASE w # 0
    <3>1. V \in Seq(Int)
      <4>1. w \in 0..PerFrame
        <5>1. W \in Seq(Int) /\ last_angle \in Int /\ w = Wrap(W)
          <6>1. temp_data \in Seq(Int) /\ last_angle = LastAngle(temp_data)
            BY <1>0 DEF Kinds
          <6>2. last_angle \in Int
            <7>1. CASE temp_data = <<>>
              BY <6>1, <7>1 DEF LastAngle
            <7>2. CASE temp_data # <<>>
              <8>1. temp_data[Len(temp_data)] \in Int /\ PerRev \in Nat \ {0}
                BY <6>1, <7>2, CircleTyped, LenProperties, EmptySeq
              <8>2. Angle(temp_data[Len(temp_data)]) \in Int
                BY <8>1 DEF Angle
              <8> QED  BY <6>1, <7>2, <8>2 DEF LastAngle
            <7> QED  BY <7>1, <7>2
          <6> QED  BY <2>1, <2>2, <6>2 DEF TakeDone
        <5> HIDE DEF W
        <5> QED  BY <2>2, <5>1, WrapLaw
      <4>2. SubSeq(W, 1, w - 1) \in Seq(Int) /\ temp_data \in Seq(Int)
        <5>1. w - 1 \in 0..Len(W) /\ PerFrame \in Nat
          BY <2>2, <2>5, <4>1, CircleTyped
        <5>2. \A i \in 1..w - 1 : W[i] \in Int
          BY <2>2, <5>1
        <5>3. SubSeq(W, 1, w - 1) \in Seq(Int)
          BY <2>2, <5>1, <5>2, SubSeqProperties
        <5> QED  BY <1>0, <5>3 DEF Kinds
      <4> QED  BY <4>2, ConcatProperties
    <3> HIDE DEF V
    <3>2. /\ rx' = "publish" /\ full_scan_data_' = [full_scan_data_ EXCEPT ![1] = V] /\ ~Awake
          /\ node' = node /\ scan_data' = scan_data
      BY <2>2, <2>3, <2>5
    <3>3. full_scan_data_' \in [1..2 -> Seq(Int)] /\ full_scan_data_'[1] = V /\ scan_data' \in [1..2 -> Seq(Int)]
      BY <1>0, <3>1, <3>2, HalvesTyped DEF Typed
    <3>4. Typed'
      BY <3>3 DEF Typed
    <3>5. Announced'
      BY <2>3, <2>5, <3>2, <3>3 DEF Announced, Settled, FirstAtZero, Rising
    <3>6. Woken' /\ Copied'
      BY <1>0, <3>2 DEF Woken, Copied, Awake, Whole, FirstAtZero, Rising
    <3> QED  BY <3>4, <3>5, <3>6, ScansParts DEF Scans, Typed, Announced, Woken, Copied
  <2> QED  BY <2>4, <2>5
<1>3. CASE Published
  <2>1. /\ rx = "publish" /\ rx' = "read" /\ scan_data' = scan_data
        /\ full_scan_data_' = [full_scan_data_ EXCEPT ![2] = full_scan_data_[1]]
        /\ \/ node' = node
           \/ /\ full_scan_data_[1] # <<>> /\ Angle(full_scan_data_[1][1]) = 0
              /\ node = "waiting" /\ node' = "woken"
    BY <1>3 DEF Published, SetEvent
  <2>2. ~Awake
    BY <1>0, <2>1 DEF Woken
  <2>3. full_scan_data_ \in [1..2 -> Seq(Int)] /\ full_scan_data_[1] \in Seq(Int)
    BY <1>0 DEF Typed
  <2>4. /\ full_scan_data_' \in [1..2 -> Seq(Int)] /\ full_scan_data_'[1] = full_scan_data_[1]
        /\ full_scan_data_'[2] = full_scan_data_[1]
    BY <2>1, <2>3, HalvesTyped
  <2>5. Typed' /\ Announced'
    BY <1>0, <2>1, <2>4 DEF Typed, Announced
  <2>6. Woken'
    <3>1. SUFFICES ASSUME node' \in {"woken", "copying"}
                   PROVE  FirstAtZero(full_scan_data_[1]) /\ Rising(full_scan_data_[1])
      BY <2>1, <2>4 DEF Woken, Awake, Whole, FirstAtZero, Rising
    <3>2. full_scan_data_[1] # <<>> /\ Angle(full_scan_data_[1][1]) = 0 /\ node = "waiting"
      BY <2>1, <2>2, <3>1 DEF Awake
    <3> QED  BY <1>0, <2>1, <3>2 DEF Announced, Settled, FirstAtZero
  <2>7. Copied'
    BY <1>0, <2>1, <2>2 DEF Copied, Awake, Whole, FirstAtZero, Rising
  <2> QED  BY <2>5, <2>6, <2>7, ScansParts DEF Scans, Typed, Announced, Woken, Copied
<1>4. CASE NodeSteps
  <2>1. rx' = rx
    BY <1>4, NodeKeeps
  <2>2. CASE UNCHANGED <<full_scan_data_, scan_data>> /\ node # "copying"
             /\ node' \notin {"woken", "copying"} /\ (node \in {"running", "leaving", "gone"} => rx = "read")
    <3>1. Typed' /\ Announced' /\ Woken' /\ Copied'
      BY <1>0, <2>1, <2>2 DEF Typed, Announced, Woken, Copied, Settled, Awake, Whole, FirstAtZero, Rising
    <3> QED  BY <3>1, ScansParts DEF Scans, Typed, Announced, Woken, Copied
  <2>3. CASE Others \/ Connect \/ Opened \/ Activate \/ Activated \/ SpeedIsRight \/ SetRotationSpeed \/ PauseFails \/ TimesOut
    BY <2>2, <2>3 DEF Others, Connect, Opened, Activate, Activated, SpeedIsRight, SetRotationSpeed,
         PauseFails, TimesOut, Quiet, shared, consumer
  <2>4. CASE SpeedSet
    <3>1. /\ node = "running" /\ node' = "grab" /\ UNCHANGED <<full_scan_data_, scan_data>>
          /\ rx = "read" \/ ~valid_data_
      BY <2>4 DEF SpeedSet, Quiet, shared
    <3>2. rx = "read"
      BY <1>0, <3>1 DEF Buffers
    <3> QED  BY <2>2, <3>1, <3>2
  <2>5. CASE Stop
    BY <2>2, <2>5 DEF Stop, Quiet, shared
  <2>6. CASE Resume
    <3>1. /\ full_scan_data_' = Empty /\ scan_data' = scan_data /\ node = "pausing" /\ node' = "running"
      BY <2>6 DEF Resume, ClearPoints, Quiet
    <3>2. Typed' /\ Announced' /\ Woken' /\ Copied'
      BY <1>0, <3>1, HalvesTyped DEF Typed, Announced, Woken, Copied, Settled, Awake, Whole, FirstAtZero, Rising
    <3> QED  BY <3>2, ScansParts DEF Scans, Typed, Announced, Woken, Copied
  <2>7. CASE Tick
    <3>1. /\ full_scan_data_' = full_scan_data_ /\ scan_data' = Empty /\ node = "grab" /\ node' = "waiting"
      BY <2>7 DEF Tick, shared
    <3>2. Typed' /\ Announced' /\ Woken' /\ Copied'
      BY <1>0, <2>1, <3>1, HalvesTyped DEF Typed, Announced, Woken, Copied, Settled, Awake, FirstAtZero, Rising
    <3> QED  BY <3>2, ScansParts DEF Scans, Typed, Announced, Woken, Copied
  <2>8. CASE CopyBegins
    <3>1. CASE full_scan_ready_
      <4>1. /\ full_scan_data_' = full_scan_data_ /\ node = "woken" /\ node' = "copying"
            /\ scan_data' = [scan_data EXCEPT ![1] = full_scan_data_[1]]
        BY <2>8, <3>1 DEF CopyBegins, shared
      <4>2. full_scan_data_[1] \in Seq(Int)
        BY <1>0 DEF Typed
      <4>3. scan_data' \in [1..2 -> Seq(Int)] /\ scan_data'[1] = full_scan_data_[1]
        BY <1>0, <4>1, <4>2, HalvesTyped DEF Typed
      <4>4. Typed' /\ Announced' /\ Woken' /\ Copied'
        BY <1>0, <2>1, <4>1, <4>3 DEF Typed, Announced, Woken, Copied, Settled, Awake, Whole, FirstAtZero, Rising
      <4> QED  BY <4>4, ScansParts DEF Scans, Typed, Announced, Woken, Copied
    <3>2. CASE ~full_scan_ready_
      BY <2>2, <2>8, <3>2 DEF CopyBegins, shared
    <3> QED  BY <3>1, <3>2
  <2>9. CASE CopyEnds
    <3>1. /\ full_scan_data_' = full_scan_data_ /\ node = "copying" /\ node' = "grab"
          /\ scan_data' = [scan_data EXCEPT ![2] = full_scan_data_[2]]
      BY <2>9 DEF CopyEnds
    <3>2. full_scan_data_[2] \in Seq(Int)
      BY <1>0 DEF Typed
    <3>3. /\ scan_data' \in [1..2 -> Seq(Int)] /\ scan_data'[2] = full_scan_data_[2]
          /\ scan_data'[1] = scan_data[1]
      BY <1>0, <3>1, <3>2, HalvesTyped DEF Typed
    <3>4. /\ full_scan_data_[1] = full_scan_data_[2] /\ Whole(full_scan_data_[1])
          /\ scan_data[1] = full_scan_data_[1]
      BY <1>0, <3>1 DEF Woken, Copied, Awake
    <3>5. Typed' /\ Announced' /\ Woken'
      BY <1>0, <2>1, <3>1, <3>3 DEF Typed, Announced, Woken, Settled, Awake, FirstAtZero, Rising
    <3>6. Copied'
      <4>1. scan_data'[1] = scan_data'[2] /\ scan_data'[1] = full_scan_data_[1] /\ node' # "copying"
        BY <3>1, <3>3, <3>4
      <4>2. Whole(scan_data'[1])
        BY <3>4, <4>1
      <4> QED  BY <4>1, <4>2 DEF Copied, Whole, FirstAtZero, Rising
    <3> QED  BY <3>5, <3>6, ScansParts DEF Scans, Typed, Announced, Woken, Copied
  <2> QED  BY <1>4, <2>3, <2>4, <2>5, <2>6, <2>7, <2>8, <2>9 DEF NodeSteps, Starts, Grabs
<1>5. CASE Ended /\ device' = device
  <2>1. full_scan_data_' = Empty /\ scan_data' = Empty /\ rx' = "read" /\ node' = "gone"
    BY <1>5, Ends DEF EndDone
  <2>2. Typed' /\ Announced' /\ Woken' /\ Copied'
    BY <2>1, HalvesTyped DEF Typed, Announced, Woken, Copied, Awake
  <2> QED  BY <2>2, ScansParts DEF Scans, Typed, Announced, Woken, Copied
<1> QED  BY <1>1, <1>2, <1>3, <1>4, <1>5, Steps

\* A scan waits to be published, or for the node to copy it.
Owed == (rx = "publish" /\ Settled) \/ Awake

\* A frame that comes takes the room of one frame's time.
LEMMA Room ==
  ASSUME NEW u \in Int, NEW c \in Int, NEW l \in Nat, RoomLeft(u, c, l), l < Delay
  PROVE  /\ RoomLeft(u + PerFrame, c, l + 1) /\ RoomLeft(u, c, l + 1)
         /\ \A v \in Int : v <= u => RoomLeft(v, c, l)
<1> DEFINE R == PerRev * (c \div PerRev + 1)
<1>1. PerFrame \in Nat /\ PerRev \in Nat \ {0} /\ Delay \in Nat
  BY CircleTyped, LidarAssumption
<1>2. R \in Int
  <2>1. c \div PerRev \in Int
    BY <1>1
  <2> QED  BY <1>1, <2>1
<1> DEFINE a == PerFrame * (Delay - l)
           b == PerFrame * (Delay - (l + 1))
<1>3. a \in Int /\ b \in Int /\ a = b + PerFrame
  <2>1. Delay - l \in Int /\ Delay - (l + 1) \in Int /\ Delay - l = (Delay - (l + 1)) + 1
    BY <1>1
  <2> DEFINE x == Delay - (l + 1)
  <2>2. PerFrame * (x + 1) = PerFrame * x + PerFrame /\ PerFrame * x \in Int
    <3>1. x \in Int
      BY <2>1
    <3> HIDE DEF x
    <3> QED  BY <1>1, <3>1
  <2>3. PerFrame * (Delay - l) = PerFrame * x + PerFrame
    BY <2>1, <2>2
  <2> QED  BY <1>1, <2>2, <2>3
<1>4. u + a <= R
  BY DEF RoomLeft
<1> HIDE DEF R, a, b
<1>5. (u + PerFrame) + b <= R /\ u + b <= R /\ \A v \in Int : v <= u => v + a <= R
  BY <1>1, <1>2, <1>3, <1>4
<1> QED  BY <1>5 DEF RoomLeft, R, a, b

\* An earlier place leaves more room.
LEMMA RoomOfLess ==
  ASSUME NEW u \in Int, NEW c \in Int, NEW l \in Int, RoomLeft(u, c, l), NEW v \in Int, v <= u
  PROVE  RoomLeft(v, c, l)
<1> DEFINE R == PerRev * (c \div PerRev + 1)
           a == PerFrame * (Delay - l)
<1>1. PerFrame \in Nat /\ PerRev \in Nat \ {0} /\ Delay \in Nat
  BY CircleTyped, LidarAssumption
<1>2. R \in Int
  <2>1. c \div PerRev \in Int
    BY <1>1
  <2> QED  BY <1>1, <2>1
<1>3. a \in Int
  <2>1. Delay - l \in Int
    BY <1>1
  <2> QED  BY <1>1, <2>1
<1>4. u + a <= R
  BY DEF RoomLeft
<1> HIDE DEF R, a
<1>5. v + a <= R
  BY <1>2, <1>3, <1>4
<1> QED  BY <1>5 DEF RoomLeft, R, a

\* A node that ends, and one that will find no scan, never send another.
LEMMA AsideStays ==
  ASSUME WholeHolds, [Next]_vars, Aside
  PROVE  Aside'
<1>0. /\ ParserHolds /\ Kinds
      /\ ~valid_data_ => frames = <<>> /\ rx = "read" /\ (device # "measuring" => wire = <<>>)
  BY DEF WholeHolds, Buffers
<1>1. CASE node \in {"leaving", "gone"}
  <2>1. node' \in {"leaving", "gone"}
    BY <1>1 DEF Next, Line, Receive, Starts, Grabs, Emit, Silence, SpinUp, Unplug, Read, ReadFails, Extend,
         Publish, Published, SetEvent, Others, Connect, Opened, Activate, Activated, SpeedIsRight,
         SpeedSet, SetRotationSpeed, PauseFails, Resume, Tick, TimesOut, CopyBegins, CopyEnds, Stop,
         StopSilent, Disconnect, Ended, vars, consumer
  <2> QED  BY <2>1 DEF Aside
<1>2. CASE node = "running" /\ device = "gone"
  <2>1. CASE NodeSteps
    <3>1. SpeedSet
      BY <1>2, <2>1 DEF NodeSteps, Starts, Grabs, Others, Connect, Opened, Activate, Activated,
           SpeedIsRight, SetRotationSpeed, PauseFails, Resume, Tick, TimesOut, CopyBegins, CopyEnds, Stop
    <3>2. ~valid_data_ /\ node' = "grab" /\ device' = device
      BY <1>2, <3>1 DEF SpeedSet
    <3>3. UNCHANGED <<frames, wire, rx>>
      BY <2>1, NodeKeeps
    <3> QED  BY <1>0, <1>2, <3>2, <3>3 DEF Aside
  <2>2. CASE \/ Silence \/ (\E n \in 1..WireLimit : Read(n)) \/ ReadFails \/ Extend \/ Publish \/ Published
             \/ UNCHANGED vars
    <3>1. node' = node /\ device' = device
      BY <1>2, <2>2 DEF Silence, Read, ReadFails, Extend, Publish, Published, SetEvent, vars, line, consumer
    <3> QED  BY <1>2, <3>1 DEF Aside
  <2>3. CASE Ended /\ device' = device
    BY <2>3, Ends DEF EndDone, Aside
  <2>4. CASE Emit \/ SpinUp \/ Unplug
    BY <1>2, <2>4 DEF Emit, SpinUp, Unplug
  <2> QED  BY <2>1, <2>2, <2>3, <2>4, Steps
<1>3. CASE /\ device \in {"idle", "gone"} /\ frames = <<>> /\ wire = <<>> /\ rx = "read"
           /\ node \in {"grab", "waiting"}
  <2>1. CASE NodeSteps
    <3>1. CASE Tick \/ TimesOut
      <4>1. UNCHANGED <<frames, wire, rx, device>> /\ node' \in {"grab", "waiting"}
        BY <3>1 DEF Tick, TimesOut, line, parser, assembly
      <4> QED  BY <1>3, <4>1 DEF Aside
    <3>2. CASE Stop
      BY <3>2 DEF Stop, Aside
    <3> QED  BY <1>3, <2>1, <3>1, <3>2 DEF NodeSteps, Starts, Grabs, Others, Connect, Opened, Activate,
                Activated, SpeedIsRight, SpeedSet, SetRotationSpeed, PauseFails, Resume, CopyBegins, CopyEnds
  <2>2. CASE Silence \/ ReadFails \/ UNCHANGED vars
    <3>1. UNCHANGED <<frames, wire, rx, device, node>>
      BY <2>2 DEF Silence, ReadFails, vars, line, parser, assembly, consumer
    <3> QED  BY <1>3, <3>1 DEF Aside
  <2>3. CASE Unplug
    <3>1. UNCHANGED <<frames, rx, node>> /\ device' = "gone" /\ wire' = <<>>
      BY <2>3 DEF Unplug, parser, assembly, consumer
    <3> QED  BY <1>3, <3>1 DEF Aside
  <2>4. CASE \E n \in 1..WireLimit : Read(n)
    <3>1. PICK n \in 1..WireLimit : Read(n)
      BY <2>4
    <3>2. n <= Len(wire) /\ Len(wire) = 0 /\ WireLimit \in Nat
      BY <1>3, <3>1, EmptySeq, LidarAssumption DEF Read
    <3> QED  BY <3>2
  <2>5. CASE Emit \/ SpinUp \/ Extend \/ Publish \/ Published
    BY <1>3, <2>5 DEF Emit, SpinUp, Extend, Publish, Published
  <2>6. CASE Ended /\ device' = device
    BY <2>6, Ends DEF EndDone, Aside
  <2> QED  BY <2>1, <2>2, <2>3, <2>4, <2>5, <2>6, Steps
<1> QED  BY <1>1, <1>2, <1>3 DEF Aside

\* What a step has to show.
LEMMA LinkedNext ==
  ASSUME NEW period, NEW u, NEW c, NEW d, NEW m \in Nat, NEW j \in Nat, NEW f,
         Chain(Stream', temp_data', period, u, c, d, m, j, f),
         device' # "gone" => next' = At(period, u) /\ d = damage',
         m + j > 0 => node' = "running" /\ device' = "measuring",
         Owed' => temp_data' # <<>> /\ RoomLeft(u, c, lag')
  PROVE  Links'
<1>1. Chain(Stream, temp_data, period, u, c, d, m, j, f)'
  BY DEF Chain, Follows, FirstAtZero, Rising
<1>2. Linked(period, u, c, d, m, j, f)'
  BY <1>1 DEF Linked, Owed, RoomLeft
<1>3. /\ period \in {0, 1} /\ u \in Int /\ c \in Int /\ d \in 0..MaxDamage
      /\ f \in [1..Len(Stream') -> Int]
  BY DEF Chain
<1>4. InOrder'
  BY <1>2, <1>3 DEF InOrder
<1> QED  BY <1>4 DEF Links

\* The premises of the steps, in one predicate.
Before(period, u, c, d, m, j, f) ==
  /\ WholeHolds /\ Linked(period, u, c, d, m, j, f)
  /\ period \in {0, 1} /\ u \in Int /\ c \in Int /\ d \in 0..MaxDamage /\ m \in Nat /\ j \in Nat
  /\ f \in [1..Len(Stream) -> Int]

Facts(period, u, c, d, m, j, f) ==
  /\ ParserHolds /\ Kinds /\ Buffers /\ Fresh /\ Scans /\ lag \in 0..Delay /\ (~Awake => lag = 0)
  /\ Chain(Stream, temp_data, period, u, c, d, m, j, f)
  /\ Follows(Stream, temp_data, period, u, c, d, m, j, f)
  /\ Stream \in Seq(Int) /\ temp_data \in Seq(Int) /\ m \in 0..Len(temp_data) /\ j \in 0..Len(Stream)
  /\ m = 0 /\ FirstAtZero(temp_data) => Rising(temp_data)
  /\ device # "gone" => next = At(period, u) /\ d = damage
  /\ m + j > 0 => node = "running" /\ device = "measuring"
  /\ Owed => temp_data # <<>> /\ RoomLeft(u, c, lag)
  /\ period \in {0, 1} /\ u \in Int /\ c \in Int /\ d \in 0..MaxDamage /\ m \in Nat /\ j \in Nat
  /\ f \in [1..Len(Stream) -> Int]

\* What the step lemmas use of the invariant.
LEMMA FactsOf ==
  ASSUME NEW period, NEW u, NEW c, NEW d, NEW m, NEW j, NEW f, Before(period, u, c, d, m, j, f)
  PROVE  Facts(period, u, c, d, m, j, f)
<1>1. /\ ParserHolds /\ Kinds /\ Buffers /\ Fresh /\ Scans /\ AgeHolds /\ Linked(period, u, c, d, m, j, f)
      /\ period \in {0, 1} /\ u \in Int /\ c \in Int /\ d \in 0..MaxDamage /\ m \in Nat /\ j \in Nat
      /\ f \in [1..Len(Stream) -> Int]
  BY DEF Before, WholeHolds
<1>2. lag \in 0..Delay /\ (~Awake => lag = 0)
  BY <1>1 DEF AgeHolds
<1>3. Stream \in Seq(Int) /\ temp_data \in Seq(Int)
  BY <1>1, StreamTyped DEF Kinds
<1>4. /\ Chain(Stream, temp_data, period, u, c, d, m, j, f)
      /\ device # "gone" => next = At(period, u) /\ d = damage
      /\ m + j > 0 => node = "running" /\ device = "measuring"
      /\ Owed => temp_data # <<>> /\ RoomLeft(u, c, lag)
  BY <1>1 DEF Linked, Owed
<1>5. /\ Follows(Stream, temp_data, period, u, c, d, m, j, f)
      /\ m \in 0..Len(temp_data) /\ j \in 0..Len(Stream)
      /\ m = 0 /\ FirstAtZero(temp_data) => Rising(temp_data)
  BY <1>4 DEF Chain
<1> QED  BY <1>1, <1>2, <1>3, <1>4, <1>5 DEF Facts

\* A frame comes whole or does not.
LEMMA EmitLinks ==
  ASSUME RevolutionsAreLong, NEW period, NEW u, NEW c, NEW d, NEW m, NEW j, NEW f,
         Before(period, u, c, d, m, j, f), Emit
  PROVE  Links'
<1>0. Facts(period, u, c, d, m, j, f)
  BY FactsOf
<1>1. /\ ParserHolds /\ Buffers /\ lag \in 0..Delay
      /\ Chain(Stream, temp_data, period, u, c, d, m, j, f)
      /\ Follows(Stream, temp_data, period, u, c, d, m, j, f)
      /\ Stream \in Seq(Int) /\ temp_data \in Seq(Int) /\ m \in 0..Len(temp_data) /\ j \in 0..Len(Stream)
      /\ m = 0 /\ FirstAtZero(temp_data) => Rising(temp_data)
      /\ device # "gone" => next = At(period, u) /\ d = damage
      /\ m + j > 0 => node = "running" /\ device = "measuring"
      /\ Owed => temp_data # <<>> /\ RoomLeft(u, c, lag)
      /\ period \in {0, 1} /\ u \in Int /\ c \in Int /\ d \in 0..MaxDamage /\ m \in Nat /\ j \in Nat
      /\ f \in [1..Len(Stream) -> Int]
  BY <1>0 DEF Facts
<1>2. /\ device = "measuring" /\ UNCHANGED <<device, node, temp_data, rx>> /\ rx = "read"
      /\ IF Awake THEN lag < Delay /\ lag' = lag + 1 ELSE lag' = lag
  BY DEF Emit, TimePasses, Copying, assembly
<1>3. next = At(period, u) /\ d = damage /\ next \in Nat /\ next' = At(period, u + PerFrame)
  BY <1>1, <1>2, PlacesAt
<1>4. Paired(bin_buf_ \o wire) /\ Len(bin_buf_) < WireLimit
  BY <1>1, <1>2 DEF Buffers
<1>5. EmitDone
  BY <1>1, <1>3, <1>4, EmitStream
<1>6. u + PerFrame \in Int /\ d \in Nat /\ d + 1 \in Int
  BY <1>1, CircleTyped, LidarAssumption
<1>7. Owed' => temp_data' # <<>> /\ RoomLeft(u + PerFrame, c, lag')
  <2>1. SUFFICES ASSUME Owed' PROVE temp_data # <<>> /\ RoomLeft(u + PerFrame, c, lag')
    BY <1>2
  <2>2. Awake
    BY <1>2, <2>1 DEF Owed, Awake
  <2>3. temp_data # <<>> /\ RoomLeft(u, c, lag) /\ lag \in Nat /\ lag < Delay /\ lag' = lag + 1
    BY <1>1, <1>2, <2>2 DEF Owed
  <2> QED  BY <1>1, <2>3, Room
<1>8. /\ device' # "gone" => next' = At(period, u + PerFrame)
      /\ m + j > 0 => node' = "running" /\ device' = "measuring"
  BY <1>1, <1>2, <1>3
<1>9. CASE damage' = damage /\ Stream' = Stream \o <<next>>
  <2>1. /\ Stream' = Stream \o <<At(period, u)>> /\ Stream' \in Seq(Int)
    <3>1. At(period, u) \in Int /\ <<At(period, u)>> \in Seq(Int)
      BY <1>3
    <3> QED  BY <1>1, <1>3, <1>9, <3>1, ConcatProperties
  <2>2. /\ j \in 0..Len(Stream')
        /\ \E g \in [1..Len(Stream') -> Int] :
             Follows(Stream', temp_data, period, u + PerFrame, c, d, m, j, g)
    <3>1. /\ Stream \in Seq(Int) /\ temp_data \in Seq(Int) /\ period \in {0, 1} /\ u \in Int /\ c \in Int
          /\ d \in Nat /\ m \in 0..Len(temp_data) /\ j \in 0..Len(Stream) /\ f \in [1..Len(Stream) -> Int]
          /\ Follows(Stream, temp_data, period, u, c, d, m, j, f)
      BY <1>1, <1>6
    <3>2. Grown(Stream', temp_data, period, u, c, d, m, j)
      BY <2>1, <3>1, FollowsWhole
    <3> QED  BY <1>2, <3>2 DEF Grown
  <2>3. PICK g \in [1..Len(Stream') -> Int] :
          Follows(Stream', temp_data, period, u + PerFrame, c, d, m, j, g)
    BY <2>2
  <2>4. Chain(Stream', temp_data', period, u + PerFrame, c, d, m, j, g)
    BY <1>1, <1>2, <1>6, <2>2, <2>3 DEF Chain
  <2> QED  BY <1>1, <1>3, <1>7, <1>8, <1>9, <2>4, LinkedNext
<1>10. CASE damage < MaxDamage /\ damage' = damage + 1 /\ Stream' = Stream
  <2>1. Follows(Stream, temp_data, period, u + PerFrame, c, d + 1, m, j, f)
    BY <1>1, <1>6, FollowsLost
  <2>2. d + 1 \in 0..MaxDamage
    <3>1. d \in 0..MaxDamage /\ d < MaxDamage /\ MaxDamage \in Nat
      BY <1>1, <1>3, <1>10, LidarAssumption
    <3> QED  BY <3>1
  <2>3. Chain(Stream', temp_data', period, u + PerFrame, c, d + 1, m, j, f)
    BY <1>1, <1>2, <1>6, <1>10, <2>1, <2>2 DEF Chain
  <2> QED  BY <1>1, <1>3, <1>7, <1>8, <1>10, <2>3, LinkedNext
<1> QED  BY <1>5, <1>9, <1>10 DEF EmitDone

\* The device begins a period, and all that is on its way is of the one before.
LEMMA SpinUpLinks ==
  ASSUME NEW period, NEW u, NEW c, NEW d, NEW m, NEW j, NEW f,
         Before(period, u, c, d, m, j, f), SpinUp
  PROVE  Links'
<1>0. Facts(period, u, c, d, m, j, f)
  BY FactsOf
<1>1. /\ ParserHolds /\ Buffers /\ Fresh
      /\ Follows(Stream, temp_data, period, u, c, d, m, j, f)
      /\ Stream \in Seq(Int) /\ temp_data \in Seq(Int) /\ m \in 0..Len(temp_data) /\ j \in 0..Len(Stream)
      /\ device # "gone" => next = At(period, u) /\ d = damage
      /\ m + j > 0 => node = "running" /\ device = "measuring"
      /\ Owed => temp_data # <<>> /\ RoomLeft(u, c, lag)
      /\ period \in {0, 1} /\ u \in Int /\ c \in Int /\ d \in 0..MaxDamage /\ m \in Nat /\ j \in Nat
      /\ f \in [1..Len(Stream) -> Int]
  BY <1>0 DEF Facts
<1>2. /\ device = "starting" /\ device' = "measuring" /\ UNCHANGED <<damage, node, temp_data, rx, lag>>
      /\ Stream' = Stream
  BY StreamSame DEF SpinUp, parser, assembly, consumer
<1>3. m = 0 /\ j = 0
  BY <1>1, <1>2
<1>4. PICK a \in Int : next' = At(1 - period, a) /\ 1 - period \in {0, 1}
  BY <1>1, <1>2, PlacesAt
<1>5. \A i \in 1..Len(Stream) : Period(Stream[i]) # 1 - period
  <2>1. TAKE i \in 1..Len(Stream)
  <2>2. Stream[i] = At(period, f[i]) /\ f[i] \in Int
    <3>1. i \in j + 1..Len(Stream) /\ f[i] \in Int
      BY <1>1, <1>3
    <3>2. \A k \in j + 1..Len(Stream) : Stream[k] = At(period, f[k])
      BY <1>1, Zenon DEF Follows
    <3> QED  BY <3>1, <3>2
  <2>3. Period(Stream[i]) = period
    BY <1>1, <2>2, PlaceLaw
  <2> QED  BY <1>1, <2>3
<1>6. \A i \in 1..Len(temp_data) : Period(temp_data[i]) # 1 - period
  BY <1>1, <1>3 DEF Follows
<1>7. Len(temp_data) \in Nat /\ Len(Stream) \in Nat /\ d \in Nat /\ a - 1 \in Int
  BY SMTT(30), <1>1, <1>4, LenProperties, LidarAssumption
<1>8. Follows(Stream, temp_data, 1 - period, a, a - 1, d, Len(temp_data), Len(Stream), f)
  BY <1>1, <1>4, <1>5, <1>6, <1>7, FollowsAnew
<1>9. Len(temp_data) = 0 /\ FirstAtZero(temp_data) => Rising(temp_data)
  BY <1>1, EmptySeq DEF FirstAtZero
<1>10. Chain(Stream', temp_data', 1 - period, a, a - 1, d, Len(temp_data), Len(Stream), f)
  BY <1>1, <1>2, <1>4, <1>7, <1>8, <1>9 DEF Chain
<1>11. node # "running" => temp_data = <<>> /\ Stream = <<>>
  BY <1>1, <1>2 DEF Fresh, Early
<1>12. Len(temp_data) + Len(Stream) > 0 => node' = "running" /\ device' = "measuring"
  BY <1>2, <1>7, <1>11, EmptySeq
<1>13. ~Owed'
  <2>1. SUFFICES ASSUME Owed' PROVE FALSE
    OBVIOUS
  <2>2. Owed /\ node # "running"
    BY <1>2, <2>1 DEF Owed, Settled, Awake
  <2> QED  BY <1>1, <1>11, <2>2
<1> QED  BY <1>1, <1>2, <1>4, <1>7, <1>10, <1>12, <1>13, LinkedNext

\* With the device goes what nobody has read.
LEMMA UnplugStream ==
  ASSUME ParserHolds, frames \in Seq(Int), Unplug
  PROVE  \E t \in Seq(Int) : Stream = Stream' \o t /\ Stream' \in Seq(Int)
<1>1. frames' = frames /\ bin_buf_' = bin_buf_ /\ wire' = <<>>
  BY DEF Unplug, parser
<1>2. bin_buf_ \in Seq(Int) /\ wire \in Seq(Int) /\ Intact(bin_buf_) \in Seq(Int)
  BY IntactTyped DEF ParserHolds
<1>3. PICK t \in Seq(Int) : Intact(bin_buf_ \o wire) = Intact(bin_buf_) \o t
  BY <1>2, IntactFirst
<1>4. bin_buf_' \o wire' = bin_buf_
  BY <1>1, <1>2, ConcatEmptySeq
<1>5. Stream' = frames \o Intact(bin_buf_)
  BY <1>1, <1>4 DEF Stream
<1> DEFINE a == frames
           b == Intact(bin_buf_)
<1>6. Stream = a \o (b \o t)
  BY <1>3 DEF Stream
<1>7. (a \o b) \o t = a \o (b \o t) /\ a \o b \in Seq(Int)
  <2>1. a \in Seq(Int) /\ b \in Seq(Int)
    BY <1>2
  <2> HIDE DEF a, b
  <2> QED  BY <2>1, Associative, ConcatProperties
<1> QED  BY <1>5, <1>6, <1>7

\* Without the device what is left ends at an earlier place.
LEMMA UnplugLinks ==
  ASSUME NEW period, NEW u, NEW c, NEW d, NEW m, NEW j, NEW f,
         Before(period, u, c, d, m, j, f), Unplug
  PROVE  Links'
<1>0. Facts(period, u, c, d, m, j, f)
  BY FactsOf
<1>1. /\ ParserHolds /\ Kinds /\ lag \in 0..Delay
      /\ Follows(Stream, temp_data, period, u, c, d, m, j, f)
      /\ Stream \in Seq(Int) /\ temp_data \in Seq(Int)
      /\ m = 0 /\ FirstAtZero(temp_data) => Rising(temp_data)
      /\ m + j > 0 => node = "running" /\ device = "measuring"
      /\ Owed => temp_data # <<>> /\ RoomLeft(u, c, lag)
      /\ period \in {0, 1} /\ u \in Int /\ c \in Int /\ d \in 0..MaxDamage /\ m \in Nat /\ j \in Nat
      /\ f \in [1..Len(Stream) -> Int]
  BY <1>0 DEF Facts
<1>2. device' = "gone" /\ UNCHANGED <<node, temp_data, rx, lag>>
  BY DEF Unplug, assembly, consumer
<1>3. CASE node = "running"
  BY <1>2, <1>3 DEF Links, Aside
<1>4. CASE node # "running"
  <2>1. m = 0 /\ j = 0 /\ d \in Nat /\ 0 \in Nat /\ lag \in Int
    BY SMTT(30), <1>1, <1>4, LidarAssumption
  <2>2. PICK t \in Seq(Int) : Stream = Stream' \o t /\ Stream' \in Seq(Int)
    BY <1>1, UnplugStream DEF Kinds
  <2>3. CutShort(Stream', temp_data, period, u, c, d)
    BY <1>1, <2>1, <2>2, FollowsCut
  <2>4. PICK v \in Int : v <= u /\ \E g \in [1..Len(Stream') -> Int] : Follows(Stream', temp_data, period, v, c, d, 0, 0, g)
    BY <2>3 DEF CutShort
  <2>5. PICK g \in [1..Len(Stream') -> Int] : Follows(Stream', temp_data, period, v, c, d, 0, 0, g)
    BY <2>4
  <2>6. Len(Stream') \in Nat /\ Len(temp_data) \in Nat /\ 0 \in 0..Len(Stream') /\ 0 \in 0..Len(temp_data)
    BY <1>1, <2>2, LenProperties
  <2>7. Chain(Stream', temp_data', period, v, c, d, 0, 0, g)
    BY <1>1, <1>2, <2>1, <2>4, <2>5, <2>6 DEF Chain
  <2>8. Owed' => temp_data' # <<>> /\ RoomLeft(v, c, lag')
    <3>1. Owed' => Owed
      BY <1>2 DEF Owed, Settled, Awake
    <3> QED  BY <1>1, <1>2, <2>1, <2>4, <3>1, RoomOfLess
  <2>9. ~(0 + 0 > 0)
    OBVIOUS
  <2> QED  BY <1>2, <2>1, <2>7, <2>8, <2>9, LinkedNext
<1> QED  BY <1>3, <1>4

\* Steps in which the frames and the points stay.
LEMMA SameLinks ==
  ASSUME NEW period, NEW u, NEW c, NEW d, NEW m, NEW j, NEW f,
         Before(period, u, c, d, m, j, f),
         Stream' = Stream, temp_data' = temp_data, next' = next, damage' = damage,
         device' # "gone" => device # "gone",
         m + j > 0 => node' = "running" /\ device' = "measuring",
         Owed' => temp_data # <<>> /\ RoomLeft(u, c, lag')
  PROVE  Links'
<1>0. Facts(period, u, c, d, m, j, f)
  BY FactsOf
<1>1. /\ Chain(Stream, temp_data, period, u, c, d, m, j, f)
      /\ device # "gone" => next = At(period, u) /\ d = damage
      /\ m \in Nat /\ j \in Nat
  BY <1>0 DEF Facts
<1>2. Chain(Stream', temp_data', period, u, c, d, m, j, f)
  BY <1>1
<1> QED  BY <1>1, <1>2, LinkedNext

\* Reads, silence, and the end of a publication.
LEMMA QuietLinks ==
  ASSUME RevolutionsAreLong, NEW period, NEW u, NEW c, NEW d, NEW m, NEW j, NEW f,
         Before(period, u, c, d, m, j, f),
         Silence \/ (\E n \in 1..WireLimit : Read(n)) \/ ReadFails \/ Published \/ UNCHANGED vars
  PROVE  Links'
<1>0. Facts(period, u, c, d, m, j, f)
  BY FactsOf
<1>1. /\ ParserHolds /\ Buffers /\ Scans /\ lag \in 0..Delay
      /\ m + j > 0 => node = "running" /\ device = "measuring"
      /\ Owed => temp_data # <<>> /\ RoomLeft(u, c, lag)
      /\ u \in Int /\ c \in Int
  BY <1>0 DEF Facts
<1>2. CASE Silence
  <2>1. /\ UNCHANGED <<wire, bin_buf_, frames, temp_data, next, damage, device, node>>
        /\ rx' = rx /\ rx = "read"
        /\ IF Awake THEN lag < Delay /\ lag' = lag + 1 ELSE lag' = lag
    BY <1>2 DEF Silence, TimePasses, Copying, line, parser, assembly
  <2>2. Stream' = Stream
    BY <2>1, StreamSame
  <2>3. Owed' => temp_data # <<>> /\ RoomLeft(u, c, lag')
    <3>1. SUFFICES ASSUME Owed' PROVE temp_data # <<>> /\ RoomLeft(u, c, lag')
      OBVIOUS
    <3>2. Awake
      BY <2>1, <3>1 DEF Owed, Awake
    <3>3. temp_data # <<>> /\ RoomLeft(u, c, lag) /\ lag \in Nat /\ lag < Delay /\ lag' = lag + 1
      BY <1>1, <2>1, <3>2 DEF Owed
    <3> QED  BY <1>1, <3>3, Room
  <2> QED  BY <1>1, <2>1, <2>2, <2>3, SameLinks
<1>3. CASE \E n \in 1..WireLimit : Read(n)
  <2>1. PICK n \in 1..WireLimit : Read(n)
    BY <1>3
  <2>2. Stream' = Stream
    BY <1>1, <2>1, ReadStream DEF ReadDone, Buffers
  <2>3. UNCHANGED <<temp_data, next, damage, device, node, rx, lag>>
    BY <2>1 DEF Read, assembly, consumer
  <2>4. Owed' => Owed
    BY <2>3 DEF Owed, Settled, Awake
  <2> QED  BY <1>1, <2>2, <2>3, <2>4, SameLinks
<1>4. CASE ReadFails \/ UNCHANGED vars
  <2>1. UNCHANGED <<wire, bin_buf_, frames, temp_data, next, damage, device, node, rx, lag>>
    BY <1>4 DEF ReadFails, vars, line, parser, assembly, consumer
  <2>2. Stream' = Stream
    BY <2>1, StreamSame
  <2>3. Owed' => Owed
    BY <2>1 DEF Owed, Settled, Awake
  <2> QED  BY <1>1, <2>1, <2>2, <2>3, SameLinks
<1>5. CASE Published
  <2>1. /\ UNCHANGED <<wire, bin_buf_, frames, temp_data, next, damage, device, lag>>
        /\ rx = "publish" /\ rx' = "read"
        /\ node' = node \/ (node = "waiting" /\ node' = "woken")
    BY <1>5 DEF Published, SetEvent, line, parser
  <2>2. Stream' = Stream
    BY <2>1, StreamSame
  <2>3. ~Awake
    BY <1>1, <2>1 DEF Scans
  <2>4. Owed' => Owed
    <3>1. SUFFICES ASSUME Owed' PROVE node = "waiting"
      BY <2>1 DEF Owed, Settled
    <3>2. node' \in {"woken", "copying"}
      BY <2>1, <3>1 DEF Owed, Awake
    <3> QED  BY <2>1, <2>3, <3>2 DEF Awake
  <2>5. m + j > 0 => node' = "running" /\ device' = "measuring"
    BY <1>1, <2>1
  <2> QED  BY <1>1, <2>1, <2>2, <2>4, <2>5, SameLinks
<1> QED  BY <1>2, <1>3, <1>4, <1>5

\* A frame is put to the points.
LEMMA TakenLinks ==
  ASSUME RevolutionsAreLong, NEW period, NEW u, NEW c, NEW d, NEW m, NEW j, NEW f,
         Before(period, u, c, d, m, j, f), Extend \/ Publish
  PROVE  Links'
<1>0. Facts(period, u, c, d, m, j, f)
  BY FactsOf
<1>1. /\ ParserHolds /\ Kinds /\ Buffers /\ lag \in 0..Delay /\ (~Awake => lag = 0)
      /\ Chain(Stream, temp_data, period, u, c, d, m, j, f)
      /\ device # "gone" => next = At(period, u) /\ d = damage
      /\ m + j > 0 => node = "running" /\ device = "measuring"
      /\ Owed => temp_data # <<>> /\ RoomLeft(u, c, lag)
      /\ m \in Nat /\ j \in Nat
  BY <1>0 DEF Facts
<1>2. PICK w : TakeDone(w)
  BY <1>1, TakeStream
<1>3. /\ rx = "read" /\ Stream' = Tail(Stream) /\ temp_data' # <<>>
      /\ UNCHANGED <<device, next, damage, node, lag>>
      /\ w = 0 => rx' = rx
  BY <1>2 DEF TakeDone
<1> DEFINE V == temp_data \o SubSeq(Points(frames[1]), 1, w - 1)
<1> HIDE DEF V
<1>4. Taken(Stream, temp_data, temp_data', V, w, period, u, c, d, m, j)
  BY <1>1, <1>2, TakeLinks DEF V
<1>5. PICK e \in Int, k \in Nat, i \in Nat, g \in [1..Len(Tail(Stream)) -> Int] :
        /\ Chain(Tail(Stream), temp_data', period, u, e, d, k, i, g)
        /\ k + i > 0 => m + j > 0
        /\ m + j = 0 /\ temp_data # <<>> => \A l \in 0..Delay : RoomLeft(u, c, l) => w = 0 /\ RoomLeft(u, e, l)
        /\ m + j = 0 /\ w # 0 /\ Len(Stream) <= Backlog => RoomLeft(u, e, 0) /\ (FirstAtZero(V) => Rising(V))
  BY <1>4 DEF Taken
<1>6. Chain(Stream', temp_data', period, u, e, d, k, i, g)
  BY <1>3, <1>5
<1>7. Owed' => temp_data' # <<>> /\ RoomLeft(u, e, lag')
  <2>1. SUFFICES ASSUME Owed' PROVE RoomLeft(u, e, lag)
    BY <1>3
  <2>2. node # "running"
    BY <1>3, <2>1 DEF Owed, Settled, Awake
  <2>3. m + j = 0
    BY <1>1, <2>2
  <2>4. CASE Awake
    <3>1. temp_data # <<>> /\ RoomLeft(u, c, lag)
      BY <1>1, <2>4 DEF Owed
    <3> QED  BY <1>1, <1>5, <2>3, <3>1
  <2>5. CASE ~Awake
    <3>1. rx' = "publish"
      BY <1>3, <2>1, <2>5 DEF Owed, Awake
    <3>2. w # 0 /\ lag = 0 /\ Len(Stream) <= Backlog
      BY <1>1, <1>3, <2>5, <3>1 DEF Buffers
    <3> QED  BY <1>5, <2>3, <3>2
  <2> QED  BY <2>4, <2>5
<1>8. /\ device' # "gone" => next' = At(period, u) /\ d = damage'
      /\ k + i > 0 => node' = "running" /\ device' = "measuring"
  BY <1>1, <1>3, <1>5
<1> QED  BY <1>5, <1>6, <1>7, <1>8, LinkedNext

\* The node's steps.
LEMMA NodeLinks ==
  ASSUME NEW period, NEW u, NEW c, NEW d, NEW m, NEW j, NEW f,
         Before(period, u, c, d, m, j, f), NodeSteps
  PROVE  Links'
<1>0. Facts(period, u, c, d, m, j, f)
  BY FactsOf
<1>1. /\ Buffers /\ Scans
      /\ Follows(Stream, temp_data, period, u, c, d, m, j, f)
      /\ Stream \in Seq(Int) /\ temp_data \in Seq(Int) /\ m \in 0..Len(temp_data) /\ j \in 0..Len(Stream)
      /\ device # "gone" => next = At(period, u) /\ d = damage
      /\ m + j > 0 => node = "running" /\ device = "measuring"
      /\ Owed => temp_data # <<>> /\ RoomLeft(u, c, lag)
      /\ period \in {0, 1} /\ u \in Int
  BY <1>0 DEF Facts
<1>2. /\ UNCHANGED <<next, damage, temp_data, rx>> /\ Stream' = Stream
      /\ device' # "gone" => device # "gone"
  BY NodeKeeps
<1>3. CASE SpeedSet
  <2>1. /\ node = "running" /\ node' = "grab" /\ device' = device
        /\ device = "measuring" => rx = "read" /\ temp_data # <<>> /\ Period(temp_data[1]) = Period(next)
        /\ device # "measuring" => ~valid_data_
    BY <1>3 DEF SpeedSet
  <2>2. m + j = 0
    <3>1. SUFFICES ASSUME m + j > 0 PROVE FALSE
      BY <1>1, LenProperties
    <3>2. /\ device = "measuring" /\ temp_data # <<>> /\ Period(temp_data[1]) = Period(next)
          /\ next = At(period, u)
      BY <1>1, <2>1, <3>1
    <3>3. Period(temp_data[1]) = period
      BY <1>1, <3>2, PlaceLaw
    <3>4. Len(temp_data) \in Nat /\ Len(temp_data) > 0 /\ Len(Stream) \in Nat
      BY <1>1, <3>2, LenProperties, EmptySeq
    <3>5. m = 0
      <4>1. m > 0 => 1 \in 1..m
        BY <1>1, <3>4
      <4>2. \A i \in 1..m : Period(temp_data[i]) # period
        BY <1>1, Zenon DEF Follows
      <4> QED  BY <1>1, <3>3, <3>4, <4>1, <4>2
    <3>6. j = 0
      <4>1. m < Len(temp_data) => j = 0
        BY <1>1, Zenon DEF Follows
      <4> QED  BY <3>4, <3>5, <4>1
    <3> QED  BY <3>1, <3>5, <3>6
  <2>3. ~Owed'
    <3>1. rx = "read"
      BY <1>1, <2>1 DEF Buffers
    <3> QED  BY <1>2, <2>1, <3>1 DEF Owed, Awake
  <2>4. ~(m + j > 0)
    BY <2>2
  <2> QED  BY <1>2, <2>3, <2>4, SameLinks
<1>4. CASE ~SpeedSet
  <2>1. node # "running"
    BY <1>4 DEF NodeSteps, Starts, Grabs, Others, Connect, Opened, Activate, Activated,
         SpeedIsRight, SetRotationSpeed, PauseFails, Resume, Tick, TimesOut, CopyBegins, CopyEnds, Stop
  <2>2. Awake \/ lag' = lag
    BY <1>4 DEF NodeSteps, Starts, Grabs, Others, Connect, Opened, Activate, Activated, Awake,
         SpeedIsRight, SetRotationSpeed, PauseFails, Resume, Tick, TimesOut, CopyBegins, CopyEnds, Stop,
         consumer, Quiet
  <2>3. Awake' => Awake /\ lag' = lag
    BY <1>4 DEF NodeSteps, Starts, Grabs, Others, Connect, Opened, Activate, Activated, Awake,
         SpeedIsRight, SetRotationSpeed, PauseFails, Resume, Tick, TimesOut, CopyBegins, CopyEnds, Stop,
         consumer, Quiet
  <2>4. node \notin {"leaving", "gone"}
    BY <1>4 DEF NodeSteps, Starts, Grabs, Others, Connect, Opened, Activate, Activated,
         SpeedIsRight, SetRotationSpeed, PauseFails, Resume, Tick, TimesOut, CopyBegins, CopyEnds, Stop
  <2>5. Owed' => Owed /\ lag' = lag
    <3>1. CASE Awake'
      BY <2>3, <3>1 DEF Owed
    <3>2. CASE ~Awake' /\ Owed'
      <4>1. rx = "publish" /\ Settled
        BY <1>2, <2>1, <2>4, <3>2 DEF Owed, Settled
      <4>2. ~Awake
        BY <1>1, <4>1 DEF Scans
      <4> QED  BY <2>2, <4>1, <4>2 DEF Owed
    <3> QED  BY <3>1, <3>2
  <2> QED  BY <1>1, <1>2, <2>1, <2>5, SameLinks
<1> QED  BY <1>3, <1>4

\* The frames and the points stay in order, whatever step is made.
LEMMA LinksStay ==
  ASSUME RevolutionsAreLong, WholeHolds, [Next]_vars
  PROVE  Links'
<1>1. CASE Aside
  BY <1>1, AsideStays DEF Links
<1>2. CASE ~Aside
  <2>1. PICK period \in {0, 1}, u \in Int, c \in Int, d \in 0..MaxDamage, m \in Nat, j \in Nat,
             f \in [1..Len(Stream) -> Int] : Linked(period, u, c, d, m, j, f)
    BY <1>2 DEF WholeHolds, Links, InOrder
  <2>2. Before(period, u, c, d, m, j, f)
    BY <2>1 DEF Before
  <2>3. CASE Emit
    BY <2>2, <2>3, EmitLinks
  <2>4. CASE SpinUp
    BY <2>2, <2>4, SpinUpLinks
  <2>5. CASE Unplug
    BY <2>2, <2>5, UnplugLinks
  <2>6. CASE Silence \/ (\E n \in 1..WireLimit : Read(n)) \/ ReadFails \/ Published \/ UNCHANGED vars
    BY <2>2, <2>6, QuietLinks
  <2>7. CASE Extend \/ Publish
    BY <2>2, <2>7, TakenLinks
  <2>8. CASE NodeSteps
    BY <2>2, <2>8, NodeLinks
  <2>9. CASE Ended /\ device' = device
    BY <2>9, Ends DEF EndDone, Links, Aside
  <2> QED  BY <2>3, <2>4, <2>5, <2>6, <2>7, <2>8, <2>9, Steps
<1> QED  BY <1>1, <1>2

\* At the start nothing has been sent: the place before the first is the last one taken.
LEMMA LinksAtStart ==
  ASSUME RevolutionsAreLong, Init
  PROVE  Links
<1>1. /\ frames = <<>> /\ bin_buf_ = <<>> /\ wire = <<>> /\ temp_data = <<>> /\ next = 0 /\ damage = 0
      /\ rx = "read" /\ node = "offline"
  BY DEF Init, NodeInit
<1>2. Stream = <<>>
  BY <1>1, NothingComes
<1>3. Len(Stream) = 0 /\ Len(temp_data) = 0 /\ Stream \in Seq(Int) /\ temp_data \in Seq(Int)
  <2>1. <<>> \in Seq(Int) /\ Len(<<>>) = 0
    BY EmptySeq
  <2> QED  BY <1>1, <1>2, <2>1
<1> DEFINE f == [i \in 1..Len(Stream) |-> 0]
<1>4. f \in [1..Len(Stream) -> Int]
  OBVIOUS
<1> HIDE DEF f
<1>5. /\ \A i \in 1..Len(Stream) : Period(Stream[i]) # 0
      /\ \A i \in 1..Len(temp_data) : Period(temp_data[i]) # 0
  BY <1>3
<1>6. 0 - 1 = -1 /\ 0 \in Nat /\ 0 \in Int /\ 0 \in {0, 1} /\ -1 \in Int /\ 0 \in 0..MaxDamage
  BY LidarAssumption
<1>7. Follows(Stream, temp_data, 0, 0, 0 - 1, 0, Len(temp_data), Len(Stream), f)
  BY <1>3, <1>5, <1>6, FollowsAnew
<1>8. Follows(Stream, temp_data, 0, 0, -1, 0, 0, 0, f)
  BY <1>3, <1>6, <1>7
<1>9. ~FirstAtZero(temp_data)
  BY <1>1 DEF FirstAtZero
<1>10. 0 \in 0..Len(temp_data) /\ 0 \in 0..Len(Stream)
  BY <1>3
<1>11. Chain(Stream, temp_data, 0, 0, -1, 0, 0, 0, f)
  BY <1>4, <1>6, <1>8, <1>9, <1>10 DEF Chain
<1>12. next = At(0, 0)
  <2>1. Circle \in Nat \ {0}
    BY CircleTyped
  <2>2. 0 * Circle = 0 /\ 0 % Circle = 0
    <3> HIDE DEF Circle
    <3> QED  BY <2>1
  <2> QED  BY <1>1, <2>2 DEF At
<1>13. ~((rx = "publish" /\ Settled) \/ Awake) /\ ~(0 + 0 > 0)
  BY <1>1, "read" # "publish" DEF Awake
<1>14. Linked(0, 0, -1, 0, 0, 0, f)
  BY <1>1, <1>11, <1>12, <1>13 DEF Linked
<1> QED  BY <1>4, <1>6, <1>14 DEF Links, InOrder

-----------------------------------------------------------------------------
\* The invariant holds at the start, is kept by every step, and shows what is sent.

LEMMA WholeAtStart ==
  ASSUME RevolutionsAreLong, Init
  PROVE  WholeHolds
<1>1. Fresh
  BY NothingComes DEF Fresh, Init
<1> QED  BY <1>1, ParserAtStart, AgeAtStart, KindsAtStart, BuffersAtStart, ScansAtStart, LinksAtStart DEF WholeHolds

LEMMA WholeStays ==
  ASSUME RevolutionsAreLong, WholeHolds, [Next]_vars
  PROVE  WholeHolds'
<1>1. ParserHolds' /\ AgeHolds'
  BY ParserStays, AgeStays DEF WholeHolds
<1> QED  BY <1>1, KindsStay, BuffersStay, FreshStays, ScansStay, LinksStay DEF WholeHolds

LEMMA WholeShows ==
  ASSUME WholeHolds
  PROVE  ScansAreWhole
<1> SUFFICES ASSUME node = "grab", scan_data[2] # <<>>
             PROVE  /\ scan_data[1] = scan_data[2] /\ Angle(scan_data[1][1]) = 0
                    /\ \A i, j \in 1..Len(scan_data[1]) : i < j =>
                         LET p == scan_data[1][i]
                             q == scan_data[1][j]
                         IN  Revolution(p) = Revolution(q) /\ Angle(p) < Angle(q)
  BY DEF ScansAreWhole, Sent
<1>1. scan_data[1] = scan_data[2] /\ Whole(scan_data[1])
  BY "grab" # "copying" DEF WholeHolds, Scans
<1> QED  BY <1>1 DEF Whole, FirstAtZero, Rising

\* Whatever the interleaving of the receive thread's writes and the node's copy, and whatever
\* frames are lost or damaged and programs, pauses and unpluggings come between, a scan that is
\* sent was published whole: from zero, rising, and of one revolution; as long as revolutions
\* are long against what waits for the two threads.
THEOREM SentScansAreWhole == RevolutionsAreLong => (Spec => []ScansAreWhole)
<1> SUFFICES ASSUME RevolutionsAreLong PROVE Spec => []ScansAreWhole
  OBVIOUS
<1>1. Init => WholeHolds
  BY WholeAtStart
<1>2. WholeHolds /\ [Next]_vars => WholeHolds'
  BY WholeStays
<1>3. WholeHolds => ScansAreWhole
  BY WholeShows
<1> QED  BY <1>1, <1>2, <1>3, PTL DEF Spec
=============================================================================
