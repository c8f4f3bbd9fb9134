---------------------------- MODULE KartoProofs ----------------------------
(***************************************************************************)
(* The Karto node's queue and its odometry buffer, for every set of        *)
(* positions, steps and scan stamps, and any retention and wait; and the   *)
(* prediction between two matches, and what the solver's error says of two *)
(* poses, for all poses with headings in whole quarter turns.              *)
(***************************************************************************)
EXTENDS KartoRuntime, PoseConstraints, SequenceTheorems, WellFoundedInduction, TLAPS

-----------------------------------------------------------------------------
\* The queue and the odometry buffer.

LEMMA RetentionIsNat == Retention \in Nat \ {0} /\ Step \subseteq Int /\ ScanOffset \subseteq Int /\ MaxSyncWait \in Nat
BY KartoAssumption

\* A set of numbers that is not empty has a least, which Min returns.
LEMMA MinLaw ==
  ASSUME NEW S \in SUBSET Nat, S # {}
  PROVE  Min(S) \in S /\ \A n \in S : Min(S) <= n
<1>1. PICK m \in S : \A n \in S : <<n, m>> \notin OpToRel(<, Nat)
  BY NatLessThanWellFounded, WFMin, Zenon
<1>2. \A n \in S : ~(n < m)
  BY <1>1, Zenon DEF OpToRel
<1>3. \A n \in S : m <= n
  BY <1>2
<1>4. QED
  BY <1>3 DEF Min

Sample == [stamp : Int, at : Position]
Scan == [stamp : Int, age : Nat, answer : Answer]

LEMMA ShiftedLaw ==
  ASSUME NEW S \in {Sample, Scan}, NEW seq \in Seq(S), NEW step \in Int
  PROVE  /\ Shifted(seq, step) \in Seq(S) /\ Len(Shifted(seq, step)) = Len(seq)
         /\ \A i \in 1..Len(seq) : Shifted(seq, step)[i] = [seq[i] EXCEPT !.stamp = @ - step]
         /\ \A i \in 1..Len(seq) : Shifted(seq, step)[i].stamp = seq[i].stamp - step
<1>1. Len(seq) \in Nat /\ DOMAIN seq = 1..Len(seq) /\ \A i \in 1..Len(seq) : seq[i] \in S
  BY ElementOfSeq, LenProperties
<1>2. ASSUME NEW i \in 1..Len(seq)
      PROVE  /\ [seq[i] EXCEPT !.stamp = @ - step] \in S
             /\ [seq[i] EXCEPT !.stamp = @ - step].stamp = seq[i].stamp - step
  <2>1. CASE S = Sample
    <3>1. seq[i] \in Sample
      BY <1>1, <2>1
    <3>2. [seq[i] EXCEPT !.stamp = @ - step] = [stamp |-> seq[i].stamp - step, at |-> seq[i].at]
      BY <3>1 DEF Sample
    <3>3. QED
      BY <2>1, <3>1, <3>2 DEF Sample
  <2>2. CASE S = Scan
    <3>1. seq[i] \in Scan
      BY <1>1, <2>2
    <3>2. [seq[i] EXCEPT !.stamp = @ - step]
            = [stamp |-> seq[i].stamp - step, age |-> seq[i].age, answer |-> seq[i].answer]
      BY <3>1 DEF Scan
    <3>3. QED
      BY <2>2, <3>1, <3>2 DEF Scan
  <2>3. QED
    BY <2>1, <2>2
<1>3. Shifted(seq, step) = [i \in 1..Len(seq) |-> [seq[i] EXCEPT !.stamp = @ - step]]
  BY <1>1 DEF Shifted
<1>4. Shifted(seq, step) \in [1..Len(seq) -> S]
  BY <1>2, <1>3
<1>5. Shifted(seq, step) \in Seq(S) /\ Len(Shifted(seq, step)) = Len(seq)
  <2>1. Shifted(seq, step) \in Seq(S)
    BY <1>1, <1>4, IsASeq DEF Shifted
  <2>2. QED
    BY <1>1, <1>4, <2>1, LenProperties
<1>6. QED
  BY <1>2, <1>3, <1>5

-----------------------------------------------------------------------------
\* Drain stops at the first scan that must wait.

LEMMA DrainLaw ==
  ASSUME NEW samples, NEW scans \in Seq(Scan), NEW t, NEW sent, Drain(samples, scans, t, sent)
  PROVE  /\ odometry' = samples /\ pending' \in Seq(Scan)
         /\ pending' # <<>> => ~MayLeave(samples, Head(pending'))
<1> DEFINE staying == {i \in 1..Len(scans) : ~MayLeave(samples, scans[i])}
           count == IF staying = {} THEN Len(scans) ELSE Min(staying) - 1
<1>1. Len(scans) \in Nat
  OBVIOUS
<1>2. odometry' = samples /\ pending' = SubSeq(scans, count + 1, Len(scans))
  BY DEF Drain
<1>3. CASE staying = {}
  <2>1. pending' = <<>>
    BY <1>1, <1>2, <1>3, SubSeqEmpty
  <2>2. <<>> \in Seq(Scan)
    OBVIOUS
  <2>3. QED
    BY <1>2, <2>1, <2>2
<1>4. CASE staying # {}
  <2> DEFINE first == Min(staying)
  <2>1. first \in staying
    BY <1>1, <1>4, MinLaw
  <2> HIDE DEF staying
  <2>2. first \in 1..Len(scans) /\ ~MayLeave(samples, scans[first])
    BY <2>1 DEF staying
  <2> HIDE DEF first
  <2>3. count + 1 = first
    <3>1. count = first - 1
      BY <1>4 DEF first
    <3>2. QED
      BY <1>1, <2>2, <3>1
  <2>4. /\ pending' = SubSeq(scans, first, Len(scans)) /\ pending' \in Seq(Scan)
        /\ Len(pending') = Len(scans) - first + 1 /\ pending'[1] = scans[first]
    BY <1>1, <1>2, <2>2, <2>3, SubSeqProperties
  <2>5. Head(pending') = pending'[1]
    OBVIOUS
  <2>6. QED
    BY <1>2, <2>2, <2>4, <2>5
<1>5. QED
  BY <1>3, <1>4

-----------------------------------------------------------------------------
\* The buffer: its stamps rise to the newest sample's, and what a new one trims lay before
\* a sample that is itself before the window.

Window ==
  /\ odometry \in Seq(Sample) /\ Increasing(odometry)
  /\ odometry # <<>> => odometry[Len(odometry)].stamp = 0

LEMMA TrimmedLaw ==
  ASSUME NEW samples \in Seq(Sample), samples # <<>>
  PROVE  \E k \in 1..Len(samples) :
           /\ Trimmed(samples) = SubSeq(samples, k, Len(samples))
           /\ k = 1 \/ samples[k].stamp < -Retention
<1> DEFINE n == Len(samples)
           keep == {i \in 1..n : i < n - 1 => samples[i + 1].stamp >= -Retention}
           k == Min(keep)
<1>1. n \in Nat \ {0}
  BY EmptySeq
<1>2. n \in keep
  BY <1>1
<1>3. k \in keep /\ \A i \in keep : k <= i
  <2>1. keep \in SUBSET Nat /\ keep # {}
    BY <1>1, <1>2
  <2> HIDE DEF keep
  <2>2. QED
    BY <2>1, MinLaw
<1> HIDE DEF k
<1>4. k \in 1..n
  BY <1>3
<1>5. k = 1 \/ samples[k].stamp < -Retention
  <2>1. SUFFICES ASSUME k # 1 PROVE samples[k].stamp < -Retention
    OBVIOUS
  <2>2. k - 1 \in 1..n /\ k - 1 \notin keep
    BY <1>1, <1>3, <1>4, <2>1
  <2>3. ~(samples[(k - 1) + 1].stamp >= -Retention)
    BY <2>2
  <2>4. samples[k] \in Sample
    BY <1>4, ElementOfSeq
  <2>5. samples[k].stamp \in Int /\ (k - 1) + 1 = k
    BY <1>1, <1>4, <2>4 DEF Sample
  <2>6. QED
    BY <2>3, <2>5, RetentionIsNat
<1>6. Trimmed(samples) = SubSeq(samples, k, n)
  BY DEF Trimmed, k
<1>7. QED
  BY <1>4, <1>5, <1>6

\* The samples after odometry that is step later.
Buffered(step, at) == Trimmed(Append(Shifted(odometry, step), [stamp |-> 0, at |-> at]))

LEMMA BufferedLaw ==
  ASSUME Window, NEW step \in Int, step > 0 \/ odometry = <<>>, NEW at \in Position
  PROVE  /\ Buffered(step, at) \in Seq(Sample) /\ Buffered(step, at) # <<>>
         /\ Increasing(Buffered(step, at))
         /\ Buffered(step, at)[Len(Buffered(step, at))].stamp = 0
         /\ \A stamp \in Int : stamp >= -Retention /\ Status(odometry, stamp + step) = "Ready"
              => Status(Buffered(step, at), stamp) = "Ready"
<1> DEFINE new == [stamp |-> 0, at |-> at]
           n == Len(odometry)
           all == Append(Shifted(odometry, step), new)
<1>1. n \in Nat /\ new \in Sample /\ new.stamp = 0 /\ odometry \in Seq(Sample)
      /\ \A i \in 1..n : odometry[i] \in Sample /\ odometry[i].stamp \in Int
  <2>1. odometry \in Seq(Sample)
    BY DEF Window
  <2>2. n \in Nat /\ \A i \in 1..n : odometry[i] \in Sample
    BY <2>1, ElementOfSeq
  <2>3. QED
    BY <2>1, <2>2 DEF Sample
<1>2. /\ all \in Seq(Sample) /\ Len(all) = n + 1 /\ all # <<>> /\ all[n + 1] = new
      /\ \A i \in 1..n : all[i].stamp = odometry[i].stamp - step
  <2>1. /\ Shifted(odometry, step) \in Seq(Sample) /\ Len(Shifted(odometry, step)) = n
        /\ \A i \in 1..n : Shifted(odometry, step)[i].stamp = odometry[i].stamp - step
    BY <1>1, ShiftedLaw
  <2>2. QED
    BY <1>1, <2>1, AppendProperties
<1> HIDE DEF all
<1>3. \A i \in 1..n : all[i].stamp < all[i + 1].stamp
  <2>1. ASSUME NEW i \in 1..n - 1 PROVE all[i].stamp < all[i + 1].stamp
    <3>1. odometry[i].stamp < odometry[i + 1].stamp /\ i + 1 \in 1..n
      BY <1>1 DEF Window, Increasing
    <3>2. QED
      BY <1>1, <1>2, <3>1
  <2>2. n > 0 => all[n].stamp < all[n + 1].stamp
    <3>1. n > 0 => odometry[n].stamp = 0 /\ step > 0
      BY <1>1 DEF Window
    <3>2. QED
      BY <1>1, <1>2, <3>1
  <2>3. ASSUME NEW i \in 1..n PROVE i \in 1..n - 1 \/ i = n
    BY <1>1
  <2>4. QED
    BY <1>1, <2>1, <2>2, <2>3
<1>4. PICK k \in 1..n + 1 :
        /\ Buffered(step, at) = SubSeq(all, k, n + 1)
        /\ k = 1 \/ all[k].stamp < -Retention
  BY <1>2, TrimmedLaw DEF Buffered, all
<1> DEFINE kept == SubSeq(all, k, n + 1)
<1>5. /\ kept \in Seq(Sample) /\ Len(kept) = n + 2 - k
      /\ \A i \in 1..n + 2 - k : kept[i] = all[k + i - 1]
  BY <1>1, <1>2, SubSeqProperties
<1> HIDE DEF kept
<1>6. kept # <<>> /\ kept[Len(kept)] = new /\ Head(kept) = all[k]
  <2>1. n + 2 - k \in 1..n + 2 - k /\ 1 \in 1..n + 2 - k
    BY <1>1
  <2>2. kept[n + 2 - k] = all[k + (n + 2 - k) - 1] /\ kept[1] = all[k + 1 - 1]
    BY <1>5, <2>1
  <2>3. k + (n + 2 - k) - 1 = n + 1 /\ k + 1 - 1 = k
    BY <1>1
  <2>4. kept # <<>>
    BY <1>1, <1>5, EmptySeq
  <2>5. Head(kept) = kept[1]
    OBVIOUS
  <2>6. QED
    BY <1>2, <1>5, <2>2, <2>3, <2>4, <2>5
<1>7. Increasing(kept)
  <2>1. ASSUME NEW i \in 1..Len(kept) - 1 PROVE kept[i].stamp < kept[i + 1].stamp
    <3>1. i \in 1..n + 2 - k /\ i + 1 \in 1..n + 2 - k /\ k + i - 1 \in 1..n /\ k + (i + 1) - 1 = (k + i - 1) + 1
      BY <1>1, <1>5
    <3>2. kept[i] = all[k + i - 1] /\ kept[i + 1] = all[k + (i + 1) - 1]
      BY <1>5, <3>1
    <3>3. all[k + i - 1].stamp < all[(k + i - 1) + 1].stamp
      BY <1>3, <3>1
    <3>4. QED
      BY <3>1, <3>2, <3>3
  <2>2. QED
    BY <2>1 DEF Increasing
<1>8. ASSUME NEW stamp \in Int, stamp >= -Retention, Status(odometry, stamp + step) = "Ready"
      PROVE  Status(kept, stamp) = "Ready"
  <2>1. odometry # <<>> /\ ~(stamp + step < odometry[1].stamp) /\ ~(stamp + step > odometry[n].stamp)
    BY <1>8 DEF Status, Last
  <2>2. n > 0 /\ odometry[n].stamp = 0 /\ step > 0 /\ stamp + step <= 0
    BY <1>1, <2>1 DEF Window
  <2>3. all[k].stamp \in Int /\ all[k].stamp <= stamp
    <3>1. CASE k = 1
      <4>1. 1 \in 1..n
        BY <1>1, <2>2
      <4>2. all[1].stamp = odometry[1].stamp - step /\ odometry[1].stamp \in Int
        BY <1>1, <1>2, <4>1
      <4>3. QED
        BY <2>1, <3>1, <4>2
    <3>2. CASE k # 1
      <4>1. all[k] \in Sample /\ all[k].stamp < -Retention
        BY <1>2, <1>4, <3>2, ElementOfSeq
      <4>2. QED
        BY <1>8, <4>1, RetentionIsNat DEF Sample
    <3>3. QED
      BY <3>1, <3>2
  <2>4. QED
    BY <1>1, <1>6, <2>2, <2>3 DEF Status, Last
<1>9. QED
  BY <1>1, <1>4, <1>5, <1>6, <1>7, <1>8 DEF kept

-----------------------------------------------------------------------------
\* The two invariants, one handler at a time.

\* pending_ holds scans, and its head is one that must wait.
Waiting == pending \in Seq(Scan) /\ ReadyNeverWaits

KartoInv == Window /\ Waiting

\* What a step does: it drains, from the odometry and the scans it had or with one more, or
\* it leaves both alone but for the ages.
LEMMA KartoSteps ==
  ASSUME KartoInv, [KartoNext]_kartoVars
  PROVE  \/ \E step \in Step, at \in Position :
              /\ odometry = <<>> \/ step > 0
              /\ \E sent : Drain(Buffered(step, at), Shifted(pending, step), tracking, sent)
         \/ \E scans \in Seq(Scan) : \E t, sent : Drain(odometry, scans, t, sent)
         \/ /\ odometry' = odometry /\ pending' \in Seq(Scan) /\ Len(pending') = Len(pending)
            /\ pending # <<>> => Head(pending').stamp = Head(pending).stamp
<1>1. pending \in Seq(Scan)
  BY DEF KartoInv, Waiting
<1>2. CASE UNCHANGED <<odometry, pending>>
  BY <1>1, <1>2
<1>3. ASSUME NEW step \in Step, NEW at \in Position, OnOdometry(step, at)
      PROVE  \/ UNCHANGED <<odometry, pending>>
             \/ /\ odometry = <<>> \/ step > 0
                /\ \E sent : Drain(Buffered(step, at), Shifted(pending, step), tracking, sent)
  BY <1>3, Zenon DEF OnOdometry, Buffered
<1>4. ASSUME ScanArrives
      PROVE  \E scans \in Seq(Scan) : \E t, sent : Drain(odometry, scans, t, sent)
  <2>1. PICK offset \in ScanOffset, answer \in Verdict : OnLaserScan(offset, answer)
    BY <1>4 DEF ScanArrives
  <2>2. [stamp |-> offset, age |-> 0, answer |-> answer] \in Scan
    BY KartoAssumption DEF Scan
  <2>3. Append(pending, [stamp |-> offset, age |-> 0, answer |-> answer]) \in Seq(Scan)
    BY <1>1, <2>2, AppendProperties
  <2>4. QED
    BY <2>1, <2>3, Zenon DEF OnLaserScan
<1>5. CASE OnInitialPose \/ OnSaveMap
  BY <1>1, <1>5, Zenon DEF OnInitialPose, OnSaveMap
<1>6. ASSUME Wait
      PROVE  /\ odometry' = odometry /\ pending' \in Seq(Scan) /\ Len(pending') = Len(pending)
             /\ pending # <<>> => Head(pending').stamp = Head(pending).stamp
  <2> DEFINE n == Len(pending)
             older(i) == [pending[i] EXCEPT !.age = Min({@ + 1, MaxSyncWait + 1})]
  <2>1. n \in Nat /\ DOMAIN pending = 1..n /\ \A i \in 1..n : pending[i] \in Scan
    BY <1>1, ElementOfSeq, LenProperties
  <2>2. ASSUME NEW i \in 1..n PROVE older(i) \in Scan /\ older(i).stamp = pending[i].stamp
    <3>1. pending[i] \in Scan /\ pending[i].age \in Nat
      BY <2>1 DEF Scan
    <3>2. Min({pending[i].age + 1, MaxSyncWait + 1}) \in Nat
      <4>1. {pending[i].age + 1, MaxSyncWait + 1} \in SUBSET Nat /\ {pending[i].age + 1, MaxSyncWait + 1} # {}
        BY <3>1, RetentionIsNat
      <4>2. QED
        BY <4>1, MinLaw
    <3>3. older(i) = [stamp |-> pending[i].stamp, age |-> Min({pending[i].age + 1, MaxSyncWait + 1}),
                      answer |-> pending[i].answer]
      BY <3>1 DEF Scan
    <3>4. QED
      BY <3>1, <3>2, <3>3 DEF Scan
  <2>3. pending' = [i \in 1..n |-> older(i)] /\ odometry' = odometry
    BY <1>6, <2>1 DEF Wait
  <2> HIDE DEF older
  <2>4. pending' \in [1..n -> Scan]
    BY <2>2, <2>3
  <2>5. pending' \in Seq(Scan) /\ Len(pending') = n
    BY <2>1, <2>4, IsASeq, LenProperties
  <2>6. ASSUME pending # <<>> PROVE Head(pending').stamp = Head(pending).stamp
    <3>1. 1 \in 1..n
      BY <1>1, <2>1, <2>6, EmptySeq
    <3>2. pending'[1] = older(1) /\ pending'[1].stamp = pending[1].stamp
      BY <2>2, <2>3, <3>1
    <3>3. Head(pending') = pending'[1] /\ Head(pending) = pending[1]
      OBVIOUS
    <3>4. QED
      BY <3>2, <3>3
  <2>7. QED
    BY <2>3, <2>5, <2>6
<1>7. CASE OnBadInitialPose \/ OnBadInput
  BY <1>2, <1>7 DEF OnBadInitialPose, OnBadInput
<1>8. CASE UNCHANGED kartoVars
  BY <1>2, <1>8 DEF kartoVars
<1>9. QED
  BY <1>2, <1>3, <1>4, <1>5, <1>6, <1>7, <1>8 DEF KartoNext

LEMMA KartoStays == KartoInit => KartoInv
<1> SUFFICES ASSUME KartoInit PROVE KartoInv
  OBVIOUS
<1>1. odometry = <<>> /\ pending = <<>>
  BY DEF KartoInit
<1>2. Window
  BY <1>1 DEF Window, Increasing
<1>3. Waiting
  BY <1>1 DEF Waiting, ReadyNeverWaits
<1>4. QED
  BY <1>2, <1>3 DEF KartoInv

LEMMA KartoNextKeeps == KartoInv /\ [KartoNext]_kartoVars => KartoInv'
<1> SUFFICES ASSUME KartoInv, [KartoNext]_kartoVars PROVE KartoInv'
  OBVIOUS
<1>1. Window /\ pending \in Seq(Scan) /\ ReadyNeverWaits
  BY DEF KartoInv, Waiting
<1>2. ASSUME NEW samples, NEW scans \in Seq(Scan), NEW t, NEW sent, Drain(samples, scans, t, sent)
      PROVE  Waiting' /\ odometry' = samples
  <2>1. odometry' = samples /\ pending' \in Seq(Scan) /\ (pending' # <<>> => ~MayLeave(samples, Head(pending')))
    BY <1>2, DrainLaw
  <2>2. QED
    BY <2>1 DEF Waiting, ReadyNeverWaits, MayLeave
<1>3. ASSUME NEW step \in Step, NEW at \in Position, odometry = <<>> \/ step > 0,
             NEW sent, Drain(Buffered(step, at), Shifted(pending, step), tracking, sent)
      PROVE  KartoInv'
  <2>1. step \in Int
    BY RetentionIsNat
  <2>2. Shifted(pending, step) \in Seq(Scan)
    BY <1>1, <2>1, ShiftedLaw
  <2>3. Waiting' /\ odometry' = Buffered(step, at)
    BY <1>2, <1>3, <2>2
  <2>4. /\ Buffered(step, at) \in Seq(Sample) /\ Increasing(Buffered(step, at))
        /\ Buffered(step, at)[Len(Buffered(step, at))].stamp = 0
    BY <1>1, <1>3, <2>1, BufferedLaw
  <2>5. QED
    BY <2>3, <2>4 DEF KartoInv, Window
<1>4. ASSUME NEW scans \in Seq(Scan), NEW t, NEW sent, Drain(odometry, scans, t, sent)
      PROVE  KartoInv'
  <2>1. Waiting' /\ odometry' = odometry
    BY <1>2, <1>4
  <2>2. QED
    BY <1>1, <2>1 DEF KartoInv, Window
<1>5. ASSUME odometry' = odometry, pending' \in Seq(Scan), Len(pending') = Len(pending),
             pending # <<>> => Head(pending').stamp = Head(pending).stamp
      PROVE  KartoInv'
  <2>1. pending' # <<>> => pending # <<>>
    BY <1>1, <1>5, EmptySeq
  <2>2. QED
    BY <1>1, <1>5, <2>1 DEF KartoInv, Waiting, ReadyNeverWaits, Window
<1>6. QED
  BY <1>3, <1>4, <1>5, KartoSteps

LEMMA KartoHolds == KartoSpec => []KartoInv
BY KartoStays, KartoNextKeeps, PTL DEF KartoSpec

\* Whatever order odometry, scans and poses come in, and however their clocks differ, no
\* scan that could be matched, or never can be, is held back between inputs.
THEOREM ReadyScansLeave == KartoSpec => []ReadyNeverWaits
<1>1. KartoInv => ReadyNeverWaits
  BY DEF KartoInv, Waiting
<1>2. QED
  BY <1>1, KartoHolds, PTL

\* Trimming keeps the sample that brackets the window's oldest stamps, so no stamp of the
\* window that was bracketed is lost to a newer sample, and the stamps rise strictly.
THEOREM WindowBracketed == KartoSpec => WindowStaysBracketed
<1>1. ASSUME KartoInv, KartoInv', [KartoNext]_kartoVars
      PROVE  [/\ Increasing(odometry')
              /\ \A stamp \in -Retention..0 : Status(odometry, stamp) = "Ready" => BracketKept(stamp)]_kartoVars
  <2>1. Increasing(odometry')
    BY <1>1 DEF KartoInv, Window
  <2>2. ASSUME NEW stamp \in -Retention..0, Status(odometry, stamp) = "Ready",
               NEW step \in Step, NEW at \in Position,
               OnOdometry(step, at), step > 0, stamp - step >= -Retention
        PROVE  Status(odometry', stamp - step) = "Ready"
    <3>1. step \in Int /\ stamp \in Int /\ stamp - step \in Int /\ (stamp - step) + step = stamp
      BY RetentionIsNat
    <3>2. ~(step <= 0)
      BY <2>2, <3>1
    <3>3. PICK sent : Drain(Buffered(step, at), Shifted(pending, step), tracking, sent)
      BY <2>2, <3>2, Zenon DEF OnOdometry, Buffered
    <3>4. odometry' = Buffered(step, at)
      BY <3>3 DEF Drain
    <3>5. Status(Buffered(step, at), stamp - step) = "Ready"
      BY <1>1, <2>2, <3>1, BufferedLaw DEF KartoInv
    <3>6. QED
      BY <3>4, <3>5
  <2>3. QED
    BY <2>1, <2>2 DEF BracketKept
<1>2. QED
  BY <1>1, KartoHolds, PTL DEF KartoSpec, WindowStaysBracketed

-----------------------------------------------------------------------------
\* The scans a drain processes, one after the other.

LEMMA HandledLaw ==
  ASSUME NEW start, NEW scans, NEW count \in Nat, NEW samples
  PROVE  \E after :
           /\ after[0] = start /\ Handled(start, scans, count, samples) = after[count]
           /\ \A k \in 1..count : after[k] = Handle(after[k - 1], scans[k], samples)
<1> DEFINE next(f, k) == IF k = 0 THEN start ELSE Handle(f[k - 1], scans[k], samples)
           Is(f, n) == f = [k \in 0..n |-> next(f, k)]
           none == {n \in Nat : ~\E f : Is(f, n)}
<1>1. none = {}
  <2>1. SUFFICES ASSUME none # {} PROVE FALSE
    OBVIOUS
  <2>2. PICK n \in none : \A m \in none : n <= m
    BY <2>1, MinLaw
  <2>3. CASE n = 0
    <3>1. Is([k \in 0..0 |-> start], 0)
      OBVIOUS
    <3>2. QED
      BY <2>2, <2>3, <3>1
  <2>4. CASE n # 0
    <3>1. n - 1 \in Nat /\ n - 1 \notin none
      BY <2>2, <2>4
    <3>2. PICK f : Is(f, n - 1)
      BY <3>1
    <3> DEFINE g == [k \in 0..n |-> IF k = n THEN Handle(f[n - 1], scans[n], samples) ELSE f[k]]
    <3>3. ASSUME NEW k \in 0..n PROVE g[k] = next(g, k)
      <4>1. CASE k = n
        BY <2>4, <3>1, <4>1
      <4>2. CASE k # n
        <5>1. k \in 0..n - 1 /\ f[k] = next(f, k)
          BY <2>2, <3>2, <4>2
        <5>2. k # 0 => g[k - 1] = f[k - 1]
          BY <2>2, <4>2
        <5>3. QED
          BY <4>2, <5>1, <5>2
      <4>3. QED
        BY <4>1, <4>2
    <3>4. g = [k \in 0..n |-> g[k]]
      OBVIOUS
    <3> HIDE DEF g
    <3>5. [k \in 0..n |-> g[k]] = [k \in 0..n |-> next(g, k)]
      BY <3>3
    <3>6. Is(g, n)
      BY <3>4, <3>5
    <3>7. QED
      BY <2>2, <3>6
  <2>5. QED
    BY <2>3, <2>4
<1> DEFINE after == CHOOSE f : Is(f, count)
<1>2. Is(after, count)
  BY <1>1
<1>3. Handled(start, scans, count, samples) = after[count]
  BY DEF Handled
<1> HIDE DEF after
<1>4. /\ after[0] = start
      /\ \A k \in 1..count : after[k] = Handle(after[k - 1], scans[k], samples)
  BY <1>2
<1>5. QED
  BY <1>3, <1>4

\* What matching a scan reads and writes, and that only a good match since the last initial
\* pose anchors the prediction.
Tracked(t) ==
  /\ {"initialized", "seeded", "last", "anchored", "losses"} \subseteq DOMAIN t
  /\ t.initialized \in BOOLEAN /\ t.seeded \in BOOLEAN /\ t.anchored \in BOOLEAN
  /\ t.anchored => t.initialized /\ ~t.seeded

Name == {"CorrectedPose", "PredictedPose", "SafetyStop"}

Messages == Seq([id : Name, stamp : Int])

Poses == {"CorrectedPose", "PredictedPose"}

\* From tracking state t on: poses left only if anchored now, and an anchor that t had not is
\* a corrected pose's.
Gated(t, state) ==
  /\ Tracked(state.tracking) /\ state.out \in Messages
  /\ Sent(state.out) \intersect Poses # {} => state.tracking.anchored
  /\ state.tracking.anchored /\ ~t.anchored => "CorrectedPose" \in Sent(state.out)

LEMMA SentLaw ==
  ASSUME NEW sent \in Messages, NEW id \in Name, NEW stamp \in Int
  PROVE  /\ Append(sent, Output(id, stamp)) \in Messages
         /\ Sent(Append(sent, Output(id, stamp))) = Sent(sent) \union {id}
<1> DEFINE new == Output(id, stamp)
           n == Len(sent)
<1>1. new \in [id : Name, stamp : Int] /\ new.id = id
  BY DEF Output
<1> HIDE DEF new
<1>2. n \in Nat /\ DOMAIN sent = 1..n
  BY LenProperties DEF Messages
<1>3. /\ Append(sent, new) \in Messages /\ Len(Append(sent, new)) = n + 1
      /\ \A i \in 1..n : Append(sent, new)[i] = sent[i]
      /\ Append(sent, new)[n + 1] = new
  BY <1>1, AppendProperties DEF Messages
<1>4. DOMAIN Append(sent, new) = 1..n + 1
  BY <1>3, LenProperties DEF Messages
<1>5. Sent(Append(sent, new)) = Sent(sent) \union {id}
  <2>1. Sent(Append(sent, new)) = {Append(sent, new)[i].id : i \in 1..n + 1}
    BY <1>4 DEF Sent
  <2>2. Sent(sent) = {sent[i].id : i \in 1..n}
    BY <1>2 DEF Sent
  <2>3. 1..n + 1 = 1..n \union {n + 1}
    BY <1>2
  <2>4. QED
    BY <1>1, <1>3, <2>1, <2>2, <2>3
<1>6. QED
  BY <1>3, <1>5 DEF new

LEMMA HandleKeeps ==
  ASSUME NEW t, t.anchored \in BOOLEAN, NEW state, Gated(t, state), NEW scan \in Scan, NEW samples
  PROVE  Gated(t, Handle(state, scan, samples))
<1> DEFINE was == state.tracking
           next == Matched(was, Interpolate(samples, scan.stamp), scan.answer)
           sends(id) == Append(state.out, Output(id, scan.stamp))
<1>1. CASE Handle(state, scan, samples) = state
  BY <1>1
<1>2. ASSUME Handle(state, scan, samples) # state
      PROVE  /\ was.initialized /\ Handle(state, scan, samples).tracking = next
             /\ Handle(state, scan, samples).out
                  = IF scan.answer = "good" THEN sends("CorrectedPose")
                    ELSE IF safety_stop(next.losses) THEN sends("SafetyStop") ELSE state.out
  BY <1>2, Zenon DEF Handle, ProcessReady
<1>3. Tracked(was) /\ state.out \in Messages /\ scan.stamp \in Int
  BY DEF Gated, Scan
<1>4. /\ next.anchored = (was.anchored \/ scan.answer = "good")
      /\ next.seeded = FALSE /\ next.initialized = was.initialized
      /\ DOMAIN next = DOMAIN was
  BY <1>3 DEF Tracked, Matched
<1> HIDE DEF next
<1>5. ASSUME NEW id \in {"CorrectedPose", "SafetyStop"}
      PROVE  sends(id) \in Messages /\ Sent(sends(id)) = Sent(state.out) \union {id}
  <2>1. state.out \in Messages /\ scan.stamp \in Int
    BY <1>3
  <2>2. id \in Name
    BY DEF Name
  <2>3. QED
    BY <2>1, <2>2, SentLaw, Zenon
<1> HIDE DEF sends
<1>6. ASSUME was.initialized PROVE Tracked(next)
  BY <1>3, <1>4, <1>6, Zenon DEF Tracked
<1>7. CASE Handle(state, scan, samples) # state /\ scan.answer = "good"
  <2>1. Handle(state, scan, samples).out = sends("CorrectedPose")
    BY <1>2, <1>7
  <2>2. /\ Handle(state, scan, samples).out \in Messages
        /\ "CorrectedPose" \in Sent(Handle(state, scan, samples).out)
    BY <1>5, <2>1
  <2>3. next.anchored
    BY <1>4, <1>7
  <2>4. QED
    BY <1>2, <1>6, <1>7, <2>2, <2>3 DEF Gated
<1>8. CASE Handle(state, scan, samples) # state /\ scan.answer # "good"
  <2>1. /\ Handle(state, scan, samples).out \in Messages
        /\ Sent(state.out) \subseteq Sent(Handle(state, scan, samples).out)
        /\ Sent(Handle(state, scan, samples).out) \subseteq Sent(state.out) \union {"SafetyStop"}
    <3>1. CASE Handle(state, scan, samples).out = state.out
      BY <1>3, <3>1
    <3>2. CASE Handle(state, scan, samples).out = sends("SafetyStop")
      BY <1>5, <3>2
    <3>3. QED
      BY <1>2, <1>8, <3>1, <3>2
  <2>2. "SafetyStop" \notin Poses
    BY DEF Poses
  <2>3. next.anchored <=> was.anchored
    BY <1>3, <1>4, <1>8 DEF Tracked
  <2>4. Sent(Handle(state, scan, samples).out) \intersect Poses # {} => Sent(state.out) \intersect Poses # {}
    BY <2>1, <2>2
  <2>5. QED
    BY <1>2, <1>6, <1>8, <2>1, <2>3, <2>4 DEF Gated
<1>9. QED
  BY <1>1, <1>7, <1>8

LEMMA DrainKeeps ==
  ASSUME NEW samples, NEW scans \in Seq(Scan), NEW t, NEW sent, Drain(samples, scans, t, sent),
         Gated(t, [tracking |-> t, out |-> sent])
  PROVE  Gated(t, [tracking |-> tracking', out |-> out'])
<1> DEFINE staying == {i \in 1..Len(scans) : ~MayLeave(samples, scans[i])}
           count == IF staying = {} THEN Len(scans) ELSE Min(staying) - 1
           start == [tracking |-> t, out |-> sent]
           final == Handled(start, scans, count, samples)
<1>1. tracking' = final.tracking /\ out' = final.out
  BY DEF Drain
<1>2. count \in 0..Len(scans)
  <2>1. Len(scans) \in Nat
    OBVIOUS
  <2>2. ASSUME staying # {} PROVE Min(staying) \in 1..Len(scans)
    <3>1. staying \in SUBSET Nat
      BY <2>1
    <3>2. staying \subseteq 1..Len(scans)
      OBVIOUS
    <3> HIDE DEF staying
    <3>3. Min(staying) \in staying
      BY <2>2, <3>1, MinLaw
    <3>4. QED
      BY <3>2, <3>3
  <2>3. QED
    BY <2>1, <2>2
<1> HIDE DEF count
<1>3. PICK after : /\ after[0] = start /\ final = after[count]
                   /\ \A k \in 1..count : after[k] = Handle(after[k - 1], scans[k], samples)
  BY <1>2, HandledLaw
<1> HIDE DEF start, final
<1> DEFINE broken == {k \in Nat : k \leq count /\ ~Gated(t, after[k])}
<1>4. broken = {}
  <2>1. SUFFICES ASSUME broken # {} PROVE FALSE
    OBVIOUS
  <2>2. PICK k \in broken : \A m \in broken : k <= m
    BY <2>1, MinLaw
  <2>3. k # 0
    BY <1>3, <2>2 DEF start
  <2>4. k - 1 \in Nat /\ k - 1 \notin broken /\ k \in 1..count
    BY <1>2, <2>2, <2>3
  <2>5. Gated(t, after[k - 1])
    BY <1>2, <2>4
  <2>6. scans[k] \in Scan
    BY <1>2, <2>4, ElementOfSeq
  <2>7. t.anchored \in BOOLEAN
    BY DEF Gated, Tracked
  <2>8. Gated(t, Handle(after[k - 1], scans[k], samples))
    BY <2>5, <2>6, <2>7, HandleKeeps
  <2>9. QED
    BY <1>3, <2>2, <2>4, <2>8
<1>5. Gated(t, final)
  BY <1>2, <1>3, <1>4
<1>6. QED
  BY <1>1, <1>5 DEF Gated

\* The outputs a step begins with.
LEMMA BeginsGated ==
  ASSUME NEW t, Tracked(t)
  PROVE  /\ Gated(t, [tracking |-> t, out |-> <<>>])
         /\ t.anchored => Gated(t, [tracking |-> t, out |-> <<Output("PredictedPose", 0)>>])
<1>1. <<>> \in Messages /\ Sent(<<>>) = {}
  BY DEF Messages, Sent
<1>2. /\ <<Output("PredictedPose", 0)>> \in Messages
  BY DEF Messages, Output, Name
<1>3. QED
  BY <1>1, <1>2 DEF Gated

\* The outputs of a handler that fails.
LEMMA FailLaw ==
  ASSUME Fail
  PROVE  Sent(out') \intersect Poses = {}
<1>1. DOMAIN out' = {1} /\ out'[1].id = "SafetyStop"
  BY DEF Fail, Output
<1>2. QED
  BY <1>1 DEF Sent, Poses

GatedStep ==
  /\ Sent(out') \intersect Poses # {} => tracking'.anchored
  /\ tracking'.anchored /\ ~tracking.anchored => "CorrectedPose" \in Sent(out')

LEMMA TrackingSteps ==
  ASSUME KartoInv, Tracked(tracking), KartoNext
  PROVE  Tracked(tracking') /\ GatedStep
<1>1. pending \in Seq(Scan)
  BY DEF KartoInv, Waiting
<1>2. ASSUME NEW samples, NEW scans \in Seq(Scan), NEW t, NEW sent, Drain(samples, scans, t, sent),
             Gated(t, [tracking |-> t, out |-> sent]), t.anchored => tracking.anchored
      PROVE  Tracked(tracking') /\ GatedStep
  <2>1. Gated(t, [tracking |-> tracking', out |-> out'])
    BY <1>2, DrainKeeps
  <2>2. t.anchored \in BOOLEAN
    BY <1>2 DEF Gated, Tracked
  <2>3. QED
    BY <1>2, <2>1, <2>2 DEF Gated, GatedStep
<1>3. ASSUME Fail, Tracked(tracking'), tracking'.anchored => tracking.anchored
      PROVE  Tracked(tracking') /\ GatedStep
  BY <1>3, FailLaw DEF GatedStep
<1>4. ASSUME NEW step \in Step, NEW at \in Position, OnOdometry(step, at)
      PROVE  Tracked(tracking') /\ GatedStep
  <2>1. CASE Fail /\ UNCHANGED <<odometry, pending, tracking>>
    BY <1>3, <2>1
  <2> DEFINE sent == IF tracking.anchored THEN <<Output("PredictedPose", 0)>> ELSE <<>>
  <2>2. CASE Drain(Buffered(step, at), Shifted(pending, step), tracking, sent)
    <3>1. Shifted(pending, step) \in Seq(Scan)
      BY <1>1, RetentionIsNat, ShiftedLaw
    <3>2. Gated(tracking, [tracking |-> tracking, out |-> sent])
      BY BeginsGated
    <3> HIDE DEF sent
    <3>3. QED
      BY <1>2, <2>2, <3>1, <3>2
  <2>3. QED
    BY <1>4, <2>1, <2>2, Zenon DEF OnOdometry, Buffered
<1>5. CASE ScanArrives
  <2>1. PICK offset \in ScanOffset, answer \in Verdict : OnLaserScan(offset, answer)
    BY <1>5 DEF ScanArrives
  <2> DEFINE scans == Append(pending, [stamp |-> offset, age |-> 0, answer |-> answer])
  <2>2. [stamp |-> offset, age |-> 0, answer |-> answer] \in Scan
    BY KartoAssumption DEF Scan
  <2>3. scans \in Seq(Scan)
    BY <1>1, <2>2, AppendProperties
  <2>4. Drain(odometry, scans, tracking, <<>>)
    BY <2>1 DEF OnLaserScan
  <2> HIDE DEF scans
  <2>5. QED
    BY <1>2, <2>3, <2>4, BeginsGated
<1>6. CASE OnInitialPose
  <2> DEFINE t == [tracking EXCEPT !.initialized = TRUE, !.seeded = TRUE, !.last = NoPosition,
                                   !.anchored = FALSE]
  <2>1. Drain(odometry, pending, t, <<>>)
    BY <1>6 DEF OnInitialPose
  <2>2. Tracked(t) /\ t.anchored = FALSE
    BY DEF Tracked
  <2> HIDE DEF t
  <2>3. QED
    BY <1>1, <1>2, <2>1, <2>2, BeginsGated
<1>7. CASE OnSaveMap
  <2>1. Drain(odometry, pending, tracking, <<>>)
    BY <1>7 DEF OnSaveMap
  <2>2. QED
    BY <1>1, <1>2, <2>1, BeginsGated
<1>8. CASE OnBadInitialPose
  <2>1. Tracked(tracking') /\ tracking'.anchored = FALSE
    BY <1>8 DEF OnBadInitialPose, Tracked
  <2>2. QED
    BY <1>3, <1>8, <2>1 DEF OnBadInitialPose
<1>9. CASE OnBadInput
  <2>1. Fail /\ tracking' = tracking
    BY <1>9 DEF OnBadInput
  <2>2. QED
    BY <1>3, <2>1
<1>10. CASE Wait
  <2>1. out' = <<>> /\ tracking' = tracking
    BY <1>10 DEF Wait
  <2>2. Sent(out') = {}
    BY <2>1 DEF Sent
  <2>3. QED
    BY <2>1, <2>2 DEF GatedStep, Tracked
<1>11. QED
  BY <1>4, <1>5, <1>6, <1>7, <1>8, <1>9, <1>10, Zenon DEF KartoNext

LEMMA TrackingHolds == KartoSpec => []Tracked(tracking)
<1>1. KartoInit => Tracked(tracking)
  BY DEF KartoInit, Lost, Tracked
<1>2. ASSUME KartoInv, Tracked(tracking), [KartoNext]_kartoVars PROVE Tracked(tracking')
  <2>1. CASE KartoNext
    BY <1>2, <2>1, TrackingSteps
  <2>2. CASE UNCHANGED kartoVars
    BY <1>2, <2>2 DEF kartoVars
  <2>3. QED
    BY <1>2, <2>1, <2>2
<1>3. KartoInv /\ Tracked(tracking) /\ [KartoNext]_kartoVars => Tracked(tracking)'
  BY <1>2
<1>4. QED
  BY <1>1, <1>3, KartoHolds, PTL DEF KartoSpec

\* No pose leaves the node, matched or predicted, between an initial pose, valid or not, and
\* the next good match, and nothing but a corrected pose that is sent lifts that: whatever
\* number of scans one input drains, and whatever the matcher answers for each.
THEOREM PosesAreGated == KartoSpec => PosesFollowGoodMatch
<1>1. ASSUME KartoInv, Tracked(tracking), Tracked(tracking)', [KartoNext]_kartoVars
      PROVE  [/\ Sent(out') \intersect {"CorrectedPose", "PredictedPose"} # {}
                   => tracking'.anchored /\ tracking'.initialized /\ ~tracking'.seeded
              /\ tracking'.anchored /\ ~tracking.anchored => "CorrectedPose" \in Sent(out')]_kartoVars
  <2>1. SUFFICES ASSUME KartoNext
                 PROVE  /\ Sent(out') \intersect Poses # {}
                             => tracking'.anchored /\ tracking'.initialized /\ ~tracking'.seeded
                        /\ tracking'.anchored /\ ~tracking.anchored => "CorrectedPose" \in Sent(out')
    BY <1>1 DEF Poses
  <2>2. GatedStep
    BY <1>1, <2>1, TrackingSteps
  <2>3. tracking'.anchored => tracking'.initialized /\ ~tracking'.seeded
    BY <1>1 DEF Tracked
  <2>4. QED
    BY <2>2, <2>3 DEF GatedStep
<1>2. QED
  BY <1>1, KartoHolds, TrackingHolds, PTL DEF KartoSpec, PosesFollowGoodMatch

-----------------------------------------------------------------------------
\* Poses and constraints.

\* The cosine and the sine of a heading.
LEMMA Quarters ==
  ASSUME NEW a \in Int
  PROVE  /\ a % 4 \in 0..3
         /\ a % 4 = 0 => Cos(a) = 1 /\ Sin(a) = 0
         /\ a % 4 = 1 => Cos(a) = 0 /\ Sin(a) = 1
         /\ a % 4 = 2 => Cos(a) = -1 /\ Sin(a) = 0
         /\ a % 4 = 3 => Cos(a) = 0 /\ Sin(a) = -1
<1>1. a % 4 \in 0..3  OBVIOUS
<1> QED  BY <1>1 DEF Cos, Sin

\* A heading and its normal form have the same cosine and sine, and those of a
\* difference and of a sum follow from the headings'.
LEMMA Normal ==
  ASSUME NEW a \in Int
  PROVE  /\ NormalizeAngle(a) \in Int
         /\ NormalizeAngle(a) % 4 = a % 4
BY DEF NormalizeAngle

LEMMA Added ==
  ASSUME NEW a \in Int, NEW b \in Int
  PROVE  NormalizeAngle(NormalizeAngle(a) + NormalizeAngle(b)) = NormalizeAngle(a + b)
<1>1. /\ NormalizeAngle(a) \in Int /\ NormalizeAngle(b) \in Int
      /\ NormalizeAngle(a) % 4 = a % 4 /\ NormalizeAngle(b) % 4 = b % 4
  BY Normal
<1>2. (NormalizeAngle(a) + NormalizeAngle(b) + 1) % 4 = (a + b + 1) % 4
  BY <1>1
<1> QED  BY <1>1, <1>2 DEF NormalizeAngle

\* Of the difference of two headings, by the quarters of both.
LEMMA Difference ==
  ASSUME NEW a \in Int, NEW b \in Int, NEW d \in Int, d % 4 = (a - b) % 4
  PROVE  /\ Cos(d) = Cos(a) * Cos(b) + Sin(a) * Sin(b)
         /\ Sin(d) = Sin(a) * Cos(b) - Cos(a) * Sin(b)
<1>1. a % 4 \in 0..3 /\ b % 4 \in 0..3
  BY Quarters
<1>2. /\ b % 4 = 0 => d % 4 = a % 4
      /\ b % 4 = 1 => d % 4 = ((a % 4) + 3) % 4
      /\ b % 4 = 2 => d % 4 = ((a % 4) + 2) % 4
      /\ b % 4 = 3 => d % 4 = ((a % 4) + 1) % 4
  OBVIOUS
<1>3. CASE a % 4 = 0  BY <1>1, <1>2, <1>3, Quarters
<1>4. CASE a % 4 = 1  BY <1>1, <1>2, <1>4, Quarters
<1>5. CASE a % 4 = 2  BY <1>1, <1>2, <1>5, Quarters
<1>6. CASE a % 4 = 3  BY <1>1, <1>2, <1>6, Quarters
<1> QED  BY <1>1, <1>3, <1>4, <1>5, <1>6

\* A vector turned by one quarter back and by another forth is turned by their difference.
LEMMA TurnedBack ==
  ASSUME NEW a \in Int, NEW b \in Int, NEW u \in Int, NEW v \in Int
  PROVE  LET c == Cos(a)  s == Sin(a)  cb == Cos(b)  sb == Sin(b)
             x == cb * u - sb * v    \* turned by b
             y == sb * u + cb * v
         IN /\ (c * cb + s * sb) * x - (s * cb - c * sb) * y = c * u - s * v
            /\ (s * cb - c * sb) * x + (c * cb + s * sb) * y = s * u + c * v
<1>1. a % 4 \in 0..3 /\ b % 4 \in 0..3
  BY Quarters
<1>2. CASE b % 4 = 0
  <2>1. Cos(b) = 1 /\ Sin(b) = 0  BY <1>2, Quarters
  <2> QED  BY <2>1, <1>1, Quarters
<1>3. CASE b % 4 = 1
  <2>1. Cos(b) = 0 /\ Sin(b) = 1  BY <1>3, Quarters
  <2> QED  BY <2>1, <1>1, Quarters
<1>4. CASE b % 4 = 2
  <2>1. Cos(b) = -1 /\ Sin(b) = 0  BY <1>4, Quarters
  <2> QED  BY <2>1, <1>1, Quarters
<1>5. CASE b % 4 = 3
  <2>1. Cos(b) = 0 /\ Sin(b) = -1  BY <1>5, Quarters
  <2> QED  BY <2>1, <1>1, Quarters
<1> QED  BY <1>1, <1>2, <1>3, <1>4, <1>5

\* The place a vector turned back and then forth has left: where it was.
LEMMA Returned ==
  ASSUME NEW a \in Int, NEW b \in Int, NEW x \in Int, NEW y \in Int
  PROVE  LET c == Cos(a)  s == Sin(a)  cb == Cos(b)  sb == Sin(b)
             u == -cb * x - sb * y
             v == sb * x - cb * y
         IN /\ c * u - s * v + (c * cb + s * sb) * x - (s * cb - c * sb) * y = 0
            /\ s * u + c * v + (s * cb - c * sb) * x + (c * cb + s * sb) * y = 0
<1>1. a % 4 \in 0..3 /\ b % 4 \in 0..3
  BY Quarters
<1>2. CASE b % 4 = 0
  <2>1. Cos(b) = 1 /\ Sin(b) = 0  BY <1>2, Quarters
  <2> QED  BY <2>1, <1>1, Quarters
<1>3. CASE b % 4 = 1
  <2>1. Cos(b) = 0 /\ Sin(b) = 1  BY <1>3, Quarters
  <2> QED  BY <2>1, <1>1, Quarters
<1>4. CASE b % 4 = 2
  <2>1. Cos(b) = -1 /\ Sin(b) = 0  BY <1>4, Quarters
  <2> QED  BY <2>1, <1>1, Quarters
<1>5. CASE b % 4 = 3
  <2>1. Cos(b) = 0 /\ Sin(b) = -1  BY <1>5, Quarters
  <2> QED  BY <2>1, <1>1, Quarters
<1> QED  BY <1>1, <1>2, <1>3, <1>4, <1>5

\* Cosines and sines are integers, and multiplying sums of them distributes.
LEMMA Sums ==
  ASSUME NEW C \in Int, NEW S \in Int, NEW x \in Int, NEW y \in Int, NEW X \in Int, NEW Y \in Int
  PROVE  /\ C * (x + X) - S * (y + Y) = (C * x - S * y) + (C * X - S * Y)
         /\ S * (x + X) + C * (y + Y) = (S * x + C * y) + (S * X + C * Y)
OBVIOUS

\* How the terms of a coordinate cancel.
LEMMA Collected ==
  ASSUME NEW p \in Int, NEW b1 \in Int, NEW b2 \in Int, NEW w1 \in Int, NEW w2 \in Int,
         NEW r1 \in Int, NEW r2 \in Int, NEW m1 \in Int, NEW m2 \in Int
  PROVE  /\ b1 - b2 + w1 - w2 = 0 /\ r1 - r2 = (w1 - w2) + (m1 - m2)
              => p + b1 - b2 + r1 - r2 = p + m1 - m2
         /\ b1 + b2 + w1 + w2 = 0 /\ r1 + r2 = (w1 + w2) + (m1 + m2)
              => p + b1 + b2 + r1 + r2 = p + m1 + m2
OBVIOUS

\* A product of integers is one.
LEMMA Product == ASSUME NEW a \in Int, NEW b \in Int PROVE a * b \in Int
OBVIOUS

-----------------------------------------------------------------------------
\* The pose extrapolator, pose_extrapolator.cpp: from a match made at one odometry, the
\* pose predicted at a later one is the matched pose moved as the robot moved since,
\* wherever and however turned odometry's own frame lies in the map.
THEOREM PredictionFollowsMotion ==
  ASSUME NEW corrected \in Pose, NEW wheels \in Pose, NEW motion \in Pose
  PROVE  Predict(ObserveMatch(corrected, wheels), Compose(wheels, motion))
           = Compose(corrected, motion)
<1> DEFINE c == Cos(corrected.yaw)
           s == Sin(corrected.yaw)
           cw == Cos(wheels.yaw)
           sw == Sin(wheels.yaw)
           turn == NormalizeAngle(corrected.yaw + -wheels.yaw)
           moved == [x |-> cw * motion.x - sw * motion.y, y |-> sw * motion.x + cw * motion.y]
           back == [x |-> -cw * wheels.x - sw * wheels.y, y |-> sw * wheels.x - cw * wheels.y]
<1>1. /\ corrected.x \in Int /\ corrected.y \in Int /\ corrected.yaw \in Int
      /\ wheels.x \in Int /\ wheels.y \in Int /\ wheels.yaw \in Int
      /\ motion.x \in Int /\ motion.y \in Int /\ motion.yaw \in Int
  BY DEF Pose
<1>2. c \in Int /\ s \in Int /\ cw \in Int /\ sw \in Int
  BY <1>1, Quarters
<1>3. turn \in Int /\ turn % 4 = (corrected.yaw - wheels.yaw) % 4
  BY <1>1, Normal
<1> HIDE DEF turn
<1>4. Cos(turn) = c * cw + s * sw /\ Sin(turn) = s * cw - c * sw
  <2>1. corrected.yaw \in Int /\ wheels.yaw \in Int
    BY <1>1
  <2> QED  BY <1>3, <2>1, Difference, Zenon
<1>5. /\ Cos(turn) * moved.x - Sin(turn) * moved.y = c * motion.x - s * motion.y
      /\ Sin(turn) * moved.x + Cos(turn) * moved.y = s * motion.x + c * motion.y
  BY <1>1, <1>4, TurnedBack
<1>6. /\ c * back.x - s * back.y + Cos(turn) * wheels.x - Sin(turn) * wheels.y = 0
      /\ s * back.x + c * back.y + Sin(turn) * wheels.x + Cos(turn) * wheels.y = 0
  BY <1>1, <1>4, Returned
<1>7. ObserveMatch(corrected, wheels)
        = [x |-> corrected.x + c * back.x - s * back.y,
           y |-> corrected.y + s * back.x + c * back.y, yaw |-> turn]
  BY DEF ObserveMatch, Compose, InverseOf, turn
<1>8. Compose(wheels, motion)
        = [x |-> wheels.x + moved.x, y |-> wheels.y + moved.y,
           yaw |-> NormalizeAngle(wheels.yaw + motion.yaw)]
  BY <1>1, <1>2 DEF Compose
<1>9. NormalizeAngle(turn + NormalizeAngle(wheels.yaw + motion.yaw))
        = NormalizeAngle(corrected.yaw + motion.yaw)
  <2>1. NormalizeAngle(turn + NormalizeAngle(wheels.yaw + motion.yaw))
          = NormalizeAngle((corrected.yaw + -wheels.yaw) + (wheels.yaw + motion.yaw))
    <3>1. corrected.yaw + -wheels.yaw \in Int /\ wheels.yaw + motion.yaw \in Int
      BY <1>1
    <3> QED  BY <3>1, Added DEF turn
  <2> QED  BY <1>1, <2>1
<1>10. Cos(turn) \in Int /\ Sin(turn) \in Int
  BY <1>3, Quarters
<1> DEFINE X == corrected.x + c * back.x - s * back.y
           Y == corrected.y + s * back.x + c * back.y
<1>11. Predict(ObserveMatch(corrected, wheels), Compose(wheels, motion))
         = [x |-> X + Cos(turn) * (wheels.x + moved.x) - Sin(turn) * (wheels.y + moved.y),
            y |-> Y + Sin(turn) * (wheels.x + moved.x) + Cos(turn) * (wheels.y + moved.y),
            yaw |-> NormalizeAngle(corrected.yaw + motion.yaw)]
  BY <1>7, <1>8, <1>9 DEF Predict, Compose
<1>12. moved.x \in Int /\ moved.y \in Int /\ back.x \in Int /\ back.y \in Int
  BY <1>1, <1>2
<1>13. /\ Cos(turn) * (wheels.x + moved.x) - Sin(turn) * (wheels.y + moved.y)
            = (Cos(turn) * wheels.x - Sin(turn) * wheels.y) + (c * motion.x - s * motion.y)
       /\ Sin(turn) * (wheels.x + moved.x) + Cos(turn) * (wheels.y + moved.y)
            = (Sin(turn) * wheels.x + Cos(turn) * wheels.y) + (s * motion.x + c * motion.y)
  BY <1>1, <1>5, <1>10, <1>12, Sums
<1>14. /\ X + Cos(turn) * (wheels.x + moved.x) - Sin(turn) * (wheels.y + moved.y)
            = corrected.x + c * motion.x - s * motion.y
       /\ Y + Sin(turn) * (wheels.x + moved.x) + Cos(turn) * (wheels.y + moved.y)
            = corrected.y + s * motion.x + c * motion.y
  <2>1. /\ c * back.x \in Int /\ s * back.y \in Int /\ s * back.x \in Int /\ c * back.y \in Int
        /\ c * motion.x \in Int /\ s * motion.y \in Int
        /\ s * motion.x \in Int /\ c * motion.y \in Int
    BY <1>1, <1>2, <1>12, Product
  <2>2. /\ Cos(turn) * wheels.x \in Int /\ Sin(turn) * wheels.y \in Int
        /\ Sin(turn) * wheels.x \in Int /\ Cos(turn) * wheels.y \in Int
        /\ Cos(turn) * (wheels.x + moved.x) \in Int /\ Sin(turn) * (wheels.y + moved.y) \in Int
        /\ Sin(turn) * (wheels.x + moved.x) \in Int /\ Cos(turn) * (wheels.y + moved.y) \in Int
    BY <1>1, <1>10, <1>12, Product
  <2> QED  BY <1>1, <1>6, <1>13, <2>1, <2>2, Collected
<1> QED  BY <1>11, <1>14 DEF Compose

-----------------------------------------------------------------------------
\* The solver's error of two poses.

\* The cosine and the sine of a heading, as its quarter has them.
LEMMA Axes ==
  ASSUME NEW a \in Int
  PROVE  \/ Cos(a) = 1 /\ Sin(a) = 0
         \/ Cos(a) = 0 /\ Sin(a) = 1
         \/ Cos(a) = -1 /\ Sin(a) = 0
         \/ Cos(a) = 0 /\ Sin(a) = -1
BY Quarters

\* Of the sum of two headings, by the quarters of both.
LEMMA SumOf ==
  ASSUME NEW a \in Int, NEW b \in Int, NEW d \in Int, d % 4 = (a + b) % 4
  PROVE  /\ Cos(d) = Cos(a) * Cos(b) - Sin(a) * Sin(b)
         /\ Sin(d) = Sin(a) * Cos(b) + Cos(a) * Sin(b)
<1>1. a % 4 \in 0..3 /\ b % 4 \in 0..3
  BY Quarters
<1>2. /\ b % 4 = 0 => d % 4 = a % 4
      /\ b % 4 = 1 => d % 4 = ((a % 4) + 1) % 4
      /\ b % 4 = 2 => d % 4 = ((a % 4) + 2) % 4
      /\ b % 4 = 3 => d % 4 = ((a % 4) + 3) % 4
  OBVIOUS
<1>3. CASE a % 4 = 0  BY <1>1, <1>2, <1>3, Quarters
<1>4. CASE a % 4 = 1  BY <1>1, <1>2, <1>4, Quarters
<1>5. CASE a % 4 = 2  BY <1>1, <1>2, <1>5, Quarters
<1>6. CASE a % 4 = 3  BY <1>1, <1>2, <1>6, Quarters
<1> QED  BY <1>1, <1>3, <1>4, <1>5, <1>6

\* A point is where it is seen from a pose, and is seen where it is.
LEMMA SeenWhereItIs ==
  ASSUME NEW p \in Pose, NEW q \in Pose
  PROVE  /\ Transform(p, InverseTransform(p, q)) = [x |-> q.x, y |-> q.y]
         /\ InverseTransform(p, Transform(p, q)) = [x |-> q.x, y |-> q.y]
<1>1. /\ p.x \in Int /\ p.y \in Int /\ p.yaw \in Int /\ q.x \in Int /\ q.y \in Int
  BY DEF Pose
<1>2. CASE Cos(p.yaw) = 1 /\ Sin(p.yaw) = 0
  BY <1>1, <1>2 DEF Transform, InverseTransform
<1>3. CASE Cos(p.yaw) = 0 /\ Sin(p.yaw) = 1
  BY <1>1, <1>3 DEF Transform, InverseTransform
<1>4. CASE Cos(p.yaw) = -1 /\ Sin(p.yaw) = 0
  BY <1>1, <1>4 DEF Transform, InverseTransform
<1>5. CASE Cos(p.yaw) = 0 /\ Sin(p.yaw) = -1
  BY <1>1, <1>5 DEF Transform, InverseTransform
<1> QED  BY <1>1, <1>2, <1>3, <1>4, <1>5, Axes

\* The solver's normal form is zero for whole turns only, and does not tell angles apart
\* that differ by whole turns.
LEMMA NormalizeZero ==
  ASSUME NEW a \in Int
  PROVE  Normalize(a) = 0 <=> a % 4 = 0
BY DEF Normalize

\* Two headings that are moved by the same turn, up to whole turns, are as far apart as before.
LEMMA WholeTurns ==
  ASSUME NEW a \in Int, NEW b \in Int, NEW m \in Int, NEW r \in Int, NEW A \in Int, NEW B \in Int,
         A % 4 = (m + a) % 4, B % 4 = (m + b) % 4
  PROVE  (B - A - r) % 4 = (b - a - r) % 4
<1> DEFINE i == (A \div 4) - ((m + a) \div 4)
           j == (B \div 4) - ((m + b) \div 4)
<1>1. i \in Int /\ j \in Int /\ A = m + a + 4 * i /\ B = m + b + 4 * j
  OBVIOUS
<1> HIDE DEF i, j
<1>2. B - A - r = (b - a - r) + 4 * (j - i)
  BY <1>1
<1> QED  BY <1>1, <1>2

\* Headings that differ by whole turns have one normal form.
LEMMA NormalizeSame ==
  ASSUME NEW a \in Int, NEW b \in Int, a % 4 = b % 4
  PROVE  Normalize(a) = Normalize(b)
BY DEF Normalize

-----------------------------------------------------------------------------
\* PoseGraphError, ceres_pose_graph_solver.cpp: whatever the weights, the error of a
\* constraint is zero exactly where the target stands at the constraint's pose of the
\* source, up to whole turns.  A solution of no cost satisfies every edge.
THEOREM ErrorVanishes ==
  ASSUME NEW relative \in Pose, NEW a \in Pose, NEW b \in Pose, NEW weight \in Weight
  PROVE  Weighted(weight, PoseGraphError(relative, a, b)) = NoError <=> Holds(relative, a, b)
<1> DEFINE error == PoseGraphError(relative, a, b)
           there == Compose(a, relative)
<1>1. /\ a.x \in Int /\ a.y \in Int /\ a.yaw \in Int
      /\ b.x \in Int /\ b.y \in Int /\ b.yaw \in Int
      /\ relative.x \in Int /\ relative.y \in Int /\ relative.yaw \in Int
  BY DEF Pose
<1>2. weight.x \in Nat \ {0} /\ weight.y \in Nat \ {0} /\ weight.yaw \in Nat \ {0}
  BY DEF Weight
<1>3. error.x = 0 /\ error.y = 0 <=> b.x = there.x /\ b.y = there.y
  <2> DEFINE C == Cos(a.yaw)
             S == Sin(a.yaw)
  <2>1. InverseTransform(a, b) = [x |-> C * (b.x - a.x) + S * (b.y - a.y),
                                  y |-> C * (b.y - a.y) - S * (b.x - a.x)]
    BY DEF InverseTransform
  <2>2. /\ error.x = (C * (b.x - a.x) + S * (b.y - a.y)) - relative.x
        /\ error.y = (C * (b.y - a.y) - S * (b.x - a.x)) - relative.y
    <3> HIDE DEF C, S
    <3> QED  BY <2>1 DEF PoseGraphError
  <2>3. /\ there.x = a.x + C * relative.x - S * relative.y
        /\ there.y = a.y + S * relative.x + C * relative.y
    BY DEF Compose
  <2>4. C \in Int /\ S \in Int
    BY <1>1, Quarters
  <2>5. \/ C = 1 /\ S = 0
        \/ C = 0 /\ S = 1
        \/ C = -1 /\ S = 0
        \/ C = 0 /\ S = -1
    BY <1>1, Axes
  <2> HIDE DEF C, S, error, there
  <2>6. /\ a.x \in Int /\ a.y \in Int /\ b.x \in Int /\ b.y \in Int
        /\ relative.x \in Int /\ relative.y \in Int
    BY <1>1
  <2>7. CASE C = 1 /\ S = 0
    <3>1. error.x = (b.x - a.x) - relative.x /\ error.y = (b.y - a.y) - relative.y
      BY <2>2, <2>6, <2>7
    <3>2. there.x = a.x + relative.x /\ there.y = a.y + relative.y
      BY <2>3, <2>6, <2>7
    <3> QED  BY <2>6, <3>1, <3>2
  <2>8. CASE C = 0 /\ S = 1
    <3>1. error.x = (b.y - a.y) - relative.x /\ error.y = (a.x - b.x) - relative.y
      BY <2>2, <2>6, <2>8
    <3>2. there.x = a.x - relative.y /\ there.y = a.y + relative.x
      BY <2>3, <2>6, <2>8
    <3> QED  BY <2>6, <3>1, <3>2
  <2>9. CASE C = -1 /\ S = 0
    <3>1. error.x = (a.x - b.x) - relative.x /\ error.y = (a.y - b.y) - relative.y
      BY <2>2, <2>6, <2>9
    <3>2. there.x = a.x - relative.x /\ there.y = a.y - relative.y
      BY <2>3, <2>6, <2>9
    <3> QED  BY <2>6, <3>1, <3>2
  <2>10. CASE C = 0 /\ S = -1
    <3>1. error.x = (a.y - b.y) - relative.x /\ error.y = (b.x - a.x) - relative.y
      BY <2>2, <2>6, <2>10
    <3>2. there.x = a.x + relative.y /\ there.y = a.y - relative.x
      BY <2>3, <2>6, <2>10
    <3> QED  BY <2>6, <3>1, <3>2
  <2> QED  BY <2>5, <2>7, <2>8, <2>9, <2>10
<1>4. error.yaw = 0 <=> b.yaw % 4 = there.yaw % 4
  <2>1. there.yaw = NormalizeAngle(a.yaw + relative.yaw)
    BY DEF Compose
  <2>2. there.yaw % 4 = (a.yaw + relative.yaw) % 4
    BY <1>1, <2>1, Normal
  <2>3. error.yaw = 0 <=> (b.yaw - a.yaw - relative.yaw) % 4 = 0
    BY <1>1, NormalizeZero DEF PoseGraphError
  <2> QED  BY <1>1, <2>2, <2>3
<1>5. error.x \in Int /\ error.y \in Int /\ error.yaw \in Int
  <2>1. Cos(a.yaw) \in Int /\ Sin(a.yaw) \in Int
    BY <1>1, Quarters
  <2> QED  BY <1>1, <2>1 DEF PoseGraphError, InverseTransform, Normalize
<1> HIDE DEF error, there
<1>6. Weighted(weight, error) = NoError <=> error.x = 0 /\ error.y = 0 /\ error.yaw = 0
  <2>1. /\ weight.x * error.x = 0 <=> error.x = 0
        /\ weight.y * error.y = 0 <=> error.y = 0
        /\ weight.yaw * error.yaw = 0 <=> error.yaw = 0
    BY <1>2, <1>5
  <2>2. Weighted(weight, error) = NoError
          <=> weight.x * error.x = 0 /\ weight.y * error.y = 0 /\ weight.yaw * error.yaw = 0
    BY DEF Weighted, NoError
  <2> QED  BY <2>1, <2>2
<1> QED  BY <1>3, <1>4, <1>6 DEF error, there, Holds

\* ComputeReport holds the first pose in place: the errors do not change when the whole map
\* is moved and turned, so that without it no solution would be the only one.
THEOREM ErrorIsRelative ==
  ASSUME NEW relative \in Pose, NEW a \in Pose, NEW b \in Pose, NEW move \in Pose
  PROVE  PoseGraphError(relative, Compose(move, a), Compose(move, b))
           = PoseGraphError(relative, a, b)
<1> DEFINE c == Cos(move.yaw)
           s == Sin(move.yaw)
           A == Compose(move, a)
           B == Compose(move, b)
<1>1. /\ a.x \in Int /\ a.y \in Int /\ a.yaw \in Int
      /\ b.x \in Int /\ b.y \in Int /\ b.yaw \in Int
      /\ relative.x \in Int /\ relative.y \in Int /\ relative.yaw \in Int
      /\ move.x \in Int /\ move.y \in Int /\ move.yaw \in Int
  BY DEF Pose
<1>2. /\ A.yaw \in Int /\ B.yaw \in Int
      /\ A.yaw % 4 = (move.yaw + a.yaw) % 4 /\ B.yaw % 4 = (move.yaw + b.yaw) % 4
  BY <1>1, Normal DEF Compose
<1>3. /\ Cos(A.yaw) = c * Cos(a.yaw) - s * Sin(a.yaw)
      /\ Sin(A.yaw) = s * Cos(a.yaw) + c * Sin(a.yaw)
  BY <1>1, <1>2, SumOf
<1>4. /\ B.x - A.x = c * (b.x - a.x) - s * (b.y - a.y)
      /\ B.y - A.y = s * (b.x - a.x) + c * (b.y - a.y)
  <2>1. CASE c = 1 /\ s = 0   BY <1>1, <2>1 DEF Compose
  <2>2. CASE c = 0 /\ s = 1   BY <1>1, <2>2 DEF Compose
  <2>3. CASE c = -1 /\ s = 0  BY <1>1, <2>3 DEF Compose
  <2>4. CASE c = 0 /\ s = -1  BY <1>1, <2>4 DEF Compose
  <2> QED  BY <1>1, <2>1, <2>2, <2>3, <2>4, Axes
<1>5. InverseTransform(A, B) = InverseTransform(a, b)
  <2> DEFINE C == Cos(a.yaw)
             S == Sin(a.yaw)
             dx == b.x - a.x
             dy == b.y - a.y
  <2>1. dx \in Int /\ dy \in Int
    BY <1>1
  <2>2. InverseTransform(A, B)
          = [x |-> (c * C - s * S) * (c * dx - s * dy) + (s * C + c * S) * (s * dx + c * dy),
             y |-> (c * C - s * S) * (s * dx + c * dy) - (s * C + c * S) * (c * dx - s * dy)]
    BY <1>3, <1>4 DEF InverseTransform
  <2>3. InverseTransform(a, b) = [x |-> C * dx + S * dy, y |-> C * dy - S * dx]
    BY DEF InverseTransform
  <2>4. /\ (c * C - s * S) * (c * dx - s * dy) + (s * C + c * S) * (s * dx + c * dy)
             = C * dx + S * dy
        /\ (c * C - s * S) * (s * dx + c * dy) - (s * C + c * S) * (c * dx - s * dy)
             = C * dy - S * dx
    <3>0. C \in Int /\ S \in Int
      BY <1>1, Quarters
    <3>1. \/ c = 1 /\ s = 0
          \/ c = 0 /\ s = 1
          \/ c = -1 /\ s = 0
          \/ c = 0 /\ s = -1
      BY <1>1, Axes
    <3> HIDE DEF c, s, C, S, dx, dy
    <3>2. CASE c = 1 /\ s = 0   BY <2>1, <3>0, <3>2
    <3>3. CASE c = 0 /\ s = 1   BY <2>1, <3>0, <3>3
    <3>4. CASE c = -1 /\ s = 0  BY <2>1, <3>0, <3>4
    <3>5. CASE c = 0 /\ s = -1  BY <2>1, <3>0, <3>5
    <3> QED  BY <3>1, <3>2, <3>3, <3>4, <3>5
  <2> QED  BY <2>2, <2>3, <2>4
<1>6. Normalize(B.yaw - A.yaw - relative.yaw) = Normalize(b.yaw - a.yaw - relative.yaw)
  <2>1. (B.yaw - A.yaw - relative.yaw) % 4 = (b.yaw - a.yaw - relative.yaw) % 4
    <3> DEFINE u == A.yaw
               v == B.yaw
    <3>1. /\ u \in Int /\ v \in Int /\ u % 4 = (move.yaw + a.yaw) % 4 /\ v % 4 = (move.yaw + b.yaw) % 4
      BY <1>2
    <3> HIDE DEF u, v
    <3>2. (v - u - relative.yaw) % 4 = (b.yaw - a.yaw - relative.yaw) % 4
      BY <1>1, <3>1, WholeTurns
    <3> QED  BY <3>2 DEF u, v
  <2> QED  BY <1>1, <1>2, <2>1, NormalizeSame
<1> QED  BY <1>5, <1>6 DEF PoseGraphError

\* Both, as the run checks them of a few poses.
THEOREM EdgesAreUnderstood ==
  ASSUME NEW relative \in Pose, NEW a \in Pose, NEW b \in Pose, NEW move \in Pose,
         NEW weight \in Weight
  PROVE  EdgeIsUnderstood(relative, a, b, move, weight)
BY ErrorVanishes, ErrorIsRelative DEF EdgeIsUnderstood
=============================================================================
