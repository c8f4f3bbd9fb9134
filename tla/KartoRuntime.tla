---------------------------- MODULE KartoRuntime ----------------------------
(***************************************************************************)
(* The Karto node in localization mode: odometry and scans come in on      *)
(* their own clocks, a scan waits until the odometry buffer brackets its   *)
(* stamp, and each handled input drains the scans that need not wait.      *)
(*                                                                         *)
(* Stamps are kept relative to the newest odometry sample, so they stay    *)
(* small however long the node runs; a scan's wait on the host clock is an *)
(* age that stops counting one past MaxSyncWait.  The robot moves along a  *)
(* line of integer positions.  What the matcher would answer for a scan    *)
(* (external: OpenKarto) comes with the scan.                              *)
(***************************************************************************)
EXTENDS Integers, Sequences, SequencesExt, FiniteSetsExt

CONSTANTS
  Position,          \* odometric positions, a set of integers
  NoPosition,        \* no value of last_localization_input
  MinTravel,         \* minimum_travel_distance
  Step,              \* stamp differences of successive odometry inputs
  ScanOffset,        \* a scan's stamp, relative to the newest odometry on arrival
  Verdict,           \* what the matcher answers: a subset of Answer
  Retention,         \* odom_buffer_duration
  MaxSyncWait,
  StopAfter,         \* low matches in a row that ask for a safety stop
  MaxPending         \* bound on the scans waiting at once

Answer == {"rejected", "low", "good"}

ASSUME KartoAssumption ==
  /\ Position \subseteq Int /\ NoPosition \notin Position
  /\ Step \subseteq Int /\ ScanOffset \subseteq Int
  /\ Verdict \subseteq Answer
  /\ Retention \in Nat \ {0} /\ MaxSyncWait \in Nat /\ MinTravel \in Nat
  /\ StopAfter \in Nat \ {0} /\ MaxPending \in Nat \ {0}

VARIABLES
  odometry,    \* samples_, oldest first: stamp and position
  pending,     \* pending_: stamp, age of the arrival, the matcher's answer
  tracking,    \* what matching a scan reads and writes
  out          \* the outputs of the last step, in order

kartoVars == <<odometry, pending, tracking, out>>

\* localization_initialized_, pending_initial_pose, last_localization_input, whether
\* the extrapolator holds map_from_odom, and consecutive_losses_.
Lost == [initialized |-> FALSE, seeded |-> FALSE, last |-> NoPosition,
         anchored |-> FALSE, losses |-> 0]

KartoInit ==
  /\ odometry = <<>>
  /\ pending = <<>>
  /\ tracking = Lost
  /\ out = <<>>

-----------------------------------------------------------------------------
\* The odometry buffer.

\* Mutant: the sample before the window is dropped, and what it brackets with it.
Trimmed_Eager(samples) ==
  SelectSeq(samples, LAMBDA sample : sample.stamp >= -Retention)

\* The samples left once the newest is at 0: the last one before the window stays,
\* because it brackets the window's oldest stamps.
Trimmed(samples) ==
  LET keep == {i \in 1..Len(samples) :
                 i < Len(samples) - 1 => samples[i + 1].stamp >= -Retention}
  IN SubSeq(samples, Min(keep), Len(samples))

\* Adding a sample `step' later moves every stamp that much further back.
Shifted(seq, step) == [i \in DOMAIN seq |-> [seq[i] EXCEPT !.stamp = @ - step]]

Status(samples, stamp) ==
  IF samples = <<>> THEN "NeedPast"
  ELSE IF stamp < Head(samples).stamp THEN "TooOld"
  ELSE IF stamp > Last(samples).stamp THEN "NeedFuture"
  ELSE "Ready"

\* The position at a bracketed stamp, between the samples on either side.
Interpolate(samples, stamp) ==
  LET hi == Min({i \in DOMAIN samples : samples[i].stamp >= stamp})
      upper == samples[hi]
      lower == samples[hi - 1]
  IN IF upper.stamp = stamp THEN upper.at
     ELSE lower.at + ((stamp - lower.stamp) * (upper.at - lower.at))
                       \div (upper.stamp - lower.stamp)

-----------------------------------------------------------------------------
\* Matching a scan.

Output(id, stamp) == [id |-> id, stamp |-> stamp]

Skipped(t, at) ==
  t.last # NoPosition /\ at - t.last < MinTravel /\ t.last - at < MinTravel

\* LocalizationHealth: only a good match ends a run of losses.
ObserveMatched(losses, answer) == IF answer = "good" THEN 0 ELSE Min({losses + 1, StopAfter})

safety_stop(losses) == losses >= StopAfter

\* An accepted match consumes the initial pose and becomes the last input, good or
\* low; only a good one anchors the prediction.
Matched(t, at, answer) ==
  [t EXCEPT !.seeded = FALSE, !.last = at,
            !.anchored = @ \/ answer = "good",
            !.losses = ObserveMatched(@, answer)]

\* ProcessReady of one scan, on the tracking state and the outputs so far.
ProcessReady(state, scan, samples) ==
  LET t == state.tracking
      at == Interpolate(samples, scan.stamp)
      next == Matched(t, at, scan.answer)
  IN IF ~t.initialized THEN state
     ELSE IF scan.answer = "rejected" \/ Skipped(t, at) THEN state
     ELSE [tracking |-> next,
           out |-> IF scan.answer = "good"
                   THEN Append(state.out, Output("CorrectedPose", scan.stamp))
                   ELSE IF safety_stop(next.losses)
                   THEN Append(state.out, Output("SafetyStop", scan.stamp))
                   ELSE state.out]

\* Mutant: only a bracketed scan leaves; one whose odometry never comes does not.
MayLeave_ReadyOnly(samples, scan) == Status(samples, scan.stamp) = "Ready"

\* Mutant: a scan older than the buffer waits for its odometry too.
MayLeave_KeepsTooOld(samples, scan) ==
  Status(samples, scan.stamp) = "Ready" \/ scan.age > MaxSyncWait

\* The scan need not wait any longer: it is bracketed, too old, or overdue.
MayLeave(samples, scan) ==
  \/ Status(samples, scan.stamp) \in {"Ready", "TooOld"}
  \/ scan.age > MaxSyncWait

Handle(state, scan, samples) ==
  IF Status(samples, scan.stamp) = "Ready" THEN ProcessReady(state, scan, samples) ELSE state

\* The first scans, one after the other.
Handled(start, scans, count, samples) ==
  LET after[k \in 0..count] ==
        IF k = 0 THEN start ELSE Handle(after[k - 1], scans[k], samples)
  IN after[count]

\* Drain, after the handler: scans leave from the front while they may, and the
\* bracketed ones among them are processed in that order.
Drain(samples, scans, t, sent) ==
  LET staying == {i \in 1..Len(scans) : ~MayLeave(samples, scans[i])}
      count == IF staying = {} THEN Len(scans) ELSE Min(staying) - 1
      final == Handled([tracking |-> t, out |-> sent], scans, count, samples)
  IN /\ odometry' = samples
     /\ pending' = SubSeq(scans, count + 1, Len(scans))
     /\ tracking' = final.tracking
     /\ out' = final.out

-----------------------------------------------------------------------------
\* The handlers.

\* An exception in a handler: what it had stored stays, Drain is not reached.
Fail == out' = <<Output("SafetyStop", 0)>>

\* Odometry that is not newer than the last is a clock error; otherwise it is
\* buffered, predicts a pose once the prediction is anchored, and drains.
OnOdometry(step, at) ==
  \/ /\ odometry # <<>> /\ step <= 0
     /\ Fail
     /\ UNCHANGED <<odometry, pending, tracking>>
  \/ /\ odometry = <<>> \/ step > 0
     /\ Drain(Trimmed(Append(Shifted(odometry, step), [stamp |-> 0, at |-> at])),
              Shifted(pending, step), tracking,
              IF tracking.anchored THEN <<Output("PredictedPose", 0)>> ELSE <<>>)

\* The bound counts the scans left after the drain.
OnLaserScan(offset, answer) ==
  /\ Len(pending) >= MaxPending => MayLeave(odometry, Head(pending))
  /\ Drain(odometry, Append(pending, [stamp |-> offset, age |-> 0, answer |-> answer]),
           tracking, <<>>)

\* Mutant: the extrapolator keeps the match made before.
OnInitialPose_KeepsAnchor ==
  Drain(odometry, pending,
        [tracking EXCEPT !.initialized = TRUE, !.seeded = TRUE, !.last = NoPosition], <<>>)

\* An operator's pose: the prediction stops and the next match starts from it.
\* consecutive_losses_ is kept.
OnInitialPose ==
  Drain(odometry, pending,
        [tracking EXCEPT !.initialized = TRUE, !.seeded = TRUE, !.last = NoPosition,
                         !.anchored = FALSE], <<>>)

\* One that does not parse has already reset the extrapolator, and nothing else.
OnBadInitialPose ==
  /\ tracking' = [tracking EXCEPT !.anchored = FALSE]
  /\ Fail
  /\ UNCHANGED <<odometry, pending>>

\* A saved map, or an input of another name, only drains.
OnSaveMap == Drain(odometry, pending, tracking, <<>>)

\* Any other input that does not parse, and a save that fails.
OnBadInput == Fail /\ UNCHANGED <<odometry, pending, tracking>>

\* One unit of the host clock.
Wait ==
  /\ pending' = [i \in DOMAIN pending |->
                  [pending[i] EXCEPT !.age = Min({@ + 1, MaxSyncWait + 1})]]
  /\ out' = <<>>
  /\ UNCHANGED <<odometry, tracking>>

ScanArrives == \E offset \in ScanOffset, answer \in Verdict : OnLaserScan(offset, answer)

KartoNext ==
  \/ \E step \in Step, at \in Position : OnOdometry(step, at)
  \/ ScanArrives
  \/ OnInitialPose
  \/ OnBadInitialPose
  \/ OnSaveMap
  \/ OnBadInput
  \/ Wait

KartoSpec == KartoInit /\ [][KartoNext]_kartoVars

\* The lidar keeps scanning and the clock advances; odometry may stop.
KartoFairSpec == KartoSpec /\ WF_kartoVars(ScanArrives) /\ WF_kartoVars(Wait)

-----------------------------------------------------------------------------
Increasing(samples) == \A i \in 1..Len(samples) - 1 : samples[i].stamp < samples[i + 1].stamp

\* A scan the odometry already brackets, or can no longer bracket, never heads the
\* queue between inputs: pending_ does not hold back a scan that could be matched.
ReadyNeverWaits ==
  pending # <<>> => Status(odometry, Head(pending).stamp) \notin {"Ready", "TooOld"}

\* Within the retention window the buffer loses nothing: a stamp it brackets stays
\* bracketed while newer samples arrive, so a late scan in the window is matched and
\* never dropped as older than the buffer.  Its stamps rise strictly, as the interpolation
\* divides by their differences.
BracketKept(stamp) ==
  \A step \in Step, at \in Position :
    OnOdometry(step, at) /\ step > 0 /\ stamp - step >= -Retention
      => Status(odometry', stamp - step) = "Ready"

WindowStaysBracketed ==
  [][/\ Increasing(odometry')
     /\ \A stamp \in -Retention..0 :
          Status(odometry, stamp) = "Ready" => BracketKept(stamp)]_kartoVars

Sent(sent) == {sent[i].id : i \in DOMAIN sent}

\* Between an initial pose, valid or not, and the next good match no pose leaves the
\* node, matched or predicted; and only publishing a matched pose lifts that.
\* runtime_pose_stream_test.cpp:143 ("prediction was not gated").
PosesFollowGoodMatch ==
  [][/\ Sent(out') \intersect {"CorrectedPose", "PredictedPose"} # {}
          => tracking'.anchored /\ tracking'.initialized /\ ~tracking'.seeded
     /\ tracking'.anchored /\ ~tracking.anchored => "CorrectedPose" \in Sent(out')]_kartoVars

\* A scan never stays past the sync wait for ever, though the odometry that would
\* bracket it has stopped or is refused by the clock check.
OverdueScansLeave == []<>(pending = <<>> \/ Head(pending).age <= MaxSyncWait)
=============================================================================
