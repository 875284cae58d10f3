-------------------------- MODULE MetricAnalytics --------------------------
(***************************************************************************)
(* Anomaly and drift detection on one series: the metric.recorded events   *)
(* of one metric and entity, the metric_samples rows the projection makes  *)
(* of them, and the anomaly worker and the drift worker that read the rows.*)
(*                                                                         *)
(* The events of a series have one partition key, the entity, and carry    *)
(* the time of their publication; publications are taken to be stamped in  *)
(* order.  The projection and the anomaly worker consume them              *)
(* independently: when the worker evaluates an event, the history may lack *)
(* earlier samples, hold the one under evaluation, or hold later ones.     *)
(*                                                                         *)
(* Values are integers; means and deviations are compared as fractions.  A *)
(* deviation of zero is replaced by 1e-6 in the code, less than any        *)
(* difference between an integer and a mean here.                          *)
(*                                                                         *)
(* Both groups have one owner each, and what a failed offset commit does   *)
(* is left to ConsumerGroup: a settled event is not delivered again here.  *)
(***************************************************************************)
EXTENDS Integers, Sequences, FiniteSets

CONSTANTS
  Values,           \* values a sample can have
  Threshold,        \* of ThresholdRuleDetector (5000 in the code)
  HistoryLimit,     \* samples the anomaly worker reads (20)
  WindowSize,       \* of RollingStdDetector (10)
  Multiplier,       \* its std_multiplier (2)
  LatencyZ, CostZ,  \* z thresholds in tenths (20 and 25)
  DriftHistory,     \* samples the drift worker reads (40)
  BaselineSize,     \* of them, its baseline (20)
  CurrentSize,      \* of them, its current window (10)
  MaxRetries,       \* attempts per delivery (3)
  MaxSamples,       \* bound: events of the series
  MaxFaults         \* bound: failed publishes, commits, projections; crashes

ASSUME AnalyticsAssumption ==
  /\ Values \subseteq Nat
  /\ Threshold \in Nat
  /\ HistoryLimit \in Nat \ {0}
  /\ WindowSize \in Nat \ {0, 1}
  /\ Multiplier \in Nat \ {0} /\ LatencyZ \in Nat \ {0} /\ CostZ \in Nat \ {0}
  /\ CurrentSize \in 1 .. BaselineSize /\ BaselineSize \in 1 .. DriftHistory
  /\ DriftHistory \in Nat
  /\ MaxRetries \in Nat \ {0}
  /\ MaxSamples \in Nat /\ MaxFaults \in Nat

VARIABLES
  \* --- the topic and the table
  topic,            \* values of the events published
  projected,        \* events the projection group is done with
  stored,           \* positions with a metric_samples row
  \* --- the anomaly group
  handled,          \* events it is done with
  marked,           \* positions with its ProcessedEvent row
  parked,           \* positions in the dead-letter topic
  reports,          \* <<position, finding>> published to anomaly.events
  driftRows,        \* history: rows there were at the last drift report, 0 for none
  \* --- its worker, on event handled + 1
  pc, tries,
  found,            \* findings of this attempt still to be published
  used,             \* history: positions read in this attempt
  faults            \* budget spent

tableVars == <<topic, projected, stored>>
groupVars == <<handled, marked, parked>>
workerVars == <<pc, tries, found, used>>
vars == <<tableVars, groupVars, workerVars, reports, driftRows, faults>>

-----------------------------------------------------------------------------
(* Detectors.  Each takes the values, the one observed last, and returns   *)
(* the severity of its finding.                                            *)

Total(s) ==
  LET sum[n \in 0 .. Len(s)] == IF n = 0 THEN 0 ELSE sum[n - 1] + s[n]
  IN  sum[Len(s)]
Squares(s) == [i \in DOMAIN s |-> s[i] * s[i]]

Observed(values) == values[Len(values)]
Baseline(values) == SubSeq(values, 1, Len(values) - 1)

\* n times the distance of the observed value from the mean of the n values
\* before it, and n^2 times their variance.
Distance(values) ==
  (Len(values) - 1) * Observed(values) - Total(Baseline(values))
Spread(values) ==
  (Len(values) - 1) * Total(Squares(Baseline(values)))
    - Total(Baseline(values)) * Total(Baseline(values))

ThresholdRule(values) == IF Observed(values) > Threshold THEN "critical" ELSE "none"

\* The last WindowSize values.
Window(values) == SubSeq(values, Len(values) - WindowSize + 1, Len(values))

\* Mutant: the limit itself is a spike.
RollingStdAtLimit(values) ==
  IF /\ Len(values) >= WindowSize /\ Len(values) >= 3
     /\ LET d == Distance(Window(values)) IN
          /\ d >= 0
          /\ d * d >= Multiplier * Multiplier * Spread(Window(values))
    THEN "warning" ELSE "none"

RollingStd(values) ==
  IF /\ Len(values) >= WindowSize /\ Len(values) >= 3
     /\ LET d == Distance(Window(values)) IN
          /\ d > 0
          /\ d * d > Multiplier * Multiplier * Spread(Window(values))
    THEN "warning" ELSE "none"

\* The squared z-score against the squared threshold, critical from one and a
\* half times the threshold.
Severity(values, z) ==
  LET score == 100 * Distance(values) * Distance(values)
      limit == z * z * Spread(values)
  IN  CASE Distance(values) = 0 -> "none"
        [] Distance(values) # 0 /\ 4 * score >= 9 * limit -> "critical"
        [] 4 * score < 9 * limit /\ score >= limit -> "warning"
        [] OTHER -> "none"

\* Mutants: a flat baseline has no z-score; the baseline may be one shorter.
ZScoreFlat(values, z) ==
  IF Len(values) < 5 \/ Spread(values) = 0 THEN "none" ELSE Severity(values, z)
ZScoreEarly(values, z) == IF Len(values) < 4 THEN "none" ELSE Severity(values, z)

ZScore(values, z) == IF Len(values) < 5 THEN "none" ELSE Severity(values, z)

Detectors == {"threshold", "rolling", "latency", "cost"}
Findings == [detector : Detectors, severity : {"warning", "critical"}]

Finding(detector, severity) ==
  IF severity = "none" THEN <<>> ELSE <<[detector |-> detector, severity |-> severity]>>

\* AnomalyDetectionService.evaluate with the default detectors.
Evaluate(values) ==
  Finding("threshold", ThresholdRule(values)) \o Finding("rolling", RollingStd(values))
    \o Finding("latency", ZScore(values, LatencyZ)) \o Finding("cost", ZScore(values, CostZ))

\* Where PSI can be above zero: the shares of some value differ.
Count(s, v) == Cardinality({i \in DOMAIN s : s[i] = v})
SharesDiffer(s, t) ==
  \E v \in Values : Count(s, v) * Len(t) # Count(t, v) * Len(s)

\* Where the Jensen-Shannon score can be above zero: the vectors, cut to the
\* same size and scaled to sum one, differ.
ShapesDiffer(s, t) ==
  LET size == IF Len(s) < Len(t) THEN Len(s) ELSE Len(t)
      p == SubSeq(s, 1, size)
      q == SubSeq(t, 1, size)
      sum(x) == IF Total(x) = 0 THEN 1 ELSE Total(x)
  IN  \E i \in 1 .. size : p[i] * sum(q) # q[i] * sum(p)

-----------------------------------------------------------------------------

\* Positions of the newest rows, at most limit of them.
Newest(limit) ==
  {i \in stored : Cardinality({j \in stored : j > i}) < limit}

\* The values at some positions, oldest first.
Oldest(k, positions) ==
  CHOOSE i \in positions : Cardinality({j \in positions : j < i}) = k - 1
Series(positions) ==
  [k \in 1 .. Cardinality(positions) |-> topic[Oldest(k, positions)]]

TypeOK ==
  /\ topic \in Seq(Values) /\ Len(topic) <= MaxSamples
  /\ projected \in 0 .. Len(topic)
  /\ stored \subseteq 1 .. projected
  /\ handled \in 0 .. Len(topic)
  /\ marked \cup parked = 1 .. handled
  /\ reports \subseteq (1 .. Len(topic)) \X Findings
  /\ driftRows \in 0 .. MaxSamples
  /\ pc \in {"idle", "publish", "park"}
  /\ tries \in 1 .. MaxRetries
  /\ found \in Seq(Findings)
  /\ used \subseteq stored
  /\ faults \in 0 .. MaxFaults

Init ==
  /\ topic = <<>> /\ projected = 0 /\ stored = {}
  /\ handled = 0 /\ marked = {} /\ parked = {}
  /\ reports = {} /\ driftRows = 0
  /\ pc = "idle" /\ tries = 1 /\ found = <<>> /\ used = {}
  /\ faults = 0

SpendFault == faults < MaxFaults /\ faults' = faults + 1

\* A gauge of the entity is published.
Record(v) ==
  /\ Len(topic) < MaxSamples
  /\ topic' = Append(topic, v)
  /\ UNCHANGED <<projected, stored, groupVars, workerVars, reports, driftRows, faults>>

Project ==
  /\ projected < Len(topic)
  /\ projected' = projected + 1
  /\ stored' = stored \cup {projected + 1}
  /\ UNCHANGED <<topic, groupVars, workerVars, reports, driftRows, faults>>

\* The projection has given the event up.
ProjectLost ==
  /\ projected < Len(topic)
  /\ SpendFault
  /\ projected' = projected + 1
  /\ UNCHANGED <<topic, stored, groupVars, workerVars, reports, driftRows>>

-----------------------------------------------------------------------------
(* The anomaly worker                                                      *)

Event == handled + 1

Leave == tries' = 1 /\ found' = <<>> /\ used' = {}

\* Mutant: the retry budget is off by one.
AttemptFailsOnceMore ==
  /\ pc' = IF tries <= MaxRetries THEN "idle" ELSE "park"
  /\ tries' = IF tries <= MaxRetries THEN tries + 1 ELSE tries
  /\ found' = <<>> /\ used' = {}

AttemptFails ==
  /\ pc' = IF tries < MaxRetries THEN "idle" ELSE "park"
  /\ tries' = IF tries < MaxRetries THEN tries + 1 ELSE tries
  /\ found' = <<>> /\ used' = {}

\* The history is read and the event's own value put behind it.
ReadHistory ==
  /\ pc = "idle" /\ handled < Len(topic)
  /\ used' = Newest(HistoryLimit)
  /\ found' = Evaluate(Append(Series(used'), topic[Event]))
  /\ pc' = "publish"
  /\ UNCHANGED <<tableVars, groupVars, tries, reports, driftRows, faults>>

PublishFinding ==
  /\ pc = "publish" /\ found # <<>>
  /\ reports' = reports \cup {<<Event, Head(found)>>}
  /\ found' = Tail(found)
  /\ UNCHANGED <<tableVars, groupVars, pc, tries, used, driftRows, faults>>

\* Mutant: a publish that raises is skipped.
PublishSkipped ==
  /\ pc = "publish" /\ found # <<>>
  /\ SpendFault
  /\ found' = Tail(found)
  /\ UNCHANGED <<tableVars, groupVars, pc, tries, used, reports, driftRows>>

\* The publish raises, with or without having reached the broker: the findings
\* behind it are dropped and the next attempt evaluates the event anew.
PublishFails ==
  /\ pc = "publish" /\ found # <<>>
  /\ SpendFault
  /\ reports' \in {reports, reports \cup {<<Event, Head(found)>>}}
  /\ AttemptFails
  /\ UNCHANGED <<tableVars, groupVars, driftRows>>

StoreMarker ==
  /\ pc = "publish" /\ found = <<>>
  /\ marked' = marked \cup {Event}
  /\ handled' = handled + 1
  /\ pc' = "idle" /\ Leave
  /\ UNCHANGED <<tableVars, parked, reports, driftRows, faults>>

StoreFails ==
  /\ pc = "publish" /\ found = <<>>
  /\ SpendFault
  /\ AttemptFails
  /\ UNCHANGED <<tableVars, groupVars, reports, driftRows>>

ParkEvent ==
  /\ pc = "park"
  /\ parked' = parked \cup {Event}
  /\ handled' = handled + 1
  /\ pc' = "idle" /\ Leave
  /\ UNCHANGED <<tableVars, marked, reports, driftRows, faults>>

\* The worker dies; the event is delivered again.
Crash ==
  /\ pc # "idle"
  /\ SpendFault
  /\ pc' = "idle" /\ Leave
  /\ UNCHANGED <<tableVars, groupVars, reports, driftRows>>

-----------------------------------------------------------------------------
(* The drift worker, on some model.inference event of the entity           *)

\* Fewer rows than the baseline are left alone.
EnoughRows(rows) == Len(rows) >= BaselineSize

First(rows) ==
  SubSeq(rows, 1, IF Len(rows) < BaselineSize THEN Len(rows) ELSE BaselineSize)
Current(rows) ==
  SubSeq(rows, IF Len(rows) < CurrentSize THEN 1 ELSE Len(rows) - CurrentSize + 1, Len(rows))

\* A detector may report where its score is not zero; how large the score has to
\* be is left open.
ReportDrift ==
  LET rows == Series(Newest(DriftHistory)) IN
    /\ EnoughRows(rows)
    /\ SharesDiffer(First(rows), Current(rows)) \/ ShapesDiffer(First(rows), Current(rows))
    /\ driftRows' = Cardinality(stored)
    /\ UNCHANGED <<tableVars, groupVars, workerVars, reports, faults>>

-----------------------------------------------------------------------------

Next ==
  \/ \E v \in Values : Record(v)
  \/ Project \/ ProjectLost
  \/ ReadHistory \/ PublishFinding \/ PublishFails
  \/ StoreMarker \/ StoreFails \/ ParkEvent \/ Crash
  \/ ReportDrift

Spec == Init /\ [][Next]_vars

-----------------------------------------------------------------------------
(* Properties                                                              *)

\* The findings published for an event, by detector.
Reported(p) == {d \in Detectors : \E s \in {"warning", "critical"} :
                  <<p, [detector |-> d, severity |-> s]>> \in reports}

\* An event above the threshold is done with only when that is reported, however
\* often and over whatever history its evaluation was repeated
\* (anomaly.py:34-47, workers.py:131-157).
ThresholdReported ==
  \A p \in marked : topic[p] > Threshold => "threshold" \in Reported(p)

Flat(positions) == \A i, j \in positions : topic[i] = topic[j]

\* An attempt that read a flat history of at least four samples, for an event whose
\* value departs from it, settles the event only after both z-scores have been
\* reported (anomaly.py:85-107, workers.py:128-159).
SpikeReported ==
  (/\ pc = "publish" /\ found = <<>>
   /\ Cardinality(used) >= 4 /\ Flat(used)
   /\ \A i \in used : topic[i] # topic[Event])
    => {"latency", "cost"} \subseteq Reported(Event)

\* Statistics never speak before there is something to compare with, also when
\* the projection has lost samples (anomaly.py:58-59, 90-91, workers.py:259-260).
WarmUp ==
  /\ \A p \in 1 .. Len(topic) :
       /\ Reported(p) \cap {"latency", "cost"} # {} => Cardinality(stored) >= 4
       /\ "rolling" \in Reported(p) => Cardinality(stored) >= WindowSize - 1
  /\ driftRows # 0 => driftRows >= BaselineSize

\* A series that never changes is never reported, whatever the lag between the
\* projection and the workers (change-playbook.md:84: no avalanche of false alarms).
SteadySeriesIsQuiet ==
  (\A i, j \in DOMAIN topic : topic[i] = topic[j] /\ topic[i] <= Threshold)
    => reports = {} /\ driftRows = 0

=============================================================================
