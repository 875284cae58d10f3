--------------------------- MODULE RunProjection ---------------------------
(***************************************************************************)
(* The read model of one execution run: how ProjectionService turns the    *)
(* run's events (RunEvents) into its execution_runs row, its execution_    *)
(* steps rows and its cost_records rows.                                   *)
(*                                                                         *)
(* Execution events share a partition and are settled in order.  Step      *)
(* events are keyed by a random entity_id, so they are projected in any    *)
(* order, before or after any execution event.  Costs are ordered among    *)
(* themselves only.  The projection group is used through what GroupLedger *)
(* promises: an event is settled, that is applied or parked in the dead-   *)
(* letter topic, behind those before it in its partition, and applied once *)
(* at most.  A parked event may still be applied: parking leaves no marker,*)
(* and a member that has lost the partition parks without moving the       *)
(* committed offset, so the next owner comes upon the event again, after   *)
(* later ones of the old owner's batch have been applied.                  *)
(***************************************************************************)
EXTENDS RunEvents

CONSTANT MaxParked  \* bound: events the projection parks

ASSUME ProjectionAssumption ==
  /\ MaxTerminals \in Nat
  /\ MaxCosts \in Nat
  /\ MaxParked \in Nat

VARIABLES
  status,           \* execution_runs.status of the run, or "absent"
  stub,             \* the row is the placeholder made for a step
  execRead,         \* execution events settled
  execApplied,      \* positions of those that are applied
  execOvertaken,    \* history: positions applied behind a later one
  stepRows,         \* execution_steps rows
  stepParked,       \* parked step events
  costRead,         \* cost events settled
  costRows,         \* positions of stored costs
  orphans,          \* and of those stored without their run
  parkings          \* parkings so far

rowVars  == <<status, stub>>
execVars == <<execRead, execApplied, execOvertaken>>
stepVars == <<stepRows, stepParked>>
costVars == <<costRead, costRows, orphans>>
vars == <<topicVars, rowVars, execVars, stepVars, costVars, parkings>>

\* ExecutionStatus a terminal event carries.
StatusOf(event) == IF event = "finished" THEN "succeeded" ELSE "failed"

TypeOK ==
  /\ TopicsTypeOK
  /\ status \in {"absent", "running", "succeeded", "failed"}
  /\ stub \in BOOLEAN
  /\ execRead \in 0 .. Len(execLog)
  /\ execApplied \subseteq 1 .. execRead
  /\ execOvertaken \subseteq execApplied
  /\ stepRows \subseteq stepTopic
  /\ stepParked \subseteq stepTopic
  /\ costRead \in 0 .. Len(costTopic)
  /\ costRows \subseteq 1 .. costRead
  /\ orphans \subseteq costRows
  /\ parkings \in 0 .. MaxParked

Init ==
  /\ NoEvents
  /\ status = "absent" /\ stub = FALSE
  /\ execRead = 0 /\ execApplied = {} /\ execOvertaken = {}
  /\ stepRows = {} /\ stepParked = {}
  /\ costRead = 0 /\ costRows = {} /\ orphans = {}
  /\ parkings = 0

Produce == Emit /\ UNCHANGED <<rowVars, execVars, stepVars, costVars, parkings>>

Park == parkings < MaxParked /\ parkings' = parkings + 1

\* The positions of a partition an owner may come upon: the next one, and the
\* parked ones.
Due(log, read, applied) == {i \in 1 .. Len(log) : i <= read + 1 /\ i \notin applied}

Reach(read, i) == IF i > read THEN i ELSE read

-----------------------------------------------------------------------------
(* agent.executions                                                        *)

\* The transaction of an execution event and its marker.
ApplyExec(i) ==
  /\ i \in Due(execLog, execRead, execApplied)
  /\ execRead' = Reach(execRead, i)
  /\ execApplied' = execApplied \cup {i}
  /\ execOvertaken' = IF \E j \in execApplied : j > i
                        THEN execOvertaken \cup {i} ELSE execOvertaken

\* Mutant: an existing row is left as it is.
ProjectStartedInsertOnly(i) ==
  /\ ApplyExec(i)
  /\ execLog[i] = "started"
  /\ status' = IF status = "absent" THEN "running" ELSE status
  /\ UNCHANGED <<topicVars, stub, stepVars, costVars, parkings>>

\* execution.started upserts the row: whatever is there becomes the full record.
ProjectStarted(i) ==
  /\ ApplyExec(i)
  /\ execLog[i] = "started"
  /\ status' = "running"
  /\ stub' = FALSE
  /\ UNCHANGED <<topicVars, stepVars, costVars, parkings>>

\* Mutant: a missing row is waited for.
ProjectTerminalWaits(i) ==
  /\ ApplyExec(i)
  /\ execLog[i] \in Terminal
  /\ status # "absent"
  /\ status' = StatusOf(execLog[i])
  /\ UNCHANGED <<topicVars, stub, stepVars, costVars, parkings>>

\* _update: a missing row is ignored.
Updated(event) == IF status = "absent" THEN "absent" ELSE StatusOf(event)

\* A terminal event updates the row.
ProjectTerminal(i) ==
  /\ ApplyExec(i)
  /\ execLog[i] \in Terminal
  /\ status' = Updated(execLog[i])
  /\ UNCHANGED <<topicVars, stub, stepVars, costVars, parkings>>

\* All attempts failed.  (Parking a parked event once more changes nothing.)
ParkExec ==
  /\ execRead < Len(execLog)
  /\ Park
  /\ execRead' = execRead + 1
  /\ UNCHANGED <<topicVars, rowVars, execApplied, execOvertaken, stepVars, costVars>>

-----------------------------------------------------------------------------
(* agent.steps and cost.events                                             *)

\* Mutants: the placeholder is written over an existing row; or not at all.
PlaceholderOverwrites == status' = "running" /\ UNCHANGED stub
NoPlaceholder == UNCHANGED rowVars

\* _ensure_execution_run_placeholder: a row is made only when there is none.
EnsurePlaceholder ==
  IF status = "absent"
    THEN status' = "running" /\ stub' = TRUE
    ELSE UNCHANGED rowVars

\* A step makes a placeholder row when its run is not there.
ProjectStep(s) ==
  /\ s \in stepTopic \ stepRows
  /\ stepRows' = stepRows \cup {s}
  /\ EnsurePlaceholder
  /\ UNCHANGED <<topicVars, execVars, stepParked, costVars, parkings>>

ParkStep(s) ==
  /\ s \in stepTopic \ (stepRows \cup stepParked)
  /\ Park
  /\ stepParked' = stepParked \cup {s}
  /\ UNCHANGED <<topicVars, rowVars, execVars, stepRows, costVars>>

\* A cost whose run is not there is stored without it.
ProjectCost(i) ==
  /\ i \in Due(costTopic, costRead, costRows)
  /\ costRead' = Reach(costRead, i)
  /\ costRows' = costRows \cup {i}
  /\ orphans' = IF status = "absent" THEN orphans \cup {i} ELSE orphans
  /\ UNCHANGED <<topicVars, rowVars, execVars, stepVars, parkings>>

\* Its agent_id and environment_id are foreign keys that nobody resolves: the row
\* is refused on every attempt as long as one of them is missing.
ParkCost ==
  /\ costRead < Len(costTopic)
  /\ Park
  /\ costRead' = costRead + 1
  /\ UNCHANGED <<topicVars, rowVars, execVars, stepVars, costRows, orphans>>

-----------------------------------------------------------------------------

\* What an owner settles as it goes through its partitions; that it comes upon a
\* parked event again is nothing to rely on.
Project ==
  \/ ProjectStarted(execRead + 1) \/ ProjectTerminal(execRead + 1)
  \/ ProjectCost(costRead + 1)
  \/ \E s \in Steps \ stepParked : ProjectStep(s)

Next ==
  \/ Produce
  \/ \E i \in DOMAIN execLog : ProjectStarted(i) \/ ProjectTerminal(i)
  \/ ParkExec
  \/ \E s \in Steps : ProjectStep(s) \/ ParkStep(s)
  \/ \E i \in DOMAIN costTopic : ProjectCost(i)
  \/ ParkCost

Spec == Init /\ [][Next]_vars

\* The projection worker keeps consuming.
FairSpec == Spec /\ WF_vars(Project)

-----------------------------------------------------------------------------
(* Properties                                                              *)

\* The row shows a terminal status.
Closed == status \in {"succeeded", "failed"}

\* The read model has settled everything there is.
CaughtUp ==
  /\ execRead = Len(execLog) /\ costRead = Len(costTopic)
  /\ stepRows \cup stepParked = stepTopic

\* Positions of terminal events the projection has applied to an existing row
\* or ignored.
AppliedTerminals == execApplied \ {1}

\* The status an execution event stands for.
Says(i) == IF execLog[i] = "started" THEN "running" ELSE StatusOf(execLog[i])

\* Once execution.started is applied, the row is no placeholder and its status is
\* that of the last execution event applied, or of one that was parked and then
\* applied behind a later one; whatever came through the step topic before, in
\* between or after (projector.py:156-200, 338-366).
RowFollowsLog ==
  1 \in execApplied =>
    /\ ~stub
    /\ \E i \in execApplied :
         /\ status = Says(i)
         /\ i \in execOvertaken \/ \A j \in execApplied : j <= i

\* The strengthening of RowFollowsLog that every step preserves: the shape of
\* the run's partition, and what the row can be before and after the start.
RowInv ==
  /\ execLog # <<>> => execLog[1] = "started"
  /\ \A i \in 2 .. Len(execLog) : execLog[i] \in Terminal
  /\ 1 \in execApplied => status # "absent"
  /\ Closed => AppliedTerminals # {}
  /\ RowFollowsLog

\* Every step row and every attributed cost refers to a run row that exists.
ReferencesResolve ==
  stepRows # {} \/ costRows \ orphans # {} => status # "absent"

\* A run that has been reported finished or failed shows as running again in one
\* case only: its start was parked, and is applied behind the terminal event
\* (projector.py:168, kafka.py:270-271).
OnlyLateStartReopens ==
  [][Closed /\ ~Closed' => 1 \notin execApplied /\ 1 \in execOvertaken']_vars

\* The read model catches up with the topics once they stop growing.
ReadModelCatchesUp == <>[]CaughtUp

-----------------------------------------------------------------------------
(* Claims of the repository the code does not meet                         *)

\* projector.py:350-351: a placeholder lives until the proper terminal or started
\* event arrives and enriches the record; once everything is settled, no placeholder
\* whose terminal event was applied is left running.
TerminalEventShows ==
  CaughtUp /\ stub /\ status = "running" => AppliedTerminals = {}

=============================================================================
