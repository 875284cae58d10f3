----------------------------- MODULE RunEvents -----------------------------
(***************************************************************************)
(* The events of one execution run, as its consumers may rely on them: the *)
(* run's partition of agent.executions opens with execution.started and    *)
(* goes on with terminal events only; steps and costs come after the start.*)
(* ExecutionRun, the command and the workers, is shown to implement this;  *)
(* RunProjection consumes it.                                              *)
(***************************************************************************)
EXTENDS Integers, Sequences

CONSTANTS
  Steps,            \* identities of step and cost events
  MaxTerminals,     \* bound: terminal events
  MaxCosts          \* bound: cost events

VARIABLES
  execLog,          \* the run's partition of agent.executions
  stepTopic,        \* step.completed events
  costTopic         \* cost.recorded events, in order

topicVars == <<execLog, stepTopic, costTopic>>

Terminal == {"finished", "failed"}
ExecEvents == {"started"} \cup Terminal

TopicsTypeOK ==
  /\ execLog \in Seq(ExecEvents)
  /\ stepTopic \subseteq Steps
  /\ costTopic \in Seq(Steps)

NoEvents == execLog = <<>> /\ stepTopic = {} /\ costTopic = <<>>

Start ==
  /\ execLog = <<>>
  /\ execLog' = <<"started">>
  /\ UNCHANGED <<stepTopic, costTopic>>

Terminate(event) ==
  /\ execLog # <<>>
  /\ Len(execLog) <= MaxTerminals
  /\ execLog' = Append(execLog, event)
  /\ UNCHANGED <<stepTopic, costTopic>>

EmitStep(s) ==
  /\ execLog # <<>>
  /\ stepTopic' = stepTopic \cup {s}
  /\ UNCHANGED <<execLog, costTopic>>

EmitCost(s) ==
  /\ execLog # <<>>
  /\ Len(costTopic) < MaxCosts
  /\ costTopic' = Append(costTopic, s)
  /\ UNCHANGED <<execLog, stepTopic>>

Emit ==
  \/ Start
  \/ \E event \in Terminal : Terminate(event)
  \/ \E s \in Steps : EmitStep(s) \/ EmitCost(s)

EventsSpec == NoEvents /\ [][Emit]_topicVars

=============================================================================
