---------------------------- MODULE ExecutionRun ----------------------------
(***************************************************************************)
(* The write side of one execution run: the command that accepts it        *)
(* (ExecutionCommandService.create_execution), the execution workers that  *)
(* carry it out (run_execution_started_event, ExecutionWorkflow and the    *)
(* step emitter) and the events they publish.                              *)
(*                                                                         *)
(* Each publish is an await: another member that got the same start event  *)
(* after a rebalance interleaves there, and the worker may die there.      *)
(***************************************************************************)
EXTENDS Integers, Sequences

CONSTANTS
  Executors,        \* members of the execution-consumers group
  MaxRetries,       \* attempts per delivery (3 in the code)
  MaxPasses,        \* bound: workflow invocations of the run
  MaxFaults         \* bound: failing publishes and commits, crashes, and second
                    \* deliveries to another member

ASSUME RunAssumption ==
  /\ MaxRetries \in Nat \ {0}
  /\ MaxPasses \in Nat \ {0}
  /\ MaxFaults \in Nat

VARIABLES
  \* --- the command
  api,              \* progress of create_execution
  needsValidation,  \* input_payload asks for the validator node
  \* --- the topics
  execLog,          \* the run's partition of agent.executions
  stepTopic,        \* step.completed events: <<node, pass>>
  costTopic,        \* cost.recorded events, in order: <<node, pass>>
  \* --- the execution workers
  pc, node, pass,   \* per executor: label, workflow node, invocation
  tries,            \* per executor: attempt of the retry loop
  passes,           \* workflow invocations so far
  done,             \* the execution group's marker of execution.started
  parked,           \* execution.started is in agent.executions.dlq
  faults            \* budget spent

topicVars   == <<execLog, stepTopic, costTopic>>
workerVars  == <<pc, node, pass, tries, passes, done, parked>>
vars == <<api, needsValidation, topicVars, workerVars, faults>>

Nodes == {"planner", "tool_runner", "validator", "reviewer"}
Passes == 1 .. MaxPasses
Steps == Nodes \X Passes
Terminal == {"finished", "failed"}
ExecEvents == {"started"} \cup Terminal

\* The nodes a run goes through; the edges of the LangGraph graph.
Route == IF needsValidation THEN Nodes ELSE Nodes \ {"validator"}
\* Mutant: the validator is routed around.
NextNodeUnvalidated(n) ==
  CASE n = "planner"     -> "tool_runner"
    [] n = "tool_runner" -> "reviewer"
    [] n = "validator"   -> "reviewer"

NextNode(n) ==
  CASE n = "planner"     -> "tool_runner"
    [] n = "tool_runner" -> IF needsValidation THEN "validator" ELSE "reviewer"
    [] n = "validator"   -> "reviewer"

TypeOK ==
  /\ api \in {"new", "audit", "accepted", "rejected"}
  /\ needsValidation \in BOOLEAN
  /\ execLog \in Seq(ExecEvents)
  /\ stepTopic \subseteq Steps
  /\ costTopic \in Seq(Steps)
  /\ pc \in [Executors -> {"idle", "check", "step", "telemetry", "finish",
                           "finishAudit", "fail", "failAudit", "store", "park"}]
  /\ node \in [Executors -> Nodes]
  /\ pass \in [Executors -> 0 .. MaxPasses]
  /\ tries \in [Executors -> 1 .. MaxRetries]
  /\ passes \in 0 .. MaxPasses
  /\ done \in BOOLEAN /\ parked \in BOOLEAN
  /\ faults \in 0 .. MaxFaults

Init ==
  /\ api = "new"
  /\ needsValidation \in BOOLEAN
  /\ execLog = <<>> /\ stepTopic = {} /\ costTopic = <<>>
  /\ pc = [e \in Executors |-> "idle"]
  /\ node = [e \in Executors |-> "planner"]
  /\ pass = [e \in Executors |-> 0]
  /\ tries = [e \in Executors |-> 1]
  /\ passes = 0 /\ done = FALSE /\ parked = FALSE
  /\ faults = 0

SpendFault == faults < MaxFaults /\ faults' = faults + 1

\* A failing publish may or may not have left its event on the broker.
MaybeAppend(event) == execLog' \in {execLog, Append(execLog, event)}

-----------------------------------------------------------------------------
(* create_execution                                                        *)

\* No target, or a deployment that is not in the read model: DomainError.
RejectCommand ==
  /\ api = "new"
  /\ api' = "rejected"
  /\ UNCHANGED <<needsValidation, topicVars, workerVars, faults>>

PublishStarted ==
  /\ api = "new"
  /\ execLog' = Append(execLog, "started")
  /\ api' = "audit"
  /\ UNCHANGED <<needsValidation, stepTopic, costTopic, workerVars, faults>>

\* Mutant: a failed publish of execution.started is tried again.
PublishStartedRetried ==
  /\ api = "new"
  /\ SpendFault
  /\ MaybeAppend("started")
  /\ UNCHANGED <<api, needsValidation, stepTopic, costTopic, workerVars>>

PublishStartedFails ==
  /\ api = "new"
  /\ SpendFault
  /\ MaybeAppend("started")
  /\ api' = "rejected"
  /\ UNCHANGED <<needsValidation, stepTopic, costTopic, workerVars>>

AuditStarted ==
  /\ api = "audit"
  /\ api' = "accepted"
  /\ UNCHANGED <<needsValidation, topicVars, workerVars, faults>>

\* The client sees an error although the run has been started.
AuditStartedFails ==
  /\ api = "audit"
  /\ SpendFault
  /\ api' = "rejected"
  /\ UNCHANGED <<needsValidation, topicVars, workerVars>>

-----------------------------------------------------------------------------
(* The execution worker                                                    *)

Goto(e, label) == pc' = [pc EXCEPT ![e] = label]
Busy(e) == pc[e] # "idle"

\* Mutant: the retry budget is off by one.
AttemptFailsOnceMore(e) ==
  /\ IF tries[e] <= MaxRetries
       THEN Goto(e, "check") /\ tries' = [tries EXCEPT ![e] = @ + 1]
       ELSE Goto(e, "park") /\ UNCHANGED tries
  /\ UNCHANGED <<node, pass, passes, parked>>

\* _process_record's except clause around the handler.
AttemptFails(e) ==
  /\ IF tries[e] < MaxRetries
       THEN Goto(e, "check") /\ tries' = [tries EXCEPT ![e] = @ + 1]
       ELSE Goto(e, "park") /\ UNCHANGED tries
  /\ UNCHANGED <<node, pass, passes, parked>>

\* execution.started is delivered.  A second member gets it while the first is
\* still at work only after a rebalance, and it is delivered once parked only when
\* the offset commit behind the parking failed or was skipped, the partition having
\* gone.  A start that is marked is skipped; that changes nothing here.
Deliver(e) ==
  /\ pc[e] = "idle" /\ ~done
  /\ execLog # <<>>
  /\ IF parked \/ \E other \in Executors : Busy(other)
       THEN SpendFault
       ELSE UNCHANGED faults
  /\ tries' = [tries EXCEPT ![e] = 1]
  /\ Goto(e, "check")
  /\ UNCHANGED <<api, needsValidation, topicVars, node, pass, passes, done, parked>>

\* The idempotency check; the workflow starts over on every attempt.
BeginWorkflow(e) ==
  /\ pc[e] = "check" /\ ~done
  /\ passes < MaxPasses
  /\ passes' = passes + 1
  /\ pass' = [pass EXCEPT ![e] = passes + 1]
  /\ node' = [node EXCEPT ![e] = "planner"]
  /\ Goto(e, "step")
  /\ UNCHANGED <<api, needsValidation, topicVars, tries, done, parked, faults>>

SkipProcessed(e) ==
  /\ pc[e] = "check" /\ done
  /\ Goto(e, "idle")
  /\ UNCHANGED <<api, needsValidation, topicVars, node, pass, tries, passes, done,
                 parked, faults>>

\* The node has produced its output; the emitter publishes step.completed.
EmitStep(e) ==
  /\ pc[e] = "step"
  /\ stepTopic' = stepTopic \cup {<<node[e], pass[e]>>}
  /\ Goto(e, "telemetry")
  /\ UNCHANGED <<api, needsValidation, execLog, costTopic, node, pass, tries, passes,
                 done, parked, faults>>

\* Metrics, model.inference.recorded and cost.recorded follow the step event.
EmitTelemetry(e) ==
  /\ pc[e] = "telemetry"
  /\ costTopic' = Append(costTopic, <<node[e], pass[e]>>)
  /\ IF node[e] = "reviewer"
       THEN Goto(e, "finish") /\ UNCHANGED node
       ELSE Goto(e, "step") /\ node' = [node EXCEPT ![e] = NextNode(@)]
  /\ UNCHANGED <<api, needsValidation, execLog, stepTopic, pass, tries, passes, done,
                 parked, faults>>

\* Mutant: the failure of a node ends the workflow without an outcome.
EmitFailsSilently(e) ==
  /\ SpendFault
  /\ pc[e] \in {"step", "telemetry"}
  /\ Goto(e, "store")
  /\ UNCHANGED <<api, needsValidation, topicVars, node, pass, tries, passes, done, parked>>

\* A publish of the emitter raises: the node, and with it the workflow, fails.
EmitFails(e) ==
  /\ SpendFault
  /\ \/ /\ pc[e] = "step"
        /\ stepTopic' \in {stepTopic, stepTopic \cup {<<node[e], pass[e]>>}}
        /\ UNCHANGED costTopic
     \/ /\ pc[e] = "telemetry"
        /\ costTopic' \in {costTopic, Append(costTopic, <<node[e], pass[e]>>)}
        /\ UNCHANGED stepTopic
  /\ Goto(e, "fail")
  /\ UNCHANGED <<api, needsValidation, execLog, node, pass, tries, passes, done, parked>>

PublishFinished(e) ==
  /\ pc[e] = "finish"
  /\ execLog' = Append(execLog, "finished")
  /\ Goto(e, "finishAudit")
  /\ UNCHANGED <<api, needsValidation, stepTopic, costTopic, node, pass, tries, passes,
                 done, parked, faults>>

\* The publish of execution.finished, or of its audit event, raises inside the
\* same try block: the run is reported failed.
FinishFails(e) ==
  /\ SpendFault
  /\ \/ pc[e] = "finish" /\ MaybeAppend("finished")
     \/ pc[e] = "finishAudit" /\ UNCHANGED execLog
  /\ Goto(e, "fail")
  /\ UNCHANGED <<api, needsValidation, stepTopic, costTopic, node, pass, tries, passes,
                 done, parked>>

PublishFailed(e) ==
  /\ pc[e] = "fail"
  /\ execLog' = Append(execLog, "failed")
  /\ Goto(e, "failAudit")
  /\ UNCHANGED <<api, needsValidation, stepTopic, costTopic, node, pass, tries, passes,
                 done, parked, faults>>

\* Mutant: an error of the except branch is swallowed.
FailFailsSwallowed(e) ==
  /\ SpendFault
  /\ pc[e] \in {"fail", "failAudit"}
  /\ Goto(e, "store")
  /\ UNCHANGED <<api, needsValidation, topicVars, node, pass, tries, passes, done, parked>>

\* Nothing catches an error of the except branch itself: the attempt fails.
FailFails(e) ==
  /\ SpendFault
  /\ \/ pc[e] = "fail" /\ MaybeAppend("failed")
     \/ pc[e] = "failAudit" /\ UNCHANGED execLog
  /\ AttemptFails(e)
  /\ UNCHANGED <<api, needsValidation, stepTopic, costTopic, done>>

\* The audit event of the terminal event; _run_workflow returns.
AuditOutcome(e) ==
  /\ pc[e] \in {"finishAudit", "failAudit"}
  /\ Goto(e, "store")
  /\ UNCHANGED <<api, needsValidation, topicVars, node, pass, tries, passes, done,
                 parked, faults>>

\* The marker of execution.started is committed.
StoreMarker(e) ==
  /\ pc[e] = "store" /\ ~done
  /\ done' = TRUE
  /\ Goto(e, "idle")
  /\ UNCHANGED <<api, needsValidation, topicVars, node, pass, tries, passes, parked,
                 faults>>

\* Another member's marker is already there, or the commit raises, whether or not it
\* has reached the database, or the offset commit behind it does.
StoreFails(e) ==
  /\ pc[e] = "store"
  /\ \/ done /\ UNCHANGED <<done, faults>>
     \/ ~done /\ done' \in BOOLEAN /\ SpendFault
  /\ AttemptFails(e)
  /\ UNCHANGED <<api, needsValidation, topicVars>>

ParkStarted(e) ==
  /\ pc[e] = "park"
  /\ parked' = TRUE
  /\ Goto(e, "idle")
  /\ UNCHANGED <<api, needsValidation, topicVars, node, pass, tries, passes, done,
                 faults>>

\* The worker dies anywhere in the handler and leaves what it has published.
Crash(e) ==
  /\ Busy(e)
  /\ SpendFault
  /\ Goto(e, "idle")
  /\ UNCHANGED <<api, needsValidation, topicVars, node, pass, tries, passes, done,
                 parked>>

-----------------------------------------------------------------------------

Command == \/ RejectCommand \/ PublishStarted \/ PublishStartedFails
           \/ AuditStarted \/ AuditStartedFails

\* What a worker does when nothing fails.
Work(e) ==
  \/ BeginWorkflow(e) \/ SkipProcessed(e) \/ EmitStep(e) \/ EmitTelemetry(e)
  \/ PublishFinished(e) \/ PublishFailed(e) \/ AuditOutcome(e)
  \/ StoreMarker(e) \/ (done /\ StoreFails(e)) \/ ParkStarted(e)

Next ==
  \/ Command
  \/ \E e \in Executors :
       \/ Deliver(e) \/ Crash(e) \/ BeginWorkflow(e) \/ SkipProcessed(e)
       \/ EmitStep(e) \/ EmitTelemetry(e) \/ EmitFails(e)
       \/ PublishFinished(e) \/ FinishFails(e) \/ PublishFailed(e) \/ FailFails(e)
       \/ AuditOutcome(e) \/ StoreMarker(e) \/ StoreFails(e) \/ ParkStarted(e)

Spec == Init /\ [][Next]_vars

\* The event loops run, and a start event that is neither marked nor parked is
\* delivered to a member that is idle; a second delivery is nothing to rely on.
Fairness ==
  /\ WF_vars(\E e \in Executors : ~parked /\ Deliver(e))
  /\ \A e \in Executors : WF_vars(Work(e))

FairSpec == Spec /\ Fairness

-----------------------------------------------------------------------------
(* Properties                                                              *)

\* What the run's consumers may rely on.
Events == INSTANCE RunEvents WITH MaxTerminals <- 2 * MaxPasses,
                                  MaxCosts <- 4 * MaxPasses
ImplementsEvents == Events!EventsSpec

\* execution.finished is published only behind all the steps and costs of some
\* pass through the graph, the validator's included when it was asked for.
FinishedIsComplete ==
  "finished" \in {execLog[i] : i \in DOMAIN execLog} =>
    \E p \in Passes : \A n \in Route :
      /\ <<n, p>> \in stepTopic
      /\ \E i \in DOMAIN costTopic : costTopic[i] = <<n, p>>

\* The start event is marked as processed only behind a terminal event, so a
\* run is never dropped by a worker that reported nothing (service.py:220-284).
MarkerHasOutcome == done => \E i \in DOMAIN execLog : execLog[i] \in Terminal

\* A started run gets a terminal event, or its start event is parked.
RunIsDecided ==
  execLog # <<>> ~> (parked \/ \E i \in DOMAIN execLog : execLog[i] \in Terminal)

=============================================================================
