------------------------ MODULE ExecutionRunProofs ------------------------
(***************************************************************************)
(* Proofs about ExecutionRun, for any number of executors and any bounds   *)
(* on retries, passes and faults.                                          *)
(***************************************************************************)
EXTENDS ExecutionRun, FiniteSetTheorems, TLAPS

-----------------------------------------------------------------------------
(* The topics grow                                                         *)

\* What a publish, failed or not, does to the partition of the run.
LEMMA LogGrows ==
  ASSUME TypeOK, NEW event \in ExecEvents, MaybeAppend(event)
  PROVE  /\ execLog' \in Seq(ExecEvents)
         /\ \A i \in DOMAIN execLog : i \in DOMAIN execLog' /\ execLog'[i] = execLog[i]
         /\ \A i \in DOMAIN execLog' : i \in DOMAIN execLog \/ execLog'[i] = event
         /\ execLog' = Append(execLog, event) =>
              \E i \in DOMAIN execLog' : execLog'[i] = event
  <1>1. execLog \in Seq(ExecEvents)
    BY DEF TypeOK
  <1>2. CASE execLog' = Append(execLog, event)
    <2>1. /\ execLog' \in Seq(ExecEvents) /\ Len(execLog) \in Nat
          /\ DOMAIN execLog = 1 .. Len(execLog)
          /\ DOMAIN execLog' = 1 .. Len(execLog) + 1
          /\ \A i \in 1 .. Len(execLog) : execLog'[i] = execLog[i]
          /\ execLog'[Len(execLog) + 1] = event
      BY <1>1, <1>2
    <2>2. \A i \in DOMAIN execLog' : i \in DOMAIN execLog \/ i = Len(execLog) + 1
      BY <2>1
    <2>3. Len(execLog) + 1 \in DOMAIN execLog' /\ DOMAIN execLog \subseteq DOMAIN execLog'
      BY <2>1
    <2> QED
      BY <2>1, <2>2, <2>3
  <1>3. CASE execLog' = execLog /\ execLog' # Append(execLog, event)
    BY <1>1, <1>3
  <1> QED
    BY <1>2, <1>3 DEF MaybeAppend

\* A cost event comes to the end of its topic.
LEMMA CostsGrow ==
  ASSUME TypeOK, NEW cost \in Steps, costTopic' \in {costTopic, Append(costTopic, cost)}
  PROVE  /\ costTopic' \in Seq(Steps)
         /\ \A i \in DOMAIN costTopic : i \in DOMAIN costTopic' /\ costTopic'[i] = costTopic[i]
         /\ costTopic' = Append(costTopic, cost) =>
              \E i \in DOMAIN costTopic' : costTopic'[i] = cost
  <1>1. costTopic \in Seq(Steps)
    BY DEF TypeOK
  <1>2. CASE costTopic' = Append(costTopic, cost)
    <2>1. /\ costTopic' \in Seq(Steps) /\ Len(costTopic) \in Nat
          /\ DOMAIN costTopic = 1 .. Len(costTopic)
          /\ DOMAIN costTopic' = 1 .. Len(costTopic) + 1
          /\ \A i \in 1 .. Len(costTopic) : costTopic'[i] = costTopic[i]
          /\ costTopic'[Len(costTopic) + 1] = cost
      BY <1>1, <1>2
    <2>2. Len(costTopic) + 1 \in DOMAIN costTopic' /\ DOMAIN costTopic \subseteq DOMAIN costTopic'
      BY <2>1
    <2> QED
      BY <2>1, <2>2
  <1>3. CASE costTopic' = costTopic /\ costTopic' # Append(costTopic, cost)
    BY <1>1, <1>3
  <1> QED
    BY <1>2, <1>3

-----------------------------------------------------------------------------
(* Type correctness                                                        *)

\* The pass of a worker that is at work in the graph is one that was begun.
PassBegun ==
  \A e \in Executors :
    pc[e] \in {"step", "telemetry", "finish"} => pass[e] \in Passes

TypeInv == TypeOK /\ PassBegun

WorkerStep(e) ==
  \/ Deliver(e) \/ Crash(e) \/ BeginWorkflow(e) \/ SkipProcessed(e)
  \/ EmitStep(e) \/ EmitTelemetry(e) \/ EmitFails(e)
  \/ PublishFinished(e) \/ FinishFails(e) \/ PublishFailed(e) \/ FailFails(e)
  \/ AuditOutcome(e) \/ StoreMarker(e) \/ StoreFails(e) \/ ParkStarted(e)

LEMMA FaultTypes ==
  ASSUME TypeOK, SpendFault
  PROVE  faults' \in 0 .. MaxFaults
  BY RunAssumption DEF TypeOK, SpendFault

\* An attempt that fails is tried again, or its event goes to the dead-letter topic.
LEMMA AttemptTypes ==
  ASSUME TypeOK, NEW e \in Executors, AttemptFails(e)
  PROVE  /\ Goto(e, "check") \/ Goto(e, "park")
         /\ tries' \in [Executors -> 1 .. MaxRetries]
         /\ UNCHANGED <<node, pass, passes, parked>>
  <1>1. tries[e] \in 1 .. MaxRetries /\ MaxRetries \in Nat
    BY RunAssumption DEF TypeOK
  <1>2. tries[e] < MaxRetries => tries[e] + 1 \in 1 .. MaxRetries
    BY <1>1
  <1> QED
    BY <1>2 DEF AttemptFails, TypeOK

\* What a worker's step does to its label.
LEMMA GotoTypes ==
  ASSUME TypeOK, NEW e \in Executors,
         NEW label \in {"idle", "check", "step", "telemetry", "finish",
                        "finishAudit", "fail", "failAudit", "store", "park"},
         Goto(e, label)
  PROVE  /\ pc' \in [Executors -> {"idle", "check", "step", "telemetry", "finish",
                                   "finishAudit", "fail", "failAudit", "store", "park"}]
         /\ pc'[e] = label
         /\ \A x \in Executors : x # e => pc'[x] = pc[x]
  BY DEF Goto, TypeOK

\* The command keeps the types.
LEMMA CommandKeepsTypes ==
  ASSUME TypeInv, Command
  PROVE  TypeInv'
  <1> USE DEF topicVars, workerVars
  <1>1. TypeOK /\ "started" \in ExecEvents
    BY DEF TypeInv, ExecEvents
  <1>2. UNCHANGED <<needsValidation, stepTopic, costTopic, pc, node, pass, tries, passes,
                    done, parked>>
    BY DEF Command, RejectCommand, PublishStarted, PublishStartedFails, AuditStarted,
           AuditStartedFails
  <1>3. api' \in {"new", "audit", "accepted", "rejected"}
    BY DEF Command, RejectCommand, PublishStarted, PublishStartedFails, AuditStarted,
           AuditStartedFails
  <1>4. faults' \in 0 .. MaxFaults
    BY <1>1, FaultTypes DEF Command, RejectCommand, PublishStarted, PublishStartedFails,
           AuditStarted, AuditStartedFails, TypeOK
  <1>5. execLog' = execLog \/ MaybeAppend("started")
    BY DEF Command, RejectCommand, PublishStarted, PublishStartedFails, AuditStarted,
           AuditStartedFails, MaybeAppend
  <1>6. execLog' \in Seq(ExecEvents)
    BY <1>1, <1>5, LogGrows DEF TypeOK
  <1> QED
    BY <1>1, <1>2, <1>3, <1>4, <1>6 DEF TypeInv, TypeOK, PassBegun

\* A worker's step keeps the types.
LEMMA WorkerKeepsTypes ==
  ASSUME TypeInv, NEW e \in Executors, WorkerStep(e)
  PROVE  TypeInv'
  <1> USE DEF topicVars
  <1>1. /\ TypeOK /\ MaxPasses \in Nat /\ 1 \in 1 .. MaxRetries
        /\ "finished" \in ExecEvents /\ "failed" \in ExecEvents
        /\ node[e] \in Nodes /\ pass[e] \in 0 .. MaxPasses /\ passes \in 0 .. MaxPasses
    BY RunAssumption DEF TypeInv, TypeOK, ExecEvents, Terminal
  <1>2. pc[e] \in {"step", "telemetry", "finish"} => <<node[e], pass[e]>> \in Steps
    BY <1>1 DEF TypeInv, PassBegun, Steps
  <1>3. CASE Deliver(e)
    <2>1. faults' \in 0 .. MaxFaults
      BY <1>1, <1>3, FaultTypes DEF Deliver, TypeOK
    <2> QED
      BY <1>1, <1>3, <2>1, GotoTypes DEF Deliver, TypeInv, TypeOK, PassBegun
  <1>4. CASE Crash(e)
    BY <1>1, <1>4, FaultTypes, GotoTypes DEF Crash, TypeInv, TypeOK, PassBegun
  <1>5. CASE BeginWorkflow(e)
    <2>1. passes + 1 \in Passes /\ passes + 1 \in 0 .. MaxPasses
      BY <1>1, <1>5 DEF BeginWorkflow, Passes
    <2>2. /\ pass' \in [Executors -> 0 .. MaxPasses] /\ pass'[e] \in Passes
          /\ \A x \in Executors : x # e => pass'[x] = pass[x]
      BY <1>1, <1>5, <2>1 DEF BeginWorkflow, TypeOK
    <2>3. node' \in [Executors -> Nodes] /\ passes' \in 0 .. MaxPasses
      BY <1>1, <1>5, <2>1 DEF BeginWorkflow, TypeOK, Nodes
    <2> QED
      BY <1>1, <1>5, <2>2, <2>3, GotoTypes DEF BeginWorkflow, TypeInv, TypeOK, PassBegun
  <1>6. CASE SkipProcessed(e) \/ AuditOutcome(e) \/ StoreMarker(e) \/ ParkStarted(e)
    BY <1>1, <1>6, GotoTypes
       DEF SkipProcessed, AuditOutcome, StoreMarker, ParkStarted, TypeInv, TypeOK, PassBegun
  <1>7. CASE EmitStep(e)
    <2>1. stepTopic' \subseteq Steps
      BY <1>1, <1>2, <1>7 DEF EmitStep, TypeOK
    <2> QED
      BY <1>1, <1>7, <2>1, GotoTypes DEF EmitStep, TypeInv, TypeOK, PassBegun
  <1>8. CASE EmitTelemetry(e)
    <2>1. costTopic' \in Seq(Steps)
      BY <1>1, <1>2, <1>8, CostsGrow DEF EmitTelemetry
    <2>2. node' \in [Executors -> Nodes]
      BY <1>1, <1>8 DEF EmitTelemetry, NextNode, Nodes, TypeOK
    <2>3. Goto(e, "finish") \/ Goto(e, "step")
      BY <1>8 DEF EmitTelemetry
    <2> QED
      BY <1>1, <1>8, <2>1, <2>2, <2>3, GotoTypes DEF EmitTelemetry, TypeInv, TypeOK, PassBegun
  <1>9. CASE EmitFails(e)
    <2>1. stepTopic' \subseteq Steps /\ costTopic' \in Seq(Steps)
      BY <1>1, <1>2, <1>9, CostsGrow DEF EmitFails, TypeOK
    <2>2. faults' \in 0 .. MaxFaults
      BY <1>1, <1>9, FaultTypes DEF EmitFails
    <2> QED
      BY <1>1, <1>9, <2>1, <2>2, GotoTypes DEF EmitFails, TypeInv, TypeOK, PassBegun
  <1>10. CASE PublishFinished(e)
    <2>1. execLog' \in Seq(ExecEvents)
      BY <1>1, <1>10, LogGrows DEF PublishFinished, MaybeAppend
    <2> QED
      BY <1>1, <1>10, <2>1, GotoTypes DEF PublishFinished, TypeInv, TypeOK, PassBegun
  <1>11. CASE FinishFails(e)
    <2>1. execLog' \in Seq(ExecEvents)
      BY <1>1, <1>11, LogGrows DEF FinishFails, TypeOK
    <2>2. faults' \in 0 .. MaxFaults
      BY <1>1, <1>11, FaultTypes DEF FinishFails
    <2> QED
      BY <1>1, <1>11, <2>1, <2>2, GotoTypes DEF FinishFails, TypeInv, TypeOK, PassBegun
  <1>12. CASE PublishFailed(e)
    <2>1. execLog' \in Seq(ExecEvents)
      BY <1>1, <1>12, LogGrows DEF PublishFailed, MaybeAppend
    <2> QED
      BY <1>1, <1>12, <2>1, GotoTypes DEF PublishFailed, TypeInv, TypeOK, PassBegun
  <1>13. CASE FailFails(e)
    <2>1. execLog' \in Seq(ExecEvents)
      BY <1>1, <1>13, LogGrows DEF FailFails, TypeOK
    <2>2. faults' \in 0 .. MaxFaults
      BY <1>1, <1>13, FaultTypes DEF FailFails
    <2>3. /\ Goto(e, "check") \/ Goto(e, "park")
          /\ tries' \in [Executors -> 1 .. MaxRetries]
          /\ UNCHANGED <<api, needsValidation, stepTopic, costTopic, node, pass, passes, done,
                         parked>>
      BY <1>1, <1>13, AttemptTypes DEF FailFails
    <2> QED
      BY <1>1, <2>1, <2>2, <2>3, GotoTypes DEF TypeInv, TypeOK, PassBegun
  <1>14. CASE StoreFails(e)
    <2>1. faults' \in 0 .. MaxFaults
      BY <1>1, <1>14, FaultTypes DEF StoreFails, TypeOK
    <2>2. /\ Goto(e, "check") \/ Goto(e, "park")
          /\ tries' \in [Executors -> 1 .. MaxRetries]
          /\ UNCHANGED <<api, needsValidation, topicVars, node, pass, passes, parked>>
      BY <1>1, <1>14, AttemptTypes DEF StoreFails
    <2>3. done' \in BOOLEAN
      BY <1>1, <1>14 DEF StoreFails, TypeOK
    <2> QED
      BY <1>1, <2>1, <2>2, <2>3, GotoTypes DEF TypeInv, TypeOK, PassBegun
  <1> QED
    BY <1>3, <1>4, <1>5, <1>6, <1>7, <1>8, <1>9, <1>10, <1>11, <1>12, <1>13, <1>14
       DEF WorkerStep

LEMMA StepKeepsTypes == TypeInv /\ [Next]_vars => TypeInv'
  <1> SUFFICES ASSUME TypeInv, [Next]_vars
               PROVE  TypeInv'
    OBVIOUS
  <1>1. CASE UNCHANGED vars
    BY <1>1 DEF vars, topicVars, workerVars, TypeInv, TypeOK, PassBegun
  <1> QED
    BY <1>1, CommandKeepsTypes, WorkerKeepsTypes DEF Next, WorkerStep

LEMMA InitTypeInv == Init => TypeInv
  <1> SUFFICES ASSUME Init
               PROVE  TypeInv
    OBVIOUS
  <1>1. /\ 0 \in 0 .. MaxPasses /\ 0 \in 0 .. MaxFaults /\ 1 \in 1 .. MaxRetries
        /\ "planner" \in Nodes
    BY RunAssumption DEF Nodes
  <1>2. execLog \in Seq(ExecEvents) /\ costTopic \in Seq(Steps)
    BY DEF Init
  <1> QED
    BY <1>1, <1>2 DEF Init, TypeInv, TypeOK, PassBegun

\* Every variable of a run's write side keeps its type.
THEOREM TypeCorrect == Spec => []TypeOK
  <1>1. TypeInv => TypeOK
    BY DEF TypeInv
  <1> QED
    BY <1>1, InitTypeInv, StepKeepsTypes, PTL DEF Spec

-----------------------------------------------------------------------------
(* The inductive invariant                                                 *)

\* The step and the cost of node n in pass p are published.
Covered(n, p) ==
  /\ <<n, p>> \in stepTopic
  /\ \E i \in DOMAIN costTopic : costTopic[i] = <<n, p>>

\* The nodes a pass is through with when it comes to n.
Earlier(n) ==
  CASE n = "planner"     -> {}
    [] n = "tool_runner" -> {"planner"}
    [] n = "validator"   -> {"planner", "tool_runner"}
    [] n = "reviewer"    -> Route \ {"reviewer"}

\* A pass has published all nodes before the one it is at, and the step event of
\* that one when its telemetry is next.
Progress(e) ==
  /\ pc[e] \in {"step", "telemetry"} => \A n \in Earlier(node[e]) : Covered(n, pass[e])
  /\ pc[e] = "telemetry" => <<node[e], pass[e]>> \in stepTopic
  /\ pc[e] = "finish" => \A n \in Route : Covered(n, pass[e])

HasOutcome == \E i \in DOMAIN execLog : execLog[i] \in Terminal

\* A worker that is past its terminal event has published one.
Reported(e) == pc[e] \in {"finishAudit", "failAudit", "store"} => HasOutcome

RunInv ==
  /\ TypeInv
  /\ \A e \in Executors : Progress(e) /\ Reported(e)
  /\ FinishedIsComplete /\ MarkerHasOutcome

\* Nothing leaves a topic.
TopicsGrow ==
  /\ \A i \in DOMAIN execLog : i \in DOMAIN execLog' /\ execLog'[i] = execLog[i]
  /\ stepTopic \subseteq stepTopic'
  /\ \A i \in DOMAIN costTopic : i \in DOMAIN costTopic' /\ costTopic'[i] = costTopic[i]
  /\ needsValidation' = needsValidation

\* What was published stays published.
LEMMA CoverageStays ==
  ASSUME TopicsGrow
  PROVE  /\ \A n, p : Covered(n, p) => Covered(n, p)'
         /\ HasOutcome => HasOutcome'
         /\ Route' = Route
  BY DEF TopicsGrow, Covered, HasOutcome, Route

\* A worker that does nothing keeps its part.
LEMMA BystanderKeeps ==
  ASSUME TopicsGrow, NEW e \in Executors, Progress(e), Reported(e),
         pc'[e] = pc[e], node'[e] = node[e], pass'[e] = pass[e]
  PROVE  Progress(e)' /\ Reported(e)'
  <1>1. Earlier(node[e])' = Earlier(node[e])
    BY CoverageStays DEF Earlier
  <1>2. pc[e] = "telemetry" => <<node'[e], pass'[e]>> \in stepTopic'
    BY DEF Progress, TopicsGrow
  <1>3. pc[e] \in {"step", "telemetry"} => \A n \in Earlier(node[e]) : Covered(n, pass[e])'
    <2> SUFFICES ASSUME pc[e] \in {"step", "telemetry"}, NEW n \in Earlier(node[e])
                 PROVE  /\ <<n, pass'[e]>> \in stepTopic'
                        /\ \E i \in DOMAIN costTopic' : costTopic'[i] = <<n, pass'[e]>>
      BY DEF Covered
    <2>1. Covered(n, pass[e])
      BY DEF Progress
    <2> QED
      BY <2>1 DEF Covered, TopicsGrow
  <1>4. pc[e] = "finish" => \A n \in Route : Covered(n, pass[e])'
    <2> SUFFICES ASSUME pc[e] = "finish", NEW n \in Route
                 PROVE  /\ <<n, pass'[e]>> \in stepTopic'
                        /\ \E i \in DOMAIN costTopic' : costTopic'[i] = <<n, pass'[e]>>
      BY DEF Covered
    <2>1. Covered(n, pass[e])
      BY DEF Progress
    <2> QED
      BY <2>1 DEF Covered, TopicsGrow
  <1> QED
    BY <1>1, <1>2, <1>3, <1>4, CoverageStays DEF Progress, Reported

\* The command and the workers only add to the topics, and "finished" only at the end
\* of a pass.
LEMMA StepGrows ==
  ASSUME TypeInv, Command \/ \E e \in Executors : WorkerStep(e)
  PROVE  /\ TopicsGrow
         /\ \/ \A i \in DOMAIN execLog' : i \in DOMAIN execLog \/ execLog'[i] # "finished"
            \/ \E e \in Executors : pc[e] = "finish"
  <1> DEFINE NoNewFinished ==
        \A i \in DOMAIN execLog' : i \in DOMAIN execLog \/ execLog'[i] # "finished"
  <1> USE DEF topicVars
  <1>1. TypeOK /\ "started" \in ExecEvents /\ "finished" \in ExecEvents /\ "failed" \in ExecEvents
    BY DEF TypeInv, ExecEvents, Terminal
  <1>2. CASE UNCHANGED <<topicVars, needsValidation>>
    BY <1>2 DEF TopicsGrow
  <1>3. CASE Command
    <2>1. /\ execLog' = execLog \/ MaybeAppend("started")
          /\ UNCHANGED <<stepTopic, costTopic, needsValidation>>
      BY <1>3 DEF Command, RejectCommand, PublishStarted, PublishStartedFails, AuditStarted,
                  AuditStartedFails, MaybeAppend, workerVars
    <2> QED
      BY <1>1, <2>1, LogGrows DEF TopicsGrow
  <1>4. ASSUME NEW e \in Executors, WorkerStep(e)
        PROVE  TopicsGrow /\ (NoNewFinished \/ pc[e] = "finish")
    <2>1. CASE UNCHANGED <<topicVars, needsValidation>>
      BY <2>1 DEF TopicsGrow
    <2>2. CASE EmitStep(e) \/ EmitTelemetry(e) \/ EmitFails(e)
      <3>1. execLog' = execLog /\ stepTopic \subseteq stepTopic' /\ needsValidation' = needsValidation
        BY <2>2 DEF EmitStep, EmitTelemetry, EmitFails
      <3>2. CASE costTopic' = costTopic
        BY <3>1, <3>2 DEF TopicsGrow
      <3>3. CASE costTopic' # costTopic
        <4>1. pc[e] = "telemetry" /\ costTopic' = Append(costTopic, <<node[e], pass[e]>>)
          BY <2>2, <3>3 DEF EmitStep, EmitTelemetry, EmitFails
        <4>2. <<node[e], pass[e]>> \in Steps
          BY <1>1, <4>1 DEF TypeInv, TypeOK, PassBegun, Steps
        <4> QED
          BY <1>1, <3>1, <4>1, <4>2, CostsGrow DEF TopicsGrow
      <3> QED
        BY <3>2, <3>3
    <2>3. CASE PublishFinished(e) \/ FinishFails(e)
      <3>1. /\ \/ execLog' = execLog
               \/ pc[e] = "finish" /\ MaybeAppend("finished")
            /\ UNCHANGED <<stepTopic, costTopic, needsValidation>>
        BY <2>3 DEF PublishFinished, FinishFails, MaybeAppend
      <3> QED
        BY <1>1, <3>1, LogGrows DEF TopicsGrow
    <2>4. CASE PublishFailed(e) \/ FailFails(e)
      <3>1. /\ execLog' = execLog \/ MaybeAppend("failed")
            /\ UNCHANGED <<stepTopic, costTopic, needsValidation>>
        BY <2>4 DEF PublishFailed, FailFails, MaybeAppend
      <3> QED
        BY <1>1, <3>1, LogGrows DEF TopicsGrow
    <2>5. CASE \/ Deliver(e) \/ Crash(e) \/ BeginWorkflow(e) \/ SkipProcessed(e)
               \/ AuditOutcome(e) \/ StoreMarker(e) \/ StoreFails(e) \/ ParkStarted(e)
      BY <2>1, <2>5 DEF Deliver, Crash, BeginWorkflow, SkipProcessed, AuditOutcome,
                        StoreMarker, StoreFails, ParkStarted
    <2> QED
      BY <1>4, <2>2, <2>3, <2>4, <2>5 DEF WorkerStep
  <1> QED
    BY <1>3, <1>4

\* A worker touches nobody else's pass, and marks the event only from "store".
LEMMA WorkerAlone ==
  ASSUME TypeInv, NEW e \in Executors, WorkerStep(e)
  PROVE  /\ \A x \in Executors : x # e =>
              pc'[x] = pc[x] /\ node'[x] = node[x] /\ pass'[x] = pass[x]
         /\ done' => done \/ pc[e] = "store"
  BY DEF WorkerStep, Deliver, Crash, BeginWorkflow, SkipProcessed, EmitStep, EmitTelemetry,
         EmitFails, PublishFinished, FinishFails, PublishFailed, FailFails, AuditOutcome,
         StoreMarker, StoreFails, ParkStarted, AttemptFails, Goto, TypeInv, TypeOK

\* The worker that acts keeps its own part.
LEMMA ActorKeeps ==
  ASSUME RunInv, NEW e \in Executors, WorkerStep(e)
  PROVE  Progress(e)' /\ Reported(e)'
  <1> USE DEF topicVars
  <1>1. /\ TypeInv /\ TypeInv' /\ TypeOK /\ TopicsGrow
        /\ "finished" \in ExecEvents /\ "failed" \in ExecEvents
        /\ "finished" \in Terminal /\ "failed" \in Terminal
        /\ node[e] \in Nodes
    BY WorkerKeepsTypes, StepGrows DEF RunInv, TypeInv, TypeOK, ExecEvents, Terminal
  <1>2. CASE pc'[e] \in {"idle", "check", "park", "fail"}
    BY <1>2 DEF Progress, Reported
  <1>3. CASE \/ Deliver(e) \/ Crash(e) \/ SkipProcessed(e) \/ EmitFails(e) \/ FinishFails(e)
             \/ FailFails(e) \/ StoreMarker(e) \/ StoreFails(e) \/ ParkStarted(e)
    <2>1. \E label \in {"idle", "check", "park", "fail"} : Goto(e, label)
      BY <1>1, <1>3, AttemptTypes
         DEF Deliver, Crash, SkipProcessed, EmitFails, FinishFails, FailFails, StoreMarker,
             StoreFails, ParkStarted
    <2> QED
      BY <1>1, <1>2, <2>1, GotoTypes
  <1>4. CASE BeginWorkflow(e)
    <2>1. pc'[e] = "step" /\ node'[e] = "planner"
      BY <1>1, <1>4 DEF BeginWorkflow, Goto, TypeOK
    <2> QED
      BY <2>1 DEF Progress, Reported, Earlier
  <1>5. CASE EmitStep(e)
    <2>1. /\ pc'[e] = "telemetry" /\ node' = node /\ pass' = pass /\ pc[e] = "step"
          /\ <<node[e], pass[e]>> \in stepTopic'
      BY <1>1, <1>5 DEF EmitStep, Goto, TypeOK
    <2>2. \A n \in Earlier(node[e]) : Covered(n, pass[e])
      BY <2>1 DEF RunInv, Progress
    <2>3. Earlier(node[e])' = Earlier(node[e])
      BY <1>1, <2>1, CoverageStays DEF Earlier
    <2>4. \A n \in Earlier(node[e])' : Covered(n, pass[e])'
      BY <1>1, <2>1, <2>2, <2>3 DEF Covered, TopicsGrow
    <2> QED
      BY <2>1, <2>4 DEF Progress, Reported
  <1>6. CASE EmitTelemetry(e)
    <2>1. /\ pc[e] = "telemetry" /\ pass' = pass
          /\ costTopic' = Append(costTopic, <<node[e], pass[e]>>)
          /\ \/ node[e] = "reviewer" /\ pc'[e] = "finish"
             \/ node[e] # "reviewer" /\ pc'[e] = "step" /\ node'[e] = NextNode(node[e])
      BY <1>1, <1>6 DEF EmitTelemetry, Goto, TypeOK
    <2>2. <<node[e], pass[e]>> \in stepTopic'
      BY <1>1, <2>1 DEF RunInv, Progress, TopicsGrow
    <2>3. \E i \in DOMAIN costTopic' : costTopic'[i] = <<node[e], pass[e]>>
      <3>1. <<node[e], pass[e]>> \in Steps
        BY <1>1, <2>1 DEF TypeInv, TypeOK, PassBegun, Steps
      <3> QED
        BY <1>1, <2>1, <3>1, CostsGrow
    <2>4. \A n \in Earlier(node[e]) \cup {node[e]} : Covered(n, pass[e])'
      <3>1. \A n \in Earlier(node[e]) : Covered(n, pass[e])
        BY <2>1 DEF RunInv, Progress
      <3> QED
        BY <1>1, <2>1, <2>2, <2>3, <3>1 DEF Covered, TopicsGrow
    <2>5. CASE node[e] = "reviewer" /\ pc'[e] = "finish"
      <3>1. Route' \subseteq Earlier(node[e]) \cup {node[e]}
        BY <1>1, <2>5, CoverageStays DEF Earlier
      <3> QED
        BY <2>4, <2>5, <3>1 DEF Progress, Reported
    <2>6. CASE node[e] # "reviewer" /\ pc'[e] = "step" /\ node'[e] = NextNode(node[e])
      <3>1. Earlier(node[e])' \subseteq Earlier(node[e]) \cup {node[e]}
        BY <1>1, <2>6, CoverageStays DEF Earlier, NextNode, Nodes, Route
      <3> QED
        BY <2>4, <2>6, <3>1 DEF Progress, Reported
    <2> QED
      BY <2>1, <2>5, <2>6
  <1>7. CASE PublishFinished(e) \/ PublishFailed(e)
    <2>1. /\ pc'[e] \in {"finishAudit", "failAudit"}
          /\ \E event \in Terminal \cap ExecEvents : execLog' = Append(execLog, event)
      BY <1>1, <1>7 DEF PublishFinished, PublishFailed, Goto, TypeOK
    <2>2. HasOutcome'
      BY <1>1, <2>1, LogGrows DEF HasOutcome, MaybeAppend
    <2> QED
      BY <2>1, <2>2 DEF Progress, Reported
  <1>8. CASE AuditOutcome(e)
    <2>1. pc[e] \in {"finishAudit", "failAudit"} /\ pc'[e] = "store"
      BY <1>1, <1>8 DEF AuditOutcome, Goto, TypeOK
    <2>2. HasOutcome'
      BY <1>1, <2>1, CoverageStays DEF RunInv, Reported
    <2> QED
      BY <2>1, <2>2 DEF Progress, Reported
  <1> QED
    BY <1>3, <1>4, <1>5, <1>6, <1>7, <1>8 DEF WorkerStep

\* A step that adds no "finished" but behind a complete pass keeps the promise of the
\* one that is there.
LEMMA FinishedKept ==
  ASSUME RunInv, TopicsGrow,
         \/ \A i \in DOMAIN execLog' : i \in DOMAIN execLog \/ execLog'[i] # "finished"
         \/ \E e \in Executors : pc[e] = "finish"
  PROVE  FinishedIsComplete'
  <1>1. \A n, p : Covered(n, p) => Covered(n, p)'
    BY CoverageStays
  <1>2. Route' = Route
    BY CoverageStays
  <1>3. ASSUME NEW p \in Passes, \A n \in Route : Covered(n, p)
        PROVE  FinishedIsComplete'
    BY <1>1, <1>2, <1>3 DEF FinishedIsComplete, Covered
  <1>4. CASE \E e \in Executors : pc[e] = "finish"
    BY <1>3, <1>4 DEF RunInv, Progress, TypeInv, PassBegun
  <1>5. CASE \A i \in DOMAIN execLog' : i \in DOMAIN execLog \/ execLog'[i] # "finished"
    <2>1. CASE "finished" \in {execLog[i] : i \in DOMAIN execLog}
      BY <1>3, <2>1 DEF RunInv, FinishedIsComplete, Covered
    <2>2. CASE "finished" \notin {execLog[i] : i \in DOMAIN execLog}
      BY <1>5, <2>2 DEF TopicsGrow, FinishedIsComplete
    <2> QED
      BY <2>1, <2>2
  <1> QED
    BY <1>4, <1>5

\* Every step keeps the invariant.
LEMMA StepKeepsInv == RunInv /\ [Next]_vars => RunInv'
  <1> SUFFICES ASSUME RunInv, [Next]_vars
               PROVE  RunInv'
    OBVIOUS
  <1>1. TypeInv'
    BY StepKeepsTypes DEF RunInv
  <1>2. CASE Command
    <2>1. /\ TopicsGrow
          /\ \/ \A i \in DOMAIN execLog' : i \in DOMAIN execLog \/ execLog'[i] # "finished"
             \/ \E e \in Executors : pc[e] = "finish"
      BY <1>2, StepGrows DEF RunInv
    <2>2. pc' = pc /\ node' = node /\ pass' = pass /\ done' = done
      BY <1>2 DEF Command, RejectCommand, PublishStarted, PublishStartedFails, AuditStarted,
                  AuditStartedFails, workerVars
    <2>3. \A e \in Executors : Progress(e)' /\ Reported(e)'
      BY <2>1, <2>2, BystanderKeeps DEF RunInv
    <2>4. MarkerHasOutcome'
      BY <2>1, <2>2, CoverageStays DEF RunInv, MarkerHasOutcome, HasOutcome
    <2> QED
      BY <1>1, <2>1, <2>3, <2>4, FinishedKept DEF RunInv
  <1>3. ASSUME NEW e \in Executors, WorkerStep(e)
        PROVE  RunInv'
    <2>1. /\ TopicsGrow
          /\ \/ \A i \in DOMAIN execLog' : i \in DOMAIN execLog \/ execLog'[i] # "finished"
             \/ \E x \in Executors : pc[x] = "finish"
      BY <1>3, StepGrows DEF RunInv
    <2>2. /\ \A x \in Executors : x # e =>
               pc'[x] = pc[x] /\ node'[x] = node[x] /\ pass'[x] = pass[x]
          /\ done' => done \/ pc[e] = "store"
      BY <1>3, WorkerAlone DEF RunInv
    <2>3. ASSUME NEW x \in Executors
          PROVE  Progress(x)' /\ Reported(x)'
      <3>1. CASE x = e
        BY <1>3, <3>1, ActorKeeps
      <3>2. CASE x # e
        BY <2>1, <2>2, <3>2, BystanderKeeps DEF RunInv
      <3> QED
        BY <3>1, <3>2
    <2>4. MarkerHasOutcome'
      <3>1. done' => HasOutcome
        BY <2>2 DEF RunInv, Reported, MarkerHasOutcome, HasOutcome
      <3> QED
        BY <2>1, <3>1, CoverageStays DEF MarkerHasOutcome, HasOutcome
    <2> QED
      BY <1>1, <2>1, <2>3, <2>4, FinishedKept DEF RunInv
  <1>4. CASE UNCHANGED vars
    <2>1. /\ TopicsGrow /\ execLog' = execLog /\ done' = done
          /\ pc' = pc /\ node' = node /\ pass' = pass
      BY <1>4 DEF vars, topicVars, workerVars, TopicsGrow
    <2>2. \A e \in Executors : Progress(e)' /\ Reported(e)'
      BY <2>1, BystanderKeeps DEF RunInv
    <2>3. MarkerHasOutcome' /\ FinishedIsComplete'
      BY <2>1, FinishedKept, CoverageStays DEF RunInv, MarkerHasOutcome, HasOutcome
    <2> QED
      BY <1>1, <2>2, <2>3 DEF RunInv
  <1> QED
    BY <1>2, <1>3, <1>4 DEF Next, WorkerStep

\* Nobody is at work and the topics are empty.
LEMMA InitRunInv == Init => RunInv
  BY InitTypeInv DEF Init, RunInv, Progress, Reported, FinishedIsComplete, MarkerHasOutcome

\* The strengthened invariant holds in every reachable state.
THEOREM RunInvariant == Spec => []RunInv
  BY InitRunInv, StepKeepsInv, PTL DEF Spec

\* execution.finished is published only behind all steps and costs of one pass, however
\* many passes of retries and second deliveries mix in the topics (service.py:220-249).
THEOREM FinishedMeansComplete == Spec => []FinishedIsComplete
  <1>1. RunInv => FinishedIsComplete
    BY DEF RunInv
  <1> QED
    BY <1>1, RunInvariant, PTL

\* A start event that is marked as processed has its outcome in the topic
\* (service.py:220-284).
THEOREM MarkedMeansDecided == Spec => []MarkerHasOutcome
  <1>1. RunInv => MarkerHasOutcome
    BY DEF RunInv
  <1> QED
    BY <1>1, RunInvariant, PTL

-----------------------------------------------------------------------------
(* What a pass may still publish                                           *)

\* The terminal events a worker's pass may still publish: at most one of each kind.
OpenOutcomes(e) ==
  CASE pc[e] \in {"step", "telemetry", "finish"} -> {pass[e]} \X Terminal
    [] pc[e] \in {"finishAudit", "fail"}         -> {<<pass[e], "failed">>}
    [] OTHER                                     -> {}

\* The nodes a pass comes to from n on.
Ahead(n) ==
  CASE n = "planner"     -> Nodes
    [] n = "tool_runner" -> Nodes \ {"planner"}
    [] n = "validator"   -> {"validator", "reviewer"}
    [] n = "reviewer"    -> {"reviewer"}

\* The cost events a worker's pass may still publish.
OpenCosts(e) ==
  IF pc[e] \in {"step", "telemetry"} THEN Ahead(node[e]) \X {pass[e]} ELSE {}

InPass(e) == pc[e] \in {"step", "telemetry", "finish", "finishAudit", "fail"}

\* Nothing happens before the command has published, and no two workers share a pass.
StartedInv ==
  /\ api = "new" => execLog = <<>>
  /\ execLog = <<>> => \A e \in Executors : pc[e] = "idle"
  /\ \A e \in Executors : InPass(e) => pass[e] \in 1 .. passes
  /\ \A e, x \in Executors : InPass(e) /\ InPass(x) /\ e # x => pass[e] # pass[x]

\* The terminal events in the log are the outcomes of different passes, or the two of
\* one, and none of them is one that a worker still has before it.
OutcomesInv ==
  execLog # <<>> =>
    \E U \in SUBSET ((1 .. passes) \X Terminal) :
      /\ Cardinality(U) = Len(execLog) - 1
      /\ \A e \in Executors : OpenOutcomes(e) \cap U = {}

\* The same of the cost events.
CostsInv ==
  \E U \in SUBSET (Nodes \X (1 .. passes)) :
    /\ Cardinality(U) = Len(costTopic)
    /\ \A e \in Executors : OpenCosts(e) \cap U = {}

EventsInv == TypeInv /\ StartedInv /\ OutcomesInv /\ CostsInv

\* One more of a finite set.
LEMMA OneMore ==
  ASSUME NEW S, IsFiniteSet(S), NEW U \in SUBSET S, NEW x \in S, x \notin U
  PROVE  /\ Cardinality(U \cup {x}) = Cardinality(U) + 1
         /\ Cardinality(U) + 1 <= Cardinality(S)
         /\ Cardinality(U) \in Nat /\ Cardinality(S) \in Nat
  <1>1. IsFiniteSet(U) /\ U \cup {x} \in SUBSET S
    BY FS_Subset
  <1>2. Cardinality(U \cup {x}) = Cardinality(U) + 1
    BY <1>1, FS_AddElement
  <1>3. Cardinality(U \cup {x}) <= Cardinality(S)
    BY <1>1, FS_Subset
  <1> QED
    BY <1>1, <1>2, <1>3, FS_CardinalityType

\* There are two outcomes and four nodes for each pass.
LEMMA SlotCounts ==
  ASSUME NEW k \in Nat
  PROVE  /\ IsFiniteSet((1 .. k) \X Terminal) /\ Cardinality((1 .. k) \X Terminal) = 2 * k
         /\ IsFiniteSet(Nodes \X (1 .. k)) /\ Cardinality(Nodes \X (1 .. k)) = 4 * k
  <1>1. IsFiniteSet(1 .. k) /\ Cardinality(1 .. k) = k
    <2>1. 1 \in Int /\ k \in Int
      OBVIOUS
    <2>2. IsFiniteSet(1 .. k) /\ Cardinality(1 .. k) = IF 1 > k THEN 0 ELSE k - 1 + 1
      BY <2>1, FS_Interval, Zenon
    <2> QED
      BY <2>2
  <1>2. IsFiniteSet({"finished", "failed"}) /\ Cardinality({"finished", "failed"}) = 2
    <2>1. IsFiniteSet({"finished"}) /\ Cardinality({"finished"}) = 1
      BY FS_Singleton
    <2>2. {"finished", "failed"} = {"finished"} \cup {"failed"} /\ "failed" \notin {"finished"}
      OBVIOUS
    <2> QED
      BY <2>1, <2>2, FS_AddElement
  <1>3. IsFiniteSet(Nodes) /\ Cardinality(Nodes) = 4
    <2>1. IsFiniteSet({"planner"}) /\ Cardinality({"planner"}) = 1
      BY FS_Singleton
    <2>2. /\ IsFiniteSet({"planner"} \cup {"tool_runner"})
          /\ Cardinality({"planner"} \cup {"tool_runner"}) = 2
      BY <2>1, FS_AddElement
    <2>3. /\ IsFiniteSet(({"planner"} \cup {"tool_runner"}) \cup {"validator"})
          /\ Cardinality(({"planner"} \cup {"tool_runner"}) \cup {"validator"}) = 3
      BY <2>2, FS_AddElement
    <2>4. /\ IsFiniteSet((({"planner"} \cup {"tool_runner"}) \cup {"validator"}) \cup {"reviewer"})
          /\ Cardinality((({"planner"} \cup {"tool_runner"}) \cup {"validator"}) \cup {"reviewer"}) = 4
      BY <2>3, FS_AddElement
    <2>5. Nodes = (({"planner"} \cup {"tool_runner"}) \cup {"validator"}) \cup {"reviewer"}
      BY DEF Nodes
    <2> QED
      BY <2>4, <2>5
  <1>4. /\ IsFiniteSet((1 .. k) \X Terminal)
        /\ Cardinality((1 .. k) \X Terminal) = Cardinality(1 .. k) * Cardinality(Terminal)
    BY <1>1, <1>2, FS_Product DEF Terminal
  <1>5. /\ IsFiniteSet(Nodes \X (1 .. k))
        /\ Cardinality(Nodes \X (1 .. k)) = Cardinality(Nodes) * Cardinality(1 .. k)
    BY <1>1, <1>3, FS_Product
  <1> QED
    BY <1>1, <1>2, <1>3, <1>4, <1>5 DEF Terminal

\* The bounds of RunEvents are never met: a worker that may publish finds room.
LEMMA RoomLeft ==
  ASSUME EventsInv, NEW e \in Executors
  PROVE  /\ OpenOutcomes(e) # {} => execLog # <<>> /\ Len(execLog) <= 2 * MaxPasses
         /\ OpenCosts(e) # {} => execLog # <<>> /\ Len(costTopic) < 4 * MaxPasses
  <1>1. /\ passes \in Nat /\ MaxPasses \in Nat /\ passes <= MaxPasses
        /\ Len(execLog) \in Nat /\ Len(costTopic) \in Nat
    BY RunAssumption DEF EventsInv, TypeInv, TypeOK
  <1>2. ASSUME NEW slot \in OpenOutcomes(e)
        PROVE  execLog # <<>> /\ Len(execLog) <= 2 * MaxPasses
    <2>1. InPass(e)
      BY <1>2 DEF OpenOutcomes, InPass
    <2>2. execLog # <<>> /\ slot \in (1 .. passes) \X Terminal
      BY <1>2, <2>1 DEF EventsInv, StartedInv, OpenOutcomes, InPass, Terminal
    <2>3. PICK U \in SUBSET ((1 .. passes) \X Terminal) :
            /\ Cardinality(U) = Len(execLog) - 1
            /\ \A x \in Executors : OpenOutcomes(x) \cap U = {}
      BY <2>2 DEF EventsInv, OutcomesInv
    <2>4. slot \notin U
      BY <1>2, <2>3
    <2>5. IsFiniteSet((1 .. passes) \X Terminal) /\ Cardinality((1 .. passes) \X Terminal) = 2 * passes
      BY <1>1, SlotCounts
    <2>6. Cardinality(U) + 1 <= 2 * passes
      BY <2>2, <2>4, <2>5, OneMore
    <2> QED
      BY <1>1, <2>2, <2>3, <2>6
  <1>3. ASSUME NEW slot \in OpenCosts(e)
        PROVE  execLog # <<>> /\ Len(costTopic) < 4 * MaxPasses
    <2>1. InPass(e)
      BY <1>3 DEF OpenCosts, InPass
    <2>2. execLog # <<>> /\ slot \in Nodes \X (1 .. passes)
      <3>1. Ahead(node[e]) \subseteq Nodes
        BY DEF Ahead, Nodes, EventsInv, TypeInv, TypeOK
      <3> QED
        BY <1>3, <2>1, <3>1 DEF EventsInv, StartedInv, OpenCosts, InPass
    <2>3. PICK U \in SUBSET (Nodes \X (1 .. passes)) :
            /\ Cardinality(U) = Len(costTopic)
            /\ \A x \in Executors : OpenCosts(x) \cap U = {}
      BY DEF EventsInv, CostsInv
    <2>4. slot \notin U
      BY <1>3, <2>3
    <2>5. IsFiniteSet(Nodes \X (1 .. passes)) /\ Cardinality(Nodes \X (1 .. passes)) = 4 * passes
      BY <1>1, SlotCounts
    <2>6. Cardinality(U) + 1 <= 4 * passes
      BY <2>2, <2>4, <2>5, OneMore
    <2> QED
      BY <1>1, <2>2, <2>3, <2>6
  <1> QED
    BY <1>2, <1>3

-----------------------------------------------------------------------------
(* The run implements RunEvents                                            *)

\* A worker's step leaves the workers apart and takes no pass but a new one.
LEMMA PassesStayApart ==
  ASSUME EventsInv, NEW e \in Executors, WorkerStep(e)
  PROVE  StartedInv'
  <1> USE DEF topicVars
  <1>1. /\ TypeOK /\ TypeOK' /\ passes \in Nat /\ passes' \in Nat
        /\ execLog \in Seq(ExecEvents)
        /\ \A x \in Executors : pass[x] \in Int
    <2>1. TypeOK /\ TypeOK'
      BY WorkerKeepsTypes DEF EventsInv, TypeInv
    <2> QED
      BY <2>1, RunAssumption DEF TypeOK
  <1>2. /\ \A x \in Executors : x # e =>
              pc'[x] = pc[x] /\ node'[x] = node[x] /\ pass'[x] = pass[x]
        /\ api' = api
    BY WorkerAlone DEF EventsInv, WorkerStep, Deliver, Crash, BeginWorkflow, SkipProcessed,
       EmitStep, EmitTelemetry, EmitFails, PublishFinished, FinishFails, PublishFailed,
       FailFails, AuditOutcome, StoreMarker, StoreFails, ParkStarted
  <1>3. \/ InPass(e)' => InPass(e) /\ pass'[e] = pass[e] /\ passes' = passes
        \/ pass'[e] = passes + 1 /\ passes' = passes + 1
    <2>1. CASE BeginWorkflow(e)
      BY <1>1, <2>1 DEF BeginWorkflow, TypeOK
    <2>2. CASE ~BeginWorkflow(e)
      BY <1>1, <2>2 DEF WorkerStep, Deliver, Crash, SkipProcessed,
         EmitStep, EmitTelemetry, EmitFails, PublishFinished, FinishFails, PublishFailed,
         FailFails, AuditOutcome, StoreMarker, StoreFails, ParkStarted, AttemptFails, Goto,
         InPass, TypeOK
    <2> QED
      BY <2>1, <2>2
  <1>4. passes' = passes \/ passes' = passes + 1
    BY DEF WorkerStep, Deliver, Crash, BeginWorkflow, SkipProcessed, EmitStep, EmitTelemetry,
       EmitFails, PublishFinished, FinishFails, PublishFailed, FailFails, AuditOutcome,
       StoreMarker, StoreFails, ParkStarted, AttemptFails
  <1>5. execLog # <<>> /\ execLog' # <<>>
    <2>1. execLog # <<>>
      <3>1. pc[e] = "idle" => execLog # <<>>
        BY DEF WorkerStep, Deliver, Crash, BeginWorkflow, SkipProcessed, EmitStep,
           EmitTelemetry, EmitFails, PublishFinished, FinishFails, PublishFailed, FailFails,
           AuditOutcome, StoreMarker, StoreFails, ParkStarted, Busy
      <3> QED
        BY <3>1 DEF EventsInv, StartedInv
    <2>2. 1 \in DOMAIN execLog
      BY <1>1, <2>1
    <2>3. 1 \in DOMAIN execLog'
      BY <2>2, StepGrows DEF EventsInv, TopicsGrow
    <2> QED
      BY <2>1, <2>3
  <1>6. ASSUME NEW x \in Executors, InPass(x)'
        PROVE  pass'[x] \in 1 .. passes'
    BY <1>1, <1>2, <1>3, <1>4, <1>6 DEF EventsInv, StartedInv, InPass
  <1>7. ASSUME NEW x \in Executors, NEW y \in Executors, InPass(x)', InPass(y)', x # y
        PROVE  pass'[x] # pass'[y]
    BY <1>1, <1>2, <1>3, <1>7 DEF EventsInv, StartedInv, InPass
  <1> QED
    BY <1>2, <1>5, <1>6, <1>7 DEF EventsInv, StartedInv

\* Two workers have nothing open that is the same.
LEMMA OpenApart ==
  ASSUME EventsInv, NEW e \in Executors, NEW x \in Executors, x # e
  PROVE  /\ OpenOutcomes(e) \cap OpenOutcomes(x) = {}
         /\ OpenCosts(e) \cap OpenCosts(x) = {}
  BY DEF EventsInv, StartedInv, InPass, OpenOutcomes, OpenCosts

\* A worker publishes only outcomes that it has open, and each only once.
LEMMA OutcomeTaken ==
  ASSUME EventsInv, NEW e \in Executors, WorkerStep(e)
  PROVE  \/ /\ execLog' = execLog /\ passes' = passes
            /\ OpenOutcomes(e)' \subseteq OpenOutcomes(e)
         \/ /\ execLog' = execLog /\ passes' = passes + 1
            /\ OpenOutcomes(e)' \subseteq {passes + 1} \X Terminal
         \/ \E t \in Terminal :
              /\ execLog' = Append(execLog, t) /\ passes' = passes
              /\ <<pass[e], t>> \in OpenOutcomes(e)
              /\ OpenOutcomes(e)' \subseteq OpenOutcomes(e) \ {<<pass[e], t>>}
  <1> USE DEF topicVars, Terminal
  <1>1. TypeOK
    BY DEF EventsInv, TypeInv
  <1>2. CASE BeginWorkflow(e)
    BY <1>1, <1>2 DEF BeginWorkflow, Goto, TypeOK, OpenOutcomes
  <1>3. CASE \/ Deliver(e) \/ Crash(e) \/ SkipProcessed(e) \/ AuditOutcome(e)
             \/ StoreMarker(e) \/ StoreFails(e) \/ ParkStarted(e)
    BY <1>1, <1>3 DEF Deliver, Crash, SkipProcessed, AuditOutcome, StoreMarker, StoreFails,
       ParkStarted, AttemptFails, Goto, TypeOK, OpenOutcomes
  <1>4. CASE EmitStep(e) \/ EmitTelemetry(e) \/ EmitFails(e)
    BY <1>1, <1>4 DEF EmitStep, EmitTelemetry, EmitFails, Goto, TypeOK, OpenOutcomes
  <1>5. CASE PublishFinished(e) \/ FinishFails(e)
    BY <1>1, <1>5 DEF PublishFinished, FinishFails, MaybeAppend, Goto, TypeOK, OpenOutcomes
  <1>6. CASE PublishFailed(e) \/ FailFails(e)
    BY <1>1, <1>6 DEF PublishFailed, FailFails, MaybeAppend, AttemptFails, Goto, TypeOK,
       OpenOutcomes
  <1> QED
    BY <1>2, <1>3, <1>4, <1>5, <1>6 DEF WorkerStep

\* The same of cost events.
LEMMA CostTaken ==
  ASSUME EventsInv, NEW e \in Executors, WorkerStep(e)
  PROVE  \/ /\ costTopic' = costTopic /\ passes' = passes
            /\ OpenCosts(e)' \subseteq OpenCosts(e)
         \/ /\ costTopic' = costTopic /\ passes' = passes + 1
            /\ OpenCosts(e)' \subseteq Nodes \X {passes + 1}
         \/ /\ costTopic' = Append(costTopic, <<node[e], pass[e]>>) /\ passes' = passes
            /\ <<node[e], pass[e]>> \in OpenCosts(e)
            /\ OpenCosts(e)' \subseteq OpenCosts(e) \ {<<node[e], pass[e]>>}
  <1> USE DEF topicVars
  <1>1. TypeOK /\ node[e] \in Nodes
    BY DEF EventsInv, TypeInv, TypeOK
  <1>2. CASE BeginWorkflow(e)
    BY <1>1, <1>2 DEF BeginWorkflow, Goto, TypeOK, OpenCosts, Ahead
  <1>3. CASE EmitStep(e)
    BY <1>1, <1>3 DEF EmitStep, Goto, TypeOK, OpenCosts
  <1>4. CASE EmitTelemetry(e)
    <2>1. /\ costTopic' = Append(costTopic, <<node[e], pass[e]>>)
          /\ passes' = passes /\ pass' = pass /\ pc[e] = "telemetry"
          /\ \/ pc'[e] = "finish"
             \/ node[e] # "reviewer" /\ node'[e] = NextNode(node[e]) /\ pc'[e] = "step"
      BY <1>1, <1>4 DEF EmitTelemetry, Goto, TypeOK
    <2>2. node[e] \in Ahead(node[e])
      BY <1>1 DEF Ahead, Nodes
    <2>3. node[e] # "reviewer" => Ahead(NextNode(node[e])) \subseteq Ahead(node[e]) \ {node[e]}
      BY <1>1 DEF Ahead, NextNode, Nodes
    <2>4. OpenCosts(e) = Ahead(node[e]) \X {pass[e]}
      BY <2>1 DEF OpenCosts
    <2>5. OpenCosts(e)' \subseteq (Ahead(node[e]) \ {node[e]}) \X {pass[e]}
      BY <2>1, <2>3 DEF OpenCosts, Ahead
    <2> QED
      BY <2>1, <2>2, <2>4, <2>5
  <1>5. CASE EmitFails(e)
    <2>1. /\ \/ costTopic' = costTopic
             \/ pc[e] = "telemetry" /\ costTopic' = Append(costTopic, <<node[e], pass[e]>>)
          /\ passes' = passes /\ pc'[e] = "fail"
      BY <1>1, <1>5 DEF EmitFails, Goto, TypeOK
    <2>2. node[e] \in Ahead(node[e])
      BY <1>1 DEF Ahead, Nodes
    <2> QED
      BY <2>1, <2>2 DEF OpenCosts
  <1>6. CASE \/ Deliver(e) \/ Crash(e) \/ SkipProcessed(e) \/ AuditOutcome(e)
             \/ StoreMarker(e) \/ StoreFails(e) \/ ParkStarted(e)
             \/ PublishFinished(e) \/ FinishFails(e) \/ PublishFailed(e) \/ FailFails(e)
    BY <1>1, <1>6 DEF Deliver, Crash, SkipProcessed, AuditOutcome, StoreMarker, StoreFails,
       ParkStarted, PublishFinished, FinishFails, PublishFailed, FailFails, AttemptFails,
       Goto, TypeOK, OpenCosts
  <1> QED
    BY <1>2, <1>3, <1>4, <1>5, <1>6 DEF WorkerStep

\* The terminal events stay counted.
LEMMA OutcomesKept ==
  ASSUME EventsInv, NEW e \in Executors, WorkerStep(e)
  PROVE  OutcomesInv'
  <1>1. /\ passes \in Nat /\ execLog \in Seq(ExecEvents)
        /\ \A t \in Terminal : t \in ExecEvents
    BY RunAssumption DEF EventsInv, TypeInv, TypeOK, ExecEvents
  <1>2. execLog # <<>>
    <2>1. pc[e] = "idle" => execLog # <<>>
      BY DEF WorkerStep, Deliver, Crash, BeginWorkflow, SkipProcessed, EmitStep,
         EmitTelemetry, EmitFails, PublishFinished, FinishFails, PublishFailed, FailFails,
         AuditOutcome, StoreMarker, StoreFails, ParkStarted, Busy
    <2> QED
      BY <2>1 DEF EventsInv, StartedInv
  <1>3. PICK U \in SUBSET ((1 .. passes) \X Terminal) :
          /\ Cardinality(U) = Len(execLog) - 1
          /\ \A x \in Executors : OpenOutcomes(x) \cap U = {}
    BY <1>2 DEF EventsInv, OutcomesInv
  <1>4. \A x \in Executors : x # e => OpenOutcomes(x)' = OpenOutcomes(x)
    BY WorkerAlone DEF EventsInv, OpenOutcomes
  <1>5. CASE /\ execLog' = execLog /\ passes' = passes
             /\ OpenOutcomes(e)' \subseteq OpenOutcomes(e)
    <2>1. \A x \in Executors : OpenOutcomes(x)' \cap U = {}
      BY <1>3, <1>4, <1>5
    <2> QED
      BY <1>3, <1>5, <2>1 DEF OutcomesInv
  <1>6. CASE /\ execLog' = execLog /\ passes' = passes + 1
             /\ OpenOutcomes(e)' \subseteq {passes + 1} \X Terminal
    <2>1. \A x \in Executors : OpenOutcomes(x)' \cap U = {}
      <3>1. ({passes + 1} \X Terminal) \cap U = {}
        BY <1>1
      <3> QED
        BY <1>3, <1>4, <1>6, <3>1
    <2>2. U \in SUBSET ((1 .. passes') \X Terminal)
      BY <1>1, <1>6
    <2> QED
      BY <1>3, <1>6, <2>1, <2>2 DEF OutcomesInv
  <1>7. ASSUME NEW t \in Terminal,
               execLog' = Append(execLog, t), passes' = passes,
               <<pass[e], t>> \in OpenOutcomes(e),
               OpenOutcomes(e)' \subseteq OpenOutcomes(e) \ {<<pass[e], t>>}
        PROVE  OutcomesInv'
    <2> DEFINE slot == <<pass[e], t>>
    <2>1. slot \notin U /\ slot \in (1 .. passes) \X Terminal
      <3>1. InPass(e)
        BY <1>7 DEF OpenOutcomes, InPass
      <3> QED
        BY <1>3, <1>7, <3>1 DEF EventsInv, StartedInv
    <2>2. Cardinality(U \cup {slot}) = Len(execLog') - 1
      <3>1. IsFiniteSet((1 .. passes) \X Terminal)
        BY <1>1, SlotCounts
      <3>2. Cardinality(U \cup {slot}) = Cardinality(U) + 1
        BY <2>1, <3>1, OneMore
      <3>3. Len(execLog') = Len(execLog) + 1 /\ Len(execLog) \in Nat
        BY <1>1, <1>7
      <3> QED
        BY <1>3, <3>2, <3>3
    <2>3. ASSUME NEW x \in Executors
          PROVE  OpenOutcomes(x)' \cap (U \cup {slot}) = {}
      <3>1. CASE x = e
        BY <1>3, <1>7, <3>1
      <3>2. CASE x # e
        BY <1>3, <1>4, <1>7, <3>2, OpenApart
      <3> QED
        BY <3>1, <3>2
    <2>4. U \cup {slot} \in SUBSET ((1 .. passes') \X Terminal)
      BY <1>7, <2>1
    <2> QED
      BY <2>2, <2>3, <2>4 DEF OutcomesInv
  <1> QED
    BY <1>5, <1>6, <1>7, OutcomeTaken

\* The cost events stay counted.
LEMMA CostsKept ==
  ASSUME EventsInv, NEW e \in Executors, WorkerStep(e)
  PROVE  CostsInv'
  <1>1. passes \in Nat /\ costTopic \in Seq(Steps)
    BY RunAssumption DEF EventsInv, TypeInv, TypeOK
  <1>2. PICK U \in SUBSET (Nodes \X (1 .. passes)) :
          /\ Cardinality(U) = Len(costTopic)
          /\ \A x \in Executors : OpenCosts(x) \cap U = {}
    BY DEF EventsInv, CostsInv
  <1>3. \A x \in Executors : x # e => OpenCosts(x)' = OpenCosts(x)
    <2>1. \A x \in Executors : x # e =>
            pc'[x] = pc[x] /\ node'[x] = node[x] /\ pass'[x] = pass[x]
      BY WorkerAlone DEF EventsInv
    <2> QED
      BY <2>1 DEF OpenCosts, Ahead
  <1>4. CASE /\ costTopic' = costTopic /\ passes' = passes
             /\ OpenCosts(e)' \subseteq OpenCosts(e)
    <2>1. \A x \in Executors : OpenCosts(x)' \cap U = {}
      BY <1>2, <1>3, <1>4
    <2> QED
      BY <1>2, <1>4, <2>1 DEF CostsInv
  <1>5. CASE /\ costTopic' = costTopic /\ passes' = passes + 1
             /\ OpenCosts(e)' \subseteq Nodes \X {passes + 1}
    <2>1. \A x \in Executors : OpenCosts(x)' \cap U = {}
      <3>1. (Nodes \X {passes + 1}) \cap U = {}
        BY <1>1
      <3> QED
        BY <1>2, <1>3, <1>5, <3>1
    <2>2. U \in SUBSET (Nodes \X (1 .. passes'))
      BY <1>1, <1>5
    <2> QED
      BY <1>2, <1>5, <2>1, <2>2 DEF CostsInv
  <1>6. CASE /\ costTopic' = Append(costTopic, <<node[e], pass[e]>>) /\ passes' = passes
             /\ <<node[e], pass[e]>> \in OpenCosts(e)
             /\ OpenCosts(e)' \subseteq OpenCosts(e) \ {<<node[e], pass[e]>>}
    <2> DEFINE slot == <<node[e], pass[e]>>
    <2>1. slot \notin U /\ slot \in Nodes \X (1 .. passes)
      <3>1. InPass(e) /\ node[e] \in Nodes
        BY <1>6 DEF OpenCosts, InPass, EventsInv, TypeInv, TypeOK
      <3> QED
        BY <1>2, <1>6, <3>1 DEF EventsInv, StartedInv
    <2>2. Cardinality(U \cup {slot}) = Len(costTopic')
      <3>1. IsFiniteSet(Nodes \X (1 .. passes))
        BY <1>1, SlotCounts
      <3>2. Cardinality(U \cup {slot}) = Cardinality(U) + 1
        BY <2>1, <3>1, OneMore
      <3>3. Len(costTopic') = Len(costTopic) + 1 /\ Len(costTopic) \in Nat
        BY <1>1, <1>6
      <3> QED
        BY <1>2, <3>2, <3>3
    <2>3. ASSUME NEW x \in Executors
          PROVE  OpenCosts(x)' \cap (U \cup {slot}) = {}
      <3>1. CASE x = e
        BY <1>2, <1>6, <3>1
      <3>2. CASE x # e
        BY <1>2, <1>3, <1>6, <3>2, OpenApart
      <3> QED
        BY <3>1, <3>2
    <2>4. U \cup {slot} \in SUBSET (Nodes \X (1 .. passes'))
      BY <1>6, <2>1
    <2> QED
      BY <2>2, <2>3, <2>4 DEF CostsInv
  <1> QED
    BY <1>4, <1>5, <1>6, CostTaken

\* The command opens the log, once.
LEMMA CommandKeepsEvents ==
  ASSUME EventsInv, Command
  PROVE  /\ EventsInv'
         /\ \/ UNCHANGED topicVars
            \/ /\ execLog = <<>> /\ execLog' = <<"started">>
               /\ UNCHANGED <<stepTopic, costTopic>>
  <1>1. TypeInv' /\ execLog \in Seq(ExecEvents)
    BY CommandKeepsTypes DEF EventsInv, TypeInv, TypeOK
  <1>2. /\ \/ execLog' = execLog
           \/ api = "new" /\ execLog' = Append(execLog, "started")
        /\ api' # "new"
        /\ UNCHANGED <<stepTopic, costTopic, pc, node, pass, passes>>
    BY DEF Command, RejectCommand, PublishStarted, PublishStartedFails, AuditStarted,
           AuditStartedFails, MaybeAppend, workerVars, topicVars
  <1>3. execLog' = execLog \/ (execLog = <<>> /\ execLog' = <<"started">>)
    <2>1. Append(<<>>, "started") = <<"started">>
      OBVIOUS
    <2> QED
      BY <1>2, <2>1 DEF EventsInv, StartedInv
  <1>4. /\ \A e \in Executors : OpenOutcomes(e)' = OpenOutcomes(e)
        /\ \A e \in Executors : OpenCosts(e)' = OpenCosts(e)
        /\ \A e \in Executors : InPass(e)' <=> InPass(e)
    BY <1>2 DEF OpenOutcomes, OpenCosts, Ahead, InPass
  <1>5. StartedInv'
    BY <1>2, <1>3, <1>4 DEF EventsInv, StartedInv
  <1>6. CostsInv'
    BY <1>2, <1>4 DEF EventsInv, CostsInv
  <1>7. OutcomesInv'
    <2>1. CASE execLog' = execLog
      BY <1>2, <1>4, <2>1 DEF EventsInv, OutcomesInv
    <2>2. CASE execLog = <<>> /\ execLog' = <<"started">>
      <3>1. Cardinality({}) = 0 /\ Len(execLog') = 1
        BY <2>2, FS_EmptySet
      <3>2. {} \in SUBSET ((1 .. passes') \X Terminal)
        OBVIOUS
      <3>3. \A e \in Executors : OpenOutcomes(e)' \cap {} = {}
        OBVIOUS
      <3>4. Cardinality({}) = Len(execLog') - 1
        BY <3>1
      <3> QED
        BY <3>2, <3>3, <3>4 DEF OutcomesInv
    <2> QED
      BY <1>3, <2>1, <2>2
  <1> QED
    BY <1>1, <1>2, <1>3, <1>5, <1>6, <1>7 DEF EventsInv, topicVars

\* Every step keeps the counts.
LEMMA StepKeepsEvents == EventsInv /\ [Next]_vars => EventsInv'
  <1> SUFFICES ASSUME EventsInv, [Next]_vars
               PROVE  EventsInv'
    OBVIOUS
  <1>1. ASSUME NEW e \in Executors, WorkerStep(e)
        PROVE  EventsInv'
    <2>1. TypeInv'
      BY <1>1, WorkerKeepsTypes DEF EventsInv
    <2> QED
      BY <1>1, <2>1, PassesStayApart, OutcomesKept, CostsKept DEF EventsInv
  <1>2. CASE UNCHANGED vars
    <2>1. UNCHANGED <<api, execLog, costTopic, pc, node, pass, passes>>
      BY <1>2 DEF vars, topicVars, workerVars
    <2>2. TypeInv'
      BY <1>2, StepKeepsTypes DEF EventsInv
    <2>3. /\ \A e \in Executors : OpenOutcomes(e)' = OpenOutcomes(e)
          /\ \A e \in Executors : OpenCosts(e)' = OpenCosts(e)
          /\ \A e \in Executors : InPass(e)' <=> InPass(e)
      BY <2>1 DEF OpenOutcomes, OpenCosts, Ahead, InPass
    <2> QED
      BY <2>1, <2>2, <2>3 DEF EventsInv, StartedInv, OutcomesInv, CostsInv
  <1> QED
    BY <1>1, <1>2, CommandKeepsEvents DEF Next, WorkerStep

\* No event is there before the command.
LEMMA InitEventsInv == Init => EventsInv
  <1> SUFFICES ASSUME Init
               PROVE  EventsInv
    OBVIOUS
  <1>1. StartedInv /\ OutcomesInv
    BY DEF Init, StartedInv, OutcomesInv, InPass
  <1>2. CostsInv
    <2>1. Cardinality({}) = Len(costTopic)
      BY FS_EmptySet DEF Init
    <2>2. {} \in SUBSET (Nodes \X (1 .. passes))
      OBVIOUS
    <2>3. \A e \in Executors : OpenCosts(e) \cap {} = {}
      OBVIOUS
    <2> QED
      BY <2>1, <2>2, <2>3 DEF CostsInv
  <1> QED
    BY <1>1, <1>2, InitTypeInv DEF EventsInv

\* Passes stay apart and no event is published twice by one.
THEOREM EventsInvariant == Spec => []EventsInv
  BY InitEventsInv, StepKeepsEvents, PTL DEF Spec

\* A worker's step is one event of RunEvents, or none.
LEMMA WorkerEmits ==
  ASSUME EventsInv, NEW e \in Executors, WorkerStep(e)
  PROVE  Events!Emit \/ UNCHANGED topicVars
  <1> USE DEF topicVars
  <1>1. TypeOK
    BY DEF EventsInv, TypeInv
  <1>2. CASE EmitStep(e) \/ EmitTelemetry(e) \/ EmitFails(e)
    <2>1. /\ OpenCosts(e) # {} /\ <<node[e], pass[e]>> \in Steps
          /\ execLog' = execLog
      <3>1. pc[e] \in {"step", "telemetry"} /\ execLog' = execLog
        BY <1>2 DEF EmitStep, EmitTelemetry, EmitFails
      <3>2. node[e] \in Nodes /\ node[e] \in Ahead(node[e])
        BY <1>1 DEF Ahead, Nodes, TypeOK
      <3>3. <<node[e], pass[e]>> \in OpenCosts(e)
        BY <3>1, <3>2 DEF OpenCosts
      <3> QED
        BY <3>1, <3>2, <3>3 DEF EventsInv, TypeInv, PassBegun, Steps
    <2>2. execLog # <<>> /\ Len(costTopic) < 4 * MaxPasses
      BY <2>1, RoomLeft
    <2>3. \/ /\ stepTopic' \in {stepTopic, stepTopic \cup {<<node[e], pass[e]>>}}
             /\ costTopic' = costTopic
          \/ /\ costTopic' \in {costTopic, Append(costTopic, <<node[e], pass[e]>>)}
             /\ stepTopic' = stepTopic
      BY <1>2 DEF EmitStep, EmitTelemetry, EmitFails
    <2>4. CASE UNCHANGED topicVars
      BY <2>4
    <2>5. CASE /\ stepTopic' = stepTopic \cup {<<node[e], pass[e]>>}
               /\ costTopic' = costTopic
      <3>1. Events!EmitStep(<<node[e], pass[e]>>)
        BY <2>1, <2>2, <2>5 DEF Events!EmitStep
      <3> QED
        BY <2>1, <3>1 DEF Events!Emit
    <2>6. CASE /\ costTopic' = Append(costTopic, <<node[e], pass[e]>>)
               /\ stepTopic' = stepTopic
      <3>1. Events!EmitCost(<<node[e], pass[e]>>)
        BY <2>1, <2>2, <2>6 DEF Events!EmitCost
      <3> QED
        BY <2>1, <3>1 DEF Events!Emit
    <2> QED
      BY <2>1, <2>3, <2>4, <2>5, <2>6
  <1>3. CASE \/ PublishFinished(e) \/ FinishFails(e) \/ PublishFailed(e) \/ FailFails(e)
    <2>1. /\ UNCHANGED <<stepTopic, costTopic>>
          /\ \/ execLog' = execLog
             \/ /\ pc[e] \in {"finish", "fail"}
                /\ \E event \in Terminal : execLog' = Append(execLog, event)
      BY <1>3 DEF PublishFinished, FinishFails, PublishFailed, FailFails, MaybeAppend, Terminal
    <2>2. ASSUME NEW event \in Terminal, pc[e] \in {"finish", "fail"},
                 execLog' = Append(execLog, event)
          PROVE  Events!Emit
      <3>1. <<pass[e], "failed">> \in OpenOutcomes(e)
        BY <2>2 DEF OpenOutcomes, Terminal
      <3>2. execLog # <<>> /\ Len(execLog) <= 2 * MaxPasses
        BY <3>1, RoomLeft
      <3>3. Events!Terminate(event)
        BY <2>1, <2>2, <3>2 DEF Events!Terminate
      <3> QED
        BY <2>2, <3>3 DEF Events!Emit, Events!Terminal, Terminal
    <2> QED
      BY <2>1, <2>2
  <1>4. CASE \/ Deliver(e) \/ Crash(e) \/ BeginWorkflow(e) \/ SkipProcessed(e)
             \/ AuditOutcome(e) \/ StoreMarker(e) \/ StoreFails(e) \/ ParkStarted(e)
    BY <1>4 DEF Deliver, Crash, BeginWorkflow, SkipProcessed, AuditOutcome, StoreMarker,
       StoreFails, ParkStarted
  <1> QED
    BY <1>2, <1>3, <1>4 DEF WorkerStep

\* Whatever retries, second deliveries and crashes mix in its topics, a run gives its
\* consumers what RunEvents promises: one execution.started, opening the log, before any
\* step, cost or outcome, and at most two outcomes and four costs for each pass through
\* the graph (service.py:124-137, 220-284).
THEOREM RunImplementsEvents == Spec => ImplementsEvents
  <1>1. Init => Events!NoEvents
    BY DEF Init, Events!NoEvents
  <1>2. EventsInv /\ [Next]_vars => [Events!Emit]_(Events!topicVars)
    <2> SUFFICES ASSUME EventsInv, [Next]_vars
                 PROVE  Events!Emit \/ UNCHANGED topicVars
      BY DEF topicVars, Events!topicVars
    <2>1. CASE Command
      <3>1. CASE UNCHANGED topicVars
        BY <3>1
      <3>2. CASE /\ execLog = <<>> /\ execLog' = <<"started">>
                 /\ UNCHANGED <<stepTopic, costTopic>>
        BY <3>2 DEF Events!Emit, Events!Start
      <3> QED
        BY <2>1, <3>1, <3>2, CommandKeepsEvents
    <2>2. CASE UNCHANGED vars
      BY <2>2 DEF vars
    <2> QED
      BY <2>1, <2>2, WorkerEmits DEF Next, WorkerStep
  <1> QED
    BY <1>1, <1>2, EventsInvariant, PTL DEF Spec, ImplementsEvents, Events!EventsSpec

=============================================================================
