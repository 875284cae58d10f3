------------------------ MODULE RunProjectionProofs ------------------------
(***************************************************************************)
(* Proofs about RunProjection, for any set of steps and any number of      *)
(* terminal events, costs and parked events.                               *)
(***************************************************************************)
EXTENDS RunProjection, TLAPS

USE ProjectionAssumption

-----------------------------------------------------------------------------
(* Type correctness                                                        *)

\* The topics keep their types and only grow.
LEMMA EmitTyped ==
  ASSUME TopicsTypeOK, Emit
  PROVE  /\ TopicsTypeOK'
         /\ Len(execLog) <= Len(execLog')
         /\ \A i \in 1 .. Len(execLog) : execLog'[i] = execLog[i]
         /\ stepTopic \subseteq stepTopic'
         /\ Len(costTopic) <= Len(costTopic')
  <1>1. CASE Start
    BY <1>1 DEF Start, TopicsTypeOK, ExecEvents
  <1>2. ASSUME NEW event \in Terminal, Terminate(event)
        PROVE  /\ TopicsTypeOK'
               /\ Len(execLog') = Len(execLog) + 1
               /\ \A i \in 1 .. Len(execLog) : execLog'[i] = execLog[i]
               /\ UNCHANGED <<stepTopic, costTopic>>
    <2>1. event \in ExecEvents
      BY DEF ExecEvents
    <2> QED
      BY <1>2, <2>1 DEF Terminate, TopicsTypeOK
  <1>3. ASSUME NEW s \in Steps, EmitStep(s)
        PROVE  /\ TopicsTypeOK'
               /\ UNCHANGED <<execLog, costTopic>>
               /\ stepTopic \subseteq stepTopic'
    BY <1>3 DEF EmitStep, TopicsTypeOK
  <1>4. ASSUME NEW s \in Steps, EmitCost(s)
        PROVE  /\ TopicsTypeOK'
               /\ UNCHANGED <<execLog, stepTopic>>
               /\ Len(costTopic') = Len(costTopic) + 1
    BY <1>4 DEF EmitCost, TopicsTypeOK
  <1>5. Len(execLog) \in Nat /\ Len(costTopic) \in Nat
    BY DEF TopicsTypeOK
  <1>6. CASE \E event \in Terminal : Terminate(event)
    BY <1>2, <1>5, <1>6
  <1>7. CASE \E s \in Steps : EmitStep(s)
    BY <1>3, <1>5, <1>7
  <1>8. CASE \E s \in Steps : EmitCost(s)
    BY <1>4, <1>5, <1>8
  <1> QED
    BY <1>1, <1>6, <1>7, <1>8 DEF Emit

LEMMA InitTyped == Init => TypeOK
  <1> SUFFICES ASSUME Init
               PROVE  TypeOK
    OBVIOUS
  <1>1. TopicsTypeOK
    BY DEF Init, NoEvents, TopicsTypeOK
  <1>2. execRead \in 0 .. Len(execLog) /\ costRead \in 0 .. Len(costTopic)
    BY DEF Init, NoEvents
  <1>3. stub \in BOOLEAN
    BY DEF Init
  <1>4. parkings \in 0 .. MaxParked
    BY DEF Init
  <1> QED
    BY <1>1, <1>2, <1>3, <1>4 DEF Init, TypeOK

\* What an owner comes upon is a position of the log, at most one beyond what is
\* settled.
LEMMA DueTyped ==
  ASSUME NEW log, Len(log) \in Nat, NEW read \in 0 .. Len(log),
         NEW applied \in SUBSET (1 .. read), NEW i \in Due(log, read, applied)
  PROVE  /\ i \in 1 .. Len(log) /\ i \notin applied /\ i <= read + 1
         /\ Reach(read, i) \in 0 .. Len(log)
         /\ read <= Reach(read, i)
         /\ applied \cup {i} \subseteq 1 .. Reach(read, i)
  BY DEF Due, Reach

LEMMA ApplyTyped ==
  ASSUME TypeOK, NEW i, ApplyExec(i), UNCHANGED execLog
  PROVE  /\ i \in 1 .. Len(execLog) /\ i \notin execApplied
         /\ execRead' \in 0 .. Len(execLog')
         /\ execApplied' \subseteq 1 .. execRead'
         /\ execOvertaken' \subseteq execApplied'
  <1>1. Len(execLog) \in Nat
    BY DEF TypeOK, TopicsTypeOK
  <1>2. /\ i \in 1 .. Len(execLog) /\ i \notin execApplied
        /\ Reach(execRead, i) \in 0 .. Len(execLog)
        /\ execApplied \cup {i} \subseteq 1 .. Reach(execRead, i)
    BY <1>1, DueTyped DEF ApplyExec, TypeOK
  <1> QED
    BY <1>2 DEF ApplyExec, TypeOK

LEMMA StepTyped == TypeOK /\ [Next]_vars => TypeOK'
  <1> SUFFICES ASSUME TypeOK, [Next]_vars
               PROVE  TypeOK'
    OBVIOUS
  <1> USE DEF topicVars, rowVars, execVars, stepVars, costVars
  <1>0. Len(execLog) \in Nat /\ Len(costTopic) \in Nat
    BY DEF TypeOK, TopicsTypeOK
  <1>1. CASE Produce
    <2>1. /\ TopicsTypeOK' /\ Len(execLog) <= Len(execLog')
          /\ stepTopic \subseteq stepTopic' /\ Len(costTopic) <= Len(costTopic')
          /\ Len(execLog') \in Nat /\ Len(costTopic') \in Nat
      BY <1>1, EmitTyped DEF Produce, TypeOK, TopicsTypeOK
    <2> QED
      BY <1>0, <1>1, <2>1 DEF Produce, TypeOK
  <1>2. ASSUME NEW i \in DOMAIN execLog, ProjectStarted(i) \/ ProjectTerminal(i)
        PROVE  TypeOK'
    <2>1. ApplyExec(i) /\ UNCHANGED <<topicVars, stepVars, costVars, parkings>>
      BY <1>2 DEF ProjectStarted, ProjectTerminal
    <2>2. /\ execRead' \in 0 .. Len(execLog') /\ execApplied' \subseteq 1 .. execRead'
          /\ execOvertaken' \subseteq execApplied'
      BY <2>1, ApplyTyped
    <2>3. status' \in {"absent", "running", "succeeded", "failed"} /\ stub' \in BOOLEAN
      BY <1>2 DEF ProjectStarted, ProjectTerminal, Updated, StatusOf, TypeOK
    <2> QED
      BY <2>1, <2>2, <2>3 DEF TypeOK, TopicsTypeOK
  <1>4. CASE ParkExec
    BY <1>0, <1>4 DEF ParkExec, Park, TypeOK, TopicsTypeOK
  <1>5. ASSUME NEW s \in Steps, ProjectStep(s)
        PROVE  TypeOK'
    BY <1>5 DEF ProjectStep, EnsurePlaceholder, TypeOK, TopicsTypeOK
  <1>6. ASSUME NEW s \in Steps, ParkStep(s)
        PROVE  TypeOK'
    BY <1>6 DEF ParkStep, Park, TypeOK, TopicsTypeOK
  <1>7. ASSUME NEW i \in DOMAIN costTopic, ProjectCost(i)
        PROVE  TypeOK'
    <2>1. /\ Reach(costRead, i) \in 0 .. Len(costTopic)
          /\ costRows \cup {i} \subseteq 1 .. Reach(costRead, i)
      BY <1>0, <1>7, DueTyped DEF ProjectCost, TypeOK
    <2> QED
      BY <1>7, <2>1 DEF ProjectCost, TypeOK, TopicsTypeOK
  <1>8. CASE ParkCost
    BY <1>0, <1>8 DEF ParkCost, Park, TypeOK, TopicsTypeOK
  <1>9. CASE UNCHANGED vars
    BY <1>9 DEF vars, TypeOK, TopicsTypeOK
  <1> QED
    BY <1>1, <1>2, <1>4, <1>5, <1>6, <1>7, <1>8, <1>9 DEF Next

\* Every variable of the read model keeps its type.
THEOREM TypeCorrect == Spec => []TypeOK
  BY InitTyped, StepTyped, PTL DEF Spec

-----------------------------------------------------------------------------
(* The row follows the log                                                 *)

LEMMA InitRow == Init => RowInv
  BY DEF Init, NoEvents, RowInv, RowFollowsLog, Closed

\* The one event of a partition that is no terminal event is its first.
LEMMA StartIsFirst ==
  ASSUME TypeOK, RowInv, NEW i \in 1 .. Len(execLog)
  PROVE  (execLog[i] = "started" <=> i = 1) /\ (execLog[i] \in Terminal <=> i # 1)
  <1>1. Len(execLog) \in Nat /\ (execLog # <<>> <=> Len(execLog) # 0)
    BY DEF TypeOK, TopicsTypeOK
  <1>2. execLog[1] = "started"
    BY <1>1 DEF RowInv
  <1>3. CASE i = 1
    BY <1>2, <1>3 DEF Terminal
  <1>4. CASE i # 1
    <2>1. execLog[i] \in Terminal
      BY <1>1, <1>4 DEF RowInv
    <2> QED
      BY <1>4, <2>1 DEF Terminal
  <1> QED
    BY <1>3, <1>4

LEMMA StepRow == TypeOK /\ RowInv /\ [Next]_vars => RowInv'
  <1> SUFFICES ASSUME TypeOK, RowInv, [Next]_vars
               PROVE  RowInv'
    OBVIOUS
  <1> USE DEF topicVars, rowVars, execVars, stepVars, costVars
  <1>0. /\ Len(execLog) \in Nat /\ execRead \in 0 .. Len(execLog)
        /\ execApplied \subseteq 1 .. execRead /\ execOvertaken \subseteq execApplied
    BY DEF TypeOK, TopicsTypeOK
  <1>1. CASE Produce
    <2>1. /\ execLog' # <<>> => execLog'[1] = "started"
          /\ \A i \in 2 .. Len(execLog') : execLog'[i] \in Terminal
      <3>1. CASE Start
        BY <3>1 DEF Start
      <3>2. ASSUME NEW event \in Terminal, Terminate(event)
            PROVE  <2>1!1 /\ <2>1!2
        BY <1>0, <3>2 DEF Terminate, RowInv, TypeOK, TopicsTypeOK
      <3>3. CASE UNCHANGED execLog
        BY <3>3 DEF RowInv
      <3> QED
        BY <1>1, <3>1, <3>2, <3>3 DEF Produce, Emit, EmitStep, EmitCost
    <2>2. \A i \in 1 .. Len(execLog) : execLog'[i] = execLog[i]
      BY <1>1, EmitTyped DEF Produce, TypeOK
    <2>3. UNCHANGED <<rowVars, execVars>>
      BY <1>1 DEF Produce
    <2>4. \A i \in execApplied : Says(i)' = Says(i)
      BY <1>0, <2>2 DEF Says
    <2>5. RowFollowsLog'
      BY <2>3, <2>4 DEF RowInv, RowFollowsLog
    <2> QED
      BY <2>1, <2>3, <2>5 DEF RowInv, Closed, AppliedTerminals
  <1>2. ASSUME NEW i \in DOMAIN execLog, ProjectStarted(i) \/ ProjectTerminal(i)
        PROVE  RowInv'
    <2>1. ApplyExec(i) /\ UNCHANGED execLog
      BY <1>2 DEF ProjectStarted, ProjectTerminal
    <2>2. i \in 1 .. Len(execLog) /\ i \notin execApplied
      BY <2>1, ApplyTyped
    <2>3. execApplied' = execApplied \cup {i}
      BY <2>1 DEF ApplyExec
    <2>4. i \in execOvertaken' \/ \A j \in execApplied' : j <= i
      <3>1. CASE \E j \in execApplied : j > i
        BY <2>1, <3>1 DEF ApplyExec
      <3>2. CASE ~\E j \in execApplied : j > i
        BY <1>0, <2>2, <2>3, <3>2
      <3> QED
        BY <3>1, <3>2
    <2>5. execLog' # <<>> => execLog'[1] = "started"
      BY <2>1 DEF RowInv
    <2>6. \A k \in 2 .. Len(execLog') : execLog'[k] \in Terminal
      BY <2>1 DEF RowInv
    <2>7. Says(i)' = Says(i)
      BY <2>1 DEF Says
    <2>8. CASE ProjectStarted(i)
      <3>1. i = 1
        BY <2>2, <2>8, StartIsFirst DEF ProjectStarted
      <3>2. status' = "running" /\ stub' = FALSE /\ Says(i) = "running"
        BY <2>8 DEF ProjectStarted, Says
      <3>3. RowFollowsLog'
        BY <2>3, <2>4, <2>7, <3>2 DEF RowFollowsLog
      <3> QED
        BY <2>5, <2>6, <3>2, <3>3 DEF RowInv, Closed
    <2>9. CASE ProjectTerminal(i)
      <3>1. i # 1 /\ UNCHANGED stub /\ status' = Updated(execLog[i])
        BY <2>2, <2>9, StartIsFirst DEF ProjectTerminal
      <3>2. AppliedTerminals' # {}
        BY <2>3, <3>1 DEF AppliedTerminals
      <3>3. Says(i) = StatusOf(execLog[i])
        BY <2>2, <3>1, StartIsFirst DEF Says
      <3>4. 1 \in execApplied' => 1 \in execApplied
        BY <2>3, <3>1
      <3>5. 1 \in execApplied => status' = Says(i) /\ status' # "absent" /\ ~stub
        BY <3>1, <3>3 DEF RowInv, RowFollowsLog, Updated, StatusOf
      <3>6. RowFollowsLog'
        BY <2>3, <2>4, <2>7, <3>1, <3>4, <3>5 DEF RowFollowsLog
      <3> QED
        BY <2>5, <2>6, <3>2, <3>4, <3>5, <3>6 DEF RowInv
    <2> QED
      BY <1>2, <2>8, <2>9
  <1>3. CASE UNCHANGED <<execLog, execApplied, execOvertaken, status, stub>>
    <2>1. \A i \in execApplied : Says(i)' = Says(i)
      BY <1>3 DEF Says
    <2> QED
      BY <1>3, <2>1 DEF RowInv, RowFollowsLog, AppliedTerminals, Closed
  <1>4. CASE ParkExec
    BY <1>3, <1>4 DEF ParkExec
  <1>5. ASSUME NEW s \in Steps, ProjectStep(s)
        PROVE  RowInv'
    <2>1. UNCHANGED <<execLog, execApplied, execOvertaken>>
      BY <1>5 DEF ProjectStep, EnsurePlaceholder
    <2>2. CASE status # "absent"
      BY <1>3, <1>5, <2>1, <2>2 DEF ProjectStep, EnsurePlaceholder
    <2>3. CASE status = "absent"
      <3>1. 1 \notin execApplied /\ status' = "running"
        BY <1>5, <2>3 DEF RowInv, ProjectStep, EnsurePlaceholder
      <3> QED
        BY <2>1, <3>1 DEF RowInv, RowFollowsLog, Closed
    <2> QED
      BY <2>2, <2>3
  <1>6. ASSUME NEW s \in Steps, ParkStep(s)
        PROVE  RowInv'
    BY <1>3, <1>6 DEF ParkStep
  <1>7. ASSUME NEW i \in DOMAIN costTopic, ProjectCost(i)
        PROVE  RowInv'
    BY <1>3, <1>7 DEF ProjectCost
  <1>8. CASE ParkCost
    BY <1>3, <1>8 DEF ParkCost
  <1>9. CASE UNCHANGED vars
    BY <1>3, <1>9 DEF vars
  <1> QED
    BY <1>1, <1>2, <1>4, <1>5, <1>6, <1>7, <1>8, <1>9 DEF Next

LEMMA RowInvariant == Spec => []RowInv
  BY InitRow, StepRow, TypeCorrect, PTL DEF Spec

\* Once its start is applied, the row of a run is what the last applied event of
\* its partition says, or one that was parked and applied behind a later one,
\* whatever the order of the steps.
THEOREM RowFollows == Spec => []RowFollowsLog
  <1>1. RowInv => RowFollowsLog
    BY DEF RowInv
  <1> QED
    BY <1>1, RowInvariant, PTL

\* A run that shows as finished or failed shows as running again only by a start
\* that was parked and is applied behind the terminal event.
THEOREM ReopenedOnlyByLateStart == Spec => OnlyLateStartReopens
  <1>1. TypeOK /\ RowInv /\ [Next]_vars
          => [Closed /\ ~Closed' => 1 \notin execApplied /\ 1 \in execOvertaken']_vars
    <2> SUFFICES ASSUME TypeOK, RowInv, [Next]_vars, Closed, ~Closed'
                 PROVE  1 \notin execApplied /\ 1 \in execOvertaken'
      OBVIOUS
    <2> USE DEF Closed, rowVars
    <2>1. ASSUME NEW i \in DOMAIN execLog, ProjectTerminal(i)
          PROVE  FALSE
      BY <2>1 DEF ProjectTerminal, Updated, StatusOf
    <2>2. ASSUME NEW i \in DOMAIN execLog, ProjectStarted(i)
          PROVE  1 \notin execApplied /\ 1 \in execOvertaken'
      <3>1. ApplyExec(i) /\ UNCHANGED execLog /\ execLog[i] = "started"
        BY <2>2 DEF ProjectStarted, topicVars
      <3>2. i = 1 /\ i \notin execApplied
        BY <3>1, ApplyTyped, StartIsFirst
      <3>3. PICK j \in execApplied : j # 1
        BY DEF RowInv, AppliedTerminals
      <3>4. j > 1
        BY <3>3 DEF TypeOK, TopicsTypeOK
      <3> QED
        BY <3>1, <3>2, <3>4 DEF ApplyExec
    <2>3. ASSUME NEW s \in Steps, ProjectStep(s) \/ ParkStep(s)
          PROVE  FALSE
      BY <2>3 DEF ProjectStep, EnsurePlaceholder, ParkStep
    <2>4. ASSUME NEW i \in DOMAIN costTopic, ProjectCost(i)
          PROVE  FALSE
      BY <2>4 DEF ProjectCost
    <2>5. CASE Produce \/ ParkExec \/ ParkCost \/ UNCHANGED vars
      BY <2>5 DEF Produce, ParkExec, ParkCost, vars
    <2> QED
      BY <2>1, <2>2, <2>3, <2>4, <2>5 DEF Next
  <1> QED
    BY <1>1, TypeCorrect, RowInvariant, PTL DEF Spec, OnlyLateStartReopens

-----------------------------------------------------------------------------
(* References resolve                                                      *)

LEMMA StepReferences == TypeOK /\ ReferencesResolve /\ [Next]_vars => ReferencesResolve'
  <1> SUFFICES ASSUME TypeOK, ReferencesResolve, [Next]_vars
               PROVE  ReferencesResolve'
    OBVIOUS
  <1> USE DEF topicVars, rowVars, execVars, stepVars, costVars
  <1>1. status # "absent" => status' # "absent"
    BY DEF Next, Produce, ProjectStarted, ProjectTerminal, Updated, StatusOf, ParkExec,
           ProjectStep, EnsurePlaceholder, ParkStep, ProjectCost, ParkCost, vars
  <1>2. ASSUME NEW s \in Steps, ProjectStep(s)
        PROVE  status' # "absent"
    BY <1>1, <1>2 DEF ProjectStep, EnsurePlaceholder
  <1>3. ASSUME NEW i \in DOMAIN costTopic, ProjectCost(i)
        PROVE  ReferencesResolve'
    <2>1. CASE status # "absent"
      BY <1>1, <2>1 DEF ReferencesResolve
    <2>2. CASE status = "absent"
      <3>1. costRows' \ orphans' \subseteq costRows \ orphans /\ stepRows' = stepRows
        BY <1>3, <2>2 DEF ProjectCost
      <3> QED
        BY <2>2, <3>1 DEF ReferencesResolve
    <2> QED
      BY <2>1, <2>2
  <1>4. CASE UNCHANGED <<stepRows, costRows, orphans>>
    BY <1>1, <1>4 DEF ReferencesResolve
  <1>5. ASSUME NEW i \in DOMAIN execLog, ProjectStarted(i) \/ ProjectTerminal(i)
        PROVE  ReferencesResolve'
    BY <1>4, <1>5 DEF ProjectStarted, ProjectTerminal
  <1>6. ASSUME NEW s \in Steps, ParkStep(s)
        PROVE  ReferencesResolve'
    BY <1>4, <1>6 DEF ParkStep
  <1>7. CASE Produce \/ ParkExec \/ ParkCost \/ UNCHANGED vars
    BY <1>4, <1>7 DEF Produce, ParkExec, ParkCost, vars
  <1> QED
    BY <1>2, <1>3, <1>5, <1>6, <1>7 DEF Next, ReferencesResolve

\* A step row or an attributed cost always finds the row of its run
\* (projector.py:202-225, 338-366).
THEOREM RowsHaveTheirRun == Spec => []ReferencesResolve
  <1>1. Init => ReferencesResolve
    BY DEF Init, ReferencesResolve
  <1> QED
    BY <1>1, StepReferences, TypeCorrect, PTL DEF Spec

=============================================================================
