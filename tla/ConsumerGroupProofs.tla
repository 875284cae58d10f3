------------------------ MODULE ConsumerGroupProofs ------------------------
(***************************************************************************)
(* Proofs about ConsumerGroup, for every set of members, every length of   *)
(* the log and every fault budget: type correctness, exactly-once database *)
(* effects, the order invariant behind NoSilentSkip, and the refinement of *)
(* GroupLedger.                                                            *)
(***************************************************************************)
EXTENDS ConsumerGroup, TLAPS

USE GroupAssumption

-----------------------------------------------------------------------------
(* Type correctness                                                        *)

LEMMA InitTyped == Init => TypeOK
  BY DEF Init, TypeOK, Offsets, NoOffset, Labels

\* The two ways an attempt or a record ends keep the cursors in range.
LEMMA ControlTyped ==
  ASSUME TypeOK, NEW m \in Members, AttemptFails(m) \/ RecordDone(m) \/ Dies(m)
  PROVE  /\ pc' \in [Members -> Labels]
         /\ assigned' \subseteq Members
         /\ position' \in [Members -> 0 .. MaxEvents]
         /\ current' \in [Members -> Offsets]
         /\ batchEnd' \in [Members -> 0 .. MaxEvents]
         /\ attempt' \in [Members -> 1 .. MaxRetries]
  <1>1. CASE AttemptFails(m)
    BY <1>1 DEF AttemptFails, Goto, TypeOK, Labels
  <1>2. CASE RecordDone(m)
    <2>1. CASE current[m] + 1 < batchEnd[m]
      <3>1. current[m] + 1 \in Offsets
        <4>1. current[m] \in 0 .. MaxEvents - 1 /\ batchEnd[m] \in 0 .. MaxEvents
          BY DEF TypeOK, Offsets
        <4> QED
          BY <2>1, <4>1 DEF Offsets
      <3>2. current' = [current EXCEPT ![m] = current[m] + 1]
        BY <1>2, <2>1 DEF RecordDone
      <3>3. current' \in [Members -> Offsets]
        BY <3>1, <3>2 DEF TypeOK
      <3>4. attempt' \in [Members -> 1 .. MaxRetries]
        BY <1>2, <2>1 DEF RecordDone, TypeOK
      <3>5. pc' \in [Members -> Labels]
        BY <1>2, <2>1 DEF RecordDone, Goto, TypeOK, Labels
      <3> QED
        BY <1>2, <3>3, <3>4, <3>5 DEF RecordDone, TypeOK
    <2>2. CASE ~(current[m] + 1 < batchEnd[m])
      BY <1>2, <2>2 DEF RecordDone, Goto, TypeOK, Labels
    <2> QED
      BY <2>1, <2>2
  <1>3. CASE Dies(m)
    BY <1>3 DEF Dies, Goto, cursorVars, TypeOK, Labels
  <1> QED
    BY <1>1, <1>2, <1>3

\* A raising offset commit leaves the offset and the budgets in range.
LEMMA RaisesTyped ==
  ASSUME TypeOK, NEW m \in Members, CommitRaises(m)
  PROVE  /\ committed' \in {NoOffset} \cup 1 .. MaxEvents
         /\ crashes' \in 0 .. MaxCrashes
         /\ rebalances' \in 0 .. MaxRebalances
         /\ faults' \in 0 .. MaxFaults
  <1>1. current[m] + 1 \in 1 .. MaxEvents
    BY DEF TypeOK, Offsets
  <1>2. committed' \in {committed, current[m] + 1}
    BY DEF CommitRaises
  <1>3. committed' \in {NoOffset} \cup 1 .. MaxEvents
    BY <1>1, <1>2 DEF TypeOK
  <1> QED
    BY <1>3 DEF CommitRaises, SpendFault, budgetVars, TypeOK

LEMMA StepTyped == TypeOK /\ [Next]_vars => TypeOK'
  <1> SUFFICES ASSUME TypeOK, [Next]_vars
               PROVE  TypeOK'
    OBVIOUS
  <1> USE DEF kafkaVars, dbVars, worldVars, cursorVars, budgetVars
  <1>1. CASE Publish
    BY <1>1 DEF Publish, TypeOK
  <1>2. ASSUME NEW m \in Members, Assign(m)
        PROVE  TypeOK'
    BY <1>2 DEF Assign, TypeOK, NoOffset
  <1>3. ASSUME NEW m \in Members, LearnRevoked(m)
        PROVE  TypeOK'
    BY <1>3 DEF LearnRevoked, TypeOK
  <1>4. ASSUME NEW m \in Members, Start(m)
        PROVE  TypeOK'
    BY <1>4 DEF Start, Goto, TypeOK, Labels
  <1>5. ASSUME NEW m \in Members, Poll(m)
        PROVE  TypeOK'
    <2>1. PICK end \in 1 .. logEnd :
            /\ position[m] < end
            /\ batchEnd' = [batchEnd EXCEPT ![m] = end]
            /\ position' = [position EXCEPT ![m] = end]
      BY <1>5 DEF Poll
    <2>2. end \in 0 .. MaxEvents /\ position[m] \in Offsets
      BY <2>1 DEF TypeOK, Offsets
    <2>3. current' = [current EXCEPT ![m] = position[m]]
      BY <1>5 DEF Poll
    <2>4. /\ batchEnd' \in [Members -> 0 .. MaxEvents]
          /\ position' \in [Members -> 0 .. MaxEvents]
          /\ current' \in [Members -> Offsets]
      BY <2>1, <2>2, <2>3 DEF TypeOK
    <2> QED
      BY <1>5, <2>4 DEF Poll, Goto, TypeOK, Labels
  <1>6. ASSUME NEW m \in Members, DeserializeFails(m) \/ LagRaises(m) \/ Cancel(m)
        PROVE  TypeOK'
    <2>1. Dies(m)
      BY <1>6 DEF DeserializeFails, LagRaises, Cancel
    <2> QED
      BY <1>6, <2>1, ControlTyped DEF DeserializeFails, LagRaises, Cancel, Dies, TypeOK
  <1>7. ASSUME NEW m \in Members, CheckProcessed(m) \/ LagUpdated(m) \/ Crash(m)
        PROVE  TypeOK'
    BY <1>7 DEF CheckProcessed, LagUpdated, Crash, Goto, TypeOK, Labels
  <1>8. ASSUME NEW m \in Members, CheckFails(m)
        PROVE  TypeOK'
    BY <1>8, ControlTyped DEF CheckFails, SpendFault, TypeOK
  <1>9. ASSUME NEW m \in Members, HandlerSucceeds(m)
        PROVE  TypeOK'
    BY <1>9 DEF HandlerSucceeds, Goto, TypeOK, Labels
  <1>10. ASSUME NEW m \in Members, HandlerFails(m)
         PROVE  TypeOK'
    BY <1>10, ControlTyped DEF HandlerFails, SpendFault, TypeOK
  <1>11. ASSUME NEW m \in Members, StoreSucceeds(m)
         PROVE  TypeOK'
    BY <1>11 DEF StoreSucceeds, Goto, TypeOK, Labels
  <1>12. ASSUME NEW m \in Members, StoreConflicts(m)
         PROVE  TypeOK'
    BY <1>12, ControlTyped DEF StoreConflicts, TypeOK
  <1>13. ASSUME NEW m \in Members, StoreFails(m)
         PROVE  TypeOK'
    BY <1>13, ControlTyped DEF StoreFails, SpendFault, TypeOK
  <1>14. ASSUME NEW m \in Members, CommitSucceeds(m) \/ DlqCommitSucceeds(m)
         PROVE  TypeOK'
    <2>1. RecordDone(m) /\ CommitReturns(m)
      BY <1>14 DEF CommitSucceeds, DlqCommitSucceeds
    <2>2. committed' \in {NoOffset} \cup 1 .. MaxEvents
      BY <2>1 DEF CommitReturns, TypeOK, Offsets
    <2> QED
      BY <1>14, <2>1, <2>2, ControlTyped DEF CommitSucceeds, DlqCommitSucceeds, TypeOK
  <1>15. ASSUME NEW m \in Members, CommitFails(m)
         PROVE  TypeOK'
    BY <1>15, ControlTyped, RaisesTyped DEF CommitFails, TypeOK
  <1>16. ASSUME NEW m \in Members, ParkInDlq(m)
         PROVE  TypeOK'
    BY <1>16 DEF ParkInDlq, Goto, TypeOK, Labels
  <1>17. ASSUME NEW m \in Members, ParkFails(m)
         PROVE  TypeOK'
    <2>1. Dies(m)
      BY <1>17 DEF ParkFails
    <2> QED
      BY <1>17, <2>1, ControlTyped DEF ParkFails, Dies, SpendFault, TypeOK
  <1>18. ASSUME NEW m \in Members, DlqCommitFails(m)
         PROVE  TypeOK'
    BY <1>18, RaisesTyped DEF DlqCommitFails, Goto, TypeOK, Labels
  <1>19. CASE UNCHANGED vars
    BY <1>19 DEF vars, TypeOK
  <1> QED
    BY <1>1, <1>2, <1>3, <1>4, <1>5, <1>6, <1>7, <1>8, <1>9, <1>10, <1>11,
       <1>12, <1>13, <1>14, <1>15, <1>16, <1>17, <1>18, <1>19 DEF Next

\* Every variable keeps its type, whatever faults occur.
THEOREM TypeCorrect == Spec => []TypeOK
  BY InitTyped, StepTyped, PTL DEF Spec
-----------------------------------------------------------------------------
(* Exactly-once database effects                                           *)

\* The database changes only when a member stores a record nobody has stored.
LEMMA DbStep ==
  ASSUME [Next]_vars
  PROVE  \/ UNCHANGED dbVars
         \/ \E m \in Members :
              /\ current[m] \notin processed
              /\ processed' = processed \cup {current[m]}
              /\ effects' = [effects EXCEPT ![current[m]] = @ + 1]
  <1>1. CASE UNCHANGED vars
    BY <1>1 DEF vars
  <1>2. CASE Publish
    BY <1>2 DEF Publish
  <1>3. ASSUME NEW m \in Members, StoreSucceeds(m) \/ StoreFails(m)
        PROVE  \/ UNCHANGED dbVars
               \/ /\ current[m] \notin processed
                  /\ processed' = processed \cup {current[m]}
                  /\ effects' = [effects EXCEPT ![current[m]] = @ + 1]
    BY <1>3 DEF StoreSucceeds, StoreFails
  <1>4. ASSUME NEW m \in Members,
               \/ Assign(m) \/ LearnRevoked(m) \/ Start(m) \/ Poll(m)
               \/ DeserializeFails(m) \/ CheckProcessed(m) \/ CheckFails(m)
               \/ HandlerSucceeds(m) \/ HandlerFails(m) \/ StoreConflicts(m)
               \/ CommitSucceeds(m) \/ CommitFails(m)
               \/ ParkInDlq(m) \/ ParkFails(m)
               \/ DlqCommitSucceeds(m) \/ DlqCommitFails(m)
               \/ LagUpdated(m) \/ LagRaises(m) \/ Crash(m) \/ Cancel(m)
        PROVE  UNCHANGED dbVars
    BY <1>4 DEF Assign, LearnRevoked, Start, Poll, DeserializeFails,
         CheckProcessed, CheckFails, HandlerSucceeds, HandlerFails,
         StoreConflicts, CommitSucceeds, CommitFails, ParkInDlq, ParkFails,
         DlqCommitSucceeds, DlqCommitFails, LagUpdated, LagRaises, Crash, Cancel
  <1> QED
    BY <1>1, <1>2, <1>3, <1>4 DEF Next

\* However the members interleave, fail, retry and restart, the writes of a
\* record's handler are in the database at most once, with its marker.
THEOREM EffectsExactlyOnce == Spec => []EffectOnce
  <1>1. Init => EffectOnce
    BY DEF Init, EffectOnce
  <1>2. TypeOK /\ EffectOnce /\ [Next]_vars => EffectOnce'
    <2> SUFFICES ASSUME TypeOK, EffectOnce, [Next]_vars
                 PROVE  EffectOnce'
      OBVIOUS
    <2>1. CASE UNCHANGED dbVars
      BY <2>1 DEF EffectOnce, dbVars
    <2>2. ASSUME NEW m \in Members,
                 current[m] \notin processed,
                 processed' = processed \cup {current[m]},
                 effects' = [effects EXCEPT ![current[m]] = @ + 1]
          PROVE  EffectOnce'
      BY <2>2 DEF EffectOnce, TypeOK
    <2> QED
      BY <2>1, <2>2, DbStep
  <1> QED
    BY <1>1, <1>2, TypeCorrect, PTL DEF Spec

-----------------------------------------------------------------------------
(* The order invariant                                                     *)

\* What a step may never take back: markers, dead letters, the log, the reset.
Grows ==
  /\ processed \subseteq processed'
  /\ dlq \subseteq dlq'
  /\ logEnd <= logEnd'
  /\ resetAt <= resetAt'

\* SettledBelow(x) in the next state, x itself being read in this one.
SettledNext(x) == \A o \in Offsets : resetAt' <= o /\ o < x => o \in Settled'

\* A place with nothing unsettled behind it stays such a place.
LEMMA SettledStable ==
  ASSUME TypeOK, TypeOK', Grows
  PROVE  \A x \in Int : SettledBelow(x) => SettledNext(x)
  <1> SUFFICES ASSUME NEW x \in Int, SettledBelow(x),
                      NEW o \in Offsets, resetAt' <= o, o < x
               PROVE  o \in Settled'
    BY DEF SettledNext
  <1>1. resetAt <= o
    BY DEF Grows, TypeOK, Offsets, NoOffset
  <1> QED
    BY <1>1 DEF SettledBelow, Settled, Grows

\* A member that does not move keeps its part of the invariant.
LEMMA BystanderKeepsOrder ==
  ASSUME TypeOK, TypeOK', Grows,
         NEW n \in Members, MemberKeepsOrder(n),
         pc'[n] = pc[n], current'[n] = current[n],
         batchEnd'[n] = batchEnd[n], position'[n] = position[n],
         n \in assigned' => n \in assigned
  PROVE  MemberKeepsOrder(n)'
  <1>1. /\ current[n] \in Int /\ position[n] \in Int /\ batchEnd[n] \in Int
        /\ logEnd \in Int /\ logEnd' \in Int
    BY DEF TypeOK, Offsets
  <1>2. SettledBelow(current[n]) => SettledNext(current'[n])
    BY <1>1, SettledStable
  <1>3. SettledBelow(position[n]) => SettledNext(position'[n])
    BY <1>1, SettledStable
  <1>4. batchEnd[n] <= logEnd => batchEnd'[n] <= logEnd'
    BY <1>1 DEF Grows
  <1> QED
    BY <1>2, <1>3, <1>4
    DEF MemberKeepsOrder, InBatch, SettledBelow, SettledNext, Settled, Grows

\* Settling the record in hand moves the safe place one record further.
LEMMA SettleCurrent ==
  ASSUME TypeOK, TypeOK', Grows, NEW m \in Members,
         SettledBelow(current[m]), current[m] \in Settled'
  PROVE  SettledNext(current[m] + 1)
  <1>1. current[m] \in Int
    BY DEF TypeOK, Offsets
  <1>2. SettledNext(current[m])
    BY <1>1, SettledStable
  <1> SUFFICES ASSUME NEW o \in Offsets, resetAt' <= o, o < current[m] + 1
               PROVE  o \in Settled'
    BY DEF SettledNext
  <1>3. CASE o < current[m]
    BY <1>2, <1>3 DEF SettledNext
  <1>4. CASE ~(o < current[m])
    <2>1. o = current[m]
      BY <1>1, <1>4 DEF Offsets
    <2> QED
      BY <2>1
  <1> QED
    BY <1>3, <1>4

\* A member that moves on inside the handling of its record.
LEMMA StayOnRecord ==
  ASSUME TypeOK, TypeOK', Grows,
         NEW m \in Members, MemberKeepsOrder(m), InBatch(m),
         pc'[m] \in {"check", "handle", "store", "commit", "dlq", "dlqCommit"},
         pc'[m] = "commit" => current[m] \in processed',
         pc'[m] = "dlqCommit" => current[m] \in dlq',
         UNCHANGED <<position, current, batchEnd>>
  PROVE  MemberKeepsOrder(m)'
  <1>1. /\ current[m] \in Int /\ position[m] \in Int /\ batchEnd[m] \in Int
        /\ logEnd \in Int /\ logEnd' \in Int
    BY DEF TypeOK, Offsets
  <1>2. SettledNext(current[m])
    BY <1>1, SettledStable DEF MemberKeepsOrder
  <1>3. SettledBelow(position[m]) => SettledNext(position[m])
    BY <1>1, SettledStable
  <1>4. batchEnd'[m] <= logEnd'
    BY <1>1 DEF MemberKeepsOrder, Grows
  <1> QED
    BY <1>2, <1>3, <1>4
    DEF MemberKeepsOrder, InBatch, SettledBelow, SettledNext

\* A member that is done with its record.
LEMMA RecordDoneKeepsOrder ==
  ASSUME TypeOK, TypeOK', Grows,
         NEW m \in Members, MemberKeepsOrder(m),
         pc[m] \in {"commit", "dlqCommit"}, RecordDone(m)
  PROVE  MemberKeepsOrder(m)'
  <1>1. /\ current[m] \in Int /\ position[m] \in Int /\ batchEnd[m] \in Int
        /\ logEnd \in Int /\ logEnd' \in Int
    BY DEF TypeOK, Offsets
  <1>2. InBatch(m) /\ current[m] \in Settled /\ current[m] \in Settled'
    BY DEF MemberKeepsOrder, InBatch, Settled, Grows
  <1>3. SettledNext(current[m]) /\ SettledNext(current[m] + 1)
    BY <1>1, <1>2, SettledStable, SettleCurrent DEF MemberKeepsOrder
  <1>4. SettledBelow(position[m]) => SettledNext(position[m])
    BY <1>1, SettledStable
  <1>5. current[m] < batchEnd[m] /\ batchEnd[m] <= logEnd'
    BY <1>1, <1>2 DEF MemberKeepsOrder, Grows
  <1>6. position[m] = batchEnd[m] \/ SettledNext(position[m])
    BY <1>2, <1>4 DEF MemberKeepsOrder
  <1>7. UNCHANGED <<position, batchEnd>>
    BY DEF RecordDone
  <1>8. CASE current[m] + 1 < batchEnd[m]
    <2>1. pc'[m] = "check" /\ current'[m] = current[m] + 1
      BY <1>8 DEF RecordDone, Goto, TypeOK
    <2> QED
      BY <1>3, <1>5, <1>6, <1>7, <1>8, <2>1
      DEF MemberKeepsOrder, InBatch, SettledBelow, SettledNext
  <1>9. CASE ~(current[m] + 1 < batchEnd[m])
    <2>1. pc'[m] = "lag" /\ current'[m] = current[m]
      BY <1>9 DEF RecordDone, Goto, TypeOK
    <2>2. current[m] + 1 = batchEnd[m]
      BY <1>1, <1>5, <1>9
    <2> QED
      BY <1>2, <1>3, <1>5, <1>6, <1>7, <2>1, <2>2
      DEF MemberKeepsOrder, InBatch, SettledBelow, SettledNext
  <1> QED
    BY <1>8, <1>9

\* What _commit may leave behind, whether it returns or raises, is a safe place.
LEMMA CommitSafe ==
  ASSUME TypeOK, TypeOK', Grows, OrderInv, NEW m \in Members,
         pc[m] \in {"commit", "dlqCommit"},
         CommitReturns(m) \/ CommitRaises(m)
  PROVE  SettledNext(committed') /\ committed' <= logEnd'
  <1>1. /\ current[m] \in Int /\ committed \in Int /\ batchEnd[m] \in Int
        /\ logEnd \in Int /\ logEnd' \in Int
    BY DEF TypeOK, Offsets, NoOffset
  <1>2. committed' \in {committed, current[m] + 1}
    BY DEF CommitReturns, CommitRaises
  <1>3. SettledNext(committed) /\ committed <= logEnd'
    BY <1>1, SettledStable DEF OrderInv, NoSilentSkip, Grows
  <1>4. MemberKeepsOrder(m) /\ InBatch(m)
    BY DEF OrderInv, InBatch
  <1>5. current[m] \in Settled'
    BY <1>4 DEF MemberKeepsOrder, Settled, Grows
  <1>6. SettledNext(current[m] + 1)
    BY <1>4, <1>5, SettleCurrent DEF MemberKeepsOrder
  <1>7. current[m] + 1 <= logEnd'
    BY <1>1, <1>4 DEF MemberKeepsOrder, Grows
  <1> QED
    BY <1>2, <1>3, <1>6, <1>7

\* The log, the markers and the dead letters only grow; a reset only goes up.
LEMMA StepGrows ==
  ASSUME TypeOK, OrderInv, [Next]_vars
  PROVE  Grows
  <1> USE DEF kafkaVars, dbVars, worldVars
  <1>1. /\ logEnd \in Int /\ resetAt \in Int /\ resetAt <= logEnd
    BY DEF TypeOK, OrderInv, NoOffset
  <1>2. processed \subseteq processed'
    BY DbStep
  <1>3. CASE UNCHANGED vars
    BY <1>1, <1>3 DEF vars, Grows
  <1>4. CASE Publish
    BY <1>1, <1>4 DEF Publish, Grows
  <1>5. ASSUME NEW m \in Members, Assign(m)
        PROVE  Grows
    BY <1>1, <1>5 DEF Assign, Grows
  <1>6. ASSUME NEW m \in Members,
               \/ LearnRevoked(m) \/ Start(m) \/ Poll(m)
               \/ CheckProcessed(m) \/ CheckFails(m)
               \/ HandlerSucceeds(m) \/ HandlerFails(m)
               \/ StoreSucceeds(m) \/ StoreConflicts(m) \/ StoreFails(m)
               \/ ParkInDlq(m) \/ LagUpdated(m) \/ Crash(m)
        PROVE  Grows
    BY <1>1, <1>2, <1>6 DEF LearnRevoked, Start, Poll, CheckProcessed, CheckFails,
         HandlerSucceeds, HandlerFails, StoreSucceeds, StoreConflicts, StoreFails,
         ParkInDlq, LagUpdated, Crash, Grows
  <1>7. ASSUME NEW m \in Members,
               \/ CommitSucceeds(m) \/ CommitFails(m)
               \/ DlqCommitSucceeds(m) \/ DlqCommitFails(m)
        PROVE  Grows
    BY <1>1, <1>7 DEF CommitSucceeds, CommitFails, DlqCommitSucceeds,
         DlqCommitFails, Grows
  <1>8. ASSUME NEW m \in Members,
               DeserializeFails(m) \/ LagRaises(m) \/ Cancel(m) \/ ParkFails(m)
        PROVE  Grows
    <2>1. Dies(m)
      BY <1>8 DEF DeserializeFails, LagRaises, Cancel, ParkFails
    <2> QED
      BY <1>1, <1>8, <2>1 DEF Dies, DeserializeFails, LagRaises, Cancel, ParkFails, Grows
  <1> QED
    BY <1>3, <1>4, <1>5, <1>6, <1>7, <1>8 DEF Next

\* One member moves; the invariant follows from its part and the bookmark's.
LEMMA Assemble ==
  ASSUME TypeOK, TypeOK', Grows, OrderInv, NEW m \in Members,
         MemberKeepsOrder(m)',
         SettledNext(committed'), committed' <= logEnd', resetAt' <= logEnd',
         \A n \in Members \ {m} :
           /\ pc'[n] = pc[n] /\ current'[n] = current[n]
           /\ batchEnd'[n] = batchEnd[n] /\ position'[n] = position[n]
           /\ n \in assigned' => n \in assigned
  PROVE  OrderInv'
  <1>1. \A n \in Members : MemberKeepsOrder(n)'
    <2> SUFFICES ASSUME NEW n \in Members \ {m}
                 PROVE  MemberKeepsOrder(n)'
      OBVIOUS
    <2> QED
      BY BystanderKeepsOrder DEF OrderInv
  <1>2. NoSilentSkip'
    BY DEF NoSilentSkip, SettledBelow, SettledNext
  <1> QED
    BY <1>1, <1>2 DEF OrderInv

LEMMA InitOrdered == Init => OrderInv
  BY DEF Init, OrderInv, NoSilentSkip, MemberKeepsOrder, SettledBelow, InBatch,
         Offsets, NoOffset

LEMMA StepOrdered ==
  ASSUME TypeOK, TypeOK', OrderInv, [Next]_vars
  PROVE  OrderInv'
  <1> USE DEF kafkaVars, dbVars, worldVars, cursorVars, budgetVars
  <1>1. Grows
    BY StepGrows
  <1>2. /\ committed \in Int /\ resetAt \in Int /\ logEnd \in Int /\ logEnd' \in Int
        /\ resetAt <= logEnd /\ committed <= logEnd /\ logEnd <= logEnd'
    BY <1>1 DEF TypeOK, NoOffset, OrderInv, Grows
  <1>3. SettledNext(committed) /\ committed <= logEnd' /\ resetAt <= logEnd'
    BY <1>1, <1>2, SettledStable DEF OrderInv, NoSilentSkip
  <1>4. \A m \in Members : MemberKeepsOrder(m)
    BY DEF OrderInv
  <1>5. CASE UNCHANGED vars
    BY <1>5 DEF vars, OrderInv, NoSilentSkip, MemberKeepsOrder, InBatch,
                SettledBelow, Settled
  <1>6. CASE Publish
    <2>1. \A m \in Members : MemberKeepsOrder(m)'
      BY <1>1, <1>4, <1>6, BystanderKeepsOrder DEF Publish
    <2> QED
      BY <1>3, <1>6, <2>1 DEF Publish, OrderInv, NoSilentSkip, SettledBelow, SettledNext
  <1>7. ASSUME NEW m \in Members, Assign(m)
        PROVE  OrderInv'
    <2>1. SettledNext(position'[m])
      <3>1. CASE committed = NoOffset
        BY <1>2, <1>7, <3>1 DEF Assign, TypeOK, SettledNext, Offsets
      <3>2. CASE committed # NoOffset
        BY <1>3, <1>7, <3>2 DEF Assign, TypeOK
      <3> QED
        BY <3>1, <3>2
    <2>2. current[m] \in Int /\ batchEnd[m] \in Int
      BY DEF TypeOK, Offsets
    <2>3. InBatch(m) => SettledNext(current[m])
      BY <1>1, <1>4, <2>2, SettledStable DEF MemberKeepsOrder
    <2>4. UNCHANGED <<logEnd, committed, dbVars, dlq, pc, current, batchEnd>>
      BY <1>7 DEF Assign
    <2>5. MemberKeepsOrder(m)'
      <3>1. pc[m] # "down"
        BY <1>7 DEF Assign
      <3>2. InBatch(m)' = InBatch(m)
        BY <2>4 DEF InBatch
      <3> QED
        BY <1>4, <2>1, <2>3, <2>4, <3>1, <3>2
        DEF MemberKeepsOrder, Settled, SettledBelow, SettledNext
    <2>6. resetAt' <= logEnd'
      BY <1>2, <1>7 DEF Assign
    <2>7. \A n \in Members \ {m} :
            position'[n] = position[n] /\ (n \in assigned' => n \in assigned)
      BY <1>7 DEF Assign, TypeOK
    <2> QED
      BY <1>1, <1>3, <2>4, <2>5, <2>6, <2>7, Assemble
  <1>8. ASSUME NEW m \in Members, LearnRevoked(m)
        PROVE  OrderInv'
    <2>1. \A n \in Members : MemberKeepsOrder(n)'
      BY <1>1, <1>4, <1>8, BystanderKeepsOrder DEF LearnRevoked
    <2> QED
      BY <1>3, <1>8, <2>1
      DEF LearnRevoked, OrderInv, NoSilentSkip, SettledBelow, SettledNext
  <1>9. ASSUME NEW m \in Members, Start(m) \/ LagUpdated(m)
        PROVE  OrderInv'
    <2>1. /\ pc' = [pc EXCEPT ![m] = "idle"]
          /\ UNCHANGED <<kafkaVars, dlq, dbVars, assigned, cursorVars>>
      BY <1>9 DEF Start, LagUpdated, Goto
    <2>2. pc'[m] = "idle"
      BY <2>1 DEF TypeOK
    <2>3. m \in assigned => SettledNext(position[m])
      <3>1. CASE Start(m)
        BY <1>4, <3>1 DEF Start, MemberKeepsOrder
      <3>2. CASE LagUpdated(m)
        <4>1. /\ position[m] \in Int /\ current[m] \in Int /\ InBatch(m)
              /\ current[m] \in Settled' /\ current[m] + 1 = batchEnd[m]
          BY <1>1, <1>4, <3>2
          DEF LagUpdated, MemberKeepsOrder, InBatch, Settled, Grows, TypeOK, Offsets
        <4>2. SettledBelow(position[m]) => SettledNext(position[m])
          BY <1>1, <4>1, SettledStable
        <4>3. SettledNext(batchEnd[m])
          BY <1>1, <1>4, <4>1, SettleCurrent DEF MemberKeepsOrder
        <4> QED
          BY <1>4, <4>1, <4>2, <4>3 DEF MemberKeepsOrder
      <3> QED
        BY <1>9, <3>1, <3>2
    <2>4. MemberKeepsOrder(m)'
      BY <2>1, <2>2, <2>3 DEF MemberKeepsOrder, InBatch, SettledBelow, SettledNext
    <2>5. \A n \in Members \ {m} : pc'[n] = pc[n]
      BY <2>1 DEF TypeOK
    <2> QED
      BY <1>1, <1>3, <2>1, <2>4, <2>5, Assemble
  <1>10. ASSUME NEW m \in Members, Poll(m)
         PROVE  OrderInv'
    <2>1. PICK end \in 1 .. logEnd :
            /\ position[m] < end
            /\ batchEnd' = [batchEnd EXCEPT ![m] = end]
            /\ position' = [position EXCEPT ![m] = end]
      BY <1>10 DEF Poll
    <2>2. /\ pc' = [pc EXCEPT ![m] = "check"]
          /\ current' = [current EXCEPT ![m] = position[m]]
          /\ UNCHANGED <<kafkaVars, dlq, dbVars, assigned>>
      BY <1>10 DEF Poll, Goto
    <2>3. /\ pc'[m] = "check" /\ current'[m] = position[m]
          /\ batchEnd'[m] = end /\ position'[m] = end
      BY <2>1, <2>2 DEF TypeOK
    <2>4. position[m] \in Int /\ SettledBelow(position[m])
      BY <1>4, <1>10 DEF Poll, MemberKeepsOrder, TypeOK
    <2>5. SettledNext(position[m])
      BY <1>1, <2>4, SettledStable
    <2>6. MemberKeepsOrder(m)'
      BY <2>1, <2>2, <2>3, <2>5 DEF MemberKeepsOrder, InBatch, SettledBelow, SettledNext
    <2>7. \A n \in Members \ {m} :
            /\ pc'[n] = pc[n] /\ current'[n] = current[n]
            /\ batchEnd'[n] = batchEnd[n] /\ position'[n] = position[n]
      BY <2>1, <2>2 DEF TypeOK
    <2> QED
      BY <1>1, <1>3, <2>2, <2>6, <2>7, Assemble
  <1>11. ASSUME NEW m \in Members,
                \/ CheckProcessed(m) \/ CheckFails(m)
                \/ HandlerSucceeds(m) \/ HandlerFails(m)
                \/ StoreSucceeds(m) \/ StoreConflicts(m) \/ StoreFails(m)
                \/ ParkInDlq(m)
         PROVE  OrderInv'
    <2>1. /\ InBatch(m)
          /\ UNCHANGED <<kafkaVars, assigned, position, current, batchEnd>>
      BY <1>11 DEF CheckProcessed, CheckFails, HandlerSucceeds, HandlerFails,
           StoreSucceeds, StoreConflicts, StoreFails, ParkInDlq, AttemptFails, InBatch
    <2>2. /\ \/ pc' = [pc EXCEPT ![m] = "commit"] /\ current[m] \in processed'
             \/ pc' = [pc EXCEPT ![m] = "dlqCommit"] /\ current[m] \in dlq'
             \/ pc' = [pc EXCEPT ![m] = "check"]
             \/ pc' = [pc EXCEPT ![m] = "handle"]
             \/ pc' = [pc EXCEPT ![m] = "store"]
             \/ pc' = [pc EXCEPT ![m] = "dlq"]
      BY <1>11 DEF CheckProcessed, CheckFails, HandlerSucceeds, HandlerFails,
           StoreSucceeds, StoreConflicts, StoreFails, ParkInDlq, AttemptFails, Goto
    <2>3. /\ pc'[m] \in {"check", "handle", "store", "commit", "dlq", "dlqCommit"}
          /\ pc'[m] = "commit" => current[m] \in processed'
          /\ pc'[m] = "dlqCommit" => current[m] \in dlq'
          /\ \A n \in Members \ {m} : pc'[n] = pc[n]
      BY <2>2 DEF TypeOK
    <2>4. MemberKeepsOrder(m)'
      BY <1>1, <1>4, <2>1, <2>3, StayOnRecord
    <2> QED
      BY <1>1, <1>3, <2>1, <2>3, <2>4, Assemble
  <1>12. ASSUME NEW m \in Members, CommitSucceeds(m) \/ DlqCommitSucceeds(m)
         PROVE  OrderInv'
    <2>1. /\ pc[m] \in {"commit", "dlqCommit"} /\ CommitReturns(m) /\ RecordDone(m)
          /\ UNCHANGED <<logEnd, resetAt, assigned, position, batchEnd>>
      BY <1>12 DEF CommitSucceeds, DlqCommitSucceeds, RecordDone
    <2>2. MemberKeepsOrder(m)'
      BY <1>1, <1>4, <2>1, RecordDoneKeepsOrder
    <2>3. SettledNext(committed') /\ committed' <= logEnd'
      BY <1>1, <2>1, CommitSafe
    <2>4. \A n \in Members \ {m} : pc'[n] = pc[n] /\ current'[n] = current[n]
      BY <2>1 DEF RecordDone, Goto, TypeOK
    <2> QED
      BY <1>1, <1>3, <2>1, <2>2, <2>3, <2>4, Assemble
  <1>13. ASSUME NEW m \in Members, CommitFails(m)
         PROVE  OrderInv'
    <2>1. /\ pc[m] = "commit" /\ CommitRaises(m) /\ AttemptFails(m)
          /\ UNCHANGED <<logEnd, resetAt, assigned, position, current, batchEnd>>
      BY <1>13 DEF CommitFails, AttemptFails
    <2>2. /\ pc'[m] \in {"check", "dlq"}
          /\ \A n \in Members \ {m} : pc'[n] = pc[n]
      BY <2>1 DEF AttemptFails, Goto, TypeOK
    <2>3. MemberKeepsOrder(m)'
      BY <1>1, <1>4, <2>1, <2>2, StayOnRecord DEF InBatch
    <2>4. SettledNext(committed') /\ committed' <= logEnd'
      BY <1>1, <2>1, CommitSafe
    <2> QED
      BY <1>1, <1>3, <2>1, <2>2, <2>3, <2>4, Assemble
  <1>14. ASSUME NEW m \in Members,
                \/ DeserializeFails(m) \/ ParkFails(m) \/ DlqCommitFails(m)
                \/ LagRaises(m) \/ Crash(m) \/ Cancel(m)
         PROVE  OrderInv'
    <2>1. /\ pc' = [pc EXCEPT ![m] = "down"] /\ assigned' = assigned \ {m}
          /\ UNCHANGED <<logEnd, resetAt, cursorVars>>
      BY <1>14 DEF DeserializeFails, ParkFails, DlqCommitFails, LagRaises, Crash,
           Cancel, Dies, Goto
    <2>2. SettledNext(committed') /\ committed' <= logEnd'
      <3>1. CASE DlqCommitFails(m)
        BY <1>1, <3>1, CommitSafe DEF DlqCommitFails
      <3>2. CASE ~DlqCommitFails(m)
        BY <1>3, <1>14, <3>2 DEF DeserializeFails, ParkFails, LagRaises, Crash,
             Cancel, Dies
      <3> QED
        BY <3>1, <3>2
    <2>3. pc'[m] = "down" /\ \A n \in Members \ {m} : pc'[n] = pc[n]
      BY <2>1 DEF TypeOK
    <2>4. MemberKeepsOrder(m)'
      BY <2>1, <2>3 DEF MemberKeepsOrder, InBatch
    <2> QED
      BY <1>1, <1>3, <2>1, <2>2, <2>3, <2>4, Assemble
  <1> QED
    BY <1>5, <1>6, <1>7, <1>8, <1>9, <1>10, <1>11, <1>12, <1>13, <1>14 DEF Next

\* Whatever the members do, every member and the group's bookmark have only
\* settled records behind them.
THEOREM OrderInvariant == Spec => []OrderInv
  <1>1. TypeOK /\ TypeOK' /\ OrderInv /\ [Next]_vars => OrderInv'
    BY StepOrdered
  <1> QED
    BY <1>1, InitOrdered, TypeCorrect, PTL DEF Spec

\* The committed offset never passes a record that is neither applied nor in
\* the dead-letter topic.
THEOREM NeverSkipsSilently == Spec => []NoSilentSkip
  <1>1. OrderInv => NoSilentSkip
    BY DEF OrderInv
  <1> QED
    BY <1>1, OrderInvariant, PTL
-----------------------------------------------------------------------------
(* The refinement                                                          *)

LEMMA InitImplements == Init => Ledger!LedgerInit
  BY DEF Init, Ledger!LedgerInit, NoOffset, Ledger!NoBookmark

LEMMA StepImplements ==
  ASSUME TypeOK, OrderInv, [Next]_vars
  PROVE  [Ledger!LedgerNext]_(Ledger!ledgerVars)
  <1> USE DEF kafkaVars, dbVars, worldVars, Ledger!ledgerVars
  <1>1. \A m \in Members : InBatch(m) =>
          /\ current[m] \in Offsets /\ current[m] < logEnd
          /\ SettledBelow(current[m])
    BY DEF OrderInv, MemberKeepsOrder, TypeOK, Offsets
  <1>2. \A x : SettledBelow(x) <=> Ledger!SettledBelow(x)
    BY DEF SettledBelow, Settled, Offsets, Ledger!SettledBelow, Ledger!Settled,
           Ledger!LedgerOffsets
  <1>3. Offsets = Ledger!LedgerOffsets
    BY DEF Offsets, Ledger!LedgerOffsets
  <1>4. CASE UNCHANGED <<logEnd, committed, resetAt, processed, dlq>>
    BY <1>4
  <1>5. CASE Publish
    <2>1. Ledger!Append
      BY <1>5 DEF Publish, Ledger!Append
    <2> QED
      BY <2>1 DEF Ledger!LedgerNext
  <1>6. ASSUME NEW m \in Members, Assign(m)
        PROVE  [Ledger!LedgerNext]_(Ledger!ledgerVars)
    <2>1. CASE committed = NoOffset
      <3>1. Ledger!Skip
        BY <1>6, <2>1 DEF Assign, Ledger!Skip, NoOffset, Ledger!NoBookmark
      <3> QED
        BY <3>1 DEF Ledger!LedgerNext
    <2>2. CASE committed # NoOffset
      BY <1>6, <2>2 DEF Assign
    <2> QED
      BY <2>1, <2>2
  <1>7. ASSUME NEW m \in Members, StoreSucceeds(m) \/ StoreFails(m), processed' # processed
        PROVE  Ledger!LedgerNext
    <2>1. /\ InBatch(m) /\ current[m] \notin processed
          /\ processed' = processed \cup {current[m]}
          /\ UNCHANGED <<logEnd, committed, resetAt, dlq>>
      BY <1>7 DEF StoreSucceeds, StoreFails, InBatch
    <2>2. Ledger!Apply(current[m])
      BY <1>1, <1>2, <2>1 DEF Ledger!Apply
    <2> QED
      BY <1>1, <1>3, <2>1, <2>2 DEF Ledger!LedgerNext
  <1>8. ASSUME NEW m \in Members, ParkInDlq(m) \/ ParkFails(m), dlq' # dlq
        PROVE  Ledger!LedgerNext
    <2>1. /\ InBatch(m) /\ dlq' = dlq \cup {current[m]}
          /\ UNCHANGED <<logEnd, committed, resetAt, processed>>
      BY <1>8 DEF ParkInDlq, ParkFails, Dies, InBatch
    <2>2. Ledger!Park(current[m])
      BY <1>1, <1>2, <2>1 DEF Ledger!Park
    <2> QED
      BY <1>1, <1>3, <2>1, <2>2 DEF Ledger!LedgerNext
  <1>9. ASSUME NEW m \in Members, committed' # committed,
               \/ CommitSucceeds(m) \/ CommitFails(m)
               \/ DlqCommitSucceeds(m) \/ DlqCommitFails(m)
        PROVE  Ledger!LedgerNext
    <2>1. /\ pc[m] \in {"commit", "dlqCommit"} /\ committed' = current[m] + 1
          /\ UNCHANGED <<logEnd, resetAt, processed, dlq>>
      BY <1>9 DEF CommitSucceeds, CommitFails, DlqCommitSucceeds, DlqCommitFails,
           CommitReturns, CommitRaises
    <2>2. /\ InBatch(m) /\ current[m] \in Settled
      BY <2>1 DEF InBatch, OrderInv, MemberKeepsOrder, Settled
    <2>3. /\ current[m] \in Int /\ current[m] + 1 \in 1 .. MaxEvents
          /\ current[m] + 1 <= logEnd
      <3>1. current[m] \in 0 .. MaxEvents - 1 /\ current[m] < logEnd
        BY <1>1, <2>2 DEF Offsets
      <3>2. logEnd \in Int
        BY DEF TypeOK
      <3> QED
        BY <3>1, <3>2
    <2>4. SettledBelow(current[m] + 1)
      <3> SUFFICES ASSUME NEW o \in Offsets, resetAt <= o, o < current[m] + 1
                   PROVE  o \in Settled
        BY DEF SettledBelow
      <3>1. o < current[m] \/ o = current[m]
        BY <2>3 DEF Offsets
      <3> QED
        BY <1>1, <2>2, <3>1 DEF SettledBelow
    <2>5. Ledger!MoveBookmark(current[m] + 1)
      BY <1>2, <2>1, <2>3, <2>4 DEF Ledger!MoveBookmark
    <2> QED
      BY <2>3, <2>5 DEF Ledger!LedgerNext
  <1>10. ASSUME NEW m \in Members,
                \/ LearnRevoked(m) \/ Start(m) \/ Poll(m) \/ DeserializeFails(m)
                \/ CheckProcessed(m) \/ CheckFails(m)
                \/ HandlerSucceeds(m) \/ HandlerFails(m) \/ StoreConflicts(m)
                \/ LagUpdated(m) \/ LagRaises(m) \/ Crash(m) \/ Cancel(m)
         PROVE  UNCHANGED <<logEnd, committed, resetAt, processed, dlq>>
    BY <1>10 DEF LearnRevoked, Start, Poll, DeserializeFails, CheckProcessed,
         CheckFails, HandlerSucceeds, HandlerFails, StoreConflicts, LagUpdated,
         LagRaises, Crash, Cancel, Dies
  <1>11. ASSUME NEW m \in Members,
                \/ StoreSucceeds(m) /\ processed' = processed
                \/ StoreFails(m) /\ processed' = processed
                \/ ParkInDlq(m) /\ dlq' = dlq
                \/ ParkFails(m) /\ dlq' = dlq
                \/ CommitSucceeds(m) /\ committed' = committed
                \/ CommitFails(m) /\ committed' = committed
                \/ DlqCommitSucceeds(m) /\ committed' = committed
                \/ DlqCommitFails(m) /\ committed' = committed
         PROVE  UNCHANGED <<logEnd, committed, resetAt, processed, dlq>>
    BY <1>11 DEF StoreSucceeds, StoreFails, ParkInDlq, ParkFails, CommitSucceeds,
         CommitFails, DlqCommitSucceeds, DlqCommitFails, Dies
  <1>12. CASE UNCHANGED vars
    BY <1>4, <1>12 DEF vars
  <1> QED
    BY <1>4, <1>5, <1>6, <1>7, <1>8, <1>9, <1>10, <1>11, <1>12 DEF Next

\* The consumer loop implements the ledger: records are applied at most once,
\* settled in offset order, and the bookmark stays behind what is settled.
THEOREM Implementation == Spec => ImplementsLedger
  <1>1. TypeOK /\ OrderInv /\ [Next]_vars => [Ledger!LedgerNext]_(Ledger!ledgerVars)
    BY StepImplements
  <1> QED
    BY <1>1, InitImplements, TypeCorrect, OrderInvariant, PTL
    DEF Spec, ImplementsLedger, Ledger!LedgerSpec

-----------------------------------------------------------------------------
(* What the ledger promises                                                *)

\* Behind the last skip, whatever has been applied or parked has everything before it
\* applied or parked, and so has the bookmark.
LedgerOrder ==
  /\ Ledger!SettledBelow(committed)
  /\ \A o \in Ledger!Settled : Ledger!SettledBelow(o)

LedgerInv ==
  /\ LedgerOrder
  /\ logEnd \in Nat /\ resetAt \in Int /\ resetAt <= logEnd

\* What is settled stays so, and the floor only rises.
LEMMA LedgerSettledStable ==
  ASSUME LedgerInv, Ledger!LedgerNext, NEW x, Ledger!SettledBelow(x)
  PROVE  Ledger!SettledBelow(x)'
  <1> USE DEF Ledger!SettledBelow, Ledger!Settled, Ledger!LedgerOffsets
  <1>1. processed \subseteq processed' /\ dlq \subseteq dlq'
    BY DEF Ledger!LedgerNext, Ledger!Append, Ledger!Apply, Ledger!Park, Ledger!MoveBookmark,
           Ledger!Skip
  <1>2. resetAt' = resetAt \/ resetAt' = logEnd
    BY DEF Ledger!LedgerNext, Ledger!Append, Ledger!Apply, Ledger!Park, Ledger!MoveBookmark,
           Ledger!Skip
  <1>3. \A o \in 0 .. MaxEvents - 1 : resetAt' <= o => resetAt <= o
    BY <1>2 DEF LedgerInv
  <1> QED
    BY <1>1, <1>3

LEMMA LedgerStep ==
  ASSUME LedgerInv, Ledger!LedgerNext
  PROVE  LedgerInv'
  <1> USE DEF LedgerInv, LedgerOrder
  <1>1. CASE Ledger!Append
    <2>1. UNCHANGED <<committed, resetAt, processed, dlq>> /\ logEnd' = logEnd + 1
      BY <1>1 DEF Ledger!Append
    <2> QED
      BY <2>1, LedgerSettledStable DEF Ledger!Settled
  <1>2. ASSUME NEW o \in Ledger!LedgerOffsets, Ledger!Apply(o) \/ Ledger!Park(o)
        PROVE  LedgerInv'
    <2>1. /\ UNCHANGED <<logEnd, committed, resetAt>> /\ Ledger!SettledBelow(o)
          /\ Ledger!Settled' = Ledger!Settled \cup {o}
      BY <1>2 DEF Ledger!Apply, Ledger!Park, Ledger!Settled
    <2> QED
      BY <2>1, LedgerSettledStable
  <1>3. ASSUME NEW x \in 1 .. MaxEvents, Ledger!MoveBookmark(x)
        PROVE  LedgerInv'
    <2>1. /\ UNCHANGED <<logEnd, resetAt, processed, dlq>> /\ Ledger!SettledBelow(x)
          /\ committed' = x
      BY <1>3 DEF Ledger!MoveBookmark
    <2> QED
      BY <2>1, LedgerSettledStable DEF Ledger!Settled
  <1>4. CASE Ledger!Skip
    <2>1. UNCHANGED <<logEnd, committed, processed, dlq>> /\ resetAt' = logEnd
      BY <1>4 DEF Ledger!Skip
    <2> QED
      BY <2>1, LedgerSettledStable DEF Ledger!Settled
  <1> QED
    BY <1>1, <1>2, <1>3, <1>4 DEF Ledger!LedgerNext

\* The promise that the models of single projections build on: in a group that keeps to
\* the ledger a record is applied or parked only behind all those before it, from the
\* last adopted end of the log on, and the bookmark stands behind nothing unsettled.
THEOREM LedgerPromise == Ledger!LedgerSpec => []LedgerOrder
  <1>1. Ledger!LedgerInit => LedgerInv
    <2> SUFFICES ASSUME Ledger!LedgerInit
                 PROVE  LedgerInv
      OBVIOUS
    <2>1. Ledger!Settled = {} /\ committed = -1 /\ resetAt = -1 /\ logEnd \in 0 .. MaxEvents
      BY DEF Ledger!LedgerInit, Ledger!Settled, Ledger!NoBookmark
    <2>2. \A o \in 0 .. MaxEvents - 1 : ~(o < -1)
      OBVIOUS
    <2>3. Ledger!SettledBelow(committed)
      BY <2>1, <2>2 DEF Ledger!SettledBelow, Ledger!LedgerOffsets
    <2> QED
      BY <2>1, <2>3, GroupAssumption DEF LedgerInv, LedgerOrder
  <1>2. LedgerInv /\ [Ledger!LedgerNext]_(Ledger!ledgerVars) => LedgerInv'
    <2>1. ASSUME LedgerInv, UNCHANGED Ledger!ledgerVars
          PROVE  LedgerInv'
      BY <2>1 DEF Ledger!ledgerVars, LedgerInv, LedgerOrder, Ledger!SettledBelow, Ledger!Settled,
                  Ledger!LedgerOffsets
    <2> QED
      BY <2>1, LedgerStep
  <1>3. LedgerInv => LedgerOrder
    BY DEF LedgerInv
  <1> QED
    BY <1>1, <1>2, <1>3, PTL DEF Ledger!LedgerSpec

\* The consumer loop keeps that promise, whatever its members, rebalances and crashes
\* do (kafka.py:203-273).
THEOREM SettledInOrder == Spec => []LedgerOrder
  BY Implementation, LedgerPromise, PTL DEF ImplementsLedger

=============================================================================
