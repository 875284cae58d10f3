--------------------------- MODULE ConsumerGroup ---------------------------
(***************************************************************************)
(* The consumer loop every background role runs (BaseConsumerWorker of     *)
(* app/messaging/kafka.py), for one consumer group and one topic partition:*)
(* polling, the idempotency check, the handler, the transaction that       *)
(* stores its effects with the ProcessedEvent marker, the offset commit,   *)
(* the in-process retries, the dead-letter queue, and the group's          *)
(* rebalances, crashes and restarts around it.                             *)
(*                                                                         *)
(* A record is its offset: every producer of this code base stamps a fresh *)
(* event_id on each envelope, so event_id and offset name the same thing.  *)
(*                                                                         *)
(* Each member is a sequential coroutine; every await of the source is a   *)
(* boundary between two actions, so members interleave exactly there.      *)
(***************************************************************************)
EXTENDS Integers

CONSTANTS
  Members,          \* worker processes that run this group
  NoMember,         \* "the partition has no owner"
  MaxRetries,       \* max_retries of the constructor (3 in the code)
  MaxEvents,        \* bound: records ever published
  BatchMax,         \* max_records of getmany (100 in the code)
  Poison,           \* offsets whose handler raises on every attempt
  Malformed,        \* offsets whose bytes deserialize_event rejects
  MaxCrashes,       \* bound: kills and cancellations of a member
  MaxRebalances,    \* bound: moves of the partition away from a live member
  MaxFaults         \* bound: transient failures of the DB, Kafka or a handler

Offsets == 0 .. MaxEvents - 1
NoOffset == -1

ASSUME GroupAssumption ==
  /\ NoMember \notin Members
  /\ MaxRetries \in Nat \ {0}
  /\ MaxEvents \in Nat \ {0}
  /\ BatchMax \in Nat \ {0}
  /\ Poison \subseteq Offsets
  /\ Malformed \subseteq Offsets
  /\ MaxCrashes \in Nat
  /\ MaxRebalances \in Nat
  /\ MaxFaults \in Nat

VARIABLES
  \* --- the Kafka partition and the group coordinator
  logEnd,           \* records published; offsets 0 .. logEnd - 1 exist
  committed,        \* committed offset of the group, or NoOffset
  owner,            \* member the coordinator has assigned the partition to
  resetAt,          \* history: log end adopted by the last "latest" reset
  \* --- PostgreSQL
  processed,        \* offsets with a ProcessedEvent row of this group
  effects,          \* per offset, how often its handler's writes are committed
  \* --- the outside world
  emitted,          \* offsets whose handler has let a non-transactional effect out
  dlq,              \* offsets with an envelope in the dead-letter topic
  \* --- the members
  pc,               \* where run_forever / _process_record stands
  assigned,         \* members whose client believes it holds the partition
  position,         \* next offset getmany will fetch
  current,          \* offset of the record in hand
  batchEnd,         \* first offset after the batch in hand
  attempt,          \* the retry loop's counter
  \* --- fault budgets spent
  crashes, rebalances, faults

kafkaVars  == <<logEnd, committed, owner, resetAt>>
dbVars     == <<processed, effects>>
worldVars  == <<emitted, dlq>>
cursorVars == <<position, current, batchEnd, attempt>>
budgetVars == <<crashes, rebalances, faults>>
vars == <<kafkaVars, dbVars, worldVars, pc, assigned, cursorVars, budgetVars>>

Labels == {"down", "idle", "check", "handle", "store", "commit",
           "dlq", "dlqCommit", "lag"}

\* The member holds a record of its batch.
InBatch(m) == pc[m] \notin {"down", "idle"}

Settled == processed \cup dlq

\* Every record between the last reset and x (exclusive) has been dealt with.
SettledBelow(x) == \A o \in Offsets : resetAt <= o /\ o < x => o \in Settled

TypeOK ==
  /\ logEnd \in 0 .. MaxEvents
  /\ committed \in {NoOffset} \cup 1 .. MaxEvents
  /\ owner \in Members \cup {NoMember}
  /\ resetAt \in {NoOffset} \cup 0 .. MaxEvents
  /\ processed \subseteq Offsets
  /\ effects \in [Offsets -> Nat]
  /\ emitted \subseteq Offsets
  /\ dlq \subseteq Offsets
  /\ pc \in [Members -> Labels]
  /\ assigned \subseteq Members
  /\ position \in [Members -> 0 .. MaxEvents]
  /\ current \in [Members -> Offsets]
  /\ batchEnd \in [Members -> 0 .. MaxEvents]
  /\ attempt \in [Members -> 1 .. MaxRetries]
  /\ crashes \in 0 .. MaxCrashes
  /\ rebalances \in 0 .. MaxRebalances
  /\ faults \in 0 .. MaxFaults

\* A new group on a partition that may already hold records.
Init ==
  /\ logEnd \in 0 .. MaxEvents
  /\ committed = NoOffset
  /\ owner = NoMember
  /\ resetAt = NoOffset
  /\ processed = {}
  /\ effects = [o \in Offsets |-> 0]
  /\ emitted = {}
  /\ dlq = {}
  /\ pc = [m \in Members |-> "idle"]
  /\ assigned = {}
  /\ position = [m \in Members |-> 0]
  /\ current = [m \in Members |-> 0]
  /\ batchEnd = [m \in Members |-> 0]
  /\ attempt = [m \in Members |-> 1]
  /\ crashes = 0
  /\ rebalances = 0
  /\ faults = 0

-----------------------------------------------------------------------------
(* Building blocks                                                         *)

Goto(m, label) == pc' = [pc EXCEPT ![m] = label]

\* One transient failure is taken from the budget.
SpendFault == faults < MaxFaults /\ faults' = faults + 1 /\ UNCHANGED <<crashes, rebalances>>

\* Mutants: every failure is retried for ever; the last failure gives the record up
\* without the dead-letter topic.
AttemptFailsForever(m) == Goto(m, "check") /\ UNCHANGED <<assigned, cursorVars>>

AttemptFailsUnparked(m) ==
  /\ IF attempt[m] >= MaxRetries
       THEN Goto(m, "dlqCommit") /\ UNCHANGED attempt
       ELSE Goto(m, "check") /\ attempt' = [attempt EXCEPT ![m] = @ + 1]
  /\ UNCHANGED <<assigned, position, current, batchEnd>>

\* The `except Exception` clause: another attempt, or the dead-letter path.
AttemptFails(m) ==
  /\ IF attempt[m] >= MaxRetries
       THEN Goto(m, "dlq") /\ UNCHANGED attempt
       ELSE Goto(m, "check") /\ attempt' = [attempt EXCEPT ![m] = @ + 1]
  /\ UNCHANGED <<assigned, position, current, batchEnd>>

\* _process_record returned: the next record of the batch, or the lag update.
RecordDone(m) ==
  /\ IF current[m] + 1 < batchEnd[m]
       THEN /\ Goto(m, "check")
            /\ current' = [current EXCEPT ![m] = @ + 1]
            /\ attempt' = [attempt EXCEPT ![m] = 1]
       ELSE Goto(m, "lag") /\ UNCHANGED <<current, attempt>>
  /\ UNCHANGED <<assigned, position, batchEnd>>

\* An exception leaves run_forever: its finally clause stops the consumer,
\* which leaves the group and gives the partition back.
Dies(m) ==
  /\ Goto(m, "down")
  /\ assigned' = assigned \ {m}
  /\ owner' = IF owner = m THEN NoMember ELSE owner
  /\ UNCHANGED <<logEnd, committed, resetAt, cursorVars>>

-----------------------------------------------------------------------------
(* The producers and the group coordinator                                 *)

Publish ==
  /\ logEnd < MaxEvents
  /\ logEnd' = logEnd + 1
  /\ UNCHANGED <<committed, owner, resetAt, dbVars, worldVars, pc, assigned,
                 cursorVars, budgetVars>>

\* A rebalance gives the partition to m, whose client starts from the
\* committed offset or, with none, from the end of the log.  m may be in the
\* middle of a batch, and a previous owner may not know yet.  Only a move
\* away from a member that still holds the partition uses up the budget.
Assign(m) ==
  /\ pc[m] # "down"
  /\ IF owner \in assigned
       THEN rebalances < MaxRebalances /\ rebalances' = rebalances + 1
       ELSE UNCHANGED rebalances
  /\ owner' = m
  /\ assigned' = assigned \cup {m}
  /\ LET start == IF committed = NoOffset THEN logEnd ELSE committed IN
       position' = [position EXCEPT ![m] = start]
  /\ resetAt' = IF committed = NoOffset THEN logEnd ELSE resetAt
  /\ UNCHANGED <<logEnd, committed, dbVars, worldVars, pc, current, batchEnd,
                 attempt, crashes, faults>>

\* The old owner's client learns that the partition is no longer its own.
LearnRevoked(m) ==
  /\ m \in assigned
  /\ owner # m
  /\ assigned' = assigned \ {m}
  /\ UNCHANGED <<kafkaVars, dbVars, worldVars, pc, cursorVars, budgetVars>>

-----------------------------------------------------------------------------
(* run_forever and _process_record                                         *)

Start(m) ==
  /\ pc[m] = "down"
  /\ Goto(m, "idle")
  /\ UNCHANGED <<kafkaVars, dbVars, worldVars, assigned, cursorVars, budgetVars>>

\* getmany returns between one and BatchMax records.
Poll(m) ==
  /\ pc[m] = "idle"
  /\ m \in assigned
  /\ \E end \in 1 .. logEnd :
       /\ position[m] < end /\ end <= position[m] + BatchMax
       /\ batchEnd' = [batchEnd EXCEPT ![m] = end]
       /\ position' = [position EXCEPT ![m] = end]
  /\ current' = [current EXCEPT ![m] = position[m]]
  /\ attempt' = [attempt EXCEPT ![m] = 1]
  /\ Goto(m, "check")
  /\ UNCHANGED <<kafkaVars, dbVars, worldVars, assigned, budgetVars>>

\* deserialize_event is called outside the try block.
DeserializeFails(m) ==
  /\ pc[m] = "check"
  /\ current[m] \in Malformed
  /\ Dies(m)
  /\ UNCHANGED <<dbVars, worldVars, budgetVars>>

\* Mutant: the marker of any later record is taken for the record's own.
CheckHighWater(m) ==
  /\ pc[m] = "check"
  /\ current[m] \notin Malformed
  /\ Goto(m, IF \E o \in processed : o >= current[m] THEN "commit" ELSE "handle")
  /\ UNCHANGED <<kafkaVars, dbVars, worldVars, assigned, cursorVars, budgetVars>>

\* _is_processed; a marked event goes straight to its offset commit.
CheckProcessed(m) ==
  /\ pc[m] = "check"
  /\ current[m] \notin Malformed
  /\ Goto(m, IF current[m] \in processed THEN "commit" ELSE "handle")
  /\ UNCHANGED <<kafkaVars, dbVars, worldVars, assigned, cursorVars, budgetVars>>

\* The query of _is_processed raises.
CheckFails(m) ==
  /\ pc[m] = "check"
  /\ current[m] \notin Malformed
  /\ SpendFault
  /\ AttemptFails(m)
  /\ UNCHANGED <<kafkaVars, dbVars, worldVars>>

\* The handler returns: its writes wait in the session, what it published
\* or sent is already out.
HandlerSucceeds(m) ==
  /\ pc[m] = "handle"
  /\ current[m] \notin Poison
  /\ emitted' = emitted \cup {current[m]}
  /\ Goto(m, "store")
  /\ UNCHANGED <<kafkaVars, dbVars, dlq, assigned, cursorVars, budgetVars>>

\* The handler raises, before or after something of it got out.
HandlerFails(m) ==
  /\ pc[m] = "handle"
  /\ IF current[m] \in Poison THEN UNCHANGED budgetVars ELSE SpendFault
  /\ emitted' \in {emitted, emitted \cup {current[m]}}
  /\ AttemptFails(m)
  /\ UNCHANGED <<kafkaVars, dbVars, dlq>>

\* Mutant: no unique constraint on (consumer_group, event_id).
StoreWithoutUnique(m) ==
  /\ pc[m] = "store"
  /\ processed' = processed \cup {current[m]}
  /\ effects' = [effects EXCEPT ![current[m]] = @ + 1]
  /\ Goto(m, "commit")
  /\ UNCHANGED <<kafkaVars, worldVars, assigned, cursorVars, budgetVars>>

\* session.commit(): effects and marker in one transaction; the unique
\* constraint on (consumer_group, event_id) lets only one member win.
StoreSucceeds(m) ==
  /\ pc[m] = "store"
  /\ current[m] \notin processed
  /\ processed' = processed \cup {current[m]}
  /\ effects' = [effects EXCEPT ![current[m]] = @ + 1]
  /\ Goto(m, "commit")
  /\ UNCHANGED <<kafkaVars, worldVars, assigned, cursorVars, budgetVars>>

\* Another member stored the marker first: IntegrityError, rolled back.
StoreConflicts(m) ==
  /\ pc[m] = "store"
  /\ current[m] \in processed
  /\ AttemptFails(m)
  /\ UNCHANGED <<kafkaVars, dbVars, worldVars, budgetVars>>

\* The commit raises; the transaction is rolled back, or it went through and
\* only the answer was lost.
StoreFails(m) ==
  /\ pc[m] = "store"
  /\ SpendFault
  /\ \/ UNCHANGED dbVars
     \/ /\ current[m] \notin processed
        /\ processed' = processed \cup {current[m]}
        /\ effects' = [effects EXCEPT ![current[m]] = @ + 1]
  /\ AttemptFails(m)
  /\ UNCHANGED <<kafkaVars, worldVars>>

\* Mutant: commit() without arguments, which commits the end of the batch.
CommitPosition(m) ==
  \/ m \notin assigned /\ UNCHANGED committed
  \/ m \in assigned /\ owner = m /\ committed' = batchEnd[m]

\* What _commit can do to the committed offset without raising: nothing when
\* the client knows it lost the partition, else the broker takes the offset.
CommitReturns(m) ==
  \/ m \notin assigned /\ UNCHANGED committed
  \/ m \in assigned /\ owner = m /\ committed' = current[m] + 1

\* _commit raises: the broker fences a member of an older generation, or the
\* call fails with or without having been applied.
CommitRaises(m) ==
  /\ m \in assigned
  /\ \/ owner # m /\ UNCHANGED <<committed, budgetVars>>
     \/ /\ owner = m
        /\ SpendFault
        /\ committed' \in {committed, current[m] + 1}

\* The offset commit after the transaction, or after an idempotent skip.
CommitSucceeds(m) ==
  /\ pc[m] = "commit"
  /\ CommitReturns(m)
  /\ RecordDone(m)
  /\ UNCHANGED <<logEnd, owner, resetAt, dbVars, worldVars, budgetVars>>

\* It is inside the try block too: its failure is one more failed attempt.
CommitFails(m) ==
  /\ pc[m] = "commit"
  /\ CommitRaises(m)
  /\ AttemptFails(m)
  /\ UNCHANGED <<logEnd, owner, resetAt, dbVars, worldVars>>

ParkInDlq(m) ==
  /\ pc[m] = "dlq"
  /\ dlq' = dlq \cup {current[m]}
  /\ Goto(m, "dlqCommit")
  /\ UNCHANGED <<kafkaVars, dbVars, emitted, assigned, cursorVars, budgetVars>>

\* Nothing catches a failure of _publish_dlq: the worker dies, the envelope
\* may have reached the broker all the same.
ParkFails(m) ==
  /\ pc[m] = "dlq"
  /\ SpendFault
  /\ dlq' \in {dlq, dlq \cup {current[m]}}
  /\ Dies(m)
  /\ UNCHANGED <<dbVars, emitted>>

DlqCommitSucceeds(m) ==
  /\ pc[m] = "dlqCommit"
  /\ CommitReturns(m)
  /\ RecordDone(m)
  /\ UNCHANGED <<logEnd, owner, resetAt, dbVars, worldVars, budgetVars>>

\* Nor does anything catch a failed commit on the dead-letter path.
DlqCommitFails(m) ==
  /\ pc[m] = "dlqCommit"
  /\ CommitRaises(m)
  /\ Goto(m, "down")
  /\ assigned' = assigned \ {m}
  /\ owner' = IF owner = m THEN NoMember ELSE owner
  /\ UNCHANGED <<logEnd, resetAt, dbVars, worldVars, cursorVars>>

\* highwater() and position() after the batch: they raise when the client
\* no longer holds the partition.
LagUpdated(m) ==
  /\ pc[m] = "lag"
  /\ m \in assigned
  /\ Goto(m, "idle")
  /\ UNCHANGED <<kafkaVars, dbVars, worldVars, assigned, cursorVars, budgetVars>>

LagRaises(m) ==
  /\ pc[m] = "lag"
  /\ m \notin assigned
  /\ Dies(m)
  /\ UNCHANGED <<dbVars, worldVars, budgetVars>>

\* The process is killed: the coordinator still counts it as the owner until
\* its session times out.
Crash(m) ==
  /\ pc[m] # "down"
  /\ crashes < MaxCrashes
  /\ crashes' = crashes + 1
  /\ Goto(m, "down")
  /\ assigned' = assigned \ {m}
  /\ UNCHANGED <<kafkaVars, dbVars, worldVars, cursorVars, rebalances, faults>>

\* The task is cancelled at an await: CancelledError passes `except Exception`.
Cancel(m) ==
  /\ pc[m] # "down"
  /\ crashes < MaxCrashes
  /\ crashes' = crashes + 1
  /\ Dies(m)
  /\ UNCHANGED <<dbVars, worldVars, rebalances, faults>>

-----------------------------------------------------------------------------
(* What a member does without any fault; scheduling is fair to this part.  *)
Progress(m) ==
  \/ Poll(m) \/ DeserializeFails(m) \/ CheckProcessed(m)
  \/ HandlerSucceeds(m)
  \/ (current[m] \in Poison /\ HandlerFails(m))
  \/ StoreSucceeds(m) \/ StoreConflicts(m)
  \/ CommitSucceeds(m) \/ (owner # m /\ CommitFails(m))
  \/ ParkInDlq(m)
  \/ DlqCommitSucceeds(m) \/ (owner # m /\ DlqCommitFails(m))
  \/ LagUpdated(m) \/ LagRaises(m)

Next ==
  \/ Publish
  \/ \E m \in Members :
       \/ Assign(m) \/ LearnRevoked(m) \/ Start(m)
       \/ Poll(m)
       \/ DeserializeFails(m) \/ CheckProcessed(m) \/ CheckFails(m)
       \/ HandlerSucceeds(m) \/ HandlerFails(m)
       \/ StoreSucceeds(m) \/ StoreConflicts(m) \/ StoreFails(m)
       \/ CommitSucceeds(m) \/ CommitFails(m)
       \/ ParkInDlq(m) \/ ParkFails(m)
       \/ DlqCommitSucceeds(m) \/ DlqCommitFails(m)
       \/ LagUpdated(m) \/ LagRaises(m)
       \/ Crash(m) \/ Cancel(m)

Spec == Init /\ [][Next]_vars

\* The event loop runs every ready coroutine, the orchestrator restarts a
\* container that exited, and the coordinator hands out a free partition.
Fairness ==
  /\ \A m \in Members :
       /\ WF_vars(Progress(m))
       /\ WF_vars(Start(m))
       /\ WF_vars(LearnRevoked(m))
  /\ WF_vars(\E m \in Members : owner \notin assigned /\ Assign(m))

FairSpec == Spec /\ Fairness

-----------------------------------------------------------------------------
(* Properties                                                              *)

\* The effects of a record are in the database exactly when its marker is, and
\* once, however many members ran its handler (kafka.py:241-253 and the unique
\* constraint of ProcessedEvent).
EffectOnce == \A o \in Offsets : effects[o] = IF o \in processed THEN 1 ELSE 0

\* The committed offset never stands beyond a record that is neither applied
\* nor in the dead-letter topic (kafka.py:253-255 and 270-271, in that order).
NoSilentSkip == SettledBelow(committed)

\* A member that holds a record has left no unsettled record behind it, and
\* the place it will fetch from next is safe as well.
MemberKeepsOrder(m) ==
  /\ InBatch(m) =>
       /\ current[m] < batchEnd[m]
       /\ batchEnd[m] <= logEnd
       /\ SettledBelow(current[m])
       /\ position[m] = batchEnd[m] \/ SettledBelow(position[m])
  /\ pc[m] = "idle" /\ m \in assigned => SettledBelow(position[m])
  /\ pc[m] = "down" => m \notin assigned
  /\ pc[m] = "commit" => current[m] \in processed
  /\ pc[m] = "dlqCommit" => current[m] \in dlq
  /\ pc[m] = "lag" => current[m] \in Settled /\ current[m] + 1 = batchEnd[m]

\* The strengthening of NoSilentSkip that every step preserves.
OrderInv ==
  /\ NoSilentSkip
  /\ resetAt <= logEnd
  /\ committed <= logEnd
  /\ \A m \in Members : MemberKeepsOrder(m)

\* Abstractly the group is a ledger over the log: it applies each record at
\* most once, settles records in offset order and never moves its bookmark
\* over an unsettled record.
Ledger == INSTANCE GroupLedger WITH bookmark <- committed, floor <- resetAt,
                                    applied <- processed, parked <- dlq
ImplementsLedger == Ledger!LedgerSpec

\* Every published record is eventually applied or parked, unless a "latest"
\* reset has put the group beyond it (the retry and dead-letter path of
\* kafka.py:266-272 together with restarts).  Bytes that cannot be deserialized
\* hold up themselves and what is behind them (kafka.py:223), nothing before.
EveryRecordSettled ==
  \A o \in Offsets :
    (\A bad \in Malformed : o < bad) =>
      (o < logEnd ~> (o \in Settled \/ o < resetAt))

-----------------------------------------------------------------------------
(* Claims of the repository the code does not meet                         *)

\* kafka.py:221-222 and 287-288 claim at-least-once delivery: once the group has
\* read from the partition, a later reset skips no unsettled record.
AtLeastOnce ==
  [][resetAt # NoOffset =>
       \A o \in Offsets : resetAt <= o /\ o < resetAt' => o \in Settled]_vars

=============================================================================
