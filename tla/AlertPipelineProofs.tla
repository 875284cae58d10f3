----------------------- MODULE AlertPipelineProofs -----------------------
(***************************************************************************)
(* Proofs about AlertPipeline, for any number of workers and signals, any  *)
(* cooldown, and any bounds on retries, clock and faults.                  *)
(***************************************************************************)
EXTENDS AlertPipeline, TLAPS

-----------------------------------------------------------------------------
(* Type correctness                                                        *)

\* A failing attempt goes back to the lookup or to the dead-letter topic, and
\* forgets what it has read.
LEMMA AttemptTypes ==
  ASSUME TypeOK, NEW w \in Workers, AttemptFails(w)
  PROVE  /\ pc' \in [Workers -> {"idle", "lookup", "decide", "publish", "notify", "store", "park"}]
         /\ tries' \in [Workers -> 1 .. MaxRetries]
         /\ seen' \in [Workers -> Nat]
         /\ sentAt' \in [Workers -> Times] /\ now' \in [Workers -> Times]
         /\ signal' = signal
  <1>1. tries[w] \in 1 .. MaxRetries /\ MaxRetries \in Nat
    BY AlertAssumption DEF TypeOK
  <1>2. tries[w] < MaxRetries => tries[w] + 1 \in 1 .. MaxRetries
    BY <1>1
  <1>3. 0 \in Times
    BY AlertAssumption DEF Times
  <1> QED
    BY <1>2, <1>3 DEF AttemptFails, Goto, Leave, TypeOK, NoAlert

\* What is published is an event, at the end of the topic.
LEMMA EmitTypes ==
  ASSUME TypeOK, NEW w \in Workers, Emit(w)
  PROVE  /\ alertLog' \in Seq(AlertEvents) /\ minted' \in Nat
         /\ Len(alertLog') = Len(alertLog) + 1
         /\ \A i \in 1 .. Len(alertLog) : alertLog'[i] = alertLog[i]
         /\ alertLog'[Len(alertLog')].at = now[w]
         /\ alertLog'[Len(alertLog')].kind = "updated" =>
              seen[w] # NoAlert /\ alertLog'[Len(alertLog')].id = seen[w]
         /\ projected' \subseteq 1 .. Len(alertLog')
         /\ UNCHANGED <<projected, row, clashed, lost>>
  <1> DEFINE event == [id   |-> IF seen[w] = NoAlert THEN minted + 1 ELSE seen[w],
                       kind |-> IF seen[w] = NoAlert THEN "created" ELSE "updated",
                       at   |-> now[w]]
  <1>1. event \in AlertEvents
    BY DEF TypeOK, AlertEvents, NoAlert
  <1>2. alertLog' = Append(alertLog, event) /\ alertLog \in Seq(AlertEvents)
    BY DEF Emit, TypeOK
  <1>3. minted' \in Nat /\ UNCHANGED <<projected, row, clashed, lost>>
    BY DEF Emit, TypeOK
  <1>4. /\ alertLog' \in Seq(AlertEvents)
        /\ Len(alertLog') = Len(alertLog) + 1
        /\ \A i \in 1 .. Len(alertLog) : alertLog'[i] = alertLog[i]
        /\ alertLog'[Len(alertLog')] = event
    BY <1>1, <1>2
  <1>5. projected' \subseteq 1 .. Len(alertLog')
    <2>1. 1 .. Len(alertLog) \subseteq 1 .. Len(alertLog')
      BY <1>2, <1>4
    <2> QED
      BY <1>3, <2>1 DEF TypeOK
  <1>6. event.at = now[w]
    OBVIOUS
  <1>7. event.kind = "updated" => seen[w] # NoAlert /\ event.id = seen[w]
    OBVIOUS
  <1> HIDE DEF event
  <1> QED
    BY <1>3, <1>4, <1>5, <1>6, <1>7

\* A fault is taken from the budget.
LEMMA FaultTypes ==
  ASSUME TypeOK, SpendFault
  PROVE  faults' \in 0 .. MaxFaults
  BY AlertAssumption DEF TypeOK, SpendFault

\* Every step of a worker keeps the types.
LEMMA WorkerKeepsTypes ==
  ASSUME TypeOK, NEW w \in Workers,
         \/ \E s \in Signals : Deliver(w, s)
         \/ SkipProcessed(w) \/ Lookup(w) \/ Suppress(w) \/ Decide(w)
         \/ PublishAlert(w) \/ PublishFails(w)
         \/ Notify(w) \/ WebhookFails(w)
         \/ StoreMarker(w) \/ StoreFails(w) \/ ParkSignal(w) \/ Crash(w)
  PROVE  TypeOK'
  <1> USE DEF alertVars, signalVars, workerVars, localVars, Goto
  <1>1. clock \in Times /\ 0 \in Times /\ 1 \in 1 .. MaxRetries
    BY AlertAssumption DEF TypeOK, Times
  <1>2. signal[w] \in Signals /\ now[w] \in Times
    BY DEF TypeOK
  <1>3. ASSUME NEW s \in Signals, Deliver(w, s)
        PROVE  TypeOK'
    <2>1. faults' \in 0 .. MaxFaults
      BY <1>3, FaultTypes DEF Deliver, TypeOK
    <2> QED
      BY <1>1, <1>3, <2>1 DEF Deliver, TypeOK
  <1>4. CASE SkipProcessed(w)
    BY <1>4 DEF SkipProcessed, TypeOK
  <1>5. CASE Suppress(w)
    BY <1>1, <1>2, <1>5 DEF Suppress, Leave, TypeOK, NoAlert
  <1>6. CASE Decide(w)
    BY <1>1, <1>6 DEF Decide, TypeOK
  <1>15. CASE Lookup(w)
    BY <1>15 DEF Lookup, TypeOK
  <1>7. CASE PublishAlert(w)
    <2>1. /\ alertLog' \in Seq(AlertEvents) /\ minted' \in Nat
          /\ projected' \subseteq 1 .. Len(alertLog')
          /\ UNCHANGED <<projected, row, clashed, lost>>
      BY <1>7, EmitTypes DEF PublishAlert
    <2> QED
      BY <1>7, <2>1 DEF PublishAlert, TypeOK
  <1>8. CASE PublishFails(w)
    <2>1. faults' \in 0 .. MaxFaults
      BY <1>8, FaultTypes DEF PublishFails
    <2>2. CASE Emit(w)
      <3>1. /\ alertLog' \in Seq(AlertEvents) /\ minted' \in Nat
            /\ projected' \subseteq 1 .. Len(alertLog')
            /\ UNCHANGED <<projected, row, clashed, lost>>
        BY <2>2, EmitTypes
      <3> QED
        BY <1>8, <2>1, <3>1, AttemptTypes DEF PublishFails, TypeOK
    <2>3. CASE UNCHANGED alertVars
      BY <1>8, <2>1, <2>3, AttemptTypes DEF PublishFails, TypeOK
    <2> QED
      BY <1>8, <2>2, <2>3 DEF PublishFails
  <1>9. CASE Notify(w)
    <2>1. Append(sent, now[w]) \in Seq(Times)
      BY <1>2 DEF TypeOK
    <2> QED
      BY <1>1, <1>9, <2>1 DEF Notify, Leave, TypeOK, NoAlert
  <1>10. CASE WebhookFails(w)
    <2>1. faults' \in 0 .. MaxFaults
      BY <1>10, FaultTypes DEF WebhookFails
    <2> QED
      BY <1>1, <1>10, <2>1 DEF WebhookFails, Leave, TypeOK, NoAlert
  <1>11. CASE StoreMarker(w)
    BY <1>2, <1>11 DEF StoreMarker, TypeOK
  <1>12. CASE StoreFails(w)
    <2>1. faults' \in 0 .. MaxFaults
      BY <1>12, FaultTypes DEF StoreFails, TypeOK
    <2> QED
      BY <1>12, <2>1, AttemptTypes DEF StoreFails, TypeOK
  <1>13. CASE ParkSignal(w)
    BY <1>2, <1>13 DEF ParkSignal, TypeOK
  <1>14. CASE Crash(w)
    <2>1. faults' \in 0 .. MaxFaults
      BY <1>14, FaultTypes DEF Crash
    <2> QED
      BY <1>1, <1>14, <2>1 DEF Crash, Leave, TypeOK, NoAlert
  <1> QED
    BY <1>3, <1>4, <1>5, <1>6, <1>7, <1>8, <1>9, <1>10, <1>11, <1>12, <1>13, <1>14,
       <1>15

\* Every step of the projection does.
LEMMA ProjectionKeepsTypes ==
  ASSUME TypeOK, NEW i \in DOMAIN alertLog,
         UpsertAlert(i) \/ UpsertClashes(i) \/ UpsertLost(i)
  PROVE  TypeOK'
  <1> USE DEF signalVars, workerVars, localVars
  <1>1. alertLog[i] \in AlertEvents /\ i \in 1 .. Len(alertLog)
    BY DEF TypeOK
  <1>2. CASE UpsertAlert(i)
    BY <1>1, <1>2, FaultTypes DEF UpsertAlert, Reach, AlertEvents, TypeOK
  <1>3. CASE UpsertClashes(i)
    BY <1>1, <1>3 DEF UpsertClashes, TypeOK
  <1>4. CASE UpsertLost(i)
    BY <1>1, <1>4, FaultTypes DEF UpsertLost, TypeOK
  <1> QED
    BY <1>2, <1>3, <1>4

LEMMA StepKeepsTypes == TypeOK /\ [Next]_vars => TypeOK'
  <1> SUFFICES ASSUME TypeOK, [Next]_vars
               PROVE  TypeOK'
    OBVIOUS
  <1>1. CASE Tick
    BY <1>1, AlertAssumption
       DEF Tick, TypeOK, Times, alertVars, signalVars, workerVars, localVars
  <1>2. CASE UNCHANGED vars
    BY <1>2 DEF vars, TypeOK, alertVars, signalVars, workerVars, localVars
  <1> QED
    BY <1>1, <1>2, WorkerKeepsTypes, ProjectionKeepsTypes DEF Next

\* Every variable of alerting keeps its type.
THEOREM TypeCorrect == Spec => []TypeOK
  <1>1. Init => TypeOK
    BY AlertAssumption DEF Init, TypeOK, Times, NoAlert
  <1> QED
    BY <1>1, StepKeepsTypes, PTL DEF Spec

-----------------------------------------------------------------------------
(* The inductive invariant                                                 *)

\* An alert event with this time is in the topic.
Announced(t) == \E i \in DOMAIN alertLog : alertLog[i].at = t

\* Nothing carries a time that is still to come, ...
NoFuture ==
  /\ \A i \in DOMAIN alertLog : alertLog[i].at <= clock
  /\ \A w \in Workers : now[w] <= clock

\* ... a worker that has read a row has read the row that is there, however long ago
\* that was, ...
SeenIsRow == \A w \in Workers : seen[w] # NoAlert => seen[w] = row.id

\* ... and neither row nor notification is ahead of the topic, nor what a worker has
\* read of the row.
SeenIsAnnounced == \A w \in Workers : seen[w] # NoAlert => Announced(sentAt[w])
RowIsAnnounced == row.id # NoAlert => Announced(row.at)
NoticeIsAnnounced == \A w \in Workers : pc[w] = "notify" => Announced(now[w])

AlertInv ==
  /\ TypeOK
  /\ NoFuture /\ SeenIsRow
  /\ SeenIsAnnounced /\ RowIsAnnounced /\ NoticeIsAnnounced
  /\ UpdatesResolve /\ SuppressedIsAlerted /\ NotifiedIsPublished

\* An event has an id and a time.
LEMMA LogTyped ==
  ASSUME TypeOK
  PROVE  /\ Len(alertLog) \in Nat /\ DOMAIN alertLog = 1 .. Len(alertLog)
         /\ \A i \in DOMAIN alertLog : alertLog[i].id # NoAlert /\ alertLog[i].at \in Nat
         /\ \A w \in Workers : now[w] \in Nat
         /\ clock \in Nat
  <1>1. alertLog \in Seq(AlertEvents) /\ Times \subseteq Nat
    BY AlertAssumption DEF TypeOK, Times
  <1>2. Len(alertLog) \in Nat /\ DOMAIN alertLog = 1 .. Len(alertLog)
    BY <1>1
  <1>3. \A i \in DOMAIN alertLog : alertLog[i] \in AlertEvents
    BY <1>1
  <1>4. \A event \in AlertEvents : event.id # NoAlert /\ event.at \in Nat
    BY <1>1 DEF AlertEvents
  <1> QED
    BY <1>1, <1>2, <1>3, <1>4 DEF TypeOK

\* An attempt that fails leaves its worker with nothing read and nothing to send.
LEMMA AttemptForgets ==
  ASSUME TypeOK, NEW w \in Workers, AttemptFails(w)
  PROVE  /\ pc'[w] # "notify" /\ seen'[w] = NoAlert /\ now'[w] = 0
         /\ \A x \in Workers : x # w =>
              /\ pc'[x] = pc[x] /\ seen'[x] = seen[x]
              /\ sentAt'[x] = sentAt[x] /\ now'[x] = now[x]
  BY DEF AttemptFails, Goto, Leave, TypeOK

\* What was announced stays announced when the topic grows.
LEMMA AnnouncedStays ==
  ASSUME TypeOK, NEW w \in Workers, Emit(w)
  PROVE  /\ \A t : Announced(t) => Announced(t)'
         /\ \E i \in DOMAIN alertLog' : alertLog'[i].at = now[w]
         /\ DOMAIN alertLog = 1 .. Len(alertLog)
         /\ DOMAIN alertLog' = DOMAIN alertLog \cup {Len(alertLog')}
  <1>1. /\ Len(alertLog) \in Nat /\ DOMAIN alertLog = 1 .. Len(alertLog)
        /\ DOMAIN alertLog' = 1 .. Len(alertLog')
        /\ Len(alertLog') = Len(alertLog) + 1
    BY EmitTypes DEF TypeOK
  <1>2. \A i \in DOMAIN alertLog : alertLog'[i] = alertLog[i]
    BY <1>1, EmitTypes
  <1>3. alertLog'[Len(alertLog')].at = now[w]
    BY EmitTypes
  <1>4. DOMAIN alertLog' = DOMAIN alertLog \cup {Len(alertLog')}
    BY <1>1
  <1>5. \A t : Announced(t) => Announced(t)'
    BY <1>2, <1>4 DEF Announced
  <1>6. \E i \in DOMAIN alertLog' : alertLog'[i].at = now[w]
    BY <1>3, <1>4
  <1> QED
    BY <1>1, <1>4, <1>5, <1>6

\* A step that touches neither topic nor row keeps what ties them to each other.
LEMMA TopicKept ==
  ASSUME AlertInv, UNCHANGED <<clock, alertLog, row, sent>>,
         suppressed' = suppressed
  PROVE  /\ RowIsAnnounced' /\ UpdatesResolve' /\ SuppressedIsAlerted' /\ NotifiedIsPublished'
         /\ \A i \in DOMAIN alertLog' : alertLog'[i].at <= clock'
         /\ \A t : Announced(t)' <=> Announced(t)
  BY DEF AlertInv, RowIsAnnounced, UpdatesResolve, SuppressedIsAlerted,
         NotifiedIsPublished, NoFuture, Announced

\* A publish keeps the invariant, whether its attempt goes on or fails.
LEMMA EmitKeepsInv ==
  ASSUME AlertInv, TypeOK', NEW w \in Workers, pc[w] = "publish", Emit(w),
         UNCHANGED <<clock, signalVars>>,
         \/ Goto(w, "notify") /\ UNCHANGED <<seen, sentAt, now>>
         \/ AttemptFails(w)
  PROVE  AlertInv'
  <1>1. /\ \A i \in DOMAIN alertLog : alertLog'[i] = alertLog[i]
        /\ alertLog'[Len(alertLog')].at = now[w]
        /\ alertLog'[Len(alertLog')].kind = "updated" =>
             seen[w] # NoAlert /\ alertLog'[Len(alertLog')].id = seen[w]
        /\ row' = row /\ clock' = clock /\ sent' = sent /\ suppressed' = suppressed
    BY EmitTypes, AnnouncedStays DEF AlertInv, signalVars
  <1>2. /\ \A t : Announced(t) => Announced(t)'
        /\ \E i \in DOMAIN alertLog' : alertLog'[i].at = now[w]
        /\ DOMAIN alertLog' = DOMAIN alertLog \cup {Len(alertLog')}
    BY AnnouncedStays DEF AlertInv
  <1>3. \A x \in Workers :
          \/ seen'[x] = seen[x] /\ sentAt'[x] = sentAt[x] /\ now'[x] = now[x]
          \/ seen'[x] = NoAlert /\ now'[x] = 0
    BY AttemptForgets DEF AlertInv
  <1>4. \A x \in Workers : pc'[x] = "notify" => now'[x] = now[x] /\ (pc[x] = "notify" \/ x = w)
    <2>1. CASE Goto(w, "notify") /\ UNCHANGED <<seen, sentAt, now>>
      BY <2>1 DEF Goto, AlertInv, TypeOK
    <2>2. CASE AttemptFails(w)
      BY <2>2, AttemptForgets DEF AlertInv
    <2> QED
      BY <2>1, <2>2
  <1>5. NoFuture'
    <2>1. clock \in Nat /\ now[w] <= clock
      BY LogTyped DEF AlertInv, NoFuture
    <2>2. \A i \in DOMAIN alertLog' : alertLog'[i].at <= clock
      BY <1>1, <1>2, <2>1 DEF AlertInv, NoFuture
    <2>3. \A x \in Workers : now'[x] <= clock
      BY <1>3, <2>1 DEF AlertInv, NoFuture
    <2> QED
      BY <1>1, <2>2, <2>3 DEF NoFuture
  <1>6. SeenIsRow' /\ SeenIsAnnounced' /\ NoticeIsAnnounced' /\ RowIsAnnounced'
    <2>1. SeenIsRow'
      BY <1>1, <1>3 DEF AlertInv, SeenIsRow
    <2>2. ASSUME NEW x \in Workers, pc'[x] = "notify"
          PROVE  \E i \in DOMAIN alertLog' : alertLog'[i].at = now'[x]
      <3>1. now'[x] = now[x] /\ (pc[x] = "notify" \/ x = w)
        BY <1>4, <2>2
      <3>2. CASE x = w
        BY <1>2, <3>1, <3>2
      <3>3. CASE pc[x] = "notify"
        <4>1. \E i \in DOMAIN alertLog : alertLog[i].at = now[x]
          BY <3>3 DEF AlertInv, NoticeIsAnnounced, Announced
        <4> QED
          BY <1>1, <1>2, <3>1, <4>1
      <3> QED
        BY <3>1, <3>2, <3>3
    <2>3. NoticeIsAnnounced'
      BY <2>2 DEF NoticeIsAnnounced, Announced
    <2>4. RowIsAnnounced'
      BY <1>1, <1>2 DEF AlertInv, RowIsAnnounced, Announced
    <2>5. ASSUME NEW x \in Workers, seen'[x] # NoAlert
          PROVE  \E i \in DOMAIN alertLog' : alertLog'[i].at = sentAt'[x]
      <3>1. seen'[x] = seen[x] /\ sentAt'[x] = sentAt[x]
        BY <1>3, <2>5
      <3>2. \E i \in DOMAIN alertLog : alertLog[i].at = sentAt[x]
        BY <2>5, <3>1 DEF AlertInv, SeenIsAnnounced, Announced
      <3> QED
        BY <1>1, <1>2, <3>1, <3>2
    <2>6. SeenIsAnnounced'
      BY <2>5 DEF SeenIsAnnounced, Announced
    <2> QED
      BY <2>1, <2>3, <2>4, <2>6
  <1>7. UpdatesResolve'
    BY <1>1, <1>2 DEF AlertInv, UpdatesResolve, SeenIsRow
  <1>8. SuppressedIsAlerted' /\ NotifiedIsPublished'
    BY <1>1, <1>2 DEF AlertInv, SuppressedIsAlerted, NotifiedIsPublished
  <1> QED
    BY <1>5, <1>6, <1>7, <1>8 DEF AlertInv

\* A step of one worker that publishes nothing, decides nothing and sends nothing:
\* it keeps what it has read or forgets it, and does not come to notify.
LEMMA QuietKeepsInv ==
  ASSUME AlertInv, TypeOK', UNCHANGED <<clock, alertLog, row, sent>>,
         suppressed' = suppressed,
         \A x \in Workers :
           \/ seen'[x] = seen[x] /\ sentAt'[x] = sentAt[x] /\ now'[x] = now[x]
           \/ seen'[x] = NoAlert /\ now'[x] = 0,
         \A x \in Workers : pc'[x] = "notify" => pc[x] = "notify" /\ now'[x] = now[x]
  PROVE  AlertInv'
  <1>1. clock \in Nat
    BY AlertAssumption DEF AlertInv, TypeOK, Times
  <1>2. NoFuture'
    BY <1>1, TopicKept DEF AlertInv, NoFuture
  <1>3. SeenIsRow' /\ SeenIsAnnounced' /\ NoticeIsAnnounced'
    BY TopicKept DEF AlertInv, SeenIsRow, SeenIsAnnounced, NoticeIsAnnounced
  <1> QED
    BY <1>2, <1>3, TopicKept DEF AlertInv

\* A worker's step keeps the invariant.
LEMMA WorkerKeepsInv ==
  ASSUME AlertInv, NEW w \in Workers,
         \/ \E s \in Signals : Deliver(w, s)
         \/ SkipProcessed(w) \/ Lookup(w) \/ Suppress(w) \/ Decide(w)
         \/ PublishAlert(w) \/ PublishFails(w)
         \/ Notify(w) \/ WebhookFails(w)
         \/ StoreMarker(w) \/ StoreFails(w) \/ ParkSignal(w) \/ Crash(w)
  PROVE  AlertInv'
  <1> USE DEF alertVars, signalVars, localVars
  <1>1. TypeOK /\ TypeOK'
    BY WorkerKeepsTypes DEF AlertInv
  <1>2. \A label : Goto(w, label) =>
          \A x \in Workers : pc'[x] = IF x = w THEN label ELSE pc[x]
    BY <1>1 DEF Goto, TypeOK
  <1>3. Leave(w) => \A x \in Workers :
          /\ seen'[x] = IF x = w THEN NoAlert ELSE seen[x]
          /\ sentAt'[x] = IF x = w THEN 0 ELSE sentAt[x]
          /\ now'[x] = IF x = w THEN 0 ELSE now[x]
    BY <1>1 DEF Leave, TypeOK
  <1>4. CASE \/ \E s \in Signals : Deliver(w, s)
             \/ SkipProcessed(w) \/ StoreMarker(w) \/ ParkSignal(w)
    <2>1. /\ UNCHANGED <<clock, alertLog, row, sent, suppressed, seen, sentAt, now>>
          /\ Goto(w, "lookup") \/ Goto(w, "idle")
      BY <1>4 DEF Deliver, SkipProcessed, StoreMarker, ParkSignal
    <2>2. \A x \in Workers : pc'[x] = "notify" => pc[x] = "notify"
      BY <1>2, <2>1
    <2> QED
      BY <1>1, <2>1, <2>2, QuietKeepsInv
  <1>5. CASE WebhookFails(w) \/ Crash(w)
    <2>1. /\ UNCHANGED <<clock, alertLog, row, sent, suppressed>> /\ Leave(w)
          /\ Goto(w, "store") \/ Goto(w, "idle")
      BY <1>5 DEF WebhookFails, Crash
    <2>2. \A x \in Workers : pc'[x] = "notify" => pc[x] = "notify" /\ now'[x] = now[x]
      BY <1>2, <1>3, <2>1
    <2>3. \A x \in Workers :
            \/ seen'[x] = seen[x] /\ sentAt'[x] = sentAt[x] /\ now'[x] = now[x]
            \/ seen'[x] = NoAlert /\ now'[x] = 0
      BY <1>3, <2>1
    <2> QED
      BY <1>1, <2>1, <2>2, <2>3, QuietKeepsInv
  <1>6. CASE AttemptFails(w) /\ UNCHANGED <<clock, alertVars, signalVars>>
    BY <1>1, <1>6, AttemptForgets, QuietKeepsInv
  <1>7. CASE Suppress(w)
    <2>1. /\ UNCHANGED <<clock, alertLog, row, sent>> /\ Goto(w, "store") /\ Leave(w)
          /\ suppressed' = suppressed \cup {[signal |-> signal[w], at |-> clock]}
          /\ CoolingDown(w)
      BY <1>7 DEF Suppress
    <2>2. PICK i \in DOMAIN alertLog : alertLog[i].at = sentAt[w]
      BY <2>1 DEF AlertInv, SeenIsAnnounced, Announced, CoolingDown
    <2>3. alertLog[i].at <= clock /\ clock < alertLog[i].at + Cooldown
      <3>1. clock \in Nat /\ sentAt[w] \in Nat /\ Cooldown \in Nat
        BY AlertAssumption DEF AlertInv, TypeOK, Times
      <3>2. clock - sentAt[w] < Cooldown
        BY <2>1 DEF CoolingDown
      <3>3. clock < sentAt[w] + Cooldown
        BY <3>1, <3>2
      <3> QED
        BY <2>2, <3>3 DEF AlertInv, NoFuture
    <2>4. SuppressedIsAlerted'
      BY <2>1, <2>3 DEF AlertInv, SuppressedIsAlerted
    <2>5. clock \in Nat
      BY AlertAssumption DEF AlertInv, TypeOK, Times
    <2>6. NoFuture' /\ SeenIsRow' /\ SeenIsAnnounced'
      BY <1>3, <2>1, <2>5 DEF AlertInv, NoFuture, SeenIsRow, SeenIsAnnounced, Announced
    <2>7. RowIsAnnounced' /\ UpdatesResolve' /\ NotifiedIsPublished'
      BY <2>1 DEF AlertInv, RowIsAnnounced, UpdatesResolve, NotifiedIsPublished, Announced
    <2>8. NoticeIsAnnounced'
      BY <1>2, <1>3, <2>1 DEF AlertInv, NoticeIsAnnounced, Announced
    <2> QED
      BY <1>1, <2>4, <2>6, <2>7, <2>8 DEF AlertInv
  <1>8. CASE Decide(w)
    <2>1. /\ UNCHANGED <<clock, alertLog, row, sent, suppressed, seen, sentAt>>
          /\ Goto(w, "publish") /\ now' = [now EXCEPT ![w] = clock]
      BY <1>8 DEF Decide
    <2>2. \A x \in Workers : now'[x] = IF x = w THEN clock ELSE now[x]
      BY <1>1, <2>1 DEF TypeOK
    <2>3. clock \in Nat
      BY AlertAssumption DEF AlertInv, TypeOK, Times
    <2>4. NoFuture' /\ SeenIsRow' /\ SeenIsAnnounced'
      BY <2>1, <2>2, <2>3 DEF AlertInv, NoFuture, SeenIsRow, SeenIsAnnounced, Announced
    <2>5. NoticeIsAnnounced'
      BY <1>2, <2>1, <2>2 DEF AlertInv, NoticeIsAnnounced, Announced
    <2> QED
      BY <1>1, <2>1, <2>4, <2>5, TopicKept DEF AlertInv
  <1>13. CASE Lookup(w)
    <2>1. /\ UNCHANGED <<clock, alertLog, row, sent, suppressed, now>> /\ Goto(w, "decide")
          /\ seen' = [seen EXCEPT ![w] = row.id] /\ sentAt' = [sentAt EXCEPT ![w] = row.at]
      BY <1>13 DEF Lookup
    <2>2. \A x \in Workers : /\ seen'[x] = IF x = w THEN row.id ELSE seen[x]
                             /\ sentAt'[x] = IF x = w THEN row.at ELSE sentAt[x]
      BY <1>1, <2>1 DEF TypeOK
    <2>3. NoFuture' /\ SeenIsRow'
      BY <2>1, <2>2 DEF AlertInv, NoFuture, SeenIsRow
    <2>4. SeenIsAnnounced'
      BY <2>1, <2>2 DEF AlertInv, SeenIsAnnounced, RowIsAnnounced, Announced
    <2>5. NoticeIsAnnounced'
      BY <1>2, <2>1 DEF AlertInv, NoticeIsAnnounced, Announced
    <2> QED
      BY <1>1, <2>1, <2>3, <2>4, <2>5, TopicKept DEF AlertInv
  <1>9. CASE PublishAlert(w)
    BY <1>1, <1>9, EmitKeepsInv DEF PublishAlert
  <1>10. CASE PublishFails(w)
    BY <1>1, <1>6, <1>10, EmitKeepsInv DEF PublishFails
  <1>11. CASE StoreFails(w)
    BY <1>6, <1>11 DEF StoreFails
  <1>12. CASE Notify(w)
    <2>1. /\ UNCHANGED <<clock, alertLog, row, suppressed>> /\ Goto(w, "store") /\ Leave(w)
          /\ sent' = Append(sent, now[w]) /\ pc[w] = "notify"
      BY <1>12 DEF Notify
    <2>2. NotifiedIsPublished'
      <3>1. Announced(now[w])
        BY <2>1 DEF AlertInv, NoticeIsAnnounced
      <3>2. /\ DOMAIN sent' = 1 .. Len(sent) + 1 /\ DOMAIN sent = 1 .. Len(sent)
            /\ \A n \in 1 .. Len(sent) : sent'[n] = sent[n]
            /\ sent'[Len(sent) + 1] = now[w] /\ Len(sent) \in Nat
        BY <1>1, <2>1 DEF TypeOK
      <3>3. \A n \in DOMAIN sent' : n \in DOMAIN sent \/ n = Len(sent) + 1
        BY <3>2
      <3> QED
        BY <2>1, <3>1, <3>2, <3>3 DEF AlertInv, NotifiedIsPublished, Announced
    <2>3. clock \in Nat
      BY AlertAssumption DEF AlertInv, TypeOK, Times
    <2>4. NoFuture' /\ SeenIsRow' /\ SeenIsAnnounced'
      BY <1>3, <2>1, <2>3 DEF AlertInv, NoFuture, SeenIsRow, SeenIsAnnounced, Announced
    <2>5. NoticeIsAnnounced'
      BY <1>2, <1>3, <2>1 DEF AlertInv, NoticeIsAnnounced, Announced
    <2>6. RowIsAnnounced' /\ UpdatesResolve' /\ SuppressedIsAlerted'
      BY <2>1 DEF AlertInv, RowIsAnnounced, UpdatesResolve, SuppressedIsAlerted, Announced
    <2> QED
      BY <1>1, <2>2, <2>4, <2>5, <2>6 DEF AlertInv
  <1> QED
    BY <1>4, <1>5, <1>7, <1>8, <1>9, <1>10, <1>11, <1>12, <1>13

\* A row that is written has the id it had, and before the first there is no update.
LEMMA ProjectionKeepsInv ==
  ASSUME AlertInv, NEW i \in DOMAIN alertLog,
         UpsertAlert(i) \/ UpsertClashes(i) \/ UpsertLost(i)
  PROVE  AlertInv'
  <1>1. TypeOK /\ TypeOK'
    BY ProjectionKeepsTypes DEF AlertInv
  <1>2. /\ UNCHANGED <<clock, alertLog, sent, seen, sentAt, now, pc>>
        /\ suppressed' = suppressed
    BY DEF UpsertAlert, UpsertClashes, UpsertLost, signalVars, workerVars, localVars
  <1>3. CASE row' = row
    BY <1>1, <1>2, <1>3, QuietKeepsInv
  <1>4. CASE UpsertAlert(i)
    <2>1. /\ row' = [id |-> alertLog[i].id, at |-> alertLog[i].at]
          /\ row.id \in {NoAlert, alertLog[i].id}
      BY <1>4 DEF UpsertAlert
    <2>2. \A j \in DOMAIN alertLog : alertLog[j].id # NoAlert
      BY <1>1, LogTyped
    <2>3. SeenIsRow'
      BY <1>2, <2>1 DEF AlertInv, SeenIsRow
    <2>4. UpdatesResolve'
      BY <1>2, <2>1, <2>2 DEF AlertInv, UpdatesResolve
    <2>5. RowIsAnnounced'
      BY <1>2, <2>1 DEF RowIsAnnounced, Announced
    <2>6. /\ NoFuture' /\ SeenIsAnnounced' /\ NoticeIsAnnounced'
          /\ SuppressedIsAlerted' /\ NotifiedIsPublished'
      BY <1>2 DEF AlertInv, NoFuture, SeenIsAnnounced, NoticeIsAnnounced, SuppressedIsAlerted,
                  NotifiedIsPublished, Announced
    <2> QED
      BY <1>1, <2>3, <2>4, <2>5, <2>6 DEF AlertInv
  <1> QED
    BY <1>3, <1>4 DEF UpsertClashes, UpsertLost

\* Nothing is read, published, suppressed or sent yet.
LEMMA InitAlertInv == Init => AlertInv
  <1> SUFFICES ASSUME Init
               PROVE  AlertInv
    OBVIOUS
  <1>1. TypeOK
    BY AlertAssumption DEF Init, TypeOK, Times, NoAlert
  <1>2. DOMAIN alertLog = {} /\ DOMAIN sent = {}
    BY DEF Init
  <1> QED
    BY <1>1, <1>2 DEF Init, AlertInv, NoFuture, SeenIsRow, SeenIsAnnounced, RowIsAnnounced,
         NoticeIsAnnounced, UpdatesResolve, SuppressedIsAlerted, NotifiedIsPublished

\* Every step keeps the invariant.
LEMMA StepKeepsInv == AlertInv /\ [Next]_vars => AlertInv'
  <1> SUFFICES ASSUME AlertInv, [Next]_vars
               PROVE  AlertInv'
    OBVIOUS
  <1>1. TypeOK'
    BY StepKeepsTypes DEF AlertInv
  <1>2. CASE Tick
    <2>1. /\ clock' = clock + 1 /\ clock \in Nat
          /\ UNCHANGED <<alertLog, row, sent, suppressed, pc, seen, sentAt, now>>
      BY <1>2, AlertAssumption
         DEF Tick, alertVars, signalVars, workerVars, localVars, AlertInv, TypeOK, Times
    <2>2. NoFuture'
      <3>1. /\ \A i \in DOMAIN alertLog : alertLog[i].at \in Nat
            /\ \A w \in Workers : now[w] \in Nat
        BY LogTyped DEF AlertInv
      <3> QED
        BY <2>1, <3>1 DEF AlertInv, NoFuture
    <2>3. /\ SeenIsRow' /\ SeenIsAnnounced' /\ RowIsAnnounced' /\ NoticeIsAnnounced'
          /\ UpdatesResolve' /\ SuppressedIsAlerted' /\ NotifiedIsPublished'
      BY <2>1 DEF AlertInv, SeenIsRow, SeenIsAnnounced, RowIsAnnounced, NoticeIsAnnounced, UpdatesResolve,
                  SuppressedIsAlerted, NotifiedIsPublished, Announced
    <2> QED
      BY <1>1, <2>2, <2>3 DEF AlertInv
  <1>3. CASE UNCHANGED vars
    <2>1. UNCHANGED <<clock, alertLog, row, sent, suppressed, pc, seen, sentAt, now>>
      BY <1>3 DEF vars, alertVars, signalVars, workerVars, localVars
    <2> QED
      BY <1>1, <2>1, QuietKeepsInv
  <1> QED
    BY <1>2, <1>3, WorkerKeepsInv, ProjectionKeepsInv DEF Next

\* The strengthened invariant holds in every reachable state.
THEOREM AlertInvariant == Spec => []AlertInv
  BY InitAlertInv, StepKeepsInv, PTL DEF Spec

\* An update carries the id of the row, although it was made from a row read long
\* before: only a second alert.created can be refused (service.py:56-69).
THEOREM UpdatesMeetTheirRow == Spec => []UpdatesResolve
  <1>1. AlertInv => UpdatesResolve
    BY DEF AlertInv
  <1> QED
    BY <1>1, AlertInvariant, PTL

\* A signal is suppressed only in the cooldown of an alert that is in the topic
\* (service.py:45-54).
THEOREM SuppressionIsCovered == Spec => []SuppressedIsAlerted
  <1>1. AlertInv => SuppressedIsAlerted
    BY DEF AlertInv
  <1> QED
    BY <1>1, AlertInvariant, PTL

\* Nobody is notified of an alert that is not in the topic (service.py:79-80).
THEOREM NoticeIsCovered == Spec => []NotifiedIsPublished
  <1>1. AlertInv => NotifiedIsPublished
    BY DEF AlertInv
  <1> QED
    BY <1>1, AlertInvariant, PTL

\* A row keeps its id (projector.py:311-321).
THEOREM IdentityIsKept == Spec => RowKeepsIdentity
  <1>1. [Next]_vars => [row.id # NoAlert => row'.id = row.id]_vars
    <2> SUFFICES ASSUME Next, row.id # NoAlert
                 PROVE  row'.id = row.id
      OBVIOUS
    <2>1. CASE Tick
      BY <2>1 DEF Tick, alertVars
    <2>2. ASSUME NEW w \in Workers,
                 \/ \E s \in Signals : Deliver(w, s)
                 \/ SkipProcessed(w) \/ Lookup(w) \/ Suppress(w) \/ Decide(w)
                 \/ PublishAlert(w) \/ PublishFails(w)
                 \/ Notify(w) \/ WebhookFails(w)
                 \/ StoreMarker(w) \/ StoreFails(w) \/ ParkSignal(w) \/ Crash(w)
          PROVE  row' = row
      BY <2>2 DEF Deliver, SkipProcessed, Lookup, Suppress, Decide, PublishAlert, PublishFails, Emit,
                  Notify, WebhookFails, StoreMarker, StoreFails, ParkSignal, Crash, alertVars
    <2>3. ASSUME NEW i \in DOMAIN alertLog,
                 UpsertAlert(i) \/ UpsertClashes(i) \/ UpsertLost(i)
          PROVE  row'.id = row.id
      BY <2>3 DEF UpsertAlert, UpsertClashes, UpsertLost
    <2> QED
      BY <2>1, <2>2, <2>3 DEF Next
  <1> QED
    BY <1>1, PTL DEF Spec, RowKeepsIdentity

=============================================================================
