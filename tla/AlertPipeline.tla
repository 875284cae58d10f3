--------------------------- MODULE AlertPipeline ---------------------------
(***************************************************************************)
(* Alerting for the signals of one dedupe key: the alert workers           *)
(* (AlertHandler, AlertingService.process_signal), the alerts.events topic *)
(* and the alerts row the projection worker makes of it.                   *)
(*                                                                         *)
(* The workers decide by the row, and the row trails the topic.  Anomaly   *)
(* and drift events are keyed by a random entity_id, so signals with one   *)
(* dedupe key lie on several partitions and several workers handle them    *)
(* at a time.  Alert events are keyed by the id of the alert: only events  *)
(* of the same alert are projected in order.                               *)
(***************************************************************************)
EXTENDS Integers, Sequences

CONSTANTS
  Workers,          \* members of the alert-consumers group
  Signals,          \* anomaly.detected events with the same dedupe key
  Cooldown,         \* alert_cooldown_seconds, in ticks
  MaxRetries,       \* attempts per delivery (3 in the code)
  MaxClock,         \* bound: ticks of the clock
  MaxFaults         \* bound: failing publishes, webhooks, commits and projections,
                    \* crashes, and deliveries beyond the first

ASSUME AlertAssumption ==
  /\ Cooldown \in Nat \ {0}
  /\ MaxRetries \in Nat \ {0}
  /\ MaxClock \in Nat
  /\ MaxFaults \in Nat

NoAlert == 0

VARIABLES
  clock,
  \* --- alerts.events and the alerts table
  alertLog,         \* alert.created and alert.updated events
  projected,        \* positions the projection is done with
  row,              \* the row with this dedupe key: its id and last_sent_at
  clashed,          \* positions refused by uq_alert_dedupe_key, then parked
  lost,             \* positions parked after other failures
  minted,           \* alert ids drawn so far (uuid4)
  \* --- the signals
  marked,           \* signals with a ProcessedEvent row of alert-consumers
  parked,           \* signals in the dead-letter topic
  suppressed,       \* history: decisions to send nothing, with their time
  sent,             \* notifications delivered, by the time they carry
  \* --- the alert workers
  pc, signal, tries,
  seen,             \* the id of the row a worker has read
  sentAt,           \* the last_sent_at of that row
  now,              \* the time it has drawn for its event
  faults            \* budget spent

alertVars  == <<alertLog, projected, row, clashed, lost, minted>>
signalVars == <<marked, parked, suppressed, sent>>
localVars  == <<seen, sentAt, now>>
workerVars == <<pc, signal, tries, localVars>>
vars == <<clock, alertVars, signalVars, workerVars, faults>>

Times == 0 .. MaxClock
AlertEvents == [id : Nat \ {NoAlert}, kind : {"created", "updated"}, at : Times]

TypeOK ==
  /\ clock \in Times
  /\ alertLog \in Seq(AlertEvents)
  /\ projected \subseteq 1 .. Len(alertLog)
  /\ row \in [id : Nat, at : Times]
  /\ clashed \subseteq projected
  /\ lost \subseteq projected
  /\ minted \in Nat
  /\ marked \subseteq Signals
  /\ parked \subseteq Signals
  /\ suppressed \subseteq [signal : Signals, at : Times]
  /\ sent \in Seq(Times)
  /\ pc \in [Workers -> {"idle", "lookup", "decide", "publish", "notify", "store", "park"}]
  /\ signal \in [Workers -> Signals]
  /\ seen \in [Workers -> Nat]
  /\ sentAt \in [Workers -> Times]
  /\ now \in [Workers -> Times]
  /\ tries \in [Workers -> 1 .. MaxRetries]
  /\ faults \in 0 .. MaxFaults

Init ==
  /\ clock = 0
  /\ alertLog = <<>> /\ projected = {}
  /\ row = [id |-> NoAlert, at |-> 0]
  /\ clashed = {} /\ lost = {} /\ minted = 0
  /\ marked = {} /\ parked = {} /\ suppressed = {} /\ sent = <<>>
  /\ pc = [w \in Workers |-> "idle"]
  /\ signal \in [Workers -> Signals]
  /\ seen = [w \in Workers |-> NoAlert]
  /\ sentAt = [w \in Workers |-> 0]
  /\ now = [w \in Workers |-> 0]
  /\ tries = [w \in Workers |-> 1]
  /\ faults = 0

Tick ==
  /\ clock < MaxClock
  /\ clock' = clock + 1
  /\ UNCHANGED <<alertVars, signalVars, workerVars, faults>>

-----------------------------------------------------------------------------
(* The alert worker                                                        *)

Goto(w, label) == pc' = [pc EXCEPT ![w] = label]
Busy(w) == pc[w] # "idle"

SpendFault == faults < MaxFaults /\ faults' = faults + 1

\* process_signal's locals are gone when it returns or raises.
Leave(w) ==
  /\ seen' = [seen EXCEPT ![w] = NoAlert]
  /\ sentAt' = [sentAt EXCEPT ![w] = 0]
  /\ now' = [now EXCEPT ![w] = 0]

\* Mutant: the retry budget is off by one.
AttemptFailsOnceMore(w) ==
  /\ IF tries[w] <= MaxRetries
       THEN Goto(w, "lookup") /\ tries' = [tries EXCEPT ![w] = @ + 1]
       ELSE Goto(w, "park") /\ UNCHANGED tries
  /\ Leave(w)
  /\ UNCHANGED signal

\* _process_record's except clause around the handler.
AttemptFails(w) ==
  /\ IF tries[w] < MaxRetries
       THEN Goto(w, "lookup") /\ tries' = [tries EXCEPT ![w] = @ + 1]
       ELSE Goto(w, "park") /\ UNCHANGED tries
  /\ Leave(w)
  /\ UNCHANGED signal

\* A signal is delivered: to a second member while the first is still at work,
\* and again after it was parked, only after a rebalance.
Deliver(w, s) ==
  /\ ~Busy(w)
  /\ s \notin marked
  /\ IF s \in parked \/ \E other \in Workers : Busy(other) /\ signal[other] = s
       THEN SpendFault
       ELSE UNCHANGED faults
  /\ signal' = [signal EXCEPT ![w] = s]
  /\ tries' = [tries EXCEPT ![w] = 1]
  /\ Goto(w, "lookup")
  /\ UNCHANGED <<clock, alertVars, signalVars, localVars>>

SkipProcessed(w) ==
  /\ pc[w] = "lookup"
  /\ signal[w] \in marked
  /\ Goto(w, "idle")
  /\ UNCHANGED <<clock, alertVars, signalVars, signal, localVars, tries, faults>>

\* _find_existing_alert: the row with the dedupe key, if there is one.
Lookup(w) ==
  /\ pc[w] = "lookup"
  /\ signal[w] \notin marked
  /\ seen' = [seen EXCEPT ![w] = row.id]
  /\ sentAt' = [sentAt EXCEPT ![w] = row.at]
  /\ Goto(w, "decide")
  /\ UNCHANGED <<clock, alertVars, signalVars, signal, now, tries, faults>>

\* Mutant: any earlier alert suppresses the signal.
CoolingDownForever(w) == seen[w] # NoAlert

\* The row that was read was sent less than Cooldown ago.
CoolingDown(w) == seen[w] # NoAlert /\ clock - sentAt[w] < Cooldown

\* Nothing is sent in the cooldown.
Suppress(w) ==
  /\ pc[w] = "decide"
  /\ CoolingDown(w)
  /\ suppressed' = suppressed \cup {[signal |-> signal[w], at |-> clock]}
  /\ Goto(w, "store")
  /\ Leave(w)
  /\ UNCHANGED <<clock, alertVars, marked, parked, sent, signal, tries, faults>>

\* Otherwise the event to publish is made from what the lookup returned.
Decide(w) ==
  /\ pc[w] = "decide"
  /\ ~CoolingDown(w)
  /\ now' = [now EXCEPT ![w] = clock]
  /\ Goto(w, "publish")
  /\ UNCHANGED <<clock, alertVars, signalVars, signal, seen, sentAt, tries, faults>>

\* Mutant: every event draws a fresh id.
EmitFresh(w) ==
  LET event == [id   |-> minted + 1,
                kind |-> IF seen[w] = NoAlert THEN "created" ELSE "updated",
                at   |-> now[w]] IN
  /\ alertLog' = Append(alertLog, event)
  /\ minted' = minted + 1
  /\ UNCHANGED <<projected, row, clashed, lost>>

\* A new alert has a fresh id, a known one keeps its own.
Emit(w) ==
  LET fresh == seen[w] = NoAlert
      event == [id   |-> IF fresh THEN minted + 1 ELSE seen[w],
                kind |-> IF fresh THEN "created" ELSE "updated",
                at   |-> now[w]] IN
  /\ alertLog' = Append(alertLog, event)
  /\ minted' = IF fresh THEN minted + 1 ELSE minted
  /\ UNCHANGED <<projected, row, clashed, lost>>

PublishAlert(w) ==
  /\ pc[w] = "publish"
  /\ Emit(w)
  /\ Goto(w, "notify")
  /\ UNCHANGED <<clock, signalVars, signal, localVars, tries, faults>>

\* Mutant: a failed publish is swallowed.
PublishFailsSwallowed(w) ==
  /\ pc[w] = "publish"
  /\ SpendFault
  /\ Goto(w, "notify")
  /\ UNCHANGED <<clock, alertVars, signalVars, signal, localVars, tries>>

\* The publish raises, with or without having reached the broker.
PublishFails(w) ==
  /\ pc[w] = "publish"
  /\ SpendFault
  /\ Emit(w) \/ UNCHANGED alertVars
  /\ AttemptFails(w)
  /\ UNCHANGED <<clock, signalVars>>

\* _dispatch_notifications: the log line, the webhook and the email stub.
Notify(w) ==
  /\ pc[w] = "notify"
  /\ sent' = Append(sent, now[w])
  /\ Goto(w, "store")
  /\ Leave(w)
  /\ UNCHANGED <<clock, alertVars, marked, parked, suppressed, signal, tries, faults>>

\* The webhook's failure is swallowed.
WebhookFails(w) ==
  /\ pc[w] = "notify"
  /\ SpendFault
  /\ Goto(w, "store")
  /\ Leave(w)
  /\ UNCHANGED <<clock, alertVars, signalVars, signal, tries>>

StoreMarker(w) ==
  /\ pc[w] = "store"
  /\ signal[w] \notin marked
  /\ marked' = marked \cup {signal[w]}
  /\ Goto(w, "idle")
  /\ UNCHANGED <<clock, alertVars, parked, suppressed, sent, signal, localVars,
                 tries, faults>>

\* The commit raises, or another member's marker is already there.
StoreFails(w) ==
  /\ pc[w] = "store"
  /\ IF signal[w] \in marked THEN UNCHANGED faults ELSE SpendFault
  /\ AttemptFails(w)
  /\ UNCHANGED <<clock, alertVars, signalVars>>

ParkSignal(w) ==
  /\ pc[w] = "park"
  /\ parked' = parked \cup {signal[w]}
  /\ Goto(w, "idle")
  /\ UNCHANGED <<clock, alertVars, marked, suppressed, sent, signal, localVars,
                 tries, faults>>

\* The worker dies in the handler and leaves what it has published.
Crash(w) ==
  /\ Busy(w)
  /\ SpendFault
  /\ Goto(w, "idle")
  /\ Leave(w)
  /\ UNCHANGED <<clock, alertVars, signalVars, signal, tries>>

-----------------------------------------------------------------------------
(* The projection of alerts.events                                         *)

\* The next unread event of some alert's partition.
Readable(i) ==
  /\ i \in 1 .. Len(alertLog)
  /\ i \notin projected
  /\ \A j \in 1 .. i - 1 : alertLog[j].id = alertLog[i].id => j \in projected

\* Parking leaves no marker: the next owner of the partition may read a parked
\* event again, behind events its predecessor has projected.
Reach(i) ==
  \/ Readable(i) /\ UNCHANGED faults
  \/ i \in clashed \cup lost /\ SpendFault

\* Mutant: the row is found by its dedupe key.
UpsertByKey(i) ==
  /\ Reach(i)
  /\ row' = [id |-> alertLog[i].id, at |-> alertLog[i].at]
  /\ projected' = projected \cup {i}
  /\ clashed' = clashed \ {i} /\ lost' = lost \ {i}
  /\ UNCHANGED <<clock, alertLog, minted, signalVars, workerVars>>

\* _upsert_alert: a new row, or the fields of the row with the event's id.
UpsertAlert(i) ==
  /\ Reach(i)
  /\ row.id \in {NoAlert, alertLog[i].id}
  /\ row' = [id |-> alertLog[i].id, at |-> alertLog[i].at]
  /\ projected' = projected \cup {i}
  /\ clashed' = clashed \ {i} /\ lost' = lost \ {i}
  /\ UNCHANGED <<clock, alertLog, minted, signalVars, workerVars>>

\* Another id already has the dedupe key: every attempt violates the unique
\* constraint, and the event is parked.
UpsertClashes(i) ==
  /\ Readable(i)
  /\ row.id \notin {NoAlert, alertLog[i].id}
  /\ clashed' = clashed \cup {i}
  /\ projected' = projected \cup {i}
  /\ UNCHANGED <<clock, alertLog, row, lost, minted, signalVars, workerVars,
                 faults>>

\* The projection worker gives an event up after its own retries.
UpsertLost(i) ==
  /\ Readable(i)
  /\ SpendFault
  /\ lost' = lost \cup {i}
  /\ projected' = projected \cup {i}
  /\ UNCHANGED <<clock, alertLog, row, clashed, minted, signalVars, workerVars>>

-----------------------------------------------------------------------------

Next ==
  \/ Tick
  \/ \E w \in Workers :
       \/ \E s \in Signals : Deliver(w, s)
       \/ SkipProcessed(w) \/ Lookup(w) \/ Suppress(w) \/ Decide(w)
       \/ PublishAlert(w) \/ PublishFails(w)
       \/ Notify(w) \/ WebhookFails(w)
       \/ StoreMarker(w) \/ StoreFails(w) \/ ParkSignal(w) \/ Crash(w)
  \/ \E i \in DOMAIN alertLog : UpsertAlert(i) \/ UpsertClashes(i) \/ UpsertLost(i)

Spec == Init /\ [][Next]_vars

-----------------------------------------------------------------------------
(* Properties                                                              *)

\* An alert.updated event carries the id the row has, even when it was made
\* from a row read long before: the unique key can refuse only a second
\* alert.created (service.py:56-69, projector.py:311-321).
UpdatesResolve ==
  \A i \in DOMAIN alertLog :
    alertLog[i].kind = "updated" => row.id = alertLog[i].id

\* A signal is suppressed only in the cooldown of an alert event that was
\* published, whatever the workers and the projection did in between.
SuppressedIsAlerted ==
  \A q \in suppressed : \E i \in DOMAIN alertLog :
    alertLog[i].at <= q.at /\ q.at < alertLog[i].at + Cooldown

\* Nobody is notified of an alert that is not in the topic (service.py:79-80).
NotifiedIsPublished ==
  \A n \in DOMAIN sent : \E i \in DOMAIN alertLog : alertLog[i].at = sent[n]

\* A row, once there, stays the row of its alert.
RowKeepsIdentity == [][row.id # NoAlert => row'.id = row.id]_vars

=============================================================================
