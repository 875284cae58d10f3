---------------------------- MODULE WorkerHealth ----------------------------
(***************************************************************************)
(* The heartbeats of a worker process (app/worker.py), the row the         *)
(* projection writes from them, and what HealthService._check_workers says *)
(* of the worker by that row.  The process is WorkerRuntime.               *)
(*                                                                         *)
(* Time is counted in ticks and only as differences: the age of a stamp,   *)
(* the time since the last beat.  Ages stop growing where they make no     *)
(* difference any more.  The bounds Slack, Delay and MaxLost say what a    *)
(* working platform does to a heartbeat; MissedBeats is what they amount to*)
(***************************************************************************)
EXTENDS WorkerRuntime

CONSTANTS
  Ttl,          \* HEARTBEAT_TTL_SECONDS
  Floor,        \* the least period, 5 seconds
  Slack,        \* bound: time a publish adds to a period
  Delay,        \* bound: time from a stamp to its projection
  MaxLost       \* bound: heartbeats lost in a row

\* max(5, ttl // 2)
Period == IF Ttl \div 2 < Floor THEN Floor ELSE Ttl \div 2

\* The longest time between the stamps of two beats that arrive, and until the
\* second one has.
MissedBeats == (MaxLost + 1) * (Period + Slack) + Delay

\* 2 * ttl, and the first age beyond it.
Threshold == 2 * Ttl
Horizon == Threshold + 1

\* From the start of the task to its first beat that arrives.
Grace == Slack + MaxLost * (Period + Slack) + Delay

\* The floor makes the assumption fail for a TTL below 3 seconds: the period is
\* then longer than the threshold.
ASSUME HealthAssumption ==
  /\ {Ttl, Floor, Slack, Delay, MaxLost} \subseteq Nat
  /\ MissedBeats <= Threshold

VARIABLES
  since,        \* time since the last beat; Period and more: a beat is due
  up,           \* time the heartbeat task has run, up to Grace + 1
  silent,       \* time there has been no process, up to Horizon
  flight,       \* ages of the heartbeats published and not yet projected
  rowAge,       \* age of the row's last_seen_at; Horizon also if there is no row
  lost          \* heartbeats lost since the last one that arrived

healthVars == <<since, up, silent, flight, rowAge, lost>>
allVars == <<vars, healthVars>>

UpTo(limit, n) == IF n < limit THEN n ELSE limit

HealthInit ==
  /\ Init
  /\ since = 0
  /\ up = 0
  /\ silent = 0
  /\ flight = {}
  /\ rowAge = Horizon
  /\ lost = 0

Beating == task[Heartbeat] = "running"
NoProcess == main \in {"down", "exited"}

\* A step A of the process, at no time: its loop begins with a beat that is due.
InProcess(A) ==
  /\ A
  /\ since' = IF ~Beating' THEN 0 ELSE IF Beating THEN since ELSE Period
  /\ up' = IF Beating' THEN up ELSE 0
  /\ silent' = IF NoProcess' THEN silent ELSE 0
  /\ UNCHANGED <<flight, rowAge, lost>>

\* Publishes a heartbeat with the time of now, and sleeps for Period.
Beat ==
  /\ Beating
  /\ Heartbeat \notin asked
  /\ since >= Period
  /\ since' = 0
  /\ flight' = flight \cup {0}
  /\ UNCHANGED <<vars, up, silent, rowAge, lost>>

\* Heartbeats of a worker are one partition, projected oldest first.
Oldest(age) == age \in flight /\ \A other \in flight : other <= age

\* Mutant: the row is stamped when it is written.
ProjectStamped(age) ==
  /\ Oldest(age)
  /\ rowAge' = 0
  /\ lost' = 0
  /\ flight' = flight \ {age}
  /\ UNCHANGED <<vars, since, up, silent>>

\* Mutant: a row that is there is left as it is.
ProjectOnce(age) ==
  /\ Oldest(age)
  /\ rowAge' = IF rowAge = Horizon THEN age ELSE rowAge
  /\ lost' = 0
  /\ flight' = flight \ {age}
  /\ UNCHANGED <<vars, since, up, silent>>

\* _handle_worker_heartbeat: the row of the worker's name gets last_seen_at.
Project(age) ==
  /\ Oldest(age)
  /\ rowAge' = age
  /\ lost' = 0
  /\ flight' = flight \ {age}
  /\ UNCHANGED <<vars, since, up, silent>>

\* The heartbeat's event is parked by the projection.  That a later owner of the
\* partition applies it behind a younger one is beyond what the platform may do here.
Lose(age) ==
  /\ Oldest(age)
  /\ lost < MaxLost
  /\ lost' = lost + 1
  /\ flight' = flight \ {age}
  /\ UNCHANGED <<vars, since, up, silent, rowAge>>

\* Time passes, but not beyond what Slack and Delay allow.
Tick ==
  /\ Beating => since < Period + Slack
  /\ Delay \notin flight
  /\ since' = IF Beating THEN since + 1 ELSE 0
  /\ up' = IF Beating THEN UpTo(Grace + 1, up + 1) ELSE 0
  /\ silent' = IF NoProcess THEN UpTo(Horizon, silent + 1) ELSE 0
  /\ flight' = {age + 1 : age \in flight}
  /\ rowAge' = UpTo(Horizon, rowAge + 1)
  /\ UNCHANGED <<vars, lost>>

HealthNext ==
  \/ InProcess(Next)
  \/ Beat
  \/ \E age \in flight : Project(age) \/ Lose(age)
  \/ Tick

\* As in WorkerRuntime.
HealthFairness ==
  /\ WF_allVars(InProcess(MainStep))
  /\ \A i \in Tasks :
       WF_allVars(InProcess(
         CancelDelivered(i) \/ ConsumerStops(i) \/ ConsumerStopFails(i)))

HealthSpec == HealthInit /\ [][HealthNext]_allVars /\ HealthFairness

-----------------------------------------------------------------------------
(* Properties                                                              *)

\* _check_workers, with this worker alone: passing or degraded.
Stale == rowAge > Threshold

\* A worker whose heartbeat task runs shows as alive, once its first heartbeat had
\* time to arrive, although a heartbeat or more is lost (worker.py:39, health.py:165).
LiveNotStale == Beating /\ up > Grace => ~Stale

\* A worker that has had no process for longer than the threshold is reported,
\* whatever heartbeats of it arrive late (worker.py:33, health.py:165-172).
DeadReported == silent > Threshold => Stale

=============================================================================
