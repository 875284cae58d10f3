--------------------------- MODULE WorkerRuntime ---------------------------
(***************************************************************************)
(* One worker process (app/worker.py), from its start to its exit and the  *)
(* next start: the shared publisher, one asyncio task per consumer of the  *)
(* role, the heartbeat task, the gather over them and what happens when one*)
(* of them ends, when the process is interrupted, and when it is killed.   *)
(*                                                                         *)
(* A task runs from one await to the next.  A cancellation is a request    *)
(* that is delivered at the await the task is at: a task cancelled while   *)
(* `finally: await self.stop()` runs leaves that await as well.  What a    *)
(* consumer does with its records is ConsumerGroup.                        *)
(***************************************************************************)
EXTENDS Integers, FiniteSets

CONSTANT Role     \* WORKER_ROLE: a role, "all", or a string that is neither

ASSUME RoleAssumption == Role \in STRING

-----------------------------------------------------------------------------
(* Topology                                                                *)

\* build_workers: consumers of a role.
ConsumersOf == [projection |-> 1, analytics |-> 3, alerts |-> 1, execution |-> 1]

\* workers_by_role.get(role, []): a role nobody knows has no consumer.
SelectedRoles == IF Role = "all" THEN DOMAIN ConsumersOf ELSE {Role} \cap DOMAIN ConsumersOf

NumConsumers ==
  Cardinality({w \in SelectedRoles \X (1 .. 3) : w[2] <= ConsumersOf[w[1]]})

\* consumer_tasks, in the order of the list; the heartbeat is appended last.
Consumers == 1 .. NumConsumers
Heartbeat == NumConsumers + 1
Tasks == 1 .. Heartbeat

VARIABLES
  main,           \* where run() stands; "exited" and "down": no process
  awaited,        \* the task shutdown_consumer_tasks waits for
  producer,       \* the publisher's producer: "none" is None
  task,           \* per task, where it stands or how it ended
  raised,         \* consumers whose loop ended with an exception
  asked,          \* tasks with a cancellation that is not delivered yet
  consumer,       \* per consumer, its Kafka consumer: "none" is None
  interrupted     \* SIGINT has cancelled run()

taskVars == <<task, raised, asked, consumer>>
vars == <<main, awaited, producer, taskVars, interrupted>>

Ended == {"cancelled", "failed"}
Live == {i \in Tasks : task[i] \notin Ended \cup {"none"}}
Failed == {i \in Tasks : task[i] = "failed"}

TypeOK ==
  /\ main \in {"down", "startup", "gather", "reap", "close", "sweep", "exited"}
  /\ awaited \in Tasks
  /\ producer \in {"none", "starting", "running", "stopping"}
  /\ task \in [Tasks -> {"none", "new", "starting", "running", "closing"} \cup Ended]
  /\ raised \in SUBSET Consumers
  /\ asked \in SUBSET Tasks
  /\ consumer \in [Consumers -> {"none", "made", "running", "stopped"}]
  /\ interrupted \in BOOLEAN

Init ==
  /\ main = "down"
  /\ awaited = 1
  /\ producer = "none"
  /\ task = [i \in Tasks |-> "none"]
  /\ raised = {}
  /\ asked = {}
  /\ consumer = [c \in Consumers |-> "none"]
  /\ interrupted = FALSE

\* What a process had in memory is gone.
Forget ==
  /\ awaited' = 1
  /\ task' = [i \in Tasks |-> "none"]
  /\ raised' = {}
  /\ asked' = {}
  /\ consumer' = [c \in Consumers |-> "none"]
  /\ interrupted' = FALSE

-----------------------------------------------------------------------------
(* run(): start                                                            *)

\* asyncio.run(run()): a new runtime; its publisher stores the producer and
\* awaits the start of it.
StartProcess ==
  /\ main \in {"down", "exited"}
  /\ main' = "startup"
  /\ producer' = "starting"
  /\ Forget

\* The broker does not answer, or SIGINT: nothing catches it.
StartupFails ==
  /\ main = "startup"
  /\ main' = "exited"
  /\ UNCHANGED <<awaited, producer, taskVars, interrupted>>

\* Mutant: the tasks are created before the publisher is started.
TasksFirst ==
  /\ main = "startup"
  /\ \/ /\ task[1] = "none"
        /\ task' = [i \in Tasks |-> "new"]
        /\ UNCHANGED <<main, producer>>
     \/ /\ task[1] # "none"
        /\ producer' = "running"
        /\ main' = "gather"
        /\ UNCHANGED task
  /\ UNCHANGED <<awaited, raised, asked, consumer, interrupted>>

\* runtime.startup returns; create_task for every consumer and the heartbeat.
CreateTasks ==
  /\ main = "startup"
  /\ producer' = "running"
  /\ task' = [i \in Tasks |-> "new"]
  /\ main' = "gather"
  /\ UNCHANGED <<awaited, raised, asked, consumer, interrupted>>

-----------------------------------------------------------------------------
(* Tasks                                                                   *)

Becomes(i, label) == task' = [task EXCEPT ![i] = label]

\* A consumer makes its Kafka consumer; publisher.start returns at once, for the
\* producer is there.  The heartbeat publishes and sleeps in turn.
BeginTask(i) ==
  /\ task[i] = "new"
  /\ i \notin asked
  /\ Becomes(i, IF i = Heartbeat THEN "running" ELSE "starting")
  /\ consumer' = IF i = Heartbeat THEN consumer ELSE [consumer EXCEPT ![i] = "made"]
  /\ UNCHANGED <<main, awaited, producer, raised, asked, interrupted>>

ConsumerStarts(i) ==
  /\ task[i] = "starting"
  /\ i \notin asked
  /\ Becomes(i, "running")
  /\ consumer' = [consumer EXCEPT ![i] = "running"]
  /\ UNCHANGED <<main, awaited, producer, raised, asked, interrupted>>

\* `await self.start()` stands before the try: the consumer is not stopped.
ConsumerStartFails(i) ==
  /\ task[i] = "starting"
  /\ i \notin asked
  /\ Becomes(i, "failed")
  /\ UNCHANGED <<main, awaited, producer, raised, asked, consumer, interrupted>>

\* The heartbeat's publish raises.
HeartbeatFails ==
  /\ task[Heartbeat] = "running"
  /\ Heartbeat \notin asked
  /\ Becomes(Heartbeat, "failed")
  /\ UNCHANGED <<main, awaited, producer, raised, asked, consumer, interrupted>>

\* The loop of a consumer ends with an exception (ConsumerGroup!Dies).
ConsumerRaises(i) ==
  /\ i \in Consumers
  /\ task[i] = "running"
  /\ i \notin asked
  /\ Becomes(i, "closing")
  /\ raised' = raised \cup {i}
  /\ UNCHANGED <<main, awaited, producer, asked, consumer, interrupted>>

\* stop() returns, and what ended the loop goes on.
ConsumerStops(i) ==
  /\ task[i] = "closing"
  /\ i \notin asked
  /\ Becomes(i, IF i \in raised THEN "failed" ELSE "cancelled")
  /\ consumer' = [consumer EXCEPT ![i] = "stopped"]
  /\ UNCHANGED <<main, awaited, producer, raised, asked, interrupted>>

\* stop() raises in the finally, and that is what the task ends with.
ConsumerStopFails(i) ==
  /\ task[i] = "closing"
  /\ i \notin asked
  /\ Becomes(i, "failed")
  /\ UNCHANGED <<main, awaited, producer, raised, asked, consumer, interrupted>>

\* CancelledError at the await the task is at.  Only a consumer in its loop has
\* something to clean up; one that is in its stop() leaves that.
CancelDelivered(i) ==
  /\ i \in asked
  /\ asked' = asked \ {i}
  /\ Becomes(i, IF i \in Consumers /\ task[i] = "running" THEN "closing" ELSE "cancelled")
  /\ UNCHANGED <<main, awaited, producer, raised, consumer, interrupted>>

-----------------------------------------------------------------------------
(* run(): end                                                              *)

\* Mutant: gather(return_exceptions=True).
GatherAll ==
  /\ main = "gather"
  /\ Live = {}
  /\ main' = "reap"
  /\ asked' = Live
  /\ UNCHANGED <<awaited, producer, task, raised, consumer, interrupted>>

\* The first task that ends, ends the gather; shutdown_consumer_tasks cancels
\* every task that has not ended, whatever it is doing.
GatherEnds ==
  /\ main = "gather"
  /\ Live # Tasks
  /\ main' = "reap"
  /\ asked' = Live
  /\ UNCHANGED <<awaited, producer, task, raised, consumer, interrupted>>

\* What follows when a task has been awaited: the next one, or runtime.shutdown.
GoOn ==
  \/ /\ awaited < Heartbeat
     /\ awaited' = awaited + 1
     /\ UNCHANGED <<main, producer>>
  \/ /\ awaited = Heartbeat
     /\ producer' = "stopping"
     /\ main' = "close"
     /\ UNCHANGED awaited

\* Mutant: the tasks are cancelled, and not awaited.
ReapWithoutAwait ==
  /\ main = "reap"
  /\ GoOn
  /\ UNCHANGED <<taskVars, interrupted>>

AwaitNext ==
  /\ main = "reap"
  /\ task[awaited] = "cancelled"
  /\ GoOn
  /\ UNCHANGED <<taskVars, interrupted>>

\* Mutant: CancelledError is not suppressed.
RaiseAny ==
  /\ main = "reap"
  /\ task[awaited] \in Ended
  /\ main' = "sweep"
  /\ asked' = Live
  /\ UNCHANGED <<awaited, producer, task, raised, consumer, interrupted>>

\* The exception of a task that failed leaves shutdown_consumer_tasks and run():
\* runtime.shutdown is skipped, and asyncio.run cancels the tasks that are left.
RaiseAgain ==
  /\ main = "reap"
  /\ task[awaited] = "failed"
  /\ main' = "sweep"
  /\ asked' = Live
  /\ UNCHANGED <<awaited, producer, task, raised, consumer, interrupted>>

PublisherStopped ==
  /\ main = "close"
  /\ producer' = "none"
  /\ main' = "sweep"
  /\ UNCHANGED <<awaited, taskVars, interrupted>>

\* The producer's stop() raises out of run().
PublisherStopFails ==
  /\ main = "close"
  /\ main' = "sweep"
  /\ UNCHANGED <<awaited, producer, taskVars, interrupted>>

\* asyncio.run has awaited the tasks it cancelled.
Exit ==
  /\ main = "sweep"
  /\ Live = {}
  /\ main' = "exited"
  /\ UNCHANGED <<awaited, producer, taskVars, interrupted>>

\* The first SIGINT cancels run() at its await: a gather passes it on to all its
\* tasks, `await task` to that task and is suppressed, publisher.stop is left.  When
\* the awaited task has just failed, CancelledError takes the place of its exception.
Interrupt ==
  /\ ~interrupted
  /\ interrupted' = TRUE
  /\ \/ /\ main = "gather"
        /\ asked' = Live
        /\ UNCHANGED <<main, awaited, producer>>
     \/ /\ main = "reap"
        /\ asked' = asked \cup ({awaited} \cap Live)
        /\ UNCHANGED <<main, awaited, producer>>
     \/ /\ main = "reap"
        /\ task[awaited] = "failed"
        /\ GoOn
        /\ UNCHANGED asked
     \/ /\ main = "close"
        /\ main' = "sweep"
        /\ UNCHANGED <<asked, awaited, producer>>
  /\ UNCHANGED <<task, raised, consumer>>

\* SIGTERM has no handler, and SIGKILL, a second SIGINT or the loss of the machine
\* end the process just as much.
Kill ==
  /\ main \notin {"down", "exited"}
  /\ main' = "down"
  /\ producer' = "none"
  /\ Forget

-----------------------------------------------------------------------------

TaskStep(i) ==
  \/ BeginTask(i) \/ ConsumerStarts(i) \/ ConsumerStartFails(i)
  \/ ConsumerRaises(i) \/ ConsumerStops(i) \/ ConsumerStopFails(i)
  \/ CancelDelivered(i)

MainStep ==
  \/ CreateTasks
  \/ GatherEnds \/ AwaitNext \/ RaiseAgain
  \/ PublisherStopped \/ PublisherStopFails \/ Exit

Next ==
  \/ StartProcess \/ StartupFails
  \/ MainStep
  \/ HeartbeatFails
  \/ \E i \in Tasks : TaskStep(i)
  \/ Interrupt
  \/ Kill

Spec == Init /\ [][Next]_vars

\* The event loop runs what is ready, and stop() of a Kafka client returns or raises.
Fairness ==
  /\ WF_vars(MainStep)
  /\ \A i \in Tasks :
       WF_vars(CancelDelivered(i) \/ ConsumerStops(i) \/ ConsumerStopFails(i))

FairSpec == Spec /\ Fairness

-----------------------------------------------------------------------------
(* Properties                                                              *)

\* No task is ever without a started producer: none runs before the start of the
\* publisher has returned, although it is stored before that (kafka.py:54-65),
\* and the publisher is stopped only when the last task has ended (worker.py:82-85).
LiveTasksHaveProducer == Live # {} => producer = "running"

\* A process that exits with its publisher open has a task that failed: the
\* cancellations it caused itself never keep it from runtime.shutdown
\* (kafka.py:353-355).
LeftOpenOnlyByFailure == main = "exited" /\ producer = "running" => Failed # {}

BehindFailed(i) == \E j \in Failed : j < i

\* Without an interrupt the tasks are awaited in the order of the list, so a Kafka
\* consumer is left open only behind a task that failed, or when it or its stop() was
\* failing itself (kafka.py:351-355).
StoppedInOrder ==
  main = "exited" /\ ~interrupted =>
    \A i \in Consumers :
      consumer[i] = "running" => i \in raised \cup Failed \/ BehindFailed(i)

\* The strengthening of the three that every step preserves: what each phase of
\* run() knows of the tasks and of the producer, ...
PhaseInv ==
  /\ asked \subseteq Live
  /\ main \in {"down", "startup"} => \A i \in Tasks : task[i] = "none"
  /\ main \in {"gather", "reap", "close", "sweep"} => \A i \in Tasks : task[i] # "none"
  /\ main \in {"gather", "reap"} => producer = "running"
  /\ main \in {"startup", "close"} => producer # "running"
  /\ main \in {"startup", "gather"} => awaited = 1
  /\ main = "reap" => \A i \in Tasks : i < awaited => task[i] \in Ended
  /\ main \in {"close", "exited"} => Live = {}
  /\ main = "sweep" /\ Live # {} => producer = "running"
  /\ main \in {"sweep", "exited"} /\ producer = "running" => Failed # {}

\* ... and why a consumer is cancelled a second time while it stops.
CancelInv ==
  ~interrupted =>
    /\ main = "gather" => asked = {}
    /\ \A i \in Consumers :
         /\ consumer[i] = "running" => task[i] \in {"running", "closing"} \cup Ended
         /\ task[i] = "closing" /\ i \notin raised =>
              main # "gather" /\ (i \in asked => main = "sweep" /\ BehindFailed(i))
         /\ task[i] = "cancelled" /\ consumer[i] = "running" =>
              i \in raised \/ BehindFailed(i)

RuntimeInv == PhaseInv /\ CancelInv

\* When a task has ended, or the process is interrupted, all of it ends: it never
\* goes on with some of its consumers (worker.py:80).
DeadTaskEndsProcess ==
  (\E i \in Tasks : task[i] \in Ended) \/ interrupted ~> main \in {"down", "exited"}

-----------------------------------------------------------------------------
(* Claims of the repository the code does not meet                         *)

\* kafka.py:349-350, worker.py:82-83: on a graceful shutdown the consumers are
\* stopped first.
GracefulStop ==
  main = "exited" /\ interrupted /\ raised \cup Failed = {} =>
    \A i \in Consumers : consumer[i] # "running"

=============================================================================
