---------------------------- MODULE WorkerProofs ----------------------------
(***************************************************************************)
(* Proofs about the worker, for any role and so for any number of          *)
(* consumers: first the process alone (WorkerRuntime), then the process    *)
(* with its heartbeats (WorkerHealth), for any TTL and platform that meet  *)
(* HealthAssumption: a live worker never shows as stale, a dead one always *)
(* does.  Time moves by differences, so each fact about the heartbeats     *)
(* bounds one age by another and is kept when all of them grow together.   *)
(***************************************************************************)
EXTENDS WorkerHealth, FiniteSetTheorems, TLAPS

-----------------------------------------------------------------------------
(* The tasks of a process                                                  *)

\* A role has finitely many consumers, so the list of tasks has a length.
LEMMA ConsumerCount == NumConsumers \in Nat
  <1> DEFINE Table == {"projection", "analytics", "alerts", "execution"}
             Pairs == SelectedRoles \X (1 .. 3)
             Built == {w \in Pairs : w[2] <= ConsumersOf[w[1]]}
  <1>1. IsFiniteSet(Table)
    <2>1. IsFiniteSet({} \cup {"projection"})
      BY FS_EmptySet, FS_AddElement
    <2>2. IsFiniteSet(({} \cup {"projection"}) \cup {"analytics"})
      BY <2>1, FS_AddElement
    <2>3. IsFiniteSet((({} \cup {"projection"}) \cup {"analytics"}) \cup {"alerts"})
      BY <2>2, FS_AddElement
    <2>4. IsFiniteSet(((({} \cup {"projection"}) \cup {"analytics"}) \cup {"alerts"})
                        \cup {"execution"})
      BY <2>3, FS_AddElement
    <2>5. Table = ((({} \cup {"projection"}) \cup {"analytics"}) \cup {"alerts"})
                    \cup {"execution"}
      OBVIOUS
    <2> QED
      BY <2>4, <2>5
  <1>2. SelectedRoles \in SUBSET Table
    BY DEF SelectedRoles, ConsumersOf
  <1>3. IsFiniteSet(SelectedRoles)
    BY <1>1, <1>2, FS_Subset
  <1>4. IsFiniteSet(1 .. 3)
    <2>1. 1 \in Int /\ 3 \in Int
      OBVIOUS
    <2> QED
      BY <2>1, FS_Interval, Zenon
  <1>5. IsFiniteSet(Pairs)
    BY <1>3, <1>4, FS_Product
  <1>6. Built \in SUBSET Pairs
    OBVIOUS
  <1>7. IsFiniteSet(Built)
    BY <1>5, <1>6, FS_Subset
  <1>8. Cardinality(Built) \in Nat
    BY <1>7, FS_CardinalityType
  <1> QED
    BY <1>8 DEF NumConsumers

USE ConsumerCount DEF Tasks, Consumers, Heartbeat

-----------------------------------------------------------------------------
(* Type correctness                                                        *)

\* What a new process, or none, has in memory.
LEMMA ForgetTyped ==
  ASSUME Forget
  PROVE  /\ awaited' \in Tasks
         /\ task' \in [Tasks -> {"none", "new", "starting", "running", "closing"} \cup Ended]
         /\ raised' \in SUBSET Consumers /\ asked' \in SUBSET Tasks
         /\ consumer' \in [Consumers -> {"none", "made", "running", "stopped"}]
         /\ interrupted' \in BOOLEAN
  <1>1. 1 \in Tasks
    OBVIOUS
  <1> QED
    BY <1>1 DEF Forget

\* No step of the process leaves the types.
LEMMA TypeStep ==
  ASSUME TypeOK, [Next]_vars
  PROVE  TypeOK'
  <1> USE DEF TypeOK, Ended, Live, taskVars
  <1>1. CASE StartProcess
    BY <1>1, ForgetTyped DEF StartProcess
  <1>2. CASE StartupFails
    BY <1>2 DEF StartupFails
  <1>3. CASE CreateTasks
    BY <1>3 DEF CreateTasks
  <1>4. CASE GatherEnds
    BY <1>4 DEF GatherEnds
  <1>5. CASE AwaitNext
    BY <1>5 DEF AwaitNext, GoOn
  <1>6. CASE RaiseAgain
    BY <1>6 DEF RaiseAgain
  <1>7. CASE PublisherStopFails
    BY <1>7 DEF PublisherStopFails
  <1>8. CASE PublisherStopped
    BY <1>8 DEF PublisherStopped
  <1>9. CASE Exit
    BY <1>9 DEF Exit
  <1>10. CASE HeartbeatFails
    BY <1>10 DEF HeartbeatFails, Becomes
  <1>11. CASE Interrupt
    <2>1. CASE main = "reap" /\ task[awaited] = "failed" /\ GoOn /\ UNCHANGED asked
      BY <1>11, <2>1 DEF Interrupt, GoOn
    <2>2. CASE UNCHANGED <<awaited, producer>> /\ main' \in {main, "sweep"}
               /\ asked' \in SUBSET Tasks
      BY <1>11, <2>2 DEF Interrupt
    <2> QED
      BY <1>11, <2>1, <2>2 DEF Interrupt
  <1>12. CASE Kill
    BY <1>12, ForgetTyped DEF Kill
  <1>13. ASSUME NEW i \in Tasks, TaskStep(i)
        PROVE  TypeOK'
    <2>1. CASE BeginTask(i)
      BY <2>1 DEF BeginTask, Becomes
    <2>2. CASE ConsumerStarts(i)
      BY <2>2 DEF ConsumerStarts, Becomes
    <2>3. CASE ConsumerStartFails(i)
      BY <2>3 DEF ConsumerStartFails, Becomes
    <2>4. CASE ConsumerRaises(i)
      BY <2>4 DEF ConsumerRaises, Becomes
    <2>5. CASE ConsumerStops(i)
      BY <2>5 DEF ConsumerStops, Becomes
    <2>6. CASE CancelDelivered(i)
      BY <2>6 DEF CancelDelivered, Becomes
    <2>7. CASE ConsumerStopFails(i)
      BY <2>7 DEF ConsumerStopFails, Becomes
    <2> QED
      BY <1>13, <2>1, <2>2, <2>3, <2>4, <2>5, <2>6, <2>7 DEF TaskStep
  <1>14. CASE UNCHANGED vars
    BY <1>14 DEF vars
  <1> QED
    BY <1>1, <1>2, <1>3, <1>4, <1>5, <1>6, <1>7, <1>8, <1>9,
       <1>10, <1>11, <1>12, <1>13, <1>14 DEF Next, MainStep

\* Every variable of the process keeps its type.
THEOREM TypeCorrect == Spec => []TypeOK
  <1>1. Init => TypeOK
    <2>1. 1 \in Tasks
      OBVIOUS
    <2> QED
      BY <2>1 DEF Init, TypeOK
  <1>2. TypeOK /\ [Next]_vars => TypeOK'
    BY TypeStep
  <1> QED
    BY <1>1, <1>2, PTL DEF Spec

-----------------------------------------------------------------------------
(* The inductive invariant                                                 *)

\* What each phase of run() knows is kept by every step of main, of a task and by
\* an interrupt or a kill.
LEMMA PhaseInvStep ==
  ASSUME TypeOK, PhaseInv, [Next]_vars
  PROVE  PhaseInv'
  <1> USE DEF TypeOK, Ended, Live, Failed, taskVars, PhaseInv
  <1>1. CASE StartProcess
    BY <1>1 DEF StartProcess, Forget
  <1>2. CASE StartupFails
    BY <1>2 DEF StartupFails
  <1>3. CASE CreateTasks
    BY <1>3 DEF CreateTasks
  <1>4. CASE GatherEnds
    <2>1. asked' = Live /\ UNCHANGED <<awaited, producer, task>>
      BY <1>4 DEF GatherEnds
    <2>2. main = "gather" /\ main' = "reap"
      BY <1>4 DEF GatherEnds
    <2>3. awaited = 1
      BY <2>2
    <2> QED
      BY <2>1, <2>2, <2>3
  <1>5. CASE AwaitNext
    BY <1>5 DEF AwaitNext, GoOn
  <1>6. CASE RaiseAgain
    BY <1>6 DEF RaiseAgain
  <1>7. CASE PublisherStopFails
    BY <1>7 DEF PublisherStopFails
  <1>8. CASE PublisherStopped
    BY <1>8 DEF PublisherStopped
  <1>9. CASE Exit
    BY <1>9 DEF Exit
  <1>10. CASE HeartbeatFails
    BY <1>10 DEF HeartbeatFails, Becomes
  <1>11. CASE Interrupt
    <2> UNCHANGED task
      BY <1>11 DEF Interrupt
    <2>1. CASE main = "gather" /\ asked' = Live /\ UNCHANGED <<main, awaited, producer>>
      BY <2>1
    <2>2. CASE /\ main = "reap" /\ asked' = asked \cup ({awaited} \cap Live)
               /\ UNCHANGED <<main, awaited, producer>>
      BY <2>2
    <2>3. CASE main = "reap" /\ task[awaited] = "failed" /\ GoOn /\ UNCHANGED asked
      BY <2>3 DEF GoOn
    <2>4. CASE main = "close" /\ main' = "sweep" /\ UNCHANGED <<asked, awaited, producer>>
      BY <2>4
    <2> QED
      BY <1>11, <2>1, <2>2, <2>3, <2>4 DEF Interrupt
  <1>12. CASE Kill
    BY <1>12 DEF Kill, Forget
  <1>13. ASSUME NEW i \in Tasks, TaskStep(i)
        PROVE  PhaseInv'
    <2>1. CASE BeginTask(i)
      BY <2>1 DEF BeginTask, Becomes
    <2>2. CASE ConsumerStarts(i)
      BY <2>2 DEF ConsumerStarts, Becomes
    <2>3. CASE ConsumerStartFails(i)
      BY <2>3 DEF ConsumerStartFails, Becomes
    <2>4. CASE ConsumerRaises(i)
      BY <2>4 DEF ConsumerRaises, Becomes
    <2>5. CASE ConsumerStops(i)
      BY <2>5 DEF ConsumerStops, Becomes
    <2>6. CASE CancelDelivered(i)
      BY <2>6 DEF CancelDelivered, Becomes
    <2>7. CASE ConsumerStopFails(i)
      BY <2>7 DEF ConsumerStopFails, Becomes
    <2> QED
      BY <1>13, <2>1, <2>2, <2>3, <2>4, <2>5, <2>6, <2>7 DEF TaskStep
  <1>14. CASE UNCHANGED vars
    BY <1>14 DEF vars
  <1> QED
    BY <1>1, <1>2, <1>3, <1>4, <1>5, <1>6, <1>7, <1>8, <1>9,
       <1>10, <1>11, <1>12, <1>13, <1>14 DEF Next, MainStep

\* While nobody interrupts the process, a consumer that stops is cancelled again only
\* by the end of asyncio.run, behind a task that failed.
LEMMA CancelInvStep ==
  ASSUME TypeOK, PhaseInv, CancelInv, [Next]_vars
  PROVE  CancelInv'
  <1> USE DEF TypeOK, Ended, Live, Failed, taskVars, PhaseInv, CancelInv, BehindFailed
  <1>1. CASE StartProcess
    BY <1>1 DEF StartProcess, Forget
  <1>2. CASE StartupFails
    BY <1>2 DEF StartupFails
  <1>3. CASE CreateTasks
    BY <1>3 DEF CreateTasks
  <1>4. CASE GatherEnds
    BY <1>4 DEF GatherEnds
  <1>5. CASE AwaitNext
    BY <1>5 DEF AwaitNext, GoOn
  <1>6. CASE RaiseAgain
    BY <1>6 DEF RaiseAgain
  <1>7. CASE PublisherStopFails
    BY <1>7 DEF PublisherStopFails
  <1>8. CASE PublisherStopped
    BY <1>8 DEF PublisherStopped
  <1>9. CASE Exit
    BY <1>9 DEF Exit
  <1>10. CASE HeartbeatFails
    BY <1>10 DEF HeartbeatFails, Becomes
  <1>11. CASE Interrupt
    BY <1>11 DEF Interrupt
  <1>12. CASE Kill
    BY <1>12 DEF Kill, Forget
  <1>13. ASSUME NEW i \in Tasks, TaskStep(i)
        PROVE  CancelInv'
    <2>1. CASE BeginTask(i)
      BY <2>1 DEF BeginTask, Becomes
    <2>2. CASE ConsumerStarts(i)
      BY <2>2 DEF ConsumerStarts, Becomes
    <2>3. CASE ConsumerStartFails(i)
      BY <2>3 DEF ConsumerStartFails, Becomes
    <2>4. CASE ConsumerRaises(i)
      BY <2>4 DEF ConsumerRaises, Becomes
    <2>5. CASE ConsumerStops(i)
      BY <2>5 DEF ConsumerStops, Becomes
    <2>6. CASE CancelDelivered(i)
      BY <2>6 DEF CancelDelivered, Becomes
    <2>7. CASE ConsumerStopFails(i)
      BY <2>7 DEF ConsumerStopFails, Becomes
    <2> QED
      BY <1>13, <2>1, <2>2, <2>3, <2>4, <2>5, <2>6, <2>7 DEF TaskStep
  <1>14. CASE UNCHANGED vars
    BY <1>14 DEF vars
  <1> QED
    BY <1>1, <1>2, <1>3, <1>4, <1>5, <1>6, <1>7, <1>8, <1>9,
       <1>10, <1>11, <1>12, <1>13, <1>14 DEF Next, MainStep

\* What each phase of run() knows, and why a consumer is cancelled twice.
THEOREM RuntimeInvariant == Spec => []RuntimeInv
  <1>1. Init => RuntimeInv
    BY DEF Init, RuntimeInv, PhaseInv, CancelInv, Live, Ended, Failed
  <1>2. TypeOK /\ RuntimeInv /\ [Next]_vars => RuntimeInv'
    BY PhaseInvStep, CancelInvStep DEF RuntimeInv
  <1> QED
    BY <1>1, <1>2, TypeCorrect, PTL DEF Spec

-----------------------------------------------------------------------------
(* The properties                                                          *)

\* No task is ever without a started producer (worker.py:82-85).
THEOREM ProducerOutlivesTasks == Spec => []LiveTasksHaveProducer
  <1>1. TypeOK /\ RuntimeInv => LiveTasksHaveProducer
    BY DEF RuntimeInv, PhaseInv, TypeOK, LiveTasksHaveProducer, Live
  <1> QED
    BY <1>1, RuntimeInvariant, TypeCorrect, PTL

\* Only a process with a failed task exits with its publisher open (kafka.py:353-355).
THEOREM OpenOnlyByFailure == Spec => []LeftOpenOnlyByFailure
  <1>1. RuntimeInv => LeftOpenOnlyByFailure
    BY DEF RuntimeInv, PhaseInv, LeftOpenOnlyByFailure
  <1> QED
    BY <1>1, RuntimeInvariant, PTL

\* Without an interrupt a Kafka consumer is left open only behind a failed task, or
\* when it was failing itself (kafka.py:351-355).
THEOREM ConsumersStoppedInOrder == Spec => []StoppedInOrder
  <1>1. TypeOK /\ RuntimeInv => StoppedInOrder
    BY DEF RuntimeInv, PhaseInv, CancelInv, TypeOK, StoppedInOrder, Live, Failed, Ended
  <1> QED
    BY <1>1, RuntimeInvariant, TypeCorrect, PTL

-----------------------------------------------------------------------------
(* Heartbeats that are missed                                              *)

\* The longest time between two stamps, and k of them.
Step == Period + Slack
Missed(k) == k * Step

\* A period and its slack are a number of ticks.
LEMMA StepTyped == Step \in Nat /\ Period \in Nat /\ Slack \in Nat /\ Period <= Step
  BY HealthAssumption DEF Step, Period

\* One more heartbeat that is lost costs one more step.
LEMMA MissedTyped ==
  ASSUME NEW k \in Nat
  PROVE  Missed(k) \in Nat /\ Missed(k + 1) = Missed(k) + Step
  BY StepTyped DEF Missed

\* Fewer lost heartbeats cost no more time.
LEMMA MissedGrows ==
  ASSUME NEW k \in Nat, NEW n \in Nat, k <= n
  PROVE  Missed(k) <= Missed(n)
  <1>1. n - k \in Nat /\ n = k + (n - k)
    OBVIOUS
  <1>2. (n - k) * Step \in Nat
    BY <1>1, StepTyped
  <1>3. Missed(n) = Missed(k) + (n - k) * Step
    BY <1>1, StepTyped DEF Missed
  <1>4. Missed(k) \in Nat
    BY MissedTyped
  <1> QED
    BY <1>2, <1>3, <1>4

\* Nothing is missed when nothing is lost.
LEMMA MissedNone == Missed(0) = 0
  BY StepTyped DEF Missed

\* The two bounds of the model in these terms.
LEMMA BoundsTyped ==
  /\ MaxLost \in Nat /\ Delay \in Nat /\ Threshold \in Nat /\ Grace \in Nat
  /\ Grace = Slack + Missed(MaxLost) + Delay
  /\ Missed(MaxLost + 1) + Delay <= Threshold
  <1>1. MaxLost \in Nat /\ Delay \in Nat /\ Ttl \in Nat /\ Slack \in Nat
    BY HealthAssumption
  <1>2. Missed(MaxLost) \in Nat
    BY <1>1, MissedTyped
  <1>3. Grace = Slack + Missed(MaxLost) + Delay
    BY DEF Grace, Missed, Step
  <1>4. Missed(MaxLost + 1) + Delay = MissedBeats
    BY DEF MissedBeats, Missed, Step
  <1> QED
    BY <1>1, <1>2, <1>3, <1>4, HealthAssumption DEF Threshold

-----------------------------------------------------------------------------
(* The inductive invariant                                                 *)

\* The age the next heartbeat would have if it were on its way: not yet positive.
Due == since - Step

\* The row, or the short time the task has run, allows for k heartbeats lost
\* between the row and the heartbeat of this age.
Fresh(age, k) ==
  rowAge <= Missed(k) + Step + age \/ up <= Slack + Missed(k) + age

\* The heartbeat of the age `younger` follows in time behind that of the age `older`.
Follows(older, younger) == older <= Step + younger \/ up <= Slack + younger

\* The types of what WorkerHealth adds to the process.
HealthTyped ==
  /\ since \in 0 .. Step
  /\ up \in Nat
  /\ silent \in 0 .. Horizon
  /\ flight \in SUBSET (0 .. Delay)
  /\ rowAge \in Nat
  /\ lost \in 0 .. MaxLost

\* Without a process nothing is younger than the silence.
SilentInv ==
  /\ ~NoProcess => silent = 0
  /\ rowAge >= silent
  /\ \A age \in flight : age >= silent

\* While the task runs, some heartbeat on its way, or the next one, comes in time
\* for the row; and each is followed in time by a younger one, or by the next.
BeatInv ==
  /\ ~Beating => up = 0
  /\ Beating =>
       /\ Fresh(Due, lost) \/ \E age \in flight : Fresh(age, lost)
       /\ \A age \in flight :
            \/ Follows(age, Due)
            \/ \E younger \in flight : younger < age /\ Follows(age, younger)

HealthInv == HealthTyped /\ SilentInv /\ BeatInv

-----------------------------------------------------------------------------
(* The process underneath                                                  *)

\* A step of HealthNext is one of the process or leaves it alone.
LEMMA ProcessStep ==
  ASSUME [HealthNext]_allVars
  PROVE  [Next]_vars
  BY DEF HealthNext, allVars, InProcess, Beat, Project, Lose, Tick

\* The process with its heartbeats behaves as the process alone: whatever is proved of
\* every task and of the shutdown holds while heartbeats are sent, delayed and lost
\* (worker.py:25-44 only publishes and sleeps).
THEOREM HealthImplementsProcess == HealthSpec => Spec
  <1>1. HealthInit => Init
    BY DEF HealthInit
  <1>2. [HealthNext]_allVars => [Next]_vars
    BY ProcessStep
  <1> QED
    BY <1>1, <1>2, PTL DEF HealthSpec, Spec

\* So the invariant of the process holds here.
LEMMA ProcessInvariant == HealthSpec => [](TypeOK /\ PhaseInv)
  <1>1. RuntimeInv => PhaseInv
    BY DEF RuntimeInv
  <1> QED
    BY <1>1, HealthImplementsProcess, TypeCorrect, RuntimeInvariant, PTL

\* Without a process no heartbeat task runs.
LEMMA NoBeatWithoutProcess ==
  ASSUME TypeOK, PhaseInv, NoProcess
  PROVE  ~Beating
  BY DEF TypeOK, PhaseInv, NoProcess, Beating, Live, Ended

-----------------------------------------------------------------------------
(* Steps                                                                   *)

\* The heartbeats and their row keep their types.
LEMMA TypedStep ==
  ASSUME TypeOK, HealthTyped, [HealthNext]_allVars
  PROVE  HealthTyped'
  <1> USE StepTyped, BoundsTyped DEF HealthTyped, Horizon
  <1>1. CASE InProcess(Next)
    BY <1>1 DEF InProcess
  <1>2. CASE Beat
    BY <1>2 DEF Beat
  <1>3. ASSUME NEW age \in flight, Project(age)
        PROVE  HealthTyped'
    BY <1>3 DEF Project
  <1>4. ASSUME NEW age \in flight, Lose(age)
        PROVE  HealthTyped'
    BY <1>4 DEF Lose
  <1>5. CASE Tick
    BY <1>5 DEF Tick, UpTo, Step
  <1>6. CASE UNCHANGED allVars
    BY <1>6 DEF allVars, healthVars
  <1> QED
    BY <1>1, <1>2, <1>3, <1>4, <1>5, <1>6 DEF HealthNext

\* Nothing becomes younger than the silence.
LEMMA SilentStep ==
  ASSUME TypeOK, PhaseInv, HealthTyped, SilentInv, [HealthNext]_allVars
  PROVE  SilentInv'
  <1> USE BoundsTyped DEF HealthTyped, SilentInv, Horizon
  <1>1. CASE InProcess(Next)
    BY <1>1 DEF InProcess
  <1>2. CASE Beat
    <2>1. ~NoProcess
      BY <1>2, NoBeatWithoutProcess DEF Beat
    <2> QED
      BY <1>2, <2>1 DEF Beat, NoProcess, vars
  <1>3. ASSUME NEW age \in flight, Project(age)
        PROVE  SilentInv'
    BY <1>3 DEF Project, NoProcess, vars
  <1>4. ASSUME NEW age \in flight, Lose(age)
        PROVE  SilentInv'
    BY <1>4 DEF Lose, NoProcess, vars
  <1>5. CASE Tick
    BY <1>5 DEF Tick, UpTo, NoProcess, vars
  <1>6. CASE UNCHANGED allVars
    BY <1>6 DEF allVars, healthVars, NoProcess, vars
  <1> QED
    BY <1>1, <1>2, <1>3, <1>4, <1>5, <1>6 DEF HealthNext

\* What an older heartbeat is in time for, a younger one that follows in time is, if
\* one more is lost.
LEMMA FreshThroughLoss ==
  ASSUME HealthTyped, NEW k \in Nat, NEW older \in Int, NEW younger \in Int,
         Fresh(older, k), Follows(older, younger)
  PROVE  Fresh(younger, k + 1)
  BY StepTyped, MissedTyped, BoundsTyped DEF HealthTyped, Fresh, Follows

\* The chain from the row to the next heartbeat holds through every step.
LEMMA BeatStep ==
  ASSUME TypeOK, HealthTyped, BeatInv, [HealthNext]_allVars
  PROVE  BeatInv'
  <1> USE StepTyped, BoundsTyped DEF HealthTyped
  <1>0. lost \in Nat /\ Due \in Int /\ Due <= 0 /\ flight \subseteq Int
    BY DEF Due
  <1>1. CASE InProcess(Next)
    <2>1. flight' = flight /\ rowAge' = rowAge /\ lost' = lost
      BY <1>1 DEF InProcess
    <2>2. CASE ~Beating'
      BY <1>1, <2>2 DEF InProcess, BeatInv
    <2>3. CASE Beating' /\ Beating
      <3>1. since' = since /\ up' = up
        BY <1>1, <2>3 DEF InProcess
      <3> QED
        BY <2>1, <2>3, <3>1 DEF BeatInv, Fresh, Follows, Due
    <2>4. CASE Beating' /\ ~Beating
      <3>1. since' = Period /\ up' = 0
        BY <1>1, <2>4 DEF InProcess, BeatInv
      <3>2. Due' = -Slack
        BY <3>1 DEF Due, Step
      <3>3. Missed(lost) \in Nat
        BY <1>0, MissedTyped
      <3>4. Fresh(Due, lost)'
        BY <2>1, <3>1, <3>2, <3>3 DEF Fresh
      <3>5. \A age \in flight' : Follows(age, Due)'
        BY <2>1, <3>1, <3>2 DEF Follows
      <3> QED
        BY <2>4, <3>4, <3>5 DEF BeatInv
    <2> QED
      BY <2>2, <2>3, <2>4
  <1>2. CASE Beat
    <2>1. /\ Beating' /\ Beating
          /\ since' = 0 /\ flight' = flight \cup {0}
          /\ up' = up /\ rowAge' = rowAge /\ lost' = lost
      BY <1>2 DEF Beat, Beating, vars, taskVars
    <2>2. Due' = -Step
      BY <2>1 DEF Due
    <2>3. Missed(lost) \in Nat
      BY <1>0, MissedTyped
    <2>4. (\E age \in flight : Fresh(age, lost))'
      <3>1. CASE Fresh(Due, lost)
        <4>1. Fresh(0, lost)'
          BY <1>0, <2>1, <2>3, <3>1 DEF Fresh
        <4> QED
          BY <2>1, <4>1
      <3>2. ASSUME NEW age \in flight, Fresh(age, lost)
            PROVE  (\E other \in flight : Fresh(other, lost))'
        BY <2>1, <3>2 DEF Fresh
      <3> QED
        BY <2>1, <3>1, <3>2 DEF BeatInv
    <2>5. ASSUME NEW age \in flight'
          PROVE  (\/ Follows(age, Due)
                  \/ \E younger \in flight : younger < age /\ Follows(age, younger))'
      <3>1. CASE age = 0
        BY <2>2, <3>1 DEF Follows
      <3>2. CASE age # 0
        <4>1. age \in flight /\ age > 0
          BY <2>1, <3>2
        <4>2. CASE Follows(age, Due)
          <5>1. Follows(age, 0)'
            BY <1>0, <2>1, <4>1, <4>2 DEF Follows
          <5> QED
            BY <2>1, <4>1, <5>1
        <4>3. ASSUME NEW younger \in flight, younger < age, Follows(age, younger)
              PROVE  (\E other \in flight : other < age /\ Follows(age, other))'
          BY <2>1, <4>3 DEF Follows
        <4> QED
          BY <2>1, <4>1, <4>2, <4>3 DEF BeatInv
      <3> QED
        BY <3>1, <3>2
    <2> QED
      BY <2>1, <2>4, <2>5 DEF BeatInv
  <1>3. ASSUME NEW age \in flight, Project(age)
        PROVE  BeatInv'
    <2>1. /\ flight' = flight \ {age} /\ rowAge' = age /\ lost' = 0
          /\ UNCHANGED <<since, up, Beating>>
      BY <1>3 DEF Project, Beating, vars, taskVars
    <2>2. \A other \in flight : other <= age
      BY <1>3 DEF Project, Oldest
    <2>3. CASE ~Beating
      BY <2>1, <2>3 DEF BeatInv
    <2>4. CASE Beating
      <3>1. (Fresh(Due, lost) \/ \E other \in flight : Fresh(other, lost))'
        <4>1. CASE Follows(age, Due)
          BY <2>1, <4>1, MissedNone DEF Fresh, Follows, Due
        <4>2. ASSUME NEW younger \in flight, younger < age, Follows(age, younger)
              PROVE  (\E other \in flight : Fresh(other, lost))'
          <5>1. younger \in flight'
            BY <2>1, <4>2
          <5>2. Fresh(younger, lost)'
            BY <1>0, <2>1, <4>2, MissedNone DEF Fresh, Follows
          <5> QED
            BY <5>1, <5>2
        <4> QED
          BY <2>4, <4>1, <4>2 DEF BeatInv
      <3>2. ASSUME NEW older \in flight'
            PROVE  (\/ Follows(older, Due)
                    \/ \E younger \in flight : younger < older /\ Follows(older, younger))'
        <4>1. older \in flight /\ older <= age
          BY <2>1, <2>2
        <4>2. CASE Follows(older, Due)
          BY <2>1, <4>2 DEF Follows, Due
        <4>3. ASSUME NEW younger \in flight, younger < older, Follows(older, younger)
              PROVE  (\E other \in flight : other < older /\ Follows(older, other))'
          BY <1>0, <2>1, <4>1, <4>3 DEF Follows
        <4> QED
          BY <2>4, <4>1, <4>2, <4>3 DEF BeatInv
      <3> QED
        BY <2>1, <2>4, <3>1, <3>2 DEF BeatInv
    <2> QED
      BY <2>3, <2>4
  <1>4. ASSUME NEW age \in flight, Lose(age)
        PROVE  BeatInv'
    <2>1. /\ flight' = flight \ {age} /\ lost' = lost + 1
          /\ UNCHANGED <<since, up, rowAge, Beating>>
      BY <1>4 DEF Lose, Beating, vars, taskVars
    <2>2. \A other \in flight : other <= age
      BY <1>4 DEF Lose, Oldest
    <2>3. CASE ~Beating
      BY <2>1, <2>3 DEF BeatInv
    <2>4. CASE Beating
      <3>1. (Fresh(Due, lost) \/ \E other \in flight : Fresh(other, lost))'
        <4>1. CASE Fresh(Due, lost)
          <5>1. Missed(lost) \in Nat /\ Missed(lost + 1) = Missed(lost) + Step
            BY <1>0, MissedTyped
          <5>2. Fresh(Due, lost + 1)
            BY <1>0, <4>1, <5>1 DEF Fresh
          <5> QED
            BY <2>1, <5>2 DEF Fresh, Due
        <4>2. ASSUME NEW other \in flight, Fresh(other, lost)
              PROVE  (Fresh(Due, lost) \/ \E younger \in flight : Fresh(younger, lost))'
          <5>1. Missed(lost) \in Nat
            BY <1>0, MissedTyped
          <5>2. Fresh(age, lost)
            BY <1>0, <2>2, <4>2, <5>1 DEF Fresh
          <5>3. CASE Follows(age, Due)
            <6>1. Fresh(Due, lost + 1)
              BY <1>0, <5>2, <5>3, FreshThroughLoss
            <6> QED
              BY <2>1, <6>1 DEF Fresh, Due
          <5>4. ASSUME NEW younger \in flight, younger < age, Follows(age, younger)
                PROVE  (\E another \in flight : Fresh(another, lost))'
            <6>1. Fresh(younger, lost + 1)
              BY <1>0, <5>2, <5>4, FreshThroughLoss
            <6>2. younger \in flight'
              BY <2>1, <5>4
            <6>3. Fresh(younger, lost)'
              BY <2>1, <6>1 DEF Fresh
            <6> QED
              BY <6>2, <6>3
          <5> QED
            BY <2>4, <5>3, <5>4 DEF BeatInv
        <4> QED
          BY <2>4, <4>1, <4>2 DEF BeatInv
      <3>2. ASSUME NEW older \in flight'
            PROVE  (\/ Follows(older, Due)
                    \/ \E younger \in flight : younger < older /\ Follows(older, younger))'
        <4>1. older \in flight /\ older <= age
          BY <2>1, <2>2
        <4>2. CASE Follows(older, Due)
          BY <2>1, <4>2 DEF Follows, Due
        <4>3. ASSUME NEW younger \in flight, younger < older, Follows(older, younger)
              PROVE  (\E other \in flight : other < older /\ Follows(older, other))'
          BY <1>0, <2>1, <4>1, <4>3 DEF Follows
        <4> QED
          BY <2>4, <4>1, <4>2, <4>3 DEF BeatInv
      <3> QED
        BY <2>1, <2>4, <3>1, <3>2 DEF BeatInv
    <2> QED
      BY <2>3, <2>4
  <1>5. CASE Tick
    <2>1. UNCHANGED <<lost, Beating>>
      BY <1>5 DEF Tick, Beating, vars, taskVars
    <2>2. flight' = {age + 1 : age \in flight} /\ rowAge' <= rowAge + 1 /\ rowAge' \in Nat
      BY <1>5 DEF Tick, UpTo, Horizon
    <2>3. CASE ~Beating
      BY <1>5, <2>1, <2>3 DEF Tick, BeatInv
    <2>4. CASE Beating
      <3>1. up' <= up + 1 /\ up' \in Nat /\ Due' = Due + 1
        BY <1>5, <2>4 DEF Tick, UpTo, Due
      <3>2. ASSUME NEW age \in Int, Fresh(age, lost)
            PROVE  rowAge' <= Missed(lost) + Step + (age + 1) \/ up' <= Slack + Missed(lost) + (age + 1)
        <4>1. Missed(lost) \in Nat
          BY <1>0, MissedTyped
        <4> QED
          BY <2>2, <3>1, <3>2, <4>1 DEF Fresh
      <3>3. ASSUME NEW older \in Int, NEW younger \in Int, Follows(older, younger)
            PROVE  older + 1 <= Step + (younger + 1) \/ up' <= Slack + (younger + 1)
        BY <3>1, <3>3 DEF Follows
      <3>4. (Fresh(Due, lost) \/ \E age \in flight : Fresh(age, lost))'
        <4>1. CASE Fresh(Due, lost)
          BY <1>0, <2>1, <3>1, <3>2, <4>1 DEF Fresh
        <4>2. ASSUME NEW age \in flight, Fresh(age, lost)
              PROVE  (\E other \in flight : Fresh(other, lost))'
          <5>1. age + 1 \in flight'
            BY <2>2
          <5>2. Fresh(age + 1, lost)'
            BY <1>0, <2>1, <3>2, <4>2 DEF Fresh
          <5> QED
            BY <5>1, <5>2
        <4> QED
          BY <2>4, <4>1, <4>2 DEF BeatInv
      <3>5. ASSUME NEW grown \in flight'
            PROVE  (\/ Follows(grown, Due)
                    \/ \E younger \in flight : younger < grown /\ Follows(grown, younger))'
        <4>1. PICK age \in flight : grown = age + 1
          BY <2>2
        <4>2. CASE Follows(age, Due)
          BY <1>0, <3>1, <3>3, <4>1, <4>2 DEF Follows
        <4>3. ASSUME NEW younger \in flight, younger < age, Follows(age, younger)
              PROVE  (\E other \in flight : other < grown /\ Follows(grown, other))'
          <5>1. younger + 1 \in flight' /\ younger + 1 < grown
            BY <1>0, <2>2, <4>1, <4>3
          <5>2. Follows(grown, younger + 1)'
            BY <1>0, <3>3, <4>1, <4>3 DEF Follows
          <5> QED
            BY <5>1, <5>2
        <4> QED
          BY <2>4, <4>2, <4>3 DEF BeatInv
      <3> QED
        BY <2>1, <2>4, <3>4, <3>5 DEF BeatInv
    <2> QED
      BY <2>3, <2>4
  <1>6. CASE UNCHANGED allVars
    <2>1. UNCHANGED <<since, up, flight, rowAge, lost, Beating>>
      BY <1>6 DEF allVars, healthVars, vars, taskVars, Beating
    <2> QED
      BY <2>1 DEF BeatInv, Fresh, Follows, Due
  <1> QED
    BY <1>1, <1>2, <1>3, <1>4, <1>5, <1>6 DEF HealthNext

-----------------------------------------------------------------------------
(* The theorems                                                            *)

\* Ages, silence and the chain of heartbeats hold in every state.
THEOREM HealthInvariant == HealthSpec => []HealthInv
  <1>1. HealthInit => HealthInv
    <2>1. HealthInit => ~Beating
      BY DEF HealthInit, Init, Beating
    <2> QED
      BY <2>1, StepTyped, BoundsTyped
         DEF HealthInit, HealthInv, HealthTyped, SilentInv, BeatInv, Horizon
  <1>2. TypeOK /\ PhaseInv /\ HealthInv /\ [HealthNext]_allVars => HealthInv'
    BY TypedStep, SilentStep, BeatStep DEF HealthInv
  <1> QED
    BY <1>1, <1>2, ProcessInvariant, PTL DEF HealthSpec

\* Once there has been no process for longer than the threshold, the worker shows as
\* stale, whatever heartbeats arrive late (health.py:165-172).
THEOREM DeadIsReported == HealthSpec => []DeadReported
  <1>1. HealthInv => DeadReported
    BY BoundsTyped DEF HealthInv, HealthTyped, SilentInv, DeadReported, Stale, Horizon
  <1> QED
    BY <1>1, HealthInvariant, PTL

\* A worker whose heartbeat task has run for its grace never shows as stale, for any
\* period, slack, delay and number of lost heartbeats that MissedBeats leaves below
\* the threshold (worker.py:39, health.py:165).
THEOREM LiveIsNotStale == HealthSpec => []LiveNotStale
  <1>1. ASSUME HealthInv, Beating, up > Grace
        PROVE  rowAge <= Threshold
    <2> USE StepTyped, BoundsTyped DEF HealthInv, HealthTyped
    <2>1. lost \in Nat /\ lost <= MaxLost /\ rowAge \in Nat
      BY <1>1
    <2>2. Missed(lost) \in Nat /\ Missed(lost) <= Missed(MaxLost)
      BY <2>1, MissedTyped, MissedGrows
    <2>3. Missed(MaxLost + 1) = Missed(MaxLost) + Step /\ Missed(MaxLost) \in Nat
      BY MissedTyped
    <2>4. PICK age \in Int : age <= Delay /\ Fresh(age, lost)
      BY <1>1 DEF BeatInv, Due
    <2>5. rowAge <= Missed(lost) + Step + age
      BY <1>1, <2>2, <2>3, <2>4 DEF Fresh
    <2> QED
      BY <2>1, <2>2, <2>3, <2>4, <2>5
  <1>2. HealthInv => LiveNotStale
    <2>1. HealthInv => rowAge \in Nat
      BY DEF HealthInv, HealthTyped
    <2>2. Threshold \in Nat
      BY BoundsTyped
    <2> QED
      BY <1>1, <2>1, <2>2 DEF LiveNotStale, Stale
  <1> QED
    BY <1>2, HealthInvariant, PTL

=============================================================================
