----------------------- MODULE RegistryCatalogProofs -----------------------
(***************************************************************************)
(* Proofs about RegistryCatalog, for any entities, names and numbers of    *)
(* commands and faults.                                                    *)
(***************************************************************************)
EXTENDS RegistryCatalog, TLAPS

-----------------------------------------------------------------------------
(* Steps                                                                   *)

\* Ids of one kind are of no other.
LEMMA Disjoint ==
  /\ Agents \cap Environments = {} /\ Agents \cap Deployments = {}
  /\ Models \cap Environments = {} /\ Models \cap Deployments = {}
  /\ Graphs \cap Environments = {} /\ Graphs \cap Deployments = {}
  /\ Graphs \cap Agents = {} /\ Graphs \cap Models = {}
  /\ Tools \cap Environments = {} /\ Tools \cap Deployments = {}
  /\ Environments \cap Deployments = {} /\ Agents \cap Models = {}
  /\ Tools \cap Agents = {} /\ Tools \cap Models = {}
  BY RegistryAssumption

\* An entity is one of the six kinds.
LEMMA EntityKinds ==
  Entities = Agents \cup Models \cup Graphs \cup Tools \cup Environments \cup Deployments
  BY DEF Entities, Kinds

\* What the event of a create looks like, and which rows its client has read.
CreatedAs(e, event) ==
  /\ event.op = "created"
  /\ event.name \in Names
  /\ event.refs \subseteq Entities
  /\ Fresh(e)
  /\ e \notin Deployments => event.refs \cap Environments = {}
  /\ e \in Deployments =>
       \A r \in event.refs \ Environments : r \in Agents \cup Models /\ Seen(r)

\* What a command appends to the partition of e.
Issued(e, event) ==
  /\ event \in Event
  /\ issued < MaxCommands
  /\ issued' = issued + 1
  /\ log' = [log EXCEPT ![e] = Append(@, event)]
  /\ \/ CreatedAs(e, event) /\ accepted' \subseteq accepted \cup {e}
     \/ event.op # "created" /\ Known(e) /\ accepted' \subseteq accepted
  /\ \/ faults' = faults
     \/ faults < MaxFaults /\ faults' = faults + 1
  /\ UNCHANGED readVars

\* A create is such a command.
LEMMA CreateIssues ==
  ASSUME NEW e \in Entities, NEW n \in Names, NEW refs \in SUBSET Entities,
         Create(e, n, refs),
         e \notin Deployments => refs \cap Environments = {},
         e \in Deployments => \A r \in refs \ Environments : r \in Agents \cup Models /\ Seen(r)
  PROVE  \E x \in Entities, event \in Event : Issued(x, event)
  <1> DEFINE event == [op |-> "created", name |-> n, refs |-> refs]
  <1>1. event \in Event
    BY DEF Event
  <1>2. CreatedAs(e, event)
    BY DEF Create, CreatedAs
  <1>3. Issued(e, event)
    BY <1>1, <1>2 DEF Create, Command, Issued, Fault
  <1> QED
    BY <1>1, <1>3

\* Updates and deletes are.
LEMMA ChangeIssues ==
  ASSUME NEW e \in Entities, Update(e) \/ Delete(e)
  PROVE  \E x \in Entities, event \in Event : Issued(x, event)
  <1> DEFINE EventOf(op) == [op |-> op, name |-> NoName, refs |-> {}]
  <1>1. EventOf("updated") \in Event /\ EventOf("deleted") \in Event
    BY DEF Event
  <1>2. CASE Update(e)
    <2>1. Issued(e, EventOf("updated"))
      BY <1>1, <1>2 DEF Update, Command, Issued, Fault
    <2> QED
      BY <1>1, <2>1
  <1>3. CASE Delete(e)
    <2>1. Issued(e, EventOf("deleted"))
      BY <1>1, <1>3 DEF Delete, Command, Issued, Fault
    <2> QED
      BY <1>1, <2>1
  <1> QED
    BY <1>2, <1>3

\* All eighteen commands are.
LEMMA CommandIssues ==
  ASSUME Commands
  PROVE  \E x \in Entities, event \in Event : Issued(x, event)
  <1> USE EntityKinds, Disjoint
  <1>1. CASE CreateAgent
    <2>1. PICK a \in Agents, n \in Names :
            Create(a, n, {}) \/ \E g \in Graphs : Create(a, n, {g})
      BY <1>1 DEF CreateAgent
    <2> QED
      BY <2>1, CreateIssues
  <1>2. CASE CreateModel
    BY <1>2, CreateIssues DEF CreateModel
  <1>3. CASE CreateGraph
    BY <1>3, CreateIssues DEF CreateGraph
  <1>4. CASE CreateTool
    BY <1>4, CreateIssues DEF CreateTool
  <1>5. CASE CreateEnvironment
    BY <1>5, CreateIssues DEF CreateEnvironment
  <1>6. CASE CreateDeployment
    <2>1. PICK d \in Deployments, a \in Agents, v \in Environments, n \in Names :
            /\ Seen(a)
            /\ \/ Create(d, n, {a, v})
               \/ \E m \in Models : Seen(m) /\ Create(d, n, {a, v, m})
      BY <1>6 DEF CreateDeployment
    <2>2. CASE Create(d, n, {a, v})
      BY <2>1, <2>2, CreateIssues
    <2>3. ASSUME NEW m \in Models, Seen(m), Create(d, n, {a, v, m})
          PROVE  \E x \in Entities, event \in Event : Issued(x, event)
      BY <2>1, <2>3, CreateIssues
    <2> QED
      BY <2>1, <2>2, <2>3
  <1>7. ASSUME NEW e \in Entities, Update(e) \/ Delete(e)
        PROVE  \E x \in Entities, event \in Event : Issued(x, event)
    BY <1>7, ChangeIssues
  <1> QED
    BY <1>1, <1>2, <1>3, <1>4, <1>5, <1>6, <1>7
       DEF Commands, UpdateAgent, DeleteAgent, UpdateModel, DeleteModel, UpdateGraph,
           DeleteGraph, UpdateTool, DeleteTool, UpdateEnvironment, DeleteEnvironment,
           UpdateDeployment, DeleteDeployment

-----------------------------------------------------------------------------
(* Type correctness                                                        *)

\* A partition is no longer than the number of events published, and an id that was
\* answered has its create in its partition.
LogInv ==
  /\ \A e \in Entities : Len(log[e]) <= issued
  /\ \A e \in accepted : log[e] # <<>>
  /\ \A e \in Entities : \A i \in DOMAIN log[e] :
       /\ log[e][i].op = "created" => log[e][i].name \in Names
       /\ i > 1 => log[e][i].op # "created"

TypeInv == TypeOK /\ LogInv

\* A partition is a sequence of events.
LEMMA LogTyped ==
  ASSUME TypeOK
  PROVE  \A x \in Entities :
           /\ Len(log[x]) \in Nat /\ DOMAIN log[x] = 1 .. Len(log[x])
           /\ \A i \in 1 .. Len(log[x]) : log[x][i] \in Event
           /\ log[x] = <<>> <=> Len(log[x]) = 0
  <1> SUFFICES ASSUME NEW x \in Entities
               PROVE  /\ Len(log[x]) \in Nat /\ DOMAIN log[x] = 1 .. Len(log[x])
                      /\ \A i \in 1 .. Len(log[x]) : log[x][i] \in Event
                      /\ log[x] = <<>> <=> Len(log[x]) = 0
    OBVIOUS
  <1>1. log[x] \in Seq(Event)
    BY DEF TypeOK
  <1> QED
    BY <1>1

\* An event that is due has a place in its partition, and settling it moves the
\* partition no further than that.
LEMMA DueTyped ==
  ASSUME TypeOK, NEW e \in Entities, NEW i \in Due(e)
  PROVE  /\ i \in 1 .. Len(log[e]) /\ i \in DOMAIN log[e] /\ log[e][i] \in Event
         /\ i \notin applied[e] /\ i \in 1 .. Reach(e, i)
         /\ read[e] \in Nat /\ Reach(e, i) \in 0 .. Len(log[e]) /\ read[e] <= Reach(e, i)
  <1>1. /\ Len(log[e]) \in Nat /\ DOMAIN log[e] = 1 .. Len(log[e])
        /\ \A j \in 1 .. Len(log[e]) : log[e][j] \in Event
    BY LogTyped
  <1>2. i \in 1 .. Len(log[e]) /\ i \notin applied[e]
    BY DEF Due
  <1>3. read[e] \in 0 .. Len(log[e])
    BY DEF TypeOK
  <1> QED
    BY <1>1, <1>2, <1>3 DEF Reach

\* What is applied has its place in the partition.
LEMMA AppliedTyped ==
  ASSUME TypeOK
  PROVE  \A x \in Entities :
           applied[x] \subseteq 1 .. Len(log[x]) /\ overtaken[x] \subseteq applied[x]
  <1> SUFFICES ASSUME NEW x \in Entities
               PROVE  applied[x] \subseteq 1 .. Len(log[x]) /\ overtaken[x] \subseteq applied[x]
    OBVIOUS
  <1>1. /\ applied[x] \subseteq 1 .. read[x] /\ read[x] \in 0 .. Len(log[x])
        /\ overtaken[x] \subseteq applied[x] /\ Len(log[x]) \in Nat
    BY LogTyped DEF TypeOK
  <1> QED
    BY <1>1

\* What is appended is last, and the rest stays where it is.
LEMMA LogGrows ==
  ASSUME TypeOK, NEW e \in Entities, NEW event \in Event, Issued(e, event)
  PROVE  /\ log' \in [Entities -> Seq(Event)]
         /\ \A x \in Entities : x # e => log'[x] = log[x]
         /\ Len(log'[e]) = Len(log[e]) + 1 /\ log'[e] # <<>>
         /\ DOMAIN log'[e] = 1 .. Len(log[e]) + 1
         /\ \A i \in 1 .. Len(log[e]) : log'[e][i] = log[e][i]
         /\ log'[e][Len(log[e]) + 1] = event
         /\ CreatedAs(e, event) => Len(log[e]) = 0
  <1>1. log' = [log EXCEPT ![e] = Append(@, event)] /\ event \in Event
    BY DEF Issued
  <1>2. log[e] \in Seq(Event) /\ log'[e] = Append(log[e], event)
    BY <1>1 DEF TypeOK
  <1>3. CreatedAs(e, event) => log[e] = <<>>
    BY DEF CreatedAs, Fresh
  <1>4. log' \in [Entities -> Seq(Event)] /\ \A x \in Entities : x # e => log'[x] = log[x]
    <2>1. Append(log[e], event) \in Seq(Event)
      BY <1>1, <1>2
    <2> QED
      BY <1>1, <2>1 DEF TypeOK
  <1>5. /\ Len(log'[e]) = Len(log[e]) + 1 /\ log'[e] # <<>>
        /\ DOMAIN log'[e] = 1 .. Len(log[e]) + 1
        /\ \A i \in 1 .. Len(log[e]) : log'[e][i] = log[e][i]
        /\ log'[e][Len(log[e]) + 1] = event
    BY <1>1, <1>2
  <1> QED
    BY <1>3, <1>4, <1>5

\* A create finds the partition empty; whatever else is issued finds an id that is
\* known.
LEMMA IssueKeepsTypes ==
  ASSUME TypeInv, NEW e \in Entities, NEW event \in Event, Issued(e, event)
  PROVE  TypeInv'
  <1> USE DEF TypeInv
  <1>1. /\ event \in Event /\ issued \in 0 .. MaxCommands /\ issued' = issued + 1
        /\ issued < MaxCommands /\ MaxCommands \in Nat /\ MaxFaults \in Nat
    BY RegistryAssumption, SMTT(30) DEF Issued, TypeOK
  <1>2. accepted' \subseteq accepted \cup {e}
    BY DEF Issued
  <1>3. TypeOK'
    <2>1. /\ read' = read /\ parked' = parked /\ rows' = rows
          /\ applied' = applied /\ overtaken' = overtaken
      BY DEF Issued, readVars
    <2>2. faults' \in 0 .. MaxFaults
      BY <1>1 DEF Issued, TypeOK
    <2>3. \A x \in Entities : read'[x] \in 0 .. Len(log'[x])
      <3> TAKE x \in Entities
      <3>1. Len(log'[x]) = Len(log[x]) \/ Len(log'[x]) = Len(log[x]) + 1
        BY LogGrows
      <3> QED
        BY <2>1, <3>1, LogTyped DEF TypeOK
    <2>4. log' \in [Entities -> Seq(Event)] /\ accepted' \subseteq Entities
      BY <1>2, LogGrows DEF TypeOK
    <2>5. issued' \in 0 .. MaxCommands
      BY <1>1
    <2> QED
      BY <2>1, <2>2, <2>3, <2>4, <2>5 DEF TypeOK
  <1>4. LogInv'
    <2>1. \A x \in Entities : Len(log'[x]) <= issued'
      <3> TAKE x \in Entities
      <3>1. Len(log'[x]) = Len(log[x]) \/ Len(log'[x]) = Len(log[x]) + 1
        BY LogGrows
      <3> QED
        BY <1>1, <3>1, LogTyped DEF LogInv
    <2>2. \A x \in accepted' : log'[x] # <<>>
      <3> SUFFICES ASSUME NEW x \in accepted'
                   PROVE  log'[x] # <<>>
        OBVIOUS
      <3>1. CASE x = e
        BY <3>1, LogGrows
      <3>2. CASE x # e
        BY <1>2, <3>2, LogGrows DEF LogInv, TypeOK
      <3> QED
        BY <3>1, <3>2
    <2>3. ASSUME NEW x \in Entities, NEW i \in DOMAIN log'[x]
          PROVE  /\ log'[x][i].op = "created" => log'[x][i].name \in Names
                 /\ i > 1 => log'[x][i].op # "created"
      <3>1. CASE x # e
        BY <2>3, <3>1, LogGrows DEF LogInv
      <3>2. CASE x = e /\ i \in 1 .. Len(log[e])
        <4>1. i \in DOMAIN log[e] /\ log'[e][i] = log[e][i]
          BY <3>2, LogGrows, LogTyped
        <4> QED
          BY <3>2, <4>1 DEF LogInv
      <3>3. CASE x = e /\ i = Len(log[e]) + 1
        <4>1. log'[x][i] = event
          BY <3>3, LogGrows
        <4>2. CreatedAs(e, event) => i = 1
          BY <3>3, LogGrows
        <4> QED
          BY <4>1, <4>2 DEF Issued, CreatedAs
      <3>4. x = e => i \in 1 .. Len(log[e]) \/ i = Len(log[e]) + 1
        BY <2>3, LogGrows, LogTyped
      <3> QED
        BY <3>1, <3>2, <3>3, <3>4
    <2> QED
      BY <2>1, <2>2, <2>3 DEF LogInv
  <1> QED
    BY <1>3, <1>4

\* A row that is written has the revision of the event that writes it.
LEMMA ProjectKeepsTypes ==
  ASSUME TypeInv, NEW e \in Entities, NEW i \in DOMAIN log[e], Project(e, i)
  PROVE  TypeInv'
  <1> USE DEF TypeInv
  <1> DEFINE event == log[e][i]
  <1>1. i \in Due(e)
    BY DEF Project
  <1>2. /\ i \in 1 .. Len(log[e]) /\ event \in Event /\ i \in 1 .. Reach(e, i)
        /\ read[e] \in Nat /\ Reach(e, i) \in 0 .. Len(log[e]) /\ read[e] <= Reach(e, i)
    BY <1>1, DueTyped
  <1>3. i \in 0 .. MaxCommands /\ 0 \in 0 .. MaxCommands
    BY <1>2, LogTyped, RegistryAssumption DEF LogInv, TypeOK
  <1>4. rows' \in [Entities -> Row]
    <2>1. Absent \in Row
      BY <1>3 DEF Absent, Row
    <2>2. CASE event.op = "created"
      <3>1. rows' = Upserted(e, i)
        BY <2>2 DEF Project
      <3>2. /\ [name |-> event.name, rev |-> 0, refs |-> {}] \in Row
            /\ [name |-> IF e \in Deployments THEN NoName ELSE event.name,
                rev |-> i, refs |-> event.refs] \in Row
        BY <1>2, <1>3 DEF Row, Event
      <3> QED
        BY <3>1, <3>2 DEF Upserted, TypeOK
    <2>3. CASE event.op = "updated"
      <3>1. rows' = Updated(e, i) /\ rows[e] \in Row
        BY <2>3 DEF Project, TypeOK
      <3>2. [rows[e] EXCEPT !.rev = i] \in Row
        BY <1>3, <3>1 DEF Row
      <3> QED
        BY <3>1, <3>2 DEF Updated, TypeOK
    <2>4. CASE event.op = "deleted"
      <3>1. rows' = Removed(e)
        BY <2>4 DEF Project
      <3>2. \A x \in Entities : [rows[x] EXCEPT !.refs = @ \ {e}] \in Row
        <4> TAKE x \in Entities
        <4>1. rows[x] \in Row
          BY DEF TypeOK
        <4>2. rows[x].refs \ {e} \in SUBSET Entities
          BY <4>1 DEF Row
        <4> QED
          BY <4>1, <4>2 DEF Row
      <3> QED
        BY <2>1, <3>1, <3>2 DEF Removed
    <2> QED
      BY <1>2, <2>2, <2>3, <2>4 DEF Event
  <1>5. /\ read' = [read EXCEPT ![e] = Reach(e, i)]
        /\ applied' = [applied EXCEPT ![e] = @ \cup {i}]
        /\ UNCHANGED <<log, accepted, issued, parked, faults>>
    BY DEF Project, commandVars
  <1>6. overtaken' = overtaken \/ overtaken' = [overtaken EXCEPT ![e] = @ \cup {i}]
    BY DEF Project
  <1>7. ASSUME NEW x \in Entities
        PROVE  /\ read'[x] \in 0 .. Len(log[x]) /\ read[x] <= read'[x]
               /\ applied'[x] \subseteq 1 .. read'[x]
               /\ overtaken'[x] \subseteq applied'[x]
    <2>1. CASE x = e
      <3>1. /\ read'[e] = Reach(e, i) /\ applied'[e] = applied[e] \cup {i}
            /\ overtaken'[e] \subseteq overtaken[e] \cup {i}
            /\ applied[e] \subseteq 1 .. read[e] /\ overtaken[e] \subseteq applied[e]
        BY <1>5, <1>6 DEF TypeOK
      <3>2. 1 .. read[e] \subseteq 1 .. Reach(e, i)
        BY <1>2
      <3> QED
        BY <1>2, <2>1, <3>1, <3>2
    <2>2. CASE x # e
      <3>1. read'[x] = read[x] /\ applied'[x] = applied[x] /\ overtaken'[x] = overtaken[x]
        BY <1>5, <1>6, <2>2 DEF TypeOK
      <3>2. read[x] \in 0 .. Len(log[x])
        BY DEF TypeOK
      <3> QED
        BY <3>1, <3>2 DEF TypeOK
    <2> QED
      BY <2>1, <2>2
  <1>8. /\ read' \in [Entities -> Nat] /\ applied' \in [Entities -> SUBSET Nat]
        /\ overtaken' \in [Entities -> SUBSET Nat]
    <2>1. i \in Nat /\ Reach(e, i) \in Nat
      BY <1>2, LogTyped
    <2>2. read' \in [Entities -> Nat]
      BY <1>5, <2>1 DEF TypeOK
    <2>3. applied' \in [Entities -> SUBSET Nat]
      BY <1>5, <2>1 DEF TypeOK
    <2>4. overtaken' \in [Entities -> SUBSET Nat]
      <3>1. [overtaken EXCEPT ![e] = @ \cup {i}] \in [Entities -> SUBSET Nat]
        BY <2>1 DEF TypeOK
      <3> QED
        BY <1>6, <3>1 DEF TypeOK
    <2> QED
      BY <2>2, <2>3, <2>4
  <1>9. \A p \in parked' : p[1] \in Entities /\ p[2] \in 1 .. read'[p[1]] /\ p[3] \in Reasons
    <2> TAKE p \in parked'
    <2>1. p[1] \in Entities /\ p[2] \in 1 .. read[p[1]] /\ p[3] \in Reasons
      BY <1>5 DEF TypeOK
    <2>2. read[p[1]] \in Nat /\ read'[p[1]] \in Nat /\ read[p[1]] <= read'[p[1]]
      BY <1>7, <1>8, <2>1 DEF TypeOK
    <2> QED
      BY <2>1, <2>2
  <1>10. TypeOK'
    BY <1>4, <1>5, <1>7, <1>8, <1>9 DEF TypeOK
  <1> QED
    BY <1>5, <1>10 DEF LogInv

\* A parked event is one that was read.
LEMMA ParkKeepsTypes ==
  ASSUME TypeInv, NEW e \in Entities, NEW i \in DOMAIN log[e], NEW reason \in Reasons,
         Park(e, i, reason), faults' \in 0 .. MaxFaults
  PROVE  TypeInv'
  <1> USE DEF TypeInv
  <1>1. i \in Due(e)
    BY DEF Park
  <1>2. /\ i \in 1 .. Reach(e, i) /\ read[e] \in Nat
        /\ Reach(e, i) \in 0 .. Len(log[e]) /\ read[e] <= Reach(e, i)
    BY <1>1, DueTyped
  <1>3. /\ read' = [read EXCEPT ![e] = Reach(e, i)]
        /\ parked' = parked \cup {<<e, i, reason>>}
        /\ UNCHANGED <<log, accepted, issued, applied, overtaken, rows>>
    BY DEF Park, commandVars
  <1>4. ASSUME NEW x \in Entities
        PROVE  /\ read'[x] \in 0 .. Len(log[x]) /\ read[x] <= read'[x]
               /\ applied[x] \subseteq 1 .. read'[x]
    <2>1. read[x] \in 0 .. Len(log[x]) /\ applied[x] \subseteq 1 .. read[x]
      BY DEF TypeOK
    <2>2. CASE x = e
      <3>1. read'[e] = Reach(e, i)
        BY <1>3 DEF TypeOK
      <3>2. 1 .. read[e] \subseteq 1 .. Reach(e, i)
        BY <1>2
      <3> QED
        BY <1>2, <2>1, <2>2, <3>1, <3>2
    <2>3. CASE x # e
      BY <1>3, <2>1, <2>3 DEF TypeOK
    <2> QED
      BY <2>2, <2>3
  <1>5. read' \in [Entities -> Nat] /\ read'[e] = Reach(e, i)
    <2>1. Reach(e, i) \in Nat
      BY <1>2, LogTyped
    <2> QED
      BY <1>3, <2>1 DEF TypeOK
  <1>6. ASSUME NEW p \in parked'
        PROVE  p[1] \in Entities /\ p[2] \in 1 .. read'[p[1]] /\ p[3] \in Reasons
    <2>1. CASE p \in parked
      <3>1. p[1] \in Entities /\ p[2] \in 1 .. read[p[1]] /\ p[3] \in Reasons
        BY <2>1 DEF TypeOK
      <3>2. read[p[1]] \in Nat /\ read'[p[1]] \in Nat /\ read[p[1]] <= read'[p[1]]
        BY <1>4, <1>5, <3>1 DEF TypeOK
      <3> QED
        BY <3>1, <3>2
    <2>2. CASE p = <<e, i, reason>>
      <3>1. p[1] = e /\ p[2] = i /\ p[3] = reason
        BY <2>2
      <3> QED
        BY <1>2, <1>5, <3>1
    <2>3. p \in parked \/ p = <<e, i, reason>>
      BY <1>3, <1>6
    <2> QED
      BY <2>1, <2>2, <2>3
  <1>7. TypeOK'
    BY <1>3, <1>4, <1>5, <1>6 DEF TypeOK
  <1> QED
    BY <1>3, <1>7 DEF LogInv

\* What Next does: a command, an event projected, an event parked.
LEMMA StepForms ==
  ASSUME TypeOK, Next
  PROVE  \/ \E e \in Entities, event \in Event : Issued(e, event)
         \/ \E e \in Entities : \E i \in DOMAIN log[e] : Project(e, i)
         \/ \E e \in Entities : \E i \in DOMAIN log[e] : \E r \in Reasons :
              /\ Park(e, i, r)
              /\ r # "transient" => r \in Violations(e, i)
              /\ faults' \in 0 .. MaxFaults
  <1>1. CASE Commands
    BY <1>1, CommandIssues
  <1>2. ASSUME NEW e \in Entities, NEW i \in DOMAIN log[e], ParkRefused(e, i)
        PROVE  \E r \in Reasons :
                 /\ Park(e, i, r)
                 /\ r # "transient" => r \in Violations(e, i)
                 /\ faults' \in 0 .. MaxFaults
    BY <1>2 DEF ParkRefused, Violations, TypeOK
  <1>3. ASSUME NEW e \in Entities, NEW i \in DOMAIN log[e], ParkTransient(e, i)
        PROVE  Park(e, i, "transient") /\ faults' \in 0 .. MaxFaults /\ "transient" \in Reasons
    BY <1>3, RegistryAssumption DEF ParkTransient, Fault, Reasons, TypeOK
  <1> QED
    BY <1>1, <1>2, <1>3 DEF Next, Consume

\* Every variable of the registry keeps its type.
THEOREM TypeCorrect == Spec => []TypeOK
  <1>1. Init => TypeInv
    BY RegistryAssumption DEF Init, TypeInv, TypeOK, LogInv, Row, Absent
  <1>2. TypeInv /\ [Next]_vars => TypeInv'
    <2>1. CASE Next /\ TypeInv
      BY <2>1, StepForms, IssueKeepsTypes, ProjectKeepsTypes, ParkKeepsTypes DEF TypeInv
    <2>2. CASE UNCHANGED vars
      BY <2>2 DEF vars, commandVars, readVars, TypeInv, TypeOK, LogInv
    <2> QED
      BY <2>1, <2>2
  <1>3. TypeInv => TypeOK
    BY DEF TypeInv
  <1> QED
    BY <1>1, <1>2, <1>3, PTL DEF Spec

-----------------------------------------------------------------------------
(* The inductive invariant                                                 *)

\* The partition of anything but an environment starts with its create, ...
Origins == \A e \in Entities \ Environments : log[e] # <<>> => log[e][1].op = "created"

\* ... in which only a deployment refers to an environment, and to agents and models
\* that show: its client has read their versions.
Needs ==
  \A e \in Entities \ Environments : log[e] # <<>> =>
    /\ e \notin Deployments => log[e][1].refs \cap Environments = {}
    /\ e \in Deployments =>
         \A r \in log[e][1].refs \ Environments : r \in Agents \cup Models /\ Shown(r)

\* What a row referred to when it was written has been created, and is not again.
Backed ==
  \A e \in Entities \ Environments : Shown(e) =>
    \A r \in log[e][1].refs \ Environments : 1 \in applied[r]

\* Agents and models stay.
Permanent == \A e \in Agents \cup Models : 1 \in applied[e] => Shown(e)

\* A row is told from none by more than its references.
Solid == \A e \in Entities : Shown(e) => rows[e].rev > 0 \/ rows[e].name # NoName

CatalogInv ==
  /\ TypeInv
  /\ Origins /\ Needs /\ Backed /\ Permanent /\ Solid
  /\ RowFollowsPartition /\ DeploymentComplete /\ VersionsStayResolvable

-----------------------------------------------------------------------------
(* Commands                                                                *)

\* A client that has read an agent's or model's version has read its row.
LEMMA SeenShows ==
  ASSUME CatalogInv, NEW e \in Entities \ Environments, Seen(e)
  PROVE  1 \in applied[e]
  <1>1. PICK x \in Entities : 1 \in applied[x] /\ e \in Written(x, log[x][1])
    BY DEF Seen
  <1>2. e = x
    BY <1>1 DEF Written
  <1> QED
    BY <1>1, <1>2

\* A command changes neither what was applied nor the events that were.
LEMMA IssueKeepsApplied ==
  ASSUME TypeInv, NEW e \in Entities, NEW event \in Event, Issued(e, event)
  PROVE  /\ \A x \in Entities : applied'[x] = applied[x] /\ (Ended(x)' <=> Ended(x))
         /\ \A x \in Entities : log[x] # <<>> => log'[x] # <<>> /\ log'[x][1] = log[x][1]
         /\ rows' = rows /\ parked' = parked /\ applied' = applied /\ overtaken' = overtaken
  <1>1. rows' = rows /\ parked' = parked /\ applied' = applied /\ overtaken' = overtaken
    BY DEF Issued, readVars
  <1>2. \A x \in Entities : \A i \in 1 .. Len(log[x]) : log'[x][i] = log[x][i]
    BY LogGrows DEF TypeInv
  <1>3. \A x \in Entities : log[x] # <<>> => log'[x] # <<>> /\ log'[x][1] = log[x][1]
    <2> SUFFICES ASSUME NEW x \in Entities, log[x] # <<>>
                 PROVE  log'[x] # <<>> /\ log'[x][1] = log[x][1]
      OBVIOUS
    <2>1. 1 \in 1 .. Len(log[x])
      BY LogTyped DEF TypeInv
    <2> QED
      BY <1>2, <2>1, LogGrows DEF TypeInv
  <1>4. \A x \in Entities : applied'[x] = applied[x]
    BY <1>1
  <1>5. \A x \in Entities : applied[x] \subseteq 1 .. Len(log[x])
    BY AppliedTyped DEF TypeInv
  <1>6. \A x \in Entities : Ended(x)' <=> Ended(x)
    BY <1>2, <1>4, <1>5 DEF Ended
  <1> QED
    BY <1>1, <1>3, <1>4, <1>6

\* What was applied was issued.
LEMMA AppliedIssued ==
  ASSUME TypeInv, NEW e \in Entities, 1 \in applied[e]
  PROVE  log[e] # <<>>
  BY LogTyped, AppliedTyped DEF TypeInv

\* A command keeps the invariant.
LEMMA IssueKeepsInv ==
  ASSUME CatalogInv, NEW e \in Entities, NEW event \in Event, Issued(e, event)
  PROVE  CatalogInv'
  <1>1. TypeInv /\ TypeInv'
    BY IssueKeepsTypes DEF CatalogInv
  <1>2. /\ \A x \in Entities : applied'[x] = applied[x] /\ (Ended(x)' <=> Ended(x))
        /\ \A x \in Entities : log[x] # <<>> => log'[x] # <<>> /\ log'[x][1] = log[x][1]
        /\ rows' = rows /\ parked' = parked /\ applied' = applied /\ overtaken' = overtaken
    BY <1>1, IssueKeepsApplied
  <1>3. \A x \in Entities : Shown(x)' <=> Shown(x)
    BY <1>2 DEF Shown
  <1>4. \A x \in Entities \ Environments : Shown(x) => log[x] # <<>>
    BY <1>1, AppliedIssued DEF CatalogInv, RowFollowsPartition
  <1>5. log[e] = <<>> => log'[e][1] = event
    BY <1>1, LogGrows, LogTyped DEF TypeInv
  <1>6. e \notin Environments /\ log[e] = <<>> => CreatedAs(e, event)
    <2>1. SUFFICES ASSUME e \notin Environments, log[e] = <<>>, Known(e)
                   PROVE  FALSE
      BY <2>1 DEF Issued
    <2>2. e \in accepted \/ Seen(e)
      BY <2>1 DEF Known
    <2> QED
      BY <1>1, <2>1, <2>2, SeenShows, AppliedIssued DEF TypeInv, LogInv
  <1>7. \A x \in Entities : x # e => log'[x] = log[x]
    BY <1>1, LogGrows DEF TypeInv
  <1>8. Origins'
    BY <1>2, <1>5, <1>6, <1>7 DEF CatalogInv, Origins, CreatedAs
  <1>9. Needs'
    <2> SUFFICES ASSUME NEW x \in Entities \ Environments, log'[x] # <<>>
                 PROVE  /\ x \notin Deployments => log'[x][1].refs \cap Environments = {}
                        /\ x \in Deployments =>
                             \A r \in log'[x][1].refs \ Environments :
                               r \in Agents \cup Models /\ Shown(r)'
      BY DEF Needs
    <2>1. CASE log[x] # <<>>
      <3>1. log'[x][1] = log[x][1] /\ log[x][1].refs \subseteq Entities
        <4>1. log[x][1] \in Event
          BY <1>1, <2>1, LogTyped DEF TypeInv
        <4> QED
          BY <1>2, <2>1, <4>1 DEF Event
      <3> QED
        BY <1>3, <2>1, <3>1 DEF CatalogInv, Needs
    <2>2. CASE log[x] = <<>>
      <3>1. x = e /\ log'[x][1] = event /\ CreatedAs(e, event)
        BY <1>5, <1>6, <1>7, <2>2
      <3>2. \A r \in event.refs \ Environments : Seen(r) => 1 \in applied[r]
        BY <3>1, SeenShows DEF CreatedAs
      <3> QED
        BY <1>3, <3>1, <3>2 DEF CreatedAs, CatalogInv, Permanent
    <2> QED
      BY <2>1, <2>2
  <1>10. Backed'
    <2> SUFFICES ASSUME NEW x \in Entities \ Environments, Shown(x)',
                        NEW r \in log'[x][1].refs \ Environments
                 PROVE  1 \in applied'[r]
      BY DEF Backed
    <2>1. Shown(x) /\ log'[x][1] = log[x][1]
      BY <1>2, <1>3, <1>4
    <2>2. 1 \in applied[r]
      BY <2>1 DEF CatalogInv, Backed
    <2> QED
      BY <1>2, <2>2
  <1>11. Permanent' /\ Solid'
    BY <1>2, <1>3, EntityKinds DEF CatalogInv, Permanent, Solid
  <1>12. RowFollowsPartition'
    <2> SUFFICES ASSUME NEW x \in Entities \ Environments
                 PROVE  /\ 1 \in applied'[x] /\ ~Ended(x)' => Shown(x)'
                        /\ Shown(x)' =>
                             /\ 1 \in applied'[x]
                             /\ Ended(x)' => 1 \in overtaken'[x]
                             /\ rows'[x].rev \in applied'[x]
                             /\ \/ rows'[x].rev \in overtaken'[x]
                                \/ \A j \in applied'[x] : j <= rows'[x].rev
                             /\ rows'[x].refs = {r \in log'[x][1].refs : Shown(r)'}
      BY DEF RowFollowsPartition
    <2>1. Shown(x) => log'[x][1] = log[x][1]
      BY <1>2, <1>4
    <2>2. Shown(x) => \A r : Shown(r)' <=> Shown(r)
      BY <1>2 DEF Shown
    <2> QED
      BY <1>2, <1>3, <2>1, <2>2 DEF CatalogInv, RowFollowsPartition
  <1>13. DeploymentComplete'
    <2>1. \A r : Shown(r)' <=> Shown(r)
      BY <1>2 DEF Shown
    <2>2. \A d \in Deployments : Shown(d) => log'[d][1] = log[d][1]
      BY <1>2, <1>4, Disjoint, EntityKinds
    <2> QED
      BY <2>1, <2>2 DEF CatalogInv, DeploymentComplete
  <1>14. VersionsStayResolvable'
    BY <1>2 DEF CatalogInv, VersionsStayResolvable
  <1> QED
    BY <1>1, <1>8, <1>9, <1>10, <1>11, <1>12, <1>13, <1>14 DEF CatalogInv

-----------------------------------------------------------------------------
(* Events that are parked                                                  *)

\* Parking keeps the invariant: a deployment is never parked for a reference.
LEMMA ParkKeepsInv ==
  ASSUME CatalogInv, NEW e \in Entities, NEW i \in DOMAIN log[e], NEW reason \in Reasons, Park(e, i, reason),
         reason # "transient" => reason \in Violations(e, i), faults' \in 0 .. MaxFaults
  PROVE  CatalogInv'
  <1>1. TypeInv /\ TypeInv'
    BY ParkKeepsTypes DEF CatalogInv
  <1>2. /\ log' = log /\ rows' = rows /\ applied' = applied /\ overtaken' = overtaken
        /\ parked' = parked \cup {<<e, i, reason>>}
    BY DEF Park, commandVars
  <1>3. \A x : (Shown(x)' <=> Shown(x)) /\ (Ended(x)' <=> Ended(x))
    BY <1>2 DEF Shown, Ended
  <1>4. Origins' /\ Needs' /\ Solid' /\ DeploymentComplete'
    BY <1>2, <1>3 DEF CatalogInv, Origins, Needs, Solid, DeploymentComplete
  <1>5. Permanent'
    BY <1>2, <1>3, EntityKinds DEF CatalogInv, Permanent
  <1>6. RowFollowsPartition'
    BY <1>2, <1>3 DEF CatalogInv, RowFollowsPartition
  <1>7. Backed'
    BY <1>2, <1>3 DEF CatalogInv, Backed
  <1>8. VersionsStayResolvable'
    <2> SUFFICES ASSUME e \in Deployments, reason = "reference"
                 PROVE  FALSE
      BY <1>2 DEF CatalogInv, VersionsStayResolvable
    <2>1. log[e][i].op = "created" /\ RefMissing(e, log[e][i])
      BY DEF Violations
    <2>2. i \in 1 .. Len(log[e]) /\ Len(log[e]) \in Nat
      BY <1>1, LogTyped DEF TypeInv
    <2>3. i = 1 /\ log[e] # <<>>
      BY <1>1, <2>1, <2>2, LogTyped DEF TypeInv, LogInv
    <2>4. PICK r \in log[e][1].refs \ Written(e, log[e][1]) : ~Shown(r)
      BY <2>1, <2>3 DEF RefMissing
    <2>5. r \notin Environments
      BY <2>4 DEF Written
    <2> QED
      BY <2>3, <2>4, <2>5, Disjoint DEF CatalogInv, Needs
  <1> QED
    BY <1>1, <1>4, <1>5, <1>6, <1>7, <1>8 DEF CatalogInv

-----------------------------------------------------------------------------
(* Events that are projected                                               *)

\* An event that is projected is applied, overtaken if one behind it was, and nothing
\* else is any more or less.
LEMMA ProjectApplies ==
  ASSUME TypeInv, NEW e \in Entities, NEW i \in DOMAIN log[e], Project(e, i)
  PROVE  /\ log' = log /\ parked' = parked
         /\ i \in Nat \ {0} /\ i \notin applied[e] /\ log[e] # <<>>
         /\ applied'[e] = applied[e] \cup {i}
         /\ \A j \in applied[e] : j \in Nat
         /\ overtaken[e] \subseteq overtaken'[e]
         /\ (\E j \in applied[e] : j > i) => i \in overtaken'[e]
         /\ \A x \in Entities : x # e => applied'[x] = applied[x] /\ overtaken'[x] = overtaken[x]
         /\ log[e][i] \in Event
         /\ log[e][i].op = "created" => i = 1 /\ log[e][i].name \in Names
  <1>1. /\ log' = log /\ parked' = parked
        /\ applied' = [applied EXCEPT ![e] = @ \cup {i}]
        /\ i \in Due(e)
    BY DEF Project, commandVars
  <1>2. i \in 1 .. Len(log[e]) /\ i \notin applied[e] /\ log[e][i] \in Event
    BY <1>1, DueTyped DEF TypeInv
  <1>3. log[e] # <<>> /\ Len(log[e]) \in Nat /\ \A j \in applied[e] : j \in Nat
    BY <1>2, LogTyped, AppliedTyped DEF TypeInv
  <1>4. log[e][i].op = "created" => i = 1 /\ log[e][i].name \in Names
    BY <1>2, <1>3 DEF TypeInv, LogInv
  <1>5. /\ applied'[e] = applied[e] \cup {i}
        /\ \A x \in Entities : x # e => applied'[x] = applied[x]
    BY <1>1 DEF TypeInv, TypeOK
  <1>6. /\ overtaken[e] \subseteq overtaken'[e]
        /\ (\E j \in applied[e] : j > i) => i \in overtaken'[e]
        /\ \A x \in Entities : x # e => overtaken'[x] = overtaken[x]
    <2>1. /\ (\E j \in applied[e] : j > i) => overtaken' = [overtaken EXCEPT ![e] = @ \cup {i}]
          /\ ~(\E j \in applied[e] : j > i) => overtaken' = overtaken
      BY DEF Project
    <2> QED
      BY <2>1 DEF TypeInv, TypeOK
  <1> QED
    BY <1>1, <1>2, <1>3, <1>4, <1>5, <1>6

\* The rows a create leaves behind.
LEMMA CreateRows ==
  ASSUME TypeInv, NEW e \in Entities, NEW i \in DOMAIN log[e], Project(e, i), log[e][i].op = "created"
  PROVE  /\ i = 1 /\ log[e] # <<>> /\ log[e][1].op = "created"
         /\ \A x \in Entities : Shown(x)' <=> Shown(x) \/ x \in Written(e, log[e][1])
         /\ \A x \in Entities \ Written(e, log[e][1]) : rows'[x] = rows[x]
         /\ rows'[e].rev = 1 /\ rows'[e].refs = log[e][1].refs
         /\ \A x \in Written(e, log[e][1]) : rows'[x].rev = 1 \/ rows'[x].name \in Names
         /\ \A r \in log[e][1].refs \ Written(e, log[e][1]) : Shown(r)
         /\ log[e][1].refs \subseteq Entities
  <1> DEFINE event == log[e][1]
  <1>1. /\ i = 1 /\ event \in Event /\ event.op = "created"
        /\ event.name \in Names /\ log[e] # <<>>
    BY ProjectApplies
  <1>2. rows' = Upserted(e, i) /\ i = 1
    BY <1>1 DEF Project
  <1>3. event.refs \subseteq Entities /\ event.name # NoName
    BY <1>1, RegistryAssumption DEF Event
  <1>4. rows'[e] = [name |-> IF e \in Deployments THEN NoName ELSE event.name,
                    rev |-> 1, refs |-> event.refs]
    BY <1>1, <1>2 DEF Upserted
  <1>5. \A x \in Written(e, event) \ {e} :
          rows'[x] = [name |-> event.name, rev |-> 0, refs |-> {}]
    BY <1>2, <1>3 DEF Upserted, Written
  <1>6. \A x \in Entities \ Written(e, event) : rows'[x] = rows[x]
    BY <1>2 DEF Upserted, Written
  <1>7. \A x \in Written(e, event) : Shown(x)'
    BY <1>3, <1>4, <1>5 DEF Shown, Absent
  <1>8. \A r \in event.refs \ Written(e, event) : Shown(r)
    <2>1. ~RefMissing(e, event)
      BY <1>1 DEF Project, Violations, Reasons
    <2> QED
      BY <2>1 DEF RefMissing
  <1> QED
    BY <1>1, <1>3, <1>4, <1>5, <1>6, <1>7, <1>8 DEF Shown

\* An update touches no row but its own, and there the revision.
LEMMA UpdateRows ==
  ASSUME TypeInv, NEW e \in Entities, NEW i \in DOMAIN log[e], Project(e, i), log[e][i].op = "updated"
  PROVE  /\ \A x \in Entities : Shown(x)' <=> Shown(x)
         /\ \A x \in Entities : rows'[x].refs = rows[x].refs
         /\ \A x \in Entities : x # e => rows'[x] = rows[x]
         /\ Shown(e) => rows'[e].rev = i
  <1>1. rows' = Updated(e, i) /\ i \in Nat \ {0}
    BY ProjectApplies DEF Project
  <1>2. CASE ~Shown(e)
    BY <1>1, <1>2 DEF Updated, Shown
  <1>3. CASE Shown(e)
    <2>1. rows' = [rows EXCEPT ![e].rev = i] /\ rows[e] \in Row
      BY <1>1, <1>3 DEF Updated, TypeInv, TypeOK
    <2>2. rows'[e].rev = i /\ rows'[e].refs = rows[e].refs
      BY <2>1 DEF Row, TypeInv, TypeOK
    <2>3. \A x \in Entities : x # e => rows'[x] = rows[x]
      BY <2>1 DEF TypeInv, TypeOK
    <2>4. Shown(e)'
      BY <1>1, <2>2 DEF Shown, Absent
    <2> QED
      BY <1>3, <2>2, <2>3, <2>4 DEF Shown
  <1> QED
    BY <1>2, <1>3

\* A delete takes its row, and the row from the references of the others; it is
\* refused when a row depends on it.
LEMMA DeleteRows ==
  ASSUME TypeInv, Solid, NEW e \in Entities, NEW i \in DOMAIN log[e], Project(e, i), log[e][i].op = "deleted"
  PROVE  /\ ~Shown(e)'
         /\ \A x \in Entities : x # e =>
              /\ Shown(x)' <=> Shown(x)
              /\ rows'[x].rev = rows[x].rev /\ rows'[x].name = rows[x].name
              /\ rows'[x].refs = rows[x].refs \ {e}
         /\ Shown(e) => e \notin Agents \cup Models
         /\ Shown(e) /\ e \in Environments => \A d \in Deployments : e \notin rows[d].refs
  <1>1. rows' = Removed(e) /\ \A x \in Entities : rows[x] \in Row
    BY DEF Project, TypeInv, TypeOK
  <1>2. ~Shown(e)'
    BY <1>1 DEF Removed, Shown
  <1>3. ASSUME NEW x \in Entities, x # e
        PROVE  /\ Shown(x)' <=> Shown(x)
               /\ rows'[x].rev = rows[x].rev /\ rows'[x].name = rows[x].name
               /\ rows'[x].refs = rows[x].refs \ {e}
    <2>1. rows'[x] = [rows[x] EXCEPT !.refs = @ \ {e}] /\ rows[x] \in Row
      BY <1>1, <1>3 DEF Removed
    <2>2. /\ rows'[x].rev = rows[x].rev /\ rows'[x].name = rows[x].name
          /\ rows'[x].refs = rows[x].refs \ {e}
      BY <2>1 DEF Row
    <2>3. ~Shown(x) => ~Shown(x)'
      <3> SUFFICES ASSUME rows[x] = Absent
                   PROVE  rows'[x] = Absent
        BY DEF Shown
      <3>1. Absent.refs \ {e} = Absent.refs
        BY DEF Absent
      <3> QED
        BY <2>1, <3>1 DEF Absent
    <2>4. Shown(x) => Shown(x)'
      BY <1>3, <2>1, <2>2 DEF Solid, Shown, Absent, Row
    <2> QED
      BY <2>2, <2>3, <2>4
  <1>4. Shown(e) => ~HasDependents(e)
    BY DEF Project, Violations, Reasons
  <1> QED
    BY <1>2, <1>3, <1>4 DEF HasDependents

\* What can be said of an event of any kind: partitions stay, what was applied stays
\* applied, and the fate of all other entities is the same.
LEMMA ProjectCommon ==
  ASSUME CatalogInv, NEW e \in Entities, NEW i \in DOMAIN log[e], Project(e, i)
  PROVE  /\ log' = log /\ parked' = parked
         /\ \A x \in Entities : applied[x] \subseteq applied'[x]
         /\ \A x \in Entities : x # e => /\ applied'[x] = applied[x]
                                         /\ overtaken'[x] = overtaken[x]
                                         /\ (Ended(x)' <=> Ended(x))
         /\ applied'[e] = applied[e] \cup {i} /\ i \notin applied[e]
         /\ Ended(e)' <=> Ended(e) \/ log[e][i].op = "deleted"
         /\ \A j \in applied[e] : j \in Nat
         /\ overtaken[e] \subseteq overtaken'[e]
         /\ (\E j \in applied[e] : j > i) => i \in overtaken'[e]
         /\ i \in Nat \ {0}
         /\ e \notin Environments => (i = 1 <=> log[e][i].op = "created")
         /\ \A x \in Entities \ Environments : Shown(x) =>
              log[x] # <<>> /\ log[x][1].refs \subseteq Entities
         /\ Origins' /\ VersionsStayResolvable'
  <1> USE DEF CatalogInv
  <1>1. /\ log' = log /\ parked' = parked
        /\ i \in Nat \ {0} /\ i \notin applied[e] /\ log[e] # <<>>
        /\ applied'[e] = applied[e] \cup {i}
        /\ \A j \in applied[e] : j \in Nat
        /\ overtaken[e] \subseteq overtaken'[e]
        /\ (\E j \in applied[e] : j > i) => i \in overtaken'[e]
        /\ \A x \in Entities : x # e => applied'[x] = applied[x] /\ overtaken'[x] = overtaken[x]
        /\ log[e][i].op = "created" => i = 1
    BY ProjectApplies
  <1>2. \A x \in Entities : x # e => (Ended(x)' <=> Ended(x))
    BY <1>1 DEF Ended
  <1>3. Ended(e)' <=> Ended(e) \/ log[e][i].op = "deleted"
    BY <1>1 DEF Ended
  <1>4. e \notin Environments => (i = 1 <=> log[e][i].op = "created")
    BY <1>1 DEF Origins
  <1>5. \A x \in Entities \ Environments : Shown(x) =>
          log[x] # <<>> /\ log[x][1].refs \subseteq Entities
    <2> SUFFICES ASSUME NEW x \in Entities \ Environments, Shown(x)
                 PROVE  log[x] # <<>> /\ log[x][1].refs \subseteq Entities
      OBVIOUS
    <2>1. log[x] # <<>>
      BY AppliedIssued DEF RowFollowsPartition
    <2>2. log[x][1] \in Event
      BY <2>1, LogTyped DEF TypeInv
    <2> QED
      BY <2>1, <2>2 DEF Event
  <1>6. Origins' /\ VersionsStayResolvable'
    BY <1>1 DEF Origins, VersionsStayResolvable
  <1> QED
    BY <1>1, <1>2, <1>3, <1>4, <1>5, <1>6

\* The create of an entity keeps the invariant.
LEMMA CreateKeepsInv ==
  ASSUME CatalogInv, NEW e \in Entities, NEW i \in DOMAIN log[e], Project(e, i), log[e][i].op = "created"
  PROVE  CatalogInv'
  <1> DEFINE written == Written(e, log[e][1])
  <1>1. TypeInv /\ TypeInv'
    BY ProjectKeepsTypes DEF CatalogInv
  <1>2. /\ log[e] # <<>> /\ log[e][1].op = "created"
        /\ \A x \in Entities : Shown(x)' <=> Shown(x) \/ x \in written
        /\ \A x \in Entities \ written : rows'[x] = rows[x]
        /\ rows'[e].rev = 1 /\ rows'[e].refs = log[e][1].refs
        /\ \A x \in written : rows'[x].rev = 1 \/ rows'[x].name \in Names
        /\ \A r \in log[e][1].refs \ written : Shown(r)
        /\ log[e][1].refs \subseteq Entities
    BY <1>1, CreateRows
  <1>3. /\ log' = log
        /\ \A x \in Entities : applied[x] \subseteq applied'[x]
        /\ \A x \in Entities : x # e => /\ applied'[x] = applied[x]
                                        /\ overtaken'[x] = overtaken[x]
                                        /\ (Ended(x)' <=> Ended(x))
        /\ \A x \in Entities \ Environments : Shown(x) =>
             log[x] # <<>> /\ log[x][1].refs \subseteq Entities
        /\ Origins' /\ VersionsStayResolvable'
    BY ProjectCommon
  <1>4. /\ 1 \notin applied[e] /\ applied'[e] = applied[e] \cup {1}
        /\ 1 \in overtaken'[e] \/ applied'[e] = {1}
        /\ Ended(e)' => 1 \in overtaken'[e]
    <2>1. /\ i = 1 /\ i \notin applied[e] /\ applied'[e] = applied[e] \cup {i}
          /\ (\E j \in applied[e] : j > i) => i \in overtaken'[e]
      BY <1>1, <1>2, ProjectCommon, CreateRows
    <2>2. \A j \in applied[e] : j > 1
      <3> TAKE j \in applied[e]
      <3>1. j \in 1 .. Len(log[e]) /\ Len(log[e]) \in Nat /\ j # 1
        BY <1>1, <2>1, AppliedTyped, LogTyped DEF TypeInv
      <3> QED
        BY <3>1
    <2>3. 1 \in overtaken'[e] \/ applied'[e] = {1}
      BY <2>1, <2>2
    <2>4. applied'[e] = {1} => ~Ended(e)'
      BY <1>2, <1>3 DEF Ended
    <2> QED
      BY <2>1, <2>3, <2>4
  <1>5. e \notin Environments => ~Shown(e)
    BY <1>4 DEF CatalogInv, RowFollowsPartition
  <1>6. written \subseteq {e} \cup Environments /\ e \in written
        /\ (e \notin Deployments => written = {e})
        /\ (e \in Deployments => log[e][1].refs \cap Environments \subseteq written)
    BY DEF Written
  <1>7. ASSUME NEW x \in Entities \ Environments, Shown(x), NEW r \in log[x][1].refs
        PROVE  r \in Entities /\ (Shown(r)' <=> Shown(r))
    <2>1. r \in Entities /\ log[x] # <<>>
      BY <1>3, <1>7
    <2>2. CASE r \notin Environments
      <3>1. 1 \in applied[r]
        BY <1>7, <2>2 DEF CatalogInv, Backed
      <3> QED
        BY <1>2, <1>4, <1>6, <2>1, <2>2, <3>1
    <2>3. CASE r \in Environments
      <3>1. x \in Deployments
        BY <1>7, <2>1, <2>3 DEF CatalogInv, Needs
      <3>2. Shown(r)
        BY <1>7, <3>1 DEF CatalogInv, DeploymentComplete
      <3> QED
        BY <1>2, <2>1, <3>2
    <2> QED
      BY <2>1, <2>2, <2>3
  <1>8. Needs'
    <2>1. \A r \in Agents \cup Models : Shown(r) => Shown(r)'
      BY <1>2, EntityKinds
    <2> QED
      BY <1>3, <2>1 DEF CatalogInv, Needs
  <1>9. Backed'
    <2> SUFFICES ASSUME NEW x \in Entities \ Environments, Shown(x)',
                        NEW r \in log[x][1].refs \ Environments
                 PROVE  1 \in applied'[r]
      BY <1>3 DEF Backed
    <2>1. CASE x # e
      <3>1. Shown(x)
        BY <1>2, <1>6, <2>1
      <3>2. r \in Entities /\ 1 \in applied[r]
        BY <1>7, <3>1 DEF CatalogInv, Backed
      <3> QED
        BY <1>3, <3>2
    <2>2. CASE x = e /\ r # e
      <3>1. r \in Entities /\ Shown(r)
        BY <1>2, <1>6, <2>2
      <3>2. 1 \in applied[r]
        BY <3>1 DEF CatalogInv, RowFollowsPartition
      <3> QED
        BY <1>3, <3>1, <3>2
    <2>3. CASE r = e
      BY <1>4, <2>3
    <2> QED
      BY <2>1, <2>2, <2>3
  <1>10. Permanent'
    <2> SUFFICES ASSUME NEW a \in Agents \cup Models, 1 \in applied'[a]
                 PROVE  Shown(a)'
      BY DEF Permanent
    <2> QED
      BY <1>2, <1>3, <1>6, EntityKinds DEF CatalogInv, Permanent
  <1>11. Solid'
    BY <1>2, RegistryAssumption DEF CatalogInv, Solid, Shown
  <1>12. RowFollowsPartition'
    <2> SUFFICES ASSUME NEW x \in Entities \ Environments
                 PROVE  /\ 1 \in applied'[x] /\ ~Ended(x)' => Shown(x)'
                        /\ Shown(x)' =>
                             /\ 1 \in applied'[x]
                             /\ Ended(x)' => 1 \in overtaken'[x]
                             /\ rows'[x].rev \in applied'[x]
                             /\ \/ rows'[x].rev \in overtaken'[x]
                                \/ \A j \in applied'[x] : j <= rows'[x].rev
                             /\ rows'[x].refs = {r \in log[x][1].refs : Shown(r)'}
      BY <1>3 DEF RowFollowsPartition
    <2>1. CASE x # e
      <3>1. /\ Shown(x)' <=> Shown(x)
            /\ rows'[x] = rows[x]
            /\ applied'[x] = applied[x] /\ (Ended(x)' <=> Ended(x))
            /\ overtaken'[x] = overtaken[x]
        BY <1>2, <1>3, <1>6, <2>1
      <3>2. Shown(x) => \A r \in log[x][1].refs : Shown(r)' <=> Shown(r)
        BY <1>7
      <3> QED
        BY <3>1, <3>2 DEF CatalogInv, RowFollowsPartition
    <2>2. CASE x = e
      <3>1. Shown(e)' /\ rows'[e].rev = 1
        BY <1>2, <1>6
      <3>2. \A r \in log[e][1].refs : Shown(r)'
        BY <1>2
      <3> QED
        BY <1>2, <1>4, <2>2, <3>1, <3>2
    <2> QED
      BY <2>1, <2>2
  <1>13. DeploymentComplete'
    <2> SUFFICES ASSUME NEW d \in Deployments, Shown(d)', NEW r \in log[d][1].refs
                 PROVE  Shown(r)'
      BY <1>3 DEF DeploymentComplete
    <2>1. d \in Entities \ Environments
      BY Disjoint, EntityKinds
    <2>2. CASE d = e
      BY <1>2, <2>2
    <2>3. CASE d # e
      <3>1. Shown(d)
        BY <1>2, <1>6, <2>1, <2>3
      <3>2. Shown(r)
        BY <3>1 DEF CatalogInv, DeploymentComplete
      <3> QED
        BY <1>7, <2>1, <3>1, <3>2
    <2> QED
      BY <2>2, <2>3
  <1> QED
    BY <1>1, <1>3, <1>8, <1>9, <1>10, <1>11, <1>12, <1>13 DEF CatalogInv

\* An update keeps the invariant.
LEMMA UpdateKeepsInv ==
  ASSUME CatalogInv, NEW e \in Entities, NEW i \in DOMAIN log[e], Project(e, i), log[e][i].op = "updated"
  PROVE  CatalogInv'
  <1>1. TypeInv /\ TypeInv'
    BY ProjectKeepsTypes DEF CatalogInv
  <1>2. /\ \A x \in Entities : Shown(x)' <=> Shown(x)
        /\ \A x \in Entities : rows'[x].refs = rows[x].refs
        /\ \A x \in Entities : x # e => rows'[x] = rows[x]
        /\ Shown(e) => rows'[e].rev = i
    BY <1>1, UpdateRows
  <1>3. /\ log' = log
        /\ \A x \in Entities : applied[x] \subseteq applied'[x]
        /\ \A x \in Entities : x # e => /\ applied'[x] = applied[x]
                                        /\ overtaken'[x] = overtaken[x]
                                        /\ (Ended(x)' <=> Ended(x))
        /\ applied'[e] = applied[e] \cup {i}
        /\ Ended(e)' <=> Ended(e)
        /\ \A j \in applied[e] : j \in Nat
        /\ overtaken[e] \subseteq overtaken'[e]
        /\ (\E j \in applied[e] : j > i) => i \in overtaken'[e]
        /\ i \in Nat \ {0}
        /\ e \notin Environments => i # 1
        /\ \A x \in Entities \ Environments : Shown(x) =>
             log[x] # <<>> /\ log[x][1].refs \subseteq Entities
        /\ Origins' /\ VersionsStayResolvable'
    BY ProjectCommon
  <1>4. Needs'
    BY <1>2, <1>3, EntityKinds DEF CatalogInv, Needs
  <1>5. Backed'
    BY <1>2, <1>3 DEF CatalogInv, Backed
  <1>6. Permanent'
    BY <1>2, <1>3, Disjoint, EntityKinds DEF CatalogInv, Permanent
  <1>7. Solid'
    <2>1. Shown(e) => rows'[e].rev > 0
      BY <1>2, <1>3
    <2> QED
      BY <1>2, <2>1 DEF CatalogInv, Solid
  <1>8. RowFollowsPartition'
    <2> SUFFICES ASSUME NEW x \in Entities \ Environments
                 PROVE  /\ 1 \in applied'[x] /\ ~Ended(x)' => Shown(x)'
                        /\ Shown(x)' =>
                             /\ 1 \in applied'[x]
                             /\ Ended(x)' => 1 \in overtaken'[x]
                             /\ rows'[x].rev \in applied'[x]
                             /\ \/ rows'[x].rev \in overtaken'[x]
                                \/ \A j \in applied'[x] : j <= rows'[x].rev
                             /\ rows'[x].refs = {r \in log[x][1].refs : Shown(r)'}
      BY <1>3 DEF RowFollowsPartition
    <2>1. /\ 1 \in applied[x] /\ ~Ended(x) => Shown(x)
          /\ Shown(x) =>
               /\ 1 \in applied[x]
               /\ Ended(x) => 1 \in overtaken[x]
               /\ rows[x].rev \in applied[x]
               /\ rows[x].rev \in overtaken[x] \/ \A j \in applied[x] : j <= rows[x].rev
               /\ rows[x].refs = {r \in log[x][1].refs : Shown(r)}
      BY DEF CatalogInv, RowFollowsPartition
    <2>2. Shown(x) => rows'[x].refs = {r \in log[x][1].refs : Shown(r)'}
      BY <1>2, <1>3, <2>1
    <2>3. CASE x # e
      BY <1>2, <1>3, <2>1, <2>2, <2>3
    <2>4. CASE x = e
      <3>1. i \in overtaken'[e] \/ \A j \in applied'[e] : j <= i
        BY <1>3
      <3> QED
        BY <1>2, <1>3, <2>1, <2>2, <2>4, <3>1
    <2> QED
      BY <2>3, <2>4
  <1>9. DeploymentComplete'
    <2> SUFFICES ASSUME NEW d \in Deployments, Shown(d), NEW r \in log[d][1].refs
                 PROVE  Shown(r)'
      BY <1>2, <1>3, EntityKinds DEF DeploymentComplete
    <2>1. r \in Entities /\ Shown(r)
      BY <1>3, Disjoint, EntityKinds DEF CatalogInv, DeploymentComplete
    <2> QED
      BY <1>2, <2>1
  <1> QED
    BY <1>1, <1>3, <1>4, <1>5, <1>6, <1>7, <1>8, <1>9 DEF CatalogInv

\* A delete keeps the invariant: what a row must have is not deleted.
LEMMA DeleteKeepsInv ==
  ASSUME CatalogInv, NEW e \in Entities, NEW i \in DOMAIN log[e], Project(e, i), log[e][i].op = "deleted"
  PROVE  CatalogInv'
  <1>1. TypeInv /\ TypeInv'
    BY ProjectKeepsTypes DEF CatalogInv
  <1>2. /\ ~Shown(e)'
        /\ \A x \in Entities : x # e =>
             /\ Shown(x)' <=> Shown(x)
             /\ rows'[x].rev = rows[x].rev /\ rows'[x].name = rows[x].name
             /\ rows'[x].refs = rows[x].refs \ {e}
        /\ Shown(e) => e \notin Agents \cup Models
        /\ Shown(e) /\ e \in Environments => \A d \in Deployments : e \notin rows[d].refs
    BY <1>1, DeleteRows DEF CatalogInv
  <1>3. /\ log' = log
        /\ \A x \in Entities : applied[x] \subseteq applied'[x]
        /\ \A x \in Entities : x # e => /\ applied'[x] = applied[x]
                                        /\ overtaken'[x] = overtaken[x]
                                        /\ (Ended(x)' <=> Ended(x))
        /\ applied'[e] = applied[e] \cup {i}
        /\ Ended(e)'
        /\ e \notin Environments => i # 1
        /\ \A x \in Entities \ Environments : Shown(x) =>
             log[x] # <<>> /\ log[x][1].refs \subseteq Entities
        /\ Origins' /\ VersionsStayResolvable'
    BY ProjectCommon
  <1>4. \A x \in Entities : Shown(x)' => Shown(x) /\ x # e
    BY <1>2
  <1>5. \A r \in Agents \cup Models : Shown(r) => Shown(r)'
    BY <1>2, EntityKinds
  <1>6. Needs'
    BY <1>3, <1>5 DEF CatalogInv, Needs
  <1>7. Backed'
    BY <1>3, <1>4 DEF CatalogInv, Backed
  <1>8. Permanent'
    <2> SUFFICES ASSUME NEW a \in Agents \cup Models, 1 \in applied'[a]
                 PROVE  Shown(a)'
      BY DEF Permanent
    <2>1. a \in Entities /\ a \notin Environments
      BY Disjoint, EntityKinds
    <2>2. 1 \in applied[a]
      BY <1>3, <2>1
    <2> QED
      BY <1>5, <2>2 DEF CatalogInv, Permanent
  <1>9. Solid'
    BY <1>2, <1>4 DEF CatalogInv, Solid
  <1>10. RowFollowsPartition'
    <2> SUFFICES ASSUME NEW x \in Entities \ Environments
                 PROVE  /\ 1 \in applied'[x] /\ ~Ended(x)' => Shown(x)'
                        /\ Shown(x)' =>
                             /\ 1 \in applied'[x]
                             /\ Ended(x)' => 1 \in overtaken'[x]
                             /\ rows'[x].rev \in applied'[x]
                             /\ \/ rows'[x].rev \in overtaken'[x]
                                \/ \A j \in applied'[x] : j <= rows'[x].rev
                             /\ rows'[x].refs = {r \in log[x][1].refs : Shown(r)'}
      BY <1>3 DEF RowFollowsPartition
    <2>1. CASE x = e
      BY <1>2, <1>3, <2>1
    <2>2. CASE x # e
      <3>1. /\ 1 \in applied[x] /\ ~Ended(x) => Shown(x)
            /\ Shown(x) =>
                 /\ 1 \in applied[x]
                 /\ Ended(x) => 1 \in overtaken[x]
                 /\ rows[x].rev \in applied[x]
                 /\ rows[x].rev \in overtaken[x] \/ \A j \in applied[x] : j <= rows[x].rev
                 /\ rows[x].refs = {r \in log[x][1].refs : Shown(r)}
        BY DEF CatalogInv, RowFollowsPartition
      <3>2. Shown(x) => rows'[x].refs = {r \in log[x][1].refs : Shown(r)'}
        <4> SUFFICES ASSUME Shown(x)
                     PROVE  rows'[x].refs = {r \in log[x][1].refs : Shown(r)'}
          OBVIOUS
        <4>1. \A r \in log[x][1].refs : Shown(r)' <=> Shown(r) /\ r # e
          BY <1>2, <1>3
        <4> QED
          BY <1>2, <2>2, <3>1, <4>1
      <3> QED
        BY <1>2, <1>3, <2>2, <3>1, <3>2
    <2> QED
      BY <2>1, <2>2
  <1>11. DeploymentComplete'
    <2> SUFFICES ASSUME NEW d \in Deployments, Shown(d)', NEW r \in log[d][1].refs
                 PROVE  Shown(r)'
      BY <1>3 DEF DeploymentComplete
    <2>1. /\ d \in Entities \ Environments /\ d # e /\ Shown(d)
          /\ r \in Entities /\ Shown(r) /\ log[d] # <<>>
      <3>1. d \in Entities \ Environments /\ d # e /\ Shown(d)
        BY <1>4, Disjoint, EntityKinds
      <3> QED
        BY <1>3, <3>1 DEF CatalogInv, DeploymentComplete
    <2>2. r \in Agents \cup Models \/ r \in Environments
      BY <2>1 DEF CatalogInv, Needs
    <2>3. r # e
      <3> SUFFICES ASSUME r = e
                   PROVE  FALSE
        OBVIOUS
      <3>1. e \in Environments
        BY <1>2, <2>1, <2>2
      <3>2. r \in rows[d].refs
        BY <2>1 DEF CatalogInv, RowFollowsPartition
      <3> QED
        BY <1>2, <2>1, <3>1, <3>2
    <2> QED
      BY <1>2, <2>1, <2>3
  <1> QED
    BY <1>1, <1>3, <1>6, <1>7, <1>8, <1>9, <1>10, <1>11 DEF CatalogInv

-----------------------------------------------------------------------------
(* The invariant holds                                                     *)

\* Nothing has been issued, and no row shows.
LEMMA InitCatalogInv == Init => CatalogInv
  <1> SUFFICES ASSUME Init
               PROVE  CatalogInv
    OBVIOUS
  <1>1. TypeInv
    BY RegistryAssumption DEF Init, TypeInv, TypeOK, LogInv, Row, Absent
  <1>2. \A e \in Entities : ~Shown(e) /\ log[e] = <<>> /\ applied[e] = {}
    BY DEF Init, Shown
  <1>3. Origins /\ Needs /\ Backed /\ Solid
    BY <1>2 DEF Origins, Needs, Backed, Solid
  <1>4. Permanent /\ DeploymentComplete
    BY <1>2, EntityKinds DEF Permanent, DeploymentComplete
  <1>5. RowFollowsPartition
    BY <1>2 DEF RowFollowsPartition
  <1>6. VersionsStayResolvable
    BY DEF Init, VersionsStayResolvable
  <1> QED
    BY <1>1, <1>3, <1>4, <1>5, <1>6 DEF CatalogInv

\* Every step keeps it.
LEMMA StepKeepsInv ==
  ASSUME CatalogInv, [Next]_vars
  PROVE  CatalogInv'
  <1>1. ASSUME NEW e \in Entities, NEW i \in DOMAIN log[e], Project(e, i)
        PROVE  CatalogInv'
    <2>1. log[e][i].op \in {"created", "updated", "deleted"}
      BY <1>1, ProjectApplies DEF CatalogInv, Event
    <2> QED
      BY <1>1, <2>1, CreateKeepsInv, UpdateKeepsInv, DeleteKeepsInv
  <1>2. CASE Next
    BY <1>1, <1>2, StepForms, IssueKeepsInv, ParkKeepsInv DEF CatalogInv, TypeInv
  <1>3. CASE UNCHANGED vars
    <2>1. /\ log' = log /\ accepted' = accepted /\ issued' = issued /\ read' = read
          /\ parked' = parked /\ rows' = rows /\ faults' = faults
          /\ applied' = applied /\ overtaken' = overtaken
      BY <1>3 DEF vars, commandVars, readVars
    <2>2. TypeInv'
      BY <2>1 DEF CatalogInv, TypeInv, TypeOK, LogInv
    <2>3. /\ \A x : Shown(x)' <=> Shown(x)
          /\ \A x : applied'[x] = applied[x] /\ (Ended(x)' <=> Ended(x))
      BY <2>1 DEF Shown, Ended
    <2>4. Origins' /\ Needs' /\ Backed' /\ Permanent' /\ Solid'
      BY <2>1, <2>3 DEF CatalogInv, Origins, Needs, Backed, Permanent, Solid
    <2>5. RowFollowsPartition' /\ DeploymentComplete' /\ VersionsStayResolvable'
      BY <2>1, <2>3
         DEF CatalogInv, RowFollowsPartition, DeploymentComplete, VersionsStayResolvable
    <2> QED
      BY <2>2, <2>4, <2>5 DEF CatalogInv
  <1> QED
    BY <1>2, <1>3

\* The strengthened invariant holds in every reachable state.
THEOREM CatalogInvariant == Spec => []CatalogInv
  BY InitCatalogInv, StepKeepsInv, PTL DEF Spec

\* A row is what the applied events of its own partition say, whatever other
\* entities' events are projected in between and whichever are parked; it is behind
\* them, or back after its delete, only by an event that was parked and applied
\* behind a later one (projector.py:67-154, 271-309, kafka.py:270-292).
THEOREM RowsFollow == Spec => []RowFollowsPartition
  <1>1. CatalogInv => RowFollowsPartition
    BY DEF CatalogInv
  <1> QED
    BY <1>1, CatalogInvariant, PTL

\* A deployment never shows without its agent, environment and model: what it
\* refers to cannot be deleted under it (models.py:139-163).
THEOREM DeploymentsComplete == Spec => []DeploymentComplete
  <1>1. CatalogInv => DeploymentComplete
    BY DEF CatalogInv
  <1> QED
    BY <1>1, CatalogInvariant, PTL

\* No deployment is parked because a version it names is missing
\* (commands.py:314-356, models.py:66-83, 100-117).
THEOREM VersionsResolve == Spec => []VersionsStayResolvable
  <1>1. CatalogInv => VersionsStayResolvable
    BY DEF CatalogInv
  <1> QED
    BY <1>1, CatalogInvariant, PTL

=============================================================================
