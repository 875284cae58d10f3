-------------------------- MODULE RegistryCatalog --------------------------
(***************************************************************************)
(* The registry: the commands of RegistryCommandService, the events they   *)
(* put on registry.events, and the tables ProjectionService builds from    *)
(* them under the constraints of app/db/models.py.                         *)
(*                                                                         *)
(* A command reads nothing: it publishes one event, publishes an audit     *)
(* event and answers.  All events of one entity have the same partition    *)
(* key and are settled in order; events of different entities are          *)
(* projected in any order.  An event whose transaction violates a          *)
(* constraint fails on every attempt and is parked (ConsumerGroup).        *)
(*                                                                         *)
(* The projection group is used through what GroupLedger promises: an      *)
(* event is settled, applied or parked, behind those before it, and applied*)
(* once at most.  A parked event may still be applied, or parked again:    *)
(* parking leaves no marker, and a member that has lost the partition parks*)
(* without moving the committed offset, so the next owner comes upon the   *)
(* event again, after later ones of the old owner's batch are applied.     *)
(*                                                                         *)
(* An agent's or model's version row is written with the agent or model    *)
(* and by nothing else, so the two rows are one here.                      *)
(***************************************************************************)
EXTENDS Sequences, Integers

CONSTANTS
  Agents, Models, Graphs, Tools, Environments, Deployments,  \* entity ids (uuids)
  Names,          \* values of the unique name columns
  NoName,         \* the name in a row or event that has none
  MaxCommands,    \* bound: events the commands publish
  MaxFaults       \* bound: failed replies and transient projection failures

Kinds == {Agents, Models, Graphs, Tools, Environments, Deployments}
Entities == UNION Kinds

ASSUME RegistryAssumption ==
  /\ LET kinds == <<Agents, Models, Graphs, Tools, Environments, Deployments>>
     IN  \A i, j \in 1 .. 6 : i # j => kinds[i] \cap kinds[j] = {}
  /\ NoName \notin Names
  /\ MaxCommands \in Nat
  /\ MaxFaults \in Nat

VARIABLES
  log,            \* per entity, its events in its partition of registry.events
  accepted,       \* entities whose create command was answered with their id
  read,           \* per entity, events the projection has settled
  applied,        \* per entity, positions of those that are applied
  overtaken,      \* history: per entity, positions applied behind a later one
  parked,         \* <<entity, position, reason>> of events in the dead-letter topic
  rows,           \* per entity, its row, or Absent
  issued,         \* events published so far
  faults          \* faults so far

commandVars == <<log, accepted, issued>>
readVars == <<read, applied, overtaken, parked, rows>>
vars == <<commandVars, readVars, faults>>

Event == [op : {"created", "updated", "deleted"},
          name : Names \cup {NoName}, refs : SUBSET Entities]
Reasons == {"name", "reference", "dependents", "transient"}

\* rev is the position of the event that wrote the row last; 0 for an
\* environment written by a deployment's event.
Row == [name : Names \cup {NoName}, rev : 0 .. MaxCommands, refs : SUBSET Entities]
Absent == [name |-> NoName, rev |-> 0, refs |-> {}]
Shown(e) == rows[e] # Absent

TypeOK ==
  /\ log \in [Entities -> Seq(Event)]
  /\ accepted \subseteq Entities
  /\ read \in [Entities -> Nat]
  /\ applied \in [Entities -> SUBSET Nat]
  /\ overtaken \in [Entities -> SUBSET Nat]
  /\ \A e \in Entities :
       /\ read[e] \in 0 .. Len(log[e])
       /\ applied[e] \subseteq 1 .. read[e]
       /\ overtaken[e] \subseteq applied[e]
  /\ \A p \in parked : p[1] \in Entities /\ p[2] \in 1 .. read[p[1]] /\ p[3] \in Reasons
  /\ rows \in [Entities -> Row]
  /\ issued \in 0 .. MaxCommands
  /\ faults \in 0 .. MaxFaults

Init ==
  /\ log = [e \in Entities |-> <<>>]
  /\ accepted = {}
  /\ read = [e \in Entities |-> 0]
  /\ applied = [e \in Entities |-> {}]
  /\ overtaken = [e \in Entities |-> {}]
  /\ parked = {}
  /\ rows = [e \in Entities |-> Absent]
  /\ issued = 0
  /\ faults = 0

Fault == faults < MaxFaults /\ faults' = faults + 1

-----------------------------------------------------------------------------
(* Commands                                                                *)

\* Ids a create writes: deployment.created carries its environment too.
Written(e, event) ==
  {e} \cup (IF e \in Deployments THEN event.refs \cap Environments ELSE {})

\* An id uuid4 has not drawn before.
Fresh(e) ==
  /\ log[e] = <<>>
  /\ \A d \in Deployments : \A i \in DOMAIN log[d] : e \notin log[d][i].refs

\* A row of e has been there, to be read by a client that acts on it later.
Seen(e) == \E x \in Entities : 1 \in applied[x] /\ e \in Written(x, log[x][1])

\* An id a client can hold: from the answer to its create, or from a read.
Known(e) == e \in accepted \/ Seen(e)

\* publish, then publish_audit_event, then the answer.  A publish that raises
\* may have reached the broker, and the audit publish may raise after it: the
\* event is out either way and the client has no answer.
Command(e, event, learned) ==
  /\ issued < MaxCommands
  /\ issued' = issued + 1
  /\ log' = [log EXCEPT ![e] = Append(@, event)]
  /\ \/ accepted' = accepted \cup learned /\ UNCHANGED faults
     \/ Fault /\ UNCHANGED accepted
  /\ UNCHANGED readVars

Create(e, name, refs) ==
  Fresh(e) /\ Command(e, [op |-> "created", name |-> name, refs |-> refs], {e})

Update(e) ==
  Known(e) /\ Command(e, [op |-> "updated", name |-> NoName, refs |-> {}], {})

Delete(e) ==
  Known(e) /\ Command(e, [op |-> "deleted", name |-> NoName, refs |-> {}], {})

CreateModel == \E m \in Models, n \in Names : Create(m, n, {})
CreateGraph == \E g \in Graphs, n \in Names : Create(g, n, {})
CreateTool == \E t \in Tools, n \in Names : Create(t, n, {})
CreateEnvironment == \E v \in Environments, n \in Names : Create(v, n, {})

\* An agent may name the graph it runs; the graph's id is in the answer to its
\* create, so the graph need not be projected yet.
CreateAgent ==
  \E a \in Agents, n \in Names :
    \/ Create(a, n, {})
    \/ \E g \in Graphs : Known(g) /\ Create(a, n, {g})

\* The ids of agent and model versions are in no answer: a client reads them.
\* Without environment_id the command draws one.
CreateDeployment ==
  \E d \in Deployments, a \in Agents, v \in Environments, n \in Names :
    /\ Seen(a)
    /\ Known(v) \/ Fresh(v)
    /\ \/ Create(d, n, {a, v})
       \/ \E m \in Models : Seen(m) /\ Create(d, n, {a, v, m})

UpdateAgent == \E a \in Agents : Update(a)
UpdateModel == \E m \in Models : Update(m)
UpdateGraph == \E g \in Graphs : Update(g)
UpdateTool == \E t \in Tools : Update(t)
UpdateEnvironment == \E v \in Environments : Update(v)
UpdateDeployment == \E d \in Deployments : Update(d)

DeleteAgent == \E a \in Agents : Delete(a)
DeleteModel == \E m \in Models : Delete(m)
DeleteGraph == \E g \in Graphs : Delete(g)
DeleteTool == \E t \in Tools : Delete(t)
DeleteEnvironment == \E v \in Environments : Delete(v)
DeleteDeployment == \E d \in Deployments : Delete(d)

-----------------------------------------------------------------------------
(* Projection                                                              *)

\* Something of an entity's partition is not settled.
Pending(e) == read[e] < Len(log[e])

\* The positions an owner may come upon: the next one, and the parked ones.
Due(e) == {i \in 1 .. Len(log[e]) : i <= read[e] + 1 /\ i \notin applied[e]}

Reach(e, i) == IF i > read[e] THEN i ELSE read[e]

\* A unique name column: another row of the table has the name.
NameTaken(e, event) ==
  \E K \in Kinds \ {Deployments} :
    \E w \in K \cap Written(e, event) :
      \E other \in K \ {w} : Shown(other) /\ rows[other].name = event.name

\* A foreign key: the row referred to is not there.
RefMissing(e, event) == \E r \in event.refs \ Written(e, event) : ~Shown(r)

\* Mutants: deleting an agent or model takes its version along, as the foreign
\* key alone would; an environment goes with deployments in it.
HasDependentsCascade(e) == \E d \in Deployments : e \in rows[d].refs
HasDependentsUnrestricted(e) == e \in Agents \cup Models

\* Rows that refer to e by a column that is NOT NULL.  The relationships state
\* no cascade, so the session sets the column to NULL before the delete.  The
\* version of an agent or model is always there.
HasDependents(e) ==
  \/ e \in Agents \cup Models
  \/ e \in Environments /\ \E d \in Deployments : e \in rows[d].refs

\* The constraints the transaction of e's event at i violates.
Violations(e, i) ==
  LET event == log[e][i] IN
    {r \in Reasons :
       \/ r = "name" /\ event.op = "created" /\ NameTaken(e, event)
       \/ r = "reference" /\ event.op = "created" /\ RefMissing(e, event)
       \/ r = "dependents" /\ event.op = "deleted" /\ Shown(e) /\ HasDependents(e)}

\* _upsert of the rows a create carries.
Upserted(e, i) ==
  LET event == log[e][i] IN
    [x \in Entities |->
       CASE x = e -> [name |-> IF e \in Deployments THEN NoName ELSE event.name,
                      rev |-> i, refs |-> event.refs]
         [] x # e /\ x \in Written(e, event) -> [name |-> event.name, rev |-> 0, refs |-> {}]
         [] OTHER -> rows[x]]

\* Mutant: an update of a missing row writes one.
UpdatedOrInserted(e, i) ==
  [rows EXCEPT ![e] = [name |-> log[e][1].name, rev |-> i, refs |-> @.refs]]

\* _update: a missing row is ignored.
Updated(e, i) == IF Shown(e) THEN [rows EXCEPT ![e].rev = i] ELSE rows

\* _delete: a missing row is ignored; nullable references to it are cleared.
Removed(e) ==
  [x \in Entities |->
     IF x = e THEN Absent ELSE [rows[x] EXCEPT !.refs = @ \ {e}]]

Project(e, i) ==
  /\ i \in Due(e)
  /\ Violations(e, i) = {}
  /\ rows' = CASE log[e][i].op = "created" -> Upserted(e, i)
               [] log[e][i].op = "updated" -> Updated(e, i)
               [] log[e][i].op = "deleted" -> Removed(e)
  /\ read' = [read EXCEPT ![e] = Reach(e, i)]
  /\ applied' = [applied EXCEPT ![e] = @ \cup {i}]
  /\ overtaken' = IF \E j \in applied[e] : j > i
                    THEN [overtaken EXCEPT ![e] = @ \cup {i}] ELSE overtaken
  /\ UNCHANGED <<commandVars, parked, faults>>

Park(e, i, reason) ==
  /\ i \in Due(e)
  /\ read' = [read EXCEPT ![e] = Reach(e, i)]
  /\ parked' = parked \cup {<<e, i, reason>>}
  /\ UNCHANGED <<commandVars, applied, overtaken, rows>>

\* Mutant: a refused delete is tried again and again.
ParkRefusedCreates(e, i) ==
  /\ i \in Due(e)
  /\ \E r \in Violations(e, i) \ {"dependents"} : Park(e, i, r)
  /\ UNCHANGED faults

\* A transaction that violates a constraint at its last attempt.
ParkRefused(e, i) ==
  /\ i \in Due(e)
  /\ \E r \in Violations(e, i) : Park(e, i, r)
  /\ UNCHANGED faults

\* A transaction whose attempts all failed for another reason.
ParkTransient(e, i) == Park(e, i, "transient") /\ Fault

-----------------------------------------------------------------------------

\* Each is one command more, which tells at once a step that is none.
Commands ==
  /\ issued' = issued + 1
  /\ \/ CreateAgent \/ UpdateAgent \/ DeleteAgent
     \/ CreateModel \/ UpdateModel \/ DeleteModel
     \/ CreateGraph \/ UpdateGraph \/ DeleteGraph
     \/ CreateTool \/ UpdateTool \/ DeleteTool
     \/ CreateEnvironment \/ UpdateEnvironment \/ DeleteEnvironment
     \/ CreateDeployment \/ UpdateDeployment \/ DeleteDeployment

Consume(e, i) == Project(e, i) \/ ParkRefused(e, i)

Next ==
  \/ Commands
  \/ \E e \in Entities : \E i \in DOMAIN log[e] : Consume(e, i) \/ ParkTransient(e, i)

Spec == Init /\ [][Next]_vars

\* What an owner settles as it goes through its partitions; that it comes upon a
\* parked event again is nothing to rely on.
ConsumeNext == \E e \in Entities : Consume(e, read[e] + 1)

\* The projection worker keeps consuming.
FairSpec == Spec /\ WF_vars(ConsumeNext)

-----------------------------------------------------------------------------
(* Properties                                                              *)

Ended(e) == \E i \in applied[e] : log[e][i].op = "deleted"

\* The row of an agent, model, graph, tool or deployment is what its own
\* partition says, whatever was projected around it: it is there from its create
\* to its delete, last written by its last applied event, with the references of
\* its create that still resolve.  It outlives its delete only by a create that was
\* parked and applied behind the delete, and shows older content only by an event
\* that was parked and applied behind a later one.  Environments are left out: a
\* deployment's event writes them too (projector.py:67-154, 271-309).
RowFollowsPartition ==
  \A e \in Entities \ Environments :
    /\ 1 \in applied[e] /\ ~Ended(e) => Shown(e)
    /\ Shown(e) =>
         /\ 1 \in applied[e]
         /\ Ended(e) => 1 \in overtaken[e]
         /\ rows[e].rev \in applied[e]
         /\ rows[e].rev \in overtaken[e] \/ \A i \in applied[e] : i <= rows[e].rev
         /\ rows[e].refs = {r \in log[e][1].refs : Shown(r)}

\* A deployment that shows has its agent, its environment and its model, whoever
\* deleted what in the meantime (models.py:139-163, projector.py:287-292).
DeploymentComplete ==
  \A d \in Deployments : Shown(d) => \A r \in log[d][1].refs : Shown(r)

\* No deployment is ever parked for a version that is not there: a client has the
\* id of a version from the registry only once its row shows, and the row stays
\* (commands.py:314-356, models.py:66-83, 100-117).
VersionsStayResolvable ==
  \A p \in parked : p[1] \in Deployments => p[3] # "reference"

\* The projection gets through every partition: no event it cannot apply holds
\* the ones behind it.
CatalogCatchesUp == <>[](\A e \in Entities : ~Pending(e))

-----------------------------------------------------------------------------
(* Claims of the repository the code does not meet                         *)

\* registry/schemas.py:118-120: environment_name is the name of the environment "if it is
\* created or selected by name"; a deployment that names an environment is
\* not lost because the environment exists.
EnvironmentSelectedByName ==
  \A p \in parked : p[1] \in Deployments => p[3] # "name"

=============================================================================
