------------------------------ MODULE DemoSeed ------------------------------
(***************************************************************************)
(* scripts/seed_demo_data.py: the client that fills the registry with the  *)
(* demo graphs, models, environments, agents and deployments.              *)
(*                                                                         *)
(* A run goes through the plan in order.  For each item it looks for a row *)
(* in the read model, then, query by query, for the rows the item needs;   *)
(* when the item is not there it posts it and polls until its row shows.   *)
(* The read model trails the commands, so what a run looks at may be on    *)
(* its way already: posted by a run that was interrupted, that gave up     *)
(* waiting, or that is running beside this one.                            *)
(*                                                                         *)
(* The registry is RegistryCatalog, here with these runs as its clients and*)
(* a user who deletes what the demo has put there, or writes a deployment's*)
(* configuration anew.                                                     *)
(***************************************************************************)
EXTENDS RegistryCatalog, FiniteSets

CONSTANTS
  Plan,          \* the items in the order of the script
  MaxRuns,       \* bound: times the script is started
  MaxSetbacks    \* bound: faults, runs broken off and changes by users

Steps == 1 .. Len(Plan)

\* The starts of the script, by whomever, in their order.
Runs == 1 .. MaxRuns

\* The rows an item needs: an agent its graph, a deployment its agent, its environment
\* and, where the plan has models, its model; the others none.
NeedsOf(i) ==
  CASE Plan[i].kind = Agents ->
         \E g \in 1 .. i - 1 : Plan[g].kind = Graphs /\ Plan[i].needs = {g}
    [] Plan[i].kind = Deployments ->
         \E a, v \in 1 .. i - 1 :
           /\ Plan[a].kind = Agents /\ Plan[v].kind = Environments
           /\ Plan[v].name = Plan[i].name
           /\ \/ Plan[i].needs = {a, v}
              \/ \E m \in 1 .. i - 1 : Plan[m].kind = Models /\ Plan[i].needs = {a, v, m}
    [] OTHER -> Plan[i].needs = {}

\* An item has a name of its own, but for a deployment, which has the name of the
\* environment it goes to and is told apart by the seed_key in its configuration.
ASSUME SeedAssumption ==
  /\ Len(Plan) \in Nat \ {0}
  /\ \A i \in Steps :
       /\ Plan[i].kind \in Kinds
       /\ Plan[i].name \in Names
       /\ NeedsOf(i)
  /\ \A i, j \in Steps :
       /\ Plan[i].kind = Plan[j].kind /\ Plan[i].name = Plan[j].name
       /\ Plan[i].kind # Deployments
       => i = j
  /\ MaxRuns \in Nat
  /\ MaxSetbacks \in Nat

VARIABLES
  pc,            \* per run, what the script does next
  step,          \* per run, the item it is at
  found,         \* per run, the ids it read for the item it is about to post
  overlapped,    \* some run was started while another one was going
  seedKey,       \* per deployment, the item it was posted for, or 0
  setbacks       \* setbacks so far

seedVars == <<pc, step, found, overlapped, seedKey, setbacks>>
allVars == <<vars, seedVars>>

SeedTypeOK ==
  /\ TypeOK
  /\ pc \in [Runs -> {"idle", "check", "known", "post", "wait", "done", "failed"}]
  /\ step \in [Runs -> Steps]
  /\ found \in [Runs -> SUBSET Entities]
  /\ \A r \in Runs : found[r] # {} => pc[r] = "post" /\ Plan[step[r]].needs # {}
  /\ overlapped \in BOOLEAN
  /\ seedKey \in [Deployments -> Steps \cup {0}]
  /\ setbacks \in 0 .. MaxSetbacks

SeedInit ==
  /\ Init
  /\ pc = [r \in Runs |-> "idle"]
  /\ step = [r \in Runs |-> 1]
  /\ found = [r \in Runs |-> {}]
  /\ overlapped = FALSE
  /\ seedKey = [d \in Deployments |-> 0]
  /\ setbacks = 0

Setback == setbacks' = setbacks + 1

-----------------------------------------------------------------------------
(* What a query of the script returns                                      *)

\* e was posted as item i; a deployment by its seed_key, the others by name.
IsItem(e, i) ==
  /\ e \in Plan[i].kind
  /\ log[e] # <<>>
  /\ IF e \in Deployments THEN seedKey[e] = i ELSE log[e][1].name = Plan[i].name

\* Mutant: ids the API answered with stand for rows.
RowsOrAnswers(i) == {e \in Plan[i].kind : e \in accepted /\ IsItem(e, i)}

\* A deployment has its seed_key until its configuration is written anew: what a
\* user writes there has none, and is the only update of a deployment.
KeepsKey(e) == e \in Deployments => rows[e].rev = 1

RowsOf(i) == {e \in Plan[i].kind : Shown(e) /\ IsItem(e, i) /\ KeepsKey(e)}

\* Its create is published and neither projected nor parked.
OnItsWay(i) == \E e \in Plan[i].kind : IsItem(e, i) /\ read[e] = 0

-----------------------------------------------------------------------------
(* A run                                                                   *)

Goto(r, label) == pc' = [pc EXCEPT ![r] = label]

\* Mutant: the last item is not the end.
AdvancePast(r) == Goto(r, "check") /\ step' = [step EXCEPT ![r] = @ + 1]

Advance(r) ==
  IF step[r] = Len(Plan)
    THEN Goto(r, "done") /\ UNCHANGED step
    ELSE Goto(r, "check") /\ step' = [step EXCEPT ![r] = @ + 1]

Forget(r) == found' = [found EXCEPT ![r] = {}]

Fails(r) == Goto(r, "failed") /\ Forget(r) /\ UNCHANGED <<step, overlapped, seedKey>>

Going(r) == pc[r] \in {"check", "known", "post", "wait"}

\* What the item needs and the run has not read yet.
Unread(r) == {j \in Plan[step[r]].needs : \A x \in found[r] : ~IsItem(x, j)}

\* What it may ask for next: the environment comes last; versions never go away, so
\* that their order tells nothing apart.
Asked(r) == {j \in Unread(r) : Plan[j].kind = Environments => Unread(r) = {j}}

\* The script is started, while the runs before this one are going or after they have
\* ended in any way.
Begin(r) ==
  /\ pc[r] = "idle"
  /\ \A earlier \in Runs : earlier < r => pc[earlier] # "idle"
  /\ overlapped' = (overlapped \/ \E other \in Runs : Going(other))
  /\ step' = [step EXCEPT ![r] = 1]
  /\ Goto(r, "check")
  /\ UNCHANGED <<vars, found, seedKey, setbacks>>

\* Mutant: what is there already is an error.
RefusesExisting(r) ==
  /\ pc[r] = "check"
  /\ RowsOf(step[r]) # {}
  /\ Fails(r)
  /\ UNCHANGED <<vars, setbacks>>

SkipsExisting(r) ==
  /\ pc[r] = "check"
  /\ Plan[step[r]].kind # Agents
  /\ RowsOf(step[r]) # {}
  /\ Advance(r)
  /\ UNCHANGED <<vars, found, overlapped, seedKey, setbacks>>

\* seed_agents asks for the graph before it skips an agent that is there.
FindsAgent(r) ==
  /\ pc[r] = "check"
  /\ Plan[step[r]].kind = Agents
  /\ RowsOf(step[r]) # {}
  /\ Goto(r, "known")
  /\ UNCHANGED <<vars, step, found, overlapped, seedKey, setbacks>>

SkipsAgent(r) ==
  /\ pc[r] = "known"
  /\ \A j \in Unread(r) : RowsOf(j) # {}
  /\ Advance(r)
  /\ UNCHANGED <<vars, found, overlapped, seedKey, setbacks>>

FindsNothing(r) ==
  /\ pc[r] = "check"
  /\ RowsOf(step[r]) = {}
  /\ Goto(r, "post")
  /\ UNCHANGED <<vars, step, found, overlapped, seedKey, setbacks>>

\* One query each for what the item needs.
ReadsNeed(r) ==
  /\ pc[r] = "post"
  /\ \E j \in Asked(r) : \E x \in RowsOf(j) : found' = [found EXCEPT ![r] = @ \cup {x}]
  /\ UNCHANGED <<vars, pc, step, overlapped, seedKey, setbacks>>

MissesNeed(r) ==
  /\ pc[r] \in {"known", "post"}
  /\ \E j \in Asked(r) : RowsOf(j) = {}
  /\ Fails(r)
  /\ UNCHANGED <<vars, setbacks>>

\* http_json: an answer that is an error, or none in time, ends the run.  Bound: the
\* ids that are left.
Posts(r) ==
  LET i == step[r]
      e == CHOOSE x \in Plan[i].kind : Fresh(x)
  IN
    /\ pc[r] = "post" /\ Unread(r) = {}
    /\ \E x \in Plan[i].kind : Fresh(x)
    /\ Create(e, Plan[i].name, found[r])
    /\ Goto(r, IF e \in accepted' THEN "wait" ELSE "failed")
    /\ seedKey' = IF e \in Deployments THEN [seedKey EXCEPT ![e] = i] ELSE seedKey
    /\ Forget(r)
    /\ UNCHANGED <<step, overlapped, setbacks>>

\* Mutant: the answer of the API is enough.
SeesAnswer(r) ==
  /\ pc[r] = "wait"
  /\ Advance(r)
  /\ UNCHANGED <<vars, found, overlapped, seedKey, setbacks>>

\* wait_for_row
SeesRow(r) ==
  /\ pc[r] = "wait"
  /\ RowsOf(step[r]) # {}
  /\ Advance(r)
  /\ UNCHANGED <<vars, found, overlapped, seedKey, setbacks>>

\* Mutant: the deadline of the wait is no error.
GivesUpQuietly(r) ==
  /\ pc[r] = "wait"
  /\ RowsOf(step[r]) = {}
  /\ ~OnItsWay(step[r])
  /\ Advance(r)
  /\ UNCHANGED <<vars, found, overlapped, seedKey, setbacks>>

\* wait_for_row when no event is left to bring the row; a parked one may still do so.
TimesOut(r) ==
  /\ pc[r] = "wait"
  /\ RowsOf(step[r]) = {}
  /\ ~OnItsWay(step[r])
  /\ Fails(r)
  /\ UNCHANGED <<vars, setbacks>>

\* Ctrl-C, a request that is refused, an API that is not ready in time, or a row
\* that takes longer to show than --timeout-sec.
BreaksOff(r) ==
  /\ Going(r)
  /\ Setback
  /\ Fails(r)
  /\ UNCHANGED vars

-----------------------------------------------------------------------------

UserChanges ==
  /\ Setback
  /\ DeleteGraph \/ DeleteEnvironment \/ DeleteDeployment \/ UpdateDeployment
  /\ UNCHANGED <<pc, step, found, overlapped, seedKey>>

Projects ==
  /\ \E e \in Entities : \E i \in DOMAIN log[e] : Consume(e, i)
  /\ UNCHANGED seedVars

LosesToFault ==
  /\ \E e \in Entities : \E i \in DOMAIN log[e] : ParkTransient(e, i)
  /\ UNCHANGED seedVars

\* What the script does by itself; the rest is up to its users and to faults.
Proceeds(r) ==
  \/ SkipsExisting(r) \/ FindsAgent(r) \/ SkipsAgent(r)
  \/ FindsNothing(r) \/ ReadsNeed(r) \/ MissesNeed(r)
  \/ Posts(r) \/ SeesRow(r) \/ TimesOut(r)

SeedNext ==
  /\ \/ \E r \in Runs : Begin(r) \/ Proceeds(r) \/ BreaksOff(r)
     \/ UserChanges
     \/ Projects
     \/ LosesToFault
  /\ faults' + setbacks' <= MaxSetbacks

\* The script polls in a loop and the projection worker keeps consuming, each as
\* long as it has something to do, which is never for ever; nobody has to run the
\* script.
SeedFairness ==
  WF_allVars(\/ UNCHANGED seedVars /\ ConsumeNext
             \/ \E r \in Runs : Proceeds(r))

SeedSpec == SeedInit /\ [][SeedNext]_allVars /\ SeedFairness

-----------------------------------------------------------------------------
(* Properties                                                              *)

\* A run that ended well had every item projected, whoever posted it, and what a
\* seeded deployment refers to are the items of the plan it needs
\* (seed_demo_data.py:300-332, 542-601).
DoneMeansSeeded ==
  (\E r \in Runs : pc[r] = "done") =>
    \A i \in Steps :
      \E e \in Plan[i].kind :
        /\ IsItem(e, i) /\ 1 \in applied[e]
        /\ \A j \in Plan[i].needs : \E x \in log[e][1].refs : IsItem(x, j)

\* The script never runs ahead of the projection: an item it posts is refused
\* for a missing reference only when somebody deleted what it refers to
\* (seed_demo_data.py:391, 506-507, 550-551, projector.py:302-304).
NeverAheadOfProjection ==
  \A p \in parked :
    p[3] = "reference" =>
      \E x \in log[p[1]][p[2]].refs : 1 \in applied[x] /\ Ended(x)

\* The runs, however they overlap and on whatever stale rows they act, are clients
\* the registry admits: all that holds of RegistryCatalog holds of them.
ImplementsCatalog == Spec

\* Nothing more goes wrong: no change is on its way or parked and no fault is left.
Calm ==
  /\ faults + setbacks = MaxSetbacks
  /\ \A e \in Entities : \A i \in DOMAIN log[e] \ applied[e] : log[e][i].op = "created"

\* Whatever earlier runs have left half done, and while they may still be going beside
\* it, a run that starts when nothing more goes wrong ends well (README.md:143).  It
\* is the last run that is asked; an earlier one that is still at its start has done
\* nothing, and could as well have come last.
RerunSucceeds ==
  pc[MaxRuns] = "check" /\ step[MaxRuns] = 1 /\ Calm ~> pc[MaxRuns] = "done"

\* What README.md:143 says of a second run, where it is so: runs that do not
\* overlap, are not broken off and lose no event post every item once.  (After
\* a run that was, and beside one that is going, the next one posts what is on its
\* way already: a name is then refused, a deployment shows twice.)
QuietRunsPostOnce ==
  ~overlapped /\ faults + setbacks = 0 =>
    \A i \in Steps : Cardinality({e \in Plan[i].kind : IsItem(e, i)}) <= 1

=============================================================================
