--------------------------- MODULE DemoSeedProofs ---------------------------
(***************************************************************************)
(* Proofs about DemoSeed, for any plan that meets SeedAssumption, any      *)
(* number of runs, and any bounds: the runs are clients RegistryCatalog    *)
(* admits, and what an ended run, a parked item and an undisturbed run     *)
(* promise.                                                                *)
(***************************************************************************)
EXTENDS DemoSeed, RegistryCatalogProofs, FiniteSetTheorems

-----------------------------------------------------------------------------
(* The plan                                                                *)

\* Two different kinds have no id in common.
LEMMA KindsApart ==
  ASSUME NEW K \in Kinds, NEW L \in Kinds, NEW e \in K, e \in L
  PROVE  K = L
  <1> DEFINE kinds == <<Agents, Models, Graphs, Tools, Environments, Deployments>>
  <1>1. PICK i \in 1 .. 6 : K = kinds[i]
    BY DEF Kinds
  <1>2. PICK j \in 1 .. 6 : L = kinds[j]
    BY DEF Kinds
  <1>3. kinds[i] \cap kinds[j] # {}
    BY <1>1, <1>2
  <1>4. i = j
    BY <1>3, RegistryAssumption
  <1> QED
    BY <1>1, <1>2, <1>4

\* The item of a step, and which kind an entity of it has.
LEMMA PlanTyped ==
  ASSUME NEW i \in Steps
  PROVE  /\ i \in Nat /\ 1 <= i /\ i <= Len(Plan) /\ Len(Plan) \in Nat /\ 1 \in Steps
         /\ Plan[i].kind \in Kinds /\ Plan[i].name \in Names /\ NeedsOf(i)
         /\ \A e \in Plan[i].kind :
              /\ e \in Entities
              /\ \A K \in Kinds : e \in K => Plan[i].kind = K
  <1>1. Len(Plan) \in Nat \ {0}
    BY SeedAssumption
  <1>2. i \in Nat /\ 1 <= i /\ i <= Len(Plan) /\ 1 \in Steps
    BY <1>1 DEF Steps
  <1>3. Plan[i].kind \in Kinds /\ Plan[i].name \in Names /\ NeedsOf(i)
    BY SeedAssumption
  <1>4. ASSUME NEW e \in Plan[i].kind
        PROVE  e \in Entities /\ \A K \in Kinds : e \in K => Plan[i].kind = K
    BY <1>3, <1>4, KindsApart DEF Entities
  <1> QED
    BY <1>1, <1>2, <1>3, <1>4

\* An item needs earlier items.
LEMMA NeedsEarlier ==
  ASSUME NEW i \in Steps
  PROVE  Plan[i].needs \subseteq 1 .. i - 1 /\ Plan[i].needs \subseteq Steps
  <1>1. Plan[i].needs \subseteq 1 .. i - 1
    BY PlanTyped DEF NeedsOf
  <1>2. 1 .. i - 1 \subseteq Steps
    BY PlanTyped DEF Steps
  <1> QED
    BY <1>1, <1>2

\* But for a deployment, an entity is one item.
LEMMA OneItem ==
  ASSUME NEW e \in Entities \ Deployments, NEW i \in Steps, NEW j \in Steps,
         e \in Plan[i].kind, e \in Plan[j].kind, Plan[i].name = Plan[j].name
  PROVE  i = j
  <1>1. Plan[i].kind = Plan[j].kind
    BY PlanTyped
  <1>2. Plan[i].kind # Deployments
    OBVIOUS
  <1> QED
    BY <1>1, <1>2, SeedAssumption

-----------------------------------------------------------------------------
(* The inductive invariant                                                 *)

\* What is read of an entity's create is read for good.
Seeded(i) ==
  \E e \in Plan[i].kind :
    /\ IsItem(e, i) /\ 1 \in applied[e]
    /\ \A j \in Plan[i].needs : \E x \in log[e][1].refs : IsItem(x, j)

\* A row that is no deployment's was put there by a create of its own first, under
\* the name it was created with.
RowsInv ==
  \A e \in Entities \ Deployments :
    Shown(e) => 1 \in applied[e] /\ rows[e].name = log[e][1].name

\* What an event refers to has been projected; an environment, of which a deployment
\* names one, under the event's name.
RefsInv ==
  \A e \in Entities : \A i \in DOMAIN log[e] : \A x \in log[e][i].refs :
    /\ 1 \in applied[x]
    /\ x \in Environments =>
         /\ e \in Deployments /\ log[x][1].name = log[e][i].name
         /\ \A y \in log[e][i].refs \cap Environments : y = x

\* Everything in the registry was created for an item, only deployments are updated, ...
Planned ==
  \A e \in Entities :
    /\ log[e] # <<>> => log[e][1].op = "created" /\ \E i \in Steps : IsItem(e, i)
    /\ \A i \in DOMAIN log[e] : log[e][i].op = "updated" => e \in Deployments

\* ... and refers to what the item needs.
ItemsInv ==
  \A e \in Entities, i \in Steps : IsItem(e, i) =>
    \A j \in Plan[i].needs : \E x \in log[e][1].refs : IsItem(x, j)

\* The ids a run has read are projected items it needs, no two of them the same item, ...
Gathered(refs, i) ==
  /\ \A x \in refs : 1 \in applied[x] /\ \E j \in Plan[i].needs : IsItem(x, j)
  /\ \A j \in Plan[i].needs : \A x, y \in refs : IsItem(x, j) /\ IsItem(y, j) => y = x

\* ... and when it posts they are all of them.
Readied(refs, i) ==
  Gathered(refs, i) /\ \A j \in Plan[i].needs : \E x \in refs : IsItem(x, j)

\* What a run has behind it is seeded, and so is an agent it is about to skip.
RunInv(r) ==
  /\ pc[r] = "post" => Gathered(found[r], step[r])
  /\ pc[r] = "known" => Seeded(step[r])
  /\ Going(r) => \A i \in 1 .. step[r] - 1 : Seeded(i)
  /\ pc[r] = "done" => \A i \in Steps : Seeded(i)

RunsInv == \A r \in Runs : RunInv(r)

\* While runs do not overlap and nothing fails, ...
Quiet == ~overlapped /\ faults + setbacks = 0

\* ... at most one is going, ...
Alone == \A r, s \in Runs : Going(r) /\ Going(s) => r = s

\* ... nothing is refused, changed or there twice, ...
Undisturbed ==
  /\ parked = {}
  /\ \A e \in Entities : read[e] # 0 => 1 \in applied[e]
  /\ \A e \in Entities : \A i \in DOMAIN log[e] : log[e][i].op = "created"
  /\ \A e \in Entities : 1 \in applied[e] => Shown(e)
  /\ \A i \in Steps : \A x, y \in Entities : IsItem(x, i) /\ IsItem(y, i) => x = y

\* ... an item that does not show is being waited for, ...
Awaited ==
  \A e \in Entities, i \in Steps : IsItem(e, i) /\ read[e] = 0 =>
    \E r \in Runs : pc[r] = "wait" /\ step[r] = i

\* ... and what is about to be posted is not there.
Unposted == \A r \in Runs : pc[r] = "post" => \A e \in Entities : ~IsItem(e, step[r])

QuietInv == Quiet => Alone /\ Undisturbed /\ Awaited /\ Unposted

SeedInv ==
  /\ SeedTypeOK
  /\ RowsInv /\ RefsInv /\ Planned /\ ItemsInv
  /\ RunsInv /\ NeverAheadOfProjection /\ QuietInv

\* The invariants of the registry hold beside it: its clients are admitted.
FullInv == CatalogInv /\ SeedInv

-----------------------------------------------------------------------------
(* What a step leaves as it was                                            *)

\* Creates, seed keys and what was applied stay.
Kept ==
  /\ \A e \in Entities : log[e] # <<>> =>
       /\ log'[e] # <<>> /\ log'[e][1] = log[e][1]
       /\ e \in Deployments => seedKey'[e] = seedKey[e]
  /\ \A e \in Entities : 1 \in applied[e] => 1 \in applied'[e]
  /\ \A e \in Entities : Ended(e) => Ended(e)'

\* What was posted stays the item it was.
LEMMA ItemStays ==
  ASSUME Kept, NEW e \in Entities, log[e] # <<>>, NEW i
  PROVE  IsItem(e, i)' <=> IsItem(e, i)
  BY DEF Kept, IsItem

\* So does what refers to items.
LEMMA SeededStays ==
  ASSUME TypeInv, Kept, NEW i \in Steps, Seeded(i)
  PROVE  Seeded(i)'
  <1>1. PICK e \in Plan[i].kind :
          /\ IsItem(e, i) /\ 1 \in applied[e]
          /\ \A j \in Plan[i].needs : \E x \in log[e][1].refs : IsItem(x, j)
    BY DEF Seeded
  <1>2. e \in Entities /\ log[e] # <<>>
    BY <1>1, PlanTyped DEF IsItem
  <1>3. IsItem(e, i)' /\ 1 \in applied'[e] /\ log'[e][1] = log[e][1]
    BY <1>1, <1>2, ItemStays DEF Kept
  <1>4. ASSUME NEW j \in Plan[i].needs
        PROVE  \E x \in log'[e][1].refs : IsItem(x, j)'
    <2>1. PICK x \in log[e][1].refs : IsItem(x, j)
      BY <1>1, <1>4
    <2>2. x \in Entities /\ log[x] # <<>>
      BY <2>1, <1>4, NeedsEarlier, PlanTyped DEF IsItem
    <2> QED
      BY <1>3, <2>1, <2>2, ItemStays
  <1> QED
    BY <1>1, <1>3, <1>4 DEF Seeded

\* And what a run has read.
LEMMA GatheredStays ==
  ASSUME TypeInv, Kept, NEW i \in Steps, NEW refs \in SUBSET Entities, Gathered(refs, i)
  PROVE  Gathered(refs, i)'
  <1>1. \A x \in refs : log[x] # <<>>
    BY AppliedIssued DEF Gathered
  <1>2. \A x \in refs : \A j : IsItem(x, j)' <=> IsItem(x, j)
    BY <1>1, ItemStays
  <1>3. \A x \in refs : 1 \in applied'[x]
    BY DEF Kept, Gathered
  <1> QED
    BY <1>2, <1>3 DEF Gathered

\* A refused item keeps its reason.
LEMMA RefusedStays ==
  ASSUME TypeInv, RefsInv, Kept, NEW p \in parked,
         p[3] = "reference" =>
           \E x \in log[p[1]][p[2]].refs : 1 \in applied[x] /\ Ended(x),
         log'[p[1]][p[2]] = log[p[1]][p[2]]
  PROVE  p[3] = "reference" =>
           \E x \in log'[p[1]][p[2]].refs : 1 \in applied'[x] /\ Ended(x)'
  <1>1. p[1] \in Entities /\ p[2] \in DOMAIN log[p[1]]
    <2>1. p[1] \in Entities /\ p[2] \in 1 .. read[p[1]]
      BY DEF TypeInv, TypeOK
    <2>2. read[p[1]] \in 0 .. Len(log[p[1]])
      BY <2>1 DEF TypeInv, TypeOK
    <2>3. Len(log[p[1]]) \in Nat /\ DOMAIN log[p[1]] = 1 .. Len(log[p[1]])
      BY <2>1, LogTyped DEF TypeInv
    <2>4. p[2] \in 1 .. Len(log[p[1]])
      BY <2>1, <2>2, <2>3
    <2> QED
      BY <2>1, <2>3, <2>4
  <1>2. log[p[1]][p[2]] \in Event
    BY <1>1, LogTyped DEF TypeInv
  <1>3. log[p[1]][p[2]].refs \subseteq Entities
    BY <1>2 DEF Event
  <1> QED
    BY <1>3 DEF Kept

\* A run that does nothing keeps what it knows.
LEMMA BystanderKeeps ==
  ASSUME TypeInv, SeedTypeOK, Kept, NEW r \in Runs, RunInv(r),
         pc'[r] = pc[r], step'[r] = step[r], found'[r] = found[r]
  PROVE  RunInv(r)'
  <1>1. PICK i \in Steps, refs \in SUBSET Entities : i = step[r] /\ refs = found[r]
    BY DEF SeedTypeOK
  <1>2. 1 .. i - 1 \subseteq Steps
    BY PlanTyped DEF Steps
  <1>3. \A j \in Steps : Seeded(j) => Seeded(j)'
    BY SeededStays
  <1>4. pc'[r] = "post" => Gathered(refs, i)'
    <2>1. pc[r] = "post" => Gathered(refs, i)
      BY <1>1 DEF RunInv
    <2> QED
      BY <2>1, GatheredStays
  <1>5. Going(r)' => \A j \in 1 .. i - 1 : Seeded(j)'
    BY <1>1, <1>2, <1>3 DEF RunInv, Going
  <1>6. pc'[r] = "done" => \A j \in Steps : Seeded(j)'
    BY <1>3 DEF RunInv
  <1>7. refs = found'[r] /\ i = step'[r]
    BY <1>1
  <1>8. pc'[r] = "post" => Gathered(found[r], step[r])'
    BY <1>4, <1>7 DEF Gathered
  <1>9. pc'[r] = "known" => Seeded(step[r])'
    <2>1. pc'[r] = "known" => Seeded(i)'
      BY <1>1, <1>3 DEF RunInv
    <2> QED
      BY <1>7, <2>1 DEF Seeded
  <1> QED
    BY <1>5, <1>6, <1>7, <1>8, <1>9 DEF RunInv

-----------------------------------------------------------------------------
(* What a row says                                                         *)

\* A row that shows was created by an event that was projected.
LEMMA ShownApplied ==
  ASSUME CatalogInv, RowsInv, NEW e \in Entities, Shown(e)
  PROVE  1 \in applied[e]
  <1>1. CASE e \in Deployments
    BY <1>1, Disjoint DEF CatalogInv, RowFollowsPartition
  <1>2. CASE e \notin Deployments
    BY <1>2 DEF RowsInv
  <1> QED
    BY <1>1, <1>2

\* What was applied was read.
LEMMA AppliedRead ==
  ASSUME TypeInv, NEW e \in Entities, 1 \in applied[e]
  PROVE  read[e] # 0
  <1>1. read[e] \in Nat /\ applied[e] \subseteq 1 .. read[e]
    BY DEF TypeInv, TypeOK
  <1> QED
    BY <1>1

\* An item that a query finds is seeded.
LEMMA RowSeeds ==
  ASSUME CatalogInv, RowsInv, ItemsInv, NEW i \in Steps, RowsOf(i) # {}
  PROVE  Seeded(i)
  <1>1. PICK e \in Plan[i].kind : Shown(e) /\ IsItem(e, i)
    BY DEF RowsOf
  <1>2. e \in Entities
    BY PlanTyped
  <1>3. 1 \in applied[e]
    BY <1>1, <1>2, ShownApplied
  <1> QED
    BY <1>1, <1>2, <1>3 DEF Seeded, ItemsInv

\* What an item needs is no deployment, and its needs are of different kinds.
LEMMA NeedsApart ==
  ASSUME NEW i \in Steps, NEW j \in Plan[i].needs, NEW k \in Plan[i].needs,
         NEW x \in Entities, IsItem(x, j), IsItem(x, k)
  PROVE  j = k
  <1>1. j \in Steps /\ k \in Steps
    BY NeedsEarlier
  <1>2. x \in Plan[j].kind /\ x \in Plan[k].kind
    BY DEF IsItem
  <1>3. x \notin Deployments
    <2>1. Plan[j].kind \in {Graphs, Agents, Models, Environments}
      BY PlanTyped DEF NeedsOf
    <2> QED
      BY <1>2, <2>1, Disjoint
  <1>4. Plan[j].name = Plan[k].name
    BY <1>3 DEF IsItem
  <1> QED
    BY <1>1, <1>2, <1>3, <1>4, OneItem

\* What a run reads is a row of something it needs and has not read.
LEMMA ReadGathers ==
  ASSUME CatalogInv, RowsInv, NEW i \in Steps, NEW refs \in SUBSET Entities, Gathered(refs, i),
         NEW j \in Plan[i].needs, \A y \in refs : ~IsItem(y, j), NEW x \in RowsOf(j)
  PROVE  x \in Entities /\ Gathered(refs \cup {x}, i)
  <1>1. x \in Entities /\ Shown(x) /\ IsItem(x, j)
    BY NeedsEarlier, PlanTyped DEF RowsOf
  <1>2. 1 \in applied[x]
    BY <1>1, ShownApplied
  <1>3. \A k \in Plan[i].needs : IsItem(x, k) => \A y \in refs : ~IsItem(y, k)
    BY <1>1, NeedsApart
  <1> QED
    BY <1>1, <1>2, <1>3 DEF Gathered

-----------------------------------------------------------------------------
(* Steps of a run that the registry does not see                           *)

\* What a step of run r does to nobody else.
Only(r) ==
  \A x \in Runs : x # r => pc'[x] = pc[x] /\ step'[x] = step[x] /\ found'[x] = found[x]

RunStep(r) ==
  \/ Begin(r) \/ SkipsExisting(r) \/ FindsAgent(r) \/ SkipsAgent(r)
  \/ FindsNothing(r) \/ ReadsNeed(r) \/ MissesNeed(r) \/ SeesRow(r) \/ TimesOut(r) \/ BreaksOff(r)

\* The script goes on to the next item, or ends behind the last.
LEMMA AdvanceForms ==
  ASSUME SeedTypeOK, NEW r \in Runs, Advance(r)
  PROVE  /\ pc' \in [Runs -> {"idle", "check", "known", "post", "wait", "done", "failed"}]
         /\ step' \in [Runs -> Steps]
         /\ \A x \in Runs : x # r => pc'[x] = pc[x] /\ step'[x] = step[x]
         /\ \/ pc'[r] = "done" /\ step[r] = Len(Plan)
            \/ pc'[r] = "check" /\ step'[r] = step[r] + 1
  <1>1. step[r] \in Steps /\ step[r] \in Nat /\ step[r] <= Len(Plan) /\ Len(Plan) \in Nat
    BY PlanTyped DEF SeedTypeOK
  <1>2. step[r] # Len(Plan) => step[r] + 1 \in Steps
    BY <1>1 DEF Steps
  <1> QED
    BY <1>1, <1>2 DEF Advance, Goto, SeedTypeOK

\* The rest of the script's variables.
LEMMA RunStepTypes ==
  ASSUME TypeOK, TypeOK', SeedTypeOK, NEW r \in Runs, RunStep(r), faults' + setbacks' <= MaxSetbacks
  PROVE  /\ SeedTypeOK' /\ Only(r) /\ UNCHANGED <<vars, seedKey>>
         /\ (overlapped' = FALSE => overlapped = FALSE) /\ setbacks' >= setbacks
         /\ setbacks \in Nat /\ setbacks' \in Nat
  <1>1. setbacks \in Nat /\ faults' \in Nat /\ MaxSetbacks \in Nat
    BY SeedAssumption, RegistryAssumption DEF TypeOK, SeedTypeOK
  <1>2. setbacks' \in 0 .. MaxSetbacks /\ setbacks' >= setbacks
    BY <1>1 DEF RunStep, Begin, MissesNeed, SkipsExisting, FindsAgent, SkipsAgent, FindsNothing,
                ReadsNeed, SeesRow, TimesOut, BreaksOff, Setback
  <1>3. 1 \in Steps
    BY SeedAssumption DEF Steps
  <1>4. CASE Begin(r)
    <2>2. /\ pc' = [pc EXCEPT ![r] = "check"] /\ step' = [step EXCEPT ![r] = 1]
          /\ pc[r] # "post" /\ UNCHANGED <<vars, found, seedKey>>
      BY <1>4 DEF Begin, Goto
    <2>3. found[r] = {}
      BY <2>2 DEF SeedTypeOK
    <2>4. overlapped' \in BOOLEAN /\ (overlapped' = FALSE => overlapped = FALSE)
      BY <1>4 DEF Begin, SeedTypeOK
    <2>5. /\ pc' \in [Runs -> {"idle", "check", "known", "post", "wait", "done", "failed"}]
          /\ step' \in [Runs -> Steps] /\ Only(r)
      BY <1>3, <2>2 DEF SeedTypeOK, Only
    <2>6. \A x \in Runs : found'[x] # {} => pc'[x] = "post" /\ Plan[step'[x]].needs # {}
      BY <2>2, <2>3 DEF SeedTypeOK
    <2> QED
      BY <1>1, <1>2, <2>2, <2>4, <2>5, <2>6 DEF SeedTypeOK, Only
  <1>5. CASE MissesNeed(r) \/ TimesOut(r) \/ BreaksOff(r)
    <2>1. /\ pc' = [pc EXCEPT ![r] = "failed"] /\ found' = [found EXCEPT ![r] = {}]
          /\ UNCHANGED <<vars, step, overlapped, seedKey>>
      BY <1>5 DEF MissesNeed, TimesOut, BreaksOff, Fails, Goto, Forget
    <2> QED
      BY <1>1, <1>2, <2>1 DEF SeedTypeOK, Only
  <1>6. CASE SkipsExisting(r) \/ SkipsAgent(r) \/ SeesRow(r)
    <2>1. /\ Advance(r) /\ pc[r] # "post"
          /\ UNCHANGED <<vars, found, overlapped, seedKey>>
      BY <1>6 DEF SkipsExisting, SkipsAgent, SeesRow
    <2> QED
      BY <1>1, <1>2, <2>1, AdvanceForms, SMTT(30) DEF SeedTypeOK, Only
  <1>7. CASE FindsAgent(r) \/ FindsNothing(r)
    <2>1. /\ pc' = [pc EXCEPT ![r] = "known"] \/ pc' = [pc EXCEPT ![r] = "post"]
          /\ pc[r] # "post"
          /\ UNCHANGED <<vars, step, found, overlapped, seedKey>>
      BY <1>7 DEF FindsAgent, FindsNothing, Goto
    <2> QED
      BY <1>1, <1>2, <2>1 DEF SeedTypeOK, Only
  <1>8. CASE ReadsNeed(r)
    <2> PICK j \in Plan[step[r]].needs :
             \E x \in RowsOf(j) : found' = [found EXCEPT ![r] = @ \cup {x}]
      BY <1>8 DEF ReadsNeed, Asked, Unread
    <2>1. PICK x \in RowsOf(j) : found' = [found EXCEPT ![r] = @ \cup {x}]
      OBVIOUS
    <2>2. x \in Entities
      BY <2>1, NeedsEarlier, PlanTyped DEF RowsOf, SeedTypeOK
    <2>3. pc[r] = "post" /\ UNCHANGED <<vars, pc, step, overlapped, seedKey>>
      BY <1>8 DEF ReadsNeed
    <2> QED
      BY <1>1, <1>2, <2>1, <2>2, <2>3 DEF SeedTypeOK, Only
  <1> QED
    BY <1>1, <1>2, <1>4, <1>5, <1>6, <1>7, <1>8 DEF RunStep

\* What the registry holds is the same to every invariant that speaks only of it.
LEMMA StillHolds ==
  ASSUME SeedInv, UNCHANGED <<vars, seedKey>>
  PROVE  /\ RowsInv' /\ RefsInv' /\ Planned' /\ ItemsInv' /\ NeverAheadOfProjection'
         /\ Kept
         /\ Undisturbed => Undisturbed'
         /\ \A e : (Shown(e)' <=> Shown(e)) /\ applied'[e] = applied[e]
         /\ \A e, i : IsItem(e, i)' <=> IsItem(e, i)
         /\ faults' = faults /\ read' = read /\ applied' = applied
  <1>1. /\ log' = log /\ read' = read /\ parked' = parked /\ rows' = rows
        /\ applied' = applied
        /\ faults' = faults /\ seedKey' = seedKey
    BY DEF vars, commandVars, readVars
  <1>2. /\ \A e : (Shown(e)' <=> Shown(e)) /\ applied'[e] = applied[e]
        /\ \A e : Ended(e)' <=> Ended(e)
        /\ \A e, i : IsItem(e, i)' <=> IsItem(e, i)
    BY <1>1 DEF Shown, Ended, IsItem
  <1>3. RowsInv' /\ RefsInv' /\ Planned' /\ ItemsInv'
    BY <1>1, <1>2 DEF SeedInv, RowsInv, RefsInv, Planned, ItemsInv
  <1>4. NeverAheadOfProjection'
    BY <1>1, <1>2 DEF SeedInv, NeverAheadOfProjection
  <1>5. Undisturbed => Undisturbed'
    BY <1>1, <1>2 DEF Undisturbed
  <1>6. Kept
    BY <1>1, <1>2 DEF Kept
  <1> QED
    BY <1>1, <1>2, <1>3, <1>4, <1>5, <1>6

\* The run that acts has seeded all it has behind it.
LEMMA ActorKeeps ==
  ASSUME FullInv, TypeOK', NEW r \in Runs, RunStep(r), faults' + setbacks' <= MaxSetbacks
  PROVE  RunInv(r)'
  <1>1. /\ TypeOK /\ TypeInv /\ SeedTypeOK /\ UNCHANGED <<vars, seedKey>> /\ Kept
        /\ RowsInv /\ ItemsInv /\ CatalogInv
    BY RunStepTypes, StillHolds DEF FullInv, CatalogInv, SeedInv, TypeInv
  <1>2. PICK i \in Steps : i = step[r]
    BY <1>1 DEF SeedTypeOK
  <1>3. i \in Nat /\ 1 <= i /\ Len(Plan) \in Nat
    BY PlanTyped
  <1>4. 1 .. i - 1 \subseteq Steps
    BY PlanTyped DEF Steps
  <1>5. \A j \in Steps : Seeded(j) => Seeded(j)'
    BY <1>1, SeededStays
  <1>6. CASE Begin(r)
    <2>1. pc'[r] = "check" /\ step'[r] = 1
      BY <1>1, <1>6 DEF Begin, Goto, SeedTypeOK
    <2> QED
      BY <2>1 DEF RunInv
  <1>7. CASE MissesNeed(r) \/ TimesOut(r) \/ BreaksOff(r)
    <2>1. pc'[r] = "failed"
      BY <1>1, <1>7 DEF MissesNeed, TimesOut, BreaksOff, Fails, Goto, SeedTypeOK
    <2> QED
      BY <2>1 DEF RunInv, Going
  <1>8. CASE SkipsExisting(r) \/ SkipsAgent(r) \/ SeesRow(r)
    <2>1. Going(r) /\ Advance(r) /\ (RowsOf(i) # {} \/ pc[r] = "known")
      BY <1>2, <1>8 DEF SkipsExisting, SkipsAgent, SeesRow, Going
    <2>2. \A j \in 1 .. i : Seeded(j)'
      <3>1. \A j \in 1 .. i - 1 : Seeded(j)
        BY <1>2, <2>1 DEF FullInv, SeedInv, RunsInv, RunInv
      <3>2. Seeded(i)
        BY <1>1, <1>2, <2>1, RowSeeds DEF FullInv, SeedInv, RunsInv, RunInv
      <3>3. \A j \in 1 .. i : j = i \/ j \in 1 .. i - 1
        BY <1>3
      <3> QED
        BY <1>4, <1>5, <3>1, <3>2, <3>3
    <2>3. CASE pc'[r] = "done" /\ i = Len(Plan)
      BY <2>2, <2>3 DEF RunInv, Going, Steps
    <2>4. CASE pc'[r] = "check" /\ step'[r] = i + 1
      <3>1. 1 .. step'[r] - 1 = 1 .. i
        BY <1>3, <2>4
      <3> QED
        BY <2>2, <2>4, <3>1 DEF RunInv
    <2> QED
      BY <1>1, <1>2, <2>1, <2>3, <2>4, AdvanceForms
  <1>9. \A j \in 1 .. i - 1 : Going(r) => Seeded(j)'
    BY <1>2, <1>4, <1>5 DEF FullInv, SeedInv, RunsInv, RunInv
  <1>10. CASE FindsAgent(r)
    <2>1. pc'[r] = "known" /\ step'[r] = i /\ Going(r) /\ RowsOf(i) # {}
      BY <1>1, <1>2, <1>10 DEF FindsAgent, Goto, SeedTypeOK, Going
    <2>2. Seeded(i)'
      BY <1>1, <1>5, <2>1, RowSeeds
    <2>3. Seeded(step[r])'
      BY <2>1, <2>2 DEF Seeded
    <2> QED
      BY <1>9, <2>1, <2>3 DEF RunInv
  <1>11. CASE FindsNothing(r)
    <2>1. pc'[r] = "post" /\ step'[r] = i /\ Going(r) /\ found'[r] = {}
      BY <1>1, <1>2, <1>11 DEF FindsNothing, Goto, SeedTypeOK, Going
    <2>2. Gathered(found[r], step[r])'
      BY <2>1 DEF Gathered
    <2> QED
      BY <1>9, <2>1, <2>2 DEF RunInv
  <1>12. CASE ReadsNeed(r)
    <2>1. PICK refs \in SUBSET Entities : refs = found[r]
      BY <1>1 DEF SeedTypeOK
    <2>2. /\ pc[r] = "post" /\ pc'[r] = "post" /\ step'[r] = i /\ Going(r)
          /\ \E j \in Unread(r) : \E x \in RowsOf(j) : found'[r] = refs \cup {x}
      BY <1>1, <1>2, <1>12, <2>1 DEF ReadsNeed, Asked, SeedTypeOK, Going
    <2> PICK j \in Plan[i].needs :
             \E x \in RowsOf(j) :
               found'[r] = refs \cup {x} /\ \A y \in refs : ~IsItem(y, j)
      BY <1>2, <2>1, <2>2 DEF Unread
    <2>3. PICK x \in RowsOf(j) :
            found'[r] = refs \cup {x} /\ \A y \in refs : ~IsItem(y, j)
      OBVIOUS
    <2>4. Gathered(refs, i)
      BY <1>2, <2>1, <2>2 DEF FullInv, SeedInv, RunsInv, RunInv
    <2>5. PICK after \in SUBSET Entities : after = refs \cup {x} /\ Gathered(after, i)
      BY <1>1, <2>3, <2>4, ReadGathers
    <2>6. Gathered(after, i)'
      BY <1>1, <2>5, GatheredStays
    <2>7. Gathered(found[r], step[r])'
      BY <2>2, <2>3, <2>5, <2>6 DEF Gathered
    <2> QED
      BY <1>9, <2>2, <2>7 DEF RunInv
  <1> QED
    BY <1>6, <1>7, <1>8, <1>10, <1>11, <1>12 DEF RunStep

\* Where nothing has gone wrong, nothing had.
LEMMA NoneBefore ==
  ASSUME NEW f \in Nat, NEW before \in Nat, NEW after \in Nat, after >= before, f + after = 0
  PROVE  f + before = 0 /\ after = before
  OBVIOUS

\* The setbacks stay within the bound, and one that has been is not undone.
LEMMA SumsBounded ==
  ASSUME NEW f \in Nat, NEW after \in Nat, NEW most \in Nat
  PROVE  /\ f + after <= most => after \in 0 .. most
         /\ f > 0 \/ after > 0 => f + after # 0
  OBVIOUS

\* Where nobody changes a deployment, its configuration is the one it was created with.
LEMMA UnchangedKeepsKey ==
  ASSUME CatalogInv, Undisturbed, NEW e \in Entities, Shown(e)
  PROVE  KeepsKey(e)
  <1> SUFFICES ASSUME e \in Deployments
               PROVE  rows[e].rev = 1
    BY DEF KeepsKey
  <1>1. TypeInv /\ rows[e].rev \in applied[e]
    BY Disjoint DEF CatalogInv, RowFollowsPartition
  <1>2. PICK i \in DOMAIN log[e] : i = rows[e].rev
    BY <1>1, AppliedTyped, LogTyped DEF TypeInv
  <1>3. i \in Nat /\ 1 <= i /\ log[e][i].op = "created"
    BY <1>1, <1>2, LogTyped DEF TypeInv, Undisturbed
  <1>4. ~(i > 1)
    BY <1>1, <1>2, <1>3 DEF TypeInv, LogInv
  <1> QED
    BY <1>2, <1>3, <1>4

\* A run alone keeps the quiet: what it waits for, and what it is about to post.
LEMMA RunStepQuiet ==
  ASSUME FullInv, TypeOK', NEW r \in Runs, RunStep(r), faults' + setbacks' <= MaxSetbacks
  PROVE  QuietInv'
  <1> SUFFICES ASSUME Quiet'
               PROVE  Alone' /\ Undisturbed' /\ Awaited' /\ Unposted'
    BY DEF QuietInv
  <1>1. /\ SeedInv /\ TypeOK /\ TypeInv /\ SeedTypeOK /\ CatalogInv /\ RowsInv
        /\ UNCHANGED <<vars, seedKey>> /\ Only(r)
        /\ ~overlapped /\ setbacks' >= setbacks /\ setbacks \in Nat /\ setbacks' \in Nat
    <2>1. SeedInv /\ TypeOK /\ TypeInv /\ SeedTypeOK /\ CatalogInv /\ RowsInv
      BY DEF FullInv, CatalogInv, SeedInv, TypeInv
    <2>2. overlapped \in BOOLEAN /\ overlapped' = FALSE
      BY <2>1 DEF SeedTypeOK, Quiet
    <2> QED
      BY <2>1, <2>2, RunStepTypes
  <1>2. /\ \A e, i : IsItem(e, i)' <=> IsItem(e, i)
        /\ Undisturbed => Undisturbed'
        /\ faults' = faults /\ read' = read
    BY <1>1, StillHolds
  <1>3. Quiet /\ setbacks' = setbacks
    <2>1. faults \in Nat
      BY <1>1 DEF TypeOK
    <2>2. faults + setbacks' = 0
      BY <1>2 DEF Quiet
    <2>3. setbacks' >= setbacks /\ setbacks \in Nat /\ setbacks' \in Nat
      BY <1>1
    <2>4. faults + setbacks = 0 /\ setbacks' = setbacks
      BY <2>1, <2>2, <2>3, NoneBefore
    <2> QED
      BY <1>1, <2>4 DEF Quiet
  <1>4. Alone /\ Undisturbed /\ Awaited /\ Unposted
    BY <1>1, <1>3 DEF SeedInv, QuietInv
  <1>5. ~BreaksOff(r)
    BY <1>1, <1>3 DEF BreaksOff, Setback
  <1>6. Alone'
    <2>1. CASE Begin(r)
      <3>1. \A s \in Runs : ~Going(s)
        BY <2>1 DEF Begin, Quiet
      <3>2. \A s \in Runs : s # r => ~Going(s)'
        BY <1>1, <3>1 DEF Only, Going
      <3> QED
        BY <3>2 DEF Alone
    <2>2. CASE ~Begin(r)
      <3>1. Going(r)
        BY <2>2 DEF RunStep, MissesNeed, SkipsExisting, FindsAgent, SkipsAgent, FindsNothing,
                    ReadsNeed, SeesRow, TimesOut, BreaksOff, Going
      <3>2. \A s \in Runs : Going(s)' => Going(s)
        BY <1>1, <3>1 DEF Only, Going
      <3> QED
        BY <1>4, <3>2 DEF Alone
    <2> QED
      BY <2>1, <2>2
  <1>7. Awaited'
    <2> SUFFICES ASSUME NEW e \in Entities, NEW i \in Steps, IsItem(e, i), read[e] = 0
                 PROVE  \E s \in Runs : pc'[s] = "wait" /\ step'[s] = i
      BY <1>2 DEF Awaited
    <2>1. PICK s \in Runs : pc[s] = "wait" /\ step[s] = i
      BY <1>4 DEF Awaited
    <2>2. CASE s # r
      BY <1>1, <2>1, <2>2 DEF Only
    <2>3. CASE s = r
      <3>1. SeesRow(r) \/ TimesOut(r)
        BY <1>5, <2>1, <2>3
           DEF RunStep, Begin, MissesNeed, SkipsExisting, FindsAgent, SkipsAgent, FindsNothing,
               ReadsNeed
      <3>2. ~TimesOut(r)
        <4>1. OnItsWay(i)
          BY DEF OnItsWay, IsItem
        <4> QED
          BY <2>1, <2>3, <4>1 DEF TimesOut
      <3>3. ~SeesRow(r)
        <4> SUFFICES ASSUME NEW x \in RowsOf(i)
                     PROVE  FALSE
          BY <2>1, <2>3 DEF SeesRow
        <4>1. x \in Entities /\ Shown(x) /\ IsItem(x, i)
          BY PlanTyped DEF RowsOf
        <4>2. x = e
          BY <1>4, <4>1 DEF Undisturbed
        <4> QED
          BY <1>1, <4>1, <4>2, ShownApplied, AppliedRead
      <3> QED
        BY <3>1, <3>2, <3>3
    <2> QED
      BY <2>2, <2>3
  <1>8. Unposted'
    <2> SUFFICES ASSUME NEW s \in Runs, pc'[s] = "post", NEW i, i = step'[s],
                        NEW e \in Entities, IsItem(e, i)
                 PROVE  FALSE
      <3>1. \A s \in Runs : pc'[s] = "post" =>
              \A i : i = step'[s] => \A e \in Entities : ~IsItem(e, i)'
        BY <1>2
      <3> QED
        BY <3>1 DEF Unposted, IsItem
    <2>1. CASE s # r
      BY <1>1, <1>4, <2>1 DEF Only, Unposted, IsItem
    <2>2. CASE s = r
      <3>1. FindsNothing(r) \/ ReadsNeed(r)
        BY <1>1, <1>5, <2>2, AdvanceForms
           DEF RunStep, Begin, MissesNeed, SkipsExisting, FindsAgent, SkipsAgent, SeesRow, TimesOut,
               Fails, Goto, SeedTypeOK
      <3>2. CASE ReadsNeed(r)
        BY <1>4, <2>2, <3>2 DEF ReadsNeed, Unposted, IsItem
      <3>3. CASE FindsNothing(r)
        <4>1. /\ pc[r] = "check" /\ RowsOf(step[r]) = {} /\ step'[r] = step[r]
              /\ step[r] \in Steps
          BY <1>1, <3>3 DEF FindsNothing, SeedTypeOK
        <4>2. IsItem(e, step[r]) /\ ~Shown(e)
          BY <1>1, <1>4, <2>2, <4>1, UnchangedKeepsKey DEF RowsOf, IsItem
        <4>3. read[e] = 0
          BY <1>4, <4>2 DEF Undisturbed
        <4>4. PICK t \in Runs : pc[t] = "wait"
          BY <1>4, <4>1, <4>2, <4>3 DEF Awaited
        <4> QED
          BY <1>4, <4>1, <4>4 DEF Alone, Going
      <3> QED
        BY <3>1, <3>2, <3>3
    <2> QED
      BY <2>1, <2>2
  <1> QED
    BY <1>2, <1>4, <1>6, <1>7, <1>8

\* Steps of a run that the registry does not see keep the invariant.
LEMMA RunStepKeeps ==
  ASSUME FullInv, NEW r \in Runs, RunStep(r), faults' + setbacks' <= MaxSetbacks
  PROVE  FullInv'
  <1>1. UNCHANGED vars
    BY DEF RunStep, Begin, MissesNeed, SkipsExisting, FindsAgent, SkipsAgent, FindsNothing,
           ReadsNeed, SeesRow, TimesOut, BreaksOff
  <1>2. CatalogInv /\ CatalogInv' /\ TypeOK /\ TypeOK' /\ SeedInv /\ SeedTypeOK /\ TypeInv
    BY <1>1, StepKeepsInv DEF FullInv, CatalogInv, TypeInv, SeedInv
  <1>3. SeedTypeOK' /\ Only(r) /\ UNCHANGED <<vars, seedKey>>
    BY <1>2, RunStepTypes
  <1>4. /\ RowsInv' /\ RefsInv' /\ Planned' /\ ItemsInv' /\ NeverAheadOfProjection'
        /\ Kept
    BY <1>2, <1>3, StillHolds
  <1>5. RunsInv'
    <2>1. RunInv(r)'
      BY <1>2, ActorKeeps
    <2>2. ASSUME NEW s \in Runs, s # r
          PROVE  RunInv(s)'
      BY <1>2, <1>3, <1>4, <2>2, BystanderKeeps DEF Only, SeedInv, RunsInv
    <2> QED
      BY <2>1, <2>2 DEF RunsInv
  <1>6. QuietInv'
    BY <1>2, RunStepQuiet
  <1> QED
    BY <1>2, <1>3, <1>4, <1>5, <1>6 DEF FullInv, SeedInv

-----------------------------------------------------------------------------
(* Posting an item                                                         *)

\* The ids a run has read for an item are those a create of its kind takes.
LEMMA ReadiedForms ==
  ASSUME NEW i \in Steps, Plan[i].kind # {}, NEW refs, Readied(refs, i)
  PROVE  /\ Plan[i].kind = Agents => \E g \in Graphs : refs = {g}
         /\ Plan[i].kind = Deployments /\ Plan[i].kind # Agents =>
              \E a \in Agents, v \in Environments :
                /\ log[v][1].name = Plan[i].name
                /\ refs = {a, v} \/ \E m \in Models : refs = {a, v, m}
         /\ Plan[i].kind \notin {Agents, Deployments} => refs = {}
  <1>1. NeedsOf(i)
    BY PlanTyped
  <1>2. \A j \in Plan[i].needs :
          \E x \in refs : x \in Plan[j].kind /\ IsItem(x, j) /\ \A y \in refs : IsItem(y, j) => y = x
    BY DEF Readied, Gathered, IsItem
  <1>3. \A x \in refs : \E j \in Plan[i].needs : IsItem(x, j)
    BY DEF Readied, Gathered
  <1>4. CASE Plan[i].kind = Agents
    <2>1. PICK g \in 1 .. i - 1 : Plan[g].kind = Graphs /\ Plan[i].needs = {g}
      BY <1>1, <1>4, Disjoint DEF NeedsOf
    <2>2. PICK x \in refs : x \in Graphs /\ \A y \in refs : IsItem(y, g) => y = x
      BY <1>2, <2>1
    <2>3. refs = {x}
      BY <1>3, <2>1, <2>2
    <2> QED
      BY <1>4, <2>2, <2>3
  <1>5. CASE Plan[i].kind = Deployments /\ Plan[i].kind # Agents
    <2>1. PICK a, v \in 1 .. i - 1 :
            /\ Plan[a].kind = Agents /\ Plan[v].kind = Environments
            /\ Plan[v].name = Plan[i].name
            /\ \/ Plan[i].needs = {a, v}
               \/ \E m \in 1 .. i - 1 : Plan[m].kind = Models /\ Plan[i].needs = {a, v, m}
      BY <1>1, <1>5 DEF NeedsOf
    <2>2. a \in Plan[i].needs /\ v \in Plan[i].needs
      BY <2>1
    <2>3. PICK x \in refs : x \in Agents /\ \A y \in refs : IsItem(y, a) => y = x
      BY <1>2, <2>1, <2>2
    <2>4. PICK w \in refs :
            /\ w \in Environments /\ IsItem(w, v)
            /\ \A y \in refs : IsItem(y, v) => y = w
      BY <1>2, <2>1, <2>2
    <2>5. log[w][1].name = Plan[i].name
      BY <2>1, <2>4, Disjoint DEF IsItem
    <2>6. CASE Plan[i].needs = {a, v}
      <3>1. refs = {x, w}
        BY <1>3, <2>3, <2>4, <2>6
      <3> QED
        BY <1>5, <2>3, <2>4, <2>5, <3>1
    <2>7. ASSUME NEW m \in 1 .. i - 1, Plan[m].kind = Models, Plan[i].needs = {a, v, m}
          PROVE  \E z \in Models : refs = {x, w, z}
      <3>1. PICK z \in refs : z \in Models /\ \A y \in refs : IsItem(y, m) => y = z
        BY <1>2, <2>7
      <3>2. refs = {x, w, z}
        BY <1>3, <2>3, <2>4, <2>7, <3>1
      <3> QED
        BY <3>1, <3>2
    <2> QED
      BY <1>5, <2>1, <2>3, <2>4, <2>5, <2>6, <2>7
  <1>6. CASE Plan[i].kind \notin {Agents, Deployments}
    <2>1. Plan[i].needs = {}
      BY <1>1, <1>6 DEF NeedsOf
    <2> QED
      BY <1>3, <1>6, <2>1
  <1> QED
    BY <1>4, <1>5, <1>6

\* A row that was projected has been there to be read.
LEMMA AppliedSeen ==
  ASSUME NEW e \in Entities, 1 \in applied[e]
  PROVE  Seen(e)
  BY DEF Seen, Written

\* What a run posts is a command of the registry.
LEMMA PostIsCommand ==
  ASSUME NEW i \in Steps, NEW e \in Plan[i].kind, NEW refs \in SUBSET Entities,
         Readied(refs, i), Create(e, Plan[i].name, refs)
  PROVE  /\ Next
         /\ e \notin Deployments => refs \cap Environments = {}
         /\ e \in Deployments =>
              /\ \A x \in refs \ Environments : x \in Agents \cup Models /\ Seen(x)
              /\ \A x, y \in refs \cap Environments : x = y /\ log[x][1].name = Plan[i].name
  <1>1. /\ Plan[i].kind \in Kinds /\ Plan[i].name \in Names
        /\ \A K \in Kinds : e \in K => Plan[i].kind = K
    BY PlanTyped
  <1>2. \A x \in refs : Seen(x)
    BY AppliedSeen DEF Readied, Gathered
  <1>3. Agents \in Kinds /\ Deployments \in Kinds
    BY DEF Kinds
  <1> issued' = issued + 1
    BY DEF Create, Command
  <1>4. CASE Plan[i].kind = Agents
    <2>1. PICK g \in Graphs : refs = {g}
      BY <1>4, ReadiedForms
    <2>2. CreateAgent
      BY <1>1, <1>2, <1>4, <2>1 DEF CreateAgent, Known
    <2> QED
      BY <1>4, <2>1, <2>2, Disjoint DEF Next, Commands
  <1>5. CASE Plan[i].kind = Deployments
    <2>1. Plan[i].kind # Agents
      BY <1>5, Disjoint
    <2>2. PICK a \in Agents, v \in Environments :
            /\ log[v][1].name = Plan[i].name
            /\ refs = {a, v} \/ \E m \in Models : refs = {a, v, m}
      BY <1>5, <2>1, ReadiedForms
    <2>3. Seen(a) /\ Known(v)
      BY <1>2, <2>2 DEF Known
    <2>4. CASE refs = {a, v}
      <3>1. CreateDeployment
        BY <1>1, <1>5, <2>3, <2>4 DEF CreateDeployment
      <3> QED
        BY <1>2, <1>5, <2>2, <2>4, <3>1, Disjoint DEF Next, Commands
    <2>5. ASSUME NEW m \in Models, refs = {a, v, m}
          PROVE  /\ CreateDeployment
                 /\ \A x \in refs \ Environments : x \in Agents \cup Models
                 /\ \A x \in refs \cap Environments : x = v
      <3>1. Seen(m)
        BY <1>2, <2>5
      <3>2. CreateDeployment
        BY <1>1, <1>5, <2>3, <2>5, <3>1 DEF CreateDeployment
      <3>3. Environments \cap Agents = {} /\ Environments \cap Models = {}
        BY Disjoint
      <3>4. \A x \in refs : x = a \/ x = v \/ x = m
        BY <2>5
      <3> QED
        BY <3>2, <3>3, <3>4
    <2> QED
      BY <1>2, <1>5, <2>2, <2>4, <2>5 DEF Next, Commands
  <1>6. CASE Plan[i].kind \notin {Agents, Deployments}
    <2>1. refs = {} /\ Plan[i].kind \in {Models, Graphs, Tools, Environments}
      BY <1>1, <1>6, ReadiedForms DEF Kinds
    <2>2. CreateModel \/ CreateGraph \/ CreateTool \/ CreateEnvironment
      BY <1>1, <2>1 DEF CreateModel, CreateGraph, CreateTool, CreateEnvironment
    <2>3. e \notin Deployments
      BY <1>1, <1>3, <1>6
    <2> QED
      BY <2>1, <2>2, <2>3 DEF Next, Commands
  <1> QED
    BY <1>4, <1>5, <1>6

-----------------------------------------------------------------------------
(* Commands                                                                *)

\* The event a client may put on the log: a create of an item with what the item
\* needs, or a change to what is there.
Admitted(e, event) ==
  /\ event.op = "updated" => e \in Deployments
  /\ event.op # "created" => log[e] # <<>>
  /\ event.op = "created" =>
       /\ log[e] = <<>>
       /\ \E i \in Steps : IsItem(e, i)'
       /\ \A i \in Steps : IsItem(e, i)' =>
            \A j \in Plan[i].needs : \E x \in event.refs : IsItem(x, j)
  /\ \A x \in event.refs :
       /\ 1 \in applied[x]
       /\ x \in Environments =>
            /\ e \in Deployments /\ log[x][1].name = event.name
            /\ \A y \in event.refs \cap Environments : y = x

\* A command leaves what was there as it was.
LEMMA IssueKept ==
  ASSUME TypeInv, NEW e \in Entities, NEW event \in Event, Issued(e, event),
         \A d \in Deployments : log[d] # <<>> => seedKey'[d] = seedKey[d]
  PROVE  Kept
  BY IssueKeepsApplied DEF Kept

\* An event in a partition after the command was there before or is the command's.
LEMMA OldOrNew ==
  ASSUME TypeInv, NEW e \in Entities, NEW event \in Event, Issued(e, event),
         NEW x \in Entities, NEW i \in DOMAIN log'[x]
  PROVE  \/ i \in DOMAIN log[x] /\ log'[x][i] = log[x][i]
         \/ x = e /\ i = Len(log[e]) + 1 /\ log'[x][i] = event
  <1>1. CASE x # e
    BY <1>1, LogGrows DEF TypeInv
  <1>2. CASE x = e
    <2>1. DOMAIN log'[e] = 1 .. Len(log[e]) + 1 /\ DOMAIN log[e] = 1 .. Len(log[e])
      BY LogGrows, LogTyped DEF TypeInv
    <2>2. Len(log[e]) \in Nat
      BY LogTyped DEF TypeInv
    <2>3. i \in 1 .. Len(log[e]) \/ i = Len(log[e]) + 1
      BY <1>2, <2>1, <2>2
    <2> QED
      BY <1>2, <2>1, <2>3, LogGrows DEF TypeInv
  <1> QED
    BY <1>1, <1>2

\* A command of the script or a user keeps what the registry holds in order.
LEMMA IssueKeepsSeed ==
  ASSUME CatalogInv, SeedInv, NEW e \in Entities, NEW event \in Event, Issued(e, event),
         Kept, Admitted(e, event)
  PROVE  RowsInv' /\ RefsInv' /\ Planned' /\ ItemsInv' /\ NeverAheadOfProjection'
  <1>1. TypeInv /\ RowsInv /\ RefsInv /\ Planned /\ ItemsInv /\ NeverAheadOfProjection
    BY DEF CatalogInv, SeedInv
  <1>2. /\ \A x \in Entities : applied'[x] = applied[x] /\ (Ended(x)' <=> Ended(x))
        /\ \A x \in Entities : log[x] # <<>> => log'[x] # <<>> /\ log'[x][1] = log[x][1]
        /\ rows' = rows /\ parked' = parked
    BY <1>1, IssueKeepsApplied
  <1>3. \A x \in Entities : 1 \in applied[x] => log'[x][1] = log[x][1]
    BY <1>1, <1>2, AppliedIssued
  <1>4. \A x \in Entities : \A i \in DOMAIN log[x] : log[x][i] \in Event /\ log[x][i].refs \subseteq Entities
    <2> SUFFICES ASSUME NEW x \in Entities, NEW i \in DOMAIN log[x]
                 PROVE  log[x][i] \in Event /\ log[x][i].refs \subseteq Entities
      OBVIOUS
    <2>1. log[x][i] \in Event
      BY <1>1, LogTyped DEF TypeInv
    <2> QED
      BY <2>1 DEF Event
  <1>5. event.refs \subseteq Entities
    BY DEF Event
  <1>6. RowsInv'
    BY <1>1, <1>2, <1>3 DEF RowsInv, Shown
  <1>7. RefsInv'
    <2> SUFFICES ASSUME NEW x \in Entities, NEW i \in DOMAIN log'[x], NEW z \in log'[x][i].refs
                 PROVE  /\ 1 \in applied'[z]
                        /\ z \in Environments =>
                             /\ x \in Deployments /\ log'[z][1].name = log'[x][i].name
                             /\ \A y \in log'[x][i].refs \cap Environments : y = z
      BY DEF RefsInv
    <2>1. CASE i \in DOMAIN log[x] /\ log'[x][i] = log[x][i]
      <3>1. z \in Entities /\ 1 \in applied[z]
        BY <1>1, <1>4, <2>1 DEF RefsInv
      <3> QED
        BY <1>1, <1>2, <1>3, <2>1, <3>1 DEF RefsInv
    <2>2. CASE x = e /\ log'[x][i] = event
      <3>1. z \in Entities /\ 1 \in applied[z]
        BY <1>5, <2>2 DEF Admitted
      <3> QED
        BY <1>2, <1>3, <2>2, <3>1 DEF Admitted
    <2> QED
      BY <1>1, <2>1, <2>2, OldOrNew
  <1>8. Planned'
    <2>1. ASSUME NEW x \in Entities, NEW i \in DOMAIN log'[x]
          PROVE  log'[x][i].op = "updated" => x \in Deployments
      BY <1>1, <2>1, OldOrNew DEF Planned, Admitted
    <2>2. ASSUME NEW x \in Entities, log[x] # <<>>
          PROVE  log'[x][1].op = "created" /\ \E i \in Steps : IsItem(x, i)'
      <3>1. log[x][1].op = "created" /\ \E i \in Steps : IsItem(x, i)
        BY <1>1, <2>2 DEF Planned
      <3> QED
        BY <1>2, <2>2, <3>1, ItemStays
    <2>3. ASSUME NEW x \in Entities, log[x] = <<>>, log'[x] # <<>>
          PROVE  log'[x][1].op = "created" /\ \E i \in Steps : IsItem(x, i)'
      <3>1. x = e /\ log'[e][1] = event
        BY <1>1, <2>3, LogGrows, LogTyped DEF TypeInv
      <3> QED
        BY <2>3, <3>1 DEF Admitted
    <2> QED
      BY <2>1, <2>2, <2>3 DEF Planned
  <1>9. ItemsInv'
    <2> SUFFICES ASSUME NEW x \in Entities, NEW i \in Steps, IsItem(x, i)', NEW j \in Plan[i].needs
                 PROVE  \E z \in log'[x][1].refs : IsItem(z, j)'
      BY DEF ItemsInv
    <2>1. CASE log[x] # <<>>
      <3>1. IsItem(x, i)
        BY <2>1, ItemStays
      <3>2. PICK z \in log[x][1].refs : IsItem(z, j)
        BY <1>1, <3>1 DEF ItemsInv
      <3>3. 1 \in DOMAIN log[x]
        BY <1>1, <2>1, LogTyped DEF TypeInv
      <3>4. z \in Entities /\ log[z] # <<>>
        BY <1>4, <3>2, <3>3 DEF IsItem
      <3>5. IsItem(z, j)'
        BY <3>2, <3>4, ItemStays
      <3> QED
        BY <1>2, <2>1, <3>2, <3>5
    <2>2. CASE log[x] = <<>>
      <3>1. log'[x] # <<>>
        BY DEF IsItem
      <3>2. x = e /\ log'[e][1] = event /\ event.op = "created"
        BY <1>1, <2>2, <3>1, LogGrows, LogTyped DEF TypeInv, Admitted
      <3>3. PICK z \in event.refs : IsItem(z, j)
        BY <3>2 DEF Admitted
      <3>4. z \in Entities /\ log[z] # <<>>
        BY <1>5, <3>3 DEF IsItem
      <3>5. IsItem(z, j)'
        BY <3>3, <3>4, ItemStays
      <3> QED
        BY <3>2, <3>3, <3>5
    <2> QED
      BY <2>1, <2>2
  <1>10. NeverAheadOfProjection'
    <2> SUFFICES ASSUME NEW p \in parked
                 PROVE  p[3] = "reference" =>
                          \E x \in log'[p[1]][p[2]].refs : 1 \in applied'[x] /\ Ended(x)'
      BY <1>2 DEF NeverAheadOfProjection
    <2>1. p[1] \in Entities /\ p[2] \in 1 .. read[p[1]] /\ read[p[1]] \in 0 .. Len(log[p[1]])
      BY <1>1 DEF TypeInv, TypeOK
    <2>2. Len(log[p[1]]) \in Nat
      BY <1>1, <2>1, LogTyped DEF TypeInv
    <2>3. p[2] \in 1 .. Len(log[p[1]])
      BY <2>1, <2>2
    <2>4. log'[p[1]][p[2]] = log[p[1]][p[2]]
      BY <1>1, <2>1, <2>3, LogGrows DEF TypeInv
    <2> QED
      BY <1>1, <2>4, RefusedStays DEF NeverAheadOfProjection
  <1> QED
    BY <1>6, <1>7, <1>8, <1>9, <1>10

\* What posting item i as e does.
Posted(r, i, e, event) ==
  /\ pc[r] = "post" /\ step[r] = i
  /\ event.op = "created" /\ event.name = Plan[i].name
  /\ event.refs = found[r] /\ Readied(found[r], i)
  /\ Issued(e, event) /\ Next /\ log[e] = <<>>
  /\ pc' = [pc EXCEPT ![r] = IF e \in accepted' THEN "wait" ELSE "failed"]
  /\ e \in accepted' \/ faults' = faults + 1
  /\ seedKey' = IF e \in Deployments THEN [seedKey EXCEPT ![e] = i] ELSE seedKey
  /\ found' = [found EXCEPT ![r] = {}]
  /\ UNCHANGED <<step, overlapped, setbacks>>

LEMMA PostForms ==
  ASSUME FullInv, NEW r \in Runs, Posts(r)
  PROVE  \E i \in Steps : \E e \in Plan[i].kind, event \in Event : Posted(r, i, e, event)
  <1>1. TypeInv /\ TypeOK /\ SeedTypeOK
    BY DEF FullInv, CatalogInv, SeedInv, TypeInv
  <1>2. PICK i \in Steps, refs \in SUBSET Entities : i = step[r] /\ refs = found[r]
    BY <1>1 DEF SeedTypeOK
  <1>3. PICK e : e = CHOOSE x \in Plan[i].kind : Fresh(x)
    OBVIOUS
  <1>4. e \in Plan[i].kind /\ e \in Entities /\ Plan[i].name \in Names
    BY <1>2, <1>3, PlanTyped DEF Posts
  <1>5. /\ Create(e, Plan[i].name, refs) /\ pc[r] = "post"
        /\ Goto(r, IF e \in accepted' THEN "wait" ELSE "failed")
        /\ seedKey' = IF e \in Deployments THEN [seedKey EXCEPT ![e] = i] ELSE seedKey
        /\ Forget(r)
        /\ UNCHANGED <<step, overlapped, setbacks>>
    BY <1>2, <1>3 DEF Posts
  <1>6. Readied(refs, i)
    <2>1. Gathered(refs, i)
      BY <1>2, <1>5 DEF FullInv, SeedInv, RunsInv, RunInv
    <2> QED
      BY <1>2, <2>1 DEF Posts, Unread, Readied
  <1>7. /\ Next
        /\ e \notin Deployments => refs \cap Environments = {}
        /\ e \in Deployments =>
             \A x \in refs \ Environments : x \in Agents \cup Models /\ Seen(x)
    BY <1>4, <1>5, <1>6, PostIsCommand
  <1>8. PICK event : event = [op |-> "created", name |-> Plan[i].name, refs |-> refs]
    OBVIOUS
  <1>9. /\ event \in Event /\ event.op = "created" /\ event.name = Plan[i].name
        /\ event.refs = refs
    BY <1>4, <1>8 DEF Event
  <1>10. Fresh(e) /\ Command(e, event, {e}) /\ log[e] = <<>>
    BY <1>5, <1>8 DEF Create, Fresh
  <1>11. CreatedAs(e, event)
    BY <1>4, <1>7, <1>9, <1>10 DEF CreatedAs
  <1>12. Issued(e, event)
    BY <1>9, <1>10, <1>11 DEF Command, Issued, Fault
  <1>13. e \in accepted' \/ faults' = faults + 1
    BY <1>10 DEF Command, Fault
  <1>14. Posted(r, i, e, event)
    BY <1>2, <1>5, <1>6, <1>7, <1>9, <1>10, <1>12, <1>13 DEF Posted, Goto, Forget
  <1> QED
    BY <1>4, <1>9, <1>14

\* What is posted is the item the run is at and no other.
LEMMA PostAdmitted ==
  ASSUME FullInv, NEW r \in Runs, NEW i \in Steps, NEW e \in Plan[i].kind, NEW event \in Event,
         Posted(r, i, e, event)
  PROVE  /\ Kept /\ Admitted(e, event)
         /\ IsItem(e, i)' /\ \A k \in Steps : IsItem(e, k)' => k = i
         /\ \A x \in Entities : x # e => \A k : IsItem(x, k)' <=> IsItem(x, k)
  <1>1. TypeInv /\ TypeOK /\ SeedTypeOK /\ e \in Entities
    BY PlanTyped DEF FullInv, CatalogInv, SeedInv, TypeInv
  <1>2. Issued(e, event) /\ log[e] = <<>>
    BY DEF Posted
  <1>3. Kept
    <2>1. \A d \in Deployments : log[d] # <<>> => seedKey'[d] = seedKey[d]
      BY <1>1, <1>2 DEF Posted, SeedTypeOK
    <2> QED
      BY <1>1, <1>2, <2>1, IssueKept
  <1>4. log'[e] # <<>> /\ log'[e][1] = event
    <2>1. Len(log[e]) = 0
      BY <1>1, <1>2, LogTyped
    <2> QED
      BY <1>1, <1>2, <2>1, LogGrows
  <1>5. e \in Deployments => seedKey'[e] = i
    BY <1>1 DEF Posted, SeedTypeOK
  <1>6. IsItem(e, i)'
    BY <1>4, <1>5 DEF IsItem, Posted
  <1>7. ASSUME NEW k \in Steps, IsItem(e, k)'
        PROVE  k = i
    <2>1. CASE e \in Deployments
      BY <1>5, <1>7, <2>1 DEF IsItem
    <2>2. CASE e \notin Deployments
      <3>1. e \in Plan[k].kind /\ Plan[k].name = Plan[i].name
        BY <1>4, <1>7, <2>2 DEF IsItem, Posted
      <3> QED
        BY <1>1, <2>2, <3>1, OneItem
    <2> QED
      BY <2>1, <2>2
  <1>8. \A x \in Entities : x # e => \A k : IsItem(x, k)' <=> IsItem(x, k)
    <2>1. \A x \in Entities : x # e => log'[x] = log[x]
      BY <1>1, <1>2, LogGrows
    <2>2. \A x \in Deployments : x # e => seedKey'[x] = seedKey[x]
      BY <1>1 DEF Posted, SeedTypeOK
    <2> QED
      BY <2>1, <2>2 DEF IsItem
  <1>9. PICK refs \in SUBSET Entities : refs = found[r] /\ refs = event.refs /\ Readied(refs, i)
    BY <1>1 DEF Posted, SeedTypeOK
  <1>10. Admitted(e, event)
    <2>1. \A k \in Steps : IsItem(e, k)' =>
            \A j \in Plan[k].needs : \E x \in event.refs : IsItem(x, j)
      BY <1>7, <1>9 DEF Readied
    <2>2. \A x \in event.refs : 1 \in applied[x]
      BY <1>9 DEF Readied, Gathered
    <2>3. \A x \in event.refs \cap Environments :
            /\ e \in Deployments /\ log[x][1].name = event.name
            /\ \A y \in event.refs \cap Environments : y = x
      <3>1. CASE e \notin Deployments
        BY <1>2, <3>1, <1>4 DEF Issued, CreatedAs, Posted
      <3>2. CASE e \in Deployments
        <4>1. /\ Plan[i].kind = Deployments /\ Plan[i].kind # Agents /\ Plan[i].kind # {}
          <5>1. Deployments \in Kinds
            BY DEF Kinds
          <5> QED
            BY <3>2, <5>1, PlanTyped, Disjoint
        <4>2. PICK a \in Agents, v \in Environments :
                /\ log[v][1].name = Plan[i].name
                /\ refs = {a, v} \/ \E m \in Models : refs = {a, v, m}
          BY <1>9, <4>1, ReadiedForms
        <4>3. \A x \in refs \cap Environments : x = v
          BY <4>2, Disjoint
        <4> QED
          BY <1>9, <3>2, <4>2, <4>3 DEF Posted
      <3> QED
        BY <3>1, <3>2
    <2> QED
      BY <1>2, <1>6, <2>1, <2>2, <2>3 DEF Admitted, Posted
  <1> QED
    BY <1>3, <1>6, <1>7, <1>8, <1>10

\* The bound on setbacks holds after a step.
LEMMA FaultsRemain ==
  ASSUME TypeOK', SeedTypeOK, setbacks' \in Nat, faults' + setbacks' <= MaxSetbacks
  PROVE  setbacks' \in 0 .. MaxSetbacks
  <1>1. faults' \in Nat /\ MaxSetbacks \in Nat
    BY SeedAssumption, RegistryAssumption DEF TypeOK
  <1> QED
    BY <1>1, SumsBounded

\* Posting an item keeps the invariant.
LEMMA PostKeeps ==
  ASSUME FullInv, NEW r \in Runs, Posts(r), faults' + setbacks' <= MaxSetbacks
  PROVE  FullInv'
  <1>1. PICK i \in Steps : \E e \in Plan[i].kind, event \in Event : Posted(r, i, e, event)
    BY PostForms
  <1>2. PICK e \in Plan[i].kind, event \in Event : Posted(r, i, e, event)
    BY <1>1
  <1>3. /\ e \in Entities /\ TypeInv /\ TypeOK /\ CatalogInv /\ SeedInv /\ SeedTypeOK
        /\ Issued(e, event) /\ log[e] = <<>> /\ Next
    BY <1>2, PlanTyped DEF FullInv, CatalogInv, SeedInv, TypeInv, Posted
  <1>4. CatalogInv' /\ TypeOK'
    <2>1. CatalogInv'
      BY <1>3, StepKeepsInv
    <2> QED
      BY <2>1 DEF CatalogInv, TypeInv
  <1>5. /\ Kept /\ Admitted(e, event)
        /\ IsItem(e, i)' /\ \A k \in Steps : IsItem(e, k)' => k = i
        /\ \A x \in Entities : x # e => \A k : IsItem(x, k)' <=> IsItem(x, k)
    BY <1>2, PostAdmitted
  <1>6. RowsInv' /\ RefsInv' /\ Planned' /\ ItemsInv' /\ NeverAheadOfProjection'
    BY <1>3, <1>5, IssueKeepsSeed
  <1>7. /\ pc[r] = "post" /\ step[r] = i
        /\ pc' = [pc EXCEPT ![r] = IF e \in accepted' THEN "wait" ELSE "failed"]
        /\ e \in accepted' \/ faults' = faults + 1
        /\ seedKey' = IF e \in Deployments THEN [seedKey EXCEPT ![e] = i] ELSE seedKey
        /\ found' = [found EXCEPT ![r] = {}]
        /\ UNCHANGED <<step, overlapped, setbacks>>
    BY <1>2 DEF Posted
  <1>8. SeedTypeOK'
    <2>1. setbacks' \in 0 .. MaxSetbacks
      BY <1>3, <1>7 DEF SeedTypeOK
    <2>2. seedKey' \in [Deployments -> Steps \cup {0}]
      BY <1>3, <1>7 DEF SeedTypeOK
    <2>3. /\ pc' \in [Runs -> {"idle", "check", "known", "post", "wait", "done", "failed"}]
          /\ found' \in [Runs -> SUBSET Entities]
      BY <1>3, <1>7 DEF SeedTypeOK
    <2>4. \A s \in Runs : found'[s] # {} => pc'[s] = "post" /\ Plan[step'[s]].needs # {}
      BY <1>3, <1>7 DEF SeedTypeOK
    <2> QED
      BY <1>3, <1>4, <1>7, <2>1, <2>2, <2>3, <2>4 DEF SeedTypeOK
  <1>9. RunsInv'
    <2>1. RunInv(r)'
      <3>1. \A k \in 1 .. i - 1 : Seeded(k)
        BY <1>3, <1>7 DEF SeedInv, RunsInv, RunInv, Going
      <3>2. 1 .. i - 1 \subseteq Steps
        BY PlanTyped DEF Steps
      <3>3. \A k \in 1 .. i - 1 : Seeded(k)'
        BY <1>3, <1>5, <3>1, <3>2, SeededStays
      <3>4. pc'[r] \in {"wait", "failed"} /\ step'[r] = i
        BY <1>3, <1>7 DEF SeedTypeOK
      <3> QED
        BY <3>3, <3>4 DEF RunInv
    <2>2. ASSUME NEW s \in Runs, s # r
          PROVE  RunInv(s)'
      <3>1. pc'[s] = pc[s] /\ step'[s] = step[s] /\ found'[s] = found[s]
        BY <1>3, <1>7, <2>2 DEF SeedTypeOK
      <3> QED
        BY <1>3, <1>5, <3>1, BystanderKeeps DEF SeedInv, RunsInv
    <2> QED
      BY <2>1, <2>2 DEF RunsInv
  <1>10. QuietInv'
    <2> SUFFICES ASSUME Quiet'
                 PROVE  Alone' /\ Undisturbed' /\ Awaited' /\ Unposted'
      BY DEF QuietInv
    <2>1. Quiet /\ pc'[r] = "wait" /\ step' = step
      <3>1. faults \in Nat /\ setbacks \in Nat /\ faults' + setbacks = 0 /\ ~overlapped
        BY <1>3, <1>7 DEF Quiet, TypeOK, SeedTypeOK
      <3>2. faults' = faults \/ faults' = faults + 1
        BY <1>3 DEF Issued
      <3>3. faults' = faults /\ faults' # faults + 1
        BY <3>1, <3>2
      <3>4. e \in accepted'
        BY <1>7, <3>3
      <3> QED
        BY <1>3, <1>7, <3>1, <3>3, <3>4 DEF Quiet, SeedTypeOK
    <2>2. Alone /\ Undisturbed /\ Awaited /\ Unposted
      BY <1>3, <2>1 DEF SeedInv, QuietInv
    <2>3. \A s \in Runs : s # r => ~Going(s)
      BY <1>7, <2>2 DEF Alone, Going
    <2>4. \A s \in Runs : s # r => pc'[s] = pc[s]
      BY <1>3, <1>7 DEF SeedTypeOK
    <2>5. Alone'
      BY <2>3, <2>4 DEF Alone, Going
    <2>6. \A x \in Entities : ~IsItem(x, i)
      BY <1>7, <2>2 DEF Unposted
    <2>7. /\ \A x \in Entities : applied'[x] = applied[x]
          /\ rows' = rows /\ parked' = parked /\ read' = read
      <3>1. read' = read
        BY <1>3 DEF Issued, Posted, readVars
      <3> QED
        BY <1>3, <3>1, IssueKeepsApplied
    <2>8. Undisturbed'
      <3>1. \A x \in Entities : \A k \in DOMAIN log'[x] : log'[x][k].op = "created"
        BY <1>2, <1>3, <2>2, OldOrNew DEF Undisturbed, Posted
      <3>2. \A x \in Entities : 1 \in applied'[x] => Shown(x)'
        BY <2>2, <2>7 DEF Undisturbed, Shown
      <3>3. \A k \in Steps : \A x, y \in Entities : IsItem(x, k)' /\ IsItem(y, k)' => x = y
        BY <1>5, <2>2, <2>6 DEF Undisturbed
      <3>4. \A x \in Entities : read'[x] # 0 => 1 \in applied'[x]
        BY <2>2, <2>7 DEF Undisturbed
      <3> QED
        BY <2>2, <2>7, <3>1, <3>2, <3>3, <3>4 DEF Undisturbed
    <2>9. Awaited'
      <3> SUFFICES ASSUME NEW x \in Entities, NEW k \in Steps, IsItem(x, k)', read[x] = 0
                   PROVE  \E s \in Runs : pc'[s] = "wait" /\ step'[s] = k
        BY <2>7 DEF Awaited
      <3>1. CASE x = e
        BY <1>5, <1>7, <2>1, <3>1
      <3>2. CASE x # e
        <4>1. PICK s \in Runs : pc[s] = "wait"
          BY <1>5, <2>2, <3>2 DEF Awaited
        <4> QED
          BY <1>7, <2>3, <4>1 DEF Going
      <3> QED
        BY <3>1, <3>2
    <2>10. Unposted'
      BY <2>1, <2>3, <2>4 DEF Unposted, Going
    <2> QED
      BY <2>5, <2>8, <2>9, <2>10
  <1> QED
    BY <1>4, <1>6, <1>8, <1>9, <1>10 DEF FullInv, SeedInv

\* A user changes what is there: its id comes from an answer or from a row.
LEMMA ChangeForms ==
  ASSUME FullInv, UserChanges
  PROVE  /\ Next
         /\ \E e \in Entities, event \in Event :
              /\ Issued(e, event) /\ event.op # "created" /\ event.refs = {} /\ log[e] # <<>>
              /\ event.op = "updated" => e \in Deployments
  <1>1. PICK e \in Entities : Delete(e) \/ (Update(e) /\ e \in Deployments)
    BY EntityKinds DEF UserChanges, DeleteGraph, DeleteEnvironment, DeleteDeployment, UpdateDeployment
  <1>2. PICK event \in Event :
          /\ event.op # "created" /\ event.refs = {}
          /\ event.op = "updated" => e \in Deployments
          /\ Known(e) /\ Command(e, event, {})
    <2>1. CASE Delete(e)
      <3>1. [op |-> "deleted", name |-> NoName, refs |-> {}] \in Event
        BY DEF Event
      <3> QED
        BY <2>1, <3>1 DEF Delete
    <2>2. CASE Update(e) /\ e \in Deployments
      <3>1. [op |-> "updated", name |-> NoName, refs |-> {}] \in Event
        BY DEF Event
      <3> QED
        BY <2>2, <3>1 DEF Update
    <2> QED
      BY <1>1, <2>1, <2>2
  <1>4. Issued(e, event)
    BY <1>2 DEF Command, Issued, Fault
  <1>5. log[e] # <<>>
    <2>1. TypeInv /\ RefsInv
      BY DEF FullInv, CatalogInv, SeedInv
    <2>2. CASE e \in accepted
      BY <2>1, <2>2 DEF TypeInv, LogInv
    <2>3. CASE Seen(e)
      <3>1. PICK x \in Entities : 1 \in applied[x] /\ e \in Written(x, log[x][1])
        BY <2>3 DEF Seen
      <3>2. CASE e = x
        BY <2>1, <3>1, <3>2, AppliedIssued
      <3>3. CASE e \in log[x][1].refs
        <4>1. 1 \in DOMAIN log[x]
          BY <2>1, <3>1, AppliedIssued, LogTyped DEF TypeInv
        <4> QED
          BY <2>1, <3>3, <4>1, AppliedIssued DEF RefsInv
      <3> QED
        BY <3>1, <3>2, <3>3 DEF Written
    <2> QED
      BY <1>2, <2>2, <2>3 DEF Known
  <1>6. Next
    BY <1>2 DEF UserChanges, Next, Commands, Command
  <1> QED
    BY <1>2, <1>4, <1>5, <1>6

\* What is left to show when no run moves.
LEMMA RunsRest ==
  ASSUME FullInv, Kept, UNCHANGED <<pc, step, found>>
  PROVE  RunsInv'
  BY BystanderKeeps DEF RunsInv, FullInv, SeedInv, CatalogInv

\* A change keeps the invariant.
LEMMA UserChangeKeeps ==
  ASSUME FullInv, UserChanges, faults' + setbacks' <= MaxSetbacks
  PROVE  FullInv'
  <1>1. PICK e \in Entities, event \in Event :
          /\ Issued(e, event) /\ event.op # "created" /\ event.refs = {} /\ log[e] # <<>>
          /\ event.op = "updated" => e \in Deployments
    BY ChangeForms
  <1>2. /\ TypeInv /\ TypeOK /\ CatalogInv /\ SeedInv /\ SeedTypeOK /\ Next
        /\ setbacks' = setbacks + 1
        /\ UNCHANGED <<pc, step, found, overlapped, seedKey>>
    BY ChangeForms DEF FullInv, CatalogInv, SeedInv, TypeInv, UserChanges, Setback
  <1>3. CatalogInv' /\ TypeOK'
    <2>1. CatalogInv'
      BY <1>2, StepKeepsInv
    <2> QED
      BY <2>1 DEF CatalogInv, TypeInv
  <1>4. Kept
    BY <1>1, <1>2, IssueKept
  <1>5. RowsInv' /\ RefsInv' /\ Planned' /\ ItemsInv' /\ NeverAheadOfProjection'
    <2>1. Admitted(e, event)
      BY <1>1 DEF Admitted
    <2> QED
      BY <1>1, <1>2, <1>4, <2>1, IssueKeepsSeed
  <1>6. setbacks \in Nat /\ setbacks' \in Nat /\ setbacks' > 0 /\ faults' \in Nat
    BY <1>2, <1>3, SeedAssumption DEF SeedTypeOK, TypeOK
  <1>7. SeedTypeOK'
    <2>1. setbacks' \in 0 .. MaxSetbacks
      BY <1>2, <1>3, <1>6, FaultsRemain
    <2> QED
      BY <1>2, <1>3, <2>1 DEF SeedTypeOK
  <1>8. RunsInv'
    BY <1>2, <1>4, RunsRest
  <1>9. QuietInv'
    BY <1>6, SumsBounded DEF QuietInv, Quiet
  <1> QED
    BY <1>3, <1>5, <1>7, <1>8, <1>9 DEF FullInv, SeedInv

-----------------------------------------------------------------------------
(* The projection                                                          *)

\* The names a create leaves behind.
LEMMA CreateNames ==
  ASSUME TypeInv, NEW e \in Entities, NEW i \in DOMAIN log[e], Project(e, i), log[e][i].op = "created"
  PROVE  /\ log[e] # <<>>
         /\ \A x \in Written(e, log[e][1]) : x \notin Deployments => rows'[x].name = log[e][1].name
  <1>1. /\ i = 1 /\ log[e] # <<>> /\ log[e][1].refs \subseteq Entities
        /\ log[e][1].op = "created"
    BY CreateRows
  <1>2. rows' = Upserted(e, 1)
    BY <1>1 DEF Project
  <1>3. ASSUME NEW x \in Written(e, log[e][1]), x \notin Deployments
        PROVE  rows'[x].name = log[e][1].name
    <2>1. x \in Entities
      BY <1>1, <1>3 DEF Written
    <2>2. CASE x = e
      BY <1>2, <1>3, <2>1, <2>2 DEF Upserted
    <2>3. CASE x # e
      <3>1. rows'[x] = [name |-> log[e][1].name, rev |-> 0, refs |-> {}]
        BY <1>2, <1>3, <2>1, <2>3 DEF Upserted
      <3> QED
        BY <3>1
    <2> QED
      BY <2>2, <2>3
  <1> QED
    BY <1>1, <1>3

\* Rows that show still have been created under their names.
LEMMA ProjectKeepsRows ==
  ASSUME CatalogInv, RowsInv, RefsInv, Planned, NEW e \in Entities, NEW i \in DOMAIN log[e], Project(e, i)
  PROVE  RowsInv'
  <1>1. TypeInv /\ Solid
    BY DEF CatalogInv
  <1>2. /\ log' = log /\ parked' = parked
        /\ \A x \in Entities : applied[x] \subseteq applied'[x]
        /\ applied'[e] = applied[e] \cup {i}
    BY ProjectCommon
  <1>3. CASE log[e][i].op = "created"
    <2> DEFINE written == Written(e, log[e][1])
    <2>1. /\ log[e] # <<>> /\ i = 1
          /\ \A x \in Entities : Shown(x)' <=> Shown(x) \/ x \in written
          /\ \A x \in Entities \ written : rows'[x] = rows[x]
          /\ \A x \in written : x \notin Deployments => rows'[x].name = log[e][1].name
      BY <1>1, <1>3, CreateRows, CreateNames
    <2>2. 1 \in DOMAIN log[e]
      BY <1>1, <2>1, LogTyped DEF TypeInv
    <2>3. \A x \in written : x = e \/ (e \in Deployments /\ x \in log[e][1].refs \cap Environments)
      BY DEF Written
    <2>4. \A x \in written : x # e => 1 \in applied[x] /\ log[x][1].name = log[e][1].name
      BY <2>2, <2>3 DEF RefsInv
    <2>5. 1 \in applied'[e]
      BY <1>2, <2>1
    <2>6. ASSUME NEW x \in Entities \ Deployments, Shown(x)'
          PROVE  1 \in applied'[x] /\ rows'[x].name = log[x][1].name
      <3>1. CASE x \notin written
        BY <1>2, <2>1, <2>6, <3>1 DEF RowsInv
      <3>2. CASE x \in written
        BY <1>2, <2>1, <2>4, <2>5, <2>6, <3>2
      <3> QED
        BY <3>1, <3>2
    <2> QED
      BY <1>2, <2>6 DEF RowsInv
  <1>4. CASE log[e][i].op = "deleted"
    <2>1. \A x \in Entities : Shown(x)' => Shown(x) /\ rows'[x].name = rows[x].name
      BY <1>1, <1>4, DeleteRows
    <2> QED
      BY <1>2, <2>1 DEF RowsInv
  <1>5. CASE log[e][i].op = "updated"
    <2>1. /\ e \in Deployments
          /\ \A x \in Entities \ Deployments : (Shown(x)' <=> Shown(x)) /\ rows'[x] = rows[x]
      BY <1>1, <1>5, UpdateRows DEF Planned
    <2> QED
      BY <1>2, <2>1 DEF RowsInv
  <1>6. log[e][i].op \in {"created", "updated", "deleted"}
    <2>1. log[e][i] \in Event
      BY <1>1, ProjectApplies
    <2> QED
      BY <2>1 DEF Event
  <1> QED
    BY <1>3, <1>4, <1>5, <1>6

\* An event that is projected keeps the rest.
LEMMA ProjectKeepsSeed ==
  ASSUME FullInv, CatalogInv', NEW e \in Entities, NEW i \in DOMAIN log[e], Project(e, i), UNCHANGED seedVars
  PROVE  FullInv'
  <1>1. /\ TypeInv /\ CatalogInv /\ SeedInv /\ SeedTypeOK /\ TypeOK' /\ TypeOK
        /\ RowsInv /\ RefsInv /\ Planned /\ ItemsInv /\ NeverAheadOfProjection
    BY DEF FullInv, CatalogInv, SeedInv, TypeInv
  <1>2. /\ log' = log /\ parked' = parked
        /\ \A x \in Entities : applied[x] \subseteq applied'[x]
        /\ \A x \in Entities : x # e => applied'[x] = applied[x] /\ (Ended(x)' <=> Ended(x))
        /\ Ended(e) => Ended(e)'
    BY <1>1, ProjectCommon
  <1>3. /\ UNCHANGED <<pc, step, found, overlapped, seedKey, setbacks>>
        /\ faults' = faults /\ read' = [read EXCEPT ![e] = Reach(e, i)]
        /\ applied' = [applied EXCEPT ![e] = @ \cup {i}] /\ i \in Due(e)
    BY DEF seedVars, Project
  <1>4. \A x, k : IsItem(x, k)' <=> IsItem(x, k)
    BY <1>2, <1>3 DEF IsItem
  <1>5. Kept
    BY <1>2, <1>3 DEF Kept
  <1>6. SeedTypeOK'
    BY <1>1, <1>3 DEF SeedTypeOK
  <1>7. RowsInv'
    BY <1>1, ProjectKeepsRows
  <1>8. RefsInv'
    <2>1. \A x \in Entities : \A k \in DOMAIN log[x] : log[x][k].refs \subseteq Entities
      <3> TAKE x \in Entities
      <3> TAKE k \in DOMAIN log[x]
      <3>1. log[x][k] \in Event
        BY <1>1, LogTyped
      <3> QED
        BY <3>1 DEF Event
    <2> QED
      BY <1>1, <1>2, <2>1 DEF RefsInv
  <1>9. Planned' /\ ItemsInv'
    BY <1>1, <1>2, <1>4 DEF Planned, ItemsInv
  <1>10. NeverAheadOfProjection'
    BY <1>1, <1>2, <1>5, RefusedStays DEF NeverAheadOfProjection
  <1>11. RunsInv'
    BY <1>3, <1>5, RunsRest
  <1>12. QuietInv'
    <2> SUFFICES ASSUME Quiet
                 PROVE  Alone' /\ Undisturbed' /\ Awaited' /\ Unposted'
      BY <1>3 DEF QuietInv, Quiet
    <2>1. Alone /\ Undisturbed /\ Awaited /\ Unposted
      BY <1>1 DEF SeedInv, QuietInv
    <2>2. Alone'
      BY <1>3, <2>1 DEF Alone, Going
    <2>3. Undisturbed'
      <3>1. log[e][i] \in Event
        BY <1>1, ProjectApplies
      <3>2. log[e][i].op = "created"
        BY <1>1, <2>1, <3>1 DEF Undisturbed, Planned, Event
      <3>3. i = 1 /\ \A x \in Entities : Shown(x)' <=> Shown(x) \/ x \in Written(e, log[e][1])
        BY <1>1, <3>2, CreateRows
      <3>4. \A x \in Entities : 1 \in applied'[x] => Shown(x)'
        BY <1>2, <2>1, <3>3 DEF Undisturbed, Written
      <3>5. \A x \in Entities : read'[x] # 0 => 1 \in applied'[x]
        <4> TAKE x \in Entities
        <4>1. CASE x = e
          BY <1>1, <1>3, <3>3, <4>1 DEF TypeOK
        <4>2. CASE x # e
          BY <1>1, <1>3, <2>1, <4>2 DEF TypeOK, Undisturbed
        <4> QED
          BY <4>1, <4>2
      <3> QED
        BY <1>2, <1>4, <2>1, <3>4, <3>5 DEF Undisturbed
    <2>4. Awaited'
      <3>1. \A x \in Entities : read'[x] = 0 => read[x] = 0
        <4>1. read[e] \in Nat /\ Reach(e, i) \in Nat /\ read[e] <= Reach(e, i)
          BY <1>1, <1>3, DueTyped, LogTyped
        <4> QED
          BY <1>1, <1>3, <4>1 DEF TypeOK
      <3> QED
        BY <1>3, <1>4, <2>1, <3>1 DEF Awaited
    <2>5. Unposted'
      BY <1>2, <1>3, <2>1 DEF Unposted, IsItem
    <2> QED
      BY <2>2, <2>3, <2>4, <2>5
  <1> QED
    BY <1>1, <1>6, <1>7, <1>8, <1>9, <1>10, <1>11, <1>12 DEF FullInv, SeedInv

\* Where nothing is disturbed, no event violates a constraint.
LEMMA NothingRefused ==
  ASSUME FullInv, Quiet, NEW e \in Entities, NEW i \in DOMAIN log[e]
  PROVE  Violations(e, i) = {}
  <1>1. /\ TypeInv /\ CatalogInv /\ SeedInv /\ TypeOK /\ RowsInv /\ RefsInv /\ Planned
        /\ Undisturbed
    BY DEF FullInv, CatalogInv, SeedInv, TypeInv, QuietInv
  <1>2. log[e][i] \in Event
    BY <1>1, LogTyped
  <1>3. log[e][i].op # "deleted"
    BY <1>1 DEF Undisturbed
  <1>4. ~RefMissing(e, log[e][i])
    <2>1. ASSUME NEW x \in log[e][i].refs
          PROVE  Shown(x)
      <3>1. x \in Entities /\ 1 \in applied[x]
        BY <1>1, <1>2, <2>1 DEF RefsInv, Event
      <3> QED
        BY <1>1, <3>1 DEF Undisturbed
    <2> QED
      BY <2>1 DEF RefMissing
  <1>5. log[e][i].op = "created" => ~NameTaken(e, log[e][i])
    <2> SUFFICES ASSUME log[e][i].op = "created",
                        NEW K \in Kinds \ {Deployments}, NEW w \in K, w \in Written(e, log[e][i]),
                        NEW o \in K, o # w, Shown(o), rows[o].name = log[e][i].name
                 PROVE  FALSE
      BY DEF NameTaken
    <2>1. o \in Entities \ Deployments /\ w \in Entities \ Deployments
      BY KindsApart DEF Entities, Kinds
    <2>2. log[o][1].name = log[e][i].name /\ log[o] # <<>>
      BY <1>1, <2>1, AppliedIssued DEF RowsInv
    <2>3. log[w][1].name = log[e][i].name /\ log[w] # <<>>
      <3>1. CASE w = e
        <4>1. i \in 1 .. Len(log[e]) /\ Len(log[e]) \in Nat
          BY <1>1, LogTyped
        <4>2. i = 1 /\ log[e] # <<>>
          BY <1>1, <4>1, LogTyped DEF TypeInv, LogInv
        <4> QED
          BY <3>1, <4>2
      <3>2. CASE w # e
        <4>1. w \in log[e][i].refs /\ w \in Environments
          BY <3>2 DEF Written
        <4> QED
          BY <1>1, <2>1, <4>1, AppliedIssued DEF RefsInv
      <3> QED
        BY <3>1, <3>2
    <2>4. PICK k \in Steps : IsItem(w, k)
      BY <1>1, <2>1, <2>3 DEF Planned
    <2>5. IsItem(o, k)
      <3>1. Plan[k].kind = K /\ Plan[k].name = log[w][1].name
        BY <2>1, <2>4, PlanTyped DEF IsItem
      <3> QED
        BY <2>1, <2>2, <2>3, <3>1 DEF IsItem
    <2> QED
      BY <1>1, <2>1, <2>4, <2>5 DEF Undisturbed
  <1> QED
    BY <1>3, <1>4, <1>5 DEF Violations

\* An event that is parked keeps it too: a reference is missing only when somebody
\* deleted it.
LEMMA ParkKeepsSeed ==
  ASSUME FullInv, CatalogInv', NEW e \in Entities, NEW i \in DOMAIN log[e],
         NEW reason \in Reasons, Park(e, i, reason),
         \/ reason \in Violations(e, i) /\ faults' = faults
         \/ reason = "transient" /\ faults' = faults + 1,
         UNCHANGED seedVars
  PROVE  FullInv'
  <1>1. /\ TypeInv /\ CatalogInv /\ SeedInv /\ SeedTypeOK /\ TypeOK' /\ TypeOK
        /\ RowsInv /\ RefsInv /\ Planned /\ ItemsInv /\ NeverAheadOfProjection
    BY DEF FullInv, CatalogInv, SeedInv, TypeInv
  <1>2. /\ log' = log /\ rows' = rows /\ applied' = applied
        /\ parked' = parked \cup {<<e, i, reason>>}
        /\ \A x \in Entities : Ended(x)' <=> Ended(x)
    BY DEF Park, commandVars, Ended
  <1>3. UNCHANGED <<pc, step, found, overlapped, seedKey, setbacks>>
    BY DEF seedVars
  <1>4. \A x, k : IsItem(x, k)' <=> IsItem(x, k)
    BY <1>2, <1>3 DEF IsItem
  <1>5. Kept
    BY <1>2, <1>3 DEF Kept
  <1>6. SeedTypeOK'
    BY <1>1, <1>3 DEF SeedTypeOK
  <1>7. RowsInv'
    BY <1>1, <1>2 DEF RowsInv, Shown
  <1>8. \A x \in Entities : \A k \in DOMAIN log[x] : log[x][k].refs \subseteq Entities
    <2> TAKE x \in Entities
    <2> TAKE k \in DOMAIN log[x]
    <2>1. log[x][k] \in Event
      BY <1>1, LogTyped
    <2> QED
      BY <2>1 DEF Event
  <1>9. RefsInv'
    BY <1>1, <1>2, <1>8 DEF RefsInv
  <1>10. Planned' /\ ItemsInv'
    BY <1>1, <1>2, <1>4 DEF Planned, ItemsInv
  <1>11. NeverAheadOfProjection'
    <2>1. ASSUME NEW p \in parked
          PROVE  p[3] = "reference" =>
                   \E x \in log'[p[1]][p[2]].refs : 1 \in applied'[x] /\ Ended(x)'
      BY <1>1, <1>2, <1>5, <2>1, RefusedStays DEF NeverAheadOfProjection
    <2>2. ASSUME reason = "reference"
          PROVE  \E x \in log[e][i].refs : 1 \in applied'[x] /\ Ended(x)'
      <3>1. PICK x \in log[e][i].refs \ Written(e, log[e][i]) : ~Shown(x)
        BY <2>2 DEF Violations, RefMissing
      <3>2. x \in Entities /\ 1 \in applied[x]
        BY <1>1, <1>8, <3>1 DEF RefsInv
      <3>3. x \notin Environments
        BY <1>1, <3>1 DEF RefsInv, Written
      <3>4. Ended(x)
        BY <1>1, <3>1, <3>2, <3>3 DEF CatalogInv, RowFollowsPartition
      <3> QED
        BY <1>2, <3>1, <3>2, <3>4
    <2> QED
      BY <1>2, <2>1, <2>2 DEF NeverAheadOfProjection
  <1>12. RunsInv'
    BY <1>3, <1>5, RunsRest
  <1>13. QuietInv'
    <2> SUFFICES ASSUME Quiet'
                 PROVE  FALSE
      BY DEF QuietInv
    <2>1. faults \in Nat /\ setbacks \in Nat
      BY <1>1, SeedAssumption DEF TypeOK, SeedTypeOK
    <2>2. faults' = faults
      <3>1. faults + 1 \in Nat /\ faults + 1 > 0
        BY <2>1
      <3>2. faults' # faults + 1
        BY <1>3, <2>1, <3>1, SumsBounded DEF Quiet
      <3> QED
        BY <3>2
    <2>3. Quiet /\ reason \in Violations(e, i)
      BY <1>3, <2>1, <2>2 DEF Quiet
    <2> QED
      BY <2>3, NothingRefused
  <1> QED
    BY <1>1, <1>6, <1>7, <1>9, <1>10, <1>11, <1>12, <1>13 DEF FullInv, SeedInv

-----------------------------------------------------------------------------
(* The invariant holds                                                     *)

\* Nothing is posted, and no run is going.
LEMMA InitFullInv == SeedInit => FullInv
  <1> SUFFICES ASSUME SeedInit
               PROVE  FullInv
    OBVIOUS
  <1>1. CatalogInv /\ TypeOK
    <2>1. CatalogInv
      BY InitCatalogInv DEF SeedInit
    <2> QED
      BY <2>1 DEF CatalogInv, TypeInv
  <1>2. \A e \in Entities : ~Shown(e) /\ log[e] = <<>> /\ applied[e] = {} /\ ~Ended(e)
    BY DEF SeedInit, Init, Shown, Ended
  <1>3. \A r \in Runs : pc[r] = "idle" /\ step[r] = 1 /\ found[r] = {}
    BY DEF SeedInit
  <1>4. SeedTypeOK
    <2>1. 1 \in Steps
      BY SeedAssumption DEF Steps
    <2>2. MaxSetbacks \in Nat
      BY SeedAssumption
    <2>3. setbacks \in 0 .. MaxSetbacks
      <3>1. setbacks = 0
        BY DEF SeedInit
      <3> QED
        BY <2>2, <3>1
    <2>4. overlapped \in BOOLEAN
      BY DEF SeedInit
    <2>5. /\ pc \in [Runs -> {"idle", "check", "known", "post", "wait", "done", "failed"}]
          /\ step \in [Runs -> Steps]
      BY <2>1 DEF SeedInit
    <2>6. found \in [Runs -> SUBSET Entities] /\ \A r \in Runs : found[r] = {}
      BY DEF SeedInit
    <2>7. seedKey \in [Deployments -> Steps \cup {0}]
      BY DEF SeedInit
    <2> QED
      BY <1>1, <2>3, <2>4, <2>5, <2>6, <2>7 DEF SeedTypeOK
  <1>5. RowsInv
    BY <1>2 DEF RowsInv, Entities
  <1>6. RefsInv /\ Planned
    BY <1>2 DEF RefsInv, Planned
  <1>7. \A e, i : e \in Entities => ~IsItem(e, i)
    BY <1>2 DEF IsItem
  <1>8. ItemsInv
    BY <1>7 DEF ItemsInv
  <1>9. RunsInv
    BY <1>3 DEF RunsInv, RunInv, Going
  <1>10. NeverAheadOfProjection
    BY DEF NeverAheadOfProjection, SeedInit, Init
  <1>11. QuietInv
    BY <1>2, <1>3, <1>7 DEF QuietInv, Alone, Undisturbed, Awaited, Unposted, Going, SeedInit, Init
  <1> QED
    BY <1>1, <1>4, <1>5, <1>6, <1>8, <1>9, <1>10, <1>11 DEF FullInv, SeedInv

\* What the runs, the users and the projection do are steps of the registry or none.
LEMMA SeedStepIsCatalogStep ==
  ASSUME FullInv, [SeedNext]_allVars
  PROVE  [Next]_vars
  <1>1. CASE UNCHANGED allVars
    BY <1>1 DEF allVars
  <1>2. ASSUME NEW r \in Runs, RunStep(r)
        PROVE  UNCHANGED vars
    BY <1>2 DEF RunStep, Begin, MissesNeed, SkipsExisting, FindsAgent, SkipsAgent, FindsNothing,
                ReadsNeed, SeesRow, TimesOut, BreaksOff
  <1>3. ASSUME NEW r \in Runs, Posts(r)
        PROVE  Next
    BY <1>3, PostForms DEF Posted
  <1>4. UserChanges => Next
    BY ChangeForms
  <1>5. Projects \/ LosesToFault => Next
    BY DEF Projects, LosesToFault, Next
  <1> QED
    BY <1>1, <1>2, <1>3, <1>4, <1>5 DEF SeedNext, Proceeds, RunStep

\* Every step keeps the invariant.
LEMMA SeedStepKeepsInv ==
  ASSUME FullInv, [SeedNext]_allVars
  PROVE  FullInv'
  <1>1. CatalogInv /\ CatalogInv' /\ SeedInv /\ TypeOK /\ TypeOK'
    <2>1. CatalogInv /\ CatalogInv'
      BY SeedStepIsCatalogStep, StepKeepsInv DEF FullInv
    <2> QED
      BY <2>1 DEF FullInv, CatalogInv, TypeInv
  <1>2. CASE UNCHANGED allVars
    <2>1. /\ UNCHANGED <<vars, seedKey>>
          /\ UNCHANGED <<pc, step, found, overlapped, setbacks>>
      BY <1>2 DEF allVars, seedVars
    <2>2. /\ RowsInv' /\ RefsInv' /\ Planned' /\ ItemsInv' /\ NeverAheadOfProjection'
          /\ Kept /\ (Undisturbed => Undisturbed')
          /\ \A e, i : IsItem(e, i)' <=> IsItem(e, i)
          /\ faults' = faults /\ read' = read
      BY <1>1, <2>1, StillHolds
    <2>3. SeedTypeOK'
      BY <1>1, <2>1 DEF SeedInv, SeedTypeOK
    <2>4. RunsInv'
      BY <2>1, <2>2, RunsRest
    <2>5. QuietInv'
      <3>1. Quiet' <=> Quiet
        BY <2>1, <2>2 DEF Quiet
      <3>2. Alone => Alone'
        BY <2>1 DEF Alone, Going
      <3>3. Awaited => Awaited'
        BY <2>1, <2>2 DEF Awaited
      <3>4. Unposted => Unposted'
        <4>1. log' = log
          BY <2>1 DEF vars, commandVars
        <4> QED
          BY <2>1, <4>1 DEF Unposted, IsItem
      <3> QED
        BY <1>1, <2>2, <3>1, <3>2, <3>3, <3>4 DEF SeedInv, QuietInv
    <2> QED
      BY <1>1, <2>2, <2>3, <2>4, <2>5 DEF FullInv, SeedInv
  <1>3. CASE SeedNext
    <2>1. faults' + setbacks' <= MaxSetbacks
      BY <1>3 DEF SeedNext
    <2>2. ASSUME NEW r \in Runs, RunStep(r) \/ Posts(r)
          PROVE  FullInv'
      BY <2>1, <2>2, RunStepKeeps, PostKeeps
    <2>3. CASE UserChanges
      BY <2>1, <2>3, UserChangeKeeps
    <2>4. CASE Projects
      <3>1. PICK e \in Entities : \E i \in DOMAIN log[e] : Project(e, i) \/ ParkRefused(e, i)
        BY <2>4 DEF Projects, Consume
      <3>2. UNCHANGED seedVars
        BY <2>4 DEF Projects
      <3>3. ASSUME NEW i \in DOMAIN log[e], ParkRefused(e, i)
            PROVE  FullInv'
        <4>1. PICK reason \in Violations(e, i) : Park(e, i, reason)
          BY <3>3 DEF ParkRefused
        <4>2. reason \in Reasons /\ faults' = faults
          BY <3>3 DEF ParkRefused, Violations
        <4> QED
          BY <1>1, <3>2, <4>1, <4>2, ParkKeepsSeed
      <3> QED
        BY <1>1, <3>1, <3>2, <3>3, ProjectKeepsSeed
    <2>5. CASE LosesToFault
      <3>1. PICK e \in Entities : \E i \in DOMAIN log[e] :
              Park(e, i, "transient") /\ faults' = faults + 1
        BY <2>5 DEF LosesToFault, ParkTransient, Fault
      <3>2. UNCHANGED seedVars /\ "transient" \in Reasons
        BY <2>5 DEF LosesToFault, Reasons
      <3> QED
        BY <1>1, <3>1, <3>2, ParkKeepsSeed
    <2> QED
      BY <1>3, <2>2, <2>3, <2>4, <2>5 DEF SeedNext, Proceeds, RunStep
  <1> QED
    BY <1>2, <1>3

\* The strengthened invariant holds in every reachable state.
THEOREM SeedInvariant == SeedSpec => []FullInv
  BY InitFullInv, SeedStepKeepsInv, PTL DEF SeedSpec

\* Every variable of the script keeps its type; what a run has read it holds only
\* until it has posted (seed_demo_data.py:497-601).
THEOREM SeedTypeCorrect == SeedSpec => []SeedTypeOK
  <1>1. FullInv => SeedTypeOK
    BY DEF FullInv, SeedInv
  <1> QED
    BY <1>1, SeedInvariant, PTL

\* The runs of the script are clients the registry admits: every id one of them puts
\* into a command is one it has read, and every command has the form the API takes.
\* With CatalogInvariant, all that is proved of the registry holds beside them.
THEOREM SeedImplementsCatalog == SeedSpec => ImplementsCatalog
  <1>1. SeedInit => Init
    BY DEF SeedInit
  <1>2. FullInv /\ [SeedNext]_allVars => [Next]_vars
    BY SeedStepIsCatalogStep
  <1> QED
    BY <1>1, <1>2, SeedInvariant, PTL DEF SeedSpec, ImplementsCatalog, Spec

\* When a run says it is done, every item of the plan has been projected, whoever
\* posted it and however the runs overlapped, and refers to the items it needs
\* (seed_demo_data.py:300-332, 542-601).
THEOREM DoneSeeded == SeedSpec => []DoneMeansSeeded
  <1>1. FullInv => DoneMeansSeeded
    BY DEF FullInv, SeedInv, RunsInv, RunInv, Seeded, DoneMeansSeeded
  <1> QED
    BY <1>1, SeedInvariant, PTL

\* No item is refused because the projection is behind: what it refers to was there
\* and somebody deleted it (seed_demo_data.py:391, 506-507, 550-551).
THEOREM NeverAhead == SeedSpec => []NeverAheadOfProjection
  <1>1. FullInv => NeverAheadOfProjection
    BY DEF FullInv, SeedInv
  <1> QED
    BY <1>1, SeedInvariant, PTL

\* Runs that do not overlap and are not disturbed post every item once, however many
\* of them there are and wherever the read model is (README.md:143).
THEOREM QuietRunsOnce == SeedSpec => []QuietRunsPostOnce
  <1>1. FullInv => QuietRunsPostOnce
    <2> SUFFICES ASSUME FullInv, Quiet, NEW i \in Steps
                 PROVE  Cardinality({e \in Plan[i].kind : IsItem(e, i)}) <= 1
      BY DEF QuietRunsPostOnce, Quiet
    <2> DEFINE items == {e \in Plan[i].kind : IsItem(e, i)}
    <2>1. \A x, y \in items : x = y
      <3>1. Undisturbed
        BY DEF FullInv, SeedInv, QuietInv
      <3> QED
        BY <3>1, PlanTyped DEF Undisturbed
    <2>2. CASE items = {}
      <3>1. Cardinality(items) = 0
        BY <2>2, FS_EmptySet
      <3> QED
        BY <3>1
    <2>3. ASSUME NEW x \in items
          PROVE  Cardinality(items) <= 1
      <3>1. items = {x}
        BY <2>1
      <3>2. Cardinality(items) = 1
        BY <3>1, FS_Singleton
      <3> QED
        BY <3>2
    <2> QED
      BY <2>2, <2>3
  <1> QED
    BY <1>1, SeedInvariant, PTL

=============================================================================
