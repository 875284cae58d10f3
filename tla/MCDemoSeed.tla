----------------------------- MODULE MCDemoSeed -----------------------------
(* DemoSeed with one demo item of every kind but the models, which a       *)
(* deployment needs as it needs its environment.                           *)
EXTENDS DemoSeed

CONSTANT DemoName

DemoPlan ==
  << [kind |-> Graphs, name |-> DemoName, needs |-> {}],
     [kind |-> Environments, name |-> DemoName, needs |-> {}],
     [kind |-> Agents, name |-> DemoName, needs |-> {1}],
     [kind |-> Deployments, name |-> DemoName, needs |-> {2, 3}] >>

=============================================================================
