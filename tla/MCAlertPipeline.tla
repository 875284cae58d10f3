-------------------------- MODULE MCAlertPipeline --------------------------
(* Instances of AlertPipeline for TLC. *)
EXTENDS AlertPipeline, TLC

AlertSymmetry == Permutations(Workers) \cup Permutations(Signals)

=============================================================================
