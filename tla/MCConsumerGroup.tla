-------------------------- MODULE MCConsumerGroup --------------------------
(* ConsumerGroup on small instances: constant values TLC can take from a   *)
(* .cfg by name.                                                           *)
EXTENDS ConsumerGroup

NoRecords == {}
FirstRecord == {0}
ThirdRecord == {2}

=============================================================================
