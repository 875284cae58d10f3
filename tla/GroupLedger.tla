---------------------------- MODULE GroupLedger ----------------------------
(***************************************************************************)
(* What one consumer group promises about one topic partition, with no     *)
(* members, no attempts and no faults: every record of the log is settled, *)
(* that is applied to the database, at most once, or parked in the dead-   *)
(* letter topic.  Settling is in offset order: a record is settled only    *)
(* behind all those before it, and the group's bookmark (the committed     *)
(* Kafka offset) never stands beyond a record that is not.  Applying is not*)
(* in order: a parked record has no marker, and whoever comes upon it again*)
(* may apply it after later records have been.  The one licence the        *)
(* ledger grants is Skip: a group that has no bookmark adopts the current  *)
(* end of the log (auto_offset_reset = "latest").                          *)
(*                                                                         *)
(* ConsumerGroup is the detailed specification shown to implement this.    *)
(***************************************************************************)
EXTENDS Integers

CONSTANT MaxEvents      \* bound on the length of the log

VARIABLES
  logEnd,               \* number of records published to the partition
  bookmark,             \* committed offset of the group, or NoBookmark
  floor,                \* end of the log adopted by the last Skip
  applied,              \* offsets whose effects are in the database
  parked                \* offsets with an envelope in the dead-letter topic

ledgerVars == <<logEnd, bookmark, floor, applied, parked>>

LedgerOffsets == 0 .. MaxEvents - 1
NoBookmark == -1

Settled == applied \cup parked

\* Every record from the floor up to (not including) x is applied or parked.
SettledBelow(x) == \A o \in LedgerOffsets : floor <= o /\ o < x => o \in Settled

LedgerInit ==
  /\ logEnd \in 0 .. MaxEvents
  /\ bookmark = NoBookmark
  /\ floor = NoBookmark
  /\ applied = {}
  /\ parked = {}

Append ==
  /\ logEnd < MaxEvents
  /\ logEnd' = logEnd + 1
  /\ UNCHANGED <<bookmark, floor, applied, parked>>

\* o may be parked, and records behind it may be applied.
Apply(o) ==
  /\ o < logEnd
  /\ o \notin applied
  /\ SettledBelow(o)
  /\ applied' = applied \cup {o}
  /\ UNCHANGED <<logEnd, bookmark, floor, parked>>

Park(o) ==
  /\ o < logEnd
  /\ SettledBelow(o)
  /\ parked' = parked \cup {o}
  /\ UNCHANGED <<logEnd, bookmark, floor, applied>>

\* The bookmark may move in either direction, but never over an unsettled record.
MoveBookmark(x) ==
  /\ x <= logEnd
  /\ SettledBelow(x)
  /\ bookmark' = x
  /\ UNCHANGED <<logEnd, floor, applied, parked>>

Skip ==
  /\ bookmark = NoBookmark
  /\ floor' = logEnd
  /\ UNCHANGED <<logEnd, bookmark, applied, parked>>

LedgerNext ==
  \/ Append
  \/ \E o \in LedgerOffsets : Apply(o) \/ Park(o)
  \/ \E x \in 1 .. MaxEvents : MoveBookmark(x)
  \/ Skip

LedgerSpec == LedgerInit /\ [][LedgerNext]_ledgerVars

=============================================================================
