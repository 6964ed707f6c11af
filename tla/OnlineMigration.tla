--------------------------- MODULE OnlineMigration ---------------------------
(***************************************************************************)
(* What the migrations job promises its users, whatever the number of      *)
(* servers, jobs and restarts: the batches of a migration are applied in   *)
(* order (a batch may be applied again), and the migration is recorded as  *)
(* complete in the Systems table once, after its last batch.               *)
(***************************************************************************)
EXTENDS Naturals

CONSTANT NBatches

VARIABLES migrated,   \* the batches whose rows have been rewritten
          completed   \* the Systems row that records the migration

vars == <<migrated, completed>>

Init == migrated = {} /\ completed = FALSE

\* A batch only starts from the position reached by the batches before it.
Apply(k) ==
  /\ 1..(k-1) \subseteq migrated
  /\ migrated' = migrated \union {k}
  /\ UNCHANGED completed

Record ==
  /\ migrated = 1..NBatches
  /\ ~completed
  /\ completed' = TRUE
  /\ UNCHANGED migrated

Next == Record \/ \E k \in 1..NBatches : Apply(k)

Spec == Init /\ [][Next]_vars
=============================================================================
