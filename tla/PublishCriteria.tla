-------------------------- MODULE PublishCriteria --------------------------
(***************************************************************************)
(* Which of the ready batches an inscription operation takes               *)
(* (publish_criterion.rs and extract_ready_subrange of aggregator.rs).     *)
(* batches is the set of numbers of the list the query returned, expired   *)
(* the set of batches whose deadline has passed.                           *)
(***************************************************************************)
EXTENDS Integers, FiniteSetsExt

None == -1

\* validate_l1_batch_sequence panics when this is false.
Sequential(batches) ==
    batches = {} \/ batches = Min(batches) .. Max(batches)

\* ViaNumberCriterion: as soon as limit batches are there, the first limit ones.
ViaNumberCriterion(batches, limit) ==
    IF batches # {} /\ Max(batches) - Min(batches) + 1 >= limit
      THEN Min(batches) + limit - 1
      ELSE None

\* TimestampDeadlineCriterion: the longest prefix of expired batches.
TimestampDeadlineCriterion(batches, expired) ==
    LET prefix == {b \in batches : \A c \in batches : c <= b => c \in expired}
    IN IF prefix = {} THEN None ELSE Max(prefix)

\* One criterion without an answer stops the operation.
BugLastL1Batch(batches, limit, expired) ==
    LET answers == {ViaNumberCriterion(batches, limit),
                    TimestampDeadlineCriterion(batches, expired)}
    IN IF None \in answers THEN None ELSE Min(answers)

\* The least of the answers that are not None.
LastL1Batch(batches, limit, expired) ==
    LET answers == {ViaNumberCriterion(batches, limit),
                    TimestampDeadlineCriterion(batches, expired)} \ {None}
    IN IF answers = {} THEN None ELSE Min(answers)

\* extract_ready_subrange; the empty set is None.
ExtractReadySubrange(batches, limit, expired) ==
    {b \in batches : b <= LastL1Batch(batches, limit, expired)}

=============================================================================
