-------------------------- MODULE MCDatasetCommands -------------------------
(* dev, cal and hold lie in three partitions; twin repeats the patch of     *)
(* dev, stray belongs to hold's lineage but to another partition, bad is    *)
(* blocked by validation and raw has no evaluation-grade label.             *)
EXTENDS DatasetCommands, TLC

CONSTANTS dev, cal, hold, twin, stray, bad, raw

MCRecords == {dev, cal, hold, twin, stray, bad, raw}

MCPartitionOf ==
  [r \in MCRecords |-> CASE r \in {dev, twin, stray, bad} -> "development"
                         [] r = cal -> "calibration_reserved"
                         [] r \in {hold, raw} -> "holdout"]
MCLineagesOf == [r \in MCRecords |-> IF r = stray THEN {hold} ELSE {r}]
MCKeysOf     == [r \in MCRecords |-> IF r = twin THEN {dev} ELSE {r}]
MCBlocked    == {bad}
MCGraded     == MCRecords \ {raw}
MCBatches    == {{r} : r \in MCRecords} \cup {{dev, hold}}

(* A smaller world for two processes.                                       *)
MCFewRecords     == {dev, hold, twin}
MCFewPartitionOf == [r \in MCFewRecords |-> MCPartitionOf[r]]
MCFewLineagesOf  == [r \in MCFewRecords |-> MCLineagesOf[r]]
MCFewKeysOf      == [r \in MCFewRecords |-> MCKeysOf[r]]
MCFewGraded      == MCFewRecords
MCFewBatches     == {{dev}, {hold}, {twin}}
MCSymmetry       == Permutations(Processes)
=============================================================================
