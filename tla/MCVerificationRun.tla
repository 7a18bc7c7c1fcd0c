-------------------------- MODULE MCVerificationRun -------------------------
(* The first checklet inspects patches and notes, the second patches only;  *)
(* no checklet inspects a binary.                                           *)
EXTENDS VerificationRun

MCArtifactTypes == {"coding_patch", "note", "binary"}
MCAppliesTo     == << {"coding_patch", "note"}, {"coding_patch"} >>

MCCheckletSays ==
  {[verdict |-> "clean",   severity |-> "info"],
   [verdict |-> "finding", severity |-> "low"],
   [verdict |-> "finding", severity |-> "medium"],
   [verdict |-> "finding", severity |-> "critical"],
   [verdict |-> "abstain", severity |-> "info"]}

=============================================================================
