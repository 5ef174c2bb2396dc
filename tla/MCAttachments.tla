---------------------------- MODULE MCAttachments -----------------------------
(* Constant values of the runs that check Attachments. *)
EXTENDS Attachments, TLC

CONSTANTS report, photo, none, brief

FileSymmetry == Permutations({report, photo})
=============================================================================
