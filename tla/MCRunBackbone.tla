----------------------------- MODULE MCRunBackbone -----------------------------
(* Constant values of the runs that check RunBackbone. *)
EXTENDS RunBackbone, TLC

CONSTANTS w1, w2, site, file

TwoWorkers == {w1, w2}
OneWorker == {w1}
OneSite == {site}
OneFile == {file}
NoFiles == {}
LostEnqueue == {"enqueue"}
CrashFaults == {"crash"}

WorkerSymmetry == Permutations(TwoWorkers)
=============================================================================
