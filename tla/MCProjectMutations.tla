-------------------------- MODULE MCProjectMutations --------------------------
(* Constant values of the runs that check ProjectMutations. *)
EXTENDS ProjectMutations, TLC

CONSTANTS create, recreate, rename, archive, append, start, restart, s1, s2, text, edited

AllOps == [k \in {create, recreate, rename, archive, append, start, restart} |->
              CASE k \in {create, recreate} -> "create" [] k = rename -> "rename" [] k = archive -> "archive"
                [] k = append -> "append" [] OTHER -> "start"]

SlotSymmetry == Permutations({s1, s2})
=============================================================================
