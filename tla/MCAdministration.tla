---------------------------- MODULE MCAdministration ----------------------------
(* Constant values of the runs that check Administration. *)
EXTENDS Administration, TLC

CONSTANTS amal, badr, project, run, null, s1, s2

NewAccount == [role |-> "user", status |-> "active", plan |-> "free", limit |-> null]

\* One of the two is an administrator.
OneAdmin == [u \in Users |-> IF u = amal THEN [NewAccount EXCEPT !.role = "admin"] ELSE NewAccount]

\* Both are.
TwoAdmins == [u \in Users |-> [NewAccount EXCEPT !.role = "admin"]]

\* Every role and status of both, and one request of each other kind.
Everything ==
    UNION {Request("role", Users, {"user", "admin"}), Request("status", Users, Statuses),
           Request("plan", {badr}, {"free", "pro"}), Request("limit", {badr}, {null}),
           Request("project", {project}, {"archived"}), Request("run", {run}, {"cancelled"})}

Demotions == Request("role", Users, {"user"})

SlotSymmetry == Permutations({s1, s2})
=============================================================================
