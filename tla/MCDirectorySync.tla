-------------------------- MODULE MCDirectorySync --------------------------
(***************************************************************************)
(* The directory for TLC: two departments, two people, two assignments.    *)
(* To keep it small only the first department and person change names, and *)
(* no row gets its first name back.                                        *)
(***************************************************************************)
EXTENDS DirectorySync

CONSTANTS d1, d2, p1, p2, a1, a2, x, y

MCFirstAssignments == [p \in {p1} |-> a1]

FewNames ==
    /\ \A e \in {d1, p1} : rows[e] # NoRow /\ rows[e].name = y => rows'[e].name = y
    /\ \A e \in {d2, p2} : rows'[e] # NoRow => rows'[e].name = x
=============================================================================
