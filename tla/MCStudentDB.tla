----------------------------- MODULE MCStudentDB -----------------------------
(* Values for the constants of StudentDB. *)
EXTENDS StudentDB, TLC

CONSTANTS p1, p2, p3, p4

ThreeRuns == {p1, p2, p3}
FourRuns == {p1, p2, p3, p4}
AnyOrder == Permutations(Procs)

TableOps == AllOps \ {"compress"}
ShrinkOps == {"add", "del", "compress"}
FindOps == {"add", "find", "compress"}

NoFaults == {}
AllFaults == {"open", "read", "write", "rename"}
ReadsWork == AllFaults \ {"read"}
===============================================================================
