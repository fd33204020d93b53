---------------------------- MODULE MCMatrixRun ----------------------------
(***************************************************************************)
(* MatrixRun for TLC: up to four lasting defects together without passing  *)
(* faults, and up to two passing faults with at most one defect.           *)
(***************************************************************************)
EXTENDS MatrixRun, FiniteSetsExt

UpToFour == UNION {kSubset(k, AllDefects) : k \in 0..4}
AllFaults == {"error", "wrong", "reject", "lose", "expire"}

(* Passing faults meet at most one lasting defect.                         *)
FewAtOnce == Cardinality(bugs) > 1 => faults = 0
SparseSpec == Init /\ [][Next /\ FewAtOnce']_vars
=============================================================================
