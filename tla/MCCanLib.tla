------------------------------ MODULE MCCanLib ------------------------------
(* Small instances of the CAN library for TLC: a bus that carries two        *)
(* identifiers, and a user who reads in both ways.                           *)
EXTENDS CanLibHistory, TLC

CONSTANTS p1, p2, p3, i1, i2

ThreeCells == {p1, p2, p3}
CellSymmetry == Permutations(Cells)
Both == {i1, i2}
ReadBothOrAny == {i1, i2, ANY}
=============================================================================
