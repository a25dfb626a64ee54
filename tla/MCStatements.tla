---------------------------- MODULE MCStatements ----------------------------
(***************************************************************************)
(* Instances of Statements.  The transactions that post lines are not told *)
(* apart: what orders the lines is their dates and ids.                    *)
(***************************************************************************)
EXTENDS Statements, TLC

\* From a negative size, of which two lines are taken, to one above the cap.
PageSizes == {-3, 0, 1, 2, 3}

Symmetry == Permutations(Posters)
=============================================================================
