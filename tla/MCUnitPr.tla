------------------------------ MODULE MCUnitPr ------------------------------
(***************************************************************************)
(* A small instance of UnitPr: a unit that changes one of two              *)
(* repositories, or both, or none. The repositories are alike, so it does  *)
(* not matter which one.                                                   *)
(***************************************************************************)
EXTENDS UnitPr

CONSTANTS r1, r2

SomeChanged == {{}, {r1}, {r1, r2}}

=============================================================================
