------------------------------- MODULE MCAawgd -------------------------------
(***************************************************************************)
(* Aawgd with two paired phones.                                           *)
(***************************************************************************)
EXTENDS Aawgd, TLC

CONSTANTS phone1, phone2

\* The phones differ in nothing: used by the runs without liveness.
PhoneSymmetry == Permutations(Devices)
=============================================================================
