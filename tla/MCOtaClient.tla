---------------------------- MODULE MCOtaClient ----------------------------
(* OtaClient, and its refinement of OtaStorage, with files of two pages: a  *)
(* full one and one left half empty.                                        *)
EXTENDS OtaClientStorage, TLC
CONSTANTS v1, v2
VersionSymmetry == Permutations(Versions)
=============================================================================
