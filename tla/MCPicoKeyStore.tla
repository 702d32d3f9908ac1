--------------------------- MODULE MCPicoKeyStore ---------------------------
(* PicoKeyStore on two session keys; see the .cfg files for the bounds.    *)
EXTENDS PicoKeyStore, TLC

KeySymmetry == Permutations(Key)
=============================================================================
