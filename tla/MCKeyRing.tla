------------------------------ MODULE MCKeyRing ------------------------------
(* A small buffer and two keys for TLC. *)
EXTENDS KeyRingSpec

CONSTANTS k1, k2
MCKey == {k1, k2}
=============================================================================
