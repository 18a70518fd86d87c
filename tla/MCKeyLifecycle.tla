--------------------------- MODULE MCKeyLifecycle ---------------------------
(* The life cycle with the bounds of the cfg. *)
EXTENDS KeyLifecycle
=============================================================================
