------------------------------ MODULE MCPaster ------------------------------
(* TLC's instances of Paster. *)
EXTENDS Paster, TLC
=============================================================================
