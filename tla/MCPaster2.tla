----------------------------- MODULE MCPaster2 -----------------------------
(* TLC's instances of Paster2. *)
EXTENDS Paster2

MCNoSeq == -1                       (* a .cfg cannot say -1                 *)
=============================================================================
