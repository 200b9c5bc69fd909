---------------------------- MODULE MCHogwarts ----------------------------
(* TLC's instances of Hogwarts. *)
EXTENDS Hogwarts, TLC

(* The elves are alike; the order in which Dobby creates and cancels them   *)
(* is left open.                                                            *)
Symmetry == Permutations(Elves)
=============================================================================
