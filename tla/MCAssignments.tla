--------------------------- MODULE MCAssignments ---------------------------
(***************************************************************************)
(* TLC's instances of Assignments 1 to 3.  The three programs share no     *)
(* state; a behaviour is one run of one of them, the others never start.   *)
(***************************************************************************)
EXTENDS NQueens, TheFlash, RogueOne, TLC

VARIABLE assignment       (* the one that runs                              *)

every_var == <<assignment, vars, flash_vars, rogue_vars>>

(* The rows of the code's table for the start and its first four cities.    *)
MCDistances ==
  LET d == << <<0,   793, 802, 254, 616>>,
              <<793, 0,   197, 313, 802>>,
              <<802, 197, 0,   496, 227>>,
              <<254, 313, 496, 0,   121>>,
              <<616, 802, 227, 121, 0  >> >>
  IN  [a, b \in 0 .. 4 |-> d[a + 1][b + 1]]

(* What an earlier run may have left: a shortest route, and the last route  *)
(* that permute tries.                                                      *)
MCOldRoutes == {<<3, 4, 2, 1>>, <<4, 1, 2, 3>>}

(* A program that does not run has one initial state. *)
SuiteInit ==
  /\ Init /\ FlashInit /\ RogueInit
  /\ assignment \in 1 .. 3
  /\ assignment # 1 => file = NoFile
  /\ assignment # 2 => plans = <<>>
  /\ assignment # 3 => n = 1

RunFlash  == assignment = 1 /\ FlashNext /\ UNCHANGED <<vars, rogue_vars>>
RunRogue  == assignment = 2 /\ RogueNext /\ UNCHANGED <<vars, flash_vars>>
RunQueens == assignment = 3 /\ Next /\ UNCHANGED <<flash_vars, rogue_vars>>

SuiteNext == (RunFlash \/ RunRogue \/ RunQueens) /\ UNCHANGED assignment

(* Each program is scheduled, and each thread of NQueens. *)
SuiteSpec ==
  /\ SuiteInit /\ [][SuiteNext]_every_var
  /\ WF_every_var(RunFlash /\ UNCHANGED assignment)
  /\ WF_every_var(RunRogue /\ UNCHANGED assignment)
  /\ assignment = 3 => Fairness

(* Each program ends: sendall's loop and the searches of the threads make   *)
(* progress, nobody waits for ever, and nothing that fails makes permute    *)
(* start over.                                                              *)
EachRunEnds ==
  /\ assignment = 1 => FlashEnds
  /\ assignment = 2 => RogueEnds
  /\ assignment = 3 => QueensEnd
=============================================================================
