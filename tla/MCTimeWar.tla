----------------------------- MODULE MCTimeWar -----------------------------
(* TLC's instances of TimeWar. *)
EXTENDS TimeWar, FiniteSetsExt, TLC

(* The sums of the indices of the doctors that add to each coordinate.      *)
Expected(doctors, cs, at) ==
  [c \in cs |-> SumSet({d \in doctors : at[d] = c})]

(* The code's own figures are those sums: first_doctor to fourth_doctor add *)
(* to coordinate 0, fifth to eighth to 1, war and ninth to 2, the others    *)
(* to 3.                                                                    *)
CodeCoordinateOf ==
  [d \in 0 .. 12 |-> IF d < 8 THEN d \div 4 ELSE IF d < 10 THEN 2 ELSE 3]

ASSUME CodeFigures ==
  Expected(0 .. 12, 0 .. 3, CodeCoordinateOf) = (0 :> 6 @@ 1 :> 22 @@ 2 :> 17 @@ 3 :> 33)

(* Four doctors, two to a coordinate. *)
MCCoordinateOf == [d \in 0 .. 3 |-> d \div 2]
MCCorrect == Expected(0 .. 3, {0, 1}, MCCoordinateOf)
=============================================================================
