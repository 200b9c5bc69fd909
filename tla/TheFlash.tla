------------------------------ MODULE TheFlash ------------------------------
(***************************************************************************)
(* Assignment 1, theflash.c: permute() tries every order of the cities; a  *)
(* child process computes each route's length and hands it to the parent   *)
(* through file.txt, which no one removes.                                 *)
(*                                                                         *)
(* A route is the order of the cities between the start and the end, which *)
(* are both city 0.  The open calls of permute are their loop variables.   *)
(***************************************************************************)
EXTENDS Integers, Sequences, FiniteSetsExt

CONSTANTS Right,          (* the last position permuted, 5 in the code      *)
          distances,      (* the distance between any two of 0 .. Right     *)
          OldRoutes,      (* the routes an earlier run may have left in the *)
                          (* file                                           *)
          NoFile, NoResult, (* a file that is absent, or empty              *)
          MaxDeaths       (* bound on the forks and children that fail      *)

VARIABLES
  cities,                 (* the candidate's order, permuted in place       *)
  loops,                  (* the loop variable of each open call            *)
  stage,                  (* call, child, read, return, printed or crashed  *)
  file,                   (* file.txt: absent, empty, or a result           *)
  best,
  deaths,
  tried,                  (* history: the routes given to fork              *)
  forks,                  (* history: how often fork was called             *)
  written                 (* history: the routes whose child wrote          *)

history    == <<tried, forks, written>>
flash_vars == <<cities, loops, stage, file, best, deaths, history>>

Positions == 1 .. Right

AllRoutes == {r \in [Positions -> Positions] : \A p, q \in Positions : r[p] = r[q] => p = q}

(* The length of a route that starts and ends in city 0. *)
Distance(r) ==
  MapThenSumSet(LAMBDA p : distances[IF p = 0 THEN 0 ELSE r[p],
                                  IF p = Right THEN 0 ELSE r[p + 1]],
                0 .. Right)

Result(r) == [total_dist |-> Distance(r), cities |-> r]

(* A file that an earlier run has left holds what a child has written.      *)
ASSUME RouteAssumption ==
  /\ Right \in Nat \ {0} /\ OldRoutes \subseteq AllRoutes
  /\ \A r \in AllRoutes : Result(r) \notin {NoFile, NoResult}

(* The length of the best route while there is none. *)
NoDistance == 999999

(* Every route is shorter. *)
ASSUME DistanceAssumption ==
  \A r \in AllRoutes : Distance(r) \in Nat /\ Distance(r) < NoDistance

FlashInit ==
  /\ cities = [p \in Positions |-> p]
  /\ loops = <<>>
  /\ stage = "call"
  /\ file \in {NoFile, NoResult} \cup {Result(r) : r \in OldRoutes}
  /\ best = [total_dist |-> NoDistance, cities |-> [p \in Positions |-> 0]]
  /\ deaths = 0
  /\ tried = {} /\ forks = 0 /\ written = {}

(* The argument left of the call that is about to begin. *)
left == Len(loops) + 1

Swapped(r, p, q) == [r EXCEPT ![p] = r[q], ![q] = r[p]]

Dies == deaths < MaxDeaths /\ deaths' = deaths + 1

(* Begin the loop of a call; its first swap is of a city with itself. *)
Descend ==
  /\ stage = "call" /\ left < Right
  /\ loops' = Append(loops, left)
  /\ UNCHANGED <<cities, stage, file, best, deaths, history>>

(* fork for a route that is complete. *)
ForkFor ==
  /\ stage = "call" /\ left = Right
  /\ tried' = tried \cup {cities} /\ forks' = forks + 1

Fork ==
  /\ ForkFor
  /\ stage' = "child"
  /\ UNCHANGED <<cities, loops, file, best, deaths, written>>

(* The route is passed over. *)
ForkFails ==
  /\ ForkFor
  /\ Dies
  /\ stage' = "return"
  /\ UNCHANGED <<cities, loops, file, best, written>>

ChildWrites ==
  /\ stage = "child" /\ stage' = "read"
  /\ file' = Result(cities)
  /\ written' = written \cup {cities}
  /\ UNCHANGED <<cities, loops, best, deaths, tried, forks>>

(* The child ends before it opens the file, or cannot, or after it has      *)
(* truncated it; wait returns all the same.                                 *)
ChildDies ==
  /\ stage = "child" /\ stage' = "read"
  /\ Dies
  /\ file' \in {file, NoResult}
  /\ UNCHANGED <<cities, loops, best, history>>

(* Faulty: only the length is copied into best. *)
ReadResult_LengthOnly ==
  /\ stage = "read" /\ file \notin {NoFile, NoResult}
  /\ stage' = "return"
  /\ best' = [best EXCEPT !.total_dist = IF file.total_dist < @
                                         THEN file.total_dist ELSE @]
  /\ UNCHANGED <<cities, loops, file, deaths, history>>

(* Compare what the file holds with the best so far. *)
ReadResult ==
  /\ stage = "read" /\ file \notin {NoFile, NoResult}
  /\ stage' = "return"
  /\ best' = IF file.total_dist < best.total_dist THEN file ELSE best
  /\ UNCHANGED <<cities, loops, file, deaths, history>>

(* fscanf finds nothing, or fopen has returned NULL and fscanf crashes. *)
ReadFails ==
  /\ stage = "read" /\ file \in {NoFile, NoResult}
  /\ stage' = IF file = NoFile THEN "crashed" ELSE "return"
  /\ UNCHANGED <<cities, loops, file, best, deaths, history>>

(* Faulty: the cities are not swapped back. *)
Loop_NoRestore ==
  /\ stage = "return" /\ loops # <<>>
  /\ LET l == Len(loops)
     IN  IF loops[l] < Right
         THEN /\ loops' = [loops EXCEPT ![l] = @ + 1]
              /\ cities' = Swapped(cities, l, loops[l] + 1)
              /\ stage' = "call"
         ELSE /\ loops' = SubSeq(loops, 1, l - 1)
              /\ UNCHANGED <<cities, stage>>
  /\ UNCHANGED <<file, best, deaths, history>>

(* Back in the loop of a call: swap the cities back, and swap the next pair *)
(* or return in turn.                                                       *)
Loop ==
  /\ stage = "return" /\ loops # <<>>
  /\ LET l == Len(loops)
         restored == Swapped(cities, l, loops[l])
     IN  IF loops[l] < Right
         THEN /\ loops' = [loops EXCEPT ![l] = @ + 1]
              /\ cities' = Swapped(restored, l, loops[l] + 1)
              /\ stage' = "call"
         ELSE /\ loops' = SubSeq(loops, 1, l - 1)
              /\ cities' = restored
              /\ UNCHANGED stage
  /\ UNCHANGED <<file, best, deaths, history>>

PrintBest ==
  /\ stage = "return" /\ loops = <<>>
  /\ stage' = "printed"
  /\ UNCHANGED <<cities, loops, file, best, deaths, history>>

FlashNext ==
  \/ Descend
  \/ Fork \/ ForkFails \/ ChildWrites \/ ChildDies
  \/ ReadResult \/ ReadFails
  \/ Loop \/ PrintBest

FlashSpec == FlashInit /\ [][FlashNext]_flash_vars

-----------------------------------------------------------------------------
(* Every order of the cities is given to fork exactly once, and the array   *)
(* is back in its first order when the program ends: the swaps of all open  *)
(* calls undo each other, whatever fails in between.                        *)
TriesEveryRouteOnce ==
  /\ cities \in AllRoutes
  /\ forks = Cardinality(tried)
  /\ stage = "printed" => tried = AllRoutes /\ cities = [p \in Positions |-> p]

(* The parent reads the file whether or not the child has written it.  That *)
(* never spoils the result: best is a route with its own length, or nothing *)
(* yet, and no route that a child has written and the parent has looked at  *)
(* is shorter.  When all children have done their work, the route printed   *)
(* is a shortest one.                                                       *)
StaleResultIsHarmless ==
  /\ best.cities \in AllRoutes => best.total_dist = Distance(best.cities)
  /\ best.cities \notin AllRoutes => best.total_dist = NoDistance
  /\ stage # "read" => \A r \in written : best.total_dist <= Distance(r)
  /\ stage = "printed" /\ deaths = 0 =>
       /\ best.cities \in AllRoutes
       /\ \A r \in AllRoutes : best.total_dist <= Distance(r)

(* The program ends, by printing or by a crash. *)
FlashEnds == <>(stage \in {"printed", "crashed"})
=============================================================================
