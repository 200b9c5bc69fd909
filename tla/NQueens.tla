------------------------------ MODULE NQueens ------------------------------
(***************************************************************************)
(* Assignment 3, nqueens.c: main starts one thread for each column of the  *)
(* first queen; a thread searches the boards that begin with its queen,    *)
(* row by row and column by column, and counts each full board in count,   *)
(* under a semaphore.                                                      *)
(*                                                                         *)
(* A thread's recursion is its board: config holds the column of the queen *)
(* in each row, and the loop variable of an outer call is the column that  *)
(* call has placed.  Rows are counted from 1 here, columns from 0 as in    *)
(* the code.                                                               *)
(***************************************************************************)
EXTENDS Integers, Sequences, FiniteSets

CONSTANT BoardSizes       (* the arguments considered                       *)

(* A column is a char, and an array of no elements is undefined. *)
ASSUME BoardAssumption == BoardSizes \subseteq 1 .. 127

VARIABLES
  n,                      (* the size of the board                          *)
  main,                   (* creating, joining, printed or crashed          *)
  created, joined,        (* how many threads main has created, and joined  *)
  config,                 (* the board of each thread                       *)
  next,                   (* its loop variable j                            *)
  pc,                     (* where each thread is                           *)
  sem,
  copy,                   (* the count each thread has read                 *)
  count

search == <<config, next>>
total  == <<sem, copy, count>>
made   == <<n, created, joined>>
vars   == <<made, main, search, pc, total>>

Columns == 0 .. n - 1

Threads == Columns        (* a thread is the column of its first queen      *)

(* Where nqueens() goes first: a full board is counted. *)
Entered(c) == IF Len(c) = n THEN "wait" ELSE "loop"

Init ==
  /\ n \in BoardSizes
  /\ main = "creating"
  /\ created = 0 /\ joined = 0
  /\ config = [t \in Threads |-> <<t>>]
  /\ next = [t \in Threads |-> 0]
  /\ pc = [t \in Threads |-> "unborn"]
  /\ sem = 1
  /\ copy = [t \in Threads |-> 0]
  /\ count = 0

Goto(t, from, to) == pc[t] = from /\ pc' = [pc EXCEPT ![t] = to]

At(S) == {t \in Threads : pc[t] \in S}

-----------------------------------------------------------------------------
(* nqueens()                                                                *)

(* Queens in rows r < s, columns c and d, are on a common diagonal. *)
Diagonal(r, c, s, d) == s - r = d - c \/ s - r = c - d

(* Faulty: queens in the same column are let through. *)
safe_SameColumn(c, j) ==
  \A r \in DOMAIN c : ~Diagonal(r, c[r], Len(c) + 1, j)

(* A queen in column j of the next row is not attacked. *)
safe(c, j) ==
  \A r \in DOMAIN c : j # c[r] /\ ~Diagonal(r, c[r], Len(c) + 1, j)

(* Place the queen of the next row in the next safe column. *)
Place(t) ==
  \E j \in Columns :
    /\ j >= next[t] /\ safe(config[t], j)
    /\ \A i \in next[t] .. j - 1 : ~safe(config[t], i)
    /\ config' = [config EXCEPT ![t] = Append(@, j)]
    /\ Goto(t, "loop", Entered(config'[t]))
    /\ next' = [next EXCEPT ![t] = 0]
    /\ UNCHANGED <<made, main, total>>

(* Faulty: the semaphore is not waited for. *)
LockCount_NoWait(t) ==
  /\ Goto(t, "wait", "add")
  /\ sem' = IF sem > 0 THEN sem - 1 ELSE 0
  /\ copy' = [copy EXCEPT ![t] = count]
  /\ UNCHANGED <<made, main, search, count>>

(* The board is full: sem_wait, and count is read. *)
LockCount(t) ==
  /\ Goto(t, "wait", "add")
  /\ sem > 0
  /\ sem' = sem - 1
  /\ copy' = [copy EXCEPT ![t] = count]
  /\ UNCHANGED <<made, main, search, count>>

(* count is written, sem_post, and then the search of the full board goes   *)
(* on: there is no return in the code.                                      *)
AddSolution(t) ==
  /\ Goto(t, "add", "loop")
  /\ count' = copy[t] + 1
  /\ sem' = sem + 1
  /\ UNCHANGED <<made, main, search, copy>>

(* Faulty: the caller tries the column of the call that returns again. *)
Return_SameColumn(t) ==
  /\ \A j \in Columns : j >= next[t] => ~safe(config[t], j)
  /\ IF Len(config[t]) = 1
     THEN Goto(t, "loop", "done") /\ UNCHANGED search
     ELSE /\ Goto(t, "loop", "loop")
          /\ next' = [next EXCEPT ![t] = config[t][Len(config[t])]]
          /\ config' = [config EXCEPT ![t] = SubSeq(@, 1, Len(@) - 1)]
  /\ UNCHANGED <<made, main, total>>

(* No column is left: return to the caller's next column, or end. *)
Return(t) ==
  /\ \A j \in Columns : j >= next[t] => ~safe(config[t], j)
  /\ IF Len(config[t]) = 1
     THEN Goto(t, "loop", "done") /\ UNCHANGED search
     ELSE /\ Goto(t, "loop", "loop")
          /\ next' = [next EXCEPT ![t] = config[t][Len(config[t])] + 1]
          /\ config' = [config EXCEPT ![t] = SubSeq(@, 1, Len(@) - 1)]
  /\ UNCHANGED <<made, main, total>>

ThreadStep(t) == Place(t) \/ LockCount(t) \/ AddSolution(t) \/ Return(t)

-----------------------------------------------------------------------------
(* main()                                                                   *)

(* Start the thread of the next column, or fail to: the result of           *)
(* pthread_create is ignored.                                               *)
Start(to) ==
  /\ main = "creating"
  /\ Goto(created, "unborn", to)
  /\ created' = created + 1
  /\ main' = IF created' = n THEN "joining" ELSE "creating"
  /\ UNCHANGED <<n, joined, search, total>>

Create == Start(Entered(config[created]))

CreateFails == Start("missing")

Join ==
  /\ main = "joining" /\ joined < n
  /\ pc[joined] = "done"
  /\ joined' = joined + 1
  /\ UNCHANGED <<n, created, main, search, pc, total>>

(* The id of a thread that was not created is uninitialised memory: the     *)
(* join returns or crashes.                                                 *)
JoinMissing ==
  /\ main = "joining" /\ joined < n
  /\ pc[joined] = "missing"
  /\ \/ joined' = joined + 1 /\ UNCHANGED main
     \/ main' = "crashed" /\ UNCHANGED joined
  /\ UNCHANGED <<n, created, search, pc, total>>

PrintSolutions ==
  /\ main = "joining" /\ joined = n
  /\ main' = "printed"
  /\ UNCHANGED <<made, search, pc, total>>

MainStep == Create \/ CreateFails \/ Join \/ JoinMissing \/ PrintSolutions

(* When main ends, its threads end with it. *)
Next ==
  /\ main \in {"creating", "joining"}
  /\ MainStep \/ \E t \in Threads : ThreadStep(t)

Spec == Init /\ [][Next]_vars

(* Every thread is scheduled; each waits for the semaphore finitely often.  *)
Fairness ==
  /\ WF_vars(main \in {"creating", "joining"} /\ MainStep)
  /\ \A t \in UNION {0 .. m - 1 : m \in BoardSizes} :
       WF_vars(t \in Threads /\ main \in {"creating", "joining"} /\ ThreadStep(t))

-----------------------------------------------------------------------------
ThreadPC == {"unborn", "missing", "loop", "wait", "add", "done"}

TypeOK ==
  /\ n \in BoardSizes
  /\ main \in {"creating", "joining", "printed", "crashed"}
  /\ created \in 0 .. n /\ joined \in 0 .. n
  /\ config \in [Threads -> Seq(Columns)]
  /\ next \in [Threads -> 0 .. n]
  /\ pc \in [Threads -> ThreadPC]
  /\ sem \in {0, 1}
  /\ copy \in [Threads -> Nat] /\ count \in Nat

(* No queen of a board attacks another. *)
Peaceful(c) ==
  \A r, s \in DOMAIN c :
    r < s => c[r] # c[s] /\ ~Diagonal(r, c[r], s, c[s])

(* The search goes on after a full board has been counted, with one row     *)
(* more than the board has: no queen is ever placed there.                  *)
DepthBounded == \A t \in Threads : Len(config[t]) <= n

(* A thread takes the semaphore only to count a board with a peaceful queen *)
(* in every row, the first of them its own.                                 *)
OnlySolutionsCounted ==
  \A t \in At({"wait", "add"}) :
    Len(config[t]) = n /\ Peaceful(config[t]) /\ config[t][1] = t

(* The solutions of each size, defined without search. *)
Solutions ==
  [m \in BoardSizes |-> {q \in [1 .. m -> 0 .. m - 1] : Peaceful(q)}]

(* The search of thread t has left the full board q behind. *)
Passed(t, q) ==
  LET c == config[t]
  IN  \/ pc[t] = "done" /\ q[1] = t
      \/ \E r \in 1 .. Len(c) :
           /\ q[r] < c[r]
           /\ \A s \in 1 .. r - 1 : q[s] = c[s]
      \/ /\ \A r \in 1 .. Len(c) : q[r] = c[r]
         /\ IF Len(c) = n THEN pc[t] = "loop" ELSE q[Len(c) + 1] < next[t]

(* Whatever the threads do at once, count is the number of solutions that   *)
(* their searches have left behind: no solution is skipped, counted twice,  *)
(* or lost to another thread's increment.  When every thread could be       *)
(* created, main therefore prints the number of all solutions.  (count is   *)
(* an int and does not wrap here: it holds the solutions of 18 queens.)     *)
CountsEachSolutionOnce ==
  /\ count = Cardinality({q \in Solutions[n] :
                            pc[q[1]] \notin {"unborn", "missing"} /\ Passed(q[1], q)})
  /\ main = "printed" /\ At({"missing"}) = {} => count = Cardinality(Solutions[n])

(* The program ends: no thread waits for the semaphore for ever, and no     *)
(* search goes round in a circle.                                           *)
QueensEnd == <>(main \in {"printed", "crashed"})
=============================================================================
