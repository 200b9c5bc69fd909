------------------------- MODULE AssignmentsProofs -------------------------
(***************************************************************************)
(* Proofs about the three assignments that are one program each: nqueens   *)
(* for every board size a char column allows, theflash for every number of *)
(* cities and every way the children fail, and rogue-one for every size of *)
(* the files and every way send() divides them.                            *)
(*                                                                         *)
(* nqueens.  Every board of a search is peaceful and begins with its       *)
(* thread's queen, and the semaphore is taken exactly while a thread       *)
(* counts.  That a peaceful board has at most n rows is the pigeonhole     *)
(* principle.  A column that is skipped is attacked, so that no solution   *)
(* goes through it: the solutions behind a search are the ones it counted. *)
(*                                                                         *)
(* theflash.  The vector of the routes is at every moment the first route  *)
(* with the swaps of the pending calls done to it; the routes tried are    *)
(* those that agree with it up to a call and have, there, a city that the  *)
(* call's loop has passed.                                                 *)
(*                                                                         *)
(* rogue-one.  What is on the wire is a prefix of the answer.              *)
(***************************************************************************)
EXTENDS NQueens, TheFlash, RogueOne, FiniteSetTheorems, SequenceTheorems, TLAPS

-----------------------------------------------------------------------------
(* Assignment 3.                                                            *)

(* One thread counts at a time, and the semaphore tells whether one does. *)
OneCounter ==
  /\ sem = 0 <=> At({"add"}) # {}
  /\ \A t, u \in At({"add"}) : t = u

(* What every call of nqueens() finds in its board. *)
Boards ==
  \A t \in Threads :
    /\ Len(config[t]) >= 1 /\ config[t][1] = t
    /\ Peaceful(config[t])
    /\ pc[t] \in {"wait", "add"} => Len(config[t]) = n

(* main leaves the first loop after the last thread. *)
Creating == main = "creating" => created < n

Inv == TypeOK /\ OneCounter /\ Boards /\ Creating

-----------------------------------------------------------------------------
(* A peaceful board has no more rows than columns. *)
LEMMA AtMostOnePerColumn ==
  ASSUME NEW m \in Nat, NEW c \in Seq(0 .. m - 1), Peaceful(c)
  PROVE  Len(c) <= m
<1>1. /\ IsFiniteSet(1 .. Len(c)) /\ Cardinality(1 .. Len(c)) = Len(c)
      /\ IsFiniteSet(0 .. m - 1) /\ Cardinality(0 .. m - 1) = m
  <2>1. Len(c) \in Int /\ Len(c) >= 0 /\ m - 1 \in Int
    OBVIOUS
  <2>2. IsFiniteSet(1 .. Len(c)) /\ Cardinality(1 .. Len(c)) = Len(c)
    <3>1. /\ IsFiniteSet(1 .. Len(c))
          /\ Cardinality(1 .. Len(c)) = IF 1 > Len(c) THEN 0 ELSE Len(c) - 1 + 1
      BY <2>1, FS_Interval
    <3>2. QED BY <2>1, <3>1
  <2>3. IsFiniteSet(0 .. m - 1) /\ Cardinality(0 .. m - 1) = m
    <3>1. /\ IsFiniteSet(0 .. m - 1)
          /\ Cardinality(0 .. m - 1) = IF 0 > m - 1 THEN 0 ELSE (m - 1) - 0 + 1
      BY <2>1, FS_Interval
    <3>2. QED BY <2>1, <3>1
  <2>4. QED BY <2>2, <2>3
<1>2. c \in [1 .. Len(c) -> 0 .. m - 1]
  OBVIOUS
<1>3. ASSUME NEW r \in 1 .. Len(c), NEW s \in 1 .. Len(c), r # s
      PROVE  c[r] # c[s]
  BY <1>3 DEF Peaceful
<1>4. ~(m < Len(c))
  <2>1. SUFFICES ASSUME m < Len(c) PROVE FALSE
    OBVIOUS
  <2>2. \E r, s \in 1 .. Len(c) : r # s /\ c[r] = c[s]
    BY <1>1, <1>2, <2>1, FS_PigeonHole
  <2>3. QED BY <1>3, <2>2
<1>5. Len(c) \in Nat
  OBVIOUS
<1>6. QED BY <1>4, <1>5

(* A queen that safe() lets through keeps the board peaceful. *)
LEMMA SafeKeepsPeace ==
  ASSUME NEW m \in Nat, NEW c \in Seq(0 .. m - 1), NEW j \in 0 .. m - 1,
         Peaceful(c), safe(c, j)
  PROVE  Peaceful(Append(c, j))
<1> DEFINE d == Append(c, j)
<1>1. DOMAIN d = 1 .. Len(c) + 1 /\ d[Len(c) + 1] = j
      /\ \A r \in 1 .. Len(c) : d[r] = c[r]
  OBVIOUS
<1>2. ASSUME NEW r \in DOMAIN d, NEW s \in DOMAIN d, r < s
      PROVE  d[r] # d[s] /\ ~Diagonal(r, d[r], s, d[s])
  <2>1. CASE s = Len(c) + 1
    BY <1>1, <1>2, <2>1 DEF safe
  <2>2. CASE s # Len(c) + 1
    BY <1>1, <1>2, <2>2 DEF Peaceful
  <2>3. QED BY <2>1, <2>2
<1>3. QED BY <1>2 DEF Peaceful

LEMMA LastIsAColumn ==
  ASSUME NEW S, NEW c \in Seq(S), Len(c) > 1
  PROVE  c[Len(c)] \in S
<1>1. Len(c) \in Nat /\ c \in [1 .. Len(c) -> S]
  OBVIOUS
<1>2. Len(c) \in 1 .. Len(c)
  BY <1>1
<1>3. QED BY <1>1, <1>2

(* Taking the last queen away keeps the board peaceful. *)
LEMMA PrefixKeepsPeace ==
  ASSUME NEW m \in Nat, NEW c \in Seq(0 .. m - 1), Len(c) > 1, Peaceful(c)
  PROVE  /\ SubSeq(c, 1, Len(c) - 1) \in Seq(0 .. m - 1)
         /\ Len(SubSeq(c, 1, Len(c) - 1)) = Len(c) - 1
         /\ SubSeq(c, 1, Len(c) - 1)[1] = c[1]
         /\ Peaceful(SubSeq(c, 1, Len(c) - 1))
<1> DEFINE d == SubSeq(c, 1, Len(c) - 1)
<1>1. d \in Seq(0 .. m - 1) /\ Len(d) = Len(c) - 1
      /\ \A r \in 1 .. Len(c) - 1 : d[r] = c[r]
  OBVIOUS
<1>2. Peaceful(d)
  <2> HIDE DEF d
  <2>1. /\ DOMAIN d = 1 .. Len(c) - 1 /\ DOMAIN c = 1 .. Len(c)
        /\ Len(c) \in Nat
    BY <1>1
  <2>2. \A r \in DOMAIN d : r \in DOMAIN c /\ d[r] = c[r]
    BY <1>1, <2>1
  <2>3. QED BY <2>2 DEF Peaceful
<1>3. QED BY <1>1, <1>2

(* A step that moves no queen, and after which no thread begins to count. *)
LEMMA BoardsKept ==
  ASSUME Boards, UNCHANGED <<n, config>>,
         \A u \in Threads : pc'[u] \in {"wait", "add"} => pc[u] \in {"wait", "add"}
  PROVE  Boards'
<1>1. Threads' = Threads
  BY DEF Threads, Columns
<1>2. \A u \in Threads : Peaceful(config[u])' <=> Peaceful(config[u])
  BY DEF Peaceful, Diagonal
<1>3. QED BY <1>1, <1>2 DEF Boards

LEMMA SizesAreNat == TypeOK => n \in Nat /\ n >= 1 /\ Columns = 0 .. n - 1
  BY BoardAssumption DEF TypeOK, Columns

-----------------------------------------------------------------------------
LEMMA InitInv == Init => Inv
<1> SUFFICES ASSUME Init PROVE Inv
  OBVIOUS
<1>1. n \in Nat /\ n >= 1
  BY BoardAssumption DEF Init
<1>2. TypeOK
  BY <1>1 DEF Init, TypeOK, Threads, Columns, ThreadPC
<1>3. OneCounter
  BY DEF Init, OneCounter, At
<1>4. Boards
  BY <1>1 DEF Init, Boards, Peaceful, Threads, Columns
<1>5. Creating
  BY <1>1 DEF Init, Creating
<1>6. QED BY <1>2, <1>3, <1>4, <1>5 DEF Inv

LEMMA PlaceInv ==
  ASSUME Inv, NEW t \in Threads, Place(t)
  PROVE  Inv'
<1> USE SizesAreNat DEF Inv
<1>1. PICK j \in Columns :
        /\ safe(config[t], j)
        /\ config' = [config EXCEPT ![t] = Append(@, j)]
        /\ Goto(t, "loop", Entered(config'[t]))
        /\ next' = [next EXCEPT ![t] = 0]
        /\ UNCHANGED <<made, main, total>>
  BY DEF Place
<1> USE DEF made, total
<1>2. n \in Nat /\ n' = n /\ Threads' = Threads /\ Columns' = Columns
  BY <1>1 DEF Threads, Columns
<1>3. config[t] \in Seq(0 .. n - 1) /\ Len(config[t]) \in Nat
  BY DEF TypeOK
<1>4. /\ config'[t] = Append(config[t], j)
      /\ config'[t] \in Seq(0 .. n - 1)
      /\ Len(config'[t]) = Len(config[t]) + 1
      /\ config'[t][1] = t
      /\ Peaceful(config'[t])
  <2>1. config'[t] = Append(config[t], j)
    BY <1>1 DEF TypeOK
  <2>2. j \in 0 .. n - 1 /\ safe(config[t], j)
    BY <1>1 DEF TypeOK
  <2>3. Len(config[t]) >= 1 /\ config[t][1] = t /\ Peaceful(config[t])
    BY DEF Boards
  <2> HIDE DEF Inv
  <2>4. Peaceful(Append(config[t], j))
    BY <1>2, <1>3, <2>2, <2>3, SafeKeepsPeace
  <2>5. /\ Append(config[t], j) \in Seq(0 .. n - 1)
        /\ Len(Append(config[t], j)) = Len(config[t]) + 1
        /\ Append(config[t], j)[1] = config[t][1]
    BY <1>3, <2>2, <2>3
  <2>6. QED BY <2>1, <2>3, <2>4, <2>5
<1>5. TypeOK'
  BY <1>1, <1>2, <1>4 DEF TypeOK, ThreadPC, Goto, Entered
<1>6. OneCounter'
  BY <1>1, <1>2 DEF OneCounter, At, Goto, Entered, TypeOK
<1>7. Boards'
  <2> SUFFICES ASSUME NEW u \in Threads
               PROVE  /\ Len(config'[u]) >= 1 /\ config'[u][1] = u
                      /\ Peaceful(config'[u])
                      /\ pc'[u] \in {"wait", "add"} => Len(config'[u]) = n
    BY <1>2 DEF Boards, Peaceful, Diagonal
  <2>1. CASE u = t
    BY <1>1, <1>3, <1>4, <2>1 DEF Goto, Entered, TypeOK
  <2>2. CASE u # t
    BY <1>1, <2>2 DEF Boards, Goto, TypeOK
  <2>3. QED BY <2>1, <2>2
<1>8. Creating'
  BY <1>1 DEF Creating
<1>9. QED BY <1>5, <1>6, <1>7, <1>8

LEMMA LockCountInv ==
  ASSUME Inv, NEW t \in Threads, LockCount(t)
  PROVE  Inv'
<1> USE SizesAreNat DEF Inv, LockCount, Goto, made, search
<1>1. n' = n /\ Threads' = Threads /\ Columns' = Columns
  BY DEF Threads, Columns
<1>2. TypeOK'
  BY <1>1 DEF TypeOK, ThreadPC
<1>3. sem = 1 /\ sem' = 0 /\ At({"add"}) = {}
  BY DEF TypeOK, OneCounter
<1>4. At({"add"})' = {t}
  BY <1>1, <1>3 DEF At, TypeOK
<1>5. OneCounter'
  BY <1>3, <1>4 DEF OneCounter
<1>6. Boards'
  <2>1. UNCHANGED <<n, config>> /\ Boards
    OBVIOUS
  <2>2. \A u \in Threads : pc'[u] \in {"wait", "add"} => pc[u] \in {"wait", "add"}
    BY DEF TypeOK
  <2>3. QED BY <2>1, <2>2, BoardsKept
<1>7. Creating'
  BY DEF Creating
<1>8. QED BY <1>2, <1>5, <1>6, <1>7

LEMMA AddSolutionInv ==
  ASSUME Inv, NEW t \in Threads, AddSolution(t)
  PROVE  Inv'
<1> USE SizesAreNat DEF Inv, AddSolution, Goto, made, search
<1>1. n' = n /\ Threads' = Threads /\ Columns' = Columns
  BY DEF Threads, Columns
<1>2. sem = 0 /\ At({"add"}) = {t}
  BY DEF TypeOK, OneCounter, At
<1>3. sem' = 1 /\ At({"add"})' = {}
  BY <1>1, <1>2 DEF At, TypeOK
<1>4. TypeOK'
  BY <1>1, <1>3 DEF TypeOK, ThreadPC
<1>5. OneCounter'
  BY <1>3 DEF OneCounter
<1>6. Boards'
  <2>1. UNCHANGED <<n, config>> /\ Boards
    OBVIOUS
  <2>2. \A u \in Threads : pc'[u] \in {"wait", "add"} => pc[u] \in {"wait", "add"}
    BY DEF TypeOK
  <2>3. QED BY <2>1, <2>2, BoardsKept
<1>7. Creating'
  BY DEF Creating
<1>8. QED BY <1>4, <1>5, <1>6, <1>7

LEMMA ReturnInv ==
  ASSUME Inv, NEW t \in Threads, Return(t)
  PROVE  Inv'
<1> USE SizesAreNat DEF Inv, Goto, made, total, search
<1>1. n' = n /\ Threads' = Threads /\ Columns' = Columns
  BY DEF Return, Threads, Columns
<1>2. CASE Len(config[t]) = 1
  <2>1. pc[t] = "loop" /\ pc' = [pc EXCEPT ![t] = "done"]
        /\ UNCHANGED <<n, created, joined, main, total, search>>
    BY <1>2 DEF Return
  <2>2. TypeOK'
    BY <1>1, <2>1 DEF TypeOK, ThreadPC
  <2>3. OneCounter'
    BY <1>1, <2>1 DEF OneCounter, At, TypeOK
  <2>4. Boards'
    <3>1. UNCHANGED <<n, config>> /\ Boards
      BY <2>1
    <3>2. \A u \in Threads : pc'[u] \in {"wait", "add"} => pc[u] \in {"wait", "add"}
      BY <2>1 DEF TypeOK
    <3>3. QED BY <3>1, <3>2, BoardsKept
  <2>5. Creating'
    BY <2>1 DEF Creating
  <2>6. QED BY <2>2, <2>3, <2>4, <2>5
<1>3. CASE Len(config[t]) # 1
  <2>1. /\ pc[t] = "loop" /\ pc' = [pc EXCEPT ![t] = "loop"]
        /\ next' = [next EXCEPT ![t] = config[t][Len(config[t])] + 1]
        /\ config' = [config EXCEPT ![t] = SubSeq(@, 1, Len(@) - 1)]
        /\ UNCHANGED <<n, created, joined, main, total>>
    BY <1>3 DEF Return
  <2>2. /\ config[t] \in Seq(0 .. n - 1) /\ Len(config[t]) \in Nat
        /\ Len(config[t]) > 1
        /\ config[t][Len(config[t])] \in 0 .. n - 1
    <3>1. config[t] \in Seq(0 .. n - 1)
      BY DEF TypeOK
    <3>2. Len(config[t]) >= 1
      BY DEF Boards
    <3>3. Len(config[t]) \in Nat
      BY <3>1
    <3>4. Len(config[t]) > 1
      <4> HIDE DEF Inv
      <4>1. \A k \in Nat : k >= 1 /\ k # 1 => k > 1
        OBVIOUS
      <4>2. QED BY <1>3, <3>2, <3>3, <4>1
    <3>5. QED BY <3>1, <3>3, <3>4, LastIsAColumn
  <2>3. /\ config'[t] = SubSeq(config[t], 1, Len(config[t]) - 1)
        /\ config'[t] \in Seq(0 .. n - 1)
        /\ Len(config'[t]) >= 1
        /\ config'[t][1] = t
        /\ Peaceful(config'[t])
    <3>1. config'[t] = SubSeq(config[t], 1, Len(config[t]) - 1)
      BY <2>1 DEF TypeOK
    <3>2. config[t][1] = t /\ Peaceful(config[t]) /\ n \in Nat
      BY DEF Boards, TypeOK
    <3> HIDE DEF Inv
    <3>3. QED BY <2>2, <3>1, <3>2, PrefixKeepsPeace
  <2>4. TypeOK'
    <3>1. config' \in [Threads -> Seq(Columns)]
      BY <2>1, <2>3 DEF TypeOK
    <3>2. next' \in [Threads -> 0 .. n]
      <4>1. config[t][Len(config[t])] + 1 \in 0 .. n
        BY <2>2 DEF TypeOK
      <4>2. next \in [Threads -> 0 .. n]
        BY DEF TypeOK
      <4> HIDE DEF Inv
      <4>3. QED BY <2>1, <4>1, <4>2
    <3>3. pc' \in [Threads -> ThreadPC]
      BY <2>1 DEF TypeOK, ThreadPC
    <3>4. QED BY <1>1, <2>1, <3>1, <3>2, <3>3 DEF TypeOK
  <2>5. OneCounter'
    BY <1>1, <2>1 DEF OneCounter, At, TypeOK
  <2>6. Boards'
    <3> SUFFICES ASSUME NEW u \in Threads
                 PROVE  /\ Len(config'[u]) >= 1 /\ config'[u][1] = u
                        /\ Peaceful(config'[u])
                        /\ pc'[u] \in {"wait", "add"} => Len(config'[u]) = n
      BY <1>1 DEF Boards, Peaceful, Diagonal
    <3>1. CASE u = t
      BY <2>1, <2>3, <3>1 DEF TypeOK
    <3>2. CASE u # t
      BY <2>1, <3>2 DEF Boards, TypeOK
    <3>3. QED BY <3>1, <3>2
  <2>7. Creating'
    BY <2>1 DEF Creating
  <2>8. QED BY <2>4, <2>5, <2>6, <2>7
<1>4. QED BY <1>2, <1>3

LEMMA MainInv ==
  ASSUME Inv, MainStep
  PROVE  Inv'
<1> USE SizesAreNat DEF Inv, made, total, search
<1>1. n' = n /\ Threads' = Threads /\ Columns' = Columns /\ UNCHANGED search
      /\ UNCHANGED total
  BY DEF MainStep, Create, CreateFails, Start, Join, JoinMissing,
         PrintSolutions, Threads, Columns
<1>2. ASSUME NEW to \in {"loop", "wait", "missing"},
             to = "wait" => Len(config[created]) = n,
             Start(to)
      PROVE  Inv'
  <2>1. created \in Threads /\ created' \in 0 .. n
    BY <1>2 DEF Start, Goto, TypeOK, Creating, Threads, Columns
  <2>2. TypeOK'
    BY <1>1, <1>2, <2>1 DEF Start, Goto, TypeOK, ThreadPC
  <2>3. OneCounter'
    BY <1>1, <1>2, <2>1 DEF Start, Goto, OneCounter, At, TypeOK
  <2>4. Boards'
    BY <1>1, <1>2, <2>1 DEF Start, Goto, Boards, Peaceful, Diagonal, TypeOK
  <2>5. Creating'
    BY <1>1, <1>2, <2>1 DEF Start, Creating
  <2>6. QED BY <2>2, <2>3, <2>4, <2>5
<1>3. CASE Create
  BY <1>2, <1>3 DEF Create, Entered
<1>4. CASE CreateFails
  BY <1>2, <1>4 DEF CreateFails
<1>5. CASE Join \/ JoinMissing \/ PrintSolutions
  <2>1. UNCHANGED pc /\ UNCHANGED created
    BY <1>5 DEF Join, JoinMissing, PrintSolutions
  <2>2. TypeOK'
    BY <1>1, <1>5, <2>1 DEF Join, JoinMissing, PrintSolutions, TypeOK
  <2>3. OneCounter' /\ Boards'
    BY <1>1, <2>1 DEF OneCounter, At, Boards, Peaceful, Diagonal
  <2>4. Creating'
    BY <1>5 DEF Join, JoinMissing, PrintSolutions, Creating
  <2>5. QED BY <2>2, <2>3, <2>4
<1>6. QED BY <1>3, <1>4, <1>5 DEF MainStep

LEMMA NextInv == Inv /\ [Next]_vars => Inv'
<1> SUFFICES ASSUME Inv, [Next]_vars PROVE Inv'
  OBVIOUS
<1>1. CASE MainStep
  BY <1>1, MainInv
<1>2. ASSUME NEW t \in Threads, ThreadStep(t)
      PROVE  Inv'
  BY <1>2, PlaceInv, LockCountInv, AddSolutionInv, ReturnInv DEF ThreadStep
<1>3. CASE UNCHANGED vars
  <2> USE <1>3 DEF vars, made, search, total, Inv
  <2>1. Threads' = Threads /\ Columns' = Columns
    BY DEF Threads, Columns
  <2>2. TypeOK'
    BY <2>1 DEF TypeOK
  <2>3. OneCounter' /\ Creating'
    BY <2>1 DEF OneCounter, At, Creating
  <2>4. Boards'
    BY BoardsKept
  <2>5. QED BY <2>2, <2>3, <2>4
<1>4. QED BY <1>1, <1>2, <1>3 DEF Next

LEMMA AlwaysInv == Spec => []Inv
  BY InitInv, NextInv, PTL DEF Spec

-----------------------------------------------------------------------------
(* The state of nqueens.c is well typed for every size of the board: sem is *)
(* a binary semaphore, and a column fits the board.                         *)
THEOREM TypeCorrect == Spec => []TypeOK
<1>1. Inv => TypeOK
  BY DEF Inv
<1>2. QED BY <1>1, AlwaysInv, PTL

(* The search of nqueens() never places a queen past the last row, although *)
(* nothing stops it after a full board: no column is safe there.            *)
THEOREM NeverPastTheLastRow == Spec => []DepthBounded
<1>1. Inv => DepthBounded
  BY SizesAreNat, AtMostOnePerColumn DEF Inv, DepthBounded, Boards, TypeOK
<1>2. QED BY <1>1, AlwaysInv, PTL

(* Every increment of count is for a full board without attacks. *)
THEOREM CountsOnlySolutions == Spec => []OnlySolutionsCounted
<1>1. Inv => OnlySolutionsCounted
  BY DEF Inv, OnlySolutionsCounted, Boards, At
<1>2. QED BY <1>1, AlwaysInv, PTL

(* No two threads are between the read and the write of count. *)
THEOREM CountsOneAtATime == Spec => []OneCounter
<1>1. Inv => OneCounter
  BY DEF Inv
<1>2. QED BY <1>1, AlwaysInv, PTL

-----------------------------------------------------------------------------
(* The solutions that have been counted.                                    *)

(* q begins with the first k queens of c. *)
Agrees(q, c, k) == \A s \in 1 .. k : q[s] = c[s]

(* Passed, for any size m, thread t, board c, place p and loop variable x.  *)
LeftBehind(m, t, c, p, x, q) ==
  \/ p = "done" /\ q[1] = t
  \/ \E r \in 1 .. Len(c) : q[r] < c[r] /\ Agrees(q, c, r - 1)
  \/ /\ Agrees(q, c, Len(c))
     /\ IF Len(c) = m THEN p = "loop" ELSE q[Len(c) + 1] < x

LEMMA PassedIsLeftBehind ==
  \A t, q : Passed(t, q) <=> LeftBehind(n, t, config[t], pc[t], next[t], q)
  BY DEF Passed, LeftBehind, Agrees

(* The next queen of a solution that begins with a board is safe there. *)
LEMMA SolutionsAreSafe ==
  ASSUME NEW m \in Nat, NEW c \in Seq(0 .. m - 1), Len(c) < m,
         NEW q \in [1 .. m -> 0 .. m - 1], Peaceful(q), Agrees(q, c, Len(c))
  PROVE  q[Len(c) + 1] \in 0 .. m - 1 /\ safe(c, q[Len(c) + 1])
<1>1. /\ Len(c) \in Nat /\ DOMAIN c = 1 .. Len(c) /\ DOMAIN q = 1 .. m
      /\ Len(c) + 1 \in 1 .. m
  OBVIOUS
<1>2. ASSUME NEW r \in 1 .. Len(c)
      PROVE  /\ q[Len(c) + 1] # c[r]
             /\ ~Diagonal(r, c[r], Len(c) + 1, q[Len(c) + 1])
  <2>1. r \in 1 .. m /\ r < Len(c) + 1 /\ q[r] = c[r]
    BY <1>1 DEF Agrees
  <2>2. /\ q[r] # q[Len(c) + 1]
        /\ ~Diagonal(r, q[r], Len(c) + 1, q[Len(c) + 1])
    BY <1>1, <2>1 DEF Peaceful
  <2>3. QED BY <2>1, <2>2
<1>3. QED BY <1>1, <1>2 DEF safe

(* The columns that Place skips belong to no solution. *)
LEMMA PlaceSkipsNone ==
  ASSUME NEW m \in Nat, NEW c \in Seq(0 .. m - 1), Len(c) < m,
         NEW x \in Nat, NEW j \in 0 .. m - 1, x <= j,
         \A i \in x .. j - 1 : ~safe(c, i),
         NEW t, NEW p, p # "done", p = "loop" => Len(c) + 1 # m,
         NEW q \in [1 .. m -> 0 .. m - 1], Peaceful(q)
  PROVE  LeftBehind(m, t, Append(c, j), p, 0, q) <=> LeftBehind(m, t, c, "loop", x, q)
<1> DEFINE d == Append(c, j)
           L == Len(c)
<1>1. /\ L \in Nat /\ Len(d) = L + 1 /\ d[L + 1] = j
      /\ \A r \in 1 .. L : d[r] = c[r]
  OBVIOUS
<1> HIDE DEF d, L
<1>2. \A k \in 0 .. L : Agrees(q, d, k) <=> Agrees(q, c, k)
  <2>1. \A k \in 0 .. L : \A s \in 1 .. k : d[s] = c[s]
    BY <1>1
  <2>2. QED BY <2>1 DEF Agrees
<1>3. L + 1 \in 1 .. m /\ q[L + 1] \in 0 .. m - 1
  BY <1>1 DEF L
<1>4. Agrees(q, c, L) => (q[L + 1] < j <=> q[L + 1] < x)
  <2>1. Agrees(q, c, L) => safe(c, q[L + 1])
    BY SolutionsAreSafe DEF L
  <2>2. safe(c, q[L + 1]) => q[L + 1] \notin x .. j - 1
    OBVIOUS
  <2>3. QED BY <1>3, <2>1, <2>2
<1>5. ~(Agrees(q, d, L + 1) /\ IF L + 1 = m THEN p = "loop" ELSE q[L + 2] < 0)
  <2>1. L + 1 # m => q[L + 2] \in 0 .. m - 1
    <3>1. L + 1 # m => L + 2 \in 1 .. m
      BY <1>1, <1>3
    <3>2. QED BY <3>1
  <2>2. L + 1 # m => ~(q[L + 2] < 0)
    BY <2>1
  <2>3. L + 1 = m => p # "loop"
    BY DEF L
  <2>4. CASE L + 1 = m
    BY <2>3, <2>4
  <2>5. CASE L + 1 # m
    BY <2>2, <2>5
  <2>6. QED BY <2>4, <2>5
<1>6. LeftBehind(m, t, d, p, 0, q)
      <=> \E r \in 1 .. L + 1 : q[r] < d[r] /\ Agrees(q, d, r - 1)
  <2>1. L + 1 + 1 = L + 2
    BY <1>1
  <2>2. QED BY <1>1, <1>5, <2>1 DEF LeftBehind
<1>7. (\E r \in 1 .. L + 1 : q[r] < d[r] /\ Agrees(q, d, r - 1))
      <=> \/ \E r \in 1 .. L : q[r] < c[r] /\ Agrees(q, c, r - 1)
          \/ q[L + 1] < j /\ Agrees(q, c, L)
  <2>1. ASSUME NEW r \in 1 .. L
        PROVE  q[r] < d[r] /\ Agrees(q, d, r - 1) <=> q[r] < c[r] /\ Agrees(q, c, r - 1)
    <3>1. r - 1 \in 0 .. L /\ d[r] = c[r]
      BY <1>1
    <3>2. QED BY <1>2, <3>1
  <2>2. /\ L + 1 - 1 = L /\ d[L + 1] = j
        /\ Agrees(q, d, L) <=> Agrees(q, c, L)
    <3>1. L + 1 - 1 = L /\ L \in 0 .. L
      BY <1>1
    <3>2. QED BY <1>1, <1>2, <3>1
  <2>3. 1 .. L + 1 = (1 .. L) \cup {L + 1}
    <3>1. \A k \in Nat : 1 .. k + 1 = (1 .. k) \cup {k + 1}
      OBVIOUS
    <3>2. QED BY <1>1, <3>1
  <2>4. ASSUME NEW r \in 1 .. L + 1, q[r] < d[r], Agrees(q, d, r - 1)
        PROVE  \/ \E k \in 1 .. L : q[k] < c[k] /\ Agrees(q, c, k - 1)
               \/ q[L + 1] < j /\ Agrees(q, c, L)
    <3>1. CASE r \in 1 .. L
      BY <2>1, <2>4, <3>1
    <3>2. CASE r = L + 1
      <4>1. r - 1 = L
        BY <1>1, <3>2
      <4>2. q[L + 1] < j /\ Agrees(q, d, L)
        BY <2>2, <2>4, <3>2, <4>1
      <4>3. QED BY <2>2, <4>2
    <3>3. QED BY <2>3, <3>1, <3>2
  <2>5. ASSUME NEW r \in 1 .. L, q[r] < c[r], Agrees(q, c, r - 1)
        PROVE  \E k \in 1 .. L + 1 : q[k] < d[k] /\ Agrees(q, d, k - 1)
    BY <2>1, <2>3, <2>5
  <2>6. ASSUME q[L + 1] < j, Agrees(q, c, L)
        PROVE  \E k \in 1 .. L + 1 : q[k] < d[k] /\ Agrees(q, d, k - 1)
    <3>1. PICK k \in 1 .. L + 1 : k = L + 1 /\ k - 1 = L
      BY <1>1
    <3>2. q[k] < d[k] /\ Agrees(q, d, k - 1)
      BY <2>2, <2>6, <3>1
    <3>3. QED BY <3>2
  <2>7. QED BY <2>4, <2>5, <2>6
<1>8. LeftBehind(m, t, c, "loop", x, q)
      <=> \/ \E r \in 1 .. L : q[r] < c[r] /\ Agrees(q, c, r - 1)
          \/ q[L + 1] < x /\ Agrees(q, c, L)
  BY DEF LeftBehind, L
<1>9. LeftBehind(m, t, d, p, 0, q) <=> LeftBehind(m, t, c, "loop", x, q)
  BY <1>4, <1>6, <1>7, <1>8
<1>10. QED BY <1>9 DEF d

(* What the call that returns has not tried belongs to no solution. *)
LEMMA ReturnSkipsNone ==
  ASSUME NEW m \in Nat, NEW c \in Seq(0 .. m - 1), Len(c) >= 1, Len(c) <= m,
         NEW x \in Nat, \A i \in 0 .. m - 1 : i >= x => ~safe(c, i),
         NEW q \in [1 .. m -> 0 .. m - 1], Peaceful(q)
  PROVE  /\ Len(c) > 1 =>
              (LeftBehind(m, c[1], SubSeq(c, 1, Len(c) - 1), "loop", c[Len(c)] + 1, q)
               <=> LeftBehind(m, c[1], c, "loop", x, q))
         /\ Len(c) = 1 /\ q[1] = c[1] => LeftBehind(m, c[1], c, "loop", x, q)
<1> DEFINE L == Len(c)
<1>1. L \in Nat /\ L >= 1 /\ L <= m /\ c[L] \in 0 .. m - 1 /\ q[L] \in 0 .. m - 1
  <2>1. L \in 1 .. L /\ L \in 1 .. m /\ c \in [1 .. L -> 0 .. m - 1]
    OBVIOUS
  <2>2. QED BY <2>1
<1>2. Agrees(q, c, L) => IF L = m THEN TRUE ELSE q[L + 1] < x
  <2>1. CASE Agrees(q, c, L) /\ L # m
    <3>1. Len(c) < m /\ Agrees(q, c, Len(c))
      BY <1>1, <2>1
    <3>2. q[L + 1] \in 0 .. m - 1 /\ safe(c, q[L + 1])
      BY <3>1, SolutionsAreSafe
    <3>3. QED BY <2>1, <3>2
  <2>2. QED BY <2>1
<1>3. LeftBehind(m, c[1], c, "loop", x, q)
      <=> \/ \E r \in 1 .. L : q[r] < c[r] /\ Agrees(q, c, r - 1)
          \/ Agrees(q, c, L)
  BY <1>2 DEF LeftBehind
<1>4. ASSUME L > 1
      PROVE  LeftBehind(m, c[1], SubSeq(c, 1, L - 1), "loop", c[L] + 1, q)
             <=> LeftBehind(m, c[1], c, "loop", x, q)
  <2> DEFINE d == SubSeq(c, 1, L - 1)
  <2>1. Len(d) = L - 1 /\ \A r \in 1 .. L - 1 : d[r] = c[r]
    BY <1>1, <1>4
  <2> HIDE DEF d, L
  <2>2. \A k \in 0 .. L - 1 : Agrees(q, d, k) <=> Agrees(q, c, k)
    <3>1. \A k \in 0 .. L - 1 : \A s \in 1 .. k : d[s] = c[s]
      BY <1>1, <2>1
    <3>2. QED BY <3>1 DEF Agrees
  <2>3. L - 1 # m /\ L - 1 + 1 = L /\ L - 1 \in 0 .. L - 1
    BY <1>1
  <2>4. Agrees(q, c, L) <=> Agrees(q, c, L - 1) /\ q[L] = c[L]
    <3>1. \A s : s \in 1 .. L <=> s \in 1 .. L - 1 \/ s = L
      BY <1>1
    <3>2. QED BY <3>1 DEF Agrees
  <2>5. LeftBehind(m, c[1], d, "loop", c[L] + 1, q)
        <=> \/ \E r \in 1 .. L - 1 : q[r] < d[r] /\ Agrees(q, d, r - 1)
            \/ Agrees(q, c, L - 1) /\ q[L] < c[L] + 1
    BY <2>1, <2>2, <2>3 DEF LeftBehind
  <2>6. (\E r \in 1 .. L : q[r] < c[r] /\ Agrees(q, c, r - 1))
        <=> \/ \E r \in 1 .. L - 1 : q[r] < d[r] /\ Agrees(q, d, r - 1)
            \/ q[L] < c[L] /\ Agrees(q, c, L - 1)
    <3>1. ASSUME NEW r \in 1 .. L - 1
          PROVE  q[r] < d[r] /\ Agrees(q, d, r - 1) <=> q[r] < c[r] /\ Agrees(q, c, r - 1)
      <4>1. r - 1 \in 0 .. L - 1 /\ d[r] = c[r]
        BY <1>1, <2>1
      <4>2. QED BY <2>2, <4>1
    <3>2. \A r : r \in 1 .. L <=> r \in 1 .. L - 1 \/ r = L
      BY <1>1
    <3>3. QED BY <3>1, <3>2
  <2>7. q[L] < c[L] + 1 <=> q[L] < c[L] \/ q[L] = c[L]
    <3>1. \A a, b \in Nat : a < b + 1 <=> a < b \/ a = b
      OBVIOUS
    <3>2. q[L] \in Nat /\ c[L] \in Nat
      BY <1>1
    <3>3. QED BY <3>1, <3>2
  <2>8. LeftBehind(m, c[1], d, "loop", c[L] + 1, q) <=> LeftBehind(m, c[1], c, "loop", x, q)
    BY <1>3, <2>4, <2>5, <2>6, <2>7
  <2>9. QED BY <2>8 DEF d
<1>5. ASSUME L = 1, q[1] = c[1] PROVE LeftBehind(m, c[1], c, "loop", x, q)
  BY <1>3, <1>5 DEF Agrees
<1>6. QED BY <1>4, <1>5

Counted(q) == pc[q[1]] \notin {"unborn", "missing"} /\ Passed(q[1], q)

(* The solutions that the searches have left behind. *)
Done == {q \in Solutions[n] : Counted(q)}

(* A thread that has not begun has its first queen and nothing else; the    *)
(* one that counts has read the count; main joins the threads in order, and *)
(* prints when it has joined them all.                                      *)
CountInv ==
  /\ IsFiniteSet(Done) /\ count = Cardinality(Done)
  /\ \A t \in Threads :
       /\ pc[t] = "add" => copy[t] = count
       /\ pc[t] \in {"unborn", "missing"} => config[t] = <<t>> /\ next[t] = 0
       /\ t < joined => pc[t] \in {"done", "missing"}
  /\ main = "printed" => joined = n

LEMMA ASolution ==
  ASSUME Inv, NEW q \in Solutions[n]
  PROVE  q \in [1 .. n -> 0 .. n - 1] /\ Peaceful(q) /\ q[1] \in Threads
<1>1. n \in Nat /\ n >= 1 /\ n \in BoardSizes /\ Threads = 0 .. n - 1
  BY SizesAreNat DEF Inv, TypeOK, Threads
<1>2. q \in [1 .. n -> 0 .. n - 1] /\ Peaceful(q)
  BY <1>1 DEF Solutions
<1>3. 1 \in 1 .. n
  BY <1>1
<1>4. QED BY <1>1, <1>2, <1>3

LEMMA PassedKept ==
  ASSUME NEW u, NEW q, n' = n,
         config'[u] = config[u], next'[u] = next[u], pc'[u] = pc[u]
  PROVE  Passed(u, q)' <=> Passed(u, q)
<1>1. Passed(u, q)' <=> LeftBehind(n', u, config'[u], pc'[u], next'[u], q)
  BY DEF Passed, LeftBehind, Agrees
<1>2. Passed(u, q) <=> LeftBehind(n, u, config[u], pc[u], next[u], q)
  BY PassedIsLeftBehind
<1>3. QED BY <1>1, <1>2

(* A step of thread t that leaves behind what it had left behind, and no    *)
(* more, keeps the set; so does a step that starts t.                       *)
LEMMA DoneKept ==
  ASSUME Inv, NEW t, n' = n,
         \A u \in Threads \ {t} :
           config'[u] = config[u] /\ next'[u] = next[u] /\ pc'[u] = pc[u],
         \A q \in Solutions[n] : q[1] = t => (Counted(q)' <=> Counted(q))
  PROVE  Done' = Done
<1>1. Solutions[n]' = Solutions[n]
  BY DEF Solutions, Peaceful, Diagonal
<1>2. ASSUME NEW q \in Solutions[n] PROVE Counted(q)' <=> Counted(q)
  <2>1. q[1] \in Threads
    BY ASolution
  <2>2. CASE q[1] # t
    <3>1. q[1] \in Threads \ {t}
      BY <2>1, <2>2
    <3>2. Passed(q[1], q)' <=> Passed(q[1], q)
      BY <3>1, PassedKept
    <3>3. QED BY <3>1, <3>2 DEF Counted
  <2>3. QED BY <2>2
<1>3. QED BY <1>1, <1>2 DEF Done

LEMMA CountKept ==
  ASSUME CountInv, Inv, Done' = Done, UNCHANGED <<n, joined, main, total>>,
         \A t \in Threads :
           /\ pc'[t] = "add" => pc[t] = "add"
           /\ pc'[t] \in {"unborn", "missing"} =>
                /\ pc[t] \in {"unborn", "missing"}
                /\ config'[t] = config[t] /\ next'[t] = next[t]
           /\ pc[t] \in {"done", "missing"} => pc'[t] = pc[t]
  PROVE  CountInv'
<1>1. Threads' = Threads
  BY DEF Threads, Columns
<1>2. IsFiniteSet(Done)' /\ (count = Cardinality(Done))'
  BY DEF CountInv, total
<1>3. QED BY <1>1, <1>2 DEF CountInv, total

LEMMA CountInit == Init => CountInv
<1> SUFFICES ASSUME Init PROVE CountInv
  OBVIOUS
<1>1. Inv
  BY InitInv
<1>2. \A q \in Solutions[n] : ~Counted(q)
  BY <1>1, ASolution DEF Counted, Init
<1>3. Done = {} /\ IsFiniteSet(Done) /\ Cardinality(Done) = 0
  BY <1>2, FS_EmptySet DEF Done
<1>4. n \in Nat /\ n >= 1
  BY <1>1, SizesAreNat DEF Inv
<1>5. \A t \in Threads : ~(t < 0) /\ pc[t] = "unborn" /\ config[t] = <<t>> /\ next[t] = 0
  BY <1>4 DEF Init, Threads, Columns
<1>6. QED BY <1>3, <1>5 DEF CountInv, Init

LEMMA CountPlace ==
  ASSUME CountInv, Inv, Inv', NEW t \in Threads, Place(t)
  PROVE  CountInv'
<1>1. PICK j \in Columns :
        /\ j >= next[t] /\ \A i \in next[t] .. j - 1 : ~safe(config[t], i)
        /\ config' = [config EXCEPT ![t] = Append(@, j)]
        /\ Goto(t, "loop", Entered(config'[t]))
        /\ next' = [next EXCEPT ![t] = 0]
        /\ UNCHANGED <<made, main, total>>
  BY DEF Place
<1>2. /\ n \in Nat /\ n' = n /\ Columns = 0 .. n - 1 /\ Threads' = Threads
      /\ config \in [Threads -> Seq(Columns)]
      /\ next \in [Threads -> 0 .. n] /\ pc \in [Threads -> ThreadPC]
  BY <1>1, SizesAreNat DEF Inv, TypeOK, made, Threads, Columns
<1> DEFINE c == config[t]
           x == next[t]
           p == pc'[t]
<1>3. /\ c \in Seq(0 .. n - 1) /\ x \in Nat /\ j \in 0 .. n - 1 /\ x <= j
      /\ config'[t] = Append(c, j) /\ next'[t] = 0
      /\ pc[t] = "loop" /\ p = IF Len(Append(c, j)) = n THEN "wait" ELSE "loop"
      /\ Len(Append(c, j)) = Len(c) + 1 /\ Len(c) \in Nat
  <2>1. c \in Seq(0 .. n - 1) /\ x \in Nat /\ j \in 0 .. n - 1 /\ x <= j
    BY <1>1, <1>2
  <2>2. config'[t] = Append(c, j) /\ next'[t] = 0
    BY <1>1, <1>2
  <2>3. pc[t] = "loop" /\ p = IF Len(config'[t]) = n THEN "wait" ELSE "loop"
    BY <1>1, <1>2 DEF Goto, Entered
  <2>4. Len(Append(c, j)) = Len(c) + 1 /\ Len(c) \in Nat
    BY <2>1
  <2>5. QED BY <2>1, <2>2, <2>3, <2>4
<1>4. Len(c) < n
  <2>1. /\ config'[t] \in Seq(0 .. n - 1)
        /\ Peaceful(config'[t])
    <3>1. Peaceful(config[t])' /\ (config[t] \in Seq(Columns))'
      BY <1>2 DEF Inv, Boards, TypeOK
    <3>2. Columns' = 0 .. n - 1
      BY <1>2 DEF Columns
    <3>3. QED BY <3>1, <3>2 DEF Peaceful, Diagonal
  <2>2. Len(config'[t]) <= n
    BY <1>2, <2>1, AtMostOnePerColumn
  <2>3. QED BY <1>2, <1>3, <2>2
<1> HIDE DEF c, x, p
<1>5. ASSUME NEW q \in Solutions[n], q[1] = t
      PROVE  Counted(q)' <=> Counted(q)
  <2>1. q \in [1 .. n -> 0 .. n - 1] /\ Peaceful(q)
    BY ASolution
  <2>2. p # "done" /\ (p = "loop" => Len(c) + 1 # n)
    BY <1>3
  <2>3. \A i \in x .. j - 1 : ~safe(c, i)
    BY <1>1 DEF c, x
  <2>4. LeftBehind(n, t, Append(c, j), p, 0, q) <=> LeftBehind(n, t, c, "loop", x, q)
    BY <1>2, <1>3, <1>4, <2>1, <2>2, <2>3, PlaceSkipsNone
  <2>5. Passed(t, q) <=> LeftBehind(n, t, c, "loop", x, q)
    BY <1>3, PassedIsLeftBehind DEF c, x
  <2>6. Passed(t, q)' <=> LeftBehind(n, t, Append(c, j), p, 0, q)
    BY <1>2, <1>3 DEF Passed, LeftBehind, Agrees, p
  <2>7. pc[t] \notin {"unborn", "missing"} /\ pc'[t] \notin {"unborn", "missing"}
    BY <1>3 DEF p
  <2>8. QED BY <1>5, <2>4, <2>5, <2>6, <2>7 DEF Counted
<1>6. \A u \in Threads \ {t} :
        config'[u] = config[u] /\ next'[u] = next[u] /\ pc'[u] = pc[u]
  BY <1>1, <1>2 DEF Goto
<1>7. Done' = Done
  BY <1>2, <1>5, <1>6, DoneKept
<1>8. \A u \in Threads :
        /\ pc'[u] = "add" => pc[u] = "add"
        /\ pc'[u] \in {"unborn", "missing"} =>
             /\ pc[u] \in {"unborn", "missing"}
             /\ config'[u] = config[u] /\ next'[u] = next[u]
        /\ pc[u] \in {"done", "missing"} => pc'[u] = pc[u]
  BY <1>3, <1>6 DEF p
<1>9. QED BY <1>1, <1>7, <1>8, CountKept DEF made

LEMMA CountReturn ==
  ASSUME CountInv, Inv, NEW t \in Threads, Return(t)
  PROVE  CountInv'
<1>1. /\ n \in Nat /\ n' = n /\ Columns = 0 .. n - 1 /\ Threads' = Threads
      /\ config \in [Threads -> Seq(Columns)]
      /\ next \in [Threads -> 0 .. n] /\ pc \in [Threads -> ThreadPC]
      /\ UNCHANGED <<joined, main, total>>
  BY SizesAreNat DEF Return, Inv, TypeOK, made, Threads, Columns
<1> DEFINE c == config[t]
           x == next[t]
<1>2. /\ c \in Seq(0 .. n - 1) /\ Len(c) >= 1 /\ Len(c) <= n /\ c[1] = t
      /\ x \in Nat /\ \A i \in 0 .. n - 1 : i >= x => ~safe(c, i)
  <2>1. c \in Seq(0 .. n - 1) /\ x \in Nat
    BY <1>1
  <2>2. Len(c) >= 1 /\ c[1] = t /\ Peaceful(c)
    BY DEF Inv, Boards
  <2>3. \A i \in 0 .. n - 1 : i >= x => ~safe(c, i)
    BY <1>1 DEF Return
  <2> HIDE DEF c, x
  <2>4. Len(c) <= n
    BY <1>1, <2>1, <2>2, AtMostOnePerColumn
  <2>5. QED BY <2>1, <2>2, <2>3, <2>4
<1>3. /\ pc[t] = "loop"
      /\ \/ /\ Len(c) = 1 /\ pc' = [pc EXCEPT ![t] = "done"]
            /\ UNCHANGED <<config, next>>
         \/ /\ Len(c) > 1 /\ UNCHANGED pc
            /\ next' = [next EXCEPT ![t] = c[Len(c)] + 1]
            /\ config' = [config EXCEPT ![t] = SubSeq(c, 1, Len(c) - 1)]
  <2>1. CASE Len(config[t]) = 1
    BY <2>1 DEF Return, Goto, search
  <2>2. CASE Len(config[t]) # 1
    <3>1. Len(c) > 1
      <4>1. Len(c) \in Nat
        BY <1>2
      <4>2. \A k \in Nat : k >= 1 /\ k # 1 => k > 1
        OBVIOUS
      <4>3. QED BY <1>2, <2>2, <4>1, <4>2
    <3>2. /\ Goto(t, "loop", "loop")
          /\ next' = [next EXCEPT ![t] = c[Len(c)] + 1]
          /\ config' = [config EXCEPT ![t] = SubSeq(c, 1, Len(c) - 1)]
      BY <2>2 DEF Return
    <3>3. pc[t] = "loop" /\ pc' = pc
      BY <1>1, <3>2 DEF Goto
    <3>4. QED BY <3>1, <3>2, <3>3
  <2>3. QED BY <2>1, <2>2
<1> HIDE DEF c, x
<1>4. ASSUME NEW q \in Solutions[n], q[1] = t
      PROVE  Counted(q)' <=> Counted(q)
  <2>1. q \in [1 .. n -> 0 .. n - 1] /\ Peaceful(q)
    BY ASolution
  <2>2. Passed(t, q) <=> LeftBehind(n, t, c, "loop", x, q)
    BY <1>3, PassedIsLeftBehind DEF c, x
  <2>3. /\ Len(c) > 1 => (LeftBehind(n, c[1], SubSeq(c, 1, Len(c) - 1), "loop", c[Len(c)] + 1, q)
                          <=> LeftBehind(n, c[1], c, "loop", x, q))
        /\ Len(c) = 1 /\ q[1] = c[1] => LeftBehind(n, c[1], c, "loop", x, q)
    BY <1>1, <1>2, <2>1, ReturnSkipsNone
  <2>4. CASE Len(c) = 1
    <3>1. Passed(t, q)
      BY <1>2, <1>4, <2>2, <2>3, <2>4
    <3>2. pc'[t] = "done"
      BY <1>1, <1>3, <2>4
    <3>3. Passed(t, q)'
      BY <1>4, <3>2 DEF Passed
    <3>4. QED BY <1>3, <1>4, <3>1, <3>2, <3>3 DEF Counted
  <2>5. CASE Len(c) > 1
    <3>1. /\ config'[t] = SubSeq(c, 1, Len(c) - 1)
          /\ next'[t] = c[Len(c)] + 1 /\ pc'[t] = "loop"
      <4>1. /\ pc[t] = "loop" /\ UNCHANGED pc
            /\ next' = [next EXCEPT ![t] = c[Len(c)] + 1]
            /\ config' = [config EXCEPT ![t] = SubSeq(c, 1, Len(c) - 1)]
        <5>1. Len(c) # 1
          <6>1. \A k : k > 1 => k # 1
            OBVIOUS
          <6>2. QED BY <2>5, <6>1
        <5>2. QED BY <1>3, <5>1
      <4>2. QED BY <1>1, <4>1
    <3>2. Passed(t, q)' <=> LeftBehind(n, t, SubSeq(c, 1, Len(c) - 1), "loop", c[Len(c)] + 1, q)
      BY <1>1, <3>1 DEF Passed, LeftBehind, Agrees
    <3>3. Passed(t, q)' <=> Passed(t, q)
      BY <1>2, <2>2, <2>3, <2>5, <3>2
    <3>4. QED BY <1>3, <1>4, <3>1, <3>3 DEF Counted
  <2>6. QED BY <1>3, <2>4, <2>5
<1>5. \A u \in Threads \ {t} :
        config'[u] = config[u] /\ next'[u] = next[u] /\ pc'[u] = pc[u]
  BY <1>1, <1>3
<1>6. Done' = Done
  BY <1>1, <1>4, <1>5, DoneKept
<1>7. \A u \in Threads :
        /\ pc'[u] = "add" => pc[u] = "add"
        /\ pc'[u] \in {"unborn", "missing"} =>
             /\ pc[u] \in {"unborn", "missing"}
             /\ config'[u] = config[u] /\ next'[u] = next[u]
        /\ pc[u] \in {"done", "missing"} => pc'[u] = pc[u]
  <2>1. pc'[t] \in {"loop", "done"}
    BY <1>1, <1>3
  <2>2. QED BY <1>3, <1>5, <2>1
<1>8. QED BY <1>1, <1>6, <1>7, CountKept

LEMMA CountLock ==
  ASSUME CountInv, Inv, NEW t \in Threads, LockCount(t)
  PROVE  CountInv'
<1>1. /\ n' = n /\ Threads' = Threads /\ pc[t] = "wait" /\ Len(config[t]) = n
      /\ pc' = [pc EXCEPT ![t] = "add"] /\ copy' = [copy EXCEPT ![t] = count]
      /\ UNCHANGED <<made, main, config, next, count>>
      /\ pc \in [Threads -> ThreadPC] /\ copy \in [Threads -> Nat]
  BY DEF LockCount, Goto, made, search, Threads, Columns, Inv, Boards, TypeOK
<1>2. pc'[t] = "add" /\ copy'[t] = count
      /\ \A u \in Threads \ {t} : pc'[u] = pc[u] /\ copy'[u] = copy[u]
  BY <1>1
<1>3. ASSUME NEW q \in Solutions[n], q[1] = t
      PROVE  Counted(q)' <=> Counted(q)
  <2>1. Passed(t, q)' <=> Passed(t, q)
    BY <1>1, <1>2 DEF Passed
  <2>2. QED BY <1>1, <1>2, <1>3, <2>1 DEF Counted
<1>4. Done' = Done
  BY <1>1, <1>2, <1>3, DoneKept
<1>5. IsFiniteSet(Done)' /\ (count = Cardinality(Done))'
  BY <1>1, <1>4 DEF CountInv
<1>6. QED BY <1>1, <1>2, <1>5 DEF CountInv, made

(* The full board that is counted is a solution, and not one left behind.   *)
LEMMA CountAdd ==
  ASSUME CountInv, Inv, NEW t \in Threads, AddSolution(t)
  PROVE  CountInv'
<1>1. /\ n \in Nat /\ n \in BoardSizes /\ n' = n /\ Threads' = Threads
      /\ pc[t] = "add" /\ pc' = [pc EXCEPT ![t] = "loop"]
      /\ count' = copy[t] + 1 /\ copy[t] = count
      /\ UNCHANGED <<made, main, config, next, copy>>
      /\ pc \in [Threads -> ThreadPC] /\ At({"add"}) = {t}
  <2>1. At({"add"}) = {t}
    BY DEF AddSolution, Goto, Inv, OneCounter, At
  <2>2. QED BY <2>1, SizesAreNat DEF AddSolution, Goto, made, search, Threads, Columns,
                                     Inv, TypeOK, CountInv
<1>2. /\ config[t] \in Seq(0 .. n - 1) /\ Len(config[t]) = n
      /\ config[t][1] = t /\ Peaceful(config[t])
  <2>1. config[t] \in Seq(Columns) /\ Columns = 0 .. n - 1
    BY SizesAreNat DEF Inv, TypeOK
  <2>2. QED BY <1>1, <2>1 DEF Inv, Boards
<1>3. pc'[t] = "loop" /\ \A u \in Threads \ {t} : pc'[u] = pc[u] /\ pc[u] # "add"
  BY <1>1 DEF At
<1>c. PICK c : c = config[t]
  OBVIOUS
<1>4. c \in [1 .. n -> 0 .. n - 1]
  BY <1>2, <1>c
<1>5. c \in Solutions[n]
  BY <1>1, <1>2, <1>4, <1>c DEF Solutions
<1>6. ~Counted(c) /\ Counted(c)'
  <2>1. \A r \in 1 .. n : ~(c[r] < c[r])
    <3>1. \A r \in 1 .. n : c[r] \in Int
      BY <1>1, <1>4
    <3>2. QED BY <3>1
  <2>2. Len(config[t]) = n /\ c[1] = t
    BY <1>2, <1>c
  <2>3. ~Passed(t, c)
    BY <1>1, <1>c, <2>1, <2>2 DEF Passed
  <2>4. Passed(t, c)'
    BY <1>1, <1>3, <1>c, <2>2 DEF Passed
  <2>5. QED BY <1>1, <1>3, <2>2, <2>3, <2>4 DEF Counted
<1>7. ASSUME NEW q \in Solutions[n], q # c
      PROVE  Counted(q)' <=> Counted(q)
  <2>1. q \in [1 .. n -> 0 .. n - 1] /\ q[1] \in Threads
    BY ASolution
  <2>2. CASE q[1] # t
    <3>1. q[1] \in Threads \ {t}
      BY <2>1, <2>2
    <3>2. Passed(q[1], q)' <=> Passed(q[1], q)
      BY <1>1, <1>3, <3>1, PassedKept
    <3>3. QED BY <1>3, <3>1, <3>2 DEF Counted
  <2>3. CASE q[1] = t
    <3>1. ~(\A r \in 1 .. n : q[r] = c[r])
      <4>1. ASSUME \A r \in 1 .. n : q[r] = c[r] PROVE q = c
        <5>1. q = [r \in 1 .. n |-> q[r]] /\ c = [r \in 1 .. n |-> c[r]]
          BY <1>4, <2>1
        <5>2. [r \in 1 .. n |-> q[r]] = [r \in 1 .. n |-> c[r]]
          BY <4>1
        <5>3. QED BY <5>1, <5>2
      <4>2. QED BY <1>7, <4>1
    <3>2. Passed(t, q)' <=> Passed(t, q)
      BY <1>1, <1>2, <1>3, <1>c, <3>1 DEF Passed
    <3>3. QED BY <1>1, <1>3, <2>3, <3>2 DEF Counted
  <2>4. QED BY <2>2, <2>3
<1>8. Solutions[n]' = Solutions[n]
  BY <1>1 DEF Solutions, Peaceful, Diagonal
<1>9. Done' = Done \cup {c} /\ c \notin Done
  BY <1>5, <1>6, <1>7, <1>8 DEF Done
<1>10. IsFiniteSet(Done)' /\ Cardinality(Done)' = Cardinality(Done) + 1
  BY <1>9, FS_AddElement DEF CountInv
<1>11. (count = Cardinality(Done))'
  BY <1>1, <1>10 DEF CountInv
<1>12. QED BY <1>1, <1>3, <1>10, <1>11 DEF CountInv, made

(* A thread that starts has left nothing behind, nor has one that does not. *)
LEMMA CountStart ==
  ASSUME CountInv, Inv, NEW to \in {Entered(config[created]), "missing"}, Start(to)
  PROVE  CountInv'
<1>t. PICK t : t = created
  OBVIOUS
<1>1. /\ n \in Nat /\ n >= 1 /\ n' = n /\ Threads' = Threads /\ t \in Threads
      /\ pc \in [Threads -> ThreadPC] /\ pc[t] = "unborn"
      /\ pc' = [pc EXCEPT ![t] = to] /\ UNCHANGED <<config, next, joined, total>>
      /\ main' # "printed"
  BY <1>t, SizesAreNat DEF Start, Goto, search, Threads, Columns, Inv, TypeOK, Creating
<1>2. config[t] = <<t>> /\ next[t] = 0
  BY <1>1 DEF CountInv
<1>3. pc'[t] = to /\ \A u \in Threads \ {t} : pc'[u] = pc[u]
  BY <1>1
<1>4. to = "missing" \/ to = IF n = 1 THEN "wait" ELSE "loop"
  <2>1. Len(<<t>>) = 1
    OBVIOUS
  <2>2. QED BY <1>t, <1>2, <2>1 DEF Entered
<1>5. ASSUME NEW q \in Solutions[n], q[1] = t
      PROVE  Counted(q)' <=> Counted(q)
  <2>1. ~Counted(q)
    BY <1>1, <1>5 DEF Counted
  <2>2. ASSUME to # "missing" PROVE ~Passed(t, q)'
    <3>1. q \in [1 .. n -> 0 .. n - 1]
      BY ASolution
    <3>2. n # 1 => q[2] \in 0 .. n - 1
      <4>1. n # 1 => 2 \in 1 .. n
        BY <1>1
      <4>2. QED BY <3>1, <4>1
    <3>3. n # 1 => ~(q[2] < 0)
      BY <3>2
    <3>4. pc'[t] # "done" /\ (n = 1 => pc'[t] # "loop")
      BY <1>3, <1>4, <2>2
    <3>5. /\ config'[t] = <<t>> /\ next'[t] = 0 /\ Len(<<t>>) = 1 /\ <<t>>[1] = t
          /\ \A r \in 1 .. 1 : r = 1
      BY <1>1, <1>2
    <3>6. ~(q[1] < t)
      <4>1. t \in 0 .. n - 1
        BY <1>1 DEF Threads, Columns
      <4>2. QED BY <1>5, <4>1
    <3>7. QED BY <1>1, <1>5, <3>3, <3>4, <3>5, <3>6 DEF Passed
  <2>3. ~Counted(q)'
    BY <1>3, <1>5, <2>2 DEF Counted
  <2>4. QED BY <2>1, <2>3
<1>6. Done' = Done
  BY <1>1, <1>3, <1>5, DoneKept
<1>7. IsFiniteSet(Done)' /\ (count = Cardinality(Done))'
  BY <1>1, <1>6 DEF CountInv, total
<1>8. QED BY <1>1, <1>2, <1>3, <1>4, <1>7 DEF CountInv, total

LEMMA CountMain ==
  ASSUME CountInv, Inv, MainStep
  PROVE  CountInv'
<1>1. CASE Create \/ CreateFails
  BY <1>1, CountStart DEF Create, CreateFails
<1>2. CASE Join \/ JoinMissing \/ PrintSolutions
  <2>1. /\ n' = n /\ UNCHANGED <<config, next, pc, total>>
        /\ Threads' = Threads /\ n \in Nat /\ joined \in Nat
    <3>1. n' = n /\ UNCHANGED <<search, pc, total>>
      BY <1>2 DEF Join, JoinMissing, PrintSolutions, made
    <3>2. n \in Nat /\ joined \in 0 .. n
      BY SizesAreNat DEF Inv, TypeOK
    <3>3. QED BY <3>1, <3>2 DEF search, Threads, Columns
  <2>2. Done' = Done
    BY <2>1, DoneKept DEF Counted, Passed
  <2>3. IsFiniteSet(Done)' /\ (count = Cardinality(Done))'
    BY <2>1, <2>2 DEF CountInv, total
  <2>4. \/ joined' = joined /\ (main' = "printed" => joined = n)
        \/ joined' = joined + 1 /\ pc[joined] \in {"done", "missing"} /\ main' # "printed"
    BY <1>2 DEF Join, JoinMissing, PrintSolutions, made
  <2>5. ASSUME NEW u \in Threads, u < joined'
        PROVE  pc[u] \in {"done", "missing"}
    <3>1. u \in Int
      BY <2>1 DEF Threads, Columns
    <3>2. CASE u < joined
      BY <3>2 DEF CountInv
    <3>3. CASE ~(u < joined)
      <4>1. u = joined /\ joined' = joined + 1
        BY <2>1, <2>4, <2>5, <3>1, <3>3
      <4>2. QED BY <2>4, <4>1
    <3>4. QED BY <3>2, <3>3
  <2>6. (main = "printed" => joined = n)'
    BY <2>1, <2>4
  <2>7. QED BY <2>1, <2>3, <2>5, <2>6 DEF CountInv, total
<1>3. QED BY <1>1, <1>2 DEF MainStep

LEMMA CountStutter ==
  ASSUME CountInv, Inv, UNCHANGED vars
  PROVE  CountInv'
<1>1. UNCHANGED <<n, joined, main, config, next, pc, total>>
  BY DEF vars, made, search
<1>2. Done' = Done
  BY <1>1, DoneKept DEF Counted, Passed
<1>3. QED BY <1>1, <1>2, CountKept

LEMMA CountNext == CountInv /\ Inv /\ Inv' /\ [Next]_vars => CountInv'
<1> SUFFICES ASSUME CountInv, Inv, Inv', [Next]_vars PROVE CountInv'
  OBVIOUS
<1>1. ASSUME NEW t \in Threads, ThreadStep(t) PROVE CountInv'
  BY <1>1, CountPlace, CountLock, CountAdd, CountReturn DEF ThreadStep
<1>2. QED BY <1>1, CountMain, CountStutter DEF Next

(* The searches of nqueens() skip no solution, count none twice and lose    *)
(* none to another thread's increment, for every size and number of         *)
(* threads: count is the number of solutions left behind at every moment,   *)
(* and of all solutions when main prints it and every thread was created.   *)
THEOREM CountsEverySolution == Spec => []CountsEachSolutionOnce
<1>1. ASSUME CountInv, Inv PROVE CountsEachSolutionOnce
  <2>1. count = Cardinality(Done)
    BY <1>1 DEF CountInv
  <2>2. ASSUME main = "printed", At({"missing"}) = {} PROVE Done = Solutions[n]
    <3>1. \A t \in Threads : t < n
      BY <1>1, SizesAreNat DEF Inv, Threads
    <3>2. \A t \in Threads : pc[t] = "done"
      BY <1>1, <2>2, <3>1 DEF CountInv, At
    <3>3. ASSUME NEW q \in Solutions[n] PROVE Counted(q)
      BY <1>1, <3>2, ASolution DEF Counted, Passed
    <3>4. QED BY <3>3 DEF Done
  <2>3. QED BY <2>1, <2>2 DEF CountsEachSolutionOnce, Done, Counted
<1>2. Spec => []CountInv
  BY CountInit, CountNext, AlwaysInv, PTL DEF Spec
<1>3. QED BY <1>1, <1>2, AlwaysInv, PTL
-----------------------------------------------------------------------------
(* Assignment 1.                                                            *)

Identity == [p \in Positions |-> p]

(* The array as it was when each open call began, the first call's first:   *)
(* what a call has swapped lies at its own position and behind it.          *)
Chain(base) ==
  /\ base \in [1 .. left -> AllRoutes]
  /\ base[1] = Identity /\ base[left] = cities
  /\ \A j \in 1 .. Len(loops) : base[j + 1] = Swapped(base[j], j, loops[j])
  /\ \A j \in 1 .. left : \A p \in 1 .. j - 1 : base[j][p] = cities[p]

(* An open call has tried all routes that continue the cities before its    *)
(* position with one of those it has put there in earlier rounds.           *)
Behind(base, r) ==
  \E j \in 1 .. Len(loops) :
    /\ \A p \in 1 .. j - 1 : r[p] = cities[p]
    /\ \E m \in j .. loops[j] - 1 : r[j] = base[j][m]

(* The routes of the call that begins or has just returned. *)
Within(r) == \A p \in 1 .. Len(loops) : r[p] = cities[p]

RoutesTried(base) ==
  {r \in AllRoutes : Behind(base, r) \/ (stage # "call" /\ Within(r))}

RouteInv == \E base : Chain(base) /\ tried = RoutesTried(base)

LoopInv ==
  /\ loops \in Seq(Positions) /\ Len(loops) < Right
  /\ \A j \in 1 .. Len(loops) : loops[j] >= j
  /\ stage \in {"call", "child", "read", "return", "printed", "crashed"}
  /\ stage \in {"child", "read"} => left = Right
  /\ stage = "printed" => loops = <<>>

(* fork is called once for each route. *)
ForkInv == IsFiniteSet(tried) /\ forks = Cardinality(tried)

PermuteInv == RouteInv /\ LoopInv /\ ForkInv

-----------------------------------------------------------------------------
(* A route uses every city. *)
LEMMA RouteIsOnto ==
  ASSUME NEW r \in AllRoutes, NEW c \in Positions
  PROVE  \E p \in Positions : r[p] = c
<1> SUFFICES ASSUME \A p \in Positions : r[p] # c PROVE FALSE
  OBVIOUS
<1>1. r \in [Positions -> Positions \ {c}]
  BY DEF AllRoutes
<1>2. IsFiniteSet(Positions) /\ Cardinality(Positions) \in Nat
  BY RouteAssumption, FS_Interval, FS_CardinalityType DEF Positions
<1>3. /\ IsFiniteSet(Positions \ {c})
      /\ Cardinality(Positions \ {c}) = Cardinality(Positions) - 1
  BY <1>2, FS_RemoveElement
<1>4. Cardinality(Positions \ {c}) < Cardinality(Positions)
  BY <1>2, <1>3
<1>5. \E p, q \in Positions : p # q /\ r[p] = r[q]
  BY <1>1, <1>2, <1>3, <1>4, FS_PigeonHole
<1>6. QED BY <1>5 DEF AllRoutes

(* Swapping two cities of a route gives a route, twice the route itself. *)
LEMMA Swaps ==
  ASSUME NEW r \in AllRoutes, NEW p \in Positions, NEW q \in Positions
  PROVE  /\ Swapped(r, p, q) \in AllRoutes
         /\ Swapped(r, p, q)[p] = r[q]
         /\ Swapped(Swapped(r, p, q), p, q) = r
         /\ Swapped(r, p, p) = r
<1> DEFINE s == Swapped(r, p, q)
<1>1. r \in [Positions -> Positions]
      /\ \A x, y \in Positions : r[x] = r[y] => x = y
  BY DEF AllRoutes
<1>2. /\ s \in [Positions -> Positions]
      /\ \A x \in Positions :
            s[x] = IF x = q THEN r[p] ELSE IF x = p THEN r[q] ELSE r[x]
  BY <1>1 DEF Swapped
<1>3. s \in AllRoutes
  BY <1>1, <1>2 DEF AllRoutes
<1>4. s[p] = r[q]
  BY <1>2
<1>6. Swapped(s, p, q) = r
  <2> HIDE DEF s
  <2>1. Swapped(s, p, q) = [x \in Positions |->
           IF x = q THEN s[p] ELSE IF x = p THEN s[q] ELSE s[x]]
    BY <1>2 DEF Swapped
  <2>2. ASSUME NEW x \in Positions
        PROVE  (IF x = q THEN s[p] ELSE IF x = p THEN s[q] ELSE s[x]) = r[x]
    BY <1>2
  <2>3. r = [x \in Positions |-> r[x]]
    BY <1>1
  <2>4. QED BY <2>1, <2>2, <2>3
<1>7. Swapped(r, p, p) = r
  BY <1>1 DEF Swapped
<1>8. QED BY <1>3, <1>4, <1>6, <1>7

(* What lies before both positions stays where it is. *)
LEMMA SwapsBehind ==
  ASSUME NEW r \in AllRoutes, NEW p \in Positions, NEW q \in Positions,
         NEW x \in Positions, x < p, p <= q
  PROVE  Swapped(r, p, q)[x] = r[x]
<1>1. r \in [Positions -> Positions]
  BY DEF AllRoutes
<1>2. x # p /\ x # q
  BY RouteAssumption DEF Positions
<1>3. QED BY <1>1, <1>2 DEF Swapped

(* Routes that agree in all positions but the last are the same. *)
LEMMA LastCityIsGiven ==
  ASSUME NEW r \in AllRoutes, NEW s \in AllRoutes,
         \A p \in 1 .. Right - 1 : r[p] = s[p]
  PROVE  r = s
<1>1. /\ r \in [Positions -> Positions] /\ s \in [Positions -> Positions]
      /\ \A x, y \in Positions : r[x] = r[y] => x = y
      /\ \A x, y \in Positions : s[x] = s[y] => x = y
  BY DEF AllRoutes
<1>2. Right \in Positions /\ \A x \in Positions : x # Right => x \in 1 .. Right - 1
  BY RouteAssumption DEF Positions
<1>3. PICK p \in Positions : s[p] = r[Right]
  BY <1>1, <1>2, RouteIsOnto
<1>4. p = Right
  <2> SUFFICES ASSUME p # Right PROVE FALSE
    OBVIOUS
  <2>1. r[p] = s[p]
    BY <1>2
  <2>2. QED BY <1>1, <1>2, <1>3, <2>1
<1>5. \A x \in Positions : r[x] = s[x]
  BY <1>2, <1>3, <1>4
<1>6. QED BY <1>1, <1>5

LEMMA IdentityIsARoute == Identity \in AllRoutes
  BY DEF Identity, AllRoutes

(* What the loops say of the calls. *)
LEMMA LoopTypes ==
  ASSUME LoopInv
  PROVE  /\ Right \in Nat \ {0} /\ Positions = 1 .. Right /\ Positions \subseteq Nat
         /\ Len(loops) \in Nat /\ left \in Positions /\ left = Len(loops) + 1
         /\ \A j \in 1 .. Len(loops) : j \in Positions /\ loops[j] \in Positions
                                       /\ loops[j] >= j
  BY RouteAssumption DEF LoopInv, left, Positions

LEMMA ChainTypes ==
  ASSUME LoopInv, NEW base, Chain(base)
  PROVE  /\ cities \in AllRoutes
         /\ \A j \in 1 .. left : base[j] \in AllRoutes
  BY LoopTypes DEF Chain

-----------------------------------------------------------------------------
LEMMA PermuteInit == FlashInit => PermuteInv
<1> SUFFICES ASSUME FlashInit PROVE PermuteInv
  OBVIOUS
<1>1. loops = <<>> /\ stage = "call" /\ tried = {} /\ forks = 0 /\ cities = Identity
  BY DEF FlashInit, Identity
<1>2. Len(loops) = 0 /\ left = 1
  BY <1>1 DEF left
<1>3. LoopInv
  BY <1>1, <1>2, RouteAssumption DEF LoopInv
<1>4. RouteInv
  <2>0. PICK b : b = [j \in 1 .. 1 |-> Identity]
    OBVIOUS
  <2>1. Chain(b)
    BY <1>1, <1>2, <2>0, IdentityIsARoute DEF Chain
  <2>2. RoutesTried(b) = {}
    BY <1>1, <1>2 DEF RoutesTried, Behind
  <2>3. QED BY <1>1, <2>1, <2>2 DEF RouteInv
<1>5. ForkInv
  BY <1>1, FS_EmptySet DEF ForkInv
<1>6. QED BY <1>3, <1>4, <1>5 DEF PermuteInv

(* A step that leaves the calls and the routes alone. *)
LEMMA CallsKept ==
  ASSUME PermuteInv, UNCHANGED <<cities, loops, tried, forks>>,
         stage = "call" <=> stage' = "call",
         stage' \in {"call", "child", "read", "return", "printed", "crashed"},
         stage' \in {"child", "read"} => left = Right,
         stage' = "printed" => loops = <<>>
  PROVE  PermuteInv'
<1>1. LoopInv'
  BY DEF PermuteInv, LoopInv, left
<1>2. ForkInv'
  BY DEF PermuteInv, ForkInv
<1>3. RouteInv'
  <2>1. PICK base : Chain(base) /\ tried = RoutesTried(base)
    BY DEF PermuteInv, RouteInv
  <2>2. Chain(base)'
    BY <2>1 DEF Chain, left
  <2>3. RoutesTried(base)' = RoutesTried(base)
    BY DEF RoutesTried, Behind, Within
  <2>4. QED BY <2>1, <2>2, <2>3 DEF RouteInv
<1>4. QED BY <1>1, <1>2, <1>3 DEF PermuteInv

LEMMA DescendKeeps ==
  ASSUME PermuteInv, Descend
  PROVE  PermuteInv'
<1>1. LoopInv /\ RouteInv /\ ForkInv
  BY DEF PermuteInv
<1>2. /\ stage = "call" /\ left < Right /\ loops' = Append(loops, left)
      /\ cities' = cities /\ stage' = stage /\ tried' = tried /\ forks' = forks
  BY DEF Descend, history
<1>3. /\ Right \in Nat \ {0} /\ Positions = 1 .. Right
      /\ Len(loops) \in Nat /\ left \in Positions /\ left = Len(loops) + 1
      /\ loops \in Seq(Positions)
  BY <1>1, LoopTypes DEF LoopInv
<1>4. /\ loops' \in Seq(Positions) /\ Len(loops') = left /\ left' = left + 1
      /\ loops'[left] = left /\ \A j \in 1 .. Len(loops) : loops'[j] = loops[j]
  BY <1>2, <1>3 DEF left
<1>5. LoopInv'
  <2>1. ASSUME NEW j \in 1 .. left PROVE loops'[j] >= j
    <3>1. CASE j = left
      BY <1>3, <1>4, <3>1
    <3>2. CASE j # left
      <4>1. j \in 1 .. Len(loops)
        BY <1>3, <3>2
      <4>2. QED BY <1>1, <1>4, <4>1 DEF LoopInv
    <3>3. QED BY <3>1, <3>2
  <2>2. QED BY <1>2, <1>3, <1>4, <2>1 DEF LoopInv
<1>6. RouteInv'
  <2>1. PICK base : Chain(base) /\ tried = RoutesTried(base)
    BY <1>1 DEF RouteInv
  <2>0. PICK b : b = [j \in 1 .. left + 1 |-> IF j = left + 1 THEN cities ELSE base[j]]
    OBVIOUS
  <2>2. cities \in AllRoutes /\ \A j \in 1 .. left : base[j] \in AllRoutes
    BY <1>1, <2>1, ChainTypes
  <2>3. b[left + 1] = cities /\ \A j \in 1 .. left : b[j] = base[j]
    BY <1>3, <2>0
  <2>4. b \in [1 .. left + 1 -> AllRoutes]
    BY <1>3, <2>0, <2>2
  <2>5. base[left] = cities /\ base[1] = Identity
    BY <2>1 DEF Chain
  <2>6. Swapped(cities, left, left) = cities
    BY <1>3, <2>2, Swaps
  <2>7. ASSUME NEW j \in 1 .. left PROVE b[j + 1] = Swapped(b[j], j, loops'[j])
    <3>1. CASE j = left
      BY <1>4, <2>3, <2>5, <2>6, <3>1
    <3>2. CASE j # left
      <4>1. j \in 1 .. Len(loops) /\ j + 1 \in 1 .. left
        BY <1>3, <3>2
      <4>2. QED BY <1>4, <2>1, <2>3, <4>1 DEF Chain
    <3>3. QED BY <3>1, <3>2
  <2>8. ASSUME NEW j \in 1 .. left + 1, NEW p \in 1 .. j - 1
        PROVE  b[j][p] = cities[p]
    <3>1. CASE j = left + 1
      BY <2>3, <3>1
    <3>2. CASE j # left + 1
      <4>1. j \in 1 .. left
        BY <1>3, <3>2
      <4>2. QED BY <2>1, <2>3, <4>1 DEF Chain
    <3>3. QED BY <3>1, <3>2
  <2>9. Chain(b)'
    <3>1. b[1] = Identity
      BY <1>3, <2>3, <2>5
    <3>2. Identity' = Identity
      BY DEF Identity
    <3>3. QED BY <1>2, <1>4, <2>3, <2>4, <2>7, <2>8, <3>1, <3>2 DEF Chain
  <2>10. ASSUME NEW r \in AllRoutes PROVE Behind(b, r)' <=> Behind(base, r)
    <3>2. Behind(b, r)' => Behind(base, r)
      <4> SUFFICES ASSUME NEW j \in 1 .. left,
                          \A p \in 1 .. j - 1 : r[p] = cities[p],
                          NEW m \in j .. loops'[j] - 1, r[j] = b[j][m]
                   PROVE  Behind(base, r)
        BY <1>2, <1>4 DEF Behind
      <4>1. j # left
        BY <1>3, <1>4
      <4>2. j \in 1 .. Len(loops) /\ loops'[j] = loops[j] /\ b[j] = base[j]
        BY <1>3, <1>4, <2>3, <4>1
      <4>3. QED BY <4>2 DEF Behind
    <3>3. Behind(base, r) => Behind(b, r)'
      <4> SUFFICES ASSUME NEW j \in 1 .. Len(loops),
                          \A p \in 1 .. j - 1 : r[p] = cities[p],
                          NEW m \in j .. loops[j] - 1, r[j] = base[j][m]
                   PROVE  Behind(b, r)'
        BY DEF Behind
      <4>1. j \in 1 .. left /\ loops'[j] = loops[j] /\ b[j] = base[j]
        BY <1>3, <1>4, <2>3
      <4>2. QED BY <1>2, <1>4, <4>1 DEF Behind
    <3>4. QED BY <3>2, <3>3
  <2>11. RoutesTried(b)' = RoutesTried(base)
    BY <1>2, <2>10 DEF RoutesTried
  <2>12. QED BY <1>2, <2>1, <2>9, <2>11 DEF RouteInv
<1>7. ForkInv'
  BY <1>1, <1>2 DEF ForkInv
<1>8. QED BY <1>5, <1>6, <1>7 DEF PermuteInv

(* fork is called for a route that was not tried before. *)
LEMMA ForksKeep ==
  ASSUME PermuteInv, ForkFor, UNCHANGED <<cities, loops>>,
         stage' \in {"child", "return"}
  PROVE  PermuteInv'
<1>1. LoopInv /\ RouteInv /\ ForkInv
  BY DEF PermuteInv
<1>2. /\ stage = "call" /\ left = Right
      /\ tried' = tried \cup {cities} /\ forks' = forks + 1
  BY DEF ForkFor
<1>3. /\ Right \in Nat \ {0} /\ Positions = 1 .. Right
      /\ Len(loops) \in Nat /\ left = Len(loops) + 1
      /\ \A j \in 1 .. Len(loops) : j \in Positions /\ loops[j] \in Positions
                                    /\ loops[j] >= j
  BY <1>1, LoopTypes
<1>4. PICK base : Chain(base) /\ tried = RoutesTried(base)
  BY <1>1 DEF RouteInv
<1>5. cities \in AllRoutes /\ \A j \in 1 .. left : base[j] \in AllRoutes
  BY <1>1, <1>4, ChainTypes
<1>6. cities \notin tried
  <2> SUFFICES ASSUME NEW j \in 1 .. Len(loops), NEW m \in j .. loops[j] - 1,
                      cities[j] = base[j][m]
               PROVE  FALSE
    BY <1>2, <1>4 DEF RoutesTried, Behind
  <2>1. j \in 1 .. left /\ j + 1 \in 1 .. left /\ j \in 1 .. (j + 1) - 1
    BY <1>3
  <2>2. base[j + 1][j] = cities[j]
    BY <1>4, <2>1 DEF Chain
  <2>3. base[j + 1] = Swapped(base[j], j, loops[j])
    BY <1>4 DEF Chain
  <2>a. base[j] \in AllRoutes /\ j \in Positions /\ loops[j] \in Positions
    BY <1>3, <1>5, <2>1
  <2>b. Swapped(base[j], j, loops[j])[j] = base[j][loops[j]]
    BY <2>a, Swaps
  <2>4. base[j + 1][j] = base[j][loops[j]]
    BY <2>3, <2>b
  <2>5. m \in Positions /\ loops[j] \in Positions /\ m # loops[j]
    BY <1>3
  <2>6. QED BY <1>5, <2>1, <2>2, <2>4, <2>5 DEF AllRoutes
<1>7. ForkInv'
  BY <1>1, <1>2, <1>6, FS_AddElement DEF ForkInv
<1>8. LoopInv'
  BY <1>1, <1>2 DEF LoopInv, left
<1>9. RouteInv'
  <2>1. Chain(base)'
    BY <1>4 DEF Chain, left
  <2>2. \A r : Behind(base, r)' <=> Behind(base, r)
    BY DEF Behind
  <2>3. ASSUME NEW r \in AllRoutes PROVE Within(r)' <=> r = cities
    <3>1. 1 .. Len(loops) = 1 .. Right - 1
      BY <1>2, <1>3
    <3>2. Within(r)' <=> Within(r)
      BY DEF Within
    <3>3. Within(r) => r = cities
      BY <1>5, <3>1, LastCityIsGiven DEF Within
    <3>4. QED BY <3>2, <3>3 DEF Within
  <2>4. RoutesTried(base)' = RoutesTried(base) \cup {cities}
    BY <1>2, <1>5, <2>2, <2>3 DEF RoutesTried
  <2>5. QED BY <1>2, <1>4, <2>1, <2>4 DEF RouteInv
<1>10. QED BY <1>7, <1>8, <1>9 DEF PermuteInv

(* Undoing the swap of the innermost call gives the array its call began    *)
(* with.                                                                    *)
LEMMA Restores ==
  ASSUME LoopInv, loops # <<>>, NEW base, Chain(base)
  PROVE  /\ Len(loops) \in 1 .. Right - 1
         /\ base[Len(loops)] \in AllRoutes
         /\ Swapped(cities, Len(loops), loops[Len(loops)]) = base[Len(loops)]
         /\ cities[Len(loops)] = base[Len(loops)][loops[Len(loops)]]
         /\ \A p \in 1 .. Len(loops) - 1 : base[Len(loops)][p] = cities[p]
<1> DEFINE k == Len(loops)
<1>1. /\ Right \in Nat \ {0} /\ Positions = 1 .. Right
      /\ Len(loops) \in Nat /\ left = Len(loops) + 1
      /\ \A j \in 1 .. Len(loops) : j \in Positions /\ loops[j] \in Positions
                                    /\ loops[j] >= j
  BY LoopTypes
<1>2. loops \in Seq(Positions) /\ Len(loops) < Right
  BY DEF LoopInv
<1>3. k # 0
  BY <1>2
<1>4. k \in 1 .. Right - 1 /\ k \in 1 .. Len(loops) /\ k \in 1 .. left /\ k + 1 = left
  BY <1>1, <1>2, <1>3
<1>5. base[k] \in AllRoutes /\ k \in Positions /\ loops[k] \in Positions
  BY <1>1, <1>4, ChainTypes
<1>6. cities = Swapped(base[k], k, loops[k])
  BY <1>4 DEF Chain
<1>7. Swapped(cities, k, loops[k]) = base[k] /\ cities[k] = base[k][loops[k]]
  BY <1>5, <1>6, Swaps
<1>8. \A p \in 1 .. k - 1 : base[k][p] = cities[p]
  BY <1>4 DEF Chain
<1>9. QED BY <1>4, <1>5, <1>7, <1>8

(* The next round of the innermost call. *)
LEMMA NextRoundKeeps ==
  ASSUME PermuteInv, Loop, loops[Len(loops)] < Right
  PROVE  PermuteInv'
<1> DEFINE k == Len(loops)
<1>1. LoopInv /\ RouteInv /\ ForkInv
  BY DEF PermuteInv
<1>2. PICK base : Chain(base) /\ tried = RoutesTried(base)
  BY <1>1 DEF RouteInv
<1>3. /\ stage = "return" /\ loops # <<>> /\ stage' = "call"
      /\ loops' = [loops EXCEPT ![k] = @ + 1]
      /\ cities' = Swapped(Swapped(cities, k, loops[k]), k, loops[k] + 1)
      /\ tried' = tried /\ forks' = forks
  BY DEF Loop, history
<1>4. /\ Right \in Nat \ {0} /\ Positions = 1 .. Right
      /\ k \in Nat /\ left = k + 1 /\ loops \in Seq(Positions)
      /\ \A j \in 1 .. k : j \in Positions /\ loops[j] \in Positions /\ loops[j] >= j
  BY <1>1, LoopTypes DEF LoopInv
<1>5. /\ k \in 1 .. Right - 1 /\ base[k] \in AllRoutes
      /\ Swapped(cities, k, loops[k]) = base[k]
      /\ cities[k] = base[k][loops[k]]
      /\ \A p \in 1 .. k - 1 : base[k][p] = cities[p]
  BY <1>1, <1>2, <1>3, Restores
<1>6. cities' = Swapped(base[k], k, loops[k] + 1)
  BY <1>3, <1>5
<1>7. loops[k] + 1 \in Positions /\ k \in Positions /\ k <= loops[k] + 1
      /\ k \in 1 .. k
  BY <1>4, <1>5
<1>8. /\ cities' \in AllRoutes
      /\ \A p \in 1 .. k - 1 : cities'[p] = cities[p]
  <2>1. cities' \in AllRoutes
    BY <1>5, <1>6, <1>7, Swaps
  <2>2. ASSUME NEW p \in 1 .. k - 1 PROVE cities'[p] = cities[p]
    <3>1. p \in Positions /\ p < k
      BY <1>4, <1>5
    <3>2. Swapped(base[k], k, loops[k] + 1)[p] = base[k][p]
      BY <1>5, <1>7, <3>1, SwapsBehind
    <3>3. QED BY <1>5, <1>6, <3>2
  <2>3. QED BY <2>1, <2>2
<1>9. /\ loops' \in Seq(Positions) /\ Len(loops') = k /\ left' = left
      /\ loops'[k] = loops[k] + 1 /\ \A j \in 1 .. k - 1 : loops'[j] = loops[j]
  BY <1>3, <1>4, <1>7 DEF left
<1>10. LoopInv'
  <2>1. ASSUME NEW j \in 1 .. k PROVE loops'[j] >= j
    <3>1. CASE j = k
      BY <1>4, <1>5, <1>9, <3>1
    <3>2. CASE j # k
      <4>1. j \in 1 .. k - 1
        BY <1>4, <3>2
      <4>2. QED BY <1>4, <1>9, <4>1
    <3>3. QED BY <3>1, <3>2
  <2>2. QED BY <1>1, <1>3, <1>9, <2>1 DEF LoopInv
<1>11. RouteInv'
  <2>0. PICK b : b = [j \in 1 .. left |-> IF j = left THEN cities' ELSE base[j]]
    OBVIOUS
  <2>1. \A j \in 1 .. left : base[j] \in AllRoutes
    BY <1>1, <1>2, ChainTypes
  <2>2. /\ b \in [1 .. left -> AllRoutes] /\ b[left] = cities'
        /\ \A j \in 1 .. k : b[j] = base[j]
    BY <1>4, <1>8, <2>0, <2>1
  <2>3. ASSUME NEW j \in 1 .. k PROVE b[j + 1] = Swapped(b[j], j, loops'[j])
    <3>1. CASE j = k
      BY <1>4, <1>6, <1>7, <1>9, <2>2, <3>1
    <3>2. CASE j # k
      <4>1. j \in 1 .. k - 1 /\ j + 1 \in 1 .. k
        BY <1>4, <3>2
      <4>2. QED BY <1>2, <1>9, <2>2, <4>1 DEF Chain
    <3>3. QED BY <3>1, <3>2
  <2>4. ASSUME NEW j \in 1 .. left, NEW p \in 1 .. j - 1
        PROVE  b[j][p] = cities'[p]
    <3>1. CASE j = left
      BY <2>2, <3>1
    <3>2. CASE j # left
      <4>1. j \in 1 .. k /\ p \in 1 .. k - 1
        BY <1>4, <3>2
      <4>2. QED BY <1>2, <1>8, <2>2, <4>1 DEF Chain
    <3>3. QED BY <3>1, <3>2
  <2>5. Chain(b)'
    <3>1. b[1] = Identity /\ Identity' = Identity
      BY <1>2, <1>4, <1>5, <2>2 DEF Chain, Identity
    <3>2. QED BY <1>9, <2>2, <2>3, <2>4, <3>1 DEF Chain
  <2>6. ASSUME NEW r \in AllRoutes
        PROVE  Behind(b, r)' <=> Behind(base, r) \/ Within(r)
    <3>1. ASSUME NEW j \in 1 .. k, \A p \in 1 .. j - 1 : r[p] = cities'[p],
                 NEW m \in j .. loops'[j] - 1, r[j] = b[j][m]
          PROVE  Behind(base, r) \/ Within(r)
      <4>1. r[j] = base[j][m] /\ \A p \in 1 .. j - 1 : r[p] = cities[p]
        <5>1. \A p \in 1 .. j - 1 : p \in 1 .. k - 1
          BY <1>4
        <5>2. QED BY <1>8, <2>2, <3>1, <5>1
      <4>2. CASE m \in j .. loops[j] - 1
        BY <4>1, <4>2 DEF Behind
      <4>3. CASE m \notin j .. loops[j] - 1
        <5>1. j = k /\ m = loops[k]
          <6>1. CASE j = k
            BY <1>4, <1>9, <4>3, <6>1
          <6>2. CASE j # k
            <7>1. j \in 1 .. k - 1
              BY <1>4, <6>2
            <7>2. QED BY <1>9, <4>3, <7>1
          <6>3. QED BY <6>1, <6>2
        <5>2. r[k] = cities[k] /\ \A p \in 1 .. k - 1 : r[p] = cities[p]
          BY <1>5, <4>1, <5>1
        <5>3. \A p \in 1 .. k : p = k \/ p \in 1 .. k - 1
          BY <1>4
        <5>4. QED BY <5>2, <5>3 DEF Within
      <4>4. QED BY <4>2, <4>3
    <3>2. ASSUME NEW j \in 1 .. k, \A p \in 1 .. j - 1 : r[p] = cities[p],
                 NEW m \in j .. loops[j] - 1, r[j] = base[j][m]
          PROVE  Behind(b, r)'
      <4>1. m \in j .. loops'[j] - 1
        <5>1. CASE j = k
          BY <1>4, <1>9, <5>1
        <5>2. CASE j # k
          <6>1. j \in 1 .. k - 1
            BY <1>4, <5>2
          <6>2. QED BY <1>9, <6>1
        <5>3. QED BY <5>1, <5>2
      <4>2. \A p \in 1 .. j - 1 : r[p] = cities'[p]
        <5>1. \A p \in 1 .. j - 1 : p \in 1 .. k - 1
          BY <1>4
        <5>2. QED BY <1>8, <3>2, <5>1
      <4>3. b[j] = base[j]
        BY <2>2
      <4>4. QED BY <1>9, <3>2, <4>1, <4>2, <4>3 DEF Behind
    <3>3. ASSUME Within(r) PROVE Behind(b, r)'
      <4>1. \A p \in 1 .. k - 1 : p \in 1 .. k
        BY <1>4
      <4>2. \A p \in 1 .. k - 1 : r[p] = cities'[p]
        BY <1>8, <3>3, <4>1 DEF Within
      <4>3. r[k] = base[k][loops[k]]
        BY <1>5, <1>7, <3>3 DEF Within
      <4>4. loops[k] \in k .. loops'[k] - 1
        BY <1>4, <1>7, <1>9
      <4>5. QED BY <1>7, <1>9, <2>2, <4>2, <4>3, <4>4 DEF Behind
    <3>4. Behind(b, r)' => Behind(base, r) \/ Within(r)
      BY <1>9, <3>1 DEF Behind
    <3>5. Behind(base, r) => Behind(b, r)'
      BY <3>2 DEF Behind
    <3>6. QED BY <3>3, <3>4, <3>5
  <2>7. RoutesTried(b)' = RoutesTried(base)
    BY <1>3, <2>6 DEF RoutesTried
  <2>8. QED BY <1>2, <1>3, <2>5, <2>7 DEF RouteInv
<1>12. ForkInv'
  BY <1>1, <1>3 DEF ForkInv
<1>13. QED BY <1>10, <1>11, <1>12 DEF PermuteInv

(* The innermost call has gone through its loop, and returns. *)
LEMMA LastRoundKeeps ==
  ASSUME PermuteInv, Loop, ~(loops[Len(loops)] < Right)
  PROVE  PermuteInv'
<1> DEFINE k == Len(loops)
<1>1. LoopInv /\ RouteInv /\ ForkInv
  BY DEF PermuteInv
<1>2. PICK base : Chain(base) /\ tried = RoutesTried(base)
  BY <1>1 DEF RouteInv
<1>3. /\ stage = "return" /\ loops # <<>> /\ stage' = stage
      /\ loops' = SubSeq(loops, 1, k - 1)
      /\ cities' = Swapped(cities, k, loops[k])
      /\ tried' = tried /\ forks' = forks
  BY DEF Loop, history
<1>4. /\ Right \in Nat \ {0} /\ Positions = 1 .. Right
      /\ k \in Nat /\ left = k + 1 /\ loops \in Seq(Positions)
      /\ \A j \in 1 .. k : j \in Positions /\ loops[j] \in Positions /\ loops[j] >= j
  BY <1>1, LoopTypes DEF LoopInv
<1>5. /\ k \in 1 .. Right - 1 /\ base[k] \in AllRoutes
      /\ cities' = base[k]
      /\ cities[k] = base[k][loops[k]]
      /\ \A p \in 1 .. k - 1 : base[k][p] = cities[p]
  BY <1>1, <1>2, <1>3, Restores
<1>6. loops[k] = Right /\ k \in 1 .. k
  BY <1>4, <1>5
<1>7. /\ loops' \in Seq(Positions) /\ Len(loops') = k - 1 /\ left' = k
      /\ \A j \in 1 .. k - 1 : loops'[j] = loops[j]
  <2> HIDE DEF k
  <2>0. k = Len(loops) /\ k - 1 \in 0 .. Len(loops) /\ k - 1 \in Nat
    BY <1>4, <1>5 DEF k
  <2>1. /\ SubSeq(loops, 1, k - 1) \in Seq(Positions)
        /\ Len(SubSeq(loops, 1, k - 1)) = k - 1
        /\ \A j \in 1 .. k - 1 : SubSeq(loops, 1, k - 1)[j] = loops[j]
    BY <1>4, <2>0
  <2>2. loops' = SubSeq(loops, 1, k - 1)
    BY <1>3 DEF k
  <2>3. left' = Len(loops') + 1
    BY DEF left
  <2>4. Len(loops') + 1 = k
    BY <2>0, <2>1, <2>2
  <2>5. QED BY <2>1, <2>2, <2>3, <2>4
<1>8. LoopInv'
  <2>1. ASSUME NEW j \in 1 .. k - 1 PROVE loops'[j] >= j
    <3>1. j \in 1 .. k
      BY <1>4
    <3>2. QED BY <1>4, <1>7, <3>1
  <2>2. k - 1 < Right
    BY <1>4, <1>5
  <2>3. QED BY <1>1, <1>3, <1>7, <2>1, <2>2 DEF LoopInv
<1>9. RouteInv'
  <2>0. PICK b : b = [j \in 1 .. k |-> base[j]]
    OBVIOUS
  <2>1. \A j \in 1 .. k : j \in 1 .. left
    BY <1>4
  <2>2. b \in [1 .. k -> AllRoutes] /\ \A j \in 1 .. k : b[j] = base[j]
    BY <1>1, <1>2, <2>0, <2>1, ChainTypes
  <2>3. ASSUME NEW j \in 1 .. k - 1 PROVE b[j + 1] = Swapped(b[j], j, loops'[j])
    <3>1. j \in 1 .. k /\ j + 1 \in 1 .. k
      BY <1>4
    <3>2. QED BY <1>2, <1>7, <2>2, <3>1 DEF Chain
  <2>4. ASSUME NEW j \in 1 .. k, NEW p \in 1 .. j - 1
        PROVE  b[j][p] = cities'[p]
    <3>1. p \in 1 .. k - 1 /\ j \in 1 .. left
      BY <1>4
    <3>2. QED BY <1>2, <1>5, <2>2, <3>1 DEF Chain
  <2>5. Chain(b)'
    <3>1. b[1] = Identity /\ Identity' = Identity
      BY <1>2, <1>5, <2>2 DEF Chain, Identity
    <3>2. b[k] = cities'
      BY <1>5, <1>6, <2>2
    <3>3. QED BY <1>7, <2>2, <2>3, <2>4, <3>1, <3>2 DEF Chain
  <2>6. ASSUME NEW r \in AllRoutes
        PROVE  Behind(b, r)' \/ Within(r)' <=> Behind(base, r) \/ Within(r)
    <3>0. ASSUME NEW j \in 1 .. k, NEW p \in 1 .. j - 1 PROVE cities'[p] = cities[p]
      <4>1. p \in 1 .. k - 1
        BY <1>4
      <4>2. QED BY <1>5, <4>1
    <3>1. ASSUME NEW j \in 1 .. k - 1
          PROVE  /\ j \in 1 .. k /\ loops'[j] = loops[j] /\ b[j] = base[j]
      <4>1. j \in 1 .. k
        BY <1>4
      <4>2. QED BY <1>7, <2>2, <4>1
    <3>2. Behind(b, r)' => Behind(base, r)
      <4> SUFFICES ASSUME NEW j \in 1 .. k - 1,
                          \A p \in 1 .. j - 1 : r[p] = cities'[p],
                          NEW m \in j .. loops'[j] - 1, r[j] = b[j][m]
                   PROVE  Behind(base, r)
        BY <1>7 DEF Behind
      <4>1. j \in 1 .. k /\ loops'[j] = loops[j] /\ b[j] = base[j]
        BY <3>1
      <4>2. \A p \in 1 .. j - 1 : r[p] = cities[p]
        BY <3>0, <4>1
      <4>3. QED BY <4>1, <4>2 DEF Behind
    <3>3. Within(r) => Within(r)'
      <4>1. ASSUME NEW p \in 1 .. k - 1 PROVE p \in 1 .. k /\ cities'[p] = cities[p]
        <5>1. p \in 1 .. k
          BY <1>4
        <5>2. QED BY <1>5, <5>1
      <4>2. QED BY <1>7, <4>1 DEF Within
    <3>4. ASSUME NEW j \in 1 .. k, \A p \in 1 .. j - 1 : r[p] = cities[p],
                 NEW m \in j .. loops[j] - 1, r[j] = base[j][m]
          PROVE  Behind(b, r)' \/ Within(r)'
      <4>1. CASE j = k
        <5>1. \A p \in 1 .. k - 1 : r[p] = cities'[p]
          BY <1>5, <3>4, <4>1
        <5>2. QED BY <1>7, <5>1 DEF Within
      <4>2. CASE j # k
        <5>1. j \in 1 .. k - 1
          BY <1>4, <4>2
        <5>2. loops'[j] = loops[j] /\ b[j] = base[j]
          BY <3>1, <5>1
        <5>3. \A p \in 1 .. j - 1 : r[p] = cities'[p]
          BY <3>0, <3>4
        <5>4. QED BY <1>7, <3>4, <5>1, <5>2, <5>3 DEF Behind
      <4>3. QED BY <4>1, <4>2
    <3>5. ASSUME Within(r)' PROVE Behind(base, r) \/ Within(r)
      <4>1. \A p \in 1 .. k - 1 : r[p] = base[k][p] /\ r[p] = cities[p]
        BY <1>5, <1>7, <3>5 DEF Within
      <4>2. k \in Positions /\ r[k] \in Positions
        BY <1>4, <1>5 DEF AllRoutes
      <4>3. PICK m \in Positions : base[k][m] = r[k]
        BY <1>5, <4>2, RouteIsOnto
      <4>4. m \in k .. Right
        <5> SUFFICES ASSUME m \notin k .. Right PROVE FALSE
          OBVIOUS
        <5>1. m \in 1 .. k - 1
          BY <1>4, <1>5
        <5>2. r[m] = r[k]
          BY <4>1, <4>3, <5>1
        <5>3. m # k
          BY <1>4, <5>1
        <5>4. QED BY <4>2, <5>2, <5>3 DEF AllRoutes
      <4>5. CASE m = Right
        <5>1. r[k] = cities[k]
          BY <1>5, <1>6, <4>3, <4>5
        <5>2. \A p \in 1 .. k : p = k \/ p \in 1 .. k - 1
          BY <1>4
        <5>3. QED BY <4>1, <5>1, <5>2 DEF Within
      <4>6. CASE m # Right
        <5>1. m \in k .. loops[k] - 1
          BY <1>4, <1>6, <4>4, <4>6
        <5>2. QED BY <1>6, <4>1, <4>3, <5>1 DEF Behind
      <4>7. QED BY <4>5, <4>6
    <3>6. Behind(base, r) => Behind(b, r)' \/ Within(r)'
      BY <3>4 DEF Behind
    <3>7. QED BY <3>2, <3>3, <3>5, <3>6
  <2>7. RoutesTried(b)' = RoutesTried(base)
    BY <1>3, <2>6 DEF RoutesTried
  <2>8. QED BY <1>2, <1>3, <2>5, <2>7 DEF RouteInv
<1>10. ForkInv'
  BY <1>1, <1>3 DEF ForkInv
<1>11. QED BY <1>8, <1>9, <1>10 DEF PermuteInv

LEMMA PermuteStep == PermuteInv /\ [FlashNext]_flash_vars => PermuteInv'
<1> SUFFICES ASSUME PermuteInv, [FlashNext]_flash_vars PROVE PermuteInv'
  OBVIOUS
<1>1. LoopInv
  BY DEF PermuteInv
<1>2. CASE UNCHANGED flash_vars
  BY <1>1, <1>2, CallsKept DEF flash_vars, history, LoopInv
<1>3. CASE Descend
  BY <1>3, DescendKeeps
<1>4. CASE Fork \/ ForkFails
  BY <1>4, ForksKeep DEF Fork, ForkFails
<1>5. CASE ChildWrites \/ ChildDies \/ ReadResult \/ ReadFails \/ PrintBest
  <2>1. UNCHANGED <<cities, loops, tried, forks>> /\ stage # "call"
    BY <1>5 DEF ChildWrites, ChildDies, ReadResult, ReadFails, PrintBest, history
  <2>2. stage' \in {"read", "return", "printed", "crashed"}
    BY <1>5 DEF ChildWrites, ChildDies, ReadResult, ReadFails, PrintBest
  <2>3. stage' = "read" => stage = "child"
    BY <1>5 DEF ChildWrites, ChildDies, ReadResult, ReadFails, PrintBest
  <2>4. stage' = "printed" => loops = <<>>
    BY <1>5 DEF ChildWrites, ChildDies, ReadResult, ReadFails, PrintBest
  <2>5. stage' \in {"child", "read"} => left = Right
    BY <1>1, <2>2, <2>3 DEF LoopInv
  <2>6. QED BY <2>1, <2>2, <2>4, <2>5, CallsKept
<1>6. CASE Loop
  BY <1>6, NextRoundKeeps, LastRoundKeeps
<1>7. QED BY <1>2, <1>3, <1>4, <1>5, <1>6 DEF FlashNext

LEMMA PermuteAlways == FlashSpec => []PermuteInv
  BY PermuteInit, PermuteStep, PTL DEF FlashSpec

(* permute gives every order of the cities to fork exactly once, for any    *)
(* number of cities, and leaves the array as it was.                        *)
THEOREM EveryRouteOnce == FlashSpec => []TriesEveryRouteOnce
<1>1. ASSUME PermuteInv PROVE TriesEveryRouteOnce
  <2>1. LoopInv /\ RouteInv /\ ForkInv
    BY <1>1 DEF PermuteInv
  <2>2. PICK base : Chain(base) /\ tried = RoutesTried(base)
    BY <2>1 DEF RouteInv
  <2>3. cities \in AllRoutes
    BY <2>1, <2>2, ChainTypes
  <2>4. ASSUME stage = "printed"
        PROVE  tried = AllRoutes /\ cities = [p \in Positions |-> p]
    <3>1. Len(loops) = 0 /\ left = 1
      BY <2>1, <2>4 DEF LoopInv, left
    <3>2. cities = Identity
      BY <2>2, <3>1 DEF Chain
    <3>3. \A r \in AllRoutes : Within(r)
      BY <3>1 DEF Within
    <3>4. QED BY <2>2, <2>4, <3>2, <3>3 DEF RoutesTried, Identity
  <2>5. QED BY <2>1, <2>3, <2>4 DEF ForkInv, TriesEveryRouteOnce
<1>2. QED BY <1>1, PermuteAlways, PTL

-----------------------------------------------------------------------------
(* The best route, and the file.                                            *)

NoRoute == [total_dist |-> NoDistance, cities |-> [p \in Positions |-> 0]]

(* best is no worse than any route a child has written, but for the one     *)
(* that the file holds and the parent is about to read; a route that no     *)
(* child wrote is one for which something failed.                           *)
BestInv ==
  /\ \/ best = NoRoute
     \/ \E r \in AllRoutes : best = Result(r)
  /\ file \in {NoFile, NoResult} \cup {Result(r) : r \in AllRoutes}
  /\ written \subseteq AllRoutes
  /\ \A r \in written : \/ best.total_dist <= Distance(r)
                        \/ stage = "read" /\ file = Result(r)
  /\ deaths \in Nat
  /\ deaths = 0 => tried = written \cup (IF stage = "child" THEN {cities} ELSE {})

LEMMA NoDistanceIsNat == NoDistance \in Nat
  BY DEF NoDistance

LEMMA BestInit == FlashInit => BestInv
  BY RouteAssumption DEF FlashInit, BestInv, NoRoute

LEMMA ResultFields ==
  ASSUME NEW r \in AllRoutes
  PROVE  /\ Result(r).total_dist = Distance(r) /\ Result(r).cities = r
         /\ Distance(r) \in Nat
         /\ Result(r) # NoFile /\ Result(r) # NoResult
  BY RouteAssumption, DistanceAssumption DEF Result

(* No route is written while none is read: nothing is left to be compared.  *)
LEMMA BestKept ==
  ASSUME BestInv, UNCHANGED <<best, written>>,
         file' \in {file, NoResult},
         stage = "read" => stage' = "read" /\ file' = file,
         deaths' \in Nat,
         deaths' = 0 =>
           /\ deaths = 0
           /\ tried' = written \cup (IF stage' = "child" THEN {cities'} ELSE {})
  PROVE  BestInv'
  BY DEF BestInv

LEMMA BestStep == BestInv /\ PermuteInv /\ [FlashNext]_flash_vars => BestInv'
<1> SUFFICES ASSUME BestInv, PermuteInv, [FlashNext]_flash_vars PROVE BestInv'
  OBVIOUS
<1>a. deaths \in Nat /\ written \subseteq AllRoutes
      /\ file \in {NoFile, NoResult} \cup {Result(r) : r \in AllRoutes}
  BY DEF BestInv
<1>b. cities \in AllRoutes
  BY ChainTypes DEF PermuteInv, RouteInv
<1>c. NoRoute' = NoRoute
  BY DEF NoRoute, Positions
<1>1. CASE UNCHANGED flash_vars
  BY <1>1 DEF BestInv, flash_vars, history
<1>2. CASE Descend \/ Loop \/ PrintBest
  <2>1. /\ UNCHANGED <<best, written, file, deaths, tried>>
        /\ stage \notin {"child", "read"} /\ stage' \notin {"child", "read"}
    BY <1>2 DEF Descend, Loop, PrintBest, history
  <2>2. QED BY <1>a, <2>1, BestKept DEF BestInv
<1>3. CASE Fork
  <2>1. /\ UNCHANGED <<best, written, file, deaths, cities>>
        /\ stage = "call" /\ stage' = "child" /\ tried' = tried \cup {cities}
    BY <1>3 DEF Fork, ForkFor
  <2>2. QED BY <1>a, <2>1, BestKept DEF BestInv
<1>4. CASE ForkFails
  <2>1. /\ UNCHANGED <<best, written, file>> /\ deaths' = deaths + 1
        /\ stage = "call" /\ stage' = "return"
    BY <1>4 DEF ForkFails, ForkFor, Dies
  <2>2. deaths' \in Nat /\ deaths' # 0
    BY <1>a, <2>1
  <2>3. QED BY <2>1, <2>2, BestKept
<1>5. CASE ChildDies
  <2>1. /\ UNCHANGED <<best, written>> /\ deaths' = deaths + 1
        /\ stage = "child" /\ file' \in {file, NoResult}
    BY <1>5 DEF ChildDies, history, Dies
  <2>2. deaths' \in Nat /\ deaths' # 0
    BY <1>a, <2>1
  <2>3. QED BY <2>1, <2>2, BestKept
<1>6. CASE ChildWrites
  <2>1. /\ UNCHANGED <<best, deaths, tried, cities>>
        /\ stage = "child" /\ stage' = "read"
        /\ file' = Result(cities) /\ written' = written \cup {cities}
    BY <1>6 DEF ChildWrites
  <2>2. file' \in {NoFile, NoResult} \cup {Result(r) : r \in AllRoutes}
    BY <1>b, <2>1
  <2>3. \A r \in written' : \/ best'.total_dist <= Distance(r)
                            \/ stage' = "read" /\ file' = Result(r)
    BY <2>1 DEF BestInv
  <2>4. deaths' = 0 => tried' = written' \cup (IF stage' = "child" THEN {cities'} ELSE {})
    BY <2>1 DEF BestInv
  <2>5. (\E r \in AllRoutes : best' = Result(r)) \/ best' = NoRoute
    BY <2>1 DEF BestInv
  <2>6. written' \subseteq AllRoutes
    BY <1>a, <1>b, <2>1
  <2>7. QED BY <1>a, <2>1, <2>2, <2>3, <2>4, <2>5, <2>6, <1>c DEF BestInv
<1>7. CASE ReadResult
  <2>1. /\ UNCHANGED <<file, deaths, tried, written>> /\ file \notin {NoFile, NoResult}
        /\ stage = "read" /\ stage' = "return"
        /\ best' = IF file.total_dist < best.total_dist THEN file ELSE best
    BY <1>7 DEF ReadResult, history
  <2>2. PICK f \in AllRoutes : file = Result(f)
    BY <1>a, <2>1
  <2>3. file.total_dist = Distance(f) /\ Distance(f) \in Int
    BY <2>2, ResultFields
  <2>4. best.total_dist \in Int
    <3>1. CASE best = NoRoute
      BY <3>1, NoDistanceIsNat DEF NoRoute
    <3>2. ASSUME NEW r \in AllRoutes, best = Result(r) PROVE best.total_dist \in Int
      BY <3>2, ResultFields
    <3>3. QED BY <3>1, <3>2 DEF BestInv
  <2>5. (\E r \in AllRoutes : best' = Result(r)) \/ best' = NoRoute
    BY <2>1, <2>2 DEF BestInv
  <2>6. best'.total_dist <= best.total_dist /\ best'.total_dist <= Distance(f)
        /\ best'.total_dist \in Int
    BY <2>1, <2>3, <2>4
  <2>7. ASSUME NEW r \in written PROVE best'.total_dist <= Distance(r)
    <3>1. Distance(r) \in Int
      BY <1>a, ResultFields
    <3>2. CASE best.total_dist <= Distance(r)
      BY <2>4, <2>6, <3>1, <3>2
    <3>3. CASE file = Result(r)
      <4>1. Distance(r) = Distance(f)
        BY <1>a, <2>3, <3>3, ResultFields
      <4>2. QED BY <2>6, <4>1
    <3>4. QED BY <3>2, <3>3 DEF BestInv
  <2>8. deaths' = 0 => tried' = written' \cup (IF stage' = "child" THEN {cities'} ELSE {})
    BY <2>1 DEF BestInv
  <2>9. QED BY <1>a, <2>1, <2>5, <2>7, <2>8, <1>c DEF BestInv
<1>8. CASE ReadFails
  <2>1. /\ UNCHANGED <<best, file, deaths, tried, written>> /\ file \in {NoFile, NoResult}
        /\ stage = "read" /\ stage' \in {"crashed", "return"}
    BY <1>8 DEF ReadFails, history
  <2>2. ASSUME NEW r \in written PROVE best.total_dist <= Distance(r)
    <3>1. file # Result(r)
      BY <1>a, <2>1, ResultFields
    <3>2. QED BY <3>1 DEF BestInv
  <2>3. QED BY <2>1, <2>2, <1>c DEF BestInv
<1>9. QED BY <1>1, <1>2, <1>3, <1>4, <1>5, <1>6, <1>7, <1>8 DEF FlashNext

(* The parent may read a result that is old, or a route's that has failed:  *)
(* best stays a route with its own length, no longer than any that was      *)
(* written and read; when nothing fails it is a shortest route at the end.  *)
THEOREM OldResultsDoNoHarm == FlashSpec => []StaleResultIsHarmless
<1>1. ASSUME BestInv, TriesEveryRouteOnce PROVE StaleResultIsHarmless
  <2>1. NoRoute.cities \notin AllRoutes /\ NoRoute.total_dist = NoDistance
    <3>1. NoRoute.cities[1] = 0 /\ 1 \in Positions /\ 0 \notin Positions
      BY RouteAssumption DEF NoRoute, Positions
    <3>2. NoRoute.cities \notin AllRoutes
      BY <3>1 DEF AllRoutes
    <3>3. QED BY <3>2 DEF NoRoute
  <2>2. \/ best = NoRoute
        \/ /\ best.cities \in AllRoutes
           /\ best.total_dist = Distance(best.cities)
    <3>1. ASSUME NEW r \in AllRoutes, best = Result(r)
          PROVE  best.cities \in AllRoutes /\ best.total_dist = Distance(best.cities)
      BY <3>1, ResultFields
    <3>2. QED BY <1>1, <3>1 DEF BestInv
  <2>3. stage # "read" => \A r \in written : best.total_dist <= Distance(r)
    BY <1>1 DEF BestInv
  <2>4. ASSUME stage = "printed", deaths = 0
        PROVE  /\ best.cities \in AllRoutes
               /\ \A r \in AllRoutes : best.total_dist <= Distance(r)
    <3>1. written = AllRoutes
      BY <1>1, <2>4 DEF BestInv, TriesEveryRouteOnce
    <3>2. \A r \in AllRoutes : best.total_dist <= Distance(r)
      BY <2>3, <2>4, <3>1
    <3>3. Distance(Identity) \in Nat /\ Distance(Identity) < NoDistance
      BY IdentityIsARoute, DistanceAssumption
    <3>4. best # NoRoute
      <4> SUFFICES ASSUME best = NoRoute PROVE FALSE
        OBVIOUS
      <4>1. NoDistance <= Distance(Identity)
        BY <2>1, <3>2, IdentityIsARoute
      <4>2. QED BY <3>3, <4>1, NoDistanceIsNat
    <3>5. QED BY <2>2, <3>2, <3>4
  <2>5. QED BY <2>1, <2>2, <2>3, <2>4 DEF StaleResultIsHarmless
<1>2. QED BY <1>1, BestInit, BestStep, PermuteAlways, EveryRouteOnce, PTL DEF FlashSpec
-----------------------------------------------------------------------------
(* Assignment 2.                                                            *)

(* A size wraps downwards only, and one that fits an int not at all. *)
LEMMA AsIntFacts ==
  ASSUME NEW k \in Nat
  PROVE  /\ AsInt(k) \in Int /\ AsInt(k) <= k
         /\ k <= INT_MAX => AsInt(k) = k
<1> DEFINE m == 2 * (INT_MAX + 1)
           x == k + INT_MAX + 1
<1>1. INT_MAX \in Nat /\ m \in Nat \ {0} /\ x \in Nat
  BY SizeAssumption
<1>2. \A a \in Nat, b \in Nat \ {0} : a % b \in Nat /\ a % b <= a /\ (a < b => a % b = a)
  OBVIOUS
<1>3. x % m \in Nat /\ x % m <= x /\ (x < m => x % m = x)
  BY <1>1, <1>2
<1>4. AsInt(k) = (x % m) - (INT_MAX + 1)
  BY DEF AsInt
<1>5. k <= INT_MAX => x < m
  BY <1>1
<1> HIDE DEF m
<1>6. QED BY <1>1, <1>3, <1>4, <1>5

(* Up to some byte the memory holds the file, and zeros from there. *)
Loaded == \E r \in 0 .. Len(buf) : \A i \in DOMAIN buf : buf[i] = IF i <= r THEN i ELSE 0

(* What send has taken is a prefix of the memory, and main goes on only     *)
(* after all of it.                                                         *)
PrefixInv ==
  /\ plans \in Seq(Nat)
  /\ buf \in Seq(Nat) /\ Loaded
  /\ bytes_sent \in 0 .. Len(buf)
  /\ wire = SubSeq(buf, 1, bytes_sent)
  /\ step \in {"load", "connect"} => bytes_sent = 0
  /\ outcome = "sent" => bytes_sent >= length /\ step \notin {"load", "connect", "sendall"}
  /\ step \in {"recv", "printed"} => outcome = "sent"

LEMMA PrefixInit == RogueInit => PrefixInv
<1> SUFFICES ASSUME RogueInit PROVE PrefixInv
  OBVIOUS
<1>1. PICK s \in FileSizes : plans = [i \in 1 .. s |-> i]
  BY DEF RogueInit
<1>2. s \in Nat
  BY SizeAssumption
<1>3. plans \in Seq(Nat)
  BY <1>1, <1>2
<1>4. buf = <<>> /\ wire = <<>> /\ bytes_sent = 0 /\ step = "load" /\ outcome = "none"
  BY DEF RogueInit
<1>5. Loaded
  BY <1>4 DEF Loaded
<1>6. SubSeq(buf, 1, 0) = <<>>
  BY <1>4
<1>7. QED BY <1>3, <1>4, <1>5, <1>6 DEF PrefixInv

(* The memory is filled, and nothing has been sent of it. *)
LEMMA LoadKeepsPrefix ==
  ASSUME PrefixInv, NEW s \in Nat, NEW r \in 0 .. s, step = "load", step' = "connect",
         buf' = [i \in 1 .. s |-> IF i <= r THEN i ELSE 0],
         UNCHANGED <<plans, bytes_sent, wire, outcome>>
  PROVE  PrefixInv'
<1>1. buf' \in Seq(Nat) /\ Len(buf') = s /\ DOMAIN buf' = 1 .. s
  OBVIOUS
<1>2. Loaded'
  BY <1>1 DEF Loaded
<1>3. bytes_sent' = 0 /\ outcome' # "sent"
  BY DEF PrefixInv
<1>4. wire = SubSeq(buf, 1, 0) /\ buf \in Seq(Nat)
  BY DEF PrefixInv
<1>5. SubSeq(buf, 1, 0) = <<>> /\ SubSeq(buf', 1, 0) = <<>>
  BY <1>1, <1>4
<1>6. wire' = SubSeq(buf', 1, bytes_sent')
  BY <1>3, <1>4, <1>5
<1>7. bytes_sent' \in 0 .. Len(buf')
  BY <1>1, <1>3
<1>8. plans' \in Seq(Nat)
  BY DEF PrefixInv
<1>9. QED BY <1>1, <1>2, <1>3, <1>6, <1>7, <1>8 DEF PrefixInv

LEMMA PrefixStep == PrefixInv /\ [RogueNext]_rogue_vars => PrefixInv'
<1> SUFFICES ASSUME PrefixInv, [RogueNext]_rogue_vars PROVE PrefixInv'
  OBVIOUS
<1>1. ASSUME UNCHANGED <<plans, buf, bytes_sent, wire>>,
             \/ UNCHANGED <<step, outcome>>
             \/ Connect \/ SendFails \/ SentAll \/ Receive
      PROVE  PrefixInv'
  <2>1. Loaded'
    BY <1>1 DEF PrefixInv, Loaded
  <2>2. UNCHANGED <<plans, buf, bytes_sent, wire>>
    BY <1>1
  <2>3. buf \in Seq(Nat) /\ Len(buf) \in Nat /\ bytes_sent \in 0 .. Len(buf)
    BY DEF PrefixInv
  <2>4. step' \in {"load", "connect"} => bytes_sent' = 0
    BY <1>1 DEF PrefixInv, Connect, SendFails, SentAll, Receive, Stage
  <2>5. outcome' = "sent" =>
          bytes_sent' >= length' /\ step' \notin {"load", "connect", "sendall"}
    BY <1>1, <2>2 DEF PrefixInv, length, Connect, SendFails, SentAll, Receive, Stage
  <2>6. step' \in {"recv", "printed"} => outcome' = "sent"
    BY <1>1 DEF PrefixInv, Connect, SendFails, SentAll, Receive, Stage
  <2>7. QED BY <2>1, <2>2, <2>4, <2>5, <2>6 DEF PrefixInv
<1>2. CASE UNCHANGED rogue_vars
  BY <1>1, <1>2 DEF rogue_vars
<1>3. CASE LoadPlans
  <2>1. plans \in Seq(Nat)
    BY DEF PrefixInv
  <2>2. DOMAIN plans = 1 .. Len(plans) /\ Len(plans) \in Nat
    BY <2>1
  <2>3. QED BY <1>3, <2>2, LoadKeepsPrefix DEF LoadPlans, Stage
<1>4. CASE LoadNothing
  <2>1. CASE step' = "connect"
    <3>1. PICK s \in FileSizes : buf' = [i \in 1 .. s |-> 0]
      BY <1>4, <2>1 DEF LoadNothing, Stage
    <3>2. s \in Nat
      BY SizeAssumption
    <3>3. buf' = [i \in 1 .. s |-> IF i <= 0 THEN i ELSE 0]
      BY <3>1, <3>2
    <3>4. step = "load" /\ UNCHANGED <<plans, bytes_sent, wire, outcome>>
      BY <1>4 DEF LoadNothing, Stage
    <3>5. 0 \in 0 .. s
      BY <3>2
    <3>6. QED BY <2>1, <3>2, <3>3, <3>4, <3>5, LoadKeepsPrefix
  <2>2. CASE step' # "connect"
    <3>1. /\ step = "load" /\ step' = "crashed"
          /\ UNCHANGED <<plans, buf, bytes_sent, wire, outcome>>
      BY <1>4, <2>2 DEF LoadNothing, Stage
    <3>2. outcome # "sent"
      BY <3>1 DEF PrefixInv
    <3>3. QED BY <3>1, <3>2 DEF PrefixInv, Loaded
  <2>3. QED BY <2>1, <2>2
<1>5. CASE Send
  <2>1. PICK m \in 1 .. length - bytes_sent :
          /\ wire' = wire \o SubSeq(buf, bytes_sent + 1, bytes_sent + m)
          /\ bytes_sent' = bytes_sent + m
    BY <1>5 DEF Send
  <2>2. step = "sendall" /\ UNCHANGED <<plans, buf, step, outcome>>
    BY <1>5 DEF Send
  <2>3. buf \in Seq(Nat) /\ Len(buf) \in Nat /\ bytes_sent \in 0 .. Len(buf)
    BY DEF PrefixInv
  <2>4. bytes_sent + m \in bytes_sent .. Len(buf) /\ bytes_sent + m \in 0 .. Len(buf)
    <3>1. length \in Int /\ length <= Len(buf)
      BY <2>3, AsIntFacts DEF length
    <3>2. QED BY <2>3, <3>1
  <2>5. wire' = SubSeq(buf, 1, bytes_sent + m)
    <3>1. 1 \in 1 .. Len(buf) + 1 /\ bytes_sent \in 1 - 1 .. Len(buf)
      BY <2>3
    <3>2. SubSeq(buf, 1, bytes_sent) \o SubSeq(buf, bytes_sent + 1, bytes_sent + m)
            = SubSeq(buf, 1, bytes_sent + m)
      BY <2>3, <2>4, <3>1, ConcatAdjacentSubSeq
    <3>3. QED BY <2>1, <3>2 DEF PrefixInv
  <2>6. outcome # "sent"
    BY <2>2 DEF PrefixInv
  <2>7. QED BY <2>1, <2>2, <2>4, <2>5, <2>6 DEF PrefixInv, Loaded
<1>6. CASE Connect \/ SendFails \/ SentAll \/ Receive
  BY <1>1, <1>6 DEF Connect, SendFails, SentAll, Receive
<1>7. QED BY <1>2, <1>3, <1>4, <1>5, <1>6 DEF RogueNext

(* sendall sends a prefix of the memory however send cuts it up, and all of *)
(* it when it returns 0 and the size fits an int; main waits for an answer  *)
(* in no other case.                                                        *)
THEOREM SendsEverythingOnce == RogueSpec => []SendsAllInOrder
<1>1. ASSUME PrefixInv PROVE SendsAllInOrder
  <2>1. /\ buf \in Seq(Nat) /\ Len(buf) \in Nat /\ DOMAIN buf = 1 .. Len(buf)
        /\ wire = SubSeq(buf, 1, bytes_sent) /\ bytes_sent \in 0 .. Len(buf)
    BY <1>1 DEF PrefixInv
  <2>2. Len(wire) = bytes_sent /\ \A i \in DOMAIN wire : i \in DOMAIN buf /\ wire[i] = buf[i]
    BY <2>1
  <2>3. ASSUME outcome = "sent", Len(buf) <= INT_MAX PROVE Len(wire) = Len(buf)
    <3>1. length = Len(buf)
      BY <2>1, <2>3, AsIntFacts DEF length
    <3>2. bytes_sent >= length
      BY <1>1, <2>3 DEF PrefixInv
    <3>3. bytes_sent >= Len(buf)
      BY <3>1, <3>2, Zenon
    <3>4. bytes_sent \in 0 .. Len(buf) /\ Len(buf) \in Nat
      BY <2>1
    <3>5. bytes_sent = Len(buf)
      BY <3>3, <3>4
    <3>6. QED BY <2>2, <3>5
  <2>4. \E r \in 0 .. Len(buf) : \A i \in DOMAIN wire : wire[i] = IF i <= r THEN i ELSE 0
    BY <1>1, <2>2 DEF PrefixInv, Loaded
  <2>5. QED BY <1>1, <2>1, <2>3, <2>4 DEF PrefixInv, SendsAllInOrder
<1>2. QED BY <1>1, PrefixInit, PrefixStep, PTL DEF RogueSpec
=============================================================================
