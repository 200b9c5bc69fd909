--------------------------- MODULE HogwartsProofs ---------------------------
(***************************************************************************)
(* Safety of Assignment 4 for every number of elves, of tasks, and every   *)
(* batch size.                                                             *)
(*                                                                         *)
(* The invariant has five parts: TypeOK; Owner, what holding the mutex     *)
(* excludes; Alone, when Dobby has the list to himself; Counts, what the   *)
(* semaphores and counters say about each other; and Batch, what Dobby     *)
(* has still to do.                                                        *)
(***************************************************************************)
EXTENDS Hogwarts, SequenceTheorems, FiniteSetTheorems, TLAPS

DobbyHolds == {"lock_count", "count", "post", "lock_active", "activate",
               "cancel", "join", "done"}
DobbyAlone == {"post", "lock_active", "activate", "cancel", "join", "done"}
Dismissing == {"cancel", "join", "done"}
ElfInside  == {"decrement", "take", "count"}
ElfEnding  == {"trylock", "unlock", "dead"}

(* The elves let through full_list that active_tasks still counts, and      *)
(* those about to take a task or to count it.                               *)
Through  == Cardinality(At({"lock", "decrement"}))
Taking   == Cardinality(At({"take"}))
Counting == Cardinality(At({"count"}))

(* The elves that may make Dobby's reading of the counters stale. *)
Busy == {"lock"} \cup ElfInside

Owner ==
  /\ \A e \in Elves : elf[e] \in ElfInside => mutex = e
  /\ dobby \in {"count", "activate"} => mutex = Dobby

Alone ==
  /\ dobby \in DobbyAlone => \A e \in Elves : elf[e] \notin Busy
  /\ dobby \notin Dismissing => cancelled = {}
  /\ \A e \in Elves : elf[e] \in ElfEnding => e \in cancelled

Unsignalled == IF dobby = "signal" THEN to_be_posted - i ELSE 0

Posted == IF dobby \in {"post", "lock_active", "activate"} THEN i ELSE 0

Counts ==
  /\ active_tasks = full_list + Through + Unsignalled
  /\ Len(list) = active_tasks + Taking + Posted
  /\ task_id_counter = taken_tasks + Len(list) + Counting
  /\ dobby \in DobbyHolds => active_tasks = 0
  /\ empty_list = IF dobby \in DobbyHolds \/ active_tasks > 0 THEN 0 ELSE 1

Batch ==
  /\ active_tasks <= BatchSize
  /\ dobby \in {"post", "lock_active", "activate", "signal"} => to_be_posted <= BatchSize
  /\ dobby \in {"post", "signal"} => i < to_be_posted
  /\ dobby \in {"lock_active", "activate"} => i = to_be_posted /\ i > 0
  /\ dobby = "post" => task_id_counter + to_be_posted - i <= total_tasks
  /\ task_id_counter <= total_tasks \/ task_id_counter = 0
  /\ dobby \in Dismissing => taken_tasks >= total_tasks /\ list = <<>>

Inv ==
  /\ program # "failed"
  /\ TypeOK /\ Owner /\ Alone /\ Counts /\ Batch

-----------------------------------------------------------------------------
LEMMA AtFinite ==
  ASSUME NEW S
  PROVE  IsFiniteSet(At(S)) /\ Cardinality(At(S)) \in Nat
<1>1. At(S) \in SUBSET Elves
  BY DEF At
<1> QED
  BY <1>1, ThreadAssumption, FS_Subset, FS_CardinalityType

(* One elf moves. *)
LEMMA AtMoves ==
  ASSUME elf \in [Elves -> ElfPC],
         NEW e \in Elves, NEW from, NEW to, ElfGoes(e, from, to), NEW S
  PROVE  Cardinality(At(S)') =
           Cardinality(At(S)) + (IF to \in S THEN 1 ELSE 0)
                              - (IF from \in S THEN 1 ELSE 0)
<1>1. IsFiniteSet(At(S)) /\ Cardinality(At(S)) \in Nat
  BY AtFinite
<1>2. elf[e] = from /\ elf'[e] = to /\ \A f \in Elves : f # e => elf'[f] = elf[f]
  BY DEF ElfGoes
<1>3. CASE to \in S /\ from \notin S
  <2>1. At(S)' = At(S) \cup {e} /\ e \notin At(S)
    BY <1>2, <1>3 DEF At
  <2>2. Cardinality(At(S) \cup {e}) = Cardinality(At(S)) + 1
    BY <1>1, <2>1, FS_AddElement
  <2> QED
    BY <1>3, <2>1, <2>2
<1>4. CASE to \notin S /\ from \in S
  <2>1. At(S)' = At(S) \ {e} /\ e \in At(S)
    BY <1>2, <1>4 DEF At
  <2>2. Cardinality(At(S) \ {e}) = Cardinality(At(S)) - 1
    BY <1>1, <2>1, FS_RemoveElement
  <2> QED
    BY <1>1, <1>4, <2>1, <2>2
<1>5. CASE to \in S <=> from \in S
  <2>1. At(S)' = At(S)
    BY <1>2, <1>5 DEF At
  <2> QED
    BY <1>1, <1>5, <2>1
<1> QED
  BY <1>3, <1>4, <1>5

LEMMA GroupsMove ==
  ASSUME TypeOK, NEW e \in Elves, NEW from, NEW to, ElfGoes(e, from, to)
  PROVE  /\ Through' = Through + (IF to \in {"lock", "decrement"} THEN 1 ELSE 0)
                               - (IF from \in {"lock", "decrement"} THEN 1 ELSE 0)
         /\ Taking' = Taking + (IF to = "take" THEN 1 ELSE 0)
                             - (IF from = "take" THEN 1 ELSE 0)
         /\ Counting' = Counting + (IF to = "count" THEN 1 ELSE 0)
                                 - (IF from = "count" THEN 1 ELSE 0)
<1>1. elf \in [Elves -> ElfPC]
  BY DEF TypeOK
<1>2. Cardinality(At({"lock", "decrement"})') =
        Cardinality(At({"lock", "decrement"}))
          + (IF to \in {"lock", "decrement"} THEN 1 ELSE 0)
          - (IF from \in {"lock", "decrement"} THEN 1 ELSE 0)
  BY <1>1, AtMoves
<1>3. Cardinality(At({"take"})') =
        Cardinality(At({"take"})) + (IF to \in {"take"} THEN 1 ELSE 0)
                                  - (IF from \in {"take"} THEN 1 ELSE 0)
  BY <1>1, AtMoves
<1>4. Cardinality(At({"count"})') =
        Cardinality(At({"count"})) + (IF to \in {"count"} THEN 1 ELSE 0)
                                   - (IF from \in {"count"} THEN 1 ELSE 0)
  BY <1>1, AtMoves
<1> QED
  BY <1>2, <1>3, <1>4 DEF Through, Taking, Counting

LEMMA GroupsNat == Through \in Nat /\ Taking \in Nat /\ Counting \in Nat
BY AtFinite DEF Through, Taking, Counting

(* A group without members counts zero, and one with a member does not. *)
LEMMA GroupsEmpty ==
  /\ Through = 0 <=> \A e \in Elves : elf[e] \notin {"lock", "decrement"}
  /\ Taking = 0 <=> \A e \in Elves : elf[e] # "take"
  /\ Counting = 0 <=> \A e \in Elves : elf[e] # "count"
<1>1. Through = 0 <=> At({"lock", "decrement"}) = {}
  BY AtFinite, FS_EmptySet DEF Through
<1>2. Taking = 0 <=> At({"take"}) = {}
  BY AtFinite, FS_EmptySet DEF Taking
<1>3. Counting = 0 <=> At({"count"}) = {}
  BY AtFinite, FS_EmptySet DEF Counting
<1> QED
  BY <1>1, <1>2, <1>3 DEF At

LEMMA InvInit == Init => Inv
<1> SUFFICES ASSUME Init PROVE Inv
  OBVIOUS
<1>1. Through = 0 /\ Taking = 0 /\ Counting = 0
  BY GroupsEmpty DEF Init
<1>2. TypeOK
  BY ThreadAssumption, EmptySeq DEF Init, TypeOK, DobbyPC, ElfPC
<1>3. Counts
  BY <1>1 DEF Init, Counts, Unsignalled, Posted, DobbyHolds
<1>4. Owner /\ Alone /\ Batch
  BY TaskAssumption DEF Init, Owner, Alone, Batch, ElfInside, ElfEnding, DobbyAlone, Dismissing
<1> QED
  BY <1>2, <1>3, <1>4 DEF Inv, Init

-----------------------------------------------------------------------------
(* Dobby's steps.                                                           *)

LEMMA ElvesStay ==
  ASSUME UNCHANGED elf
  PROVE  UNCHANGED <<Through, Taking, Counting>>
BY DEF Through, Taking, Counting, At

LEMMA DobbyInv ==
  ASSUME Inv, program = "running", DobbyStep
  PROVE  Inv'
<1> USE DEF Unsignalled, Posted, DobbyHolds, DobbyAlone, Dismissing, ElfInside, ElfEnding, Busy,
            DobbyPC, ElfPC, DobbyGoes, Lock, Unlock, tasks, batch, count, sems
<1>0. /\ Through \in Nat /\ Taking \in Nat /\ Counting \in Nat
      /\ Dobby \notin Elves /\ NoOne \notin Elves /\ NoOne # Dobby
      /\ total_tasks \in Int /\ BatchSize \in Nat /\ BatchSize > 0
      /\ program # "failed"
      /\ TypeOK /\ Owner /\ Alone /\ Counts /\ Batch
  BY GroupsNat, ThreadAssumption, TaskAssumption DEF Inv
<1>a. ASSUME NEW e \in Elves, CreateElf(e) PROVE Inv'
  <2>0. UNCHANGED <<Through, Taking, Counting>>
    BY <1>a, <1>0, GroupsMove DEF CreateElf
  <2>1. TypeOK'
    BY <1>0, <1>a DEF CreateElf, ElfGoes, TypeOK
  <2>2. Owner' /\ Alone'
    BY <1>0, <1>a DEF CreateElf, ElfGoes, TypeOK, Owner, Alone, Counts
  <2>3. Counts'
    BY <1>0, <1>a, <2>0 DEF CreateElf, TypeOK, Counts, Batch
  <2>4. Batch'
    BY <1>0, <1>a DEF CreateElf, TypeOK, Counts, Batch
  <2> QED
    BY <1>0, <1>a, <2>1, <2>2, <2>3, <2>4 DEF CreateElf, Inv
<1>b. ASSUME NEW e \in Elves, CancelElf(e) PROVE Inv'
  <2>0. UNCHANGED <<Through, Taking, Counting>>
    BY <1>b, ElvesStay DEF CancelElf
  <2> QED
    BY <1>b, <2>0, <1>0 DEF CancelElf, Inv, TypeOK, Owner, Alone, Counts, Batch
<1>c. (\A e \in Elves : ~CreateElf(e)) => UNCHANGED elf
  BY DEF DobbyStep, CancelElf, WaitEmpty, LockToCount, CountTasks, PostTask,
         LockToActivate, Activate, SignalFull, JoinElves
<1>d. SUFFICES ASSUME UNCHANGED <<Through, Taking, Counting>>,
                      \A e \in Elves : ~CreateElf(e) /\ ~CancelElf(e)
               PROVE  Inv'
  BY <1>a, <1>b, <1>c, ElvesStay
<1>1. CASE WaitEmpty
  <2>1. TypeOK'
    BY <1>1, <1>0, <1>d DEF WaitEmpty, TypeOK
  <2>2. Owner' /\ Alone'
    BY <1>1, <1>0, <1>d DEF WaitEmpty, TypeOK, Owner, Alone, Counts
  <2>3. Counts'
    <3>1. /\ dobby = "wait_empty" /\ dobby' = "lock_count"
          /\ empty_list > 0 /\ empty_list' = empty_list - 1
          /\ UNCHANGED <<active_tasks, full_list, list, task_id_counter, taken_tasks>>
      BY <1>0, <1>1 DEF WaitEmpty, TypeOK, Counts, Batch
    <3>2. empty_list = 1 /\ active_tasks = 0
      BY <3>1, <1>0 DEF TypeOK, Counts, Batch
    <3> QED
      BY <3>1, <3>2, <1>0, <1>d DEF TypeOK, Counts, Batch
  <2>4. Batch'
    BY <1>1, <1>0, <1>d DEF WaitEmpty, TypeOK, Counts, Batch
  <2> QED
    BY <1>0, <1>1, <2>1, <2>2, <2>3, <2>4 DEF WaitEmpty, Inv
<1>2. CASE LockToCount
  <2>1. TypeOK'
    BY <1>2, <1>0, <1>d DEF LockToCount, TypeOK
  <2>2. Owner' /\ Alone'
    BY <1>2, <1>0, <1>d DEF LockToCount, TypeOK, Owner, Alone, Counts
  <2>3. Counts'
    BY <1>2, <1>0, <1>d DEF LockToCount, TypeOK, Counts, Batch
  <2>4. Batch'
    BY <1>2, <1>0, <1>d DEF LockToCount, TypeOK, Counts, Batch
  <2> QED
    BY <1>0, <1>2, <2>1, <2>2, <2>3, <2>4 DEF LockToCount, Inv
<1>3. CASE CountTasks
  <2> DEFINE n == MIN(BatchSize, total_tasks - taken_tasks)
  <2>1. /\ dobby = "count" /\ dobby' = IF n <= 0 THEN "cancel" ELSE "post"
        /\ to_be_posted' = n /\ i' = 0 /\ mutex' = NoOne
        /\ UNCHANGED <<program, elf, hand, list, completed, active_tasks, taken_tasks,
                       task_id_counter, empty_list, full_list, cancelled>>
    BY <1>3 DEF CountTasks
  <2>2. n \in Int /\ n <= BatchSize /\ n <= total_tasks - taken_tasks
        /\ (n <= 0 => total_tasks - taken_tasks <= 0)
    BY <1>0 DEF MIN, TypeOK
  <2> HIDE DEF n
  <2>3. \A e \in Elves : elf[e] \notin ElfInside
    <3>1. mutex = Dobby
      BY <1>0, <2>1 DEF Owner
    <3> QED
      BY <1>0, <3>1 DEF Owner
  <2>4. Taking = 0 /\ Counting = 0
    BY <2>3, GroupsEmpty
  <2>5. active_tasks = 0 /\ full_list = 0 /\ Through = 0
    BY <1>0, <2>1 DEF TypeOK, Counts
  <2>6. \A e \in Elves : elf[e] \notin Busy
    BY <2>3, <2>5, GroupsEmpty
  <2>7. list = <<>> /\ task_id_counter = taken_tasks
    <3>1. Len(list) = 0
      BY <1>0, <2>1, <2>4, <2>5 DEF TypeOK, Counts
    <3>2. list = <<>>
      BY <1>0, <3>1, EmptySeq DEF TypeOK
    <3> QED
      BY <1>0, <3>1, <3>2, <2>4 DEF TypeOK, Counts
  <2>8. TypeOK'
    BY <1>0, <2>1, <2>2 DEF TypeOK
  <2>9. Owner' /\ Alone'
    BY <1>0, <2>1, <2>3, <2>6 DEF TypeOK, Owner, Alone, Counts
  <2>10. Counts'
    BY <1>0, <1>d, <2>1, <2>5 DEF TypeOK, Counts, Batch
  <2>11. Batch'
    BY <1>0, <2>1, <2>2, <2>5, <2>7 DEF TypeOK, Counts, Batch
  <2> QED
    BY <1>0, <2>1, <2>8, <2>9, <2>10, <2>11 DEF Inv
<1>4. CASE PostTask
  <2>1. TypeOK'
    BY <1>4, <1>0, <1>d DEF PostTask, TypeOK
  <2>2. Owner' /\ Alone'
    BY <1>4, <1>0, <1>d DEF PostTask, TypeOK, Owner, Alone, Counts
  <2>3. Counts'
    BY <1>4, <1>0, <1>d DEF PostTask, TypeOK, Counts, Batch
  <2>4. Batch'
    BY <1>4, <1>0, <1>d DEF PostTask, TypeOK, Counts, Batch
  <2> QED
    BY <1>0, <1>4, <2>1, <2>2, <2>3, <2>4 DEF PostTask, Inv
<1>5. CASE LockToActivate
  <2>1. TypeOK'
    BY <1>5, <1>0, <1>d DEF LockToActivate, TypeOK
  <2>2. Owner' /\ Alone'
    BY <1>5, <1>0, <1>d DEF LockToActivate, TypeOK, Owner, Alone, Counts
  <2>3. Counts'
    BY <1>5, <1>0, <1>d DEF LockToActivate, TypeOK, Counts, Batch
  <2>4. Batch'
    BY <1>5, <1>0, <1>d DEF LockToActivate, TypeOK, Counts, Batch
  <2> QED
    BY <1>0, <1>5, <2>1, <2>2, <2>3, <2>4 DEF LockToActivate, Inv
<1>6. CASE Activate
  <2>1. TypeOK'
    BY <1>6, <1>0, <1>d DEF Activate, TypeOK, Batch
  <2>2. Owner' /\ Alone'
    <3>1. mutex = Dobby
      BY <1>6, <1>0 DEF Activate, Owner
    <3>2. \A e \in Elves : elf[e] \notin ElfInside
      BY <1>0, <3>1 DEF Owner
    <3> QED
      BY <1>6, <1>0, <1>d, <3>2 DEF Activate, TypeOK, Owner, Alone
  <2>3. Counts'
    <3>1. /\ active_tasks = 0 /\ full_list + Through = 0 /\ empty_list = 0
          /\ i = to_be_posted /\ to_be_posted > 0
          /\ Len(list) = Taking + i /\ task_id_counter = taken_tasks + Len(list) + Counting
      BY <1>6, <1>0 DEF Activate, TypeOK, Counts, Batch
    <3>2. /\ active_tasks' = to_be_posted /\ Unsignalled' = to_be_posted /\ Posted' = 0
          /\ dobby' = "signal"
          /\ UNCHANGED <<list, taken_tasks, task_id_counter, empty_list, full_list>>
      BY <1>6, <1>0, <3>1 DEF Activate, TypeOK, Counts, Batch
    <3> QED
      BY <3>1, <3>2, <1>0, <1>d DEF TypeOK, Counts, Batch
  <2>4. Batch'
    BY <1>6, <1>0, <1>d DEF Activate, TypeOK, Counts, Batch
  <2> QED
    BY <1>0, <1>6, <2>1, <2>2, <2>3, <2>4 DEF Activate, Inv
<1>7. CASE SignalFull
  <2>1. TypeOK'
    BY <1>7, <1>0, <1>d DEF SignalFull, TypeOK
  <2>2. Owner' /\ Alone'
    BY <1>7, <1>0, <1>d DEF SignalFull, TypeOK, Owner, Alone, Counts
  <2>3. Counts'
    BY <1>7, <1>0, <1>d DEF SignalFull, TypeOK, Counts, Batch
  <2>4. Batch'
    BY <1>7, <1>0, <1>d DEF SignalFull, TypeOK, Counts, Batch
  <2> QED
    BY <1>0, <1>7, <2>1, <2>2, <2>3, <2>4 DEF SignalFull, Inv
<1>8. CASE JoinElves
  <2>1. TypeOK'
    BY <1>8, <1>0, <1>d DEF JoinElves, TypeOK
  <2>2. Owner' /\ Alone'
    BY <1>8, <1>0, <1>d DEF JoinElves, TypeOK, Owner, Alone, Counts
  <2>3. Counts'
    BY <1>8, <1>0, <1>d DEF JoinElves, TypeOK, Counts, Batch
  <2>4. Batch'
    BY <1>8, <1>0, <1>d DEF JoinElves, TypeOK, Counts, Batch
  <2> QED
    BY <1>0, <1>8, <2>1, <2>2, <2>3, <2>4 DEF JoinElves, Inv
<1> QED
  BY <1>d, <1>1, <1>2, <1>3, <1>4, <1>5, <1>6, <1>7, <1>8 DEF DobbyStep

-----------------------------------------------------------------------------
(* The elves' steps.                                                        *)

(* How each step of an elf changes the three groups. *)
LEMMA ElfGroups ==
  ASSUME TypeOK, NEW e \in Elves
  PROVE  /\ ElfGoes(e, "wait", "lock") =>
              Through' = Through + 1 /\ Taking' = Taking /\ Counting' = Counting
         /\ ElfGoes(e, "decrement", "take") =>
              Through' = Through - 1 /\ Taking' = Taking + 1 /\ Counting' = Counting
         /\ ElfGoes(e, "take", "count") =>
              Through' = Through /\ Taking' = Taking - 1 /\ Counting' = Counting + 1
         /\ ElfGoes(e, "count", "work") =>
              Through' = Through /\ Taking' = Taking /\ Counting' = Counting - 1
         /\ (\/ ElfGoes(e, "lock", "decrement") \/ ElfGoes(e, "work", "wait")
             \/ ElfGoes(e, "wait", "trylock") \/ ElfGoes(e, "work", "trylock")
             \/ ElfGoes(e, "trylock", "unlock") \/ ElfGoes(e, "unlock", "dead"))
            => Through' = Through /\ Taking' = Taking /\ Counting' = Counting
<1>0. Through \in Nat /\ Taking \in Nat /\ Counting \in Nat
  BY GroupsNat
<1>1. ASSUME ElfGoes(e, "wait", "lock") PROVE Through' = Through + 1 /\ Taking' = Taking /\ Counting' = Counting
  BY <1>0, <1>1, GroupsMove
<1>2. ASSUME ElfGoes(e, "decrement", "take") PROVE Through' = Through - 1 /\ Taking' = Taking + 1 /\ Counting' = Counting
  BY <1>0, <1>2, GroupsMove
<1>3. ASSUME ElfGoes(e, "take", "count") PROVE Through' = Through /\ Taking' = Taking - 1 /\ Counting' = Counting + 1
  BY <1>0, <1>3, GroupsMove
<1>4. ASSUME ElfGoes(e, "count", "work") PROVE Through' = Through /\ Taking' = Taking /\ Counting' = Counting - 1
  BY <1>0, <1>4, GroupsMove
<1>5. ASSUME ElfGoes(e, "lock", "decrement") PROVE Through' = Through /\ Taking' = Taking /\ Counting' = Counting
  BY <1>0, <1>5, GroupsMove
<1>6. ASSUME ElfGoes(e, "work", "wait") PROVE Through' = Through /\ Taking' = Taking /\ Counting' = Counting
  BY <1>0, <1>6, GroupsMove
<1>7. ASSUME ElfGoes(e, "wait", "trylock") PROVE Through' = Through /\ Taking' = Taking /\ Counting' = Counting
  BY <1>0, <1>7, GroupsMove
<1>8. ASSUME ElfGoes(e, "work", "trylock") PROVE Through' = Through /\ Taking' = Taking /\ Counting' = Counting
  BY <1>0, <1>8, GroupsMove
<1>9. ASSUME ElfGoes(e, "trylock", "unlock") PROVE Through' = Through /\ Taking' = Taking /\ Counting' = Counting
  BY <1>0, <1>9, GroupsMove
<1>10. ASSUME ElfGoes(e, "unlock", "dead") PROVE Through' = Through /\ Taking' = Taking /\ Counting' = Counting
  BY <1>0, <1>10, GroupsMove
<1> QED
  BY <1>1, <1>2, <1>3, <1>4, <1>5, <1>6, <1>7, <1>8, <1>9, <1>10

LEMMA ElfInv ==
  ASSUME Inv, program = "running", NEW e \in Elves, ElfStep(e)
  PROVE  Inv'
<1> USE DEF Inv, TypeOK, Owner, Alone, Counts, Batch, Unsignalled, Posted,
            DobbyHolds, DobbyAlone, Dismissing, ElfInside, ElfEnding, Busy,
            DobbyPC, ElfPC, Lock, Unlock, tasks, batch, count, sems
<1>0. /\ Through \in Nat /\ Taking \in Nat /\ Counting \in Nat
      /\ Dobby \notin Elves /\ NoOne \notin Elves /\ NoOne # Dobby
      /\ total_tasks \in Int /\ BatchSize \in Nat /\ BatchSize > 0
  BY GroupsNat, ThreadAssumption, TaskAssumption
<1>1. CASE WaitFull(e)
  <2>0. Through' = Through + 1 /\ Taking' = Taking /\ Counting' = Counting
    BY <1>1, ElfGroups DEF WaitFull
  <2>1. TypeOK'
    BY <1>1, <1>0, <2>0 DEF WaitFull, ElfGoes
  <2>2. Owner' /\ Alone'
    BY <1>1, <1>0 DEF WaitFull, ElfGoes
  <2>3. Counts'
    BY <1>1, <1>0, <2>0 DEF WaitFull
  <2>4. Batch'
    BY <1>1, <1>0, <2>0 DEF WaitFull
  <2> QED
    BY <1>1, <2>1, <2>2, <2>3, <2>4 DEF WaitFull
<1>2. CASE LockToTake(e)
  <2>0. Through' = Through /\ Taking' = Taking /\ Counting' = Counting
    BY <1>2, ElfGroups DEF LockToTake
  <2>1. TypeOK'
    BY <1>2, <1>0, <2>0 DEF LockToTake, ElfGoes
  <2>2. Owner' /\ Alone'
    BY <1>2, <1>0 DEF LockToTake, ElfGoes
  <2>3. Counts'
    BY <1>2, <1>0, <2>0 DEF LockToTake
  <2>4. Batch'
    BY <1>2, <1>0, <2>0 DEF LockToTake
  <2> QED
    BY <1>2, <2>1, <2>2, <2>3, <2>4 DEF LockToTake
<1>3. CASE Decrement(e)
  <2>1. Through # 0
    BY <1>3, GroupsEmpty DEF Decrement, ElfGoes
  <2>2. Unsignalled >= 0 /\ Unsignalled \in Int
    OBVIOUS
  <2>3. active_tasks > 0
    BY <1>0, <2>1, <2>2
  <2>4. Through' = Through - 1 /\ Taking' = Taking + 1 /\ Counting' = Counting
    BY <1>3, ElfGroups DEF Decrement
  <2>5. TypeOK'
    BY <1>3, <1>0, <2>3, <2>4 DEF Decrement, ElfGoes
  <2>6. Owner' /\ Alone'
    BY <1>3, <1>0 DEF Decrement, ElfGoes
  <2>7. Counts'
    BY <1>3, <1>0, <2>1, <2>2, <2>3, <2>4 DEF Decrement
  <2>8. Batch'
    BY <1>3, <1>0, <2>1, <2>2, <2>3, <2>4 DEF Decrement
  <2> QED
    BY <1>3, <2>5, <2>6, <2>7, <2>8 DEF Decrement
<1>4. CASE TakeTask(e)
  <2>1. Taking # 0
    BY <1>4, GroupsEmpty DEF TakeTask, ElfGoes
  <2>2. list # <<>>
    BY <1>0, <2>1
  <2>3. /\ ElfGoes(e, "take", "count") /\ hand' = [hand EXCEPT ![e] = Head(list)]
        /\ list' = Tail(list)
        /\ UNCHANGED <<program, dobby, completed, to_be_posted, i, active_tasks,
                       taken_tasks, task_id_counter, empty_list, full_list,
                       mutex, cancelled>>
    BY <1>4, <2>2 DEF TakeTask
  <2>4. Head(list) \in Nat /\ list' \in Seq(Nat) /\ Len(list') = Len(list) - 1
    BY <2>2, <2>3
  <2>5. Through' = Through /\ Taking' = Taking - 1 /\ Counting' = Counting + 1
    BY <2>3, ElfGroups
  <2>6. TypeOK'
    BY <2>3, <2>4 DEF ElfGoes
  <2>7. Owner' /\ Alone'
    BY <1>0, <2>3 DEF ElfGoes
  <2>8. Counts'
    <3>1. Unsignalled' = Unsignalled /\ Posted' = Posted
      BY <2>3
    <3>2. /\ Unsignalled \in Int /\ Posted \in Int /\ Len(list) \in Nat
          /\ active_tasks \in Nat /\ full_list \in Nat
          /\ task_id_counter \in Nat /\ taken_tasks \in Nat
      OBVIOUS
    <3>3. /\ active_tasks = full_list + Through + Unsignalled
          /\ Len(list) = active_tasks + Taking + Posted
          /\ task_id_counter = taken_tasks + Len(list) + Counting
      OBVIOUS
    <3> HIDE DEF Unsignalled, Posted, Inv, TypeOK, Owner, Alone, Counts, Batch
    <3>4. /\ active_tasks' = full_list' + Through' + Unsignalled'
          /\ Len(list') = active_tasks' + Taking' + Posted'
          /\ task_id_counter' = taken_tasks' + Len(list') + Counting'
      <4>1. UNCHANGED <<active_tasks, full_list, taken_tasks, task_id_counter>>
        BY <2>3
      <4>2. active_tasks' = full_list' + Through' + Unsignalled'
        BY <2>5, <3>1, <3>3, <4>1
      <4>3. Len(list') = active_tasks' + Taking' + Posted'
        BY <1>0, <2>4, <2>5, <3>1, <3>2, <3>3, <4>1
      <4>4. task_id_counter' = taken_tasks' + Len(list') + Counting'
        BY <1>0, <2>4, <2>5, <3>2, <3>3, <4>1
      <4> QED
        BY <4>2, <4>3, <4>4
    <3> QED
      BY <2>3, <3>4 DEF Inv, Counts
  <2>9. Batch'
    BY <1>0, <2>1, <2>3, <2>4, <2>5
  <2> QED
    BY <2>3, <2>6, <2>7, <2>8, <2>9
<1>5. CASE CountTaken(e)
  <2>0. Through' = Through /\ Taking' = Taking /\ Counting' = Counting - 1
    BY <1>5, ElfGroups DEF CountTaken
  <2>1. TypeOK'
    BY <1>5, <1>0, <2>0 DEF CountTaken, ElfGoes
  <2>2. Owner' /\ Alone'
    BY <1>5, <1>0 DEF CountTaken, ElfGoes
  <2>3. Counts'
    BY <1>5, <1>0, <2>0 DEF CountTaken
  <2>4. Batch'
    BY <1>5, <1>0, <2>0 DEF CountTaken
  <2> QED
    BY <1>5, <2>1, <2>2, <2>3, <2>4 DEF CountTaken
<1>6. CASE DoWork(e)
  <2>0. Through' = Through /\ Taking' = Taking /\ Counting' = Counting
    BY <1>6, ElfGroups DEF DoWork
  <2>1. TypeOK'
    BY <1>6, <1>0, <2>0 DEF DoWork, ElfGoes
  <2>2. Owner' /\ Alone'
    BY <1>6, <1>0 DEF DoWork, ElfGoes
  <2>3. Counts'
    BY <1>6, <1>0, <2>0 DEF DoWork
  <2>4. Batch'
    BY <1>6, <1>0, <2>0 DEF DoWork
  <2> QED
    BY <1>6, <2>1, <2>2, <2>3, <2>4 DEF DoWork
<1>7. CASE TryLock(e)
  <2>0. Through' = Through /\ Taking' = Taking /\ Counting' = Counting
    BY <1>7, ElfGroups DEF TryLock
  <2>1. TypeOK'
    BY <1>7, <1>0, <2>0 DEF TryLock, ElfGoes
  <2>2. Owner' /\ Alone'
    BY <1>7, <1>0 DEF TryLock, ElfGoes
  <2>3. Counts'
    BY <1>7, <1>0, <2>0 DEF TryLock
  <2>4. Batch'
    BY <1>7, <1>0, <2>0 DEF TryLock
  <2> QED
    BY <1>7, <2>1, <2>2, <2>3, <2>4 DEF TryLock
<1>8. CASE CleanupUnlock(e)
  <2>0. Through' = Through /\ Taking' = Taking /\ Counting' = Counting
    BY <1>8, ElfGroups DEF CleanupUnlock
  <2>1. TypeOK'
    BY <1>8, <1>0, <2>0 DEF CleanupUnlock, ElfGoes
  <2>2. Owner' /\ Alone'
    BY <1>8, <1>0 DEF CleanupUnlock, ElfGoes
  <2>3. Counts'
    BY <1>8, <1>0, <2>0 DEF CleanupUnlock
  <2>4. Batch'
    BY <1>8, <1>0, <2>0 DEF CleanupUnlock
  <2> QED
    BY <1>8, <2>1, <2>2, <2>3, <2>4 DEF CleanupUnlock
<1>9. CASE Cancelled(e)
  <2>0. Through' = Through /\ Taking' = Taking /\ Counting' = Counting
    BY <1>9, ElfGroups DEF Cancelled
  <2>1. TypeOK'
    BY <1>9, <1>0 DEF Cancelled, ElfGoes
  <2>2. Owner' /\ Alone'
    BY <1>9, <1>0 DEF Cancelled, ElfGoes
  <2>3. Counts' /\ Batch'
    BY <1>9, <1>0, <2>0 DEF Cancelled
  <2> QED
    BY <1>9, <2>1, <2>2, <2>3 DEF Cancelled
<1> QED
  BY <1>1, <1>2, <1>3, <1>4, <1>5, <1>6, <1>7, <1>8, <1>9 DEF ElfStep

-----------------------------------------------------------------------------
LEMMA InvStep == Inv /\ [Next]_vars => Inv'
<1>1. ASSUME Inv, UNCHANGED vars PROVE Inv'
  <2>1. UNCHANGED <<Through, Taking, Counting>>
    BY <1>1, ElvesStay DEF vars
  <2> QED
    BY <1>1, <2>1 DEF vars, tasks, batch, count, sems, Inv, TypeOK, Owner, Alone,
                      Counts, Batch, Unsignalled, Posted
<1> QED
  BY <1>1, DobbyInv, ElfInv DEF Next

LEMMA Invariance == Spec => []Inv
BY InvInit, InvStep, PTL DEF Spec

(* The state of Assignment 4 has its types; in particular active_tasks      *)
(* never becomes negative.                                                  *)
THEOREM TypeCorrect == Spec => []TypeOK
<1>1. Inv => TypeOK
  BY DEF Inv
<1> QED
  BY <1>1, Invariance, PTL

(* The exit(-1) in take_task is unreachable.                                *)
THEOREM NeverEmptyHanded == Spec => []TaskForEveryElf
<1>1. Inv => TaskForEveryElf
  BY DEF Inv, TaskForEveryElf
<1> QED
  BY <1>1, Invariance, PTL

(* Dobby's unlocked post_tasks and an elf's take_task never overlap.        *)
THEOREM ListRaceFree == Spec => []ListHasOneUser
<1>1. Inv => ListHasOneUser
  BY DEF Inv, Alone, ListHasOneUser, DobbyAlone, Busy, ElfInside, At
<1> QED
  BY <1>1, Invariance, PTL

(* empty_list is binary and full_list stays within a batch.                 *)
THEOREM SemaphoresBounded == Spec => []SemaphoreRanges
<1>1. ASSUME Inv PROVE SemaphoreRanges
  <2>1. empty_list <= 1
    BY <1>1 DEF Inv, Counts
  <2>2. Unsignalled >= 0 /\ Unsignalled \in Int
    BY <1>1 DEF Inv, TypeOK, Batch, Unsignalled
  <2>3. full_list <= active_tasks
    BY <1>1, <2>2, GroupsNat DEF Inv, TypeOK, Counts
  <2>4. active_tasks <= BatchSize
    BY <1>1 DEF Inv, Batch
  <2> QED
    BY <1>1, <2>1, <2>3, <2>4, TaskAssumption DEF SemaphoreRanges, Inv, TypeOK
<1> QED
  BY <1>1, Invariance, PTL

(* Exactly the day's tasks are created, and Dobby dismisses the elves only  *)
(* when every one of them was taken.                                        *)
THEOREM AllTasksTaken == Spec => []TasksOfTheDay
<1>1. Inv => TasksOfTheDay
  BY DEF Inv, Batch, TasksOfTheDay, NoExtraTasks, DismissedAfterLastTask, Dismissing
<1> QED
  BY <1>1, Invariance, PTL
=============================================================================
