------------------------------ MODULE Hogwarts ------------------------------
(***************************************************************************)
(* Assignment 4, hogwarts.c: Dobby posts the day's tasks to a list in      *)
(* batches, the house elves take and do them, and Dobby posts the next     *)
(* batch when the last task of the current one is being taken.  post_tasks *)
(* and take_task are not thread safe: take_task runs under the mutex, and  *)
(* post_tasks without it, while Dobby holds the token of empty_list.       *)
(*                                                                         *)
(* A task is its id.  Integers are taken to be wide enough.                *)
(***************************************************************************)
EXTENDS Integers, Sequences, FiniteSets

CONSTANTS Elves,            (* NUM_ELVES threads                           *)
          Dobby,            (* the thread that posts                       *)
          NoOne,            (* the owner of a free mutex                   *)
          total_tasks,      (* atoi(argv[1])                               *)
          BatchSize         (* 10 in the code                              *)

ASSUME ThreadAssumption ==
  /\ IsFiniteSet(Elves) /\ Elves # {}
  /\ Dobby \notin Elves /\ NoOne \notin Elves \cup {Dobby}

ASSUME TaskAssumption == total_tasks \in Int /\ BatchSize \in Nat \ {0}

VARIABLES
  program,                  (* running, exited, or failed: exit(-1)        *)
  dobby,                    (* where Dobby is                              *)
  elf,                      (* where each elf is                           *)
  hand,                     (* the task each elf has taken, 0 for none     *)
  list,                     (* the list at list_head                       *)
  to_be_posted, i,          (* Dobby's batch and its loop counter          *)
  active_tasks, taken_tasks, task_id_counter,
  empty_list, full_list,    (* semaphores                                  *)
  mutex,                    (* its owner                                   *)
  cancelled,                (* the elves pthread_cancel was called for     *)
  completed                 (* the tasks reported as completed             *)

batch == <<to_be_posted, i>>
tasks == <<hand, list, completed>>
count == <<active_tasks, taken_tasks, task_id_counter>>
sems  == <<empty_list, full_list>>
vars  == <<program, dobby, elf, tasks, batch, count, sems, mutex, cancelled>>

Init ==
  /\ program = "running"
  /\ dobby = "create"
  /\ elf = [e \in Elves |-> "unborn"]
  /\ hand = [e \in Elves |-> 0]
  /\ list = <<>>
  /\ to_be_posted = 0 /\ i = 0
  /\ active_tasks = 0 /\ taken_tasks = 0 /\ task_id_counter = 0
  /\ empty_list = 1 /\ full_list = 0
  /\ mutex = NoOne
  /\ cancelled = {} /\ completed = {}

At(S) == {e \in Elves : elf[e] \in S}

DobbyGoes(from, to) == dobby = from /\ dobby' = to

ElfGoes(e, from, to) == elf[e] = from /\ elf' = [elf EXCEPT ![e] = to]

Lock(t) == mutex = NoOne /\ mutex' = t

(* A default mutex becomes free whoever unlocks it. *)
Unlock == mutex' = NoOne

-----------------------------------------------------------------------------
(* dobby()                                                                  *)

CreateElf(e) ==
  /\ dobby = "create"
  /\ ElfGoes(e, "unborn", "wait")
  /\ dobby' = IF At({"unborn"}) = {e} THEN "wait_empty" ELSE dobby
  /\ UNCHANGED <<program, tasks, batch, count, sems, mutex, cancelled>>

(* Faulty: Dobby reads taken_tasks without the mutex. *)
WaitEmpty_NoLock ==
  /\ DobbyGoes("wait_empty", "count")
  /\ empty_list > 0
  /\ empty_list' = empty_list - 1
  /\ UNCHANGED <<program, elf, tasks, batch, count, full_list, mutex, cancelled>>

WaitEmpty ==
  /\ DobbyGoes("wait_empty", "lock_count")
  /\ empty_list > 0
  /\ empty_list' = empty_list - 1
  /\ UNCHANGED <<program, elf, tasks, batch, count, full_list, mutex, cancelled>>

LockToCount ==
  /\ DobbyGoes("lock_count", "count")
  /\ Lock(Dobby)
  /\ UNCHANGED <<program, elf, tasks, batch, count, sems, cancelled>>

MIN(a, b) == IF a < b THEN a ELSE b

(* Decide under the mutex how many tasks to post, unlock, and leave the     *)
(* loop when there is none.                                                 *)
CountTasks ==
  /\ LET n == MIN(BatchSize, total_tasks - taken_tasks)
     IN  /\ DobbyGoes("count", IF n <= 0 THEN "cancel" ELSE "post")
         /\ to_be_posted' = n
  /\ i' = 0
  /\ Unlock
  /\ UNCHANGED <<program, elf, tasks, count, sems, cancelled>>

(* One turn of post_tasks' loop; the mutex is not held. *)
PostTask ==
  /\ DobbyGoes("post", IF i + 1 = to_be_posted THEN "lock_active" ELSE "post")
  /\ task_id_counter' = task_id_counter + 1
  /\ list' = <<task_id_counter'>> \o list
  /\ i' = i + 1
  /\ UNCHANGED <<program, elf, hand, completed, to_be_posted, active_tasks,
                 taken_tasks, sems, mutex, cancelled>>

LockToActivate ==
  /\ DobbyGoes("lock_active", "activate")
  /\ Lock(Dobby)
  /\ UNCHANGED <<program, elf, tasks, batch, count, sems, cancelled>>

(* Faulty: the counter of active tasks is replaced by the number posted     *)
(* one too few.                                                             *)
Activate_OffByOne ==
  /\ DobbyGoes("activate", "signal")
  /\ active_tasks' = active_tasks + to_be_posted - 1
  /\ i' = 0
  /\ Unlock
  /\ UNCHANGED <<program, elf, tasks, to_be_posted, taken_tasks,
                 task_id_counter, sems, cancelled>>

Activate ==
  /\ DobbyGoes("activate", "signal")
  /\ active_tasks' = active_tasks + to_be_posted
  /\ i' = 0
  /\ Unlock
  /\ UNCHANGED <<program, elf, tasks, to_be_posted, taken_tasks,
                 task_id_counter, sems, cancelled>>

(* Faulty: the loop runs once too often. *)
SignalFull_OnceMore ==
  /\ DobbyGoes("signal", IF i = to_be_posted THEN "wait_empty" ELSE "signal")
  /\ full_list' = full_list + 1
  /\ i' = i + 1
  /\ UNCHANGED <<program, elf, tasks, to_be_posted, count, empty_list, mutex,
                 cancelled>>

(* One sem_post(&full_list) of the batch. *)
SignalFull ==
  /\ DobbyGoes("signal", IF i + 1 = to_be_posted THEN "wait_empty" ELSE "signal")
  /\ full_list' = full_list + 1
  /\ i' = i + 1
  /\ UNCHANGED <<program, elf, tasks, to_be_posted, count, empty_list, mutex,
                 cancelled>>

CancelElf(e) ==
  /\ dobby = "cancel"
  /\ e \notin cancelled
  /\ cancelled' = cancelled \cup {e}
  /\ dobby' = IF cancelled' = Elves THEN "join" ELSE dobby
  /\ UNCHANGED <<program, elf, tasks, batch, count, sems, mutex>>

(* The joins, and main's join of Dobby and its cleanup. *)
JoinElves ==
  /\ DobbyGoes("join", "done")
  /\ \A e \in Elves : elf[e] = "dead"
  /\ program' = "exited"
  /\ UNCHANGED <<elf, tasks, batch, count, sems, mutex, cancelled>>

DobbyStep ==
  \/ \E e \in Elves : CreateElf(e) \/ CancelElf(e)
  \/ WaitEmpty \/ LockToCount \/ CountTasks
  \/ PostTask
  \/ LockToActivate \/ Activate \/ SignalFull
  \/ JoinElves

-----------------------------------------------------------------------------
(* house_elf()                                                              *)

WaitFull(e) ==
  /\ ElfGoes(e, "wait", "lock")
  /\ full_list > 0
  /\ full_list' = full_list - 1
  /\ UNCHANGED <<program, dobby, tasks, batch, count, empty_list, mutex, cancelled>>

LockToTake(e) ==
  /\ ElfGoes(e, "lock", "decrement")
  /\ Lock(e)
  /\ UNCHANGED <<program, dobby, tasks, batch, count, sems, cancelled>>

(* Faulty: Dobby is woken when one task is left. *)
Decrement_WakeEarly(e) ==
  /\ ElfGoes(e, "decrement", "take")
  /\ active_tasks' = active_tasks - 1
  /\ empty_list' = IF active_tasks' <= 1 THEN empty_list + 1 ELSE empty_list
  /\ UNCHANGED <<program, dobby, tasks, batch, taken_tasks, task_id_counter,
                 full_list, mutex, cancelled>>

(* active_tasks--, and Dobby is woken by the elf that finds it zero. *)
Decrement(e) ==
  /\ ElfGoes(e, "decrement", "take")
  /\ active_tasks' = active_tasks - 1
  /\ empty_list' = IF active_tasks' = 0 THEN empty_list + 1 ELSE empty_list
  /\ UNCHANGED <<program, dobby, tasks, batch, taken_tasks, task_id_counter,
                 full_list, mutex, cancelled>>

(* take_task: the program exits when the list is empty. *)
TakeTask(e) ==
  /\ IF list = <<>>
     THEN /\ elf[e] = "take" /\ program' = "failed"
          /\ UNCHANGED <<elf, hand, list>>
     ELSE /\ ElfGoes(e, "take", "count")
          /\ hand' = [hand EXCEPT ![e] = Head(list)]
          /\ list' = Tail(list)
          /\ UNCHANGED program
  /\ UNCHANGED <<dobby, completed, batch, count, sems, mutex, cancelled>>

(* taken_tasks++ and unlock. *)
CountTaken(e) ==
  /\ ElfGoes(e, "count", "work")
  /\ taken_tasks' = taken_tasks + 1
  /\ Unlock
  /\ UNCHANGED <<program, dobby, tasks, batch, active_tasks, task_id_counter,
                 sems, cancelled>>

(* do_work: the task is reported as completed and freed. *)
DoWork(e) ==
  /\ ElfGoes(e, "work", "wait")
  /\ completed' = completed \cup {hand[e]}
  /\ hand' = [hand EXCEPT ![e] = 0]
  /\ UNCHANGED <<program, dobby, list, batch, count, sems, mutex, cancelled>>

(* The two points at which a cancelled elf ends: blocked in sem_wait, or    *)
(* writing the report in do_work, where it keeps the task it was doing.     *)
Cancelled(e) ==
  /\ e \in cancelled
  /\ ElfGoes(e, "wait", "trylock") \/ ElfGoes(e, "work", "trylock")
  /\ UNCHANGED <<program, dobby, tasks, batch, count, sems, mutex, cancelled>>

(* house_elf_cleanup: the trylock, whose result is not looked at. *)
TryLock(e) ==
  /\ ElfGoes(e, "trylock", "unlock")
  /\ mutex' = IF mutex = NoOne THEN e ELSE mutex
  /\ UNCHANGED <<program, dobby, tasks, batch, count, sems, cancelled>>

CleanupUnlock(e) ==
  /\ ElfGoes(e, "unlock", "dead")
  /\ Unlock
  /\ UNCHANGED <<program, dobby, tasks, batch, count, sems, cancelled>>

ElfStep(e) ==
  \/ WaitFull(e) \/ LockToTake(e) \/ Decrement(e)
  \/ TakeTask(e) \/ CountTaken(e)
  \/ DoWork(e)
  \/ Cancelled(e) \/ TryLock(e) \/ CleanupUnlock(e)

-----------------------------------------------------------------------------
Next == program = "running" /\ (DobbyStep \/ \E e \in Elves : ElfStep(e))

Spec == Init /\ [][Next]_vars

(* Every thread is scheduled.  Each makes finitely many steps, so weak      *)
(* fairness is enough for the mutex and the semaphores.                     *)
FairSpec ==
  /\ Spec
  /\ WF_vars(program = "running" /\ DobbyStep)
  /\ \A e \in Elves : WF_vars(program = "running" /\ ElfStep(e))

-----------------------------------------------------------------------------
DobbyPC == {"create", "wait_empty", "lock_count", "count", "post",
            "lock_active", "activate", "signal", "cancel", "join", "done"}
ElfPC   == {"unborn", "wait", "lock", "decrement", "take", "count", "work",
            "trylock", "unlock", "dead"}

TypeOK ==
  /\ program \in {"running", "exited", "failed"}
  /\ dobby \in DobbyPC
  /\ elf \in [Elves -> ElfPC]
  /\ hand \in [Elves -> Nat]
  /\ list \in Seq(Nat)
  /\ to_be_posted \in Int /\ i \in Nat
  /\ active_tasks \in Nat /\ taken_tasks \in Nat /\ task_id_counter \in Nat
  /\ empty_list \in Nat /\ full_list \in Nat
  /\ mutex \in Elves \cup {Dobby, NoOne}
  /\ cancelled \subseteq Elves
  /\ completed \subseteq Nat

(* The exit(-1) of take_task (hogwarts.c:264-268, "Something has gone       *)
(* wrong") is unreachable: an elf that was let through full_list finds a    *)
(* task, though Dobby posts without the mutex.                              *)
TaskForEveryElf == program # "failed"

(* post_tasks, which is not thread safe and runs without the mutex, never   *)
(* runs while an elf is in take_task: the token of empty_list keeps them    *)
(* apart.                                                                   *)
ListHasOneUser == dobby = "post" => At({"take"}) = {}

(* The comments on the semaphores: empty_list is binary (hogwarts.c:89) and *)
(* full_list counts up to a batch (hogwarts.c:90).                          *)
SemaphoreRanges == empty_list <= 1 /\ full_list <= BatchSize

(* No more tasks are created than the day has: Dobby's reading of           *)
(* taken_tasks is never behind the elves when he sizes a batch.             *)
NoExtraTasks == task_id_counter <= total_tasks \/ task_id_counter = 0

(* Dobby dismisses the elves only when every task of the day was taken.     *)
DismissedAfterLastTask ==
  dobby \in {"cancel", "join", "done"} => taken_tasks >= total_tasks /\ list = <<>>

(* The tasks of the day: none is added to them, and none is left over when  *)
(* the elves are dismissed.                                                 *)
TasksOfTheDay == NoExtraTasks /\ DismissedAfterLastTask

(* The program exits by itself: Dobby and the elves never wait for each     *)
(* other for ever.                                                          *)
DayEnds == <>(program = "exited")

(* What Assignment 4's README promises: the elves have finished all the     *)
(* tasks when the program ends.                                             *)
AllTasksCompleted == program = "exited" => \A t \in 1 .. total_tasks : t \in completed
=============================================================================
