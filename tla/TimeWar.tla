------------------------------ MODULE TimeWar ------------------------------
(***************************************************************************)
(* Assignment 5, timewar.c: num_doctors threads wait for each other at a   *)
(* barrier, then each adds its index to one of the shared coordinates      *)
(* under lock2 and counts itself in ready under lock1.  main joins them,   *)
(* and Gallifrey stands when all are ready and the coordinates are right.  *)
(*                                                                         *)
(* The thirteen thread functions are one: they differ in the coordinate,   *)
(* in what they print and in the data they hash.  pthread_create stores a  *)
(* thread's id before the thread runs, as glibc's does, so that calculate  *)
(* finds the index of its own thread.  It may fail, for want of memory or  *)
(* of threads, and its result is ignored: there is no bound on how often.  *)
(***************************************************************************)
EXTENDS Integers, FiniteSets

CONSTANTS num_doctors,    (* 13 in the code                                 *)
          Coordinates,    (* 0 .. 3 in the code                             *)
          coordinateOf,   (* the coordinate each doctor adds to             *)
          correct,        (* what verify_coordinates compares with          *)
          NoOne           (* the owner of a free mutex                      *)

ASSUME DoctorAssumption ==
  /\ num_doctors \in Nat \ {0}
  /\ coordinateOf \in [0 .. num_doctors - 1 -> Coordinates]
  /\ correct \in [Coordinates -> Nat]
  /\ NoOne \notin 0 .. num_doctors

Doctors == 0 .. num_doctors - 1

main == num_doctors       (* main, as the owner of a mutex                  *)

VARIABLES
  program,                (* where main is                                  *)
  created,                (* how many pthread_create calls main has made    *)
  joined,                 (* how many pthread_join calls have returned      *)
  pc,                     (* where each doctor is                           *)
  arrived,                (* how many wait or have waited at the barrier    *)
  lock1, lock2,           (* the owners of the mutexes                      *)
  copy,                   (* the value each doctor has read                 *)
  coordinates,
  ready,
  final_ready

locks == <<lock1, lock2>>
sums  == <<coordinates, ready, final_ready>>
vars  == <<program, created, joined, pc, arrived, locks, copy, sums>>

Init ==
  /\ program = "gather"
  /\ created = 0 /\ joined = 0
  /\ pc = [d \in Doctors |-> "unborn"]
  /\ arrived = 0
  /\ lock1 = NoOne /\ lock2 = NoOne
  /\ copy = [d \in Doctors |-> 0]
  /\ coordinates = [c \in Coordinates |-> 0]
  /\ ready = 0 /\ final_ready = 0

At(S) == {d \in Doctors : pc[d] \in S}

Goto(d, from, to) == pc[d] = from /\ pc' = [pc EXCEPT ![d] = to]

MainGoes(from, to) == program = from /\ program' = to

-----------------------------------------------------------------------------
(* The doctors                                                              *)

Arrive(d) ==
  /\ Goto(d, "start", "barrier")
  /\ arrived' = arrived + 1
  /\ UNCHANGED <<program, created, joined, locks, copy, sums>>

(* Faulty: the barrier is initialised for one thread too few. *)
PassBarrier_OneShort(d) ==
  /\ Goto(d, "barrier", "calculated")
  /\ arrived >= num_doctors - 1
  /\ UNCHANGED <<program, created, joined, arrived, locks, copy, sums>>

(* pthread_barrier_wait returns when all have arrived; read_data and        *)
(* calculate work on the doctor's own memory.                               *)
PassBarrier(d) ==
  /\ Goto(d, "barrier", "calculated")
  /\ arrived = num_doctors
  /\ UNCHANGED <<program, created, joined, arrived, locks, copy, sums>>

(* Faulty: the coordinate is read without lock2. *)
ReadCoordinate_NoLock(d) ==
  /\ Goto(d, "calculated", "add")
  /\ lock2' = d
  /\ copy' = [copy EXCEPT ![d] = coordinates[coordinateOf[d]]]
  /\ UNCHANGED <<program, created, joined, arrived, lock1, sums>>

ReadCoordinate(d) ==
  /\ Goto(d, "calculated", "add")
  /\ lock2 = NoOne /\ lock2' = d
  /\ copy' = [copy EXCEPT ![d] = coordinates[coordinateOf[d]]]
  /\ UNCHANGED <<program, created, joined, arrived, lock1, sums>>

AddCoordinate(d) ==
  /\ Goto(d, "add", "added")
  /\ coordinates' = [coordinates EXCEPT ![coordinateOf[d]] = copy[d] + d]
  /\ lock2' = NoOne
  /\ UNCHANGED <<program, created, joined, arrived, lock1, copy, ready, final_ready>>

(* Faulty: ready is read under the other mutex. *)
ReadReady_OtherLock(d) ==
  /\ Goto(d, "added", "count")
  /\ lock2 = NoOne
  /\ lock1' = d
  /\ copy' = [copy EXCEPT ![d] = ready]
  /\ UNCHANGED <<program, created, joined, arrived, lock2, sums>>

ReadReady(d) ==
  /\ Goto(d, "added", "count")
  /\ lock1 = NoOne /\ lock1' = d
  /\ copy' = [copy EXCEPT ![d] = ready]
  /\ UNCHANGED <<program, created, joined, arrived, lock2, sums>>

CountReady(d) ==
  /\ Goto(d, "count", "done")
  /\ ready' = copy[d] + 1
  /\ lock1' = NoOne
  /\ UNCHANGED <<program, created, joined, arrived, lock2, copy, coordinates, final_ready>>

DoctorStep(d) ==
  \/ Arrive(d) \/ PassBarrier(d)
  \/ ReadCoordinate(d) \/ AddCoordinate(d)
  \/ ReadReady(d) \/ CountReady(d)

-----------------------------------------------------------------------------
(* main()                                                                   *)

(* One pthread_create of gather_doctors. *)
Create ==
  /\ MainGoes("gather", IF created + 1 = num_doctors THEN "wait" ELSE "gather")
  /\ created' = created + 1
  /\ pc' = [pc EXCEPT ![created] = "start"]
  /\ UNCHANGED <<joined, arrived, locks, copy, sums>>

(* It fails, and gather_doctors goes on with the next. *)
CreateFails ==
  /\ MainGoes("gather", IF created + 1 = num_doctors THEN "wait" ELSE "gather")
  /\ created' = created + 1
  /\ pc' = [pc EXCEPT ![created] = "missing"]
  /\ UNCHANGED <<joined, arrived, locks, copy, sums>>

(* Faulty: nobody is waited for. *)
Join_Detached ==
  /\ joined' = joined + 1
  /\ MainGoes("wait", IF joined + 1 = num_doctors THEN "read_ready" ELSE "wait")
  /\ pc[joined] # "missing"
  /\ UNCHANGED <<created, pc, arrived, locks, copy, sums>>

(* One pthread_join of wait_until_done. *)
Join ==
  /\ joined' = joined + 1
  /\ MainGoes("wait", IF joined + 1 = num_doctors THEN "read_ready" ELSE "wait")
  /\ pc[joined] = "done"
  /\ UNCHANGED <<created, pc, arrived, locks, copy, sums>>

(* The join of an id that was never stored is undefined: it returns at once *)
(* or main crashes.                                                         *)
JoinMissing ==
  /\ program = "wait" /\ pc[joined] = "missing"
  /\ \/ /\ MainGoes("wait", IF joined + 1 = num_doctors THEN "read_ready" ELSE "wait")
        /\ joined' = joined + 1
     \/ MainGoes("wait", "crashed") /\ UNCHANGED joined
  /\ UNCHANGED <<created, pc, arrived, locks, copy, sums>>

ReadFinalReady ==
  /\ MainGoes("read_ready", "verify")
  /\ lock1 = NoOne
  /\ final_ready' = ready
  /\ UNCHANGED <<created, joined, pc, arrived, locks, copy, coordinates, ready>>

VerifyCoordinates ==
  /\ lock2 = NoOne
  /\ MainGoes("verify", IF coordinates = correct /\ final_ready = num_doctors
                        THEN "stands" ELSE "falls")
  /\ UNCHANGED <<created, joined, pc, arrived, locks, copy, sums>>

MainStep ==
  \/ Create \/ CreateFails
  \/ Join \/ JoinMissing
  \/ ReadFinalReady \/ VerifyCoordinates

Next == MainStep \/ \E d \in Doctors : DoctorStep(d)

Spec == Init /\ [][Next]_vars

(* Every thread is scheduled; each takes each mutex once. *)
FairSpec ==
  /\ Spec
  /\ WF_vars(MainStep)
  /\ \A d \in Doctors : WF_vars(DoctorStep(d))

-----------------------------------------------------------------------------
TypeOK ==
  /\ program \in {"gather", "wait", "read_ready", "verify", "stands", "falls",
                  "crashed"}
  /\ created \in 0 .. num_doctors /\ joined \in 0 .. num_doctors
  /\ pc \in [Doctors -> {"unborn", "missing", "start", "barrier", "calculated",
                         "add", "added", "count", "done"}]
  /\ arrived \in 0 .. num_doctors
  /\ lock1 \in Doctors \cup {NoOne} /\ lock2 \in Doctors \cup {NoOne}
  /\ copy \in [Doctors -> Nat]
  /\ coordinates \in [Coordinates -> Nat]
  /\ ready \in Nat /\ final_ready \in Nat

(* No doctor's count is lost: ready is always the number of those that are  *)
(* done.                                                                    *)
ReadyCountsTheDone == ready = Cardinality(At({"done"}))

(* calculate reads the ids of all the doctors while gather_doctors may be   *)
(* storing them.  No doctor gets there before every id is stored, nor at    *)
(* all when one of them could not be created.                               *)
AllGatheredFirst ==
  At({"calculated", "add", "added", "count", "done"}) # {} =>
    /\ created = num_doctors
    /\ At({"missing"}) = {}

(* What main reports: Gallifrey stands only when every doctor has done both *)
(* of its additions, and falls only when no doctor at all could be created. *)
VerdictIsRight ==
  /\ program = "stands" => At({"done"}) = Doctors
  /\ program = "falls"  => At({"missing"}) = Doctors

(* Gallifrey stands, whatever the order of the doctors, unless one could    *)
(* not be created: no addition to a coordinate is lost, nobody waits for    *)
(* ever at the barrier, and main looks only when all are done.              *)
GallifreyStands == <>(program = "stands" \/ At({"missing"}) # {})
=============================================================================
