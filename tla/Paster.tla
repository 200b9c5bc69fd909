------------------------------- MODULE Paster -------------------------------
(***************************************************************************)
(* Lab 2, paster.c: threads ask the server for random strips of an image   *)
(* until num_retrieved says that all are there, write each strip they are  *)
(* the first to see to output_<seq>.png, and main concatenates the files.  *)
(*                                                                         *)
(* retrieved and num_retrieved are shared without any lock: each access to *)
(* them is an action of its own, and a thread's accesses happen in program *)
(* order.  The server, which names every strip it sends, is external.      *)
(***************************************************************************)
EXTENDS Integers, FiniteSets

CONSTANTS Threads,        (* the -t threads                                 *)
          NumParts,       (* 50 in the code                                 *)
          MaxFaults       (* bound on failed transfers and writes           *)

ASSUME ThreadAssumption == IsFiniteSet(Threads) /\ Threads # {}

ASSUME BoundAssumption == NumParts \in Nat \ {0} /\ MaxFaults \in Nat

Parts == 0 .. NumParts - 1

VARIABLES
  pc,                     (* where each thread is                           *)
  seq,                    (* the strip each thread received last            *)
  n,                      (* the value of num_retrieved a thread has read   *)
  retrieved,              (* the strips marked as retrieved                 *)
  num_retrieved,
  file,                   (* the strips whose file is written               *)
  main,                   (* joining, then the result of main               *)
  faults,
  twice,                  (* history: the strips two threads have marked    *)
  lost                    (* history: an increment was overwritten          *)

shared  == <<retrieved, num_retrieved>>
history == <<twice, lost>>
vars    == <<pc, seq, n, shared, file, main, faults, history>>

Init ==
  /\ pc = [t \in Threads |-> "check"]
  /\ seq = [t \in Threads |-> -1] /\ n = [t \in Threads |-> 0]
  /\ retrieved = {} /\ num_retrieved = 0
  /\ file = {}
  /\ main = "joining"
  /\ faults = 0
  /\ twice = {} /\ lost = FALSE

At(S) == {t \in Threads : pc[t] \in S}

Goto(t, from, to) == pc[t] = from /\ pc' = [pc EXCEPT ![t] = to]

Fault == faults < MaxFaults /\ faults' = faults + 1

-----------------------------------------------------------------------------
(* get_segment()                                                            *)

(* Faulty: the loop ends only when the count is exact. *)
Check_Exact(t) ==
  /\ Goto(t, "check", IF num_retrieved # NumParts THEN "perform" ELSE "done")
  /\ UNCHANGED <<seq, n, shared, file, main, faults, history>>

Check(t) ==
  /\ Goto(t, "check", IF num_retrieved < NumParts THEN "perform" ELSE "done")
  /\ UNCHANGED <<seq, n, shared, file, main, faults, history>>

(* The server sends a strip of its choice, and header_cb_curl names it.     *)
Answer(t, s) ==
  /\ Goto(t, "perform", "look")
  /\ seq' = [seq EXCEPT ![t] = s]
  /\ UNCHANGED <<n, shared, file, main, faults, history>>

(* The transfer fails, or the thread got no handle: it returns.             *)
PerformFails(t) ==
  /\ Goto(t, "perform", "done")
  /\ Fault
  /\ UNCHANGED <<seq, n, shared, file, main, history>>

Look(t) ==
  /\ Goto(t, "look", IF seq[t] \in retrieved THEN "check" ELSE "mark")
  /\ UNCHANGED <<seq, n, shared, file, main, faults, history>>

Mark(t) ==
  /\ Goto(t, "mark", "read")
  /\ retrieved' = retrieved \cup {seq[t]}
  /\ twice' = IF seq[t] \in retrieved THEN twice \cup {seq[t]} ELSE twice
  /\ UNCHANGED <<seq, n, num_retrieved, file, main, faults, lost>>

(* *num_retrieved = *num_retrieved + 1, in two accesses. *)
ReadCount(t) ==
  /\ Goto(t, "read", "store")
  /\ n' = [n EXCEPT ![t] = num_retrieved]
  /\ UNCHANGED <<seq, shared, file, main, faults, history>>

StoreCount(t) ==
  /\ Goto(t, "store", "write")
  /\ num_retrieved' = n[t] + 1
  /\ lost' = (lost \/ num_retrieved # n[t])
  /\ UNCHANGED <<seq, n, retrieved, file, main, faults, twice>>

(* Faulty: a thread that finds everything counted does not write its strip. *)
WriteFile_CheckFirst(t) ==
  /\ Goto(t, "write", "check")
  /\ file' = IF num_retrieved < NumParts THEN file \cup {seq[t]} ELSE file
  /\ UNCHANGED <<seq, n, shared, main, faults, history>>

(* write_file; two threads that have marked one strip write the same bytes. *)
WriteFile(t) ==
  /\ Goto(t, "write", "check")
  /\ file' = file \cup {seq[t]}
  /\ UNCHANGED <<seq, n, shared, main, faults, history>>

(* write_file fails before or after it has truncated the file; its result   *)
(* is not looked at.                                                        *)
WriteFails(t) ==
  /\ Goto(t, "write", "check")
  /\ Fault
  /\ file' \in {file, file \ {seq[t]}}
  /\ UNCHANGED <<seq, n, shared, main, history>>

Step(t) ==
  \/ Check(t)
  \/ \E s \in Parts : Answer(t, s)
  \/ Look(t) \/ Mark(t)
  \/ ReadCount(t) \/ StoreCount(t)
  \/ WriteFile(t)

-----------------------------------------------------------------------------
(* main(): the joins, catpng, and the removal of the strips' files, which   *)
(* happens whether or not catpng has succeeded.                             *)

Catpng ==
  /\ main = "joining"
  /\ At({"done"}) = Threads
  /\ main' = IF Parts \subseteq file THEN "merged" ELSE "failed"
  /\ file' = {}
  /\ UNCHANGED <<pc, seq, n, shared, faults, history>>

Next ==
  \/ \E t \in Threads : Step(t) \/ PerformFails(t) \/ WriteFails(t)
  \/ Catpng

Spec == Init /\ [][Next]_vars

(* Every thread is scheduled, every transfer ends, and the server's random  *)
(* choice does not leave out a strip for ever.                              *)
FairSpec ==
  /\ Spec
  /\ \A t \in Threads :
       /\ WF_vars(Step(t))
       /\ \A s \in Parts : SF_vars(Answer(t, s))
  /\ WF_vars(Catpng)

-----------------------------------------------------------------------------
TypeOK ==
  /\ pc \in [Threads -> {"check", "perform", "look", "mark", "read", "store",
                         "write", "done"}]
  /\ seq \in [Threads -> Parts \cup {-1}] /\ n \in [Threads -> Nat]
  /\ retrieved \subseteq Parts /\ num_retrieved \in Nat
  /\ file \subseteq Parts
  /\ main \in {"joining", "merged", "failed"}
  /\ faults \in 0 .. MaxFaults
  /\ twice \subseteq Parts /\ lost \in BOOLEAN

(* num_retrieved, which the threads use unprotected, overruns NumParts by   *)
(* at most one strip for each thread but one, unless an increment was lost: *)
(* a stale value may then reopen the loop for threads that had counted      *)
(* enough, and only the strips that are left to mark bound the count.       *)
OverrunBounded ==
  num_retrieved <= IF lost THEN NumParts * Cardinality(Threads)
                           ELSE NumParts + Cardinality(Threads) - 1

(* catpng misses a strip only if two threads marked one strip and counted   *)
(* it twice, or a transfer or a write failed.  In particular lost           *)
(* increments alone, or a single thread, never lose a strip.                *)
MissingOnlyIfCountedTwice == main = "failed" => twice # {} \/ faults > 0

(* The threads end, unless an increment of num_retrieved was lost: then the *)
(* count never reaches NumParts and they ask the server for ever.           *)
EndsUnlessIncrementLost == <>(main # "joining" \/ lost)

(* What the description of the algorithm promises (paster.c:155-158): all   *)
(* segments are retrieved and output before they are concatenated.          *)
RetrievesAll == main = "failed" => faults > 0
=============================================================================
