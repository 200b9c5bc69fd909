------------------------------ MODULE Paster2 ------------------------------
(***************************************************************************)
(* Lab 3, paster2.c: producer processes download the NumParts strips of an *)
(* image into a ring in shared memory, consumer processes write each strip *)
(* to output_<seq>.png, and the parent concatenates the files once its     *)
(* children have ended.                                                    *)
(*                                                                         *)
(* A strip is its sequence number.  A behaviour ends in a state in which   *)
(* two processes are inside the critical section of shared_mutex (Race):   *)
(* from there they modify the ring concurrently, which C leaves undefined. *)
(***************************************************************************)
EXTENDS Buffer, FiniteSets

CONSTANTS Producers,     (* the child processes that run producer()        *)
          Consumers,     (* the child processes that run consumer()        *)
          NoProc,        (* the owner of a free mutex                      *)
          NumParts,      (* 50 in the code                                 *)
          NoSeq,         (* the seq of a RECV_BUF no header named: -1      *)
          MaxFaults      (* bound on the failures of one behaviour         *)

ASSUME ProcessAssumption ==
  /\ IsFiniteSet(Producers) /\ IsFiniteSet(Consumers)
  /\ Producers \cap Consumers = {}
  /\ NoProc \notin Producers \cup Consumers

ASSUME PartAssumption == NumParts \in Nat /\ NoSeq \notin Nat

ASSUME FaultAssumption == MaxFaults \in Nat

Proc  == Producers \cup Consumers
Parts == 0 .. NumParts - 1
Seqs  == Parts \cup {NoSeq}

VARIABLES
  pc,               (* where each process is                               *)
  k,                (* the counter value each process last read            *)
  recv,             (* the seq of each process's recv_buf, -1 without one  *)
  buffer,           (* the shared struct Buffer                            *)
  shared_spaces, shared_items,                            (* semaphores    *)
  shared_mutex, counter_mutex,                            (* their owners  *)
  num_produced, num_consumed,
  file,             (* output_<seq>.png: absent, partial, whole, or merged *)
                    (* into all.png and removed                            *)
  parent,           (* where the parent is                                 *)
  faults            (* how many failures there were                        *)

ring     == <<buffer, shared_spaces, shared_items, shared_mutex>>
counters == <<counter_mutex, num_produced, num_consumed>>
outside  == <<file, parent, faults>>
vars     == <<pc, k, recv, ring, counters, outside>>

ProducerPC == {"unborn", "init", "claim", "bump", "fetch", "p_space", "p_lock",
               "p_add", "p_post", "done", "no_handle", "fetch_failed"}
ConsumerPC == {"unborn", "c_claim", "c_bump", "c_item", "c_lock", "c_pop",
               "c_post", "c_write", "done", "unwritten"}
Ended      == {"done", "no_handle", "fetch_failed", "unwritten"}

(* The processes whose program counter is in S. *)
At(S) == {p \in Proc : pc[p] \in S}

Init ==
  /\ pc = [p \in Proc |-> "unborn"]
  /\ k = [p \in Proc |-> 0]
  /\ recv = [p \in Proc |-> NoSeq]
  /\ buffer = Buffer_init(NoSeq)
  /\ shared_spaces = MaxSize /\ shared_items = 0
  /\ shared_mutex = NoProc /\ counter_mutex = NoProc
  /\ num_produced = 0 /\ num_consumed = 0
  /\ file = [s \in Seqs |-> "absent"]
  /\ parent = "forking"
  /\ faults = 0

Goto(p, from, to) == pc[p] = from /\ pc' = [pc EXCEPT ![p] = to]

(* Something outside the program fails. *)
Fault == faults < MaxFaults /\ faults' = faults + 1

-----------------------------------------------------------------------------
(* producer()                                                               *)

CurlInit(p) ==
  /\ Goto(p, "init", "claim")
  /\ UNCHANGED <<k, recv, ring, counters, outside>>

CurlInitFails(p) ==
  /\ Goto(p, "init", "no_handle")
  /\ Fault
  /\ UNCHANGED <<k, recv, ring, counters, file, parent>>

(* Faulty: the counter is read without the mutex. *)
ReadProduced_Unlocked(p) ==
  /\ Goto(p, "claim", "bump")
  /\ counter_mutex' = p
  /\ k' = [k EXCEPT ![p] = num_produced]
  /\ UNCHANGED <<recv, ring, num_produced, num_consumed, outside>>

(* Lock counter_mutex and read num_produced. *)
ReadProduced(p) ==
  /\ Goto(p, "claim", "bump")
  /\ counter_mutex = NoProc
  /\ counter_mutex' = p
  /\ k' = [k EXCEPT ![p] = num_produced]
  /\ UNCHANGED <<recv, ring, num_produced, num_consumed, outside>>

(* Faulty: the counter is incremented past the last strip, as consumer()    *)
(* does with its own.                                                       *)
BumpProduced_Always(p) ==
  /\ Goto(p, "bump", IF k[p] < NumParts THEN "fetch" ELSE "done")
  /\ num_produced' = num_produced + 1
  /\ counter_mutex' = NoProc
  /\ UNCHANGED <<k, recv, ring, num_consumed, outside>>

(* Increment num_produced while strips are left, unlock, and leave the loop *)
(* or go on with a fresh recv_buf, whose seq is -1.                         *)
BumpProduced(p) ==
  /\ IF k[p] < NumParts
     THEN Goto(p, "bump", "fetch") /\ num_produced' = num_produced + 1
     ELSE Goto(p, "bump", "done") /\ UNCHANGED num_produced
  /\ counter_mutex' = NoProc
  /\ UNCHANGED <<k, recv, ring, num_consumed, outside>>

(* The server answers with the strip; header_cb_curl sets seq. *)
Answer(p) ==
  /\ Goto(p, "fetch", "p_space")
  /\ recv' = [recv EXCEPT ![p] = k[p]]
  /\ k' = [k EXCEPT ![p] = 0]
  /\ UNCHANGED <<ring, counters, outside>>

(* The answer has no X-Ece252-Fragment header, as an error page has none:   *)
(* curl_easy_perform still returns CURLE_OK and seq stays -1.               *)
AnswerUnnamed(p) ==
  /\ Goto(p, "fetch", "p_space")
  /\ Fault
  /\ k' = [k EXCEPT ![p] = 0]
  /\ UNCHANGED <<recv, ring, counters, file, parent>>

(* The transfer fails, and the process with it; or the answer is larger     *)
(* than recv_buf and write_cb_curl aborts the process.                      *)
CurlFails(p) ==
  /\ Goto(p, "fetch", "fetch_failed")
  /\ Fault
  /\ k' = [k EXCEPT ![p] = 0]
  /\ UNCHANGED <<recv, ring, counters, file, parent>>

WaitSpace(p) ==
  /\ Goto(p, "p_space", "p_lock")
  /\ shared_spaces > 0
  /\ shared_spaces' = shared_spaces - 1
  /\ UNCHANGED <<k, recv, buffer, shared_items, shared_mutex, counters, outside>>

(* Faulty: the mutex is not waited for. *)
LockToAdd_NoWait(p) ==
  /\ Goto(p, "p_lock", "p_add")
  /\ shared_mutex' = p
  /\ UNCHANGED <<k, recv, buffer, shared_spaces, shared_items, counters, outside>>

LockToAdd(p) ==
  /\ Goto(p, "p_lock", "p_add")
  /\ shared_mutex = NoProc
  /\ shared_mutex' = p
  /\ UNCHANGED <<k, recv, buffer, shared_spaces, shared_items, counters, outside>>

(* Buffer_add, whose return code is ignored, and the unlock. *)
AddImage(p) ==
  /\ Goto(p, "p_add", "p_post")
  /\ buffer' = Buffer_add(buffer, recv[p])
  /\ shared_mutex' = NoProc
  /\ UNCHANGED <<k, recv, shared_spaces, shared_items, counters, outside>>

(* Faulty: the producer gives back a space instead of an item. *)
PostItem_Swapped(p) ==
  /\ Goto(p, "p_post", "claim")
  /\ shared_spaces' = shared_spaces + 1
  /\ recv' = [recv EXCEPT ![p] = NoSeq]
  /\ UNCHANGED <<k, buffer, shared_items, shared_mutex, counters, outside>>

(* sem_post, then recv_buf is freed. *)
PostItem(p) ==
  /\ Goto(p, "p_post", "claim")
  /\ shared_items' = shared_items + 1
  /\ recv' = [recv EXCEPT ![p] = NoSeq]
  /\ UNCHANGED <<k, buffer, shared_spaces, shared_mutex, counters, outside>>

ProducerStep(p) ==
  \/ CurlInit(p)
  \/ ReadProduced(p) \/ BumpProduced(p)
  \/ Answer(p)
  \/ WaitSpace(p) \/ LockToAdd(p) \/ AddImage(p) \/ PostItem(p)

ProducerFault(p) == CurlInitFails(p) \/ AnswerUnnamed(p) \/ CurlFails(p)

-----------------------------------------------------------------------------
(* consumer()                                                               *)

ReadConsumed(p) ==
  /\ Goto(p, "c_claim", "c_bump")
  /\ counter_mutex = NoProc
  /\ counter_mutex' = p
  /\ k' = [k EXCEPT ![p] = num_consumed]
  /\ UNCHANGED <<recv, ring, num_produced, num_consumed, outside>>

(* Increment num_consumed, unlock, and leave the loop or go on with a fresh *)
(* recv_buf.                                                                *)
BumpConsumed(p) ==
  /\ IF k[p] < NumParts
     THEN Goto(p, "c_bump", "c_item")
     ELSE Goto(p, "c_bump", "done")
  /\ num_consumed' = num_consumed + 1
  /\ counter_mutex' = NoProc
  /\ k' = [k EXCEPT ![p] = 0]
  /\ UNCHANGED <<recv, ring, num_produced, outside>>

(* Faulty: the item is only looked at. *)
WaitItem_Peek(p) ==
  /\ Goto(p, "c_item", "c_lock")
  /\ shared_items > 0
  /\ UNCHANGED <<k, recv, ring, counters, outside>>

WaitItem(p) ==
  /\ Goto(p, "c_item", "c_lock")
  /\ shared_items > 0
  /\ shared_items' = shared_items - 1
  /\ UNCHANGED <<k, recv, buffer, shared_spaces, shared_mutex, counters, outside>>

LockToPop(p) ==
  /\ Goto(p, "c_lock", "c_pop")
  /\ shared_mutex = NoProc
  /\ shared_mutex' = p
  /\ UNCHANGED <<k, recv, buffer, shared_spaces, shared_items, counters, outside>>

(* Buffer_pop, whose return code is ignored, and the unlock. *)
PopImage(p) ==
  /\ Goto(p, "c_pop", "c_post")
  /\ buffer' = Buffer_pop(buffer)
  /\ recv' = IF IsEmpty(buffer) THEN recv ELSE [recv EXCEPT ![p] = Popped(buffer)]
  /\ shared_mutex' = NoProc
  /\ UNCHANGED <<k, shared_spaces, shared_items, counters, outside>>

(* Faulty: the space is not given back. *)
PostSpace_Forgotten(p) ==
  /\ Goto(p, "c_post", "c_write")
  /\ UNCHANGED <<k, recv, ring, counters, outside>>

PostSpace(p) ==
  /\ Goto(p, "c_post", "c_write")
  /\ shared_spaces' = shared_spaces + 1
  /\ UNCHANGED <<k, recv, buffer, shared_items, shared_mutex, counters, outside>>

(* write_file, then recv_buf is freed. *)
WriteImage(p) ==
  /\ Goto(p, "c_write", "c_claim")
  /\ file' = [file EXCEPT ![recv[p]] = "whole"]
  /\ recv' = [recv EXCEPT ![p] = NoSeq]
  /\ UNCHANGED <<k, ring, counters, parent, faults>>

(* write_file fails before or after it has created the file.  The consumer  *)
(* then unlocks shared_mutex, which it does not own: the mutex becomes free *)
(* whoever holds it.                                                        *)
WriteFails(p) ==
  /\ Goto(p, "c_write", "unwritten")
  /\ Fault
  /\ file' \in {file, [file EXCEPT ![recv[p]] = "partial"]}
  /\ shared_mutex' = NoProc
  /\ UNCHANGED <<k, recv, buffer, shared_spaces, shared_items, counters, parent>>

ConsumerStep(p) ==
  \/ ReadConsumed(p) \/ BumpConsumed(p)
  \/ WaitItem(p) \/ LockToPop(p) \/ PopImage(p) \/ PostSpace(p)
  \/ WriteImage(p)

-----------------------------------------------------------------------------
(* main()                                                                   *)

Children == <<pc, k, recv, ring, counters>>

(* Producers are forked before consumers. *)
Fork(p) ==
  /\ parent = "forking"
  /\ p \in Consumers => \A q \in Producers : pc[q] # "unborn"
  /\ Goto(p, "unborn", IF p \in Producers THEN "init" ELSE "c_claim")
  /\ parent' = IF At({"unborn"}) = {p} THEN "waiting" ELSE parent
  /\ UNCHANGED <<k, recv, ring, counters, file, faults>>

(* fork() fails: the parent aborts and the children it has go on. *)
ForkFails ==
  /\ parent = "forking"
  /\ Fault
  /\ parent' = "aborted"
  /\ UNCHANGED <<Children, file>>

(* The waitpid calls; the exit status of a child is not looked at. *)
WaitChildren ==
  /\ parent = "waiting"
  /\ \A p \in Proc : pc[p] \in Ended
  /\ parent' = "catpng"
  /\ UNCHANGED <<Children, file, faults>>

(* all.png is written and the strips' files are removed.  A damaged file    *)
(* may escape catpng, which checks little of what it reads.                 *)
CatpngSucceeds ==
  /\ parent = "catpng"
  /\ \A s \in Parts : file[s] # "absent"
  /\ parent' = "destroying"
  /\ file' = [s \in Seqs |-> CASE s \notin Parts     -> file[s]
                              [] file[s] = "whole" -> "merged"
                              [] OTHER             -> "absent"]
  /\ UNCHANGED <<Children, faults>>

(* A file is missing or damaged.  The names are then used and freed again   *)
(* after they were freed: the parent crashes, or goes on, no file removed.  *)
CatpngFails ==
  /\ parent = "catpng"
  /\ \E s \in Parts : file[s] # "whole"
  /\ parent' \in {"crashed", "destroying"}
  /\ UNCHANGED <<Children, file, faults>>

(* The semaphores, mutexes and shared memory segments are destroyed. *)
Destroy ==
  /\ parent = "destroying"
  /\ parent' = "exited"
  /\ UNCHANGED <<Children, file, faults>>

ParentStep ==
  \/ \E p \in Proc : Fork(p)
  \/ WaitChildren
  \/ CatpngSucceeds \/ CatpngFails
  \/ Destroy

-----------------------------------------------------------------------------
CriticalSection == {"p_add", "c_pop"}

Race == \E p, q \in At(CriticalSection) : p # q

Next ==
  /\ ~Race
  /\ \/ \E p \in Producers : ProducerStep(p) \/ ProducerFault(p)
     \/ \E p \in Consumers : ConsumerStep(p) \/ WriteFails(p)
     \/ ParentStep
     \/ ForkFails

Spec == Init /\ [][Next]_vars

(* Every process is scheduled and every transfer ends.  A process makes     *)
(* finitely many steps, so weak fairness is enough for the locks.           *)
Fairness ==
  /\ \A p \in Producers : WF_vars(~Race /\ ProducerStep(p))
  /\ \A p \in Consumers : WF_vars(~Race /\ ConsumerStep(p))
  /\ WF_vars(~Race /\ ParentStep)

FairSpec == Spec /\ Fairness

-----------------------------------------------------------------------------
TypeOK ==
  /\ pc \in [Proc -> ProducerPC \cup ConsumerPC]
  /\ \A p \in Producers : pc[p] \in ProducerPC
  /\ \A p \in Consumers : pc[p] \in ConsumerPC
  /\ k \in [Proc -> Nat]
  /\ recv \in [Proc -> Seqs]
  /\ buffer \in BufferOf(Seqs)
  /\ shared_spaces \in Nat /\ shared_items \in Nat
  /\ shared_mutex \in Proc \cup {NoProc}
  /\ counter_mutex \in Proc \cup {NoProc}
  /\ num_produced \in 0 .. NumParts
  /\ num_consumed \in Nat
  /\ file \in [Seqs -> {"absent", "partial", "whole", "merged"}]
  /\ parent \in {"forking", "waiting", "catpng", "destroying", "exited",
                 "aborted", "crashed"}
  /\ faults \in 0 .. MaxFaults

(* Two processes are inside the critical section of shared_mutex only after *)
(* a consumer whose write failed has unlocked the mutex for its holder      *)
(* (paster2.c:225); no other order of the calls lets a second one in.       *)
RaceOnlyAfterFailedWrite == Race => At({"unwritten"}) # {}

(* The return codes paster2.c ignores at lines 214 and 283 are always 0:    *)
(* the ring is never full when a producer adds to it and never empty when a *)
(* consumer pops from it, whichever processes have failed.                  *)
IgnoredReturnCodes ==
  /\ At({"p_add"}) # {} => ~IsFull(buffer)
  /\ At({"c_pop"}) # {} => ~IsEmpty(buffer)

(* The two semaphores count the free and the used slots of the ring, less   *)
(* those a process has reserved and plus those it has not yet announced.    *)
SemaphoreBalance ==
  /\ shared_spaces + Cardinality(At({"p_lock", "p_add"}))
       + buffer.size + Cardinality(At({"c_post"})) = MaxSize
  /\ shared_items + Cardinality(At({"c_lock", "c_pop"}))
       + Cardinality(At({"p_post"})) = buffer.size

(* When the parent starts catpng, every strip is in its file, or the server *)
(* sent an answer that named none, or a consumer could not write a file.    *)
(* In particular no strip is downloaded twice in place of another, and none *)
(* is left in the ring when the children have ended.                        *)
SegmentsWhole ==
  parent = "catpng" =>
    \/ \A s \in Parts : file[s] = "whole"
    \/ file[NoSeq] # "absent"
    \/ At({"unwritten"}) # {}

(* What the comment at paster2.c:136 assumes: when catpng starts, all the   *)
(* segments exist in the directory.                                         *)
SegmentsExist ==
  parent = "catpng" => \A s \in Parts : file[s] # "absent"

Over == parent \in {"exited", "aborted", "crashed"}

(* The program ends unless a transfer failed (its strip is then never       *)
(* produced and a consumer waits for it for ever), no producer got a curl   *)
(* handle, every consumer has failed, or its processes race.                *)
Completes ==
  <>(\/ Over
     \/ Race
     \/ At({"fetch_failed"}) # {}
     \/ \A p \in Producers : pc[p] = "no_handle"
     \/ \A p \in Consumers : pc[p] = "unwritten")

-----------------------------------------------------------------------------
(* Lab 3 implements the abstract pipeline.                                  *)

Fetching(s) ==
  \E p \in Producers : \/ pc[p] = "fetch" /\ k[p] = s
                       \/ pc[p] \in {"p_space", "p_lock", "p_add"} /\ recv[p] = s

Queued(s) == \E i \in 1 .. buffer.size : Contents(buffer)[i] = s

Taken(s) == \E p \in Consumers : pc[p] \in {"c_post", "c_write"} /\ recv[p] = s

StageOf(s) ==
  CASE s >= num_produced                -> "todo"
    [] Fetching(s)                      -> "fetching"
    [] Queued(s)                        -> "queued"
    [] Taken(s)                         -> "taken"
    [] file[s] \in {"whole", "merged"}  -> "stored"
    [] OTHER                            -> "lost"

Pipeline == INSTANCE PartPipeline WITH
              stage <- [s \in Parts |-> StageOf(s)],
              queue <- Contents(buffer)

(* Whatever the processes do, every strip is claimed once, passes the queue *)
(* once and in order, and is stored at most once.                           *)
ImplementsPipeline == Pipeline!Spec
=============================================================================
