--------------------------- MODULE Findpng2Proofs ---------------------------
(***************************************************************************)
(* Safety of Lab 4 for every web, every number of threads and every target.*)
(*                                                                         *)
(* QueueInv: what blocked_threads and the waiters of the condition         *)
(* variable say of where the threads are.  It holds because every step has *)
(* one of seven effects on them.                                           *)
(* VisitInv: what a thread knows of the URL it visits.                     *)
(* LeaveInv: threads that leave short of the target leave nothing behind.  *)
(* Together they make every step one of the abstract crawl or a stutter.   *)
(***************************************************************************)
EXTENDS Findpng2, SequenceTheorems, FiniteSetTheorems, TLAPS

(* The threads that are neither blocked nor gone. *)
Active   == ThreadPC \ {"waiting", "done"}
Visiting == {"fetch", "links", "png"}

UrlInv ==
  \A t \in Threads : pc[t] \in {"visit"} \cup Visiting => url[t] \in URL

(* How many wait, how many are active, who leaves, who is gone. *)
Waiting == Cardinality(At({"waiting"}))
Running == Cardinality(At(Active))
Leaving == At({"leave", "done"})
Gone    == At({"done"})

(* While no thread leaves, blocked_threads is the number of those waiting;  *)
(* later it is at least that.  A thread that has not been woken sees a      *)
(* count below the number of threads; and once one is gone, the missing     *)
(* ones are active.                                                         *)
QueueInv ==
  /\ blocked_threads >= Waiting
  /\ Leaving = {} => blocked_threads = Waiting /\ blocked_threads < num_threads
  /\ waiters # {} => blocked_threads < num_threads
  /\ Gone # {} => blocked_threads + Running >= num_threads

CoreInv == TypeOK /\ UrlInv /\ QueueInv

-----------------------------------------------------------------------------
(* Counting the threads at a place.                                         *)

LEMMA AtFinite ==
  ASSUME NEW S
  PROVE  /\ IsFiniteSet(At(S)) /\ Cardinality(At(S)) \in Nat
         /\ Cardinality(At(S)) <= num_threads
         /\ Cardinality(At(S)) = num_threads => At(S) = Threads
         /\ Cardinality(At(S)) = 0 <=> At(S) = {}
         /\ num_threads \in Nat \ {0}
<1>1. At(S) \in SUBSET Threads
  BY DEF At
<1>2. IsFiniteSet(At(S)) /\ Cardinality(At(S)) <= Cardinality(Threads)
      /\ (Cardinality(Threads) = Cardinality(At(S)) => Threads = At(S))
  BY <1>1, ThreadAssumption, FS_Subset
<1>3. Cardinality(Threads) \in Nat /\ Cardinality(Threads) # 0
  BY ThreadAssumption, FS_CardinalityType, FS_EmptySet
<1> QED
  BY <1>2, <1>3, FS_CardinalityType, FS_EmptySet DEF num_threads

(* One thread moves. *)
LEMMA AtMoves ==
  ASSUME pc \in [Threads -> ThreadPC], NEW t \in Threads, NEW from, NEW to,
         Goto(t, from, to), NEW S
  PROVE  Cardinality(At(S)') =
           Cardinality(At(S)) + (IF to \in S THEN 1 ELSE 0)
                              - (IF from \in S THEN 1 ELSE 0)
<1>1. IsFiniteSet(At(S)) /\ Cardinality(At(S)) \in Nat
  BY AtFinite
<1>2. pc[t] = from /\ pc'[t] = to /\ \A s \in Threads : s # t => pc'[s] = pc[s]
  BY DEF Goto
<1>3. CASE to \in S /\ from \notin S
  <2>1. At(S)' = At(S) \cup {t} /\ t \notin At(S)
    BY <1>2, <1>3 DEF At
  <2>2. Cardinality(At(S) \cup {t}) = Cardinality(At(S)) + 1
    BY <1>1, <2>1, FS_AddElement
  <2> QED
    BY <1>1, <1>3, <2>1, <2>2
<1>4. CASE to \notin S /\ from \in S
  <2>1. At(S)' = At(S) \ {t} /\ t \in At(S)
    BY <1>2, <1>4 DEF At
  <2>2. Cardinality(At(S) \ {t}) = Cardinality(At(S)) - 1
    BY <1>1, <2>1, FS_RemoveElement
  <2> QED
    BY <1>1, <1>4, <2>1, <2>2
<1>5. CASE to \in S <=> from \in S
  <2>1. At(S)' = At(S)
    BY <1>2, <1>5 DEF At
  <2> QED
    BY <1>1, <1>5, <2>1
<1> QED
  BY <1>3, <1>4, <1>5

-----------------------------------------------------------------------------
(* What a step does to the queue's bookkeeping.                             *)

Still == UNCHANGED <<pc, blocked_threads, waiters>>

Works(t) ==
  /\ \E from \in Active \ {"leave"}, to \in Active : Goto(t, from, to)
  /\ blocked_threads' = blocked_threads /\ waiters' \subseteq waiters

Waits(t) ==
  /\ Goto(t, "frontier", "waiting")
  /\ blocked_threads' = blocked_threads + 1 /\ blocked_threads' < num_threads

Ends(t) ==
  /\ Goto(t, "frontier", "leave")
  /\ blocked_threads' = blocked_threads + 1 /\ blocked_threads' >= num_threads
  /\ waiters' = {}

GivesUp(t) ==
  /\ Goto(t, "waiting", "leave")
  /\ blocked_threads >= num_threads /\ blocked_threads' = blocked_threads
  /\ waiters' = {}

GoesOn(t) ==
  /\ \E to \in {"visit", "check"} : Goto(t, "waiting", to)
  /\ blocked_threads' = blocked_threads - 1 /\ waiters' \subseteq waiters

Goes(t) ==
  /\ Goto(t, "leave", "done")
  /\ blocked_threads' = num_threads /\ waiters' = {}

Moves(t) == Works(t) \/ Waits(t) \/ Ends(t) \/ GivesUp(t) \/ GoesOn(t) \/ Goes(t)

LEMMA StepMoves ==
  ASSUME TypeOK, NEW t \in Threads, WorkStep(t) \/ WorkFault(t)
  PROVE  Still \/ Moves(t)
<1> USE DEF Moves, queue
<1>1. CASE CheckTarget(t) \/ Recheck(t) \/ LinksDone(t) \/ AddPng(t) \/ Fetch(t) \/ FetchFails(t)
  <2>1. PICK from \in Active \ {"leave"}, to \in Active : Goto(t, from, to)
    BY <1>1 DEF CheckTarget, Recheck, LinksDone, AddPng, Fetch, FetchFails, Active, ThreadPC, Goto
  <2>2. UNCHANGED <<blocked_threads, waiters>>
    BY <1>1 DEF CheckTarget, Recheck, LinksDone, AddPng, Fetch, FetchFails
  <2> QED
    BY <2>1, <2>2 DEF Works
<1>2. CASE Pop(t)
  BY <1>2 DEF Pop, PopFrontier, Works, Active, ThreadPC
<1>3. CASE PushLink(t)
  BY <1>3 DEF PushLink, Signal, Works, Active, ThreadPC
<1>4. CASE Visit(t)
  BY <1>4 DEF Visit, Works, Still, Active, ThreadPC
<1>5. CASE Block(t)
  <2>1. num_threads \in Nat /\ blocked_threads \in Nat
    BY AtFinite DEF TypeOK
  <2> QED
    BY <1>5, <2>1 DEF Block, Waits, Ends
<1>6. CASE Wake(t) \/ WakeSpuriously(t)
  <2>1. Resume(t)
    BY <1>6 DEF Wake, WakeSpuriously
  <2> QED
    BY <2>1 DEF Resume, PopFrontier, GivesUp, GoesOn
<1>7. CASE Leave(t)
  BY <1>7 DEF Leave, Goes
<1>8. CASE NoHandle(t) \/ LogFails(t)
  BY <1>8 DEF NoHandle, LogFails, Still
<1> QED
  BY <1>1, <1>2, <1>3, <1>4, <1>5, <1>6, <1>7, <1>8 DEF WorkStep, WorkFault

LEMMA QueueStep ==
  ASSUME TypeOK, QueueInv, NEW t \in Threads, Moves(t)
  PROVE  QueueInv' /\ blocked_threads' \in Nat
<1>1. /\ pc \in [Threads -> ThreadPC] /\ blocked_threads \in Nat
      /\ num_threads \in Nat \ {0} /\ Waiting \in Nat /\ Running \in Nat
      /\ Waiting <= num_threads
  BY AtFinite DEF TypeOK, Waiting, Running
<1>2. /\ blocked_threads >= Waiting
      /\ Leaving = {} => blocked_threads = Waiting /\ blocked_threads < num_threads
      /\ waiters # {} => blocked_threads < num_threads
      /\ Gone # {} => blocked_threads + Running >= num_threads
  BY DEF QueueInv
<1>3. /\ pc[t] = "waiting" => Waiting >= 1
      /\ pc[t] \in Active => Running >= 1
  <2>1. /\ pc[t] = "waiting" => At({"waiting"}) # {}
        /\ pc[t] \in Active => At(Active) # {}
    BY DEF At
  <2> QED
    BY <1>1, <2>1, AtFinite DEF Waiting, Running
<1>4. "waiting" \notin Active /\ "done" \notin Active
      /\ {"leave", "frontier", "visit", "check"} \subseteq Active
  BY DEF Active, ThreadPC
<1>5. ASSUME NEW from, NEW to, Goto(t, from, to)
      PROVE  /\ pc[t] = from
             /\ Waiting' = Waiting + (IF to = "waiting" THEN 1 ELSE 0)
                                   - (IF from = "waiting" THEN 1 ELSE 0)
             /\ Running' = Running + (IF to \in Active THEN 1 ELSE 0)
                                   - (IF from \in Active THEN 1 ELSE 0)
             /\ Leaving' = {} => to \notin {"leave", "done"}
                                 /\ (from \notin {"leave", "done"} => Leaving = {})
             /\ Gone' # {} => to = "done" \/ Gone # {}
  <2>1. pc[t] = from /\ pc'[t] = to /\ \A s \in Threads : s # t => pc'[s] = pc[s]
    BY <1>1, <1>5 DEF Goto
  <2>2. Cardinality(At({"waiting"})') =
          Cardinality(At({"waiting"})) + (IF to \in {"waiting"} THEN 1 ELSE 0)
                                       - (IF from \in {"waiting"} THEN 1 ELSE 0)
    BY <1>1, <1>5, AtMoves
  <2>3. Cardinality(At(Active)') =
          Cardinality(At(Active)) + (IF to \in Active THEN 1 ELSE 0)
                                  - (IF from \in Active THEN 1 ELSE 0)
    BY <1>1, <1>5, AtMoves
  <2>4. Active' = Active
    BY DEF Active, ThreadPC
  <2>5. /\ Leaving' = {} => to \notin {"leave", "done"}
                            /\ (from \notin {"leave", "done"} => Leaving = {})
        /\ Gone' # {} => to = "done" \/ Gone # {}
    BY <2>1 DEF At, Leaving, Gone
  <2> QED
    BY <2>1, <2>2, <2>3, <2>4, <2>5 DEF Waiting, Running
<1>6. SUFFICES /\ blocked_threads' \in Nat
               /\ blocked_threads' >= Waiting'
               /\ Leaving' = {} => /\ blocked_threads' = Waiting'
                                   /\ blocked_threads' < num_threads
               /\ waiters' # {} => blocked_threads' < num_threads
               /\ Gone' # {} => blocked_threads' + Running' >= num_threads
  BY DEF QueueInv
<1>7. CASE Works(t)
  <2>1. PICK from \in Active \ {"leave"}, to \in Active : Goto(t, from, to)
    BY <1>7 DEF Works
  <2>2. blocked_threads' = blocked_threads /\ waiters' \subseteq waiters
    BY <1>7 DEF Works
  <2>3. /\ pc[t] = from /\ Waiting' = Waiting /\ Running' = Running
        /\ (Leaving' = {} => Leaving = {}) /\ (Gone' # {} => Gone # {})
    BY <1>1, <1>4, <1>5, <2>1
  <2> QED
    BY <1>1, <1>2, <1>3, <2>2, <2>3
<1>8. CASE Waits(t)
  <2>1. /\ Goto(t, "frontier", "waiting")
        /\ blocked_threads' = blocked_threads + 1 /\ blocked_threads' < num_threads
    BY <1>8 DEF Waits
  <2>2. /\ pc[t] = "frontier"
        /\ Waiting' = Waiting + 1 /\ Running' = Running - 1
        /\ (Leaving' = {} => Leaving = {}) /\ (Gone' # {} => Gone # {})
    BY <1>1, <1>4, <1>5, <2>1
  <2> QED
    BY <1>1, <1>2, <1>3, <2>1, <2>2
<1>9. CASE Ends(t)
  <2>1. /\ Goto(t, "frontier", "leave") 
        /\ blocked_threads' = blocked_threads + 1 /\ blocked_threads' >= num_threads
        /\ waiters' = {}
    BY <1>9 DEF Ends
  <2>2. /\ pc[t] = "frontier"
        /\ Waiting' = Waiting /\ Running' = Running
        /\ Leaving' # {}
        /\ Gone' # {} => Gone # {}
    BY <1>1, <1>4, <1>5, <2>1
  <2> QED
    BY <1>1, <1>2, <1>3, <2>1, <2>2
<1>10. CASE GivesUp(t)
  <2>1. /\ Goto(t, "waiting", "leave")
        /\ blocked_threads >= num_threads /\ blocked_threads' = blocked_threads
        /\ waiters' = {}
    BY <1>10 DEF GivesUp
  <2>2. /\ pc[t] = "waiting"
        /\ Waiting' = Waiting - 1 /\ Running' = Running + 1
        /\ Leaving' # {}
        /\ Gone' # {} => Gone # {}
    BY <1>1, <1>4, <1>5, <2>1
  <2> QED
    BY <1>1, <1>2, <1>3, <2>1, <2>2
<1>11. CASE GoesOn(t)
  <2>1. PICK to \in {"visit", "check"} : Goto(t, "waiting", to)
    BY <1>11 DEF GoesOn
  <2>2. blocked_threads' = blocked_threads - 1 /\ waiters' \subseteq waiters
    BY <1>11 DEF GoesOn
  <2>3. /\ pc[t] = "waiting" /\ Waiting' = Waiting - 1 /\ Running' = Running + 1
        /\ (Leaving' = {} => Leaving = {}) /\ (Gone' # {} => Gone # {})
    BY <1>1, <1>4, <1>5, <2>1
  <2>4. Waiting >= 1
    BY <1>3, <2>3
  <2>5. blocked_threads - 1 \in Nat
    BY <1>1, <1>2, <2>3, <2>4
  <2> QED
    BY <1>1, <1>2, <2>2, <2>3, <2>4, <2>5
<1>12. CASE Goes(t)
  <2>1. /\ Goto(t, "leave", "done")
        /\ blocked_threads' = num_threads /\ waiters' = {}
    BY <1>12 DEF Goes
  <2>2. /\ pc[t] = "leave"
        /\ Waiting' = Waiting /\ Running' = Running - 1
        /\ Leaving' # {}
    BY <1>1, <1>4, <1>5, <2>1
  <2>3. Running >= 1
    BY <1>3, <1>4, <2>2
  <2> QED
    BY <1>1, <2>1, <2>2, <2>3
<1> QED
  BY <1>7, <1>8, <1>9, <1>10, <1>11, <1>12 DEF Moves

-----------------------------------------------------------------------------
(* The types and the queue's bookkeeping.                                   *)

(* A step keeps the types, and a thread at work has a URL in hand. *)
LEMMA TypeStep ==
  ASSUME TypeOK, UrlInv, NEW t \in Threads, WorkStep(t) \/ WorkFault(t),
         blocked_threads' \in Nat
  PROVE  TypeOK' /\ UrlInv'
<1> USE DEF ThreadPC, Visiting
<1>1. /\ target \in Targets /\ pc \in [Threads -> ThreadPC]
      /\ program \in {"running", "exited", "crashed", "aborted", "log_crashed"}
      /\ url \in [Threads -> URL \cup {NoUrl}] /\ pushed \in [Threads -> Nat]
      /\ frontier \in Seq(URL) /\ waiters \subseteq Threads
      /\ visited \subseteq URL /\ failed \subseteq URL
      /\ phead \in Seq(URL) /\ pngs_collected \in Nat
      /\ faults \in 0 .. MaxFaults /\ MaxFaults \in Nat
  BY BoundAssumption DEF TypeOK
<1>2. SUFFICES /\ target' \in Targets /\ pc' \in [Threads -> ThreadPC]
               /\ program' \in {"running", "exited", "crashed", "aborted", "log_crashed"}
               /\ url' \in [Threads -> URL \cup {NoUrl}] /\ pushed' \in [Threads -> Nat]
               /\ frontier' \in Seq(URL) /\ waiters' \subseteq Threads
               /\ visited' \subseteq URL /\ failed' \subseteq URL
               /\ phead' \in Seq(URL) /\ pngs_collected' \in Nat
               /\ faults' \in 0 .. MaxFaults
               /\ UrlInv'
  BY DEF TypeOK
<1>3. ASSUME Fault PROVE faults' \in 0 .. MaxFaults
  BY <1>1, <1>3 DEF Fault
<1>4. \A s \in Threads : pc[s] \in {"visit"} \cup Visiting => url[s] \in URL
  BY DEF UrlInv
<1>5. frontier # <<>> => Head(frontier) \in URL /\ Tail(frontier) \in Seq(URL)
  BY <1>1
<1>6. CASE CheckTarget(t)
  BY <1>1, <1>3, <1>4, <1>5, <1>6, WebAssumption
  DEF CheckTarget, Goto, Drop, mine, queue, found, world, UrlInv
<1>7. CASE Pop(t)
  BY <1>1, <1>3, <1>4, <1>5, <1>7, WebAssumption
  DEF Pop, PopFrontier, Goto, Drop, mine, queue, found, world, UrlInv
<1>8. CASE Block(t)
  BY <1>1, <1>3, <1>4, <1>5, <1>8, WebAssumption
  DEF Block, Goto, Drop, mine, queue, found, world, UrlInv
<1>9. ASSUME Resume(t)
      PROVE  /\ pc' \in [Threads -> ThreadPC] /\ url' \in [Threads -> URL \cup {NoUrl}]
             /\ pushed' \in [Threads -> Nat] /\ frontier' \in Seq(URL)
             /\ waiters' \subseteq Threads /\ UrlInv'
  <2>1. waiters' \subseteq Threads
    BY <1>1, <1>9 DEF Resume
  <2>2. CASE UNCHANGED <<mine, frontier>> /\ \E to \in {"leave", "check"} : Goto(t, "waiting", to)
    BY <1>1, <1>4, <2>1, <2>2 DEF Goto, mine, UrlInv
  <2>3. CASE PopFrontier(t, "waiting")
    BY <1>1, <1>4, <1>5, <2>1, <2>3 DEF PopFrontier, Goto, UrlInv
  <2> QED
    BY <1>9, <2>2, <2>3 DEF Resume
<1>10. CASE Wake(t) \/ WakeSpuriously(t)
  <2>1. Resume(t) /\ UNCHANGED <<visited, phead, pngs_collected, target, program, failed>>
    BY <1>10 DEF Wake, WakeSpuriously, found, world
  <2>2. faults' \in 0 .. MaxFaults
    BY <1>1, <1>3, <1>10 DEF Wake, WakeSpuriously, world
  <2> QED
    BY <1>1, <1>9, <2>1, <2>2
<1>11. CASE Visit(t)
  <2>1. url[t] \in URL
    BY <1>4, <1>11 DEF Visit, Goto
  <2>2. /\ UNCHANGED <<queue, found, target, failed, faults>>
        /\ program' \in {program, "crashed"} /\ visited' \subseteq URL
    BY <1>1, <1>11, <2>1 DEF Visit, world
  <2>3. /\ url' \in [Threads -> URL \cup {NoUrl}] /\ pushed' \in [Threads -> Nat]
        /\ pc' \in [Threads -> ThreadPC]
        /\ UrlInv'
    <3>1. CASE UNCHANGED pc /\ UNCHANGED mine
      BY <1>1, <1>4, <3>1 DEF mine, UrlInv
    <3>2. CASE Goto(t, "visit", "check") /\ Drop(t)
      BY <1>1, <1>4, <3>2 DEF Goto, Drop, UrlInv
    <3>3. CASE Goto(t, "visit", "fetch") /\ UNCHANGED mine
      BY <1>1, <1>4, <3>3 DEF Goto, mine, UrlInv
    <3> QED
      BY <1>11, <3>1, <3>2, <3>3 DEF Visit
  <2> QED
    BY <1>1, <2>2, <2>3
  DEF Goto, Drop, mine, queue, found, world, UrlInv
<1>12. CASE Fetch(t)
  BY <1>1, <1>3, <1>4, <1>5, <1>12, WebAssumption
  DEF Fetch, Goto, Drop, mine, queue, found, world, UrlInv
<1>13. CASE FetchFails(t)
  BY <1>1, <1>3, <1>4, <1>5, <1>13, WebAssumption
  DEF FetchFails, Goto, Drop, mine, queue, found, world, UrlInv
<1>14. CASE NoHandle(t)
  BY <1>1, <1>3, <1>4, <1>5, <1>14, WebAssumption
  DEF NoHandle, Goto, Drop, mine, queue, found, world, UrlInv
<1>15. CASE LogFails(t)
  BY <1>1, <1>3, <1>4, <1>5, <1>15, WebAssumption
  DEF LogFails, Goto, Drop, mine, queue, found, world, UrlInv
<1>16. CASE PushLink(t)
  <2>1. url[t] \in URL /\ pushed[t] \in Nat /\ pushed[t] < Len(Links[url[t]])
    BY <1>1, <1>4, <1>16 DEF PushLink, Goto
  <2>2. Links[url[t]] \in Seq(URL) /\ pushed[t] + 1 \in 1 .. Len(Links[url[t]])
    BY <2>1, WebAssumption
  <2>3. Links[url[t]][pushed[t] + 1] \in URL
    BY <2>2, ElementOfSeq
  <2>4. frontier' \in Seq(URL)
    BY <1>1, <1>16, <2>3, AppendProperties DEF PushLink
  <2>5. waiters' \subseteq Threads
    BY <1>1, <1>16 DEF PushLink, Signal
  <2>6. pushed' \in [Threads -> Nat]
    BY <1>1, <1>16 DEF PushLink
  <2> QED
    BY <1>1, <1>4, <1>16, <2>4, <2>5, <2>6
    DEF PushLink, Goto, Drop, mine, queue, found, world, UrlInv
<1>17. CASE LinksDone(t)
  BY <1>1, <1>3, <1>4, <1>5, <1>17, WebAssumption
  DEF LinksDone, Goto, Drop, mine, queue, found, world, UrlInv
<1>18. CASE AddPng(t)
  <2>1. url[t] \in URL
    BY <1>4, <1>18 DEF AddPng, Goto
  <2>2. phead' \in Seq(URL) /\ pngs_collected' \in Nat
    <3>1. <<EffectiveURL[url[t]]>> \in Seq(URL)
      BY <2>1, WebAssumption
    <3>2. ASSUME phead' = <<EffectiveURL[url[t]]>> \o phead
          PROVE  phead' \in Seq(URL)
      <4>1. <<EffectiveURL[url[t]]>> \o phead \in Seq(URL)
        BY <1>1, <3>1, ConcatProperties
      <4> QED
        BY <3>2, <4>1, Zenon
    <3>3. \/ /\ phead' = <<EffectiveURL[url[t]]>> \o phead
             /\ pngs_collected' = pngs_collected + 1
          \/ phead' = phead /\ pngs_collected' = pngs_collected
      BY <1>18 DEF AddPng, found
    <3> QED
      BY <1>1, <3>2, <3>3
  <2> QED
    BY <1>1, <1>4, <1>18, <2>2
    DEF AddPng, Goto, Drop, mine, queue, found, world, UrlInv
<1>19. CASE Recheck(t)
  BY <1>1, <1>3, <1>4, <1>5, <1>19, WebAssumption
  DEF Recheck, Goto, Drop, mine, queue, found, world, UrlInv
<1>20. CASE Leave(t)
  BY <1>1, <1>3, <1>4, <1>5, <1>20, WebAssumption
  DEF Leave, Goto, Drop, mine, queue, found, world, UrlInv
<1> QED
  BY <1>6, <1>7, <1>8, <1>10, <1>11, <1>12, <1>13, <1>14, <1>15, <1>16, <1>17,
     <1>18, <1>19, <1>20 DEF WorkStep, WorkFault

LEMMA CoreInit == Init => CoreInv
<1> SUFFICES ASSUME Init PROVE CoreInv
  OBVIOUS
<1>1. TypeOK
  <2>1. <<Seed>> \in Seq(URL) /\ <<>> \in Seq(URL)
    BY WebAssumption
  <2> QED
    BY <2>1, BoundAssumption DEF Init, TypeOK, ThreadPC
<1>2. /\ Waiting = 0 /\ At({"leave", "done"}) = {} /\ At({"done"}) = {}
      /\ num_threads \in Nat \ {0}
  <2>1. At({"waiting"}) = {} /\ At({"leave", "done"}) = {} /\ At({"done"}) = {}
    BY DEF Init, At
  <2> QED
    BY <2>1, AtFinite DEF Waiting
<1> QED
  BY <1>1, <1>2 DEF CoreInv, QueueInv, UrlInv, Init, Leaving, Gone, Visiting

LEMMA CoreStep == CoreInv /\ [Next]_vars => CoreInv'
<1> SUFFICES ASSUME CoreInv, [Next]_vars PROVE CoreInv'
  OBVIOUS
<1> USE DEF CoreInv
<1>1. CASE UNCHANGED vars
  BY <1>1 DEF vars, mine, queue, found, world, TypeOK, UrlInv, QueueInv, Waiting, Running,
              Leaving, Gone, At, Active, ThreadPC
<1>2. CASE Exit
  BY <1>2 DEF Exit, mine, queue, found, TypeOK, UrlInv, QueueInv, Waiting, Running,
              Leaving, Gone, At, Active, ThreadPC
<1>3. ASSUME NEW t \in Threads, WorkStep(t) \/ WorkFault(t) PROVE CoreInv'
  <2>1. CASE Moves(t)
    BY <1>3, <2>1, QueueStep, TypeStep
  <2>2. CASE Still
    <3>1. QueueInv' /\ blocked_threads' \in Nat
      BY <2>2 DEF Still, TypeOK, QueueInv, Waiting, Running, Leaving, Gone, At, Active, ThreadPC
    <3> QED
      BY <1>3, <3>1, TypeStep
  <2> QED
    BY <1>3, <2>1, <2>2, StepMoves
<1> QED
  BY <1>1, <1>2, <1>3 DEF Next

(* The invariant of the waiting threads holds throughout. *)
THEOREM CoreInvariant == Spec => []CoreInv
BY CoreInit, CoreStep, PTL DEF Spec

(* Every variable keeps its type. *)
THEOREM TypeCorrect == Spec => []TypeOK
<1>1. CoreInv => TypeOK
  BY DEF CoreInv
<1> QED
  BY <1>1, CoreInvariant, PTL

(* As long as no thread leaves, blocked_threads is the number of threads    *)
(* blocked on the frontier, whatever wake-ups come without a signal.        *)
THEOREM BlockedRight == Spec => []BlockedCount
<1>1. CoreInv => BlockedCount
  BY DEF CoreInv, QueueInv, BlockedCount, Leaving, Waiting
<1> QED
  BY <1>1, CoreInvariant, PTL

(* No thread is left on the condition variable with nobody to signal it: if *)
(* one has not been woken the count is below the number of threads, so some *)
(* thread is still at work or about to leave, and will signal.              *)
THEOREM NoneLeftBehind == Spec => []NoneLeftWaiting
<1>1. CoreInv => NoneLeftWaiting
  <2> SUFFICES ASSUME CoreInv, waiters # {}, At({"waiting", "done"}) = Threads
               PROVE  FALSE
    BY DEF NoneLeftWaiting
  <2>1. /\ blocked_threads >= Waiting /\ blocked_threads < num_threads
        /\ Leaving = {} => blocked_threads = Waiting
        /\ Gone # {} => blocked_threads + Running >= num_threads
    BY DEF CoreInv, QueueInv
  <2>2. pc \in [Threads -> ThreadPC] /\ blocked_threads \in Nat
    BY DEF CoreInv, TypeOK
  <2>3. At(Active) = {}
    BY DEF At, Active
  <2>4. Running = 0 /\ num_threads \in Nat
    BY <2>3, AtFinite DEF Running
  <2>5. Gone = {}
    BY <2>1, <2>2, <2>4
  <2>6. At({"waiting"}) = Threads
    BY <2>5 DEF At, Gone
  <2>7. Waiting = num_threads
    BY <2>6 DEF Waiting, num_threads
  <2> QED
    BY <2>1, <2>2, <2>4, <2>7
<1> QED
  BY <1>1, CoreInvariant, PTL

(* A failed ENTER can crash the program only when the web has more URLs     *)
(* than the table has room for: what findpng2.c:95 relies on is true of     *)
(* smaller webs.                                                            *)
THEOREM SmallWebsAreSafe ==
  ASSUME IsFiniteSet(URL), Cardinality(URL) <= TableSize
  PROVE  Spec => []EnterSucceeds
<1>1. CoreInv /\ EnterSucceeds /\ [Next]_vars => EnterSucceeds'
  <2> SUFFICES ASSUME CoreInv, EnterSucceeds, Next PROVE program' # "crashed"
    BY DEF EnterSucceeds, vars, world
  <2>1. CASE Exit
    BY <2>1 DEF Exit
  <2>2. ASSUME NEW t \in Threads, WorkStep(t) \/ WorkFault(t) PROVE program' # "crashed"
    <3>1. CASE NoHandle(t) \/ LogFails(t)
      BY <3>1 DEF NoHandle, LogFails
    <3>2. CASE Visit(t)
      <4>1. url[t] \in URL /\ visited \subseteq URL
        BY <3>2 DEF Visit, Goto, CoreInv, UrlInv, TypeOK
      <4>2. ASSUME url[t] \notin visited PROVE Cardinality(visited) < TableSize
        <5>1. /\ IsFiniteSet(visited) /\ Cardinality(visited) \in Nat
              /\ Cardinality(URL) \in Nat /\ Cardinality(visited) <= Cardinality(URL)
              /\ Cardinality(visited) # Cardinality(URL)
          BY <4>1, <4>2, FS_Subset, FS_CardinalityType
        <5> QED
          BY <5>1, BoundAssumption
      <4> QED
        BY <3>2, <4>2 DEF Visit, world, EnterSucceeds
    <3>3. CASE ~ (NoHandle(t) \/ LogFails(t) \/ Visit(t))
      <4>1. program' = program
        BY <2>2, <3>3
        DEF WorkStep, WorkFault, CheckTarget, Recheck, Pop, Block, Wake, WakeSpuriously,
            Fetch, FetchFails, PushLink, LinksDone, AddPng, Leave, world
      <4> QED
        BY <4>1 DEF EnterSucceeds
    <3> QED
      BY <3>1, <3>2, <3>3
  <2> QED
    BY <2>1, <2>2 DEF Next
<1>2. Init => EnterSucceeds
  BY DEF Init, EnterSucceeds
<1> QED
  BY <1>1, <1>2, CoreInvariant, PTL DEF Spec

-----------------------------------------------------------------------------
(* What the threads know of the URLs they visit.                            *)

VisitInv ==
  /\ \A t \in At(Visiting) : url[t] \in visited
  /\ \A s, t \in At(Visiting) : url[s] = url[t] => s = t
  /\ \A t \in At({"links"}) :
       /\ url[t] \notin IsPng
       /\ pushed[t] <= Len(Links[url[t]])
       /\ \A n \in 1 .. pushed[t] : Links[url[t]][n] \in Known
  /\ \A t \in At({"png"}) : url[t] \in IsPng
  /\ \A t \in Threads \ At({"links"}) : pushed[t] = 0
  /\ pngs_collected = Len(phead)

LeaveInv ==
  Leaving # {} /\ ~ TargetReached =>
    /\ frontier = <<>> /\ At({"waiting", "leave", "done"}) = Threads
    /\ blocked_threads >= num_threads

Inv == CoreInv /\ VisitInv /\ LeaveInv

LEMMA ElementsAppend ==
  ASSUME NEW S, NEW s \in Seq(S), NEW e \in S
  PROVE  Elements(Append(s, e)) = Elements(s) \cup {e}
<1>1. /\ Append(s, e) \in Seq(S) /\ Len(s) \in Nat
      /\ Len(Append(s, e)) = Len(s) + 1
      /\ \A n \in 1 .. Len(s) : Append(s, e)[n] = s[n]
      /\ Append(s, e)[Len(s) + 1] = e
  BY AppendProperties, LenProperties
<1>2. DOMAIN s = 1 .. Len(s) /\ DOMAIN Append(s, e) = 1 .. Len(s) + 1
  BY <1>1, LenProperties
<1>3. ASSUME NEW n \in 1 .. Len(s) + 1
      PROVE  Append(s, e)[n] = e \/ (n \in 1 .. Len(s) /\ Append(s, e)[n] = s[n])
  BY <1>1
<1>4. Elements(Append(s, e)) \subseteq Elements(s) \cup {e}
  BY <1>2, <1>3 DEF Elements
<1>5. Elements(s) \subseteq Elements(Append(s, e)) /\ e \in Elements(Append(s, e))
  BY <1>1, <1>2 DEF Elements
<1> QED
  BY <1>4, <1>5

LEMMA ElementsTail ==
  ASSUME NEW S, NEW s \in Seq(S), s # <<>>
  PROVE  Elements(s) = {Head(s)} \cup Elements(Tail(s))
<1>1. /\ Len(s) \in Nat \ {0} /\ DOMAIN s = 1 .. Len(s)
      /\ Tail(s) \in Seq(S) /\ DOMAIN Tail(s) = 1 .. Len(s) - 1
      /\ Head(s) = s[1] /\ \A n \in 1 .. Len(s) - 1 : Tail(s)[n] = s[n + 1]
  BY HeadTailProperties, LenProperties, EmptySeq
<1>2. ASSUME NEW e, e \in Elements(s) PROVE e = Head(s) \/ e \in Elements(Tail(s))
  <2>1. PICK n \in 1 .. Len(s) : e = s[n]
    BY <1>1, <1>2 DEF Elements
  <2>2. CASE n = 1
    BY <1>1, <2>1, <2>2
  <2>3. CASE n # 1
    <3>1. n - 1 \in 1 .. Len(s) - 1 /\ (n - 1) + 1 = n
      BY <1>1, <2>3
    <3>2. Tail(s)[n - 1] = e
      BY <1>1, <2>1, <3>1
    <3> QED
      BY <1>1, <3>1, <3>2 DEF Elements
  <2> QED
    BY <2>2, <2>3
<1>3. ASSUME NEW e, e \in Elements(Tail(s)) PROVE e \in Elements(s)
  <2>1. PICK n \in 1 .. Len(s) - 1 : e = Tail(s)[n]
    BY <1>1, <1>3 DEF Elements
  <2>2. n + 1 \in 1 .. Len(s) /\ e = s[n + 1]
    BY <1>1, <2>1
  <2> QED
    BY <1>1, <2>2 DEF Elements
<1>4. Head(s) \in Elements(s)
  BY <1>1 DEF Elements
<1> QED
  BY <1>2, <1>3, <1>4

-----------------------------------------------------------------------------
(* What a step does to the crawl.                                           *)

SameCrawl ==
  /\ UNCHANGED <<target, Known, visited, Finished, failed, phead>>
  /\ program' # "exited"

LEMMA ReadyFacts ==
  ASSUME TypeOK, UrlInv, VisitInv, NEW t \in Threads
  PROVE  /\ pc \in [Threads -> ThreadPC] /\ url \in [Threads -> URL \cup {NoUrl}]
         /\ pushed \in [Threads -> Nat] /\ frontier \in Seq(URL)
         /\ visited \subseteq URL /\ phead \in Seq(URL)
         /\ pc[t] \in {"visit", "fetch", "links", "png"} => url[t] \in URL
         /\ pc[t] \in Visiting => /\ url[t] \in visited /\ url[t] \notin Finished
                                  /\ \A s \in Threads :
                                       pc[s] \in Visiting /\ url[s] = url[t] => s = t
BY DEF TypeOK, UrlInv, VisitInv, At, Visiting, Finished

(* A thread that has no URL in hand before or after, or keeps the one it    *)
(* visits, changes nothing.                                                 *)
LEMMA QuietMove ==
  ASSUME NEW t \in Threads, pc \in [Threads -> ThreadPC],
         NEW from, NEW to, Goto(t, from, to),
         from # "visit", to # "visit", from \in Visiting <=> to \in Visiting,
         \A s \in Threads : url'[s] = url[s], visited' = visited, frontier' = frontier
  PROVE  UNCHANGED <<Known, visited, Finished>>
<1>1. /\ pc[t] = from /\ pc'[t] = to
      /\ \A s \in Threads : s # t => pc'[s] = pc[s]
  BY DEF Goto
<1>2. /\ \A s \in Threads : pc'[s] = "visit" <=> pc[s] = "visit"
      /\ \A s \in Threads : pc'[s] \in Visiting <=> pc[s] \in Visiting
  BY <1>1
<1>3. /\ At({"visit"})' = At({"visit"})
      /\ At({"fetch", "links", "png"})' = At({"fetch", "links", "png"})
  BY <1>2 DEF At, Visiting
<1>4. \A S : At(S) \subseteq Threads
  BY DEF At
<1>5. {url[s] : s \in At({"visit"})}' = {url[s] : s \in At({"visit"})}
  BY <1>3, <1>4
<1>6. {url[s] : s \in At({"fetch", "links", "png"})}' =
        {url[s] : s \in At({"fetch", "links", "png"})}
  BY <1>3, <1>4
<1>7. Elements(frontier)' = Elements(frontier)
  BY DEF Elements
<1> QED
  BY <1>5, <1>6, <1>7 DEF Known, Finished

(* The URL at the head of the frontier stays known in the thread's hand. *)
LEMMA PopMove ==
  ASSUME NEW t \in Threads, pc \in [Threads -> ThreadPC], frontier \in Seq(URL),
         url \in [Threads -> URL \cup {NoUrl}], visited' = visited,
         NEW from \in {"frontier", "waiting"}, PopFrontier(t, from)
  PROVE  UNCHANGED <<Known, visited, Finished>>
<1>1. /\ pc[t] = from /\ pc'[t] = "visit" /\ url'[t] = Head(frontier)
      /\ \A s \in Threads : s # t => pc'[s] = pc[s] /\ url'[s] = url[s]
      /\ frontier # <<>> /\ frontier' = Tail(frontier)
  BY DEF PopFrontier, Goto
<1>2. Elements(frontier) = {Head(frontier)} \cup Elements(frontier')
  BY <1>1, ElementsTail
<1>3. {url[s] : s \in At({"visit"})}' = {url[s] : s \in At({"visit"})} \cup {Head(frontier)}
  BY <1>1 DEF At
<1>4. {url[s] : s \in At({"fetch", "links", "png"})}' =
        {url[s] : s \in At({"fetch", "links", "png"})}
  BY <1>1 DEF At
<1>5. Elements(frontier)' = Elements(frontier')
  BY DEF Elements
<1> QED
  BY <1>2, <1>3, <1>4, <1>5 DEF Known, Finished

(* A visit begins. *)
LEMMA VisitMove ==
  ASSUME NEW t \in Threads, TypeOK, UrlInv, VisitInv,
         Goto(t, "visit", "fetch"), UNCHANGED <<mine, frontier>>,
         url[t] \notin visited, visited' = visited \cup {url[t]}
  PROVE  Known' = Known /\ Finished' = Finished /\ url[t] \in Known /\ url[t] \in URL
<1>1. /\ pc[t] = "visit" /\ pc'[t] = "fetch" /\ url' = url /\ frontier' = frontier
      /\ \A s \in Threads : s # t => pc'[s] = pc[s]
      /\ url[t] \in URL
  BY ReadyFacts DEF Goto, mine
<1>2. {url[s] : s \in At({"visit"})} = {url[s] : s \in At({"visit"})}' \cup {url[t]}
  BY <1>1 DEF At
<1>3. {url[s] : s \in At({"fetch", "links", "png"})}' =
        {url[s] : s \in At({"fetch", "links", "png"})} \cup {url[t]}
  BY <1>1 DEF At
<1>4. Elements(frontier)' = Elements(frontier)
  BY <1>1 DEF Elements
<1> QED
  BY <1>1, <1>2, <1>3, <1>4 DEF Known, Finished

(* A visit ends. *)
LEMMA FinishMove ==
  ASSUME NEW t \in Threads, TypeOK, UrlInv, VisitInv,
         NEW from \in Visiting, NEW to \in {"check", "recheck"},
         Goto(t, from, to), Drop(t), frontier' = frontier, visited' = visited
  PROVE  Known' = Known /\ Finished' = Finished \cup {url[t]}
<1>1. /\ pc[t] = from /\ pc'[t] = to /\ frontier' = frontier
      /\ \A s \in Threads : s # t => pc'[s] = pc[s] /\ url'[s] = url[s]
      /\ url[t] \in visited
      /\ \A s \in Threads : pc[s] \in Visiting /\ url[s] = url[t] => s = t
  BY ReadyFacts DEF Goto, Drop
<1>2. {url[s] : s \in At({"visit"})}' = {url[s] : s \in At({"visit"})}
  BY <1>1 DEF At, Visiting
<1>3. {url[s] : s \in At({"fetch", "links", "png"})}' =
        {url[s] : s \in At({"fetch", "links", "png"})} \ {url[t]}
  BY <1>1 DEF At, Visiting
<1>4. Elements(frontier)' = Elements(frontier)
  BY <1>1 DEF Elements
<1> QED
  BY <1>1, <1>2, <1>3, <1>4 DEF Known, Finished

(* A link joins the frontier. *)
LEMMA PushMove ==
  ASSUME NEW t \in Threads, TypeOK, UrlInv, VisitInv, PushLink(t)
  PROVE  /\ url[t] \in URL /\ pushed[t] + 1 \in 1 .. Len(Links[url[t]])
         /\ Known' = Known \cup {Links[url[t]][pushed[t] + 1]} /\ Finished' = Finished
<1>1. /\ pc[t] = "links" /\ pc' = pc /\ url' = url /\ visited' = visited
      /\ frontier' = Append(frontier, Links[url[t]][pushed[t] + 1])
      /\ url[t] \in URL /\ pushed[t] \in Nat /\ pushed[t] < Len(Links[url[t]])
      /\ frontier \in Seq(URL) /\ pc \in [Threads -> ThreadPC]
  BY ReadyFacts DEF PushLink, Goto
<1>2. Links[url[t]] \in Seq(URL)
  BY <1>1, WebAssumption
<1>3. pushed[t] + 1 \in 1 .. Len(Links[url[t]])
  BY <1>1, <1>2
<1>4. Links[url[t]][pushed[t] + 1] \in URL
  BY <1>2, <1>3, ElementOfSeq
<1>5. Elements(frontier)' = Elements(frontier) \cup {Links[url[t]][pushed[t] + 1]}
  <2>1. Elements(frontier)' = Elements(frontier')
    BY DEF Elements
  <2> QED
    BY <1>1, <1>4, <2>1, ElementsAppend
<1>6. /\ At({"visit"})' = At({"visit"})
      /\ At({"fetch", "links", "png"})' = At({"fetch", "links", "png"})
  BY <1>1 DEF At
<1> QED
  BY <1>1, <1>3, <1>5, <1>6 DEF Known, Finished

(* Every step of a thread is one of the abstract crawl, or changes nothing  *)
(* of it: visiting a URL is entering it in the table, discovering a link is *)
(* pushing it, finishing is leaving process_data, failing is the failed     *)
(* transfer.                                                                *)
LEMMA StepCrawls ==
  ASSUME TypeOK, UrlInv, VisitInv, program = "running",
         NEW t \in Threads, WorkStep(t) \/ WorkFault(t)
  PROVE  /\ Known \subseteq Known'
         /\ SameCrawl \/ Crawling!Next
<1> DEFINE u == url[t]
<1>1. /\ pc \in [Threads -> ThreadPC] /\ url \in [Threads -> URL \cup {NoUrl}]
      /\ frontier \in Seq(URL) /\ phead \in Seq(URL)
      /\ visited \subseteq URL
      /\ pc[t] \in {"visit", "fetch", "links", "png"} => u \in URL
      /\ pc[t] \in Visiting => u \in visited \ Finished
  BY ReadyFacts
<1>2. program # "exited"
  OBVIOUS
<1>3. CASE CheckTarget(t) \/ Recheck(t) \/ Block(t) \/ Leave(t) \/ Fetch(t)
  <2>1. PICK from, to : /\ Goto(t, from, to) /\ from # "visit" /\ to # "visit"
                        /\ from \in Visiting <=> to \in Visiting
    <3>1. ASSUME Fetch(t) PROVE \E to \in {"png", "links"} : Goto(t, "fetch", to)
      BY <3>1 DEF Fetch
    <3>2. ASSUME CheckTarget(t) \/ Recheck(t)
          PROVE  \E from, to \in {"check", "recheck", "frontier", "leave"} : Goto(t, from, to)
      BY <3>2 DEF CheckTarget, Recheck
    <3>3. ASSUME Block(t) \/ Leave(t)
          PROVE  \E from, to \in {"frontier", "waiting", "leave", "done"} : Goto(t, from, to)
      BY <3>3 DEF Block, Leave
    <3> QED
      BY <1>3, <3>1, <3>2, <3>3 DEF Visiting
  <2>2. UNCHANGED <<url, visited, target, failed, phead, program>>
    BY <1>3 DEF CheckTarget, Recheck, Block, Leave, Fetch, mine, found, world
  <2>3. frontier' = frontier
    BY <1>3 DEF CheckTarget, Recheck, Block, Leave, Fetch, queue
  <2>4. UNCHANGED <<Known, visited, Finished>>
    BY <1>1, <2>1, <2>2, <2>3, QuietMove
  <2> QED
    BY <1>2, <2>2, <2>4 DEF SameCrawl
<1>4. CASE Pop(t) \/ Wake(t) \/ WakeSpuriously(t)
  <2>1. UNCHANGED <<visited, target, failed, phead, program>>
    BY <1>4 DEF Pop, Wake, WakeSpuriously, found, world
  <2>2. UNCHANGED <<Known, visited, Finished>>
    <3>1. CASE \E from \in {"frontier", "waiting"} : PopFrontier(t, from)
      BY <1>1, <2>1, <3>1, PopMove
    <3>2. CASE UNCHANGED <<mine, frontier>> /\ \E to \in {"leave", "check"} : Goto(t, "waiting", to)
      <4>1. PICK to \in {"leave", "check"} : Goto(t, "waiting", to)
        BY <3>2
      <4>2. UNCHANGED <<url, frontier>>
        BY <3>2 DEF mine
      <4> QED
        BY <1>1, <2>1, <4>1, <4>2, QuietMove DEF Visiting
    <3>3. Pop(t) \/ Resume(t)
      BY <1>4 DEF Wake, WakeSpuriously
    <3> QED
      BY <3>1, <3>2, <3>3 DEF Pop, Resume
  <2> QED
    BY <1>2, <2>1, <2>2 DEF SameCrawl
<1>5. CASE NoHandle(t) \/ LogFails(t)
  <2>1. /\ UNCHANGED <<pc, url, frontier, visited, target, failed, phead>>
        /\ program' # "exited"
    BY <1>5 DEF NoHandle, LogFails, mine, queue, found
  <2> QED
    BY <2>1 DEF SameCrawl, Known, Finished, At, Elements
<1>6. CASE Visit(t)
  <2>1. CASE u \in visited
    <3>1. /\ pc[t] = "visit" /\ pc'[t] = "check"
          /\ \A s \in Threads : s # t => pc'[s] = pc[s] /\ url'[s] = url[s]
          /\ UNCHANGED <<frontier, visited, target, failed, phead, program>>
      BY <1>1, <1>6, <2>1 DEF Visit, Goto, Drop, queue, found, world
    <3>2. {url[s] : s \in At({"visit"})} = {url[s] : s \in At({"visit"})}' \cup {u}
      BY <3>1 DEF At
    <3>3. {url[s] : s \in At({"fetch", "links", "png"})}' =
        {url[s] : s \in At({"fetch", "links", "png"})}
      BY <3>1 DEF At
    <3>4. Elements(frontier)' = Elements(frontier)
      BY <3>1 DEF Elements
    <3>5. UNCHANGED <<Known, Finished>>
      BY <2>1, <3>1, <3>2, <3>3, <3>4 DEF Known, Finished
    <3> QED
      BY <1>2, <3>1, <3>5 DEF SameCrawl
  <2>2. CASE u \notin visited /\ Cardinality(visited) < TableSize
    <3>1. /\ Goto(t, "visit", "fetch") /\ UNCHANGED <<mine, frontier>>
          /\ visited' = visited \cup {u}
          /\ UNCHANGED <<target, failed, phead, program>>
      BY <1>6, <2>2 DEF Visit, queue, found, world
    <3>2. Known' = Known /\ Finished' = Finished /\ u \in Known /\ u \in URL
      BY <2>2, <3>1, VisitMove
    <3>3. Crawling!Visit(u)
      BY <1>2, <2>2, <3>1, <3>2 DEF Crawling!Visit
    <3> QED
      BY <3>2, <3>3 DEF Crawling!Next
  <2>3. CASE u \notin visited /\ ~ (Cardinality(visited) < TableSize)
    <3>1. /\ UNCHANGED <<pc, url, frontier, visited, target, failed, phead>>
          /\ program' # "exited"
      BY <1>6, <2>3 DEF Visit, mine, queue, found
    <3> QED
      BY <3>1 DEF SameCrawl, Known, Finished, At, Elements
  <2> QED
    BY <2>1, <2>2, <2>3
<1>7. CASE FetchFails(t)
  <2>1. /\ pc[t] = "fetch" /\ Goto(t, "fetch", "check") /\ Drop(t)
        /\ UNCHANGED <<frontier, visited, target, phead, program>>
        /\ failed' = failed \cup {u}
    BY <1>7 DEF FetchFails, Goto, queue, found
  <2>2. Known' = Known /\ Finished' = Finished \cup {u}
    BY <2>1, FinishMove DEF Visiting
  <2>3. u \in URL /\ u \in visited \ Finished
    BY <1>1, <2>1 DEF Visiting
  <2>4. Crawling!Fail(u)
    BY <1>2, <2>1, <2>2, <2>3 DEF Crawling!Fail, Crawling!Finish
  <2> QED
    BY <2>2, <2>3, <2>4 DEF Crawling!Next
<1>8. CASE PushLink(t)
  <2>1. /\ pc[t] = "links"
        /\ UNCHANGED <<visited, target, failed, phead, program>>
    BY <1>8 DEF PushLink, Goto, found, world
  <2>2. /\ u \in URL /\ pushed[t] + 1 \in 1 .. Len(Links[u])
        /\ Known' = Known \cup {Links[u][pushed[t] + 1]} /\ Finished' = Finished
    BY <1>8, PushMove
  <2>3. u \in visited \ Finished
    BY <1>1, <2>1 DEF Visiting
  <2>4. Links[u][pushed[t] + 1] \in Crawling!LinksOf(u)
    <3>1. DOMAIN Links[u] = 1 .. Len(Links[u])
      BY <2>2, WebAssumption
    <3> QED
      BY <2>2, <3>1 DEF Crawling!LinksOf
  <2>5. Crawling!Discover(u)
    BY <1>2, <2>1, <2>2, <2>3, <2>4 DEF Crawling!Discover
  <2> QED
    BY <2>2, <2>5 DEF Crawling!Next
<1>9. CASE LinksDone(t)
  <2>1. /\ pc[t] = "links" /\ Goto(t, "links", "recheck") /\ Drop(t)
        /\ pushed[t] = Len(Links[u])
        /\ UNCHANGED <<frontier, visited, target, failed, phead, program>>
    BY <1>9 DEF LinksDone, Goto, queue, found, world
  <2>2. Known' = Known /\ Finished' = Finished \cup {u}
    BY <2>1, FinishMove DEF Visiting
  <2>3. u \in URL /\ u \in visited \ Finished
    BY <1>1, <2>1 DEF Visiting
  <2>4. u \notin IsPng /\ \A n \in 1 .. Len(Links[u]) : Links[u][n] \in Known
    BY <2>1 DEF VisitInv, At
  <2>5. Crawling!LinksOf(u) \subseteq Known
    <3>1. DOMAIN Links[u] = 1 .. Len(Links[u])
      BY <2>3, WebAssumption
    <3> QED
      BY <2>4, <3>1 DEF Crawling!LinksOf
  <2>6. Crawling!FinishPage(u)
    BY <1>2, <2>1, <2>2, <2>3, <2>4, <2>5 DEF Crawling!FinishPage, Crawling!Finish
  <2> QED
    BY <2>2, <2>3, <2>6 DEF Crawling!Next
<1>10. CASE AddPng(t)
  <2>1. /\ pc[t] = "png" /\ Goto(t, "png", "recheck") /\ Drop(t)
        /\ phead' = IF pngs_collected < target THEN <<EffectiveURL[u]>> \o phead ELSE phead
        /\ UNCHANGED <<frontier, visited, target, failed, program>>
    BY <1>10 DEF AddPng, Goto, queue, found, world
  <2>2. Known' = Known /\ Finished' = Finished \cup {u}
    BY <2>1, FinishMove DEF Visiting
  <2>3. u \in URL /\ u \in visited \ Finished
    BY <1>1, <2>1 DEF Visiting
  <2>4. u \in IsPng /\ pngs_collected = Len(phead)
    BY <2>1 DEF VisitInv, At
  <2>5. Crawling!FinishPng(u)
    BY <1>2, <2>1, <2>2, <2>3, <2>4 DEF Crawling!FinishPng, Crawling!Finish
  <2> QED
    BY <2>2, <2>3, <2>5 DEF Crawling!Next
<1> QED
  BY <1>3, <1>4, <1>5, <1>6, <1>7, <1>8, <1>9, <1>10 DEF WorkStep, WorkFault

-----------------------------------------------------------------------------
(* The invariants of the refinement are inductive.                          *)

(* The invariant speaks of each thread by itself, and of the URLs the       *)
(* others visit; what they need of visited and of Known only grows.         *)
LEMMA VisitFrame ==
  ASSUME VisitInv, NEW t \in Threads,
         \A s \in Threads : s # t => pc'[s] = pc[s] /\ url'[s] = url[s] /\ pushed'[s] = pushed[s],
         visited \subseteq visited', Known \subseteq Known',
         pc'[t] \in Visiting => /\ url'[t] \in visited'
                               /\ \A s \in Threads \ {t} : pc[s] \in Visiting => url[s] # url'[t],
         pc'[t] = "links" => /\ url'[t] \notin IsPng /\ pushed'[t] <= Len(Links[url'[t]])
                             /\ \A n \in 1 .. pushed'[t] : Links[url'[t]][n] \in Known',
         pc'[t] = "png" => url'[t] \in IsPng,
         pc'[t] # "links" => pushed'[t] = 0,
         pngs_collected' = Len(phead')
  PROVE  VisitInv'
<1>1. \A s \in Threads : pc'[s] \in Visiting => url'[s] \in visited'
  BY DEF VisitInv, At
<1>2. \A s, r \in Threads : pc'[s] \in Visiting /\ pc'[r] \in Visiting /\ url'[s] = url'[r] => s = r
  BY DEF VisitInv, At
<1>3. \A s \in Threads :
        pc'[s] = "links" => /\ url'[s] \notin IsPng
                            /\ pushed'[s] <= Len(Links[url'[s]])
                            /\ \A n \in 1 .. pushed'[s] : Links[url'[s]][n] \in Known'
  <2>1. ASSUME NEW s \in Threads, s # t, pc'[s] = "links"
        PROVE  /\ url'[s] \notin IsPng
               /\ pushed'[s] <= Len(Links[url'[s]])
               /\ \A n \in 1 .. pushed'[s] : Links[url'[s]][n] \in Known'
    <3>1. pc[s] = "links" /\ url'[s] = url[s] /\ pushed'[s] = pushed[s]
      BY <2>1
    <3> QED
      BY <3>1 DEF VisitInv, At
  <2> QED
    BY <2>1
<1>4. \A s \in Threads : pc'[s] = "png" => url'[s] \in IsPng
  BY DEF VisitInv, At
<1>5. \A s \in Threads : pc'[s] # "links" => pushed'[s] = 0
  BY DEF VisitInv, At
<1> QED
  BY <1>1, <1>2, <1>3, <1>4, <1>5 DEF VisitInv, At, Visiting

LEMMA VisitStep ==
  ASSUME TypeOK, UrlInv, VisitInv, program = "running",
         NEW t \in Threads, WorkStep(t) \/ WorkFault(t)
  PROVE  VisitInv'
<1>1. /\ pc \in [Threads -> ThreadPC] /\ url \in [Threads -> URL \cup {NoUrl}]
      /\ pushed \in [Threads -> Nat] /\ phead \in Seq(URL) /\ pngs_collected \in Nat
      /\ pc[t] \in {"visit", "fetch", "links", "png"} => url[t] \in URL
      /\ pc[t] \in Visiting =>
           /\ url[t] \in visited
           /\ \A s \in Threads \ {t} : pc[s] \in Visiting => url[s] # url[t]
  BY ReadyFacts DEF TypeOK
<1>2. /\ \A s \in Threads : pc[s] \in Visiting => url[s] \in visited
      /\ pc[t] = "links" => /\ url[t] \notin IsPng /\ pushed[t] <= Len(Links[url[t]])
                            /\ \A n \in 1 .. pushed[t] : Links[url[t]][n] \in Known
      /\ pc[t] # "links" => pushed[t] = 0
      /\ pngs_collected = Len(phead)
  BY DEF VisitInv, At
<1>3. Known \subseteq Known'
  BY StepCrawls
<1>4. ASSUME NEW from, NEW to, Goto(t, from, to), from # "links",
             to \notin Visiting,
             UNCHANGED pushed, \A s \in Threads : s # t => url'[s] = url[s],
             UNCHANGED <<visited, phead, pngs_collected>>
      PROVE  VisitInv'
  <2>1. /\ \A s \in Threads : s # t => pc'[s] = pc[s] /\ pushed'[s] = pushed[s]
        /\ pc[t] = from /\ pc'[t] = to /\ pushed'[t] = 0
    BY <1>1, <1>2, <1>4 DEF Goto
  <2> QED
    BY <1>2, <1>3, <1>4, <2>1, VisitFrame DEF Visiting
<1>5. CASE CheckTarget(t) \/ Recheck(t) \/ Block(t) \/ Leave(t)
  <2>1. /\ UNCHANGED <<url, pushed, visited, phead, pngs_collected>>
        /\ \E from, to \in ThreadPC \ ({"visit"} \cup Visiting) : Goto(t, from, to)
    BY <1>5 DEF CheckTarget, Recheck, Block, Leave, mine, found, ThreadPC, Visiting
  <2> QED
    BY <1>4, <2>1 DEF Visiting
<1>6. CASE Pop(t) \/ Wake(t) \/ WakeSpuriously(t)
  <2>1. Pop(t) \/ Resume(t)
    BY <1>6 DEF Wake, WakeSpuriously
  <2>2. UNCHANGED <<visited, phead, pngs_collected>>
    BY <1>6 DEF Pop, Wake, WakeSpuriously, found
  <2>3. CASE UNCHANGED mine /\ \E to \in {"leave", "check"} : Goto(t, "waiting", to)
    BY <1>4, <2>2, <2>3 DEF mine, Visiting
  <2>4. ASSUME NEW from \in {"frontier", "waiting"}, PopFrontier(t, from)
        PROVE  VisitInv'
    <3>1. /\ Goto(t, from, "visit") /\ UNCHANGED pushed
          /\ \A s \in Threads : s # t => url'[s] = url[s]
      BY <1>1, <2>4 DEF PopFrontier
    <3> QED
      BY <1>4, <2>2, <3>1 DEF Visiting
  <2> QED
    BY <2>1, <2>3, <2>4 DEF Pop, Resume
<1>7. ASSUME NEW from \in {"visit"} \cup Visiting, NEW to \in {"check", "recheck"},
             Goto(t, from, to), Drop(t), visited' = visited, pngs_collected' = Len(phead')
      PROVE  VisitInv'
  <2>1. /\ \A s \in Threads : s # t => pc'[s] = pc[s] /\ url'[s] = url[s] /\ pushed'[s] = pushed[s]
        /\ pc'[t] = to /\ pushed'[t] = 0
    BY <1>1, <1>7 DEF Goto, Drop
  <2> QED
    BY <1>3, <1>7, <2>1, VisitFrame DEF Visiting
<1>8. CASE FetchFails(t) \/ LinksDone(t)
  <2>1. /\ Drop(t) /\ UNCHANGED <<visited, phead, pngs_collected>>
        /\ Goto(t, "fetch", "check") \/ Goto(t, "links", "recheck")
    BY <1>8 DEF FetchFails, LinksDone, found
  <2> QED
    BY <1>2, <1>7, <2>1 DEF Visiting
<1>9. CASE AddPng(t)
  <2>1. /\ Drop(t) /\ visited' = visited /\ Goto(t, "png", "recheck")
        /\ url[t] \in URL
    BY <1>1, <1>9 DEF AddPng, Goto
  <2>2. pngs_collected' = Len(phead')
    <3>1. CASE pngs_collected < target
      <4>1. <<EffectiveURL[url[t]]>> \in Seq(URL) /\ Len(<<EffectiveURL[url[t]]>>) = 1
        BY <2>1, WebAssumption
      <4>2. Len(<<EffectiveURL[url[t]]>> \o phead) = 1 + Len(phead)
        BY <1>1, <4>1, ConcatProperties
      <4>3. Len(phead') = 1 + Len(phead) /\ pngs_collected' = pngs_collected + 1
        BY <1>9, <3>1, <4>2 DEF AddPng
      <4> QED
        BY <1>1, <1>2, <4>3
    <3>2. CASE ~ (pngs_collected < target)
      BY <1>2, <1>9, <3>2 DEF AddPng, found
    <3> QED
      BY <3>1, <3>2
  <2> QED
    BY <1>7, <2>1, <2>2 DEF Visiting
<1>10. CASE NoHandle(t) \/ LogFails(t)
  <2>1. UNCHANGED <<pc, url, pushed, visited, phead, pngs_collected>> /\ pc[t] = "fetch"
    BY <1>10 DEF NoHandle, LogFails, mine, found
  <2> QED
    BY <1>1, <1>2, <1>3, <2>1, VisitFrame DEF Visiting
<1>11. CASE Visit(t)
  <2>1. pc[t] = "visit" /\ UNCHANGED <<phead, pngs_collected>>
    BY <1>11 DEF Visit, Goto, found
  <2>2. CASE url[t] \in visited
    BY <1>2, <1>7, <1>11, <2>1, <2>2 DEF Visit
  <2>3. CASE url[t] \notin visited /\ Cardinality(visited) < TableSize
    <3>1. /\ Goto(t, "visit", "fetch") /\ visited' = visited \cup {url[t]}
          /\ UNCHANGED <<url, pushed>>
      BY <1>11, <2>3 DEF Visit, mine
    <3>2. \A s \in Threads : s # t => pc'[s] = pc[s]
      BY <1>1, <3>1 DEF Goto
    <3>3. pc'[t] = "fetch"
      BY <1>1, <3>1 DEF Goto
    <3> QED
      BY <1>2, <1>3, <2>1, <2>3, <3>1, <3>2, <3>3, VisitFrame DEF Visiting
  <2>4. CASE url[t] \notin visited /\ ~ (Cardinality(visited) < TableSize)
    <3>1. UNCHANGED <<pc, url, pushed, visited>>
      BY <1>11, <2>4 DEF Visit, mine
    <3> QED
      BY <1>1, <1>2, <1>3, <2>1, <3>1, VisitFrame DEF Visiting
  <2> QED
    BY <2>2, <2>3, <2>4
<1>12. CASE Fetch(t)
  <2>1. /\ UNCHANGED <<url, pushed, visited, phead, pngs_collected>> /\ pc[t] = "fetch"
        /\ Goto(t, "fetch", IF url[t] \in IsPng THEN "png" ELSE "links")
    BY <1>12 DEF Fetch, Goto, mine, found
  <2>2. /\ \A s \in Threads : s # t => pc'[s] = pc[s]
        /\ pc'[t] = IF url[t] \in IsPng THEN "png" ELSE "links"
    BY <1>1, <2>1 DEF Goto
  <2>3. pushed[t] = 0 /\ 0 <= Len(Links[url[t]])
    <3>1. Links[url[t]] \in Seq(URL)
      BY <1>1, <2>1, WebAssumption
    <3> QED
      BY <1>2, <2>1, <3>1, LenProperties
  <2>4. /\ pc'[t] \in Visiting /\ pc[t] \in Visiting
        /\ \A n \in 1 .. pushed[t] : Links[url[t]][n] \in Known'
    BY <2>1, <2>2, <2>3 DEF Visiting
  <2> QED
    BY <1>1, <1>2, <1>3, <2>1, <2>2, <2>3, <2>4, VisitFrame
<1>13. CASE PushLink(t)
  <2>1. /\ pc' = pc /\ pc[t] = "links"
        /\ UNCHANGED <<url, visited, phead, pngs_collected>>
        /\ pushed' = [pushed EXCEPT ![t] = @ + 1]
    BY <1>1, <1>13 DEF PushLink, Goto, found
  <2>2. /\ pushed[t] + 1 \in 1 .. Len(Links[url[t]])
        /\ Known' = Known \cup {Links[url[t]][pushed[t] + 1]}
    BY <1>13, PushMove
  <2>3. /\ pushed'[t] = pushed[t] + 1 /\ pushed[t] \in Nat
        /\ \A s \in Threads : s # t => pushed'[s] = pushed[s]
    BY <1>1, <2>1
  <2>4. \A n \in 1 .. pushed'[t] : Links[url[t]][n] \in Known'
    <3>1. \A n \in 1 .. pushed'[t] : n \in 1 .. pushed[t] \/ n = pushed[t] + 1
      BY <2>3
    <3> QED
      BY <1>2, <2>1, <2>2, <3>1
  <2>5. pushed'[t] <= Len(Links[url[t]])
    BY <2>2, <2>3
  <2> QED
    BY <1>1, <1>2, <1>3, <2>1, <2>3, <2>4, <2>5, VisitFrame DEF Visiting
<1> QED
  BY <1>5, <1>6, <1>8, <1>9, <1>10, <1>11, <1>12, <1>13 DEF WorkStep, WorkFault

(* A thread leaves short of the target only when all the others wait for    *)
(* the empty frontier, and none of them finds a URL any more.               *)
LEMMA LeaveStep ==
  ASSUME TypeOK, QueueInv, LeaveInv, NEW t \in Threads, WorkStep(t) \/ WorkFault(t)
  PROVE  LeaveInv'
<1> DEFINE Rest == {"waiting", "leave", "done"}
<1>1. /\ pc \in [Threads -> ThreadPC] /\ pngs_collected \in Nat
      /\ target \in Nat /\ blocked_threads \in Nat
      /\ num_threads \in Nat \ {0} /\ Waiting \in Nat
  BY WebAssumption, AtFinite DEF TypeOK, Waiting
<1>2. Leaving = {} => blocked_threads = Waiting /\ blocked_threads < num_threads
  BY DEF QueueInv
<1>3. /\ target' = target
      /\ pngs_collected' \in {pngs_collected, pngs_collected + 1}
  BY DEF WorkStep, WorkFault, CheckTarget, Recheck, Pop, Block, Wake, WakeSpuriously, Visit,
         Fetch, FetchFails, NoHandle, LogFails, PushLink, LinksDone, AddPng, Leave, found, world
<1>4. SUFFICES ASSUME ~ TargetReached, Leaving' # {}
               PROVE  frontier' = <<>> /\ At(Rest)' = Threads /\ blocked_threads' >= num_threads
  BY <1>1, <1>3 DEF LeaveInv, TargetReached
<1>5. Leaving # {} =>
        frontier = <<>> /\ At(Rest) = Threads /\ blocked_threads >= num_threads
  BY <1>4 DEF LeaveInv
<1>6. ASSUME pc[t] \notin Rest PROVE Leaving = {}
  BY <1>5, <1>6 DEF At
<1>7. ASSUME NEW from, NEW to, {from, to} \cap {"leave", "done"} = {}, Goto(t, from, to)
      PROVE  Leaving # {}
  BY <1>1, <1>4, <1>7 DEF Goto, Leaving, At
<1>8. CASE CheckTarget(t) \/ Pop(t) \/ Fetch(t) \/ FetchFails(t) \/ PushLink(t)
           \/ LinksDone(t) \/ AddPng(t) \/ Recheck(t)
  <2>1. \E from, to \in ThreadPC \ Rest : Goto(t, from, to)
    <3>1. ASSUME CheckTarget(t) \/ Pop(t) \/ Recheck(t)
          PROVE  \E from, to \in {"check", "frontier", "visit", "recheck"} : Goto(t, from, to)
      BY <1>4, <3>1 DEF CheckTarget, Pop, PopFrontier, Recheck
    <3>2. ASSUME Fetch(t) \/ FetchFails(t) \/ PushLink(t)
          PROVE  \E from, to \in {"fetch", "png", "links", "check"} : Goto(t, from, to)
      BY <3>2 DEF Fetch, FetchFails, PushLink
    <3>3. ASSUME LinksDone(t) \/ AddPng(t)
          PROVE  \E from, to \in {"links", "png", "recheck"} : Goto(t, from, to)
      BY <3>3 DEF LinksDone, AddPng
    <3> QED
      BY <1>8, <3>1, <3>2, <3>3 DEF ThreadPC
  <2>2. PICK from, to \in ThreadPC \ Rest : Goto(t, from, to)
    BY <2>1
  <2>3. Leaving = {}
    BY <1>6, <2>2 DEF Goto
  <2> QED
    BY <1>7, <2>2, <2>3
<1>9. CASE NoHandle(t) \/ LogFails(t)
  <2>1. pc' = pc /\ pc[t] = "fetch"
    BY <1>9 DEF NoHandle, LogFails
  <2> QED
    BY <1>4, <1>6, <2>1 DEF Leaving, At
<1>10. CASE Visit(t)
  <2>1. pc[t] = "visit" /\ (pc' = pc \/ \E to \in {"check", "fetch"} : Goto(t, "visit", to))
    BY <1>10 DEF Visit, Goto
  <2>2. Leaving = {}
    BY <1>6, <2>1
  <2>3. CASE pc' = pc
    BY <1>4, <2>2, <2>3 DEF Leaving, At
  <2> QED
    BY <1>7, <2>1, <2>2, <2>3
<1>11. CASE Block(t)
  <2>1. pc[t] = "frontier" /\ frontier = <<>> /\ frontier' = frontier
        /\ blocked_threads' = blocked_threads + 1
    BY <1>11 DEF Block, Goto
  <2>2. Leaving = {} /\ blocked_threads = Waiting /\ blocked_threads < num_threads
    BY <1>2, <1>6, <2>1
  <2>3. Goto(t, "frontier", "leave") /\ blocked_threads' >= num_threads
    <3>1. ~ Goto(t, "frontier", "waiting")
      BY <1>7, <2>2
    <3> QED
      BY <1>1, <1>11, <2>1, <3>1 DEF Block
  <2>4. At({"waiting"}) \cup {t} = Threads
    <3>1. /\ IsFiniteSet(At({"waiting"})) /\ At({"waiting"}) \subseteq Threads
          /\ t \notin At({"waiting"})
      BY <2>1, AtFinite DEF At
    <3>2. Cardinality(At({"waiting"}) \cup {t}) = Waiting + 1
      BY <3>1, FS_AddElement DEF Waiting
    <3>3. Waiting + 1 = num_threads
      BY <1>1, <2>1, <2>2, <2>3
    <3> QED
      BY <3>1, <3>2, <3>3, ThreadAssumption, FS_Subset DEF num_threads
  <2>5. At(Rest)' = Threads
    BY <1>1, <2>3, <2>4 DEF Goto, At
  <2> QED
    BY <2>1, <2>3, <2>5
<1>12. CASE Wake(t) \/ WakeSpuriously(t)
  <2>1. Resume(t)
    BY <1>12 DEF Wake, WakeSpuriously
  <2>2. CASE blocked_threads >= num_threads /\ frontier = <<>>
    <3>1. Goto(t, "waiting", "leave") /\ UNCHANGED <<frontier, blocked_threads>>
      BY <2>1, <2>2 DEF Resume
    <3>2. At(Rest) = Threads
      BY <1>1, <1>2, <1>5, <2>2
    <3>3. At(Rest)' = Threads
      BY <1>1, <3>1, <3>2 DEF Goto, At
    <3> QED
      BY <2>2, <3>1, <3>3
  <2>3. CASE ~ (blocked_threads >= num_threads /\ frontier = <<>>)
    <3>1. \E to \in {"visit", "check"} : Goto(t, "waiting", to)
      BY <2>1, <2>3 DEF Resume, PopFrontier
    <3> QED
      BY <1>5, <1>7, <2>3, <3>1
  <2> QED
    BY <2>2, <2>3
<1>13. CASE Leave(t)
  <2>1. Goto(t, "leave", "done") /\ frontier' = frontier /\ blocked_threads' = num_threads
    BY <1>13 DEF Leave
  <2>2. Leaving # {}
    BY <2>1 DEF Goto, Leaving, At
  <2>3. At(Rest)' = Threads
    BY <1>1, <1>5, <2>1, <2>2 DEF Goto, At
  <2> QED
    BY <1>1, <1>5, <2>1, <2>2, <2>3
<1> QED
  BY <1>8, <1>9, <1>10, <1>11, <1>12, <1>13 DEF WorkStep, WorkFault

-----------------------------------------------------------------------------
(* Lab 4 implements the abstract crawl.                                     *)

LEMMA InvInit == Init => Inv
<1> SUFFICES ASSUME Init PROVE VisitInv /\ LeaveInv
  BY CoreInit DEF Inv
<1>1. At(Visiting) = {} /\ At({"links"}) = {} /\ At({"png"}) = {} /\ Leaving = {}
  BY DEF Init, At, Visiting, Leaving
<1>2. phead = <<>> /\ pngs_collected = 0 /\ \A t \in Threads : pushed[t] = 0
  BY DEF Init
<1>3. Len(<<>>) = 0
  OBVIOUS
<1> QED
  BY <1>1, <1>2, <1>3 DEF VisitInv, LeaveInv

LEMMA InvStep == Inv /\ [Next]_vars => Inv'
<1> SUFFICES ASSUME Inv, [Next]_vars PROVE Inv'
  OBVIOUS
<1>1. CoreInv'
  BY CoreStep DEF Inv
<1>2. CASE UNCHANGED vars \/ Exit
  <2>1. UNCHANGED <<pc, url, pushed, frontier, blocked_threads, visited, phead,
                   pngs_collected, target>>
    BY <1>2 DEF vars, Exit, mine, queue, found, world
  <2> QED
    BY <1>1, <2>1 DEF Inv, VisitInv, LeaveInv, Known, Elements, At, Visiting, Leaving, TargetReached
<1>3. ASSUME program = "running", NEW t \in Threads, WorkStep(t) \/ WorkFault(t)
      PROVE  VisitInv' /\ LeaveInv'
  BY <1>3, VisitStep, LeaveStep DEF Inv, CoreInv
<1> QED
  BY <1>1, <1>2, <1>3 DEF Next, Inv

LEMMA InitCrawls == Init => Crawling!Init
<1> SUFFICES ASSUME Init PROVE Crawling!Init
  OBVIOUS
<1>1. At({"visit"}) = {}
  BY DEF Init, At
<1>2. Elements(<<Seed>>) = {Seed}
  BY DEF Elements
<1> QED
  BY <1>1, <1>2, WebAssumption DEF Init, Crawling!Init, Known, Finished

LEMMA NextCrawls == Inv /\ [Next]_vars => [Crawling!Next]_Crawling!vars
<1> SUFFICES ASSUME Inv, [Next]_vars PROVE Crawling!Next \/ UNCHANGED Crawling!vars
  OBVIOUS
<1>1. CASE UNCHANGED vars
  BY <1>1 DEF vars, mine, queue, found, world, Crawling!vars, Known, Finished, Elements, At
<1>2. ASSUME program = "running", NEW t \in Threads, WorkStep(t) \/ WorkFault(t)
      PROVE  Crawling!Next \/ UNCHANGED Crawling!vars
  <2>1. CASE Crawling!Next
    BY <2>1
  <2>2. CASE SameCrawl
    <3>1. UNCHANGED <<target, Known, visited, Finished, failed, phead>>
          /\ program # "exited" /\ program' # "exited"
      BY <1>2, <2>2 DEF SameCrawl
    <3> QED
      BY <3>1 DEF Crawling!vars
  <2> QED
    BY <1>2, <2>1, <2>2, StepCrawls DEF Inv, CoreInv
<1>3. CASE Exit
  <2>1. /\ At({"done"}) = Threads /\ program' = "exited"
        /\ UNCHANGED <<pc, url, frontier, visited, phead, pngs_collected, target, failed>>
    BY <1>3 DEF Exit, mine, queue, found
  <2>2. UNCHANGED <<Known, Finished>>
    BY <2>1 DEF Known, Finished, Elements, At
  <2>3. CASE TargetReached
    <3>1. Len(phead) >= target
      BY <2>3 DEF TargetReached, Inv, VisitInv
    <3> QED
      BY <2>1, <2>2, <3>1 DEF Crawling!Next, Crawling!End
  <2>4. CASE ~ TargetReached
    <3>1. Leaving # {} /\ At({"visit"}) = {} /\ At({"fetch", "links", "png"}) = {}
      BY <2>1, ThreadAssumption DEF At, Leaving
    <3>2. frontier = <<>>
      BY <2>4, <3>1 DEF Inv, LeaveInv
    <3>3. Known = visited /\ Finished = visited
      BY <3>1, <3>2 DEF Known, Finished, Elements
    <3> QED
      BY <2>1, <2>2, <3>3 DEF Crawling!Next, Crawling!End
  <2> QED
    BY <2>3, <2>4
<1> QED
  BY <1>1, <1>2, <1>3 DEF Next

(* Lab 4 implements the abstract crawl, with any number of threads, any web *)
(* and any target: no URL is visited twice, a visit is over only when all   *)
(* its links are known or its PNG is collected, no more than target PNGs    *)
(* are collected, and the program exits only with the target reached or     *)
(* every known URL visited.                                                 *)
THEOREM Lab4IsACrawl == Spec => ImplementsCrawl
<1>1. Spec => []Inv
  BY InvInit, InvStep, PTL DEF Spec
<1>2. Init => Crawling!Init
  BY InitCrawls
<1>3. Inv /\ [Next]_vars => [Crawling!Next]_Crawling!vars
  BY NextCrawls
<1> QED
  BY <1>1, <1>2, <1>3, PTL DEF Spec, ImplementsCrawl, Crawling!Spec
=============================================================================
