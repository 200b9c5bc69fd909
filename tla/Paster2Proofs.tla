---------------------------- MODULE Paster2Proofs ----------------------------
(***************************************************************************)
(* Safety of Lab 3 for every number of processes, strips, slots and        *)
(* failures.                                                               *)
(*                                                                         *)
(* TypeInv: types, and what the holder of counter_mutex knows.             *)
(* SemaphoreBalance is inductive on top of it, and needs no mutex.  From   *)
(* it follow the return codes paster2.c ignores.                           *)
(* MutexInv: as long as no write has failed, a process in the critical     *)
(* section owns shared_mutex.                                              *)
(*                                                                         *)
(* Strips: a strip is in one place only.  Every step is one of seven       *)
(* effects on the places (Effect); each keeps Strips and is a step of the  *)
(* abstract pipeline or a stutter.                                         *)
(* CountInv: the strips the consumers have claimed are those they await    *)
(* or carry and those stored, until something fails.  With Strips, which   *)
(* keeps two of them from storing the same one, it shows that catpng finds *)
(* all of them.                                                            *)
(***************************************************************************)
EXTENDS Paster2, BufferProofs, FiniteSetTheorems

(* A process about to increment a counter holds its mutex and the value it  *)
(* read is current; a producer downloads strips only.                       *)
CounterInv ==
  \A p \in Proc :
    /\ pc[p] \in {"bump", "c_bump"} => counter_mutex = p
    /\ pc[p] = "bump" => k[p] = num_produced
    /\ pc[p] = "fetch" => k[p] < NumParts

TypeInv == TypeOK /\ RingInv(buffer) /\ CounterInv

MutexInv ==
  At({"unwritten"}) = {} =>
    \A p \in Proc : pc[p] \in CriticalSection => shared_mutex = p

-----------------------------------------------------------------------------
(* Counting the processes at a place.                                       *)

LEMMA AtFinite ==
  ASSUME NEW S
  PROVE  IsFiniteSet(At(S)) /\ Cardinality(At(S)) \in Nat
<1>1. IsFiniteSet(Proc)
  BY ProcessAssumption, FS_Union DEF Proc
<1>2. At(S) \in SUBSET Proc
  BY DEF At
<1> QED
  BY <1>1, <1>2, FS_Subset, FS_CardinalityType

(* One process moves. *)
LEMMA AtMoves ==
  ASSUME pc \in [Proc -> ProducerPC \cup ConsumerPC],
         NEW p \in Proc, NEW from, NEW to, Goto(p, from, to), NEW S
  PROVE  Cardinality(At(S)') =
           Cardinality(At(S)) + (IF to \in S THEN 1 ELSE 0)
                              - (IF from \in S THEN 1 ELSE 0)
<1>1. IsFiniteSet(At(S)) /\ Cardinality(At(S)) \in Nat
  BY AtFinite
<1>2. pc[p] = from /\ pc'[p] = to /\ \A q \in Proc : q # p => pc'[q] = pc[q]
  BY DEF Goto
<1>3. CASE to \in S /\ from \notin S
  <2>1. At(S)' = At(S) \cup {p} /\ p \notin At(S)
    BY <1>2, <1>3 DEF At
  <2>2. Cardinality(At(S) \cup {p}) = Cardinality(At(S)) + 1
    BY <1>1, <2>1, FS_AddElement
  <2> QED
    BY <1>3, <2>1, <2>2
<1>4. CASE to \notin S /\ from \in S
  <2>1. At(S)' = At(S) \ {p} /\ p \in At(S)
    BY <1>2, <1>4 DEF At
  <2>2. Cardinality(At(S) \ {p}) = Cardinality(At(S)) - 1
    BY <1>1, <2>1, FS_RemoveElement
  <2> QED
    BY <1>1, <1>4, <2>1, <2>2
<1>5. CASE to \in S <=> from \in S
  <2>1. At(S)' = At(S)
    BY <1>2, <1>5 DEF At
  <2> QED
    BY <1>1, <1>5, <2>1
<1> QED
  BY <1>3, <1>4, <1>5

-----------------------------------------------------------------------------
(* Type correctness.                                                        *)

LEMMA TypeInit == Init => TypeInv
<1> SUFFICES ASSUME Init PROVE TypeInv
  OBVIOUS
<1>1. buffer \in BufferOf(Seqs) /\ RingInv(buffer)
  BY InitRing DEF Init, Seqs
<1>2. TypeOK
  BY <1>1, ProcessAssumption, PartAssumption, FaultAssumption, MaxSizeAssumption
     DEF Init, TypeOK, Proc, Seqs, ProducerPC, ConsumerPC
<1>3. CounterInv
  BY DEF Init, CounterInv
<1> QED
  BY <1>1, <1>2, <1>3 DEF TypeInv

LEMMA ProducerTypes ==
  ASSUME TypeInv, NEW p \in Producers, ProducerStep(p) \/ ProducerFault(p)
  PROVE  TypeInv'
<1> USE DEF TypeInv, TypeOK, CounterInv, Goto, ring, counters, outside,
            ProducerPC, ConsumerPC
<1>0. p \in Proc /\ p \notin Consumers /\ p # NoProc /\ Producers \subseteq Proc
  BY ProcessAssumption DEF Proc
<1>1. CASE CurlInit(p)
  BY <1>0, <1>1 DEF CurlInit
<1>2. CASE CurlInitFails(p)
  BY <1>0, <1>2, FaultAssumption DEF CurlInitFails, Fault
<1>3. CASE ReadProduced(p)
  <2>1. TypeOK'
    BY <1>0, <1>3, PartAssumption DEF ReadProduced
  <2>2. CounterInv'
    BY <1>0, <1>3, ProcessAssumption DEF ReadProduced, Proc
  <2> QED
    BY <1>3, <2>1, <2>2 DEF ReadProduced
<1>4. CASE BumpProduced(p)
  <2>0. PICK to \in {"fetch", "done"} :
          /\ pc' = [pc EXCEPT ![p] = to] /\ pc[p] = "bump"
          /\ to = "fetch" => k[p] < NumParts /\ num_produced' = num_produced + 1
          /\ to = "done" => num_produced' = num_produced
    BY <1>4 DEF BumpProduced
  <2>1. counter_mutex = p /\ k[p] = num_produced
    BY <1>0, <2>0
  <2>2. num_produced' \in 0 .. NumParts
    BY <2>0, <2>1, PartAssumption
  <2>3. TypeOK'
    BY <1>0, <1>4, <2>0, <2>2 DEF BumpProduced
  <2>4. CounterInv'
    BY <1>0, <1>4, <2>0, <2>1, ProcessAssumption DEF BumpProduced
  <2> QED
    BY <1>4, <2>3, <2>4 DEF BumpProduced
<1>5. CASE Answer(p)
  BY <1>0, <1>5, PartAssumption DEF Answer, Seqs, Parts
<1>6. CASE AnswerUnnamed(p)
  BY <1>0, <1>6, FaultAssumption DEF AnswerUnnamed, Fault
<1>7. CASE CurlFails(p)
  BY <1>0, <1>7, FaultAssumption DEF CurlFails, Fault
<1>8. CASE WaitSpace(p)
  BY <1>0, <1>8 DEF WaitSpace
<1>9. CASE LockToAdd(p)
  BY <1>0, <1>9 DEF LockToAdd
<1>10. CASE AddImage(p)
  <2>1. buffer' \in BufferOf(Seqs) /\ RingInv(buffer')
    <3>1. CASE IsFull(buffer)
      BY <1>10, <3>1 DEF AddImage, Buffer_add
    <3>2. CASE ~IsFull(buffer)
      BY <1>0, <1>10, <3>2, AddAppends DEF AddImage
    <3> QED
      BY <3>1, <3>2
  <2> QED
    BY <1>0, <1>10, <2>1 DEF AddImage
<1>11. CASE PostItem(p)
  BY <1>0, <1>11 DEF PostItem, Seqs
<1> QED
  BY <1>1, <1>2, <1>3, <1>4, <1>5, <1>6, <1>7, <1>8, <1>9, <1>10, <1>11
     DEF ProducerStep, ProducerFault

LEMMA ConsumerTypes ==
  ASSUME TypeInv, NEW p \in Consumers, ConsumerStep(p) \/ WriteFails(p)
  PROVE  TypeInv'
<1> USE DEF TypeInv, TypeOK, CounterInv, Goto, ring, counters, outside,
            ProducerPC, ConsumerPC
<1>0. p \in Proc /\ p \notin Producers /\ p # NoProc /\ Consumers \subseteq Proc
  BY ProcessAssumption DEF Proc
<1>1. CASE ReadConsumed(p)
  <2>1. TypeOK'
    BY <1>0, <1>1 DEF ReadConsumed
  <2>2. CounterInv'
    BY <1>0, <1>1, ProcessAssumption DEF ReadConsumed, Proc
  <2> QED
    BY <1>1, <2>1, <2>2 DEF ReadConsumed
<1>2. CASE BumpConsumed(p)
  <2>0. PICK to \in {"c_item", "done"} : pc' = [pc EXCEPT ![p] = to] /\ pc[p] = "c_bump"
    BY <1>2 DEF BumpConsumed
  <2>1. TypeOK'
    BY <1>0, <1>2, <2>0 DEF BumpConsumed
  <2>2. CounterInv'
    BY <1>0, <1>2, <2>0, ProcessAssumption DEF BumpConsumed
  <2> QED
    BY <1>2, <2>1, <2>2 DEF BumpConsumed
<1>3. CASE WaitItem(p)
  BY <1>0, <1>3 DEF WaitItem
<1>4. CASE LockToPop(p)
  BY <1>0, <1>4 DEF LockToPop
<1>5. CASE PopImage(p)
  <2>1. CASE IsEmpty(buffer)
    BY <1>0, <1>5, <2>1 DEF PopImage, Buffer_pop
  <2>2. CASE ~IsEmpty(buffer)
    <3>1. buffer' \in BufferOf(Seqs) /\ RingInv(buffer') /\ Popped(buffer) \in Seqs
      BY <1>5, <2>2, PopHeads DEF PopImage
    <3> QED
      BY <1>0, <1>5, <2>2, <3>1 DEF PopImage
  <2> QED
    BY <2>1, <2>2
<1>6. CASE PostSpace(p)
  BY <1>0, <1>6 DEF PostSpace
<1>7. CASE WriteImage(p)
  BY <1>0, <1>7 DEF WriteImage, Seqs
<1>8. CASE WriteFails(p)
  BY <1>0, <1>8, FaultAssumption DEF WriteFails, Fault
<1> QED
  BY <1>1, <1>2, <1>3, <1>4, <1>5, <1>6, <1>7, <1>8 DEF ConsumerStep

LEMMA ParentTypes ==
  ASSUME TypeInv, ParentStep \/ ForkFails
  PROVE  TypeInv'
<1> USE DEF TypeInv, TypeOK, CounterInv, Goto, ring, counters, outside, Children
<1>1. ASSUME NEW p \in Proc, Fork(p) PROVE TypeInv'
  BY <1>1, ProcessAssumption DEF Fork, Proc, ProducerPC, ConsumerPC
<1>2. CASE WaitChildren
  BY <1>2 DEF WaitChildren
<1>3. CASE CatpngSucceeds
  BY <1>3 DEF CatpngSucceeds
<1>4. CASE CatpngFails
  BY <1>4 DEF CatpngFails
<1>5. CASE Destroy
  BY <1>5 DEF Destroy
<1>6. CASE ForkFails
  BY <1>6, FaultAssumption DEF ForkFails, Fault
<1> QED
  BY <1>1, <1>2, <1>3, <1>4, <1>5, <1>6 DEF ParentStep

LEMMA TypeStep ==
  ASSUME TypeInv, [Next]_vars
  PROVE  TypeInv'
<1>1. CASE UNCHANGED vars
  BY <1>1 DEF vars, ring, counters, outside, TypeInv, TypeOK, CounterInv
<1>2. CASE Next
  BY <1>2, ProducerTypes, ConsumerTypes, ParentTypes DEF Next
<1> QED
  BY <1>1, <1>2

(* The state of Lab 3 has its types in every reachable state; among them,   *)
(* num_produced never exceeds NumParts.                                     *)
THEOREM TypeCorrect == Spec => []TypeOK
<1>1. TypeInv => TypeOK
  BY DEF TypeInv
<1> QED
  BY <1>1, TypeInit, TypeStep, PTL DEF Spec

-----------------------------------------------------------------------------
(* The semaphores.                                                          *)

(* The four groups of processes SemaphoreBalance counts. *)
Reserved  == Cardinality(At({"p_lock", "p_add"}))
Freed     == Cardinality(At({"c_post"}))
Promised  == Cardinality(At({"c_lock", "c_pop"}))
Announced == Cardinality(At({"p_post"}))

Balanced ==
  /\ shared_spaces + Reserved + buffer.size + Freed = MaxSize
  /\ shared_items + Promised + Announced = buffer.size

Numbers ==
  /\ Reserved \in Nat /\ Freed \in Nat /\ Promised \in Nat /\ Announced \in Nat
  /\ shared_spaces \in Nat /\ shared_items \in Nat
  /\ buffer.size \in 0 .. MaxSize /\ MaxSize \in Nat

LEMMA NumbersTyped == TypeInv => Numbers
BY AtFinite, Fields, MaxSizeAssumption
   DEF TypeInv, TypeOK, Numbers, Reserved, Freed, Promised, Announced

LEMMA BalancedIsBalance == TypeInv => (Balanced <=> SemaphoreBalance)
BY NumbersTyped DEF Numbers, Balanced, SemaphoreBalance, Reserved, Freed, Promised, Announced

LEMMA GroupsMove ==
  ASSUME TypeInv, NEW p \in Proc, NEW from, NEW to, Goto(p, from, to)
  PROVE  /\ Reserved' = Reserved + (IF to \in {"p_lock", "p_add"} THEN 1 ELSE 0)
                                 - (IF from \in {"p_lock", "p_add"} THEN 1 ELSE 0)
         /\ Freed' = Freed + (IF to = "c_post" THEN 1 ELSE 0)
                           - (IF from = "c_post" THEN 1 ELSE 0)
         /\ Promised' = Promised + (IF to \in {"c_lock", "c_pop"} THEN 1 ELSE 0)
                                 - (IF from \in {"c_lock", "c_pop"} THEN 1 ELSE 0)
         /\ Announced' = Announced + (IF to = "p_post" THEN 1 ELSE 0)
                                   - (IF from = "p_post" THEN 1 ELSE 0)
<1>1. pc \in [Proc -> ProducerPC \cup ConsumerPC]
  BY DEF TypeInv, TypeOK
<1>2. Cardinality(At({"p_lock", "p_add"})') =
        Cardinality(At({"p_lock", "p_add"}))
          + (IF to \in {"p_lock", "p_add"} THEN 1 ELSE 0)
          - (IF from \in {"p_lock", "p_add"} THEN 1 ELSE 0)
  BY <1>1, AtMoves
<1>3. Cardinality(At({"c_post"})') =
        Cardinality(At({"c_post"})) + (IF to \in {"c_post"} THEN 1 ELSE 0)
                                    - (IF from \in {"c_post"} THEN 1 ELSE 0)
  BY <1>1, AtMoves
<1>4. Cardinality(At({"c_lock", "c_pop"})') =
        Cardinality(At({"c_lock", "c_pop"}))
          + (IF to \in {"c_lock", "c_pop"} THEN 1 ELSE 0)
          - (IF from \in {"c_lock", "c_pop"} THEN 1 ELSE 0)
  BY <1>1, AtMoves
<1>5. Cardinality(At({"p_post"})') =
        Cardinality(At({"p_post"})) + (IF to \in {"p_post"} THEN 1 ELSE 0)
                                    - (IF from \in {"p_post"} THEN 1 ELSE 0)
  BY <1>1, AtMoves
<1> QED
  BY <1>2, <1>3, <1>4, <1>5 DEF Reserved, Freed, Promised, Announced

(* A step between places that hold nothing of the ring, and that leaves it  *)
(* alone, keeps the balance.                                                *)
LEMMA BalanceAside ==
  ASSUME TypeInv, Balanced, NEW p \in Proc, NEW from, NEW to, Goto(p, from, to),
         {from, to} \cap {"p_lock", "p_add", "c_post", "c_lock", "c_pop", "p_post"} = {},
         UNCHANGED <<buffer, shared_spaces, shared_items>>
  PROVE  Balanced'
<1>1. Reserved' = Reserved /\ Freed' = Freed /\ Promised' = Promised /\ Announced' = Announced
  <2>1. Numbers
    BY NumbersTyped
  <2>2. /\ from \notin {"p_lock", "p_add"} /\ to \notin {"p_lock", "p_add"}
        /\ from \notin {"c_lock", "c_pop"} /\ to \notin {"c_lock", "c_pop"}
        /\ from # "c_post" /\ to # "c_post" /\ from # "p_post" /\ to # "p_post"
    OBVIOUS
  <2>3. /\ Reserved' = Reserved + 0 - 0 /\ Freed' = Freed + 0 - 0
        /\ Promised' = Promised + 0 - 0 /\ Announced' = Announced + 0 - 0
    BY <2>2, GroupsMove
  <2> QED
    BY <2>1, <2>3 DEF Numbers
<1> QED
  BY <1>1 DEF Balanced

LEMMA BalanceInit == Init => Balanced
<1> SUFFICES ASSUME Init PROVE Balanced
  OBVIOUS
<1>1. \A S : "unborn" \notin S => At(S) = {}
  BY DEF Init, At
<1>2. Reserved = 0 /\ Freed = 0 /\ Promised = 0 /\ Announced = 0
  BY <1>1, FS_EmptySet DEF Reserved, Freed, Promised, Announced
<1>3. buffer.size = 0
  BY DEF Init, Buffer_init
<1> QED
  BY <1>2, <1>3, MaxSizeAssumption DEF Init, Balanced

LEMMA ProducerBalance ==
  ASSUME TypeInv, Balanced, NEW p \in Producers, ProducerStep(p) \/ ProducerFault(p)
  PROVE  Balanced'
<1>0. p \in Proc /\ Numbers
  BY NumbersTyped DEF Proc
<1>1. CASE \/ CurlInit(p) \/ ReadProduced(p) \/ BumpProduced(p) \/ Answer(p)
           \/ ProducerFault(p)
  <2>1. PICK from \in {"init", "claim", "bump", "fetch"},
             to \in {"claim", "no_handle", "bump", "fetch", "done", "p_space", "fetch_failed"} :
          Goto(p, from, to)
    BY <1>1 DEF CurlInit, CurlInitFails, ReadProduced, BumpProduced, Answer,
                AnswerUnnamed, CurlFails, ProducerFault, Goto
  <2>2. UNCHANGED <<buffer, shared_spaces, shared_items>>
    BY <1>1 DEF CurlInit, CurlInitFails, ReadProduced, BumpProduced, Answer,
                AnswerUnnamed, CurlFails, ProducerFault, ring
  <2> QED
    BY <1>0, <2>1, <2>2, BalanceAside
<1>2. CASE WaitSpace(p)
  <2>1. Goto(p, "p_space", "p_lock")
    BY <1>2 DEF WaitSpace
  <2>2. Reserved' = Reserved + 1 /\ Freed' = Freed /\ Promised' = Promised /\ Announced' = Announced
    BY <1>0, <2>1, GroupsMove DEF Numbers
  <2> QED
    BY <1>0, <1>2, <2>2 DEF WaitSpace, Balanced, Numbers
<1>3. CASE LockToAdd(p)
  <2>1. Goto(p, "p_lock", "p_add")
    BY <1>3 DEF LockToAdd
  <2>2. Reserved' = Reserved /\ Freed' = Freed /\ Promised' = Promised /\ Announced' = Announced
    BY <1>0, <2>1, GroupsMove DEF Numbers
  <2> QED
    BY <1>3, <2>2 DEF LockToAdd, Balanced
<1>4. CASE AddImage(p)
  <2>1. Goto(p, "p_add", "p_post")
    BY <1>4 DEF AddImage
  <2>2. Reserved' = Reserved - 1 /\ Freed' = Freed /\ Promised' = Promised /\ Announced' = Announced + 1
    BY <1>0, <2>1, GroupsMove DEF Numbers
  <2>3. Reserved # 0
    <3>1. p \in At({"p_lock", "p_add"})
      BY <1>0, <2>1 DEF At, Goto
    <3> QED
      BY <3>1, AtFinite, FS_EmptySet DEF Reserved
  <2>4. ~IsFull(buffer)
    BY <1>0, <2>3 DEF Balanced, Numbers, IsFull
  <2>5. buffer'.size = buffer.size + 1
    BY <1>0, <1>4, <2>4, AddAppends DEF AddImage, TypeInv, TypeOK
  <2> QED
    BY <1>0, <1>4, <2>2, <2>5 DEF AddImage, Balanced, Numbers
<1>5. CASE PostItem(p)
  <2>1. Goto(p, "p_post", "claim")
    BY <1>5 DEF PostItem
  <2>2. Reserved' = Reserved /\ Freed' = Freed /\ Promised' = Promised /\ Announced' = Announced - 1
    BY <1>0, <2>1, GroupsMove DEF Numbers
  <2> QED
    BY <1>0, <1>5, <2>2 DEF PostItem, Balanced, Numbers
<1> QED
  BY <1>1, <1>2, <1>3, <1>4, <1>5 DEF ProducerStep

LEMMA ConsumerBalance ==
  ASSUME TypeInv, Balanced, NEW p \in Consumers, ConsumerStep(p) \/ WriteFails(p)
  PROVE  Balanced'
<1>0. p \in Proc /\ Numbers
  BY NumbersTyped DEF Proc
<1>1. CASE ReadConsumed(p) \/ BumpConsumed(p) \/ WriteImage(p) \/ WriteFails(p)
  <2>1. PICK from \in {"c_claim", "c_bump", "c_write"},
             to \in {"c_bump", "c_item", "done", "c_claim", "unwritten"} : Goto(p, from, to)
    BY <1>1 DEF ReadConsumed, BumpConsumed, WriteImage, WriteFails, Goto
  <2>2. UNCHANGED <<buffer, shared_spaces, shared_items>>
    BY <1>1 DEF ReadConsumed, BumpConsumed, WriteImage, WriteFails, ring
  <2> QED
    BY <1>0, <2>1, <2>2, BalanceAside
<1>2. CASE WaitItem(p)
  <2>1. Goto(p, "c_item", "c_lock")
    BY <1>2 DEF WaitItem
  <2>2. Reserved' = Reserved /\ Freed' = Freed /\ Promised' = Promised + 1 /\ Announced' = Announced
    BY <1>0, <2>1, GroupsMove DEF Numbers
  <2> QED
    BY <1>0, <1>2, <2>2 DEF WaitItem, Balanced, Numbers
<1>3. CASE LockToPop(p)
  <2>1. Goto(p, "c_lock", "c_pop")
    BY <1>3 DEF LockToPop
  <2>2. Reserved' = Reserved /\ Freed' = Freed /\ Promised' = Promised /\ Announced' = Announced
    BY <1>0, <2>1, GroupsMove DEF Numbers
  <2> QED
    BY <1>3, <2>2 DEF LockToPop, Balanced
<1>4. CASE PopImage(p)
  <2>1. Goto(p, "c_pop", "c_post")
    BY <1>4 DEF PopImage
  <2>2. Reserved' = Reserved /\ Freed' = Freed + 1 /\ Promised' = Promised - 1 /\ Announced' = Announced
    BY <1>0, <2>1, GroupsMove DEF Numbers
  <2>3. Promised # 0
    <3>1. p \in At({"c_lock", "c_pop"})
      BY <1>0, <2>1 DEF At, Goto
    <3> QED
      BY <3>1, AtFinite, FS_EmptySet DEF Promised
  <2>4. ~IsEmpty(buffer)
    BY <1>0, <2>3 DEF Balanced, Numbers, IsEmpty
  <2>5. buffer'.size = buffer.size - 1
    BY <1>4, <2>4, PopHeads DEF PopImage, TypeInv, TypeOK
  <2> QED
    BY <1>0, <1>4, <2>2, <2>5 DEF PopImage, Balanced, Numbers
<1>5. CASE PostSpace(p)
  <2>1. Goto(p, "c_post", "c_write")
    BY <1>5 DEF PostSpace
  <2>2. Reserved' = Reserved /\ Freed' = Freed - 1 /\ Promised' = Promised /\ Announced' = Announced
    BY <1>0, <2>1, GroupsMove DEF Numbers
  <2> QED
    BY <1>0, <1>5, <2>2 DEF PostSpace, Balanced, Numbers
<1> QED
  BY <1>1, <1>2, <1>3, <1>4, <1>5 DEF ConsumerStep

(* A step that moves no process and leaves the ring alone. *)
LEMMA BalanceFrame ==
  ASSUME Balanced, UNCHANGED <<pc, buffer, shared_spaces, shared_items>>
  PROVE  Balanced'
BY DEF Balanced, Reserved, Freed, Promised, Announced, At

LEMMA ParentBalance ==
  ASSUME TypeInv, Balanced, ParentStep \/ ForkFails
  PROVE  Balanced'
<1>1. ASSUME NEW p \in Proc, Fork(p) PROVE Balanced'
  <2>1. PICK to \in {"init", "c_claim"} : Goto(p, "unborn", to)
    BY <1>1 DEF Fork
  <2> QED
    BY <1>1, <2>1, BalanceAside DEF Fork, ring
<1>2. CASE WaitChildren \/ CatpngSucceeds \/ CatpngFails \/ Destroy \/ ForkFails
  BY <1>2, BalanceFrame
     DEF WaitChildren, CatpngSucceeds, CatpngFails, Destroy, ForkFails, Children, ring
<1> QED
  BY <1>1, <1>2 DEF ParentStep

LEMMA BalanceStep ==
  ASSUME TypeInv, Balanced, [Next]_vars
  PROVE  Balanced'
<1>1. CASE UNCHANGED vars
  BY <1>1, BalanceFrame DEF vars, ring
<1>2. CASE Next
  BY <1>2, ProducerBalance, ConsumerBalance, ParentBalance DEF Next
<1> QED
  BY <1>1, <1>2

(* The semaphores of the ring count its free and its used slots, whatever   *)
(* processes fail and even after a consumer has freed shared_mutex for      *)
(* another process.                                                         *)
THEOREM Balance == Spec => []SemaphoreBalance
<1>1. Init => TypeInv /\ Balanced
  BY TypeInit, BalanceInit
<1>2. TypeInv /\ Balanced /\ [Next]_vars => (TypeInv /\ Balanced)'
  BY TypeStep, BalanceStep
<1>3. TypeInv /\ Balanced => SemaphoreBalance
  BY BalancedIsBalance
<1> QED
  BY <1>1, <1>2, <1>3, PTL DEF Spec

(* Buffer_add never finds the ring full and Buffer_pop never finds it       *)
(* empty: ignoring their return codes loses nothing.                        *)
THEOREM ReturnCodesAreZero == Spec => []IgnoredReturnCodes
<1>1. Init => TypeInv /\ Balanced
  BY TypeInit, BalanceInit
<1>2. TypeInv /\ Balanced /\ [Next]_vars => (TypeInv /\ Balanced)'
  BY TypeStep, BalanceStep
<1>3. ASSUME TypeInv, Balanced PROVE IgnoredReturnCodes
  <2>1. Numbers
    BY <1>3, NumbersTyped
  <2>2. ASSUME At({"p_add"}) # {} PROVE ~IsFull(buffer)
    <3>1. At({"p_lock", "p_add"}) # {}
      BY <2>2 DEF At
    <3>2. Reserved # 0
      BY <3>1, AtFinite, FS_EmptySet DEF Reserved
    <3> QED
      BY <1>3, <2>1, <3>2 DEF Balanced, Numbers, IsFull
  <2>3. ASSUME At({"c_pop"}) # {} PROVE ~IsEmpty(buffer)
    <3>1. At({"c_lock", "c_pop"}) # {}
      BY <2>3 DEF At
    <3>2. Promised # 0
      BY <3>1, AtFinite, FS_EmptySet DEF Promised
    <3> QED
      BY <1>3, <2>1, <3>2 DEF Balanced, Numbers, IsEmpty
  <2> QED
    BY <2>2, <2>3 DEF IgnoredReturnCodes
<1> QED
  BY <1>1, <1>2, <1>3, PTL DEF Spec

-----------------------------------------------------------------------------
(* The critical section of shared_mutex.                                    *)

LEMMA MutexInit == Init => MutexInv
BY DEF Init, MutexInv, CriticalSection

LEMMA MutexStep ==
  ASSUME TypeInv, MutexInv, [Next]_vars
  PROVE  MutexInv'
<1> USE DEF MutexInv, CriticalSection, At
<1>1. CASE UNCHANGED vars
  BY <1>1 DEF vars, ring
<1>2. ASSUME NEW p \in Producers, ProducerStep(p) \/ ProducerFault(p) PROVE MutexInv'
  <2>0. p \in Proc /\ NoProc \notin Proc
    BY ProcessAssumption DEF Proc
  <2> USE DEF Goto, ring
  <2>1. CASE LockToAdd(p)
    BY <2>0, <2>1 DEF LockToAdd, TypeInv, TypeOK
  <2>2. CASE AddImage(p)
    BY <2>0, <2>2 DEF AddImage, TypeInv, TypeOK
  <2>3. CASE \/ CurlInit(p) \/ ReadProduced(p) \/ BumpProduced(p) \/ Answer(p)
             \/ ProducerFault(p) \/ WaitSpace(p) \/ PostItem(p)
    BY <2>0, <2>3 DEF CurlInit, CurlInitFails, ReadProduced, BumpProduced, Answer,
                AnswerUnnamed, CurlFails, ProducerFault, WaitSpace, PostItem, TypeInv, TypeOK
  <2> QED
    BY <1>2, <2>1, <2>2, <2>3 DEF ProducerStep
<1>3. ASSUME NEW p \in Consumers, ConsumerStep(p) \/ WriteFails(p) PROVE MutexInv'
  <2>0. p \in Proc /\ NoProc \notin Proc
    BY ProcessAssumption DEF Proc
  <2> USE DEF Goto, ring
  <2>1. CASE LockToPop(p)
    BY <2>0, <2>1 DEF LockToPop, TypeInv, TypeOK
  <2>2. CASE PopImage(p)
    BY <2>0, <2>2 DEF PopImage, TypeInv, TypeOK
  <2>3. CASE WriteFails(p)
    BY <2>0, <2>3 DEF WriteFails, TypeInv, TypeOK
  <2>4. CASE ReadConsumed(p) \/ BumpConsumed(p) \/ WaitItem(p) \/ PostSpace(p) \/ WriteImage(p)
    BY <2>0, <2>4 DEF ReadConsumed, BumpConsumed, WaitItem, PostSpace, WriteImage, TypeInv, TypeOK
  <2> QED
    BY <1>3, <2>1, <2>2, <2>3, <2>4 DEF ConsumerStep
<1>4. CASE ParentStep \/ ForkFails
  <2>1. ASSUME NEW p \in Proc, Fork(p) PROVE MutexInv'
    BY <2>1 DEF Fork, Goto, ring, TypeInv, TypeOK
  <2>2. CASE WaitChildren \/ CatpngSucceeds \/ CatpngFails \/ Destroy \/ ForkFails
    BY <2>2 DEF WaitChildren, CatpngSucceeds, CatpngFails, Destroy, ForkFails, Children, ring
  <2> QED
    BY <1>4, <2>1, <2>2 DEF ParentStep
<1> QED
  BY <1>1, <1>2, <1>3, <1>4 DEF Next

(* Without a failed write no two processes touch the ring at once.          *)
THEOREM MutualExclusion == Spec => []RaceOnlyAfterFailedWrite
<1>1. Init => TypeInv /\ MutexInv
  BY TypeInit, MutexInit
<1>2. TypeInv /\ MutexInv /\ [Next]_vars => (TypeInv /\ MutexInv)'
  BY TypeStep, MutexStep
<1>3. TypeInv /\ MutexInv => RaceOnlyAfterFailedWrite
  BY DEF MutexInv, RaceOnlyAfterFailedWrite, Race, At
<1> QED
  BY <1>1, <1>2, <1>3, PTL DEF Spec

-----------------------------------------------------------------------------
(* The strips: what each step does to them, and where they are.             *)

(* The strip each process carries, and the strips in the ring. *)
held == [p \in Proc |->
          IF pc[p] = "fetch" THEN k[p]
          ELSE IF pc[p] \in {"p_space", "p_lock", "p_add", "c_post", "c_write"}
               THEN recv[p] ELSE NoSeq]
line == Contents(buffer)

(* A producer that has nothing yet has a fresh recv_buf, and no file is     *)
(* merged before the parent runs catpng, which it does once, when the       *)
(* children have ended.                                                     *)
RecvInv ==
  \A p \in Producers : pc[p] \in {"unborn", "init", "claim", "bump", "fetch"} => recv[p] = NoSeq

FileInv ==
  parent \in {"forking", "waiting", "catpng"} => \A s \in Seqs : file[s] # "merged"

FreshInv == RecvInv /\ FileInv

(* A strip is in one place only: with one process, in one slot, or in its   *)
(* file; and one nobody has claimed is nowhere.                             *)
Strips ==
  /\ \A p, q \in Proc : held[p] = held[q] /\ p # q => held[p] = NoSeq
  /\ \A p \in Proc, i \in 1 .. Len(line) : held[p] = line[i] => line[i] = NoSeq
  /\ \A i, j \in 1 .. Len(line) : line[i] = line[j] /\ i # j => line[i] = NoSeq
  /\ \A p \in Proc : held[p] # NoSeq => held[p] < num_produced /\ file[held[p]] = "absent"
  /\ \A i \in 1 .. Len(line) : line[i] # NoSeq => line[i] < num_produced /\ file[line[i]] = "absent"
  /\ \A s \in Parts : s >= num_produced => file[s] = "absent"

Typed ==
  /\ held \in [Proc -> Seqs] /\ line \in Seq(Seqs)
  /\ num_produced \in 0 .. NumParts
  /\ file \in [Seqs -> {"absent", "partial", "whole", "merged"}]
  /\ NumParts \in Nat /\ NoSeq \notin Nat

(* What a step does to the strips. *)
Leaves == UNCHANGED <<held, line, num_produced, file>>

Claims(p) ==
  /\ num_produced < NumParts /\ held[p] = NoSeq
  /\ held' = [held EXCEPT ![p] = num_produced]
  /\ num_produced' = num_produced + 1
  /\ UNCHANGED <<line, file>>

Drops(p) ==
  /\ held' = [held EXCEPT ![p] = NoSeq]
  /\ file' \in {file, [file EXCEPT ![held[p]] = "partial"]}
  /\ UNCHANGED <<line, num_produced>>

Puts(p) ==
  /\ Len(line) < MaxSize
  /\ held' = [held EXCEPT ![p] = NoSeq]
  /\ line' = Append(line, held[p])
  /\ UNCHANGED <<num_produced, file>>

Takes(p) ==
  /\ line # <<>> /\ held[p] = NoSeq
  /\ held' = [held EXCEPT ![p] = Head(line)]
  /\ line' = Tail(line)
  /\ UNCHANGED <<num_produced, file>>

Stores(p) ==
  /\ held' = [held EXCEPT ![p] = NoSeq]
  /\ file' = [file EXCEPT ![held[p]] = "whole"]
  /\ UNCHANGED <<line, num_produced>>

Merges ==
  /\ \A s \in Parts : file[s] \in {"partial", "whole"}
  /\ file' = [s \in Seqs |-> CASE s \notin Parts     -> file[s]
                              [] file[s] = "whole" -> "merged"
                              [] OTHER             -> "absent"]
  /\ UNCHANGED <<held, line, num_produced>>

Effect ==
  \/ Leaves
  \/ \E p \in Producers : Claims(p) \/ Drops(p) \/ Puts(p)
  \/ \E p \in Consumers : Takes(p) \/ Stores(p) \/ Drops(p)
  \/ Merges

-----------------------------------------------------------------------------
LEMMA TypedStrips == TypeInv => Typed
<1> SUFFICES ASSUME TypeInv PROVE Typed
  OBVIOUS
<1>1. held \in [Proc -> Seqs]
  <2>1. ASSUME NEW p \in Proc, pc[p] = "fetch" PROVE k[p] \in Seqs
    BY <2>1, PartAssumption DEF TypeInv, TypeOK, CounterInv, Seqs, Parts
  <2>2. recv \in [Proc -> Seqs] /\ NoSeq \in Seqs
    BY DEF TypeInv, TypeOK, Seqs
  <2> QED
    BY <2>1, <2>2 DEF held
<1>2. line \in Seq(Seqs)
  BY ContentsTyped DEF TypeInv, TypeOK, line
<1> QED
  BY <1>1, <1>2, PartAssumption DEF TypeInv, TypeOK, Typed

LEMMA FreshInit == Init => FreshInv
BY DEF Init, FreshInv, RecvInv, FileInv, Proc

LEMMA RecvStep ==
  ASSUME TypeInv, RecvInv, [Next]_vars
  PROVE  RecvInv'
<1> USE DEF RecvInv, Goto
<1>0. /\ pc \in [Proc -> ProducerPC \cup ConsumerPC] /\ recv \in [Proc -> Seqs]
      /\ Producers \cap Consumers = {} /\ Producers \subseteq Proc /\ Consumers \subseteq Proc
  BY ProcessAssumption DEF TypeInv, TypeOK, Proc
<1>1. CASE UNCHANGED vars
  BY <1>1 DEF vars
<1>2. ASSUME NEW p \in Producers, ProducerStep(p) \/ ProducerFault(p) PROVE RecvInv'
  <2>1. CASE PostItem(p)
    BY <1>0, <2>1 DEF PostItem
  <2>2. CASE Answer(p)
    BY <1>0, <2>2 DEF Answer
  <2>3. CASE CurlInit(p) \/ ReadProduced(p) \/ BumpProduced(p) \/ CurlInitFails(p)
    BY <1>0, <2>3 DEF CurlInit, ReadProduced, BumpProduced, CurlInitFails
  <2>4. CASE \/ WaitSpace(p) \/ LockToAdd(p) \/ AddImage(p)
             \/ AnswerUnnamed(p) \/ CurlFails(p)
    BY <1>0, <2>4 DEF WaitSpace, LockToAdd, AddImage, AnswerUnnamed, CurlFails
  <2> QED
    BY <1>2, <2>1, <2>2, <2>3, <2>4 DEF ProducerStep, ProducerFault
<1>3. ASSUME NEW p \in Consumers, ConsumerStep(p) \/ WriteFails(p) PROVE RecvInv'
  <2>1. CASE ReadConsumed(p) \/ BumpConsumed(p) \/ WaitItem(p) \/ LockToPop(p)
    BY <1>0, <2>1 DEF ReadConsumed, BumpConsumed, WaitItem, LockToPop
  <2>2. CASE PopImage(p) \/ PostSpace(p) \/ WriteImage(p) \/ WriteFails(p)
    BY <1>0, <2>2 DEF PopImage, PostSpace, WriteImage, WriteFails
  <2> QED
    BY <1>3, <2>1, <2>2 DEF ConsumerStep
<1>4. CASE ParentStep \/ ForkFails
  <2>1. ASSUME NEW p \in Proc, Fork(p) PROVE RecvInv'
    BY <1>0, <2>1 DEF Fork
  <2>2. CASE WaitChildren \/ CatpngSucceeds \/ CatpngFails \/ Destroy \/ ForkFails
    BY <2>2 DEF WaitChildren, CatpngSucceeds, CatpngFails, Destroy, ForkFails, Children
  <2> QED
    BY <1>4, <2>1, <2>2 DEF ParentStep
<1> QED
  BY <1>1, <1>2, <1>3, <1>4 DEF Next

LEMMA FileStep ==
  ASSUME TypeInv, FileInv, [Next]_vars
  PROVE  FileInv'
<1> USE DEF FileInv, outside
<1>0. file \in [Seqs -> {"absent", "partial", "whole", "merged"}]
  BY DEF TypeInv, TypeOK
<1>1. CASE UNCHANGED vars
  BY <1>1 DEF vars
<1>2. ASSUME NEW p \in Producers, ProducerStep(p) \/ ProducerFault(p) PROVE FileInv'
  <2>1. UNCHANGED <<file, parent>>
    BY <1>2 DEF ProducerStep, CurlInit, ReadProduced, BumpProduced, Answer, WaitSpace,
                LockToAdd, AddImage, PostItem,
                ProducerFault, CurlInitFails, AnswerUnnamed, CurlFails
  <2> QED
    BY <2>1
<1>3. ASSUME NEW p \in Consumers, ConsumerStep(p) \/ WriteFails(p) PROVE FileInv'
  <2>1. CASE WriteImage(p) \/ WriteFails(p)
    BY <1>0, <2>1 DEF WriteImage, WriteFails
  <2>2. CASE ~(WriteImage(p) \/ WriteFails(p))
    BY <1>3, <2>2 DEF ConsumerStep, ReadConsumed, BumpConsumed, WaitItem, LockToPop, PopImage, PostSpace
  <2> QED
    BY <2>1, <2>2
<1>4. CASE ParentStep \/ ForkFails
  <2>1. ASSUME NEW p \in Proc, Fork(p) PROVE FileInv'
    BY <2>1 DEF Fork
  <2>2. CASE WaitChildren \/ CatpngFails \/ Destroy \/ ForkFails
    BY <2>2 DEF WaitChildren, CatpngFails, Destroy, ForkFails
  <2>3. CASE CatpngSucceeds
    BY <2>3 DEF CatpngSucceeds
  <2> QED
    BY <1>4, <2>1, <2>2, <2>3 DEF ParentStep
<1> QED
  BY <1>1, <1>2, <1>3, <1>4 DEF Next

LEMMA FreshStep ==
  ASSUME TypeInv, FreshInv, [Next]_vars
  PROVE  FreshInv'
BY RecvStep, FileStep DEF FreshInv

-----------------------------------------------------------------------------
LEMMA ProducerEffect ==
  ASSUME TypeInv, Balanced, FreshInv, NEW p \in Producers, ProducerStep(p) \/ ProducerFault(p)
  PROVE  Leaves \/ Claims(p) \/ Drops(p) \/ Puts(p)
<1>0. /\ pc \in [Proc -> ProducerPC \cup ConsumerPC]
      /\ recv \in [Proc -> Seqs] /\ k \in [Proc -> Nat]
      /\ p \in Proc
  BY DEF TypeInv, TypeOK, Proc
<1> USE DEF Goto, ring, counters, outside
<1>1. CASE CurlInit(p) \/ CurlInitFails(p) \/ ReadProduced(p)
  <2>1. held' = held
    BY <1>0, <1>1 DEF CurlInit, CurlInitFails, ReadProduced, held
  <2> QED
    BY <1>1, <2>1 DEF CurlInit, CurlInitFails, ReadProduced, Leaves, line
<1>2. CASE BumpProduced(p)
  <2>0. k[p] = num_produced
    BY <1>0, <1>2 DEF BumpProduced, TypeInv, CounterInv
  <2>1. CASE k[p] < NumParts
    <3>1. held' = [held EXCEPT ![p] = num_produced] /\ held[p] = NoSeq
      BY <1>0, <1>2, <2>0, <2>1 DEF BumpProduced, held
    <3> QED
      BY <1>2, <2>0, <2>1, <3>1 DEF BumpProduced, Claims, line
  <2>2. CASE ~(k[p] < NumParts)
    <3>1. held' = held
      BY <1>0, <1>2, <2>2 DEF BumpProduced, held
    <3> QED
      BY <1>2, <2>2, <3>1 DEF BumpProduced, Leaves, line
  <2> QED
    BY <2>1, <2>2
<1>3. CASE Answer(p)
  <2>1. held' = held
    BY <1>0, <1>3 DEF Answer, held
  <2> QED
    BY <1>3, <2>1 DEF Answer, Leaves, line
<1>4. CASE AnswerUnnamed(p) \/ CurlFails(p)
  <2>0. pc[p] = "fetch" /\ recv[p] = NoSeq /\ recv' = recv
    BY <1>4 DEF AnswerUnnamed, CurlFails, FreshInv, RecvInv
  <2>1. held' = [held EXCEPT ![p] = NoSeq]
    BY <1>0, <1>4, <2>0 DEF AnswerUnnamed, CurlFails, held
  <2> QED
    BY <1>4, <2>1 DEF AnswerUnnamed, CurlFails, Drops, line
<1>5. CASE WaitSpace(p) \/ LockToAdd(p)
  <2>1. held' = held
    BY <1>0, <1>5 DEF WaitSpace, LockToAdd, held
  <2> QED
    BY <1>5, <2>1 DEF WaitSpace, LockToAdd, Leaves, line
<1>6. CASE AddImage(p)
  <2>1. held' = [held EXCEPT ![p] = NoSeq] /\ held[p] = recv[p]
    BY <1>0, <1>6 DEF AddImage, held
  <2>2. Reserved # 0
    <3>1. p \in At({"p_lock", "p_add"})
      BY <1>0, <1>6 DEF AddImage, At
    <3> QED
      BY <3>1, AtFinite, FS_EmptySet DEF Reserved
  <2>3. buffer.size < MaxSize /\ ~IsFull(buffer)
    BY <2>2, NumbersTyped DEF Balanced, Numbers, IsFull
  <2>4. line' = Append(line, recv[p])
    BY <1>0, <1>6, <2>3, AddAppends DEF AddImage, TypeInv, TypeOK, line
  <2>5. Len(line) < MaxSize
    BY <2>3, ContentsTyped DEF TypeInv, TypeOK, line
  <2> QED
    BY <1>6, <2>1, <2>4, <2>5 DEF AddImage, Puts
<1>7. CASE PostItem(p)
  <2>1. held' = held
    BY <1>0, <1>7 DEF PostItem, held
  <2> QED
    BY <1>7, <2>1 DEF PostItem, Leaves, line
<1> QED
  BY <1>1, <1>2, <1>3, <1>4, <1>5, <1>6, <1>7 DEF ProducerStep, ProducerFault

LEMMA ConsumerEffect ==
  ASSUME TypeInv, Balanced, NEW p \in Consumers, ConsumerStep(p) \/ WriteFails(p)
  PROVE  Leaves \/ Takes(p) \/ Stores(p) \/ Drops(p)
<1>0. /\ pc \in [Proc -> ProducerPC \cup ConsumerPC]
      /\ recv \in [Proc -> Seqs] /\ k \in [Proc -> Nat]
      /\ p \in Proc
  BY DEF TypeInv, TypeOK, Proc
<1> USE DEF Goto, ring, counters, outside
<1>1. CASE ReadConsumed(p) \/ BumpConsumed(p) \/ WaitItem(p) \/ LockToPop(p)
  <2>1. held' = held
    BY <1>0, <1>1 DEF ReadConsumed, BumpConsumed, WaitItem, LockToPop, held
  <2> QED
    BY <1>1, <2>1 DEF ReadConsumed, BumpConsumed, WaitItem, LockToPop, Leaves, line
<1>2. CASE PopImage(p)
  <2>1. Promised # 0
    <3>1. p \in At({"c_lock", "c_pop"})
      BY <1>0, <1>2 DEF PopImage, At
    <3> QED
      BY <3>1, AtFinite, FS_EmptySet DEF Promised
  <2>2. ~IsEmpty(buffer)
    BY <2>1, NumbersTyped DEF Balanced, Numbers, IsEmpty
  <2>3. Popped(buffer) = Head(line) /\ line' = Tail(line) /\ line # <<>>
    BY <1>2, <2>2, PopHeads DEF PopImage, TypeInv, TypeOK, line
  <2>4. held' = [held EXCEPT ![p] = Popped(buffer)] /\ held[p] = NoSeq
    BY <1>0, <1>2, <2>2 DEF PopImage, held
  <2> QED
    BY <1>2, <2>3, <2>4 DEF PopImage, Takes
<1>3. CASE PostSpace(p)
  <2>1. held' = held
    BY <1>0, <1>3 DEF PostSpace, held
  <2> QED
    BY <1>3, <2>1 DEF PostSpace, Leaves, line
<1>4. CASE WriteImage(p)
  <2>1. held' = [held EXCEPT ![p] = NoSeq] /\ held[p] = recv[p]
    BY <1>0, <1>4 DEF WriteImage, held
  <2> QED
    BY <1>4, <2>1 DEF WriteImage, Stores, line
<1>5. CASE WriteFails(p)
  <2>1. held' = [held EXCEPT ![p] = NoSeq] /\ held[p] = recv[p]
    BY <1>0, <1>5 DEF WriteFails, held
  <2> QED
    BY <1>5, <2>1 DEF WriteFails, Drops, line
<1> QED
  BY <1>1, <1>2, <1>3, <1>4, <1>5 DEF ConsumerStep

LEMMA ParentEffect ==
  ASSUME TypeInv, FreshInv, ParentStep \/ ForkFails
  PROVE  Leaves \/ Merges
<1> USE DEF ring, counters, outside, Children
<1>1. ASSUME NEW p \in Proc, Fork(p) PROVE Leaves
  <2>1. held' = held
    BY <1>1 DEF Fork, Goto, TypeInv, TypeOK, held
  <2> QED
    BY <1>1, <2>1 DEF Fork, Leaves, line
<1>2. CASE CatpngSucceeds
  <2>1. held' = held
    BY <1>2 DEF CatpngSucceeds, held
  <2>2. \A s \in Parts : file[s] \in {"partial", "whole"}
    BY <1>2 DEF CatpngSucceeds, FreshInv, FileInv, TypeInv, TypeOK, Seqs
  <2> QED
    BY <1>2, <2>1, <2>2 DEF CatpngSucceeds, Merges, line
<1>3. CASE WaitChildren \/ CatpngFails \/ Destroy \/ ForkFails
  <2>1. held' = held
    BY <1>3 DEF WaitChildren, CatpngFails, Destroy, ForkFails, held
  <2> QED
    BY <1>3, <2>1 DEF WaitChildren, CatpngFails, Destroy, ForkFails, Leaves, line
<1> QED
  BY <1>1, <1>2, <1>3 DEF ParentStep

LEMMA StepEffect ==
  ASSUME TypeInv, Balanced, FreshInv, [Next]_vars
  PROVE  Effect
<1>1. CASE UNCHANGED vars
  BY <1>1 DEF vars, ring, counters, outside, Effect, Leaves, held, line
<1>2. CASE Next
  BY <1>2, ProducerEffect, ConsumerEffect, ParentEffect DEF Next, Effect
<1> QED
  BY <1>1, <1>2

-----------------------------------------------------------------------------
(* Each effect keeps every strip in one place.                              *)

LEMMA StripsInit == Init => Strips
<1> SUFFICES ASSUME Init PROVE Strips
  OBVIOUS
<1>1. held = [p \in Proc |-> NoSeq]
  BY DEF Init, held
<1>2. Len(line) = 0
  <2>1. line = <<>>
    BY InitRing DEF Init, Seqs, line
  <2> QED
    BY <2>1
<1> QED
  BY <1>1, <1>2 DEF Init, Strips, Seqs

LEMMA StripsStep ==
  ASSUME Typed, Typed', Strips, Effect
  PROVE  Strips'
<1> USE DEF Typed
<1>0. /\ Producers \subseteq Proc /\ Consumers \subseteq Proc
      /\ Parts = 0 .. NumParts - 1 /\ Seqs = Parts \cup {NoSeq} /\ Len(line) \in Nat
  BY DEF Proc, Parts, Seqs
<1>1. CASE Leaves
  BY <1>1 DEF Leaves, Strips
<1>2. ASSUME NEW p \in Proc, Claims(p) PROVE Strips'
  BY <1>0, <1>2 DEF Claims, Strips
<1>3. ASSUME NEW p \in Proc, Drops(p) PROVE Strips'
  BY <1>0, <1>3 DEF Drops, Strips
<1>4. ASSUME NEW p \in Proc, Puts(p) PROVE Strips'
  BY <1>0, <1>4 DEF Puts, Strips
<1>5. ASSUME NEW p \in Proc, Takes(p) PROVE Strips'
  BY <1>0, <1>5 DEF Takes, Strips
<1>6. ASSUME NEW p \in Proc, Stores(p) PROVE Strips'
  BY <1>0, <1>6 DEF Stores, Strips
<1>7. CASE Merges
  BY <1>0, <1>7 DEF Merges, Strips
<1> QED
  BY <1>0, <1>1, <1>2, <1>3, <1>4, <1>5, <1>6, <1>7 DEF Effect

-----------------------------------------------------------------------------
(* The stage of a strip, told from the process, slot or file that has it.   *)
Stage(s) ==
  IF s >= num_produced THEN "todo"
  ELSE IF \E p \in Producers : held[p] = s THEN "fetching"
  ELSE IF \E i \in 1 .. Len(line) : line[i] = s THEN "queued"
  ELSE IF \E p \in Consumers : held[p] = s THEN "taken"
  ELSE IF file[s] \in {"whole", "merged"} THEN "stored"
  ELSE "lost"

(* The guards of StageOf exclude each other. *)
LEMMA StageIs ==
  TypeInv /\ Strips => \A s \in Parts : StageOf(s) = Stage(s)
<1> SUFFICES ASSUME TypeInv, Strips, NEW s \in Parts PROVE StageOf(s) = Stage(s)
  OBVIOUS
<1>0. /\ s # NoSeq /\ Producers \subseteq Proc /\ Consumers \subseteq Proc
      /\ Producers \cap Consumers = {} /\ s \in Int /\ num_produced \in Int
  BY PartAssumption, ProcessAssumption DEF Parts, Proc, TypeInv, TypeOK
<1>1. Fetching(s) <=> \E p \in Producers : held[p] = s
  BY <1>0 DEF Fetching, held, TypeInv, TypeOK, ProducerPC
<1>2. Taken(s) <=> \E p \in Consumers : held[p] = s
  BY <1>0 DEF Taken, held, TypeInv, TypeOK, ConsumerPC
<1>3. Queued(s) <=> \E i \in 1 .. Len(line) : line[i] = s
  BY ContentsTyped DEF Queued, line, TypeInv, TypeOK
<1>4. /\ Fetching(s) \/ Taken(s) => s < num_produced /\ file[s] = "absent" /\ ~Queued(s)
      /\ Queued(s) => s < num_produced /\ file[s] = "absent"
      /\ s >= num_produced => file[s] = "absent"
      /\ ~(Fetching(s) /\ Taken(s))
  BY <1>0, <1>1, <1>2, <1>3 DEF Strips
<1>5. CASE s >= num_produced
  BY <1>0, <1>4, <1>5 DEF StageOf, Stage
<1>6. CASE ~(s >= num_produced) /\ Fetching(s)
  BY <1>1, <1>4, <1>6 DEF StageOf, Stage
<1>7. CASE ~(s >= num_produced) /\ ~Fetching(s) /\ Queued(s)
  BY <1>1, <1>3, <1>4, <1>7 DEF StageOf, Stage
<1>8. CASE ~(s >= num_produced) /\ ~Fetching(s) /\ ~Queued(s)
  BY <1>1, <1>2, <1>3, <1>4, <1>8 DEF StageOf, Stage
<1> QED
  BY <1>5, <1>6, <1>7, <1>8

(* What each effect does to the stages. *)
LEMMA ClaimsStage ==
  ASSUME Typed, Typed', Strips, NEW p \in Producers, Claims(p)
  PROVE  /\ num_produced \in Parts
         /\ Stage(num_produced) = "todo"
         /\ \A s \in Parts : s # num_produced => Stage(s)' = Stage(s)
         /\ \A s \in Parts : s = num_produced => Stage(s)' = "fetching"
<1> USE DEF Typed
<1>0. p \in Proc /\ Consumers \subseteq Proc /\ Producers \subseteq Proc
  BY DEF Proc
<1>1. num_produced \in Parts
  BY DEF Claims, Parts
<1>2. Stage(num_produced) = "todo"
  BY <1>1 DEF Stage
<1>3. ASSUME NEW s \in Parts, s # num_produced PROVE Stage(s)' = Stage(s)
  BY <1>0, <1>3 DEF Claims, Stage, Parts
<1>4. ASSUME NEW s \in Parts, s = num_produced PROVE Stage(s)' = "fetching"
  BY <1>0, <1>4 DEF Claims, Stage, Parts
<1> QED
  BY <1>1, <1>2, <1>3, <1>4

LEMMA DropsStage ==
  ASSUME Typed, Typed', Strips, NEW p \in Proc, Drops(p)
  PROVE  /\ \A s \in Parts : s # held[p] => Stage(s)' = Stage(s)
         /\ held[p] \in Parts => /\ p \in Producers => Stage(held[p]) = "fetching"
                                 /\ p \in Consumers => Stage(held[p]) = "taken"
         /\ \A s \in Parts : s = held[p] => Stage(s)' = "lost"
<1> USE DEF Typed
<1>0. Consumers \subseteq Proc /\ Producers \subseteq Proc /\ Producers \cap Consumers = {}
  BY ProcessAssumption DEF Proc
<1>3. ASSUME NEW s \in Parts, s # held[p] PROVE Stage(s)' = Stage(s)
  BY <1>0, <1>3 DEF Drops, Stage, Parts, Seqs
<1>4. ASSUME NEW s \in Parts, s = held[p]
      PROVE  /\ p \in Producers => Stage(s) = "fetching"
             /\ p \in Consumers => Stage(s) = "taken"
             /\ Stage(s)' = "lost"
  <2>1. s # NoSeq /\ s < num_produced /\ file[s] = "absent" /\ s \in Int
    BY <1>4 DEF Strips, Parts
  <2>2. \A q \in Proc : held[q] = s => q = p
    BY <1>4, <2>1 DEF Strips
  <2>3. ~\E i \in 1 .. Len(line) : line[i] = s
    BY <1>4, <2>1 DEF Strips
  <2>4. (p \in Producers => Stage(s) = "fetching") /\ (p \in Consumers => Stage(s) = "taken")
    BY <1>0, <1>4, <2>1, <2>2, <2>3 DEF Stage
  <2>5. Stage(s)' = "lost"
    BY <1>0, <1>4, <2>1, <2>2, <2>3 DEF Drops, Stage, Seqs
  <2> QED
    BY <2>4, <2>5
<1> QED
  BY <1>3, <1>4

LEMMA StoresStage ==
  ASSUME Typed, Typed', Strips, NEW p \in Consumers, Stores(p)
  PROVE  /\ \A s \in Parts : s # held[p] => Stage(s)' = Stage(s)
         /\ held[p] \in Parts => Stage(held[p]) = "taken"
         /\ \A s \in Parts : s = held[p] => Stage(s)' = "stored"
<1> USE DEF Typed
<1>0. p \in Proc /\ Consumers \subseteq Proc /\ Producers \subseteq Proc /\ Producers \cap Consumers = {}
  BY ProcessAssumption DEF Proc
<1>3. ASSUME NEW s \in Parts, s # held[p] PROVE Stage(s)' = Stage(s)
  BY <1>0, <1>3 DEF Stores, Stage, Parts, Seqs
<1>4. ASSUME NEW s \in Parts, s = held[p] PROVE Stage(s) = "taken" /\ Stage(s)' = "stored"
  <2>1. s # NoSeq /\ s < num_produced /\ s \in Int
    BY <1>0, <1>4 DEF Strips, Parts
  <2>2. \A q \in Proc : held[q] = s => q = p
    BY <1>0, <1>4, <2>1 DEF Strips
  <2>3. ~\E i \in 1 .. Len(line) : line[i] = s
    BY <1>0, <1>4, <2>1 DEF Strips
  <2>4. Stage(s) = "taken"
    BY <1>0, <1>4, <2>1, <2>2, <2>3 DEF Stage
  <2>5. Stage(s)' = "stored"
    BY <1>0, <1>4, <2>1, <2>2, <2>3 DEF Stores, Stage, Seqs
  <2> QED
    BY <2>4, <2>5
<1> QED
  BY <1>3, <1>4

LEMMA PutsStage ==
  ASSUME Typed, Typed', Strips, NEW p \in Producers, Puts(p)
  PROVE  /\ \A s \in Parts : s # held[p] => Stage(s)' = Stage(s)
         /\ held[p] \in Parts => Stage(held[p]) = "fetching"
         /\ \A s \in Parts : s = held[p] => Stage(s)' = "queued"
<1> USE DEF Typed
<1>0. p \in Proc /\ Consumers \subseteq Proc /\ Producers \subseteq Proc /\ Producers \cap Consumers = {}
  BY ProcessAssumption DEF Proc
<1>1. /\ Len(line) \in Nat /\ Len(line') = Len(line) + 1 /\ line'[Len(line) + 1] = held[p]
      /\ \A i \in 1 .. Len(line) : line'[i] = line[i]
  BY <1>0 DEF Puts
<1>2. \A s : (\E i \in 1 .. Len(line') : line'[i] = s)
               <=> (s = held[p] \/ \E i \in 1 .. Len(line) : line[i] = s)
  <2> TAKE s
  <2>1. ASSUME NEW i \in 1 .. Len(line'), line'[i] = s
        PROVE  s = held[p] \/ \E j \in 1 .. Len(line) : line[j] = s
    <3>1. i = Len(line) + 1 \/ (i \in 1 .. Len(line) /\ line'[i] = line[i])
      BY <1>1
    <3> QED
      BY <1>1, <2>1, <3>1
  <2>2. ASSUME NEW i \in 1 .. Len(line), line[i] = s
        PROVE  \E j \in 1 .. Len(line') : line'[j] = s
    <3>1. i \in 1 .. Len(line') /\ line'[i] = s
      BY <1>1, <2>2
    <3> QED
      BY <3>1
  <2>3. Len(line) + 1 \in 1 .. Len(line')
    BY <1>1
  <2> QED
    BY <1>1, <2>1, <2>2, <2>3
<1>3. ASSUME NEW s \in Parts, s # held[p] PROVE Stage(s)' = Stage(s)
  <2>1. s # NoSeq
    BY DEF Parts
  <2> QED
    BY <1>0, <1>2, <1>3, <2>1 DEF Puts, Stage
<1>4. ASSUME NEW s \in Parts, s = held[p] PROVE Stage(s) = "fetching" /\ Stage(s)' = "queued"
  <2>1. s # NoSeq /\ s < num_produced /\ s \in Int
    BY <1>0, <1>4 DEF Strips, Parts
  <2>2. \A q \in Proc : held[q] = s => q = p
    BY <1>0, <1>4, <2>1 DEF Strips
  <2>4. Stage(s) = "fetching"
    BY <1>0, <1>4, <2>1, <2>2 DEF Stage
  <2>5. Stage(s)' = "queued"
    BY <1>0, <1>2, <1>4, <2>1, <2>2 DEF Puts, Stage
  <2> QED
    BY <2>4, <2>5
<1> QED
  BY <1>3, <1>4

LEMMA TakesStage ==
  ASSUME Typed, Typed', Strips, NEW p \in Consumers, Takes(p)
  PROVE  /\ Head(line) \in Seqs
         /\ \A s \in Parts : s # Head(line) => Stage(s)' = Stage(s)
         /\ Head(line) \in Parts => Stage(Head(line)) = "queued"
         /\ \A s \in Parts : s = Head(line) => Stage(s)' = "taken"
<1> USE DEF Typed
<1>0. p \in Proc /\ Consumers \subseteq Proc /\ Producers \subseteq Proc /\ Producers \cap Consumers = {}
  BY ProcessAssumption DEF Proc
<1>1. /\ Len(line) \in Nat \ {0} /\ Len(line') = Len(line) - 1 /\ line[1] = Head(line)
      /\ \A i \in 1 .. Len(line) - 1 : line'[i] = line[i + 1]
      /\ Head(line) \in Seqs
  BY DEF Takes
<1>2. \A s \in Parts : s # Head(line) =>
        ((\E i \in 1 .. Len(line') : line'[i] = s) <=> (\E i \in 1 .. Len(line) : line[i] = s))
  <2> SUFFICES ASSUME NEW s \in Parts, s # Head(line)
               PROVE  (\E i \in 1 .. Len(line') : line'[i] = s)
                         <=> (\E i \in 1 .. Len(line) : line[i] = s)
    OBVIOUS
  <2>1. ASSUME NEW i \in 1 .. Len(line), line[i] = s PROVE \E j \in 1 .. Len(line') : line'[j] = s
    <3>1. i - 1 \in 1 .. Len(line') /\ line'[i - 1] = line[(i - 1) + 1]
      BY <1>1, <2>1
    <3> QED
      BY <2>1, <3>1
  <2>2. ASSUME NEW i \in 1 .. Len(line'), line'[i] = s PROVE \E j \in 1 .. Len(line) : line[j] = s
    <3>1. i + 1 \in 1 .. Len(line) /\ line[i + 1] = s
      BY <1>1, <2>2
    <3> QED
      BY <3>1
  <2> QED
    BY <2>1, <2>2
<1>3. ASSUME NEW s \in Parts, s # Head(line) PROVE Stage(s)' = Stage(s)
  <2>1. s # NoSeq
    BY DEF Parts
  <2> QED
    BY <1>0, <1>2, <1>3, <2>1 DEF Takes, Stage
<1>4. ASSUME NEW s \in Parts, s = Head(line) PROVE Stage(s) = "queued" /\ Stage(s)' = "taken"
  <2>1. s # NoSeq /\ s < num_produced /\ s \in Int
    BY <1>0, <1>1, <1>4 DEF Strips, Parts
  <2>2. \A q \in Proc : held[q] # s
    BY <1>0, <1>1, <1>4, <2>1 DEF Strips
  <2>3. \A i \in 1 .. Len(line) : line[i] = s => i = 1
    BY <1>1, <1>4, <2>1 DEF Strips
  <2>4. Stage(s) = "queued"
    BY <1>0, <1>1, <1>4, <2>1, <2>2 DEF Stage
  <2>5. ~\E i \in 1 .. Len(line') : line'[i] = s
    BY <1>1, <2>3
  <2>6. Stage(s)' = "taken"
    BY <1>0, <1>4, <2>1, <2>2, <2>5 DEF Takes, Stage
  <2> QED
    BY <2>4, <2>6
<1> QED
  BY <1>1, <1>3, <1>4

LEMMA MergesStage ==
  ASSUME Typed, Strips, Leaves \/ Merges
  PROVE  \A s \in Parts : Stage(s)' = Stage(s)
<1>1. CASE Leaves
  BY <1>1 DEF Leaves, Stage
<1>2. CASE Merges
  <2> SUFFICES ASSUME NEW s \in Parts PROVE Stage(s)' = Stage(s)
    OBVIOUS
  <2>1. s \in Seqs /\ file'[s] = IF file[s] = "whole" THEN "merged" ELSE "absent"
    BY <1>2 DEF Merges, Seqs
  <2>2. file[s] # "merged"
    BY <1>2 DEF Merges
  <2> QED
    BY <1>2, <2>1, <2>2 DEF Merges, Stage
<1> QED
  BY <1>1, <1>2

-----------------------------------------------------------------------------
(* A change of one stage is a move of the pipeline.                         *)
LEMMA MoveIs ==
  ASSUME NEW s \in Parts, NEW from, NEW to,
         \A q \in Parts : StageOf(q) = Stage(q), \A q \in Parts : StageOf(q)' = Stage(q)',
         Stage(s) = from, \A q \in Parts : q = s => Stage(q)' = to,
         \A q \in Parts : q # s => Stage(q)' = Stage(q)
  PROVE  Pipeline!Move(s, from, to)
BY DEF Pipeline!Move

LEMMA NoMove ==
  ASSUME \A q \in Parts : StageOf(q) = Stage(q), \A q \in Parts : StageOf(q)' = Stage(q)',
         \A q \in Parts : Stage(q)' = Stage(q)
  PROVE  [q \in Parts |-> StageOf(q)]' = [q \in Parts |-> StageOf(q)]
OBVIOUS

LEMMA EffectRefines ==
  ASSUME Typed, Typed', Strips, Effect,
         \A s \in Parts : StageOf(s) = Stage(s), \A s \in Parts : StageOf(s)' = Stage(s)'
  PROVE  [Pipeline!Next]_(Pipeline!vars)
<1> DEFINE stage == [q \in Parts |-> StageOf(q)]
<1>0. /\ held \in [Proc -> Seqs] /\ Seqs = Parts \cup {NoSeq} /\ NoSeq \notin Parts
      /\ Producers \subseteq Proc /\ Consumers \subseteq Proc
      /\ Pipeline!Parts = Parts
  BY DEF Typed, Seqs, Parts, Proc, Pipeline!Parts
<1>1. CASE Leaves \/ Merges
  <2>1. \A q \in Parts : Stage(q)' = Stage(q)
    BY <1>1, MergesStage
  <2>2. stage' = stage
    BY <2>1, NoMove
  <2>3. Contents(buffer)' = Contents(buffer)
    BY <1>1 DEF Leaves, Merges, line
  <2> QED
    BY <2>2, <2>3 DEF Pipeline!vars
<1>2. ASSUME NEW p \in Producers, Claims(p) PROVE Pipeline!Next
  <2>1. Pipeline!Move(num_produced, "todo", "fetching") /\ num_produced \in Parts
    BY <1>2, ClaimsStage, MoveIs
  <2>2. Contents(buffer)' = Contents(buffer)
    BY <1>2 DEF Claims, line
  <2> QED
    BY <1>0, <2>1, <2>2 DEF Pipeline!Next, Pipeline!Claim
<1>3. ASSUME NEW p \in Proc, Drops(p) PROVE [Pipeline!Next]_(Pipeline!vars)
  <2>1. Contents(buffer)' = Contents(buffer)
    BY <1>3 DEF Drops, line
  <2>2. CASE held[p] = NoSeq
    <3>1. \A q \in Parts : Stage(q)' = Stage(q)
      BY <1>0, <1>3, <2>2, DropsStage
    <3>2. stage' = stage
      BY <3>1, NoMove
    <3> QED
      BY <2>1, <3>2 DEF Pipeline!vars
  <2>3. CASE held[p] # NoSeq
    <3>0. held[p] \in Parts
      BY <1>0, <2>3
    <3>1. PICK from \in {"fetching", "taken"} : Stage(held[p]) = from
      BY <1>3, <3>0, DropsStage DEF Proc
    <3>2. Pipeline!Move(held[p], from, "lost")
      BY <1>3, <3>0, <3>1, DropsStage, MoveIs
    <3> QED
      BY <1>0, <2>1, <3>0, <3>1, <3>2 DEF Pipeline!Next, Pipeline!Lose
  <2> QED
    BY <2>2, <2>3
<1>4. ASSUME NEW p \in Producers, Puts(p) PROVE Pipeline!Next
  <2>1. Contents(buffer)' = Append(Contents(buffer), held[p]) /\ Len(Contents(buffer)) < MaxSize
    BY <1>4 DEF Puts, line
  <2>2. CASE held[p] = NoSeq
    <3>1. \A q \in Parts : Stage(q)' = Stage(q)
      BY <1>0, <1>4, <2>2, PutsStage
    <3>2. stage' = stage
      BY <3>1, NoMove
    <3> QED
      BY <2>1, <2>2, <3>2 DEF Pipeline!Next, Pipeline!EnqueueUnnamed
  <2>3. CASE held[p] # NoSeq
    <3>0. held[p] \in Parts
      BY <1>0, <2>3
    <3>1. Pipeline!Move(held[p], "fetching", "queued")
      BY <1>4, <3>0, PutsStage, MoveIs
    <3> QED
      BY <1>0, <2>1, <3>0, <3>1 DEF Pipeline!Next, Pipeline!Enqueue
  <2> QED
    BY <2>2, <2>3
<1>5. ASSUME NEW p \in Consumers, Takes(p) PROVE Pipeline!Next
  <2> DEFINE h == Head(Contents(buffer))
  <2>1. Contents(buffer)' = Tail(Contents(buffer)) /\ Contents(buffer) # <<>>
    BY <1>5 DEF Takes, line
  <2>2. h \in Seqs
    BY <1>5, TakesStage DEF line
  <2>3. CASE h = NoSeq
    <3>1. \A q \in Parts : Stage(q)' = Stage(q)
      BY <1>0, <1>5, <2>3, TakesStage DEF line
    <3>2. stage' = stage
      BY <3>1, NoMove
    <3> QED
      BY <2>1, <2>3, <3>2 DEF Pipeline!Next, Pipeline!Dequeue
  <2>4. CASE h # NoSeq
    <3>0. h \in Parts
      BY <1>0, <2>2, <2>4
    <3>1. Pipeline!Move(h, "queued", "taken")
      <4>1. /\ \A s \in Parts : s # h => Stage(s)' = Stage(s)
            /\ Stage(h) = "queued"
            /\ \A s \in Parts : s = h => Stage(s)' = "taken"
        BY <1>5, <3>0, TakesStage DEF line
      <4> HIDE DEF h
      <4> QED
        BY <3>0, <4>1, MoveIs
    <3> QED
      BY <2>1, <2>4, <3>1 DEF Pipeline!Next, Pipeline!Dequeue
  <2> QED
    BY <2>3, <2>4
<1>6. ASSUME NEW p \in Consumers, Stores(p) PROVE [Pipeline!Next]_(Pipeline!vars)
  <2>1. Contents(buffer)' = Contents(buffer)
    BY <1>6 DEF Stores, line
  <2>2. CASE held[p] = NoSeq
    <3>1. \A q \in Parts : Stage(q)' = Stage(q)
      BY <1>0, <1>6, <2>2, StoresStage
    <3>2. stage' = stage
      BY <3>1, NoMove
    <3> QED
      BY <2>1, <3>2 DEF Pipeline!vars
  <2>3. CASE held[p] # NoSeq
    <3>0. held[p] \in Parts
      BY <1>0, <2>3
    <3>1. Pipeline!Move(held[p], "taken", "stored")
      BY <1>6, <3>0, StoresStage, MoveIs
    <3> QED
      BY <1>0, <2>1, <3>0, <3>1 DEF Pipeline!Next, Pipeline!Store
  <2> QED
    BY <2>2, <2>3
<1> QED
  BY <1>0, <1>1, <1>2, <1>3, <1>4, <1>5, <1>6 DEF Effect

LEMMA InitRefines == Init => Pipeline!Init
<1> SUFFICES ASSUME Init PROVE Pipeline!Init
  OBVIOUS
<1>1. Contents(buffer) = <<>>
  BY InitRing DEF Init, Seqs
<1>2. \A s \in Parts : StageOf(s) = "todo"
  <2>1. TypeInv /\ Strips
    BY TypeInit, StripsInit
  <2>2. \A s \in Parts : Stage(s) = "todo"
    BY PartAssumption DEF Init, Stage, Parts
  <2> QED
    BY <2>1, <2>2, StageIs
<1> QED
  BY <1>1, <1>2 DEF Pipeline!Init, Pipeline!Parts, Parts

PipelineInv == TypeInv /\ Balanced /\ FreshInv /\ Strips

LEMMA PipelineStep ==
  ASSUME PipelineInv, [Next]_vars
  PROVE  PipelineInv'
<1>1. TypeInv' /\ Balanced' /\ FreshInv' /\ Effect
  BY TypeStep, BalanceStep, FreshStep, StepEffect DEF PipelineInv
<1>2. Typed /\ Typed'
  <2>1. TypeInv' => Typed'
    BY TypedStrips, PTL
  <2> QED
    BY <1>1, <2>1, TypedStrips DEF PipelineInv
<1> QED
  BY <1>1, <1>2, StripsStep DEF PipelineInv

(* Every behaviour of Lab 3, with whatever failures, is one of the          *)
(* pipeline: a strip is claimed once, passes the bounded queue once and in  *)
(* order, and is stored at most once.                                       *)
THEOREM Lab3IsAPipeline == Spec => ImplementsPipeline
<1>1. Init => PipelineInv
  BY TypeInit, BalanceInit, FreshInit, StripsInit DEF PipelineInv
<1>2. PipelineInv /\ [Next]_vars => PipelineInv'
  BY PipelineStep
<1>3. PipelineInv /\ PipelineInv' /\ [Next]_vars => [Pipeline!Next]_(Pipeline!vars)
  <2>1. (TypeInv /\ Strips)' => (\A s \in Parts : StageOf(s) = Stage(s))'
    BY StageIs, PTL
  <2>2. TypeInv' => Typed'
    BY TypedStrips, PTL
  <2> SUFFICES ASSUME PipelineInv, PipelineInv', [Next]_vars
               PROVE  [Pipeline!Next]_(Pipeline!vars)
    OBVIOUS
  <2>3. Typed /\ Typed' /\ Effect /\ Strips
    BY <2>2, TypedStrips, StepEffect DEF PipelineInv
  <2>4. \A s \in Parts : StageOf(s) = Stage(s)
    BY StageIs DEF PipelineInv
  <2>5. \A s \in Parts : StageOf(s)' = Stage(s)'
    BY <2>1 DEF PipelineInv
  <2> QED
    BY <2>3, <2>4, <2>5, EffectRefines
<1> QED
  BY <1>1, <1>2, <1>3, InitRefines, PTL DEF Spec, ImplementsPipeline, Pipeline!Spec

-----------------------------------------------------------------------------
(* Counting the strips the consumers claim.                                 *)

Busy  == {"c_item", "c_lock", "c_pop", "c_post", "c_write"}
Whole == {s \in Parts : file[s] = "whole"}

(* The value a consumer read is current until it increments num_consumed;   *)
(* it ends normally only when every strip has been claimed.                 *)
ConsumedInv ==
  \A p \in Consumers : /\ pc[p] = "c_bump" => k[p] = num_consumed
                       /\ pc[p] = "done" => num_consumed >= NumParts

(* catpng runs when the children have ended. *)
EndedInv == parent = "catpng" => \A p \in Proc : pc[p] \in Ended

(* Nothing has gone wrong yet that could leave a file out. *)
Unharmed ==
  /\ parent \in {"forking", "waiting", "catpng"}
  /\ file[NoSeq] = "absent"
  /\ At({"unwritten"}) = {}

(* A strip a consumer has claimed is still awaited or carried, or stored.   *)
CountInv ==
  Unharmed => (IF num_consumed < NumParts THEN num_consumed ELSE NumParts)
                 = Cardinality(Whole) + Cardinality(At(Busy))

LEMMA WholeFinite ==
  ASSUME NumParts \in Nat
  PROVE  IsFiniteSet(Parts) /\ Cardinality(Parts) = NumParts
         /\ IsFiniteSet(Whole) /\ Cardinality(Whole) \in Nat
<1>1. IsFiniteSet(Parts) /\ Cardinality(Parts) = NumParts
  <2>1. IsFiniteSet(0 .. NumParts - 1)
        /\ Cardinality(0 .. NumParts - 1) = IF 0 > NumParts - 1 THEN 0 ELSE NumParts - 1 - 0 + 1
    BY FS_Interval
  <2> QED
    BY <2>1 DEF Parts
<1>2. Whole \in SUBSET Parts
  BY DEF Whole
<1> QED
  BY <1>1, <1>2, FS_Subset, FS_CardinalityType

LEMMA ConsumedInit == Init => ConsumedInv /\ EndedInv /\ CountInv
<1> SUFFICES ASSUME Init PROVE ConsumedInv /\ EndedInv /\ CountInv
  OBVIOUS
<1>1. ConsumedInv /\ EndedInv
  BY DEF Init, ConsumedInv, EndedInv, Proc
<1>2. Whole = {} /\ At(Busy) = {}
  BY DEF Init, Whole, At, Busy, Parts, Seqs
<1>3. Cardinality(Whole) = 0 /\ Cardinality(At(Busy)) = 0
  BY <1>2, FS_EmptySet
<1>4. num_consumed = 0 /\ (NumParts = 0 \/ num_consumed < NumParts)
  BY PartAssumption DEF Init
<1> QED
  BY <1>1, <1>3, <1>4, PartAssumption DEF CountInv

(* A producer's step says nothing to the consumers. *)
LEMMA ProducerAside ==
  ASSUME TypeInv, TypeInv', NEW p \in Producers, ProducerStep(p) \/ ProducerFault(p)
  PROVE  /\ pc' = [pc EXCEPT ![p] = pc'[p]] /\ pc[p] \notin Ended
         /\ UNCHANGED <<num_consumed, file, parent>>
         /\ \A q \in Consumers : k'[q] = k[q] /\ pc'[q] = pc[q]
         /\ At(Busy)' = At(Busy)
<1>0. /\ Producers \subseteq Proc /\ Producers \cap Consumers = {} /\ Consumers \subseteq Proc
      /\ pc \in [Proc -> ProducerPC \cup ConsumerPC] /\ k \in [Proc -> Nat]
      /\ pc[p] \in ProducerPC /\ pc'[p] \in ProducerPC
  BY ProcessAssumption DEF TypeInv, TypeOK, Proc
<1>1. pc' = [pc EXCEPT ![p] = pc'[p]] /\ pc[p] \notin Ended
  BY <1>0 DEF ProducerStep, CurlInit, ReadProduced, BumpProduced, Answer, WaitSpace, LockToAdd,
              AddImage, PostItem, ProducerFault, CurlInitFails, AnswerUnnamed, CurlFails, Goto, Ended
<1>2. UNCHANGED <<num_consumed, file, parent>>
  BY DEF ProducerStep, CurlInit, ReadProduced, BumpProduced, Answer, WaitSpace, LockToAdd,
         AddImage, PostItem, ProducerFault, CurlInitFails, AnswerUnnamed, CurlFails, counters, outside
<1>3. \A q \in Consumers : k'[q] = k[q]
  BY <1>0 DEF ProducerStep, CurlInit, ReadProduced, BumpProduced, Answer, WaitSpace, LockToAdd,
              AddImage, PostItem, ProducerFault, CurlInitFails, AnswerUnnamed, CurlFails
<1>4. \A q \in Consumers : pc'[q] = pc[q]
  BY <1>0, <1>1
<1>5. At(Busy)' = At(Busy)
  BY <1>0, <1>1 DEF At, Busy, ProducerPC
<1> QED
  BY <1>1, <1>2, <1>3, <1>4, <1>5

LEMMA ConsumedStep ==
  ASSUME TypeInv, TypeInv', ConsumedInv, EndedInv, [Next]_vars
  PROVE  ConsumedInv' /\ EndedInv'
<1>0. /\ Producers \subseteq Proc /\ Producers \cap Consumers = {} /\ Consumers \subseteq Proc
      /\ pc \in [Proc -> ProducerPC \cup ConsumerPC] /\ k \in [Proc -> Nat]
      /\ num_consumed \in Nat /\ NumParts \in Nat
      /\ \A q \in Proc : pc[q] \in {"bump", "c_bump"} => counter_mutex = q
      /\ NoProc \notin Proc
  BY ProcessAssumption, PartAssumption DEF TypeInv, TypeOK, CounterInv, Proc
<1>1. CASE UNCHANGED vars
  BY <1>1 DEF vars, counters, outside, ConsumedInv, EndedInv
<1>2. ASSUME NEW p \in Producers, ProducerStep(p) \/ ProducerFault(p) PROVE ConsumedInv' /\ EndedInv'
  BY <1>0, <1>2, ProducerAside DEF ConsumedInv, EndedInv
<1>3. ASSUME NEW p \in Consumers, ConsumerStep(p) \/ WriteFails(p) PROVE ConsumedInv' /\ EndedInv'
  <2>1. EndedInv'
    <3>1. pc[p] \notin Ended /\ parent' = parent
      BY <1>3 DEF ConsumerStep, ReadConsumed, BumpConsumed, WaitItem, LockToPop, PopImage, PostSpace,
                  WriteImage, WriteFails, Goto, Ended, outside
    <3> QED
      BY <1>0, <3>1 DEF EndedInv
  <2> USE DEF Goto, counters
  <2>2. CASE ReadConsumed(p)
    BY <1>0, <2>1, <2>2 DEF ReadConsumed, ConsumedInv
  <2>3. CASE BumpConsumed(p)
    <3>0. k[p] = num_consumed
      BY <2>3 DEF BumpConsumed, ConsumedInv
    <3>1. /\ num_consumed' = num_consumed + 1
          /\ \A q \in Consumers : q # p => pc'[q] = pc[q] /\ pc[q] # "c_bump"
      BY <1>0, <2>3 DEF BumpConsumed
    <3>2. pc'[p] = IF num_consumed < NumParts THEN "c_item" ELSE "done"
      BY <1>0, <2>3, <3>0 DEF BumpConsumed
    <3> QED
      BY <1>0, <2>1, <3>1, <3>2 DEF ConsumedInv
  <2>4. CASE \/ WaitItem(p) \/ LockToPop(p) \/ PopImage(p) \/ PostSpace(p)
             \/ WriteImage(p) \/ WriteFails(p)
    BY <1>0, <2>1, <2>4
    DEF WaitItem, LockToPop, PopImage, PostSpace, WriteImage, WriteFails, ConsumedInv
  <2> QED
    BY <1>3, <2>1, <2>2, <2>3, <2>4 DEF ConsumerStep
<1>4. CASE ParentStep \/ ForkFails
  <2> USE DEF ConsumedInv, EndedInv, Children, counters
  <2>1. ASSUME NEW p \in Proc, Fork(p) PROVE ConsumedInv' /\ EndedInv'
    BY <1>0, <2>1 DEF Fork, Goto
  <2>2. CASE WaitChildren
    BY <2>2 DEF WaitChildren
  <2>3. CASE CatpngSucceeds \/ CatpngFails \/ Destroy \/ ForkFails
    BY <2>3 DEF CatpngSucceeds, CatpngFails, Destroy, ForkFails
  <2> QED
    BY <1>4, <2>1, <2>2, <2>3 DEF ParentStep
<1> QED
  BY <1>1, <1>2, <1>3, <1>4 DEF Next

(* A step that changes neither side of the count. *)
LEMMA CountFrame ==
  ASSUME CountInv, Unharmed' => Unharmed, file' = file, num_consumed' = num_consumed,
         Cardinality(At(Busy)') = Cardinality(At(Busy))
  PROVE  CountInv'
<1>1. Whole' = Whole
  BY DEF Whole
<1> QED
  BY <1>1 DEF CountInv

LEMMA CountStep ==
  ASSUME PipelineInv, TypeInv', ConsumedInv, CountInv, [Next]_vars
  PROVE  CountInv'
<1>0. /\ Producers \subseteq Proc /\ Producers \cap Consumers = {} /\ Consumers \subseteq Proc
      /\ pc \in [Proc -> ProducerPC \cup ConsumerPC] /\ k \in [Proc -> Nat]
      /\ num_consumed \in Nat /\ NumParts \in Nat /\ TypeInv /\ Typed /\ Strips
      /\ \A S : Cardinality(At(S)) \in Nat
      /\ Cardinality(Whole) \in Nat
  BY ProcessAssumption, PartAssumption, TypedStrips, AtFinite, WholeFinite
     DEF PipelineInv, TypeInv, TypeOK, Proc
<1>1. CASE UNCHANGED vars
  BY <1>1 DEF vars, counters, outside, CountInv, Unharmed, Whole, At
<1>2. ASSUME NEW p \in Producers, ProducerStep(p) \/ ProducerFault(p) PROVE CountInv'
  <2>1. /\ pc' = [pc EXCEPT ![p] = pc'[p]] /\ pc[p] \notin Ended
        /\ UNCHANGED <<num_consumed, file, parent>> /\ At(Busy)' = At(Busy)
    BY <1>0, <1>2, ProducerAside
  <2>2. Unharmed' => Unharmed
    BY <1>0, <2>1 DEF Unharmed, At, Ended
  <2> QED
    BY <2>1, <2>2, CountFrame
<1>3. ASSUME NEW p \in Consumers, ConsumerStep(p) \/ WriteFails(p) PROVE CountInv'
  <2>1. CASE ReadConsumed(p) \/ WaitItem(p) \/ LockToPop(p) \/ PopImage(p) \/ PostSpace(p)
    <3>1. PICK from \in ConsumerPC, to \in ConsumerPC :
            Goto(p, from, to) /\ from # "unwritten" /\ (from \in Busy <=> to \in Busy)
      BY <2>1 DEF ReadConsumed, WaitItem, LockToPop, PopImage, PostSpace, Goto, ConsumerPC, Busy
    <3>2. Cardinality(At(Busy)') = Cardinality(At(Busy))
      <4>1. Cardinality(At(Busy)') = Cardinality(At(Busy)) + (IF to \in Busy THEN 1 ELSE 0)
                                                           - (IF from \in Busy THEN 1 ELSE 0)
        BY <1>0, <3>1, AtMoves
      <4> QED
        BY <1>0, <3>1, <4>1
    <3>3. UNCHANGED <<num_consumed, file, parent>>
      BY <2>1 DEF ReadConsumed, WaitItem, LockToPop, PopImage, PostSpace, counters, outside
    <3>4. Unharmed' => Unharmed
      BY <1>0, <3>1, <3>3 DEF Unharmed, At, Goto
    <3> QED
      BY <3>2, <3>3, <3>4, CountFrame
  <2>2. CASE BumpConsumed(p)
    <3>0. k[p] = num_consumed /\ num_consumed' = num_consumed + 1 /\ UNCHANGED <<file, parent>>
      BY <2>2 DEF BumpConsumed, ConsumedInv, Goto, outside
    <3>1. PICK to \in {"c_item", "done"} :
            Goto(p, "c_bump", to) /\ (to = "c_item" <=> num_consumed < NumParts)
      BY <2>2, <3>0 DEF BumpConsumed
    <3>2. Cardinality(At(Busy)') = Cardinality(At(Busy)) + (IF to \in Busy THEN 1 ELSE 0)
                                                         - (IF "c_bump" \in Busy THEN 1 ELSE 0)
      BY <1>0, <3>1, AtMoves
    <3>3. "c_bump" \notin Busy /\ (to \in Busy <=> num_consumed < NumParts)
      BY <3>1 DEF Busy
    <3>4. Unharmed' => Unharmed
      BY <1>0, <3>0, <3>1 DEF Unharmed, At, Goto
    <3>5. Whole' = Whole
      BY <3>0 DEF Whole
    <3> QED
      BY <1>0, <3>0, <3>2, <3>3, <3>4, <3>5 DEF CountInv
  <2>3. CASE WriteImage(p)
    <3> DEFINE s == recv[p]
    <3>0. Goto(p, "c_write", "c_claim") /\ file' = [file EXCEPT ![s] = "whole"]
          /\ UNCHANGED <<num_consumed, parent>> /\ s \in Seqs
      BY <1>0, <2>3 DEF WriteImage, counters, TypeInv, TypeOK
    <3>1. held[p] = s
      BY <1>0, <3>0 DEF held, Goto
    <3>2. Cardinality(At(Busy)') = Cardinality(At(Busy)) + (IF "c_claim" \in Busy THEN 1 ELSE 0)
                                                         - (IF "c_write" \in Busy THEN 1 ELSE 0)
      BY <1>0, <3>0, AtMoves
    <3>3. "c_claim" \notin Busy /\ "c_write" \in Busy
      BY DEF Busy
    <3>4. CASE s = NoSeq
      <4>1. file'[NoSeq] = "whole"
        BY <1>0, <3>0, <3>4 DEF Typed
      <4> QED
        BY <4>1 DEF CountInv, Unharmed
    <3>5. CASE s # NoSeq
      <4>1. s \in Parts /\ file[s] = "absent"
        BY <1>0, <3>0, <3>1, <3>5 DEF Strips, Seqs
      <4>2. Whole' = Whole \cup {s} /\ s \notin Whole
        BY <1>0, <3>0, <4>1 DEF Whole, Typed, Seqs
      <4>3. Cardinality(Whole \cup {s}) = Cardinality(Whole) + 1
        BY <1>0, <4>2, WholeFinite, FS_AddElement
      <4>4. Unharmed' => Unharmed
        BY <1>0, <3>0, <3>5 DEF Unharmed, At, Goto, Typed
      <4> QED
        BY <1>0, <3>0, <3>2, <3>3, <4>2, <4>3, <4>4 DEF CountInv
    <3> QED
      BY <3>4, <3>5
  <2>4. CASE WriteFails(p)
    <3>1. p \in At({"unwritten"})'
      BY <1>0, <2>4 DEF WriteFails, Goto, At
    <3> QED
      BY <3>1 DEF CountInv, Unharmed
  <2> QED
    BY <1>3, <2>1, <2>2, <2>3, <2>4 DEF ConsumerStep
<1>4. CASE ParentStep \/ ForkFails
  <2>1. ASSUME NEW p \in Proc, Fork(p) PROVE CountInv'
    <3>1. PICK to \in {"init", "c_claim"} : Goto(p, "unborn", to)
      BY <2>1 DEF Fork
    <3>2. Cardinality(At(Busy)') = Cardinality(At(Busy)) + (IF to \in Busy THEN 1 ELSE 0)
                                                         - (IF "unborn" \in Busy THEN 1 ELSE 0)
      BY <1>0, <3>1, AtMoves
    <3>3. to \notin Busy /\ "unborn" \notin Busy
      BY <3>1 DEF Busy
    <3>4. parent = "forking" /\ UNCHANGED <<num_consumed, file>>
      BY <2>1 DEF Fork, counters
    <3>5. Unharmed' => Unharmed
      BY <1>0, <3>1, <3>4 DEF Unharmed, At, Goto
    <3> QED
      BY <1>0, <3>2, <3>3, <3>4, <3>5, CountFrame
  <2>2. CASE WaitChildren
    <3>1. UNCHANGED <<pc, num_consumed, file>> /\ parent = "waiting"
      BY <2>2 DEF WaitChildren, Children, counters
    <3>2. Unharmed' => Unharmed
      BY <3>1 DEF Unharmed, At
    <3>3. At(Busy)' = At(Busy)
      BY <3>1 DEF At
    <3> QED
      BY <3>1, <3>2, <3>3, CountFrame
  <2>3. CASE CatpngSucceeds \/ CatpngFails \/ Destroy \/ ForkFails
    BY <2>3 DEF CatpngSucceeds, CatpngFails, Destroy, ForkFails, CountInv, Unharmed
  <2> QED
    BY <1>4, <2>1, <2>2, <2>3 DEF ParentStep
<1> QED
  BY <1>1, <1>2, <1>3, <1>4 DEF Next

SegmentsInv == PipelineInv /\ ConsumedInv /\ EndedInv /\ CountInv

(* With at least one consumer, catpng starts with every strip in its file   *)
(* unless an answer named no strip or a file could not be written.          *)
THEOREM SegmentsAreWhole ==
  ASSUME Consumers # {}
  PROVE  Spec => []SegmentsWhole
<1>1. Init => SegmentsInv
  BY TypeInit, BalanceInit, FreshInit, StripsInit, ConsumedInit DEF PipelineInv, SegmentsInv
<1>2. ASSUME SegmentsInv, [Next]_vars PROVE SegmentsInv'
  <2>1. PipelineInv'
    BY <1>2, PipelineStep DEF SegmentsInv
  <2>2. TypeInv /\ TypeInv'
    BY <1>2, <2>1 DEF PipelineInv, SegmentsInv
  <2> QED
    BY <1>2, <2>1, <2>2, ConsumedStep, CountStep DEF SegmentsInv
<1>3. ASSUME SegmentsInv PROVE SegmentsWhole
  <2> SUFFICES ASSUME parent = "catpng", file[NoSeq] = "absent", At({"unwritten"}) = {}
               PROVE  \A s \in Parts : file[s] = "whole"
    BY DEF SegmentsWhole
  <2>0. NumParts \in Nat /\ num_consumed \in Nat /\ Consumers \subseteq Proc
    BY <1>3, PartAssumption DEF SegmentsInv, PipelineInv, TypeInv, TypeOK, Proc
  <2>1. \A p \in Proc : pc[p] \in Ended /\ pc[p] # "unwritten"
    BY <1>3 DEF SegmentsInv, EndedInv, At
  <2>2. \A p \in Consumers : pc[p] = "done"
    BY <1>3, <2>0, <2>1 DEF SegmentsInv, PipelineInv, TypeInv, TypeOK, ConsumerPC, Ended
  <2>3. num_consumed >= NumParts
    BY <1>3, <2>2 DEF SegmentsInv, ConsumedInv
  <2>4. Cardinality(At(Busy)) = 0
    <3>1. At(Busy) = {}
      BY <2>1 DEF At, Busy, Ended
    <3> QED
      BY <3>1, FS_EmptySet
  <2>5. Cardinality(Whole) = NumParts
    BY <1>3, <2>0, <2>3, <2>4, WholeFinite DEF SegmentsInv, CountInv, Unharmed
  <2>6. Whole = Parts
    <3>1. Whole \in SUBSET Parts
      BY DEF Whole
    <3> QED
      BY <2>0, <2>5, <3>1, WholeFinite, FS_Subset
  <2> QED
    BY <2>6 DEF Whole
<1> QED
  BY <1>1, <1>2, <1>3, PTL DEF Spec
=============================================================================
