---------------------------- MODULE BufferProofs ----------------------------
(***************************************************************************)
(* The ring of buffer.c is a bounded queue, for every capacity and every   *)
(* type of element.                                                        *)
(***************************************************************************)
EXTENDS Buffer, SequenceTheorems, TLAPS

(* The fields of a ring. *)
LEMMA Fields ==
  ASSUME NEW Item, NEW b \in BufferOf(Item)
  PROVE  /\ b.size \in 0 .. MaxSize
         /\ b.front \in -1 .. MaxSize - 1 /\ b.rear \in -1 .. MaxSize - 1
         /\ b.queue \in [Slot -> Item]
BY DEF BufferOf

(* Buffer_init makes an empty ring. *)
LEMMA InitRing ==
  ASSUME NEW Item, NEW x \in Item
  PROVE  /\ Buffer_init(x) \in BufferOf(Item)
         /\ RingInv(Buffer_init(x))
         /\ Contents(Buffer_init(x)) = <<>>
<1> DEFINE b == Buffer_init(x)
<1>1. /\ b.size = 0 /\ b.front = -1 /\ b.rear = -1
      /\ b.queue \in [Slot -> Item]
  BY DEF Buffer_init
<1>2. b \in BufferOf(Item)
  BY MaxSizeAssumption DEF Buffer_init, BufferOf
<1>3. RingInv(b)
  BY <1>1 DEF RingInv
<1>4. Contents(b) = <<>>
  BY <1>1 DEF Contents
<1> QED
  BY <1>2, <1>3, <1>4

(* Every element has a slot of its own. *)
LEMMA SlotTyped ==
  ASSUME NEW Item, NEW b \in BufferOf(Item), RingInv(b), NEW i \in 1 .. b.size
  PROVE  SlotOf(b, i) \in Slot
BY Fields, MaxSizeAssumption, SMTT(20) DEF RingInv, SlotOf, Slot

(* The queue a ring stands for. *)
LEMMA ContentsTyped ==
  ASSUME NEW Item, NEW b \in BufferOf(Item), RingInv(b)
  PROVE  /\ Contents(b) \in Seq(Item) /\ Len(Contents(b)) = b.size
         /\ \A i \in 1 .. b.size : Contents(b)[i] = b.queue[SlotOf(b, i)]
<1>1. \A i \in 1 .. b.size : b.queue[SlotOf(b, i)] \in Item
  BY Fields, SlotTyped
<1>2. b.size \in Nat
  BY Fields, MaxSizeAssumption
<1> QED
  BY <1>1, <1>2 DEF Contents

(* Buffer_add on a ring that is not full appends to the queue it stands for *)
(* and overwrites no element.                                               *)
THEOREM AddAppends ==
  ASSUME NEW Item, NEW b \in BufferOf(Item), RingInv(b), NEW x \in Item, ~IsFull(b)
  PROVE  /\ Buffer_add(b, x) \in BufferOf(Item)
         /\ RingInv(Buffer_add(b, x))
         /\ Buffer_add(b, x).size = b.size + 1
         /\ Contents(Buffer_add(b, x)) = Append(Contents(b), x)
<1> DEFINE c == Buffer_add(b, x)
           s == AddSlot(b)
<1>1. /\ b.size \in 0 .. MaxSize /\ b.size < MaxSize
      /\ b.front \in -1 .. MaxSize - 1 /\ b.rear \in -1 .. MaxSize - 1
      /\ b.queue \in [Slot -> Item]
      /\ MaxSize \in Nat \ {0}
  BY Fields, MaxSizeAssumption DEF IsFull
<1>2. s \in Slot
  BY <1>1, SMTT(20) DEF RingInv, SlotOf, AddSlot, Slot
<1>3. /\ c.size = b.size + 1
      /\ c.front = IF b.front = -1 THEN 0 ELSE b.front
      /\ c.rear = s
      /\ c.queue = [b.queue EXCEPT ![s] = x]
      /\ c = [size |-> c.size, front |-> c.front, rear |-> c.rear, queue |-> c.queue]
  BY DEF Buffer_add
<1>4. c.queue \in [Slot -> Item]
  BY <1>1, <1>2, <1>3
<1>5. c.front \in 0 .. MaxSize - 1 /\ c.size \in 1 .. MaxSize
  BY <1>1, <1>3
<1>6. c \in BufferOf(Item)
  <2>1. c.size \in 0 .. MaxSize /\ c.front \in -1 .. MaxSize - 1 /\ c.rear \in -1 .. MaxSize - 1
    BY <1>1, <1>2, <1>3, <1>5 DEF Slot
  <2> HIDE DEF c
  <2> QED
    BY <2>1, <1>3, <1>4 DEF BufferOf
<1> HIDE DEF c
<1>7. SlotOf(c, c.size) = s
  <2>1. CASE b.size = 0
    BY <2>1, <1>1, <1>3 DEF SlotOf, AddSlot, RingInv
  <2>2. CASE b.size > 0
    <3>1. b.front # -1 /\ b.rear = SlotOf(b, b.size)
      BY <2>2, <1>1 DEF RingInv
    <3>2. c.front = b.front /\ c.size = b.size + 1
      BY <3>1, <1>3
    <3> QED
      BY <2>2, <3>1, <3>2, <1>1 DEF SlotOf, AddSlot
  <2> QED
    BY <2>1, <2>2, <1>1
<1>8. RingInv(c)
  BY <1>2, <1>3, <1>5, <1>7 DEF RingInv, Slot
<1>9. \A i \in 1 .. b.size : SlotOf(c, i) = SlotOf(b, i) /\ SlotOf(b, i) # s
  BY <1>1, <1>3, <1>5, <1>7 DEF SlotOf, RingInv
<1>10. Contents(c) = Append(Contents(b), x)
  <2>1. \A i \in 1 .. b.size : SlotOf(b, i) \in Slot
    BY SlotTyped
  <2>2. \A i \in 1 .. b.size : c.queue[SlotOf(c, i)] = b.queue[SlotOf(b, i)]
    BY <1>1, <1>3, <1>9, <2>1
  <2>3. c.queue[SlotOf(c, c.size)] = x
    BY <1>1, <1>2, <1>3, <1>7
  <2> DEFINE old == Contents(b)
             new == Contents(c)
             app == Append(old, x)
  <2>4. old \in Seq(Item) /\ Len(old) = b.size /\ new \in Seq(Item) /\ Len(new) = b.size + 1
    BY ContentsTyped, <1>3, <1>6, <1>8
  <2>5a. \A i \in 1 .. b.size + 1 : new[i] = c.queue[SlotOf(c, i)]
    BY ContentsTyped, <1>3, <1>6, <1>8
  <2>5b. \A i \in 1 .. b.size : old[i] = b.queue[SlotOf(b, i)]
    BY ContentsTyped
  <2> HIDE DEF old, new
  <2>5. \A i \in 1 .. b.size : new[i] = old[i]
    BY <2>2, <2>5a, <2>5b, <1>1
  <2>6. new[b.size + 1] = x
    BY <2>3, <2>5a, <1>1, <1>3
  <2>7. /\ app \in Seq(Item) /\ Len(app) = b.size + 1
        /\ \A i \in 1 .. b.size : app[i] = old[i]
        /\ app[b.size + 1] = x
    BY <2>4, AppendProperties
  <2> HIDE DEF app
  <2>8. \A i \in 1 .. Len(new) : new[i] = app[i]
    <3>1. Len(new) = b.size + 1
      BY <2>4
    <3>2. \A i \in 1 .. b.size + 1 : i \in 1 .. b.size \/ i = b.size + 1
      BY <1>1
    <3> QED
      BY <2>5, <2>6, <2>7, <3>1, <3>2
  <2>9. new = app
    BY <2>4, <2>7, <2>8, SeqEqual
  <2> QED
    BY <2>9 DEF new, app, old
<1> QED
  BY <1>3, <1>6, <1>8, <1>10 DEF c

(* Buffer_pop on a ring that is not empty takes the oldest element.         *)
THEOREM PopHeads ==
  ASSUME NEW Item, NEW b \in BufferOf(Item), RingInv(b), ~IsEmpty(b)
  PROVE  /\ Buffer_pop(b) \in BufferOf(Item)
         /\ RingInv(Buffer_pop(b))
         /\ Buffer_pop(b).size = b.size - 1
         /\ Contents(b) # <<>>
         /\ Popped(b) = Head(Contents(b)) /\ Popped(b) \in Item
         /\ Contents(Buffer_pop(b)) = Tail(Contents(b))
<1> DEFINE c == Buffer_pop(b)
<1>1. /\ b.size \in 1 .. MaxSize
      /\ b.front \in 0 .. MaxSize - 1 /\ b.rear \in 0 .. MaxSize - 1
      /\ b.rear = SlotOf(b, b.size)
      /\ b.queue \in [Slot -> Item]
      /\ MaxSize \in Nat \ {0}
  BY Fields, MaxSizeAssumption DEF IsEmpty, RingInv
<1>2. b.front = b.rear <=> b.size = 1
  BY <1>1 DEF SlotOf
<1>3. /\ c.size = b.size - 1 /\ c.queue = b.queue
      /\ c.front = IF b.size = 1 THEN -1 ELSE IF b.front = MaxSize - 1 THEN 0 ELSE b.front + 1
      /\ c.rear = IF b.size = 1 THEN -1 ELSE b.rear
      /\ c \in BufferOf(Item)
  <2>0. b = [size |-> b.size, front |-> b.front, rear |-> b.rear, queue |-> b.queue]
    BY DEF BufferOf
  <2>1. CASE b.size = 1
    <3>1. c = [b EXCEPT !.size = @ - 1, !.front = -1, !.rear = -1]
      BY <2>1, <1>1, <1>2 DEF Buffer_pop, IsEmpty
    <3>2. c = [size |-> b.size - 1, front |-> -1, rear |-> -1, queue |-> b.queue]
      BY <2>0, <3>1
    <3> QED
      BY <2>1, <3>2, <1>1 DEF BufferOf
  <2>2. CASE b.size # 1
    <3> DEFINE f == IF b.front = MaxSize - 1 THEN 0 ELSE b.front + 1
    <3>1. c = [b EXCEPT !.size = @ - 1, !.front = f]
      BY <2>2, <1>1, <1>2 DEF Buffer_pop, IsEmpty
    <3>2. c = [size |-> b.size - 1, front |-> f, rear |-> b.rear, queue |-> b.queue]
      BY <2>0, <3>1
    <3>3. f \in -1 .. MaxSize - 1
      BY <1>1
    <3> QED
      BY <2>2, <3>2, <3>3, <1>1 DEF BufferOf
  <2> QED
    BY <2>1, <2>2
<1> HIDE DEF c
<1>4. \A i \in 1 .. b.size - 1 : SlotOf(c, i) = SlotOf(b, i + 1)
  BY <1>1, <1>3 DEF SlotOf
<1>5. RingInv(c)
  BY <1>1, <1>3, <1>4 DEF RingInv
<1>6. \A i \in 1 .. b.size : SlotOf(b, i) \in Slot /\ b.queue[SlotOf(b, i)] \in Item
  BY <1>1, SlotTyped
<1>7. Contents(b) \in Seq(Item) /\ Len(Contents(b)) = b.size /\ Contents(b) # <<>>
  BY <1>1, ContentsTyped
<1>8. Popped(b) = Head(Contents(b)) /\ Popped(b) \in Item
  <2>1. SlotOf(b, 1) = b.front
    BY <1>1 DEF SlotOf
  <2> QED
    BY <2>1, <1>1, <1>6, <1>7, ContentsTyped DEF Popped
<1>9. Contents(c) = Tail(Contents(b))
  <2> DEFINE old == Contents(b)
             new == Contents(c)
  <2>1. new \in Seq(Item) /\ Len(new) = b.size - 1
    BY <1>1, <1>3, <1>5, ContentsTyped
  <2>5a. \A i \in 1 .. b.size - 1 : new[i] = c.queue[SlotOf(c, i)]
    BY ContentsTyped, <1>3, <1>5
  <2>5b. \A i \in 1 .. b.size : old[i] = b.queue[SlotOf(b, i)]
    BY ContentsTyped
  <2> HIDE DEF old, new
  <2>2. \A i \in 1 .. b.size - 1 : new[i] = old[i + 1]
    BY <2>5a, <2>5b, <1>1, <1>3, <1>4
  <2>3. old \in Seq(Item) /\ Len(old) = b.size /\ old # <<>>
    BY <1>7 DEF old
  <2>4. /\ Tail(old) \in Seq(Item) /\ Len(Tail(old)) = b.size - 1
        /\ \A i \in 1 .. b.size - 1 : Tail(old)[i] = old[i + 1]
    BY <2>3, HeadTailProperties
  <2>5. new = Tail(old)
    BY <2>1, <2>2, <2>4, SeqEqual
  <2> QED
    BY <2>5 DEF new, old
<1> QED
  BY <1>3, <1>5, <1>7, <1>8, <1>9 DEF c
=============================================================================
