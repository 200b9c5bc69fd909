------------------------------- MODULE Buffer -------------------------------
(***************************************************************************)
(* The fixed-size queue of Lab 3 (buffer.c): a ring of MaxSize slots in    *)
(* shared memory, addressed by front and rear.  A RECV_BUF is represented  *)
(* by its sequence number; the bytes of the image follow from it.          *)
(*                                                                         *)
(* The module is stateless: it defines the operations on a record that     *)
(* stands for one struct Buffer.  Paster2 keeps that record in a variable. *)
(***************************************************************************)
EXTENDS Integers, Sequences

CONSTANT MaxSize                                  (* b->max_size            *)

ASSUME MaxSizeAssumption == MaxSize \in Nat \ {0}

Slot == 0 .. MaxSize - 1

(* The struct Buffer whose slots hold elements of Item. *)
BufferOf(Item) ==
  [size : 0 .. MaxSize, front : -1 .. MaxSize - 1, rear : -1 .. MaxSize - 1,
   queue : [Slot -> Item]]

Buffer_init(initial) ==
  [size |-> 0, front |-> -1, rear |-> -1, queue |-> [i \in Slot |-> initial]]

(* The two conditions under which an operation returns 2 and does nothing.  *)
(* The callers ignore the return codes.                                     *)
IsFull(b)  == b.size >= MaxSize
IsEmpty(b) == b.size = 0

(* The slot the next element is copied to: the three branches of Buffer_add. *)
AddSlot(b) ==
  IF b.front = -1 \/ (b.rear = MaxSize - 1 /\ b.front # 0) THEN 0 ELSE b.rear + 1

Buffer_add(b, node) ==
  IF IsFull(b)
  THEN b
  ELSE [size  |-> b.size + 1,
        front |-> IF b.front = -1 THEN 0 ELSE b.front,
        rear  |-> AddSlot(b),
        queue |-> [b.queue EXCEPT ![AddSlot(b)] = node]]

(* What Buffer_pop copies out; meaningful only when the queue is not empty. *)
Popped(b) == b.queue[b.front]

(* Faulty: the last element leaves front and rear where they are. *)
Buffer_pop_KeepsIndices(b) ==
  IF IsEmpty(b)
  THEN b
  ELSE [b EXCEPT !.size  = @ - 1,
                 !.front = IF @ = MaxSize - 1 THEN 0 ELSE @ + 1]

Buffer_pop(b) ==
  IF IsEmpty(b)
  THEN b
  ELSE IF b.front = b.rear
       THEN [b EXCEPT !.size = @ - 1, !.front = -1, !.rear = -1]
       ELSE [b EXCEPT !.size = @ - 1,
                      !.front = IF @ = MaxSize - 1 THEN 0 ELSE @ + 1]

-----------------------------------------------------------------------------
(* What the ring means.                                                     *)

(* The slot of the i-th element, counting from the front. *)
SlotOf(b, i) ==
  LET j == b.front + i - 1 IN IF j < MaxSize THEN j ELSE j - MaxSize

(* The ring read as the sequence of its elements, oldest first. *)
Contents(b) == [i \in 1 .. b.size |-> b.queue[SlotOf(b, i)]]

(* front and rear are -1 exactly when the ring is empty, and otherwise the  *)
(* elements fill the slots from front to rear.                              *)
RingInv(b) ==
  /\ b.size = 0 <=> b.front = -1
  /\ b.size = 0 <=> b.rear = -1
  /\ b.size > 0 => b.rear = SlotOf(b, b.size)
=============================================================================
