----------------------------- MODULE RingLayout -----------------------------
(***************************************************************************)
(* The bytes under Lab 3's queue.  Buffer has slots that hold a node; in   *)
(* the shared segment a slot is sizeof_shm_recv_buf(IMG_SIZE) bytes, of    *)
(* which Buffer_add and Buffer_pop copy all but the pointer in front.      *)
(* paster2 gives Buffer_init that size where the other two get IMG_SIZE,   *)
(* so the headers it initialises lie further apart than the slots.         *)
(*                                                                         *)
(* Addresses count from b->queue; a header is HEADER cells, the first of   *)
(* them the pointer.                                                       *)
(***************************************************************************)
EXTENDS Buffer

CONSTANTS
  STRUCT,                 (* sizeof(Buffer), in cells                       *)
  HEADER,                 (* sizeof(RECV_BUF), in cells                     *)
  DataSizes,              (* IMG_SIZE, in cells                             *)
  PAGE,                   (* segments are whole pages                       *)
  MaxNodes,               (* bound: the nodes that are added                *)
  NoNode

ASSUME LayoutAssumption ==
  /\ STRUCT \in Nat
  /\ HEADER \in Nat \ {0} /\ DataSizes \subseteq Nat /\ PAGE \in Nat \ {0}
  /\ NoNode \notin Nat

VARIABLES
  img_size,               (* IMG_SIZE                                       *)
  ring,                   (* the struct, and what each slot stands for      *)
  shm,                    (* the segment behind the struct                  *)
  next_slot,              (* Buffer_init's i                                *)
  outside,                (* history: something behind the segment was      *)
                          (* written                                        *)
  nodes,                  (* the nodes added so far                         *)
  taken,                  (* what the last Buffer_pop copied out, and       *)
  expected,               (* history: the node it stood for                 *)
  using                   (* FALSE once the process has crashed             *)

ring_vars == <<img_size, ring, shm, next_slot, outside, nodes, taken, expected, using>>

sizeof_shm_recv_buf(nbytes) == HEADER + nbytes

SlotSize == sizeof_shm_recv_buf(img_size)

sizeof_Buffer == STRUCT + MaxSize * SlotSize

(* What shmget makes of it, without the struct in front. *)
Segment == ((sizeof_Buffer + PAGE - 1) \div PAGE) * PAGE - STRUCT

(* Where the i-th header is initialised, and where slot i is used.  Faulty: *)
(* one more header is counted. *)
InitAddress_TwoMore(i) == i * sizeof_shm_recv_buf(sizeof_shm_recv_buf(SlotSize))

InitAddress(i) == i * sizeof_shm_recv_buf(SlotSize)

(* Faulty: the header is not counted. *)
SlotAddress_DataOnly(i) == i * img_size

SlotAddress(i) == i * SlotSize

(* memcpy copies all but the pointer, cell 0. *)
Copied == 1 .. SlotSize - 1

RingInit ==
  /\ img_size \in DataSizes
  /\ ring = Buffer_init(NoNode)
  /\ shm = [a \in 0 .. Segment - 1 |-> <<NoNode, 0>>]
  /\ next_slot = 0
  /\ outside = FALSE
  /\ nodes = 0
  /\ taken = <<>> /\ expected = NoNode
  /\ using = TRUE

(* A write of cells, a function of their addresses: those behind the        *)
(* segment may be mapped, or the process gets a signal.                     *)
WriteCells(cells) ==
  /\ shm' = [a \in DOMAIN shm |-> IF a \in DOMAIN cells THEN cells[a] ELSE shm[a]]
  /\ IF DOMAIN cells \subseteq DOMAIN shm THEN UNCHANGED <<outside, using>>
     ELSE outside' = TRUE /\ using' \in BOOLEAN

(* One round of Buffer_init's loop: a header's fields. *)
InitSlot ==
  /\ using /\ next_slot < MaxSize
  /\ WriteCells([a \in {InitAddress(next_slot) + o : o \in 0 .. HEADER - 1} |-> <<NoNode, a>>])
  /\ next_slot' = next_slot + 1
  /\ UNCHANGED <<img_size, ring, nodes, taken, expected>>

AddNode ==
  /\ using /\ next_slot = MaxSize
  /\ nodes < MaxNodes /\ ~IsFull(ring)
  /\ nodes' = nodes + 1
  /\ LET base == SlotAddress(AddSlot(ring))
     IN  WriteCells([a \in {base + o : o \in Copied} |-> <<nodes + 1, a - base>>])
  /\ ring' = Buffer_add(ring, nodes + 1)
  /\ UNCHANGED <<img_size, next_slot, taken, expected>>

PopNode ==
  /\ using /\ next_slot = MaxSize
  /\ ~IsEmpty(ring)
  /\ taken' = [o \in Copied |-> shm[SlotAddress(ring.front) + o]]
  /\ expected' = Popped(ring)
  /\ ring' = Buffer_pop(ring)
  /\ UNCHANGED <<img_size, shm, next_slot, outside, nodes, using>>

RingNext == InitSlot \/ AddNode \/ PopNode

RingSpec == RingInit /\ [][RingNext]_ring_vars
-----------------------------------------------------------------------------
(* Each element that Buffer has in the ring is in its slot, byte for byte:  *)
(* neither the headers that Buffer_init puts elsewhere nor the slots beside *)
(* it have touched it, wherever front and rear are.                         *)
SlotsHoldNodes ==
  \A i \in 1 .. ring.size :
    \A o \in Copied :
      shm[SlotAddress(SlotOf(ring, i)) + o] = <<Contents(ring)[i], o>>

(* What the consumer copies out is the node that was added.                 *)
TakesWhatWasAdded == expected # NoNode => \A o \in Copied : taken[o] = <<expected, o>>

(* The nodes are kept from Buffer_add to Buffer_pop. *)
NodesKept == SlotsHoldNodes /\ TakesWhatWasAdded

(* The initialisation stays in the segment as long as the headers of all    *)
(* slots but one need no more room than the data of one: 321 slots with the *)
(* sizes of paster2.  Nothing else ever leaves the segment.                 *)
OutsideOnlyByInit ==
  /\ outside => (MaxSize - 1) * HEADER > img_size
  /\ ring.size > 0 => SlotAddress(ring.rear) + SlotSize <= Segment
=============================================================================
