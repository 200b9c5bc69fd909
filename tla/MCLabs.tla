------------------------------- MODULE MCLabs -------------------------------
(***************************************************************************)
(* TLC's instances of what runs in a single thread in Labs 1 to 3: the     *)
(* walk of findpng, pnginfo with the CRC, catpng, one thread of paster     *)
(* with its buffer, and the bytes of the queue, which paster2's semaphores *)
(* make sequential.  They share no state; a behaviour is a run of one.     *)
(***************************************************************************)
EXTENDS FindPng1, PngInfo, CatPng, RecvBuf, RingLayout, TLC

CONSTANTS top, sub, deep, bottom, empty, f1, f2, f3

VARIABLE tool             (* the one that runs                              *)

labs_vars == <<tool, walk_vars, info_vars, cat_vars, recv_vars, ring_vars>>

(* Four levels, one more than descriptors; an empty directory and files     *)
(* come after deeper ones.                                                  *)
MCListing ==
  top    :> <<".", sub, f1, "..", empty>> @@
  sub    :> <<"..", deep, f2>> @@
  deep   :> <<bottom, ".", f3>> @@
  bottom :> <<"..">> @@
  empty  :> <<".", "..">>

(* The names of the chunks in ASCII. *)
MCTypes ==
  [IHDR |-> << {0, 3, 6}, {3, 6}, {2, 6}, {1, 4, 6} >>,
   IDAT |-> << {0, 3, 6}, {2, 6}, {0, 6}, {2, 4, 6} >>,
   IEND |-> << {0, 3, 6}, {0, 2, 6}, {1, 2, 3, 6}, {2, 6} >>]

MCChunkData == {[IHDR |-> << {1} >>, IDAT |-> << {0, 7}, {}, {2, 3, 4} >>, IEND |-> <<>>]}

(* One bit, two bits, all bits of a burst, and the table's polynomial. *)
MCBursts ==
  {{0}, Polynomial} \cup {{0, d} : d \in {1, 6, 7, 8, 19, 31}} \cup {0 .. d : d \in {3, 8, 15, 31}}

(* Strips that inflate within FACTOR, and just beyond; one whose length     *)
(* makes three of it overflow a word; one that is damaged.                  *)
Strip(h, l, p, s) == [height |-> h, length |-> l, pixels |-> p, sound |-> s]

MCImages ==
  {Strip(1, 1, 2, TRUE), Strip(2, 2, 3, TRUE), Strip(1, 1, 4, TRUE),
   Strip(2, 4, 4, TRUE), Strip(1, 1, 2, FALSE)}

(* A program that does not run has one initial state. *)
LabsInit ==
  /\ tool \in {"findpng", "pnginfo", "catpng", "paster", "queue"}
  /\ tool = "findpng" \/ (locked = {} /\ kind = [f \in Files |-> "png"])
  /\ tool = "pnginfo" \/ file_kind = "missing"
  /\ tool = "catpng"  \/ args = <<>>
  /\ tool = "queue"   \/ img_size = 1
  /\ WalkInit /\ InfoInit /\ CatInit /\ RecvInit /\ RingInit

RunFindPng ==
  tool = "findpng" /\ WalkNext /\ UNCHANGED <<info_vars, cat_vars, recv_vars, ring_vars>>
RunPngInfo ==
  tool = "pnginfo" /\ InfoNext /\ UNCHANGED <<walk_vars, cat_vars, recv_vars, ring_vars>>
RunCatPng ==
  tool = "catpng" /\ CatNext /\ UNCHANGED <<walk_vars, info_vars, recv_vars, ring_vars>>
RunPaster ==
  tool = "paster" /\ RecvNext /\ UNCHANGED <<walk_vars, info_vars, cat_vars, ring_vars>>
RunQueue ==
  tool = "queue" /\ RingNext /\ UNCHANGED <<walk_vars, info_vars, cat_vars, recv_vars>>

LabsNext ==
  (RunFindPng \/ RunPngInfo \/ RunCatPng \/ RunPaster \/ RunQueue) /\ UNCHANGED tool

LabsSpec == LabsInit /\ [][LabsNext]_labs_vars
=============================================================================
