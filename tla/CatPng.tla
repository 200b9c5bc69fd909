------------------------------- MODULE CatPng -------------------------------
(***************************************************************************)
(* catpng.c with zutil.c: concatenate PNG strips of the same width into    *)
(* all.png.  The program of Lab 1, and the function that paster and        *)
(* paster2 call; this is the function of Lab 3, the other two differ in    *)
(* FACTOR and in the values they return.                                   *)
(*                                                                         *)
(* Of a strip only its height, the length of its compressed data and the   *)
(* pixels these inflate to matter; zlib is external.  Freed memory is left *)
(* out, and a strip has one IDAT chunk.                                    *)
(***************************************************************************)
EXTENDS Integers, Sequences, SequencesExt, Functions

CONSTANTS
  Images,                 (* the strips, see ImageAssumption                *)
  NoSuchFile,             (* an argument that cannot be opened              *)
  MaxArgs,                (* bound: the arguments                           *)
  FACTOR,                 (* 100; 30 in Lab 1                               *)
  CHUNK,                  (* 16384                                          *)
  WORD,                   (* 2^32, the values of a U32                      *)
  DeflatedSizes           (* what deflate may make of the pixels            *)

ASSUME ImageAssumption ==
  Images \subseteq [height : Nat, length : Nat, pixels : Nat, sound : BOOLEAN]

ASSUME WordAssumption ==
  /\ MaxArgs \in Nat /\ WORD \in Nat \ {0} /\ CHUNK \in Nat \ {0}
  /\ FACTOR \in Nat /\ FACTOR >= 2 /\ DeflatedSizes \subseteq Nat

VARIABLES
  args,                   (* argv without the program's name                *)
  position,               (* where catpng is                                *)
  k,                      (* its loop variable                              *)
  height,                 (* new_IHDR_data->height                          *)
  length,                 (* new_IDAT->length, IDAT_arr[0]->length as well  *)
  inflated,               (* inflated_data, up to where it is written       *)
  have,                   (* inf_len or def_len: bytes of this stream       *)
  len_def,                (* what the deflated data come to                 *)
  all_png,                (* the chunks of all.png                          *)
  result                  (* what catpng returns                            *)

cat_vars == <<args, position, k, height, length, inflated, have, len_def, all_png, result>>

(* What an earlier run has left, or nothing. *)
OldImage == <<"old">>

CatInit ==
  /\ \E c \in 0 .. MaxArgs : args \in [1 .. c -> Images \cup {NoSuchFile}]
  /\ position = "open" /\ k = 1
  /\ height = 0 /\ length = 0
  /\ inflated = <<>> /\ have = 0 /\ len_def = 0
  /\ all_png = OldImage
  /\ result = 0

Returns(r) == position' = "returned" /\ result' = r

SetUp == <<args, height, length>>

(* No argument: -1. *)
NoArguments ==
  /\ position = "open" /\ args = <<>>
  /\ Returns(-1)
  /\ UNCHANGED <<SetUp, k, inflated, have, len_def, all_png>>

(* The first strip gives the chunks that all.png begins with, the others    *)
(* their height and their IDAT chunk.                                       *)
OpenStrip ==
  /\ position = "open" /\ k <= Len(args) /\ args[k] # NoSuchFile
  /\ height' = (height + args[k].height) % WORD
  /\ length' = IF k = 1 THEN args[k].length ELSE length
  /\ k' = k + 1
  /\ UNCHANGED <<args, position, inflated, have, len_def, all_png, result>>

OpenFails ==
  /\ position = "open" /\ k <= Len(args) /\ args[k] = NoSuchFile
  /\ Returns(IF k = 1 THEN -2 ELSE -3)
  /\ UNCHANGED <<SetUp, k, inflated, have, len_def, all_png>>

(* All strips are open. *)
SumOfLengths == (SumFunction([j \in DOMAIN args |-> args[j].length])) % WORD

(* Faulty: the first strip is left out. *)
SumLengths_FromSecond ==
  /\ position = "open" /\ args # <<>> /\ k > Len(args)
  /\ length' = (SumOfLengths - args[1].length) % WORD
  /\ k' = 1 /\ position' = "inflate"
  /\ UNCHANGED <<args, height, inflated, have, len_def, all_png, result>>

(* new_IDAT's length becomes the sum of all, from which both buffers get    *)
(* their sizes.                                                             *)
SumLengths ==
  /\ position = "open" /\ args # <<>> /\ k > Len(args)
  /\ length' = SumOfLengths
  /\ k' = 1 /\ position' = "inflate"
  /\ UNCHANGED <<args, height, inflated, have, len_def, all_png, result>>

Pixels(a) == [j \in 1 .. a.pixels |-> <<a, j>>]

InflatedRoom == (FACTOR * length) % WORD
DeflatedRoom == (2 * length) % WORD

SmallerOf(a, b) == IF a < b THEN a ELSE b

(* One round of mem_inf's loop: inflate fills at most one chunk, which is   *)
(* copied behind what is there.  A full chunk is followed by another round, *)
(* an empty one if the strip ended with it.  Nothing compares what is       *)
(* copied with the size of the buffer.                                      *)
Inflate ==
  /\ position = "inflate" /\ k <= Len(args)
  /\ \E got \in {SmallerOf(CHUNK, args[k].pixels - have)} :
       IF Len(inflated) + got > InflatedRoom
         THEN position' = "undefined" /\ UNCHANGED <<k, inflated, have>>
         ELSE /\ inflated' = inflated \o SubSeq(Pixels(args[k]), have + 1, have + got)
              /\ IF got = CHUNK
                   THEN have' = have + got /\ UNCHANGED k
                   ELSE args[k].sound /\ have' = 0 /\ k' = k + 1
              /\ UNCHANGED position
  /\ UNCHANGED <<SetUp, len_def, all_png, result>>

(* mem_inf or mem_def reports an error: Z_DATA_ERROR, which is what a strip *)
(* that cannot be opened returns as well, or Z_MEM_ERROR.                   *)
ZlibFails ==
  /\ position \in {"inflate", "deflate"}
  /\ Returns(-3) \/ Returns(-4)
  /\ UNCHANGED <<SetUp, k, inflated, have, len_def, all_png>>

(* The data of the first strip stop short, but mem_inf is told that they    *)
(* have the length of all of them: it reads what is behind them.            *)
InflateReadsOn ==
  /\ position = "inflate" /\ k = 1 /\ ~args[1].sound
  /\ position' = "undefined"
  /\ UNCHANGED <<SetUp, k, inflated, have, len_def, all_png, result>>

(* mem_def begins: what deflate makes of the pixels. *)
StartDeflate ==
  /\ position = "inflate" /\ k > Len(args)
  /\ position' = "deflate"
  /\ len_def' \in DeflatedSizes
  /\ UNCHANGED <<SetUp, k, inflated, have, all_png, result>>

(* One round of mem_def's loop. *)
Deflate ==
  /\ position = "deflate"
  /\ \E got \in {SmallerOf(CHUNK, len_def - have)} :
       IF have + got > DeflatedRoom
         THEN position' = "undefined" /\ UNCHANGED <<have, length>>
         ELSE IF got = CHUNK
                THEN have' = have + got /\ UNCHANGED <<position, length>>
                ELSE have' = 0 /\ length' = len_def /\ position' = "write"
  /\ UNCHANGED <<args, k, height, inflated, len_def, all_png, result>>

(* A checksum is the data it was computed from. *)
Chunk(type, data) == [type |-> type, data |-> data, crc |-> <<type, data>>]

(* Faulty: the header keeps the checksum of the first strip. *)
Chunks_OldChecksum ==
  << "header", [Chunk("IHDR", height) EXCEPT !.crc = <<"IHDR", args[1].height>>],
     Chunk("IDAT", inflated), "IEND" >>

Chunks == << "header", Chunk("IHDR", height), Chunk("IDAT", inflated), "IEND" >>

(* all.png is opened, which empties it, and written; catpng does not look   *)
(* at the results of fwrite.                                                *)
Write ==
  /\ position = "write"
  /\ \E written \in 0 .. Len(Chunks) : all_png' = SubSeq(Chunks, 1, written)
  /\ Returns(0)
  /\ UNCHANGED <<SetUp, k, inflated, have, len_def>>

(* all.png cannot be opened: fwrite is given NULL. *)
WriteCrashes ==
  /\ position = "write"
  /\ position' = "crashed"
  /\ UNCHANGED <<SetUp, k, inflated, have, len_def, all_png, result>>

CatNext ==
  \/ NoArguments \/ OpenStrip \/ OpenFails
  \/ SumLengths
  \/ Inflate \/ InflateReadsOn \/ ZlibFails
  \/ StartDeflate \/ Deflate
  \/ Write \/ WriteCrashes

CatSpec == CatInit /\ [][CatNext]_cat_vars

-----------------------------------------------------------------------------
(* What is written is the strips below each other, in the order of the      *)
(* arguments: the pixels of all of them and no others, as many rows as they *)
(* have together, and checksums of the data that are written.  An old       *)
(* all.png is only touched when no strip is missing or damaged, although    *)
(* the last may be read after all others were inflated.                     *)
MergesInOrder ==
  all_png # OldImage =>
    LET strips == [j \in DOMAIN args |-> Pixels(args[j])]
        rows   == SumFunction([j \in DOMAIN args |-> args[j].height])
        image  == << "header", Chunk("IHDR", rows), Chunk("IDAT", FlattenSeq(strips)), "IEND" >>
    IN  /\ \A j \in DOMAIN args : args[j] # NoSuchFile /\ args[j].sound
        /\ rows < WORD => all_png = SubSeq(image, 1, Len(all_png))

(* The buffers suffice for strips whose pixels are at most FACTOR times     *)
(* their data, if the data deflate to at most twice what they were, and all *)
(* of this fits a word.                                                     *)
BuffersSuffice ==
  position = "undefined" =>
    \/ \E j \in DOMAIN args : ~args[j].sound \/ args[j].pixels > FACTOR * args[j].length
    \/ len_def > 2 * SumOfLengths
    \/ FACTOR * SumFunction([j \in DOMAIN args |-> args[j].length]) >= WORD
=============================================================================
