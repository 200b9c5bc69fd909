------------------------------ MODULE PngInfo -------------------------------
(***************************************************************************)
(* Lab 1, pnginfo.c with lab_png.c: is the file a PNG, and are the         *)
(* checksums of its IHDR, IDAT and IEND chunks right?                      *)
(*                                                                         *)
(* The file has been damaged in one place.  The lengths of the chunks, of  *)
(* which there are three, are sound: get_chunk finds them at fixed places  *)
(* from the beginning or the end of the file.                              *)
(***************************************************************************)
EXTENDS Crc

CONSTANTS
  Types,                  (* the type of each chunk, as bytes               *)
  ChunkData,              (* the data of each chunk considered              *)
  Bursts                  (* the damage considered: sets of bits, 32 wide   *)

ChunkNames == {"IHDR", "IDAT", "IEND"}

ASSUME BurstAssumption == \A b \in Bursts : b # {} /\ b \subseteq 0 .. 31

(* No chunk is longer than the bound. *)
ASSUME ChunkAssumption ==
  /\ MaxBytes \in Nat
  /\ \A c \in ChunkNames : Types[c] \in Seq(Byte8)
  /\ \A data \in ChunkData : \A c \in ChunkNames :
       data[c] \in Seq(Byte8) /\ Len(Types[c]) + Len(data[c]) <= MaxBytes

VARIABLES
  file_kind,              (* "missing", "other", "short" or "png"           *)
  chunk,                  (* its chunks                                     *)
  damaged,                (* history: the chunk with the damage, if any     *)
  step_of,                (* where main is                                  *)
  reported                (* the chunks with a CRC error                    *)

info_vars == <<file_kind, chunk, damaged, step_of, reported>>

(* The bytes that a checksum is about. *)
Covered(c) == c.type \o c.data

Written(name, data) ==
  [type |-> Types[name], data |-> data, crc |-> CrcByDefinition(Types[name] \o data)]

(* The covered bits, numbered as they are sent, after a burst at place p. *)
Damage(c, p, burst) ==
  LET hit(n) == {b \in 0 .. 7 : 8 * (n - 1) + b - p \in burst}
      t      == Len(c.type)
  IN  [c EXCEPT !.type = [n \in DOMAIN @ |-> SymDiff(@[n], hit(n))],
                !.data = [n \in DOMAIN @ |-> SymDiff(@[n], hit(n + t))]]

InfoInit ==
  /\ file_kind \in {"missing", "other", "short", "png"}
  /\ step_of = "open"
  /\ reported = {}
  /\ \E data \in ChunkData :
       LET sound == [c \in ChunkNames |-> Written(c, data[c])]
       IN  \/ chunk = sound /\ damaged = {}
           \/ file_kind = "png" /\ \E c \in ChunkNames, burst \in Bursts :
                \/ \E p \in 0 .. 8 * Len(Covered(sound[c])) - 1 :
                     /\ \A b \in burst : p + b < 8 * Len(Covered(sound[c]))
                     /\ chunk = [sound EXCEPT ![c] = Damage(@, p, burst)]
                     /\ damaged = {c}
                \/ chunk = [sound EXCEPT ![c].crc = SymDiff(@, burst)] /\ damaged = {c}

To(from, to) == step_of = from /\ step_of' = to

(* fopen fails, and so does fclose, which is given NULL. *)
OpenCrashes ==
  /\ file_kind = "missing"
  /\ To("open", "crashed")
  /\ UNCHANGED <<file_kind, chunk, damaged, reported>>

(* The first eight bytes are not the signature; of a short file they are    *)
(* in part whatever the stack holds.                                        *)
NotAPng ==
  /\ file_kind \in {"other", "short"}
  /\ To("open", "not a PNG")
  /\ UNCHANGED <<file_kind, chunk, damaged, reported>>

IsPng ==
  /\ file_kind = "png"
  /\ To("open", "IHDR")
  /\ UNCHANGED <<file_kind, chunk, damaged, reported>>

(* A short file that passes for a PNG: nothing that follows is initialised. *)
ShortFile ==
  /\ file_kind = "short"
  /\ To("open", "undefined")
  /\ UNCHANGED <<file_kind, chunk, damaged, reported>>

(* Faulty: the type is left out. *)
expected_CRC_DataOnly(c) == crc_of(c.data)

expected_CRC(c) == crc_of(Covered(c))

(* get_chunk, and the comparison of its checksum. *)
CheckChunk(name, next) ==
  /\ To(name, next)
  /\ reported' = IF chunk[name].crc # expected_CRC(chunk[name]) THEN reported \cup {name}
                 ELSE reported
  /\ UNCHANGED <<file_kind, chunk, damaged>>

InfoNext ==
  \/ OpenCrashes \/ NotAPng \/ IsPng \/ ShortFile
  \/ CheckChunk("IHDR", "IDAT")
  \/ CheckChunk("IDAT", "IEND")
  \/ CheckChunk("IEND", "done")

InfoSpec == InfoInit /\ [][InfoNext]_info_vars

-----------------------------------------------------------------------------
(* pnginfo reports the damaged chunk and no other: what update_crc computes *)
(* with its table agrees with the definition of the CRC, and every burst    *)
(* of at most 32 bits in what it covers, or in the checksum, shows.         *)
ReportsTheDamage == step_of = "done" => reported = damaged
=============================================================================
