-------------------------------- MODULE Crc ---------------------------------
(***************************************************************************)
(* Labs 1 to 3, crc.c: the CRC of PNG, computed a byte at a time with a    *)
(* table, and what it is defined to be, a remainder of polynomials over    *)
(* GF(2).                                                                  *)
(*                                                                         *)
(* A byte or a word is the set of its 1 bits, bit 0 the lowest; exclusive  *)
(* or is the symmetric difference.                                         *)
(***************************************************************************)
EXTENDS Integers, Sequences, FiniteSets, FiniteSetsExt

CONSTANT MaxBytes         (* bound: the length of a message                 *)

Byte8 == SUBSET (0 .. 7)
Ones  == 0 .. 31                                          (* 0xffffffff     *)
ShiftRight(c, n) == {b - n : b \in {x \in c : x >= n}}

(* 0xedb88320 *)
Polynomial == {31, 30, 29, 27, 26, 24, 23, 21, 20, 19, 15, 9, 8, 5}

(* The inner loop of make_crc_table, and k rounds of it. *)
OneBit(c) == IF 0 \in c THEN SymDiff(Polynomial, ShiftRight(c, 1)) ELSE ShiftRight(c, 1)

TableEntry(n, k) ==
  LET c[r \in 0 .. k] == IF r = 0 THEN n ELSE OneBit(c[r - 1]) IN c[k]

(* Made by the first call of update_crc, and never changed. *)
crc_table == [n \in Byte8 |-> TableEntry(n, 8)]

NextCrc(c, byte) ==
  SymDiff(crc_table[SymDiff(c, byte) \cap (0 .. 7)], ShiftRight(c, 8))

update_crc(crc, buf) ==
  LET c[n \in 0 .. Len(buf)] == IF n = 0 THEN crc ELSE NextCrc(c[n - 1], buf[n])
  IN  c[Len(buf)]

crc_of(buf) == SymDiff(update_crc(Ones, buf), Ones)

-----------------------------------------------------------------------------
(* The definition.  A polynomial is the set of its exponents.               *)
Generator == {32, 26, 23, 22, 16, 12, 11, 10, 8, 7, 5, 4, 2, 1, 0}

(* x^k modulo the generator. *)
TimesX(p) ==
  LET q == {e + 1 : e \in p} IN IF 32 \in q THEN SymDiff(q, Generator) ELSE q

PowerOfX ==
  LET Exponents == 0 .. 8 * MaxBytes + 31
      x[e \in Exponents] == IF e = 0 THEN {0} ELSE TimesX(x[e - 1])
  IN  [e \in Exponents |-> x[e]]

(* The sum of the powers modulo the generator. *)
Remainder(poly) ==
  {t \in 0 .. 31 : Cardinality({e \in poly : t \in PowerOfX[e]}) % 2 = 1}

(* The first bit sent is the lowest one of the first byte, and the term of  *)
(* the highest degree; the first 32 bits are inverted, and so is the        *)
(* remainder, whose highest term is the lowest bit of the word.             *)
CrcByDefinition(buf) ==
  LET terms(n) == {32 + 8 * (Len(buf) - n) + 7 - b : b \in buf[n]}
      message  == UNION {terms(n) : n \in DOMAIN buf}
      preset   == {8 * Len(buf) + b : b \in Ones}
  IN  {31 - e : e \in SymDiff(Remainder(SymDiff(message, preset)), Ones)}
=============================================================================
