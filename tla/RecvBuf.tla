------------------------------ MODULE RecvBuf -------------------------------
(***************************************************************************)
(* Lab 2, one thread of paster with its RECV_BUF: main_write_header_cb.c   *)
(* and get_segment.  libcurl calls header_cb_curl and write_cb_curl3; the  *)
(* buffer is not emptied between two answers, so each strip is the part of *)
(* the buffer behind the one before.                                       *)
(*                                                                         *)
(* A byte is [answer, place].  The other threads appear only in that they  *)
(* may take a strip first (Paster has all of them).                        *)
(***************************************************************************)
EXTENDS Integers, Sequences

CONSTANTS
  BUF_SIZE, BUF_INC,
  Strips,                 (* the sequence numbers, 0 .. 49 in the code      *)
  MaxAnswers,             (* bound: answers this thread asks for            *)
  MaxCalls,               (* bound: calls of write_cb_curl3 for one answer  *)
  CallSizes,              (* the sizes libcurl calls it with                *)
  NoStrip, NoContent

ASSUME SizeAssumption ==
  /\ BUF_SIZE \in Nat \ {0} /\ BUF_INC \in Nat
  /\ CallSizes \subseteq Nat

ASSUME StripAssumption ==
  Strips \subseteq Nat /\ NoStrip \notin Strips /\ NoContent \notin Seq([answer : Nat, place : Nat])

VARIABLES
  mem,                    (* the bytes written to recv_buf.buf              *)
  size, max_size, seq,    (* recv_buf's fields                              *)
  start,                  (* get_segment's size                             *)
  stage,                  (* where the thread is                            *)
  retrieved,
  answer,                 (* history: the answer that arrives: its number,  *)
                          (* its strip, its length so far and its calls     *)
  output                  (* history: the files, as sequences of bytes      *)

recv_vars == <<mem, size, max_size, seq, start, stage, retrieved, answer, output>>

(* recv_buf_init.                                                           *)
RecvInit ==
  /\ mem = <<>>
  /\ size = 0 /\ max_size = BUF_SIZE /\ seq = -1
  /\ start = 0
  /\ stage = "perform"
  /\ retrieved = {}
  /\ answer = [number |-> 0, strip |-> NoStrip, length |-> 0, calls |-> 0]
  /\ output = [s \in Strips |-> NoContent]

(* malloc failed in recv_buf_init, which get_segment does not look at: the  *)
(* fields are uninitialised when the first answer comes.                    *)
InitFailed ==
  /\ stage = "perform" /\ answer.number = 0
  /\ stage' = "undefined"
  /\ UNCHANGED <<mem, size, max_size, seq, start, retrieved, answer, output>>

(* num_retrieved is below 50: curl_easy_perform begins, and the server will *)
(* answer with a strip or with something that names none.                   *)
Perform ==
  /\ stage = "perform"
  /\ answer.number < MaxAnswers
  /\ \E s \in Strips \cup {NoStrip} :
       answer' = [number |-> answer.number + 1, strip |-> s, length |-> 0, calls |-> 0]
  /\ stage' = "headers"
  /\ UNCHANGED <<mem, size, max_size, seq, start, retrieved, output>>

(* header_cb_curl for each line; the one that names the strip sets seq. *)
Headers ==
  /\ stage = "headers" /\ stage' = "body"
  /\ seq' = IF answer.strip = NoStrip THEN seq ELSE answer.strip
  /\ UNCHANGED <<mem, size, max_size, start, retrieved, answer, output>>

(* A byte of the answer that arrives. *)
Byte(place) == [answer |-> answer.number, place |-> place]

Larger(a, b) == IF a > b THEN a ELSE b

(* What realloc makes room for when realsize more bytes and the terminator  *)
(* do not fit.                                                              *)
Room(realsize) ==
  IF size + realsize + 1 > max_size THEN max_size + Larger(BUF_INC, realsize + 1)
  ELSE max_size

(* write_cb_curl3 copies the bytes behind those it has, and a terminator    *)
(* that the next call overwrites.                                           *)
WriteCallback(realsize) ==
  /\ stage = "body" /\ answer.calls < MaxCalls
  /\ max_size' = Room(realsize)
  /\ mem' = mem \o [i \in 1 .. realsize |-> Byte(answer.length + i)]
  /\ size' = size + realsize
  /\ answer' = [answer EXCEPT !.length = @ + realsize, !.calls = @ + 1]
  /\ UNCHANGED <<seq, start, stage, retrieved, output>>

(* realloc fails, or the transfer does: curl_easy_perform reports it, and   *)
(* the thread returns.                                                      *)
PerformFails ==
  /\ stage \in {"headers", "body"}
  /\ size' = 0 /\ max_size' = 0 /\ mem' = <<>>
  /\ stage' = "returned"
  /\ UNCHANGED <<seq, start, retrieved, answer, output>>

(* Faulty: the whole buffer is written. *)
TakeStrip_WholeBuffer ==
  /\ stage = "body" /\ seq # -1 /\ seq \notin retrieved
  /\ retrieved' = retrieved \cup {seq}
  /\ output' = [output EXCEPT ![seq] = SubSeq(mem, 1, size)]
  /\ start' = size
  /\ stage' = "perform"
  /\ UNCHANGED <<mem, size, max_size, seq, answer>>

(* A strip that is new is marked, and what came since the last answer is    *)
(* written to its file, whole or, when fopen or fwrite fails, in part;      *)
(* write_file's result is ignored.                                          *)
TakeStrip ==
  /\ stage = "body" /\ seq # -1 /\ seq \notin retrieved
  /\ retrieved' = retrieved \cup {seq}
  /\ \/ \E end \in start .. size :
          output' = [output EXCEPT ![seq] = SubSeq(mem, start + 1, end)]
     \/ UNCHANGED output
  /\ start' = size
  /\ stage' = "perform"
  /\ UNCHANGED <<mem, size, max_size, seq, answer>>

(* Faulty: an answer that is dropped leaves size behind. *)
DropStrip_StaleStart ==
  /\ stage = "body" /\ seq \in retrieved
  /\ stage' = "perform"
  /\ UNCHANGED <<mem, size, max_size, seq, start, retrieved, answer, output>>

(* A strip this or another thread has taken before. *)
DropStrip ==
  /\ stage = "body" /\ seq \in retrieved
  /\ start' = size
  /\ stage' = "perform"
  /\ UNCHANGED <<mem, size, max_size, seq, retrieved, answer, output>>

(* No answer has named a strip yet: retrieved[-1] is read and written. *)
IndexMinusOne ==
  /\ stage = "body" /\ seq = -1
  /\ stage' = "undefined"
  /\ UNCHANGED <<mem, size, max_size, seq, start, retrieved, answer, output>>

(* Another thread takes a strip. *)
TakenElsewhere(s) ==
  /\ stage \notin {"returned", "undefined"} /\ s \notin retrieved
  /\ retrieved' = retrieved \cup {s}
  /\ UNCHANGED <<mem, size, max_size, seq, start, stage, answer, output>>

(* num_retrieved, which Paster has, says that all strips are there, or      *)
(* there was no handle: recv_buf_cleanup, and the thread returns.           *)
Return ==
  /\ stage = "perform"
  /\ size' = 0 /\ max_size' = 0 /\ mem' = <<>>
  /\ stage' = "returned"
  /\ UNCHANGED <<seq, start, retrieved, answer, output>>

RecvNext ==
  \/ InitFailed
  \/ Perform \/ Headers
  \/ \E n \in CallSizes : WriteCallback(n)
  \/ PerformFails
  \/ TakeStrip \/ DropStrip \/ IndexMinusOne
  \/ \E s \in Strips : TakenElsewhere(s)
  \/ Return

RecvSpec == RecvInit /\ [][RecvNext]_recv_vars
-----------------------------------------------------------------------------
(* The terminator is inside the buffer, whatever sizes libcurl calls with:  *)
(* buf[size] is only written below max_size.                                *)
RoomForTerminator == stage # "returned" => size < max_size

(* The bytes behind start are those of the answer that arrives, all of them *)
(* and in order, also after answers that were dropped, and after a growth   *)
(* of the buffer.                                                           *)
SliceIsAnswer ==
  stage = "body" =>
    /\ size - start = answer.length
    /\ \A i \in 1 .. answer.length : mem[start + i] = Byte(i)

(* The buffer grows in time, and holds the answer where get_segment looks.  *)
BufferHoldsAnswer == RoomForTerminator /\ SliceIsAnswer

(* This thread writes a file with the bytes of one answer, the one that     *)
(* named its strip, from the first byte on: an answer that names no strip,  *)
(* although seq is then the one before, never ends up in a file.  (That two *)
(* threads may both write one file is the race of Paster.)                  *)
FileFromItsAnswer ==
  [][\A s \in Strips : output'[s] # output[s] =>
       /\ answer.strip = s /\ output[s] = NoContent
       /\ \A i \in DOMAIN output'[s] : output'[s][i] = Byte(i)]_recv_vars
=============================================================================
