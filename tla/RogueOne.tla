------------------------------ MODULE RogueOne ------------------------------
(***************************************************************************)
(* Assignment 2, rogue-one.c: load a file into memory, send all of it over *)
(* a connection, however many calls of send it takes, and print the        *)
(* answer.                                                                 *)
(*                                                                         *)
(* A byte of the file is its position; 0 is a byte that was never read.    *)
(***************************************************************************)
EXTENDS Integers, Sequences

CONSTANTS
  FileSizes,              (* the sizes of deathstarplans.dat considered     *)
  INT_MAX                 (* the largest int                                *)

ASSUME SizeAssumption == FileSizes \subseteq Nat /\ INT_MAX \in Nat

VARIABLES
  plans,                  (* the file, <<>> if there is none                *)
  buf,                    (* the memory of load_plans                       *)
  step,                   (* where main is                                  *)
  bytes_sent,             (* total in sendall                               *)
  wire,                   (* what send has taken                            *)
  outcome                 (* history: what sendall returned                 *)

rogue_vars == <<plans, buf, step, bytes_sent, wire, outcome>>

RogueInit ==
  /\ \E s \in FileSizes : plans = [i \in 1 .. s |-> i]
  /\ buf = <<>>
  /\ step = "load"
  /\ bytes_sent = 0
  /\ wire = <<>>
  /\ outcome = "none"

(* A size as an int: one that does not fit wraps. *)
AsInt(n) == ((n + INT_MAX + 1) % (2 * (INT_MAX + 1))) - (INT_MAX + 1)

(* buf.length, which load_plans sets to the size of the memory.  sendall    *)
(* looks at nothing else, and a negative one ends its loop at once.         *)
length == AsInt(Len(buf))

Stage(from, to) == step = from /\ step' = to

(* load_plans: the result of read is ignored, so the rest of the memory     *)
(* stays 0 when it returns early.                                           *)
LoadPlans ==
  /\ Stage("load", "connect")
  /\ \E r \in 0 .. Len(plans) : buf' = [i \in DOMAIN plans |-> IF i <= r THEN i ELSE 0]
  /\ UNCHANGED <<plans, bytes_sent, wire, outcome>>

(* stat fails and leaves the size what it was: any number of bytes are      *)
(* allocated, or the allocation fails and memset crashes.                   *)
LoadNothing ==
  /\ plans = <<>>
  /\ \/ /\ Stage("load", "connect")
        /\ \E s \in FileSizes : buf' = [i \in 1 .. s |-> 0]
     \/ Stage("load", "crashed") /\ UNCHANGED buf
  /\ UNCHANGED <<plans, bytes_sent, wire, outcome>>

(* getaddrinfo, socket and connect succeed, or one of them fails. *)
Connect ==
  /\ Stage("connect", "sendall") \/ Stage("connect", "exited")
  /\ UNCHANGED <<plans, buf, bytes_sent, wire, outcome>>

(* Faulty: every call of send begins at the start of the buffer. *)
Send_FromStart ==
  /\ step = "sendall" /\ bytes_sent < length
  /\ \E n \in 1 .. length - bytes_sent :
       /\ wire' = wire \o SubSeq(buf, 1, n)
       /\ bytes_sent' = bytes_sent + n
  /\ UNCHANGED <<plans, buf, step, outcome>>

(* send takes at least one byte of what is left. *)
Send ==
  /\ step = "sendall" /\ bytes_sent < length
  /\ \E n \in 1 .. length - bytes_sent :
       /\ wire' = wire \o SubSeq(buf, bytes_sent + 1, bytes_sent + n)
       /\ bytes_sent' = bytes_sent + n
  /\ UNCHANGED <<plans, buf, step, outcome>>

(* send fails: sendall returns -1 and main ends, or SIGPIPE has ended the   *)
(* process, because the server has closed the connection.                   *)
SendFails ==
  /\ step = "sendall" /\ bytes_sent < length
  /\ \/ Stage("sendall", "exited") /\ outcome' = "failed"
     \/ Stage("sendall", "killed") /\ UNCHANGED outcome
  /\ UNCHANGED <<plans, buf, bytes_sent, wire>>

(* The loop ends, and sendall returns 0: n is what the last send took.  If  *)
(* there was nothing to send, send was not called and n is not set.         *)
SentAll ==
  /\ step = "sendall" /\ bytes_sent >= length
  /\ \/ Stage("sendall", "recv") /\ outcome' = "sent"
     \/ length <= 0 /\ Stage("sendall", "exited") /\ outcome' = "failed"
  /\ UNCHANGED <<plans, buf, bytes_sent, wire>>

(* One call of recv: the answer or a part of it is printed, or there is     *)
(* none.  The bytes after it in message are uninitialised, and the print    *)
(* may run past the end when the server sends no terminator.                *)
Receive ==
  /\ Stage("recv", "printed") \/ Stage("recv", "exited") \/ Stage("recv", "crashed")
  /\ UNCHANGED <<plans, buf, bytes_sent, wire, outcome>>

RogueNext ==
  \/ LoadPlans \/ LoadNothing
  \/ Connect
  \/ Send \/ SendFails \/ SentAll
  \/ Receive

RogueSpec == RogueInit /\ [][RogueNext]_rogue_vars

-----------------------------------------------------------------------------
(* However send cuts the data up, the server gets a prefix of the buffer:   *)
(* no byte is sent twice, and none is left out between two calls.  When     *)
(* sendall returns 0 it got the whole buffer if its size fits an int, and   *)
(* that is the file, up to the byte at which load_plans' read returned;     *)
(* main waits for an answer in no other case.                               *)
SendsAllInOrder ==
  /\ wire = SubSeq(buf, 1, bytes_sent)
  /\ outcome = "sent" =>
       /\ Len(buf) <= INT_MAX => Len(wire) = Len(buf)
       /\ \E r \in 0 .. Len(buf) : \A i \in DOMAIN wire : wire[i] = IF i <= r THEN i ELSE 0
  /\ step \in {"recv", "printed"} => outcome = "sent"

(* The client ends: every round of the loop in sendall sends something.     *)
RogueEnds == <>(step \in {"printed", "exited", "killed", "crashed"})
=============================================================================
