---------------------------- MODULE PartPipeline ----------------------------
(***************************************************************************)
(* What Lab 3 promises of the NumParts strips of an image, whatever the    *)
(* processes do: each strip is claimed once, passes through one bounded    *)
(* FIFO queue and is stored at most once; nothing else is ever stored.  A  *)
(* strip may be lost, when its request fails, when the server's answer     *)
(* names no strip, or when its file cannot be written.                     *)
(***************************************************************************)
EXTENDS Integers, Sequences

CONSTANTS NumParts,        (* the number of strips of an image             *)
          MaxSize,         (* the capacity of the queue                    *)
          NoSeq            (* the sequence number of an answer without one *)

VARIABLES stage,           (* where each strip is                          *)
          queue            (* the sequence numbers in transit              *)

vars == <<stage, queue>>

Parts  == 0 .. NumParts - 1
Stages == {"todo", "fetching", "queued", "taken", "stored", "lost"}

TypeOK == /\ stage \in [Parts -> Stages]
          /\ queue \in Seq(Parts \cup {NoSeq})
          /\ Len(queue) <= MaxSize

Init == /\ stage = [p \in Parts |-> "todo"]
        /\ queue = <<>>

Move(p, from, to) == /\ stage[p] = from
                     /\ stage' = [stage EXCEPT ![p] = to]

Claim(p) == /\ Move(p, "todo", "fetching")
            /\ UNCHANGED queue

(* The request fails, its answer names no strip, or the file is not written. *)
Lose(p) == /\ Move(p, "fetching", "lost") \/ Move(p, "taken", "lost")
           /\ UNCHANGED queue

Enqueue(p) == /\ Len(queue) < MaxSize
              /\ Move(p, "fetching", "queued")
              /\ queue' = Append(queue, p)

(* An answer that names no strip travels like any other. *)
EnqueueUnnamed == /\ Len(queue) < MaxSize
                  /\ queue' = Append(queue, NoSeq)
                  /\ UNCHANGED stage

Dequeue == /\ queue # <<>>
           /\ queue' = Tail(queue)
           /\ IF Head(queue) = NoSeq
              THEN UNCHANGED stage
              ELSE Move(Head(queue), "queued", "taken")

Store(p) == Move(p, "taken", "stored") /\ UNCHANGED queue

Next == \/ \E p \in Parts : Claim(p) \/ Lose(p) \/ Enqueue(p) \/ Store(p)
        \/ EnqueueUnnamed
        \/ Dequeue

Spec == Init /\ [][Next]_vars
=============================================================================
