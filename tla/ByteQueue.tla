----------------------------- MODULE ByteQueue -----------------------------
(***************************************************************************)
(* What a buf_t promises its user: a first-in first-out string of bytes.   *)
(* Bytes are appended at the end, removed at the front, and never change   *)
(* or move relative to each other in between.                              *)
(***************************************************************************)
EXTENDS Integers, Sequences

CONSTANTS Data,  (* the byte strings the user appends                      *)
          Cap    (* the most bytes the user keeps in the queue             *)

VARIABLE queue

Init == queue = <<>>

Enqueue(s) == /\ Len(queue) + Len(s) <= Cap
              /\ queue' = queue \o s

Dequeue(n) == queue' = SubSeq(queue, n + 1, Len(queue))

Next == (\E s \in Data : Enqueue(s)) \/ (\E n \in 0 .. Cap : Dequeue(n))

Spec == Init /\ [][Next]_queue
=============================================================================
