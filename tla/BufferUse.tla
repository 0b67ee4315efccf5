----------------------------- MODULE BufferUse -----------------------------
(***************************************************************************)
(* A buf_t under every sequence of buf_append, buf_reserve and buf_drain a *)
(* user may make, as long as the bytes held and the bytes asked for stay   *)
(* within Cap (what one read of the socket can bring in).                  *)
(***************************************************************************)
EXTENDS Buffer

CONSTANTS Data,  (* the byte strings the user appends                      *)
          Cap    (* bound on the bytes held plus the bytes asked for       *)

ASSUME UseAssumption == Cap \in Nat /\ Data \subseteq Seq(Byte)

VARIABLE buf

Init == buf = buf_new

DoAppend(s) == /\ buf.off + Len(s) <= Cap
              /\ buf' = buf_append(buf, s)

DoReserve(n) == /\ buf.off + n <= Cap
              /\ buf' = buf_reserve(buf, n)

DoDrain(n) == buf' = buf_drain(buf, n)

Next == \/ \E s \in Data : DoAppend(s)
        \/ \E n \in 0 .. Cap : DoReserve(n)
        \/ \E n \in 0 .. Cap : DoDrain(n)

Spec == Init /\ [][Next]_buf

-----------------------------------------------------------------------------
(* buf holds a buf_t whose allocation has totallen cells. *)
TypeOK == buf.totallen \in Nat /\ buf \in buf_t(buf.totallen)

(* The pointer and the misalignment that buffer.h keeps side by side agree *)
(* after any mix of drains, alignments and reallocations, and the bytes    *)
(* held never reach past the allocation.                                   *)
Layout == /\ buf.buffer = buf.misalign
          /\ buf.misalign + buf.off <= buf.totallen

(* buf_reserve keeps its promise (buffer.h:54-57) in every reachable       *)
(* state: after it, size more bytes fit behind the ones already held,      *)
(* whichever of its three branches ran.                                    *)
RoomAfterReserve ==
  \A n \in 0 .. Cap :
    buf.off + n <= Cap =>
      LET r == buf_reserve(buf, n)
      IN  r.misalign + r.off + n <= r.totallen

(* However long the stream, a buffer whose user stays within Cap does not  *)
(* creep: the alignment branch of buf_reserve is what stops misalign, and  *)
(* with it the allocation, from growing with the bytes ever drained.       *)
Bounded == buf.totallen <= MinAlloc \/ buf.totallen < 4 * Cap

(* Inductive: the bytes held never exceed what the user may have asked for.*)
(* Bounded alone is not inductive, a step that enlarges the allocation     *)
(* needs the bound on the contents and the gap in front of them.           *)
Inv == WellFormed(buf) /\ buf.off <= Cap /\ Bounded

(* A buf_t is a byte queue: its Contents change only as the queue's do.    *)
(* Reserve, which may move and reallocate everything, changes nothing.     *)
Queue == INSTANCE ByteQueue WITH queue <- Contents(buf)
QueueSpec == Queue!Spec
=============================================================================
