---------------------------- MODULE BufferProofs ----------------------------
(***************************************************************************)
(* Theorems about buf_t: for every first allocation, every set of byte     *)
(* strings and every Cap, the invariants of BufferUse hold and a buf_t is  *)
(* a byte queue.                                                           *)
(***************************************************************************)
EXTENDS BufferUse, BufferLemmas

-----------------------------------------------------------------------------
(* The buffer in use.                                                      *)

LEMMA InitInv == Init => Inv
  BY NewKeeps, UseAssumption, BufferAssumption DEF Init, buf_new, Inv, Bounded

(* What every step does: it keeps the invariant, and it is a step of the   *)
(* byte queue or leaves the contents alone.                                *)
LEMMA StepInv ==
  ASSUME Inv, [Next]_buf
  PROVE  Inv' /\ [Queue!Next]_(Contents(buf))
<1>1. /\ WellFormed(buf) /\ buf.off <= Cap /\ Bounded
      /\ buf.off \in Nat /\ buf.totallen \in Nat /\ Cap \in Nat
  BY UseAssumption DEF Inv, WellFormed, buf_t
<1>2. CASE UNCHANGED buf
  BY <1>1, <1>2 DEF Inv, WellFormed, Bounded, Contents
<1>3. ASSUME NEW s \in Data, DoAppend(s) PROVE Inv' /\ Queue!Next
  <2>1. s \in Seq(Byte) /\ Len(s) \in Nat
    BY UseAssumption, LenProperties
  <2>2. /\ WellFormed(buf') /\ buf'.off = buf.off + Len(s)
        /\ Contents(buf') = Contents(buf) \o s
        /\ \/ buf'.totallen = buf.totallen
           \/ buf'.totallen <= MinAlloc
           \/ buf'.totallen < 4 * (buf.off + Len(s))
    BY <1>1, <1>3, <2>1, AppendKeeps DEF DoAppend
  <2>3. buf.off + Len(s) <= Cap
    BY <1>3 DEF DoAppend
  <2>4. buf'.totallen \in Nat
    BY <2>2 DEF WellFormed
  <2>5. Inv'
    BY <1>1, <2>1, <2>2, <2>3, <2>4, BufferAssumption DEF Inv, Bounded
  <2>6. Len(Contents(buf)) = buf.off
    BY <1>1, ContentsSeq
  <2>7. Queue!Enqueue(s)
    BY <2>2, <2>3, <2>6 DEF Queue!Enqueue
  <2> QED  BY <2>5, <2>7 DEF Queue!Next
<1>4. ASSUME NEW n \in 0 .. Cap, DoReserve(n)
      PROVE  Inv' /\ Contents(buf') = Contents(buf)
  <2>1. /\ WellFormed(buf') /\ buf'.off = buf.off
        /\ Contents(buf') = Contents(buf)
        /\ \/ buf'.totallen = buf.totallen
           \/ buf'.totallen <= MinAlloc
           \/ buf'.totallen < 4 * (buf.off + n)
    <3>1. n \in Nat /\ buf' = buf_reserve(buf, n)  BY <1>4 DEF DoReserve
    <3> QED  BY <1>1, <3>1, ReserveKeeps
  <2>2. buf.off + n <= Cap
    BY <1>4 DEF DoReserve
  <2>3. buf'.totallen \in Nat
    BY <2>1 DEF WellFormed
  <2> QED  BY <1>1, <2>1, <2>2, <2>3, BufferAssumption DEF Inv, Bounded
<1>5. ASSUME NEW n \in 0 .. Cap, DoDrain(n) PROVE Inv' /\ Queue!Next
  <2>1. /\ WellFormed(buf') /\ buf'.off <= buf.off
        /\ buf'.totallen = buf.totallen
        /\ Contents(buf') = SubSeq(Contents(buf), n + 1, Len(Contents(buf)))
    <3>1. n \in Nat /\ buf' = buf_drain(buf, n)  BY <1>5 DEF DoDrain
    <3> QED  BY <1>1, <3>1, DrainKeeps
  <2>2. buf'.off \in Nat
    BY <2>1 DEF WellFormed, buf_t
  <2>3. Inv'
    BY <1>1, <2>1, <2>2 DEF Inv, Bounded
  <2> QED  BY <2>1, <2>3 DEF Queue!Next, Queue!Dequeue
<1> QED  BY <1>2, <1>3, <1>4, <1>5 DEF Next

LEMMA Invariance == Spec => []Inv
<1>1. Inv /\ [Next]_buf => Inv'
  BY StepInv
<1> QED  BY InitInv, <1>1, PTL DEF Spec

(* A buf_t keeps its shape through every sequence of operations.           *)
THEOREM TypeCorrect == Spec => []TypeOK
<1>1. Inv => TypeOK
  BY DEF Inv, TypeOK, WellFormed
<1> QED  BY Invariance, <1>1, PTL

(* The two records of where the contents start never disagree, and the     *)
(* contents never reach past the allocation, for every sequence of         *)
(* operations (buffer.h:37-98).                                            *)
THEOREM LayoutCorrect == Spec => []Layout
<1>1. Inv => Layout
  BY DEF Inv, Layout, WellFormed
<1> QED  BY Invariance, <1>1, PTL

(* In every reachable state buf_reserve(n) makes room for n bytes.         *)
THEOREM ReserveCorrect == Spec => []RoomAfterReserve
<1>1. Inv => RoomAfterReserve
  BY UseAssumption, ReserveKeeps DEF Inv, RoomAfterReserve
<1> QED  BY Invariance, <1>1, PTL

(* A buffer whose user keeps within Cap never grows past the first         *)
(* allocation or four times Cap, however long it is used.                  *)
THEOREM BoundedCorrect == Spec => []Bounded
<1>1. Inv => Bounded
  BY DEF Inv
<1> QED  BY Invariance, <1>1, PTL

(* buffer.h implements a byte queue: nothing is lost, added or reordered   *)
(* by an alignment or a reallocation.                                      *)
THEOREM BufferIsQueue == Spec => QueueSpec
<1>1. Init => Queue!Init
  BY DEF Init, Queue!Init, buf_new, Contents
<1>2. Inv /\ [Next]_buf => [Queue!Next]_(Contents(buf))
  BY StepInv
<1> QED  BY Invariance, <1>1, <1>2, PTL DEF Spec, QueueSpec, Queue!Spec
=============================================================================
