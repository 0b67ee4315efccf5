------------------------------- MODULE Buffer -------------------------------
(***************************************************************************)
(* buf_t and its operations (src/buffer.h), the growable byte buffer that  *)
(* fcgiev_process reads a connection into.                                 *)
(*                                                                         *)
(* A buf_t is a record.  The two pointers of the C structure become one    *)
(* number, `buffer', the distance of buf->buffer from buf->orig_buffer;    *)
(* `misalign' is the C field of that name, which the code maintains        *)
(* separately, so that their agreement is something to check.  `mem' is    *)
(* the allocation: one cell per byte, Uninit where nothing was written.    *)
(* A realloc always enlarges the allocation, so `totallen' also identifies *)
(* it: two states with the same totallen hold the same allocation.         *)
(* Sizes are unbounded naturals (size_t never wraps: the largest request   *)
(* the program makes is a few hundred kilobytes).                          *)
(***************************************************************************)
EXTENDS Integers, Sequences

CONSTANTS
  MinAlloc,  (* the first allocation, 256 bytes in the code                *)
  Byte,      (* what a written cell may hold                               *)
  Uninit     (* what a cell holds before it is written                     *)

ASSUME BufferAssumption == MinAlloc \in Nat \ {0} /\ Uninit \notin Byte

Cell == Byte \cup {Uninit}

(* The buf_t structures whose allocation has t bytes. *)
buf_t(t) == [buffer : Nat, misalign : Nat, totallen : {t}, off : Nat,
             mem : [0 .. (t - 1) -> Cell]]

(* The bytes held lie inside the allocation, and the two records of where  *)
(* they start agree.                                                       *)
WellFormed(b) == /\ b.totallen \in Nat
                 /\ b \in buf_t(b.totallen)
                 /\ b.buffer = b.misalign
                 /\ b.misalign + b.off <= b.totallen

BUF_LENGTH(b) == b.off

(* The bytes a buf_t holds, from BUF_DATA on: its value as a byte string.  *)
Contents(b) == [i \in 1 .. b.off |-> b.mem[b.buffer + i - 1]]

buf_new == [buffer |-> 0, misalign |-> 0, totallen |-> 0, off |-> 0,
            mem |-> [i \in 0 .. (0 - 1) |-> Uninit]]

(* Bugs that would be easy to make: the contents stay where they were;     *)
(* the misalignment stays what it was.                                     *)
buf_align_without_move(b) == [b EXCEPT !.buffer = 0, !.misalign = 0]

buf_align_stale(b) ==
  [b EXCEPT !.buffer = 0,
            !.mem    = [i \in DOMAIN b.mem |->
                          IF i < b.off THEN b.mem[b.buffer + i] ELSE b.mem[i]]]

(* memmove the contents to the start of the allocation. *)
buf_align(b) ==
  [b EXCEPT !.buffer   = 0,
            !.misalign = 0,
            !.mem      = [i \in DOMAIN b.mem |->
                            IF i < b.off THEN b.mem[b.buffer + i] ELSE b.mem[i]]]

PowersOfTwo(n) == {d \in 1 .. n : \A p \in 2 .. d : d % p = 0 => p % 2 = 0}

(* while (length < need) length <<= 1, from length = start. *)
GrowTo(start, need) ==
  IF start >= need THEN start
  ELSE CHOOSE l \in {start * d : d \in PowersOfTwo(2 * need)} :
         need <= l /\ l < 2 * need

realloc(b, length) ==
  [b EXCEPT !.totallen = length,
            !.mem      = [i \in 0 .. (length - 1) |->
                            IF i < b.totallen THEN b.mem[i] ELSE Uninit]]

(* Bugs that would be easy to make: the gap in front of the contents not   *)
(* counted; the gap never used again.                                      *)
buf_reserve_short(b, size) ==
  LET need  == b.off + size
      start == IF b.totallen < MinAlloc THEN MinAlloc ELSE b.totallen
  IN  IF b.totallen >= need THEN b
      ELSE IF b.misalign >= size THEN buf_align(b)
      ELSE realloc(IF b.buffer # 0 THEN buf_align(b) ELSE b, GrowTo(start, need))

buf_reserve_creeping(b, size) ==
  LET need  == b.misalign + b.off + size
      start == IF b.totallen < MinAlloc THEN MinAlloc ELSE b.totallen
  IN  IF b.totallen >= need THEN b ELSE realloc(b, GrowTo(start, need))

buf_reserve(b, size) ==
  LET need  == b.misalign + b.off + size
      start == IF b.totallen < MinAlloc THEN MinAlloc ELSE b.totallen
  IN  IF b.totallen >= need THEN b
      ELSE IF b.misalign >= size THEN buf_align(b)
      ELSE realloc(IF b.buffer # 0 THEN buf_align(b) ELSE b, GrowTo(start, need))

(* Copy the bytes s into the allocation, at distance at from its start.    *)
(* This is the memcpy of buf_append and the recv of _read.                 *)
Store(b, at, s) ==
  [b EXCEPT !.mem = [i \in DOMAIN b.mem |->
                       IF i \in at .. (at + Len(s) - 1) THEN s[i - at + 1]
                       ELSE b.mem[i]]]

buf_append(b, s) ==
  LET r == IF b.totallen < b.misalign + b.off + Len(s)
             THEN buf_reserve(b, Len(s)) ELSE b
  IN  [Store(r, r.buffer + r.off, s) EXCEPT !.off = r.off + Len(s)]

(* A bug that would be easy to make: more may be drained than is held.     *)
buf_drain_unchecked(b, len) ==
  [b EXCEPT !.buffer = @ + len, !.misalign = @ + len, !.off = @ - len]

buf_drain(b, len) ==
  IF len >= b.off
    THEN [b EXCEPT !.off = 0, !.buffer = 0, !.misalign = 0]
    ELSE [b EXCEPT !.buffer   = @ + len,
                   !.misalign = @ + len,
                   !.off      = @ - len]
=============================================================================
