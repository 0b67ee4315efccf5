---------------------------- MODULE BufferLemmas ----------------------------
(***************************************************************************)
(* What each operation of buf_t does, for every well-formed buffer: the    *)
(* bytes it holds afterwards, and the room there is behind them.           *)
(***************************************************************************)
EXTENDS Buffer, TLAPS, FiniteSetTheorems, WellFoundedInduction,
        SequenceTheorems

-----------------------------------------------------------------------------
(* The doubling loop of buf_reserve.                                       *)

(* A non-empty set of naturals has a least element: the finite intervals   *)
(* 1..n are well-founded under strict inclusion.                           *)
LEMMA NatLeast ==
  ASSUME NEW T \in SUBSET Nat, T # {}
  PROVE  \E m \in T : \A n \in T : m <= n
<1> DEFINE W == {1 .. n : n \in T}
<1>1. W \subseteq FiniteSubsetsOf(Nat)
  BY FS_Interval DEF FiniteSubsetsOf
<1>2. PICK w \in W : \A y \in W : ~ (<<y, w>> \in StrictSubsetOrdering(Nat))
  <2>1. IsWellFoundedOn(StrictSubsetOrdering(Nat), FiniteSubsetsOf(Nat))
    BY FS_StrictSubsetOrderingWellFounded
  <2>2. W # {}
    OBVIOUS
  <2> QED  BY <1>1, <2>1, <2>2, WFMin
<1>3. PICK m \in T : w = 1 .. m
  OBVIOUS
<1>4. ASSUME NEW n \in T, n < m PROVE FALSE
  <2>1. /\ (1 .. n) \in W
        /\ (1 .. n) \subseteq (1 .. m)
        /\ m \in (1 .. m) /\ m \notin (1 .. n)
    BY <1>4
  <2>2. <<1 .. n, 1 .. m>> \in StrictSubsetOrdering(Nat)
    BY <2>1 DEF StrictSubsetOrdering
  <2> QED  BY <1>2, <1>3, <2>1, <2>2
<1> QED  BY <1>4

(* Doubling a power of two gives a power of two: an odd divisor of 2 * d   *)
(* divides d.                                                              *)
LEMMA PowersOfTwoDouble ==
  ASSUME NEW n \in Nat, NEW d \in PowersOfTwo(n), 2 * d <= n
  PROVE  2 * d \in PowersOfTwo(n)
<1>1. d \in 1 .. n /\ \A p \in 2 .. d : d % p = 0 => p % 2 = 0
  BY DEF PowersOfTwo
<1>2. ASSUME NEW p \in 2 .. (2 * d), (2 * d) % p = 0, p % 2 # 0 PROVE FALSE
  <2>1. PICK q \in Nat : 2 * d = p * q
    <3>1. 2 * d = p * ((2 * d) \div p) + ((2 * d) % p)  BY <1>1
    <3>2. (2 * d) \div p \in Nat  BY <1>1
    <3> QED  BY <3>1, <3>2, <1>1, <1>2
  <2>2. PICK a \in Nat : p = 2 * a + 1
    <3>1. p = 2 * (p \div 2) + (p % 2) /\ p % 2 \in 0 .. 1 /\ p \div 2 \in Nat
      BY <1>2
    <3> QED  BY <3>1, <1>2
  <2>3. q = 2 * (d - a * q)
    <3>1. a * q \in Nat  BY <2>1, <2>2
    <3>2. p * q = 2 * (a * q) + q  BY <2>1, <2>2
    <3> QED  BY <2>1, <3>1, <3>2, <1>1
  <2> DEFINE h == d - a * q
  <2>4. h \in Int /\ q = 2 * h  BY <2>3, <2>1, <2>2, <1>1
  <2>5. d = p * h
    <3>1. p * q = 2 * (p * h)  BY <2>4, <1>2
    <3>2. p * h \in Int  BY <2>4, <1>2
    <3> QED  BY <2>1, <3>1, <3>2, <1>1
  <2> HIDE DEF h
  <2>6. p <= d /\ d % p = 0
    <3>1. h >= 1  BY <2>4, <2>5, <2>1, <1>1, <1>2
    <3>2. p <= p * h  BY <3>1, <2>4, <1>2
    <3>3. (p * h) % p = 0  BY <3>1, <2>4, <1>2
    <3> QED  BY <2>5, <3>2, <3>3
  <2> QED  BY <2>6, <1>1, <1>2
<1> QED  BY <1>1, <1>2 DEF PowersOfTwo

(* The loop `while (length < need) length <<= 1' ends, with the first      *)
(* doubling of length that is large enough: at least need, less than twice *)
(* need if it doubled at all (buffer.h:60-66).                             *)
LEMMA GrowToBounds ==
  ASSUME NEW start \in Nat \ {0}, NEW need \in Nat
  PROVE  /\ GrowTo(start, need) \in Nat
         /\ start <= GrowTo(start, need)
         /\ need <= GrowTo(start, need)
         /\ start < need => GrowTo(start, need) < 2 * need
<1>1. CASE start >= need
  BY <1>1 DEF GrowTo
<1>2. CASE start < need
  <2> DEFINE P == PowersOfTwo(2 * need)
             T == {d \in P : start * d < need}
             C == {2 * need - d : d \in T}
  <2>1. \A d \in P : d \in 1 .. (2 * need)
    BY DEF PowersOfTwo
  <2>2. 1 \in T
    BY <1>2 DEF PowersOfTwo
  <2>3. \A d \in T : d < need
    <3> SUFFICES ASSUME NEW d \in T PROVE d < need
      OBVIOUS
    <3>1. d \in Nat /\ d >= 1 /\ start * d < need  BY <2>1
    <3>2. d <= start * d  BY <3>1
    <3> QED  BY <3>1, <3>2
  <2>4. C \in SUBSET Nat /\ C # {}
    BY <2>1, <2>2, <2>3
  <2>5. PICK c \in C : \A x \in C : c <= x
    <3> HIDE DEF C
    <3> QED  BY <2>4, NatLeast
  <2>6. PICK m \in T : \A d \in T : d <= m
    <3>1. PICK m \in T : c = 2 * need - m  OBVIOUS
    <3>2. \A d \in T : 2 * need - m <= 2 * need - d  BY <2>5, <3>1
    <3>3. \A d \in T : d \in Nat  BY <2>1
    <3> QED  BY <3>2, <3>3
  <2>7. /\ m \in Nat /\ m >= 1 /\ m < need /\ start * m < need
        /\ m \in P
    BY <2>1, <2>3, <2>6
  <2>8. 2 * m \in P
    BY <2>7, PowersOfTwoDouble
  <2>9. start * (2 * m) = 2 * (start * m) /\ start * m \in Nat /\ start <= start * m
    BY <2>7
  <2>10. need <= start * (2 * m)
    <3>1. SUFFICES ASSUME ~ (need <= start * (2 * m)) PROVE FALSE
      OBVIOUS
    <3>2. 2 * m \in T
      BY <2>8, <2>9, <3>1
    <3>3. 2 * m <= m
      BY <2>6, <3>2
    <3> QED  BY <2>7, <3>3
  <2> DEFINE L == {start * d : d \in P}
  <2>11. \E l \in L : need <= l /\ l < 2 * need
    <3>1. start * (2 * m) \in L  BY <2>8
    <3>2. start * (2 * m) < 2 * need  BY <2>7, <2>9
    <3> QED  BY <2>10, <3>1, <3>2
  <2>12. GrowTo(start, need) = CHOOSE l \in L : need <= l /\ l < 2 * need
    <3>1. ~ (start >= need)  BY <1>2
    <3> QED  BY <3>1, Zenon DEF GrowTo
  <2>13. \A l \in L : l \in Nat
    BY <2>1
  <2> HIDE DEF L
  <2>14. GrowTo(start, need) \in L /\ need <= GrowTo(start, need)
         /\ GrowTo(start, need) < 2 * need
    BY <2>11, <2>12
  <2> QED  BY <1>2, <2>13, <2>14
<1> QED  BY <1>1, <1>2

-----------------------------------------------------------------------------
(* The operations, one by one.                                             *)

(* Moving the contents to the start of the allocation keeps them.          *)
LEMMA AlignKeeps ==
  ASSUME NEW b, WellFormed(b)
  PROVE  LET r == buf_align(b)
         IN  /\ WellFormed(r) /\ Contents(r) = Contents(b)
             /\ r.off = b.off /\ r.totallen = b.totallen
             /\ r.buffer = 0 /\ r.misalign = 0
<1> DEFINE r == buf_align(b)
<1>1. /\ b.totallen \in Nat /\ b.off \in Nat /\ b.buffer \in Nat
      /\ b.misalign = b.buffer /\ b.buffer + b.off <= b.totallen
      /\ b = [buffer |-> b.buffer, misalign |-> b.misalign,
              totallen |-> b.totallen, off |-> b.off, mem |-> b.mem]
      /\ b.mem \in [0 .. (b.totallen - 1) -> Cell]
  BY DEF WellFormed, buf_t
<1> DEFINE m == [i \in DOMAIN b.mem |->
                    IF i < b.off THEN b.mem[b.buffer + i] ELSE b.mem[i]]
<1>2. /\ r.buffer = 0 /\ r.misalign = 0
      /\ r.off = b.off /\ r.totallen = b.totallen /\ r.mem = m
      /\ r = [buffer |-> r.buffer, misalign |-> r.misalign,
              totallen |-> r.totallen, off |-> r.off, mem |-> r.mem]
  <2>1. r = [b EXCEPT !.buffer = 0, !.misalign = 0, !.mem = m]
    BY DEF buf_align
  <2> HIDE DEF m, r
  <2> QED  BY <1>1, <2>1
<1> HIDE DEF r
<1>3. r.mem \in [0 .. (b.totallen - 1) -> Cell]
  <2>1. \A i \in 0 .. (b.totallen - 1) : i < b.off => b.buffer + i \in 0 .. (b.totallen - 1)
    BY <1>1
  <2> QED  BY <1>1, <1>2, <2>1
<1>4. WellFormed(r)
  BY <1>1, <1>2, <1>3 DEF WellFormed, buf_t
<1>5. Contents(r) = Contents(b)
  <2>1. \A i \in 1 .. b.off : r.mem[r.buffer + i - 1] = b.mem[b.buffer + i - 1]
    <3> SUFFICES ASSUME NEW i \in 1 .. b.off
                 PROVE  r.mem[i - 1] = b.mem[b.buffer + i - 1]
      BY <1>2, <1>1
    <3>1. i - 1 \in 0 .. (b.totallen - 1) /\ i - 1 < b.off  BY <1>1
    <3>2. r.mem[i - 1] = b.mem[b.buffer + (i - 1)]  BY <1>1, <1>2, <3>1
    <3>3. b.buffer + (i - 1) = b.buffer + i - 1  BY <1>1
    <3> QED  BY <3>2, <3>3
  <2> QED  BY <1>2, <2>1 DEF Contents
<1> QED  BY <1>2, <1>4, <1>5 DEF r

(* realloc to a larger size keeps the contents.                            *)
LEMMA ReallocKeeps ==
  ASSUME NEW b, WellFormed(b), NEW length \in Nat, b.totallen <= length
  PROVE  LET r == realloc(b, length)
         IN  /\ WellFormed(r) /\ Contents(r) = Contents(b)
             /\ r.off = b.off /\ r.totallen = length
             /\ r.misalign = b.misalign
<1> DEFINE r == realloc(b, length)
<1>1. /\ b.totallen \in Nat /\ b.off \in Nat /\ b.buffer \in Nat
      /\ b.misalign = b.buffer /\ b.buffer + b.off <= b.totallen
      /\ b = [buffer |-> b.buffer, misalign |-> b.misalign,
              totallen |-> b.totallen, off |-> b.off, mem |-> b.mem]
      /\ b.mem \in [0 .. (b.totallen - 1) -> Cell]
  BY DEF WellFormed, buf_t
<1> DEFINE m == [i \in 0 .. (length - 1) |->
                    IF i < b.totallen THEN b.mem[i] ELSE Uninit]
<1>2. /\ r.buffer = b.buffer /\ r.misalign = b.misalign
      /\ r.off = b.off /\ r.totallen = length /\ r.mem = m
      /\ r = [buffer |-> r.buffer, misalign |-> r.misalign,
              totallen |-> r.totallen, off |-> r.off, mem |-> r.mem]
  <2>1. r = [b EXCEPT !.totallen = length, !.mem = m]
    BY DEF realloc
  <2> HIDE DEF m, r
  <2> QED  BY <1>1, <2>1
<1> HIDE DEF r
<1>3. r.mem \in [0 .. (length - 1) -> Cell]
  BY <1>1, <1>2 DEF Cell
<1>4. WellFormed(r)
  BY <1>1, <1>2, <1>3 DEF WellFormed, buf_t
<1>5. Contents(r) = Contents(b)
  <2>1. \A i \in 1 .. b.off : r.mem[r.buffer + i - 1] = b.mem[b.buffer + i - 1]
    <3> TAKE i \in 1 .. b.off
    <3>1. b.buffer + i - 1 \in 0 .. (length - 1) /\ b.buffer + i - 1 < b.totallen
      BY <1>1
    <3> QED  BY <1>2, <3>1
  <2> QED  BY <1>2, <2>1 DEF Contents
<1> QED  BY <1>2, <1>4, <1>5 DEF r

(* buf_reserve keeps the contents, makes room, and enlarges the allocation *)
(* only when the gap in front of the contents is smaller than the room.    *)
LEMMA ReserveKeeps ==
  ASSUME NEW b, WellFormed(b), NEW n \in Nat
  PROVE  LET r == buf_reserve(b, n)
         IN  /\ WellFormed(r) /\ Contents(r) = Contents(b) /\ r.off = b.off
             /\ r.misalign + r.off + n <= r.totallen
             /\ r.misalign <= b.misalign /\ b.totallen <= r.totallen
             /\ \/ r.totallen = b.totallen
                \/ r.totallen <= MinAlloc
                \/ r.totallen < 4 * (b.off + n)
<1> DEFINE r     == buf_reserve(b, n)
           need  == b.misalign + b.off + n
           start == IF b.totallen < MinAlloc THEN MinAlloc ELSE b.totallen
           a     == IF b.buffer # 0 THEN buf_align(b) ELSE b
           size  == GrowTo(start, need)
<1>1. /\ b.totallen \in Nat /\ b.off \in Nat /\ b.misalign \in Nat
      /\ b.misalign = b.buffer /\ b.misalign + b.off <= b.totallen
  BY DEF WellFormed, buf_t
<1>2. CASE b.totallen >= need
  <2>1. r = b  BY <1>2 DEF buf_reserve
  <2> QED  BY <1>1, <1>2, <2>1
<1>3. CASE b.totallen < need /\ b.misalign >= n
  <2>1. r = buf_align(b)  BY <1>1, <1>3 DEF buf_reserve
  <2> HIDE DEF r
  <2>2. /\ WellFormed(r) /\ Contents(r) = Contents(b)
        /\ r.off = b.off /\ r.totallen = b.totallen /\ r.misalign = 0
    BY <2>1, AlignKeeps
  <2>3. /\ r.misalign + r.off + n <= r.totallen
        /\ r.misalign <= b.misalign /\ b.totallen <= r.totallen
    BY <1>1, <1>3, <2>2
  <2> QED  BY <2>2, <2>3 DEF r
<1>4. CASE b.totallen < need /\ b.misalign < n
  <2>1. r = realloc(a, size)  BY <1>1, <1>4 DEF buf_reserve
  <2>2. /\ WellFormed(a) /\ Contents(a) = Contents(b)
        /\ a.off = b.off /\ a.totallen = b.totallen /\ a.misalign = 0
    BY <1>1, AlignKeeps
  <2>3. start \in Nat \ {0} /\ need \in Nat /\ b.totallen <= start
        /\ (start = MinAlloc \/ start < need)
    BY <1>1, <1>4, BufferAssumption
  <2> HIDE DEF r, a, start
  <2>4. size \in Nat /\ start <= size /\ need <= size
        /\ (start < need => size < 2 * need)
    BY <2>3, GrowToBounds
  <2>5. start >= need => size = start
    BY <2>3 DEF GrowTo
  <2> HIDE DEF size
  <2>6. /\ WellFormed(r) /\ Contents(r) = Contents(b) /\ r.off = b.off
        /\ r.totallen = size /\ r.misalign = 0
    BY <1>1, <2>1, <2>2, <2>3, <2>4, ReallocKeeps
  <2>7. /\ r.misalign + r.off + n <= r.totallen
        /\ r.misalign <= b.misalign /\ b.totallen <= r.totallen
    BY <1>1, <2>3, <2>4, <2>6
  <2>8. r.totallen <= MinAlloc \/ r.totallen < 4 * (b.off + n)
    BY <1>1, <1>4, <2>3, <2>4, <2>5, <2>6
  <2> QED  BY <2>6, <2>7, <2>8 DEF r
<1> QED  BY <1>1, <1>2, <1>3, <1>4

(* The bytes held, as a string.                                            *)
LEMMA ContentsSeq ==
  ASSUME NEW b, WellFormed(b)
  PROVE  /\ Contents(b) \in Seq(Cell) /\ Len(Contents(b)) = b.off
         /\ \A i \in 1 .. b.off : Contents(b)[i] = b.mem[b.buffer + i - 1]
<1>1. /\ b.totallen \in Nat /\ b.off \in Nat /\ b.buffer \in Nat
      /\ b.buffer + b.off <= b.totallen
      /\ b.mem \in [0 .. (b.totallen - 1) -> Cell]
  BY DEF WellFormed, buf_t
<1>2. \A i \in 1 .. b.off : b.mem[b.buffer + i - 1] \in Cell
  <2> TAKE i \in 1 .. b.off
  <2>1. b.buffer + i - 1 \in 0 .. (b.totallen - 1)  BY <1>1
  <2> QED  BY <1>1, <2>1
<1>3. Contents(b) \in [1 .. b.off -> Cell]
  BY <1>2 DEF Contents
<1>4. Contents(b) \in Seq(Cell)
  BY <1>1, <1>3, SeqDef
<1>5. Len(Contents(b)) = b.off
  <2>1. DOMAIN Contents(b) = 1 .. Len(Contents(b)) /\ Len(Contents(b)) \in Nat
    BY <1>4, LenProperties
  <2>2. 1 .. Len(Contents(b)) = 1 .. b.off
    BY <1>3, <2>1
  <2> QED  BY <1>1, <2>1, <2>2
<1> QED  BY <1>4, <1>5 DEF Contents

(* buf_append adds the bytes at the end, whatever it had to move.          *)
LEMMA AppendKeeps ==
  ASSUME NEW b, WellFormed(b), NEW s \in Seq(Byte)
  PROVE  LET r == buf_append(b, s)
         IN  /\ WellFormed(r) /\ r.off = b.off + Len(s)
             /\ Contents(r) = Contents(b) \o s
             /\ \/ r.totallen = b.totallen
                \/ r.totallen <= MinAlloc
                \/ r.totallen < 4 * (b.off + Len(s))
<1> DEFINE a == IF b.totallen < b.misalign + b.off + Len(s)
                  THEN buf_reserve(b, Len(s)) ELSE b
           m == [i \in DOMAIN a.mem |->
                   IF i \in (a.buffer + a.off) .. (a.buffer + a.off + Len(s) - 1)
                     THEN s[i - (a.buffer + a.off) + 1] ELSE a.mem[i]]
           r == buf_append(b, s)
<1>1. Len(s) \in Nat /\ s \in Seq(Cell) /\ \A i \in 1 .. Len(s) : s[i] \in Byte
  BY LenProperties, ElementOfSeq, SeqMonotonic DEF Cell
<1>2. /\ WellFormed(a) /\ Contents(a) = Contents(b) /\ a.off = b.off
      /\ a.misalign + a.off + Len(s) <= a.totallen
      /\ \/ a.totallen = b.totallen
         \/ a.totallen <= MinAlloc
         \/ a.totallen < 4 * (b.off + Len(s))
  <2>1. CASE b.totallen < b.misalign + b.off + Len(s)
    <3>1. a = buf_reserve(b, Len(s))  BY <2>1
    <3> HIDE DEF a
    <3> QED  BY <1>1, <3>1, ReserveKeeps
  <2>2. CASE ~ (b.totallen < b.misalign + b.off + Len(s))
    <3>1. b.totallen \in Nat /\ b.off \in Nat /\ b.misalign \in Nat
      BY DEF WellFormed, buf_t
    <3>2. a = b  BY <2>2
    <3> HIDE DEF a
    <3> QED  BY <1>1, <2>2, <3>1, <3>2
  <2> QED  BY <2>1, <2>2
<1>3. r = [[a EXCEPT !.mem = m] EXCEPT !.off = a.off + Len(s)]
  BY DEF buf_append, Store
<1> HIDE DEF a
<1>4. /\ a.totallen \in Nat /\ a.off \in Nat /\ a.buffer \in Nat
      /\ a.misalign = a.buffer
      /\ a = [buffer |-> a.buffer, misalign |-> a.misalign,
              totallen |-> a.totallen, off |-> a.off, mem |-> a.mem]
      /\ a.mem \in [0 .. (a.totallen - 1) -> Cell]
  BY <1>2 DEF WellFormed, buf_t
<1>5. /\ r.buffer = a.buffer /\ r.misalign = a.misalign
      /\ r.totallen = a.totallen /\ r.off = a.off + Len(s) /\ r.mem = m
      /\ r = [buffer |-> r.buffer, misalign |-> r.misalign,
              totallen |-> r.totallen, off |-> r.off, mem |-> r.mem]
  <2> HIDE DEF m, r
  <2> QED  BY <1>3, <1>4
<1> HIDE DEF r
<1>6. m \in [0 .. (a.totallen - 1) -> Cell]
  BY <1>1, <1>4 DEF Cell
<1>7. \A j \in 1 .. (a.off + Len(s)) :
        m[a.buffer + j - 1] = IF j <= a.off THEN a.mem[a.buffer + j - 1]
                              ELSE s[j - a.off]
  <2> SUFFICES ASSUME NEW j \in 1 .. (a.off + Len(s))
               PROVE  m[a.buffer + j - 1] = IF j <= a.off THEN a.mem[a.buffer + j - 1]
                                            ELSE s[j - a.off]
    OBVIOUS
  <2> DEFINE k == a.buffer + j - 1
             lo == a.buffer + a.off
  <2>1. k \in DOMAIN a.mem
    BY <1>1, <1>2, <1>4
  <2>2. m[k] = IF k \in lo .. (lo + Len(s) - 1) THEN s[k - lo + 1] ELSE a.mem[k]
    BY <2>1
  <2>3. k \in lo .. (lo + Len(s) - 1) <=> ~ (j <= a.off)
    BY <1>1, <1>4
  <2>4. k - lo + 1 = j - a.off
    BY <1>4
  <2> HIDE DEF k, lo, m
  <2>5. m[k] = IF j <= a.off THEN a.mem[k] ELSE s[j - a.off]
    BY <2>2, <2>3, <2>4
  <2> QED  BY <2>5 DEF k
<1> HIDE DEF m
<1>8. WellFormed(r)
  BY <1>1, <1>2, <1>4, <1>5, <1>6 DEF WellFormed, buf_t
<1>9. Contents(r) = Contents(b) \o s
  <2> DEFINE x == Contents(r)
             z == Contents(a)
             y == z \o s
  <2>1. z \in Seq(Cell) /\ Len(z) = a.off
        /\ \A i \in 1 .. a.off : z[i] = a.mem[a.buffer + i - 1]
    BY <1>2, ContentsSeq
  <2>2. x \in Seq(Cell) /\ Len(x) = r.off
        /\ \A i \in 1 .. r.off : x[i] = r.mem[r.buffer + i - 1]
    BY <1>8, ContentsSeq
  <2> HIDE DEF x, z
  <2>3. y \in Seq(Cell) /\ Len(y) = Len(z) + Len(s)
        /\ \A i \in 1 .. (Len(z) + Len(s)) :
             y[i] = IF i <= Len(z) THEN z[i] ELSE s[i - Len(z)]
    BY <1>1, <2>1, ConcatProperties
  <2> HIDE DEF y
  <2>4. ASSUME NEW i \in 1 .. (a.off + Len(s)) PROVE x[i] = y[i]
    <3>1. x[i] = IF i <= a.off THEN a.mem[a.buffer + i - 1] ELSE s[i - a.off]
      BY <1>5, <1>7, <2>2
    <3>2. y[i] = IF i <= a.off THEN z[i] ELSE s[i - a.off]
      BY <2>1, <2>3
    <3>3. i <= a.off => z[i] = a.mem[a.buffer + i - 1]
      BY <1>1, <1>4, <2>1
    <3> QED  BY <3>1, <3>2, <3>3
  <2>5. Len(x) = a.off + Len(s) /\ Len(y) = Len(x)
    BY <1>5, <2>1, <2>2, <2>3
  <2>6. x = y
    BY <2>2, <2>3, <2>4, <2>5, SeqEqual
  <2> QED  BY <1>2, <2>6 DEF x, y, z
<1> QED  BY <1>2, <1>5, <1>8, <1>9 DEF r

(* buf_drain removes the bytes from the front, and all of them when asked  *)
(* for more than it holds.                                                 *)
LEMMA DrainKeeps ==
  ASSUME NEW b, WellFormed(b), NEW n \in Nat
  PROVE  LET r == buf_drain(b, n)
         IN  /\ WellFormed(r) /\ r.off <= b.off /\ r.totallen = b.totallen
             /\ r.off = IF n >= b.off THEN 0 ELSE b.off - n
             /\ Contents(r) = SubSeq(Contents(b), n + 1, Len(Contents(b)))
<1> DEFINE r == buf_drain(b, n)
<1>1. /\ b.totallen \in Nat /\ b.off \in Nat /\ b.buffer \in Nat
      /\ b.misalign = b.buffer /\ b.buffer + b.off <= b.totallen
      /\ b = [buffer |-> b.buffer, misalign |-> b.misalign,
              totallen |-> b.totallen, off |-> b.off, mem |-> b.mem]
      /\ b.mem \in [0 .. (b.totallen - 1) -> Cell]
  BY DEF WellFormed, buf_t
<1>2. /\ Contents(b) \in Seq(Cell) /\ Len(Contents(b)) = b.off
      /\ \A i \in 1 .. b.off : Contents(b)[i] = b.mem[b.buffer + i - 1]
  BY ContentsSeq
<1>3. CASE n >= b.off
  <2>1. /\ r.buffer = 0 /\ r.misalign = 0 /\ r.off = 0
        /\ r.totallen = b.totallen /\ r.mem = b.mem
        /\ r = [buffer |-> r.buffer, misalign |-> r.misalign,
                totallen |-> r.totallen, off |-> r.off, mem |-> r.mem]
    BY <1>1, <1>3 DEF buf_drain
  <2> HIDE DEF r
  <2>2. WellFormed(r)  BY <1>1, <2>1 DEF WellFormed, buf_t
  <2>3. SubSeq(Contents(b), n + 1, Len(Contents(b))) = <<>>
    BY <1>1, <1>2, <1>3, SubSeqEmpty
  <2>4. Contents(r) = <<>>
    BY <2>1, <2>2, ContentsSeq, EmptySeq
  <2>5. Contents(r) = SubSeq(Contents(b), n + 1, Len(Contents(b)))
    BY <2>3, <2>4
  <2> QED  BY <1>1, <1>3, <2>1, <2>2, <2>5 DEF r
<1>4. CASE n < b.off
  <2>1. /\ r.buffer = b.buffer + n /\ r.misalign = b.misalign + n
        /\ r.off = b.off - n /\ r.totallen = b.totallen /\ r.mem = b.mem
        /\ r = [buffer |-> r.buffer, misalign |-> r.misalign,
                totallen |-> r.totallen, off |-> r.off, mem |-> r.mem]
    <3>1. r = [b EXCEPT !.buffer = b.buffer + n, !.misalign = b.misalign + n,
                        !.off = b.off - n]
      <4>1. ~ (n >= b.off)  BY <1>1, <1>4
      <4> QED  BY <1>1, <4>1 DEF buf_drain
    <3> HIDE DEF r
    <3> QED  BY <1>1, <3>1
  <2> HIDE DEF r
  <2>2. WellFormed(r)  BY <1>1, <1>4, <2>1 DEF WellFormed, buf_t
  <2> DEFINE x == Contents(r)
             y == SubSeq(Contents(b), n + 1, Len(Contents(b)))
  <2>3. x \in Seq(Cell) /\ Len(x) = b.off - n
        /\ \A i \in 1 .. (b.off - n) : x[i] = b.mem[b.buffer + n + i - 1]
    BY <2>1, <2>2, ContentsSeq
  <2>4. y \in Seq(Cell) /\ Len(y) = b.off - n
        /\ \A i \in 1 .. (b.off - n) : y[i] = Contents(b)[n + 1 + i - 1]
    <3>1. \A i \in (n + 1) .. b.off : Contents(b)[i] \in Cell
      BY <1>1, <1>2, ElementOfSeq
    <3> DEFINE lo == n + 1
               c  == Contents(b)
    <3>2. /\ y \in Seq(Cell)
          /\ Len(y) = IF lo <= b.off THEN b.off - lo + 1 ELSE 0
          /\ \A i \in 1 .. (b.off - lo + 1) : y[i] = c[lo + i - 1]
      <4>1. /\ lo \in Int /\ b.off \in Int
            /\ \A i \in lo .. b.off : c[i] \in Cell
            /\ y = SubSeq(c, lo, b.off)
        BY <1>1, <1>2, <3>1
      <4> HIDE DEF lo, y, c
      <4> QED  BY <4>1, SubSeqProperties
    <3>3. b.off - lo + 1 = b.off - n /\ lo <= b.off
      BY <1>1, <1>4
    <3> QED  BY <3>2, <3>3
  <2>5. ASSUME NEW i \in 1 .. (b.off - n) PROVE x[i] = y[i]
    <3>1. n + 1 + i - 1 = n + i /\ n + i \in 1 .. b.off
          /\ b.buffer + (n + i) - 1 = b.buffer + n + i - 1
      BY <1>1, <1>4
    <3> HIDE DEF x, y
    <3> QED  BY <1>2, <2>3, <2>4, <3>1
  <2> HIDE DEF x, y
  <2>6. x = y
    BY <2>3, <2>4, <2>5, SeqEqual
  <2> QED  BY <1>1, <1>4, <2>1, <2>2, <2>6 DEF r, x, y
<1> QED  BY <1>1, <1>3, <1>4

(* Two drains are one.                                                     *)
LEMMA DrainTwice ==
  ASSUME NEW b, WellFormed(b), NEW m \in Nat, NEW l \in Nat
  PROVE  buf_drain(buf_drain(b, m), l) = buf_drain(b, m + l)
<1>1. /\ b.totallen \in Nat /\ b.off \in Nat /\ b.buffer \in Nat
      /\ b.misalign \in Nat
      /\ b = [buffer |-> b.buffer, misalign |-> b.misalign,
              totallen |-> b.totallen, off |-> b.off, mem |-> b.mem]
  BY DEF WellFormed, buf_t
<1> DEFINE r == buf_drain(b, m)
           empty == [buffer |-> 0, misalign |-> 0, totallen |-> b.totallen,
                     off |-> 0, mem |-> b.mem]
<1>2. CASE m >= b.off
  <2>1. r = empty
    BY <1>1, <1>2 DEF buf_drain
  <2>2. buf_drain(empty, l) = empty
    <3>1. /\ empty.off = 0 /\ empty.buffer = 0 /\ empty.misalign = 0
          /\ l >= empty.off
          /\ empty = [buffer |-> empty.buffer, misalign |-> empty.misalign,
                      totallen |-> empty.totallen, off |-> empty.off, mem |-> empty.mem]
      OBVIOUS
    <3> HIDE DEF empty
    <3>2. [empty EXCEPT !.off = 0, !.buffer = 0, !.misalign = 0] = empty
      BY <3>1
    <3> QED
      BY <3>1, <3>2 DEF buf_drain
  <2>3. m + l >= b.off
    BY <1>1, <1>2
  <2>4. buf_drain(b, m + l) = empty
    BY <1>1, <2>3 DEF buf_drain
  <2> QED
    BY <2>1, <2>2, <2>4
<1>3. CASE ~ (m >= b.off)
  <2>1. r = [buffer |-> b.buffer + m, misalign |-> b.misalign + m,
             totallen |-> b.totallen, off |-> b.off - m, mem |-> b.mem]
    BY <1>1, <1>3 DEF buf_drain
  <2>2. CASE l >= b.off - m
    <3>1. buf_drain(r, l) = empty
      BY <2>1, <2>2 DEF buf_drain
    <3>2. m + l >= b.off
      BY <1>1, <2>2
    <3>3. buf_drain(b, m + l) = empty
      BY <1>1, <3>2 DEF buf_drain
    <3> QED
      BY <3>1, <3>3
  <2>3. CASE ~ (l >= b.off - m)
    <3>1. buf_drain(r, l) = [buffer |-> b.buffer + m + l, misalign |-> b.misalign + m + l,
                             totallen |-> b.totallen, off |-> b.off - m - l, mem |-> b.mem]
      BY <2>1, <2>3 DEF buf_drain
    <3>2. ~ (m + l >= b.off)
      BY <1>1, <2>3
    <3>3. buf_drain(b, m + l) =
            [buffer |-> b.buffer + (m + l), misalign |-> b.misalign + (m + l),
             totallen |-> b.totallen, off |-> b.off - (m + l), mem |-> b.mem]
      BY <1>1, <3>2 DEF buf_drain
    <3>4. /\ b.buffer + m + l = b.buffer + (m + l)
          /\ b.misalign + m + l = b.misalign + (m + l)
          /\ b.off - m - l = b.off - (m + l)
      BY <1>1
    <3> QED
      BY <3>1, <3>3, <3>4
  <2> QED
    BY <2>2, <2>3
<1> QED
  BY <1>2, <1>3

(* A new buf_t holds nothing.                                              *)
LEMMA NewKeeps == WellFormed(buf_new) /\ buf_new.off = 0 /\ Contents(buf_new) = <<>>
<1> DEFINE b == buf_new
<1>1. /\ b.buffer = 0 /\ b.misalign = 0 /\ b.totallen = 0 /\ b.off = 0
      /\ b = [buffer |-> b.buffer, misalign |-> b.misalign,
              totallen |-> b.totallen, off |-> b.off, mem |-> b.mem]
      /\ b.mem \in [0 .. (0 - 1) -> Cell]
  BY DEF buf_new
<1>2. WellFormed(b)
  BY <1>1 DEF WellFormed, buf_t
<1> HIDE DEF b
<1>3. Contents(b) = <<>>
  BY <1>1, <1>2, ContentsSeq, EmptySeq
<1> QED  BY <1>1, <1>2, <1>3 DEF b

(* Bytes stored at BUF_DATA of an empty buffer, and in any case within the *)
(* room there is.                                                          *)
LEMMA StoreKeeps ==
  ASSUME NEW b, WellFormed(b), NEW s \in Seq(Byte),
         b.misalign + b.off + Len(s) <= b.totallen
  PROVE  LET r == [Store(b, b.buffer, s) EXCEPT !.off = @ + Len(s)]
         IN  /\ WellFormed(r) /\ r.off = b.off + Len(s)
             /\ r.totallen = b.totallen /\ r.misalign = b.misalign
             /\ b.off = 0 => Contents(r) = s
<1> DEFINE m == [i \in DOMAIN b.mem |->
                   IF i \in b.buffer .. (b.buffer + Len(s) - 1)
                     THEN s[i - b.buffer + 1] ELSE b.mem[i]]
           r == [Store(b, b.buffer, s) EXCEPT !.off = @ + Len(s)]
<1>1. /\ Len(s) \in Nat /\ s \in Seq(Cell)
      /\ \A i \in 1 .. Len(s) : s[i] \in Cell
  BY LenProperties, ElementOfSeq, SeqMonotonic DEF Cell
<1>2. /\ b.totallen \in Nat /\ b.off \in Nat /\ b.buffer \in Nat
      /\ b.misalign = b.buffer
      /\ b = [buffer |-> b.buffer, misalign |-> b.misalign,
              totallen |-> b.totallen, off |-> b.off, mem |-> b.mem]
      /\ b.mem \in [0 .. (b.totallen - 1) -> Cell]
  BY DEF WellFormed, buf_t
<1>3. /\ r.buffer = b.buffer /\ r.misalign = b.misalign
      /\ r.totallen = b.totallen /\ r.off = b.off + Len(s) /\ r.mem = m
      /\ r = [buffer |-> r.buffer, misalign |-> r.misalign,
              totallen |-> r.totallen, off |-> r.off, mem |-> r.mem]
  <2>1. r = [[b EXCEPT !.mem = m] EXCEPT !.off = b.off + Len(s)]
    BY <1>2 DEF Store
  <2> HIDE DEF m, r
  <2> QED  BY <1>2, <2>1
<1> HIDE DEF r
<1>4. m \in [0 .. (b.totallen - 1) -> Cell]
  BY <1>1, <1>2
<1>5. \A j \in 1 .. Len(s) : m[b.buffer + j - 1] = s[j]
  <2> SUFFICES ASSUME NEW j \in 1 .. Len(s) PROVE m[b.buffer + j - 1] = s[j]
    OBVIOUS
  <2> DEFINE i == b.buffer + j - 1
  <2>1. i \in DOMAIN b.mem /\ i \in b.buffer .. (b.buffer + Len(s) - 1)
    BY <1>1, <1>2
  <2>2. i - b.buffer + 1 = j
    BY <1>1, <1>2
  <2> HIDE DEF i
  <2>3. m[i] = s[i - b.buffer + 1]
    BY <2>1
  <2> QED  BY <2>2, <2>3 DEF i
<1> HIDE DEF m
<1>6. WellFormed(r)
  BY <1>1, <1>2, <1>3, <1>4 DEF WellFormed, buf_t
<1>7. b.off = 0 => Contents(r) = s
  <2> SUFFICES ASSUME b.off = 0 PROVE Contents(r) = s
    OBVIOUS
  <2>1. /\ Contents(r) \in Seq(Cell) /\ Len(Contents(r)) = r.off
        /\ \A i \in 1 .. r.off : Contents(r)[i] = r.mem[r.buffer + i - 1]
    BY <1>6, ContentsSeq
  <2>2. r.off = Len(s)
    BY <1>1, <1>3
  <2> DEFINE x == Contents(r)
  <2>3. x \in Seq(Cell) /\ Len(x) = Len(s) /\ \A i \in 1 .. Len(x) : x[i] = s[i]
    BY <1>3, <1>5, <2>1, <2>2
  <2> HIDE DEF x
  <2>4. x = s
    BY <1>1, <2>3, SeqEqual
  <2> QED  BY <2>4 DEF x
<1> QED  BY <1>3, <1>6, <1>7 DEF r
=============================================================================
