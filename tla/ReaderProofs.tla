---------------------------- MODULE ReaderProofs ----------------------------
(***************************************************************************)
(* Proofs about Reader, for every size of a header, of the socket's buffer *)
(* and of the first allocation, every set of records and however they      *)
(* arrive.  That nothing is received or read outside the allocation needs  *)
(* no more than the room buf_reserve makes (Room), cuts and faults or not. *)
(* That whole records come out, in order and once, needs to know where in  *)
(* the stream the buffer, the socket and the line begin and end (Sync),    *)
(* which is known up to the first record that is cut.                      *)
(***************************************************************************)
EXTENDS Reader, BufferLemmas

-----------------------------------------------------------------------------
(* What follows in a stream.                                               *)

IsByte(x, w) == \E k \in 1 .. Len(w) : \E j \in 0 .. (Size(w[k]) - 1) : x = <<k, j>>

(* d is what w consists of from its k-th record on, byte by byte.          *)
IsStream(d, k, w) == /\ d \in Seq(Cell) /\ w \in Seq(Shape) /\ Len(w) <= MaxRecords
                     /\ k \in Nat
                     /\ IsRest(d, k, w)
                     /\ \A i \in 1 .. Len(d) : IsByte(d[i], w)

(* The m-th byte of d is the last of a record.                             *)
Whole(d, m, w) == ByteAt(d, m + 1, w)[2] = 0

LEMMA SizeFacts ==
  ASSUME NEW s \in Shape
  PROVE  /\ s.len \in Nat /\ s.pad \in Nat /\ s.type \in Type /\ s.keep \in BOOLEAN
         /\ Size(s) \in Nat /\ Size(s) >= HDR + s.len + s.pad /\ Size(s) = HDR + s.len + s.pad
         /\ HDR \in Nat /\ HDR > 0 /\ Size(s) >= HDR
  BY ReaderAssumption DEF Size

LEMMA ByteFacts ==
  ASSUME NEW w \in Seq(Shape), NEW x, IsByte(x, w)
  PROVE  /\ x = <<x[1], x[2]>>
         /\ x[1] \in 1 .. Len(w) /\ x[2] \in 0 .. (Size(w[x[1]]) - 1)
         /\ w[x[1]] \in Shape
<1>1. PICK k \in 1 .. Len(w) : \E j \in 0 .. (Size(w[k]) - 1) : x = <<k, j>>
  BY DEF IsByte
<1>2. PICK j \in 0 .. (Size(w[k]) - 1) : x = <<k, j>>
  BY <1>1
<1>3. x[1] = k /\ x[2] = j
  BY <1>2
<1>4. w[k] \in Shape
  BY ElementOfSeq
<1> QED
  BY <1>2, <1>3, <1>4

(* A stream that is not over begins with the whole of its first record, or *)
(* what there is of it, and goes on with the record behind.                *)
LEMMA FirstRecord ==
  ASSUME NEW d, NEW k, NEW w, IsStream(d, k, w), Len(d) > 0
  PROVE  /\ k \in 1 .. Len(w) /\ w[k] \in Shape
         /\ Size(w[k]) <= Len(d)
         /\ \A j \in 0 .. (Size(w[k]) - 1) : d[j + 1] = <<k, j>>
         /\ ByteAt(d, Size(w[k]) + 1, w) = <<k + 1, 0>>
<1>1. /\ d \in Seq(Cell) /\ w \in Seq(Shape) /\ k \in Nat /\ Len(d) \in Nat
      /\ Len(w) \in Nat
      /\ ByteAt(d, 1, w) = <<k, 0>>
      /\ \A i \in 1 .. Len(d) : ByteAt(d, i + 1, w) = ByteAfter(d[i], w)
      /\ \A i \in 1 .. Len(d) : IsByte(d[i], w)
  BY LenProperties DEF IsStream, IsRest
<1>2. d[1] = <<k, 0>> /\ 1 \in 1 .. Len(d)
  BY <1>1 DEF ByteAt
<1>3. k \in 1 .. Len(w) /\ w[k] \in Shape
  <2>1. d[1][1] \in 1 .. Len(w) /\ w[d[1][1]] \in Shape
    BY <1>1, <1>2, ByteFacts
  <2>2. d[1][1] = k
    BY <1>2
  <2> QED
    BY <2>1, <2>2
<1> DEFINE z == Size(w[k])
<1>4. z \in Nat /\ z > 0
  BY <1>3, SizeFacts
<1> DEFINE Wrong == {j \in Nat : j < z /\ ~ (j + 1 <= Len(d) /\ d[j + 1] = <<k, j>>)}
<1>5. Wrong = {}
  <2>1. SUFFICES ASSUME Wrong # {} PROVE FALSE
    OBVIOUS
  <2>2. PICK j \in Wrong : \A i \in Wrong : j <= i
    <3>1. Wrong \in SUBSET Nat
      OBVIOUS
    <3> HIDE DEF Wrong
    <3> QED
      BY <2>1, <3>1, NatLeast
  <2>3. j \in Nat /\ j < z /\ ~ (j + 1 <= Len(d) /\ d[j + 1] = <<k, j>>)
    OBVIOUS
  <2>4. j # 0
    BY <1>1, <1>2, <2>3
  <2>5. j - 1 \in Nat /\ j - 1 < z /\ ~ (j <= j - 1)
    BY <1>4, <2>3, <2>4
  <2>6. j - 1 \notin Wrong
    BY <2>2, <2>5
  <2>7. j - 1 + 1 = j
    BY <2>3
  <2>8. j <= Len(d) /\ d[j] = <<k, j - 1>>
    BY <2>5, <2>6, <2>7
  <2>9. ByteAt(d, j + 1, w) = ByteAfter(d[j], w)
    <3>1. j \in 1 .. Len(d)
      BY <1>1, <2>3, <2>4, <2>8
    <3> QED
      BY <1>1, <3>1
  <2>10. ByteAfter(d[j], w) = <<k, j>>
    <3>1. d[j][1] = k /\ d[j][2] = j - 1
      BY <2>8
    <3> QED
      BY <2>3, <2>7, <3>1 DEF ByteAfter
  <2>11. CASE j + 1 <= Len(d)
    BY <2>3, <2>9, <2>10, <2>11 DEF ByteAt
  <2>12. CASE ~ (j + 1 <= Len(d))
    <3>1. <<Len(w) + 1, 0>> = <<k, j>>
      BY <2>9, <2>10, <2>12 DEF ByteAt
    <3> QED
      BY <2>4, <3>1
  <2> QED
    BY <2>11, <2>12
<1>6. \A j \in 0 .. (z - 1) : j + 1 <= Len(d) /\ d[j + 1] = <<k, j>>
  <2> SUFFICES ASSUME NEW j \in 0 .. (z - 1) PROVE j + 1 <= Len(d) /\ d[j + 1] = <<k, j>>
    OBVIOUS
  <2>1. j \in Nat /\ j < z /\ j \notin Wrong
    BY <1>4, <1>5
  <2> QED
    BY <2>1
<1> HIDE DEF Wrong
<1>7. z <= Len(d) /\ d[z] = <<k, z - 1>>
  <2>1. z - 1 \in 0 .. (z - 1) /\ z - 1 + 1 = z
    BY <1>4
  <2>2. z - 1 + 1 <= Len(d) /\ d[z - 1 + 1] = <<k, z - 1>>
    BY <1>6, <2>1
  <2> QED
    BY <2>1, <2>2
<1>8. ByteAt(d, z + 1, w) = <<k + 1, 0>>
  <2>1. z \in 1 .. Len(d)
    BY <1>1, <1>4, <1>7
  <2>2. d[z][1] = k /\ d[z][2] = z - 1 /\ ~ (z - 1 + 1 < z)
    BY <1>4, <1>7
  <2>3. ByteAfter(d[z], w) = <<k + 1, 0>>
    BY <2>2 DEF ByteAfter
  <2> QED
    BY <1>1, <2>1, <2>3
<1> QED
  BY <1>3, <1>6, <1>7, <1>8

(* Bytes that end where a record ends, if there are any, hold the whole    *)
(* first record.                                                           *)
LEMMA WholeFirst ==
  ASSUME NEW d, NEW k, NEW w, IsStream(d, k, w),
         NEW m \in 1 .. Len(d), Whole(d, m, w)
  PROVE  Size(w[k]) <= m
<1>1. Len(d) \in Nat /\ Len(d) > 0 /\ k \in Nat /\ w \in Seq(Shape) /\ Len(w) \in Nat
  BY LenProperties DEF IsStream
<1>2. /\ k \in 1 .. Len(w) /\ w[k] \in Shape /\ Size(w[k]) <= Len(d)
      /\ \A j \in 0 .. (Size(w[k]) - 1) : d[j + 1] = <<k, j>>
  BY <1>1, FirstRecord
<1> DEFINE z == Size(w[k])
<1>3. z \in Nat
  BY <1>2, SizeFacts
<1>4. SUFFICES ASSUME m < z PROVE FALSE
  BY <1>1, <1>3
<1>5. m \in 0 .. (z - 1) /\ m + 1 <= Len(d) /\ m # 0
  BY <1>1, <1>2, <1>3, <1>4
<1>6. ByteAt(d, m + 1, w) = <<k, m>>
  BY <1>2, <1>5 DEF ByteAt
<1> QED
  BY <1>5, <1>6 DEF Whole

(* Without its first record a stream is the stream from the next one.      *)
LEMMA RestOfStream ==
  ASSUME NEW d, NEW k, NEW w, IsStream(d, k, w), Len(d) > 0
  PROVE  LET z == Size(w[k])
             r == SubSeq(d, z + 1, Len(d))
         IN  /\ IsStream(r, k + 1, w) /\ Len(r) = Len(d) - z
             /\ \A m \in z .. Len(d) : Whole(d, m, w) => Whole(r, m - z, w)
<1> DEFINE z == Size(w[k])
           r == SubSeq(d, z + 1, Len(d))
<1>1. /\ d \in Seq(Cell) /\ w \in Seq(Shape) /\ k \in Nat /\ Len(d) \in Nat
      /\ Len(w) \in Nat /\ Len(w) <= MaxRecords
      /\ \A i \in 1 .. Len(d) : ByteAt(d, i + 1, w) = ByteAfter(d[i], w)
      /\ \A i \in 1 .. Len(d) : IsByte(d[i], w)
      /\ \A i \in 1 .. Len(d) : d[i] \in Cell
  BY LenProperties, ElementOfSeq DEF IsStream, IsRest
<1>2. /\ z \in Nat /\ z > 0 /\ z <= Len(d) /\ ByteAt(d, z + 1, w) = <<k + 1, 0>>
  BY FirstRecord, SizeFacts
<1>3. /\ r \in Seq(Cell) /\ Len(r) = Len(d) - z
      /\ \A i \in 1 .. (Len(d) - z) : r[i] = d[z + i]
  <2> HIDE DEF z
  <2>1. /\ z + 1 \in Int /\ Len(d) \in Int
        /\ \A i \in (z + 1) .. Len(d) : d[i] \in Cell
    BY <1>1, <1>2
  <2> DEFINE lo == z + 1
             hi == Len(d)
             s  == SubSeq(d, lo, hi)
  <2>2. /\ s \in Seq(Cell) /\ Len(s) = IF lo <= hi THEN hi - lo + 1 ELSE 0
        /\ \A i \in 1 .. hi - lo + 1 : s[i] = d[lo + i - 1]
    <3>1. lo \in Int /\ hi \in Int /\ \A i \in lo .. hi : d[i] \in Cell
      BY <2>1
    <3> HIDE DEF lo, hi
    <3> QED
      BY <3>1, SubSeqProperties
  <2>3. hi - lo + 1 = Len(d) - z
    BY <1>1, <1>2
  <2>4. Len(s) = Len(d) - z
    BY <1>1, <1>2, <2>2
  <2>5. \A i \in 1 .. (Len(d) - z) : s[i] = d[z + i]
    <3> SUFFICES ASSUME NEW i \in 1 .. (Len(d) - z) PROVE s[i] = d[z + i]
      OBVIOUS
    <3>1. lo + i - 1 = z + i
      BY <1>2
    <3> HIDE DEF s, lo, hi
    <3> QED
      BY <2>2, <2>3, <3>1
  <2> QED
    BY <2>2, <2>4, <2>5
<1> HIDE DEF z, r
<1>4. \A i \in 1 .. (Len(r) + 1) : ByteAt(r, i, w) = ByteAt(d, z + i, w)
  <2> SUFFICES ASSUME NEW i \in 1 .. (Len(r) + 1)
               PROVE  ByteAt(r, i, w) = ByteAt(d, z + i, w)
    OBVIOUS
  <2>1. CASE i <= Len(r)
    <3>1. i \in 1 .. (Len(d) - z) /\ z + i <= Len(d)
      BY <1>1, <1>2, <1>3, <2>1
    <3> QED
      BY <1>3, <2>1, <3>1 DEF ByteAt
  <2>2. CASE ~ (i <= Len(r))
    <3>1. ~ (z + i <= Len(d))
      BY <1>1, <1>2, <1>3, <2>2
    <3> QED
      BY <2>2, <3>1 DEF ByteAt
  <2> QED
    BY <2>1, <2>2
<1>5. ByteAt(r, 1, w) = <<k + 1, 0>>
  <2>1. 1 \in 1 .. (Len(r) + 1)
    BY <1>1, <1>2, <1>3
  <2> QED
    BY <1>2, <1>4, <2>1
<1>6. ASSUME NEW i \in 1 .. Len(r)
      PROVE  ByteAt(r, i + 1, w) = ByteAfter(r[i], w) /\ IsByte(r[i], w)
  <2>1. /\ i \in 1 .. (Len(d) - z) /\ z + i \in 1 .. Len(d)
        /\ i + 1 \in 1 .. (Len(r) + 1) /\ z + (i + 1) = (z + i) + 1
    BY <1>1, <1>2, <1>3
  <2>2. r[i] = d[z + i]
    BY <1>3, <2>1
  <2>3. ByteAt(r, i + 1, w) = ByteAt(d, (z + i) + 1, w)
    BY <1>4, <2>1
  <2> QED
    BY <1>1, <2>1, <2>3, <2>2
<1>7. IsStream(r, k + 1, w)
  BY <1>1, <1>3, <1>5, <1>6 DEF IsStream, IsRest
<1>8. ASSUME NEW m \in z .. Len(d), Whole(d, m, w) PROVE Whole(r, m - z, w)
  <2>1. m - z + 1 \in 1 .. (Len(r) + 1) /\ z + (m - z + 1) = m + 1
    BY <1>1, <1>2, <1>3
  <2>2. ByteAt(r, m - z + 1, w) = ByteAt(d, m + 1, w)
    BY <1>4, <2>1
  <2> QED
    BY <1>8, <2>2 DEF Whole
<1> QED
  BY <1>3, <1>7, <1>8 DEF z, r

(* A stream goes on with the bytes of the record sent next.                *)
LEMMA MoreOfStream ==
  ASSUME NEW d, NEW k, NEW w, IsStream(d, k, w), NEW s \in Shape,
         Len(w) < MaxRecords
  PROVE  LET b == [j \in 1 .. Size(s) |-> <<Len(w) + 1, j - 1>>]
         IN  /\ b \in Seq(Byte)
             /\ IsStream(d \o b, k, Append(w, s))
             /\ \A m \in 0 .. Len(d) : Whole(d, m, w) => Whole(d \o b, m, Append(w, s))
<1> DEFINE z == Size(s)
           b == [j \in 1 .. z |-> <<Len(w) + 1, j - 1>>]
           e == d \o b
           v == Append(w, s)
<1>1. /\ d \in Seq(Cell) /\ w \in Seq(Shape) /\ k \in Nat /\ Len(d) \in Nat
      /\ Len(w) \in Nat /\ MaxRecords \in Nat
      /\ ByteAt(d, 1, w) = <<k, 0>>
      /\ \A i \in 1 .. Len(d) : ByteAt(d, i + 1, w) = ByteAfter(d[i], w)
      /\ \A i \in 1 .. Len(d) : IsByte(d[i], w)
  BY LenProperties, ReaderAssumption DEF IsStream, IsRest
<1>2. z \in Nat /\ z > 0
  BY SizeFacts
<1>3. /\ v \in Seq(Shape) /\ Len(v) = Len(w) + 1 /\ v[Len(w) + 1] = s
      /\ \A i \in 1 .. Len(w) : v[i] = w[i]
  BY <1>1, AppendProperties
<1>4. \A j \in 1 .. z : <<Len(w) + 1, j - 1>> \in Byte
  <2> SUFFICES ASSUME NEW j \in 1 .. z PROVE <<Len(w) + 1, j - 1>> \in Byte
    OBVIOUS
  <2>1. Len(w) + 1 \in 1 .. MaxRecords /\ j - 1 \in 0 .. (z - 1)
    BY <1>1, <1>2
  <2> QED
    BY <2>1, ReaderAssumption
<1>5. /\ b \in Seq(Byte) /\ b \in Seq(Cell) /\ Len(b) = z
      /\ \A j \in 1 .. z : b[j] = <<Len(w) + 1, j - 1>>
  <2>1. b \in [1 .. z -> Byte]
    BY <1>4
  <2> HIDE DEF z
  <2>2. b \in Seq(Byte)
    BY <1>2, <2>1, SeqDef
  <2>3. b \in Seq(Cell)
    BY <2>2, SeqMonotonic DEF Cell
  <2>4. DOMAIN b = 1 .. z /\ DOMAIN b = 1 .. Len(b) /\ Len(b) \in Nat
    BY <2>2, LenProperties
  <2>5. Len(b) = z
    <3> HIDE DEF b
    <3> QED
      BY <1>2, <2>4
  <2> QED
    BY <2>2, <2>3, <2>5
<1> HIDE DEF z, b, v
<1>6. /\ e \in Seq(Cell) /\ Len(e) = Len(d) + z
      /\ \A i \in 1 .. (Len(d) + z) : e[i] = IF i <= Len(d) THEN d[i] ELSE b[i - Len(d)]
  BY <1>1, <1>5, ConcatProperties
<1> HIDE DEF e
<1>7. \A i \in 1 .. (Len(d) + 1) : ByteAt(e, i, v) = ByteAt(d, i, w)
  <2> SUFFICES ASSUME NEW i \in 1 .. (Len(d) + 1) PROVE ByteAt(e, i, v) = ByteAt(d, i, w)
    OBVIOUS
  <2>1. i <= Len(e) /\ i \in 1 .. (Len(d) + z)
    BY <1>1, <1>2, <1>6
  <2>2. CASE i <= Len(d)
    BY <1>6, <2>1, <2>2 DEF ByteAt
  <2>3. CASE ~ (i <= Len(d))
    <3>1. i - Len(d) = 1 /\ 1 \in 1 .. z
      BY <1>1, <1>2, <2>3
    <3>2. e[i] = <<Len(w) + 1, 0>>
      BY <1>5, <1>6, <2>1, <2>3, <3>1
    <3> QED
      BY <2>1, <2>3, <3>2 DEF ByteAt
  <2> QED
    BY <2>2, <2>3
<1>8. \A j \in 1 .. (z + 1) : ByteAt(e, Len(d) + j, v) =
        IF j <= z THEN <<Len(w) + 1, j - 1>> ELSE <<Len(w) + 2, 0>>
  <2> SUFFICES ASSUME NEW j \in 1 .. (z + 1)
               PROVE  ByteAt(e, Len(d) + j, v) =
                        IF j <= z THEN <<Len(w) + 1, j - 1>> ELSE <<Len(w) + 2, 0>>
    OBVIOUS
  <2>1. CASE j <= z
    <3>1. /\ Len(d) + j \in 1 .. (Len(d) + z) /\ ~ (Len(d) + j <= Len(d))
          /\ Len(d) + j - Len(d) = j /\ j \in 1 .. z
      BY <1>1, <1>2, <2>1
    <3>2. e[Len(d) + j] = <<Len(w) + 1, j - 1>>
      BY <1>5, <1>6, <3>1
    <3>3. Len(d) + j <= Len(e)
      BY <1>1, <1>2, <1>6, <2>1
    <3> QED
      BY <2>1, <3>2, <3>3 DEF ByteAt
  <2>2. CASE ~ (j <= z)
    <3>1. ~ (Len(d) + j <= Len(e)) /\ Len(v) + 1 = Len(w) + 2
      BY <1>1, <1>2, <1>3, <1>6, <2>2
    <3> QED
      BY <2>2, <3>1 DEF ByteAt
  <2> QED
    BY <2>1, <2>2
<1>9. \A x : IsByte(x, w) => IsByte(x, v) /\ ByteAfter(x, v) = ByteAfter(x, w)
  <2> SUFFICES ASSUME NEW x, IsByte(x, w)
               PROVE  IsByte(x, v) /\ ByteAfter(x, v) = ByteAfter(x, w)
    OBVIOUS
  <2>1. /\ x = <<x[1], x[2]>> /\ x[1] \in 1 .. Len(w)
        /\ x[2] \in 0 .. (Size(w[x[1]]) - 1)
    BY <1>1, ByteFacts
  <2>2. v[x[1]] = w[x[1]] /\ x[1] \in 1 .. Len(v)
    BY <1>1, <1>3, <2>1
  <2>3. IsByte(x, v)
    <3>1. x[2] \in 0 .. (Size(v[x[1]]) - 1)
      BY <2>1, <2>2
    <3> QED
      BY <2>1, <2>2, <3>1 DEF IsByte
  <2> QED
    BY <2>2, <2>3 DEF ByteAfter
<1>10. ASSUME NEW i \in 1 .. Len(e)
       PROVE  ByteAt(e, i + 1, v) = ByteAfter(e[i], v) /\ IsByte(e[i], v)
  <2>1. CASE i <= Len(d)
    <3>1. i \in 1 .. Len(d) /\ i + 1 \in 1 .. (Len(d) + 1) /\ i \in 1 .. (Len(d) + z)
      BY <1>1, <1>2, <2>1
    <3>2. e[i] = d[i]
      BY <1>6, <2>1, <3>1
    <3> QED
      BY <1>1, <1>7, <1>9, <3>1, <3>2
  <2>2. CASE ~ (i <= Len(d))
    <3> DEFINE j == i - Len(d)
    <3>1. /\ j \in 1 .. z /\ i = Len(d) + j /\ i + 1 = Len(d) + (j + 1)
          /\ j + 1 \in 1 .. (z + 1) /\ j \in 1 .. (z + 1) /\ i \in 1 .. (Len(d) + z)
      BY <1>1, <1>2, <1>6, <2>2
    <3> HIDE DEF j
    <3>2. e[i] = <<Len(w) + 1, j - 1>>
      <4>1. i - Len(d) = j
        BY <1>1, <3>1
      <4> QED
        BY <1>5, <1>6, <2>2, <3>1, <4>1
    <3>3. ByteAt(e, i + 1, v) =
            IF j + 1 <= z THEN <<Len(w) + 1, j>> ELSE <<Len(w) + 2, 0>>
      <4>1. j + 1 - 1 = j
        BY <3>1
      <4>2. ByteAt(e, Len(d) + (j + 1), v) =
              IF j + 1 <= z THEN <<Len(w) + 1, j + 1 - 1>> ELSE <<Len(w) + 2, 0>>
        BY <1>8, <3>1
      <4> QED
        BY <3>1, <4>1, <4>2
    <3>4. e[i][1] = Len(w) + 1 /\ e[i][2] = j - 1 /\ Size(v[Len(w) + 1]) = z
      BY <1>3, <3>2 DEF z
    <3>5. ByteAfter(e[i], v) = IF j < z THEN <<Len(w) + 1, j>> ELSE <<Len(w) + 2, 0>>
      <4>1. j - 1 + 1 = j /\ Len(w) + 1 + 1 = Len(w) + 2
        BY <1>1, <3>1
      <4> QED
        BY <3>4, <4>1 DEF ByteAfter
    <3>6. IsByte(e[i], v)
      <4>1. Len(w) + 1 \in 1 .. Len(v) /\ j - 1 \in 0 .. (Size(v[Len(w) + 1]) - 1)
        BY <1>1, <1>2, <1>3, <3>1, <3>4
      <4> QED
        BY <3>2, <4>1 DEF IsByte
    <3>7. j + 1 <= z <=> j < z
      BY <1>2, <3>1
    <3> QED
      BY <3>3, <3>5, <3>6, <3>7
  <2> QED
    BY <2>1, <2>2
<1>11. IsStream(e, k, v)
  <2>1. ByteAt(e, 1, v) = <<k, 0>>
    <3>1. 1 \in 1 .. (Len(d) + 1)
      BY <1>1
    <3> QED
      BY <1>1, <1>7, <3>1
  <2>2. Len(v) <= MaxRecords
    BY <1>1, <1>3
  <2> QED
    BY <1>1, <1>3, <1>6, <1>10, <2>1, <2>2 DEF IsStream, IsRest
<1>12. ASSUME NEW m \in 0 .. Len(d), Whole(d, m, w) PROVE Whole(e, m, v)
  <2>1. m + 1 \in 1 .. (Len(d) + 1)
    BY <1>1
  <2> QED
    BY <1>7, <1>12, <2>1 DEF Whole
<1> QED
  BY <1>5, <1>11, <1>12 DEF z, b, e, v

-----------------------------------------------------------------------------
(* Sequences cut in two.                                                   *)

LEMMA CutInTwo ==
  ASSUME NEW S, NEW s \in Seq(S), NEW m \in 0 .. Len(s)
  PROVE  LET a == SubSeq(s, 1, m)
             b == SubSeq(s, m + 1, Len(s))
         IN  /\ a \in Seq(S) /\ Len(a) = m /\ b \in Seq(S) /\ Len(b) = Len(s) - m
             /\ \A i \in 1 .. m : a[i] = s[i]
             /\ \A i \in 1 .. (Len(s) - m) : b[i] = s[m + i]
             /\ a \o b = s
<1> DEFINE a == SubSeq(s, 1, m)
           b == SubSeq(s, m + 1, Len(s))
<1>1. Len(s) \in Nat /\ m \in Nat /\ m <= Len(s) /\ \A i \in 1 .. Len(s) : s[i] \in S
  BY LenProperties, ElementOfSeq
<1>2. /\ a \in Seq(S) /\ Len(a) = m /\ \A i \in 1 .. m : a[i] = s[i]
  <2>1. /\ a \in Seq(S) /\ Len(a) = IF 1 <= m THEN m - 1 + 1 ELSE 0
        /\ \A i \in 1 .. m - 1 + 1 : a[i] = s[1 + i - 1]
    <3>1. 1 \in Int /\ m \in Int /\ \A i \in 1 .. m : s[i] \in S
      BY <1>1
    <3> HIDE DEF a
    <3> QED
      BY <3>1, SubSeqProperties DEF a
  <2> HIDE DEF a
  <2>2. \A i \in 1 .. m : a[i] = s[i]
    <3> SUFFICES ASSUME NEW i \in 1 .. m PROVE a[i] = s[i]
      OBVIOUS
    <3>1. i \in 1 .. m - 1 + 1 /\ 1 + i - 1 = i
      BY <1>1
    <3>2. a[i] = s[1 + i - 1]
      BY <2>1, <3>1
    <3> QED
      BY <3>1, <3>2
  <2> QED
    BY <1>1, <2>1, <2>2
<1>3. /\ b \in Seq(S) /\ Len(b) = Len(s) - m
      /\ \A i \in 1 .. (Len(s) - m) : b[i] = s[m + i]
  <2> DEFINE lo == m + 1
             hi == Len(s)
             c  == SubSeq(s, lo, hi)
  <2>1. /\ c \in Seq(S) /\ Len(c) = IF lo <= hi THEN hi - lo + 1 ELSE 0
        /\ \A i \in 1 .. hi - lo + 1 : c[i] = s[lo + i - 1]
    <3>1. lo \in Int /\ hi \in Int /\ \A i \in lo .. hi : s[i] \in S
      BY <1>1
    <3> HIDE DEF lo, hi
    <3> QED
      BY <3>1, SubSeqProperties
  <2>2. hi - lo + 1 = Len(s) - m /\ Len(c) = Len(s) - m
    BY <1>1, <2>1
  <2>3. \A i \in 1 .. (Len(s) - m) : c[i] = s[m + i]
    <3> SUFFICES ASSUME NEW i \in 1 .. (Len(s) - m) PROVE c[i] = s[m + i]
      OBVIOUS
    <3>1. lo + i - 1 = m + i
      BY <1>1
    <3> HIDE DEF c, lo, hi
    <3> QED
      BY <2>1, <2>2, <3>1
  <2> QED
    BY <2>1, <2>2, <2>3
<1> HIDE DEF a, b
<1>4. a \o b = s
  <2> DEFINE c == a \o b
  <2>1. /\ c \in Seq(S) /\ Len(c) = Len(s)
        /\ \A i \in 1 .. Len(s) : c[i] = IF i <= m THEN a[i] ELSE b[i - m]
    <3>1. /\ c \in Seq(S) /\ Len(c) = Len(a) + Len(b)
          /\ \A i \in 1 .. Len(a) + Len(b) : c[i] = IF i <= Len(a) THEN a[i] ELSE b[i - Len(a)]
      BY <1>2, <1>3, ConcatProperties
    <3>2. Len(a) + Len(b) = Len(s)
      BY <1>1, <1>2, <1>3
    <3> HIDE DEF c
    <3> QED
      BY <1>2, <3>1, <3>2
  <2> HIDE DEF c
  <2>2. ASSUME NEW i \in 1 .. Len(s) PROVE c[i] = s[i]
    <3>1. CASE i <= m
      <4>1. i \in 1 .. m
        BY <1>1, <3>1
      <4> QED
        BY <1>2, <2>1, <3>1, <4>1
    <3>2. CASE ~ (i <= m)
      <4>1. i - m \in 1 .. (Len(s) - m) /\ m + (i - m) = i
        BY <1>1, <3>2
      <4>2. b[i - m] = s[m + (i - m)]
        BY <1>3, <4>1
      <4> QED
        BY <2>1, <3>2, <4>1, <4>2
    <3> QED
      BY <3>1, <3>2
  <2>3. c = s
    BY <2>1, <2>2, SeqEqual
  <2> QED
    BY <2>3 DEF c
<1> QED
  BY <1>2, <1>3, <1>4 DEF a, b

LEMMA Associative ==
  ASSUME NEW S
  PROVE  \A s, t, u \in Seq(S) : (s \o t) \o u = s \o (t \o u) /\ t \o u \in Seq(S)
<1> SUFFICES ASSUME NEW s \in Seq(S), NEW t \in Seq(S), NEW u \in Seq(S)
             PROVE  (s \o t) \o u = s \o (t \o u) /\ t \o u \in Seq(S)
  OBVIOUS
<1>1. (s \o t) \o u = s \o (t \o u)
  BY ConcatAssociative
<1>2. t \o u \in Seq(S)
  BY ConcatProperties
<1> QED
  BY <1>1, <1>2

LEMMA ThreeParts ==
  ASSUME NEW S, NEW c \in Seq(S), NEW s \in Seq(S), NEW l \in Seq(S)
  PROVE  LET e == c \o s \o l
         IN  /\ e \in Seq(S) /\ e = c \o (s \o l)
             /\ Len(e) = Len(c) + Len(s) + Len(l)
             /\ \A i \in 1 .. Len(c) : e[i] = c[i]
             /\ \A i \in 1 .. Len(l) : e[Len(c) + Len(s) + i] = l[i]
<1>1. PICK d : d = c \o s
  OBVIOUS
<1>2. /\ d \in Seq(S) /\ Len(d) = Len(c) + Len(s)
      /\ \A i \in 1 .. Len(c) + Len(s) : d[i] = IF i <= Len(c) THEN c[i] ELSE s[i - Len(c)]
  BY <1>1, ConcatProperties
<1>3. d \o l = c \o (s \o l)
  BY <1>1, Associative
<1>4. Len(c) \in Nat /\ Len(s) \in Nat /\ Len(l) \in Nat
  BY LenProperties
<1>5. d \in Seq(S)
  BY <1>2
<1>6. PICK e : e = d \o l
  OBVIOUS
<1>7. /\ e \in Seq(S) /\ Len(e) = Len(d) + Len(l)
      /\ \A i \in 1 .. Len(d) + Len(l) : e[i] = IF i <= Len(d) THEN d[i] ELSE l[i - Len(d)]
  BY <1>6, <1>5, ConcatProperties
<1>8. ASSUME NEW i \in 1 .. Len(c) PROVE e[i] = c[i]
  <2>1. /\ i \in 1 .. Len(d) + Len(l) /\ i <= Len(d)
        /\ i \in 1 .. Len(c) + Len(s) /\ i <= Len(c)
    BY <1>2, <1>4
  <2> QED
    BY <1>2, <1>7, <2>1
<1>9. ASSUME NEW i \in 1 .. Len(l) PROVE e[Len(c) + Len(s) + i] = l[i]
  <2> DEFINE q == Len(c) + Len(s) + i
  <2>1. q \in 1 .. Len(d) + Len(l) /\ ~ (q <= Len(d)) /\ q - Len(d) = i
    BY <1>2, <1>4
  <2> HIDE DEF q
  <2>2. e[q] = l[q - Len(d)]
    BY <1>7, <2>1
  <2> QED
    BY <2>1, <2>2 DEF q
<1> QED
  BY <1>2, <1>3, <1>6, <1>7, <1>8, <1>9, <1>1

LEMMA DropOfConcat ==
  ASSUME NEW S, NEW s \in Seq(S), NEW t \in Seq(S), NEW m \in 0 .. Len(s)
  PROVE  SubSeq(s \o t, m + 1, Len(s \o t)) = SubSeq(s, m + 1, Len(s)) \o t
<1> DEFINE a == SubSeq(s, 1, m)
           b == SubSeq(s, m + 1, Len(s))
           u == b \o t
<1>1. a \in Seq(S) /\ Len(a) = m /\ b \in Seq(S) /\ a \o b = s /\ m \in Nat
  <2>1. m \in Nat
    BY LenProperties
  <2> QED
    BY <2>1, CutInTwo
<1> HIDE DEF a, b
<1>2. s \o t = a \o u /\ u \in Seq(S)
  <2>1. \A x, y \in Seq(S) : (x \o y) \o t = x \o (y \o t) /\ y \o t \in Seq(S)
    BY Associative
  <2>2. (a \o b) \o t = a \o (b \o t) /\ b \o t \in Seq(S)
    <3> HIDE DEF u
    <3> QED
      BY <1>1, <2>1
  <2> QED
    BY <1>1, <2>2
<1> HIDE DEF u
<1>3. ASSUME NEW q, q = a \o u PROVE SubSeq(q, m + 1, Len(q)) = u
  <2>1. /\ q \in Seq(S) /\ Len(q) = m + Len(u) /\ Len(u) \in Nat
        /\ \A i \in 1 .. m + Len(u) : q[i] = IF i <= m THEN a[i] ELSE u[i - m]
    BY <1>1, <1>2, <1>3, ConcatProperties, LenProperties
  <2>2. m \in 0 .. Len(q)
    BY <1>1, <2>1
  <2> DEFINE v == SubSeq(q, m + 1, Len(q))
  <2>3. /\ v \in Seq(S) /\ Len(v) = Len(q) - m
        /\ \A i \in 1 .. (Len(q) - m) : v[i] = q[m + i]
    BY <2>1, <2>2, CutInTwo
  <2> HIDE DEF v
  <2>4. Len(v) = Len(u)
    BY <1>1, <2>1, <2>3
  <2>5. ASSUME NEW i \in 1 .. Len(v) PROVE v[i] = u[i]
    <3>1. i \in 1 .. (Len(q) - m) /\ m + i \in 1 .. m + Len(u) /\ ~ (m + i <= m) /\ m + i - m = i
      BY <1>1, <2>1, <2>3, <2>4
    <3>2. v[i] = q[m + i]
      BY <2>3, <3>1
    <3>3. q[m + i] = u[m + i - m]
      BY <2>1, <3>1
    <3> QED
      BY <3>1, <3>2, <3>3
  <2>6. v = u
    BY <1>2, <2>3, <2>4, <2>5, SeqEqual
  <2> QED
    BY <2>6 DEF v
<1> QED
  BY <1>2, <1>3 DEF u, b

-----------------------------------------------------------------------------
(* The inductive invariant.                                                *)

Types == /\ TypeOK
         /\ WellFormed(buf)
         /\ pc = "recv" => n \in 1 .. Len(sock)

(* In _read, where what is read for keeps its room until it is there.      *)
Within == {"ioctl", "wait", "recv"}

Room ==
  /\ pc = "recv" => buf.misalign + buf.off + n <= buf.totallen
  /\ pc = "dispatch" \/ (pc \in Within /\ after = "dispatch") =>
       buf.misalign + HDR + msg_len <= buf.totallen
  /\ pc \in Within /\ after = "parse" => length = HDR
  /\ pc = "parse" => HDR <= buf.off

(* What was received and not handled, and what is still to be received.    *)
Received == Contents(buf) \o sock \o line

(* It is the rest of the stream, and a record ends where the buffer ends   *)
(* and where the socket ends.                                              *)
Placed == /\ IsStream(Received, Len(delivered) + 1, wire)
          /\ Whole(Received, buf.off, wire)
          /\ Whole(Received, buf.off + Len(sock), wire)

(* The loop reads when the buffer is empty and dispatches a record that is *)
(* in the buffer and that its header describes.                            *)
AtWork ==
  /\ pc \in Within => buf.off = 0 /\ after = "parse" /\ length = HDR
  /\ pc = "recv" => Whole(Received, n, wire)
  /\ pc \in {"parse", "dispatch"} => buf.off > 0
  /\ pc = "dispatch" => /\ hp = DataPointer
                        /\ msg_len = wire[Len(delivered) + 1].len

Sync == cuts = 0 => Placed /\ AtWork

Inv == Types /\ Room /\ Sync

LEMMA TypesFacts ==
  ASSUME Types
  PROVE  /\ wire \in Seq(Shape) /\ Len(wire) \in Nat /\ Len(wire) <= MaxRecords
         /\ sock \in Seq(Byte) /\ sock \in Seq(Cell) /\ Len(sock) \in Nat
         /\ line \in Seq(Byte) /\ line \in Seq(Cell) /\ Len(line) \in Nat
         /\ delivered \in Seq(Shape \cup {Garbled}) /\ Len(delivered) \in Nat
         /\ WellFormed(buf) /\ buf.totallen \in Nat /\ buf.off \in Nat
         /\ buf.misalign \in Nat /\ buf.buffer = buf.misalign
         /\ buf.misalign + buf.off <= buf.totallen
         /\ Contents(buf) \in Seq(Cell) /\ Len(Contents(buf)) = buf.off
         /\ cuts \in Nat /\ n \in Nat /\ length \in Nat /\ msg_len \in Nat
         /\ HDR \in Nat /\ HDR > 0 /\ BR \in Nat /\ MaxRecords \in Nat
<1>1. TypeOK /\ WellFormed(buf)
  BY DEF Types
<1>2. /\ wire \in Seq(Shape) /\ Len(wire) <= MaxRecords
      /\ sock \in Seq(Byte) /\ line \in Seq(Byte)
      /\ delivered \in Seq(Shape \cup {Garbled})
      /\ cuts \in 0 .. MaxCuts /\ n \in 0 .. SockCap /\ length \in Nat /\ msg_len \in Nat
  BY <1>1 DEF TypeOK
<1>3. sock \in Seq(Cell) /\ line \in Seq(Cell)
  BY <1>2, SeqMonotonic DEF Cell
<1>4. /\ Len(wire) \in Nat /\ Len(sock) \in Nat /\ Len(line) \in Nat /\ Len(delivered) \in Nat
  BY <1>2, LenProperties
<1>5. /\ buf.totallen \in Nat /\ buf.off \in Nat
      /\ buf.misalign \in Nat /\ buf.buffer = buf.misalign
      /\ buf.misalign + buf.off <= buf.totallen
  BY <1>1 DEF WellFormed, buf_t
<1>6. Contents(buf) \in Seq(Cell) /\ Len(Contents(buf)) = buf.off
  BY <1>1, ContentsSeq
<1> QED
  BY <1>1, <1>2, <1>3, <1>4, <1>5, <1>6, ReaderAssumption

(* Received, byte by byte.                                                 *)
LEMMA ReceivedFacts ==
  ASSUME Types
  PROVE  /\ Received \in Seq(Cell) /\ Received = Contents(buf) \o (sock \o line)
         /\ Len(Received) = buf.off + Len(sock) + Len(line)
         /\ \A i \in 1 .. buf.off : Received[i] = buf.mem[buf.buffer + i - 1]
         /\ \A i \in 1 .. Len(line) :
              Received[buf.off + Len(sock) + i] = line[i]
<1>1. /\ sock \in Seq(Cell) /\ Len(sock) \in Nat /\ line \in Seq(Cell) /\ Len(line) \in Nat
      /\ Contents(buf) \in Seq(Cell) /\ Len(Contents(buf)) = buf.off /\ buf.off \in Nat
  BY TypesFacts
<1>2. \A i \in 1 .. buf.off : Contents(buf)[i] = buf.mem[buf.buffer + i - 1]
  BY ContentsSeq DEF Types
<1>3. /\ Received \in Seq(Cell) /\ Received = Contents(buf) \o (sock \o line)
      /\ Len(Received) = Len(Contents(buf)) + Len(sock) + Len(line)
      /\ \A i \in 1 .. Len(Contents(buf)) : Received[i] = Contents(buf)[i]
      /\ \A i \in 1 .. Len(line) : Received[Len(Contents(buf)) + Len(sock) + i] = line[i]
  <2>1. PICK c : c = Contents(buf)
    OBVIOUS
  <2>2. c \in Seq(Cell) /\ sock \in Seq(Cell) /\ line \in Seq(Cell)
    BY <1>1, <2>1
  <2>3. /\ c \o sock \o line \in Seq(Cell) /\ c \o sock \o line = c \o (sock \o line)
        /\ Len(c \o sock \o line) = Len(c) + Len(sock) + Len(line)
        /\ \A i \in 1 .. Len(c) : (c \o sock \o line)[i] = c[i]
        /\ \A i \in 1 .. Len(line) : (c \o sock \o line)[Len(c) + Len(sock) + i] = line[i]
    BY <2>2, ThreeParts
  <2> QED
    BY <2>1, <2>3 DEF Received
<1> QED
  BY <1>1, <1>2, <1>3

-----------------------------------------------------------------------------
(* What the framing loop finds at BUF_DATA.                                *)

LEMMA HoldsFewer ==
  ASSUME NEW b, NEW at, NEW k, NEW cnt \in Nat, NEW m \in Nat, m <= cnt,
         Holds(b, at, k, cnt)
  PROVE  Holds(b, at, k, m)
<1>1. \A j \in 0 .. (m - 1) : j \in 0 .. (cnt - 1)
  OBVIOUS
<1> QED
  BY <1>1 DEF Holds

LEMMA HoldsOne ==
  ASSUME NEW b, NEW at, NEW k, NEW i, NEW cnt \in Nat, cnt > 0,
         Holds(b, at, k, cnt), Holds(b, at, i, cnt)
  PROVE  k = i
<1>1. 0 \in 0 .. (cnt - 1)
  OBVIOUS
<1>2. b.mem[at + 0] = <<i, 0>> /\ b.mem[at + 0] = <<k, 0>>
  BY <1>1 DEF Holds
<1> QED
  BY <1>2

(* Where the header of a record is in place, it is what is read.           *)
LEMMA HeaderFound ==
  ASSUME Types, NEW k \in 1 .. Len(wire), Holds(buf, buf.buffer, k, HDR)
  PROVE  Reading(DataPointer) = {HeaderOf(wire[k])}
<1>1. HDR \in Nat /\ HDR > 0 /\ buf.buffer \in Nat
  BY TypesFacts
<1>2. DataPointer.alloc = buf.totallen /\ DataPointer.at = buf.buffer
  BY DEF DataPointer
<1>3. \A i \in 1 .. Len(wire) : Holds(buf, buf.buffer, i, HDR) => i = k
  BY <1>1, HoldsOne
<1>4. HeadersAt(DataPointer) = {k}
  BY <1>2, <1>3 DEF HeadersAt
<1> QED
  BY <1>4 DEF Reading

(* While nothing was cut, the next record is at BUF_DATA as a whole.       *)
LEMMA RecordFound ==
  ASSUME Types, Placed, buf.off > 0
  PROVE  LET k == Len(delivered) + 1
         IN  /\ k \in 1 .. Len(wire) /\ wire[k] \in Shape
             /\ Size(wire[k]) <= buf.off
             /\ Holds(buf, buf.buffer, k, Size(wire[k]))
             /\ Reading(DataPointer) = {HeaderOf(wire[k])}
<1> DEFINE k == Len(delivered) + 1
           z == Size(wire[k])
<1>1. /\ Received \in Seq(Cell) /\ Len(Received) = buf.off + Len(sock) + Len(line)
      /\ \A i \in 1 .. buf.off : Received[i] = buf.mem[buf.buffer + i - 1]
  BY ReceivedFacts
<1>2. /\ buf.off \in Nat /\ Len(sock) \in Nat /\ Len(line) \in Nat /\ Len(delivered) \in Nat
      /\ buf.buffer \in Nat /\ buf.totallen \in Nat /\ buf.buffer + buf.off <= buf.totallen
      /\ HDR \in Nat
  BY TypesFacts
<1>3. buf.off \in 1 .. Len(Received) /\ Len(Received) > 0
  BY <1>1, <1>2
<1>4. /\ IsStream(Received, k, wire) /\ Whole(Received, buf.off, wire)
  BY DEF Placed
<1>5. /\ k \in 1 .. Len(wire) /\ wire[k] \in Shape
      /\ \A j \in 0 .. (z - 1) : Received[j + 1] = <<k, j>>
  BY <1>3, <1>4, FirstRecord
<1>6. z <= buf.off
  BY <1>3, <1>4, WholeFirst
<1>7. z \in Nat /\ HDR <= z
  BY <1>5, SizeFacts
<1>8. ASSUME NEW j \in 0 .. (z - 1)
      PROVE  buf.buffer + j < buf.totallen /\ buf.mem[buf.buffer + j] = <<k, j>>
  <2>1. j + 1 \in 1 .. buf.off /\ buf.buffer + (j + 1) - 1 = buf.buffer + j
        /\ buf.buffer + j < buf.totallen
    BY <1>2, <1>6, <1>7
  <2>2. Received[j + 1] = buf.mem[buf.buffer + (j + 1) - 1]
    BY <1>1, <2>1
  <2> QED
    BY <1>5, <2>1, <2>2
<1>9. Holds(buf, buf.buffer, k, z)
  BY <1>8 DEF Holds
<1>10. Holds(buf, buf.buffer, k, HDR)
  BY <1>2, <1>7, <1>9, HoldsFewer
<1>11. Reading(DataPointer) = {HeaderOf(wire[k])}
  BY <1>5, <1>10, HeaderFound
<1> QED
  BY <1>5, <1>6, <1>9, <1>11

(* The handler is given the record.                                        *)
LEMMA RecordGiven ==
  ASSUME Types, Placed, buf.off > 0, NEW h,
         h = HeaderOf(wire[Len(delivered) + 1]), msg_len = h.len
  PROVE  Given(h) = wire[Len(delivered) + 1]
<1> DEFINE k == Len(delivered) + 1
           whole == {i \in 1 .. Len(wire) :
                       /\ h.type = wire[i].type /\ msg_len = wire[i].len
                       /\ HDR + msg_len <= BUF_LENGTH(buf)
                       /\ Holds(buf, buf.buffer, i, HDR + msg_len)}
<1>1. /\ k \in 1 .. Len(wire) /\ wire[k] \in Shape
      /\ Size(wire[k]) <= buf.off
      /\ Holds(buf, buf.buffer, k, Size(wire[k]))
  BY RecordFound
<1>2. /\ h.type = wire[k].type /\ h.len = wire[k].len
  BY DEF HeaderOf
<1>3. /\ wire[k].len \in Nat /\ wire[k].pad \in Nat /\ HDR \in Nat /\ HDR > 0
      /\ Size(wire[k]) = HDR + wire[k].len + wire[k].pad
  BY <1>1, SizeFacts
<1>4. buf.off \in Nat
  BY TypesFacts
<1>5. HDR + msg_len <= BUF_LENGTH(buf)
  BY <1>1, <1>2, <1>3, <1>4 DEF BUF_LENGTH
<1>6. /\ HDR + msg_len \in Nat /\ HDR + msg_len > 0
      /\ HDR + msg_len <= Size(wire[k]) /\ Size(wire[k]) \in Nat
  BY <1>2, <1>3
<1>7. Holds(buf, buf.buffer, k, HDR + msg_len)
  BY <1>1, <1>6, HoldsFewer
<1>8. \A i \in 1 .. Len(wire) : Holds(buf, buf.buffer, i, HDR + msg_len) => i = k
  BY <1>6, <1>7, HoldsOne
<1>9. whole = {k}
  BY <1>1, <1>2, <1>5, <1>8, <1>7
<1>10. Given(h) = wire[CHOOSE i \in whole : TRUE]
  BY <1>9 DEF Given
<1> QED
  BY <1>9, <1>10

-----------------------------------------------------------------------------
(* Steps.                                                                  *)

LEMMA InitInv == Init => Inv
<1> SUFFICES ASSUME Init PROVE Inv
  OBVIOUS
<1>1. /\ wire = <<>> /\ line = <<>> /\ sock = <<>> /\ eof = FALSE /\ cuts = 0
      /\ pc = "top" /\ after = "parse" /\ length = 0 /\ n = 0
      /\ buf = buf_new /\ hp = [alloc |-> 0, at |-> 0]
      /\ msg_len = 0 /\ keep = FALSE /\ delivered = <<>>
  BY DEF Init
<1>2. WellFormed(buf) /\ buf.off = 0 /\ Contents(buf) = <<>>
  BY <1>1, NewKeeps
<1>3. buf.totallen \in Nat /\ buf \in buf_t(buf.totallen)
  BY <1>2 DEF WellFormed
<1>4. TypeOK
  <2>1. /\ wire \in Seq(Shape) /\ line \in Seq(Byte) /\ sock \in Seq(Byte)
        /\ delivered \in Seq(Shape \cup {Garbled})
        /\ Len(wire) = 0 /\ Len(sock) = 0
    BY <1>1, EmptySeq
  <2>2. /\ hp.alloc \in Nat /\ hp.at \in Nat /\ msg_len \in Nat
        /\ length \in Nat /\ n \in 0 .. SockCap /\ cuts \in 0 .. MaxCuts
        /\ Len(wire) <= MaxRecords /\ Len(sock) <= SockCap
    BY <1>1, <2>1, ReaderAssumption
  <2>3. eof \in BOOLEAN /\ keep \in BOOLEAN /\ pc = "top" /\ after = "parse"
    BY <1>1
  <2> QED
    BY <1>3, <2>1, <2>2, <2>3 DEF TypeOK
<1>5. Types
  BY <1>1, <1>2, <1>4 DEF Types
<1>6. Room
  BY <1>1 DEF Room, Within
<1>7. Received = <<>>
  BY <1>1, <1>2 DEF Received
<1>8. Placed
  <2>1. Len(Received) = 0 /\ Len(wire) = 0 /\ Len(sock) = 0 /\ Len(delivered) = 0
    BY <1>1, <1>7, EmptySeq
  <2>2. ByteAt(Received, 1, wire) = <<1, 0>>
    BY <2>1 DEF ByteAt
  <2>3. IsStream(Received, 1, wire)
    BY <1>1, <1>7, <2>1, <2>2, EmptySeq, ReaderAssumption DEF IsStream, IsRest
  <2>4. Whole(Received, 0, wire)
    BY <2>2 DEF Whole
  <2> QED
    BY <1>2, <2>1, <2>3, <2>4 DEF Placed
<1>9. AtWork
  BY <1>1 DEF AtWork, Within
<1> QED
  BY <1>5, <1>6, <1>8, <1>9 DEF Inv, Sync

(* The stream is where it was, whatever moved in memory.                   *)
LEMMA PlacedSame ==
  ASSUME Types, Placed, Contents(buf') = Contents(buf), buf'.off = buf.off,
         sock' = sock, line' = line, wire' = wire, delivered' = delivered
  PROVE  Placed' /\ Received' = Received
<1>1. Received' = Received
  BY DEF Received
<1> QED
  BY <1>1 DEF Placed

(* A step that moves the greenthread on and leaves its data alone.         *)
LEMMA MovesOn ==
  ASSUME Inv, UNCHANGED <<wire, line, sock, cuts, call, n, buf, hp, msg_len, keep, delivered>>,
         eof' \in BOOLEAN,
         pc' = pc \/ pc' \in Over \/ (pc = "wait" /\ pc' = "ioctl")
  PROVE  Inv'
<1>1. /\ wire' = wire /\ line' = line /\ sock' = sock /\ cuts' = cuts
      /\ after' = after /\ length' = length /\ n' = n /\ buf' = buf /\ hp' = hp
      /\ msg_len' = msg_len /\ keep' = keep /\ delivered' = delivered
  BY DEF call
<1>2. TypeOK'
  BY <1>1 DEF Inv, Types, TypeOK
<1>3. Types'
  BY <1>1, <1>2 DEF Inv, Types, Over
<1>4. Room'
  BY <1>1 DEF Inv, Room, Within, Over
<1>5. Sync'
  <2> SUFFICES ASSUME cuts = 0 PROVE Placed' /\ AtWork'
    BY <1>1 DEF Sync
  <2>1. Placed /\ AtWork
    BY DEF Inv, Sync
  <2>2. Placed' /\ Received' = Received
    BY <1>1, <2>1, PlacedSame DEF Inv
  <2>3. DataPointer' = DataPointer
    BY <1>1 DEF DataPointer
  <2>4. AtWork'
    BY <1>1, <2>1, <2>2, <2>3 DEF AtWork, Over, Within, Whole
  <2> QED
    BY <2>2, <2>4
<1> QED
  BY <1>3, <1>4, <1>5 DEF Inv

LEMMA SendInv ==
  ASSUME Inv, NEW s \in Shape, Send(s)
  PROVE  Inv'
<1> DEFINE b == [j \in 1 .. Size(s) |-> <<Len(wire) + 1, j - 1>>]
<1>1. /\ wire' = Append(wire, s) /\ line' = line \o b /\ sock' = sock /\ cuts' = cuts
      /\ eof' = eof /\ pc' = pc
      /\ after' = after /\ length' = length /\ n' = n /\ buf' = buf /\ hp' = hp
      /\ msg_len' = msg_len /\ keep' = keep /\ delivered' = delivered
  BY DEF Send, call
<1> HIDE DEF b
<1>2. /\ wire \in Seq(Shape) /\ Len(wire) \in Nat /\ Len(wire) < MaxRecords
      /\ line \in Seq(Byte) /\ line \in Seq(Cell) /\ sock \in Seq(Cell)
      /\ Contents(buf) \in Seq(Cell) /\ buf.off \in Nat /\ Len(sock) \in Nat /\ Len(line) \in Nat
      /\ Len(delivered) \in Nat /\ cuts \in Nat
  <2>1. Len(wire) < MaxRecords
    BY ReaderAssumption DEF Send, Inv, Types, TypeOK
  <2> QED
    BY <2>1, TypesFacts DEF Inv
<1>3. b \in Seq(Byte)
  <2>1. \A j \in 1 .. Size(s) : <<Len(wire) + 1, j - 1>> \in Byte
    <3> SUFFICES ASSUME NEW j \in 1 .. Size(s) PROVE <<Len(wire) + 1, j - 1>> \in Byte
      OBVIOUS
    <3>1. Len(wire) + 1 \in 1 .. MaxRecords /\ j - 1 \in 0 .. (Size(s) - 1)
      BY <1>2, ReaderAssumption, SizeFacts
    <3> QED
      BY <3>1, ReaderAssumption
  <2>2. Size(s) \in Nat
    BY SizeFacts
  <2>3. b \in [1 .. Size(s) -> Byte]
    BY <2>1 DEF b
  <2> QED
    BY <2>2, <2>3, SeqDef
<1>4. b \in Seq(Cell)
  BY <1>3, SeqMonotonic DEF Cell
<1>5. line' \in Seq(Byte)
  BY <1>1, <1>2, <1>3, ConcatProperties
<1>6. wire' \in Seq(Shape) /\ Len(wire') <= MaxRecords
  BY <1>1, <1>2, AppendProperties, ReaderAssumption
<1>7. Types'
  BY <1>1, <1>5, <1>6 DEF Inv, Types, TypeOK
<1>8. Room'
  BY <1>1 DEF Inv, Room, Within
<1>9. Sync'
  <2> SUFFICES ASSUME cuts = 0 PROVE Placed' /\ AtWork'
    BY <1>1 DEF Sync
  <2>1. Placed /\ AtWork
    BY DEF Inv, Sync
  <2>2. Received' = Received \o b
    <3>1. PICK c : c = Contents(buf) \o sock
      OBVIOUS
    <3>2. c \in Seq(Cell)
      BY <1>2, <3>1, ConcatProperties
    <3>3. PICK x : x = b
      OBVIOUS
    <3>4. line \in Seq(Cell) /\ x \in Seq(Cell)
      BY <1>2, <1>4, <3>3
    <3>5. (c \o line) \o x = c \o (line \o x)
      BY <3>2, <3>4, Associative
    <3> QED
      BY <1>1, <3>1, <3>3, <3>5 DEF Received
  <2>3. /\ Len(Received) = buf.off + Len(sock) + Len(line)
    BY ReceivedFacts DEF Inv
  <2>4. /\ IsStream(Received', Len(delivered') + 1, wire')
        /\ \A m \in 0 .. Len(Received) : Whole(Received, m, wire) => Whole(Received', m, wire')
    <3>1. IsStream(Received, Len(delivered) + 1, wire)
      BY <2>1 DEF Placed
    <3> QED
      BY <1>1, <1>2, <2>2, <3>1, MoreOfStream DEF b
  <2>5. buf.off \in 0 .. Len(Received) /\ buf.off + Len(sock) \in 0 .. Len(Received)
    BY <1>2, <2>3
  <2>6. Placed'
    BY <1>1, <2>1, <2>4, <2>5 DEF Placed
  <2>7. pc = "recv" => n \in 0 .. Len(Received)
    BY <1>2, <2>3 DEF Inv, Types
  <2>8. pc = "dispatch" => wire'[Len(delivered) + 1] = wire[Len(delivered) + 1]
    <3> SUFFICES ASSUME pc = "dispatch"
                 PROVE  wire'[Len(delivered) + 1] = wire[Len(delivered) + 1]
      OBVIOUS
    <3>1. Len(delivered) + 1 \in 1 .. Len(wire)
      BY <2>1, RecordFound DEF AtWork, Inv
    <3> QED
      BY <1>1, <1>2, <3>1, AppendProperties
  <2>9. DataPointer' = DataPointer
    BY <1>1 DEF DataPointer
  <2>10. AtWork'
    BY <1>1, <2>1, <2>4, <2>7, <2>8, <2>9 DEF AtWork, Within
  <2> QED
    BY <2>6, <2>10
<1> QED
  BY <1>7, <1>8, <1>9 DEF Inv

LEMMA ArriveInv ==
  ASSUME Inv, NEW m \in Arrivals, Arrive(m)
  PROVE  Inv'
<1>1. /\ sock' = sock \o SubSeq(line, 1, m) /\ line' = SubSeq(line, m + 1, Len(line))
      /\ cuts' = IF Cut(m) THEN cuts + 1 ELSE cuts
      /\ wire' = wire /\ eof' = eof /\ pc' = pc
      /\ after' = after /\ length' = length /\ n' = n /\ buf' = buf /\ hp' = hp
      /\ msg_len' = msg_len /\ keep' = keep /\ delivered' = delivered
  BY DEF Arrive, call
<1>2. m \in 1 .. Len(line) /\ Len(sock) + m <= SockCap /\ (Cut(m) => cuts < MaxCuts)
  BY DEF Arrivals
<1>3. /\ line \in Seq(Byte) /\ line \in Seq(Cell) /\ sock \in Seq(Cell) /\ sock \in Seq(Byte)
      /\ Contents(buf) \in Seq(Cell) /\ buf.off \in Nat /\ Len(sock) \in Nat /\ Len(line) \in Nat
      /\ cuts \in Nat
  BY TypesFacts DEF Inv
<1>4. PICK x, y : x = SubSeq(line, 1, m) /\ y = SubSeq(line, m + 1, Len(line))
  OBVIOUS
<1>5. /\ x \in Seq(Byte) /\ Len(x) = m /\ y \in Seq(Byte) /\ Len(y) = Len(line) - m
      /\ x \o y = line
  <2>1. m \in 0 .. Len(line)
    BY <1>2
  <2> QED
    BY <1>3, <1>4, <2>1, CutInTwo
<1>6. /\ sock' \in Seq(Byte) /\ line' \in Seq(Byte) /\ Len(sock') = Len(sock) + m
  BY <1>1, <1>3, <1>4, <1>5, ConcatProperties
<1>7. TypeOK'
  <2>1. cuts' \in 0 .. MaxCuts
    BY <1>1, <1>2, <1>3, ReaderAssumption DEF Inv, Types, TypeOK
  <2> QED
    BY <1>1, <1>2, <1>6, <2>1 DEF Inv, Types, TypeOK
<1>8. Types'
  <2>1. pc = "recv" => n \in 1 .. Len(sock')
    BY <1>2, <1>3, <1>6 DEF Inv, Types
  <2> QED
    BY <1>1, <1>7, <2>1 DEF Inv, Types
<1>9. Room'
  BY <1>1 DEF Inv, Room, Within
<1>10. Sync'
  <2> SUFFICES ASSUME cuts' = 0 PROVE Placed' /\ AtWork'
    BY DEF Sync
  <2>1. ~ Cut(m) /\ cuts = 0
    BY <1>1, <1>3
  <2>2. Placed /\ AtWork
    BY <2>1 DEF Inv, Sync
  <2>3. Received' = Received
    <3>1. x \in Seq(Cell) /\ y \in Seq(Cell)
      BY <1>5, SeqMonotonic DEF Cell
    <3>2. PICK c : c = Contents(buf)
      OBVIOUS
    <3>3. /\ (sock \o x) \o y = sock \o (x \o y) /\ sock \o x \in Seq(Cell)
          /\ (c \o (sock \o x)) \o y = c \o ((sock \o x) \o y)
          /\ (c \o sock) \o line = c \o (sock \o line)
      <4>1. (sock \o x) \o y = sock \o (x \o y) /\ sock \o x \in Seq(Cell)
        BY <1>3, <3>1, Associative
      <4>2. c \in Seq(Cell)
        BY <1>3, <3>2
      <4>3. (c \o (sock \o x)) \o y = c \o ((sock \o x) \o y)
        <5>1. PICK z \in Seq(Cell) : z = sock \o x
          BY <4>1
        <5>2. (c \o z) \o y = c \o (z \o y)
          BY <3>1, <4>2, Associative
        <5> QED
          BY <5>1, <5>2
      <4>4. (c \o sock) \o line = c \o (sock \o line)
        BY <1>3, <4>2, Associative
      <4> QED
        BY <4>1, <4>3, <4>4
    <3> QED
      BY <1>1, <1>4, <1>5, <3>2, <3>3 DEF Received
  <2>4. /\ Received \in Seq(Cell)
        /\ Len(Received) = buf.off + Len(sock) + Len(line)
        /\ \A i \in 1 .. Len(line) : Received[buf.off + Len(sock) + i] = line[i]
    BY ReceivedFacts DEF Inv
  <2>5. Whole(Received, buf.off + Len(sock) + m, wire)
    <3>1. CASE m < Len(line)
      <4>1. line[m + 1][2] = 0
        BY <2>1, <3>1 DEF Cut
      <4>2. /\ m + 1 \in 1 .. Len(line)
            /\ buf.off + Len(sock) + (m + 1) = buf.off + Len(sock) + m + 1
            /\ buf.off + Len(sock) + m + 1 <= Len(Received)
        BY <1>2, <1>3, <2>4, <3>1
      <4>3. Received[buf.off + Len(sock) + (m + 1)] = line[m + 1]
        BY <2>4, <4>2
      <4> QED
        BY <4>1, <4>2, <4>3 DEF Whole, ByteAt
    <3>2. CASE ~ (m < Len(line))
      <4>1. ~ (buf.off + Len(sock) + m + 1 <= Len(Received))
        BY <1>2, <1>3, <2>4, <3>2
      <4> QED
        BY <4>1 DEF Whole, ByteAt
    <3> QED
      BY <3>1, <3>2
  <2>6. Placed'
    <3>1. buf.off + (Len(sock) + m) = buf.off + Len(sock) + m
      BY <1>2, <1>3
    <3> QED
      BY <1>1, <1>6, <2>2, <2>3, <2>5, <3>1 DEF Placed
  <2>7. AtWork'
    <3>1. DataPointer' = DataPointer
      BY <1>1 DEF DataPointer
    <3> QED
      BY <1>1, <2>2, <2>3, <3>1 DEF AtWork, Within
  <2> QED
    BY <2>6, <2>7
<1> QED
  BY <1>8, <1>9, <1>10 DEF Inv

(* The call of _read makes room for what it is to read, and moves nothing  *)
(* in the stream.                                                          *)
LEMMA CallReadFacts ==
  ASSUME Types, NEW len \in Nat, NEW ret, CallRead(len, ret)
  PROVE  /\ WellFormed(buf') /\ buf'.off = buf.off /\ Contents(buf') = Contents(buf)
         /\ buf'.misalign + buf.off + (buf.off + len) <= buf'.totallen
         /\ buf'.misalign \in Nat /\ buf'.totallen \in Nat
         /\ length' = len /\ after' = ret /\ pc' = "ioctl"
<1>1. buf.off \in Nat /\ WellFormed(buf)
  BY TypesFacts
<1>2. PICK m \in Nat : m = buf.off + len
  BY <1>1
<1>3. buf' = buf_reserve(buf, m) /\ length' = len /\ after' = ret /\ pc' = "ioctl"
  BY <1>2 DEF CallRead, BUF_LENGTH
<1>4. /\ WellFormed(buf') /\ buf'.off = buf.off /\ Contents(buf') = Contents(buf)
      /\ buf'.misalign + buf'.off + m <= buf'.totallen
  BY <1>1, <1>3, ReserveKeeps
<1> QED
  BY <1>2, <1>3, <1>4 DEF WellFormed, buf_t

LEMMA TopInv ==
  ASSUME Inv, Top
  PROVE  Inv' /\ (pc' = "ioctl" => ~ HoldsRecord')
<1>1. /\ pc = "top" /\ wire' = wire /\ line' = line /\ sock' = sock /\ eof' = eof /\ cuts' = cuts
      /\ n' = n /\ hp' = hp /\ msg_len' = msg_len /\ keep' = keep /\ delivered' = delivered
  BY DEF Top, net
<1>2. /\ buf.off \in Nat /\ HDR \in Nat /\ HDR > 0 /\ wire \in Seq(Shape) /\ WellFormed(buf)
  BY TypesFacts DEF Inv
<1>3. CASE buf.off < HDR
  <2>1. CallRead(HDR, "parse")
    BY <1>3 DEF Top, BUF_LENGTH
  <2>2. /\ WellFormed(buf') /\ buf'.off = buf.off /\ Contents(buf') = Contents(buf)
        /\ length' = HDR /\ after' = "parse" /\ pc' = "ioctl"
    BY <1>2, <2>1, CallReadFacts DEF Inv
  <2>3. TypeOK'
    BY <1>1, <1>2, <2>2 DEF Inv, Types, TypeOK, WellFormed
  <2>4. Types'
    BY <2>2, <2>3 DEF Types
  <2>5. Room'
    BY <2>2 DEF Room, Within
  <2>6. Sync'
    <3> SUFFICES ASSUME cuts = 0 PROVE Placed' /\ AtWork'
      BY <1>1 DEF Sync
    <3>1. Placed
      BY DEF Inv, Sync
    <3>2. buf.off = 0
      <4>1. SUFFICES ASSUME buf.off > 0 PROVE FALSE
        BY <1>2
      <4>2. PICK k : /\ wire[k] \in Shape /\ Size(wire[k]) <= buf.off
        BY <3>1, <4>1, RecordFound DEF Inv
      <4> QED
        BY <1>2, <1>3, <4>2, SizeFacts
    <3>3. Placed'
      BY <1>1, <2>2, <3>1, PlacedSame DEF Inv
    <3>4. AtWork'
      BY <2>2, <3>2 DEF AtWork
    <3> QED
      BY <3>3, <3>4
  <2>7. ~ HoldsRecord'
    <3> SUFFICES ASSUME NEW k \in 1 .. Len(wire), Size(wire[k]) <= buf.off PROVE FALSE
      BY <1>1, <2>2 DEF HoldsRecord, BUF_LENGTH
    <3>1. wire[k] \in Shape
      BY <1>2, ElementOfSeq
    <3> QED
      BY <1>2, <1>3, <3>1, SizeFacts
  <2> QED
    BY <2>4, <2>5, <2>6, <2>7 DEF Inv
<1>4. CASE ~ (buf.off < HDR)
  <2>1. pc' = "parse" /\ buf' = buf /\ after' = after /\ length' = length
    BY <1>4 DEF Top, BUF_LENGTH, call
  <2>2. Types'
    BY <1>1, <2>1 DEF Inv, Types, TypeOK
  <2>3. Room'
    BY <1>2, <1>4, <2>1 DEF Room, Within
  <2>4. Sync'
    <3> SUFFICES ASSUME cuts = 0 PROVE Placed' /\ AtWork'
      BY <1>1 DEF Sync
    <3>1. Placed
      BY DEF Inv, Sync
    <3>2. Placed'
      BY <1>1, <2>1, <3>1, PlacedSame DEF Inv
    <3>3. AtWork'
      BY <1>2, <1>4, <2>1 DEF AtWork, Within
    <3> QED
      BY <3>2, <3>3
  <2> QED
    BY <2>1, <2>2, <2>3, <2>4 DEF Inv
<1> QED
  BY <1>3, <1>4

LEMMA IoctlInv ==
  ASSUME Inv, Ioctl
  PROVE  Inv'
<1>1. /\ pc = "ioctl" /\ wire' = wire /\ line' = line /\ sock' = sock /\ eof' = eof /\ cuts' = cuts
      /\ after' = after /\ length' = length
      /\ n' = Len(sock) /\ hp' = hp /\ msg_len' = msg_len /\ keep' = keep /\ delivered' = delivered
  BY DEF Ioctl, net, call
<1>2. /\ buf.off \in Nat /\ buf.misalign \in Nat /\ buf.totallen \in Nat /\ WellFormed(buf)
      /\ HDR \in Nat /\ msg_len \in Nat /\ Len(sock) \in Nat
  BY TypesFacts DEF Inv
<1>3. n' \in 0 .. SockCap
  BY <1>1, <1>2, ReaderAssumption DEF Inv, Types, TypeOK
<1>4. CASE Len(sock) = 0
  <2>1. pc' = "wait" /\ buf' = buf
    BY <1>1, <1>4 DEF Ioctl
  <2>2. Types'
    BY <1>1, <1>3, <2>1 DEF Inv, Types, TypeOK
  <2>3. Room'
    BY <1>1, <2>1 DEF Inv, Room, Within
  <2>4. Sync'
    <3> SUFFICES ASSUME cuts = 0 PROVE Placed' /\ AtWork'
      BY <1>1 DEF Sync
    <3>1. Placed /\ AtWork
      BY DEF Inv, Sync
    <3>2. Placed'
      BY <1>1, <2>1, <3>1, PlacedSame DEF Inv
    <3>3. AtWork'
      BY <1>1, <2>1, <3>1 DEF AtWork, Within
    <3> QED
      BY <3>2, <3>3
  <2> QED
    BY <2>2, <2>3, <2>4 DEF Inv
<1>5. CASE Len(sock) # 0
  <2>1. PICK m \in Nat : m = buf.off + Len(sock)
    BY <1>2
  <2>2. pc' = "recv" /\ buf' = buf_reserve(buf, m)
    BY <1>1, <1>5, <2>1 DEF Ioctl, BUF_LENGTH
  <2>3. /\ WellFormed(buf') /\ buf'.off = buf.off /\ Contents(buf') = Contents(buf)
        /\ buf'.misalign + buf'.off + m <= buf'.totallen
        /\ buf'.misalign <= buf.misalign /\ buf.totallen <= buf'.totallen
        /\ buf'.misalign \in Nat /\ buf'.totallen \in Nat
    <3>1. /\ WellFormed(buf') /\ buf'.off = buf.off /\ Contents(buf') = Contents(buf)
          /\ buf'.misalign + buf'.off + m <= buf'.totallen
          /\ buf'.misalign <= buf.misalign /\ buf.totallen <= buf'.totallen
      BY <1>2, <2>2, ReserveKeeps
    <3> QED
      BY <3>1 DEF WellFormed, buf_t
  <2>4. Types'
    <3>1. TypeOK'
      BY <1>1, <1>3, <2>2, <2>3 DEF Inv, Types, TypeOK, WellFormed
    <3>2. n' \in 1 .. Len(sock')
      BY <1>1, <1>2, <1>5
    <3> QED
      BY <2>3, <3>1, <3>2 DEF Types
  <2>5. Room'
    <3>1. buf'.misalign + buf'.off + n' <= buf'.totallen
      BY <1>1, <1>2, <2>1, <2>3
    <3>2. after = "dispatch" => buf'.misalign + HDR + msg_len <= buf'.totallen
      <4>1. after = "dispatch" => buf.misalign + HDR + msg_len <= buf.totallen
        BY <1>1 DEF Inv, Room, Within
      <4> QED
        BY <1>2, <2>3, <4>1
    <3>3. after = "parse" => length = HDR
      BY <1>1 DEF Inv, Room, Within
    <3> QED
      BY <1>1, <2>2, <3>1, <3>2, <3>3 DEF Room, Within
  <2>6. Sync'
    <3> SUFFICES ASSUME cuts = 0 PROVE Placed' /\ AtWork'
      BY <1>1 DEF Sync
    <3>1. Placed /\ AtWork
      BY DEF Inv, Sync
    <3>2. Placed' /\ Received' = Received
      BY <1>1, <2>3, <3>1, PlacedSame DEF Inv
    <3>3. buf.off = 0 /\ after = "parse" /\ length = HDR
      BY <1>1, <3>1 DEF AtWork, Within
    <3>4. Whole(Received, Len(sock), wire)
      <4>1. buf.off + Len(sock) = Len(sock)
        BY <1>2, <3>3
      <4> QED
        BY <3>1, <4>1 DEF Placed
    <3>5. AtWork'
      BY <1>1, <2>2, <2>3, <3>2, <3>3, <3>4 DEF AtWork, Within
    <3> QED
      BY <3>2, <3>5
  <2> QED
    BY <2>4, <2>5, <2>6 DEF Inv
<1> QED
  BY <1>4, <1>5

LEMMA RecvInv ==
  ASSUME Inv, Recv
  PROVE  Inv'
<1>1. /\ pc = "recv" /\ wire' = wire /\ line' = line /\ eof' = eof /\ cuts' = cuts
      /\ after' = after /\ length' = length /\ n' = n
      /\ hp' = hp /\ msg_len' = msg_len /\ keep' = keep /\ delivered' = delivered
      /\ sock' = SubSeq(sock, n + 1, Len(sock))
      /\ buf' = [Store(buf, buf.buffer, SubSeq(sock, 1, n)) EXCEPT !.off = @ + n]
      /\ pc' = IF buf'.off >= length THEN after ELSE "ioctl"
  BY DEF Recv, call, BUF_LENGTH
<1>2. /\ buf.off \in Nat /\ buf.misalign \in Nat /\ buf.totallen \in Nat /\ WellFormed(buf)
      /\ HDR \in Nat /\ HDR > 0 /\ msg_len \in Nat /\ Len(sock) \in Nat /\ Len(line) \in Nat
      /\ sock \in Seq(Byte) /\ sock \in Seq(Cell) /\ line \in Seq(Cell)
      /\ n \in 1 .. Len(sock) /\ length \in Nat /\ after \in {"parse", "dispatch"}
  BY <1>1, TypesFacts DEF Inv, Types, TypeOK
<1>3. PICK x, y : x = SubSeq(sock, 1, n) /\ y = SubSeq(sock, n + 1, Len(sock))
  OBVIOUS
<1>4. /\ x \in Seq(Byte) /\ Len(x) = n /\ y \in Seq(Byte) /\ Len(y) = Len(sock) - n
      /\ x \o y = sock
  <2>1. n \in 0 .. Len(sock)
    BY <1>2
  <2> QED
    BY <1>2, <1>3, <2>1, CutInTwo
<1>5. buf.misalign + buf.off + n <= buf.totallen
  BY <1>1 DEF Inv, Room
<1>6. /\ WellFormed(buf') /\ buf'.off = buf.off + n
      /\ buf'.totallen = buf.totallen /\ buf'.misalign = buf.misalign
      /\ buf.off = 0 => Contents(buf') = x
  <2>1. buf' = [Store(buf, buf.buffer, x) EXCEPT !.off = @ + Len(x)]
    BY <1>1, <1>3, <1>4
  <2>2. buf.misalign + buf.off + Len(x) <= buf.totallen
    BY <1>4, <1>5
  <2> QED
    BY <1>2, <1>4, <2>1, <2>2, StoreKeeps
<1>7. pc' \in {"ioctl", after}
  BY <1>1
<1>8. Types'
  <2>1. Len(sock') <= SockCap /\ sock' \in Seq(Byte)
    <3>1. sock' = y /\ Len(sock) <= SockCap
      BY <1>1, <1>3 DEF Inv, Types, TypeOK
    <3>2. Len(sock) - n <= SockCap
      BY <1>2, <3>1, ReaderAssumption
    <3> QED
      BY <1>4, <3>1, <3>2
  <2>2. TypeOK'
    BY <1>1, <1>2, <1>6, <1>7, <2>1 DEF Inv, Types, TypeOK, WellFormed
  <2> QED
    BY <1>2, <1>6, <1>7, <2>2 DEF Types
<1>9. Room'
  <2>1. after = "dispatch" => buf'.misalign + HDR + msg_len <= buf'.totallen
    BY <1>1, <1>6 DEF Inv, Room, Within
  <2>2. pc' # "recv" /\ (pc' = "dispatch" => after = "dispatch")
    BY <1>2, <1>7
  <2>3. after = "parse" => length = HDR
    BY <1>1 DEF Inv, Room, Within
  <2>4. pc' = "parse" => HDR <= buf'.off
    BY <1>1, <1>2, <2>3
  <2> QED
    BY <1>1, <2>1, <2>2, <2>3, <2>4 DEF Room
<1>10. Sync'
  <2> SUFFICES ASSUME cuts = 0 PROVE Placed' /\ AtWork'
    BY <1>1 DEF Sync
  <2>1. Placed /\ AtWork
    BY DEF Inv, Sync
  <2>2. buf.off = 0 /\ after = "parse" /\ length = HDR /\ Whole(Received, n, wire)
    BY <1>1, <2>1 DEF AtWork, Within
  <2>3. Received = sock \o line
    <3>1. Received = Contents(buf) \o (sock \o line)
      BY ReceivedFacts DEF Inv
    <3>2. Contents(buf) = <<>>
      BY <2>2, TypesFacts, EmptySeq DEF Inv
    <3>3. sock \o line \in Seq(Cell)
      BY <1>2, ConcatProperties
    <3> QED
      BY <3>1, <3>2, <3>3, ConcatEmptySeq
  <2>4. Received' = Received
    BY <1>1, <1>3, <1>4, <1>6, <2>2, <2>3 DEF Received
  <2>5. buf'.off = n /\ buf'.off + Len(sock') = buf.off + Len(sock)
    <3>1. sock' = y /\ Len(sock') = Len(sock) - n
      BY <1>1, <1>3, <1>4
    <3>2. buf'.off = buf.off + n
      BY <1>6
    <3> QED
      BY <1>2, <2>2, <3>1, <3>2
  <2>6. Placed'
    BY <1>1, <2>1, <2>2, <2>4, <2>5 DEF Placed
  <2>7. n >= HDR
    <3>1. Len(Received) = buf.off + Len(sock) + Len(line)
      BY ReceivedFacts DEF Inv
    <3>2. n \in 1 .. Len(Received) /\ Len(Received) > 0
      BY <1>2, <2>2, <3>1
    <3>3. IsStream(Received, Len(delivered) + 1, wire)
      BY <2>1 DEF Placed
    <3>4. Size(wire[Len(delivered) + 1]) <= n
      BY <2>2, <3>2, <3>3, WholeFirst
    <3>5. wire[Len(delivered) + 1] \in Shape
      BY <3>2, <3>3, FirstRecord
    <3> QED
      BY <1>2, <3>4, <3>5, SizeFacts
  <2>8. pc' = "parse"
    BY <1>1, <2>2, <2>5, <2>7
  <2>9. AtWork'
    BY <1>2, <2>5, <2>8 DEF AtWork, Within
  <2> QED
    BY <2>6, <2>9
<1> QED
  BY <1>8, <1>9, <1>10 DEF Inv

LEMMA ReadingFacts ==
  ASSUME Types, NEW p, NEW h \in Reading(p)
  PROVE  h.type \in Type /\ h.len \in Nat /\ h.pad \in Nat
<1>1. CASE h \in Headers
  BY <1>1, SizeFacts DEF Headers
<1>2. ASSUME NEW k \in 1 .. Len(wire), h = HeaderOf(wire[k])
      PROVE  h.type \in Type /\ h.len \in Nat /\ h.pad \in Nat
  <2>1. wire[k] \in Shape
    BY TypesFacts, ElementOfSeq
  <2> QED
    BY <1>2, <2>1, SizeFacts DEF HeaderOf
<1>3. h \in Headers \/ \E k \in 1 .. Len(wire) : h = HeaderOf(wire[k])
  BY DEF Reading, HeadersAt
<1> QED
  BY <1>1, <1>2, <1>3

(* What a buffer holds is told by its contents.                            *)
LEMMA HoldsSame ==
  ASSUME NEW b, WellFormed(b), NEW c, WellFormed(c), Contents(c) = Contents(b),
         NEW k, NEW cnt \in Nat, cnt <= b.off, Holds(c, c.buffer, k, cnt)
  PROVE  Holds(b, b.buffer, k, cnt)
<1>1. /\ b.off \in Nat /\ b.buffer \in Nat /\ b.totallen \in Nat
      /\ b.buffer + b.off <= b.totallen
      /\ c.off \in Nat /\ c.buffer \in Nat
  BY DEF WellFormed, buf_t
<1>2. /\ b.off = c.off
      /\ \A i \in 1 .. b.off : Contents(b)[i] = b.mem[b.buffer + i - 1]
      /\ \A i \in 1 .. c.off : Contents(c)[i] = c.mem[c.buffer + i - 1]
  BY ContentsSeq
<1>3. ASSUME NEW j \in 0 .. (cnt - 1)
      PROVE  b.buffer + j < b.totallen /\ b.mem[b.buffer + j] = <<k, j>>
  <2>1. /\ j + 1 \in 1 .. b.off /\ b.buffer + (j + 1) - 1 = b.buffer + j
        /\ c.buffer + (j + 1) - 1 = c.buffer + j
        /\ b.buffer + j < b.totallen
    BY <1>1
  <2>2. Contents(b)[j + 1] = b.mem[b.buffer + j]
    BY <1>2, <2>1
  <2>3. Contents(c)[j + 1] = c.mem[c.buffer + j]
    BY <1>2, <2>1
  <2>4. c.mem[c.buffer + j] = <<k, j>>
    BY DEF Holds
  <2> QED
    BY <2>1, <2>2, <2>3, <2>4
<1> QED
  BY <1>3 DEF Holds

LEMMA ParseInv ==
  ASSUME Inv, Parse
  PROVE  Inv' /\ (pc' = "ioctl" => ~ HoldsRecord')
<1>1. /\ pc = "parse" /\ wire' = wire /\ line' = line /\ sock' = sock /\ eof' = eof /\ cuts' = cuts
      /\ n' = n /\ hp' = DataPointer /\ keep' = keep /\ delivered' = delivered
  BY DEF Parse, net
<1>2. /\ buf.off \in Nat /\ HDR \in Nat /\ HDR > 0 /\ wire \in Seq(Shape) /\ WellFormed(buf)
      /\ buf.totallen \in Nat /\ buf.buffer = buf.misalign /\ buf.misalign \in Nat
      /\ buf.misalign + buf.off <= buf.totallen
  BY TypesFacts DEF Inv
<1>3. PICK h \in Reading(DataPointer) :
        LET lenreq == HDR + h.len + h.pad - BUF_LENGTH(buf)
        IN  /\ msg_len' = h.len
            /\ IF lenreq > 0 THEN CallRead(lenreq, "dispatch")
               ELSE pc' = "dispatch" /\ UNCHANGED <<buf, call>>
  BY <1>1 DEF Parse
<1>4. h.len \in Nat /\ h.pad \in Nat
  BY ReadingFacts DEF Inv
<1>5. PICK lenreq : lenreq = HDR + h.len + h.pad - buf.off
  OBVIOUS
<1>6. /\ msg_len' = h.len /\ msg_len' \in Nat
      /\ IF lenreq > 0 THEN CallRead(lenreq, "dispatch")
         ELSE pc' = "dispatch" /\ buf' = buf /\ after' = after /\ length' = length
  BY <1>3, <1>4, <1>5 DEF BUF_LENGTH, call
<1>7. hp'.alloc \in Nat /\ hp'.at \in Nat
  BY <1>1, <1>2 DEF DataPointer
<1>8. ASSUME cuts = 0
      PROVE  /\ Placed /\ buf.off > 0 /\ ~ (lenreq > 0)
             /\ h.len = wire[Len(delivered) + 1].len
  <2>1. Placed /\ buf.off > 0
    BY <1>1, <1>8 DEF Inv, Sync, AtWork
  <2>2. PICK s \in Shape : /\ s = wire[Len(delivered) + 1] /\ Size(s) <= buf.off
                           /\ Reading(DataPointer) = {HeaderOf(s)}
    BY <2>1, RecordFound DEF Inv
  <2>3. h.len = s.len /\ h.pad = s.pad
    BY <2>2 DEF HeaderOf
  <2>4. ~ (lenreq > 0)
    BY <1>2, <1>5, <2>2, <2>3, SizeFacts
  <2> QED
    BY <2>1, <2>2, <2>3, <2>4
<1>9. CASE lenreq > 0
  <2>1. lenreq \in Nat
    BY <1>2, <1>4, <1>5, <1>9
  <2>2. /\ WellFormed(buf') /\ buf'.off = buf.off /\ Contents(buf') = Contents(buf)
        /\ buf'.misalign + buf.off + (buf.off + lenreq) <= buf'.totallen
        /\ buf'.misalign \in Nat /\ buf'.totallen \in Nat
        /\ length' = lenreq /\ after' = "dispatch" /\ pc' = "ioctl"
    BY <1>6, <1>9, <2>1, CallReadFacts DEF Inv
  <2>3. TypeOK'
    BY <1>1, <1>6, <1>7, <2>1, <2>2 DEF Inv, Types, TypeOK, WellFormed
  <2>4. Types'
    BY <2>2, <2>3 DEF Types
  <2>5. Room'
    <3>1. buf'.misalign + HDR + h.len <= buf'.totallen
      <4>1. buf.off + lenreq = HDR + h.len + h.pad
        BY <1>2, <1>4, <1>5
      <4>2. PICK m, t : m = buf'.misalign /\ t = buf'.totallen
        OBVIOUS
      <4>3. m \in Nat /\ t \in Nat /\ m + buf.off + (HDR + h.len + h.pad) <= t
        BY <2>2, <4>1, <4>2
      <4>4. m + HDR + h.len <= t
        BY <1>2, <1>4, <4>3
      <4> QED
        BY <4>2, <4>4
    <3> QED
      BY <1>6, <2>2, <3>1 DEF Room, Within
  <2>6. Sync'
    BY <1>1, <1>8, <1>9 DEF Sync
  <2>7. ~ HoldsRecord'
    <3> SUFFICES ASSUME NEW k \in 1 .. Len(wire), Size(wire[k]) <= buf.off,
                        Holds(buf', buf'.buffer, k, Size(wire[k]))
                 PROVE  FALSE
      BY <1>1, <2>2 DEF HoldsRecord, BUF_LENGTH
    <3>1. wire[k] \in Shape
      BY <1>2, ElementOfSeq
    <3>2. /\ Size(wire[k]) \in Nat /\ HDR <= Size(wire[k])
          /\ Size(wire[k]) = HDR + wire[k].len + wire[k].pad
      BY <3>1, SizeFacts
    <3>3. Holds(buf, buf.buffer, k, Size(wire[k]))
      BY <1>2, <2>2, <3>2, HoldsSame
    <3>4. Holds(buf, buf.buffer, k, HDR)
      BY <1>2, <3>2, <3>3, HoldsFewer
    <3>5. h = HeaderOf(wire[k])
      BY <3>4, HeaderFound DEF Inv
    <3>6. h.len = wire[k].len /\ h.pad = wire[k].pad
      BY <3>5 DEF HeaderOf
    <3> QED
      BY <1>2, <1>4, <1>5, <1>9, <3>2, <3>6
  <2> QED
    BY <2>4, <2>5, <2>6, <2>7 DEF Inv
<1>10. CASE ~ (lenreq > 0)
  <2>1. pc' = "dispatch" /\ buf' = buf /\ after' = after /\ length' = length
    BY <1>6, <1>10
  <2>2. Types'
    BY <1>1, <1>6, <1>7, <2>1 DEF Inv, Types, TypeOK
  <2>3. Room'
    <3>1. buf.misalign + HDR + h.len <= buf.totallen
      BY <1>2, <1>4, <1>5, <1>10
    <3> QED
      BY <1>6, <2>1, <3>1 DEF Room, Within
  <2>4. Sync'
    <3> SUFFICES ASSUME cuts = 0 PROVE Placed' /\ AtWork'
      BY <1>1 DEF Sync
    <3>1. Placed'
      BY <1>1, <1>8, <2>1, PlacedSame DEF Inv
    <3>2. DataPointer' = DataPointer
      BY <2>1 DEF DataPointer
    <3>3. AtWork'
      BY <1>1, <1>6, <1>8, <2>1, <3>2 DEF AtWork, Within
    <3> QED
      BY <3>1, <3>3
  <2> QED
    BY <2>1, <2>2, <2>3, <2>4 DEF Inv
<1> QED
  BY <1>9, <1>10

LEMMA GivenType ==
  ASSUME Types, NEW h
  PROVE  Given(h) \in Shape \cup {Garbled}
<1> DEFINE whole == {k \in 1 .. Len(wire) :
                       /\ h.type = wire[k].type /\ msg_len = wire[k].len
                       /\ HDR + msg_len <= BUF_LENGTH(buf)
                       /\ Holds(buf, buf.buffer, k, HDR + msg_len)}
<1>1. Given(h) = IF whole = {} THEN Garbled ELSE wire[CHOOSE k \in whole : TRUE]
  BY DEF Given
<1>2. \A k \in whole : wire[k] \in Shape
  BY TypesFacts, ElementOfSeq
<1> HIDE DEF whole
<1> QED
  BY <1>1, <1>2

(* What is drained for a record, by its handler and after it: the header,  *)
(* what its type has for content, and the padding.                         *)
LEMMA Drained ==
  ASSUME Types, NEW type \in Type, NEW pad \in Nat
  PROVE  LET t == CASE type = "BEGIN" -> HDR + BR
                    [] type = "ABORT" -> HDR
                    [] OTHER          -> HDR + msg_len
         IN  t + pad \in Nat /\ buf_drain(Consume(buf, type), pad) = buf_drain(buf, t + pad)
<1>1. /\ WellFormed(buf) /\ HDR \in Nat /\ BR \in Nat /\ msg_len \in Nat
      /\ HDR + BR \in Nat /\ HDR + msg_len \in Nat
  BY TypesFacts
<1>2. CASE type = "BEGIN"
  <2>1. Consume(buf, type) = buf_drain(buf, HDR + BR)
    BY <1>2 DEF Consume
  <2>2. buf_drain(buf_drain(buf, HDR + BR), pad) = buf_drain(buf, (HDR + BR) + pad)
    BY <1>1, DrainTwice
  <2> QED
    BY <1>1, <1>2, <2>1, <2>2
<1>3. CASE type = "ABORT"
  <2>1. Consume(buf, type) = buf_drain(buf, HDR)
    BY <1>3 DEF Consume
  <2>2. buf_drain(buf_drain(buf, HDR), pad) = buf_drain(buf, HDR + pad)
    BY <1>1, DrainTwice
  <2> QED
    BY <1>1, <1>3, <2>1, <2>2
<1>4. CASE type \notin {"BEGIN", "ABORT"}
  <2>1. Consume(buf, type) = buf_drain(buf, HDR + msg_len)
    <3>1. CASE type = "STDIN"
      <4>1. Consume(buf, type) = buf_drain(buf_drain(buf, HDR), msg_len)
        BY <3>1 DEF Consume
      <4> QED
        BY <1>1, <4>1, DrainTwice
    <3>2. CASE type \in {"PARAMS", "OTHER"}
      BY <3>2 DEF Consume
    <3> QED
      BY <1>4, <3>1, <3>2 DEF Type
  <2>2. buf_drain(buf_drain(buf, HDR + msg_len), pad) = buf_drain(buf, (HDR + msg_len) + pad)
    BY <1>1, DrainTwice
  <2> QED
    BY <1>1, <1>4, <2>1, <2>2
<1> QED
  BY <1>2, <1>3, <1>4

(* The loop hands over the next record of the stream, whole, and nothing   *)
(* else of what it holds is gone.                                          *)
LEMMA DispatchInv ==
  ASSUME Inv, Dispatch
  PROVE  /\ Inv' /\ pc' \in {"top", "done"}
         /\ cuts = 0 => /\ Len(delivered) + 1 \in 1 .. Len(wire)
                        /\ delivered' = Append(delivered, wire[Len(delivered) + 1])
                        /\ wire' = wire
<1>1. /\ pc = "dispatch" /\ wire' = wire /\ line' = line /\ sock' = sock /\ eof' = eof /\ cuts' = cuts
      /\ after' = after /\ length' = length
      /\ n' = n /\ hp' = hp /\ msg_len' = msg_len
  BY DEF Dispatch, net, call
<1>2. /\ buf.off \in Nat /\ HDR \in Nat /\ wire \in Seq(Shape) /\ WellFormed(buf)
      /\ delivered \in Seq(Shape \cup {Garbled}) /\ Len(delivered) \in Nat
      /\ sock \in Seq(Cell) /\ line \in Seq(Cell) /\ Len(sock) \in Nat /\ Len(line) \in Nat
      /\ Contents(buf) \in Seq(Cell) /\ Len(Contents(buf)) = buf.off
      /\ BR \in Nat /\ msg_len \in Nat
  BY TypesFacts DEF Inv
<1>3. PICK h \in Reading(hp) :
        /\ buf' = buf_drain(Consume(buf, h.type), h.pad)
        /\ delivered' = Append(delivered, Given(h))
        /\ IF h.type = "BEGIN"
             THEN keep' \in (IF Given(h) = Garbled THEN BOOLEAN ELSE {Given(h).keep})
             ELSE UNCHANGED keep
        /\ pc' = IF Disconnects(h) THEN "done" ELSE "top"
  BY DEF Dispatch
<1>4. h.type \in Type /\ h.len \in Nat /\ h.pad \in Nat
  BY ReadingFacts DEF Inv
<1>5. PICK t : t = CASE h.type = "BEGIN" -> HDR + BR
                     [] h.type = "ABORT" -> HDR
                     [] OTHER            -> HDR + msg_len
  OBVIOUS
<1>6. PICK z \in Nat : z = t + h.pad /\ buf' = buf_drain(buf, z)
  BY <1>3, <1>4, <1>5, Drained DEF Inv
<1>7. /\ WellFormed(buf')
      /\ buf'.off = IF z >= buf.off THEN 0 ELSE buf.off - z
      /\ Contents(buf') = SubSeq(Contents(buf), z + 1, Len(Contents(buf)))
  BY <1>2, <1>6, DrainKeeps
<1>8. pc' \in {"top", "done"}
  BY <1>3
<1>9. Given(h) \in Shape \cup {Garbled}
  BY GivenType DEF Inv
<1>10. TypeOK'
  <2>1. delivered' \in Seq(Shape \cup {Garbled})
    BY <1>2, <1>3, <1>9, AppendProperties
  <2>2. keep' \in BOOLEAN
    <3>1. CASE h.type # "BEGIN"
      BY <1>3, <3>1 DEF Inv, Types, TypeOK
    <3>2. CASE h.type = "BEGIN" /\ Given(h) = Garbled
      BY <1>3, <3>2
    <3>3. CASE h.type = "BEGIN" /\ Given(h) # Garbled
      <4>1. Given(h).keep \in BOOLEAN
        BY <1>9, <3>3, SizeFacts
      <4> QED
        BY <1>3, <3>3, <4>1
    <3> QED
      BY <3>1, <3>2, <3>3
  <2>3. buf'.totallen \in Nat /\ buf' \in buf_t(buf'.totallen)
    BY <1>7 DEF WellFormed
  <2> QED
    BY <1>1, <1>8, <2>1, <2>2, <2>3 DEF Inv, Types, TypeOK, Over
<1>11. Types'
  BY <1>7, <1>8, <1>10 DEF Types
<1>12. Room'
  BY <1>8 DEF Room, Within
<1>13. ASSUME cuts = 0
       PROVE  /\ Len(delivered) + 1 \in 1 .. Len(wire)
              /\ delivered' = Append(delivered, wire[Len(delivered) + 1])
              /\ Placed' /\ AtWork'
  <2>1. /\ Placed /\ buf.off > 0 /\ hp = DataPointer
        /\ msg_len = wire[Len(delivered) + 1].len
    BY <1>1, <1>13 DEF Inv, Sync, AtWork
  <2>2. PICK k \in 1 .. Len(wire) :
          /\ k = Len(delivered) + 1 /\ wire[k] \in Shape /\ Size(wire[k]) <= buf.off
          /\ Reading(DataPointer) = {HeaderOf(wire[k])}
    BY <2>1, RecordFound DEF Inv
  <2>3. h = HeaderOf(wire[k]) /\ h.type = wire[k].type /\ h.len = wire[k].len /\ h.pad = wire[k].pad
    BY <2>1, <2>2 DEF HeaderOf
  <2>4. Given(h) = wire[k]
    BY <2>1, <2>2, <2>3, RecordGiven DEF Inv
  <2>5. delivered' = Append(delivered, wire[k]) /\ Len(delivered') = k
    BY <1>2, <1>3, <1>9, <2>2, <2>4, AppendProperties
  <2>6. z = Size(wire[k])
    <3>1. /\ wire[k].type = "BEGIN" => wire[k].len = BR
          /\ wire[k].type = "ABORT" => wire[k].len = 0
      BY <2>2, ReaderAssumption
    <3>2. t = HDR + wire[k].len
      BY <1>2, <1>5, <2>1, <2>2, <2>3, <3>1
    <3> QED
      BY <1>6, <2>2, <2>3, <3>2, SizeFacts
  <2>7. z <= buf.off /\ buf'.off = buf.off - z
    BY <1>2, <1>7, <2>2, <2>6
  <2>8. Received' = SubSeq(Received, z + 1, Len(Received))
    <3>1. PICK c : c = Contents(buf)
      OBVIOUS
    <3>2. PICK d : d = SubSeq(c, z + 1, Len(c))
      OBVIOUS
    <3>3. c \in Seq(Cell) /\ z \in 0 .. Len(c) /\ d \in Seq(Cell)
      <4>1. c \in Seq(Cell) /\ z \in 0 .. Len(c)
        BY <1>2, <2>7, <3>1
      <4>2. d \in Seq(Cell)
        BY <3>2, <4>1, CutInTwo
      <4> QED
        BY <4>1, <4>2
    <3>4. PICK r : r = sock \o line
      OBVIOUS
    <3>5. r \in Seq(Cell) /\ (d \o sock) \o line = d \o r
      <4>1. (d \o sock) \o line = d \o (sock \o line) /\ sock \o line \in Seq(Cell)
        BY <1>2, <3>3, Associative
      <4> QED
        BY <3>4, <4>1
    <3>6. SubSeq(c \o r, z + 1, Len(c \o r)) = d \o r
      BY <3>2, <3>3, <3>5, DropOfConcat
    <3>7. Received = c \o r
      BY <3>1, <3>4, ReceivedFacts DEF Inv
    <3>8. Received' = (d \o sock) \o line
      BY <1>1, <1>7, <3>1, <3>2 DEF Received
    <3> QED
      BY <3>5, <3>6, <3>7, <3>8
  <2>9. Len(Received) = buf.off + Len(sock) + Len(line)
    BY ReceivedFacts DEF Inv
  <2>10. /\ IsStream(Received', k + 1, wire)
         /\ \A m \in z .. Len(Received) : Whole(Received, m, wire) => Whole(Received', m - z, wire)
    <3>1. Len(Received) > 0
      BY <1>2, <2>1, <2>9
    <3>2. IsStream(Received, k, wire)
      BY <2>1, <2>2 DEF Placed
    <3> QED
      BY <2>6, <2>8, <3>1, <3>2, RestOfStream
  <2>11. /\ buf.off \in z .. Len(Received) /\ buf.off + Len(sock) \in z .. Len(Received)
         /\ buf'.off + Len(sock') = buf.off + Len(sock) - z
    BY <1>1, <1>2, <2>7, <2>9
  <2>12. Placed'
    BY <1>1, <2>1, <2>5, <2>7, <2>10, <2>11 DEF Placed
  <2>13. AtWork'
    BY <1>8 DEF AtWork, Within
  <2> QED
    BY <2>2, <2>5, <2>12, <2>13
<1> QED
  BY <1>1, <1>8, <1>11, <1>12, <1>13 DEF Inv, Sync

LEMMA NextInv ==
  ASSUME Inv, [Next]_vars
  PROVE  Inv'
<1>1. ASSUME NEW s \in Shape, Send(s) PROVE Inv'
  BY <1>1, SendInv
<1>2. ASSUME NEW m \in Arrivals, Arrive(m) PROVE Inv'
  BY <1>2, ArriveInv
<1>3. CASE Close
  <2>1. eof' \in BOOLEAN
    BY <1>3 DEF Close
  <2> QED
    BY <1>3, <2>1, MovesOn DEF Close
<1>4. CASE Top
  BY <1>4, TopInv
<1>5. CASE Ioctl
  BY <1>5, IoctlInv
<1>6. CASE Resume
  <2>1. eof' \in BOOLEAN
    BY <1>6 DEF Resume, net, Inv, Types, TypeOK
  <2> QED
    BY <1>6, <2>1, MovesOn DEF Resume, net
<1>7. CASE Recv
  BY <1>7, RecvInv
<1>8. CASE Parse
  BY <1>8, ParseInv
<1>9. CASE BadVersion \/ ReadFails \/ HandlerFails
  <2>1. eof' \in BOOLEAN /\ pc' \in Over
    BY <1>9 DEF BadVersion, ReadFails, HandlerFails, Fail, net, Inv, Types, TypeOK, Over
  <2> QED
    BY <1>9, <2>1, MovesOn DEF BadVersion, ReadFails, HandlerFails, Fail, net
<1>10. CASE Dispatch
  BY <1>10, DispatchInv
<1>11. CASE UNCHANGED vars
  <2>1. eof' \in BOOLEAN
    BY <1>11 DEF vars, net, Inv, Types, TypeOK
  <2> QED
    BY <1>11, <2>1, MovesOn DEF vars, net
<1> QED
  BY <1>1, <1>2, <1>3, <1>4, <1>5, <1>6, <1>7, <1>8, <1>9, <1>10, <1>11 DEF Next, Thread, Ended

-----------------------------------------------------------------------------
(* The theorems.                                                           *)

LEMMA Invariance == Spec => []Inv
  BY InitInv, NextInv, PTL DEF Spec

(* Every variable keeps its type, however the bytes arrive and whatever    *)
(* the loop takes for a header.                                            *)
THEOREM ReaderTypeCorrect == Spec => []TypeOK
<1>1. Inv => TypeOK
  BY DEF Inv, Types
<1> QED
  BY <1>1, Invariance, PTL

(* recv never stores past the allocation, a header is parsed when it was   *)
(* received, and no handler is sent past the allocation for a content of   *)
(* msg_len: the room made for the first byte of a read is still there for  *)
(* the last one, with cut records and with headers that are none           *)
(* (__init__.c:87, 498-511, 531-553).  Up to the first cut record, and no  *)
(* further, the header pointer is where the header is and the handler      *)
(* reads only what was received, a begin body included.                    *)
THEOREM ReaderInBounds == Spec => []InBounds
<1>1. Inv => InBounds
  <2> SUFFICES ASSUME Inv PROVE InBounds
    OBVIOUS
  <2>1. /\ buf.misalign \in Nat /\ buf.off \in Nat /\ buf.totallen \in Nat /\ n \in Nat
        /\ HDR \in Nat
    BY TypesFacts DEF Inv
  <2>2. pc = "recv" => buf.misalign + buf.off + n <= buf.totallen
    BY DEF Inv, Room
  <2>3. pc = "dispatch" => buf.misalign + HDR + msg_len <= buf.totallen
    BY DEF Inv, Room
  <2>4. pc = "recv" => buf.misalign + n <= buf.totallen
    BY <2>1, <2>2
  <2>5. pc = "parse" => HDR <= buf.off
    BY DEF Inv, Room
  <2>6. ASSUME pc = "dispatch", cuts = 0
        PROVE  hp = DataPointer /\ \A h \in Reading(hp) : HDR + ReadBy(h) <= buf.off
    <3>1. /\ Placed /\ buf.off > 0 /\ hp = DataPointer
          /\ msg_len = wire[Len(delivered) + 1].len
      BY <2>6 DEF Inv, Sync, AtWork
    <3>2. PICK s \in Shape : /\ s = wire[Len(delivered) + 1] /\ Size(s) <= buf.off
                             /\ Reading(DataPointer) = {HeaderOf(s)}
      BY <3>1, RecordFound DEF Inv
    <3>3. ReadBy(HeaderOf(s)) = s.len
      <4>1. s.type = "BEGIN" => s.len = BR
        BY ReaderAssumption
      <4> QED
        BY <3>1, <3>2, <4>1 DEF ReadBy, HeaderOf
    <3>4. HDR + s.len <= buf.off
      BY <2>1, <3>2, SizeFacts
    <3> QED
      BY <3>1, <3>2, <3>3, <3>4
  <2> QED
    BY <2>3, <2>4, <2>5, <2>6 DEF InBounds, BUF_LENGTH
<1> QED
  BY <1>1, Invariance, PTL

(* Between two records the buffer, the socket and the line hold the rest   *)
(* of the stream, up to the first record that is cut: nothing is lost,     *)
(* repeated or overwritten (__init__.c:487-575).                           *)
THEOREM ReaderStreamInStep == Spec => []StreamInStep
<1>1. Inv => StreamInStep
  BY DEF Inv, Sync, Placed, Received, IsStream, StreamInStep
<1> QED
  BY <1>1, Invariance, PTL

(* The greenthread turns to the socket from the framing loop only when no  *)
(* whole record is in its buffer, whatever happened before, and goes on in *)
(* _read only when its buffer is empty, up to the first record that is cut *)
(* (__init__.c:62-116, 493-515).                                           *)
THEOREM ReaderNeverWaits == Spec => NeverWaitsWithRecord
<1> DEFINE Turns == pc' \in {"ioctl", "wait"} /\ (pc \in {"top", "parse"} \/ cuts' = 0)
<1>1. ASSUME Inv, [Next]_vars, Turns PROVE ~ HoldsRecord'
  <2>1. Inv'
    BY <1>1, NextInv
  <2>2. CASE cuts' = 0
    <3>1. buf'.off = 0
      BY <1>1, <2>1, <2>2 DEF Inv, Sync, AtWork, Within
    <3> SUFFICES ASSUME NEW k \in 1 .. Len(wire'), Size(wire'[k]) <= buf'.off PROVE FALSE
      BY DEF HoldsRecord, BUF_LENGTH
    <3>2. wire' \in Seq(Shape)
      BY <2>1 DEF Inv, Types, TypeOK
    <3>3. wire'[k] \in Shape
      BY <3>2, ElementOfSeq
    <3> QED
      BY <3>1, <3>3, SizeFacts
  <2>3. CASE pc \in {"top", "parse"} /\ pc' = "ioctl"
    <3>1. Top \/ Parse
      BY <1>1, <2>3 DEF Next, Thread, Send, Arrive, Close, Ioctl, Resume, Recv, BadVersion,
                        Dispatch, ReadFails, HandlerFails, Fail, Ended, Over, vars, net, call
    <3> QED
      BY <1>1, <2>3, <3>1, TopInv, ParseInv
  <2>4. ~ (pc \in {"top", "parse"} /\ pc' = "wait")
    <3> SUFFICES ASSUME pc \in {"top", "parse"}, pc' = "wait" PROVE FALSE
      OBVIOUS
    <3>1. Top \/ Parse
      BY <1>1 DEF Next, Thread, Send, Arrive, Close, Ioctl, Resume, Recv, BadVersion,
                  Dispatch, ReadFails, HandlerFails, Fail, Ended, Over, vars, net, call
    <3> QED
      BY <3>1 DEF Top, Parse, CallRead
  <2> QED
    BY <1>1, <2>2, <2>3, <2>4
<1>2. Inv /\ [Next]_vars => [Turns => ~ HoldsRecord']_vars
  BY <1>1
<1> QED
  BY <1>2, Invariance, PTL DEF Spec, NeverWaitsWithRecord

(* Up to the first record that is cut, the loop implements the record      *)
(* stream: the handlers are given the records that were sent, whole, in    *)
(* order and once.  The dispatch is the delivery, sending the submission;  *)
(* every other step changes nothing of the stream.                         *)
THEOREM ReaderIsStream == Spec => StreamSpec
<1>1. Init => Stream!Init
  BY DEF Init, Stream!Init
<1>2. ASSUME Inv, [Next]_vars, cuts' = 0, ~ UNCHANGED <<wire, delivered>>
      PROVE  Stream!Next
  <2>1. (\E s \in Shape : Send(s)) \/ Dispatch
    BY <1>2 DEF Next, Thread, Arrive, Close, Top, Ioctl, Resume, Recv, Parse, BadVersion,
                ReadFails, HandlerFails, Fail, Ended, vars, net
  <2>2. ASSUME NEW s \in Shape, Send(s) PROVE Stream!Next
    <3>1. /\ Len(wire) < MaxRecords /\ wire' = Append(wire, s) /\ delivered' = delivered
      BY <1>2, <2>2 DEF Send
    <3> QED
      BY <3>1 DEF Stream!Next, Stream!Submit
  <2>3. CASE Dispatch
    <3>1. cuts = 0
      BY <1>2, <2>3 DEF Dispatch, net
    <3>2. /\ Len(delivered) + 1 \in 1 .. Len(wire)
          /\ delivered' = Append(delivered, wire[Len(delivered) + 1])
          /\ wire' = wire
      BY <1>2, <2>3, <3>1, DispatchInv
    <3>3. Len(delivered) < Len(wire)
      BY <1>2, <3>2, TypesFacts DEF Inv
    <3> QED
      BY <3>2, <3>3 DEF Stream!Next, Stream!Deliver
  <2> QED
    BY <2>1, <2>2, <2>3
<1>3. Inv /\ [Next]_vars => [cuts' = 0 => Stream!Next]_<<wire, delivered>>
  BY <1>2
<1> QED
  BY <1>1, <1>3, Invariance, PTL DEF Spec, StreamSpec
=============================================================================
