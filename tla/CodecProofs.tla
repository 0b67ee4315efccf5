---------------------------- MODULE CodecProofs ----------------------------
(***************************************************************************)
(* Proofs about Codec, for every number of byte values, ids, names, values *)
(* and records, pairs cut anywhere and any bytes behind them.              *)
(***************************************************************************)
EXTENDS Codec, TLAPS, SequenceTheorems, FiniteSetTheorems

-----------------------------------------------------------------------------
(* Numbers.                                                                *)

LEMMA ByteFacts ==
  /\ B \in Nat /\ B > 11 /\ B \div 2 \in Nat /\ B \div 2 > 0 /\ B = 2 * (B \div 2)
  /\ B * B \in Nat /\ B * B > 100
<1>1. B \in Nat /\ B > 11 /\ B % 2 = 0
  BY ByteAssumption
<1>2. B = 2 * (B \div 2) + (B % 2) /\ B \div 2 \in Nat
  BY <1>1
<1>3. B * B >= 11 * B
  BY <1>1
<1>4. B * B \in Nat /\ B * B > 100
  BY <1>1, <1>3
<1> QED
  BY <1>1, <1>2, <1>4

LEMMA DivMod ==
  ASSUME NEW n \in Nat, NEW s \in Nat, s > 0
  PROVE  n = s * (n \div s) + (n % s) /\ n \div s \in Nat /\ n % s \in Nat
OBVIOUS

(* A number below s has no multiple of s in it. *)
LEMMA SmallDiv ==
  ASSUME NEW n \in Nat, NEW s \in Nat, n < s
  PROVE  n \div s = 0
<1>1. s > 0
  OBVIOUS
<1>2. PICK q \in Nat, r \in Nat : q = n \div s /\ n = s * q + r
  BY <1>1, DivMod
<1>3. q = 0
  <2>1. SUFFICES ASSUME q >= 1 PROVE FALSE
    OBVIOUS
  <2>2. PICK e \in Nat : q = 1 + e
    <3>1. q - 1 \in Nat /\ q = 1 + (q - 1)
      BY <2>1
    <3> QED
      BY <3>1
  <2>3. s * q = s + s * e /\ s * e \in Nat
    BY <2>2
  <2>4. PICK x \in Nat : x = s * e
    BY <2>3
  <2>5. n = s + x + r
    BY <1>2, <2>3, <2>4
  <2> QED
    BY <2>5
<1> QED
  BY <1>2, <1>3

(* Two bytes are a number below B * B.                                     *)
LEMMA WordOf ==
  ASSUME NEW x \in 0 .. (B * B - 1)
  PROVE  /\ x \div B \in 0 .. (B - 1) /\ x % B \in 0 .. (B - 1)
         /\ Word(x \div B, x % B) = x
<1>1. B \in Nat /\ B > 11 /\ B * B \in Nat
  BY ByteFacts
<1>2. /\ x \in Nat /\ x < B * B
      /\ x = B * (x \div B) + (x % B) /\ x \div B \in Nat /\ x % B \in 0 .. (B - 1)
  BY <1>1
<1>3. PICK q \in Nat, r \in 0 .. (B - 1) : q = x \div B /\ r = x % B
  BY <1>2
<1>4. x = q * B + r
  BY <1>1, <1>2, <1>3
<1>5. q < B
  <2>1. SUFFICES ASSUME q >= B PROVE FALSE
    BY <1>1
  <2>2. PICK e \in Nat : q = B + e
    <3>1. q - B \in Nat /\ q = B + (q - B)
      BY <1>1, <2>1
    <3> QED
      BY <3>1
  <2>3. q * B = B * B + e * B /\ e * B \in Nat
    BY <1>1, <2>2
  <2> QED
    BY <1>1, <1>2, <1>4, <2>3
<1>6. q \in 0 .. (B - 1)
  BY <1>1, <1>5
<1> QED
  BY <1>3, <1>4, <1>6 DEF Word

(* The length of a name or a value, below B * B, is read from its prefix,  *)
(* in either form.                                                         *)
LEMMA PrefixFacts ==
  ASSUME NEW n \in Nat, NEW long \in Forms(n)
  PROVE  LET x == Prefix(n, long)
         IN  /\ x \in Seq(Nat) /\ Len(x) = (IF long THEN 4 ELSE 1)
             /\ x[1] \in Nat /\ (long <=> ~ (x[1] < B \div 2))
             /\ long => x[2] \in Nat /\ x[3] \in Nat /\ x[4] \in Nat
<1>1. /\ B \in Nat /\ B > 11 /\ B * B \in Nat /\ B * B > 100 /\ B \div 2 \in Nat
  BY ByteFacts
<1>2. long \in BOOLEAN /\ (~ long => n < B \div 2)
  BY DEF Forms
<1>3. /\ n \div (B * B) \in Nat /\ (n \div B) % B \in Nat /\ n % B \in Nat
  <2>1. n \div B \in Nat /\ n % B \in Nat
    BY <1>1
  <2>2. PICK q \in Nat : q = n \div B
    BY <2>1
  <2>3. q % B \in Nat
    BY <1>1
  <2>4. PICK s \in Nat : s = B * B /\ s > 0
    BY <1>1
  <2>5. n \div s \in Nat
    BY <2>4
  <2> QED
    BY <2>1, <2>2, <2>3, <2>4, <2>5
<1>4. CASE long
  BY <1>1, <1>3, <1>4 DEF Prefix
<1>5. CASE ~ long
  BY <1>1, <1>2, <1>5 DEF Prefix
<1> QED
  BY <1>2, <1>4, <1>5

LEMMA LengthOf ==
  ASSUME NEW n \in Nat, n < B * B, NEW long \in Forms(n), NEW m, NEW p \in Nat,
         \A i \in 1 .. Len(Prefix(n, long)) : m[p + i] = Prefix(n, long)[i]
  PROVE  Length(m, p + 1) = n
<1>1. /\ B \in Nat /\ B > 11 /\ B * B \in Nat /\ B * B > 100
      /\ B \div 2 \in Nat /\ B \div 2 > 0
  BY ByteFacts
<1>2. long \in BOOLEAN /\ (~ long => n < B \div 2)
  BY DEF Forms
<1>3. CASE ~ long
  <2>1. Prefix(n, long) = <<n>>
    BY <1>3 DEF Prefix
  <2>2. 1 \in 1 .. Len(Prefix(n, long)) /\ m[p + 1] = n
    BY <2>1
  <2> QED
    BY <1>2, <1>3, <2>2 DEF Length, Short
<1>4. CASE long
  <2>1. Prefix(n, long) = <<B \div 2, n \div (B * B), (n \div B) % B, n % B>>
    BY <1>4 DEF Prefix
  <2>2. /\ m[p + 1] = B \div 2 /\ m[p + 2] = n \div (B * B)
        /\ m[p + 3] = (n \div B) % B /\ m[p + 4] = n % B
    BY <2>1
  <2>3. (B \div 2) % (B \div 2) = 0
    <3>1. PICK h \in Nat : h = B \div 2 /\ h > 0
      BY <1>1
    <3>2. h % h = 0
      BY <3>1
    <3> QED
      BY <3>1, <3>2
  <2>4. n \div (B * B) = 0
    BY <1>1, SmallDiv
  <2>5. (n \div B) % B = n \div B /\ (n \div B) * B + (n % B) = n
    <3>1. n \in 0 .. (B * B - 1)
      BY <1>1
    <3>2. n \div B \in 0 .. (B - 1) /\ Word(n \div B, n % B) = n
      BY <3>1, WordOf
    <3>3. PICK q \in 0 .. (B - 1) : q = n \div B
      BY <3>2
    <3>4. q % B = q
      BY <1>1
    <3> QED
      BY <3>2, <3>3, <3>4 DEF Word
  <2>6. ~ Short(m, p + 1) /\ p + 1 + 1 = p + 2 /\ p + 1 + 2 = p + 3 /\ p + 1 + 3 = p + 4
    BY <1>1, <2>2 DEF Short
  <2>7. Length(m, p + 1) = 0 * B * B * B + 0 * B * B + (n \div B) * B + (n % B)
    BY <2>2, <2>3, <2>4, <2>5, <2>6 DEF Length
  <2>8. /\ 0 * B * B * B = 0 /\ 0 * B * B = 0 /\ n \div B \in Nat /\ n % B \in Nat
        /\ (n \div B) * B \in Nat
    BY <1>1
  <2> QED
    BY <2>5, <2>7, <2>8
<1> QED
  BY <1>2, <1>3, <1>4

(* A header tells the type, the id and the length put into it.             *)
LEMMA HeaderRead ==
  ASSUME NEW t, NEW i \in 0 .. (B * B - 1), NEW n \in 0 .. (B * B - 1), NEW v,
         NEW b, NEW p, \A j \in 1 .. 8 : b[p + j] = Header(v, t, i, n)[j]
  PROVE  /\ b[p + 1] = v /\ b[p + 2] = t /\ Word(b[p + 3], b[p + 4]) = i
         /\ Word(b[p + 5], b[p + 6]) = n /\ b[p + 7] = 0
<1>1. /\ b[p + 1] = v /\ b[p + 2] = t /\ b[p + 3] = i \div B /\ b[p + 4] = i % B
      /\ b[p + 5] = n \div B /\ b[p + 6] = n % B /\ b[p + 7] = 0
  BY DEF Header
<1> QED
  BY <1>1, WordOf

-----------------------------------------------------------------------------
(* Sequences.                                                              *)

LEMMA Parts ==
  ASSUME NEW S, NEW a \in Seq(S), NEW b \in Seq(S), NEW r, r = a \o b
  PROVE  /\ r \in Seq(S) /\ Len(r) = Len(a) + Len(b)
         /\ Len(a) \in Nat /\ Len(b) \in Nat
         /\ \A i \in 1 .. Len(a) : r[i] = a[i]
         /\ \A i \in 1 .. Len(b) : r[Len(a) + i] = b[i]
         /\ SubSeq(r, Len(a) + 1, Len(r)) = b
<1>1. Len(a) \in Nat /\ Len(b) \in Nat
  BY LenProperties
<1>2. PICK w : w = r
  OBVIOUS
<1>3. /\ w \in Seq(S) /\ Len(w) = Len(a) + Len(b)
      /\ \A i \in 1 .. Len(a) + Len(b) : w[i] = IF i <= Len(a) THEN a[i] ELSE b[i - Len(a)]
  BY <1>2, ConcatProperties
<1>4. ASSUME NEW i \in 1 .. Len(a) PROVE w[i] = a[i]
  <2>1. i \in 1 .. Len(a) + Len(b) /\ i <= Len(a)
    BY <1>1
  <2> QED
    BY <1>3, <2>1
<1>5. ASSUME NEW i \in 1 .. Len(b) PROVE w[Len(a) + i] = b[i]
  <2>1. /\ Len(a) + i \in 1 .. Len(a) + Len(b) /\ ~ (Len(a) + i <= Len(a))
        /\ Len(a) + i - Len(a) = i
    BY <1>1
  <2> QED
    BY <1>3, <2>1
<1>6. SubSeq(w, Len(a) + 1, Len(w)) = b
  <2>1. PICK lo, hi : lo = Len(a) + 1 /\ hi = Len(w)
    OBVIOUS
  <2>2. lo \in Int /\ hi \in Int /\ \A i \in lo .. hi : w[i] \in S
    <3>1. lo \in Int /\ hi \in Int
      BY <1>1, <1>3, <2>1
    <3>2. \A i \in lo .. hi : i \in 1 .. Len(w)
      BY <1>1, <1>3, <2>1
    <3>3. \A i \in 1 .. Len(w) : w[i] \in S
      BY <1>3, ElementOfSeq
    <3> QED
      BY <3>1, <3>2, <3>3
  <2>3. PICK s : s = SubSeq(w, lo, hi)
    OBVIOUS
  <2>4. /\ s \in Seq(S) /\ Len(s) = (IF lo <= hi THEN hi - lo + 1 ELSE 0)
        /\ \A i \in 1 .. hi - lo + 1 : s[i] = w[lo + i - 1]
    BY <2>2, <2>3, SubSeqProperties
  <2>5. Len(s) = Len(b) /\ hi - lo + 1 = Len(b)
    BY <1>1, <1>3, <2>1, <2>4
  <2>6. ASSUME NEW i \in 1 .. Len(s) PROVE s[i] = b[i]
    <3>1. i \in 1 .. hi - lo + 1 /\ lo + i - 1 = Len(a) + i /\ i \in 1 .. Len(b)
      BY <1>1, <2>1, <2>5
    <3> QED
      BY <1>5, <2>4, <3>1
  <2>7. s = b
    BY <2>4, <2>5, <2>6, SeqEqual
  <2> QED
    BY <2>1, <2>3, <2>7
<1> QED
  BY <1>1, <1>2, <1>3, <1>4, <1>5, <1>6

(* The start of a sequence.                                                *)
LEMMA StartOf ==
  ASSUME NEW S, NEW s \in Seq(S), NEW m \in 0 .. Len(s), NEW r, r = SubSeq(s, 1, m)
  PROVE  r \in Seq(S) /\ Len(r) = m /\ \A i \in 1 .. m : r[i] = s[i]
<1>1. Len(s) \in Nat /\ m \in Nat /\ m <= Len(s)
  BY LenProperties
<1>2. \A i \in 1 .. m : s[i] \in S
  <2>1. \A i \in 1 .. m : i \in 1 .. Len(s)
    BY <1>1
  <2> QED
    BY <2>1, ElementOfSeq
<1>3. PICK one : one = 1
  OBVIOUS
<1>4. r = SubSeq(s, one, m)
  BY <1>3
<1>5. /\ r \in Seq(S) /\ Len(r) = (IF one <= m THEN m - one + 1 ELSE 0)
      /\ \A i \in 1 .. m - one + 1 : r[i] = s[one + i - 1]
  BY <1>1, <1>2, <1>3, <1>4, SubSeqProperties
<1>6. Len(r) = m
  BY <1>1, <1>3, <1>5
<1>7. ASSUME NEW i \in 1 .. m PROVE r[i] = s[i]
  <2>1. i \in 1 .. m - one + 1 /\ one + i - 1 = i
    BY <1>1, <1>3
  <2> QED
    BY <1>5, <2>1
<1> QED
  BY <1>3, <1>4, <1>5, <1>6, <1>7

(* A part of a sequence that is another sequence.                          *)
LEMMA PartIs ==
  ASSUME NEW S, NEW s \in Seq(S), NEW t \in Seq(S), NEW a \in Nat, NEW e, e = a + Len(t),
         e <= Len(s), \A i \in 1 .. Len(t) : s[a + i] = t[i]
  PROVE  SubSeq(s, a + 1, e) = t
<1>1. Len(s) \in Nat /\ Len(t) \in Nat
  BY LenProperties
<1>2. PICK lo, hi : lo = a + 1 /\ hi = e
  OBVIOUS
<1>3. lo \in Int /\ hi \in Int /\ \A i \in lo .. hi : s[i] \in S
  <2>1. lo \in Int /\ hi \in Int /\ \A i \in lo .. hi : i \in 1 .. Len(s)
    BY <1>1, <1>2
  <2>2. \A i \in 1 .. Len(s) : s[i] \in S
    BY ElementOfSeq
  <2> QED
    BY <2>1, <2>2
<1>4. PICK r : r = SubSeq(s, lo, hi)
  OBVIOUS
<1>5. /\ r \in Seq(S) /\ Len(r) = (IF lo <= hi THEN hi - lo + 1 ELSE 0)
      /\ \A i \in 1 .. hi - lo + 1 : r[i] = s[lo + i - 1]
  BY <1>3, <1>4, SubSeqProperties
<1>6. Len(r) = Len(t) /\ hi - lo + 1 = Len(t)
  BY <1>1, <1>2, <1>5
<1>7. ASSUME NEW i \in 1 .. Len(r) PROVE r[i] = t[i]
  <2>1. i \in 1 .. hi - lo + 1 /\ lo + i - 1 = a + i /\ i \in 1 .. Len(t)
    BY <1>1, <1>2, <1>6
  <2> QED
    BY <1>5, <2>1
<1>8. r = t
  BY <1>5, <1>6, <1>7, SeqEqual
<1> QED
  BY <1>2, <1>4, <1>8

LEMMA Zeros ==
  ASSUME NEW S, NEW z \in S, NEW n \in Nat
  PROVE  /\ [k \in 1 .. n |-> z] \in Seq(S) /\ Len([k \in 1 .. n |-> z]) = n
         /\ \A k \in 1 .. n : [j \in 1 .. n |-> z][k] = z
<1>1. PICK f : f = [k \in 1 .. n |-> z]
  OBVIOUS
<1>2. f \in [1 .. n -> S] /\ DOMAIN f = 1 .. n /\ \A k \in 1 .. n : f[k] = z
  BY <1>1
<1>3. f \in Seq(S)
  BY <1>2, SeqDef
<1>4. Len(f) \in Nat /\ 1 .. Len(f) = 1 .. n
  BY <1>2, <1>3, LenProperties
<1>5. Len(f) = n
  BY <1>4
<1> QED
  BY <1>1, <1>2, <1>3, <1>5

(* What is sent as a record is read as one.                                *)
RecordIs(r, v, t, i, c) ==
  /\ r \in Seq(Nat) /\ Len(r) = 8 + Len(c) /\ SubSeq(r, 9, Len(r)) = c
  /\ r[1] = v /\ r[2] = t /\ Word(r[3], r[4]) = i /\ Word(r[5], r[6]) = Len(c)

LEMMA RecordOf ==
  ASSUME NEW v \in Nat, NEW t \in Nat, NEW i \in 0 .. (B * B - 1), NEW c \in Seq(Nat),
         Len(c) < B * B, NEW h, h = Header(v, t, i, Len(c)), NEW r, r = h \o c
  PROVE  RecordIs(r, v, t, i, c)
<1>1. B \in Nat /\ B > 11 /\ B * B \in Nat /\ Len(c) \in Nat
  BY ByteFacts, LenProperties
<1>2. PICK n \in 0 .. (B * B - 1) : n = Len(c)
  BY <1>1
<1>3. h = Header(v, t, i, n)
  BY <1>2
<1>4. /\ i \div B \in Nat /\ i % B \in Nat /\ n \div B \in Nat /\ n % B \in Nat
  <2>1. \A x \in 0 .. (B * B - 1) : x \div B \in 0 .. (B - 1) /\ x % B \in 0 .. (B - 1)
    BY WordOf
  <2>2. \A x \in 0 .. (B - 1) : x \in Nat
    BY <1>1
  <2> QED
    BY <2>1, <2>2
<1>5. h \in Seq(Nat) /\ Len(h) = 8
  BY <1>3, <1>4 DEF Header
<1>6. /\ r \in Seq(Nat) /\ Len(r) = 8 + Len(c) /\ SubSeq(r, 8 + 1, Len(r)) = c
      /\ \A j \in 1 .. 8 : r[j] = h[j]
  <2>1. /\ r \in Seq(Nat) /\ Len(r) = Len(h) + Len(c) /\ SubSeq(r, Len(h) + 1, Len(r)) = c
        /\ \A j \in 1 .. Len(h) : r[j] = h[j]
    <3>1. h \in Seq(Nat)
      BY <1>5
    <3> QED
      BY <3>1, Parts
  <2> QED
    BY <1>5, <2>1
<1>7. /\ r[1] = v /\ r[2] = t /\ r[3] = i \div B /\ r[4] = i % B
      /\ r[5] = n \div B /\ r[6] = n % B
  BY <1>3, <1>6 DEF Header
<1>8. Word(r[3], r[4]) = i /\ Word(r[5], r[6]) = n
  BY <1>7, WordOf
<1>9. 8 + 1 = 9
  OBVIOUS
<1> QED
  BY <1>2, <1>6, <1>7, <1>8, <1>9 DEF RecordIs

-----------------------------------------------------------------------------
(* A set of numbers with a bound has a largest one: of the intervals from  *)
(* its members up to the bound, one has none of the others in it.          *)
LEMMA MaxOf ==
  ASSUME NEW S \in SUBSET Nat, S # {}, NEW n \in Nat, \A x \in S : x <= n
  PROVE  Max(S) \in S /\ \A y \in S : y <= Max(S)
<1>1. PICK R : R = StrictSubsetOrdering(0 .. n)
  OBVIOUS
<1>2. IsWellFoundedOn(R, FiniteSubsetsOf(0 .. n))
  BY <1>1, FS_StrictSubsetOrderingWellFounded
<1>3. PICK T : T = {(x + 1) .. n : x \in S}
  OBVIOUS
<1>4. T \subseteq FiniteSubsetsOf(0 .. n) /\ T # {}
  <2>1. ASSUME NEW x \in S PROVE (x + 1) .. n \in FiniteSubsetsOf(0 .. n)
    <3>1. x + 1 \in Int /\ n \in Int /\ (x + 1) .. n \in SUBSET (0 .. n)
      OBVIOUS
    <3>2. IsFiniteSet((x + 1) .. n)
      BY <3>1, FS_Interval
    <3> QED
      BY <3>1, <3>2 DEF FiniteSubsetsOf
  <2> QED
    BY <1>3, <2>1
<1>5. PICK t \in T : \A u \in T : ~ (<<u, t>> \in R)
  BY <1>2, <1>4, WFMin
<1>6. PICK m \in S : t = (m + 1) .. n
  BY <1>3
<1>7. ASSUME NEW y \in S, ~ (y <= m) PROVE FALSE
  <2>1. PICK u : u = (y + 1) .. n
    OBVIOUS
  <2>2. u \in SUBSET (0 .. n) /\ t \in SUBSET (0 .. n) /\ u \subseteq t
    BY <1>6, <1>7, <2>1
  <2>3. y \in t /\ y \notin u
    BY <1>6, <1>7, <2>1
  <2>4. <<u, t>> \in R
    BY <1>1, <2>2, <2>3 DEF StrictSubsetOrdering
  <2> QED
    BY <1>3, <1>5, <2>1, <2>4
<1>8. \A y \in S : m >= y
  BY <1>7
<1>9. Max(S) \in S /\ \A y \in S : Max(S) >= y
  BY <1>8 DEF Max
<1> QED
  BY <1>9

LEMMA MaxLast ==
  ASSUME NEW S \in SUBSET Nat, NEW n \in S, \A x \in S : x <= n
  PROVE  Max(S) = n
<1>1. n \in Nat /\ S # {}
  OBVIOUS
<1>2. PICK m : m = Max(S)
  OBVIOUS
<1>3. m \in S /\ \A y \in S : y <= m
  BY <1>1, <1>2, MaxOf
<1>4. m \in Nat /\ m <= n /\ n <= m
  BY <1>3
<1> QED
  BY <1>1, <1>2, <1>4

-----------------------------------------------------------------------------
(* Dictionaries.                                                           *)

IsFcn(f) == f = [x \in DOMAIN f |-> f[x]]

LEMMA FcnSame ==
  ASSUME NEW f, NEW g, IsFcn(f), IsFcn(g), DOMAIN f = DOMAIN g,
         \A x \in DOMAIN f : f[x] = g[x]
  PROVE  f = g
BY DEF IsFcn

(* Where a sequence of pairs has the name n.                               *)
Of(ps, n) == {k \in 1 .. Len(ps) : ps[k].name = n}

Named(ps) == {ps[k].name : k \in 1 .. Len(ps)}

Latest(ps, n) == ps[Max(Of(ps, n))].value

LEMMA PutAllIs ==
  ASSUME NEW d, NEW ps, NEW e, e = PutAll(d, ps)
  PROVE  DOMAIN e = DOMAIN d \cup Named(ps) /\ IsFcn(e)
BY DEF PutAll, Named, IsFcn

LEMMA PutAllAt ==
  ASSUME NEW d, NEW ps, NEW e, e = PutAll(d, ps), NEW n \in DOMAIN e
  PROVE  (Of(ps, n) = {} => e[n] = d[n]) /\ (Of(ps, n) # {} => e[n] = Latest(ps, n))
BY DEF PutAll, Of, Latest

LEMMA PutIs ==
  ASSUME NEW d, NEW p, NEW e, e = Put(d, p)
  PROVE  DOMAIN e = DOMAIN d \cup {p.name} /\ IsFcn(e)
BY DEF Put, IsFcn

LEMMA PutAt ==
  ASSUME NEW d, NEW p, NEW e, e = Put(d, p), NEW n \in DOMAIN e
  PROVE  e[n] = IF n = p.name THEN p.value ELSE d[n]
BY DEF Put

LEMMA PutAllNone ==
  ASSUME NEW d, IsFcn(d), NEW ps, Len(ps) = 0
  PROVE  PutAll(d, ps) = d
<1>1. Named(ps) = {} /\ \A n : Of(ps, n) = {}
  BY DEF Named, Of
<1>2. PICK e : e = PutAll(d, ps)
  OBVIOUS
<1>3. /\ DOMAIN e = DOMAIN d /\ IsFcn(e)
      /\ \A n \in DOMAIN d : e[n] = d[n]
  <2>1. DOMAIN e = DOMAIN d \cup Named(ps)
    BY <1>2, PutAllIs
  <2>2. IsFcn(e)
    BY <1>2, PutAllIs
  <2>3. \A n \in DOMAIN e :
              (Of(ps, n) = {} => e[n] = d[n]) /\ (Of(ps, n) # {} => e[n] = Latest(ps, n))
    BY <1>2, PutAllAt
  <2> QED
    BY <1>1, <2>1, <2>2, <2>3
<1>4. e = d
  BY <1>3, FcnSame
<1> QED
  BY <1>2, <1>4

(* Pairs put one by one are pairs put together.                            *)
OneMore(d, a, b, p) == PutAll(d, b) = Put(PutAll(d, a), p)

LEMMA PutAllStep ==
  ASSUME NEW d, NEW S, NEW ps \in Seq(S), NEW k \in Nat, k < Len(ps),
         NEW a, a = SubSeq(ps, 1, k), NEW b, b = SubSeq(ps, 1, k + 1)
  PROVE  OneMore(d, a, b, ps[k + 1])
<1>1. /\ Len(a) = k /\ \A i \in 1 .. k : a[i] = ps[i]
      /\ Len(b) = k + 1 /\ \A i \in 1 .. (k + 1) : b[i] = ps[i]
  <2>1. Len(ps) \in Nat
    BY LenProperties
  <2>2. k \in 0 .. Len(ps) /\ k + 1 \in 0 .. Len(ps)
    BY <2>1
  <2>3. Len(a) = k /\ \A i \in 1 .. k : a[i] = ps[i]
    BY <2>2, StartOf
  <2>4. Len(b) = k + 1 /\ \A i \in 1 .. (k + 1) : b[i] = ps[i]
    BY <2>2, StartOf
  <2> QED
    BY <2>3, <2>4
<1>2. PICK p : p = ps[k + 1]
  OBVIOUS
<1>3. Named(b) = Named(a) \cup {p.name}
  BY <1>1, <1>2 DEF Named
<1>4. PICK x : x = PutAll(d, b)
  OBVIOUS
<1>5. PICK y : y = PutAll(d, a)
  OBVIOUS
<1>6. PICK z : z = Put(y, p)
  OBVIOUS
<1>7. DOMAIN x = DOMAIN d \cup Named(b)
  BY <1>4, PutAllIs
<1>8. DOMAIN y = DOMAIN d \cup Named(a)
  BY <1>5, PutAllIs
<1>9. DOMAIN z = DOMAIN y \cup {p.name}
  BY <1>6, PutIs
<1>10. IsFcn(x)
  BY <1>4, PutAllIs
<1>11. IsFcn(z)
  BY <1>6, PutIs
<1>12. DOMAIN x = DOMAIN z
  BY <1>3, <1>7, <1>8, <1>9
<1>13. ASSUME NEW n \in DOMAIN x PROVE x[n] = z[n]
  <2>1. (Of(b, n) = {} => x[n] = d[n]) /\ (Of(b, n) # {} => x[n] = Latest(b, n))
    BY <1>4, PutAllAt
  <2>2. CASE n = p.name
    <3>1. z[n] = p.value
      BY <1>6, <1>12, <2>2, PutAt
    <3>2. /\ Of(b, n) \in SUBSET Nat /\ k + 1 \in Of(b, n)
          /\ \A j \in Of(b, n) : j <= k + 1
      BY <1>1, <1>2, <2>2 DEF Of
    <3>3. PICK o : o = Of(b, n)
      OBVIOUS
    <3>4. Max(o) = k + 1
      BY <3>2, <3>3, MaxLast
    <3>5. Latest(b, n) = p.value
      BY <1>1, <1>2, <3>3, <3>4 DEF Latest
    <3> QED
      BY <2>1, <3>1, <3>2, <3>5
  <2>3. CASE n # p.name
    <3>1. n \in DOMAIN d \cup Named(a)
      BY <1>3, <1>7, <2>3
    <3>2. n \in DOMAIN y
      BY <1>8, <3>1
    <3>3. z[n] = y[n]
      BY <1>6, <1>12, <2>3, PutAt
    <3>4. (Of(a, n) = {} => y[n] = d[n]) /\ (Of(a, n) # {} => y[n] = Latest(a, n))
      BY <1>5, <3>2, PutAllAt
    <3>5. Of(b, n) = Of(a, n)
      BY <1>1, <1>2, <2>3 DEF Of
    <3>6. ASSUME Of(a, n) # {} PROVE Latest(a, n) = Latest(b, n)
      <4>1. PICK o : o = Of(a, n)
        OBVIOUS
      <4>2. o \in SUBSET Nat /\ o # {} /\ (\A j \in o : j <= k) /\ o \subseteq 1 .. k
        BY <1>1, <3>6, <4>1 DEF Of
      <4>3. Max(o) \in o
        BY <4>2, MaxOf
      <4>4. a[Max(o)] = b[Max(o)]
        BY <1>1, <4>2, <4>3
      <4> QED
        BY <3>5, <4>1, <4>4 DEF Latest
    <3> QED
      BY <2>1, <3>3, <3>4, <3>5, <3>6
  <2> QED
    BY <2>2, <2>3
<1>14. x = z
  BY <1>10, <1>11, <1>12, <1>13, FcnSame
<1> QED
  BY <1>2, <1>4, <1>5, <1>6, <1>14 DEF OneMore

(* Put looks at the name and at the value only.                            *)
LEMMA PutSame ==
  ASSUME NEW d, NEW p, NEW q, p.name = q.name, p.value = q.value
  PROVE  Put(d, p) = Put(d, q)
BY DEF Put

LEMMA PutType ==
  ASSUME NEW d \in Dictionary,
         NEW p, p.name \in Name \cup {Junk}, p.value \in Value \cup {Junk}
  PROVE  Put(d, p) \in Dictionary
<1>1. PICK S \in SUBSET (Name \cup {Junk}) : d \in [S -> Value \cup {Junk}]
  BY DEF Dictionary
<1>2. PICK T : T = S \cup {p.name}
  OBVIOUS
<1>3. Put(d, p) \in [T -> Value \cup {Junk}]
  BY <1>1, <1>2 DEF Put
<1>4. T \in SUBSET (Name \cup {Junk})
  BY <1>2
<1> QED
  BY <1>3, <1>4 DEF Dictionary

-----------------------------------------------------------------------------
(* Pairs and their encodings.                                              *)

LEMMA PairFacts ==
  ASSUME NEW p \in Pair
  PROVE  /\ p.name \in Name /\ p.value \in Value
         /\ p.name \in Seq(Nat) /\ p.value \in Seq(Nat)
         /\ Len(p.name) \in Nat /\ Len(p.value) \in Nat
         /\ p.nlong \in Forms(Len(p.name)) /\ p.vlong \in Forms(Len(p.value))
<1>1. PICK n, v : n = p.name /\ v = p.value
  OBVIOUS
<1>2. /\ n \in Name /\ v \in Value
      /\ p.nlong \in Forms(Len(p.name)) /\ p.vlong \in Forms(Len(p.value))
  BY <1>1 DEF Pair
<1>3. n \in Seq(0 .. B - 1) /\ v \in Seq(0 .. B - 1)
  BY <1>2, CodecAssumption
<1>4. \A x \in Seq(0 .. B - 1) : x \in Seq(Nat) /\ Len(x) \in Nat
  <2>1. 0 .. B - 1 \subseteq Nat
    BY ByteFacts
  <2> QED
    BY <2>1, SeqMonotonic, LenProperties
<1> QED
  BY <1>1, <1>2, <1>3, <1>4

(* Where the parts of four sequences are that are one behind the other.    *)
Laid(e, S, a, b, c, d, k, l, m, n) ==
  /\ e \in Seq(S) /\ Len(e) = n
  /\ \A j \in 1 .. Len(a) : e[j] = a[j]
  /\ \A j \in 1 .. Len(b) : e[k + j] = b[j]
  /\ \A j \in 1 .. Len(c) : e[l + j] = c[j]
  /\ \A j \in 1 .. Len(d) : e[m + j] = d[j]

LEMMA FourParts ==
  ASSUME NEW S, NEW a \in Seq(S), NEW b \in Seq(S), NEW c \in Seq(S), NEW d \in Seq(S),
         NEW e, e = a \o b \o c \o d,
         NEW k \in Nat, k = Len(a), NEW l \in Nat, l = k + Len(b),
         NEW m \in Nat, m = l + Len(c), NEW n \in Nat, n = m + Len(d)
  PROVE  Laid(e, S, a, b, c, d, k, l, m, n)
<1>1. PICK x : x = a \o b
  OBVIOUS
<1>2. /\ x \in Seq(S) /\ Len(x) = Len(a) + Len(b)
      /\ \A i \in 1 .. Len(a) : x[i] = a[i]
      /\ \A i \in 1 .. Len(b) : x[Len(a) + i] = b[i]
  BY <1>1, Parts
<1>3. PICK y : y = x \o c
  OBVIOUS
<1>4. /\ y \in Seq(S) /\ Len(y) = Len(x) + Len(c)
      /\ \A i \in 1 .. Len(x) : y[i] = x[i]
      /\ \A i \in 1 .. Len(c) : y[Len(x) + i] = c[i]
  <2>1. x \in Seq(S)
    BY <1>2
  <2> QED
    BY <1>3, <2>1, Parts
<1>5. PICK z : z = y \o d
  OBVIOUS
<1>6. /\ z \in Seq(S) /\ Len(z) = Len(y) + Len(d)
      /\ \A i \in 1 .. Len(y) : z[i] = y[i]
      /\ \A i \in 1 .. Len(d) : z[Len(y) + i] = d[i]
  <2>1. y \in Seq(S)
    BY <1>4
  <2> QED
    BY <1>5, <2>1, Parts
<1>7. z = e
  BY <1>1, <1>3, <1>5
<1>8. PICK u \in Nat, v \in Nat, w \in Nat, s \in Nat :
        u = Len(a) /\ v = Len(b) /\ w = Len(c) /\ s = Len(d)
  BY LenProperties
<1>9. /\ Len(a) = k /\ Len(x) = l /\ Len(y) = m /\ Len(z) = n
      /\ k = u /\ l = u + v /\ m = u + v + w /\ n = u + v + w + s
  BY <1>2, <1>4, <1>6, <1>8
<1>10. ASSUME NEW j \in 1 .. u PROVE z[j] = a[j]
  <2>1. j \in 1 .. l /\ j \in 1 .. m /\ j \in 1 .. k
    BY <1>9
  <2>2. z[j] = y[j] /\ y[j] = x[j] /\ x[j] = a[j]
    BY <1>2, <1>4, <1>6, <1>9, <2>1
  <2> QED
    BY <2>2
<1>11. ASSUME NEW j \in 1 .. v PROVE z[k + j] = b[j]
  <2>1. k + j \in 1 .. l /\ k + j \in 1 .. m
    BY <1>9
  <2>2. z[k + j] = y[k + j] /\ y[k + j] = x[k + j]
    BY <1>4, <1>6, <1>9, <2>1
  <2>3. x[k + j] = b[j]
    BY <1>2, <1>8, <1>9
  <2> QED
    BY <2>2, <2>3
<1>12. ASSUME NEW j \in 1 .. w PROVE z[l + j] = c[j]
  <2>1. l + j \in 1 .. m
    BY <1>9
  <2>2. z[l + j] = y[l + j]
    BY <1>6, <1>9, <2>1
  <2>3. y[l + j] = c[j]
    BY <1>4, <1>8, <1>9
  <2> QED
    BY <2>2, <2>3
<1>13. ASSUME NEW j \in 1 .. s PROVE z[m + j] = d[j]
  BY <1>6, <1>8, <1>9
<1> QED
  BY <1>6, <1>7, <1>8, <1>9, <1>10, <1>11, <1>12, <1>13 DEF Laid

(* Where the parts of an encoded pair are.                                 *)
EncodedAs(e, p, a, b, k, n) ==
  /\ e \in Seq(Nat) /\ Len(a) \in 1 .. 4 /\ Len(b) \in 1 .. 4 /\ k \in Nat /\ n \in Nat
  /\ Len(e) = n + Len(p.value) /\ Len(e) \in Nat
  /\ \A j \in 1 .. Len(a) : e[j] = a[j]
  /\ \A j \in 1 .. Len(b) : e[Len(a) + j] = b[j]
  /\ \A j \in 1 .. Len(p.name) : e[k + j] = p.name[j]
  /\ \A j \in 1 .. Len(p.value) : e[n + j] = p.value[j]

LEMMA EncodedIs ==
  ASSUME NEW p \in Pair, NEW e, e = Encoded(p),
         NEW a, a = Prefix(Len(p.name), p.nlong), NEW b, b = Prefix(Len(p.value), p.vlong),
         NEW k, k = Len(a) + Len(b), NEW n, n = k + Len(p.name)
  PROVE  EncodedAs(e, p, a, b, k, n)
<1>1. PICK c, d : c = p.name /\ d = p.value
  OBVIOUS
<1>2. /\ c \in Seq(Nat) /\ d \in Seq(Nat) /\ Len(c) \in Nat /\ Len(d) \in Nat
      /\ p.nlong \in Forms(Len(c)) /\ p.vlong \in Forms(Len(d))
  BY <1>1, PairFacts
<1>3. a \in Seq(Nat) /\ Len(a) \in 1 .. 4
  BY <1>1, <1>2, PrefixFacts
<1>4. b \in Seq(Nat) /\ Len(b) \in 1 .. 4
  BY <1>1, <1>2, PrefixFacts
<1>5. PICK h \in Nat, l \in Nat, m \in Nat, o \in Nat :
        h = Len(a) /\ l = h + Len(b) /\ m = l + Len(c) /\ o = m + Len(d)
  BY <1>2, <1>3, <1>4
<1>6. e = a \o b \o c \o d
  BY <1>1 DEF Encoded
<1>7. /\ e \in Seq(Nat) /\ Len(e) = o
      /\ \A j \in 1 .. Len(a) : e[j] = a[j]
      /\ \A j \in 1 .. Len(b) : e[h + j] = b[j]
      /\ \A j \in 1 .. Len(c) : e[l + j] = c[j]
      /\ \A j \in 1 .. Len(d) : e[m + j] = d[j]
  <2>1. a \in Seq(Nat) /\ b \in Seq(Nat) /\ c \in Seq(Nat) /\ d \in Seq(Nat)
    BY <1>2, <1>3, <1>4
  <2>2. PICK z : z = a \o b \o c \o d
    OBVIOUS
  <2>3. Laid(z, Nat, a, b, c, d, h, l, m, o)
    <3>1. h = Len(a) /\ l = h + Len(b) /\ m = l + Len(c) /\ o = m + Len(d)
      BY <1>5
    <3> QED
      BY <2>1, <2>2, <3>1, FourParts
  <2> QED
    BY <1>6, <2>2, <2>3 DEF Laid
<1>8. k = l /\ n = m /\ o = m + Len(d) /\ Len(a) = h
  BY <1>1, <1>5
<1> QED
  BY <1>1, <1>3, <1>4, <1>7, <1>8 DEF EncodedAs

-----------------------------------------------------------------------------
(* Pairs spelled one behind the other.                                     *)

(* The bytes b are the encodings of the pairs ps, without the last cut     *)
(* bytes: pair i is behind place at[i].                                    *)
Spelled(b, ps, at, cut) ==
  /\ ps \in Seq(Pair) /\ b \in Seq(Nat) /\ cut \in Nat /\ Len(b) + cut < B * B
  /\ at \in [1 .. Len(ps) + 1 -> Nat]
  /\ at[1] = 0 /\ at[Len(ps) + 1] = Len(b) + cut
  /\ \A i, j \in 1 .. Len(ps) + 1 : i <= j => at[i] <= at[j]
  /\ \A i \in 1 .. Len(ps) :
       /\ at[i + 1] = at[i] + Len(Encoded(ps[i]))
       /\ \A j \in 1 .. Len(Encoded(ps[i])) :
            at[i] + j <= Len(b) => b[at[i] + j] = Encoded(ps[i])[j]

LEMMA EncodedLen ==
  ASSUME NEW p \in Pair
  PROVE  Encoded(p) \in Seq(Nat) /\ Len(Encoded(p)) \in Nat
<1>1. PICK e, x, y, k, n :
        /\ e = Encoded(p) /\ x = Prefix(Len(p.name), p.nlong)
        /\ y = Prefix(Len(p.value), p.vlong) /\ k = Len(x) + Len(y) /\ n = k + Len(p.name)
  OBVIOUS
<1>2. EncodedAs(e, p, x, y, k, n)
  BY <1>1, EncodedIs
<1> QED
  BY <1>1, <1>2 DEF EncodedAs

LEMMA SpelledNone == Spelled(<<>>, <<>>, [i \in 1 .. 1 |-> 0], 0)
<1>1. PICK at : at = [i \in 1 .. 1 |-> 0]
  OBVIOUS
<1>2. /\ at \in [1 .. Len(<<>>) + 1 -> Nat] /\ at[1] = 0 /\ at[Len(<<>>) + 1] = 0
      /\ \A i \in 1 .. Len(<<>>) + 1 : at[i] = 0
  BY <1>1
<1>3. \A i \in 1 .. Len(<<>>) : FALSE
  OBVIOUS
<1>4. Len(<<>>) + 0 < B * B
  BY ByteFacts
<1>5. Spelled(<<>>, <<>>, at, 0)
  BY <1>2, <1>3, <1>4 DEF Spelled
<1> QED
  BY <1>1, <1>5

LEMMA SpelledAdd ==
  ASSUME NEW b, NEW ps, NEW at, Spelled(b, ps, at, 0), NEW p \in Pair,
         NEW e, e = Encoded(p), NEW c, c = b \o e, Len(c) < B * B
  PROVE  \E to : Spelled(c, Append(ps, p), to, 0)
<1>1. /\ ps \in Seq(Pair) /\ b \in Seq(Nat) /\ at \in [1 .. Len(ps) + 1 -> Nat]
      /\ at[1] = 0 /\ at[Len(ps) + 1] = Len(b) + 0
      /\ \A i, j \in 1 .. Len(ps) + 1 : i <= j => at[i] <= at[j]
  BY DEF Spelled
<1>2. \A i \in 1 .. Len(ps) : at[i + 1] = at[i] + Len(Encoded(ps[i]))
  BY DEF Spelled
<1>3. \A i \in 1 .. Len(ps) : \A j \in 1 .. Len(Encoded(ps[i])) :
        at[i] + j <= Len(b) => b[at[i] + j] = Encoded(ps[i])[j]
  BY DEF Spelled
<1>4. e \in Seq(Nat) /\ Len(e) \in Nat
  BY EncodedLen
<1>5. /\ c \in Seq(Nat) /\ Len(c) = Len(b) + Len(e) /\ Len(b) \in Nat
      /\ \A i \in 1 .. Len(b) : c[i] = b[i]
      /\ \A i \in 1 .. Len(e) : c[Len(b) + i] = e[i]
  BY <1>1, <1>4, Parts
<1>6. PICK n \in Nat : n = Len(ps)
  BY <1>1, LenProperties
<1>7. PICK qs : qs = Append(ps, p)
  OBVIOUS
<1>8. /\ qs \in Seq(Pair) /\ Len(qs) = n + 1 /\ qs[n + 1] = p
      /\ \A i \in 1 .. n : qs[i] = ps[i]
  BY <1>1, <1>6, <1>7, AppendProperties
<1>9. PICK to : to = [i \in 1 .. (n + 1) + 1 |-> IF i <= n + 1 THEN at[i] ELSE Len(c)]
  OBVIOUS
<1>10. /\ \A i \in 1 .. n + 1 : to[i] = at[i] /\ at[i] \in Nat
       /\ to[(n + 1) + 1] = Len(c) /\ Len(c) \in Nat /\ to[n + 1] = Len(b) /\ Len(b) <= Len(c)
  <2>1. \A i \in 1 .. n + 1 : i \in 1 .. (n + 1) + 1 /\ i <= n + 1 /\ at[i] \in Nat
    <3>1. at \in [1 .. n + 1 -> Nat]
      BY <1>1, <1>6
    <3>2. \A i \in 1 .. n + 1 : i \in 1 .. (n + 1) + 1 /\ i <= n + 1
      BY <1>6
    <3> QED
      BY <3>1, <3>2
  <2>2. (n + 1) + 1 \in 1 .. (n + 1) + 1 /\ ~ ((n + 1) + 1 <= n + 1) /\ n + 1 \in 1 .. n + 1
    BY <1>6
  <2>3. Len(c) \in Nat /\ Len(b) <= Len(c)
    BY <1>4, <1>5
  <2>4. \A i \in 1 .. n + 1 : to[i] = at[i]
    BY <1>9, <2>1
  <2>5. to[(n + 1) + 1] = Len(c)
    BY <1>9, <2>2
  <2>6. at[n + 1] = Len(b)
    BY <1>1, <1>5, <1>6
  <2> QED
    BY <2>1, <2>2, <2>3, <2>4, <2>5, <2>6
<1>11. to \in [1 .. Len(qs) + 1 -> Nat]
  <2>1. \A i \in 1 .. (n + 1) + 1 : (IF i <= n + 1 THEN at[i] ELSE Len(c)) \in Nat
    <3>1. \A i \in 1 .. (n + 1) + 1 : i <= n + 1 => at[i] \in Nat
      <4>1. \A i \in 1 .. (n + 1) + 1 : i <= n + 1 => i \in 1 .. n + 1
        BY <1>6
      <4> QED
        BY <1>10, <4>1
    <3> QED
      BY <1>10, <3>1
  <2> QED
    BY <1>8, <1>9, <2>1
<1>12. to[1] = 0 /\ to[Len(qs) + 1] = Len(c) + 0
  <2>1. 1 \in 1 .. n + 1
    BY <1>6
  <2> QED
    BY <1>1, <1>8, <1>10, <2>1
<1>13. ASSUME NEW i \in 1 .. Len(qs) + 1, NEW j \in 1 .. Len(qs) + 1, i <= j PROVE to[i] <= to[j]
  <2>1. i \in 1 .. (n + 1) + 1 /\ j \in 1 .. (n + 1) + 1
    BY <1>8
  <2>2. CASE j <= n + 1
    <3>1. i \in 1 .. n + 1 /\ j \in 1 .. n + 1
      BY <1>6, <1>13, <2>1, <2>2
    <3>2. at[i] <= at[j]
      BY <1>1, <1>6, <1>13, <3>1
    <3> QED
      BY <1>10, <3>1, <3>2
  <2>3. CASE ~ (j <= n + 1)
    <3>1. j = (n + 1) + 1 /\ (i \in 1 .. n + 1 \/ i = (n + 1) + 1)
      BY <1>6, <2>1, <2>3
    <3>2. ASSUME i \in 1 .. n + 1 PROVE to[i] <= Len(c)
      <4>1. n + 1 \in 1 .. n + 1 /\ i <= n + 1
        BY <1>6, <3>2
      <4>2. at[i] <= at[n + 1]
        BY <1>1, <1>6, <3>2, <4>1
      <4>3. to[i] <= Len(b) /\ to[i] \in Nat
        BY <1>10, <3>2, <4>1, <4>2
      <4> QED
        BY <1>5, <1>10, <4>3
    <3> QED
      BY <1>10, <3>1, <3>2
  <2> QED
    BY <2>2, <2>3
<1>14. ASSUME NEW i \in 1 .. Len(qs)
       PROVE  /\ to[i + 1] = to[i] + Len(Encoded(qs[i]))
              /\ \A j \in 1 .. Len(Encoded(qs[i])) :
                   to[i] + j <= Len(c) => c[to[i] + j] = Encoded(qs[i])[j]
  <2>1. i \in 1 .. n + 1
    BY <1>8
  <2>2. CASE i \in 1 .. n
    <3>1. /\ to[i] = at[i] /\ to[i + 1] = at[i + 1] /\ qs[i] = ps[i] /\ at[i] \in Nat
          /\ at[i + 1] \in Nat /\ at[i + 1] <= Len(b)
      <4>1. i \in 1 .. n + 1 /\ i + 1 \in 1 .. n + 1 /\ n + 1 \in 1 .. n + 1 /\ i + 1 <= n + 1
        BY <1>6, <2>2
      <4>2. at[i + 1] <= at[n + 1]
        BY <1>1, <1>6, <4>1
      <4> QED
        BY <1>8, <1>10, <2>2, <4>1, <4>2
    <3>2. PICK f : f = Encoded(ps[i])
      OBVIOUS
    <3>3. at[i + 1] = at[i] + Len(f)
      BY <1>2, <1>6, <2>2, <3>2
    <3>4. ASSUME NEW j \in 1 .. Len(f) PROVE c[at[i] + j] = f[j]
      <4>1. Len(f) \in Int
        BY <3>1, <3>3, <3>4
      <4>2. at[i] + j \in 1 .. Len(b) /\ at[i] + j <= Len(b)
        BY <1>5, <3>1, <3>3, <4>1
      <4>3. b[at[i] + j] = f[j]
        BY <1>3, <1>6, <2>2, <3>2, <4>2
      <4> QED
        BY <1>5, <4>2, <4>3
    <3> QED
      BY <3>1, <3>2, <3>3, <3>4
  <2>3. CASE i = n + 1
    <3>1. to[i] = Len(b) /\ to[i + 1] = Len(c) /\ Encoded(qs[i]) = e
      BY <1>8, <1>10, <2>3
    <3> QED
      BY <1>5, <3>1
  <2>4. i \in 1 .. n \/ i = n + 1
    BY <1>6, <2>1
  <2> QED
    BY <2>2, <2>3, <2>4
<1>15. Len(c) + 0 < B * B
  BY <1>10
<1>16. Spelled(c, qs, to, 0)
  BY <1>5, <1>8, <1>11, <1>12, <1>13, <1>14, <1>15 DEF Spelled
<1> QED
  BY <1>7, <1>16

(* The last pair may be cut.                                               *)
LEMMA SpelledCut ==
  ASSUME NEW b, NEW ps, NEW at, Spelled(b, ps, at, 0), ps # <<>>,
         NEW cut \in Nat, cut < Len(Encoded(ps[Len(ps)])),
         NEW c, c = SubSeq(b, 1, Len(b) - cut)
  PROVE  Spelled(c, ps, at, cut) /\ at[Len(ps)] < Len(c)
<1>1. /\ ps \in Seq(Pair) /\ b \in Seq(Nat) /\ at \in [1 .. Len(ps) + 1 -> Nat]
      /\ at[1] = 0 /\ at[Len(ps) + 1] = Len(b) + 0 /\ Len(b) + 0 < B * B
      /\ \A i, j \in 1 .. Len(ps) + 1 : i <= j => at[i] <= at[j]
  BY DEF Spelled
<1>2. \A i \in 1 .. Len(ps) : at[i + 1] = at[i] + Len(Encoded(ps[i]))
  BY DEF Spelled
<1>3. \A i \in 1 .. Len(ps) : \A j \in 1 .. Len(Encoded(ps[i])) :
        at[i] + j <= Len(b) => b[at[i] + j] = Encoded(ps[i])[j]
  BY DEF Spelled
<1>4. PICK n \in Nat : n = Len(ps) /\ n > 0
  BY <1>1, LenProperties, EmptySeq
<1>5. PICK l \in Nat : l = Len(b)
  BY <1>1, LenProperties
<1>6. PICK f : f = Len(Encoded(ps[n]))
  OBVIOUS
<1>7. l = at[n] + f /\ cut < f /\ at[n] \in Nat
  <2>1. n \in 1 .. n /\ n \in 1 .. n + 1 /\ n + 1 \in 1 .. n + 1
    BY <1>4
  <2>2. at[n + 1] = at[n] + f /\ at[n] \in Nat
    BY <1>1, <1>2, <1>4, <1>6, <2>1
  <2>3. at[n + 1] = l
    BY <1>1, <1>4, <1>5
  <2> QED
    BY <1>4, <1>6, <2>2, <2>3
<1>8. f \in Nat
  BY <1>4, <1>1, <1>6, EncodedLen
<1>9. l - cut \in 0 .. l /\ at[n] < l - cut
  BY <1>7, <1>8
<1>10. c \in Seq(Nat) /\ Len(c) = l - cut /\ \A i \in 1 .. l - cut : c[i] = b[i]
  <2>1. PICK m \in 0 .. Len(b) : m = l - cut
    BY <1>5, <1>9
  <2>2. PICK z : z = SubSeq(b, 1, m)
    OBVIOUS
  <2>3. z \in Seq(Nat) /\ Len(z) = m /\ \A i \in 1 .. m : z[i] = b[i]
    BY <1>1, <2>2, StartOf
  <2>4. c = z
    BY <1>5, <2>1, <2>2
  <2> QED
    BY <2>1, <2>3, <2>4
<1>11. ASSUME NEW i \in 1 .. Len(ps), NEW j \in 1 .. Len(Encoded(ps[i])), at[i] + j <= Len(c)
       PROVE  c[at[i] + j] = Encoded(ps[i])[j]
  <2>1. PICK q \in Nat : q = at[i]
    <3>1. i \in 1 .. Len(ps) + 1
      BY <1>4
    <3> QED
      BY <1>1, <3>1
  <2>2. at[i] + j \in 1 .. l - cut /\ at[i] + j <= Len(b)
    <3>1. ps[i] \in Pair
      BY <1>1, ElementOfSeq
    <3>2. Len(Encoded(ps[i])) \in Nat
      BY <3>1, EncodedLen
    <3>3. j \in Nat /\ j > 0 /\ q + j <= l - cut /\ l - cut <= l /\ l - cut \in Nat
      BY <1>9, <1>10, <1>11, <2>1, <3>2
    <3> QED
      BY <1>5, <2>1, <3>3
  <2>3. b[at[i] + j] = Encoded(ps[i])[j]
    BY <1>3, <2>2
  <2> QED
    BY <1>10, <2>2, <2>3
<1>12. at[Len(ps) + 1] = Len(c) + cut /\ Len(c) + cut < B * B
  <2>1. B * B \in Nat
    BY ByteFacts
  <2> QED
    BY <1>1, <1>5, <1>9, <1>10, <2>1
<1>13. Spelled(c, ps, at, cut)
  BY <1>1, <1>2, <1>10, <1>11, <1>12 DEF Spelled
<1> QED
  BY <1>4, <1>9, <1>10, <1>13

-----------------------------------------------------------------------------
(* What the program reads.                                                 *)

LEMMA MemoryIs ==
  ASSUME NEW c \in Seq(Nat), NEW j \in Behind, NEW m, m = c \o [k \in 1 .. 8 |-> j]
  PROVE  /\ m \in Seq(Nat) /\ Len(m) = Len(c) + 8
         /\ \A i \in 1 .. Len(c) : m[i] = c[i]
<1>1. PICK z : z = [k \in 1 .. 8 |-> j]
  OBVIOUS
<1>2. j \in Nat /\ 8 \in Nat
  BY CodecAssumption, ByteFacts
<1>3. z \in Seq(Nat) /\ Len(z) = 8
  <2>1. PICK n \in Nat : n = 8
    OBVIOUS
  <2>2. z = [k \in 1 .. n |-> j]
    BY <1>1, <2>1
  <2>3. [k \in 1 .. n |-> j] \in Seq(Nat) /\ Len([k \in 1 .. n |-> j]) = n
    BY <1>2, Zeros
  <2> QED
    BY <2>1, <2>2, <2>3
<1>4. m = c \o z
  BY <1>1
<1>5. PICK w : w = c \o z
  OBVIOUS
<1>6. /\ w \in Seq(Nat) /\ Len(w) = Len(c) + Len(z)
      /\ \A i \in 1 .. Len(c) : w[i] = c[i]
  <2>1. z \in Seq(Nat)
    BY <1>3
  <2> QED
    BY <1>5, <2>1, Parts
<1> QED
  BY <1>3, <1>4, <1>5, <1>6

LEMMA Products ==
  ASSUME NEW b \in Nat, NEW r \in Nat
  PROVE  r * b \in Nat /\ r * b * b \in Nat /\ r * b * b * b \in Nat
<1>1. PICK x \in Nat : x = r * b
  OBVIOUS
<1>2. PICK y \in Nat : y = x * b
  OBVIOUS
<1>3. y * b \in Nat
  OBVIOUS
<1> QED
  BY <1>1, <1>2, <1>3

(* A length is a number, whatever the bytes are.                           *)
LEMMA AnyLength ==
  ASSUME NEW m \in Seq(Nat), NEW p \in Nat, p > 0, p + 3 <= Len(m)
  PROVE  Length(m, p) \in Nat /\ LengthSize(m, p) \in 1 .. 4
<1>1. B \in Nat /\ B \div 2 \in Nat /\ B \div 2 > 0
  BY ByteFacts
<1>2. m[p] \in Nat /\ m[p + 1] \in Nat /\ m[p + 2] \in Nat /\ m[p + 3] \in Nat
  <2>1. /\ p \in 1 .. Len(m) /\ p + 1 \in 1 .. Len(m) /\ p + 2 \in 1 .. Len(m)
        /\ p + 3 \in 1 .. Len(m)
    BY LenProperties
  <2> QED
    BY <2>1, ElementOfSeq
<1>3. PICK h \in Nat : h = B \div 2 /\ h > 0
  BY <1>1
<1>4. PICK a \in Nat, b \in Nat, c \in Nat, d \in Nat :
        m[p] = a /\ m[p + 1] = b /\ m[p + 2] = c /\ m[p + 3] = d
  BY <1>2
<1>5. PICK r \in Nat : r = (a % h)
  BY <1>3
<1>6. /\ r * B \in Nat /\ r * B * B \in Nat /\ r * B * B * B \in Nat
      /\ b * B \in Nat /\ b * B * B \in Nat /\ c * B \in Nat
  BY <1>1, Products
<1>7. r * B * B * B + b * B * B + c * B + d \in Nat
  BY <1>6
<1>8. Length(m, p) = IF a < h THEN a ELSE r * B * B * B + b * B * B + c * B + d
  BY <1>3, <1>4, <1>5 DEF Length, Short
<1>9. LengthSize(m, p) \in 1 .. 4
  BY DEF LengthSize
<1> QED
  BY <1>7, <1>8, <1>9

(* A length that is in front of a name or a value, and may be cut.         *)
Reads(m, q, s, l, n) == /\ LengthSize(m, q + 1) = s
                        /\ q + s <= l => Length(m, q + 1) = n

LEMMA LengthRead ==
  ASSUME NEW c \in Seq(Nat), NEW m, \A i \in 1 .. Len(c) : m[i] = c[i],
         NEW n \in Nat, n < B * B, NEW long \in Forms(n), NEW x, x = Prefix(n, long),
         NEW q \in Nat, q < Len(c),
         \A j \in 1 .. Len(x) : q + j <= Len(c) => c[q + j] = x[j]
  PROVE  Reads(m, q, Len(x), Len(c), n)
<1>1. PICK l \in Nat : l = Len(c)
  BY LenProperties
<1>2. PICK s \in 1 .. 4 : s = Len(x)
  BY PrefixFacts
<1>3. ASSUME NEW j \in 1 .. s, q + j <= l PROVE m[q + j] = x[j]
  <2>1. q + j \in 1 .. l
    BY <1>3
  <2> QED
    BY <1>1, <1>2, <1>3, <2>1
<1>4. LengthSize(m, q + 1) = Len(x)
  <2>1. 1 \in 1 .. s /\ q + 1 <= l
    BY <1>1
  <2>2. m[q + 1] = x[1]
    BY <1>3, <2>1
  <2>3. Len(x) = (IF long THEN 4 ELSE 1) /\ (long <=> ~ (x[1] < B \div 2))
    BY PrefixFacts
  <2> QED
    BY <2>2, <2>3 DEF LengthSize, Short
<1>5. ASSUME q + Len(x) <= Len(c) PROVE Length(m, q + 1) = n
  <2>1. \A j \in 1 .. s : q + j <= l
    BY <1>1, <1>2, <1>5
  <2>2. \A j \in 1 .. Len(Prefix(n, long)) : m[q + j] = Prefix(n, long)[j]
    BY <1>2, <1>3, <2>1
  <2> QED
    BY <2>2, LengthOf
<1> QED
  BY <1>4, <1>5 DEF Reads

(* Pair p is spelled in c behind place q: the prefixes of its name and its *)
(* value are x and y, and behind it is place r.                            *)
PairAt(c, p, q, x, y, r) ==
  /\ p \in Pair /\ q \in Nat /\ r \in Nat
  /\ x = Prefix(Len(p.name), p.nlong) /\ y = Prefix(Len(p.value), p.vlong)
  /\ Len(x) \in 1 .. 4 /\ Len(y) \in 1 .. 4
  /\ Len(p.name) \in Nat /\ Len(p.name) < B * B
  /\ Len(p.value) \in Nat /\ Len(p.value) < B * B
  /\ r = q + Len(x) + Len(y) + Len(p.name) + Len(p.value)
  /\ \A j \in 1 .. Len(x) : q + j <= Len(c) => c[q + j] = x[j]
  /\ \A j \in 1 .. Len(y) : (q + Len(x)) + j <= Len(c) => c[(q + Len(x)) + j] = y[j]
  /\ q + Len(x) + Len(y) + Len(p.name) <= Len(c) =>
       \A j \in 1 .. Len(p.name) : c[(q + Len(x) + Len(y)) + j] = p.name[j]
  /\ r <= Len(c) => \A j \in 1 .. Len(p.value) :
                      c[(q + Len(x) + Len(y) + Len(p.name)) + j] = p.value[j]

LEMMA PairRead ==
  ASSUME NEW c, NEW ps, NEW at, NEW cut, Spelled(c, ps, at, cut), NEW k \in 1 .. Len(ps)
  PROVE  \E x, y : PairAt(c, ps[k], at[k], x, y, at[k + 1])
<1>1. /\ ps \in Seq(Pair) /\ c \in Seq(Nat) /\ at \in [1 .. Len(ps) + 1 -> Nat]
      /\ at[Len(ps) + 1] = Len(c) + cut /\ Len(c) + cut < B * B
      /\ \A i, j \in 1 .. Len(ps) + 1 : i <= j => at[i] <= at[j]
  BY DEF Spelled
<1>2. PICK p \in Pair : p = ps[k]
  BY <1>1, ElementOfSeq
<1>3. PICK e : e = Encoded(p)
  OBVIOUS
<1>4. /\ at[k + 1] = at[k] + Len(e)
      /\ \A j \in 1 .. Len(e) : at[k] + j <= Len(c) => c[at[k] + j] = e[j]
  BY <1>2, <1>3 DEF Spelled
<1>5. PICK x, y : x = Prefix(Len(p.name), p.nlong) /\ y = Prefix(Len(p.value), p.vlong)
  OBVIOUS
<1>6. PICK h, i : h = Len(x) + Len(y) /\ i = h + Len(p.name)
  OBVIOUS
<1>7. /\ e \in Seq(Nat) /\ Len(x) \in 1 .. 4 /\ Len(y) \in 1 .. 4 /\ h \in Nat /\ i \in Nat
      /\ Len(e) = i + Len(p.value) /\ Len(e) \in Nat
      /\ \A j \in 1 .. Len(x) : e[j] = x[j]
      /\ \A j \in 1 .. Len(y) : e[Len(x) + j] = y[j]
      /\ \A j \in 1 .. Len(p.name) : e[h + j] = p.name[j]
      /\ \A j \in 1 .. Len(p.value) : e[i + j] = p.value[j]
  <2>1. EncodedAs(e, p, x, y, h, i)
    BY <1>3, <1>5, <1>6, EncodedIs
  <2> QED
    BY <2>1 DEF EncodedAs
<1>8. PICK ln \in Nat, lv \in Nat : ln = Len(p.name) /\ lv = Len(p.value)
  BY PairFacts
<1>9. PICK lx \in 1 .. 4, ly \in 1 .. 4 : lx = Len(x) /\ ly = Len(y)
  BY <1>7
<1>10. PICK le \in Nat, lc \in Nat : le = Len(e) /\ lc = Len(c)
  BY <1>1, <1>7, LenProperties
<1>11. PICK q \in Nat, r \in Nat : q = at[k] /\ r = at[k + 1]
  <2>1. k \in 1 .. Len(ps) + 1 /\ k + 1 \in 1 .. Len(ps) + 1
    BY <1>1, LenProperties
  <2> QED
    BY <1>1, <2>1
<1>12. /\ h = lx + ly /\ i = lx + ly + ln /\ le = lx + ly + ln + lv /\ r = q + le
  BY <1>4, <1>6, <1>7, <1>8, <1>9, <1>10, <1>11
<1>13. r < B * B
  <2>1. k + 1 \in 1 .. Len(ps) + 1 /\ Len(ps) + 1 \in 1 .. Len(ps) + 1 /\ k + 1 <= Len(ps) + 1
    BY <1>1, LenProperties
  <2>2. r <= Len(c) + cut
    BY <1>1, <1>11, <2>1
  <2>3. PICK l \in Nat : l = Len(c) + cut /\ l < B * B
    BY <1>1, <1>10 DEF Spelled
  <2>4. PICK s \in Nat : s = B * B
    BY ByteFacts
  <2> QED
    BY <2>2, <2>3, <2>4
<1>14. ln < B * B /\ lv < B * B
  <2>1. PICK s \in Nat : s = B * B
    BY ByteFacts
  <2>2. ln <= r /\ lv <= r
    BY <1>12
  <2> QED
    BY <1>13, <2>1, <2>2
<1>15. r = q + Len(x) + Len(y) + Len(p.name) + Len(p.value)
  <2>1. r = q + lx + ly + ln + lv
    BY <1>12
  <2> QED
    BY <1>8, <1>9, <2>1
<1>16. \A j \in 1 .. le : q + j <= lc => c[q + j] = e[j]
  BY <1>4, <1>10, <1>11
<1>17. ASSUME NEW j \in 1 .. lx, q + j <= lc PROVE c[q + j] = x[j]
  <2>1. j \in 1 .. le
    BY <1>12
  <2> QED
    BY <1>7, <1>9, <1>16, <1>17, <2>1
<1>18. ASSUME NEW j \in 1 .. ly, (q + lx) + j <= lc PROVE c[(q + lx) + j] = y[j]
  <2>1. lx + j \in 1 .. le /\ (q + lx) + j = q + (lx + j)
    BY <1>12
  <2>2. e[lx + j] = y[j]
    BY <1>7, <1>9
  <2> QED
    BY <1>16, <1>18, <2>1, <2>2
<1>19. ASSUME q + lx + ly + ln <= lc, NEW j \in 1 .. ln
       PROVE  c[(q + lx + ly) + j] = p.name[j]
  <2>1. /\ h + j \in 1 .. le /\ (q + lx + ly) + j = q + (h + j) /\ q + (h + j) <= lc
    BY <1>12, <1>19
  <2>2. e[h + j] = p.name[j]
    BY <1>7, <1>8
  <2> QED
    BY <1>16, <2>1, <2>2
<1>20. ASSUME r <= lc, NEW j \in 1 .. lv PROVE c[(q + lx + ly + ln) + j] = p.value[j]
  <2>1. /\ i + j \in 1 .. le /\ (q + lx + ly + ln) + j = q + (i + j) /\ q + (i + j) <= lc
    BY <1>12, <1>20
  <2>2. e[i + j] = p.value[j]
    BY <1>7, <1>8
  <2> QED
    BY <1>16, <2>1, <2>2
<1>21. PairAt(c, p, q, x, y, r)
  BY <1>5, <1>7, <1>8, <1>9, <1>10, <1>14, <1>15, <1>17, <1>18, <1>19, <1>20 DEF PairAt
<1> QED
  BY <1>2, <1>11, <1>21

(* Places in the content: only the last pair is past its end, and only if  *)
(* it is cut.                                                              *)
LEMMA PlaceFacts ==
  ASSUME NEW c, NEW ps, NEW at, NEW cut, Spelled(c, ps, at, cut), at[Len(ps)] < Len(c),
         NEW k \in 1 .. Len(ps)
  PROVE  /\ at[k] \in Nat /\ at[k + 1] \in Nat /\ at[k] < Len(c) /\ Len(c) \in Nat
         /\ k < Len(ps) => at[k + 1] < Len(c)
         /\ k = Len(ps) => at[k + 1] = Len(c) + cut
         /\ at[k + 1] > Len(c) => k = Len(ps) /\ cut > 0
<1>1. /\ ps \in Seq(Pair) /\ c \in Seq(Nat) /\ at \in [1 .. Len(ps) + 1 -> Nat] /\ cut \in Nat
      /\ at[Len(ps) + 1] = Len(c) + cut
      /\ \A i, j \in 1 .. Len(ps) + 1 : i <= j => at[i] <= at[j]
  BY DEF Spelled
<1>2. PICK n \in Nat, l \in Nat : n = Len(ps) /\ l = Len(c)
  BY <1>1, LenProperties
<1>3. /\ k \in 1 .. n + 1 /\ k + 1 \in 1 .. n + 1 /\ n \in 1 .. n + 1 /\ n + 1 \in 1 .. n + 1
      /\ k <= n /\ (k < n => k + 1 <= n)
  BY <1>2
<1>4. /\ at[k] \in Nat /\ at[k + 1] \in Nat /\ at[n] \in Nat
      /\ at[k] <= at[n] /\ (k < n => at[k + 1] <= at[n])
      /\ at[n + 1] = l + cut /\ at[n] < l
  BY <1>1, <1>2, <1>3
<1> QED
  BY <1>1, <1>2, <1>3, <1>4

-----------------------------------------------------------------------------
(* What the web server finds in an answer.                                 *)

(* The bytes of a message: numbers, and what nothing assigns.              *)
Cell == Nat \cup {Unset}

HeaderIn(b, p, t, i, n) ==
  /\ b[p + 2] = t /\ Word(b[p + 3], b[p + 4]) = i /\ Word(b[p + 5], b[p + 6]) = n
  /\ b[p + 7] = 0

R(t, i, n, status) == [type |-> t, id |-> i, len |-> n, status |-> status]

LEMMA HeaderInit ==
  ASSUME NEW t \in Nat, NEW i \in 0 .. (B * B - 1), NEW n \in 0 .. (B * B - 1),
         NEW h, h = header_init(t, i, n)
  PROVE  h \in Seq(Cell) /\ Len(h) = 8
<1>1. i \div B \in Nat /\ i % B \in Nat /\ n \div B \in Nat /\ n % B \in Nat
  <2>1. \A x \in 0 .. (B * B - 1) : x \div B \in 0 .. (B - 1) /\ x % B \in 0 .. (B - 1)
    BY WordOf
  <2>2. \A x \in 0 .. (B - 1) : x \in Nat
    BY ByteFacts
  <2> QED
    BY <2>1, <2>2
<1>2. PICK a \in Cell, b \in Cell, c \in Cell, d \in Cell, u \in Cell :
        a = i \div B /\ b = i % B /\ c = n \div B /\ d = n % B /\ u = t
  BY <1>1 DEF Cell
<1>3. 0 \in Cell /\ 1 \in Cell
  BY DEF Cell
<1>4. h = <<1, u, a, b, c, d, 0, 0>>
  BY <1>2 DEF header_init
<1> QED
  BY <1>2, <1>3, <1>4

LEMMA HeaderThere ==
  ASSUME NEW t, NEW i \in 0 .. (B * B - 1), NEW n \in 0 .. (B * B - 1),
         NEW b, NEW p, \A j \in 1 .. 8 : b[p + j] = header_init(t, i, n)[j]
  PROVE  HeaderIn(b, p, t, i, n)
<1>1. header_init(t, i, n) = Header(1, t, i, n)
  BY DEF header_init, Header
<1>2. \A j \in 1 .. 8 : b[p + j] = Header(1, t, i, n)[j]
  BY <1>1
<1>3. PICK v : v = 1
  OBVIOUS
<1>4. \A j \in 1 .. 8 : b[p + j] = Header(v, t, i, n)[j]
  BY <1>2, <1>3
<1> QED
  BY <1>4, HeaderRead DEF HeaderIn

LEMMA RecordThere ==
  ASSUME NEW b, NEW p \in Nat, NEW t, NEW i, NEW n \in Nat, HeaderIn(b, p, t, i, n)
  PROVE  /\ NextPlace(b, p) = p + 8 + n
         /\ RecordAt(b, p) = R(t, i, n, IF t = TYPE_END_REQUEST THEN b[p + 13] ELSE 0)
BY DEF HeaderIn, NextPlace, RecordAt, R, HeaderSize

LEMMA FoundNone == Found(<<>>, <<>>)
BY DEF Found

LEMMA FoundOne ==
  ASSUME NEW b, NEW r, Len(b) \in Nat, 8 <= Len(b),
         RecordAt(b, 0) = r, NextPlace(b, 0) = Len(b)
  PROVE  Found(b, <<r>>)
<1>1. PICK s : s = <<r>>
  OBVIOUS
<1>2. Len(s) = 1 /\ s[1] = r /\ \A i \in 1 .. Len(s) : i = 1
  BY <1>1
<1>3. Found(b, s)
  BY <1>2 DEF Found, HeaderSize
<1> QED
  BY <1>1, <1>3

LEMMA FoundTwo ==
  ASSUME NEW b, NEW r, NEW s, Len(b) \in Nat, NEW p \in Nat,
         NextPlace(b, 0) = p, NextPlace(b, p) = Len(b), 8 <= Len(b), p + 8 <= Len(b),
         RecordAt(b, 0) = r, RecordAt(b, p) = s
  PROVE  Found(b, <<r, s>>)
<1>1. PICK z : z = <<r, s>>
  OBVIOUS
<1>2. Len(z) = 2 /\ z[1] = r /\ z[2] = s /\ \A i \in 1 .. Len(z) : i = 1 \/ i = 2
  BY <1>1
<1>3. Found(b, z)
  BY <1>2 DEF Found, HeaderSize
<1> QED
  BY <1>1, <1>3

LEMMA FoundThree ==
  ASSUME NEW b, NEW r, NEW s, NEW t, Len(b) \in Nat, NEW p \in Nat, NEW q \in Nat,
         NextPlace(b, 0) = p, NextPlace(b, p) = q, NextPlace(b, q) = Len(b),
         8 <= Len(b), p + 8 <= Len(b), q + 8 <= Len(b),
         RecordAt(b, 0) = r, RecordAt(b, p) = s, RecordAt(b, q) = t
  PROVE  Found(b, <<r, s, t>>)
<1>1. PICK z : z = <<r, s, t>>
  OBVIOUS
<1>2. /\ Len(z) = 3 /\ z[1] = r /\ z[2] = s /\ z[3] = t
      /\ \A i \in 1 .. Len(z) : i = 1 \/ i = 2 \/ i = 3
  BY <1>1
<1>3. Found(b, z)
  BY <1>2 DEF Found, HeaderSize
<1> QED
  BY <1>1, <1>3

(* The end of a request is behind place p.                                 *)
EndIn(b, p, i, status) ==
  /\ HeaderIn(b, p, TYPE_STDOUT, i, 0) /\ HeaderIn(b, p + 8, TYPE_END_REQUEST, i, 8)
  /\ b[p + 8 + 13] = status

LEMMA SmallWords == 0 \in 0 .. (B * B - 1) /\ 8 \in 0 .. (B * B - 1)
BY ByteFacts

(* One sequence behind another.                                            *)
Joined(r, S, a, b) ==
  /\ r \in Seq(S) /\ Len(r) = Len(a) + Len(b)
  /\ \A j \in 1 .. Len(a) : r[j] = a[j]
  /\ \A j \in 1 .. Len(b) : r[Len(a) + j] = b[j]

LEMMA Joins ==
  ASSUME NEW S, NEW a \in Seq(S), NEW b \in Seq(S), NEW r, r = a \o b
  PROVE  Joined(r, S, a, b)
BY Parts DEF Joined

(* n bytes behind the eight of a header.                                   *)
Headed(r, a, b, n) ==
  /\ r \in Seq(Cell) /\ Len(r) = 8 + n
  /\ \A j \in 1 .. 8 : r[j] = a[j]
  /\ \A j \in 1 .. n : r[8 + j] = b[j]

LEMMA HeadedBy ==
  ASSUME NEW a \in Seq(Cell), NEW b \in Seq(Cell), NEW r, r = a \o b,
         Len(a) = 8, NEW n \in Nat, Len(b) = n
  PROVE  Headed(r, a, b, n)
<1>1. Joined(r, Cell, a, b)
  BY Joins
<1> QED
  BY <1>1 DEF Joined, Headed

(* The two headers of the end of a request, and its status.                *)
Ending(e, h, g, status) ==
  /\ e \in Seq(Cell) /\ Len(e) = 24 /\ e[8 + 13] = status
  /\ \A j \in 1 .. 8 : e[j] = h[j]
  /\ \A j \in 1 .. 8 : e[8 + j] = g[j]

LEMMA EndBody ==
  ASSUME NEW a \in Nat, NEW s \in Nat, NEW b, b = <<a, Unset, Unset, Unset, s, 0, 0, 0>>
  PROVE  b \in Seq(Cell) /\ Len(b) = 8 /\ b[5] = s
<1>1. PICK u \in Cell, z \in Cell, v \in Cell, w \in Cell : u = Unset /\ z = 0 /\ v = a /\ w = s
  BY DEF Cell
<1>2. b = <<v, u, u, u, w, z, z, z>>
  BY <1>1
<1> QED
  BY <1>1, <1>2

LEMMA EndIs ==
  ASSUME NEW i \in 0 .. (B * B - 1), NEW ast \in Nat, NEW status \in Nat,
         NEW e, e = request_end(i, ast, status),
         NEW h, h = header_init(TYPE_STDOUT, i, 0),
         NEW g, g = header_init(TYPE_END_REQUEST, i, 8)
  PROVE  Ending(e, h, g, status)
<1>1. h \in Seq(Cell) /\ Len(h) = 8
  <2>1. TYPE_STDOUT \in Nat
    BY DEF TYPE_STDOUT
  <2> QED
    BY <2>1, SmallWords, HeaderInit
<1>2. g \in Seq(Cell) /\ Len(g) = 8
  <2>1. TYPE_END_REQUEST \in Nat
    BY DEF TYPE_END_REQUEST
  <2> QED
    BY <2>1, SmallWords, HeaderInit
<1>3. PICK body : body = <<(ast % B), Unset, Unset, Unset, status, 0, 0, 0>>
  OBVIOUS
<1>4. body \in Seq(Cell) /\ Len(body) = 8 /\ body[5] = status
  <2>1. PICK a \in Nat : a = (ast % B)
    BY ByteFacts
  <2> QED
    BY <1>3, <2>1, EndBody
<1>5. PICK x : x = g \o body
  OBVIOUS
<1>6. Headed(x, g, body, 8)
  <2>1. g \in Seq(Cell) /\ body \in Seq(Cell) /\ Len(g) = 8 /\ Len(body) = 8
    BY <1>2, <1>4
  <2> QED
    BY <1>5, <2>1, HeadedBy
<1>7. x \in Seq(Cell) /\ Len(x) = 16 /\ (\A j \in 1 .. 8 : x[j] = g[j]) /\ x[13] = status
  <2>1. x \in Seq(Cell) /\ Len(x) = 8 + 8 /\ \A j \in 1 .. 8 : x[j] = g[j]
    BY <1>6 DEF Headed
  <2>2. \A j \in 1 .. 8 : x[8 + j] = body[j]
    BY <1>6 DEF Headed
  <2>3. x[8 + 5] = body[5]
    BY <2>2
  <2>4. x[13] = status
    BY <1>4, <2>3
  <2> QED
    BY <2>1, <2>4
<1>8. PICK y : y = h \o x
  OBVIOUS
<1>9. Headed(y, h, x, 16)
  <2>1. h \in Seq(Cell) /\ x \in Seq(Cell) /\ Len(h) = 8 /\ Len(x) = 16
    BY <1>1, <1>7
  <2> QED
    BY <1>8, <2>1, HeadedBy
<1>10. y = e
  BY <1>3, <1>5, <1>8 DEF request_end, end_request_init
<1>11. /\ e \in Seq(Cell) /\ Len(e) = 24 /\ \A j \in 1 .. 8 : e[j] = h[j]
       /\ \A j \in 1 .. 16 : e[8 + j] = x[j]
  BY <1>9, <1>10 DEF Headed
<1>12. \A j \in 1 .. 8 : e[8 + j] = g[j]
  <2>1. \A j \in 1 .. 8 : j \in 1 .. 16
    OBVIOUS
  <2> QED
    BY <1>7, <1>11, <2>1
<1>13. e[8 + 13] = status
  <2>1. 13 \in 1 .. 16
    OBVIOUS
  <2> QED
    BY <1>7, <1>11, <2>1
<1> QED
  BY <1>11, <1>12, <1>13 DEF Ending

LEMMA EndPlaced ==
  ASSUME NEW i \in 0 .. (B * B - 1), NEW status,
         NEW e, NEW h, h = header_init(TYPE_STDOUT, i, 0),
         NEW g, g = header_init(TYPE_END_REQUEST, i, 8), Ending(e, h, g, status),
         NEW b, NEW p \in Nat, \A j \in 1 .. 24 : b[p + j] = e[j]
  PROVE  EndIn(b, p, i, status)
<1>1. HeaderIn(b, p, TYPE_STDOUT, i, 0)
  <2>1. \A j \in 1 .. 8 : j \in 1 .. 24
    OBVIOUS
  <2>2. \A j \in 1 .. 8 : b[p + j] = h[j]
    BY <2>1 DEF Ending
  <2> QED
    BY <2>2, SmallWords, HeaderThere
<1>2. PICK q \in Nat : q = p + 8
  OBVIOUS
<1>3. HeaderIn(b, q, TYPE_END_REQUEST, i, 8)
  <2>1. ASSUME NEW j \in 1 .. 8 PROVE b[q + j] = g[j]
    <3>1. 8 + j \in 1 .. 24 /\ q + j = p + (8 + j)
      BY <1>2
    <3>2. b[p + (8 + j)] = e[8 + j]
      BY <3>1
    <3> QED
      BY <3>1, <3>2 DEF Ending
  <2> QED
    BY <2>1, SmallWords, HeaderThere
<1>4. b[p + 8 + 13] = status
  <2>1. 8 + 13 \in 1 .. 24 /\ p + 8 + 13 = p + (8 + 13)
    OBVIOUS
  <2>2. b[p + (8 + 13)] = e[8 + 13]
    BY <2>1
  <2> QED
    BY <2>1, <2>2 DEF Ending
<1> QED
  BY <1>1, <1>2, <1>3, <1>4 DEF EndIn

(* What the end of a request is to the web server.                         *)
LEMMA EndThere ==
  ASSUME NEW b, NEW p \in Nat, NEW i, NEW status, EndIn(b, p, i, status)
  PROVE  /\ NextPlace(b, p) = p + 8 /\ NextPlace(b, p + 8) = p + 24
         /\ RecordAt(b, p) = R(TYPE_STDOUT, i, 0, 0)
         /\ RecordAt(b, p + 8) = R(TYPE_END_REQUEST, i, 8, status)
<1>1. NextPlace(b, p) = p + 8 + 0 /\ RecordAt(b, p) = R(TYPE_STDOUT, i, 0, 0)
  BY RecordThere DEF EndIn, TYPE_STDOUT, TYPE_END_REQUEST
<1>2. PICK q \in Nat : q = p + 8
  OBVIOUS
<1>3. HeaderIn(b, q, TYPE_END_REQUEST, i, 8) /\ b[q + 13] = status
  BY <1>2 DEF EndIn
<1>4. NextPlace(b, q) = q + 8 + 8 /\ RecordAt(b, q) = R(TYPE_END_REQUEST, i, 8, status)
  BY <1>3, RecordThere
<1> QED
  BY <1>1, <1>2, <1>4

LEMMA EndFound ==
  ASSUME NEW i \in 0 .. (B * B - 1), NEW ast \in Nat, NEW status \in Nat
  PROVE  Found(request_end(i, ast, status),
               <<R(TYPE_STDOUT, i, 0, 0), R(TYPE_END_REQUEST, i, 8, status)>>)
<1>1. PICK e : e = request_end(i, ast, status)
  OBVIOUS
<1>2. PICK p \in Nat : p = 0
  OBVIOUS
<1>3. \A j \in 1 .. 24 : e[p + j] = e[j]
  BY <1>2
<1>4. e \in Seq(Cell) /\ Len(e) = 24 /\ EndIn(e, p, i, status)
  <2>1. PICK h, g : h = header_init(TYPE_STDOUT, i, 0) /\ g = header_init(TYPE_END_REQUEST, i, 8)
    OBVIOUS
  <2>2. Ending(e, h, g, status)
    BY <1>1, <2>1, EndIs
  <2>3. EndIn(e, p, i, status)
    BY <1>3, <2>1, <2>2, EndPlaced
  <2> QED
    BY <2>2, <2>3 DEF Ending
<1>5. /\ NextPlace(e, p) = p + 8 /\ NextPlace(e, p + 8) = p + 24
      /\ RecordAt(e, p) = R(TYPE_STDOUT, i, 0, 0)
      /\ RecordAt(e, p + 8) = R(TYPE_END_REQUEST, i, 8, status)
  BY <1>4, EndThere
<1>6. p + 8 = 8 /\ p + 24 = 24
  BY <1>2
<1>7. PICK q \in Nat : q = 8
  OBVIOUS
<1>8. /\ NextPlace(e, 0) = q /\ NextPlace(e, q) = Len(e)
      /\ 8 <= Len(e) /\ q + 8 <= Len(e) /\ Len(e) \in Nat
      /\ RecordAt(e, 0) = R(TYPE_STDOUT, i, 0, 0)
      /\ RecordAt(e, q) = R(TYPE_END_REQUEST, i, 8, status)
  BY <1>2, <1>4, <1>5, <1>6, <1>7
<1>9. Found(e, <<R(TYPE_STDOUT, i, 0, 0), R(TYPE_END_REQUEST, i, 8, status)>>)
  BY <1>8, FoundTwo
<1> QED
  BY <1>1, <1>9

(* A text, and the end of the request.                                     *)
LEMMA WriteFound ==
  ASSUME NEW i \in 0 .. (B * B - 1), NEW t \in Nat, t # TYPE_END_REQUEST,
         NEW ast \in Nat, NEW status \in Nat
  PROVE  Found(request_write(i, Text, t) \o request_end(i, ast, status),
               <<R(t, i, Text, 0), R(TYPE_STDOUT, i, 0, 0),
                 R(TYPE_END_REQUEST, i, 8, status)>>)
<1>1. PICK n \in Nat : n = Text /\ n \in 0 .. (B * B - 1)
  <2>1. Text \in 1 .. (B * B - 1) /\ B * B \in Nat
    BY CodecAssumption, ByteFacts
  <2> QED
    BY <2>1
<1>2. PICK h : h = header_init(t, i, n)
  OBVIOUS
<1>3. h \in Seq(Cell) /\ Len(h) = 8
  BY <1>1, <1>2, HeaderInit
<1>4. PICK z : z = [k \in 1 .. n |-> 0]
  OBVIOUS
<1>5. z \in Seq(Cell) /\ Len(z) = n
  <2>1. 0 \in Cell
    BY DEF Cell
  <2> QED
    BY <1>4, <2>1, Zeros
<1>6. PICK w : w = h \o z
  OBVIOUS
<1>7. /\ w \in Seq(Cell) /\ Len(w) = Len(h) + Len(z)
      /\ \A j \in 1 .. Len(h) : w[j] = h[j]
  <2>1. h \in Seq(Cell) /\ z \in Seq(Cell)
    BY <1>3, <1>5
  <2> QED
    BY <1>6, <2>1, Parts
<1>8. PICK e : e = request_end(i, ast, status)
  OBVIOUS
<1>9. PICK f, g : f = header_init(TYPE_STDOUT, i, 0) /\ g = header_init(TYPE_END_REQUEST, i, 8)
  OBVIOUS
<1>10. Ending(e, f, g, status) /\ e \in Seq(Cell) /\ Len(e) = 24
  <2>1. Ending(e, f, g, status)
    BY <1>8, <1>9, EndIs
  <2> QED
    BY <2>1 DEF Ending
<1>11. PICK b : b = w \o e
  OBVIOUS
<1>12. /\ b \in Seq(Cell) /\ Len(b) = Len(w) + Len(e)
       /\ \A j \in 1 .. Len(w) : b[j] = w[j]
       /\ \A j \in 1 .. Len(e) : b[Len(w) + j] = e[j]
  <2>1. w \in Seq(Cell) /\ e \in Seq(Cell)
    BY <1>7, <1>10
  <2> QED
    BY <1>11, <2>1, Parts
<1>13. PICK p \in Nat, q \in Nat : p = 8 + n /\ q = p + 8
  OBVIOUS
<1>14. Len(w) = p /\ Len(b) = p + 24
  BY <1>3, <1>5, <1>7, <1>10, <1>12, <1>13
<1>15. EndIn(b, p, i, status)
  <2>1. \A j \in 1 .. 24 : b[p + j] = e[j]
    BY <1>10, <1>12, <1>14
  <2> QED
    BY <1>9, <1>10, <2>1, EndPlaced
<1>16. /\ NextPlace(b, p) = p + 8 /\ NextPlace(b, p + 8) = p + 24
       /\ RecordAt(b, p) = R(TYPE_STDOUT, i, 0, 0)
       /\ RecordAt(b, p + 8) = R(TYPE_END_REQUEST, i, 8, status)
  BY <1>15, EndThere
<1>17. PICK o \in Nat : o = 0
  OBVIOUS
<1>18. HeaderIn(b, o, t, i, n)
  <2>1. \A j \in 1 .. 8 : o + j = j /\ j \in 1 .. Len(w) /\ j \in 1 .. Len(h)
    BY <1>3, <1>13, <1>14, <1>17
  <2>2. \A j \in 1 .. 8 : b[o + j] = header_init(t, i, n)[j]
    BY <1>2, <1>7, <1>12, <2>1
  <2> QED
    BY <1>1, <2>2, HeaderThere
<1>19. NextPlace(b, o) = o + 8 + n /\ RecordAt(b, o) = R(t, i, n, 0)
  BY <1>18, RecordThere
<1>20. /\ NextPlace(b, 0) = p /\ NextPlace(b, p) = q /\ NextPlace(b, q) = Len(b)
       /\ Len(b) \in Nat /\ 8 <= Len(b) /\ p + 8 <= Len(b) /\ q + 8 <= Len(b)
  BY <1>13, <1>14, <1>16, <1>17, <1>19
<1>21. /\ RecordAt(b, 0) = R(t, i, n, 0) /\ RecordAt(b, p) = R(TYPE_STDOUT, i, 0, 0)
       /\ RecordAt(b, q) = R(TYPE_END_REQUEST, i, 8, status)
  BY <1>13, <1>16, <1>17, <1>19
<1>22. Found(b, <<R(t, i, n, 0), R(TYPE_STDOUT, i, 0, 0), R(TYPE_END_REQUEST, i, 8, status)>>)
  BY <1>20, <1>21, FoundThree
<1>23. b = request_write(i, Text, t) \o request_end(i, ast, status)
  BY <1>1, <1>2, <1>4, <1>6, <1>8, <1>11 DEF request_write
<1> QED
  BY <1>1, <1>22, <1>23

LEMMA UnknownFound ==
  ASSUME NEW t \in Nat
  PROVE  Found(unknown_type_init(t), <<R(TYPE_UNKNOWN, 0, 8, 0)>>)
<1>1. PICK h : h = header_init(TYPE_UNKNOWN, 0, 8)
  OBVIOUS
<1>2. h \in Seq(Cell) /\ Len(h) = 8
  <2>1. TYPE_UNKNOWN \in Nat
    BY DEF TYPE_UNKNOWN
  <2> QED
    BY <1>1, <2>1, SmallWords, HeaderInit
<1>3. PICK body : body = <<t, 0, 0, 0, 0, 0, 0, 0>>
  OBVIOUS
<1>4. body \in Seq(Cell) /\ Len(body) = 8
  <2>1. PICK u \in Cell, z \in Cell : u = t /\ z = 0
    BY DEF Cell
  <2>2. body = <<u, z, z, z, z, z, z, z>>
    BY <1>3, <2>1
  <2> QED
    BY <2>2
<1>5. PICK b : b = h \o body
  OBVIOUS
<1>6. /\ b \in Seq(Cell) /\ Len(b) = Len(h) + Len(body)
      /\ \A j \in 1 .. Len(h) : b[j] = h[j]
  <2>1. h \in Seq(Cell) /\ body \in Seq(Cell)
    BY <1>2, <1>4
  <2> QED
    BY <1>5, <2>1, Parts
<1>7. PICK p \in Nat, z \in Nat, n \in Nat : p = 0 /\ z = 0 /\ n = 8
  OBVIOUS
<1>8. HeaderIn(b, p, TYPE_UNKNOWN, z, n)
  <2>1. \A j \in 1 .. 8 : p + j = j /\ j \in 1 .. Len(h)
    BY <1>2, <1>7
  <2>2. \A j \in 1 .. 8 : b[p + j] = header_init(TYPE_UNKNOWN, z, n)[j]
    BY <1>1, <1>6, <1>7, <2>1
  <2>3. z \in 0 .. (B * B - 1) /\ n \in 0 .. (B * B - 1)
    BY <1>7, SmallWords
  <2> QED
    BY <2>2, <2>3, HeaderThere
<1>9. NextPlace(b, p) = p + 8 + n /\ RecordAt(b, p) = R(TYPE_UNKNOWN, z, n, 0)
  BY <1>8, RecordThere DEF TYPE_UNKNOWN, TYPE_END_REQUEST
<1>10. Found(b, <<R(TYPE_UNKNOWN, 0, 8, 0)>>)
  <2>1. /\ Len(b) \in Nat /\ 8 <= Len(b) /\ NextPlace(b, 0) = Len(b)
        /\ RecordAt(b, 0) = R(TYPE_UNKNOWN, 0, 8, 0)
    BY <1>2, <1>4, <1>6, <1>7, <1>9
  <2> QED
    BY <2>1, FoundOne
<1> QED
  BY <1>1, <1>3, <1>5, <1>10 DEF unknown_type_init

-----------------------------------------------------------------------------
(* The inductive invariant.                                                *)

(* What the record m means is what its content c says.                     *)
NoPairs(m) == m.pairs = <<>> /\ m.cut = 0

Meaning(m, c) ==
  \/ /\ m.type = TYPE_BEGIN_REQUEST /\ NoPairs(m)
     /\ m.role \in Role /\ c[1] = m.role \div B /\ c[2] = m.role % B
  \/ m.version = 1 /\ m.type \in {TYPE_ABORT_REQUEST, TYPE_STDIN} \cup Other /\ NoPairs(m)
  \/ m.version = 1 /\ m.type = TYPE_PARAMS /\ NoPairs(m) /\ Len(c) = 0
  \/ /\ m.version = 1 /\ m.type = TYPE_PARAMS /\ m.pairs # <<>> /\ Len(c) > 0
     /\ \E at : Spelled(c, m.pairs, at, m.cut) /\ at[Len(m.pairs)] < Len(c)

Sound(m) == /\ m.id \in Id /\ m.type \in Nat /\ m.pairs \in Seq(Pair) /\ m.cut \in Nat
            /\ (m.pairs = <<>> => m.cut = 0)

Drafted == \E at : Spelled(bytes, pairs, at, 0)

(* The first k pairs of the record are stored, and no more.                *)
Done(k) == params = [before EXCEPT ![msg.id] = PutAll(@, SubSeq(msg.pairs, 1, k))]

Received ==
  pc \in {"parse", "name", "data", "pair"} =>
    /\ Content \in Seq(Nat) /\ Len(Content) < B * B /\ answer = <<>>
    /\ record[1] = msg.version /\ record[2] = msg.type
    /\ Word(record[3], record[4]) = msg.id /\ Word(record[5], record[6]) = Len(Content)

Waiting == pc = "parse" => Meaning(msg, Content) /\ params = before

(* The loop is at pair k, or past the end of the content in the last pair. *)
AtPair(at, k, x, y) ==
  /\ Spelled(Content, msg.pairs, at, msg.cut) /\ at[Len(msg.pairs)] < len
  /\ k \in 1 .. Len(msg.pairs) /\ Done(k - 1)
  /\ PairAt(Content, msg.pairs[k], at[k], x, y, at[k + 1])
  /\ pc = "name" => buf = at[k]
  /\ pc = "data" => /\ buf = at[k] + Len(x)
                    /\ buf <= len => name_len = Len(msg.pairs[k].name)
  /\ pc = "pair" => \/ /\ buf <= len /\ buf = at[k] + Len(x) + Len(y)
                       /\ name_len = Len(msg.pairs[k].name)
                       /\ data_len = Len(msg.pairs[k].value)
                    \/ buf > len /\ k = Len(msg.pairs) /\ msg.cut > 0

Loop ==
  pc \in {"name", "data", "pair"} =>
    /\ msg.type = TYPE_PARAMS /\ msg.pairs # <<>> /\ rid = msg.id /\ len = Len(Content)
    /\ \E at, k, x, y : AtPair(at, k, x, y)

Gone == pc \in {"astray", "lost"}

(* While the loop has not gone astray, the parameters are the web server's.*)
Understood ==
  ~ Gone => \E k \in 0 .. Len(msg.pairs) :
              /\ Done(k)
              /\ pc \in {"idle", "done"} => k = Len(msg.pairs)
              /\ k = Len(msg.pairs) => msg.cut = 0

Elsewhere == \A i \in Id \ {msg.id} : params[i] = before[i]

(* It has only for a pair that was cut, and puts what it finds where that  *)
(* pair belongs.                                                           *)
CutOnly == /\ Gone => msg.cut > 0 /\ Elsewhere
           /\ pc = "astray" => rid = msg.id

Rest == /\ TypeOK /\ before \in [Id -> Dictionary] /\ Sound(msg)
        /\ Understood /\ Received /\ Waiting /\ Loop /\ CutOnly /\ AnswersUnderstood

Inv == Drafted /\ Rest

-----------------------------------------------------------------------------
(* What is meant.                                                          *)

LEMMA TypesApart ==
  /\ TYPE_BEGIN_REQUEST \in Nat /\ TYPE_ABORT_REQUEST \in Nat /\ TYPE_PARAMS \in Nat
  /\ TYPE_STDIN \in Nat /\ Other \subseteq Nat
  /\ TYPE_BEGIN_REQUEST \notin Other /\ TYPE_ABORT_REQUEST \notin Other
  /\ TYPE_PARAMS \notin Other /\ TYPE_STDIN \notin Other /\ B \notin Other
BY CodecAssumption, ByteFacts
   DEF TYPE_BEGIN_REQUEST, TYPE_ABORT_REQUEST, TYPE_PARAMS, TYPE_STDIN

LEMMA Triple ==
  ASSUME NEW a, NEW b, NEW c
  PROVE  <<a>> \o <<b, c>> = <<a, b, c>>
<1>1. PICK S : S = {a, b, c}
  OBVIOUS
<1>2. PICK x, y, z : x = <<a>> /\ y = <<b, c>> /\ z = <<a, b, c>>
  OBVIOUS
<1>3. /\ x \in Seq(S) /\ Len(x) = 1 /\ x[1] = a
      /\ y \in Seq(S) /\ Len(y) = 2 /\ y[1] = b /\ y[2] = c
      /\ z \in Seq(S) /\ Len(z) = 3 /\ z[1] = a /\ z[2] = b /\ z[3] = c
  <2>1. a \in S /\ b \in S /\ c \in S
    BY <1>1
  <2> QED
    BY <1>2, <2>1
<1>4. PICK r : r = x \o y
  OBVIOUS
<1>5. Joined(r, S, x, y)
  <2>1. x \in Seq(S) /\ y \in Seq(S)
    BY <1>3
  <2> QED
    BY <1>4, <2>1, Joins
<1>6. r \in Seq(S) /\ Len(r) = 3 /\ r[1] = a /\ r[2] = b /\ r[3] = c
  <2>1. r \in Seq(S) /\ Len(r) = 3
    BY <1>3, <1>5 DEF Joined
  <2>2. r[1] = x[1]
    BY <1>3, <1>5 DEF Joined
  <2>3. r[1 + 1] = y[1] /\ r[1 + 2] = y[2]
    BY <1>3, <1>5 DEF Joined
  <2> QED
    BY <1>3, <2>1, <2>2, <2>3
<1>7. \A i \in 1 .. 3 : r[i] = z[i]
  <2>1. \A i \in 1 .. 3 : i = 1 \/ i = 2 \/ i = 3
    OBVIOUS
  <2> QED
    BY <1>3, <1>6, <2>1
<1>8. r = z
  BY <1>3, <1>6, <1>7, SeqEqual
<1> QED
  BY <1>2, <1>4, <1>8

LEMMA MeantNothing ==
  ASSUME \/ msg.type = B
         \/ msg.type = TYPE_STDIN
         \/ msg.type = TYPE_PARAMS /\ msg.pairs # <<>>
         \/ msg.type = TYPE_BEGIN_REQUEST /\ (msg.version # 1 \/ msg.role = ROLE_RESPONDER)
  PROVE  Meant = <<>>
<1>1. /\ ~ (msg.type = TYPE_BEGIN_REQUEST /\ msg.version = 1 /\ msg.role # ROLE_RESPONDER)
      /\ msg.type # TYPE_ABORT_REQUEST
      /\ ~ (msg.type = TYPE_PARAMS /\ msg.pairs = <<>>)
      /\ msg.type \notin Other
  BY TypesApart, ByteFacts
     DEF TYPE_BEGIN_REQUEST, TYPE_ABORT_REQUEST, TYPE_PARAMS, TYPE_STDIN
<1> QED
  BY <1>1 DEF Meant

LEMMA MeantEnd ==
  ASSUME msg.type = TYPE_ABORT_REQUEST
  PROVE  Meant = <<R(TYPE_STDOUT, msg.id, 0, 0),
                   R(TYPE_END_REQUEST, msg.id, 8, PROTOST_REQUEST_COMPLETE)>>
BY TypesApart
   DEF Meant, R, TYPE_BEGIN_REQUEST, TYPE_ABORT_REQUEST, TYPE_PARAMS

LEMMA MeantAnswer ==
  ASSUME msg.type = TYPE_PARAMS, msg.pairs = <<>>
  PROVE  Meant = <<R(TYPE_STDOUT, msg.id, Text, 0), R(TYPE_STDOUT, msg.id, 0, 0),
                   R(TYPE_END_REQUEST, msg.id, 8, PROTOST_REQUEST_COMPLETE)>>
<1>1. Meant = <<R(TYPE_STDOUT, msg.id, Text, 0)>>
                \o <<R(TYPE_STDOUT, msg.id, 0, 0), R(TYPE_END_REQUEST, msg.id, 8, PROTOST_REQUEST_COMPLETE)>>
  BY TypesApart
     DEF Meant, R, TYPE_BEGIN_REQUEST, TYPE_ABORT_REQUEST, TYPE_PARAMS
<1> QED
  BY <1>1, Triple

LEMMA MeantError ==
  ASSUME msg.type = TYPE_BEGIN_REQUEST, msg.version = 1, msg.role # ROLE_RESPONDER
  PROVE  Meant = <<R(TYPE_STDERR, msg.id, Text, 0), R(TYPE_STDOUT, msg.id, 0, 0),
                   R(TYPE_END_REQUEST, msg.id, 8, PROTOST_UNKNOWN_ROLE)>>
<1>1. Meant = <<R(TYPE_STDERR, msg.id, Text, 0)>>
                \o <<R(TYPE_STDOUT, msg.id, 0, 0), R(TYPE_END_REQUEST, msg.id, 8, PROTOST_UNKNOWN_ROLE)>>
  BY TypesApart
     DEF Meant, R, TYPE_BEGIN_REQUEST, TYPE_ABORT_REQUEST, TYPE_PARAMS
<1> QED
  BY <1>1, Triple

LEMMA MeantUnknown ==
  ASSUME msg.type \in Other
  PROVE  Meant = <<R(TYPE_UNKNOWN, 0, 8, 0)>>
BY TypesApart DEF Meant, R

-----------------------------------------------------------------------------
(* Dictionaries of all requests.                                           *)

LEMMA DictionaryFcn ==
  ASSUME NEW d \in Dictionary
  PROVE  IsFcn(d)
<1>1. PICK S \in SUBSET (Name \cup {Junk}) : d \in [S -> Value \cup {Junk}]
  BY DEF Dictionary
<1> QED
  BY <1>1 DEF IsFcn

LEMMA DoneNone ==
  ASSUME NEW f \in [Id -> Dictionary], NEW i \in Id, NEW ps \in Seq(Pair)
  PROVE  [f EXCEPT ![i] = PutAll(@, SubSeq(ps, 1, 0))] = f
<1>1. PICK e : e = SubSeq(ps, 1, 0)
  OBVIOUS
<1>2. Len(e) = 0
  <2>1. PICK m \in 0 .. Len(ps) : m = 0
    BY LenProperties
  <2>2. e = SubSeq(ps, 1, m)
    BY <1>1, <2>1
  <2> QED
    BY <2>1, <2>2, StartOf
<1>3. f[i] \in Dictionary
  OBVIOUS
<1>4. IsFcn(f[i])
  BY <1>3, DictionaryFcn
<1>5. PutAll(f[i], e) = f[i]
  BY <1>2, <1>4, PutAllNone
<1> QED
  BY <1>1, <1>5

LEMMA Whole ==
  ASSUME NEW S, NEW ps \in Seq(S)
  PROVE  SubSeq(ps, 1, Len(ps)) = ps
<1>1. PICK m \in 0 .. Len(ps) : m = Len(ps)
  BY LenProperties
<1>2. PICK e : e = SubSeq(ps, 1, m)
  OBVIOUS
<1>3. e \in Seq(S) /\ Len(e) = m /\ \A i \in 1 .. m : e[i] = ps[i]
  BY <1>2, StartOf
<1>4. e = ps
  BY <1>1, <1>3, SeqEqual
<1> QED
  BY <1>1, <1>2, <1>4

LEMMA PutAllNext ==
  ASSUME NEW d, NEW ps \in Seq(Pair), NEW k \in 1 .. Len(ps)
  PROVE  PutAll(d, SubSeq(ps, 1, k)) = Put(PutAll(d, SubSeq(ps, 1, k - 1)), ps[k])
<1>1. PICK l \in Nat : l = k - 1 /\ l + 1 = k /\ l < Len(ps)
  <2>1. k - 1 \in Nat /\ (k - 1) + 1 = k /\ k - 1 < Len(ps)
    BY LenProperties
  <2> QED
    BY <2>1
<1>2. PICK a, b : a = SubSeq(ps, 1, l) /\ b = SubSeq(ps, 1, l + 1)
  OBVIOUS
<1>3. OneMore(d, a, b, ps[l + 1])
  BY <1>1, <1>2, PutAllStep
<1> QED
  BY <1>1, <1>2, <1>3 DEF OneMore

(* h is f with the first k pairs put into the dictionary of i.             *)
After(h, f, i, ps, k) == h = [f EXCEPT ![i] = PutAll(@, SubSeq(ps, 1, k))]

LEMMA DoneStep ==
  ASSUME NEW f \in [Id -> Dictionary], NEW i \in Id, NEW ps \in Seq(Pair),
         NEW k \in 1 .. Len(ps), NEW g, After(g, f, i, ps, k - 1),
         NEW h, h = [g EXCEPT ![i] = Put(@, ps[k])]
  PROVE  After(h, f, i, ps, k)
<1>1. PICK a, b : a = SubSeq(ps, 1, k - 1) /\ b = SubSeq(ps, 1, k)
  OBVIOUS
<1>2. PICK d, e : d = PutAll(f[i], a) /\ e = PutAll(f[i], b)
  OBVIOUS
<1>3. e = Put(d, ps[k])
  <2>1. \A z : PutAll(z, SubSeq(ps, 1, k)) = Put(PutAll(z, SubSeq(ps, 1, k - 1)), ps[k])
    BY PutAllNext
  <2> QED
    BY <1>1, <1>2, <2>1
<1>4. g = [f EXCEPT ![i] = d]
  BY <1>1, <1>2 DEF After
<1>5. h = [f EXCEPT ![i] = e]
  BY <1>3, <1>4
<1> QED
  BY <1>1, <1>2, <1>5 DEF After

-----------------------------------------------------------------------------
(* The steps of the web server.                                            *)

LEMMA InitInv == Init => Inv
<1> SUFFICES ASSUME Init PROVE Inv
  OBVIOUS
<1>1. PICK i \in Id : msg = Record(B, i)
  BY CodecAssumption DEF Init
<1>2. /\ msg.id = i /\ msg.type = B /\ msg.pairs = <<>> /\ msg.cut = 0
  BY <1>1 DEF Record
<1>3. Empty \in Dictionary
  <2>1. Empty \in [{} -> Value \cup {Junk}]
    BY DEF Empty
  <2> QED
    BY <2>1 DEF Dictionary
<1>4. before \in [Id -> Dictionary] /\ params = before
  BY <1>3 DEF Init
<1>5. TypeOK
  <2>1. count \in 0 .. MaxRecords
    BY CodecAssumption DEF Init
  <2>2. /\ rid \in 0 .. (B * B - 1) /\ len \in 0 .. (B * B - 1)
        /\ buf \in Nat /\ name_len \in Nat /\ data_len \in Nat /\ keep_connection \in BOOLEAN
    BY SmallWords DEF Init
  <2>3. pc \in {"idle", "parse", "name", "data", "pair", "done", "failed", "astray", "lost"}
    BY DEF Init
  <2>4. params \in [Id -> Dictionary]
    BY <1>4
  <2> QED
    BY <1>2, <2>1, <2>2, <2>3, <2>4 DEF TypeOK
<1>6. Sound(msg)
  <2>1. <<>> \in Seq(Pair)
    OBVIOUS
  <2> QED
    BY <1>2, <2>1, ByteFacts DEF Sound
<1>7. Understood
  <2>1. PICK ps \in Seq(Pair) : ps = msg.pairs
    BY <1>6 DEF Sound
  <2>2. params = [before EXCEPT ![msg.id] = PutAll(@, SubSeq(ps, 1, 0))]
    BY <1>2, <1>4, DoneNone
  <2>3. 0 \in 0 .. Len(msg.pairs) /\ Len(msg.pairs) = 0
    BY <1>2
  <2> QED
    BY <1>2, <2>1, <2>2, <2>3 DEF Understood, Done
<1>8. AnswersUnderstood
  <2>1. Meant = <<>>
    BY <1>2, MeantNothing
  <2> QED
    BY <2>1, FoundNone DEF AnswersUnderstood, Init
<1>9. Received /\ Waiting /\ Loop /\ CutOnly
  BY DEF Init, Received, Waiting, Loop, CutOnly, Gone
<1>10. Drafted
  <2>1. pairs = <<>> /\ bytes = <<>>
    BY DEF Init
  <2> QED
    BY <2>1, SpelledNone DEF Drafted
<1> QED
  BY <1>4, <1>5, <1>6, <1>7, <1>8, <1>9, <1>10 DEF Inv, Rest

(* What only the draft changes leaves the rest as it is.                   *)
LEMMA RestKept ==
  ASSUME Rest,
         UNCHANGED <<msg, before, count, record, pc, loop, keep_connection, params, answer>>
  PROVE  Rest'
<1>1. /\ msg' = msg /\ before' = before /\ count' = count /\ record' = record /\ pc' = pc
      /\ rid' = rid /\ len' = len /\ buf' = buf /\ name_len' = name_len
      /\ data_len' = data_len /\ keep_connection' = keep_connection /\ params' = params
      /\ answer' = answer
  BY DEF loop
<1>2. Content' = Content /\ Meant' = Meant
  BY <1>1 DEF Content, Meant
<1>3. TypeOK' /\ (before \in [Id -> Dictionary])' /\ Sound(msg)'
  BY <1>1 DEF Rest, TypeOK
<1>4. Understood'
  BY <1>1 DEF Rest, Understood, Done, Gone
<1>5. Received' /\ Waiting' /\ CutOnly' /\ AnswersUnderstood'
  BY <1>1, <1>2 DEF Rest, Received, Waiting, CutOnly, Gone, Elsewhere, AnswersUnderstood
<1>6. \A at, k, x, y : AtPair(at, k, x, y) => AtPair(at, k, x, y)'
  BY <1>1, <1>2 DEF AtPair, Done
<1>7. Loop'
  BY <1>1, <1>2, <1>6 DEF Rest, Loop
<1> QED
  BY <1>3, <1>4, <1>5, <1>7 DEF Rest

LEMMA AddPairInv ==
  ASSUME Inv, NEW p \in Pair, AddPair(p)
  PROVE  Inv'
<1>1. Rest'
  BY RestKept DEF Inv, AddPair
<1>2. PICK at : Spelled(bytes, pairs, at, 0)
  BY DEF Inv, Drafted
<1>3. PICK c : c = bytes \o Encoded(p)
  OBVIOUS
<1>4. Len(c) < B * B /\ pairs' = Append(pairs, p) /\ bytes' = c
  BY <1>3 DEF AddPair
<1>5. \E to : Spelled(c, Append(pairs, p), to, 0)
  BY <1>2, <1>3, <1>4, SpelledAdd
<1>6. Drafted'
  BY <1>4, <1>5 DEF Drafted
<1> QED
  BY <1>1, <1>6 DEF Inv

(* When a record is sent, the parameters are what was sent before it.      *)
LEMMA SendBefore ==
  ASSUME Inv, pc = "idle", NEW m, NEW c, Send(m, c)
  PROVE  params' = before' /\ before' \in [Id -> Dictionary]
<1>1. /\ params \in [Id -> Dictionary] /\ before \in [Id -> Dictionary] /\ msg.id \in Id
      /\ msg.pairs \in Seq(Pair)
  BY DEF Inv, Rest, TypeOK, Sound
<1>2. PICK k \in 0 .. Len(msg.pairs) :
        /\ params = [before EXCEPT ![msg.id] = PutAll(@, SubSeq(msg.pairs, 1, k))]
        /\ k = Len(msg.pairs)
  BY DEF Inv, Rest, Understood, Done, Gone
<1>3. SubSeq(msg.pairs, 1, k) = msg.pairs
  BY <1>1, <1>2, Whole
<1>4. params = [before EXCEPT ![msg.id] = PutAll(@, msg.pairs)]
  BY <1>2, <1>3
<1> QED
  BY <1>1, <1>4 DEF Send

LEMMA SendInv ==
  ASSUME Inv, pc = "idle", count < MaxRecords,
         NEW m, Sound(m), m.version \in Nat,
         NEW c \in Seq(Nat), Len(c) < B * B, Meaning(m, c), Send(m, c)
  PROVE  Inv'
<1>1. params' = before' /\ before' \in [Id -> Dictionary]
  BY SendBefore
<1>2. /\ count' = count + 1 /\ msg' = m /\ pairs' = <<>> /\ bytes' = <<>> /\ answer' = <<>>
      /\ pc' = "parse" /\ record' = Header(m.version, m.type, m.id, Len(c)) \o c
      /\ UNCHANGED <<loop, keep_connection, params>>
  BY DEF Send
<1>3. m.id \in Id /\ m.type \in Nat /\ m.pairs \in Seq(Pair) /\ m.cut \in Nat
  BY DEF Sound
<1>4. m.id \in 0 .. (B * B - 1)
  BY <1>3, CodecAssumption
<1>5. TypeOK'
  <2>1. count + 1 \in 0 .. MaxRecords
    BY CodecAssumption DEF Inv, Rest, TypeOK
  <2> QED
    BY <1>2, <1>3, <2>1 DEF Inv, Rest, TypeOK, loop
<1>6. Understood'
  <2>1. PICK ps \in Seq(Pair), i \in Id, f \in [Id -> Dictionary] :
          ps = m.pairs /\ i = m.id /\ f = before'
    BY <1>1, <1>3
  <2>2. f = [f EXCEPT ![i] = PutAll(@, SubSeq(ps, 1, 0))]
    BY <2>1, DoneNone
  <2>3. 0 \in 0 .. Len(ps)
    BY LenProperties
  <2>4. 0 = Len(ps) => m.cut = 0
    BY <2>1, EmptySeq DEF Sound
  <2> QED
    BY <1>1, <1>2, <2>1, <2>2, <2>3, <2>4 DEF Understood, Done
<1>7. PICK h, r : h = Header(m.version, m.type, m.id, Len(c)) /\ r = h \o c
  OBVIOUS
<1>8. /\ SubSeq(r, 9, Len(r)) = c /\ r[1] = m.version /\ r[2] = m.type
      /\ Word(r[3], r[4]) = m.id /\ Word(r[5], r[6]) = Len(c)
  <2>1. PICK v \in Nat, t \in Nat, i \in 0 .. (B * B - 1) :
          v = m.version /\ t = m.type /\ i = m.id
    BY <1>3, <1>4
  <2>2. h = Header(v, t, i, Len(c)) /\ r = h \o c
    BY <1>7, <2>1
  <2>3. RecordIs(r, v, t, i, c)
    BY <2>2, RecordOf
  <2> QED
    BY <2>1, <2>3 DEF RecordIs
<1>9. Content' = c /\ record' = r
  <2>1. HeaderSize + 1 = 9
    BY DEF HeaderSize
  <2> QED
    BY <1>2, <1>7, <1>8, <2>1 DEF Content
<1>10. Received' /\ Waiting'
  BY <1>1, <1>2, <1>8, <1>9 DEF Received, Waiting
<1>11. Loop' /\ CutOnly' /\ AnswersUnderstood'
  BY <1>2 DEF Loop, CutOnly, Gone, AnswersUnderstood
<1>12. Drafted'
  BY <1>2, SpelledNone DEF Drafted
<1>13. Sound(msg)'
  BY <1>2
<1> QED
  BY <1>1, <1>5, <1>6, <1>10, <1>11, <1>12, <1>13 DEF Inv, Rest

-----------------------------------------------------------------------------

LEMMA RecordMeans ==
  ASSUME NEW t \in Nat, NEW i \in Id, NEW m, m = Record(t, i)
  PROVE  /\ Sound(m) /\ m.version = 1 /\ m.type = t /\ m.id = i /\ NoPairs(m)
<1>1. /\ m.version = 1 /\ m.type = t /\ m.id = i /\ m.pairs = <<>> /\ m.cut = 0
  BY DEF Record
<1>2. m.pairs \in Seq(Pair) /\ m.cut \in Nat
  BY <1>1
<1> QED
  BY <1>1, <1>2 DEF Sound, NoPairs

LEMMA SendBeginInv ==
  ASSUME Inv, pc = "idle", count < MaxRecords,
         NEW i \in Id, NEW v \in Version, NEW role \in Role, NEW flags \in Flags,
         SendBegin(i, v, role, flags)
  PROVE  Inv'
<1>1. PICK m : m = [Record(TYPE_BEGIN_REQUEST, i) EXCEPT
                      !.version = v, !.role = role, !.flags = flags]
  OBVIOUS
<1>2. PICK c : c = <<role \div B, role % B, flags, 0, 0, 0, 0, 0>>
  OBVIOUS
<1>3. /\ m.type = TYPE_BEGIN_REQUEST /\ m.version = v /\ m.role = role /\ m.id = i
      /\ m.pairs = <<>> /\ m.cut = 0
  BY <1>1 DEF Record
<1>4. m.pairs \in Seq(Pair)
  BY <1>3
<1>5. v \in Nat /\ flags \in Nat /\ role \in 0 .. (B * B - 1)
  BY CodecAssumption, ByteFacts
<1>6. PICK x \in Nat, y \in Nat : x = role \div B /\ y = role % B
  <2>1. role \div B \in 0 .. (B - 1) /\ role % B \in 0 .. (B - 1)
    BY <1>5, WordOf
  <2> QED
    BY <2>1, ByteFacts
<1>7. c \in Seq(Nat) /\ Len(c) = 8 /\ c[1] = x /\ c[2] = y
  BY <1>2, <1>5, <1>6
<1>8. Sound(m) /\ m.version \in Nat
  BY <1>3, <1>4, <1>5, TypesApart DEF Sound
<1>9. Len(c) < B * B
  BY <1>7, ByteFacts
<1>10. Meaning(m, c)
  BY <1>3, <1>6, <1>7 DEF Meaning, NoPairs
<1>11. Send(m, c)
  BY <1>1, <1>2 DEF SendBegin
<1>12. c \in Seq(Nat)
  BY <1>7
<1> QED
  BY <1>8, <1>9, <1>10, <1>11, <1>12, SendInv

LEMMA SendParamsInv ==
  ASSUME Inv, pc = "idle", count < MaxRecords, pairs # <<>>,
         NEW i \in Id, NEW cut \in Cut, SendParams(i, cut)
  PROVE  Inv'
<1>1. PICK at : Spelled(bytes, pairs, at, 0)
  BY DEF Inv, Drafted
<1>2. PICK ps, c : ps = pairs /\ c = SubSeq(bytes, 1, Len(bytes) - cut)
  OBVIOUS
<1>3. cut \in Nat /\ cut < Len(Encoded(ps[Len(ps)])) /\ ps # <<>>
  BY <1>2, CodecAssumption DEF SendParams
<1>4. Spelled(c, ps, at, cut) /\ at[Len(ps)] < Len(c)
  BY <1>1, <1>2, <1>3, SpelledCut
<1>5. PICK m : m = [Record(TYPE_PARAMS, i) EXCEPT !.pairs = ps, !.cut = cut]
  OBVIOUS
<1>6. m.type = TYPE_PARAMS /\ m.version = 1 /\ m.id = i /\ m.pairs = ps /\ m.cut = cut
  BY <1>5 DEF Record
<1>7. ps \in Seq(Pair) /\ c \in Seq(Nat) /\ Len(c) + cut < B * B
  BY <1>4 DEF Spelled
<1>8. PICK l \in Nat : l = Len(c)
  BY <1>7, LenProperties
<1>9. Len(c) < B * B /\ Len(c) > 0
  <2>1. PICK z \in Nat : z = B * B
    BY ByteFacts
  <2>2. l < B * B
    BY <1>3, <1>7, <1>8, <2>1
  <2>3. Len(ps) \in 1 .. Len(ps)
    BY <1>3, <1>7, LenProperties, EmptySeq
  <2>4. at[Len(ps)] \in Nat
    BY <1>4, <2>3, PlaceFacts
  <2> QED
    BY <1>4, <1>8, <2>2, <2>4
<1>10. Sound(m) /\ m.version \in Nat
  BY <1>3, <1>6, <1>7, TypesApart DEF Sound
<1>11. Meaning(m, c)
  BY <1>3, <1>4, <1>6, <1>9 DEF Meaning
<1>12. Send(m, c)
  BY <1>2, <1>5 DEF SendParams
<1> QED
  BY <1>7, <1>9, <1>10, <1>11, <1>12, SendInv

LEMMA SendPlainInv ==
  ASSUME Inv, pc = "idle", count < MaxRecords, NEW i \in Id, NEW t, NEW n \in {0, 1},
         \/ t \in {TYPE_ABORT_REQUEST, TYPE_STDIN} \cup Other
         \/ t = TYPE_PARAMS /\ n = 0,
         SendPlain(i, t, n)
  PROVE  Inv'
<1>1. PICK m, c : m = Record(t, i) /\ c = [k \in 1 .. n |-> 0]
  OBVIOUS
<1>2. t \in Nat
  BY TypesApart
<1>3. Sound(m) /\ m.version = 1 /\ m.type = t /\ NoPairs(m)
  BY <1>1, <1>2, RecordMeans
<1>4. n \in Nat /\ 0 \in Nat
  OBVIOUS
<1>5. c \in Seq(Nat) /\ Len(c) = n
  BY <1>1, <1>4, Zeros
<1>6. Len(c) < B * B
  BY <1>5, ByteFacts
<1>7. Meaning(m, c)
  BY <1>3, <1>5 DEF Meaning
<1>8. Send(m, c)
  BY <1>1 DEF SendPlain
<1>9. m.version \in Nat
  BY <1>3
<1> QED
  BY <1>3, <1>5, <1>6, <1>7, <1>8, <1>9, SendInv

LEMMA WebServerInv ==
  ASSUME Inv, WebServer
  PROVE  Inv'
<1>1. pc = "idle" /\ count < MaxRecords
  BY DEF WebServer
<1>2. CASE \E p \in Pair : AddPair(p)
  BY <1>2, AddPairInv
<1>3. CASE pairs # <<>> /\ \E i \in Id, cut \in Cut : SendParams(i, cut)
  BY <1>1, <1>3, SendParamsInv
<1>4. CASE \E i \in Id : \E v \in Version, role \in Role, flags \in Flags :
             SendBegin(i, v, role, flags)
  BY <1>1, <1>4, SendBeginInv
<1>5. CASE \E i \in Id : \E t \in {TYPE_ABORT_REQUEST, TYPE_PARAMS} : SendPlain(i, t, 0)
  BY <1>1, <1>5, SendPlainInv
<1>6. CASE \E i \in Id : \E t \in {TYPE_STDIN} \cup Other, n \in {0, 1} : SendPlain(i, t, n)
  BY <1>1, <1>6, SendPlainInv
<1> QED
  BY <1>2, <1>3, <1>4, <1>5, <1>6 DEF WebServer

-----------------------------------------------------------------------------
(* The steps of the program: the header and the handlers.                  *)

LEMMA Kept ==
  ASSUME Inv, UNCHANGED sent
  PROVE  /\ Drafted' /\ Sound(msg)' /\ (before \in [Id -> Dictionary])'
         /\ Content' = Content /\ Meant' = Meant
         /\ msg' = msg /\ before' = before /\ record' = record /\ count' = count
<1>1. /\ msg' = msg /\ before' = before /\ count' = count /\ record' = record
      /\ pairs' = pairs /\ bytes' = bytes
  BY DEF sent, draft
<1>2. Drafted'
  BY <1>1 DEF Inv, Drafted
<1>3. Sound(msg)' /\ (before \in [Id -> Dictionary])'
  BY <1>1 DEF Inv, Rest
<1> QED
  BY <1>1, <1>2, <1>3 DEF Content, Meant

(* A record without pairs is handled, or refused.                          *)
LEMMA HandledInv ==
  ASSUME Inv, pc = "parse", NoPairs(msg), UNCHANGED <<sent, params>>, TypeOK',
         pc' \in {"idle", "done", "failed"}, Found(answer', Meant)
  PROVE  Inv'
<1>1. /\ Drafted' /\ Sound(msg)' /\ (before \in [Id -> Dictionary])' /\ Meant' = Meant
      /\ msg' = msg /\ before' = before /\ params' = params
  BY Kept
<1>2. PICK ps \in Seq(Pair), i \in Id, f \in [Id -> Dictionary] :
        ps = msg.pairs /\ i = msg.id /\ f = before
  BY DEF Inv, Rest, Sound
<1>3. params = f
  BY <1>2 DEF Inv, Rest, Waiting
<1>4. Understood'
  <2>1. f = [f EXCEPT ![i] = PutAll(@, SubSeq(ps, 1, 0))]
    BY DoneNone
  <2>2. Len(ps) = 0 /\ msg.cut = 0 /\ 0 \in 0 .. Len(ps)
    BY <1>2 DEF NoPairs
  <2> QED
    BY <1>1, <1>2, <1>3, <2>1, <2>2 DEF Understood, Done
<1>5. AnswersUnderstood'
  BY <1>1 DEF AnswersUnderstood
<1>6. Received' /\ Waiting' /\ Loop' /\ CutOnly'
  BY DEF Received, Waiting, Loop, CutOnly, Gone
<1> QED
  BY <1>1, <1>4, <1>5, <1>6 DEF Inv, Rest

(* What the program reads in the header.                                   *)
LEMMA Parsed ==
  ASSUME Inv, pc = "parse"
  PROVE  /\ Content \in Seq(Nat) /\ Len(Content) \in 0 .. (B * B - 1) /\ answer = <<>>
         /\ record[1] = msg.version /\ type = msg.type
         /\ Word(record[3], record[4]) = msg.id /\ Word(record[5], record[6]) = Len(Content)
         /\ msg.id \in Id /\ msg.id \in 0 .. (B * B - 1)
         /\ Meaning(msg, Content) /\ params = before
<1>1. /\ Content \in Seq(Nat) /\ Len(Content) < B * B /\ answer = <<>>
      /\ record[1] = msg.version /\ record[2] = msg.type
      /\ Word(record[3], record[4]) = msg.id /\ Word(record[5], record[6]) = Len(Content)
  BY DEF Inv, Rest, Received
<1>2. Len(Content) \in 0 .. (B * B - 1)
  BY <1>1, ByteFacts, LenProperties
<1>3. msg.id \in Id /\ Meaning(msg, Content) /\ params = before
  BY DEF Inv, Rest, Sound, Waiting
<1>4. msg.id \in 0 .. (B * B - 1)
  BY <1>3, CodecAssumption
<1> QED
  BY <1>1, <1>2, <1>3, <1>4 DEF type

LEMMA BadVersionInv ==
  ASSUME Inv, BadVersion
  PROVE  Inv'
<1>1. pc = "parse" /\ record[1] # 1 /\ pc' = "failed" /\ UNCHANGED <<sent, params>>
  BY DEF BadVersion
<1>2. msg.version # 1 /\ Meaning(msg, Content) /\ answer = <<>>
  BY <1>1, Parsed
<1>3. msg.type = TYPE_BEGIN_REQUEST /\ NoPairs(msg)
  BY <1>2 DEF Meaning
<1>4. Meant = <<>>
  BY <1>2, <1>3, MeantNothing
<1>5. Found(answer', Meant)
  BY <1>2, <1>4, FoundNone DEF BadVersion
<1>6. TypeOK'
  BY <1>1 DEF BadVersion, Inv, Rest, TypeOK, sent, loop
<1> QED
  BY <1>1, <1>3, <1>5, <1>6, HandledInv

(* The types of records are different numbers.                             *)
LEMMA MeaningBegin ==
  ASSUME NEW c, Meaning(msg, c), msg.type = TYPE_BEGIN_REQUEST
  PROVE  /\ NoPairs(msg) /\ msg.role \in Role
         /\ c[1] = msg.role \div B /\ c[2] = msg.role % B
BY TypesApart DEF Meaning, TYPE_BEGIN_REQUEST, TYPE_ABORT_REQUEST, TYPE_PARAMS, TYPE_STDIN

LEMMA MeaningParams ==
  ASSUME NEW c, Meaning(msg, c), msg.type = TYPE_PARAMS
  PROVE  \/ NoPairs(msg) /\ Len(c) = 0
         \/ /\ msg.pairs # <<>> /\ Len(c) > 0
            /\ \E at : Spelled(c, msg.pairs, at, msg.cut) /\ at[Len(msg.pairs)] < Len(c)
BY TypesApart DEF Meaning, TYPE_BEGIN_REQUEST, TYPE_ABORT_REQUEST, TYPE_PARAMS, TYPE_STDIN

LEMMA MeaningPlain ==
  ASSUME NEW c, Meaning(msg, c), msg.type \in {TYPE_ABORT_REQUEST, TYPE_STDIN} \cup Other
  PROVE  NoPairs(msg)
BY TypesApart DEF Meaning, TYPE_BEGIN_REQUEST, TYPE_ABORT_REQUEST, TYPE_PARAMS, TYPE_STDIN

LEMMA ParseTypes ==
  ASSUME Inv, Parse
  PROVE  /\ pc = "parse" /\ msg.version = 1 /\ rid' = msg.id /\ len' = Len(Content)
         /\ (count \in 0 .. MaxRecords /\ msg.id \in Id)'
         /\ rid' \in 0 .. (B * B - 1) /\ len' \in 0 .. (B * B - 1)
         /\ name_len' \in Nat /\ data_len' \in Nat /\ UNCHANGED sent
<1>1. /\ pc = "parse" /\ record[1] = 1 /\ rid' = Word(record[3], record[4])
      /\ len' = Word(record[5], record[6]) /\ UNCHANGED <<sent, name_len, data_len>>
  BY DEF Parse
<1>2. /\ msg.version = 1 /\ rid' = msg.id /\ len' = Len(Content)
      /\ rid' \in 0 .. (B * B - 1) /\ len' \in 0 .. (B * B - 1)
  BY <1>1, Parsed
<1>3. count' = count /\ msg' = msg
  BY <1>1, Kept
<1> QED
  BY <1>1, <1>2, <1>3 DEF Inv, Rest, TypeOK

LEMMA BeginInv ==
  ASSUME Inv, Parse, process_begin_request(rid')
  PROVE  Inv'
<1>1. /\ type = TYPE_BEGIN_REQUEST /\ UNCHANGED <<buf, params>>
      /\ keep_connection' = (Content[3] % 2 = FLAG_KEEP_CONN)
  BY DEF process_begin_request
<1>2. /\ pc = "parse" /\ msg.version = 1 /\ rid' = msg.id /\ UNCHANGED sent
      /\ (count \in 0 .. MaxRecords /\ msg.id \in Id)'
      /\ rid' \in 0 .. (B * B - 1) /\ len' \in 0 .. (B * B - 1)
      /\ name_len' \in Nat /\ data_len' \in Nat
  BY ParseTypes
<1>3. /\ type = msg.type /\ answer = <<>> /\ Meaning(msg, Content)
      /\ msg.id \in 0 .. (B * B - 1)
  BY <1>2, Parsed
<1>4. /\ NoPairs(msg) /\ msg.role \in Role
      /\ Content[1] = msg.role \div B /\ Content[2] = msg.role % B
  BY <1>1, <1>3, MeaningBegin
<1>5. Word(Content[1], Content[2]) = msg.role
  <2>1. msg.role \in 0 .. (B * B - 1)
    BY <1>4, CodecAssumption
  <2> QED
    BY <1>4, <2>1, WordOf
<1>6. pc' \in {"idle", "failed"} /\ Found(answer', Meant)
  <2>1. CASE msg.role = ROLE_RESPONDER
    <3>1. pc' = "idle" /\ answer' = answer
      BY <1>5, <2>1 DEF process_begin_request
    <3>2. Meant = <<>>
      BY <1>1, <1>3, <2>1, MeantNothing
    <3> QED
      BY <1>3, <3>1, <3>2, FoundNone
  <2>2. CASE msg.role # ROLE_RESPONDER
    <3>1. PICK i \in 0 .. (B * B - 1) : i = msg.id
      BY <1>3
    <3>2. /\ pc' = "failed"
          /\ answer' = request_write(i, Text, TYPE_STDERR)
                         \o request_end(i, 1, PROTOST_UNKNOWN_ROLE)
      BY <1>2, <1>5, <2>2, <3>1 DEF process_begin_request
    <3>3. Meant = <<R(TYPE_STDERR, i, Text, 0), R(TYPE_STDOUT, i, 0, 0),
                    R(TYPE_END_REQUEST, i, 8, PROTOST_UNKNOWN_ROLE)>>
      BY <1>1, <1>2, <1>3, <2>2, <3>1, MeantError
    <3>4. Found(request_write(i, Text, TYPE_STDERR) \o request_end(i, 1, PROTOST_UNKNOWN_ROLE),
                <<R(TYPE_STDERR, i, Text, 0), R(TYPE_STDOUT, i, 0, 0),
                  R(TYPE_END_REQUEST, i, 8, PROTOST_UNKNOWN_ROLE)>>)
      <4>1. TYPE_STDERR \in Nat /\ TYPE_STDERR # TYPE_END_REQUEST
        BY DEF TYPE_STDERR, TYPE_END_REQUEST
      <4>2. PROTOST_UNKNOWN_ROLE \in Nat /\ 1 \in Nat
        BY DEF PROTOST_UNKNOWN_ROLE
      <4> QED
        BY <4>1, <4>2, WriteFound
    <3> QED
      BY <3>2, <3>3, <3>4
  <2> QED
    BY <2>1, <2>2
<1>7. TypeOK'
  <2>1. buf' \in Nat /\ keep_connection' \in BOOLEAN /\ params' \in [Id -> Dictionary]
    BY <1>1 DEF Inv, Rest, TypeOK
  <2> QED
    BY <1>2, <1>6, <2>1 DEF TypeOK
<1> QED
  BY <1>1, <1>2, <1>4, <1>6, <1>7, HandledInv

LEMMA AbortInv ==
  ASSUME Inv, Parse, process_abort_request(rid')
  PROVE  Inv'
<1>1. /\ type = TYPE_ABORT_REQUEST /\ UNCHANGED <<buf, keep_connection, params>>
      /\ answer' = request_end(rid', 0, PROTOST_REQUEST_COMPLETE) /\ pc' \in {"idle", "done"}
  BY DEF process_abort_request
<1>2. /\ pc = "parse" /\ rid' = msg.id /\ UNCHANGED sent
      /\ (count \in 0 .. MaxRecords /\ msg.id \in Id)'
      /\ rid' \in 0 .. (B * B - 1) /\ len' \in 0 .. (B * B - 1)
      /\ name_len' \in Nat /\ data_len' \in Nat
  BY ParseTypes
<1>3. msg.type = TYPE_ABORT_REQUEST /\ Meaning(msg, Content) /\ msg.id \in 0 .. (B * B - 1)
  BY <1>1, <1>2, Parsed
<1>4. NoPairs(msg)
  BY <1>3, MeaningPlain
<1>5. Found(answer', Meant)
  <2>1. PICK i \in 0 .. (B * B - 1) : i = msg.id
    BY <1>3
  <2>2. PROTOST_REQUEST_COMPLETE \in Nat /\ 0 \in Nat
    BY DEF PROTOST_REQUEST_COMPLETE
  <2>3. Found(request_end(i, 0, PROTOST_REQUEST_COMPLETE),
              <<R(TYPE_STDOUT, i, 0, 0), R(TYPE_END_REQUEST, i, 8, PROTOST_REQUEST_COMPLETE)>>)
    BY <2>2, EndFound
  <2>4. Meant = <<R(TYPE_STDOUT, i, 0, 0), R(TYPE_END_REQUEST, i, 8, PROTOST_REQUEST_COMPLETE)>>
    BY <1>3, <2>1, MeantEnd
  <2> QED
    BY <1>1, <1>2, <2>1, <2>3, <2>4
<1>6. TypeOK'
  <2>1. buf' \in Nat /\ keep_connection' \in BOOLEAN /\ params' \in [Id -> Dictionary]
    BY <1>1 DEF Inv, Rest, TypeOK
  <2> QED
    BY <1>1, <1>2, <2>1 DEF TypeOK
<1> QED
  BY <1>1, <1>2, <1>4, <1>5, <1>6, HandledInv

LEMMA StdinInv ==
  ASSUME Inv, Parse, process_stdin(len')
  PROVE  Inv'
<1>1. /\ type = TYPE_STDIN /\ UNCHANGED <<buf, keep_connection, params>>
      /\ answer' = answer /\ pc' \in {"idle", "done"}
  BY DEF process_stdin
<1>2. /\ pc = "parse" /\ UNCHANGED sent
      /\ (count \in 0 .. MaxRecords /\ msg.id \in Id)'
      /\ rid' \in 0 .. (B * B - 1) /\ len' \in 0 .. (B * B - 1)
      /\ name_len' \in Nat /\ data_len' \in Nat
  BY ParseTypes
<1>3. msg.type = TYPE_STDIN /\ Meaning(msg, Content) /\ answer = <<>>
  BY <1>1, <1>2, Parsed
<1>4. NoPairs(msg)
  BY <1>3, MeaningPlain
<1>5. Found(answer', Meant)
  BY <1>1, <1>3, MeantNothing, FoundNone
<1>6. TypeOK'
  <2>1. buf' \in Nat /\ keep_connection' \in BOOLEAN /\ params' \in [Id -> Dictionary]
    BY <1>1 DEF Inv, Rest, TypeOK
  <2> QED
    BY <1>1, <1>2, <2>1 DEF TypeOK
<1> QED
  BY <1>1, <1>2, <1>4, <1>5, <1>6, HandledInv

LEMMA UnknownInv ==
  ASSUME Inv, Parse, process_unknown
  PROVE  Inv'
<1>1. /\ type \in Other /\ UNCHANGED <<buf, keep_connection, params>>
      /\ answer' = unknown_type_init(type) /\ pc' = "idle"
  BY DEF process_unknown
<1>2. /\ pc = "parse" /\ UNCHANGED sent
      /\ (count \in 0 .. MaxRecords /\ msg.id \in Id)'
      /\ rid' \in 0 .. (B * B - 1) /\ len' \in 0 .. (B * B - 1)
      /\ name_len' \in Nat /\ data_len' \in Nat
  BY ParseTypes
<1>3. msg.type \in Other /\ type = msg.type /\ Meaning(msg, Content)
  BY <1>1, <1>2, Parsed
<1>4. NoPairs(msg)
  BY <1>3, MeaningPlain
<1>5. Found(answer', Meant)
  <2>1. PICK t \in Nat : t = type
    BY <1>1, TypesApart
  <2>2. Found(unknown_type_init(t), <<R(TYPE_UNKNOWN, 0, 8, 0)>>)
    BY UnknownFound
  <2>3. Meant = <<R(TYPE_UNKNOWN, 0, 8, 0)>>
    BY <1>3, MeantUnknown
  <2> QED
    BY <1>1, <2>1, <2>2, <2>3
<1>6. TypeOK'
  <2>1. buf' \in Nat /\ keep_connection' \in BOOLEAN /\ params' \in [Id -> Dictionary]
    BY <1>1 DEF Inv, Rest, TypeOK
  <2> QED
    BY <1>1, <1>2, <2>1 DEF TypeOK
<1> QED
  BY <1>1, <1>2, <1>4, <1>5, <1>6, HandledInv

-----------------------------------------------------------------------------
(* The steps of the program: the loop over the pairs.                      *)

LEMMA GoesOnInv ==
  ASSUME Inv, pc \in {"parse", "name", "data", "pair"}, pc' \in {"name", "data", "pair"},
         UNCHANGED <<sent, params, answer>>, TypeOK', Loop'
  PROVE  Inv'
<1>1. /\ Drafted' /\ Sound(msg)' /\ (before \in [Id -> Dictionary])'
      /\ Content' = Content /\ msg' = msg /\ before' = before /\ record' = record
      /\ params' = params /\ answer' = answer
  BY Kept
<1>2. Understood'
  <2>1. PICK k \in 0 .. Len(msg.pairs) :
          /\ params = [before EXCEPT ![msg.id] = PutAll(@, SubSeq(msg.pairs, 1, k))]
          /\ k = Len(msg.pairs) => msg.cut = 0
    BY DEF Inv, Rest, Understood, Done, Gone
  <2> QED
    BY <1>1, <2>1 DEF Understood, Done
<1>3. Received'
  BY <1>1 DEF Inv, Rest, Received
<1>4. Waiting' /\ CutOnly' /\ AnswersUnderstood'
  BY DEF Waiting, CutOnly, Gone, AnswersUnderstood
<1> QED
  BY <1>1, <1>2, <1>3, <1>4 DEF Inv, Rest

LEMMA ParamsStarted ==
  ASSUME Inv, Parse, type = TYPE_PARAMS, msg.pairs # <<>>, Len(Content) > 0,
         NEW at, Spelled(Content, msg.pairs, at, msg.cut), at[Len(msg.pairs)] < Len(Content),
         pc' = "name", buf' = 0, UNCHANGED <<keep_connection, params, answer>>
  PROVE  Inv'
<1>1. /\ pc = "parse" /\ rid' = msg.id /\ len' = Len(Content) /\ UNCHANGED sent
      /\ (count \in 0 .. MaxRecords /\ msg.id \in Id)'
      /\ rid' \in 0 .. (B * B - 1) /\ len' \in 0 .. (B * B - 1)
      /\ name_len' \in Nat /\ data_len' \in Nat
  BY ParseTypes
<1>2. /\ Content' = Content /\ msg' = msg /\ before' = before /\ params' = params
  BY <1>1, Kept
<1>3. TypeOK'
  <2>1. keep_connection' \in BOOLEAN /\ params' \in [Id -> Dictionary]
    BY DEF Inv, Rest, TypeOK
  <2> QED
    BY <1>1, <2>1 DEF TypeOK
<1>4. PICK ps \in Seq(Pair), i \in Id, f \in [Id -> Dictionary] :
        ps = msg.pairs /\ i = msg.id /\ f = before
  BY DEF Inv, Rest, Sound
<1>5. PICK k : k = 1
  OBVIOUS
<1>6. k \in 1 .. Len(ps) /\ k - 1 = 0
  BY <1>4, <1>5, EmptySeq, LenProperties
<1>7. PICK x, y : PairAt(Content, ps[k], at[k], x, y, at[k + 1])
  BY <1>4, <1>6, PairRead
<1>8. Done(k - 1)
  <2>1. params = f
    BY <1>1, <1>4, Parsed
  <2>2. f = [f EXCEPT ![i] = PutAll(@, SubSeq(ps, 1, 0))]
    BY DoneNone
  <2> QED
    BY <1>4, <1>6, <2>1, <2>2 DEF Done
<1>9. Done(k - 1)'
  BY <1>2, <1>8 DEF Done
<1>10. buf' = at[k]
  BY <1>5 DEF Spelled
<1>11. AtPair(at, k, x, y)'
  BY <1>1, <1>2, <1>4, <1>6, <1>7, <1>9, <1>10 DEF AtPair
<1>12. msg.type = TYPE_PARAMS
  BY <1>1, Parsed
<1>13. Loop'
  BY <1>1, <1>2, <1>11, <1>12 DEF Loop
<1> QED
  BY <1>1, <1>3, <1>13, GoesOnInv

LEMMA ParamsInv ==
  ASSUME Inv, Parse, process_params(rid', len')
  PROVE  Inv'
<1>1. /\ type = TYPE_PARAMS /\ UNCHANGED <<keep_connection, params>>
      /\ len' = 0 => /\ answer' = request_handle(rid') /\ pc' = "idle" /\ buf' = buf
      /\ len' # 0 => buf' = 0 /\ pc' = "name" /\ answer' = answer
  BY DEF process_params
<1>2. /\ pc = "parse" /\ rid' = msg.id /\ len' = Len(Content) /\ UNCHANGED sent
      /\ (count \in 0 .. MaxRecords /\ msg.id \in Id)'
      /\ rid' \in 0 .. (B * B - 1) /\ len' \in 0 .. (B * B - 1)
      /\ name_len' \in Nat /\ data_len' \in Nat
  BY ParseTypes
<1>3. msg.type = TYPE_PARAMS /\ Meaning(msg, Content) /\ msg.id \in 0 .. (B * B - 1)
  BY <1>1, <1>2, Parsed
<1>4. \/ NoPairs(msg) /\ Len(Content) = 0
      \/ /\ msg.pairs # <<>> /\ Len(Content) > 0
         /\ \E at : Spelled(Content, msg.pairs, at, msg.cut) /\ at[Len(msg.pairs)] < Len(Content)
  BY <1>3, MeaningParams
<1>5. CASE NoPairs(msg) /\ Len(Content) = 0
  <2>1. answer' = request_handle(rid') /\ pc' = "idle" /\ buf' = buf
    BY <1>1, <1>2, <1>5
  <2>2. Found(answer', Meant)
    <3>1. PICK i \in 0 .. (B * B - 1) : i = msg.id
      BY <1>3
    <3>2. /\ PROTOST_REQUEST_COMPLETE \in Nat /\ 0 \in Nat
          /\ TYPE_STDOUT \in Nat /\ TYPE_STDOUT # TYPE_END_REQUEST
      BY DEF PROTOST_REQUEST_COMPLETE, TYPE_STDOUT, TYPE_END_REQUEST
    <3>3. Found(request_write(i, Text, TYPE_STDOUT) \o request_end(i, 0, PROTOST_REQUEST_COMPLETE),
                <<R(TYPE_STDOUT, i, Text, 0), R(TYPE_STDOUT, i, 0, 0),
                  R(TYPE_END_REQUEST, i, 8, PROTOST_REQUEST_COMPLETE)>>)
      BY <3>2, WriteFound
    <3>4. Meant = <<R(TYPE_STDOUT, i, Text, 0), R(TYPE_STDOUT, i, 0, 0),
                    R(TYPE_END_REQUEST, i, 8, PROTOST_REQUEST_COMPLETE)>>
      BY <1>3, <1>5, <3>1, MeantAnswer DEF NoPairs
    <3> QED
      BY <1>2, <2>1, <3>1, <3>3, <3>4 DEF request_handle
  <2>3. TypeOK'
    <3>1. buf' \in Nat /\ keep_connection' \in BOOLEAN /\ params' \in [Id -> Dictionary]
      BY <1>1, <2>1 DEF Inv, Rest, TypeOK
    <3> QED
      BY <1>2, <2>1, <3>1 DEF TypeOK
  <2> QED
    BY <1>1, <1>2, <1>5, <2>1, <2>2, <2>3, HandledInv
<1>6. CASE /\ msg.pairs # <<>> /\ Len(Content) > 0
           /\ \E at : Spelled(Content, msg.pairs, at, msg.cut)
                        /\ at[Len(msg.pairs)] < Len(Content)
  <2>1. buf' = 0 /\ pc' = "name" /\ answer' = answer
    BY <1>1, <1>2, <1>6
  <2> QED
    BY <1>1, <1>6, <2>1, ParamsStarted
<1> QED
  BY <1>4, <1>5, <1>6

LEMMA ParseInv ==
  ASSUME Inv, Parse
  PROVE  Inv'
BY BeginInv, AbortInv, ParamsInv, StdinInv, UnknownInv DEF Parse

(* In the loop.                                                            *)
LEMMA InLoop ==
  ASSUME Inv, pc \in {"name", "data", "pair"}
  PROVE  /\ Content \in Seq(Nat) /\ len = Len(Content) /\ len \in Nat /\ buf \in Nat
         /\ name_len \in Nat /\ data_len \in Nat /\ rid = msg.id
         /\ msg.type = TYPE_PARAMS /\ msg.pairs # <<>> /\ answer = <<>>
         /\ \E at, k, x, y : AtPair(at, k, x, y)
<1>1. Content \in Seq(Nat) /\ answer = <<>>
  BY DEF Inv, Rest, Received
<1>2. /\ len = Len(Content) /\ rid = msg.id /\ msg.type = TYPE_PARAMS /\ msg.pairs # <<>>
      /\ \E at, k, x, y : AtPair(at, k, x, y)
  BY DEF Inv, Rest, Loop
<1>3. len \in Nat
  BY <1>1, <1>2, LenProperties
<1>4. buf \in Nat /\ name_len \in Nat /\ data_len \in Nat
  BY DEF Inv, Rest, TypeOK
<1> QED
  BY <1>1, <1>2, <1>3, <1>4

(* The places of pair k: q is in front of it, r behind it.                 *)
PairPlaces(at, k, x, y, q, r, p) ==
  /\ PairAt(Content, p, q, x, y, r) /\ p = msg.pairs[k] /\ q = at[k] /\ r = at[k + 1]
  /\ q \in Nat /\ r \in Nat /\ q < len
  /\ k < Len(msg.pairs) => r < len
  /\ k = Len(msg.pairs) => r = len + msg.cut
  /\ r > len => k = Len(msg.pairs) /\ msg.cut > 0

LEMMA PairPlacesAt ==
  ASSUME NEW at, NEW k, NEW x, NEW y, AtPair(at, k, x, y), len = Len(Content)
  PROVE  \E q, r, p : PairPlaces(at, k, x, y, q, r, p)
<1>1. /\ Spelled(Content, msg.pairs, at, msg.cut) /\ at[Len(msg.pairs)] < Len(Content)
      /\ k \in 1 .. Len(msg.pairs) /\ PairAt(Content, msg.pairs[k], at[k], x, y, at[k + 1])
  BY DEF AtPair
<1>2. /\ at[k] \in Nat /\ at[k + 1] \in Nat /\ at[k] < Len(Content)
      /\ k < Len(msg.pairs) => at[k + 1] < Len(Content)
      /\ k = Len(msg.pairs) => at[k + 1] = Len(Content) + msg.cut
      /\ at[k + 1] > Len(Content) => k = Len(msg.pairs) /\ msg.cut > 0
  BY <1>1, PlaceFacts
<1> QED
  BY <1>1, <1>2 DEF PairPlaces

-----------------------------------------------------------------------------

(* A length is read: what the step keeps.                                  *)
LEMMA LoopKept ==
  ASSUME Inv, pc \in {"name", "data"}, UNCHANGED <<sent, rid, len, keep_connection, params, answer>>,
         pc' \in {"data", "pair"}, buf' \in Nat, name_len' \in Nat, data_len' \in Nat,
         NEW at, NEW k, NEW x, NEW y, AtPair(at, k, x, y),
         pc' = "data" => /\ buf' = at[k] + Len(x)
                         /\ buf' <= len => name_len' = Len(msg.pairs[k].name),
         pc' = "pair" => \/ /\ buf' <= len /\ buf' = at[k] + Len(x) + Len(y)
                            /\ name_len' = Len(msg.pairs[k].name)
                            /\ data_len' = Len(msg.pairs[k].value)
                         \/ buf' > len /\ k = Len(msg.pairs) /\ msg.cut > 0
  PROVE  Inv'
<1>1. /\ Content' = Content /\ msg' = msg /\ before' = before /\ count' = count
      /\ params' = params /\ rid' = rid /\ len' = len
  BY Kept
<1>2. TypeOK'
  <2>1. pc' \in {"idle", "parse", "name", "data", "pair", "done", "failed", "astray", "lost"}
    OBVIOUS
  <2>2. keep_connection' \in BOOLEAN /\ params' \in [Id -> Dictionary]
    BY DEF Inv, Rest, TypeOK
  <2>3. /\ (count \in 0 .. MaxRecords /\ msg.id \in Id)'
        /\ rid' \in 0 .. (B * B - 1) /\ len' \in 0 .. (B * B - 1)
    BY <1>1 DEF Inv, Rest, TypeOK
  <2> QED
    BY <2>1, <2>2, <2>3 DEF TypeOK
<1>3. Done(k - 1)'
  BY <1>1 DEF AtPair, Done
<1>4. pc' # "name"
  OBVIOUS
<1>5. AtPair(at, k, x, y)'
  BY <1>1, <1>3, <1>4 DEF AtPair
<1>6. Loop'
  <2>1. /\ msg.type = TYPE_PARAMS /\ msg.pairs # <<>> /\ rid = msg.id /\ len = Len(Content)
    BY InLoop
  <2> QED
    BY <1>1, <1>5, <2>1 DEF Loop
<1> QED
  BY <1>2, <1>6, GoesOnInv

(* What the program reads of the memory m, c and eight bytes behind it.    *)
Reached(m, c) == m \in Seq(Nat) /\ Len(m) = Len(c) + 8 /\ \A i \in 1 .. Len(c) : m[i] = c[i]

Lengths(m, q) == Length(m, q + 1) \in Nat /\ LengthSize(m, q + 1) \in 1 .. 4

LEMMA MemoryReached ==
  ASSUME Content \in Seq(Nat), NEW m \in Memory
  PROVE  Reached(m, Content)
<1>1. PICK j \in Behind : m = Content \o [k \in 1 .. 8 |-> j]
  BY DEF Memory
<1> QED
  BY <1>1, MemoryIs DEF Reached

LEMMA AnyRead ==
  ASSUME NEW c, NEW l \in Nat, l = Len(c), NEW m, Reached(m, c), NEW q \in Nat, q < l + 5
  PROVE  Lengths(m, q)
<1>1. m \in Seq(Nat) /\ Len(m) = l + 8
  BY DEF Reached
<1>2. q + 1 \in Nat /\ q + 1 > 0 /\ (q + 1) + 3 <= Len(m)
  BY <1>1
<1>3. PICK p \in Nat : p = q + 1 /\ p > 0 /\ p + 3 <= Len(m)
  BY <1>2
<1>4. Length(m, p) \in Nat /\ LengthSize(m, p) \in 1 .. 4
  BY <1>1, <1>3, AnyLength
<1> QED
  BY <1>3, <1>4 DEF Lengths

LEMMA SpelledRead ==
  ASSUME NEW c \in Seq(Nat), NEW m, Reached(m, c),
         NEW n \in Nat, n < B * B, NEW long \in Forms(n),
         NEW s, s = Len(Prefix(n, long)), NEW q \in Nat, q < Len(c),
         \A i \in 1 .. s : q + i <= Len(c) => c[q + i] = Prefix(n, long)[i]
  PROVE  Reads(m, q, s, Len(c), n)
<1>1. \A i \in 1 .. Len(c) : m[i] = c[i]
  BY DEF Reached
<1>2. PICK x : x = Prefix(n, long)
  OBVIOUS
<1>3. \A j \in 1 .. Len(x) : q + j <= Len(c) => c[q + j] = x[j]
  BY <1>2
<1>4. Reads(m, q, Len(x), Len(c), n)
  BY <1>1, <1>2, <1>3, LengthRead
<1> QED
  BY <1>2, <1>4

LEMMA NameLengthInv ==
  ASSUME Inv, NameLength
  PROVE  Inv'
<1>1. /\ pc = "name" /\ pc' = "data"
      /\ UNCHANGED <<sent, rid, len, data_len, keep_connection, params, answer>>
  BY DEF NameLength
<1>2. PICK m \in Memory : /\ name_len' = Length(m, buf + 1)
                          /\ buf' = buf + LengthSize(m, buf + 1)
  BY DEF NameLength
<1>3. /\ Content \in Seq(Nat) /\ len = Len(Content) /\ len \in Nat /\ buf \in Nat
      /\ data_len \in Nat
  BY <1>1, InLoop
<1>4. PICK at, k, x, y : AtPair(at, k, x, y)
  BY <1>1, InLoop
<1>5. PICK q, r, p : PairPlaces(at, k, x, y, q, r, p)
  BY <1>3, <1>4, PairPlacesAt
<1>6. /\ p \in Pair /\ q \in Nat /\ q < len /\ Len(x) \in 1 .. 4
      /\ q = at[k] /\ p = msg.pairs[k]
      /\ x = Prefix(Len(p.name), p.nlong) /\ Len(p.name) \in Nat /\ Len(p.name) < B * B
      /\ \A i \in 1 .. Len(x) : q + i <= Len(Content) => Content[q + i] = x[i]
  BY <1>5 DEF PairPlaces, PairAt
<1>7. p.nlong \in Forms(Len(p.name))
  BY <1>6, PairFacts
<1>8. buf = q
  BY <1>1, <1>4, <1>6 DEF AtPair
<1>9. Reached(m, Content)
  BY <1>3, MemoryReached
<1>10. PICK l \in Nat, s \in 1 .. 4, n \in Nat, long \in {p.nlong} :
         l = Len(Content) /\ s = Len(x) /\ n = Len(p.name)
  BY <1>3, <1>6
<1>11. q < l /\ q < l + 5
  BY <1>3, <1>6, <1>10
<1>12. name_len' \in Nat /\ buf' \in Nat
  <2>1. Lengths(m, q)
    BY <1>6, <1>9, <1>10, <1>11, AnyRead
  <2>2. PICK z \in 1 .. 4 : z = LengthSize(m, q + 1)
    BY <2>1 DEF Lengths
  <2>3. name_len' \in Nat
    BY <1>2, <1>8, <2>1 DEF Lengths
  <2>4. buf' = q + z
    BY <1>2, <1>8, <2>2
  <2> QED
    BY <1>6, <2>3, <2>4
<1>13. buf' = q + s /\ (buf' <= l => name_len' = n)
  <2>1. n < B * B /\ long \in Forms(n) /\ s = Len(Prefix(n, long))
    BY <1>6, <1>7, <1>10
  <2>2. \A i \in 1 .. s : q + i <= Len(Content) => Content[q + i] = Prefix(n, long)[i]
    BY <1>6, <1>10
  <2>3. q < Len(Content)
    BY <1>10, <1>11
  <2>4. Reads(m, q, s, Len(Content), n)
    BY <1>3, <1>6, <1>9, <2>1, <2>2, <2>3, SpelledRead
  <2> QED
    BY <1>2, <1>8, <1>10, <2>4 DEF Reads
<1>14. /\ buf' = at[k] + Len(x) /\ (buf' <= len => name_len' = Len(msg.pairs[k].name))
       /\ data_len' \in Nat
  BY <1>1, <1>3, <1>6, <1>10, <1>13
<1> QED
  BY <1>1, <1>4, <1>12, <1>14, LoopKept

LEMMA DataLengthInv ==
  ASSUME Inv, DataLength
  PROVE  Inv'
<1>1. /\ pc = "data" /\ pc' = "pair"
      /\ UNCHANGED <<sent, rid, len, name_len, keep_connection, params, answer>>
  BY DEF DataLength
<1>2. PICK m \in Memory : /\ data_len' = Length(m, buf + 1)
                          /\ buf' = buf + LengthSize(m, buf + 1)
  BY DEF DataLength
<1>3. /\ Content \in Seq(Nat) /\ len = Len(Content) /\ len \in Nat /\ buf \in Nat
      /\ name_len \in Nat
  BY <1>1, InLoop
<1>4. PICK at, k, x, y : AtPair(at, k, x, y)
  BY <1>1, InLoop
<1>5. PICK q, r, p : PairPlaces(at, k, x, y, q, r, p)
  BY <1>3, <1>4, PairPlacesAt
<1>6. /\ p \in Pair /\ q \in Nat /\ q < len /\ Len(x) \in 1 .. 4 /\ Len(y) \in 1 .. 4
      /\ q = at[k] /\ p = msg.pairs[k] /\ Len(p.name) \in Nat
      /\ y = Prefix(Len(p.value), p.vlong) /\ Len(p.value) \in Nat /\ Len(p.value) < B * B
      /\ \A i \in 1 .. Len(y) :
           (q + Len(x)) + i <= Len(Content) => Content[(q + Len(x)) + i] = y[i]
      /\ r = q + Len(x) + Len(y) + Len(p.name) + Len(p.value) /\ r \in Nat
      /\ r > len => k = Len(msg.pairs) /\ msg.cut > 0
  BY <1>5 DEF PairPlaces, PairAt
<1>7. p.vlong \in Forms(Len(p.value))
  BY <1>6, PairFacts
<1>8. buf = q + Len(x) /\ (buf <= len => name_len = Len(p.name))
  BY <1>1, <1>4, <1>6 DEF AtPair
<1>9. Reached(m, Content)
  BY <1>3, MemoryReached
<1>10. PICK l \in Nat, lx \in 1 .. 4, s \in 1 .. 4, ln \in Nat, n \in Nat,
           long \in {p.vlong} :
         /\ l = Len(Content) /\ lx = Len(x) /\ s = Len(y) /\ ln = Len(p.name)
         /\ n = Len(p.value)
  BY <1>3, <1>6
<1>11. PICK b \in Nat : b = q + lx /\ b = buf
  BY <1>3, <1>8, <1>10
<1>12. q < l /\ b < l + 5 /\ r = b + s + ln + n
  <2>1. r = q + lx + s + ln + n
    BY <1>6, <1>10
  <2>2. q < l
    BY <1>3, <1>6, <1>10
  <2>3. q \in Nat
    BY <1>6
  <2> QED
    BY <1>11, <2>1, <2>2, <2>3
<1>13. data_len' \in Nat /\ buf' \in Nat /\ buf' > b
  <2>1. Lengths(m, b)
    BY <1>9, <1>10, <1>12, AnyRead
  <2>2. PICK z \in 1 .. 4 : z = LengthSize(m, b + 1)
    BY <2>1 DEF Lengths
  <2>3. data_len' \in Nat
    BY <1>2, <1>11, <2>1 DEF Lengths
  <2>4. buf' = b + z
    BY <1>2, <1>11, <2>2
  <2> QED
    BY <2>3, <2>4
<1>14. PICK e \in Nat : e = buf' /\ e > b
  BY <1>13
<1>15. ASSUME b < l
       PROVE  e = b + s /\ (e <= l => data_len' = n)
  <2>1. n < B * B /\ long \in Forms(n) /\ s = Len(Prefix(n, long))
    BY <1>6, <1>7, <1>10
  <2>2. \A i \in 1 .. s : b + i <= Len(Content) => Content[b + i] = Prefix(n, long)[i]
    BY <1>6, <1>10, <1>11
  <2>3. b < Len(Content)
    BY <1>10, <1>15
  <2>4. Reads(m, b, s, Len(Content), n)
    BY <1>3, <1>9, <2>1, <2>2, <2>3, SpelledRead
  <2> QED
    BY <1>2, <1>10, <1>11, <1>14, <2>4 DEF Reads
<1>16. CASE e <= l
  <2>1. b < l /\ b <= l /\ buf <= len
    BY <1>3, <1>10, <1>11, <1>14, <1>16
  <2>2. e = b + s /\ data_len' = n
    BY <1>15, <1>16, <2>1
  <2>3. name_len' = ln
    BY <1>1, <1>8, <1>10, <2>1
  <2>4. /\ buf' <= len /\ buf' = at[k] + Len(x) + Len(y)
        /\ name_len' = Len(msg.pairs[k].name) /\ data_len' = Len(msg.pairs[k].value)
    BY <1>3, <1>6, <1>10, <1>11, <1>14, <1>16, <2>2, <2>3
  <2>5. name_len' \in Nat
    BY <1>10, <2>3
  <2> QED
    BY <1>1, <1>4, <1>13, <2>4, <2>5, LoopKept
<1>17. CASE ~ (e <= l)
  <2>1. r > l
    <3>1. CASE b < l
      BY <1>12, <1>15, <1>17, <3>1
    <3>2. CASE ~ (b < l)
      BY <1>12, <3>2
    <3> QED
      BY <3>1, <3>2
  <2>2. buf' > len /\ k = Len(msg.pairs) /\ msg.cut > 0
    BY <1>3, <1>6, <1>10, <1>14, <1>17, <2>1
  <2>3. name_len' \in Nat
    BY <1>1, <1>3
  <2> QED
    BY <1>1, <1>4, <1>13, <2>2, <2>3, LoopKept
<1> QED
  BY <1>16, <1>17

-----------------------------------------------------------------------------

(* While the loop has not gone astray, only one object is changed.         *)
LEMMA OneChanged ==
  ASSUME Inv, ~ Gone
  PROVE  Elsewhere
<1>1. PICK k \in 0 .. Len(msg.pairs) : Done(k)
  BY DEF Inv, Rest, Understood
<1>2. before \in [Id -> Dictionary]
  BY DEF Inv, Rest
<1>3. PICK d : params = [before EXCEPT ![msg.id] = d]
  BY <1>1 DEF Done
<1> QED
  BY <1>2, <1>3 DEF Elsewhere

(* What leaves the loop without storing a pair leaves the parameters.      *)
LEMMA LeftInv ==
  ASSUME Inv, UNCHANGED <<sent, loop, keep_connection, params, answer>>,
         \/ pc = "pair" /\ pc' = "failed"
         \/ pc = "pair" /\ pc' = "lost" /\ msg.cut > 0
         \/ pc = "astray" /\ pc' = "lost"
  PROVE  Inv'
<1>1. /\ Drafted' /\ Sound(msg)' /\ (before \in [Id -> Dictionary])' /\ Meant' = Meant
      /\ msg' = msg /\ before' = before /\ count' = count
      /\ params' = params /\ answer' = answer
  BY Kept
<1>2. TypeOK'
  BY <1>1 DEF Inv, Rest, TypeOK, loop
<1>3. Understood'
  <2>1. CASE pc = "pair"
    <3>1. PICK k \in 0 .. Len(msg.pairs) : Done(k) /\ (k = Len(msg.pairs) => msg.cut = 0)
      BY <2>1 DEF Inv, Rest, Understood, Gone
    <3> QED
      BY <1>1, <2>1, <3>1 DEF Understood, Done, Gone
  <2>2. CASE pc = "astray"
    BY <2>2 DEF Understood, Gone
  <2> QED
    BY <2>1, <2>2
<1>4. AnswersUnderstood'
  <2>1. CASE pc' = "failed"
    <3>1. msg.type = TYPE_PARAMS /\ msg.pairs # <<>> /\ answer = <<>>
      BY <2>1, InLoop
    <3>2. Meant = <<>>
      BY <3>1, MeantNothing
    <3> QED
      BY <1>1, <3>1, <3>2, FoundNone DEF AnswersUnderstood
  <2>2. CASE pc' = "lost"
    BY <2>2 DEF AnswersUnderstood
  <2> QED
    BY <2>1, <2>2
<1>5. CutOnly'
  <2>1. CASE pc = "pair"
    <3>1. Elsewhere
      BY <2>1, OneChanged DEF Gone
    <3> QED
      BY <1>1, <2>1, <3>1 DEF CutOnly, Gone, Elsewhere
  <2>2. CASE pc = "astray"
    BY <1>1, <2>2 DEF Inv, Rest, CutOnly, Gone, Elsewhere
  <2> QED
    BY <2>1, <2>2
<1>6. Received' /\ Waiting' /\ Loop'
  BY DEF Received, Waiting, Loop
<1> QED
  BY <1>1, <1>2, <1>3, <1>4, <1>5, <1>6 DEF Inv, Rest

LEMMA StoreFailsInv ==
  ASSUME Inv, StoreFails
  PROVE  Inv'
<1>1. /\ pc = "pair" /\ pc' = "failed"
      /\ UNCHANGED <<sent, loop, keep_connection, params, answer>>
  BY DEF StoreFails
<1> QED
  BY <1>1, LeftInv

(* Where the loop is when it has read both lengths.                        *)
LEMMA PairOr ==
  ASSUME Inv, pc = "pair", NEW at, NEW k, NEW x, NEW y, NEW q, NEW r, NEW p,
         AtPair(at, k, x, y), PairPlaces(at, k, x, y, q, r, p)
  PROVE  \/ /\ buf <= len /\ buf = q + Len(x) + Len(y) /\ name_len = Len(p.name)
            /\ data_len = Len(p.value) /\ buf + name_len + data_len = r
         \/ buf > len /\ msg.cut > 0
<1>1. \/ /\ buf <= len /\ buf = at[k] + Len(x) + Len(y)
         /\ name_len = Len(msg.pairs[k].name) /\ data_len = Len(msg.pairs[k].value)
      \/ buf > len /\ msg.cut > 0
  BY DEF AtPair
<1>2. /\ q = at[k] /\ p = msg.pairs[k]
      /\ r = q + Len(x) + Len(y) + Len(p.name) + Len(p.value)
  BY DEF PairPlaces, PairAt
<1> QED
  BY <1>1, <1>2

(* A pair that does not fit was cut.                                       *)
LEMMA CutPair ==
  ASSUME Inv, pc = "pair", ~ Fits
  PROVE  msg.cut > 0
<1>1. len = Len(Content) /\ len \in Nat /\ buf \in Nat /\ name_len \in Nat /\ data_len \in Nat
  BY InLoop
<1>2. PICK at, k, x, y : AtPair(at, k, x, y)
  BY InLoop
<1>3. PICK q, r, p : PairPlaces(at, k, x, y, q, r, p)
  BY <1>1, <1>2, PairPlacesAt
<1>4. buf + name_len + data_len = r \/ msg.cut > 0
  BY <1>2, <1>3, PairOr
<1>5. r \in Nat /\ (r > len => msg.cut > 0)
  BY <1>3 DEF PairPlaces
<1> QED
  BY <1>1, <1>4, <1>5 DEF Fits

LEMMA AssertionFailsInv ==
  ASSUME Inv, AssertionFails
  PROVE  Inv'
<1>1. /\ pc = "pair" /\ ~ Fits /\ pc' = "lost"
      /\ UNCHANGED <<sent, loop, keep_connection, params, answer>>
  BY DEF AssertionFails
<1>2. msg.cut > 0
  BY <1>1, CutPair
<1> QED
  BY <1>1, <1>2, LeftInv

(* A pair that is not the record's goes into the object of the record.     *)
LEMMA JunkInv ==
  ASSUME Inv, pc \in {"pair", "astray"}, pc' = "astray", msg.cut > 0, rid = msg.id,
         UNCHANGED <<sent, rid, len, name_len, data_len, keep_connection, answer>>,
         buf' \in Nat, NEW n \in Name \cup {Junk},
         params' = [params EXCEPT ![rid] = Put(@, [name |-> n, value |-> Junk])]
  PROVE  Inv'
<1>1. /\ Drafted' /\ Sound(msg)' /\ (before \in [Id -> Dictionary])'
      /\ msg' = msg /\ before' = before /\ count' = count
  BY Kept
<1>2. params \in [Id -> Dictionary] /\ msg.id \in Id
  BY DEF Inv, Rest, TypeOK
<1>3. PICK d : d = Put(params[msg.id], [name |-> n, value |-> Junk])
  OBVIOUS
<1>4. d \in Dictionary
  <2>1. PICK p : p = [name |-> n, value |-> Junk]
    OBVIOUS
  <2>2. p.name \in Name \cup {Junk} /\ p.value \in Value \cup {Junk}
    BY <2>1
  <2>3. params[msg.id] \in Dictionary
    BY <1>2
  <2> QED
    BY <1>3, <2>1, <2>2, <2>3, PutType
<1>5. params' = [params EXCEPT ![msg.id] = d]
  BY <1>3
<1>6. TypeOK'
  <2>1. params' \in [Id -> Dictionary]
    BY <1>2, <1>4, <1>5
  <2>2. /\ (count \in 0 .. MaxRecords /\ msg.id \in Id)'
        /\ rid' \in 0 .. (B * B - 1) /\ len' \in 0 .. (B * B - 1)
        /\ name_len' \in Nat /\ data_len' \in Nat /\ keep_connection' \in BOOLEAN
    BY <1>1 DEF Inv, Rest, TypeOK
  <2> QED
    BY <2>1, <2>2 DEF TypeOK
<1>7. Elsewhere
  BY OneChanged DEF Inv, Rest, CutOnly
<1>8. CutOnly'
  <2>1. Elsewhere'
    BY <1>1, <1>2, <1>5, <1>7 DEF Elsewhere
  <2> QED
    BY <1>1, <2>1 DEF CutOnly
<1>9. Understood' /\ AnswersUnderstood' /\ Received' /\ Waiting' /\ Loop'
  BY DEF Understood, Gone, AnswersUnderstood, Received, Waiting, Loop
<1> QED
  BY <1>1, <1>6, <1>8, <1>9 DEF Inv, Rest

LEMMA AstrayInv ==
  ASSUME Inv, Astray
  PROVE  Inv'
<1>1. /\ pc = "pair" /\ ~ Fits /\ pc' = "astray"
      /\ UNCHANGED <<sent, rid, len, name_len, data_len, keep_connection, answer>>
  BY DEF Astray
<1>2. PICK data : data = buf + name_len
  OBVIOUS
<1>3. /\ buf' = data + data_len
      /\ \E name \in (IF data <= len THEN {SubSeq(Content, buf + 1, data)}
                      ELSE Name \cup {Junk}) :
           params' = [params EXCEPT ![rid] = Put(@, [name |-> name, value |-> Junk])]
  BY <1>2 DEF Astray
<1>4. PICK n : /\ n \in (IF data <= len THEN {SubSeq(Content, buf + 1, data)}
                        ELSE Name \cup {Junk})
               /\ params' = [params EXCEPT ![rid] = Put(@, [name |-> n, value |-> Junk])]
  BY <1>3
<1>5. /\ len = Len(Content) /\ len \in Nat /\ buf \in Nat /\ name_len \in Nat
      /\ data_len \in Nat /\ rid = msg.id /\ Content \in Seq(Nat)
  BY <1>1, InLoop
<1>6. buf' \in Nat
  BY <1>2, <1>3, <1>5
<1>7. n \in Name \cup {Junk}
  <2>1. CASE data <= len
    <3>1. PICK at, k, x, y : AtPair(at, k, x, y)
      BY <1>1, InLoop
    <3>2. PICK q, r, p : PairPlaces(at, k, x, y, q, r, p)
      BY <1>5, <3>1, PairPlacesAt
    <3>3. ~ (buf > len)
      BY <1>2, <1>5, <2>1
    <3>4. buf = q + Len(x) + Len(y) /\ name_len = Len(p.name)
      BY <1>1, <3>1, <3>2, <3>3, PairOr
    <3>5. /\ p \in Pair
          /\ q + Len(x) + Len(y) + Len(p.name) <= Len(Content) =>
               \A j \in 1 .. Len(p.name) : Content[(q + Len(x) + Len(y)) + j] = p.name[j]
      BY <3>2 DEF PairPlaces, PairAt
    <3>6. PICK t : t = p.name
      OBVIOUS
    <3>7. t \in Name /\ t \in Seq(Nat)
      BY <3>5, <3>6, PairFacts
    <3>8. PICK b \in Nat : b = buf
      BY <1>5
    <3>9. /\ data = b + Len(t) /\ data <= Len(Content)
          /\ \A j \in 1 .. Len(t) : Content[b + j] = t[j]
      <4>1. data = b + Len(t)
        BY <1>2, <3>4, <3>6, <3>8
      <4>2. data <= Len(Content)
        BY <1>5, <2>1
      <4>3. b = q + Len(x) + Len(y)
        BY <3>4, <3>8
      <4>4. b + Len(p.name) <= Len(Content)
        BY <3>6, <4>1, <4>2
      <4>5. \A j \in 1 .. Len(p.name) : Content[b + j] = p.name[j]
        BY <3>5, <4>3, <4>4
      <4> QED
        BY <3>6, <4>1, <4>2, <4>5
    <3>10. SubSeq(Content, b + 1, data) = t
      BY <1>5, <3>7, <3>9, PartIs
    <3> QED
      BY <1>4, <2>1, <3>7, <3>8, <3>10
  <2>2. CASE ~ (data <= len)
    BY <1>4, <2>2
  <2> QED
    BY <2>1, <2>2
<1>8. msg.cut > 0
  BY <1>1, CutPair
<1> QED
  BY <1>1, <1>4, <1>5, <1>6, <1>7, <1>8, JunkInv

LEMMA WanderInv ==
  ASSUME Inv, Wander
  PROVE  Inv'
<1>1. pc = "astray" /\ UNCHANGED <<sent, loop, keep_connection, answer>>
  BY DEF Wander
<1>2. CASE pc' = "lost" /\ UNCHANGED params
  BY <1>1, <1>2, LeftInv
<1>3. ASSUME NEW n \in Name \cup {Junk}, UNCHANGED pc,
             params' = [params EXCEPT ![rid] = Put(@, [name |-> n, value |-> Junk])]
      PROVE  Inv'
  <2>1. msg.cut > 0 /\ rid = msg.id /\ buf \in Nat
    BY <1>1 DEF Inv, Rest, CutOnly, Gone, TypeOK
  <2>2. /\ UNCHANGED <<sent, rid, len, name_len, data_len, keep_connection, answer>>
        /\ buf' = buf /\ pc' = "astray"
    BY <1>1, <1>3 DEF loop
  <2> QED
    BY <1>1, <1>3, <2>1, <2>2, JunkInv
<1> QED
  BY <1>2, <1>3 DEF Wander

Stored(r, p) == /\ r <= len /\ buf' = r
                /\ params' = [params EXCEPT ![msg.id] = Put(@, p)]

(* The pair is stored as it was meant.                                     *)
LEMMA StoredPair ==
  ASSUME Inv, Store
  PROVE  \E at, k, x, y, q, r, p :
           /\ AtPair(at, k, x, y) /\ PairPlaces(at, k, x, y, q, r, p) /\ Stored(r, p)
<1>1. pc = "pair" /\ Fits
  BY DEF Store
<1>2. /\ Content \in Seq(Nat) /\ len = Len(Content) /\ len \in Nat /\ buf \in Nat
      /\ name_len \in Nat /\ data_len \in Nat /\ rid = msg.id
  BY <1>1, InLoop
<1>3. PICK at, k, x, y : AtPair(at, k, x, y)
  BY <1>1, InLoop
<1>4. PICK q, r, p : PairPlaces(at, k, x, y, q, r, p)
  BY <1>2, <1>3, PairPlacesAt
<1>5. /\ buf = q + Len(x) + Len(y) /\ name_len = Len(p.name)
      /\ data_len = Len(p.value) /\ buf + name_len + data_len = r
  <2>1. ~ (buf > len)
    BY <1>1, <1>2 DEF Fits
  <2> QED
    BY <1>1, <1>3, <1>4, <2>1, PairOr
<1>6. r \in Nat /\ r <= len
  BY <1>1, <1>4, <1>5 DEF Fits, PairPlaces
<1>7. /\ p \in Pair
      /\ \A j \in 1 .. Len(p.name) : Content[(q + Len(x) + Len(y)) + j] = p.name[j]
      /\ \A j \in 1 .. Len(p.value) :
           Content[(q + Len(x) + Len(y) + Len(p.name)) + j] = p.value[j]
  <2>1. r <= Len(Content)
    BY <1>2, <1>6
  <2>2. PairAt(Content, p, q, x, y, r)
    BY <1>4 DEF PairPlaces
  <2>3. /\ q \in Nat /\ Len(x) \in 1 .. 4 /\ Len(y) \in 1 .. 4 /\ p \in Pair
        /\ r = q + Len(x) + Len(y) + Len(p.name) + Len(p.value)
    BY <2>2 DEF PairAt
  <2>4. PICK lx \in 1 .. 4, ly \in 1 .. 4, ln \in Nat, lv \in Nat :
          lx = Len(x) /\ ly = Len(y) /\ ln = Len(p.name) /\ lv = Len(p.value)
    BY <2>3, PairFacts
  <2>5. PICK lc \in Nat : lc = Len(Content)
    BY <1>2
  <2>6. q + lx + ly + ln <= lc
    <3>1. r = q + lx + ly + ln + lv
      BY <2>3, <2>4
    <3>2. r <= lc /\ q \in Nat
      BY <2>1, <2>3, <2>5
    <3> QED
      BY <3>1, <3>2
  <2>7. q + Len(x) + Len(y) + Len(p.name) <= Len(Content)
    BY <2>4, <2>5, <2>6
  <2> QED
    BY <2>1, <2>2, <2>7 DEF PairAt
<1>8. PICK n, v : n = p.name /\ v = p.value
  OBVIOUS
<1>9. n \in Seq(Nat) /\ v \in Seq(Nat)
  BY <1>7, <1>8, PairFacts
<1>10. PICK b \in Nat, d \in Nat, e \in Nat :
         /\ b = buf /\ d = buf + name_len /\ e = d + data_len
  BY <1>2
<1>11. /\ d = b + Len(n) /\ e = d + Len(v) /\ e = r /\ e <= Len(Content)
       /\ d <= Len(Content)
       /\ \A j \in 1 .. Len(n) : Content[b + j] = n[j]
       /\ \A j \in 1 .. Len(v) : Content[d + j] = v[j]
  <2>1. d = b + Len(n) /\ e = d + Len(v)
    BY <1>5, <1>8, <1>10
  <2>2. e = r
    BY <1>5, <1>10
  <2>3. e <= Len(Content) /\ d <= Len(Content)
    <3>1. e <= len
      BY <1>6, <2>2
    <3>2. d <= len
      BY <1>2, <1>10, <3>1
    <3> QED
      BY <1>2, <3>1, <3>2
  <2>4. b = q + Len(x) + Len(y) /\ d = q + Len(x) + Len(y) + Len(p.name)
    BY <1>5, <1>10
  <2>5. \A j \in 1 .. Len(n) : Content[b + j] = n[j]
    BY <1>7, <1>8, <2>4
  <2>6. \A j \in 1 .. Len(v) : Content[d + j] = v[j]
    BY <1>7, <1>8, <2>4
  <2> QED
    BY <2>1, <2>2, <2>3, <2>5, <2>6
<1>12. SubSeq(Content, b + 1, d) = n
  BY <1>2, <1>9, <1>11, PartIs
<1>13. SubSeq(Content, d + 1, e) = v
  BY <1>2, <1>9, <1>11, PartIs
<1>14. PICK u : u = [name |-> SubSeq(Content, b + 1, d), value |-> SubSeq(Content, d + 1, e)]
  OBVIOUS
<1>15. params' = [params EXCEPT ![rid] = Put(@, u)] /\ buf' = e
  BY <1>10, <1>14 DEF Store
<1>16. u.name = p.name /\ u.value = p.value
  BY <1>8, <1>12, <1>13, <1>14
<1>17. Put(params[rid], u) = Put(params[rid], p)
  BY <1>16, PutSame
<1>18. params' = [params EXCEPT ![msg.id] = Put(@, p)]
  BY <1>2, <1>15, <1>17
<1>19. Stored(r, p)
  BY <1>6, <1>11, <1>15, <1>18 DEF Stored
<1> QED
  BY <1>3, <1>4, <1>19

LEMMA StoreInv ==
  ASSUME Inv, Store
  PROVE  Inv'
<1>1. /\ pc = "pair" /\ pc' = (IF buf' # len THEN "name" ELSE "idle")
      /\ UNCHANGED <<sent, rid, len, name_len, data_len, keep_connection, answer>>
  BY DEF Store
<1>2. PICK at, k, x, y, q, r, p :
        /\ AtPair(at, k, x, y) /\ PairPlaces(at, k, x, y, q, r, p)
        /\ r <= len /\ buf' = r
        /\ params' = [params EXCEPT ![msg.id] = Put(@, p)]
  BY StoredPair DEF Stored
<1>3. /\ Drafted' /\ Sound(msg)' /\ (before \in [Id -> Dictionary])' /\ Meant' = Meant
      /\ msg' = msg /\ before' = before /\ count' = count /\ record' = record
      /\ Content' = Content
  BY <1>1, Kept
<1>4. PICK ps \in Seq(Pair), i \in Id, f \in [Id -> Dictionary] :
        ps = msg.pairs /\ i = msg.id /\ f = before
  BY DEF Inv, Rest, Sound
<1>5. k \in 1 .. Len(ps) /\ Done(k - 1) /\ Spelled(Content, ps, at, msg.cut)
      /\ at[Len(ps)] < len
  BY <1>2, <1>4 DEF AtPair
<1>6. /\ p = ps[k] /\ r = at[k + 1] /\ r \in Nat /\ p \in Pair
      /\ k < Len(ps) => r < len
      /\ k = Len(ps) => r = len + msg.cut
  BY <1>2, <1>4 DEF PairPlaces, PairAt
<1>7. params' = [f EXCEPT ![i] = PutAll(@, SubSeq(ps, 1, k))]
  <2>1. PICK g : g = params
    OBVIOUS
  <2>2. After(g, f, i, ps, k - 1)
    BY <1>4, <1>5, <2>1 DEF Done, After
  <2>3. PICK h : h = [g EXCEPT ![i] = Put(@, ps[k])]
    OBVIOUS
  <2>4. k \in 1 .. Len(ps)
    BY <1>5
  <2>5. After(h, f, i, ps, k)
    BY <2>2, <2>3, <2>4, DoneStep
  <2> QED
    BY <1>2, <1>4, <1>6, <2>1, <2>3, <2>5 DEF After
<1>8. Done(k)'
  BY <1>3, <1>4, <1>7 DEF Done
<1>9. /\ len = Len(Content) /\ len \in Nat /\ msg.type = TYPE_PARAMS /\ msg.pairs # <<>>
      /\ answer = <<>> /\ rid = msg.id
  BY <1>1, InLoop
<1>10. msg.cut \in Nat /\ Len(ps) \in Nat
  BY LenProperties DEF Inv, Rest, Sound
<1>11. TypeOK'
  <2>1. params' \in [Id -> Dictionary]
    <3>1. p.name \in Name \cup {Junk} /\ p.value \in Value \cup {Junk}
      BY <1>6, PairFacts
    <3>2. params \in [Id -> Dictionary] /\ params[i] \in Dictionary
      BY <1>4 DEF Inv, Rest, TypeOK
    <3>3. Put(params[i], p) \in Dictionary
      BY <3>1, <3>2, PutType
    <3> QED
      BY <1>2, <1>4, <3>2, <3>3
  <2>2. buf' \in Nat
    BY <1>2, <1>6
  <2>3. pc' \in {"idle", "name"}
    BY <1>1
  <2>4. /\ (count \in 0 .. MaxRecords /\ msg.id \in Id)'
        /\ rid' \in 0 .. (B * B - 1) /\ len' \in 0 .. (B * B - 1)
        /\ name_len' \in Nat /\ data_len' \in Nat /\ keep_connection' \in BOOLEAN
    BY <1>1, <1>3 DEF Inv, Rest, TypeOK
  <2> QED
    BY <2>1, <2>2, <2>3, <2>4 DEF TypeOK
<1>12. CASE r = len
  <2>1. pc' = "idle"
    BY <1>1, <1>2, <1>12
  <2>2. k = Len(ps) /\ msg.cut = 0
    BY <1>5, <1>6, <1>9, <1>10, <1>12
  <2>3. Understood'
    <3>1. k \in 0 .. Len(ps)
      BY <1>5
    <3> QED
      BY <1>3, <1>4, <1>7, <2>2, <3>1 DEF Understood, Done
  <2>4. AnswersUnderstood'
    <3>1. Meant = <<>>
      BY <1>9, MeantNothing
    <3> QED
      BY <1>1, <1>3, <1>9, <3>1, FoundNone DEF AnswersUnderstood
  <2>5. Received' /\ Waiting' /\ Loop' /\ CutOnly'
    BY <2>1 DEF Received, Waiting, Loop, CutOnly, Gone
  <2> QED
    BY <1>3, <1>11, <2>3, <2>4, <2>5 DEF Inv, Rest
<1>13. CASE r # len
  <2>1. pc' = "name"
    BY <1>1, <1>2, <1>13
  <2>2. k < Len(ps)
    BY <1>2, <1>5, <1>6, <1>9, <1>10, <1>13
  <2>3. PICK l : l = k + 1 /\ l \in 1 .. Len(ps) /\ l - 1 = k
    BY <1>5, <1>10, <2>2
  <2>4. PICK u, v : PairAt(Content, ps[l], at[l], u, v, at[l + 1])
    BY <1>5, <2>3, PairRead
  <2>5. AtPair(at, l, u, v)'
    <3>1. Done(l - 1)'
      BY <1>8, <2>3
    <3>2. buf' = at[l]
      BY <1>2, <1>6, <2>3
    <3>3. len' = len
      BY <1>1
    <3> QED
      BY <1>3, <1>4, <1>5, <2>1, <2>3, <2>4, <3>1, <3>2, <3>3 DEF AtPair
  <2>6. Loop'
    BY <1>1, <1>3, <1>9, <2>5 DEF Loop
  <2>7. Understood'
    <3>1. k \in 0 .. Len(ps) /\ k # Len(ps)
      BY <1>5, <1>10, <2>2
    <3> QED
      BY <1>3, <1>4, <1>7, <2>1, <3>1 DEF Understood, Done
  <2>8. Received'
    BY <1>1, <1>3 DEF Inv, Rest, Received
  <2>9. Waiting' /\ CutOnly' /\ AnswersUnderstood'
    BY <2>1 DEF Waiting, CutOnly, Gone, AnswersUnderstood
  <2> QED
    BY <1>3, <1>11, <2>6, <2>7, <2>8, <2>9 DEF Inv, Rest
<1> QED
  BY <1>12, <1>13

-----------------------------------------------------------------------------
(* The theorems.                                                           *)

LEMMA StutterInv ==
  ASSUME Inv, UNCHANGED vars
  PROVE  Inv'
<1>1. /\ UNCHANGED <<msg, before, count, record, pc, loop, keep_connection, params, answer>>
      /\ UNCHANGED draft
  BY DEF vars, sent
<1>2. Rest'
  BY <1>1, RestKept DEF Inv
<1>3. Drafted'
  BY <1>1 DEF Inv, Drafted, draft
<1> QED
  BY <1>2, <1>3 DEF Inv

(* Every reachable state satisfies Inv.                                    *)
THEOREM CodecInvariant == Spec => []Inv
<1>1. Init => Inv
  BY InitInv
<1>2. Inv /\ [Next]_vars => Inv'
  BY WebServerInv, ParseInv, BadVersionInv, NameLengthInv, DataLengthInv, StoreInv,
     AssertionFailsInv, AstrayInv, WanderInv, StoreFailsInv, StutterInv DEF Next, Thread, Ended
<1> QED
  BY <1>1, <1>2, PTL DEF Spec

(* Every number process_params reads is one, ids and lengths are 16-bit    *)
(* numbers, and a parameter has a name and a value that the web server     *)
(* has, or Junk, which is what a build without assertions puts there for a *)
(* pair that was cut; whatever bytes follow a record.                      *)
THEOREM CodecTypeCorrect == Spec => []TypeOK
<1>1. Inv => TypeOK
  BY DEF Inv, Rest
<1> QED
  BY <1>1, CodecInvariant, PTL

(* The parameters in every request object are what the web server sent for *)
(* its id, pair by pair and in the order it sent them, whatever the forms  *)
(* of the lengths and the bytes of names and values; when a record is      *)
(* handled, all of it.  Once the loop is past a pair that was cut, this is *)
(* true of every object but that of the record (__init__.c:342-406).       *)
THEOREM CodecParamsUnderstood == Spec => []ParamsUnderstood
<1>1. ASSUME Inv PROVE ParamsUnderstood
  <2>1. Elsewhere
    BY <1>1, OneChanged DEF Inv, Rest, CutOnly
  <2>2. ASSUME ~ Gone
        PROVE  \E k \in 0 .. Len(msg.pairs) :
                 /\ params[msg.id] = PutAll(before[msg.id], SubSeq(msg.pairs, 1, k))
                 /\ pc \in {"idle", "done"} => k = Len(msg.pairs)
                 /\ k = Len(msg.pairs) => msg.cut = 0
    <3>1. PICK k \in 0 .. Len(msg.pairs) : /\ Done(k)
                                           /\ pc \in {"idle", "done"} => k = Len(msg.pairs)
                                           /\ k = Len(msg.pairs) => msg.cut = 0
      BY <1>1, <2>2 DEF Inv, Rest, Understood
    <3>2. before \in [Id -> Dictionary] /\ msg.id \in Id
      BY <1>1 DEF Inv, Rest, Sound
    <3>3. params[msg.id] = PutAll(before[msg.id], SubSeq(msg.pairs, 1, k))
      BY <3>1, <3>2 DEF Done
    <3> QED
      BY <3>1, <3>3
  <2> QED
    BY <2>1, <2>2 DEF ParamsUnderstood, Elsewhere, Gone
<1> QED
  BY <1>1, CodecInvariant, PTL

(* The assertion in the loop (__init__.c:370) fails, and a build without   *)
(* it goes past the record, only for a pair that was cut, and a turn of    *)
(* the loop begins inside the content: for any other pair the test "buf != *)
(* bufend" (__init__.c:352) does not step over its end.                    *)
THEOREM CodecAstrayOnlyIfCut == Spec => []AstrayOnlyIfCut
<1>1. Inv => AstrayOnlyIfCut
  <2>1. ASSUME Inv, pc = "name" PROVE buf < len
    <3>1. len = Len(Content)
      BY <2>1, InLoop
    <3>2. PICK at, k, x, y : AtPair(at, k, x, y)
      BY <2>1, InLoop
    <3>3. PICK q, r, p : PairPlaces(at, k, x, y, q, r, p)
      BY <3>1, <3>2, PairPlacesAt
    <3> QED
      BY <2>1, <3>2, <3>3 DEF AtPair, PairPlaces
  <2> QED
    BY <2>1 DEF Inv, Rest, CutOnly, Gone, AstrayOnlyIfCut
<1> QED
  BY <1>1, CodecInvariant, PTL

(* The web server finds in the bytes it receives exactly the records the   *)
(* program writes, with the id of its request and the status, for every    *)
(* id, text length and role of 16 bits (__init__.c:193-270, 285-317).      *)
THEOREM CodecAnswersUnderstood == Spec => []AnswersUnderstood
<1>1. Inv => AnswersUnderstood
  BY DEF Inv, Rest
<1> QED
  BY <1>1, CodecInvariant, PTL
=============================================================================
