---------------------------- MODULE WriterProofs ----------------------------
(***************************************************************************)
(* Theorems about _write: for every list of messages and every send        *)
(* buffer, the types of Writer and the places of the bytes are kept.                   *)
(***************************************************************************)
EXTENDS Writer, TLAPS, SequenceTheorems

(* The messages are sequences of pairs of numbers, as long as asked for.   *)
LEMMA MessageSeq ==
  ASSUME NEW k \in DOMAIN Lens
  PROVE  /\ Lens[k] \in Nat /\ Lens[k] > 0
         /\ Message(k) \in Seq(Nat \X Nat)
         /\ Len(Message(k)) = Lens[k]
         /\ \A j \in 1 .. Lens[k] : Message(k)[j] = <<k, j>>
<1>1. Lens \in Seq(Nat \ {0}) /\ DOMAIN Lens = 1 .. Len(Lens) /\ Len(Lens) \in Nat
  BY WriterAssumption
<1>2. k \in Nat /\ Lens[k] \in Nat \ {0}
  BY <1>1
<1>3. /\ Message(k) \in Seq(Nat \X Nat)
      /\ DOMAIN Message(k) = 1 .. Lens[k]
      /\ \A j \in 1 .. Lens[k] : Message(k)[j] = <<k, j>>
  <2>1. \A j \in 1 .. Lens[k] : <<k, j>> \in Nat \X Nat
    BY <1>2
  <2>2. Message(k) \in [1 .. Lens[k] -> Nat \X Nat]
    BY <2>1 DEF Message
  <2>3. Message(k) \in Seq(Nat \X Nat)
    BY <1>2, <2>2, SeqDef
  <2> QED  BY <2>2, <2>3 DEF Message
<1>4. Len(Message(k)) = Lens[k]
  BY <1>2, <1>3
<1> QED  BY <1>2, <1>3, <1>4

(* What a send of cnt bytes does to the bytes on the wire.                 *)
LEMMA SendAppends ==
  ASSUME NEW s \in Seq(Nat \X Nat), NEW k \in DOMAIN Lens,
         NEW cnt \in 1 .. Lens[k]
  PROVE  LET t == s \o SubSeq(Message(k), 1, cnt)
         IN  /\ t \in Seq(Nat \X Nat)
             /\ Len(t) = Len(s) + cnt
             /\ \A i \in 1 .. Len(s) : t[i] = s[i]
             /\ \A i \in 1 .. cnt : t[Len(s) + i] = <<k, i>>
<1> DEFINE p == SubSeq(Message(k), 1, cnt)
<1>1. /\ Lens[k] \in Nat /\ Message(k) \in Seq(Nat \X Nat)
      /\ Len(Message(k)) = Lens[k]
      /\ \A j \in 1 .. Lens[k] : Message(k)[j] = <<k, j>>
  BY MessageSeq
<1>2. /\ p \in Seq(Nat \X Nat) /\ Len(p) = cnt
      /\ \A i \in 1 .. cnt : p[i] = <<k, i>>
  BY <1>1
<1> HIDE DEF p
<1>3. /\ (s \o p) \in Seq(Nat \X Nat) /\ Len(s \o p) = Len(s) + cnt
      /\ \A i \in 1 .. Len(s) : (s \o p)[i] = s[i]
      /\ \A i \in 1 .. cnt : (s \o p)[Len(s) + i] = p[i]
  <2>1. Len(s) \in Nat /\ Len(p) \in Nat /\ Len(p) >= 1
    BY <1>2
  <2>2. /\ (s \o p) \in Seq(Nat \X Nat) /\ Len(s \o p) = Len(s) + Len(p)
        /\ \A i \in 1 .. (Len(s) + Len(p)) :
             (s \o p)[i] = IF i <= Len(s) THEN s[i] ELSE p[i - Len(s)]
    BY <1>2, ConcatProperties
  <2>3. \A i \in 1 .. Len(s) : (s \o p)[i] = s[i]
    BY <2>1, <2>2
  <2>4. ASSUME NEW i \in 1 .. cnt PROVE (s \o p)[Len(s) + i] = p[i]
    <3>1. /\ (Len(s) + i) \in 1 .. (Len(s) + Len(p)) /\ ~ (Len(s) + i <= Len(s))
          /\ (Len(s) + i) - Len(s) = i
      BY <1>2, <2>1
    <3> QED  BY <2>2, <3>1
  <2> QED  BY <1>2, <2>2, <2>3, <2>4
<1> QED  BY <1>2, <1>3 DEF p

LEMMA WriterInit == Init => Inv
BY WriterAssumption DEF Init, Inv, TypeOK, BytesInPlace, Room

(* A new call begins where the one before it ended.                        *)
LEMMA CallKeeps == Inv /\ Call => Inv'
<1> SUFFICES ASSUME Inv, Call PROVE Inv'
  OBVIOUS
<1>1. /\ m \in 0 .. Len(Lens) /\ length = 0 /\ m < Len(Lens)
      /\ out \in Seq(Nat \X Nat) /\ starts \in Seq(Nat) /\ Len(starts) = m
      /\ got \in 0 .. Len(out) /\ Room \in 0 .. SndCap
      /\ Len(Lens) \in Nat /\ split \subseteq 1 .. m
  BY WriterAssumption DEF Inv, TypeOK, Call
<1>2. /\ m' = m + 1 /\ length' = Lens[m + 1] /\ pc' = "send"
      /\ starts' = Append(starts, Len(out) + 1)
      /\ out' = out /\ got' = got /\ split' = split
  BY DEF Call
<1>3. m + 1 \in DOMAIN Lens
  BY <1>1, WriterAssumption
<1>4. Lens[m + 1] \in Nat /\ Lens[m + 1] > 0
  BY <1>3, MessageSeq
<1>5. /\ starts' \in Seq(Nat) /\ Len(starts') = m + 1
      /\ \A k \in 1 .. m : starts'[k] = starts[k] /\ starts[k] \in Nat
      /\ starts'[m + 1] = Len(out) + 1
  BY <1>1, <1>2
<1>6. m > 0 => /\ Len(out) = starts[m] + Lens[m] - 1
               /\ Lens[m] \in Nat /\ Lens[m] > 0
  <2>1. m > 0 => m \in DOMAIN Lens
    BY <1>1, WriterAssumption
  <2>2. m > 0 => Lens[m] \in Nat /\ Lens[m] > 0
    BY <2>1, MessageSeq
  <2> QED  BY <1>1, <1>5, <2>2 DEF Inv, BytesInPlace
<1>7. TypeOK'
  BY <1>1, <1>2, <1>4, <1>5 DEF TypeOK, Room
<1>8. BytesInPlace'
  <2>1. Len(out') = starts'[m'] + Lens[m'] - length' - 1
    BY <1>1, <1>2, <1>4, <1>5
  <2>2. ASSUME NEW k \in 1 .. m PROVE starts'[k + 1] = starts'[k] + Lens[k]
    <3>1. CASE k = m
      <4>1. m \in 1 .. m /\ m > 0
        BY <1>1, <3>1
      <4>2. starts'[m] = starts[m] /\ starts[m] \in Nat
        BY <1>5, <4>1
      <4>3. starts'[m + 1] = starts[m] + Lens[m]
        BY <1>1, <1>5, <1>6, <4>1, <4>2
      <4> QED  BY <3>1, <4>2, <4>3
    <3>2. CASE k \in 1 .. (m - 1)
      <4>1. starts[k + 1] = starts[k] + Lens[k]
        BY <3>2 DEF Inv, BytesInPlace
      <4> QED  BY <1>1, <1>5, <3>2, <4>1
    <3> QED  BY <1>1, <3>1, <3>2
  <2>3. ASSUME NEW k \in 1 .. (m + 1), NEW j \in 1 .. Lens[k],
               starts'[k] + j - 1 <= Len(out)
        PROVE  InPlace(k, j)'
    <3>1. k \in 1 .. m
      <4>1. k = m + 1 => j \in Nat /\ Len(out) \in Nat /\ starts'[k] = Len(out) + 1
        BY <1>1, <1>4, <1>5
      <4> QED  BY <1>1, <2>3, <4>1
    <3>2. InPlace(k, j) /\ starts'[k] = starts[k]
      BY <1>5, <3>1 DEF Inv, BytesInPlace
    <3> QED  BY <1>2, <3>2 DEF InPlace
  <2>4. (m' - 1) = m /\ m' = m + 1 /\ out' = out
    BY <1>1, <1>2
  <2>5. split' = split
    BY <1>2
  <2>6. ASSUME NEW k \in 1 .. m', NEW j \in 1 .. Lens[k] PROVE InPlace(k, j)'
    BY <2>3, <2>4 DEF InPlace
  <2> QED  BY <2>1, <2>2, <2>4, <2>6 DEF BytesInPlace
<1>9. /\ \A k \in 1 .. (m + 1) : starts'[k] >= 1
      /\ \A k \in 1 .. m : starts'[k] <= Len(out)
  <2>1. \A k \in 1 .. m : starts[k] >= 1
    BY DEF Inv
  <2>2. \A k \in 1 .. (m - 1) : starts[k] <= Len(out)
    BY DEF Inv
  <2>3. m > 0 => starts[m] <= Len(out)
    BY <1>1, <1>5, <1>6
  <2>4. ASSUME NEW k \in 1 .. (m + 1) PROVE starts'[k] >= 1
    <3>1. k = m + 1 \/ k \in 1 .. m
      BY <1>1
    <3>2. Len(out) \in Nat
      BY <1>1
    <3> QED  BY <1>5, <2>1, <3>1, <3>2
  <2>5. ASSUME NEW k \in 1 .. m PROVE starts'[k] <= Len(out)
    <3>1. (k = m /\ m > 0) \/ k \in 1 .. (m - 1)
      BY <1>1
    <3> QED  BY <1>5, <2>2, <2>3, <3>1
  <2> QED  BY <2>4, <2>5
<1> QED  BY <1>1, <1>2, <1>4, <1>7, <1>8, <1>9 DEF Inv

(* A send adds at the end of what is on the wire.                          *)
LEMMA SendKeeps == Inv /\ Send => Inv'
<1> SUFFICES ASSUME Inv, Send PROVE Inv'
  OBVIOUS
<1>1. PICK cnt \in Taken :
        /\ out' = out \o SubSeq(Message(m), 1, cnt)
        /\ length' = length - cnt
        /\ split' = SplitBy(cnt)
        /\ pc' = IF length' <= 0 THEN "next" ELSE "send"
  BY DEF Send
<1>2. m' = m /\ starts' = starts /\ got' = got
  BY DEF Send
<1>3. /\ m \in 1 .. Len(Lens) /\ length \in 1 .. Lens[m]
      /\ out \in Seq(Nat \X Nat) /\ starts \in Seq(Nat) /\ Len(starts) = m
      /\ got \in 0 .. Len(out) /\ Room \in 0 .. SndCap
      /\ Len(Lens) \in Nat /\ SndCap \in Nat /\ m \in DOMAIN Lens
      /\ split \subseteq 1 .. m /\ (m \notin split => length = Lens[m])
  BY WriterAssumption DEF Inv, TypeOK, Send
<1>4. Lens[m] \in Nat
  BY <1>3, MessageSeq
<1>5. cnt \in 1 .. Lens[m] /\ cnt \in 1 .. length /\ cnt <= Room
  BY <1>3, <1>4 DEF Taken
<1>6. /\ out' \in Seq(Nat \X Nat)
      /\ Len(out') = Len(out) + cnt
      /\ \A i \in 1 .. Len(out) : out'[i] = out[i]
      /\ \A i \in 1 .. cnt : out'[Len(out) + i] = <<m, i>>
  BY <1>1, <1>3, <1>5, SendAppends
<1>7. TypeOK'
  <2>1. length' \in 0 .. Lens[m]
    BY <1>1, <1>3, <1>4, <1>5
  <2>2. got' \in 0 .. Len(out') /\ Room' \in 0 .. SndCap
    <3>1. Len(out') = Len(out) + cnt /\ got' = got
      BY <1>2, <1>6
    <3>2. /\ Len(out) \in Nat /\ got \in Nat /\ got <= Len(out) /\ cnt \in Nat
          /\ SndCap - (Len(out) - got) >= cnt /\ SndCap - (Len(out) - got) <= SndCap
          /\ SndCap \in Nat
      BY <1>3, <1>5 DEF Room
    <3>3. Room' = SndCap - (Len(out') - got')
      BY DEF Room
    <3> QED  BY <3>1, <3>2, <3>3
  <2>3. split' \subseteq 1 .. m
    <3>1. m \in 1 .. m /\ split' \subseteq split \cup {m}
      BY <1>1, <1>3 DEF SplitBy
    <3> QED  BY <1>3, <3>1
  <2> QED  BY <1>1, <1>2, <1>3, <1>6, <2>1, <2>2, <2>3 DEF TypeOK
<1>8. /\ Len(out) = starts[m] + Lens[m] - length - 1
      /\ \A k \in 1 .. (m - 1) : starts[k + 1] = starts[k] + Lens[k]
      /\ \A k \in 1 .. m : \A j \in 1 .. Lens[k] : InPlace(k, j)
      /\ \A k \in 1 .. m : starts[k] >= 1
      /\ \A k \in 1 .. (m - 1) : starts[k] <= Len(out)
      /\ \A k \in 1 .. m : starts[k] \in Nat
  <2>1. \A k \in 1 .. m : starts[k] \in Nat
    BY <1>3
  <2> QED  BY <1>3, <2>1 DEF Inv, BytesInPlace
<1>9. BytesInPlace'
  <2>1. Len(out') = starts[m] + Lens[m] - length' - 1
    BY <1>1, <1>3, <1>4, <1>5, <1>6, <1>8
  <2>2. ASSUME NEW k \in 1 .. m, NEW j \in 1 .. Lens[k], starts[k] + j - 1 <= Len(out')
        PROVE  InPlace(k, j)'
    <3>1. /\ k \in DOMAIN Lens /\ Lens[k] \in Nat /\ j \in Nat /\ j >= 1 /\ j <= Lens[k]
          /\ starts[k] \in Nat /\ starts[k] >= 1 /\ Len(out) \in Nat
      <4>1. k \in DOMAIN Lens
        BY <1>3, WriterAssumption
      <4> QED  BY <1>3, <1>8, <4>1, MessageSeq
    <3>2. k \notin split' => k \notin split
      BY <1>1 DEF SplitBy
    <3>3. CASE starts[k] + j - 1 <= Len(out)
      <4>1. starts[k] + j - 1 \in 1 .. Len(out)
        BY <3>1, <3>3
      <4>2. out'[starts[k] + j - 1] = out[starts[k] + j - 1]
        BY <1>6, <4>1
      <4> QED  BY <1>2, <1>8, <3>2, <3>3, <4>2 DEF InPlace
    <3>4. CASE starts[k] + j - 1 > Len(out)
      <4>1. k = m
        <5>1. ASSUME k \in 1 .. (m - 1) PROVE FALSE
          <6>1. starts[k + 1] = starts[k] + Lens[k]
            BY <1>8, <5>1
          <6>2. m \in Nat /\ k \in Nat
            BY <1>3
          <6>3. k + 1 \in 1 .. (m - 1) \/ k + 1 = m
            BY <5>1, <6>2
          <6>4. k + 1 \in 1 .. (m - 1) => starts[k + 1] <= Len(out)
            BY <1>8
          <6>5. k + 1 = m => starts[k + 1] <= Len(out) + 1
            <7>1. starts[m] \in Nat /\ length \in Nat
              BY <1>3, <1>8
            <7>2. starts[m] <= Len(out) + 1
              BY <1>3, <1>4, <1>8, <3>1, <7>1
            <7> QED  BY <7>2
          <6> QED  BY <3>1, <3>4, <6>1, <6>3, <6>4, <6>5
        <5> QED  BY <1>3, <5>1
      <4>2. PICK i : i = starts[m] + j - 1 - Len(out)
        OBVIOUS
      <4>3. i = j - (Lens[m] - length) /\ i \in 1 .. cnt /\ i \in 1 .. j
        <5>1. PICK o, a, b, c, d : /\ o = Len(out) /\ a = starts[m] /\ b = Lens[m]
                                   /\ c = length /\ d = cnt
          OBVIOUS
        <5>2. /\ o \in Nat /\ a \in Nat /\ b \in Nat /\ c \in Nat /\ d \in Nat /\ j \in Nat
              /\ c <= b /\ j <= b /\ o = a + b - c - 1 /\ d <= c
              /\ a + j - 1 > o /\ a + j - 1 <= o + d /\ i = a + j - 1 - o
          BY <1>3, <1>4, <1>5, <1>6, <1>8, <2>2, <3>1, <3>4, <4>1, <4>2, <5>1
        <5>3. i = j - (b - c) /\ i \in 1 .. d /\ i \in 1 .. j
          BY <5>2
        <5> QED  BY <5>1, <5>3
      <4>4. out'[starts[k] + j - 1] = <<m, i>>
        <5>1. starts[k] + j - 1 = Len(out) + i
          BY <3>1, <4>1, <4>2
        <5> QED  BY <1>6, <4>3, <5>1
      <4>5. k \notin split' => i = j
        <5>1. k \notin split' => Lens[m] - length = 0
          BY <1>3, <1>4, <3>2, <4>1
        <5> QED  BY <3>1, <4>3, <5>1
      <4> QED  BY <1>2, <4>1, <4>3, <4>4, <4>5 DEF InPlace
    <3> QED  BY <3>1, <3>3, <3>4
  <2>3. ASSUME NEW k \in 1 .. m, NEW j \in 1 .. Lens[k] PROVE InPlace(k, j)'
    BY <1>2, <2>2 DEF InPlace
  <2> QED  BY <1>2, <1>3, <1>8, <2>1, <2>3 DEF BytesInPlace
<1>10. pc' \in {"send", "wait"} => m' > 0 /\ length' > 0
  BY <1>1, <1>2, <1>3, <1>4, <1>5
<1>11. pc' = "next" => length' = 0
  BY <1>1, <1>3, <1>4, <1>5
<1>12. pc' \in {"send", "wait"} => m' \in split'
  <2>1. pc' \in {"send", "wait"} => cnt < length
    BY <1>1, <1>3, <1>4, <1>5
  <2> QED  BY <1>1, <1>2, <2>1 DEF SplitBy
<1>13. \A k \in 1 .. (m - 1) : starts[k] <= Len(out')
  <2>1. Len(out) \in Nat /\ cnt \in Nat /\ Len(out') = Len(out) + cnt
    BY <1>3, <1>5, <1>6
  <2> SUFFICES ASSUME NEW k \in 1 .. (m - 1) PROVE starts[k] <= Len(out')
    OBVIOUS
  <2>2. starts[k] \in Nat /\ starts[k] <= Len(out)
    BY <1>3, <1>8
  <2> QED  BY <2>1, <2>2
<1> QED  BY <1>2, <1>7, <1>8, <1>9, <1>10, <1>11, <1>13, <1>12 DEF Inv

(* The other steps leave the wire and the calls alone.                     *)
LEMMA OthersKeep ==
  ASSUME Inv, Return \/ Again \/ Resume \/ Fail \/ Ended \/ UNCHANGED vars
  PROVE  Inv'
<1>1. /\ UNCHANGED <<m, length, out, starts, split, got>>
      /\ pc' \in {"next", "send", "wait", "returned", "failed"}
      /\ pc' \in {"send", "wait"} => pc \in {"send", "wait"}
      /\ pc' = "next" => pc = "next"
  BY DEF Return, Again, Resume, Fail, Ended, vars, Inv, TypeOK
<1> QED  BY <1>1 DEF Inv, TypeOK, BytesInPlace, InPlace, Room

LEMMA ReadsKeep == Inv /\ Reads => Inv'
<1> SUFFICES ASSUME Inv, NEW k \in 1 .. (Len(out) - got), Receive(k) PROVE Inv'
  BY DEF Reads
<1>1. /\ UNCHANGED <<m, length, pc, out, starts, split>> /\ got' = got + k
      /\ k <= Len(out) - got
  BY DEF Receive
<1>2. /\ Len(out) \in Nat /\ got \in 0 .. Len(out) /\ Room \in 0 .. SndCap
      /\ SndCap \in Nat
  BY WriterAssumption DEF Inv, TypeOK
<1>3. got' \in 0 .. Len(out) /\ Room' \in 0 .. SndCap
  BY <1>1, <1>2 DEF Room
<1>4. TypeOK'
  BY <1>1, <1>3 DEF Inv, TypeOK
<1>5. BytesInPlace'
  BY <1>1 DEF Inv, BytesInPlace, InPlace
<1> QED  BY <1>1, <1>4, <1>5 DEF Inv

LEMMA WriterInvariance == Spec => []Inv
<1>1. Inv /\ [Next]_vars => Inv'
  BY CallKeeps, SendKeeps, OthersKeep, ReadsKeep DEF Next, Thread
<1> QED  BY WriterInit, <1>1, PTL DEF Spec

(* _write never asks send for more than it was asked to send, and never    *)
(* for less than nothing (__init__.c:133-163).                             *)
THEOREM WriterTypeCorrect == Spec => []TypeOK
<1>1. Inv => TypeOK
  BY DEF Inv
<1> QED  BY WriterInvariance, <1>1, PTL

(* However send splits the messages, each call puts as many bytes on the   *)
(* wire as it was asked to, behind those of the call before it, and a      *)
(* message that is sent in one piece is whole in its place.  Of a message  *)
(* that is split only the places are right: its start is sent again        *)
(* (__init__.c:135, 159).                                                  *)
THEOREM WriterBytesInPlace == Spec => []BytesInPlace
<1>1. Inv => BytesInPlace
  BY DEF Inv
<1> QED  BY WriterInvariance, <1>1, PTL
=============================================================================
