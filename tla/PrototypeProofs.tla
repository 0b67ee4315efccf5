-------------------------- MODULE PrototypeProofs --------------------------
(***************************************************************************)
(* Proofs about the prototype, for any connections, ids, requests and      *)
(* sizes of the sockets: no assertion fails, the table of requests and the *)
(* bufferevents point at each other, and no request is forgotten.          *)
(*                                                                         *)
(* All of it holds when a request id is in use on one connection at a time *)
(* (~ SharedIds).  The code has one table for all connections and needs    *)
(* this; the protocol does not promise it, and the run prototype_ids shows *)
(* what happens otherwise.                                                 *)
(***************************************************************************)
EXTENDS Prototype, SequenceTheorems, TLAPS

-----------------------------------------------------------------------------
(* The inductive invariant.                                                *)

Middle  == {"PARAMS", "PARAMS_END", "STDIN", "STDIN_END", "ABORT", "OTHER"}
Record  == [type : {"BEGIN"}, id : Id, keep : BOOLEAN, responder : BOOLEAN]
             \cup [type : Middle, id : Id] \cup [type : {"FOREIGN"}, id : {null}]
Output  == [type : {"STDOUT", "STDERR", "STDOUT_END", "STDERR_END", "END"}, id : Id]
             \cup [type : {"UNKNOWN"}, id : {0}]
Request == [bev : Conn \cup {null}, keepconn : BOOLEAN, responder : BOOLEAN, terminate : BOOLEAN]
Bufferevent  == [fd : {"none", "open", "closed"}, enabled : BOOLEAN, cbarg : Id \cup {null}]

Types ==
  /\ _requests \in [Id -> Request] /\ bev \in [Conn -> Bufferevent]
  /\ input \in [Conn -> Seq(Record)] /\ output \in [Conn -> Seq(Output)]
  /\ running \in Conn \cup {"loop"} /\ crashed = FALSE
  /\ toApp \in [Conn -> Seq(Record)] /\ toSrv \in [Conn -> Seq(Output)]
  /\ cur \in [Conn -> [phase : Phase, id : Id \cup {null}]]
  /\ begun \in [Conn -> 0 .. MaxBegin] /\ extra \in 0 .. MaxExtra
  /\ \A c \in Conn : Len(input[c]) <= NetCap /\ Len(toApp[c]) <= NetCap /\ Len(toSrv[c]) <= NetCap

(* Only the connection whose readcb runs has input, and it is enabled.     *)
Control ==
  /\ \A c \in Conn : c # running => input[c] = <<>>
  /\ running # "loop" => bev[running].enabled

(* The records of c the program has not handled yet.                       *)
Stream(c) == input[c] \o toApp[c]

(* A request id belongs to one connection.                                 *)
Apart == \A c, d \in Conn : cur[c].id # null /\ cur[c].id = cur[d].id => c = d

Named(c) == cur[c].id = null <=> cur[c].phase \in {"idle", "foreign"}

(* The web server's request is the one that is linked, and none before it  *)
(* is accepted.                                                            *)
Link(c) ==
  /\ bev[c].enabled => bev[c].fd = "open"
  /\ bev[c].fd = "none" => /\ bev[c].cbarg = null /\ toApp[c] = <<>> /\ output[c] = <<>>
                           /\ toSrv[c] = <<>> /\ cur[c].phase = "idle"
  /\ bev[c].cbarg # null => bev[c].enabled /\ bev[c].cbarg = cur[c].id

(* What is unread on a connection that is read: the records of one         *)
(* request, its beginning first unless it is linked already, nothing that  *)
(* is answered behind the end of its parameters.                           *)
First == {"BEGIN", "FOREIGN"}

Reading(c) ==
  bev[c].enabled =>
    LET s == Stream(c)
    IN  /\ \A a \in DOMAIN s :
             /\ s[a].type \in First <=> a = 1 /\ bev[c].cbarg = null
             /\ s[a].id = cur[c].id
             /\ s[a].type = "ABORT" => cur[c].phase = "aborted"
             /\ s[a].type = "PARAMS_END" => cur[c].phase # "params"
        /\ \A a, b \in DOMAIN s :
             a < b /\ s[a].type = "PARAMS_END" => s[b].type \notin {"PARAMS_END", "OTHER"}
        /\ bev[c].cbarg = null =>
             output[c] = <<>> /\ toSrv[c] = <<>> /\ (s = <<>> <=> cur[c].phase = "idle")

(* Its answer: the last of the output, and behind it nothing that is       *)
(* answered.                                                               *)
Answer(c) ==
  bev[c].enabled =>
    /\ ~ In(toSrv[c], "END")
    /\ bev[c].cbarg # null =>
         /\ _requests[bev[c].cbarg].terminate <=> In(output[c], "END")
         /\ In(output[c], "END") =>
              /\ cur[c].phase # "params"
              /\ ~ In(Stream(c), "PARAMS_END") /\ ~ In(Stream(c), "OTHER")
    /\ cur[c].phase \in {"stdin", "sent"} =>
         In(Stream(c), "PARAMS_END") \/ In(output[c], "END")
    /\ \A a \in DOMAIN output[c] :
         output[c][a].type = "END" => a = Len(output[c]) /\ output[c][a].id = cur[c].id

(* What is sent of it, and what becomes of a connection that is not read   *)
(* any more.                                                               *)
Sent(c) ==
  /\ \A a, b \in DOMAIN toSrv[c] :
       toSrv[c][a].type = "END" => /\ toSrv[c][a].id = cur[c].id /\ cur[c].id # null
                                   /\ toSrv[c][b].type = "END" => a = b
  /\ bev[c].fd = "open" /\ ~ bev[c].enabled /\ cur[c].phase \in {"params", "stdin", "sent"} =>
       In(toApp[c], "BEGIN") \/ In(toSrv[c], "END")

(* Room in the output: what is to be answered is counted by extra.         *)
Room(c) ==
  /\ Len(output[c]) <= 4 + extra
  /\ bev[c].enabled /\ ~ In(output[c], "END") =>
       LET head == IF bev[c].cbarg = null THEN 1 ELSE 0
       IN  /\ Len(output[c]) <= extra
           /\ cur[c].phase = "params" => Len(output[c]) + Len(Stream(c)) - head <= extra
           /\ \A a \in DOMAIN Stream(c) :
                Stream(c)[a].type = "OTHER" => Len(output[c]) + a - head <= extra

Local(c) == Named(c) /\ Link(c) /\ Reading(c) /\ Answer(c) /\ Sent(c) /\ Room(c)

Inv == Types /\ Control /\ Apart /\ Linked /\ \A c \in Conn : Local(c)

-----------------------------------------------------------------------------
(* Sequences.                                                              *)

(* An element appended, a sequence cut, a first element taken: what becomes*)
(* of a concatenation.                                                     *)
LEMMA ConcatAppend ==
  ASSUME NEW S, NEW s \in Seq(S), NEW t \in Seq(S), NEW e \in S
  PROVE  s \o Append(t, e) = Append(s \o t, e)
<1>1. <<e>> \in Seq(S) /\ s \o t \in Seq(S)
  BY ConcatProperties
<1>2. Append(t, e) = t \o <<e>> /\ Append(s \o t, e) = (s \o t) \o <<e>>
  BY <1>1, AppendIsConcat
<1>3. (s \o t) \o <<e>> = s \o (t \o <<e>>)
  BY <1>1, ConcatAssociative
<1> QED
  BY <1>2, <1>3

LEMMA ConcatSlices ==
  ASSUME NEW S, NEW s \in Seq(S), NEW k \in 1 .. Len(s)
  PROVE  /\ SubSeq(s, 1, k) \o SubSeq(s, k + 1, Len(s)) = s
         /\ SubSeq(s, 1, k) \in Seq(S) /\ Len(SubSeq(s, 1, k)) = k
         /\ \A a \in 1 .. k : SubSeq(s, 1, k)[a] = s[a]
         /\ SubSeq(s, k + 1, Len(s)) \in Seq(S) /\ Len(SubSeq(s, k + 1, Len(s))) = Len(s) - k
         /\ \A a \in 1 .. (Len(s) - k) : SubSeq(s, k + 1, Len(s))[a] = s[a + k]
<1>1. Len(s) \in Nat /\ k \in Nat /\ k <= Len(s) /\ k >= 1
  OBVIOUS
<1>2. 1 \in 1 .. Len(s) + 1 /\ k \in (1 - 1) .. Len(s) /\ Len(s) \in k .. Len(s)
  BY <1>1
<1>3. SubSeq(s, 1, k) \o SubSeq(s, k + 1, Len(s)) = SubSeq(s, 1, Len(s))
  BY <1>2, ConcatAdjacentSubSeq
<1>4. SubSeq(s, 1, Len(s)) = s
  BY SubSeqFull
<1>5. /\ SubSeq(s, 1, k) \in Seq(S) /\ Len(SubSeq(s, 1, k)) = k
      /\ \A a \in 1 .. k : SubSeq(s, 1, k)[a] = s[a]
  <2>1. \A a \in 1 .. k : s[a] \in S
    BY <1>1
  <2> QED
    BY <1>1, <2>1, SubSeqProperties
<1>6. /\ SubSeq(s, k + 1, Len(s)) \in Seq(S) /\ Len(SubSeq(s, k + 1, Len(s))) = Len(s) - k
      /\ \A a \in 1 .. (Len(s) - k) : SubSeq(s, k + 1, Len(s))[a] = s[a + k]
  <2>1. \A a \in k + 1 .. Len(s) : s[a] \in S
    BY <1>1
  <2> QED
    BY <1>1, <2>1, SubSeqProperties
<1> QED
  BY <1>3, <1>4, <1>5, <1>6

LEMMA ConcatTail ==
  ASSUME NEW S, NEW s \in Seq(S), NEW t \in Seq(S), s # <<>>
  PROVE  /\ Tail(s) \in Seq(S) /\ Len(Tail(s)) = Len(s) - 1 /\ Len(s) \in Nat /\ Len(s) > 0
         /\ Len(s \o t) = Len(s) + Len(t) /\ Len(Tail(s) \o t) = Len(s) + Len(t) - 1
         /\ (s \o t)[1] = Head(s)
         /\ \A a \in 1 .. (Len(s) + Len(t) - 1) : (Tail(s) \o t)[a] = (s \o t)[a + 1]
<1>1. Tail(s) \in Seq(S) /\ Len(Tail(s)) = Len(s) - 1 /\ Len(s) \in Nat /\ Len(s) > 0 /\ Len(t) \in Nat
  OBVIOUS
<1>2. \A a \in 1 .. Len(Tail(s)) : Tail(s)[a] = s[a + 1]
  BY HeadTailProperties
<1>3. /\ Len(s \o t) = Len(s) + Len(t) /\ Len(Tail(s) \o t) = Len(Tail(s)) + Len(t)
      /\ \A a \in 1 .. Len(s) + Len(t) : (s \o t)[a] = IF a <= Len(s) THEN s[a] ELSE t[a - Len(s)]
      /\ \A a \in 1 .. Len(Tail(s)) + Len(t) :
           (Tail(s) \o t)[a] = IF a <= Len(Tail(s)) THEN Tail(s)[a] ELSE t[a - Len(Tail(s))]
  BY <1>1, ConcatProperties
<1>4. (s \o t)[1] = Head(s)
  BY <1>1, <1>3
<1>5. ASSUME NEW a \in 1 .. (Len(s) + Len(t) - 1) PROVE (Tail(s) \o t)[a] = (s \o t)[a + 1]
  <2>1. a \in Nat /\ a \in 1 .. Len(Tail(s)) + Len(t) /\ a + 1 \in 1 .. Len(s) + Len(t)
    BY <1>1
  <2>2. CASE a <= Len(Tail(s))
    <3>1. a \in 1 .. Len(Tail(s)) /\ a + 1 <= Len(s)
      BY <1>1, <2>1, <2>2
    <3> QED
      BY <1>2, <1>3, <2>1, <3>1
  <2>3. CASE ~ (a <= Len(Tail(s)))
    <3>1. ~ (a + 1 <= Len(s)) /\ a - Len(Tail(s)) = (a + 1) - Len(s)
      BY <1>1, <2>1, <2>3
    <3> QED
      BY <1>3, <2>1, <2>3, <3>1
  <2> QED
    BY <2>2, <2>3
<1> QED
  BY <1>1, <1>3, <1>4, <1>5

LEMMA StreamTyped ==
  ASSUME Types, NEW c \in Conn
  PROVE  /\ Stream(c) \in Seq(Record) /\ Len(Stream(c)) \in Nat
         /\ DOMAIN Stream(c) = 1 .. Len(Stream(c))
         /\ \A a \in DOMAIN Stream(c) : Stream(c)[a] \in Record
         /\ input[c] = <<>> => Stream(c) = toApp[c]
<1>1. input[c] \in Seq(Record) /\ toApp[c] \in Seq(Record)
  BY DEF Types
<1>2. Stream(c) \in Seq(Record) /\ (input[c] = <<>> => Stream(c) = toApp[c])
  BY <1>1, ConcatProperties, ConcatEmptySeq DEF Stream
<1> HIDE DEF Stream
<1> QED
  BY <1>2

(* A record more from the web server.                                      *)
LEMMA StreamSend ==
  ASSUME Types, NEW c \in Conn, NEW r \in Record, Send(c, r)
  PROVE  /\ toApp' \in [Conn -> Seq(Record)] /\ Len(toApp'[c]) <= NetCap
         /\ \A d \in Conn : d # c => toApp'[d] = toApp[d]
         /\ \A type : In(toApp'[c], type) <=> In(toApp[c], type) \/ r.type = type
         /\ \E n \in Nat : /\ n > 0 /\ Len(Stream(c)) = n - 1 /\ DOMAIN Stream(c) = 1 .. (n - 1)
                           /\ Len(Stream(c)') = n /\ DOMAIN Stream(c)' = 1 .. n
                           /\ Stream(c)'[n] = r
                           /\ \A a \in DOMAIN Stream(c) : Stream(c)'[a] = Stream(c)[a]
<1>1. /\ input[c] \in Seq(Record) /\ toApp[c] \in Seq(Record) /\ toApp'[c] = Append(toApp[c], r)
      /\ input' = input /\ Len(toApp[c]) < NetCap /\ NetCap \in Nat
  BY PrototypeAssumption DEF Types, Send, app, buffers
<1>2. /\ toApp'[c] \in Seq(Record) /\ Len(toApp'[c]) = Len(toApp[c]) + 1
      /\ \A type : In(toApp'[c], type) <=> In(toApp[c], type) \/ r.type = type
  BY <1>1 DEF In
<1>3. toApp' \in [Conn -> Seq(Record)] /\ \A d \in Conn : d # c => toApp'[d] = toApp[d]
  BY <1>2 DEF Types, Send
<1>4. Len(toApp'[c]) <= NetCap
  BY <1>1, <1>2
<1>5. Stream(c)' = Append(Stream(c), r) /\ Stream(c) \in Seq(Record)
  <2>1. Stream(c)' = input[c] \o Append(toApp[c], r)
    BY <1>1 DEF Stream
  <2>2. \A x, y \in Seq(Record) : x \o Append(y, r) = Append(x \o y, r)
    BY ConcatAppend
  <2> QED
    BY <1>1, <2>1, <2>2, StreamTyped DEF Stream
<1>6. ASSUME NEW s \in Seq(Record)
      PROVE  \E n \in Nat : /\ n > 0 /\ Len(s) = n - 1 /\ DOMAIN s = 1 .. (n - 1)
                            /\ Len(Append(s, r)) = n /\ DOMAIN Append(s, r) = 1 .. n
                            /\ Append(s, r)[n] = r
                            /\ \A a \in DOMAIN s : Append(s, r)[a] = s[a]
  <2>1. /\ Len(s) + 1 \in Nat /\ Len(s) + 1 > 0 /\ Len(s) = (Len(s) + 1) - 1
        /\ DOMAIN s = 1 .. ((Len(s) + 1) - 1)
        /\ Len(Append(s, r)) = Len(s) + 1 /\ DOMAIN Append(s, r) = 1 .. (Len(s) + 1)
        /\ Append(s, r)[Len(s) + 1] = r /\ \A a \in DOMAIN s : Append(s, r)[a] = s[a]
    OBVIOUS
  <2> QED
    BY <2>1
<1> QED
  BY <1>2, <1>3, <1>4, <1>5, <1>6

(* libevent moves records to the input.                                    *)
LEMMA StreamRead ==
  ASSUME Types, NEW c \in Conn, input[c] = <<>>, ReadEvent(c)
  PROVE  /\ input' \in [Conn -> Seq(Record)] /\ toApp' \in [Conn -> Seq(Record)]
         /\ Len(input'[c]) <= NetCap /\ Len(toApp'[c]) <= NetCap
         /\ \A d \in Conn : d # c => toApp'[d] = toApp[d] /\ input'[d] = input[d]
         /\ Stream(c)' = Stream(c)
<1>1. PICK k \in 1 .. Len(toApp[c]) :
        /\ input' = [input EXCEPT ![c] = @ \o SubSeq(toApp[c], 1, k)]
        /\ toApp' = [toApp EXCEPT ![c] = SubSeq(@, k + 1, Len(@))]
  BY DEF ReadEvent
<1>2. PICK y \in Seq(Record) : y = toApp[c]
  BY DEF Types
<1>3. Len(y) \in Nat /\ k \in 1 .. Len(y) /\ Len(y) <= NetCap /\ NetCap \in Nat
  BY <1>2, PrototypeAssumption DEF Types
<1>4. PICK u, v : u = SubSeq(y, 1, k) /\ v = SubSeq(y, k + 1, Len(y))
  OBVIOUS
<1>5. u \o v = y /\ u \in Seq(Record) /\ v \in Seq(Record) /\ Len(u) = k /\ Len(v) = Len(y) - k
  BY <1>3, <1>4, ConcatSlices
<1>6. input' = [input EXCEPT ![c] = u] /\ toApp' = [toApp EXCEPT ![c] = v]
  <2>1. <<>> \o u = u
    BY <1>5, ConcatEmptySeq
  <2> QED
    BY <1>1, <1>2, <1>4, <2>1 DEF Types
<1>7. input'[c] = u /\ toApp'[c] = v /\ Stream(c) = y
  BY <1>2, <1>6, StreamTyped DEF Types
<1>8. Stream(c)' = Stream(c)
  BY <1>5, <1>7 DEF Stream
<1> QED
  BY <1>3, <1>5, <1>6, <1>8 DEF Types

(* A handler takes the first record of the input.                          *)
LEMMA StreamTail ==
  ASSUME Types, NEW c \in Conn, input[c] # <<>>, Drained(c), toApp' = toApp
  PROVE  /\ input' \in [Conn -> Seq(Record)] /\ Len(input'[c]) <= NetCap
         /\ \A d \in Conn : d # c => input'[d] = input[d]
         /\ Len(Stream(c)) > 0 /\ Len(Stream(c)') = Len(Stream(c)) - 1
         /\ DOMAIN Stream(c)' = 1 .. (Len(Stream(c)) - 1)
         /\ Stream(c)[1] = Head(input[c])
         /\ \A a \in DOMAIN Stream(c)' : Stream(c)'[a] = Stream(c)[a + 1]
<1>1. PICK x \in Seq(Record), y \in Seq(Record) : x = input[c] /\ y = toApp[c]
  BY DEF Types
<1>2. x # <<>> /\ Len(x) <= NetCap /\ NetCap \in Nat /\ Len(y) \in Nat
  BY <1>1, PrototypeAssumption DEF Types
<1>3. PICK t : t = Tail(x)
  OBVIOUS
<1>4. /\ t \in Seq(Record) /\ Len(t) = Len(x) - 1 /\ Len(x) \in Nat /\ Len(x) > 0
      /\ Len(x \o y) = Len(x) + Len(y) /\ Len(t \o y) = Len(x) + Len(y) - 1
      /\ (x \o y)[1] = Head(x)
      /\ \A a \in 1 .. (Len(x) + Len(y) - 1) : (t \o y)[a] = (x \o y)[a + 1]
      /\ t \o y \in Seq(Record)
  BY <1>2, <1>3, ConcatTail, ConcatProperties
<1>5. input' = [input EXCEPT ![c] = t]
  BY <1>1, <1>3 DEF Drained, Types
<1>6. Stream(c) = x \o y /\ Stream(c)' = t \o y
  BY <1>1, <1>5 DEF Stream, Types
<1>7. DOMAIN (t \o y) = 1 .. Len(t \o y)
  <2>1. \A z \in Seq(Record) : DOMAIN z = 1 .. Len(z)
    OBVIOUS
  <2> QED
    BY <1>4, <2>1
<1>8. /\ Len(Stream(c)) > 0 /\ Len(Stream(c)') = Len(Stream(c)) - 1
      /\ DOMAIN Stream(c)' = 1 .. (Len(Stream(c)) - 1)
      /\ Stream(c)[1] = Head(input[c])
      /\ \A a \in DOMAIN Stream(c)' : Stream(c)'[a] = Stream(c)[a + 1]
  <2>1. Len(x \o y) > 0 /\ Len(t \o y) = Len(x \o y) - 1 /\ DOMAIN (t \o y) = 1 .. (Len(x \o y) - 1)
    BY <1>2, <1>4, <1>7
  <2>2. \A a \in DOMAIN (t \o y) : (t \o y)[a] = (x \o y)[a + 1]
    BY <1>4, <1>7
  <2> QED
    BY <1>1, <1>4, <1>6, <2>1, <2>2
<1>9. /\ input' \in [Conn -> Seq(Record)] /\ Len(input'[c]) <= NetCap
      /\ \A d \in Conn : d # c => input'[d] = input[d]
  BY <1>2, <1>4, <1>5 DEF Types
<1> QED
  BY <1>8, <1>9

-----------------------------------------------------------------------------
(* What a step on one connection leaves alone.                             *)

LEMMA Elsewhere ==
  ASSUME Types, Apart, NEW c \in Conn, NEW d \in Conn, d # c, Local(d),
         bev'[d] = bev[d], input'[d] = input[d], output'[d] = output[d],
         toApp'[d] = toApp[d], toSrv'[d] = toSrv[d], cur'[d] = cur[d],
         extra' \in Int, extra' >= extra,
         \A i \in Id : i # cur[c].id => _requests'[i].terminate = _requests[i].terminate
  PROVE  Local(d)'
<1>1. Stream(d)' = Stream(d)
  BY DEF Stream
<1>2. Named(d)' /\ Link(d)' /\ Sent(d)'
  BY DEF Local, Named, Link, Sent
<1>3. Reading(d)'
  BY <1>1 DEF Local, Reading
<1>4. bev[d].cbarg # null => _requests'[bev[d].cbarg].terminate = _requests[bev[d].cbarg].terminate
  BY DEF Local, Link, Apart, Types, Bufferevent
<1>5. Answer(d)'
  BY <1>1, <1>4 DEF Local, Answer
<1>6. Room(d)'
  <2>1. Len(Stream(d)) \in Nat /\ \A a \in DOMAIN Stream(d) : a \in Nat
    BY StreamTyped
  <2>2. PICK m \in Nat : m = Len(output[d])
    BY DEF Types
  <2>3. extra \in Int
    BY DEF Types
  <2>4. PICK head \in {0, 1} : head = IF bev[d].cbarg = null THEN 1 ELSE 0
    OBVIOUS
  <2>5. m <= 4 + extra => m <= 4 + extra'
    BY <2>2, <2>3
  <2>6. \A a \in Nat : m + a - head <= extra => m + a - head <= extra'
    BY <2>2, <2>3
  <2>7. m <= extra => m <= extra'
    BY <2>2, <2>3
  <2> QED
    BY <1>1, <2>1, <2>2, <2>4, <2>5, <2>6, <2>7 DEF Local, Room
<1> QED
  BY <1>2, <1>3, <1>5, <1>6 DEF Local

(* A connection that is not accepted yet satisfies every part.             *)
LEMMA InitInv == Init => Inv
<1> SUFFICES ASSUME Init PROVE Inv
  OBVIOUS
<1>1. Types
  BY PrototypeAssumption DEF Init, Types, Request, Bufferevent, Phase
<1>2. Control /\ Apart /\ Linked
  BY PrototypeAssumption DEF Init, Control, Apart, Linked
<1>3. ASSUME NEW c \in Conn PROVE Local(c)
  <2>1. /\ bev[c] = [fd |-> "none", enabled |-> FALSE, cbarg |-> null]
        /\ cur[c] = [phase |-> "idle", id |-> null] /\ extra = 0
        /\ input[c] = <<>> /\ output[c] = <<>> /\ toApp[c] = <<>> /\ toSrv[c] = <<>>
    BY <1>3 DEF Init
  <2> QED
    BY <2>1 DEF Local, Named, Link, Reading, Answer, Sent, Room
<1> QED
  BY <1>1, <1>2, <1>3 DEF Inv

-----------------------------------------------------------------------------
(* The web server.                                                         *)

Cur == [phase : Phase, id : Id \cup {null}]

(* What sending a record to c changes.                                     *)
Sends(c, r, q) ==
  /\ Send(c, r) /\ cur' = [cur EXCEPT ![c] = q]
  /\ begun' \in [Conn -> 0 .. MaxBegin] /\ extra' \in 0 .. MaxExtra /\ extra' >= extra

(* The parts of the invariant that no record can disturb.                  *)
LEMMA SendFacts ==
  ASSUME Inv, NEW c \in Conn, NEW r \in Record, NEW q \in Cur, Sends(c, r, q),
         \A d \in Conn : d # c /\ q.id # null => cur[d].id # q.id
  PROVE  /\ Types' /\ Control' /\ Apart' /\ Linked'
         /\ \A d \in Conn : d # c => Local(d)'
         /\ bev' = bev /\ output' = output /\ toSrv' = toSrv /\ _requests' = _requests
         /\ cur'[c] = q /\ bev[c].fd = "open"
<1>1. /\ bev' = bev /\ input' = input /\ output' = output /\ toSrv' = toSrv /\ running' = running
      /\ _requests' = _requests /\ crashed' = crashed
  BY DEF Sends, Send, app, buffers
<1>2. cur'[c] = q /\ \A d \in Conn : d # c => cur'[d] = cur[d]
  BY DEF Sends, Inv, Types
<1>3. /\ toApp' \in [Conn -> Seq(Record)] /\ Len(toApp'[c]) <= NetCap
      /\ \A d \in Conn : d # c => toApp'[d] = toApp[d]
  BY StreamSend DEF Sends, Inv
<1>4. Types'
  <2>1. cur' \in [Conn -> Cur]
    BY DEF Inv, Types, Cur, Sends
  <2>2. \A d \in Conn : Len(input'[d]) <= NetCap /\ Len(toApp'[d]) <= NetCap /\ Len(toSrv'[d]) <= NetCap
    BY <1>1, <1>3 DEF Inv, Types
  <2> QED
    BY <1>1, <1>3, <2>1, <2>2 DEF Inv, Types, Cur, Sends
<1>5. Control' /\ Linked'
  BY <1>1 DEF Inv, Control, Linked
<1>6. Apart'
  BY <1>2 DEF Inv, Apart
<1>7. \A d \in Conn : d # c => Local(d)'
  <2>1. extra' \in Int /\ extra' >= extra
    BY DEF Sends
  <2> QED
    BY <1>1, <1>2, <1>3, <2>1, Elsewhere DEF Inv
<1>8. bev[c].fd = "open"
  BY DEF Sends, Send
<1> QED
  BY <1>1, <1>2, <1>4, <1>5, <1>6, <1>7, <1>8

(* The first record of a request, or of a peer of another version.         *)
LEMMA SendFirst ==
  ASSUME Inv, NEW c \in Conn, NEW r \in Record, NEW q \in Cur, Sends(c, r, q),
         cur[c].phase = "idle", r.type \in First, r.id = q.id,
         \/ r.type = "BEGIN" /\ q.phase = "params" /\ q.id # null
         \/ r.type = "FOREIGN" /\ q.phase = "foreign" /\ q.id = null,
         \A d \in Conn : d # c /\ q.id # null => cur[d].id # q.id
  PROVE  Inv'
<1>1. /\ Types' /\ Control' /\ Apart' /\ Linked' /\ \A d \in Conn : d # c => Local(d)'
      /\ bev' = bev /\ output' = output /\ toSrv' = toSrv /\ _requests' = _requests
      /\ cur'[c] = q /\ bev[c].fd = "open"
  BY SendFacts
<1>2. Types /\ Local(c) /\ cur[c].id = null
  BY DEF Inv, Local, Named
<1>3. bev[c].cbarg = null
  BY <1>2 DEF Local, Link
<1>4. In(toApp'[c], r.type)
  BY <1>2, StreamSend DEF Sends
<1>5. PICK n \in Nat : /\ n > 0 /\ Len(Stream(c)) = n - 1 /\ DOMAIN Stream(c) = 1 .. (n - 1)
                       /\ Len(Stream(c)') = n /\ DOMAIN Stream(c)' = 1 .. n
                       /\ Stream(c)'[n] = r
                       /\ \A a \in DOMAIN Stream(c) : Stream(c)'[a] = Stream(c)[a]
  BY <1>2, StreamSend DEF Sends
<1>6. bev[c].enabled => n = 1 /\ output[c] = <<>> /\ toSrv[c] = <<>>
  <2>1. bev[c].enabled => Stream(c) = <<>> /\ output[c] = <<>> /\ toSrv[c] = <<>>
    BY <1>2, <1>3 DEF Local, Reading
  <2> QED
    BY <1>5, <2>1
<1>7. Stream(c)' # <<>>
  BY <1>5
<1>8. Named(c)' /\ Link(c)'
  BY <1>1, <1>2, <1>3 DEF Local, Named, Link
<1>9. Reading(c)'
  BY <1>1, <1>3, <1>5, <1>6, <1>7 DEF Reading, First
<1>10. Answer(c)'
  BY <1>1, <1>3, <1>6 DEF Answer, In
<1>11. Sent(c)'
  BY <1>1, <1>2, <1>4 DEF Local, Sent
<1>12. Room(c)'
  <2>1. Len(output[c]) <= 4 + extra /\ Len(output[c]) \in Nat /\ extra \in Nat /\ extra' \in Nat
        /\ extra' >= extra
    BY <1>2 DEF Local, Room, Types, Sends
  <2>2. Len(output[c]) <= 4 + extra'
    BY <2>1
  <2>3. bev[c].enabled => Len(output[c]) = 0
    BY <1>6
  <2>4. r.type # "OTHER"
    BY DEF First
  <2> QED
    BY <1>1, <1>3, <1>5, <1>6, <2>1, <2>2, <2>3, <2>4 DEF Room
<1>13. Local(c)'
  BY <1>8, <1>9, <1>10, <1>11, <1>12 DEF Local
<1> QED
  BY <1>1, <1>13 DEF Inv

(* A record of a request under way.                                        *)
Open == {"params", "stdin", "sent"}

LEMMA SendMiddle ==
  ASSUME Inv, NEW c \in Conn, NEW r \in Record, NEW q \in Cur, Sends(c, r, q),
         cur[c].phase \in Open, r.type \in Middle, r.id = q.id, q.id = cur[c].id,
         q.phase \in Open \cup {"aborted"},
         r.type = "ABORT" => q.phase = "aborted",
         r.type = "PARAMS_END" => cur[c].phase = "params" /\ q.phase = "stdin",
         r.type = "OTHER" => cur[c].phase = "params" /\ extra' = extra + 1,
         q.phase = "params" => cur[c].phase = "params" /\ extra' = extra + 1,
         q.phase \in {"stdin", "sent"} => cur[c].phase # "params" \/ r.type = "PARAMS_END"
  PROVE  Inv'
<1>1. Types /\ Local(c) /\ Apart
  BY DEF Inv
<1>2. cur[c].id # null
  BY <1>1 DEF Local, Named, Open
<1>3. \A d \in Conn : d # c /\ q.id # null => cur[d].id # q.id
  BY <1>1 DEF Apart
<1>4. /\ Types' /\ Control' /\ Apart' /\ Linked' /\ \A d \in Conn : d # c => Local(d)'
      /\ bev' = bev /\ output' = output /\ toSrv' = toSrv /\ _requests' = _requests
      /\ cur'[c] = q /\ bev[c].fd = "open"
  BY <1>3, SendFacts
<1>5. \A type : In(toApp'[c], type) <=> In(toApp[c], type) \/ r.type = type
  BY <1>1, StreamSend DEF Sends
<1>6. PICK n \in Nat : /\ n > 0 /\ Len(Stream(c)) = n - 1 /\ DOMAIN Stream(c) = 1 .. (n - 1)
                       /\ Len(Stream(c)') = n /\ DOMAIN Stream(c)' = 1 .. n
                       /\ Stream(c)'[n] = r
                       /\ \A a \in DOMAIN Stream(c) : Stream(c)'[a] = Stream(c)[a]
  BY <1>1, StreamSend DEF Sends
<1>7. \A type : In(Stream(c)', type) <=> In(Stream(c), type) \/ r.type = type
  BY <1>6 DEF In
<1>8. Named(c)' /\ Link(c)'
  BY <1>1, <1>2, <1>4 DEF Local, Named, Link, Open
<1>9. r.type \notin First
  BY DEF Middle, First
<1>10. Reading(c)'
  <2> SUFFICES ASSUME bev[c].enabled PROVE Reading(c)'
    BY <1>4 DEF Reading
  <2>1. n = 1 => bev[c].cbarg # null
    <3>1. n = 1 => Stream(c) = <<>>
      BY <1>1, <1>6, StreamTyped
    <3> QED
      BY <1>1, <3>1 DEF Local, Reading, Open
  <2>2. Stream(c)' # <<>> /\ q.phase # "idle"
    BY <1>6 DEF Open
  <2>3. ASSUME NEW a \in DOMAIN Stream(c)'
        PROVE  /\ Stream(c)'[a].type \in First <=> a = 1 /\ bev[c].cbarg = null
               /\ Stream(c)'[a].id = cur[c].id
               /\ Stream(c)'[a].type = "ABORT" => q.phase = "aborted"
               /\ Stream(c)'[a].type = "PARAMS_END" => q.phase # "params"
    <3>1. CASE a = n
      BY <1>6, <1>9, <2>1, <3>1
    <3>2. CASE a # n
      <4>1. a \in DOMAIN Stream(c) /\ Stream(c)'[a] = Stream(c)[a]
        BY <1>6, <2>3, <3>2
      <4> QED
        BY <1>1, <4>1 DEF Local, Reading, Open
    <3> QED
      BY <3>1, <3>2
  <2>4. ASSUME NEW a \in DOMAIN Stream(c)', NEW b \in DOMAIN Stream(c)', a < b,
               Stream(c)'[a].type = "PARAMS_END"
        PROVE  Stream(c)'[b].type \notin {"PARAMS_END", "OTHER"}
    <3>1. a \in DOMAIN Stream(c) /\ Stream(c)'[a] = Stream(c)[a]
      BY <1>6, <2>4
    <3>2. cur[c].phase # "params"
      BY <1>1, <2>4, <3>1 DEF Local, Reading
    <3>3. CASE b = n
      BY <1>6, <3>2, <3>3
    <3>4. CASE b # n
      <4>1. b \in DOMAIN Stream(c) /\ Stream(c)'[b] = Stream(c)[b]
        BY <1>6, <2>4, <3>4
      <4> QED
        BY <1>1, <2>4, <3>1, <4>1 DEF Local, Reading
    <3> QED
      BY <3>3, <3>4
  <2>5. bev[c].cbarg = null => output[c] = <<>> /\ toSrv[c] = <<>>
    BY <1>1 DEF Local, Reading
  <2> QED
    BY <1>4, <2>2, <2>3, <2>4, <2>5 DEF Reading
<1>11. Answer(c)'
  BY <1>1, <1>4, <1>7 DEF Local, Answer, Open
<1>12. Sent(c)'
  BY <1>1, <1>4, <1>5 DEF Local, Sent, Open
<1>13. Room(c)'
  <2>1. /\ Len(output[c]) <= 4 + extra /\ Len(output[c]) \in Nat /\ extra \in Nat /\ extra' \in Nat
        /\ extra' >= extra
    BY <1>1 DEF Local, Room, Types, Sends
  <2>2. Len(output[c]) <= 4 + extra'
    BY <2>1
  <2> SUFFICES ASSUME bev[c].enabled, ~ In(output[c], "END") PROVE Room(c)'
    BY <1>4, <2>2 DEF Room
  <2>3. PICK head \in {0, 1} : head = IF bev[c].cbarg = null THEN 1 ELSE 0
    OBVIOUS
  <2>4. /\ Len(output[c]) <= extra
        /\ cur[c].phase = "params" => Len(output[c]) + Len(Stream(c)) - head <= extra
        /\ \A a \in DOMAIN Stream(c) :
             Stream(c)[a].type = "OTHER" => Len(output[c]) + a - head <= extra
    BY <1>1, <2>3 DEF Local, Room
  <2>5. q.phase = "params" => Len(output[c]) + n - head <= extra'
    BY <1>6, <2>1, <2>4
  <2>6. ASSUME NEW a \in DOMAIN Stream(c)', Stream(c)'[a].type = "OTHER"
        PROVE  Len(output[c]) + a - head <= extra'
    <3>1. CASE a = n
      BY <1>6, <2>1, <2>4, <2>6, <3>1
    <3>2. CASE a # n
      <4>1. a \in DOMAIN Stream(c) /\ Stream(c)'[a] = Stream(c)[a] /\ a \in Nat
        BY <1>6, <2>6, <3>2
      <4> QED
        BY <2>1, <2>4, <2>6, <4>1
    <3> QED
      BY <3>1, <3>2
  <2>7. Len(output[c]) <= extra'
    BY <2>1, <2>4
  <2> QED
    BY <1>4, <1>6, <2>2, <2>3, <2>5, <2>6, <2>7 DEF Room
<1>14. Local(c)'
  BY <1>8, <1>10, <1>11, <1>12, <1>13 DEF Local
<1> QED
  BY <1>4, <1>14 DEF Inv


(* A record of a request under way, counted by extra or not.               *)
LEMMA StepInv ==
  ASSUME Inv, NEW c \in Conn, NEW from \in Open, NEW type \in Middle,
         NEW to \in Open \cup {"aborted"}, Step(c, from, type, to),
         extra' = extra \/ (extra' = extra + 1 /\ extra < MaxExtra),
         type = "ABORT" => to = "aborted",
         type = "PARAMS_END" => from = "params" /\ to = "stdin",
         type = "OTHER" => from = "params" /\ extra' = extra + 1,
         to = "params" => from = "params" /\ extra' = extra + 1,
         to \in {"stdin", "sent"} => from # "params" \/ type = "PARAMS_END"
  PROVE  Inv'
<1>1. Types /\ Local(c) /\ cur[c].phase = from
  BY DEF Inv, Step
<1>2. cur[c].id \in Id
  <2>1. cur[c] \in Cur
    BY <1>1 DEF Types, Cur
  <2> QED
    BY <1>1, <2>1 DEF Local, Named, Open, Cur
<1>3. PICK r : r = [type |-> type, id |-> cur[c].id]
  OBVIOUS
<1>4. PICK q : q = [phase |-> to, id |-> cur[c].id]
  OBVIOUS
<1>5. r \in Record /\ r.type = type /\ r.id = cur[c].id
  BY <1>2, <1>3 DEF Record
<1>6. q \in Cur /\ q.phase = to /\ q.id = cur[c].id
  BY <1>2, <1>4 DEF Cur, Phase, Open
<1>7. Sends(c, r, q)
  <2>1. cur' = [cur EXCEPT ![c] = q]
    <3>1. cur' = [cur EXCEPT ![c].phase = to]
      BY DEF Step
    <3>2. [cur[c] EXCEPT !.phase = to] = q
      <4>1. cur[c] \in Cur
        BY <1>1 DEF Types, Cur
      <4> QED
        BY <1>4, <4>1 DEF Cur
    <3> QED
      BY <1>1, <3>1, <3>2 DEF Types
  <2>2. begun' \in [Conn -> 0 .. MaxBegin]
    BY <1>1 DEF Step, Types
  <2>3. extra' \in 0 .. MaxExtra /\ extra' >= extra
    BY <1>1, PrototypeAssumption DEF Types
  <2>4. Send(c, r)
    BY <1>3 DEF Step
  <2> QED
    BY <2>1, <2>2, <2>3, <2>4 DEF Sends
<1> HIDE DEF Step
<1> QED
  BY <1>1, <1>5, <1>6, <1>7, SendMiddle

(* The only step that needs ~ SharedIds: the id is in use nowhere else.    *)
LEMMA BeginInv ==
  ASSUME Inv, ~ SharedIds, NEW c \in Conn, NEW i \in Id, NEW f \in Flags, Begin(c, i, f)
  PROVE  Inv'
<1>1. Types /\ cur[c].phase = "idle" /\ begun[c] < MaxBegin /\ (\A d \in Conn : cur[d].id # i)
  BY DEF Inv, Begin
<1>2. PICK r : r = [type |-> "BEGIN", id |-> i, keep |-> f.keep, responder |-> f.responder]
  OBVIOUS
<1>3. PICK q : q = [phase |-> "params", id |-> i]
  OBVIOUS
<1>4. r \in Record /\ r.type = "BEGIN" /\ r.id = i
  <2>1. f.keep \in BOOLEAN /\ f.responder \in BOOLEAN
    BY PrototypeAssumption
  <2> QED
    BY <1>2, <2>1 DEF Record
<1>5. q \in Cur /\ q.phase = "params" /\ q.id = i /\ i # null
  BY <1>3, PrototypeAssumption DEF Cur, Phase
<1>6. Sends(c, r, q)
  <2>1. cur' = [cur EXCEPT ![c] = q] /\ Send(c, r)
    BY <1>2, <1>3 DEF Begin
  <2>2. begun' \in [Conn -> 0 .. MaxBegin]
    <3>1. begun' = [begun EXCEPT ![c] = @ + 1]
      BY DEF Begin
    <3>2. begun[c] + 1 \in 0 .. MaxBegin
      BY <1>1, PrototypeAssumption DEF Types
    <3> QED
      BY <1>1, <3>1, <3>2 DEF Types
  <2>3. extra' \in 0 .. MaxExtra /\ extra' >= extra
    BY <1>1 DEF Types, Begin
  <2> QED
    BY <2>1, <2>2, <2>3 DEF Sends
<1> QED
  BY <1>1, <1>4, <1>5, <1>6, SendFirst DEF First

(* A record of another version is the first of its connection.             *)
LEMMA ForeignInv ==
  ASSUME Inv, NEW c \in Conn, SendForeign(c)
  PROVE  Inv'
<1>1. Types /\ Local(c) /\ cur[c].phase = "idle" /\ extra < MaxExtra
  BY DEF Inv, SendForeign
<1>2. PICK r : r = [type |-> "FOREIGN", id |-> null]
  OBVIOUS
<1>3. PICK q : q = [phase |-> "foreign", id |-> null]
  OBVIOUS
<1>4. r \in Record /\ r.type = "FOREIGN" /\ r.id = null
  BY <1>2 DEF Record
<1>5. q \in Cur /\ q.phase = "foreign" /\ q.id = null
  BY <1>3 DEF Cur, Phase
<1>6. Sends(c, r, q)
  <2>1. cur' = [cur EXCEPT ![c] = q]
    <3>1. [cur[c] EXCEPT !.phase = "foreign"] = q
      <4>1. cur[c] \in Cur /\ cur[c].id = null
        BY <1>1 DEF Types, Cur, Local, Named
      <4> QED
        BY <1>3, <4>1 DEF Cur
    <3> QED
      BY <1>1, <3>1 DEF SendForeign, Types
  <2>2. begun' \in [Conn -> 0 .. MaxBegin] /\ Send(c, r)
    BY <1>1, <1>2 DEF Types, SendForeign
  <2>3. extra' \in 0 .. MaxExtra /\ extra' >= extra
    BY <1>1, PrototypeAssumption DEF Types, SendForeign
  <2> QED
    BY <2>1, <2>2, <2>3 DEF Sends
<1> QED
  BY <1>1, <1>4, <1>5, <1>6, SendFirst DEF First
-----------------------------------------------------------------------------
(* Records received, connections accepted, given up and read.              *)

(* The places of a sequence without its first element.                     *)
LEMMA TailFacts ==
  ASSUME NEW S, NEW s \in Seq(S), s # <<>>
  PROVE  /\ Tail(s) \in Seq(S) /\ Len(Tail(s)) = Len(s) - 1 /\ Len(s) \in Nat /\ Len(s) > 0
         /\ Head(s) = s[1] /\ 1 \in DOMAIN s
         /\ \A a \in DOMAIN Tail(s) : a + 1 \in DOMAIN s /\ a + 1 # 1 /\ Tail(s)[a] = s[a + 1]
         /\ \A a \in DOMAIN s : a # 1 => a - 1 \in DOMAIN Tail(s) /\ Tail(s)[a - 1] = s[a]
OBVIOUS

(* END_REQUEST, when received, is the only one; nothing is linked any more.*)
LEMMA ReceiveInv ==
  ASSUME Inv, NEW c \in Conn, Receive(c)
  PROVE  Inv'
<1>1. Types /\ Local(c)
  BY DEF Inv
<1>2. /\ bev' = bev /\ input' = input /\ output' = output /\ toApp' = toApp /\ running' = running
      /\ _requests' = _requests /\ crashed' = crashed /\ extra' = extra /\ begun' = begun
  BY DEF Receive, app, buffers
<1>3. PICK s \in Seq(Output) : s = toSrv[c] /\ s # <<>> /\ Len(s) <= NetCap
  BY <1>1 DEF Types, Receive
<1>4. toSrv' = [toSrv EXCEPT ![c] = Tail(s)]
  BY <1>1, <1>3 DEF Receive, Types
<1>5. /\ Tail(s) \in Seq(Output) /\ Len(Tail(s)) = Len(s) - 1 /\ Len(s) \in Nat
      /\ Head(s) = s[1] /\ 1 \in DOMAIN s
      /\ \A a \in DOMAIN Tail(s) : a + 1 \in DOMAIN s /\ a + 1 # 1 /\ Tail(s)[a] = s[a + 1]
      /\ \A a \in DOMAIN s : a # 1 => a - 1 \in DOMAIN Tail(s) /\ Tail(s)[a - 1] = s[a]
  BY <1>3, TailFacts
<1>6. /\ toSrv' \in [Conn -> Seq(Output)] /\ toSrv'[c] = Tail(s) /\ Len(toSrv'[c]) <= NetCap
      /\ \A d \in Conn : d # c => toSrv'[d] = toSrv[d]
  BY <1>1, <1>3, <1>4, <1>5, PrototypeAssumption DEF Types
<1> DEFINE ended == Head(s) = [type |-> "END", id |-> cur[c].id]
<1>7. /\ cur' \in [Conn -> Cur] /\ \A d \in Conn : d # c => cur'[d] = cur[d]
      /\ cur'[c] = IF ended THEN [phase |-> "idle", id |-> null] ELSE cur[c]
  BY <1>1, <1>3 DEF Receive, Types, Cur, Phase
<1>8. Types'
  <2>1. \A d \in Conn : Len(input'[d]) <= NetCap /\ Len(toApp'[d]) <= NetCap /\ Len(toSrv'[d]) <= NetCap
    BY <1>1, <1>2, <1>6 DEF Types
  <2> QED
    BY <1>1, <1>2, <1>6, <1>7, <2>1 DEF Types, Cur
<1>9. Control' /\ Linked'
  BY <1>2 DEF Inv, Control, Linked
<1>10. Apart'
  BY <1>7 DEF Inv, Apart
<1>11. \A d \in Conn : d # c => Local(d)'
  <2>1. extra \in Int /\ extra >= extra
    BY <1>1 DEF Types
  <2> QED
    BY <1>1, <1>2, <1>6, <1>7, <2>1, Elsewhere DEF Inv
<1>12. bev[c].fd # "none" /\ (bev[c].enabled => bev[c].cbarg # null) /\ Stream(c)' = Stream(c)
  BY <1>1, <1>2, <1>3 DEF Local, Link, Reading, Stream
<1>13. Room(c)'
  <2>1. CASE ended
    <3>1. In(toSrv[c], "END")
      BY <1>3, <1>5, <2>1 DEF In
    <3> QED
      BY <1>1, <1>2, <3>1 DEF Local, Answer, Room
  <2>2. CASE ~ ended
    BY <1>1, <1>2, <1>7, <1>12, <2>2 DEF Local, Room
  <2> QED
    BY <2>1, <2>2
<1>14. CASE ended
  <2>1. In(toSrv[c], "END") /\ s[1].type = "END"
    BY <1>3, <1>5, <1>14 DEF In
  <2>2. ~ bev[c].enabled /\ bev[c].cbarg = null
    BY <1>1, <2>1 DEF Local, Answer, Link
  <2>3. Named(c)' /\ Link(c)' /\ Reading(c)' /\ Answer(c)'
    BY <1>2, <1>7, <1>12, <1>14, <2>2 DEF Named, Link, Reading, Answer
  <2>4. \A a \in DOMAIN s : s[a].type = "END" => a = 1
    BY <1>1, <1>3, <1>5, <2>1 DEF Local, Sent
  <2>5. \A a \in DOMAIN Tail(s) : Tail(s)[a].type # "END"
    BY <1>5, <2>4
  <2>6. Sent(c)'
    BY <1>2, <1>6, <1>7, <1>14, <2>5 DEF Sent
  <2> QED
    BY <1>8, <1>9, <1>10, <1>11, <1>13, <2>3, <2>6 DEF Inv, Local
<1>15. CASE ~ ended
  <2>1. s[1].type # "END"
    <3>1. s[1].type = "END" => s[1].id = cur[c].id
      BY <1>1, <1>3, <1>5 DEF Local, Sent
    <3>2. s[1] \in Output
      BY <1>3, <1>5
    <3>3. s[1].type = "END" => s[1] = [type |-> "END", id |-> s[1].id]
      BY <3>2 DEF Output
    <3> QED
      BY <1>5, <1>15, <3>1, <3>3
  <2>2. Named(c)' /\ Link(c)' /\ Reading(c)'
    BY <1>1, <1>2, <1>7, <1>12, <1>15 DEF Local, Named, Link, Reading
  <2>3. In(toSrv'[c], "END") <=> In(toSrv[c], "END")
    <3>1. ASSUME NEW a \in DOMAIN Tail(s), Tail(s)[a].type = "END" PROVE In(s, "END")
      <4>1. a + 1 \in DOMAIN s /\ s[a + 1].type = "END"
        BY <1>5, <3>1
      <4> QED
        BY <4>1 DEF In
    <3>2. ASSUME NEW a \in DOMAIN s, s[a].type = "END" PROVE In(Tail(s), "END")
      <4>1. a - 1 \in DOMAIN Tail(s) /\ Tail(s)[a - 1].type = "END"
        BY <1>5, <2>1, <3>2
      <4> QED
        BY <4>1 DEF In
    <3> QED
      BY <1>3, <1>6, <3>1, <3>2 DEF In
  <2>4. Answer(c)'
    BY <1>1, <1>2, <1>7, <1>12, <1>15, <2>3 DEF Local, Answer
  <2>5. ASSUME NEW a \in DOMAIN Tail(s), NEW b \in DOMAIN Tail(s), Tail(s)[a].type = "END"
        PROVE  /\ Tail(s)[a].id = cur[c].id /\ cur[c].id # null
               /\ Tail(s)[b].type = "END" => a = b
    <3>1. /\ a + 1 \in DOMAIN s /\ b + 1 \in DOMAIN s
          /\ Tail(s)[a] = s[a + 1] /\ Tail(s)[b] = s[b + 1]
      BY <1>5
    <3>2. /\ s[a + 1].id = cur[c].id /\ cur[c].id # null
          /\ s[b + 1].type = "END" => a + 1 = b + 1
      BY <1>1, <1>3, <2>5, <3>1 DEF Local, Sent
    <3>3. a \in Nat /\ b \in Nat
      BY <1>5
    <3> QED
      BY <3>1, <3>2, <3>3
  <2>6. Sent(c)'
    BY <1>1, <1>2, <1>6, <1>7, <1>15, <2>3, <2>5 DEF Local, Sent
  <2> QED
    BY <1>8, <1>9, <1>10, <1>11, <1>13, <2>2, <2>4, <2>6 DEF Inv, Local
<1> QED
  BY <1>14, <1>15

(* A closed connection is given up by the web server too.                  *)
LEMMA HangupInv ==
  ASSUME Inv, NEW c \in Conn, Hangup(c)
  PROVE  Inv'
<1>1. Types /\ Local(c) /\ bev[c].fd = "closed" /\ toSrv[c] = <<>>
  BY DEF Inv, Hangup
<1>2. /\ bev' = bev /\ input' = input /\ output' = output /\ toApp' = toApp /\ running' = running
      /\ _requests' = _requests /\ crashed' = crashed /\ toSrv' = toSrv /\ extra' = extra /\ begun' = begun
  BY DEF Hangup, app, buffers
<1>3. /\ cur' \in [Conn -> Cur] /\ \A d \in Conn : d # c => cur'[d] = cur[d]
      /\ cur'[c] = [phase |-> "idle", id |-> null]
  BY <1>1 DEF Hangup, Types, Cur, Phase
<1>4. Types'
  BY <1>1, <1>2, <1>3 DEF Types, Cur
<1>5. Control' /\ Linked' /\ Apart'
  BY <1>2, <1>3 DEF Inv, Control, Linked, Apart
<1>6. \A d \in Conn : d # c => Local(d)'
  <2>1. extra \in Int /\ extra >= extra
    BY <1>1 DEF Types
  <2> QED
    BY <1>1, <1>2, <1>3, <2>1, Elsewhere DEF Inv
<1>7. ~ bev[c].enabled /\ bev[c].cbarg = null
  BY <1>1 DEF Local, Link
<1>8. Local(c)'
  BY <1>1, <1>2, <1>3, <1>7 DEF Local, Named, Link, Reading, Answer, Sent, Room
<1> QED
  BY <1>4, <1>5, <1>6, <1>8 DEF Inv

(* Nothing was linked to a bufferevent that is new.                        *)
LEMMA AcceptInv ==
  ASSUME Inv, NEW c \in Conn, server_accept(c)
  PROVE  Inv'
<1>1. Types /\ Local(c) /\ Control /\ bev[c].fd = "none" /\ running = "loop"
  BY DEF Inv, server_accept, Loop
<1>2. /\ input' = input /\ output' = output /\ toApp' = toApp /\ running' = running /\ cur' = cur
      /\ _requests' = _requests /\ crashed' = crashed /\ toSrv' = toSrv /\ extra' = extra /\ begun' = begun
  BY DEF server_accept, buffers, server
<1>3. /\ bev' \in [Conn -> Bufferevent] /\ \A d \in Conn : d # c => bev'[d] = bev[d]
      /\ bev'[c] = [fd |-> "open", enabled |-> TRUE, cbarg |-> null]
  BY <1>1 DEF server_accept, Types, Bufferevent
<1>4. Types'
  BY <1>1, <1>2, <1>3 DEF Types
<1>5. bev[c].cbarg = null /\ output[c] = <<>> /\ toApp[c] = <<>> /\ toSrv[c] = <<>>
      /\ cur[c].phase = "idle" /\ cur[c].id = null /\ ~ bev[c].enabled
  BY <1>1 DEF Local, Link, Named
<1>6. Control' /\ Apart'
  BY <1>1, <1>2 DEF Inv, Control, Apart
<1>7. Linked'
  <2>1. \A i \in Id : _requests[i].bev # c
    BY <1>5, PrototypeAssumption DEF Inv, Linked
  <2>2. ASSUME NEW i \in Id, _requests[i].bev # null
        PROVE  LET b == bev'[_requests[i].bev] IN b.cbarg = i /\ b.enabled /\ b.fd = "open"
    <3>1. _requests[i].bev \in Conn /\ _requests[i].bev # c
      BY <1>1, <2>1, <2>2 DEF Types, Request
    <3> QED
      BY <1>3, <2>2, <3>1 DEF Inv, Linked
  <2>3. ASSUME NEW d \in Conn, bev'[d].cbarg # null PROVE _requests[bev'[d].cbarg].bev = d
    <3>1. CASE d = c
      BY <1>3, <2>3, <3>1
    <3>2. CASE d # c
      <4>1. bev'[d] = bev[d]
        BY <1>3, <3>2
      <4> QED
        BY <2>3, <4>1 DEF Inv, Linked
    <3> QED
      BY <3>1, <3>2
  <2> QED
    BY <1>2, <2>2, <2>3 DEF Linked
<1>8. \A d \in Conn : d # c => Local(d)'
  <2>1. extra \in Int /\ extra >= extra
    BY <1>1 DEF Types
  <2> QED
    BY <1>1, <1>2, <1>3, <2>1, Elsewhere DEF Inv
<1>9. Stream(c)' = <<>>
  <2>1. input[c] = <<>>
    BY <1>1, PrototypeAssumption DEF Control
  <2> QED
    BY <1>1, <1>2, <1>5, <2>1, StreamTyped DEF Stream
<1>10. Local(c)'
  <2>1. Named(c)' /\ Link(c)' /\ Reading(c)'
    BY <1>2, <1>3, <1>5, <1>9 DEF Named, Link, Reading
  <2>2. Answer(c)' /\ Sent(c)'
    BY <1>2, <1>3, <1>5 DEF Answer, Sent, In
  <2>3. Room(c)'
    <3>1. extra \in Nat
      BY <1>1 DEF Types
    <3> QED
      BY <1>2, <1>3, <1>5, <1>9, <3>1 DEF Room
  <2> QED
    BY <2>1, <2>2, <2>3 DEF Local
<1> QED
  BY <1>4, <1>6, <1>7, <1>8, <1>10 DEF Inv

(* What is read stays unhandled: Stream does not change.                   *)
LEMMA ReadInv ==
  ASSUME Inv, NEW c \in Conn, ReadEvent(c)
  PROVE  Inv'
<1>1. Types /\ Local(c) /\ Control /\ bev[c].enabled /\ running = "loop" /\ running' = c
  BY DEF Inv, ReadEvent, Loop
<1>2. /\ bev' = bev /\ output' = output /\ cur' = cur
      /\ _requests' = _requests /\ crashed' = crashed /\ toSrv' = toSrv /\ extra' = extra /\ begun' = begun
  BY DEF ReadEvent, server
<1>3. \A d \in Conn : input[d] = <<>>
  BY <1>1, PrototypeAssumption DEF Control
<1>4. /\ input' \in [Conn -> Seq(Record)] /\ toApp' \in [Conn -> Seq(Record)]
      /\ Len(input'[c]) <= NetCap /\ Len(toApp'[c]) <= NetCap
      /\ \A d \in Conn : d # c => toApp'[d] = toApp[d] /\ input'[d] = input[d]
      /\ Stream(c)' = Stream(c)
  BY <1>1, <1>3, StreamRead
<1>5. Types'
  <2>1. \A d \in Conn : Len(input'[d]) <= NetCap /\ Len(toApp'[d]) <= NetCap /\ Len(toSrv'[d]) <= NetCap
    BY <1>1, <1>2, <1>4 DEF Types
  <2> QED
    BY <1>1, <1>2, <1>4, <2>1 DEF Types
<1>6. Control'
  BY <1>1, <1>2, <1>3, <1>4 DEF Control
<1>7. Apart' /\ Linked'
  BY <1>2 DEF Inv, Apart, Linked
<1>8. \A d \in Conn : d # c => Local(d)'
  <2>1. extra \in Int /\ extra >= extra
    BY <1>1 DEF Types
  <2> QED
    BY <1>1, <1>2, <1>4, <2>1, Elsewhere DEF Inv
<1>9. Named(c)' /\ Link(c)' /\ Sent(c)'
  BY <1>1, <1>2 DEF Local, Named, Link, Sent
<1>10. Reading(c)' /\ Answer(c)' /\ Room(c)'
  BY <1>1, <1>2, <1>4 DEF Local, Reading, Answer, Room
<1> QED
  BY <1>5, <1>6, <1>7, <1>8, <1>9, <1>10 DEF Inv, Local


-----------------------------------------------------------------------------
(* A request is put back, or its connection is closed.                     *)

(* What request_put and bev_close, in whichever callback, leave of c.      *)
Cut(c) ==
  /\ bev' \in [Conn -> Bufferevent] /\ ~ bev'[c].enabled /\ bev'[c].cbarg = null
  /\ bev'[c].fd \in {"open", "closed"}
  /\ \A d \in Conn : d # c => bev'[d] = bev[d]
  /\ _requests' \in [Id -> Request] /\ \A i \in Id : _requests'[i].terminate = _requests[i].terminate
  /\ crashed' = crashed /\ Linked'

(* A request put back: it and its bufferevent let go of each other.        *)
LEMMA PutCuts ==
  ASSUME Types, Linked, NEW c \in Conn, bev[c].fd = "open", NEW i \in Id, _requests[i].bev = c,
         NEW b \in {bev_disable(bev, c), bev_close(bev, c)}, request_put(b, i)
  PROVE  Cut(c) /\ bev'[c].fd = b[c].fd
<1>1. c # null /\ bev[c] \in Bufferevent
  BY PrototypeAssumption DEF Types
<1>2. /\ b \in [Conn -> Bufferevent] /\ ~ b[c].enabled /\ b[c].fd \in {"open", "closed"}
      /\ \A d \in Conn : d # c => b[d] = bev[d]
  <2>1. CASE b = bev_disable(bev, c)
    BY <1>1, <2>1 DEF bev_disable, Types, Bufferevent
  <2>2. CASE b = bev_close(bev, c)
    BY <1>1, <2>2 DEF bev_close, Types, Bufferevent
  <2> QED
    BY <2>1, <2>2
<1>3. /\ bev' = [b EXCEPT ![c].cbarg = null] /\ _requests' = [_requests EXCEPT ![i].bev = null]
      /\ crashed' = crashed
  BY <1>1 DEF request_put
<1>4. /\ bev' \in [Conn -> Bufferevent] /\ ~ bev'[c].enabled /\ bev'[c].cbarg = null
      /\ bev'[c].fd = b[c].fd /\ \A d \in Conn : d # c => bev'[d] = bev[d]
  BY <1>2, <1>3 DEF Bufferevent
<1>5. /\ _requests' \in [Id -> Request] /\ _requests'[i].bev = null
      /\ \A j \in Id : j # i => _requests'[j] = _requests[j]
      /\ \A j \in Id : _requests'[j].terminate = _requests[j].terminate
  BY <1>3 DEF Types, Request
<1>6. bev[c].cbarg = i
  BY <1>1 DEF Linked
<1>7. ASSUME NEW j \in Id, _requests'[j].bev # null
      PROVE  LET d == bev'[_requests'[j].bev] IN d.cbarg = j /\ d.enabled /\ d.fd = "open"
  <2>1. j # i /\ _requests'[j].bev = _requests[j].bev /\ _requests[j].bev \in Conn
    BY <1>5, <1>7 DEF Types, Request
  <2>2. _requests[j].bev # c
    BY <1>1, <1>6, <2>1 DEF Linked
  <2> QED
    BY <1>4, <1>7, <2>1, <2>2 DEF Linked
<1>8. ASSUME NEW d \in Conn, bev'[d].cbarg # null PROVE _requests'[bev'[d].cbarg].bev = d
  <2>1. d # c /\ bev'[d] = bev[d] /\ bev[d].cbarg \in Id
    BY <1>4, <1>8 DEF Bufferevent
  <2>2. _requests[bev[d].cbarg].bev = d
    BY <1>8, <2>1 DEF Linked
  <2> QED
    BY <1>5, <2>1, <2>2
<1>9. Linked'
  BY <1>7, <1>8 DEF Linked
<1> QED
  BY <1>2, <1>3, <1>4, <1>5, <1>9 DEF Cut

(* A connection closed while nothing is linked to it.                      *)
LEMMA CloseCuts ==
  ASSUME Types, Linked, NEW c \in Conn, bev[c].cbarg = null, bev' = bev_close(bev, c),
         _requests' = _requests, crashed' = crashed
  PROVE  Cut(c) /\ bev'[c].fd = "closed"
<1>1. /\ bev' \in [Conn -> Bufferevent] /\ ~ bev'[c].enabled /\ bev'[c].cbarg = null
      /\ bev'[c].fd = "closed" /\ \A d \in Conn : d # c => bev'[d] = bev[d]
  BY DEF bev_close, Types, Bufferevent
<1>2. \A i \in Id : _requests[i].bev # c
  BY PrototypeAssumption DEF Linked
<1>3. ASSUME NEW j \in Id, _requests[j].bev # null
      PROVE  LET d == bev'[_requests[j].bev] IN d.cbarg = j /\ d.enabled /\ d.fd = "open"
  <2>1. _requests[j].bev \in Conn /\ _requests[j].bev # c
    BY <1>2, <1>3 DEF Types, Request
  <2> QED
    BY <1>1, <1>3, <2>1 DEF Linked
<1>4. ASSUME NEW d \in Conn, bev'[d].cbarg # null PROVE _requests[bev'[d].cbarg].bev = d
  <2>1. bev'[d] = bev[d]
    BY <1>1, <1>4
  <2> QED
    BY <1>4, <2>1 DEF Linked
<1>5. Linked'
  BY <1>3, <1>4 DEF Linked
<1> QED
  BY <1>1, <1>5 DEF Types, Cut

(* A connection that is cut keeps the invariant when what was sent on it   *)
(* still settles its request.                                              *)
LEMMA CutInv ==
  ASSUME Inv, NEW c \in Conn, bev[c].enabled, Cut(c), running \in {c, "loop"}, running' = "loop",
         input' \in [Conn -> Seq(Record)], input'[c] = <<>>, output' \in [Conn -> Seq(Output)],
         Len(output'[c]) <= 4 + extra, toSrv' \in [Conn -> Seq(Output)], Len(toSrv'[c]) <= NetCap,
         \A d \in Conn : d # c => /\ input'[d] = input[d] /\ output'[d] = output[d]
                                  /\ toSrv'[d] = toSrv[d],
         toApp' = toApp, cur' = cur, begun' = begun, extra' = extra, Sent(c)'
  PROVE  Inv'
<1>1. Types /\ Local(c) /\ Control /\ Apart
  BY DEF Inv
<1>2. Types'
  <2>1. \A d \in Conn : Len(input'[d]) <= NetCap /\ Len(toApp'[d]) <= NetCap /\ Len(toSrv'[d]) <= NetCap
    <3>1. Len(input'[c]) = 0 /\ NetCap \in Nat
      BY PrototypeAssumption
    <3>2. \A d \in Conn : d = c \/ (input'[d] = input[d] /\ toSrv'[d] = toSrv[d])
      OBVIOUS
    <3>3. Len(input'[c]) <= NetCap
      BY <3>1
    <3> QED
      BY <1>1, <3>2, <3>3 DEF Types
  <2> QED
    BY <1>1, <2>1 DEF Types, Cut
<1>3. Control'
  BY <1>1, PrototypeAssumption DEF Control
<1>4. Apart' /\ Linked'
  BY <1>1 DEF Apart, Cut
<1>5. \A d \in Conn : d # c => Local(d)'
  <2>1. extra \in Int /\ extra >= extra
    BY <1>1 DEF Types
  <2> QED
    BY <1>1, <2>1, Elsewhere DEF Inv, Cut
<1>6. Named(c)' /\ Link(c)'
  BY <1>1 DEF Local, Named, Link, Cut
<1>7. Reading(c)' /\ Answer(c)' /\ Room(c)'
  BY DEF Reading, Answer, Room, Cut
<1> QED
  BY <1>2, <1>3, <1>4, <1>5, <1>6, <1>7 DEF Inv, Local

(* After an error the connection is closed: whatever is asked has failed.  *)
LEMMA ErrorInv ==
  ASSUME Inv, NEW c \in Conn, fcgiproto_errorcb(c)
  PROVE  Inv'
<1>1. /\ Types /\ Linked /\ Local(c) /\ Control /\ bev[c].enabled /\ running = "loop" /\ running' = "loop"
      /\ bev[c].fd = "open"
  BY DEF Inv, fcgiproto_errorcb, Loop, Local, Link
<1>2. /\ input' = input /\ output' = output /\ toApp' = toApp /\ toSrv' = toSrv
      /\ cur' = cur /\ begun' = begun /\ extra' = extra
  BY DEF fcgiproto_errorcb, buffers, server
<1>3. Cut(c) /\ bev'[c].fd = "closed"
  <2>1. CASE bev[c].cbarg = null
    BY <1>1, <2>1, CloseCuts DEF fcgiproto_errorcb
  <2>2. CASE bev[c].cbarg # null
    <3>1. PICK i : i = bev[c].cbarg
      OBVIOUS
    <3>2. i \in Id /\ _requests[i].bev = c
      BY <1>1, <2>2, <3>1 DEF Types, Bufferevent, Linked
    <3>3. request_put(bev_close(bev, c), i)
      BY <2>2, <3>1 DEF fcgiproto_errorcb
    <3>4. bev_close(bev, c)[c].fd = "closed"
      BY <1>1 DEF bev_close, Types, Bufferevent
    <3> QED
      BY <1>1, <3>2, <3>3, <3>4, PutCuts
  <2> QED
    BY <2>1, <2>2
<1>4. Sent(c)'
  BY <1>1, <1>2, <1>3 DEF Local, Sent
<1>5. input[c] = <<>> /\ Len(output[c]) <= 4 + extra
  BY <1>1, PrototypeAssumption DEF Control, Local, Room
<1> QED
  BY <1>1, <1>2, <1>3, <1>4, <1>5, CutInv DEF Types

-----------------------------------------------------------------------------
(* What libevent sends.                                                    *)

(* The places of a concatenation, and what is in it.                       *)
LEMMA ConcatIn ==
  ASSUME NEW S, NEW s \in Seq(S), NEW t \in Seq(S)
  PROVE  /\ s \o t \in Seq(S) /\ Len(s \o t) = Len(s) + Len(t)
         /\ Len(s) \in Nat /\ Len(t) \in Nat
         /\ DOMAIN s = 1 .. Len(s) /\ DOMAIN t = 1 .. Len(t)
         /\ DOMAIN (s \o t) = 1 .. (Len(s) + Len(t))
         /\ \A a \in DOMAIN s : (s \o t)[a] = s[a]
         /\ \A a \in DOMAIN t : (s \o t)[Len(s) + a] = t[a]
         /\ \A a \in DOMAIN (s \o t) : a \in DOMAIN s \/ a - Len(s) \in DOMAIN t
         /\ \A type : In(s \o t, type) <=> In(s, type) \/ In(t, type)
<1>1. /\ s \o t \in Seq(S) /\ Len(s \o t) = Len(s) + Len(t)
      /\ \A a \in 1 .. Len(s) + Len(t) : (s \o t)[a] = IF a <= Len(s) THEN s[a] ELSE t[a - Len(s)]
  BY ConcatProperties
<1>2. Len(s) \in Nat /\ Len(t) \in Nat /\ DOMAIN s = 1 .. Len(s) /\ DOMAIN t = 1 .. Len(t)
  OBVIOUS
<1>3. DOMAIN (s \o t) = 1 .. (Len(s) + Len(t))
  <2>1. \A x \in Seq(S) : DOMAIN x = 1 .. Len(x)
    OBVIOUS
  <2> QED
    BY <1>1, <2>1
<1>4. \A a \in DOMAIN s : (s \o t)[a] = s[a]
  BY <1>1, <1>2
<1>5. \A a \in DOMAIN t : (s \o t)[Len(s) + a] = t[a]
  <2> SUFFICES ASSUME NEW a \in DOMAIN t PROVE (s \o t)[Len(s) + a] = t[a]
    OBVIOUS
  <2>1. Len(s) + a \in 1 .. Len(s) + Len(t) /\ ~ (Len(s) + a <= Len(s)) /\ (Len(s) + a) - Len(s) = a
    BY <1>2
  <2> QED
    BY <1>1, <2>1
<1>6. \A a \in DOMAIN (s \o t) : a \in DOMAIN s \/ a - Len(s) \in DOMAIN t
  BY <1>2, <1>3
<1>7. ASSUME NEW type PROVE In(s \o t, type) <=> In(s, type) \/ In(t, type)
  <2>1. ASSUME NEW a \in DOMAIN (s \o t), (s \o t)[a].type = type PROVE In(s, type) \/ In(t, type)
    <3>1. CASE a \in DOMAIN s
      BY <1>4, <2>1, <3>1 DEF In
    <3>2. CASE a - Len(s) \in DOMAIN t
      <4>1. Len(s) + (a - Len(s)) = a
        BY <1>2, <1>3
      <4> QED
        BY <1>5, <2>1, <3>2, <4>1 DEF In
    <3> QED
      BY <1>6, <3>1, <3>2
  <2>2. In(s, type) => In(s \o t, type)
    <3>1. \A a \in DOMAIN s : a \in DOMAIN (s \o t)
      BY <1>2, <1>3
    <3> QED
      BY <1>4, <3>1 DEF In
  <2>3. In(t, type) => In(s \o t, type)
    <3>1. \A a \in DOMAIN t : Len(s) + a \in DOMAIN (s \o t)
      BY <1>2, <1>3
    <3> QED
      BY <1>5, <3>1 DEF In
  <2> QED
    BY <2>1, <2>2, <2>3 DEF In
<1> QED
  BY <1>1, <1>2, <1>3, <1>4, <1>5, <1>6, <1>7

(* Records of the output that are no END_REQUEST are sent, and v is left.  *)
LEMMA PartInv ==
  ASSUME Inv, NEW c \in Conn, bev[c].enabled, bev[c].cbarg # null,
         NEW u \in Seq(Output), NEW v \in Seq(Output),
         toSrv' = [toSrv EXCEPT ![c] = @ \o u], output' = [output EXCEPT ![c] = v],
         Len(toSrv[c]) + Len(u) <= NetCap, ~ In(u, "END"),
         In(v, "END") <=> In(output[c], "END"), Len(v) <= Len(output[c]),
         \A a \in DOMAIN v : v[a].type = "END" => a = Len(v) /\ v[a].id = cur[c].id,
         UNCHANGED <<_requests, bev, input, crashed, running, toApp, server>>
  PROVE  Inv'
<1>1. Types /\ Local(c)
  BY DEF Inv
<1>2. cur' = cur /\ begun' = begun /\ extra' = extra
  BY DEF server
<1>3. PICK x \in Seq(Output) : x = toSrv[c]
  BY <1>1 DEF Types
<1>4. x \o u \in Seq(Output) /\ Len(x \o u) <= NetCap /\ (In(x \o u, "END") <=> In(x, "END"))
  BY <1>3, ConcatIn
<1>5. /\ toSrv' \in [Conn -> Seq(Output)] /\ toSrv'[c] = x \o u
      /\ output' \in [Conn -> Seq(Output)] /\ output'[c] = v
      /\ \A d \in Conn : d # c => toSrv'[d] = toSrv[d] /\ output'[d] = output[d]
  BY <1>1, <1>3, <1>4 DEF Types
<1>6. Types'
  <2>1. \A d \in Conn : Len(input'[d]) <= NetCap /\ Len(toApp'[d]) <= NetCap /\ Len(toSrv'[d]) <= NetCap
    BY <1>1, <1>4, <1>5 DEF Types
  <2> QED
    BY <1>1, <1>2, <1>5, <2>1 DEF Types
<1>7. Control' /\ Apart' /\ Linked'
  BY <1>2 DEF Inv, Control, Apart, Linked
<1>8. \A d \in Conn : d # c => Local(d)'
  <2>1. extra \in Int /\ extra >= extra
    BY <1>1 DEF Types
  <2> QED
    BY <1>1, <1>2, <1>5, <2>1, Elsewhere DEF Inv
<1>9. Stream(c)' = Stream(c) /\ Named(c)'
  BY <1>1, <1>2 DEF Stream, Local, Named
<1>10. Link(c)' /\ Reading(c)'
  BY <1>1, <1>2, <1>9 DEF Local, Link, Reading
<1>11. ~ In(toSrv[c], "END") /\ ~ In(toSrv'[c], "END")
  BY <1>1, <1>3, <1>4, <1>5 DEF Local, Answer
<1>12. Answer(c)'
  BY <1>1, <1>2, <1>5, <1>9, <1>11 DEF Local, Answer
<1>13. Sent(c)'
  BY <1>11 DEF Sent, In
<1>14. Room(c)'
  <2>1. PICK m \in Nat, n \in Nat : m = Len(output[c]) /\ n = Len(v) /\ n <= m
    <3>1. PICK y \in Seq(Output) : y = output[c]
      BY <1>1 DEF Types
    <3>2. Len(y) \in Nat /\ Len(v) \in Nat /\ Len(v) <= Len(y)
      BY <3>1
    <3> QED
      BY <3>1, <3>2
  <2>2. PICK head \in {0, 1} : head = IF bev[c].cbarg = null THEN 1 ELSE 0
    OBVIOUS
  <2>3. PICK l \in Nat : l = Len(Stream(c))
    BY <1>1, StreamTyped
  <2>4. extra \in Nat /\ \A a \in DOMAIN Stream(c) : a \in Nat
    <3>1. extra \in Nat
      BY <1>1 DEF Types
    <3>2. DOMAIN Stream(c) = 1 .. Len(Stream(c))
      BY <1>1, StreamTyped
    <3> QED
      BY <2>3, <3>1, <3>2
  <2>5. m <= 4 + extra => n <= 4 + extra
    BY <2>1, <2>4
  <2>6. \A a \in Nat : m + a - head <= extra => n + a - head <= extra
    BY <2>1, <2>2, <2>4
  <2>7. m <= extra => n <= extra
    BY <2>1, <2>4
  <2> QED
    BY <1>1, <1>2, <1>5, <1>9, <2>1, <2>2, <2>3, <2>4, <2>5, <2>6, <2>7 DEF Local, Room
<1> QED
  BY <1>6, <1>7, <1>8, <1>9, <1>10, <1>12, <1>13, <1>14 DEF Inv, Local

(* libevent sends a part, or all of an output without END_REQUEST, or the  *)
(* end of an answer: then the request is put back.                         *)
LEMMA WriteInv ==
  ASSUME Inv, NEW c \in Conn, WriteEvent(c)
  PROVE  Inv'
<1>1. /\ Types /\ Linked /\ Local(c) /\ Control /\ bev[c].enabled /\ running = "loop"
      /\ bev[c].fd = "open"
  BY DEF Inv, WriteEvent, Loop, Local, Link
<1>2. running' = running /\ toApp' = toApp /\ cur' = cur /\ begun' = begun /\ extra' = extra
  BY DEF WriteEvent, server
<1>3. PICK k \in 1 .. Len(output[c]) :
        /\ Len(toSrv[c]) + k <= NetCap
        /\ toSrv' = [toSrv EXCEPT ![c] = @ \o SubSeq(output[c], 1, k)]
        /\ IF k < Len(output[c])
             THEN /\ output' = [output EXCEPT ![c] = SubSeq(@, k + 1, Len(@))]
                  /\ UNCHANGED <<_requests, bev, input, crashed>>
             ELSE fcgiproto_writecb(c)
  BY DEF WriteEvent
<1>4. PICK y \in Seq(Output) : y = output[c]
  BY <1>1 DEF Types
<1>5. PICK x \in Seq(Output) : x = toSrv[c]
  BY <1>1 DEF Types
<1>6. PICK n \in Nat : n = Len(y) /\ k \in Nat /\ 1 <= k /\ k <= n
  <2>1. Len(y) \in Nat /\ k \in 1 .. Len(y)
    BY <1>3, <1>4
  <2>2. PICK n \in Nat : n = Len(y)
    BY <2>1
  <2>3. k \in 1 .. n
    BY <2>1, <2>2
  <2>4. k \in Nat /\ 1 <= k /\ k <= n
    BY <2>3
  <2> QED
    BY <2>2, <2>4, Zenon
<1>7. k \in 1 .. Len(y) /\ Len(y) \in Nat /\ k \in Nat /\ DOMAIN y = 1 .. Len(y) /\ y # <<>>
  BY <1>3, <1>4, <1>6
<1>8. bev[c].cbarg # null /\ bev[c].cbarg \in Id /\ bev[c].cbarg = cur[c].id
  <2>1. bev[c].cbarg # null
    BY <1>1, <1>4, <1>7 DEF Local, Reading
  <2> QED
    BY <1>1, <2>1 DEF Local, Link, Types, Bufferevent
<1>9. \A a \in DOMAIN y : y[a].type = "END" => a = Len(y) /\ y[a].id = cur[c].id
  BY <1>1, <1>4 DEF Local, Answer
<1>10. PICK u, v : u = SubSeq(y, 1, k) /\ v = SubSeq(y, k + 1, Len(y))
  OBVIOUS
<1>11. /\ u \o v = y /\ u \in Seq(Output) /\ Len(u) = k /\ \A a \in 1 .. k : u[a] = y[a]
       /\ v \in Seq(Output) /\ Len(v) = Len(y) - k
       /\ \A a \in 1 .. (Len(y) - k) : v[a] = y[a + k]
  BY <1>7, <1>10, ConcatSlices
<1>12. DOMAIN u = 1 .. k /\ DOMAIN v = 1 .. (Len(y) - k)
  BY <1>7, <1>11
<1>13. toSrv' = [toSrv EXCEPT ![c] = @ \o u] /\ Len(toSrv[c]) + Len(u) <= NetCap
  BY <1>3, <1>4, <1>10, <1>11
<1>14. CASE k < Len(y)
  <2>1. output' = [output EXCEPT ![c] = v] /\ UNCHANGED <<_requests, bev, input, crashed>>
    BY <1>1, <1>3, <1>4, <1>10, <1>14 DEF Types
  <2>2. ~ In(u, "END")
    <3>1. ASSUME NEW a \in 1 .. k PROVE u[a].type # "END"
      <4>1. a \in 1 .. n /\ a # n
        BY <1>14, <1>6, <3>1
      <4>2. a \in DOMAIN y /\ a # Len(y) /\ u[a] = y[a]
        BY <1>7, <1>11, <1>6, <3>1, <4>1
      <4> QED
        BY <1>9, <4>2
    <3> QED
      BY <1>12, <3>1 DEF In
  <2>3. In(v, "END") <=> In(y, "END")
    <3>1. In(y, "END") <=> In(u, "END") \/ In(v, "END")
      BY <1>11, ConcatIn
    <3> QED
      BY <2>2, <3>1
  <2>4. Len(v) <= Len(y)
    BY <1>7, <1>11
  <2>5. ASSUME NEW a \in DOMAIN v, v[a].type = "END" PROVE a = Len(v) /\ v[a].id = cur[c].id
    <3>1. a + k \in DOMAIN y /\ v[a] = y[a + k] /\ a \in Nat
      <4>1. a \in 1 .. (n - k)
        BY <1>12, <1>6, <2>5
      <4>2. a \in Nat /\ a + k \in 1 .. n
        BY <1>6, <4>1
      <4> QED
        BY <1>7, <1>11, <1>6, <4>1, <4>2
    <3>2. a + k = Len(y) /\ y[a + k].id = cur[c].id
      BY <1>9, <2>5, <3>1
    <3>3. a = n - k
      BY <1>6, <3>1, <3>2
    <3> QED
      BY <1>11, <1>6, <3>2, <3>3
  <2>6. UNCHANGED <<_requests, bev, input, crashed, running, toApp, server>>
    BY <1>2, <2>1 DEF server
  <2>7. u \in Seq(Output) /\ v \in Seq(Output)
    BY <1>11
  <2> HIDE DEF server
  <2> QED
    BY <1>1, <1>4, <1>8, <1>13, <2>1, <2>2, <2>3, <2>4, <2>5, <2>6, <2>7, PartInv
<1>15. CASE ~ (k < Len(y))
  <2>1. u = y /\ k = Len(y)
    <3>1. k = Len(y)
      BY <1>15, <1>6
    <3>2. SubSeq(y, 1, Len(y)) = y
      BY SubSeqFull
    <3> QED
      BY <1>10, <3>1, <3>2
  <2>2. fcgiproto_writecb(c)
    BY <1>3, <1>4, <1>15
  <2>3. output' = [output EXCEPT ![c] = <<>>]
    BY <2>2 DEF fcgiproto_writecb, bev_drain
  <2>4. PICK i \in Id : i = bev[c].cbarg
    BY <1>8
  <2>5. _requests[i].bev = c /\ (Terminated(c) <=> _requests[i].terminate)
    BY <1>1, <1>8, <2>4 DEF Linked, Terminated
  <2>6. _requests[i].terminate <=> In(y, "END")
    BY <1>1, <1>4, <1>8, <2>4 DEF Local, Answer
  <2>7. CASE ~ Terminated(c)
    <3>1. UNCHANGED <<_requests, bev, input, crashed>>
      BY <2>2, <2>7 DEF fcgiproto_writecb
    <3>2. ~ In(u, "END") /\ ~ In(output[c], "END")
      BY <1>4, <2>1, <2>5, <2>6, <2>7
    <3>3. PICK e \in Seq(Output) : e = <<>> /\ Len(e) = 0
      BY EmptySeq
    <3>4. ~ In(e, "END") /\ Len(e) <= Len(output[c]) /\ DOMAIN e = {}
      BY <1>4, <1>7, <3>3 DEF In
    <3> QED
      BY <1>1, <1>2, <1>8, <1>11, <1>13, <2>3, <3>1, <3>2, <3>3, <3>4, PartInv DEF server
  <2>8. CASE Terminated(c)
    <3>1. /\ input' = [input EXCEPT ![c] = <<>>]
          /\ request_put(IF _requests[i].keepconn THEN bev_disable(bev, c) ELSE bev_close(bev, c), i)
      BY <2>2, <2>4, <2>5, <2>8 DEF fcgiproto_writecb, bev_drain
    <3>2. Cut(c)
      BY <1>1, <2>5, <3>1, PutCuts
    <3>3. PICK z : z = x \o y
      OBVIOUS
    <3>4. /\ z \in Seq(Output) /\ Len(z) = Len(x) + Len(y) /\ Len(x) \in Nat /\ DOMAIN y = 1 .. Len(y)
          /\ \A a \in DOMAIN x : z[a] = x[a]
          /\ \A a \in DOMAIN y : z[Len(x) + a] = y[a]
          /\ \A a \in DOMAIN z : a \in DOMAIN x \/ a - Len(x) \in DOMAIN y
          /\ DOMAIN z = 1 .. (Len(x) + Len(y))
          /\ \A type : In(z, type) <=> In(x, type) \/ In(y, type)
      BY <3>3, ConcatIn
    <3>5. /\ toSrv' \in [Conn -> Seq(Output)] /\ toSrv'[c] = z
          /\ \A d \in Conn : d # c => toSrv'[d] = toSrv[d]
      BY <1>1, <1>5, <1>13, <2>1, <3>3, <3>4 DEF Types
    <3>6. Len(toSrv'[c]) <= NetCap
      BY <1>5, <1>11, <1>13, <2>1, <3>4, <3>5
    <3>7. /\ output' \in [Conn -> Seq(Output)] /\ output'[c] = <<>> /\ Len(output'[c]) = 0
          /\ input' \in [Conn -> Seq(Record)] /\ input'[c] = <<>>
          /\ \A d \in Conn : d # c => output'[d] = output[d] /\ input'[d] = input[d]
      BY <1>1, <2>3, <3>1 DEF Types
    <3>8. Len(output'[c]) <= 4 + extra
      <4>1. extra \in Nat
        BY <1>1 DEF Types
      <4> QED
        BY <3>7, <4>1
    <3>9. ~ In(x, "END")
      BY <1>1, <1>5 DEF Local, Answer
    <3>10. ASSUME NEW a \in DOMAIN z, z[a].type = "END"
           PROVE  a = Len(z) /\ z[a].id = cur[c].id
      <4>1. a \notin DOMAIN x
        BY <3>4, <3>9, <3>10 DEF In
      <4>2. a - Len(x) \in DOMAIN y /\ Len(x) + (a - Len(x)) = a /\ a \in Nat
        BY <3>4, <3>10, <4>1
      <4>3. z[a] = y[a - Len(x)]
        BY <3>4, <4>2
      <4>4. a - Len(x) = Len(y) /\ z[a].id = cur[c].id
        BY <1>9, <3>10, <4>2, <4>3
      <4> QED
        BY <1>7, <3>4, <4>2, <4>4
    <3>11. In(toSrv'[c], "END")
      BY <2>5, <2>6, <2>8, <3>4, <3>5
    <3>12. Sent(c)'
      BY <1>2, <1>8, <3>5, <3>10, <3>11 DEF Sent
    <3> QED
      BY <1>1, <1>2, <3>2, <3>5, <3>6, <3>7, <3>8, <3>12, CutInv
  <2> QED
    BY <2>7, <2>8
<1> QED
  BY <1>14, <1>15

-----------------------------------------------------------------------------
(* The handlers.                                                           *)

(* What the first record of the input says of its connection: it begins a  *)
(* request that is not in the table, or is of the one that is linked.      *)
LEMMA Heads ==
  ASSUME Inv, NEW c \in Conn, running = c, input[c] # <<>>
  PROVE  LET r == Head(input[c])
         IN  /\ r \in Record /\ bev[c].enabled /\ bev[c].fd = "open"
             /\ Stream(c)[1] = r /\ 1 \in DOMAIN Stream(c) /\ r.id = cur[c].id
             /\ r.type \in First <=> bev[c].cbarg = null
             /\ bev[c].cbarg # null =>
                  r.id \in Id /\ r.id # null /\ bev[c].cbarg = r.id /\ _requests[r.id].bev = c
             /\ r.type = "BEGIN" => r.id \in Id /\ r.id # null /\ _requests[r.id].bev = null
             /\ r.type = "ABORT" => cur[c].phase = "aborted"
             /\ r.type = "PARAMS_END" => cur[c].phase # "params"
<1>1. Types /\ Local(c) /\ Linked /\ Control /\ Apart
  BY DEF Inv
<1>2. bev[c].enabled /\ bev[c].fd = "open"
  BY <1>1, PrototypeAssumption DEF Control, Local, Link
<1>3. PICK r \in Record : r = Head(input[c])
  <2>1. PICK x \in Seq(Record) : x = input[c]
    BY <1>1 DEF Types
  <2> QED
    BY <2>1
<1>4. Stream(c)[1] = r /\ 1 \in DOMAIN Stream(c)
  <2>1. PICK x \in Seq(Record), y \in Seq(Record) : x = input[c] /\ y = toApp[c] /\ x # <<>>
    BY <1>1 DEF Types
  <2>2. (x \o y)[1] = Head(x) /\ Len(x \o y) = Len(x) + Len(y) /\ Len(x) \in Nat /\ Len(x) > 0
    <3>1. \A s, t \in Seq(Record) :
            s # <<>> => /\ (s \o t)[1] = Head(s) /\ Len(s \o t) = Len(s) + Len(t)
                        /\ Len(s) \in Nat /\ Len(s) > 0
      BY ConcatTail
    <3> QED
      BY <2>1, <3>1
  <2>3. Len(y) \in Nat /\ x \o y \in Seq(Record)
    BY <2>1, ConcatProperties
  <2>4. 1 \in DOMAIN (x \o y)
    BY <2>2, <2>3
  <2> QED
    BY <1>3, <2>1, <2>2, <2>4 DEF Stream
<1>5. /\ r.id = cur[c].id /\ (r.type \in First <=> bev[c].cbarg = null)
      /\ r.type = "ABORT" => cur[c].phase = "aborted"
      /\ r.type = "PARAMS_END" => cur[c].phase # "params"
  BY <1>1, <1>2, <1>4 DEF Local, Reading
<1>6. bev[c].cbarg # null =>
        r.id \in Id /\ r.id # null /\ bev[c].cbarg = r.id /\ _requests[r.id].bev = c
  <2>1. bev[c] \in Bufferevent
    BY <1>1 DEF Types
  <2>2. bev[c].cbarg # null => bev[c].cbarg = cur[c].id /\ bev[c].cbarg \in Id
    BY <1>1, <2>1 DEF Local, Link, Bufferevent
  <2> QED
    BY <1>1, <1>5, <2>2 DEF Linked
<1>7. ASSUME r.type = "BEGIN" PROVE r.id \in Id /\ r.id # null /\ _requests[r.id].bev = null
  <2>1. r.id \in Id /\ r.id # null
    BY <1>7, PrototypeAssumption DEF Record, Middle
  <2>2. ASSUME _requests[r.id].bev # null PROVE FALSE
    <3>1. PICK d \in Conn : d = _requests[r.id].bev
      BY <1>1, <2>1, <2>2 DEF Types, Request
    <3>2. bev[d].cbarg = r.id
      BY <1>1, <2>1, <2>2, <3>1 DEF Linked
    <3>3. cur[d].id = r.id
      BY <2>1, <3>2 DEF Inv, Local, Link
    <3>4. d = c
      BY <1>1, <1>5, <2>1, <3>3 DEF Apart
    <3> QED
      BY <1>5, <1>7, <2>1, <3>2, <3>4 DEF First
  <2> QED
    BY <2>1, <2>2
<1> QED
  BY <1>2, <1>3, <1>4, <1>5, <1>6, <1>7

(* What is left when the first record is taken.                            *)
LEMMA StreamIn ==
  ASSUME Types, NEW c \in Conn, input[c] # <<>>, Drained(c), toApp' = toApp
  PROVE  /\ \A type : In(Stream(c)', type) => In(Stream(c), type)
         /\ \A type : In(Stream(c), type) /\ Head(input[c]).type # type => In(Stream(c)', type)
         /\ \A a \in DOMAIN Stream(c)' :
              /\ a \in Nat /\ a + 1 \in DOMAIN Stream(c) /\ a + 1 > 1
              /\ Stream(c)'[a] = Stream(c)[a + 1]
<1>1. PICK n \in Nat : n = Len(Stream(c))
  BY StreamTyped
<1>2. /\ n > 0 /\ DOMAIN Stream(c)' = 1 .. (n - 1) /\ DOMAIN Stream(c) = 1 .. n
      /\ Stream(c)[1] = Head(input[c])
      /\ \A a \in DOMAIN Stream(c)' : Stream(c)'[a] = Stream(c)[a + 1]
  BY <1>1, StreamTail, StreamTyped
<1>3. \A a \in DOMAIN Stream(c)' : a \in Nat /\ a + 1 \in DOMAIN Stream(c) /\ a + 1 > 1
  BY <1>1, <1>2
<1>4. \A type : In(Stream(c)', type) => In(Stream(c), type)
  BY <1>2, <1>3 DEF In
<1>5. ASSUME NEW type, NEW a \in DOMAIN Stream(c), Stream(c)[a].type = type,
             Head(input[c]).type # type
      PROVE  In(Stream(c)', type)
  <2>1. a # 1
    BY <1>2, <1>5
  <2>2. a - 1 \in DOMAIN Stream(c)' /\ (a - 1) + 1 = a
    BY <1>1, <1>2, <1>5, <2>1
  <2> QED
    BY <1>2, <1>5, <2>2 DEF In
<1> QED
  BY <1>2, <1>3, <1>4, <1>5 DEF In

(* Room when a record of the stream is handled.                            *)
LEMMA RoomShift ==
  ASSUME NEW m \in Nat, NEW a \in Nat, NEW e \in Nat, NEW head \in {0, 1}, NEW grown \in {0, 1},
         grown = 1 => head = 0, m + (a + 1) - head <= e
  PROVE  (m + grown) + a <= e
OBVIOUS

(* A record handled, on a connection that stays in use, with an answer or  *)
(* a record UNKNOWN_TYPE or nothing added to the output.                   *)
LEMMA HandledInv ==
  ASSUME Inv, NEW c \in Conn, running = c, input[c] # <<>>, Drained(c),
         running' = IF input'[c] = <<>> THEN "loop" ELSE c,
         bev' \in [Conn -> Bufferevent], bev'[c].enabled, bev'[c].fd = "open",
         bev'[c].cbarg = Head(input[c]).id, Head(input[c]).id # null,
         \A d \in Conn : d # c => bev'[d] = bev[d] /\ output'[d] = output[d],
         _requests' \in [Id -> Request],
         \A i \in Id : i # cur[c].id => _requests'[i].terminate = _requests[i].terminate,
         output' \in [Conn -> Seq(Output)], crashed' = crashed,
         UNCHANGED <<toApp, toSrv, server>>, Linked', Answer(c)',
         NEW grown \in {0, 1},
         grown = 1 => bev[c].cbarg # null /\ Head(input[c]).type = "OTHER",
         \/ In(output'[c], "END") /\ Len(output'[c]) <= 4 + extra
         \/ /\ ~ In(output'[c], "END") /\ ~ In(output[c], "END")
            /\ Len(output'[c]) = Len(output[c]) + grown
  PROVE  Inv'
<1>1. Types /\ Control /\ Apart /\ Local(c)
  BY DEF Inv
<1>2. cur' = cur /\ begun' = begun /\ extra' = extra /\ toApp' = toApp /\ toSrv' = toSrv
  BY DEF server
<1>3. PICK r : r = Head(input[c])
  OBVIOUS
<1>4. /\ bev[c].enabled /\ bev[c].fd = "open" /\ Stream(c)[1] = r /\ 1 \in DOMAIN Stream(c)
      /\ r.id = cur[c].id /\ (r.type \in First <=> bev[c].cbarg = null)
  BY <1>3, Heads
<1>5. /\ input' \in [Conn -> Seq(Record)] /\ Len(input'[c]) <= NetCap
      /\ \A d \in Conn : d # c => input'[d] = input[d]
  BY <1>1, <1>2, StreamTail
<1>6. Types'
  <2>1. \A d \in Conn : Len(input'[d]) <= NetCap /\ Len(toApp'[d]) <= NetCap /\ Len(toSrv'[d]) <= NetCap
    BY <1>1, <1>2, <1>5 DEF Types
  <2> QED
    BY <1>1, <1>2, <1>5, <2>1 DEF Types
<1>7. Control' /\ Apart'
  BY <1>1, <1>2, <1>5 DEF Control, Apart
<1>8. \A d \in Conn : d # c => Local(d)'
  <2>1. extra \in Int /\ extra >= extra
    BY <1>1 DEF Types
  <2> QED
    BY <1>1, <1>2, <1>5, <2>1, Elsewhere DEF Inv
<1>9. /\ \A type : In(Stream(c)', type) => In(Stream(c), type)
      /\ \A a \in DOMAIN Stream(c)' :
           a \in Nat /\ a + 1 \in DOMAIN Stream(c) /\ a + 1 > 1 /\ Stream(c)'[a] = Stream(c)[a + 1]
  BY <1>1, <1>2, StreamIn
<1>10. Named(c)' /\ Link(c)' /\ Sent(c)'
  BY <1>1, <1>2, <1>3, <1>4 DEF Local, Named, Link, Sent
<1>11. Reading(c)'
  <2>1. ASSUME NEW a \in DOMAIN Stream(c)'
        PROVE  /\ Stream(c)'[a].type \notin First
               /\ Stream(c)'[a].id = cur[c].id
               /\ Stream(c)'[a].type = "ABORT" => cur[c].phase = "aborted"
               /\ Stream(c)'[a].type = "PARAMS_END" => cur[c].phase # "params"
    <3>1. a + 1 \in DOMAIN Stream(c) /\ a + 1 # 1 /\ Stream(c)'[a] = Stream(c)[a + 1]
      BY <1>9, <2>1
    <3> QED
      BY <1>1, <1>4, <3>1 DEF Local, Reading
  <2>2. ASSUME NEW a \in DOMAIN Stream(c)', NEW b \in DOMAIN Stream(c)', a < b,
               Stream(c)'[a].type = "PARAMS_END"
        PROVE  Stream(c)'[b].type \notin {"PARAMS_END", "OTHER"}
    <3>1. /\ a + 1 \in DOMAIN Stream(c) /\ Stream(c)'[a] = Stream(c)[a + 1]
          /\ b + 1 \in DOMAIN Stream(c) /\ Stream(c)'[b] = Stream(c)[b + 1]
          /\ a + 1 < b + 1
      BY <1>9, <2>2
    <3> QED
      BY <1>1, <1>4, <2>2, <3>1 DEF Local, Reading
  <2> QED
    BY <1>2, <1>3, <1>4, <2>1, <2>2 DEF Reading
<1>12. Room(c)'
  <2> SUFFICES ASSUME ~ In(output'[c], "END") PROVE Room(c)'
    BY <1>2 DEF Room
  <2>1. ~ In(output[c], "END") /\ Len(output'[c]) = Len(output[c]) + grown
    OBVIOUS
  <2>2. PICK m \in Nat, n \in Nat : m = Len(output[c]) /\ n = Len(Stream(c))
    <3>1. PICK y \in Seq(Output) : y = output[c]
      BY <1>1 DEF Types
    <3>2. Len(y) \in Nat /\ Len(Stream(c)) \in Nat
      BY <1>1, <3>1, StreamTyped
    <3> QED
      BY <3>1, <3>2
  <2>3. PICK head \in {0, 1} : head = IF bev[c].cbarg = null THEN 1 ELSE 0
    OBVIOUS
  <2>4. /\ m <= extra
        /\ cur[c].phase = "params" => m + n - head <= extra
        /\ \A a \in DOMAIN Stream(c) : Stream(c)[a].type = "OTHER" => m + a - head <= extra
    BY <1>1, <1>4, <2>1, <2>2, <2>3 DEF Local, Room
  <2>5. extra \in Nat /\ Len(Stream(c)') = n - 1
    <3>1. Len(Stream(c)') = n - 1
      BY <1>1, <1>2, <2>2, StreamTail
    <3> QED
      BY <1>1, <3>1 DEF Types
  <2>6. m + grown <= extra
    <3>1. CASE grown = 0
      BY <2>2, <2>4, <3>1
    <3>2. CASE grown = 1
      <4>1. m + 1 - head <= extra /\ head = 0
        BY <1>3, <1>4, <2>3, <2>4, <3>2
      <4> QED
        BY <2>2, <3>2, <4>1
    <3> QED
      BY <3>1, <3>2
  <2>7. grown = 1 => head = 0
    BY <2>3
  <2>8. cur[c].phase = "params" => (m + grown) + (n - 1) <= extra
    BY <2>2, <2>4, <2>5, <2>7
  <2>9. ASSUME NEW a \in DOMAIN Stream(c)', Stream(c)'[a].type = "OTHER"
        PROVE  (m + grown) + a <= extra
    <3>1. a \in Nat /\ m + (a + 1) - head <= extra
      BY <1>9, <2>4, <2>9
    <3> QED
      BY <2>2, <2>5, <2>7, <3>1, RoomShift
  <2>10. m + grown <= 4 + extra
    BY <2>2, <2>5, <2>6
  <2>11. \A a \in DOMAIN Stream(c)' : (m + grown) + a - 0 = (m + grown) + a
    BY <1>9, <2>2
  <2>12. (m + grown) + (n - 1) - 0 = (m + grown) + (n - 1)
    BY <2>2
  <2> QED
    BY <1>2, <1>3, <2>1, <2>2, <2>5, <2>6, <2>8, <2>9, <2>10, <2>11, <2>12 DEF Room
<1> QED
  BY <1>6, <1>7, <1>8, <1>10, <1>11, <1>12 DEF Inv, Local

(* The four records of an answer.                                          *)
LEMMA AnswerTypes ==
  ASSUME NEW first \in {<<"STDOUT">>, <<"STDERR">>}
  PROVE  LET t == first \o <<"STDOUT_END", "STDERR_END", "END">>
         IN  /\ DOMAIN t = 1 .. 4 /\ t[1] \in {"STDOUT", "STDERR"}
             /\ t[2] = "STDOUT_END" /\ t[3] = "STDERR_END" /\ t[4] = "END"
<1>1. PICK x \in {"STDOUT", "STDERR"} : first = <<x>>
  OBVIOUS
<1>2. PICK t : t = first \o <<"STDOUT_END", "STDERR_END", "END">>
  OBVIOUS
<1>3. PICK g : g = <<"STDOUT_END", "STDERR_END", "END">> /\ t = first \o g
  BY <1>2
<1>4. PICK S : S = {"STDOUT", "STDERR", "STDOUT_END", "STDERR_END", "END"}
  OBVIOUS
<1>5. first \in Seq(S) /\ Len(first) = 1 /\ first[1] = x
  BY <1>1, <1>4
<1>6. g \in Seq(S) /\ Len(g) = 3 /\ g[1] = "STDOUT_END" /\ g[2] = "STDERR_END" /\ g[3] = "END"
  BY <1>3, <1>4
<1>7. \A p, q \in Seq(S) :
        /\ DOMAIN (p \o q) = 1 .. (Len(p) + Len(q))
        /\ \A a \in DOMAIN p : (p \o q)[a] = p[a]
        /\ \A a \in DOMAIN q : (p \o q)[Len(p) + a] = q[a]
  BY ConcatIn
<1>8. DOMAIN first = 1 .. 1 /\ DOMAIN g = 1 .. 3
  BY <1>5, <1>6
<1>9. DOMAIN t = 1 .. (Len(first) + Len(g))
  BY <1>3, <1>5, <1>6, <1>7, Zenon
<1>10. \A a \in DOMAIN first : t[a] = first[a]
  BY <1>3, <1>5, <1>6, <1>7, Zenon
<1>11. \A a \in DOMAIN g : t[Len(first) + a] = g[a]
  BY <1>3, <1>5, <1>6, <1>7, Zenon
<1>12. /\ DOMAIN t = 1 .. (1 + 3) /\ \A a \in 1 .. 1 : t[a] = first[a]
       /\ \A a \in 1 .. 3 : t[1 + a] = g[a]
  BY <1>5, <1>6, <1>8, <1>9, <1>10, <1>11, Zenon
<1>13. t[1] = first[1] /\ t[1 + 1] = g[1] /\ t[1 + 2] = g[2] /\ t[1 + 3] = g[3]
  BY <1>12
<1>14. /\ DOMAIN t = 1 .. 4 /\ t[1] \in {"STDOUT", "STDERR"}
       /\ t[2] = "STDOUT_END" /\ t[3] = "STDERR_END" /\ t[4] = "END"
  BY <1>5, <1>6, <1>12, <1>13
<1> QED
  BY <1>2, <1>14, Zenon

LEMMA Answers ==
  ASSUME NEW i \in Id, NEW t, DOMAIN t = 1 .. 4, t[1] \in {"STDOUT", "STDERR"},
         t[2] = "STDOUT_END", t[3] = "STDERR_END", t[4] = "END"
  PROVE  LET w == [k \in DOMAIN t |-> [type |-> t[k], id |-> i]]
         IN  /\ w \in Seq(Output) /\ Len(w) = 4 /\ w[4].type = "END" /\ w[4].id = i
             /\ \A a \in DOMAIN w : w[a].type = "END" => a = 4
<1>1. PICK w : w = [k \in DOMAIN t |-> [type |-> t[k], id |-> i]]
  OBVIOUS
<1>2. /\ DOMAIN w = 1 .. 4 /\ w = [k \in 1 .. 4 |-> w[k]]
      /\ \A k \in 1 .. 4 : w[k] = [type |-> t[k], id |-> i]
  BY <1>1
<1>3. \A k \in 1 .. 4 : k = 1 \/ k = 2 \/ k = 3 \/ k = 4
  OBVIOUS
<1>4. \A k \in 1 .. 4 : w[k] \in Output /\ w[k].id = i /\ (w[k].type = "END" <=> k = 4)
  BY <1>2, <1>3 DEF Output
<1>5. w \in Seq(Output) /\ Len(w) = 4
  BY <1>2, <1>4
<1> QED
  BY <1>1, <1>2, <1>4, <1>5

(* A request begins where none is: it is linked.                           *)
LEMMA BeginRequestInv ==
  ASSUME Inv, NEW c \in Conn, running = c, input[c] # <<>>,
         process_begin_request(c, Head(input[c])),
         running' = IF input'[c] = <<>> THEN "loop" ELSE c,
         UNCHANGED <<toApp, toSrv, server>>
  PROVE  Inv'
<1>1. Types /\ Linked /\ Local(c)
  BY DEF Inv
<1>2. PICK r : r = Head(input[c])
  OBVIOUS
<1>3. /\ r \in Record /\ bev[c].enabled /\ bev[c].fd = "open" /\ r.id = cur[c].id
      /\ (r.type \in First <=> bev[c].cbarg = null)
      /\ r.type = "BEGIN" => r.id \in Id /\ r.id # null /\ _requests[r.id].bev = null
  BY <1>2, Heads
<1>4. r.type = "BEGIN" /\ bev[c].cbarg = null /\ r.id \in Id /\ r.id # null /\ _requests[r.id].bev = null
  BY <1>2, <1>3 DEF process_begin_request, First
<1>5. PICK q : q = [bev |-> c, keepconn |-> r.keep, responder |-> r.responder, terminate |-> FALSE]
  OBVIOUS
<1>6. q \in Request /\ q.bev = c /\ q.terminate = FALSE
  BY <1>3, <1>4, <1>5 DEF Record, Request, Middle
<1>7. /\ _requests' = [_requests EXCEPT ![r.id] = q] /\ bev' = [bev EXCEPT ![c].cbarg = r.id]
      /\ Drained(c) /\ output' = output /\ crashed' = crashed
  BY <1>2, <1>4, <1>5 DEF process_begin_request
<1>8. /\ bev' \in [Conn -> Bufferevent] /\ bev'[c].enabled /\ bev'[c].fd = "open"
      /\ bev'[c].cbarg = r.id /\ \A d \in Conn : d # c => bev'[d] = bev[d]
  BY <1>1, <1>3, <1>4, <1>7 DEF Types, Bufferevent
<1>9. /\ _requests' \in [Id -> Request] /\ _requests'[r.id] = q
      /\ \A i \in Id : i # r.id => _requests'[i] = _requests[i]
  BY <1>1, <1>4, <1>6, <1>7 DEF Types
<1>10. Linked'
  <2>1. ASSUME NEW i \in Id, _requests'[i].bev # null
        PROVE  LET b == bev'[_requests'[i].bev] IN b.cbarg = i /\ b.enabled /\ b.fd = "open"
    <3>1. CASE i = r.id
      BY <1>6, <1>8, <1>9, <3>1
    <3>2. CASE i # r.id
      <4>1. _requests'[i] = _requests[i] /\ _requests[i].bev \in Conn
        BY <1>1, <1>9, <2>1, <3>2 DEF Types, Request
      <4>2. _requests[i].bev # c
        BY <1>1, <1>4, <2>1, <4>1, PrototypeAssumption DEF Linked
      <4> QED
        BY <1>1, <1>8, <2>1, <4>1, <4>2 DEF Linked
    <3> QED
      BY <3>1, <3>2
  <2>2. ASSUME NEW d \in Conn, bev'[d].cbarg # null PROVE _requests'[bev'[d].cbarg].bev = d
    <3>1. CASE d = c
      BY <1>6, <1>8, <1>9, <3>1
    <3>2. CASE d # c
      <4>1. bev'[d] = bev[d] /\ bev[d].cbarg \in Id /\ _requests[bev[d].cbarg].bev = d
        BY <1>1, <1>8, <2>2, <3>2 DEF Linked, Types, Bufferevent
      <4>2. bev[d].cbarg # r.id
        BY <1>4, <4>1, PrototypeAssumption
      <4> QED
        BY <1>9, <4>1, <4>2
    <3> QED
      BY <3>1, <3>2
  <2> QED
    BY <2>1, <2>2 DEF Linked
<1>11. output[c] = <<>> /\ toSrv[c] = <<>> /\ ~ In(output[c], "END") /\ ~ In(toSrv[c], "END")
  BY <1>1, <1>3, <1>4 DEF Local, Reading, In
<1>12. toApp' = toApp /\ toSrv' = toSrv /\ cur' = cur /\ extra' = extra
  BY DEF server
<1>13. In(Stream(c), "PARAMS_END") => In(Stream(c)', "PARAMS_END")
  BY <1>1, <1>2, <1>4, <1>7, <1>12, StreamIn
<1>14. Answer(c)'
  BY <1>1, <1>3, <1>6, <1>7, <1>8, <1>9, <1>11, <1>12, <1>13 DEF Local, Answer
<1>15. \A i \in Id : i # cur[c].id => _requests'[i].terminate = _requests[i].terminate
  BY <1>3, <1>9
<1>16. PICK grown \in {0, 1} : grown = 0
  OBVIOUS
<1>17. Len(output'[c]) = Len(output[c]) + grown
  <2>1. PICK y \in Seq(Output) : y = output[c]
    BY <1>1 DEF Types
  <2>2. Len(y) + 0 = Len(y)
    BY <2>1
  <2> QED
    BY <1>7, <1>16, <2>1, <2>2
<1>18. /\ output' \in [Conn -> Seq(Output)]
       /\ \A d \in Conn : d # c => bev'[d] = bev[d] /\ output'[d] = output[d]
  BY <1>1, <1>7, <1>8 DEF Types
<1>19. /\ bev'[c].cbarg = Head(input[c]).id /\ Head(input[c]).id # null
       /\ Drained(c) /\ crashed' = crashed /\ _requests' \in [Id -> Request]
  BY <1>2, <1>4, <1>7, <1>8, <1>9
<1>20. /\ ~ In(output'[c], "END") /\ ~ In(output[c], "END")
       /\ grown = 1 => bev[c].cbarg # null /\ Head(input[c]).type = "OTHER"
  BY <1>7, <1>11, <1>16
<1> QED
  BY <1>8, <1>10, <1>14, <1>15, <1>17, <1>18, <1>19, <1>20, HandledInv

(* An abort cuts the connection and settles its request, a record of       *)
(* another version closes one that had none.                               *)
LEMMA AbortInv ==
  ASSUME Inv, NEW c \in Conn, running = c, input[c] # <<>>,
         \/ process_abort_request(c, Head(input[c])) \/ bev_abort(c, Head(input[c])),
         running' = IF input'[c] = <<>> THEN "loop" ELSE c,
         UNCHANGED <<toApp, toSrv, server>>
  PROVE  Inv'
<1>1. Types /\ Linked /\ Local(c)
  BY DEF Inv
<1>2. PICK r : r = Head(input[c])
  OBVIOUS
<1>3. /\ r \in Record /\ bev[c].enabled /\ bev[c].fd = "open"
      /\ (r.type \in First <=> bev[c].cbarg = null)
      /\ bev[c].cbarg # null => r.id \in Id /\ _requests[r.id].bev = c
      /\ r.type = "ABORT" => cur[c].phase = "aborted"
  BY <1>2, Heads
<1>4. CASE process_abort_request(c, r)
  <2>1. r.type = "ABORT" /\ cur[c].phase = "aborted" /\ r.id \in Id /\ _requests[r.id].bev = c
    BY <1>3, <1>4 DEF process_abort_request, First
  <2>2. /\ request_put(bev_disable(bev, c), r.id)
        /\ input' = [input EXCEPT ![c] = <<>>] /\ output' = [output EXCEPT ![c] = <<>>]
    BY <1>4, <2>1, PrototypeAssumption DEF process_abort_request, bev_drain
  <2>3. Cut(c)
    BY <1>1, <1>3, <2>1, <2>2, PutCuts
  <2>4. /\ input' \in [Conn -> Seq(Record)] /\ output' \in [Conn -> Seq(Output)]
        /\ input'[c] = <<>> /\ output'[c] = <<>> /\ Len(output'[c]) = 0
        /\ \A d \in Conn : d # c => input'[d] = input[d] /\ output'[d] = output[d]
    BY <1>1, <2>2 DEF Types
  <2>5. Sent(c)'
    BY <1>1, <2>1 DEF Local, Sent, server
  <2>6. Len(output'[c]) <= 4 + extra
    <3>1. extra \in Nat
      BY <1>1 DEF Types
    <3> QED
      BY <2>4, <3>1
  <2> QED
    BY <1>1, <1>3, <2>3, <2>4, <2>5, <2>6, CutInv DEF server, Types
<1>5. CASE bev_abort(c, r)
  <2>1. bev[c].cbarg = null
    BY <1>3, <1>5 DEF bev_abort, First
  <2>2. /\ bev' = bev_close(bev, c) /\ _requests' = _requests /\ crashed' = crashed
        /\ input' = [input EXCEPT ![c] = <<>>] /\ output' = [output EXCEPT ![c] = <<>>]
    BY <1>5 DEF bev_abort, bev_drain
  <2>3. Cut(c) /\ bev'[c].fd = "closed"
    BY <1>1, <2>1, <2>2, CloseCuts
  <2>4. /\ input' \in [Conn -> Seq(Record)] /\ output' \in [Conn -> Seq(Output)]
        /\ input'[c] = <<>> /\ output'[c] = <<>> /\ Len(output'[c]) = 0
        /\ \A d \in Conn : d # c => input'[d] = input[d] /\ output'[d] = output[d]
    BY <1>1, <2>2 DEF Types
  <2>5. Sent(c)'
    BY <1>1, <2>3 DEF Local, Sent, server
  <2>6. Len(output'[c]) <= 4 + extra
    <3>1. extra \in Nat
      BY <1>1 DEF Types
    <3> QED
      BY <2>4, <3>1
  <2> QED
    BY <1>1, <1>3, <2>3, <2>4, <2>5, <2>6, CutInv DEF server, Types
<1> QED
  BY <1>2, <1>4, <1>5

(* A record in the middle of a request is of the one that is linked.       *)
LEMMA MiddleHeads ==
  ASSUME Inv, NEW c \in Conn, running = c, input[c] # <<>>, Head(input[c]).type \in Middle
  PROVE  LET r == Head(input[c])
         IN  /\ bev[c].cbarg = r.id /\ r.id # null /\ r.id \in Id /\ r.id = cur[c].id
             /\ _requests[r.id].bev = c /\ bev[c].enabled /\ bev[c].fd = "open"
             /\ ~ In(toSrv[c], "END")
             /\ _requests[r.id].terminate <=> In(output[c], "END")
             /\ In(output[c], "END") =>
                  /\ cur[c].phase # "params"
                  /\ ~ In(Stream(c), "PARAMS_END") /\ ~ In(Stream(c), "OTHER")
             /\ In(Stream(c), r.type)
<1>1. PICK r : r = Head(input[c])
  OBVIOUS
<1>2. /\ bev[c].enabled /\ bev[c].fd = "open" /\ r.id = cur[c].id
      /\ (r.type \in First <=> bev[c].cbarg = null)
      /\ bev[c].cbarg # null =>
           r.id \in Id /\ r.id # null /\ bev[c].cbarg = r.id /\ _requests[r.id].bev = c
      /\ Stream(c)[1] = r /\ 1 \in DOMAIN Stream(c)
  BY <1>1, Heads
<1>3. r.type \notin First
  BY <1>1 DEF Middle, First
<1>4. Local(c)
  BY DEF Inv
<1> QED
  BY <1>1, <1>2, <1>3, <1>4 DEF Local, Answer, In

(* It changes nothing, or is answered with an UNKNOWN_TYPE.                *)
LEMMA MiddleInv ==
  ASSUME Inv, NEW c \in Conn, running = c, input[c] # <<>>,
         Head(input[c]).type \in Middle, Drained(c),
         running' = IF input'[c] = <<>> THEN "loop" ELSE c,
         UNCHANGED <<_requests, bev, crashed, toApp, toSrv, server>>,
         \/ output' = output /\ Head(input[c]).type # "PARAMS_END"
         \/ Unknown(c) /\ Head(input[c]).type = "OTHER"
  PROVE  Inv'
<1>1. Types /\ Linked /\ Local(c)
  BY DEF Inv
<1>2. PICK r : r = Head(input[c])
  OBVIOUS
<1>3. /\ bev[c].cbarg = r.id /\ r.id # null /\ r.id \in Id /\ r.id = cur[c].id
      /\ _requests[r.id].bev = c /\ bev[c].enabled /\ bev[c].fd = "open"
      /\ ~ In(toSrv[c], "END") /\ (_requests[r.id].terminate <=> In(output[c], "END"))
      /\ In(output[c], "END") =>
           /\ cur[c].phase # "params"
           /\ ~ In(Stream(c), "PARAMS_END") /\ ~ In(Stream(c), "OTHER")
      /\ In(Stream(c), r.type)
  BY <1>2, MiddleHeads
<1>4. toApp' = toApp /\ toSrv' = toSrv /\ cur' = cur /\ extra' = extra /\ bev' = bev
      /\ _requests' = _requests
  BY DEF server
<1>5. /\ \A type : In(Stream(c)', type) => In(Stream(c), type)
      /\ \A type : In(Stream(c), type) /\ r.type # type => In(Stream(c)', type)
  BY <1>1, <1>2, <1>4, StreamIn
<1>6. r.type # "PARAMS_END"
  BY <1>2
<1>7. PICK y \in Seq(Output) : y = output[c]
  BY <1>1 DEF Types
<1>8. PICK w \in Output : w = [type |-> "UNKNOWN", id |-> 0]
  BY DEF Output
<1>9. /\ Append(y, w) \in Seq(Output) /\ Len(Append(y, w)) = Len(y) + 1 /\ Len(y) \in Nat
      /\ DOMAIN Append(y, w) = 1 .. (Len(y) + 1) /\ DOMAIN y = 1 .. Len(y)
      /\ Append(y, w)[Len(y) + 1] = w /\ \A a \in DOMAIN y : Append(y, w)[a] = y[a]
  BY <1>7, <1>8
<1>10. \A a \in DOMAIN y : y[a].type = "END" => a = Len(y) /\ y[a].id = cur[c].id
  BY <1>1, <1>3, <1>7 DEF Local, Answer
<1>11. cur[c].phase \in {"stdin", "sent"} => In(Stream(c), "PARAMS_END") \/ In(y, "END")
  BY <1>1, <1>3, <1>7 DEF Local, Answer
<1>12. Linked'
  BY <1>1, <1>4 DEF Linked
<1>13. \A i \in Id : _requests'[i].terminate = _requests[i].terminate
  BY <1>4
<1>14. bev' \in [Conn -> Bufferevent] /\ _requests' \in [Id -> Request]
  BY <1>1, <1>4 DEF Types
<1>15. bev'[c].enabled /\ bev'[c].fd = "open" /\ bev'[c].cbarg = Head(input[c]).id
       /\ Head(input[c]).id # null
  BY <1>2, <1>3, <1>4
<1>16. CASE output' = output
  <2>1. Answer(c)'
    BY <1>3, <1>4, <1>5, <1>6, <1>7, <1>10, <1>11, <1>16 DEF Answer
  <2>2. PICK grown \in {0, 1} : grown = 0
    OBVIOUS
  <2>3. Len(y) <= 4 + extra /\ Len(y) + grown = Len(y)
    <3>1. Len(y) <= 4 + extra
      BY <1>1, <1>7 DEF Local, Room
    <3> QED
      BY <1>9, <2>2, <3>1
  <2>4. \/ In(output'[c], "END") /\ Len(output'[c]) <= 4 + extra
        \/ /\ ~ In(output'[c], "END") /\ ~ In(output[c], "END")
           /\ Len(output'[c]) = Len(output[c]) + grown
    BY <1>7, <1>16, <2>3
  <2>5. output' \in [Conn -> Seq(Output)]
        /\ \A d \in Conn : d # c => bev'[d] = bev[d] /\ output'[d] = output[d]
    BY <1>1, <1>4, <1>16 DEF Types
  <2> QED
    BY <1>12, <1>13, <1>14, <1>15, <2>1, <2>2, <2>4, <2>5, HandledInv
<1>17. CASE Unknown(c) /\ r.type = "OTHER"
  <2>1. ~ In(y, "END") /\ ~ _requests[r.id].terminate
    BY <1>3, <1>7, <1>17
  <2>2. output' = [output EXCEPT ![c] = Append(y, w)]
    BY <1>1, <1>7, <1>8, <1>17 DEF Unknown, Types
  <2>3. /\ output' \in [Conn -> Seq(Output)] /\ output'[c] = Append(y, w)
        /\ \A d \in Conn : d # c => bev'[d] = bev[d] /\ output'[d] = output[d]
    BY <1>1, <1>4, <1>9, <2>2 DEF Types
  <2>4. \A a \in DOMAIN Append(y, w) : Append(y, w)[a].type # "END"
    <3>1. ASSUME NEW a \in 1 .. (Len(y) + 1) PROVE Append(y, w)[a].type # "END"
      <4>1. CASE a = Len(y) + 1
        BY <1>8, <1>9, <4>1
      <4>2. CASE a # Len(y) + 1
        <5>1. a \in DOMAIN y
          BY <1>9, <3>1, <4>2
        <5> QED
          BY <1>9, <2>1, <5>1 DEF In
      <4> QED
        BY <4>1, <4>2
    <3> QED
      BY <1>9, <3>1
  <2>5. ~ In(output'[c], "END") /\ ~ In(output[c], "END")
    BY <1>7, <2>1, <2>3, <2>4 DEF In
  <2>6. Answer(c)'
    BY <1>3, <1>4, <1>5, <1>6, <1>11, <2>1, <2>3, <2>4, <2>5 DEF Answer
  <2>7. PICK grown \in {0, 1} : grown = 1
    OBVIOUS
  <2>8. Len(output'[c]) = Len(output[c]) + grown
    BY <1>7, <1>9, <2>3, <2>7
  <2>9. bev[c].cbarg # null /\ Head(input[c]).type = "OTHER"
    BY <1>2, <1>3, <1>17
  <2> QED
    BY <1>12, <1>13, <1>14, <1>15, <2>3, <2>5, <2>6, <2>8, <2>9, HandledInv
<1> QED
  BY <1>2, <1>16, <1>17

(* The end of the parameters: the request is answered.                     *)
LEMMA ParamsEndInv ==
  ASSUME Inv, NEW c \in Conn, running = c, input[c] # <<>>,
         Head(input[c]).type = "PARAMS_END", process_params(c, Head(input[c])),
         running' = IF input'[c] = <<>> THEN "loop" ELSE c,
         UNCHANGED <<toApp, toSrv, server>>
  PROVE  Inv'
<1>1. Types /\ Linked /\ Local(c)
  BY DEF Inv
<1>2. PICK r : r = Head(input[c])
  OBVIOUS
<1>3. /\ bev[c].cbarg = r.id /\ r.id # null /\ r.id \in Id /\ r.id = cur[c].id
      /\ _requests[r.id].bev = c /\ bev[c].enabled /\ bev[c].fd = "open"
      /\ ~ In(toSrv[c], "END") /\ ~ In(output[c], "END")
  <2>1. Head(input[c]).type \in Middle
    BY DEF Middle
  <2> QED
    BY <1>2, <2>1, MiddleHeads
<1>4. /\ Stream(c)[1] = r /\ 1 \in DOMAIN Stream(c) /\ cur[c].phase # "params"
  BY <1>2, Heads
<1>5. c # null
  BY PrototypeAssumption
<1>6. /\ Drained(c) /\ app_handle_beginrequest(r.id) /\ bev' = bev /\ crashed' = crashed
  BY <1>2, <1>3, <1>5 DEF process_params
<1>7. PICK first \in {<<"STDOUT">>, <<"STDERR">>} : request_end(r.id, first)
  BY <1>6 DEF app_handle_beginrequest
<1>8. PICK types : types = first \o <<"STDOUT_END", "STDERR_END", "END">>
  OBVIOUS
<1>9. PICK w : w = [k \in DOMAIN types |-> [type |-> types[k], id |-> r.id]]
  OBVIOUS
<1>10. /\ w \in Seq(Output) /\ Len(w) = 4 /\ w[4].type = "END" /\ w[4].id = r.id
       /\ \A a \in DOMAIN w : w[a].type = "END" => a = 4
  <2>1. PICK i \in Id : i = r.id
    BY <1>3
  <2>2. w = [k \in DOMAIN types |-> [type |-> types[k], id |-> i]]
    BY <1>9, <2>1
  <2>3. w \in Seq(Output) /\ Len(w) = 4 /\ w[4].type = "END" /\ w[4].id = i
        /\ \A a \in DOMAIN w : w[a].type = "END" => a = 4
    <3>1. /\ DOMAIN types = 1 .. 4 /\ types[1] \in {"STDOUT", "STDERR"}
          /\ types[2] = "STDOUT_END" /\ types[3] = "STDERR_END" /\ types[4] = "END"
      BY <1>8, AnswerTypes, Zenon
    <3> QED
      BY <2>2, <3>1, Answers
  <2> QED
    BY <2>1, <2>3
<1>11. /\ output' = [output EXCEPT ![c] = @ \o w]
       /\ _requests' = [_requests EXCEPT ![r.id].terminate = TRUE]
  BY <1>3, <1>7, <1>8, <1>9 DEF request_end, Write
<1>12. PICK y \in Seq(Output) : y = output[c]
  BY <1>1 DEF Types
<1>13. PICK z : z = y \o w
  OBVIOUS
<1>14. /\ z \in Seq(Output) /\ Len(z) = Len(y) + 4 /\ Len(y) \in Nat
       /\ DOMAIN w = 1 .. 4 /\ DOMAIN z = 1 .. (Len(y) + 4)
       /\ \A a \in DOMAIN y : z[a] = y[a]
       /\ \A a \in DOMAIN w : z[Len(y) + a] = w[a]
       /\ \A a \in DOMAIN z : a \in DOMAIN y \/ a - Len(y) \in DOMAIN w
  <2>1. \A p, q \in Seq(Output) :
          /\ p \o q \in Seq(Output) /\ Len(p \o q) = Len(p) + Len(q) /\ Len(p) \in Nat
          /\ DOMAIN q = 1 .. Len(q) /\ DOMAIN (p \o q) = 1 .. (Len(p) + Len(q))
          /\ \A a \in DOMAIN p : (p \o q)[a] = p[a]
          /\ \A a \in DOMAIN q : (p \o q)[Len(p) + a] = q[a]
          /\ \A a \in DOMAIN (p \o q) : a \in DOMAIN p \/ a - Len(p) \in DOMAIN q
    BY ConcatIn
  <2> QED
    BY <1>10, <1>13, <2>1, Zenon
<1>15. /\ output' \in [Conn -> Seq(Output)] /\ output'[c] = z
       /\ \A d \in Conn : d # c => bev'[d] = bev[d] /\ output'[d] = output[d]
  BY <1>1, <1>6, <1>11, <1>12, <1>13, <1>14 DEF Types
<1>16. /\ _requests' \in [Id -> Request] /\ _requests'[r.id].terminate = TRUE
       /\ \A i \in Id : _requests'[i].bev = _requests[i].bev
       /\ \A i \in Id : i # r.id => _requests'[i].terminate = _requests[i].terminate
  BY <1>1, <1>3, <1>11 DEF Types, Request
<1>17. Linked'
  <2>1. \A d \in Conn : bev[d].cbarg # null => bev[d].cbarg \in Id
    BY <1>1 DEF Types, Bufferevent
  <2> QED
    BY <1>1, <1>6, <1>16, <2>1 DEF Linked
<1>18. In(z, "END")
  <2>1. 4 \in DOMAIN w /\ Len(y) + 4 \in DOMAIN z
    BY <1>14
  <2>2. z[Len(y) + 4].type = "END"
    BY <1>10, <1>14, <2>1
  <2> QED
    BY <2>1, <2>2 DEF In
<1>19. ASSUME NEW a \in DOMAIN z, z[a].type = "END" PROVE a = Len(z) /\ z[a].id = cur[c].id
  <2>1. a \notin DOMAIN y
    BY <1>3, <1>12, <1>14, <1>19 DEF In
  <2>2. a - Len(y) \in DOMAIN w /\ Len(y) + (a - Len(y)) = a /\ a \in Nat
    BY <1>14, <1>19, <2>1
  <2>3. z[a] = w[a - Len(y)]
    BY <1>14, <2>2
  <2>4. a - Len(y) = 4 /\ z[a].id = cur[c].id
    BY <1>3, <1>10, <1>19, <2>2, <2>3
  <2> QED
    BY <1>14, <2>2, <2>4
<1>20. toApp' = toApp /\ toSrv' = toSrv /\ cur' = cur /\ extra' = extra
  BY DEF server
<1>21. ~ In(Stream(c)', "PARAMS_END") /\ ~ In(Stream(c)', "OTHER")
  <2>1. ASSUME NEW a \in DOMAIN Stream(c)'
        PROVE  Stream(c)'[a].type \notin {"PARAMS_END", "OTHER"}
    <3>1. a + 1 \in DOMAIN Stream(c) /\ 1 < a + 1 /\ Stream(c)'[a] = Stream(c)[a + 1]
      <4>1. \A b \in DOMAIN Stream(c)' :
              /\ b \in Nat /\ b + 1 \in DOMAIN Stream(c) /\ b + 1 > 1
              /\ Stream(c)'[b] = Stream(c)[b + 1]
        BY <1>1, <1>6, <1>20, StreamIn
      <4> QED
        BY <2>1, <4>1
    <3> QED
      BY <1>1, <1>2, <1>3, <1>4, <3>1 DEF Local, Reading
  <2> QED
    BY <2>1 DEF In
<1>22. Answer(c)'
  BY <1>3, <1>4, <1>6, <1>15, <1>16, <1>18, <1>19, <1>20, <1>21 DEF Answer
<1>23. Len(output'[c]) <= 4 + extra
  <2>1. Len(y) <= extra
    BY <1>1, <1>3, <1>12 DEF Local, Room
  <2>2. extra \in Nat
    BY <1>1 DEF Types
  <2> QED
    BY <1>14, <1>15, <2>1, <2>2
<1>24. /\ bev'[c].enabled /\ bev'[c].fd = "open" /\ bev'[c].cbarg = Head(input[c]).id
       /\ Head(input[c]).id # null /\ Drained(c) /\ crashed' = crashed
       /\ bev' \in [Conn -> Bufferevent]
  BY <1>1, <1>2, <1>3, <1>6 DEF Types
<1>25. In(output'[c], "END")
  BY <1>15, <1>18
<1>26. \A i \in Id : i # cur[c].id => _requests'[i].terminate = _requests[i].terminate
  BY <1>3, <1>16
<1>27. PICK grown \in {0, 1} : grown = 0
  OBVIOUS
<1> QED
  BY <1>15, <1>16, <1>17, <1>22, <1>23, <1>24, <1>25, <1>26, <1>27, HandledInv

(* No handler crashes: each finds the request in the state it asserts.     *)
LEMMA ProcessInv ==
  ASSUME Inv, NEW c \in Conn, Process(c)
  PROVE  Inv'
<1>1. /\ running = c /\ input[c] # <<>> /\ UNCHANGED <<toApp, toSrv, server>>
      /\ running' = IF input'[c] = <<>> THEN "loop" ELSE c
  BY DEF Process
<1>2. PICK r : r = Head(input[c])
  OBVIOUS
<1>3. \/ process_begin_request(c, r) \/ process_abort_request(c, r)
      \/ process_params(c, r) \/ process_stdin(c, r) \/ process_unknown(c, r) \/ bev_abort(c, r)
  BY <1>2 DEF Process
<1>4. r.type \in Middle =>
        /\ bev[c].cbarg = r.id /\ r.id # null /\ _requests[r.id].bev # null
  <2>1. c # null
    BY PrototypeAssumption
  <2> QED
    BY <1>1, <1>2, <2>1, MiddleHeads
<1>5. CASE process_begin_request(c, r)
  BY <1>1, <1>2, <1>5, BeginRequestInv
<1>6. CASE process_abort_request(c, r) \/ bev_abort(c, r)
  BY <1>1, <1>2, <1>6, AbortInv
<1>7. CASE process_params(c, r)
  <2>1. CASE r.type = "PARAMS_END"
    BY <1>1, <1>2, <1>7, <2>1, ParamsEndInv
  <2>2. CASE r.type # "PARAMS_END"
    <3>1. r.type = "PARAMS" /\ r.type \in Middle
      BY <1>7, <2>2 DEF process_params, Middle
    <3>2. Drained(c) /\ UNCHANGED <<_requests, bev, crashed>> /\ output' = output
      BY <1>4, <1>7, <3>1 DEF process_params
    <3> QED
      BY <1>1, <1>2, <3>1, <3>2, MiddleInv
  <2> QED
    BY <2>1, <2>2
<1>8. CASE process_stdin(c, r)
  <2>1. r.type \in {"STDIN", "STDIN_END"} /\ r.type \in Middle
    BY <1>8 DEF process_stdin, Middle
  <2>2. Drained(c) /\ UNCHANGED <<_requests, bev, crashed>> /\ output' = output
    BY <1>4, <1>8, <2>1 DEF process_stdin
  <2> QED
    BY <1>1, <1>2, <2>1, <2>2, MiddleInv
<1>9. CASE process_unknown(c, r)
  <2>1. /\ r.type = "OTHER" /\ r.type \in Middle /\ Unknown(c) /\ Drained(c)
        /\ UNCHANGED <<_requests, bev, crashed>>
    BY <1>9 DEF process_unknown, Middle
  <2> QED
    BY <1>1, <1>2, <2>1, MiddleInv
<1> QED
  BY <1>3, <1>5, <1>6, <1>7, <1>8, <1>9

-----------------------------------------------------------------------------
(* The steps together.                                                     *)

LEMMA NextInv ==
  ASSUME Inv, ~ SharedIds, Next
  PROVE  Inv'
<1>1. ASSUME NEW c \in Conn, NEW i \in Id, NEW f \in Flags, Begin(c, i, f) PROVE Inv'
  BY <1>1, BeginInv
<1>2. ASSUME NEW c \in Conn,
             \/ Advance(c, "params", "PARAMS_END", "stdin")
             \/ Advance(c, "stdin", "STDIN_END", "sent")
      PROVE  Inv'
  <2>1. CASE Advance(c, "params", "PARAMS_END", "stdin")
    <3>1. c \in Conn /\ Step(c, "params", "PARAMS_END", "stdin") /\ extra' = extra
      BY <1>2, <2>1 DEF Advance
    <3> QED
      BY <3>1, StepInv DEF Open, Middle
  <2>2. CASE Advance(c, "stdin", "STDIN_END", "sent")
    <3>1. c \in Conn /\ Step(c, "stdin", "STDIN_END", "sent") /\ extra' = extra
      BY <1>2, <2>2 DEF Advance
    <3> QED
      BY <3>1, StepInv DEF Open, Middle
  <2> QED
    BY <1>2, <2>1, <2>2
<1>3. ASSUME NEW c \in Conn, NEW phase \in {"params", "stdin", "sent"},
             SendExtra(c, phase, "ABORT", "aborted")
      PROVE  Inv'
  BY <1>3, StepInv DEF SendExtra, Open, Middle
<1>4. ASSUME NEW c \in Conn,
             \/ SendExtra(c, "params", "PARAMS", "params")
             \/ SendExtra(c, "stdin", "STDIN", "stdin")
             \/ SendExtra(c, "params", "OTHER", "params")
      PROVE  Inv'
  BY <1>4, StepInv DEF SendExtra, Open, Middle
<1>5. ASSUME NEW c \in Conn, SendForeign(c) \/ Hangup(c) PROVE Inv'
  BY <1>5, ForeignInv, HangupInv
<1>6. ASSUME NEW c \in Conn, Event(c) \/ fcgiproto_errorcb(c) \/ Receive(c) PROVE Inv'
  BY <1>6, AcceptInv, ReadInv, ProcessInv, WriteInv, ErrorInv, ReceiveInv DEF Event
<1> QED
  BY <1>1, <1>2, <1>3, <1>4, <1>5, <1>6 DEF Next, WebServer

LEMMA StutterInv ==
  ASSUME Inv, UNCHANGED vars
  PROVE  Inv'
<1>1. /\ bev' = bev /\ input' = input /\ output' = output /\ toApp' = toApp /\ toSrv' = toSrv
      /\ _requests' = _requests /\ crashed' = crashed /\ running' = running
      /\ cur' = cur /\ begun' = begun /\ extra' = extra
  BY DEF vars, app, buffers, server
<1>2. Types' /\ Control' /\ Apart' /\ Linked'
  BY <1>1 DEF Inv, Types, Control, Apart, Linked
<1>3. ASSUME NEW c \in Conn PROVE Local(c)'
  <2>1. Stream(c)' = Stream(c) /\ Local(c)
    BY <1>1 DEF Stream, Inv
  <2>2. Named(c)' /\ Link(c)' /\ Sent(c)'
    BY <1>1, <2>1 DEF Local, Named, Link, Sent
  <2>3. Reading(c)' /\ Answer(c)' /\ Room(c)'
    BY <1>1, <2>1 DEF Local, Reading, Answer, Room
  <2> QED
    BY <2>2, <2>3 DEF Local
<1> QED
  BY <1>2, <1>3 DEF Inv

LEMMA Invariance == ASSUME ~ SharedIds PROVE Spec => []Inv
<1>1. Inv /\ [Next]_vars => Inv'
  BY NextInv, StutterInv
<1> QED
  BY <1>1, InitInv, PTL DEF Spec

(* A request the web server still waits for is never forgotten.            *)
LEMMA InvNotForgotten == Inv => NotForgotten
<1> SUFFICES ASSUME Inv, NEW c \in Conn, cur[c].phase \in {"stdin", "sent"}
             PROVE  \/ Unread(c, "BEGIN") \/ In(toSrv[c], "END") \/ Failed(c)
                    \/ /\ _requests[cur[c].id].bev = c
                       /\ Unread(c, "PARAMS_END") \/ In(output[c], "END")
  BY DEF NotForgotten
<1>1. Types /\ Linked /\ Local(c)
  BY DEF Inv
<1>2. \A type : In(Stream(c), type) => Unread(c, type)
  <2>1. PICK x \in Seq(Record), y \in Seq(Record) : x = input[c] /\ y = toApp[c]
    BY <1>1 DEF Types
  <2>2. \A p, q \in Seq(Record) : \A type : In(p \o q, type) <=> In(p, type) \/ In(q, type)
    BY ConcatIn
  <2>3. \A type : In(x \o y, type) => In(x, type) \/ In(y, type)
    BY <2>2
  <2> QED
    BY <2>1, <2>3 DEF Stream, Unread
<1>3. bev[c].fd \in {"open", "closed"}
  <2>1. bev[c] \in Bufferevent
    BY <1>1 DEF Types
  <2> QED
    BY <1>1, <2>1 DEF Bufferevent, Local, Link
<1>4. CASE bev[c].fd = "closed"
  BY <1>4 DEF Failed
<1>5. CASE bev[c].fd = "open" /\ ~ bev[c].enabled
  BY <1>1, <1>5 DEF Local, Sent, Unread
<1>6. CASE bev[c].enabled /\ bev[c].cbarg # null
  BY <1>1, <1>2, <1>6 DEF Linked, Local, Link, Answer
<1>7. CASE bev[c].enabled /\ bev[c].cbarg = null
  <2>1. Stream(c) # <<>>
    BY <1>1, <1>7 DEF Local, Reading
  <2>2. 1 \in DOMAIN Stream(c)
    <3>1. Stream(c) \in Seq(Record)
      BY <1>1, StreamTyped
    <3> QED
      BY <2>1, <3>1
  <2>3. Stream(c)[1].type \in First /\ Stream(c)[1].id = cur[c].id
    BY <1>1, <1>7, <2>2 DEF Local, Reading
  <2>4. Stream(c)[1] \in Record /\ cur[c].id # null
    BY <1>1, <2>2, StreamTyped DEF Local, Named
  <2>5. Stream(c)[1].type = "BEGIN"
    BY <2>3, <2>4 DEF First, Record, Middle
  <2> QED
    BY <1>2, <2>2, <2>5 DEF In
<1> QED
  BY <1>3, <1>4, <1>5, <1>6, <1>7

-----------------------------------------------------------------------------
(* Whatever the requests and the sizes of the sockets, every variable of   *)
(* the prototype keeps its type, and its output buffer holds no more than  *)
(* one answer and an UNKNOWN_TYPE for every other record, when no id is in *)
(* use on two connections at once.                                         *)
THEOREM PrototypeTypeCorrect == ASSUME ~ SharedIds PROVE Spec => []TypeOK
<1>1. Inv => TypeOK
  <2>1. ASSUME Inv, NEW c \in Conn PROVE Len(output[c]) <= 4 + MaxExtra
    <3>1. Len(output[c]) <= 4 + extra /\ extra \in 0 .. MaxExtra
      BY <2>1 DEF Inv, Types, Local, Room
    <3>2. Len(output[c]) \in Nat
      BY <2>1 DEF Inv, Types
    <3> QED
      BY <3>1, <3>2, PrototypeAssumption
  <2> QED
    BY <2>1 DEF Inv, Types, TypeOK, Request, Bufferevent
<1> QED
  BY <1>1, Invariance, PTL

(* No assertion of the callbacks fails and no NULL is followed: a request  *)
(* that begins is not active, one that goes on is, and none is put back    *)
(* twice, when no id is in use on two connections at once.                 *)
THEOREM PrototypeAssertionsHold == ASSUME ~ SharedIds PROVE Spec => []AssertionsHold
<1>1. Inv => AssertionsHold
  BY DEF Inv, Types, AssertionsHold
<1> QED
  BY <1>1, Invariance, PTL

(* The table of requests and the bufferevents point at each other, and     *)
(* only at what is still in use, after every answer, abort and error, when *)
(* no id is in use on two connections at once.                             *)
THEOREM PrototypeLinked == ASSUME ~ SharedIds PROVE Spec => []Linked
<1>1. Inv => Linked
  BY DEF Inv
<1> QED
  BY <1>1, Invariance, PTL

(* bev_drain never drops the end of the parameters or the answer of a      *)
(* request the web server still waits for, on a connection that has not    *)
(* failed, when no id is in use on two connections at once.                *)
THEOREM PrototypeNotForgotten == ASSUME ~ SharedIds PROVE Spec => []NotForgotten
<1> QED
  BY InvNotForgotten, Invariance, PTL
====
