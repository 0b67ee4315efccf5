--------------------------- MODULE ProcessProofs ---------------------------
(***************************************************************************)
(* Proofs about Process, for any connections, ids, parameters and sizes of *)
(* the sockets, with and without faults, requests at once and ids used     *)
(* again: what it sends for a request is in order.  And for a web server   *)
(* that aborts a request only while it sends its parameters (Early): the   *)
(* program implements the service, a request is handled with its own       *)
(* parameters, the counter all connections share is exact, and no          *)
(* connection is closed before its request is answered.                    *)
(***************************************************************************)
EXTENDS Process, SequenceTheorems, FiniteSetTheorems, TLAPS

-----------------------------------------------------------------------------
(* What is left of a handler.                                              *)

Stdout(i) == Write("STDOUT", i)
Stderr(i) == Attempt("STDERR", i)
Close(i)  == Write("STDOUT_END", i)
End(i)    == Write("END", i)
Unknown   == Write("UNKNOWN", 0)
Dec       == Do("decrement")
Disc      == Do("disconnect")
Fail      == Do("fail")

Answering(i) == {<<Stdout(i), Close(i), End(i), Dec>>, <<Close(i), End(i), Dec>>,
                 <<End(i), Dec>>}
Aborting(i)  == {<<Close(i), End(i), Dec, Disc>>, <<End(i), Dec, Disc>>}
Refusing(i)  == {<<Stderr(i), Close(i), End(i), Dec, Fail>>,
                 <<Close(i), End(i), Dec, Fail>>, <<End(i), Dec, Fail>>}
Ending(i)    == Answering(i) \cup Aborting(i) \cup Refusing(i)
Ended  == {<<Dec>>, <<Dec, Disc>>, <<Dec, Fail>>}
Others == {<<>>, <<Unknown>>, <<Disc>>, <<Fail>>}
Work   == Ended \cup Others \cup UNION {Ending(i) : i \in Id}

(* The handler will still write END_REQUEST for i; end the connection with *)
(* the error of a refused role; test keep_connection.                      *)
Ends(t, i) == \E j \in DOMAIN t : t[j] = End(i)
Fails(t)   == \E j \in DOMAIN t : t[j] = Fail
Discs(t)   == \E j \in DOMAIN t : t[j] = Disc

Steps == {"write", "try", "decrement", "disconnect", "fail"}

LEMMA EndedFacts ==
  ASSUME NEW t \in Ended \cup Others
  PROVE  \A i : ~ Ends(t, i)
BY DEF Ended, Others, Ends, Stdout, Stderr, Close, End, Unknown, Dec, Disc, Fail,
       Write, Attempt, Do

LEMMA AnsweringFacts ==
  ASSUME NEW i \in Id, NEW t \in Answering(i)
  PROVE  /\ Ends(t, i) /\ \A j : Ends(t, j) => j = i
         /\ ~ Fails(t) /\ ~ Discs(t)
BY DEF Answering, Ends, Fails, Discs, Stdout, Close, End, Dec, Disc, Fail, Write, Do

LEMMA AbortingFacts ==
  ASSUME NEW i \in Id, NEW t \in Aborting(i)
  PROVE  /\ Ends(t, i) /\ \A j : Ends(t, j) => j = i
         /\ ~ Fails(t) /\ Discs(t)
BY DEF Aborting, Ends, Fails, Discs, Close, End, Dec, Disc, Fail, Write, Do

LEMMA RefusingFacts ==
  ASSUME NEW i \in Id, NEW t \in Refusing(i)
  PROVE  /\ Ends(t, i) /\ \A j : Ends(t, j) => j = i
         /\ Fails(t) /\ ~ Discs(t)
BY DEF Refusing, Ends, Fails, Discs, Stderr, Close, End, Dec, Disc, Fail, Write, Attempt, Do

LEMMA OthersFacts ==
  /\ ~ Fails(<<>>) /\ ~ Discs(<<>>)
  /\ ~ Fails(<<Unknown>>) /\ ~ Discs(<<Unknown>>)
  /\ ~ Fails(<<Dec>>) /\ ~ Discs(<<Dec>>)
  /\ ~ Fails(<<Disc>>) /\ Discs(<<Disc>>)
  /\ Fails(<<Fail>>) /\ ~ Discs(<<Fail>>)
  /\ ~ Fails(<<Dec, Disc>>) /\ Discs(<<Dec, Disc>>)
  /\ Fails(<<Dec, Fail>>) /\ ~ Discs(<<Dec, Fail>>)
BY DEF Fails, Discs, Unknown, Dec, Disc, Fail, Write, Do

LEMMA AnsweringHead ==
  ASSUME NEW i \in Id, NEW t \in Answering(i)
  PROVE  \/ Head(t) = Stdout(i) /\ Tail(t) \in Answering(i) /\ Head(Tail(t)) = Close(i)
         \/ Head(t) = Close(i) /\ Tail(t) \in Answering(i) /\ Head(Tail(t)) = End(i)
         \/ Head(t) = End(i) /\ Tail(t) = <<Dec>>
<1> USE DEF Stdout, Stderr, Close, End, Dec, Disc, Fail, Write, Attempt, Do
<1>1. CASE t = <<Stdout(i), Close(i), End(i), Dec>>
  <2>1. Head(t) = Stdout(i) /\ Tail(t) = <<Close(i), End(i), Dec>>
    BY <1>1
  <2> QED
    BY <2>1 DEF Answering
<1>2. CASE t = <<Close(i), End(i), Dec>>
  <2>1. Head(t) = Close(i) /\ Tail(t) = <<End(i), Dec>>
    BY <1>2
  <2> QED
    BY <2>1 DEF Answering
<1>3. CASE t = <<End(i), Dec>>
  BY <1>3
<1> QED
  BY <1>1, <1>2, <1>3 DEF Answering

LEMMA AbortingHead ==
  ASSUME NEW i \in Id, NEW t \in Aborting(i)
  PROVE  \/ Head(t) = Close(i) /\ Tail(t) \in Aborting(i) /\ Head(Tail(t)) = End(i)
         \/ Head(t) = End(i) /\ Tail(t) = <<Dec, Disc>>
<1> USE DEF Stdout, Stderr, Close, End, Dec, Disc, Fail, Write, Attempt, Do
<1>1. CASE t = <<Close(i), End(i), Dec, Disc>>
  <2>1. Head(t) = Close(i) /\ Tail(t) = <<End(i), Dec, Disc>>
    BY <1>1
  <2> QED
    BY <2>1 DEF Aborting
<1>2. CASE t = <<End(i), Dec, Disc>>
  BY <1>2
<1> QED
  BY <1>1, <1>2 DEF Aborting

LEMMA RefusingHead ==
  ASSUME NEW i \in Id, NEW t \in Refusing(i)
  PROVE  \/ Head(t) = Stderr(i) /\ Tail(t) \in Refusing(i) /\ Head(Tail(t)) = Close(i)
         \/ Head(t) = Close(i) /\ Tail(t) \in Refusing(i) /\ Head(Tail(t)) = End(i)
         \/ Head(t) = End(i) /\ Tail(t) = <<Dec, Fail>>
<1> USE DEF Stdout, Stderr, Close, End, Dec, Disc, Fail, Write, Attempt, Do
<1>1. CASE t = <<Stderr(i), Close(i), End(i), Dec, Fail>>
  <2>1. Head(t) = Stderr(i) /\ Tail(t) = <<Close(i), End(i), Dec, Fail>>
    BY <1>1
  <2> QED
    BY <2>1 DEF Refusing
<1>2. CASE t = <<Close(i), End(i), Dec, Fail>>
  <2>1. Head(t) = Close(i) /\ Tail(t) = <<End(i), Dec, Fail>>
    BY <1>2
  <2> QED
    BY <2>1 DEF Refusing
<1>3. CASE t = <<End(i), Dec, Fail>>
  BY <1>3
<1> QED
  BY <1>1, <1>2, <1>3 DEF Refusing

LEMMA WorkKinds ==
  ASSUME NEW t \in Work
  PROVE  \/ t \in Ended \/ t \in Others \/ \E i \in Id : t \in Ending(i)
BY DEF Work

(* What the next step of a handler tells of the rest.                      *)
LEMMA WorkHead ==
  ASSUME NEW t \in Work, t # <<>>
  PROVE  /\ Head(t).op \in Steps
         /\ Head(t).op = "decrement" => t \in Ended
         /\ Head(t).op = "disconnect" => t = <<Disc>>
         /\ Head(t).op = "fail" => t = <<Fail>>
         /\ Head(t).op \in {"write", "try"} =>
              t = <<Unknown>> \/ \E i \in Id : t \in Ending(i)
<1> USE DEF Steps
<1>1. CASE t \in Ended
  <2>1. Head(t) = Dec
    BY <1>1 DEF Ended
  <2> QED
    BY <1>1, <2>1 DEF Dec, Do
<1>2. CASE t \in Others
  BY <1>2 DEF Others, Unknown, Disc, Fail, Write, Do
<1>3. ASSUME NEW i \in Id, t \in Ending(i)
      PROVE  /\ Head(t).op \in {"write", "try"}
             /\ \E k \in Id : t \in Ending(k)
  <2>1. Head(t) \in {Stdout(i), Stderr(i), Close(i), End(i)}
    BY <1>3, AnsweringHead, AbortingHead, RefusingHead DEF Ending
  <2> QED
    BY <1>3, <2>1 DEF Stdout, Stderr, Close, End, Write, Attempt
<1> QED
  BY <1>1, <1>2, <1>3, WorkKinds

(* A write of a handler that will end request i, and what is left then.    *)
LEMMA EndingHead ==
  ASSUME NEW i \in Id, NEW t \in Ending(i)
  PROVE  /\ t # <<>> /\ Ends(t, i) /\ \A j : Ends(t, j) => j = i
         /\ \/ /\ Head(t) \in {Stdout(i), Stderr(i)} /\ Tail(t) \in Ending(i)
               /\ Head(Tail(t)) = Close(i)
            \/ /\ Head(t) = Close(i) /\ Tail(t) \in Ending(i) /\ Head(Tail(t)) = End(i)
            \/ /\ Head(t) = End(i) /\ Tail(t) \in Ended
         /\ (Fails(Tail(t)) <=> Fails(t)) /\ (Discs(Tail(t)) <=> Discs(t))
         /\ Tail(t) = <<Dec>> \/ Tail(t) = <<Dec, Disc>> => ~ Fails(t)
         /\ Tail(t) = <<Dec, Fail>> => Fails(t)
         /\ Tail(t) # <<Fail>>
<1>1. t # <<>> /\ Ends(t, i) /\ \A j : Ends(t, j) => j = i
  <2>1. t # <<>>
    BY DEF Ending, Answering, Aborting, Refusing
  <2> QED
    BY <2>1, AnsweringFacts, AbortingFacts, RefusingFacts DEF Ending
<1>2. CASE t \in Answering(i)
  <2>1. \A u \in Answering(i) : ~ Fails(u) /\ ~ Discs(u) /\ Ends(u, i)
    BY AnsweringFacts
  <2>2. ~ Ends(<<Dec>>, i) /\ ~ Ends(<<Dec, Disc>>, i) /\ ~ Ends(<<Dec, Fail>>, i)
        /\ ~ Ends(<<Fail>>, i)
    BY EndedFacts DEF Ended, Others
  <2>3. <<Dec>> # <<Dec, Fail>> /\ <<Dec>> # <<Fail>>
    BY DEF Dec, Fail, Do
  <2> QED
    BY <1>1, <1>2, <2>1, <2>2, <2>3, AnsweringHead, OthersFacts DEF Ending, Ended
<1>3. CASE t \in Aborting(i)
  <2>1. \A u \in Aborting(i) : ~ Fails(u) /\ Discs(u) /\ Ends(u, i)
    BY AbortingFacts
  <2>2. ~ Ends(<<Dec>>, i) /\ ~ Ends(<<Dec, Disc>>, i) /\ ~ Ends(<<Dec, Fail>>, i)
        /\ ~ Ends(<<Fail>>, i)
    BY EndedFacts DEF Ended, Others
  <2>3. <<Dec, Disc>> # <<Dec, Fail>> /\ <<Dec, Disc>> # <<Fail>>
    BY DEF Dec, Fail, Disc, Do
  <2> QED
    BY <1>1, <1>3, <2>1, <2>2, <2>3, AbortingHead, OthersFacts DEF Ending, Ended
<1>4. CASE t \in Refusing(i)
  <2>1. \A u \in Refusing(i) : Fails(u) /\ ~ Discs(u) /\ Ends(u, i)
    BY RefusingFacts
  <2>2. ~ Ends(<<Dec>>, i) /\ ~ Ends(<<Dec, Disc>>, i) /\ ~ Ends(<<Dec, Fail>>, i)
        /\ ~ Ends(<<Fail>>, i)
    BY EndedFacts DEF Ended, Others
  <2>3. <<Dec, Fail>> # <<Dec>> /\ <<Dec, Fail>> # <<Dec, Disc>> /\ <<Dec, Fail>> # <<Fail>>
    BY DEF Dec, Fail, Disc, Do
  <2> QED
    BY <1>1, <1>4, <2>1, <2>2, <2>3, RefusingHead, OthersFacts DEF Ending, Ended
<1> QED
  BY <1>2, <1>3, <1>4 DEF Ending

-----------------------------------------------------------------------------
(* The inductive invariant.                                                *)

Record == [type : {"BEGIN"}, id : Id, keep : BOOLEAN, responder : BOOLEAN]
            \cup [type : {"PARAMS"}, id : Id, key : Key, value : 0 .. MaxBegin]
            \cup [type : {"PARAMS_END", "STDIN", "STDIN_END", "ABORT"}, id : Id]
            \cup [type : {"OTHER"}, id : {0}]

Output == [type : {"STDOUT", "STDERR", "STDOUT_END", "END"}, id : Id]
            \cup [type : {"UNKNOWN"}, id : {0}]

Request == [phase : Phase, awaiting : BOOLEAN, responder : BOOLEAN,
            serial : 0 .. MaxBegin, keys : SUBSET Key]

Types ==
  /\ running \in Conn \cup {"hub"}
  /\ pc \in [Conn -> {"loop", "closed", "refused", "error"}]
  /\ todo \in [Conn -> Work]
  /\ keep_connection \in [Conn -> BOOLEAN] /\ should_disconnect \in [Conn -> BOOLEAN]
  /\ params \in [Conn -> [Id -> [Key -> 0 .. MaxBegin]]]
  /\ concurrency \in 0 .. (W - 1) /\ concurrency_max \in 0 .. (W - 1)
  /\ inq \in [Conn -> Seq(Record)] /\ outq \in [Conn -> Seq(Output)]
  /\ \A c \in Conn : Len(inq[c]) <= InCap /\ Len(outq[c]) <= OutCap
  /\ req \in [Conn -> [Id -> Request]]
  /\ begun \in [Conn -> 0 .. MaxBegin] /\ extra \in [Conn -> 0 .. MaxExtra]
  /\ last \in [Conn -> BOOLEAN]

(* A greenthread that has returned has nothing left to do, and only one    *)
(* that runs is past the last write of its handler.                        *)
Control ==
  /\ \A c \in Conn : pc[c] # "loop" => todo[c] = <<>>
  /\ running # "hub" => pc[running] = "loop"
  /\ \A c \in Conn : todo[c] # <<>> /\ Head(todo[c]).op \notin {"write", "try"} => running = c

(* The program may still read what is sent: it has not returned and is not *)
(* about to refuse a role.                                                 *)
Live(c) == pc[c] = "loop" /\ ~ Fails(todo[c])

(* The web server waits for an END_REQUEST that is not on its way.         *)
Due(c, i) == req[c][i].awaiting /\ ~ Sent(c, "END", i)

Awaited(c) ==
  \A i \in Id : /\ req[c][i].phase = "idle" => ~ req[c][i].awaiting
                /\ Sent(c, "END", i) => req[c][i].awaiting

(* OutputInOrder, also for a request id that is 0.                         *)
Ordered(c) ==
  \A a, b \in DOMAIN outq[c] :
    a < b /\ outq[c][a].id = outq[c][b].id /\ outq[c][b].type # "UNKNOWN" =>
      /\ outq[c][a].type # "END"
      /\ outq[c][a].type = "STDOUT_END" => outq[c][b].type = "END"

(* A handler ends a request that is due, and after the end of its output   *)
(* nothing else comes for it.                                              *)
Promised(c) ==
  \A i \in Id :
    /\ Ends(todo[c], i) => Due(c, i)
    /\ Sent(c, "STDOUT_END", i) =>
         \/ Sent(c, "END", i) \/ pc[c] # "loop"
         \/ Ends(todo[c], i) /\ Head(todo[c]) = End(i)

(* What may come for a request until it is asked to be ended, and what     *)
(* asks for that.                                                          *)
Asking == {"BEGIN", "PARAMS", "PARAMS_END", "ABORT"}
Asked  == {"PARAMS_END", "ABORT"}

InStream(c) ==
  \A a, b \in DOMAIN inq[c] :
    (/\ a < b /\ inq[c][a].id = inq[c][b].id
     /\ inq[c][a].type \in Asking /\ inq[c][b].type \in Asking) =>
      inq[c][a].type \notin Asked /\ inq[c][b].type # "BEGIN"

(* What is unread of a request is of the one that is due, and no handler   *)
(* is at work on it.                                                       *)
Wanted(c, r) == /\ Due(c, r.id) /\ ~ Ends(todo[c], r.id)
                /\ r.type = "PARAMS" => r.value = req[c][r.id].serial
                /\ r.type = "BEGIN" => r.responder = req[c][r.id].responder

UnreadDue(c) ==
  \A a \in DOMAIN inq[c] : inq[c][a].type \in Asking => Wanted(c, inq[c][a])

(* A request whose parameters are being sent was not asked to be ended.    *)
Growing(c) ==
  \A i \in Id : req[c][i].phase = "params" =>
    /\ Due(c, i) /\ ~ Ends(todo[c], i)
    /\ \A a \in DOMAIN inq[c] : inq[c][a].id = i => inq[c][a].type \notin Asked

Role(c) ==
  \A i \in Id : req[c][i].awaiting /\ ~ req[c][i].responder => Unread(c, "BEGIN", i)

(* Each parameter a request has sent is in its dictionary or unread.       *)
UnreadParam(c, i, k) ==
  \E a \in DOMAIN inq[c] : inq[c][a].type = "PARAMS" /\ inq[c][a].id = i /\ inq[c][a].key = k

Given(c) ==
  \A i \in Id : \A k \in req[c][i].keys :
    params[c][i][k] = req[c][i].serial \/ UnreadParam(c, i, k)

Input(c) == Live(c) => /\ InStream(c) /\ UnreadDue(c) /\ Growing(c) /\ Role(c) /\ Given(c)

Refuses(c) == \A i \in Id : Ends(todo[c], i) => (Fails(todo[c]) <=> ~ req[c][i].responder)

Local(c) == Awaited(c) /\ Ordered(c) /\ Promised(c) /\ Refuses(c) /\ Input(c)

Inv == Types /\ Control /\ (Early => \A c \in Conn : Local(c))

-----------------------------------------------------------------------------
(* Sequences.                                                              *)

LEMMA AppendFacts ==
  ASSUME NEW S, NEW s \in Seq(S), NEW e \in S
  PROVE  /\ Append(s, e) \in Seq(S) /\ Len(Append(s, e)) = Len(s) + 1
         /\ Len(s) \in Nat /\ DOMAIN s = 1 .. Len(s)
         /\ DOMAIN Append(s, e) = 1 .. (Len(s) + 1)
         /\ Append(s, e)[Len(s) + 1] = e
         /\ \A a \in DOMAIN s : Append(s, e)[a] = s[a]
OBVIOUS

LEMMA TailFacts ==
  ASSUME NEW S, NEW s \in Seq(S), s # <<>>
  PROVE  /\ Tail(s) \in Seq(S) /\ Len(Tail(s)) = Len(s) - 1
         /\ Len(s) \in Nat /\ Len(s) > 0 /\ DOMAIN s = 1 .. Len(s)
         /\ DOMAIN Tail(s) = 1 .. (Len(s) - 1)
         /\ Head(s) = s[1] /\ Head(s) \in S
         /\ \A a \in DOMAIN Tail(s) : Tail(s)[a] = s[a + 1]
OBVIOUS

LEMMA InqTyped ==
  ASSUME Types, NEW c \in Conn
  PROVE  /\ inq[c] \in Seq(Record) /\ DOMAIN inq[c] = 1 .. Len(inq[c]) /\ Len(inq[c]) \in Nat
         /\ \A a \in DOMAIN inq[c] : inq[c][a] \in Record
BY DEF Types

LEMMA OutqTyped ==
  ASSUME Types, NEW c \in Conn
  PROVE  /\ outq[c] \in Seq(Output) /\ DOMAIN outq[c] = 1 .. Len(outq[c]) /\ Len(outq[c]) \in Nat
         /\ \A a \in DOMAIN outq[c] : outq[c][a] \in Output
BY DEF Types

LEMMA RecordTyped ==
  ASSUME NEW r \in Record
  PROVE  /\ r.type \in Asking => r.id \in Id
         /\ r.type \in {"STDIN", "STDIN_END"} => r.id \in Id
         /\ r.type = "PARAMS" => r.key \in Key /\ r.value \in 0 .. MaxBegin
         /\ r.type = "BEGIN" => r.keep \in BOOLEAN /\ r.responder \in BOOLEAN
BY DEF Record, Asking

(* A step that leaves a connection alone keeps what holds of it.           *)
LEMMA Elsewhere ==
  ASSUME NEW d, Local(d), pc'[d] = pc[d], todo'[d] = todo[d], params'[d] = params[d],
         inq'[d] = inq[d], outq'[d] = outq[d], req'[d] = req[d]
  PROVE  Local(d)'
BY DEF Local, Awaited, Ordered, Promised, Refuses, Input, Live, Due, InStream, UnreadDue,
       Wanted, Growing, Role, Given, UnreadParam, Sent, Unread

LEMMA InitInv == Init => Inv
<1> SUFFICES ASSUME Init PROVE Inv
  OBVIOUS
<1>1. Types
  <2>1. <<>> \in Work /\ <<>> \in Seq(Record) /\ <<>> \in Seq(Output) /\ Idle \in Request
    BY ProcessAssumption DEF Work, Others, Idle, Request, Phase
  <2>2. 0 \in 0 .. MaxBegin /\ 0 \in 0 .. MaxExtra /\ 0 \in 0 .. (W - 1) /\ 0 <= InCap /\ 0 <= OutCap
    BY ProcessAssumption
  <2> QED
    BY <2>1, <2>2 DEF Init, Types
<1>2. Control
  BY DEF Init, Control
<1>3. ASSUME NEW c \in Conn PROVE Local(c)
  <2>1. ~ Fails(<<>>) /\ \A i : ~ Ends(<<>>, i)
    BY DEF Fails, Ends
  <2>2. todo[c] = <<>> /\ inq[c] = <<>> /\ outq[c] = <<>> /\ \A i \in Id : req[c][i] = Idle
    BY DEF Init
  <2> QED
    BY <2>1, <2>2 DEF Local, Awaited, Ordered, Promised, Refuses, Input, Live, Due, InStream,
       UnreadDue, Growing, Role, Given, UnreadParam, Sent, Unread, Idle
<1> QED
  BY <1>1, <1>2, <1>3 DEF Inv

-----------------------------------------------------------------------------
(* The web server.                                                         *)

LEMMA SendFacts ==
  ASSUME Types, NEW c \in Conn, NEW r \in Record, Send(c, r)
  PROVE  /\ pc[c] = "loop" /\ inq' \in [Conn -> Seq(Record)]
         /\ \A d \in Conn : Len(inq'[d]) <= InCap
         /\ \A d \in Conn : d # c => inq'[d] = inq[d]
         /\ Len(inq[c]) \in Nat /\ DOMAIN inq[c] = 1 .. Len(inq[c])
         /\ DOMAIN inq'[c] = 1 .. (Len(inq[c]) + 1) /\ inq'[c][Len(inq[c]) + 1] = r
         /\ \A a \in DOMAIN inq[c] : inq'[c][a] = inq[c][a]
<1>1. inq'[c] = Append(inq[c], r) /\ inq[c] \in Seq(Record)
      /\ inq' = [inq EXCEPT ![c] = Append(inq[c], r)] /\ pc[c] = "loop"
  BY DEF Send, Types
<1>2. Append(inq[c], r) \in Seq(Record) /\ Len(inq'[c]) = Len(inq[c]) + 1
  BY <1>1, AppendFacts
<1>3. \A d \in Conn : d # c => inq'[d] = inq[d]
  BY <1>1 DEF Types
<1>4. \A d \in Conn : Len(inq'[d]) <= InCap
  <2>1. Len(inq'[c]) <= InCap
    BY <1>2, InqTyped, ProcessAssumption DEF Send
  <2> QED
    BY <2>1, <1>3 DEF Types
<1>5. inq' \in [Conn -> Seq(Record)]
  BY <1>1, <1>2 DEF Types
<1>6. /\ Len(inq[c]) \in Nat /\ DOMAIN inq[c] = 1 .. Len(inq[c])
      /\ DOMAIN inq'[c] = 1 .. (Len(inq[c]) + 1) /\ inq'[c][Len(inq[c]) + 1] = r
      /\ \A a \in DOMAIN inq[c] : inq'[c][a] = inq[c][a]
  BY <1>1, AppendFacts
<1> QED
  BY <1>1, <1>3, <1>4, <1>5, <1>6

LEMMA SameFacts ==
  ASSUME Same
  PROVE  /\ running' = running /\ pc' = pc /\ todo' = todo /\ outq' = outq /\ params' = params
         /\ keep_connection' = keep_connection /\ should_disconnect' = should_disconnect
         /\ concurrency' = concurrency /\ concurrency_max' = concurrency_max
BY DEF Same, thread, counts

(* A step of the web server at c that changes its request i.               *)
Update(c, i, u) == req' = [req EXCEPT ![c][i] = u]

LEMMA SendTypes ==
  ASSUME Types, Same, NEW c \in Conn, NEW i \in Id, NEW r \in Record, Send(c, r),
         NEW u \in Request, Update(c, i, u),
         begun' \in [Conn -> 0 .. MaxBegin], extra' \in [Conn -> 0 .. MaxExtra],
         last' \in [Conn -> BOOLEAN]
  PROVE  /\ Types'
         /\ \A d \in Conn : d # c => req'[d] = req[d]
         /\ req'[c][i] = u /\ \A j \in Id : j # i => req'[c][j] = req[c][j]
<1>1. /\ req' \in [Conn -> [Id -> Request]]
      /\ \A d \in Conn : d # c => req'[d] = req[d]
      /\ req'[c][i] = u /\ \A j \in Id : j # i => req'[c][j] = req[c][j]
  BY DEF Types, Update
<1> QED
  BY <1>1, SameFacts, SendFacts DEF Types

LEMMA SendControl ==
  ASSUME Control, Same
  PROVE  Control'
BY SameFacts DEF Control

(* The other connections, for a step of the web server at c.               *)
LEMMA SendElsewhere ==
  ASSUME Same, NEW c \in Conn, NEW d \in Conn, Local(d), inq'[d] = inq[d], req'[d] = req[d]
  PROVE  Local(d)'
BY SameFacts, Elsewhere

LEMMA BeginInv ==
  ASSUME Inv, NEW c \in Conn, NEW i \in Id, NEW keep \in Keep, NEW responder \in Roles,
         BeginRequest(c, i, keep, responder)
  PROVE  Inv'
<1> DEFINE r == [type |-> "BEGIN", id |-> i, keep |-> keep, responder |-> responder]
           u == [phase |-> "params", awaiting |-> TRUE, responder |-> responder,
                 serial |-> begun[c] + 1, keys |-> {}]
           n == Len(inq[c]) + 1
<1>1. Types /\ Control /\ Same /\ Send(c, r)
  BY DEF Inv, BeginRequest
<1>2. r \in Record /\ u \in Request
  BY ProcessAssumption, <1>1 DEF Record, Request, Phase, BeginRequest, Types
<1>3. /\ begun' \in [Conn -> 0 .. MaxBegin] /\ extra' \in [Conn -> 0 .. MaxExtra]
      /\ last' \in [Conn -> BOOLEAN] /\ Update(c, i, u)
  BY ProcessAssumption, <1>1 DEF BeginRequest, Types, Update
<1> HIDE DEF r, u, n
<1>4. /\ Types' /\ req'[c][i] = u /\ \A j \in Id : j # i => req'[c][j] = req[c][j]
      /\ \A d \in Conn : d # c => req'[d] = req[d]
  BY <1>1, <1>2, <1>3, SendTypes
<1>5. /\ pc[c] = "loop" /\ \A d \in Conn : d # c => inq'[d] = inq[d]
      /\ n \in Nat /\ n > 0 /\ DOMAIN inq[c] = 1 .. (n - 1)
      /\ DOMAIN inq'[c] = 1 .. n /\ inq'[c][n] = r
      /\ \A a \in DOMAIN inq[c] : inq'[c][a] = inq[c][a]
  BY <1>1, <1>2, SendFacts DEF n
<1>6. pc' = pc /\ todo' = todo /\ outq' = outq /\ params' = params
  BY <1>1, SameFacts
<1>7. /\ r.type = "BEGIN" /\ r.id = i /\ r.responder = responder
      /\ u.phase = "params" /\ u.awaiting /\ u.responder = responder /\ u.keys = {}
  BY DEF r, u
<1>8. Control'
  BY <1>1, SendControl
<1> SUFFICES ASSUME Early PROVE Inv'
  BY <1>4, <1>8 DEF Inv
<1>9. Local(c)
  BY DEF Inv
(* The id is free: nothing is under way for it.                            *)
<1>10. ~ req[c][i].awaiting /\ ~ Sent(c, "END", i) /\ ~ Due(c, i) /\ ~ Ends(todo[c], i)
  BY <1>9 DEF BeginRequest, Local, Awaited, Promised, Due
<1>11. \A j \in Id : Due(c, j)' <=> j = i \/ Due(c, j)
  BY <1>4, <1>6, <1>7, <1>10 DEF Due, Sent
<1>12. Awaited(c)'
  BY <1>9, <1>4, <1>6, <1>7 DEF Local, Awaited, Sent
<1>13. Ordered(c)' /\ Promised(c)' /\ Refuses(c)'
  BY <1>9, <1>4, <1>6, <1>10, <1>11 DEF Local, Ordered, Promised, Refuses, Sent
<1>14. Input(c)'
  <2> SUFFICES ASSUME Live(c)' PROVE (InStream(c) /\ UnreadDue(c) /\ Growing(c) /\ Role(c) /\ Given(c))'
    BY DEF Input
  <2>1. InStream(c) /\ UnreadDue(c) /\ Growing(c) /\ Role(c) /\ Given(c)
    BY <1>9, <1>6 DEF Local, Input, Live
  <2>2. \A a \in DOMAIN inq[c] : inq[c][a].id = i => inq[c][a].type \notin Asking
    BY <2>1, <1>10 DEF UnreadDue, Wanted
  <2>3. InStream(c)'
    BY <2>1, <2>2, <1>5, <1>7 DEF InStream
  <2>4. UnreadDue(c)'
    <3> SUFFICES ASSUME NEW a \in DOMAIN inq'[c], inq'[c][a].type \in Asking
                 PROVE  Wanted(c, inq[c][a])'
      BY DEF UnreadDue
    <3>1. CASE a = n
      BY <3>1, <1>4, <1>5, <1>6, <1>7, <1>10, <1>11 DEF Wanted
    <3>2. CASE a # n
      <4>1. a \in DOMAIN inq[c] /\ inq'[c][a] = inq[c][a] /\ inq[c][a].id \in Id
        BY <3>2, <1>1, <1>5, InqTyped, RecordTyped
      <4> QED
        BY <4>1, <2>1, <2>2, <1>4, <1>6, <1>11 DEF UnreadDue, Wanted
    <3> QED
      BY <3>1, <3>2
  <2>5. Growing(c)'
    BY <2>1, <2>2, <1>4, <1>5, <1>6, <1>7, <1>10, <1>11 DEF Growing, Asking, Asked
  <2>6. Role(c)'
    <3>1. Unread(c, "BEGIN", i)'
      BY <1>5, <1>7 DEF Unread
    <3>2. ASSUME NEW j \in Id, Unread(c, "BEGIN", j) PROVE Unread(c, "BEGIN", j)'
      BY <3>2, <1>5 DEF Unread
    <3> QED
      BY <2>1, <1>4, <3>1, <3>2 DEF Role
  <2>7. Given(c)'
    BY <2>1, <1>4, <1>5, <1>6, <1>7 DEF Given, UnreadParam
  <2> QED
    BY <2>3, <2>4, <2>5, <2>6, <2>7
<1>15. \A d \in Conn : d # c => Local(d)'
  BY <1>1, <1>4, <1>5, SendElsewhere DEF Inv
<1> QED
  BY <1>4, <1>12, <1>13, <1>14, <1>15, <1>8 DEF Inv, Local

(* A step of the web server that continues its requests, sending r.        *)
Continues(c, r) ==
  \A i \in Id :
    /\ req'[c][i].awaiting = req[c][i].awaiting /\ req'[c][i].responder = req[c][i].responder
    /\ req'[c][i].serial = req[c][i].serial
    /\ req'[c][i].phase = "idle" => ~ req[c][i].awaiting
    /\ req'[c][i].phase = "params" =>
         req[c][i].phase = "params" /\ (r.id = i => r.type \notin Asked)
    /\ \A k \in req'[c][i].keys :
         k \in req[c][i].keys \/ (r.type = "PARAMS" /\ r.id = i /\ r.key = k)

(* What it sends belongs to a request whose parameters it is sending.      *)
Fits(c, r) ==
  /\ r.type # "BEGIN"
  /\ r.type \in Asking => req[c][r.id].phase = "params"
  /\ r.type = "PARAMS" => r.value = req[c][r.id].serial

LEMMA ContinueInv ==
  ASSUME Inv, NEW c \in Conn, NEW r \in Record, Same, Send(c, r), Types',
         \A d \in Conn : d # c => req'[d] = req[d],
         Early => Continues(c, r) /\ Fits(c, r)
  PROVE  Inv'
<1> DEFINE n == Len(inq[c]) + 1
<1> HIDE DEF n
<1>1. Types /\ Control /\ Control'
  BY SendControl DEF Inv
<1> SUFFICES ASSUME Early PROVE Inv'
  BY <1>1 DEF Inv
<1>2. Local(c)
  BY DEF Inv
<1>3. /\ pc[c] = "loop" /\ \A d \in Conn : d # c => inq'[d] = inq[d]
      /\ n \in Nat /\ n > 0 /\ DOMAIN inq[c] = 1 .. (n - 1)
      /\ DOMAIN inq'[c] = 1 .. n /\ inq'[c][n] = r
      /\ \A a \in DOMAIN inq[c] : inq'[c][a] = inq[c][a]
  BY <1>1, SendFacts DEF n
<1>4. pc' = pc /\ todo' = todo /\ outq' = outq /\ params' = params
  BY SameFacts
<1>5. \A i \in Id : Due(c, i)' <=> Due(c, i)
  BY <1>4 DEF Due, Sent, Continues
<1>6. Awaited(c)' /\ Ordered(c)' /\ Promised(c)' /\ Refuses(c)'
  <2>1. Awaited(c)'
    BY <1>2, <1>4 DEF Local, Awaited, Sent, Continues
  <2>2. Ordered(c)' /\ Refuses(c)'
    BY <1>2, <1>4 DEF Local, Ordered, Refuses, Continues
  <2>3. Promised(c)'
    BY <1>2, <1>4, <1>5 DEF Local, Promised, Sent
  <2> QED
    BY <2>1, <2>2, <2>3
<1>7. Input(c)'
  <2> SUFFICES ASSUME Live(c)' PROVE (InStream(c) /\ UnreadDue(c) /\ Growing(c) /\ Role(c) /\ Given(c))'
    BY DEF Input
  <2>1. InStream(c) /\ UnreadDue(c) /\ Growing(c) /\ Role(c) /\ Given(c)
    BY <1>2, <1>4 DEF Local, Input, Live
  <2>2. r.type \in Asking => /\ r.id \in Id /\ Due(c, r.id) /\ ~ Ends(todo[c], r.id)
                             /\ \A a \in DOMAIN inq[c] : inq[c][a].id = r.id => inq[c][a].type \notin Asked
    BY <2>1, RecordTyped DEF Growing, Fits
  <2>3. InStream(c)'
    BY <2>1, <2>2, <1>3 DEF InStream, Fits
  <2>4. UnreadDue(c)'
    <3> SUFFICES ASSUME NEW a \in DOMAIN inq'[c], inq'[c][a].type \in Asking
                 PROVE  Wanted(c, inq[c][a])'
      BY DEF UnreadDue
    <3>1. CASE a = n
      BY <3>1, <2>2, <1>3, <1>4, <1>5 DEF Wanted, Fits, Continues
    <3>2. CASE a # n
      <4>1. a \in DOMAIN inq[c] /\ inq'[c][a] = inq[c][a] /\ inq[c][a].id \in Id
        BY <3>2, <1>1, <1>3, InqTyped, RecordTyped
      <4> QED
        BY <4>1, <2>1, <1>4, <1>5 DEF UnreadDue, Wanted, Continues
    <3> QED
      BY <3>1, <3>2
  <2>5. Growing(c)'
    <3> SUFFICES ASSUME NEW i \in Id, req'[c][i].phase = "params"
                 PROVE  /\ Due(c, i)' /\ ~ Ends(todo'[c], i)
                        /\ \A a \in DOMAIN inq'[c] : inq'[c][a].id = i => inq'[c][a].type \notin Asked
      BY DEF Growing
    <3>1. req[c][i].phase = "params" /\ (r.id = i => r.type \notin Asked)
      BY DEF Continues
    <3> QED
      BY <3>1, <2>1, <1>3, <1>4, <1>5 DEF Growing
  <2>6. Role(c)'
    <3>1. ASSUME NEW j \in Id, Unread(c, "BEGIN", j) PROVE Unread(c, "BEGIN", j)'
      BY <3>1, <1>3 DEF Unread
    <3> QED
      BY <2>1, <3>1 DEF Role, Continues
  <2>7. Given(c)'
    <3> SUFFICES ASSUME NEW i \in Id, NEW k \in req'[c][i].keys
                 PROVE  params[c][i][k] = req[c][i].serial \/ UnreadParam(c, i, k)'
      BY <1>4 DEF Given, Continues
    <3>1. UnreadParam(c, i, k) => UnreadParam(c, i, k)'
      BY <1>3 DEF UnreadParam
    <3>2. r.type = "PARAMS" /\ r.id = i /\ r.key = k => UnreadParam(c, i, k)'
      BY <1>3 DEF UnreadParam
    <3> QED
      BY <3>1, <3>2, <2>1 DEF Given, Continues
  <2> QED
    BY <2>3, <2>4, <2>5, <2>6, <2>7
<1>8. \A d \in Conn : d # c => Local(d)'
  BY <1>1, <1>3, SendElsewhere DEF Inv
<1> QED
  BY <1>1, <1>6, <1>7, <1>8 DEF Inv, Local

LEMMA SendParamsInv ==
  ASSUME Inv, NEW c \in Conn, NEW i \in Id, NEW k \in Key, SendParams(c, i, k)
  PROVE  Inv'
<1> DEFINE r == [type |-> "PARAMS", id |-> i, key |-> k, value |-> req[c][i].serial]
           u == [req[c][i] EXCEPT !.keys = @ \cup {k}]
<1>1. Types /\ Same /\ Send(c, r) /\ req[c][i].phase = "params"
  BY DEF Inv, SendParams
<1>2. r \in Record /\ u \in Request /\ req[c][i] \in Request
  <2>1. req[c][i] \in Request
    BY <1>1 DEF Types
  <2>2. u \in Request
    BY <2>1 DEF Request
  <2>3. r \in Record
    BY <2>1 DEF Record, Request
  <2> QED
    BY <2>1, <2>2, <2>3
<1>3. /\ begun' \in [Conn -> 0 .. MaxBegin] /\ extra' \in [Conn -> 0 .. MaxExtra]
      /\ last' \in [Conn -> BOOLEAN] /\ Update(c, i, u)
  BY <1>1 DEF SendParams, Types, Update
<1>4. r.type = "PARAMS" /\ r.id = i /\ r.key = k /\ r.value = req[c][i].serial
      /\ u.phase = "params" /\ u.awaiting = req[c][i].awaiting /\ u.serial = req[c][i].serial
      /\ u.responder = req[c][i].responder /\ u.keys = req[c][i].keys \cup {k}
  BY <1>1, <1>2 DEF Request
<1> HIDE DEF r, u
<1>5. /\ Types' /\ req'[c][i] = u /\ \A j \in Id : j # i => req'[c][j] = req[c][j]
      /\ \A d \in Conn : d # c => req'[d] = req[d]
  BY <1>1, <1>2, <1>3, SendTypes
<1>6. Early => Continues(c, r) /\ Fits(c, r)
  <2> SUFFICES ASSUME Early PROVE Continues(c, r) /\ Fits(c, r)
    OBVIOUS
  <2>1. \A j \in Id : req[c][j].phase = "idle" => ~ req[c][j].awaiting
    BY DEF Inv, Local, Awaited
  <2> QED
    BY <1>1, <1>4, <1>5, <2>1 DEF Continues, Fits, Asked
<1> QED
  BY <1>1, <1>2, <1>5, <1>6, ContinueInv

(* The end of the parameters, of STDIN, or of the request.                 *)
LEMMA PhaseInv ==
  ASSUME Inv, NEW c \in Conn, NEW i \in Id, NEW type \in {"PARAMS_END", "STDIN_END", "ABORT"},
         NEW phase \in Phase \ {"params"}, Same, Send(c, [type |-> type, id |-> i]),
         Update(c, i, [req[c][i] EXCEPT !.phase = phase]), UNCHANGED <<begun, extra, last>>,
         Early /\ type # "STDIN_END" => req[c][i].phase = "params",
         phase = "idle" => ~ req[c][i].awaiting
  PROVE  Inv'
<1> DEFINE r == [type |-> type, id |-> i]
           u == [req[c][i] EXCEPT !.phase = phase]
<1>1. Types /\ Send(c, r) /\ Update(c, i, u)
  BY DEF Inv
<1>2. r \in Record /\ u \in Request /\ req[c][i] \in Request
  <2>1. req[c][i] \in Request
    BY <1>1 DEF Types
  <2>2. u \in Request
    BY <2>1 DEF Request
  <2>3. r \in Record
    BY <2>1 DEF Record, Request
  <2> QED
    BY <2>1, <2>2, <2>3
<1>3. /\ begun' \in [Conn -> 0 .. MaxBegin] /\ extra' \in [Conn -> 0 .. MaxExtra]
      /\ last' \in [Conn -> BOOLEAN]
  BY <1>1 DEF Types
<1>4. r.type = type /\ r.id = i
      /\ u.phase = phase /\ u.awaiting = req[c][i].awaiting /\ u.serial = req[c][i].serial
      /\ u.responder = req[c][i].responder /\ u.keys = req[c][i].keys
  BY <1>1, <1>2 DEF Request
<1> HIDE DEF r, u
<1>5. /\ Types' /\ req'[c][i] = u /\ \A j \in Id : j # i => req'[c][j] = req[c][j]
      /\ \A d \in Conn : d # c => req'[d] = req[d]
  BY <1>1, <1>2, <1>3, SendTypes
<1>6. Early => Continues(c, r) /\ Fits(c, r)
  <2> SUFFICES ASSUME Early PROVE Continues(c, r) /\ Fits(c, r)
    OBVIOUS
  <2>1. \A j \in Id : req[c][j].phase = "idle" => ~ req[c][j].awaiting
    BY DEF Inv, Local, Awaited
  <2> QED
    BY <1>1, <1>4, <1>5, <2>1 DEF Continues, Fits, Asking, Asked
<1> QED
  BY <1>1, <1>2, <1>5, <1>6, ContinueInv

LEMMA EndParamsInv ==
  ASSUME Inv, NEW c \in Conn, NEW i \in Id, EndParams(c, i)
  PROVE  Inv'
<1>1. "stdin" \in Phase \ {"params"}
  BY DEF Phase
<1> QED
  BY <1>1, PhaseInv DEF EndParams, Update

LEMMA EndStdinInv ==
  ASSUME Inv, NEW c \in Conn, NEW i \in Id, EndStdin(c, i)
  PROVE  Inv'
<1> DEFINE phase == IF req[c][i].awaiting THEN "sent" ELSE "idle"
<1>1. phase \in Phase \ {"params"} /\ (phase = "idle" => ~ req[c][i].awaiting)
  BY DEF Phase
<1> QED
  BY <1>1, PhaseInv DEF EndStdin, Update

LEMMA AbortInv ==
  ASSUME Inv, NEW c \in Conn, NEW i \in Id, AbortRequest(c, i)
  PROVE  Inv'
<1>1. "aborted" \in Phase \ {"params"}
  BY DEF Phase
<1> QED
  BY <1>1, PhaseInv DEF AbortRequest, Update, Early

LEMMA ExtraInv ==
  ASSUME Inv, NEW c \in Conn, NEW r \in Extras, SendExtra(c, r)
  PROVE  Inv'
<1>1. Types /\ Same /\ Send(c, r) /\ req' = req
  BY DEF Inv, SendExtra
<1>2. r \in Record /\ r.type \in {"STDIN", "OTHER"}
  BY DEF Record, Extras
<1>3. Types'
  <2>1. begun' = begun /\ last' = last /\ extra' \in [Conn -> 0 .. MaxExtra]
    BY <1>1, ProcessAssumption DEF Types, SendExtra
  <2>2. inq' \in [Conn -> Seq(Record)] /\ \A d \in Conn : Len(inq'[d]) <= InCap
    BY <1>1, <1>2, SendFacts
  <2> QED
    BY <1>1, <2>1, <2>2, SameFacts DEF Types
<1>4. Early => Continues(c, r) /\ Fits(c, r)
  <2> SUFFICES ASSUME Early PROVE Continues(c, r) /\ Fits(c, r)
    OBVIOUS
  <2>1. \A j \in Id : req[c][j].phase = "idle" => ~ req[c][j].awaiting
    BY DEF Inv, Local, Awaited
  <2> QED
    BY <1>1, <1>2, <2>1 DEF Continues, Fits, Asking, Asked
<1> QED
  BY <1>1, <1>2, <1>3, <1>4, ContinueInv

(* What is left of the output once its first record is received.           *)
LEMMA ReceiveFacts ==
  ASSUME Types, NEW c \in Conn, outq[c] # <<>>, outq'[c] = Tail(outq[c])
  PROVE  /\ Head(outq[c]) = outq[c][1] /\ Head(outq[c]) \in Output
         /\ Len(outq[c]) \in Nat /\ Len(outq[c]) > 0 /\ DOMAIN outq[c] = 1 .. Len(outq[c])
         /\ DOMAIN outq'[c] = 1 .. (Len(outq[c]) - 1) /\ Len(outq'[c]) = Len(outq[c]) - 1
         /\ outq'[c] \in Seq(Output)
         /\ \A a \in DOMAIN outq'[c] : outq'[c][a] = outq[c][a + 1]
BY TailFacts DEF Types

LEMMA ReceiveTypes ==
  ASSUME Types, NEW c \in Conn, Receive(c)
  PROVE  /\ Types'
         /\ \A d \in Conn : d # c => req'[d] = req[d] /\ outq'[d] = outq[d]
         /\ outq'[c] = Tail(outq[c]) /\ outq[c] # <<>>
         /\ running' = running /\ pc' = pc /\ todo' = todo /\ params' = params /\ inq' = inq
<1>1. /\ running' = running /\ pc' = pc /\ todo' = todo /\ params' = params /\ inq' = inq
      /\ keep_connection' = keep_connection /\ should_disconnect' = should_disconnect
      /\ concurrency' = concurrency /\ concurrency_max' = concurrency_max
      /\ begun' = begun /\ extra' = extra /\ last' = last
  BY DEF Receive, thread, counts
<1>2. outq[c] # <<>> /\ outq'[c] = Tail(outq[c]) /\ \A d \in Conn : d # c => outq'[d] = outq[d]
  BY DEF Receive, Types
<1>3. outq' \in [Conn -> Seq(Output)] /\ \A d \in Conn : Len(outq'[d]) <= OutCap
  <2>1. outq'[c] \in Seq(Output) /\ Len(outq'[c]) = Len(outq[c]) - 1 /\ Len(outq[c]) \in Nat
    BY <1>2, ReceiveFacts
  <2>2. Len(outq'[c]) <= OutCap
    BY <2>1, ProcessAssumption DEF Types
  <2> QED
    BY <1>2, <2>1, <2>2 DEF Receive, Types
<1>4. req' \in [Conn -> [Id -> Request]] /\ \A d \in Conn : d # c => req'[d] = req[d]
  <2> DEFINE r == Head(outq[c])
  <2>1. CASE r.type # "END"
    BY <2>1 DEF Receive, Types
  <2>2. CASE r.type = "END"
    <3>1. r.id \in Id
      BY <1>2, <2>2, ReceiveFacts DEF Output
    <3> DEFINE p == req[c][r.id]
               q == Finished(p)
    <3>2. p \in Request
      BY <3>1 DEF Types
    <3>3. q \in Request
      BY <3>2 DEF Request, Phase, Finished
    <3>4. req' = IF r.type # "END" THEN req ELSE [req EXCEPT ![c][r.id] = q]
      BY DEF Receive
    <3> HIDE DEF q, p, r
    <3> QED
      BY <2>2, <3>1, <3>3, <3>4 DEF Types
  <2> QED
    BY <2>1, <2>2
<1> QED
  BY <1>1, <1>2, <1>3, <1>4 DEF Types

(* What the web server makes of it.                                        *)
LEMMA ReceiveRequests ==
  ASSUME Types, NEW c \in Conn, Receive(c), NEW i \in Id
  PROVE  /\ req'[c][i].responder = req[c][i].responder /\ req'[c][i].serial = req[c][i].serial
         /\ req'[c][i].keys = req[c][i].keys
         /\ Head(outq[c]) = [type |-> "END", id |-> i] =>
              /\ ~ req'[c][i].awaiting
              /\ req'[c][i].phase = IF req[c][i].phase \in {"sent", "aborted"}
                                      THEN "idle" ELSE req[c][i].phase
         /\ Head(outq[c]) # [type |-> "END", id |-> i] => req'[c][i] = req[c][i]
<1> DEFINE r == Head(outq[c])
<1>1. r \in Output
  BY ReceiveTypes, ReceiveFacts
<1>2. CASE r.type # "END"
  BY <1>2 DEF Receive
<1>3. CASE r.type = "END"
  <2>1. r.id \in Id /\ r = [type |-> "END", id |-> r.id]
    BY <1>1, <1>3 DEF Output
  <2> DEFINE p == req[c][r.id]
             q == Finished(p)
  <2>2. p \in Request
    BY <2>1 DEF Types
  <2>3. /\ q.responder = p.responder /\ q.serial = p.serial /\ q.keys = p.keys
        /\ ~ q.awaiting
        /\ q.phase = IF p.phase \in {"sent", "aborted"} THEN "idle" ELSE p.phase
    BY <2>2 DEF Request, Finished
  <2>4. req' = IF r.type # "END" THEN req ELSE [req EXCEPT ![c][r.id] = q]
    BY DEF Receive
  <2> HIDE DEF q, r
  <2>5. req'[c][r.id] = q /\ (i # r.id => req'[c][i] = req[c][i])
    BY <1>3, <2>1, <2>4 DEF Types
  <2>6. CASE i = r.id
    BY <2>1, <2>3, <2>5, <2>6 DEF r
  <2>7. CASE i # r.id
    <3>1. r # [type |-> "END", id |-> i]
      BY <2>7
    <3> QED
      BY <2>5, <2>7, <3>1 DEF r
  <2> QED
    BY <2>6, <2>7
<1> QED
  BY <1>2, <1>3

(* Nothing comes after END_REQUEST for the same request.                   *)
LEMMA ReceiveSent ==
  ASSUME Inv, Early, NEW c \in Conn, Receive(c), NEW i \in Id
  PROVE  /\ Head(outq[c]) = [type |-> "END", id |-> i] =>
              /\ Sent(c, "END", i) /\ ~ Sent(c, "END", i)' /\ ~ Sent(c, "STDOUT_END", i)'
              /\ ~ req'[c][i].awaiting
         /\ Head(outq[c]) # [type |-> "END", id |-> i] =>
              /\ Sent(c, "END", i)' <=> Sent(c, "END", i)
              /\ Sent(c, "STDOUT_END", i)' => Sent(c, "STDOUT_END", i)
              /\ req'[c][i] = req[c][i]
<1> DEFINE r == Head(outq[c])
           n == Len(outq[c])
<1>1. Types /\ Ordered(c)
  BY DEF Inv, Local
<1>2. /\ r = outq[c][1] /\ r \in Output /\ n \in Nat /\ n > 0 /\ DOMAIN outq[c] = 1 .. n
      /\ DOMAIN outq'[c] = 1 .. (n - 1) /\ \A a \in DOMAIN outq'[c] : outq'[c][a] = outq[c][a + 1]
  BY <1>1, ReceiveTypes, ReceiveFacts
<1> HIDE DEF r, n
<1>3. ASSUME r = [type |-> "END", id |-> i]
      PROVE  Sent(c, "END", i) /\ ~ Sent(c, "END", i)' /\ ~ Sent(c, "STDOUT_END", i)'
             /\ ~ req'[c][i].awaiting
  <2>1. r.type = "END" /\ r.id = i
    BY <1>3
  <2>2. Sent(c, "END", i)
    BY <1>2, <2>1 DEF Sent
  <2>3. ASSUME NEW b \in DOMAIN outq'[c], outq'[c][b].id = i, outq'[c][b].type # "UNKNOWN"
        PROVE  FALSE
    <3>1. 1 \in DOMAIN outq[c] /\ b + 1 \in DOMAIN outq[c] /\ 1 < b + 1 /\ outq'[c][b] = outq[c][b + 1]
      BY <1>2
    <3> QED
      BY <1>1, <1>2, <2>1, <2>3, <3>1 DEF Ordered
  <2>4. ~ Sent(c, "END", i)' /\ ~ Sent(c, "STDOUT_END", i)'
    BY <2>3 DEF Sent
  <2> QED
    BY <1>1, <1>3, <2>2, <2>4, ReceiveRequests DEF r
<1>4. ASSUME r # [type |-> "END", id |-> i]
      PROVE  /\ Sent(c, "END", i)' <=> Sent(c, "END", i)
             /\ Sent(c, "STDOUT_END", i)' => Sent(c, "STDOUT_END", i)
             /\ req'[c][i] = req[c][i]
  <2>1. ~ (r.type = "END" /\ r.id = i)
    BY <1>2, <1>4 DEF Output
  <2>2. ASSUME NEW type, Sent(c, type, i)' PROVE Sent(c, type, i)
    <3>1. PICK b \in DOMAIN outq'[c] : outq'[c][b].type = type /\ outq'[c][b].id = i
      BY <2>2 DEF Sent
    <3>2. b + 1 \in DOMAIN outq[c] /\ outq'[c][b] = outq[c][b + 1]
      BY <1>2
    <3> QED
      BY <3>1, <3>2 DEF Sent
  <2>3. ASSUME Sent(c, "END", i) PROVE Sent(c, "END", i)'
    <3>1. PICK b \in DOMAIN outq[c] : outq[c][b].type = "END" /\ outq[c][b].id = i
      BY <2>3 DEF Sent
    <3>2. b # 1
      BY <1>2, <2>1, <3>1
    <3>3. b - 1 \in DOMAIN outq'[c] /\ outq'[c][b - 1] = outq[c][b]
      BY <1>2, <3>2
    <3> QED
      BY <3>1, <3>3 DEF Sent
  <2> QED
    BY <1>1, <1>4, <2>2, <2>3, ReceiveRequests DEF r
<1> QED
  BY <1>3, <1>4 DEF r

LEMMA ReceiveInv ==
  ASSUME Inv, NEW c \in Conn, Receive(c)
  PROVE  Inv'
<1>1. Types /\ Control
  BY DEF Inv
<1>2. /\ Types'
      /\ \A d \in Conn : d # c => req'[d] = req[d] /\ outq'[d] = outq[d]
      /\ outq'[c] = Tail(outq[c]) /\ outq[c] # <<>>
      /\ running' = running /\ pc' = pc /\ todo' = todo /\ params' = params /\ inq' = inq
  BY <1>1, ReceiveTypes
<1>3. Control'
  BY <1>1, <1>2 DEF Control
<1> SUFFICES ASSUME Early PROVE Inv'
  BY <1>2, <1>3 DEF Inv
<1> DEFINE r == Head(outq[c])
           n == Len(outq[c])
<1>4. /\ r = outq[c][1] /\ r \in Output /\ n \in Nat /\ n > 0 /\ DOMAIN outq[c] = 1 .. n
      /\ DOMAIN outq'[c] = 1 .. (n - 1) /\ \A a \in DOMAIN outq'[c] : outq'[c][a] = outq[c][a + 1]
  BY <1>1, <1>2, ReceiveFacts
<1>5. /\ Awaited(c) /\ Ordered(c) /\ Promised(c) /\ Refuses(c) /\ Input(c)
  BY DEF Inv, Local
<1>6. \A i \in Id : /\ req'[c][i].responder = req[c][i].responder /\ req'[c][i].serial = req[c][i].serial
                    /\ req'[c][i].keys = req[c][i].keys
                    /\ req'[c][i].awaiting => req[c][i].awaiting
                    /\ req'[c][i].phase = "params" => req[c][i].phase = "params"
  BY <1>1, ReceiveRequests
<1>7. \A i \in Id :
        \/ ~ Sent(c, "END", i)' /\ ~ Sent(c, "STDOUT_END", i)' /\ ~ req'[c][i].awaiting
           /\ Sent(c, "END", i)
        \/ /\ Sent(c, "END", i)' <=> Sent(c, "END", i)
           /\ Sent(c, "STDOUT_END", i)' => Sent(c, "STDOUT_END", i)
           /\ req'[c][i] = req[c][i]
  BY ReceiveSent
<1> HIDE DEF r, n
<1>8. \A i \in Id : Due(c, i)' <=> Due(c, i)
  BY <1>7 DEF Due
<1>9. Awaited(c)'
  <2> SUFFICES ASSUME NEW i \in Id
               PROVE  /\ req'[c][i].phase = "idle" => ~ req'[c][i].awaiting
                      /\ Sent(c, "END", i)' => req'[c][i].awaiting
    BY DEF Awaited
  <2> QED
    BY <1>5, <1>7 DEF Awaited
<1>10. Ordered(c)'
  <2> SUFFICES ASSUME NEW a \in DOMAIN outq'[c], NEW b \in DOMAIN outq'[c], a < b,
                      outq'[c][a].id = outq'[c][b].id, outq'[c][b].type # "UNKNOWN"
               PROVE  /\ outq'[c][a].type # "END"
                      /\ outq'[c][a].type = "STDOUT_END" => outq'[c][b].type = "END"
    BY DEF Ordered
  <2>1. a + 1 \in DOMAIN outq[c] /\ b + 1 \in DOMAIN outq[c] /\ a + 1 < b + 1
    BY <1>4
  <2> QED
    BY <1>4, <1>5, <2>1 DEF Ordered
<1>11. Promised(c)'
  <2> SUFFICES ASSUME NEW i \in Id
               PROVE  /\ Ends(todo[c], i) => Due(c, i)'
                      /\ Sent(c, "STDOUT_END", i)' =>
                           \/ Sent(c, "END", i)' \/ pc[c] # "loop"
                           \/ Ends(todo[c], i) /\ Head(todo[c]) = End(i)
    BY <1>2 DEF Promised
  <2> QED
    BY <1>5, <1>7, <1>8 DEF Promised
<1>12. Refuses(c)'
  BY <1>2, <1>5, <1>6 DEF Refuses
<1>13. Input(c)'
  <2> SUFFICES ASSUME Live(c) PROVE (InStream(c) /\ UnreadDue(c) /\ Growing(c) /\ Role(c) /\ Given(c))'
    BY <1>2 DEF Input, Live
  <2>1. InStream(c) /\ UnreadDue(c) /\ Growing(c) /\ Role(c) /\ Given(c)
    BY <1>5 DEF Input
  <2>2. InStream(c)'
    BY <1>2, <2>1 DEF InStream
  <2>3. UnreadDue(c)'
    BY <1>1, <1>2, <1>6, <1>8, <2>1, InqTyped, RecordTyped DEF UnreadDue, Wanted
  <2>4. Growing(c)'
    BY <1>2, <1>6, <1>8, <2>1 DEF Growing
  <2>5. Role(c)'
    BY <1>2, <1>6, <2>1 DEF Role, Unread
  <2>6. Given(c)'
    BY <1>2, <1>6, <2>1 DEF Given, UnreadParam
  <2> QED
    BY <2>2, <2>3, <2>4, <2>5, <2>6
<1>14. \A d \in Conn : d # c => Local(d)'
  BY <1>2, Elsewhere DEF Inv
<1> QED
  BY <1>2, <1>9, <1>10, <1>11, <1>12, <1>13, <1>14, <1>3 DEF Inv, Local

-----------------------------------------------------------------------------
(* The hub.                                                                *)

(* A step after which a greenthread or the hub runs; nothing else changes. *)
LEMMA RunInv ==
  ASSUME Inv, UNCHANGED <<thread, counts, inq, outq, client>>,
         running' \in Conn \cup {"hub"}, running' # "hub" => pc[running'] = "loop",
         \A c \in Conn : todo[c] # <<>> /\ Head(todo[c]).op \notin {"write", "try"} => running' = c
  PROVE  Inv'
<1>1. /\ pc' = pc /\ todo' = todo /\ params' = params /\ inq' = inq /\ outq' = outq /\ req' = req
      /\ keep_connection' = keep_connection /\ should_disconnect' = should_disconnect
      /\ concurrency' = concurrency /\ concurrency_max' = concurrency_max
      /\ begun' = begun /\ extra' = extra /\ last' = last
  BY DEF thread, counts, client
<1>2. Types' /\ Control'
  BY <1>1 DEF Inv, Types, Control
<1>3. Early => \A d \in Conn : Local(d)'
  BY <1>1, Elsewhere DEF Inv
<1> QED
  BY <1>2, <1>3 DEF Inv

LEMMA ResumeInv ==
  ASSUME Inv, NEW c \in Conn, Resume(c)
  PROVE  Inv'
<1>1. \A d \in Conn : ~ (todo[d] # <<>> /\ Head(todo[d]).op \notin {"write", "try"})
  BY ProcessAssumption DEF Inv, Control, Resume
<1> QED
  BY <1>1, RunInv DEF Resume

LEMMA YieldInv ==
  ASSUME Inv, NEW c \in Conn, Yield(c)
  PROVE  Inv'
<1>1. \A d \in Conn : ~ (todo[d] # <<>> /\ Head(todo[d]).op \notin {"write", "try"})
  BY DEF Inv, Control, Yield, Blocked, Reads, Writes
<1> QED
  BY <1>1, RunInv DEF Yield

-----------------------------------------------------------------------------
(* The handlers.                                                           *)

(* What is left of the input once its first record is read.                *)
LEMMA ReadSequence ==
  ASSUME Types, NEW c \in Conn, inq[c] # <<>>, inq'[c] = Tail(inq[c])
  PROVE  /\ Head(inq[c]) = inq[c][1] /\ Head(inq[c]) \in Record
         /\ Len(inq[c]) \in Nat /\ Len(inq[c]) > 0 /\ DOMAIN inq[c] = 1 .. Len(inq[c])
         /\ DOMAIN inq'[c] = 1 .. (Len(inq[c]) - 1) /\ Len(inq'[c]) = Len(inq[c]) - 1
         /\ \A a \in DOMAIN inq'[c] : inq'[c][a] = inq[c][a + 1]
         /\ inq'[c] \in Seq(Record)
BY TailFacts DEF Types

LEMMA ReadFacts ==
  ASSUME Types, NEW c \in Conn, inq[c] # <<>>, inq' = [inq EXCEPT ![c] = Tail(@)]
  PROVE  /\ Head(inq[c]) = inq[c][1] /\ Head(inq[c]) \in Record
         /\ Len(inq[c]) \in Nat /\ Len(inq[c]) > 0 /\ DOMAIN inq[c] = 1 .. Len(inq[c])
         /\ DOMAIN inq'[c] = 1 .. (Len(inq[c]) - 1)
         /\ \A a \in DOMAIN inq'[c] : inq'[c][a] = inq[c][a + 1]
         /\ \A d \in Conn : d # c => inq'[d] = inq[d]
         /\ inq' \in [Conn -> Seq(Record)] /\ \A d \in Conn : Len(inq'[d]) <= InCap
<1>1. inq[c] \in Seq(Record) /\ inq'[c] = Tail(inq[c]) /\ \A d \in Conn : d # c => inq'[d] = inq[d]
  BY DEF Types
<1>2. /\ Head(inq[c]) = inq[c][1] /\ Head(inq[c]) \in Record
      /\ Len(inq[c]) \in Nat /\ Len(inq[c]) > 0 /\ DOMAIN inq[c] = 1 .. Len(inq[c])
      /\ DOMAIN inq'[c] = 1 .. (Len(inq[c]) - 1) /\ Len(inq'[c]) = Len(inq[c]) - 1
      /\ \A a \in DOMAIN inq'[c] : inq'[c][a] = inq[c][a + 1]
      /\ inq'[c] \in Seq(Record)
  BY <1>1, ReadSequence
<1>3. Len(inq'[c]) <= InCap
  BY <1>2, ProcessAssumption DEF Types
<1>4. inq' \in [Conn -> Seq(Record)]
  BY <1>1, <1>2 DEF Types
<1> QED
  BY <1>1, <1>2, <1>3, <1>4 DEF Types

(* What a handler of the record r will do: it ends only the request of r,  *)
(* when r asks for that or begins a request of a role that is refused.     *)
Handles(r, rest) ==
  /\ rest \in Work
  /\ \A i : Ends(rest, i) => i = r.id /\ r.type \in Asked \cup {"BEGIN"}
  /\ Fails(rest) <=> r.type = "BEGIN" /\ ~ r.responder
  /\ r.type = "BEGIN" /\ r.responder => rest = <<>>

(* What it does to the dictionaries of the connection.                     *)
Stores(c, r) ==
  \A i \in Id, k \in Key :
    params'[c][i][k] = IF r.type = "PARAMS" /\ r.id = i /\ r.key = k
                         THEN r.value ELSE params[c][i][k]

LEMMA HandleInv ==
  ASSUME Inv, NEW c \in Conn, running = c, todo[c] = <<>>, inq[c] # <<>>,
         NEW r, NEW rest, Handle(c, r, rest), Handles(r, rest), Stores(c, r),
         \A d \in Conn : d # c => params'[d] = params[d],
         params' \in [Conn -> [Id -> [Key -> 0 .. MaxBegin]]],
         keep_connection' \in [Conn -> BOOLEAN], should_disconnect' = should_disconnect,
         concurrency' \in 0 .. (W - 1), concurrency_max' \in 0 .. (W - 1)
  PROVE  Inv'
<1> DEFINE n == Len(inq[c])
<1>1. Types /\ Control /\ pc[c] = "loop"
  BY ProcessAssumption DEF Inv, Control
<1>2. /\ running' = running /\ pc' = pc /\ outq' = outq /\ req' = req
      /\ begun' = begun /\ extra' = extra /\ last' = last
      /\ todo'[c] = rest /\ \A d \in Conn : d # c => todo'[d] = todo[d]
      /\ todo' \in [Conn -> Work]
  BY <1>1 DEF Handle, client, Types, Handles
<1>3. /\ r = inq[c][1] /\ r \in Record /\ n \in Nat /\ n > 0 /\ DOMAIN inq[c] = 1 .. n
      /\ DOMAIN inq'[c] = 1 .. (n - 1) /\ \A a \in DOMAIN inq'[c] : inq'[c][a] = inq[c][a + 1]
      /\ \A d \in Conn : d # c => inq'[d] = inq[d]
      /\ inq' \in [Conn -> Seq(Record)] /\ \A d \in Conn : Len(inq'[d]) <= InCap
  BY <1>1, ReadFacts DEF Handle
<1> HIDE DEF n
<1>4. Types'
  BY <1>1, <1>2, <1>3 DEF Types
<1>5. Control'
  BY <1>1, <1>2 DEF Control
<1> SUFFICES ASSUME Early PROVE Inv'
  BY <1>4, <1>5 DEF Inv
<1>6. \A d \in Conn : d # c => Local(d)'
  BY <1>2, <1>3, Elsewhere DEF Inv
<1>7. ~ Fails(todo[c]) /\ \A i : ~ Ends(todo[c], i)
  BY DEF Fails, Ends
<1>8. /\ Awaited(c) /\ Ordered(c) /\ Promised(c)
      /\ InStream(c) /\ UnreadDue(c) /\ Growing(c) /\ Role(c) /\ Given(c)
  BY <1>1, <1>7 DEF Inv, Local, Input, Live
<1>9. \A i \in Id : Due(c, i)' <=> Due(c, i)
  BY <1>2 DEF Due, Sent
(* What follows the record on its request.                                 *)
<1>10. 1 \in DOMAIN inq[c] /\ \A a \in DOMAIN inq'[c] : a + 1 \in DOMAIN inq[c] /\ 1 < a + 1
  BY <1>3
<1>11. r.type \in Asking => r.id \in Id /\ Wanted(c, r)
  BY <1>3, <1>8, <1>10, RecordTyped DEF UnreadDue
<1>12. r.type \in Asked => \A a \in DOMAIN inq'[c] : inq'[c][a].id = r.id => inq'[c][a].type \notin Asking
  BY <1>3, <1>8, <1>10 DEF InStream, Asking, Asked
<1>13. Awaited(c)' /\ Ordered(c)'
  BY <1>2, <1>8 DEF Awaited, Ordered, Sent
<1>14. \A i : Ends(rest, i) => r.type \in Asking /\ i = r.id
  BY DEF Handles, Asking, Asked
<1>15. Promised(c)'
  <2> SUFFICES ASSUME NEW i \in Id
               PROVE  /\ Ends(rest, i) => Due(c, i)'
                      /\ Sent(c, "STDOUT_END", i) => Sent(c, "END", i) \/ pc[c] # "loop"
    BY <1>2 DEF Promised, Sent
  <2>1. Ends(rest, i) => Due(c, i)'
    BY <1>9, <1>11, <1>14 DEF Wanted
  <2> QED
    BY <2>1, <1>7, <1>8 DEF Promised
<1>16. Refuses(c)'
  <2> SUFFICES ASSUME NEW i \in Id, Ends(rest, i)
               PROVE  Fails(rest) <=> ~ req[c][i].responder
    BY <1>2 DEF Refuses
  <2>1. i = r.id /\ Wanted(c, r) /\ r.type \in Asked \cup {"BEGIN"} /\ Due(c, i)
    BY <1>11, <1>14 DEF Handles, Wanted
  <2>2. CASE r.type = "BEGIN"
    BY <2>1, <2>2 DEF Handles, Wanted
  <2>3. CASE r.type \in Asked
    <3>1. ~ Unread(c, "BEGIN", i)
      <4> SUFFICES ASSUME NEW a \in DOMAIN inq[c], inq[c][a].type = "BEGIN", inq[c][a].id = i
                   PROVE  FALSE
        BY DEF Unread
      <4>1. a > 1
        BY <1>3, <2>3 DEF Asked
      <4> QED
        BY <4>1, <1>3, <1>8, <1>10, <2>1, <2>3 DEF InStream, Asking, Asked
    <3> QED
      BY <3>1, <2>1, <2>3, <1>8 DEF Role, Due, Handles, Asked
  <2> QED
    BY <2>1, <2>2, <2>3
<1>17. Input(c)'
  <2> SUFFICES ASSUME ~ Fails(rest) PROVE (InStream(c) /\ UnreadDue(c) /\ Growing(c) /\ Role(c) /\ Given(c))'
    BY <1>2 DEF Input, Live
  <2>1. \A i : Ends(rest, i) => i = r.id /\ r.type \in Asked
    BY DEF Handles, Ends
  <2>2. InStream(c)'
    <3> SUFFICES ASSUME NEW a \in DOMAIN inq'[c], NEW b \in DOMAIN inq'[c], a < b,
                        inq'[c][a].id = inq'[c][b].id,
                        inq'[c][a].type \in Asking, inq'[c][b].type \in Asking
                 PROVE  inq'[c][a].type \notin Asked /\ inq'[c][b].type # "BEGIN"
      BY DEF InStream
    <3>1. a + 1 \in DOMAIN inq[c] /\ b + 1 \in DOMAIN inq[c] /\ a + 1 < b + 1
      BY <1>3
    <3> QED
      BY <3>1, <1>3, <1>8 DEF InStream
  <2>3. UnreadDue(c)'
    <3> SUFFICES ASSUME NEW a \in DOMAIN inq'[c], inq'[c][a].type \in Asking
                 PROVE  Wanted(c, inq[c][a])'
      BY DEF UnreadDue
    <3>1. a + 1 \in DOMAIN inq[c] /\ inq'[c][a] = inq[c][a + 1] /\ inq'[c][a].id \in Id
      BY <1>1, <1>3, <1>10, InqTyped, RecordTyped
    <3>2. ~ Ends(rest, inq'[c][a].id)
      BY <2>1, <1>12
    <3> QED
      BY <3>1, <3>2, <1>2, <1>8, <1>9 DEF UnreadDue, Wanted
  <2>4. Growing(c)'
    <3> SUFFICES ASSUME NEW i \in Id, req[c][i].phase = "params"
                 PROVE  /\ Due(c, i)' /\ ~ Ends(rest, i)
                        /\ \A a \in DOMAIN inq'[c] : inq'[c][a].id = i => inq'[c][a].type \notin Asked
      BY <1>2 DEF Growing
    <3>1. /\ Due(c, i) /\ ~ Ends(todo[c], i)
          /\ \A a \in DOMAIN inq[c] : inq[c][a].id = i => inq[c][a].type \notin Asked
      BY <1>8 DEF Growing
    <3>2. ~ Ends(rest, i)
      BY <3>1, <2>1, <1>3, <1>10
    <3>3. \A a \in DOMAIN inq'[c] : inq'[c][a].id = i => inq'[c][a].type \notin Asked
      BY <3>1, <1>3, <1>10
    <3> QED
      BY <3>1, <3>2, <3>3, <1>9
  <2>5. Role(c)'
    <3> SUFFICES ASSUME NEW i \in Id, req[c][i].awaiting, ~ req[c][i].responder
                 PROVE  Unread(c, "BEGIN", i)'
      BY <1>2 DEF Role
    <3>1. PICK a \in DOMAIN inq[c] : inq[c][a].type = "BEGIN" /\ inq[c][a].id = i
      BY <1>8 DEF Role, Unread
    <3>2. a # 1
      BY <3>1, <1>3, <1>11 DEF Handles, Wanted, Asking
    <3>3. a - 1 \in DOMAIN inq'[c] /\ inq'[c][a - 1] = inq[c][a]
      BY <3>2, <1>3
    <3> QED
      BY <3>1, <3>3 DEF Unread
  <2>6. Given(c)'
    <3> SUFFICES ASSUME NEW i \in Id, NEW k \in req[c][i].keys
                 PROVE  params'[c][i][k] = req[c][i].serial \/ UnreadParam(c, i, k)'
      BY <1>2 DEF Given
    <3>1. k \in Key
      BY <1>1 DEF Types, Request
    <3>2. CASE r.type = "PARAMS" /\ r.id = i /\ r.key = k
      BY <3>1, <3>2, <1>11 DEF Stores, Wanted, Asking
    <3>3. CASE ~ (r.type = "PARAMS" /\ r.id = i /\ r.key = k)
      <4>1. params'[c][i][k] = params[c][i][k]
        BY <3>1, <3>3 DEF Stores
      <4>2. ASSUME UnreadParam(c, i, k) PROVE UnreadParam(c, i, k)'
        <5>1. PICK a \in DOMAIN inq[c] : inq[c][a].type = "PARAMS" /\ inq[c][a].id = i /\ inq[c][a].key = k
          BY <4>2 DEF UnreadParam
        <5>2. a # 1
          BY <5>1, <3>3, <1>3
        <5>3. a - 1 \in DOMAIN inq'[c] /\ inq'[c][a - 1] = inq[c][a]
          BY <5>2, <1>3
        <5> QED
          BY <5>1, <5>3 DEF UnreadParam
      <4> QED
        BY <4>1, <4>2, <1>8 DEF Given
    <3> QED
      BY <3>2, <3>3
  <2> QED
    BY <2>2, <2>3, <2>4, <2>5, <2>6
<1> QED
  BY <1>4, <1>5, <1>6, <1>13, <1>15, <1>16, <1>17 DEF Inv, Local

LEMMA JoinFirst ==
  ASSUME NEW p, NEW q, NEW r, NEW s
  PROVE  <<p>> \o <<q, r, s>> = <<p, q, r, s>>
<1> DEFINE S == {p, q, r, s}
<1>1. <<p>> \in Seq(S) /\ <<q, r, s>> \in Seq(S) /\ <<p, q, r, s>> \in Seq(S)
  OBVIOUS
<1>2. <<p>> \o <<q, r, s>> \in Seq(S)
  BY <1>1
<1>3. Len(<<p>> \o <<q, r, s>>) = 4 /\ \A k \in 1 .. 4 : (<<p>> \o <<q, r, s>>)[k] = <<p, q, r, s>>[k]
  OBVIOUS
<1> QED
  BY <1>1, <1>2, <1>3, SeqEqual

LEMMA JoinLast ==
  ASSUME NEW p, NEW q, NEW r, NEW s
  PROVE  <<p, q, r>> \o <<s>> = <<p, q, r, s>>
<1> DEFINE S == {p, q, r, s}
<1>1. <<p, q, r>> \in Seq(S) /\ <<s>> \in Seq(S) /\ <<p, q, r, s>> \in Seq(S)
  OBVIOUS
<1>2. <<p, q, r>> \o <<s>> \in Seq(S)
  BY <1>1
<1>3. Len(<<p, q, r>> \o <<s>>) = 4 /\ \A k \in 1 .. 4 : (<<p, q, r>> \o <<s>>)[k] = <<p, q, r, s>>[k]
  OBVIOUS
<1> QED
  BY <1>1, <1>2, <1>3, SeqEqual

LEMMA JoinFail ==
  ASSUME NEW p, NEW q, NEW r, NEW s, NEW t
  PROVE  <<p, q, r, s>> \o <<t>> = <<p, q, r, s, t>>
<1> DEFINE S == {p, q, r, s, t}
<1>1. <<p, q, r, s>> \in Seq(S) /\ <<t>> \in Seq(S) /\ <<p, q, r, s, t>> \in Seq(S)
  OBVIOUS
<1>2. <<p, q, r, s>> \o <<t>> \in Seq(S)
  BY <1>1
<1>3. Len(<<p, q, r, s>> \o <<t>>) = 5 /\ \A k \in 1 .. 5 : (<<p, q, r, s>> \o <<t>>)[k] = <<p, q, r, s, t>>[k]
  OBVIOUS
<1> QED
  BY <1>1, <1>2, <1>3, SeqEqual

LEMMA RestFacts ==
  ASSUME NEW i
  PROVE  /\ request_end(i) = <<Close(i), End(i), Dec>>
         /\ request_handle(i) = <<Stdout(i), Close(i), End(i), Dec>>
         /\ request_end(i) \o <<Do("disconnect")>> = <<Close(i), End(i), Dec, Disc>>
         /\ <<Attempt("STDERR", i)>> \o request_end(i) \o <<Do("fail")>>
              = <<Stderr(i), Close(i), End(i), Dec, Fail>>
<1>1. request_end(i) = <<Close(i), End(i), Dec>>
  BY DEF request_end, Close, End, Dec
<1>2. request_handle(i) = <<Stdout(i), Close(i), End(i), Dec>>
  BY <1>1, JoinFirst DEF request_handle, Stdout
<1>3. request_end(i) \o <<Do("disconnect")>> = <<Close(i), End(i), Dec, Disc>>
  BY <1>1, JoinLast DEF Disc
<1>4. <<Attempt("STDERR", i)>> \o request_end(i) \o <<Do("fail")>>
        = <<Stderr(i), Close(i), End(i), Dec, Fail>>
  <2>1. <<Stderr(i)>> \o request_end(i) = <<Stderr(i), Close(i), End(i), Dec>>
    BY <1>1, JoinFirst
  <2>2. <<Stderr(i), Close(i), End(i), Dec>> \o <<Fail>> = <<Stderr(i), Close(i), End(i), Dec, Fail>>
    BY JoinFail
  <2> QED
    BY <2>1, <2>2 DEF Stderr, Fail
<1> QED
  BY <1>1, <1>2, <1>3, <1>4

(* What is left of a handler that will end request i.                      *)
LEMMA EndsFacts ==
  ASSUME NEW i \in Id
  PROVE  /\ request_handle(i) \in Answering(i) /\ request_handle(i) \in Work
         /\ request_end(i) \o <<Do("disconnect")>> \in Aborting(i)
         /\ request_end(i) \o <<Do("disconnect")>> \in Work
         /\ <<Attempt("STDERR", i)>> \o request_end(i) \o <<Do("fail")>> \in Refusing(i)
         /\ <<Attempt("STDERR", i)>> \o request_end(i) \o <<Do("fail")>> \in Work
<1>1. /\ request_handle(i) \in Answering(i)
      /\ request_end(i) \o <<Do("disconnect")>> \in Aborting(i)
      /\ <<Attempt("STDERR", i)>> \o request_end(i) \o <<Do("fail")>> \in Refusing(i)
  BY RestFacts DEF Answering, Aborting, Refusing
<1>2. \A t : t \in Answering(i) \/ t \in Aborting(i) \/ t \in Refusing(i) => t \in Work
  BY DEF Work, Ending
<1> QED
  BY <1>1, <1>2

LEMMA NothingFacts ==
  /\ <<>> \in Work /\ ~ Fails(<<>>) /\ \A i : ~ Ends(<<>>, i)
  /\ <<Unknown>> \in Work /\ ~ Fails(<<Unknown>>) /\ \A i : ~ Ends(<<Unknown>>, i)
  /\ <<Disc>> \in Work /\ ~ Fails(<<Disc>>) /\ \A i : ~ Ends(<<Disc>>, i)
<1>1. <<>> \in Others /\ <<Unknown>> \in Others /\ <<Disc>> \in Others
  BY DEF Others
<1> QED
  BY <1>1, EndedFacts, OthersFacts DEF Work

LEMMA DispatchInv ==
  ASSUME Inv, NEW c \in Conn, Dispatch(c)
  PROVE  Inv'
<1> DEFINE r == Head(inq[c])
<1>1. running = c /\ todo[c] = <<>> /\ inq[c] # <<>> /\ Types
  BY DEF Dispatch, Reads, Inv
<1>2. r \in Record
  BY <1>1, TailFacts DEF Types
<1>3. /\ keep_connection \in [Conn -> BOOLEAN] /\ params \in [Conn -> [Id -> [Key -> 0 .. MaxBegin]]]
      /\ concurrency \in 0 .. (W - 1) /\ concurrency_max \in 0 .. (W - 1)
  BY <1>1 DEF Types
<1> HIDE DEF r
<1>4. CASE process_begin_request(c, r)
  <2>1. r.type = "BEGIN" /\ r.id \in Id /\ r.keep \in BOOLEAN /\ r.responder \in BOOLEAN
    BY <1>2, <1>4, RecordTyped DEF process_begin_request, Asking
  <2>2. /\ keep_connection' \in [Conn -> BOOLEAN] /\ should_disconnect' = should_disconnect
        /\ params' = params
    BY <1>3, <1>4, <2>1 DEF process_begin_request
  <2>3. Stores(c, r)
    BY <2>1, <2>2 DEF Stores
  <2>4. CASE r.responder
    <3>1. Handles(r, <<>>)
      BY <2>1, <2>4, NothingFacts DEF Handles
    <3>2. concurrency' \in 0 .. (W - 1) /\ concurrency_max' \in 0 .. (W - 1)
      <4>1. concurrency' = (concurrency + 1) % W
            /\ (concurrency_max' = concurrency' \/ concurrency_max' = concurrency_max)
        BY <1>4, <2>4 DEF process_begin_request
      <4>2. \A w \in Nat, x \in Int : w > 0 => (x % w) \in 0 .. (w - 1)
        OBVIOUS
      <4> QED
        BY <1>3, <4>1, <4>2, ProcessAssumption
    <3> QED
      BY <1>1, <1>3, <1>4, <2>2, <2>3, <2>4, <3>1, <3>2, HandleInv DEF process_begin_request
  <2>5. CASE ~ r.responder
    <3> DEFINE rest == <<Attempt("STDERR", r.id)>> \o request_end(r.id) \o <<Do("fail")>>
    <3>1. Handles(r, rest)
      BY <2>1, <2>5, EndsFacts, RefusingFacts DEF Handles
    <3>2. Handle(c, r, rest) /\ concurrency' = concurrency /\ concurrency_max' = concurrency_max
      BY <1>4, <2>5 DEF process_begin_request, counts
    <3> HIDE DEF rest
    <3> QED
      BY <1>1, <1>3, <2>2, <2>3, <3>1, <3>2, HandleInv
  <2> QED
    BY <2>4, <2>5
<1>5. ASSUME r.type # "BEGIN", r.type # "PARAMS",
             UNCHANGED <<keep_connection, should_disconnect, params, counts>>,
             NEW rest, Handle(c, r, rest), rest \in Work, ~ Fails(rest),
             \A i : Ends(rest, i) => i = r.id /\ r.type \in Asked
      PROVE  Inv'
  <2>1. Handles(r, rest) /\ Stores(c, r)
    BY <1>5 DEF Handles, Stores
  <2> QED
    BY <1>1, <1>3, <1>5, <2>1, HandleInv DEF counts
<1>6. CASE process_abort_request(c, r)
  <2>1. r.type = "ABORT" /\ r.id \in Id
    BY <1>2, <1>6, RecordTyped DEF process_abort_request, Asking
  <2> QED
    <3> DEFINE rest == request_end(r.id) \o <<Do("disconnect")>>
    <3>1. rest \in Work /\ ~ Fails(rest) /\ \A i : Ends(rest, i) => i = r.id
      BY <2>1, EndsFacts, AbortingFacts
    <3>2. Handle(c, r, rest) /\ UNCHANGED <<keep_connection, should_disconnect, params, counts>>
      BY <1>6 DEF process_abort_request
    <3> HIDE DEF rest
    <3> QED
      BY <1>5, <2>1, <3>1, <3>2 DEF Asked
<1>7. CASE process_params(c, r)
  <2>1. CASE r.type = "PARAMS_END"
    <3>1. r.id \in Id
      BY <1>2, <2>1, RecordTyped DEF Asking
    <3> QED
      BY <1>5, <1>7, <2>1, <3>1, EndsFacts, AnsweringFacts DEF process_params, Asked
  <2>2. CASE r.type = "PARAMS"
    <3>1. r.id \in Id /\ r.key \in Key /\ r.value \in 0 .. MaxBegin
      BY <1>2, <2>2, RecordTyped DEF Asking
    <3>2. /\ Handle(c, r, <<>>) /\ params' = [params EXCEPT ![c][r.id][r.key] = r.value]
          /\ keep_connection' = keep_connection /\ should_disconnect' = should_disconnect
          /\ concurrency' = concurrency /\ concurrency_max' = concurrency_max
      BY <1>7, <2>2 DEF process_params, counts
    <3>3. /\ params' \in [Conn -> [Id -> [Key -> 0 .. MaxBegin]]]
          /\ \A d \in Conn : d # c => params'[d] = params[d]
      BY <1>3, <3>1, <3>2
    <3>4. Stores(c, r)
      BY <1>3, <2>2, <3>1, <3>2 DEF Stores
    <3>5. Handles(r, <<>>)
      BY <2>2, NothingFacts DEF Handles
    <3> QED
      BY <1>1, <1>3, <3>2, <3>3, <3>4, <3>5, HandleInv
  <2> QED
    BY <1>7, <2>1, <2>2 DEF process_params
<1>8. CASE process_stdin(c, r)
  BY <1>5, <1>8, NothingFacts DEF process_stdin, Disc
<1>9. CASE process_unknown(c, r)
  BY <1>5, <1>9, NothingFacts DEF process_unknown, Unknown
<1> QED
  BY <1>4, <1>6, <1>7, <1>8, <1>9 DEF Dispatch, r

-----------------------------------------------------------------------------
(* The rest of a handler.                                                  *)

LEMMA WriteHead ==
  ASSUME NEW t \in Work, t # <<>>, Head(t).op \in {"write", "try"}
  PROVE  LET s == Head(t) IN
         /\ [type |-> s.type, id |-> s.id] \in Output /\ Tail(t) \in Work
         /\ Fails(Tail(t)) <=> Fails(t)
         /\ s.type # "UNKNOWN" => Ends(t, s.id)
         /\ \A j : Ends(t, j) => s.type # "UNKNOWN" /\ j = s.id
         /\ \A j : Ends(Tail(t), j) => Ends(t, j) /\ s.type # "END"
         /\ s.type = "STDOUT_END" => Ends(Tail(t), s.id) /\ Head(Tail(t)) = End(s.id)
         /\ \A j : s = End(j) => s.type = "END" /\ s.op = "write"
         /\ s.op = "try" => Fails(t)
<1>1. CASE t = <<Unknown>>
  <2>1. Head(t) = Unknown /\ Tail(t) = <<>>
    BY <1>1
  <2> QED
    BY <1>1, <2>1, NothingFacts DEF Output, Unknown, Write, End
<1>2. ASSUME NEW i \in Id, t \in Ending(i)
      PROVE  LET s == Head(t) IN
             /\ [type |-> s.type, id |-> s.id] \in Output /\ Tail(t) \in Work
             /\ Fails(Tail(t)) <=> Fails(t)
             /\ s.type # "UNKNOWN" => Ends(t, s.id)
             /\ \A j : Ends(t, j) => s.type # "UNKNOWN" /\ j = s.id
             /\ \A j : Ends(Tail(t), j) => Ends(t, j) /\ s.type # "END"
             /\ s.type = "STDOUT_END" => Ends(Tail(t), s.id) /\ Head(Tail(t)) = End(s.id)
             /\ \A j : s = End(j) => s.type = "END" /\ s.op = "write"
             /\ s.op = "try" => Fails(t)
  <2> DEFINE s == Head(t)
             u == Tail(t)
  <2>1. /\ Ends(t, i) /\ \A j : Ends(t, j) => j = i
        /\ \/ s \in {Stdout(i), Stderr(i)} /\ u \in Ending(i)
           \/ s = Close(i) /\ u \in Ending(i) /\ Head(u) = End(i)
           \/ s = End(i) /\ u \in Ended
        /\ Fails(u) <=> Fails(t)
    BY <1>2, EndingHead
  <2>2. u \in Ending(i) => Ends(u, i) /\ \A j : Ends(u, j) => j = i
    BY EndingHead
  <2>3. u \in Ended => \A j : ~ Ends(u, j)
    BY EndedFacts
  <2>4. \A v : v \in Ending(i) \/ v \in Ended => v \in Work
    BY DEF Work
  <2>5. s = Stderr(i) => Fails(t)
    <3>1. \A v \in Answering(i) : Head(v) # Stderr(i)
      BY AnsweringHead DEF Stdout, Close, End, Stderr, Write, Attempt
    <3>2. \A v \in Aborting(i) : Head(v) # Stderr(i)
      BY AbortingHead DEF Close, End, Stderr, Write, Attempt
    <3> QED
      BY <1>2, <3>1, <3>2, RefusingFacts DEF Ending
  <2> HIDE DEF s, u
  <2>6. /\ s.id = i /\ s.type \in {"STDOUT", "STDERR", "STDOUT_END", "END"}
        /\ s.type = "END" <=> s = End(i)
        /\ s.type = "STDOUT_END" <=> s = Close(i)
        /\ s.op = "try" => s = Stderr(i)
        /\ \A j : s = End(j) => s.type = "END" /\ s.op = "write"
    BY <2>1 DEF Stdout, Stderr, Close, End, Write, Attempt
  <2>7. [type |-> s.type, id |-> s.id] \in Output
    BY <2>6 DEF Output
  <2>8. \A j : Ends(u, j) => Ends(t, j) /\ s.type # "END"
    <3>1. s = End(i) => u \notin Ending(i) \/ u \in Ended
      BY <2>1 DEF Stdout, Stderr, Close, End, Write, Attempt
    <3> QED
      BY <3>1, <2>1, <2>2, <2>3, <2>6
  <2>9. s.type = "STDOUT_END" => Ends(u, i) /\ Head(u) = End(i)
    <3>1. Close(i) # End(i) /\ Close(i) # Stdout(i) /\ Close(i) # Stderr(i)
      BY DEF Stdout, Stderr, Close, End, Write, Attempt
    <3> QED
      BY <3>1, <2>1, <2>2, <2>6
  <2>10. u \in Work /\ (Fails(u) <=> Fails(t))
    BY <2>1, <2>4
  <2> QED
    BY <2>1, <2>5, <2>6, <2>7, <2>8, <2>9, <2>10 DEF s, u
<1> QED
  BY <1>1, <1>2, WorkHead

(* What is sent afterwards.                                                *)
LEMMA WriteSent ==
  ASSUME Types, NEW c \in Conn, _write(c)
  PROVE  \A type, i : Sent(c, type, i)' <=>
           Sent(c, type, i) \/ (Head(todo[c]).type = type /\ Head(todo[c]).id = i)
<1> DEFINE s == Head(todo[c])
           e == [type |-> s.type, id |-> s.id]
           n == Len(outq[c]) + 1
<1>1. outq'[c] = Append(outq[c], e) /\ outq[c] \in Seq(Output) /\ e \in Output
  <2>1. todo[c] \in Work /\ todo[c] # <<>> /\ Head(todo[c]).op \in {"write", "try"}
    BY DEF Types, _write, Writes
  <2>2. e \in Output
    BY <2>1, WriteHead
  <2> QED
    BY <2>2 DEF Types, _write
<1>2. e.type = s.type /\ e.id = s.id
  OBVIOUS
<1> HIDE DEF s, e
<1>3. /\ n \in Nat /\ n > 0 /\ DOMAIN outq[c] = 1 .. (n - 1) /\ DOMAIN outq'[c] = 1 .. n
      /\ outq'[c][n] = e /\ \A a \in DOMAIN outq[c] : outq'[c][a] = outq[c][a]
  BY <1>1, AppendFacts
<1> HIDE DEF n
<1>4. \A type, i : Sent(c, type, i)' <=> Sent(c, type, i) \/ (s.type = type /\ s.id = i)
  <2> SUFFICES ASSUME NEW type, NEW i
               PROVE  Sent(c, type, i)' <=> Sent(c, type, i) \/ (s.type = type /\ s.id = i)
    OBVIOUS
  <2>1. ASSUME Sent(c, type, i)' PROVE Sent(c, type, i) \/ (s.type = type /\ s.id = i)
    <3>1. PICK a \in DOMAIN outq'[c] : outq'[c][a].type = type /\ outq'[c][a].id = i
      BY <2>1 DEF Sent
    <3>2. CASE a = n
      BY <3>1, <3>2, <1>2, <1>3
    <3>3. CASE a # n
      BY <3>1, <3>3, <1>3 DEF Sent
    <3> QED
      BY <3>2, <3>3
  <2>2. ASSUME Sent(c, type, i) PROVE Sent(c, type, i)'
    BY <2>2, <1>3 DEF Sent
  <2>3. ASSUME s.type = type, s.id = i PROVE Sent(c, type, i)'
    BY <2>3, <1>2, <1>3 DEF Sent
  <2> QED
    BY <2>1, <2>2, <2>3
<1> QED
  BY <1>4 DEF s

LEMMA WriteInv ==
  ASSUME Inv, NEW c \in Conn, _write(c)
  PROVE  Inv'
<1> DEFINE t == todo[c]
           s == Head(t)
           u == Tail(t)
           e == [type |-> s.type, id |-> s.id]
           n == Len(outq[c]) + 1
<1>1. Types /\ Control /\ pc[c] = "loop" /\ running = c
  BY ProcessAssumption DEF Inv, Control, _write
<1>2. /\ running' = running /\ pc' = pc /\ params' = params /\ inq' = inq /\ req' = req
      /\ keep_connection' = keep_connection /\ should_disconnect' = should_disconnect
      /\ concurrency' = concurrency /\ concurrency_max' = concurrency_max
      /\ begun' = begun /\ extra' = extra /\ last' = last
  BY DEF _write, counts, client
<1>3. /\ todo'[c] = u /\ \A d \in Conn : d # c => todo'[d] = todo[d] /\ outq'[d] = outq[d]
      /\ outq'[c] = Append(outq[c], e) /\ Len(outq[c]) < OutCap
      /\ todo' = [todo EXCEPT ![c] = u] /\ outq' = [outq EXCEPT ![c] = Append(outq[c], e)]
  BY <1>1 DEF _write, Types
<1>4. /\ e \in Output /\ u \in Work /\ (Fails(u) <=> Fails(t))
      /\ s.type # "UNKNOWN" => Ends(t, s.id)
      /\ \A j : Ends(t, j) => s.type # "UNKNOWN" /\ j = s.id
      /\ \A j : Ends(u, j) => Ends(t, j) /\ s.type # "END"
      /\ s.type = "STDOUT_END" => Ends(u, s.id) /\ Head(u) = End(s.id)
      /\ \A j : s = End(j) => s.type = "END"
  <2>1. t \in Work /\ t # <<>> /\ Head(t).op \in {"write", "try"}
    BY <1>1 DEF Types, _write, Writes
  <2> HIDE DEF t
  <2> QED
    BY <2>1, WriteHead
<1>5. e.type = s.type /\ e.id = s.id
  OBVIOUS
<1> HIDE DEF e, s, u, n
<1>6. /\ n \in Nat /\ n > 0 /\ DOMAIN outq[c] = 1 .. (n - 1) /\ DOMAIN outq'[c] = 1 .. n
      /\ outq'[c] \in Seq(Output) /\ Len(outq'[c]) = n
      /\ outq'[c][n] = e /\ \A a \in DOMAIN outq[c] : outq'[c][a] = outq[c][a]
  <2>1. outq[c] \in Seq(Output)
    BY <1>1 DEF Types
  <2> QED
    BY <1>3, <1>4, <2>1, AppendFacts DEF n
<1>7. Types'
  <2>1. todo' \in [Conn -> Work]
    BY <1>1, <1>3, <1>4 DEF Types
  <2>2. outq' \in [Conn -> Seq(Output)]
    <3>1. Append(outq[c], e) \in Seq(Output)
      BY <1>3, <1>6
    <3> QED
      BY <1>1, <1>3, <3>1 DEF Types
  <2>3. \A d \in Conn : Len(outq'[d]) <= OutCap
    <3>1. Len(outq'[c]) <= OutCap
      BY <1>3, <1>6, ProcessAssumption DEF n
    <3> QED
      BY <1>1, <1>3, <3>1 DEF Types
  <2> QED
    BY <1>1, <1>2, <2>1, <2>2, <2>3 DEF Types
<1>8. Control'
  BY <1>1, <1>2, <1>3 DEF Control
<1> SUFFICES ASSUME Early PROVE Inv'
  BY <1>7, <1>8 DEF Inv
<1>9. \A d \in Conn : d # c => Local(d)'
  BY <1>2, <1>3, Elsewhere DEF Inv
<1>10. Awaited(c) /\ Ordered(c) /\ Promised(c) /\ Refuses(c) /\ Input(c)
  BY DEF Inv, Local
<1>11. \A type, i : Sent(c, type, i)' <=> Sent(c, type, i) \/ (s.type = type /\ s.id = i)
  BY <1>1, WriteSent DEF s, t
<1>12. \A i \in Id : ~ Ends(t, i) => (Due(c, i)' <=> Due(c, i))
  BY <1>2, <1>4, <1>11 DEF Due
<1>13. \A i \in Id : Ends(t, i) => Due(c, i) /\ i = s.id /\ s.type # "UNKNOWN"
  BY <1>4, <1>10 DEF Promised
<1>14. Awaited(c)'
  BY <1>2, <1>4, <1>10, <1>11, <1>13 DEF Awaited, Due
<1>15. Ordered(c)'
  <2> SUFFICES ASSUME NEW a \in DOMAIN outq'[c], NEW b \in DOMAIN outq'[c], a < b,
                      outq'[c][a].id = outq'[c][b].id, outq'[c][b].type # "UNKNOWN"
               PROVE  /\ outq'[c][a].type # "END"
                      /\ outq'[c][a].type = "STDOUT_END" => outq'[c][b].type = "END"
    BY DEF Ordered
  <2>1. a \in DOMAIN outq[c]
    BY <1>6
  <2>2. CASE b # n
    <3>1. b \in DOMAIN outq[c]
      BY <2>2, <1>6
    <3> QED
      BY <2>1, <3>1, <1>6, <1>10 DEF Ordered
  <2>3. CASE b = n
    <3>1. outq'[c][b] = e /\ outq'[c][a] = outq[c][a] /\ s.type # "UNKNOWN" /\ outq[c][a].id = s.id
      BY <2>1, <2>3, <1>5, <1>6
    <3>2. Ends(t, s.id) /\ s.id \in Id
      BY <3>1, <1>4, <1>5 DEF Output
    <3>3. ~ Sent(c, "END", s.id)
      BY <3>2, <1>13 DEF Due
    <3>4. outq[c][a].type # "END"
      BY <2>1, <3>1, <3>3 DEF Sent
    <3>5. outq[c][a].type = "STDOUT_END" => s.type = "END"
      BY <2>1, <3>1, <3>2, <3>3, <1>1, <1>4, <1>10 DEF Sent, Promised, s
    <3> QED
      BY <3>1, <3>4, <3>5, <1>5
  <2> QED
    BY <2>2, <2>3
<1>16. Promised(c)'
  <2> SUFFICES ASSUME NEW i \in Id
               PROVE  /\ Ends(u, i) => Due(c, i)'
                      /\ Sent(c, "STDOUT_END", i)' =>
                           \/ Sent(c, "END", i)' \/ pc[c] # "loop"
                           \/ Ends(u, i) /\ Head(u) = End(i)
    BY <1>2, <1>3 DEF Promised
  <2>1. Ends(u, i) => Due(c, i)'
    BY <1>2, <1>4, <1>11, <1>13 DEF Due
  <2>2. CASE s.type = "STDOUT_END" /\ s.id = i
    BY <2>1, <2>2, <1>4
  <2>3. CASE Sent(c, "STDOUT_END", i)
    <3>1. Sent(c, "END", i) \/ (Ends(t, i) /\ s = End(i))
      BY <2>3, <1>1, <1>10 DEF Promised, s
    <3> QED
      BY <2>1, <3>1, <1>4, <1>11
  <2> QED
    BY <2>1, <2>2, <2>3, <1>11
<1>17. Refuses(c)'
  BY <1>2, <1>3, <1>4, <1>10 DEF Refuses
<1>18. Input(c)'
  <2> SUFFICES ASSUME Live(c) PROVE (InStream(c) /\ UnreadDue(c) /\ Growing(c) /\ Role(c) /\ Given(c))'
    BY <1>2, <1>3, <1>4 DEF Input, Live
  <2>1. InStream(c) /\ UnreadDue(c) /\ Growing(c) /\ Role(c) /\ Given(c)
    BY <1>10 DEF Input
  <2>2. InStream(c)' /\ Role(c)' /\ Given(c)'
    BY <2>1, <1>2 DEF InStream, Role, Given, Unread, UnreadParam
  <2>3. UnreadDue(c)'
    <3> SUFFICES ASSUME NEW a \in DOMAIN inq[c], inq[c][a].type \in Asking
                 PROVE  Wanted(c, inq[c][a])'
      BY <1>2 DEF UnreadDue
    <3>1. Wanted(c, inq[c][a]) /\ inq[c][a].id \in Id
      BY <2>1, <1>1, InqTyped, RecordTyped DEF UnreadDue
    <3> QED
      BY <3>1, <1>2, <1>3, <1>4, <1>12 DEF Wanted
  <2>4. Growing(c)'
    BY <2>1, <1>2, <1>3, <1>4, <1>12 DEF Growing
  <2> QED
    BY <2>2, <2>3, <2>4
<1> QED
  BY <1>7, <1>8, <1>9, <1>14, <1>15, <1>16, <1>17, <1>18 DEF Inv, Local

(* A step of a handler that writes nothing.                                *)
LEMMA QuietInv ==
  ASSUME Inv, NEW c \in Conn, running' = c, pc[c] = "loop", NEW u \in Work,
         running \in {c, "hub"}, todo' = [todo EXCEPT ![c] = u],
         Fails(u) <=> Fails(todo[c]), \A i : Ends(u, i) <=> Ends(todo[c], i),
         \A i : Ends(todo[c], i) => Head(todo[c]) # End(i),
         UNCHANGED <<pc, params, inq, outq, client, keep_connection>>,
         should_disconnect' \in [Conn -> BOOLEAN],
         concurrency' \in 0 .. (W - 1), concurrency_max' = concurrency_max
  PROVE  Inv'
<1>1. Types /\ Control
  BY DEF Inv
<1>2. /\ req' = req /\ begun' = begun /\ extra' = extra /\ last' = last
      /\ todo'[c] = u /\ (\A d \in Conn : d # c => todo'[d] = todo[d]) /\ todo' \in [Conn -> Work]
  BY <1>1 DEF client, Types
<1>3. Types'
  BY <1>1, <1>2 DEF Types
<1>4. Control'
  BY <1>1, <1>2, ProcessAssumption DEF Control
<1> SUFFICES ASSUME Early PROVE Inv'
  BY <1>3, <1>4 DEF Inv
<1>5. Local(c)
  BY DEF Inv
<1>6. \A d \in Conn : d # c => Local(d)'
  BY <1>2, Elsewhere DEF Inv
<1>7. \A type, i : Sent(c, type, i)' <=> Sent(c, type, i)
  BY DEF Sent
<1>8. \A i \in Id : Due(c, i)' <=> Due(c, i)
  BY <1>2 DEF Due, Sent
<1>9. Awaited(c)' /\ Ordered(c)' /\ Promised(c)' /\ Refuses(c)'
  BY <1>5, <1>2, <1>7, <1>8 DEF Local, Awaited, Ordered, Promised, Refuses
<1>10. Input(c)'
  <2> SUFFICES ASSUME Live(c) PROVE (InStream(c) /\ UnreadDue(c) /\ Growing(c) /\ Role(c) /\ Given(c))'
    BY <1>2 DEF Input, Live
  <2>1. InStream(c) /\ UnreadDue(c) /\ Growing(c) /\ Role(c) /\ Given(c)
    BY <1>5 DEF Local, Input
  <2>2. InStream(c)' /\ Role(c)' /\ Given(c)'
    BY <2>1, <1>2 DEF InStream, Role, Given, Unread, UnreadParam
  <2>3. UnreadDue(c)'
    <3> SUFFICES ASSUME NEW a \in DOMAIN inq[c], inq[c][a].type \in Asking
                 PROVE  Wanted(c, inq[c][a])'
      BY DEF UnreadDue
    <3>1. Wanted(c, inq[c][a]) /\ inq[c][a].id \in Id
      BY <2>1, <1>1, InqTyped, RecordTyped DEF UnreadDue
    <3> QED
      BY <3>1, <1>2, <1>8 DEF Wanted
  <2>4. Growing(c)'
    BY <2>1, <1>2, <1>8 DEF Growing
  <2> QED
    BY <2>2, <2>3, <2>4
<1> QED
  BY <1>3, <1>4, <1>6, <1>9, <1>10 DEF Inv, Local

(* The rest of a handler whose request is ended.                           *)
LEMMA EndedTail ==
  /\ \A t \in Ended : /\ Tail(t) \in Work /\ (Fails(Tail(t)) <=> Fails(t))
                      /\ \A i : ~ Ends(t, i) /\ ~ Ends(Tail(t), i)
  /\ Tail(<<Disc>>) = <<>>
<1>1. Tail(<<Dec>>) = <<>> /\ Tail(<<Dec, Disc>>) = <<Disc>> /\ Tail(<<Dec, Fail>>) = <<Fail>>
      /\ Tail(<<Disc>>) = <<>>
  OBVIOUS
<1>2. \A t \in Others : t \in Work
  BY DEF Work
<1>3. /\ <<>> \in Others /\ <<Disc>> \in Others /\ <<Fail>> \in Others
      /\ \A t \in Ended \cup Others : \A i : ~ Ends(t, i)
  BY EndedFacts DEF Others
<1> QED
  BY <1>1, <1>2, <1>3, OthersFacts DEF Ended

LEMMA DecrementInv ==
  ASSUME Inv, NEW c \in Conn, Decrement(c)
  PROVE  Inv'
<1>1. Types /\ running = c /\ pc[c] = "loop" /\ todo[c] \in Work
  BY ProcessAssumption DEF Inv, Control, Decrement, Effect, Types
<1>2. todo[c] \in Ended
  BY <1>1, WorkHead DEF Decrement, Effect
<1>3. concurrency' \in 0 .. (W - 1)
  <2>1. \A w \in Nat, x \in Int : w > 0 => (x % w) \in 0 .. (w - 1)
    OBVIOUS
  <2> QED
    BY <1>1, <2>1, ProcessAssumption DEF Decrement, Types
<1>4. /\ todo' = [todo EXCEPT ![c] = Tail(todo[c])] /\ running' = running
      /\ UNCHANGED <<pc, params, inq, outq, client, keep_connection>>
      /\ should_disconnect' \in [Conn -> BOOLEAN] /\ concurrency_max' = concurrency_max
  BY <1>1 DEF Decrement, Effect, Types
<1> QED
  BY <1>1, <1>2, <1>3, <1>4, EndedTail, QuietInv

LEMMA DisconnectInv ==
  ASSUME Inv, NEW c \in Conn, Disconnect(c)
  PROVE  Inv'
<1>1. Types /\ running = c /\ pc[c] = "loop" /\ todo[c] \in Work
  BY ProcessAssumption DEF Inv, Control, Disconnect, Effect, Types
<1>2. todo[c] = <<Disc>>
  BY <1>1, WorkHead DEF Disconnect, Effect
<1>3. should_disconnect' \in [Conn -> BOOLEAN] /\ concurrency' \in 0 .. (W - 1)
  BY <1>1 DEF Disconnect, counts, Types
<1>4. /\ todo' = [todo EXCEPT ![c] = <<>>] /\ running' = running
      /\ UNCHANGED <<pc, params, inq, outq, client, keep_connection>>
      /\ concurrency_max' = concurrency_max
  BY <1>1, <1>2, EndedTail DEF Disconnect, Effect, counts
<1>5. /\ ~ Fails(<<>>) /\ ~ Fails(<<Disc>>)
      /\ \A i : ~ Ends(<<>>, i) /\ ~ Ends(<<Disc>>, i)
  BY NothingFacts
<1> QED
  BY <1>1, <1>2, <1>3, <1>4, <1>5, NothingFacts, QuietInv

LEMMA TryFailsInv ==
  ASSUME Inv, NEW c \in Conn, CanFail(c), Writes(c), Head(todo[c]).op = "try", running' = c,
         todo' = [todo EXCEPT ![c] = Tail(@)],
         UNCHANGED <<pc, keep_connection, should_disconnect, params, counts, inq, outq, client>>
  PROVE  Inv'
<1> DEFINE t == todo[c]
<1>1. Types /\ t \in Work /\ t # <<>> /\ Head(t).op = "try" /\ pc[c] = "loop" /\ running \in {c, "hub"}
  BY DEF Inv, Types, Writes, CanFail
<1>2. should_disconnect' \in [Conn -> BOOLEAN] /\ concurrency' \in 0 .. (W - 1)
      /\ concurrency_max' = concurrency_max
  BY <1>1 DEF Types, counts
<1> HIDE DEF t
<1>3. \E i \in Id : t \in Ending(i)
  <2>1. t # <<Unknown>>
    BY <1>1 DEF Unknown, Write
  <2> QED
    BY <1>1, <2>1, WorkHead
<1>4. PICK i \in Id : t \in Ending(i)
  BY <1>3
<1>5. /\ Ends(t, i) /\ \A j : Ends(t, j) => j = i
      /\ Head(t) \in {Stdout(i), Stderr(i), Close(i), End(i)}
      /\ Tail(t) \in Ending(i) \/ Head(t) = End(i)
      /\ Fails(Tail(t)) <=> Fails(t)
  BY <1>4, EndingHead
<1>6. Head(t) = Stderr(i) /\ Stderr(i) \notin {Close(i), End(i)}
  BY <1>1, <1>5 DEF Stdout, Stderr, Close, End, Write, Attempt
<1>7. Tail(t) \in Ending(i) /\ Ends(Tail(t), i) /\ \A j : Ends(Tail(t), j) => j = i
  BY <1>5, <1>6, EndingHead
<1>8. Tail(t) \in Work
  BY <1>7 DEF Work
<1>9. \A j : Ends(t, j) => Head(t) # End(j)
  BY <1>5, <1>6
<1> QED
  BY <1>1, <1>2, <1>5, <1>7, <1>8, <1>9, QuietInv DEF t

(* The greenthread returns.                                                *)
LEMMA LeaveInv ==
  ASSUME Inv, NEW c \in Conn, running \in {c, "hub"}, running' = "hub",
         NEW why \in {"closed", "refused", "error"}, pc' = [pc EXCEPT ![c] = why],
         todo' = [todo EXCEPT ![c] = <<>>],
         UNCHANGED <<keep_connection, should_disconnect, params, counts, inq, outq, client>>
  PROVE  Inv'
<1>1. Types /\ Control
  BY DEF Inv
<1>2. /\ req' = req /\ begun' = begun /\ extra' = extra /\ last' = last
      /\ concurrency' = concurrency /\ concurrency_max' = concurrency_max
      /\ todo'[c] = <<>> /\ (\A d \in Conn : d # c => todo'[d] = todo[d] /\ pc'[d] = pc[d])
      /\ todo' \in [Conn -> Work] /\ pc'[c] = why
      /\ pc' \in [Conn -> {"loop", "closed", "refused", "error"}]
  BY <1>1, NothingFacts DEF client, counts, Types
<1>3. Types'
  BY <1>1, <1>2 DEF Types
<1>4. Control'
  BY <1>1, <1>2, ProcessAssumption DEF Control
<1> SUFFICES ASSUME Early PROVE Inv'
  BY <1>3, <1>4 DEF Inv
<1>5. Local(c)
  BY DEF Inv
<1>6. \A d \in Conn : d # c => Local(d)'
  BY <1>2, Elsewhere DEF Inv
<1>7. pc'[c] # "loop"
  BY <1>2
<1>8. Awaited(c)' /\ Ordered(c)'
  BY <1>5, <1>2 DEF Local, Awaited, Ordered, Sent
<1>9. Promised(c)' /\ Refuses(c)'
  BY <1>2, <1>7, NothingFacts DEF Promised, Refuses
<1>10. Input(c)'
  BY <1>7 DEF Input, Live
<1> QED
  BY <1>3, <1>4, <1>6, <1>8, <1>9, <1>10 DEF Inv, Local

LEMMA FaultInv ==
  ASSUME Inv, NEW c \in Conn, FailRole(c) \/ ReadFails(c) \/ WriteFails(c)
  PROVE  Inv'
<1>1. CASE FailRole(c)
  BY <1>1, LeaveInv DEF FailRole, Error
<1>2. CASE ReadFails(c)
  BY <1>2, LeaveInv DEF ReadFails, CanFail, Error
<1>3. CASE WriteFails(c)
  <2>1. CASE Head(todo[c]).op = "write" /\ Error(c, "error")
    BY <1>3, <2>1, LeaveInv DEF WriteFails, CanFail, Error
  <2>2. CASE /\ Head(todo[c]).op = "try"
             /\ running' = c
             /\ todo' = [todo EXCEPT ![c] = Tail(@)]
             /\ UNCHANGED <<pc, keep_connection, should_disconnect, params,
                            counts, inq, outq, client>>
    BY <1>3, <2>2, TryFailsInv DEF WriteFails
  <2> QED
    BY <1>3, <2>1, <2>2 DEF WriteFails
<1> QED
  BY <1>1, <1>2, <1>3

LEMMA CloseInv ==
  ASSUME Inv, NEW c \in Conn, CloseConnection(c)
  PROVE  Inv'
<1>1. todo' = [todo EXCEPT ![c] = <<>>]
  BY DEF CloseConnection, Inv, Types
<1> QED
  BY <1>1, LeaveInv DEF CloseConnection

-----------------------------------------------------------------------------
(* Every step keeps the invariant.                                         *)

LEMMA ThreadInv ==
  ASSUME Inv, NEW c \in Conn, Thread(c) \/ ReadFails(c) \/ WriteFails(c)
  PROVE  Inv'
<1>1. CASE Resume(c) \/ Yield(c)
  BY <1>1, ResumeInv, YieldInv
<1>2. CASE Dispatch(c) \/ _write(c)
  BY <1>2, DispatchInv, WriteInv
<1>3. CASE Decrement(c) \/ Disconnect(c)
  BY <1>3, DecrementInv, DisconnectInv
<1>4. CASE FailRole(c) \/ ReadFails(c) \/ WriteFails(c)
  BY <1>4, FaultInv
<1>5. CASE CloseConnection(c)
  BY <1>5, CloseInv
<1> QED
  BY <1>1, <1>2, <1>3, <1>4, <1>5 DEF Thread

LEMMA WebServerInv ==
  ASSUME Inv, WebServer
  PROVE  Inv'
<1> SUFFICES ASSUME NEW c \in Conn,
                    \/ \E i \in Id :
                         \/ \E keep \in Keep, responder \in Roles : BeginRequest(c, i, keep, responder)
                         \/ \E k \in Key : SendParams(c, i, k)
                         \/ EndParams(c, i) \/ EndStdin(c, i) \/ AbortRequest(c, i)
                    \/ \E r \in Extras : SendExtra(c, r)
             PROVE  Inv'
  BY DEF WebServer
<1>1. ASSUME NEW i \in Id, NEW keep \in Keep, NEW responder \in Roles,
             BeginRequest(c, i, keep, responder)
      PROVE  Inv'
  BY <1>1, BeginInv
<1>2. ASSUME NEW i \in Id, NEW k \in Key, SendParams(c, i, k) PROVE Inv'
  BY <1>2, SendParamsInv
<1>3. ASSUME NEW i \in Id, EndParams(c, i) \/ EndStdin(c, i) \/ AbortRequest(c, i) PROVE Inv'
  BY <1>3, EndParamsInv, EndStdinInv, AbortInv
<1>4. ASSUME NEW r \in Extras, SendExtra(c, r) PROVE Inv'
  BY <1>4, ExtraInv
<1> QED
  BY <1>1, <1>2, <1>3, <1>4

LEMMA StutterInv ==
  ASSUME Inv, UNCHANGED vars
  PROVE  Inv'
<1>1. UNCHANGED <<thread, counts, inq, outq, client>> /\ running' = running
  BY DEF vars
<1>2. /\ running' \in Conn \cup {"hub"} /\ (running' # "hub" => pc[running'] = "loop")
      /\ \A c \in Conn : todo[c] # <<>> /\ Head(todo[c]).op \notin {"write", "try"} => running' = c
  BY <1>1 DEF Inv, Types, Control
<1> QED
  BY <1>1, <1>2, RunInv

LEMMA NextInv == Inv /\ [Next]_vars => Inv'
<1> SUFFICES ASSUME Inv, [Next]_vars PROVE Inv'
  OBVIOUS
<1>1. CASE WebServer
  BY <1>1, WebServerInv
<1>2. ASSUME NEW c \in Conn, Thread(c) \/ ReadFails(c) \/ WriteFails(c) PROVE Inv'
  BY <1>2, ThreadInv
<1>3. ASSUME NEW c \in Conn, Receive(c) PROVE Inv'
  BY <1>3, ReceiveInv
<1>4. CASE UNCHANGED vars
  BY <1>4, StutterInv
<1>5. CASE AllOver
  BY <1>4, <1>5 DEF AllOver
<1> QED
  BY <1>1, <1>2, <1>3, <1>4, <1>5 DEF Next

(* The inductive invariant holds in every state the program reaches: what  *)
(* is unread, unsent and left to do of a request agrees with what the web  *)
(* server waits for (__init__.c:277-428).                                  *)
THEOREM Invariance == Spec => []Inv
BY InitInv, NextInv, PTL DEF Spec

-----------------------------------------------------------------------------
(* Every variable keeps its type, whatever the web server aborts and       *)
(* whatever fails: in particular the counters stay 16-bit numbers and the  *)
(* sockets within their room.                                              *)
THEOREM ProcessTypeCorrect == Spec => []TypeOK
<1>1. \A t \in Work : \A j \in DOMAIN t :
        t[j].op \in {"write", "try", "decrement", "disconnect", "fail"}
  <2> USE DEF Stdout, Stderr, Close, End, Unknown, Dec, Disc, Fail, Write, Attempt, Do
  <2>1. \A t \in Ended \cup Others : \A j \in DOMAIN t :
          t[j].op \in {"write", "try", "decrement", "disconnect", "fail"}
    BY DEF Ended, Others
  <2>2. ASSUME NEW i \in Id, NEW t \in Ending(i), NEW j \in DOMAIN t
        PROVE  t[j].op \in {"write", "try", "decrement", "disconnect", "fail"}
    <3>1. CASE t \in Answering(i)
      BY <3>1 DEF Answering
    <3>2. CASE t \in Aborting(i)
      BY <3>2 DEF Aborting
    <3>3. CASE t \in Refusing(i)
      BY <3>3 DEF Refusing
    <3> QED
      BY <2>2, <3>1, <3>2, <3>3 DEF Ending
  <2> QED
    BY <2>1, <2>2, WorkKinds
<1>2. Inv => TypeOK
  BY <1>1 DEF Inv, Types, TypeOK, Request
<1> QED
  BY Invariance, <1>2, PTL

(* Whatever the web server aborts, END_REQUEST comes right behind the end  *)
(* of the output: the record written last is that end if and only if the   *)
(* handler is about to write END_REQUEST, unless it was read already.      *)
EndsNext(c, i) == todo[c] # <<>> /\ Head(todo[c]) = End(i)

Follows(r, s) ==
  s.type = "END" \/ r.type = "STDOUT_END" =>
    s.type = "END" /\ r.type = "STDOUT_END" /\ s.id = r.id

LastOf(q) == q[Len(q)]

Framed(c) ==
  /\ \A a \in DOMAIN outq[c] \ {1} : Follows(outq[c][a - 1], outq[c][a])
  /\ outq[c] # <<>> /\ LastOf(outq[c]).type = "STDOUT_END" /\ pc[c] = "loop" =>
       EndsNext(c, LastOf(outq[c]).id)
  /\ \A i : EndsNext(c, i) /\ outq[c] # <<>> =>
       LastOf(outq[c]).type = "STDOUT_END" /\ LastOf(outq[c]).id = i

LEMMA FramedSame ==
  ASSUME NEW c, Framed(c), outq'[c] = outq[c], todo'[c] = todo[c], pc'[c] = pc[c]
  PROVE  Framed(c)'
BY DEF Framed, EndsNext, LastOf

(* A step that writes nothing, when END_REQUEST is not what comes next.    *)
LEMMA FramedQuiet ==
  ASSUME NEW c, Framed(c), outq'[c] = outq[c], \A i : ~ EndsNext(c, i)',
         pc'[c] # "loop" \/ (pc[c] = "loop" /\ \A i : ~ EndsNext(c, i))
  PROVE  Framed(c)'
BY DEF Framed, LastOf

LEMMA FramedReceive ==
  ASSUME Inv, NEW c \in Conn, Framed(c), Receive(c)
  PROVE  Framed(c)'
<1>1. /\ Types /\ outq'[c] = Tail(outq[c]) /\ outq[c] # <<>> /\ pc' = pc /\ todo' = todo
  BY ReceiveTypes DEF Inv
<1>2. PICK n \in Nat : n = Len(outq[c]) /\ n > 0
  BY <1>1, ReceiveFacts
<1>3. /\ DOMAIN outq[c] = 1 .. n /\ DOMAIN outq'[c] = 1 .. (n - 1) /\ Len(outq'[c]) = n - 1
      /\ \A a \in 1 .. (n - 1) : outq'[c][a] = outq[c][a + 1]
      /\ outq'[c] \in Seq(Output)
  BY <1>1, <1>2, ReceiveFacts
<1>4. ASSUME NEW a \in DOMAIN outq'[c] \ {1}
      PROVE  Follows(outq'[c][a - 1], outq'[c][a])
  <2>1. /\ a \in 1 .. (n - 1) /\ a - 1 \in 1 .. (n - 1) /\ a + 1 \in 1 .. n
        /\ a + 1 # 1 /\ (a - 1) + 1 = a /\ (a + 1) - 1 = a
    BY <1>2, <1>3, <1>4
  <2>2. outq'[c][a - 1] = outq[c][a] /\ outq'[c][a] = outq[c][a + 1]
    BY <1>3, <2>1
  <2>3. Follows(outq[c][(a + 1) - 1], outq[c][a + 1])
    BY <1>3, <2>1 DEF Framed
  <2> QED
    BY <2>1, <2>2, <2>3
<1>5. ASSUME outq'[c] # <<>>
      PROVE  LastOf(outq'[c]) = LastOf(outq[c])
  <2>1. n - 1 # 0
    <3>1. PICK q : q = outq'[c]
      OBVIOUS
    <3>2. q \in Seq(Output) /\ q # <<>> /\ Len(q) = n - 1
      BY <1>3, <1>5, <3>1
    <3> QED
      BY <3>2
  <2>2. n - 1 \in 1 .. (n - 1) /\ (n - 1) + 1 = n
    <3>1. n \in Nat /\ n > 0
      BY <1>2
    <3> QED
      BY <2>1, <3>1
  <2>3. outq'[c][n - 1] = outq[c][n]
    BY <1>3, <2>2
  <2> QED
    BY <1>2, <1>3, <2>3 DEF LastOf
<1> QED
  BY <1>1, <1>4, <1>5 DEF Framed, EndsNext

LEMMA FramedWrite ==
  ASSUME Inv, NEW c \in Conn, Framed(c), _write(c)
  PROVE  Framed(c)'
<1>1. Types /\ pc[c] = "loop" /\ todo[c] \in Work /\ todo[c] # <<>>
  BY ProcessAssumption DEF Inv, Control, Types, _write, Writes
<1>2. PICK t, s : t = todo[c] /\ s = Head(t)
  OBVIOUS
<1>3. PICK e : e = [type |-> s.type, id |-> s.id]
  OBVIOUS
<1>4. /\ t \in Work /\ t # <<>> /\ s.op \in {"write", "try"} /\ pc' = pc
      /\ outq'[c] = Append(outq[c], e) /\ todo'[c] = Tail(t)
  BY <1>1, <1>2, <1>3 DEF _write, Writes, Types
<1>5. /\ e \in Output /\ e.type = s.type /\ e.id = s.id
      /\ s.type = "STDOUT_END" <=> \E i : Tail(t) # <<>> /\ Head(Tail(t)) = End(i)
      /\ \A i : Tail(t) # <<>> /\ Head(Tail(t)) = End(i) => i = s.id
      /\ s.type = "END" <=> s = End(s.id)
  <2>1. CASE t = <<Unknown>>
    <3>1. Head(t) = Unknown /\ Tail(t) = <<>>
      BY <2>1
    <3>2. s.type = "UNKNOWN" /\ s.id = 0
      BY <1>2, <3>1 DEF Unknown, Write
    <3>3. e \in Output /\ e.type = s.type /\ e.id = s.id
      BY <1>3, <3>2 DEF Output
    <3>4. s # End(s.id)
      BY <3>2 DEF End, Write
    <3> QED
      BY <3>1, <3>2, <3>3, <3>4
  <2>2. ASSUME NEW k \in Id, t \in Ending(k)
        PROVE  /\ e \in Output /\ e.type = s.type /\ e.id = s.id
               /\ s.type = "STDOUT_END" <=> \E i : Tail(t) # <<>> /\ Head(Tail(t)) = End(i)
               /\ \A i : Tail(t) # <<>> /\ Head(Tail(t)) = End(i) => i = s.id
               /\ s.type = "END" <=> s = End(s.id)
    <3>1. /\ \/ s \in {Stdout(k), Stderr(k)} /\ Tail(t) \in Ending(k) /\ Head(Tail(t)) = Close(k)
             \/ s = Close(k) /\ Tail(t) \in Ending(k) /\ Head(Tail(t)) = End(k)
             \/ s = End(k) /\ Tail(t) \in Ended
      BY <1>2, <2>2, EndingHead
    <3>2. \A u \in Ended : Head(u) = Dec
      BY DEF Ended
    <3>3. \A u \in Ending(k) : u # <<>>
      BY EndingHead
    <3>4. \A i : Dec # End(i) /\ Close(k) # End(i)
      BY DEF Dec, Close, End, Do, Write
    <3>5. \A i, j : End(i) = End(j) => i = j
      <4>1. \A i : End(i).id = i
        BY DEF End, Write
      <4> QED
        BY <4>1
    <3>6. /\ Stdout(k).type = "STDOUT" /\ Stdout(k).id = k
          /\ Stderr(k).type = "STDERR" /\ Stderr(k).id = k
          /\ Close(k).type = "STDOUT_END" /\ Close(k).id = k
          /\ End(k).type = "END" /\ End(k).id = k
          /\ \A i : End(i).type = "END"
      BY DEF Stdout, Stderr, Close, End, Write, Attempt
    <3>7. s.id = k /\ s.type \in {"STDOUT", "STDERR", "STDOUT_END", "END"}
      BY <3>1, <3>6
    <3>8. e \in Output /\ e.type = s.type /\ e.id = s.id
      BY <1>3, <3>7 DEF Output
    <3>9. s.type = "END" <=> s = End(s.id)
      BY <3>1, <3>6
    <3> QED
      BY <3>1, <3>2, <3>3, <3>4, <3>5, <3>6, <3>8, <3>9
  <2> QED
    BY <1>2, <1>4, <2>1, <2>2, WorkHead
<1>6. PICK n \in Nat : n = Len(outq[c])
  BY <1>1, OutqTyped
<1>7. /\ DOMAIN outq[c] = 1 .. n /\ DOMAIN outq'[c] = 1 .. (n + 1) /\ Len(outq'[c]) = n + 1
      /\ outq'[c][n + 1] = e /\ \A a \in 1 .. n : outq'[c][a] = outq[c][a]
  BY <1>1, <1>4, <1>5, <1>6, OutqTyped, AppendFacts
<1>8. LastOf(outq'[c]) = e
  BY <1>7 DEF LastOf
<1>9. ASSUME outq[c] # <<>>
      PROVE  Follows(LastOf(outq[c]), e)
  <2>1. LastOf(outq[c]).type = "STDOUT_END" => s = End(LastOf(outq[c]).id)
    BY <1>1, <1>2, <1>9 DEF Framed, EndsNext
  <2>2. s.type = "END" => LastOf(outq[c]).type = "STDOUT_END" /\ LastOf(outq[c]).id = s.id
    BY <1>1, <1>2, <1>5, <1>9 DEF Framed, EndsNext
  <2>3. \A i : End(i).type = "END" /\ End(i).id = i
    BY DEF End, Write
  <2>4. LastOf(outq[c]).type = "STDOUT_END" => s.type = "END" /\ s.id = LastOf(outq[c]).id
    BY <2>1, <2>3
  <2> QED
    BY <1>5, <2>2, <2>4 DEF Follows
<1>10. ASSUME NEW a \in DOMAIN outq'[c] \ {1}
       PROVE  Follows(outq'[c][a - 1], outq'[c][a])
  <2>1. CASE a = n + 1
    <3>1. n \in 1 .. n /\ a - 1 = n
      BY <1>6, <1>7, <1>10, <2>1
    <3>2. outq[c] # <<>>
      BY <1>6, <3>1
    <3>3. outq'[c][a - 1] = LastOf(outq[c])
      BY <1>6, <1>7, <3>1 DEF LastOf
    <3> QED
      BY <1>7, <1>9, <2>1, <3>2, <3>3
  <2>2. CASE a # n + 1
    <3>1. a \in 1 .. n /\ a - 1 \in 1 .. n /\ a \in DOMAIN outq[c] \ {1}
      BY <1>6, <1>7, <1>10, <2>2
    <3> QED
      BY <1>7, <3>1 DEF Framed
  <2> QED
    BY <2>1, <2>2
<1>11. \A i : EndsNext(c, i)' <=> Tail(t) # <<>> /\ Head(Tail(t)) = End(i)
  BY <1>4 DEF EndsNext
<1> QED
  BY <1>5, <1>8, <1>10, <1>11 DEF Framed

LEMMA FramedDispatch ==
  ASSUME Inv, NEW c \in Conn, Framed(c), Dispatch(c)
  PROVE  Framed(c)'
<1>1. Types /\ pc[c] = "loop" /\ todo[c] = <<>>
  BY ProcessAssumption DEF Inv, Control, Types, Dispatch, Reads
<1>2. PICK r : r = Head(inq[c])
  OBVIOUS
<1>3. \E rest : Handle(c, r, rest) /\ \A i : ~ (rest # <<>> /\ Head(rest) = End(i))
  <2>1. \A k, i : /\ Head(request_handle(k)) # End(i)
                  /\ Head(request_end(k) \o <<Do("disconnect")>>) # End(i)
                  /\ Head(<<Attempt("STDERR", k)>> \o request_end(k) \o <<Do("fail")>>) # End(i)
    <3>1. \A k, i : Stdout(k) # End(i) /\ Close(k) # End(i) /\ Stderr(k) # End(i)
      BY DEF Stdout, Stderr, Close, End, Write, Attempt
    <3>2. ASSUME NEW k
          PROVE  /\ Head(request_handle(k)) = Stdout(k)
                 /\ Head(request_end(k) \o <<Do("disconnect")>>) = Close(k)
                 /\ Head(<<Attempt("STDERR", k)>> \o request_end(k) \o <<Do("fail")>>) = Stderr(k)
      <4>1. /\ Head(<<Stdout(k), Close(k), End(k), Dec>>) = Stdout(k)
            /\ Head(<<Close(k), End(k), Dec, Disc>>) = Close(k)
            /\ Head(<<Stderr(k), Close(k), End(k), Dec, Fail>>) = Stderr(k)
        OBVIOUS
      <4> QED
        BY <4>1, RestFacts
    <3> QED
      BY <3>1, <3>2
  <2>2. \A i : Head(<<Disc>>) # End(i) /\ Head(<<Unknown>>) # End(i)
    BY DEF Disc, Unknown, End, Write, Do
  <2>3. CASE process_begin_request(c, r)
    BY <2>1, <2>3 DEF process_begin_request
  <2>4. CASE process_abort_request(c, r)
    BY <2>1, <2>4 DEF process_abort_request
  <2>5. CASE process_params(c, r)
    BY <2>1, <2>5 DEF process_params
  <2>6. CASE process_stdin(c, r)
    BY <2>2, <2>6 DEF process_stdin, Disc
  <2>7. CASE process_unknown(c, r)
    BY <2>2, <2>7 DEF process_unknown, Unknown
  <2> QED
    BY <1>2, <2>3, <2>4, <2>5, <2>6, <2>7 DEF Dispatch
<1>4. PICK rest : Handle(c, r, rest) /\ \A i : ~ (rest # <<>> /\ Head(rest) = End(i))
  BY <1>3
<1>5. outq' = outq /\ pc' = pc /\ todo'[c] = rest
  BY <1>1, <1>4 DEF Handle, Types
<1> QED
  BY <1>1, <1>4, <1>5, FramedQuiet DEF EndsNext

(* What is left behind a step of a handler that writes nothing.            *)
LEMMA QuietTail ==
  ASSUME NEW t \in Work, t # <<>>, Head(t).op # "write"
  PROVE  \A i : Head(t) # End(i) /\ ~ (Tail(t) # <<>> /\ Head(Tail(t)) = End(i))
<1>1. \A i : Head(t) # End(i)
  BY DEF End, Write
<1>2. CASE t \in Ended
  <2>1. Tail(t) = <<>> \/ Tail(t) = <<Disc>> \/ Tail(t) = <<Fail>>
    <3>1. Tail(<<Dec>>) = <<>> /\ Tail(<<Dec, Disc>>) = <<Disc>> /\ Tail(<<Dec, Fail>>) = <<Fail>>
      OBVIOUS
    <3> QED
      BY <1>2, <3>1 DEF Ended
  <2>2. \A i : Head(<<Disc>>) # End(i) /\ Head(<<Fail>>) # End(i)
    BY DEF Disc, Fail, End, Write, Do
  <2> QED
    BY <1>1, <2>1, <2>2
<1>3. CASE t \in Others
  <2>1. Tail(t) = <<>>
    <3>1. Tail(<<Unknown>>) = <<>> /\ Tail(<<Disc>>) = <<>> /\ Tail(<<Fail>>) = <<>>
      OBVIOUS
    <3> QED
      BY <1>3, <3>1 DEF Others
  <2> QED
    BY <1>1, <2>1
<1>4. ASSUME NEW i \in Id, t \in Ending(i)
      PROVE  Head(Tail(t)) = Close(i)
  <2>1. Close(i).op = "write" /\ End(i).op = "write"
    BY DEF Close, End, Write
  <2> QED
    BY <1>4, <2>1, EndingHead
<1>5. \A i, j : Close(i) # End(j)
  BY DEF Close, End, Write
<1> QED
  BY <1>1, <1>2, <1>3, <1>4, <1>5, WorkKinds

LEMMA FramedEffect ==
  ASSUME Inv, NEW c \in Conn, Framed(c), todo[c] # <<>>, Head(todo[c]).op # "write",
         outq' = outq, pc' = pc, todo' = [todo EXCEPT ![c] = Tail(@)], pc[c] = "loop"
  PROVE  Framed(c)'
<1>1. todo[c] \in Work /\ todo'[c] = Tail(todo[c])
  BY DEF Inv, Types
<1> QED
  BY <1>1, QuietTail, FramedQuiet DEF EndsNext

LEMMA FramedLeave ==
  ASSUME Inv, NEW c \in Conn, Framed(c), outq' = outq, todo'[c] = <<>>, pc'[c] # "loop"
  PROVE  Framed(c)'
BY FramedQuiet DEF EndsNext

LEMMA FramedThread ==
  ASSUME Inv, NEW c \in Conn, Framed(c), Thread(c) \/ ReadFails(c) \/ WriteFails(c)
  PROVE  Framed(c)'
<1>1. Types /\ Control
  BY DEF Inv
<1>2. CASE Resume(c) \/ Yield(c)
  BY <1>2, FramedSame DEF Resume, Yield, thread
<1>3. CASE Dispatch(c) \/ _write(c)
  BY <1>3, FramedDispatch, FramedWrite
<1>4. CASE Decrement(c) \/ Disconnect(c)
  <2>1. pc[c] = "loop"
    BY <1>1, <1>4, ProcessAssumption DEF Control, Decrement, Disconnect, Effect
  <2>2. /\ todo[c] # <<>> /\ Head(todo[c]).op # "write"
        /\ outq' = outq /\ pc' = pc /\ todo' = [todo EXCEPT ![c] = Tail(@)]
    BY <1>4 DEF Decrement, Disconnect, Effect
  <2> QED
    BY <2>1, <2>2, FramedEffect
<1>5. ASSUME NEW why \in {"refused", "error"}, Error(c, why)
      PROVE  Framed(c)'
  <2>1. outq' = outq /\ todo'[c] = <<>> /\ pc'[c] = why
    BY <1>1, <1>5 DEF Error, Types
  <2> QED
    BY <2>1, FramedLeave
<1>6. CASE FailRole(c) \/ ReadFails(c)
  BY <1>5, <1>6 DEF FailRole, ReadFails
<1>7. CASE WriteFails(c)
  <2>1. CASE Head(todo[c]).op = "write" /\ Error(c, "error")
    BY <1>5, <2>1
  <2>2. CASE ~ (Head(todo[c]).op = "write" /\ Error(c, "error"))
    <3>1. /\ todo[c] # <<>> /\ Head(todo[c]).op # "write" /\ pc[c] = "loop"
          /\ outq' = outq /\ pc' = pc /\ todo' = [todo EXCEPT ![c] = Tail(@)]
      BY <1>7, <2>2 DEF WriteFails, CanFail, Writes
    <3> QED
      BY <3>1, FramedEffect
  <2> QED
    BY <2>1, <2>2
<1>8. CASE CloseConnection(c)
  <2>1. outq' = outq /\ todo'[c] = <<>> /\ pc'[c] # "loop"
    BY <1>1, <1>8 DEF CloseConnection, Types
  <2> QED
    BY <2>1, FramedLeave
<1> QED
  BY <1>2, <1>3, <1>4, <1>6, <1>7, <1>8 DEF Thread

(* The steps of one connection leave the others alone.                     *)
LEMMA FramedElsewhere ==
  ASSUME Inv, NEW c \in Conn, NEW d \in Conn, d # c, Framed(d),
         Thread(c) \/ ReadFails(c) \/ WriteFails(c) \/ Receive(c)
  PROVE  Framed(d)'
<1>1. Types
  BY DEF Inv
<1>2. outq'[d] = outq[d] /\ todo'[d] = todo[d] /\ pc'[d] = pc[d]
  <2>1. CASE Resume(c) \/ Yield(c)
    BY <2>1 DEF Resume, Yield, thread
  <2>2. CASE Dispatch(c)
    <3>1. \E r, rest : Handle(c, r, rest)
      BY <2>2 DEF Dispatch, process_begin_request, process_abort_request, process_params,
                  process_stdin, process_unknown
    <3> QED
      BY <1>1, <3>1 DEF Handle, Types
  <2>3. CASE _write(c)
    BY <1>1, <2>3 DEF _write, Types
  <2>4. CASE Decrement(c) \/ Disconnect(c) \/ CloseConnection(c)
    BY <1>1, <2>4 DEF Decrement, Disconnect, CloseConnection, Effect, Types
  <2>5. CASE FailRole(c) \/ ReadFails(c) \/ WriteFails(c)
    BY <1>1, <2>5 DEF FailRole, ReadFails, WriteFails, Error, Types
  <2>6. CASE Receive(c)
    BY <1>1, <2>6, ReceiveTypes
  <2> QED
    BY <2>1, <2>2, <2>3, <2>4, <2>5, <2>6 DEF Thread
<1> QED
  BY <1>2, FramedSame

AllFramed == \A c \in Conn : Framed(c)

LEMMA FramedStep == Inv /\ AllFramed /\ [Next]_vars => AllFramed'
<1> SUFFICES ASSUME Inv, AllFramed, [Next]_vars, NEW d \in Conn PROVE Framed(d)'
  BY DEF AllFramed
<1>1. Framed(d)
  BY DEF AllFramed
<1>2. CASE WebServer
  <2>1. Same
    <3>1. \A c, i, keep, responder : BeginRequest(c, i, keep, responder) => Same
      BY DEF BeginRequest
    <3>2. \A c, i, k : SendParams(c, i, k) => Same
      BY DEF SendParams
    <3>3. \A c, i : EndParams(c, i) \/ EndStdin(c, i) \/ AbortRequest(c, i) => Same
      BY DEF EndParams, EndStdin, AbortRequest
    <3>4. \A c, x : SendExtra(c, x) => Same
      BY DEF SendExtra
    <3> QED
      BY <1>2, <3>1, <3>2, <3>3, <3>4 DEF WebServer
  <2> QED
    BY <1>1, <2>1, FramedSame DEF Same, thread
<1>3. ASSUME NEW c \in Conn,
             Thread(c) \/ ReadFails(c) \/ WriteFails(c) \/ Receive(c)
      PROVE  Framed(d)'
  <2>1. CASE d = c
    BY <1>1, <1>3, <2>1, FramedThread, FramedReceive
  <2>2. CASE d # c
    BY <1>1, <1>3, <2>2, FramedElsewhere
  <2> QED
    BY <2>1, <2>2
<1>4. CASE UNCHANGED vars
  BY <1>1, <1>4, FramedSame DEF vars, thread
<1>5. CASE AllOver
  BY <1>4, <1>5 DEF AllOver
<1> QED
  BY <1>2, <1>3, <1>4, <1>5 DEF Next

(* What is sent is in order on every connection: END_REQUEST comes right   *)
(* behind the end of the output of the same request, whatever is aborted   *)
(* and whatever fails; and if the web server aborts early, no output of a  *)
(* request comes after that end, and nothing after its END_REQUEST         *)
(* (__init__.c:193-214, 289-293, 322-331, 352-360).                        *)
THEOREM ProcessOutputInOrder == Spec => []OutputInOrder
<1>1. Init => AllFramed
  BY DEF Init, AllFramed, Framed, EndsNext
<1>2. Inv /\ AllFramed /\ [Next]_vars => AllFramed'
  BY FramedStep
<1>3. Inv /\ AllFramed => OutputInOrder
  <2> SUFFICES ASSUME Inv, AllFramed, NEW c \in Conn
               PROVE  /\ \A a \in DOMAIN outq[c] \ {1} :
                           outq[c][a].type = "END" \/ outq[c][a - 1].type = "STDOUT_END" =>
                             /\ outq[c][a].type = "END" /\ outq[c][a - 1].type = "STDOUT_END"
                             /\ outq[c][a].id = outq[c][a - 1].id
                      /\ Early => \A a, b \in DOMAIN outq[c] :
                           (a < b /\ outq[c][a].id = outq[c][b].id /\ outq[c][b].id # 0) =>
                             /\ outq[c][a].type # "END"
                             /\ outq[c][a].type = "STDOUT_END" => outq[c][b].type = "END"
    BY DEF OutputInOrder
  <2>1. \A a \in DOMAIN outq[c] \ {1} : Follows(outq[c][a - 1], outq[c][a])
    BY DEF AllFramed, Framed
  <2>2. ASSUME Early, NEW a \in DOMAIN outq[c], NEW b \in DOMAIN outq[c],
               a < b, outq[c][a].id = outq[c][b].id, outq[c][b].id # 0
        PROVE  /\ outq[c][a].type # "END"
               /\ outq[c][a].type = "STDOUT_END" => outq[c][b].type = "END"
    <3>1. outq[c][b].type # "UNKNOWN"
      BY <2>2, OutqTyped DEF Inv, Output
    <3> QED
      BY <2>2, <3>1 DEF Inv, Local, Ordered
  <2> QED
    BY <2>1, <2>2 DEF Follows
<1> QED
  BY Invariance, <1>1, <1>2, <1>3, PTL DEF Spec

(* A request is handled with the values it sent for its own parameters,    *)
(* however its records mix with those of other requests and whatever an    *)
(* earlier request of the id left behind (__init__.c:176-190, 371-388), as *)
(* long as the web server aborts a request only while it sends its         *)
(* parameters (Early): then no second END_REQUEST frees an id too soon.    *)
THEOREM ProcessParamsCurrent ==
  ASSUME Early
  PROVE  Spec => []ParamsCurrent
<1>1. Inv => ParamsCurrent
  <2> SUFFICES ASSUME Inv, NEW c \in Conn, NEW i \in Id, Handling(c, i), NEW k \in req[c][i].keys
               PROVE  params[c][i][k] = req[c][i].serial
    BY DEF ParamsCurrent
  <2>1. Types /\ Control /\ Local(c)
    BY DEF Inv
  <2> DEFINE t == todo[c]
  <2>2. t \in Work /\ t # <<>> /\ Head(t) = Stdout(i) /\ pc[c] = "loop"
    BY <2>1 DEF Types, Control, Handling, Stdout
  <2> HIDE DEF t
  <2>3. \E j \in Id : t \in Ending(j)
    <3>1. Head(t).op = "write" /\ t # <<Unknown>>
      BY <2>2 DEF Stdout, Unknown, Write
    <3> QED
      BY <2>2, <3>1, WorkHead
  <2>4. Ends(t, i) /\ ~ Fails(t)
    <3>1. PICK j \in Id : t \in Ending(j)
      BY <2>3
    <3>2. t \notin Aborting(j) /\ t \notin Refusing(j)
      BY <2>2, AbortingHead, RefusingHead DEF Stdout, Stderr, Close, End, Write, Attempt
    <3>3. t \in Answering(j)
      BY <3>1, <3>2 DEF Ending
    <3>4. j = i
      BY <2>2, <3>3, AnsweringHead DEF Stdout, Close, End, Write
    <3> QED
      BY <3>3, <3>4, AnsweringFacts
  <2>5. UnreadDue(c) /\ Given(c)
    BY <2>1, <2>2, <2>4 DEF Local, Input, Live, t
  <2>6. ~ UnreadParam(c, i, k)
    BY <2>4, <2>5 DEF UnreadDue, Wanted, UnreadParam, Asking, t
  <2> QED
    BY <2>5, <2>6 DEF Given
<1> QED
  BY Invariance, <1>1, PTL

-----------------------------------------------------------------------------
(* The service.                                                            *)

Status == [c \in Conn |-> [i \in Id |->
             IF Sent(c, "END", i) THEN "answered"
             ELSE IF req[c][i].awaiting THEN "asked" ELSE "idle"]]

(* A step that keeps what is awaited and sent is a stutter of the service; *)
(* one that does so for all but one request moves that request.            *)
LEMMA StatusSame ==
  ASSUME \A c \in Conn, i \in Id : /\ Sent(c, "END", i)' <=> Sent(c, "END", i)
                                   /\ req'[c][i].awaiting = req[c][i].awaiting
  PROVE  Status' = Status
BY DEF Status

LEMMA StatusMoves ==
  ASSUME NEW c \in Conn, NEW i \in Id,
         \A d \in Conn, j \in Id : d # c \/ j # i =>
           /\ Sent(d, "END", j)' <=> Sent(d, "END", j)
           /\ req'[d][j].awaiting = req[d][j].awaiting,
         NEW from, NEW to, Status[c][i] = from, Status'[c][i] = to
  PROVE  Status' = [Status EXCEPT ![c][i] = to]
<1> DEFINE u == [Status EXCEPT ![c][i] = to]
<1>1. ASSUME NEW d \in Conn, NEW j \in Id PROVE Status'[d][j] = u[d][j]
  <2>1. CASE d = c /\ j = i
    BY <2>1 DEF Status
  <2>2. CASE d # c \/ j # i
    <3>1. Status'[d][j] = Status[d][j]
      BY <2>2 DEF Status
    <3>2. u[d][j] = Status[d][j]
      BY <2>2 DEF Status
    <3> QED
      BY <3>1, <3>2
  <2> QED
    BY <2>1, <2>2
<1>2. ASSUME NEW d \in Conn PROVE Status'[d] = u[d]
  <2>1. Status'[d] = [j \in Id |-> Status'[d][j]] /\ u[d] = [j \in Id |-> u[d][j]]
    BY DEF Status
  <2> QED
    BY <1>1, <2>1
<1>3. Status' = [d \in Conn |-> Status'[d]] /\ u = [d \in Conn |-> u[d]]
  BY DEF Status
<1> HIDE DEF u
<1>4. Status' = u
  BY <1>2, <1>3
<1> QED
  BY <1>4 DEF u

(* A record sent, received or written elsewhere says nothing of i.         *)
LEMMA SendStatus ==
  ASSUME Types, Same, NEW c \in Conn, NEW i \in Id, NEW u \in Request, Update(c, i, u),
         u.awaiting = req[c][i].awaiting
  PROVE  Status' = Status
<1>1. \A d \in Conn, j \in Id : req'[d][j].awaiting = req[d][j].awaiting
  BY DEF Types, Update
<1> QED
  BY <1>1, SameFacts, StatusSame DEF Sent

LEMMA WebServerStatus ==
  ASSUME Inv, Early, NEW c \in Conn, NEW i \in Id,
         \/ \E k \in Key : SendParams(c, i, k)
         \/ EndParams(c, i) \/ EndStdin(c, i) \/ AbortRequest(c, i)
  PROVE  Status' = Status
<1>1. Types /\ req[c][i] \in Request
  BY DEF Inv, Types
<1>2. ASSUME NEW k \in Key, SendParams(c, i, k) PROVE Status' = Status
  <2> DEFINE u == [req[c][i] EXCEPT !.keys = @ \cup {k}]
  <2>1. u \in Request /\ u.awaiting = req[c][i].awaiting
    BY <1>1 DEF Request
  <2>2. Update(c, i, u) /\ Same
    BY <1>2 DEF SendParams, Update
  <2> HIDE DEF u
  <2> QED
    BY <1>1, <2>1, <2>2, SendStatus
<1>3. ASSUME NEW phase \in Phase, Same, Update(c, i, [req[c][i] EXCEPT !.phase = phase])
      PROVE  Status' = Status
  <2> DEFINE u == [req[c][i] EXCEPT !.phase = phase]
  <2>1. u \in Request /\ u.awaiting = req[c][i].awaiting
    BY <1>1 DEF Request
  <2>2. Update(c, i, u) /\ Same
    BY <1>3
  <2> HIDE DEF u
  <2> QED
    BY <1>1, <2>1, <2>2, SendStatus
<1>4. CASE EndParams(c, i)
  BY <1>3, <1>4 DEF EndParams, Update, Phase
<1>5. CASE EndStdin(c, i)
  <2>1. (IF req[c][i].awaiting THEN "sent" ELSE "idle") \in Phase
    BY DEF Phase
  <2> QED
    BY <1>3, <1>5, <2>1 DEF EndStdin, Update
<1>6. CASE AbortRequest(c, i)
  BY <1>3, <1>6 DEF AbortRequest, Update, Phase
<1> QED
  BY <1>2, <1>4, <1>5, <1>6

(* BEGIN_REQUEST is what asks.                                             *)
LEMMA BeginAsks ==
  ASSUME Inv, Early, NEW c \in Conn, NEW i \in Id, NEW keep \in Keep, NEW responder \in Roles,
         BeginRequest(c, i, keep, responder)
  PROVE  Status[c][i] = "idle" /\ Status' = [Status EXCEPT ![c][i] = "asked"]
<1>1. Types /\ Same /\ Awaited(c)
  BY DEF Inv, Local, BeginRequest
<1>2. ~ req[c][i].awaiting /\ ~ Sent(c, "END", i)
  BY <1>1 DEF BeginRequest, Awaited
<1>3. req'[c][i].awaiting /\ \A d \in Conn, j \in Id : d # c \/ j # i => req'[d][j] = req[d][j]
  BY <1>1 DEF BeginRequest, Types
<1>4. \A d \in Conn, j \in Id : Sent(d, "END", j)' <=> Sent(d, "END", j)
  BY <1>1, SameFacts DEF Sent
<1>5. Status[c][i] = "idle" /\ Status'[c][i] = "asked"
  BY <1>2, <1>3, <1>4 DEF Status
<1> QED
  BY <1>3, <1>4, <1>5, StatusMoves

(* The END_REQUEST of a handler is what answers.                           *)
LEMMA WriteAnswers ==
  ASSUME Inv, Early, NEW c \in Conn, _write(c)
  PROVE  \/ Status' = Status
         \/ \E i \in Id : /\ Status[c][i] = "asked"
                          /\ Status' = [Status EXCEPT ![c][i] = "answered"]
<1> DEFINE s == Head(todo[c])
<1>1. Types /\ Promised(c)
  BY DEF Inv, Local
<1>2. req' = req /\ \A d \in Conn : d # c => outq'[d] = outq[d]
  BY <1>1 DEF _write, client, Types
<1>3. \A type, i : Sent(c, type, i)' <=> Sent(c, type, i) \/ (s.type = type /\ s.id = i)
  BY <1>1, WriteSent
<1>4. \A d \in Conn : d # c => \A i : Sent(d, "END", i)' <=> Sent(d, "END", i)
  BY <1>2 DEF Sent
<1>5. s.type = "END" => Ends(todo[c], s.id) /\ s.id \in Id
  <2>1. todo[c] \in Work /\ todo[c] # <<>> /\ Head(todo[c]).op \in {"write", "try"}
    BY <1>1 DEF Types, _write, Writes
  <2> QED
    BY <2>1, WriteHead DEF Output
<1> HIDE DEF s
<1>6. CASE s.type # "END"
  BY <1>2, <1>3, <1>4, <1>6, StatusSame
<1>7. CASE s.type = "END"
  <2>1. s.id \in Id /\ Due(c, s.id)
    BY <1>1, <1>5, <1>7 DEF Promised
  <2>2. Status[c][s.id] = "asked" /\ Status'[c][s.id] = "answered"
    BY <2>1, <1>2, <1>3, <1>7 DEF Status, Due
  <2>3. \A d \in Conn, j \in Id : d # c \/ j # s.id =>
           /\ Sent(d, "END", j)' <=> Sent(d, "END", j)
           /\ req'[d][j].awaiting = req[d][j].awaiting
    BY <1>2, <1>3, <1>4
  <2>4. Status' = [Status EXCEPT ![c][s.id] = "answered"]
    BY <2>1, <2>2, <2>3, StatusMoves
  <2> QED
    BY <2>1, <2>2, <2>4
<1> QED
  BY <1>6, <1>7

LEMMA ReceiveTakes ==
  ASSUME Inv, Early, NEW c \in Conn, Receive(c)
  PROVE  \/ Status' = Status
         \/ \E i \in Id : /\ Status[c][i] = "answered"
                          /\ Status' = [Status EXCEPT ![c][i] = "idle"]
<1> DEFINE r == Head(outq[c])
<1>1. Types
  BY DEF Inv
<1>2. \A d \in Conn : d # c => req'[d] = req[d] /\ outq'[d] = outq[d]
  BY <1>1, ReceiveTypes
<1>3. \A d \in Conn, j \in Id : d # c \/ r # [type |-> "END", id |-> j] =>
           /\ Sent(d, "END", j)' <=> Sent(d, "END", j)
           /\ req'[d][j] = req[d][j]
  BY <1>2, ReceiveSent DEF Sent
<1>4. CASE \A i \in Id : r # [type |-> "END", id |-> i]
  BY <1>3, <1>4, StatusSame
<1>5. ASSUME NEW i \in Id, r = [type |-> "END", id |-> i]
      PROVE  /\ Status[c][i] = "answered"
             /\ Status' = [Status EXCEPT ![c][i] = "idle"]
  <2>1. Sent(c, "END", i) /\ ~ Sent(c, "END", i)' /\ ~ req'[c][i].awaiting
    BY <1>5, ReceiveSent
  <2>2. Status[c][i] = "answered" /\ Status'[c][i] = "idle"
    BY <2>1 DEF Status
  <2>3. \A j \in Id : j # i => r # [type |-> "END", id |-> j]
    <3>1. r.id = i
      BY <1>5
    <3> QED
      BY <3>1
  <2> HIDE DEF r
  <2> QED
    BY <1>3, <2>2, <2>3, StatusMoves
<1> QED
  BY <1>4, <1>5

(* The other steps of the program, and the hub's.                          *)
LEMMA QuietStatus ==
  ASSUME NEW c \in Conn,
         \/ Resume(c) \/ Yield(c) \/ Dispatch(c) \/ Decrement(c) \/ Disconnect(c)
         \/ FailRole(c) \/ ReadFails(c) \/ WriteFails(c) \/ CloseConnection(c)
  PROVE  Status' = Status
<1>1. outq' = outq /\ req' = req
  <2>1. CASE Resume(c) \/ Yield(c) \/ Decrement(c) \/ Disconnect(c) \/ CloseConnection(c)
    BY <2>1 DEF Resume, Yield, Decrement, Disconnect, CloseConnection, client
  <2>2. CASE FailRole(c) \/ ReadFails(c) \/ WriteFails(c)
    BY <2>2 DEF FailRole, ReadFails, WriteFails, Error, client
  <2>3. CASE Dispatch(c)
    BY <2>3 DEF Dispatch, process_begin_request, process_abort_request, process_params,
                process_stdin, process_unknown, Handle, client
  <2> QED
    BY <2>1, <2>2, <2>3
<1> QED
  BY <1>1, StatusSame DEF Sent

LEMMA ServiceStep ==
  ASSUME Inv, Early, [Next]_vars
  PROVE  \/ Status' = Status
         \/ \E c \in Conn, i \in Id :
              \/ Status[c][i] = "idle" /\ Status' = [Status EXCEPT ![c][i] = "asked"]
              \/ Status[c][i] = "asked" /\ Status' = [Status EXCEPT ![c][i] = "answered"]
              \/ Status[c][i] = "answered" /\ Status' = [Status EXCEPT ![c][i] = "idle"]
<1>1. CASE WebServer
  <2>1. PICK c \in Conn :
          \/ \E i \in Id :
               \/ \E keep \in Keep, responder \in Roles : BeginRequest(c, i, keep, responder)
               \/ \E k \in Key : SendParams(c, i, k)
               \/ EndParams(c, i) \/ EndStdin(c, i) \/ AbortRequest(c, i)
          \/ \E r \in Extras : SendExtra(c, r)
    BY <1>1 DEF WebServer
  <2>2. CASE \E i \in Id : \E keep \in Keep, responder \in Roles : BeginRequest(c, i, keep, responder)
    BY <2>2, BeginAsks
  <2>3. CASE \E i \in Id : \/ \E k \in Key : SendParams(c, i, k)
                           \/ EndParams(c, i) \/ EndStdin(c, i) \/ AbortRequest(c, i)
    BY <2>3, WebServerStatus
  <2>4. CASE \E r \in Extras : SendExtra(c, r)
    <3>1. outq' = outq /\ req' = req
      BY <2>4, SameFacts DEF SendExtra
    <3> QED
      BY <3>1, StatusSame DEF Sent
  <2> QED
    BY <2>1, <2>2, <2>3, <2>4
<1>2. ASSUME NEW c \in Conn, _write(c)
      PROVE  \/ Status' = Status
             \/ \E i \in Id : /\ Status[c][i] = "asked"
                              /\ Status' = [Status EXCEPT ![c][i] = "answered"]
  BY <1>2, WriteAnswers
<1>3. ASSUME NEW c \in Conn, Receive(c)
      PROVE  \/ Status' = Status
             \/ \E i \in Id : /\ Status[c][i] = "answered"
                              /\ Status' = [Status EXCEPT ![c][i] = "idle"]
  BY <1>3, ReceiveTakes
<1>4. ASSUME NEW c \in Conn, Thread(c) \/ ReadFails(c) \/ WriteFails(c), ~ _write(c)
      PROVE  Status' = Status
  BY <1>4, QuietStatus DEF Thread
<1>5. CASE AllOver \/ UNCHANGED vars
  <2>1. outq' = outq /\ req' = req
    BY <1>5 DEF AllOver, vars, client
  <2> QED
    BY <2>1, StatusSame DEF Sent
<1> QED
  BY <1>1, <1>2, <1>3, <1>4, <1>5 DEF Next

(* The program implements the service on every connection: each request    *)
(* the web server begins gets at most one END_REQUEST, whatever else is    *)
(* under way, fails or is refused, and no END_REQUEST comes for any other  *)
(* (__init__.c:270-295, 303-333, 346-364); as long as the web server       *)
(* aborts a request only while it sends its parameters (Early).  It is not *)
(* true of an abort that crosses the answer, which gets a second one.      *)
THEOREM ProcessIsService ==
  ASSUME Early
  PROVE  Spec => ServiceSpec
<1>1. Init => Requests!Init
  BY DEF Init, Requests!Init, Sent, Idle
<1>2. Inv /\ [Next]_vars => [Requests!Next]_Status
  BY ServiceStep DEF Requests!Next, Requests!Ask, Requests!Answer, Requests!Take, Requests!Move, Status
<1> QED
  BY Invariance, <1>1, <1>2, PTL DEF Spec, ServiceSpec, Requests!Spec, Status

-----------------------------------------------------------------------------
(* Integers modulo w.                                                      *)

LEMMA RestsEqual ==
  ASSUME NEW w \in Nat, w > 0, NEW r \in 0 .. (w - 1), NEW s \in 0 .. (w - 1),
         NEW k \in Int, r - s = w * k
  PROVE  r = s
<1>1. CASE k = 0
  BY <1>1
<1>2. CASE k >= 1
  <2>1. w * k >= w
    BY <1>2
  <2> QED
    BY <2>1
<1>3. CASE k <= -1
  <2>1. w * k <= -w
    BY <1>3
  <2> QED
    BY <2>1
<1> QED
  BY <1>1, <1>2, <1>3

LEMMA AddModulo ==
  ASSUME NEW w \in Nat, w > 0, NEW x \in Int, NEW y \in Int
  PROVE  ((x % w) + y) % w = (x + y) % w
<1> DEFINE z == (x % w) + y
           k == ((x + y) \div w) - (z \div w) - (x \div w)
<1>1. (x % w) \in Int /\ z \in Int
  OBVIOUS
<1>2. x = w * (x \div w) + (x % w) /\ x \div w \in Int
  OBVIOUS
<1>3. z = w * (z \div w) + (z % w) /\ (z % w) \in 0 .. (w - 1) /\ z \div w \in Int
  <2> HIDE DEF z
  <2> QED BY <1>1
<1>4. x + y = w * ((x + y) \div w) + ((x + y) % w) /\ ((x + y) % w) \in 0 .. (w - 1)
      /\ (x + y) \div w \in Int
  <2> DEFINE u == x + y
  <2>1. u \in Int
    OBVIOUS
  <2> HIDE DEF u
  <2>2. u = w * (u \div w) + (u % w) /\ (u % w) \in 0 .. (w - 1) /\ u \div w \in Int
    BY <2>1
  <2> QED
    BY <2>2 DEF u
<1>5. \A p, q, r \in Int : w * (p - q - r) = w * p - w * q - w * r
  OBVIOUS
<1>6. (z % w) - ((x + y) % w) = w * k /\ k \in Int
  <2> DEFINE p == (x + y) \div w
             q == z \div w
             r == x \div w
             zm == z % w
             um == (x + y) % w
             xm == x % w
  <2>1. p \in Int /\ q \in Int /\ r \in Int /\ zm \in Int /\ um \in Int /\ xm \in Int
    BY <1>1, <1>2, <1>3, <1>4
  <2>2. x + y = w * p + um /\ x = w * r + xm /\ xm + y = w * q + zm
    BY <1>2, <1>3, <1>4
  <2>3. w * (p - q - r) = w * p - w * q - w * r
    BY <1>5, <2>1
  <2>4. k = p - q - r
    OBVIOUS
  <2> HIDE DEF p, q, r, zm, um, xm, k
  <2>5. w * p \in Int /\ w * q \in Int /\ w * r \in Int
    BY <2>1
  <2>6. zm - um = w * (p - q - r)
    BY <2>1, <2>2, <2>3, <2>5
  <2> QED
    BY <2>1, <2>6, <2>4 DEF zm, um
<1> QED
  BY <1>3, <1>4, <1>6, RestsEqual

-----------------------------------------------------------------------------
(* The shared counter.  The hub may run only between two writes of a       *)
(* handler, so a request can be ended on the wire and not yet counted out  *)
(* only in the handler that runs (Late); Counted says what the counter     *)
(* then stands for.                                                        *)

Counts(c, i) == /\ req[c][i].responder /\ req[c][i].awaiting
                /\ ~ Unread(c, "BEGIN", i) /\ ~ Sent(c, "END", i)

(* What the rest of a handler has still to subtract, or has subtracted     *)
(* too much.                                                               *)
Debt(t) == IF t \in {<<Dec>>, <<Dec, Disc>>} THEN 1 ELSE IF t = <<Fail>> THEN -1 ELSE 0

Late == IF running = "hub" THEN 0 ELSE Debt(todo[running])

Counted == concurrency = (Cardinality(Open) - Cardinality(Refused) + Late) % W

Finite == IsFiniteSet(Conn) /\ IsFiniteSet(Id)

LEMMA TotalFacts ==
  ASSUME Finite
  PROVE  /\ IsFiniteSet(Open) /\ Cardinality(Open) \in Nat
         /\ IsFiniteSet(Refused) /\ Cardinality(Refused) \in Nat
         /\ Late \in Int /\ W \in Nat /\ W > 0
<1>1. IsFiniteSet(Conn \X Id)
  BY FS_Product DEF Finite
<1>2. Open \in SUBSET (Conn \X Id) /\ Refused \in SUBSET Conn
  BY DEF Open, Refused
<1>3. IsFiniteSet(Open) /\ IsFiniteSet(Refused)
  BY <1>1, <1>2, FS_Subset DEF Finite
<1> QED
  BY <1>3, FS_CardinalityType, ProcessAssumption DEF Late, Debt

LEMMA OpenIs == \A c \in Conn, i \in Id : <<c, i>> \in Open <=> Counts(c, i)
BY DEF Open, Counts

LEMMA OpenSame ==
  ASSUME \A c \in Conn, i \in Id : Counts(c, i)' <=> Counts(c, i)
  PROVE  Open' = Open
BY DEF Open, Counts

LEMMA OpenAdds ==
  ASSUME NEW c \in Conn, NEW i \in Id, ~ Counts(c, i), Counts(c, i)',
         \A d \in Conn, j \in Id : d # c \/ j # i => (Counts(d, j)' <=> Counts(d, j)),
         Finite
  PROVE  Cardinality(Open') = Cardinality(Open) + 1
<1>1. <<c, i>> \notin Open
  BY OpenIs
<1>2. Open' = Open \cup {<<c, i>>}
  BY DEF Open, Counts
<1> QED
  BY <1>1, <1>2, TotalFacts, FS_AddElement

LEMMA OpenDrops ==
  ASSUME NEW c \in Conn, NEW i \in Id, Counts(c, i), ~ Counts(c, i)',
         \A d \in Conn, j \in Id : d # c \/ j # i => (Counts(d, j)' <=> Counts(d, j)),
         Finite
  PROVE  Cardinality(Open') = Cardinality(Open) - 1
<1>1. <<c, i>> \in Open
  BY OpenIs
<1>2. Open' = Open \ {<<c, i>>}
  BY DEF Open, Counts
<1> QED
  BY <1>1, <1>2, TotalFacts, FS_RemoveElement

LEMMA CountedSame ==
  ASSUME Counted, concurrency' = concurrency, Finite,
         Cardinality(Open') - Cardinality(Refused') + Late'
           = Cardinality(Open) - Cardinality(Refused) + Late
  PROVE  Counted'
BY DEF Counted

LEMMA CountedMoves ==
  ASSUME Counted, Finite, NEW y \in Int, concurrency' = (concurrency + y) % W,
         Cardinality(Open') - Cardinality(Refused') + Late'
           = (Cardinality(Open) - Cardinality(Refused) + Late) + y
  PROVE  Counted'
<1> DEFINE x == Cardinality(Open) - Cardinality(Refused) + Late
<1>1. x \in Int /\ W \in Nat /\ W > 0
  BY TotalFacts
<1>2. concurrency = x % W
  BY DEF Counted
<1> HIDE DEF x
<1>3. ((x % W) + y) % W = (x + y) % W
  BY <1>1, AddModulo
<1> QED
  BY <1>2, <1>3 DEF Counted, x

LEMMA DebtFacts ==
  /\ Debt(<<>>) = 0 /\ Debt(<<Disc>>) = 0
  /\ \A t \in Work : t # <<>> /\ Head(t).op \in {"write", "try"} => Debt(t) = 0
  /\ \A t \in Ended : Debt(Tail(t)) = Debt(t) - 1
  /\ Debt(<<Fail>>) = -1
  /\ \A i \in Id : \A t \in Ending(i) :
       Debt(Tail(t)) = IF Head(t) = End(i) /\ ~ Fails(t) THEN 1 ELSE 0
<1>1. /\ <<>> \notin {<<Dec>>, <<Dec, Disc>>, <<Fail>>} /\ <<Disc>> \notin {<<Dec>>, <<Dec, Disc>>, <<Fail>>}
      /\ <<Fail>> \notin {<<Dec>>, <<Dec, Disc>>} /\ <<Dec, Fail>> \notin {<<Dec>>, <<Dec, Disc>>, <<Fail>>}
  BY DEF Dec, Disc, Fail, Do
<1>2. /\ Debt(<<>>) = 0 /\ Debt(<<Disc>>) = 0 /\ Debt(<<Fail>>) = -1
      /\ Debt(<<Dec>>) = 1 /\ Debt(<<Dec, Disc>>) = 1 /\ Debt(<<Dec, Fail>>) = 0
  BY <1>1 DEF Debt
<1>3. ASSUME NEW t \in Work, t # <<>>, Head(t).op \in {"write", "try"} PROVE Debt(t) = 0
  <2>1. Head(<<Dec>>).op = "decrement" /\ Head(<<Dec, Disc>>).op = "decrement" /\ Head(<<Fail>>).op = "fail"
    BY DEF Dec, Disc, Fail, Do
  <2> QED
    BY <1>3, <2>1 DEF Debt
<1>4. ASSUME NEW t \in Ended PROVE Debt(Tail(t)) = Debt(t) - 1
  <2>1. Tail(<<Dec>>) = <<>> /\ Tail(<<Dec, Disc>>) = <<Disc>> /\ Tail(<<Dec, Fail>>) = <<Fail>>
    OBVIOUS
  <2>2. CASE t = <<Dec>>
    BY <1>2, <2>1, <2>2
  <2>3. CASE t = <<Dec, Disc>>
    BY <1>2, <2>1, <2>3
  <2>4. CASE t = <<Dec, Fail>>
    BY <1>2, <2>1, <2>4
  <2> QED
    BY <2>2, <2>3, <2>4 DEF Ended
<1>5. ASSUME NEW i \in Id, NEW t \in Ending(i)
      PROVE  Debt(Tail(t)) = IF Head(t) = End(i) /\ ~ Fails(t) THEN 1 ELSE 0
  <2>1. CASE Head(t) = End(i)
    <3>1. End(i) # Close(i) /\ End(i) # Stdout(i) /\ End(i) # Stderr(i)
      BY DEF Stdout, Stderr, Close, End, Write, Attempt
    <3>2. Tail(t) \in Ended
      BY <2>1, <3>1, EndingHead
    <3> QED
      BY <1>2, <2>1, <3>2, EndingHead DEF Ended
  <2>2. CASE Head(t) # End(i)
    <3>1. Tail(t) \in Ending(i)
      BY <2>2, EndingHead
    <3>2. Tail(t) \notin Ended \cup Others
      BY <3>1, EndingHead, EndedFacts
    <3> QED
      BY <2>2, <3>2 DEF Debt, Ended, Others
  <2> QED
    BY <2>1, <2>2
<1> QED
  BY <1>2, <1>3, <1>4, <1>5

(* What is unread after a record is sent, or read.                         *)
LEMMA SendUnread ==
  ASSUME Types, NEW c \in Conn, NEW r \in Record, Send(c, r)
  PROVE  /\ \A type, i : Unread(c, type, i)' <=> Unread(c, type, i) \/ (r.type = type /\ r.id = i)
         /\ \A d \in Conn : d # c => inq'[d] = inq[d]
<1> DEFINE n == Len(inq[c]) + 1
<1>1. /\ \A d \in Conn : d # c => inq'[d] = inq[d]
      /\ n \in Nat /\ n > 0 /\ DOMAIN inq[c] = 1 .. (n - 1)
      /\ DOMAIN inq'[c] = 1 .. n /\ inq'[c][n] = r
      /\ \A a \in DOMAIN inq[c] : inq'[c][a] = inq[c][a]
  BY SendFacts
<1> HIDE DEF n
<1>2. ASSUME NEW type, NEW i, Unread(c, type, i)' PROVE Unread(c, type, i) \/ (r.type = type /\ r.id = i)
  <2>1. PICK a \in DOMAIN inq'[c] : inq'[c][a].type = type /\ inq'[c][a].id = i
    BY <1>2 DEF Unread
  <2>2. CASE a = n
    BY <1>1, <2>1, <2>2
  <2>3. CASE a # n
    BY <1>1, <2>1, <2>3 DEF Unread
  <2> QED
    BY <2>2, <2>3
<1>3. ASSUME NEW type, NEW i, Unread(c, type, i) PROVE Unread(c, type, i)'
  BY <1>1, <1>3 DEF Unread
<1>4. ASSUME NEW type, NEW i, r.type = type, r.id = i PROVE Unread(c, type, i)'
  BY <1>1, <1>4 DEF Unread
<1> QED
  BY <1>1, <1>2, <1>3, <1>4

LEMMA ReadUnread ==
  ASSUME Types, NEW c \in Conn, inq[c] # <<>>, inq' = [inq EXCEPT ![c] = Tail(@)]
  PROVE  /\ \A type, i : Unread(c, type, i) <=>
              Unread(c, type, i)' \/ (Head(inq[c]).type = type /\ Head(inq[c]).id = i)
         /\ \A d \in Conn : d # c => inq'[d] = inq[d]
<1> DEFINE r == Head(inq[c])
           n == Len(inq[c])
<1>1. /\ r = inq[c][1] /\ n \in Nat /\ n > 0 /\ DOMAIN inq[c] = 1 .. n
      /\ DOMAIN inq'[c] = 1 .. (n - 1) /\ \A a \in DOMAIN inq'[c] : inq'[c][a] = inq[c][a + 1]
      /\ \A d \in Conn : d # c => inq'[d] = inq[d]
  BY ReadFacts
<1> HIDE DEF r, n
<1>2. ASSUME NEW type, NEW i, Unread(c, type, i) PROVE Unread(c, type, i)' \/ (r.type = type /\ r.id = i)
  <2>1. PICK a \in DOMAIN inq[c] : inq[c][a].type = type /\ inq[c][a].id = i
    BY <1>2 DEF Unread
  <2>2. CASE a = 1
    BY <1>1, <2>1, <2>2
  <2>3. CASE a # 1
    <3>1. a - 1 \in DOMAIN inq'[c] /\ inq'[c][a - 1] = inq[c][a]
      BY <1>1, <2>3
    <3> QED
      BY <2>1, <3>1 DEF Unread
  <2> QED
    BY <2>2, <2>3
<1>3. ASSUME NEW type, NEW i, Unread(c, type, i)' PROVE Unread(c, type, i)
  <2>1. PICK a \in DOMAIN inq'[c] : inq'[c][a].type = type /\ inq'[c][a].id = i
    BY <1>3 DEF Unread
  <2>2. a + 1 \in DOMAIN inq[c] /\ inq'[c][a] = inq[c][a + 1]
    BY <1>1
  <2> QED
    BY <2>1, <2>2 DEF Unread
<1>4. ASSUME NEW type, NEW i, r.type = type, r.id = i PROVE Unread(c, type, i)
  <2>1. 1 \in DOMAIN inq[c]
    BY <1>1
  <2> QED
    BY <1>1, <1>4, <2>1 DEF Unread
<1> QED
  BY <1>1, <1>2, <1>3, <1>4 DEF r

LEMMA BeginCounted ==
  ASSUME Inv, Early, Finite, Counted, NEW c \in Conn, NEW i \in Id, NEW keep \in Keep,
         NEW responder \in Roles, BeginRequest(c, i, keep, responder)
  PROVE  Counted'
<1> DEFINE r == [type |-> "BEGIN", id |-> i, keep |-> keep, responder |-> responder]
<1>1. Types /\ Same /\ Send(c, r) /\ Awaited(c)
  BY DEF Inv, Local, BeginRequest
<1>2. r \in Record /\ r.type = "BEGIN" /\ r.id = i
  BY ProcessAssumption DEF Record, BeginRequest
<1>3. ~ Counts(c, i)
  BY <1>1 DEF Counts, Awaited, BeginRequest
<1>4. \A d \in Conn, j \in Id : d # c \/ j # i => req'[d][j] = req[d][j]
  BY <1>1 DEF BeginRequest, Types
<1> HIDE DEF r
<1>5. /\ Unread(c, "BEGIN", i)'
      /\ \A d \in Conn, j \in Id : d # c \/ j # i => (Unread(d, "BEGIN", j)' <=> Unread(d, "BEGIN", j))
  <2>1. \A d \in Conn : d # c => \A j : Unread(d, "BEGIN", j)' <=> Unread(d, "BEGIN", j)
    BY <1>1, <1>2, SendUnread DEF Unread
  <2> QED
    BY <1>1, <1>2, <2>1, SendUnread
<1>6. \A d \in Conn, j \in Id : Counts(d, j)' <=> Counts(d, j)
  BY <1>1, <1>3, <1>4, <1>5, SameFacts DEF Counts, Sent
<1>7. Open' = Open
  BY <1>6, OpenSame
<1> QED
  BY <1>1, <1>7, SameFacts, CountedSame DEF Refused, Late

(* The other records of the web server.                                    *)
LEMMA SendCounted ==
  ASSUME Inv, Finite, Counted, NEW c \in Conn, NEW r \in Record, Same, Send(c, r),
         r.type # "BEGIN",
         \A d \in Conn, j \in Id : /\ req'[d][j].awaiting = req[d][j].awaiting
                                  /\ req'[d][j].responder = req[d][j].responder
  PROVE  Counted'
<1>1. \A d \in Conn, j \in Id : Unread(d, "BEGIN", j)' <=> Unread(d, "BEGIN", j)
  <2>1. \A d \in Conn : d # c => \A j : Unread(d, "BEGIN", j)' <=> Unread(d, "BEGIN", j)
    BY SendUnread DEF Inv, Unread
  <2> QED
    BY <2>1, SendUnread DEF Inv
<1>2. Open' = Open
  BY <1>1, SameFacts, OpenSame DEF Counts, Sent
<1> QED
  BY <1>2, SameFacts, CountedSame DEF Refused, Late

LEMMA WebServerCounted ==
  ASSUME Inv, Early, Finite, Counted, WebServer
  PROVE  Counted'
<1>1. PICK c \in Conn :
        \/ \E i \in Id :
             \/ \E keep \in Keep, responder \in Roles : BeginRequest(c, i, keep, responder)
             \/ \E k \in Key : SendParams(c, i, k)
             \/ EndParams(c, i) \/ EndStdin(c, i) \/ AbortRequest(c, i)
        \/ \E r \in Extras : SendExtra(c, r)
  BY DEF WebServer
<1>2. CASE \E i \in Id : \E keep \in Keep, responder \in Roles : BeginRequest(c, i, keep, responder)
  BY <1>2, BeginCounted
<1>3. ASSUME NEW i \in Id, NEW k \in Key, SendParams(c, i, k) PROVE Counted'
  <2> DEFINE r == [type |-> "PARAMS", id |-> i, key |-> k, value |-> req[c][i].serial]
  <2>1. req[c][i] \in Request /\ req \in [Conn -> [Id -> Request]]
    BY DEF Inv, Types
  <2>2. r \in Record /\ r.type # "BEGIN"
    BY <2>1 DEF Record, Request
  <2>3. \A d \in Conn, j \in Id : /\ req'[d][j].awaiting = req[d][j].awaiting
                                 /\ req'[d][j].responder = req[d][j].responder
    BY <1>3, <2>1 DEF SendParams, Request
  <2>4. Same /\ Send(c, r)
    BY <1>3 DEF SendParams
  <2> HIDE DEF r
  <2> QED
    BY <2>2, <2>3, <2>4, SendCounted
<1>4. ASSUME NEW i \in Id, NEW type \in {"PARAMS_END", "STDIN_END", "ABORT"}, NEW phase,
             Same, Send(c, [type |-> type, id |-> i]), req' = [req EXCEPT ![c][i].phase = phase]
      PROVE  Counted'
  <2> DEFINE r == [type |-> type, id |-> i]
  <2>1. r \in Record /\ r.type # "BEGIN"
    BY DEF Record
  <2>2. \A d \in Conn, j \in Id : /\ req'[d][j].awaiting = req[d][j].awaiting
                                 /\ req'[d][j].responder = req[d][j].responder
    BY <1>4 DEF Inv, Types, Request
  <2>3. Same /\ Send(c, r)
    BY <1>4
  <2> HIDE DEF r
  <2> QED
    BY <2>1, <2>2, <2>3, SendCounted
<1>5. ASSUME NEW i \in Id, EndParams(c, i) \/ EndStdin(c, i) \/ AbortRequest(c, i) PROVE Counted'
  BY <1>4, <1>5 DEF EndParams, EndStdin, AbortRequest
<1>6. ASSUME NEW r \in Extras, SendExtra(c, r) PROVE Counted'
  <2>1. r \in Record /\ r.type # "BEGIN"
    BY DEF Extras, Record
  <2> QED
    BY <1>6, <2>1, SendCounted DEF SendExtra
<1> QED
  BY <1>1, <1>2, <1>3, <1>5, <1>6

LEMMA ReceiveCounted ==
  ASSUME Inv, Early, Finite, Counted, NEW c \in Conn, Receive(c)
  PROVE  Counted'
<1>1. /\ \A d \in Conn : d # c => req'[d] = req[d] /\ outq'[d] = outq[d]
      /\ running' = running /\ pc' = pc /\ todo' = todo /\ inq' = inq
  BY ReceiveTypes DEF Inv
<1>2. concurrency' = concurrency
  BY DEF Receive, counts
<1>3. \A d \in Conn, i \in Id : Counts(d, i)' <=> Counts(d, i)
  <2>1. \A d \in Conn, i \in Id : d # c => (Counts(d, i)' <=> Counts(d, i))
    BY <1>1 DEF Counts, Sent, Unread
  <2>2. \A i \in Id : Counts(c, i)' <=> Counts(c, i)
    BY <1>1, ReceiveSent DEF Counts, Unread
  <2> QED
    BY <2>1, <2>2
<1>4. Open' = Open
  BY <1>3, OpenSame
<1> QED
  BY <1>1, <1>2, <1>4, CountedSame DEF Refused, Late

LEMMA DispatchCounted ==
  ASSUME Inv, Early, Finite, Counted, NEW c \in Conn, Dispatch(c)
  PROVE  Counted'
<1> DEFINE r == Head(inq[c])
<1>1. /\ running = c /\ todo[c] = <<>> /\ inq[c] # <<>> /\ Types /\ c # "hub" /\ pc[c] = "loop"
      /\ InStream(c) /\ UnreadDue(c)
  <2>1. running = c /\ todo[c] = <<>> /\ inq[c] # <<>> /\ Types /\ c # "hub" /\ pc[c] = "loop"
    BY ProcessAssumption DEF Dispatch, Reads, Inv, Control
  <2> QED
    BY <2>1, NothingFacts DEF Inv, Local, Input, Live
<1>2. /\ running' = running /\ pc' = pc /\ outq' = outq /\ req' = req
      /\ inq' = [inq EXCEPT ![c] = Tail(@)]
  BY DEF Dispatch, process_begin_request, process_abort_request, process_params,
         process_stdin, process_unknown, Handle, client
<1>3. /\ r = inq[c][1] /\ r \in Record /\ 1 \in DOMAIN inq[c]
      /\ \A a \in DOMAIN inq'[c] : inq'[c][a] = inq[c][a + 1] /\ a + 1 \in DOMAIN inq[c] /\ 1 < a + 1
  <2> DEFINE n == Len(inq[c])
  <2>1. /\ r = inq[c][1] /\ r \in Record /\ n \in Nat /\ n > 0 /\ DOMAIN inq[c] = 1 .. n
        /\ DOMAIN inq'[c] = 1 .. (n - 1) /\ \A a \in DOMAIN inq'[c] : inq'[c][a] = inq[c][a + 1]
    BY <1>1, <1>2, ReadFacts
  <2> HIDE DEF n, r
  <2> QED
    BY <2>1
<1>4. /\ \A i \in Id : Unread(c, "BEGIN", i) <=>
           Unread(c, "BEGIN", i)' \/ (r.type = "BEGIN" /\ r.id = i)
      /\ \A d \in Conn : d # c => \A i : Unread(d, "BEGIN", i)' <=> Unread(d, "BEGIN", i)
  <2>1. \A d \in Conn : d # c => inq'[d] = inq[d]
    BY <1>1, <1>2, ReadUnread
  <2>2. \A d \in Conn : d # c => \A i : Unread(d, "BEGIN", i)' <=> Unread(d, "BEGIN", i)
    BY <2>1 DEF Unread
  <2> QED
    BY <1>1, <1>2, <2>2, ReadUnread
<1> HIDE DEF r
<1>5. Late = 0 /\ Refused' = Refused
  BY <1>1, <1>2, DebtFacts DEF Late, Refused
<1>6. CASE process_begin_request(c, r) /\ r.responder
  <2>1. r.type = "BEGIN" /\ r.id \in Id /\ todo' = [todo EXCEPT ![c] = <<>>]
        /\ concurrency' = (concurrency + 1) % W
    BY <1>3, <1>6, RecordTyped DEF process_begin_request, Handle, Asking
  <2>2. PICK i \in Id : i = r.id
    BY <2>1
  <2>3. Late' = 0
    BY <1>1, <1>2, <2>1, DebtFacts DEF Late, Types
  <2>4. Wanted(c, r)
    BY <1>1, <1>3, <2>1 DEF UnreadDue, Asking
  <2>5. ~ Unread(c, "BEGIN", i)'
    <3> SUFFICES ASSUME NEW a \in DOMAIN inq'[c], inq'[c][a].type = "BEGIN", inq'[c][a].id = i
                 PROVE  FALSE
      BY DEF Unread
    <3>1. a + 1 \in DOMAIN inq[c] /\ 1 < a + 1 /\ inq[c][a + 1].type = "BEGIN" /\ inq[c][a + 1].id = i
      BY <1>3
    <3> QED
      BY <1>1, <1>3, <2>2, <2>1, <3>1 DEF InStream, Asking
  <2>6. ~ Counts(c, i) /\ Counts(c, i)'
    BY <1>2, <1>4, <1>6, <2>2, <2>1, <2>4, <2>5 DEF Counts, Wanted, Due, Sent
  <2>7. \A d \in Conn, j \in Id : d # c \/ j # i => (Counts(d, j)' <=> Counts(d, j))
    BY <1>2, <1>4, <2>2 DEF Counts, Sent
  <2>8. Cardinality(Open') = Cardinality(Open) + 1
    BY <2>6, <2>7, OpenAdds
  <2>9. Cardinality(Open') - Cardinality(Refused') + Late'
           = (Cardinality(Open) - Cardinality(Refused) + Late) + 1
    BY <1>5, <2>3, <2>8, TotalFacts
  <2> QED
    BY <2>1, <2>9, CountedMoves
<1>7. CASE ~ (process_begin_request(c, r) /\ r.responder)
  <2>1. concurrency' = concurrency
    BY <1>7 DEF Dispatch, process_begin_request, process_abort_request, process_params,
                process_stdin, process_unknown, counts, r
  <2>2. Late' = 0
    <3>1. \A i \in Id : /\ Debt(request_handle(i)) = 0
                        /\ Debt(request_end(i) \o <<Do("disconnect")>>) = 0
                        /\ Debt(<<Attempt("STDERR", i)>> \o request_end(i) \o <<Do("fail")>>) = 0
      <4>1. \A i \in Id : \A t \in Ending(i) : Debt(t) = 0
        BY EndingHead, EndedFacts DEF Debt, Ended, Others
      <4> QED
        BY <4>1, EndsFacts DEF Ending
    <3>2. Debt(<<>>) = 0 /\ Debt(<<Do("disconnect")>>) = 0 /\ Debt(<<Write("UNKNOWN", 0)>>) = 0
      <4>1. <<Unknown>> \in Work /\ <<Unknown>> # <<>> /\ Head(<<Unknown>>).op = "write"
        BY NothingFacts DEF Unknown, Write
      <4> QED
        BY <4>1, DebtFacts DEF Disc, Unknown
    <3>3. r.type \in {"BEGIN", "PARAMS_END", "ABORT"} => r.id \in Id
      BY <1>3, RecordTyped DEF Asking
    <3>4. \E rest : todo' = [todo EXCEPT ![c] = rest] /\ Debt(rest) = 0
      <4>1. CASE process_begin_request(c, r)
        BY <1>7, <3>1, <3>3, <4>1 DEF process_begin_request, Handle
      <4>2. CASE process_abort_request(c, r)
        BY <3>1, <3>3, <4>2 DEF process_abort_request, Handle
      <4>3. CASE process_params(c, r)
        BY <3>1, <3>2, <3>3, <4>3 DEF process_params, Handle
      <4>4. CASE process_stdin(c, r)
        BY <3>2, <4>4 DEF process_stdin, Handle
      <4>5. CASE process_unknown(c, r)
        BY <3>2, <4>5 DEF process_unknown, Handle
      <4> QED
        BY <4>1, <4>2, <4>3, <4>4, <4>5 DEF Dispatch, r
    <3> QED
      BY <1>1, <1>2, <3>4 DEF Late, Types
  <2>3. \A d \in Conn, j \in Id : Counts(d, j)' <=> Counts(d, j)
    <3>1. ASSUME r.type = "BEGIN" PROVE r.id \in Id /\ ~ req[c][r.id].responder
      <4>1. process_begin_request(c, r) /\ ~ r.responder
        BY <1>7, <3>1 DEF Dispatch, process_begin_request, process_abort_request, process_params,
                          process_stdin, process_unknown, r
      <4>2. r.id \in Id /\ Wanted(c, r)
        BY <1>1, <1>3, <3>1, RecordTyped DEF UnreadDue, Asking
      <4> QED
        BY <3>1, <4>1, <4>2 DEF Wanted
    <3> QED
      BY <1>2, <1>4, <3>1 DEF Counts, Sent
  <2>4. Open' = Open
    BY <2>3, OpenSame
  <2> QED
    BY <1>5, <2>1, <2>2, <2>4, CountedSame
<1> QED
  BY <1>6, <1>7

LEMMA WriteCounted ==
  ASSUME Inv, Early, Finite, Counted, NEW c \in Conn, _write(c)
  PROVE  Counted'
<1> DEFINE t == todo[c]
           s == Head(t)
<1>1. /\ Types /\ running = c /\ pc[c] = "loop" /\ c # "hub" /\ Promised(c) /\ Refuses(c) /\ Input(c)
      /\ t \in Work /\ t # <<>> /\ s.op \in {"write", "try"}
  BY ProcessAssumption DEF Inv, Control, Types, Local, _write, Writes
<1>2. /\ running' = running /\ pc' = pc /\ inq' = inq /\ req' = req
      /\ concurrency' = concurrency /\ todo'[c] = Tail(t)
      /\ \A d \in Conn : d # c => outq'[d] = outq[d]
  BY <1>1 DEF _write, counts, client, Types
<1>3. \A type, i : Sent(c, type, i)' <=> Sent(c, type, i) \/ (s.type = type /\ s.id = i)
  BY <1>1, WriteSent
<1>4. Late = 0 /\ Late' = Debt(Tail(t)) /\ Refused' = Refused
  BY <1>1, <1>2, DebtFacts DEF Late, Refused
<1>5. \A d \in Conn, j \in Id : d # c => (Counts(d, j)' <=> Counts(d, j))
  BY <1>2 DEF Counts, Sent, Unread
<1> HIDE DEF t, s
<1>6. ASSUME s.type # "END", Debt(Tail(t)) = 0 PROVE Counted'
  <2>1. \A d \in Conn, j \in Id : Counts(d, j)' <=> Counts(d, j)
    BY <1>2, <1>3, <1>5, <1>6 DEF Counts, Unread
  <2>2. Open' = Open
    BY <2>1, OpenSame
  <2> QED
    BY <1>2, <1>4, <1>6, <2>2, CountedSame
<1>7. CASE t = <<Unknown>>
  <2>1. Tail(t) = <<>> /\ s.type # "END"
    BY <1>7 DEF Unknown, Write, s
  <2> QED
    BY <1>6, <2>1, DebtFacts
<1>8. ASSUME NEW i \in Id, t \in Ending(i) PROVE Counted'
  <2>1. Debt(Tail(t)) = IF s = End(i) /\ ~ Fails(t) THEN 1 ELSE 0
    BY <1>8, DebtFacts DEF s
  <2>2. s \in {Stdout(i), Stderr(i), Close(i), End(i)} /\ Ends(t, i)
    BY <1>8, EndingHead DEF s
  <2>3. CASE s # End(i)
    <3>1. s.type # "END"
      BY <2>2, <2>3 DEF Stdout, Stderr, Close, Write, Attempt
    <3> QED
      BY <1>6, <2>1, <2>3, <3>1
  <2>4. CASE s = End(i)
    <3>1. s.type = "END" /\ s.id = i
      BY <2>4 DEF End, Write
    <3>2. Due(c, i) /\ (Fails(t) <=> ~ req[c][i].responder)
      BY <1>1, <2>2 DEF Promised, Refuses, t
    <3>3. \A d \in Conn, j \in Id : d # c \/ j # i => (Counts(d, j)' <=> Counts(d, j))
      BY <1>2, <1>3, <1>5, <3>1 DEF Counts, Unread
    <3>4. ~ Counts(c, i)'
      BY <1>3, <3>1 DEF Counts
    <3>5. CASE Fails(t)
      <4>1. ~ Counts(c, i)
        BY <3>2, <3>5 DEF Counts
      <4>2. Open' = Open
        BY <3>3, <3>4, <4>1, OpenSame
      <4> QED
        BY <1>2, <1>4, <2>1, <3>5, <4>2, CountedSame
    <3>6. CASE ~ Fails(t)
      <4>1. ~ Unread(c, "BEGIN", i)
        BY <1>1, <2>2, <3>6 DEF Input, Live, UnreadDue, Wanted, Unread, Asking, t
      <4>2. Counts(c, i)
        BY <3>2, <3>6, <4>1 DEF Counts, Due
      <4>3. Cardinality(Open') = Cardinality(Open) - 1
        BY <3>3, <3>4, <4>2, OpenDrops
      <4>4. Cardinality(Open') - Cardinality(Refused') + Late'
               = Cardinality(Open) - Cardinality(Refused) + Late
        BY <1>4, <2>1, <2>4, <3>6, <4>3, TotalFacts
      <4> QED
        BY <1>2, <4>4, CountedSame
    <3> QED
      BY <3>5, <3>6
  <2> QED
    BY <2>3, <2>4
<1> QED
  BY <1>1, <1>7, <1>8, WorkHead DEF s

(* The steps that send and read nothing keep the open requests.            *)
LEMMA QuietOpen ==
  ASSUME inq' = inq, outq' = outq, req' = req
  PROVE  Open' = Open
BY DEF Open, Unread, Sent

LEMMA EffectCounted ==
  ASSUME Inv, Finite, Counted, NEW c \in Conn, Decrement(c) \/ Disconnect(c)
  PROVE  Counted'
<1>1. /\ running = c /\ running' = c /\ c # "hub" /\ todo[c] \in Work /\ todo[c] # <<>>
      /\ inq' = inq /\ outq' = outq /\ req' = req /\ pc' = pc /\ todo'[c] = Tail(todo[c])
  BY ProcessAssumption DEF Inv, Types, Decrement, Disconnect, Effect, client
<1>2. Open' = Open /\ Refused' = Refused /\ Late = Debt(todo[c]) /\ Late' = Debt(Tail(todo[c]))
  BY <1>1, QuietOpen DEF Refused, Late
<1>3. CASE Decrement(c)
  <2>1. todo[c] \in Ended
    BY <1>1, <1>3, WorkHead DEF Decrement, Effect
  <2>2. Late' = Late - 1
    BY <1>2, <2>1, DebtFacts
  <2>3. concurrency' = (concurrency + (-1)) % W
    BY <1>3 DEF Decrement, Inv, Types
  <2>4. Cardinality(Open') - Cardinality(Refused') + Late'
           = (Cardinality(Open) - Cardinality(Refused) + Late) + (-1)
    BY <1>2, <2>2, TotalFacts
  <2> QED
    BY <2>3, <2>4, CountedMoves
<1>4. CASE Disconnect(c)
  <2>1. todo[c] = <<Disc>>
    BY <1>1, <1>4, WorkHead DEF Disconnect, Effect
  <2>2. Late' = Late
    BY <1>2, <2>1, EndedTail, DebtFacts
  <2>3. concurrency' = concurrency
    BY <1>4 DEF Disconnect, counts
  <2> QED
    BY <1>2, <2>2, <2>3, CountedSame
<1> QED
  BY <1>3, <1>4

(* A refused role is counted out again when its greenthread returns.       *)
LEMMA FailRoleCounted ==
  ASSUME Inv, Finite, Counted, NEW c \in Conn, FailRole(c)
  PROVE  Counted'
<1>1. /\ running = c /\ running' = "hub" /\ c # "hub" /\ todo[c] \in Work /\ todo[c] # <<>>
      /\ inq' = inq /\ outq' = outq /\ req' = req /\ pc' = [pc EXCEPT ![c] = "refused"]
      /\ concurrency' = concurrency /\ pc[c] = "loop"
  BY ProcessAssumption DEF Inv, Types, Control, FailRole, Error, client, counts
<1>2. todo[c] = <<Fail>>
  BY <1>1, WorkHead DEF FailRole
<1>3. Open' = Open /\ Late = -1 /\ Late' = 0
  BY <1>1, <1>2, QuietOpen, DebtFacts DEF Late
<1>4. Refused' = Refused \cup {c} /\ c \notin Refused
  BY <1>1 DEF Refused, Inv, Types
<1>5. Cardinality(Refused') = Cardinality(Refused) + 1
  BY <1>4, TotalFacts, FS_AddElement
<1>6. Cardinality(Open') - Cardinality(Refused') + Late' = Cardinality(Open) - Cardinality(Refused) + Late
  BY <1>3, <1>5, TotalFacts
<1> QED
  BY <1>1, <1>6, CountedSame

(* The other steps come when nothing is left to subtract.                  *)
LEMMA IdleCounted ==
  ASSUME Inv, Finite, Counted, concurrency' = concurrency, inq' = inq, outq' = outq, req' = req,
         Refused' = Refused, Late = 0, Late' = 0
  PROVE  Counted'
BY QuietOpen, CountedSame

LEMMA HubCounted ==
  ASSUME Inv, Finite, Counted, NEW c \in Conn, Resume(c) \/ Yield(c) \/ CloseConnection(c)
  PROVE  Counted'
<1>1. /\ concurrency' = concurrency /\ inq' = inq /\ outq' = outq /\ req' = req /\ todo' = todo
  BY DEF Resume, Yield, CloseConnection, counts, client, thread
<1>2. Debt(todo[c]) = 0
  <2>1. todo[c] \in Work
    BY DEF Inv, Types
  <2>2. todo[c] = <<>> \/ (todo[c] # <<>> /\ Head(todo[c]).op \in {"write", "try"})
    BY ProcessAssumption DEF Inv, Control, Resume, Yield, CloseConnection, Blocked, Reads, Writes
  <2> QED
    BY <2>1, <2>2, DebtFacts
<1>3. Refused' = Refused
  <2>1. CASE Resume(c) \/ Yield(c)
    BY <2>1 DEF Resume, Yield, thread, Refused
  <2>2. CASE CloseConnection(c)
    <3>1. pc' = [pc EXCEPT ![c] = "closed"] /\ pc[c] = "loop" /\ pc \in [Conn -> {"loop", "closed", "refused", "error"}]
      BY <2>2, ProcessAssumption DEF CloseConnection, Inv, Control, Types
    <3> QED
      BY <3>1 DEF Refused
  <2> QED
    BY <2>1, <2>2
<1>4. running \in {c, "hub"} /\ running' \in {c, "hub"}
  BY DEF Resume, Yield, CloseConnection
<1> QED
  BY <1>1, <1>2, <1>3, <1>4, IdleCounted DEF Late

LEMMA FaultCounted ==
  ASSUME Inv, Finite, Counted, NEW c \in Conn, ReadFails(c) \/ WriteFails(c)
  PROVE  Counted'
<1>1. /\ running \in {c, "hub"} /\ pc[c] = "loop" /\ todo[c] \in Work
      /\ pc \in [Conn -> {"loop", "closed", "refused", "error"}]
  BY DEF ReadFails, WriteFails, CanFail, Inv, Types
<1>2. Late = 0
  <2>1. Debt(todo[c]) = 0
    BY <1>1, DebtFacts DEF ReadFails, WriteFails, Reads, Writes
  <2> QED
    BY <1>1, <2>1 DEF Late
<1>3. ASSUME Error(c, "error") PROVE Counted'
  <2>1. /\ concurrency' = concurrency /\ inq' = inq /\ outq' = outq /\ req' = req
        /\ running' = "hub" /\ pc' = [pc EXCEPT ![c] = "error"]
    BY <1>3 DEF Error, counts, client
  <2>2. Refused' = Refused /\ Late' = 0
    BY <1>1, <2>1 DEF Refused, Late
  <2> QED
    BY <1>2, <2>1, <2>2, IdleCounted
<1>4. CASE /\ WriteFails(c) /\ Head(todo[c]).op = "try" /\ running' = c
           /\ todo' = [todo EXCEPT ![c] = Tail(@)]
           /\ UNCHANGED <<pc, keep_connection, should_disconnect, params,
                          counts, inq, outq, client>>
  <2>1. /\ concurrency' = concurrency /\ inq' = inq /\ outq' = outq /\ req' = req /\ pc' = pc
        /\ todo'[c] = Tail(todo[c]) /\ todo[c] # <<>> /\ Head(todo[c]).op = "try"
    BY <1>4 DEF counts, client, WriteFails, Writes, Inv, Types
  <2>2. Debt(Tail(todo[c])) = 0
    <3>1. todo[c] # <<Unknown>>
      BY <2>1 DEF Unknown, Write
    <3>2. PICK i \in Id : todo[c] \in Ending(i)
      BY <1>1, <2>1, <3>1, WorkHead
    <3>3. Head(todo[c]) # End(i)
      BY <2>1 DEF End, Write
    <3> QED
      BY <3>2, <3>3, DebtFacts
  <2>3. Late' = 0 /\ Refused' = Refused
    BY <1>4, <2>1, <2>2 DEF Late, Refused
  <2> QED
    BY <1>2, <2>1, <2>3, IdleCounted
<1>5. CASE ReadFails(c)
  BY <1>3, <1>5 DEF ReadFails
<1>6. CASE WriteFails(c)
  BY <1>3, <1>4, <1>6 DEF WriteFails
<1> QED
  BY <1>5, <1>6

LEMMA NextCounted ==
  ASSUME Early, Finite
  PROVE  Inv /\ Counted /\ [Next]_vars => Counted'
<1> SUFFICES ASSUME Inv, Counted, [Next]_vars PROVE Counted'
  OBVIOUS
<1>1. CASE WebServer
  BY <1>1, WebServerCounted
<1>2. ASSUME NEW c \in Conn, Thread(c) \/ ReadFails(c) \/ WriteFails(c) PROVE Counted'
  <2>1. CASE Resume(c) \/ Yield(c) \/ CloseConnection(c)
    BY <2>1, HubCounted
  <2>2. CASE Dispatch(c) \/ _write(c)
    BY <2>2, DispatchCounted, WriteCounted
  <2>3. CASE Decrement(c) \/ Disconnect(c)
    BY <2>3, EffectCounted
  <2>4. CASE FailRole(c) \/ ReadFails(c) \/ WriteFails(c)
    BY <2>4, FailRoleCounted, FaultCounted
  <2> QED
    BY <1>2, <2>1, <2>2, <2>3, <2>4 DEF Thread
<1>3. ASSUME NEW c \in Conn, Receive(c) PROVE Counted'
  BY <1>3, ReceiveCounted
<1>4. CASE AllOver \/ UNCHANGED vars
  <2>1. /\ concurrency' = concurrency /\ inq' = inq /\ outq' = outq /\ req' = req
        /\ running' = running /\ pc' = pc /\ todo' = todo
    BY <1>4 DEF AllOver, vars, thread, counts, client
  <2>2. Open' = Open /\ Refused' = Refused /\ Late' = Late
    BY <2>1, QuietOpen DEF Refused, Late
  <2> QED
    BY <2>1, <2>2, CountedSame
<1> QED
  BY <1>1, <1>2, <1>3, <1>4 DEF Next

(* Whenever the hub runs the shared counter is exact, modulo 2^16: it      *)
(* counts the requests begun and not ended, on all connections, those a    *)
(* failed connection left behind included, less one for every connection   *)
(* that ended with a refused role (__init__.c:213, 285-293, 592); as long  *)
(* as the web server aborts a request only while it sends its parameters   *)
(* (Early).  An abort that crosses the answer counts the request out once  *)
(* more, and the counter is no longer exact.                               *)
THEOREM ProcessCountExact ==
  ASSUME Early, Finite
  PROVE  Spec => []CountExact
<1>1. Init => Counted
  <2> SUFFICES ASSUME Init PROVE Counted
    OBVIOUS
  <2>1. Open = {} /\ Refused = {} /\ Late = 0 /\ concurrency = 0
    BY DEF Init, Open, Refused, Late, Idle
  <2>2. \A w \in Nat : w > 0 => 0 % w = 0
    OBVIOUS
  <2> QED
    BY <2>1, <2>2, TotalFacts, FS_EmptySet DEF Counted
<1>2. Inv /\ Counted /\ [Next]_vars => Counted'
  BY NextCounted
<1>3. Counted => CountExact
  BY TotalFacts DEF Counted, CountExact, Late
<1> QED
  BY Invariance, <1>1, <1>2, <1>3, PTL DEF Spec

-----------------------------------------------------------------------------
(* No connection is closed under a request that was read and not answered, *)
(* when the web server runs one request at a time on a connection: for any *)
(* connections, ids and sizes of the sockets, ids used again, kept         *)
(* connections or not, and faults.  The inductive invariant:               *)

(* One request at a time.                                                  *)
Single(c) ==
  \A i, j \in Id : req[c][i].phase # "idle" /\ req[c][j].phase # "idle" => i = j

(* The record at a asks for the end of request i, or begins it.            *)
AsksEnd(c, a, i) == inq[c][a].type \in Asked /\ inq[c][a].id = i
Begins(c, a, i)  == inq[c][a].type = "BEGIN" /\ inq[c][a].id = i

(* A request whose parameters are sent is at work, answered, or the end of *)
(* its parameters is unread.                                               *)
Requested(c) ==
  Live(c) => \A i \in Id : req[c][i].phase = "stdin" /\ Due(c, i) =>
    Ends(todo[c], i) \/ \E a \in DOMAIN inq[c] : AsksEnd(c, a, i)

(* When a record that may end the connection is read, a request still due  *)
(* will have been answered by then, or comes after it.                     *)
Final == {"STDIN_END", "ABORT"}

Answers(c, a, i) ==
  \/ Ends(todo[c], i)
  \/ \E b \in DOMAIN inq[c] : b <= a /\ AsksEnd(c, b, i)
  \/ \E b \in DOMAIN inq[c] : a < b /\ Begins(c, b, i)

Settled(c) ==
  Live(c) => \A a \in DOMAIN inq[c] : inq[c][a].type \in Final =>
    \A i \in Id : Due(c, i) => Answers(c, a, i)

(* The handler that may end it answers what is due first.                  *)
Parting(c) ==
  Discs(todo[c]) => \A i \in Id : Due(c, i) => Unread(c, "BEGIN", i) \/ Ends(todo[c], i)

Parted(c) ==
  should_disconnect[c] =>
    todo[c] = <<>> /\ \A i \in Id : Due(c, i) => Unread(c, "BEGIN", i)

Closed(c) == pc[c] = "closed" => should_disconnect[c]

Closing(c) == /\ Single(c) /\ Requested(c) /\ Settled(c)
              /\ Parting(c) /\ Parted(c) /\ Closed(c)

LEMMA ClosingElsewhere ==
  ASSUME NEW d, Closing(d), pc'[d] = pc[d], todo'[d] = todo[d], inq'[d] = inq[d],
         outq'[d] = outq[d], req'[d] = req[d], should_disconnect'[d] = should_disconnect[d]
  PROVE  Closing(d)'
BY DEF Closing, Single, Requested, Settled, Answers, AsksEnd, Begins, Parting, Parted, Closed,
       Live, Due, Sent, Unread

LEMMA ClosingInit ==
  ASSUME Init, NEW c \in Conn
  PROVE  Closing(c)
<1>1. /\ todo[c] = <<>> /\ inq[c] = <<>> /\ outq[c] = <<>> /\ pc[c] = "loop"
      /\ ~ should_disconnect[c] /\ \A i \in Id : req[c][i] = Idle
  BY DEF Init
<1>2. ~ Discs(<<>>)
  BY OthersFacts
<1> QED
  BY <1>1, <1>2 DEF Closing, Single, Requested, Settled, Parting, Parted, Closed, Idle

-----------------------------------------------------------------------------
(* The web server.                                                         *)

(* The record sent is the last one unread.                                 *)
LEMMA SendLast ==
  ASSUME Types, NEW c \in Conn, NEW r \in Record, Send(c, r)
  PROVE  \E n \in Nat : /\ n > 0 /\ DOMAIN inq[c] = 1 .. (n - 1)
                        /\ DOMAIN inq'[c] = 1 .. n /\ inq'[c][n] = r
                        /\ \A a \in DOMAIN inq[c] : inq'[c][a] = inq[c][a]
<1> DEFINE m == Len(inq[c]) + 1
<1>1. /\ m \in Nat /\ m > 0 /\ DOMAIN inq[c] = 1 .. (m - 1)
      /\ DOMAIN inq'[c] = 1 .. m /\ inq'[c][m] = r
      /\ \A a \in DOMAIN inq[c] : inq'[c][a] = inq[c][a]
  BY SendFacts
<1> HIDE DEF m
<1> QED
  BY <1>1

LEMMA BeginClosing ==
  ASSUME Inv, Early, ~ Mpx, NEW c \in Conn, Closing(c), NEW i \in Id, NEW keep \in Keep,
         NEW responder \in Roles, BeginRequest(c, i, keep, responder)
  PROVE  Closing(c)'
<1> DEFINE r == [type |-> "BEGIN", id |-> i, keep |-> keep, responder |-> responder]
<1>1. Types /\ Same /\ Send(c, r) /\ Awaited(c) /\ pc[c] = "loop"
  BY DEF Inv, Local, BeginRequest, Send
<1>2. r \in Record /\ r.type = "BEGIN" /\ r.id = i
  BY ProcessAssumption DEF Record, BeginRequest
<1> HIDE DEF r
<1>3. PICK n \in Nat : /\ n > 0 /\ DOMAIN inq[c] = 1 .. (n - 1)
                      /\ DOMAIN inq'[c] = 1 .. n /\ inq'[c][n] = r
                      /\ \A a \in DOMAIN inq[c] : inq'[c][a] = inq[c][a]
  BY <1>1, <1>2, SendLast
<1>4. /\ pc' = pc /\ todo' = todo /\ outq' = outq /\ should_disconnect' = should_disconnect
  BY <1>1, SameFacts
(* Every other id is idle, before and after.                               *)
<1>5. \A j \in Id : req[c][j].phase = "idle"
  BY DEF BeginRequest
<1>6. \A j \in Id : j # i => req'[c][j] = req[c][j]
  BY <1>1 DEF BeginRequest, Types
<1>7. req'[c][i].phase = "params"
  BY <1>1 DEF BeginRequest, Types
<1>8. \A j \in Id : Due(c, j)' => j = i
  BY <1>1, <1>5, <1>6 DEF Due, Awaited
<1>9. n \in DOMAIN inq'[c] /\ Begins(c, n, i)' /\ Unread(c, "BEGIN", i)'
  BY <1>2, <1>3 DEF Begins, Unread
<1>10. Single(c)'
  BY <1>5, <1>6 DEF Single
<1>11. Requested(c)'
  BY <1>5, <1>6, <1>7 DEF Requested
<1>12. Settled(c)'
  <2> SUFFICES ASSUME NEW a \in DOMAIN inq'[c], inq'[c][a].type \in Final
               PROVE  Answers(c, a, i)'
    BY <1>8 DEF Settled
  <2>1. a < n
    BY <1>2, <1>3 DEF Final
  <2> QED
    BY <2>1, <1>9 DEF Answers
<1>13. Parting(c)'
  BY <1>8, <1>9 DEF Parting
<1>14. Parted(c)' /\ Closed(c)'
  BY <1>4, <1>8, <1>9 DEF Closing, Parted, Closed
<1> QED
  BY <1>10, <1>11, <1>12, <1>13, <1>14 DEF Closing

(* A record of a request under way.                                        *)
Proceeds(c, r) ==
  /\ \A i \in Id :
       /\ req'[c][i].awaiting = req[c][i].awaiting
       /\ req'[c][i].phase # "idle" => req[c][i].phase # "idle"
       /\ req'[c][i].phase = "stdin" =>
            req[c][i].phase = "stdin" \/ (r.type \in Asked /\ r.id = i)
  /\ r.type \in Final => /\ req[c][r.id].phase # "idle" /\ r.id \in Id
                         /\ r.type = "STDIN_END" => req[c][r.id].phase = "stdin"

LEMMA SendClosing ==
  ASSUME Inv, Early, NEW c \in Conn, Closing(c), NEW r \in Record, Same, Send(c, r), Proceeds(c, r)
  PROVE  Closing(c)'
<1>1. Types /\ Awaited(c)
  BY DEF Inv, Local
<1>2. PICK n \in Nat : /\ n > 0 /\ DOMAIN inq[c] = 1 .. (n - 1)
                      /\ DOMAIN inq'[c] = 1 .. n /\ inq'[c][n] = r
                      /\ \A a \in DOMAIN inq[c] : inq'[c][a] = inq[c][a]
  BY <1>1, SendLast
<1>3. /\ pc' = pc /\ todo' = todo /\ outq' = outq /\ should_disconnect' = should_disconnect
  BY SameFacts
<1>4. \A i \in Id : Due(c, i)' <=> Due(c, i)
  BY <1>3 DEF Due, Sent, Proceeds
<1>5. \A a \in DOMAIN inq[c], i \in Id : (AsksEnd(c, a, i) => AsksEnd(c, a, i)') /\ (Begins(c, a, i) => Begins(c, a, i)')
  BY <1>2 DEF AsksEnd, Begins
<1>6. \A i \in Id : Unread(c, "BEGIN", i) => Unread(c, "BEGIN", i)'
  BY <1>2 DEF Unread
<1>7. n \in DOMAIN inq'[c] /\ \A a \in DOMAIN inq[c] : a \in DOMAIN inq'[c] /\ a <= n
  BY <1>2
<1>8. Single(c)'
  BY DEF Closing, Single, Proceeds
<1>9. Requested(c)'
  <2> SUFFICES ASSUME Live(c), NEW i \in Id, req'[c][i].phase = "stdin", Due(c, i)
               PROVE  Ends(todo[c], i) \/ \E a \in DOMAIN inq'[c] : AsksEnd(c, a, i)'
    BY <1>3, <1>4 DEF Requested, Live
  <2>1. CASE req[c][i].phase = "stdin"
    BY <2>1, <1>5, <1>7 DEF Closing, Requested
  <2>2. CASE r.type \in Asked /\ r.id = i
    BY <2>2, <1>2, <1>7 DEF AsksEnd
  <2> QED
    BY <2>1, <2>2 DEF Proceeds
<1>10. Settled(c)'
  <2> SUFFICES ASSUME Live(c), NEW a \in DOMAIN inq'[c], inq'[c][a].type \in Final,
                      NEW i \in Id, Due(c, i)
               PROVE  Answers(c, a, i)'
    BY <1>3, <1>4 DEF Settled, Live
  <2>1. CASE a # n
    <3>1. a \in DOMAIN inq[c] /\ inq[c][a].type \in Final
      BY <2>1, <1>2
    <3>2. Answers(c, a, i)
      BY <3>1 DEF Closing, Settled
    <3> QED
      BY <3>2, <1>3, <1>5, <1>7 DEF Answers
  <2>2. CASE a = n
    <3>1. r.type \in Final /\ r.id \in Id /\ req[c][r.id].phase # "idle"
      BY <2>2, <1>2 DEF Proceeds
    <3>2. req[c][i].phase # "idle"
      BY <1>1 DEF Due, Awaited
    <3>3. r.id = i
      BY <3>1, <3>2 DEF Closing, Single
    <3>4. CASE r.type = "ABORT"
      <4>1. AsksEnd(c, n, i)'
        BY <3>3, <3>4, <1>2 DEF AsksEnd, Asked
      <4> QED
        BY <4>1, <2>2, <1>2, <1>7 DEF Answers
    <3>5. CASE r.type = "STDIN_END"
      <4>1. Ends(todo[c], i) \/ \E b \in DOMAIN inq[c] : AsksEnd(c, b, i)
        BY <3>3, <3>5 DEF Closing, Requested, Proceeds, Final
      <4> QED
        BY <4>1, <2>2, <1>3, <1>5, <1>7 DEF Answers
    <3> QED
      BY <3>1, <3>4, <3>5 DEF Final
  <2> QED
    BY <2>1, <2>2
<1>11. Parting(c)' /\ Parted(c)' /\ Closed(c)'
  BY <1>3, <1>4, <1>6 DEF Closing, Parting, Parted, Closed
<1> QED
  BY <1>8, <1>9, <1>10, <1>11 DEF Closing

LEMMA SendParamsClosing ==
  ASSUME Inv, Early, NEW c \in Conn, Closing(c), NEW i \in Id, NEW k \in Key, SendParams(c, i, k)
  PROVE  Closing(c)'
<1> DEFINE r == [type |-> "PARAMS", id |-> i, key |-> k, value |-> req[c][i].serial]
<1>1. req[c][i] \in Request /\ req \in [Conn -> [Id -> Request]]
  BY DEF Inv, Types
<1>2. r \in Record /\ r.type = "PARAMS" /\ r.id = i
  BY <1>1 DEF Record, Request
<1>3. /\ \A j \in Id : j # i => req'[c][j] = req[c][j]
      /\ req'[c][i].awaiting = req[c][i].awaiting /\ req'[c][i].phase = req[c][i].phase
  BY <1>1 DEF SendParams, Request
<1>4. Same /\ Send(c, r)
  BY DEF SendParams
<1> HIDE DEF r
<1>5. Proceeds(c, r)
  <2>1. r.type \notin Final
    BY <1>2 DEF Final
  <2> QED
    BY <2>1, <1>3 DEF Proceeds
<1> QED
  BY <1>2, <1>4, <1>5, SendClosing

(* A request sends its next record and goes on to the phase.               *)
Goes(c, i, type, phase) ==
  /\ Send(c, [type |-> type, id |-> i])
  /\ req' = [req EXCEPT ![c][i].phase = phase]
  /\ Same

LEMMA PhaseClosing ==
  ASSUME Inv, Early, NEW c \in Conn, Closing(c), NEW i \in Id,
         NEW type \in {"PARAMS_END", "STDIN_END", "ABORT"}, NEW phase, Goes(c, i, type, phase),
         req[c][i].phase # "idle", type = "STDIN_END" => req[c][i].phase = "stdin",
         phase = "stdin" => type = "PARAMS_END"
  PROVE  Closing(c)'
<1> DEFINE r == [type |-> type, id |-> i]
<1>1. req[c][i] \in Request /\ req \in [Conn -> [Id -> Request]]
  BY DEF Inv, Types
<1>2. r \in Record /\ r.type = type /\ r.id = i
  BY DEF Record
<1>3. /\ \A j \in Id : j # i => req'[c][j] = req[c][j]
      /\ req'[c][i].awaiting = req[c][i].awaiting /\ req'[c][i].phase = phase
  BY <1>1 DEF Goes, Request
<1>4. Same /\ Send(c, r)
  BY DEF Goes
<1> HIDE DEF r
<1>5. Proceeds(c, r)
  BY <1>2, <1>3 DEF Proceeds, Asked, Final
<1> QED
  BY <1>2, <1>4, <1>5, SendClosing

LEMMA WebServerClosing ==
  ASSUME Inv, Early, ~ Mpx, \A c \in Conn : Closing(c), WebServer
  PROVE  \A c \in Conn : Closing(c)'
<1>1. PICK c \in Conn :
        \/ \E i \in Id :
             \/ \E keep \in Keep, responder \in Roles : BeginRequest(c, i, keep, responder)
             \/ \E k \in Key : SendParams(c, i, k)
             \/ EndParams(c, i) \/ EndStdin(c, i) \/ AbortRequest(c, i)
        \/ \E r \in Extras : SendExtra(c, r)
  BY DEF WebServer
<1>2. CASE \E i \in Id : \E keep \in Keep, responder \in Roles : BeginRequest(c, i, keep, responder)
  <2>1. Closing(c)'
    BY <1>2, BeginClosing
  <2>2. \A d \in Conn : d # c => inq'[d] = inq[d] /\ req'[d] = req[d]
    BY <1>2 DEF BeginRequest, Send, Inv, Types
  <2>3. Same
    BY <1>2 DEF BeginRequest
  <2> QED
    BY <2>1, <2>2, <2>3, SameFacts, ClosingElsewhere
<1>3. CASE \E i \in Id : \E k \in Key : SendParams(c, i, k)
  <2>1. Closing(c)'
    BY <1>3, SendParamsClosing
  <2>2. \A d \in Conn : d # c => inq'[d] = inq[d] /\ req'[d] = req[d]
    BY <1>3 DEF SendParams, Send, Inv, Types
  <2>3. Same
    BY <1>3 DEF SendParams
  <2> QED
    BY <2>1, <2>2, <2>3, SameFacts, ClosingElsewhere
<1>4. CASE \E i \in Id : EndParams(c, i) \/ EndStdin(c, i) \/ AbortRequest(c, i)
  <2>1. PICK i \in Id : EndParams(c, i) \/ EndStdin(c, i) \/ AbortRequest(c, i)
    BY <1>4
  <2>2. ASSUME EndParams(c, i) PROVE Closing(c)'
    <3>1. Goes(c, i, "PARAMS_END", "stdin") /\ req[c][i].phase # "idle"
      BY <2>2 DEF EndParams, Goes
    <3> QED
      BY <3>1, PhaseClosing
  <2>3. ASSUME EndStdin(c, i) PROVE Closing(c)'
    <3>1. \/ Goes(c, i, "STDIN_END", "sent")
          \/ Goes(c, i, "STDIN_END", "idle")
      <4>1. CASE req[c][i].awaiting
        BY <2>3, <4>1 DEF EndStdin, Goes
      <4>2. CASE ~ req[c][i].awaiting
        BY <2>3, <4>2 DEF EndStdin, Goes
      <4> QED
        BY <4>1, <4>2
    <3>2. req[c][i].phase = "stdin"
      BY <2>3 DEF EndStdin
    <3> QED
      BY <3>1, <3>2, PhaseClosing
  <2>4. ASSUME AbortRequest(c, i) PROVE Closing(c)'
    <3>1. Goes(c, i, "ABORT", "aborted") /\ req[c][i].phase # "idle"
      BY <2>4 DEF AbortRequest, Goes, Early
    <3> QED
      BY <3>1, PhaseClosing
  <2>5. \A d \in Conn : d # c => inq'[d] = inq[d] /\ req'[d] = req[d]
    BY <2>1 DEF EndParams, EndStdin, AbortRequest, Send, Inv, Types
  <2>6. Same
    BY <2>1 DEF EndParams, EndStdin, AbortRequest
  <2> QED
    BY <2>1, <2>2, <2>3, <2>4, <2>5, <2>6, SameFacts, ClosingElsewhere
<1>5. ASSUME NEW r \in Extras, SendExtra(c, r) PROVE \A d \in Conn : Closing(d)'
  <2>1. r \in Record /\ r.type \notin Final /\ Same /\ Send(c, r) /\ req' = req
    BY <1>5 DEF Extras, Record, Final, SendExtra
  <2>2. Proceeds(c, r)
    BY <2>1 DEF Proceeds
  <2>3. Closing(c)'
    BY <2>1, <2>2, SendClosing
  <2>4. \A d \in Conn : d # c => inq'[d] = inq[d]
    BY <2>1 DEF Send, Inv, Types
  <2> QED
    BY <2>1, <2>3, <2>4, SameFacts, ClosingElsewhere
<1> QED
  BY <1>1, <1>2, <1>3, <1>4, <1>5

LEMMA ReceiveClosing ==
  ASSUME Inv, Early, \A d \in Conn : Closing(d), NEW c \in Conn, Receive(c)
  PROVE  \A d \in Conn : Closing(d)'
<1>1. /\ \A d \in Conn : d # c => req'[d] = req[d] /\ outq'[d] = outq[d]
      /\ pc' = pc /\ todo' = todo /\ inq' = inq /\ should_disconnect' = should_disconnect
  BY ReceiveTypes DEF Inv, Receive, thread
<1>2. \A i \in Id : /\ Due(c, i)' <=> Due(c, i)
                    /\ req'[c][i].phase # "idle" => req[c][i].phase # "idle"
                    /\ req'[c][i].phase = "stdin" => req[c][i].phase = "stdin"
  BY ReceiveSent, ReceiveRequests DEF Due, Inv
<1>3. Single(c)'
  BY <1>2 DEF Closing, Single
<1>4. Requested(c)' /\ Settled(c)'
  BY <1>1, <1>2 DEF Closing, Requested, Settled, Answers, AsksEnd, Begins, Live
<1>5. Parting(c)' /\ Parted(c)' /\ Closed(c)'
  BY <1>1, <1>2 DEF Closing, Parting, Parted, Closed, Unread
<1> QED
  BY <1>1, <1>3, <1>4, <1>5, ClosingElsewhere DEF Closing

-----------------------------------------------------------------------------
(* The handlers.                                                           *)

(* What a handler of r will do: it ends the request when r asks for that,  *)
(* and may end the connection only when r is the last of its request.      *)
Concludes(r, rest) ==
  /\ r.type \in Asked => Ends(rest, r.id)
  /\ Discs(rest) => r.type \in Final

LEMMA HandleClosing ==
  ASSUME Inv, Early, NEW c \in Conn, Closing(c), running = c, todo[c] = <<>>, inq[c] # <<>>,
         ~ should_disconnect[c], should_disconnect' = should_disconnect,
         NEW r, NEW rest, Handle(c, r, rest), Concludes(r, rest)
  PROVE  Closing(c)'
<1> DEFINE n == Len(inq[c])
<1>1. Types /\ pc[c] = "loop"
  BY ProcessAssumption DEF Inv, Control
<1>2. pc' = pc /\ outq' = outq /\ req' = req /\ todo'[c] = rest
  BY <1>1 DEF Handle, client, Types
<1>3. /\ r = inq[c][1] /\ n \in Nat /\ n > 0 /\ DOMAIN inq[c] = 1 .. n
      /\ DOMAIN inq'[c] = 1 .. (n - 1) /\ \A a \in DOMAIN inq'[c] : inq'[c][a] = inq[c][a + 1]
  BY <1>1, ReadFacts DEF Handle
<1> HIDE DEF n
<1>4. Live(c) /\ \A i : ~ Ends(todo[c], i)
  BY <1>1, NothingFacts DEF Live
<1>5. \A i \in Id : Due(c, i)' <=> Due(c, i)
  BY <1>2 DEF Due, Sent
<1>6. /\ 1 \in DOMAIN inq[c]
      /\ \A a \in DOMAIN inq[c] : a # 1 => a - 1 \in DOMAIN inq'[c] /\ inq'[c][a - 1] = inq[c][a]
      /\ \A a \in DOMAIN inq'[c] : a \in Int /\ a + 1 \in DOMAIN inq[c] /\ 1 < a + 1
      /\ \A a \in DOMAIN inq[c] : a \in Int /\ 1 <= a
  BY <1>3
<1>7. Single(c)' /\ Parted(c)' /\ Closed(c)'
  BY <1>1, <1>2 DEF Closing, Single, Parted, Closed
<1>8. Requested(c)'
  <2> SUFFICES ASSUME NEW i \in Id, req[c][i].phase = "stdin", Due(c, i)
               PROVE  Ends(rest, i) \/ \E a \in DOMAIN inq'[c] : AsksEnd(c, a, i)'
    BY <1>2, <1>5 DEF Requested
  <2>1. PICK a \in DOMAIN inq[c] : AsksEnd(c, a, i)
    BY <1>4 DEF Closing, Requested
  <2>2. CASE a = 1
    BY <2>1, <2>2, <1>3 DEF AsksEnd, Concludes
  <2>3. CASE a # 1
    BY <2>1, <2>3, <1>6 DEF AsksEnd
  <2> QED
    BY <2>2, <2>3
<1>9. Settled(c)'
  <2> SUFFICES ASSUME NEW a \in DOMAIN inq'[c], inq'[c][a].type \in Final, NEW i \in Id, Due(c, i)
               PROVE  Answers(c, a, i)'
    BY <1>5 DEF Settled
  <2>1. a + 1 \in DOMAIN inq[c] /\ inq[c][a + 1].type \in Final
    BY <1>3, <1>6
  <2>2. \/ \E b \in DOMAIN inq[c] : b <= a + 1 /\ AsksEnd(c, b, i)
        \/ \E b \in DOMAIN inq[c] : a + 1 < b /\ Begins(c, b, i)
    BY <2>1, <1>4 DEF Closing, Settled, Answers
  <2>3. CASE \E b \in DOMAIN inq[c] : b <= a + 1 /\ AsksEnd(c, b, i)
    <3>1. PICK b \in DOMAIN inq[c] : b <= a + 1 /\ AsksEnd(c, b, i)
      BY <2>3
    <3>2. CASE b = 1
      BY <3>1, <3>2, <1>2, <1>3 DEF AsksEnd, Concludes, Answers
    <3>3. CASE b # 1
      <4>1. b - 1 \in DOMAIN inq'[c] /\ b - 1 <= a /\ AsksEnd(c, b - 1, i)'
        BY <3>1, <3>3, <1>6 DEF AsksEnd
      <4> QED
        BY <4>1 DEF Answers
    <3> QED
      BY <3>2, <3>3
  <2>4. CASE \E b \in DOMAIN inq[c] : a + 1 < b /\ Begins(c, b, i)
    <3>1. PICK b \in DOMAIN inq[c] : a + 1 < b /\ Begins(c, b, i)
      BY <2>4
    <3>2. b # 1 /\ a < b - 1
      BY <3>1, <1>6
    <3>3. b - 1 \in DOMAIN inq'[c] /\ Begins(c, b - 1, i)'
      BY <3>1, <3>2, <1>6 DEF Begins
    <3> QED
      BY <3>2, <3>3 DEF Answers
  <2> QED
    BY <2>2, <2>3, <2>4
<1>10. Parting(c)'
  <2> SUFFICES ASSUME Discs(rest), NEW i \in Id, Due(c, i)
               PROVE  Unread(c, "BEGIN", i)' \/ Ends(rest, i)
    BY <1>2, <1>5 DEF Parting
  <2>1. inq[c][1].type \in Final
    BY <1>3 DEF Concludes
  <2>2. \/ \E b \in DOMAIN inq[c] : b <= 1 /\ AsksEnd(c, b, i)
        \/ \E b \in DOMAIN inq[c] : 1 < b /\ Begins(c, b, i)
    BY <2>1, <1>4, <1>6 DEF Closing, Settled, Answers
  <2>3. CASE \E b \in DOMAIN inq[c] : b <= 1 /\ AsksEnd(c, b, i)
    <3>1. AsksEnd(c, 1, i)
      BY <2>3, <1>6
    <3> QED
      BY <3>1, <1>3 DEF AsksEnd, Concludes
  <2>4. CASE \E b \in DOMAIN inq[c] : 1 < b /\ Begins(c, b, i)
    BY <2>4, <1>6 DEF Begins, Unread
  <2> QED
    BY <2>2, <2>3, <2>4
<1> QED
  BY <1>7, <1>8, <1>9, <1>10 DEF Closing

LEMMA DispatchClosing ==
  ASSUME Inv, Early, \A d \in Conn : Closing(d), NEW c \in Conn, Dispatch(c)
  PROVE  \A d \in Conn : Closing(d)'
<1> DEFINE r == Head(inq[c])
<1>1. /\ running = c /\ todo[c] = <<>> /\ inq[c] # <<>> /\ Types /\ ~ should_disconnect[c]
      /\ should_disconnect' = should_disconnect
  BY DEF Dispatch, Reads, Inv, process_begin_request, process_abort_request, process_params,
         process_stdin, process_unknown
<1>2. r \in Record
  BY <1>1, TailFacts DEF Types
<1>3. ~ Discs(<<>>) /\ ~ Discs(<<Unknown>>)
  BY OthersFacts
<1>4. \E rest : Handle(c, r, rest) /\ Concludes(r, rest)
  <2>1. r.type \in {"BEGIN", "PARAMS_END", "ABORT"} => r.id \in Id
    BY <1>2, RecordTyped DEF Asking
  <2> HIDE DEF r
  <2> USE DEF Asked, Final
  <2>2. CASE process_begin_request(c, r)
    <3>1. r.type = "BEGIN"
      BY <2>2 DEF process_begin_request
    <3>2. CASE r.responder
      BY <1>3, <2>2, <3>1, <3>2 DEF process_begin_request, Concludes
    <3>3. CASE ~ r.responder
      <4> DEFINE rest == <<Attempt("STDERR", r.id)>> \o request_end(r.id) \o <<Do("fail")>>
      <4>1. Handle(c, r, rest)
        BY <2>2, <3>3 DEF process_begin_request
      <4>2. ~ Discs(rest)
        BY <2>1, <3>1, EndsFacts, RefusingFacts
      <4> HIDE DEF rest
      <4> QED
        BY <3>1, <4>1, <4>2 DEF Concludes
    <3> QED
      BY <3>2, <3>3
  <2>3. CASE process_abort_request(c, r)
    <3> DEFINE rest == request_end(r.id) \o <<Do("disconnect")>>
    <3>1. Handle(c, r, rest) /\ r.type = "ABORT"
      BY <2>3 DEF process_abort_request
    <3>2. Ends(rest, r.id)
      BY <2>1, <3>1, EndsFacts, AbortingFacts
    <3> HIDE DEF rest
    <3> QED
      BY <3>1, <3>2 DEF Concludes
  <2>4. CASE process_params(c, r)
    <3>1. CASE r.type = "PARAMS_END"
      <4>1. Handle(c, r, request_handle(r.id))
        BY <2>4, <3>1 DEF process_params
      <4>2. Ends(request_handle(r.id), r.id) /\ ~ Discs(request_handle(r.id))
        BY <2>1, <3>1, EndsFacts, AnsweringFacts
      <4> QED
        BY <4>1, <4>2 DEF Concludes
    <3>2. CASE r.type = "PARAMS"
      BY <1>3, <2>4, <3>2 DEF process_params, Concludes
    <3> QED
      BY <2>4, <3>1, <3>2 DEF process_params
  <2>5. CASE process_stdin(c, r)
    <3>1. r.type \notin Asked
      BY <2>5 DEF process_stdin
    <3>2. Handle(c, r, IF r.type = "STDIN_END" THEN <<Do("disconnect")>> ELSE <<>>)
      BY <2>5 DEF process_stdin
    <3> QED
      BY <1>3, <3>1, <3>2 DEF Concludes
  <2>6. CASE process_unknown(c, r)
    BY <1>3, <2>6 DEF process_unknown, Concludes, Unknown
  <2> QED
    BY <2>2, <2>3, <2>4, <2>5, <2>6 DEF Dispatch, r
<1>5. PICK rest : Handle(c, r, rest) /\ Concludes(r, rest)
  BY <1>4
<1> HIDE DEF r
<1>6. Closing(c)'
  BY <1>1, <1>5, HandleClosing
<1>7. \A d \in Conn : d # c => pc'[d] = pc[d] /\ todo'[d] = todo[d] /\ inq'[d] = inq[d]
                                /\ outq'[d] = outq[d] /\ req'[d] = req[d]
  BY <1>1, <1>5 DEF Handle, client, Types
<1> QED
  BY <1>1, <1>6, <1>7, ClosingElsewhere

-----------------------------------------------------------------------------
(* The rest of a handler.                                                  *)

LEMMA WriteRest ==
  ASSUME NEW t \in Work, t # <<>>, Head(t).op \in {"write", "try"}
  PROVE  /\ \A i : Ends(t, i) => Ends(Tail(t), i) \/ (Head(t).type = "END" /\ Head(t).id = i)
         /\ (Discs(Tail(t)) <=> Discs(t)) /\ (Fails(Tail(t)) <=> Fails(t))
<1>1. CASE t = <<Unknown>>
  <2>1. Tail(t) = <<>>
    BY <1>1
  <2> QED
    BY <1>1, <2>1, NothingFacts, OthersFacts
<1>2. ASSUME NEW i \in Id, t \in Ending(i)
      PROVE  /\ \A j : Ends(t, j) => Ends(Tail(t), j) \/ (Head(t).type = "END" /\ Head(t).id = j)
             /\ (Discs(Tail(t)) <=> Discs(t)) /\ (Fails(Tail(t)) <=> Fails(t))
  <2>1. End(i).type = "END" /\ End(i).id = i
    BY DEF End, Write
  <2> QED
    BY <1>2, <2>1, EndingHead
<1> QED
  BY <1>1, <1>2, WorkHead

(* A step of the greenthread that reads nothing and keeps running.         *)
LEMMA StepClosing ==
  ASSUME NEW c \in Conn, Closing(c), todo[c] # <<>>, pc[c] = "loop", pc'[c] = pc[c],
         inq'[c] = inq[c], req'[c] = req[c], should_disconnect'[c] = should_disconnect[c],
         \A i \in Id : Due(c, i)' => Due(c, i),
         \A i \in Id : Ends(todo[c], i) /\ Due(c, i)' => Ends(todo'[c], i),
         Discs(todo'[c]) => Discs(todo[c]), Fails(todo'[c]) <=> Fails(todo[c])
  PROVE  Closing(c)'
<1>1. Live(c)' <=> Live(c)
  BY DEF Live
<1>2. Single(c)' /\ Parted(c)' /\ Closed(c)'
  BY DEF Closing, Single, Parted, Closed
<1>3. Requested(c)'
  BY <1>1 DEF Closing, Requested, AsksEnd
<1>4. Settled(c)'
  BY <1>1 DEF Closing, Settled, Answers, AsksEnd, Begins
<1>5. Parting(c)'
  BY DEF Closing, Parting, Unread
<1> QED
  BY <1>2, <1>3, <1>4, <1>5 DEF Closing

LEMMA WriteClosing ==
  ASSUME Inv, \A d \in Conn : Closing(d), NEW c \in Conn, _write(c)
  PROVE  \A d \in Conn : Closing(d)'
<1>1. Types /\ running = c /\ pc[c] = "loop" /\ todo[c] \in Work /\ todo[c] # <<>>
      /\ Head(todo[c]).op \in {"write", "try"}
  BY ProcessAssumption DEF Inv, Control, Types, _write, Writes
<1>2. /\ pc' = pc /\ inq' = inq /\ req' = req /\ should_disconnect' = should_disconnect
      /\ todo'[c] = Tail(todo[c]) /\ \A d \in Conn : d # c => todo'[d] = todo[d] /\ outq'[d] = outq[d]
  BY <1>1 DEF _write, client, Types
<1>3. \A type, i : Sent(c, type, i)' <=>
        Sent(c, type, i) \/ (Head(todo[c]).type = type /\ Head(todo[c]).id = i)
  BY <1>1, WriteSent
<1>4. \A i \in Id : /\ Due(c, i)' => Due(c, i)
                    /\ Ends(todo[c], i) /\ Due(c, i)' => Ends(Tail(todo[c]), i)
  BY <1>1, <1>2, <1>3, WriteRest DEF Due
<1>5. (Discs(Tail(todo[c])) <=> Discs(todo[c])) /\ (Fails(Tail(todo[c])) <=> Fails(todo[c]))
  BY <1>1, WriteRest
<1>6. Closing(c)'
  BY <1>1, <1>2, <1>4, <1>5, StepClosing
<1> QED
  BY <1>2, <1>6, ClosingElsewhere

LEMMA DecrementClosing ==
  ASSUME Inv, \A d \in Conn : Closing(d), NEW c \in Conn, Decrement(c)
  PROVE  \A d \in Conn : Closing(d)'
<1>1. Types /\ pc[c] = "loop" /\ todo[c] \in Work /\ todo[c] # <<>>
  BY ProcessAssumption DEF Inv, Control, Types, Decrement, Effect
<1>2. /\ pc' = pc /\ inq' = inq /\ req' = req /\ outq' = outq /\ should_disconnect' = should_disconnect
      /\ todo'[c] = Tail(todo[c]) /\ \A d \in Conn : d # c => todo'[d] = todo[d]
  BY <1>1 DEF Decrement, Effect, client, Types
<1>3. todo[c] \in Ended
  BY <1>1, WorkHead DEF Decrement, Effect
<1>4. /\ Fails(Tail(todo[c])) <=> Fails(todo[c])
      /\ \A i : ~ Ends(todo[c], i)
  BY <1>3, EndedTail
<1>5. Discs(Tail(todo[c])) => Discs(todo[c])
  <2>1. Tail(<<Dec>>) = <<>> /\ Tail(<<Dec, Disc>>) = <<Disc>> /\ Tail(<<Dec, Fail>>) = <<Fail>>
    OBVIOUS
  <2> QED
    BY <1>3, <2>1, OthersFacts DEF Ended
<1>6. \A i \in Id : Due(c, i)' => Due(c, i)
  BY <1>2 DEF Due, Sent
<1>7. Closing(c)'
  BY <1>1, <1>2, <1>4, <1>5, <1>6, StepClosing
<1> QED
  BY <1>2, <1>7, ClosingElsewhere

(* This is where the connection is given up.                               *)
LEMMA DisconnectClosing ==
  ASSUME Inv, \A d \in Conn : Closing(d), NEW c \in Conn, Disconnect(c)
  PROVE  \A d \in Conn : Closing(d)'
<1>1. Types /\ pc[c] = "loop" /\ todo[c] \in Work /\ todo[c] # <<>>
  BY ProcessAssumption DEF Inv, Control, Types, Disconnect, Effect
<1>2. todo[c] = <<Disc>>
  BY <1>1, WorkHead DEF Disconnect, Effect
<1>3. /\ pc' = pc /\ inq' = inq /\ req' = req /\ outq' = outq
      /\ todo'[c] = <<>> /\ \A d \in Conn : d # c => todo'[d] = todo[d]
      /\ \A d \in Conn : d # c => should_disconnect'[d] = should_disconnect[d]
  BY <1>1, <1>2, EndedTail DEF Disconnect, Effect, client, Types
<1>4. ~ Discs(<<>>) /\ Discs(<<Disc>>) /\ Live(c) /\ \A i : ~ Ends(<<Disc>>, i)
  BY <1>1, <1>2, NothingFacts, OthersFacts DEF Live
<1>5. \A i \in Id : Due(c, i)' <=> Due(c, i)
  BY <1>3 DEF Due, Sent
<1>6. \A i \in Id : Due(c, i) => Unread(c, "BEGIN", i)'
  BY <1>2, <1>3, <1>4 DEF Closing, Parting, Unread
<1>7. Single(c)' /\ Closed(c)' /\ Parting(c)' /\ Parted(c)'
  BY <1>1, <1>3, <1>4, <1>5, <1>6 DEF Closing, Single, Closed, Parting, Parted
<1>8. Requested(c)' /\ Settled(c)'
  BY <1>2, <1>3, <1>4, <1>5 DEF Closing, Requested, Settled, Answers, AsksEnd, Begins
<1>9. Closing(c)'
  BY <1>7, <1>8 DEF Closing
<1> QED
  BY <1>3, <1>9, ClosingElsewhere

LEMMA LeaveClosing ==
  ASSUME Inv, \A d \in Conn : Closing(d), NEW c \in Conn,
         NEW why \in {"closed", "refused", "error"}, pc' = [pc EXCEPT ![c] = why],
         todo' = [todo EXCEPT ![c] = <<>>], why = "closed" => should_disconnect[c],
         UNCHANGED <<should_disconnect, inq, outq, client>>
  PROVE  \A d \in Conn : Closing(d)'
<1>1. /\ req' = req /\ todo'[c] = <<>> /\ pc'[c] = why /\ why # "loop"
      /\ \A d \in Conn : d # c => todo'[d] = todo[d] /\ pc'[d] = pc[d]
  BY DEF client, Inv, Types
<1>2. \A i \in Id : Due(c, i)' <=> Due(c, i)
  BY <1>1 DEF Due, Sent
<1>3. ~ Live(c)' /\ ~ Discs(<<>>)
  BY <1>1, OthersFacts DEF Live
<1>4. Requested(c)' /\ Settled(c)' /\ Parting(c)'
  BY <1>1, <1>3 DEF Requested, Settled, Parting
<1>5. Single(c)' /\ Parted(c)' /\ Closed(c)'
  BY <1>1, <1>2 DEF Closing, Single, Parted, Closed, Unread
<1>6. Closing(c)'
  BY <1>4, <1>5 DEF Closing
<1> QED
  BY <1>1, <1>6, ClosingElsewhere

LEMMA FaultClosing ==
  ASSUME Inv, \A d \in Conn : Closing(d), NEW c \in Conn,
         FailRole(c) \/ ReadFails(c) \/ WriteFails(c) \/ CloseConnection(c)
  PROVE  \A d \in Conn : Closing(d)'
<1>1. CASE FailRole(c)
  BY <1>1, LeaveClosing DEF FailRole, Error
<1>2. ASSUME Error(c, "error") PROVE \A d \in Conn : Closing(d)'
  BY <1>2, LeaveClosing DEF Error
<1>3. CASE CloseConnection(c)
  <2>1. todo' = [todo EXCEPT ![c] = <<>>]
    BY <1>3 DEF CloseConnection, Inv, Types
  <2> QED
    BY <1>3, <2>1, LeaveClosing DEF CloseConnection
<1>4. CASE /\ WriteFails(c) /\ Head(todo[c]).op = "try"
           /\ todo' = [todo EXCEPT ![c] = Tail(@)]
           /\ UNCHANGED <<pc, keep_connection, should_disconnect, params,
                          counts, inq, outq, client>>
  <2>1. /\ pc' = pc /\ inq' = inq /\ req' = req /\ outq' = outq /\ should_disconnect' = should_disconnect
        /\ todo'[c] = Tail(todo[c]) /\ \A d \in Conn : d # c => todo'[d] = todo[d]
        /\ todo[c] \in Work /\ todo[c] # <<>> /\ Head(todo[c]).op = "try" /\ pc[c] = "loop"
    BY <1>4 DEF client, WriteFails, CanFail, Writes, Inv, Types
  <2>2. Head(todo[c]).type # "END"
    <3>1. todo[c] # <<Unknown>>
      BY <2>1 DEF Unknown, Write
    <3>2. PICK i \in Id : todo[c] \in Ending(i)
      BY <2>1, <3>1, WorkHead
    <3>3. Head(todo[c]) \in {Stdout(i), Stderr(i), Close(i), End(i)}
      BY <3>2, EndingHead
    <3> QED
      BY <2>1, <3>3 DEF Stdout, Stderr, Close, End, Write, Attempt
  <2>3. /\ \A i : Ends(todo[c], i) => Ends(Tail(todo[c]), i)
        /\ (Discs(Tail(todo[c])) <=> Discs(todo[c])) /\ (Fails(Tail(todo[c])) <=> Fails(todo[c]))
    BY <2>1, <2>2, WriteRest
  <2>4. \A i \in Id : Due(c, i)' => Due(c, i)
    BY <2>1 DEF Due, Sent
  <2>5. Closing(c)'
    BY <2>1, <2>3, <2>4, StepClosing
  <2> QED
    BY <2>1, <2>5, ClosingElsewhere
<1> QED
  BY <1>1, <1>2, <1>3, <1>4 DEF ReadFails, WriteFails

-----------------------------------------------------------------------------
(* Every step keeps the invariant.                                         *)

LEMMA NextClosing ==
  ASSUME Early, ~ Mpx
  PROVE  Inv /\ (\A c \in Conn : Closing(c)) /\ [Next]_vars => \A c \in Conn : Closing(c)'
<1> SUFFICES ASSUME Inv, \A c \in Conn : Closing(c), [Next]_vars
             PROVE  \A c \in Conn : Closing(c)'
  OBVIOUS
<1>1. CASE WebServer
  BY <1>1, WebServerClosing
<1>2. ASSUME pc' = pc, todo' = todo, inq' = inq, outq' = outq, req' = req,
             should_disconnect' = should_disconnect
      PROVE  \A c \in Conn : Closing(c)'
  BY <1>2, ClosingElsewhere
<1>3. ASSUME NEW c \in Conn, Thread(c) \/ ReadFails(c) \/ WriteFails(c)
      PROVE  \A d \in Conn : Closing(d)'
  <2>1. CASE Resume(c) \/ Yield(c)
    BY <1>2, <2>1 DEF Resume, Yield, thread, client
  <2>2. CASE Dispatch(c) \/ _write(c)
    BY <2>2, DispatchClosing, WriteClosing
  <2>3. CASE Decrement(c) \/ Disconnect(c)
    BY <2>3, DecrementClosing, DisconnectClosing
  <2>4. CASE FailRole(c) \/ ReadFails(c) \/ WriteFails(c) \/ CloseConnection(c)
    BY <2>4, FaultClosing
  <2> QED
    BY <1>3, <2>1, <2>2, <2>3, <2>4 DEF Thread
<1>4. ASSUME NEW c \in Conn, Receive(c) PROVE \A d \in Conn : Closing(d)'
  BY <1>4, ReceiveClosing
<1>5. CASE AllOver \/ UNCHANGED vars
  BY <1>2, <1>5 DEF AllOver, vars, thread, client
<1> QED
  BY <1>1, <1>3, <1>4, <1>5 DEF Next

(* With one request at a time on a connection, the program never closes it *)
(* under a request it has read and not answered, whether it reads the end  *)
(* of STDIN, an abort or the next request meanwhile, and whatever of its   *)
(* answer still waits for room (__init__.c:330, 417, 585), as long as the  *)
(* web server aborts it only while it sends its parameters (Early).        *)
THEOREM ProcessClosedWhenAnswered ==
  ASSUME Early, ~ Mpx
  PROVE  Spec => []ClosedWhenAnswered
<1> DEFINE I == Inv /\ \A c \in Conn : Closing(c)
<1>1. Init => I
  BY InitInv, ClosingInit
<1>2. I /\ [Next]_vars => I'
  BY NextInv, NextClosing
<1>3. I => ClosedWhenAnswered
  BY DEF ClosedWhenAnswered, Closing, Closed, Parted, Due
<1> QED
  BY <1>1, <1>2, <1>3, PTL DEF Spec
=============================================================================
