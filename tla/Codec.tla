------------------------------- MODULE Codec -------------------------------
(***************************************************************************)
(* What the numbers on the wire mean to both sides: the header fields and  *)
(* the begin body the program decodes, the loop of process_params over the *)
(* name-value pairs of a record, and the answers as the web server decodes *)
(* them (src/__init__.c:193-406, 498-541; src/fcgiproto.h:72-102).         *)
(*                                                                         *)
(* One connection, one record at a time, each read and written whole       *)
(* (modules Reader and Writer); concurrency is in module Process.  Here    *)
(* bytes have values.  A pair that goes on in the next record, which the   *)
(* protocol allows, is what the loop does not expect.                      *)
(***************************************************************************)
EXTENDS FcgiProto, FiniteSetsExt

CONSTANTS
  Id,          (* request ids the web server uses                          *)
  Role, Flags, (* what it puts in the body of a begin record               *)
  Version,     (* protocol versions it speaks                              *)
  Other,       (* record types the program does not know                   *)
  Name, Value, (* parameter names and values, byte strings                 *)
  Cut,         (* how much of a pair it may leave for the next record      *)
  Behind,      (* bytes that may follow a record in the program's memory   *)
  Junk,        (* a name or value that is not, or not only, of the record  *)
  Text,        (* length of the text of an answer and of an error          *)
  Faults,      (* whether a call of the Python interpreter may fail        *)
  MaxPairs,    (* bound on the pairs of a record                           *)
  MaxRecords   (* bound on the records of the connection                   *)

ASSUME CodecAssumption ==
  /\ Id # {} /\ Id \cup Role \subseteq 0 .. (B * B - 1)
  /\ Flags \cup Version \cup Other \cup Behind \subseteq 0 .. B - 1
  /\ Other \cap {TYPE_BEGIN_REQUEST, TYPE_ABORT_REQUEST, TYPE_PARAMS, TYPE_STDIN} = {}
  /\ Name \cup Value \subseteq Seq(0 .. B - 1)
  /\ Cut \subseteq Nat /\ Text \in 1 .. (B * B - 1) /\ Faults \in BOOLEAN
  /\ MaxPairs \in Nat /\ MaxRecords \in Nat

VARIABLES
  (* the web server *)
  msg,       (* the record sent last, as it means it                       *)
  before,    (* what it sent before, by request: name -> value             *)
  count,     (* records sent                                               *)
  pairs,     (* the name-value pairs it will send next                     *)
  bytes,     (* their encodings, one behind the other                      *)
  (* the program *)
  record,    (* the bytes of the record, header and content                *)
  pc,        (* where it is in the loop, or how it left it                 *)
  rid, len,  (* msg_id and msg_len                                         *)
  buf,       (* process_params' buf: bytes of the content it is past       *)
  name_len, data_len,
  keep_connection,
  params,    (* requests[id]->params: name -> value                        *)
  answer     (* the bytes written for this record                          *)

draft == <<pairs, bytes>>
sent  == <<draft, msg, before, count, record>>
loop  == <<rid, len, buf, name_len, data_len>>
vars  == <<sent, pc, loop, keep_connection, params, answer>>

Content == SubSeq(record, HeaderSize + 1, Len(record))

(* A pair put into a dictionary.                                           *)
Put(d, p) == [n \in DOMAIN d \cup {p.name} |-> IF n = p.name THEN p.value ELSE d[n]]

(* Pairs put into a dictionary: of each name the last one stays.           *)
PutAll(d, ps) ==
  LET Of(n) == {k \in 1 .. Len(ps) : ps[k].name = n}
  IN  [n \in DOMAIN d \cup {ps[k].name : k \in 1 .. Len(ps)} |->
         IF Of(n) = {} THEN d[n] ELSE ps[Max(Of(n))].value]

Empty == [n \in {} |-> <<>>]

(* A record as the web server means it; B is no type.                      *)
Record(t, i) == [version |-> 1, type |-> t, id |-> i,
                 role |-> 0, flags |-> 0, pairs |-> <<>>, cut |-> 0]

Init ==
  /\ msg = Record(B, CHOOSE i \in Id : TRUE)
  /\ before = [i \in Id |-> Empty] /\ count = 0
  /\ pairs = <<>> /\ bytes = <<>>
  /\ record = <<>> /\ pc = "idle"
  /\ rid = 0 /\ len = 0 /\ buf = 0 /\ name_len = 0 /\ data_len = 0
  /\ keep_connection = FALSE
  /\ params = [i \in Id |-> Empty]
  /\ answer = <<>>

-----------------------------------------------------------------------------
(* The web server: encodings of the FastCGI specification.                 *)

Header(v, t, id, n) == <<v, t, id \div B, id % B, n \div B, n % B, 0, 0>>

(* A length in the short form when it fits there, or in the long one.      *)
Prefix(n, long) == IF long THEN <<B \div 2, n \div (B * B), (n \div B) % B, n % B>>
                   ELSE <<n>>
Forms(n) == IF n < B \div 2 THEN BOOLEAN ELSE {TRUE}

Pair == {p \in [name : Name, value : Value, nlong : BOOLEAN, vlong : BOOLEAN] :
           p.nlong \in Forms(Len(p.name)) /\ p.vlong \in Forms(Len(p.value))}

Encoded(p) == Prefix(Len(p.name), p.nlong) \o Prefix(Len(p.value), p.vlong)
                \o p.name \o p.value

(* Pairs are sent together in a record; a record has room for less than    *)
(* B * B bytes.                                                            *)
AddPair(p) ==
  /\ Len(pairs) < MaxPairs /\ Len(bytes \o Encoded(p)) < B * B
  /\ pairs' = Append(pairs, p) /\ bytes' = bytes \o Encoded(p)
  /\ UNCHANGED <<msg, before, count, record, pc, loop, keep_connection, params, answer>>

Send(m, content) ==
  /\ count' = count + 1
  /\ before' = [before EXCEPT ![msg.id] = PutAll(@, msg.pairs)]
  /\ msg' = m
  /\ record' = Header(m.version, m.type, m.id, Len(content)) \o content
  /\ pairs' = <<>> /\ bytes' = <<>>
  /\ answer' = <<>>
  /\ pc' = "parse"
  /\ UNCHANGED <<loop, keep_connection, params>>

SendBegin(i, v, role, flags) ==
  Send([Record(TYPE_BEGIN_REQUEST, i) EXCEPT !.version = v, !.role = role, !.flags = flags],
       <<role \div B, role % B, flags, 0, 0, 0, 0, 0>>)

(* All pairs but the last are whole; of the last, cut bytes are left for   *)
(* the next record.                                                        *)
SendParams(i, cut) ==
  /\ cut < Len(Encoded(pairs[Len(pairs)]))
  /\ Send([Record(TYPE_PARAMS, i) EXCEPT !.pairs = pairs, !.cut = cut],
          SubSeq(bytes, 1, Len(bytes) - cut))

SendPlain(i, t, n) ==
  Send(Record(t, i), [k \in 1 .. n |-> 0])

WebServer ==
  /\ pc = "idle" /\ count < MaxRecords
  /\ \/ \E p \in Pair : AddPair(p)
     \/ pairs # <<>> /\ \E i \in Id, cut \in Cut : SendParams(i, cut)
     \/ pairs = <<>> /\ \E i \in Id :
          \/ \E v \in Version, role \in Role, flags \in Flags : SendBegin(i, v, role, flags)
          \/ \E t \in {TYPE_ABORT_REQUEST, TYPE_PARAMS} : SendPlain(i, t, 0)
          \/ \E t \in {TYPE_STDIN} \cup Other, n \in {0, 1} : SendPlain(i, t, n)

-----------------------------------------------------------------------------
(* What the program writes.                                                *)

(* A bug that would be easy to make: the terminating 0 of the text sent,   *)
(* but not counted.                                                        *)
request_write_long(id, n, stream) ==
  header_init(stream, id, n) \o [k \in 1 .. n + 1 |-> 0]

request_write(id, n, stream) == header_init(stream, id, n) \o [k \in 1 .. n |-> 0]

request_end(id, ast, protostatus) ==
  header_init(TYPE_STDOUT, id, 0) \o end_request_init(id, ast, protostatus)

request_handle(id) == request_write(id, Text, TYPE_STDOUT)
                        \o request_end(id, 0, PROTOST_REQUEST_COMPLETE)

-----------------------------------------------------------------------------
(* The program: the header, and each handler.                              *)

type == record[2]

process_begin_request(id) ==
  LET body == Content
  IN  /\ type = TYPE_BEGIN_REQUEST
      /\ keep_connection' = (body[3] % 2 = FLAG_KEEP_CONN)
      /\ IF Word(body[1], body[2]) # ROLE_RESPONDER
           THEN /\ answer' = request_write(id, Text, TYPE_STDERR)
                               \o request_end(id, 1, PROTOST_UNKNOWN_ROLE)
                /\ pc' = "failed"
           ELSE UNCHANGED answer /\ pc' = "idle"
      /\ UNCHANGED <<buf, params>>

process_abort_request(id) ==
  /\ type = TYPE_ABORT_REQUEST
  /\ answer' = request_end(id, 0, PROTOST_REQUEST_COMPLETE)
  /\ pc' = IF keep_connection THEN "idle" ELSE "done"
  /\ UNCHANGED <<buf, keep_connection, params>>

process_params(id, n) ==
  /\ type = TYPE_PARAMS
  /\ IF n = 0 THEN answer' = request_handle(id) /\ pc' = "idle" /\ UNCHANGED buf
     ELSE buf' = 0 /\ pc' = "name" /\ UNCHANGED answer
  /\ UNCHANGED <<keep_connection, params>>

process_stdin(n) ==
  /\ type = TYPE_STDIN
  /\ pc' = IF n = 0 /\ ~ keep_connection THEN "done" ELSE "idle"
  /\ UNCHANGED <<buf, keep_connection, params, answer>>

process_unknown ==
  /\ type \in Other
  /\ answer' = unknown_type_init(type)
  /\ pc' = "idle"
  /\ UNCHANGED <<buf, keep_connection, params>>

Parse ==
  /\ pc = "parse" /\ record[1] = 1
  /\ rid' = Word(record[3], record[4])
  /\ len' = Word(record[5], record[6])
  /\ \/ process_begin_request(rid') \/ process_abort_request(rid')
     \/ process_params(rid', len') \/ process_stdin(len') \/ process_unknown
  /\ UNCHANGED <<sent, name_len, data_len>>

BadVersion ==
  /\ pc = "parse" /\ record[1] # 1
  /\ pc' = "failed"
  /\ UNCHANGED <<sent, loop, keep_connection, params, answer>>

-----------------------------------------------------------------------------
(* The program: the loop over the pairs of a record.                       *)

(* What it may read lengths from: the content, and what follows it.        *)
Memory == {Content \o [k \in 1 .. 8 |-> j] : j \in Behind}

NameLength ==
  /\ pc = "name"
  /\ \E m \in Memory : /\ name_len' = Length(m, buf + 1)
                       /\ buf' = buf + LengthSize(m, buf + 1)
  /\ pc' = "data"
  /\ UNCHANGED <<sent, rid, len, data_len, keep_connection, params, answer>>

DataLength ==
  /\ pc = "data"
  /\ \E m \in Memory : /\ data_len' = Length(m, buf + 1)
                       /\ buf' = buf + LengthSize(m, buf + 1)
  /\ pc' = "pair"
  /\ UNCHANGED <<sent, rid, len, name_len, keep_connection, params, answer>>

(* assert(buf + name_len + data_len <= bufend)                             *)
Fits == buf + name_len + data_len <= len

(* A bug that would be easy to make: the value in front of the name.       *)
StoreSwapped ==
  /\ pc = "pair" /\ Fits
  /\ LET name == buf + data_len
         pair == [value |-> SubSeq(Content, buf + 1, name),
                  name  |-> SubSeq(Content, name + 1, name + name_len)]
     IN  /\ params' = [params EXCEPT ![rid] = Put(@, pair)]
         /\ buf' = name + name_len
  /\ pc' = IF buf' # len THEN "name" ELSE "idle"
  /\ UNCHANGED <<sent, rid, len, name_len, data_len, keep_connection, answer>>

Store ==
  /\ pc = "pair" /\ Fits
  /\ LET data == buf + name_len
         pair == [name  |-> SubSeq(Content, buf + 1, data),
                  value |-> SubSeq(Content, data + 1, data + data_len)]
     IN  /\ params' = [params EXCEPT ![rid] = Put(@, pair)]
         /\ buf' = data + data_len
  /\ pc' = IF buf' # len THEN "name" ELSE "idle"
  /\ UNCHANGED <<sent, rid, len, name_len, data_len, keep_connection, answer>>

(* The interpreter is out of memory for the name, the value or the entry.  *)
StoreFails ==
  /\ Faults /\ pc = "pair" /\ Fits
  /\ pc' = "failed"
  /\ UNCHANGED <<sent, loop, keep_connection, params, answer>>

(* A pair that does not fit: a build with assertions ends here.            *)
AssertionFails ==
  /\ pc = "pair" /\ ~ Fits
  /\ pc' = "lost"
  /\ UNCHANGED <<sent, loop, keep_connection, params, answer>>

(* One without them (NDEBUG, the default of setup.py) takes what is behind *)
(* the record for the rest of the pair, and puts it into the dictionary;   *)
(* a name that is cut may come out as any.                                 *)
Astray ==
  /\ pc = "pair" /\ ~ Fits
  /\ LET data  == buf + name_len
         names == IF data <= len THEN {SubSeq(Content, buf + 1, data)} ELSE Name \cup {Junk}
     IN  /\ \E name \in names :
              params' = [params EXCEPT ![rid] = Put(@, [name |-> name, value |-> Junk])]
         /\ buf' = data + data_len
  /\ pc' = "astray"
  /\ UNCHANGED <<sent, rid, len, name_len, data_len, keep_connection, answer>>

(* buf is past bufend, and != holds from now on: pair after pair is put    *)
(* together from memory that has nothing to do with the record (numbers    *)
(* are not followed any more), until an allocation fails, for a length out *)
(* of reach, or the memory ends.                                           *)
Wander ==
  /\ pc = "astray"
  /\ \/ /\ \E name \in Name \cup {Junk} :
             params' = [params EXCEPT ![rid] = Put(@, [name |-> name, value |-> Junk])]
        /\ UNCHANGED pc
     \/ pc' = "lost" /\ UNCHANGED params
  /\ UNCHANGED <<sent, loop, keep_connection, answer>>

Ended == /\ \/ pc \in {"done", "failed", "lost"}
            \/ pc = "idle" /\ count = MaxRecords
         /\ UNCHANGED vars

-----------------------------------------------------------------------------
Thread == \/ Parse \/ BadVersion \/ NameLength \/ DataLength \/ Store
          \/ AssertionFails \/ Astray \/ Wander

Next == WebServer \/ Thread \/ StoreFails \/ Ended

Spec == Init /\ [][Next]_vars

(* The handler runs: nothing in it waits.                                  *)
FairSpec == Spec /\ WF_vars(Thread)

-----------------------------------------------------------------------------
Dictionary == UNION {[S -> Value \cup {Junk}] : S \in SUBSET (Name \cup {Junk})}

(* Every variable has its type. *)
TypeOK ==
  /\ count \in 0 .. MaxRecords /\ msg.id \in Id
  /\ pc \in {"idle", "parse", "name", "data", "pair", "done", "failed",
            "astray", "lost"}
  /\ rid \in 0 .. (B * B - 1) /\ len \in 0 .. (B * B - 1)
  /\ buf \in Nat /\ name_len \in Nat /\ data_len \in Nat
  /\ keep_connection \in BOOLEAN
  /\ params \in [Id -> Dictionary]

(* The parameters of every request object (there is one for each id, for   *)
(* all requests under it) are what the web server sent for it, in the      *)
(* order it sent it, up to a pair of the record that is being handled, or  *)
(* all of it when the record is handled (__init__.c:350-395).  Neither the *)
(* form of a length, an empty or repeated name, a byte of a value that     *)
(* looks like a length, nor the high byte of an id puts a pair elsewhere;  *)
(* after a failure the pairs before it are there.  Once the loop is past a *)
(* pair that was cut, the object of that record holds what was found       *)
(* behind it, and may have lost what it held; the others are untouched.    *)
ParamsUnderstood ==
  /\ \A i \in Id \ {msg.id} : params[i] = before[i]
  /\ pc \notin {"astray", "lost"} =>
       \E k \in 0 .. Len(msg.pairs) :
         /\ params[msg.id] = PutAll(before[msg.id], SubSeq(msg.pairs, 1, k))
         /\ pc \in {"idle", "done"} => k = Len(msg.pairs)
         /\ k = Len(msg.pairs) => msg.cut = 0

(* "assert(buf + name_len + data_len <= bufend)" (__init__.c:370) fails,   *)
(* and a build without it goes past the record, only for a pair that was   *)
(* cut; in particular the loop, which stops when buf is bufend, does not   *)
(* step over it for any other.                                             *)
AstrayOnlyIfCut == /\ pc \in {"astray", "lost"} => msg.cut > 0
                   /\ pc = "name" => buf < len

(* What the web server reads of the record at place p of the bytes b, and  *)
(* the place behind it, which the header tells.                            *)
RecordAt(b, p) ==
  [type |-> b[p + 2], id |-> Word(b[p + 3], b[p + 4]), len |-> Word(b[p + 5], b[p + 6]),
   status |-> IF b[p + 2] = TYPE_END_REQUEST THEN b[p + 13] ELSE 0]

NextPlace(b, p) == p + HeaderSize + Word(b[p + 5], b[p + 6]) + b[p + 7]

(* Decoding header after header, it finds the records r, and no more: an   *)
(* answer is three records at most.                                        *)
Found(b, r) ==
  LET second   == NextPlace(b, 0)
      third    == NextPlace(b, second)
      Place(i) == CASE i = 1 -> 0 [] i = 2 -> second [] i = 3 -> third
                    [] OTHER -> NextPlace(b, third)
  IN  /\ \A i \in 1 .. Len(r) : /\ Place(i) + HeaderSize <= Len(b)
                               /\ RecordAt(b, Place(i)) = r[i]
      /\ Place(Len(r) + 1) = Len(b)

(* The records the program sends for msg.  It ends STDOUT only, although   *)
(* the comment of request_end (__init__.c:197) says "Terminate the stdout  *)
(* and stderr stream": the STDERR of a refused role (284) has no end.      *)
Meant ==
  LET R(t, i, n, status) == [type |-> t, id |-> i, len |-> n, status |-> status]
      End(status) == <<R(TYPE_STDOUT, msg.id, 0, 0), R(TYPE_END_REQUEST, msg.id, 8, status)>>
  IN  CASE msg.type = TYPE_BEGIN_REQUEST /\ msg.version = 1 /\ msg.role # ROLE_RESPONDER ->
             <<R(TYPE_STDERR, msg.id, Text, 0)>> \o End(PROTOST_UNKNOWN_ROLE)
        [] msg.type = TYPE_ABORT_REQUEST -> End(PROTOST_REQUEST_COMPLETE)
        [] msg.type = TYPE_PARAMS /\ msg.pairs = <<>> ->
             <<R(TYPE_STDOUT, msg.id, Text, 0)>> \o End(PROTOST_REQUEST_COMPLETE)
        [] msg.type \in Other -> <<R(TYPE_UNKNOWN, 0, 8, 0)>>
        [] OTHER -> <<>>

(* The web server finds in the bytes it receives the records the program   *)
(* writes (Meant), no others, with the id of its request, lengths that     *)
(* lead from each to the next, and the status of the request               *)
(* (__init__.c:193-270, 285-317).  That these are all the records it       *)
(* should get is not said: the end of STDERR is missing.                   *)
AnswersUnderstood ==
  pc \in {"idle", "done", "failed"} => Found(answer, Meant)

(* The loop over the pairs ends, for every record that ends with a whole   *)
(* pair (each turn takes a byte, even for an empty name with an empty      *)
(* value).  Of one that ends in a pair it does not: past bufend, != (352)  *)
(* never fails.                                                            *)
RecordHandled == pc = "parse" /\ msg.cut = 0 ~> pc \in {"idle", "done", "failed"}
=============================================================================
