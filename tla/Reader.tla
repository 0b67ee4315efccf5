------------------------------- MODULE Reader -------------------------------
(***************************************************************************)
(* How fcgiev_process turns the bytes of one connection into records: the  *)
(* function _read and the framing loop around the dispatch                 *)
(* (src/__init__.c:40-125, 487-575), on top of the buf_t of module Buffer. *)
(*                                                                         *)
(* A byte is abstracted to where it comes from: <<k, j>> is byte j of the  *)
(* k-th record sent.  Its value is not modelled, so a header is readable   *)
(* when its HDR bytes are in place and in order; what the code reads from  *)
(* anything else (bytes of other records, memory never written, memory of  *)
(* a freed allocation) is any header at all.                               *)
(*                                                                         *)
(* The greenthread owns its buf_t, so its steps are the ones that touch    *)
(* the socket or suspend it; the web server and the network interleave     *)
(* with them.  What the handlers answer is modelled in module Process.     *)
(***************************************************************************)
EXTENDS Buffer

CONSTANTS
  HDR,           (* sizeof(header_t), 8 in the code                        *)
  BR,            (* sizeof(begin_request_t), 8 in the code                 *)
  Shape,         (* the records sent: [type, len, pad, keep]               *)
  MaxCuts,       (* bound on the cuts the network makes inside a record    *)
  Faults,        (* whether ioctl, recv, the trampoline or a handler fails *)
  MaxRecords,    (* bound on the records of one connection                 *)
  MaxCutRecords, (* the same, of a connection whose records are cut        *)
  SockCap,       (* capacity of the socket's receive buffer                *)
  Garbled        (* what a handler is given when it is not a record sent   *)

Type == {"BEGIN", "ABORT", "PARAMS", "STDIN", "OTHER"}

Size(s) == HDR + s.len + s.pad

ASSUME ReaderAssumption ==
  /\ HDR \in Nat \ {0} /\ BR \in Nat /\ MaxRecords \in Nat
  /\ Garbled \notin Shape
  /\ MaxCuts \in Nat /\ MaxCutRecords \in 0 .. MaxRecords /\ SockCap \in Nat
  /\ Faults \in BOOLEAN
  /\ Shape \subseteq [type : Type, len : Nat, pad : Nat, keep : BOOLEAN]
  /\ \A s \in Shape : /\ Size(s) <= SockCap
                      /\ s.type = "BEGIN" => s.len = BR
                      /\ s.type = "ABORT" => s.len = 0
  /\ \A k \in 1 .. MaxRecords, s \in Shape :
       \A j \in 0 .. (Size(s) - 1) : <<k, j>> \in Byte

VARIABLES
  wire,       (* the records the web server has sent                       *)
  line,       (* their bytes that have not arrived yet                     *)
  sock,       (* the bytes waiting in the socket's receive buffer          *)
  eof,        (* the web server has closed its end                         *)
  cuts,       (* history: how often the network cut a record               *)
  pc,         (* where the greenthread is                                  *)
  after,      (* where _read returns to                                    *)
  length,     (* _read's parameter                                         *)
  n,          (* what FIONREAD reported                                    *)
  buf,        (* ctx->buf                                                  *)
  hp,         (* the header pointer: an allocation and a place in it       *)
  msg_len,    (* the content length, saved when the header was parsed      *)
  keep,       (* ctx->keep_connection                                      *)
  delivered   (* history: the records handed to the handlers               *)

net  == <<wire, line, sock, eof, cuts>>
call == <<after, length>>
vars == <<net, call, pc, n, buf, hp, msg_len, keep, delivered>>

(* Any header at all, of this protocol version.                            *)
Headers == [type : Type, len : {s.len : s \in Shape}, pad : {s.pad : s \in Shape}]

Init ==
  /\ wire = <<>> /\ line = <<>> /\ sock = <<>> /\ eof = FALSE /\ cuts = 0
  /\ pc = "top" /\ after = "parse" /\ length = 0 /\ n = 0
  /\ buf = buf_new
  /\ hp = [alloc |-> 0, at |-> 0]
  /\ msg_len = 0 /\ keep = FALSE
  /\ delivered = <<>>

-----------------------------------------------------------------------------
(* The web server and the network.                                         *)

Send(s) ==
  /\ ~ eof
  /\ Len(wire) < IF cuts = 0 THEN MaxRecords ELSE MaxCutRecords
  /\ wire' = Append(wire, s)
  /\ line' = line \o [j \in 1 .. Size(s) |-> <<Len(wire) + 1, j - 1>>]
  /\ UNCHANGED <<sock, eof, cuts, call, pc, n, buf, hp, msg_len, keep, delivered>>

(* Bytes arrive as the network likes, up to what the socket has room for:  *)
(* whole records, several at once, or cut inside a record.                 *)
Cut(m) == m < Len(line) /\ line[m + 1][2] # 0

Arrivals == {m \in 1 .. Len(line) :
               /\ Len(sock) + m <= SockCap
               /\ Cut(m) => cuts < MaxCuts /\ Len(wire) <= MaxCutRecords}

Arrive(m) ==
  /\ sock' = sock \o SubSeq(line, 1, m)
  /\ line' = SubSeq(line, m + 1, Len(line))
  /\ cuts' = IF Cut(m) THEN cuts + 1 ELSE cuts
  /\ UNCHANGED <<wire, eof, call, pc, n, buf, hp, msg_len, keep, delivered>>

Close ==
  /\ ~ eof
  /\ eof' = TRUE
  /\ UNCHANGED <<wire, line, sock, cuts, call, pc, n, buf, hp, msg_len, keep, delivered>>

-----------------------------------------------------------------------------
(* _read.                                                                  *)

(* The call: room for length more bytes, then the loop.                    *)
CallRead(len, ret) ==
  /\ buf' = buf_reserve(buf, BUF_LENGTH(buf) + len)
  /\ length' = len /\ after' = ret
  /\ pc' = "ioctl"

(* The exit returnnow; the model tells apart what led to it.               *)
Fail(why) == /\ pc' = why
             /\ UNCHANGED <<net, call, n, buf, hp, msg_len, keep, delivered>>

(* Bugs that would be easy to make: no room for what FIONREAD reports;     *)
(* waiting until all that is asked for is there.                           *)
IoctlWithoutReserve ==
  /\ pc = "ioctl"
  /\ n' = Len(sock)
  /\ pc' = IF n' = 0 THEN "wait" ELSE "recv"
  /\ UNCHANGED <<net, call, buf, hp, msg_len, keep, delivered>>

IoctlForAll ==
  /\ pc = "ioctl"
  /\ n' = Len(sock)
  /\ IF n' < length THEN pc' = "wait" /\ UNCHANGED buf
     ELSE pc' = "recv" /\ buf' = buf_reserve(buf, BUF_LENGTH(buf) + n')
  /\ UNCHANGED <<net, call, hp, msg_len, keep, delivered>>

(* FIONREAD reports what is waiting: nothing suspends the greenthread.     *)
Ioctl ==
  /\ pc = "ioctl"
  /\ n' = Len(sock)
  /\ IF n' = 0 THEN pc' = "wait" /\ UNCHANGED buf
     ELSE pc' = "recv" /\ buf' = buf_reserve(buf, BUF_LENGTH(buf) + n')
  /\ UNCHANGED <<net, call, hp, msg_len, keep, delivered>>

(* The trampoline returns when the descriptor is readable, which it is     *)
(* when bytes are waiting and, from then on, when the peer has closed.     *)
Resume ==
  /\ pc = "wait"
  /\ sock # <<>> \/ (eof /\ line = <<>>)
  /\ pc' = "ioctl"
  /\ UNCHANGED <<net, call, n, buf, hp, msg_len, keep, delivered>>

(* A bug that would be easy to make: what arrived taken from the length.   *)
RecvMiscounted ==
  /\ pc = "recv"
  /\ buf' = [Store(buf, buf.buffer, SubSeq(sock, 1, n)) EXCEPT !.off = @ - n]
  /\ sock' = SubSeq(sock, n + 1, Len(sock))
  /\ pc' = IF BUF_LENGTH(buf') >= length THEN after ELSE "ioctl"
  /\ UNCHANGED <<wire, line, eof, cuts, call, n, hp, msg_len, keep, delivered>>

(* recv copies n bytes to BUF_DATA and adds them to the length.            *)
Recv ==
  /\ pc = "recv"
  /\ buf' = [Store(buf, buf.buffer, SubSeq(sock, 1, n)) EXCEPT !.off = @ + n]
  /\ sock' = SubSeq(sock, n + 1, Len(sock))
  /\ pc' = IF BUF_LENGTH(buf') >= length THEN after ELSE "ioctl"
  /\ UNCHANGED <<wire, line, eof, cuts, call, n, hp, msg_len, keep, delivered>>

ReadFails == Faults /\ pc \in {"ioctl", "wait", "recv"} /\ Fail("failed")

-----------------------------------------------------------------------------
(* The framing loop.                                                       *)

(* The cells of b from place at of its allocation on are the first cnt     *)
(* bytes of record k.                                                      *)
Holds(b, at, k, cnt) ==
  \A j \in 0 .. (cnt - 1) : at + j < b.totallen /\ b.mem[at + j] = <<k, j>>

HeaderOf(s) == [type |-> s.type, len |-> s.len, pad |-> s.pad]

(* The records whose header is found through pointer p, and what reading   *)
(* the fields of a header through it may give.                             *)
HeadersAt(p) == {k \in 1 .. Len(wire) :
                   p.alloc = buf.totallen /\ Holds(buf, p.at, k, HDR)}
Reading(p) == IF HeadersAt(p) = {} THEN Headers
              ELSE {HeaderOf(wire[k]) : k \in HeadersAt(p)}

DataPointer == [alloc |-> buf.totallen, at |-> buf.buffer]

(* A bug that would be easy to make: a header that is there is not enough. *)
TopOffByOne ==
  /\ pc = "top"
  /\ IF BUF_LENGTH(buf) <= HDR THEN CallRead(HDR, "parse")
     ELSE pc' = "parse" /\ UNCHANGED <<buf, call>>
  /\ UNCHANGED <<net, n, hp, msg_len, keep, delivered>>

Top ==
  /\ pc = "top"
  /\ IF BUF_LENGTH(buf) < HDR THEN CallRead(HDR, "parse")
     ELSE pc' = "parse" /\ UNCHANGED <<buf, call>>
  /\ UNCHANGED <<net, n, hp, msg_len, keep, delivered>>

(* A bug that would be easy to make: reading for a record that is there.   *)
ParseOffByOne ==
  /\ pc = "parse"
  /\ hp' = DataPointer
  /\ \E h \in Reading(hp') :
       LET lenreq == HDR + h.len + h.pad - BUF_LENGTH(buf)
       IN  /\ msg_len' = h.len
           /\ IF lenreq >= 0 THEN CallRead(lenreq, "dispatch")
              ELSE pc' = "dispatch" /\ UNCHANGED <<buf, call>>
  /\ UNCHANGED <<net, n, keep, delivered>>

Parse ==
  /\ pc = "parse"
  /\ hp' = DataPointer
  /\ \E h \in Reading(hp') :
       LET lenreq == HDR + h.len + h.pad - BUF_LENGTH(buf)
       IN  /\ msg_len' = h.len
           /\ IF lenreq > 0 THEN CallRead(lenreq, "dispatch")
              ELSE pc' = "dispatch" /\ UNCHANGED <<buf, call>>
  /\ UNCHANGED <<net, n, keep, delivered>>

(* What is not a header may show a version that is not 1.                  *)
BadVersion == pc = "parse" /\ HeadersAt(DataPointer) = {} /\ Fail("refused")

(* A bug that would be easy to make: a handler that leaves the content.    *)
ConsumeHeaderOnly(b, type) ==
  IF type = "BEGIN" THEN buf_drain(b, HDR + BR) ELSE buf_drain(b, HDR)

(* What the handler of each type drains, before the padding is drained.    *)
Consume(b, type) ==
  CASE type = "BEGIN"  -> buf_drain(b, HDR + BR)
    [] type = "ABORT"  -> buf_drain(b, HDR)
    [] type = "PARAMS" -> buf_drain(b, HDR + msg_len)
    [] type = "STDIN"  -> buf_drain(buf_drain(b, HDR), msg_len)
    [] type = "OTHER"  -> buf_drain(b, HDR + msg_len)

(* The record the handler is given: the whole of record k, or something    *)
(* else.                                                                   *)
Given(h) ==
  LET whole == {k \in 1 .. Len(wire) :
                  /\ h.type = wire[k].type /\ msg_len = wire[k].len
                  /\ HDR + msg_len <= BUF_LENGTH(buf)
                  /\ Holds(buf, buf.buffer, k, HDR + msg_len)}
  IN  IF whole = {} THEN Garbled ELSE wire[CHOOSE k \in whole : TRUE]

(* ctx->should_disconnect: an abort or the end of STDIN ends a connection  *)
(* that is not to be kept.                                                 *)
Disconnects(h) == ~ keep /\ (h.type = "ABORT" \/ (h.type = "STDIN" /\ msg_len = 0))

(* The type is read through hp after the second _read, the padding after   *)
(* the handler; nothing is received in between, both see the same memory.  *)
Dispatch ==
  /\ pc = "dispatch"
  /\ \E h \in Reading(hp) :
       /\ buf' = buf_drain(Consume(buf, h.type), h.pad)
       /\ delivered' = Append(delivered, Given(h))
       /\ IF h.type = "BEGIN"
            THEN keep' \in (IF Given(h) = Garbled THEN BOOLEAN ELSE {Given(h).keep})
            ELSE UNCHANGED keep
       /\ pc' = IF Disconnects(h) THEN "done" ELSE "top"
  /\ UNCHANGED <<net, call, n, hp, msg_len>>

HandlerFails == Faults /\ pc = "dispatch" /\ Fail("failed")

Over == {"done", "failed", "refused"}

Ended == pc \in Over /\ UNCHANGED vars

-----------------------------------------------------------------------------
Thread == Top \/ Ioctl \/ Resume \/ Recv \/ Parse \/ BadVersion \/ Dispatch

Next == \/ \E s \in Shape : Send(s)
        \/ \E m \in Arrivals : Arrive(m)
        \/ Close
        \/ Thread \/ ReadFails \/ HandlerFails
        \/ Ended

Spec == Init /\ [][Next]_vars

(* The hub schedules a greenthread that can run, and the network delivers. *)
FairSpec == Spec /\ WF_vars(Thread) /\ WF_vars(\E m \in Arrivals : Arrive(m))

-----------------------------------------------------------------------------
(* Every variable has its type. *)
TypeOK ==
  /\ wire \in Seq(Shape) /\ Len(wire) <= MaxRecords
  /\ line \in Seq(Byte) /\ sock \in Seq(Byte) /\ Len(sock) <= SockCap
  /\ eof \in BOOLEAN /\ keep \in BOOLEAN
  /\ pc \in {"top", "ioctl", "wait", "recv", "parse", "dispatch"} \cup Over
  /\ cuts \in 0 .. MaxCuts
  /\ after \in {"parse", "dispatch"}
  /\ length \in Nat /\ n \in 0 .. SockCap
  /\ buf.totallen \in Nat /\ buf \in buf_t(buf.totallen)
  /\ hp.alloc \in Nat /\ hp.at \in Nat /\ msg_len \in Nat
  /\ delivered \in Seq(Shape \cup {Garbled})

(* What the handler of the header h reads of the bytes behind a header.    *)
ReadBy(h) == IF h.type = "BEGIN" THEN BR ELSE msg_len

(* However the bytes arrive and whatever was moved in between, no byte is  *)
(* received past the allocation, no header is parsed from bytes that were  *)
(* not received, and no handler is sent past the allocation for a content  *)
(* of msg_len (__init__.c:87, 498-511, 531-553).  Up to the first cut      *)
(* record the handler moreover reads nothing that was not received, a      *)
(* begin body included, and hp is still where its header is (528, 573).    *)
(* Not so after one: a begin body is read whatever msg_len is (531), and   *)
(* the second _read may move the buffer under hp.                          *)
InBounds ==
  /\ pc = "recv" => buf.misalign + n <= buf.totallen
  /\ pc = "parse" => HDR <= BUF_LENGTH(buf)
  /\ pc = "dispatch" =>
       /\ buf.misalign + HDR + msg_len <= buf.totallen
       /\ cuts = 0 => /\ hp = DataPointer
                      /\ \A h \in Reading(hp) : HDR + ReadBy(h) <= BUF_LENGTH(buf)

(* The whole next record is in the buffer.                                 *)
HoldsRecord ==
  \E k \in 1 .. Len(wire) : /\ Size(wire[k]) <= BUF_LENGTH(buf)
                            /\ Holds(buf, buf.buffer, k, Size(wire[k]))

(* The greenthread never turns to the socket while the whole next record   *)
(* is in its buffer: the web server may be waiting for the answer to it    *)
(* before it sends more, and both would wait for ever.  The two calls of   *)
(* _read keep to this whatever arrived before; the loop in _read does up   *)
(* to the first record that is cut, for after that it may take any bytes   *)
(* for a header, and wait for the length it finds there.                   *)
NeverWaitsWithRecord ==
  [][pc' \in {"ioctl", "wait"} /\ (pc \in {"top", "parse"} \/ cuts' = 0)
       => ~ HoldsRecord']_vars

(* The byte sent after byte x, of the records w.                           *)
ByteAfter(x, w) ==
  IF x[2] + 1 < Size(w[x[1]]) THEN <<x[1], x[2] + 1>> ELSE <<x[1] + 1, 0>>

(* Byte i of d or, behind d, the first byte of the next record to be sent. *)
ByteAt(d, i, w) == IF i <= Len(d) THEN d[i] ELSE <<Len(w) + 1, 0>>

(* d is what w consists of from its k-th record on.                        *)
IsRest(d, k, w) == /\ ByteAt(d, 1, w) = <<k, 0>>
                   /\ \A i \in 1 .. Len(d) : ByteAt(d, i + 1, w) = ByteAfter(d[i], w)

(* Between two records the buffer holds what was received and not handled, *)
(* in order and from BUF_DATA on: it is the stream after the last record   *)
(* handled, up to what still waits in the socket and on the line.  A drain *)
(* too long or too short, a byte overwritten or skipped shows up here.     *)
(* A record that was cut ends this: recv stores at BUF_DATA, where the     *)
(* first part of it is (87).                                               *)
StreamInStep ==
  pc = "top" /\ cuts = 0 =>
    IsRest(Contents(buf) \o sock \o line, Len(delivered) + 1, wire)

(* Up to the first record that is cut the loop implements the record       *)
(* stream: whole records, in order, once.                                  *)
Stream == INSTANCE RecordStream WITH Record <- Shape, stream <- wire
StreamSpec == Stream!Init /\ [][cuts' = 0 => Stream!Next]_<<wire, delivered>>

(* A record that was sent reaches its handler, unless an earlier one ended *)
(* the connection, something failed, or a record was cut; in particular no *)
(* record that arrived in one piece is refused or waited for.              *)
EveryRecordDelivered ==
  \A k \in 1 .. MaxRecords :
    Len(wire) >= k ~> \/ Len(delivered) >= k
                      \/ pc \in {"done", "failed"}
                      \/ cuts > 0

(* Bytes that arrived do not wait in the socket for ever: whatever the     *)
(* loop takes them for, it takes them, or it ends.                         *)
EveryByteTaken == sock # <<>> ~> (sock = <<>> \/ pc \in Over)

(* "Check whether we have the whole message that follows the headers in    *)
(* our buffer already.  If not, we can't process it yet."                  *)
(* (__init__.c:507-509)                                                    *)
WholeBeforeDispatch == pc = "dispatch" => HDR + msg_len <= BUF_LENGTH(buf)

(* _read has a return value for the end of the stream, "ret = 1; // EOF"   *)
(* (__init__.c:110), for its caller to stop on (CHECKREAD, 477-485): when  *)
(* the web server has closed and everything was taken, the loop ends.      *)
EndsAtEof == (eof /\ line = <<>> /\ sock = <<>>) ~> pc \in Over
=============================================================================
