# Verification of fcgiev

fcgiev is a FastCGI responder written as a C extension of Python.  A greenthread
of an eventlet hub calls `fcgiev.process(fd, spawner, trampoline)` for each
accepted connection; the C function reads FastCGI records from the socket, keeps
the parameters of each request, answers, and suspends itself through
`trampoline` whenever the socket has nothing to read or no room to write.  An
older prototype of the same server on libevent callbacks is kept in
`on-the-road/`.

This directory holds TLA+ models of both, the TLC configurations that check
small instances of them, and proofs for TLAPS.  Paths are relative to the
repository; a line number without a path is one of `src/__init__.c`.

## Inventory

| Component | State | Operations | Interacts with | What makes it correct |
|---|---|---|---|---|
| `buf_t` (`src/buffer.h`) | allocation, data pointer, `misalign`, `totallen`, `off` | `buf_reserve`, `buf_align`, `buf_append`, `buf_drain` | used by `_read` and by every handler | a byte queue; both records of where the data start agree; room after `buf_reserve`; does not grow with the stream |
| `_read` and the framing loop (40-125, 487-575) | the buffer, the header pointer `hp`, `msg_len`, `lenreq` | `ioctl(FIONREAD)`, `recv`, trampoline; header, content and padding of each record | socket, hub, handlers | every record reaches its handler whole, once, in order; nothing is received past the allocation, and (up to the first cut record) nothing read that was not received; it never sleeps on a record it holds |
| `_write` and the answer (128-166, 193-270) | the length left to send | `send`, trampoline | socket, hub | every message in its place on the wire, and whole where `send` took it in one piece; the handler returns |
| Handlers (277-428) and `fcgiev_process` (439-606) | `keep_connection`, `should_disconnect`, `requests[]`; `concurrency`, `concurrency_max` shared by all connections | begin, abort, params, stdin, unknown; request_handle, request_end | each other through the shared counters and the hub | every request is ended once, with its own parameters, and no other is; the connection is closed when, and only when, it should |
| Record encoding (`src/fcgiproto.h`, the decoding in 285-400 and 498-541) | none; in `process_params` the position in the record | `header_init`, `end_request_init`, `unknown_type_init`; header fields, begin body, name-value lengths | handlers, web server | both sides understand the same numbers; the loop over the pairs of a record that ends with a whole pair stays inside it and ends |
| Prototype (`on-the-road/test1.c`) | one request table for all connections; per connection a bufferevent with two buffers | `server_accept`, read, write and error callback, handlers | libevent loop, web server | the table and the bufferevents point at each other; the handlers' assertions hold; no request is lost between callbacks |
| Start of the prototype (`on-the-road/sockutil.c`, `main` and `server_*` of `test1.c`) | open descriptors, watched descriptors; outside the process, socket files and ports | `sockutil_bind`, `server_init`, `server_bind`, `server_enable`, `main` | system calls, event loop, earlier and other processes | in the loop every address is served; the program can be started again after any end, unless a socket file cannot be removed |
| Accept loop (`examples/eventletfcgi.py`) | list of sockets | `accept`, `run` | hub, a connection handler that is not in the repository | closes its socket on every exit |
| Module set-up, macros, packaging | none | | interpreter, build | straight-line |

The hard behaviours: greenthreads suspended in the middle of handlers, with
counters they share; byte streams cut anywhere by the network, with pointers
into a buffer that moves; sends that take a part; failures between any two
steps of a handler; requests multiplexed and ids used again; aborts that cross
answers; everyone waiting for room or for input; lengths and ids of one byte or
several; a program that ends halfway and is started again.  `PROJECT.json` lists each
hazard at its line, with the properties that watch it.

## Modules

| Module | Models | Run by |
|---|---|---|
| `Buffer` | `buf_t`: one operator per C function, on a record with the C fields | `BufferUse`, `Reader` |
| `ByteQueue` | what a `buf_t` promises: a first-in first-out byte string | refined by `BufferUse` |
| `BufferUse` | a `buf_t` under every sequence of calls that stays within a capacity | `MCBufferUse` |
| `BufferLemmas` | lemmas about the operators of `Buffer`, for `BufferProofs` and `ReaderProofs` | `tlapm` |
| `BufferProofs` | theorems about `BufferUse` | `tlapm` |
| `RecordStream` | what the framing loop promises: the records sent, whole, in order, once | refined by `Reader` |
| `Reader` | `_read` and the framing loop, byte by byte, on `Buffer` | `MCReader` |
| `ReaderProofs` | theorems about `Reader` | `tlapm` |
| `Writer` | the four `_write` calls of `request_handle`, byte by byte | `MCWriter` |
| `WriterProofs` | theorems about `Writer` | `tlapm` |
| `Service` | what a responder promises: every request asked for is ended once | refined by `Process` |
| `Process` | `fcgiev_process`, its handlers and the shared counters, record by record, several connections | `MCProcess` |
| `ProcessProofs` | theorems about `Process`: types, the service, the order of output, the parameters, the shared counter, the closing of connections | `tlapm` |
| `FcgiProto` | the encoders of `fcgiproto.h` and the decoding of numbers, as operators on bytes | `Codec` |
| `Codec` | header, begin body, the loop over name-value pairs, the bytes of the answers | `MCCodec` |
| `CodecProofs` | theorems about `Codec` | `tlapm` |
| `Prototype` | the libevent prototype: callbacks, request table, bufferevents | `Server`, `MCPrototype` |
| `PrototypeProofs` | theorems about `Prototype` | `tlapm` |
| `Listen` | how the prototype starts: `main`, `server_*`, `sockutil_bind`, their failures, restarts | `Server` |
| `Server` | the whole prototype: `Listen`, then `Prototype` in its loop | `MCServer` |
| `ServerProofs` | theorems about `Server` | `tlapm` |

`Buffer` is used inside `Reader` as it is.  `Reader` and `Writer` show when the
assumption of `Process` holds that records are received and sent whole; the
composition stops there, because their data (single bytes) and that of `Process`
(records, connections) multiply.  `Codec` is the third view of the same handlers:
bytes have values there, and nothing is concurrent.  `Server` composes `Listen`
with `Prototype`: a connection is accepted only when the program has reached its
loop.

### How state and actions correspond to the code

**Buffer.** `b.buffer` is the distance of `buf->buffer` from `orig_buffer`,
`b.mem` the allocation with a cell for every byte, `Uninit` where nothing was
written.  `realloc` always enlarges, so `totallen` also names the allocation.
The doubling loop of `buf_reserve` is `GrowTo`: the least number of the form
`start * 2^k` that is enough.

**Reader.** `pc` says where the greenthread is: `top` (487), `ioctl` (58), `wait`
(in the trampoline), `recv` (87), `parse` (498), `dispatch` (528).  A byte is the
pair of its record and its place in it; values are not modelled.  A header is
readable when its bytes are in place; anything else read as a header gives any
header at all, of version 1 (`Reading`) or not (`BadVersion`).  `recv` stores at
`BUF_DATA`, as the code does.  `cuts` counts how often the network has cut a
record, so that what holds only for uncut records can say so.  `failed` is an
error of a call, `refused` a header the loop does not accept.  `hp` keeps the allocation it points into, so that
a read through it after a reallocation is one of those reads of anything.
`Consume` has the `buf_drain` calls of each handler, `Dispatch` adds the one for
the padding.  `ReadBy` is how far the handler of a header reads behind it: a begin
body for BEGIN, whatever the header promises, and `msg_len` for the others.

**Writer.** `m` is the current call of `_write`, `length` its variable.  `Send`
appends what the code gives to `send`: the start of the message, whatever was
sent of it before.  `starts`, `out` and `split` (the messages that `send` took in
more than one piece) are histories.  `send` returns 0 only when
asked for nothing, which the loop never does, so that the exit of line 154 is
not an action.

**Process.** `running` is the connection whose greenthread runs, or `"hub"`.  A
greenthread that reads or writes goes on until it is `Blocked`, then `Yield`s; the
hub `Resume`s any that is not.  A handler is the part up to its first write,
which is one action, and a list `todo` of what is left of it: writes, the
decrement of the counter, the test of `keep_connection`, the exception for a
refused role.  A handler is thereby suspended at each of its writes.  A connection
that is over is `closed` when the loop left it, `refused` after the exception for a
role, `error` after a failure: the code returns in all three, and what is due to the
web server differs.  `params`
holds, for each parameter, the number of the request that set it.  The
counters are numbers modulo `W`.  The web server follows the FastCGI cycle:
BEGIN, PARAMS, the end of them, STDIN, the end of it; it may abort, use an id
again when the request is both sent and answered, run requests at once
(`Mpx`), and sends nothing after a request without FLAG_KEEP_CONN.

**Codec.** `msg` is the record as the web server means it, `record` its bytes;
`Header`, `Prefix` and `Encoded` are the web server's encodings (of the protocol,
so external), `header_init` and the others those of the code.  The web server puts
the pairs of its next record together one by one (`AddPair`: `pairs` and their
`bytes`), as many as a record has room for, and cuts the last one where it likes.
`before` is what it sent for each request: of each name the last value (`PutAll`);
`Found` is its reading of an answer, header after header.  `pc` walks through
`process_params`: `name` and `data` decode a length, `pair` has the assertion of
370 and the store.  A length is read without a look at the end of the record, so
`Memory` is the content followed by bytes of any kind (`Behind`).  Where the assertion
does not hold, both builds are modelled: `AssertionFails` ends the program (`lost`);
without assertions (`NDEBUG`, the default of `setup.py`) `Astray` stores the cut pair
with what follows it (`Junk`), and `Wander` goes on past `bufend`, storing anything,
for ever or until the process or the handler ends.  `Unset` is a byte of a message on the
stack that nothing assigned.  Texts are lengths only (`Text`; the code's are 41 and 39).

**Listen.** `step` is the next system call, `i` the argument, `fds` the open
descriptors in the order they were opened.  `owner` says for each place (a port
or the path of a unix socket) who is bound there: one of `fds`, `Nobody`, `Earlier`
for what a process that ended left (a file; lingering connections of a port), `Kept`
for such a file that `unlink` could not remove now, `Other` for a process that runs.
The code does not look at what `unlink` returns.  A port number is kept in a short, and 0 makes the
whole argument a path.  `Fails` is any call that can; the program then exits and
may be started again (`Restart`).  Without arguments descriptor 0 is the one server.

**Prototype.** `_requests` and `bev` have the fields of the C structures.  An
event is an action that needs `running = "loop"`; the read callback takes several
actions, one per record, while `running` names its connection.  `Crash` is a
failed assertion; `request_put` on a request that has no bufferevent is one too
(it follows NULL).  libevent is modelled from its use: it reads what has
arrived and calls the read callback, sends what the socket takes and calls the
write callback when nothing is left, calls the error callback when either
fails, and does nothing for a disabled bufferevent.  A `FOREIGN` record has another
protocol version: `bev_abort` closes its connection.  `stdin_eof` is never read
by the program and left out.

## Runs

Passing runs:

| Run | Question | Bounds |
|---|---|---|
| `buffer_use` | Is a `buf_t` a bounded byte queue with room after `buf_reserve`? | capacity 4, first allocation 2: all three branches of `buf_reserve` run, two reallocations and more |
| `reader` | Do records arrive whole, in order, once, when none was cut; what holds however the bytes arrive, with failures? | 3 records out of 6 shapes, with and without content and padding, any number at a time in the socket; 2 of them with 2 cuts anywhere; the buffer reallocates |
| `writer` | Do the messages keep their places, does what is not split arrive as it is, and does the handler return? | messages of 3, 5, 3 and 4 bytes, a send buffer of 3: every message is cut or waits |
| `process_requests` | One kept connection, requests at once or in turn: answered once, in order, in the end, with their own parameters? | 3 requests, 2 ids, 1 parameter name, refused roles, aborts, 1 other record; sockets of 1 and 3 records |
| `process_connections` | Two connections with faults: are the counter, the closing and the service right? | 1 request each, accepted or refused, sockets of 1 record, so that each handler is suspended at each write |
| `codec` | Does each side understand the other's bytes? | bytes of 16 values; 2 records, 2 pairs in each; names of 0 and 8 bytes, values of 0, 1 and 8, in the short and the long form; ids 1 and 17, roles 1, 2 and 17; the last pair cut at 3 places, followed by 0 or 15 |
| `server` | From its start on, does the prototype serve every address, keep its table, its assertions and its requests, and start again after a failure? | a port, a path, and a port number that is 0 in 16 bits; every place free, left by an earlier process, or taken; 2 failures; 2 connections, 2 ids, 1 request each, 1 other record, sockets of 2 records |

Runs that show a disagreement (each is under `findings` in `PROJECT.json`):

| Run | The repository says | The code does |
|---|---|---|
| `reader_partial_record` | "If not, we can't process it yet." (507-509) | `_read` returns when the whole buffer is as long as the missing part, and `recv` overwrites the start: a record in two pieces is dispatched garbled, one in three pieces before the last has come |
| `reader_eof` | "ret = 1; // EOF" (110) | with FIONREAD the end of the stream is taken for nothing to read yet: the loop turns for ever |
| `writer_end` | "send end request" (203) | after a partial send the start of the message is sent again |
| `process_reused` | "restore a request object" (185) | `request_put` is never called: a request inherits parameters of an earlier one with its id |
| `prototype_ids` | `assert(r->bev == NULL)` (`on-the-road/test1.c:277`) | fails when two connections use one id |

Because of the first, `StreamInStep`, `StreamSpec` and `EveryRecordDelivered` speak
of the time before the first record is cut, and `EveryByteTaken` of all of it.
`InBounds` has a part for each.  What is received fits the allocation, and so does a
content of `msg_len` bytes, always.  That `hp` is still where its header is, and that
a handler reads only what was received, holds up to the first cut: after one the
second `_read` may move the buffer under `hp`, and a garbled BEGIN makes the handler
read a begin body (281-283) whatever `msg_len` is.  Nothing is said of those reads,
except that the model lets them give anything.  `NeverWaitsWithRecord` too has two
parts: the two calls of `_read` are made only without a whole record in the buffer,
whatever happened before; the loop inside `_read` keeps to it up to the first cut.
It has to stop there.  Once the header of a record is cut, the rest of it is taken
for a header that may promise any content, and a whole record that comes in
meanwhile lies at `BUF_DATA` while `_read` goes on waiting for that content.  The records of the run are too short to show it; the
attempt to prove the property for all records did.

Differences met that have no run of their own.  Three contradict something the
repository says of itself:

* "Terminate the stdout and stderr stream" (197): `request_end` ends STDOUT only (199;
  the code for STDERR, 216-219, is commented out).  The refusal of a role is the one
  case that writes STDERR (284), and it is never ended.  `Meant` and `OutputInOrder`
  take the records the code writes, so that `AnswersUnderstood` says that they are
  encoded right, not that they are all there should be.
* `assert(buf + name_len + data_len <= bufend)` (370): a name-value pair that goes on in
  the next PARAMS record, which the protocol allows, fails it (`AstrayOnlyIfCut` says
  that nothing else does).  Without assertions, the default, what lies behind the record
  becomes a parameter, and the loop does not end at the record's end; `ParamsUnderstood`
  limits the damage to the object of that record, and `RecordHandled` is about the
  other records.
* The order in `docs/life-cycle.txt`: the answer precedes the reading of STDIN (341).

Two contradict nothing it says: an abort that crosses the answer gets a second
END_REQUEST (328), and the runs of `Process` keep aborts to the time before the
parameters end (`Early`); and `end_request_init` assigns one field four times
(`fcgiproto.h:90-93`), so that three bytes of the application status are whatever
the stack held.

Why the bounds are enough: every action and every branch fires; each property
has a plausible bug of the code, written next to the definition it would
change, that breaks it within these bounds; and the size-dependent component,
the buffer, is also proved for all sizes, as is every safety property.  `MinAlloc`,
`HDR` and `BR` stand for 256, 8 and 8: smaller values make the same comparisons come out both ways with
fewer bytes.  `MaxRecords`, `MaxBegin` and `MaxExtra` bound what the web server
sends, `SockCap`, `SndCap`, `InCap`, `OutCap` and `NetCap` are socket buffers.  `B`
stands for 256: with 16 values a byte still has an upper half, and a length of 8
needs the long form as 128 does.  The run `server` leaves out the start without
arguments, which has one step and doubles the states; the proofs cover it.

Deadlock is checked except in `server` and `prototype_ids`, where the system may really stop: a
second request on a kept connection is never read, because the bufferevent stays
disabled, and an aborted request gets no answer.  In `Process` the only state
allowed to stop is `AllOver`, in which no request is open.

### Fairness

* `Reader`: `WF(Thread)`, the hub resumes a greenthread whose descriptor is ready
  and the greenthread's own steps are sequential code; weak fairness of `Arrive`,
  the network delivers.  The web server need not send.
* `Writer`: `WF(Thread)` as above; `WF(Reads)`, the web server reads its socket.
* `Process`: `WF` of each greenthread and of each `Receive`.  Nothing is assumed
  of the web server's sending, so `Answered` starts when the parameters are sent.
* `Codec`: `WF(Thread)`, the handler is sequential code that waits for nothing.
* `Prototype`: `WF` of the events of each connection (libevent polls all
  descriptors in each turn) and of `Receive`.  `Server` adds `WF` of `main`, which is
  sequential; a restart after a failure is not promised.

No run assumes strong fairness or fairness of a failure.

## Proofs

Every theorem is about a specification as the runs use it (without its fairness),
for all values of the constants that the module's `ASSUME` allows; where a theorem
has a hypothesis of its own, it is named below.  Each follows from an inductive
invariant, established by a lemma per action.

**Buffer.** `BufferProofs`, about `Spec` of `BufferUse`:

* `TypeCorrect`, `LayoutCorrect`, `ReserveCorrect`, `BoundedCorrect`: the
  invariants of the run `buffer_use`.  They follow from one inductive invariant,
  `Inv`: the record is well formed (its data inside the allocation, its pointer
  and its misalignment equal), holds at most `Cap` bytes, and `Bounded`.  `Bounded`
  alone is not inductive: that a reallocation stays below `4 * Cap` needs the
  bound on the contents, and that the branch is taken only when the gap in front
  of them is smaller than what is asked for.
* `BufferIsQueue`: every step is a step of `ByteQueue`, or none, under `Contents`.

`BufferLemmas` has what each operation keeps (`AlignKeeps`, `ReallocKeeps`,
`ReserveKeeps`, `AppendKeeps`, `DrainKeeps`, `StoreKeeps`), that two drains are one
(`DrainTwice`), and the argument about the doubling loop: there is a power of two
times the start between the need and twice the need (`NatLeast`,
`PowersOfTwoDouble`, `GrowToBounds`).

**Reader.** `ReaderProofs`, about `Spec` of `Reader`, with cuts, faults and every
header that garbled bytes may look like:

* `ReaderTypeCorrect`, `ReaderInBounds`: the room that `buf_reserve` makes is there
  when it is used (the part of `InBounds` about `hp` and what was received follows
  from `Sync`, below).  The invariant is `Room`: in `_read` for a content, header and
  content have room from `BUF_DATA` on (a second `buf_reserve` in the loop may move
  the data, but only forward), and in `recv` what FIONREAD reported has room.
* `ReaderStreamInStep`, `ReaderNeverWaits`, `ReaderIsStream`: the invariant is `Sync`,
  up to the first cut.  `Placed`: the bytes in the buffer, the socket and on the line
  are the rest of the stream after the last record delivered, and a record ends where
  the buffer ends and where the socket ends.  `AtWork`: in `_read` the buffer is
  empty; from `parse` on it is not, and `hp` and `msg_len` are those of the record in
  front.  That a stream which ends with a record holds its first record whole is
  `WholeFirst`, and that it is again a stream without it `RestOfStream`.

**Writer.** `WriterProofs`, about `Spec` of `Writer`, for every list of messages and
every capacity: `WriterTypeCorrect` and `WriterBytesInPlace`.  The inductive
invariant `Inv` is both `TypeOK` and `BytesInPlace`, that a call has nothing left to
send exactly when it is over, which is what lets the next one start where it ended,
that the calls before this one begin on the wire, and that of a call which is not
split nothing is sent until all of it is.

**Process.** `ProcessProofs`, about `Spec` of `Process`, for any
number of connections, ids, requests and records, any socket sizes and faults:

* `ProcessTypeCorrect` and `ProcessOutputInOrder` need no hypothesis.  Whenever the web
  server aborts, the record that ends an output stream and the END_REQUEST of the same
  request are sent one behind the other (`AllFramed`: what is sent and what is left in
  `todo` come in such pairs).  The other part of `OutputInOrder`, that nothing of a
  request comes after them, is stated under `Early`, and false without it.
* `ProcessIsService`, `ProcessParamsCurrent` and the theorems below assume `Early`: the
  web server aborts only while it sends parameters (`Abort \subseteq {"params"}`).  This
  leaves out the hard case, an abort that crosses the answer: the code then sends a
  second END_REQUEST and counts the request out twice, see the differences above, so
  that `ServiceSpec` and `CountExact` do not hold.  The
  invariant is `Types`, `Control` (who runs, and that the others are where they
  suspended) and, for each connection, `Local`: what is on its way and what is left in
  `todo` is, request by request, in step with what the web server waits for.
* `ProcessCountExact` assumes also `Finite`, that there are finitely many connections
  and ids, since it counts with cardinalities.  `Counted` adds up, connection by
  connection, requests begun and decrements still in a `todo` (`Debt`, `Late`).
  An earlier form of the property counted refused requests by id; the proof showed it
  false beyond the bounds of the runs, where the id of a refused request begins again
  before the exception ends the connection.  It counts the connections that ended so.
* `ProcessClosedWhenAnswered` assumes also one request at a time on a connection
  (`~ Mpx`): with several, the end of one closes the connection under the others.

**Codec.** `CodecProofs`, about `Spec` of `Codec`, for every even number `B > 11` of byte
values, all ids and roles of two bytes, any names and values and forms of their
lengths, any number of pairs that a record has room for, the last one cut anywhere,
and any bytes behind it in memory:

* `CodecParamsUnderstood`, `CodecAstrayOnlyIfCut`, `CodecTypeCorrect`: the invariant is
  `AtPair`.  It knows the place of every pair in the content (`Spelled`) and the pair
  the loop is at: the pairs before it are stored (`Done`), and `buf` is where the
  reading of this one has come to, with the lengths that its prefixes spell, unless
  it is past the end of the content, which only the last pair, cut, can bring about
  (`PlaceFacts`).  That the assertion may fail then, and only then, and that
  `buf != bufend` never steps over the end, follow.  `WordOf`, `LengthOf` and
  `RecordOf` say that what one side encodes the other decodes; they need that a
  record is shorter than `B * B`, so that the high bytes of a long length are 0.  Past
  a cut pair the invariant keeps only that the other objects are as they were
  (`Elsewhere`), and that the record was cut (`CutOnly`).
* `CodecAnswersUnderstood`: `EndFound`, `WriteFound` and `UnknownFound` decode each
  answer the code writes.  Not one of them needs the three bytes that
  `end_request_init` leaves unset.

**Prototype.** `PrototypeProofs`, about `Spec` of `Prototype`:

* `PrototypeTypeCorrect`, `PrototypeAssertionsHold`, `PrototypeLinked`,
  `PrototypeNotForgotten`, all for `~ SharedIds`: the table of requests is global, and
  two connections that use one id run into the assertion of 277 (run
  `prototype_ids`).  The invariant: only the connection that runs has input
  (`Control`), requests in use on different connections are apart (`Apart`), the
  table and the bufferevents point at each other (`Linked`), and the records of each
  connection under way are the part of one request that its phase says (`Reading`,
  `Answer`, `Sent`), in the room there is for them (`Room`).  `~ SharedIds` is used in
  one place, the begin of a request.

**Server.** `ServerProofs`, about `ServerSpec` of `Server`, for all lists of arguments
whose places differ, any number of failures and restarts:

* `ServerListening` and `ServerStartsAgain`: `Listening` and `StartsAgain`.  The
  inductive invariant `Inv` ties the number of descriptors to the argument `main` is
  at (`Count`), says which place a descriptor may own (`Owned`), that every argument
  that is past is served (`Opened`), and what was prepared before a `bind`
  (`Prepared`: `SO_REUSEADDR` for a port; a path is free, of a process that runs, or
  `Kept`, which a port never is).  That the places differ is what keeps `unlink` and
  `bind` from taking an earlier argument's place away (`UnlinkInv`, `BindInv`): of two
  equal paths the second would.
* `ServerRunsPrototype`: every behaviour of the whole program is one of `Prototype`,
  so that the theorems about it hold of the program.

Only model-checked: the liveness properties, of every module (liveness under
fairness is out of the prover's reach).

## Not modelled

* The size of the table that request ids index (33, 175): `Id` has few members, and
  the last two ids of 16 bits, which are past it, are not among them.
* Exhausted memory in C, and the release of the objects of a connection.
* The trampoline from inside: the hub is modelled by what the code relies on, that
  it resumes a greenthread whose descriptor is ready.
* Python module set-up, macros, packaging, `test2.c`, the Python examples: no
  state of their own, or only that of libraries.
* `test1-o.c`: the same program as `test1.c` with other log messages.
* Of the prototype: several requests at once on a connection, a change of protocol
  version on a connection in use, a web server that closes its connection and uses
  the id on another at once, and what a reset does to output that was not received.

## Plan

Every safety property and the refinements that the runs check are proved.  What is
left are the parts of the liveness properties that a prover can reach: that each step
of `Thread` in `Codec`, `Writer` and `Reader` makes a measure smaller (the bytes still
to be read or sent), as action properties, which leaves only the fairness to TLC; and
what of `ServiceSpec` and `CountExact` still holds when the web server aborts at any
time (without `Early`): one END_REQUEST more, and one count less, for each abort that
crosses the answer.
