----------------------------- MODULE Prototype -----------------------------
(***************************************************************************)
(* The prototype of the server on libevent (on-the-road/test1.c): an event *)
(* loop, a bufferevent per connection with an input and an output buffer,  *)
(* three callbacks, and one table of requests for all connections, found   *)
(* by request id.                                                          *)
(*                                                                         *)
(* A callback runs to its end before the loop takes the next event; what   *)
(* the web server does meanwhile commutes with it and is left to the time  *)
(* between two callbacks.  The buffers hold whole records: readcb returns  *)
(* and leaves the rest when it finds a part of one (404).                  *)
(***************************************************************************)
EXTENDS Integers, Sequences

CONSTANTS
  Conn,       (* connections, each accepted once                           *)
  Id,         (* request ids                                               *)
  null,       (* the NULL of pointers to requests and bufferevents         *)
  Flags,      (* FLAG_KEEP_CONN and whether the role is RESPONDER, in the  *)
              (* requests the web server makes                             *)
  SharedIds,  (* whether an id may be in use on two connections at once    *)
  MaxBegin,   (* bound on the requests of a connection                     *)
  MaxExtra,   (* bound on the records that not every request has: PARAMS   *)
              (* and STDIN data, ABORT and records of unknown types        *)
  NetCap      (* records a socket buffers in each direction                *)

ASSUME PrototypeAssumption ==
  /\ null \notin Conn \cup Id /\ "loop" \notin Conn
  /\ Flags \subseteq [keep : BOOLEAN, responder : BOOLEAN] /\ SharedIds \in BOOLEAN
  /\ MaxBegin \in Nat /\ MaxExtra \in Nat /\ NetCap \in Nat \ {0}

VARIABLES
  _requests,      (* request id -> [bev, keepconn, responder, terminate]   *)
  bev,            (* connection -> [fd, enabled, cbarg], the bufferevent   *)
  input, output,  (* its two buffers, sequences of records                 *)
  running,        (* the connection whose readcb runs, or "loop"           *)
  crashed,        (* an assertion failed or NULL was dereferenced          *)
  toApp, toSrv,   (* records under way on each connection                  *)
  cur,            (* connection -> the web server's request on it          *)
  begun,          (* connection -> its requests so far                     *)
  extra           (* records sent that are no part of every request        *)

app     == <<_requests, bev, input, output, running, crashed>>
buffers == <<input, output>>
server  == <<cur, begun, extra>>
vars    == <<app, toApp, toSrv, server>>

Init ==
  /\ _requests = [i \in Id |-> [bev |-> null, keepconn |-> FALSE,
                                responder |-> FALSE, terminate |-> FALSE]]
  /\ bev = [c \in Conn |-> [fd |-> "none", enabled |-> FALSE, cbarg |-> null]]
  /\ input = [c \in Conn |-> <<>>] /\ output = [c \in Conn |-> <<>>]
  /\ running = "loop" /\ crashed = FALSE
  /\ toApp = [c \in Conn |-> <<>>] /\ toSrv = [c \in Conn |-> <<>>]
  /\ cur = [c \in Conn |-> [phase |-> "idle", id |-> null]]
  /\ begun = [c \in Conn |-> 0] /\ extra = 0

Loop == running = "loop" /\ ~ crashed

-----------------------------------------------------------------------------
(* The web server, which has one request at a time on a connection.        *)

Send(c, r) == /\ Loop /\ Len(toApp[c]) < NetCap /\ bev[c].fd = "open"
              /\ toApp' = [toApp EXCEPT ![c] = Append(@, r)]
              /\ UNCHANGED <<app, toSrv>>

Begin(c, i, f) ==
  /\ cur[c].phase = "idle" /\ begun[c] < MaxBegin
  /\ SharedIds \/ \A d \in Conn : cur[d].id # i
  /\ Send(c, [type |-> "BEGIN", id |-> i, keep |-> f.keep, responder |-> f.responder])
  /\ cur' = [cur EXCEPT ![c] = [phase |-> "params", id |-> i]]
  /\ begun' = [begun EXCEPT ![c] = @ + 1]
  /\ UNCHANGED extra

Step(c, from, type, to) ==
  /\ cur[c].phase = from
  /\ Send(c, [type |-> type, id |-> cur[c].id])
  /\ cur' = [cur EXCEPT ![c].phase = to]
  /\ UNCHANGED begun

Advance(c, from, type, to) == Step(c, from, type, to) /\ UNCHANGED extra

SendExtra(c, from, type, to) == /\ extra < MaxExtra
                                /\ Step(c, from, type, to)
                                /\ extra' = extra + 1

(* A peer of another protocol version, which has its own numbers.          *)
SendForeign(c) ==
  /\ cur[c].phase = "idle" /\ begun[c] = 0 /\ extra < MaxExtra
  /\ Send(c, [type |-> "FOREIGN", id |-> null])
  /\ cur' = [cur EXCEPT ![c].phase = "foreign"]
  /\ extra' = extra + 1
  /\ UNCHANGED begun

(* After END_REQUEST the id is free.                                       *)
Receive(c) ==
  /\ Loop /\ toSrv[c] # <<>>
  /\ toSrv' = [toSrv EXCEPT ![c] = Tail(@)]
  /\ cur' = IF Head(toSrv[c]) = [type |-> "END", id |-> cur[c].id]
              THEN [cur EXCEPT ![c] = [phase |-> "idle", id |-> null]] ELSE cur
  /\ UNCHANGED <<app, toApp, begun, extra>>

(* The program has closed the connection: what was asked on it failed.     *)
Hangup(c) ==
  /\ Loop /\ bev[c].fd = "closed" /\ toSrv[c] = <<>> /\ cur[c].phase # "idle"
  /\ cur' = [cur EXCEPT ![c] = [phase |-> "idle", id |-> null]]
  /\ UNCHANGED <<app, toApp, toSrv, begun, extra>>

WebServer ==
  \E c \in Conn :
    \/ \E i \in Id, f \in Flags : Begin(c, i, f)
    \/ Advance(c, "params", "PARAMS_END", "stdin")
    \/ Advance(c, "stdin", "STDIN_END", "sent")
    \/ \E phase \in {"params", "stdin", "sent"} : SendExtra(c, phase, "ABORT", "aborted")
    \/ SendExtra(c, "params", "PARAMS", "params")
    \/ SendExtra(c, "stdin", "STDIN", "stdin")
    \/ SendExtra(c, "params", "OTHER", "params")
    \/ SendForeign(c) \/ Hangup(c)

-----------------------------------------------------------------------------
(* Helpers of the callbacks.                                               *)

(* assert(FALSE), or a NULL pointer followed.                              *)
Crash == crashed' = TRUE /\ UNCHANGED <<_requests, bev, buffers>>

(* bev_drain, bev_disable and bev_close on the values of the variables.    *)
bev_drain(buf, c)   == [buf EXCEPT ![c] = <<>>]
bev_disable(b, c)   == [b EXCEPT ![c].enabled = FALSE]
bev_close(b, c)     == [b EXCEPT ![c].enabled = FALSE, ![c].fd = "closed"]

(* A bug that would be easy to make: the bufferevent keeps its request.    *)
request_put_stale(b, i) ==
  /\ bev' = b
  /\ _requests' = [_requests EXCEPT ![i].bev = null]
  /\ UNCHANGED crashed

(* b is what the caller has made of the bufferevents.                      *)
request_put(b, i) ==
  IF _requests[i].bev = null THEN crashed' = TRUE /\ bev' = b /\ UNCHANGED _requests
  ELSE /\ bev' = [b EXCEPT ![_requests[i].bev].cbarg = null]
       /\ _requests' = [_requests EXCEPT ![i].bev = null]
       /\ UNCHANGED crashed

(* The records of the answer, added to the output of r->bev.               *)
Write(i, types) ==
  output' = [output EXCEPT ![_requests[i].bev] =
               @ \o [k \in DOMAIN types |-> [type |-> types[k], id |-> i]]]

(* A bug that would be easy to make: the request not marked as ended.      *)
request_end_unmarked(i, first) ==
  /\ Write(i, first \o <<"STDOUT_END", "STDERR_END", "END">>)
  /\ UNCHANGED _requests

(* request_write, then request_end.                                        *)
request_end(i, first) ==
  /\ Write(i, first \o <<"STDOUT_END", "STDERR_END", "END">>)
  /\ _requests' = [_requests EXCEPT ![i].terminate = TRUE]

(* A bug that would be easy to make: a refused request not ended.          *)
app_handle_beginrequest_refusing(i) ==
  IF _requests[i].responder THEN request_end(i, <<"STDOUT">>)
  ELSE Write(i, <<"STDERR">>) /\ UNCHANGED _requests

app_handle_beginrequest(i) ==
  request_end(i, IF _requests[i].responder THEN <<"STDOUT">> ELSE <<"STDERR">>)

-----------------------------------------------------------------------------
(* fcgiproto_readcb: the handlers, each for the first record of the input. *)

Drained(c) == input' = [input EXCEPT ![c] = Tail(@)]

process_begin_request(c, r) ==
  /\ r.type = "BEGIN"
  /\ IF _requests[r.id].bev # null THEN Crash
     ELSE /\ _requests' = [_requests EXCEPT ![r.id] =
                             [bev |-> c, keepconn |-> r.keep,
                              responder |-> r.responder, terminate |-> FALSE]]
          /\ bev' = [bev EXCEPT ![c].cbarg = r.id]
          /\ Drained(c)
          /\ UNCHANGED <<output, crashed>>

process_abort_request(c, r) ==
  /\ r.type = "ABORT"
  /\ IF _requests[r.id].bev = null THEN Crash
     ELSE /\ request_put(bev_disable(bev, c), r.id)
          /\ input' = bev_drain(input, c) /\ output' = bev_drain(output, c)

process_params(c, r) ==
  /\ r.type \in {"PARAMS", "PARAMS_END"}
  /\ IF _requests[r.id].bev = null THEN Crash
     ELSE /\ Drained(c)
          /\ IF r.type = "PARAMS" THEN UNCHANGED <<_requests, output>>
             ELSE app_handle_beginrequest(r.id)
          /\ UNCHANGED <<bev, crashed>>

(* A bug that would be easy to make: an answered request taken for an      *)
(* inactive one.                                                           *)
process_stdin_dropping(c, r) ==
  /\ r.type \in {"STDIN", "STDIN_END"}
  /\ IF _requests[r.id].bev = null \/ _requests[r.id].terminate
       THEN input' = bev_drain(input, c) /\ output' = bev_drain(output, c)
       ELSE Drained(c) /\ UNCHANGED output
  /\ UNCHANGED <<_requests, bev, crashed>>

(* "left-over stdin on inactive request is drained and forgotten", with    *)
(* all else that is in the two buffers.  (stdin_eof is never read.)        *)
process_stdin(c, r) ==
  /\ r.type \in {"STDIN", "STDIN_END"}
  /\ IF _requests[r.id].bev = null
       THEN input' = bev_drain(input, c) /\ output' = bev_drain(output, c)
       ELSE Drained(c) /\ UNCHANGED output
  /\ UNCHANGED <<_requests, bev, crashed>>

Unknown(c) == output' = [output EXCEPT ![c] = Append(@, [type |-> "UNKNOWN", id |-> 0])]

(* A bug that would be easy to make: the record left in the input.         *)
process_unknown_undrained(c, r) ==
  /\ r.type = "OTHER" /\ Unknown(c)
  /\ UNCHANGED <<_requests, bev, input, crashed>>

process_unknown(c, r) ==
  /\ r.type = "OTHER" /\ Unknown(c) /\ Drained(c)
  /\ UNCHANGED <<_requests, bev, crashed>>

(* bev_abort, for a peer of another version: nothing is linked to the      *)
(* bufferevent then, so that closing it is all there is to do.             *)
bev_abort(c, r) ==
  /\ r.type = "FOREIGN"
  /\ input' = bev_drain(input, c) /\ output' = bev_drain(output, c)
  /\ bev' = bev_close(bev, c)
  /\ UNCHANGED <<_requests, crashed>>

Process(c) ==
  /\ running = c /\ ~ crashed /\ input[c] # <<>>
  /\ LET r == Head(input[c])
     IN  \/ process_begin_request(c, r) \/ process_abort_request(c, r)
         \/ process_params(c, r) \/ process_stdin(c, r) \/ process_unknown(c, r)
         \/ bev_abort(c, r)
  /\ running' = IF input'[c] = <<>> THEN "loop" ELSE c
  /\ UNCHANGED <<toApp, toSrv, server>>

-----------------------------------------------------------------------------
(* The events of the loop.                                                 *)

server_accept(c) ==
  /\ Loop /\ bev[c].fd = "none"
  /\ bev' = [bev EXCEPT ![c] = [fd |-> "open", enabled |-> TRUE, cbarg |-> null]]
  /\ UNCHANGED <<_requests, buffers, running, crashed, toApp, toSrv, server>>

(* libevent reads what has arrived and calls fcgiproto_readcb.             *)
ReadEvent(c) ==
  /\ Loop /\ bev[c].enabled
  /\ \E k \in 1 .. Len(toApp[c]) :
       /\ input' = [input EXCEPT ![c] = @ \o SubSeq(toApp[c], 1, k)]
       /\ toApp' = [toApp EXCEPT ![c] = SubSeq(@, k + 1, Len(@))]
  /\ running' = c
  /\ UNCHANGED <<_requests, bev, output, crashed, toSrv, server>>

(* Called when the output of c has been sent.                              *)
Terminated(c) == bev[c].cbarg # null /\ _requests[bev[c].cbarg].terminate

fcgiproto_writecb(c) ==
  LET i == bev[c].cbarg
      b == _requests[i].bev
  IN  /\ output' = bev_drain(output, c)
      /\ IF Terminated(c)
           THEN /\ input' = bev_drain(input, b)
                /\ request_put(IF _requests[i].keepconn THEN bev_disable(bev, b)
                               ELSE bev_close(bev, b), i)
           ELSE UNCHANGED <<_requests, bev, input, crashed>>

(* libevent sends what the socket takes; fcgiproto_writecb follows the     *)
(* last of it.                                                             *)
WriteEvent(c) ==
  /\ Loop /\ bev[c].enabled
  /\ \E k \in 1 .. Len(output[c]) :
       /\ Len(toSrv[c]) + k <= NetCap
       /\ toSrv' = [toSrv EXCEPT ![c] = @ \o SubSeq(output[c], 1, k)]
       /\ IF k < Len(output[c])
            THEN /\ output' = [output EXCEPT ![c] = SubSeq(@, k + 1, Len(@))]
                 /\ UNCHANGED <<_requests, bev, input, crashed>>
            ELSE fcgiproto_writecb(c)
  /\ UNCHANGED <<running, toApp, server>>

(* A read or a write of the socket fails.                                  *)
fcgiproto_errorcb(c) ==
  /\ Loop /\ bev[c].enabled
  /\ LET i == bev[c].cbarg
     IN  IF i = null THEN bev' = bev_close(bev, c) /\ UNCHANGED <<_requests, crashed>>
         ELSE request_put(bev_close(bev, c), i)
  /\ UNCHANGED <<buffers, running, toApp, toSrv, server>>

Event(c) == \/ server_accept(c) \/ ReadEvent(c) \/ Process(c) \/ WriteEvent(c)

Next == \/ WebServer
        \/ \E c \in Conn : Event(c) \/ fcgiproto_errorcb(c) \/ Receive(c)

Spec == Init /\ [][Next]_vars

(* The event loop takes every event in the end, the web server reads.      *)
FairSpec == Spec /\ \A c \in Conn : WF_vars(Event(c)) /\ WF_vars(Receive(c))

-----------------------------------------------------------------------------
Phase == {"idle", "params", "stdin", "sent", "aborted", "foreign"}

(* Every variable has its type; the output holds no more than one answer   *)
(* and an UNKNOWN_TYPE for every other record.                             *)
TypeOK ==
  /\ _requests \in [Id -> [bev : Conn \cup {null}, keepconn : BOOLEAN,
                           responder : BOOLEAN, terminate : BOOLEAN]]
  /\ bev \in [Conn -> [fd : {"none", "open", "closed"}, enabled : BOOLEAN,
                       cbarg : Id \cup {null}]]
  /\ running \in Conn \cup {"loop"} /\ crashed \in BOOLEAN
  /\ cur \in [Conn -> [phase : Phase, id : Id \cup {null}]]
  /\ begun \in [Conn -> 0 .. MaxBegin] /\ extra \in 0 .. MaxExtra
  /\ \A c \in Conn : /\ Len(input[c]) <= NetCap /\ Len(output[c]) <= 4 + MaxExtra
                     /\ Len(toApp[c]) <= NetCap /\ Len(toSrv[c]) <= NetCap

(* The assertions of the handlers hold: a request that begins is not       *)
(* active, "assert(r->bev == NULL)" (test1.c:277), one that goes on is,    *)
(* "assert(r->bev != NULL)" (295, 310, 370), and no callback puts back a   *)
(* request that was put back before.                                       *)
AssertionsHold == ~ crashed

(* The table of requests and the bufferevents point at each other, and     *)
(* only at what is still in use, whatever ended the last request: an       *)
(* answer, an abort or an error (test1.c:200-204, 279-285).                *)
Linked ==
  /\ \A i \in Id : _requests[i].bev # null =>
       LET b == bev[_requests[i].bev] IN b.cbarg = i /\ b.enabled /\ b.fd = "open"
  /\ \A c \in Conn : bev[c].cbarg # null => _requests[bev[c].cbarg].bev = c

(* A request the web server still waits for, on a connection that has not  *)
(* failed, is not forgotten: its beginning is not read yet, or END_REQUEST *)
(* is on its way, or it is in the table together with what will end it,    *)
(* the end of its parameters or the END_REQUEST in the output buffer       *)
(* (bev_drain, test1.c:156-159, drops both buffers at once).               *)
In(s, type)  == \E j \in DOMAIN s : s[j].type = type
Unread(c, type) == In(toApp[c], type) \/ In(input[c], type)
Failed(c) == bev[c].fd = "closed" /\ ~ In(toSrv[c], "END")
NotForgotten ==
  \A c \in Conn : cur[c].phase \in {"stdin", "sent"} =>
    \/ Unread(c, "BEGIN") \/ In(toSrv[c], "END") \/ Failed(c)
    \/ /\ _requests[cur[c].id].bev = c
       /\ Unread(c, "PARAMS_END") \/ In(output[c], "END")

(* The first request of a connection is answered once its parameters are   *)
(* sent, unless it is aborted or its connection fails.                     *)
Served ==
  \A c \in Conn :
    (begun[c] = 1 /\ cur[c].phase \in {"stdin", "sent"}) ~>
      (cur[c].phase \in {"idle", "aborted"} \/ begun[c] > 1 \/ Failed(c))
=============================================================================
