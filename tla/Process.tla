------------------------------ MODULE Process ------------------------------
(***************************************************************************)
(* fcgiev_process at the level of FastCGI records: one greenthread per     *)
(* connection, the handlers it dispatches to, and the counters all         *)
(* connections share (src/__init__.c:12-16, 170-606), together with the    *)
(* web server at the other end.                                            *)
(*                                                                         *)
(* Records arrive whole and in order (module Reader says when) and are     *)
(* sent whole (module Writer says when).  A greenthread runs until _read   *)
(* finds nothing to read or _write finds no room to write; only then does  *)
(* the trampoline let the hub run another one.                             *)
(***************************************************************************)
EXTENDS Integers, Sequences, FiniteSets

CONSTANTS
  Conn,      (* the connections, one greenthread each                      *)
  Id,        (* request ids                                                *)
  Key,       (* names of FastCGI parameters                                *)
  Keep,      (* the values of FLAG_KEEP_CONN the web server uses           *)
  Mpx,       (* whether it runs several requests at once on a connection   *)
  Reuse,     (* whether it uses an id again on the same connection         *)
  Roles,     (* whether the role asked for is RESPONDER: {TRUE} or BOOLEAN *)
  Abort,     (* the phases of a request in which it may abort it           *)
  Faults,    (* whether recv, send and the trampoline may fail             *)
  MaxBegin,  (* bound on the requests of a connection                      *)
  MaxExtra,  (* bound on its STDIN data and management records             *)
  InCap,     (* records the socket holds towards the greenthread           *)
  OutCap,    (* records the socket holds towards the web server            *)
  W          (* the counters are integers modulo W, 2^16 in the code       *)

Phase == {"idle", "params", "stdin", "sent", "aborted"}

ASSUME ProcessAssumption ==
  /\ Keep \subseteq BOOLEAN /\ Mpx \in BOOLEAN /\ Reuse \in BOOLEAN
  /\ Roles \subseteq BOOLEAN /\ Faults \in BOOLEAN
  /\ Abort \subseteq {"params", "stdin", "sent"}
  /\ MaxBegin \in Nat /\ MaxExtra \in Nat
  /\ InCap \in Nat \ {0} /\ OutCap \in Nat \ {0} /\ W \in Nat \ {0}
  /\ "hub" \notin Conn

VARIABLES
  (* the greenthreads *)
  running,          (* the connection whose greenthread runs, or "hub"     *)
  pc,               (* whether fcgiev_process is in its loop, closed the   *)
                    (* connection, or returned the error of a refused role *)
                    (* or another one                                      *)
  todo,             (* what is left of the handler: writes and effects     *)
  keep_connection, should_disconnect,
  params,           (* requests[id]->params: Key -> request that set it    *)
  concurrency, concurrency_max,
  (* the connections *)
  inq,              (* records the greenthread has not read yet            *)
  outq,             (* records the web server has not received yet         *)
  (* the web server *)
  req,              (* its requests, by connection and id                  *)
  begun, extra,     (* records sent so far                                 *)
  last              (* it begun a request without FLAG_KEEP_CONN           *)

thread == <<pc, todo, keep_connection, should_disconnect, params>>
counts == <<concurrency, concurrency_max>>
client == <<req, begun, extra, last>>
vars   == <<running, thread, counts, inq, outq, client>>

Idle == [phase |-> "idle", awaiting |-> FALSE, responder |-> TRUE, serial |-> 0, keys |-> {}]

Init ==
  /\ running = "hub"
  /\ pc = [c \in Conn |-> "loop"]
  /\ todo = [c \in Conn |-> <<>>]
  /\ keep_connection = [c \in Conn |-> FALSE]
  /\ should_disconnect = [c \in Conn |-> FALSE]
  /\ params = [c \in Conn |-> [i \in Id |-> [k \in Key |-> 0]]]
  /\ concurrency = 0 /\ concurrency_max = 0
  /\ inq = [c \in Conn |-> <<>>] /\ outq = [c \in Conn |-> <<>>]
  /\ req = [c \in Conn |-> [i \in Id |-> Idle]]
  /\ begun = [c \in Conn |-> 0] /\ extra = [c \in Conn |-> 0]
  /\ last = [c \in Conn |-> FALSE]

-----------------------------------------------------------------------------
(* The web server.                                                         *)

Send(c, r) == /\ pc[c] = "loop" /\ Len(inq[c]) < InCap
              /\ inq' = [inq EXCEPT ![c] = Append(@, r)]

Same == UNCHANGED <<running, thread, counts, outq>>

(* A new request, under an id that is free.                                *)
BeginRequest(c, i, keep, responder) ==
  /\ req[c][i].phase = "idle" /\ begun[c] < MaxBegin /\ ~ last[c]
  /\ Mpx \/ \A j \in Id : req[c][j].phase = "idle"
  /\ Reuse \/ req[c][i].serial = 0
  /\ Send(c, [type |-> "BEGIN", id |-> i, keep |-> keep, responder |-> responder])
  /\ begun' = [begun EXCEPT ![c] = @ + 1]
  /\ last' = [last EXCEPT ![c] = ~ keep]
  /\ req' = [req EXCEPT ![c][i] =
               [phase |-> "params", awaiting |-> TRUE, responder |-> responder,
                serial |-> begun'[c], keys |-> {}]]
  /\ Same /\ UNCHANGED extra

SendParams(c, i, k) ==
  /\ req[c][i].phase = "params" /\ k \notin req[c][i].keys
  /\ Send(c, [type |-> "PARAMS", id |-> i, key |-> k, value |-> req[c][i].serial])
  /\ req' = [req EXCEPT ![c][i].keys = @ \cup {k}]
  /\ Same /\ UNCHANGED <<begun, extra, last>>

EndParams(c, i) ==
  /\ req[c][i].phase = "params"
  /\ Send(c, [type |-> "PARAMS_END", id |-> i])
  /\ req' = [req EXCEPT ![c][i].phase = "stdin"]
  /\ Same /\ UNCHANGED <<begun, extra, last>>

(* The id is free again when the request is both sent and answered.        *)
EndStdin(c, i) ==
  /\ req[c][i].phase = "stdin"
  /\ Send(c, [type |-> "STDIN_END", id |-> i])
  /\ req' = [req EXCEPT ![c][i].phase = IF req[c][i].awaiting THEN "sent" ELSE "idle"]
  /\ Same /\ UNCHANGED <<begun, extra, last>>

AbortRequest(c, i) ==
  /\ req[c][i].phase \in Abort /\ req[c][i].awaiting
  /\ Send(c, [type |-> "ABORT", id |-> i])
  /\ req' = [req EXCEPT ![c][i].phase = "aborted"]
  /\ Same /\ UNCHANGED <<begun, extra, last>>

(* A web server that aborts a request only while it sends its parameters   *)
(* is sure that it is not answered yet.  An abort that crosses the answer  *)
(* is answered again, with a second END_REQUEST (__init__.c:328), and the  *)
(* request is counted out twice.                                           *)
Early == Abort \subseteq {"params"}

(* STDIN data, or a record of a type the program does not know.            *)
SendExtra(c, r) ==
  /\ extra[c] < MaxExtra
  /\ r.type = "STDIN" => req[c][r.id].phase = "stdin"
  /\ Send(c, r)
  /\ extra' = [extra EXCEPT ![c] = @ + 1]
  /\ Same /\ UNCHANGED <<req, begun, last>>

Extras == [type : {"STDIN"}, id : Id] \cup [type : {"OTHER"}, id : {0}]

(* A request that gets its END_REQUEST.                                    *)
Finished(q) == [q EXCEPT !.awaiting = FALSE,
                      !.phase = IF q.phase \in {"sent", "aborted"} THEN "idle" ELSE q.phase]

Receive(c) ==
  /\ outq[c] # <<>>
  /\ outq' = [outq EXCEPT ![c] = Tail(@)]
  /\ LET r == Head(outq[c])
     IN  req' = IF r.type # "END" THEN req ELSE [req EXCEPT ![c][r.id] = Finished(req[c][r.id])]
  /\ UNCHANGED <<running, thread, counts, inq, begun, extra, last>>

WebServer ==
  \E c \in Conn :
    \/ \E i \in Id :
         \/ \E keep \in Keep, responder \in Roles : BeginRequest(c, i, keep, responder)
         \/ \E k \in Key : SendParams(c, i, k)
         \/ EndParams(c, i) \/ EndStdin(c, i) \/ AbortRequest(c, i)
    \/ \E r \in Extras : SendExtra(c, r)

-----------------------------------------------------------------------------
(* The hub: the trampoline returns when the socket is readable or writable.*)

Writes(c)  == todo[c] # <<>> /\ Head(todo[c]).op \in {"write", "try"}
Reads(c)   == todo[c] = <<>> /\ ~ should_disconnect[c]
Blocked(c) == \/ Reads(c) /\ inq[c] = <<>>
              \/ Writes(c) /\ Len(outq[c]) = OutCap

(* A bug that would be easy to make: the trampoline's arguments for        *)
(* reading given where the greenthread waits to write.                     *)
ResumeReadable(c) == /\ running = "hub" /\ pc[c] = "loop" /\ ~ Blocked(c)
                     /\ should_disconnect[c] \/ inq[c] # <<>>
                     /\ running' = c
                     /\ UNCHANGED <<thread, counts, inq, outq, client>>

Resume(c) == /\ running = "hub" /\ pc[c] = "loop" /\ ~ Blocked(c)
             /\ running' = c
             /\ UNCHANGED <<thread, counts, inq, outq, client>>

(* A bug that would be easy to make: a read that blocks the process, not   *)
(* the greenthread.                                                        *)
YieldWriting(c) == /\ running = c /\ Blocked(c) /\ Writes(c)
                   /\ running' = "hub"
                   /\ UNCHANGED <<thread, counts, inq, outq, client>>

Yield(c) == /\ running = c /\ Blocked(c)
            /\ running' = "hub"
            /\ UNCHANGED <<thread, counts, inq, outq, client>>

-----------------------------------------------------------------------------
(* The handlers: each is the part up to its first _write, and the rest as  *)
(* a list of writes and effects.                                           *)

Write(type, i)   == [op |-> "write", type |-> type, id |-> i]
Attempt(type, i) == [op |-> "try", type |-> type, id |-> i]
Do(op)           == [op |-> op]

(* Bugs that would be easy to make: the end of the request before the end  *)
(* of its output; the request counted out before it is answered.           *)
request_end_swapped(i) ==
  <<Write("END", i), Write("STDOUT_END", i), Do("decrement")>>
request_end_early(i) ==
  <<Do("decrement"), Write("STDOUT_END", i), Write("END", i)>>

request_end(i) == <<Write("STDOUT_END", i), Write("END", i), Do("decrement")>>

request_handle(i) == <<Write("STDOUT", i)>> \o request_end(i)

(* Head of the handler for the record r, just read.                        *)
Handle(c, r, rest) ==
  /\ inq' = [inq EXCEPT ![c] = Tail(@)]
  /\ r = Head(inq[c])
  /\ todo' = [todo EXCEPT ![c] = rest]
  /\ UNCHANGED <<running, pc, outq, client>>

process_begin_request(c, r) ==
  /\ r.type = "BEGIN"
  /\ keep_connection' = [keep_connection EXCEPT ![c] = r.keep]
  /\ IF r.responder
       THEN /\ Handle(c, r, <<>>)
            /\ concurrency' = (concurrency + 1) % W
            /\ concurrency_max' = IF concurrency_max < concurrency'
                                    THEN concurrency' ELSE concurrency_max
       ELSE /\ Handle(c, r, <<Attempt("STDERR", r.id)>> \o request_end(r.id) \o <<Do("fail")>>)
            /\ UNCHANGED counts
  /\ UNCHANGED <<should_disconnect, params>>

(* Bugs that would be easy to make: an abort that only disconnects when    *)
(* the connection is not kept, or only answers.                            *)
process_abort_request_silent(c, r) ==
  /\ r.type = "ABORT"
  /\ Handle(c, r, IF keep_connection[c] THEN request_end(r.id) ELSE <<Do("disconnect")>>)
  /\ UNCHANGED <<keep_connection, should_disconnect, params, counts>>

process_abort_request_staying(c, r) ==
  /\ r.type = "ABORT"
  /\ Handle(c, r, request_end(r.id))
  /\ UNCHANGED <<keep_connection, should_disconnect, params, counts>>

process_abort_request(c, r) ==
  /\ r.type = "ABORT"
  /\ Handle(c, r, request_end(r.id) \o <<Do("disconnect")>>)
  /\ UNCHANGED <<keep_connection, should_disconnect, params, counts>>

(* Bugs that would be easy to make: the first value of a parameter kept;   *)
(* the parameters of all requests in one dictionary.                       *)
process_params_first(c, r) ==
  \/ /\ r.type = "PARAMS_END"
     /\ Handle(c, r, request_handle(r.id))
     /\ UNCHANGED <<keep_connection, should_disconnect, params, counts>>
  \/ /\ r.type = "PARAMS"
     /\ Handle(c, r, <<>>)
     /\ params' = [params EXCEPT ![c][r.id][r.key] = IF @ = 0 THEN r.value ELSE @]
     /\ UNCHANGED <<keep_connection, should_disconnect, counts>>

process_params_shared(c, r) ==
  \/ /\ r.type = "PARAMS_END"
     /\ Handle(c, r, request_handle(r.id))
     /\ UNCHANGED <<keep_connection, should_disconnect, params, counts>>
  \/ /\ r.type = "PARAMS"
     /\ Handle(c, r, <<>>)
     /\ params' = [params EXCEPT ![c] =
                     [i \in Id |-> [@[i] EXCEPT ![r.key] = r.value]]]
     /\ UNCHANGED <<keep_connection, should_disconnect, counts>>

process_params(c, r) ==
  \/ /\ r.type = "PARAMS_END"
     /\ Handle(c, r, request_handle(r.id))
     /\ UNCHANGED <<keep_connection, should_disconnect, params, counts>>
  \/ /\ r.type = "PARAMS"
     /\ Handle(c, r, <<>>)
     /\ params' = [params EXCEPT ![c][r.id][r.key] = r.value]
     /\ UNCHANGED <<keep_connection, should_disconnect, counts>>

(* A bug that would be easy to make, __init__.c:419 left in: the request   *)
(* handled at the end of STDIN as well.                                    *)
process_stdin_handling(c, r) ==
  /\ r.type \in {"STDIN", "STDIN_END"}
  /\ Handle(c, r, IF r.type = "STDIN_END"
                    THEN <<Do("disconnect")>> \o request_handle(r.id) ELSE <<>>)
  /\ UNCHANGED <<keep_connection, should_disconnect, params, counts>>

process_stdin(c, r) ==
  /\ r.type \in {"STDIN", "STDIN_END"}
  /\ Handle(c, r, IF r.type = "STDIN_END" THEN <<Do("disconnect")>> ELSE <<>>)
  /\ UNCHANGED <<keep_connection, should_disconnect, params, counts>>

process_unknown(c, r) ==
  /\ r.type = "OTHER"
  /\ Handle(c, r, <<Write("UNKNOWN", 0)>>)
  /\ UNCHANGED <<keep_connection, should_disconnect, params, counts>>

Dispatch(c) ==
  /\ running = c /\ Reads(c) /\ inq[c] # <<>>
  /\ LET r == Head(inq[c])
     IN  \/ process_begin_request(c, r) \/ process_abort_request(c, r)
         \/ process_params(c, r) \/ process_stdin(c, r) \/ process_unknown(c, r)

-----------------------------------------------------------------------------
(* The rest of a handler.                                                  *)

(* A bug that would be easy to make: EAGAIN taken for success.             *)
_write_unchecked(c) ==
  /\ running = c /\ Writes(c)
  /\ LET s == Head(todo[c])
     IN  outq' = [outq EXCEPT ![c] = Append(@, [type |-> s.type, id |-> s.id])]
  /\ todo' = [todo EXCEPT ![c] = Tail(@)]
  /\ UNCHANGED <<running, pc, keep_connection, should_disconnect, params, counts, inq, client>>

_write(c) ==
  /\ running = c /\ Writes(c) /\ Len(outq[c]) < OutCap
  /\ LET s == Head(todo[c])
     IN  outq' = [outq EXCEPT ![c] = Append(@, [type |-> s.type, id |-> s.id])]
  /\ todo' = [todo EXCEPT ![c] = Tail(@)]
  /\ UNCHANGED <<running, pc, keep_connection, should_disconnect, params, counts, inq, client>>

Effect(c, op) == /\ running = c /\ todo[c] # <<>> /\ Head(todo[c]).op = op
                 /\ todo' = [todo EXCEPT ![c] = Tail(@)]

Decrement(c) ==
  /\ Effect(c, "decrement")
  /\ concurrency' = (concurrency - 1) % W
  /\ UNCHANGED <<running, pc, keep_connection, should_disconnect, params,
                 concurrency_max, inq, outq, client>>

Disconnect(c) ==
  /\ Effect(c, "disconnect")
  /\ should_disconnect' = [should_disconnect EXCEPT ![c] = @ \/ ~ keep_connection[c]]
  /\ UNCHANGED <<running, pc, keep_connection, params, counts, inq, outq, client>>

(* goto returnnow: the exception goes to the caller, the descriptor stays  *)
(* open, what was counted stays counted.                                   *)
Error(c, why) ==
  /\ pc' = [pc EXCEPT ![c] = why]
  /\ todo' = [todo EXCEPT ![c] = <<>>]
  /\ running' = "hub"
  /\ UNCHANGED <<keep_connection, should_disconnect, params, counts, inq, outq, client>>

FailRole(c) == running = c /\ todo[c] # <<>> /\ Head(todo[c]).op = "fail" /\ Error(c, "refused")

(* ioctl, recv or send fails, or the trampoline raises instead of resuming *)
(* the greenthread.                                                        *)
CanFail(c) == Faults /\ running \in {c, "hub"} /\ pc[c] = "loop"

ReadFails(c) == CanFail(c) /\ Reads(c) /\ Error(c, "error")

(* The result of writing the STDERR text of a refused role is ignored; any *)
(* other write that fails ends the connection.                             *)
WriteFails(c) ==
  /\ CanFail(c) /\ Writes(c)
  /\ \/ Head(todo[c]).op = "write" /\ Error(c, "error")
     \/ /\ Head(todo[c]).op = "try"
        /\ running' = c
        /\ todo' = [todo EXCEPT ![c] = Tail(@)]
        /\ UNCHANGED <<pc, keep_connection, should_disconnect, params,
                       counts, inq, outq, client>>

(* The loop ends: close(ctx->fd).                                          *)
CloseConnection(c) ==
  /\ running = c /\ todo[c] = <<>> /\ should_disconnect[c]
  /\ pc' = [pc EXCEPT ![c] = "closed"]
  /\ running' = "hub"
  /\ UNCHANGED <<todo, keep_connection, should_disconnect, params, counts, inq, outq, client>>

Thread(c) == \/ Resume(c) \/ Yield(c) \/ Dispatch(c) \/ _write(c)
             \/ Decrement(c) \/ Disconnect(c) \/ FailRole(c) \/ CloseConnection(c)

-----------------------------------------------------------------------------
(* Nothing is left to do: every request on every connection still in use   *)
(* is over.  Anything else that stops is a deadlock.                       *)
AllOver == /\ \A c \in Conn : pc[c] = "loop" => \A i \in Id : req[c][i].phase = "idle"
           /\ UNCHANGED vars

Next == \/ WebServer
        \/ \E c \in Conn : Thread(c) \/ ReadFails(c) \/ WriteFails(c) \/ Receive(c)
        \/ AllOver

Spec == Init /\ [][Next]_vars

(* The hub resumes every greenthread it can, the web server reads what it  *)
(* is sent; it need not send anything.                                     *)
FairSpec == Spec /\ \A c \in Conn : WF_vars(Thread(c)) /\ WF_vars(Receive(c))

-----------------------------------------------------------------------------
(* Every variable has its type. *)
TypeOK ==
  /\ running \in Conn \cup {"hub"}
  /\ pc \in [Conn -> {"loop", "closed", "refused", "error"}]
  /\ \A c \in Conn : \A j \in DOMAIN todo[c] :
       todo[c][j].op \in {"write", "try", "decrement", "disconnect", "fail"}
  /\ keep_connection \in [Conn -> BOOLEAN] /\ should_disconnect \in [Conn -> BOOLEAN]
  /\ params \in [Conn -> [Id -> [Key -> 0 .. MaxBegin]]]
  /\ concurrency \in 0 .. (W - 1) /\ concurrency_max \in 0 .. (W - 1)
  /\ \A c \in Conn : Len(inq[c]) <= InCap /\ Len(outq[c]) <= OutCap
  /\ req \in [Conn -> [Id -> [phase : Phase, awaiting : BOOLEAN,
                              responder : BOOLEAN, serial : 0 .. MaxBegin, keys : SUBSET Key]]]
  /\ begun \in [Conn -> 0 .. MaxBegin] /\ extra \in [Conn -> 0 .. MaxExtra]
  /\ last \in [Conn -> BOOLEAN]

(* Records in transit. *)
Unread(c, type, i) == \E j \in DOMAIN inq[c] : inq[c][j].type = type /\ inq[c][j].id = i
Sent(c, type, i)   == \E j \in DOMAIN outq[c] : outq[c][j].type = type /\ outq[c][j].id = i

(* The request whose answer is about to be written. *)
Handling(c, i) == todo[c] # <<>> /\ Head(todo[c]) = Write("STDOUT", i)

(* Whenever the hub runs, the counter all connections share is exact, with *)
(* both of its peculiarities (__init__.c:213, 285-293, 592): a request that *)
(* is begun counts until it is ended, those whose writes wait for room and *)
(* those a failed connection left open included; and a refused request,    *)
(* which is never counted in, is counted out before it ends its connection.*)
(* (Not so when an abort crosses the answer: see Early.)                   *)
Open    == {x \in Conn \X Id : LET q == req[x[1]][x[2]]
                               IN  /\ q.responder /\ q.awaiting
                                   /\ ~ Unread(x[1], "BEGIN", x[2])
                                   /\ ~ Sent(x[1], "END", x[2])}
Refused == {c \in Conn : pc[c] = "refused"}
CountExact == running = "hub" =>
                concurrency = (Cardinality(Open) - Cardinality(Refused)) % W

(* The program implements the service: each request the web server begins  *)
(* gets one END_REQUEST, and no END_REQUEST comes for any other, as long   *)
(* as the web server aborts early (see Early).                             *)
Requests == INSTANCE Service WITH
  st <- [c \in Conn |-> [i \in Id |->
           IF Sent(c, "END", i) THEN "answered"
           ELSE IF req[c][i].awaiting THEN "asked" ELSE "idle"]]
ServiceSpec == Requests!Spec

(* The order of what is sent: the record that ends the output of a request *)
(* and its END_REQUEST come one behind the other, whatever the connections *)
(* and requests; and, if the web server aborts early, there is no output   *)
(* of a request after the end of its stream, and nothing at all after its  *)
(* END_REQUEST, which the web server must see before the id can come back. *)
(* (STDERR, which only the refusal of a role is written to, is not ended:  *)
(* request_end does it for stdout only, __init__.c:197-200.)               *)
OutputInOrder ==
  \A c \in Conn :
    /\ \A a \in DOMAIN outq[c] \ {1} :
         outq[c][a].type = "END" \/ outq[c][a - 1].type = "STDOUT_END" =>
           /\ outq[c][a].type = "END" /\ outq[c][a - 1].type = "STDOUT_END"
           /\ outq[c][a].id = outq[c][a - 1].id
    /\ Early => \A a, b \in DOMAIN outq[c] :
         (a < b /\ outq[c][a].id = outq[c][b].id /\ outq[c][b].id # 0) =>
           /\ outq[c][a].type # "END"
           /\ outq[c][a].type = "STDOUT_END" => outq[c][b].type = "END"

(* A request is handled with the values it sent for its own parameters,    *)
(* not with those another request or an earlier one sent for them.         *)
ParamsCurrent ==
  \A c \in Conn, i \in Id : Handling(c, i) =>
    \A k \in req[c][i].keys : params[c][i][k] = req[c][i].serial

(* The connection is not closed under a request the program has read and   *)
(* not answered (__init__.c:330, 417, 585).                                *)
ClosedWhenAnswered ==
  \A c \in Conn, i \in Id :
    pc[c] = "closed" /\ req[c][i].awaiting =>
      Sent(c, "END", i) \/ Unread(c, "BEGIN", i)

(* Once its parameters are sent, a request is answered, whatever the other *)
(* connections do, unless its own connection fails or is closed.           *)
Answered ==
  \A c \in Conn, i \in Id :
    (req[c][i].phase \in {"stdin", "sent"} /\ req[c][i].awaiting) ~>
      (~ req[c][i].awaiting \/ pc[c] # "loop")

(* A connection the web server does not want kept is closed once it has    *)
(* sent, or aborted, the request it carries.                               *)
ConnectionCloses ==
  \A c \in Conn :
    (last[c] /\ \A i \in Id : req[c][i].phase \in {"idle", "sent", "aborted"}) ~>
      pc[c] # "loop"

(* The parameters a request is handled with are the ones it sent, no more: *)
(* the request object is new, or it was restored with request_put,         *)
(* "restore a request object" (__init__.c:185-190).                        *)
ParamsFresh ==
  \A c \in Conn, i \in Id : Handling(c, i) =>
    params[c][i] = [k \in Key |-> IF k \in req[c][i].keys THEN req[c][i].serial ELSE 0]
=============================================================================
