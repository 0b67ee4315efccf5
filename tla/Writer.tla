------------------------------- MODULE Writer -------------------------------
(***************************************************************************)
(* How fcgiev_process sends: the calls of _write that answer one request   *)
(* (request_handle, request_write and request_end), each with its loop     *)
(* around send (src/__init__.c:128-166, 193-270).                          *)
(*                                                                         *)
(* <<m, j>> is byte j of what call m is asked to send.  The web server     *)
(* reads at its own pace, so that the socket's send buffer is at times     *)
(* full and at times has room for a part only; even with room for all of   *)
(* it, send may take a part.                                               *)
(***************************************************************************)
EXTENDS Integers, Sequences

CONSTANTS
  Lens,    (* what each call is asked to send, in bytes: a header, the     *)
           (* output, the header that ends it, END_REQUEST                 *)
  SndCap,  (* capacity of the socket's send buffer                         *)
  Faults   (* whether send or the trampoline may fail                      *)

ASSUME WriterAssumption ==
  Lens \in Seq(Nat \ {0}) /\ SndCap \in Nat \ {0} /\ Faults \in BOOLEAN

VARIABLES
  m,       (* the current call                                             *)
  length,  (* what it has left to send, the variable of _write             *)
  pc,      (* between calls, at send, in the trampoline, at the end        *)
  out,     (* history: every byte send has taken                           *)
  starts,  (* history: where in out each call began                        *)
  split,   (* history: the calls of which a send took only a part          *)
  got      (* how many of those bytes the web server has read              *)

vars == <<m, length, pc, out, starts, split, got>>

Message(k) == [j \in 1 .. Lens[k] |-> <<k, j>>]

Room == SndCap - (Len(out) - got)

Init == /\ m = 0 /\ length = 0 /\ pc = "next"
        /\ out = <<>> /\ starts = <<>> /\ split = {} /\ got = 0

(* The next call, or the end of request_handle.                            *)
Call == /\ pc = "next" /\ m < Len(Lens)
        /\ m' = m + 1 /\ length' = Lens[m + 1] /\ pc' = "send"
        /\ starts' = Append(starts, Len(out) + 1)
        /\ UNCHANGED <<out, split, got>>

Return == /\ pc = "next" /\ m = Len(Lens)
          /\ pc' = "returned"
          /\ UNCHANGED <<m, length, out, starts, split, got>>

(* How many bytes send takes; none is EAGAIN.                              *)
Taken == {k \in 1 .. length : k <= Room}

SplitBy(k) == IF k < length THEN split \cup {m} ELSE split

(* Bugs that would be easy to make: the last byte not waited for; one more *)
(* turn of the loop than there are bytes.                                  *)
SendShort == /\ pc = "send"
             /\ \E k \in Taken :
                  /\ out' = out \o SubSeq(Message(m), 1, k)
                  /\ length' = length - k
                  /\ split' = SplitBy(k)
                  /\ pc' = IF length' <= 1 THEN "next" ELSE "send"
             /\ UNCHANGED <<m, starts, got>>

SendForEver == /\ pc = "send"
               /\ \E k \in Taken :
                    /\ out' = out \o SubSeq(Message(m), 1, k)
                    /\ length' = length - k
                    /\ split' = SplitBy(k)
                    /\ pc' = IF length' < 0 THEN "next" ELSE "send"
               /\ UNCHANGED <<m, starts, got>>

(* send is given the start of the message, whatever was sent of it before. *)
Send == /\ pc = "send"
        /\ \E k \in Taken :
             /\ out' = out \o SubSeq(Message(m), 1, k)
             /\ length' = length - k
             /\ split' = SplitBy(k)
             /\ pc' = IF length' <= 0 THEN "next" ELSE "send"
        /\ UNCHANGED <<m, starts, got>>

(* A bug that would be easy to make: -1 taken for a number of bytes.       *)
AgainCounted == /\ pc = "send" /\ Taken = {}
                /\ pc' = "wait" /\ length' = length + 1
                /\ UNCHANGED <<m, out, starts, split, got>>

Again == /\ pc = "send" /\ Taken = {}
         /\ pc' = "wait"
         /\ UNCHANGED <<m, length, out, starts, split, got>>

(* The trampoline returns when the socket is writable.                     *)
Resume == /\ pc = "wait" /\ Room > 0
          /\ pc' = "send"
          /\ UNCHANGED <<m, length, out, starts, split, got>>

(* -1: the callers return 0 one after the other, nothing more is sent.     *)
Fail == /\ Faults /\ pc \in {"send", "wait"}
        /\ pc' = "failed"
        /\ UNCHANGED <<m, length, out, starts, split, got>>

Receive(k) == /\ k <= Len(out) - got
              /\ got' = got + k
              /\ UNCHANGED <<m, length, pc, out, starts, split>>

Thread == Call \/ Return \/ Send \/ Again \/ Resume

Reads == \E k \in 1 .. (Len(out) - got) : Receive(k)

Ended == pc \in {"returned", "failed"} /\ UNCHANGED vars

Next == Thread \/ Fail \/ Reads \/ Ended

Spec == Init /\ [][Next]_vars

(* The hub resumes the greenthread, the web server reads what was sent.    *)
FairSpec == Spec /\ WF_vars(Thread) /\ WF_vars(Reads)

-----------------------------------------------------------------------------
(* Every variable has its type; in particular length does not go below     *)
(* zero, and send is never asked for more than the call was.               *)
TypeOK ==
  /\ m \in 0 .. Len(Lens) /\ length \in 0 .. (IF m = 0 THEN 0 ELSE Lens[m])
  /\ pc \in {"next", "send", "wait", "returned", "failed"}
  /\ out \in Seq(Nat \X Nat) /\ starts \in Seq(Nat) /\ Len(starts) = m
  /\ split \subseteq 1 .. m
  /\ got \in 0 .. Len(out) /\ Room \in 0 .. SndCap

(* Byte j of call k, once something is in its place.                       *)
InPlace(k, j) ==
  starts[k] + j - 1 <= Len(out) =>
    /\ out[starts[k] + j - 1] \in {k} \X (1 .. j)
    /\ k \notin split => out[starts[k] + j - 1] = <<k, j>>

(* However send splits the messages, each call puts as many bytes on the   *)
(* wire as it was asked to, in the place behind the call before it.  What  *)
(* is sent in one piece, be it after any number of EAGAINs and after split *)
(* messages, arrives whole in its place.  Of a message that was split only *)
(* the places are right: from the second send on its start is there again, *)
(* so that a header, once split, no longer shows its content length.       *)
BytesInPlace ==
  /\ m > 0 => Len(out) = starts[m] + Lens[m] - length - 1
  /\ \A k \in 1 .. (m - 1) : starts[k + 1] = starts[k] + Lens[k]
  /\ \A k \in 1 .. m : \A j \in 1 .. Lens[k] : InPlace(k, j)

(* Inductive: a call is over exactly when nothing is left of it, so that   *)
(* the next one begins where it ended; where a call before the current one *)
(* began is on the wire already, so that it no longer changes; and what    *)
(* was not split was not begun, until it is sent.                          *)
Inv ==
  /\ TypeOK /\ BytesInPlace
  /\ pc \in {"send", "wait"} => m > 0 /\ length > 0
  /\ pc \in {"send", "wait"} /\ m \notin split => length = Lens[m]
  /\ pc = "next" => length = 0
  /\ \A k \in 1 .. m : starts[k] >= 1
  /\ \A k \in 1 .. (m - 1) : starts[k] <= Len(out)

(* While the web server reads, the handler does not stay in _write.        *)
HandlerReturns == <>(pc \in {"returned", "failed"})

(* "send end request" (__init__.c:203): when the handler returns, the last *)
(* message sent is the END_REQUEST.                                        *)
EndRequestSent ==
  pc = "returned" =>
    SubSeq(out, starts[Len(Lens)], Len(out)) = Message(Len(Lens))
=============================================================================
