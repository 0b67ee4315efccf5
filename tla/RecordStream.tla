---------------------------- MODULE RecordStream ----------------------------
(***************************************************************************)
(* What the framing loop of fcgiev_process promises: the handlers receive  *)
(* exactly the records the web server sent, whole, in order, each once.    *)
(***************************************************************************)
EXTENDS Integers, Sequences

CONSTANTS Record,     (* the records a web server may send                 *)
          MaxRecords  (* bound on the records of one connection            *)

VARIABLES stream,     (* the records sent                                  *)
          delivered   (* the records handed to a handler                   *)

Init == stream = <<>> /\ delivered = <<>>

Submit(r) == /\ Len(stream) < MaxRecords
             /\ stream' = Append(stream, r)
             /\ UNCHANGED delivered

Deliver == /\ Len(delivered) < Len(stream)
           /\ delivered' = Append(delivered, stream[Len(delivered) + 1])
           /\ UNCHANGED stream

Next == (\E r \in Record : Submit(r)) \/ Deliver

Spec == Init /\ [][Next]_<<stream, delivered>>
=============================================================================
