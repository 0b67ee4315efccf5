----------------------------- MODULE MCProcess -----------------------------
(* Small instances of Process: one or two connections and request ids, two *)
(* parameter names, sockets that hold one to three records.                *)
EXTENDS Process

CONSTANTS c1, c2, k1, k2
=============================================================================
