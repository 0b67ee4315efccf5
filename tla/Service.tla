------------------------------ MODULE Service ------------------------------
(***************************************************************************)
(* What a FastCGI responder promises a web server: every request it asks   *)
(* for is ended once, and nothing is ended that was not asked for.         *)
(***************************************************************************)
CONSTANTS Conn,  (* connections                                            *)
          Id     (* request ids a connection may use                       *)

VARIABLE st

Init == st = [c \in Conn |-> [i \in Id |-> "idle"]]

Move(c, i, from, to) == /\ st[c][i] = from
                        /\ st' = [st EXCEPT ![c][i] = to]

(* The web server begins a request; the application ends it; the web       *)
(* server takes the END_REQUEST and may use the id again.                  *)
Ask(c, i)    == Move(c, i, "idle", "asked")
Answer(c, i) == Move(c, i, "asked", "answered")
Take(c, i)   == Move(c, i, "answered", "idle")

Next == \E c \in Conn, i \in Id : Ask(c, i) \/ Answer(c, i) \/ Take(c, i)

Spec == Init /\ [][Next]_st
=============================================================================
