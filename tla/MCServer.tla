------------------------------ MODULE MCServer ------------------------------
(* Small instances of Server: two connections, one request on each; the    *)
(* program is started with a port, a path, and a port number that is 0 in  *)
(* sixteen bits and makes its argument a path.                             *)
EXTENDS Server

CONSTANTS c1, c2, p1, p2, p3

MCFlags == {[keep |-> FALSE, responder |-> TRUE], [keep |-> TRUE, responder |-> FALSE]}

A(text, colon, number) == [text |-> text, colon |-> colon, number |-> number]

MCArgv == {<<A(p1, TRUE, 9000), A(p2, FALSE, 0), A(p3, TRUE, 65536)>>}
=============================================================================
