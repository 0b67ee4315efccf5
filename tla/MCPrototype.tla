---------------------------- MODULE MCPrototype ----------------------------
(* Small instances of Prototype: two connections that use one request id.  *)
EXTENDS Prototype

CONSTANTS c1, c2

MCFlags == {[keep |-> FALSE, responder |-> TRUE], [keep |-> TRUE, responder |-> FALSE]}
=============================================================================
