---------------------------- MODULE MCBufferUse ----------------------------
(* A small instance: two byte values, so that two bytes in the wrong order *)
(* differ, and appends of one and of two bytes.                            *)
EXTENDS BufferUse

CONSTANTS b1, b2

MCByte == {b1, b2}
MCData == {<<b1>>, <<b2, b1>>}
=============================================================================
