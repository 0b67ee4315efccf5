------------------------------ MODULE MCCodec ------------------------------
(* Small instances of Codec: bytes of sixteen values, so that a length of  *)
(* eight needs the long form and an id or a text length of more than       *)
(* fifteen needs its high byte; two ids that differ in it only.            *)
EXTENDS Codec

Eight(x) == [k \in 1 .. 8 |-> x]

MCId    == {1, B + 1}
MCRole  == {1, 2, B + 1}
MCName  == {<<>>, Eight(1)}
MCValue == {<<>>, <<9>>, Eight(0)}
=============================================================================
