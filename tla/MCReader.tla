------------------------------ MODULE MCReader ------------------------------
(* Small instances: a header of two bytes and a begin body of one, so that *)
(* every way to cut a record in two, three or four pieces is a short list; *)
(* a first allocation that two records overflow.                           *)
EXTENDS Reader

S(t, l, p, k) == [type |-> t, len |-> l, pad |-> p, keep |-> k]

MCShape == {S("BEGIN", 1, 0, TRUE), S("PARAMS", 2, 1, FALSE),
            S("PARAMS", 0, 0, FALSE), S("STDIN", 0, 1, FALSE),
            S("ABORT", 0, 0, FALSE), S("OTHER", 1, 0, FALSE)}

MCShapeSplit == {S("BEGIN", 1, 0, TRUE), S("PARAMS", 2, 1, FALSE)}

MCByte == (1 .. MaxRecords) \X (0 .. 5)
=============================================================================
