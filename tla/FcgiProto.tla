----------------------------- MODULE FcgiProto -----------------------------
(***************************************************************************)
(* The records of src/fcgiproto.h as sequences of bytes, and how           *)
(* src/__init__.c reads the numbers in them.  A byte is a number below B;  *)
(* "x >> 8" and "x & 0xff" are the quotient and the rest of a division by  *)
(* B, "x >> 7" is whether a byte is in its upper half.                     *)
(***************************************************************************)
EXTENDS Integers, Sequences

CONSTANTS B,      (* values of a byte, 256 in the code                     *)
          Unset   (* a byte of a message on the stack that nothing assigns *)

ASSUME ByteAssumption == /\ B \in Nat /\ B > 11 /\ B % 2 = 0
                         /\ Unset \notin 0 .. B - 1

TYPE_BEGIN_REQUEST == 1
TYPE_ABORT_REQUEST == 2
TYPE_END_REQUEST   == 3
TYPE_PARAMS        == 4
TYPE_STDIN         == 5
TYPE_STDOUT        == 6
TYPE_STDERR        == 7
TYPE_UNKNOWN       == 11

ROLE_RESPONDER == 1
FLAG_KEEP_CONN == 1

PROTOST_REQUEST_COMPLETE == 0
PROTOST_UNKNOWN_ROLE     == 3

HeaderSize == 8

-----------------------------------------------------------------------------
(* The encoders.                                                           *)

header_init(t, id, len) ==
  <<1, t, id \div B, id % B, len \div B, len % B, 0, 0>>

(* Four assignments, all of them to appStatusB3: the last one stays, and   *)
(* the other three bytes are whatever the stack held.                      *)
end_request_init(id, ast, protostatus) ==
  header_init(TYPE_END_REQUEST, id, 8)
    \o <<ast % B, Unset, Unset, Unset, protostatus, 0, 0, 0>>

unknown_type_init(type) ==
  header_init(TYPE_UNKNOWN, 0, 8) \o <<type, 0, 0, 0, 0, 0, 0, 0>>

-----------------------------------------------------------------------------
(* The decoders.                                                           *)

(* A bug that would be easy to make: one byte of the number is enough.     *)
LowByte(b1, b0) == b0

(* (B1 << 8) + B0                                                          *)
Word(b1, b0) == b1 * B + b0

(* The length in front of a name or a value: a byte whose high bit is not  *)
(* set, or four bytes of which it is the first bit.                        *)
Short(m, p) == m[p] < B \div 2

(* A bug that would be easy to make: buf[0] for *(buf++).                  *)
LengthSizeStuck(m, p) == IF Short(m, p) THEN 0 ELSE 4

LengthSize(m, p) == IF Short(m, p) THEN 1 ELSE 4

(* A bug that would be easy to make: the high bit left in the number.      *)
LengthUnmasked(m, p) ==
  IF Short(m, p) THEN m[p]
  ELSE m[p] * B * B * B + m[p + 1] * B * B + m[p + 2] * B + m[p + 3]

Length(m, p) ==
  IF Short(m, p) THEN m[p]
  ELSE (m[p] % (B \div 2)) * B * B * B + m[p + 1] * B * B + m[p + 2] * B + m[p + 3]
=============================================================================
