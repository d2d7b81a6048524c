------------------------------- MODULE Framing -------------------------------
(***************************************************************************)
(* The wire format of WebSocket frames, as frame.hpp reads and writes it,  *)
(* and UTF-8, as utf8_validator.hpp checks it.  Bytes are numbers, byte    *)
(* strings are sequences of them.  A size has up to eight bytes on the     *)
(* wire.                                                                   *)
(***************************************************************************)
EXTENDS Naturals, Sequences, SequencesExt

Byte == 0 .. 255

CONTINUATION == 0
TEXT == 1
CLOSE == 8

is_control(op) == op >= CLOSE
reserved(op) == op \in 3 .. 7 \cup 11 .. 15

payload_size_basic == 125
payload_size_extended == 65535
payload_size_code_16bit == 126
payload_size_code_64bit == 127

(* Network byte order: the last `width' bytes of a number, of up to eight, *)
(* and back.  The high half of eight bytes is what two bytes twice leave.  *)
Weights == <<1, 256, 65536, 16777216>>
High(n) == (n \div 65536) \div 65536
BigEndian(n, width) ==
  [i \in 1 .. width |->
     (IF width - i < 4 THEN n \div Weights[width - i + 1]
                       ELSE High(n) \div Weights[width - i - 3]) % 256]
Value(bytes) == FoldLeft(LAMBDA n, b : 256 * n + b, 0, bytes)

(* Headers: b0 has fin, three reserved bits and the opcode, b1 the mask    *)
(* bit and the size, or the code of a size that follows.                   *)
get_fin(h) == h[1] >= 128
get_rsv(h) == (h[1] % 128) \div 16
get_opcode(h) == h[1] % 16
get_masked(h) == h[2] >= 128
get_basic_size(h) == h[2] % 128

get_masking_key_offset(h) ==
  CASE get_basic_size(h) = payload_size_code_16bit -> 2
    [] get_basic_size(h) = payload_size_code_64bit -> 8
    [] OTHER -> 0

get_header_len(h) == 2 + get_masking_key_offset(h) + (IF get_masked(h) THEN 4 ELSE 0)

get_payload_size(h, extended) ==
  IF get_basic_size(h) <= payload_size_basic THEN get_basic_size(h)
  ELSE Value(SubSeq(extended, 1, get_masking_key_offset(h)))

get_masking_key(h, extended) ==
  IF get_masked(h) THEN SubSeq(extended, get_masking_key_offset(h) + 1,
                                         get_masking_key_offset(h) + 4)
  ELSE <<0, 0, 0, 0>>

(* The constructor of basic_header. *)
SizeCode(size) ==
  CASE size <= payload_size_basic -> size
    [] size > payload_size_basic /\ size <= payload_size_extended -> payload_size_code_16bit
    [] size > payload_size_extended -> payload_size_code_64bit

SizeBytes(code) ==
  CASE code = payload_size_code_16bit -> 2
    [] code = payload_size_code_64bit -> 8
    [] OTHER -> 0

(* The header of a frame; an empty key stands for no mask.                 *)
prepare_header(op, size, code, fin, rsv, key) ==
  <<(IF fin THEN 128 ELSE 0) + 16 * rsv + op, (IF key = <<>> THEN 0 ELSE 128) + code>>
    \o BigEndian(size, SizeBytes(code)) \o key

Xor(a, b) ==
  LET bit(w) == w * (((a \div w) + (b \div w)) % 2)
  IN  bit(128) + bit(64) + bit(32) + bit(16) + bit(8) + bit(4) + bit(2) + bit(1)

(* Xor with the key, in a circle, and the key as the next bytes find it.   *)
byte_mask(bytes, key) == [i \in DOMAIN bytes |-> Xor(bytes[i], key[((i - 1) % 4) + 1])]
circshift_prepared_key(key, offset) ==
  [i \in 1 .. 4 |-> key[((i + offset - 1) % 4) + 1]]

-----------------------------------------------------------------------------
(* The state of a validator: the ranges of the bytes that complete the     *)
(* code point, none if it is complete; the rejecting state has no way out. *)
Accept == <<>>
Reject == << {} >>
Tail80 == 128 .. 191

Leads(byte) ==
  CASE byte \in 0 .. 127 -> Accept
    [] byte \in 194 .. 223 -> <<Tail80>>
    [] byte = 224 -> <<160 .. 191, Tail80>>
    [] byte \in 225 .. 236 \cup 238 .. 239 -> <<Tail80, Tail80>>
    [] byte = 237 -> <<128 .. 159, Tail80>>
    [] byte = 240 -> <<144 .. 191, Tail80, Tail80>>
    [] byte \in 241 .. 243 -> <<Tail80, Tail80, Tail80>>
    [] byte = 244 -> <<128 .. 143, Tail80, Tail80>>
    [] OTHER -> Reject

decode(validator, bytes) ==
  LET after[i \in 0 .. Len(bytes)] ==
        IF i = 0 THEN validator
        ELSE LET v == after[i - 1]
             IN  IF v = Accept THEN Leads(bytes[i])
                 ELSE IF bytes[i] \in Head(v) THEN Tail(v) ELSE Reject
  IN  after[Len(bytes)]

complete(validator) == validator = Accept
=============================================================================
