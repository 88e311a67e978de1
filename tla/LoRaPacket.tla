----------------------------- MODULE LoRaPacket -----------------------------
(***************************************************************************)
(* The packet that travels over LoRa (common/common.h, common/common.cpp): *)
(* its framing, its initialization vector and the counter kept in the last *)
(* eight bytes of that vector, and the cipher both ends apply to it.       *)
(*                                                                         *)
(* Bytes are numbers below Base, so that a small Base makes the carries    *)
(* between counter bytes, and the wrap of the counter, happen after a few  *)
(* messages: byte 13 of the vector is reached after Base2 messages.        *)
(***************************************************************************)
EXTENDS Naturals, Sequences

CONSTANTS
  Base,       \* number of values of a byte: 256 in the code
  NoPayload   \* the payload of a frame that ends within the framing

Byte == 0 .. Base - 1

\* Vectors and frames are indexed from 0, as the arrays of the code are.
IV == [0 .. 15 -> Byte]

\* The texts of the two messages (DOOR_OPEN, DOOR_CLOSE); anything else that
\* a decryption can give is "garbage".
DoorMessage == {"open_", "close"}
Text == DoorMessage \cup {"garbage"}

\* MESSAGE_HEADER; 0x42 in the code, some byte here.
MESSAGE_HEADER == 1

(***************************************************************************)
(* AES-128 in counter mode with the preshared key, symbolically: a         *)
(* ciphertext remembers its text and the vector it was made with, and only *)
(* that vector gives the text back.  A five-byte text decrypted with the   *)
(* key stream of another vector is taken to be neither of the two          *)
(* messages.                                                               *)
(***************************************************************************)
Cipher == [text : Text, iv : IV]

ASSUME BaseAssumption == Base \in Nat /\ Base >= 2 /\ NoPayload \notin Cipher

Encrypt(text, iv) == [text |-> text, iv |-> iv]

Decrypt(cipher, iv) == IF cipher.iv = iv THEN cipher.text ELSE "garbage"

\* A packet of the sender; it has no payload before the first message.
Packet ==
  [header : {MESSAGE_HEADER}, iv : IV, payload : Cipher \cup {NoPayload}]

(***************************************************************************)
(* What parsePacket/read hand over: the leading framing bytes, 17 of them  *)
(* when the frame is long enough, and whatever follows them.               *)
(***************************************************************************)
FRAMING_SIZE == 17

Frame ==
  [bytes : UNION {[0 .. n - 1 -> Byte] : n \in 0 .. FRAMING_SIZE - 1},
   payload : {NoPayload}]
  \cup [bytes : [0 .. FRAMING_SIZE - 1 -> Byte], payload : Cipher \cup {NoPayload}]

-----------------------------------------------------------------------------
(* How many values two bytes have, and a counter of eight.                  *)
Base2 == Base * Base
Base8 == (Base2 * Base2) * (Base2 * Base2)

(* Big-endian value of the eight bytes of iv from index at on. *)
to(iv, at) ==
  iv[at+7] + Base * (iv[at+6] + Base * (iv[at+5] + Base * (iv[at+4] +
  Base * (iv[at+3] + Base * (iv[at+2] + Base * (iv[at+1] + Base * iv[at]))))))

iv_top(packet) == to(packet.iv, 0)
iv_bottom(packet) == to(packet.iv, 8)

\* Mutant: the carry is forgotten.
inc_without_carry(packet) ==
  [packet EXCEPT !.iv[15] = (packet.iv[15] + 1) % Base]

(* ++bottom, stored back byte by byte; sK is bottom >> 8 * K.  Dropping     *)
(* what does not fit byte 8 is the wrap of the uint64_t.                     *)
inc_iv_bottom(packet) ==
  LET s0 == iv_bottom(packet) + 1
      s1 == s0 \div Base
      s2 == s1 \div Base
      s3 == s2 \div Base
      s4 == s3 \div Base
      s5 == s4 \div Base
      s6 == s5 \div Base
      s7 == s6 \div Base
      counter == <<s7, s6, s5, s4, s3, s2, s1, s0>>
  IN  [packet EXCEPT !.iv = [i \in 0 .. 15 |->
         IF i < 8 THEN packet.iv[i] ELSE counter[i-7] % Base]]

\* Mutant: the header is not written.
write_headless(packet) ==
  [bytes |-> [i \in 0 .. 15 |-> packet.iv[i]], payload |-> packet.payload]

lora_write(packet) ==
  [bytes |-> [i \in 0 .. FRAMING_SIZE - 1 |->
                IF i = 0 THEN packet.header ELSE packet.iv[i-1]],
   payload |-> packet.payload]

(***************************************************************************)
(* parse_packet accepts a frame longer than its framing.  The initializer  *)
(* of iv lists bytes[12], bytes[14], bytes[14]: element 12 of the vector   *)
(* is read from byte 14 of the frame, not from byte 13.                    *)
(***************************************************************************)
IsPacket(frame) ==
  /\ DOMAIN frame.bytes = 0 .. FRAMING_SIZE - 1
  /\ frame.payload # NoPayload

\* Mutant: a slip in the last element as well.
SourceByteOff(i) ==
  CASE i = 12 -> 14 [] i = 15 -> 15 [] OTHER -> i + 1

SourceByte(i) == IF i = 12 THEN 14 ELSE i + 1

parse_packet(frame) ==
  [header  |-> frame.bytes[0],
   iv      |-> [i \in 0 .. 15 |-> frame.bytes[SourceByte(i)]],
   payload |-> frame.payload]
=============================================================================
