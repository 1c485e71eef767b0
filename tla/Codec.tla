------------------------------- MODULE Codec -------------------------------
(***************************************************************************)
(* codec.go and message.go: messages as bytes, most significant byte       *)
(* first, behind a head of four bytes with the length of the whole packet. *)
(***************************************************************************)
EXTENDS Integers, SequencesExt

CONSTANTS
  Byte,          (* the number of values of a byte: 256                    *)
  MaxLength,     (* 65535, the longest packet that ParsePacket accepts     *)
  Cipher(_, _),  (* the cipher of the library xxtea-go, of data and a key  *)
  Decipher(_, _)

Word32 == Byte * Byte * Byte * Byte

ASSUME CodecAssumption ==
  Byte \in Nat \ {0, 1} /\ MaxLength \in Nat /\ 2 * MaxLength < Word32

(* encoding/binary, BigEndian.                                             *)
PutUint32(v) == <<(v \div (Byte * Byte * Byte)) % Byte, (v \div (Byte * Byte)) % Byte,
                  (v \div Byte) % Byte, v % Byte>>
Uint32(bytes) == Byte * (Byte * (Byte * bytes[1] + bytes[2]) + bytes[3]) + bytes[4]
PutUint64(v) == PutUint32(v \div Word32) \o PutUint32(v % Word32)
Uint64(bytes) == Word32 * Uint32(bytes) + Uint32(SubSeq(bytes, 5, 8))
Signed(v) == IF 2 * v >= Word32 THEN v - Word32 ELSE v

NewMessage(cmd, uid, data) == [cmd |-> cmd, uid |-> uid, data |-> data]

MkMessage(msg) == PutUint32(msg.cmd) \o PutUint32(msg.uid % Word32) \o msg.data

(* The head and what follows it.                                           *)
Packet(bytes) == PutUint32(Len(bytes) + 4) \o bytes

Encode(msg)               == Packet(MkMessage(msg))
EnBinaryPackage(msg, key) == Packet(Cipher(MkMessage(msg), key))

(* Nothing where the code returns an error.  Mutant: the uid is read       *)
(* without its sign.                                                       *)
NoMessage == [cmd |-> -1]
DecodeUnsigned ==
  [buff \in Seq(Nat) |->
     IF Len(buff) < 8 THEN NoMessage
     ELSE NewMessage(Uint32(buff), Uint32(SubSeq(buff, 5, 8)),
                     SubSeq(buff, 9, Len(buff)))]
Decode ==
  [buff \in Seq(Nat) |->
     IF Len(buff) < 8 THEN NoMessage
     ELSE NewMessage(Uint32(buff), Signed(Uint32(SubSeq(buff, 5, 8))),
                     SubSeq(buff, 9, Len(buff)))]

OnPacketComplete(packet, secert, key) ==
  LET body == SubSeq(packet, 5, Len(packet))
  IN IF secert THEN Decode[Decipher(body, key)] ELSE Decode[body]

(* -1 is an error, 0 asks for more.  Mutants: a packet that has just       *)
(* arrived in full waits for more; the longest packet is refused.          *)
ParseLate(data) ==
  LET pkglen == Signed(Uint32(data))
  IN IF Len(data) < 4 THEN 0
     ELSE IF pkglen > MaxLength \/ pkglen < 0 THEN -1
     ELSE IF Len(data) <= pkglen THEN 0 ELSE pkglen
ParseShort(data) ==
  LET pkglen == Signed(Uint32(data))
  IN IF Len(data) < 4 THEN 0
     ELSE IF pkglen >= MaxLength \/ pkglen < 0 THEN -1
     ELSE IF Len(data) < pkglen THEN 0 ELSE pkglen
ParsePacket(data) ==
  LET pkglen == Signed(Uint32(data))
  IN IF Len(data) < 4 THEN 0
     ELSE IF pkglen > MaxLength \/ pkglen < 0 THEN -1
     ELSE IF Len(data) < pkglen THEN 0 ELSE pkglen
=============================================================================
