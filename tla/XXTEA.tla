------------------------------- MODULE XXTEA -------------------------------
(***************************************************************************)
(* The cipher of the packets: Encrypt and Decrypt of crypto/xxtea, which   *)
(* the socket package takes from the library of that name.  A word has     *)
(* four bytes, the first of them the lowest.                               *)
(***************************************************************************)
EXTENDS Integers, Sequences

CONSTANTS
  Byte,       (* the number of values of a byte: 256                       *)
  Delta       (* delta, modulo the number of values of a word              *)

Word32 == Byte * Byte * Byte * Byte

Add(a, b) == (a + b) % Word32
Sub(a, b) == (a - b) % Word32
Shl(a, n) == (a * 2^n) % Word32
Shr(a, n) == a \div 2^n

(* The machine's exclusive or, of the bits of a byte and of the bytes.     *)
xorByte[a \in 0 .. Byte - 1, b \in 0 .. Byte - 1] ==
  IF a = 0 /\ b = 0 THEN 0
  ELSE (2 * xorByte[a \div 2, b \div 2]) + ((a + b) % 2)
xor[a \in Nat, b \in Nat] ==
  IF a = 0 THEN b
  ELSE (Byte * xor[a \div Byte, b \div Byte]) + xorByte[a % Byte, b % Byte]

Up(n) == (n + 3) \div 4

(* The length is a last word when it is included.                          *)
toUint32s[bytes \in Seq(Nat), includeLength \in BOOLEAN] ==
  LET b(i) == IF i <= Len(bytes) THEN bytes[i] ELSE 0
  IN [i \in 1 .. Up(Len(bytes)) |->
        b(4 * i - 3) + Byte * (b(4 * i - 2) + Byte * (b(4 * i - 1) + Byte * b(4 * i)))]
     \o IF includeLength THEN <<Len(bytes)>> ELSE <<>>

ByteOf(v, i) == (v[1 + (i \div 4)] \div Byte^(i % 4)) % Byte

(* Nothing when the length does not fit the words, as after a decryption   *)
(* with another key.                                                       *)
toBytes[v \in Seq(Nat), includeLength \in BOOLEAN] ==
  LET n == 4 * (Len(v) - 1)
      m == v[Len(v)]
      size == IF includeLength THEN m ELSE 4 * Len(v)
  IN IF includeLength /\ (m > n \/ m < n - 3) THEN <<>>
     ELSE [i \in 1 .. size |-> ByteOf(v, i - 1)]

fixk(k) == IF Len(k) < 4 THEN [i \in 1 .. 4 |-> IF i <= Len(k) THEN k[i] ELSE 0] ELSE k

mx[sum \in Nat, y \in Nat, z \in Nat, p \in Nat, k \in Seq(Nat)] ==
  xor[Add(xor[Shr(z, 5), Shl(y, 2)], xor[Shr(y, 3), Shl(z, 4)]),
      Add(xor[sum, y], xor[k[1 + xor[p % 4, (sum \div 4) % 4]], z])]

(* What one step of a round mixes into word p: a function of its two       *)
(* neighbours.                                                             *)
Mixed(v, k, sum, p) ==
  mx[sum, v[1 + ((p + 1) % Len(v))], v[1 + ((p + Len(v) - 1) % Len(v))], p, k]

Mix(v, k, sum, p)   == [v EXCEPT ![p + 1] = Add(@, Mixed(v, k, sum, p))]
Unmix(v, k, sum, p) == [v EXCEPT ![p + 1] = Sub(@, Mixed(v, k, sum, p))]

(* Step i of encrypt, counted from 0: the sum of its round, and its word.  *)
Turns(v)  == Len(v) * (6 + (52 \div Len(v)))
Sum(v, i) == ((1 + (i \div Len(v))) * Delta) % Word32

encryptFrom[i \in Nat, v \in Seq(Nat), k \in Seq(Nat)] ==
  IF i = Turns(v) THEN v
  ELSE encryptFrom[i + 1, Mix(v, k, Sum(v, i), i % Len(v)), k]
encrypt(v, k) == encryptFrom[0, v, fixk(k)]

(* The same steps backwards, i of them to go.                              *)
decryptFrom[i \in Nat, v \in Seq(Nat), k \in Seq(Nat)] ==
  IF i = 0 THEN v
  ELSE decryptFrom[i - 1, Unmix(v, k, Sum(v, i - 1), (i - 1) % Len(v)), k]
decrypt(v, k) == decryptFrom[Turns(v), v, fixk(k)]

Encrypt(data, key) ==
  IF data = <<>> THEN data
  ELSE toBytes[encrypt(toUint32s[data, TRUE], toUint32s[key, FALSE]), FALSE]

Decrypt(data, key) ==
  IF data = <<>> THEN data
  ELSE toBytes[decrypt(toUint32s[data, FALSE], toUint32s[key, FALSE]), TRUE]
=============================================================================
