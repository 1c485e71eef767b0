----------------------------- MODULE MCSession -----------------------------
(* A small instance of Session for TLC: words of 4 bits for the keys and   *)
(* of 8 bits, in bytes of 2, for the cipher, which is XXTEA's.             *)
EXTENDS Session

CONSTANT Delta
X == INSTANCE XXTEA

MCSW == <<1, 2>>

(* Two that fit a packet, which with no key are taken for a key and for a  *)
(* greeting, and one that does not.                                        *)
MCLetters == {[cmd |-> 1, uid |-> -1, data |-> <<3>>],
              [cmd |-> 1, uid |-> 2, data |-> <<0, 1>>],
              [cmd |-> 2, uid |-> 2, data |-> <<0, 1, 2, 3, 0, 1, 2, 3, 0>>]}

(* The cipher, with the cases that occur kept in tables.                   *)
Keys == {<<>>} \cup {KeyOf[secret] : secret \in 1 .. P}
Plain == {MkMessage(msg) : msg \in MCLetters \cup {Heartbeat(ClientUid)}}
Ciphers   == [data \in Plain, key \in Keys |-> X!Encrypt(data, key)]
Encrypted == {Ciphers[data, key] : data \in Plain, key \in Keys}
Deciphers == [data \in Encrypted, key \in Keys |-> X!Decrypt(data, key)]

MCCipher(data, key) ==
  IF data \in Plain /\ key \in Keys THEN Ciphers[data, key] ELSE X!Encrypt(data, key)
MCDecipher(data, key) ==
  IF data \in Encrypted /\ key \in Keys THEN Deciphers[data, key]
  ELSE X!Decrypt(data, key)

(* The reference definition of the multiplication modulo p, and of the     *)
(* cipher's inverse, for every word and for some data and keys.            *)
ASSUME \A a \in 0 .. P - 1, b \in Words : mul_mod_p(a, b) = (a * b) % P
ASSUME \A n \in 1 .. 9, x, y, k \in 0 .. 3 :
         LET data == [i \in 1 .. n |-> (x + i * y) % Byte]
         IN X!Decrypt(X!Encrypt(data, KeyOf[k]), KeyOf[k]) = data
=============================================================================
