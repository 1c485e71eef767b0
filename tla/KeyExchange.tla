---------------------------- MODULE KeyExchange ----------------------------
(***************************************************************************)
(* dh64: Diffie-Hellman over the integers modulo a prime that is nearly    *)
(* the largest value of a machine word.  Every operation wraps around as   *)
(* it does in the code; the functions are recursive where the code loops.  *)
(***************************************************************************)
EXTENDS Integers

CONSTANTS
  Word,  (* the number of values of a word: 2^64                           *)
  P,     (* the prime p: 2^64 - 59                                         *)
  G      (* the generator g                                                *)

ASSUME KeyAssumption ==
  /\ Word \in Nat /\ P \in Nat /\ 1 < P /\ P < Word /\ Word < 2 * P
  /\ \A d \in 2 .. P - 1 : P % d # 0
  /\ G \in 1 .. P - 1

Words == 0 .. Word - 1
Wrap(n) == n % Word

(* The variables of mul_mod_p, and one turn of its loop.                   *)
Registers == [a : Words, b : Words, m : Words]

(* Mutant: no reduction when a is exactly half of p or more.               *)
DoubleOnly(s) ==
  LET t == Wrap(P - s.a)
  IN [a |-> Wrap(s.a * 2),
      b |-> s.b \div 2,
      m |-> IF s.b % 2 = 0 THEN s.m
            ELSE IF s.m >= t THEN Wrap(s.m - t) ELSE Wrap(s.m + s.a)]
Turn(s) ==
  LET t == Wrap(P - s.a)
  IN [a |-> IF s.a >= t THEN Wrap(Wrap(s.a * 2) - P) ELSE Wrap(s.a * 2),
      b |-> s.b \div 2,
      m |-> IF s.b % 2 = 0 THEN s.m
            ELSE IF s.m >= t THEN Wrap(s.m - t) ELSE Wrap(s.m + s.a)]

mulLoop[s \in Registers] == IF s.b = 0 THEN s.m ELSE mulLoop[Turn(s)]
mul_mod_p(a, b) == mulLoop[[a |-> a, b |-> b, m |-> 0]]

pow_mod_p(a, b) ==
  LET pow[n \in Words \ {0}] ==
        IF n = 1 THEN a
        ELSE LET t  == pow[n \div 2]
                 tt == mul_mod_p(t, t)
             IN IF n % 2 = 0 THEN tt ELSE mul_mod_p(tt, a)
  IN pow[b]

(* The error "zero public key" or "zero private key"; p itself is not      *)
(* reduced.                                                                *)
Err == -1
powmodp(a, b) ==
  IF a = 0 \/ b = 0 THEN Err ELSE pow_mod_p(IF a > P THEN a % P ELSE a, b)

(* KeyPair: any word is a private key, since b wraps around before the or; *)
(* the error of PublicKey is dropped, and 0 is what is sent.               *)
PublicKey(privateKey) == IF privateKey = 0 THEN 0 ELSE powmodp(G, privateKey)

Secret(privateKey, anotherPublicKey) == powmodp(anotherPublicKey, privateKey)
=============================================================================
