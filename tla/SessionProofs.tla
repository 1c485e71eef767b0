---------------------------- MODULE SessionProofs ----------------------------
(***************************************************************************)
(* Proofs about Session, the codec and the key exchange: the functions of  *)
(* dh64 compute what they should in words of any size, both sides derive   *)
(* the same key, and messages arrive unchanged, in order and once, however *)
(* the stream is cut up.  They hold for any words, bytes and longest       *)
(* packet, any messages, private keys and cipher, and any number of        *)
(* messages, under the assumptions named in Codec, KeyExchange and Session.*)
(***************************************************************************)
EXTENDS Session, TLAPS, SequenceTheorems, WellFoundedInduction

-----------------------------------------------------------------------------
(* Division with a remainder, the bytes of a word, and recursion.          *)

(* Division with a remainder, for natural numbers.                         *)
LEMMA Quotient ==
  ASSUME NEW v \in Nat, NEW b \in Nat \ {0}
  PROVE  v \div b \in Nat /\ v % b \in 0 .. b - 1 /\ v = b * (v \div b) + (v % b)
  OBVIOUS

(* Quotient and remainder are unique.                                      *)
LEMMA UniqueQuotient ==
  ASSUME NEW b \in Nat \ {0}, NEW q \in Int, NEW r \in 0 .. b - 1
  PROVE  (b * q + r) \div b = q /\ (b * q + r) % b = r
  OBVIOUS

(* Dividing twice is dividing by the product.                              *)
LEMMA TwiceDivided ==
  ASSUME NEW v \in Nat, NEW a \in Nat \ {0}, NEW b \in Nat \ {0}
  PROVE  (v \div a) \div b = v \div (a * b)
<1> DEFINE q == v \div a
           p == q \div b
<1>1. q \in Nat /\ v % a \in 0 .. a - 1 /\ v = a * q + (v % a)
  BY Quotient
<1>2. p \in Nat /\ q % b \in 0 .. b - 1 /\ q = b * p + (q % b)
  BY <1>1, Quotient
<1> DEFINE r == v % a
           s == q % b
<1>3. r \in 0 .. a - 1 /\ s \in 0 .. b - 1 /\ v = a * q + r /\ q = b * p + s
  BY <1>1, <1>2
<1> HIDE DEF q, p, r, s
<1>4. a * s + r \in 0 .. (a * b) - 1
  <2>1. a * s <= a * (b - 1)
    BY <1>3
  <2>2. a * (b - 1) = (a * b) - a
    OBVIOUS
  <2>3. a * s \in Nat
    BY <1>3
  <2>4. QED
    BY <1>3, <2>1, <2>2, <2>3
<1>5. v = (a * b) * p + (a * s + r)
  <2>1. a * q = a * (b * p) + a * s
    BY <1>3, <1>2
  <2>2. QED
    BY <2>1, <1>3, <1>2
<1>6. a * b \in Nat \ {0}
  OBVIOUS
<1>7. ((a * b) * p + (a * s + r)) \div (a * b) = p
  <2> DEFINE m == a * b
             t == a * s + r
  <2>1. m \in Nat \ {0} /\ t \in 0 .. m - 1 /\ p \in Int
    BY <1>4, <1>6, <1>2
  <2> HIDE DEF m, t
  <2>2. (m * p + t) \div m = p
    BY <2>1, UniqueQuotient
  <2>3. QED
    BY <2>2 DEF m, t
<1>8. QED
  BY <1>5, <1>7 DEF p, q

(* Multiplication is monotone.                                             *)
LEMMA Grows ==
  ASSUME NEW b \in Nat \ {0}, NEW x \in Nat, NEW y \in Nat, x >= y
  PROVE  b * x >= b * y
  OBVIOUS

(* PutUint32 writes four bytes, and Uint32 reads the word that was         *)
(* written.                                                                *)
LEMMA WordBytes ==
  ASSUME NEW v \in 0 .. Word32 - 1, Byte \in Nat \ {0, 1}
  PROVE  /\ PutUint32(v) \in Seq(Nat) /\ Len(PutUint32(v)) = 4
         /\ Uint32(PutUint32(v)) = v
<1>1. Word32 \in Nat
  BY DEF Word32
<1> DEFINE a == v \div Byte
           b == a \div Byte
           c == b \div Byte
<1>2. /\ a \in Nat /\ v = Byte * a + (v % Byte)
      /\ v % Byte \in 0 .. Byte - 1
  BY <1>1, Quotient
<1>3. /\ b \in Nat /\ a = Byte * b + (a % Byte)
      /\ a % Byte \in 0 .. Byte - 1
  BY <1>2, Quotient
<1>4. /\ c \in Nat /\ b = Byte * c + (b % Byte)
      /\ b % Byte \in 0 .. Byte - 1
  BY <1>3, Quotient
<1>5. v \div (Byte * Byte) = b
  BY <1>1, TwiceDivided
<1>6. v \div (Byte * Byte * Byte) = c
  <2>1. Byte * Byte \in Nat \ {0}
    OBVIOUS
  <2>2. v \in Nat
    BY <1>1
  <2>3. (v \div (Byte * Byte)) \div Byte = v \div ((Byte * Byte) * Byte)
    BY <2>1, <2>2, TwiceDivided
  <2>4. QED
    BY <2>3, <1>5
<1> HIDE DEF a, b, c
<1>7. c < Byte
  <2>1. SUFFICES ASSUME c >= Byte PROVE FALSE
    BY <1>4
  <2>2. Byte * c >= Byte * Byte
    BY <2>1, <1>4, Grows
  <2>3. b >= Byte * Byte /\ Byte * Byte \in Nat
    BY <2>2, <1>4
  <2>4. Byte * b >= Byte * (Byte * Byte)
    BY <2>3, <1>3, Grows
  <2>5. a >= Byte * (Byte * Byte) /\ Byte * (Byte * Byte) \in Nat
    BY <2>4, <1>3
  <2>6. Byte * a >= Byte * (Byte * (Byte * Byte))
    BY <2>5, <1>2, Grows
  <2>7. Byte * (Byte * (Byte * Byte)) = Word32
    BY DEF Word32
  <2>8. QED
    BY <2>6, <2>7, <1>2, <1>1
<1>8. c % Byte = c
  BY <1>7, <1>4
<1>9. PutUint32(v) = <<c, b % Byte, a % Byte, v % Byte>>
  BY <1>5, <1>6, <1>8 DEF PutUint32, a
<1>10. Uint32(PutUint32(v)) = v
  BY <1>9, <1>2, <1>3, <1>4 DEF Uint32
<1>11. QED
  BY <1>9, <1>10, <1>2, <1>3, <1>4

(* A set of natural numbers that is not empty has a least member: every    *)
(* induction below is by the least counterexample.                         *)
LEMMA Least ==
  ASSUME NEW T, T \subseteq Nat, T # {}
  PROVE  \E n \in T : \A k \in T : n <= k
<1>1. IsWellFoundedOn(OpToRel(<, Nat), Nat)
  BY NatLessThanWellFounded
<1>2. \E n \in T : \A k \in T : ~(<<k, n>> \in OpToRel(<, Nat))
  BY <1>1, WFMin
<1>3. \A n, k \in Nat : <<k, n>> \in OpToRel(<, Nat) <=> k < n
  BY DEF OpToRel
<1> DEFINE R == OpToRel(<, Nat)
<1>4. /\ \E n \in T : \A k \in T : ~(<<k, n>> \in R)
      /\ \A n, k \in Nat : <<k, n>> \in R <=> k < n
  BY <1>2, <1>3
<1> HIDE DEF R
<1>5. PICK n \in T : \A k \in T : ~(<<k, n>> \in R)
  BY <1>4
<1>6. ASSUME NEW k \in T PROVE n <= k
  <2>1. n \in Nat /\ k \in Nat
    OBVIOUS
  <2>2. ~(k < n)
    BY <1>4, <1>5, <2>1
  <2>3. QED
    BY <2>1, <2>2
<1>7. QED
  BY <1>6

(* Recursion: f may be defined from its own values at smaller arguments.   *)
Recurs(D, V, size, H) ==
  /\ size \in [D -> Nat] /\ H \in [[D -> V] -> [D -> V]]
  /\ \A f, g \in [D -> V] : \A x \in D :
       (\A y \in D : size[y] < size[x] => f[y] = g[y]) => H[f][x] = H[g][x]

(* A function that recurs at arguments of smaller size exists.             *)
LEMMA Fixpoint ==
  ASSUME NEW D, NEW V, NEW v0 \in V, NEW size, NEW H, Recurs(D, V, size, H)
  PROVE  \E f \in [D -> V] : f = H[f]
<1> USE DEF Recurs
<1> DEFINE Upto(f, n) == \A x \in D : size[x] < n => H[f][x] = f[x]
           Chosen(n) == CHOOSE f \in [D -> V] : Upto(f, n)
           F == [x \in D |-> Chosen(size[x] + 1)[x]]
<1>1. ASSUME NEW n \in Nat PROVE \E f \in [D -> V] : Upto(f, n)
  <2> DEFINE T == {k \in Nat : ~\E f \in [D -> V] : Upto(f, k)}
  <2>1. SUFFICES ASSUME T # {} PROVE FALSE
    OBVIOUS
  <2>2. PICK k \in T : \A l \in T : k <= l
    <3> HIDE DEF T
    <3>1. T \subseteq Nat
      BY DEF T
    <3>2. QED
      BY <2>1, <3>1, Least
  <2>3. k # 0
    <3>1. [x \in D |-> v0] \in [D -> V]
      OBVIOUS
    <3>2. Upto([x \in D |-> v0], 0)
      OBVIOUS
    <3>3. QED
      BY <3>1, <3>2
  <2>4. k - 1 \in Nat /\ k - 1 \notin T
    BY <2>2, <2>3
  <2>5. PICK f \in [D -> V] : Upto(f, k - 1)
    BY <2>4
  <2>6. H[f] \in [D -> V]
    OBVIOUS
  <2>7. ASSUME NEW x \in D, size[x] < k PROVE H[H[f]][x] = H[f][x]
    <3>1. \A y \in D : size[y] < size[x] => f[y] = H[f][y]
      BY <2>2, <2>5, <2>7
    <3>2. QED
      BY <2>6, <3>1
  <2>8. QED
    BY <2>2, <2>6, <2>7
<1>2. ASSUME NEW n \in Nat, NEW f \in [D -> V], NEW g \in [D -> V], Upto(f, n), Upto(g, n),
             NEW z \in D, size[z] < n
      PROVE  f[z] = g[z]
  <2> DEFINE T == {k \in Nat : \E x \in D : size[x] = k /\ size[x] < n /\ f[x] # g[x]}
  <2>1. SUFFICES ASSUME T # {} PROVE FALSE
    BY <1>2
  <2>2. PICK k \in T : \A l \in T : k <= l
    <3> HIDE DEF T
    <3>1. T \subseteq Nat
      BY DEF T
    <3>2. QED
      BY <2>1, <3>1, Least
  <2>3. PICK x \in D : size[x] = k /\ size[x] < n /\ f[x] # g[x]
    BY <2>2
  <2>4. \A y \in D : size[y] < size[x] => f[y] = g[y]
    BY <2>2, <2>3
  <2>5. H[f][x] = H[g][x]
    BY <2>4
  <2>6. QED
    BY <1>2, <2>3, <2>5
<1>3. \A n \in Nat : Chosen(n) \in [D -> V] /\ Upto(Chosen(n), n)
  BY <1>1
<1> HIDE DEF Chosen
<1>4. F \in [D -> V]
  BY <1>3
<1>5. ASSUME NEW x \in D PROVE H[F][x] = F[x]
  <2> DEFINE f == Chosen(size[x] + 1)
  <2>1. f \in [D -> V] /\ Upto(f, size[x] + 1)
    BY <1>3
  <2>2. ASSUME NEW y \in D, size[y] < size[x] PROVE F[y] = f[y]
    <3>1. /\ Chosen(size[y] + 1) \in [D -> V] /\ Upto(Chosen(size[y] + 1), size[y] + 1)
      BY <1>3
    <3>2. Upto(f, size[y] + 1)
      BY <2>1, <2>2
    <3>3. size[y] + 1 \in Nat /\ size[y] < size[y] + 1
      OBVIOUS
    <3> HIDE DEF Upto
    <3>4. Chosen(size[y] + 1)[y] = f[y]
      BY <1>2, <2>1, <3>1, <3>2, <3>3
    <3>5. QED
      BY <3>4
  <2>3. H[F][x] = H[f][x]
    BY <1>4, <2>1, <2>2
  <2>4. QED
    BY <2>1, <2>3
<1>6. H[F] = F
  BY <1>4, <1>5
<1>7. QED
  BY <1>4, <1>6

-----------------------------------------------------------------------------
(* dh64: what the key exchange computes, in words of any size, for any     *)
(* prime and generator that KeyAssumption allows.                          *)

(* What wraps around is a word.                                            *)
LEMMA WrapsIntoWords == \A n \in Int : Wrap(n) \in Words
  BY KeyAssumption DEF Wrap, Words

(* A turn of the loop of mul_mod_p halves b.                               *)
LEMMA TurnShrinks ==
  ASSUME NEW s \in Registers
  PROVE  /\ Turn(s) \in Registers
         /\ Turn(s).b = s.b \div 2
         /\ s.b # 0 => Turn(s).b < s.b
<1>1. s.a \in Words /\ s.b \in Words /\ s.m \in Words /\ P \in Nat
  BY KeyAssumption DEF Registers
<1>2. s.a \in Nat /\ s.b \in Nat /\ s.m \in Nat
  BY <1>1, KeyAssumption DEF Words
<1>3. s.b \div 2 \in Words /\ (s.b # 0 => s.b \div 2 < s.b)
  BY <1>1, <1>2, KeyAssumption DEF Words
<1>4. /\ Turn(s).a \in Words /\ Turn(s).m \in Words
      /\ Turn(s).b = s.b \div 2
  <2>1. Wrap(P - s.a) \in Words
    BY <1>1, <1>2, WrapsIntoWords
  <2>2. Wrap(P - s.a) \in Int /\ Wrap(s.a * 2) \in Words
    BY <2>1, <1>2, WrapsIntoWords, KeyAssumption DEF Words
  <2>3. Wrap(s.a * 2) - P \in Int
    BY <2>2, <1>1, KeyAssumption DEF Words
  <2>4. /\ Wrap(Wrap(s.a * 2) - P) \in Words
        /\ Wrap(s.m - Wrap(P - s.a)) \in Words /\ Wrap(s.m + s.a) \in Words
    BY <2>2, <2>3, <1>2, WrapsIntoWords
  <2>5. QED
    BY <2>2, <2>4, <1>1 DEF Turn
<1>5. Turn(s) \in Registers
  BY <1>3, <1>4 DEF Turn, Registers
<1>6. QED
  BY <1>3, <1>4, <1>5

(* The loop ends, so that its function is defined.                         *)
LEMMA MulLoop ==
  /\ mulLoop = [s \in Registers |-> IF s.b = 0 THEN s.m ELSE mulLoop[Turn(s)]]
  /\ mulLoop \in [Registers -> Words]
<1> DEFINE Step(f) == [s \in Registers |-> IF s.b = 0 THEN s.m ELSE f[Turn(s)]]
           H == [f \in [Registers -> Words] |-> Step(f)]
           size == [s \in Registers |-> s.b]
<1>1. \A s \in Registers : s.b \in Nat /\ s.m \in Words
  BY KeyAssumption DEF Registers, Words
<1>2. ASSUME NEW f \in [Registers -> Words] PROVE Step(f) \in [Registers -> Words]
  BY <1>1, TurnShrinks
<1>3. size \in [Registers -> Nat] /\ H \in [[Registers -> Words] -> [Registers -> Words]]
  BY <1>1, <1>2
<1>4. ASSUME NEW f \in [Registers -> Words], NEW g \in [Registers -> Words],
             NEW s \in Registers, \A r \in Registers : size[r] < size[s] => f[r] = g[r]
      PROVE  H[f][s] = H[g][s]
  <2>1. H[f][s] = Step(f)[s] /\ H[g][s] = Step(g)[s]
    OBVIOUS
  <2>2. s.b # 0 => f[Turn(s)] = g[Turn(s)]
    BY <1>4, TurnShrinks
  <2>3. QED
    BY <2>1, <2>2
<1>5. 0 \in Words
  BY KeyAssumption DEF Words
<1>6. Recurs(Registers, Words, size, H)
  <2>1. \A f, g \in [Registers -> Words] : \A s \in Registers :
          (\A r \in Registers : size[r] < size[s] => f[r] = g[r]) => H[f][s] = H[g][s]
    BY <1>4
  <2> HIDE DEF H, size
  <2>2. QED
    BY <1>3, <2>1 DEF Recurs
<1>7. \E f \in [Registers -> Words] : f = Step(f)
  <2>1. \E f \in [Registers -> Words] : f = H[f]
    <3> HIDE DEF H, size
    <3>1. QED
      BY <1>5, <1>6, Fixpoint
  <2>2. QED
    BY <2>1
<1>8. mulLoop = CHOOSE f : f = Step(f)
  BY DEF mulLoop
<1>9. mulLoop = Step(mulLoop)
  BY <1>7, <1>8
<1>10. ASSUME NEW s \in Registers PROVE mulLoop[s] = IF s.b = 0 THEN s.m ELSE mulLoop[Turn(s)]
  BY <1>9
<1>11. \A s \in Registers : mulLoop[s] \in Words
  <2> DEFINE T == {n \in Nat : \E s \in Registers : s.b = n /\ mulLoop[s] \notin Words}
  <2>1. SUFFICES ASSUME T # {} PROVE FALSE
    BY <1>1
  <2>2. PICK n \in T : \A k \in T : n <= k
    <3> HIDE DEF T
    <3>1. T \subseteq Nat
      BY DEF T
    <3>2. QED
      BY <2>1, <3>1, Least
  <2>3. PICK s \in Registers : s.b = n /\ mulLoop[s] \notin Words
    BY <2>2
  <2>4. s.b # 0 /\ mulLoop[Turn(s)] \notin Words
    BY <1>1, <1>10, <2>3
  <2>5. Turn(s) \in Registers /\ Turn(s).b \in Nat /\ Turn(s).b < n
    BY <1>1, <2>3, <2>4, TurnShrinks
  <2>6. Turn(s).b \in T
    BY <2>4, <2>5
  <2>7. QED
    BY <2>2, <2>5, <2>6
<1>12. QED
  BY <1>9, <1>11

(* Division with a remainder, for integers.                                *)
LEMMA Remainder ==
  ASSUME NEW x \in Int, NEW n \in Nat \ {0}
  PROVE  /\ x \div n \in Int /\ x % n \in 0 .. n - 1
         /\ x = n * (x \div n) + (x % n)
         /\ x \in Nat => x \div n \in Nat
  OBVIOUS

(* Multiples of n do not matter modulo n.                                  *)
LEMMA Multiples ==
  ASSUME NEW n \in Nat \ {0}, NEW x \in Int, NEW k \in Int
  PROVE  (x + n * k) % n = x % n
<1> DEFINE q == x \div n
           r == x % n
<1>1. q \in Int /\ r \in 0 .. n - 1 /\ x = n * q + r
  BY Remainder
<1> HIDE DEF q, r
<1>2. x + n * k = n * (q + k) + r
  BY <1>1
<1>3. (n * (q + k) + r) % n = r
  <2>1. q + k \in Int
    BY <1>1
  <2>2. QED
    BY <1>1, <2>1, UniqueQuotient
<1>4. x % n = r
  BY DEF r
<1>5. QED
  BY <1>2, <1>3, <1>4

(* A factor may be reduced before the multiplication.                      *)
LEMMA ProductModulo ==
  ASSUME NEW n \in Nat \ {0}, NEW x \in Int, NEW z \in Int
  PROVE  ((x % n) * z) % n = (x * z) % n
<1> DEFINE q == x \div n
           r == x % n
<1>1. q \in Int /\ r \in 0 .. n - 1 /\ x = n * q + r
  BY Remainder
<1> HIDE DEF q, r
<1>2. x * z = r * z + n * (q * z)
  <2>1. (n * q + r) * z = r * z + n * (q * z)
    BY <1>1
  <2>2. QED
    BY <1>1, <2>1
<1>3. (r * z + n * (q * z)) % n = (r * z) % n
  <2>1. r * z \in Int /\ q * z \in Int
    BY <1>1
  <2>2. QED
    BY <2>1, Multiples
<1>4. x % n = r
  BY DEF r
<1>5. QED
  BY <1>2, <1>3, <1>4

(* Word arithmetic within its range, and one wrap beyond it.               *)
LEMMA Wraps ==
  ASSUME NEW n \in Int
  PROVE  /\ n \in Words => Wrap(n) = n
         /\ n - Word \in Words => Wrap(n) = n - Word
         /\ n + Word \in Words => Wrap(n) = n + Word
<1>1. Word \in Nat \ {0}
  BY KeyAssumption
<1>2. n \in Words => Wrap(n) = n
  BY <1>1 DEF Wrap, Words
<1>3. (n - Word) % Word = n % Word /\ (n + Word) % Word = n % Word
  <2>1. \A k \in Int : (n + Word * k) % Word = n % Word
    BY <1>1, Multiples
  <2>2. n + Word * (-1) = n - Word /\ n + Word * 1 = n + Word
    BY <1>1
  <2>3. QED
    BY <2>1, <2>2
<1>4. \A k \in Words : k % Word = k
  BY <1>1 DEF Words
<1>5. QED
  BY <1>2, <1>3, <1>4 DEF Wrap

(* One turn keeps a and m below p, and m + a * b modulo p.                 *)
LEMMA TurnKeepsProduct ==
  ASSUME NEW s \in Registers, s.a \in 0 .. P - 1, s.m \in 0 .. P - 1, s.b # 0
  PROVE  /\ Turn(s).a \in 0 .. P - 1 /\ Turn(s).m \in 0 .. P - 1
         /\ (Turn(s).m + Turn(s).a * Turn(s).b) % P = (s.m + s.a * s.b) % P
<1> DEFINE a == s.a
           b == s.b
           m == s.m
           t == Wrap(P - a)
           h == b \div 2
           r == b % 2
           aa == IF a >= t THEN Wrap(Wrap(a * 2) - P) ELSE Wrap(a * 2)
           mm == IF r = 0 THEN m ELSE IF m >= t THEN Wrap(m - t) ELSE Wrap(m + a)
<1>1. Turn(s) = [a |-> aa, b |-> h, m |-> mm]
  BY DEF Turn
<1>2. /\ a \in 0 .. P - 1 /\ m \in 0 .. P - 1 /\ b \in Nat
      /\ P \in Nat /\ Word \in Nat /\ 1 < P /\ P < Word /\ Word < 2 * P
  BY KeyAssumption DEF Registers, Words
<1>3. h \in Nat /\ r \in {0, 1} /\ b = 2 * h + r
  BY <1>2
<1> HIDE DEF a, b, m, h, r
<1>4. t = P - a
  <2>1. P - a \in Words
    BY <1>2 DEF Words
  <2>2. QED
    BY <2>1, Wraps DEF Words
<1>5. PICK u \in {0, 1} : aa = 2 * a - P * u /\ aa \in 0 .. P - 1
  <2>1. CASE a >= t
    <3>1. Wrap(a * 2) \in {2 * a, 2 * a - Word}
      <4>1. a * 2 \in Words \/ a * 2 - Word \in Words
        BY <1>2 DEF Words
      <4>2. QED
        BY <1>2, <4>1, Wraps
    <3>2. 2 * a - P \in Words /\ 2 * a - P \in 0 .. P - 1
      BY <1>2, <1>4, <2>1 DEF Words
    <3>3. Wrap(2 * a - P) = 2 * a - P /\ Wrap((2 * a - Word) - P) = 2 * a - P
      <4>1. 2 * a - P \in Int /\ (2 * a - Word) - P \in Int
            /\ ((2 * a - Word) - P) + Word = 2 * a - P
        BY <1>2
      <4>2. QED
        BY <3>2, <4>1, Wraps
    <3>4. aa = 2 * a - P
      BY <2>1, <3>1, <3>3
    <3>5. QED
      BY <1>2, <3>2, <3>4
  <2>2. CASE ~(a >= t)
    <3>1. a * 2 \in Words /\ a * 2 \in 0 .. P - 1
      BY <1>2, <1>4, <2>2 DEF Words
    <3>2. aa = 2 * a
      BY <1>2, <2>2, <3>1, Wraps
    <3>3. QED
      BY <1>2, <3>1, <3>2
  <2>3. QED
    BY <2>1, <2>2
<1>6. PICK v \in {0, 1} : mm = m + r * a - P * v /\ mm \in 0 .. P - 1
  <2>1. CASE r = 0
    BY <1>2, <2>1
  <2>2. CASE r = 1 /\ m >= t
    <3>1. m - t \in Words /\ m - t \in 0 .. P - 1 /\ m - t = m + a - P
      BY <1>2, <1>4, <2>2 DEF Words
    <3>2. mm = m + a - P
      BY <1>2, <2>2, <3>1, Wraps
    <3>3. QED
      BY <1>2, <2>2, <3>1, <3>2
  <2>3. CASE r = 1 /\ ~(m >= t)
    <3>1. m + a \in Words /\ m + a \in 0 .. P - 1
      BY <1>2, <1>4, <2>3 DEF Words
    <3>2. mm = m + a
      BY <1>2, <2>3, <3>1, Wraps
    <3>3. QED
      BY <1>2, <2>3, <3>1, <3>2
  <2>4. QED
    BY <1>3, <2>1, <2>2, <2>3
<1> HIDE DEF aa, mm, t
<1>7. mm + aa * h = (m + a * b) + P * (-(v + u * h))
  <2>1. aa * h = 2 * (a * h) - P * (u * h)
    BY <1>2, <1>3, <1>5
  <2>2. a * b = 2 * (a * h) + r * a
    BY <1>2, <1>3
  <2>3. P * (-(v + u * h)) = -(P * v) - P * (u * h)
    BY <1>2, <1>3
  <2> DEFINE ah == a * h
             uh == u * h
             ra == r * a
  <2>4. ah \in Int /\ uh \in Int /\ ra \in Int /\ P * uh \in Int /\ P * v \in Int
    BY <1>2, <1>3
  <2> HIDE DEF ah, uh, ra
  <2>5. QED
    BY <1>2, <1>6, <2>1, <2>2, <2>3, <2>4 DEF ah, uh, ra
<1>8. ((m + a * b) + P * (-(v + u * h))) % P = (m + a * b) % P
  <2>1. m + a * b \in Int /\ -(v + u * h) \in Int /\ P \in Nat \ {0}
    BY <1>2, <1>3
  <2>2. QED
    BY <2>1, Multiples
<1>9. (mm + aa * h) % P = (m + a * b) % P
  BY <1>7, <1>8
<1>10. QED
  BY <1>1, <1>5, <1>6, <1>9 DEF a, b, m

(* A number below n is its own remainder.                                  *)
LEMMA SmallRemainder ==
  ASSUME NEW n \in Nat \ {0}, NEW r \in 0 .. n - 1
  PROVE  r % n = r
  OBVIOUS

(* The loop of mul_mod_p computes m + a * b modulo p.                      *)
LEMMA LoopMultiplies ==
  ASSUME NEW s \in Registers, s.a \in 0 .. P - 1, s.m \in 0 .. P - 1
  PROVE  mulLoop[s] = (s.m + s.a * s.b) % P
<1> DEFINE Right(r) == mulLoop[r] = (r.m + r.a * r.b) % P
           Small(r) == r.a \in 0 .. P - 1 /\ r.m \in 0 .. P - 1
           T == {n \in Nat : \E r \in Registers : r.b = n /\ Small(r) /\ ~Right(r)}
<1>1. \A r \in Registers : r.b \in Nat /\ r.a \in Nat /\ r.m \in Nat
  BY KeyAssumption DEF Registers, Words
<1>2. T = {}
  <2>1. SUFFICES ASSUME T # {} PROVE FALSE
    OBVIOUS
  <2>2. PICK n \in T : \A k \in T : n <= k
    <3> HIDE DEF T
    <3>1. T \subseteq Nat
      BY DEF T
    <3>2. QED
      BY <2>1, <3>1, Least
  <2>3. PICK r \in Registers : r.b = n /\ Small(r) /\ ~Right(r)
    BY <2>2
  <2>4. mulLoop[r] = IF r.b = 0 THEN r.m ELSE mulLoop[Turn(r)]
    BY MulLoop
  <2>5. CASE r.b = 0
    <3>1. r.m + r.a * r.b = r.m
      BY <1>1, <2>5
    <3>2. r.m % P = r.m
      <4>1. r.m \in 0 .. P - 1 /\ P \in Nat \ {0}
        BY <2>3, KeyAssumption
      <4>2. QED
        BY <4>1, SmallRemainder
    <3>3. Right(r)
      BY <2>4, <2>5, <3>1, <3>2
    <3>4. QED
      BY <2>3, <3>3
  <2>6. CASE r.b # 0
    <3> DEFINE z == Turn(r)
    <3>1. z \in Registers /\ z.b < r.b /\ z.b \in Nat
      BY <1>1, <2>6, TurnShrinks
    <3>2. Small(z) /\ (z.m + z.a * z.b) % P = (r.m + r.a * r.b) % P
      BY <2>3, <2>6, TurnKeepsProduct
    <3>3. mulLoop[r] = mulLoop[z]
      BY <2>4, <2>6
    <3> HIDE DEF z
    <3>4. ~Right(z)
      BY <2>3, <3>2, <3>3
    <3>5. z.b \in T
      BY <3>1, <3>2, <3>4
    <3>6. QED
      BY <2>2, <2>3, <3>1, <3>5
  <2>7. QED
    BY <2>5, <2>6
<1>3. QED
  BY <1>1, <1>2

(* mul_mod_p computes the product modulo p for every a below p and every   *)
(* word b, whatever wraps around on the way: the doubling of a beyond the  *)
(* word and the sum of m and a are reduced right.                          *)
THEOREM MultipliesModuloP ==
  \A a \in 0 .. P - 1, b \in Words : mul_mod_p(a, b) = (a * b) % P
<1> TAKE a \in 0 .. P - 1, b \in Words
<1> DEFINE s == [a |-> a, b |-> b, m |-> 0]
<1>1. a \in Words /\ 0 \in Words /\ 0 \in 0 .. P - 1 /\ a \in Nat /\ b \in Nat
  BY KeyAssumption DEF Words
<1>2. s \in Registers /\ s.a = a /\ s.b = b /\ s.m = 0
  BY <1>1 DEF Registers
<1>3. mul_mod_p(a, b) = mulLoop[s]
  BY <1>1 DEF mul_mod_p
<1> HIDE DEF s
<1>4. mulLoop[s] = (0 + a * b) % P
  BY <1>1, <1>2, LoopMultiplies
<1>5. 0 + a * b = a * b
  BY <1>1
<1>6. QED
  BY <1>3, <1>4, <1>5

(* mul_mod_p returns a word.                                               *)
LEMMA ProductsAreWords ==
  ASSUME NEW a \in Words, NEW b \in Words
  PROVE  mul_mod_p(a, b) \in Words
<1>1. [a |-> a, b |-> b, m |-> 0] \in Registers
  BY KeyAssumption DEF Registers, Words
<1>2. QED
  BY <1>1, MulLoop DEF mul_mod_p

(* The recursion of pow_mod_p ends, so that its function is defined.       *)
LEMMA PowModP ==
  ASSUME NEW a \in Words
  PROVE  \A b \in Words \ {0} :
           pow_mod_p(a, b) =
             IF b = 1 THEN a
             ELSE LET t  == pow_mod_p(a, b \div 2)
                      tt == mul_mod_p(t, t)
                  IN IF b % 2 = 0 THEN tt ELSE mul_mod_p(tt, a)
<1> DEFINE D == Words \ {0}
           Turned(t, b) == IF b % 2 = 0 THEN mul_mod_p(t, t)
                           ELSE mul_mod_p(mul_mod_p(t, t), a)
           Step(f) == [b \in D |-> IF b = 1 THEN a ELSE Turned(f[b \div 2], b)]
           H == [f \in [D -> Words] |-> Step(f)]
           size == [b \in D |-> b]
           pow == CHOOSE f : f = Step(f)
<1>1. ASSUME NEW b \in D
      PROVE  b \in Nat /\ (b # 1 => b \div 2 \in D /\ b \div 2 < b)
  BY KeyAssumption DEF Words
<1>2. \A b \in D : pow_mod_p(a, b) = pow[b]
  BY DEF pow_mod_p
<1>3. ASSUME NEW t \in Words, NEW b \in D PROVE Turned(t, b) \in Words
  <2> DEFINE tt == mul_mod_p(t, t)
  <2>1. tt \in Words
    BY ProductsAreWords
  <2> HIDE DEF tt
  <2>2. mul_mod_p(tt, a) \in Words
    BY <2>1, ProductsAreWords
  <2>3. QED
    BY <2>1, <2>2 DEF tt
<1> HIDE DEF Turned
<1>4. \A f \in [D -> Words] : Step(f) \in [D -> Words]
  BY <1>1, <1>3
<1>5. size \in [D -> Nat] /\ H \in [[D -> Words] -> [D -> Words]]
  BY <1>1, <1>4
<1>6. \A f, g \in [D -> Words] : \A b \in D :
        (\A n \in D : size[n] < size[b] => f[n] = g[n]) => H[f][b] = H[g][b]
  BY <1>1
<1>7. Recurs(D, Words, size, H)
  <2> HIDE DEF H, size, D
  <2>1. QED
    BY <1>5, <1>6 DEF Recurs
<1>8. \E f : f = Step(f)
  <2>1. \E f \in [D -> Words] : f = H[f]
    <3> HIDE DEF H, size, D
    <3>1. QED
      BY <1>7, Fixpoint
  <2>2. QED
    BY <2>1
<1>9. pow = Step(pow)
  BY <1>8
<1> HIDE DEF pow
<1>10. \A b \in D : pow[b] = IF b = 1 THEN a ELSE Turned(pow[b \div 2], b)
  BY <1>9
<1>11. \A b \in D : pow_mod_p(a, b) = IF b = 1 THEN a ELSE Turned(pow_mod_p(a, b \div 2), b)
  BY <1>1, <1>2, <1>10
<1>12. QED
  BY <1>11 DEF Turned

(* The numbers that have an inverse modulo p, their product and powers.    *)
Units == 1 .. P - 1
times(x, y) == (x * y) % P

(* Euclid's lemma: p divides no product of smaller numbers.                *)
LEMMA PIsPrime ==
  ASSUME NEW x \in Units, NEW y \in Units
  PROVE  (x * y) % P # 0
<1> DEFINE T == {n \in Units : (n * y) % P = 0}
<1>1. P \in Nat \ {0} /\ 1 < P /\ Units \subseteq Nat \ {0}
  BY KeyAssumption DEF Units
<1>2. T \subseteq Nat
  BY <1>1
<1>3. SUFFICES ASSUME T # {} PROVE FALSE
  OBVIOUS
<1>4. PICK n \in T : \A k \in T : n <= k
  <2> HIDE DEF T
  <2>1. QED
    BY <1>2, <1>3, Least
<1>5. n \in Units /\ n \in Nat \ {0} /\ (n * y) % P = 0 /\ y \in Nat
  BY <1>1, <1>4
<1>6. n # 1
  <2>1. y % P = y
    BY <1>1, SmallRemainder DEF Units
  <2>2. 1 * y = y /\ y # 0
    BY <1>1
  <2>3. QED
    BY <1>5, <2>1, <2>2
<1> DEFINE q == P \div n
           r == P % n
<1>7. q \in Nat /\ r \in 0 .. n - 1 /\ P = n * q + r
  <2>1. P \in Int /\ n \in Nat \ {0}
    BY <1>1, <1>5
  <2>2. /\ P % n \in 0 .. n - 1 /\ P = n * (P \div n) + (P % n)
        /\ P \in Nat => P \div n \in Nat
    BY <2>1, Remainder
  <2>3. QED
    BY <1>1, <2>2
<1>8. r # 0
  <2>1. n \in 2 .. P - 1
    BY <1>5, <1>6 DEF Units
  <2>2. QED
    BY <2>1, KeyAssumption
<1> HIDE DEF q, r
<1>9. PICK z \in Int : n * y = P * z
  <2>1. n * y \in Int
    BY <1>5
  <2>2. (n * y) \div P \in Int /\ n * y = P * ((n * y) \div P) + ((n * y) % P)
    BY <1>1, <2>1, Remainder
  <2>3. P * ((n * y) \div P) \in Int
    BY <1>1, <2>2
  <2>4. n * y = P * ((n * y) \div P)
    BY <1>5, <2>2, <2>3
  <2>5. QED
    BY <2>2, <2>4
<1>10. r * y = 0 + P * (y - z * q)
  <2>1. r * y = P * y - q * (n * y)
    <3>1. r = P - n * q
      BY <1>1, <1>5, <1>7
    <3>2. (P - n * q) * y = P * y - q * (n * y)
      BY <1>1, <1>5, <1>7
    <3>3. QED
      BY <3>1, <3>2
  <2>2. q * (P * z) = P * (z * q)
    BY <1>1, <1>7, <1>9
  <2>3. P * (y - z * q) = P * y - P * (z * q)
    BY <1>1, <1>5, <1>7, <1>9
  <2>4. q * (n * y) = P * (z * q)
    BY <1>9, <2>2
  <2>5. r * y = P * (y - z * q)
    BY <2>1, <2>3, <2>4
  <2>6. P * (y - z * q) \in Int
    BY <1>1, <1>5, <1>7, <1>9
  <2>7. QED
    BY <2>5, <2>6
<1>11. (r * y) % P = 0
  <2>1. (0 + P * (y - z * q)) % P = 0 % P
    <3> DEFINE k == y - z * q
    <3>1. k \in Int /\ 0 \in Int
      BY <1>5, <1>7, <1>9
    <3> HIDE DEF k
    <3>2. (0 + P * k) % P = 0 % P
      BY <1>1, <3>1, Multiples
    <3>3. QED
      BY <3>2 DEF k
  <2>2. 0 % P = 0
    BY <1>1, SmallRemainder
  <2>3. QED
    BY <1>10, <2>1, <2>2
<1>12. r \in T /\ r < n
  BY <1>1, <1>5, <1>7, <1>8, <1>11 DEF Units
<1>13. QED
  BY <1>4, <1>5, <1>7, <1>12

(* Products of units are units, in either order.                           *)
LEMMA TimesUnits ==
  ASSUME NEW x \in Units, NEW y \in Units
  PROVE  times(x, y) \in Units /\ times(x, y) = times(y, x)
<1>1. x * y \in Int /\ x * y = y * x /\ P \in Nat \ {0}
  BY KeyAssumption DEF Units
<1>2. (x * y) % P \in 0 .. P - 1
  BY <1>1, Remainder
<1>3. QED
  BY <1>1, <1>2, PIsPrime DEF times, Units

(* The product modulo p is associative.                                    *)
LEMMA TimesAssociative ==
  ASSUME NEW x \in Units, NEW y \in Units, NEW z \in Units
  PROVE  times(times(x, y), z) = times(x, times(y, z))
<1>1. x \in Int /\ y \in Int /\ z \in Int /\ P \in Nat \ {0}
  BY KeyAssumption DEF Units
<1>2. times(times(x, y), z) = ((x * y) * z) % P
  <2>1. x * y \in Int
    BY <1>1
  <2>2. QED
    BY <1>1, <2>1, ProductModulo DEF times
<1>3. times(times(y, z), x) = ((y * z) * x) % P
  <2>1. y * z \in Int
    BY <1>1
  <2>2. QED
    BY <1>1, <2>1, ProductModulo DEF times
<1>4. times(x, times(y, z)) = times(times(y, z), x)
  BY TimesUnits
<1>5. (x * y) * z = (y * z) * x
  BY <1>1
<1>6. QED
  BY <1>2, <1>3, <1>4, <1>5

(* x to the power n, one factor at a time.                                 *)
power(x) ==
  CHOOSE f : f = [n \in Nat \ {0} |-> IF n = 1 THEN x ELSE times(f[n - 1], x)]

(* Powers of units are units.                                              *)
LEMMA Powers ==
  ASSUME NEW x \in Units
  PROVE  /\ power(x)[1] = x
         /\ \A n \in Nat \ {0} : /\ power(x)[n] \in Units
                                 /\ power(x)[n + 1] = times(power(x)[n], x)
<1> DEFINE D == Nat \ {0}
           Step(f) == [n \in D |-> IF n = 1 THEN x ELSE times(f[n - 1], x)]
           H == [f \in [D -> Units] |-> Step(f)]
           size == [n \in D |-> n]
           p == power(x)
<1>1. \A f \in [D -> Units] : Step(f) \in [D -> Units]
  BY TimesUnits
<1>2. size \in [D -> Nat] /\ H \in [[D -> Units] -> [D -> Units]]
  BY <1>1
<1>3. \A f, g \in [D -> Units] : \A n \in D :
        (\A k \in D : size[k] < size[n] => f[k] = g[k]) => H[f][n] = H[g][n]
  <2> TAKE f, g \in [D -> Units]
  <2> TAKE n \in D
  <2>1. n # 1 => n - 1 \in D /\ size[n - 1] < size[n]
    OBVIOUS
  <2>2. QED
    BY <2>1
<1>4. Recurs(D, Units, size, H)
  <2> HIDE DEF H, size, D
  <2>1. QED
    BY <1>2, <1>3 DEF Recurs
<1>5. \E f : f = Step(f)
  <2>1. \E f \in [D -> Units] : f = H[f]
    <3> HIDE DEF H, size, D
    <3>1. QED
      BY <1>4, Fixpoint
  <2>2. QED
    BY <2>1
<1>6. p = Step(p)
  BY <1>5 DEF power
<1> HIDE DEF p
<1>7. \A n \in D : p[n] = IF n = 1 THEN x ELSE times(p[n - 1], x)
  BY <1>6
<1>8. p[1] = x
  BY <1>7
<1>9. \A n \in D : p[n + 1] = times(p[n], x)
  <2> TAKE n \in D
  <2>1. n + 1 \in D /\ n + 1 # 1 /\ (n + 1) - 1 = n
    OBVIOUS
  <2>2. QED
    BY <1>7, <2>1
<1>10. \A n \in D : p[n] \in Units
  <2> DEFINE T == {n \in D : p[n] \notin Units}
  <2>1. SUFFICES ASSUME T # {} PROVE FALSE
    OBVIOUS
  <2>2. PICK n \in T : \A k \in T : n <= k
    <3>1. T \subseteq Nat
      OBVIOUS
    <3> HIDE DEF T
    <3>2. QED
      BY <2>1, <3>1, Least
  <2>3. n # 1
    BY <1>8, <2>2
  <2>4. n - 1 \in D /\ n - 1 \notin T
    BY <2>2, <2>3
  <2>5. p[n - 1] \in Units
    BY <2>4
  <2>6. p[n] = times(p[n - 1], x)
    BY <1>7, <2>2, <2>3
  <2>7. QED
    BY <2>2, <2>5, <2>6, TimesUnits
<1>11. QED
  BY <1>8, <1>9, <1>10 DEF p

(* Exponents add up.                                                       *)
LEMMA PowersAdd ==
  ASSUME NEW x \in Units, NEW m \in Nat \ {0}, NEW n \in Nat \ {0}
  PROVE  power(x)[m + n] = times(power(x)[m], power(x)[n])
<1> DEFINE p == power(x)
           T == {k \in Nat \ {0} : p[m + k] # times(p[m], p[k])}
<1>1. /\ p[1] = x
      /\ \A k \in Nat \ {0} : p[k] \in Units /\ p[k + 1] = times(p[k], x)
  BY Powers
<1> HIDE DEF p
<1>2. SUFFICES ASSUME T # {} PROVE FALSE
  BY DEF p
<1>3. PICK k \in T : \A l \in T : k <= l
  <2>1. T \subseteq Nat
    OBVIOUS
  <2> HIDE DEF T
  <2>2. QED
    BY <1>2, <2>1, Least
<1>4. k # 1
  BY <1>1, <1>3
<1> DEFINE l == k - 1
<1>5. l \in Nat \ {0} /\ l \notin T /\ k = l + 1 /\ m + l \in Nat \ {0} /\ m + k = (m + l) + 1
  BY <1>3, <1>4
<1>6. p[m + l] = times(p[m], p[l])
  BY <1>5
<1> HIDE DEF l
<1>7. p[m + k] = times(times(p[m], p[l]), x)
  BY <1>1, <1>5, <1>6
<1>8. times(times(p[m], p[l]), x) = times(p[m], times(p[l], x))
  BY <1>1, <1>5, TimesAssociative
<1>9. p[k] = times(p[l], x)
  BY <1>1, <1>5
<1>10. QED
  BY <1>3, <1>7, <1>8, <1>9

(* Exponents of a power multiply.                                          *)
LEMMA PowersMultiply ==
  ASSUME NEW x \in Units, NEW m \in Nat \ {0}, NEW n \in Nat \ {0}
  PROVE  power(power(x)[m])[n] = power(x)[m * n]
<1> DEFINE p == power(x)
           y == p[m]
           q == power(y)
           T == {k \in Nat \ {0} : q[k] # p[m * k]}
<1>1. /\ p[1] = x
      /\ \A k \in Nat \ {0} : p[k] \in Units /\ p[k + 1] = times(p[k], x)
  BY Powers
<1>2. y \in Units
  BY <1>1
<1> HIDE DEF y
<1>3. /\ q[1] = y
      /\ \A k \in Nat \ {0} : q[k] \in Units /\ q[k + 1] = times(q[k], y)
  BY <1>2, Powers
<1> HIDE DEF q
<1>4. SUFFICES ASSUME T # {} PROVE FALSE
  BY DEF q, y
<1>5. PICK k \in T : \A l \in T : k <= l
  <2>1. T \subseteq Nat
    OBVIOUS
  <2> HIDE DEF T
  <2>2. QED
    BY <1>4, <2>1, Least
<1>6. k # 1
  <2>1. m * 1 = m
    OBVIOUS
  <2>2. QED
    BY <1>3, <1>5, <2>1 DEF y
<1> DEFINE l == k - 1
<1>7. l \in Nat \ {0} /\ l \notin T /\ k = l + 1
  BY <1>5, <1>6
<1>8. q[l] = p[m * l]
  BY <1>7
<1> HIDE DEF l
<1>9. m * l \in Nat \ {0} /\ m * k = m * l + m
  BY <1>7
<1>10. p[m * l + m] = times(p[m * l], p[m])
  BY <1>9, PowersAdd
<1>11. q[k] = times(q[l], y)
  BY <1>3, <1>7
<1>12. QED
  BY <1>5, <1>8, <1>9, <1>10, <1>11 DEF y

(* pow_mod_p, by squaring, computes the power.                             *)
LEMMA PowIsPower ==
  ASSUME NEW x \in Units, NEW b \in Words \ {0}
  PROVE  pow_mod_p(x, b) = power(x)[b]
<1> DEFINE p == power(x)
           T == {n \in Words \ {0} : pow_mod_p(x, n) # p[n]}
<1>1. /\ Words \subseteq Nat /\ x \in Words /\ Units \subseteq 0 .. P - 1 /\ Units \subseteq Words
  BY KeyAssumption DEF Units, Words
<1>2. /\ p[1] = x
      /\ \A k \in Nat \ {0} : p[k] \in Units /\ p[k + 1] = times(p[k], x)
  BY Powers
<1>3. SUFFICES ASSUME T # {} PROVE FALSE
  OBVIOUS
<1>4. PICK n \in T : \A k \in T : n <= k
  <2>1. T \subseteq Nat
    BY <1>1
  <2> HIDE DEF T
  <2>2. QED
    BY <1>3, <2>1, Least
<1>5. pow_mod_p(x, n) = IF n = 1 THEN x
                        ELSE LET t  == pow_mod_p(x, n \div 2)
                                 tt == mul_mod_p(t, t)
                             IN IF n % 2 = 0 THEN tt ELSE mul_mod_p(tt, x)
  BY <1>1, <1>4, PowModP
<1>6. n # 1
  BY <1>2, <1>4, <1>5
<1> DEFINE h == n \div 2
           t == p[h]
<1>7. /\ h \in Words \ {0} /\ h \in Nat \ {0} /\ h < n
      /\ n = h + h \/ n = (h + h) + 1
      /\ n % 2 = 0 <=> n = h + h
  <2>1. n \in Nat \ {0, 1} /\ n < Word
    BY <1>4, <1>6, KeyAssumption DEF Words
  <2>2. QED
    BY <2>1, KeyAssumption DEF Words
<1> HIDE DEF h
<1>8. pow_mod_p(x, h) = t
  BY <1>1, <1>4, <1>7
<1>9. t \in Units
  BY <1>2, <1>7
<1> HIDE DEF t
<1>10. \A u, v \in Units : mul_mod_p(u, v) = times(u, v)
  BY <1>1, MultipliesModuloP DEF times
<1>11. p[h + h] = times(t, t) /\ times(t, t) \in Units
  BY <1>7, <1>9, PowersAdd, TimesUnits DEF t
<1>12. CASE n = h + h
  <2>1. pow_mod_p(x, n) = mul_mod_p(t, t)
    BY <1>5, <1>6, <1>7, <1>8, <1>12 DEF h
  <2>2. QED
    BY <1>4, <1>9, <1>10, <1>11, <1>12, <2>1
<1>13. CASE n = (h + h) + 1
  <2>1. n % 2 # 0
    BY <1>7, <1>13
  <2>2. pow_mod_p(x, n) = mul_mod_p(mul_mod_p(t, t), x)
    BY <1>5, <1>6, <1>8, <2>1 DEF h
  <2>3. pow_mod_p(x, n) = times(times(t, t), x)
    BY <1>9, <1>10, <1>11, <2>2
  <2>4. h + h \in Nat \ {0}
    BY <1>7
  <2>5. p[n] = times(p[h + h], x)
    BY <1>2, <1>13, <2>4
  <2>6. QED
    BY <1>4, <1>11, <2>3, <2>5
<1>14. QED
  BY <1>7, <1>12, <1>13

(* Secret, computed from a private key and the public key of the other     *)
(* side, is the same on both sides, and is a word; it is an error only     *)
(* when one of the private keys is 0: powmodp never returns 0 for a key    *)
(* that KeyPair may draw.                                                  *)
THEOREM SecretsAgree ==
  ASSUME NEW x \in Words, NEW y \in Words
  PROVE  /\ PublicKey(x) \in Words
         /\ Secret(x, PublicKey(y)) = Secret(y, PublicKey(x))
         /\ Secret(x, PublicKey(y)) \in Words \cup {Err}
         /\ Secret(x, PublicKey(y)) = Err <=> x = 0 \/ y = 0
<1>1. /\ G \in Units /\ Units \subseteq Words /\ 0 \in Words /\ Err \notin Words
      /\ \A u \in Units : u # 0 /\ ~(u > P) 
      /\ \A u \in Words \ {0} : u \in Nat \ {0}
  BY KeyAssumption DEF Units, Words, Err
<1>2. ASSUME NEW u \in Units, NEW n \in Words \ {0}
      PROVE  powmodp(u, n) = power(u)[n] /\ power(u)[n] \in Units
  <2>1. powmodp(u, n) = pow_mod_p(u, n)
    BY <1>1 DEF powmodp
  <2>2. QED
    BY <1>1, <2>1, PowIsPower, Powers
<1>3. ASSUME NEW z \in Words \ {0}
      PROVE  PublicKey(z) = power(G)[z] /\ PublicKey(z) \in Units
  BY <1>1, <1>2 DEF PublicKey
<1>4. PublicKey(0) = 0
  BY DEF PublicKey
<1>5. ASSUME NEW u \in Words \ {0}, NEW v \in Words \ {0}
      PROVE  Secret(u, PublicKey(v)) = power(G)[v * u] /\ Secret(u, PublicKey(v)) \in Units
  <2> DEFINE k == PublicKey(v)
  <2>1. k \in Units /\ k = power(G)[v]
    BY <1>3
  <2> HIDE DEF k
  <2>2. Secret(u, k) = power(k)[u] /\ power(k)[u] \in Units
    BY <1>2, <2>1 DEF Secret
  <2>3. power(power(G)[v])[u] = power(G)[v * u]
    BY <1>1, PowersMultiply
  <2>4. QED
    BY <2>1, <2>2, <2>3 DEF k
<1>6. \A u, v \in Words : u = 0 \/ v = 0 => Secret(u, PublicKey(v)) = Err
  BY <1>4 DEF Secret, powmodp
<1>7. CASE x = 0 \/ y = 0
  <2>1. Secret(x, PublicKey(y)) = Err /\ Secret(y, PublicKey(x)) = Err
    BY <1>6, <1>7
  <2>2. PublicKey(x) \in Words
    BY <1>1, <1>3, <1>4
  <2>3. QED
    BY <1>7, <2>1, <2>2
<1>8. CASE x # 0 /\ y # 0
  <2>1. x * y = y * x
    BY <1>1, <1>8
  <2>2. /\ Secret(x, PublicKey(y)) = power(G)[y * x]
        /\ Secret(y, PublicKey(x)) = power(G)[x * y]
        /\ Secret(x, PublicKey(y)) \in Units /\ PublicKey(x) \in Units
    BY <1>3, <1>5, <1>8
  <2>3. QED
    BY <1>1, <1>8, <2>1, <2>2
<1>9. QED
  BY <1>7, <1>8

-----------------------------------------------------------------------------
(* Streams of packets, and what ParsePacket finds in them.                 *)

(* Packets that say how long they are.                                     *)
Frames == {p \in Seq(Nat) : /\ 4 <= Len(p) /\ Len(p) < Word32
                            /\ Uint32(p) = Len(p)}

(* The bytes are those of the sequences of q, one after the other: the     *)
(* i-th of them ends at cut[i].                                            *)
Cuts(cut, bytes, q) ==
  /\ cut \in [0 .. Len(q) -> 0 .. Len(bytes)]
  /\ cut[0] = 0 /\ cut[Len(q)] = Len(bytes)
  /\ \A i, j \in 0 .. Len(q) : i <= j => cut[i] <= cut[j]
  /\ \A i \in 1 .. Len(q) :
       /\ cut[i] = cut[i - 1] + Len(q[i])
       /\ \A j \in 1 .. Len(q[i]) : bytes[cut[i - 1] + j] = q[i][j]
Spells(bytes, q) == \E cut : Cuts(cut, bytes, q)

(* No packets are no bytes.                                                *)
LEMMA SpellsNothing ==
  /\ Spells(<<>>, <<>>)
  /\ \A bytes \in Seq(Nat) : Spells(bytes, <<>>) => bytes = <<>>
<1>1. Cuts([i \in 0 .. 0 |-> 0], <<>>, <<>>)
  BY DEF Cuts
<1>2. ASSUME NEW bytes \in Seq(Nat), Spells(bytes, <<>>) PROVE bytes = <<>>
  <2>1. Len(bytes) = 0
    BY <1>2 DEF Spells, Cuts
  <2>2. QED
    BY <2>1
<1>3. QED
  BY <1>1, <1>2 DEF Spells

(* What is left of a sequence of bytes.                                    *)
LEMMA Rest ==
  ASSUME NEW bytes \in Seq(Nat), NEW k \in 0 .. Len(bytes)
  PROVE  /\ SubSeq(bytes, k + 1, Len(bytes)) \in Seq(Nat)
         /\ Len(SubSeq(bytes, k + 1, Len(bytes))) = Len(bytes) - k
         /\ \A i \in 1 .. Len(bytes) - k :
              SubSeq(bytes, k + 1, Len(bytes))[i] = bytes[k + i]
<1>1. Len(bytes) \in Nat /\ k \in Nat /\ k + 1 \in Int
  OBVIOUS
<1>2. \A i \in k + 1 .. Len(bytes) : bytes[i] \in Nat
  BY <1>1
<1>3. /\ SubSeq(bytes, k + 1, Len(bytes)) \in Seq(Nat)
      /\ Len(SubSeq(bytes, k + 1, Len(bytes)))
           = IF k + 1 <= Len(bytes) THEN Len(bytes) - (k + 1) + 1 ELSE 0
      /\ \A i \in 1 .. Len(bytes) - (k + 1) + 1 :
           SubSeq(bytes, k + 1, Len(bytes))[i] = bytes[(k + 1) + i - 1]
  BY <1>1, <1>2, SubSeqProperties
<1>4. Len(bytes) - (k + 1) + 1 = Len(bytes) - k
  BY <1>1
<1>5. \A i \in 1 .. Len(bytes) - k : (k + 1) + i - 1 = k + i
  BY <1>1
<1>6. ASSUME NEW i \in 1 .. Len(bytes) - k
      PROVE  SubSeq(bytes, k + 1, Len(bytes))[i] = bytes[k + i]
  <2>1. SubSeq(bytes, k + 1, Len(bytes))[i] = bytes[(k + 1) + i - 1]
    BY <1>3, <1>4
  <2>2. QED
    BY <2>1, <1>5
<1>7. Len(SubSeq(bytes, k + 1, Len(bytes))) = Len(bytes) - k
  <2>1. Len(SubSeq(bytes, k + 1, Len(bytes)))
          = IF k + 1 <= Len(bytes) THEN Len(bytes) - (k + 1) + 1 ELSE 0
    BY <1>3
  <2>2. k <= Len(bytes)
    OBVIOUS
  <2>3. QED
    BY <2>1, <2>2, <1>1
<1>8. SubSeq(bytes, k + 1, Len(bytes)) \in Seq(Nat)
  BY <1>3
<1>9. QED
  BY <1>6, <1>7, <1>8

(* An index within the first of two parts.                                 *)
LEMMA Within ==
  ASSUME NEW n \in Nat, NEW x \in 0 .. n, NEW y \in 0 .. n, NEW z \in Nat,
         y = x + z, NEW j \in 1 .. z
  PROVE  x + j \in 1 .. n
  OBVIOUS

(* An index within the second of two parts.                                *)
LEMMA Shifted ==
  ASSUME NEW n \in Nat, NEW k \in Nat, NEW x \in Nat, k <= x, NEW j \in Nat \ {0},
         x + j \in 1 .. n
  PROVE  x - k + j \in 1 .. n - k
  OBVIOUS

(* Bytes of one more packet put at the end.                                *)
LEMMA SpellsMore ==
  ASSUME NEW bytes \in Seq(Nat), NEW q \in Seq(Seq(Nat)), NEW p \in Seq(Nat),
         Spells(bytes, q)
  PROVE  Spells(bytes \o p, Append(q, p))
<1>1. PICK cut : Cuts(cut, bytes, q)
  BY DEF Spells
<1> DEFINE n   == Len(q)
           q1  == Append(q, p)
           b1  == bytes \o p
           cut1 == [i \in 0 .. n + 1 |-> IF i <= n THEN cut[i] ELSE Len(b1)]
<1>2. /\ n \in Nat /\ Len(q1) = n + 1 /\ q1[n + 1] = p
      /\ \A i \in 1 .. n : q1[i] = q[i] /\ q[i] \in Seq(Nat)
  OBVIOUS
<1>3. /\ Len(b1) = Len(bytes) + Len(p) /\ Len(bytes) \in Nat /\ Len(p) \in Nat
      /\ \A i \in 1 .. Len(bytes) : b1[i] = bytes[i]
      /\ \A i \in 1 .. Len(p) : b1[Len(bytes) + i] = p[i]
  OBVIOUS
<1>4. /\ \A i \in 0 .. n : cut[i] \in 0 .. Len(bytes)
      /\ cut[0] = 0 /\ cut[n] = Len(bytes)
      /\ \A i, j \in 0 .. n : i <= j => cut[i] <= cut[j]
  BY <1>1 DEF Cuts
<1>5. /\ \A i \in 0 .. n : cut1[i] = cut[i]
      /\ cut1[n + 1] = Len(b1)
      /\ cut1 = [i \in 0 .. n + 1 |-> cut1[i]]
  BY <1>2
<1>6. ASSUME NEW i \in 1 .. n
      PROVE  /\ cut[i] = cut[i - 1] + Len(q[i])
             /\ \A j \in 1 .. Len(q[i]) : bytes[cut[i - 1] + j] = q[i][j]
  BY <1>1 DEF Cuts
<1> HIDE DEF n, q1, b1, cut1
<1>15. n \in Nat
  BY <1>2
<1>12. ASSUME NEW i \in 0 .. n + 1 PROVE i \in 0 .. n \/ i = n + 1
  BY <1>2
<1>17. Len(bytes) \in Nat /\ Len(p) \in Nat /\ Len(b1) = Len(bytes) + Len(p)
  BY <1>3
<1>13. ASSUME NEW i \in 0 .. n + 1
       PROVE  cut1[i] \in 0 .. Len(b1) /\ (i \in 0 .. n => cut1[i] <= Len(bytes))
  <2>1. CASE i \in 0 .. n
    <3>1. cut1[i] = cut[i] /\ cut[i] \in 0 .. Len(bytes)
      BY <2>1, <1>4, <1>5
    <3>2. QED
      BY <3>1, <1>17
  <2>2. CASE i = n + 1
    BY ONLY <2>2, <1>3, <1>5, <1>2
  <2>3. QED
    BY <2>1, <2>2, <1>12
<1>7. cut1 \in [0 .. n + 1 -> 0 .. Len(b1)]
  BY ONLY <1>13, <1>5
<1>8. \A i, j \in 0 .. n + 1 : i <= j => cut1[i] <= cut1[j]
  <2>1. TAKE i, j \in 0 .. n + 1
  <2>2. HAVE i <= j
  <2>3. CASE j \in 0 .. n
    <3>1. i \in 0 .. n
      BY <2>2, <2>3, <1>2
    <3>2. QED
      BY ONLY <2>2, <2>3, <3>1, <1>4, <1>5
  <2>4. CASE j = n + 1
    BY ONLY <2>4, <1>13, <1>5, <1>3
  <2>5. QED
    BY <2>3, <2>4, <1>12
<1>9. ASSUME NEW i \in 1 .. n + 1
      PROVE  /\ cut1[i] = cut1[i - 1] + Len(q1[i])
             /\ \A j \in 1 .. Len(q1[i]) : b1[cut1[i - 1] + j] = q1[i][j]
  <2>1. CASE i = n + 1
    <3>1. i - 1 = n /\ n \in 0 .. n
      BY <2>1, <1>2
    <3>2. /\ cut1[i] = Len(b1) /\ cut1[i - 1] = Len(bytes) /\ q1[i] = p
      BY <3>1, <2>1, <1>2, <1>4, <1>5
    <3>3. QED
      BY ONLY <3>2, <1>3
  <2>2. CASE i # n + 1
    <3>1. i \in 1 .. n /\ i - 1 \in 0 .. n /\ i \in 0 .. n
      BY <2>2, <1>2
    <3>2. /\ cut1[i] = cut[i] /\ cut1[i - 1] = cut[i - 1]
          /\ q1[i] = q[i] /\ q[i] \in Seq(Nat)
          /\ cut[i] \in 0 .. Len(bytes) /\ cut[i - 1] \in 0 .. Len(bytes)
      BY <3>1, <1>2, <1>4, <1>5
    <3>3. ASSUME NEW j \in 1 .. Len(q[i])
          PROVE  b1[cut[i - 1] + j] = q[i][j]
      <4>3. cut[i] = cut[i - 1] + Len(q[i]) /\ j \in 1 .. Len(q[i]) /\ Len(q[i]) \in Nat
        <5>1. cut[i] = cut[i - 1] + Len(q[i])
          BY ONLY <3>1, <1>6
        <5>2. QED
          BY <5>1, <3>2
      <4>4. i - 1 \in Int
        BY <1>15
      <4>1. cut[i - 1] + j \in 1 .. Len(bytes)
        BY <3>2, <4>3, <1>17, Within
      <4>2. QED
        BY <4>1, <3>1, <1>6, <1>3
    <3>4. QED
      BY <3>1, <3>2, <3>3, <1>6
  <2>3. QED
    BY <2>1, <2>2
<1>14. cut1[0] = 0
  <2>1. 0 \in 0 .. n
    BY <1>15
  <2>2. cut1[0] = cut[0]
    BY <2>1, <1>5
  <2>3. QED
    BY <2>2, <1>4
<1>18. cut1[n + 1] = Len(b1)
  BY <1>5
<1>16. Len(q1) = n + 1
  BY <1>2
<1>10. Cuts(cut1, b1, q1)
  BY <1>15, <1>16, <1>18, <1>7, <1>8, <1>9, <1>14 DEF Cuts
<1>11. QED
  BY <1>10 DEF Spells, b1, q1

(* The bytes begin with the first packet, and go on with the others.       *)
LEMMA SpellsFirst ==
  ASSUME NEW bytes \in Seq(Nat), NEW q \in Seq(Seq(Nat)), q # <<>>,
         Spells(bytes, q)
  PROVE  /\ Len(q[1]) <= Len(bytes)
         /\ \A j \in 1 .. Len(q[1]) : bytes[j] = q[1][j]
         /\ Spells(SubSeq(bytes, Len(q[1]) + 1, Len(bytes)), Tail(q))
<1>1. PICK cut : Cuts(cut, bytes, q)
  BY DEF Spells
<1> DEFINE n  == Len(q)
           k  == Len(q[1])
           q1 == Tail(q)
           b1 == SubSeq(bytes, k + 1, Len(bytes))
           cut1 == [i \in 0 .. n - 1 |-> cut[i + 1] - k]
<1>2. /\ n \in Nat \ {0} /\ Len(q1) = n - 1
      /\ \A i \in 1 .. n : q[i] \in Seq(Nat)
      /\ \A i \in 1 .. n - 1 : q1[i] = q[i + 1]
  OBVIOUS
<1>3. k \in Nat /\ Len(bytes) \in Nat
  BY <1>2
<1>4. /\ \A i \in 0 .. n : cut[i] \in 0 .. Len(bytes)
      /\ cut[0] = 0 /\ cut[n] = Len(bytes)
      /\ \A i, j \in 0 .. n : i <= j => cut[i] <= cut[j]
  BY <1>1 DEF Cuts
<1>5. ASSUME NEW i \in 1 .. n
      PROVE  /\ cut[i] = cut[i - 1] + Len(q[i])
             /\ \A j \in 1 .. Len(q[i]) : bytes[cut[i - 1] + j] = q[i][j]
  BY <1>1 DEF Cuts
<1>6. /\ cut[1] = k /\ k <= Len(bytes)
      /\ \A j \in 1 .. k : bytes[j] = q[1][j]
  <2>1. 1 \in 1 .. n /\ 1 - 1 = 0
    BY <1>2
  <2>2. /\ cut[1] = cut[0] + Len(q[1])
        /\ \A j \in 1 .. Len(q[1]) : bytes[cut[0] + j] = q[1][j]
    BY <1>5, <2>1
  <2>3. cut[1] \in 0 .. Len(bytes)
    BY <1>4, <1>2
  <2>4. QED
    BY <2>2, <2>3, <1>4, <1>3
<1>7. /\ b1 \in Seq(Nat) /\ Len(b1) = Len(bytes) - k
      /\ \A i \in 1 .. Len(bytes) - k : b1[i] = bytes[k + i]
  <2>1. k \in 0 .. Len(bytes)
    BY <1>3, <1>6
  <2> HIDE DEF k
  <2>2. QED
    BY <2>1, Rest
<1>8. /\ \A i \in 0 .. n - 1 : cut1[i] = cut[i + 1] - k
      /\ cut1 = [i \in 0 .. n - 1 |-> cut1[i]]
  BY <1>2
<1>9. q[1] \in Seq(Nat)
  BY <1>2
<1> HIDE DEF n, k, q1, b1, cut1
<1>10. ASSUME NEW i \in 0 .. n - 1
       PROVE  cut1[i] \in 0 .. Len(b1)
  <2>1. i + 1 \in 0 .. n /\ 1 \in 0 .. n /\ 1 <= i + 1
    BY <1>2
  <2>2. cut[1] <= cut[i + 1] /\ cut[i + 1] \in 0 .. Len(bytes)
    BY <2>1, <1>4
  <2>3. QED
    BY <2>2, <1>3, <1>6, <1>7, <1>8
<1>11. cut1 \in [0 .. n - 1 -> 0 .. Len(b1)]
  BY <1>8, <1>10
<1>12. \A i, j \in 0 .. n - 1 : i <= j => cut1[i] <= cut1[j]
  <2>1. TAKE i, j \in 0 .. n - 1
  <2>2. HAVE i <= j
  <2>3. i + 1 \in 0 .. n /\ j + 1 \in 0 .. n /\ i + 1 <= j + 1
    BY <2>2, <1>2
  <2>4. cut[i + 1] <= cut[j + 1]
    BY <2>3, <1>4
  <2>5. cut[i + 1] \in 0 .. Len(bytes) /\ cut[j + 1] \in 0 .. Len(bytes)
    BY <2>3, <1>4
  <2>6. QED
    BY <2>4, <2>5, <1>8, <1>3
<1>13. ASSUME NEW i \in 1 .. n - 1
       PROVE  /\ cut1[i] = cut1[i - 1] + Len(q1[i])
              /\ \A j \in 1 .. Len(q1[i]) : b1[cut1[i - 1] + j] = q1[i][j]
  <2>1. /\ i + 1 \in 1 .. n /\ i + 1 - 1 = i /\ i - 1 \in 0 .. n - 1
        /\ i \in 0 .. n - 1 /\ i \in 0 .. n /\ i + 1 \in 0 .. n
    BY <1>2
  <2>2. /\ cut[i + 1] = cut[i] + Len(q[i + 1])
        /\ \A j \in 1 .. Len(q[i + 1]) : bytes[cut[i] + j] = q[i + 1][j]
    BY <2>1, <1>5
  <2>3. cut1[i] = cut[i + 1] - k /\ cut1[i - 1] = cut[i] - k
    <3>1. i - 1 + 1 = i
      OBVIOUS
    <3>2. QED
      BY <3>1, <2>1, <1>8
  <2>4. q1[i] = q[i + 1] /\ q[i + 1] \in Seq(Nat)
    BY <2>1, <1>2
  <2>5. /\ cut[i] \in 0 .. Len(bytes) /\ cut[i + 1] \in 0 .. Len(bytes)
        /\ k <= cut[i]
    <3>1. 1 \in 0 .. n /\ 1 <= i
      BY <1>2
    <3>2. cut[1] <= cut[i]
      BY <3>1, <2>1, <1>4
    <3>3. QED
      BY <3>2, <2>1, <1>4, <1>6
  <2>6. ASSUME NEW j \in 1 .. Len(q[i + 1])
        PROVE  b1[cut[i] - k + j] = q[i + 1][j]
    <3>1. cut[i] - k + j \in 1 .. Len(bytes) - k
      <4>1. /\ j \in 1 .. Len(q[i + 1]) /\ Len(q[i + 1]) \in Nat
            /\ cut[i + 1] = cut[i] + Len(q[i + 1])
        BY <2>2, <2>4
      <4>3. cut[i] \in 0 .. Len(bytes) /\ cut[i + 1] \in 0 .. Len(bytes) /\ k <= cut[i]
        BY <2>5
      <4>4. cut[i] + j \in 1 .. Len(bytes)
        BY <4>1, <4>3, <1>3, Within
      <4>5. k <= cut[i] /\ cut[i] \in Nat /\ k \in Nat /\ Len(bytes) \in Nat
        BY <4>3, <1>3
      <4>6. j \in Nat \ {0}
        BY <4>1
      <4>2. QED
        BY <4>4, <4>5, <4>6, Shifted
    <3>2. b1[cut[i] - k + j] = bytes[k + (cut[i] - k + j)]
      BY <3>1, <1>7
    <3>3. k + (cut[i] - k + j) = cut[i] + j
      BY <2>5, <1>3
    <3>4. QED
      BY <3>2, <3>3, <2>2
  <2>7. QED
    BY SMTT(30), <2>2, <2>3, <2>4, <2>5, <2>6, <1>3
<1>14. cut1[0] = 0 /\ cut1[n - 1] = Len(b1)
  <2>1. 0 \in 0 .. n - 1 /\ n - 1 \in 0 .. n - 1 /\ 0 + 1 = 1 /\ n - 1 + 1 = n
    BY <1>2
  <2>2. cut1[0] = cut[1] - k /\ cut1[n - 1] = cut[n] - k
    BY <2>1, <1>8
  <2>3. QED
    BY <2>2, <1>4, <1>6, <1>7, <1>3
<1>15. Cuts(cut1, b1, q1)
  BY <1>2, <1>11, <1>12, <1>13, <1>14 DEF Cuts
<1>16. QED
  BY <1>6, <1>15 DEF Spells, k, q1, b1

(* Words of four bytes are more than a few.                                *)
LEMMA WordNat == CodecAssumption => Word32 \in Nat \ {0} /\ 16 <= Word32
<1>1. ASSUME Byte \in Nat \ {0, 1} PROVE Word32 \in Nat /\ 16 <= Word32
  <2>1. 2 <= Byte
    BY <1>1
  <2>2. Byte * Byte \in Nat /\ 4 <= Byte * Byte
    BY <1>1, <2>1
  <2>3. Byte * Byte * Byte \in Nat /\ 8 <= Byte * Byte * Byte
    BY <1>1, <2>1, <2>2
  <2>4. Byte * Byte * Byte * Byte \in Nat /\ 16 <= Byte * Byte * Byte * Byte
    BY <1>1, <2>1, <2>3
  <2>5. QED
    BY <2>4 DEF Word32
<1>2. QED
  BY <1>1 DEF CodecAssumption

(* What ParsePacket finds in the bytes c that have arrived of a stream     *)
(* that begins with the packet p.                                          *)
LEMMA ParseFirst ==
  ASSUME CodecAssumption, NEW p \in Frames, NEW c \in Seq(Nat),
         \A j \in 1 .. Len(p) : j <= Len(c) => c[j] = p[j]
  PROVE  \/ ParsePacket(c) = 0 /\ Len(c) < Len(p)
         \/ ParsePacket(c) = -1 /\ Len(p) > MaxLength
         \/ ParsePacket(c) = Len(p) /\ Len(p) <= Len(c)
<1>1. /\ p \in Seq(Nat) /\ Len(p) \in Nat /\ 4 <= Len(p) /\ Len(p) < Word32
      /\ Uint32(p) = Len(p) /\ Len(c) \in Nat
  BY DEF Frames
<1>2. Word32 \in Nat
  BY WordNat
<1>3. CASE Len(c) < 4
  BY <1>1, <1>3 DEF ParsePacket
<1>4. CASE Len(c) >= 4
  <2>1. c[1] = p[1] /\ c[2] = p[2] /\ c[3] = p[3] /\ c[4] = p[4]
    BY <1>1, <1>4
  <2>2. Uint32(c) = Len(p)
    BY <2>1, <1>1 DEF Uint32
  <2>3. ParsePacket(c) = IF Signed(Len(p)) > MaxLength \/ Signed(Len(p)) < 0 THEN -1
                         ELSE IF Len(c) < Signed(Len(p)) THEN 0 ELSE Signed(Len(p))
    BY <2>2, <1>1, <1>4 DEF ParsePacket
  <2>4. CASE 2 * Len(p) >= Word32
    <3>1. Signed(Len(p)) = Len(p) - Word32
      BY <2>4 DEF Signed
    <3>2. Signed(Len(p)) < 0
      BY <3>1, <1>1, <1>2
    <3>3. ParsePacket(c) = -1
      BY <2>3, <3>2
    <3>4. Len(p) > MaxLength
      BY <2>4, <1>1, <1>2 DEF CodecAssumption
    <3>5. QED
      BY <3>3, <3>4
  <2>5. CASE ~(2 * Len(p) >= Word32)
    <3>1. Signed(Len(p)) = Len(p)
      BY <2>5 DEF Signed
    <3>2. QED
      BY <3>1, <2>3, <1>1 DEF CodecAssumption
  <2>6. QED
    BY <2>4, <2>5
<1>5. QED
  BY <1>1, <1>3, <1>4

(* What is left after a cut within the first of two sequences.             *)
LEMMA ConcatRest ==
  ASSUME NEW c \in Seq(Nat), NEW w \in Seq(Nat), NEW k \in 0 .. Len(c)
  PROVE  /\ SubSeq(c, k + 1, Len(c)) \o w = SubSeq(c \o w, k + 1, Len(c \o w))
         /\ \A j \in 1 .. Len(c) : (c \o w)[j] = c[j]
         /\ Len(c \o w) = Len(c) + Len(w)
<1> DEFINE b == c \o w
           r == SubSeq(c, k + 1, Len(c))
           z == SubSeq(b, k + 1, Len(b))
<1>1. Len(c) \in Nat /\ Len(w) \in Nat /\ k \in Nat /\ k <= Len(c)
  OBVIOUS
<1>2. /\ b \in Seq(Nat) /\ Len(b) = Len(c) + Len(w)
      /\ \A i \in 1 .. Len(c) + Len(w) : b[i] = IF i <= Len(c) THEN c[i] ELSE w[i - Len(c)]
  BY ConcatProperties
<1>3. /\ r \in Seq(Nat) /\ Len(r) = Len(c) - k
      /\ \A i \in 1 .. Len(c) - k : r[i] = c[k + i]
  BY Rest
<1>4. k \in 0 .. Len(b)
  BY <1>1, <1>2
<1>5. /\ z \in Seq(Nat) /\ Len(z) = Len(b) - k
      /\ \A i \in 1 .. Len(b) - k : z[i] = b[k + i]
  <2> HIDE DEF b
  <2>1. QED
    BY <1>2, <1>4, Rest
<1>6. /\ r \o w \in Seq(Nat) /\ Len(r \o w) = Len(r) + Len(w)
      /\ \A i \in 1 .. Len(r) + Len(w) :
           (r \o w)[i] = IF i <= Len(r) THEN r[i] ELSE w[i - Len(r)]
  <2> HIDE DEF r
  <2>1. QED
    BY <1>3, ConcatProperties
<1> DEFINE y == r \o w
<1>7. /\ y \in Seq(Nat) /\ Len(y) = Len(r) + Len(w)
      /\ \A i \in 1 .. Len(r) + Len(w) :
           y[i] = IF i <= Len(r) THEN r[i] ELSE w[i - Len(r)]
  BY <1>6
<1> HIDE DEF b, r, z, y
<1>8. Len(y) = Len(z)
  BY <1>1, <1>2, <1>3, <1>5, <1>7
<1>9. ASSUME NEW i \in 1 .. Len(y) PROVE y[i] = z[i]
  <2>1. /\ i \in 1 .. Len(r) + Len(w) /\ i \in 1 .. Len(b) - k
        /\ k + i \in 1 .. Len(c) + Len(w) /\ i \in Nat
    BY <1>1, <1>2, <1>3, <1>7
  <2>2. z[i] = b[k + i]
    BY <2>1, <1>5
  <2>3. CASE i <= Len(r)
    <3>5. y[i] = r[i]
      BY <2>1, <2>3, <1>7
    <3>6. i \in 1 .. Len(c) - k
      BY <2>1, <2>3, <1>3, <1>1
    <3>1. y[i] = r[i] /\ r[i] = c[k + i]
      BY <3>5, <3>6, <1>3
    <3>2. k + i <= Len(c)
      BY <2>1, <2>3, <1>1, <1>3
    <3>3. b[k + i] = c[k + i]
      BY <3>2, <2>1, <1>2
    <3>4. QED
      BY <3>1, <3>3, <2>2
  <2>4. CASE ~(i <= Len(r))
    <3>1. y[i] = w[i - Len(r)]
      BY <2>1, <2>4, <1>7
    <3>2. ~(k + i <= Len(c)) /\ k + i - Len(c) = i - Len(r)
      BY <2>1, <2>4, <1>1, <1>3
    <3>5. b[k + i] = IF k + i <= Len(c) THEN c[k + i] ELSE w[k + i - Len(c)]
      <4> DEFINE j == k + i
      <4>1. j \in 1 .. Len(c) + Len(w)
        BY <2>1
      <4> HIDE DEF j
      <4>2. b[j] = IF j <= Len(c) THEN c[j] ELSE w[j - Len(c)]
        BY <4>1, <1>2
      <4>3. QED
        BY <4>2 DEF j
    <3>3. b[k + i] = w[k + i - Len(c)]
      BY <3>2, <3>5
    <3>4. QED
      BY <3>1, <3>2, <3>3, <2>2
  <2>5. QED
    BY <2>3, <2>4
<1>10. y = z
  BY <1>5, <1>7, <1>8, <1>9, SeqEqual
<1>11. \A j \in 1 .. Len(c) : b[j] = c[j]
  BY <1>1, <1>2
<1>12. QED
  BY <1>2, <1>10, <1>11 DEF b, r, z, y

(* What ParsePacket finds at the head of the bytes that are pending:       *)
(* nothing yet, a length that is too long, or the first packet, which is   *)
(* cut off.                                                                *)
LEMMA Cutting ==
  ASSUME CodecAssumption, NEW c \in Seq(Nat), NEW w \in Seq(Nat),
         NEW q \in Seq(Frames), Spells(c \o w, q)
  PROVE  /\ ParsePacket(c) > 0 =>
              /\ q # <<>> /\ ParsePacket(c) = Len(q[1])
              /\ SubSeq(c, 1, ParsePacket(c)) = q[1]
              /\ SubSeq(c, ParsePacket(c) + 1, Len(c)) \in Seq(Nat)
              /\ Spells(SubSeq(c, ParsePacket(c) + 1, Len(c)) \o w, Tail(q))
         /\ ParsePacket(c) < 0 => q # <<>> /\ Len(q[1]) > MaxLength
         /\ ParsePacket(c) = 0 /\ w = <<>> => q = <<>> /\ c = <<>>
<1> DEFINE b == c \o w
<1>1. /\ b \in Seq(Nat) /\ Len(b) = Len(c) + Len(w)
      /\ Len(c) \in Nat /\ Len(w) \in Nat
  BY ConcatProperties
<1>2. CASE q = <<>>
  <2>1. b = <<>>
    BY <1>1, <1>2, SpellsNothing
  <2>2. Len(b) = 0
    BY <2>1
  <2>3. Len(c) = 0
    BY ONLY <2>2, <1>1
  <2>4. c = <<>>
    BY <2>3
  <2>5. ParsePacket(c) = 0
    BY <2>3 DEF ParsePacket
  <2>6. QED
    BY <1>2, <2>4, <2>5
<1>3. CASE q # <<>>
  <2> DEFINE p == q[1]
  <2>1. p \in Frames /\ q \in Seq(Seq(Nat))
    <3>1. Len(q) \in Nat /\ 1 \in 1 .. Len(q)
      BY <1>3
    <3>2. p \in Frames
      BY <3>1, ElementOfSeq
    <3>3. q \in Seq(Seq(Nat))
      BY SeqMonotonic DEF Frames
    <3>4. QED
      BY <3>2, <3>3
  <2>2. /\ Len(p) <= Len(b) /\ \A j \in 1 .. Len(p) : b[j] = p[j]
        /\ Spells(SubSeq(b, Len(p) + 1, Len(b)), Tail(q))
    BY <1>1, <1>3, <2>1, SpellsFirst
  <2>3. p \in Seq(Nat) /\ Len(p) \in Nat /\ 4 <= Len(p)
    BY <2>1 DEF Frames
  <2>4. \A j \in 1 .. Len(c) : b[j] = c[j]
    BY <1>1, ConcatRest
  <2> HIDE DEF b, p
  <2>5. \A j \in 1 .. Len(p) : j <= Len(c) => c[j] = p[j]
    <3>1. TAKE j \in 1 .. Len(p)
    <3>2. HAVE j <= Len(c)
    <3>3. j \in 1 .. Len(c)
      BY <3>2, <2>3, <1>1
    <3>4. QED
      BY <3>3, <2>2, <2>4
  <2>6. \/ ParsePacket(c) = 0 /\ Len(c) < Len(p)
        \/ ParsePacket(c) = -1 /\ Len(p) > MaxLength
        \/ ParsePacket(c) = Len(p) /\ Len(p) <= Len(c)
    BY <2>1, <2>5, ParseFirst
  <2>7. ASSUME ParsePacket(c) > 0
        PROVE  /\ ParsePacket(c) = Len(p)
               /\ SubSeq(c, 1, ParsePacket(c)) = p
               /\ SubSeq(c, ParsePacket(c) + 1, Len(c)) \in Seq(Nat)
               /\ Spells(SubSeq(c, ParsePacket(c) + 1, Len(c)) \o w, Tail(q))
    <3>1. ParsePacket(c) = Len(p) /\ Len(p) <= Len(c)
      BY <2>6, <2>7
    <3>2. Len(p) \in 0 .. Len(c)
      BY <3>1, <2>3, <1>1
    <3>3. SubSeq(c, Len(p) + 1, Len(c)) \o w = SubSeq(b, Len(p) + 1, Len(b))
      BY <3>2, ConcatRest DEF b
    <3>4. SubSeq(c, Len(p) + 1, Len(c)) \in Seq(Nat)
      BY <3>2, Rest
    <3>5. SubSeq(c, 1, Len(p)) = p
      <4>1. /\ SubSeq(c, 1, Len(p)) \in Seq(Nat) /\ Len(SubSeq(c, 1, Len(p))) = Len(p)
            /\ \A i \in 1 .. Len(p) : SubSeq(c, 1, Len(p))[i] = c[i]
        BY SMTT(30), <3>1, <2>3
      <4>2. QED
        BY <4>1, <2>3, <2>5, <3>1, SeqEqual
    <3>6. QED
      BY <3>1, <3>3, <3>4, <3>5, <2>2
  <2>8. ASSUME ParsePacket(c) < 0 PROVE Len(p) > MaxLength
    BY <2>6, <2>8, <2>3
  <2>9. ASSUME ParsePacket(c) = 0, w = <<>> PROVE FALSE
    <3>1. Len(w) = 0
      BY <2>9
    <3>2. Len(c) < Len(p)
      BY <2>6, <2>9, <2>3
    <3>3. QED
      BY <3>1, <3>2, <2>2, <2>3, <1>1
  <2>10. QED
    BY <1>3, <2>7, <2>8, <2>9 DEF p
<1>4. QED
  BY <1>2, <1>3

-----------------------------------------------------------------------------
(* The packets of messages and of the handshake.                           *)

(* The two parts of a concatenation.                                       *)
LEMMA Joined ==
  ASSUME NEW a \in Seq(Nat), NEW b \in Seq(Nat), NEW n \in Nat, Len(a) = n
  PROVE  /\ a \o b \in Seq(Nat) /\ Len(a \o b) = n + Len(b) /\ Len(b) \in Nat
         /\ \A i \in 1 .. n : (a \o b)[i] = a[i]
         /\ \A i \in 1 .. Len(b) : (a \o b)[n + i] = b[i]
<1>1. a \o b \in Seq(Nat) /\ Len(a \o b) = n + Len(b) /\ Len(b) \in Nat
  BY SMTT(30)
<1>2. \A i \in 1 .. n : (a \o b)[i] = a[i]
  OBVIOUS
<1>3. \A i \in 1 .. Len(b) : (a \o b)[n + i] = b[i]
  OBVIOUS
<1>4. QED
  BY <1>1, <1>2, <1>3

(* A head and a body are a packet, whose body is found again.              *)
LEMMA Framing ==
  ASSUME CodecAssumption, NEW body \in Seq(Nat), Len(body) + 4 < Word32
  PROVE  /\ Packet(body) \in Frames
         /\ Len(Packet(body)) = Len(body) + 4
         /\ SubSeq(Packet(body), 5, Len(Packet(body))) = body
<1> DEFINE h == PutUint32(Len(body) + 4)
           p == Packet(body)
<1>1. Len(body) \in Nat /\ Len(body) + 4 \in 0 .. Word32 - 1
  BY WordNat
<1>2. h \in Seq(Nat) /\ Len(h) = 4 /\ Uint32(h) = Len(body) + 4
  <2>1. Byte \in Nat \ {0, 1}
    BY DEF CodecAssumption
  <2>2. QED
    BY <1>1, <2>1, WordBytes
<1>3. p = h \o body
  BY DEF Packet
<1> HIDE DEF h, p
<1>4. /\ p \in Seq(Nat) /\ Len(p) = Len(body) + 4
      /\ \A i \in 1 .. 4 : p[i] = h[i]
      /\ \A i \in 1 .. Len(body) : p[4 + i] = body[i]
  <2>1. /\ h \o body \in Seq(Nat) /\ Len(h \o body) = 4 + Len(body)
        /\ \A i \in 1 .. 4 : (h \o body)[i] = h[i]
        /\ \A i \in 1 .. Len(body) : (h \o body)[4 + i] = body[i]
    <3>1. h \in Seq(Nat) /\ body \in Seq(Nat) /\ 4 \in Nat /\ Len(h) = 4
      BY <1>2
    <3>2. h \o body \in Seq(Nat) /\ Len(h \o body) = 4 + Len(body)
      BY ONLY ZenonT(60), <3>1, Joined
    <3>3. \A i \in 1 .. 4 : (h \o body)[i] = h[i]
      BY ONLY ZenonT(60), <3>1, Joined
    <3>4. \A i \in 1 .. Len(body) : (h \o body)[4 + i] = body[i]
      BY ONLY ZenonT(60), <3>1, Joined
    <3>5. QED
      BY ONLY <3>2, <3>3, <3>4
  <2>2. 4 + Len(body) = Len(body) + 4
    BY <1>1
  <2>3. QED
    BY <2>1, <2>2, <1>3
<1>5. Uint32(p) = Uint32(h)
  BY SMTT(30), <1>4 DEF Uint32
<1>6. p \in Frames
  BY <1>1, <1>2, <1>4, <1>5 DEF Frames
<1>7. SubSeq(p, 5, Len(p)) = body
  <2> DEFINE b == SubSeq(p, 5, Len(p))
  <2>1. 4 \in 0 .. Len(p)
    BY <1>1, <1>4
  <2>2. /\ b \in Seq(Nat) /\ Len(b) = Len(p) - 4
        /\ \A i \in 1 .. Len(p) - 4 : b[i] = p[4 + i]
    BY SMTT(30), <2>1, <1>4, Rest
  <2>3. Len(p) - 4 = Len(body)
    BY <1>1, <1>4
  <2> HIDE DEF b
  <2>4. b = body
    BY ONLY <2>2, <2>3, <1>4, SeqEqual
  <2>5. QED
    BY <2>4 DEF b
<1>8. QED
  BY <1>4, <1>6, <1>7 DEF p

(* The sign of a uid survives its four bytes.                              *)
LEMMA SignedBack ==
  ASSUME NEW n \in Nat \ {0}, NEW uid \in Int, -n <= 2 * uid, 2 * uid < n
  PROVE  /\ uid % n \in 0 .. n - 1
         /\ uid = IF 2 * (uid % n) >= n THEN (uid % n) - n ELSE uid % n
<1>1. CASE uid >= 0
  <2>1. uid < n
    BY <1>1
  <2>2. uid % n = uid
    BY <2>1, <1>1
  <2>3. QED
    BY <2>2, <1>1
<1>2. CASE uid < 0
  <2>1. uid + n \in 0 .. n - 1
    BY <1>2
  <2>2. uid = n * (-1) + (uid + n)
    BY <1>2
  <2>3. uid % n = uid + n
    BY <2>1, <2>2, UniqueQuotient
  <2>4. QED
    BY <2>3, <1>2
<1>3. QED
  BY <1>1, <1>2

(* Decode inverts MkMessage.                                               *)
LEMMA Decoded ==
  ASSUME CodecAssumption, MessageAssumption, NEW msg \in Messages
  PROVE  /\ MkMessage(msg) \in Seq(Nat)
         /\ Len(MkMessage(msg)) = Len(msg.data) + 8
         /\ Decode[MkMessage(msg)] = msg
         /\ msg # NoMessage
<1> DEFINE u == msg.uid % Word32
           h == PutUint32(msg.cmd)
           i == PutUint32(u)
           d == msg.data
           m == MkMessage(msg)
<1>1. Word32 \in Nat \ {0} /\ Byte \in Nat \ {0, 1}
  BY WordNat DEF CodecAssumption
<1>2. /\ msg.cmd \in 0 .. Word32 - 1 /\ msg.uid \in Int /\ d \in Seq(Nat)
      /\ -Word32 <= 2 * msg.uid /\ 2 * msg.uid < Word32
      /\ msg = [cmd |-> msg.cmd, uid |-> msg.uid, data |-> d]
  <2>1. /\ msg \in [cmd : 0 .. Word32 - 1, uid : Int, data : Seq(0 .. Byte - 1)]
        /\ -Word32 <= 2 * msg.uid /\ 2 * msg.uid < Word32
    BY DEF MessageAssumption
  <2>2. d \in Seq(0 .. Byte - 1)
    BY <2>1
  <2>3. 0 .. Byte - 1 \subseteq Nat
    BY <1>1
  <2>4. d \in Seq(Nat)
    BY <2>2, <2>3, SeqMonotonic
  <2>5. QED
    BY <2>1, <2>4
<1>3. u \in 0 .. Word32 - 1 /\ Signed(u) = msg.uid
  BY <1>1, <1>2, SignedBack DEF Signed
<1>4. h \in Seq(Nat) /\ Len(h) = 4 /\ Uint32(h) = msg.cmd
  BY <1>1, <1>2, WordBytes
<1>5. i \in Seq(Nat) /\ Len(i) = 4 /\ Uint32(i) = u
  BY <1>1, <1>3, WordBytes
<1>6. m = h \o i \o d
  BY DEF MkMessage
<1> HIDE DEF u, h, i, d, m
<1>7. /\ m \in Seq(Nat) /\ Len(m) = Len(d) + 8 /\ Len(d) \in Nat
      /\ \A j \in 1 .. 4 : m[j] = h[j]
      /\ \A j \in 1 .. 4 : m[4 + j] = i[j]
      /\ \A j \in 1 .. Len(d) : m[8 + j] = d[j]
  <2> DEFINE hi == h \o i
  <2>1. /\ hi \in Seq(Nat) /\ Len(hi) = 8
        /\ \A j \in 1 .. 4 : hi[j] = h[j]
        /\ \A j \in 1 .. 4 : hi[4 + j] = i[j]
    <3> HIDE DEF hi
    <3>1. 4 \in Nat /\ hi = h \o i
      BY DEF hi
    <3>2. /\ h \o i \in Seq(Nat) /\ Len(h \o i) = 4 + Len(i)
          /\ \A j \in 1 .. 4 : (h \o i)[j] = h[j]
          /\ \A j \in 1 .. Len(i) : (h \o i)[4 + j] = i[j]
      <4>1. h \in Seq(Nat) /\ i \in Seq(Nat) /\ 4 \in Nat /\ Len(h) = 4
        BY <1>4, <1>5
      <4>2. h \o i \in Seq(Nat) /\ Len(h \o i) = 4 + Len(i)
        BY ONLY ZenonT(60), <4>1, Joined
      <4>3. \A j \in 1 .. 4 : (h \o i)[j] = h[j]
        BY ONLY ZenonT(60), <4>1, Joined
      <4>4. \A j \in 1 .. Len(i) : (h \o i)[4 + j] = i[j]
        BY ONLY ZenonT(60), <4>1, Joined
      <4>5. QED
        BY ONLY <4>2, <4>3, <4>4
    <3>3. Len(h \o i) = 8
      BY <3>2, <1>5
    <3>4. \A j \in 1 .. 4 : (h \o i)[4 + j] = i[j]
      BY <3>2, <1>5
    <3>5. QED
      BY ONLY <3>1, <3>2, <3>3, <3>4
  <2>2. m = hi \o d
    BY <1>6
  <2> HIDE DEF hi
  <2>3. /\ m \in Seq(Nat) /\ Len(m) = Len(d) + 8 /\ Len(d) \in Nat
        /\ \A j \in 1 .. 8 : m[j] = hi[j]
        /\ \A j \in 1 .. Len(d) : m[8 + j] = d[j]
    <3>4. 8 \in Nat
      OBVIOUS
    <3>1. /\ hi \o d \in Seq(Nat) /\ Len(hi \o d) = 8 + Len(d) /\ Len(d) \in Nat
          /\ \A j \in 1 .. 8 : (hi \o d)[j] = hi[j]
          /\ \A j \in 1 .. Len(d) : (hi \o d)[8 + j] = d[j]
      BY ZenonT(60), <2>1, <1>2, <3>4, Joined
    <3>2. 8 + Len(d) = Len(d) + 8
      BY <3>1
    <3>3. QED
      BY <3>1, <3>2, <2>2
  <2>4. ASSUME NEW j \in 1 .. 4 PROVE m[j] = h[j] /\ m[4 + j] = i[j]
    <3>1. j \in 1 .. 8 /\ 4 + j \in 1 .. 8
      OBVIOUS
    <3>2. m[j] = hi[j] /\ m[4 + j] = hi[4 + j]
      BY <3>1, <2>3
    <3>3. QED
      BY <3>2, <2>1
  <2>5. QED
    BY <2>3, <2>4
<1>8. Uint32(m) = msg.cmd
  BY <1>4, <1>7 DEF Uint32
<1>9. Uint32(SubSeq(m, 5, 8)) = u
  <2>1. /\ SubSeq(m, 5, 8)[1] = m[5] /\ SubSeq(m, 5, 8)[2] = m[6]
        /\ SubSeq(m, 5, 8)[3] = m[7] /\ SubSeq(m, 5, 8)[4] = m[8]
    BY <1>7
  <2>2. m[5] = i[1] /\ m[6] = i[2] /\ m[7] = i[3] /\ m[8] = i[4]
    BY <1>7
  <2>3. QED
    BY <2>1, <2>2, <1>5 DEF Uint32
<1>10. SubSeq(m, 9, Len(m)) = d
  <2> DEFINE b == SubSeq(m, 9, Len(m))
  <2>1. 8 \in 0 .. Len(m)
    BY <1>7
  <2>2. /\ b \in Seq(Nat) /\ Len(b) = Len(m) - 8
        /\ \A j \in 1 .. Len(m) - 8 : b[j] = m[8 + j]
    <3>1. m \in Seq(Nat) /\ 8 + 1 = 9
      BY <1>7
    <3>2. /\ SubSeq(m, 8 + 1, Len(m)) \in Seq(Nat)
          /\ Len(SubSeq(m, 8 + 1, Len(m))) = Len(m) - 8
          /\ \A j \in 1 .. Len(m) - 8 : SubSeq(m, 8 + 1, Len(m))[j] = m[8 + j]
      BY <2>1, <3>1, Rest
    <3>3. QED
      BY <3>1, <3>2
  <2>3. Len(m) - 8 = Len(d)
    BY <1>7
  <2> HIDE DEF b
  <2>4. b = d
    BY ONLY <2>2, <2>3, <1>7, <1>2, SeqEqual
  <2>5. QED
    BY <2>4 DEF b
<1>11. Decode[m] = msg
  <2>1. ~(Len(m) < 8)
    BY <1>7
  <2>2. Decode[m] = NewMessage(Uint32(m), Signed(Uint32(SubSeq(m, 5, 8))),
                               SubSeq(m, 9, Len(m)))
    BY <2>1, <1>7 DEF Decode
  <2>3. QED
    BY <2>2, <1>2, <1>3, <1>8, <1>9, <1>10 DEF NewMessage
<1>12. msg # NoMessage
  <2>1. msg.cmd # -1
    BY <1>2
  <2>2. QED
    BY <2>1 DEF NoMessage
<1>13. QED
  BY <1>7, <1>11, <1>12 DEF m, d

(* The length of a concatenation.                                          *)
LEMMA JoinedLen ==
  ASSUME NEW a \in Seq(Nat), NEW b \in Seq(Nat)
  PROVE  /\ a \o b \in Seq(Nat) /\ Len(a \o b) = Len(a) + Len(b) /\ Len(b) \in Nat
         /\ \A i \in 1 .. Len(a) : (a \o b)[i] = a[i]
         /\ \A i \in 1 .. Len(b) : (a \o b)[Len(a) + i] = b[i]
  OBVIOUS

(* OnPacketComplete inverts the packing of a message, encrypted or not.    *)
LEMMA Packed ==
  ASSUME CodecAssumption, MessageAssumption, CipherAssumption, secert \in BOOLEAN,
         NEW msg \in Messages, NEW key,
         secert => \E k \in Words : key = KeyOf[k]
  PROVE  /\ Pack(msg, key) \in Frames
         /\ OnPacketComplete(Pack(msg, key), secert, key) = msg
<1> DEFINE m == MkMessage(msg)
<1>1. /\ m \in Seq(Nat) /\ Len(m) = Len(msg.data) + 8
      /\ Decode[m] = msg
  BY Decoded
<1> HIDE DEF m
<1>2. CASE secert
  <2> DEFINE text == Cipher(m, key)
  <2>1. /\ text \in Seq(Nat) /\ Len(text) + 4 < Word32
        /\ Decipher(text, key) = m
    <3>1. PICK k \in Words : key = KeyOf[k]
      BY <1>2
    <3>2. /\ text \in Seq(0 .. Byte - 1) /\ Len(text) + 4 < Word32
          /\ Decipher(text, key) = m
      BY <3>1 DEF CipherAssumption, m
    <3>3. 0 .. Byte - 1 \subseteq Nat
      BY DEF CodecAssumption
    <3>4. text \in Seq(Nat)
      BY <3>2, <3>3, SeqMonotonic
    <3>5. QED
      BY <3>2, <3>4
  <2>2. Pack(msg, key) = Packet(text)
    BY <1>2 DEF Pack, EnBinaryPackage, m
  <2> HIDE DEF text
  <2>3. /\ Packet(text) \in Frames
        /\ SubSeq(Packet(text), 5, Len(Packet(text))) = text
    BY <2>1, Framing
  <2>4. OnPacketComplete(Packet(text), secert, key) = Decode[Decipher(text, key)]
    BY <1>2, <2>3 DEF OnPacketComplete
  <2>5. QED
    BY <2>1, <2>2, <2>3, <2>4, <1>1
<1>3. CASE ~secert
  <2>1. Pack(msg, key) = Packet(m)
    BY <1>3 DEF Pack, Encode, m
  <2>2. Len(m) + 4 < Word32
    <3>1. /\ msg \in [cmd : 0 .. Word32 - 1, uid : Int, data : Seq(0 .. Byte - 1)]
          /\ Len(msg.data) + 12 < Word32
      BY DEF MessageAssumption
    <3>2. Len(msg.data) \in Nat
      BY <3>1
    <3>3. QED
      BY <3>1, <3>2, <1>1, WordNat
  <2>3. /\ Packet(m) \in Frames
        /\ SubSeq(Packet(m), 5, Len(Packet(m))) = m
    BY <1>1, <2>2, Framing
  <2>4. OnPacketComplete(Packet(m), secert, key) = Decode[m]
    BY <1>3, <2>3 DEF OnPacketComplete
  <2>5. QED
    BY <2>1, <2>3, <2>4, <1>1
<1>4. QED
  BY <1>2, <1>3

(* The packets of the handshake.                                           *)
LEMMA Heads ==
  ASSUME CodecAssumption, NEW ack \in Nat, NEW data \in Seq(Nat), 5 + Len(data) < Word32
  PROVE  /\ PackageHead(ack, data) \in Frames
         /\ Len(PackageHead(ack, data)) = 5 + Len(data)
         /\ Ack(PackageHead(ack, data)) = ack
         /\ Data(PackageHead(ack, data)) = data
<1> DEFINE h  == PutUint32(5 + Len(data))
           ha == h \o <<ack>>
           p  == PackageHead(ack, data)
<1>1. Len(data) \in Nat /\ 5 + Len(data) \in 0 .. Word32 - 1
  BY WordNat
<1>2. h \in Seq(Nat) /\ Len(h) = 4 /\ Uint32(h) = 5 + Len(data)
  <2>1. Byte \in Nat \ {0, 1}
    BY DEF CodecAssumption
  <2>2. QED
    BY <1>1, <2>1, WordBytes
<1>3. p = ha \o data
  BY DEF PackageHead
<1> HIDE DEF h, p
<1>4. /\ ha \in Seq(Nat) /\ Len(ha) = 5 /\ ha[5] = ack
      /\ ha[1] = h[1] /\ ha[2] = h[2] /\ ha[3] = h[3] /\ ha[4] = h[4]
  <2>1. 4 \in Nat /\ <<ack>> \in Seq(Nat) /\ Len(<<ack>>) = 1
    OBVIOUS
  <2>2. h \in Seq(Nat) /\ Len(h) = 4
    BY <1>2
  <2>3. /\ ha \in Seq(Nat) /\ Len(ha) = 4 + Len(<<ack>>)
        /\ \A i \in 1 .. 4 : ha[i] = h[i]
        /\ \A i \in 1 .. Len(<<ack>>) : ha[4 + i] = <<ack>>[i]
    <3>1. /\ h \o <<ack>> \in Seq(Nat)
          /\ Len(h \o <<ack>>) = Len(h) + Len(<<ack>>) /\ Len(<<ack>>) \in Nat
          /\ \A i \in 1 .. Len(h) : (h \o <<ack>>)[i] = h[i]
          /\ \A i \in 1 .. Len(<<ack>>) : (h \o <<ack>>)[Len(h) + i] = <<ack>>[i]
      BY <2>1, <2>2, JoinedLen
    <3>2. QED
      BY <3>1, <2>2
  <2> HIDE DEF ha
  <2>4. Len(ha) = 5
    BY <2>1, <2>3
  <2>5. ha[5] = ack
    <3>1. ha[4 + 1] = <<ack>>[1]
      BY <2>1, <2>3
    <3>2. QED
      BY <3>1
  <2>6. QED
    BY <2>3, <2>4, <2>5
<1> HIDE DEF ha
<1>5. /\ ha \o data \in Seq(Nat) /\ Len(ha \o data) = 5 + Len(data)
      /\ \A i \in 1 .. 5 : (ha \o data)[i] = ha[i]
      /\ \A i \in 1 .. Len(data) : (ha \o data)[5 + i] = data[i]
  <2>3. ha \in Seq(Nat) /\ Len(ha) = 5
    BY <1>4
  <2>4. /\ ha \o data \in Seq(Nat) /\ Len(ha \o data) = Len(ha) + Len(data)
        /\ \A i \in 1 .. Len(ha) : (ha \o data)[i] = ha[i]
        /\ \A i \in 1 .. Len(data) : (ha \o data)[Len(ha) + i] = data[i]
    BY <2>3, JoinedLen
  <2>2. QED
    BY <2>3, <2>4
<1>6. /\ p \in Seq(Nat) /\ Len(p) = 5 + Len(data)
      /\ \A i \in 1 .. 5 : p[i] = ha[i]
      /\ \A i \in 1 .. Len(data) : p[5 + i] = data[i]
  BY ONLY <1>3, <1>5
<1>7. /\ p[1] = h[1] /\ p[2] = h[2] /\ p[3] = h[3] /\ p[4] = h[4] /\ p[5] = ack
  BY SMTT(30), <1>4, <1>6
<1>8. Uint32(p) = 5 + Len(data)
  BY <1>2, <1>7 DEF Uint32
<1>9. p \in Frames
  BY <1>1, <1>6, <1>8 DEF Frames
<1>10. Data(p) = data
  <2> DEFINE b == SubSeq(p, 6, Len(p))
  <2>1. 5 \in 0 .. Len(p)
    BY <1>1, <1>6
  <2>2. p \in Seq(Nat) /\ 5 + 1 = 6 /\ Len(p) - 5 = Len(data)
    BY <1>1, <1>6
  <2>3. /\ SubSeq(p, 5 + 1, Len(p)) \in Seq(Nat)
        /\ Len(SubSeq(p, 5 + 1, Len(p))) = Len(p) - 5
        /\ \A j \in 1 .. Len(p) - 5 : SubSeq(p, 5 + 1, Len(p))[j] = p[5 + j]
    BY <2>1, <2>2, Rest
  <2>4. /\ b \in Seq(Nat) /\ Len(b) = Len(data)
        /\ \A j \in 1 .. Len(data) : b[j] = p[5 + j]
    BY <2>2, <2>3
  <2> HIDE DEF b
  <2>5. b = data
    BY ONLY <2>4, <1>6, SeqEqual
  <2>6. QED
    BY <2>5 DEF b, Data
<1>11. QED
  BY <1>6, <1>7, <1>9, <1>10 DEF p, Ack

(* The eight bytes of a word.                                              *)
LEMMA KeyBytes ==
  ASSUME CodecAssumption, SessionAssumption, NEW v \in Words
  PROVE  PutUint64(v) \in Seq(Nat) /\ Len(PutUint64(v)) = 8 /\ Uint64(PutUint64(v)) = v
<1> DEFINE hi == v \div Word32
           lo == v % Word32
<1>1. Word32 \in Nat \ {0} /\ Byte \in Nat \ {0, 1} /\ v \in Nat
  <2>1. v \in Nat
    BY DEF Words
  <2>2. QED
    BY <2>1, WordNat DEF CodecAssumption
<1>2. hi \in Nat /\ lo \in 0 .. Word32 - 1 /\ v = Word32 * hi + lo
  BY <1>1, Quotient
<1>3. hi < Word32
  <2>1. v < Word32 * Word32
    <3>1. v <= Word - 1 /\ Word \in Int
      BY <1>1, KeyAssumption DEF Words, KeyAssumption
    <3>2. Word <= Word32 * Word32 /\ Word32 * Word32 \in Int
      BY <1>1 DEF SessionAssumption
    <3>3. QED
      BY <3>1, <3>2, <1>1
  <2>2. SUFFICES ASSUME hi >= Word32 PROVE FALSE
    BY <1>1, <1>2
  <2>3. Word32 * hi >= Word32 * Word32
    BY <2>2, <1>1, <1>2, Grows
  <2> HIDE DEF hi, lo
  <2>4. Word32 * hi \in Int /\ Word32 * Word32 \in Int
    BY <1>1, <1>2
  <2>5. QED
    BY <2>1, <2>3, <2>4, <1>1, <1>2
<1>4. hi \in 0 .. Word32 - 1
  BY <1>1, <1>2, <1>3
<1> DEFINE h == PutUint32(hi)
           l == PutUint32(lo)
           b == PutUint64(v)
<1>5. b = h \o l
  BY DEF PutUint64
<1> HIDE DEF hi, lo
<1>6. h \in Seq(Nat) /\ Len(h) = 4 /\ Uint32(h) = hi
  BY <1>1, <1>4, WordBytes
<1>7. l \in Seq(Nat) /\ Len(l) = 4 /\ Uint32(l) = lo
  BY <1>1, <1>2, WordBytes
<1> HIDE DEF h, l, b
<1>8. /\ h \o l \in Seq(Nat) /\ Len(h \o l) = 4 + Len(l)
      /\ \A i \in 1 .. 4 : (h \o l)[i] = h[i]
      /\ \A i \in 1 .. Len(l) : (h \o l)[4 + i] = l[i]
  <2>3. h \in Seq(Nat) /\ l \in Seq(Nat) /\ Len(h) = 4
    BY <1>6, <1>7
  <2>4. /\ h \o l \in Seq(Nat) /\ Len(h \o l) = Len(h) + Len(l)
        /\ \A i \in 1 .. Len(h) : (h \o l)[i] = h[i]
        /\ \A i \in 1 .. Len(l) : (h \o l)[Len(h) + i] = l[i]
    BY <2>3, JoinedLen
  <2>2. QED
    BY <2>3, <2>4
<1>9. /\ b \in Seq(Nat) /\ Len(b) = 8
      /\ \A i \in 1 .. 4 : b[i] = h[i]
      /\ \A i \in 1 .. 4 : b[4 + i] = l[i]
  <2>1. 4 + Len(l) = 8
    BY <1>7
  <2>2. QED
    BY <1>5, <1>7, <1>8, <2>1
<1>10. Uint32(b) = hi
  BY <1>6, <1>9 DEF Uint32
<1>11. Uint32(SubSeq(b, 5, 8)) = lo
  <2>1. /\ SubSeq(b, 5, 8)[1] = b[5] /\ SubSeq(b, 5, 8)[2] = b[6]
        /\ SubSeq(b, 5, 8)[3] = b[7] /\ SubSeq(b, 5, 8)[4] = b[8]
    BY <1>9
  <2>2. b[5] = l[1] /\ b[6] = l[2] /\ b[7] = l[3] /\ b[8] = l[4]
    BY <1>9
  <2>3. QED
    BY <2>1, <2>2, <1>7 DEF Uint32
<1>12. QED
  BY <1>2, <1>9, <1>10, <1>11 DEF Uint64, b

(* The packet of 'SW'.                                                     *)
LEMMA AckMsgIs ==
  CodecAssumption /\ SessionAssumption =>
    /\ AckMsg \in Frames /\ Len(AckMsg) <= MaxLength
    /\ Ack(AckMsg) = 1 /\ Data(AckMsg) = SW
<1> SUFFICES ASSUME CodecAssumption, SessionAssumption
             PROVE  /\ AckMsg \in Frames /\ Len(AckMsg) <= MaxLength
                    /\ Ack(AckMsg) = 1 /\ Data(AckMsg) = SW
  OBVIOUS
<1>1. SW \in Seq(Nat) /\ Len(SW) = 2
  <2>1. SW \in [1 .. 2 -> Nat]
    BY DEF SessionAssumption, CodecAssumption
  <2>2. SW \in Seq(Nat)
    <3>1. Seq(Nat) = UNION {[1 .. n -> Nat] : n \in Nat}
      BY SeqDef
    <3>2. SW \in UNION {[1 .. n -> Nat] : n \in Nat}
      BY <2>1
    <3>3. QED
      BY <3>1, <3>2
  <2>3. DOMAIN SW = 1 .. Len(SW) /\ Len(SW) \in Nat
    BY <2>2, LenProperties
  <2>4. DOMAIN SW = 1 .. 2
    BY <2>1
  <2>5. QED
    BY <2>2, <2>3, <2>4
<1>2. 5 + Len(SW) < Word32
  BY <1>1, WordNat
<1>3. /\ PackageHead(1, SW) \in Frames /\ Len(PackageHead(1, SW)) = 5 + Len(SW)
      /\ Ack(PackageHead(1, SW)) = 1 /\ Data(PackageHead(1, SW)) = SW
  BY <1>1, <1>2, Heads
<1>4. QED
  <2>1. 13 <= MaxLength /\ MaxLength \in Nat
    BY DEF SessionAssumption, CodecAssumption
  <2>2. 5 + Len(SW) = 7
    BY <1>1
  <2>3. QED
    BY <2>1, <2>2, <1>3 DEF AckMsg

(* The packet of a public key, and the key read from it.                   *)
LEMMA KeyPacketIs ==
  ASSUME CodecAssumption, SessionAssumption, NEW ack \in Nat, NEW v \in Words
  PROVE  /\ KeyPacket(ack, v) \in Frames /\ Len(KeyPacket(ack, v)) <= MaxLength
         /\ Ack(KeyPacket(ack, v)) = ack /\ Uint64(Data(KeyPacket(ack, v))) = v
<1>1. PutUint64(v) \in Seq(Nat) /\ Len(PutUint64(v)) = 8 /\ Uint64(PutUint64(v)) = v
  BY KeyBytes
<1>2. 5 + Len(PutUint64(v)) < Word32
  BY <1>1, WordNat
<1>3. /\ KeyPacket(ack, v) \in Frames
      /\ Len(KeyPacket(ack, v)) = 5 + Len(PutUint64(v))
      /\ Ack(KeyPacket(ack, v)) = ack /\ Data(KeyPacket(ack, v)) = PutUint64(v)
  BY <1>1, <1>2, Heads DEF KeyPacket
<1>4. QED
  BY <1>1, <1>3 DEF SessionAssumption, CodecAssumption

-----------------------------------------------------------------------------
(* The invariant.                                                          *)

(* What a side has received and not cut yet, and what is on its way to it. *)
Stream(s) == cache[s] \o wire[s]

(* The packets of what s has sent, from the k-th on; those that have yet   *)
(* to be handed to the application of the other side.                      *)
Packets(s) ==
  LET k == Len(got[Other(s)])
  IN [i \in 1 .. Len(sent[s]) - k |-> Pack(sent[s][k + i], secertKey[s])]

(* q are the packets that side s has yet to cut.                           *)
Pending(s, q) == pc[s] # "closed" => Spells(Stream(s), q)

Open == \A s \in Sides : pc[s] # "closed"

(* A side that has not finished the handshake has sent and received no     *)
(* message.                                                                *)
Silent(s) == /\ ~hasRecvFlag[s]
             /\ sent[s] = <<>> /\ got[s] = <<>> /\ secertKey[s] = <<>>
Keyed(s) ==
  LET secret == Secret(private["client"], PublicKey(private["server"]))
  IN /\ hasRecvFlag[s] /\ secret # Err
     /\ secertKey[s] = KeyOf[secret]

(* How far the handshake has come.                                         *)
Greeted ==
  /\ secert /\ Open /\ Silent("client") /\ Silent("server")
  /\ Pending("server", <<AckMsg>>) /\ Pending("client", <<>>)
Offered ==
  /\ secert /\ Open /\ Silent("client") /\ Silent("server")
  /\ Pending("server", <<>>)
  /\ Pending("client", <<KeyPacket(2, PublicKey(private["server"]))>>)
  /\ private["server"] = 0 => zero
Replied ==
  /\ secert /\ Open /\ Keyed("client") /\ Silent("server") /\ got["client"] = <<>>
  /\ Pending("server", <<KeyPacket(3, PublicKey(private["client"]))>> \o Packets("client"))
  /\ Pending("client", <<>>)
Failed ==
  /\ secert /\ pc["client"] = "closed" /\ Silent("client") /\ Silent("server")
  /\ zero /\ \E s \in Sides : private[s] = 0
  /\ Pending("server", <<KeyPacket(3, PublicKey(private["client"]))>>)
Talking ==
  /\ IF secert THEN \A s \in Sides : Keyed(s)
               ELSE \A s \in Sides : hasRecvFlag[s] /\ secertKey[s] = <<>>
  /\ \A s \in Sides : Pending(s, Packets(Other(s)))

Phases == Greeted \/ Offered \/ Replied \/ Failed \/ Talking

(* DoRecv reads again only when it has cut every packet off.               *)
Resting == \A s \in Sides : pc[s] = "read" => pkglen(s) = 0

Typed ==
  /\ secert \in BOOLEAN /\ zero \in BOOLEAN
  /\ wire \in [Sides -> Seq(Nat)] /\ cache \in [Sides -> Seq(Nat)]
  /\ pc \in [Sides -> {"read", "loop", "closed"}]
  /\ private \in [Sides -> Words]
  /\ secertKey \in [Sides -> {<<>>} \cup {KeyOf[k] : k \in Words}]
  /\ hasRecvFlag \in [Sides -> BOOLEAN] /\ told = hasRecvFlag
  /\ sent \in [Sides -> Seq(Messages)] /\ got \in [Sides -> Seq(Messages)]
  /\ sends \in [Sides -> Nat]

Handed == \A s \in Sides :
  /\ Len(got[s]) <= Len(sent[Other(s)])
  /\ \A i \in 1 .. Len(got[s]) : got[s][i] = sent[Other(s)][i]

(* The causes that ClosedForCause admits besides an early message.         *)
Cause ==
  \/ \E s \in Sides : \E i \in 1 .. Len(sent[s]) :
       Len(Pack(sent[s][i], secertKey[s])) > MaxLength
  \/ zero
Justified == (\E s \in Sides : pc[s] = "closed") => Cause

(* As long as no message has been sent early.                              *)
IInv == Typed /\ Resting /\ Handed /\ Justified /\ Phases

(* Each side is the other of the other.                                    *)
LEMMA TwoSides ==
  /\ Sides = {"client", "server"}
  /\ Other("client") = "server" /\ Other("server") = "client"
  /\ \A s \in Sides : Other(s) \in Sides /\ Other(s) # s /\ Other(Other(s)) = s
  BY DEF Sides, Other

(* Without an early message no side is lost.                               *)
LEMMA NeverLost ==
  ASSUME IInv, NEW s \in Sides
  PROVE  /\ Closed(s) <=> pc[s] = "closed"
         /\ Handles(s) <=> pc[s] = "loop"
  BY DEF IInv, Typed, Closed, Handles

(* Who has finished the handshake has a key.                               *)
LEMMA KeyedHasKey ==
  ASSUME IInv, NEW s \in Sides, hasRecvFlag[s]
  PROVE  secert => \E k \in Words : secertKey[s] = KeyOf[k]
<1>1. ASSUME Keyed(s) PROVE \E k \in Words : secertKey[s] = KeyOf[k]
  <2> DEFINE secret == Secret(private["client"], PublicKey(private["server"]))
  <2>1. private["client"] \in Words /\ private["server"] \in Words
    BY TwoSides DEF IInv, Typed
  <2>2. secret \in Words \cup {Err}
    BY <2>1, SecretsAgree
  <2>3. secret # Err /\ secertKey[s] = KeyOf[secret]
    BY <1>1 DEF Keyed
  <2> HIDE DEF secret
  <2>4. QED
    BY <2>2, <2>3
<1>2. ASSUME secert PROVE Keyed(s)
  <2>1. ~Greeted /\ ~Offered /\ ~Failed
    BY TwoSides DEF Greeted, Offered, Failed, Silent
  <2>2. Replied => Keyed(s)
    BY TwoSides DEF Replied, Silent
  <2>3. Talking => Keyed(s)
    BY <1>2 DEF Talking
  <2>4. QED
    BY <2>1, <2>2, <2>3 DEF IInv, Phases
<1>3. QED
  BY <1>1, <1>2

(* The packets of messages sent and not handed on.                         *)
LEMMA PacketsAre ==
  ASSUME IInv, NEW s \in Sides, secert => \E k \in Words : secertKey[s] = KeyOf[k]
  PROVE  /\ Packets(s) \in Seq(Frames)
         /\ Len(got[Other(s)]) \in Nat /\ Len(sent[s]) \in Nat
         /\ Len(got[Other(s)]) <= Len(sent[s])
         /\ Len(Packets(s)) = Len(sent[s]) - Len(got[Other(s)])
         /\ \A i \in 1 .. Len(sent[s]) - Len(got[Other(s)]) :
              /\ sent[s][Len(got[Other(s)]) + i] \in Messages
              /\ Packets(s)[i] = Pack(sent[s][Len(got[Other(s)]) + i], secertKey[s])
<1> DEFINE k == Len(got[Other(s)])
           n == Len(sent[s]) - k
           f(i) == Pack(sent[s][k + i], secertKey[s])
<1>1. Other(s) \in Sides /\ Other(Other(s)) = s
  BY TwoSides
<1>2. /\ sent[s] \in Seq(Messages) /\ got[Other(s)] \in Seq(Messages)
      /\ secert \in BOOLEAN
  BY <1>1 DEF IInv, Typed
<1>3. k \in Nat /\ Len(sent[s]) \in Nat /\ k <= Len(sent[s])
  BY <1>1, <1>2 DEF IInv, Handed
<1>4. n \in Nat
  BY <1>3
<1>5. ASSUME NEW i \in 1 .. n PROVE sent[s][k + i] \in Messages /\ f(i) \in Frames
  <2>1. k + i \in 1 .. Len(sent[s])
    BY <1>3
  <2>2. sent[s][k + i] \in Messages
    BY <2>1, <1>2
  <2>3. f(i) \in Frames
    BY <2>2, <1>2, Packed, CodecAssumption, MessageAssumption, CipherAssumption
  <2>4. QED
    BY <2>2, <2>3
<1>6. Packets(s) = [i \in 1 .. n |-> f(i)]
  BY DEF Packets
<1> HIDE DEF n, f, k
<1>7. /\ [i \in 1 .. n |-> f(i)] \in Seq(Frames)
      /\ Len([i \in 1 .. n |-> f(i)]) = n
      /\ \A i \in 1 .. n : [j \in 1 .. n |-> f(j)][i] = f(i)
  BY <1>4, <1>5
<1>8. QED
  BY <1>3, <1>5, <1>6, <1>7 DEF n, f, k

-----------------------------------------------------------------------------
(* What a step does to the packets pending.                                *)

(* Concatenation of bytes is associative.                                  *)
LEMMA Associative ==
  ASSUME NEW a \in Seq(Nat), NEW b \in Seq(Nat), NEW c \in Seq(Nat)
  PROVE  (a \o b) \o c = a \o (b \o c)
  BY SMTT(30), ConcatAssociative

(* Read moves bytes and changes none.                                      *)
LEMMA ReadKeeps ==
  ASSUME NEW c \in Seq(Nat), NEW w \in Seq(Nat), NEW n \in 1 .. Len(w)
  PROVE  /\ c \o SubSeq(w, 1, n) \in Seq(Nat) /\ SubSeq(w, n + 1, Len(w)) \in Seq(Nat)
         /\ (c \o SubSeq(w, 1, n)) \o SubSeq(w, n + 1, Len(w)) = c \o w
<1> DEFINE a == SubSeq(w, 1, n)
           b == SubSeq(w, n + 1, Len(w))
<1>1. n \in 0 .. Len(w)
  OBVIOUS
<1>2. b \in Seq(Nat)
  BY <1>1, Rest
<1>3. a \in Seq(Nat)
  OBVIOUS
<1>4. a \o b = w
  <2>1. /\ 1 \in 1 .. Len(w) + 1 /\ n \in 1 - 1 .. Len(w)
        /\ Len(w) \in n .. Len(w)
    OBVIOUS
  <2>2. SubSeq(w, 1, n) \o SubSeq(w, n + 1, Len(w)) = SubSeq(w, 1, Len(w))
    BY <2>1, ConcatAdjacentSubSeq
  <2>3. SubSeq(w, 1, Len(w)) = w
    BY SubSeqFull
  <2>4. QED
    BY <2>2, <2>3
<1> HIDE DEF a, b
<1>5. c \o a \in Seq(Nat)
  BY <1>3
<1>6. (c \o a) \o b = c \o (a \o b)
  <2>1. c \in Seq(Nat) /\ a \in Seq(Nat) /\ b \in Seq(Nat)
    BY <1>2, <1>3
  <2>2. QED
    BY <2>1, Associative
<1>7. QED
  BY <1>2, <1>4, <1>5, <1>6 DEF a, b

(* A packet is put behind those that are pending.                          *)
LEMMA Sending ==
  ASSUME NEW c \in Seq(Nat), NEW w \in Seq(Nat), NEW q \in Seq(Frames),
         NEW p \in Frames, Spells(c \o w, q)
  PROVE  w \o p \in Seq(Nat) /\ Spells(c \o (w \o p), Append(q, p))
<1>1. p \in Seq(Nat) /\ q \in Seq(Seq(Nat))
  BY SeqMonotonic DEF Frames
<1>2. c \o w \in Seq(Nat) /\ w \o p \in Seq(Nat)
  BY <1>1
<1>3. Spells((c \o w) \o p, Append(q, p))
  BY <1>1, <1>2, SpellsMore
<1>4. (c \o w) \o p = c \o (w \o p)
  BY <1>1, Associative
<1>5. QED
  BY <1>2, <1>3, <1>4

(* A step that neither sends nor cuts a packet.                            *)
LEMMA Steady ==
  ASSUME Phases,
         UNCHANGED <<secert, zero, private, secertKey, hasRecvFlag, sent, got>>,
         \A s \in Sides : pc'[s] = "closed" <=> pc[s] = "closed",
         \A s \in Sides : cache'[s] \o wire'[s] = cache[s] \o wire[s]
  PROVE  Phases'
<1> USE TwoSides
<1>1. \A s \in Sides : (Silent(s) => Silent(s)') /\ (Keyed(s) => Keyed(s)')
  BY DEF Silent, Keyed
<1>2. Packets("client")' = Packets("client") /\ Packets("server")' = Packets("server")
  BY DEF Packets, Pack
<1>3. Open => Open'
  BY DEF Open
<1>4. Greeted => Greeted'
  BY <1>1, <1>3 DEF Greeted, Pending, Stream
<1>5. Offered => Offered'
  BY <1>1, <1>3 DEF Offered, Pending, Stream
<1>6. Replied => Replied'
  BY <1>1, <1>2, <1>3 DEF Replied, Pending, Stream
<1>7. Failed => Failed'
  BY <1>1 DEF Failed, Pending, Stream
<1>8. Talking => Talking'
  <2>1. ASSUME Talking, NEW s \in Sides PROVE Pending(s, Packets(Other(s)))'
    <3>1. Packets(Other(s))' = Packets(Other(s))
      BY <1>2
    <3>2. QED
      BY <2>1, <3>1 DEF Talking, Pending, Stream
  <2>2. QED
    BY <1>1, <2>1 DEF Talking
<1>9. QED
  BY <1>4, <1>5, <1>6, <1>7, <1>8 DEF Phases

(* What pends for a side that nothing happens to.                          *)
LEMMA Unnoticed ==
  ASSUME IInv, UNCHANGED <<secert, zero, private, secertKey, hasRecvFlag, told, sends, sent, got>>
  PROVE  /\ (\A s \in Sides : pc'[s] = "closed" <=> pc[s] = "closed") => Justified'
         /\ Handed'
<1>1. Handed'
  BY DEF IInv, Handed
<1>2. (\A s \in Sides : pc'[s] = "closed" <=> pc[s] = "closed") => Justified'
  BY DEF IInv, Justified, Cause, Pack
<1>3. QED
  BY <1>1, <1>2

(* Read keeps the invariant.                                               *)
LEMMA ReadStep ==
  ASSUME IInv, NEW s \in Sides, Read(s)
  PROVE  IInv'
<1>1. cache[s] \in Seq(Nat) /\ wire[s] \in Seq(Nat)
  BY DEF IInv, Typed
<1>2. PICK n \in 1 .. Len(wire[s]) :
        /\ cache' = [cache EXCEPT ![s] = @ \o SubSeq(wire[s], 1, n)]
        /\ wire'  = [wire EXCEPT ![s] = SubSeq(@, n + 1, Len(@))]
  BY DEF Read
<1>3. /\ cache[s] \o SubSeq(wire[s], 1, n) \in Seq(Nat)
      /\ SubSeq(wire[s], n + 1, Len(wire[s])) \in Seq(Nat)
      /\ (cache[s] \o SubSeq(wire[s], 1, n)) \o SubSeq(wire[s], n + 1, Len(wire[s]))
           = cache[s] \o wire[s]
  BY <1>1, ReadKeeps
<1>4. cache \in [Sides -> Seq(Nat)] /\ wire \in [Sides -> Seq(Nat)]
  BY DEF IInv, Typed
<1>5. /\ cache' \in [Sides -> Seq(Nat)] /\ wire' \in [Sides -> Seq(Nat)]
      /\ \A t \in Sides : cache'[t] \o wire'[t] = cache[t] \o wire[t]
  BY <1>2, <1>3, <1>4
<1>6. /\ pc[s] = "read" /\ pc' = [pc EXCEPT ![s] = "loop"]
      /\ pc \in [Sides -> {"read", "loop", "closed"}]
      /\ UNCHANGED <<secert, zero, private, secertKey, told, hasRecvFlag, sends, sent, got>>
  BY DEF Read, keyVars, IInv, Typed
<1>7. \A t \in Sides : pc'[t] = "closed" <=> pc[t] = "closed"
  BY <1>6
<1>8. Phases'
  BY <1>5, <1>6, <1>7, Steady DEF IInv
<1>9. Justified' /\ Handed'
  BY <1>6, <1>7, Unnoticed
<1>10. Typed'
  BY <1>5, <1>6 DEF IInv, Typed
<1>11. Resting'
  <2>1. \A t \in Sides : pc'[t] = "read" => t # s /\ pc[t] = "read" /\ cache'[t] = cache[t]
    BY <1>2, <1>4, <1>6
  <2>2. QED
    BY <2>1 DEF IInv, Resting, pkglen
<1>12. QED
  BY <1>8, <1>9, <1>10, <1>11 DEF IInv

(* So does going back to read,                                             *)
LEMMA NeedMoreStep ==
  ASSUME IInv, NEW s \in Sides, NeedMore(s)
  PROVE  IInv'
<1>1. /\ pc[s] = "loop" /\ pkglen(s) = 0 /\ pc' = [pc EXCEPT ![s] = "read"]
      /\ pc \in [Sides -> {"read", "loop", "closed"}]
      /\ UNCHANGED <<secert, zero, private, secertKey, told, hasRecvFlag, sends, sent, got,
                     wire, cache>>
  BY NeverLost DEF NeedMore, keyVars, IInv, Typed
<1>2. \A t \in Sides : pc'[t] = "closed" <=> pc[t] = "closed"
  BY <1>1
<1>3. Phases'
  BY <1>1, <1>2, Steady DEF IInv
<1>4. Justified' /\ Handed'
  BY <1>1, <1>2, Unnoticed
<1>5. Typed'
  BY <1>1 DEF IInv, Typed
<1>6. Resting'
  BY <1>1 DEF IInv, Resting, pkglen
<1>7. QED
  BY <1>3, <1>4, <1>5, <1>6 DEF IInv

(* and doing nothing.                                                      *)
LEMMA UnchangedStep ==
  ASSUME IInv, UNCHANGED vars
  PROVE  IInv'
<1>1. UNCHANGED <<secert, zero, private, secertKey, told, hasRecvFlag, sends, sent, got,
                  wire, cache, pc>>
  BY DEF vars, keyVars
<1>2. Phases'
  BY <1>1, Steady DEF IInv
<1>3. Justified' /\ Handed'
  BY <1>1, Unnoticed
<1>4. Typed'
  BY <1>1 DEF IInv, Typed
<1>5. Resting'
  BY <1>1 DEF IInv, Resting, pkglen
<1>6. QED
  BY <1>2, <1>3, <1>4, <1>5 DEF IInv

(* A packet behind which more bytes are written.                           *)
LEMMA Combined ==
  ASSUME NEW a \in Nat, NEW b \in Nat, NEW d \in Nat
  PROVE  a * b + d \in Nat
<1>1. a * b \in Nat
  OBVIOUS
<1>2. QED
  BY <1>1

(* ParsePacket returns an integer.                                         *)
LEMMA ParseInt ==
  ASSUME CodecAssumption, NEW c \in Seq(Nat)
  PROVE  ParsePacket(c) \in Int
<1>1. CASE Len(c) < 4
  BY <1>1 DEF ParsePacket
<1>2. CASE ~(Len(c) < 4)
  <2>1. Uint32(c) \in Int
    <3>1. c[1] \in Nat /\ c[2] \in Nat /\ c[3] \in Nat /\ c[4] \in Nat
      BY <1>2
    <3>2. Byte \in Nat
      BY DEF CodecAssumption
    <3> DEFINE x == Byte * c[1] + c[2]
               y == Byte * x + c[3]
    <3>3. x \in Nat
      BY <3>1, <3>2, Combined
    <3> HIDE DEF x
    <3>4. y \in Nat
      BY <3>1, <3>2, <3>3, Combined
    <3> HIDE DEF y
    <3>5. Byte * y + c[4] \in Nat
      BY <3>1, <3>2, <3>4, Combined
    <3>6. QED
      BY <3>5 DEF Uint32, x, y
  <2>2. Signed(Uint32(c)) \in Int
    BY <2>1, WordNat DEF Signed
  <2>3. QED
    BY <1>2, <2>2 DEF ParsePacket
<1>3. QED
  BY <1>1, <1>2

(* A packet before others.                                                 *)
LEMMA Consed ==
  ASSUME NEW S, NEW p \in S, NEW r \in Seq(S), NEW x \in S
  PROVE  /\ <<p>> \o r \in Seq(S) /\ <<p>> \o r # <<>> /\ (<<p>> \o r)[1] = p
         /\ Tail(<<p>> \o r) = r
         /\ Append(<<p>> \o r, x) = <<p>> \o Append(r, x)
<1>1. /\ <<p>> \o r \in Seq(S) /\ Len(<<p>> \o r) = 1 + Len(r) /\ Len(r) \in Nat
      /\ (<<p>> \o r)[1] = p /\ \A i \in 1 .. Len(r) : (<<p>> \o r)[i + 1] = r[i]
  OBVIOUS
<1>2. <<p>> \o r # <<>>
  BY <1>1
<1>3. Tail(<<p>> \o r) = r
  <2> DEFINE c == <<p>> \o r
             t == Tail(c)
  <2>1. t \in Seq(S) /\ Len(t) = Len(c) - 1 /\ \A i \in 1 .. Len(t) : t[i] = c[i + 1]
    BY <1>1, <1>2, HeadTailProperties
  <2>2. Len(t) = Len(r)
    BY <2>1, <1>1
  <2> HIDE DEF t
  <2>3. \A i \in 1 .. Len(t) : t[i] = r[i]
    BY <2>1, <2>2, <1>1
  <2>4. t = r
    BY <2>1, <2>2, <2>3, SeqEqual
  <2>5. QED
    BY <2>4 DEF t
<1>4. Append(<<p>> \o r, x) = <<p>> \o Append(r, x)
  <2> DEFINE a == Append(<<p>> \o r, x)
             b == <<p>> \o Append(r, x)
  <2>1. /\ a \in Seq(S) /\ Len(a) = Len(r) + 2
        /\ b \in Seq(S) /\ Len(b) = Len(r) + 2
    BY <1>1
  <2>2. ASSUME NEW i \in 1 .. Len(r) + 2 PROVE a[i] = b[i]
    <3>1. CASE i = Len(r) + 2
      BY <3>1, <1>1
    <3>2. CASE i # Len(r) + 2
      BY <3>2, <1>1
    <3>3. QED
      BY <3>1, <3>2
  <2> HIDE DEF a, b
  <2>3. a = b
    BY <2>1, <2>2, SeqEqual
  <2>4. QED
    BY <2>3 DEF a, b
<1>5. QED
  BY <1>1, <1>2, <1>3, <1>4

(* A packet alone.                                                         *)
LEMMA Single ==
  ASSUME NEW S, NEW p \in S
  PROVE  /\ <<p>> \in Seq(S) /\ <<p>> # <<>> /\ <<p>>[1] = p /\ Tail(<<p>>) = <<>>
         /\ <<>> \in Seq(S) /\ Append(<<>>, p) = <<p>>
  OBVIOUS

(* What a side finds in its cache when these packets are pending.          *)
LEMMA NextPacket ==
  ASSUME IInv, NEW s \in Sides, pc[s] = "loop", NEW q \in Seq(Frames), Pending(s, q)
  PROVE  /\ pkglen(s) \in Int
         /\ pkglen(s) > 0 =>
              /\ q # <<>> /\ pkglen(s) = Len(q[1]) /\ First(s) = q[1]
              /\ SubSeq(cache[s], pkglen(s) + 1, Len(cache[s])) \in Seq(Nat)
              /\ Spells(SubSeq(cache[s], pkglen(s) + 1, Len(cache[s])) \o wire[s], Tail(q))
         /\ pkglen(s) < 0 => q # <<>> /\ Len(q[1]) > MaxLength
<1>1. cache[s] \in Seq(Nat) /\ wire[s] \in Seq(Nat)
  BY DEF IInv, Typed
<1>2. Spells(cache[s] \o wire[s], q)
  BY DEF Pending, Stream
<1>3. /\ ParsePacket(cache[s]) > 0 =>
              /\ q # <<>> /\ ParsePacket(cache[s]) = Len(q[1])
              /\ SubSeq(cache[s], 1, ParsePacket(cache[s])) = q[1]
              /\ SubSeq(cache[s], ParsePacket(cache[s]) + 1, Len(cache[s])) \in Seq(Nat)
              /\ Spells(SubSeq(cache[s], ParsePacket(cache[s]) + 1, Len(cache[s])) \o wire[s],
                        Tail(q))
      /\ ParsePacket(cache[s]) < 0 => q # <<>> /\ Len(q[1]) > MaxLength
  BY <1>1, <1>2, Cutting, CodecAssumption
<1>4. ParsePacket(cache[s]) \in Int
  BY <1>1, ParseInt, CodecAssumption
<1>5. QED
  BY <1>3, <1>4 DEF pkglen, First

(* What the sides have drawn, and the packet that the client answers with. *)
LEMMA KeyPackets ==
  ASSUME IInv
  PROVE  /\ private["client"] \in Words /\ private["server"] \in Words
         /\ \A ack \in Nat, s \in Sides :
              LET p == KeyPacket(ack, PublicKey(private[s]))
              IN /\ p \in Frames /\ Len(p) <= MaxLength /\ Ack(p) = ack
                 /\ Key(p) = PublicKey(private[s])
<1>1. private["client"] \in Words /\ private["server"] \in Words
  BY TwoSides DEF IInv, Typed
<1>2. \A s \in Sides : PublicKey(private[s]) \in Words
  BY <1>1, TwoSides, SecretsAgree
<1>3. \A w \in Words : Wrap(w) = w
  BY KeyAssumption, SmallRemainder DEF Wrap, Words, KeyAssumption
<1>4. QED
  BY <1>1, <1>2, <1>3, KeyPacketIs, CodecAssumption, SessionAssumption DEF Key

(* A side that cuts a packet off before the handshake is over.             *)
LEMMA Unfinished ==
  ASSUME IInv, ~Talking, NEW s \in Sides, pc[s] = "loop", pkglen(s) # 0
  PROVE  /\ pkglen(s) > 0 /\ ~hasRecvFlag[s]
         /\ \/ s = "server" /\ Greeted /\ First(s) = AckMsg
            \/ s = "client" /\ Offered
                 /\ First(s) = KeyPacket(2, PublicKey(private["server"]))
            \/ s = "server" /\ (Replied \/ Failed)
                 /\ First(s) = KeyPacket(3, PublicKey(private["client"]))
<1> USE TwoSides
<1>1. <<>> \in Seq(Frames)
  OBVIOUS
<1>2. ~Pending(s, <<>>)
  <2>1. SUFFICES ASSUME Pending(s, <<>>) PROVE FALSE
    OBVIOUS
  <2>2. /\ pkglen(s) \in Int
        /\ ~(pkglen(s) > 0) /\ ~(pkglen(s) < 0)
    BY <1>1, <2>1, NextPacket
  <2>3. QED
    BY <2>2
<1>3. ASSUME NEW q \in Seq(Frames), Pending(s, q), q # <<>> => Len(q[1]) <= MaxLength
      PROVE  pkglen(s) > 0 /\ First(s) = q[1]
  <2>1. /\ pkglen(s) \in Int
        /\ pkglen(s) > 0 => q # <<>> /\ First(s) = q[1]
        /\ pkglen(s) < 0 => q # <<>> /\ Len(q[1]) > MaxLength
    BY <1>3, NextPacket
  <2>2. q # <<>> => Len(q[1]) \in Nat
    <3>1. ASSUME q # <<>> PROVE Len(q[1]) \in Nat
      <4>1. q[1] \in Frames
        BY <3>1
      <4>2. QED
        BY <4>1 DEF Frames
    <3>2. QED
      BY <3>1
  <2>3. MaxLength \in Nat
    BY CodecAssumption DEF CodecAssumption
  <2>4. QED
    BY <2>1, <2>2, <2>3, <1>3
<1>4. CASE Greeted
  <2>1. s = "server" /\ Pending(s, <<AckMsg>>) /\ ~hasRecvFlag[s]
    BY <1>2, <1>4 DEF Greeted, Silent
  <2>2. AckMsg \in Frames /\ Len(AckMsg) <= MaxLength
    BY AckMsgIs, CodecAssumption, SessionAssumption
  <2>3. pkglen(s) > 0 /\ First(s) = AckMsg
    BY <1>3, <2>1, <2>2, Single
  <2>4. QED
    BY <1>4, <2>1, <2>3
<1>5. CASE Offered
  <2> DEFINE p == KeyPacket(2, PublicKey(private["server"]))
  <2>1. s = "client" /\ Pending(s, <<p>>) /\ ~hasRecvFlag[s]
    BY <1>2, <1>5 DEF Offered, Silent
  <2>2. p \in Frames /\ Len(p) <= MaxLength
    BY KeyPackets
  <2> HIDE DEF p
  <2>3. pkglen(s) > 0 /\ First(s) = p
    BY <1>3, <2>1, <2>2, Single
  <2>4. QED
    BY <1>5, <2>1, <2>3 DEF p
<1>6. CASE Replied
  <2> DEFINE p == KeyPacket(3, PublicKey(private["client"]))
             r == Packets("client")
  <2>1. s = "server" /\ Pending(s, <<p>> \o r) /\ ~hasRecvFlag[s] /\ Keyed("client")
    BY <1>2, <1>6 DEF Replied, Silent
  <2>2. p \in Frames /\ Len(p) <= MaxLength
    BY KeyPackets
  <2>3. r \in Seq(Frames)
    BY <2>1, PacketsAre, KeyedHasKey DEF Keyed
  <2> HIDE DEF p, r
  <2>4. <<p>> \o r \in Seq(Frames) /\ (<<p>> \o r)[1] = p
    BY <2>2, <2>3, Consed
  <2>5. pkglen(s) > 0 /\ First(s) = p
    BY <1>3, <2>1, <2>2, <2>4
  <2>6. QED
    BY <1>6, <2>1, <2>5 DEF p
<1>7. CASE Failed
  <2> DEFINE p == KeyPacket(3, PublicKey(private["client"]))
  <2>1. s = "server" /\ Pending(s, <<p>>) /\ ~hasRecvFlag[s]
    BY <1>7 DEF Failed, Silent
  <2>2. p \in Frames /\ Len(p) <= MaxLength
    BY KeyPackets
  <2> HIDE DEF p
  <2>3. pkglen(s) > 0 /\ First(s) = p
    BY <1>3, <2>1, <2>2, Single
  <2>4. QED
    BY <1>7, <2>1, <2>3 DEF p
<1>8. QED
  BY <1>4, <1>5, <1>6, <1>7 DEF IInv, Phases

(* s sends one more message.                                               *)
LEMMA Growing ==
  ASSUME IInv, NEW s \in Sides, secert => \E k \in Words : secertKey[s] = KeyOf[k],
         NEW msg \in Messages, sent'[s] = Append(sent[s], msg),
         got'[Other(s)] = got[Other(s)], secertKey'[s] = secertKey[s], secert' = secert
  PROVE  Packets(s)' = Append(Packets(s), Pack(msg, secertKey[s]))
<1> DEFINE k == Len(got[Other(s)])
           n == Len(sent[s]) - k
           p == Packets(s)
           x == Pack(msg, secertKey[s])
<1>1. /\ p \in Seq(Frames) /\ Len(p) = n
      /\ k \in Nat /\ Len(sent[s]) \in Nat /\ k <= Len(sent[s])
      /\ \A i \in 1 .. n : p[i] = Pack(sent[s][k + i], secertKey[s])
  BY PacketsAre
<1>2. x \in Frames
  BY Packed, CodecAssumption, MessageAssumption, CipherAssumption DEF IInv, Typed
<1>3. /\ sent[s] \in Seq(Messages) /\ Len(sent'[s]) = Len(sent[s]) + 1
      /\ sent'[s][Len(sent[s]) + 1] = msg
      /\ \A i \in 1 .. Len(sent[s]) : sent'[s][i] = sent[s][i]
  BY DEF IInv, Typed
<1>4. Packets(s)' = [i \in 1 .. Len(sent'[s]) - k |-> Pack(sent'[s][k + i], secertKey[s])]
  BY DEF Packets, Pack
<1>5. /\ Len(sent'[s]) - k = n + 1 /\ n \in Nat
      /\ n = Len(sent[s]) - k /\ n + k = Len(sent[s])
  BY <1>1, <1>3
<1>12. x = Pack(msg, secertKey[s])
  OBVIOUS
<1> HIDE DEF k, n, p, x
<1>13. /\ Append(p, x) \in Seq(Frames) /\ Len(Append(p, x)) = n + 1
       /\ Append(p, x)[n + 1] = x
       /\ \A i \in 1 .. n : Append(p, x)[i] = p[i] /\ p[i] \in Frames
  <2>1. p \in Seq(Frames) /\ Len(p) = n
    BY <1>1
  <2>2. QED
    BY <2>1, <1>2
<1> DEFINE f(i) == Pack(sent'[s][k + i], secertKey[s])
           q == [i \in 1 .. n + 1 |-> f(i)]
<1>6. ASSUME NEW i \in 1 .. n + 1
      PROVE  f(i) = Append(p, x)[i] /\ f(i) \in Frames
  <2>1. CASE i = n + 1
    <3>1. k + i = Len(sent[s]) + 1
      BY <2>1, <1>1, <1>5
    <3>2. f(i) = x
      BY <3>1, <1>3, <1>12
    <3>3. Append(p, x)[i] = x
      BY <2>1, <1>13
    <3>4. QED
      BY <3>2, <3>3, <1>2
  <2>2. CASE i # n + 1
    <3>1. i \in 1 .. n /\ k + i \in 1 .. Len(sent[s])
      BY <2>2, <1>1, <1>5
    <3>2. f(i) = p[i]
      BY <3>1, <1>1, <1>3
    <3>3. Append(p, x)[i] = p[i] /\ p[i] \in Frames
      BY <3>1, <1>13
    <3>4. QED
      BY <3>2, <3>3
  <2>3. QED
    BY <2>1, <2>2
<1> HIDE DEF f
<1>7. q \in Seq(Frames) /\ Len(q) = n + 1 /\ \A i \in 1 .. n + 1 : q[i] = f(i)
  <2>1. n + 1 \in Nat
    BY <1>5
  <2>2. \A i \in 1 .. n + 1 : f(i) \in Frames
    BY <1>6
  <2> DEFINE m == n + 1
  <2> HIDE DEF m
  <2>3. m \in Nat /\ \A i \in 1 .. m : f(i) \in Frames
    BY <2>1, <2>2 DEF m
  <2>4. /\ [i \in 1 .. m |-> f(i)] \in Seq(Frames) /\ Len([i \in 1 .. m |-> f(i)]) = m
        /\ \A i \in 1 .. m : [j \in 1 .. m |-> f(j)][i] = f(i)
    BY <2>3
  <2>5. QED
    BY <2>4 DEF m
<1>9. Packets(s)' = q
  BY <1>4, <1>5 DEF f
<1> HIDE DEF q
<1>10. q = Append(p, x)
  BY <1>6, <1>7, <1>13, SeqEqual
<1>11. QED
  BY <1>9, <1>10 DEF p, x

(* The other side hands one more message on.                               *)
LEMMA Shrinking ==
  ASSUME IInv, NEW s \in Sides, secert => \E k \in Words : secertKey[s] = KeyOf[k],
         Packets(s) # <<>>, NEW msg, got'[Other(s)] = Append(got[Other(s)], msg),
         msg \in Messages, sent'[s] = sent[s], secertKey'[s] = secertKey[s],
         secert' = secert
  PROVE  Packets(s)' = Tail(Packets(s))
<1> DEFINE k == Len(got[Other(s)])
           n == Len(sent[s]) - k
           p == Packets(s)
<1>1. /\ p \in Seq(Frames) /\ Len(p) = n
      /\ k \in Nat /\ Len(sent[s]) \in Nat /\ k <= Len(sent[s])
      /\ \A i \in 1 .. n : p[i] = Pack(sent[s][k + i], secertKey[s])
  BY PacketsAre
<1>2. Len(got'[Other(s)]) = k + 1
  BY TwoSides DEF IInv, Typed
<1>3. Packets(s)' = [i \in 1 .. Len(sent[s]) - (k + 1) |->
                       Pack(sent[s][(k + 1) + i], secertKey[s])]
  BY <1>2 DEF Packets, Pack
<1>4. Len(sent[s]) - (k + 1) = n - 1 /\ n \in Nat \ {0}
  <2>1. n # 0
    BY <1>1
  <2>2. QED
    BY <2>1, <1>1
<1>11. n + k = Len(sent[s])
  BY <1>1
<1> HIDE DEF k, n, p
<1> DEFINE f(i) == Pack(sent[s][(k + 1) + i], secertKey[s])
           q == [i \in 1 .. n - 1 |-> f(i)]
<1>5. /\ Tail(p) \in Seq(Frames) /\ Len(Tail(p)) = n - 1
      /\ \A i \in 1 .. n - 1 : Tail(p)[i] = p[i + 1]
  <2>1. p \in Seq(Frames) /\ Len(p) = n /\ p # <<>>
    BY <1>1 DEF p
  <2> DEFINE t == Tail(p)
  <2>2. t \in Seq(Frames) /\ Len(t) = Len(p) - 1 /\ \A i \in 1 .. Len(t) : t[i] = p[i + 1]
    BY <2>1, HeadTailProperties
  <2> HIDE DEF t
  <2>3. t \in Seq(Frames) /\ Len(t) = n - 1 /\ \A i \in 1 .. n - 1 : t[i] = p[i + 1]
    BY <2>1, <2>2
  <2>4. QED
    BY <2>3 DEF t
<1>6. ASSUME NEW i \in 1 .. n - 1
      PROVE  f(i) = Tail(p)[i] /\ f(i) \in Frames
  <2>1. i + 1 \in 1 .. n /\ (k + 1) + i = k + (i + 1)
    <3>1. n \in Nat /\ k \in Nat
      BY <1>1, <1>4
    <3>2. QED
      BY <3>1
  <2>2. f(i) = p[i + 1]
    BY <2>1, <1>1
  <2>3. p[i + 1] \in Frames
    <3>1. p \in Seq(Frames) /\ Len(p) = n
      BY <1>1
    <3>2. QED
      BY <2>1, <3>1
  <2>4. QED
    BY <2>2, <2>3, <1>5
<1> HIDE DEF f
<1>7. q \in Seq(Frames) /\ Len(q) = n - 1 /\ \A i \in 1 .. n - 1 : q[i] = f(i)
  BY <1>4, <1>6, SMTT(30)
<1>8. Packets(s)' = q
  BY <1>3, <1>4 DEF f
<1> HIDE DEF q
<1>9. q = Tail(p)
  BY <1>5, <1>6, <1>7, SeqEqual
<1>10. QED
  BY <1>8, <1>9 DEF p

(* A cause for closing remains one.                                        *)
LEMMA CauseRemains ==
  ASSUME IInv, Cause, UNCHANGED <<secert, secertKey, zero>>,
         \A s \in Sides : sent'[s] = sent[s] \/ \E msg \in Messages : sent'[s] = Append(sent[s], msg)
  PROVE  Cause'
<1>1. CASE zero
  BY <1>1 DEF Cause
<1>2. ASSUME NEW s \in Sides, NEW i \in 1 .. Len(sent[s]),
             Len(Pack(sent[s][i], secertKey[s])) > MaxLength
      PROVE  Cause'
  <2>1. sent[s] \in Seq(Messages)
    BY DEF IInv, Typed
  <2>2. i \in 1 .. Len(sent'[s]) /\ sent'[s][i] = sent[s][i]
    <3>1. CASE sent'[s] = sent[s]
      BY <3>1
    <3>2. ASSUME NEW msg \in Messages, sent'[s] = Append(sent[s], msg)
          PROVE  i \in 1 .. Len(sent'[s]) /\ sent'[s][i] = sent[s][i]
      BY <3>2, <2>1
    <3>3. QED
      BY <3>1, <3>2
  <2>3. Len(Pack(sent'[s][i], secertKey'[s])) > MaxLength
    BY <2>2, <1>2
  <2>4. Pack(sent'[s][i], secertKey'[s])
          = IF secert' THEN EnBinaryPackage(sent'[s][i], secertKey'[s]) ELSE Encode(sent'[s][i])
    BY DEF Pack
  <2>5. QED
    BY <2>2, <2>3, <2>4 DEF Cause, Pack
<1>3. QED
  BY <1>1, <1>2 DEF Cause

(* Hanging up keeps the invariant.                                         *)
LEMMA HangUpStep ==
  ASSUME IInv, NEW s \in Sides, HangUp(s)
  PROVE  IInv'
<1> USE TwoSides
<1>1. /\ pc[s] = "read" /\ pc[Other(s)] = "closed" /\ pc' = [pc EXCEPT ![s] = "closed"]
      /\ pc \in [Sides -> {"read", "loop", "closed"}]
      /\ UNCHANGED <<secert, zero, private, secertKey, told, hasRecvFlag, sends, sent, got,
                     wire, cache>>
  BY NeverLost, TwoSides DEF HangUp, keyVars, IInv, Typed
<1>2. Justified'
  <2>1. Cause
    BY <1>1 DEF IInv, Justified
  <2>2. Cause'
    BY <1>1, <2>1, CauseRemains
  <2>3. QED
    BY <2>2 DEF Justified
<1>3. Handed' /\ Typed' /\ Resting'
  BY <1>1 DEF IInv, Typed, Handed, Resting, pkglen
<1>4. Failed \/ Talking
  BY <1>1 DEF IInv, Phases, Greeted, Offered, Replied, Open
<1>5. \A t \in Sides : pc'[t] # "closed" => pc[t] # "closed"
  BY <1>1
<1>6. Failed => Failed'
  BY <1>1, <1>5 DEF Failed, Silent, Pending, Stream
<1>7. Talking => Talking'
  <2>1. \A t \in Sides : Packets(t)' = Packets(t)
    BY <1>1 DEF Packets, Pack
  <2>2. ASSUME Talking, NEW t \in Sides PROVE Pending(t, Packets(Other(t)))'
    <3>1. Pending(t, Packets(Other(t)))
      BY <2>2 DEF Talking
    <3>2. QED
      BY <2>1, <3>1, <1>1, <1>5 DEF Pending, Stream
  <2>3. QED
    BY <1>1, <2>2 DEF Talking, Keyed
<1>8. QED
  BY <1>2, <1>3, <1>4, <1>6, <1>7 DEF IInv, Phases

(* A length that is refused is that of an overlong packet.                 *)
LEMMA BadLengthStep ==
  ASSUME IInv, NEW s \in Sides, BadLength(s)
  PROVE  IInv'
<1> USE TwoSides
<1>1. /\ pc[s] = "loop" /\ pkglen(s) < 0 /\ pc' = [pc EXCEPT ![s] = "closed"]
      /\ pc \in [Sides -> {"read", "loop", "closed"}]
      /\ wire' = [wire EXCEPT ![s] = <<>>] /\ wire \in [Sides -> Seq(Nat)]
      /\ UNCHANGED <<secert, zero, private, secertKey, told, hasRecvFlag, sends, sent, got, cache>>
  BY NeverLost DEF BadLength, Close, keyVars, IInv, Typed
<1>2. Talking
  <2>1. SUFFICES ASSUME ~Talking PROVE FALSE
    OBVIOUS
  <2>2. pkglen(s) # 0
    BY <1>1
  <2>3. pkglen(s) > 0
    BY <1>1, <2>1, <2>2, Unfinished
  <2>4. pkglen(s) \in Int
    BY ParseInt, CodecAssumption DEF pkglen, IInv, Typed
  <2>5. QED
    BY <1>1, <2>3, <2>4
<1>3. \A t \in Sides : secert => \E k \in Words : secertKey[t] = KeyOf[k]
  BY <1>2, KeyedHasKey DEF Talking, Keyed
<1>4. Cause
  <2> DEFINE o == Other(s)
             q == Packets(o)
  <2>1. /\ q \in Seq(Frames) /\ Len(got[s]) \in Nat /\ Len(sent[o]) \in Nat
        /\ Len(got[s]) <= Len(sent[o]) /\ Len(q) = Len(sent[o]) - Len(got[s])
        /\ \A i \in 1 .. Len(sent[o]) - Len(got[s]) :
             q[i] = Pack(sent[o][Len(got[s]) + i], secertKey[o])
    BY ZenonT(60), <1>3, PacketsAre
  <2>2. Pending(s, q)
    BY <1>2 DEF Talking
  <2>3. q # <<>> /\ Len(q[1]) > MaxLength
    BY <1>1, <2>1, <2>2, NextPacket
  <2>4. Len(q) # 0
    BY <2>1, <2>3
  <2>5. /\ 1 \in 1 .. Len(sent[o]) - Len(got[s])
        /\ Len(got[s]) + 1 \in 1 .. Len(sent[o])
    BY <2>1, <2>4
  <2>6. q[1] = Pack(sent[o][Len(got[s]) + 1], secertKey[o])
    BY <2>1, <2>5
  <2>7. QED
    BY <2>3, <2>5, <2>6 DEF Cause
<1>5. Justified'
  <2>1. Cause'
    BY <1>1, <1>4, CauseRemains
  <2>2. QED
    BY <2>1 DEF Justified
<1>6. Handed' /\ Resting'
  BY <1>1 DEF IInv, Handed, Resting, pkglen
<1>7. Typed'
  <2>1. wire' \in [Sides -> Seq(Nat)]
    BY <1>1
  <2>2. QED
    BY <1>1, <2>1 DEF IInv, Typed
<1>8. Talking'
  <2>1. \A t \in Sides : Packets(t)' = Packets(t)
    BY <1>1 DEF Packets, Pack
  <2>2. ASSUME NEW t \in Sides PROVE Pending(t, Packets(Other(t)))'
    <3>1. Pending(t, Packets(Other(t)))
      BY <1>2 DEF Talking
    <3>2. pc'[t] # "closed" => pc[t] # "closed" /\ cache'[t] = cache[t] /\ wire'[t] = wire[t]
      BY <1>1
    <3>3. QED
      BY <2>1, <3>1, <3>2 DEF Pending, Stream
  <2>3. QED
    BY <1>1, <1>2, <2>2 DEF Talking, Keyed
<1>9. QED
  BY <1>5, <1>6, <1>7, <1>8 DEF IInv, Phases

-----------------------------------------------------------------------------
(* The handshake, messages and what the application sends.                 *)

(* The server's answer to 'SW' keeps the invariant.                        *)
LEMMA GetsSWStep ==
  ASSUME IInv, ServerGetsSW
  PROVE  IInv'
<1> USE TwoSides
<1> DEFINE rest == SubSeq(cache["server"], pkglen("server") + 1, Len(cache["server"]))
<1>0. ServerGetsSW /\ pc["server"] = "loop" /\ pc["server"] # "lost"
  BY NeverLost DEF ServerGetsSW, Shakes, AtPacket
<1>1. PICK x \in PrivateKeys :
        /\ private' = [private EXCEPT !["server"] = x] /\ zero' = (zero \/ x = 0)
        /\ Cut("server") /\ Write("server", KeyPacket(2, PublicKey(x)))
  BY <1>0 DEF ServerGetsSW
<1> DEFINE p == KeyPacket(2, PublicKey(x))
<1>2. /\ pc["server"] = "loop" /\ pkglen("server") > 0 /\ ~hasRecvFlag["server"]
      /\ Ack(First("server")) = 1 /\ cache' = [cache EXCEPT !["server"] = rest]
      /\ UNCHANGED <<secert, secertKey, told, hasRecvFlag, sends, sent, got, pc>>
  BY <1>0, <1>1 DEF ServerGetsSW, Shakes, AtPacket, Cut
<1>3. /\ cache \in [Sides -> Seq(Nat)] /\ wire \in [Sides -> Seq(Nat)]
      /\ private \in [Sides -> Words] /\ pc \in [Sides -> {"read", "loop", "closed"}]
  BY DEF IInv, Typed
<1>4. x \in Words /\ p \in Frames
  <2>1. x \in Words
    BY SessionAssumption DEF SessionAssumption
  <2>2. PublicKey(x) \in Words
    BY <2>1, SecretsAgree
  <2>3. QED
    BY <2>1, <2>2, KeyPacketIs, CodecAssumption, SessionAssumption
<1>5. Greeted
  <2>1. ~Talking
    BY <1>2 DEF Talking, Keyed
  <2>2. pkglen("server") # 0
    BY <1>2
  <2>3. \/ Greeted
        \/ First("server") = KeyPacket(3, PublicKey(private["client"]))
    BY <1>2, <2>1, <2>2, Unfinished
  <2>4. Ack(KeyPacket(3, PublicKey(private["client"]))) = 3
    BY KeyPackets
  <2>5. QED
    BY <1>2, <2>3, <2>4
<1>6. rest \in Seq(Nat) /\ Spells(rest \o wire["server"], <<>>)
  <2>1. Pending("server", <<AckMsg>>)
    BY <1>5 DEF Greeted
  <2>2. AckMsg \in Frames
    BY AckMsgIs, CodecAssumption, SessionAssumption
  <2>3. <<AckMsg>> \in Seq(Frames) /\ Tail(<<AckMsg>>) = <<>>
    BY <2>2, Single
  <2>4. rest \in Seq(Nat) /\ Spells(rest \o wire["server"], Tail(<<AckMsg>>))
    BY <1>2, <2>1, <2>3, NextPacket
  <2>5. QED
    BY <2>3, <2>4
<1>7. /\ wire["client"] \o p \in Seq(Nat)
      /\ Spells(cache["client"] \o (wire["client"] \o p), <<p>>)
  <2>1. Spells(cache["client"] \o wire["client"], <<>>)
    BY <1>5 DEF Greeted, Pending, Stream, Open
  <2>2. cache["client"] \in Seq(Nat) /\ wire["client"] \in Seq(Nat)
    BY <1>3
  <2> HIDE DEF p
  <2>3. <<>> \in Seq(Frames) /\ Append(<<>>, p) = <<p>>
    BY <1>4, Single
  <2>4. /\ wire["client"] \o p \in Seq(Nat)
        /\ Spells(cache["client"] \o (wire["client"] \o p), Append(<<>>, p))
    BY <2>1, <2>2, <2>3, <1>4, Sending
  <2>5. QED
    BY <2>3, <2>4
<1>8. wire' = [wire EXCEPT !["client"] = @ \o p]
  <2>1. ~Closed("client") /\ ~Closed("server")
    BY <1>5, NeverLost DEF Greeted, Open
  <2>2. QED
    BY <1>1, <2>1 DEF Write
<1>9. /\ PublicKey(private'["server"]) = PublicKey(x)
      /\ private'["server"] = 0 => zero'
  BY <1>1, <1>3
<1> HIDE DEF p, rest
<1>10. /\ cache'["server"] = rest /\ wire'["server"] = wire["server"]
       /\ cache'["client"] = cache["client"] /\ wire'["client"] = wire["client"] \o p
       /\ cache' \in [Sides -> Seq(Nat)] /\ wire' \in [Sides -> Seq(Nat)]
       /\ private' \in [Sides -> Words]
  BY <1>1, <1>2, <1>3, <1>4, <1>6, <1>7, <1>8
<1>11. Offered'
  <2>1. Pending("server", <<>>)'
    BY <1>6, <1>10 DEF Pending, Stream
  <2>2. Pending("client", <<p>>)'
    BY <1>7, <1>10 DEF Pending, Stream
  <2>3. <<KeyPacket(2, PublicKey(private["server"]))>>' = <<p>>
    BY <1>9 DEF p, KeyPacket
  <2>4. secert' /\ Open' /\ Silent("client")' /\ Silent("server")'
    BY <1>2, <1>5 DEF Greeted, Open, Silent
  <2>5. Pending("client", <<KeyPacket(2, PublicKey(private["server"]))>>)'
    BY <2>2, <2>3 DEF Pending
  <2>6. QED
    BY <1>9, <2>1, <2>4, <2>5 DEF Offered
<1>12. Justified'
  BY <1>11 DEF Offered, Open, Justified
<1>13. Typed'
  BY <1>1, <1>2, <1>10 DEF IInv, Typed
<1>14. Handed'
  BY <1>2 DEF IInv, Handed
<1>15. Resting'
  <2>1. \A t \in Sides : pc'[t] = "read" => t # "server" /\ pc[t] = "read" /\ cache'[t] = cache[t]
    BY <1>2, <1>3
  <2>2. QED
    BY <2>1 DEF IInv, Resting, pkglen
<1>16. QED
  BY <1>11, <1>12, <1>13, <1>14, <1>15 DEF IInv, Phases

(* The client's answer to the key keeps the invariant.                     *)
LEMMA ClientGetsKeyStep ==
  ASSUME IInv, ClientGetsKey
  PROVE  IInv'
<1> USE TwoSides
<1> DEFINE c == "client"
           packet == First(c)
           rest == SubSeq(cache[c], pkglen(c) + 1, Len(cache[c]))
           beat == Heartbeat(ClientUid)
           y == private["server"]
<1>1. PICK x \in PrivateKeys :
        LET secret == Secret(x, Key(packet))
            reply  == KeyPacket(3, PublicKey(x))
        IN /\ private' = [private EXCEPT !["client"] = x] /\ zero' = (zero \/ x = 0)
           /\ IF secret = Err
                THEN /\ pc' = [pc EXCEPT !["client"] = "closed"]
                     /\ Write("client", reply)
                     /\ UNCHANGED <<cache, secertKey, told, hasRecvFlag, sent>>
                ELSE /\ Cut("client")
                     /\ secertKey' = [secertKey EXCEPT !["client"] = KeyOf[secret]]
                     /\ told' = [told EXCEPT !["client"] = TRUE]
                     /\ hasRecvFlag' = [hasRecvFlag EXCEPT !["client"] = TRUE]
                     /\ sent' = [sent EXCEPT !["client"] = Append(@, beat)]
                     /\ Write("client", reply \o Pack(beat, KeyOf[secret]))
  BY DEF ClientGetsKey
<1>2. /\ pc[c] = "loop" /\ pkglen(c) > 0 /\ ~hasRecvFlag[c] /\ Ack(packet) = 2
      /\ UNCHANGED <<secert, sends, got>>
  BY NeverLost, TwoSides DEF ClientGetsKey, Shakes, AtPacket
<1>3. /\ cache \in [Sides -> Seq(Nat)] /\ wire \in [Sides -> Seq(Nat)]
      /\ private \in [Sides -> Words] /\ pc \in [Sides -> {"read", "loop", "closed"}]
      /\ secertKey \in [Sides -> {<<>>} \cup {KeyOf[k] : k \in Words}]
      /\ hasRecvFlag \in [Sides -> BOOLEAN] /\ told = hasRecvFlag
      /\ sent \in [Sides -> Seq(Messages)] /\ secert \in BOOLEAN
  BY DEF IInv, Typed
<1> DEFINE z == KeyPacket(2, PublicKey(y))
<1>4. Offered /\ packet = z
  <2>1. ~Talking
    BY <1>2 DEF Talking, Keyed
  <2>2. pkglen(c) # 0
    BY <1>2
  <2>3. QED
    BY <1>2, <2>1, <2>2, Unfinished
<1>5. Key(packet) = PublicKey(y) /\ z \in Frames /\ y \in Words
  BY <1>4, KeyPackets
<1> DEFINE secret == Secret(x, PublicKey(y))
           reply  == KeyPacket(3, PublicKey(x))
<1>6. /\ x \in Words /\ reply \in Frames
      /\ secret \in Words \cup {Err} /\ (secret = Err => x = 0 \/ y = 0)
  <2>1. x \in Words
    BY SessionAssumption DEF SessionAssumption
  <2>2. PublicKey(x) \in Words
    BY <2>1, SecretsAgree
  <2>3. QED
    BY <2>1, <2>2, <1>5, SecretsAgree, KeyPacketIs, CodecAssumption, SessionAssumption
<1>7. /\ secert /\ Open /\ Silent("client") /\ Silent("server")
      /\ Pending("server", <<>>) /\ Pending("client", <<z>>)
      /\ (y = 0 => zero) /\ ~Closed("client") /\ ~Closed("server")
  BY <1>4, NeverLost DEF Offered, Open
<1>8. /\ rest \in Seq(Nat) /\ Spells(rest \o wire[c], <<>>)
  <2>1. <<z>> \in Seq(Frames) /\ Tail(<<z>>) = <<>>
    BY <1>5, Single
  <2>2. rest \in Seq(Nat) /\ Spells(rest \o wire[c], Tail(<<z>>))
    BY <1>2, <1>7, <2>1, NextPacket
  <2>3. QED
    BY <2>1, <2>2
<1>9. /\ private' = [private EXCEPT ![c] = x]
      /\ private' \in [Sides -> Words] /\ private'[c] = x /\ private'["server"] = y
  BY <1>1, <1>3, <1>6
<1>10. /\ wire["server"] \o reply \in Seq(Nat)
       /\ Spells(cache["server"] \o (wire["server"] \o reply), <<reply>>)
  <2>1. Spells(cache["server"] \o wire["server"], <<>>)
    BY <1>7 DEF Pending, Stream, Open
  <2>2. cache["server"] \in Seq(Nat) /\ wire["server"] \in Seq(Nat)
    BY <1>3
  <2> HIDE DEF reply
  <2>3. <<>> \in Seq(Frames) /\ Append(<<>>, reply) = <<reply>>
    BY <1>6, Single
  <2>4. /\ wire["server"] \o reply \in Seq(Nat)
        /\ Spells(cache["server"] \o (wire["server"] \o reply), Append(<<>>, reply))
    BY <2>1, <2>2, <2>3, <1>6, Sending
  <2>5. QED
    BY <2>3, <2>4
<1>11. CASE secret = Err
  <2>1. /\ pc' = [pc EXCEPT ![c] = "closed"] /\ Write(c, reply)
        /\ UNCHANGED <<cache, secertKey, told, hasRecvFlag, sent>>
    BY <1>1, <1>5, <1>11
  <2>2. wire' = [wire EXCEPT !["server"] = @ \o reply]
    <3>1. ~Closed("client") /\ ~Closed("server")
      BY <1>7
    <3>2. QED
      BY <2>1, <3>1 DEF Write
  <2>3. (x = 0 \/ y = 0) /\ zero'
    BY <1>1, <1>6, <1>7, <1>11
  <2> HIDE DEF reply, rest, packet, secret, beat
  <2>4. zero' /\ \E s \in Sides : private'[s] = 0
    BY <1>9, <2>3
  <2>5. Failed'
    <3>1. Pending("server", <<reply>>)'
      BY <1>3, <1>10, <2>1, <2>2 DEF Pending, Stream
    <3>2. reply = KeyPacket(3, PublicKey(private["client"]))'
      BY <1>9 DEF reply, KeyPacket
    <3>3. Pending("server", <<KeyPacket(3, PublicKey(private["client"]))>>)'
      BY <3>1, <3>2 DEF Pending
    <3>4. Silent("client")' /\ Silent("server")' /\ secert' /\ pc'["client"] = "closed"
      BY <1>2, <1>3, <1>7, <2>1 DEF Silent
    <3>5. QED
      BY <2>4, <3>3, <3>4 DEF Failed
  <2>6. Justified'
    BY <2>4 DEF Justified, Cause
  <2>7. Typed'
    BY <1>1, <1>2, <1>3, <1>9, <1>10, <2>1, <2>2 DEF IInv, Typed
  <2>8. Handed'
    BY <1>2, <2>1 DEF IInv, Handed
  <2>9. Resting'
    BY <1>2, <1>3, <2>1 DEF IInv, Resting, pkglen
  <2>10. QED
    BY <2>5, <2>6, <2>7, <2>8, <2>9 DEF IInv, Phases
<1>12. CASE secret # Err
  <2> DEFINE key == KeyOf[secret]
             p == Pack(beat, key)
  <2>1. /\ cache' = [cache EXCEPT ![c] = rest] /\ UNCHANGED pc
        /\ secertKey' = [secertKey EXCEPT ![c] = key]
        /\ told' = [told EXCEPT ![c] = TRUE]
        /\ hasRecvFlag' = [hasRecvFlag EXCEPT ![c] = TRUE]
        /\ sent' = [sent EXCEPT ![c] = Append(@, beat)]
        /\ Write(c, reply \o p)
    BY <1>1, <1>5, <1>12 DEF Cut
  <2>2. wire' = [wire EXCEPT !["server"] = @ \o (reply \o p)]
    <3>1. ~Closed("client") /\ ~Closed("server")
      BY <1>7
    <3>2. QED
      BY <2>1, <3>1 DEF Write
  <2>3. beat \in Messages
    BY DEF Messages
  <2>4. secret \in Words /\ secert
    BY <1>6, <1>7, <1>12
  <2>5. p \in Frames
    BY <2>3, <2>4, <1>3, Packed, CodecAssumption, MessageAssumption, CipherAssumption
  <2> HIDE DEF reply, rest, packet, secret, beat, key, p
  <2>6. /\ wire["server"] \o (reply \o p) \in Seq(Nat)
        /\ Spells(cache["server"] \o (wire["server"] \o (reply \o p)), <<reply>> \o <<p>>)
    <3>1. cache["server"] \in Seq(Nat) /\ wire["server"] \in Seq(Nat)
      BY <1>3
    <3>2. <<reply>> \in Seq(Frames)
      BY <1>6
    <3>3. /\ (wire["server"] \o reply) \o p \in Seq(Nat)
          /\ Spells(cache["server"] \o ((wire["server"] \o reply) \o p), Append(<<reply>>, p))
      BY <3>1, <3>2, <1>10, <2>5, Sending
    <3>4. (wire["server"] \o reply) \o p = wire["server"] \o (reply \o p)
      <4>1. reply \in Seq(Nat) /\ p \in Seq(Nat)
        BY <1>6, <2>5 DEF Frames
      <4>2. QED
        BY <3>1, <4>1, Associative
    <3>5. Append(<<reply>>, p) = <<reply>> \o <<p>>
      BY <3>2, <2>5
    <3>6. QED
      BY <3>3, <3>4, <3>5
  <2>7. /\ cache'["server"] = cache["server"] /\ cache'[c] = rest
        /\ wire'["server"] = wire["server"] \o (reply \o p) /\ wire'[c] = wire[c]
        /\ cache' \in [Sides -> Seq(Nat)] /\ wire' \in [Sides -> Seq(Nat)]
    BY <1>3, <1>8, <2>1, <2>2, <2>6
  <2>8. /\ sent'[c] = <<beat>> /\ sent'["server"] = <<>>
        /\ sent' \in [Sides -> Seq(Messages)]
        /\ got'[c] = <<>> /\ got'["server"] = <<>>
        /\ secertKey'[c] = key /\ secertKey'["server"] = <<>>
        /\ ~hasRecvFlag'["server"] /\ hasRecvFlag'[c]
    BY <1>2, <1>3, <1>7, <2>1, <2>3 DEF Silent
  <2>9. Packets(c)' = <<p>>
    <3>1. Packets(c)' = [i \in 1 .. Len(sent'[c]) - Len(got'["server"]) |->
                           Pack(sent'[c][Len(got'["server"]) + i], secertKey'[c])]
      BY <1>2 DEF Packets, Pack
    <3>2. Packets(c)' = [i \in 1 .. 1 - 0 |-> Pack(<<beat>>[0 + i], key)]
      BY <3>1, <2>8
    <3>3. QED
      BY <3>2 DEF p
  <2>10. Keyed(c)'
    BY <1>2, <1>9, <2>4, <2>8, <1>12 DEF Keyed, key, secret
  <2>11. Replied'
    <3>1. Spells(Stream("server")', <<reply>> \o <<p>>)
      BY <2>6, <2>7 DEF Stream
    <3>2. reply = KeyPacket(3, PublicKey(private["client"]))'
      BY <1>9 DEF reply, KeyPacket
    <3>3. <<KeyPacket(3, PublicKey(private["client"]))>>' = <<reply>>
      BY <3>2
    <3>4. Pending("server", <<KeyPacket(3, PublicKey(private["client"]))>> \o Packets("client"))'
      BY <3>1, <3>3, <2>9 DEF Pending
    <3>5. Pending(c, <<>>)'
      BY <1>8, <2>7 DEF Pending, Stream
    <3>6. secert' /\ Open' /\ Silent("server")' /\ got'["client"] = <<>>
      BY <1>2, <1>7, <2>1, <2>8 DEF Open, Silent
    <3>7. QED
      BY <2>10, <3>4, <3>5, <3>6 DEF Replied
  <2>12. Justified'
    BY <2>11 DEF Replied, Open, Justified
  <2>13. Typed'
    <3>1. /\ secertKey' \in [Sides -> {<<>>} \cup {KeyOf[k] : k \in Words}]
          /\ hasRecvFlag' \in [Sides -> BOOLEAN] /\ told' = hasRecvFlag'
      BY <1>3, <2>1, <2>4 DEF key
    <3>2. QED
      BY <1>1, <1>2, <1>9, <2>1, <2>7, <2>8, <3>1 DEF IInv, Typed
  <2>14. Handed'
    BY <2>8, <1>2 DEF Handed
  <2>15. Resting'
    <3>1. \A t \in Sides : pc'[t] = "read" => t # c /\ pc[t] = "read" /\ cache'[t] = cache[t]
      BY <1>2, <1>3, <2>1
    <3>2. QED
      BY <3>1 DEF IInv, Resting, pkglen
  <2>16. QED
    BY <2>11, <2>12, <2>13, <2>14, <2>15 DEF IInv, Phases
<1>13. QED
  BY <1>11, <1>12

(* The end of the server's handshake keeps the invariant.                  *)
LEMMA ServerGetsKeyStep ==
  ASSUME IInv, ServerGetsKey
  PROVE  IInv'
<1> USE TwoSides
<1> DEFINE s == "server"
           packet == First(s)
           rest == SubSeq(cache[s], pkglen(s) + 1, Len(cache[s]))
           x == private["client"]
           y == private[s]
           z == KeyPacket(3, PublicKey(x))
           secret == Secret(y, PublicKey(x))
<1>1. /\ pc[s] = "loop" /\ pkglen(s) > 0 /\ ~hasRecvFlag[s] /\ Ack(packet) = 3
      /\ UNCHANGED <<secert, private, zero, sends, sent, got>>
  BY NeverLost, TwoSides DEF ServerGetsKey, Shakes, AtPacket
<1>2. /\ cache \in [Sides -> Seq(Nat)] /\ wire \in [Sides -> Seq(Nat)]
      /\ private \in [Sides -> Words] /\ pc \in [Sides -> {"read", "loop", "closed"}]
      /\ secertKey \in [Sides -> {<<>>} \cup {KeyOf[k] : k \in Words}]
      /\ hasRecvFlag \in [Sides -> BOOLEAN] /\ told = hasRecvFlag
      /\ sent \in [Sides -> Seq(Messages)] /\ secert \in BOOLEAN
  BY DEF IInv, Typed
<1>3. (Replied \/ Failed) /\ packet = z
  <2>1. ~Talking
    BY <1>1 DEF Talking, Keyed
  <2>2. pkglen(s) # 0
    BY <1>1
  <2>3. Ack(AckMsg) = 1
    BY AckMsgIs, CodecAssumption, SessionAssumption
  <2>4. QED
    BY <1>1, <2>1, <2>2, <2>3, Unfinished
<1>4. Key(packet) = PublicKey(x) /\ z \in Frames /\ x \in Words /\ y \in Words
  BY <1>3, KeyPackets
<1>5. /\ secret = Secret(x, PublicKey(y)) /\ secret \in Words \cup {Err}
      /\ (secret = Err <=> x = 0 \/ y = 0)
  BY <1>4, SecretsAgree
<1>6. IF secret = Err
        THEN Close(s) /\ UNCHANGED <<secertKey, told, hasRecvFlag>>
        ELSE /\ Cut(s)
             /\ secertKey' = [secertKey EXCEPT ![s] = KeyOf[secret]]
             /\ hasRecvFlag' = [hasRecvFlag EXCEPT ![s] = TRUE]
             /\ told' = [told EXCEPT ![s] = TRUE]
             /\ UNCHANGED wire
  BY <1>4 DEF ServerGetsKey
<1>7. CASE Failed
  <2>1. secret = Err
    BY <1>5, <1>7 DEF Failed
  <2>2. /\ pc' = [pc EXCEPT ![s] = "closed"] /\ wire' = [wire EXCEPT ![s] = <<>>]
        /\ UNCHANGED <<cache, secertKey, told, hasRecvFlag>>
    BY <1>6, <2>1 DEF Close
  <2> HIDE DEF packet, rest, secret, z
  <2>3. Failed'
    <3>1. pc'["server"] = "closed" /\ pc'["client"] = "closed"
      BY <1>2, <1>7, <2>2 DEF Failed
    <3>2. QED
      BY <1>1, <1>7, <2>2, <3>1 DEF Failed, Silent, Pending
  <2>4. Justified'
    BY <2>3 DEF Failed, Justified, Cause
  <2>5. Typed' /\ Handed' /\ Resting'
    <3>1. wire' \in [Sides -> Seq(Nat)] /\ pc' \in [Sides -> {"read", "loop", "closed"}]
      BY <1>2, <2>2
    <3>2. \A t \in Sides : pc'[t] = "read" => pc[t] = "read"
      BY <1>2, <2>2
    <3>3. QED
      BY <1>1, <2>2, <3>1, <3>2 DEF IInv, Typed, Handed, Resting, pkglen
  <2>6. QED
    BY <2>3, <2>4, <2>5 DEF IInv, Phases
<1>8. CASE Replied
  <2>1. /\ secert /\ Open /\ Keyed("client") /\ Silent(s) /\ got["client"] = <<>>
        /\ Pending(s, <<z>> \o Packets("client")) /\ Pending("client", <<>>)
    BY <1>8 DEF Replied
  <2>2. secret # Err /\ secertKey["client"] = KeyOf[secret] /\ secret \in Words
    BY <2>1, <1>5 DEF Keyed
  <2>3. /\ cache' = [cache EXCEPT ![s] = rest] /\ UNCHANGED <<pc, wire>>
        /\ secertKey' = [secertKey EXCEPT ![s] = KeyOf[secret]]
        /\ hasRecvFlag' = [hasRecvFlag EXCEPT ![s] = TRUE]
        /\ told' = [told EXCEPT ![s] = TRUE]
    BY <1>6, <2>2 DEF Cut
  <2>4. Packets("client") \in Seq(Frames)
    BY <2>2, PacketsAre
  <2>5. rest \in Seq(Nat) /\ Spells(rest \o wire[s], Packets("client"))
    <3>1. /\ <<z>> \o Packets("client") \in Seq(Frames)
          /\ Tail(<<z>> \o Packets("client")) = Packets("client")
      BY <1>4, <2>4, Consed
    <3>2. /\ rest \in Seq(Nat)
          /\ Spells(rest \o wire[s], Tail(<<z>> \o Packets("client")))
      BY <1>1, <2>1, <3>1, NextPacket
    <3>3. QED
      BY <3>1, <3>2
  <2> HIDE DEF packet, rest, secret, z
  <2>6. Keyed("client")' /\ Keyed(s)'
    <3>1. (Secret(private["client"], PublicKey(private["server"])))' = secret
      BY <1>1, <1>5 DEF secret
    <3>2. /\ hasRecvFlag'["client"] /\ hasRecvFlag'[s]
          /\ secertKey'["client"] = KeyOf[secret] /\ secertKey'[s] = KeyOf[secret]
      BY <1>2, <2>1, <2>2, <2>3 DEF Keyed
    <3>3. QED
      BY <2>2, <3>1, <3>2 DEF Keyed
  <2>7. Packets("client")' = Packets("client")
    BY <1>1, <1>2, <2>3 DEF Packets, Pack
  <2>8. Packets(s)' = <<>>
    <3>1. sent'[s] = <<>> /\ got'["client"] = <<>>
      BY <1>1, <2>1 DEF Silent
    <3>2. QED
      BY <3>1 DEF Packets
  <2>9. /\ cache'[s] = rest /\ cache'["client"] = cache["client"]
        /\ cache' \in [Sides -> Seq(Nat)]
    BY <1>2, <2>3, <2>5
  <2>10. Talking'
    <3>1. Pending(s, Packets("client"))'
      BY <2>3, <2>5, <2>7, <2>9 DEF Pending, Stream
    <3>2. Pending("client", Packets(s))'
      BY <2>1, <2>3, <2>8, <2>9 DEF Pending, Stream
    <3>3. secert'
      BY <1>1, <2>1
    <3>4. \A t \in Sides : Keyed(t)' /\ Pending(t, Packets(Other(t)))'
      BY <2>6, <3>1, <3>2
    <3>5. QED
      BY <3>3, <3>4 DEF Talking
  <2>11. Justified'
    BY <2>1, <2>3 DEF Open, Justified
  <2>12. Typed'
    <3>1. /\ secertKey' \in [Sides -> {<<>>} \cup {KeyOf[k] : k \in Words}]
          /\ hasRecvFlag' \in [Sides -> BOOLEAN] /\ told' = hasRecvFlag'
      BY <1>2, <2>2, <2>3
    <3>2. QED
      BY <1>1, <2>3, <2>9, <3>1 DEF IInv, Typed
  <2>13. Handed'
    BY <1>1 DEF IInv, Handed
  <2>14. Resting'
    <3>1. \A t \in Sides : pc'[t] = "read" => t # s /\ pc[t] = "read" /\ cache'[t] = cache[t]
      BY <1>1, <1>2, <2>3
    <3>2. QED
      BY <3>1 DEF IInv, Resting, pkglen
  <2>15. QED
    BY <2>10, <2>11, <2>12, <2>13, <2>14 DEF IInv, Phases
<1>9. QED
  BY <1>3, <1>7, <1>8

(* What is written to an open side is pending behind what has been.        *)
LEMMA Written ==
  ASSUME IInv, NEW s \in Sides, NEW q \in Seq(Frames), NEW p \in Frames,
         Pending(Other(s), q), pc[s] # "closed", Write(s, p)
  PROVE  /\ wire' \in [Sides -> Seq(Nat)] /\ wire'[s] = wire[s]
         /\ pc[Other(s)] # "closed" =>
              Spells(cache[Other(s)] \o wire'[Other(s)], Append(q, p))
<1> DEFINE o == Other(s)
<1>1. o \in Sides /\ o # s
  BY TwoSides
<1>2. cache \in [Sides -> Seq(Nat)] /\ wire \in [Sides -> Seq(Nat)]
  BY DEF IInv, Typed
<1>3. wire' = [wire EXCEPT ![o] = IF pc[o] = "closed" THEN @ ELSE @ \o p]
  BY <1>1, NeverLost DEF Write
<1>4. Pending(o, q)
  OBVIOUS
<1> HIDE DEF o
<1>5. CASE pc[o] = "closed"
  <2>1. wire' = wire
    BY <1>2, <1>3, <1>5
  <2>2. QED
    BY <2>1, <1>2, <1>5 DEF o
<1>6. CASE pc[o] # "closed"
  <2>1. wire'[o] = wire[o] \o p /\ wire'[s] = wire[s]
    BY <1>1, <1>2, <1>3, <1>6
  <2>2. Spells(cache[o] \o wire[o], q)
    BY <1>4, <1>6 DEF Pending, Stream
  <2>3. cache[o] \in Seq(Nat) /\ wire[o] \in Seq(Nat)
    BY <1>1, <1>2
  <2>4. /\ wire[o] \o p \in Seq(Nat)
        /\ Spells(cache[o] \o (wire[o] \o p), Append(q, p))
    BY <2>2, <2>3, Sending
  <2>5. wire' \in [Sides -> Seq(Nat)]
    BY <1>2, <1>3, <1>6, <2>4
  <2>6. QED
    BY <2>1, <2>4, <2>5 DEF o
<1>7. QED
  BY <1>5, <1>6

(* Sending a message keeps the invariant.                                  *)
LEMMA SendStep ==
  ASSUME IInv, NEW s \in Sides, NEW msg \in Letters, Send(s, msg), ~early'
  PROVE  IInv'
<1> USE TwoSides
<1> DEFINE o == Other(s)
           p == Pack(msg, secertKey[s])
<1>1. /\ hasRecvFlag[s] /\ pc[s] # "closed" /\ sends' = [sends EXCEPT ![s] = @ + 1]
      /\ sent' = [sent EXCEPT ![s] = Append(@, msg)] /\ Write(s, p)
      /\ UNCHANGED <<secert, zero, private, secertKey, told, pc, cache, hasRecvFlag, got>>
  BY NeverLost DEF Send, keyVars
<1>2. /\ cache \in [Sides -> Seq(Nat)] /\ wire \in [Sides -> Seq(Nat)]
      /\ told = hasRecvFlag /\ sends \in [Sides -> Nat]
      /\ sent \in [Sides -> Seq(Messages)] /\ got \in [Sides -> Seq(Messages)]
      /\ secert \in BOOLEAN
  BY DEF IInv, Typed
<1>3. msg \in Messages
  BY DEF Messages
<1>4. hasRecvFlag[s] /\ (secert => \E k \in Words : secertKey[s] = KeyOf[k])
  BY <1>1, <1>2, KeyedHasKey
<1>5. p \in Frames
  BY <1>2, <1>3, <1>4, Packed, CodecAssumption, MessageAssumption, CipherAssumption
<1>6. /\ sent'[s] = Append(sent[s], msg) /\ sent'[o] = sent[o]
      /\ sent' \in [Sides -> Seq(Messages)] /\ sends' \in [Sides -> Nat]
  BY SMTT(30), <1>1, <1>2, <1>3
<1>7. Packets(s)' = Append(Packets(s), p)
  BY <1>1, <1>3, <1>4, <1>6, Growing
<1>8. Packets(o)' = Packets(o)
  BY <1>1, <1>6 DEF Packets, Pack
<1>9. Packets(s) \in Seq(Frames)
  BY <1>4, PacketsAre
<1>10. Keyed(s) => Keyed(s)'
  BY <1>1 DEF Keyed
<1> HIDE DEF p
<1>11. /\ wire' \in [Sides -> Seq(Nat)]
       /\ Phases'
  <2>1. CASE Replied
    <3> DEFINE z == KeyPacket(3, PublicKey(private["client"]))
    <3>1. s = "client" /\ o = "server"
      BY <1>4, <2>1 DEF Replied, Silent
    <3>2. z \in Frames
      BY KeyPackets
    <3>3. /\ secert /\ Open /\ Keyed("client") /\ Silent("server") /\ got["client"] = <<>>
          /\ Pending("server", <<z>> \o Packets("client")) /\ Pending("client", <<>>)
      BY <2>1 DEF Replied
    <3>4. z' = z
      BY <1>1 DEF KeyPacket
    <3> HIDE DEF z
    <3>5. /\ <<z>> \o Packets("client") \in Seq(Frames)
          /\ Append(<<z>> \o Packets("client"), p) = <<z>> \o Append(Packets("client"), p)
      <4>1. Packets("client") \in Seq(Frames)
        BY <1>9, <3>1
      <4>2. QED
        BY <1>5, <3>2, <4>1, Consed
    <3>6. /\ wire' \in [Sides -> Seq(Nat)] /\ wire'["client"] = wire["client"]
          /\ pc["server"] # "closed" =>
               Spells(cache["server"] \o wire'["server"],
                      Append(<<z>> \o Packets("client"), p))
      BY <1>1, <1>5, <3>1, <3>3, <3>5, Written
    <3>7. Spells(Stream("server")', <<z>> \o (Packets("client")'))
      BY <1>1, <1>7, <3>1, <3>3, <3>5, <3>6 DEF Stream, Open
    <3>8. Pending("server", <<z>> \o Packets("client"))'
      BY <3>4, <3>7 DEF Pending
    <3>9. Pending("client", <<>>)'
      BY <1>1, <3>3, <3>6 DEF Pending, Stream
    <3>10. Silent("server")'
      BY <1>1, <1>6, <3>1, <3>3 DEF Silent
    <3>11. Open' /\ secert' /\ got'["client"] = <<>>
      BY <1>1, <3>3 DEF Open
    <3>12. Replied'
      BY <1>10, <3>1, <3>3, <3>8, <3>9, <3>10, <3>11 DEF Replied, z
    <3>13. QED
      BY <3>6, <3>12 DEF Phases
  <2>2. CASE Talking
    <3>1. Pending(o, Packets(s)) /\ Pending(s, Packets(o))
      BY <2>2 DEF Talking
    <3>2. /\ wire' \in [Sides -> Seq(Nat)] /\ wire'[s] = wire[s]
          /\ pc[o] # "closed" => Spells(cache[o] \o wire'[o], Append(Packets(s), p))
      BY <1>1, <1>5, <1>9, <3>1, Written
    <3>3. Pending(o, Packets(s))'
      BY <1>1, <1>7, <3>2 DEF Pending, Stream
    <3>4. Pending(s, Packets(o))'
      BY <1>1, <1>8, <3>1, <3>2 DEF Pending, Stream
    <3>5. \A t \in Sides : Pending(t, Packets(Other(t)))'
      BY <3>3, <3>4
    <3>6. \A t \in Sides : Keyed(t) => Keyed(t)'
      BY <1>1 DEF Keyed
    <3>7. Talking'
      BY <1>1, <2>2, <3>5, <3>6 DEF Talking
    <3>8. QED
      BY <3>2, <3>7 DEF Phases
  <2>3. Replied \/ Talking
    BY <1>4 DEF IInv, Phases, Greeted, Offered, Failed, Silent
  <2>4. QED
    BY <2>1, <2>2, <2>3
<1>12. Typed'
  BY <1>1, <1>6, <1>11 DEF IInv, Typed
<1>13. Handed'
  <2>1. ASSUME NEW t \in Sides
        PROVE  /\ Len(got'[t]) <= Len(sent'[Other(t)])
               /\ \A i \in 1 .. Len(got'[t]) : got'[t][i] = sent'[Other(t)][i]
    <3>1. /\ Len(got[t]) <= Len(sent[Other(t)])
          /\ \A i \in 1 .. Len(got[t]) : got[t][i] = sent[Other(t)][i]
      BY DEF IInv, Handed
    <3>2. CASE Other(t) = s
      BY SMTT(30), <1>1, <1>2, <1>6, <3>1, <3>2
    <3>3. CASE Other(t) = o
      BY <1>1, <1>6, <3>1, <3>3
    <3>4. QED
      BY <3>2, <3>3
  <2>2. QED
    BY <2>1 DEF Handed
<1>14. Justified'
  <2>1. ASSUME Cause PROVE Cause'
    <3>1. \A t \in Sides : sent'[t] = sent[t] \/ \E m \in Messages : sent'[t] = Append(sent[t], m)
      BY <1>3, <1>6
    <3>2. QED
      BY <1>1, <2>1, <3>1, CauseRemains
  <2>2. QED
    BY <1>1, <2>1 DEF IInv, Justified
<1>15. Resting'
  BY <1>1 DEF IInv, Resting, pkglen
<1>16. QED
  BY <1>11, <1>12, <1>13, <1>14, <1>15 DEF IInv

(* The answer to a heartbeat is a message that a side may send.            *)
LEMMA AnswerIsMessage ==
  ASSUME NEW msg \in Messages, msg.cmd = MsgHeartbeat
  PROVE  Heartbeat(msg.uid) \in Messages
<1>1. CASE msg \in Letters
  BY <1>1 DEF Messages
<1>2. ASSUME NEW uid \in {ClientUid} \cup {m.uid : m \in Letters}, msg = Heartbeat(uid)
      PROVE  Heartbeat(msg.uid) \in Messages
  <2>1. msg.uid = uid
    BY <1>2 DEF Heartbeat, NewMessage
  <2>2. QED
    BY <2>1 DEF Messages
<1>3. QED
  BY <1>1, <1>2 DEF Messages

(* Handing on a message, and answering a heartbeat, keeps the invariant.   *)
LEMMA MessageStep ==
  ASSUME IInv, NEW s \in Sides, Message(s)
  PROVE  IInv'
<1> USE TwoSides
<1> DEFINE o == Other(s)
           msg == OnPacketComplete(First(s), secert, secertKey[s])
           rest == SubSeq(cache[s], pkglen(s) + 1, Len(cache[s]))
           answer == Heartbeat(msg.uid)
           q == Packets(o)
           k == Len(got[s])
           p == Pack(answer, secertKey[s])
<1>1. /\ pc[s] = "loop" /\ pkglen(s) > 0 /\ hasRecvFlag[s]
      /\ IF msg = NoMessage
           THEN Close(s) /\ UNCHANGED <<sent, got>>
           ELSE /\ Cut(s)
                /\ got' = [got EXCEPT ![s] = Append(@, msg)]
                /\ IF s = "server" /\ msg.cmd = MsgHeartbeat
                     THEN /\ sent' = [sent EXCEPT ![s] = Append(@, answer)]
                          /\ Write(s, p)
                     ELSE UNCHANGED <<sent, wire>>
      /\ UNCHANGED <<secert, zero, private, secertKey, told, hasRecvFlag, sends>>
  BY NeverLost DEF Message, AtPacket, keyVars
<1>2. /\ cache \in [Sides -> Seq(Nat)] /\ wire \in [Sides -> Seq(Nat)]
      /\ pc \in [Sides -> {"read", "loop", "closed"}]
      /\ sent \in [Sides -> Seq(Messages)] /\ got \in [Sides -> Seq(Messages)]
      /\ secert \in BOOLEAN
  BY DEF IInv, Typed
<1>3. Talking
  <2>1. SUFFICES ASSUME ~Talking PROVE FALSE
    OBVIOUS
  <2>2. pkglen(s) # 0
    BY <1>1
  <2>3. ~hasRecvFlag[s]
    BY <1>1, <2>1, <2>2, Unfinished
  <2>4. QED
    BY <1>1, <2>3
<1>4. /\ \A t \in Sides : secert => \E n \in Words : secertKey[t] = KeyOf[n]
      /\ secertKey[o] = secertKey[s]
  <2>1. \A t \in Sides : hasRecvFlag[t]
    BY <1>3 DEF Talking, Keyed
  <2>2. secertKey[o] = secertKey[s]
    BY <1>3 DEF Talking, Keyed
  <2>3. QED
    BY <2>1, <2>2, KeyedHasKey
<1>5. /\ q \in Seq(Frames) /\ k \in Nat /\ Len(sent[o]) \in Nat
      /\ k <= Len(sent[o]) /\ Len(q) = Len(sent[o]) - k
      /\ \A i \in 1 .. Len(sent[o]) - k :
           sent[o][k + i] \in Messages /\ q[i] = Pack(sent[o][k + i], secertKey[o])
  <2>1. o \in Sides /\ Other(o) = s
    OBVIOUS
  <2>2. secert => \E n \in Words : secertKey[o] = KeyOf[n]
    BY <1>4, <2>1
  <2>3. QED
    BY <2>1, <2>2, PacketsAre
<1>6. /\ Pending(s, q) /\ Pending(o, Packets(s))
  BY <1>3 DEF Talking
<1>7. /\ q # <<>> /\ First(s) = q[1]
      /\ rest \in Seq(Nat) /\ Spells(rest \o wire[s], Tail(q))
  BY <1>1, <1>5, <1>6, NextPacket
<1>8. k + 1 \in 1 .. Len(sent[o]) /\ 1 \in 1 .. Len(sent[o]) - k
  <2>1. Len(q) # 0
    BY <1>5, <1>7
  <2>2. QED
    BY <1>5, <2>1
<1>9. /\ msg = sent[o][k + 1] /\ msg \in Messages
  <2>1. sent[o][k + 1] \in Messages /\ q[1] = Pack(sent[o][k + 1], secertKey[o])
    BY <1>5, <1>8
  <2>2. /\ secert \in BOOLEAN
        /\ secert => \E n \in Words : secertKey[s] = KeyOf[n]
    BY <1>2, <1>4
  <2>3. \A m \in Messages :
          /\ Pack(m, secertKey[s]) \in Frames
          /\ OnPacketComplete(Pack(m, secertKey[s]), secert, secertKey[s]) = m
    <3> DEFINE key == secertKey[s]
    <3>1. secert => \E n \in Words : key = KeyOf[n]
      BY <2>2
    <3> HIDE DEF key
    <3>2. \A m \in Messages : /\ Pack(m, key) \in Frames
                              /\ OnPacketComplete(Pack(m, key), secert, key) = m
      <4> TAKE m \in Messages
      <4> QED
        BY <2>2, <3>1, Packed, CodecAssumption, MessageAssumption, CipherAssumption
    <3>3. QED
      BY <3>2 DEF key
  <2>4. OnPacketComplete(q[1], secert, secertKey[s]) = sent[o][k + 1]
    BY <2>1, <2>3, <1>4
  <2>5. QED
    BY <2>1, <2>4, <1>7
<1>10. msg # NoMessage
  BY <1>9, Decoded, CodecAssumption, MessageAssumption
<1>11. /\ cache' = [cache EXCEPT ![s] = rest] /\ UNCHANGED pc
       /\ got' = [got EXCEPT ![s] = Append(@, msg)]
  BY <1>1, <1>10 DEF Cut
<1>12. IF s = "server" /\ msg.cmd = MsgHeartbeat
         THEN sent' = [sent EXCEPT ![s] = Append(@, answer)] /\ Write(s, p)
         ELSE UNCHANGED <<sent, wire>>
  BY <1>1, <1>10
<1>13. /\ cache'[s] = rest /\ cache'[o] = cache[o] /\ cache' \in [Sides -> Seq(Nat)]
       /\ got'[s] = Append(got[s], msg) /\ got'[o] = got[o]
       /\ got' \in [Sides -> Seq(Messages)]
  <2>1. got[s] \in Seq(Messages) /\ rest \in Seq(Nat) /\ msg \in Messages
    BY <1>2, <1>7, <1>9
  <2> HIDE DEF msg, rest
  <2>2. Append(got[s], msg) \in Seq(Messages)
    BY <2>1
  <2>3. QED
    BY <1>2, <1>11, <2>1, <2>2
<1>14. answer \in Messages \/ msg.cmd # MsgHeartbeat
  BY <1>9, AnswerIsMessage
<1>15. UNCHANGED <<secert, zero, private, secertKey, told, hasRecvFlag, sends>>
  BY <1>1
<1> HIDE DEF msg, rest, answer, p
<1>16. /\ wire' \in [Sides -> Seq(Nat)] /\ wire'[s] = wire[s]
       /\ sent' \in [Sides -> Seq(Messages)] /\ sent'[o] = sent[o]
       /\ sent'[s] = sent[s] \/ \E m \in Messages : sent'[s] = Append(sent[s], m)
       /\ pc[o] # "closed" => Spells(cache[o] \o wire'[o], Packets(s)')
  <2>1. CASE s = "server" /\ msg.cmd = MsgHeartbeat
    <3>1. sent' = [sent EXCEPT ![s] = Append(@, answer)] /\ Write(s, p)
      BY <1>12, <2>1
    <3>2. answer \in Messages
      BY <1>14, <2>1
    <3>3. p \in Frames
      BY <3>2, <1>2, <1>4, Packed, CodecAssumption, MessageAssumption, CipherAssumption DEF p
    <3>4. Packets(s) \in Seq(Frames)
      BY <1>4, PacketsAre
    <3>5. /\ wire' \in [Sides -> Seq(Nat)] /\ wire'[s] = wire[s]
          /\ pc[o] # "closed" => Spells(cache[o] \o wire'[o], Append(Packets(s), p))
      BY <1>1, <1>6, <3>1, <3>3, <3>4, Written
    <3>6. /\ sent'[s] = Append(sent[s], answer) /\ sent'[o] = sent[o]
          /\ sent' \in [Sides -> Seq(Messages)]
      BY <1>2, <3>1, <3>2
    <3>7. Packets(s)' = Append(Packets(s), p)
      BY <1>4, <1>13, <1>15, <3>2, <3>6, Growing DEF p
    <3>8. QED
      BY <3>2, <3>5, <3>6, <3>7
  <2>2. CASE ~(s = "server" /\ msg.cmd = MsgHeartbeat)
    <3>1. UNCHANGED <<sent, wire>>
      BY <1>12, <2>2
    <3>2. Packets(s)' = Packets(s)
      BY <1>13, <1>15, <3>1 DEF Packets, Pack
    <3>3. pc[o] # "closed" => Spells(cache[o] \o wire[o], Packets(s))
      BY <1>6 DEF Pending, Stream
    <3>4. QED
      BY <1>2, <3>1, <3>2, <3>3
  <2>3. QED
    BY <2>1, <2>2
<1>17. q' = Tail(q)
  <2>1. Other(o) = s
    OBVIOUS
  <2>2. QED
    <3>1. /\ o \in Sides /\ msg \in Messages /\ q # <<>>
          /\ got'[Other(o)] = Append(got[Other(o)], msg)
      BY <1>7, <1>9, <1>13, <2>1
    <3>2. sent'[o] = sent[o] /\ secertKey'[o] = secertKey[o] /\ secert' = secert
      BY <1>15, <1>16
    <3>3. secert => \E n \in Words : secertKey[o] = KeyOf[n]
      BY <1>4, <2>1
    <3> HIDE DEF o
    <3>4. QED
      BY <3>1, <3>2, <3>3, Shrinking
<1>18. Talking'
  <2>1. Pending(o, Packets(s))'
    BY <1>11, <1>13, <1>16 DEF Pending, Stream
  <2>2. Pending(s, Packets(o))'
    BY <1>7, <1>13, <1>16, <1>17 DEF Pending, Stream
  <2>3. \A t \in Sides : Pending(t, Packets(Other(t)))'
    BY <2>1, <2>2
  <2>4. \A t \in Sides : Keyed(t) => Keyed(t)'
    BY <1>15 DEF Keyed
  <2>5. QED
    BY <1>3, <1>15, <2>3, <2>4 DEF Talking
<1>19. Typed'
  BY <1>11, <1>13, <1>15, <1>16 DEF IInv, Typed
<1>20. Handed'
  <2>1. /\ Len(got'[s]) <= Len(sent'[o])
        /\ \A i \in 1 .. Len(got'[s]) : got'[s][i] = sent'[o][i]
    <3>1. got[s] \in Seq(Messages) /\ \A i \in 1 .. k : got[s][i] = sent[o][i]
      BY <1>2 DEF IInv, Handed
    <3>2. /\ Len(got'[s]) = k + 1 /\ got'[s][k + 1] = msg
          /\ \A i \in 1 .. k : got'[s][i] = got[s][i]
      BY <1>13, <3>1
    <3>3. Len(got'[s]) <= Len(sent'[o])
      BY <1>5, <1>8, <1>16, <3>2
    <3>4. ASSUME NEW i \in 1 .. Len(got'[s]) PROVE got'[s][i] = sent'[o][i]
      <4>1. CASE i = k + 1
        BY <1>9, <1>16, <3>2, <4>1
      <4>2. CASE i # k + 1
        <5>1. i \in 1 .. k
          BY <1>5, <3>2, <4>2
        <5>2. QED
          BY <1>16, <3>1, <3>2, <5>1
      <4>3. QED
        BY <4>1, <4>2
    <3>5. QED
      BY <3>3, <3>4
  <2>2. /\ Len(got'[o]) <= Len(sent'[s])
        /\ \A i \in 1 .. Len(got'[o]) : got'[o][i] = sent'[s][i]
    <3>1. /\ Len(got[o]) <= Len(sent[s]) /\ \A i \in 1 .. Len(got[o]) : got[o][i] = sent[s][i]
      BY DEF IInv, Handed
    <3>2. got[o] \in Seq(Messages) /\ sent[s] \in Seq(Messages)
      BY <1>2
    <3>3. CASE sent'[s] = sent[s]
      BY <1>13, <3>1, <3>3
    <3>4. ASSUME NEW m \in Messages, sent'[s] = Append(sent[s], m)
          PROVE  /\ Len(got'[o]) <= Len(sent'[s])
                 /\ \A i \in 1 .. Len(got'[o]) : got'[o][i] = sent'[s][i]
      BY <1>13, <3>1, <3>2, <3>4
    <3>5. QED
      BY <1>16, <3>3, <3>4
  <2>3. QED
    BY <2>1, <2>2 DEF Handed
<1>21. Justified'
  <2>1. ASSUME Cause PROVE Cause'
    <3>1. \A t \in Sides : sent'[t] = sent[t] \/ \E m \in Messages : sent'[t] = Append(sent[t], m)
      BY <1>16
    <3>2. QED
      BY <1>15, <2>1, <3>1, CauseRemains
  <2>2. QED
    BY <1>11, <2>1 DEF IInv, Justified
<1>22. Resting'
  <2>1. \A t \in Sides : pc'[t] = "read" => t # s /\ pc[t] = "read" /\ cache'[t] = cache[t]
    BY <1>1, <1>11, <1>13
  <2>2. QED
    BY <2>1 DEF IInv, Resting, pkglen
<1>23. QED
  BY <1>18, <1>19, <1>20, <1>21, <1>22 DEF IInv, Phases

(* The invariant holds initially;                                          *)
LEMMA InitIInv == Init => IInv
<1> USE TwoSides
<1> SUFFICES ASSUME Init PROVE IInv
  OBVIOUS
<1>0. AckMsg \in Frames /\ AckMsg \in Seq(Nat)
  BY AckMsgIs, CodecAssumption, SessionAssumption DEF Frames
<1>1. /\ secert \in BOOLEAN /\ AckMsg \in Seq(Nat) /\ AckMsg \in Frames
      /\ wire = [s \in Sides |-> IF secert /\ s = "server" THEN AckMsg ELSE <<>>]
      /\ pc = [s \in Sides |-> "read"] /\ cache = [s \in Sides |-> <<>>]
      /\ hasRecvFlag = [s \in Sides |-> ~secert] /\ private = [s \in Sides |-> 0]
      /\ secertKey = [s \in Sides |-> <<>>] /\ told = [s \in Sides |-> ~secert]
      /\ sends = [s \in Sides |-> 0]
      /\ sent = [s \in Sides |-> <<>>] /\ got = [s \in Sides |-> <<>>]
      /\ zero = FALSE
  BY <1>0 DEF Init
<1>2. Typed
  <2>1. 0 \in Words
    BY KeyAssumption DEF Words, KeyAssumption
  <2>2. /\ wire \in [Sides -> Seq(Nat)] /\ cache \in [Sides -> Seq(Nat)]
        /\ sent \in [Sides -> Seq(Messages)] /\ got \in [Sides -> Seq(Messages)]
    BY <1>1
  <2>3. /\ pc \in [Sides -> {"read", "loop", "closed"}] /\ sends \in [Sides -> Nat]
        /\ private \in [Sides -> Words] /\ told = hasRecvFlag
        /\ secertKey \in [Sides -> {<<>>} \cup {KeyOf[k] : k \in Words}]
    BY <1>1, <2>1
  <2>4. hasRecvFlag \in [Sides -> BOOLEAN] /\ zero \in BOOLEAN /\ secert \in BOOLEAN
    BY <1>1
  <2>5. QED
    BY <2>2, <2>3, <2>4 DEF Typed
<1>3. Resting
  <2>1. ParsePacket(<<>>) = 0
    BY DEF ParsePacket
  <2>2. QED
    BY <1>1, <2>1 DEF Resting, pkglen
<1>4. Handed /\ Justified
  BY <1>1 DEF Handed, Justified
<1>5. Phases
  <2>1. CASE secert
    <3>1. Spells(<<>> \o AckMsg, <<AckMsg>>)
      <4>1. Spells(<<>> \o <<>>, <<>>)
        BY SpellsNothing
      <4>2. Spells(<<>> \o (<<>> \o AckMsg), Append(<<>>, AckMsg))
        <5>1. /\ <<>> \in Seq(Nat) /\ <<>> \in Seq(Frames) /\ AckMsg \in Frames
          BY <1>1
        <5>2. QED
          BY <4>1, <5>1, Sending, CodecAssumption
      <4>3. <<>> \o (<<>> \o AckMsg) = <<>> \o AckMsg /\ Append(<<>>, AckMsg) = <<AckMsg>>
        BY <1>1
      <4>4. QED
        BY <4>2, <4>3
    <3>2. Spells(<<>> \o <<>>, <<>>)
      BY SpellsNothing
    <3>3. Pending("server", <<AckMsg>>) /\ Pending("client", <<>>)
      BY <1>1, <2>1, <3>1, <3>2 DEF Pending, Stream
    <3>4. Greeted
      BY <1>1, <2>1, <3>3 DEF Greeted, Open, Silent
    <3>5. QED
      BY <3>4 DEF Phases
  <2>2. CASE ~secert
    <3>1. Spells(<<>> \o <<>>, <<>>)
      BY SpellsNothing
    <3>2. \A s \in Sides : Packets(s) = <<>>
      BY <1>1 DEF Packets
    <3>3. \A s \in Sides : Pending(s, Packets(Other(s)))
      BY <1>1, <2>2, <3>1, <3>2 DEF Pending, Stream
    <3>4. Talking
      BY <1>1, <2>2, <3>3 DEF Talking
    <3>5. QED
      BY <3>4 DEF Phases
  <2>3. QED
    BY <1>1, <2>1, <2>2
<1>6. QED
  BY <1>2, <1>3, <1>4, <1>5 DEF IInv

(* No acknowledgement is wrong, and no greeting, unless a message has been *)
(* sent early.                                                             *)
LEMMA NothingWrong ==
  ASSUME IInv
  PROVE  /\ ~DropPacket
         /\ \A s \in Sides : ~AckError(s)
<1> USE TwoSides
<1>1. /\ Ack(AckMsg) = 1 /\ Data(AckMsg) = SW
      /\ Ack(KeyPacket(2, PublicKey(private["server"]))) = 2
      /\ Ack(KeyPacket(3, PublicKey(private["client"]))) = 3
  BY AckMsgIs, KeyPackets, CodecAssumption, SessionAssumption
<1>2. ASSUME NEW s \in Sides, Shakes(s)
      PROVE  \/ s = "server" /\ First(s) = AckMsg
             \/ s = "client" /\ First(s) = KeyPacket(2, PublicKey(private["server"]))
             \/ s = "server" /\ First(s) = KeyPacket(3, PublicKey(private["client"]))
  <2>1. pc[s] = "loop" /\ pkglen(s) > 0 /\ pkglen(s) # 0 /\ ~hasRecvFlag[s]
    BY <1>2, NeverLost DEF Shakes, AtPacket
  <2>2. ~Talking
    BY <2>1 DEF Talking, Keyed
  <2>3. QED
    BY <2>1, <2>2, Unfinished
<1>3. QED
  BY <1>1, <1>2 DEF DropPacket, AckError

(* every step without an early message keeps it;                           *)
LEMMA NextIInv == IInv /\ [Next]_vars /\ ~early' => IInv'
<1> USE TwoSides
<1> SUFFICES ASSUME IInv, [Next]_vars, ~early' PROVE IInv'
  OBVIOUS
<1>1. CASE UNCHANGED vars
  BY <1>1, UnchangedStep
<1>2. ASSUME NEW s \in Sides, DoRecv(s) PROVE IInv'
  <2>1. CASE Read(s)
    BY <2>1, ReadStep
  <2>2. CASE HangUp(s)
    BY <2>2, HangUpStep
  <2>3. CASE NeedMore(s)
    BY <2>3, NeedMoreStep
  <2>4. CASE BadLength(s)
    BY <2>4, BadLengthStep
  <2>5. CASE Message(s)
    BY <2>5, MessageStep
  <2>6. CASE ServerGetsSW
    BY <2>6, GetsSWStep
  <2>7. CASE ServerGetsKey
    BY <2>7, ServerGetsKeyStep
  <2>8. CASE ClientGetsKey
    BY <2>8, ClientGetsKeyStep
  <2>9. CASE DropPacket \/ AckError(s)
    BY <2>9, NothingWrong
  <2>10. QED
    BY <1>2, <2>1, <2>2, <2>3, <2>4, <2>5, <2>6, <2>7, <2>8, <2>9 DEF DoRecv
<1>3. ASSUME NEW s \in Sides, NEW msg \in Letters, Send(s, msg) PROVE IInv'
  BY <1>3, SendStep
<1>4. QED
  BY <1>1, <1>2, <1>3 DEF Next

(* What has been sent early stays so,                                      *)
LEMMA EarlyStays == early /\ [Next]_vars => early'
<1> SUFFICES ASSUME early, [Next]_vars PROVE early'
  OBVIOUS
<1>1. CASE UNCHANGED vars
  BY <1>1 DEF vars
<1>2. ASSUME NEW s \in Sides, DoRecv(s) PROVE early'
  BY <1>2 DEF DoRecv, Read, HangUp, NeedMore, BadLength, Message, AckError, ServerGetsSW,
       DropPacket, ServerGetsKey, ClientGetsKey
<1>3. ASSUME NEW s \in Sides, NEW msg \in Letters, Send(s, msg) PROVE early'
  BY <1>3 DEF Send
<1>4. QED
  BY <1>1, <1>2, <1>3 DEF Next

(* and the invariant holds until then.                                     *)
LEMMA Invariant == Spec => [](early \/ IInv)
<1>1. (early \/ IInv) /\ [Next]_vars => (early \/ IInv)'
  BY NextIInv, EarlyStays
<1>2. QED
  BY <1>1, InitIInv, PTL DEF Spec

-----------------------------------------------------------------------------
(* What is written is bytes.                                               *)

OfBytes == Seq(0 .. Byte - 1)

(* The digits of a secret: at least one, whatever the secret.              *)
LEMMA DigitsAre ==
  \A n \in Words : /\ Digits[n] \in Seq(0 .. Ten - 1)
                   /\ Len(Digits[n]) \in Nat \ {0}
<1> DEFINE V == {d \in Seq(0 .. Ten - 1) : Len(d) # 0}
           Step(f) == [n \in Words |-> IF n < Ten THEN <<n>> ELSE Append(f[n \div Ten], n % Ten)]
           H == [f \in [Words -> V] |-> Step(f)]
           size == [n \in Words |-> n]
           v0 == <<0>>
<1>1. /\ Words \subseteq Nat /\ Ten \in Nat \ {0, 1} /\ 0 \in 0 .. Ten - 1
      /\ Word \in Nat
  BY KeyAssumption, SessionAssumption DEF Words
<1>2. ASSUME NEW n \in Words, ~(n < Ten)
      PROVE  n \div Ten \in Words /\ n \div Ten < n /\ n % Ten \in 0 .. Ten - 1
  <2> DEFINE q == n \div Ten
             r == n % Ten
  <2>1. n \in Nat /\ Ten \in Nat \ {0} /\ n < Word
    BY <1>1, KeyAssumption DEF Words
  <2>2. q \in Nat /\ r \in 0 .. Ten - 1 /\ n = Ten * q + r
    BY <2>1, Quotient
  <2> HIDE DEF q, r
  <2>3. q < n
    <3>1. q # 0
      BY <1>1, <1>2, <2>1, <2>2
    <3>2. Ten * q >= 2 * q
      BY <1>1, <2>2
    <3>3. Ten * q \in Nat
      BY <1>1, <2>2
    <3>4. QED
      BY <1>1, <2>1, <2>2, <3>1, <3>2, <3>3
  <2>4. q \in Words
    BY <1>1, <2>1, <2>2, <2>3 DEF Words
  <2>5. QED
    BY <2>2, <2>3, <2>4 DEF q, r
<1>3. ASSUME NEW d \in V, NEW x \in 0 .. Ten - 1 PROVE Append(d, x) \in V
  OBVIOUS
<1>4. ASSUME NEW n \in Words, n < Ten PROVE <<n>> \in V
  <2>1. n \in 0 .. Ten - 1
    BY <1>1, <1>4
  <2>2. <<n>> \in Seq(0 .. Ten - 1) /\ Len(<<n>>) = 1
    BY <2>1
  <2>3. QED
    BY <2>2
<1>5. v0 \in V
  BY <1>1
<1> HIDE DEF V, v0
<1>6. \A f \in [Words -> V] : Step(f) \in [Words -> V]
  BY <1>2, <1>3, <1>4
<1>7. size \in [Words -> Nat] /\ H \in [[Words -> V] -> [Words -> V]]
  BY <1>1, <1>6
<1>8. \A f, g \in [Words -> V] : \A n \in Words :
        (\A k \in Words : size[k] < size[n] => f[k] = g[k]) => H[f][n] = H[g][n]
  BY <1>2
<1>9. Recurs(Words, V, size, H)
  <2> HIDE DEF H, size
  <2>1. QED
    BY <1>7, <1>8 DEF Recurs
<1>10. \E f : f = Step(f)
  <2>1. \E f \in [Words -> V] : f = H[f]
    <3> HIDE DEF H, size
    <3>1. QED
      BY <1>5, <1>9, Fixpoint
  <2>2. QED
    BY <2>1
<1>11. Digits = Step(Digits)
  BY <1>10 DEF Digits
<1>12. \A n \in Words : Digits[n] = IF n < Ten THEN <<n>> ELSE Append(Digits[n \div Ten], n % Ten)
  BY <1>11
<1>13. \A n \in Words : Digits[n] \in V
  <2> DEFINE T == {n \in Words : Digits[n] \notin V}
  <2>1. SUFFICES ASSUME T # {} PROVE FALSE
    OBVIOUS
  <2>2. PICK n \in T : \A k \in T : n <= k
    <3>1. T \subseteq Nat
      BY <1>1
    <3> HIDE DEF T
    <3>2. QED
      BY <2>1, <3>1, Least
  <2>3. ~(n < Ten)
    BY <1>4, <1>12, <2>2
  <2>4. n \div Ten \in Words /\ n \div Ten < n /\ n % Ten \in 0 .. Ten - 1
    BY <1>2, <2>2, <2>3
  <2>5. n \div Ten \notin T
    BY <1>1, <2>2, <2>4
  <2>6. Digits[n \div Ten] \in V
    BY <2>4, <2>5
  <2>7. Digits[n] = Append(Digits[n \div Ten], n % Ten)
    BY <1>12, <2>2, <2>3
  <2>8. QED
    BY <1>3, <2>2, <2>4, <2>6, <2>7
<1>14. QED
  BY <1>13 DEF V

(* Sixteen bytes, however short the secret.                                *)
LEMMA KeysAreBytes == \A k \in Words : KeyOf[k] \in [1 .. 16 -> 0 .. Byte - 1]
<1> TAKE k \in Words
<1> DEFINE d == Digits[k]
           n == Len(d)
           digit(j) == d[1 + (j % n)]
<1>1. d \in Seq(0 .. Ten - 1) /\ n \in Nat \ {0}
  BY DigitsAre
<1>2. KeyOf[k] = [i \in 1 .. 16 |-> Ten * digit(2 * i - 2) + digit(2 * i - 1)]
  BY DEF KeyOf
<1> HIDE DEF d
<1>3. ASSUME NEW j \in Nat PROVE digit(j) \in 0 .. Ten - 1
  <2>1. j % n \in 0 .. n - 1
    BY <1>1, Quotient
  <2> DEFINE r == j % n
  <2>2. 1 + r \in 1 .. n
    BY <1>1, <2>1
  <2> HIDE DEF r
  <2>3. d[1 + r] \in 0 .. Ten - 1
    <3>1. \A i \in 1 .. n : d[i] \in 0 .. Ten - 1
      <4> DEFINE S == 0 .. Ten - 1
      <4>1. d \in Seq(S)
        BY <1>1
      <4> HIDE DEF S
      <4>2. \A i \in 1 .. Len(d) : d[i] \in S
        BY <4>1
      <4>3. QED
        BY <4>2 DEF S
    <3>2. QED
      BY ONLY <2>2, <3>1
  <2>4. QED
    BY <2>3 DEF r
<1>4. ASSUME NEW x \in 0 .. Ten - 1, NEW y \in 0 .. Ten - 1
      PROVE  Ten * x + y \in 0 .. Byte - 1
  <2>1. Ten \in Nat \ {0, 1} /\ Byte \in Nat /\ Ten * Ten <= Byte
    BY SessionAssumption, CodecAssumption
  <2>2. Ten * x <= Ten * (Ten - 1) /\ Ten * x \in Nat
    BY <2>1
  <2>3. Ten * (Ten - 1) = Ten * Ten - Ten /\ Ten * Ten \in Nat
    BY <2>1
  <2>4. QED
    BY <2>1, <2>2, <2>3
<1> HIDE DEF digit
<1>5. ASSUME NEW i \in 1 .. 16
      PROVE  Ten * digit(2 * i - 2) + digit(2 * i - 1) \in 0 .. Byte - 1
  <2>1. 2 * i - 2 \in Nat /\ 2 * i - 1 \in Nat
    OBVIOUS
  <2>2. digit(2 * i - 2) \in 0 .. Ten - 1 /\ digit(2 * i - 1) \in 0 .. Ten - 1
    BY <1>3, <2>1
  <2>3. QED
    BY <1>4, <2>2
<1>6. QED
  BY <1>2, <1>5

(* What the sides write is bytes.                                          *)
LEMMA HeadsAreBytes ==
  \A v \in Int : PutUint32(v) \in OfBytes
<1> TAKE v \in Int
<1>1. Byte \in Nat \ {0, 1}
  BY CodecAssumption
<1>2. \A x \in Int, n \in Nat \ {0} : x \div n \in Int
  BY Remainder
<1>3. \A x \in Int : x % Byte \in 0 .. Byte - 1
  BY <1>1, Remainder
<1>4. Byte * Byte * Byte \in Nat \ {0} /\ Byte * Byte \in Nat \ {0} /\ Byte \in Nat \ {0}
  BY <1>1
<1>5. /\ (v \div (Byte * Byte * Byte)) \in Int /\ (v \div (Byte * Byte)) \in Int
      /\ (v \div Byte) \in Int
  BY <1>2, <1>4
<1> DEFINE a == (v \div (Byte * Byte * Byte)) % Byte
           b == (v \div (Byte * Byte)) % Byte
           c == (v \div Byte) % Byte
           d == v % Byte
<1>6. a \in 0 .. Byte - 1 /\ b \in 0 .. Byte - 1 /\ c \in 0 .. Byte - 1 /\ d \in 0 .. Byte - 1
  BY <1>3, <1>5
<1>7. PutUint32(v) = <<a, b, c, d>>
  BY DEF PutUint32
<1> HIDE DEF a, b, c, d
<1>8. QED
  BY <1>6, <1>7 DEF OfBytes

(* Bytes behind bytes are bytes.                                           *)
LEMMA JoinedBytes ==
  \A a, b \in OfBytes : a \o b \in OfBytes
  BY DEF OfBytes

(* The packet of a message is bytes.                                       *)
LEMMA PackedBytes ==
  ASSUME NEW msg \in Messages, NEW key,
         secert \in BOOLEAN, secert => \E k \in Words : key = KeyOf[k]
  PROVE  Pack(msg, key) \in OfBytes
<1> DEFINE h == PutUint32(msg.cmd)
           i == PutUint32(msg.uid % Word32)
           m == MkMessage(msg)
<1>1. /\ msg.cmd \in Int /\ msg.uid \in Int /\ msg.data \in OfBytes
  <2>1. msg \in [cmd : 0 .. Word32 - 1, uid : Int, data : OfBytes]
    BY MessageAssumption DEF OfBytes
  <2>2. msg.cmd \in 0 .. Word32 - 1 /\ msg.uid \in Int /\ msg.data \in OfBytes
    BY <2>1
  <2>3. QED
    BY <2>2
<1>2. h \in OfBytes /\ i \in OfBytes
  <2>1. Word32 \in Nat \ {0}
    BY WordNat, CodecAssumption
  <2>2. msg.uid % Word32 \in Int
    BY <1>1, <2>1, Remainder
  <2>3. QED
    BY <1>1, <2>2, HeadsAreBytes
<1>3. m \in OfBytes
  <2>1. m = (h \o i) \o msg.data
    BY DEF MkMessage
  <2> HIDE DEF h, i, m
  <2>2. h \o i \in OfBytes
    BY <1>2, JoinedBytes
  <2>3. QED
    BY <1>1, <2>1, <2>2, JoinedBytes
<1> HIDE DEF m
<1>4. ASSUME NEW body \in OfBytes PROVE Packet(body) \in OfBytes
  <2>1. Len(body) + 4 \in Int
    BY DEF OfBytes
  <2>2. PutUint32(Len(body) + 4) \in OfBytes
    BY <2>1, HeadsAreBytes
  <2>3. QED
    BY <2>2, JoinedBytes DEF Packet
<1>5. CASE secert
  <2>1. PICK k \in Words : key = KeyOf[k]
    BY <1>5
  <2>2. Cipher(m, key) \in OfBytes
    BY <2>1, CipherAssumption DEF OfBytes, m
  <2>3. Pack(msg, key) = Packet(Cipher(m, key))
    BY <1>5 DEF Pack, EnBinaryPackage, m
  <2>4. QED
    BY <1>4, <2>2, <2>3
<1>6. CASE ~secert
  <2>1. Pack(msg, key) = Packet(m)
    BY <1>6 DEF Pack, Encode, m
  <2>2. QED
    BY <1>3, <1>4, <2>1
<1>7. QED
  BY <1>5, <1>6

(* The packets of the handshake are bytes.                                 *)
LEMMA HandshakeBytes ==
  /\ AckMsg \in OfBytes
  /\ \A ack \in 1 .. 3, n \in Int : KeyPacket(ack, n) \in OfBytes
<1>1. ASSUME NEW ack \in 1 .. 3, NEW data \in OfBytes
      PROVE  PackageHead(ack, data) \in OfBytes
  <2>1. 5 + Len(data) \in Int
    BY DEF OfBytes
  <2>2. PutUint32(5 + Len(data)) \in OfBytes
    BY <2>1, HeadsAreBytes
  <2>3. <<ack>> \in OfBytes
    <3>1. Ten \in Nat \ {0, 1} /\ Byte \in Nat /\ Ten * Ten <= Byte
      BY SessionAssumption, CodecAssumption
    <3>2. 4 <= Ten * Ten
      <4>1. 2 <= Ten /\ 2 * Ten <= Ten * Ten
        BY <3>1
      <4>2. QED
        BY <3>1, <4>1
    <3>3. ack \in 0 .. Byte - 1
      <4>1. Ten * Ten \in Nat
        BY <3>1
      <4>2. QED
        BY <3>1, <3>2, <4>1
    <3>4. QED
      BY <3>3 DEF OfBytes
  <2>4. QED
    BY <2>2, <2>3, JoinedBytes DEF PackageHead
<1>2. SW \in OfBytes
  <2> DEFINE S == 0 .. Byte - 1
  <2>1. SW \in [1 .. 2 -> S]
    BY SessionAssumption
  <2> HIDE DEF S
  <2>2. SW \in Seq(S)
    <3>1. Seq(S) = UNION {[1 .. n -> S] : n \in Nat}
      BY SeqDef
    <3>2. SW \in UNION {[1 .. n -> S] : n \in Nat}
      BY <2>1
    <3>3. QED
      BY <3>1, <3>2
  <2>3. QED
    BY <2>2 DEF OfBytes, S
<1>3. \A n \in Int : PutUint64(n) \in OfBytes
  <2> TAKE n \in Int
  <2>1. Word32 \in Nat \ {0}
    BY WordNat, CodecAssumption
  <2>2. n \div Word32 \in Int /\ n % Word32 \in Int
    BY <2>1, Remainder
  <2>3. QED
    BY <2>2, HeadsAreBytes, JoinedBytes DEF PutUint64
<1>4. QED
  BY <1>1, <1>2, <1>3 DEF AckMsg, KeyPacket

(* What is left of a sequence.                                             *)
LEMMA RestOf ==
  ASSUME NEW S, NEW w \in Seq(S), NEW n \in Nat
  PROVE  SubSeq(w, n + 1, Len(w)) \in Seq(S)
<1>1. /\ Len(w) \in Nat /\ n + 1 \in Int
      /\ \A i \in n + 1 .. Len(w) : w[i] \in S
  OBVIOUS
<1>2. QED
  BY <1>1, SubSeqProperties

(* Who has finished the handshake has a key,                               *)
LEMMA KeyedHaveKeys ==
  IInv => \A s \in Sides :
            hasRecvFlag[s] => (secert => \E k \in Words : secertKey[s] = KeyOf[k])
  BY KeyedHasKey

(* and after a step as well.                                               *)
LEMMA KeyedHaveKeysNext ==
  IInv' => (\A s \in Sides :
              hasRecvFlag[s] => (secert => \E k \in Words : secertKey[s] = KeyOf[k]))'
  BY KeyedHaveKeys, PTL

(* What is on its way to a side is bytes.                                  *)
Wired == wire \in [Sides -> OfBytes]

(* Writing bytes keeps bytes on their way.                                 *)
LEMMA WriteBytes ==
  ASSUME Wired, NEW s \in Sides, NEW bytes \in OfBytes, Write(s, bytes)
  PROVE  Wired'
<1> DEFINE o == Other(s)
<1>1. o \in Sides /\ wire[o] \in OfBytes
  BY TwoSides DEF Wired
<1>2. wire[o] \o bytes \in OfBytes
  BY <1>1, JoinedBytes
<1>3. wire' = [wire EXCEPT ![o] = IF Closed(s) \/ Closed(o) THEN @ ELSE @ \o bytes]
  BY DEF Write
<1>4. QED
  BY <1>1, <1>2, <1>3 DEF Wired

(* So does closing.                                                        *)
LEMMA CloseBytes == ASSUME Wired, NEW s \in Sides, Close(s) PROVE Wired'
<1>1. <<>> \in OfBytes
  BY DEF OfBytes
<1>2. QED
  BY <1>1 DEF Wired, Close

(* Every step keeps bytes on their way.                                    *)
LEMMA WiredStays == IInv /\ Wired /\ [Next]_vars /\ ~early' => Wired'
<1> SUFFICES ASSUME IInv, Wired, [Next]_vars, ~early' PROVE Wired'
  OBVIOUS
<1>1. CASE UNCHANGED vars
  BY <1>1 DEF vars, Wired
<1>2. ASSUME NEW s \in Sides, DoRecv(s) PROVE Wired'
  <2>1. CASE Read(s)
    <3>1. PICK n \in 1 .. Len(wire[s]) : wire' = [wire EXCEPT ![s] = SubSeq(@, n + 1, Len(@))]
      BY <2>1 DEF Read
    <3>2. SubSeq(wire[s], n + 1, Len(wire[s])) \in OfBytes
      <4>1. wire[s] \in Seq(0 .. Byte - 1) /\ n \in Nat
        BY DEF Wired, OfBytes
      <4>2. QED
        BY <4>1, RestOf DEF OfBytes
    <3>3. QED
      BY <3>1, <3>2 DEF Wired
  <2>2. CASE HangUp(s) \/ NeedMore(s)
    BY <2>2 DEF HangUp, NeedMore, Wired
  <2>3. CASE BadLength(s)
    BY <2>3, CloseBytes DEF BadLength
  <2>4. CASE Message(s)
    <3> DEFINE msg == OnPacketComplete(First(s), secert, secertKey[s])
               answer == Heartbeat(msg.uid)
    <3>1. IF msg = NoMessage THEN Close(s)
          ELSE /\ got' = [got EXCEPT ![s] = Append(@, msg)]
               /\ IF s = "server" /\ msg.cmd = MsgHeartbeat
                    THEN /\ sent' = [sent EXCEPT ![s] = Append(@, answer)]
                         /\ Write(s, Pack(answer, secertKey[s]))
                    ELSE UNCHANGED <<sent, wire>>
      BY <2>4 DEF Message
    <3> HIDE DEF msg
    <3>2. CASE msg = NoMessage
      BY <3>1, <3>2, CloseBytes
    <3>3. CASE msg # NoMessage /\ ~(s = "server" /\ msg.cmd = MsgHeartbeat)
      BY <3>1, <3>3 DEF Wired
    <3>4. CASE msg # NoMessage /\ s = "server" /\ msg.cmd = MsgHeartbeat
      <4>1. answer \in Messages
        <5>1. sent' = [sent EXCEPT ![s] = Append(@, answer)]
          BY <3>1, <3>4
        <5>2. IInv'
          BY <1>2, NextIInv DEF Next
        <5>3. sent'[s] \in Seq(Messages) /\ sent[s] \in Seq(Messages)
          BY <5>2 DEF IInv, Typed
        <5>4. sent'[s] = Append(sent[s], answer)
          BY <5>1 DEF IInv, Typed
        <5> DEFINE k == Len(sent[s]) + 1
        <5>5. k \in 1 .. Len(Append(sent[s], answer)) /\ Append(sent[s], answer)[k] = answer
          BY <5>3
        <5>6. QED
          BY <5>3, <5>4, <5>5
      <4>2. hasRecvFlag[s] /\ secert \in BOOLEAN
        BY <2>4 DEF Message, IInv, Typed
      <4>3. secert => \E k \in Words : secertKey[s] = KeyOf[k]
        BY <4>2, KeyedHasKey
      <4>4. Pack(answer, secertKey[s]) \in OfBytes
        BY <4>1, <4>2, <4>3, PackedBytes
      <4>5. QED
        BY <3>1, <3>4, <4>4, WriteBytes
    <3>5. QED
      BY <3>2, <3>3, <3>4
  <2>5. CASE ServerGetsSW
    <3>1. PICK x \in PrivateKeys :
            Close("server") \/ Write("server", KeyPacket(2, PublicKey(x)))
      BY <2>5 DEF ServerGetsSW
    <3>2. PublicKey(x) \in Int
      <4>1. x \in Words
        BY SessionAssumption
      <4>2. PublicKey(x) \in Words
        BY <4>1, SecretsAgree
      <4>3. QED
        BY <4>2, KeyAssumption DEF Words
    <3>3. QED
      BY <3>1, <3>2, HandshakeBytes, WriteBytes, CloseBytes, TwoSides
  <2>6. CASE ServerGetsKey
    <3>1. Close("server") \/ UNCHANGED wire
      BY <2>6 DEF ServerGetsKey
    <3>2. QED
      BY <3>1, CloseBytes, TwoSides DEF Wired
  <2>7. CASE ClientGetsKey
    <3> DEFINE packet == First("client")
               secret(x) == Secret(x, Key(packet))
               beat == Heartbeat(ClientUid)
               reply(x) == KeyPacket(3, PublicKey(x))
    <3>1. PICK x \in PrivateKeys :
            IF secret(x) = Err
              THEN Write("client", reply(x))
              ELSE /\ secertKey' = [secertKey EXCEPT !["client"] = KeyOf[secret(x)]]
                   /\ hasRecvFlag' = [hasRecvFlag EXCEPT !["client"] = TRUE]
                   /\ Write("client", reply(x) \o Pack(beat, KeyOf[secret(x)]))
      BY <2>7 DEF ClientGetsKey
    <3> DEFINE key == KeyOf[secret(x)]
    <3>2. UNCHANGED secert /\ IInv'
      BY <1>2, <2>7, NextIInv DEF Next, ClientGetsKey
    <3>3. reply(x) \in OfBytes
      <4>1. x \in Words
        BY SessionAssumption
      <4>2. PublicKey(x) \in Words
        BY <4>1, SecretsAgree
      <4>3. PublicKey(x) \in Int
        BY <4>2, KeyAssumption DEF Words
      <4>4. QED
        BY <4>3, HandshakeBytes
    <3>4. beat \in Messages
      BY DEF Messages
    <3>5. CASE secret(x) = Err
      BY <3>1, <3>3, <3>5, WriteBytes, TwoSides
    <3>6. CASE secret(x) # Err
      <4>1. hasRecvFlag'["client"] /\ secertKey'["client"] = key
        BY <3>1, <3>6, TwoSides DEF IInv, Typed
      <4>2. (secert => \E k \in Words : secertKey["client"] = KeyOf[k])'
        BY <3>2, <4>1, KeyedHaveKeysNext, TwoSides
      <4>3. secert => \E k \in Words : key = KeyOf[k]
        BY <3>2, <4>1, <4>2
      <4>4. secert \in BOOLEAN
        BY DEF IInv, Typed
      <4> HIDE DEF key
      <4>5. Pack(beat, key) \in OfBytes
        BY <3>4, <4>3, <4>4, PackedBytes
      <4>6. reply(x) \o Pack(beat, key) \in OfBytes
        BY <3>3, <4>5, JoinedBytes
      <4>7. QED
        BY <3>1, <3>6, <4>6, WriteBytes, TwoSides DEF key
    <3>7. QED
      BY <3>5, <3>6
  <2>8. CASE DropPacket \/ AckError(s)
    BY <2>8, NothingWrong
  <2>9. QED
    BY <1>2, <2>1, <2>2, <2>3, <2>4, <2>5, <2>6, <2>7, <2>8 DEF DoRecv
<1>3. ASSUME NEW s \in Sides, NEW msg \in Letters, Send(s, msg) PROVE Wired'
  <2>1. hasRecvFlag[s] /\ secert \in BOOLEAN
    BY <1>3 DEF Send, IInv, Typed
  <2>2. secert => \E k \in Words : secertKey[s] = KeyOf[k]
    BY <2>1, KeyedHasKey
  <2>3. msg \in Messages
    BY DEF Messages
  <2>4. Pack(msg, secertKey[s]) \in OfBytes
    BY <2>1, <2>2, <2>3, PackedBytes
  <2>5. QED
    BY <1>3, <2>4, WriteBytes DEF Send
<1>4. QED
  BY <1>1, <1>2, <1>3 DEF Next

(* The two things that are remembered are true or false.                   *)
Flags == early \in BOOLEAN /\ zero \in BOOLEAN
LEMMA InitFlags == Init => Flags
  BY DEF Init, Flags
LEMMA FlagsStay == Flags /\ [Next]_vars => Flags'
<1> SUFFICES ASSUME Flags, [Next]_vars PROVE Flags'
  OBVIOUS
<1>1. CASE UNCHANGED vars
  BY <1>1 DEF vars, keyVars, Flags
<1>2. ASSUME NEW s \in Sides, DoRecv(s) PROVE Flags'
  <2>1. early' = early
    BY <1>2 DEF DoRecv, Read, HangUp, NeedMore, BadLength, Message, AckError, ServerGetsSW,
         DropPacket, ServerGetsKey, ClientGetsKey
  <2>2. zero' = zero \/ \E x \in PrivateKeys : zero' = (zero \/ x = 0)
    BY <1>2 DEF DoRecv, Read, HangUp, NeedMore, BadLength, Message, AckError, ServerGetsSW,
         DropPacket, ServerGetsKey, ClientGetsKey, keyVars
  <2>3. QED
    BY <2>1, <2>2 DEF Flags
<1>3. ASSUME NEW s \in Sides, NEW msg \in Letters, Send(s, msg) PROVE Flags'
  BY <1>3 DEF Send, keyVars, Flags
<1>4. QED
  BY <1>1, <1>2, <1>3 DEF Next

-----------------------------------------------------------------------------
(* The theorems.                                                           *)

(* As long as no message has been sent before the sender's handshake was   *)
(* over: only bytes are on their way, DoRecv stands where it can stand,    *)
(* private keys are words, and the key of the cipher is not there yet or   *)
(* of sixteen bytes, however short the secret.                             *)
THEOREM SessionTypeOK == Spec => []TypeOK
<1>1. Init => Wired
  <2>1. <<>> \in OfBytes /\ AckMsg \in OfBytes
    BY HandshakeBytes DEF OfBytes
  <2>2. QED
    BY <2>1 DEF Init, Wired
<1>2. IInv /\ Wired /\ Flags => TypeOK
  <2> SUFFICES ASSUME IInv, Wired, Flags PROVE TypeOK
    OBVIOUS
  <2>1. ASSUME NEW s \in Sides, NEW i \in 1 .. Len(wire[s]) PROVE wire[s][i] \in 0 .. Byte - 1
    <3> DEFINE S == 0 .. Byte - 1
    <3>1. wire[s] \in Seq(S)
      BY DEF Wired, OfBytes
    <3> HIDE DEF S
    <3>2. wire[s][i] \in S
      BY <3>1
    <3>3. QED
      BY <3>2 DEF S
  <2>2. secertKey \in [Sides -> {<<>>} \cup [1 .. 16 -> 0 .. Byte - 1]]
    <3>1. {KeyOf[k] : k \in Words} \subseteq [1 .. 16 -> 0 .. Byte - 1]
      BY KeysAreBytes
    <3>2. secertKey \in [Sides -> {<<>>} \cup {KeyOf[k] : k \in Words}]
      BY DEF IInv, Typed
    <3>3. QED
      BY <3>1, <3>2
  <2>3. QED
    BY <2>1, <2>2 DEF TypeOK, IInv, Typed, Flags
<1>3. early /\ Flags => TypeOK
  BY DEF TypeOK, Flags
<1>4. (early \/ (IInv /\ Wired)) /\ [Next]_vars => (early \/ (IInv /\ Wired))'
  BY NextIInv, EarlyStays, WiredStays
<1>5. QED
  BY <1>1, <1>2, <1>3, <1>4, InitIInv, InitFlags, FlagsStay, PTL DEF Spec

(* However the stream is cut up on its way, DoRecv hands the application   *)
(* the messages that the other side has sent, unchanged, in their order    *)
(* and once, with and without encryption, as long as no message has been   *)
(* sent before the sender's handshake was over.                            *)
THEOREM MessagesArriveInOrder == Spec => []InOrder
<1>1. early \/ IInv => InOrder
  <2>1. SUFFICES ASSUME IInv, NEW s \in Sides PROVE IsPrefix(got[s], sent[Other(s)])
    BY DEF InOrder
  <2> DEFINE g == got[s]
             t == sent[Other(s)]
  <2>2. /\ g \in Seq(Messages) /\ t \in Seq(Messages) /\ Len(g) <= Len(t)
        /\ \A i \in 1 .. Len(g) : g[i] = t[i]
    BY <2>1, TwoSides DEF IInv, Typed, Handed
  <2> HIDE DEF g, t
  <2>3. SubSeq(g, 1, Len(g)) = g
    BY <2>2, SubSeqFull
  <2>4. /\ SubSeq(t, 1, Len(g)) \in Seq(Messages) /\ Len(SubSeq(t, 1, Len(g))) = Len(g)
        /\ \A i \in 1 .. Len(g) : SubSeq(t, 1, Len(g))[i] = t[i]
    BY <2>2
  <2>5. g = SubSeq(t, 1, Len(g))
    BY <2>2, <2>4, SeqEqual
  <2>6. IsPrefix(g, t)
    BY <2>2, <2>3, <2>5 DEF IsPrefix
  <2>7. QED
    BY <2>6 DEF g, t
<1>2. QED
  BY <1>1, Invariant, PTL

(* When both sides have finished an encrypted handshake they have the same *)
(* key of sixteen bytes, if no message has been sent early.                *)
THEOREM SidesShareTheKey == Spec => []KeysAgree
<1>1. early \/ IInv => KeysAgree
  <2>1. SUFFICES ASSUME IInv, secert, \A s \in Sides : hasRecvFlag[s]
                 PROVE  /\ secertKey["client"] = secertKey["server"]
                        /\ Len(secertKey["server"]) = 16
    BY DEF KeysAgree
  <2>2. Talking
    BY <2>1, TwoSides DEF IInv, Phases, Greeted, Offered, Replied, Failed, Silent
  <2>3. secertKey["client"] = secertKey["server"]
    BY <2>1, <2>2, TwoSides DEF Talking, Keyed
  <2>4. PICK k \in Words : secertKey["server"] = KeyOf[k]
    BY <2>1, TwoSides, KeyedHasKey
  <2>5. Len(KeyOf[k]) = 16
    BY DEF KeyOf
  <2>6. QED
    BY <2>3, <2>4, <2>5
<1>2. QED
  BY <1>1, Invariant, PTL

(* DoRecv closes a connection only because KeyPair has drawn the private   *)
(* key 0, because the packet of a message is longer than MaxLength, or     *)
(* because Broadcast or WritePacket has sent a message on a connection     *)
(* whose handshake was not over.                                           *)
THEOREM SidesCloseForCause == Spec => []ClosedForCause
<1>1. early => ClosedForCause
  BY DEF ClosedForCause
<1>2. IInv => ClosedForCause
  BY NeverLost DEF IInv, Justified, Cause, ClosedForCause
<1>3. QED
  BY <1>1, <1>2, Invariant, PTL

(* When both sides wait in Read and no bytes are on their way, both        *)
(* applications have been told of the connection and every message sent    *)
(* has been handed on, if no message has been sent early.                  *)
THEOREM NothingRemainsOwed == Spec => []NothingOwed
<1>1. early \/ IInv => NothingOwed
  <2> USE TwoSides
  <2>1. SUFFICES ASSUME IInv, \A s \in Sides : pc[s] = "read" /\ wire[s] = <<>>
                 PROVE  \A s \in Sides : told[s] /\ got[s] = sent[Other(s)] /\ cache[s] = <<>>
    BY DEF NothingOwed
  <2>2. ASSUME NEW s \in Sides, NEW q \in Seq(Frames), Pending(s, q)
        PROVE  q = <<>> /\ cache[s] = <<>>
    <3>1. /\ cache[s] \in Seq(Nat) /\ wire[s] = <<>> /\ <<>> \in Seq(Nat)
          /\ ParsePacket(cache[s]) = 0
      BY <2>1 DEF IInv, Typed, Resting, pkglen
    <3>2. Spells(cache[s] \o <<>>, q)
      BY <2>1, <2>2, <3>1 DEF Pending, Stream
    <3>3. QED
      BY <3>1, <3>2, Cutting, CodecAssumption
  <2>3. ~Greeted
    <3>1. AckMsg \in Frames
      BY AckMsgIs, CodecAssumption, SessionAssumption
    <3>2. <<AckMsg>> \in Seq(Frames) /\ <<AckMsg>> # <<>>
      BY <3>1, Single
    <3>3. QED
      BY <2>2, <3>2 DEF Greeted
  <2>4. ~Offered
    <3> DEFINE p == KeyPacket(2, PublicKey(private["server"]))
    <3>1. p \in Frames
      BY <2>1, KeyPackets
    <3> HIDE DEF p
    <3>2. <<p>> \in Seq(Frames) /\ <<p>> # <<>>
      BY <3>1, Single
    <3>3. ~Pending("client", <<p>>)
      BY <2>2, <3>2
    <3>4. QED
      BY <3>3 DEF Offered, p
  <2>5. ~Replied
    <3> DEFINE p == KeyPacket(3, PublicKey(private["client"]))
               r == Packets("client")
    <3>1. SUFFICES ASSUME Replied PROVE FALSE
      OBVIOUS
    <3>2. p \in Frames
      BY <2>1, KeyPackets
    <3>3. Keyed("client") /\ Pending("server", <<p>> \o r)
      BY <3>1 DEF Replied
    <3>4. r \in Seq(Frames)
      BY <2>1, <3>3, PacketsAre, KeyedHasKey DEF Keyed
    <3> HIDE DEF p, r
    <3>5. <<p>> \o r \in Seq(Frames) /\ <<p>> \o r # <<>>
      BY <3>2, <3>4, Consed
    <3>6. QED
      BY <2>2, <3>3, <3>5
  <2>6. ~Failed
    BY <2>1 DEF Failed
  <2>7. Talking
    BY <2>1, <2>3, <2>4, <2>5, <2>6 DEF IInv, Phases
  <2>8. ASSUME NEW s \in Sides
        PROVE  told[s] /\ got[s] = sent[Other(s)] /\ cache[s] = <<>>
    <3>1. \A t \in Sides : hasRecvFlag[t]
      BY <2>7 DEF Talking, Keyed
    <3>2. told[s]
      BY <2>1, <3>1 DEF IInv, Typed
    <3> DEFINE o == Other(s)
               q == Packets(o)
    <3>3. /\ q \in Seq(Frames) /\ Len(got[s]) \in Nat /\ Len(sent[o]) \in Nat
          /\ Len(q) = Len(sent[o]) - Len(got[s])
      BY <2>1, <3>1, PacketsAre, KeyedHasKey
    <3>4. Pending(s, q)
      BY <2>7 DEF Talking
    <3>5. q = <<>> /\ cache[s] = <<>>
      BY <2>2, <3>3, <3>4
    <3>6. Len(got[s]) = Len(sent[o])
      <4>1. Len(q) = 0
        BY <3>5
      <4>2. QED
        BY <3>3, <4>1
    <3>7. got[s] = sent[o]
      <4>1. /\ got[s] \in Seq(Messages) /\ sent[o] \in Seq(Messages)
            /\ \A i \in 1 .. Len(got[s]) : got[s][i] = sent[o][i]
        BY <2>1 DEF IInv, Typed, Handed
      <4>2. QED
        BY <3>6, <4>1, SeqEqual
    <3>8. QED
      BY <3>2, <3>5, <3>7
  <2>9. QED
    BY <2>8
<1>2. QED
  BY <1>1, Invariant, PTL
=============================================================================
