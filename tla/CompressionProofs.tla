------------------------- MODULE CompressionProofs -------------------------
(***************************************************************************)
(* For every size of window, lookahead, byte and buffer, and every message *)
(* (Compression): no wrong byte comes out, a message of a window's length  *)
(* comes out whole, and a stream that was cut is never sent.               *)
(*                                                                         *)
(* The invariant says what the stream means.  It is made of tokens; out    *)
(* has, for every bit at which one starts, how many bytes of the message   *)
(* the ones before it are (Parsed).  The encoder has finished the tokens   *)
(* of the first e bits and its state tells what it pushed of the next      *)
(* (Encoded); its buffer is a part of the message, which begins after off  *)
(* bytes (Buffered).  The decoder stands somewhere in a token, and what it *)
(* gave is what the tokens before it are, and its part of this one         *)
(* (Standing).                                                             *)
(*                                                                         *)
(* What the recursive functions give (Bit, FromBits, the index's chains)   *)
(* is proved by induction, in the form "a set of numbers that has 0 and    *)
(* every successor has all of them" (Induction): that some function solves *)
(* the equations up to n, then what any solution's values are.             *)
(***************************************************************************)
EXTENDS Compression, SequenceTheorems, WellFoundedInduction, TLAPS

-----------------------------------------------------------------------------
(* Numbers and sets of them *)

\* A set of numbers has a least one.
LEMMA Least ==
  ASSUME NEW T \in SUBSET Nat, T # {}
  PROVE  \E x \in T : \A y \in T : x <= y
<1> DEFINE R == OpToRel(<, Nat)
<1>1. IsWellFoundedOn(R, Nat)
  BY NatLessThanWellFounded
<1>2. PICK x \in T : \A y \in T : ~ (<<y, x>> \in R)
  <2> HIDE DEF R
  <2> QED
    BY <1>1, WFMin
<1>3. ASSUME NEW y \in T PROVE x <= y
  <2>1. x \in Nat /\ y \in Nat
    OBVIOUS
  <2>2. ~ (y < x)
    BY <1>2, <2>1 DEF OpToRel
  <2> QED
    BY <2>1, <2>2
<1> QED
  BY <1>3

\* Induction, about a set.
LEMMA Induction ==
  ASSUME NEW A, 0 \in A, \A n \in Nat : n \in A => n + 1 \in A
  PROVE  \A n \in Nat : n \in A
<1> DEFINE T == {n \in Nat : n \notin A}
<1> SUFFICES ASSUME T # {} PROVE FALSE
  OBVIOUS
<1>1. PICK x \in T : \A y \in T : x <= y
  <2>1. T \in SUBSET Nat
    OBVIOUS
  <2> HIDE DEF T
  <2> QED
    BY <2>1, Least
<1>2. x \in Nat /\ x \notin A /\ x # 0
  BY <1>1
<1>3. x - 1 \in Nat /\ x - 1 < x /\ (x - 1) + 1 = x
  BY <1>2
<1> QED
  BY <1>1, <1>2, <1>3

\* What Max gives.
LEMMA Largest ==
  ASSUME NEW S \in SUBSET Int, S # {}, NEW b \in Int, \A x \in S : x <= b
  PROVE  Max(S) \in S /\ \A y \in S : y <= Max(S)
<1> DEFINE T == {b - x : x \in S}
<1>1. T \in SUBSET Nat /\ T # {}
  <2>1. \A x \in S : x \in Int /\ x <= b
    OBVIOUS
  <2>2. \A x \in S : b - x \in Nat
    BY <2>1
  <2>3. T \in SUBSET Nat
    BY <2>2
  <2>4. T # {}
    OBVIOUS
  <2> QED
    BY <2>3, <2>4
<1>2. PICK t \in T : \A y \in T : t <= y
  <2> HIDE DEF T
  <2> QED
    BY <1>1, Least
<1>3. PICK m \in S : t = b - m
  BY <1>2
<1>4. \A y \in S : m >= y
  <2> TAKE y \in S
  <2>1. b - y \in T
    OBVIOUS
  <2> QED
    BY <1>2, <1>3, <2>1
<1>5. \E x \in S : \A y \in S : x >= y
  BY <1>4
<1>6. Max(S) \in S /\ \A y \in S : Max(S) >= y
  BY <1>5, Zenon DEF Max
<1> QED
  BY <1>6

LEMMA SmallerOfTwo ==
  ASSUME NEW a \in Int, NEW b \in Int
  PROVE  Min({a, b}) = IF a <= b THEN a ELSE b
BY DEF Min

LEMMA Capacities ==
  /\ ByteBits \in Nat \ {0} /\ WindowBits \in Nat \ {0} /\ LookaheadBits \in Nat \ {0}
  /\ MaxLen \in Nat /\ CompCap \in Nat /\ MaxLen < CompCap
  /\ InBuf \in Nat \ {0} /\ AskBuf \in Nat \ {0} /\ OutCap \in Nat /\ MaxLen < OutCap
  /\ LookaheadBits < WindowBits /\ WindowBits <= ByteBits
  /\ 1 + WindowBits + LookaheadBits >= ByteBits
  /\ Letters \subseteq 1 .. Bit[ByteBits] - 1
BY CompressionAssumption

-----------------------------------------------------------------------------
(* Numbers and bits *)

LEMMA BitSteps ==
  /\ Bit[0] = 1
  /\ \A i \in 1 .. ByteBits : Bit[i] = 2 * Bit[i - 1]
<1> DEFINE Solves(g, n) == g = [i \in 0 .. n |-> IF i = 0 THEN 1 ELSE 2 * g[i - 1]]
           A == {n \in Nat : \E g : Solves(g, n)}
<1>1. 0 \in A
  <2>1. Solves([i \in 0 .. 0 |-> 1], 0)
    OBVIOUS
  <2> QED
    BY <2>1
<1>2. ASSUME NEW n \in Nat, n \in A PROVE n + 1 \in A
  <2>1. PICK g : Solves(g, n)
    BY <1>2
  <2> DEFINE h == [i \in 0 .. n + 1 |-> IF i = n + 1 THEN 2 * g[n] ELSE g[i]]
  <2>2. ASSUME NEW i \in 0 .. n + 1
        PROVE  h[i] = IF i = 0 THEN 1 ELSE 2 * h[i - 1]
    <3>1. \A j \in 0 .. n : g[j] = IF j = 0 THEN 1 ELSE 2 * g[j - 1]
      BY <2>1
    <3> QED
      BY <3>1
  <2>3. Solves(h, n + 1)
    <3>1. h = [i \in 0 .. n + 1 |-> h[i]]
      OBVIOUS
    <3> HIDE DEF h
    <3> QED
      BY <2>2, <3>1
  <2>4. n + 1 \in Nat
    OBVIOUS
  <2> HIDE DEF Solves
  <2> QED
    BY <2>3, <2>4
<1>3. ByteBits \in A
  <2> HIDE DEF A
  <2> QED
    BY <1>1, <1>2, Induction, Capacities
<1>4. PICK g : Solves(g, ByteBits)
  BY <1>3
<1>5. Bit = [i \in 0 .. ByteBits |-> IF i = 0 THEN 1 ELSE 2 * Bit[i - 1]]
  BY <1>4 DEF Bit
<1> QED
  BY <1>5, Capacities

LEMMA BitType ==
  ASSUME NEW i \in 0 .. ByteBits
  PROVE  Bit[i] \in Nat \ {0}
<1> DEFINE A == {n \in Nat : n <= ByteBits => Bit[n] \in Nat \ {0}}
<1>1. 0 \in A
  BY BitSteps
<1>2. ASSUME NEW n \in Nat, n \in A PROVE n + 1 \in A
  <2> SUFFICES ASSUME n + 1 <= ByteBits PROVE Bit[n + 1] \in Nat \ {0}
    OBVIOUS
  <2>1. n + 1 \in 1 .. ByteBits /\ (n + 1) - 1 = n
    BY Capacities
  <2>2. Bit[n + 1] = 2 * Bit[n]
    BY <2>1, BitSteps
  <2> QED
    BY <1>2, <2>1, <2>2, Capacities
<1> HIDE DEF A
<1>3. i \in A
  BY <1>1, <1>2, Induction, Capacities
<1> QED
  BY <1>3, Capacities DEF A

LEMMA Quotient ==
  ASSUME NEW a \in Nat, NEW b \in Nat \ {0}, NEW q \in Nat, b * q <= a, a < b * q + b
  PROVE  a \div b = q
<1>1. a \div b \in Int /\ b * (a \div b) <= a /\ a < b * (a \div b) + b
  OBVIOUS
<1> DEFINE d == a \div b
<1>2. d \in Int /\ b * d <= a /\ a < b * d + b
  BY <1>1
<1> HIDE DEF d
<1>3. ~ (d < q)
  <2> SUFFICES ASSUME d + 1 <= q PROVE FALSE
    BY <1>2
  <2>1. b * (d + 1) <= b * q
    BY <1>2
  <2> QED
    BY <1>2, <2>1
<1>4. ~ (q < d)
  <2> SUFFICES ASSUME q + 1 <= d PROVE FALSE
    BY <1>2
  <2>1. b * (q + 1) <= b * d
    BY <1>2
  <2> QED
    BY <1>2, <2>1
<1> QED
  BY <1>2, <1>3, <1>4 DEF d

LEMMA Parity ==
  ASSUME NEW q \in Nat
  PROVE  q \div 2 \in Nat /\ (q % 2 = 0 \/ q % 2 = 1) /\ q = 2 * (q \div 2) + (q % 2)
OBVIOUS

LEMMA Halves ==
  ASSUME NEW v \in Nat, NEW b \in Nat \ {0}
  PROVE  v \div b = 2 * (v \div (2 * b)) + ((v \div b) % 2)
<1> DEFINE q == v \div b
           p == q \div 2
<1>1. q \in Nat /\ b * q <= v /\ v < b * q + b
  OBVIOUS
<1> HIDE DEF q
<1>2. p \in Nat /\ (q % 2 = 0 \/ q % 2 = 1) /\ q = 2 * p + (q % 2)
  BY <1>1, Parity
<1> HIDE DEF p
<1>3. 2 * b \in Nat \ {0}
  OBVIOUS
<1>4. (2 * b) * p <= v /\ v < (2 * b) * p + 2 * b
  <2>1. CASE q % 2 = 0
    <3>0. q = 2 * p
      BY <1>2, <2>1
    <3>1. b * q = (2 * b) * p
      BY <1>2, <3>0
    <3>2. (2 * b) * p \in Int
      BY <1>2
    <3> QED
      BY <1>1, <3>1, <3>2
  <2>2. CASE q % 2 = 1
    <3>0. q = 2 * p + 1
      BY <1>2, <2>2
    <3>1. b * q = (2 * b) * p + b
      BY <1>2, <3>0
    <3>2. (2 * b) * p \in Int
      BY <1>2
    <3> QED
      BY <1>1, <3>1, <3>2
  <2> QED
    BY <1>2, <2>1, <2>2
<1>5. v \div (2 * b) = p
  BY <1>2, <1>3, <1>4, Quotient
<1> QED
  BY <1>2, <1>5 DEF q

LEMMA Accumulated ==
  ASSUME NEW s, NEW k, NEW n \in Nat
  PROVE  \E acc : /\ FromBits(s, k, n) = acc[n]
                  /\ acc[0] = 0
                  /\ \A i \in 1 .. n : acc[i] = 2 * acc[i - 1] + s[k + i]
<1> DEFINE Solves(g, m) ==
             g = [i \in 0 .. m |-> IF i = 0 THEN 0 ELSE 2 * g[i - 1] + s[k + i]]
           A == {m \in Nat : \E g : Solves(g, m)}
<1>1. 0 \in A
  <2>1. Solves([i \in 0 .. 0 |-> 0], 0)
    OBVIOUS
  <2> QED
    BY <2>1
<1>2. ASSUME NEW m \in Nat, m \in A PROVE m + 1 \in A
  <2>1. PICK g : Solves(g, m)
    BY <1>2
  <2> DEFINE h == [i \in 0 .. m + 1 |-> IF i = m + 1 THEN 2 * g[m] + s[k + (m + 1)] ELSE g[i]]
  <2>2. ASSUME NEW i \in 0 .. m + 1
        PROVE  h[i] = IF i = 0 THEN 0 ELSE 2 * h[i - 1] + s[k + i]
    <3>1. \A j \in 0 .. m : g[j] = IF j = 0 THEN 0 ELSE 2 * g[j - 1] + s[k + j]
      BY <2>1
    <3> QED
      BY <3>1
  <2>3. Solves(h, m + 1)
    <3>1. h = [i \in 0 .. m + 1 |-> h[i]]
      OBVIOUS
    <3> HIDE DEF h
    <3> QED
      BY <2>2, <3>1
  <2>4. m + 1 \in Nat
    OBVIOUS
  <2> HIDE DEF Solves
  <2> QED
    BY <2>3, <2>4
<1>3. n \in A
  <2> HIDE DEF A
  <2> QED
    BY <1>1, <1>2, Induction
<1> DEFINE acc == CHOOSE g : Solves(g, n)
<1>4. Solves(acc, n)
  BY <1>3
<1>5. FromBits(s, k, n) = acc[n]
  BY DEF FromBits
<1> HIDE DEF acc
<1>6. acc[0] = 0 /\ \A i \in 1 .. n : acc[i] = 2 * acc[i - 1] + s[k + i]
  BY <1>4
<1> QED
  BY <1>5, <1>6

LEMMA OneBit ==
  ASSUME NEW s, NEW k \in Nat, s[k + 1] \in {0, 1}
  PROVE  FromBits(s, k, 1) = s[k + 1]
<1>1. PICK acc : /\ FromBits(s, k, 1) = acc[1]
                 /\ acc[0] = 0
                 /\ \A i \in 1 .. 1 : acc[i] = 2 * acc[i - 1] + s[k + i]
  BY Accumulated
<1>2. acc[1] = 2 * acc[0] + s[k + 1]
  BY <1>1
<1> QED
  BY <1>1, <1>2

\* n bits make a number below 2 to the n-th.
LEMMA NumberBound ==
  ASSUME NEW s, NEW k \in Nat, NEW n \in 0 .. ByteBits, \A i \in 1 .. n : s[k + i] \in {0, 1}
  PROVE  FromBits(s, k, n) \in 0 .. Bit[n] - 1
<1>0. n \in Nat /\ n <= ByteBits /\ ByteBits \in Nat
  BY Capacities
<1>1. PICK acc : /\ FromBits(s, k, n) = acc[n]
                 /\ acc[0] = 0
                 /\ \A i \in 1 .. n : acc[i] = 2 * acc[i - 1] + s[k + i]
  BY <1>0, Accumulated
<1> DEFINE A == {i \in Nat : i <= n => acc[i] \in 0 .. Bit[i] - 1}
<1>2. 0 \in A
  BY <1>1, BitSteps
<1>3. ASSUME NEW i \in Nat, i \in A PROVE i + 1 \in A
  <2> SUFFICES ASSUME i + 1 <= n PROVE acc[i + 1] \in 0 .. Bit[i + 1] - 1
    OBVIOUS
  <2>1. i + 1 \in 1 .. n /\ i + 1 \in 1 .. ByteBits /\ (i + 1) - 1 = i /\ i \in 0 .. ByteBits
    BY <1>0
  <2>2. Bit[i + 1] = 2 * Bit[i] /\ Bit[i] \in Nat
    BY <2>1, BitSteps, BitType
  <2>3. acc[i + 1] = 2 * acc[i] + s[k + (i + 1)] /\ s[k + (i + 1)] \in {0, 1}
    BY <1>1, <2>1
  <2>4. acc[i] \in 0 .. Bit[i] - 1
    BY <1>3, <1>0
  <2> QED
    BY <2>2, <2>3, <2>4
<1> HIDE DEF A
<1>4. n \in A
  BY <1>0, <1>2, <1>3, Induction
<1> QED
  BY <1>0, <1>1, <1>4 DEF A

\* get_bits gives what push_bits was given.
LEMMA RoundTrip ==
  ASSUME NEW s, NEW k \in Nat, NEW n \in 0 .. ByteBits, NEW v \in 0 .. Bit[n] - 1,
         \A i \in 1 .. n : s[k + i] = ToBits(v, n)[i]
  PROVE  FromBits(s, k, n) = v
<1>0. n \in Nat /\ n <= ByteBits /\ ByteBits \in Nat /\ v \in Nat
  BY Capacities, BitType
<1>1. PICK acc : /\ FromBits(s, k, n) = acc[n]
                 /\ acc[0] = 0
                 /\ \A i \in 1 .. n : acc[i] = 2 * acc[i - 1] + s[k + i]
  BY <1>0, Accumulated
<1> DEFINE A == {i \in Nat : i <= n => acc[i] = v \div Bit[n - i]}
<1>2. 0 \in A
  <2>1. Bit[n] \in Nat \ {0} /\ v < Bit[n] /\ n - 0 = n
    BY <1>0, BitType
  <2>2. v \div Bit[n] = 0
    <3>1. Bit[n] * 0 = 0
      BY <2>1
    <3> QED
      BY <1>0, <2>1, <3>1, Quotient
  <2> QED
    BY <1>1, <2>1, <2>2
<1>3. ASSUME NEW i \in Nat, i \in A PROVE i + 1 \in A
  <2> SUFFICES ASSUME i + 1 <= n PROVE acc[i + 1] = v \div Bit[n - (i + 1)]
    OBVIOUS
  <2> DEFINE b == Bit[n - (i + 1)]
  <2>1. /\ i + 1 \in 1 .. n /\ (i + 1) - 1 = i
        /\ n - (i + 1) \in 0 .. ByteBits /\ n - i \in 1 .. ByteBits /\ (n - i) - 1 = n - (i + 1)
    BY <1>0
  <2>2. b \in Nat \ {0} /\ Bit[n - i] = 2 * b
    BY <2>1, BitSteps, BitType
  <2>3. acc[i + 1] = 2 * acc[i] + s[k + (i + 1)]
    BY <1>1, <2>1
  <2>4. s[k + (i + 1)] = (v \div b) % 2
    BY <2>1 DEF ToBits
  <2>5. acc[i] = v \div (2 * b)
    <3>1. i <= n
      BY <1>0, <2>1
    <3> HIDE DEF b
    <3> QED
      BY <1>3, <2>2, <3>1
  <2> HIDE DEF b
  <2>6. acc[i + 1] = 2 * (v \div (2 * b)) + ((v \div b) % 2)
    BY <2>3, <2>4, <2>5
  <2>7. acc[i + 1] = v \div b
    BY <1>0, <2>2, <2>6, Halves
  <2> QED
    BY <2>7 DEF b
<1>4. acc[n] = v \div Bit[n - n]
  <2> HIDE DEF A
  <2>1. n \in A
    BY <1>0, <1>2, <1>3, Induction
  <2> QED
    BY <1>0, <2>1 DEF A
<1>5. n - n = 0 /\ v \div 1 = v
  BY <1>0
<1> QED
  BY <1>1, <1>4, <1>5, BitSteps

LEMMA SameBits ==
  ASSUME NEW s, NEW t, NEW k \in Nat, NEW n \in Nat, \A i \in 1 .. n : s[k + i] = t[k + i]
  PROVE  FromBits(s, k, n) = FromBits(t, k, n)
<1>1. PICK a : /\ FromBits(s, k, n) = a[n]
               /\ a[0] = 0
               /\ \A i \in 1 .. n : a[i] = 2 * a[i - 1] + s[k + i]
  BY Accumulated
<1>2. PICK b : /\ FromBits(t, k, n) = b[n]
               /\ b[0] = 0
               /\ \A i \in 1 .. n : b[i] = 2 * b[i - 1] + t[k + i]
  BY Accumulated
<1> DEFINE A == {i \in Nat : i <= n => a[i] = b[i]}
<1>3. 0 \in A
  BY <1>1, <1>2
<1>4. ASSUME NEW i \in Nat, i \in A PROVE i + 1 \in A
  <2> SUFFICES ASSUME i + 1 <= n PROVE a[i + 1] = b[i + 1]
    OBVIOUS
  <2>1. i + 1 \in 1 .. n /\ (i + 1) - 1 = i /\ i <= n
    OBVIOUS
  <2>2. a[i] = b[i]
    BY <1>4, <2>1
  <2> QED
    BY <1>1, <1>2, <2>1, <2>2
<1> HIDE DEF A
<1>5. n \in A
  BY <1>3, <1>4, Induction
<1> QED
  BY <1>1, <1>2, <1>5 DEF A

LEMMA BitsAreBits ==
  ASSUME NEW v \in Nat, NEW n \in 0 .. ByteBits
  PROVE  /\ ToBits(v, n) \in Seq({0, 1}) /\ Len(ToBits(v, n)) = n
         /\ v = 0 => \A i \in 1 .. n : ToBits(v, n)[i] = 0
<1>1. \A i \in 1 .. n : n - i \in 0 .. ByteBits
  BY Capacities
<1>2. \A i \in 1 .. n : v \div Bit[n - i] \in Nat
  <2> TAKE i \in 1 .. n
  <2>1. Bit[n - i] \in Nat \ {0}
    BY <1>1, BitType
  <2> QED
    BY <2>1
<1>3. \A q \in Nat : q % 2 \in {0, 1}
  BY Parity
<1>4. ToBits(v, n) \in [1 .. n -> {0, 1}]
  BY <1>2, <1>3 DEF ToBits
<1>5. n \in Nat
  BY Capacities
<1>6. ASSUME v = 0, NEW i \in 1 .. n PROVE ToBits(v, n)[i] = 0
  <2>1. ToBits(v, n)[i] = (v \div Bit[n - i]) % 2
    BY DEF ToBits
  <2>2. Bit[n - i] \in Nat \ {0}
    BY <1>1, BitType
  <2>3. 0 \div Bit[n - i] = 0
    <3>1. Bit[n - i] * 0 = 0
      BY <2>2
    <3> QED
      BY <2>2, <3>1, Quotient
  <2> QED
    BY <1>6, <2>1, <2>3
<1> QED
  BY <1>4, <1>5, <1>6, SeqDef

-----------------------------------------------------------------------------
(* The encoder's index and its search *)

LEMMA Powers ==
  /\ Window \in Nat \ {0} /\ Lookahead \in Nat \ {0} /\ InputOffset = Window
<1>1. WindowBits \in 0 .. ByteBits /\ LookaheadBits \in 0 .. ByteBits
  BY Capacities
<1> QED
  BY <1>1, BitType DEF Window, Lookahead, InputOffset

\* An index of the input: for every byte, where the same one stood before.
Points(ix, b, m) ==
  /\ DOMAIN ix = 0 .. m - 1
  /\ \A i \in 0 .. m - 1 : /\ ix[i] \in -1 .. i - 1
                           /\ ix[i] # -1 => b[ix[i]] = b[i]

LEMMA IndexSound ==
  ASSUME inputSize \in Nat
  PROVE  Points(Reindexed, buffer, InputOffset + inputSize)
<1>1. InputOffset \in Nat
  BY Powers
<1> DEFINE S(i) == {-1} \cup {j \in 0 .. i - 1 : buffer[j] = buffer[i]}
<1>2. ASSUME NEW i \in Nat
      PROVE  Max(S(i)) \in S(i)
  <2>1. S(i) \in SUBSET Int /\ S(i) # {} /\ i \in Int /\ \A x \in S(i) : x <= i
    OBVIOUS
  <2> HIDE DEF S
  <2> QED
    BY <2>1, Largest
<1>3. \A i \in 0 .. InputOffset + inputSize - 1 : Reindexed[i] = Max(S(i)) /\ i \in Nat
  BY <1>1 DEF Reindexed
<1>4. DOMAIN Reindexed = 0 .. InputOffset + inputSize - 1
  BY DEF Reindexed
<1>5. \A i \in 0 .. InputOffset + inputSize - 1 :
         Reindexed[i] \in -1 .. i - 1 /\ (Reindexed[i] # -1 => buffer[Reindexed[i]] = buffer[i])
  <2> TAKE i \in 0 .. InputOffset + inputSize - 1
  <2>1. Reindexed[i] \in S(i) /\ i \in Nat
    BY <1>2, <1>3
  <2> QED
    BY <2>1
<1>6. InputOffset + inputSize - 1 = (InputOffset + inputSize) - 1
  BY <1>1
<1> QED
  BY <1>4, <1>5, <1>6, Zenon DEF Points

LEMMA ChainSound ==
  ASSUME NEW m \in Nat, Points(index, buffer, m), NEW c \in 0 .. m - 1, c = InputOffset + msi
  PROVE  \A q \in Chain : q \in 0 .. c - 1 /\ buffer[q] = buffer[c]
<1> DEFINE Solves(g, n) ==
             g = [p \in -1 .. n - 1 |-> IF p = -1 THEN {} ELSE {p} \cup g[index[p]]]
           A == {n \in Nat : n <= m => \E g : Solves(g, n)}
<1>0. DOMAIN index = 0 .. m - 1
      /\ \A i \in 0 .. m - 1 : index[i] \in -1 .. i - 1 /\ (index[i] # -1 => buffer[index[i]] = buffer[i])
  BY DEF Points
<1>1. 0 \in A
  <2>1. Solves([p \in -1 .. -1 |-> {}], 0)
    OBVIOUS
  <2> QED
    BY <2>1
<1>2. ASSUME NEW n \in Nat, n \in A PROVE n + 1 \in A
  <2> SUFFICES ASSUME n + 1 <= m PROVE \E g : Solves(g, n + 1)
    OBVIOUS
  <2>1. PICK g : Solves(g, n)
    BY <1>2
  <2> DEFINE h == [p \in -1 .. n |-> IF p = n THEN {n} \cup g[index[n]] ELSE g[p]]
  <2>2. ASSUME NEW p \in -1 .. n
        PROVE  h[p] = IF p = -1 THEN {} ELSE {p} \cup h[index[p]]
    <3>1. \A j \in -1 .. n - 1 : g[j] = IF j = -1 THEN {} ELSE {j} \cup g[index[j]]
      BY <2>1
    <3>2. CASE p = -1
      <4>0. p \in -1 .. n - 1 /\ p # n
        BY <3>2
      <4>1. h[p] = g[p] /\ g[p] = {}
        BY <3>1, <3>2, <4>0
      <4> QED
        BY <3>2, <4>1
    <3>3. CASE p \in 0 .. n
      <4>1. index[p] \in -1 .. n - 1 /\ index[p] # n
        BY <1>0, <3>3
      <4>2. h[index[p]] = g[index[p]]
        BY <4>1
      <4>3. h[p] = {p} \cup g[index[p]]
        <5>1. CASE p = n
          BY <5>1
        <5>2. CASE p # n
          <6>1. p \in -1 .. n - 1 /\ p # -1 /\ h[p] = g[p]
            BY <3>3, <5>2
          <6> QED
            BY <3>1, <6>1
        <5> QED
          BY <5>1, <5>2
      <4>4. p # -1
        BY <3>3
      <4> QED
        BY <4>2, <4>3, <4>4
    <3>4. p = -1 \/ p \in 0 .. n
      OBVIOUS
    <3> QED
      BY <3>2, <3>3, <3>4
  <2>3. Solves(h, n + 1)
    <3>1. h = [p \in -1 .. n |-> h[p]] /\ (n + 1) - 1 = n
      OBVIOUS
    <3> HIDE DEF h
    <3> QED
      BY <2>2, <3>1
  <2> HIDE DEF Solves
  <2> QED
    BY <2>3
<1>3. \E g : Solves(g, m)
  <2>1. m \in A
    <3> HIDE DEF A
    <3> QED
      BY <1>1, <1>2, Induction
  <2> HIDE DEF Solves
  <2> QED
    BY <2>1
<1> DEFINE from == CHOOSE g : g = [p \in {-1} \cup DOMAIN index |-> IF p = -1 THEN {} ELSE {p} \cup g[index[p]]]
<1>4. from = [p \in {-1} \cup DOMAIN index |-> IF p = -1 THEN {} ELSE {p} \cup from[index[p]]]
  <2>1. {-1} \cup DOMAIN index = -1 .. m - 1
    BY <1>0
  <2>2. \E g : g = [p \in {-1} \cup DOMAIN index |-> IF p = -1 THEN {} ELSE {p} \cup g[index[p]]]
    BY <1>3, <2>1
  <2> QED
    BY <2>2
<1>5. Chain = from[index[c]]
  BY DEF Chain
<1> HIDE DEF from
<1>6. from[-1] = {} /\ \A p \in 0 .. m - 1 : from[p] = {p} \cup from[index[p]]
  <2>1. DOMAIN index = 0 .. m - 1 /\ -1 \in {-1} \cup DOMAIN index
    BY <1>0
  <2>2. from[-1] = {}
    BY <1>4, <2>1
  <2>3. ASSUME NEW p \in 0 .. m - 1 PROVE from[p] = {p} \cup from[index[p]]
    <3>1. p # -1 /\ p \in {-1} \cup DOMAIN index
      BY <2>1
    <3> QED
      BY <1>4, <3>1
  <2> QED
    BY <2>2, <2>3
<1> DEFINE B == {n \in Nat : \A p \in 0 .. m - 1 : p < n =>
                    \A q \in from[p] : q \in 0 .. p /\ buffer[q] = buffer[p]}
<1>7. 0 \in B
  OBVIOUS
<1>8. ASSUME NEW n \in Nat, n \in B PROVE n + 1 \in B
  <2> SUFFICES ASSUME NEW p \in 0 .. m - 1, p < n + 1, NEW q \in from[p]
               PROVE  q \in 0 .. p /\ buffer[q] = buffer[p]
    OBVIOUS
  <2>1. q = p \/ q \in from[index[p]]
    BY <1>6
  <2>2. CASE q \in from[index[p]]
    <3>1. index[p] \in 0 .. p - 1 /\ buffer[index[p]] = buffer[p]
      BY <1>0, <1>6, <2>2
    <3>2. index[p] \in 0 .. m - 1 /\ index[p] < n
      BY <3>1
    <3>3. q \in 0 .. index[p] /\ buffer[q] = buffer[index[p]]
      BY <1>8, <2>2, <3>2
    <3> QED
      BY <3>1, <3>3
  <2> QED
    BY <2>1, <2>2
<1>9. m \in B
  <2> HIDE DEF B
  <2> QED
    BY <1>7, <1>8, Induction
<1>10. ASSUME NEW q \in from[index[c]]
       PROVE  q \in 0 .. c - 1 /\ buffer[q] = buffer[c]
  <2>1. c \in 0 .. m - 1 /\ index[c] # -1
    BY <1>6, <1>10
  <2>2. index[c] \in 0 .. c - 1 /\ buffer[index[c]] = buffer[c]
    <3>1. index[c] \in -1 .. c - 1 /\ buffer[index[c]] = buffer[c]
      BY <1>0, <2>1
    <3> QED
      BY <2>1, <3>1
  <2>3. index[c] \in 0 .. m - 1 /\ index[c] < m
    BY <2>1, <2>2
  <2>4. q \in 0 .. index[c] /\ buffer[q] = buffer[index[c]]
    BY <1>9, <2>3
  <2> QED
    BY <2>1, <2>2, <2>4
<1> QED
  BY <1>5, <1>10

\* What find_longest_match returns stands in the window and agrees with the input.
LEMMA MatchSound ==
  ASSUME index = Reindexed, inputSize \in 0 .. Window, msi \in 0 .. inputSize - 1, MatchFound
  PROVE  /\ LongestMatch \in 1 .. Lookahead /\ LongestMatch <= inputSize - msi
         /\ NearestLongest \in Nat /\ InputOffset + msi - NearestLongest \in 1 .. Window
         /\ \A i \in 0 .. LongestMatch - 1 :
               buffer[NearestLongest + i] = buffer[InputOffset + msi + i]
<1> DEFINE c == InputOffset + msi
           L(p) == {l \in 1 .. MaxPossible : \A i \in 1 .. l - 1 : buffer[p + i] = buffer[c + i]}
           S == {0} \cup {Agreeing(p) : p \in Candidates}
           T == {p \in Candidates : Agreeing(p) = LongestMatch}
<1>0. Window \in Nat /\ inputSize \in Nat /\ msi \in Nat /\ c \in Nat /\ InputOffset = Window
      /\ c \in 0 .. InputOffset + inputSize - 1 /\ InputOffset + inputSize \in Nat
  BY Powers
<1>1. MaxPossible \in 1 .. Lookahead /\ MaxPossible <= inputSize - msi
  <2>1. Lookahead \in Int /\ inputSize - msi \in Int
    BY <1>0, Powers
  <2>2. MaxPossible = IF Lookahead <= inputSize - msi THEN Lookahead ELSE inputSize - msi
    BY <2>1, SmallerOfTwo DEF MaxPossible
  <2> QED
    BY <1>0, <2>2, Powers
<1>2. \A q \in Chain : q \in 0 .. c - 1 /\ buffer[q] = buffer[c]
  BY <1>0, IndexSound, ChainSound
<1>3. ASSUME NEW p
      PROVE  Agreeing(p) \in L(p)
  <2>1. 1 \in L(p) /\ L(p) \in SUBSET Int /\ \A x \in L(p) : x <= MaxPossible
    BY <1>1
  <2>2. Agreeing(p) = Max(L(p))
    BY DEF Agreeing
  <2>3. MaxPossible \in Int
    BY <1>1
  <2> HIDE DEF L
  <2> QED
    BY <2>1, <2>2, <2>3, Largest
<1>4. LongestMatch \in S
  <2>1. S \in SUBSET Int /\ S # {} /\ MaxPossible \in Int /\ \A x \in S : x <= MaxPossible
    BY <1>1, <1>3
  <2>2. LongestMatch = Max(S)
    BY DEF LongestMatch
  <2> HIDE DEF S
  <2> QED
    BY <2>1, <2>2, Largest
<1>5. LongestMatch > 0
  <2>1. (1 + WindowBits + LookaheadBits) \div ByteBits \in Nat
    BY Capacities
  <2>2. LongestMatch \in Int
    BY <1>1, <1>3, <1>4
  <2> QED
    BY <2>1, <2>2 DEF MatchFound
<1>6. PICK p0 \in Candidates : Agreeing(p0) = LongestMatch
  BY <1>4, <1>5
<1>7. \A p \in Candidates : p \in 0 .. c - 1 /\ buffer[p] = buffer[c] /\ p >= c - Window
  BY <1>0, <1>2 DEF Candidates
<1>8. NearestLongest \in T
  <2>1. T \in SUBSET Int /\ T # {} /\ c \in Int /\ \A x \in T : x <= c
    BY <1>0, <1>6, <1>7
  <2>2. NearestLongest = Max(T)
    BY DEF NearestLongest
  <2> HIDE DEF T, c
  <2> QED
    BY <2>1, <2>2, Largest
<1>9. NearestLongest \in 0 .. c - 1 /\ buffer[NearestLongest] = buffer[c] /\ NearestLongest >= c - Window
  BY <1>7, <1>8
<1>10. LongestMatch \in L(NearestLongest)
  BY <1>3, <1>8
<1>11. LongestMatch \in 1 .. MaxPossible
       /\ \A i \in 1 .. LongestMatch - 1 : buffer[NearestLongest + i] = buffer[c + i]
  BY <1>10
<1>12. \A i \in 0 .. LongestMatch - 1 : buffer[NearestLongest + i] = buffer[c + i]
  <2> TAKE i \in 0 .. LongestMatch - 1
  <2>1. CASE i = 0
    <3>1. NearestLongest + 0 = NearestLongest /\ c + 0 = c
      BY <1>0, <1>9
    <3> QED
      BY <1>9, <2>1, <3>1
  <2>2. CASE i # 0
    BY <1>1, <1>11, <2>2
  <2> QED
    BY <2>1, <2>2
<1>13. InputOffset + msi - NearestLongest \in 1 .. Window /\ NearestLongest \in Nat
  BY <1>0, <1>9
<1>14. LongestMatch \in 1 .. Lookahead /\ LongestMatch <= inputSize - msi
  BY <1>0, <1>1, <1>11, Powers
<1> QED
  BY <1>12, <1>13, <1>14
-----------------------------------------------------------------------------
(* The stream: tokens, one after the other, that make up the message. *)

\* After k bytes of the message, l more are as those d before them.
Repeats(k, d, l) ==
  /\ d \in 1 .. Window /\ d <= k /\ l \in 1 .. Lookahead /\ k + l <= Len(message)
  /\ \A i \in 1 .. l : message[k + i] = message[k + i - d]

\* The token that starts after b bits of s; out[b] bytes came before it.
Literal(s, out, b) ==
  LET end == b + 1 + ByteBits IN
  /\ s[b + 1] = 1
  /\ out[b] < Len(message) /\ FromBits(s, b + 1, ByteBits) = message[out[b] + 1]
  /\ end \in DOMAIN out /\ out[end] = out[b] + 1

Distance(s, b) == FromBits(s, b + 1, WindowBits) + 1
Count(s, b) == FromBits(s, b + 1 + WindowBits, LookaheadBits) + 1

Reference(s, out, b) ==
  LET end == b + 1 + WindowBits + LookaheadBits IN
  /\ s[b + 1] = 0
  /\ Repeats(out[b], Distance(s, b), Count(s, b))
  /\ end \in DOMAIN out /\ out[end] = out[b] + Count(s, b)

\* Tokens fill s up to e; they start at the arguments of out.
Parsed(s, out, e) ==
  /\ s \in Seq({0, 1}) /\ e \in 0 .. Len(s)
  /\ DOMAIN out \subseteq 0 .. e /\ 0 \in DOMAIN out /\ e \in DOMAIN out
  /\ out[0] = 0 /\ \A b \in DOMAIN out : out[b] \in 0 .. Len(message)
  /\ \A b \in DOMAIN out : b # e => Literal(s, out, b) \/ Reference(s, out, b)

LEMMA Longer ==
  ASSUME NEW s, NEW t, s \in Seq({0, 1}), t \in Seq({0, 1}), Len(s) <= Len(t),
         \A i \in 1 .. Len(s) : t[i] = s[i],
         NEW k \in Nat, NEW n \in Nat, k + n <= Len(s)
  PROVE  FromBits(t, k, n) = FromBits(s, k, n)
<1>1. \A i \in 1 .. n : k + i \in 1 .. Len(s)
  OBVIOUS
<1>2. \A i \in 1 .. n : t[k + i] = s[k + i]
  BY <1>1
<1> QED
  BY <1>2, SameBits

\* What was parsed stays so when bits are added.
LEMMA StaysParsed ==
  ASSUME NEW s, NEW t, NEW out, NEW e, Parsed(s, out, e), Len(message) \in Nat,
         t \in Seq({0, 1}), Len(s) <= Len(t), \A i \in 1 .. Len(s) : t[i] = s[i]
  PROVE  Parsed(t, out, e)
<1>0. s \in Seq({0, 1}) /\ e \in 0 .. Len(s) /\ Len(s) \in Nat /\ Len(t) \in Nat
  BY DEF Parsed
<1>1. ASSUME NEW b \in DOMAIN out, b # e
      PROVE  Literal(t, out, b) \/ Reference(t, out, b)
  <2>0. b \in Nat /\ DOMAIN out \subseteq 0 .. e
    BY DEF Parsed
  <2>1. CASE Literal(s, out, b)
    <3>1. b + 1 + ByteBits <= Len(s) /\ b + 1 \in Nat /\ (b + 1) + ByteBits <= Len(s)
      BY <1>0, <2>0, <2>1, Capacities DEF Literal
    <3>2. t[b + 1] = s[b + 1]
      <4>1. b + 1 \in 1 .. Len(s)
        BY <1>0, <2>0, <3>1, Capacities
      <4> QED
        BY <4>1
    <3>3. FromBits(t, b + 1, ByteBits) = FromBits(s, b + 1, ByteBits)
      BY <1>0, <3>1, Longer, Capacities
    <3> QED
      BY <2>1, <3>2, <3>3 DEF Literal
  <2>2. CASE Reference(s, out, b)
    <3>1. /\ b + 1 + WindowBits + LookaheadBits <= Len(s) /\ b + 1 \in Nat
          /\ b + 1 + WindowBits \in Nat /\ (b + 1) + WindowBits <= Len(s)
          /\ (b + 1 + WindowBits) + LookaheadBits <= Len(s)
      BY <1>0, <2>0, <2>2, Capacities DEF Reference
    <3>2. t[b + 1] = s[b + 1]
      <4>1. b + 1 \in 1 .. Len(s)
        BY <1>0, <2>0, <3>1, Capacities
      <4> QED
        BY <4>1
    <3>3. Distance(t, b) = Distance(s, b)
      <4>1. FromBits(t, b + 1, WindowBits) = FromBits(s, b + 1, WindowBits)
        <5>1. b + 1 \in Nat /\ WindowBits \in Nat /\ (b + 1) + WindowBits <= Len(s)
          BY <1>0, <3>1, Capacities
        <5> QED
          BY <1>0, <5>1, Longer
      <4> QED
        BY <4>1 DEF Distance
    <3>4. Count(t, b) = Count(s, b)
      <4>1. FromBits(t, b + 1 + WindowBits, LookaheadBits) = FromBits(s, b + 1 + WindowBits, LookaheadBits)
        <5> DEFINE k == b + 1 + WindowBits
        <5>1. k \in Nat /\ LookaheadBits \in Nat /\ k + LookaheadBits <= Len(s)
          BY <1>0, <3>1, Capacities
        <5> HIDE DEF k
        <5>2. FromBits(t, k, LookaheadBits) = FromBits(s, k, LookaheadBits)
          BY <1>0, <5>1, Longer
        <5> QED
          BY <5>2 DEF k
      <4> QED
        BY <4>1 DEF Count
    <3> QED
      BY <2>2, <3>2, <3>3, <3>4 DEF Reference
  <2> QED
    BY <1>1, <2>1, <2>2 DEF Parsed
<1> QED
  BY <1>0, <1>1 DEF Parsed

\* A whole token more.
LEMMA OneMoreToken ==
  ASSUME NEW s, NEW out, NEW e, Parsed(s, out, e), NEW f \in Nat, e < f, f <= Len(s),
         NEW k \in 0 .. Len(message), Len(message) \in Nat,
         NEW more, more = [b \in DOMAIN out \cup {f} |-> IF b = f THEN k ELSE out[b]],
         Literal(s, more, e) \/ Reference(s, more, e)
  PROVE  Parsed(s, more, f)
<1>1. /\ s \in Seq({0, 1}) /\ e \in 0 .. Len(s) /\ Len(s) \in Nat
      /\ DOMAIN out \subseteq 0 .. e /\ 0 \in DOMAIN out /\ e \in DOMAIN out /\ out[0] = 0
      /\ \A b \in DOMAIN out : out[b] \in 0 .. Len(message)
      /\ \A b \in DOMAIN out : b # e => Literal(s, out, b) \/ Reference(s, out, b)
  BY DEF Parsed
<1>2. DOMAIN more = DOMAIN out \cup {f} /\ more[f] = k
  OBVIOUS
<1>3. \A b \in DOMAIN out : b \in DOMAIN more /\ more[b] = out[b] /\ b # f
  BY <1>1
<1>4. ASSUME NEW b \in DOMAIN out, b # e
      PROVE  Literal(s, more, b) \/ Reference(s, more, b)
  <2>1. CASE Literal(s, out, b)
    BY <1>3, <2>1 DEF Literal
  <2>2. CASE Reference(s, out, b)
    BY <1>3, <2>2 DEF Reference
  <2> QED
    BY <1>1, <1>4, <2>1, <2>2
<1>5. DOMAIN more \subseteq 0 .. f /\ 0 \in DOMAIN more /\ f \in DOMAIN more /\ more[0] = 0
  BY <1>1, <1>2, <1>3
<1>6. \A b \in DOMAIN more : more[b] \in 0 .. Len(message)
  BY <1>1, <1>2, <1>3
<1>7. \A b \in DOMAIN more : b # f => Literal(s, more, b) \/ Reference(s, more, b)
  BY <1>2, <1>4
<1>8. f \in 0 .. Len(s) /\ s \in Seq({0, 1})
  BY <1>1
<1> QED
  BY <1>5, <1>6, <1>7, <1>8, Zenon DEF Parsed

\* Where a token starts there is room for it, except at the end.
LEMMA TokenFits ==
  ASSUME NEW s, NEW out, NEW e, Parsed(s, out, e), NEW b \in DOMAIN out, b # e, Len(message) \in Nat
  PROVE  /\ b \in Nat /\ b < e /\ e <= Len(s) /\ out[b] \in Nat
         /\ Literal(s, out, b) => b + 1 + ByteBits <= e
         /\ Reference(s, out, b) => b + 1 + WindowBits + LookaheadBits <= e
BY Capacities DEF Parsed, Literal, Reference

-----------------------------------------------------------------------------
(* Remainders *)

LEMMA WholeBytes ==
  ASSUME NEW n \in Nat, NEW b \in Nat \ {0}
  PROVE  /\ n \div b \in Nat /\ n % b \in 0 .. b - 1 /\ n = b * (n \div b) + (n % b)
         /\ (n \div b) * b <= n
         /\ n % b = 0 => (n \div b) * b = n
<1>1. n \div b \in Nat /\ n % b \in 0 .. b - 1 /\ n = b * (n \div b) + (n % b)
  OBVIOUS
<1> DEFINE q == n \div b
           r == n % b
<1>2. q \in Nat /\ r \in 0 .. b - 1 /\ n = b * q + r
  BY <1>1
<1> HIDE DEF q, r
<1>3. b * q = q * b /\ q * b \in Int
  BY <1>2
<1>4. q * b <= n /\ (r = 0 => q * b = n)
  BY <1>2, <1>3
<1> QED
  BY <1>1, <1>4 DEF q, r

LEMMA Remainder ==
  ASSUME NEW b \in Nat \ {0}, NEW q \in Nat, NEW r \in 0 .. b - 1, NEW n \in Nat, n = b * q + r
  PROVE  n % b = r
<1>1. b * q \in Int
  OBVIOUS
<1>2. n \div b = q
  BY <1>1, Quotient
<1>3. n = b * (n \div b) + (n % b) /\ n % b \in Int
  OBVIOUS
<1>4. n = b * q + (n % b)
  BY <1>2, <1>3
<1> QED
  BY <1>1, <1>3, <1>4

LEMMA FilledUp ==
  ASSUME NEW n \in Nat, NEW b \in Nat \ {0}, NEW p, p = (b - (n % b)) % b
  PROVE  p \in 0 .. b - 1 /\ (n + p) % b = 0
<1> DEFINE q == n \div b
           r == n % b
<1>1. q \in Nat /\ r \in 0 .. b - 1 /\ n = b * q + r
  BY WholeBytes
<1>2. p = (b - r) % b
  OBVIOUS
<1> HIDE DEF q, r
<1>3. CASE r = 0
  <2>1. b % b = 0
    <3>1. b = b * 1 + 0
      OBVIOUS
    <3> QED
      BY <3>1, Remainder
  <2>2. p = 0 /\ n + p = b * q + 0
    BY <1>1, <1>2, <1>3, <2>1
  <2>3. (n + p) % b = 0
    <3>1. n + p \in Nat /\ 0 \in 0 .. b - 1
      BY <2>2
    <3> QED
      BY <1>1, <2>2, <3>1, Remainder
  <2> QED
    BY <2>2, <2>3
<1>4. CASE r # 0
  <2>1. b - r \in 0 .. b - 1 /\ b - r \in Nat /\ b - r = b * 0 + (b - r)
    BY <1>1, <1>4
  <2>2. p = b - r
    BY <1>2, <2>1, Remainder
  <2>3. n + p = b * (q + 1) + 0
    <3>1. b * (q + 1) = b * q + b /\ b * q \in Int
      BY <1>1
    <3> QED
      BY <1>1, <2>2, <3>1
  <2>4. (n + p) % b = 0
    <3> DEFINE m == n + p
               k == q + 1
    <3>1. m \in Nat /\ 0 \in 0 .. b - 1 /\ k \in Nat
      BY <1>1, <2>1, <2>2
    <3>2. m = b * k + 0
      BY <2>3
    <3> HIDE DEF m, k
    <3>3. m % b = 0
      BY <3>1, <3>2, Remainder
    <3> QED
      BY <3>3 DEF m
  <2> QED
    BY <2>1, <2>2, <2>4
<1> QED
  BY <1>3, <1>4

\* Less than a window apart, two bytes do not share a place in the ring.
LEMMA PlacesDiffer ==
  ASSUME NEW j \in Nat, NEW h \in Nat, NEW b \in Nat \ {0}, j < h, h < j + b
  PROVE  j % b # h % b
<1> SUFFICES ASSUME j % b = h % b PROVE FALSE
  OBVIOUS
<1> DEFINE q == j \div b
           p == h \div b
           r == j % b
<1>1. q \in Nat /\ p \in Nat /\ r \in 0 .. b - 1 /\ j = b * q + r /\ h = b * p + r
  <2>1. q \in Nat /\ r \in 0 .. b - 1 /\ j = b * q + r
    BY WholeBytes
  <2>2. p \in Nat /\ h = b * p + (h % b)
    BY WholeBytes
  <2> QED
    BY <2>1, <2>2
<1> HIDE DEF q, p, r
<1>2. b * q \in Int /\ b * p \in Int
  BY <1>1
<1>3. CASE p <= q
  <2>1. b * p <= b * q
    BY <1>1, <1>3
  <2> QED
    BY <1>1, <1>2, <2>1
<1>4. CASE q + 1 <= p
  <2>1. b * (q + 1) <= b * p /\ b * (q + 1) = b * q + b
    BY <1>1, <1>4
  <2> QED
    BY <1>1, <1>2, <2>1
<1> QED
  BY <1>1, <1>3, <1>4

-----------------------------------------------------------------------------
(* The invariant *)

Decided == pc \in {"sent", "sink", "expand", "done"}

\* Values and, for each program, the part that is not yet or no longer at work.
Basics ==
  /\ message \in Seq(Letters) /\ Len(message) \in 1 .. MaxLen
  /\ receiver \in {"dash", "ask"}
  /\ pc \in {"typed", "poll", "flush", "sent", "sink", "expand", "done"}
  /\ hse \in {"NOT_FULL", "FILLED", "SEARCH", "YIELD_TAG_BIT", "YIELD_LITERAL",
              "YIELD_BR_INDEX", "YIELD_BR_LENGTH", "SAVE_BACKLOG", "FLUSH_BITS", "DONE"}
  /\ hsd \in {"TAG_BIT", "YIELD_LITERAL", "BACKREF_INDEX_LSB", "BACKREF_COUNT_LSB",
              "YIELD_BACKREF"}
  /\ matchLength \in 0 .. Lookahead /\ matchPos \in 0 .. Window
  /\ finishing \in BOOLEAN
  /\ compressed \in BOOLEAN
  /\ compressed => Decided /\ hse = "DONE"
  /\ pc \in {"sink", "expand"} => compressed

\* The decoder has not been given anything.
Untouched ==
  /\ hsd = "TAG_BIT" /\ fed = 0 /\ read = 0 /\ outputIndex = 0 /\ outputCount = 0
  /\ DOMAIN window = 0 .. Window - 1

\* The encoder's buffer after off bytes of the message went by: zeros, then
\* the message up to the last byte that was sunk.
Buffered(off) ==
  /\ off \in Nat /\ inputSize \in 0 .. Window /\ msi \in 0 .. inputSize
  /\ off + inputSize <= Len(message)
  /\ DOMAIN buffer = 0 .. 2 * Window - 1
  /\ \A i \in 0 .. Window + inputSize - 1 :
        buffer[i] = IF i < Window - off THEN 0 ELSE message[off + i - Window + 1]
  /\ pc = "typed" => off = 0 /\ inputSize = 0 /\ hse = "NOT_FULL" /\ \A i \in DOMAIN buffer : buffer[i] = 0
  /\ pc \in {"poll", "flush"} \/ compressed => off + inputSize = Min({Window, Len(message)})

\* What the search left for the next token.
LiteralNext(out, e, off) ==
  matchLength = 0 /\ msi >= 1 /\ out[e] + 1 = off + msi

ReferenceNext(out, e, off) ==
  /\ matchLength \in 1 .. inputSize - msi /\ out[e] = off + msi
  /\ Repeats(out[e], matchPos, matchLength)

\* The tokens of the first e bits are finished; the state tells what is pushed of the next.
Encoded(out, e, off) ==
  /\ Parsed(bits, out, e)
  /\ hse \in {"NOT_FULL", "FILLED", "SEARCH", "SAVE_BACKLOG", "FLUSH_BITS"} =>
        Len(bits) = e /\ out[e] = off + msi
  /\ hse = "YIELD_TAG_BIT" => Len(bits) = e /\ (LiteralNext(out, e, off) \/ ReferenceNext(out, e, off))
  /\ hse = "YIELD_LITERAL" => Len(bits) = e + 1 /\ bits[e + 1] = 1 /\ LiteralNext(out, e, off)
  /\ hse = "YIELD_BR_INDEX" => Len(bits) = e + 1 /\ bits[e + 1] = 0 /\ ReferenceNext(out, e, off)
  /\ hse = "YIELD_BR_LENGTH" =>
        /\ Len(bits) = e + 1 + WindowBits /\ bits[e + 1] = 0 /\ ReferenceNext(out, e, off)
        /\ Distance(bits, e) = matchPos
  /\ hse \in {"SEARCH", "YIELD_TAG_BIT", "YIELD_LITERAL", "YIELD_BR_INDEX", "YIELD_BR_LENGTH"} =>
        index = Reindexed
  /\ hse \in {"FLUSH_BITS", "DONE"} => msi = inputSize
  /\ hse = "DONE" =>
        /\ out[e] = off + msi /\ Len(bits) < e + ByteBits /\ Len(bits) % ByteBits = 0
        /\ \A i \in e + 1 .. Len(bits) : bits[i] = 0

\* Where the decoder stands in the token that starts after b bits.
Standing(out, e, b) ==
  /\ hsd = "TAG_BIT" => read = b /\ Len(decoded) = out[b]
  /\ hsd = "YIELD_LITERAL" => read = b + 1 /\ b # e /\ bits[b + 1] = 1 /\ Len(decoded) = out[b]
  /\ hsd = "BACKREF_INDEX_LSB" => read = b + 1 /\ bits[b + 1] = 0 /\ Len(decoded) = out[b]
  /\ hsd = "BACKREF_COUNT_LSB" =>
        /\ read = b + 1 + WindowBits /\ bits[b + 1] = 0 /\ Len(decoded) = out[b]
        /\ outputIndex = Distance(bits, b)
  /\ hsd = "YIELD_BACKREF" =>
        /\ read = b + 1 + WindowBits + LookaheadBits /\ b # e /\ bits[b + 1] = 0
        /\ outputIndex = Distance(bits, b) /\ outputCount \in 1 .. Count(bits, b)
        /\ Len(decoded) + outputCount = out[b] + Count(bits, b)

\* What came out is a beginning of the message, and its end is in the ring.
Output ==
  /\ decoded \in Seq(Letters) /\ Len(decoded) <= Len(message)
  /\ \A i \in 1 .. Len(decoded) : decoded[i] = message[i]
  /\ DOMAIN window = 0 .. Window - 1
  /\ \A j \in 0 .. Len(decoded) - 1 : Len(decoded) <= j + Window => window[j % Window] = message[j + 1]

\* How much the decoder was given and took.
Progress ==
  /\ fed \in 0 .. CompSize /\ read \in 0 .. fed * ByteBits
  /\ outputIndex \in 0 .. Window /\ outputCount \in 0 .. Lookahead
  /\ pc = "sent" => fed = 0
  /\ receiver = "ask" => pc # "sink" /\ (pc # "sent" => fed = Min({AskBuf, CompSize}))
  /\ pc = "done" => ~HasBits(Needs) /\ (receiver = "dash" => fed = CompSize)

Decoding(out, e) == Output /\ Progress /\ \E b \in DOMAIN out : Standing(out, e, b)

CodecInv ==
  /\ Basics
  /\ ~compressed => Untouched /\ decoded = IF pc = "done" THEN message ELSE <<>>
  /\ \E off, e, out : Buffered(off) /\ Encoded(out, e, off) /\ (compressed => Decoding(out, e))

-----------------------------------------------------------------------------
(* The encoder's steps *)

LEMMA SameMessage ==
  ASSUME NEW out, NEW e, message' = message, Parsed(bits', out, e)
  PROVE  Parsed(bits, out, e)'
BY DEF Parsed, Literal, Reference, Repeats, Distance, Count

LEMMA ParsedStays ==
  ASSUME NEW out, NEW e, Parsed(bits, out, e), UNCHANGED <<message, bits>>
  PROVE  Parsed(bits, out, e)'
BY DEF Parsed, Literal, Reference, Repeats, Distance, Count

\* What Push leaves.
LEMMA Pushed ==
  ASSUME bits \in Seq({0, 1}), NEW v \in Nat, NEW n \in 0 .. ByteBits, bits' = bits \o ToBits(v, n)
  PROVE  /\ bits' \in Seq({0, 1}) /\ Len(bits) \in Nat /\ Len(bits') = Len(bits) + n
         /\ \A i \in 1 .. Len(bits) : bits'[i] = bits[i]
         /\ \A i \in 1 .. n : bits'[Len(bits) + i] = ToBits(v, n)[i]
         /\ v < Bit[n] => FromBits(bits', Len(bits), n) = v
<1>1. /\ ToBits(v, n) \in Seq({0, 1}) /\ Len(ToBits(v, n)) = n /\ n \in Nat /\ Len(bits) \in Nat
  BY BitsAreBits, Capacities
<1>2. /\ bits' \in Seq({0, 1}) /\ Len(bits) \in Nat /\ Len(bits') = Len(bits) + n
      /\ \A i \in 1 .. Len(bits) : bits'[i] = bits[i]
      /\ \A i \in 1 .. n : bits'[Len(bits) + i] = ToBits(v, n)[i]
  <2> DEFINE t == ToBits(v, n)
  <2>1. t \in Seq({0, 1}) /\ Len(t) = n /\ bits' = bits \o t
    BY <1>1
  <2> HIDE DEF t
  <2>2. bits' \in Seq({0, 1}) /\ Len(bits') = Len(bits) + n
    BY <2>1, ConcatProperties
  <2>3. \A i \in 1 .. Len(bits) : bits'[i] = bits[i]
    BY <1>1, <2>1
  <2>4. \A i \in 1 .. n : bits'[Len(bits) + i] = t[i]
    BY <1>1, <2>1
  <2> QED
    BY <1>1, <2>2, <2>3, <2>4 DEF t
<1>3. ASSUME v < Bit[n] PROVE FromBits(bits', Len(bits), n) = v
  <2>1. v \in 0 .. Bit[n] - 1
    BY <1>3, BitType
  <2> QED
    BY <1>1, <1>2, <2>1, RoundTrip
<1> QED
  BY <1>2, <1>3

LEMMA ParsedGrows ==
  ASSUME NEW out, NEW e, Parsed(bits, out, e), Len(message) \in Nat, message' = message,
         bits' \in Seq({0, 1}), Len(bits) <= Len(bits'), \A i \in 1 .. Len(bits) : bits'[i] = bits[i]
  PROVE  Parsed(bits', out, e) /\ Parsed(bits, out, e)'
<1>1. Parsed(bits', out, e)
  BY StaysParsed
<1> QED
  BY <1>1, SameMessage

\* The buffer stays, and so does its place in the message.
LEMMA BufferedStays ==
  ASSUME NEW off, Buffered(off), UNCHANGED <<message, buffer, inputSize, compressed>>,
         msi' \in 0 .. inputSize, pc \in {"poll", "flush"}, pc' \in {"poll", "flush"}
  PROVE  Buffered(off)'
BY DEF Buffered

LEMMA IndexStays ==
  ASSUME UNCHANGED <<buffer, inputSize>>
  PROVE  Reindexed' = Reindexed
BY DEF Reindexed, InputOffset

LEMMA FillKeeps ==
  ASSUME Basics, NEW off, NEW out, NEW e, Buffered(off), Encoded(out, e, off), Fill
  PROVE  Buffered(off)' /\ Encoded(out, e, off)'
<1>1. /\ pc \in {"poll", "flush"} /\ hse = "FILLED" /\ index' = Reindexed /\ hse' = "SEARCH"
      /\ UNCHANGED <<message, pc, buffer, inputSize, msi, compressed, bits>>
  BY DEF Fill, Polling
<1>2. Buffered(off)'
  BY <1>1, BufferedStays DEF Buffered
<1>3. Parsed(bits, out, e)'
  BY <1>1, ParsedStays DEF Encoded
<1>4. Reindexed' = Reindexed
  BY <1>1, IndexStays
<1>5. Len(bits) = e /\ out[e] = off + msi
  BY <1>1 DEF Encoded
<1> QED
  BY <1>1, <1>2, <1>3, <1>4, <1>5 DEF Encoded

LEMMA SearchEndsKeeps ==
  ASSUME Basics, NEW off, NEW out, NEW e, Buffered(off), Encoded(out, e, off), SearchEnds
  PROVE  Buffered(off)' /\ Encoded(out, e, off)'
<1>1. /\ pc \in {"poll", "flush"} /\ hse = "SEARCH" /\ Exhausted
      /\ hse' = IF finishing THEN "FLUSH_BITS" ELSE "SAVE_BACKLOG"
      /\ UNCHANGED <<message, pc, buffer, inputSize, msi, compressed, bits>>
  BY DEF SearchEnds, Polling
<1>2. Buffered(off)'
  BY <1>1, BufferedStays DEF Buffered
<1>3. Parsed(bits, out, e)'
  BY <1>1, ParsedStays DEF Encoded
<1>4. Len(bits) = e /\ out[e] = off + msi
  BY <1>1 DEF Encoded
<1>5. finishing => msi = inputSize
  <2>1. finishing => msi > inputSize - 1
    BY <1>1 DEF Exhausted
  <2>2. inputSize \in Nat /\ msi \in 0 .. inputSize
    BY Powers DEF Buffered
  <2> QED
    BY <2>1, <2>2
<1>6. finishing \in BOOLEAN
  BY DEF Basics
<1> QED
  BY <1>1, <1>2, <1>3, <1>4, <1>5, <1>6 DEF Encoded

\* What the search finds is a repetition in the message: a byte of it is not 0,
\* so a match does not reach back before its start.
LEMMA FoundRepeats ==
  ASSUME Basics, NEW off, Buffered(off), index = Reindexed, msi \in 0 .. inputSize - 1, MatchFound
  PROVE  /\ Repeats(off + msi, InputOffset + msi - NearestLongest, LongestMatch)
         /\ LongestMatch \in 1 .. inputSize - msi
<1> DEFINE n == NearestLongest
           l == LongestMatch
           c == Window + msi
           d == c - n
<1>1. /\ l \in 1 .. Lookahead /\ l <= inputSize - msi
      /\ n \in Nat /\ d \in 1 .. Window /\ \A i \in 0 .. l - 1 : buffer[n + i] = buffer[c + i]
  <2>1. inputSize \in 0 .. Window /\ InputOffset = Window
    BY Powers DEF Buffered
  <2>2. /\ LongestMatch \in 1 .. Lookahead /\ LongestMatch <= inputSize - msi
        /\ NearestLongest \in Nat /\ InputOffset + msi - NearestLongest \in 1 .. Window
        /\ \A i \in 0 .. LongestMatch - 1 :
              buffer[NearestLongest + i] = buffer[InputOffset + msi + i]
    BY <2>1, MatchSound
  <2>3. \A i \in 0 .. l - 1 : buffer[n + i] = buffer[c + i]
    BY <2>1, <2>2
  <2>4. l \in 1 .. Lookahead /\ l <= inputSize - msi /\ n \in Nat /\ d \in 1 .. Window
    BY <2>1, <2>2, Powers
  <2> HIDE DEF n, l, c, d
  <2> QED
    BY <2>3, <2>4
<1>2. /\ Window \in Nat /\ off \in Nat /\ inputSize \in 0 .. Window /\ msi \in Nat /\ Len(message) \in Nat
      /\ msi < inputSize /\ off + inputSize <= Len(message) /\ Lookahead \in Nat
      /\ InputOffset + msi - NearestLongest = d
  BY Powers DEF Buffered, Basics
<1>3. \A i \in 0 .. Window + inputSize - 1 :
         buffer[i] = IF i < Window - off THEN 0 ELSE message[off + i - Window + 1]
  BY DEF Buffered
<1>4. \A j \in 1 .. Len(message) : message[j] # 0
  <2>1. \A j \in 1 .. Len(message) : message[j] \in Letters
    BY DEF Basics
  <2> QED
    BY <2>1, Capacities
<1> HIDE DEF n, l
<1>5. n >= Window - off
  <2> SUFFICES ASSUME n < Window - off PROVE FALSE
    BY <1>1, <1>2
  <2>1. n \in 0 .. Window + inputSize - 1 /\ buffer[n] = 0
    BY <1>1, <1>2, <1>3
  <2>2. c \in 0 .. Window + inputSize - 1 /\ ~ (c < Window - off)
    BY <1>1, <1>2
  <2>3. buffer[c] = message[off + c - Window + 1]
    BY <1>3, <2>2
  <2>4. off + c - Window + 1 \in 1 .. Len(message)
    BY <1>2
  <2>5. buffer[n] = buffer[c]
    <3>1. 0 \in 0 .. l - 1 /\ n + 0 = n /\ c + 0 = c
      BY <1>1, <1>2
    <3> QED
      BY <1>1, <3>1
  <2> QED
    BY <1>4, <2>1, <2>3, <2>4, <2>5
<1>6. ASSUME NEW i \in 1 .. l
      PROVE  message[(off + msi) + i] = message[(off + msi) + i - d]
  <2>1. i - 1 \in 0 .. l - 1 /\ i \in Nat
    BY <1>1
  <2>2. buffer[n + (i - 1)] = buffer[c + (i - 1)]
    BY <1>1, <2>1
  <2>3. c + (i - 1) \in 0 .. Window + inputSize - 1 /\ ~ (c + (i - 1) < Window - off)
        /\ off + (c + (i - 1)) - Window + 1 = (off + msi) + i
    BY <1>1, <1>2, <2>1
  <2>4. n + (i - 1) \in 0 .. Window + inputSize - 1 /\ ~ (n + (i - 1) < Window - off)
        /\ off + (n + (i - 1)) - Window + 1 = (off + msi) + i - d
    BY <1>1, <1>2, <1>5, <2>1
  <2>5. buffer[c + (i - 1)] = message[(off + msi) + i]
    BY <1>3, <2>3
  <2>6. buffer[n + (i - 1)] = message[(off + msi) + i - d]
    BY <1>3, <2>4
  <2> QED
    BY <2>2, <2>5, <2>6
<1>7. d <= off + msi /\ (off + msi) + l <= Len(message)
  BY <1>1, <1>2, <1>5
<1>8. Repeats(off + msi, d, l)
  BY <1>1, <1>6, <1>7 DEF Repeats
<1>9. l \in 1 .. inputSize - msi
  BY <1>1, <1>2
<1> QED
  BY <1>2, <1>8, <1>9 DEF l

LEMMA SearchKeeps ==
  ASSUME Basics, NEW off, NEW out, NEW e, Buffered(off), Encoded(out, e, off), Search
  PROVE  Buffered(off)' /\ Encoded(out, e, off)' /\ matchLength' \in 0 .. Lookahead /\ matchPos' \in 0 .. Window
<1>1. /\ pc \in {"poll", "flush"} /\ hse = "SEARCH" /\ hse' = "YIELD_TAG_BIT"
      /\ UNCHANGED <<message, pc, buffer, inputSize, index, compressed, bits>>
  BY DEF Search, Polling
<1>2. /\ Len(bits) = e /\ out[e] = off + msi /\ index = Reindexed /\ off \in Nat
      /\ inputSize \in Nat /\ msi \in 0 .. inputSize /\ Parsed(bits, out, e)
  BY <1>1, Powers DEF Encoded, Buffered
<1>3. msi \in 0 .. inputSize - 1
  <2>1. ~ (msi > inputSize - 1) \/ ~ (msi > inputSize - Lookahead)
    BY DEF Search, Exhausted
  <2> QED
    BY <1>2, <2>1, Powers
<1>4. Parsed(bits, out, e)'
  BY <1>1, <1>2, ParsedStays
<1>5. Reindexed' = Reindexed
  BY <1>1, IndexStays
<1>6. CASE MatchFound
  <2>1. /\ matchLength' = LongestMatch /\ msi' = msi
        /\ matchPos' = InputOffset + msi - NearestLongest
    BY <1>6 DEF Search
  <2>2. /\ Repeats(out[e], matchPos', matchLength')
        /\ matchLength' \in 1 .. inputSize - msi
    BY <1>2, <1>3, <1>6, <2>1, FoundRepeats
  <2>3. Buffered(off)'
    BY <1>1, <1>2, <2>1, BufferedStays
  <2>4. matchLength' \in 1 .. Lookahead /\ matchPos' \in 1 .. Window
    BY <2>2 DEF Repeats
  <2>5. ReferenceNext(out, e, off)'
    BY <1>1, <1>2, <2>1, <2>2 DEF ReferenceNext, Repeats
  <2>6. Encoded(out, e, off)'
    BY <1>1, <1>2, <1>4, <1>5, <2>5 DEF Encoded
  <2> QED
    BY <2>3, <2>4, <2>6
<1>7. CASE ~MatchFound
  <2>1. matchLength' = 0 /\ msi' = msi + 1 /\ matchPos' = matchPos
    BY <1>7 DEF Search
  <2>2. Buffered(off)'
    BY <1>1, <1>2, <1>3, <2>1, BufferedStays
  <2>3. LiteralNext(out, e, off)'
    BY <1>2, <2>1 DEF LiteralNext
  <2>4. Encoded(out, e, off)'
    BY <1>1, <1>2, <1>4, <1>5, <2>3 DEF Encoded
  <2>5. matchLength' \in 0 .. Lookahead /\ matchPos' \in 0 .. Window
    BY <2>1, Powers DEF Basics
  <2> QED
    BY <2>2, <2>4, <2>5
<1> QED
  BY <1>6, <1>7

\* What is next stays so while its bits are pushed.
LEMMA NextStays ==
  ASSUME NEW out, NEW e, NEW off, UNCHANGED <<message, inputSize, msi, matchLength, matchPos>>
  PROVE  /\ LiteralNext(out, e, off) => LiteralNext(out, e, off)'
         /\ ReferenceNext(out, e, off) => ReferenceNext(out, e, off)'
BY DEF LiteralNext, ReferenceNext, Repeats

LEMMA YieldTagBitKeeps ==
  ASSUME Basics, NEW off, NEW out, NEW e, Buffered(off), Encoded(out, e, off), YieldTagBit
  PROVE  Buffered(off)' /\ Encoded(out, e, off)'
<1>1. /\ pc \in {"poll", "flush"} /\ hse = "YIELD_TAG_BIT"
      /\ UNCHANGED <<message, pc, buffer, inputSize, msi, matchLength, matchPos, index, compressed>>
  BY DEF YieldTagBit, Polling
<1>2. /\ Len(bits) = e /\ index = Reindexed /\ Parsed(bits, out, e) /\ Len(message) \in Nat
      /\ LiteralNext(out, e, off) \/ ReferenceNext(out, e, off)
      /\ bits \in Seq({0, 1})
  BY <1>1 DEF Encoded, Basics, Parsed
<1>3. PICK v \in {0, 1} : /\ bits' = bits \o ToBits(v, 1)
                          /\ v = 1 => matchLength = 0 /\ hse' = "YIELD_LITERAL"
                          /\ v = 0 => matchLength > 0 /\ hse' = "YIELD_BR_INDEX"
  BY DEF YieldTagBit, Push
<1>4. v \in Nat /\ 1 \in 0 .. ByteBits
  BY Capacities
<1>5. /\ bits' \in Seq({0, 1}) /\ Len(bits') = e + 1 /\ \A i \in 1 .. Len(bits) : bits'[i] = bits[i]
      /\ bits'[e + 1] = ToBits(v, 1)[1]
  <2>1. bits' = bits \o ToBits(v, 1)
    BY <1>3
  <2>2. /\ bits' \in Seq({0, 1}) /\ Len(bits') = Len(bits) + 1
        /\ \A i \in 1 .. Len(bits) : bits'[i] = bits[i]
        /\ \A i \in 1 .. 1 : bits'[Len(bits) + i] = ToBits(v, 1)[i]
    BY <1>2, <1>4, <2>1, Pushed
  <2> QED
    BY <1>2, <2>2
<1>6. bits'[e + 1] = v
  <2>1. ToBits(v, 1)[1] = (v \div Bit[1 - 1]) % 2
    BY DEF ToBits
  <2>2. Bit[1 - 1] = 1
    BY BitSteps
  <2>3. (v \div 1) % 2 = v
    OBVIOUS
  <2> QED
    BY <1>5, <2>1, <2>2, <2>3
<1>7. Parsed(bits, out, e)'
  <2>1. Len(bits) <= Len(bits')
    BY <1>2, <1>5
  <2> QED
    BY <1>1, <1>2, <1>5, <2>1, ParsedGrows
<1>8. Buffered(off)'
  BY <1>1, BufferedStays DEF Buffered
<1>9. Reindexed' = Reindexed
  BY <1>1, IndexStays
<1>10. CASE v = 1
  <2>1. hse' = "YIELD_LITERAL" /\ LiteralNext(out, e, off)
    BY <1>2, <1>3, <1>10 DEF ReferenceNext
  <2>2. LiteralNext(out, e, off)'
    BY <1>1, <2>1, NextStays
  <2> QED
    BY <1>1, <1>2, <1>5, <1>6, <1>7, <1>8, <1>9, <1>10, <2>1, <2>2 DEF Encoded
<1>11. CASE v = 0
  <2>1. hse' = "YIELD_BR_INDEX" /\ ReferenceNext(out, e, off)
    BY <1>2, <1>3, <1>11 DEF LiteralNext
  <2>2. ReferenceNext(out, e, off)'
    BY <1>1, <2>1, NextStays
  <2> QED
    BY <1>1, <1>2, <1>5, <1>6, <1>7, <1>8, <1>9, <1>11, <2>1, <2>2 DEF Encoded
<1> QED
  BY <1>10, <1>11

\* A token is finished.
LEMMA TokenPushed ==
  ASSUME Basics, NEW out, NEW e, Parsed(bits, out, e), message' = message,
         bits' \in Seq({0, 1}), Len(bits) <= Len(bits'), \A i \in 1 .. Len(bits) : bits'[i] = bits[i],
         NEW f \in Nat, e < f, f <= Len(bits'), NEW k \in 0 .. Len(message),
         NEW more, more = [b \in DOMAIN out \cup {f} |-> IF b = f THEN k ELSE out[b]],
         Literal(bits', more, e) \/ Reference(bits', more, e)
  PROVE  Parsed(bits, more, f)'
<1>1. Len(message) \in Nat
  BY DEF Basics
<1>2. Parsed(bits', out, e)
  BY <1>1, ParsedGrows
<1>3. Parsed(bits', more, f)
  BY <1>1, <1>2, OneMoreToken
<1> QED
  BY <1>3, SameMessage

LEMMA YieldLiteralKeeps ==
  ASSUME Basics, NEW off, NEW out, NEW e, Buffered(off), Encoded(out, e, off), YieldLiteral
  PROVE  Buffered(off)' /\ \E f, more : Encoded(more, f, off)'
<1> DEFINE v == buffer[InputOffset + msi - 1]
<1>0. PICK k, f, more : /\ k = off + msi
                        /\ f = e + 1 + ByteBits
                        /\ more = [b \in DOMAIN out \cup {f} |-> IF b = f THEN k ELSE out[b]]
  OBVIOUS
<1>1. /\ pc \in {"poll", "flush"} /\ hse = "YIELD_LITERAL" /\ hse' = "SEARCH"
      /\ bits' = bits \o ToBits(v, ByteBits)
      /\ UNCHANGED <<message, pc, buffer, inputSize, msi, matchLength, matchPos, index, compressed>>
  BY DEF YieldLiteral, Polling, Push
<1>2. /\ Len(bits) = e + 1 /\ bits[e + 1] = 1 /\ index = Reindexed /\ Parsed(bits, out, e)
      /\ matchLength = 0 /\ msi >= 1 /\ out[e] + 1 = k
  BY <1>0, <1>1 DEF Encoded, LiteralNext
<1>3. /\ off \in Nat /\ inputSize \in 0 .. Window /\ msi \in 1 .. inputSize /\ off + inputSize <= Len(message)
      /\ Len(message) \in Nat /\ Window \in Nat /\ InputOffset = Window /\ ByteBits \in Nat \ {0}
      /\ k \in 1 .. Len(message) /\ k \in Nat
  BY <1>0, <1>2, Powers, Capacities DEF Buffered, Basics
<1>4. v = message[k]
  <2>1. InputOffset + msi - 1 \in 0 .. Window + inputSize - 1
        /\ ~ (InputOffset + msi - 1 < Window - off)
        /\ off + (InputOffset + msi - 1) - Window + 1 = k
    BY <1>0, <1>3
  <2> QED
    BY <2>1 DEF Buffered
<1>5. v \in Nat /\ v < Bit[ByteBits]
  <2>1. message[k] \in Letters
    BY <1>3 DEF Basics
  <2>3. message[k] \in 1 .. Bit[ByteBits] - 1
    BY <2>1, Capacities
  <2>2. Bit[ByteBits] \in Nat
    BY <1>3, BitType
  <2> QED
    BY <1>4, <2>2, <2>3
<1>6. e \in Nat /\ bits \in Seq({0, 1}) /\ e \in DOMAIN out /\ out[e] \in 0 .. Len(message)
      /\ DOMAIN out \subseteq 0 .. e
  BY <1>2 DEF Parsed
<1>7. /\ bits' \in Seq({0, 1}) /\ Len(bits') = f /\ \A i \in 1 .. Len(bits) : bits'[i] = bits[i]
      /\ FromBits(bits', e + 1, ByteBits) = message[k]
  <2>1. ByteBits \in 0 .. ByteBits
    BY <1>3
  <2> HIDE DEF v
  <2>2. /\ bits' \in Seq({0, 1}) /\ Len(bits') = Len(bits) + ByteBits
        /\ \A i \in 1 .. Len(bits) : bits'[i] = bits[i]
        /\ v < Bit[ByteBits] => FromBits(bits', Len(bits), ByteBits) = v
    BY <1>1, <1>5, <1>6, <2>1, Pushed
  <2> QED
    BY <1>2, <1>4, <1>5, <2>2, <1>0
<1>8. bits'[e + 1] = 1
  <2>1. e + 1 \in 1 .. Len(bits)
    BY <1>2, <1>6
  <2> QED
    BY <1>2, <1>7, <2>1
<1>9. f \in Nat /\ e < f /\ f # e
  BY <1>0, <1>3, <1>6
<1> HIDE DEF v
<1>10. DOMAIN more = DOMAIN out \cup {f} /\ more[f] = k /\ more[e] = out[e]
  BY <1>0, <1>6, <1>9
<1>11. Literal(bits', more, e)
  <2>1. k = out[e] + 1 /\ out[e] < Len(message)
    BY <1>2, <1>3, <1>6
  <2> QED
    BY <1>7, <1>8, <1>10, <2>1, <1>0 DEF Literal
<1>12. Parsed(bits, more, f)'
  <2>1. Len(bits) <= Len(bits') /\ f <= Len(bits')
    BY <1>2, <1>3, <1>6, <1>7, <1>9, <1>0
  <2>2. more = [b \in DOMAIN out \cup {f} |-> IF b = f THEN k ELSE out[b]]
    BY <1>0
  <2>3. k \in 0 .. Len(message)
    BY <1>3
  <2> QED
    BY <1>1, <1>2, <1>7, <1>9, <1>11, <2>1, <2>2, <2>3, TokenPushed
<1>13. Buffered(off)'
  <2>1. msi \in 0 .. inputSize
    BY <1>3
  <2> QED
    BY <1>1, <2>1, BufferedStays
<1>14. Reindexed' = Reindexed
  BY <1>1, IndexStays
<1>15. Encoded(more, f, off)'
  BY <1>1, <1>2, <1>7, <1>10, <1>12, <1>14, <1>0 DEF Encoded
<1> QED
  BY <1>13, <1>15

LEMMA YieldBackrefIndexKeeps ==
  ASSUME Basics, NEW off, NEW out, NEW e, Buffered(off), Encoded(out, e, off), YieldBackrefIndex
  PROVE  Buffered(off)' /\ Encoded(out, e, off)'
<1>1. /\ pc \in {"poll", "flush"} /\ hse = "YIELD_BR_INDEX" /\ hse' = "YIELD_BR_LENGTH"
      /\ bits' = bits \o ToBits(matchPos - 1, WindowBits)
      /\ UNCHANGED <<message, pc, buffer, inputSize, msi, matchLength, matchPos, index, compressed>>
  BY DEF YieldBackrefIndex, Polling, Push
<1>2. /\ Len(bits) = e + 1 /\ bits[e + 1] = 0 /\ index = Reindexed /\ Parsed(bits, out, e)
      /\ ReferenceNext(out, e, off) /\ e \in Nat /\ bits \in Seq({0, 1}) /\ Len(message) \in Nat
  BY <1>1 DEF Encoded, Parsed, Basics
<1>3. matchPos \in 1 .. Window /\ Window \in Nat /\ WindowBits \in 0 .. ByteBits /\ WindowBits \in Nat
  BY <1>2, Powers, Capacities DEF ReferenceNext, Repeats
<1>4. matchPos - 1 \in Nat /\ matchPos - 1 < Bit[WindowBits]
  BY <1>3 DEF Window
<1>5. /\ bits' \in Seq({0, 1}) /\ Len(bits') = e + 1 + WindowBits
      /\ \A i \in 1 .. Len(bits) : bits'[i] = bits[i]
      /\ FromBits(bits', e + 1, WindowBits) = matchPos - 1
  <2> DEFINE v == matchPos - 1
  <2>1. v \in Nat /\ v < Bit[WindowBits] /\ bits' = bits \o ToBits(v, WindowBits)
    BY <1>1, <1>4
  <2> HIDE DEF v
  <2>2. /\ bits' \in Seq({0, 1}) /\ Len(bits') = Len(bits) + WindowBits
        /\ \A i \in 1 .. Len(bits) : bits'[i] = bits[i]
        /\ v < Bit[WindowBits] => FromBits(bits', Len(bits), WindowBits) = v
    BY <1>2, <1>3, <2>1, Pushed
  <2> QED
    BY <1>2, <2>1, <2>2 DEF v
<1>6. bits'[e + 1] = 0
  <2>1. e + 1 \in 1 .. Len(bits)
    BY <1>2
  <2> QED
    BY <1>2, <1>5, <2>1
<1>7. Distance(bits', e) = matchPos
  BY <1>3, <1>5 DEF Distance
<1>8. Parsed(bits, out, e)'
  <2>1. Len(bits) <= Len(bits')
    BY <1>2, <1>3, <1>5
  <2> QED
    BY <1>1, <1>2, <1>5, <2>1, ParsedGrows
<1>9. Buffered(off)'
  BY <1>1, BufferedStays DEF Buffered
<1>10. Reindexed' = Reindexed /\ ReferenceNext(out, e, off)'
  BY <1>1, <1>2, IndexStays, NextStays
<1>11. Distance(bits, e)' = matchPos'
  BY <1>1, <1>7 DEF Distance
<1> QED
  BY <1>1, <1>2, <1>5, <1>6, <1>8, <1>9, <1>10, <1>11 DEF Encoded

LEMMA YieldBackrefLengthKeeps ==
  ASSUME Basics, NEW off, NEW out, NEW e, Buffered(off), Encoded(out, e, off), YieldBackrefLength
  PROVE  Buffered(off)' /\ \E f, more : Encoded(more, f, off)'
<1> DEFINE v == matchLength - 1
<1>0. PICK k, f, more : /\ k = off + msi + matchLength
                        /\ f = e + 1 + WindowBits + LookaheadBits
                        /\ more = [b \in DOMAIN out \cup {f} |-> IF b = f THEN k ELSE out[b]]
  OBVIOUS
<1>1. /\ pc \in {"poll", "flush"} /\ hse = "YIELD_BR_LENGTH" /\ hse' = "SEARCH"
      /\ bits' = bits \o ToBits(v, LookaheadBits) /\ msi' = msi + matchLength
      /\ UNCHANGED <<message, pc, buffer, inputSize, index, compressed>>
  BY DEF YieldBackrefLength, Polling, Push
<1>2. /\ Len(bits) = e + 1 + WindowBits /\ bits[e + 1] = 0 /\ index = Reindexed /\ Parsed(bits, out, e)
      /\ Distance(bits, e) = matchPos
      /\ matchLength \in 1 .. inputSize - msi /\ out[e] = off + msi
      /\ Repeats(out[e], matchPos, matchLength)
  BY <1>1 DEF Encoded, ReferenceNext
<1>3. /\ off \in Nat /\ inputSize \in 0 .. Window /\ msi \in 0 .. inputSize /\ off + inputSize <= Len(message)
      /\ Len(message) \in Nat /\ Window \in Nat /\ WindowBits \in Nat /\ LookaheadBits \in Nat \ {0}
      /\ LookaheadBits \in 0 .. ByteBits /\ WindowBits \in 0 .. ByteBits
  BY Powers, Capacities DEF Buffered, Basics
<1>4. k \in 0 .. Len(message) /\ msi + matchLength \in 0 .. inputSize /\ k = out[e] + matchLength
  BY <1>0, <1>2, <1>3
<1>5. v \in Nat /\ v < Bit[LookaheadBits]
  <2>1. matchLength \in 1 .. Lookahead /\ Lookahead \in Nat
    BY <1>2, Powers DEF Repeats
  <2> QED
    BY <2>1 DEF Lookahead
<1>6. e \in Nat /\ bits \in Seq({0, 1}) /\ e \in DOMAIN out /\ DOMAIN out \subseteq 0 .. e
  BY <1>2 DEF Parsed
<1>7. /\ bits' \in Seq({0, 1}) /\ Len(bits') = f /\ \A i \in 1 .. Len(bits) : bits'[i] = bits[i]
      /\ FromBits(bits', e + 1 + WindowBits, LookaheadBits) = v
  <2> HIDE DEF v
  <2>2. /\ bits' \in Seq({0, 1}) /\ Len(bits') = Len(bits) + LookaheadBits
        /\ \A i \in 1 .. Len(bits) : bits'[i] = bits[i]
        /\ v < Bit[LookaheadBits] => FromBits(bits', Len(bits), LookaheadBits) = v
    BY <1>1, <1>3, <1>5, <1>6, Pushed
  <2> QED
    BY <1>2, <1>5, <2>2, <1>0
<1>8. bits'[e + 1] = 0 /\ Count(bits', e) = matchLength
  <2>1. e + 1 \in 1 .. Len(bits)
    BY <1>2, <1>3, <1>6
  <2>2. bits'[e + 1] = 0
    BY <1>2, <1>7, <2>1
  <2>3. v + 1 = matchLength
    BY <1>2, <1>3
  <2> QED
    BY <1>7, <2>2, <2>3 DEF Count
<1>9. Distance(bits', e) = matchPos
  <2>1. FromBits(bits', e + 1, WindowBits) = FromBits(bits, e + 1, WindowBits)
    <3>1. /\ e + 1 \in Nat /\ (e + 1) + WindowBits <= Len(bits) /\ Len(bits) <= Len(bits')
      BY <1>0, <1>2, <1>3, <1>6, <1>7
    <3> QED
      BY <1>3, <1>6, <1>7, <3>1, Longer
  <2> QED
    BY <1>2, <2>1 DEF Distance
<1>10. f \in Nat /\ e < f /\ f # e
  BY <1>0, <1>3, <1>6
<1> HIDE DEF v
<1>11. DOMAIN more = DOMAIN out \cup {f} /\ more[f] = k /\ more[e] = out[e]
  BY <1>0, <1>6, <1>10
<1>12. Reference(bits', more, e)
  BY <1>2, <1>4, <1>8, <1>9, <1>11, <1>0 DEF Reference
<1>13. Parsed(bits, more, f)'
  <2>1. Len(bits) <= Len(bits') /\ f <= Len(bits')
    BY <1>2, <1>3, <1>6, <1>7, <1>10, <1>0
  <2>2. more = [b \in DOMAIN out \cup {f} |-> IF b = f THEN k ELSE out[b]]
    BY <1>0
  <2>3. /\ Parsed(bits, out, e) /\ message' = message /\ bits' \in Seq({0, 1})
        /\ \A i \in 1 .. Len(bits) : bits'[i] = bits[i]
        /\ f \in Nat /\ e < f /\ k \in 0 .. Len(message)
    BY <1>1, <1>2, <1>4, <1>7, <1>10
  <2> QED
    BY <1>12, <2>1, <2>2, <2>3, TokenPushed
<1>14. Buffered(off)'
  BY <1>1, <1>4, BufferedStays
<1>15. Reindexed' = Reindexed
  BY <1>1, IndexStays
<1>16. more[f] = off + msi'
  BY <1>1, <1>2, <1>3, <1>11, <1>0
<1>17. Encoded(more, f, off)'
  BY <1>1, <1>2, <1>7, <1>13, <1>15, <1>16 DEF Encoded
<1> QED
  BY <1>14, <1>17

LEMMA SaveBacklogKeeps ==
  ASSUME Basics, NEW off, NEW out, NEW e, Buffered(off), Encoded(out, e, off), SaveBacklog
  PROVE  \E o : Buffered(o)' /\ Encoded(out, e, o)'
<1>0. PICK o : o = off + msi
  OBVIOUS
<1>1. /\ pc \in {"poll", "flush"} /\ hse = "SAVE_BACKLOG" /\ hse' = "NOT_FULL"
      /\ buffer' = SavedBacklog /\ inputSize' = inputSize - msi /\ msi' = 0
      /\ UNCHANGED <<message, pc, bits, compressed>>
  BY DEF SaveBacklog, Polling
<1>2. /\ Len(bits) = e /\ out[e] = off + msi /\ Parsed(bits, out, e)
  BY <1>1 DEF Encoded
<1>3. /\ off \in Nat /\ inputSize \in 0 .. Window /\ msi \in 0 .. inputSize /\ off + inputSize <= Len(message)
      /\ Len(message) \in Nat /\ Window \in Nat
      /\ DOMAIN buffer = 0 .. 2 * Window - 1
      /\ \A i \in 0 .. Window + inputSize - 1 :
            buffer[i] = IF i < Window - off THEN 0 ELSE message[off + i - Window + 1]
      /\ off + inputSize = Min({Window, Len(message)})
  BY <1>1, Powers DEF Buffered, Basics
<1>4. DOMAIN buffer' = 0 .. 2 * Window - 1
  BY <1>1, <1>3 DEF SavedBacklog
<1>5. ASSUME NEW i \in 0 .. Window + inputSize' - 1
      PROVE  buffer'[i] = IF i < Window - o THEN 0 ELSE message[o + i - Window + 1]
  <2>1. i \in 0 .. 2 * Window - 1 /\ i < Window + (Window - msi)
        /\ i + msi \in 0 .. Window + inputSize - 1 /\ i \in Nat
    BY <1>1, <1>3
  <2>2. buffer'[i] = buffer[i + msi]
    BY <1>1, <1>3, <2>1 DEF SavedBacklog
  <2>3. buffer[i + msi] = IF i + msi < Window - off THEN 0 ELSE message[off + (i + msi) - Window + 1]
    BY <1>3, <2>1
  <2>4. /\ off + (i + msi) - Window + 1 = o + i - Window + 1
        /\ i + msi < Window - off <=> i < Window - o
    BY <1>0, <1>3, <2>1
  <2> QED
    BY <2>2, <2>3, <2>4
<1>6. /\ o \in Nat /\ inputSize' \in 0 .. Window /\ msi' \in 0 .. inputSize'
      /\ o + inputSize' = off + inputSize /\ o + msi' = off + msi
  BY <1>0, <1>1, <1>3
<1>7. Buffered(o)'
  BY <1>1, <1>3, <1>4, <1>5, <1>6 DEF Buffered
<1>8. Parsed(bits, out, e)'
  BY <1>1, <1>2, ParsedStays
<1>9. Encoded(out, e, o)'
  BY <1>1, <1>2, <1>6, <1>8 DEF Encoded
<1> QED
  BY <1>7, <1>9

LEMMA FlushBitsKeeps ==
  ASSUME Basics, NEW off, NEW out, NEW e, Buffered(off), Encoded(out, e, off), FlushBits
  PROVE  Buffered(off)' /\ Encoded(out, e, off)'
<1> DEFINE n == (ByteBits - (Len(bits) % ByteBits)) % ByteBits
<1>1. /\ pc \in {"poll", "flush"} /\ hse = "FLUSH_BITS" /\ hse' = "DONE"
      /\ bits' = bits \o ToBits(0, n)
      /\ UNCHANGED <<message, pc, buffer, inputSize, msi, compressed>>
  BY DEF FlushBits, Polling
<1>2. /\ Len(bits) = e /\ out[e] = off + msi /\ msi = inputSize /\ Parsed(bits, out, e)
      /\ e \in Nat /\ bits \in Seq({0, 1}) /\ Len(message) \in Nat
  BY <1>1 DEF Encoded, Parsed, Basics
<1>3. n \in 0 .. ByteBits - 1 /\ (e + n) % ByteBits = 0 /\ ByteBits \in Nat
  BY <1>2, FilledUp, Capacities
<1> HIDE DEF n
<1>4. /\ bits' \in Seq({0, 1}) /\ Len(bits') = e + n
      /\ \A i \in 1 .. Len(bits) : bits'[i] = bits[i]
      /\ \A i \in 1 .. n : bits'[e + i] = 0
  <2>1. n \in 0 .. ByteBits /\ 0 \in Nat
    BY <1>3
  <2>2. /\ bits' \in Seq({0, 1}) /\ Len(bits') = Len(bits) + n
        /\ \A i \in 1 .. Len(bits) : bits'[i] = bits[i]
        /\ \A i \in 1 .. n : bits'[Len(bits) + i] = ToBits(0, n)[i]
    BY <1>1, <1>2, <2>1, Pushed
  <2>3. \A i \in 1 .. n : ToBits(0, n)[i] = 0
    BY <2>1, BitsAreBits
  <2> QED
    BY <1>2, <2>2, <2>3
<1>5. Parsed(bits, out, e)'
  <2>1. Len(bits) <= Len(bits')
    BY <1>2, <1>3, <1>4
  <2> QED
    BY <1>1, <1>2, <1>4, <2>1, ParsedGrows
<1>6. Buffered(off)'
  BY <1>1, BufferedStays DEF Buffered
<1>7. \A i \in e + 1 .. Len(bits') : bits'[i] = 0
  <2> TAKE i \in e + 1 .. Len(bits')
  <2>1. i - e \in 1 .. n /\ e + (i - e) = i
    BY <1>2, <1>3, <1>4
  <2> QED
    BY <1>4, <2>1
<1>8. Len(bits') < e + ByteBits /\ Len(bits') % ByteBits = 0
  BY <1>2, <1>3, <1>4
<1> QED
  BY <1>1, <1>2, <1>5, <1>6, <1>7, <1>8 DEF Encoded

LEMMA EncodedStays ==
  ASSUME NEW off, NEW out, NEW e, Encoded(out, e, off), UNCHANGED <<message, encoder>>
  PROVE  Encoded(out, e, off)'
<1>1. /\ Parsed(bits, out, e)' /\ Reindexed' = Reindexed
      /\ LiteralNext(out, e, off) => LiteralNext(out, e, off)'
      /\ ReferenceNext(out, e, off) => ReferenceNext(out, e, off)'
  BY ParsedStays, IndexStays, NextStays DEF encoder, Encoded
<1>2. Distance(bits, e)' = Distance(bits, e)
  BY DEF encoder, Distance
<1> QED
  BY <1>1, <1>2 DEF Encoded, encoder

LEMMA SinkMessageKeeps ==
  ASSUME Basics, NEW off, NEW out, NEW e, Buffered(off), Encoded(out, e, off), SinkMessage
  PROVE  Buffered(off)' /\ Encoded(out, e, off)'
<1> DEFINE cp == Sinkable(Len(message))
<1>1. /\ pc = "typed" /\ pc' = "poll"
      /\ buffer' = Sunk(cp) /\ inputSize' = inputSize + cp
      /\ hse' = IF cp = Window - inputSize THEN "FILLED" ELSE hse
      /\ UNCHANGED <<message, msi, index, bits, compressed>>
  BY DEF SinkMessage
<1>2. /\ off = 0 /\ inputSize = 0 /\ msi = 0 /\ hse = "NOT_FULL" /\ \A i \in DOMAIN buffer : buffer[i] = 0
      /\ DOMAIN buffer = 0 .. 2 * Window - 1
  BY <1>1 DEF Buffered
<1>3. Window \in Nat /\ Len(message) \in Nat /\ InputOffset = Window
  BY Powers DEF Basics
<1>4. cp \in 0 .. Window /\ cp <= Len(message) /\ cp = Min({Window, Len(message)})
  <2>1. Window - inputSize = Window
    BY <1>2, <1>3
  <2>2. cp = Min({Window, Len(message)})
    BY <2>1 DEF Sinkable
  <2>3. Min({Window, Len(message)}) = IF Window <= Len(message) THEN Window ELSE Len(message)
    BY <1>3, SmallerOfTwo
  <2> QED
    BY <1>3, <2>2, <2>3
<1> HIDE DEF cp
<1>5. DOMAIN buffer' = 0 .. 2 * Window - 1
  BY <1>1, <1>2 DEF Sunk
<1>6. ASSUME NEW i \in 0 .. Window + cp - 1
      PROVE  buffer'[i] = IF i < Window - off THEN 0 ELSE message[off + i - Window + 1]
  <2>1. i \in DOMAIN buffer /\ i \in Nat
    BY <1>2, <1>3, <1>4
  <2>2. buffer'[i] = IF i - Window \in 0 .. cp - 1 THEN message[i - Window + 1] ELSE 0
    <3>1. i - InputOffset - inputSize = i - Window
      BY <1>2, <1>3, <2>1
    <3> QED
      BY <1>1, <1>2, <2>1, <3>1 DEF Sunk
  <2>3. /\ i < Window - off <=> ~ (i - Window \in 0 .. cp - 1)
        /\ off + i - Window + 1 = i - Window + 1
    BY <1>2, <1>3, <1>4, <2>1
  <2> QED
    BY <2>2, <2>3
<1>7. inputSize' = cp /\ off + inputSize' = cp
  BY <1>1, <1>2, <1>4
<1>8. Buffered(off)'
  <2>1. \A i \in 0 .. Window + inputSize' - 1 :
           buffer'[i] = IF i < Window - off THEN 0 ELSE message[off + i - Window + 1]
    BY <1>6, <1>7
  <2>2. /\ off \in Nat /\ inputSize' \in 0 .. Window /\ msi' \in 0 .. inputSize'
        /\ off + inputSize' <= Len(message) /\ off + inputSize' = Min({Window, Len(message)})
    BY <1>1, <1>2, <1>4, <1>7
  <2> QED
    BY <1>1, <1>5, <2>1, <2>2 DEF Buffered
<1>9. Parsed(bits, out, e)' /\ Len(bits) = e /\ out[e] = off + msi
  BY <1>1, <1>2, ParsedStays DEF Encoded
<1>10. hse' \in {"NOT_FULL", "FILLED"}
  BY <1>1, <1>2
<1> QED
  BY <1>1, <1>8, <1>9, <1>10 DEF Encoded

LEMMA PollEndsKeeps ==
  ASSUME Basics, NEW off, NEW out, NEW e, Buffered(off), Encoded(out, e, off), PollEnds
  PROVE  Buffered(off)' /\ Encoded(out, e, off)'
<1>1. /\ pc = "poll" /\ pc' = "flush" /\ hse' = IF hse = "NOT_FULL" THEN "FILLED" ELSE hse
      /\ UNCHANGED <<message, buffer, inputSize, msi, matchLength, matchPos, index, bits, compressed>>
  BY DEF PollEnds
<1>2. Buffered(off)'
  BY <1>1, BufferedStays DEF Buffered
<1>3. Parsed(bits, out, e)'
  BY <1>1, ParsedStays DEF Encoded
<1>4. CASE hse = "NOT_FULL"
  <2>1. hse' = "FILLED" /\ Len(bits) = e /\ out[e] = off + msi
    BY <1>1, <1>4 DEF Encoded
  <2> QED
    BY <1>1, <1>2, <1>3, <2>1 DEF Encoded
<1>5. CASE hse # "NOT_FULL"
  <2>1. UNCHANGED <<message, hse, msi, inputSize, bits, index, matchLength, matchPos>>
    BY <1>1, <1>5
  <2>2. /\ Reindexed' = Reindexed
        /\ LiteralNext(out, e, off) => LiteralNext(out, e, off)'
        /\ ReferenceNext(out, e, off) => ReferenceNext(out, e, off)'
    BY <1>1, IndexStays, NextStays
  <2>3. Distance(bits, e)' = Distance(bits, e)
    BY <2>1 DEF Distance
  <2> QED
    BY <1>2, <1>3, <2>1, <2>2, <2>3 DEF Encoded
<1> QED
  BY <1>4, <1>5

LEMMA InitEncoded ==
  ASSUME Init
  PROVE  \E off, e, out : Buffered(off) /\ Encoded(out, e, off)
<1>0. PICK out : out = [b \in {0} |-> 0]
  OBVIOUS
<1>1. message \in SeqOf(Letters, MaxLen) /\ message # <<>>
  BY DEF Init
<1>2. Len(message) \in Nat
  <2>1. PICK m \in 0 .. MaxLen : message \in [1 .. m -> Letters]
    BY <1>1 DEF SeqOf
  <2> QED
    BY <2>1, Capacities
<1>3. /\ pc = "typed" /\ hse = "NOT_FULL" /\ buffer = [i \in 0 .. 2 * Window - 1 |-> 0]
      /\ inputSize = 0 /\ msi = 0 /\ bits = <<>> /\ compressed = FALSE
  BY DEF Init
<1>4. Buffered(0)
  <2>1. DOMAIN buffer = 0 .. 2 * Window - 1 /\ \A i \in 0 .. 2 * Window - 1 : buffer[i] = 0
    BY <1>3
  <2>2. \A i \in 0 .. Window + inputSize - 1 : i \in 0 .. 2 * Window - 1 /\ i < Window - 0
    BY <1>3, Powers
  <2>3. inputSize \in 0 .. Window /\ msi \in 0 .. inputSize /\ 0 + inputSize <= Len(message)
    BY <1>2, <1>3, Powers
  <2> QED
    BY <1>3, <2>1, <2>2, <2>3 DEF Buffered
<1>5. Parsed(bits, out, 0)
  <2>1. DOMAIN out = {0} /\ out[0] = 0 /\ bits \in Seq({0, 1}) /\ Len(bits) = 0
    BY <1>0, <1>3
  <2>2. \A b \in DOMAIN out : b = 0 /\ out[b] \in 0 .. Len(message)
    BY <1>2, <2>1
  <2>3. 0 \in 0 .. Len(bits) /\ DOMAIN out \subseteq 0 .. 0
    BY <2>1
  <2> QED
    BY <2>1, <2>2, <2>3 DEF Parsed
<1>6. Encoded(out, 0, 0)
  <2>1. Len(bits) = 0 /\ out[0] = 0 + msi
    BY <1>0, <1>3
  <2> QED
    BY <1>3, <1>5, <2>1 DEF Encoded
<1> QED
  BY <1>4, <1>6

-----------------------------------------------------------------------------
(* The decoder's steps *)

LEMMA Product ==
  ASSUME NEW x \in Nat, NEW y \in Nat, NEW b \in Nat, x <= y
  PROVE  x * b \in Nat /\ y * b \in Nat /\ x * b <= y * b
<1>1. PICK z \in Nat : y = x + z
  <2>1. y - x \in Nat /\ y = x + (y - x)
    OBVIOUS
  <2> QED
    BY <2>1
<1>2. (x + z) * b = x * b + z * b /\ x * b \in Nat /\ z * b \in Nat
  OBVIOUS
<1> QED
  BY <1>1, <1>2

\* The stream of an encoder that is done: whole bytes, tokens and zeros.
LEMMA Stream ==
  ASSUME Basics, NEW off, NEW out, NEW e, Encoded(out, e, off), hse = "DONE"
  PROVE  /\ Parsed(bits, out, e) /\ e \in Nat /\ Len(bits) \in Nat /\ e <= Len(bits) /\ Len(bits) < e + ByteBits
         /\ CompSize \in Nat /\ CompSize * ByteBits = Len(bits)
         /\ \A i \in e + 1 .. Len(bits) : bits[i] = 0
         /\ \A i \in 1 .. Len(bits) : bits[i] \in {0, 1}
         /\ \A b \in DOMAIN out : b \in 0 .. e /\ out[b] \in 0 .. Len(message)
         /\ \A b \in DOMAIN out : b # e => Literal(bits, out, b) \/ Reference(bits, out, b)
         /\ Len(message) \in Nat
<1>1. /\ Parsed(bits, out, e) /\ Len(bits) < e + ByteBits /\ Len(bits) % ByteBits = 0
      /\ \A i \in e + 1 .. Len(bits) : bits[i] = 0
  BY DEF Encoded
<1>2. /\ bits \in Seq({0, 1}) /\ e \in 0 .. Len(bits) /\ DOMAIN out \subseteq 0 .. e
      /\ \A b \in DOMAIN out : out[b] \in 0 .. Len(message)
      /\ \A b \in DOMAIN out : b # e => Literal(bits, out, b) \/ Reference(bits, out, b)
  BY <1>1 DEF Parsed
<1>3. Len(bits) \in Nat /\ \A i \in 1 .. Len(bits) : bits[i] \in {0, 1}
  BY <1>2
<1>4. CompSize \in Nat /\ CompSize * ByteBits = Len(bits)
  BY <1>1, <1>3, WholeBytes, Capacities DEF CompSize
<1>5. Len(message) \in Nat
  BY DEF Basics
<1> QED
  BY <1>1, <1>2, <1>3, <1>4, <1>5

\* A byte more comes out.
LEMMA EmitKeeps ==
  ASSUME Basics, Output, message' = message, Len(decoded) < Len(message),
         NEW c, c = message[Len(decoded) + 1], Emit(c)
  PROVE  Output' /\ Len(decoded') = Len(decoded) + 1
<1> DEFINE h == Len(decoded)
<1>1. /\ decoded \in Seq(Letters) /\ h \in Nat /\ Len(message) \in Nat /\ Window \in Nat \ {0}
      /\ DOMAIN window = 0 .. Window - 1
      /\ \A i \in 1 .. h : decoded[i] = message[i]
      /\ \A j \in 0 .. h - 1 : h <= j + Window => window[j % Window] = message[j + 1]
  BY Powers DEF Output, Basics
<1>2. decoded' = Append(decoded, c) /\ window' = [window EXCEPT ![h % Window] = c]
  BY DEF Emit, HeadIndex
<1>3. c \in Letters
  <2>1. h + 1 \in 1 .. Len(message)
    BY <1>1
  <2> QED
    BY <2>1 DEF Basics
<1>4. decoded' \in Seq(Letters) /\ Len(decoded') = h + 1
  BY <1>1, <1>2, <1>3
<1>5. ASSUME NEW i \in 1 .. h + 1 PROVE decoded'[i] = message[i]
  <2>1. i \in 1 .. h \/ i = h + 1
    BY <1>1
  <2> QED
    BY <1>1, <1>2, <2>1
<1>6. h % Window \in 0 .. Window - 1
  BY <1>1
<1>7. ASSUME NEW j \in 0 .. h, h + 1 <= j + Window PROVE window'[j % Window] = message[j + 1]
  <2>1. j % Window \in 0 .. Window - 1 /\ j \in Nat
    BY <1>1
  <2>2. CASE j = h
    BY <1>1, <1>2, <1>6, <2>2
  <2>3. CASE j # h
    <3>1. j \in 0 .. h - 1 /\ j < h /\ h < j + Window /\ h <= j + Window
      BY <1>1, <1>7, <2>1, <2>3
    <3>2. j % Window # h % Window
      BY <1>1, <2>1, <3>1, PlacesDiffer
    <3>3. window[j % Window] = message[j + 1]
      BY <1>1, <3>1
    <3> QED
      BY <1>1, <1>2, <2>1, <3>2, <3>3
  <2> QED
    BY <2>2, <2>3
<1>8. DOMAIN window' = 0 .. Window - 1
  BY <1>1, <1>2
<1> HIDE DEF h
<1>9. /\ Len(decoded') <= Len(message)
      /\ \A i \in 1 .. Len(decoded') : decoded'[i] = message[i]
      /\ \A j \in 0 .. Len(decoded') - 1 : Len(decoded') <= j + Window => window'[j % Window] = message[j + 1]
  <2>1. h < Len(message) /\ h \in Nat /\ Len(message) \in Nat
    BY <1>1 DEF h
  <2>2. (h + 1) - 1 = h
    BY <2>1
  <2> QED
    BY <1>4, <1>5, <1>7, <2>1, <2>2
<1> QED
  BY <1>4, <1>8, <1>9 DEF Output, h

LEMMA OutputStays ==
  ASSUME Output, UNCHANGED <<message, decoded, window>>
  PROVE  Output'
BY DEF Output

LEMMA ProgressStays ==
  ASSUME Progress, UNCHANGED <<bits, fed, pc, receiver>>, pc = "expand",
         read' \in 0 .. fed * ByteBits, outputIndex' \in 0 .. Window, outputCount' \in 0 .. Lookahead
  PROVE  Progress'
<1>1. CompSize' = CompSize
  BY DEF CompSize
<1> QED
  BY <1>1 DEF Progress

\* What was taken was there.
LEMMA Taken ==
  ASSUME Progress, CompSize \in Nat, CompSize * ByteBits = Len(bits), NEW n \in Nat, Take(n)
  PROVE  /\ read \in Nat /\ read' = read + n /\ read' \in 0 .. fed * ByteBits /\ read + n <= Len(bits)
<1>1. fed \in Nat /\ fed <= CompSize /\ read \in 0 .. fed * ByteBits /\ ByteBits \in Nat
  BY Capacities DEF Progress
<1>2. fed * ByteBits \in Nat /\ fed * ByteBits <= CompSize * ByteBits
  BY <1>1, Product
<1>3. fed * ByteBits - read >= n /\ read' = read + n
  BY DEF Take, HasBits
<1> DEFINE p == fed * ByteBits
<1>4. p \in Nat /\ p <= Len(bits) /\ read \in 0 .. p /\ p - read >= n /\ read' = read + n
  BY <1>1, <1>2, <1>3
<1> HIDE DEF p
<1>5. read \in Nat /\ read' \in 0 .. p /\ read + n <= p
  BY <1>4
<1>6. read + n <= Len(bits)
  <2>1. CompSize * ByteBits = Len(bits) /\ CompSize * ByteBits \in Nat
    BY <1>1, Product
  <2>2. Len(bits) \in Nat
    BY <2>1
  <2> QED
    BY <1>4, <1>5, <2>2
<1> QED
  BY <1>4, <1>5, <1>6 DEF p

LEMMA TagBitKeeps ==
  ASSUME Basics, NEW off, NEW out, NEW e, Encoded(out, e, off), hse = "DONE", Decoding(out, e), TagBit
  PROVE  Decoding(out, e)'
<1>1. /\ pc = "expand" /\ hsd = "TAG_BIT" /\ Take(1)
      /\ \/ FromBits(bits, read, 1) = 1 /\ hsd' = "YIELD_LITERAL"
         \/ FromBits(bits, read, 1) = 0 /\ hsd' = "BACKREF_INDEX_LSB"
      /\ UNCHANGED <<message, receiver, pc, bits, fed, window, outputIndex, outputCount, decoded>>
  BY DEF TagBit, Expanding, encoder
<1>2. PICK b \in DOMAIN out : Standing(out, e, b)
  BY DEF Decoding
<1>3. Output /\ Progress
  BY DEF Decoding
<1>4. /\ e \in Nat /\ Len(bits) \in Nat /\ b \in 0 .. e /\ CompSize \in Nat /\ CompSize * ByteBits = Len(bits)
      /\ \A i \in e + 1 .. Len(bits) : bits[i] = 0
      /\ \A i \in 1 .. Len(bits) : bits[i] \in {0, 1}
  BY Stream
<1>5. read = b /\ Len(decoded) = out[b]
  BY <1>1, <1>2 DEF Standing
<1>6. read' = b + 1 /\ read' \in 0 .. fed * ByteBits /\ b + 1 <= Len(bits)
  BY <1>1, <1>3, <1>4, <1>5, Taken
<1>7. FromBits(bits, read, 1) = bits[b + 1]
  <2>1. bits[b + 1] \in {0, 1}
    BY <1>4, <1>6
  <2> QED
    BY <1>4, <1>5, <2>1, OneBit
<1>8. bits[b + 1] = 1 => b # e
  <2> SUFFICES ASSUME b = e PROVE bits[b + 1] = 0
    OBVIOUS
  <2>1. b + 1 \in e + 1 .. Len(bits)
    BY <1>4, <1>6
  <2> QED
    BY <1>4, <2>1
<1>9. Standing(out, e, b)'
  BY <1>1, <1>5, <1>6, <1>7, <1>8 DEF Standing
<1>10. Progress'
  <2>1. outputIndex' \in 0 .. Window /\ outputCount' \in 0 .. Lookahead
    BY <1>1, <1>3 DEF Progress
  <2> QED
    BY <1>1, <1>3, <1>6, <2>1, ProgressStays
<1>11. Output'
  BY <1>1, <1>3, OutputStays
<1> QED
  BY <1>9, <1>10, <1>11 DEF Decoding

LEMMA EmitLiteralKeeps ==
  ASSUME Basics, NEW off, NEW out, NEW e, Encoded(out, e, off), hse = "DONE", Decoding(out, e), EmitLiteral
  PROVE  Decoding(out, e)'
<1>1. /\ pc = "expand" /\ hsd = "YIELD_LITERAL" /\ Take(ByteBits) /\ hsd' = "TAG_BIT"
      /\ Emit(FromBits(bits, read, ByteBits))
      /\ UNCHANGED <<message, receiver, pc, bits, fed, outputIndex, outputCount>>
  BY DEF EmitLiteral, Expanding, encoder
<1>2. PICK b \in DOMAIN out : Standing(out, e, b)
  BY DEF Decoding
<1>3. Output /\ Progress
  BY DEF Decoding
<1>4. /\ e \in Nat /\ Len(bits) \in Nat /\ b \in 0 .. e /\ CompSize \in Nat /\ CompSize * ByteBits = Len(bits)
      /\ out[b] \in 0 .. Len(message) /\ Len(message) \in Nat
  BY Stream
<1>5. read = b + 1 /\ b # e /\ bits[b + 1] = 1 /\ Len(decoded) = out[b]
  BY <1>1, <1>2 DEF Standing
<1>6. Literal(bits, out, b)
  <2>1. Literal(bits, out, b) \/ Reference(bits, out, b)
    BY <1>5, Stream
  <2> QED
    BY <1>5, <2>1 DEF Reference
<1>7. PICK f \in DOMAIN out : /\ f = b + 1 + ByteBits /\ out[f] = out[b] + 1
                              /\ out[b] < Len(message)
                              /\ FromBits(bits, read, ByteBits) = message[out[b] + 1]
  BY <1>5, <1>6 DEF Literal
<1>8. read' = f /\ read' \in 0 .. fed * ByteBits
  BY <1>1, <1>3, <1>4, <1>5, <1>7, Taken, Capacities
<1>9. Output' /\ Len(decoded') = out[b] + 1
  <2>1. PICK c : c = FromBits(bits, read, ByteBits)
    OBVIOUS
  <2>2. Emit(c) /\ c = message[Len(decoded) + 1] /\ Len(decoded) < Len(message) /\ message' = message
    BY <1>1, <1>5, <1>7, <2>1
  <2>3. Output' /\ Len(decoded') = Len(decoded) + 1
    BY <1>3, <2>2, EmitKeeps
  <2> QED
    BY <1>5, <2>3
<1>10. Progress'
  <2>1. outputIndex' \in 0 .. Window /\ outputCount' \in 0 .. Lookahead
    BY <1>1, <1>3 DEF Progress
  <2> QED
    BY <1>1, <1>3, <1>8, <2>1, ProgressStays
<1>11. Standing(out, e, f)'
  BY <1>1, <1>7, <1>8, <1>9 DEF Standing
<1> QED
  BY <1>9, <1>10, <1>11 DEF Decoding

LEMMA BackrefIndexKeeps ==
  ASSUME Basics, NEW off, NEW out, NEW e, Encoded(out, e, off), hse = "DONE", Decoding(out, e), BackrefIndex
  PROVE  Decoding(out, e)'
<1>1. /\ pc = "expand" /\ hsd = "BACKREF_INDEX_LSB" /\ Take(WindowBits) /\ hsd' = "BACKREF_COUNT_LSB"
      /\ outputIndex' = FromBits(bits, read, WindowBits) + 1
      /\ UNCHANGED <<message, receiver, pc, bits, fed, window, outputCount, decoded>>
  BY DEF BackrefIndex, Expanding, encoder
<1>2. PICK b \in DOMAIN out : Standing(out, e, b)
  BY DEF Decoding
<1>3. Output /\ Progress
  BY DEF Decoding
<1>4. /\ e \in Nat /\ Len(bits) \in Nat /\ b \in 0 .. e /\ CompSize \in Nat /\ CompSize * ByteBits = Len(bits)
      /\ \A i \in 1 .. Len(bits) : bits[i] \in {0, 1}
      /\ WindowBits \in Nat /\ WindowBits \in 0 .. ByteBits
  BY Stream, Capacities
<1>5. read = b + 1 /\ bits[b + 1] = 0 /\ Len(decoded) = out[b]
  BY <1>1, <1>2 DEF Standing
<1>6. read' = b + 1 + WindowBits /\ read' \in 0 .. fed * ByteBits /\ read \in Nat /\ read + WindowBits <= Len(bits)
  BY <1>1, <1>3, <1>4, <1>5, Taken
<1>7. outputIndex' = Distance(bits, b) /\ outputIndex' \in 0 .. Window
  <2>1. \A i \in 1 .. WindowBits : bits[read + i] \in {0, 1}
    BY <1>4, <1>6
  <2>2. FromBits(bits, read, WindowBits) \in 0 .. Window - 1
    BY <1>4, <1>6, <2>1, NumberBound DEF Window
  <2>3. outputIndex' \in 0 .. Window
    BY <1>1, <2>2, Powers
  <2> QED
    BY <1>1, <1>5, <2>3 DEF Distance
<1>8. Progress'
  <2>1. outputCount' \in 0 .. Lookahead
    BY <1>1, <1>3 DEF Progress
  <2> QED
    BY <1>1, <1>3, <1>6, <1>7, <2>1, ProgressStays
<1>9. Distance(bits, b)' = Distance(bits, b)
  BY <1>1 DEF Distance
<1>10. Standing(out, e, b)'
  BY <1>1, <1>5, <1>6, <1>7, <1>9 DEF Standing
<1>11. Output'
  BY <1>1, <1>3, OutputStays
<1> QED
  BY <1>8, <1>10, <1>11 DEF Decoding

LEMMA BackrefCountKeeps ==
  ASSUME Basics, NEW off, NEW out, NEW e, Encoded(out, e, off), hse = "DONE", Decoding(out, e), BackrefCount
  PROVE  Decoding(out, e)'
<1>1. /\ pc = "expand" /\ hsd = "BACKREF_COUNT_LSB" /\ Take(LookaheadBits) /\ hsd' = "YIELD_BACKREF"
      /\ outputCount' = FromBits(bits, read, LookaheadBits) + 1
      /\ UNCHANGED <<message, receiver, pc, bits, fed, window, outputIndex, decoded>>
  BY DEF BackrefCount, Expanding, encoder
<1>2. PICK b \in DOMAIN out : Standing(out, e, b)
  BY DEF Decoding
<1>3. Output /\ Progress
  BY DEF Decoding
<1>4. /\ e \in Nat /\ Len(bits) \in Nat /\ b \in 0 .. e /\ CompSize \in Nat /\ CompSize * ByteBits = Len(bits)
      /\ \A i \in 1 .. Len(bits) : bits[i] \in {0, 1}
      /\ Len(bits) < e + ByteBits /\ out[b] \in 0 .. Len(message) /\ Len(message) \in Nat
  BY Stream
<1>5. WindowBits \in Nat /\ LookaheadBits \in Nat /\ LookaheadBits \in 0 .. ByteBits
      /\ 1 + WindowBits + LookaheadBits >= ByteBits /\ ByteBits \in Nat
  BY Capacities
<1>6. /\ read = b + 1 + WindowBits /\ bits[b + 1] = 0 /\ Len(decoded) = out[b]
      /\ outputIndex = Distance(bits, b)
  BY <1>1, <1>2 DEF Standing
<1>7. /\ read' = b + 1 + WindowBits + LookaheadBits /\ read' \in 0 .. fed * ByteBits
      /\ read \in Nat /\ read + LookaheadBits <= Len(bits)
  BY <1>1, <1>3, <1>4, <1>5, <1>6, Taken
<1>8. b # e
  BY <1>4, <1>5, <1>6, <1>7
<1>9. outputCount' = Count(bits, b) /\ outputCount' \in 1 .. Lookahead
  <2>1. \A i \in 1 .. LookaheadBits : bits[read + i] \in {0, 1}
    BY <1>4, <1>5, <1>7
  <2>2. FromBits(bits, read, LookaheadBits) \in 0 .. Lookahead - 1
    BY <1>5, <1>7, <2>1, NumberBound DEF Lookahead
  <2>3. outputCount' \in 1 .. Lookahead
    BY <1>1, <2>2, Powers
  <2> QED
    BY <1>1, <1>6, <2>3 DEF Count
<1>10. Progress'
  <2>1. outputIndex' \in 0 .. Window /\ outputCount' \in 0 .. Lookahead
    BY <1>1, <1>3, <1>9, Powers DEF Progress
  <2> QED
    BY <1>1, <1>3, <1>7, <2>1, ProgressStays
<1>11. Distance(bits, b)' = Distance(bits, b) /\ Count(bits, b)' = Count(bits, b)
  BY <1>1 DEF Distance, Count
<1>12. outputCount' \in 1 .. Count(bits, b) /\ Len(decoded) + outputCount' = out[b] + Count(bits, b)
  BY <1>4, <1>6, <1>9, Powers
<1>13. Standing(out, e, b)'
  BY <1>1, <1>6, <1>7, <1>8, <1>11, <1>12 DEF Standing
<1>14. Output'
  BY <1>1, <1>3, OutputStays
<1> QED
  BY <1>10, <1>13, <1>14 DEF Decoding

\* The ring still has the byte, be it one that this reference gave.
LEMMA EmitBackrefKeeps ==
  ASSUME Basics, NEW off, NEW out, NEW e, Encoded(out, e, off), hse = "DONE", Decoding(out, e), EmitBackref
  PROVE  Decoding(out, e)'
<1>1. /\ pc = "expand" /\ hsd = "YIELD_BACKREF" /\ Emit(Referenced) /\ outputCount' = outputCount - 1
      /\ hsd' = IF outputCount = 1 THEN "TAG_BIT" ELSE hsd
      /\ UNCHANGED <<message, receiver, pc, bits, fed, read, outputIndex>>
  BY DEF EmitBackref, Expanding, encoder
<1>2. PICK b \in DOMAIN out : Standing(out, e, b)
  BY DEF Decoding
<1>3. Output /\ Progress
  BY DEF Decoding
<1>4. /\ e \in Nat /\ Len(bits) \in Nat /\ b \in 0 .. e
      /\ out[b] \in 0 .. Len(message) /\ Len(message) \in Nat
  BY Stream
<1>5. PICK d, n, h :
        /\ d = Distance(bits, b) /\ n = Count(bits, b) /\ h = Len(decoded)
        /\ read = b + 1 + WindowBits + LookaheadBits /\ b # e /\ bits[b + 1] = 0
        /\ outputIndex = d /\ outputCount \in 1 .. n /\ h + outputCount = out[b] + n
  BY <1>1, <1>2 DEF Standing
<1>6. Reference(bits, out, b)
  <2>1. Literal(bits, out, b) \/ Reference(bits, out, b)
    BY <1>5, Stream
  <2> QED
    BY <1>5, <2>1 DEF Literal
<1>7. /\ d \in 1 .. Window /\ d <= out[b] /\ n \in 1 .. Lookahead /\ out[b] + n <= Len(message)
      /\ \A i \in 1 .. n : message[out[b] + i] = message[out[b] + i - d]
  BY <1>5, <1>6 DEF Reference, Repeats
<1>8. PICK f \in DOMAIN out : f = read /\ out[f] = out[b] + n
  BY <1>5, <1>6 DEF Reference
<1>9. h \in Nat /\ Window \in Nat /\ Lookahead \in Nat
  BY <1>3, <1>5, Powers DEF Output
<1>10. PICK i \in 1 .. n : h = out[b] + i - 1
  <2>0. out[b] \in Int /\ n \in Int /\ outputCount \in 1 .. n /\ h \in Int /\ h + outputCount = out[b] + n
    BY <1>4, <1>5, <1>7, <1>9
  <2>1. (n - outputCount) + 1 \in 1 .. n
    BY <2>0
  <2>2. h = out[b] + ((n - outputCount) + 1) - 1
    BY <2>0
  <2> QED
    BY <2>1, <2>2
<1>11. Referenced = message[h + 1]
  <2>0. out[b] \in Int /\ h \in Nat /\ Window \in Nat /\ i \in Nat /\ i >= 1 /\ h = out[b] + i - 1
        /\ d \in 1 .. Window /\ d <= out[b] /\ d \in Nat
    BY <1>4, <1>7, <1>9, <1>10
  <2>1. h - d \in 0 .. h - 1 /\ h <= (h - d) + Window
    BY <2>0
  <2>2. window[(h - d) % Window] = message[(h - d) + 1]
    BY <1>3, <1>5, <2>1 DEF Output
  <2>3. (h - d) + 1 = out[b] + i - d /\ h + 1 = out[b] + i
    BY <1>4, <1>7, <1>9, <1>10
  <2>4. message[out[b] + i] = message[out[b] + i - d]
    BY <1>7
  <2> QED
    BY <1>5, <2>2, <2>3, <2>4 DEF Referenced, HeadIndex
<1>12. Output' /\ Len(decoded') = h + 1
  <2>1. PICK c : c = Referenced
    OBVIOUS
  <2>2. h < Len(message)
    BY <1>4, <1>7, <1>9, <1>10
  <2>3. Emit(c) /\ c = message[Len(decoded) + 1] /\ Len(decoded) < Len(message) /\ message' = message
    BY <1>1, <1>5, <1>11, <2>1, <2>2
  <2>4. Output' /\ Len(decoded') = Len(decoded) + 1
    BY <1>3, <2>3, EmitKeeps
  <2> QED
    BY <1>5, <2>4
<1>13. Progress'
  <2>1. outputIndex' \in 0 .. Window /\ outputCount' \in 0 .. Lookahead /\ read' \in 0 .. fed * ByteBits
    BY <1>1, <1>3, <1>5, <1>7, <1>9 DEF Progress
  <2> QED
    BY <1>1, <1>3, <2>1, ProgressStays
<1>14. CASE outputCount = 1
  <2>1. Len(decoded') = out[f]
    BY <1>4, <1>5, <1>7, <1>8, <1>9, <1>12, <1>14
  <2>2. Standing(out, e, f)'
    BY <1>1, <1>8, <1>14, <2>1 DEF Standing
  <2> QED
    BY <1>12, <1>13, <2>2 DEF Decoding
<1>15. CASE outputCount # 1
  <2>1. outputCount' \in 1 .. n /\ Len(decoded') + outputCount' = out[b] + n
    BY <1>1, <1>4, <1>5, <1>7, <1>9, <1>12, <1>15
  <2>2. Distance(bits, b)' = d /\ Count(bits, b)' = n
    BY <1>1, <1>5 DEF Distance, Count
  <2>3. Standing(out, e, b)'
    BY <1>1, <1>5, <1>15, <2>1, <2>2 DEF Standing
  <2> QED
    BY <1>12, <1>13, <2>3 DEF Decoding
<1> QED
  BY <1>14, <1>15

LEMMA BufferStays ==
  ASSUME NEW off, Buffered(off), UNCHANGED <<message, encoder>>,
         pc' \in {"sent", "sink", "expand", "done"},
         compressed' => compressed \/ pc = "flush"
  PROVE  Buffered(off)'
BY DEF Buffered, encoder

LEMMA SinkBytesKeeps ==
  ASSUME Basics, NEW off, NEW out, NEW e, Encoded(out, e, off), hse = "DONE", Decoding(out, e), SinkBytes
  PROVE  Decoding(out, e)'
<1>1. /\ pc = "sent" \/ (pc = "sink" /\ fed < CompSize)
      /\ fed' = fed + SinkTakes(CompSize - fed) /\ pc' = "expand"
      /\ UNCHANGED <<message, receiver, bits, hsd, read, window, outputIndex, outputCount, decoded>>
  BY DEF SinkBytes, encoder
<1>2. PICK b \in DOMAIN out : Standing(out, e, b)
  BY DEF Decoding
<1>3. Output /\ Progress
  BY DEF Decoding
<1>4. CompSize \in Nat /\ ByteBits \in Nat /\ AskBuf \in Nat /\ InBuf \in Nat
  BY Stream, Capacities
<1>5. fed \in Nat /\ fed <= CompSize /\ read \in 0 .. fed * ByteBits
  BY <1>3, <1>4 DEF Progress
<1>6. InputBuffer \in Nat
  BY <1>4 DEF InputBuffer
<1>7. SinkTakes(CompSize - fed) = IF InputBuffer <= CompSize - fed THEN InputBuffer ELSE CompSize - fed
  <2>1. CompSize - fed \in Int /\ InputBuffer \in Int
    BY <1>4, <1>5, <1>6
  <2> QED
    BY <2>1, SmallerOfTwo DEF SinkTakes
<1>8. fed' \in 0 .. CompSize /\ fed <= fed' /\ fed' \in Nat
  BY <1>1, <1>4, <1>5, <1>6, <1>7
<1>9. read \in 0 .. fed' * ByteBits
  <2>1. fed * ByteBits \in Nat /\ fed' * ByteBits \in Nat /\ fed * ByteBits <= fed' * ByteBits
    BY <1>4, <1>5, <1>8, Product
  <2> DEFINE x == fed * ByteBits
             y == fed' * ByteBits
  <2>2. x \in Nat /\ y \in Nat /\ x <= y /\ read \in 0 .. x
    BY <1>5, <2>1
  <2> HIDE DEF x, y
  <2>3. read \in 0 .. y
    BY <2>2
  <2> QED
    BY <2>3 DEF y
<1>10. receiver = "ask" => fed' = Min({AskBuf, CompSize})
  <2> SUFFICES ASSUME receiver = "ask" PROVE fed' = Min({AskBuf, CompSize})
    OBVIOUS
  <2>1. pc = "sent" /\ fed = 0 /\ InputBuffer = AskBuf
    BY <1>1, <1>3 DEF Progress, InputBuffer
  <2>2. fed' = Min({InputBuffer, CompSize - fed}) /\ CompSize - fed = CompSize
    BY <1>1, <1>4, <1>7, <1>8, <2>1 DEF SinkTakes
  <2> QED
    BY <2>1, <2>2
<1>11. CompSize' = CompSize
  BY <1>1 DEF CompSize
<1>12. Progress'
  BY <1>1, <1>3, <1>8, <1>9, <1>10, <1>11 DEF Progress
<1>13. Output'
  BY <1>1, <1>3, OutputStays
<1>14. Standing(out, e, b)'
  BY <1>1, <1>2 DEF Standing, Distance, Count
<1> QED
  BY <1>12, <1>13, <1>14 DEF Decoding

LEMMA ExpandEndsKeeps ==
  ASSUME Basics, NEW off, NEW out, NEW e, Encoded(out, e, off), hse = "DONE", Decoding(out, e), ExpandEnds
  PROVE  Decoding(out, e)'
<1>1. /\ pc = "expand" /\ ~HasBits(Needs)
      /\ pc' = IF receiver = "dash" /\ fed < CompSize THEN "sink" ELSE "done"
      /\ UNCHANGED <<message, receiver, bits, hsd, fed, read, window, outputIndex, outputCount, decoded>>
  BY DEF ExpandEnds, Expanding, encoder, decoder
<1>2. PICK b \in DOMAIN out : Standing(out, e, b)
  BY DEF Decoding
<1>3. Output /\ Progress
  BY DEF Decoding
<1>4. CompSize \in Nat
  BY Stream
<1>5. CompSize' = CompSize /\ Needs' = Needs
  BY <1>1 DEF CompSize, Needs
<1>6. HasBits(Needs)' <=> HasBits(Needs)
  BY <1>1, <1>5 DEF HasBits
<1>7. fed \in 0 .. CompSize
  BY <1>3 DEF Progress
<1>8. pc' = "done" /\ receiver = "dash" => fed = CompSize
  BY <1>1, <1>4, <1>7
<1>9. Progress'
  BY <1>1, <1>3, <1>5, <1>6, <1>8 DEF Progress
<1>10. Output'
  BY <1>1, <1>3, OutputStays
<1>11. Standing(out, e, b)'
  BY <1>1, <1>2 DEF Standing, Distance, Count
<1> QED
  BY <1>9, <1>10, <1>11 DEF Decoding

\* A stream that was cut is longer than any message.
LEMMA OnlyWholeChosen ==
  ASSUME Basics, NEW off, NEW out, NEW e, Encoded(out, e, off), ChooseBody, compressed'
  PROVE  hse = "DONE"
<1>1. hse = "DONE" \/ Blocked
  BY DEF ChooseBody
<1>2. CompSize < Len(message)
  BY DEF ChooseBody, UseCompressed
<1>3. CompSize \in Nat /\ Len(message) \in Nat /\ Len(message) <= MaxLen
  <2>1. Len(bits) \in Nat
    BY DEF Encoded, Parsed
  <2>2. Len(bits) \div ByteBits \in Nat
    BY <2>1, WholeBytes, Capacities
  <2> QED
    BY <2>2, Capacities DEF CompSize, Basics
<1>4. ~Blocked
  BY <1>2, <1>3, Capacities DEF Blocked, CanTakeByte
<1> QED
  BY <1>1, <1>4

\* The decoder starts with the first token.
LEMMA StartDecoding ==
  ASSUME Basics, NEW off, NEW out, NEW e, Encoded(out, e, off), ChooseBody, compressed',
         Untouched, decoded = <<>>
  PROVE  Decoding(out, e)'
<1>1. /\ pc' = "sent" /\ UNCHANGED <<message, receiver, bits, hsd, fed, read, window, outputIndex,
                                    outputCount, decoded>>
  BY DEF ChooseBody, encoder, decoder
<1>2. /\ hsd = "TAG_BIT" /\ fed = 0 /\ read = 0 /\ outputIndex = 0 /\ outputCount = 0
      /\ DOMAIN window = 0 .. Window - 1
  BY DEF Untouched
<1>3. 0 \in DOMAIN out /\ out[0] = 0
  BY DEF Encoded, Parsed
<1>4. Len(decoded) = 0
  OBVIOUS
<1>5. Standing(out, e, 0)'
  BY <1>1, <1>2, <1>3, <1>4 DEF Standing
<1>6. Output'
  <2>1. decoded' \in Seq(Letters) /\ Len(decoded') = 0
    BY <1>1
  <2>2. Len(message') \in Nat
    BY <1>1 DEF Basics
  <2> QED
    BY <1>1, <1>2, <2>1, <2>2 DEF Output
<1>7. Progress'
  <2>1. CompSize' = CompSize /\ CompSize \in Nat
    <3>1. Len(bits) \in Nat
      BY DEF Encoded, Parsed
    <3> QED
      BY <1>1, <3>1, WholeBytes, Capacities DEF CompSize
  <2>2. 0 * ByteBits = 0
    BY Capacities
  <2> QED
    BY <1>1, <1>2, <2>1, <2>2, Powers DEF Progress
<1> QED
  BY <1>3, <1>5, <1>6, <1>7 DEF Decoding

-----------------------------------------------------------------------------
(* The steps, and what they leave *)

LEMMA InitCodec ==
  ASSUME Init
  PROVE  CodecInv
<1>1. \E off, e, out : Buffered(off) /\ Encoded(out, e, off)
  BY InitEncoded
<1>2. message \in Seq(Letters) /\ Len(message) \in 1 .. MaxLen
  <2>1. message \in SeqOf(Letters, MaxLen) /\ message # <<>>
    BY DEF Init
  <2>2. PICK m \in 0 .. MaxLen : message \in [1 .. m -> Letters]
    BY <2>1 DEF SeqOf
  <2>3. m \in Nat
    BY Capacities
  <2>4. message \in Seq(Letters) /\ Len(message) = m
    BY <2>2, <2>3, SeqDef
  <2>5. m # 0
    BY <2>1, <2>4
  <2> QED
    BY <2>3, <2>4, <2>5
<1>3. Basics
  <2>1. matchLength \in 0 .. Lookahead /\ matchPos \in 0 .. Window
    BY Powers DEF Init
  <2>2. finishing \in BOOLEAN
    BY DEF Init
  <2>3. compressed \in BOOLEAN /\ ~compressed
    BY DEF Init
  <2>4. /\ pc = "typed" /\ hse = "NOT_FULL" /\ hsd = "TAG_BIT" /\ receiver \in {"dash", "ask"}
    BY DEF Init
  <2> QED
    BY <1>2, <2>1, <2>2, <2>3, <2>4 DEF Basics
<1>4. Untouched /\ decoded = <<>> /\ pc = "typed" /\ ~compressed
  BY DEF Init, Untouched
<1> QED
  BY <1>1, <1>3, <1>4 DEF CodecInv

\* Steps of the encoder and of its loop.
LEMMA EncodingKeeps ==
  ASSUME CodecInv, Encode \/ SinkMessage \/ PollEnds
  PROVE  CodecInv'
<1>1. PICK off, e, out : Buffered(off) /\ Encoded(out, e, off)
  BY DEF CodecInv
<1>2. Basics
  BY DEF CodecInv
<1>3. /\ pc \in {"typed", "poll", "flush"} /\ pc' \in {"poll", "flush"}
      /\ UNCHANGED <<message, receiver, compressed, hsd, fed, read, window, outputIndex, outputCount, decoded>>
  BY DEF Encode, Fill, SearchEnds, Search, YieldTagBit, YieldLiteral, YieldBackrefIndex,
         YieldBackrefLength, SaveBacklog, FlushBits, SinkMessage, PollEnds, Polling, decoder
<1>4. ~compressed
  BY <1>2, <1>3 DEF Basics, Decided
<1>5. \E o, f, m : Buffered(o)' /\ Encoded(m, f, o)'
  BY <1>1, <1>2, FillKeeps, SearchEndsKeeps, SearchKeeps, YieldTagBitKeeps, YieldLiteralKeeps,
     YieldBackrefIndexKeeps, YieldBackrefLengthKeeps, SaveBacklogKeeps, FlushBitsKeeps,
     SinkMessageKeeps, PollEndsKeeps DEF Encode
<1>6. hse' \in {"NOT_FULL", "FILLED", "SEARCH", "YIELD_TAG_BIT", "YIELD_LITERAL",
                "YIELD_BR_INDEX", "YIELD_BR_LENGTH", "SAVE_BACKLOG", "FLUSH_BITS", "DONE"}
  BY <1>2 DEF Basics, Encode, Fill, SearchEnds, Search, YieldTagBit, YieldLiteral, YieldBackrefIndex,
         YieldBackrefLength, SaveBacklog, FlushBits, SinkMessage, PollEnds
<1>7. matchLength' \in 0 .. Lookahead /\ matchPos' \in 0 .. Window
  <2>1. CASE Search
    BY <1>1, <1>2, <2>1, SearchKeeps
  <2>2. CASE ~Search
    <3>1. matchLength' \in {0, matchLength} /\ matchPos' = matchPos
      BY <2>2 DEF Encode, Fill, SearchEnds, YieldTagBit, YieldLiteral, YieldBackrefIndex,
         YieldBackrefLength, SaveBacklog, FlushBits, SinkMessage, PollEnds
    <3> QED
      BY <1>2, <3>1, Powers DEF Basics
  <2> QED
    BY <2>1, <2>2
<1>8. finishing' \in BOOLEAN
  BY <1>2 DEF Basics, Encode, Fill, SearchEnds, Search, YieldTagBit, YieldLiteral, YieldBackrefIndex,
         YieldBackrefLength, SaveBacklog, FlushBits, SinkMessage, PollEnds
<1>9. Basics'
  BY <1>2, <1>3, <1>4, <1>6, <1>7, <1>8 DEF Basics
<1>10. ~compressed' /\ Untouched' /\ decoded' = <<>> /\ pc' # "done"
  BY <1>3, <1>4 DEF CodecInv, Untouched
<1> QED
  BY <1>5, <1>9, <1>10 DEF CodecInv

LEMMA ChooseBodyKeeps ==
  ASSUME CodecInv, ChooseBody
  PROVE  CodecInv'
<1>1. PICK off, e, out : Buffered(off) /\ Encoded(out, e, off)
  BY DEF CodecInv
<1>2. Basics
  BY DEF CodecInv
<1>3. /\ pc = "flush" /\ pc' = "sent" /\ compressed' = UseCompressed
      /\ UNCHANGED <<message, receiver, encoder, decoder>>
  BY DEF ChooseBody
<1>4. ~compressed /\ Untouched /\ decoded = <<>>
  BY <1>2, <1>3 DEF CodecInv, Basics, Decided
<1>5. Buffered(off)' /\ Encoded(out, e, off)'
  BY <1>1, <1>3, BufferStays, EncodedStays
<1>6. compressed' \in BOOLEAN
  BY <1>3 DEF UseCompressed
<1>7. compressed' => hse' = "DONE" /\ Decoding(out, e)'
  BY <1>1, <1>2, <1>3, <1>4, OnlyWholeChosen, StartDecoding DEF encoder
<1>8. Basics'
  BY <1>2, <1>3, <1>6, <1>7 DEF Basics, Decided, encoder, decoder
<1>9. Untouched' /\ decoded' = <<>>
  BY <1>3, <1>4 DEF Untouched, decoder
<1> QED
  BY <1>3, <1>5, <1>7, <1>8, <1>9 DEF CodecInv

LEMMA PlainKeeps ==
  ASSUME CodecInv, SendShort \/ ShowMessage
  PROVE  CodecInv'
<1>1. PICK off, e, out : Buffered(off) /\ Encoded(out, e, off)
  BY DEF CodecInv
<1>2. Basics
  BY DEF CodecInv
<1>3. /\ \/ pc = "typed"
         \/ pc = "sent" /\ ~compressed
      /\ \/ pc' = "sent" /\ decoded' = decoded
         \/ pc' = "done" /\ decoded' = message
      /\ UNCHANGED <<message, receiver, compressed, encoder, hsd, fed, read, window, outputIndex, outputCount>>
  BY DEF SendShort, ShowMessage, decoder
<1>4. ~compressed /\ Untouched /\ decoded = <<>>
  BY <1>2, <1>3 DEF CodecInv, Basics, Decided
<1>5. Buffered(off)' /\ Encoded(out, e, off)'
  BY <1>1, <1>3, BufferStays, EncodedStays
<1>6. Basics'
  BY <1>2, <1>3, <1>4 DEF Basics, encoder
<1>7. ~compressed' /\ Untouched' /\ decoded' = IF pc' = "done" THEN message' ELSE <<>>
  BY <1>3, <1>4 DEF Untouched
<1> QED
  BY <1>5, <1>6, <1>7 DEF CodecInv

\* Steps of the receiver with a compressed body.
LEMMA DecodingKeeps ==
  ASSUME CodecInv, SinkBytes \/ Decode \/ ExpandEnds
  PROVE  CodecInv'
<1>1. /\ UNCHANGED <<message, receiver, compressed, encoder>>
      /\ pc \in {"sink", "expand"} \/ (pc = "sent" /\ compressed)
      /\ pc' \in {"sink", "expand", "done"}
  BY DEF SinkBytes, Decode, TagBit, EmitLiteral, BackrefIndex, BackrefCount, EmitBackref, ExpandEnds,
         Expanding
<1>2. Basics
  BY DEF CodecInv
<1>3. compressed /\ hse = "DONE"
  BY <1>1, <1>2 DEF Basics
<1>4. PICK off, e, out : Buffered(off) /\ Encoded(out, e, off) /\ Decoding(out, e)
  BY <1>3 DEF CodecInv
<1>5. Decoding(out, e)'
  BY <1>2, <1>3, <1>4, SinkBytesKeeps, TagBitKeeps, EmitLiteralKeeps, BackrefIndexKeeps,
     BackrefCountKeeps, EmitBackrefKeeps, ExpandEndsKeeps DEF Decode
<1>6. Buffered(off)' /\ Encoded(out, e, off)'
  BY <1>1, <1>4, BufferStays, EncodedStays
<1>7. hsd' \in {"TAG_BIT", "YIELD_LITERAL", "BACKREF_INDEX_LSB", "BACKREF_COUNT_LSB", "YIELD_BACKREF"}
  BY <1>2 DEF Basics, SinkBytes, Decode, TagBit, EmitLiteral, BackrefIndex, BackrefCount, EmitBackref,
         ExpandEnds, decoder
<1>8. Basics'
  BY <1>1, <1>2, <1>3, <1>7 DEF Basics, Decided, encoder
<1>9. compressed'
  BY <1>1, <1>3
<1> QED
  BY <1>5, <1>6, <1>8, <1>9 DEF CodecInv

LEMMA StutterKeeps ==
  ASSUME CodecInv, UNCHANGED vars
  PROVE  CodecInv'
<1>1. UNCHANGED <<message, receiver, pc, compressed, encoder, decoder>>
  BY DEF vars
<1>2. PICK off, e, out : Buffered(off) /\ Encoded(out, e, off) /\ (compressed => Decoding(out, e))
  BY DEF CodecInv
<1>3. Encoded(out, e, off)'
  BY <1>1, <1>2, EncodedStays
<1>4. Buffered(off)'
  BY <1>1, <1>2 DEF Buffered, encoder
<1>5. Decoding(out, e) => Decoding(out, e)'
  BY <1>1 DEF Decoding, Output, Progress, Standing, Distance, Count, CompSize, HasBits, Needs, encoder,
         decoder
<1>6. Basics'
  BY <1>1 DEF CodecInv, Basics, Decided, encoder, decoder
<1>7. Untouched' <=> Untouched
  BY <1>1 DEF Untouched, decoder
<1> QED
  BY <1>1, <1>2, <1>3, <1>4, <1>5, <1>6, <1>7 DEF CodecInv, decoder

-----------------------------------------------------------------------------
\* The stream, the buffers and the cursors of both sides always mean the same
\* message (heatshrink_encoder.c, heatshrink_decoder.c and the loops around them).
THEOREM CodecInvariant == Spec => []CodecInv
<1>1. CodecInv /\ [Next]_vars => CodecInv'
  BY EncodingKeeps, ChooseBodyKeeps, PlainKeeps, DecodingKeeps, StutterKeeps DEF Next
<1> QED
  BY <1>1, InitCodec, PTL DEF Spec

\* The scan never passes the input, references stay in the window, and the
\* decoder takes no bit it was not given.
THEOREM CodecTypeCorrect == Spec => []TypeOK
<1>1. CodecInv => TypeOK
  <2> SUFFICES ASSUME CodecInv PROVE TypeOK
    OBVIOUS
  <2>1. PICK off, e, out : Buffered(off) /\ Encoded(out, e, off) /\ (compressed => Decoding(out, e))
    BY DEF CodecInv
  <2>2. Basics
    BY DEF CodecInv
  <2>3. bits \in Seq({0, 1}) /\ Len(bits) \in Nat
    BY <2>1 DEF Encoded, Parsed
  <2>4. inputSize \in 0 .. Window /\ msi \in 0 .. inputSize
    BY <2>1 DEF Buffered
  <2>5. CompSize \in Nat
    BY <2>3, WholeBytes, Capacities DEF CompSize
  <2>6. fed \in 0 .. CompSize /\ read \in 0 .. Len(bits) /\ outputIndex \in 0 .. Window
        /\ outputCount \in 0 .. Lookahead
    <3>1. CASE ~compressed
      BY <2>3, <2>5, <3>1, Powers DEF CodecInv, Untouched
    <3>2. CASE compressed
      <4>1. Progress /\ hse = "DONE"
        BY <2>1, <2>2, <3>2 DEF Decoding, Basics
      <4>2. CompSize * ByteBits = Len(bits)
        BY <2>1, <2>2, <4>1, Stream
      <4>3. read \in 0 .. Len(bits)
        <5>1. fed \in Nat /\ fed <= CompSize /\ read \in 0 .. fed * ByteBits /\ ByteBits \in Nat
          BY <2>5, <4>1, Capacities DEF Progress
        <5>2. fed * ByteBits \in Nat /\ fed * ByteBits <= CompSize * ByteBits
          BY <2>5, <5>1, Product
        <5>3. PICK x : x = fed * ByteBits
          OBVIOUS
        <5>4. x \in Nat /\ x <= Len(bits) /\ read \in 0 .. x
          BY <4>2, <5>1, <5>2, <5>3
        <5> QED
          BY <2>3, <5>4
      <4> QED
        BY <4>1, <4>3 DEF Progress
    <3>3. compressed \in BOOLEAN
      BY <2>2 DEF Basics
    <3> QED
      BY <3>1, <3>2
  <2> QED
    BY <2>2, <2>3, <2>4, <2>6 DEF Basics, TypeOK
<1> QED
  BY <1>1, CodecInvariant, PTL

\* Whatever the encoder makes of a message, whichever pieces the decoder gets
\* it in, and wherever it stops: what came out is a beginning of the message.
THEOREM NeverWrongBytes == Spec => []NeverWrongByte
<1>1. CodecInv => NeverWrongByte
  <2> SUFFICES ASSUME CodecInv PROVE IsPrefix(decoded, message)
    BY DEF NeverWrongByte
  <2>1. message \in Seq(Letters) /\ Len(message) \in Nat
    BY DEF CodecInv, Basics
  <2>2. /\ decoded \in Seq(Letters) /\ Len(decoded) <= Len(message)
        /\ \A i \in 1 .. Len(decoded) : decoded[i] = message[i]
    <3>1. CASE compressed
      BY <3>1 DEF CodecInv, Decoding, Output
    <3>2. CASE ~compressed
      <4>1. decoded = message \/ decoded = <<>>
        BY <3>2 DEF CodecInv
      <4>2. CASE decoded = message
        BY <2>1, <4>2
      <4>3. CASE decoded = <<>>
        <5>1. decoded \in Seq(Letters) /\ Len(decoded) = 0
          BY <4>3
        <5> QED
          BY <2>1, <5>1
      <4> QED
        BY <4>1, <4>2, <4>3
    <3> QED
      BY <3>1, <3>2
  <2>3. Len(decoded) \in Nat
    BY <2>2
  <2>4. SubSeq(decoded, 1, Len(decoded)) = SubSeq(message, 1, Len(decoded))
    <3>1. /\ SubSeq(decoded, 1, Len(decoded)) = [i \in 1 .. Len(decoded) |-> decoded[i]]
          /\ SubSeq(message, 1, Len(decoded)) = [i \in 1 .. Len(decoded) |-> message[i]]
      BY <2>1, <2>2, <2>3
    <3> QED
      BY <2>2, <3>1
  <2> QED
    BY <2>2, <2>4 DEF IsPrefix
<1> QED
  BY <1>1, CodecInvariant, PTL

\* When the receiver is through, it has the first Window bytes of the message at
\* least, and the last bits of a stream, which finish pads, are not lost.
THEOREM WindowfulsArrive == Spec => []WindowfulArrives
<1>1. CodecInv => WindowfulArrives
  <2> SUFFICES ASSUME CodecInv, pc = "done",
                      receiver = "ask" /\ compressed => CompSize <= AskBuf
               PROVE  Len(decoded) >= Min({Len(message), Window})
    BY DEF WindowfulArrives
  <2>1. Basics /\ Len(message) \in Nat /\ Window \in Nat
    BY Powers DEF CodecInv, Basics
  <2>2. Min({Len(message), Window}) <= Len(message) /\ Min({Len(message), Window}) \in Nat
    BY <2>1, SmallerOfTwo
  <2>3. CASE ~compressed
    <3>1. decoded = message
      BY <2>3 DEF CodecInv
    <3> QED
      BY <2>1, <2>2, <3>1
  <2>4. CASE compressed
    <3>1. PICK off, e, out : Buffered(off) /\ Encoded(out, e, off) /\ Decoding(out, e)
      BY <2>4 DEF CodecInv
    <3>2. hse = "DONE"
      BY <2>1, <2>4 DEF Basics
    <3>3. /\ e \in Nat /\ Len(bits) \in Nat /\ e <= Len(bits)
          /\ CompSize \in Nat /\ CompSize * ByteBits = Len(bits)
          /\ \A i \in e + 1 .. Len(bits) : bits[i] = 0
          /\ Parsed(bits, out, e)
      BY <2>1, <3>1, <3>2, Stream
    <3>4. PICK b \in DOMAIN out : Standing(out, e, b)
      BY <3>1 DEF Decoding
    <3>5. fed = CompSize
      <4>1. receiver = "dash" => fed = CompSize
        BY <3>1 DEF Decoding, Progress
      <4>2. receiver = "ask" => fed = CompSize
        <5> SUFFICES ASSUME receiver = "ask" PROVE fed = CompSize
          OBVIOUS
        <5>1. fed = Min({AskBuf, CompSize}) /\ CompSize <= AskBuf
          BY <2>4, <3>1 DEF Decoding, Progress
        <5>2. Min({AskBuf, CompSize}) = IF AskBuf <= CompSize THEN AskBuf ELSE CompSize
          BY <3>3, SmallerOfTwo, Capacities
        <5> QED
          BY <3>3, <5>1, <5>2, Capacities
      <4> QED
        BY <2>1, <4>1, <4>2 DEF Basics
    <3>6. ~ (Len(bits) - read >= Needs)
      BY <3>1, <3>3, <3>5 DEF Decoding, Progress, HasBits
    <3>7. read \in 0 .. Len(bits)
      BY <3>1, <3>3, <3>5 DEF Decoding, Progress
    <3>8. b = e
      <4> SUFFICES ASSUME b # e PROVE FALSE
        OBVIOUS
      <4>1. /\ b \in Nat /\ b < e
            /\ Literal(bits, out, b) => b + 1 + ByteBits <= e
            /\ Reference(bits, out, b) => b + 1 + WindowBits + LookaheadBits <= e
        BY <2>1, <3>3, TokenFits
      <4>2. Literal(bits, out, b) \/ Reference(bits, out, b)
        BY <3>3 DEF Parsed
      <4>3. /\ bits[b + 1] = 1 => b + 1 + ByteBits <= e
            /\ bits[b + 1] = 0 => b + 1 + WindowBits + LookaheadBits <= e
        BY <4>1, <4>2 DEF Literal, Reference
      <4>4. ByteBits \in Nat /\ WindowBits \in Nat /\ LookaheadBits \in Nat
        BY Capacities
      <4>5. CASE hsd = "TAG_BIT"
        BY <3>3, <3>4, <3>6, <3>7, <4>1, <4>5 DEF Standing, Needs
      <4>6. CASE hsd = "YIELD_LITERAL"
        <5>1. read = b + 1 /\ bits[b + 1] = 1 /\ Needs = ByteBits
          BY <3>4, <4>6 DEF Standing, Needs
        <5> QED
          BY <3>3, <3>6, <3>7, <4>1, <4>3, <4>4, <5>1
      <4>7. CASE hsd = "BACKREF_INDEX_LSB"
        <5>1. read = b + 1 /\ bits[b + 1] = 0 /\ Needs = WindowBits
          BY <3>4, <4>7 DEF Standing, Needs
        <5> QED
          BY <3>3, <3>6, <3>7, <4>1, <4>3, <4>4, <5>1
      <4>8. CASE hsd = "BACKREF_COUNT_LSB"
        <5>1. read = b + 1 + WindowBits /\ bits[b + 1] = 0 /\ Needs = LookaheadBits
          BY <3>4, <4>8 DEF Standing, Needs
        <5> QED
          BY <3>3, <3>6, <3>7, <4>1, <4>3, <4>4, <5>1
      <4>9. CASE hsd = "YIELD_BACKREF"
        <5>1. Needs = 0
          BY <4>9 DEF Needs
        <5> QED
          BY <3>3, <3>6, <3>7, <5>1
      <4> QED
        BY <2>1, <4>5, <4>6, <4>7, <4>8, <4>9 DEF Basics
    <3>9. Len(decoded) = out[e]
      <4>1. hsd \notin {"YIELD_LITERAL", "YIELD_BACKREF"}
        BY <3>4, <3>8 DEF Standing
      <4> QED
        BY <2>1, <3>4, <3>8, <4>1 DEF Standing, Basics
    <3>10. out[e] = off + inputSize /\ off + inputSize = Min({Window, Len(message)})
      BY <2>4, <3>1, <3>2 DEF Encoded, Buffered
    <3>11. Min({Window, Len(message)}) = Min({Len(message), Window})
      <4>1. {Window, Len(message)} = {Len(message), Window}
        OBVIOUS
      <4> QED
        BY <4>1
    <3> QED
      BY <2>2, <3>9, <3>10, <3>11
  <2>5. compressed \in BOOLEAN
    BY <2>1 DEF Basics
  <2> QED
    BY <2>3, <2>4
<1> QED
  BY <1>1, CodecInvariant, PTL

\* When the poll loops of the sender end on a full compressed_buf, the message
\* goes out as typed: a cut stream never stands in its place.
THEOREM CutStreamsStay == Spec => []CompressedIsComplete
<1>1. CodecInv => CompressedIsComplete
  BY DEF CodecInv, Basics, CompressedIsComplete
<1> QED
  BY <1>1, CodecInvariant, PTL
=============================================================================
