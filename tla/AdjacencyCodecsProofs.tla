------------------------- MODULE AdjacencyCodecsProofs -------------------------
(***************************************************************************)
(* Proofs about the codecs of the StandaloneParts, for all widths, block   *)
(* sizes and registers: each returns the list it encoded, and refuses data *)
(* that lost its end.                                                      *)
(*                                                                         *)
(* A value is split into digits to the base of a power of two and put      *)
(* together again byte by byte; a payload is a concatenation, and where    *)
(* each of its parts begins is a sum of lengths.  Both are followed along  *)
(* the runs of the folds that FoldedPartsProofs provides.                  *)
(***************************************************************************)
EXTENDS FoldedPartsProofs

-----------------------------------------------------------------------------
(* Powers of two, from the number of subsets of a set.                     *)
LEMMA PowerCounts ==
  ASSUME NEW n \in Nat
  PROVE  IsFiniteSet(SUBSET (1 .. n)) /\ Cardinality(SUBSET (1 .. n)) = 2 ^ n
<1>1. IsFiniteSet(1 .. n) /\ Cardinality(1 .. n) = n
  BY FS_Interval
<1>2. IsFiniteSet(SUBSET (1 .. n)) /\ Cardinality(SUBSET (1 .. n)) = 2 ^ Cardinality(1 .. n)
  BY <1>1, FS_SUBSET, Zenon
<1>. QED  BY <1>1, <1>2, Zenon

(* Half of the subsets of 1 .. n + 1 hold n + 1.                           *)
LEMMA PowerDoubles ==
  ASSUME NEW n \in Nat
  PROVE  2 ^ n \in Nat /\ 2 ^ (n + 1) = 2 * 2 ^ n
<1>. DEFINE A == SUBSET (1 .. n)
            B == SUBSET (1 .. n + 1)
            h == [a \in A |-> a \cup {n + 1}]
            T == {h[a] : a \in A}
<1>1. IsFiniteSet(A) /\ Cardinality(A) = 2 ^ n /\ Cardinality(B) = 2 ^ (n + 1)
  <2>1. n + 1 \in Nat
    OBVIOUS
  <2>. QED  BY <2>1, PowerCounts, Zenon
<1>2. \A i \in 1 .. n : i \in 1 .. n + 1 /\ i # n + 1
  OBVIOUS
<1>3. \A i \in 1 .. n + 1 : i = n + 1 \/ i \in 1 .. n
  OBVIOUS
<1>4. n + 1 \in 1 .. n + 1
  OBVIOUS
<1>5. B = A \cup T
  <2>1. ASSUME NEW b \in B, b \notin A PROVE b \in T
    <3>. DEFINE a == b \ {n + 1}
    <3>1. a \in A /\ n + 1 \in b
      BY <1>3, <2>1
    <3>2. h[a] = b
      BY <3>1
    <3>. QED  BY <3>1, <3>2
  <2>2. ASSUME NEW b \in T PROVE b \in B
    <3>1. PICK a \in A : b = a \cup {n + 1}
      BY <2>2
    <3>. QED  BY <1>2, <1>4, <3>1
  <2>3. A \subseteq B
    BY <1>2
  <2>. QED  BY <2>1, <2>2, <2>3
<1>6. A \cap T = {}
  <2>1. \A a \in A : n + 1 \notin a /\ n + 1 \in h[a]
    BY <1>2
  <2>. QED  BY <2>1
<1>7. h \in Bijection(A, T)
  <2>1. \A a, b \in A : h[a] = h[b] => a = b
    <3>1. \A a \in A : h[a] = a \cup {n + 1} /\ h[a] \ {n + 1} = a
      <4>1. \A a \in A : n + 1 \notin a
        BY <1>2
      <4>. QED  BY <4>1
    <3>. HIDE DEF h, A
    <3>. QED  BY <3>1, Zenon
  <2>2. h \in [A -> T] /\ \A t \in T : \E a \in A : h[a] = t
    OBVIOUS
  <2>. HIDE DEF h, A, T
  <2>. QED  BY <2>1, <2>2 DEF Bijection, Injection, IsInjective, Surjection
<1>. HIDE DEF A, B, T, h
<1>8. IsFiniteSet(T) /\ Cardinality(T) = Cardinality(A)
  BY <1>1, <1>7, FS_Bijection DEF ExistsBijection
<1>9. Cardinality(A) \in Nat /\ Cardinality(A \cap T) = 0
  BY <1>1, <1>6, FS_CardinalityType, FS_EmptySet
<1>10. Cardinality(B) = Cardinality(A) + Cardinality(T) - Cardinality(A \cap T)
  BY <1>1, <1>5, <1>8, FS_Union
<1>11. Cardinality(B) = Cardinality(A) + Cardinality(A)
  BY <1>8, <1>9, <1>10
<1>. QED  BY <1>1, <1>9, <1>11

(* The empty set has one subset.                                           *)
LEMMA PowerOne == 2 ^ 0 = 1
<1>1. Cardinality(SUBSET (1 .. 0)) = 2 ^ 0
  BY PowerCounts, Zenon
<1>2. SUBSET (1 .. 0) = {{}}
  OBVIOUS
<1>3. Cardinality({{}}) = 1
  BY FS_Singleton
<1>. QED  BY <1>1, <1>2, <1>3

(* No power of two is zero.                                                *)
LEMMA PowerPositive ==
  ASSUME NEW n \in Nat
  PROVE  2 ^ n \in Nat \ {0} /\ n < 2 ^ n
<1>. DEFINE G == {k \in 0 .. n : 2 ^ k \in Nat \ {0} /\ k < 2 ^ k}
<1>1. 0 \in G
  BY PowerOne
<1>2. ASSUME NEW k \in 1 .. n, k - 1 \in G PROVE k \in G
  <2>1. k - 1 \in Nat /\ (k - 1) + 1 = k /\ k \in 0 .. n
    OBVIOUS
  <2>2. PICK x \in Nat : x = 2 ^ (k - 1)
    BY <1>2
  <2>3. 2 ^ k = 2 * x
    BY <2>1, <2>2, PowerDoubles
  <2>4. x # 0 /\ k - 1 < x
    BY <1>2, <2>2
  <2>. QED  BY <2>1, <2>3, <2>4
<1>3. n \in G
  <2>. HIDE DEF G
  <2>1. 0 .. n \subseteq G
    BY <1>1, <1>2, AllNumbers
  <2>. QED  BY <2>1
<1>. QED  BY <1>3

(* Exponents add up.                                                       *)
LEMMA PowerAdds ==
  ASSUME NEW a \in Nat, NEW b \in Nat
  PROVE  2 ^ (a + b) = 2 ^ a * 2 ^ b
<1>. DEFINE G == {k \in 0 .. b : 2 ^ (a + k) = 2 ^ a * 2 ^ k}
<1>1. PICK p \in Nat : p = 2 ^ a
  BY PowerPositive
<1>2. 0 \in G
  <2>1. a + 0 = a /\ p * 1 = p
    OBVIOUS
  <2>. QED  BY <1>1, <2>1, PowerOne
<1>3. ASSUME NEW k \in 1 .. b, k - 1 \in G PROVE k \in G
  <2>1. k - 1 \in Nat /\ (k - 1) + 1 = k /\ a + (k - 1) \in Nat /\ (a + (k - 1)) + 1 = a + k /\ k \in 0 .. b
    OBVIOUS
  <2>2. PICK x \in Nat : x = 2 ^ (k - 1)
    BY <2>1, PowerPositive
  <2>3. 2 ^ k = 2 * x
    BY <2>1, <2>2, PowerDoubles
  <2>4. 2 ^ (a + k) = 2 * 2 ^ (a + (k - 1))
    BY <2>1, PowerDoubles
  <2>5. 2 ^ (a + (k - 1)) = p * x
    BY <1>1, <1>3, <2>2
  <2>6. 2 * (p * x) = p * (2 * x)
    OBVIOUS
  <2>. QED  BY <1>1, <2>1, <2>3, <2>4, <2>5, <2>6
<1>4. b \in G
  <2>. HIDE DEF G
  <2>1. 0 .. b \subseteq G
    BY <1>2, <1>3, AllNumbers
  <2>. QED  BY <2>1
<1>. QED  BY <1>4

(* Powers of two exceed their exponents.                                   *)
LEMMA PowerGrows ==
  ASSUME NEW a \in Nat, NEW b \in Nat, a <= b
  PROVE  2 ^ a <= 2 ^ b
<1>1. b - a \in Nat /\ a + (b - a) = b
  OBVIOUS
<1>2. PICK p \in Nat : p = 2 ^ a
  BY PowerPositive
<1>3. PICK x \in Nat \ {0} : x = 2 ^ (b - a)
  BY <1>1, PowerPositive
<1>4. 2 ^ b = p * x
  BY <1>1, <1>2, <1>3, PowerAdds
<1>5. p <= p * x
  <2>1. PICK y \in Nat : x = y + 1
    <3>1. x - 1 \in Nat /\ x = (x - 1) + 1
      OBVIOUS
    <3>. QED  BY <3>1
  <2>2. p * x = p * y + p /\ p * y \in Nat
    BY <2>1
  <2>. QED  BY <2>2
<1>. QED  BY <1>2, <1>4, <1>5

(* The digits of a number: what p leaves, and what the next b adds.        *)
LEMMA DigitSplit ==
  ASSUME NEW a \in Nat, NEW p \in Nat \ {0}, NEW b \in Nat \ {0}
  PROVE  /\ a % (p * b) = (a % p) + ((a \div p) % b) * p
         /\ a % p \in Nat /\ (a \div p) % b \in 0 .. b - 1
<1>. DEFINE q == a \div p
            r == a % p
            d == q % b
            u == q \div b
<1>1. q \in Nat /\ r \in 0 .. p - 1 /\ a = p * q + r
  BY Divided
<1>. HIDE DEF q, r
<1>2. u \in Nat /\ d \in 0 .. b - 1 /\ q = b * u + d
  BY <1>1, Divided
<1>. HIDE DEF u, d
<1>3. p * b \in Nat \ {0} /\ d * p + r \in 0 .. p * b - 1
  <2>1. PICK e \in Nat : b = d + 1 + e
    <3>1. b - d - 1 \in Nat /\ b = d + 1 + (b - d - 1)
      BY <1>2
    <3>. QED  BY <3>1
  <2>2. p * b = d * p + p + e * p /\ d * p \in Nat /\ e * p \in Nat
    BY <1>2, <2>1
  <2>. QED  BY <1>1, <2>2
<1>4. a = (p * b) * u + (d * p + r)
  <2>1. p * (b * u + d) = (p * b) * u + d * p
    BY <1>2
  <2>. QED  BY <1>1, <1>2, <2>1
<1>5. a % (p * b) = d * p + r
  <2>1. PICK c \in Nat \ {0} : c = p * b
    BY <1>3
  <2>2. PICK s \in 0 .. c - 1 : s = d * p + r
    BY <1>3, <2>1
  <2>3. a = c * u + s
    BY <1>4, <2>1, <2>2
  <2>4. (c * u + s) % c = s
    BY <1>2, Remainder
  <2>. QED  BY <2>1, <2>2, <2>3, <2>4
<1>6. d * p \in Nat /\ r \in Nat /\ d * p + r = r + d * p
  BY <1>1, <1>2
<1>. QED  BY <1>1, <1>2, <1>5, <1>6 DEF q, r, d

(* A number below 2 ^ (s + g): its first s + g bits are its first s bits   *)
(* and the next g.                                                         *)
LEMMA NextDigit ==
  ASSUME NEW a \in Nat, NEW s \in Nat, NEW g \in Nat
  PROVE  /\ a % 2 ^ (s + g) = (a % 2 ^ s) + ((a \div 2 ^ s) % 2 ^ g) * 2 ^ s
         /\ a % 2 ^ s \in Nat /\ (a \div 2 ^ s) % 2 ^ g \in 0 .. 2 ^ g - 1
         /\ a % 2 ^ s <= a /\ (a < 2 ^ s => a % 2 ^ s = a)
<1>1. PICK p \in Nat \ {0} : p = 2 ^ s
  BY PowerPositive
<1>2. PICK b \in Nat \ {0} : b = 2 ^ g
  BY PowerPositive
<1>3. 2 ^ (s + g) = p * b
  BY <1>1, <1>2, PowerAdds
<1>4. /\ a % (p * b) = (a % p) + ((a \div p) % b) * p
      /\ a % p \in Nat /\ (a \div p) % b \in 0 .. b - 1
  BY DigitSplit
<1>5. a % p <= a /\ (a < p => a % p = a)
  <2>1. PICK q \in Nat : q = a \div p
    BY Divided
  <2>2. PICK r \in 0 .. p - 1 : r = a % p
    BY Divided
  <2>3. a = p * q + r
    BY <2>1, <2>2, Divided
  <2>4. p * q \in Nat /\ (q # 0 => p * q >= p)
    <3>1. ASSUME q # 0 PROVE p * q >= p
      <4>1. q - 1 \in Nat /\ q = (q - 1) + 1
        BY <3>1
      <4>2. p * q = p * (q - 1) + p /\ p * (q - 1) \in Nat
        BY <4>1
      <4>. QED  BY <4>2
    <3>. QED  BY <3>1
  <2>5. q = 0 => p * q = 0
    OBVIOUS
  <2>6. PICK y \in Nat : y = p * q
    BY <2>4
  <2>. QED  BY <2>2, <2>3, <2>4, <2>5, <2>6
<1>. QED  BY <1>1, <1>2, <1>3, <1>4, <1>5

-----------------------------------------------------------------------------
(* What the codecs' loops have made of the first k elements: sums, decoded *)
(* ids, and what is read of bytes.                                         *)
IsSum(s, f) ==
  /\ f \in [0 .. Len(s) -> Nat] /\ f[0] = 0
  /\ \A k \in 1 .. Len(s) : f[k] = f[k - 1] + s[k]

Total(s) == FoldLeft(+, 0, s)

Decoded == [ok : BOOLEAN, ids : Seq(Nat)]

IsDecoding(s, f) ==
  /\ f \in [0 .. Len(s) -> Decoded] /\ f[0] = [ok |-> TRUE, ids |-> <<>>]
  /\ \A k \in 1 .. Len(s) : f[k] = AddDelta(f[k - 1], s[k])

Reading == [ok : BOOLEAN, value : Nat, shift : Nat, deltas : Seq(Nat)]

IsReading(s, f) ==
  /\ f \in [0 .. Len(s) -> Reading] /\ f[0] = Fresh
  /\ \A k \in 1 .. Len(s) : f[k] = ReadByte(f[k - 1], s[k])

(* The widths, and the largest word, as numbers.                           *)
LEMMA WidthsOK ==
  /\ WordBits \in Nat \ {0} /\ GroupBits \in Nat \ {0} /\ UnitBits \in Nat \ {0} /\ Lanes \in Nat \ {0}
  /\ BlockSizes \subseteq Nat \ {0} /\ WordBits = 4 * UnitBits /\ GroupBits < WordBits
  /\ 2 ^ WordBits \in Nat \ {0} /\ 2 ^ GroupBits \in Nat \ {0} /\ MaxWord \in Nat /\ MaxWord + 1 = 2 ^ WordBits
<1>1. /\ WordBits \in Nat \ {0} /\ GroupBits \in Nat \ {0} /\ UnitBits \in Nat \ {0} /\ Lanes \in Nat \ {0}
      /\ BlockSizes \subseteq Nat \ {0} /\ WordBits = 4 * UnitBits /\ GroupBits < WordBits
  BY CodecConstants
<1>2. PICK p \in Nat \ {0} : p = 2 ^ WordBits
  BY <1>1, PowerPositive
<1>3. 2 ^ GroupBits \in Nat \ {0}
  BY <1>1, PowerPositive
<1>4. MaxWord \in Nat /\ MaxWord + 1 = 2 ^ WordBits
  BY <1>2 DEF MaxWord
<1>. QED  BY <1>1, <1>2, <1>3, <1>4

(* A step of delta decoding stays among decoded lists.                     *)
LEMMA AddDeltaTyped ==
  ASSUME NEW out \in Decoded, NEW delta \in Nat
  PROVE  AddDelta(out, delta) \in Decoded
<1>. DEFINE value == IF out.ids = <<>> THEN 0 ELSE Last(out.ids)
<1>1. out.ids \in Seq(Nat) /\ out.ok \in BOOLEAN
  BY DEF Decoded
<1>2. value \in Nat
  <2>1. PICK s \in Seq(Nat) : s = out.ids
    BY <1>1
  <2>2. CASE s = <<>>
    BY <2>1, <2>2
  <2>3. CASE s # <<>>
    <3>1. Len(s) \in 1 .. Len(s)
      BY <2>3, EmptySeq
    <3>. QED  BY <2>1, <3>1 DEF Last
  <2>. QED  BY <2>2, <2>3
<1>3. Append(out.ids, value + delta) \in Seq(Nat)
  BY <1>1, <1>2
<1>. DEFINE added == [out EXCEPT !.ids = Append(@, value + delta)]
<1>4. added \in Decoded
  <2>. HIDE DEF value
  <2>. QED  BY <1>3 DEF Decoded
<1>5. Rejected \in Decoded
  BY DEF Rejected, Decoded
<1>6. AddDelta(out, delta) = IF ~out.ok \/ delta > MaxWord - value THEN Rejected ELSE added
  BY DEF AddDelta
<1>. HIDE DEF added, value
<1>. QED  BY <1>4, <1>5, <1>6

(* A step of reading stays among readings.                                 *)
LEMMA ReadByteTyped ==
  ASSUME NEW in \in Reading, NEW byte \in Nat
  PROVE  ReadByte(in, byte) \in Reading
<1>. DEFINE value == (in.value + (byte % (2 ^ GroupBits)) * (2 ^ in.shift)) % (2 ^ WordBits)
            shift == in.shift + GroupBits
<1>1. in.ok \in BOOLEAN /\ in.value \in Nat /\ in.shift \in Nat /\ in.deltas \in Seq(Nat)
  BY DEF Reading
<1>2. value \in Nat /\ shift \in Nat
  <2>1. PICK w \in Nat \ {0} : w = 2 ^ WordBits
    BY WidthsOK
  <2>2. PICK g \in Nat \ {0} : g = 2 ^ GroupBits
    BY WidthsOK
  <2>3. PICK p \in Nat : p = 2 ^ in.shift
    BY <1>1, PowerPositive
  <2>4. PICK d \in Nat : d = byte % g
    BY Divided
  <2>5. PICK v \in Nat : v = in.value
    BY <1>1
  <2>6. (v + d * p) % w \in Nat
    BY Divided
  <2>7. value = (v + d * p) % w
    BY <2>1, <2>2, <2>3, <2>4, <2>5
  <2>8. shift \in Nat
    BY <1>1, WidthsOK
  <2>. QED  BY <2>6, <2>7, <2>8
<1>. DEFINE ended == [Fresh EXCEPT !.deltas = Append(in.deltas, value)]
            more == [ok |-> shift < WordBits, value |-> value, shift |-> shift, deltas |-> in.deltas]
<1>3. ReadByte(in, byte) = CASE ~in.ok -> in [] byte < 2 ^ GroupBits -> ended [] OTHER -> more
  BY DEF ReadByte
<1>. HIDE DEF value, shift
<1>4. ended \in Reading
  <2>1. Append(in.deltas, value) \in Seq(Nat)
    BY <1>1, <1>2
  <2>. QED  BY <2>1 DEF Fresh, Reading
<1>5. more \in Reading
  BY <1>1, <1>2 DEF Reading
<1>. HIDE DEF ended, more
<1>. QED  BY <1>3, <1>4, <1>5

(* A sum, delta decoding and the reading of bytes have runs.               *)
LEMMA SumRuns ==
  ASSUME NEW s \in Seq(Nat)
  PROVE  \E f : IsSum(s, f) /\ f[Len(s)] = Total(s)
<1>. DEFINE n == Len(s)
            Step(k, a) == a + s[k]
            D == Nat
            base == 0
<1>1. n \in Nat /\ DOMAIN s = 1 .. n /\ \A k \in 1 .. n : s[k] \in Nat
  OBVIOUS
<1>2. ASSUME NEW k \in 1 .. n, NEW a \in D PROVE Step(k, a) \in D
  <2>1. s[k] \in Nat
    BY <1>1
  <2>. QED  BY <2>1
<1>3. base \in D
  OBVIOUS
<1>. HIDE DEF n, Step, D
<1>. DEFINE step == [p \in (1 .. n) \X D |-> Step(p[1], p[2])]
<1>4. IsStep(step, n, D)
  BY <1>2 DEF IsStep
<1>5. PICK iter : Iterates(iter, n, D, base, step)
  <2>. HIDE DEF step, base
  <2>. QED  BY <1>1, <1>3, <1>4, IterationExists
<1>6. \A T \in SUBSET (1 .. n) : T # {} => Max(T) \in T
  BY <1>1, MaxIn
<1>7. iter = [T \in SUBSET (1 .. n) |-> IF T = {} THEN base ELSE Step(Max(T), iter[T \ {Max(T)}])]
  <2>1. ASSUME NEW T \in SUBSET (1 .. n), T # {}
        PROVE  step[<<Max(T), iter[T \ {Max(T)}]>>] = Step(Max(T), iter[T \ {Max(T)}])
    BY <1>5, <1>6, <2>1 DEF Iterates
  <2>. HIDE DEF step, base
  <2>. QED  BY <1>5, <2>1 DEF Iterates
<1>. DEFINE it == CHOOSE h : h = [T \in SUBSET (1 .. n) |-> IF T = {} THEN base ELSE Step(Max(T), h[T \ {Max(T)}])]
<1>8. it = [T \in SUBSET (1 .. n) |-> IF T = {} THEN base ELSE Step(Max(T), it[T \ {Max(T)}])]
  <2>. HIDE DEF base
  <2>. QED  BY <1>7
<1>9. Total(s) = it[1 .. n]
  BY <1>1 DEF Total, FoldLeft, MapThenFoldSet, Step
<1>. HIDE DEF it, base
<1>10. Unfolds(it, n, D, base, step)
  <2>1. it[{}] = base
    BY <1>8
  <2>2. ASSUME NEW T \in SUBSET (1 .. n), T # {}, it[T \ {Max(T)}] \in D
        PROVE  it[T] = step[<<Max(T), it[T \ {Max(T)}]>>]
    <3>1. it[T] = Step(Max(T), it[T \ {Max(T)}])
      BY <1>8, <2>2
    <3>. QED  BY <1>6, <2>2, <3>1
  <2>. HIDE DEF step
  <2>. QED  BY <2>1, <2>2 DEF Unfolds
<1>11. PICK f : IsRun(f, n, D, base, step) /\ f[n] = it[1 .. n]
  <2>. HIDE DEF step
  <2>. QED  BY <1>1, <1>3, <1>4, <1>10, FoldRuns
<1>12. ASSUME NEW k \in 1 .. n PROVE f[k] = Step(k, f[k - 1])
  <2>1. k - 1 \in 0 .. n
    BY <1>1
  <2>2. f[k - 1] \in D /\ f[k] = step[<<k, f[k - 1]>>]
    BY <1>11, <2>1 DEF IsRun
  <2>. QED  BY <2>2
<1>. QED  BY <1>9, <1>11, <1>12 DEF IsSum, IsRun, n, Step, D, base

LEMMA DecodingRuns ==
  ASSUME NEW s \in Seq(Nat)
  PROVE  \E f : IsDecoding(s, f) /\ f[Len(s)] = DeltaDecode(s)
<1>. DEFINE n == Len(s)
            Step(k, a) == AddDelta(a, s[k])
            D == Decoded
            base == [ok |-> TRUE, ids |-> <<>>]
<1>1. n \in Nat /\ DOMAIN s = 1 .. n /\ \A k \in 1 .. n : s[k] \in Nat
  OBVIOUS
<1>2. ASSUME NEW k \in 1 .. n, NEW a \in D PROVE Step(k, a) \in D
  <2>1. s[k] \in Nat
    BY <1>1
  <2>. QED  BY <2>1, AddDeltaTyped
<1>3. base \in D
  BY DEF Decoded
<1>. HIDE DEF n, Step, D
<1>. DEFINE step == [p \in (1 .. n) \X D |-> Step(p[1], p[2])]
<1>4. IsStep(step, n, D)
  BY <1>2 DEF IsStep
<1>5. PICK iter : Iterates(iter, n, D, base, step)
  <2>. HIDE DEF step, base
  <2>. QED  BY <1>1, <1>3, <1>4, IterationExists
<1>6. \A T \in SUBSET (1 .. n) : T # {} => Max(T) \in T
  BY <1>1, MaxIn
<1>7. iter = [T \in SUBSET (1 .. n) |-> IF T = {} THEN base ELSE Step(Max(T), iter[T \ {Max(T)}])]
  <2>1. ASSUME NEW T \in SUBSET (1 .. n), T # {}
        PROVE  step[<<Max(T), iter[T \ {Max(T)}]>>] = Step(Max(T), iter[T \ {Max(T)}])
    BY <1>5, <1>6, <2>1 DEF Iterates
  <2>. HIDE DEF step, base
  <2>. QED  BY <1>5, <2>1 DEF Iterates
<1>. DEFINE it == CHOOSE h : h = [T \in SUBSET (1 .. n) |-> IF T = {} THEN base ELSE Step(Max(T), h[T \ {Max(T)}])]
<1>8. it = [T \in SUBSET (1 .. n) |-> IF T = {} THEN base ELSE Step(Max(T), it[T \ {Max(T)}])]
  <2>. HIDE DEF base
  <2>. QED  BY <1>7
<1>9. DeltaDecode(s) = it[1 .. n]
  BY <1>1 DEF DeltaDecode, FoldLeft, MapThenFoldSet, Step
<1>. HIDE DEF it, base
<1>10. Unfolds(it, n, D, base, step)
  <2>1. it[{}] = base
    BY <1>8
  <2>2. ASSUME NEW T \in SUBSET (1 .. n), T # {}, it[T \ {Max(T)}] \in D
        PROVE  it[T] = step[<<Max(T), it[T \ {Max(T)}]>>]
    <3>1. it[T] = Step(Max(T), it[T \ {Max(T)}])
      BY <1>8, <2>2
    <3>. QED  BY <1>6, <2>2, <3>1
  <2>. HIDE DEF step
  <2>. QED  BY <2>1, <2>2 DEF Unfolds
<1>11. PICK f : IsRun(f, n, D, base, step) /\ f[n] = it[1 .. n]
  <2>. HIDE DEF step
  <2>. QED  BY <1>1, <1>3, <1>4, <1>10, FoldRuns
<1>12. ASSUME NEW k \in 1 .. n PROVE f[k] = Step(k, f[k - 1])
  <2>1. k - 1 \in 0 .. n
    BY <1>1
  <2>2. f[k - 1] \in D /\ f[k] = step[<<k, f[k - 1]>>]
    BY <1>11, <2>1 DEF IsRun
  <2>. QED  BY <2>2
<1>. QED  BY <1>9, <1>11, <1>12 DEF IsDecoding, IsRun, n, Step, D, base

LEMMA ReadingRuns ==
  ASSUME NEW s \in Seq(Nat)
  PROVE  \E f : IsReading(s, f) /\ f[Len(s)] = FoldLeft(ReadByte, Fresh, s)
<1>. DEFINE n == Len(s)
            Step(k, a) == ReadByte(a, s[k])
            D == Reading
            base == Fresh
<1>1. n \in Nat /\ DOMAIN s = 1 .. n /\ \A k \in 1 .. n : s[k] \in Nat
  OBVIOUS
<1>2. ASSUME NEW k \in 1 .. n, NEW a \in D PROVE Step(k, a) \in D
  <2>1. s[k] \in Nat
    BY <1>1
  <2>. QED  BY <2>1, ReadByteTyped
<1>3. base \in D
  BY DEF Reading, Fresh
<1>. HIDE DEF n, Step, D
<1>. DEFINE step == [p \in (1 .. n) \X D |-> Step(p[1], p[2])]
<1>4. IsStep(step, n, D)
  BY <1>2 DEF IsStep
<1>5. PICK iter : Iterates(iter, n, D, base, step)
  <2>. HIDE DEF step, base
  <2>. QED  BY <1>1, <1>3, <1>4, IterationExists
<1>6. \A T \in SUBSET (1 .. n) : T # {} => Max(T) \in T
  BY <1>1, MaxIn
<1>7. iter = [T \in SUBSET (1 .. n) |-> IF T = {} THEN base ELSE Step(Max(T), iter[T \ {Max(T)}])]
  <2>1. ASSUME NEW T \in SUBSET (1 .. n), T # {}
        PROVE  step[<<Max(T), iter[T \ {Max(T)}]>>] = Step(Max(T), iter[T \ {Max(T)}])
    BY <1>5, <1>6, <2>1 DEF Iterates
  <2>. HIDE DEF step, base
  <2>. QED  BY <1>5, <2>1 DEF Iterates
<1>. DEFINE it == CHOOSE h : h = [T \in SUBSET (1 .. n) |-> IF T = {} THEN base ELSE Step(Max(T), h[T \ {Max(T)}])]
<1>8. it = [T \in SUBSET (1 .. n) |-> IF T = {} THEN base ELSE Step(Max(T), it[T \ {Max(T)}])]
  <2>. HIDE DEF base
  <2>. QED  BY <1>7
<1>9. FoldLeft(ReadByte, Fresh, s) = it[1 .. n]
  BY <1>1 DEF FoldLeft, MapThenFoldSet, Step
<1>. HIDE DEF it, base
<1>10. Unfolds(it, n, D, base, step)
  <2>1. it[{}] = base
    BY <1>8
  <2>2. ASSUME NEW T \in SUBSET (1 .. n), T # {}, it[T \ {Max(T)}] \in D
        PROVE  it[T] = step[<<Max(T), it[T \ {Max(T)}]>>]
    <3>1. it[T] = Step(Max(T), it[T \ {Max(T)}])
      BY <1>8, <2>2
    <3>. QED  BY <1>6, <2>2, <3>1
  <2>. HIDE DEF step
  <2>. QED  BY <2>1, <2>2 DEF Unfolds
<1>11. PICK f : IsRun(f, n, D, base, step) /\ f[n] = it[1 .. n]
  <2>. HIDE DEF step
  <2>. QED  BY <1>1, <1>3, <1>4, <1>10, FoldRuns
<1>12. ASSUME NEW k \in 1 .. n PROVE f[k] = Step(k, f[k - 1])
  <2>1. k - 1 \in 0 .. n
    BY <1>1
  <2>2. f[k - 1] \in D /\ f[k] = step[<<k, f[k - 1]>>]
    BY <1>11, <2>1 DEF IsRun
  <2>. QED  BY <2>2
<1>. QED  BY <1>9, <1>11, <1>12 DEF IsReading, IsRun, n, Step, D, base

-----------------------------------------------------------------------------
(* Sums of lengths, and slices of concatenations.                          *)

Begins(t, s) == Len(t) <= Len(s) /\ \A i \in 1 .. Len(t) : t[i] = s[i]

(* A sum of fewer elements agrees with a sum of more.                      *)
LEMMA SumsAgree ==
  ASSUME NEW s \in Seq(Nat), NEW f, IsSum(s, f), NEW t \in Seq(Nat), NEW g, IsSum(t, g),
         Begins(t, s)
  PROVE  \A i \in 0 .. Len(t) : g[i] = f[i]
<1>1. PICK n \in Nat : n = Len(s)
  OBVIOUS
<1>2. PICK m \in Nat : m = Len(t) /\ m <= n /\ \A i \in 1 .. m : t[i] = s[i]
  BY <1>1 DEF Begins
<1>. DEFINE G == {i \in 0 .. m : g[i] = f[i]}
<1>3. 0 \in G
  BY DEF IsSum
<1>4. ASSUME NEW i \in 1 .. m, i - 1 \in G PROVE i \in G
  <2>1. i \in 1 .. n /\ i \in 0 .. m
    BY <1>1, <1>2
  <2>2. g[i] = g[i - 1] + t[i] /\ f[i] = f[i - 1] + s[i]
    BY <1>1, <1>2, <2>1 DEF IsSum
  <2>3. t[i] = s[i]
    BY <1>2
  <2>. QED  BY <1>4, <2>1, <2>2, <2>3
<1>5. 0 .. m \subseteq G
  <2>. HIDE DEF G
  <2>. QED  BY <1>3, <1>4, AllNumbers
<1>. QED  BY <1>2, <1>5

(* A sum over the first elements depends on these only.                    *)
LEMMA SumOf ==
  ASSUME NEW s \in Seq(Nat), NEW f, IsSum(s, f), NEW t \in Seq(Nat),
         Begins(t, s)
  PROVE  Total(t) = f[Len(t)]
<1>1. PICK g : IsSum(t, g) /\ g[Len(t)] = Total(t)
  BY SumRuns
<1>2. \A i \in 0 .. Len(t) : g[i] = f[i]
  BY <1>1, SumsAgree
<1>3. Len(t) \in 0 .. Len(t)
  OBVIOUS
<1>. QED  BY <1>1, <1>2, <1>3

(* So the offsets are the sums.                                            *)
LEMMA PrefixSum ==
  ASSUME NEW s \in Seq(Nat), NEW f, IsSum(s, f), NEW j \in Nat, j <= Len(s)
  PROVE  Total(SubSeq(s, 1, j)) = f[j]
<1>. DEFINE t == SubSeq(s, 1, j)
<1>1. t \in Seq(Nat) /\ Len(t) = j /\ \A i \in 1 .. j : t[i] = s[i]
  <2>1. Len(s) \in Nat /\ 1 \in Int /\ j \in Int /\ \A i \in 1 .. j : s[i] \in Nat
    OBVIOUS
  <2>2. /\ t \in Seq(Nat)
        /\ Len(t) = IF 1 <= j THEN j - 1 + 1 ELSE 0
        /\ \A i \in 1 .. j - 1 + 1 : t[i] = s[1 + i - 1]
    BY <2>1, SubSeqProperties
  <2>3. j - 1 + 1 = j /\ (~(1 <= j) => j = 0) /\ \A i \in 1 .. j : 1 + i - 1 = i
    OBVIOUS
  <2>. HIDE DEF t
  <2>. QED  BY <2>2, <2>3
<1>. HIDE DEF t
<1>2. Begins(t, s)
  BY <1>1 DEF Begins
<1>3. Total(t) = f[Len(t)]
  BY <1>1, <1>2, SumOf
<1>. QED  BY <1>1, <1>3 DEF t

(* Offsets returns the sums before each element.                           *)
LEMMA OffsetsAre ==
  ASSUME NEW s \in Seq(Nat), NEW f, IsSum(s, f)
  PROVE  Offsets(s) = [k \in 1 .. Len(s) + 1 |-> f[k - 1]]
<1>1. ASSUME NEW k \in 1 .. Len(s) + 1 PROVE Total(SubSeq(s, 1, k - 1)) = f[k - 1]
  <2>1. k - 1 \in Nat /\ k - 1 <= Len(s)
    OBVIOUS
  <2>. QED  BY <2>1, PrefixSum
<1>. DEFINE S(k) == Total(SubSeq(s, 1, k - 1))
<1>2. Offsets(s) = [k \in 1 .. Len(s) + 1 |-> S(k)]
  BY Zenon DEF Offsets, Total
<1>3. \A k \in 1 .. Len(s) + 1 : S(k) = f[k - 1]
  BY <1>1
<1>. HIDE DEF S
<1>. QED  BY <1>2, <1>3

(* What a slice holds.                                                     *)
LEMMA SliceOK ==
  ASSUME NEW E, NEW s \in Seq(E), NEW i \in Nat, NEW j \in Nat, i <= j, j <= Len(s)
  PROVE  /\ SubSeq(s, i + 1, j) \in Seq(E) /\ Len(SubSeq(s, i + 1, j)) = j - i
         /\ \A k \in 1 .. j - i : SubSeq(s, i + 1, j)[k] = s[i + k]
<1>1. Len(s) \in Nat /\ i + 1 \in Int /\ j \in Int /\ \A k \in i + 1 .. j : s[k] \in E
  OBVIOUS
<1>2. /\ SubSeq(s, i + 1, j) \in Seq(E)
      /\ Len(SubSeq(s, i + 1, j)) = IF i + 1 <= j THEN j - (i + 1) + 1 ELSE 0
      /\ \A k \in 1 .. j - (i + 1) + 1 : SubSeq(s, i + 1, j)[k] = s[i + 1 + k - 1]
  BY <1>1, SubSeqProperties
<1>3. /\ j - (i + 1) + 1 = j - i /\ (~(i + 1 <= j) => j - i = 0)
      /\ \A k \in 1 .. j - i : i + 1 + k - 1 = i + k
  OBVIOUS
<1>. QED  BY <1>2, <1>3

(* What a concatenation holds of each sequence.                            *)
LEMMA FlatSlice ==
  ASSUME NEW E, NEW seqs \in Seq(Seq(E)), NEW f, IsFlat(f, seqs, E), NEW b \in 1 .. Len(seqs)
  PROVE  SubSeq(f[Len(seqs)], Len(f[b - 1]) + 1, Len(f[b])) = seqs[b]
<1>1. PICK n \in Nat : n = Len(seqs)
  OBVIOUS
<1>2. b \in 1 .. n /\ b - 1 \in 0 .. n /\ b \in 0 .. n /\ n \in b .. n /\ b \in b - 1 .. n /\ n \in 0 .. n
  BY <1>1
<1>3. PICK s \in Seq(E) : s = f[n]
  BY <1>1, <1>2 DEF IsFlat
<1>4. PICK u \in Seq(E) : u = seqs[b]
  BY <1>1, <1>2
<1>5. f[b - 1] \in Seq(E) /\ f[b] = f[b - 1] \o seqs[b]
  BY <1>1, <1>2 DEF IsFlat
<1>6. PICK i \in Nat : i = Len(f[b - 1])
  BY <1>5
<1>7. Len(f[b]) = i + Len(u) /\ Len(u) \in Nat
  BY <1>4, <1>5, <1>6, ConcatProperties
<1>8. Len(f[b]) <= Len(s) /\ \A k \in 1 .. Len(u) : s[i + k] = u[k]
  <2>1. \A k \in Nat : k \in 1 .. Len(seqs[b]) => f[Len(seqs)][Len(f[b - 1]) + k] = seqs[b][k]
    BY FlatAt
  <2>2. Len(f[b]) <= Len(f[n])
    BY <1>1, <1>2, FlatAt
  <2>3. ASSUME NEW k \in 1 .. Len(u) PROVE s[i + k] = u[k]
    <3>1. k \in Nat /\ k \in 1 .. Len(seqs[b])
      BY <1>4
    <3>. QED  BY <1>1, <1>3, <1>4, <1>6, <2>1, <3>1
  <2>. QED  BY <1>3, <2>2, <2>3
<1>. DEFINE t == SubSeq(s, i + 1, i + Len(u))
<1>9. t \in Seq(E) /\ Len(t) = Len(u) /\ \A k \in 1 .. Len(u) : t[k] = s[i + k]
  <2>1. PICK j \in Nat : j = i + Len(u)
    BY <1>7
  <2>2. i <= j /\ j <= Len(s) /\ j - i = Len(u)
    BY <1>7, <1>8, <2>1
  <2>3. t = SubSeq(s, i + 1, j)
    BY <2>1
  <2>. HIDE DEF t
  <2>. QED  BY <2>2, <2>3, SliceOK
<1>10. t = u
  <2>. HIDE DEF t
  <2>. QED  BY <1>8, <1>9, SeqEqual
<1>. QED  BY <1>1, <1>3, <1>4, <1>6, <1>7, <1>10

(* Where a concatenation holds the k-th sequence.                          *)
Situated(seqs, f, k) ==
  /\ Len(f[k - 1]) \in Nat /\ Len(f[k]) \in Nat
  /\ Len(seqs[k]) \in Nat /\ Len(f[k]) = Len(f[k - 1]) + Len(seqs[k])
  /\ Len(f[k]) <= Len(FlattenSeq(seqs))
  /\ \A j \in 1 .. Len(seqs[k]) : FlattenSeq(seqs)[Len(f[k - 1]) + j] = seqs[k][j]

(* The k-th sequence follows the ones before it.                           *)
LEMMA FlatPlaces ==
  ASSUME NEW E, NEW seqs \in Seq(Seq(E)), NEW f, IsFlat(f, seqs, E), NEW k \in 1 .. Len(seqs)
  PROVE  Situated(seqs, f, k)
<1>1. PICK n \in Nat : n = Len(seqs)
  OBVIOUS
<1>2. k \in 1 .. n /\ k - 1 \in 0 .. n /\ k \in 0 .. n /\ n \in k .. n
  BY <1>1
<1>10. f \in [0 .. n -> Seq(E)] /\ \A j \in 1 .. n : f[j] = f[j - 1] \o seqs[j]
  BY <1>1 DEF IsFlat
<1>11. PICK x \in Seq(E) : x = f[k - 1]
  BY <1>2, <1>10
<1>12. PICK y \in Seq(E) : y = f[k]
  BY <1>2, <1>10
<1>13. PICK z \in Seq(E) : z = seqs[k]
  BY <1>1, <1>2
<1>3. y = x \o z
  BY <1>2, <1>10, <1>11, <1>12, <1>13
<1>4. Len(x) \in Nat /\ Len(y) \in Nat /\ Len(z) \in Nat /\ Len(y) = Len(x) + Len(z)
  BY <1>3, ConcatProperties
<1>6. FlattenSeq(seqs) = f[n]
  BY <1>1, FlattenRuns
<1>7. Len(f[k]) <= Len(f[n])
  BY <1>1, <1>2, FlatAt
<1>8. \A j \in Nat : j \in 1 .. Len(seqs[k]) => f[Len(seqs)][Len(f[k - 1]) + j] = seqs[k][j]
  BY FlatAt
<1>9. \A j \in 1 .. Len(seqs[k]) : f[n][Len(f[k - 1]) + j] = seqs[k][j]
  BY <1>1, <1>8
<1>. QED  BY <1>4, <1>6, <1>7, <1>9, <1>11, <1>12, <1>13 DEF Situated

(* The lengths of a concatenation are the sums of the lengths.             *)
LEMMA FlatSums ==
  ASSUME NEW E, NEW seqs \in Seq(Seq(E)), NEW f, IsFlat(f, seqs, E)
  PROVE  /\ [b \in 1 .. Len(seqs) |-> Len(seqs[b])] \in Seq(Nat)
         /\ Len([b \in 1 .. Len(seqs) |-> Len(seqs[b])]) = Len(seqs)
         /\ IsSum([b \in 1 .. Len(seqs) |-> Len(seqs[b])], [k \in 0 .. Len(seqs) |-> Len(f[k])])
<1>1. PICK n \in Nat : n = Len(seqs)
  OBVIOUS
<1>. DEFINE lens == [b \in 1 .. n |-> Len(seqs[b])]
            g == [k \in 0 .. n |-> Len(f[k])]
<1>2. \A b \in 1 .. n : seqs[b] \in Seq(E) /\ Len(seqs[b]) \in Nat
  BY <1>1
<1>3. lens \in Seq(Nat) /\ Len(lens) = n
  BY <1>2
<1>4. \A k \in 0 .. n : f[k] \in Seq(E) /\ Len(f[k]) \in Nat
  BY <1>1 DEF IsFlat
<1>5. g[0] = 0
  <2>1. f[0] = <<>> /\ 0 \in 0 .. n
    BY DEF IsFlat
  <2>. QED  BY <2>1
<1>6. ASSUME NEW k \in 1 .. n PROVE g[k] = g[k - 1] + lens[k]
  <2>1. k - 1 \in 0 .. n /\ k \in 0 .. n
    OBVIOUS
  <2>2. f[k] = f[k - 1] \o seqs[k]
    BY <1>1 DEF IsFlat
  <2>3. Len(f[k]) = Len(f[k - 1]) + Len(seqs[k])
    BY <1>2, <1>4, <2>1, <2>2, ConcatProperties
  <2>. QED  BY <2>1, <2>3
<1>7. g \in [0 .. n -> Nat]
  BY <1>4
<1>. HIDE DEF g, lens
<1>8. IsSum(lens, g)
  BY <1>3, <1>5, <1>6, <1>7 DEF IsSum
<1>. QED  BY <1>1, <1>3, <1>8 DEF g, lens

(* Adjacent slices of a sequence make up the sequence.                     *)
LEMMA SlicesJoin ==
  ASSUME NEW E, NEW s \in Seq(E), NEW m \in Nat, NEW T \in [0 .. m -> Nat], T[0] = 0,
         \A b \in 1 .. m : T[b - 1] <= T[b] /\ T[b] <= Len(s)
  PROVE  FlattenSeq([b \in 1 .. m |-> SubSeq(s, T[b - 1] + 1, T[b])]) = SubSeq(s, 1, T[m])
<1>. DEFINE seqs == [b \in 1 .. m |-> SubSeq(s, T[b - 1] + 1, T[b])]
<1>1. \A b \in 1 .. m : T[b - 1] \in Nat /\ T[b] \in Nat /\ b - 1 \in 0 .. m /\ b \in 0 .. m
  OBVIOUS
<1>2. ASSUME NEW b \in 1 .. m PROVE seqs[b] \in Seq(E) /\ seqs[b] = SubSeq(s, T[b - 1] + 1, T[b])
  <2>1. SubSeq(s, T[b - 1] + 1, T[b]) \in Seq(E)
    BY <1>1, SliceOK
  <2>. QED  BY <2>1
<1>3. seqs \in Seq(Seq(E)) /\ Len(seqs) = m
  <2>1. seqs \in [1 .. m -> Seq(E)]
    BY <1>2
  <2>. QED  BY <2>1
<1>. HIDE DEF seqs
<1>4. PICK f : IsFlat(f, seqs, E)
  BY <1>3, FlatExists
<1>. DEFINE G == {k \in 0 .. m : f[k] = SubSeq(s, 1, T[k]) /\ T[k] <= Len(s)}
<1>5. Len(s) \in Nat
  OBVIOUS
<1>6. 0 \in G
  <2>1. SubSeq(s, 1, 0) = <<>>
    BY SubSeqEmpty
  <2>. QED  BY <1>4, <1>5, <2>1 DEF IsFlat
<1>7. ASSUME NEW k \in 1 .. m, k - 1 \in G PROVE k \in G
  <2>1. f[k] = f[k - 1] \o seqs[k]
    BY <1>3, <1>4 DEF IsFlat
  <2>2. f[k - 1] = SubSeq(s, 1, T[k - 1])
    BY <1>7
  <2>3. PICK x \in Nat : x = T[k - 1]
    BY <1>1
  <2>4. PICK y \in Nat : y = T[k]
    BY <1>1
  <2>5. x <= y /\ y <= Len(s)
    BY <2>3, <2>4
  <2>6. 1 \in 1 .. Len(s) + 1 /\ x \in 1 - 1 .. Len(s) /\ y \in x .. Len(s)
    BY <1>5, <2>5
  <2>7. SubSeq(s, 1, x) \o SubSeq(s, x + 1, y) = SubSeq(s, 1, y)
    BY <2>6, ConcatAdjacentSubSeq
  <2>. QED  BY <1>1, <1>2, <2>1, <2>2, <2>3, <2>4, <2>5, <2>7
<1>8. m \in G
  <2>. HIDE DEF G
  <2>1. 0 .. m \subseteq G
    BY <1>6, <1>7, AllNumbers
  <2>. QED  BY <2>1
<1>9. FlattenSeq(seqs) = f[m]
  BY <1>3, <1>4, FlattenRuns
<1>. QED  BY <1>8, <1>9 DEF seqs

-----------------------------------------------------------------------------
(* Differences.                                                            *)

(* What a caller encodes. *)
IdList(ids) ==
  /\ ids \in Seq(0 .. MaxWord)
  /\ \A i, j \in 1 .. Len(ids) : i <= j => ids[i] <= ids[j]

Whole(ids) == [ok |-> TRUE, ids |-> ids]

(* The facts about lists that the proofs below cite.                       *)
LEMMA IdsOf ==
  ASSUME NEW ids, IdList(ids)
  PROVE  /\ ids \in Seq(0 .. MaxWord) /\ ids \in Seq(Nat) /\ Len(ids) \in Nat /\ DOMAIN ids = 1 .. Len(ids)
         /\ \A i \in 1 .. Len(ids) : ids[i] \in 0 .. MaxWord /\ ids[i] \in Nat /\ ids[i] <= MaxWord
         /\ \A i, j \in 1 .. Len(ids) : i <= j => ids[i] <= ids[j]
<1>1. ids \in Seq(0 .. MaxWord) /\ \A i, j \in 1 .. Len(ids) : i <= j => ids[i] <= ids[j]
  BY Zenon DEF IdList
<1>2. MaxWord \in Nat
  BY WidthsOK
<1>3. 0 .. MaxWord \subseteq Nat
  OBVIOUS
<1>4. ids \in Seq(0 .. MaxWord)
  BY <1>1, Zenon
<1>5. ids \in Seq(Nat)
  BY <1>3, <1>4, SeqMonotonic
<1>6. Len(ids) \in Nat /\ DOMAIN ids = 1 .. Len(ids)
  BY <1>5
<1>7. \A i \in 1 .. Len(ids) : ids[i] \in 0 .. MaxWord
  BY <1>4, ElementOfSeq
<1>8. \A x \in 0 .. MaxWord : x \in Nat /\ x <= MaxWord
  BY <1>2
<1>. QED  BY <1>1, <1>5, <1>6, <1>7, <1>8, Zenon

(* The first elements. *)
LEMMA FirstOnes ==
  ASSUME NEW E, NEW s \in Seq(E), NEW k \in Nat, k <= Len(s)
  PROVE  /\ SubSeq(s, 1, k) \in Seq(E) /\ Len(SubSeq(s, 1, k)) = k
         /\ \A i \in 1 .. k : SubSeq(s, 1, k)[i] = s[i]
<1>1. 0 + 1 = 1 /\ 0 \in Nat /\ 0 <= k /\ k - 0 = k /\ \A i \in 1 .. k : 0 + i = i
  OBVIOUS
<1>2. /\ SubSeq(s, 0 + 1, k) \in Seq(E) /\ Len(SubSeq(s, 0 + 1, k)) = k - 0
      /\ \A i \in 1 .. k - 0 : SubSeq(s, 0 + 1, k)[i] = s[0 + i]
  BY <1>1, SliceOK
<1>. QED  BY <1>1, <1>2

(* A prefix is the one before it and one more element.                     *)
LEMMA OneMore ==
  ASSUME NEW E, NEW s \in Seq(E), NEW k \in 1 .. Len(s)
  PROVE  SubSeq(s, 1, k) = Append(SubSeq(s, 1, k - 1), s[k])
<1>1. 1 \in 1 .. Len(s) /\ k \in 1 .. Len(s) /\ s[k] \in E /\ k - 1 \in Nat /\ k - 1 <= Len(s)
  OBVIOUS
<1>2. SubSeq(s, 1, k) = SubSeq(s, 1, k - 1) \o <<s[k]>>
  BY <1>1, SubSeqRecursiveSecond
<1>3. SubSeq(s, 1, k - 1) \in Seq(E)
  BY <1>1, FirstOnes
<1>. QED  BY <1>1, <1>2, <1>3, AppendIsConcat

(* Delta decoding adds a delta that stays within the word.                 *)
LEMMA AddOne ==
  ASSUME NEW p \in Seq(Nat), NEW v \in Nat, v = IF p = <<>> THEN 0 ELSE Last(p),
         NEW delta \in Nat, v + delta <= MaxWord
  PROVE  AddDelta(Whole(p), delta) = Whole(Append(p, v + delta))
<1>1. ~(delta > MaxWord - v)
  BY WidthsOK
<1>2. Whole(p).ok = TRUE /\ Whole(p).ids = p /\ Whole(p) = [ok |-> TRUE, ids |-> p]
  BY DEF Whole
<1>3. AddDelta(Whole(p), delta) = [Whole(p) EXCEPT !.ids = Append(@, v + delta)]
  BY <1>1, <1>2 DEF AddDelta
<1>. QED  BY <1>2, <1>3 DEF Whole

(* Differences of an ascending list are words themselves.                  *)
LEMMA DeltasOK ==
  ASSUME NEW ids, IdList(ids)
  PROVE  /\ DeltaEncode(ids) \in Seq(0 .. MaxWord) /\ Len(DeltaEncode(ids)) = Len(ids)
         /\ \A k \in 1 .. Len(ids) :
              /\ k = 1 => DeltaEncode(ids)[k] = ids[k]
              /\ k > 1 => DeltaEncode(ids)[k] = ids[k] - ids[k - 1]
<1>. DEFINE d == DeltaEncode(ids)
<1>1. PICK n \in Nat : n = Len(ids) /\ DOMAIN ids = 1 .. n
  BY IdsOf
<1>2. MaxWord \in Nat
  BY WidthsOK
<1>3. d = [i \in 1 .. n |-> IF i = 1 THEN ids[1] ELSE ids[i] - ids[i - 1]]
  BY <1>1 DEF DeltaEncode
<1>. HIDE DEF d
<1>4. ASSUME NEW i \in 1 .. n
      PROVE  d[i] \in 0 .. MaxWord /\ (i = 1 => d[i] = ids[i]) /\ (i > 1 => d[i] = ids[i] - ids[i - 1])
  <2>1. \A k \in 1 .. n : ids[k] \in 0 .. MaxWord
    BY <1>1, IdsOf
  <2>2. CASE i = 1
    BY <1>3, <2>1, <2>2
  <2>3. CASE i # 1
    <3>1. i - 1 \in 1 .. n /\ i - 1 <= i
      BY <2>3
    <3>2. ids[i - 1] <= ids[i]
      BY <1>1, <3>1, IdsOf
    <3>3. ids[i - 1] \in 0 .. MaxWord /\ ids[i] \in 0 .. MaxWord
      BY <2>1, <3>1
    <3>4. d[i] = ids[i] - ids[i - 1]
      BY <1>3, <2>3
    <3>5. PICK x \in Int : x = ids[i - 1] /\ 0 <= x
      BY <3>3
    <3>6. PICK y \in Int : y = ids[i] /\ y <= MaxWord
      BY <3>3
    <3>7. y - x \in 0 .. MaxWord
      BY <1>2, <3>2, <3>5, <3>6
    <3>. QED  BY <2>3, <3>4, <3>5, <3>6, <3>7
  <2>. QED  BY <2>2, <2>3
<1>5. d \in Seq(0 .. MaxWord) /\ Len(d) = n
  <2>. DEFINE W == 0 .. MaxWord
  <2>1. d \in [1 .. n -> W]
    BY <1>3, <1>4
  <2>. HIDE DEF W
  <2>2. d \in Seq(W) /\ Len(d) = n
    BY <2>1
  <2>. QED  BY <2>2 DEF W
<1>. QED  BY <1>1, <1>4, <1>5 DEF d

(* Adding the differences up gives the ids.                                *)
LEMMA DeltaRoundTrip ==
  ASSUME NEW ids, IdList(ids)
  PROVE  DeltaDecode(DeltaEncode(ids)) = Whole(ids)
<1>1. PICK n \in Nat : n = Len(ids)
  BY IdsOf
<1>0. ids \in Seq(Nat) /\ MaxWord \in Nat /\ \A k \in 1 .. n : ids[k] \in Nat /\ ids[k] <= MaxWord
  BY <1>1, IdsOf, WidthsOK
<1>. DEFINE d == DeltaEncode(ids)
<1>2. /\ d \in Seq(Nat) /\ Len(d) = n
      /\ \A k \in 1 .. n : /\ k = 1 => d[k] = ids[k]
                           /\ k > 1 => d[k] = ids[k] - ids[k - 1]
  <2>1. /\ d \in Seq(0 .. MaxWord) /\ Len(d) = n
        /\ \A k \in 1 .. n : /\ k = 1 => d[k] = ids[k]
                             /\ k > 1 => d[k] = ids[k] - ids[k - 1]
    BY <1>1, DeltasOK
  <2>. HIDE DEF d
  <2>2. 0 .. MaxWord \subseteq Nat
    BY <1>0
  <2>3. d \in Seq(Nat)
    BY <2>1, <2>2, SeqMonotonic
  <2>. QED  BY <2>1, <2>3, Zenon
<1>. HIDE DEF d
<1>3. PICK f : IsDecoding(d, f) /\ f[n] = DeltaDecode(d)
  BY <1>2, DecodingRuns
<1>. DEFINE G == {k \in 0 .. n : f[k] = Whole(SubSeq(ids, 1, k))}
<1>4. 0 \in G
  <2>1. SubSeq(ids, 1, 0) = <<>>
    BY SubSeqEmpty
  <2>2. f[0] = Whole(<<>>)
    BY <1>3 DEF IsDecoding, Whole
  <2>3. 0 \in 0 .. n
    OBVIOUS
  <2>. QED  BY <2>1, <2>2, <2>3, Zenon
<1>5. ASSUME NEW k \in 1 .. n, k - 1 \in G PROVE k \in G
  <2>. DEFINE p == SubSeq(ids, 1, k - 1)
  <2>1. k - 1 \in Nat /\ k - 1 <= Len(ids) /\ k \in 0 .. n
    BY <1>1
  <2>2. p \in Seq(Nat) /\ Len(p) = k - 1 /\ \A i \in 1 .. k - 1 : p[i] = ids[i]
    BY <1>0, <2>1, FirstOnes
  <2>. HIDE DEF p
  <2>3. f[k] = AddDelta(Whole(p), d[k])
    BY <1>2, <1>3, <1>5 DEF IsDecoding, p
  <2>4. ids[k] \in Nat /\ ids[k] <= MaxWord
    BY <1>0
  <2>5. PICK v \in Nat : v = (IF p = <<>> THEN 0 ELSE Last(p)) /\ d[k] \in Nat /\ v + d[k] = ids[k]
    <3>0. d[k] \in Nat
      BY <1>2
    <3>1. CASE k = 1
      <4>1. p = <<>>
        BY <2>2, <3>1, EmptySeq
      <4>2. d[k] = ids[k]
        BY <1>2, <3>1
      <4>. QED  BY <2>4, <3>0, <4>1, <4>2
    <3>2. CASE k # 1
      <4>1. k - 1 \in 1 .. k - 1 /\ k - 1 \in 1 .. n /\ k > 1
        BY <3>2
      <4>2. p # <<>> /\ Last(p) = ids[k - 1]
        BY <2>2, <4>1, EmptySeq DEF Last
      <4>3. d[k] = ids[k] - ids[k - 1]
        BY <1>2, <4>1
      <4>4. PICK x \in Nat : x = ids[k - 1]
        BY <1>0, <4>1
      <4>5. x + d[k] = ids[k]
        BY <2>4, <4>3, <4>4
      <4>. QED  BY <3>0, <4>2, <4>4, <4>5
    <3>. QED  BY <3>1, <3>2
  <2>6. f[k] = Whole(Append(p, ids[k]))
    <3>1. AddDelta(Whole(p), d[k]) = Whole(Append(p, v + d[k]))
      BY <2>2, <2>4, <2>5, AddOne
    <3>. QED  BY <2>3, <2>5, <3>1
  <2>7. SubSeq(ids, 1, k) = Append(p, ids[k])
    BY <1>0, <1>1, OneMore DEF p
  <2>. QED  BY <2>1, <2>6, <2>7
<1>6. n \in G
  <2>. HIDE DEF G
  <2>1. 0 .. n \subseteq G
    BY <1>4, <1>5, AllNumbers
  <2>. QED  BY <2>1
<1>7. SubSeq(ids, 1, n) = ids
  BY <1>0, <1>1, SubSeqFull
<1>. QED  BY <1>3, <1>6, <1>7 DEF d

-----------------------------------------------------------------------------
(* Variable-length bytes.                                                  *)

(* What has been read of v after i of its bytes, before its last one.      *)
Middle(v, i, ds) ==
  [ok |-> TRUE, value |-> v % 2 ^ (GroupBits * i), shift |-> GroupBits * i, deltas |-> ds]

Begun(ds) == [ok |-> TRUE, value |-> 0, shift |-> 0, deltas |-> ds]

(* Before its first byte nothing of a value is read.                       *)
LEMMA MiddleBegins ==
  ASSUME NEW v \in Nat, NEW ds
  PROVE  Middle(v, 0, ds) = Begun(ds)
<1>1. GroupBits * 0 = 0 /\ v % 1 = 0
  BY WidthsOK
<1>2. v % 2 ^ (GroupBits * 0) = 0
  BY <1>1, PowerOne
<1>. QED  BY <1>1, <1>2 DEF Middle, Begun

(* A value has as many bytes as its groups of bits need.                   *)
LEMMA ByteCountOK ==
  ASSUME NEW v \in 0 .. MaxWord
  PROVE  /\ ByteCount(v) \in 1 .. WordBits /\ v < 2 ^ (GroupBits * ByteCount(v))
         /\ GroupBits * (ByteCount(v) - 1) < WordBits
<1>. DEFINE K == {k \in 1 .. WordBits : v < 2 ^ (GroupBits * k)}
            m == ByteCount(v)
<1>1. v \in Nat /\ v < 2 ^ WordBits
  BY WidthsOK
<1>2. WordBits \in K
  <2>1. PICK g \in Nat : GroupBits = g + 1
    <3>1. GroupBits - 1 \in Nat /\ GroupBits = (GroupBits - 1) + 1
      BY WidthsOK
    <3>. QED  BY <3>1
  <2>2. PICK w \in Nat \ {0} : w = WordBits
    BY WidthsOK
  <2>3. (g + 1) * w = g * w + w /\ g * w \in Nat /\ (g + 1) * w \in Nat
    BY <2>1
  <2>4. w <= GroupBits * w /\ GroupBits * w \in Nat
    BY <2>1, <2>3
  <2>5. 2 ^ w <= 2 ^ (GroupBits * w)
    BY <2>4, PowerGrows
  <2>6. PICK x \in Nat : x = 2 ^ w
    BY PowerPositive
  <2>7. PICK y \in Nat : y = 2 ^ (GroupBits * w)
    BY <2>4, PowerPositive
  <2>8. v < y
    BY <1>1, <2>2, <2>5, <2>6, <2>7
  <2>. QED  BY <2>2, <2>7, <2>8
<1>3. m \in K /\ \A k \in K : m <= k
  <2>1. K \in SUBSET Nat
    BY WidthsOK
  <2>2. m = Min(K)
    BY DEF ByteCount
  <2>. HIDE DEF K, m
  <2>. QED  BY <1>2, <2>1, <2>2, LeastOf
<1>. HIDE DEF m
<1>4. m \in 1 .. WordBits /\ v < 2 ^ (GroupBits * m)
  BY <1>3
<1>5. GroupBits * (m - 1) < WordBits
  <2>1. CASE m = 1
    <3>1. GroupBits * (m - 1) = 0
      BY <2>1, WidthsOK
    <3>. QED  BY <3>1, WidthsOK
  <2>2. CASE m # 1
    <3>1. m - 1 \in 1 .. WordBits /\ ~(m <= m - 1)
      BY <1>4, <2>2, WidthsOK
    <3>2. m - 1 \notin K
      BY <1>3, <3>1
    <3>3. ~(v < 2 ^ (GroupBits * (m - 1)))
      BY <3>1, <3>2
    <3>4. PICK s \in Nat : s = GroupBits * (m - 1)
      <4>1. m - 1 \in Nat
        BY <3>1
      <4>2. GroupBits \in Nat
        BY WidthsOK
      <4>3. GroupBits * (m - 1) \in Nat
        BY <4>1, <4>2
      <4>. QED  BY <4>3
    <3>5. ASSUME WordBits <= s PROVE FALSE
      <4>1. 2 ^ WordBits <= 2 ^ s
        BY <3>5, PowerGrows, WidthsOK
      <4>2. PICK x \in Nat : x = 2 ^ WordBits
        BY WidthsOK
      <4>3. PICK y \in Nat : y = 2 ^ s
        BY PowerPositive
      <4>. QED  BY <1>1, <3>3, <3>4, <4>1, <4>2, <4>3
    <3>. QED  BY <3>4, <3>5, WidthsOK
  <2>. QED  BY <2>1, <2>2
<1>. QED  BY <1>4, <1>5 DEF m

(* Zero takes a byte, too.                                                 *)
LEMMA ByteCountPositive ==
  ASSUME NEW v \in 0 .. MaxWord
  PROVE  ByteCount(v) \in Nat \ {0}
<1>1. \A w \in Nat : \A k \in 1 .. w : k \in Nat \ {0}
  OBVIOUS
<1>. QED  BY <1>1, ByteCountOK, WidthsOK

(* The bytes: their groups of bits, and which one is the last.             *)
LEMMA VariableBytesOK ==
  ASSUME NEW v \in 0 .. MaxWord
  PROVE  /\ VariableBytes(v) \in Seq(Nat) /\ Len(VariableBytes(v)) = ByteCount(v)
         /\ \A i \in 1 .. ByteCount(v) :
              /\ VariableBytes(v)[i] \in Nat
              /\ VariableBytes(v)[i] % 2 ^ GroupBits = (v \div 2 ^ (GroupBits * (i - 1))) % 2 ^ GroupBits
              /\ VariableBytes(v)[i] < 2 ^ GroupBits <=> i = ByteCount(v)
<1>1. PICK m \in Nat \ {0} : m = ByteCount(v)
  BY ByteCountOK, WidthsOK
<1>2. PICK b \in Nat \ {0} : b = 2 ^ GroupBits
  BY WidthsOK
<1>3. v \in Nat
  BY WidthsOK
<1>. DEFINE digit(i) == (v \div 2 ^ (GroupBits * (i - 1))) % 2 ^ GroupBits
            byte(i) == digit(i) + (IF i < m THEN 2 ^ GroupBits ELSE 0)
<1>4. VariableBytes(v) = [i \in 1 .. m |-> byte(i)]
  BY <1>1 DEF VariableBytes
<1>5. ASSUME NEW i \in 1 .. m
      PROVE  byte(i) \in Nat /\ byte(i) % b = digit(i) /\ (byte(i) < b <=> i = m)
  <2>1. PICK s \in Nat : s = GroupBits * (i - 1)
    <3>1. i - 1 \in Nat /\ GroupBits \in Nat
      BY WidthsOK
    <3>2. GroupBits * (i - 1) \in Nat
      BY <3>1
    <3>. QED  BY <3>2
  <2>2. PICK p \in Nat \ {0} : p = 2 ^ s
    BY PowerPositive
  <2>3. PICK d \in 0 .. b - 1 : d = (v \div p) % b
    BY <1>3, DigitSplit
  <2>4. digit(i) = d
    BY <1>2, <2>1, <2>2, <2>3
  <2>. HIDE DEF digit
  <2>5. CASE i = m
    <3>1. byte(i) = d
      BY <2>4, <2>5
    <3>2. d % b = d
      BY <2>3
    <3>. QED  BY <2>3, <2>4, <2>5, <3>1, <3>2
  <2>6. CASE i # m
    <3>1. i < m
      BY <2>6
    <3>2. byte(i) = d + b
      BY <1>2, <2>4, <3>1
    <3>3. (b * 1 + d) % b = d
      BY <2>3, Remainder
    <3>4. b * 1 + d = d + b
      BY <2>3
    <3>. QED  BY <2>3, <2>4, <2>6, <3>2, <3>3, <3>4
  <2>. QED  BY <2>5, <2>6
<1>6. [i \in 1 .. m |-> byte(i)] \in Seq(Nat) /\ Len([i \in 1 .. m |-> byte(i)]) = m
  <2>. DEFINE f == [i \in 1 .. m |-> byte(i)]
  <2>1. f \in [1 .. m -> Nat]
    BY <1>5
  <2>. HIDE DEF f
  <2>2. f \in Seq(Nat) /\ Len(f) = m
    BY <2>1
  <2>. QED  BY <2>2 DEF f
<1>7. \A i \in 1 .. m : VariableBytes(v)[i] = byte(i)
  BY <1>4
<1>8. \A i \in 1 .. m : digit(i) = (v \div 2 ^ (GroupBits * (i - 1))) % 2 ^ GroupBits
  OBVIOUS
<1>. HIDE DEF digit, byte
<1>. QED  BY <1>1, <1>2, <1>4, <1>5, <1>6, <1>7, <1>8

(* Each byte of a value adds its group; the last one ends the value.       *)
LEMMA ReadOn ==
  ASSUME NEW v \in 0 .. MaxWord, NEW i \in 1 .. ByteCount(v), NEW ds, NEW b \in Nat,
         b % 2 ^ GroupBits = (v \div 2 ^ (GroupBits * (i - 1))) % 2 ^ GroupBits,
         b < 2 ^ GroupBits <=> i = ByteCount(v)
  PROVE  ReadByte(Middle(v, i - 1, ds), b) =
           IF i = ByteCount(v) THEN Begun(Append(ds, v)) ELSE Middle(v, i, ds)
<1>1. PICK m \in Nat \ {0} : m = ByteCount(v) /\ v < 2 ^ (GroupBits * m) /\ GroupBits * (m - 1) < WordBits
  BY ByteCountOK, WidthsOK
<1>2. PICK g \in Nat \ {0} : g = GroupBits
  BY WidthsOK
<1>3. v \in Nat /\ v < 2 ^ WordBits /\ i \in 1 .. m
  BY <1>1, WidthsOK
<1>4. PICK s \in Nat : s = g * (i - 1) /\ s + g = g * i
  <2>1. i - 1 \in Nat
    BY <1>3
  <2>2. PICK j \in Nat : j = i - 1 /\ i = j + 1
    BY <2>1, <1>3
  <2>3. g * (j + 1) = g * j + g /\ g * j \in Nat
    OBVIOUS
  <2>. QED  BY <2>2, <2>3
<1>. DEFINE in == Middle(v, i - 1, ds)
            value == (in.value + (b % (2 ^ GroupBits)) * (2 ^ in.shift)) % (2 ^ WordBits)
            shift == in.shift + GroupBits
<1>5. in.ok = TRUE /\ in.value = v % 2 ^ s /\ in.shift = s /\ in.deltas = ds
  <2>1. GroupBits * (i - 1) = s
    BY <1>2, <1>4
  <2>2. in = [ok |-> TRUE, value |-> v % 2 ^ s, shift |-> s, deltas |-> ds]
    BY <2>1 DEF Middle
  <2>. HIDE DEF in
  <2>. QED  BY <2>2
<1>. HIDE DEF in
<1>6. value = v % 2 ^ (s + g)
  <2>1. PICK d \in Nat : d = (v \div 2 ^ s) % 2 ^ g
    <3>1. PICK x \in Nat \ {0} : x = 2 ^ g
      BY PowerPositive
    <3>2. (v \div 2 ^ s) % 2 ^ g \in 0 .. 2 ^ g - 1
      BY <1>3, NextDigit
    <3>3. (v \div 2 ^ s) % 2 ^ g \in 0 .. x - 1
      BY <3>1, <3>2
    <3>. QED  BY <3>3
  <2>2. PICK p \in Nat : p = 2 ^ s
    BY PowerPositive
  <2>3. PICK low \in Nat : low = v % 2 ^ s
    BY <1>3, NextDigit
  <2>4. v % 2 ^ (s + g) = low + d * p
    BY <1>3, <2>1, <2>2, <2>3, NextDigit
  <2>5. b % (2 ^ GroupBits) = d
    BY <1>2, <1>4, <2>1
  <2>6. value = (low + d * p) % (2 ^ WordBits)
    BY <1>5, <2>2, <2>3, <2>5
  <2>7. PICK u \in Nat : u = low + d * p
    BY <2>1, <2>2, <2>3
  <2>8. u <= v
    <3>1. s + g \in Nat /\ v % 2 ^ (s + g) <= v
      BY <1>3, NextDigit
    <3>. QED  BY <2>4, <2>7, <3>1
  <2>9. u < 2 ^ WordBits
    <3>1. PICK w \in Nat : w = 2 ^ WordBits
      BY WidthsOK
    <3>. QED  BY <1>3, <2>7, <2>8, <3>1
  <2>10. u % 2 ^ WordBits = u
    <3>1. WordBits \in Nat
      BY WidthsOK
    <3>. QED  BY <2>9, <3>1, NextDigit
  <2>. QED  BY <2>4, <2>6, <2>7, <2>10
<1>7. shift = s + g
  BY <1>2, <1>5
<1>8. ReadByte(in, b) =
        CASE ~in.ok -> in
          [] b < 2 ^ GroupBits -> [Fresh EXCEPT !.deltas = Append(in.deltas, value)]
          [] OTHER -> [ok |-> shift < WordBits, value |-> value, shift |-> shift, deltas |-> in.deltas]
  BY DEF ReadByte
<1>. HIDE DEF value, shift
<1>9. CASE i = m
  <2>1. value = v
    <3>1. v < 2 ^ (s + g) /\ s + g \in Nat
      BY <1>1, <1>2, <1>4, <1>9
    <3>2. v % 2 ^ (s + g) = v
      BY <1>3, <3>1, NextDigit
    <3>. QED  BY <1>6, <3>2
  <2>2. b < 2 ^ GroupBits
    BY <1>1, <1>9
  <2>3. ReadByte(in, b) = [Fresh EXCEPT !.deltas = Append(ds, v)]
    BY <1>5, <1>8, <2>1, <2>2
  <2>4. ReadByte(in, b) = Begun(Append(ds, v))
    BY <2>3 DEF Fresh, Begun
  <2>. QED  BY <1>1, <1>9, <2>4 DEF in
<1>10. CASE i # m
  <2>1. ~(b < 2 ^ GroupBits)
    BY <1>1, <1>10
  <2>2. s + g < WordBits
    <3>1. i <= m - 1 /\ m - 1 \in Nat
      BY <1>3, <1>10
    <3>2. PICK e \in Nat : m - 1 = i + e
      <4>1. m - 1 - i \in Nat /\ m - 1 = i + (m - 1 - i)
        BY <1>3, <3>1
      <4>. QED  BY <4>1
    <3>3. g * (m - 1) = g * i + g * e /\ g * i \in Nat /\ g * e \in Nat
      BY <1>3, <3>2
    <3>. QED  BY <1>1, <1>2, <1>4, <3>3, WidthsOK
  <2>3. ReadByte(in, b) = [ok |-> TRUE, value |-> v % 2 ^ (s + g), shift |-> s + g, deltas |-> ds]
    BY <1>5, <1>6, <1>7, <1>8, <2>1, <2>2
  <2>4. ReadByte(in, b) = Middle(v, i, ds)
    BY <1>2, <1>4, <2>3 DEF Middle
  <2>. QED  BY <1>1, <1>10, <2>4 DEF in
<1>. QED  BY <1>9, <1>10

(* Reading all bytes of a value appends the value.                         *)
LEMMA ReadsOne ==
  ASSUME NEW S \in Seq(Nat), NEW r, IsReading(S, r), NEW v \in 0 .. MaxWord, NEW from \in Nat,
         from + ByteCount(v) <= Len(S),
         \A i \in 1 .. ByteCount(v) : S[from + i] = VariableBytes(v)[i],
         NEW ds, r[from] = Begun(ds)
  PROVE  r[from + ByteCount(v)] = Begun(Append(ds, v))
<1>1. PICK m \in Nat \ {0} : m = ByteCount(v)
  BY ByteCountOK, WidthsOK
<1>2. PICK n \in Nat : n = Len(S)
  OBVIOUS
<1>3. v \in Nat
  BY WidthsOK
<1>. DEFINE G == {i \in 0 .. m : r[from + i] = IF i = m THEN Begun(Append(ds, v)) ELSE Middle(v, i, ds)}
<1>4. 0 \in G
  <2>1. from + 0 = from /\ 0 \in 0 .. m /\ 0 # m
    OBVIOUS
  <2>. QED  BY <1>3, <2>1, MiddleBegins
<1>5. ASSUME NEW i \in 1 .. m, i - 1 \in G PROVE i \in G
  <2>1. from + i \in 1 .. n /\ (from + i) - 1 = from + (i - 1) /\ i \in 0 .. m /\ i - 1 # m
    BY <1>1, <1>2
  <2>2. r[from + i] = ReadByte(r[from + (i - 1)], S[from + i])
    <3>1. \A k \in 1 .. n : r[k] = ReadByte(r[k - 1], S[k])
      BY <1>2 DEF IsReading
    <3>2. r[from + i] = ReadByte(r[(from + i) - 1], S[from + i])
      BY <2>1, <3>1
    <3>. QED  BY <2>1, <3>2
  <2>3. r[from + (i - 1)] = Middle(v, i - 1, ds)
    BY <1>5, <2>1
  <2>4. PICK b \in Nat : /\ b = S[from + i]
                         /\ b % 2 ^ GroupBits = (v \div 2 ^ (GroupBits * (i - 1))) % 2 ^ GroupBits
                         /\ b < 2 ^ GroupBits <=> i = ByteCount(v)
    BY <1>1, VariableBytesOK
  <2>5. ReadByte(Middle(v, i - 1, ds), b) = IF i = ByteCount(v) THEN Begun(Append(ds, v)) ELSE Middle(v, i, ds)
    BY <1>1, <2>4, ReadOn
  <2>. QED  BY <1>1, <2>1, <2>2, <2>3, <2>4, <2>5
<1>6. m \in G
  <2>. HIDE DEF G
  <2>1. 0 .. m \subseteq G
    BY <1>4, <1>5, AllNumbers
  <2>. QED  BY <2>1
<1>. QED  BY <1>1, <1>6

(* Reading the bytes of a list gives the list.                             *)
LEMMA VariableRoundTrip ==
  ASSUME NEW ids, IdList(ids)
  PROVE  /\ VariableEncode(ids) \in Seq(Nat) /\ (Len(ids) > 0 => Len(VariableEncode(ids)) > 0)
         /\ VariableDecode(VariableEncode(ids)) = Whole(ids)
<1>. DEFINE d == DeltaEncode(ids)
<1>1. PICK n \in Nat : n = Len(ids) /\ DOMAIN ids = 1 .. n
  BY IdsOf
<1>2. d \in Seq(Nat) /\ Len(d) = n /\ \A i \in 1 .. n : d[i] \in 0 .. MaxWord
  <2>1. d \in Seq(0 .. MaxWord) /\ Len(d) = n
    BY <1>1, DeltasOK
  <2>. HIDE DEF d
  <2>2. 0 .. MaxWord \subseteq Nat
    BY WidthsOK
  <2>3. d \in Seq(Nat)
    BY <2>1, <2>2, SeqMonotonic
  <2>4. \A i \in 1 .. n : d[i] \in 0 .. MaxWord
    BY <2>1, ElementOfSeq
  <2>. QED  BY <2>1, <2>3, <2>4
<1>. DEFINE seqs == [i \in 1 .. n |-> VariableBytes(d[i])]
<1>3. VariableEncode(ids) = FlattenSeq(seqs)
  BY <1>1 DEF VariableEncode
<1>. HIDE DEF d
<1>4. \A i \in 1 .. n : seqs[i] = VariableBytes(d[i]) /\ seqs[i] \in Seq(Nat) /\ Len(seqs[i]) = ByteCount(d[i])
  BY <1>2, VariableBytesOK
<1>5. seqs \in Seq(Seq(Nat)) /\ Len(seqs) = n
  <2>1. seqs \in [1 .. n -> Seq(Nat)]
    BY <1>4
  <2>. HIDE DEF seqs
  <2>. QED  BY <2>1
<1>. HIDE DEF seqs
<1>6. PICK F : IsFlat(F, seqs, Nat)
  BY <1>5, FlatExists
<1>7. PICK S \in Seq(Nat) : S = F[n] /\ S = VariableEncode(ids)
  <2>1. FlattenSeq(seqs) = F[n]
    BY <1>5, <1>6, FlattenRuns
  <2>2. F[n] \in Seq(Nat)
    BY <1>5, <1>6 DEF IsFlat
  <2>. QED  BY <1>3, <2>1, <2>2
<1>8. PICK r : IsReading(S, r) /\ r[Len(S)] = FoldLeft(ReadByte, Fresh, S)
  BY ReadingRuns
<1>9. IsReading(S, r)
  BY <1>8, Zenon
<1>. DEFINE G == {k \in 0 .. n : r[Len(F[k])] = Begun(SubSeq(d, 1, k))}
<1>10. 0 \in G
  <2>1. F[0] = <<>> /\ Len(F[0]) = 0
    BY <1>6 DEF IsFlat
  <2>2. r[0] = Begun(<<>>)
    BY <1>9 DEF IsReading, Fresh, Begun
  <2>3. SubSeq(d, 1, 0) = <<>>
    BY SubSeqEmpty
  <2>4. 0 \in 0 .. n
    OBVIOUS
  <2>. QED  BY <2>1, <2>2, <2>3, <2>4, Zenon
<1>11. ASSUME NEW k \in 1 .. n, k - 1 \in G PROVE k \in G
  <2>1. PICK v \in 0 .. MaxWord : v = d[k]
    BY <1>2
  <2>2. PICK m \in Nat \ {0} : m = ByteCount(v)
    BY ByteCountPositive
  <2>3. k \in 0 .. n /\ seqs[k] = VariableBytes(v) /\ Len(seqs[k]) = m
    BY <1>4, <2>1, <2>2
  <2>4. /\ Len(F[k - 1]) \in Nat /\ Len(F[k]) = Len(F[k - 1]) + Len(seqs[k])
        /\ Len(F[k]) <= Len(FlattenSeq(seqs))
        /\ \A j \in 1 .. Len(seqs[k]) : FlattenSeq(seqs)[Len(F[k - 1]) + j] = seqs[k][j]
    <3>1. k \in 1 .. Len(seqs)
      BY <1>5
    <3>2. Situated(seqs, F, k)
      BY <1>5, <1>6, <3>1, FlatPlaces
    <3>. QED  BY <3>2 DEF Situated
  <2>5. PICK from \in Nat : from = Len(F[k - 1])
    BY <2>4
  <2>6. from + ByteCount(v) <= Len(S) /\ Len(F[k]) = from + ByteCount(v)
    BY <1>3, <1>7, <2>2, <2>3, <2>4, <2>5
  <2>7. \A j \in 1 .. ByteCount(v) : S[from + j] = VariableBytes(v)[j]
    BY <1>3, <1>7, <2>2, <2>3, <2>4, <2>5
  <2>8. PICK ds : ds = SubSeq(d, 1, k - 1) /\ r[from] = Begun(ds)
    BY <1>11, <2>5
  <2>9. r[from + ByteCount(v)] = Begun(Append(ds, v))
    <3>1. r[from] = Begun(ds)
      BY <2>8
    <3>2. from + ByteCount(v) <= Len(S)
      BY <2>6
    <3>. QED  BY <1>9, <2>7, <3>1, <3>2, ReadsOne
  <2>10. SubSeq(d, 1, k) = Append(ds, v)
    BY <1>2, <2>1, <2>8, OneMore
  <2>. QED  BY <2>3, <2>6, <2>9, <2>10
<1>12. n \in G
  <2>. HIDE DEF G
  <2>1. 0 .. n \subseteq G
    BY <1>10, <1>11, AllNumbers
  <2>. QED  BY <2>1
<1>13. r[Len(S)] = Begun(d)
  <2>1. SubSeq(d, 1, n) = d
    BY <1>2, SubSeqFull
  <2>. QED  BY <1>7, <1>12, <2>1
<1>14. VariableDecode(S) = DeltaDecode(d)
  <2>1. PICK in : in = r[Len(S)]
    OBVIOUS
  <2>2. in.ok /\ in.shift = 0 /\ in.deltas = d
    BY <1>13, <2>1 DEF Begun
  <2>3. in = FoldLeft(ReadByte, Fresh, S)
    BY <1>8, <2>1, Zenon
  <2>4. VariableDecode(S) = IF in.ok /\ in.shift = 0 THEN DeltaDecode(in.deltas) ELSE Rejected
    BY <2>3, Zenon DEF VariableDecode
  <2>. QED  BY <2>2, <2>4
<1>15. ASSUME n > 0 PROVE Len(S) > 0
  <2>1. 1 \in 1 .. n
    BY <1>15
  <2>2. PICK v \in 0 .. MaxWord : v = d[1]
    BY <1>2, <2>1
  <2>3. Len(seqs[1]) \in Nat \ {0}
    BY <1>4, <2>1, <2>2, ByteCountPositive
  <2>4. /\ Len(F[1 - 1]) \in Nat /\ Len(F[1]) = Len(F[1 - 1]) + Len(seqs[1])
        /\ Len(F[1]) <= Len(FlattenSeq(seqs))
    <3>1. 1 \in 1 .. Len(seqs)
      BY <1>5, <2>1
    <3>2. Situated(seqs, F, 1)
      BY <1>5, <1>6, <3>1, FlatPlaces
    <3>. QED  BY <3>2 DEF Situated
  <2>5. PICK a \in Nat : a = Len(F[1 - 1])
    BY <2>4
  <2>6. PICK c \in Nat \ {0} : c = Len(seqs[1])
    BY <2>3
  <2>7. a + c <= Len(S)
    BY <1>3, <1>7, <2>4, <2>5, <2>6
  <2>. QED  BY <2>7
<1>. QED  BY <1>1, <1>7, <1>14, <1>15, DeltaRoundTrip DEF d

-----------------------------------------------------------------------------
(* Blocks.                                                                 *)

(* Where each block ends. *)
Cuts(n, z) == [b \in 0 .. (n + z - 1) \div z |-> Min({b * z, n})]

(* Min of two numbers.                                                     *)
LEMMA MinOfTwo ==
  ASSUME NEW a \in Nat, NEW b \in Nat
  PROVE  Min({a, b}) = IF a <= b THEN a ELSE b
<1>1. Min({a, b}) \in {a, b} /\ \A y \in {a, b} : Min({a, b}) <= y
  BY LeastOf
<1>. QED  BY <1>1

(* They go from nothing to all ids in steps of at most z. *)
AreCuts(T, m, n, z) ==
  /\ m \in Nat /\ T \in [0 .. m -> Nat] /\ T[0] = 0 /\ T[m] = n /\ (n > 0 => m > 0)
  /\ \A b \in 1 .. m : /\ T[b - 1] = (b - 1) * z /\ T[b] = Min({b * z, n})
                       /\ T[b - 1] < T[b] /\ T[b] <= n

(* The cuts are what AreCuts says.                                         *)
LEMMA CutsOK ==
  ASSUME NEW n \in Nat, NEW z \in Nat \ {0}, NEW m, m = (n + z - 1) \div z, NEW T, T = Cuts(n, z)
  PROVE  AreCuts(T, m, n, z)
<1>1. n + z - 1 \in Nat
  OBVIOUS
<1>2. PICK r \in 0 .. z - 1 : m \in Nat /\ n + z - 1 = z * m + r
  BY <1>1, Divided
<1>3. T = [b \in 0 .. m |-> Min({b * z, n})]
  BY DEF Cuts
<1>4. ASSUME NEW b \in 0 .. m, NEW x \in Nat, b * z = x
      PROVE  T[b] = Min({b * z, n}) /\ T[b] = (IF x <= n THEN x ELSE n)
  <2>1. T[b] = Min({b * z, n})
    BY <1>3
  <2>2. T[b] = Min({x, n})
    BY <1>4, <2>1
  <2>. QED  BY <2>1, <2>2, MinOfTwo
<1>5. 0 \in 0 .. m /\ m \in 0 .. m /\ 0 * z = 0 /\ m * z = z * m /\ z * m \in Nat
  BY <1>2
<1>6. T[0] = 0
  <2>1. T[0] = (IF 0 <= n THEN 0 ELSE n)
    BY <1>4, <1>5
  <2>. QED  BY <2>1
<1>7. z * m >= n
  BY <1>2, <1>5
<1>8. T[m] = n
  <2>1. PICK x \in Nat : x = z * m /\ m * z = x
    BY <1>5
  <2>2. T[m] = (IF x <= n THEN x ELSE n)
    BY <1>4, <1>5, <2>1
  <2>. QED  BY <1>7, <2>1, <2>2
<1>9. n > 0 => m > 0
  <2>1. z * 0 = 0
    OBVIOUS
  <2>. QED  BY <1>2, <1>7, <2>1
<1>10. ASSUME NEW b \in 1 .. m
       PROVE  /\ T[b - 1] = (b - 1) * z /\ T[b] = Min({b * z, n})
              /\ T[b - 1] < T[b] /\ T[b] <= n
  <2>1. PICK a \in Nat : a = b - 1 /\ b = a + 1 /\ a \in 0 .. m /\ b \in 0 .. m
    <3>1. b - 1 \in Nat /\ b = (b - 1) + 1 /\ b - 1 \in 0 .. m /\ b \in 0 .. m
      BY <1>2
    <3>. QED  BY <3>1
  <2>2. PICK e \in Nat : m = a + 1 + e
    <3>1. m - a - 1 \in Nat /\ m = a + 1 + (m - a - 1)
      BY <1>2, <2>1
    <3>. QED  BY <3>1
  <2>3. PICK x \in Nat : x = a * z
    OBVIOUS
  <2>4. b * z = x + z
    BY <2>1, <2>3
  <2>5. z * m = x + z + e * z /\ e * z \in Nat
    <3>1. z * (a + 1 + e) = a * z + z + e * z /\ e * z \in Nat
      OBVIOUS
    <3>. QED  BY <2>2, <2>3, <3>1
  <2>6. x < n
    BY <1>2, <2>5
  <2>7. T[a] = x
    <3>1. T[a] = (IF x <= n THEN x ELSE n)
      BY <1>4, <2>1, <2>3
    <3>. QED  BY <2>6, <3>1
  <2>8. T[b] = (IF x + z <= n THEN x + z ELSE n) /\ T[b] = Min({b * z, n})
    <3>1. PICK y \in Nat : y = x + z
      OBVIOUS
    <3>2. b * z = y
      BY <2>4, <3>1
    <3>3. T[b] = (IF y <= n THEN y ELSE n) /\ T[b] = Min({b * z, n})
      BY <1>4, <2>1, <3>2
    <3>. QED  BY <3>1, <3>3
  <2>9. x < T[b] /\ T[b] <= n
    BY <2>6, <2>8
  <2>. QED  BY <2>1, <2>3, <2>7, <2>8, <2>9
<1>11. T \in [0 .. m -> Nat]
  <2>1. ASSUME NEW b \in 0 .. m PROVE Min({b * z, n}) \in Nat
    <3>1. PICK x \in Nat : x = b * z
      <4>1. b \in Nat
        OBVIOUS
      <4>2. b * z \in Nat
        BY <4>1
      <4>. QED  BY <4>2
    <3>2. Min({x, n}) \in Nat
      BY MinOfTwo
    <3>. QED  BY <3>1, <3>2
  <2>. QED  BY <1>3, <2>1
<1>. QED  BY <1>2, <1>6, <1>8, <1>9, <1>10, <1>11 DEF AreCuts

(* The blocks are slices between the cuts, and sorted lists themselves.    *)
AreBlocks(ids, z, T, m) ==
  /\ Blocks(ids, z) = [b \in 1 .. m |-> SubSeq(ids, T[b - 1] + 1, T[b])]
  /\ DOMAIN Blocks(ids, z) = 1 .. m
  /\ \A b \in 1 .. m : /\ IdList(Blocks(ids, z)[b])
                       /\ Len(Blocks(ids, z)[b]) = T[b] - T[b - 1]
                       /\ Len(Blocks(ids, z)[b]) \in Nat \ {0}

(* Blocks returns the slices between the cuts.                             *)
LEMMA BlocksOK ==
  ASSUME NEW ids, IdList(ids), NEW z \in Nat \ {0},
         NEW m, m = (Len(ids) + z - 1) \div z, NEW T, T = Cuts(Len(ids), z)
  PROVE  AreBlocks(ids, z, T, m)
<1>1. PICK n \in Nat : n = Len(ids)
  BY IdsOf
<1>2. /\ m \in Nat /\ T \in [0 .. m -> Nat] /\ T[0] = 0 /\ T[m] = n
      /\ \A b \in 1 .. m : /\ T[b - 1] = (b - 1) * z /\ T[b] = Min({b * z, n})
                           /\ T[b - 1] < T[b] /\ T[b] <= n
  <2>1. AreCuts(T, m, n, z)
    BY <1>1, CutsOK
  <2>. QED  BY <2>1 DEF AreCuts
<1>. DEFINE B(b) == SubSeq(ids, T[b - 1] + 1, T[b])
            C(b) == SubSeq(ids, (b - 1) * z + 1, Min({b * z, n}))
<1>3. Blocks(ids, z) = [b \in 1 .. m |-> C(b)]
  BY <1>1 DEF Blocks
<1>4. \A b \in 1 .. m : B(b) = C(b)
  <2>1. ASSUME NEW b \in 1 .. m PROVE B(b) = C(b)
    <3>1. T[b - 1] = (b - 1) * z /\ T[b] = Min({b * z, n})
      BY <1>2
    <3>. QED  BY <3>1, Zenon
  <2>. QED  BY <2>1
<1>. HIDE DEF C
<1>5. Blocks(ids, z) = [b \in 1 .. m |-> B(b)]
  <2>. HIDE DEF B
  <2>. QED  BY <1>3, <1>4
<1>6. ASSUME NEW b \in 1 .. m PROVE IdList(B(b)) /\ Len(B(b)) = T[b] - T[b - 1] /\ Len(B(b)) \in Nat \ {0}
  <2>1. b - 1 \in 0 .. m /\ b \in 0 .. m
    BY <1>2
  <2>2. PICK x \in Nat : x = T[b - 1]
    BY <1>2, <2>1
  <2>3. PICK y \in Nat : y = T[b] /\ x < y /\ y <= n
    BY <1>2, <2>1, <2>2
  <2>4. PICK s : s = B(b) /\ s = SubSeq(ids, x + 1, y)
    BY <2>2, <2>3
  <2>5. ids \in Seq(0 .. MaxWord) /\ \A i, j \in 1 .. n : i <= j => ids[i] <= ids[j]
    BY <1>1, IdsOf
  <2>6. s \in Seq(0 .. MaxWord) /\ Len(s) = y - x /\ \A k \in 1 .. y - x : s[k] = ids[x + k]
    <3>1. x <= y /\ y <= Len(ids)
      BY <1>1, <2>3
    <3>2. /\ SubSeq(ids, x + 1, y) \in Seq(0 .. MaxWord) /\ Len(SubSeq(ids, x + 1, y)) = y - x
          /\ \A k \in 1 .. y - x : SubSeq(ids, x + 1, y)[k] = ids[x + k]
      <4>. DEFINE W == 0 .. MaxWord
      <4>1. ids \in Seq(W)
        BY <2>5
      <4>. HIDE DEF W
      <4>2. /\ SubSeq(ids, x + 1, y) \in Seq(W) /\ Len(SubSeq(ids, x + 1, y)) = y - x
            /\ \A k \in 1 .. y - x : SubSeq(ids, x + 1, y)[k] = ids[x + k]
        BY <3>1, <4>1, SliceOK
      <4>. QED  BY <4>2 DEF W
    <3>. QED  BY <2>4, <3>2
  <2>7. \A i, j \in 1 .. y - x : i <= j => s[i] <= s[j]
    <3>1. ASSUME NEW i \in 1 .. y - x, NEW j \in 1 .. y - x, i <= j PROVE s[i] <= s[j]
      <4>1. x + i \in 1 .. n /\ x + j \in 1 .. n /\ x + i <= x + j
        BY <2>3, <3>1
      <4>2. ids[x + i] <= ids[x + j]
        BY <2>5, <4>1
      <4>. QED  BY <2>6, <4>2
    <3>. QED  BY <3>1
  <2>8. IdList(s)
    BY <2>6, <2>7 DEF IdList
  <2>9. Len(s) = y - x /\ y - x \in Nat \ {0}
    BY <2>3, <2>6
  <2>. HIDE DEF B
  <2>. QED  BY <2>2, <2>3, <2>4, <2>8, <2>9
<1>7. DOMAIN Blocks(ids, z) = 1 .. m /\ \A b \in 1 .. m : Blocks(ids, z)[b] = B(b)
  <2>. HIDE DEF B
  <2>. QED  BY <1>5
<1>. QED  BY <1>5, <1>6, <1>7 DEF AreBlocks

(* The first decoded blocks joined are the ids up to a cut.                *)
FirstBlocks(ids, z, k) == [b \in 1 .. k |-> Whole(Blocks(ids, z)[b])]

(* Joined blocks give the list up to the cut after the last of them.       *)
LEMMA BlocksJoin ==
  ASSUME NEW ids, IdList(ids), NEW z \in Nat \ {0},
         NEW m, m = (Len(ids) + z - 1) \div z, NEW T, T = Cuts(Len(ids), z), NEW k \in 0 .. m
  PROVE  Joined(FirstBlocks(ids, z, k)) = Whole(SubSeq(ids, 1, T[k]))
<1>1. PICK n \in Nat : n = Len(ids) /\ ids \in Seq(Nat)
  BY IdsOf
<1>2. /\ m \in Nat /\ T \in [0 .. m -> Nat] /\ T[0] = 0
      /\ \A b \in 1 .. m : T[b - 1] < T[b] /\ T[b] <= n
  <2>1. AreCuts(T, m, n, z)
    BY <1>1, CutsOK
  <2>. QED  BY <2>1 DEF AreCuts
<1>3. k \in Nat /\ \A b \in 1 .. k : b \in 1 .. m /\ b - 1 \in 0 .. k /\ b \in 0 .. k /\ b - 1 \in 0 .. m /\ b \in 0 .. m
  BY <1>2
<1>. DEFINE parts == [b \in 1 .. k |-> Whole(Blocks(ids, z)[b])]
            B == [b \in 1 .. m |-> SubSeq(ids, T[b - 1] + 1, T[b])]
            U == [b \in 0 .. k |-> T[b]]
            S == [b \in 1 .. k |-> SubSeq(ids, U[b - 1] + 1, U[b])]
<1>4. Blocks(ids, z) = B
  <2>1. AreBlocks(ids, z, T, m)
    BY BlocksOK
  <2>. QED  BY <2>1, Zenon DEF AreBlocks
<1>5. ASSUME NEW b \in 1 .. k PROVE parts[b].ok = TRUE /\ parts[b].ids = S[b]
  <2>1. U[b - 1] = T[b - 1] /\ U[b] = T[b]
    BY <1>3
  <2>2. S[b] = SubSeq(ids, T[b - 1] + 1, T[b])
    BY <2>1
  <2>3. B[b] = SubSeq(ids, T[b - 1] + 1, T[b])
    BY <1>3
  <2>4. parts[b] = Whole(B[b])
    BY <1>4
  <2>. HIDE DEF parts, B, S, U
  <2>5. PICK x : x = S[b] /\ x = B[b]
    BY <2>2, <2>3
  <2>6. parts[b] = Whole(x)
    BY <2>4, <2>5
  <2>. QED  BY <2>5, <2>6 DEF Whole
<1>6. FlattenSeq(S) = SubSeq(ids, 1, U[k])
  <2>1. U \in [0 .. k -> Nat] /\ U[0] = 0
    <3>1. \A b \in 0 .. k : b \in 0 .. m
      BY <1>2
    <3>2. 0 \in 0 .. k
      BY <1>3
    <3>. QED  BY <1>2, <3>1, <3>2
  <2>2. ASSUME NEW b \in 1 .. k PROVE U[b - 1] <= U[b] /\ U[b] <= Len(ids)
    <3>1. U[b - 1] = T[b - 1] /\ U[b] = T[b] /\ T[b - 1] < T[b] /\ T[b] <= n
      BY <1>2, <1>3
    <3>2. T[b - 1] \in Nat /\ T[b] \in Nat
      BY <1>2, <1>3
    <3>. HIDE DEF U
    <3>. QED  BY <1>1, <3>1, <3>2
  <2>. HIDE DEF U
  <2>. QED  BY <1>1, <1>3, <2>1, <2>2, SlicesJoin
<1>7. U[k] = T[k]
  BY <1>3
<1>8. DOMAIN parts = 1 .. k
  OBVIOUS
<1>9. [b \in DOMAIN parts |-> parts[b].ids] = S
  <2>1. S = [b \in 1 .. k |-> S[b]]
    <3>. HIDE DEF U
    <3>. QED  OBVIOUS
  <2>. HIDE DEF S, parts
  <2>. QED  BY <1>5, <1>8, <2>1
<1>10. \A b \in DOMAIN parts : parts[b].ok
  BY <1>5
<1>. HIDE DEF parts, S, U
<1>11. Joined(parts) = [ok |-> TRUE, ids |-> FlattenSeq([b \in DOMAIN parts |-> parts[b].ids])]
  BY <1>10 DEF Joined
<1>. QED  BY <1>6, <1>7, <1>9, <1>11 DEF Whole, parts, FirstBlocks

(* What blocked encoding makes: offsets between which the payload decodes  *)
(* to the blocks.                                                          *)
IsBlocked(o, p, ids, z, m) ==
  /\ BlockedEncode(ids, z) = [offsets |-> o, payload |-> p, count |-> Len(ids)]
  /\ o \in Seq(Nat) /\ Len(o) = m + 1 /\ p \in Seq(Nat) /\ o[1] = 0 /\ o[m + 1] = Len(p)
  /\ \A b \in 1 .. m : o[b] < o[b + 1] /\ o[b + 1] <= Len(p)
  /\ \A b \in 1 .. m : VariableDecode(SubSeq(p, o[b] + 1, o[b + 1])) = Whole(Blocks(ids, z)[b])

(* BlockedEncode returns what IsBlocked says.                              *)
LEMMA BlockedOK ==
  ASSUME NEW ids, IdList(ids), NEW z \in Nat \ {0}, NEW m, m = (Len(ids) + z - 1) \div z
  PROVE  \E o, p : IsBlocked(o, p, ids, z, m)
<1>. DEFINE B == Blocks(ids, z)
            T == Cuts(Len(ids), z)
<1>1. Len(ids) \in Nat
  BY IdsOf
<1>2. m \in Nat
  <2>1. AreCuts(T, m, Len(ids), z)
    BY <1>1, CutsOK
  <2>. QED  BY <2>1 DEF AreCuts
<1>3. DOMAIN B = 1 .. m /\ \A b \in 1 .. m : IdList(B[b]) /\ Len(B[b]) \in Nat \ {0}
  <2>1. AreBlocks(ids, z, T, m)
    BY BlocksOK
  <2>. QED  BY <2>1, Zenon DEF AreBlocks
<1>. HIDE DEF B, T
<1>. DEFINE coded == [b \in 1 .. m |-> VariableEncode(B[b])]
            lens == [b \in 1 .. m |-> Len(coded[b])]
<1>4. ASSUME NEW b \in 1 .. m
      PROVE  coded[b] \in Seq(Nat) /\ Len(coded[b]) > 0 /\ VariableDecode(coded[b]) = Whole(B[b])
  <2>1. IdList(B[b]) /\ Len(B[b]) > 0
    BY <1>3
  <2>2. coded[b] = VariableEncode(B[b])
    OBVIOUS
  <2>. HIDE DEF coded
  <2>. QED  BY <2>1, <2>2, VariableRoundTrip
<1>5. BlockedEncode(ids, z) = [offsets |-> Offsets(lens), payload |-> FlattenSeq(coded), count |-> Len(ids)]
  <2>1. lens = [b \in DOMAIN coded |-> Len(coded[b])]
    OBVIOUS
  <2>2. coded = [b \in DOMAIN B |-> VariableEncode(B[b])]
    BY <1>3
  <2>3. BlockedEncode(ids, z) =
          LET c == [b \in DOMAIN B |-> VariableEncode(B[b])]
          IN  [offsets |-> Offsets([b \in DOMAIN c |-> Len(c[b])]), payload |-> FlattenSeq(c), count |-> Len(ids)]
    BY Zenon DEF BlockedEncode, B
  <2>. HIDE DEF coded, lens
  <2>. QED  BY <2>1, <2>2, <2>3
<1>6. coded \in Seq(Seq(Nat)) /\ Len(coded) = m
  <2>1. coded \in [1 .. m -> Seq(Nat)]
    BY <1>4
  <2>. HIDE DEF coded
  <2>. QED  BY <1>2, <2>1
<1>. HIDE DEF coded
<1>7. PICK F : IsFlat(F, coded, Nat)
  BY <1>6, FlatExists
<1>. DEFINE g == [k \in 0 .. m |-> Len(F[k])]
            o == [k \in 1 .. m + 1 |-> g[k - 1]]
            p == FlattenSeq(coded)
<1>8. lens \in Seq(Nat) /\ Len(lens) = m /\ IsSum(lens, g)
  BY <1>6, <1>7, FlatSums
<1>9. Offsets(lens) = o
  <2>. HIDE DEF lens, g
  <2>. QED  BY <1>8, OffsetsAre
<1>10. p = F[m] /\ p \in Seq(Nat)
  <2>1. p = F[m]
    BY <1>6, <1>7, FlattenRuns
  <2>2. m \in 0 .. Len(coded)
    BY <1>2, <1>6
  <2>3. F[m] \in Seq(Nat)
    BY <1>7, <2>2 DEF IsFlat
  <2>. QED  BY <2>1, <2>3
<1>11. o \in Seq(Nat) /\ Len(o) = m + 1 /\ o[1] = 0 /\ o[m + 1] = Len(p)
  <2>1. g \in [0 .. m -> Nat] /\ g[0] = 0
    BY <1>8 DEF IsSum
  <2>2. g[m] = Len(p)
    BY <1>2, <1>10
  <2>3. \A k \in 1 .. m + 1 : k - 1 \in 0 .. m
    BY <1>2
  <2>. HIDE DEF g, p
  <2>4. o \in [1 .. m + 1 -> Nat]
    BY <2>1, <2>3
  <2>5. 1 \in 1 .. m + 1 /\ m + 1 \in 1 .. m + 1 /\ 1 - 1 = 0 /\ (m + 1) - 1 = m /\ m + 1 \in Nat
    BY <1>2
  <2>6. o[1] = g[0] /\ o[m + 1] = g[m]
    BY <2>5
  <2>. HIDE DEF o
  <2>. QED  BY <2>1, <2>2, <2>4, <2>5, <2>6
<1>12. ASSUME NEW b \in 1 .. m
       PROVE  /\ o[b] < o[b + 1] /\ o[b + 1] <= Len(p)
              /\ VariableDecode(SubSeq(p, o[b] + 1, o[b + 1])) = Whole(B[b])
  <2>1. b \in 1 .. m + 1 /\ b + 1 \in 1 .. m + 1 /\ (b + 1) - 1 = b /\ b - 1 \in 0 .. m /\ b \in 0 .. m
    BY <1>2
  <2>2. o[b] = Len(F[b - 1]) /\ o[b + 1] = Len(F[b])
    BY <2>1
  <2>3. b \in 1 .. Len(coded)
    BY <1>6
  <2>4. Situated(coded, F, b)
    BY <1>6, <1>7, <2>3, FlatPlaces
  <2>5. SubSeq(F[Len(coded)], Len(F[b - 1]) + 1, Len(F[b])) = coded[b]
    BY <1>6, <1>7, <2>3, FlatSlice, Zenon
  <2>6. /\ Len(F[b - 1]) \in Nat /\ Len(coded[b]) \in Nat /\ Len(F[b]) = Len(F[b - 1]) + Len(coded[b])
        /\ Len(F[b]) <= Len(p)
    BY <2>4 DEF Situated
  <2>7. Len(F[b - 1]) < Len(F[b])
    <3>1. PICK before : before = F[b - 1]
      OBVIOUS
    <3>2. PICK x \in Nat : x = Len(before)
      BY <2>6, <3>1
    <3>3. PICK y \in Nat : y = Len(coded[b]) /\ y > 0
      BY <1>4, <2>6
    <3>4. Len(F[b]) = x + y
      BY <2>6, <3>1, <3>2, <3>3
    <3>5. x < x + y
      BY <3>3
    <3>. QED  BY <3>1, <3>2, <3>4, <3>5
  <2>8. SubSeq(p, o[b] + 1, o[b + 1]) = coded[b]
    <3>. HIDE DEF p, o, g
    <3>. QED  BY <1>6, <1>10, <2>2, <2>5
  <2>. HIDE DEF p, o, g
  <2>. QED  BY <1>4, <2>2, <2>6, <2>7, <2>8
<1>. HIDE DEF p, o, g, lens
<1>13. IsBlocked(o, p, ids, z, m)
  BY <1>5, <1>9, <1>10, <1>11, <1>12 DEF IsBlocked, p, B
<1>. QED  BY <1>13

(* The first blocks, decoded.                                              *)
Offers(e, o, p, k) == e.payload = p /\ Len(e.offsets) = k + 1 /\ \A i \in 1 .. k + 1 : e.offsets[i] = o[i]

(* Decoding the first k blocks gives the ids up to the k-th cut.           *)
LEMMA DecodesBlocks ==
  ASSUME NEW ids, IdList(ids), NEW z \in Nat \ {0}, NEW m, m = (Len(ids) + z - 1) \div z,
         NEW o, NEW p, IsBlocked(o, p, ids, z, m), NEW k \in 0 .. m,
         NEW e, Offers(e, o, p, k),
         NEW T, T = Cuts(Len(ids), z)
  PROVE  DecodedBlocks(e) = Whole(SubSeq(ids, 1, T[k]))
<1>. DEFINE parts == [b \in 1 .. k |-> Whole(Blocks(ids, z)[b])]
            read == [b \in 1 .. Len(e.offsets) - 1 |->
                       VariableDecode(SubSeq(e.payload, e.offsets[b] + 1, e.offsets[b + 1]))]
<1>0. e.payload = p /\ Len(e.offsets) = k + 1 /\ \A i \in 1 .. k + 1 : e.offsets[i] = o[i]
  BY DEF Offers
<1>1. Len(ids) \in Nat
  BY IdsOf
<1>2. m \in Nat
  <2>1. AreCuts(T, m, Len(ids), z)
    BY <1>1, CutsOK
  <2>. QED  BY <2>1 DEF AreCuts
<1>3. Len(e.offsets) - 1 = k
  BY <1>0, <1>2
<1>4. ASSUME NEW b \in 1 .. k
      PROVE  VariableDecode(SubSeq(e.payload, e.offsets[b] + 1, e.offsets[b + 1])) = Whole(Blocks(ids, z)[b])
  <2>1. b \in 1 .. m /\ b \in 1 .. k + 1 /\ b + 1 \in 1 .. k + 1
    BY <1>2
  <2>2. e.offsets[b] = o[b] /\ e.offsets[b + 1] = o[b + 1]
    BY <1>0, <2>1
  <2>3. VariableDecode(SubSeq(p, o[b] + 1, o[b + 1])) = Whole(Blocks(ids, z)[b])
    BY <2>1 DEF IsBlocked
  <2>. QED  BY <1>0, <2>2, <2>3
<1>5. read = parts
  BY <1>3, <1>4
<1>6. Joined(FirstBlocks(ids, z, k)) = Whole(SubSeq(ids, 1, T[k]))
  BY BlocksJoin
<1>7. FirstBlocks(ids, z, k) = parts
  BY DEF FirstBlocks
<1>. HIDE DEF parts
<1>. QED  BY <1>5, <1>6, <1>7 DEF DecodedBlocks

(* Whole data gives the list, and data that lost its end gives nothing.    *)
LEMMA BlockedRoundTrip ==
  ASSUME NEW ids, IdList(ids), NEW z \in Nat \ {0}
  PROVE  BlockedDecode(BlockedEncode(ids, z)) = Whole(ids)
<1>. DEFINE m == (Len(ids) + z - 1) \div z
            T == Cuts(Len(ids), z)
            e == BlockedEncode(ids, z)
<1>1. PICK n \in Nat : n = Len(ids) /\ ids \in Seq(Nat)
  BY IdsOf
<1>2. m \in Nat /\ T[m] = n
  <2>1. AreCuts(T, m, Len(ids), z)
    BY <1>1, CutsOK
  <2>. QED  BY <1>1, <2>1 DEF AreCuts
<1>3. PICK o, p : IsBlocked(o, p, ids, z, m)
  BY BlockedOK
<1>4. e = [offsets |-> o, payload |-> p, count |-> Len(ids)]
  BY <1>3 DEF IsBlocked
<1>. HIDE DEF e
<1>5. e.offsets = o /\ e.payload = p /\ e.count = n
  BY <1>1, <1>4
<1>6. m \in 0 .. m
  BY <1>2
<1>7. Len(o) = m + 1
  BY <1>3 DEF IsBlocked
<1>8. DecodedBlocks(e) = Whole(SubSeq(ids, 1, T[m]))
  <2>. HIDE DEF T, m
  <2>1. Offers(e, o, p, m)
    BY <1>5, <1>7 DEF Offers
  <2>2. m = (Len(ids) + z - 1) \div z /\ T = Cuts(Len(ids), z)
    BY DEF m, T
  <2>. QED  BY <1>3, <1>6, <2>1, <2>2, DecodesBlocks
<1>9. DecodedBlocks(e) = Whole(ids)
  <2>1. SubSeq(ids, 1, n) = ids
    BY <1>1, SubSeqFull
  <2>. QED  BY <1>2, <1>8, <2>1
<1>10. OffsetsSound(e)
  <2>. HIDE DEF T, m
  <2>1. o # <<>> /\ o[1] = 0
    <3>1. o \in Seq(Nat) /\ Len(o) # 0 /\ o[1] = 0
      BY <1>2, <1>3, <1>7 DEF IsBlocked
    <3>. QED  BY <3>1, EmptySeq
  <2>2. Len(o) - 1 = m
    BY <1>2, <1>7
  <2>3. \A b \in 1 .. m : o[b] <= o[b + 1] /\ o[b + 1] <= Len(p)
    <3>1. o \in Seq(Nat) /\ \A b \in 1 .. m : o[b] < o[b + 1] /\ o[b + 1] <= Len(p)
      BY <1>3 DEF IsBlocked
    <3>2. ASSUME NEW b \in 1 .. m PROVE o[b] <= o[b + 1]
      <4>1. b \in 1 .. Len(o) /\ b + 1 \in 1 .. Len(o)
        BY <1>2, <1>7
      <4>2. o[b] \in Nat /\ o[b + 1] \in Nat
        BY <3>1, <4>1
      <4>. QED  BY <3>1, <4>2
    <3>. QED  BY <3>1, <3>2
  <2>. QED  BY <1>5, <2>1, <2>2, <2>3 DEF OffsetsSound
<1>11. Len(DecodedBlocks(e).ids) = e.count
  BY <1>1, <1>5, <1>9 DEF Whole
<1>12. BlockedDecode(e) = DecodedBlocks(e)
  BY <1>10, <1>11 DEF BlockedDecode
<1>. QED  BY <1>9, <1>12 DEF e

(* Without the last byte or the last offset, nothing is decoded.           *)
LEMMA BlockedCut ==
  ASSUME NEW ids, IdList(ids), ids # <<>>, NEW z \in Nat \ {0}
  PROVE  LET b == BlockedEncode(ids, z)
         IN  /\ ~BlockedDecode([b EXCEPT !.payload = Front(@)]).ok
             /\ ~BlockedDecode([b EXCEPT !.offsets = Front(@)]).ok
<1>. DEFINE m == (Len(ids) + z - 1) \div z
            T == Cuts(Len(ids), z)
            c == BlockedEncode(ids, z)
            e == [c EXCEPT !.payload = Front(@)]
            f == [c EXCEPT !.offsets = Front(@)]
<1>1. PICK n \in Nat \ {0} : n = Len(ids) /\ ids \in Seq(Nat)
  <2>1. ids \in Seq(Nat)
    BY IdsOf
  <2>. QED  BY <2>1, EmptySeq
<1>2. AreCuts(T, m, n, z)
  BY <1>1, CutsOK
<1>3. PICK o, p : IsBlocked(o, p, ids, z, m)
  BY BlockedOK
<1>4. c = [offsets |-> o, payload |-> p, count |-> Len(ids)]
  BY <1>3 DEF IsBlocked
<1>. HIDE DEF c, m, T
<1>5. e.offsets = o /\ e.payload = Front(p) /\ f.offsets = Front(o) /\ f.payload = p /\ f.count = n
  BY <1>1, <1>4
<1>6. ~Rejected.ok
  BY DEF Rejected
<1>. HIDE DEF e, f
<1>7. m \in Nat \ {0} /\ T \in [0 .. m -> Nat] /\ T[m] = n /\ T[m - 1] < T[m]
  <2>1. m \in Nat /\ m > 0
    BY <1>1, <1>2 DEF AreCuts
  <2>2. m \in 1 .. m
    BY <2>1
  <2>. QED  BY <1>2, <2>1, <2>2 DEF AreCuts
<1>8. o \in Seq(Nat) /\ Len(o) = m + 1 /\ p \in Seq(Nat) /\ o[m] < o[m + 1] /\ o[m + 1] = Len(p)
  <2>1. m \in 1 .. m
    BY <1>7
  <2>. QED  BY <1>3, <2>1 DEF IsBlocked
<1>9. ~BlockedDecode(e).ok
  <2>1. o[m] \in Nat
    <3>1. m \in 1 .. Len(o)
      BY <1>7, <1>8
    <3>. QED  BY <1>8, <3>1
  <2>2. Len(p) \in Nat \ {0}
    BY <1>8, <2>1
  <2>3. Len(Front(p)) = Len(p) - 1
    <3>1. PICK k \in Nat : k = Len(p) - 1 /\ k <= Len(p)
      BY <2>2
    <3>2. Len(SubSeq(p, 1, k)) = k
      BY <1>8, <3>1, FirstOnes
    <3>. QED  BY <3>1, <3>2 DEF Front
  <2>4. m \in 1 .. Len(e.offsets) - 1
    BY <1>5, <1>7, <1>8
  <2>5. ~(e.offsets[m + 1] <= Len(e.payload))
    BY <1>5, <1>8, <2>2, <2>3
  <2>6. ~OffsetsSound(e)
    BY <2>4, <2>5 DEF OffsetsSound
  <2>. QED  BY <1>6, <2>6 DEF BlockedDecode
<1>10. ~BlockedDecode(f).ok
  <2>1. PICK k \in Nat : k = m - 1 /\ m = k + 1 /\ k \in 0 .. m
    BY <1>7
  <2>2. Len(f.offsets) = k + 1 /\ \A i \in 1 .. k + 1 : f.offsets[i] = o[i]
    <3>1. Len(o) - 1 = m /\ m \in Nat /\ m <= Len(o)
      BY <1>7, <1>8
    <3>2. Len(SubSeq(o, 1, m)) = m /\ \A i \in 1 .. m : SubSeq(o, 1, m)[i] = o[i]
      BY <1>8, <3>1, FirstOnes
    <3>3. f.offsets = SubSeq(o, 1, m)
      BY <1>5, <3>1 DEF Front
    <3>. QED  BY <2>1, <3>2, <3>3
  <2>3. DecodedBlocks(f) = Whole(SubSeq(ids, 1, T[k]))
    <3>1. m = (Len(ids) + z - 1) \div z /\ T = Cuts(Len(ids), z)
      BY DEF m, T
    <3>2. Offers(f, o, p, k)
      BY <1>5, <2>2 DEF Offers
    <3>. QED  BY <1>3, <2>1, <3>1, <3>2, DecodesBlocks
  <2>4. T[k] \in Nat /\ T[k] < n
    BY <1>7, <2>1
  <2>5. Len(SubSeq(ids, 1, T[k])) = T[k]
    <3>1. T[k] \in Nat /\ T[k] <= Len(ids)
      BY <1>1, <2>4
    <3>. QED  BY <1>1, <3>1, FirstOnes
  <2>6. Len(DecodedBlocks(f).ids) # f.count
    BY <1>5, <2>3, <2>4, <2>5 DEF Whole
  <2>. QED  BY <1>6, <2>6 DEF BlockedDecode
<1>. QED  BY <1>9, <1>10 DEF e, f, c

-----------------------------------------------------------------------------
(* Lanes of fixed width.                                                   *)
LEMMA LaneOK ==
  ASSUME NEW d \in Seq(0 .. MaxWord)
  PROVE  LaneOf(d) \in {1, 2, 4} /\ \A i \in 1 .. Len(d) : d[i] < 2 ^ (LaneOf(d) * UnitBits)
<1>. DEFINE S == {0} \cup ToSet(d)
            max == Max(S)
            Q == {n \in {1, 2, 4} : max < 2 ^ (n * UnitBits)}
            Fits(n) == max < 2 ^ (n * UnitBits) /\ \A m \in {1, 2, 4} : max < 2 ^ (m * UnitBits) => n <= m
<1>1. \A i \in 1 .. Len(d) : d[i] \in 0 .. MaxWord /\ d[i] \in S
  <2>1. \A i \in 1 .. Len(d) : d[i] \in 0 .. MaxWord
    BY ElementOfSeq
  <2>2. DOMAIN d = 1 .. Len(d)
    OBVIOUS
  <2>. QED  BY <2>1, <2>2 DEF ToSet
<1>2. S \subseteq 0 .. MaxWord
  <2>1. ToSet(d) \subseteq 0 .. MaxWord
    <3>1. DOMAIN d = 1 .. Len(d)
      OBVIOUS
    <3>. QED  BY <1>1, <3>1 DEF ToSet
  <2>2. 0 \in 0 .. MaxWord
    BY WidthsOK
  <2>. QED  BY <2>1, <2>2
<1>. HIDE DEF S
<1>3. max \in S /\ \A y \in S : y <= max
  <2>1. IsFiniteSet(S)
    <3>1. 0 \in Int /\ MaxWord \in Int
      BY WidthsOK
    <3>2. IsFiniteSet(0 .. MaxWord)
      BY <3>1, FS_Interval
    <3>. QED  BY <1>2, <3>2, FS_Subset
  <2>2. S \in SUBSET Nat
    BY <1>2, WidthsOK
  <2>3. S # {}
    BY DEF S
  <2>. QED  BY <2>1, <2>2, <2>3, GreatestOf
<1>. HIDE DEF max
<1>4. max \in Nat /\ max <= MaxWord
  BY <1>2, <1>3, WidthsOK
<1>5. Q \in SUBSET Nat /\ 4 \in Q
  <2>1. max < 2 ^ (4 * UnitBits)
    <3>1. 4 * UnitBits = WordBits
      BY WidthsOK
    <3>2. max < 2 ^ WordBits
      BY <1>4, WidthsOK
    <3>. QED  BY <3>1, <3>2
  <2>. QED  BY <2>1
<1>6. Min(Q) \in Q /\ \A y \in Q : Min(Q) <= y
  <2>. HIDE DEF Q
  <2>. QED  BY <1>5, LeastOf
<1>7. \E n \in {1, 2, 4} : Fits(n)
  <2>1. PICK n : n = Min(Q)
    OBVIOUS
  <2>2. n \in {1, 2, 4} /\ Fits(n)
    BY <1>6, <2>1
  <2>. QED  BY <2>2
<1>8. LaneOf(d) = CHOOSE n \in {1, 2, 4} : Fits(n)
  BY DEF LaneOf, max, S
<1>9. LaneOf(d) \in {1, 2, 4} /\ Fits(LaneOf(d))
  <2>. HIDE DEF Fits
  <2>. QED  BY <1>7, <1>8
<1>10. PICK p \in Nat : p = 2 ^ (LaneOf(d) * UnitBits)
  <2>1. LaneOf(d) * UnitBits \in Nat
    <3>1. LaneOf(d) \in Nat /\ UnitBits \in Nat
      BY <1>9, WidthsOK
    <3>. QED  BY <3>1
  <2>. QED  BY <2>1, PowerPositive
<1>11. ASSUME NEW i \in 1 .. Len(d) PROVE d[i] < p
  <2>1. d[i] <= max /\ d[i] \in Nat
    BY <1>1, <1>3, WidthsOK
  <2>. QED  BY <1>4, <1>9, <1>10, <2>1
<1>. QED  BY <1>9, <1>10, <1>11

(* The bytes of a value in a lane.                                         *)
LEMMA FixedBytesOK ==
  ASSUME NEW v \in Nat, NEW lane \in Nat
  PROVE  /\ FixedBytes(v, lane) \in Seq(Nat) /\ Len(FixedBytes(v, lane)) = lane
         /\ \A i \in 1 .. lane : FixedBytes(v, lane)[i] = (v \div 2 ^ (UnitBits * (i - 1))) % 2 ^ UnitBits
<1>. DEFINE D(i) == (v \div 2 ^ (UnitBits * (i - 1))) % 2 ^ UnitBits
            f == [i \in 1 .. lane |-> D(i)]
<1>1. FixedBytes(v, lane) = f
  BY DEF FixedBytes
<1>2. ASSUME NEW i \in 1 .. lane PROVE D(i) \in Nat
  <2>1. PICK s \in Nat : s = UnitBits * (i - 1)
    <3>1. i - 1 \in Nat /\ UnitBits \in Nat
      BY WidthsOK
    <3>2. UnitBits * (i - 1) \in Nat
      BY <3>1
    <3>. QED  BY <3>2
  <2>2. PICK x \in Nat \ {0} : x = 2 ^ UnitBits
    BY PowerPositive, WidthsOK
  <2>3. PICK p \in Nat \ {0} : p = 2 ^ s
    BY PowerPositive
  <2>4. (v \div p) % x \in Nat
    BY DigitSplit
  <2>. QED  BY <2>1, <2>2, <2>3, <2>4
<1>3. \A i \in 1 .. lane : f[i] = D(i)
  OBVIOUS
<1>. HIDE DEF D
<1>4. f \in Seq(Nat) /\ Len(f) = lane
  <2>1. f \in [1 .. lane -> Nat]
    BY <1>2
  <2>. HIDE DEF f
  <2>. QED  BY <2>1
<1>. HIDE DEF f
<1>. QED  BY <1>1, <1>3, <1>4 DEF D

(* The payload holds the bytes of v from a place on.                       *)
Stored(payload, place, v, lane) ==
  \A i \in 1 .. lane : payload[place + i] = FixedBytes(v, lane)[i]

(* A lane is read back as the value.                                       *)
LEMMA ReadFixedOK ==
  ASSUME NEW v \in Nat, NEW lane \in Nat, v < 2 ^ (lane * UnitBits), NEW payload, NEW place \in Nat,
         Stored(payload, place, v, lane)
  PROVE  ReadFixed(payload, place, lane) = v
<1>. DEFINE t == [i \in 1 .. lane |-> payload[place + i] * 2 ^ (UnitBits * (i - 1))]
<1>1. PICK g \in Nat \ {0} : g = UnitBits
  BY WidthsOK
<1>2. ASSUME NEW i \in 1 .. lane
      PROVE  \E s \in Nat : /\ s = g * (i - 1) /\ s + g = g * i /\ t[i] \in Nat
                            /\ t[i] = ((v \div 2 ^ s) % 2 ^ g) * 2 ^ s
  <2>1. PICK j \in Nat : j = i - 1 /\ i = j + 1
    <3>1. i - 1 \in Nat /\ i = (i - 1) + 1
      OBVIOUS
    <3>. QED  BY <3>1
  <2>2. PICK s \in Nat : s = g * j /\ s + g = g * i
    <3>1. g * j \in Nat /\ g * (j + 1) = g * j + g
      OBVIOUS
    <3>. QED  BY <2>1, <3>1
  <2>3. FixedBytes(v, lane)[i] = (v \div 2 ^ s) % 2 ^ g
    <3>1. FixedBytes(v, lane)[i] = (v \div 2 ^ (UnitBits * (i - 1))) % 2 ^ UnitBits
      BY FixedBytesOK
    <3>2. UnitBits * (i - 1) = s
      BY <1>1, <2>1, <2>2
    <3>. QED  BY <1>1, <3>1, <3>2
  <2>4. payload[place + i] = FixedBytes(v, lane)[i]
    BY DEF Stored
  <2>5. t[i] = payload[place + i] * 2 ^ s
    <3>1. t[i] = payload[place + i] * 2 ^ (UnitBits * (i - 1))
      OBVIOUS
    <3>2. UnitBits * (i - 1) = s
      BY <1>1, <2>1, <2>2
    <3>. QED  BY <3>1, <3>2
  <2>. HIDE DEF t
  <2>6. ((v \div 2 ^ s) % 2 ^ g) * 2 ^ s \in Nat
    <3>1. PICK p \in Nat \ {0} : p = 2 ^ s
      BY PowerPositive
    <3>2. PICK b \in Nat \ {0} : b = 2 ^ g
      BY PowerPositive
    <3>5. (v \div p) % b \in 0 .. b - 1
      BY DigitSplit
    <3>3. PICK x \in Nat : x = (v \div p) % b
      BY <3>5
    <3>4. x * p \in Nat
      OBVIOUS
    <3>. QED  BY <3>1, <3>2, <3>3, <3>4
  <2>. QED  BY <2>1, <2>2, <2>3, <2>4, <2>5, <2>6
<1>3. t \in Seq(Nat) /\ Len(t) = lane
  <2>1. \A i \in 1 .. lane : t[i] \in Nat
    BY <1>2
  <2>2. t \in [1 .. lane -> Nat]
    BY <2>1
  <2>. HIDE DEF t
  <2>. QED  BY <2>2
<1>4. ReadFixed(payload, place, lane) = Total(t)
  BY Zenon DEF ReadFixed, Total
<1>. HIDE DEF t
<1>5. PICK f : IsSum(t, f) /\ f[lane] = Total(t)
  BY <1>3, SumRuns
<1>. DEFINE G == {i \in 0 .. lane : f[i] = v % 2 ^ (g * i)}
<1>6. 0 \in G
  <2>1. g * 0 = 0 /\ v % 1 = 0
    OBVIOUS
  <2>2. v % 2 ^ (g * 0) = 0
    BY <2>1, PowerOne
  <2>3. f[0] = 0
    BY <1>5 DEF IsSum
  <2>. QED  BY <2>2, <2>3
<1>7. ASSUME NEW i \in 1 .. lane, i - 1 \in G PROVE i \in G
  <2>1. PICK s \in Nat : /\ s = g * (i - 1) /\ s + g = g * i
                         /\ t[i] = ((v \div 2 ^ s) % 2 ^ g) * 2 ^ s
    BY <1>2
  <2>2. f[i] = f[i - 1] + t[i]
    BY <1>3, <1>5 DEF IsSum
  <2>3. f[i - 1] = v % 2 ^ s
    BY <1>7, <2>1
  <2>4. v % 2 ^ (s + g) = (v % 2 ^ s) + ((v \div 2 ^ s) % 2 ^ g) * 2 ^ s
    BY NextDigit
  <2>5. i \in 0 .. lane
    OBVIOUS
  <2>. QED  BY <2>1, <2>2, <2>3, <2>4, <2>5
<1>8. lane \in G
  <2>. HIDE DEF G
  <2>1. 0 .. lane \subseteq G
    BY <1>6, <1>7, AllNumbers
  <2>. QED  BY <2>1
<1>9. v % 2 ^ (g * lane) = v
  <2>1. g * lane \in Nat /\ g * lane = lane * g
    OBVIOUS
  <2>2. PICK s \in Nat : s = g * lane /\ v < 2 ^ s
    BY <1>1, <2>1
  <2>3. v % 2 ^ s = v
    <3>1. 0 \in Nat
      OBVIOUS
    <3>. QED  BY <2>2, <3>1, NextDigit
  <2>. QED  BY <2>2, <2>3
<1>. QED  BY <1>4, <1>5, <1>8, <1>9

(* The bytes of a block.                                                   *)
LaneBytes(d, lane) == FlattenSeq([i \in DOMAIN d |-> FixedBytes(d[i], lane)])

(* Each delta has its lane in the bytes of its block.                      *)
LEMMA LaneBytesOK ==
  ASSUME NEW d \in Seq(Nat), NEW lane \in Nat
  PROVE  /\ LaneBytes(d, lane) \in Seq(Nat) /\ Len(LaneBytes(d, lane)) = Len(d) * lane
         /\ \A k \in 1 .. Len(d), x \in Nat : x = (k - 1) * lane => Stored(LaneBytes(d, lane), x, d[k], lane)
<1>1. PICK n \in Nat : n = Len(d) /\ DOMAIN d = 1 .. n
  OBVIOUS
<1>. DEFINE seqs == [i \in 1 .. n |-> FixedBytes(d[i], lane)]
<1>2. ASSUME NEW i \in 1 .. n
      PROVE  seqs[i] = FixedBytes(d[i], lane) /\ seqs[i] \in Seq(Nat) /\ Len(seqs[i]) = lane
  <2>1. d[i] \in Nat
    BY <1>1
  <2>2. FixedBytes(d[i], lane) \in Seq(Nat) /\ Len(FixedBytes(d[i], lane)) = lane
    BY <2>1, FixedBytesOK
  <2>. QED  BY <2>2
<1>3. LaneBytes(d, lane) = FlattenSeq(seqs)
  BY <1>1 DEF LaneBytes
<1>4. seqs \in Seq(Seq(Nat)) /\ Len(seqs) = n
  <2>1. seqs \in [1 .. n -> Seq(Nat)]
    BY <1>2
  <2>. HIDE DEF seqs
  <2>. QED  BY <2>1
<1>. HIDE DEF seqs
<1>5. PICK F : IsFlat(F, seqs, Nat)
  BY <1>4, FlatExists
<1>. DEFINE G == {k \in 0 .. n : Len(F[k]) = k * lane}
<1>6. 0 \in G
  <2>1. Len(F[0]) = 0 /\ 0 * lane = 0
    BY <1>5 DEF IsFlat
  <2>. QED  BY <2>1
<1>7. ASSUME NEW k \in 1 .. n PROVE Situated(seqs, F, k)
  <2>1. k \in 1 .. Len(seqs)
    BY <1>4
  <2>. QED  BY <1>4, <1>5, <2>1, FlatPlaces
<1>8. ASSUME NEW k \in 1 .. n, k - 1 \in G PROVE k \in G
  <2>1. Len(F[k]) = Len(F[k - 1]) + lane
    BY <1>2, <1>7 DEF Situated
  <2>2. PICK j \in Nat : j = k - 1 /\ k = j + 1
    <3>1. k - 1 \in Nat /\ k = (k - 1) + 1
      OBVIOUS
    <3>. QED  BY <3>1
  <2>3. (j + 1) * lane = j * lane + lane
    OBVIOUS
  <2>4. Len(F[j]) = j * lane
    BY <1>8, <2>2
  <2>5. k \in 0 .. n
    OBVIOUS
  <2>. QED  BY <2>1, <2>2, <2>3, <2>4, <2>5
<1>9. 0 .. n \subseteq G
  <2>. HIDE DEF G
  <2>. QED  BY <1>6, <1>8, AllNumbers
<1>10. FlattenSeq(seqs) = F[n] /\ F[n] \in Seq(Nat)
  <2>1. n \in 0 .. Len(seqs)
    BY <1>4
  <2>2. F[n] \in Seq(Nat)
    BY <1>5, <2>1 DEF IsFlat
  <2>. QED  BY <1>4, <1>5, <2>2, FlattenRuns
<1>11. Len(F[n]) = n * lane
  BY <1>9
<1>12. ASSUME NEW k \in 1 .. n, NEW x \in Nat, x = (k - 1) * lane PROVE Stored(LaneBytes(d, lane), x, d[k], lane)
  <2>1. k - 1 \in 0 .. n
    OBVIOUS
  <2>2. Len(F[k - 1]) = x
    BY <1>9, <1>12, <2>1
  <2>3. \A j \in 1 .. Len(seqs[k]) : FlattenSeq(seqs)[Len(F[k - 1]) + j] = seqs[k][j]
    BY <1>7 DEF Situated
  <2>4. \A j \in 1 .. lane : FlattenSeq(seqs)[x + j] = FixedBytes(d[k], lane)[j]
    BY <1>2, <2>2, <2>3
  <2>. QED  BY <1>3, <2>4 DEF Stored
<1>. QED  BY <1>1, <1>3, <1>10, <1>11, <1>12

(* Registers and tail: the k-th value is read at its place.                *)
AtItsPlace(count, width, lane, k, from) ==
  LET whole == (count \div width) * width
  IN  IF k <= whole
      THEN from + ((k - 1) \div width) * width * lane + ((k - 1) % width) * lane = from + (k - 1) * lane
      ELSE (from + whole * lane) + (k - whole - 1) * lane = from + (k - 1) * lane

(* Registers and the tail go through a block lane by lane.                 *)
LEMMA RegisterPlace ==
  ASSUME NEW count \in Nat, NEW width \in Nat \ {0}, NEW lane \in Nat, NEW k \in 1 .. count,
         NEW from \in Nat
  PROVE  AtItsPlace(count, width, lane, k, from)
<1>. DEFINE whole == (count \div width) * width
<1>1. PICK j \in Nat : j = k - 1
  <2>1. k - 1 \in Nat
    OBVIOUS
  <2>. QED  BY <2>1
<1>2. ((k - 1) \div width) * width * lane + ((k - 1) % width) * lane = (k - 1) * lane
  <2>1. PICK q \in Nat : q = j \div width
    BY Divided
  <2>2. PICK r \in Nat : r = j % width
    <3>1. j % width \in 0 .. width - 1
      BY Divided
    <3>. QED  BY <3>1
  <2>3. j = width * q + r
    BY <2>1, <2>2, Divided
  <2>4. (width * q + r) * lane = q * width * lane + r * lane
    OBVIOUS
  <2>. QED  BY <1>1, <2>1, <2>2, <2>3, <2>4
<1>3. whole * lane + (k - whole - 1) * lane = (k - 1) * lane
  <2>1. PICK q \in Nat : q = count \div width
    BY Divided
  <2>2. PICK w \in Nat : w = whole
    <3>1. q * width \in Nat
      OBVIOUS
    <3>. QED  BY <2>1, <3>1
  <2>3. k - w - 1 = j - w
    BY <1>1
  <2>4. w * lane + (j - w) * lane = j * lane
    OBVIOUS
  <2>. QED  BY <1>1, <2>2, <2>3, <2>4
<1>4. PICK x \in Int : x = (k - 1) * lane
  BY <1>1
<1>5. PICK a \in Int, b \in Int : a = ((k - 1) \div width) * width * lane /\ b = ((k - 1) % width) * lane
  <2>1. PICK q \in Nat : q = j \div width
    BY Divided
  <2>2. PICK r \in Nat : r = j % width
    <3>1. j % width \in 0 .. width - 1
      BY Divided
    <3>. QED  BY <3>1
  <2>3. q * width * lane \in Int /\ r * lane \in Int
    OBVIOUS
  <2>. QED  BY <1>1, <2>1, <2>2, <2>3
<1>6. PICK w \in Int : w = whole
  <2>1. PICK q \in Nat : q = count \div width
    BY Divided
  <2>2. q * width \in Int
    OBVIOUS
  <2>. QED  BY <2>1, <2>2
<1>7. PICK u \in Int, y \in Int : u = w * lane /\ y = (k - w - 1) * lane
  <2>1. k - w - 1 \in Int
    OBVIOUS
  <2>2. w * lane \in Int /\ (k - w - 1) * lane \in Int
    BY <2>1
  <2>. QED  BY <2>2
<1>8. a + b = x /\ u + y = x
  BY <1>2, <1>3, <1>4, <1>5, <1>6, <1>7
<1>9. from + a + b = from + x /\ (from + u) + y = from + x
  BY <1>8
<1>. QED  BY <1>4, <1>5, <1>6, <1>7, <1>9 DEF AtItsPlace

(* Unpacking gives the deltas, at any width of a register.                 *)
LEMMA UnpackOK ==
  ASSUME NEW d \in Seq(Nat), NEW lane \in Nat, \A k \in 1 .. Len(d) : d[k] < 2 ^ (lane * UnitBits),
         NEW payload, NEW block, block.count = Len(d), block.lane = lane, block.at \in Nat,
         \A k \in 1 .. Len(d), x \in Nat : x = (k - 1) * lane => Stored(payload, block.at + x, d[k], lane),
         NEW width \in Nat \ {0}
  PROVE  Unpack(payload, block, width) = d
<1>1. PICK n \in Nat : n = Len(d)
  OBVIOUS
<1>2. PICK from \in Nat : from = block.at
  OBVIOUS
<1>. DEFINE whole == (n \div width) * width
            tail == from + whole * lane
            V(k) == IF k <= whole
                    THEN ReadFixed(payload, from + ((k - 1) \div width) * width * lane
                                            + ((k - 1) % width) * lane, lane)
                    ELSE ReadFixed(payload, tail + (k - whole - 1) * lane, lane)
<1>3. Unpack(payload, block, width) = [k \in 1 .. n |-> V(k)]
  BY <1>1, <1>2 DEF Unpack
<1>4. ASSUME NEW k \in 1 .. n PROVE V(k) = d[k]
  <2>1. PICK x \in Nat : x = (k - 1) * lane
    <3>1. k - 1 \in Nat
      OBVIOUS
    <3>2. (k - 1) * lane \in Nat
      BY <3>1
    <3>. QED  BY <3>2
  <2>2. V(k) = ReadFixed(payload, from + x, lane)
    <3>1. IF k <= whole
          THEN from + ((k - 1) \div width) * width * lane + ((k - 1) % width) * lane = from + (k - 1) * lane
          ELSE (from + whole * lane) + (k - whole - 1) * lane = from + (k - 1) * lane
      <4>1. AtItsPlace(n, width, lane, k, from)
        BY RegisterPlace
      <4>. QED  BY <4>1, Zenon DEF AtItsPlace
    <3>2. CASE k <= whole
      <4>1. from + ((k - 1) \div width) * width * lane + ((k - 1) % width) * lane = from + x
        BY <2>1, <3>1, <3>2
      <4>. QED  BY <3>2, <4>1, Zenon
    <3>3. CASE ~(k <= whole)
      <4>1. tail + (k - whole - 1) * lane = from + x
        BY <2>1, <3>1, <3>3
      <4>. QED  BY <3>3, <4>1, Zenon
    <3>. QED  BY <3>2, <3>3
  <2>3. Stored(payload, from + x, d[k], lane)
    BY <1>1, <1>2, <2>1
  <2>4. d[k] \in Nat /\ d[k] < 2 ^ (lane * UnitBits)
    BY <1>1
  <2>5. ReadFixed(payload, from + x, lane) = d[k]
    <3>1. PICK y \in Nat : y = from + x
      OBVIOUS
    <3>2. ReadFixed(payload, y, lane) = d[k]
      BY <2>3, <2>4, <3>1, ReadFixedOK
    <3>. QED  BY <3>1, <3>2
  <2>. HIDE DEF V
  <2>. QED  BY <2>2, <2>5
<1>5. d = [k \in 1 .. n |-> d[k]]
  BY <1>1
<1>. HIDE DEF V
<1>. QED  BY <1>3, <1>4, <1>5

(* A block's values fit its lane, and the payload holds them from a place. *)
FitLane(d, lane) == \A k \in 1 .. Len(d) : d[k] < 2 ^ (lane * UnitBits)

HoldsBlock(payload, from, d, lane) ==
  \A k \in 1 .. Len(d), x \in Nat : x = (k - 1) * lane => Stored(payload, from + x, d[k], lane)

(* The same, by the names above.                                           *)
LEMMA UnpackBlock ==
  ASSUME NEW d \in Seq(Nat), NEW lane \in Nat, FitLane(d, lane),
         NEW payload, NEW block, block.count = Len(d), block.lane = lane, block.at \in Nat,
         HoldsBlock(payload, block.at, d, lane), NEW width \in Nat \ {0}
  PROVE  Unpack(payload, block, width) = d
<1>1. \A k \in 1 .. Len(d) : d[k] < 2 ^ (lane * UnitBits)
  BY Zenon DEF FitLane
<1>2. \A k \in 1 .. Len(d), x \in Nat : x = (k - 1) * lane => Stored(payload, block.at + x, d[k], lane)
  BY Zenon DEF HoldsBlock
<1>. QED  BY <1>1, <1>2, UnpackOK

(* The deltas of a block, their lane and what the block's header says.     *)
DeltasAt(ids, z, b) == DeltaEncode(Blocks(ids, z)[b])
LaneAt(ids, z, b) == LaneOf(DeltasAt(ids, z, b))
HeaderAt(ids, z, T, G, b) ==
  [start |-> T[b - 1], count |-> Len(DeltasAt(ids, z, b)), at |-> G[b - 1], lane |-> LaneAt(ids, z, b)]

(* What a block's deltas are like. *)
BlockFits(ids, z, T, b) ==
  /\ DeltasAt(ids, z, b) \in Seq(Nat) /\ Len(DeltasAt(ids, z, b)) \in Nat \ {0}
  /\ Len(DeltasAt(ids, z, b)) = T[b] - T[b - 1] /\ LaneAt(ids, z, b) \in {1, 2, 4}
  /\ FitLane(DeltasAt(ids, z, b), LaneAt(ids, z, b))
  /\ DeltaDecode(DeltasAt(ids, z, b)) = Whole(Blocks(ids, z)[b])

(* Every block of a list fits its lane.                                    *)
LEMMA BlocksFit ==
  ASSUME NEW ids, IdList(ids), NEW z \in Nat \ {0},
         NEW m, m = (Len(ids) + z - 1) \div z, NEW T, T = Cuts(Len(ids), z), NEW b \in 1 .. m
  PROVE  BlockFits(ids, z, T, b)
<1>1. /\ IdList(Blocks(ids, z)[b]) /\ Len(Blocks(ids, z)[b]) = T[b] - T[b - 1]
      /\ Len(Blocks(ids, z)[b]) \in Nat \ {0}
  <2>1. AreBlocks(ids, z, T, m)
    BY BlocksOK
  <2>. QED  BY <2>1, Zenon DEF AreBlocks
<1>2. PICK d : d = DeltasAt(ids, z, b)
  OBVIOUS
<1>3. PICK B : B = Blocks(ids, z)[b]
  OBVIOUS
<1>4. d \in Seq(0 .. MaxWord) /\ Len(d) = Len(B) /\ DeltaDecode(d) = Whole(B)
  BY <1>1, <1>2, <1>3, DeltasOK, DeltaRoundTrip DEF DeltasAt
<1>5. d \in Seq(Nat)
  <2>1. 0 .. MaxWord \subseteq Nat
    OBVIOUS
  <2>. QED  BY <1>4, <2>1, SeqMonotonic
<1>6. LaneOf(d) \in {1, 2, 4} /\ FitLane(d, LaneOf(d))
  BY <1>4, LaneOK DEF FitLane
<1>. QED  BY <1>1, <1>2, <1>3, <1>4, <1>5, <1>6 DEF BlockFits, LaneAt

(* What fixed encoding makes: headers that say where the ids and the bytes *)
(* of each block begin, and a payload that holds the deltas there.         *)
IsFixed(G, p, ids, z, m, T) ==
  /\ FixedEncode(ids, z) =
       [count |-> Len(ids), blocks |-> [b \in 1 .. m |-> HeaderAt(ids, z, T, G, b)], payload |-> p]
  /\ p \in Seq(Nat) /\ G \in [0 .. m -> Nat] /\ G[0] = 0 /\ G[m] = Len(p)
  /\ \A b \in 1 .. m : /\ G[b] = G[b - 1] + Len(DeltasAt(ids, z, b)) * LaneAt(ids, z, b)
                       /\ G[b - 1] < G[b] /\ G[b] <= Len(p)
                       /\ HoldsBlock(p, G[b - 1], DeltasAt(ids, z, b), LaneAt(ids, z, b))

(* FixedEncode returns what IsFixed says.                                  *)
LEMMA FixedOK ==
  ASSUME NEW ids, IdList(ids), NEW z \in Nat \ {0}, NEW m, m = (Len(ids) + z - 1) \div z,
         NEW T, T = Cuts(Len(ids), z)
  PROVE  \E G, p : IsFixed(G, p, ids, z, m, T)
<1>1. PICK n \in Nat : n = Len(ids)
  BY IdsOf
<1>2. AreCuts(T, m, n, z)
  BY <1>1, CutsOK
<1>3. m \in Nat /\ T \in [0 .. m -> Nat] /\ T[0] = 0
  BY <1>2 DEF AreCuts
<1>4. DOMAIN Blocks(ids, z) = 1 .. m
  <2>1. AreBlocks(ids, z, T, m)
    BY BlocksOK
  <2>. QED  BY <2>1, Zenon DEF AreBlocks
<1>. DEFINE d(b) == DeltasAt(ids, z, b)
            lane(b) == LaneAt(ids, z, b)
            seqs == [b \in 1 .. m |-> LaneBytes(d(b), lane(b))]
            counts == [b \in 1 .. m |-> Len(d(b))]
            lens == [b \in 1 .. m |-> Len(d(b)) * lane(b)]
            deltas == [b \in 1 .. m |-> DeltaEncode(Blocks(ids, z)[b])]
<1>5. ASSUME NEW b \in 1 .. m
      PROVE  d(b) \in Seq(Nat) /\ Len(d(b)) \in Nat \ {0} /\ Len(d(b)) = T[b] - T[b - 1] /\ lane(b) \in {1, 2, 4}
  <2>1. BlockFits(ids, z, T, b)
    BY BlocksFit
  <2>. QED  BY <2>1, Zenon DEF BlockFits
<1>6. FixedEncode(ids, z) =
        [count |-> Len(ids),
         blocks |-> [b \in 1 .. m |-> [start |-> Offsets(counts)[b], count |-> Len(d(b)),
                                       at |-> Offsets(lens)[b], lane |-> lane(b)]],
         payload |-> FlattenSeq(seqs)]
  <2>1. deltas = [b \in DOMAIN Blocks(ids, z) |-> DeltaEncode(Blocks(ids, z)[b])]
    BY <1>4
  <2>2. DOMAIN deltas = 1 .. m
    OBVIOUS
  <2>3. \A b \in 1 .. m : deltas[b] = d(b)
    BY DEF DeltasAt
  <2>4. FixedEncode(ids, z) =
          LET dd == [b \in DOMAIN Blocks(ids, z) |-> DeltaEncode(Blocks(ids, z)[b])]
              ln(b) == LaneOf(dd[b])
          IN  [count |-> Len(ids),
               blocks |-> [b \in DOMAIN dd |->
                             [start |-> Offsets([c \in DOMAIN dd |-> Len(dd[c])])[b], count |-> Len(dd[b]),
                              at |-> Offsets([c \in DOMAIN dd |-> Len(dd[c]) * ln(c)])[b], lane |-> ln(b)]],
               payload |-> FlattenSeq([b \in DOMAIN dd |-> LaneBytes(dd[b], ln(b))])]
    BY Zenon DEF FixedEncode, LaneBytes
  <2>. HIDE DEF deltas
  <2>5. FixedEncode(ids, z) =
          [count |-> Len(ids),
           blocks |-> [b \in 1 .. m |->
                         [start |-> Offsets([c \in 1 .. m |-> Len(deltas[c])])[b], count |-> Len(deltas[b]),
                          at |-> Offsets([c \in 1 .. m |-> Len(deltas[c]) * LaneOf(deltas[c])])[b],
                          lane |-> LaneOf(deltas[b])]],
           payload |-> FlattenSeq([b \in 1 .. m |-> LaneBytes(deltas[b], LaneOf(deltas[b]))])]
    BY <2>1, <2>2, <2>4
  <2>6. counts = [c \in 1 .. m |-> Len(deltas[c])]
    BY <2>3
  <2>7. lens = [c \in 1 .. m |-> Len(deltas[c]) * LaneOf(deltas[c])]
    BY <2>3 DEF LaneAt
  <2>8. seqs = [b \in 1 .. m |-> LaneBytes(deltas[b], LaneOf(deltas[b]))]
    BY <2>3 DEF LaneAt
  <2>9. PICK oc, ol : oc = Offsets(counts) /\ ol = Offsets(lens)
    OBVIOUS
  <2>10. [b \in 1 .. m |-> [start |-> oc[b], count |-> Len(deltas[b]), at |-> ol[b], lane |-> LaneOf(deltas[b])]]
           = [b \in 1 .. m |-> [start |-> oc[b], count |-> Len(d(b)), at |-> ol[b], lane |-> lane(b)]]
    <3>. HIDE DEF counts, lens, seqs
    <3>. QED  BY <2>3 DEF LaneAt
  <2>. HIDE DEF counts, lens, seqs, d, lane
  <2>11. FixedEncode(ids, z) =
          [count |-> Len(ids),
           blocks |-> [b \in 1 .. m |-> [start |-> oc[b], count |-> Len(deltas[b]), at |-> ol[b],
                                         lane |-> LaneOf(deltas[b])]],
           payload |-> FlattenSeq(seqs)]
    BY <2>5, <2>6, <2>7, <2>8, <2>9
  <2>. QED  BY <2>9, <2>10, <2>11
<1>7. ASSUME NEW b \in 1 .. m
      PROVE  /\ seqs[b] = LaneBytes(d(b), lane(b)) /\ seqs[b] \in Seq(Nat) /\ Len(seqs[b]) = Len(d(b)) * lane(b)
             /\ Len(seqs[b]) \in Nat \ {0}
             /\ \A k \in 1 .. Len(d(b)), x \in Nat : x = (k - 1) * lane(b) => Stored(seqs[b], x, d(b)[k], lane(b))
  <2>1. PICK c \in Seq(Nat) : c = d(b) /\ Len(c) \in Nat \ {0}
    BY <1>5
  <2>2. PICK l \in Nat \ {0} : l = lane(b)
    BY <1>5
  <2>3. PICK y : y = seqs[b] /\ y = LaneBytes(d(b), lane(b))
    OBVIOUS
  <2>. HIDE DEF seqs, d, lane
  <2>4. y = LaneBytes(c, l)
    BY <2>1, <2>2, <2>3
  <2>5. /\ y \in Seq(Nat) /\ Len(y) = Len(c) * l
        /\ \A k \in 1 .. Len(c), x \in Nat : x = (k - 1) * l => Stored(y, x, c[k], l)
    BY <2>4, LaneBytesOK
  <2>6. Len(c) * l \in Nat \ {0}
    <3>1. PICK e \in Nat : Len(c) = e + 1
      <4>1. Len(c) - 1 \in Nat /\ Len(c) = (Len(c) - 1) + 1
        BY <2>1
      <4>. QED  BY <4>1
    <3>2. (e + 1) * l = e * l + l /\ e * l \in Nat
      OBVIOUS
    <3>. QED  BY <3>1, <3>2
  <2>. QED  BY <2>1, <2>2, <2>3, <2>4, <2>5, <2>6
<1>8. seqs \in Seq(Seq(Nat)) /\ Len(seqs) = m
  <2>1. seqs \in [1 .. m -> Seq(Nat)]
    BY <1>7
  <2>. HIDE DEF seqs
  <2>. QED  BY <1>3, <2>1
<1>9. PICK F : IsFlat(F, seqs, Nat)
  <2>. HIDE DEF seqs
  <2>. QED  BY <1>8, FlatExists
<1>. DEFINE G == [k \in 0 .. m |-> Len(F[k])]
            p == FlattenSeq(seqs)
<1>10. Offsets(lens) = [k \in 1 .. m + 1 |-> G[k - 1]] /\ IsSum(lens, G)
  <2>1. lens = [b \in 1 .. Len(seqs) |-> Len(seqs[b])]
    <3>. HIDE DEF seqs, d, lane
    <3>. QED  BY <1>7, <1>8
  <2>2. G = [k \in 0 .. Len(seqs) |-> Len(F[k])]
    BY <1>8
  <2>. HIDE DEF seqs, lens, G
  <2>3. lens \in Seq(Nat) /\ Len(lens) = m /\ IsSum(lens, G)
    BY <1>8, <1>9, <2>1, <2>2, FlatSums
  <2>. QED  BY <2>3, OffsetsAre
<1>11. Offsets(counts) = [k \in 1 .. m + 1 |-> T[k - 1]]
  <2>1. counts \in Seq(Nat) /\ Len(counts) = m
    <3>1. counts \in [1 .. m -> Nat]
      BY <1>5
    <3>. HIDE DEF counts
    <3>. QED  BY <1>3, <3>1
  <2>2. ASSUME NEW b \in 1 .. m PROVE T[b] = T[b - 1] + counts[b]
    <3>1. T[b] \in Nat /\ T[b - 1] \in Nat
      <4>1. b \in 0 .. m /\ b - 1 \in 0 .. m
        BY <1>3
      <4>. QED  BY <1>3, <4>1
    <3>2. counts[b] = T[b] - T[b - 1]
      BY <1>5
    <3>. HIDE DEF counts
    <3>. QED  BY <3>1, <3>2
  <2>. HIDE DEF counts
  <2>3. IsSum(counts, T)
    BY <1>3, <2>1, <2>2 DEF IsSum
  <2>. QED  BY <2>1, <2>3, OffsetsAre
<1>12. p = F[m] /\ p \in Seq(Nat)
  <2>. HIDE DEF seqs
  <2>1. p = F[m]
    BY <1>8, <1>9, FlattenRuns
  <2>2. m \in 0 .. Len(seqs)
    BY <1>3, <1>8
  <2>3. F[m] \in Seq(Nat)
    BY <1>9, <2>2 DEF IsFlat
  <2>. QED  BY <2>1, <2>3
<1>13. G \in [0 .. m -> Nat] /\ G[0] = 0 /\ G[m] = Len(p)
  <2>1. G[m] = Len(p)
    BY <1>3, <1>12
  <2>2. Len(lens) = m
    BY <1>3
  <2>. HIDE DEF G, lens
  <2>. QED  BY <1>10, <2>1, <2>2 DEF IsSum
<1>14. ASSUME NEW b \in 1 .. m
       PROVE  /\ G[b] = G[b - 1] + Len(d(b)) * lane(b) /\ G[b - 1] < G[b] /\ G[b] <= Len(p)
              /\ HoldsBlock(p, G[b - 1], d(b), lane(b))
  <2>1. b - 1 \in 0 .. m /\ b \in 0 .. m /\ b \in 1 .. Len(seqs)
    BY <1>3, <1>8
  <2>2. G[b - 1] = Len(F[b - 1]) /\ G[b] = Len(F[b])
    BY <2>1
  <2>3. Situated(seqs, F, b)
    <3>. HIDE DEF seqs
    <3>. QED  BY <1>8, <1>9, <2>1, FlatPlaces
  <2>. HIDE DEF G, seqs, d, lane
  <2>4. /\ Len(F[b - 1]) \in Nat /\ Len(seqs[b]) \in Nat /\ Len(F[b]) = Len(F[b - 1]) + Len(seqs[b])
        /\ Len(F[b]) <= Len(p)
        /\ \A j \in 1 .. Len(seqs[b]) : p[Len(F[b - 1]) + j] = seqs[b][j]
    BY <2>3 DEF Situated
  <2>. HIDE DEF p
  <2>5. PICK from \in Nat : from = G[b - 1] /\ from = Len(F[b - 1])
    BY <2>2, <2>4
  <2>6. PICK y : y = seqs[b]
    OBVIOUS
  <2>7. PICK w \in Nat \ {0} : w = Len(y) /\ w = Len(d(b)) * lane(b)
    BY <1>7, <2>6
  <2>8. G[b] = from + w
    BY <2>2, <2>4, <2>5, <2>6, <2>7
  <2>9. HoldsBlock(p, from, d(b), lane(b))
    <3>1. PICK c : c = d(b)
      OBVIOUS
    <3>2. PICK l \in Nat : l = lane(b)
      <4>1. lane(b) \in {1, 2, 4}
        BY <1>5
      <4>2. lane(b) \in Nat
        BY <4>1
      <4>. QED  BY <4>2
    <3>3. PICK e \in Nat : e = Len(c)
      <4>1. Len(d(b)) \in Nat
        BY <1>5
      <4>. QED  BY <3>1, <4>1
    <3>4. ASSUME NEW k \in 1 .. e, NEW x \in Nat, x = (k - 1) * l PROVE Stored(p, from + x, c[k], l)
      <4>1. Stored(y, x, c[k], l)
        BY <1>7, <2>6, <3>1, <3>2, <3>3, <3>4
      <4>2. x + l <= w
        <5>1. PICK r \in Nat : e = k + r
          <6>1. e - k \in Nat /\ e = k + (e - k)
            OBVIOUS
          <6>. QED  BY <6>1
        <5>2. (k + r) * l = (k - 1) * l + l + r * l /\ r * l \in Nat
          <6>1. k \in Nat
            OBVIOUS
          <6>. QED  BY <6>1
        <5>3. w = e * l
          BY <2>7, <3>1, <3>2, <3>3
        <5>. QED  BY <3>4, <5>1, <5>2, <5>3
      <4>3. ASSUME NEW i \in 1 .. l PROVE p[(from + x) + i] = FixedBytes(c[k], l)[i]
        <5>1. x + i \in 1 .. w /\ (from + x) + i = from + (x + i)
          BY <4>2
        <5>2. p[from + (x + i)] = y[x + i]
          BY <2>4, <2>5, <2>6, <2>7, <5>1
        <5>3. y[x + i] = FixedBytes(c[k], l)[i]
          BY <4>1 DEF Stored
        <5>. QED  BY <5>1, <5>2, <5>3
      <4>. QED  BY <4>3 DEF Stored
    <3>5. HoldsBlock(p, from, c, l)
      BY <3>3, <3>4 DEF HoldsBlock
    <3>. QED  BY <3>1, <3>2, <3>5
  <2>10. from < from + w
    OBVIOUS
  <2>. QED  BY <2>2, <2>4, <2>5, <2>7, <2>8, <2>9, <2>10
<1>15. FixedEncode(ids, z) =
         [count |-> Len(ids), blocks |-> [b \in 1 .. m |-> HeaderAt(ids, z, T, G, b)], payload |-> p]
  <2>1. PICK oc, ol : oc = Offsets(counts) /\ ol = Offsets(lens)
    OBVIOUS
  <2>2. \A b \in 1 .. m : b \in 1 .. m + 1
    BY <1>3
  <2>. HIDE DEF counts, lens, G, seqs
  <2>3. \A b \in 1 .. m : oc[b] = T[b - 1] /\ ol[b] = G[b - 1]
    BY <1>10, <1>11, <2>1, <2>2
  <2>4. \A b \in 1 .. m : [start |-> oc[b], count |-> Len(d(b)), at |-> ol[b], lane |-> lane(b)]
                            = HeaderAt(ids, z, T, G, b)
    BY <2>3 DEF HeaderAt
  <2>5. [b \in 1 .. m |-> [start |-> oc[b], count |-> Len(d(b)), at |-> ol[b], lane |-> lane(b)]]
          = [b \in 1 .. m |-> HeaderAt(ids, z, T, G, b)]
    BY <2>4
  <2>. HIDE DEF d, lane
  <2>. QED  BY <1>6, <2>1, <2>5
<1>. HIDE DEF G, p
<1>16. IsFixed(G, p, ids, z, m, T)
  BY <1>12, <1>13, <1>14, <1>15 DEF IsFixed
<1>. QED  BY <1>16

(* The first headers.                                                      *)
Heads(e, ids, z, T, G, k) == e.blocks = [b \in 1 .. k |-> HeaderAt(ids, z, T, G, b)]

(* Their sums are the cuts.                                                *)
Tabled(e, T, G, k) ==
  /\ Offsets([b \in DOMAIN e.blocks |-> e.blocks[b].count]) = [j \in 1 .. k + 1 |-> T[j - 1]]
  /\ Offsets([b \in DOMAIN e.blocks |-> e.blocks[b].count * e.blocks[b].lane]) = [j \in 1 .. k + 1 |-> G[j - 1]]

(* The first k headers add up to the first k cuts.                         *)
LEMMA FixedOffsets ==
  ASSUME NEW ids, IdList(ids), NEW z \in Nat \ {0}, NEW m, m = (Len(ids) + z - 1) \div z,
         NEW T, T = Cuts(Len(ids), z), NEW G, NEW p, IsFixed(G, p, ids, z, m, T),
         NEW k \in 0 .. m, NEW e, Heads(e, ids, z, T, G, k)
  PROVE  Tabled(e, T, G, k)
<1>. DEFINE c(b) == Len(DeltasAt(ids, z, b))
            l(b) == LaneAt(ids, z, b)
            counts == [b \in 1 .. k |-> c(b)]
            lens == [b \in 1 .. k |-> c(b) * l(b)]
            T1 == [b \in 0 .. k |-> T[b]]
            G1 == [b \in 0 .. k |-> G[b]]
<1>1. PICK n \in Nat : n = Len(ids)
  BY IdsOf
<1>2. m \in Nat /\ T \in [0 .. m -> Nat] /\ T[0] = 0
  <2>1. AreCuts(T, m, n, z)
    BY <1>1, CutsOK
  <2>. QED  BY <2>1 DEF AreCuts
<1>3. k \in Nat /\ k <= m
  BY <1>2
<1>4. ASSUME NEW b \in 1 .. k
      PROVE  /\ b \in 1 .. m /\ b - 1 \in 0 .. m /\ b \in 0 .. m /\ b - 1 \in 0 .. k /\ b \in 0 .. k
             /\ c(b) \in Nat /\ l(b) \in Nat /\ c(b) = T[b] - T[b - 1] /\ G[b] = G[b - 1] + c(b) * l(b)
  <2>1. b \in 1 .. m /\ b - 1 \in 0 .. m /\ b \in 0 .. m /\ b - 1 \in 0 .. k /\ b \in 0 .. k
    BY <1>3
  <2>2. c(b) \in Nat \ {0} /\ c(b) = T[b] - T[b - 1] /\ l(b) \in {1, 2, 4}
    <3>1. BlockFits(ids, z, T, b)
      BY <2>1, BlocksFit
    <3>. QED  BY <3>1, Zenon DEF BlockFits
  <2>3. G[b] = G[b - 1] + c(b) * l(b)
    BY <2>1, Zenon DEF IsFixed
  <2>4. c(b) \in Nat /\ l(b) \in Nat
    BY <2>2
  <2>. HIDE DEF c, l
  <2>. QED  BY <2>1, <2>2, <2>3, <2>4
<1>5. DOMAIN e.blocks = 1 .. k /\ \A b \in 1 .. k : e.blocks[b].count = c(b) /\ e.blocks[b].lane = l(b)
  BY DEF Heads, HeaderAt
<1>6. /\ counts = [b \in DOMAIN e.blocks |-> e.blocks[b].count]
      /\ lens = [b \in DOMAIN e.blocks |-> e.blocks[b].count * e.blocks[b].lane]
  BY <1>5
<1>7. counts \in Seq(Nat) /\ Len(counts) = k
  <2>1. counts \in [1 .. k -> Nat]
    BY <1>4
  <2>. HIDE DEF counts
  <2>. QED  BY <1>3, <2>1
<1>8. lens \in Seq(Nat) /\ Len(lens) = k
  <2>1. ASSUME NEW b \in 1 .. k PROVE c(b) * l(b) \in Nat
    <3>1. PICK x \in Nat, y \in Nat : x = c(b) /\ y = l(b)
      BY <1>4
    <3>2. x * y \in Nat
      OBVIOUS
    <3>. QED  BY <3>1, <3>2
  <2>. HIDE DEF c, l
  <2>2. lens \in [1 .. k -> Nat]
    BY <2>1
  <2>. HIDE DEF lens
  <2>. QED  BY <1>3, <2>2
<1>9. IsSum(counts, T1)
  <2>1. T1 \in [0 .. k -> Nat] /\ T1[0] = 0
    <3>1. 0 \in 0 .. k /\ \A b \in 0 .. k : b \in 0 .. m
      BY <1>3
    <3>. QED  BY <1>2, <3>1
  <2>2. ASSUME NEW b \in 1 .. k PROVE T1[b] = T1[b - 1] + counts[b]
    <3>1. T1[b] = T[b] /\ T1[b - 1] = T[b - 1] /\ counts[b] = c(b)
      BY <1>4
    <3>2. T[b] \in Nat /\ T[b - 1] \in Nat /\ c(b) = T[b] - T[b - 1]
      BY <1>2, <1>4
    <3>. HIDE DEF T1, counts, c
    <3>. QED  BY <3>1, <3>2
  <2>. HIDE DEF T1, counts
  <2>. QED  BY <1>7, <2>1, <2>2 DEF IsSum
<1>10. IsSum(lens, G1)
  <2>1. G1 \in [0 .. k -> Nat] /\ G1[0] = 0
    <3>1. 0 \in 0 .. k /\ \A b \in 0 .. k : b \in 0 .. m
      BY <1>3
    <3>2. G \in [0 .. m -> Nat] /\ G[0] = 0
      BY DEF IsFixed
    <3>. QED  BY <3>1, <3>2
  <2>2. ASSUME NEW b \in 1 .. k PROVE G1[b] = G1[b - 1] + lens[b]
    <3>1. G1[b] = G[b] /\ G1[b - 1] = G[b - 1] /\ lens[b] = c(b) * l(b)
      BY <1>4
    <3>2. G[b] = G[b - 1] + c(b) * l(b)
      BY <1>4
    <3>. HIDE DEF G1, lens, c, l
    <3>. QED  BY <3>1, <3>2
  <2>. HIDE DEF G1, lens
  <2>. QED  BY <1>8, <2>1, <2>2 DEF IsSum
<1>11. Offsets(counts) = [j \in 1 .. k + 1 |-> T[j - 1]]
  <2>1. \A j \in 1 .. k + 1 : j - 1 \in 0 .. k
    BY <1>3
  <2>2. \A j \in 1 .. k + 1 : T1[j - 1] = T[j - 1]
    BY <2>1
  <2>. HIDE DEF T1, counts
  <2>3. Offsets(counts) = [j \in 1 .. k + 1 |-> T1[j - 1]]
    BY <1>7, <1>9, OffsetsAre
  <2>. QED  BY <2>2, <2>3
<1>12. Offsets(lens) = [j \in 1 .. k + 1 |-> G[j - 1]]
  <2>1. \A j \in 1 .. k + 1 : j - 1 \in 0 .. k
    BY <1>3
  <2>2. \A j \in 1 .. k + 1 : G1[j - 1] = G[j - 1]
    BY <2>1
  <2>. HIDE DEF G1, lens
  <2>3. Offsets(lens) = [j \in 1 .. k + 1 |-> G1[j - 1]]
    BY <1>8, <1>10, OffsetsAre
  <2>. QED  BY <2>2, <2>3
<1>. HIDE DEF counts, lens
<1>. QED  BY <1>6, <1>11, <1>12 DEF Tabled

(* With all headers and the whole payload the checks pass.                 *)
LEMMA FixedSound ==
  ASSUME NEW ids, IdList(ids), NEW z \in Nat \ {0}, NEW m, m = (Len(ids) + z - 1) \div z,
         NEW T, T = Cuts(Len(ids), z), NEW G, NEW p, IsFixed(G, p, ids, z, m, T),
         NEW e, Heads(e, ids, z, T, G, m), e.payload = p, e.count = Len(ids)
  PROVE  Sound(e)
<1>1. PICK n \in Nat : n = Len(ids)
  BY IdsOf
<1>2. m \in Nat /\ T \in [0 .. m -> Nat] /\ T[0] = 0 /\ T[m] = n /\ \A b \in 1 .. m : T[b] <= n
  <2>1. AreCuts(T, m, n, z)
    BY <1>1, CutsOK
  <2>. QED  BY <2>1 DEF AreCuts
<1>3. PICK starts, ats : /\ starts = Offsets([b \in DOMAIN e.blocks |-> e.blocks[b].count])
                         /\ ats = Offsets([b \in DOMAIN e.blocks |-> e.blocks[b].count * e.blocks[b].lane])
  OBVIOUS
<1>4. starts = [j \in 1 .. m + 1 |-> T[j - 1]] /\ ats = [j \in 1 .. m + 1 |-> G[j - 1]]
  <2>1. m \in 0 .. m
    BY <1>2
  <2>2. Tabled(e, T, G, m)
    BY <2>1, FixedOffsets
  <2>. QED  BY <1>3, <2>2 DEF Tabled
<1>5. G \in [0 .. m -> Nat] /\ G[m] = Len(p)
  BY DEF IsFixed
<1>6. DOMAIN e.blocks = 1 .. m
  BY DEF Heads
<1>7. ASSUME NEW b \in 1 .. m
      PROVE  /\ e.blocks[b].start = starts[b] /\ e.blocks[b].at = ats[b]
             /\ e.blocks[b].count # 0 /\ starts[b + 1] <= e.count
             /\ e.blocks[b].lane \in {1, 2, 4} /\ ats[b + 1] <= Len(e.payload)
  <2>1. b \in 1 .. m + 1 /\ b + 1 \in 1 .. m + 1 /\ (b + 1) - 1 = b
    BY <1>2
  <2>2. starts[b] = T[b - 1] /\ ats[b] = G[b - 1] /\ starts[b + 1] = T[b] /\ ats[b + 1] = G[b]
    BY <1>4, <2>1
  <2>3. /\ e.blocks[b].start = T[b - 1] /\ e.blocks[b].at = G[b - 1]
        /\ e.blocks[b].count = Len(DeltasAt(ids, z, b)) /\ e.blocks[b].lane = LaneAt(ids, z, b)
    BY DEF Heads, HeaderAt
  <2>4. Len(DeltasAt(ids, z, b)) \in Nat \ {0} /\ LaneAt(ids, z, b) \in {1, 2, 4}
    <3>1. BlockFits(ids, z, T, b)
      BY BlocksFit
    <3>. QED  BY <3>1, Zenon DEF BlockFits
  <2>5. T[b] <= n
    BY <1>2
  <2>6. G[b] <= Len(p)
    BY Zenon DEF IsFixed
  <2>. QED  BY <1>1, <2>2, <2>3, <2>4, <2>5, <2>6
<1>8. Last(starts) = e.count /\ Last(ats) = Len(e.payload)
  <2>1. Len(starts) = m + 1 /\ Len(ats) = m + 1
    BY <1>2, <1>4
  <2>2. starts[m + 1] = T[m] /\ ats[m + 1] = G[m]
    <3>1. m + 1 \in 1 .. m + 1 /\ (m + 1) - 1 = m
      BY <1>2
    <3>. QED  BY <1>4, <3>1
  <2>. QED  BY <1>1, <1>2, <1>5, <2>1, <2>2 DEF Last
<1>. QED  BY <1>3, <1>6, <1>7, <1>8 DEF Sound

(* Decoding at any width gives the list that was encoded.                  *)
LEMMA FixedRoundTrip ==
  ASSUME NEW ids, IdList(ids), NEW z \in Nat \ {0}, NEW width \in Nat \ {0}
  PROVE  FixedDecode(FixedEncode(ids, z), width) = Whole(ids)
<1>. DEFINE m == (Len(ids) + z - 1) \div z
            T == Cuts(Len(ids), z)
            e == FixedEncode(ids, z)
<1>1. PICK n \in Nat : n = Len(ids) /\ ids \in Seq(Nat)
  BY IdsOf
<1>2. m \in Nat /\ T[m] = n
  <2>1. AreCuts(T, m, Len(ids), z)
    BY <1>1, CutsOK
  <2>. QED  BY <1>1, <2>1 DEF AreCuts
<1>3. PICK G, p : IsFixed(G, p, ids, z, m, T)
  BY FixedOK
<1>4. m = (Len(ids) + z - 1) \div z /\ T = Cuts(Len(ids), z)
  OBVIOUS
<1>. HIDE DEF m, T
<1>5. e = [count |-> Len(ids), blocks |-> [b \in 1 .. m |-> HeaderAt(ids, z, T, G, b)], payload |-> p]
  BY <1>3, Zenon DEF IsFixed
<1>. HIDE DEF e
<1>6. e.count = Len(ids) /\ e.payload = p /\ e.blocks = [b \in 1 .. m |-> HeaderAt(ids, z, T, G, b)]
  BY <1>5
<1>7. Sound(e)
  <2>1. Heads(e, ids, z, T, G, m)
    BY <1>6 DEF Heads
  <2>. QED  BY <1>3, <1>4, <1>6, <2>1, FixedSound
<1>8. ASSUME NEW b \in 1 .. m
      PROVE  DeltaDecode(Unpack(e.payload, e.blocks[b], width)) = Whole(Blocks(ids, z)[b])
  <2>1. BlockFits(ids, z, T, b)
    BY <1>4, BlocksFit
  <2>2. PICK d \in Seq(Nat) : /\ d = DeltasAt(ids, z, b) /\ FitLane(d, LaneAt(ids, z, b))
                              /\ DeltaDecode(d) = Whole(Blocks(ids, z)[b])
    BY <2>1, Zenon DEF BlockFits
  <2>3. PICK lane \in Nat : lane = LaneAt(ids, z, b)
    <3>1. LaneAt(ids, z, b) \in {1, 2, 4}
      BY <2>1, Zenon DEF BlockFits
    <3>2. LaneAt(ids, z, b) \in Nat
      BY <3>1
    <3>. QED  BY <3>2
  <2>4. PICK block : block = e.blocks[b] /\ block = HeaderAt(ids, z, T, G, b)
    BY <1>6
  <2>5. block.count = Len(d) /\ block.lane = lane /\ block.at = G[b - 1]
    BY <2>2, <2>3, <2>4 DEF HeaderAt
  <2>6. block.at \in Nat
    <3>1. b - 1 \in 0 .. m
      BY <1>2
    <3>2. G \in [0 .. m -> Nat]
      BY <1>3 DEF IsFixed
    <3>. QED  BY <2>5, <3>1, <3>2
  <2>7. HoldsBlock(p, block.at, d, lane)
    <3>1. HoldsBlock(p, G[b - 1], DeltasAt(ids, z, b), LaneAt(ids, z, b))
      BY <1>3, Zenon DEF IsFixed
    <3>. QED  BY <2>2, <2>3, <2>5, <3>1
  <2>8. FitLane(d, lane)
    BY <2>2, <2>3
  <2>9. Unpack(p, block, width) = d
    BY <2>5, <2>6, <2>7, <2>8, UnpackBlock
  <2>. QED  BY <1>6, <2>2, <2>4, <2>9
<1>9. [b \in DOMAIN e.blocks |-> DeltaDecode(Unpack(e.payload, e.blocks[b], width))] = FirstBlocks(ids, z, m)
  <2>1. DOMAIN e.blocks = 1 .. m
    BY <1>6
  <2>. QED  BY <1>8, <2>1 DEF FirstBlocks
<1>10. Joined(FirstBlocks(ids, z, m)) = Whole(SubSeq(ids, 1, T[m]))
  <2>1. m \in 0 .. m
    BY <1>2
  <2>. QED  BY <1>4, <2>1, BlocksJoin
<1>11. SubSeq(ids, 1, T[m]) = ids
  BY <1>1, <1>2, SubSeqFull
<1>12. FixedDecode(e, width) = Joined([b \in DOMAIN e.blocks |-> DeltaDecode(Unpack(e.payload, e.blocks[b], width))])
  BY <1>7 DEF FixedDecode
<1>. QED  BY <1>9, <1>10, <1>11, <1>12 DEF e

(* What passes the checks has all its ids and all its bytes.               *)
LEMMA SoundEnds ==
  ASSUME NEW ids, IdList(ids), NEW z \in Nat \ {0}, NEW m, m = (Len(ids) + z - 1) \div z,
         NEW T, T = Cuts(Len(ids), z), NEW G, NEW p, IsFixed(G, p, ids, z, m, T),
         NEW k \in 0 .. m, NEW e, Heads(e, ids, z, T, G, k), Sound(e)
  PROVE  T[k] = e.count /\ G[k] = Len(e.payload)
<1>1. PICK n \in Nat : n = Len(ids)
  BY IdsOf
<1>2. k \in Nat
  <2>1. AreCuts(T, m, n, z)
    BY <1>1, CutsOK
  <2>2. m \in Nat
    BY <2>1 DEF AreCuts
  <2>. QED  BY <2>2
<1>3. PICK starts, ats : /\ starts = Offsets([b \in DOMAIN e.blocks |-> e.blocks[b].count])
                         /\ ats = Offsets([b \in DOMAIN e.blocks |-> e.blocks[b].count * e.blocks[b].lane])
  OBVIOUS
<1>4. starts = [j \in 1 .. k + 1 |-> T[j - 1]] /\ ats = [j \in 1 .. k + 1 |-> G[j - 1]]
  <2>1. Tabled(e, T, G, k)
    BY FixedOffsets
  <2>. QED  BY <1>3, <2>1 DEF Tabled
<1>5. Last(starts) = e.count /\ Last(ats) = Len(e.payload)
  BY <1>3, Zenon DEF Sound
<1>6. Last(starts) = T[k] /\ Last(ats) = G[k]
  <2>1. Len(starts) = k + 1 /\ Len(ats) = k + 1
    BY <1>2, <1>4
  <2>2. starts[k + 1] = T[k] /\ ats[k + 1] = G[k]
    <3>1. k + 1 \in 1 .. k + 1 /\ (k + 1) - 1 = k
      BY <1>2
    <3>. QED  BY <1>4, <3>1
  <2>. QED  BY <2>1, <2>2 DEF Last
<1>. QED  BY <1>5, <1>6

(* Without the last byte or the last header the checks fail.               *)
LEMMA FixedCut ==
  ASSUME NEW ids, IdList(ids), ids # <<>>, NEW z \in Nat \ {0}, NEW e,
         LET f == FixedEncode(ids, z)
         IN  \/ e = [f EXCEPT !.payload = Front(@)]
             \/ e.blocks = Front(f.blocks) /\ e.count = f.count
  PROVE  ~Sound(e)
<1>. DEFINE m == (Len(ids) + z - 1) \div z
            T == Cuts(Len(ids), z)
            f == FixedEncode(ids, z)
<1>1. PICK n \in Nat \ {0} : n = Len(ids)
  <2>1. ids \in Seq(Nat)
    BY IdsOf
  <2>. QED  BY <2>1, EmptySeq
<1>2. AreCuts(T, m, n, z)
  BY <1>1, CutsOK
<1>3. PICK G, p : IsFixed(G, p, ids, z, m, T)
  BY FixedOK
<1>4. m = (Len(ids) + z - 1) \div z /\ T = Cuts(Len(ids), z)
  OBVIOUS
<1>. HIDE DEF m, T
<1>5. f = [count |-> Len(ids), blocks |-> [b \in 1 .. m |-> HeaderAt(ids, z, T, G, b)], payload |-> p]
  BY <1>3, Zenon DEF IsFixed
<1>6. e = [f EXCEPT !.payload = Front(@)] \/ (e.blocks = Front(f.blocks) /\ e.count = f.count)
  OBVIOUS
<1>. HIDE DEF f
<1>7. m \in Nat \ {0} /\ T \in [0 .. m -> Nat] /\ T[m] = n /\ T[m - 1] < T[m]
  <2>1. m \in Nat /\ m > 0
    BY <1>1, <1>2 DEF AreCuts
  <2>2. m \in 1 .. m
    BY <2>1
  <2>. QED  BY <1>2, <2>1, <2>2 DEF AreCuts
<1>8. p \in Seq(Nat) /\ G \in [0 .. m -> Nat] /\ G[m] = Len(p) /\ G[m - 1] < G[m]
  <2>1. m \in 1 .. m
    BY <1>7
  <2>. QED  BY <1>3, <2>1, Zenon DEF IsFixed
<1>9. CASE e = [f EXCEPT !.payload = Front(@)]
  <2>1. e.payload = Front(p) /\ e.blocks = [b \in 1 .. m |-> HeaderAt(ids, z, T, G, b)]
    BY <1>5, <1>9
  <2>2. Len(p) \in Nat \ {0}
    <3>1. m - 1 \in 0 .. m /\ m \in 0 .. m
      BY <1>7
    <3>. QED  BY <1>8, <3>1
  <2>3. Len(Front(p)) = Len(p) - 1
    <3>1. PICK k \in Nat : k = Len(p) - 1 /\ k <= Len(p)
      BY <2>2
    <3>2. Len(SubSeq(p, 1, k)) = k
      BY <1>8, <3>1, FirstOnes
    <3>. QED  BY <3>1, <3>2 DEF Front
  <2>4. m \in 0 .. m
    BY <1>7
  <2>5. Heads(e, ids, z, T, G, m)
    BY <2>1 DEF Heads
  <2>6. Sound(e) => G[m] = Len(e.payload)
    BY <1>3, <1>4, <2>4, <2>5, SoundEnds
  <2>. QED  BY <1>8, <2>1, <2>2, <2>3, <2>6
<1>10. CASE e.blocks = Front(f.blocks) /\ e.count = f.count
  <2>1. PICK k \in Nat : k = m - 1 /\ m = k + 1 /\ k \in 0 .. m
    BY <1>7
  <2>. DEFINE H == {HeaderAt(ids, z, T, G, b) : b \in 1 .. m}
              h == [b \in 1 .. m |-> HeaderAt(ids, z, T, G, b)]
  <2>2. f.blocks = h /\ f.count = n
    BY <1>1, <1>5
  <2>3. h \in Seq(H) /\ Len(h) = m /\ \A b \in 1 .. m : h[b] = HeaderAt(ids, z, T, G, b)
    <3>1. h \in [1 .. m -> H]
      OBVIOUS
    <3>2. \A b \in 1 .. m : h[b] = HeaderAt(ids, z, T, G, b)
      OBVIOUS
    <3>. HIDE DEF h, H
    <3>. QED  BY <1>7, <3>1, <3>2
  <2>. HIDE DEF h, H
  <2>4. e.blocks = SubSeq(h, 1, k)
    BY <1>10, <2>1, <2>2, <2>3 DEF Front
  <2>5. \A b \in 1 .. k : SubSeq(h, 1, k)[b] = HeaderAt(ids, z, T, G, b)
    <3>1. k <= Len(h)
      BY <2>1, <2>3
    <3>2. \A b \in 1 .. k : SubSeq(h, 1, k)[b] = h[b]
      BY <2>3, <3>1, FirstOnes
    <3>3. \A b \in 1 .. k : b \in 1 .. m
      BY <2>1
    <3>. QED  BY <2>3, <3>2, <3>3
  <2>6. SubSeq(h, 1, k) = [b \in 1 .. k |-> SubSeq(h, 1, k)[b]]
    <3>1. k <= Len(h)
      BY <2>1, <2>3
    <3>2. SubSeq(h, 1, k) \in Seq(H) /\ Len(SubSeq(h, 1, k)) = k
      BY <2>3, <3>1, FirstOnes
    <3>. QED  BY <3>2
  <2>7. Heads(e, ids, z, T, G, k)
    BY <2>4, <2>5, <2>6 DEF Heads
  <2>8. Sound(e) => T[k] = e.count
    BY <1>3, <1>4, <2>1, <2>7, SoundEnds
  <2>9. T[k] < n
    BY <1>7, <2>1
  <2>10. T[k] \in Nat
    BY <1>7, <2>1
  <2>. QED  BY <1>10, <2>2, <2>8, <2>9, <2>10
<1>. QED  BY <1>6, <1>9, <1>10

-----------------------------------------------------------------------------
(* The list of a caller ascends.                                           *)
LEMMA ListStarts == InitCodecs => IdList(list)
<1>1. <<>> \in Seq(0 .. MaxWord) /\ Len(<<>>) = 0 /\ 1 .. 0 = {}
  OBVIOUS
<1>2. IdList(<<>>)
  BY <1>1 DEF IdList
<1>. QED  BY <1>2 DEF InitCodecs

(* Appending an id that is not smaller keeps a list ascending.             *)
LEMMA ListExtended ==
  ASSUME NEW ids, IdList(ids), NEW id,
         id \in (IF ids = <<>> THEN 0 ELSE Last(ids)) .. MaxWord
  PROVE  IdList(Append(ids, id))
<1>. DEFINE W == 0 .. MaxWord
            e == Append(ids, id)
<1>1. PICK n \in Nat : n = Len(ids)
  BY IdsOf
<1>2. ids \in Seq(W) /\ ids \in Seq(Nat)
  BY IdsOf
<1>3. (\A i \in 1 .. n : ids[i] \in Nat) /\ \A i, j \in 1 .. n : i <= j => ids[i] <= ids[j]
  BY <1>1, IdsOf
<1>4. id \in W /\ id \in Nat /\ (ids # <<>> => Last(ids) <= id)
  <2>1. MaxWord \in Nat
    BY WidthsOK
  <2>2. CASE ids = <<>>
    BY <2>1, <2>2
  <2>3. CASE ids # <<>>
    <3>1. n \in 1 .. n
      BY <1>1, <1>2, <2>3, EmptySeq
    <3>2. Last(ids) \in Nat
      BY <1>1, <1>3, <3>1 DEF Last
    <3>. QED  BY <2>1, <2>3, <3>2
  <2>. QED  BY <2>2, <2>3
<1>5. ASSUME NEW i \in 1 .. n PROVE ids[i] <= id
  <2>1. n \in 1 .. n /\ i <= n
    OBVIOUS
  <2>2. ids # <<>>
    BY <1>1
  <2>3. ids[i] <= ids[n] /\ ids[n] <= id
    BY <1>1, <1>3, <1>4, <2>1, <2>2 DEF Last
  <2>4. ids[i] \in Nat /\ ids[n] \in Nat
    BY <1>3, <2>1
  <2>. QED  BY <1>4, <2>3, <2>4
<1>. HIDE DEF W
<1>6. e \in Seq(W) /\ Len(e) = n + 1 /\ e[n + 1] = id /\ \A i \in 1 .. n : e[i] = ids[i]
  BY <1>1, <1>2, <1>4, AppendProperties
<1>. HIDE DEF e
<1>7. ASSUME NEW i \in 1 .. n + 1, NEW j \in 1 .. n + 1, i <= j PROVE e[i] <= e[j]
  <2>1. CASE i = n + 1
    <3>1. j = n + 1
      BY <1>7, <2>1
    <3>. QED  BY <1>4, <1>6, <2>1, <3>1
  <2>2. CASE i # n + 1
    <3>1. i \in 1 .. n
      BY <2>2
    <3>2. CASE j = n + 1
      BY <1>5, <1>6, <3>1, <3>2
    <3>3. CASE j # n + 1
      <4>1. j \in 1 .. n
        BY <3>3
      <4>. QED  BY <1>3, <1>6, <1>7, <3>1, <4>1
    <3>. QED  BY <3>2, <3>3
  <2>. QED  BY <2>1, <2>2
<1>8. IdList(e)
  BY <1>6, <1>7 DEF IdList, W
<1>. QED  BY <1>8 DEF e

(* A caller's steps keep the list ascending.                               *)
LEMMA ListKept == IdList(list) /\ [NextCodecs]_list => IdList(list)'
<1>. SUFFICES ASSUME IdList(list), [NextCodecs]_list PROVE IdList(list')
  BY DEF IdList, MaxWord
<1>1. CASE UNCHANGED list
  BY <1>1
<1>2. ASSUME NEW id \in (IF list = <<>> THEN 0 ELSE Last(list)) .. MaxWord, list' = Append(list, id)
      PROVE  IdList(list')
  <2>1. IdList(Append(list, id))
    BY <1>2, ListExtended
  <2>. QED  BY <1>2, <2>1
<1>. QED  BY <1>1, <1>2 DEF NextCodecs

(* The codecs are sound on every ascending list.                           *)
LEMMA CodecsHold == IdList(list) => CodecsSound
<1>. SUFFICES ASSUME IdList(list) PROVE CodecsSound
  OBVIOUS
<1>1. 1 \in Nat \ {0} /\ Lanes \in Nat \ {0} /\ BlockSizes \subseteq Nat \ {0}
  BY WidthsOK
<1>2. PICK ids : ids = list
  OBVIOUS
<1>3. IdList(ids)
  BY <1>2
<1>4. VariableDecode(VariableEncode(ids)) = Whole(ids)
  <2>1. ids \in Seq(Nat)
    BY <1>3, IdsOf
  <2>. QED  BY <1>3, VariableRoundTrip
<1>5. ASSUME NEW z \in BlockSizes
      PROVE  /\ BlockedDecode(BlockedEncode(ids, z)) = Whole(ids)
             /\ \A width \in {1, Lanes} : FixedDecode(FixedEncode(ids, z), width) = Whole(ids)
  <2>1. z \in Nat \ {0}
    BY <1>1
  <2>2. BlockedDecode(BlockedEncode(ids, z)) = Whole(ids)
    BY <1>3, <2>1, BlockedRoundTrip
  <2>3. \A width \in Nat \ {0} : FixedDecode(FixedEncode(ids, z), width) = Whole(ids)
    BY <1>3, <2>1, FixedRoundTrip
  <2>. QED  BY <1>1, <2>2, <2>3
<1>6. RoundTrips
  BY <1>2, <1>4, <1>5, Zenon DEF RoundTrips, Whole
<1>7. ~Rejected.ok
  BY DEF Rejected
<1>8. ASSUME NEW z \in BlockSizes, ids # <<>>
      PROVE  /\ ~BlockedDecode([BlockedEncode(ids, z) EXCEPT !.payload = Front(@)]).ok
             /\ ~BlockedDecode([BlockedEncode(ids, z) EXCEPT !.offsets = Front(@)]).ok
  <2>1. z \in Nat \ {0}
    BY <1>1
  <2>. QED  BY <1>3, <1>8, <2>1, BlockedCut
<1>9. ASSUME NEW z \in BlockSizes, ids # <<>>, NEW f, f = FixedEncode(ids, z),
             NEW fewer, fewer = [f EXCEPT !.blocks = Front(@)],
             NEW e \in {[f EXCEPT !.payload = Front(@)], fewer,
                        [fewer EXCEPT !.payload = SubSeq(@, 1, Last(f.blocks).at)]},
             NEW width
      PROVE  ~FixedDecode(e, width).ok
  <2>1. z \in Nat \ {0}
    BY <1>1
  <2>2. \E n, h, p : f = [count |-> n, blocks |-> h, payload |-> p]
    BY <1>9 DEF FixedEncode
  <2>3. e = [f EXCEPT !.payload = Front(@)] \/ (e.blocks = Front(f.blocks) /\ e.count = f.count)
    BY <1>9, <2>2
  <2>4. ~Sound(e)
    BY <1>3, <1>9, <2>1, <2>3, FixedCut
  <2>. QED  BY <1>7, <2>4 DEF FixedDecode
<1>10. CutsRejected
  BY <1>2, <1>8, <1>9, Zenon DEF CutsRejected
<1>. QED  BY <1>6, <1>10 DEF CodecsSound

(* Only a caller of the codecs changes the list.                           *)
LEMMA OnlyCodecs == [Next]_vars => [NextCodecs]_list
BY DEF Next, vars, Storage, Computation

(* Whatever sorted list a caller encodes, with whatever widths, block size *)
(* and lanes, every codec returns the list, and data that lost its end is  *)
(* refused.                                                                *)
THEOREM CodecsSoundAlways == Spec => []CodecsSound
<1>1. Init => IdList(list)
  BY ListStarts DEF Init
<1>2. IdList(list) /\ [Next]_vars => IdList(list)'
  BY OnlyCodecs, ListKept
<1>3. IdList(list) => CodecsSound
  BY CodecsHold
<1>. QED  BY <1>1, <1>2, <1>3, PTL DEF Spec
=============================================================================
