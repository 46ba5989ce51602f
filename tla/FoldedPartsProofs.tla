--------------------------- MODULE FoldedPartsProofs ---------------------------
(***************************************************************************)
(* Proofs about three of the StandaloneParts whose results are folds, for  *)
(* all values of their constants: the temporal graph, which replays a log, *)
(* the intersection kernels, which go round a loop, and the static graph,  *)
(* whose rows are placed edge by edge and whose algorithms go round queues.*)
(*                                                                         *)
(* FoldLeft and FlattenSeq iterate over sets of numbers.  The first        *)
(* section derives from that, once, that a fold has a run: a function from *)
(* 0 .. n to the values after each element, which begins with the base,    *)
(* ends in the result and takes one step at a time.  What a loop keeps is  *)
(* then shown step by step along its run.                                  *)
(***************************************************************************)
EXTENDS StandaloneParts, FiniteSetTheorems, FunctionTheorems, SequenceTheorems,
        WellFoundedInduction, TLAPS

-----------------------------------------------------------------------------
(* Runs of folds.                                                          *)

(* Induction, on a set of numbers. *)
LEMMA AllNumbers ==
  ASSUME NEW n \in Nat, NEW G, 0 \in G, \A k \in 1 .. n : k - 1 \in G => k \in G
  PROVE  0 .. n \subseteq G
<1>. DEFINE L == {k \in 0 .. n : k \notin G}
<1>. SUFFICES ASSUME L # {} PROVE FALSE
  OBVIOUS
<1>1. L \in SUBSET Nat
  OBVIOUS
<1>2. PICK m \in L : \A x \in L : ~(<<x, m>> \in OpToRel(<, Nat))
  <2>. HIDE DEF L
  <2>. QED  BY <1>1, NatLessThanWellFounded, WFMin, Zenon
<1>3. \A x \in L : m <= x
  <2>. SUFFICES ASSUME NEW x \in L PROVE m <= x
    OBVIOUS
  <2>1. m \in Nat /\ x \in Nat
    OBVIOUS
  <2>2. ~(x < m)
    BY <1>2, <2>1 DEF OpToRel
  <2>. QED  BY <2>1, <2>2
<1>4. m \in 1 .. n
  OBVIOUS
<1>5. m - 1 \in 0 .. n /\ m - 1 \notin L
  BY <1>3, <1>4
<1>. QED  BY <1>4, <1>5

LEMMA TopOf ==
  ASSUME NEW k \in Nat, NEW T \in SUBSET (1 .. k + 1), k + 1 \in T
  PROVE  Max(T) = k + 1
<1>1. \E x \in T : \A y \in T : x >= y
  BY k + 1 \in T
<1>2. Max(T) \in T /\ \A y \in T : Max(T) >= y
  BY <1>1 DEF Max
<1>3. Max(T) \in 1 .. k + 1 /\ Max(T) >= k + 1
  BY <1>2
<1>. QED  BY <1>3

LEMMA MaxIn ==
  ASSUME NEW n \in Nat, NEW T \in SUBSET (1 .. n), T # {}
  PROVE  Max(T) \in T /\ \A y \in T : y <= Max(T)
<1>. DEFINE G == {k \in 0 .. n : \A U \in SUBSET (1 .. k) : U # {} => \E x \in U : \A y \in U : x >= y}
<1>1. 0 \in G
  <2>1. \A U \in SUBSET (1 .. 0) : U = {} /\ 0 \in 0 .. n
    OBVIOUS
  <2>. QED  BY <2>1
<1>2. ASSUME NEW k \in 1 .. n, k - 1 \in G PROVE k \in G
  <2>. SUFFICES ASSUME NEW U \in SUBSET (1 .. k), U # {} PROVE \E x \in U : \A y \in U : x >= y
    OBVIOUS
  <2>1. CASE k \in U
    BY <2>1
  <2>2. CASE k \notin U
    <3>1. U \in SUBSET (1 .. k - 1)
      BY <2>2
    <3>. QED  BY <1>2, <3>1
  <2>. QED  BY <2>1, <2>2
<1>3. 0 .. n \subseteq G
  <2>. HIDE DEF G
  <2>. QED  BY <1>1, <1>2, AllNumbers
<1>4. \E x \in T : \A y \in T : x >= y
  BY <1>3
<1>5. Max(T) \in T /\ \A y \in T : Max(T) >= y
  BY <1>4 DEF Max
<1>. QED  BY <1>5

Iterates(g, n, D, base, step) ==
  /\ g \in [SUBSET (1 .. n) -> D]
  /\ g = [T \in SUBSET (1 .. n) |-> IF T = {} THEN base ELSE step[<<Max(T), g[T \ {Max(T)}]>>]]

(* A step, as a function of the number of the element and the value. *)
IsStep(step, n, D) == step \in [(1 .. n) \X D -> D]

(* The function a fold iterates exists: given as a function what one step  *)
(* makes of a number and a value, there is one on all sets of numbers.     *)
LEMMA IterationExists ==
  ASSUME NEW n \in Nat, NEW D, NEW base \in D, NEW step, IsStep(step, n, D)
  PROVE  \E g : Iterates(g, n, D, base, step)
<1>. USE DEF IsStep
<1>. DEFINE Fits(k, g) ==
              /\ g \in [SUBSET (1 .. k) -> D]
              /\ \A T \in SUBSET (1 .. k) : g[T] = IF T = {} THEN base ELSE step[<<Max(T), g[T \ {Max(T)}]>>]
            G == {k \in 0 .. n : \E g : Fits(k, g)}
<1>1. 0 \in G
  <2>1. Fits(0, [T \in SUBSET (1 .. 0) |-> base])
    <3>1. 1 .. 0 = {}
      OBVIOUS
    <3>. QED  BY <3>1
  <2>. HIDE DEF Fits
  <2>. QED  BY <2>1
<1>2. ASSUME NEW k \in 1 .. n, k - 1 \in G PROVE k \in G
  <2>1. PICK g : Fits(k - 1, g)
    BY <1>2
  <2>. DEFINE h == [T \in SUBSET (1 .. k) |-> IF k \in T THEN step[<<k, g[T \ {k}]>>] ELSE g[T]]
  <2>2. ASSUME NEW T \in SUBSET (1 .. k)
        PROVE  /\ T \ {k} \in SUBSET (1 .. k - 1) /\ T \ {k} \in SUBSET (1 .. k)
               /\ h[T \ {k}] = g[T \ {k}] /\ g[T \ {k}] \in D
    BY <2>1
  <2>3. ASSUME NEW T \in SUBSET (1 .. k)
        PROVE  h[T] \in D /\ h[T] = IF T = {} THEN base ELSE step[<<Max(T), h[T \ {Max(T)}]>>]
    <3>1. CASE k \in T
      <4>1. Max(T) = k
        <5>1. k - 1 \in Nat /\ k = (k - 1) + 1
          OBVIOUS
        <5>. QED  BY <3>1, <5>1, TopOf
      <4>2. h[T] = step[<<k, h[T \ {k}]>>] /\ <<k, g[T \ {k}]>> \in (1 .. n) \X D
        BY <2>2, <3>1
      <4>. HIDE DEF h
      <4>. QED  BY <2>2, <3>1, <4>1, <4>2
    <3>2. CASE k \notin T
      <4>1. T \in SUBSET (1 .. k - 1) /\ h[T] = g[T]
        BY <3>2
      <4>2. CASE T = {}
        BY <2>1, <4>1, <4>2
      <4>3. CASE T # {}
        <5>1. T \ {Max(T)} \in SUBSET (1 .. k - 1) /\ h[T \ {Max(T)}] = g[T \ {Max(T)}]
          BY <3>2, <4>1
        <5>. HIDE DEF h
        <5>. QED  BY <2>1, <4>1, <4>3, <5>1
      <4>. QED  BY <4>2, <4>3
    <3>. QED  BY <3>1, <3>2
  <2>4. h \in [SUBSET (1 .. k) -> D]
    <3>1. h = [T \in SUBSET (1 .. k) |-> h[T]]
      OBVIOUS
    <3>. HIDE DEF h
    <3>. QED  BY <2>3, <3>1
  <2>. HIDE DEF h
  <2>5. Fits(k, h)
    BY <2>3, <2>4
  <2>. HIDE DEF Fits
  <2>. QED  BY <2>5
<1>3. 0 .. n \subseteq G
  <2>. HIDE DEF G
  <2>. QED  BY <1>1, <1>2, AllNumbers
<1>4. PICK g : Fits(n, g)
  <2>. HIDE DEF Fits
  <2>. QED  BY <1>3
<1>5. g = [T \in SUBSET (1 .. n) |-> g[T]]
  BY <1>4
<1>6. g = [T \in SUBSET (1 .. n) |-> IF T = {} THEN base ELSE step[<<Max(T), g[T \ {Max(T)}]>>]]
  <2>. DEFINE F(T) == IF T = {} THEN base ELSE step[<<Max(T), g[T \ {Max(T)}]>>]
  <2>1. \A T \in SUBSET (1 .. n) : g[T] = F(T)
    BY <1>4
  <2>. HIDE DEF F
  <2>2. g = [T \in SUBSET (1 .. n) |-> F(T)]
    BY <1>5, <2>1
  <2>. QED  BY <2>2 DEF F
<1>. QED  BY <1>4, <1>6 DEF Iterates

(* Values of an iteration have the type that each step preserves.          *)
LEMMA AllSets ==
  ASSUME NEW n \in Nat, NEW D, NEW g, g[{}] \in D,
         \A T \in SUBSET (1 .. n) : T # {} /\ g[T \ {Max(T)}] \in D => g[T] \in D
  PROVE  \A T \in SUBSET (1 .. n) : g[T] \in D
<1>. DEFINE G == {k \in 0 .. n : \A T \in SUBSET (1 .. k) : g[T] \in D}
<1>1. 0 \in G
  <2>1. \A U \in SUBSET (1 .. 0) : U = {} /\ 0 \in 0 .. n
    OBVIOUS
  <2>. QED  BY <2>1
<1>2. ASSUME NEW k \in 1 .. n, k - 1 \in G PROVE k \in G
  <2>. SUFFICES ASSUME NEW T \in SUBSET (1 .. k) PROVE g[T] \in D
    OBVIOUS
  <2>1. CASE k \in T
    <3>1. k - 1 \in Nat /\ k = (k - 1) + 1
      OBVIOUS
    <3>2. Max(T) = k
      BY <2>1, <3>1, TopOf
    <3>3. T \ {k} \in SUBSET (1 .. k - 1) /\ T \in SUBSET (1 .. n) /\ T # {}
      BY <2>1
    <3>4. g[T \ {k}] \in D
      BY <1>2, <3>3
    <3>. QED  BY <3>2, <3>3, <3>4
  <2>2. CASE k \notin T
    <3>1. T \in SUBSET (1 .. k - 1)
      BY <2>2
    <3>. QED  BY <1>2, <3>1
  <2>. QED  BY <2>1, <2>2
<1>3. 0 .. n \subseteq G
  <2>. HIDE DEF G
  <2>. QED  BY <1>1, <1>2, AllNumbers
<1>. QED  BY <1>3

(* What a fold has computed after each element. *)
IsRun(f, n, D, base, step) ==
  /\ f \in [0 .. n -> D] /\ f[0] = base
  /\ \A k \in 1 .. n : f[k] = step[<<k, f[k - 1]>>]

LEMMA RunOf ==
  ASSUME NEW n \in Nat, NEW D, NEW base, NEW step, NEW g, Iterates(g, n, D, base, step)
  PROVE  \E f : IsRun(f, n, D, base, step) /\ f[n] = g[1 .. n]
<1>. DEFINE f == [k \in 0 .. n |-> g[1 .. k]]
<1>1. \A T \in SUBSET (1 .. n) : T # {} => g[T] = step[<<Max(T), g[T \ {Max(T)}]>>]
  BY DEF Iterates
<1>2. f[0] = base
  <2>1. 1 .. 0 = {} /\ {} \in SUBSET (1 .. n) /\ 0 \in 0 .. n
    OBVIOUS
  <2>2. g[{}] = base
    BY <2>1 DEF Iterates
  <2>. QED  BY <2>1, <2>2
<1>3. ASSUME NEW k \in 1 .. n PROVE f[k] = step[<<k, f[k - 1]>>]
  <2>1. k - 1 \in Nat /\ (k - 1) + 1 = k /\ k - 1 \in 0 .. n /\ k \in 0 .. n /\ k \in 1 .. k
    OBVIOUS
  <2>2. 1 .. k \in SUBSET (1 .. (k - 1) + 1)
    BY <2>1
  <2>3. Max(1 .. k) = k
    BY <2>1, <2>2, TopOf
  <2>4. (1 .. k) \ {k} = 1 .. k - 1
    BY <2>1
  <2>5. 1 .. k \in SUBSET (1 .. n) /\ 1 .. k # {}
    BY <2>1
  <2>6. g[1 .. k] = step[<<k, g[1 .. k - 1]>>]
    BY <1>1, <2>3, <2>4, <2>5
  <2>. QED  BY <2>1, <2>6
<1>4. \A k \in 0 .. n : 1 .. k \in SUBSET (1 .. n)
  OBVIOUS
<1>5. f \in [0 .. n -> D] /\ f[n] = g[1 .. n]
  <2>1. \A k \in 0 .. n : g[1 .. k] \in D
    BY <1>4 DEF Iterates
  <2>2. n \in 0 .. n
    OBVIOUS
  <2>. QED  BY <2>1, <2>2
<1>. HIDE DEF f
<1>. QED  BY <1>2, <1>3, <1>5 DEF IsRun

(* So it is enough to know one step of the iteration. *)
Unfolds(it, n, D, base, step) ==
  /\ it[{}] = base
  /\ \A T \in SUBSET (1 .. n) :
       T # {} /\ it[T \ {Max(T)}] \in D => it[T] = step[<<Max(T), it[T \ {Max(T)}]>>]

LEMMA FoldRuns ==
  ASSUME NEW n \in Nat, NEW D, NEW base \in D, NEW step, IsStep(step, n, D),
         NEW it, Unfolds(it, n, D, base, step)
  PROVE  \E f : IsRun(f, n, D, base, step) /\ f[n] = it[1 .. n]
<1>. USE DEF IsStep
<1>1. ASSUME NEW T \in SUBSET (1 .. n), T # {}, it[T \ {Max(T)}] \in D PROVE it[T] \in D
  <2>1. Max(T) \in 1 .. n
    BY <1>1, MaxIn
  <2>2. <<Max(T), it[T \ {Max(T)}]>> \in (1 .. n) \X D
    BY <1>1, <2>1
  <2>3. it[T] = step[<<Max(T), it[T \ {Max(T)}]>>]
    BY <1>1 DEF Unfolds
  <2>. QED  BY <2>2, <2>3
<1>2. \A T \in SUBSET (1 .. n) : it[T] \in D
  BY <1>1, AllSets DEF Unfolds
<1>. DEFINE g == [T \in SUBSET (1 .. n) |-> it[T]]
<1>3. Iterates(g, n, D, base, step)
  <2>1. ASSUME NEW T \in SUBSET (1 .. n)
        PROVE  g[T] = IF T = {} THEN base ELSE step[<<Max(T), g[T \ {Max(T)}]>>]
    <3>1. T \ {Max(T)} \in SUBSET (1 .. n)
      OBVIOUS
    <3>2. g[T \ {Max(T)}] = it[T \ {Max(T)}] /\ g[T] = it[T]
      BY <3>1
    <3>. QED  BY <1>2, <3>1, <3>2 DEF Unfolds
  <2>2. g \in [SUBSET (1 .. n) -> D]
    BY <1>2
  <2>. DEFINE F(T) == IF T = {} THEN base ELSE step[<<Max(T), g[T \ {Max(T)}]>>]
  <2>3. g = [T \in SUBSET (1 .. n) |-> F(T)]
    <3>1. g = [T \in SUBSET (1 .. n) |-> g[T]]
      OBVIOUS
    <3>2. \A T \in SUBSET (1 .. n) : g[T] = F(T)
      BY <2>1
    <3>. HIDE DEF F, g
    <3>. QED  BY <3>1, <3>2
  <2>. HIDE DEF g
  <2>. QED  BY <2>2, <2>3 DEF Iterates
<1>4. 1 .. n \in SUBSET (1 .. n)
  OBVIOUS
<1>5. g[1 .. n] = it[1 .. n]
  BY <1>4
<1>. HIDE DEF g
<1>. QED  BY <1>3, <1>5, RunOf

(* The concatenation of the first k of some sequences. *)
IsFlat(f, seqs, E) ==
  /\ f \in [0 .. Len(seqs) -> Seq(E)] /\ f[0] = <<>>
  /\ \A k \in 1 .. Len(seqs) : f[k] = f[k - 1] \o seqs[k]

LEMMA FlatExists ==
  ASSUME NEW E, NEW seqs \in Seq(Seq(E))
  PROVE  \E f : IsFlat(f, seqs, E)
<1>. DEFINE n == Len(seqs)
            D == Seq(E)
            step == [p \in (1 .. n) \X D |-> p[2] \o seqs[p[1]]]
<1>1. n \in Nat /\ <<>> \in D /\ \A k \in 1 .. n : seqs[k] \in D
  OBVIOUS
<1>2. ASSUME NEW k \in 1 .. n, NEW s \in D PROVE s \o seqs[k] \in D
  BY <1>1
<1>. HIDE DEF n, D
<1>3. IsStep(step, n, D)
  BY <1>2 DEF IsStep
<1>4. ASSUME NEW f, IsRun(f, n, D, <<>>, step), NEW k \in 1 .. n PROVE f[k] = f[k - 1] \o seqs[k]
  <2>1. k - 1 \in 0 .. n
    BY <1>1
  <2>2. f[k - 1] \in D /\ f[k] = step[<<k, f[k - 1]>>]
    BY <1>4, <2>1 DEF IsRun
  <2>. QED  BY <2>2
<1>. HIDE DEF step
<1>5. PICK g : Iterates(g, n, D, <<>>, step)
  BY <1>1, <1>3, IterationExists
<1>6. PICK f : IsRun(f, n, D, <<>>, step)
  BY <1>1, <1>5, RunOf
<1>. QED  BY <1>4, <1>6 DEF IsRun, IsFlat, n, D

LEMMA FlattenRuns ==
  ASSUME NEW E, NEW seqs \in Seq(Seq(E)), NEW f, IsFlat(f, seqs, E)
  PROVE  FlattenSeq(seqs) = f[Len(seqs)]
<1>. DEFINE n == Len(seqs)
            Step(h, i) == IF i = 1 THEN seqs[i] ELSE h[i - 1] \o seqs[i]
<1>1. n \in Nat /\ \A k \in 1 .. n : seqs[k] \in Seq(E)
  OBVIOUS
<1>2. CASE n = 0
  BY <1>2 DEF FlattenSeq, IsFlat
<1>3. CASE n # 0
  <2>1. FlattenSeq(seqs) = (CHOOSE h : h = [i \in 1 .. Len(seqs) |-> IF i = 1 THEN seqs[i] ELSE h[i - 1] \o seqs[i]])[Len(seqs)]
    BY <1>3 DEF FlattenSeq
  <2>. HIDE DEF n
  <2>2. f \in [0 .. n -> Seq(E)] /\ f[0] = <<>> /\ \A k \in 1 .. n : f[k] = f[k - 1] \o seqs[k]
    BY DEF IsFlat, n
  <2>9. f[1] = <<>> \o seqs[1]
    <3>1. 1 \in 1 .. n /\ 1 - 1 = 0
      BY <1>1, <1>3
    <3>2. f[1] = f[1 - 1] \o seqs[1]
      BY <2>2, <3>1
    <3>. QED  BY <2>2, <3>1, <3>2
  <2>. DEFINE g == [i \in 1 .. n |-> f[i]]
  <2>3. ASSUME NEW i \in 1 .. n PROVE g[i] = Step(g, i)
    <3>1. CASE i = 1
      <4>1. <<>> \o seqs[1] = seqs[1]
        BY <1>1, <3>1, ConcatEmptySeq
      <4>. QED  BY <2>9, <3>1, <4>1
    <3>2. CASE i # 1
      <4>1. i - 1 \in 1 .. n
        BY <1>1, <3>2
      <4>. QED  BY <2>2, <3>2, <4>1
    <3>. QED  BY <3>1, <3>2
  <2>4. g = [i \in 1 .. n |-> Step(g, i)]
    <3>1. g = [i \in 1 .. n |-> g[i]]
      OBVIOUS
    <3>. HIDE DEF g, Step
    <3>. QED  BY <2>3, <3>1
  <2>. DEFINE h == CHOOSE h : h = [i \in 1 .. n |-> IF i = 1 THEN seqs[i] ELSE h[i - 1] \o seqs[i]]
  <2>5. h = [i \in 1 .. n |-> IF i = 1 THEN seqs[i] ELSE h[i - 1] \o seqs[i]]
    <3>. HIDE DEF g
    <3>. QED  BY <2>4
  <2>. HIDE DEF h
  <2>6. 0 .. n \subseteq {k \in 0 .. n : k # 0 => h[k] = f[k]}
    <3>. DEFINE G == {k \in 0 .. n : k # 0 => h[k] = f[k]}
    <3>0. \A k \in 1 .. n : k - 1 \in 0 .. n /\ k \in 0 .. n
      BY <1>1
    <3>1. 0 \in G
      BY <1>1
    <3>2. ASSUME NEW k \in 1 .. n, k - 1 \in G PROVE k \in G
      <4>1. h[k] = IF k = 1 THEN seqs[k] ELSE h[k - 1] \o seqs[k]
        BY <2>5
      <4>2. CASE k = 1
        <5>1. f[1] = <<>> \o seqs[1] /\ h[1] = seqs[1]
          BY <2>9, <4>1, <4>2
        <5>2. <<>> \o seqs[1] = seqs[1]
          BY <1>1, <4>2, ConcatEmptySeq
        <5>. QED  BY <4>2, <5>1, <5>2
      <4>3. CASE k # 1
        <5>1. h[k - 1] = f[k - 1]
          BY <1>1, <3>0, <3>2, <4>3
        <5>2. f[k] = f[k - 1] \o seqs[k]
          BY <2>2
        <5>. QED  BY <3>0, <4>1, <4>3, <5>1, <5>2
      <4>. QED  BY <4>2, <4>3
    <3>. HIDE DEF G
    <3>3. 0 .. n \subseteq G
      BY <1>1, <3>1, <3>2, AllNumbers
    <3>. QED  BY <3>3 DEF G
  <2>7. n \in 0 .. n
    BY <1>1
  <2>8. h[n] = f[n]
    BY <1>1, <1>3, <2>6, <2>7
  <2>. QED  BY <2>1, <2>8 DEF h, n
<1>. QED  BY <1>2, <1>3

-----------------------------------------------------------------------------
(* The temporal graph.                                                     *)

(* What the replay has made of the arcs after each update. *)
IsReplay(arcs, s, f) ==
  /\ f \in [0 .. Len(s) -> SUBSET Arc]
  /\ f[0] = arcs
  /\ \A k \in 1 .. Len(s) : f[k] = AfterOp(directed, f[k - 1], s[k])

LEMMA ReplayRuns ==
  ASSUME NEW arcs \in SUBSET Arc, NEW s \in Seq(StampedOp), directed \in BOOLEAN
  PROVE  \E f : IsReplay(arcs, s, f) /\ f[Len(s)] = Replay(arcs, s)
<1>. DEFINE n == Len(s)
            Step(k, a) == AfterOp(directed, a, s[k])
            D == SUBSET Arc
            base == arcs
<1>1. n \in Nat /\ DOMAIN s = 1 .. n
  OBVIOUS
<1>2. ASSUME NEW k \in 1 .. n, NEW a \in D PROVE Step(k, a) \in D
  <2>1. s[k] \in StampedOp
    OBVIOUS
  <2>. QED  BY <2>1 DEF AfterOp, ArcsOf, Arc, StampedOp
<1>3. base \in D
  OBVIOUS
<1>. HIDE DEF n, Step, D
<1>. DEFINE step == [p \in (1 .. n) \X D |-> Step(p[1], p[2])]
<1>4. IsStep(step, n, D)
  BY <1>2 DEF IsStep
<1>5. PICK g : Iterates(g, n, D, base, step)
  <2>. HIDE DEF step, base
  <2>. QED  BY <1>1, <1>3, <1>4, IterationExists
<1>6. \A T \in SUBSET (1 .. n) : T # {} => Max(T) \in T
  BY <1>1, MaxIn
<1>7. g = [T \in SUBSET (1 .. n) |-> IF T = {} THEN base ELSE Step(Max(T), g[T \ {Max(T)}])]
  <2>1. ASSUME NEW T \in SUBSET (1 .. n), T # {}
        PROVE  step[<<Max(T), g[T \ {Max(T)}]>>] = Step(Max(T), g[T \ {Max(T)}])
    BY <1>5, <1>6, <2>1 DEF Iterates
  <2>. HIDE DEF step, base
  <2>. QED  BY <1>5, <2>1 DEF Iterates
<1>. DEFINE it == CHOOSE h : h = [T \in SUBSET (1 .. n) |-> IF T = {} THEN base ELSE Step(Max(T), h[T \ {Max(T)}])]
<1>8. it = [T \in SUBSET (1 .. n) |-> IF T = {} THEN base ELSE Step(Max(T), it[T \ {Max(T)}])]
  <2>. HIDE DEF base
  <2>. QED  BY <1>7
<1>9. Replay(arcs, s) = it[1 .. n]
  BY <1>1 DEF Replay, FoldLeft, MapThenFoldSet, Step
<1>. HIDE DEF it, base
<1>10. Unfolds(it, n, D, base, step)
  <2>1. it[{}] = base
    BY <1>8
  <2>2. ASSUME NEW T \in SUBSET (1 .. n), T # {}, it[T \ {Max(T)}] \in D
        PROVE  it[T] = step[<<Max(T), it[T \ {Max(T)}]>>]
    <3>1. it[T] = Step(Max(T), it[T \ {Max(T)}])
      BY <1>8, <2>2
    <3>. QED  BY <1>6, <2>2, <3>1
  <2>. HIDE DEF step
  <2>. QED  BY <2>1, <2>2 DEF Unfolds
<1>11. PICK f : IsRun(f, n, D, base, step) /\ f[n] = it[1 .. n]
  <2>. HIDE DEF step
  <2>. QED  BY <1>1, <1>3, <1>4, <1>10, FoldRuns
<1>12. ASSUME NEW k \in 1 .. n PROVE f[k] = Step(k, f[k - 1])
  <2>1. k - 1 \in 0 .. n
    BY <1>1
  <2>2. f[k - 1] \in D /\ f[k] = step[<<k, f[k - 1]>>]
    BY <1>11, <2>1 DEF IsRun
  <2>. QED  BY <2>2
<1>. QED  BY <1>9, <1>11, <1>12 DEF IsReplay, IsRun, n, Step, D, base

(* The updates that are kept after each update. *)
IsFiltered(s, times, f) ==
  /\ f \in [0 .. Len(s) -> Seq(StampedOp)]
  /\ f[0] = <<>>
  /\ \A k \in 1 .. Len(s) : f[k] = IF s[k].time \in times THEN Append(f[k - 1], s[k]) ELSE f[k - 1]

LEMMA FilteredRuns ==
  ASSUME NEW times, NEW s \in Seq(StampedOp)
  PROVE  \E f : IsFiltered(s, times, f) /\ f[Len(s)] = Filtered(s, times)
<1>. DEFINE n == Len(s)
            Step(k, a) == IF s[k].time \in times THEN Append(a, s[k]) ELSE a
            D == Seq(StampedOp)
            base == <<>>
<1>1. n \in Nat /\ DOMAIN s = 1 .. n
  OBVIOUS
<1>2. ASSUME NEW k \in 1 .. n, NEW a \in D PROVE Step(k, a) \in D
  <2>1. s[k] \in StampedOp
    OBVIOUS
  <2>. QED  BY <2>1
<1>3. base \in D
  OBVIOUS
<1>. HIDE DEF n, Step, D
<1>. DEFINE step == [p \in (1 .. n) \X D |-> Step(p[1], p[2])]
<1>4. IsStep(step, n, D)
  BY <1>2 DEF IsStep
<1>5. PICK g : Iterates(g, n, D, base, step)
  <2>. HIDE DEF step, base
  <2>. QED  BY <1>1, <1>3, <1>4, IterationExists
<1>6. \A T \in SUBSET (1 .. n) : T # {} => Max(T) \in T
  BY <1>1, MaxIn
<1>7. g = [T \in SUBSET (1 .. n) |-> IF T = {} THEN base ELSE Step(Max(T), g[T \ {Max(T)}])]
  <2>1. ASSUME NEW T \in SUBSET (1 .. n), T # {}
        PROVE  step[<<Max(T), g[T \ {Max(T)}]>>] = Step(Max(T), g[T \ {Max(T)}])
    BY <1>5, <1>6, <2>1 DEF Iterates
  <2>. HIDE DEF step, base
  <2>. QED  BY <1>5, <2>1 DEF Iterates
<1>. DEFINE it == CHOOSE h : h = [T \in SUBSET (1 .. n) |-> IF T = {} THEN base ELSE Step(Max(T), h[T \ {Max(T)}])]
<1>8. it = [T \in SUBSET (1 .. n) |-> IF T = {} THEN base ELSE Step(Max(T), it[T \ {Max(T)}])]
  <2>. HIDE DEF base
  <2>. QED  BY <1>7
<1>9. Filtered(s, times) = it[1 .. n]
  BY <1>1 DEF Filtered, FoldLeft, MapThenFoldSet, Step
<1>. HIDE DEF it, base
<1>10. Unfolds(it, n, D, base, step)
  <2>1. it[{}] = base
    BY <1>8
  <2>2. ASSUME NEW T \in SUBSET (1 .. n), T # {}, it[T \ {Max(T)}] \in D
        PROVE  it[T] = step[<<Max(T), it[T \ {Max(T)}]>>]
    <3>1. it[T] = Step(Max(T), it[T \ {Max(T)}])
      BY <1>8, <2>2
    <3>. QED  BY <1>6, <2>2, <3>1
  <2>. HIDE DEF step
  <2>. QED  BY <2>1, <2>2 DEF Unfolds
<1>11. PICK f : IsRun(f, n, D, base, step) /\ f[n] = it[1 .. n]
  <2>. HIDE DEF step
  <2>. QED  BY <1>1, <1>3, <1>4, <1>10, FoldRuns
<1>12. ASSUME NEW k \in 1 .. n PROVE f[k] = Step(k, f[k - 1])
  <2>1. k - 1 \in 0 .. n
    BY <1>1
  <2>2. f[k - 1] \in D /\ f[k] = step[<<k, f[k - 1]>>]
    BY <1>11, <2>1 DEF IsRun
  <2>. QED  BY <2>2
<1>. QED  BY <1>9, <1>11, <1>12 DEF IsFiltered, IsRun, n, Step, D, base

(* A run is determined by what it begins with. *)
LEMMA ReplayRun ==
  ASSUME NEW arcs \in SUBSET Arc, NEW s \in Seq(StampedOp), directed \in BOOLEAN
  PROVE  \A f : IsReplay(arcs, s, f) => f[Len(s)] = Replay(arcs, s)
<1>. SUFFICES ASSUME NEW f, IsReplay(arcs, s, f) PROVE f[Len(s)] = Replay(arcs, s)
  OBVIOUS
<1>1. PICK g : IsReplay(arcs, s, g) /\ g[Len(s)] = Replay(arcs, s)
  BY ReplayRuns
<1>. DEFINE G == {k \in 0 .. Len(s) : f[k] = g[k]}
<1>2. Len(s) \in Nat /\ Len(s) \in 0 .. Len(s) /\ 0 \in 0 .. Len(s)
  OBVIOUS
<1>3. 0 \in G
  BY <1>1, <1>2 DEF IsReplay
<1>4. \A k \in 1 .. Len(s) : k - 1 \in G => k \in G
  BY <1>1, <1>2 DEF IsReplay
<1>5. 0 .. Len(s) \subseteq G
  <2>. HIDE DEF G
  <2>. QED  BY <1>2, <1>3, <1>4, AllNumbers
<1>. QED  BY <1>1, <1>2, <1>5

LEMMA ReplayTyped ==
  ASSUME NEW arcs \in SUBSET Arc, NEW s \in Seq(StampedOp), directed \in BOOLEAN
  PROVE  Replay(arcs, s) \in SUBSET Arc
<1>1. PICK f : IsReplay(arcs, s, f) /\ f[Len(s)] = Replay(arcs, s)
  BY ReplayRuns
<1>2. Len(s) \in 0 .. Len(s)
  OBVIOUS
<1>. QED  BY <1>1, <1>2 DEF IsReplay

(* Replaying two lists one after the other is replaying the longer list. *)
LEMMA ReplayConcat ==
  ASSUME NEW arcs \in SUBSET Arc, NEW s \in Seq(StampedOp), NEW t \in Seq(StampedOp), directed \in BOOLEAN
  PROVE  Replay(arcs, s \o t) = Replay(Replay(arcs, s), t)
<1>. DEFINE n == Len(s)
            m == Len(t)
<1>1. n \in Nat /\ m \in Nat
  OBVIOUS
<1>2. /\ s \o t \in Seq(StampedOp) /\ Len(s \o t) = n + m
      /\ \A k \in 1 .. n : (s \o t)[k] = s[k]
      /\ \A k \in 1 .. m : (s \o t)[n + k] = t[k]
  BY ConcatProperties
<1>3. PICK f : IsReplay(arcs, s \o t, f) /\ f[n + m] = Replay(arcs, s \o t)
  BY <1>2, ReplayRuns
<1>. HIDE DEF n, m
<1>4. /\ f \in [0 .. n + m -> SUBSET Arc] /\ f[0] = arcs
      /\ \A k \in 1 .. n + m : f[k] = AfterOp(directed, f[k - 1], (s \o t)[k])
  BY <1>2, <1>3 DEF IsReplay
<1>. DEFINE g == [k \in 0 .. n |-> f[k]]
            h == [k \in 0 .. m |-> f[n + k]]
<1>5. IsReplay(arcs, s, g)
  <2>1. g \in [0 .. n -> SUBSET Arc] /\ g[0] = arcs
    BY <1>1, <1>4
  <2>2. ASSUME NEW k \in 1 .. n PROVE g[k] = AfterOp(directed, g[k - 1], s[k])
    <3>1. k \in 1 .. n + m /\ k - 1 \in 0 .. n /\ k \in 0 .. n
      BY <1>1
    <3>. QED  BY <1>2, <1>4, <3>1
  <2>. HIDE DEF g
  <2>. QED  BY <2>1, <2>2 DEF IsReplay, n
<1>6. Replay(arcs, s) = f[n]
  <2>1. g[n] = f[n]
    BY <1>1
  <2>. HIDE DEF g
  <2>. QED  BY <1>5, <2>1, ReplayRun DEF n
<1>7. IsReplay(f[n], t, h)
  <2>1. h \in [0 .. m -> SUBSET Arc] /\ h[0] = f[n]
    BY <1>1, <1>4
  <2>2. ASSUME NEW k \in 1 .. m PROVE h[k] = AfterOp(directed, h[k - 1], t[k])
    <3>1. n + k \in 1 .. n + m /\ k - 1 \in 0 .. m /\ k \in 0 .. m /\ (n + k) - 1 = n + (k - 1)
      BY <1>1
    <3>. QED  BY <1>2, <1>4, <3>1
  <2>. HIDE DEF h
  <2>. QED  BY <2>1, <2>2 DEF IsReplay, m
<1>8. f[n] \in SUBSET Arc
  BY <1>1, <1>4
<1>9. h[m] = f[n + m]
  BY <1>1
<1>. HIDE DEF h
<1>. QED  BY <1>3, <1>6, <1>7, <1>8, <1>9, ReplayRun DEF m

LEMMA ReplayOne ==
  ASSUME NEW arcs \in SUBSET Arc, NEW op \in StampedOp, directed \in BOOLEAN
  PROVE  /\ Replay(arcs, <<>>) = arcs
         /\ Replay(arcs, <<op>>) = AfterOp(directed, arcs, op)
<1>1. /\ <<>> \in Seq(StampedOp) /\ Len(<<>>) = 0
      /\ <<op>> \in Seq(StampedOp) /\ Len(<<op>>) = 1 /\ <<op>>[1] = op
  OBVIOUS
<1>2. PICK f : IsReplay(arcs, <<>>, f) /\ f[0] = Replay(arcs, <<>>)
  BY <1>1, ReplayRuns
<1>3. PICK g : IsReplay(arcs, <<op>>, g) /\ g[1] = Replay(arcs, <<op>>)
  BY <1>1, ReplayRuns
<1>4. g[0] = arcs /\ g[1] = AfterOp(directed, g[0], op)
  <2>1. 1 \in 1 .. 1 /\ 1 - 1 = 0
    OBVIOUS
  <2>2. g[1] = AfterOp(directed, g[1 - 1], op)
    BY <1>1, <1>3, <2>1 DEF IsReplay
  <2>. QED  BY <1>3, <2>1, <2>2 DEF IsReplay
<1>. QED  BY <1>2, <1>3, <1>4 DEF IsReplay

LEMMA ReplayEmpty ==
  ASSUME NEW arcs \in SUBSET Arc, directed \in BOOLEAN
  PROVE  Replay(arcs, <<>>) = arcs
<1>1. <<>> \in Seq(StampedOp) /\ Len(<<>>) = 0
  OBVIOUS
<1>2. PICK f : IsReplay(arcs, <<>>, f) /\ f[0] = Replay(arcs, <<>>)
  BY <1>1, ReplayRuns
<1>. QED  BY <1>2 DEF IsReplay

LEMMA FilteredTyped ==
  ASSUME NEW times, NEW s \in Seq(StampedOp)
  PROVE  Filtered(s, times) \in Seq(StampedOp)
<1>1. PICK f : IsFiltered(s, times, f) /\ f[Len(s)] = Filtered(s, times)
  BY FilteredRuns
<1>2. Len(s) \in 0 .. Len(s)
  OBVIOUS
<1>. QED  BY <1>1, <1>2 DEF IsFiltered

(* With every timestamp allowed the whole batch is kept. *)
LEMMA FilteredAll ==
  ASSUME NEW s \in Seq(StampedOp)
  PROVE  Filtered(s, Time) = s
<1>. DEFINE n == Len(s)
<1>1. n \in Nat /\ \A k \in 1 .. n : s[k] \in StampedOp
  OBVIOUS
<1>2. PICK f : IsFiltered(s, Time, f) /\ f[n] = Filtered(s, Time)
  BY FilteredRuns
<1>. HIDE DEF n
<1>3. /\ f \in [0 .. n -> Seq(StampedOp)] /\ f[0] = <<>>
      /\ \A k \in 1 .. n : f[k] = Append(f[k - 1], s[k])
  BY <1>1, <1>2 DEF IsFiltered, n, StampedOp
<1>. DEFINE G == {k \in 0 .. n : Len(f[k]) = k /\ \A j \in 1 .. k : f[k][j] = s[j]}
<1>4. 0 \in G
  <2>1. Len(f[0]) = 0 /\ 0 \in 0 .. n /\ 1 .. 0 = {}
    BY <1>1, <1>3
  <2>. QED  BY <2>1
<1>5. ASSUME NEW k \in 1 .. n, k - 1 \in G PROVE k \in G
  <2>1. k - 1 \in 0 .. n /\ k \in 0 .. n
    BY <1>1
  <2>2. f[k - 1] \in Seq(StampedOp) /\ f[k] = Append(f[k - 1], s[k]) /\ s[k] \in StampedOp
    BY <1>1, <1>3, <2>1
  <2>3. Len(f[k - 1]) = k - 1 /\ \A j \in 1 .. k - 1 : f[k - 1][j] = s[j]
    BY <1>5
  <2>4. Len(f[k]) = k /\ f[k][k] = s[k] /\ \A j \in 1 .. k - 1 : f[k][j] = f[k - 1][j]
    BY <2>1, <2>2, <2>3, AppendProperties
  <2>. QED  BY <2>1, <2>3, <2>4
<1>6. n \in 0 .. n /\ 0 .. n \subseteq G
  <2>1. 0 .. n \subseteq G
    <3>. HIDE DEF G
    <3>. QED  BY <1>1, <1>4, <1>5, AllNumbers
  <2>. QED  BY <1>1, <2>1
<1>7. f[n] \in Seq(StampedOp) /\ Len(f[n]) = n /\ \A j \in 1 .. n : f[n][j] = s[j]
  BY <1>3, <1>6
<1>. QED  BY <1>2, <1>7, SeqEqual DEF n

-----------------------------------------------------------------------------
(* An update of the log is at a position: its entry, and where it is in    *)
(* the entry's batch.                                                      *)
Entry == [version : Nat, from : Time, to : Time, batch : Seq(StampedOp)]

Position == {p \in (1 .. Len(log)) \X Nat : p[2] \in 1 .. Len(log[p[1]].batch)}

At(p) == log[p[1]].batch[p[2]]

Earlier(p, q) == p[1] < q[1] \/ (p[1] = q[1] /\ p[2] < q[2])

Writes(p, a) == a \in ArcsOf(directed, At(p))

(* What the updates at some positions make of a set of arcs: the last one  *)
(* that writes an arc decides.                                             *)
Outcome(arcs, P) ==
  {a \in Arc : \/ a \in arcs /\ \A p \in P : ~Writes(p, a)
               \/ \E p \in P : Writes(p, a) /\ At(p).add /\ \A q \in P : Earlier(p, q) => ~Writes(q, a)}

LEMMA PositionTyped ==
  ASSUME log \in Seq(Entry), NEW p \in Position
  PROVE  /\ At(p) \in StampedOp /\ p[1] \in 1 .. Len(log) /\ p[2] \in Nat
         /\ p = <<p[1], p[2]>>
<1>1. p[1] \in 1 .. Len(log) /\ p[2] \in 1 .. Len(log[p[1]].batch) /\ p = <<p[1], p[2]>> /\ p[2] \in Nat
  BY DEF Position
<1>2. log[p[1]] \in Entry
  BY <1>1
<1>3. log[p[1]].batch \in Seq(StampedOp)
  BY <1>2 DEF Entry
<1>. QED  BY <1>1, <1>3 DEF At

(* One more update, later than the others, has the effect of AfterOp.      *)
LEMMA OutcomeStep ==
  ASSUME log \in Seq(Entry), directed \in BOOLEAN, NEW arcs \in SUBSET Arc,
         NEW P \in SUBSET Position, NEW p \in Position, p \notin P,
         \A q \in P : Earlier(q, p)
  PROVE  Outcome(arcs, P \cup {p}) = AfterOp(directed, Outcome(arcs, P), At(p))
<1>1. At(p) \in StampedOp
  BY PositionTyped
<1>2. ArcsOf(directed, At(p)) \subseteq Arc
  BY <1>1 DEF ArcsOf, Arc, StampedOp
<1>3. ASSUME NEW q \in P PROVE ~Earlier(p, q)
  <2>1. p[1] \in Int /\ q[1] \in Int /\ p[2] \in Int /\ q[2] \in Int
    BY PositionTyped
  <2>. QED  BY <2>1 DEF Earlier
<1>4. ~Earlier(p, p)
  <2>1. p[1] \in Int /\ p[2] \in Int
    BY PositionTyped
  <2>. QED  BY <2>1 DEF Earlier
<1>5. ASSUME NEW a \in Arc
      PROVE  a \in Outcome(arcs, P \cup {p}) <=> a \in AfterOp(directed, Outcome(arcs, P), At(p))
  <2>1. CASE Writes(p, a)
    <3>1. a \in Outcome(arcs, P \cup {p}) <=> At(p).add
      BY <1>3, <1>4, <2>1 DEF Outcome
    <3>. QED  BY <2>1, <3>1 DEF AfterOp, Writes
  <2>2. CASE ~Writes(p, a)
    <3>1. a \in Outcome(arcs, P \cup {p}) <=> a \in Outcome(arcs, P)
      BY <2>2 DEF Outcome
    <3>. QED  BY <2>2, <3>1 DEF AfterOp, Writes
  <2>. QED  BY <2>1, <2>2
<1>6. Outcome(arcs, P \cup {p}) \subseteq Arc /\ AfterOp(directed, Outcome(arcs, P), At(p)) \subseteq Arc
  BY <1>2 DEF Outcome, AfterOp
<1>. QED  BY <1>5, <1>6

(* The positions a query selects, and those of them up to one place. *)
Selected(entries, times) == {p \in Position : p[1] \in entries /\ At(p).time \in times}

UpTo(P, i, k) == {p \in P : p[1] < i \/ (p[1] = i /\ p[2] <= k)}

LEMMA BatchOutcome ==
  ASSUME log \in Seq(Entry), directed \in BOOLEAN, NEW arcs \in SUBSET Arc,
         NEW entries, NEW times, NEW i \in 1 .. Len(log), i \in entries
  PROVE  Replay(Outcome(arcs, UpTo(Selected(entries, times), i, 0)), Filtered(log[i].batch, times))
           = Outcome(arcs, UpTo(Selected(entries, times), i, Len(log[i].batch)))
<1>. DEFINE b == log[i].batch
            n == Len(b)
            S == Selected(entries, times)
            start == Outcome(arcs, UpTo(S, i, 0))
<1>1. b \in Seq(StampedOp) /\ n \in Nat /\ \A k \in 1 .. n : b[k] \in StampedOp
  <2>1. log[i] \in Entry
    OBVIOUS
  <2>2. b \in Seq(StampedOp)
    BY <2>1 DEF Entry
  <2>. QED  BY <2>2
<1>2. PICK f : IsFiltered(b, times, f) /\ f[n] = Filtered(b, times)
  BY <1>1, FilteredRuns
<1>3. start \in SUBSET Arc /\ \A P : Outcome(arcs, P) \in SUBSET Arc
  BY DEF Outcome
<1>4. \A k \in 1 .. n : <<i, k>> \in Position /\ At(<<i, k>>) = b[k]
  BY <1>1 DEF Position, At
<1>. DEFINE G == {k \in 0 .. n : Replay(start, f[k]) = Outcome(arcs, UpTo(S, i, k))}
<1>5. 0 \in G
  <2>1. f[0] = <<>> /\ 0 \in 0 .. n
    BY <1>1, <1>2 DEF IsFiltered
  <2>2. Replay(start, <<>>) = start
    <3>1. PICK g : IsReplay(start, <<>>, g) /\ g[Len(<<>>)] = Replay(start, <<>>)
      <4>. HIDE DEF start
      <4>. QED  BY <1>3, ReplayRuns, EmptySeq
    <3>2. Len(<<>>) = 0
      OBVIOUS
    <3>. HIDE DEF start
    <3>. QED  BY <3>1, <3>2 DEF IsReplay
  <2>. HIDE DEF start, b, n
  <2>3. Replay(start, f[0]) = start
    BY <2>1, <2>2
  <2>. QED  BY <2>1, <2>3 DEF start
<1>6. ASSUME NEW k \in 1 .. n, k - 1 \in G PROVE k \in G
  <2>0. k - 1 \in 0 .. n /\ k \in 0 .. n /\ k \in Nat /\ i \in Nat
    BY <1>1
  <2>1. /\ f[k - 1] \in Seq(StampedOp)
        /\ f[k] = IF b[k].time \in times THEN Append(f[k - 1], b[k]) ELSE f[k - 1]
    BY <1>2, <2>0 DEF IsFiltered
  <2>2. <<i, k>> \in Position /\ At(<<i, k>>) = b[k] /\ b[k] \in StampedOp
    BY <1>1, <1>4
  <2>3. \A p \in S : p = <<p[1], p[2]>> /\ p[1] \in Nat /\ p[2] \in Nat
    <3>1. \A p \in S : p \in Position
      BY DEF Selected
    <3>. QED  BY <3>1 DEF Position
  <2>4. CASE b[k].time \in times
    <3>1. <<i, k>> \in S
      BY <2>2, <2>4 DEF Selected
    <3>2. UpTo(S, i, k) = UpTo(S, i, k - 1) \cup {<<i, k>>}
      <4>1. ASSUME NEW p \in S
            PROVE  p \in UpTo(S, i, k) <=> p \in UpTo(S, i, k - 1) \/ p = <<i, k>>
        <5>1. p = <<p[1], p[2]>> /\ p[1] \in Nat /\ p[2] \in Nat
          BY <2>3
        <5>2. p = <<i, k>> <=> p[1] = i /\ p[2] = k
          BY <5>1
        <5>. HIDE DEF S
        <5>. QED  BY <2>0, <5>1, <5>2 DEF UpTo
      <4>2. UpTo(S, i, k) \subseteq S /\ UpTo(S, i, k - 1) \subseteq S
        BY DEF UpTo
      <4>. HIDE DEF S
      <4>. QED  BY <3>1, <4>1, <4>2
    <3>3. <<i, k>> \notin UpTo(S, i, k - 1) /\ \A q \in UpTo(S, i, k - 1) : Earlier(q, <<i, k>>)
      <4>1. \A q \in UpTo(S, i, k - 1) : q[1] < i \/ (q[1] = i /\ q[2] \in Nat /\ q[2] <= k - 1)
        BY <2>3 DEF UpTo
      <4>. HIDE DEF S
      <4>. QED  BY <2>0, <4>1 DEF Earlier
    <3>4. UpTo(S, i, k - 1) \in SUBSET Position
      BY DEF UpTo, Selected
    <3>5. Outcome(arcs, UpTo(S, i, k)) = AfterOp(directed, Outcome(arcs, UpTo(S, i, k - 1)), b[k])
      <4>. HIDE DEF S, b
      <4>. QED  BY <2>2, <3>2, <3>3, <3>4, OutcomeStep
    <3>6. f[k] = f[k - 1] \o <<b[k]>> /\ <<b[k]>> \in Seq(StampedOp)
      <4>1. f[k] = Append(f[k - 1], b[k])
        BY <2>1, <2>4
      <4>2. \A s \in Seq(StampedOp), op \in StampedOp : Append(s, op) = s \o <<op>> /\ <<op>> \in Seq(StampedOp)
        BY AppendIsConcat
      <4>3. f[k - 1] \in Seq(StampedOp) /\ b[k] \in StampedOp
        BY <2>1, <2>2
      <4>. HIDE DEF b
      <4>. QED  BY <4>1, <4>2, <4>3
    <3>7. Replay(start, f[k]) = Replay(Replay(start, f[k - 1]), <<b[k]>>)
      <4>1. start \in SUBSET Arc /\ f[k - 1] \in Seq(StampedOp)
        BY <1>3, <2>1
      <4>. HIDE DEF start, b
      <4>2. Replay(start, f[k - 1] \o <<b[k]>>) = Replay(Replay(start, f[k - 1]), <<b[k]>>)
        BY <3>6, <4>1, ReplayConcat
      <4>. QED  BY <3>6, <4>2
    <3>8. Replay(start, f[k]) = AfterOp(directed, Replay(start, f[k - 1]), b[k])
      <4>1. Replay(start, f[k - 1]) \in SUBSET Arc
        <5>. HIDE DEF start, b
        <5>. QED  BY <1>3, <2>1, ReplayTyped
      <4>. HIDE DEF start, b
      <4>. QED  BY <2>2, <3>7, <4>1, ReplayOne
    <3>. HIDE DEF start, b, S, n
    <3>. QED  BY <1>6, <2>0, <3>5, <3>8
  <2>5. CASE b[k].time \notin times
    <3>1. UpTo(S, i, k) = UpTo(S, i, k - 1)
      <4>1. <<i, k>> \notin S
        BY <2>2, <2>5 DEF Selected
      <4>2. ASSUME NEW p \in S
            PROVE  p \in UpTo(S, i, k) <=> p \in UpTo(S, i, k - 1)
        <5>1. p = <<p[1], p[2]>> /\ p[1] \in Nat /\ p[2] \in Nat
          BY <2>3
        <5>2. ~(p[1] = i /\ p[2] = k)
          BY <4>1, <5>1
        <5>. HIDE DEF S
        <5>. QED  BY <2>0, <5>1, <5>2 DEF UpTo
      <4>3. UpTo(S, i, k) \subseteq S /\ UpTo(S, i, k - 1) \subseteq S
        BY DEF UpTo
      <4>. HIDE DEF S
      <4>. QED  BY <4>2, <4>3
    <3>. HIDE DEF start, b, S, n
    <3>. QED  BY <1>6, <2>0, <2>1, <2>5, <3>1
  <2>. QED  BY <2>4, <2>5
<1>7. n \in Nat /\ n \in 0 .. n
  <2>. HIDE DEF n
  <2>. QED  BY <1>1
<1>8. 0 .. n \subseteq G
  <2>. HIDE DEF G, n
  <2>. QED  BY <1>5, <1>6, <1>7, AllNumbers
<1>. QED  BY <1>2, <1>7, <1>8

(* What replaying a part of the log makes of some arcs: the last of the    *)
(* selected updates that writes an arc decides.                            *)
Parts(entries, times) == [i \in DOMAIN log |-> IF i \in entries THEN Filtered(log[i].batch, times) ELSE <<>>]

LEMMA PartsTyped ==
  ASSUME log \in Seq(Entry), NEW entries, NEW times
  PROVE  Parts(entries, times) \in Seq(Seq(StampedOp)) /\ Len(Parts(entries, times)) = Len(log)
<1>1. DOMAIN log = 1 .. Len(log) /\ Len(log) \in Nat
  OBVIOUS
<1>2. ASSUME NEW i \in DOMAIN log PROVE Parts(entries, times)[i] \in Seq(StampedOp)
  <2>1. log[i] \in Entry
    OBVIOUS
  <2>2. log[i].batch \in Seq(StampedOp)
    BY <2>1 DEF Entry
  <2>3. Filtered(log[i].batch, times) \in Seq(StampedOp)
    BY <2>2, FilteredTyped
  <2>. QED  BY <2>3 DEF Parts
<1>3. Parts(entries, times) = [i \in 1 .. Len(log) |-> Parts(entries, times)[i]]
  BY <1>1 DEF Parts
<1>. QED  BY <1>1, <1>2, <1>3

LEMMA LoggedOutcome ==
  ASSUME log \in Seq(Entry), directed \in BOOLEAN, NEW arcs \in SUBSET Arc, NEW entries, NEW times
  PROVE  Replay(arcs, Logged(entries, times)) = Outcome(arcs, Selected(entries, times))
<1>. DEFINE seqs == Parts(entries, times)
            n == Len(log)
            S == Selected(entries, times)
<1>1. seqs \in Seq(Seq(StampedOp)) /\ Len(seqs) = n /\ n \in Nat
  BY PartsTyped
<1>2. \A i \in 1 .. n : seqs[i] = IF i \in entries THEN Filtered(log[i].batch, times) ELSE <<>>
  BY DEF Parts
<1>3. Logged(entries, times) = FlattenSeq(seqs)
  BY DEF Logged, Parts
<1>. HIDE DEF seqs
<1>4. PICK f : IsFlat(f, seqs, StampedOp)
  BY <1>1, FlatExists
<1>5. FlattenSeq(seqs) = f[n]
  BY <1>1, <1>4, FlattenRuns
<1>6. f \in [0 .. n -> Seq(StampedOp)] /\ f[0] = <<>> /\ \A k \in 1 .. n : f[k] = f[k - 1] \o seqs[k]
  BY <1>1, <1>4 DEF IsFlat
<1>7. ASSUME NEW i \in 1 .. n
      PROVE  log[i].batch \in Seq(StampedOp) /\ Len(log[i].batch) \in Nat
  <2>1. log[i] \in Entry
    OBVIOUS
  <2>. QED  BY <2>1 DEF Entry
<1>8. \A p \in S : p = <<p[1], p[2]>> /\ p[1] \in 1 .. n /\ p[2] \in 1 .. Len(log[p[1]].batch) /\ p[1] \in entries
  <2>1. \A p \in S : p \in Position /\ p[1] \in entries
    BY DEF Selected
  <2>. QED  BY <2>1 DEF Position
<1>9. \A P : Outcome(arcs, P) \in SUBSET Arc
  BY DEF Outcome
<1>10. \A i \in 1 .. n : i \in entries =>
         Replay(Outcome(arcs, UpTo(S, i, 0)), seqs[i]) = Outcome(arcs, UpTo(S, i, Len(log[i].batch)))
  BY <1>2, BatchOutcome
<1>11. \A a \in SUBSET Arc : Replay(a, <<>>) = a
  BY ReplayEmpty
<1>12. \A a \in SUBSET Arc, s, t \in Seq(StampedOp) : Replay(a, s \o t) = Replay(Replay(a, s), t)
  BY ReplayConcat
<1>. HIDE DEF S, n
<1>13. S = UpTo(S, n + 1, 0) /\ UpTo(S, 1, 0) = {}
  BY <1>1, <1>7, <1>8 DEF UpTo
<1>14. ASSUME NEW i \in 1 .. n
       PROVE  UpTo(S, i + 1, 0) = UpTo(S, i, IF i \in entries THEN Len(log[i].batch) ELSE 0)
  <2>1. ASSUME NEW p \in S
        PROVE  p \in UpTo(S, i + 1, 0) <=> p \in UpTo(S, i, IF i \in entries THEN Len(log[i].batch) ELSE 0)
    <3>1. p[1] \in 1 .. n /\ p[2] \in 1 .. Len(log[p[1]].batch) /\ p[1] \in entries
      BY <1>8
    <3>2. Len(log[p[1]].batch) \in Nat /\ i \in Nat /\ p[1] \in Nat /\ p[2] \in Nat
      BY <1>1, <1>7, <3>1
    <3>. QED  BY <3>1, <3>2 DEF UpTo
  <2>. QED  BY <2>1 DEF UpTo
<1>15. Outcome(arcs, {}) = arcs
  BY DEF Outcome
<1>. DEFINE G == {k \in 0 .. n : Replay(arcs, f[k]) = Outcome(arcs, UpTo(S, k + 1, 0))}
<1>16. 0 \in G
  <2>1. 0 \in 0 .. n /\ 0 + 1 = 1
    BY <1>1
  <2>2. Replay(arcs, f[0]) = Outcome(arcs, UpTo(S, 0 + 1, 0))
    BY <1>6, <1>11, <1>13, <1>15, <2>1
  <2>. QED  BY <2>1, <2>2
<1>17. ASSUME NEW k \in 1 .. n, k - 1 \in G PROVE k \in G
  <2>1. k - 1 \in 0 .. n /\ k \in 0 .. n /\ (k - 1) + 1 = k
    BY <1>1
  <2>2. f[k - 1] \in Seq(StampedOp) /\ seqs[k] \in Seq(StampedOp) /\ f[k] = f[k - 1] \o seqs[k]
    <3>1. seqs[k] \in Seq(StampedOp)
      BY <1>1
    <3>. QED  BY <1>6, <2>1, <3>1
  <2>3. Replay(arcs, f[k]) = Replay(Outcome(arcs, UpTo(S, k, 0)), seqs[k])
    BY <1>12, <1>17, <2>1, <2>2
  <2>4. Replay(Outcome(arcs, UpTo(S, k, 0)), seqs[k]) = Outcome(arcs, UpTo(S, k + 1, 0))
    <3>1. CASE k \in entries
      BY <1>10, <1>14, <3>1
    <3>2. CASE k \notin entries
      BY <1>2, <1>9, <1>11, <1>14, <3>2
    <3>. QED  BY <3>1, <3>2
  <2>. QED  BY <2>1, <2>3, <2>4
<1>18. n \in 0 .. n /\ 0 .. n \subseteq G
  <2>1. 0 .. n \subseteq G
    <3>. HIDE DEF G
    <3>. QED  BY <1>1, <1>16, <1>17, AllNumbers
  <2>. QED  BY <1>1, <2>1
<1>. QED  BY <1>3, <1>5, <1>13, <1>18 DEF S

(* Later updates applied to the outcome of earlier ones.                   *)
LEMMA OutcomeTwice ==
  ASSUME log \in Seq(Entry), NEW arcs \in SUBSET Arc, NEW P \in SUBSET Position, NEW Q \in SUBSET Position,
         \A p \in P, q \in Q : Earlier(p, q)
  PROVE  Outcome(Outcome(arcs, P), Q) = Outcome(arcs, P \cup Q)
<1>1. \A p \in P, q \in Q : ~Earlier(q, p)
  <2>. SUFFICES ASSUME NEW p \in P, NEW q \in Q PROVE ~Earlier(q, p)
    OBVIOUS
  <2>1. Earlier(p, q) /\ p[1] \in Int /\ q[1] \in Int /\ p[2] \in Int /\ q[2] \in Int
    BY PositionTyped
  <2>. QED  BY <2>1 DEF Earlier
<1>2. ASSUME NEW a \in Arc
      PROVE  a \in Outcome(Outcome(arcs, P), Q) <=> a \in Outcome(arcs, P \cup Q)
  <2>1. CASE \E q \in Q : Writes(q, a)
    <3>1. a \in Outcome(Outcome(arcs, P), Q)
            <=> \E q \in Q : Writes(q, a) /\ At(q).add /\ \A r \in Q : Earlier(q, r) => ~Writes(r, a)
      BY <2>1 DEF Outcome
    <3>2. a \in Outcome(arcs, P \cup Q)
            <=> \E q \in P \cup Q : Writes(q, a) /\ At(q).add /\ \A r \in P \cup Q : Earlier(q, r) => ~Writes(r, a)
      BY <2>1 DEF Outcome
    <3>3. ASSUME NEW q \in Q
          PROVE  (\A r \in Q : Earlier(q, r) => ~Writes(r, a))
                   <=> (\A r \in P \cup Q : Earlier(q, r) => ~Writes(r, a))
      BY <1>1
    <3>4. ASSUME NEW p \in P PROVE ~ \A r \in P \cup Q : Earlier(p, r) => ~Writes(r, a)
      BY <2>1
    <3>. HIDE DEF Earlier, Writes, At
    <3>. QED  BY <3>1, <3>2, <3>3, <3>4
  <2>2. CASE ~ \E q \in Q : Writes(q, a)
    BY <2>2 DEF Outcome
  <2>. QED  BY <2>1, <2>2
<1>3. Outcome(Outcome(arcs, P), Q) \subseteq Arc /\ Outcome(arcs, P \cup Q) \subseteq Arc
  BY DEF Outcome
<1>. QED  BY <1>2, <1>3

-----------------------------------------------------------------------------
(* Replay, for a graph that is directed or not. *)
ReplayIn(dir, arcs, updates) == FoldLeft(LAMBDA a, op : AfterOp(dir, a, op), arcs, updates)

LEMMA ReplayNow ==
  ASSUME NEW arcs, NEW s
  PROVE  Replay(arcs, s) = ReplayIn(directed, arcs, s)
BY DEF Replay, ReplayIn

(* The log holds the batches that led from each version to the next.       *)
TemporalInv ==
  /\ directed \in BOOLEAN
  /\ log \in Seq(Entry) /\ version = Len(log)
  /\ past \in Seq(SUBSET Arc) /\ Len(past) = Len(log) + 1
  /\ past[1] = {} /\ now = past[Len(log) + 1]
  /\ \A i \in 1 .. Len(log) :
       /\ log[i].version = i
       /\ past[i + 1] = ReplayIn(directed, past[i], log[i].batch)
       /\ \A k \in 1 .. Len(log[i].batch) :
            log[i].from <= log[i].batch[k].time /\ log[i].batch[k].time <= log[i].to

(* A batch has an earliest and a latest timestamp.                         *)
LEMMA BatchTimes ==
  ASSUME NEW b \in Seq(StampedOp), b # <<>>
  PROVE  /\ Earliest(b) \in Time /\ Latest(b) \in Time
         /\ \A k \in 1 .. Len(b) : Earliest(b) <= b[k].time /\ b[k].time <= Latest(b)
<1>1. /\ Len(b) \in Nat /\ Len(b) # 0 /\ DOMAIN b = 1 .. Len(b) /\ 1 \in DOMAIN b
      /\ \A k \in DOMAIN b : b[k].time \in Time
  <2>1. Len(b) \in Nat /\ Len(b) # 0 /\ DOMAIN b = 1 .. Len(b)
    BY EmptySeq
  <2>2. \A k \in DOMAIN b : b[k] \in StampedOp
    BY <2>1
  <2>. QED  BY <2>1, <2>2 DEF StampedOp
<1>. DEFINE T == {b[k].time : k \in DOMAIN b}
            Up == {t + 1 : t \in T}
            Down == {(MaxTime + 1) - t : t \in T}
<1>2. MaxTime + 1 \in Nat /\ Time = 0 .. MaxTime
  BY TemporalConstants DEF Time
<1>3. T \subseteq Time /\ T \subseteq Int /\ T # {}
  BY <1>1, <1>2
<1>. HIDE DEF T
<1>4. Up \in SUBSET (1 .. MaxTime + 1) /\ Down \in SUBSET (1 .. MaxTime + 1) /\ Up # {} /\ Down # {}
  <2>1. PICK last \in Nat : last = MaxTime
    BY TemporalConstants
  <2>2. ASSUME NEW t \in T
        PROVE  t + 1 \in 1 .. last + 1 /\ (last + 1) - t \in 1 .. last + 1
    <3>1. t \in 0 .. last
      BY <1>2, <1>3, <2>1
    <3>. QED  BY <3>1
  <2>. QED  BY <1>3, <2>1, <2>2
<1>5. \E t \in T : \A u \in T : u <= t
  <2>1. PICK t \in T : Max(Up) = t + 1
    BY <1>2, <1>4, MaxIn
  <2>2. ASSUME NEW u \in T PROVE u <= t
    <3>1. u + 1 <= Max(Up)
      BY <1>2, <1>4, MaxIn
    <3>. QED  BY <1>2, <1>3, <2>1, <3>1
  <2>. QED  BY <2>2
<1>6. \E t \in T : \A u \in T : t <= u
  <2>1. PICK t \in T : Max(Down) = (MaxTime + 1) - t
    BY <1>2, <1>4, MaxIn
  <2>2. ASSUME NEW u \in T PROVE t <= u
    <3>1. (MaxTime + 1) - u <= Max(Down)
      BY <1>2, <1>4, MaxIn
    <3>. QED  BY <1>2, <1>3, <2>1, <3>1
  <2>. QED  BY <2>2
<1>7. \E t \in Time : \E i \in DOMAIN b : b[i].time = t /\ \A j \in DOMAIN b : t <= b[j].time
  BY <1>3, <1>6 DEF T
<1>8. \E t \in Time : \E i \in DOMAIN b : b[i].time = t /\ \A j \in DOMAIN b : t >= b[j].time
  <2>1. PICK t \in T : \A u \in T : u <= t
    BY <1>5
  <2>2. PICK i \in DOMAIN b : t = b[i].time
    BY DEF T
  <2>3. ASSUME NEW j \in DOMAIN b PROVE t >= b[j].time
    <3>1. b[j].time \in T
      BY DEF T
    <3>. QED  BY <1>2, <1>3, <2>1, <3>1
  <2>. QED  BY <1>3, <2>2, <2>3
<1>9. Earliest(b) \in Time /\ \A j \in DOMAIN b : Earliest(b) <= b[j].time
  BY <1>7 DEF Earliest
<1>10. Latest(b) \in Time /\ \A j \in DOMAIN b : Latest(b) >= b[j].time
  BY <1>8 DEF Latest
<1>. QED  BY <1>1, <1>2, <1>9, <1>10

LEMMA TemporalStarts == InitTemporal => TemporalInv
<1>. SUFFICES ASSUME InitTemporal PROVE TemporalInv
  OBVIOUS
<1>1. /\ directed \in BOOLEAN /\ version = 0 /\ log = <<>> /\ past = <<{}>> /\ now = {}
  BY DEF InitTemporal
<1>2. <<>> \in Seq(Entry) /\ Len(<<>>) = 0
  OBVIOUS
<1>3. <<{}>> \in Seq(SUBSET Arc) /\ Len(<<{}>>) = 1 /\ <<{}>>[1] = {}
  OBVIOUS
<1>. QED  BY <1>1, <1>2, <1>3 DEF TemporalInv

LEMMA ApplyKeeps ==
  ASSUME TemporalInv, NEW b \in StampedBatches, Apply(b)
  PROVE  TemporalInv'
<1>. DEFINE n == Len(log)
            e == [version |-> version + 1, from |-> Earliest(b), to |-> Latest(b), batch |-> b]
<1>1. /\ directed \in BOOLEAN /\ log \in Seq(Entry) /\ version = n /\ n \in Nat
      /\ past \in Seq(SUBSET Arc) /\ Len(past) = n + 1 /\ past[1] = {} /\ now = past[n + 1]
  BY DEF TemporalInv
<1>2. b \in Seq(StampedOp) /\ b # <<>>
  BY TemporalConstants
<1>3. /\ Earliest(b) \in Time /\ Latest(b) \in Time
      /\ \A k \in 1 .. Len(b) : Earliest(b) <= b[k].time /\ b[k].time <= Latest(b)
  BY <1>2, BatchTimes
<1>4. e \in Entry
  <2>. HIDE DEF n
  <2>. QED  BY <1>1, <1>2, <1>3 DEF Entry
<1>5. now \in SUBSET Arc
  BY <1>1
<1>6. now' = Replay(now, b) /\ now' \in SUBSET Arc /\ directed' = directed
  BY <1>1, <1>2, <1>5, ReplayTyped DEF Apply
<1>7. log' = Append(log, e) /\ past' = Append(past, now') /\ version' = version + 1
  BY DEF Apply
<1>. HIDE DEF e
<1>8. /\ log' \in Seq(Entry) /\ Len(log') = n + 1 /\ log'[n + 1] = e
      /\ \A i \in 1 .. n : log'[i] = log[i]
  BY <1>1, <1>4, <1>7, AppendProperties
<1>9. /\ past' \in Seq(SUBSET Arc) /\ Len(past') = n + 2 /\ past'[n + 2] = now'
      /\ \A i \in 1 .. n + 1 : past'[i] = past[i]
  <2>1. n + 1 + 1 = n + 2
    BY <1>1
  <2>. QED  BY <1>1, <1>6, <1>7, <2>1, AppendProperties
<1>10. now' = ReplayIn(directed, now, b)
  BY <1>6, ReplayNow
<1>11. ASSUME NEW i \in 1 .. n + 1
       PROVE  /\ log'[i].version = i
              /\ past'[i + 1] = ReplayIn(directed, past'[i], log'[i].batch)
              /\ \A k \in 1 .. Len(log'[i].batch) :
                   log'[i].from <= log'[i].batch[k].time /\ log'[i].batch[k].time <= log'[i].to
  <2>1. CASE i = n + 1
    <3>1. e.version = n + 1 /\ e.batch = b /\ e.from = Earliest(b) /\ e.to = Latest(b)
      BY <1>1 DEF e
    <3>2. past'[i + 1] = now' /\ past'[i] = now
      BY <1>1, <1>9, <2>1
    <3>. QED  BY <1>3, <1>8, <1>10, <2>1, <3>1, <3>2
  <2>2. CASE i # n + 1
    <3>1. i \in 1 .. n /\ i + 1 \in 1 .. n + 1
      BY <1>1, <2>2
    <3>. QED  BY <1>8, <1>9, <3>1 DEF TemporalInv
  <2>. QED  BY <2>1, <2>2
<1>12. /\ version' = Len(log') /\ Len(past') = Len(log') + 1 /\ past'[1] = {}
       /\ now' = past'[Len(log') + 1]
  <2>1. n + 1 + 1 = n + 2
    BY <1>1
  <2>. QED  BY <1>1, <1>7, <1>8, <1>9, <2>1
<1>. QED  BY <1>1, <1>6, <1>8, <1>9, <1>11, <1>12 DEF TemporalInv

(* The positions of the entries up to one. *)
Until(v) == {p \in Position : p[1] <= v}

LEMMA PositionsIn ==
  ASSUME log \in Seq(Entry)
  PROVE  /\ Len(log) \in Nat /\ DOMAIN log = 1 .. Len(log)
         /\ \A i \in 1 .. Len(log) : log[i] \in Entry /\ log[i].batch \in Seq(StampedOp) /\ Len(log[i].batch) \in Nat
         /\ \A p \in Position : /\ p = <<p[1], p[2]>> /\ p[1] \in 1 .. Len(log)
                                /\ p[2] \in 1 .. Len(log[p[1]].batch)
                                /\ At(p) \in StampedOp /\ At(p).time \in Time
<1>1. Len(log) \in Nat /\ DOMAIN log = 1 .. Len(log) /\ \A i \in 1 .. Len(log) : log[i] \in Entry
  OBVIOUS
<1>2. \A i \in 1 .. Len(log) : log[i].batch \in Seq(StampedOp) /\ Len(log[i].batch) \in Nat
  BY <1>1 DEF Entry
<1>3. \A p \in Position : /\ p = <<p[1], p[2]>> /\ p[1] \in 1 .. Len(log)
                          /\ p[2] \in 1 .. Len(log[p[1]].batch)
  BY DEF Position
<1>4. ASSUME NEW p \in Position PROVE At(p) \in StampedOp /\ At(p).time \in Time
  BY PositionTyped DEF StampedOp
<1>. QED  BY <1>1, <1>2, <1>3, <1>4

(* Each version of the graph is the outcome of the entries up to it.       *)
LEMMA PastOutcome ==
  ASSUME TemporalInv
  PROVE  \A v \in 0 .. version : past[v + 1] = Outcome({}, Until(v))
<1>. DEFINE n == Len(log)
            G == {v \in 0 .. n : past[v + 1] = Outcome({}, Until(v))}
<1>1. log \in Seq(Entry) /\ directed \in BOOLEAN /\ version = n /\ past[1] = {}
  BY DEF TemporalInv
<1>2. /\ n \in Nat
      /\ \A i \in 1 .. n : log[i].batch \in Seq(StampedOp) /\ Len(log[i].batch) \in Nat
      /\ \A p \in Position : /\ p[1] \in 1 .. n /\ p[2] \in 1 .. Len(log[p[1]].batch)
                             /\ At(p).time \in Time
  BY <1>1, PositionsIn
<1>3. {} \in SUBSET Arc /\ Outcome({}, {}) = {}
  BY DEF Outcome
<1>4. Selected(1 .. n, Time) = Position
  BY <1>2 DEF Selected
<1>. HIDE DEF n
<1>5. 0 \in G
  <2>1. Until(0) = {}
    BY <1>2 DEF Until
  <2>2. 0 \in 0 .. n /\ 0 + 1 = 1
    BY <1>2
  <2>. QED  BY <1>1, <1>3, <2>1, <2>2
<1>6. ASSUME NEW k \in 1 .. n, k - 1 \in G PROVE k \in G
  <2>1. k - 1 \in 0 .. n /\ (k - 1) + 1 = k /\ k \in 0 .. n /\ k \in Nat
    BY <1>2
  <2>2. past[k] = Outcome({}, Until(k - 1))
    BY <1>6, <2>1
  <2>3. past[k + 1] = Replay(past[k], log[k].batch)
    BY ReplayNow DEF TemporalInv, n
  <2>4. UpTo(Position, k, 0) = Until(k - 1)
    <3>1. \A p \in Position : (p[1] < k \/ (p[1] = k /\ p[2] <= 0)) <=> p[1] <= k - 1
      BY <1>2, <2>1
    <3>. QED  BY <3>1 DEF UpTo, Until
  <2>5. UpTo(Position, k, Len(log[k].batch)) = Until(k)
    <3>1. \A p \in Position : (p[1] < k \/ (p[1] = k /\ p[2] <= Len(log[k].batch))) <=> p[1] <= k
      BY <1>2, <2>1
    <3>. QED  BY <3>1 DEF UpTo, Until
  <2>6. Filtered(log[k].batch, Time) = log[k].batch
    BY <1>2, FilteredAll
  <2>7. Replay(Outcome({}, UpTo(Selected(1 .. n, Time), k, 0)), Filtered(log[k].batch, Time))
          = Outcome({}, UpTo(Selected(1 .. n, Time), k, Len(log[k].batch)))
    BY <1>1, <1>3, BatchOutcome DEF n
  <2>. QED  BY <1>4, <2>1, <2>2, <2>3, <2>4, <2>5, <2>6, <2>7
<1>7. 0 .. n \subseteq G
  <2>. HIDE DEF G
  <2>. QED  BY <1>2, <1>5, <1>6, AllNumbers
<1>. QED  BY <1>1, <1>7

LEMMA VersionsHold == TemporalInv => VersionsReplay
<1>. SUFFICES ASSUME TemporalInv, NEW v \in 0 .. version, NEW w \in 0 .. version
              PROVE  /\ SnapshotVersion(v) = past[v + 1]
                     /\ v <= w => Replay(past[v + 1], ChangesBetweenVersions(v, w)) = past[w + 1]
  BY DEF VersionsReplay
<1>1. /\ log \in Seq(Entry) /\ directed \in BOOLEAN /\ version = Len(log)
      /\ \A i \in 1 .. Len(log) : log[i].version = i
  BY DEF TemporalInv
<1>2. /\ Len(log) \in Nat /\ All = 1 .. Len(log)
      /\ \A p \in Position : p[1] \in 1 .. Len(log) /\ p[2] \in Nat /\ At(p).time \in Time
  <2>1. \A p \in Position : p[2] \in Nat
    BY DEF Position
  <2>. QED  BY <1>1, <2>1, PositionsIn DEF All
<1>3. {} \in SUBSET Arc /\ past[v + 1] = Outcome({}, Until(v)) /\ past[w + 1] = Outcome({}, Until(w))
  BY PastOutcome
<1>4. SnapshotVersion(v) = past[v + 1]
  <2>. DEFINE E == {i \in All : log[i].version <= v}
  <2>1. Selected(E, Time) = Until(v)
    BY <1>1, <1>2 DEF Selected, Until
  <2>2. SnapshotVersion(v) = Outcome({}, Selected(E, Time))
    BY <1>1, <1>3, LoggedOutcome DEF SnapshotVersion
  <2>. QED  BY <1>3, <2>1, <2>2
<1>5. ASSUME v <= w PROVE Replay(past[v + 1], ChangesBetweenVersions(v, w)) = past[w + 1]
  <2>. DEFINE E == {i \in All : v < log[i].version /\ log[i].version <= w}
              Q == Selected(E, Time)
  <2>1. Q = {p \in Position : v < p[1] /\ p[1] <= w}
    BY <1>1, <1>2 DEF Selected
  <2>2. Until(v) \cup Q = Until(w)
    <3>1. \A p \in Position : p[1] <= v \/ (v < p[1] /\ p[1] <= w) <=> p[1] <= w
      BY <1>1, <1>2, <1>5
    <3>. HIDE DEF Q
    <3>. QED  BY <2>1, <3>1 DEF Until
  <2>3. \A p \in Until(v), q \in Q : Earlier(p, q)
    <3>. SUFFICES ASSUME NEW p \in Until(v), NEW q \in Q PROVE p[1] < q[1]
      BY DEF Earlier
    <3>1. p \in Position /\ p[1] <= v /\ q \in Position /\ v < q[1]
      <4>. HIDE DEF Q
      <4>. QED  BY <2>1 DEF Until
    <3>. QED  BY <1>1, <1>2, <3>1
  <2>4. past[v + 1] \in SUBSET Arc
    BY <1>3 DEF Outcome
  <2>5. Replay(past[v + 1], ChangesBetweenVersions(v, w)) = Outcome(past[v + 1], Q)
    BY <1>1, <2>4, LoggedOutcome DEF ChangesBetweenVersions
  <2>6. Until(v) \in SUBSET Position /\ Q \in SUBSET Position
    BY DEF Until, Selected
  <2>. HIDE DEF Q
  <2>7. Outcome(Outcome({}, Until(v)), Q) = Outcome({}, Until(v) \cup Q)
    BY <1>1, <1>3, <2>3, <2>6, OutcomeTwice
  <2>. QED  BY <1>3, <2>2, <2>5, <2>7
<1>. QED  BY <1>4, <1>5

-----------------------------------------------------------------------------
(* The longest concatenation holds each sequence after those before it.    *)
LEMMA FlatAscends ==
  ASSUME NEW E, NEW seqs \in Seq(Seq(E)), NEW f, IsFlat(f, seqs, E),
         NEW i \in 0 .. Len(seqs)
  PROVE  \A j \in i .. Len(seqs) : Len(f[i]) <= Len(f[j]) /\ \A k \in 1 .. Len(f[i]) : f[j][k] = f[i][k]
<1>. DEFINE n == Len(seqs)
            s == f[i]
            Holds(j) == Len(s) <= Len(f[j]) /\ \A k \in 1 .. Len(s) : f[j][k] = s[k]
            G == {d \in 0 .. n - i : Holds(i + d)}
<1>1. n \in Nat /\ i \in Nat /\ i <= n /\ n - i \in Nat /\ \A k \in 1 .. n : seqs[k] \in Seq(E)
  OBVIOUS
<1>2. /\ f \in [0 .. n -> Seq(E)]
      /\ \A k \in 1 .. n : f[k] = f[k - 1] \o seqs[k]
  BY DEF IsFlat
<1>0. s = f[i] /\ s \in Seq(E) /\ Len(s) \in Nat
  BY <1>2
<1>. HIDE DEF n, s
<1>3. 0 \in G
  BY <1>0, <1>1
<1>4. ASSUME NEW d \in 1 .. n - i, d - 1 \in G PROVE d \in G
  <2>1. i + d \in 1 .. n /\ (i + d) - 1 = i + (d - 1) /\ i + (d - 1) \in 0 .. n /\ d \in 0 .. n - i
    BY <1>1
  <2>2. f[i + (d - 1)] \in Seq(E) /\ seqs[i + d] \in Seq(E) /\ f[i + d] = f[i + (d - 1)] \o seqs[i + d]
    BY <1>1, <1>2, <2>1
  <2>3. /\ Len(f[i + d]) = Len(f[i + (d - 1)]) + Len(seqs[i + d])
        /\ \A k \in 1 .. Len(f[i + (d - 1)]) : f[i + d][k] = f[i + (d - 1)][k]
    <3>1. PICK a \in Seq(E) : a = f[i + (d - 1)]
      BY <2>2
    <3>2. PICK b \in Seq(E) : b = seqs[i + d]
      BY <2>2
    <3>3. f[i + d] = a \o b
      BY <2>2, <3>1, <3>2
    <3>4. Len(a \o b) = Len(a) + Len(b) /\ \A k \in 1 .. Len(a) : (a \o b)[k] = a[k]
      BY ConcatProperties
    <3>. QED  BY <3>1, <3>2, <3>3, <3>4
  <2>4. Len(s) \in Nat /\ Len(f[i + (d - 1)]) \in Nat /\ Len(seqs[i + d]) \in Nat
    BY <1>0, <2>2
  <2>5. Holds(i + (d - 1))
    BY <1>4
  <2>6. Holds(i + d)
    <3>1. Len(s) <= Len(f[i + d])
      <4>1. Len(s) <= Len(f[i + (d - 1)]) /\ Len(f[i + d]) = Len(f[i + (d - 1)]) + Len(seqs[i + d])
        BY <2>3, <2>5
      <4>2. PICK x \in Nat : x = Len(s)
        BY <2>4
      <4>3. PICK y \in Nat : y = Len(f[i + (d - 1)])
        BY <2>4
      <4>4. PICK z \in Nat : z = Len(seqs[i + d])
        BY <2>4
      <4>5. x <= y /\ Len(f[i + d]) = y + z
        <5>. HIDE DEF Holds
        <5>. QED  BY <4>1, <4>2, <4>3, <4>4
      <4>6. x <= y + z
        BY <4>5
      <4>. HIDE DEF Holds
      <4>. QED  BY <4>2, <4>5, <4>6
    <3>2. ASSUME NEW k \in 1 .. Len(s) PROVE f[i + d][k] = s[k]
      <4>1. k \in 1 .. Len(f[i + (d - 1)])
        BY <2>4, <2>5
      <4>. QED  BY <2>3, <2>5, <4>1
    <3>. QED  BY <3>1, <3>2
  <2>. QED  BY <2>1, <2>6
<1>5. 0 .. n - i \subseteq G
  <2>. HIDE DEF G
  <2>. QED  BY <1>1, <1>3, <1>4, AllNumbers
<1>6. ASSUME NEW j \in i .. n PROVE Holds(j)
  <2>1. j - i \in 0 .. n - i /\ i + (j - i) = j
    BY <1>1
  <2>. QED  BY <1>5, <2>1
<1>. QED  BY <1>6 DEF n, s

LEMMA FlatAt ==
  ASSUME NEW E, NEW seqs \in Seq(Seq(E)), NEW f, IsFlat(f, seqs, E)
  PROVE  /\ \A i \in 0 .. Len(seqs) : Len(f[i]) \in Nat /\ \A j \in i .. Len(seqs) : Len(f[i]) <= Len(f[j])
         /\ \A i \in 1 .. Len(seqs), k \in Nat : k \in 1 .. Len(seqs[i]) =>
              /\ Len(f[i - 1]) + k \in 1 .. Len(f[i])
              /\ f[Len(seqs)][Len(f[i - 1]) + k] = seqs[i][k]
<1>. DEFINE n == Len(seqs)
<1>1. n \in Nat /\ \A k \in 1 .. n : seqs[k] \in Seq(E) /\ Len(seqs[k]) \in Nat
  OBVIOUS
<1>2. /\ f \in [0 .. n -> Seq(E)]
      /\ \A k \in 1 .. n : f[k] = f[k - 1] \o seqs[k]
  BY DEF IsFlat
<1>3. ASSUME NEW i \in 0 .. n
      PROVE  /\ f[i] \in Seq(E) /\ Len(f[i]) \in Nat
             /\ \A j \in i .. n : Len(f[i]) <= Len(f[j]) /\ \A k \in 1 .. Len(f[i]) : f[j][k] = f[i][k]
  <2>1. f[i] \in Seq(E) /\ Len(f[i]) \in Nat
    BY <1>2
  <2>. QED  BY <2>1, FlatAscends
<1>4. ASSUME NEW i \in 1 .. n, NEW k \in 1 .. Len(seqs[i])
      PROVE  /\ Len(f[i - 1]) + k \in 1 .. Len(f[i])
             /\ f[n][Len(f[i - 1]) + k] = seqs[i][k]
  <2>1. i - 1 \in 0 .. n /\ i \in 0 .. n /\ n \in i .. n
    BY <1>1
  <2>2. f[i - 1] \in Seq(E) /\ f[i] \in Seq(E) /\ seqs[i] \in Seq(E) /\ f[i] = f[i - 1] \o seqs[i]
    <3>1. seqs[i] \in Seq(E) /\ f[i] = f[i - 1] \o seqs[i]
      BY <1>1, <1>2
    <3>. QED  BY <1>2, <2>1, <3>1
  <2>3. /\ Len(f[i]) = Len(f[i - 1]) + Len(seqs[i])
        /\ f[i][Len(f[i - 1]) + k] = seqs[i][k]
    <3>1. PICK a \in Seq(E) : a = f[i - 1]
      BY <2>2
    <3>2. PICK b \in Seq(E) : b = seqs[i]
      BY <2>2
    <3>3. f[i] = a \o b
      BY <2>2, <3>1, <3>2
    <3>4. Len(a \o b) = Len(a) + Len(b) /\ \A j \in 1 .. Len(b) : (a \o b)[Len(a) + j] = b[j]
      BY ConcatProperties
    <3>. QED  BY <3>1, <3>2, <3>3, <3>4
  <2>4. Len(f[i - 1]) + k \in 1 .. Len(f[i])
    <3>1. PICK x \in Nat : x = Len(f[i - 1])
      BY <2>2
    <3>2. PICK y \in Nat : y = Len(seqs[i])
      BY <2>2
    <3>3. Len(f[i]) = x + y /\ k \in 1 .. y
      BY <2>3, <3>1, <3>2
    <3>4. x + k \in 1 .. x + y
      BY <3>3
    <3>. QED  BY <3>1, <3>3, <3>4
  <2>5. f[n][Len(f[i - 1]) + k] = f[i][Len(f[i - 1]) + k]
    BY <1>3, <2>1, <2>4
  <2>. QED  BY <2>3, <2>4, <2>5
<1>. QED  BY <1>3, <1>4

InOrder(s) == \A i, j \in DOMAIN s : i < j => s[i].time <= s[j].time

(* If all updates of the log are in order, so are their positions.         *)
LEMMA PositionsSorted ==
  ASSUME log \in Seq(Entry), InOrder(Logged(All, Time))
  PROVE  \A p, q \in Position : Earlier(p, q) => At(p).time <= At(q).time
<1>. DEFINE seqs == Parts(All, Time)
            n == Len(log)
<1>1. seqs \in Seq(Seq(StampedOp)) /\ Len(seqs) = n /\ n \in Nat
  BY PartsTyped
<1>2. ASSUME NEW i \in 1 .. n PROVE seqs[i] = log[i].batch
  <2>1. DOMAIN log = 1 .. n /\ i \in All /\ log[i].batch \in Seq(StampedOp)
    BY PositionsIn DEF All
  <2>2. Filtered(log[i].batch, Time) = log[i].batch
    BY <2>1, FilteredAll
  <2>. QED  BY <2>1, <2>2 DEF Parts
<1>3. Logged(All, Time) = FlattenSeq(seqs)
  BY DEF Logged, Parts
<1>. HIDE DEF seqs
<1>4. PICK f : IsFlat(f, seqs, StampedOp)
  BY <1>1, FlatExists
<1>5. Logged(All, Time) = f[n] /\ f[n] \in Seq(StampedOp)
  <2>1. n \in 0 .. n
    BY <1>1
  <2>. QED  BY <1>1, <1>3, <1>4, <2>1, FlattenRuns DEF IsFlat
<1>6. /\ \A i \in 0 .. n : Len(f[i]) \in Nat /\ \A j \in i .. n : Len(f[i]) <= Len(f[j])
      /\ \A i \in 1 .. n, k \in Nat : k \in 1 .. Len(seqs[i]) =>
           Len(f[i - 1]) + k \in 1 .. Len(f[i]) /\ f[n][Len(f[i - 1]) + k] = seqs[i][k]
  BY <1>1, <1>4, FlatAt
<1>. DEFINE Place(p) == Len(f[p[1] - 1]) + p[2]
<1>7. ASSUME NEW p \in Position
      PROVE  /\ p[1] \in 1 .. n /\ p[2] \in Nat \ {0} /\ Place(p) \in 1 .. Len(f[p[1]])
             /\ f[n][Place(p)] = At(p)
             /\ Len(f[p[1] - 1]) \in Nat /\ Len(f[p[1]]) \in Nat /\ Place(p) \in DOMAIN f[n]
  <2>1. p[1] \in 1 .. n /\ p[2] \in 1 .. Len(log[p[1]].batch) /\ Len(log[p[1]].batch) \in Nat
    BY PositionsIn
  <2>2. p[1] - 1 \in 0 .. n /\ p[1] \in 0 .. n /\ n \in p[1] .. n /\ p[2] \in Nat
    BY <1>1, <2>1
  <2>3. seqs[p[1]] = log[p[1]].batch
    BY <1>2, <2>1
  <2>4. Place(p) \in 1 .. Len(f[p[1]]) /\ f[n][Place(p)] = At(p)
    BY <1>6, <2>1, <2>2, <2>3 DEF At
  <2>5. Len(f[p[1]]) <= Len(f[n]) /\ Len(f[n]) \in Nat /\ DOMAIN f[n] = 1 .. Len(f[n])
    BY <1>5, <1>6, <2>2
  <2>. QED  BY <1>6, <2>1, <2>2, <2>4, <2>5
<1>8. ASSUME NEW p \in Position, NEW q \in Position, Earlier(p, q) PROVE Place(p) < Place(q)
  <2>1. CASE p[1] < q[1]
    <3>1. p[1] \in 0 .. n /\ q[1] - 1 \in p[1] .. n
      BY <1>1, <1>7, <2>1
    <3>2. Len(f[p[1]]) <= Len(f[q[1] - 1])
      BY <1>6, <3>1
    <3>. QED  BY <1>7, <3>2
  <2>2. CASE ~(p[1] < q[1])
    <3>1. p[1] = q[1] /\ p[2] < q[2]
      BY <1>8, <2>2 DEF Earlier
    <3>. QED  BY <1>7, <3>1
  <2>. QED  BY <2>1, <2>2
<1>. SUFFICES ASSUME NEW p \in Position, NEW q \in Position, Earlier(p, q) PROVE At(p).time <= At(q).time
  OBVIOUS
<1>9. Place(p) < Place(q) /\ Place(p) \in DOMAIN f[n] /\ Place(q) \in DOMAIN f[n]
  BY <1>7, <1>8
<1>10. f[n][Place(p)] = At(p) /\ f[n][Place(q)] = At(q)
  BY <1>7
<1>. HIDE DEF Place
<1>. QED  BY <1>5, <1>9, <1>10 DEF InOrder

(* The updates at these times. *)
During(times) == {p \in Position : At(p).time \in times}

LEMMA TimesHold == TemporalInv => TimesReplay
<1>. SUFFICES ASSUME TemporalInv, InOrder(Logged(All, Time))
              PROVE  /\ SnapshotTime(MaxTime) = now
                     /\ \A t, u \in Time : t <= u =>
                          /\ Replay(SnapshotTime(t), ChangesBetweenTimes(t, u)) = SnapshotTime(u)
                          /\ SlidingWindow(u, u - t) = Replay({}, ChangesBetweenTimes(t, u))
  BY DEF TimesReplay, InOrder
<1>1. /\ log \in Seq(Entry) /\ directed \in BOOLEAN /\ version = Len(log)
      /\ now = past[Len(log) + 1]
      /\ \A i \in 1 .. Len(log) : \A k \in 1 .. Len(log[i].batch) :
           log[i].from <= log[i].batch[k].time /\ log[i].batch[k].time <= log[i].to
  BY DEF TemporalInv
<1>2. /\ Len(log) \in Nat /\ All = 1 .. Len(log)
      /\ \A i \in 1 .. Len(log) : log[i].from \in Time /\ log[i].to \in Time
      /\ \A p \in Position : /\ p[1] \in 1 .. Len(log) /\ p[2] \in 1 .. Len(log[p[1]].batch)
                             /\ At(p).time \in Time /\ p = <<p[1], p[2]>>
  BY <1>1, PositionsIn DEF All, Entry
<1>3. Time = 0 .. MaxTime /\ MaxTime \in Nat /\ {} \in SUBSET Arc
  BY TemporalConstants DEF Time
<1>4. \A p, q \in Position : Earlier(p, q) => At(p).time <= At(q).time
  BY <1>1, PositionsSorted
<1>5. \A times : Selected(All, times) = During(times)
  BY <1>2 DEF Selected, During
<1>6. \A times : Replay({}, Logged(All, times)) = Outcome({}, During(times))
  BY <1>1, <1>3, <1>5, LoggedOutcome
<1>7. \A t \in Time : SnapshotTime(t) = Outcome({}, During(0 .. t))
  BY <1>6 DEF SnapshotTime
<1>8. SnapshotTime(MaxTime) = now
  <2>1. During(0 .. MaxTime) = Until(Len(log))
    BY <1>2, <1>3 DEF During, Until
  <2>2. Len(log) \in 0 .. version
    BY <1>1, <1>2
  <2>3. now = Outcome({}, Until(Len(log)))
    BY <1>1, <2>2, PastOutcome
  <2>4. MaxTime \in Time
    BY <1>3
  <2>. QED  BY <1>7, <2>1, <2>3, <2>4
<1>9. ASSUME NEW t \in Time, NEW u \in Time, t <= u
      PROVE  /\ Replay(SnapshotTime(t), ChangesBetweenTimes(t, u)) = SnapshotTime(u)
             /\ SlidingWindow(u, u - t) = Replay({}, ChangesBetweenTimes(t, u))
  <2>. DEFINE E == {i \in All : log[i].to > t /\ log[i].from <= u}
              P == During(0 .. t)
              Q == During(Since(t, u))
  <2>1. t \in Nat /\ u \in Nat /\ t <= u
    BY <1>3, <1>9
  <2>2. Selected(E, Since(t, u)) = Q
    <3>1. ASSUME NEW p \in Position, At(p).time \in Since(t, u) PROVE p[1] \in E
      <4>1. /\ p[1] \in 1 .. Len(log) /\ At(p) = log[p[1]].batch[p[2]] /\ At(p).time \in Time
            /\ log[p[1]].from <= At(p).time /\ At(p).time <= log[p[1]].to
            /\ log[p[1]].from \in Time /\ log[p[1]].to \in Time
        BY <1>1, <1>2 DEF At
      <4>2. t < At(p).time /\ At(p).time <= u
        BY <3>1 DEF Since
      <4>3. log[p[1]].to > t /\ log[p[1]].from <= u
        <5>1. log[p[1]].from \in Nat /\ log[p[1]].to \in Nat /\ At(p).time \in Nat
          BY <1>3, <4>1
        <5>. QED  BY <2>1, <4>1, <4>2, <5>1
      <4>4. p[1] \in All
        BY <1>2, <4>1
      <4>. QED  BY <4>3, <4>4
    <3>. HIDE DEF E
    <3>. QED  BY <3>1 DEF Selected, During
  <2>3. \A arcs \in SUBSET Arc : Replay(arcs, ChangesBetweenTimes(t, u)) = Outcome(arcs, Q)
    <3>1. ChangesBetweenTimes(t, u) = Logged(E, Since(t, u))
      BY DEF ChangesBetweenTimes
    <3>. HIDE DEF E, Q
    <3>. QED  BY <1>1, <2>2, <3>1, LoggedOutcome
  <2>4. P \cup Q = During(0 .. u)
    <3>1. (0 .. t) \cup Since(t, u) = 0 .. u
      BY <1>3, <2>1 DEF Since
    <3>. QED  BY <3>1 DEF During
  <2>5. \A p \in P, q \in Q : Earlier(p, q)
    <3>. SUFFICES ASSUME NEW p \in P, NEW q \in Q PROVE Earlier(p, q)
      OBVIOUS
    <3>1. p \in Position /\ q \in Position /\ At(p).time \in Time /\ At(q).time \in Time
      BY <1>2 DEF During
    <3>2. At(p).time <= t /\ t < At(q).time
      BY DEF During, Since
    <3>3. ~(At(q).time <= At(p).time)
      BY <1>3, <2>1, <3>1, <3>2
    <3>4. ~Earlier(q, p) /\ p # q
      BY <1>3, <1>4, <3>1, <3>3
    <3>5. p[1] \in Int /\ q[1] \in Int /\ p[2] \in Int /\ q[2] \in Int /\ p = <<p[1], p[2]>> /\ q = <<q[1], q[2]>>
      BY <1>1, <3>1, PositionTyped
    <3>6. ~(p[1] = q[1] /\ p[2] = q[2])
      BY <3>4, <3>5
    <3>. QED  BY <3>4, <3>5, <3>6 DEF Earlier
  <2>6. P \in SUBSET Position /\ Q \in SUBSET Position
    BY DEF During
  <2>. HIDE DEF P, Q
  <2>7. Outcome(Outcome({}, P), Q) = Outcome({}, P \cup Q)
    BY <1>1, <1>3, <2>5, <2>6, OutcomeTwice
  <2>8. SnapshotTime(t) = Outcome({}, P) /\ SnapshotTime(u) = Outcome({}, P \cup Q)
    BY <1>7, <2>4 DEF P
  <2>9. Outcome({}, P) \in SUBSET Arc
    BY DEF Outcome
  <2>10. Replay(SnapshotTime(t), ChangesBetweenTimes(t, u)) = SnapshotTime(u)
    BY <2>3, <2>7, <2>8, <2>9
  <2>11. SlidingWindow(u, u - t) = Outcome({}, Q)
    <3>1. (IF u > u - t THEN u - (u - t) ELSE 0) = t
      BY <2>1
    <3>. QED  BY <1>6, <3>1 DEF SlidingWindow, Q
  <2>. QED  BY <1>3, <2>3, <2>10, <2>11
<1>. QED  BY <1>8, <1>9

LEMMA HistoryHolds == TemporalInv => HistoryReplays
BY VersionsHold, TimesHold DEF HistoryReplays

LEMMA OnlyTemporal == [Next]_vars => [NextTemporal]_temporal
BY DEF Next, vars, Storage, Computation, temporal

LEMMA TemporalKept == TemporalInv /\ [Next]_vars => TemporalInv'
<1>1. ASSUME TemporalInv, NextTemporal PROVE TemporalInv'
  BY <1>1, ApplyKeeps DEF NextTemporal
<1>2. ASSUME TemporalInv, UNCHANGED temporal PROVE TemporalInv'
  BY <1>2 DEF TemporalInv, temporal
<1>. QED  BY <1>1, <1>2, OnlyTemporal

(* Whatever batches a temporal graph has applied, replaying its log, or    *)
(* what the version and time filters keep of it, gives the graph as it was *)
(* at each version, and, if timestamps never decreased, at each time.      *)
THEOREM HistoryReplayed == Spec => []HistoryReplays
<1>1. Init => TemporalInv
  BY TemporalStarts DEF Init
<1>. QED  BY <1>1, TemporalKept, HistoryHolds, PTL DEF Spec

-----------------------------------------------------------------------------
(* The intersection kernels.                                               *)

(* Rows whose ids ascend.                                                  *)
Ascending(a) == a \in Seq(Nat) /\ \A k, l \in 1 .. Len(a) : k < l => a[k] < a[l]

LEMMA AscendingFacts ==
  ASSUME NEW a, Ascending(a)
  PROVE  /\ Len(a) \in Nat /\ DOMAIN a = 1 .. Len(a)
         /\ \A k \in 1 .. Len(a) : a[k] \in Nat
         /\ \A k, l \in 1 .. Len(a) : k < l => a[k] < a[l]
         /\ \A k, l \in 1 .. Len(a) : a[k] = a[l] => k = l
         /\ \A k, l \in 1 .. Len(a) : k <= l <=> a[k] <= a[l]
<1>1. a \in Seq(Nat) /\ \A k, l \in 1 .. Len(a) : k < l => a[k] < a[l]
  BY DEF Ascending
<1>2. Len(a) \in Nat /\ DOMAIN a = 1 .. Len(a) /\ \A k \in 1 .. Len(a) : a[k] \in Nat
  BY <1>1
<1>3. ASSUME NEW k \in 1 .. Len(a), NEW l \in 1 .. Len(a)
      PROVE  (a[k] = a[l] => k = l) /\ (k <= l <=> a[k] <= a[l])
  <2>1. k \in Int /\ l \in Int /\ a[k] \in Int /\ a[l] \in Int
    BY <1>2
  <2>2. (k < l => a[k] < a[l]) /\ (l < k => a[l] < a[k])
    BY <1>1
  <2>. QED  BY <2>1, <2>2
<1>. QED  BY <1>1, <1>2, <1>3

(* The ids at some places of a row, and those of two rows.                 *)
IdsAt(a, K) == {a[k] : k \in K}

Shared(a, b) == IdsAt(a, 1 .. Len(a)) \cap IdsAt(b, 1 .. Len(b))

LEMMA IdsCounted ==
  ASSUME NEW a, Ascending(a), NEW K \in SUBSET (1 .. Len(a))
  PROVE  /\ IsFiniteSet(K) /\ IsFiniteSet(IdsAt(a, K))
         /\ Cardinality(IdsAt(a, K)) = Cardinality(K)
<1>1. Len(a) \in Nat /\ \A k, l \in 1 .. Len(a) : a[k] = a[l] => k = l
  BY AscendingFacts
<1>2. IsFiniteSet(1 .. Len(a))
  BY <1>1, FS_Interval
<1>3. IsFiniteSet(K)
  BY <1>2, FS_Subset
<1>. DEFINE f == [k \in K |-> a[k]]
<1>4. f \in [K -> IdsAt(a, K)]
  BY DEF IdsAt
<1>5. (\A k, l \in K : f[k] = f[l] => k = l) /\ (\A t \in IdsAt(a, K) : \E k \in K : f[k] = t)
  BY <1>1 DEF IdsAt
<1>. HIDE DEF f
<1>6. f \in Bijection(K, IdsAt(a, K))
  BY <1>4, <1>5, Fun_IsBij
<1>7. ExistsBijection(K, IdsAt(a, K))
  BY <1>6 DEF ExistsBijection
<1>. QED  BY <1>3, <1>7, FS_Bijection

(* The shared ids among the first i of one row and the first j of another. *)
Counted(a, b, i, j) == (IdsAt(a, 1 .. i) \cup IdsAt(b, 1 .. j)) \cap Shared(a, b)

CountSound(a, b, here) ==
  /\ here \in [i : 0 .. Len(a), j : 0 .. Len(b), count : Nat]
  /\ here.count = Cardinality(Counted(a, b, here.i, here.j))

LEMMA SharedFinite ==
  ASSUME NEW a, Ascending(a), NEW b
  PROVE  IsFiniteSet(Shared(a, b)) /\ \A X : IsFiniteSet(X \cap Shared(a, b))
<1>1. IsFiniteSet(IdsAt(a, 1 .. Len(a)))
  BY IdsCounted
<1>2. IsFiniteSet(Shared(a, b))
  BY <1>1, FS_Intersection DEF Shared
<1>. QED  BY <1>2, FS_Intersection

(* One comparison of two blocks of the same size.                          *)
LEMMA BlockStep ==
  ASSUME NEW a, Ascending(a), NEW b, Ascending(b), NEW lanes \in Nat \ {0},
         NEW here, CountSound(a, b, here), here.i + lanes <= Len(a), here.j + lanes <= Len(b)
  PROVE  CountSound(a, b, BlockRound(a, b, lanes, here))
<1>. DEFINE i == here.i
            j == here.j
            ni == IF a[i + lanes] <= b[j + lanes] THEN i + lanes ELSE i
            nj == IF b[j + lanes] <= a[i + lanes] THEN j + lanes ELSE j
            matched == {l \in 1 .. lanes : \E m \in 1 .. lanes : a[i + l] = b[j + m]}
            K == {i + l : l \in matched}
            A == IdsAt(a, K)
            S == Shared(a, b)
            C == Counted(a, b, i, j)
<1>1. /\ here \in [i : 0 .. Len(a), j : 0 .. Len(b), count : Nat]
      /\ i \in 0 .. Len(a) /\ j \in 0 .. Len(b) /\ here.count \in Nat /\ here.count = Cardinality(C)
  BY DEF CountSound
<1>2. /\ Len(a) \in Nat /\ Len(b) \in Nat
      /\ \A k \in 1 .. Len(a) : a[k] \in Nat
      /\ \A k \in 1 .. Len(b) : b[k] \in Nat
      /\ \A k, l \in 1 .. Len(a) : k <= l <=> a[k] <= a[l]
      /\ \A k, l \in 1 .. Len(b) : k <= l <=> b[k] <= b[l]
      /\ \A k, l \in 1 .. Len(a) : a[k] = a[l] => k = l
      /\ \A k, l \in 1 .. Len(b) : b[k] = b[l] => k = l
  BY AscendingFacts
<1>3. /\ i + lanes \in 1 .. Len(a) /\ j + lanes \in 1 .. Len(b) /\ i \in Nat /\ j \in Nat
      /\ \A l \in 1 .. lanes : i + l \in 1 .. Len(a) /\ j + l \in 1 .. Len(b)
  BY <1>1, <1>2
<1>4. BlockRound(a, b, lanes, here) = [i |-> ni, j |-> nj, count |-> here.count + Cardinality(matched)]
  <2>1. NextBlocks(a, b, lanes, here) = [i |-> ni, j |-> nj, count |-> here.count]
    BY DEF NextBlocks
  <2>2. ~(i + lanes > Len(a) \/ j + lanes > Len(b))
    BY <1>2, <1>3
  <2>3. BlockRound(a, b, lanes, here) = [NextBlocks(a, b, lanes, here) EXCEPT !.count = @ + Cardinality(matched)]
    BY <2>2 DEF BlockRound
  <2>. HIDE DEF ni, nj, matched
  <2>. QED  BY <2>1, <2>3
<1>5. ni \in 0 .. Len(a) /\ nj \in 0 .. Len(b)
  BY <1>1, <1>3
<1>6. K \in SUBSET (1 .. Len(a)) /\ Cardinality(K) = Cardinality(matched) /\ IsFiniteSet(matched)
  <2>1. IsFiniteSet(1 .. lanes) /\ matched \in SUBSET (1 .. lanes)
    BY FS_Interval
  <2>2. IsFiniteSet(matched)
    BY <2>1, FS_Subset
  <2>. DEFINE f == [l \in matched |-> i + l]
  <2>3. f \in [matched -> K] /\ (\A t \in K : \E l \in matched : f[l] = t)
    OBVIOUS
  <2>4. \A k, l \in matched : f[k] = f[l] => k = l
    BY <1>3
  <2>5. K \in SUBSET (1 .. Len(a))
    BY <1>3
  <2>. HIDE DEF f, K, matched
  <2>6. f \in Bijection(matched, K)
    BY <2>3, <2>4, Fun_IsBij
  <2>7. ExistsBijection(matched, K)
    BY <2>6 DEF ExistsBijection
  <2>. QED  BY <2>2, <2>5, <2>7, FS_Bijection
<1>7. Cardinality(A) = Cardinality(matched) /\ IsFiniteSet(A) /\ Cardinality(matched) \in Nat
  <2>. HIDE DEF K, matched
  <2>. QED  BY <1>6, IdsCounted, FS_CardinalityType
<1>8. A \subseteq S /\ A \cap C = {}
  <2>. SUFFICES ASSUME NEW l \in 1 .. lanes, NEW m \in 1 .. lanes, a[i + l] = b[j + m]
                PROVE  a[i + l] \in S /\ a[i + l] \notin C
    BY DEF IdsAt
  <2>1. i + l \in 1 .. Len(a) /\ j + m \in 1 .. Len(b)
    BY <1>3
  <2>2. a[i + l] \in S
    BY <2>1 DEF Shared, IdsAt
  <2>3. a[i + l] \notin IdsAt(a, 1 .. i)
    <3>1. \A k \in 1 .. i : k \in 1 .. Len(a) /\ k # i + l
      BY <1>1, <1>2
    <3>. QED  BY <1>2, <2>1, <3>1 DEF IdsAt
  <2>4. b[j + m] \notin IdsAt(b, 1 .. j)
    <3>1. \A k \in 1 .. j : k \in 1 .. Len(b) /\ k # j + m
      BY <1>1, <1>2
    <3>. QED  BY <1>2, <2>1, <3>1 DEF IdsAt
  <2>. QED  BY <2>2, <2>3, <2>4 DEF Counted
<1>9. \A k \in 1 .. Len(a) : i < k /\ k <= i + lanes /\ a[k] \in S => a[k] \in A \/ a[k] \in C \/ a[k] > b[j + lanes]
  <2>. SUFFICES ASSUME NEW k \in 1 .. Len(a), i < k, k <= i + lanes, NEW p \in 1 .. Len(b), a[k] = b[p]
                PROVE  a[k] \in A \/ a[k] \in C \/ a[k] > b[j + lanes]
    BY DEF Shared, IdsAt
  <2>1. CASE p <= j
    <3>1. p \in 1 .. j
      BY <1>1, <2>1
    <3>2. a[k] \in S
      BY DEF Shared, IdsAt
    <3>. QED  BY <3>1, <3>2 DEF Counted, IdsAt
  <2>2. CASE j < p /\ p <= j + lanes
    <3>1. k - i \in 1 .. lanes /\ p - j \in 1 .. lanes /\ i + (k - i) = k /\ j + (p - j) = p
      <4>1. \A x, y \in Int : y < x /\ x <= y + lanes => x - y \in 1 .. lanes /\ y + (x - y) = x
        OBVIOUS
      <4>2. k \in Int /\ p \in Int /\ i \in Int /\ j \in Int
        BY <1>2, <1>3
      <4>. HIDE DEF i, j
      <4>. QED  BY <2>2, <4>1, <4>2
    <3>2. k - i \in matched
      BY <3>1
    <3>3. k \in K
      BY <3>1, <3>2
    <3>. QED  BY <3>3 DEF IdsAt
  <2>3. CASE j + lanes < p
    <3>1. ~(p <= j + lanes) /\ a[k] \in Nat /\ b[j + lanes] \in Nat /\ b[p] \in Nat
      BY <1>2, <1>3, <2>3
    <3>2. ~(b[p] <= b[j + lanes])
      BY <1>2, <1>3, <3>1
    <3>. QED  BY <3>1, <3>2
  <2>. QED  BY <1>1, <1>2, <2>1, <2>2, <2>3
<1>10. \A k \in 1 .. Len(b) : j < k /\ k <= j + lanes /\ b[k] \in S => b[k] \in A \/ b[k] \in C \/ b[k] > a[i + lanes]
  <2>. SUFFICES ASSUME NEW k \in 1 .. Len(b), j < k, k <= j + lanes, NEW p \in 1 .. Len(a), b[k] = a[p]
                PROVE  b[k] \in A \/ b[k] \in C \/ b[k] > a[i + lanes]
    BY DEF Shared, IdsAt
  <2>1. CASE p <= i
    <3>1. p \in 1 .. i
      BY <1>1, <2>1
    <3>2. b[k] \in S
      BY DEF Shared, IdsAt
    <3>. QED  BY <3>1, <3>2 DEF Counted, IdsAt
  <2>2. CASE i < p /\ p <= i + lanes
    <3>1. k - j \in 1 .. lanes /\ p - i \in 1 .. lanes /\ j + (k - j) = k /\ i + (p - i) = p
      <4>1. \A x, y \in Int : y < x /\ x <= y + lanes => x - y \in 1 .. lanes /\ y + (x - y) = x
        OBVIOUS
      <4>2. k \in Int /\ p \in Int /\ i \in Int /\ j \in Int
        BY <1>2, <1>3
      <4>. HIDE DEF i, j
      <4>. QED  BY <2>2, <4>1, <4>2
    <3>2. p - i \in matched
      BY <3>1
    <3>3. p \in K
      BY <3>1, <3>2
    <3>. QED  BY <3>3 DEF IdsAt
  <2>3. CASE i + lanes < p
    <3>1. ~(p <= i + lanes) /\ b[k] \in Nat /\ a[i + lanes] \in Nat /\ a[p] \in Nat
      BY <1>2, <1>3, <2>3
    <3>2. ~(a[p] <= a[i + lanes])
      BY <1>2, <1>3, <3>1
    <3>. QED  BY <3>1, <3>2
  <2>. QED  BY <1>1, <1>2, <2>1, <2>2, <2>3
<1>11. a[i + lanes] \in Nat /\ b[j + lanes] \in Nat
  BY <1>2, <1>3
<1>12. Counted(a, b, ni, nj) \subseteq C \cup A
  <2>. SUFFICES ASSUME NEW x \in S, x \in IdsAt(a, 1 .. ni) \/ x \in IdsAt(b, 1 .. nj)
                PROVE  x \in C \/ x \in A
    BY DEF Counted
  <2>. HIDE DEF A, C, S
  <2>1. CASE x \in IdsAt(a, 1 .. ni)
    <3>1. PICK k \in 1 .. ni : x = a[k]
      BY <2>1 DEF IdsAt
    <3>2. CASE k \in 1 .. i
      BY <3>1, <3>2 DEF Counted, C, S, IdsAt
    <3>3. CASE k \notin 1 .. i
      <4>1. k \in 1 .. Len(a) /\ i < k /\ k <= i + lanes /\ a[i + lanes] <= b[j + lanes]
        BY <1>1, <1>2, <1>3, <3>3
      <4>2. a[k] <= a[i + lanes] /\ a[k] \in Nat
        BY <1>2, <1>3, <4>1
      <4>3. ~(a[k] > b[j + lanes])
        BY <1>11, <4>1, <4>2
      <4>. QED  BY <1>9, <3>1, <4>1, <4>3
    <3>. QED  BY <3>2, <3>3
  <2>2. CASE x \in IdsAt(b, 1 .. nj)
    <3>1. PICK k \in 1 .. nj : x = b[k]
      BY <2>2 DEF IdsAt
    <3>2. CASE k \in 1 .. j
      BY <3>1, <3>2 DEF Counted, C, S, IdsAt
    <3>3. CASE k \notin 1 .. j
      <4>1. k \in 1 .. Len(b) /\ j < k /\ k <= j + lanes /\ b[j + lanes] <= a[i + lanes]
        BY <1>1, <1>2, <1>3, <3>3
      <4>2. b[k] <= b[j + lanes] /\ b[k] \in Nat
        BY <1>2, <1>3, <4>1
      <4>3. ~(b[k] > a[i + lanes])
        BY <1>11, <4>1, <4>2
      <4>. QED  BY <1>10, <3>1, <4>1, <4>3
    <3>. QED  BY <3>2, <3>3
  <2>. QED  BY <2>1, <2>2
<1>13. C \cup A \subseteq Counted(a, b, ni, nj)
  <2>1. C \subseteq Counted(a, b, ni, nj)
    <3>1. 1 .. i \subseteq 1 .. ni /\ 1 .. j \subseteq 1 .. nj
      <4>. HIDE DEF i, j, matched, K, A, S, C
      <4>1. (ni = i \/ ni = i + lanes) /\ (nj = j \/ nj = j + lanes)
        OBVIOUS
      <4>. HIDE DEF ni, nj
      <4>2. ni \in Nat /\ i <= ni /\ nj \in Nat /\ j <= nj
        BY <1>3, <4>1
      <4>. QED  BY <1>3, <4>2
    <3>. HIDE DEF ni, nj
    <3>. QED  BY <3>1 DEF Counted, IdsAt
  <2>2. ASSUME NEW l \in 1 .. lanes, NEW m \in 1 .. lanes, a[i + l] = b[j + m]
        PROVE  a[i + l] \in IdsAt(a, 1 .. ni) \/ a[i + l] \in IdsAt(b, 1 .. nj)
    <3>1. CASE a[i + lanes] <= b[j + lanes]
      <4>1. i + l \in 1 .. ni
        BY <1>3, <3>1
      <4>. HIDE DEF ni, nj
      <4>. QED  BY <4>1 DEF IdsAt
    <3>2. CASE b[j + lanes] <= a[i + lanes]
      <4>1. j + m \in 1 .. nj
        BY <1>3, <3>2
      <4>. HIDE DEF ni, nj
      <4>. QED  BY <2>2, <4>1 DEF IdsAt
    <3>. QED  BY <1>11, <3>1, <3>2
  <2>3. A \subseteq Counted(a, b, ni, nj)
    <3>. SUFFICES ASSUME NEW x \in A PROVE x \in IdsAt(a, 1 .. ni) \/ x \in IdsAt(b, 1 .. nj)
      BY <1>8 DEF Counted
    <3>1. PICK l \in matched : x = a[i + l]
      BY DEF IdsAt
    <3>2. PICK m \in 1 .. lanes : a[i + l] = b[j + m]
      BY <3>1
    <3>. HIDE DEF ni, nj
    <3>. QED  BY <2>2, <3>1, <3>2
  <2>. QED  BY <2>1, <2>3
<1>14. Cardinality(C \cup A) = here.count + Cardinality(matched)
  <2>1. IsFiniteSet(C)
    BY SharedFinite DEF Counted
  <2>2. Cardinality(C \cup A) = Cardinality(C) + Cardinality(A) - Cardinality(C \cap A)
    <3>. HIDE DEF C, A
    <3>. QED  BY <1>7, <2>1, FS_Union
  <2>3. Cardinality(C \cap A) = 0
    <3>1. C \cap A = {}
      BY <1>8
    <3>. HIDE DEF C, A
    <3>. QED  BY <3>1, FS_EmptySet
  <2>. HIDE DEF C, A, matched
  <2>4. Cardinality(C) = here.count /\ Cardinality(A) = Cardinality(matched) /\ here.count \in Nat
    BY <1>1, <1>7
  <2>. QED  BY <1>7, <2>2, <2>3, <2>4
<1>15. Counted(a, b, ni, nj) = C \cup A
  BY <1>12, <1>13
<1>. HIDE DEF ni, nj, C, A, matched, K, S, i, j
<1>. DEFINE new == BlockRound(a, b, lanes, here)
<1>16. new.i = ni /\ new.j = nj /\ new.count = here.count + Cardinality(matched)
  BY <1>4
<1>17. new \in [i : 0 .. Len(a), j : 0 .. Len(b), count : Nat]
  BY <1>1, <1>4, <1>5, <1>7
<1>18. new.count = Cardinality(Counted(a, b, new.i, new.j))
  BY <1>14, <1>15, <1>16
<1>. HIDE DEF new
<1>19. CountSound(a, b, new)
  BY <1>17, <1>18 DEF CountSound
<1>. QED  BY <1>19 DEF new

(* A round of the merge compares two blocks of one id, until a row ends.   *)
LEMMA MergeStep ==
  ASSUME NEW a, Ascending(a), NEW b, Ascending(b), NEW here, CountSound(a, b, here)
  PROVE  CountSound(a, b, MergeRound(a, b, here))
<1>1. /\ here \in [i : 0 .. Len(a), j : 0 .. Len(b), count : Nat] /\ Len(a) \in Nat /\ Len(b) \in Nat
      /\ here.i \in 0 .. Len(a) /\ here.j \in 0 .. Len(b) /\ here.count \in Nat
  BY AscendingFacts DEF CountSound
<1>2. CASE here.i = Len(a) \/ here.j = Len(b)
  BY <1>2 DEF MergeRound
<1>3. CASE ~(here.i = Len(a) \/ here.j = Len(b))
  <2>1. here.i + 1 <= Len(a) /\ here.j + 1 <= Len(b) /\ here.i + 1 \in 1 .. Len(a) /\ here.j + 1 \in 1 .. Len(b)
    BY <1>1, <1>3
  <2>2. CountSound(a, b, BlockRound(a, b, 1, here))
    <3>1. 1 \in Nat \ {0}
      OBVIOUS
    <3>. QED  BY <2>1, <3>1, BlockStep
  <2>. DEFINE x == a[here.i + 1]
              y == b[here.j + 1]
              ni == IF x <= y THEN here.i + 1 ELSE here.i
              nj == IF y <= x THEN here.j + 1 ELSE here.j
              matched == {l \in 1 .. 1 : \E m \in 1 .. 1 : a[here.i + l] = b[here.j + m]}
  <2>3. here.count + Cardinality(matched) = IF x = y THEN here.count + 1 ELSE here.count
    <3>1. 1 .. 1 = {1}
      OBVIOUS
    <3>2. matched = IF x = y THEN {1} ELSE {}
      BY <3>1
    <3>3. Cardinality({}) = 0 /\ Cardinality({1}) = 1
      BY FS_EmptySet, FS_Singleton
    <3>. HIDE DEF matched
    <3>4. CASE x = y
      <4>1. matched = {1}
        BY <3>2, <3>4
      <4>. QED  BY <3>3, <3>4, <4>1
    <3>5. CASE x # y
      <4>1. matched = {}
        BY <3>2, <3>5
      <4>. QED  BY <1>1, <3>3, <3>5, <4>1
    <3>. QED  BY <3>4, <3>5
  <2>4. BlockRound(a, b, 1, here) = [i |-> ni, j |-> nj, count |-> here.count + Cardinality(matched)]
    <3>1. ~(here.i + 1 > Len(a) \/ here.j + 1 > Len(b))
      BY <1>1, <2>1
    <3>2. NextBlocks(a, b, 1, here) = [i |-> ni, j |-> nj, count |-> here.count]
      BY DEF NextBlocks
    <3>4. BlockRound(a, b, 1, here) = [NextBlocks(a, b, 1, here) EXCEPT !.count = @ + Cardinality(matched)]
      BY <3>1 DEF BlockRound
    <3>. HIDE DEF ni, nj, matched
    <3>. QED  BY <3>2, <3>4
  <2>5. MergeRound(a, b, here) = [i |-> ni, j |-> nj, count |-> IF x = y THEN here.count + 1 ELSE here.count]
    BY <1>3 DEF MergeRound
  <2>. HIDE DEF ni, nj, matched, x, y
  <2>. QED  BY <2>2, <2>3, <2>4, <2>5
<1>. QED  BY <1>2, <1>3

LEMMA StartSound ==
  ASSUME NEW a, Ascending(a), NEW b, Ascending(b)
  PROVE  CountSound(a, b, Start)
<1>1. Len(a) \in Nat /\ Len(b) \in Nat
  BY AscendingFacts
<1>2. Counted(a, b, 0, 0) = {}
  <2>1. 1 .. 0 = {}
    OBVIOUS
  <2>. QED  BY <2>1 DEF Counted, IdsAt
<1>3. Start \in [i : 0 .. Len(a), j : 0 .. Len(b), count : Nat] /\ Start.i = 0 /\ Start.j = 0 /\ Start.count = 0
  BY <1>1 DEF Start
<1>. QED  BY <1>2, <1>3, FS_EmptySet DEF CountSound

(* Where the merge is after its rounds. *)
MergeEnd(a, b) == FoldLeft(LAMBDA here, k : MergeRound(a, b, here), Start, EachRound(a, b))

CountStates(a, b) == {here \in [i : 0 .. Len(a), j : 0 .. Len(b), count : Nat] : CountSound(a, b, here)}

IsMerge(a, b, f) ==
  /\ f \in [0 .. Len(a) + Len(b) -> CountStates(a, b)]
  /\ f[0] = Start
  /\ \A k \in 1 .. Len(a) + Len(b) : f[k] = MergeRound(a, b, f[k - 1])

LEMMA MergeRuns ==
  ASSUME NEW a, Ascending(a), NEW b, Ascending(b)
  PROVE  \E f : IsMerge(a, b, f) /\ f[Len(a) + Len(b)] = MergeEnd(a, b)
<1>. DEFINE n == Len(a) + Len(b)
            Step(k, s) == MergeRound(a, b, s)
            D == CountStates(a, b)
            base == Start
<1>1. n \in Nat /\ DOMAIN EachRound(a, b) = 1 .. n
  BY AscendingFacts DEF EachRound
<1>2. ASSUME NEW k \in 1 .. n, NEW s \in D PROVE Step(k, s) \in D
  <2>1. CountSound(a, b, s)
    BY DEF CountStates
  <2>2. CountSound(a, b, MergeRound(a, b, s))
    BY <2>1, MergeStep
  <2>. QED  BY <2>2 DEF CountStates, CountSound
<1>3. base \in D
  BY StartSound DEF CountStates, CountSound
<1>. HIDE DEF n, Step, D
<1>. DEFINE step == [p \in (1 .. n) \X D |-> Step(p[1], p[2])]
<1>4. IsStep(step, n, D)
  BY <1>2 DEF IsStep
<1>5. PICK g : Iterates(g, n, D, base, step)
  <2>. HIDE DEF step, base
  <2>. QED  BY <1>1, <1>3, <1>4, IterationExists
<1>6. \A T \in SUBSET (1 .. n) : T # {} => Max(T) \in T
  BY <1>1, MaxIn
<1>7. g = [T \in SUBSET (1 .. n) |-> IF T = {} THEN base ELSE Step(Max(T), g[T \ {Max(T)}])]
  <2>1. ASSUME NEW T \in SUBSET (1 .. n), T # {}
        PROVE  step[<<Max(T), g[T \ {Max(T)}]>>] = Step(Max(T), g[T \ {Max(T)}])
    BY <1>5, <1>6, <2>1 DEF Iterates
  <2>. HIDE DEF step, base
  <2>. QED  BY <1>5, <2>1 DEF Iterates
<1>. DEFINE it == CHOOSE h : h = [T \in SUBSET (1 .. n) |-> IF T = {} THEN base ELSE Step(Max(T), h[T \ {Max(T)}])]
<1>8. it = [T \in SUBSET (1 .. n) |-> IF T = {} THEN base ELSE Step(Max(T), it[T \ {Max(T)}])]
  <2>. HIDE DEF base
  <2>. QED  BY <1>7
<1>9. MergeEnd(a, b) = it[1 .. n]
  BY <1>1 DEF MergeEnd, FoldLeft, MapThenFoldSet, Step
<1>. HIDE DEF it, base
<1>10. Unfolds(it, n, D, base, step)
  <2>1. it[{}] = base
    BY <1>8
  <2>2. ASSUME NEW T \in SUBSET (1 .. n), T # {}, it[T \ {Max(T)}] \in D
        PROVE  it[T] = step[<<Max(T), it[T \ {Max(T)}]>>]
    <3>1. it[T] = Step(Max(T), it[T \ {Max(T)}])
      BY <1>8, <2>2
    <3>. QED  BY <1>6, <2>2, <3>1
  <2>. HIDE DEF step
  <2>. QED  BY <2>1, <2>2 DEF Unfolds
<1>11. PICK f : IsRun(f, n, D, base, step) /\ f[n] = it[1 .. n]
  <2>. HIDE DEF step
  <2>. QED  BY <1>1, <1>3, <1>4, <1>10, FoldRuns
<1>12. ASSUME NEW k \in 1 .. n PROVE f[k] = Step(k, f[k - 1])
  <2>1. k - 1 \in 0 .. n
    BY <1>1
  <2>2. f[k - 1] \in D /\ f[k] = step[<<k, f[k - 1]>>]
    BY <1>11, <2>1 DEF IsRun
  <2>. QED  BY <2>2
<1>. QED  BY <1>9, <1>11, <1>12 DEF IsMerge, IsRun, n, Step, D, base
(* The blocks end likewise. *)
BlocksEnd(a, b, lanes) == FoldLeft(LAMBDA here, k : BlockRound(a, b, lanes, here), Start, EachRound(a, b))

IsBlocks(a, b, lanes, f) ==
  /\ f \in [0 .. Len(a) + Len(b) -> CountStates(a, b)]
  /\ f[0] = Start
  /\ \A k \in 1 .. Len(a) + Len(b) : f[k] = BlockRound(a, b, lanes, f[k - 1])

LEMMA BlockRuns ==
  ASSUME NEW a, Ascending(a), NEW b, Ascending(b), NEW lanes \in Nat \ {0}
  PROVE  \E f : IsBlocks(a, b, lanes, f) /\ f[Len(a) + Len(b)] = BlocksEnd(a, b, lanes)
<1>. DEFINE n == Len(a) + Len(b)
            Step(k, s) == BlockRound(a, b, lanes, s)
            D == CountStates(a, b)
            base == Start
<1>1. n \in Nat /\ DOMAIN EachRound(a, b) = 1 .. n
  BY AscendingFacts DEF EachRound
<1>2. ASSUME NEW k \in 1 .. n, NEW s \in D PROVE Step(k, s) \in D
  <2>1. CountSound(a, b, s)
    BY DEF CountStates
  <2>2. CountSound(a, b, BlockRound(a, b, lanes, s))
    <3>1. CASE s.i + lanes > Len(a) \/ s.j + lanes > Len(b)
      BY <2>1, <3>1 DEF BlockRound
    <3>2. CASE ~(s.i + lanes > Len(a) \/ s.j + lanes > Len(b))
      <4>1. s.i \in Nat /\ s.j \in Nat /\ Len(a) \in Nat /\ Len(b) \in Nat
        BY <2>1, AscendingFacts DEF CountSound
      <4>2. s.i + lanes <= Len(a) /\ s.j + lanes <= Len(b)
        BY <3>2, <4>1
      <4>. QED  BY <2>1, <4>2, BlockStep
    <3>. QED  BY <3>1, <3>2
  <2>. QED  BY <2>2 DEF CountStates, CountSound
<1>3. base \in D
  BY StartSound DEF CountStates, CountSound
<1>. HIDE DEF n, Step, D
<1>. DEFINE step == [p \in (1 .. n) \X D |-> Step(p[1], p[2])]
<1>4. IsStep(step, n, D)
  BY <1>2 DEF IsStep
<1>5. PICK g : Iterates(g, n, D, base, step)
  <2>. HIDE DEF step, base
  <2>. QED  BY <1>1, <1>3, <1>4, IterationExists
<1>6. \A T \in SUBSET (1 .. n) : T # {} => Max(T) \in T
  BY <1>1, MaxIn
<1>7. g = [T \in SUBSET (1 .. n) |-> IF T = {} THEN base ELSE Step(Max(T), g[T \ {Max(T)}])]
  <2>1. ASSUME NEW T \in SUBSET (1 .. n), T # {}
        PROVE  step[<<Max(T), g[T \ {Max(T)}]>>] = Step(Max(T), g[T \ {Max(T)}])
    BY <1>5, <1>6, <2>1 DEF Iterates
  <2>. HIDE DEF step, base
  <2>. QED  BY <1>5, <2>1 DEF Iterates
<1>. DEFINE it == CHOOSE h : h = [T \in SUBSET (1 .. n) |-> IF T = {} THEN base ELSE Step(Max(T), h[T \ {Max(T)}])]
<1>8. it = [T \in SUBSET (1 .. n) |-> IF T = {} THEN base ELSE Step(Max(T), it[T \ {Max(T)}])]
  <2>. HIDE DEF base
  <2>. QED  BY <1>7
<1>9. BlocksEnd(a, b, lanes) = it[1 .. n]
  BY <1>1 DEF BlocksEnd, FoldLeft, MapThenFoldSet, Step
<1>. HIDE DEF it, base
<1>10. Unfolds(it, n, D, base, step)
  <2>1. it[{}] = base
    BY <1>8
  <2>2. ASSUME NEW T \in SUBSET (1 .. n), T # {}, it[T \ {Max(T)}] \in D
        PROVE  it[T] = step[<<Max(T), it[T \ {Max(T)}]>>]
    <3>1. it[T] = Step(Max(T), it[T \ {Max(T)}])
      BY <1>8, <2>2
    <3>. QED  BY <1>6, <2>2, <3>1
  <2>. HIDE DEF step
  <2>. QED  BY <2>1, <2>2 DEF Unfolds
<1>11. PICK f : IsRun(f, n, D, base, step) /\ f[n] = it[1 .. n]
  <2>. HIDE DEF step
  <2>. QED  BY <1>1, <1>3, <1>4, <1>10, FoldRuns
<1>12. ASSUME NEW k \in 1 .. n PROVE f[k] = Step(k, f[k - 1])
  <2>1. k - 1 \in 0 .. n
    BY <1>1
  <2>2. f[k - 1] \in D /\ f[k] = step[<<k, f[k - 1]>>]
    BY <1>11, <2>1 DEF IsRun
  <2>. QED  BY <2>2
<1>. QED  BY <1>9, <1>11, <1>12 DEF IsBlocks, IsRun, n, Step, D, base

(* A merge reaches the end of a row, having counted all that is shared.    *)
LEMMA ScalarCounts ==
  ASSUME NEW a, Ascending(a), NEW b, Ascending(b)
  PROVE  ScalarIntersection(a, b) = Cardinality(Shared(a, b))
<1>. DEFINE n == Len(a) + Len(b)
<1>1. Len(a) \in Nat /\ Len(b) \in Nat /\ n \in Nat
  BY AscendingFacts
<1>2. PICK f : IsMerge(a, b, f) /\ f[n] = MergeEnd(a, b)
  BY MergeRuns
<1>. DEFINE Done(here) == here.i = Len(a) \/ here.j = Len(b)
            G == {k \in 0 .. n : Done(f[k]) \/ f[k].i + f[k].j >= k}
<1>3. ASSUME NEW k \in 0 .. n
      PROVE  f[k].i \in 0 .. Len(a) /\ f[k].j \in 0 .. Len(b) /\ CountSound(a, b, f[k])
  <2>1. f[k] \in CountStates(a, b)
    BY <1>2 DEF IsMerge
  <2>. QED  BY <2>1 DEF CountStates
<1>4. 0 \in G
  BY <1>1, <1>2 DEF IsMerge, Start
<1>5. ASSUME NEW k \in 1 .. n, k - 1 \in G PROVE k \in G
  <2>. DEFINE here == f[k - 1]
  <2>1. k - 1 \in 0 .. n /\ k \in 0 .. n
    BY <1>1
  <2>2. f[k] = MergeRound(a, b, here)
    BY <1>2 DEF IsMerge
  <2>3. here.i \in 0 .. Len(a) /\ here.j \in 0 .. Len(b) /\ (Done(here) \/ here.i + here.j >= k - 1)
    BY <1>3, <1>5, <2>1
  <2>. HIDE DEF here
  <2>4. CASE Done(here)
    <3>1. f[k] = here
      BY <2>2, <2>4 DEF MergeRound
    <3>. QED  BY <2>1, <2>4, <3>1
  <2>5. CASE ~Done(here)
    <3>. DEFINE x == a[here.i + 1]
                y == b[here.j + 1]
    <3>1. here.i + 1 \in 1 .. Len(a) /\ here.j + 1 \in 1 .. Len(b)
      BY <1>1, <2>3, <2>5
    <3>2. x \in Nat /\ y \in Nat
      BY <3>1, AscendingFacts
    <3>3. /\ f[k].i = IF x <= y THEN here.i + 1 ELSE here.i
          /\ f[k].j = IF y <= x THEN here.j + 1 ELSE here.j
      BY <2>2, <2>5 DEF MergeRound
    <3>. HIDE DEF x, y
    <3>4. f[k].i + f[k].j >= k
      <4>1. here.i \in Nat /\ here.j \in Nat /\ k \in Nat /\ here.i + here.j >= k - 1
        BY <1>1, <2>3, <2>5
      <4>2. x <= y \/ y <= x
        BY <3>2
      <4>. QED  BY <3>3, <4>1, <4>2
    <3>. QED  BY <2>1, <3>4
  <2>. QED  BY <2>4, <2>5
<1>6. n \in 0 .. n /\ 0 .. n \subseteq G
  <2>1. 0 .. n \subseteq G
    <3>. HIDE DEF G, n
    <3>. QED  BY <1>1, <1>4, <1>5, AllNumbers
  <2>. QED  BY <1>1, <2>1
<1>. DEFINE end == f[n]
<1>7. end.i \in 0 .. Len(a) /\ end.j \in 0 .. Len(b) /\ CountSound(a, b, end) /\ (Done(end) \/ end.i + end.j >= n)
  BY <1>3, <1>6
<1>. HIDE DEF end
<1>8. end.i = Len(a) \/ end.j = Len(b)
  BY <1>1, <1>7
<1>9. Counted(a, b, end.i, end.j) = Shared(a, b)
  BY <1>8 DEF Counted, Shared
<1>10. ScalarIntersection(a, b) = end.count
  BY <1>2 DEF ScalarIntersection, MergeEnd, end
<1>. QED  BY <1>7, <1>9, <1>10 DEF CountSound

(* What is left of a row from a place on. *)
LEMMA RestOf ==
  ASSUME NEW a, Ascending(a), NEW i \in 0 .. Len(a)
  PROVE  /\ Ascending(SubSeq(a, i + 1, Len(a)))
         /\ IdsAt(SubSeq(a, i + 1, Len(a)), 1 .. Len(SubSeq(a, i + 1, Len(a)))) = IdsAt(a, i + 1 .. Len(a))
<1>. DEFINE n == Len(a)
            r == SubSeq(a, i + 1, n)
<1>1. n \in Nat /\ i \in Nat /\ i <= n
  BY AscendingFacts
<1>2. a \in Seq(Nat) /\ \A k, l \in 1 .. n : k < l => a[k] < a[l]
  BY DEF Ascending
<1>3. r \in Seq(Nat) /\ Len(r) = n - i /\ \A k \in 1 .. n - i : r[k] = a[i + k]
  <2>1. i + 1 \in 1 .. n + 1 /\ n \in (i + 1) - 1 .. n /\ n - (i + 1) + 1 = n - i
    BY <1>1
  <2>2. \A k \in i + 1 .. n : a[k] \in Nat
    BY <1>1, <1>2
  <2>3. /\ r \in Seq(Nat) /\ Len(r) = IF i + 1 <= n THEN n - (i + 1) + 1 ELSE 0
        /\ \A k \in 1 .. n - (i + 1) + 1 : r[k] = a[(i + 1) + k - 1]
    <3>1. i + 1 \in Int /\ n \in Int
      BY <1>1
    <3>. HIDE DEF n
    <3>. QED  BY <2>2, <3>1, SubSeqProperties
  <2>4. \A k \in 1 .. n - i : (i + 1) + k - 1 = i + k
    BY <1>1
  <2>5. Len(r) = n - i
    <3>1. Len(r) = IF i + 1 <= n THEN n - (i + 1) + 1 ELSE 0
      BY <2>3
    <3>. HIDE DEF n, r
    <3>2. (IF i + 1 <= n THEN n - (i + 1) + 1 ELSE 0) = n - i
      BY <1>1
    <3>. QED  BY <3>1, <3>2
  <2>. HIDE DEF n, r
  <2>. QED  BY <2>1, <2>3, <2>4, <2>5
<1>. HIDE DEF r
<1>4. ASSUME NEW k \in 1 .. Len(r), NEW l \in 1 .. Len(r), k < l PROVE r[k] < r[l]
  <2>1. i + k \in 1 .. n /\ i + l \in 1 .. n /\ i + k < i + l
    BY <1>1, <1>3, <1>4
  <2>2. a[i + k] < a[i + l]
    BY <1>2, <2>1
  <2>. QED  BY <1>3, <2>2
<1>5. IdsAt(r, 1 .. Len(r)) = IdsAt(a, i + 1 .. n)
  <2>1. ASSUME NEW k \in i + 1 .. n PROVE k - i \in 1 .. Len(r) /\ r[k - i] = a[k]
    <3>1. k - i \in 1 .. n - i /\ i + (k - i) = k
      BY <1>1
    <3>. QED  BY <1>3, <3>1
  <2>2. ASSUME NEW k \in 1 .. Len(r) PROVE i + k \in i + 1 .. n /\ r[k] = a[i + k]
    <3>1. k \in 1 .. n - i
      BY <1>3
    <3>2. i + k \in i + 1 .. n
      BY <1>1, <3>1
    <3>. QED  BY <1>3, <3>1, <3>2
  <2>3. IdsAt(a, i + 1 .. n) \subseteq IdsAt(r, 1 .. Len(r))
    BY <2>1 DEF IdsAt
  <2>4. IdsAt(r, 1 .. Len(r)) \subseteq IdsAt(a, i + 1 .. n)
    BY <2>2 DEF IdsAt
  <2>. QED  BY <2>3, <2>4
<1>. QED  BY <1>3, <1>4, <1>5 DEF Ascending, r

LEMMA BlocksCount ==
  ASSUME NEW a, Ascending(a), NEW b, Ascending(b), NEW lanes \in Nat \ {0}
  PROVE  BlockIntersection(a, b, lanes) = Cardinality(Shared(a, b))
<1>. DEFINE n == Len(a) + Len(b)
            S == Shared(a, b)
<1>1. Len(a) \in Nat /\ Len(b) \in Nat /\ n \in 0 .. n
  BY AscendingFacts
<1>2. PICK f : IsBlocks(a, b, lanes, f) /\ f[n] = BlocksEnd(a, b, lanes)
  BY BlockRuns
<1>3. PICK end : end = BlocksEnd(a, b, lanes)
  OBVIOUS
<1>4. end.i \in 0 .. Len(a) /\ end.j \in 0 .. Len(b) /\ end.count \in Nat
      /\ end.count = Cardinality(Counted(a, b, end.i, end.j))
  <2>1. f[n] \in CountStates(a, b)
    BY <1>1, <1>2 DEF IsBlocks
  <2>. QED  BY <1>2, <1>3, <2>1 DEF CountStates, CountSound
<1>. DEFINE ra == SubSeq(a, end.i + 1, Len(a))
            rb == SubSeq(b, end.j + 1, Len(b))
            C == Counted(a, b, end.i, end.j)
            R == Shared(ra, rb)
<1>5. BlockIntersection(a, b, lanes) = end.count + ScalarIntersection(ra, rb)
  BY <1>3 DEF BlockIntersection, BlocksEnd
<1>6. /\ Ascending(ra) /\ Ascending(rb)
      /\ R = IdsAt(a, end.i + 1 .. Len(a)) \cap IdsAt(b, end.j + 1 .. Len(b))
  BY <1>4, RestOf DEF Shared
<1>7. ScalarIntersection(ra, rb) = Cardinality(R)
  <2>. HIDE DEF ra, rb
  <2>. QED  BY <1>6, ScalarCounts
<1>8. /\ 1 .. Len(a) = (1 .. end.i) \cup (end.i + 1 .. Len(a))
      /\ 1 .. Len(b) = (1 .. end.j) \cup (end.j + 1 .. Len(b))
  BY <1>1, <1>4
<1>9. /\ IdsAt(a, 1 .. Len(a)) = IdsAt(a, 1 .. end.i) \cup IdsAt(a, end.i + 1 .. Len(a))
      /\ IdsAt(b, 1 .. Len(b)) = IdsAt(b, 1 .. end.j) \cup IdsAt(b, end.j + 1 .. Len(b))
  BY <1>8 DEF IdsAt
<1>10. /\ IdsAt(a, 1 .. end.i) \cap IdsAt(a, end.i + 1 .. Len(a)) = {}
       /\ IdsAt(b, 1 .. end.j) \cap IdsAt(b, end.j + 1 .. Len(b)) = {}
  <2>1. /\ \A k \in 1 .. end.i, l \in end.i + 1 .. Len(a) : k \in 1 .. Len(a) /\ l \in 1 .. Len(a) /\ k # l
        /\ \A k \in 1 .. end.j, l \in end.j + 1 .. Len(b) : k \in 1 .. Len(b) /\ l \in 1 .. Len(b) /\ k # l
    BY <1>1, <1>4
  <2>2. /\ \A k, l \in 1 .. Len(a) : a[k] = a[l] => k = l
        /\ \A k, l \in 1 .. Len(b) : b[k] = b[l] => k = l
    BY AscendingFacts
  <2>. QED  BY <2>1, <2>2 DEF IdsAt
<1>11. S = C \cup R /\ C \cap R = {}
  <2>. HIDE DEF R
  <2>. QED  BY <1>6, <1>9, <1>10 DEF Counted, Shared
<1>12. IsFiniteSet(C) /\ IsFiniteSet(R)
  <2>1. IsFiniteSet(C)
    BY SharedFinite DEF Counted
  <2>. HIDE DEF ra, rb
  <2>. QED  BY <1>6, <2>1, SharedFinite
<1>13. Cardinality(C \cup R) = Cardinality(C) + Cardinality(R) - Cardinality(C \cap R)
  <2>. HIDE DEF C, R
  <2>. QED  BY <1>12, FS_Union
<1>14. Cardinality(C \cap R) = 0
  <2>. HIDE DEF C, R
  <2>. QED  BY <1>11, FS_EmptySet
<1>15. Cardinality(C) = end.count /\ Cardinality(R) \in Nat
  <2>1. Cardinality(R) \in Nat
    <3>. HIDE DEF R
    <3>. QED  BY <1>12, FS_CardinalityType
  <2>. QED  BY <1>4, <2>1
<1>. HIDE DEF C, R, S
<1>16. Cardinality(C \cup R) = end.count + Cardinality(R)
  BY <1>4, <1>13, <1>14, <1>15
<1>17. BlockIntersection(a, b, lanes) = end.count + Cardinality(R)
  BY <1>5, <1>7
<1>. QED  BY <1>11, <1>16, <1>17 DEF S

(* Counting the places of one row whose id is in the other.                *)
LEMMA PlacesCount ==
  ASSUME NEW a, Ascending(a), NEW b, Ascending(b)
  PROVE  Cardinality({k \in DOMAIN a : a[k] \in IdsAt(b, 1 .. Len(b))}) = Cardinality(Shared(a, b))
<1>. DEFINE K == {k \in DOMAIN a : a[k] \in IdsAt(b, 1 .. Len(b))}
<1>1. K \in SUBSET (1 .. Len(a))
  BY AscendingFacts
<1>2. IdsAt(a, K) = Shared(a, b)
  <2>1. DOMAIN a = 1 .. Len(a)
    BY AscendingFacts
  <2>. QED  BY <2>1 DEF IdsAt, Shared
<1>. HIDE DEF K
<1>3. Cardinality(K) = Cardinality(Shared(a, b))
  BY <1>1, <1>2, IdsCounted
<1>. QED  BY <1>3 DEF K

LEMMA GallopingCounts ==
  ASSUME NEW a, Ascending(a), NEW b, Ascending(b)
  PROVE  GallopingIntersection(a, b) = Cardinality(Shared(a, b))
<1>1. \A k \in DOMAIN a : Contains(b, a[k]) <=> a[k] \in IdsAt(b, 1 .. Len(b))
  BY DEF Contains, IdsAt
<1>2. {k \in DOMAIN a : Contains(b, a[k])} = {k \in DOMAIN a : a[k] \in IdsAt(b, 1 .. Len(b))}
  BY <1>1
<1>. QED  BY <1>2, PlacesCount DEF GallopingIntersection

(* A bit belongs to one id, and its word is within that of a larger id.    *)
LEMMA BitOf ==
  ASSUME NEW x \in Nat, NEW y \in Nat
  PROVE  /\ Bit(x) = Bit(y) => x = y
         /\ x <= y => Bit(x)[1] <= y \div BitmapBits
         /\ y \div BitmapBits \in Nat /\ Bit(x)[1] \in Nat
<1>1. PICK w \in Nat \ {0} : w = BitmapBits
  BY KernelConstants
<1>2. /\ x = w * (x \div w) + (x % w) /\ y = w * (y \div w) + (y % w)
      /\ x % w \in 0 .. w - 1 /\ y % w \in 0 .. w - 1 /\ x \div w \in Nat /\ y \div w \in Nat
  <2>1. \A z \in Nat : z = w * (z \div w) + (z % w) /\ z % w \in 0 .. w - 1 /\ z \div w \in Nat
    OBVIOUS
  <2>. QED  BY <2>1
<1>3. Bit(x) = Bit(y) => x = y
  BY <1>1, <1>2 DEF Bit
<1>4. x <= y => x \div w <= y \div w
  <2>. SUFFICES ASSUME x <= y, x \div w > y \div w PROVE FALSE
    BY <1>2
  <2>1. PICK p \in Nat, q \in Nat, r \in 0 .. w - 1, s \in 0 .. w - 1 :
          x = w * p + r /\ y = w * q + s /\ p = x \div w /\ q = y \div w
    BY <1>2
  <2>2. p >= q + 1
    BY <2>1
  <2>3. w * p >= w * (q + 1)
    BY <2>1, <2>2, SMT
  <2>4. w * (q + 1) = w * q + w
    BY <2>1
  <2>5. w * p \in Nat /\ w * q \in Nat
    BY <2>1
  <2>. QED  BY <2>1, <2>3, <2>4, <2>5
<1>. QED  BY <1>1, <1>2, <1>3, <1>4 DEF Bit

LEMMA LastIsGreatest ==
  ASSUME NEW a, Ascending(a), a # <<>>
  PROVE  Last(a) \in Nat /\ \A id \in ToSet(a) : id \in Nat /\ id <= Last(a)
<1>1. /\ Len(a) \in Nat /\ DOMAIN a = 1 .. Len(a)
      /\ \A k \in 1 .. Len(a) : a[k] \in Nat
      /\ \A k, l \in 1 .. Len(a) : k <= l <=> a[k] <= a[l]
  BY AscendingFacts
<1>2. Len(a) # 0
  BY EmptySeq DEF Ascending
<1>3. Len(a) \in 1 .. Len(a) /\ \A k \in 1 .. Len(a) : k <= Len(a)
  BY <1>1, <1>2
<1>. QED  BY <1>1, <1>3 DEF Last, ToSet

LEMMA BitmapCounts ==
  ASSUME NEW a, Ascending(a), NEW b, Ascending(b)
  PROVE  BitmapIntersection(a, b) = Cardinality(Shared(a, b))
<1>. DEFINE marked == {Bit(a[k]) : k \in DOMAIN a}
<1>1. CASE a = <<>> \/ b = <<>>
  <2>1. 1 .. 0 = {} /\ Len(<<>>) = 0
    OBVIOUS
  <2>2. Shared(a, b) = {}
    BY <1>1, <2>1 DEF Shared, IdsAt
  <2>. QED  BY <1>1, <2>2, FS_EmptySet DEF BitmapIntersection
<1>2. CASE a # <<>> /\ b # <<>>
  <2>1. /\ Last(a) \in Nat /\ \A id \in ToSet(a) : id \in Nat /\ id <= Last(a)
        /\ Last(b) \in Nat /\ \A id \in ToSet(b) : id \in Nat /\ id <= Last(b)
    BY <1>2, LastIsGreatest
  <2>2. PICK max \in Nat : max = Max({Last(a), Last(b)}) /\ Last(a) <= max /\ Last(b) <= max
    <3>1. \E x \in {Last(a), Last(b)} : \A y \in {Last(a), Last(b)} : x >= y
      BY <2>1
    <3>2. /\ Max({Last(a), Last(b)}) \in {Last(a), Last(b)}
          /\ \A y \in {Last(a), Last(b)} : Max({Last(a), Last(b)}) >= y
      BY <3>1 DEF Max
    <3>. QED  BY <2>1, <3>2
  <2>3. ASSUME NEW id \in ToSet(a) \cup ToSet(b) PROVE ~(Bit(id)[1] >= Words(a, b))
    <3>1. id \in Nat /\ id <= max
      BY <2>1, <2>2
    <3>2. Bit(id)[1] <= max \div BitmapBits /\ max \div BitmapBits \in Nat /\ Bit(id)[1] \in Nat
      BY <3>1, BitOf
    <3>3. Words(a, b) = max \div BitmapBits + 1
      BY <2>2 DEF Words
    <3>. QED  BY <3>2, <3>3
  <2>4. BitmapIntersection(a, b) = Cardinality({k \in DOMAIN b : Bit(b[k]) \in marked})
    BY <1>2, <2>3 DEF BitmapIntersection
  <2>5. ASSUME NEW k \in DOMAIN b PROVE Bit(b[k]) \in marked <=> b[k] \in IdsAt(a, 1 .. Len(a))
    <3>1. DOMAIN a = 1 .. Len(a) /\ b[k] \in Nat /\ \A l \in DOMAIN a : a[l] \in Nat
      BY AscendingFacts
    <3>. QED  BY <3>1, BitOf DEF IdsAt
  <2>6. {k \in DOMAIN b : Bit(b[k]) \in marked} = {k \in DOMAIN b : b[k] \in IdsAt(a, 1 .. Len(a))}
    BY <2>5
  <2>7. Shared(a, b) = Shared(b, a)
    BY DEF Shared
  <2>. QED  BY <2>4, <2>6, <2>7, PlacesCount
<1>. QED  BY <1>1, <1>2

(* The rows a caller extends ascend.                                       *)
RowsInv == rows = <<rows[1], rows[2]>> /\ Ascending(rows[1]) /\ Ascending(rows[2])

LEMMA RowsStart == InitKernels => RowsInv
<1>1. <<>> \in Seq(Nat) /\ Len(<<>>) = 0 /\ 1 .. 0 = {}
  OBVIOUS
<1>2. Ascending(<<>>)
  BY <1>1 DEF Ascending
<1>. QED  BY <1>2 DEF InitKernels, RowsInv

LEMMA RowExtended ==
  ASSUME NEW a, Ascending(a), NEW id \in Nat, a # <<>> => Last(a) < id
  PROVE  Ascending(Append(a, id))
<1>. DEFINE n == Len(a)
            e == Append(a, id)
<1>1. a \in Seq(Nat) /\ n \in Nat /\ \A k, l \in 1 .. n : k < l => a[k] < a[l]
  BY DEF Ascending
<1>2. e \in Seq(Nat) /\ Len(e) = n + 1 /\ e[n + 1] = id /\ \A k \in 1 .. n : e[k] = a[k]
  BY <1>1, AppendProperties
<1>3. \A k \in 1 .. n : a[k] < id
  <2>1. CASE a = <<>>
    BY <2>1
  <2>2. CASE a # <<>>
    <3>1. ASSUME NEW k \in 1 .. n PROVE a[k] \in ToSet(a)
      <4>1. DOMAIN a = 1 .. n
        BY AscendingFacts
      <4>. QED  BY <4>1 DEF ToSet
    <3>2. Last(a) \in Nat /\ \A x \in ToSet(a) : x \in Nat /\ x <= Last(a)
      BY <2>2, LastIsGreatest
    <3>. QED  BY <2>2, <3>1, <3>2
  <2>. QED  BY <2>1, <2>2
<1>. HIDE DEF e, n
<1>4. ASSUME NEW k \in 1 .. n + 1, NEW l \in 1 .. n + 1, k < l PROVE e[k] < e[l]
  <2>1. k \in 1 .. n
    BY <1>1, <1>4
  <2>2. CASE l = n + 1
    BY <1>2, <1>3, <2>1, <2>2
  <2>3. CASE l # n + 1
    <3>1. l \in 1 .. n
      BY <1>1, <2>3
    <3>. QED  BY <1>1, <1>2, <1>4, <2>1, <3>1
  <2>. QED  BY <2>2, <2>3
<1>5. Ascending(e)
  BY <1>2, <1>4 DEF Ascending
<1>. QED  BY <1>5 DEF e

LEMMA RowsKept == RowsInv /\ [NextKernels]_rows => RowsInv'
<1>. SUFFICES ASSUME RowsInv, [NextKernels]_rows PROVE RowsInv'
  OBVIOUS
<1>1. CASE UNCHANGED rows
  BY <1>1 DEF RowsInv
<1>2. ASSUME NEW k \in {1, 2}, NEW id \in RowIds, rows[k] # <<>> => Last(rows[k]) < id,
             rows' = [rows EXCEPT ![k] = Append(@, id)]
      PROVE  RowsInv'
  <2>1. id \in Nat
    BY KernelConstants
  <2>2. Ascending(rows[k]) /\ rows = <<rows[1], rows[2]>> /\ Ascending(rows[1]) /\ Ascending(rows[2])
    BY DEF RowsInv
  <2>3. Ascending(Append(rows[k], id))
    BY <1>2, <2>1, <2>2, RowExtended
  <2>4. CASE k = 1
    <3>1. rows' = <<Append(rows[1], id), rows[2]>>
      BY <1>2, <2>2, <2>4
    <3>. QED  BY <2>2, <2>3, <2>4, <3>1 DEF RowsInv
  <2>5. CASE k = 2
    <3>1. rows' = <<rows[1], Append(rows[2], id)>>
      BY <1>2, <2>2, <2>5
    <3>. QED  BY <2>2, <2>3, <2>5, <3>1 DEF RowsInv
  <2>. QED  BY <2>4, <2>5
<1>. QED  BY <1>1, <1>2 DEF NextKernels

LEMMA KernelsHold == RowsInv => KernelsAgree
<1>. SUFFICES ASSUME RowsInv PROVE KernelsAgree
  OBVIOUS
<1>. DEFINE a == rows[1]
            b == rows[2]
            n == Cardinality(Shared(a, b))
<1>1. Ascending(a) /\ Ascending(b)
  BY DEF RowsInv
<1>. HIDE DEF a, b
<1>2. ToSet(a) \cap ToSet(b) = Shared(a, b) /\ Shared(b, a) = Shared(a, b)
  <2>1. DOMAIN a = 1 .. Len(a) /\ DOMAIN b = 1 .. Len(b)
    BY <1>1, AscendingFacts
  <2>. QED  BY <2>1 DEF ToSet, Shared, IdsAt
<1>3. /\ ScalarIntersection(a, b) = n /\ BitmapIntersection(a, b) = n
      /\ GallopingIntersection(a, b) = n /\ GallopingIntersection(b, a) = n
  BY <1>1, <1>2, ScalarCounts, GallopingCounts, BitmapCounts
<1>4. ASSUME NEW f \in Features PROVE BlockIntersection(a, b, LanesOf[f]) = n
  <2>1. LanesOf[f] \in Nat \ {0}
    BY KernelConstants
  <2>. QED  BY <1>1, <2>1, BlocksCount
<1>5. ASSUME NEW features PROVE AdaptiveIntersection(a, b, features) = n
  <2>. DEFINE kernel == SelectIntersection(a, b, features)
  <2>. HIDE DEF n, kernel
  <2>1. AdaptiveIntersection(a, b, features)
          = CASE kernel = "galloping" -> IF Len(a) <= Len(b) THEN GallopingIntersection(a, b)
                                                             ELSE GallopingIntersection(b, a)
              [] kernel = "bitmap"    -> BitmapIntersection(a, b)
              [] kernel \in Features  -> BlockIntersection(a, b, LanesOf[kernel])
              [] OTHER                -> ScalarIntersection(a, b)
    BY DEF AdaptiveIntersection, kernel
  <2>. QED  BY <1>3, <1>4, <2>1
<1>. HIDE DEF n
<1>6. {n} = {ScalarIntersection(a, b), GallopingIntersection(a, b), BitmapIntersection(a, b)}
              \cup {BlockIntersection(a, b, LanesOf[f]) : f \in Features}
              \cup {AdaptiveIntersection(a, b, features) : features \in SUBSET Features}
  BY <1>3, <1>4, <1>5
<1>. QED  BY <1>2, <1>6 DEF KernelsAgree, a, b, n

LEMMA OnlyKernels == [Next]_vars => [NextKernels]_rows
BY DEF Next, vars, Storage, Computation

(* On any two ascending rows, whatever their lengths, ids and the lanes of *)
(* a vector, the scalar, vector, galloping and bitmap kernels all return   *)
(* the number of ids the rows share.                                       *)
THEOREM KernelsAgreeAlways == Spec => []KernelsAgree
<1>1. Init => RowsInv
  BY RowsStart DEF Init
<1>2. RowsInv /\ [Next]_vars => RowsInv'
  BY OnlyKernels, RowsKept
<1>. QED  BY <1>1, <1>2, KernelsHold, PTL DEF Spec

-----------------------------------------------------------------------------
(* The static graph.                                                       *)

(* What Members has kept after each element.                               *)
IsMembers(s, S, f) ==
  /\ f \in [0 .. Len(s) -> Seq(S)]
  /\ f[0] = <<>>
  /\ \A k \in 1 .. Len(s) : f[k] = IF s[k] \in S THEN Append(f[k - 1], s[k]) ELSE f[k - 1]

(* Members has such a run.                                                 *)
LEMMA MembersRuns ==
  ASSUME NEW E, NEW s \in Seq(E), NEW S
  PROVE  \E f : IsMembers(s, S, f) /\ f[Len(s)] = Members(s, S)
<1>. DEFINE n == Len(s)
            Step(k, a) == IF s[k] \in S THEN Append(a, s[k]) ELSE a
            D == Seq(S)
            base == <<>>
<1>1. n \in Nat /\ DOMAIN s = 1 .. n
  OBVIOUS
<1>2. ASSUME NEW k \in 1 .. n, NEW a \in D PROVE Step(k, a) \in D
  OBVIOUS
<1>3. base \in D
  OBVIOUS
<1>. HIDE DEF n, Step, D
<1>. DEFINE step == [p \in (1 .. n) \X D |-> Step(p[1], p[2])]
<1>4. IsStep(step, n, D)
  BY <1>2 DEF IsStep
<1>5. PICK iter : Iterates(iter, n, D, base, step)
  <2>. HIDE DEF step, base
  <2>. QED  BY <1>1, <1>3, <1>4, IterationExists
<1>6. \A T \in SUBSET (1 .. n) : T # {} => Max(T) \in T
  BY <1>1, MaxIn
<1>7. iter = [T \in SUBSET (1 .. n) |-> IF T = {} THEN base ELSE Step(Max(T), iter[T \ {Max(T)}])]
  <2>1. ASSUME NEW T \in SUBSET (1 .. n), T # {}
        PROVE  step[<<Max(T), iter[T \ {Max(T)}]>>] = Step(Max(T), iter[T \ {Max(T)}])
    BY <1>5, <1>6, <2>1 DEF Iterates
  <2>. HIDE DEF step, base
  <2>. QED  BY <1>5, <2>1 DEF Iterates
<1>. DEFINE it == CHOOSE h : h = [T \in SUBSET (1 .. n) |-> IF T = {} THEN base ELSE Step(Max(T), h[T \ {Max(T)}])]
<1>8. it = [T \in SUBSET (1 .. n) |-> IF T = {} THEN base ELSE Step(Max(T), it[T \ {Max(T)}])]
  <2>. HIDE DEF base
  <2>. QED  BY <1>7
<1>9. Members(s, S) = it[1 .. n]
  BY <1>1 DEF Members, FoldLeft, MapThenFoldSet, Step
<1>. HIDE DEF it, base
<1>10. Unfolds(it, n, D, base, step)
  <2>1. it[{}] = base
    BY <1>8
  <2>2. ASSUME NEW T \in SUBSET (1 .. n), T # {}, it[T \ {Max(T)}] \in D
        PROVE  it[T] = step[<<Max(T), it[T \ {Max(T)}]>>]
    <3>1. it[T] = Step(Max(T), it[T \ {Max(T)}])
      BY <1>8, <2>2
    <3>. QED  BY <1>6, <2>2, <3>1
  <2>. HIDE DEF step
  <2>. QED  BY <2>1, <2>2 DEF Unfolds
<1>11. PICK f : IsRun(f, n, D, base, step) /\ f[n] = it[1 .. n]
  <2>. HIDE DEF step
  <2>. QED  BY <1>1, <1>3, <1>4, <1>10, FoldRuns
<1>12. ASSUME NEW k \in 1 .. n PROVE f[k] = Step(k, f[k - 1])
  <2>1. k - 1 \in 0 .. n
    BY <1>1
  <2>2. f[k - 1] \in D /\ f[k] = step[<<k, f[k - 1]>>]
    BY <1>11, <2>1 DEF IsRun
  <2>. QED  BY <2>2
<1>. QED  BY <1>9, <1>11, <1>12 DEF IsMembers, IsRun, n, Step, D, base

(* Where the elements of a sequence come from that Members keeps.          *)
Keeps(s, S, k, m) ==
  /\ m \in Seq(S)
  /\ \A i \in 1 .. Len(m) : \E a \in 1 .. k : m[i] = s[a]
  /\ \A i, j \in 1 .. Len(m) : i < j => \E a, b \in 1 .. k : a < b /\ m[i] = s[a] /\ m[j] = s[b]
  /\ \A a \in 1 .. k : s[a] \in S => \E i \in 1 .. Len(m) : m[i] = s[a]

(* One more element is kept or is not.                                     *)
LEMMA MembersStep ==
  ASSUME NEW s, NEW S, NEW k \in Nat \ {0}, NEW m, Keeps(s, S, k - 1, m)
  PROVE  Keeps(s, S, k, IF s[k] \in S THEN Append(m, s[k]) ELSE m)
<1>1. /\ m \in Seq(S) /\ Len(m) \in Nat
      /\ \A i \in 1 .. Len(m) : \E a \in 1 .. k - 1 : m[i] = s[a]
      /\ \A i, j \in 1 .. Len(m) : i < j => \E a, b \in 1 .. k - 1 : a < b /\ m[i] = s[a] /\ m[j] = s[b]
      /\ \A a \in 1 .. k - 1 : s[a] \in S => \E i \in 1 .. Len(m) : m[i] = s[a]
  BY DEF Keeps
<1>2. \A a \in 1 .. k : a \in 1 .. k - 1 \/ a = k
  OBVIOUS
<1>3. 1 .. k - 1 \subseteq 1 .. k /\ k \in 1 .. k /\ \A a \in 1 .. k - 1 : a < k
  OBVIOUS
<1>4. CASE s[k] \notin S
  <2>1. ASSUME NEW i \in 1 .. Len(m), NEW j \in 1 .. Len(m), i < j
        PROVE  \E a, b \in 1 .. k : a < b /\ m[i] = s[a] /\ m[j] = s[b]
    <3>1. PICK a \in 1 .. k - 1, b \in 1 .. k - 1 : a < b /\ m[i] = s[a] /\ m[j] = s[b]
      BY <1>1, <2>1
    <3>. QED  BY <1>3, <3>1
  <2>2. \A i \in 1 .. Len(m) : \E a \in 1 .. k : m[i] = s[a]
    BY <1>1, <1>3
  <2>3. \A a \in 1 .. k : s[a] \in S => \E i \in 1 .. Len(m) : m[i] = s[a]
    BY <1>1, <1>2, <1>4
  <2>4. Keeps(s, S, k, m)
    BY <1>1, <2>1, <2>2, <2>3 DEF Keeps
  <2>. QED  BY <1>4, <2>4
<1>5. CASE s[k] \in S
  <2>. DEFINE t == Append(m, s[k])
              n == Len(m)
  <2>1. /\ t \in Seq(S) /\ Len(t) = n + 1 /\ t[n + 1] = s[k]
        /\ \A i \in 1 .. n : t[i] = m[i]
    BY <1>1, <1>5, AppendProperties
  <2>2. n \in Nat /\ n = Len(m)
    BY <1>1
  <2>. HIDE DEF t, n
  <2>3. \A i \in 1 .. Len(t) : i \in 1 .. n \/ i = n + 1
    BY <2>1, <2>2
  <2>4. ASSUME NEW i \in 1 .. Len(t) PROVE \E a \in 1 .. k : t[i] = s[a]
    <3>1. CASE i \in 1 .. n
      BY <1>1, <1>3, <2>1, <2>2, <3>1
    <3>. QED  BY <1>3, <2>1, <2>3, <3>1
  <2>5. ASSUME NEW i \in 1 .. Len(t), NEW j \in 1 .. Len(t), i < j
        PROVE  \E a, b \in 1 .. k : a < b /\ t[i] = s[a] /\ t[j] = s[b]
    <3>1. i \in 1 .. n
      BY <2>1, <2>2, <2>5
    <3>2. CASE j \in 1 .. n
      <4>1. PICK a \in 1 .. k - 1, b \in 1 .. k - 1 : a < b /\ m[i] = s[a] /\ m[j] = s[b]
        BY <1>1, <2>2, <2>5, <3>1, <3>2
      <4>. QED  BY <1>3, <2>1, <3>1, <3>2, <4>1
    <3>3. CASE j = n + 1
      <4>1. PICK a \in 1 .. k - 1 : m[i] = s[a]
        BY <1>1, <2>2, <3>1
      <4>. QED  BY <1>3, <2>1, <3>1, <3>3, <4>1
    <3>. QED  BY <2>3, <3>2, <3>3
  <2>6. ASSUME NEW a \in 1 .. k, s[a] \in S PROVE \E i \in 1 .. Len(t) : t[i] = s[a]
    <3>1. n + 1 \in 1 .. Len(t) /\ 1 .. n \subseteq 1 .. Len(t)
      BY <2>1, <2>2
    <3>2. CASE a \in 1 .. k - 1
      BY <1>1, <2>1, <2>2, <2>6, <3>1, <3>2
    <3>3. CASE a = k
      BY <2>1, <3>1, <3>3
    <3>. QED  BY <1>2, <3>2, <3>3
  <2>7. Keeps(s, S, k, t)
    BY <2>1, <2>4, <2>5, <2>6 DEF Keeps
  <2>. QED  BY <1>5, <2>7 DEF t
<1>. QED  BY <1>4, <1>5

(* Members keeps what is in the set, in the order of the sequence.         *)
LEMMA MembersKeep ==
  ASSUME NEW E, NEW s \in Seq(E), NEW S
  PROVE  Keeps(s, S, Len(s), Members(s, S))
<1>. DEFINE n == Len(s)
<1>1. PICK f : IsMembers(s, S, f) /\ f[n] = Members(s, S)
  BY MembersRuns
<1>2. /\ n \in Nat /\ f[0] = <<>>
      /\ \A k \in 1 .. n : f[k] = IF s[k] \in S THEN Append(f[k - 1], s[k]) ELSE f[k - 1]
  BY <1>1 DEF IsMembers
<1>. DEFINE G == {k \in 0 .. n : Keeps(s, S, k, f[k])}
<1>. HIDE DEF n
<1>3. 0 \in G
  <2>1. <<>> \in Seq(S) /\ Len(<<>>) = 0 /\ 1 .. 0 = {}
    OBVIOUS
  <2>2. Keeps(s, S, 0, <<>>)
    BY <2>1 DEF Keeps
  <2>. QED  BY <1>2, <2>2
<1>4. ASSUME NEW k \in 1 .. n, k - 1 \in G PROVE k \in G
  <2>1. k \in Nat \ {0} /\ k \in 0 .. n /\ Keeps(s, S, k - 1, f[k - 1])
    BY <1>2, <1>4
  <2>. QED  BY <1>2, <2>1, MembersStep
<1>5. 0 .. n \subseteq G
  <2>. HIDE DEF G
  <2>. QED  BY <1>2, <1>3, <1>4, AllNumbers
<1>6. n \in 0 .. n
  BY <1>2
<1>. QED  BY <1>1, <1>5, <1>6 DEF n

(* Of ascending ids, Members keeps an ascending part.                      *)
LEMMA MembersAscend ==
  ASSUME NEW s, Ascending(s), NEW S
  PROVE  /\ Ascending(Members(s, S))
         /\ ToSet(Members(s, S)) = ToSet(s) \cap S
<1>. DEFINE m == Members(s, S)
<1>1. s \in Seq(Nat) /\ Len(s) \in Nat /\ DOMAIN s = 1 .. Len(s) /\ \A k, l \in 1 .. Len(s) : k < l => s[k] < s[l]
  BY DEF Ascending
<1>2. Keeps(s, S, Len(s), m)
  BY <1>1, MembersKeep
<1>. HIDE DEF m
<1>3. m \in Seq(S) /\ DOMAIN m = 1 .. Len(m) /\ \A i \in 1 .. Len(m) : m[i] \in S
  BY <1>2 DEF Keeps
<1>4. \A i \in 1 .. Len(m) : m[i] \in Nat
  BY <1>1, <1>2 DEF Keeps
<1>5. m \in Seq(Nat)
  BY <1>3, <1>4
<1>6. \A i, j \in 1 .. Len(m) : i < j => m[i] < m[j]
  BY <1>1, <1>2 DEF Keeps
<1>7. ToSet(m) = ToSet(s) \cap S
  <2>1. ToSet(m) = {m[i] : i \in 1 .. Len(m)} /\ ToSet(s) = {s[a] : a \in 1 .. Len(s)}
    BY <1>1, <1>3 DEF ToSet
  <2>2. /\ \A i \in 1 .. Len(m) : \E a \in 1 .. Len(s) : m[i] = s[a]
        /\ \A a \in 1 .. Len(s) : s[a] \in S => \E i \in 1 .. Len(m) : m[i] = s[a]
    BY <1>2 DEF Keeps
  <2>. QED  BY <1>3, <2>1, <2>2
<1>. QED  BY <1>5, <1>6, <1>7 DEF Ascending, m

-----------------------------------------------------------------------------
(* The graph that edges make.                                              *)
GraphOK(g) ==
  /\ g.edges \in SUBSET (Nat \X Nat) /\ IsFiniteSet(g.edges)
  /\ g.directed \in BOOLEAN

(* The image of a finite set is finite, and no larger.                     *)
LEMMA ImageFinite ==
  ASSUME NEW S, IsFiniteSet(S), NEW f, DOMAIN f = S
  PROVE  IsFiniteSet({f[x] : x \in S}) /\ Cardinality({f[x] : x \in S}) <= Cardinality(S)
<1>. DEFINE T == {f[x] : x \in S}
            h == [x \in S |-> f[x]]
<1>1. h \in [S -> T] /\ \A t \in T : \E x \in S : h[x] = t
  OBVIOUS
<1>2. h \in Surjection(S, T)
  BY <1>1 DEF Surjection
<1>. HIDE DEF h, T
<1>3. IsFiniteSet(T) /\ Cardinality(T) <= Cardinality(S)
  BY <1>2, FS_Surjection
<1>. QED  BY <1>3 DEF T

(* A finite set of numbers has a greatest.                                 *)
LEMMA GreatestOf ==
  ASSUME NEW S \in SUBSET Nat, IsFiniteSet(S), S # {}
  PROVE  Max(S) \in S /\ \A y \in S : y <= Max(S)
<1>1. PICK n \in Nat : ExistsSurjection(1 .. n, S)
  BY FS_NatSurjection
<1>2. PICK f \in [1 .. n -> S] : \A t \in S : \E i \in 1 .. n : f[i] = t
  BY <1>1 DEF ExistsSurjection, Surjection
<1>. DEFINE G == {k \in 0 .. n : k = 0 \/ \E x \in 1 .. k : \A i \in 1 .. k : f[i] <= f[x]}
<1>3. 0 \in G
  OBVIOUS
<1>4. ASSUME NEW k \in 1 .. n, k - 1 \in G PROVE k \in G
  <2>1. \A i \in 1 .. k : f[i] \in Nat /\ (i = k \/ i \in 1 .. k - 1)
    <3>1. \A i \in 1 .. k : i \in 1 .. n /\ (i = k \/ i \in 1 .. k - 1)
      BY <1>1
    <3>. QED  BY <1>2, <3>1
  <2>2. k \in 0 .. n /\ k \in 1 .. k /\ 1 .. k - 1 \subseteq 1 .. k
    OBVIOUS
  <2>3. CASE k = 1
    <3>1. \A i \in 1 .. k : f[i] <= f[k]
      BY <2>1, <2>3
    <3>. QED  BY <2>2, <3>1
  <2>4. CASE k # 1
    <3>1. PICK x \in 1 .. k - 1 : \A i \in 1 .. k - 1 : f[i] <= f[x]
      BY <1>4, <2>4
    <3>2. CASE f[k] <= f[x]
      <4>1. \A i \in 1 .. k : f[i] <= f[x]
        BY <2>1, <3>1, <3>2
      <4>. QED  BY <2>2, <4>1
    <3>3. CASE ~(f[k] <= f[x])
      <4>0. f[k] \in Nat /\ f[x] \in Nat /\ f[x] <= f[k] /\ f[k] <= f[k]
        BY <2>1, <2>2, <3>3
      <4>1. ASSUME NEW i \in 1 .. k PROVE f[i] <= f[k]
        <5>1. CASE i = k
          BY <4>0, <5>1
        <5>2. CASE i \in 1 .. k - 1
          BY <2>1, <3>1, <4>0, <5>2
        <5>. QED  BY <2>1, <5>1, <5>2
      <4>. QED  BY <2>2, <4>1
    <3>. QED  BY <3>2, <3>3
  <2>. QED  BY <2>3, <2>4
<1>5. n \in G
  <2>. HIDE DEF G
  <2>1. 0 .. n \subseteq G
    BY <1>3, <1>4, AllNumbers
  <2>. QED  BY <2>1
<1>6. \E x \in S : \A y \in S : x >= y
  <2>0. \E i \in 1 .. n : TRUE
    BY <1>2
  <2>1. n # 0
    BY <2>0
  <2>2. PICK x \in 1 .. n : \A i \in 1 .. n : f[i] <= f[x]
    BY <1>5, <2>1
  <2>3. \A y \in S : f[x] >= y
    BY <1>2, <2>2
  <2>. QED  BY <1>2, <2>3
<1>7. Max(S) \in S /\ \A y \in S : Max(S) >= y
  BY <1>6 DEF Max
<1>. QED  BY <1>7

(* A set of numbers has a least.                                           *)
LEMMA LeastOf ==
  ASSUME NEW S \in SUBSET Nat, S # {}
  PROVE  Min(S) \in S /\ \A y \in S : Min(S) <= y
<1>1. PICK m \in S : \A x \in S : ~(<<x, m>> \in OpToRel(<, Nat))
  BY NatLessThanWellFounded, WFMin, Zenon
<1>2. \A x \in S : m <= x
  <2>. SUFFICES ASSUME NEW x \in S PROVE m <= x
    OBVIOUS
  <2>1. ~(x < m)
    BY <1>1 DEF OpToRel
  <2>. QED  BY <2>1
<1>. QED  BY <1>2 DEF Min

(* The vertices are those up to the greatest one with an edge.             *)
LEMMA ArcsOK ==
  ASSUME NEW g, GraphOK(g)
  PROVE  /\ VertexCount(g) \in Nat
         /\ Sources(g) = 0 .. VertexCount(g) - 1 /\ Sources(g) \in SUBSET Nat
         /\ IsFiniteSet(Sources(g)) /\ Cardinality(Sources(g)) = VertexCount(g)
         /\ Expanded(g) \in SUBSET (Sources(g) \X Sources(g)) /\ IsFiniteSet(Expanded(g))
         /\ \A e \in Expanded(g) : e[1] # e[2]
         /\ ~g.directed => \A u, v : <<u, v>> \in Expanded(g) => <<v, u>> \in Expanded(g)
<1>. DEFINE kept == {e \in g.edges : e[1] # e[2]}
            back == {<<e[2], e[1]>> : e \in kept}
            E == Expanded(g)
            ends == UNION {{e[1], e[2]} : e \in E}
            n == VertexCount(g)
<1>1. kept \in SUBSET (Nat \X Nat) /\ IsFiniteSet(kept)
  <2>1. kept \in SUBSET g.edges
    OBVIOUS
  <2>2. IsFiniteSet(kept)
    BY <2>1, FS_Subset DEF GraphOK
  <2>. QED  BY <2>1, <2>2 DEF GraphOK
<1>2. IsFiniteSet(back) /\ back \in SUBSET (Nat \X Nat)
  <2>. DEFINE f == [e \in kept |-> <<e[2], e[1]>>]
  <2>1. back = {f[e] : e \in kept} /\ DOMAIN f = kept
    OBVIOUS
  <2>2. IsFiniteSet({f[e] : e \in kept})
    <3>. HIDE DEF f, kept
    <3>1. DOMAIN f = kept
      BY <2>1
    <3>. QED  BY <1>1, <3>1, ImageFinite
  <2>3. \A e \in kept : e[1] \in Nat /\ e[2] \in Nat
    BY <1>1
  <2>4. back \in SUBSET (Nat \X Nat)
    <3>. HIDE DEF kept
    <3>. QED  BY <2>3
  <2>. HIDE DEF kept, back, f
  <2>. QED  BY <2>1, <2>2, <2>4
<1>3. IsFiniteSet(E) /\ E \in SUBSET (Nat \X Nat) /\ \A e \in E : e[1] # e[2] /\ e = <<e[1], e[2]>>
  <2>1. E = IF g.directed THEN kept ELSE kept \cup back
    BY DEF Expanded
  <2>2. IsFiniteSet(kept \cup back)
    <3>. HIDE DEF kept, back
    <3>. QED  BY <1>1, <1>2, FS_Union
  <2>3. \A e \in kept \cup back : e[1] # e[2] /\ e \in Nat \X Nat
    BY <1>1
  <2>. HIDE DEF kept, back, E
  <2>. QED  BY <1>1, <2>1, <2>2, <2>3
<1>4. ~g.directed => \A u, v : <<u, v>> \in E => <<v, u>> \in E
  <2>. SUFFICES ASSUME ~g.directed, NEW u, NEW v, <<u, v>> \in E PROVE <<v, u>> \in E
    OBVIOUS
  <2>1. E = kept \cup back
    BY DEF Expanded
  <2>2. CASE <<u, v>> \in kept
    <3>1. <<v, u>> = <<(<<u, v>>)[2], (<<u, v>>)[1]>>
      OBVIOUS
    <3>2. <<v, u>> \in back
      BY <2>2, <3>1
    <3>. QED  BY <2>1, <3>2
  <2>3. CASE <<u, v>> \in back
    <3>1. PICK e \in kept : <<u, v>> = <<e[2], e[1]>>
      BY <2>3
    <3>2. <<v, u>> = e
      BY <1>1, <3>1
    <3>. QED  BY <2>1, <3>2
  <2>. QED  BY <2>1, <2>2, <2>3
<1>. HIDE DEF kept, back
<1>5. n \in Nat /\ \A e \in E : e[1] \in 0 .. n - 1 /\ e[2] \in 0 .. n - 1
  <2>1. CASE E = {}
    BY <2>1 DEF VertexCount
  <2>2. CASE E # {}
    <3>1. IsFiniteSet(ends)
      <4>. DEFINE f == [e \in E |-> {e[1], e[2]}]
      <4>1. {{e[1], e[2]} : e \in E} = {f[e] : e \in E} /\ DOMAIN f = E
        OBVIOUS
      <4>2. IsFiniteSet({f[e] : e \in E})
        <5>1. DOMAIN f = E
          OBVIOUS
        <5>. HIDE DEF f, E
        <5>. QED  BY <1>3, <5>1, ImageFinite
      <4>3. ASSUME NEW T \in {{e[1], e[2]} : e \in E} PROVE IsFiniteSet(T)
        <5>1. PICK e \in E : T = {e[1]} \cup {e[2]}
          OBVIOUS
        <5>2. IsFiniteSet({e[1]}) /\ IsFiniteSet({e[2]})
          BY FS_Singleton
        <5>. QED  BY <5>1, <5>2, FS_Union
      <4>. HIDE DEF f, E
      <4>. QED  BY <4>1, <4>2, <4>3, FS_UNION
    <3>2. ends \in SUBSET Nat /\ ends # {} /\ \A e \in E : e[1] \in ends /\ e[2] \in ends
      <4>1. \A e \in E : {e[1], e[2]} \in SUBSET Nat
        BY <1>3
      <4>. HIDE DEF E
      <4>. QED  BY <2>2, <4>1
    <3>3. n = 1 + Max(ends)
      BY <2>2 DEF VertexCount
    <3>. HIDE DEF ends, n, E
    <3>4. Max(ends) \in Nat /\ \A y \in ends : y \in Nat /\ y <= Max(ends)
      BY <3>1, <3>2, GreatestOf
    <3>5. PICK x \in Nat : x = Max(ends)
      BY <3>4
    <3>6. n = 1 + x /\ \A y \in ends : y \in 0 .. n - 1
      BY <3>3, <3>4, <3>5
    <3>7. n \in Nat
      BY <3>6
    <3>8. \A e \in E : e[1] \in 0 .. n - 1 /\ e[2] \in 0 .. n - 1
      BY <3>2, <3>6
    <3>. QED  BY <3>7, <3>8
  <2>. QED  BY <2>1, <2>2
<1>. HIDE DEF n
<1>6. Sources(g) = 0 .. n - 1
  BY DEF Sources, n
<1>7. E \in SUBSET ((0 .. n - 1) \X (0 .. n - 1))
  BY <1>3, <1>5
<1>8. IsFiniteSet(0 .. n - 1) /\ Cardinality(0 .. n - 1) = n
  BY <1>5, FS_Interval
<1>9. 0 .. n - 1 \in SUBSET Nat
  BY <1>5
<1>. QED  BY <1>3, <1>4, <1>5, <1>6, <1>7, <1>8, <1>9 DEF n

(* Quotients and remainders.                                               *)
LEMMA Remainder ==
  ASSUME NEW b \in Nat \ {0}, NEW q \in Nat, NEW r \in 0 .. b - 1
  PROVE  (b * q + r) % b = r
OBVIOUS

(* Division, on numbers of the form i * n + j.                             *)
LEMMA Quotient ==
  ASSUME NEW b \in Nat \ {0}, NEW q \in Nat, NEW r \in 0 .. b - 1
  PROVE  (b * q + r) \div b = q
OBVIOUS

LEMMA Divided ==
  ASSUME NEW b \in Nat \ {0}, NEW a \in Nat
  PROVE  a \div b \in Nat /\ a % b \in 0 .. b - 1 /\ a = b * (a \div b) + (a % b)
OBVIOUS

LEMMA LargerQuotient ==
  ASSUME NEW b \in Nat \ {0}, NEW p \in Nat, NEW q \in Nat, NEW r \in 0 .. b - 1, NEW t \in 0 .. b - 1,
         b * p + r < b * q + t
  PROVE  p < q \/ (p = q /\ r < t)
<1>1. CASE p = q
  <2>1. PICK x \in Nat : x = b * p
    OBVIOUS
  <2>. QED  BY <1>1, <2>1
<1>2. CASE q < p
  <2>1. PICK d \in Nat : p = q + 1 + d
    <3>1. p - q - 1 \in Nat /\ p = q + 1 + (p - q - 1)
      BY <1>2
    <3>. QED  BY <3>1
  <2>2. b * p = b * q + b + b * d
    BY <2>1
  <2>3. PICK x \in Nat, y \in Nat : x = b * q /\ y = b * d
    OBVIOUS
  <2>. QED  BY <2>2, <2>3
<1>. QED  BY <1>1, <1>2

(* A smaller quotient makes a smaller number. *)
LEMMA LargerNumber ==
  ASSUME NEW b \in Nat \ {0}, NEW p \in 0 .. b - 1, NEW r \in 0 .. b - 1
  PROVE  b * p + r \in 0 .. b * b - 1
<1>1. PICK d \in Nat : b = p + 1 + d
  <2>1. b - p - 1 \in Nat /\ b = p + 1 + (b - p - 1)
    OBVIOUS
  <2>. QED  BY <2>1
<1>2. b * b = b * p + b + b * d
  BY <1>1
<1>3. PICK x \in Nat, y \in Nat : x = b * p /\ y = b * d
  OBVIOUS
<1>. QED  BY <1>2, <1>3

(* The constructor's edges are sorted, by their sources and targets.       *)
LEMMA SortedOK ==
  ASSUME NEW g, GraphOK(g)
  PROVE  /\ Sorted(g) \in Seq(Expanded(g))
         /\ \A i, j \in 1 .. Len(Sorted(g)) : i < j => Earlier(Sorted(g)[i], Sorted(g)[j])
         /\ \A e \in Expanded(g) : \E i \in 1 .. Len(Sorted(g)) : Sorted(g)[i] = e
         /\ Len(Sorted(g)) = Cardinality(Expanded(g))
<1>. DEFINE E == Expanded(g)
            n == VertexCount(g)
            V == Sources(g)
            grid == [k \in 1 .. n * n |-> <<(k - 1) \div n, (k - 1) % n>>]
            s == Sorted(g)
<1>1. n \in Nat /\ V = 0 .. n - 1 /\ V \in SUBSET Nat /\ E \in SUBSET (V \X V) /\ IsFiniteSet(E)
  BY ArcsOK
<1>2. s = Members(grid, E)
  BY DEF Sorted
<1>3. n * n \in Nat
  BY <1>1
<1>4. CASE n = 0
  <2>1. E = {}
    BY <1>1, <1>4
  <2>2. n * n = 0
    BY <1>4
  <2>3. grid = <<>>
    BY <2>2
  <2>. HIDE DEF E, s, grid
  <2>4. Keeps(<<>>, E, Len(<<>>), s)
    <3>1. <<>> \in Seq({})
      OBVIOUS
    <3>. QED  BY <1>2, <2>3, <3>1, MembersKeep
  <2>5. s \in Seq({})
    BY <2>1, <2>4 DEF Keeps
  <2>6. s = <<>> /\ Len(s) = 0 /\ s \in Seq(E)
    BY <2>5
  <2>7. Len(s) = Cardinality(E)
    BY <2>1, <2>6, FS_EmptySet
  <2>. QED  BY <2>1, <2>6, <2>7 DEF s, E
<1>5. CASE n # 0
  <2>1. ASSUME NEW k \in 1 .. n * n
        PROVE  grid[k] = <<(k - 1) \div n, (k - 1) % n>> /\ grid[k] \in Nat \X Nat
    <3>1. k - 1 \in Nat
      BY <1>3
    <3>2. (k - 1) \div n \in Nat /\ (k - 1) % n \in Nat
      BY <1>1, <1>5, <3>1, Divided
    <3>. QED  BY <3>2
  <2>2. grid \in Seq(Nat \X Nat) /\ Len(grid) = n * n
    <3>1. grid \in [1 .. n * n -> Nat \X Nat]
      BY <2>1
    <3>. HIDE DEF grid
    <3>. QED  BY <1>3, <3>1
  <2>3. ASSUME NEW k \in 1 .. n * n, NEW l \in 1 .. n * n, k < l PROVE Earlier(grid[k], grid[l])
    <3>1. k - 1 \in Nat /\ l - 1 \in Nat /\ k - 1 < l - 1
      BY <1>3, <2>3
    <3>2. PICK p \in Nat, r \in 0 .. n - 1 : p = (k - 1) \div n /\ r = (k - 1) % n /\ k - 1 = n * p + r
      BY <1>1, <1>5, <3>1, Divided
    <3>3. PICK q \in Nat, t \in 0 .. n - 1 : q = (l - 1) \div n /\ t = (l - 1) % n /\ l - 1 = n * q + t
      BY <1>1, <1>5, <3>1, Divided
    <3>4. n * p + r < n * q + t
      BY <3>1, <3>2, <3>3
    <3>5. p < q \/ (p = q /\ r < t)
      BY <1>1, <1>5, <3>4, LargerQuotient
    <3>6. grid[k] = <<p, r>> /\ grid[l] = <<q, t>>
      BY <3>2, <3>3
    <3>. HIDE DEF grid
    <3>. QED  BY <3>5, <3>6 DEF Earlier
  <2>4. ASSUME NEW e \in E PROVE \E k \in 1 .. n * n : grid[k] = e
    <3>1. PICK u \in 0 .. n - 1, v \in 0 .. n - 1 : e = <<u, v>>
      BY <1>1
    <3>2. n * u + v \in 0 .. n * n - 1
      BY <1>1, <1>5, LargerNumber
    <3>3. (n * u + v) \div n = u /\ (n * u + v) % n = v
      BY <1>1, <1>5, Quotient, Remainder
    <3>4. PICK k \in 1 .. n * n : k - 1 = n * u + v
      <4>1. PICK x \in 0 .. n * n - 1 : x = n * u + v
        BY <3>2
      <4>2. x + 1 \in 1 .. n * n /\ (x + 1) - 1 = x
        BY <1>3
      <4>. QED  BY <4>1, <4>2
    <3>. QED  BY <3>1, <3>3, <3>4
  <2>. HIDE DEF grid, E, s, n, V
  <2>5. Keeps(grid, E, n * n, s)
    BY <1>2, <2>2, MembersKeep
  <2>6. s \in Seq(E) /\ Len(s) \in Nat
    BY <2>5 DEF Keeps
  <2>7. ASSUME NEW i \in 1 .. Len(s), NEW j \in 1 .. Len(s), i < j PROVE Earlier(s[i], s[j])
    <3>1. PICK k \in 1 .. n * n, l \in 1 .. n * n : k < l /\ s[i] = grid[k] /\ s[j] = grid[l]
      BY <2>5, <2>7 DEF Keeps
    <3>. QED  BY <2>3, <3>1
  <2>8. ASSUME NEW e \in E PROVE \E i \in 1 .. Len(s) : s[i] = e
    <3>1. PICK k \in 1 .. n * n : grid[k] = e
      BY <2>4
    <3>. QED  BY <2>5, <3>1 DEF Keeps
  <2>9. Len(s) = Cardinality(E)
    <3>1. s \in [1 .. Len(s) -> E]
      BY <2>6
    <3>2. ASSUME NEW i \in 1 .. Len(s), NEW j \in 1 .. Len(s), s[i] = s[j] PROVE i = j
      <4>1. s[i] \in E /\ s[j] \in E
        BY <3>1
      <4>2. s[i][1] \in Nat /\ s[i][2] \in Nat
        BY <1>1, <4>1
      <4>3. ~Earlier(s[i], s[j]) /\ ~Earlier(s[j], s[i])
        BY <3>2, <4>2 DEF Earlier
      <4>4. i \in Int /\ j \in Int /\ ~(i < j) /\ ~(j < i)
        BY <2>6, <2>7, <4>3
      <4>. QED  BY <4>4
    <3>3. s \in Bijection(1 .. Len(s), E)
      BY <2>8, <3>1, <3>2, Fun_IsBij
    <3>4. ExistsBijection(1 .. Len(s), E)
      BY <3>3 DEF ExistsBijection
    <3>. QED  BY <2>6, <3>4, FS_CountingElements
  <2>. QED  BY <2>6, <2>7, <2>8, <2>9 DEF s, E
<1>. QED  BY <1>4, <1>5

(* Arcs by one of their ends.                                              *)
Preceding(g, by, e) == {x \in Expanded(g) : x[by] < e[by] \/ (x[by] = e[by] /\ x[3 - by] < e[3 - by])}

(* The cell of an edge: how many come before it, plus one.                 *)
CellOf(g, by, e) == Cardinality(Preceding(g, by, e)) + 1

(* The ends of an edge.                                                    *)
LEMMA EndsOf ==
  ASSUME NEW g, GraphOK(g), NEW by \in {1, 2}, NEW e \in Expanded(g)
  PROVE  /\ e[by] \in Sources(g) /\ e[3 - by] \in Sources(g)
         /\ e[by] \in Nat /\ e[3 - by] \in Nat
         /\ \A d \in Expanded(g) : d[by] = e[by] /\ d[3 - by] = e[3 - by] => d = e
<1>1. Expanded(g) \in SUBSET (Sources(g) \X Sources(g)) /\ Sources(g) \in SUBSET Nat
  BY ArcsOK
<1>2. \A d \in Expanded(g) : d[1] \in Sources(g) /\ d[2] \in Sources(g) /\ d = <<d[1], d[2]>>
  BY <1>1
<1>3. CASE by = 1
  <2>1. 3 - by = 2
    BY <1>3
  <2>. QED  BY <1>1, <1>2, <1>3, <2>1
<1>4. CASE by = 2
  <2>1. 3 - by = 1
    BY <1>4
  <2>. QED  BY <1>1, <1>2, <1>4, <2>1
<1>. QED  BY <1>3, <1>4

(* A row begins where the one before it ends.                              *)
LEMMA RowStartsOK ==
  ASSUME NEW g, GraphOK(g), NEW by \in {1, 2}
  PROVE  /\ RowStarts(g, by) \in [0 .. VertexCount(g) -> Nat]
         /\ \A v \in 0 .. VertexCount(g) : RowStarts(g, by)[v] = Cardinality({e \in Expanded(g) : e[by] < v})
<1>1. IsFiniteSet(Expanded(g))
  BY ArcsOK
<1>2. ASSUME NEW v PROVE Cardinality({e \in Expanded(g) : e[by] < v}) \in Nat
  <2>. DEFINE T == {e \in Expanded(g) : e[by] < v}
  <2>1. T \in SUBSET Expanded(g)
    OBVIOUS
  <2>. HIDE DEF T
  <2>2. IsFiniteSet(T)
    BY <1>1, <2>1, FS_Subset
  <2>3. Cardinality(T) \in Nat
    BY <2>2, FS_CardinalityType
  <2>. QED  BY <2>3 DEF T
<1>. QED  BY <1>2 DEF RowStarts

(* Each arc has a cell of its own, after those of the arcs that precede    *)
(* it, and no cell is left over.                                           *)
LEMMA CellsOK ==
  ASSUME NEW g, GraphOK(g), NEW by \in {1, 2}
  PROVE  /\ \A e \in Expanded(g) : CellOf(g, by, e) \in 1 .. Cardinality(Expanded(g))
         /\ \A d, e \in Expanded(g) : d \in Preceding(g, by, e) => CellOf(g, by, d) < CellOf(g, by, e)
         /\ \A d, e \in Expanded(g) : CellOf(g, by, d) = CellOf(g, by, e) => d = e
         /\ \A k \in 1 .. Cardinality(Expanded(g)) : \E e \in Expanded(g) : CellOf(g, by, e) = k
<1>. DEFINE E == Expanded(g)
            m == Cardinality(E)
            cell(e) == CellOf(g, by, e)
            Pre(e) == Preceding(g, by, e)
<1>1. IsFiniteSet(E) /\ m \in Nat
  BY ArcsOK, FS_CardinalityType
<1>2. \A e \in E : e[by] \in Nat /\ e[3 - by] \in Nat /\ \A d \in E : d[by] = e[by] /\ d[3 - by] = e[3 - by] => d = e
  BY EndsOf
<1>3. \A e \in E : Pre(e) \in SUBSET E /\ e \notin Pre(e)
  BY <1>2 DEF Preceding
<1>4. ASSUME NEW e \in E PROVE IsFiniteSet(Pre(e)) /\ Cardinality(Pre(e)) \in Nat /\ cell(e) = Cardinality(Pre(e)) + 1
  <2>1. IsFiniteSet(Pre(e))
    <3>. HIDE DEF E, Pre
    <3>. QED  BY <1>1, <1>3, FS_Subset
  <2>. QED  BY <2>1, FS_CardinalityType DEF CellOf
<1>5. ASSUME NEW T \in SUBSET E, NEW e \in E, e \notin T, IsFiniteSet(T)
      PROVE  Cardinality(T \cup {e}) = Cardinality(T) + 1 /\ \A U : IsFiniteSet(U) /\ T \cup {e} \subseteq U => Cardinality(T) + 1 <= Cardinality(U)
  <2>1. IsFiniteSet(T \cup {e}) /\ Cardinality(T \cup {e}) = Cardinality(T) + 1
    BY <1>5, FS_AddElement
  <2>2. ASSUME NEW U, IsFiniteSet(U), T \cup {e} \subseteq U PROVE Cardinality(T) + 1 <= Cardinality(U)
    BY <2>1, <2>2, FS_Subset
  <2>. QED  BY <2>1, <2>2
<1>. HIDE DEF E
<1>6. ASSUME NEW e \in E PROVE cell(e) \in 1 .. m
  <2>1. Pre(e) \cup {e} \subseteq E
    BY <1>3
  <2>2. Cardinality(Pre(e)) + 1 <= m
    <3>. HIDE DEF Pre, m
    <3>1. IsFiniteSet(Pre(e)) /\ Pre(e) \in SUBSET E /\ e \notin Pre(e)
      BY <1>3, <1>4
    <3>2. Cardinality(Pre(e)) + 1 <= Cardinality(E)
      BY <1>1, <1>5, <2>1, <3>1
    <3>. QED  BY <3>2 DEF m
  <2>. HIDE DEF Pre, m, cell
  <2>. QED  BY <1>1, <1>4, <2>2
<1>7. ASSUME NEW d \in E, NEW e \in E, d \in Pre(e) PROVE cell(d) < cell(e)
  <2>1. Pre(d) \cup {d} \subseteq Pre(e)
    <3>1. ASSUME NEW x \in Pre(d) PROVE x \in Pre(e)
      <4>1. x \in E
        BY <1>3
      <4>2. x[by] < d[by] \/ (x[by] = d[by] /\ x[3 - by] < d[3 - by])
        BY DEF Preceding
      <4>3. d[by] < e[by] \/ (d[by] = e[by] /\ d[3 - by] < e[3 - by])
        BY <1>7 DEF Preceding
      <4>4. /\ x[by] \in Nat /\ x[3 - by] \in Nat /\ d[by] \in Nat /\ d[3 - by] \in Nat
            /\ e[by] \in Nat /\ e[3 - by] \in Nat
        BY <1>2, <4>1
      <4>5. x[by] < e[by] \/ (x[by] = e[by] /\ x[3 - by] < e[3 - by])
        BY <4>2, <4>3, <4>4
      <4>. QED  BY <4>1, <4>5 DEF Preceding, E
    <3>. HIDE DEF Pre
    <3>. QED  BY <1>7, <3>1
  <2>. HIDE DEF Pre, cell
  <2>2. Cardinality(Pre(d)) + 1 <= Cardinality(Pre(e))
    <3>1. IsFiniteSet(Pre(d)) /\ Pre(d) \in SUBSET E /\ d \notin Pre(d) /\ IsFiniteSet(Pre(e))
      BY <1>3, <1>4
    <3>. QED  BY <1>5, <2>1, <3>1
  <2>. QED  BY <1>4, <2>2
<1>8. ASSUME NEW d \in E, NEW e \in E, cell(d) = cell(e) PROVE d = e
  <2>1. d \notin Pre(e) /\ e \notin Pre(d)
    <3>. HIDE DEF Pre, cell
    <3>1. cell(d) \in Int /\ cell(e) \in Int /\ ~(cell(d) < cell(e)) /\ ~(cell(e) < cell(d))
      BY <1>4, <1>8
    <3>. QED  BY <1>7, <3>1
  <2>2. /\ ~(d[by] < e[by] \/ (d[by] = e[by] /\ d[3 - by] < e[3 - by]))
        /\ ~(e[by] < d[by] \/ (e[by] = d[by] /\ e[3 - by] < d[3 - by]))
    BY <2>1 DEF Preceding, E
  <2>3. d[by] \in Nat /\ d[3 - by] \in Nat /\ e[by] \in Nat /\ e[3 - by] \in Nat
    BY <1>2
  <2>4. d[by] = e[by] /\ d[3 - by] = e[3 - by]
    BY <2>2, <2>3
  <2>. QED  BY <1>2, <2>4
<1>9. ASSUME NEW k \in 1 .. m PROVE \E e \in E : cell(e) = k
  <2>. DEFINE h == [e \in E |-> cell(e)]
  <2>. HIDE DEF cell
  <2>1. h \in Injection(E, 1 .. m)
    <3>1. h \in [E -> 1 .. m]
      BY <1>6
    <3>2. \A d, e \in E : h[d] = h[e] => d = e
      BY <1>8
    <3>. HIDE DEF h
    <3>. QED  BY <3>1, <3>2 DEF Injection, IsInjective
  <2>2. IsFiniteSet(1 .. m) /\ Cardinality(1 .. m) = m
    BY <1>1, FS_Interval
  <2>3. h \in Surjection(E, 1 .. m)
    <3>. HIDE DEF h
    <3>1. Cardinality(E) = Cardinality(1 .. m)
      BY <2>2 DEF m
    <3>. HIDE DEF m
    <3>. QED  BY <2>1, <2>2, <3>1, FS_Injection
  <2>4. \E e \in E : h[e] = k
    <3>. HIDE DEF h
    <3>. QED  BY <2>3 DEF Surjection
  <2>. QED  BY <2>4
<1>. QED  BY <1>6, <1>7, <1>8, <1>9 DEF E

(* The cursors and cells after each edge.                                  *)
Unplaced(g, by) == <<RowStarts(g, by), [k \in 1 .. Cardinality(Expanded(g)) |-> 0]>>

(* The constructor's placing of the edges, its states and its run.         *)
PlacingEnd(g, by) == FoldLeft(LAMBDA fill, e : Placed(fill, e, by), Unplaced(g, by), Sorted(g))

Fillings(g) == [0 .. VertexCount(g) -> Nat] \X [1 .. Cardinality(Expanded(g)) -> Nat]

IsPlacing(g, by, f) ==
  /\ f \in [0 .. Len(Sorted(g)) -> Fillings(g)]
  /\ f[0] = Unplaced(g, by)
  /\ \A k \in 1 .. Len(Sorted(g)) : f[k] = Placed(f[k - 1], Sorted(g)[k], by)

(* The placing has such a run.                                             *)
LEMMA PlacingRuns ==
  ASSUME NEW g, GraphOK(g), NEW by \in {1, 2}
  PROVE  \E f : IsPlacing(g, by, f) /\ f[Len(Sorted(g))] = PlacingEnd(g, by)
<1>. DEFINE n == Len(Sorted(g))
            Step(k, a) == Placed(a, Sorted(g)[k], by)
            D == Fillings(g)
            base == Unplaced(g, by)
<1>1. n \in Nat /\ DOMAIN Sorted(g) = 1 .. n
  BY SortedOK
<1>2. ASSUME NEW k \in 1 .. n, NEW a \in D PROVE Step(k, a) \in D
  <2>1. Sorted(g)[k] \in Expanded(g)
    BY SortedOK DEF n
  <2>2. PICK e \in Expanded(g) : e = Sorted(g)[k]
    BY <2>1
  <2>3. e[by] \in Nat /\ e[3 - by] \in Nat /\ e[by] \in 0 .. VertexCount(g)
    BY EndsOf, ArcsOK
  <2>4. a[1] \in [0 .. VertexCount(g) -> Nat] /\ a[2] \in [1 .. Cardinality(Expanded(g)) -> Nat]
    BY DEF Fillings
  <2>5. Placed(a, e, by) \in Fillings(g)
    <3>. DEFINE cell == a[1][e[by]] + 1
    <3>1. cell \in Nat
      <4>1. PICK v \in 0 .. VertexCount(g) : v = e[by]
        BY <2>3
      <4>2. a[1][v] \in Nat
        BY <2>4
      <4>. QED  BY <4>1, <4>2
    <3>. HIDE DEF cell
    <3>2. [a[1] EXCEPT ![e[by]] = cell] \in [0 .. VertexCount(g) -> Nat]
      BY <2>4, <3>1
    <3>3. [j \in DOMAIN a[2] |-> IF j = cell THEN e[3 - by] ELSE a[2][j]] \in [1 .. Cardinality(Expanded(g)) -> Nat]
      BY <2>3, <2>4
    <3>. QED  BY <3>2, <3>3 DEF Placed, Fillings, cell
  <2>. QED  BY <2>2, <2>5
<1>3. base \in D
  BY RowStartsOK DEF Unplaced, Fillings
<1>. HIDE DEF n, Step, D
<1>. DEFINE step == [p \in (1 .. n) \X D |-> Step(p[1], p[2])]
<1>4. IsStep(step, n, D)
  BY <1>2 DEF IsStep
<1>5. PICK iter : Iterates(iter, n, D, base, step)
  <2>. HIDE DEF step, base
  <2>. QED  BY <1>1, <1>3, <1>4, IterationExists
<1>6. \A T \in SUBSET (1 .. n) : T # {} => Max(T) \in T
  BY <1>1, MaxIn
<1>7. iter = [T \in SUBSET (1 .. n) |-> IF T = {} THEN base ELSE Step(Max(T), iter[T \ {Max(T)}])]
  <2>1. ASSUME NEW T \in SUBSET (1 .. n), T # {}
        PROVE  step[<<Max(T), iter[T \ {Max(T)}]>>] = Step(Max(T), iter[T \ {Max(T)}])
    BY <1>5, <1>6, <2>1 DEF Iterates
  <2>. HIDE DEF step, base
  <2>. QED  BY <1>5, <2>1 DEF Iterates
<1>. DEFINE it == CHOOSE h : h = [T \in SUBSET (1 .. n) |-> IF T = {} THEN base ELSE Step(Max(T), h[T \ {Max(T)}])]
<1>8. it = [T \in SUBSET (1 .. n) |-> IF T = {} THEN base ELSE Step(Max(T), it[T \ {Max(T)}])]
  <2>. HIDE DEF base
  <2>. QED  BY <1>7
<1>9. PlacingEnd(g, by) = it[1 .. n]
  BY <1>1 DEF PlacingEnd, FoldLeft, MapThenFoldSet, Step
<1>. HIDE DEF it, base
<1>10. Unfolds(it, n, D, base, step)
  <2>1. it[{}] = base
    BY <1>8
  <2>2. ASSUME NEW T \in SUBSET (1 .. n), T # {}, it[T \ {Max(T)}] \in D
        PROVE  it[T] = step[<<Max(T), it[T \ {Max(T)}]>>]
    <3>1. it[T] = Step(Max(T), it[T \ {Max(T)}])
      BY <1>8, <2>2
    <3>. QED  BY <1>6, <2>2, <3>1
  <2>. HIDE DEF step
  <2>. QED  BY <2>1, <2>2 DEF Unfolds
<1>11. PICK f : IsRun(f, n, D, base, step) /\ f[n] = it[1 .. n]
  <2>. HIDE DEF step
  <2>. QED  BY <1>1, <1>3, <1>4, <1>10, FoldRuns
<1>12. ASSUME NEW k \in 1 .. n PROVE f[k] = Step(k, f[k - 1])
  <2>1. k - 1 \in 0 .. n
    BY <1>1
  <2>2. f[k - 1] \in D /\ f[k] = step[<<k, f[k - 1]>>]
    BY <1>11, <2>1 DEF IsRun
  <2>. QED  BY <2>2
<1>. QED  BY <1>9, <1>11, <1>12 DEF IsPlacing, IsRun, n, Step, D, base
(* The arcs of the first edges.                                            *)
FirstArcs(g, k) == {Sorted(g)[i] : i \in 1 .. k}

(* A row's cursor is past what is placed in it; each placed arc is in its  *)
(* cell.                                                                   *)
FilledUpTo(g, by, k, fill) ==
  /\ \A v \in Sources(g) : fill[1][v] = Cardinality({x \in Expanded(g) : x[by] < v}
                                                     \cup {x \in FirstArcs(g, k) : x[by] = v})
  /\ \A e \in FirstArcs(g, k) : fill[2][CellOf(g, by, e)] = e[3 - by]

(* What is filled stays so, and one more cell is.                          *)
LEMMA PlacedKeeps ==
  ASSUME NEW g, GraphOK(g), NEW by \in {1, 2}, NEW k \in 1 .. Len(Sorted(g)),
         NEW fill \in Fillings(g), FilledUpTo(g, by, k - 1, fill)
  PROVE  FilledUpTo(g, by, k, Placed(fill, Sorted(g)[k], by))
<1>. DEFINE E == Expanded(g)
            n == VertexCount(g)
            m == Cardinality(E)
            s == Sorted(g)
            e == s[k]
            v == e[by]
            P == FirstArcs(g, k - 1)
            Q == FirstArcs(g, k)
            below(w) == {x \in E : x[by] < w}
            cell == fill[1][v] + 1
            next == Placed(fill, e, by)
<1>1. /\ n \in Nat /\ Sources(g) = 0 .. n - 1 /\ IsFiniteSet(E)
      /\ E \in SUBSET (Sources(g) \X Sources(g)) /\ Sources(g) \in SUBSET Nat
  BY ArcsOK
<1>2. /\ s \in Seq(E) /\ Len(s) \in Nat /\ \A i, j \in 1 .. Len(s) : i < j => Earlier(s[i], s[j])
      /\ \A x \in E : \E i \in 1 .. Len(s) : s[i] = x
  BY SortedOK
<1>3. \A i \in 1 .. Len(s) : s[i] \in E
  BY <1>2
<1>4. e \in E /\ \A x \in E : x[by] \in Nat /\ x[3 - by] \in Nat /\ x[by] \in Sources(g)
  BY <1>3, EndsOf
<1>5. k \in Nat /\ k \in 1 .. Len(s) /\ e = s[k] /\ 1 .. k - 1 \subseteq 1 .. k /\ k \in 1 .. k /\ 1 .. k \subseteq 1 .. Len(s)
      /\ \A i \in 1 .. k : i \in 1 .. k - 1 \/ i = k
  BY <1>2
<1>6. P \in SUBSET E /\ Q \in SUBSET E /\ Q = P \cup {e}
  BY <1>3, <1>5 DEF FirstArcs
<1>. HIDE DEF E, m, n, s, e
<1>0. ASSUME NEW i \in 1 .. Len(s)
      PROVE  /\ i < k => s[i][1] < e[1] \/ (s[i][1] = e[1] /\ s[i][2] < e[2])
             /\ k < i => e[1] < s[i][1] \/ (e[1] = s[i][1] /\ e[2] < s[i][2])
  <2>1. (i < k => Earlier(s[i], s[k])) /\ (k < i => Earlier(s[k], s[i]))
    BY <1>2, <1>5
  <2>. QED  BY <1>5, <2>1 DEF Earlier
<1>7. e \notin P
  <2>. SUFFICES ASSUME e \in P PROVE FALSE
    OBVIOUS
  <2>1. PICK i \in 1 .. k - 1 : e = s[i]
    BY DEF FirstArcs, s
  <2>2. i < k /\ i \in 1 .. Len(s)
    BY <1>5, <2>1
  <2>3. e[1] < e[1] \/ (e[1] = e[1] /\ e[2] < e[2])
    BY <1>0, <2>1, <2>2
  <2>4. e[1] \in Nat /\ e[2] \in Nat
    BY <1>1, <1>4
  <2>. QED  BY <2>3, <2>4
<1>8. Preceding(g, by, e) = below(v) \cup {x \in P : x[by] = v}
  <2>1. ASSUME NEW x \in P, x[by] = v PROVE x[3 - by] < e[3 - by]
    <3>1. PICK i \in 1 .. k - 1 : x = s[i]
      BY DEF FirstArcs, s
    <3>2. i < k /\ i \in 1 .. Len(s) /\ x \in E
      BY <1>3, <1>5, <3>1
    <3>3. x[1] < e[1] \/ (x[1] = e[1] /\ x[2] < e[2])
      BY <1>0, <3>1, <3>2
    <3>4. x[1] \in Nat /\ x[2] \in Nat /\ e[1] \in Nat /\ e[2] \in Nat
      BY <1>1, <1>4, <3>2
    <3>5. CASE by = 1
      <4>1. 3 - by = 2 /\ x[1] = e[1]
        BY <2>1, <3>5
      <4>. QED  BY <3>3, <3>4, <4>1
    <3>6. CASE by = 2
      <4>1. 3 - by = 1 /\ x[2] = e[2]
        BY <2>1, <3>6
      <4>2. x[1] < e[1]
        BY <3>3, <3>4, <4>1
      <4>. QED  BY <4>1, <4>2
    <3>. QED  BY <3>5, <3>6
  <2>2. ASSUME NEW x \in E, x[by] = v, x[3 - by] < e[3 - by] PROVE x \in P
    <3>1. PICK i \in 1 .. Len(s) : s[i] = x
      BY <1>2
    <3>2. ~(k <= i)
      <4>. SUFFICES ASSUME k <= i PROVE FALSE
        OBVIOUS
      <4>1. x = e \/ k < i
        BY <1>2, <1>5, <3>1
      <4>2. x # e
        BY <1>4, <2>2
      <4>3. e[1] < x[1] \/ (e[1] = x[1] /\ e[2] < x[2])
        BY <1>0, <3>1, <4>1, <4>2
      <4>4. x[1] \in Nat /\ x[2] \in Nat /\ e[1] \in Nat /\ e[2] \in Nat
        BY <1>1, <1>4
      <4>5. CASE by = 1
        <5>1. 3 - by = 2 /\ x[1] = e[1] /\ x[2] < e[2]
          BY <2>2, <4>5
        <5>. QED  BY <4>3, <4>4, <5>1
      <4>6. CASE by = 2
        <5>1. 3 - by = 1 /\ x[2] = e[2] /\ x[1] < e[1]
          BY <2>2, <4>6
        <5>. QED  BY <4>3, <4>4, <5>1
      <4>. QED  BY <4>5, <4>6
    <3>3. i \in 1 .. k - 1
      BY <1>2, <1>5, <3>2
    <3>. QED  BY <3>1, <3>3 DEF FirstArcs, s
  <2>. HIDE DEF P
  <2>3. Preceding(g, by, e) = below(v) \cup {x \in E : x[by] = v /\ x[3 - by] < e[3 - by]}
    BY DEF Preceding, E
  <2>4. {x \in E : x[by] = v /\ x[3 - by] < e[3 - by]} = {x \in P : x[by] = v}
    BY <1>6, <2>1, <2>2
  <2>. QED  BY <2>3, <2>4
<1>9. v \in Sources(g) /\ \A w \in Sources(g) : w \in 0 .. n
  BY <1>1, <1>4
<1>10. /\ \A w \in Sources(g) : fill[1][w] = Cardinality(below(w) \cup {x \in P : x[by] = w})
       /\ \A d \in P : fill[2][CellOf(g, by, d)] = d[3 - by]
  BY DEF FilledUpTo, E
<1>11. cell = CellOf(g, by, e)
  BY <1>8, <1>9, <1>10 DEF CellOf
<1>12. fill[1] \in [0 .. n -> Nat] /\ fill[2] \in [1 .. m -> Nat]
  BY DEF Fillings, n, m, E
<1>13. /\ next[1] = [fill[1] EXCEPT ![v] = cell]
       /\ next[2] = [j \in DOMAIN fill[2] |-> IF j = cell THEN e[3 - by] ELSE fill[2][j]]
  BY DEF Placed
<1>. HIDE DEF next, cell, P, Q, v
<1>14. ASSUME NEW w \in Sources(g)
       PROVE  next[1][w] = Cardinality(below(w) \cup {x \in Q : x[by] = w})
  <2>1. CASE w = v
    <3>1. below(w) \cup {x \in Q : x[by] = w} = Preceding(g, by, e) \cup {e}
      BY <1>6, <1>8, <2>1 DEF v
    <3>2. e \notin Preceding(g, by, e)
      BY <1>4 DEF Preceding
    <3>3. IsFiniteSet(Preceding(g, by, e))
      <4>1. Preceding(g, by, e) \in SUBSET E
        BY DEF Preceding, E
      <4>. QED  BY <1>1, <4>1, FS_Subset
    <3>4. Cardinality(Preceding(g, by, e) \cup {e}) = Cardinality(Preceding(g, by, e)) + 1
      BY <3>2, <3>3, FS_AddElement
    <3>5. next[1][w] = cell
      BY <1>9, <1>12, <1>13, <2>1
    <3>. QED  BY <1>11, <3>1, <3>4, <3>5 DEF CellOf
  <2>2. CASE w # v
    <3>1. {x \in Q : x[by] = w} = {x \in P : x[by] = w}
      BY <1>6, <2>2 DEF v
    <3>2. next[1][w] = fill[1][w]
      BY <1>9, <1>12, <1>13, <2>2
    <3>. QED  BY <1>10, <3>1, <3>2
  <2>. QED  BY <2>1, <2>2
<1>15. ASSUME NEW d \in Q PROVE next[2][CellOf(g, by, d)] = d[3 - by]
  <2>1. CellOf(g, by, d) \in DOMAIN fill[2]
    <3>1. d \in E
      BY <1>6
    <3>2. CellOf(g, by, d) \in 1 .. m
      BY <3>1, CellsOK DEF E, m
    <3>. QED  BY <1>12, <3>2
  <2>2. CASE d = e
    BY <1>11, <1>13, <2>1, <2>2
  <2>3. CASE d # e
    <3>1. d \in P /\ d \in E
      BY <1>6, <2>3
    <3>2. CellOf(g, by, d) # cell
      BY <1>4, <1>11, <2>3, <3>1, CellsOK DEF E
    <3>. QED  BY <1>10, <1>13, <2>1, <3>1, <3>2
  <2>. QED  BY <2>2, <2>3
<1>. QED  BY <1>14, <1>15 DEF FilledUpTo, next, Q, e, E, s

(* In the end every edge is in its cell.                                   *)
LEMMA TargetsOK ==
  ASSUME NEW g, GraphOK(g), NEW by \in {1, 2}
  PROVE  /\ Targets(g, by) \in [1 .. Cardinality(Expanded(g)) -> Nat]
         /\ \A e \in Expanded(g) : Targets(g, by)[CellOf(g, by, e)] = e[3 - by]
<1>. DEFINE n == Len(Sorted(g))
<1>1. PICK f : IsPlacing(g, by, f) /\ f[n] = PlacingEnd(g, by)
  BY PlacingRuns
<1>2. /\ n \in Nat /\ f[0] = Unplaced(g, by)
      /\ \A k \in 0 .. n : f[k] \in Fillings(g)
      /\ \A k \in 1 .. n : f[k] = Placed(f[k - 1], Sorted(g)[k], by)
  <2>1. f \in [0 .. n -> Fillings(g)] /\ f[0] = Unplaced(g, by)
        /\ \A k \in 1 .. n : f[k] = Placed(f[k - 1], Sorted(g)[k], by)
    BY <1>1 DEF IsPlacing
  <2>2. n \in Nat
    BY SortedOK
  <2>. HIDE DEF n
  <2>. QED  BY <2>1, <2>2
<1>. DEFINE G == {k \in 0 .. n : FilledUpTo(g, by, k, f[k])}
<1>3. 0 \in G
  <2>1. 1 .. 0 = {}
    OBVIOUS
  <2>2. FirstArcs(g, 0) = {}
    BY <2>1 DEF FirstArcs
  <2>3. ASSUME NEW v \in Sources(g)
        PROVE  f[0][1][v] = Cardinality({x \in Expanded(g) : x[by] < v} \cup {x \in FirstArcs(g, 0) : x[by] = v})
    <3>1. v \in 0 .. VertexCount(g)
      BY ArcsOK
    <3>2. {x \in FirstArcs(g, 0) : x[by] = v} = {}
      BY <2>2
    <3>3. f[0][1][v] = Cardinality({x \in Expanded(g) : x[by] < v})
      BY <1>2, <3>1, RowStartsOK DEF Unplaced
    <3>4. {x \in Expanded(g) : x[by] < v} \cup {} = {x \in Expanded(g) : x[by] < v}
      OBVIOUS
    <3>. QED  BY <3>2, <3>3, <3>4
  <2>4. FilledUpTo(g, by, 0, f[0])
    BY <2>2, <2>3 DEF FilledUpTo
  <2>. QED  BY <1>2, <2>4
<1>4. ASSUME NEW k \in 1 .. n, k - 1 \in G PROVE k \in G
  <2>1. k \in 0 .. n /\ k - 1 \in 0 .. n /\ f[k - 1] \in Fillings(g) /\ FilledUpTo(g, by, k - 1, f[k - 1])
    BY <1>2, <1>4
  <2>2. FilledUpTo(g, by, k, f[k])
    BY <1>2, <2>1, PlacedKeeps
  <2>. QED  BY <2>1, <2>2
<1>5. n \in G
  <2>. HIDE DEF G, n
  <2>1. 0 .. n \subseteq G
    BY <1>2, <1>3, <1>4, AllNumbers
  <2>. QED  BY <1>2, <2>1
<1>6. FirstArcs(g, n) = Expanded(g)
  <2>1. /\ \A i \in 1 .. n : Sorted(g)[i] \in Expanded(g)
        /\ \A e \in Expanded(g) : \E i \in 1 .. n : Sorted(g)[i] = e
    BY SortedOK
  <2>. QED  BY <2>1 DEF FirstArcs
<1>7. Targets(g, by) = f[n][2]
  BY <1>1 DEF Targets, PlacingEnd, Unplaced
<1>. HIDE DEF n
<1>8. f[n] \in Fillings(g) /\ FilledUpTo(g, by, n, f[n])
  BY <1>2, <1>5
<1>. QED  BY <1>6, <1>7, <1>8 DEF Fillings, FilledUpTo

(* Where the cells of a vertex begin and end.                              *)
LEMMA RowBounds ==
  ASSUME NEW g, GraphOK(g), NEW by \in {1, 2}
  PROVE  /\ \A u, v \in 0 .. VertexCount(g) : u <= v => RowStarts(g, by)[u] <= RowStarts(g, by)[v]
         /\ \A v \in 0 .. VertexCount(g) : RowStarts(g, by)[v] <= Cardinality(Expanded(g))
         /\ \A e \in Expanded(g) : /\ RowStarts(g, by)[e[by]] < CellOf(g, by, e)
                                   /\ CellOf(g, by, e) <= RowStarts(g, by)[e[by] + 1]
<1>. DEFINE E == Expanded(g)
            n == VertexCount(g)
            below(v) == {x \in E : x[by] < v}
            start(v) == RowStarts(g, by)[v]
            Pre(e) == Preceding(g, by, e)
<1>1. n \in Nat /\ IsFiniteSet(E) /\ \A v \in Sources(g) : v \in Nat /\ v \in 0 .. n /\ v + 1 \in 0 .. n
  BY ArcsOK
<1>2. \A e \in E : e[by] \in Nat /\ e[by] \in Sources(g) /\ e[3 - by] \in Nat
  BY EndsOf
<1>3. \A v : below(v) \in SUBSET E /\ IsFiniteSet(below(v)) /\ Cardinality(below(v)) <= Cardinality(E)
  <2>1. \A v : below(v) \in SUBSET E
    OBVIOUS
  <2>. HIDE DEF below, E
  <2>. QED  BY <1>1, <2>1, FS_Subset
<1>4. \A v \in 0 .. n : start(v) = Cardinality(below(v))
  BY RowStartsOK
<1>5. ASSUME NEW u \in 0 .. n, NEW v \in 0 .. n, u <= v PROVE start(u) <= start(v)
  <2>1. \A x \in E : x[by] < u => x[by] < v
    BY <1>1, <1>2, <1>5
  <2>2. below(u) \in SUBSET below(v)
    BY <2>1
  <2>. HIDE DEF below, start
  <2>. QED  BY <1>3, <1>4, <2>2, FS_Subset
<1>6. ASSUME NEW e \in E PROVE start(e[by]) < CellOf(g, by, e) /\ CellOf(g, by, e) <= start(e[by] + 1)
  <2>. DEFINE v == e[by]
              w == e[by] + 1
  <2>1. v \in 0 .. n /\ w \in 0 .. n /\ v \in Nat
    BY <1>1, <1>2
  <2>2. below(v) \in SUBSET Pre(e)
    BY DEF Preceding
  <2>3. Pre(e) \in SUBSET E /\ e \notin Pre(e) /\ Pre(e) \cup {e} \in SUBSET below(w)
    <3>1. ASSUME NEW x \in Pre(e) PROVE x \in below(w)
      <4>1. x \in E /\ x[by] <= e[by]
        BY <1>2 DEF Preceding
      <4>. QED  BY <1>2, <4>1
    <3>2. e \notin Pre(e)
      BY <1>2 DEF Preceding
    <3>3. Pre(e) \in SUBSET E
      BY DEF Preceding
    <3>4. e \in below(w)
      BY <1>2
    <3>. QED  BY <3>1, <3>2, <3>3, <3>4
  <2>. HIDE DEF below, v, w, Pre, E, start
  <2>4. IsFiniteSet(Pre(e))
    BY <1>1, <2>3, FS_Subset
  <2>5. Cardinality(below(v)) <= Cardinality(Pre(e)) /\ Cardinality(below(v)) \in Nat /\ Cardinality(Pre(e)) \in Nat
    BY <1>3, <2>2, <2>4, FS_Subset, FS_CardinalityType
  <2>6. Cardinality(Pre(e) \cup {e}) = Cardinality(Pre(e)) + 1
    BY <2>3, <2>4, FS_AddElement
  <2>7. Cardinality(Pre(e)) + 1 <= Cardinality(below(w))
    <3>1. Cardinality(Pre(e) \cup {e}) <= Cardinality(below(w))
      BY <1>3, <2>3, FS_Subset
    <3>. QED  BY <2>6, <3>1
  <2>8. start(v) = Cardinality(below(v)) /\ start(w) = Cardinality(below(w)) /\ CellOf(g, by, e) = Cardinality(Pre(e)) + 1
    BY <1>4, <2>1 DEF CellOf, Pre
  <2>9. start(v) < CellOf(g, by, e) /\ CellOf(g, by, e) <= start(w)
    BY <2>5, <2>7, <2>8
  <2>. QED  BY <2>9 DEF v, w
<1>7. ASSUME NEW v \in 0 .. n PROVE start(v) <= Cardinality(E)
  BY <1>3, <1>4
<1>. QED  BY <1>5, <1>6, <1>7

(* A row has the other ends of a vertex's arcs, in ascending order.        *)
LEMMA RowOK ==
  ASSUME NEW g, GraphOK(g), NEW by \in {1, 2}, NEW v \in Sources(g)
  PROVE  /\ Ascending(StaticRow(g, by, v))
         /\ ToSet(StaticRow(g, by, v)) = {e[3 - by] : e \in {x \in Expanded(g) : x[by] = v}}
<1>. DEFINE E == Expanded(g)
            m == Cardinality(E)
            t == Targets(g, by)
            i == RowStarts(g, by)[v]
            j == RowStarts(g, by)[v + 1]
            r == StaticRow(g, by, v)
<1>1. VertexCount(g) \in Nat /\ v \in Nat /\ v \in 0 .. VertexCount(g) /\ v + 1 \in 0 .. VertexCount(g) /\ m \in Nat
  BY ArcsOK, FS_CardinalityType
<1>2. i \in Nat /\ j \in Nat /\ i <= j /\ j <= m
  <2>1. v <= v + 1
    BY <1>1
  <2>2. i \in Nat /\ j \in Nat
    BY <1>1, RowStartsOK
  <2>. QED  BY <1>1, <2>1, <2>2, RowBounds
<1>3. \A e \in E : e[by] \in Nat /\ e[3 - by] \in Nat /\ e[by] \in 0 .. VertexCount(g) /\ e[by] + 1 \in 0 .. VertexCount(g)
  BY EndsOf, ArcsOK
<1>4. t \in [1 .. m -> Nat] /\ \A e \in E : t[CellOf(g, by, e)] = e[3 - by]
  BY TargetsOK
<1>5. ASSUME NEW e \in E PROVE e[by] = v <=> CellOf(g, by, e) \in i + 1 .. j
  <2>1. CellOf(g, by, e) \in 1 .. m
    BY CellsOK
  <2>2. RowStarts(g, by)[e[by]] < CellOf(g, by, e) /\ CellOf(g, by, e) <= RowStarts(g, by)[e[by] + 1]
    BY RowBounds
  <2>3. PICK u \in Nat : u = e[by] /\ u \in 0 .. VertexCount(g) /\ u + 1 \in 0 .. VertexCount(g)
    BY <1>3
  <2>4. PICK a \in Nat, b \in Nat : a = RowStarts(g, by)[u] /\ b = RowStarts(g, by)[u + 1]
    BY <2>3, RowStartsOK
  <2>5. (u + 1 <= v => b <= i) /\ (v + 1 <= u => j <= a)
    BY <1>1, <2>3, <2>4, RowBounds
  <2>6. PICK c \in Nat : c = CellOf(g, by, e)
    BY <1>1, <2>1
  <2>7. a < c /\ c <= b
    BY <2>2, <2>3, <2>4, <2>6
  <2>8. u = v => a = i /\ b = j
    BY <2>4
  <2>. HIDE DEF i, j
  <2>9. u = v <=> c \in i + 1 .. j
    BY <1>1, <1>2, <2>5, <2>7, <2>8
  <2>. QED  BY <2>3, <2>6, <2>9
<1>6. /\ r \in Seq(Nat) /\ Len(r) = j - i /\ \A k \in 1 .. j - i : r[k] = t[i + k]
  <2>1. i + 1 \in Int /\ j \in Int /\ \A k \in i + 1 .. j : t[k] \in Nat
    <3>. HIDE DEF t, i, j, m
    <3>1. i + 1 .. j \subseteq 1 .. m
      BY <1>1, <1>2
    <3>. QED  BY <1>2, <1>4, <3>1
  <2>2. r = SubSeq(t, i + 1, j)
    BY DEF StaticRow
  <2>. HIDE DEF t, i, j, r
  <2>3. /\ r \in Seq(Nat) /\ Len(r) = IF i + 1 <= j THEN j - (i + 1) + 1 ELSE 0
        /\ \A k \in 1 .. j - (i + 1) + 1 : r[k] = t[(i + 1) + k - 1]
    BY <2>1, <2>2, SubSeqProperties
  <2>4. j - (i + 1) + 1 = j - i /\ \A k \in 1 .. j - i : (i + 1) + k - 1 = i + k
    BY <1>2
  <2>5. (IF i + 1 <= j THEN j - (i + 1) + 1 ELSE 0) = j - i
    BY <1>2
  <2>. QED  BY <2>3, <2>4, <2>5
<1>. HIDE DEF t, i, j, r, E, m
<1>7. ASSUME NEW k \in 1 .. Len(r) PROVE \E e \in E : e[by] = v /\ CellOf(g, by, e) = i + k /\ r[k] = e[3 - by]
  <2>1. k \in 1 .. j - i /\ i + k \in 1 .. m /\ i + k \in i + 1 .. j
    BY <1>1, <1>2, <1>6
  <2>2. PICK e \in E : CellOf(g, by, e) = i + k
    BY <2>1, CellsOK DEF E, m
  <2>. QED  BY <1>4, <1>5, <1>6, <2>1, <2>2
<1>8. ASSUME NEW k \in 1 .. Len(r), NEW l \in 1 .. Len(r), k < l PROVE r[k] < r[l]
  <2>1. PICK d \in E : d[by] = v /\ CellOf(g, by, d) = i + k /\ r[k] = d[3 - by]
    BY <1>7
  <2>2. PICK e \in E : e[by] = v /\ CellOf(g, by, e) = i + l /\ r[l] = e[3 - by]
    BY <1>7
  <2>3. i + k < i + l
    BY <1>2, <1>8
  <2>4. d # e
    BY <1>2, <2>1, <2>2, <2>3
  <2>5. e \notin Preceding(g, by, d)
    <3>1. ~(CellOf(g, by, e) < CellOf(g, by, d))
      BY <1>2, <2>1, <2>2, <2>3
    <3>. QED  BY <3>1, CellsOK DEF E
  <2>6. ~(e[3 - by] < d[3 - by]) /\ e[3 - by] # d[3 - by]
    <3>1. e[3 - by] # d[3 - by]
      BY <2>1, <2>2, <2>4, EndsOf DEF E
    <3>. QED  BY <2>1, <2>2, <2>5, <3>1 DEF Preceding, E
  <2>. QED  BY <1>3, <2>1, <2>2, <2>6
<1>9. ToSet(r) = {e[3 - by] : e \in {x \in E : x[by] = v}}
  <2>1. ToSet(r) = {r[k] : k \in 1 .. Len(r)}
    BY <1>6 DEF ToSet
  <2>2. ASSUME NEW e \in E, e[by] = v PROVE \E k \in 1 .. Len(r) : r[k] = e[3 - by]
    <3>1. PICK c \in i + 1 .. j : c = CellOf(g, by, e)
      BY <1>5, <2>2
    <3>2. c - i \in 1 .. Len(r) /\ c - i \in 1 .. j - i /\ i + (c - i) = c
      BY <1>2, <1>6, <3>1
    <3>3. r[c - i] = t[c]
      BY <1>6, <3>2
    <3>. QED  BY <1>4, <3>1, <3>2, <3>3
  <2>. QED  BY <1>7, <2>1, <2>2
<1>. QED  BY <1>6, <1>8, <1>9 DEF Ascending, r, E

-----------------------------------------------------------------------------
(* The rows, as sets.                                                      *)
Successors(g, v) == {w \in Sources(g) : <<v, w>> \in Expanded(g)}

(* An ascending row holds as many ids as it is long.                       *)
LEMMA AscendingSet ==
  ASSUME NEW a, Ascending(a)
  PROVE  ToSet(a) = IdsAt(a, 1 .. Len(a)) /\ IsFiniteSet(ToSet(a)) /\ Cardinality(ToSet(a)) = Len(a)
<1>1. DOMAIN a = 1 .. Len(a) /\ Len(a) \in Nat
  BY AscendingFacts
<1>2. ToSet(a) = IdsAt(a, 1 .. Len(a))
  BY <1>1 DEF ToSet, IdsAt
<1>3. IsFiniteSet(IdsAt(a, 1 .. Len(a))) /\ Cardinality(IdsAt(a, 1 .. Len(a))) = Cardinality(1 .. Len(a))
  <2>1. 1 .. Len(a) \in SUBSET (1 .. Len(a))
    OBVIOUS
  <2>. QED  BY <2>1, IdsCounted
<1>4. Cardinality(1 .. Len(a)) = Len(a)
  <2>1. PICK n \in Nat : n = Len(a)
    BY <1>1
  <2>2. Cardinality(1 .. n) = n
    BY FS_Interval
  <2>. QED  BY <2>1, <2>2
<1>. QED  BY <1>2, <1>3, <1>4

(* The merge, on sets.                                                     *)
LEMMA MergeCounts ==
  ASSUME NEW a, Ascending(a), NEW b, Ascending(b)
  PROVE  ScalarIntersection(a, b) = Cardinality(ToSet(a) \cap ToSet(b))
BY AscendingSet, ScalarCounts DEF Shared

(* The rows of a built graph ascend, and hold the arcs out and in.         *)
LEMMA BuiltOK ==
  ASSUME NEW g, GraphOK(g)
  PROVE  /\ DOMAIN Built(g).out = Sources(g)
         /\ \A v \in Sources(g) :
              /\ Ascending(Built(g).out[v]) /\ ToSet(Built(g).out[v]) = Successors(g, v)
              /\ Ascending(Built(g).in[v])
              /\ ToSet(Built(g).in[v]) = {u \in Sources(g) : <<u, v>> \in Expanded(g)}
<1>1. Expanded(g) \in SUBSET (Sources(g) \X Sources(g))
  BY ArcsOK
<1>2. ASSUME NEW v \in Sources(g)
      PROVE  /\ Ascending(Built(g).out[v]) /\ ToSet(Built(g).out[v]) = Successors(g, v)
             /\ Ascending(Built(g).in[v])
             /\ ToSet(Built(g).in[v]) = {u \in Sources(g) : <<u, v>> \in Expanded(g)}
  <2>1. Built(g).out[v] = StaticRow(g, 1, v) /\ Built(g).in[v] = StaticRow(g, 2, v)
    BY DEF Built
  <2>2. /\ Ascending(StaticRow(g, 1, v)) /\ Ascending(StaticRow(g, 2, v))
        /\ ToSet(StaticRow(g, 1, v)) = {e[3 - 1] : e \in {x \in Expanded(g) : x[1] = v}}
        /\ ToSet(StaticRow(g, 2, v)) = {e[3 - 2] : e \in {x \in Expanded(g) : x[2] = v}}
    <3>1. 1 \in {1, 2} /\ 2 \in {1, 2}
      OBVIOUS
    <3>. QED  BY <3>1, RowOK
  <2>3. {e[3 - 1] : e \in {x \in Expanded(g) : x[1] = v}} = Successors(g, v)
    <3>1. ASSUME NEW w \in Sources(g), <<v, w>> \in Expanded(g)
          PROVE  \E e \in {x \in Expanded(g) : x[1] = v} : e[3 - 1] = w
      <4>1. 3 - 1 = 2 /\ (<<v, w>>)[1] = v /\ (<<v, w>>)[2] = w
        OBVIOUS
      <4>. QED  BY <3>1, <4>1
    <3>2. ASSUME NEW e \in Expanded(g), e[1] = v PROVE e[3 - 1] \in Sources(g) /\ <<v, e[3 - 1]>> \in Expanded(g)
      <4>1. 3 - 1 = 2 /\ e = <<e[1], e[2]>> /\ e[2] \in Sources(g)
        BY <1>1
      <4>. QED  BY <3>2, <4>1
    <3>. QED  BY <3>1, <3>2 DEF Successors
  <2>4. {e[3 - 2] : e \in {x \in Expanded(g) : x[2] = v}} = {u \in Sources(g) : <<u, v>> \in Expanded(g)}
    <3>1. ASSUME NEW u \in Sources(g), <<u, v>> \in Expanded(g)
          PROVE  \E e \in {x \in Expanded(g) : x[2] = v} : e[3 - 2] = u
      <4>1. 3 - 2 = 1 /\ (<<u, v>>)[1] = u /\ (<<u, v>>)[2] = v
        OBVIOUS
      <4>. QED  BY <3>1, <4>1
    <3>2. ASSUME NEW e \in Expanded(g), e[2] = v PROVE e[3 - 2] \in Sources(g) /\ <<e[3 - 2], v>> \in Expanded(g)
      <4>1. 3 - 2 = 1 /\ e = <<e[1], e[2]>> /\ e[1] \in Sources(g)
        BY <1>1
      <4>. QED  BY <3>2, <4>1
    <3>. QED  BY <3>1, <3>2
  <2>. QED  BY <2>1, <2>2, <2>3, <2>4
<1>3. DOMAIN Built(g).out = Sources(g)
  BY DEF Built
<1>. QED  BY <1>2, <1>3

(* Common neighbours, and the size of the union that Jaccard similarity    *)
(* divides by.                                                             *)
LEMMA NeighboursOK ==
  ASSUME NEW g, GraphOK(g), NEW v \in Sources(g), NEW w \in Sources(g)
  PROVE  /\ CommonNeighborCount(Built(g), v, w) = Cardinality(Successors(g, v) \cap Successors(g, w))
         /\ UnionSize(Built(g), v, w) = Cardinality(Successors(g, v) \cup Successors(g, w))
<1>. DEFINE a == Built(g).out[v]
            b == Built(g).out[w]
<1>1. Ascending(a) /\ Ascending(b) /\ ToSet(a) = Successors(g, v) /\ ToSet(b) = Successors(g, w)
  BY BuiltOK
<1>2. CommonNeighborCount(Built(g), v, w) = ScalarIntersection(a, b)
  BY DEF CommonNeighborCount
<1>3. UnionSize(Built(g), v, w) = Len(a) + Len(b) - ScalarIntersection(a, b)
  BY <1>2 DEF UnionSize
<1>. HIDE DEF a, b
<1>4. ScalarIntersection(a, b) = Cardinality(ToSet(a) \cap ToSet(b))
  BY <1>1, MergeCounts
<1>5. Cardinality(ToSet(a) \cup ToSet(b)) = Cardinality(ToSet(a)) + Cardinality(ToSet(b)) - Cardinality(ToSet(a) \cap ToSet(b))
  BY <1>1, AscendingSet, FS_Union
<1>6. Cardinality(ToSet(a)) = Len(a) /\ Cardinality(ToSet(b)) = Len(b)
  BY <1>1, AscendingSet
<1>. QED  BY <1>1, <1>2, <1>3, <1>4, <1>5, <1>6

-----------------------------------------------------------------------------
(* The vertices one can get to.                                            *)
Spread(g, ball) == ball \cup {e[2] : e \in {x \in Expanded(g) : x[1] \in ball}}

(* The balls of growing radius.                                            *)
IsSpreading(g, v, d, f) ==
  /\ f \in [0 .. d -> SUBSET Sources(g)]
  /\ f[0] = {v}
  /\ \A k \in 1 .. d : f[k] = Spread(g, f[k - 1])

(* A ball has such a run.                                                  *)
LEMMA BallRuns ==
  ASSUME NEW g, GraphOK(g), NEW v \in Sources(g), NEW d \in Nat
  PROVE  \E f : IsSpreading(g, v, d, f) /\ f[d] = Ball(g, v, d)
<1>. DEFINE n == d
            Step(k, a) == a \cup {e[2] : e \in {x \in Expanded(g) : x[1] \in a}}
            D == SUBSET Sources(g)
            base == {v}
<1>1. n \in Nat /\ DOMAIN [k \in 1 .. d |-> k] = 1 .. n
  OBVIOUS
<1>2. ASSUME NEW k \in 1 .. n, NEW a \in D PROVE Step(k, a) \in D
  <2>1. \A e \in Expanded(g) : e[2] \in Sources(g)
    BY ArcsOK
  <2>. QED  BY <2>1
<1>3. base \in D
  OBVIOUS
<1>. HIDE DEF n, Step, D
<1>. DEFINE step == [p \in (1 .. n) \X D |-> Step(p[1], p[2])]
<1>4. IsStep(step, n, D)
  BY <1>2 DEF IsStep
<1>5. PICK iter : Iterates(iter, n, D, base, step)
  <2>. HIDE DEF step, base
  <2>. QED  BY <1>1, <1>3, <1>4, IterationExists
<1>6. \A T \in SUBSET (1 .. n) : T # {} => Max(T) \in T
  BY <1>1, MaxIn
<1>7. iter = [T \in SUBSET (1 .. n) |-> IF T = {} THEN base ELSE Step(Max(T), iter[T \ {Max(T)}])]
  <2>1. ASSUME NEW T \in SUBSET (1 .. n), T # {}
        PROVE  step[<<Max(T), iter[T \ {Max(T)}]>>] = Step(Max(T), iter[T \ {Max(T)}])
    BY <1>5, <1>6, <2>1 DEF Iterates
  <2>. HIDE DEF step, base
  <2>. QED  BY <1>5, <2>1 DEF Iterates
<1>. DEFINE it == CHOOSE h : h = [T \in SUBSET (1 .. n) |-> IF T = {} THEN base ELSE Step(Max(T), h[T \ {Max(T)}])]
<1>8. it = [T \in SUBSET (1 .. n) |-> IF T = {} THEN base ELSE Step(Max(T), it[T \ {Max(T)}])]
  <2>. HIDE DEF base
  <2>. QED  BY <1>7
<1>9. Ball(g, v, d) = it[1 .. n]
  BY <1>1 DEF Ball, FoldLeft, MapThenFoldSet, Step
<1>. HIDE DEF it, base
<1>10. Unfolds(it, n, D, base, step)
  <2>1. it[{}] = base
    BY <1>8
  <2>2. ASSUME NEW T \in SUBSET (1 .. n), T # {}, it[T \ {Max(T)}] \in D
        PROVE  it[T] = step[<<Max(T), it[T \ {Max(T)}]>>]
    <3>1. it[T] = Step(Max(T), it[T \ {Max(T)}])
      BY <1>8, <2>2
    <3>. QED  BY <1>6, <2>2, <3>1
  <2>. HIDE DEF step
  <2>. QED  BY <2>1, <2>2 DEF Unfolds
<1>11. PICK f : IsRun(f, n, D, base, step) /\ f[n] = it[1 .. n]
  <2>. HIDE DEF step
  <2>. QED  BY <1>1, <1>3, <1>4, <1>10, FoldRuns
<1>12. ASSUME NEW k \in 1 .. n PROVE f[k] = Step(k, f[k - 1])
  <2>1. k - 1 \in 0 .. n
    BY <1>1
  <2>2. f[k - 1] \in D /\ f[k] = step[<<k, f[k - 1]>>]
    BY <1>11, <2>1 DEF IsRun
  <2>. QED  BY <2>2
<1>. QED  BY <1>9, <1>11, <1>12 DEF IsSpreading, Spread, IsRun, n, Step, D, base
(* A ball spreads by one step at a time.                                   *)
LEMMA BallOK ==
  ASSUME NEW g, GraphOK(g), NEW v \in Sources(g), NEW d \in Nat
  PROVE  /\ Ball(g, v, d) \in SUBSET Sources(g)
         /\ Ball(g, v, 0) = {v}
         /\ Ball(g, v, d + 1) = Spread(g, Ball(g, v, d))
<1>1. PICK f : IsSpreading(g, v, d, f) /\ f[d] = Ball(g, v, d)
  BY BallRuns
<1>2. PICK h : IsSpreading(g, v, d + 1, h) /\ h[d + 1] = Ball(g, v, d + 1)
  <2>1. d + 1 \in Nat
    OBVIOUS
  <2>. QED  BY <2>1, BallRuns
<1>3. PICK z : IsSpreading(g, v, 0, z) /\ z[0] = Ball(g, v, 0)
  <2>1. 0 \in Nat
    OBVIOUS
  <2>. QED  BY <2>1, BallRuns
<1>. DEFINE G == {k \in 0 .. d : f[k] = h[k]}
<1>4. 0 \in G
  <2>1. f[0] = {v} /\ h[0] = {v}
    BY <1>1, <1>2 DEF IsSpreading
  <2>. QED  BY <2>1
<1>5. ASSUME NEW k \in 1 .. d, k - 1 \in G PROVE k \in G
  <2>1. k \in 1 .. d + 1 /\ k \in 0 .. d
    OBVIOUS
  <2>2. f[k] = Spread(g, f[k - 1]) /\ h[k] = Spread(g, h[k - 1])
    BY <1>1, <1>2, <2>1 DEF IsSpreading
  <2>. QED  BY <1>5, <2>1, <2>2
<1>6. d \in G
  <2>. HIDE DEF G
  <2>1. 0 .. d \subseteq G
    BY <1>4, <1>5, AllNumbers
  <2>. QED  BY <2>1
<1>7. h[d + 1] = Spread(g, h[d])
  <2>1. d + 1 \in 1 .. d + 1 /\ (d + 1) - 1 = d
    OBVIOUS
  <2>2. \A k \in 1 .. d + 1 : h[k] = Spread(g, h[k - 1])
    BY <1>2 DEF IsSpreading
  <2>. QED  BY <2>1, <2>2
<1>8. f[d] \in SUBSET Sources(g)
  BY <1>1 DEF IsSpreading
<1>9. z[0] = {v}
  BY <1>3 DEF IsSpreading
<1>. QED  BY <1>1, <1>2, <1>3, <1>6, <1>7, <1>8, <1>9

(* What the next step adds.                                                *)
LEMMA BallNext ==
  ASSUME NEW g, GraphOK(g), NEW v \in Sources(g), NEW d \in Nat
  PROVE  /\ \A w : w \in Ball(g, v, d + 1) <=> w \in Ball(g, v, d) \/ \E u \in Ball(g, v, d) : <<u, w>> \in Expanded(g)
         /\ Ball(g, v, d) \subseteq Ball(g, v, d + 1)
<1>. DEFINE B == Ball(g, v, d)
<1>1. Ball(g, v, d + 1) = B \cup {e[2] : e \in {x \in Expanded(g) : x[1] \in B}}
  BY BallOK DEF Spread
<1>2. \A e \in Expanded(g) : e = <<e[1], e[2]>>
  BY ArcsOK
<1>. HIDE DEF B
<1>3. ASSUME NEW w, NEW u \in B, <<u, w>> \in Expanded(g) PROVE w \in {e[2] : e \in {x \in Expanded(g) : x[1] \in B}}
  <2>1. (<<u, w>>)[1] = u /\ (<<u, w>>)[2] = w
    OBVIOUS
  <2>. QED  BY <1>3, <2>1
<1>4. ASSUME NEW w, w \in {e[2] : e \in {x \in Expanded(g) : x[1] \in B}} PROVE \E u \in B : <<u, w>> \in Expanded(g)
  BY <1>2, <1>4
<1>. QED  BY <1>1, <1>3, <1>4 DEF B

(* Balls grow with their radius.                                           *)
LEMMA BallGrows ==
  ASSUME NEW g, GraphOK(g), NEW v \in Sources(g), NEW d \in Nat, NEW b \in Nat, d <= b
  PROVE  Ball(g, v, d) \subseteq Ball(g, v, b)
<1>. DEFINE n == b - d
            G == {k \in 0 .. n : Ball(g, v, d) \subseteq Ball(g, v, d + k)}
<1>1. n \in Nat /\ d + 0 = d /\ d + n = b
  OBVIOUS
<1>2. 0 \in G
  BY <1>1
<1>3. ASSUME NEW k \in 1 .. n, k - 1 \in G PROVE k \in G
  <2>1. d + (k - 1) \in Nat /\ (d + (k - 1)) + 1 = d + k /\ k \in 0 .. n
    BY <1>1
  <2>2. Ball(g, v, d + (k - 1)) \subseteq Ball(g, v, d + k)
    BY <2>1, BallNext
  <2>. QED  BY <1>3, <2>1, <2>2
<1>4. n \in G
  <2>. HIDE DEF G, n
  <2>1. 0 .. n \subseteq G
    BY <1>1, <1>2, <1>3, AllNumbers
  <2>. QED  BY <1>1, <2>1
<1>. QED  BY <1>1, <1>4

(* A set of vertices that no arc leaves holds all that one can get to.     *)
LEMMA BallClosed ==
  ASSUME NEW g, GraphOK(g), NEW v \in Sources(g), NEW X, v \in X,
         \A u, w : u \in X /\ <<u, w>> \in Expanded(g) => w \in X
  PROVE  \A d \in Nat : Ball(g, v, d) \subseteq X
<1>. SUFFICES ASSUME NEW n \in Nat PROVE Ball(g, v, n) \subseteq X
  OBVIOUS
<1>. DEFINE G == {k \in 0 .. n : Ball(g, v, k) \subseteq X}
<1>1. 0 \in G
  <2>1. Ball(g, v, 0) = {v}
    BY BallOK
  <2>. QED  BY <2>1
<1>2. ASSUME NEW k \in 1 .. n, k - 1 \in G PROVE k \in G
  <2>1. k - 1 \in Nat /\ (k - 1) + 1 = k /\ k \in 0 .. n /\ Ball(g, v, k - 1) \subseteq X
    BY <1>2
  <2>2. \A w : w \in Ball(g, v, k) <=> w \in Ball(g, v, k - 1) \/ \E u \in Ball(g, v, k - 1) : <<u, w>> \in Expanded(g)
    BY <2>1, BallNext
  <2>. QED  BY <2>1, <2>2
<1>3. 0 .. n \subseteq G
  <2>. HIDE DEF G
  <2>. QED  BY <1>1, <1>2, AllNumbers
<1>. QED  BY <1>3

-----------------------------------------------------------------------------
(* One round of a flood.                                                   *)
FloodStates(g) == [queue : Seq(Sources(g)), labels : [Sources(g) -> Nat \cup {Unset}]]

(* The neighbours that a round labels.                                     *)
Newly(g, here) == Members(Built(g).out[here.queue[1]], {v \in Sources(g) : here.labels[v] = Unset})

(* What a round does when the queue is not empty.                          *)
LEMMA VisitOK ==
  ASSUME NEW g, GraphOK(g), NEW here \in FloodStates(g), here.queue # <<>>, NEW step \in Nat
  PROVE  /\ here.queue[1] \in Sources(g)
         /\ Newly(g, here) \in Seq(Sources(g)) /\ Ascending(Newly(g, here))
         /\ ToSet(Newly(g, here)) = {v \in Successors(g, here.queue[1]) : here.labels[v] = Unset}
         /\ Visit(Built(g), here, step) \in FloodStates(g)
         /\ Visit(Built(g), here, step).queue = Tail(here.queue) \o Newly(g, here)
         /\ \A v \in Sources(g) : Visit(Built(g), here, step).labels[v]
                                    = IF v \in ToSet(Newly(g, here)) THEN here.labels[here.queue[1]] + step
                                      ELSE here.labels[v]
<1>. DEFINE V == Sources(g)
            q == here.queue
            labels == here.labels
            u == q[1]
            new == Newly(g, here)
            next == [v \in V |-> IF v \in ToSet(new) THEN labels[u] + step ELSE labels[v]]
<1>1. q \in Seq(V) /\ q # <<>> /\ labels \in [V -> Nat \cup {Unset}]
  BY DEF FloodStates
<1>2. u \in V /\ Head(q) = u /\ Tail(q) \in Seq(V)
  <2>. HIDE DEF q, V
  <2>. QED  BY <1>1
<1>3. new = Members(Built(g).out[u], {v \in V : labels[v] = Unset})
  BY DEF Newly
<1>. HIDE DEF V, q, labels, u, new
<1>4. Ascending(Built(g).out[u]) /\ ToSet(Built(g).out[u]) = Successors(g, u)
  BY <1>2, BuiltOK DEF V
<1>5. Ascending(new) /\ ToSet(new) = Successors(g, u) \cap {v \in V : labels[v] = Unset}
  BY <1>3, <1>4, MembersAscend
<1>6. Successors(g, u) \subseteq V
  BY DEF Successors, V
<1>7. ToSet(new) = {v \in Successors(g, u) : labels[v] = Unset}
  BY <1>5, <1>6
<1>8. new \in Seq(V)
  <2>1. new \in Seq(Nat) /\ DOMAIN new = 1 .. Len(new)
    BY <1>5 DEF Ascending
  <2>2. \A i \in 1 .. Len(new) : new[i] \in V
    BY <1>6, <1>7, <2>1 DEF ToSet
  <2>. QED  BY <2>1, <2>2
<1>9. Visit(Built(g), here, step) = [queue |-> Tail(q) \o new, labels |-> next]
  <2>1. DOMAIN here.labels = V /\ here.queue # <<>> /\ Head(here.queue) = u
    BY <1>1, <1>2 DEF q, labels
  <2>2. Members(Built(g).out[Head(here.queue)], {v \in DOMAIN here.labels : here.labels[v] = Unset}) = new
    BY <1>3, <2>1 DEF labels
  <2>. QED  BY <2>1, <2>2 DEF Visit, q, labels
<1>10. Tail(q) \o new \in Seq(V)
  BY <1>2, <1>8
<1>11. next \in [V -> Nat \cup {Unset}]
  <2>1. \A v \in V : labels[v] + step \in Nat \cup {Unset} /\ labels[v] \in Nat \cup {Unset}
    BY <1>1 DEF Unset
  <2>. QED  BY <1>2, <2>1
<1>12. Visit(Built(g), here, step) \in FloodStates(g)
  <2>. HIDE DEF next
  <2>. QED  BY <1>9, <1>10, <1>11 DEF FloodStates, V
<1>. QED  BY <1>2, <1>5, <1>7, <1>8, <1>9, <1>12 DEF V, q, labels, u, new

(* The queue loses its head and gains what is new, without repetition.     *)
LEMMA QueueStep ==
  ASSUME NEW V, NEW q \in Seq(V), q # <<>>, NEW t \in Seq(V),
         \A i, j \in 1 .. Len(q) : q[i] = q[j] => i = j,
         \A i, j \in 1 .. Len(t) : t[i] = t[j] => i = j,
         ToSet(q) \cap ToSet(t) = {}
  PROVE  /\ Tail(q) \o t \in Seq(V)
         /\ \A i, j \in 1 .. Len(Tail(q) \o t) : (Tail(q) \o t)[i] = (Tail(q) \o t)[j] => i = j
         /\ ToSet(Tail(q) \o t) = (ToSet(q) \ {q[1]}) \cup ToSet(t)
         /\ \A i \in 1 .. Len(Tail(q) \o t) :
              \/ i + 1 \in 1 .. Len(q) /\ (Tail(q) \o t)[i] = q[i + 1]
              \/ i \notin 1 .. Len(q) - 1 /\ (Tail(q) \o t)[i] \in ToSet(t)
<1>. DEFINE r == Tail(q) \o t
            n == Len(q) - 1
            m == Len(t)
<1>1. n \in Nat /\ m \in Nat /\ Len(q) = n + 1 /\ DOMAIN q = 1 .. n + 1 /\ DOMAIN t = 1 .. m
  OBVIOUS
<1>2. Tail(q) \in Seq(V) /\ Len(Tail(q)) = n /\ \A i \in 1 .. n : Tail(q)[i] = q[i + 1]
  OBVIOUS
<1>3. /\ r \in Seq(V) /\ Len(r) = n + m /\ DOMAIN r = 1 .. n + m
      /\ \A i \in 1 .. n : r[i] = q[i + 1]
      /\ \A i \in 1 .. n + m : i > n => r[i] = t[i - n]
  <2>1. PICK p \in Seq(V) : p = Tail(q)
    BY <1>2
  <2>2. r = p \o t /\ Len(p) = n /\ \A i \in 1 .. n : p[i] = q[i + 1]
    BY <1>2, <2>1
  <2>3. /\ p \o t \in Seq(V) /\ Len(p \o t) = Len(p) + Len(t)
        /\ \A i \in 1 .. Len(p) + Len(t) : (p \o t)[i] = IF i <= Len(p) THEN p[i] ELSE t[i - Len(p)]
    BY ConcatProperties
  <2>. HIDE DEF r, n, m
  <2>4. Len(p \o t) = n + m /\ \A i \in 1 .. n + m : (p \o t)[i] = IF i <= n THEN p[i] ELSE t[i - n]
    BY <2>2, <2>3 DEF m
  <2>5. DOMAIN (p \o t) = 1 .. n + m
    BY <2>3, <2>4
  <2>6. \A i \in 1 .. n : i \in 1 .. n + m /\ i <= n
    BY <1>1
  <2>7. \A i \in 1 .. n + m : i > n => ~(i <= n)
    BY <1>1
  <2>. QED  BY <2>2, <2>3, <2>4, <2>5, <2>6, <2>7
<1>. HIDE DEF r, n, m
<1>4. ASSUME NEW i \in 1 .. n + m
      PROVE  \/ i \in 1 .. n /\ i + 1 \in 1 .. n + 1 /\ r[i] = q[i + 1]
             \/ i > n /\ i - n \in 1 .. m /\ r[i] = t[i - n]
  BY <1>1, <1>3
<1>5. ToSet(q) = {q[i] : i \in 1 .. n + 1} /\ ToSet(t) = {t[i] : i \in 1 .. m} /\ ToSet(r) = {r[i] : i \in 1 .. n + m}
  BY <1>1, <1>3 DEF ToSet
<1>6. ASSUME NEW i \in 1 .. n + m, NEW j \in 1 .. n + m, r[i] = r[j] PROVE i = j
  <2>1. CASE i \in 1 .. n /\ j \in 1 .. n
    <3>1. i + 1 \in 1 .. Len(q) /\ j + 1 \in 1 .. Len(q) /\ q[i + 1] = q[j + 1]
      BY <1>1, <1>3, <1>6, <2>1
    <3>2. i + 1 = j + 1
      BY <3>1
    <3>. QED  BY <3>2
  <2>2. CASE i > n /\ j > n
    <3>1. i - n \in 1 .. Len(t) /\ j - n \in 1 .. Len(t) /\ t[i - n] = t[j - n]
      BY <1>1, <1>4, <1>6, <2>2 DEF m
    <3>2. i - n = j - n
      BY <3>1
    <3>. QED  BY <1>1, <3>2
  <2>3. CASE i \in 1 .. n /\ j > n
    <3>1. r[i] \in ToSet(q) /\ r[j] \in ToSet(t)
      BY <1>1, <1>4, <1>5, <2>3
    <3>. QED  BY <1>6, <3>1
  <2>4. CASE i > n /\ j \in 1 .. n
    <3>1. r[j] \in ToSet(q) /\ r[i] \in ToSet(t)
      BY <1>1, <1>4, <1>5, <2>4
    <3>. QED  BY <1>6, <3>1
  <2>. QED  BY <1>4, <2>1, <2>2, <2>3, <2>4
<1>7. ToSet(r) = (ToSet(q) \ {q[1]}) \cup ToSet(t)
  <2>1. ASSUME NEW x \in ToSet(r) PROVE x \in (ToSet(q) \ {q[1]}) \cup ToSet(t)
    <3>1. PICK i \in 1 .. n + m : x = r[i]
      BY <1>5
    <3>2. CASE i \in 1 .. n /\ i + 1 \in 1 .. n + 1 /\ r[i] = q[i + 1]
      <4>1. 1 \in 1 .. Len(q) /\ i + 1 \in 1 .. Len(q) /\ i + 1 # 1
        BY <1>1, <3>2
      <4>2. q[i + 1] # q[1]
        BY <4>1
      <4>. QED  BY <1>5, <3>1, <3>2, <4>2
    <3>3. CASE i > n /\ i - n \in 1 .. m /\ r[i] = t[i - n]
      BY <1>5, <3>1, <3>3
    <3>. QED  BY <1>4, <3>2, <3>3
  <2>2. ASSUME NEW x \in ToSet(q), x # q[1] PROVE x \in ToSet(r)
    <3>1. PICK i \in 1 .. n + 1 : x = q[i]
      BY <1>5
    <3>2. i # 1
      BY <2>2, <3>1
    <3>3. i - 1 \in 1 .. n /\ i - 1 \in 1 .. n + m /\ (i - 1) + 1 = i
      BY <1>1, <3>2
    <3>. QED  BY <1>3, <1>5, <3>1, <3>3
  <2>3. ASSUME NEW x \in ToSet(t) PROVE x \in ToSet(r)
    <3>1. PICK i \in 1 .. m : x = t[i]
      BY <1>5
    <3>2. n + i \in 1 .. n + m /\ n + i > n /\ (n + i) - n = i
      BY <1>1
    <3>. QED  BY <1>3, <1>5, <3>1, <3>2
  <2>. QED  BY <2>1, <2>2, <2>3
<1>8. ASSUME NEW i \in 1 .. n + m
      PROVE  \/ i + 1 \in 1 .. Len(q) /\ r[i] = q[i + 1]
             \/ i \notin 1 .. Len(q) - 1 /\ r[i] \in ToSet(t)
  <2>1. CASE i > n /\ i - n \in 1 .. m /\ r[i] = t[i - n]
    <3>1. i \notin 1 .. n /\ Len(q) - 1 = n
      BY <1>1, <2>1
    <3>. QED  BY <1>5, <2>1, <3>1
  <2>. QED  BY <1>1, <1>4, <2>1
<1>. QED  BY <1>3, <1>6, <1>7, <1>8 DEF r

-----------------------------------------------------------------------------
(* A flood: the vertices it has labelled, and those among them whose       *)
(* neighbours it has labelled too.                                         *)
Reached(labels, here) == {v \in DOMAIN labels : labels[v] = Unset /\ here.labels[v] # Unset}

(* Those that have left the queue.                                         *)
Handled(labels, here) == Reached(labels, here) \ ToSet(here.queue)

(* Its first state, its last and its run.                                  *)
FloodStart(labels, start, label) == [queue |-> <<start>>, labels |-> [labels EXCEPT ![start] = label]]

FloodEnd(csr, labels, start, label, step) ==
  FoldLeft(LAMBDA here, k : Visit(csr, here, step), FloodStart(labels, start, label),
           [k \in 1 .. Cardinality(DOMAIN labels) |-> k])

IsFlood(g, labels, start, label, step, f) ==
  /\ f \in [0 .. VertexCount(g) -> FloodStates(g)]
  /\ f[0] = FloodStart(labels, start, label)
  /\ \A k \in 1 .. VertexCount(g) : f[k] = Visit(Built(g), f[k - 1], step)

LEMMA FloodStarts ==
  ASSUME NEW g, GraphOK(g), NEW labels \in [Sources(g) -> Nat \cup {Unset}], NEW start \in Sources(g), NEW label \in Nat
  PROVE  FloodStart(labels, start, label) \in FloodStates(g)
<1>1. <<start>> \in Seq(Sources(g))
  OBVIOUS
<1>2. [labels EXCEPT ![start] = label] \in [Sources(g) -> Nat \cup {Unset}]
  OBVIOUS
<1>. QED  BY <1>1, <1>2 DEF FloodStart, FloodStates

(* A flood has such a run.                                                 *)
LEMMA FloodRuns ==
  ASSUME NEW g, GraphOK(g), NEW labels \in [Sources(g) -> Nat \cup {Unset}], NEW start \in Sources(g),
         NEW label \in Nat, NEW step \in Nat
  PROVE  \E f : IsFlood(g, labels, start, label, step, f) /\ f[VertexCount(g)] = FloodEnd(Built(g), labels, start, label, step)
<1>. DEFINE n == VertexCount(g)
            Step(k, a) == Visit(Built(g), a, step)
            D == FloodStates(g)
            base == FloodStart(labels, start, label)
<1>1. n \in Nat /\ DOMAIN [k \in 1 .. Cardinality(DOMAIN labels) |-> k] = 1 .. n
  BY ArcsOK
<1>2. ASSUME NEW k \in 1 .. n, NEW a \in D PROVE Step(k, a) \in D
  <2>1. CASE a.queue = <<>>
    BY <2>1 DEF Visit
  <2>2. CASE a.queue # <<>>
    BY <2>2, VisitOK
  <2>. QED  BY <2>1, <2>2
<1>3. base \in D
  BY FloodStarts
<1>. HIDE DEF n, Step, D
<1>. DEFINE round == [p \in (1 .. n) \X D |-> Step(p[1], p[2])]
<1>4. IsStep(round, n, D)
  BY <1>2 DEF IsStep
<1>5. PICK iter : Iterates(iter, n, D, base, round)
  <2>. HIDE DEF round, base
  <2>. QED  BY <1>1, <1>3, <1>4, IterationExists
<1>6. \A T \in SUBSET (1 .. n) : T # {} => Max(T) \in T
  BY <1>1, MaxIn
<1>7. iter = [T \in SUBSET (1 .. n) |-> IF T = {} THEN base ELSE Step(Max(T), iter[T \ {Max(T)}])]
  <2>1. ASSUME NEW T \in SUBSET (1 .. n), T # {}
        PROVE  round[<<Max(T), iter[T \ {Max(T)}]>>] = Step(Max(T), iter[T \ {Max(T)}])
    BY <1>5, <1>6, <2>1 DEF Iterates
  <2>. HIDE DEF round, base
  <2>. QED  BY <1>5, <2>1 DEF Iterates
<1>. DEFINE it == CHOOSE h : h = [T \in SUBSET (1 .. n) |-> IF T = {} THEN base ELSE Step(Max(T), h[T \ {Max(T)}])]
<1>8. it = [T \in SUBSET (1 .. n) |-> IF T = {} THEN base ELSE Step(Max(T), it[T \ {Max(T)}])]
  <2>. HIDE DEF base
  <2>. QED  BY <1>7
<1>9. FloodEnd(Built(g), labels, start, label, step) = it[1 .. n]
  BY <1>1 DEF FloodEnd, FoldLeft, MapThenFoldSet, Step
<1>. HIDE DEF it, base
<1>10. Unfolds(it, n, D, base, round)
  <2>1. it[{}] = base
    BY <1>8
  <2>2. ASSUME NEW T \in SUBSET (1 .. n), T # {}, it[T \ {Max(T)}] \in D
        PROVE  it[T] = round[<<Max(T), it[T \ {Max(T)}]>>]
    <3>1. it[T] = Step(Max(T), it[T \ {Max(T)}])
      BY <1>8, <2>2
    <3>. QED  BY <1>6, <2>2, <3>1
  <2>. HIDE DEF round
  <2>. QED  BY <2>1, <2>2 DEF Unfolds
<1>11. PICK f : IsRun(f, n, D, base, round) /\ f[n] = it[1 .. n]
  <2>. HIDE DEF round
  <2>. QED  BY <1>1, <1>3, <1>4, <1>10, FoldRuns
<1>12. ASSUME NEW k \in 1 .. n PROVE f[k] = Step(k, f[k - 1])
  <2>1. k - 1 \in 0 .. n
    BY <1>1
  <2>2. f[k - 1] \in D /\ f[k] = round[<<k, f[k - 1]>>]
    BY <1>11, <2>1 DEF IsRun
  <2>. QED  BY <2>2
<1>. QED  BY <1>9, <1>11, <1>12 DEF IsFlood, IsRun, n, Step, D, base
(* What a flood keeps to: after k rounds k vertices are dealt with unless  *)
(* the queue is empty, and all their neighbours are labelled.              *)
FloodInv(g, labels, start, label, step, k, here) ==
  /\ here \in FloodStates(g)
  /\ \A v \in Sources(g) : labels[v] # Unset => here.labels[v] = labels[v]
  /\ \A i, j \in 1 .. Len(here.queue) : here.queue[i] = here.queue[j] => i = j
  /\ start \in Reached(labels, here) /\ ToSet(here.queue) \subseteq Reached(labels, here)
  /\ \A v \in Handled(labels, here) : \A w \in Successors(g, v) : here.labels[w] # Unset
  /\ here.queue # <<>> => Cardinality(Handled(labels, here)) = k
  /\ Reached(labels, here) \subseteq Ball(g, start, k)
  /\ step = 0 => \A v \in Reached(labels, here) : here.labels[v] = label

(* The invariant holds of the start.                                       *)
LEMMA FloodBegins ==
  ASSUME NEW g, GraphOK(g), NEW labels \in [Sources(g) -> Nat \cup {Unset}],
         NEW start \in Sources(g), labels[start] = Unset, NEW label \in Nat, NEW step
  PROVE  FloodInv(g, labels, start, label, step, 0, FloodStart(labels, start, label))
<1>. DEFINE here == FloodStart(labels, start, label)
<1>1. here \in FloodStates(g)
  BY FloodStarts
<1>2. here.queue = <<start>> /\ here.labels = [labels EXCEPT ![start] = label]
  BY DEF FloodStart
<1>3. ToSet(<<start>>) = {start}
  BY DEF ToSet
<1>4. label # Unset
  BY DEF Unset
<1>5. DOMAIN labels = Sources(g)
  OBVIOUS
<1>. HIDE DEF here
<1>6. Reached(labels, here) = {start}
  BY <1>2, <1>4, <1>5 DEF Reached
<1>7. Handled(labels, here) = {}
  BY <1>2, <1>3, <1>6 DEF Handled
<1>8. Ball(g, start, 0) = {start}
  <2>1. 0 \in Nat
    OBVIOUS
  <2>. QED  BY <2>1, BallOK
<1>9. Cardinality({}) = 0
  BY FS_EmptySet
<1>10. \A i, j \in 1 .. Len(here.queue) : here.queue[i] = here.queue[j] => i = j
  BY <1>2
<1>11. \A v \in Sources(g) : labels[v] # Unset => here.labels[v] = labels[v]
  BY <1>2
<1>12. here.labels[start] = label
  BY <1>2
<1>13. FloodInv(g, labels, start, label, step, 0, here)
  BY <1>1, <1>2, <1>3, <1>6, <1>7, <1>8, <1>9, <1>10, <1>11, <1>12 DEF FloodInv
<1>. QED  BY <1>13 DEF here

(* A round that finds the queue empty does nothing; one that does not has  *)
(* dealt with one more vertex.                                             *)
LEMMA FloodVisits ==
  ASSUME NEW g, GraphOK(g), NEW labels \in [Sources(g) -> Nat \cup {Unset}],
         NEW start \in Sources(g), NEW label \in Nat, NEW step \in Nat,
         NEW k \in Nat, NEW here, FloodInv(g, labels, start, label, step, k, here), here.queue # <<>>
  PROVE  /\ FloodInv(g, labels, start, label, step, k + 1, Visit(Built(g), here, step))
         /\ Reached(labels, Visit(Built(g), here, step)) = Reached(labels, here) \cup ToSet(Newly(g, here))
         /\ ToSet(Newly(g, here)) \cap Reached(labels, here) = {}
<1>. DEFINE V == Sources(g)
            q == here.queue
            u == q[1]
            new == Newly(g, here)
            N == ToSet(new)
            R == Reached(labels, here)
            H == Handled(labels, here)
            there == Visit(Built(g), here, step)
<1>1. /\ here \in FloodStates(g)
      /\ \A v \in V : labels[v] # Unset => here.labels[v] = labels[v]
      /\ \A i, j \in 1 .. Len(q) : q[i] = q[j] => i = j
      /\ start \in R /\ ToSet(q) \subseteq R
      /\ \A v \in H : \A w \in Successors(g, v) : here.labels[w] # Unset
      /\ Cardinality(H) = k
      /\ R \subseteq Ball(g, start, k)
      /\ step = 0 => \A v \in R : here.labels[v] = label
  BY DEF FloodInv
<1>2. /\ u \in V /\ new \in Seq(V) /\ Ascending(new)
      /\ N = {v \in Successors(g, u) : here.labels[v] = Unset}
      /\ there \in FloodStates(g) /\ there.queue = Tail(q) \o new
      /\ \A v \in V : there.labels[v] = IF v \in N THEN here.labels[u] + step ELSE here.labels[v]
  BY <1>1, VisitOK
<1>3. q \in Seq(V) /\ q # <<>> /\ here.labels \in [V -> Nat \cup {Unset}] /\ DOMAIN labels = V
  BY <1>1 DEF FloodStates
<1>4. R = {v \in V : labels[v] = Unset /\ here.labels[v] # Unset} /\ H = R \ ToSet(q)
  BY <1>3 DEF Reached, Handled
<1>5. Reached(labels, there) = {v \in V : labels[v] = Unset /\ there.labels[v] # Unset}
      /\ Handled(labels, there) = Reached(labels, there) \ ToSet(there.queue)
  BY <1>3 DEF Reached, Handled
<1>6. Successors(g, u) \subseteq V /\ \A w \in Successors(g, u) : <<u, w>> \in Expanded(g)
  BY DEF Successors
<1>. HIDE DEF V, q, u, new, N, R, H, there
<1>7. u \in ToSet(q) /\ u \in R
  <2>1. 1 \in DOMAIN q
    BY <1>3
  <2>2. u \in ToSet(q)
    BY <2>1 DEF ToSet, u
  <2>. QED  BY <1>1, <2>2
<1>8. here.labels[u] \in Nat /\ here.labels[u] + step \in Nat /\ here.labels[u] + step # Unset
  <2>1. here.labels[u] \in Nat
    BY <1>2, <1>3, <1>4, <1>7
  <2>. QED  BY <2>1 DEF Unset
<1>9. N \cap R = {} /\ N \subseteq V /\ \A v \in N : labels[v] = Unset
  <2>1. \A v \in N : v \in V /\ here.labels[v] = Unset
    BY <1>2, <1>6
  <2>. QED  BY <1>1, <1>4, <2>1
<1>10. Reached(labels, there) = R \cup N
  BY <1>2, <1>4, <1>5, <1>8, <1>9
<1>11. \A i, j \in 1 .. Len(new) : new[i] = new[j] => i = j
  <2>1. ASSUME NEW i \in 1 .. Len(new), NEW j \in 1 .. Len(new), new[i] = new[j], i # j PROVE FALSE
    <3>1. new[i] \in Nat /\ new[j] \in Nat
      BY <1>2 DEF Ascending
    <3>2. i < j \/ j < i
      BY <2>1
    <3>3. new[i] < new[j] \/ new[j] < new[i]
      BY <1>2, <3>2 DEF Ascending
    <3>. QED  BY <2>1, <3>1, <3>3
  <2>. QED  BY <2>1
<1>12. /\ \A i, j \in 1 .. Len(there.queue) : there.queue[i] = there.queue[j] => i = j
       /\ ToSet(there.queue) = (ToSet(q) \ {u}) \cup N
  <2>1. ToSet(q) \cap ToSet(new) = {}
    BY <1>1, <1>9 DEF N
  <2>2. /\ \A i, j \in 1 .. Len(Tail(q) \o new) : (Tail(q) \o new)[i] = (Tail(q) \o new)[j] => i = j
        /\ ToSet(Tail(q) \o new) = (ToSet(q) \ {q[1]}) \cup ToSet(new)
    BY <1>1, <1>2, <1>3, <1>11, <2>1, QueueStep
  <2>. QED  BY <1>2, <2>2 DEF N, u
<1>13. Handled(labels, there) = H \cup {u}
  BY <1>4, <1>5, <1>7, <1>9, <1>10, <1>12
<1>14. Cardinality(H \cup {u}) = k + 1
  <2>1. IsFiniteSet(V)
    BY ArcsOK DEF V
  <2>2. H \in SUBSET V
    BY <1>4
  <2>3. IsFiniteSet(H)
    BY <2>1, <2>2, FS_Subset
  <2>4. u \notin H
    BY <1>4, <1>7
  <2>. QED  BY <1>1, <2>3, <2>4, FS_AddElement
<1>15. ASSUME NEW v \in H \cup {u}, NEW w \in Successors(g, v) PROVE there.labels[w] # Unset
  <2>0. w \in V
    BY DEF Successors, V
  <2>1. here.labels[w] # Unset \/ w \in N
    BY <1>1, <1>2
  <2>. QED  BY <1>2, <1>8, <2>0, <2>1
<1>16. R \cup N \subseteq Ball(g, start, k + 1)
  <2>1. \A w : w \in Ball(g, start, k + 1) <=> w \in Ball(g, start, k) \/ \E x \in Ball(g, start, k) : <<x, w>> \in Expanded(g)
    BY BallNext
  <2>2. \A w \in N : <<u, w>> \in Expanded(g)
    BY <1>2, <1>6
  <2>. QED  BY <1>1, <1>7, <2>1, <2>2
<1>17. step = 0 => \A v \in R \cup N : there.labels[v] = label
  <2>. SUFFICES ASSUME step = 0, NEW v \in R \cup N PROVE there.labels[v] = label
    OBVIOUS
  <2>1. v \in V
    BY <1>4, <1>9
  <2>2. here.labels[u] + step = label
    BY <1>1, <1>7, <1>8
  <2>. QED  BY <1>1, <1>2, <2>1, <2>2
<1>18. \A v \in V : labels[v] # Unset => there.labels[v] = labels[v]
  BY <1>1, <1>2, <1>9
<1>19. FloodInv(g, labels, start, label, step, k + 1, there)
  BY <1>1, <1>2, <1>10, <1>12, <1>13, <1>14, <1>15, <1>16, <1>17, <1>18 DEF FloodInv, V
<1>. QED  BY <1>9, <1>10, <1>19 DEF there, R, N, new

(* Every round keeps it.                                                   *)
LEMMA FloodKeeps ==
  ASSUME NEW g, GraphOK(g), NEW labels \in [Sources(g) -> Nat \cup {Unset}],
         NEW start \in Sources(g), NEW label \in Nat, NEW step \in Nat,
         NEW k \in Nat, NEW here, FloodInv(g, labels, start, label, step, k, here)
  PROVE  FloodInv(g, labels, start, label, step, k + 1, Visit(Built(g), here, step))
<1>1. CASE here.queue = <<>>
  <2>1. Visit(Built(g), here, step) = here
    BY <1>1 DEF Visit
  <2>2. Ball(g, start, k) \subseteq Ball(g, start, k + 1)
    BY BallNext
  <2>. QED  BY <1>1, <2>1, <2>2 DEF FloodInv
<1>2. CASE here.queue # <<>>
  BY <1>2, FloodVisits
<1>. QED  BY <1>1, <1>2

(* After as many rounds as there are vertices the queue is empty.          *)
LEMMA FloodDone ==
  ASSUME NEW g, GraphOK(g), NEW labels \in [Sources(g) -> Nat \cup {Unset}],
         NEW start \in Sources(g), labels[start] = Unset, NEW label \in Nat, NEW step \in Nat,
         NEW f, IsFlood(g, labels, start, label, step, f)
  PROVE  /\ \A k \in 0 .. VertexCount(g) : FloodInv(g, labels, start, label, step, k, f[k])
         /\ f[VertexCount(g)].queue = <<>>
<1>. DEFINE n == VertexCount(g)
            G == {k \in 0 .. n : FloodInv(g, labels, start, label, step, k, f[k])}
<1>1. n \in Nat /\ IsFiniteSet(Sources(g)) /\ Cardinality(Sources(g)) = n
  BY ArcsOK
<1>2. 0 \in G
  <2>1. FloodInv(g, labels, start, label, step, 0, FloodStart(labels, start, label))
    BY FloodBegins
  <2>. QED  BY <1>1, <2>1 DEF IsFlood
<1>3. ASSUME NEW k \in 1 .. n, k - 1 \in G PROVE k \in G
  <2>1. k - 1 \in Nat /\ (k - 1) + 1 = k /\ k \in 0 .. n
    BY <1>1
  <2>2. f[k] = Visit(Built(g), f[k - 1], step)
    BY DEF IsFlood
  <2>3. FloodInv(g, labels, start, label, step, k - 1, f[k - 1])
    BY <1>3
  <2>4. FloodInv(g, labels, start, label, step, (k - 1) + 1, Visit(Built(g), f[k - 1], step))
    <3>. HIDE DEF G, n
    <3>. QED  BY <2>1, <2>3, FloodKeeps
  <2>. QED  BY <2>1, <2>2, <2>4
<1>4. 0 .. n \subseteq G
  <2>. HIDE DEF G, n
  <2>. QED  BY <1>1, <1>2, <1>3, AllNumbers
<1>5. \A k \in 0 .. n : FloodInv(g, labels, start, label, step, k, f[k])
  BY <1>4
<1>6. f[n].queue = <<>>
  <2>. DEFINE here == f[n]
              H == Handled(labels, here)
  <2>. SUFFICES ASSUME here.queue # <<>> PROVE FALSE
    OBVIOUS
  <2>1. FloodInv(g, labels, start, label, step, n, here)
    <3>1. n \in 0 .. n
      BY <1>1
    <3>. QED  BY <1>5, <3>1
  <2>. HIDE DEF here, n
  <2>2. here.queue \in Seq(Sources(g)) /\ Cardinality(H) = n
    BY <2>1 DEF FloodInv, FloodStates
  <2>3. here.queue[1] \in ToSet(here.queue) /\ here.queue[1] \in Sources(g)
    <3>1. 1 \in DOMAIN here.queue
      BY <2>2
    <3>. QED  BY <2>2, <3>1 DEF ToSet
  <2>4. H \in SUBSET Sources(g) /\ here.queue[1] \notin H
    BY <2>3 DEF Handled, Reached
  <2>5. H # Sources(g)
    BY <2>3, <2>4
  <2>. HIDE DEF H
  <2>6. Cardinality(Sources(g)) = Cardinality(H) => Sources(g) = H
    BY <1>1, <2>4, FS_Subset
  <2>. QED  BY <1>1, <2>2, <2>5, <2>6
<1>. QED  BY <1>5, <1>6
(* A flood labels a set that no arc leaves, and that can be got to.        *)
LEMMA FloodResult ==
  ASSUME NEW g, GraphOK(g), NEW labels \in [Sources(g) -> Nat \cup {Unset}],
         NEW start \in Sources(g), labels[start] = Unset, NEW label \in Nat, NEW step \in Nat,
         NEW L, L = Flood(Built(g), labels, start, label, step),
         NEW R, R = {v \in Sources(g) : labels[v] = Unset /\ L[v] # Unset}
  PROVE  /\ L \in [Sources(g) -> Nat \cup {Unset}]
         /\ \A v \in Sources(g) : labels[v] # Unset => L[v] = labels[v]
         /\ start \in R /\ R \subseteq Ball(g, start, VertexCount(g))
         /\ \A v \in R : \A w \in Successors(g, v) : L[w] # Unset
         /\ step = 0 => \A v \in R : L[v] = label
<1>. DEFINE n == VertexCount(g)
<1>1. PICK f : IsFlood(g, labels, start, label, step, f) /\ f[n] = FloodEnd(Built(g), labels, start, label, step)
  BY FloodRuns
<1>2. L = f[n].labels
  BY <1>1 DEF Flood, FloodEnd, FloodStart
<1>3. n \in 0 .. n
  BY ArcsOK
<1>. HIDE DEF n
<1>4. FloodInv(g, labels, start, label, step, n, f[n]) /\ f[n].queue = <<>>
  BY <1>1, <1>3, FloodDone DEF n
<1>5. f[n].labels \in [Sources(g) -> Nat \cup {Unset}]
  BY <1>4 DEF FloodInv, FloodStates
<1>6. Reached(labels, f[n]) = R
  BY <1>2 DEF Reached
<1>7. ToSet(<<>>) = {}
  BY DEF ToSet
<1>8. Handled(labels, f[n]) = R
  BY <1>4, <1>6, <1>7 DEF Handled
<1>. QED  BY <1>2, <1>4, <1>5, <1>6, <1>8 DEF FloodInv, n

LEMMA FloodTyped ==
  ASSUME NEW g, GraphOK(g), NEW labels \in [Sources(g) -> Nat \cup {Unset}],
         NEW start \in Sources(g), labels[start] = Unset, NEW label \in Nat, NEW step \in Nat
  PROVE  Flood(Built(g), labels, start, label, step) \in [Sources(g) -> Nat \cup {Unset}]
<1>1. PICK L : L = Flood(Built(g), labels, start, label, step)
  OBVIOUS
<1>2. PICK R : R = {v \in Sources(g) : labels[v] = Unset /\ L[v] # Unset}
  OBVIOUS
<1>3. L \in [Sources(g) -> Nat \cup {Unset}]
  BY <1>1, <1>2, FloodResult
<1>. QED  BY <1>1, <1>3

(* What breadth-first search keeps to: the labels are the distances, those *)
(* in the queue ascend by one at most, and all within the distance of its  *)
(* head are labelled.                                                      *)
BfsInv(g, source, here) ==
  /\ \A w \in Sources(g) : here.labels[w] # Unset =>
       w \in Ball(g, source, here.labels[w]) /\ \A b \in 0 .. here.labels[w] - 1 : w \notin Ball(g, source, b)
  /\ \A i, j \in 1 .. Len(here.queue) : i <= j => here.labels[here.queue[i]] <= here.labels[here.queue[j]]
  /\ \A i \in 1 .. Len(here.queue) : here.labels[here.queue[i]] <= here.labels[here.queue[1]] + 1
  /\ here.queue # <<>> => \A w \in Ball(g, source, here.labels[here.queue[1]]) : here.labels[w] # Unset

(* The search begins so.                                                   *)
LEMMA BfsBegins ==
  ASSUME NEW g, GraphOK(g), NEW source \in Sources(g)
  PROVE  BfsInv(g, source, FloodStart([v \in Sources(g) |-> Unset], source, 0))
<1>. DEFINE none == [v \in Sources(g) |-> Unset]
            here == FloodStart(none, source, 0)
<1>1. here.queue = <<source>> /\ here.labels = [none EXCEPT ![source] = 0]
  BY DEF FloodStart
<1>2. here.labels[source] = 0 /\ \A w \in Sources(g) : w # source => here.labels[w] = Unset
  BY <1>1
<1>3. Ball(g, source, 0) = {source} /\ 0 # Unset
  <2>1. 0 \in Nat
    OBVIOUS
  <2>. QED  BY <2>1, BallOK DEF Unset
<1>4. Len(here.queue) = 1 /\ here.queue[1] = source
  BY <1>1
<1>. HIDE DEF here, none
<1>5. \A i \in 1 .. Len(here.queue) : here.labels[here.queue[i]] = 0
  <2>1. \A i \in 1 .. 1 : i = 1
    OBVIOUS
  <2>. QED  BY <1>2, <1>4, <2>1
<1>6. BfsInv(g, source, here)
  BY <1>2, <1>3, <1>4, <1>5 DEF BfsInv
<1>. QED  BY <1>6 DEF here, none

(* Every round of it keeps them.                                           *)
LEMMA BfsVisits ==
  ASSUME NEW g, GraphOK(g), NEW source \in Sources(g), NEW none, none = [v \in Sources(g) |-> Unset],
         NEW k \in Nat, NEW here, FloodInv(g, none, source, 0, 1, k, here), here.queue # <<>>,
         BfsInv(g, source, here)
  PROVE  BfsInv(g, source, Visit(Built(g), here, 1))
<1>. DEFINE V == Sources(g)
            q == here.queue
            u == q[1]
            N == ToSet(Newly(g, here))
            there == Visit(Built(g), here, 1)
            r == there.queue
            d == here.labels[u]
            Near(b) == Ball(g, source, b)
<1>1. here \in FloodStates(g) /\ 1 \in Nat /\ 0 \in Nat /\ none \in [V -> Nat \cup {Unset}]
  BY DEF FloodInv
<1>2. /\ u \in V /\ Newly(g, here) \in Seq(V) /\ Ascending(Newly(g, here))
      /\ N = {v \in Successors(g, u) : here.labels[v] = Unset}
      /\ there \in FloodStates(g) /\ r = Tail(q) \o Newly(g, here)
      /\ \A v \in V : there.labels[v] = IF v \in N THEN d + 1 ELSE here.labels[v]
  BY <1>1, VisitOK
<1>3. /\ q \in Seq(V) /\ q # <<>> /\ here.labels \in [V -> Nat \cup {Unset}]
      /\ r \in Seq(V) /\ there.labels \in [V -> Nat \cup {Unset}]
  BY <1>1, <1>2 DEF FloodStates
<1>4. FloodInv(g, none, source, 0, 1, k + 1, there)
  <2>1. source \in Sources(g) /\ none \in [Sources(g) -> Nat \cup {Unset}]
    BY <1>1
  <2>. HIDE DEF V, q, u, N, r, d
  <2>. QED  BY <1>1, <2>1, FloodVisits
<1>5. ToSet(q) \subseteq {v \in V : here.labels[v] # Unset}
  <2>1. DOMAIN none = V /\ \A v \in V : none[v] = Unset
    OBVIOUS
  <2>. QED  BY <2>1 DEF FloodInv, Reached
<1>6. /\ ToSet(r) \subseteq {v \in V : there.labels[v] # Unset}
      /\ \A v \in V : there.labels[v] # Unset /\ v \notin ToSet(r) => \A w \in Successors(g, v) : there.labels[w] # Unset
  <2>1. DOMAIN none = V /\ \A v \in V : none[v] = Unset
    OBVIOUS
  <2>. QED  BY <1>4, <2>1 DEF FloodInv, Reached, Handled
<1>7. /\ \A w \in V : here.labels[w] # Unset =>
           w \in Near(here.labels[w]) /\ \A b \in 0 .. here.labels[w] - 1 : w \notin Near(b)
      /\ \A i, j \in 1 .. Len(q) : i <= j => here.labels[q[i]] <= here.labels[q[j]]
      /\ \A i \in 1 .. Len(q) : here.labels[q[i]] <= d + 1
      /\ \A w \in Near(d) : here.labels[w] # Unset
  BY DEF BfsInv
<1>8. \A w \in Successors(g, u) : w \in V /\ <<u, w>> \in Expanded(g)
  BY DEF Successors
<1>9. \A w : (\E x \in V : <<x, w>> \in Expanded(g)) => w \in V
  BY ArcsOK
<1>. HIDE DEF V, q, u, there, r, d, Near
<1>10. 1 \in 1 .. Len(q) /\ u \in ToSet(q) /\ \A i \in 1 .. Len(q) : q[i] \in ToSet(q)
  BY <1>3 DEF ToSet, u
<1>11. d \in Nat
  BY <1>3, <1>5, <1>10 DEF d
<1>12. /\ \A b \in Nat : Near(b) \in SUBSET V
       /\ \A w : w \in Near(d + 1) <=> w \in Near(d) \/ \E x \in Near(d) : <<x, w>> \in Expanded(g)
       /\ \A b \in Nat : b <= d => Near(b) \subseteq Near(d)
  BY <1>11, BallOK, BallNext, BallGrows DEF Near, V
<1>13. \A w \in N : w \in V /\ here.labels[w] = Unset /\ there.labels[w] = d + 1 /\ <<u, w>> \in Expanded(g)
  BY <1>2, <1>8
<1>14. \A w \in V : here.labels[w] # Unset => w \notin N /\ there.labels[w] = here.labels[w]
  BY <1>2, <1>13
<1>15. u \in Near(d)
  BY <1>5, <1>7, <1>10 DEF d
<1>. HIDE DEF N
<1>16. ASSUME NEW w \in V, there.labels[w] # Unset
       PROVE  w \in Near(there.labels[w]) /\ \A b \in 0 .. there.labels[w] - 1 : w \notin Near(b)
  <2>1. CASE w \in N
    <3>1. w \in Near(d + 1)
      BY <1>12, <1>13, <1>15, <2>1
    <3>2. w \notin Near(d)
      BY <1>7, <1>13, <2>1
    <3>3. ASSUME NEW b \in 0 .. (d + 1) - 1 PROVE w \notin Near(b)
      <4>1. b \in Nat /\ b <= d
        BY <1>11
      <4>. QED  BY <1>12, <3>2, <4>1
    <3>. QED  BY <1>13, <2>1, <3>1, <3>3
  <2>2. CASE w \notin N
    <3>1. there.labels[w] = here.labels[w]
      BY <1>2, <2>2
    <3>. QED  BY <1>7, <1>16, <3>1
  <2>. QED  BY <2>1, <2>2
<1>17. ASSUME NEW i \in 1 .. Len(r)
       PROVE  \/ i + 1 \in 1 .. Len(q) /\ r[i] = q[i + 1] /\ there.labels[r[i]] = here.labels[q[i + 1]]
              \/ i \notin 1 .. Len(q) - 1 /\ there.labels[r[i]] = d + 1
  <2>1. \A j, l \in 1 .. Len(q) : q[j] = q[l] => j = l
    BY DEF FloodInv, q
  <2>2. \A j, l \in 1 .. Len(Newly(g, here)) : Newly(g, here)[j] = Newly(g, here)[l] => j = l
    BY <1>2, AscendingFacts
  <2>3. ToSet(q) \cap ToSet(Newly(g, here)) = {}
    BY <1>5, <1>13 DEF N
  <2>4. \/ i + 1 \in 1 .. Len(q) /\ r[i] = q[i + 1]
        \/ i \notin 1 .. Len(q) - 1 /\ r[i] \in ToSet(Newly(g, here))
    BY <1>2, <1>3, <2>1, <2>2, <2>3, QueueStep
  <2>5. CASE i + 1 \in 1 .. Len(q) /\ r[i] = q[i + 1]
    <3>1. q[i + 1] \in V /\ here.labels[q[i + 1]] # Unset
      BY <1>5, <1>10, <2>5
    <3>. QED  BY <1>14, <2>5, <3>1
  <2>6. CASE i \notin 1 .. Len(q) - 1 /\ r[i] \in ToSet(Newly(g, here))
    BY <1>13, <2>6 DEF N
  <2>. QED  BY <2>4, <2>5, <2>6
<1>18. \A i \in 1 .. Len(r) : there.labels[r[i]] \in Nat /\ d <= there.labels[r[i]] /\ there.labels[r[i]] <= d + 1
  <2>. SUFFICES ASSUME NEW i \in 1 .. Len(r)
                PROVE  there.labels[r[i]] \in Nat /\ d <= there.labels[r[i]] /\ there.labels[r[i]] <= d + 1
    OBVIOUS
  <2>1. CASE there.labels[r[i]] = d + 1
    BY <1>11, <2>1
  <2>2. CASE i + 1 \in 1 .. Len(q) /\ r[i] = q[i + 1] /\ there.labels[r[i]] = here.labels[q[i + 1]]
    <3>1. 1 <= i + 1 /\ q[i + 1] \in V /\ here.labels[q[i + 1]] # Unset
      BY <1>5, <1>10, <2>2
    <3>2. here.labels[q[i + 1]] \in Nat
      BY <1>3, <3>1
    <3>3. here.labels[q[1]] <= here.labels[q[i + 1]]
      BY <1>7, <1>10, <2>2, <3>1
    <3>. QED  BY <1>7, <2>2, <3>2, <3>3 DEF d, u
  <2>. QED  BY <1>17, <2>1, <2>2
<1>19. ASSUME NEW i \in 1 .. Len(r), NEW j \in 1 .. Len(r), i <= j PROVE there.labels[r[i]] <= there.labels[r[j]]
  <2>1. CASE there.labels[r[j]] = d + 1
    BY <1>18, <2>1
  <2>2. CASE j + 1 \in 1 .. Len(q) /\ there.labels[r[j]] = here.labels[q[j + 1]]
    <3>1. Len(q) \in Nat
      BY <1>3
    <3>2. i \in 1 .. Len(q) - 1
      BY <1>19, <2>2, <3>1
    <3>3. i + 1 \in 1 .. Len(q) /\ there.labels[r[i]] = here.labels[q[i + 1]]
      BY <1>17, <3>2
    <3>4. i + 1 <= j + 1
      BY <1>19
    <3>. QED  BY <1>7, <2>2, <3>3, <3>4
  <2>. QED  BY <1>17, <2>1, <2>2
<1>20. ASSUME r # <<>>, NEW w \in Near(there.labels[r[1]]) PROVE there.labels[w] # Unset
  <2>1. 1 \in 1 .. Len(r) /\ \A i \in 1 .. Len(r) : 1 <= i
    BY <1>3, <1>20
  <2>2. there.labels[r[1]] = d \/ there.labels[r[1]] = d + 1
    BY <1>11, <1>18, <2>1
  <2>3. \A x \in Near(d) : x \in V /\ here.labels[x] # Unset /\ there.labels[x] = here.labels[x]
    BY <1>7, <1>11, <1>12, <1>14
  <2>4. CASE w \in Near(d)
    BY <2>3, <2>4
  <2>5. CASE there.labels[r[1]] = d + 1 /\ w \notin Near(d)
    <3>1. PICK x \in Near(d) : <<x, w>> \in Expanded(g)
      BY <1>12, <1>20, <2>5
    <3>2. here.labels[x] \in Nat /\ ~(here.labels[x] > d)
      <4>1. here.labels[x] \in Nat
        BY <1>3, <2>3
      <4>2. here.labels[x] > d => d \in 0 .. here.labels[x] - 1
        BY <1>11, <4>1
      <4>. QED  BY <1>7, <2>3, <4>1, <4>2
    <3>3. x \notin ToSet(r)
      <4>1. \A i \in 1 .. Len(r) : d + 1 <= there.labels[r[i]]
        BY <1>19, <2>1, <2>5
      <4>2. ~(d + 1 <= there.labels[x])
        BY <1>11, <2>3, <3>2
      <4>. QED  BY <1>3, <4>1, <4>2 DEF ToSet
    <3>4. w \in Successors(g, x)
      BY <1>9, <2>3, <3>1 DEF Successors, V
    <3>. QED  BY <1>6, <2>3, <3>3, <3>4
  <2>. QED  BY <1>20, <2>2, <2>4, <2>5
<1>21. \A i \in 1 .. Len(r) : there.labels[r[i]] <= there.labels[r[1]] + 1
  <2>. SUFFICES ASSUME NEW i \in 1 .. Len(r) PROVE there.labels[r[i]] <= there.labels[r[1]] + 1
    OBVIOUS
  <2>1. 1 \in 1 .. Len(r)
    BY <1>3
  <2>. QED  BY <1>11, <1>18, <2>1
<1>22. BfsInv(g, source, there)
  BY <1>16, <1>19, <1>20, <1>21 DEF BfsInv, V, r, Near
<1>. QED  BY <1>22 DEF there

(* Breadth-first search finds the distances.                               *)
LEMMA BfsExact ==
  ASSUME NEW g, GraphOK(g), NEW source \in Sources(g), NEW w \in Sources(g),
         NEW d, d = BfsDistances(Built(g), source)[w]
  PROVE  IF w \in Ball(g, source, VertexCount(g))
         THEN w \in Ball(g, source, d) /\ (d = 0 \/ w \notin Ball(g, source, d - 1))
         ELSE d = Unset
<1>. DEFINE n == VertexCount(g)
            none == [v \in Sources(g) |-> Unset]
            L == Flood(Built(g), none, source, 0, 1)
            R == {v \in Sources(g) : L[v] # Unset}
<1>1. none \in [Sources(g) -> Nat \cup {Unset}] /\ none[source] = Unset /\ 0 \in Nat /\ 1 \in Nat /\ n \in Nat
  BY ArcsOK
<1>2. PICK f : IsFlood(g, none, source, 0, 1, f) /\ f[n] = FloodEnd(Built(g), none, source, 0, 1)
  <2>. HIDE DEF none
  <2>. QED  BY <1>1, FloodRuns
<1>3. L = f[n].labels
  BY <1>2 DEF Flood, FloodEnd, FloodStart
<1>4. d = L[w]
  <2>1. DOMAIN Built(g).out = Sources(g)
    BY BuiltOK
  <2>. QED  BY <2>1 DEF BfsDistances, Unlabelled
<1>5. \A k \in 0 .. n : FloodInv(g, none, source, 0, 1, k, f[k])
  <2>. HIDE DEF none
  <2>. QED  BY <1>1, <1>2, FloodDone
<1>6. \A k \in 0 .. n : BfsInv(g, source, f[k])
  <2>. DEFINE G == {k \in 0 .. n : BfsInv(g, source, f[k])}
  <2>1. 0 \in G
    BY <1>1, <1>2, BfsBegins DEF IsFlood
  <2>2. ASSUME NEW k \in 1 .. n, k - 1 \in G PROVE k \in G
    <3>1. k - 1 \in Nat /\ k - 1 \in 0 .. n /\ k \in 0 .. n
      BY <1>1
    <3>2. f[k] = Visit(Built(g), f[k - 1], 1)
      BY <1>2 DEF IsFlood
    <3>3. BfsInv(g, source, f[k - 1]) /\ FloodInv(g, none, source, 0, 1, k - 1, f[k - 1])
      BY <1>5, <2>2, <3>1
    <3>4. BfsInv(g, source, Visit(Built(g), f[k - 1], 1))
      <4>1. CASE f[k - 1].queue = <<>>
        BY <3>3, <4>1 DEF Visit
      <4>2. CASE f[k - 1].queue # <<>>
        <5>. HIDE DEF G
        <5>. QED  BY <3>1, <3>3, <4>2, BfsVisits
      <4>. QED  BY <4>1, <4>2
    <3>. QED  BY <3>1, <3>2, <3>4
  <2>3. 0 .. n \subseteq G
    <3>. HIDE DEF G, n, none
    <3>. QED  BY <1>1, <2>1, <2>2, AllNumbers
  <2>. QED  BY <2>3
<1>7. BfsInv(g, source, f[n])
  <2>1. n \in 0 .. n
    BY <1>1
  <2>. QED  BY <1>6, <2>1
<1>8. R = {v \in Sources(g) : none[v] = Unset /\ L[v] # Unset}
  OBVIOUS
<1>9. /\ L \in [Sources(g) -> Nat \cup {Unset}]
      /\ source \in R /\ R \subseteq Ball(g, source, n)
      /\ \A v \in R : \A x \in Successors(g, v) : L[x] # Unset
  <2>. HIDE DEF none, R, L
  <2>1. L = Flood(Built(g), none, source, 0, 1)
    BY DEF L
  <2>. QED  BY <1>1, <1>8, <2>1, FloodResult
<1>10. Ball(g, source, n) \subseteq R
  <2>1. \A v, x : v \in R /\ <<v, x>> \in Expanded(g) => x \in R
    <3>1. \A e \in Expanded(g) : e[2] \in Sources(g)
      BY ArcsOK
    <3>2. ASSUME NEW v \in R, NEW x, <<v, x>> \in Expanded(g) PROVE x \in R
      <4>1. x \in Sources(g)
        BY <3>1, <3>2
      <4>2. x \in Successors(g, v)
        BY <3>2, <4>1 DEF Successors
      <4>. QED  BY <1>9, <4>1, <4>2
    <3>. QED  BY <3>2
  <2>. HIDE DEF R
  <2>. QED  BY <1>1, <1>9, <2>1, BallClosed
<1>11. CASE w \in Ball(g, source, n)
  <2>1. d # Unset
    BY <1>4, <1>10, <1>11
  <2>2. w \in Ball(g, source, d) /\ \A b \in 0 .. d - 1 : w \notin Ball(g, source, b)
    BY <1>3, <1>4, <1>7, <2>1 DEF BfsInv
  <2>3. d \in Nat
    BY <1>4, <1>9, <2>1
  <2>4. d = 0 \/ d - 1 \in 0 .. d - 1
    BY <2>3
  <2>. QED  BY <1>11, <2>2, <2>4
<1>12. CASE w \notin Ball(g, source, n)
  <2>1. w \notin R
    BY <1>9, <1>12
  <2>. QED  BY <1>4, <1>12, <2>1
<1>. QED  BY <1>11, <1>12
-----------------------------------------------------------------------------
(* Connected components.                                                   *)
Component(g, v) == Ball(g, v, VertexCount(g))

(* The first vertex of a component.                                        *)
First(g, v) == Min(Component(g, v))

(* No arc leaves a component.                                              *)
LEMMA ComponentClosed ==
  ASSUME NEW g, GraphOK(g), NEW v \in Sources(g)
  PROVE  /\ v \in Component(g, v) /\ Component(g, v) \in SUBSET Sources(g)
         /\ \A u, w : u \in Component(g, v) /\ <<u, w>> \in Expanded(g) => w \in Component(g, v)
<1>. DEFINE n == VertexCount(g)
            none == [x \in Sources(g) |-> Unset]
            L == Flood(Built(g), none, v, 0, 0)
            R == {x \in Sources(g) : L[x] # Unset}
<1>1. none \in [Sources(g) -> Nat \cup {Unset}] /\ none[v] = Unset /\ 0 \in Nat /\ n \in Nat
  BY ArcsOK
<1>2. R = {x \in Sources(g) : none[x] = Unset /\ L[x] # Unset}
  OBVIOUS
<1>3. v \in R /\ R \subseteq Component(g, v) /\ \A u \in R : \A w \in Successors(g, u) : L[w] # Unset
  <2>. HIDE DEF none, R, L
  <2>1. PICK zero \in Nat : zero = 0
    BY <1>1
  <2>2. L = Flood(Built(g), none, v, zero, zero)
    BY <2>1 DEF L
  <2>3. /\ v \in R /\ R \subseteq Ball(g, v, VertexCount(g))
        /\ \A u \in R : \A w \in Successors(g, u) : L[w] # Unset
    BY <1>1, <1>2, <2>2, FloodResult
  <2>. QED  BY <2>3 DEF Component
<1>4. \A u, w : u \in R /\ <<u, w>> \in Expanded(g) => w \in R
  <2>1. \A e \in Expanded(g) : e[2] \in Sources(g)
    BY ArcsOK
  <2>2. ASSUME NEW u \in R, NEW w, <<u, w>> \in Expanded(g) PROVE w \in R
    <3>1. w \in Sources(g)
      BY <2>1, <2>2
    <3>2. w \in Successors(g, u)
      BY <2>2, <3>1 DEF Successors
    <3>. QED  BY <1>3, <3>1, <3>2
  <2>. QED  BY <2>2
<1>5. R \in SUBSET Sources(g)
  OBVIOUS
<1>. HIDE DEF R
<1>6. Component(g, v) \subseteq R
  BY <1>1, <1>3, <1>4, BallClosed DEF Component
<1>. QED  BY <1>3, <1>4, <1>5, <1>6

(* Without directions a component is that of each of its vertices.         *)
LEMMA ComponentsPart ==
  ASSUME NEW g, GraphOK(g), ~g.directed, NEW v \in Sources(g), NEW w \in Component(g, v)
  PROVE  w \in Sources(g) /\ Component(g, w) = Component(g, v)
<1>1. w \in Sources(g) /\ VertexCount(g) \in Nat
  BY ComponentClosed, ArcsOK
<1>2. Component(g, w) \subseteq Component(g, v)
  BY <1>1, ComponentClosed, BallClosed DEF Component
<1>3. v \in Component(g, w)
  <2>. DEFINE X == Sources(g) \ Component(g, w)
  <2>. SUFFICES ASSUME v \notin Component(g, w) PROVE FALSE
    OBVIOUS
  <2>1. ASSUME NEW u \in X, NEW x, <<u, x>> \in Expanded(g) PROVE x \in X
    <3>1. <<x, u>> \in Expanded(g) /\ \A e \in Expanded(g) : e[2] \in Sources(g)
      BY <2>1, ArcsOK
    <3>2. x \in Component(g, w) => u \in Component(g, w)
      BY <1>1, <3>1, ComponentClosed
    <3>. QED  BY <2>1, <3>1, <3>2
  <2>2. v \in X
    OBVIOUS
  <2>. HIDE DEF X
  <2>3. Component(g, v) \subseteq X
    BY <1>1, <2>1, <2>2, BallClosed DEF Component
  <2>. QED  BY <1>1, <2>3, ComponentClosed DEF X
<1>4. Component(g, v) \subseteq Component(g, w)
  BY <1>1, <1>3, ComponentClosed, BallClosed DEF Component
<1>. QED  BY <1>1, <1>2, <1>4

(* Two vertices are in one component when it has one first vertex.         *)
LEMMA FirstOf ==
  ASSUME NEW g, GraphOK(g), ~g.directed, NEW v \in Sources(g)
  PROVE  /\ First(g, v) \in Sources(g) /\ First(g, v) \in Nat /\ v \in Nat /\ First(g, v) <= v
         /\ First(g, First(g, v)) = First(g, v)
         /\ \A w \in Sources(g) : w \in Component(g, v) <=> First(g, w) = First(g, v)
<1>1. Component(g, v) \in SUBSET Sources(g) /\ v \in Component(g, v) /\ Sources(g) \in SUBSET Nat
  BY ComponentClosed, ArcsOK
<1>2. First(g, v) \in Component(g, v) /\ First(g, v) <= v
  <2>1. Component(g, v) \in SUBSET Nat /\ Component(g, v) # {}
    BY <1>1
  <2>. QED  BY <1>1, <2>1, LeastOf DEF First
<1>3. Component(g, First(g, v)) = Component(g, v)
  BY <1>2, ComponentsPart
<1>4. ASSUME NEW w \in Sources(g) PROVE w \in Component(g, v) <=> First(g, w) = First(g, v)
  <2>1. w \in Component(g, v) => First(g, w) = First(g, v)
    BY ComponentsPart DEF First
  <2>2. ASSUME First(g, w) = First(g, v) PROVE w \in Component(g, v)
    <3>1. Component(g, w) \in SUBSET Nat /\ w \in Component(g, w)
      BY <1>1, ComponentClosed
    <3>2. First(g, w) \in Component(g, w)
      BY <3>1, LeastOf DEF First
    <3>3. Component(g, First(g, w)) = Component(g, w)
      BY <3>2, ComponentsPart
    <3>. QED  BY <1>3, <2>2, <3>1, <3>3
  <2>. QED  BY <2>1, <2>2
<1>. QED  BY <1>1, <1>2, <1>3, <1>4 DEF First

(* The components that begin before a vertex, and the labels once those    *)
(* are found.                                                              *)
Firsts(g, k) == {First(g, x) : x \in 0 .. k - 1}

(* The labels once those components are found.                             *)
Numbered(g, k) ==
  [w \in Sources(g) |-> IF First(g, w) < k THEN Cardinality(Firsts(g, First(g, w))) ELSE Unset]

(* One more vertex begins a component or does not.                         *)
LEMMA FirstsOK ==
  ASSUME NEW g, GraphOK(g), ~g.directed, NEW v \in Sources(g)
  PROVE  /\ IsFiniteSet(Firsts(g, v)) /\ Cardinality(Firsts(g, v)) \in Nat
         /\ Firsts(g, v + 1) = Firsts(g, v) \cup {First(g, v)}
         /\ First(g, v) < v => First(g, v) \in Firsts(g, v)
         /\ First(g, v) = v => v \notin Firsts(g, v)
<1>1. v \in Nat /\ Sources(g) \in SUBSET Nat /\ \A x \in 0 .. v - 1 : x \in Sources(g)
  BY ArcsOK
<1>2. IsFiniteSet(Firsts(g, v))
  <2>. DEFINE h == [x \in 0 .. v - 1 |-> First(g, x)]
              S == 0 .. v - 1
  <2>1. Firsts(g, v) = {h[x] : x \in S} /\ DOMAIN h = S
    BY DEF Firsts
  <2>2. IsFiniteSet(S)
    BY <1>1, FS_Interval
  <2>. HIDE DEF h, S
  <2>. QED  BY <2>1, <2>2, ImageFinite
<1>3. Firsts(g, v + 1) = Firsts(g, v) \cup {First(g, v)}
  <2>1. 0 .. (v + 1) - 1 = (0 .. v - 1) \cup {v}
    BY <1>1
  <2>. QED  BY <2>1 DEF Firsts
<1>4. First(g, v) \in Nat /\ First(g, v) <= v /\ First(g, First(g, v)) = First(g, v)
  BY FirstOf
<1>5. First(g, v) < v => First(g, v) \in Firsts(g, v)
  <2>1. First(g, v) < v => First(g, v) \in 0 .. v - 1
    BY <1>1, <1>4
  <2>. QED  BY <1>4, <2>1 DEF Firsts
<1>6. First(g, v) = v => v \notin Firsts(g, v)
  <2>1. \A x \in 0 .. v - 1 : First(g, x) \in Nat /\ First(g, x) <= x
    BY <1>1, FirstOf
  <2>2. \A x \in 0 .. v - 1 : First(g, x) # v
    BY <1>1, <2>1
  <2>. QED  BY <2>2 DEF Firsts
<1>. QED  BY <1>2, <1>3, <1>5, <1>6, FS_CardinalityType

(* The states of the numbering, its last and its run.                      *)
ComponentStates(g) == [labels : [Sources(g) -> Nat \cup {Unset}], id : Nat]

Numerals(g) == [k \in 1 .. Cardinality(DOMAIN Built(g).out) |-> k]

ComponentsEnd(g) ==
  FoldLeft(LAMBDA here, k : NextComponent(Built(g), here, k - 1), [labels |-> Unlabelled(Built(g)), id |-> 0], Numerals(g))

IsNumbering(g, f) ==
  /\ f \in [0 .. VertexCount(g) -> ComponentStates(g)]
  /\ f[0] = [labels |-> Unlabelled(Built(g)), id |-> 0]
  /\ \A k \in 1 .. VertexCount(g) : f[k] = NextComponent(Built(g), f[k - 1], Numerals(g)[k] - 1)

(* The numbering has such a run.                                           *)
LEMMA ComponentRuns ==
  ASSUME NEW g, GraphOK(g)
  PROVE  \E f : IsNumbering(g, f) /\ f[VertexCount(g)] = ComponentsEnd(g)
<1>. DEFINE n == VertexCount(g)
            Step(k, a) == NextComponent(Built(g), a, Numerals(g)[k] - 1)
            D == ComponentStates(g)
            base == [labels |-> Unlabelled(Built(g)), id |-> 0]
<1>1. n \in Nat /\ DOMAIN Numerals(g) = 1 .. n /\ \A k \in 1 .. n : Numerals(g)[k] = k
  BY ArcsOK, BuiltOK DEF Numerals
<1>2. ASSUME NEW k \in 1 .. n, NEW a \in D PROVE Step(k, a) \in D
  <2>0. n = VertexCount(g) /\ Numerals(g)[k] - 1 = k - 1
    BY <1>1
  <2>1. k - 1 \in Sources(g) /\ a.labels \in [Sources(g) -> Nat \cup {Unset}] /\ a.id \in Nat /\ 0 \in Nat
    BY <2>0, ArcsOK DEF ComponentStates
  <2>2. CASE a.labels[k - 1] # Unset
    BY <2>0, <2>2 DEF NextComponent
  <2>3. CASE a.labels[k - 1] = Unset
    <3>1. PICK v \in Sources(g) : v = k - 1
      BY <2>1
    <3>2. Flood(Built(g), a.labels, v, a.id, 0) \in [Sources(g) -> Nat \cup {Unset}]
      <4>1. PICK old \in [Sources(g) -> Nat \cup {Unset}], id \in Nat : old = a.labels /\ id = a.id
        BY <2>1
      <4>2. old[v] = Unset
        BY <2>3, <3>1, <4>1
      <4>3. Flood(Built(g), old, v, id, 0) \in [Sources(g) -> Nat \cup {Unset}]
        BY <2>1, <4>2, FloodTyped
      <4>. QED  BY <4>1, <4>3
    <3>3. NextComponent(Built(g), a, k - 1) = [labels |-> Flood(Built(g), a.labels, v, a.id, 0), id |-> a.id + 1]
      BY <2>3, <3>1 DEF NextComponent
    <3>4. a.id + 1 \in Nat
      BY <2>1
    <3>. QED  BY <2>0, <3>2, <3>3, <3>4 DEF ComponentStates
  <2>. QED  BY <2>2, <2>3
<1>3. base \in D
  <2>1. Unlabelled(Built(g)) \in [Sources(g) -> Nat \cup {Unset}]
    BY BuiltOK DEF Unlabelled
  <2>. QED  BY <2>1 DEF ComponentStates
<1>. HIDE DEF n, Step, D
<1>. DEFINE step == [p \in (1 .. n) \X D |-> Step(p[1], p[2])]
<1>4. IsStep(step, n, D)
  BY <1>2 DEF IsStep
<1>5. PICK iter : Iterates(iter, n, D, base, step)
  <2>. HIDE DEF step, base
  <2>. QED  BY <1>1, <1>3, <1>4, IterationExists
<1>6. \A T \in SUBSET (1 .. n) : T # {} => Max(T) \in T
  BY <1>1, MaxIn
<1>7. iter = [T \in SUBSET (1 .. n) |-> IF T = {} THEN base ELSE Step(Max(T), iter[T \ {Max(T)}])]
  <2>1. ASSUME NEW T \in SUBSET (1 .. n), T # {}
        PROVE  step[<<Max(T), iter[T \ {Max(T)}]>>] = Step(Max(T), iter[T \ {Max(T)}])
    BY <1>5, <1>6, <2>1 DEF Iterates
  <2>. HIDE DEF step, base
  <2>. QED  BY <1>5, <2>1 DEF Iterates
<1>. DEFINE it == CHOOSE h : h = [T \in SUBSET (1 .. n) |-> IF T = {} THEN base ELSE Step(Max(T), h[T \ {Max(T)}])]
<1>8. it = [T \in SUBSET (1 .. n) |-> IF T = {} THEN base ELSE Step(Max(T), it[T \ {Max(T)}])]
  <2>. HIDE DEF base
  <2>. QED  BY <1>7
<1>9. ComponentsEnd(g) = it[1 .. n]
  BY <1>1 DEF ComponentsEnd, FoldLeft, MapThenFoldSet, Step
<1>. HIDE DEF it, base
<1>10. Unfolds(it, n, D, base, step)
  <2>1. it[{}] = base
    BY <1>8
  <2>2. ASSUME NEW T \in SUBSET (1 .. n), T # {}, it[T \ {Max(T)}] \in D
        PROVE  it[T] = step[<<Max(T), it[T \ {Max(T)}]>>]
    <3>1. it[T] = Step(Max(T), it[T \ {Max(T)}])
      BY <1>8, <2>2
    <3>. QED  BY <1>6, <2>2, <3>1
  <2>. HIDE DEF step
  <2>. QED  BY <2>1, <2>2 DEF Unfolds
<1>11. PICK f : IsRun(f, n, D, base, step) /\ f[n] = it[1 .. n]
  <2>. HIDE DEF step
  <2>. QED  BY <1>1, <1>3, <1>4, <1>10, FoldRuns
<1>12. ASSUME NEW k \in 1 .. n PROVE f[k] = Step(k, f[k - 1])
  <2>1. k - 1 \in 0 .. n
    BY <1>1
  <2>2. f[k - 1] \in D /\ f[k] = step[<<k, f[k - 1]>>]
    BY <1>11, <2>1 DEF IsRun
  <2>. QED  BY <2>2
<1>. QED  BY <1>9, <1>11, <1>12 DEF IsNumbering, IsRun, n, Step, D, base
(* Each vertex leaves its component numbered.                              *)
LEMMA ComponentStep ==
  ASSUME NEW g, GraphOK(g), ~g.directed, NEW v \in Sources(g), NEW here,
         here = [labels |-> Numbered(g, v), id |-> Cardinality(Firsts(g, v))]
  PROVE  NextComponent(Built(g), here, v) = [labels |-> Numbered(g, v + 1), id |-> Cardinality(Firsts(g, v + 1))]
<1>. DEFINE V == Sources(g)
            labels == Numbered(g, v)
            id == Cardinality(Firsts(g, v))
<1>1. v \in Nat /\ V \in SUBSET Nat
  BY ArcsOK
<1>2. \A w \in V : First(g, w) \in V /\ First(g, w) \in Nat /\ First(g, w) <= w /\ First(g, First(g, w)) = First(g, w)
  BY FirstOf
<1>3. \A w \in V : Cardinality(Firsts(g, First(g, w))) \in Nat
  BY <1>2, FirstsOK
<1>4. /\ IsFiniteSet(Firsts(g, v)) /\ id \in Nat /\ Firsts(g, v + 1) = Firsts(g, v) \cup {First(g, v)}
      /\ First(g, v) < v => First(g, v) \in Firsts(g, v)
      /\ First(g, v) = v => v \notin Firsts(g, v)
  BY FirstsOK
<1>5. labels \in [V -> Nat \cup {Unset}] /\ \A w \in V : labels[w] = IF First(g, w) < v THEN Cardinality(Firsts(g, First(g, w))) ELSE Unset
  BY <1>3 DEF Numbered
<1>6. \A w \in V : labels[w] = Unset <=> ~(First(g, w) < v)
  BY <1>3, <1>5 DEF Unset
<1>7. here.labels = labels /\ here.id = id
  OBVIOUS
<1>. HIDE DEF V, labels, id
<1>8. v \in V
  BY DEF V
<1>9. CASE First(g, v) < v
  <2>1. \A w \in V : First(g, w) # v
    BY <1>1, <1>2, <1>8, <1>9
  <2>2. \A w \in V : First(g, w) < v + 1 <=> First(g, w) < v
    BY <1>1, <1>2, <2>1
  <2>3. Numbered(g, v + 1) = labels
    BY <2>2 DEF Numbered, labels, V
  <2>4. Firsts(g, v + 1) = Firsts(g, v)
    BY <1>4, <1>9
  <2>5. NextComponent(Built(g), here, v) = here
    BY <1>6, <1>7, <1>8, <1>9 DEF NextComponent
  <2>. QED  BY <2>3, <2>4, <2>5 DEF labels
<1>10. CASE First(g, v) = v
  <2>. DEFINE L == Flood(Built(g), labels, v, id, 0)
              R == {w \in V : labels[w] = Unset /\ L[w] # Unset}
              C == Component(g, v)
  <2>1. labels[v] = Unset /\ 0 \in Nat
    BY <1>1, <1>6, <1>8, <1>10
  <2>2. NextComponent(Built(g), here, v) = [labels |-> L, id |-> id + 1]
    BY <1>7, <2>1 DEF NextComponent
  <2>3. /\ L \in [V -> Nat \cup {Unset}]
        /\ \A w \in V : labels[w] # Unset => L[w] = labels[w]
        /\ v \in R /\ R \subseteq C
        /\ \A u \in R : \A w \in Successors(g, u) : L[w] # Unset
        /\ \A w \in R : L[w] = id
    <3>1. PICK l : l = L
      OBVIOUS
    <3>2. PICK r : r = {w \in Sources(g) : labels[w] = Unset /\ l[w] # Unset}
      OBVIOUS
    <3>3. r = R
      BY <3>1, <3>2 DEF V
    <3>4. l = Flood(Built(g), labels, v, id, 0)
      BY <3>1
    <3>. HIDE DEF L, R
    <3>5. /\ l \in [Sources(g) -> Nat \cup {Unset}]
          /\ \A w \in Sources(g) : labels[w] # Unset => l[w] = labels[w]
          /\ v \in r /\ r \subseteq Ball(g, v, VertexCount(g))
          /\ \A u \in r : \A w \in Successors(g, u) : l[w] # Unset
          /\ 0 = 0 => \A w \in r : l[w] = id
      BY <1>4, <1>5, <2>1, <3>2, <3>4, FloodResult DEF V
    <3>. QED  BY <3>1, <3>3, <3>5 DEF V, Component
  <2>. HIDE DEF L, C
  <2>4. \A w \in V : w \in C <=> First(g, w) = v
    BY <1>8, <1>10, FirstOf DEF V, C
  <2>5. C \subseteq R
    <3>1. ASSUME NEW u \in R, NEW w, <<u, w>> \in Expanded(g) PROVE w \in R
      <4>1. w \in C /\ w \in V /\ \A e \in Expanded(g) : e[2] \in V
        <5>1. /\ C \in SUBSET V
              /\ \A x, y : x \in C /\ <<x, y>> \in Expanded(g) => y \in C
          BY ComponentClosed DEF C, V
        <5>2. u \in C
          BY <2>3
        <5>3. w \in C
          BY <3>1, <5>1, <5>2
        <5>. QED  BY <5>1, <5>3, ArcsOK DEF V
      <4>2. w \in Successors(g, u)
        BY <3>1, <4>1 DEF Successors, V
      <4>3. labels[w] = Unset
        <5>1. First(g, w) = v /\ ~(v < v)
          BY <1>1, <2>4, <4>1
        <5>. QED  BY <1>6, <4>1, <5>1
      <4>. QED  BY <2>3, <4>1, <4>2, <4>3
    <3>2. v \in R /\ VertexCount(g) \in Nat
      BY <2>3, ArcsOK
    <3>. HIDE DEF R
    <3>. QED  BY <3>1, <3>2, BallClosed DEF C, Component
  <2>6. \A w \in V : L[w] = IF First(g, w) < v + 1 THEN Cardinality(Firsts(g, First(g, w))) ELSE Unset
    <3>. SUFFICES ASSUME NEW w \in V
                  PROVE  L[w] = IF First(g, w) < v + 1 THEN Cardinality(Firsts(g, First(g, w))) ELSE Unset
      OBVIOUS
    <3>1. CASE w \in C
      <4>1. L[w] = id /\ First(g, w) = v
        BY <2>3, <2>4, <2>5, <3>1
      <4>2. v < v + 1
        BY <1>1
      <4>. QED  BY <4>1, <4>2 DEF id
    <3>2. CASE w \notin C
      <4>1. First(g, w) # v /\ w \notin R
        BY <2>3, <2>4, <3>2
      <4>2. First(g, w) < v + 1 <=> First(g, w) < v
        BY <1>1, <1>2, <4>1
      <4>3. L[w] = labels[w]
        BY <2>3, <4>1
      <4>. QED  BY <1>5, <4>2, <4>3
    <3>. QED  BY <3>1, <3>2
  <2>7. Numbered(g, v + 1) = L
    BY <2>3, <2>6 DEF Numbered, V
  <2>8. Cardinality(Firsts(g, v + 1)) = id + 1
    BY <1>4, <1>10, FS_AddElement DEF id
  <2>. QED  BY <2>2, <2>7, <2>8
<1>. QED  BY <1>1, <1>2, <1>8, <1>9, <1>10

(* Components are numbered in the order of their first vertices.           *)
LEMMA ComponentsExact ==
  ASSUME NEW g, GraphOK(g), ~g.directed
  PROVE  ConnectedComponents(Built(g)) = [v \in Sources(g) |-> Cardinality(Firsts(g, First(g, v)))]
<1>. DEFINE n == VertexCount(g)
            Numbers(k) == [labels |-> Numbered(g, k), id |-> Cardinality(Firsts(g, k))]
<1>1. PICK f : IsNumbering(g, f) /\ f[n] = ComponentsEnd(g)
  BY ComponentRuns
<1>. DEFINE G == {k \in 0 .. n : f[k] = Numbers(k)}
<1>2. n \in Nat /\ Sources(g) = 0 .. n - 1 /\ DOMAIN Built(g).out = Sources(g)
  BY ArcsOK, BuiltOK
<1>3. \A w \in Sources(g) : First(g, w) \in Sources(g) /\ First(g, w) \in Nat /\ First(g, w) < n
  BY <1>2, FirstOf
<1>4. 0 \in G
  <2>1. \A w \in Sources(g) : ~(First(g, w) < 0)
    BY <1>3
  <2>2. Unlabelled(Built(g)) = Numbered(g, 0)
    BY <1>2, <2>1 DEF Unlabelled, Numbered
  <2>3. 0 .. 0 - 1 = {}
    OBVIOUS
  <2>4. Cardinality(Firsts(g, 0)) = 0
    BY <2>3, FS_EmptySet DEF Firsts
  <2>5. f[0] = Numbers(0)
    BY <1>1, <2>2, <2>4 DEF IsNumbering
  <2>. QED  BY <1>2, <2>5
<1>5. ASSUME NEW k \in 1 .. n, k - 1 \in G PROVE k \in G
  <2>1. k - 1 \in Sources(g) /\ (k - 1) + 1 = k /\ k \in 0 .. n
    BY <1>2
  <2>2. f[k] = NextComponent(Built(g), f[k - 1], k - 1)
    <3>1. Numerals(g)[k] = k
      BY <1>2, ArcsOK DEF Numerals
    <3>. QED  BY <1>1, <3>1 DEF IsNumbering
  <2>3. f[k - 1] = [labels |-> Numbered(g, k - 1), id |-> Cardinality(Firsts(g, k - 1))]
    BY <1>5
  <2>4. NextComponent(Built(g), f[k - 1], k - 1)
          = [labels |-> Numbered(g, (k - 1) + 1), id |-> Cardinality(Firsts(g, (k - 1) + 1))]
    <3>. HIDE DEF G, n, Numbers
    <3>. QED  BY <2>1, <2>3, ComponentStep
  <2>. QED  BY <2>1, <2>2, <2>4
<1>6. f[n] = Numbers(n)
  <2>1. 0 .. n \subseteq G
    <3>. HIDE DEF G, n
    <3>. QED  BY <1>2, <1>4, <1>5, AllNumbers
  <2>2. n \in 0 .. n
    BY <1>2
  <2>. QED  BY <2>1, <2>2
<1>7. ConnectedComponents(Built(g)) = f[n].labels
  BY <1>1 DEF ConnectedComponents, ComponentsEnd, Numerals
<1>8. f[n].labels = Numbered(g, n)
  BY <1>6
<1>. QED  BY <1>3, <1>7, <1>8 DEF Numbered
-----------------------------------------------------------------------------
(* Triangles: each is found on its two lower vertices' arc.                *)
Above(csr, u, v) == Members(csr.out[u], {w \in DOMAIN csr.out : w > v})

(* The third corners, in the model and as a set.                           *)
Corners(csr, e) == ScalarIntersection(Above(csr, e[1], e[2]), Above(csr, e[2], e[2]))

Upward(csr) == {e \in (DOMAIN csr.out) \X (DOMAIN csr.out) : e[1] < e[2] /\ Contains(csr.out[e[1]], e[2])}

UpArcs(g) == {e \in Expanded(g) : e[1] < e[2]}

Thirds(g, e) == {w \in Sources(g) : w > e[2] /\ <<e[1], w>> \in Expanded(g) /\ <<e[2], w>> \in Expanded(g)}

TrianglesOn(g, T) == UNION {{{e[1], e[2], w} : w \in Thirds(g, e)} : e \in T}

(* The merge above an arc counts its triangles.                            *)
LEMMA CornersOK ==
  ASSUME NEW g, GraphOK(g)
  PROVE  /\ Upward(Built(g)) = UpArcs(g)
         /\ \A e \in UpArcs(g) : Corners(Built(g), e) = Cardinality(Thirds(g, e))
<1>. DEFINE V == Sources(g)
            out == Built(g).out
<1>1. /\ Expanded(g) \in SUBSET (V \X V) /\ V \in SUBSET Nat
      /\ DOMAIN out = V
      /\ \A v \in V : Ascending(out[v]) /\ ToSet(out[v]) = Successors(g, v)
  BY ArcsOK, BuiltOK
<1>2. \A v, w : w \in Successors(g, v) <=> w \in V /\ <<v, w>> \in Expanded(g)
  BY DEF Successors
<1>3. Upward(Built(g)) = {e \in V \X V : e[1] < e[2] /\ Contains(out[e[1]], e[2])}
  BY <1>1 DEF Upward
<1>4. \A u, v \in V : Above(Built(g), u, v) = Members(out[u], {w \in V : w > v})
  BY <1>1 DEF Above
<1>. HIDE DEF V, out
<1>5. ASSUME NEW e \in V \X V PROVE Contains(out[e[1]], e[2]) <=> e \in Expanded(g)
  <2>1. e[1] \in V /\ e[2] \in V /\ e = <<e[1], e[2]>>
    OBVIOUS
  <2>2. DOMAIN out[e[1]] = 1 .. Len(out[e[1]])
    BY <1>1, <2>1, AscendingFacts
  <2>3. Contains(out[e[1]], e[2]) <=> e[2] \in ToSet(out[e[1]])
    BY <2>2 DEF Contains, ToSet
  <2>4. e[2] \in ToSet(out[e[1]]) <=> <<e[1], e[2]>> \in Expanded(g)
    <3>1. ToSet(out[e[1]]) = Successors(g, e[1])
      BY <1>1, <2>1
    <3>. QED  BY <1>2, <2>1, <3>1
  <2>. QED  BY <2>1, <2>3, <2>4
<1>6. Upward(Built(g)) = UpArcs(g)
  BY <1>1, <1>3, <1>5 DEF UpArcs
<1>7. ASSUME NEW e \in UpArcs(g) PROVE Corners(Built(g), e) = Cardinality(Thirds(g, e))
  <2>1. e[1] \in V /\ e[2] \in V
    BY <1>1 DEF UpArcs
  <2>. DEFINE a == Members(out[e[1]], {w \in V : w > e[2]})
              b == Members(out[e[2]], {w \in V : w > e[2]})
  <2>2. Corners(Built(g), e) = ScalarIntersection(a, b)
    BY <1>4, <2>1 DEF Corners
  <2>3. /\ Ascending(a) /\ ToSet(a) = Successors(g, e[1]) \cap {w \in V : w > e[2]}
        /\ Ascending(b) /\ ToSet(b) = Successors(g, e[2]) \cap {w \in V : w > e[2]}
    BY <1>1, <2>1, MembersAscend
  <2>. HIDE DEF a, b
  <2>4. ToSet(a) \cap ToSet(b) = Thirds(g, e)
    BY <1>2, <2>3 DEF Thirds, V
  <2>. QED  BY <2>2, <2>3, <2>4, MergeCounts
<1>. QED  BY <1>6, <1>7

(* Three ascending numbers are told by their set.                          *)
LEMMA TripleEq ==
  ASSUME NEW a \in Nat, NEW b \in Nat, NEW c \in Nat, a < b, b < c,
         NEW x \in Nat, NEW y \in Nat, NEW z \in Nat, x < y, y < z, {a, b, c} = {x, y, z}
  PROVE  a = x /\ b = y /\ c = z
<1>1. /\ a = x \/ a = y \/ a = z
      /\ b = x \/ b = y \/ b = z
      /\ c = x \/ c = y \/ c = z
      /\ x = a \/ x = b \/ x = c
  OBVIOUS
<1>. QED  BY <1>1

(* Three things make a set of three.                                       *)
LEMMA TripleCount ==
  ASSUME NEW a, NEW b, NEW c, a # b, b # c, a # c
  PROVE  Cardinality({a, b, c}) = 3
<1>1. IsFiniteSet({a}) /\ Cardinality({a}) = 1
  BY FS_Singleton
<1>2. IsFiniteSet({a} \cup {b}) /\ Cardinality({a} \cup {b}) = 2
  BY <1>1, FS_AddElement
<1>3. Cardinality(({a} \cup {b}) \cup {c}) = 3
  BY <1>2, FS_AddElement
<1>4. ({a} \cup {b}) \cup {c} = {a, b, c}
  OBVIOUS
<1>. QED  BY <1>3, <1>4

(* The corners of a triangle ascend.                                       *)
LEMMA ThirdsOK ==
  ASSUME NEW g, GraphOK(g), NEW e \in UpArcs(g)
  PROVE  /\ e = <<e[1], e[2]>> /\ e[1] \in Nat /\ e[2] \in Nat /\ e[1] \in Sources(g) /\ e[2] \in Sources(g) /\ e[1] < e[2]
         /\ IsFiniteSet(Thirds(g, e)) /\ Cardinality(Thirds(g, e)) \in Nat
         /\ \A w \in Thirds(g, e) : w \in Nat /\ w \in Sources(g) /\ e[2] < w
<1>1. /\ Expanded(g) \in SUBSET (Sources(g) \X Sources(g)) /\ Sources(g) \in SUBSET Nat /\ IsFiniteSet(Sources(g))
  BY ArcsOK
<1>2. Thirds(g, e) \in SUBSET Sources(g)
  BY DEF Thirds
<1>3. IsFiniteSet(Thirds(g, e)) /\ Cardinality(Thirds(g, e)) \in Nat
  BY <1>1, <1>2, FS_Subset, FS_CardinalityType
<1>. QED  BY <1>1, <1>3 DEF UpArcs, Thirds

(* One more arc adds its own triangles.                                    *)
LEMMA TrianglesAdd ==
  ASSUME NEW g, GraphOK(g), NEW T \in SUBSET UpArcs(g), NEW x \in T
  PROVE  Cardinality(TrianglesOn(g, T)) = Cardinality(Thirds(g, x)) + Cardinality(TrianglesOn(g, T \ {x}))
<1>. DEFINE V == Sources(g)
            S == {{x[1], x[2], w} : w \in Thirds(g, x)}
            Q == TrianglesOn(g, T \ {x})
            h == [w \in Thirds(g, x) |-> {x[1], x[2], w}]
<1>1. TrianglesOn(g, T) = S \cup Q
  BY DEF TrianglesOn
<1>2. \A t \in Q : \E e \in T \ {x} : \E w \in Thirds(g, e) : t = {e[1], e[2], w}
  BY DEF TrianglesOn
<1>3. \A e \in UpArcs(g) : /\ e = <<e[1], e[2]>> /\ e[1] \in Nat /\ e[2] \in Nat /\ e[1] \in V /\ e[2] \in V /\ e[1] < e[2]
                           /\ \A w \in Thirds(g, e) : w \in Nat /\ w \in V /\ e[2] < w
  BY ThirdsOK
<1>4. IsFiniteSet(Thirds(g, x))
  BY ThirdsOK
<1>5. IsFiniteSet(SUBSET V)
  BY ArcsOK, FS_SUBSET
<1>6. \A w \in Thirds(g, x) : h[w] = {x[1], x[2], w} /\ h[w] \in S
  OBVIOUS
<1>7. h \in [Thirds(g, x) -> S] /\ \A t \in S : \E w \in Thirds(g, x) : h[w] = t
  OBVIOUS
<1>8. \A t \in S : \E w \in Thirds(g, x) : t = {x[1], x[2], w}
  OBVIOUS
<1>. HIDE DEF V, S, Q, h
<1>9. ASSUME NEW w \in Thirds(g, x), NEW z \in Thirds(g, x), h[w] = h[z] PROVE w = z
  <2>1. {x[1], x[2], w} = {x[1], x[2], z}
    BY <1>6, <1>9
  <2>. QED  BY <1>3, <2>1, TripleEq
<1>10. h \in Bijection(Thirds(g, x), S)
  BY <1>7, <1>9 DEF Bijection, Injection, IsInjective, Surjection
<1>11. IsFiniteSet(S) /\ Cardinality(S) = Cardinality(Thirds(g, x))
  BY <1>4, <1>10, FS_Bijection DEF ExistsBijection
<1>12. IsFiniteSet(Q)
  <2>1. Q \in SUBSET (SUBSET V)
    BY <1>2, <1>3
  <2>. QED  BY <1>5, <2>1, FS_Subset
<1>13. S \cap Q = {}
  <2>. SUFFICES ASSUME NEW t \in S, t \in Q PROVE FALSE
    OBVIOUS
  <2>1. PICK w \in Thirds(g, x) : t = {x[1], x[2], w}
    BY <1>8
  <2>2. PICK e \in T \ {x} : \E z \in Thirds(g, e) : t = {e[1], e[2], z}
    BY <1>2
  <2>3. PICK z \in Thirds(g, e) : t = {e[1], e[2], z}
    BY <2>2
  <2>4. x[1] = e[1] /\ x[2] = e[2]
    <3>1. x[1] \in Nat /\ x[2] \in Nat /\ w \in Nat /\ x[1] < x[2] /\ x[2] < w
      BY <1>3
    <3>2. e[1] \in Nat /\ e[2] \in Nat /\ z \in Nat /\ e[1] < e[2] /\ e[2] < z
      BY <1>3
    <3>3. {x[1], x[2], w} = {e[1], e[2], z}
      BY <2>1, <2>3
    <3>4. PICK a \in Nat, b \in Nat, p \in Nat, q \in Nat : a = x[1] /\ b = x[2] /\ p = e[1] /\ q = e[2]
      BY <3>1, <3>2
    <3>5. a < b /\ b < w /\ p < q /\ q < z /\ {a, b, w} = {p, q, z}
      BY <3>1, <3>2, <3>3, <3>4
    <3>6. a = p /\ b = q
      <4>1. w \in Nat /\ z \in Nat
        BY <3>1, <3>2
      <4>2. \A l \in {a, b, w} : l \in {p, q, z}
        BY <3>5
      <4>3. \A l \in {p, q, z} : l \in {a, b, w}
        BY <3>5
      <4>. QED  BY <3>5, <4>1, <4>2, <4>3
    <3>. QED  BY <3>4, <3>6
  <2>. QED  BY <1>3, <2>4
<1>14. Cardinality({}) = 0 /\ Cardinality(S) \in Nat /\ Cardinality(Q) \in Nat
  BY <1>11, <1>12, FS_EmptySet, FS_CardinalityType
<1>15. Cardinality(S \cup Q) = Cardinality(S) + Cardinality(Q)
  <2>1. Cardinality(S \cup Q) = Cardinality(S) + Cardinality(Q) - Cardinality(S \cap Q)
    BY <1>11, <1>12, FS_Union
  <2>2. Cardinality(S \cap Q) = 0
    BY <1>13, <1>14
  <2>. QED  BY <1>14, <2>1, <2>2
<1>. QED  BY <1>1, <1>11, <1>15 DEF Q

(* The sum over the arcs counts the triangles.                             *)
LEMMA TriangleSum ==
  ASSUME NEW g, GraphOK(g)
  PROVE  TriangleCount(Built(g)) = Cardinality(TrianglesOn(g, UpArcs(g)))
<1>. DEFINE U == Upward(Built(g))
            Count(e) == Corners(Built(g), e)
            total == [T \in SUBSET U |-> Cardinality(TrianglesOn(g, T))]
            it == CHOOSE h : h = [T \in SUBSET U |-> IF T = {} THEN 0
                                                    ELSE Count(CHOOSE e \in T : TRUE) + h[T \ {CHOOSE e \in T : TRUE}]]
<1>1. U = UpArcs(g) /\ \A e \in UpArcs(g) : Count(e) = Cardinality(Thirds(g, e))
  BY CornersOK
<1>2. TriangleCount(Built(g)) = it[U]
  BY DEF TriangleCount, MapThenSumSet, MapThenFoldSet, Corners, Above, Upward
<1>3. total = [T \in SUBSET U |-> IF T = {} THEN 0
                                 ELSE Count(CHOOSE e \in T : TRUE) + total[T \ {CHOOSE e \in T : TRUE}]]
  <2>. HIDE DEF U, Count
  <2>1. total[{}] = 0
    <3>1. TrianglesOn(g, {}) = {}
      BY DEF TrianglesOn
    <3>. QED  BY <3>1, FS_EmptySet
  <2>2. ASSUME NEW T \in SUBSET U, T # {}
        PROVE  total[T] = Count(CHOOSE e \in T : TRUE) + total[T \ {CHOOSE e \in T : TRUE}]
    <3>1. PICK x : x = CHOOSE e \in T : TRUE
      OBVIOUS
    <3>2. x \in T /\ T \in SUBSET UpArcs(g)
      BY <1>1, <2>2, <3>1
    <3>3. T \ {x} \in SUBSET U
      OBVIOUS
    <3>4. total[T] = Count(x) + total[T \ {x}]
      BY <1>1, <3>2, <3>3, TrianglesAdd
    <3>. QED  BY <3>1, <3>4
  <2>. QED  BY <2>1, <2>2
<1>4. it = [T \in SUBSET U |-> IF T = {} THEN 0
                              ELSE Count(CHOOSE e \in T : TRUE) + it[T \ {CHOOSE e \in T : TRUE}]]
  <2>. HIDE DEF U, Count, total
  <2>. QED  BY <1>3
<1>. HIDE DEF it, total, U, Count
<1>5. IsFiniteSet(U)
  <2>1. U \in SUBSET Expanded(g) /\ IsFiniteSet(Expanded(g))
    BY <1>1, ArcsOK DEF UpArcs
  <2>. QED  BY <2>1, FS_Subset
<1>6. PICK n \in Nat : n = Cardinality(U)
  BY <1>5, FS_CardinalityType
<1>. DEFINE G == {k \in 0 .. n : \A T \in SUBSET U : Cardinality(T) = k => it[T] = total[T]}
<1>7. 0 \in G
  <2>1. ASSUME NEW T \in SUBSET U, Cardinality(T) = 0 PROVE it[T] = total[T]
    <3>1. T = {}
      BY <1>5, <2>1, FS_Subset, FS_EmptySet
    <3>. QED  BY <1>3, <1>4, <3>1
  <2>. QED  BY <2>1
<1>8. ASSUME NEW k \in 1 .. n, k - 1 \in G PROVE k \in G
  <2>1. ASSUME NEW T \in SUBSET U, Cardinality(T) = k PROVE it[T] = total[T]
    <3>1. T # {} /\ IsFiniteSet(T)
      BY <1>5, <2>1, FS_Subset, FS_EmptySet
    <3>2. PICK x : x = CHOOSE e \in T : TRUE
      OBVIOUS
    <3>3. x \in T
      BY <3>1, <3>2
    <3>4. T \ {x} \in SUBSET U /\ Cardinality(T \ {x}) = k - 1
      BY <2>1, <3>1, <3>3, FS_RemoveElement
    <3>5. it[T \ {x}] = total[T \ {x}]
      BY <1>8, <3>4
    <3>6. it[T] = Count(x) + it[T \ {x}]
      BY <1>4, <3>1, <3>2
    <3>7. total[T] = Count(x) + total[T \ {x}]
      BY <1>3, <3>1, <3>2
    <3>. QED  BY <3>5, <3>6, <3>7
  <2>. QED  BY <2>1
<1>9. it[U] = total[U]
  <2>1. n \in 0 .. n /\ U \in SUBSET U
    OBVIOUS
  <2>2. 0 .. n \subseteq G
    <3>. HIDE DEF G
    <3>. QED  BY <1>7, <1>8, AllNumbers
  <2>. QED  BY <1>6, <2>1, <2>2
<1>10. total[U] = Cardinality(TrianglesOn(g, U))
  BY DEF total
<1>. QED  BY <1>1, <1>2, <1>9, <1>10

(* The triangles on upward arcs are the sets of three that are all joined. *)
LEMMA TrianglesExact ==
  ASSUME NEW g, GraphOK(g), ~g.directed
  PROVE  TrianglesOn(g, UpArcs(g))
           = {t \in SUBSET Sources(g) : Cardinality(t) = 3 /\ \A u \in t : t \ {u} \subseteq Successors(g, u)}
<1>. DEFINE V == Sources(g)
            Cliques == {t \in SUBSET V : Cardinality(t) = 3 /\ \A u \in t : t \ {u} \subseteq Successors(g, u)}
<1>1. V \in SUBSET Nat /\ IsFiniteSet(V) /\ \A u, v : <<u, v>> \in Expanded(g) => <<v, u>> \in Expanded(g)
  BY ArcsOK
<1>2. \A v, w : w \in Successors(g, v) <=> w \in V /\ <<v, w>> \in Expanded(g)
  BY DEF Successors
<1>3. ASSUME NEW t \in TrianglesOn(g, UpArcs(g)) PROVE t \in Cliques
  <2>0. PICK e \in UpArcs(g) : \E w \in Thirds(g, e) : t = {e[1], e[2], w}
    BY DEF TrianglesOn
  <2>1. PICK w \in Thirds(g, e) : t = {e[1], e[2], w}
    BY <2>0
  <2>2. e = <<e[1], e[2]>> /\ e[1] \in V /\ e[2] \in V /\ w \in V /\ e[1] # e[2] /\ e[2] # w /\ e[1] # w
    BY ThirdsOK
  <2>3. <<e[1], e[2]>> \in Expanded(g) /\ <<e[1], w>> \in Expanded(g) /\ <<e[2], w>> \in Expanded(g)
    BY <2>2 DEF UpArcs, Thirds
  <2>4. Cardinality(t) = 3
    BY <2>1, <2>2, TripleCount
  <2>5. \A u \in t : t \ {u} \subseteq Successors(g, u)
    <3>. HIDE DEF V
    <3>1. ASSUME NEW u \in t, NEW v \in t, v # u PROVE <<u, v>> \in Expanded(g) /\ v \in V
      <4>1. /\ u = e[1] \/ u = e[2] \/ u = w
            /\ v = e[1] \/ v = e[2] \/ v = w
        BY <2>1
      <4>2. <<e[2], e[1]>> \in Expanded(g) /\ <<w, e[1]>> \in Expanded(g) /\ <<w, e[2]>> \in Expanded(g)
        BY <1>1, <2>3
      <4>. QED  BY <2>2, <2>3, <3>1, <4>1, <4>2
    <3>. QED  BY <1>2, <3>1
  <2>. QED  BY <2>1, <2>2, <2>4, <2>5
<1>4. ASSUME NEW t \in Cliques PROVE t \in TrianglesOn(g, UpArcs(g))
  <2>1. t \in SUBSET V /\ Cardinality(t) = 3 /\ IsFiniteSet(t)
    BY <1>1, FS_Subset
  <2>2. PICK f : f \in Bijection(1 .. 3, t)
    BY <2>1, FS_CardinalityType DEF ExistsBijection
  <2>3. f \in [1 .. 3 -> t] /\ (\A i, j \in 1 .. 3 : f[i] = f[j] => i = j) /\ \A x \in t : \E i \in 1 .. 3 : f[i] = x
    BY <2>2 DEF Bijection, Injection, IsInjective, Surjection
  <2>4. 1 .. 3 = {1, 2, 3}
    OBVIOUS
  <2>5. f[1] \in Nat /\ f[2] \in Nat /\ f[3] \in Nat /\ f[1] # f[2] /\ f[1] # f[3] /\ f[2] # f[3] /\ t = {f[1], f[2], f[3]}
    BY <1>1, <2>1, <2>3, <2>4
  <2>6. \E a, b, c \in t : a < b /\ b < c /\ t = {a, b, c}
    <3>1. PICK i, j, k \in t : i \in Nat /\ j \in Nat /\ k \in Nat /\ i # j /\ i # k /\ j # k /\ t = {i, j, k}
      BY <2>3, <2>4, <2>5
    <3>2. \/ i < j /\ j < k
          \/ i < k /\ k < j
          \/ j < i /\ i < k
          \/ j < k /\ k < i
          \/ k < i /\ i < j
          \/ k < j /\ j < i
      BY <3>1
    <3>3. t = {i, k, j} /\ t = {j, i, k} /\ t = {j, k, i} /\ t = {k, i, j} /\ t = {k, j, i}
      BY <3>1
    <3>. QED  BY <3>1, <3>2, <3>3
  <2>7. PICK a \in t, b \in t, c \in t : a < b /\ b < c /\ t = {a, b, c}
    BY <2>6
  <2>8. a \in V /\ b \in V /\ c \in V /\ a \in Nat /\ b \in Nat /\ c \in Nat /\ a # b /\ a # c /\ b # c
    BY <1>1, <2>1, <2>7
  <2>9. <<a, b>> \in Expanded(g) /\ <<a, c>> \in Expanded(g) /\ <<b, c>> \in Expanded(g)
    <3>1. \A u \in t : t \ {u} \subseteq Successors(g, u)
      BY <1>4
    <3>2. b \in t \ {a} /\ c \in t \ {a} /\ c \in t \ {b}
      BY <2>7, <2>8
    <3>. QED  BY <1>2, <2>7, <3>1, <3>2
  <2>10. <<a, b>> \in UpArcs(g) /\ (<<a, b>>)[1] = a /\ (<<a, b>>)[2] = b
    BY <2>7, <2>9 DEF UpArcs
  <2>11. c \in Thirds(g, <<a, b>>)
    BY <2>7, <2>8, <2>9, <2>10 DEF Thirds, V
  <2>12. t = {(<<a, b>>)[1], (<<a, b>>)[2], c}
    BY <2>7, <2>10
  <2>. QED  BY <2>10, <2>11, <2>12 DEF TrianglesOn
<1>. QED  BY <1>3, <1>4
-----------------------------------------------------------------------------
(* All of it, on the graph that the inputs give.                           *)
InputInv == input \in [edges : SUBSET InputEdges, directed : BOOLEAN]

(* What a caller may give makes a graph.                                   *)
LEMMA InputOK == InputInv => GraphOK(input)
<1>. SUFFICES ASSUME InputInv PROVE GraphOK(input)
  OBVIOUS
<1>1. input.edges \in SUBSET InputEdges /\ input.directed \in BOOLEAN
  BY DEF InputInv
<1>2. IsFiniteSet(InputEdges) /\ InputEdges \in SUBSET (Nat \X Nat)
  BY StaticConstants
<1>3. IsFiniteSet(input.edges)
  BY <1>1, <1>2, FS_Subset
<1>. QED  BY <1>1, <1>2, <1>3 DEF GraphOK

(* The rows, in the words of StaticExact.                                  *)
LEMMA RowsExact ==
  ASSUME NEW g, GraphOK(g), NEW v \in Sources(g)
  PROVE  /\ ToSet(Built(g).out[v]) = Successors(g, v) /\ IsSorted(Built(g).out[v], <)
         /\ ToSet(Built(g).in[v]) = {u \in Sources(g) : <<u, v>> \in Expanded(g)} /\ IsSorted(Built(g).in[v], <)
BY BuiltOK DEF IsSorted, Ascending

(* Everything together.                                                    *)
LEMMA StaticHolds == InputInv => StaticExact
<1>. SUFFICES ASSUME InputInv PROVE StaticExact
  OBVIOUS
<1>1. GraphOK(input)
  BY InputOK
<1>. DEFINE csr == Built(input)
            arcs == Expanded(input)
            all == Sources(input)
            next(v) == {w \in all : <<v, w>> \in arcs}
            end == Cardinality(all)
            first(v) == Min(Ball(input, v, end))
<1>2. end = VertexCount(input)
  BY <1>1, ArcsOK
<1>3. \A v : Successors(input, v) = next(v)
  BY DEF Successors
<1>4. ASSUME NEW v \in all
      PROVE  /\ ToSet(csr.out[v]) = next(v) /\ IsSorted(csr.out[v], <)
             /\ ToSet(csr.in[v]) = {u \in all : <<u, v>> \in arcs} /\ IsSorted(csr.in[v], <)
  BY <1>1, RowsExact DEF Successors
<1>5. ASSUME NEW v \in all, NEW w \in all, NEW d, d = BfsDistances(csr, v)[w]
      PROVE  IF w \in Ball(input, v, end) THEN w \in Ball(input, v, d) /\ (d = 0 \/ w \notin Ball(input, v, d - 1))
             ELSE d = Unset
  <2>. HIDE DEF end
  <2>. QED  BY <1>1, <1>2, <1>5, BfsExact
<1>6. ASSUME NEW v \in all, NEW w \in all
      PROVE  /\ CommonNeighborCount(csr, v, w) = Cardinality(next(v) \cap next(w))
             /\ UnionSize(csr, v, w) = Cardinality(next(v) \cup next(w))
  <2>1. /\ CommonNeighborCount(csr, v, w) = Cardinality(Successors(input, v) \cap Successors(input, w))
        /\ UnionSize(csr, v, w) = Cardinality(Successors(input, v) \cup Successors(input, w))
    BY <1>1, NeighboursOK
  <2>. HIDE DEF next
  <2>. QED  BY <1>3, <2>1
<1>7. ASSUME ~input.directed
      PROVE  ConnectedComponents(csr) = [v \in all |-> Cardinality({first(w) : w \in 0 .. first(v) - 1})]
  <2>1. \A v : First(input, v) = first(v)
    BY <1>2 DEF First, Component
  <2>2. \A v : Firsts(input, First(input, v)) = {first(w) : w \in 0 .. first(v) - 1}
    <3>. HIDE DEF first
    <3>. QED  BY <2>1 DEF Firsts
  <2>3. ConnectedComponents(csr) = [v \in all |-> Cardinality(Firsts(input, First(input, v)))]
    BY <1>1, <1>7, ComponentsExact
  <2>. HIDE DEF first
  <2>. QED  BY <2>2, <2>3
<1>8. ASSUME ~input.directed
      PROVE  TriangleCount(csr) = Cardinality({t \in SUBSET all : Cardinality(t) = 3 /\ \A u \in t : t \ {u} \subseteq next(u)})
  <2>1. TriangleCount(csr) = Cardinality(TrianglesOn(input, UpArcs(input)))
    BY <1>1, TriangleSum
  <2>2. TrianglesOn(input, UpArcs(input))
          = {t \in SUBSET all : Cardinality(t) = 3 /\ \A u \in t : t \ {u} \subseteq Successors(input, u)}
    BY <1>1, <1>8, TrianglesExact
  <2>. HIDE DEF next
  <2>. QED  BY <1>3, <2>1, <2>2
<1>9. ASSUME NEW v \in all, NEW w \in all
      PROVE  LET d == BfsDistances(csr, v)[w]
             IN  IF w \in Ball(input, v, end) THEN w \in Ball(input, v, d) /\ (d = 0 \/ w \notin Ball(input, v, d - 1))
                 ELSE d = Unset
  <2>. HIDE DEF end, csr, all
  <2>. QED  BY <1>5
<1>10. \A v \in all :
         /\ ToSet(csr.out[v]) = next(v) /\ IsSorted(csr.out[v], <)
         /\ ToSet(csr.in[v]) = {u \in all : <<u, v>> \in arcs} /\ IsSorted(csr.in[v], <)
         /\ \A w \in all :
              LET d == BfsDistances(csr, v)[w]
              IN  IF w \in Ball(input, v, end) THEN w \in Ball(input, v, d) /\ (d = 0 \/ w \notin Ball(input, v, d - 1))
                  ELSE d = Unset
         /\ \A w \in all : /\ CommonNeighborCount(csr, v, w) = Cardinality(next(v) \cap next(w))
                           /\ UnionSize(csr, v, w) = Cardinality(next(v) \cup next(w))
  BY <1>4, <1>6, <1>9, Zenon
<1>. QED  BY <1>7, <1>8, <1>10, Zenon DEF StaticExact

(* No other part of the system changes the input.                          *)
LEMMA OnlyStatic == [Next]_vars => [NextStatic]_input
BY DEF Next, vars, Storage, Computation

(* What CsrGraph and its algorithms return is exact for every set of edges *)
(* a caller may build the graph from: the rows of the constructor's        *)
(* counting sort, bfs_distances, connected_components, triangle_count, and *)
(* the common neighbours and unions of Jaccard similarity.                 *)
THEOREM StaticExactAlways == Spec => []StaticExact
<1>1. Init => InputInv
  BY DEF Init, InitStatic, InputInv
<1>2. InputInv /\ [Next]_vars => InputInv'
  <2>. SUFFICES ASSUME InputInv, [NextStatic]_input PROVE InputInv'
    BY OnlyStatic
  <2>1. CASE UNCHANGED input
    BY <2>1 DEF InputInv
  <2>2. CASE NextStatic
    BY <2>2 DEF InputInv, NextStatic
  <2>. QED  BY <2>1, <2>2
<1>3. InputInv => StaticExact
  BY StaticHolds
<1>. QED  BY <1>1, <1>2, <1>3, PTL DEF Spec
=============================================================================
