-------------------------- MODULE IntersectionKernels --------------------------
(***************************************************************************)
(* kernels/intersection.hpp: how many ids two sorted rows share, by each   *)
(* kernel and by the one chosen from the sizes of the rows and the         *)
(* features of the processor.  A caller extends the rows.                  *)
(***************************************************************************)
EXTENDS Integers, Sequences, FiniteSets, SequencesExt, FiniteSetsExt

CONSTANTS RowIds,        \* ids in the rows
          BitmapBits,    \* bits of a word of the bitmap (64)
          LanesOf,       \* ids in a register, by feature (8, 16, 4)
          Limits         \* least sizes and ratios of the choice

Features == {"avx2", "avx512", "neon"}

ASSUME KernelConstants ==
  /\ RowIds \subseteq Nat /\ BitmapBits \in Nat \ {0}
  /\ LanesOf \in [Features -> Nat \ {0}]
  /\ Limits \in [Features \cup {"bitmap", "density", "ratio"} -> Nat]

VARIABLE rows            \* spans a and b

InitKernels == rows = <<<<>>, <<>>>>

NextKernels ==
  \E k \in {1, 2}, id \in RowIds :
    /\ rows[k] # <<>> => Last(rows[k]) < id
    /\ rows' = [rows EXCEPT ![k] = Append(@, id)]

-----------------------------------------------------------------------------
(* The loops below, round by round; a round after the loop's end changes   *)
(* nothing.                                                                *)
Start == [i |-> 0, j |-> 0, count |-> 0]

EachRound(a, b) == [k \in 1 .. Len(a) + Len(b) |-> k]

MergeRound(a, b, at) ==
  IF at.i = Len(a) \/ at.j = Len(b) THEN at
  ELSE LET x == a[at.i + 1]
           y == b[at.j + 1]
       IN  [i |-> IF x <= y THEN at.i + 1 ELSE at.i, j |-> IF y <= x THEN at.j + 1 ELSE at.j,
            count |-> IF x = y THEN at.count + 1 ELSE at.count]

ScalarIntersection(a, b) == FoldLeft(LAMBDA at, k : MergeRound(a, b, at), Start, EachRound(a, b)).count

GallopingIntersection(smaller, larger) ==
  Cardinality({k \in DOMAIN smaller : Contains(larger, smaller[k])})

(* A word outside the bitmap would be undefined behaviour.                 *)
OutOfBounds == -1

Bit(id) == <<id \div BitmapBits, id % BitmapBits>>

Words(a, b) == Max({Last(a), Last(b)}) \div BitmapBits + 1

BitmapIntersection(a, b) ==
  LET marked == {Bit(a[k]) : k \in DOMAIN a}
  IN  IF a = <<>> \/ b = <<>> THEN 0
      ELSE IF \E id \in ToSet(a) \cup ToSet(b) : Bit(id)[1] >= Words(a, b) THEN OutOfBounds
      ELSE Cardinality({k \in DOMAIN b : Bit(b[k]) \in marked})

(* Mutant: the row whose block ends later goes on. *)
NextBlocksLater(a, b, lanes, at) ==
  [i |-> IF a[at.i + lanes] >= b[at.j + lanes] THEN at.i + lanes ELSE at.i,
   j |-> IF b[at.j + lanes] >= a[at.i + lanes] THEN at.j + lanes ELSE at.j, count |-> at.count]

NextBlocks(a, b, lanes, at) ==
  [i |-> IF a[at.i + lanes] <= b[at.j + lanes] THEN at.i + lanes ELSE at.i,
   j |-> IF b[at.j + lanes] <= a[at.i + lanes] THEN at.j + lanes ELSE at.j, count |-> at.count]

BlockRound(a, b, lanes, at) ==
  IF at.i + lanes > Len(a) \/ at.j + lanes > Len(b) THEN at
  ELSE LET matched == {l \in 1 .. lanes : \E m \in 1 .. lanes : a[at.i + l] = b[at.j + m]}
       IN  [NextBlocks(a, b, lanes, at) EXCEPT !.count = @ + Cardinality(matched)]

(* avx2_, avx512_ and neon_intersection: block against block, then the     *)
(* rest by merging.                                                        *)
BlockIntersection(a, b, lanes) ==
  LET end == FoldLeft(LAMBDA at, k : BlockRound(a, b, lanes, at), Start, EachRound(a, b))
  IN  end.count + ScalarIntersection(SubSeq(a, end.i + 1, Len(a)), SubSeq(b, end.j + 1, Len(b)))

-----------------------------------------------------------------------------
BitmapIsEfficient(a, b) ==
  /\ a # <<>> /\ b # <<>>
  /\ Len(a) + Len(b) >= Limits["bitmap"]
  /\ Max({Last(a), Last(b)}) <= (Len(a) + Len(b)) * Limits["density"]

SelectIntersection(a, b, features) ==
  LET min == Min({Len(a), Len(b)})
      max == Max({Len(a), Len(b)})
      wide(f) == f \in features /\ min >= Limits[f]
  IN  CASE min = 0                       -> "scalar"
        [] BitmapIsEfficient(a, b)       -> "bitmap"
        [] max > Limits["ratio"] * min   -> "galloping"
        [] wide("avx512")                -> "avx512"
        [] wide("avx2")                  -> "avx2"
        [] wide("neon")                  -> "neon"
        [] OTHER                         -> "scalar"

AdaptiveIntersection(a, b, features) ==
  LET kernel == SelectIntersection(a, b, features)
  IN  CASE kernel = "galloping" -> IF Len(a) <= Len(b) THEN GallopingIntersection(a, b)
                                                       ELSE GallopingIntersection(b, a)
        [] kernel = "bitmap"    -> BitmapIntersection(a, b)
        [] kernel \in Features  -> BlockIntersection(a, b, LanesOf[kernel])
        [] OTHER                -> ScalarIntersection(a, b)

-----------------------------------------------------------------------------
(* Every kernel, and the choice on every processor, counts the ids the     *)
(* rows share: over rows of any two lengths, with rests of blocks, without *)
(* reading or writing outside the bitmap.                                  *)
KernelsAgree ==
  LET a == rows[1]
      b == rows[2]
  IN  {Cardinality(ToSet(a) \cap ToSet(b))} =
        {ScalarIntersection(a, b), GallopingIntersection(a, b), BitmapIntersection(a, b)}
          \cup {BlockIntersection(a, b, LanesOf[f]) : f \in Features}
          \cup {AdaptiveIntersection(a, b, features) : features \in SUBSET Features}
=============================================================================
