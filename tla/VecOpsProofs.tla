--------------------------- MODULE VecOpsProofs ---------------------------
(***************************************************************************)
(* What Retain and SumOver of module VecOps return, for every sequence and *)
(* every set of positions.  Both are recursive functions, so the facts are *)
(* proved by induction on the length; the induction is stated over sets of *)
(* naturals (NatSetInduction), which the first-order provers can use.      *)
(***************************************************************************)
EXTENDS VecOps, FiniteSets, FiniteSetTheorems, SequenceTheorems,
        WellFoundedInduction, TLAPS

(* Induction over the naturals for a set: a set that contains 0 and is     *)
(* closed under successor contains every natural number.                   *)
LEMMA NatSetInduction ==
    ASSUME NEW S, 0 \in S, \A n \in Nat : n \in S => n + 1 \in S
    PROVE  \A n \in Nat : n \in S
<1> DEFINE R == OpToRel(<, Nat)
           T == Nat \ S
<1>1. SUFFICES ASSUME T # {} PROVE FALSE
    OBVIOUS
<1>2. IsWellFoundedOn(R, Nat)
    BY NatLessThanWellFounded
<1>3. PICK x \in T : \A y \in T : ~ (<<y, x>> \in R)
    BY <1>1, <1>2, WFMin
<1>4. x \in Nat /\ x # 0
    OBVIOUS
<1>5. x - 1 \in Nat /\ x - 1 \notin S
    BY <1>4
<1>6. <<x - 1, x>> \in R
    BY <1>4, <1>5 DEF OpToRel
<1> QED BY <1>3, <1>5, <1>6

(* The initial segments of a definition by primitive recursion: g gives    *)
(* the values at 0..n of the function that starts at b and steps by step.  *)
RecSegment(V, b, step, n, g) ==
    /\ g \in [0..n -> V]
    /\ g[0] = b
    /\ \A i \in Nat : i < n => g[i + 1] = step[i][g[i]]

(* A definition by primitive recursion has a segment of every length.      *)
LEMMA RecSegmentExists ==
    ASSUME NEW V, NEW b \in V, NEW step \in [Nat -> [V -> V]]
    PROVE  \A n \in Nat : \E g : RecSegment(V, b, step, n, g)
<1> DEFINE S == {n \in Nat : \E g : RecSegment(V, b, step, n, g)}
<1>1. 0 \in S
    <2> DEFINE g0 == [i \in 0..0 |-> b]
    <2>1. g0 \in [0..0 -> V] /\ g0[0] = b
        OBVIOUS
    <2>2. RecSegment(V, b, step, 0, g0)
        BY <2>1 DEF RecSegment
    <2> QED BY <2>2
<1>2. ASSUME NEW n \in Nat, n \in S PROVE n + 1 \in S
    <2>1. PICK g : RecSegment(V, b, step, n, g)
        BY <1>2
    <2> DEFINE h == [i \in 0..(n + 1) |->
                        IF i = n + 1 THEN step[n][g[n]] ELSE g[i]]
    <2>2. n \in 0..n /\ g \in [0..n -> V] /\ g[0] = b
        BY <2>1 DEF RecSegment
    <2>3. g[n] \in V
        BY <2>2
    <2>4. step[n][g[n]] \in V
        BY <2>3
    <2>5. h \in [0..(n + 1) -> V]
        BY <2>2, <2>4
    <2>6. h[0] = b
        BY <2>2
    <2>7. \A i \in Nat : i < n + 1 => h[i + 1] = step[i][h[i]]
        BY <2>1 DEF RecSegment
    <2>8. RecSegment(V, b, step, n + 1, h)
        BY <2>5, <2>6, <2>7 DEF RecSegment
    <2> HIDE DEF h
    <2> QED BY <2>8
<1> HIDE DEF S
<1>3. \A n \in Nat : n \in S
    BY <1>1, <1>2, NatSetInduction
<1> QED BY <1>3 DEF S

(* The partial results kept[0], kept[1], ... of Retain(v, K).               *)
RetainRun(S, v, K, kept) ==
    /\ kept \in [0..Len(v) -> Seq(S)]
    /\ kept[0] = << >>
    /\ \A n \in 0..(Len(v) - 1) :
          kept[n + 1] = IF n + 1 \in K THEN Append(kept[n], v[n + 1])
                        ELSE kept[n]
    /\ Retain(v, K) = kept[Len(v)]

(* Retain is well defined: it is the last value of a sequence of partial   *)
(* results that starts empty and grows by the elements whose position is   *)
(* in K.                                                                   *)
LEMMA RetainRec ==
    ASSUME NEW S, NEW v \in Seq(S), NEW K
    PROVE  \E kept : RetainRun(S, v, K, kept)
<1> DEFINE V == Seq(S)
           step == [n \in Nat |-> [x \in V |->
                      IF n + 1 \in K /\ n + 1 \in 1..Len(v)
                      THEN Append(x, v[n + 1]) ELSE x]]
           Eqn(f) == f = [n \in 0..Len(v) |->
                            IF n = 0 THEN << >>
                            ELSE IF n \in K THEN Append(f[n - 1], v[n])
                            ELSE f[n - 1]]
           kept == CHOOSE f : Eqn(f)
<1>1. step \in [Nat -> [V -> V]]
    <2>1. \A n \in Nat, x \in V : n + 1 \in 1..Len(v) => Append(x, v[n + 1]) \in V
        BY ElementOfSeq, AppendProperties
    <2> QED BY <2>1
<1>2. << >> \in V /\ Len(v) \in Nat
    OBVIOUS
<1> HIDE DEF step, V
<1>3. PICK g : RecSegment(V, << >>, step, Len(v), g)
    BY <1>1, <1>2, RecSegmentExists
<1>4. g \in [0..Len(v) -> V] /\ g[0] = << >>
    BY <1>3 DEF RecSegment
<1>5. ASSUME NEW n \in 0..(Len(v) - 1)
      PROVE  g[n + 1] = IF n + 1 \in K THEN Append(g[n], v[n + 1]) ELSE g[n]
    <2>1. n \in Nat /\ n < Len(v) /\ n \in 0..Len(v) /\ n + 1 \in 1..Len(v)
        BY <1>2
    <2>2. g[n] \in V
        BY <1>4, <2>1
    <2>3. g[n + 1] = step[n][g[n]]
        BY <1>3, <2>1 DEF RecSegment
    <2> QED BY <2>1, <2>2, <2>3 DEF step
<1>6. Eqn(g)
    <2>1. ASSUME NEW n \in 0..Len(v), n # 0
          PROVE  g[n] = IF n \in K THEN Append(g[n - 1], v[n]) ELSE g[n - 1]
        <3>1. n - 1 \in 0..(Len(v) - 1) /\ (n - 1) + 1 = n
            BY <2>1, <1>2
        <3> QED BY <3>1, <1>5
    <2> QED BY <2>1, <1>4
<1>7. Eqn(kept)
    <2> HIDE DEF Eqn
    <2> QED BY <1>6
<1>8. /\ kept[0] = << >>
      /\ \A n \in 0..(Len(v) - 1) :
            kept[n + 1] = IF n + 1 \in K THEN Append(kept[n], v[n + 1])
                          ELSE kept[n]
    <2>1. ASSUME NEW f, Eqn(f), NEW n \in 0..(Len(v) - 1)
          PROVE  f[n + 1] = IF n + 1 \in K THEN Append(f[n], v[n + 1]) ELSE f[n]
        <3>1. n + 1 \in 0..Len(v) /\ n + 1 # 0 /\ (n + 1) - 1 = n
            BY <1>2
        <3> QED BY <2>1, <3>1
    <2>2. ASSUME NEW f, Eqn(f) PROVE f[0] = << >>
        BY <2>2, <1>2
    <2> HIDE DEF Eqn, kept
    <2> QED BY <1>7, <2>1, <2>2
<1>9. kept \in [0..Len(v) -> Seq(S)]
    <2> DEFINE A == {n \in Nat : n <= Len(v) => kept[n] \in V}
    <2>1. 0 \in A
        BY <1>8, <1>2
    <2>2. ASSUME NEW n \in Nat, n \in A PROVE n + 1 \in A
        <3>1. SUFFICES ASSUME n + 1 <= Len(v) PROVE kept[n + 1] \in V
            OBVIOUS
        <3>2. n \in 0..(Len(v) - 1) /\ n + 1 \in 1..Len(v) /\ n <= Len(v)
            BY <3>1, <1>2
        <3>3. kept[n] \in V /\ v[n + 1] \in S
            BY <2>2, <3>2, ElementOfSeq
        <3>4. Append(kept[n], v[n + 1]) \in V
            BY <3>3, AppendProperties DEF V
        <3> HIDE DEF kept
        <3> QED BY <1>8, <3>2, <3>3, <3>4
    <2> HIDE DEF A, kept
    <2>3. \A n \in Nat : n \in A
        BY <2>1, <2>2, NatSetInduction
    <2>4. \A n \in 0..Len(v) : kept[n] \in V
        BY <2>3, <1>2 DEF A
    <2>5. ASSUME NEW f, Eqn(f), \A n \in 0..Len(v) : f[n] \in V
          PROVE  f \in [0..Len(v) -> V]
        <3> DEFINE e(n) == IF n = 0 THEN << >>
                           ELSE IF n \in K THEN Append(f[n - 1], v[n]) ELSE f[n - 1]
        <3>1. f = [n \in 0..Len(v) |-> e(n)]
            BY <2>5
        <3> HIDE DEF e
        <3> QED BY <2>5, <3>1
    <2> QED BY <1>7, <2>4, <2>5 DEF V
<1>10. Retain(v, K) = kept[Len(v)]
    BY DEF Retain
<1> HIDE DEF kept
<1> QED BY <1>8, <1>9, <1>10 DEF RetainRun

(* The elements of r are those of v at the positions in K, and as many.    *)
IsSelection(v, K, r) ==
    /\ Len(r) = Cardinality(K \cap (1..Len(v)))
    /\ \A j \in 1..Len(r) : \E i \in K \cap (1..Len(v)) : r[j] = v[i]
    /\ \A i \in K \cap (1..Len(v)) : \E j \in 1..Len(r) : r[j] = v[i]

(* Retain returns a sequence of exactly the elements of v whose position   *)
(* is in K, as many as there are such positions.                           *)
LEMMA RetainProperties ==
    ASSUME NEW S, NEW v \in Seq(S), NEW K
    PROVE  Retain(v, K) \in Seq(S) /\ IsSelection(v, K, Retain(v, K))
<1>0. PICK kept : RetainRun(S, v, K, kept)
    BY RetainRec
<1>1. /\ kept \in [0..Len(v) -> Seq(S)]
      /\ kept[0] = << >>
      /\ \A n \in 0..(Len(v) - 1) :
            kept[n + 1] = IF n + 1 \in K THEN Append(kept[n], v[n + 1])
                          ELSE kept[n]
      /\ Retain(v, K) = kept[Len(v)]
    BY <1>0 DEF RetainRun
<1> DEFINE At(n) == K \cap (1..n)
           P(n) == /\ Len(kept[n]) = Cardinality(At(n))
                   /\ \A j \in 1..Len(kept[n]) : \E i \in At(n) : kept[n][j] = v[i]
                   /\ \A i \in At(n) : \E j \in 1..Len(kept[n]) : kept[n][j] = v[i]
           A == {n \in Nat : n <= Len(v) => P(n)}
<1>2. Len(v) \in Nat
    OBVIOUS
<1>3. 0 \in A
    <2>1. At(0) = {} /\ Cardinality({}) = 0 /\ kept[0] = << >>
        BY <1>1, FS_EmptySet
    <2> QED BY <2>1
<1>4. ASSUME NEW n \in Nat, n \in A PROVE n + 1 \in A
    <2>1. SUFFICES ASSUME n + 1 <= Len(v) PROVE P(n + 1)
        OBVIOUS
    <2>2. /\ n \in 0..(Len(v) - 1) /\ n \in 0..Len(v) /\ n + 1 \in 1..Len(v)
          /\ n <= Len(v)
        BY <2>1, <1>2
    <2>3. P(n)
        BY <1>4, <2>2
    <2>4. kept[n] \in Seq(S) /\ v[n + 1] \in S
        BY <1>1, <2>2, ElementOfSeq
    <2>5. IsFiniteSet(At(n)) /\ n + 1 \notin At(n)
        <3>1. IsFiniteSet(1..n) /\ At(n) \in SUBSET (1..n)
            BY FS_Interval
        <3> QED BY <3>1, FS_Subset
    <2>6. CASE n + 1 \in K
        <3>1. kept[n + 1] = Append(kept[n], v[n + 1])
            BY <1>1, <2>2, <2>6
        <3>2. At(n + 1) = At(n) \cup {n + 1}
            BY <2>6
        <3>3. Cardinality(At(n + 1)) = Cardinality(At(n)) + 1
            BY <2>5, <3>2, FS_AddElement
        <3>4. /\ Len(kept[n + 1]) = Len(kept[n]) + 1
              /\ \A j \in 1..Len(kept[n]) : kept[n + 1][j] = kept[n][j]
              /\ kept[n + 1][Len(kept[n]) + 1] = v[n + 1]
            BY <2>4, <3>1, AppendProperties
        <3>5. Len(kept[n]) \in Nat
            BY <2>4
        <3>6. ASSUME NEW j \in 1..Len(kept[n + 1])
              PROVE  \E i \in At(n + 1) : kept[n + 1][j] = v[i]
            <4>1. CASE j \in 1..Len(kept[n])
                <5>1. PICK i \in At(n) : kept[n][j] = v[i]
                    BY <4>1, <2>3
                <5>2. kept[n + 1][j] = v[i] /\ i \in At(n + 1)
                    BY <4>1, <5>1, <3>2, <3>4
                <5> HIDE DEF At
                <5> QED BY <5>2
            <4>2. CASE j = Len(kept[n]) + 1
                BY <4>2, <3>2, <3>4
            <4> QED BY <4>1, <4>2, <3>4, <3>5
        <3>7. ASSUME NEW i \in At(n + 1)
              PROVE  \E j \in 1..Len(kept[n + 1]) : kept[n + 1][j] = v[i]
            <4>1. CASE i \in At(n)
                <5>1. PICK j \in 1..Len(kept[n]) : kept[n][j] = v[i]
                    BY <4>1, <2>3
                <5> QED BY <5>1, <3>4, <3>5
            <4>2. CASE i = n + 1
                BY <4>2, <3>4, <3>5
            <4> QED BY <4>1, <4>2, <3>2
        <3> QED BY <2>3, <3>3, <3>4, <3>6, <3>7
    <2>7. CASE n + 1 \notin K
        <3>1. kept[n + 1] = kept[n]
            BY <1>1, <2>2, <2>7
        <3>2. At(n + 1) = At(n)
            BY <2>7
        <3> HIDE DEF At
        <3> QED BY <2>3, <3>1, <3>2
    <2> QED BY <2>6, <2>7
<1> HIDE DEF A
<1>5. \A n \in Nat : n \in A
    BY <1>3, <1>4, NatSetInduction
<1>6. Len(v) \in A /\ Len(v) <= Len(v) /\ Len(v) \in 0..Len(v)
    BY <1>2, <1>5
<1>7. kept[Len(v)] \in Seq(S)
    BY <1>1, <1>6
<1>8. P(Len(v))
    <2> HIDE DEF P
    <2> QED BY <1>6 DEF A
<1> QED BY <1>1, <1>7, <1>8 DEF IsSelection

(* The partial results sum[0], sum[1], ... of SumOver(v, K).               *)
SumRun(v, K, sum) ==
    /\ sum \in [0..Len(v) -> Nat]
    /\ sum[0] = 0
    /\ \A n \in 0..(Len(v) - 1) :
          sum[n + 1] = IF n + 1 \in K THEN sum[n] + v[n + 1]
                        ELSE sum[n]
    /\ SumOver(v, K) = sum[Len(v)]

(* SumOver is well defined: it is the last of the partial sums.            *)
LEMMA SumRec ==
    ASSUME NEW v \in Seq(Nat), NEW K
    PROVE  \E sum : SumRun(v, K, sum)
<1> DEFINE V == Nat
           step == [n \in Nat |-> [x \in V |->
                      IF n + 1 \in K /\ n + 1 \in 1..Len(v)
                      THEN x + v[n + 1] ELSE x]]
           Eqn(f) == f = [n \in 0..Len(v) |->
                            IF n = 0 THEN 0
                            ELSE IF n \in K THEN f[n - 1] + v[n]
                            ELSE f[n - 1]]
           sum == CHOOSE f : Eqn(f)
<1>1. step \in [Nat -> [V -> V]]
    <2>1. \A n \in Nat, x \in V : n + 1 \in 1..Len(v) => x + v[n + 1] \in V
        BY ElementOfSeq
    <2> QED BY <2>1
<1>2. 0 \in V /\ Len(v) \in Nat
    OBVIOUS
<1> HIDE DEF step, V
<1>3. PICK g : RecSegment(V, 0, step, Len(v), g)
    BY <1>1, <1>2, RecSegmentExists
<1>4. g \in [0..Len(v) -> V] /\ g[0] = 0
    BY <1>3 DEF RecSegment
<1>5. ASSUME NEW n \in 0..(Len(v) - 1)
      PROVE  g[n + 1] = IF n + 1 \in K THEN g[n] + v[n + 1] ELSE g[n]
    <2>1. n \in Nat /\ n < Len(v) /\ n \in 0..Len(v) /\ n + 1 \in 1..Len(v)
        BY <1>2
    <2>2. g[n] \in V
        BY <1>4, <2>1
    <2>3. g[n + 1] = step[n][g[n]]
        BY <1>3, <2>1 DEF RecSegment
    <2> QED BY <2>1, <2>2, <2>3 DEF step
<1>6. Eqn(g)
    <2>1. ASSUME NEW n \in 0..Len(v), n # 0
          PROVE  g[n] = IF n \in K THEN g[n - 1] + v[n] ELSE g[n - 1]
        <3>1. n - 1 \in 0..(Len(v) - 1) /\ (n - 1) + 1 = n
            BY <2>1, <1>2
        <3> QED BY <3>1, <1>5
    <2> QED BY <2>1, <1>4
<1>7. Eqn(sum)
    <2> HIDE DEF Eqn
    <2> QED BY <1>6
<1>8. /\ sum[0] = 0
      /\ \A n \in 0..(Len(v) - 1) :
            sum[n + 1] = IF n + 1 \in K THEN sum[n] + v[n + 1]
                          ELSE sum[n]
    <2>1. ASSUME NEW f, Eqn(f), NEW n \in 0..(Len(v) - 1)
          PROVE  f[n + 1] = IF n + 1 \in K THEN f[n] + v[n + 1] ELSE f[n]
        <3>1. n + 1 \in 0..Len(v) /\ n + 1 # 0 /\ (n + 1) - 1 = n
            BY <1>2
        <3> QED BY <2>1, <3>1
    <2>2. ASSUME NEW f, Eqn(f) PROVE f[0] = 0
        BY <2>2, <1>2
    <2> HIDE DEF Eqn, sum
    <2> QED BY <1>7, <2>1, <2>2
<1>9. sum \in [0..Len(v) -> Nat]
    <2> DEFINE A == {n \in Nat : n <= Len(v) => sum[n] \in V}
    <2>1. 0 \in A
        BY <1>8, <1>2
    <2>2. ASSUME NEW n \in Nat, n \in A PROVE n + 1 \in A
        <3>1. SUFFICES ASSUME n + 1 <= Len(v) PROVE sum[n + 1] \in V
            OBVIOUS
        <3>2. n \in 0..(Len(v) - 1) /\ n + 1 \in 1..Len(v) /\ n <= Len(v)
            BY <3>1, <1>2
        <3>3. sum[n] \in V /\ v[n + 1] \in Nat
            BY <2>2, <3>2, ElementOfSeq
        <3>4. sum[n] + v[n + 1] \in V
            BY <3>3 DEF V
        <3> HIDE DEF sum
        <3> QED BY <1>8, <3>2, <3>3, <3>4
    <2> HIDE DEF A, sum
    <2>3. \A n \in Nat : n \in A
        BY <2>1, <2>2, NatSetInduction
    <2>4. \A n \in 0..Len(v) : sum[n] \in V
        BY <2>3, <1>2 DEF A
    <2>5. ASSUME NEW f, Eqn(f), \A n \in 0..Len(v) : f[n] \in V
          PROVE  f \in [0..Len(v) -> V]
        <3> DEFINE e(n) == IF n = 0 THEN 0
                           ELSE IF n \in K THEN f[n - 1] + v[n] ELSE f[n - 1]
        <3>1. f = [n \in 0..Len(v) |-> e(n)]
            BY <2>5
        <3> HIDE DEF e
        <3> QED BY <2>5, <3>1
    <2> QED BY <1>7, <2>4, <2>5 DEF V
<1>10. SumOver(v, K) = sum[Len(v)]
    BY DEF SumOver
<1> HIDE DEF sum
<1> QED BY <1>8, <1>9, <1>10 DEF SumRun

(* A sum of naturals is a natural number at least as large as each of its  *)
(* terms.                                                                  *)
LEMMA SumProperties ==
    ASSUME NEW v \in Seq(Nat), NEW K
    PROVE  /\ SumOver(v, K) \in Nat
           /\ \A i \in K \cap (1..Len(v)) : v[i] <= SumOver(v, K)
<1>0. PICK sum : SumRun(v, K, sum)
    BY SumRec
<1>1. /\ sum \in [0..Len(v) -> Nat]
      /\ sum[0] = 0
      /\ \A n \in 0..(Len(v) - 1) :
            sum[n + 1] = IF n + 1 \in K THEN sum[n] + v[n + 1] ELSE sum[n]
      /\ SumOver(v, K) = sum[Len(v)]
    BY <1>0 DEF SumRun
<1> DEFINE P(n) == \A i \in K \cap (1..n) : v[i] <= sum[n]
           A == {n \in Nat : n <= Len(v) => P(n)}
<1>2. Len(v) \in Nat
    OBVIOUS
<1>3. 0 \in A
    OBVIOUS
<1>4. ASSUME NEW n \in Nat, n \in A PROVE n + 1 \in A
    <2>1. SUFFICES ASSUME n + 1 <= Len(v) PROVE P(n + 1)
        OBVIOUS
    <2>2. /\ n \in 0..(Len(v) - 1) /\ n \in 0..Len(v) /\ n + 1 \in 1..Len(v)
          /\ n + 1 \in 0..Len(v)
        BY <2>1, <1>2
    <2>3. P(n)
        BY <1>4, <2>2
    <2>4. sum[n] \in Nat /\ sum[n + 1] \in Nat /\ v[n + 1] \in Nat
        BY <1>1, <2>2, ElementOfSeq
    <2>5. sum[n + 1] = IF n + 1 \in K THEN sum[n] + v[n + 1] ELSE sum[n]
        BY <1>1, <2>2
    <2>6. ASSUME NEW i \in K \cap (1..(n + 1)) PROVE v[i] <= sum[n + 1]
        <3>1. v[i] \in Nat
            BY <2>2, ElementOfSeq
        <3>2. CASE i = n + 1
            BY <3>2, <2>4, <2>5
        <3>3. CASE i \in 1..n
            <4>1. v[i] <= sum[n]
                BY <3>3, <2>3
            <4> QED BY <4>1, <3>1, <2>4, <2>5
        <3> QED BY <3>2, <3>3
    <2> QED BY <2>6
<1> HIDE DEF A
<1>5. \A n \in Nat : n \in A
    BY <1>3, <1>4, NatSetInduction
<1>6. Len(v) \in A /\ Len(v) <= Len(v) /\ Len(v) \in 0..Len(v)
    BY <1>2, <1>5
<1>7. sum[Len(v)] \in Nat
    BY <1>1, <1>6
<1>8. P(Len(v))
    <2> HIDE DEF P
    <2> QED BY <1>6 DEF A
<1> QED BY <1>1, <1>7, <1>8

(* A sum over more positions is at least as large.                         *)
LEMMA SumMonotone ==
    ASSUME NEW v \in Seq(Nat), NEW K, NEW L, K \cap (1..Len(v)) \subseteq L
    PROVE  SumOver(v, K) <= SumOver(v, L)
<1>0. PICK small : SumRun(v, K, small)
    BY SumRec
<1>1. PICK large : SumRun(v, L, large)
    BY SumRec
<1>2. /\ small \in [0..Len(v) -> Nat] /\ small[0] = 0
      /\ \A n \in 0..(Len(v) - 1) :
            small[n + 1] = IF n + 1 \in K THEN small[n] + v[n + 1] ELSE small[n]
      /\ SumOver(v, K) = small[Len(v)]
    BY <1>0 DEF SumRun
<1>3. /\ large \in [0..Len(v) -> Nat] /\ large[0] = 0
      /\ \A n \in 0..(Len(v) - 1) :
            large[n + 1] = IF n + 1 \in L THEN large[n] + v[n + 1] ELSE large[n]
      /\ SumOver(v, L) = large[Len(v)]
    BY <1>1 DEF SumRun
<1> DEFINE A == {n \in Nat : n <= Len(v) => small[n] <= large[n]}
<1>4. Len(v) \in Nat
    OBVIOUS
<1>5. 0 \in A
    BY <1>2, <1>3
<1>6. ASSUME NEW n \in Nat, n \in A PROVE n + 1 \in A
    <2>1. SUFFICES ASSUME n + 1 <= Len(v) PROVE small[n + 1] <= large[n + 1]
        OBVIOUS
    <2>2. n \in 0..(Len(v) - 1) /\ n \in 0..Len(v) /\ n + 1 \in 1..Len(v)
        BY <2>1, <1>4
    <2>3. small[n] \in Nat /\ large[n] \in Nat /\ v[n + 1] \in Nat
        BY <1>2, <1>3, <2>2, ElementOfSeq
    <2>4. small[n] <= large[n]
        BY <1>6, <2>2
    <2>5. n + 1 \in K => n + 1 \in L
        BY <2>2
    <2>6. /\ small[n + 1] = IF n + 1 \in K THEN small[n] + v[n + 1] ELSE small[n]
          /\ large[n + 1] = IF n + 1 \in L THEN large[n] + v[n + 1] ELSE large[n]
        BY <1>2, <1>3, <2>2
    <2> QED BY <2>3, <2>4, <2>5, <2>6
<1> HIDE DEF A
<1>7. \A n \in Nat : n \in A
    BY <1>5, <1>6, NatSetInduction
<1>8. small[Len(v)] <= large[Len(v)]
    BY <1>4, <1>7 DEF A
<1> QED BY <1>2, <1>3, <1>8

(* What holds of the elements kept holds of all of Retain's result.        *)
LEMMA RetainSubtype ==
    ASSUME NEW S, NEW v \in Seq(S), NEW K, NEW T,
           \A i \in K \cap (1..Len(v)) : v[i] \in T
    PROVE  Retain(v, K) \in Seq(T)
<1> DEFINE r == Retain(v, K)
<1>1. r \in Seq(S) /\ IsSelection(v, K, r)
    BY RetainProperties
<1> HIDE DEF r
<1>2. ASSUME NEW j \in 1..Len(r) PROVE r[j] \in T
    <2>1. PICK i \in K \cap (1..Len(v)) : r[j] = v[i]
        BY <1>1 DEF IsSelection
    <2> QED BY <2>1
<1>3. Len(r) \in Nat /\ r = [j \in 1..Len(r) |-> r[j]]
    BY <1>1
<1>4. r \in Seq(T)
    BY <1>2, <1>3
<1> QED BY <1>4 DEF r

(* Retain does not make a sequence longer.                                 *)
LEMMA RetainLength ==
    ASSUME NEW S, NEW v \in Seq(S), NEW K
    PROVE  Len(Retain(v, K)) \in Nat /\ Len(Retain(v, K)) <= Len(v)
<1>1. /\ Len(Retain(v, K)) = Cardinality(K \cap (1..Len(v)))
      /\ Retain(v, K) \in Seq(S)
    BY RetainProperties DEF IsSelection
<1>2. IsFiniteSet(1..Len(v)) /\ Cardinality(1..Len(v)) = Len(v)
    <2>1. 1 \in Int /\ Len(v) \in Int /\ Len(v) >= 0
        OBVIOUS
    <2> QED BY <2>1, FS_Interval
<1>3. Cardinality(K \cap (1..Len(v))) <= Cardinality(1..Len(v))
    BY <1>2, FS_Subset
<1> QED BY <1>1, <1>2, <1>3

(* Least and greatest elements of sets of naturals.                        *)
LEMMA NatSetMin ==
    ASSUME NEW S \in SUBSET Nat, S # {}
    PROVE  \E x \in S : \A y \in S : x <= y
<1> DEFINE R == OpToRel(<, Nat)
<1>1. IsWellFoundedOn(R, Nat)
    BY NatLessThanWellFounded
<1>2. PICK x \in S : \A y \in S : ~ (<<y, x>> \in R)
    BY <1>1, WFMin
<1>3. ASSUME NEW y \in S, y < x PROVE FALSE
    <2>1. <<y, x>> \in R
        BY <1>3 DEF OpToRel
    <2> QED BY <1>2, <2>1
<1> QED BY <1>3

LEMMA NatSetMax ==
    ASSUME NEW n \in Nat, NEW S \in SUBSET (0..n), S # {}
    PROVE  \E x \in S : \A y \in S : y <= x
<1> DEFINE T == {n - x : x \in S}
<1>1. T \in SUBSET Nat /\ T # {}
    <2>1. \A x \in S : n - x \in Nat
        OBVIOUS
    <2>2. PICK x : x \in S
        OBVIOUS
    <2>3. n - x \in T
        BY <2>2
    <2> QED BY <2>1, <2>3
<1> HIDE DEF T
<1>2. PICK t \in T : \A u \in T : t <= u
    BY <1>1, NatSetMin
<1>3. PICK x \in S : t = n - x
    BY <1>2 DEF T
<1>4. ASSUME NEW y \in S PROVE y <= x
    <2>1. n - y \in T
        BY DEF T
    <2> QED BY <1>2, <1>3, <2>1
<1> QED BY <1>4
-----------------------------------------------------------------------------
(* Retain and SumOver, one element at a time.  With these equations and    *)
(* induction over sequences the rest is proved without the recursion.      *)

(* Induction over sequences, for a set.                                    *)
LEMMA SeqSetInduction ==
    ASSUME NEW S, NEW P, << >> \in P,
           \A s \in Seq(S) : s \in P => \A x \in S : Append(s, x) \in P
    PROVE  \A s \in Seq(S) : s \in P
<1> DEFINE A == {n \in Nat : \A s \in Seq(S) : Len(s) = n => s \in P}
<1>1. 0 \in A
    <2>1. \A s \in Seq(S) : Len(s) = 0 => s = << >>
        BY EmptySeq
    <2> QED BY <2>1
<1>2. ASSUME NEW n \in Nat, n \in A PROVE n + 1 \in A
    <2>1. SUFFICES ASSUME NEW s \in Seq(S), Len(s) = n + 1 PROVE s \in P
        OBVIOUS
    <2>2. s # << >>
        BY <2>1, EmptySeq
    <2>3. PICK t \in Seq(S), x \in S : s = Append(t, x)
        BY <2>1, <2>2, SequenceEmptyOrAppend
    <2>4. Len(s) = Len(t) + 1 /\ Len(t) \in Nat
        BY <2>3, AppendProperties
    <2>5. Len(t) = n
        BY <2>1, <2>4
    <2> QED BY <1>2, <2>3, <2>5
<1> HIDE DEF A
<1>3. \A n \in Nat : n \in A
    BY <1>1, <1>2, NatSetInduction
<1>4. \A s \in Seq(S) : Len(s) \in Nat
    OBVIOUS
<1> QED BY <1>3, <1>4 DEF A

LEMMA RetainEmpty ==
    ASSUME NEW K PROVE Retain(<< >>, K) = << >>
<1>1. << >> \in Seq({}) /\ Len(<< >>) = 0
    OBVIOUS
<1>2. PICK kept : RetainRun({}, << >>, K, kept)
    BY <1>1, RetainRec
<1> QED BY <1>1, <1>2 DEF RetainRun

LEMMA RetainAppend ==
    ASSUME NEW S, NEW v \in Seq(S), NEW x \in S, NEW K
    PROVE  Retain(Append(v, x), K) =
              IF Len(v) + 1 \in K THEN Append(Retain(v, K), x) ELSE Retain(v, K)
<1>1. PICK w : w = Append(v, x)
    OBVIOUS
<1>2. /\ w \in Seq(S) /\ Len(v) \in Nat /\ Len(w) = Len(v) + 1
      /\ \A i \in 1..Len(v) : w[i] = v[i]
      /\ w[Len(v) + 1] = x
    BY <1>1, AppendProperties
<1>3. PICK less : RetainRun(S, v, K, less)
    BY RetainRec
<1>4. PICK more : RetainRun(S, w, K, more)
    BY <1>2, RetainRec
<1> DEFINE A == {n \in Nat : n <= Len(v) => less[n] = more[n]}
<1>5. 0 \in A
    BY <1>3, <1>4 DEF RetainRun
<1>6. ASSUME NEW n \in Nat, n \in A PROVE n + 1 \in A
    <2>1. SUFFICES ASSUME n + 1 <= Len(v) PROVE less[n + 1] = more[n + 1]
        OBVIOUS
    <2>2. n \in 0..(Len(v) - 1) /\ n \in 0..(Len(w) - 1) /\ n + 1 \in 1..Len(v)
        BY <1>2, <2>1
    <2>3. less[n] = more[n]
        BY <1>6, <2>2
    <2>4. /\ less[n + 1] = IF n + 1 \in K THEN Append(less[n], v[n + 1]) ELSE less[n]
          /\ more[n + 1] = IF n + 1 \in K THEN Append(more[n], w[n + 1]) ELSE more[n]
        BY <1>3, <1>4, <2>2 DEF RetainRun
    <2> QED BY <1>2, <2>2, <2>3, <2>4
<1> HIDE DEF A
<1>7. Len(v) \in A
    BY <1>2, <1>5, <1>6, NatSetInduction
<1>8. less[Len(v)] = more[Len(v)] /\ Len(v) \in 0..(Len(w) - 1)
    BY <1>2, <1>7 DEF A
<1>9. /\ Retain(v, K) = less[Len(v)]
      /\ Retain(w, K) = more[Len(v) + 1]
      /\ more[Len(v) + 1] = IF Len(v) + 1 \in K THEN Append(more[Len(v)], w[Len(v) + 1])
                            ELSE more[Len(v)]
    BY <1>2, <1>3, <1>4, <1>8 DEF RetainRun
<1> QED BY <1>1, <1>2, <1>8, <1>9

LEMMA SumEmpty ==
    ASSUME NEW K PROVE SumOver(<< >>, K) = 0
<1>1. << >> \in Seq(Nat) /\ Len(<< >>) = 0
    OBVIOUS
<1>2. PICK sum : SumRun(<< >>, K, sum)
    BY <1>1, SumRec
<1> QED BY <1>1, <1>2 DEF SumRun

LEMMA SumAppend ==
    ASSUME NEW v \in Seq(Nat), NEW x \in Nat, NEW K
    PROVE  SumOver(Append(v, x), K) =
              IF Len(v) + 1 \in K THEN SumOver(v, K) + x ELSE SumOver(v, K)
<1>1. PICK w : w = Append(v, x)
    OBVIOUS
<1>2. /\ w \in Seq(Nat) /\ Len(v) \in Nat /\ Len(w) = Len(v) + 1
      /\ \A i \in 1..Len(v) : w[i] = v[i]
      /\ w[Len(v) + 1] = x
    BY <1>1, AppendProperties
<1>3. PICK less : SumRun(v, K, less)
    BY SumRec
<1>4. PICK more : SumRun(w, K, more)
    BY <1>2, SumRec
<1> DEFINE A == {n \in Nat : n <= Len(v) => less[n] = more[n]}
<1>5. 0 \in A
    BY <1>3, <1>4 DEF SumRun
<1>6. ASSUME NEW n \in Nat, n \in A PROVE n + 1 \in A
    <2>1. SUFFICES ASSUME n + 1 <= Len(v) PROVE less[n + 1] = more[n + 1]
        OBVIOUS
    <2>2. n \in 0..(Len(v) - 1) /\ n \in 0..(Len(w) - 1) /\ n + 1 \in 1..Len(v)
        BY <1>2, <2>1
    <2>3. less[n] = more[n]
        BY <1>6, <2>2
    <2>4. /\ less[n + 1] = IF n + 1 \in K THEN less[n] + v[n + 1] ELSE less[n]
          /\ more[n + 1] = IF n + 1 \in K THEN more[n] + w[n + 1] ELSE more[n]
        BY <1>3, <1>4, <2>2 DEF SumRun
    <2> QED BY <1>2, <2>2, <2>3, <2>4
<1> HIDE DEF A
<1>7. Len(v) \in A
    BY <1>2, <1>5, <1>6, NatSetInduction
<1>8. less[Len(v)] = more[Len(v)] /\ Len(v) \in 0..(Len(w) - 1)
    BY <1>2, <1>7 DEF A
<1>9. /\ SumOver(v, K) = less[Len(v)]
      /\ SumOver(w, K) = more[Len(v) + 1]
      /\ more[Len(v) + 1] = IF Len(v) + 1 \in K THEN more[Len(v)] + w[Len(v) + 1]
                            ELSE more[Len(v)]
    BY <1>2, <1>3, <1>4, <1>8 DEF SumRun
<1> QED BY <1>1, <1>2, <1>8, <1>9

(* Only the positions inside the sequence matter.                          *)
LEMMA RetainPositions ==
    ASSUME NEW S, NEW v \in Seq(S), NEW K, NEW L,
           K \cap (1..Len(v)) = L \cap (1..Len(v))
    PROVE  Retain(v, K) = Retain(v, L)
<1> DEFINE P == {s \in Seq(S) : K \cap (1..Len(s)) = L \cap (1..Len(s))
                                  => Retain(s, K) = Retain(s, L)}
<1>1. << >> \in P
    BY RetainEmpty
<1>2. ASSUME NEW s \in Seq(S), s \in P, NEW x \in S PROVE Append(s, x) \in P
    <2>1. Append(s, x) \in Seq(S) /\ Len(Append(s, x)) = Len(s) + 1 /\ Len(s) \in Nat
        BY AppendProperties
    <2>2. SUFFICES ASSUME K \cap (1..(Len(s) + 1)) = L \cap (1..(Len(s) + 1))
                   PROVE  Retain(Append(s, x), K) = Retain(Append(s, x), L)
        BY <2>1
    <2>3. /\ Len(s) + 1 \in K <=> Len(s) + 1 \in L
          /\ K \cap (1..Len(s)) = L \cap (1..Len(s))
        BY <2>1, <2>2
    <2>4. Retain(s, K) = Retain(s, L)
        BY <1>2, <2>3
    <2>5. \A M : Retain(Append(s, x), M) =
                    IF Len(s) + 1 \in M THEN Append(Retain(s, M), x) ELSE Retain(s, M)
        BY RetainAppend
    <2> HIDE DEF P
    <2> QED BY <2>3, <2>4, <2>5
<1> HIDE DEF P
<1>3. v \in P
    BY <1>1, <1>2, SeqSetInduction
<1> QED BY <1>3 DEF P

LEMMA RetainAll ==
    ASSUME NEW S, NEW v \in Seq(S), NEW K, 1..Len(v) \subseteq K
    PROVE  Retain(v, K) = v
<1> DEFINE P == {s \in Seq(S) : 1..Len(s) \subseteq K => Retain(s, K) = s}
<1>1. << >> \in P
    BY RetainEmpty
<1>2. ASSUME NEW s \in Seq(S), s \in P, NEW x \in S PROVE Append(s, x) \in P
    <2>1. Append(s, x) \in Seq(S) /\ Len(Append(s, x)) = Len(s) + 1 /\ Len(s) \in Nat
        BY AppendProperties
    <2>2. SUFFICES ASSUME 1..(Len(s) + 1) \subseteq K
                   PROVE  Retain(Append(s, x), K) = Append(s, x)
        BY <2>1
    <2>3. Len(s) + 1 \in K /\ 1..Len(s) \subseteq K
        BY <2>1, <2>2
    <2> QED BY <1>2, <2>3, RetainAppend
<1> HIDE DEF P
<1>3. v \in P
    BY <1>1, <1>2, SeqSetInduction
<1> QED BY <1>3 DEF P

LEMMA RetainNone ==
    ASSUME NEW S, NEW v \in Seq(S), NEW K, K \cap (1..Len(v)) = {}
    PROVE  Retain(v, K) = << >>
<1>1. Retain(v, K) \in Seq(S) /\ Len(Retain(v, K)) = 0
    BY RetainProperties, FS_EmptySet DEF IsSelection
<1> QED BY <1>1, EmptySeq

(* The elements of v in T, in their order.                                 *)
InSet(v, T) == {i \in 1..Len(v) : v[i] \in T}
Filter(v, T) == Retain(v, InSet(v, T))

LEMMA FilterType ==
    ASSUME NEW S, NEW v \in Seq(S), NEW T
    PROVE  /\ Filter(v, T) \in Seq(S)
           /\ Filter(v, T) \in Seq(T)
           /\ Len(Filter(v, T)) = Cardinality(InSet(v, T))
<1>1. InSet(v, T) \cap (1..Len(v)) = InSet(v, T) /\ \A i \in InSet(v, T) : v[i] \in T
    BY DEF InSet
<1> QED BY <1>1, RetainProperties, RetainSubtype DEF Filter, IsSelection

LEMMA FilterEmpty ==
    ASSUME NEW T PROVE Filter(<< >>, T) = << >>
BY RetainEmpty DEF Filter

LEMMA FilterAppend ==
    ASSUME NEW S, NEW v \in Seq(S), NEW x \in S, NEW T
    PROVE  Filter(Append(v, x), T) =
              IF x \in T THEN Append(Filter(v, T), x) ELSE Filter(v, T)
<1> DEFINE K == InSet(Append(v, x), T)
<1>1. /\ Len(v) \in Nat /\ Len(Append(v, x)) = Len(v) + 1
      /\ \A i \in 1..Len(v) : Append(v, x)[i] = v[i]
      /\ Append(v, x)[Len(v) + 1] = x
    BY AppendProperties
<1>2. /\ Len(v) + 1 \in K <=> x \in T
      /\ K \cap (1..Len(v)) = InSet(v, T) \cap (1..Len(v))
    BY <1>1 DEF InSet
<1>3. Retain(v, K) = Filter(v, T)
    <2> HIDE DEF K
    <2> QED BY <1>2, RetainPositions DEF Filter
<1>4. Filter(Append(v, x), T) = Retain(Append(v, x), K)
    BY DEF Filter
<1> HIDE DEF K
<1> QED BY <1>2, <1>3, <1>4, RetainAppend

LEMMA FilterConcat ==
    ASSUME NEW S, NEW v \in Seq(S), NEW w \in Seq(S), NEW T
    PROVE  Filter(v \o w, T) = Filter(v, T) \o Filter(w, T)
<1> DEFINE P == {s \in Seq(S) : Filter(v \o s, T) = Filter(v, T) \o Filter(s, T)}
<1>1. Filter(v, T) \in Seq(S) /\ \A s \in Seq(S) : Filter(s, T) \in Seq(S)
    BY FilterType
<1>2. << >> \in P
    <2>1. v \o << >> = v /\ Filter(v, T) \o << >> = Filter(v, T)
        BY <1>1, ConcatEmptySeq
    <2>2. Filter(<< >>, T) = << >> /\ << >> \in Seq(S)
        BY FilterEmpty
    <2> QED BY <2>1, <2>2
<1>3. ASSUME NEW s \in Seq(S), s \in P, NEW x \in S PROVE Append(s, x) \in P
    <2>1. /\ Append(s, x) \in Seq(S) /\ v \o s \in Seq(S)
          /\ v \o Append(s, x) = Append(v \o s, x)
        <3>1. v \o s \in Seq(S) /\ << x >> \in Seq(S) /\ Append(s, x) \in Seq(S)
            OBVIOUS
        <3>2. Append(v \o s, x) = (v \o s) \o << x >> /\ Append(s, x) = s \o << x >>
            BY <3>1, AppendIsConcat
        <3>3. (v \o s) \o << x >> = v \o (s \o << x >>)
            BY <3>1, ConcatAssociative
        <3> QED BY <3>1, <3>2, <3>3
    <2>2. /\ Filter(v \o Append(s, x), T) =
                IF x \in T THEN Append(Filter(v \o s, T), x) ELSE Filter(v \o s, T)
          /\ Filter(Append(s, x), T) =
                IF x \in T THEN Append(Filter(s, T), x) ELSE Filter(s, T)
        BY <2>1, FilterAppend
    <2>3. Filter(v \o s, T) = Filter(v, T) \o Filter(s, T)
        BY <1>3
    <2>4. PICK a \in Seq(S), b \in Seq(S) : a = Filter(v, T) /\ b = Filter(s, T)
        BY <1>1
    <2>5. Append(a \o b, x) = a \o Append(b, x)
        <3>1. a \o b \in Seq(S) /\ << x >> \in Seq(S)
            OBVIOUS
        <3>2. Append(a \o b, x) = (a \o b) \o << x >> /\ Append(b, x) = b \o << x >>
            BY <3>1, AppendIsConcat
        <3>3. (a \o b) \o << x >> = a \o (b \o << x >>)
            BY <3>1, ConcatAssociative
        <3> QED BY <3>2, <3>3
    <2> QED BY <2>1, <2>2, <2>3, <2>4, <2>5
<1> HIDE DEF P
<1>4. w \in P
    BY <1>2, <1>3, SeqSetInduction
<1> QED BY <1>4 DEF P

(* Removing elements outside T does not change the elements in T.          *)
LEMMA FilterOfRetain ==
    ASSUME NEW S, NEW v \in Seq(S), NEW K, NEW T, InSet(v, T) \subseteq K
    PROVE  Filter(Retain(v, K), T) = Filter(v, T)
<1> DEFINE P == {s \in Seq(S) : InSet(s, T) \subseteq K
                                  => Filter(Retain(s, K), T) = Filter(s, T)}
<1>1. << >> \in P
    BY RetainEmpty
<1>2. ASSUME NEW s \in Seq(S), s \in P, NEW x \in S PROVE Append(s, x) \in P
    <2>1. /\ Append(s, x) \in Seq(S) /\ Len(Append(s, x)) = Len(s) + 1 /\ Len(s) \in Nat
          /\ \A i \in 1..Len(s) : Append(s, x)[i] = s[i]
          /\ Append(s, x)[Len(s) + 1] = x
        BY AppendProperties
    <2>2. SUFFICES ASSUME InSet(Append(s, x), T) \subseteq K
                   PROVE  Filter(Retain(Append(s, x), K), T) = Filter(Append(s, x), T)
        BY <2>1
    <2>3. InSet(s, T) \subseteq K /\ (x \in T => Len(s) + 1 \in K)
        BY <2>1, <2>2 DEF InSet
    <2>4. Filter(Retain(s, K), T) = Filter(s, T) /\ Retain(s, K) \in Seq(S)
        BY <1>2, <2>3, RetainProperties
    <2>5. /\ Retain(Append(s, x), K) =
                IF Len(s) + 1 \in K THEN Append(Retain(s, K), x) ELSE Retain(s, K)
          /\ Filter(Append(s, x), T) =
                IF x \in T THEN Append(Filter(s, T), x) ELSE Filter(s, T)
          /\ Filter(Append(Retain(s, K), x), T) =
                IF x \in T THEN Append(Filter(Retain(s, K), T), x)
                ELSE Filter(Retain(s, K), T)
        BY <2>4, RetainAppend, FilterAppend
    <2> HIDE DEF P
    <2>6. CASE x \in T
        BY <2>3, <2>4, <2>5, <2>6
    <2>7. CASE x \notin T
        <3>1. Filter(Append(s, x), T) = Filter(s, T)
            BY <2>5, <2>7
        <3>2. Filter(Append(Retain(s, K), x), T) = Filter(Retain(s, K), T)
            BY <2>5, <2>7
        <3> QED BY <2>4, <2>5, <3>1, <3>2
    <2> QED BY <2>6, <2>7
<1> HIDE DEF P
<1>3. v \in P
    BY <1>1, <1>2, SeqSetInduction
<1> QED BY <1>3 DEF P

(* A function applied to each element, before or after: the positions kept *)
(* do not depend on the elements.                                          *)
Maps(S, T) == [S -> T]
Mapped(v, f) == [i \in 1..Len(v) |-> f[v[i]]]

LEMMA MappedType ==
    ASSUME NEW S, NEW T, NEW f \in Maps(S, T), NEW v \in Seq(S)
    PROVE  /\ Mapped(v, f) \in Seq(T)
           /\ Len(Mapped(v, f)) = Len(v)
           /\ \A i \in 1..Len(v) : Mapped(v, f)[i] = f[v[i]]
<1>1. Len(v) \in Nat /\ \A i \in 1..Len(v) : f[v[i]] \in T
    BY ElementOfSeq DEF Maps
<1> QED BY <1>1 DEF Mapped

LEMMA MappedAppend ==
    ASSUME NEW S, NEW T, NEW f \in Maps(S, T), NEW v \in Seq(S), NEW x \in S
    PROVE  Mapped(Append(v, x), f) = Append(Mapped(v, f), f[x])
<1> DEFINE w == Append(v, x)
           m == Mapped(w, f)
           n == Append(Mapped(v, f), f[x])
<1>1. /\ w \in Seq(S) /\ Len(v) \in Nat /\ Len(w) = Len(v) + 1
      /\ \A i \in 1..Len(v) : w[i] = v[i]
      /\ w[Len(v) + 1] = x
    BY AppendProperties
<1> HIDE DEF w
<1>2. /\ m \in Seq(T) /\ Len(m) = Len(v) + 1
      /\ \A i \in 1..(Len(v) + 1) : m[i] = f[w[i]]
    BY <1>1, MappedType
<1>3. /\ Mapped(v, f) \in Seq(T) /\ Len(Mapped(v, f)) = Len(v) /\ f[x] \in T
      /\ \A i \in 1..Len(v) : Mapped(v, f)[i] = f[v[i]]
    <2>1. f[x] \in T
        BY DEF Maps
    <2> QED BY <2>1, MappedType
<1>4. /\ n \in Seq(T) /\ Len(n) = Len(v) + 1
      /\ \A i \in 1..Len(v) : n[i] = Mapped(v, f)[i]
      /\ n[Len(v) + 1] = f[x]
    BY <1>3, AppendProperties
<1> HIDE DEF m, n
<1>5. ASSUME NEW i \in 1..Len(m) PROVE m[i] = n[i]
    <2>1. CASE i \in 1..Len(v)
        <3>1. m[i] = f[w[i]] /\ w[i] = v[i]
            BY <1>1, <1>2, <2>1
        <3>2. n[i] = f[v[i]]
            BY <1>3, <1>4, <2>1
        <3> QED BY <3>1, <3>2
    <2>2. CASE i = Len(v) + 1
        BY <1>1, <1>2, <1>4, <2>2
    <2> QED BY <1>1, <1>2, <2>1, <2>2
<1>6. m = n
    BY <1>2, <1>4, <1>5, SeqEqual
<1> QED BY <1>6 DEF m, n, w

LEMMA RetainMap ==
    ASSUME NEW S, NEW T, NEW f \in Maps(S, T), NEW v \in Seq(S), NEW K
    PROVE  Retain(Mapped(v, f), K) = Mapped(Retain(v, K), f)
<1> DEFINE P == {s \in Seq(S) : Retain(Mapped(s, f), K) = Mapped(Retain(s, K), f)}
<1>1. << >> \in P
    <2>1. Mapped(<< >>, f) = << >> /\ << >> \in Seq(S)
        BY DEF Mapped
    <2> QED BY <2>1, RetainEmpty
<1>2. ASSUME NEW s \in Seq(S), s \in P, NEW x \in S PROVE Append(s, x) \in P
    <2>1. Append(s, x) \in Seq(S) /\ Retain(s, K) \in Seq(S) /\ f[x] \in T
        BY RetainProperties DEF Maps
    <2>2. Mapped(s, f) \in Seq(T) /\ Len(Mapped(s, f)) = Len(s)
        BY MappedType
    <2>3. /\ Mapped(Append(s, x), f) = Append(Mapped(s, f), f[x])
          /\ Mapped(Append(Retain(s, K), x), f) = Append(Mapped(Retain(s, K), f), f[x])
        BY <2>1, MappedAppend
    <2>4. /\ Retain(Append(Mapped(s, f), f[x]), K) =
                IF Len(s) + 1 \in K THEN Append(Retain(Mapped(s, f), K), f[x])
                ELSE Retain(Mapped(s, f), K)
          /\ Retain(Append(s, x), K) =
                IF Len(s) + 1 \in K THEN Append(Retain(s, K), x) ELSE Retain(s, K)
        <3>1. PICK t \in Seq(T), y \in T : t = Mapped(s, f) /\ y = f[x]
            BY <2>1, <2>2
        <3>2. Retain(Append(t, y), K) =
                 IF Len(t) + 1 \in K THEN Append(Retain(t, K), y) ELSE Retain(t, K)
            BY RetainAppend
        <3>3. Retain(Append(s, x), K) =
                 IF Len(s) + 1 \in K THEN Append(Retain(s, K), x) ELSE Retain(s, K)
            BY RetainAppend
        <3> QED BY <2>2, <3>1, <3>2, <3>3
    <2>5. Retain(Mapped(s, f), K) = Mapped(Retain(s, K), f)
        BY <1>2
    <2>6. Retain(Mapped(Append(s, x), f), K) = Mapped(Retain(Append(s, x), K), f)
        <3>1. CASE Len(s) + 1 \in K
            BY <2>3, <2>4, <2>5, <3>1
        <3>2. CASE Len(s) + 1 \notin K
            BY <2>3, <2>4, <2>5, <3>2
        <3> QED BY <3>1, <3>2
    <2> QED BY <2>1, <2>6
<1> HIDE DEF P
<1>3. v \in P
    BY <1>1, <1>2, SeqSetInduction
<1> QED BY <1>3 DEF P

(* The positions in K themselves, in ascending order.                      *)
Numbers(n) == [i \in 1..n |-> i]
Indices(n, K) == Retain(Numbers(n), K)

Ascending(e) == \A i, j \in 1..Len(e) : i < j => e[i] < e[j]

LEMMA IndicesAscend ==
    ASSUME NEW n \in Nat, NEW K
    PROVE  /\ Indices(n, K) \in Seq(K \cap (1..n))
           /\ Ascending(Indices(n, K))
<1>1. ASSUME NEW m \in Nat
      PROVE  /\ Numbers(m) \in Seq(1..m) /\ Len(Numbers(m)) = m
             /\ \A i \in 1..m : Numbers(m)[i] = i
    BY DEF Numbers
<1>2. ASSUME NEW m \in Nat PROVE Indices(m, K) \in Seq(K \cap (1..m))
    BY <1>1, RetainSubtype DEF Indices
<1> DEFINE A == {m \in Nat : Ascending(Indices(m, K))}
<1>3. 0 \in A
    <2>1. Numbers(0) = << >>
        BY <1>1, EmptySeq
    <2>2. Indices(0, K) = << >>
        BY <2>1, RetainEmpty DEF Indices
    <2> QED BY <2>2 DEF Ascending
<1>4. ASSUME NEW m \in Nat, m \in A PROVE m + 1 \in A
    <2>1. Numbers(m + 1) = Append(Numbers(m), m + 1)
        <3>1. Numbers(m + 1) \in Seq(Nat) /\ Append(Numbers(m), m + 1) \in Seq(Nat)
            BY <1>1, AppendProperties DEF Numbers
        <3>2. /\ Len(Append(Numbers(m), m + 1)) = m + 1
              /\ \A i \in 1..m : Append(Numbers(m), m + 1)[i] = i
              /\ Append(Numbers(m), m + 1)[m + 1] = m + 1
            BY <1>1, AppendProperties
        <3>3. \A i \in 1..(m + 1) : Numbers(m + 1)[i] = Append(Numbers(m), m + 1)[i]
            BY <1>1, <3>2
        <3>4. Len(Numbers(m + 1)) = m + 1 /\ Len(Append(Numbers(m), m + 1)) = m + 1
            BY <1>1, <3>2
        <3> QED BY <3>1, <3>3, <3>4, SeqEqual
    <2>2. Indices(m + 1, K) =
             IF m + 1 \in K THEN Append(Indices(m, K), m + 1) ELSE Indices(m, K)
        <3>1. PICK s, S : s = Numbers(m) /\ S = 1..(m + 1)
            OBVIOUS
        <3>2. s \in Seq(S) /\ Len(s) = m /\ m + 1 \in S
            BY <3>1 DEF Numbers
        <3>3. PICK t \in Seq(S), x \in S : t = s /\ x = m + 1
            BY <3>2
        <3>4. Retain(Append(t, x), K) =
                 IF Len(t) + 1 \in K THEN Append(Retain(t, K), x) ELSE Retain(t, K)
            BY RetainAppend
        <3> QED BY <2>1, <3>1, <3>2, <3>3, <3>4 DEF Indices
    <2>3. PICK e : e = Indices(m, K)
        OBVIOUS
    <2>4. e \in Seq(1..m) /\ Len(e) \in Nat /\ Ascending(e)
        <3>1. e \in Seq(K \cap (1..m))
            BY <1>2, <2>3
        <3>2. Ascending(e)
            BY <1>4, <2>3
        <3> QED BY <3>1, <3>2
    <2>5. Ascending(Append(e, m + 1))
        <3>1. /\ Len(Append(e, m + 1)) = Len(e) + 1
              /\ \A i \in 1..Len(e) : Append(e, m + 1)[i] = e[i] /\ e[i] \in 1..m
              /\ Append(e, m + 1)[Len(e) + 1] = m + 1
            BY <2>4
        <3> QED BY <2>4, <3>1 DEF Ascending
    <2> QED BY <2>2, <2>3, <2>4, <2>5
<1> HIDE DEF A
<1>5. n \in A
    BY <1>3, <1>4, NatSetInduction
<1> QED BY <1>2, <1>5 DEF A

(* What Retain returns, element by element.                                *)
LEMMA RetainByIndices ==
    ASSUME NEW S, NEW v \in Seq(S), NEW K
    PROVE  LET e == Indices(Len(v), K)
           IN  /\ Len(Retain(v, K)) = Len(e) /\ Len(e) \in Nat
               /\ \A j \in 1..Len(e) : /\ e[j] \in K \cap (1..Len(v))
                                       /\ Retain(v, K)[j] = v[e[j]]
<1>1. PICK n \in Nat : n = Len(v)
    OBVIOUS
<1>2. /\ Numbers(n) \in Seq(1..n) /\ Len(Numbers(n)) = n
      /\ \A i \in 1..n : Numbers(n)[i] = i
    BY DEF Numbers
<1>3. v \in Maps(1..n, S)
    BY <1>1 DEF Maps
<1>4. PICK e : e = Indices(n, K)
    OBVIOUS
<1>5. e \in Seq(K \cap (1..n)) /\ e \in Seq(1..n) /\ Len(e) \in Nat
    BY <1>4, IndicesAscend
<1>6. Mapped(Numbers(n), v) = v
    <2>1. /\ Mapped(Numbers(n), v) \in Seq(S) /\ Len(Mapped(Numbers(n), v)) = n
          /\ \A i \in 1..n : Mapped(Numbers(n), v)[i] = v[Numbers(n)[i]]
        BY <1>2, <1>3, MappedType
    <2> QED BY <1>1, <1>2, <2>1, SeqEqual
<1>7. Retain(v, K) = Mapped(e, v)
    BY <1>2, <1>3, <1>4, <1>6, RetainMap DEF Indices
<1>8. /\ Len(Mapped(e, v)) = Len(e)
      /\ \A j \in 1..Len(e) : Mapped(e, v)[j] = v[e[j]]
    BY <1>3, <1>5, MappedType
<1>9. \A j \in 1..Len(e) : e[j] \in K \cap (1..n)
    BY <1>5, ElementOfSeq
<1> QED BY <1>1, <1>4, <1>5, <1>7, <1>8, <1>9

-----------------------------------------------------------------------------
(* Sums.                                                                   *)

LEMMA SumPositions ==
    ASSUME NEW v \in Seq(Nat), NEW K, NEW L, K \cap (1..Len(v)) = L \cap (1..Len(v))
    PROVE  SumOver(v, K) = SumOver(v, L)
<1>1. K \cap (1..Len(v)) \subseteq L /\ L \cap (1..Len(v)) \subseteq K
    OBVIOUS
<1>2. SumOver(v, K) <= SumOver(v, L) /\ SumOver(v, L) <= SumOver(v, K)
    BY <1>1, SumMonotone
<1>3. SumOver(v, K) \in Nat /\ SumOver(v, L) \in Nat
    BY SumProperties
<1> QED BY <1>2, <1>3

(* Disjoint sets of positions.                                             *)
LEMMA SumUnion ==
    ASSUME NEW v \in Seq(Nat), NEW K, NEW L, K \cap L = {}
    PROVE  SumOver(v, K \cup L) = SumOver(v, K) + SumOver(v, L)
<1> DEFINE P == {s \in Seq(Nat) : SumOver(s, K \cup L) = SumOver(s, K) + SumOver(s, L)}
<1>1. << >> \in P
    BY SumEmpty
<1>2. ASSUME NEW s \in Seq(Nat), s \in P, NEW x \in Nat PROVE Append(s, x) \in P
    <2>1. Append(s, x) \in Seq(Nat)
        OBVIOUS
    <2>2. \A M : /\ SumOver(s, M) \in Nat
                 /\ SumOver(Append(s, x), M) =
                       IF Len(s) + 1 \in M THEN SumOver(s, M) + x ELSE SumOver(s, M)
        BY SumAppend, SumProperties
    <2>3. SumOver(s, K \cup L) = SumOver(s, K) + SumOver(s, L)
        BY <1>2
    <2>4. ~ (Len(s) + 1 \in K /\ Len(s) + 1 \in L)
        OBVIOUS
    <2> HIDE DEF P
    <2>5. SumOver(Append(s, x), K \cup L)
             = SumOver(Append(s, x), K) + SumOver(Append(s, x), L)
        BY <2>2, <2>3, <2>4
    <2> QED BY <2>1, <2>5 DEF P
<1> HIDE DEF P
<1>3. v \in P
    BY <1>1, <1>2, SeqSetInduction
<1> QED BY <1>3 DEF P

LEMMA SumZero ==
    ASSUME NEW v \in Seq(Nat), NEW K, \A i \in K \cap (1..Len(v)) : v[i] = 0
    PROVE  SumOver(v, K) = 0
<1> DEFINE P == {s \in Seq(Nat) :
                    (\A i \in K \cap (1..Len(s)) : s[i] = 0) => SumOver(s, K) = 0}
<1>1. << >> \in P
    BY SumEmpty
<1>2. ASSUME NEW s \in Seq(Nat), s \in P, NEW x \in Nat PROVE Append(s, x) \in P
    <2>1. /\ Append(s, x) \in Seq(Nat) /\ Len(s) \in Nat /\ Len(Append(s, x)) = Len(s) + 1
          /\ \A i \in 1..Len(s) : Append(s, x)[i] = s[i]
          /\ Append(s, x)[Len(s) + 1] = x
        BY AppendProperties
    <2>2. SUFFICES ASSUME \A i \in K \cap (1..(Len(s) + 1)) : Append(s, x)[i] = 0
                   PROVE  SumOver(Append(s, x), K) = 0
        BY <2>1
    <2>3. \A i \in K \cap (1..Len(s)) : s[i] = 0
        BY <2>1, <2>2
    <2>4. Len(s) + 1 \in K => x = 0
        BY <2>1, <2>2
    <2>5. SumOver(s, K) = 0
        BY <1>2, <2>3
    <2>6. SumOver(Append(s, x), K) =
             IF Len(s) + 1 \in K THEN SumOver(s, K) + x ELSE SumOver(s, K)
        BY SumAppend
    <2> HIDE DEF P
    <2> QED BY <2>4, <2>5, <2>6
<1> HIDE DEF P
<1>3. v \in P
    BY <1>1, <1>2, SeqSetInduction
<1> QED BY <1>3 DEF P

(* Positions that add nothing.                                             *)
LEMMA SumNarrow ==
    ASSUME NEW v \in Seq(Nat), NEW K, NEW L, L \subseteq K,
           \A i \in (K \ L) \cap (1..Len(v)) : v[i] = 0
    PROVE  SumOver(v, K) = SumOver(v, L)
<1>1. SumOver(v, K \ L) = 0
    BY SumZero
<1>2. PICK M : M = K \ L
    OBVIOUS
<1>3. L \cap M = {} /\ L \cup M = K
    BY <1>2
<1>4. SumOver(v, L \cup M) = SumOver(v, L) + SumOver(v, M)
    BY <1>3, SumUnion
<1>5. SumOver(v, L) \in Nat /\ SumOver(v, M) = 0
    BY <1>1, <1>2, SumProperties
<1>6. SumOver(v, L \cup M) = SumOver(v, L)
    BY <1>4, <1>5
<1> QED BY <1>3, <1>6

(* Adding up term by term.                                                 *)
LEMMA SumAdd ==
    ASSUME NEW u \in Seq(Nat), NEW v \in Seq(Nat), NEW w \in Seq(Nat), NEW K,
           Len(u) = Len(w), Len(v) = Len(w),
           \A i \in K \cap (1..Len(w)) : w[i] = u[i] + v[i]
    PROVE  SumOver(w, K) = SumOver(u, K) + SumOver(v, K)
<1>1. PICK a : SumRun(u, K, a)
    BY SumRec
<1>2. PICK b : SumRun(v, K, b)
    BY SumRec
<1>3. PICK c : SumRun(w, K, c)
    BY SumRec
<1> DEFINE A == {n \in Nat : n <= Len(w) => c[n] = a[n] + b[n]}
<1>4. Len(w) \in Nat
    OBVIOUS
<1>5. 0 \in A
    BY <1>1, <1>2, <1>3 DEF SumRun
<1>6. ASSUME NEW n \in Nat, n \in A PROVE n + 1 \in A
    <2>1. SUFFICES ASSUME n + 1 <= Len(w) PROVE c[n + 1] = a[n + 1] + b[n + 1]
        OBVIOUS
    <2>2. n \in 0..(Len(w) - 1) /\ n \in 0..Len(w) /\ n + 1 \in 1..Len(w)
        BY <1>4, <2>1
    <2>3. c[n] = a[n] + b[n]
        BY <1>6, <2>2
    <2>4. /\ a[n] \in Nat /\ b[n] \in Nat /\ u[n + 1] \in Nat /\ v[n + 1] \in Nat
          /\ n + 1 \in K => w[n + 1] = u[n + 1] + v[n + 1]
        BY <1>1, <1>2, <2>2, ElementOfSeq DEF SumRun
    <2>5. /\ a[n + 1] = IF n + 1 \in K THEN a[n] + u[n + 1] ELSE a[n]
          /\ b[n + 1] = IF n + 1 \in K THEN b[n] + v[n + 1] ELSE b[n]
          /\ c[n + 1] = IF n + 1 \in K THEN c[n] + w[n + 1] ELSE c[n]
        BY <1>1, <1>2, <1>3, <2>2 DEF SumRun
    <2> QED BY <2>3, <2>4, <2>5
<1> HIDE DEF A
<1>7. Len(w) \in A
    BY <1>4, <1>5, <1>6, NatSetInduction
<1>8. c[Len(w)] = a[Len(w)] + b[Len(w)]
    BY <1>4, <1>7 DEF A
<1> QED BY <1>1, <1>2, <1>3, <1>8 DEF SumRun

(* A sum over what was retained.                                           *)
LEMMA SumOfRetained ==
    ASSUME NEW v \in Seq(Nat), NEW K
    PROVE  SumOver(Retain(v, K), 1..Len(Retain(v, K))) = SumOver(v, K)
<1> DEFINE P == {s \in Seq(Nat) :
                    SumOver(Retain(s, K), 1..Len(Retain(s, K))) = SumOver(s, K)}
<1>1. << >> \in P
    BY RetainEmpty, SumEmpty
<1>2. ASSUME NEW s \in Seq(Nat), s \in P, NEW x \in Nat PROVE Append(s, x) \in P
    <2>1. PICK r \in Seq(Nat) : r = Retain(s, K)
        BY RetainProperties
    <2>2. Append(s, x) \in Seq(Nat) /\ Len(r) \in Nat
        OBVIOUS
    <2>3. SumOver(r, 1..Len(r)) = SumOver(s, K)
        BY <1>2, <2>1
    <2>4. /\ Retain(Append(s, x), K) = IF Len(s) + 1 \in K THEN Append(r, x) ELSE r
          /\ SumOver(Append(s, x), K) =
                IF Len(s) + 1 \in K THEN SumOver(s, K) + x ELSE SumOver(s, K)
        BY <2>1, RetainAppend, SumAppend
    <2>5. SumOver(Append(r, x), 1..Len(Append(r, x))) = SumOver(r, 1..Len(r)) + x
        <3>1. Len(Append(r, x)) = Len(r) + 1
            BY AppendProperties
        <3>2. SumOver(Append(r, x), 1..(Len(r) + 1)) = SumOver(r, 1..(Len(r) + 1)) + x
            <4>1. PICK M : M = 1..(Len(r) + 1)
                OBVIOUS
            <4>2. Len(r) + 1 \in M
                BY <2>2, <4>1
            <4> QED BY <4>1, <4>2, SumAppend
        <3>3. (1..(Len(r) + 1)) \cap (1..Len(r)) = (1..Len(r)) \cap (1..Len(r))
            BY <2>2
        <3>4. SumOver(r, 1..(Len(r) + 1)) = SumOver(r, 1..Len(r))
            BY <3>3, SumPositions
        <3> QED BY <3>1, <3>2, <3>4
    <2> HIDE DEF P
    <2>6. SumOver(Retain(Append(s, x), K), 1..Len(Retain(Append(s, x), K)))
             = SumOver(Append(s, x), K)
        <3>1. CASE Len(s) + 1 \in K
            BY <2>3, <2>4, <2>5, <3>1
        <3>2. CASE Len(s) + 1 \notin K
            BY <2>3, <2>4, <3>2
        <3> QED BY <3>1, <3>2
    <2> QED BY <2>2, <2>6 DEF P
<1> HIDE DEF P
<1>3. v \in P
    BY <1>1, <1>2, SeqSetInduction
<1> QED BY <1>3 DEF P

(* Removing elements outside T does not change the sum over those in T.    *)
LEMMA SumOfFiltered ==
    ASSUME NEW S, NEW f \in Maps(S, Nat), NEW v \in Seq(S), NEW K, NEW T,
           InSet(v, T) \subseteq K
    PROVE  SumOver(Mapped(Retain(v, K), f), InSet(Retain(v, K), T))
              = SumOver(Mapped(v, f), InSet(v, T))
<1>1. ASSUME NEW s \in Seq(S)
      PROVE  SumOver(Mapped(s, f), InSet(s, T))
                = SumOver(Mapped(Filter(s, T), f), 1..Len(Mapped(Filter(s, T), f)))
    <2>1. PICK w \in Seq(Nat) : w = Mapped(s, f)
        BY MappedType
    <2>2. Retain(w, InSet(s, T)) = Mapped(Filter(s, T), f)
        BY <2>1, RetainMap DEF Filter
    <2>3. SumOver(Retain(w, InSet(s, T)), 1..Len(Retain(w, InSet(s, T))))
             = SumOver(w, InSet(s, T))
        BY SumOfRetained
    <2> QED BY <2>1, <2>2, <2>3
<1>2. PICK r \in Seq(S) : r = Retain(v, K)
    BY RetainProperties
<1>3. Filter(r, T) = Filter(v, T)
    BY <1>2, FilterOfRetain
<1>4. SumOver(Mapped(r, f), InSet(r, T)) = SumOver(Mapped(v, f), InSet(v, T))
    BY <1>1, <1>3
<1> QED BY <1>2, <1>4

(* Positions whose elements agree.                                         *)
LEMMA SumAgree ==
    ASSUME NEW v \in Seq(Nat), NEW w \in Seq(Nat), Len(v) = Len(w), NEW K,
           \A i \in K \cap (1..Len(v)) : v[i] = w[i]
    PROVE  SumOver(v, K) = SumOver(w, K)
<1>1. PICK a : SumRun(v, K, a)
    BY SumRec
<1>2. PICK b : SumRun(w, K, b)
    BY SumRec
<1> DEFINE A == {n \in Nat : n <= Len(v) => a[n] = b[n]}
<1>3. Len(v) \in Nat
    OBVIOUS
<1>4. 0 \in A
    BY <1>1, <1>2 DEF SumRun
<1>5. ASSUME NEW n \in Nat, n \in A PROVE n + 1 \in A
    <2>1. SUFFICES ASSUME n + 1 <= Len(v) PROVE a[n + 1] = b[n + 1]
        OBVIOUS
    <2>2. n \in 0..(Len(v) - 1) /\ n \in 0..Len(v) /\ n + 1 \in 1..Len(v)
        BY <1>3, <2>1
    <2>3. a[n] = b[n]
        BY <1>5, <2>2
    <2>4. n + 1 \in K => v[n + 1] = w[n + 1]
        BY <2>2
    <2>5. /\ a[n + 1] = IF n + 1 \in K THEN a[n] + v[n + 1] ELSE a[n]
          /\ b[n + 1] = IF n + 1 \in K THEN b[n] + w[n + 1] ELSE b[n]
        BY <1>1, <1>2, <2>2 DEF SumRun
    <2> QED BY <2>3, <2>4, <2>5
<1> HIDE DEF A
<1>6. Len(v) \in A
    BY <1>3, <1>4, <1>5, NatSetInduction
<1>7. a[Len(v)] = b[Len(v)]
    BY <1>3, <1>6 DEF A
<1> QED BY <1>1, <1>2, <1>7 DEF SumRun

-----------------------------------------------------------------------------
(* Shares rounded down.                                                    *)

(* What rounding down a share of a product leaves out.                     *)
LEMMA FloorBounds ==
    ASSUME NEW x \in Nat, NEW whole \in Nat, whole > 0
    PROVE  /\ x \div whole \in Nat
           /\ whole * (x \div whole) <= x
           /\ x < whole * (x \div whole) + whole
<1> DEFINE q == x \div whole
<1>1. q \in Int /\ whole * q <= x /\ x < whole * q + whole
    OBVIOUS
<1> HIDE DEF q
<1>2. q >= 0
    <2>1. SUFFICES ASSUME q <= -1 PROVE FALSE
        BY <1>1
    <2>2. whole * q <= -whole
        BY <2>1, <1>1
    <2> QED BY <2>2, <1>1
<1>3. q \in Nat
    BY <1>1, <1>2
<1> QED BY <1>1, <1>3 DEF q

(* When each of several claims gets its share of a part, rounded down, the *)
(* shares use up the part but for less than one unit a claim.              *)
LEMMA FloorSum ==
    ASSUME NEW o \in Seq(Nat), NEW s \in Seq(Nat), Len(s) = Len(o), NEW K,
           NEW whole \in Nat, whole > 0, SumOver(o, K) = whole,
           NEW part \in Nat,
           \A i \in K \cap (1..Len(o)) : s[i] = (o[i] * part) \div whole
    PROVE  /\ SumOver(s, K) <= part
           /\ part - SumOver(s, K) < Cardinality(K \cap (1..Len(o)))
<1>1. PICK a : SumRun(o, K, a)
    BY SumRec
<1>2. PICK b : SumRun(s, K, b)
    BY SumRec
<1> DEFINE At(n) == K \cap (1..n)
           A == {n \in Nat : n <= Len(o) =>
                    /\ Cardinality(At(n)) \in Nat
                    /\ whole * b[n] <= a[n] * part
                    /\ \/ At(n) = {} /\ a[n] = 0
                       \/ /\ Cardinality(At(n)) > 0
                          /\ a[n] * part < whole * (b[n] + Cardinality(At(n)))}
<1>3. Len(o) \in Nat
    OBVIOUS
<1>4. 0 \in A
    <2>1. At(0) = {} /\ Cardinality({}) = 0
        BY FS_EmptySet
    <2>2. a[0] = 0 /\ b[0] = 0
        BY <1>1, <1>2 DEF SumRun
    <2> QED BY <2>1, <2>2
<1>5. ASSUME NEW n \in Nat, n \in A PROVE n + 1 \in A
    <2>1. SUFFICES ASSUME n + 1 <= Len(o)
                   PROVE /\ Cardinality(At(n + 1)) \in Nat
                         /\ whole * b[n + 1] <= a[n + 1] * part
                         /\ \/ At(n + 1) = {} /\ a[n + 1] = 0
                            \/ /\ Cardinality(At(n + 1)) > 0
                               /\ a[n + 1] * part < whole * (b[n + 1] + Cardinality(At(n + 1)))
        OBVIOUS
    <2>2. n \in 0..(Len(o) - 1) /\ n \in 0..Len(o) /\ n + 1 \in 1..Len(o)
        BY <1>3, <2>1
    <2>3. /\ a[n] \in Nat /\ b[n] \in Nat
          /\ a[n + 1] = IF n + 1 \in K THEN a[n] + o[n + 1] ELSE a[n]
          /\ b[n + 1] = IF n + 1 \in K THEN b[n] + s[n + 1] ELSE b[n]
        BY <1>1, <1>2, <2>2 DEF SumRun
    <2>4. /\ Cardinality(At(n)) \in Nat
          /\ whole * b[n] <= a[n] * part
          /\ \/ At(n) = {} /\ a[n] = 0
             \/ /\ Cardinality(At(n)) > 0
                /\ a[n] * part < whole * (b[n] + Cardinality(At(n)))
        BY <1>5, <2>2
    <2>5. CASE n + 1 \notin K
        <3>1. At(n + 1) = At(n)
            BY <2>5, <2>2
        <3> HIDE DEF At
        <3> QED BY <2>3, <2>4, <2>5, <3>1
    <2>6. CASE n + 1 \in K
        <3>1. At(n + 1) = At(n) \cup {n + 1} /\ n + 1 \notin At(n)
            BY <2>6, <2>2
        <3>2. IsFiniteSet(At(n))
            <4>1. IsFiniteSet(1..n)
                BY FS_Interval
            <4>2. At(n) \subseteq 1..n
                OBVIOUS
            <4> QED BY <4>1, <4>2, FS_Subset
        <3> HIDE DEF At
        <3>3. Cardinality(At(n + 1)) = Cardinality(At(n)) + 1
            BY <3>1, <3>2, FS_AddElement
        <3>4. PICK p \in Nat, q \in Nat, c \in Nat, d \in Nat, k \in Nat :
                  /\ p = a[n] /\ q = o[n + 1] /\ c = b[n] /\ d = s[n + 1]
                  /\ k = Cardinality(At(n))
            <4>1. o[n + 1] \in Nat /\ s[n + 1] \in Nat
                BY <2>2, ElementOfSeq
            <4> QED BY <2>3, <2>4, <4>1
        <3>5. a[n + 1] = p + q /\ b[n + 1] = c + d
            BY <2>3, <2>6, <3>4
        <3>6. PICK x \in Nat, y \in Nat, z \in Nat, t \in Nat, g \in Nat :
                  /\ x = q * part /\ y = p * part
                  /\ z = whole * c /\ t = whole * d /\ g = whole * k
            OBVIOUS
        <3>7. t <= x /\ x < t + whole
            <4>1. d = x \div whole
                BY <2>2, <2>6, <3>4, <3>6
            <4>2. whole * d <= x /\ x < whole * d + whole
                BY <4>1, FloorBounds
            <4> QED BY <3>6, <4>2
        <3>8. (p + q) * part = y + x /\ whole * (c + d) = z + t /\ whole * (c + k) = z + g
            <4>1. (p + q) * part = p * part + q * part
                OBVIOUS
            <4>2. whole * (c + d) = whole * c + whole * d
                OBVIOUS
            <4>3. whole * (c + k) = whole * c + whole * k
                OBVIOUS
            <4> QED BY <3>6, <4>1, <4>2, <4>3
        <3>9. whole * ((c + d) + (k + 1)) = z + t + g + whole
            <4>1. whole * ((c + d) + (k + 1)) = whole * c + whole * d + whole * k + whole
                OBVIOUS
            <4> QED BY <3>6, <4>1
        <3>10. z <= y /\ y <= z + g
            <4>1. z <= y
                BY <2>4, <3>4, <3>6
            <4>2. CASE p = 0
                <5>1. y = 0
                    BY <3>6, <4>2
                <5> QED BY <4>1, <5>1
            <4>3. CASE y < whole * (c + k)
                BY <3>8, <4>1, <4>3
            <4> QED BY <2>4, <3>4, <3>6, <4>2, <4>3
        <3>11. z + t <= y + x /\ y + x < z + t + g + whole
            BY <3>7, <3>10
        <3>12. whole * b[n + 1] <= a[n + 1] * part
            BY <3>5, <3>8, <3>11
        <3>13. a[n + 1] * part < whole * (b[n + 1] + Cardinality(At(n + 1)))
            BY <3>3, <3>4, <3>5, <3>8, <3>9, <3>11
        <3>14. Cardinality(At(n + 1)) \in Nat /\ Cardinality(At(n + 1)) > 0
            BY <3>3, <3>4
        <3> QED BY <3>12, <3>13, <3>14
    <2> QED BY <2>5, <2>6
<1> HIDE DEF A
<1>6. Len(o) \in A
    BY <1>3, <1>4, <1>5, NatSetInduction
<1>7. a[Len(o)] = whole /\ b[Len(o)] = SumOver(s, K) /\ SumOver(s, K) \in Nat
    BY <1>1, <1>2, SumProperties DEF SumRun
<1>8. PICK k \in Nat, t \in Nat : k = Cardinality(At(Len(o))) /\ t = SumOver(s, K)
    BY <1>3, <1>6, <1>7 DEF A
<1>9. whole * t <= whole * part /\ whole * part < whole * (t + k)
    BY <1>3, <1>6, <1>7, <1>8 DEF A
<1>10. t <= part
    <2>1. SUFFICES ASSUME t >= part + 1 PROVE FALSE
        OBVIOUS
    <2>2. whole * t >= whole * (part + 1) /\ whole * (part + 1) = whole * part + whole
        BY <2>1
    <2>3. whole * part \in Nat /\ whole * t \in Nat
        OBVIOUS
    <2> QED BY <1>9, <2>2, <2>3
<1>11. part < t + k
    <2>1. SUFFICES ASSUME part >= t + k PROVE FALSE
        OBVIOUS
    <2>2. whole * part >= whole * (t + k)
        BY <2>1
    <2>3. whole * part \in Nat /\ whole * (t + k) \in Nat
        OBVIOUS
    <2> QED BY <1>9, <2>2, <2>3
<1> QED BY <1>8, <1>10, <1>11
=============================================================================
