-------------------------- MODULE MediaSource_proofs --------------------------
(***************************************************************************)
(* What holds of packets, frames and NALSourceAdapter for all contents,    *)
(* geometries, limits and numbers of buffers and packets.                  *)
(*                                                                         *)
(* The invariant, MediaInv, is that every reference has a count (it is the *)
(* property itself, and the operations take it from one to the next, given *)
(* the shapes of the objects), that a packet in the queue or the reader's  *)
(* hands holds what was pushed, that the numbers of the packets read, being*)
(* read and queued increase and are, with the dropped ones, all there are, *)
(* and that what was read are the units of what was pushed.  The last      *)
(* needs that UnitsFrom, a recursion from one start code to the next, finds*)
(* the spans between start codes: proved by an induction on what is left.  *)
(***************************************************************************)
EXTENDS MediaSource, FiniteSetTheorems, SequenceTheorems, WellFoundedInduction, TLAPS

-----------------------------------------------------------------------------
(* Induction over numbers                                                  *)

\* The order of the numbers is well-founded.
LEMMA LessIsWellFounded == IsWellFoundedOn({p \in Nat \X Nat : p[1] < p[2]}, Nat)
BY NatLessThanWellFounded DEF OpToRel

\* A set of numbers has a smallest one.
LEMMA Smallest ==
  ASSUME NEW T \in SUBSET Nat, T # {}
  PROVE  \E m \in T : \A n \in T : m <= n
<1> DEFINE less == {p \in Nat \X Nat : p[1] < p[2]}
<1>1. PICK m \in T : \A n \in T : <<n, m>> \notin less
  BY LessIsWellFounded, WFMin
<1>2. \A n \in T : n \in Nat /\ m \in Nat /\ ~(n < m)
  <2> SUFFICES ASSUME NEW n \in T PROVE n \in Nat /\ m \in Nat /\ ~(n < m)
    OBVIOUS
  <2>1. <<n, m>> \in Nat \X Nat /\ <<n, m>> \notin less
    BY <1>1
  <2> QED BY <2>1
<1> QED BY <1>2

\* A set that has 0, and with a number the next one, has them all.
LEMMA Induction ==
  ASSUME NEW T \in SUBSET Nat, 0 \in T, \A n \in T : n + 1 \in T
  PROVE  \A n \in Nat : n \in T
<1> SUFFICES ASSUME Nat \ T # {} PROVE FALSE
  OBVIOUS
<1>1. PICK m \in Nat \ T : \A n \in Nat \ T : m <= n
  BY Smallest
<1>2. m # 0 /\ m - 1 \in Nat /\ m - 1 \notin Nat \ T
  BY <1>1
<1>3. m - 1 \in T /\ (m - 1) + 1 = m
  BY <1>2
<1> QED BY <1>1, <1>3

\* A set that has every argument all of whose smaller ones it has, has them all.
LEMMA SizeInduction ==
  ASSUME NEW D, NEW size \in [D -> Nat], NEW T,
         \A b \in D : (\A c \in D : size[c] < size[b] => c \in T) => b \in T
  PROVE  \A b \in D : b \in T
<1> SUFFICES ASSUME NEW b \in D, b \notin T PROVE FALSE
  OBVIOUS
<1> DEFINE S == {size[c] : c \in D \ T}
<1>1. S \in SUBSET Nat /\ S # {}
  OBVIOUS
<1>2. PICK m \in S : \A n \in S : m <= n
  BY <1>1, Smallest
<1>3. PICK c \in D \ T : m = size[c]
  BY <1>2
<1>4. ASSUME NEW d \in D, size[d] < size[c], d \notin T PROVE FALSE
  <2>1. size[d] \in S
    BY <1>4
  <2>2. m <= size[d]
    BY <1>2, <2>1
  <2> QED BY <1>3, <1>4, <2>2
<1> QED BY <1>3, <1>4

\* A recursion over D with results in R: step takes an argument and the result of
\* the next, smaller, one to the result, unless the argument stops the recursion.
IsRecursion(D, R, size, stop, end, next, step) ==
    /\ size \in [D -> Nat] /\ stop \in [D -> BOOLEAN] /\ end \in [D -> R]
    /\ next \in [D -> D] /\ step \in [D -> [R -> R]]
    /\ \A b \in D : ~stop[b] => size[next[b]] < size[b]

Solution(f, D, R, stop, end, next, step) ==
    /\ f \in [D -> R]
    /\ \A b \in D : f[b] = IF stop[b] THEN end[b] ELSE step[b][f[next[b]]]

\* It has a solution.
LEMMA Recursion ==
  ASSUME NEW D, NEW R, NEW size, NEW stop, NEW end, NEW next, NEW step,
         IsRecursion(D, R, size, stop, end, next, step)
  PROVE  \E f : Solution(f, D, R, stop, end, next, step)
<1> USE DEF IsRecursion
<1> DEFINE Result(f, b) == IF stop[b] THEN end[b] ELSE step[b][f[next[b]]]
           Solves(f, n) == \A b \in D : size[b] < n => f[b] = Result(f, b)
<1>1. \A f \in [D -> R], b \in D : Result(f, b) \in R
  OBVIOUS
<1>2. \A n \in Nat : \E f \in [D -> R] : Solves(f, n)
  <2> DEFINE T == {n \in Nat : \E f \in [D -> R] : Solves(f, n)}
  <2>1. 0 \in T
    <3>1. end \in [D -> R] /\ Solves(end, 0)
      OBVIOUS
    <3> QED BY <3>1
  <2>2. ASSUME NEW n \in T PROVE n + 1 \in T
    <3>1. PICK f \in [D -> R] : Solves(f, n)
      BY <2>2
    <3> DEFINE h == [b \in D |-> IF size[b] < n THEN f[b] ELSE Result(f, b)]
    <3>2. h \in [D -> R]
      BY <1>1
    <3>3. ASSUME NEW b \in D, size[b] < n + 1 PROVE h[b] = Result(h, b)
      <4>1. h[b] = Result(f, b)
        BY <3>1
      <4>2. ~stop[b] => h[next[b]] = f[next[b]]
        BY <3>3
      <4> QED BY <4>1, <4>2
    <3> HIDE DEF h
    <3>4. Solves(h, n + 1)
      BY <3>3
    <3> QED BY <3>2, <3>4
  <2> HIDE DEF T
  <2>3. T \in SUBSET Nat
    BY DEF T
  <2>4. \A n \in Nat : n \in T
    BY <2>1, <2>2, <2>3, Induction
  <2> QED BY <2>4 DEF T
<1> DEFINE F == [n \in Nat |-> CHOOSE f \in [D -> R] : Solves(f, n)]
           h == [b \in D |-> F[size[b] + 1][b]]
<1>3. \A n \in Nat : F[n] \in [D -> R] /\ Solves(F[n], n)
  BY <1>2
<1> HIDE DEF F
<1>4. \A k \in Nat : \A b \in D : size[b] < k => \A n \in Nat : size[b] < n => F[n][b] = h[b]
  <2> DEFINE T == {k \in Nat : \A b \in D : size[b] < k => \A n \in Nat : size[b] < n => F[n][b] = h[b]}
  <2>1. 0 \in T
    OBVIOUS
  <2>2. ASSUME NEW k \in T PROVE k + 1 \in T
    <3>1. ASSUME NEW b \in D, size[b] < k + 1, NEW n \in Nat, size[b] < n PROVE F[n][b] = h[b]
      <4> DEFINE m == size[b] + 1
      <4>1. m \in Nat /\ size[b] < m
        OBVIOUS
      <4>2. h[b] = F[m][b]
        OBVIOUS
      <4>3. F[n][b] = Result(F[n], b) /\ F[m][b] = Result(F[m], b)
        BY <1>3, <3>1, <4>1
      <4>4. ~stop[b] => F[n][next[b]] = F[m][next[b]]
        <5> SUFFICES ASSUME ~stop[b] PROVE F[n][next[b]] = F[m][next[b]]
          OBVIOUS
        <5>1. next[b] \in D /\ size[next[b]] < k /\ size[next[b]] < n /\ size[next[b]] < m
          BY <3>1
        <5> HIDE DEF h, m
        <5>2. F[n][next[b]] = h[next[b]] /\ F[m][next[b]] = h[next[b]]
          BY <2>2, <4>1, <5>1
        <5> QED BY <5>2
      <4> QED BY <4>2, <4>3, <4>4
    <3> HIDE DEF h
    <3> QED BY <3>1
  <2> HIDE DEF T, h
  <2>3. T \in SUBSET Nat
    BY DEF T
  <2>4. \A n \in Nat : n \in T
    BY <2>1, <2>2, <2>3, Induction
  <2> QED BY <2>4 DEF T
<1>5. h \in [D -> R]
  BY <1>3
<1>6. ASSUME NEW b \in D PROVE h[b] = Result(h, b)
  <2> DEFINE m == size[b] + 1
  <2>1. m \in Nat /\ size[b] < m /\ h[b] = F[m][b]
    OBVIOUS
  <2> HIDE DEF m
  <2>2. F[m][b] = Result(F[m], b)
    BY <1>3, <2>1
  <2>3. ~stop[b] => F[m][next[b]] = h[next[b]]
    <3> SUFFICES ASSUME ~stop[b] PROVE F[m][next[b]] = h[next[b]]
      OBVIOUS
    <3>1. next[b] \in D /\ size[next[b]] \in Nat /\ size[next[b]] < m /\ size[next[b]] < size[next[b]] + 1
      BY <2>1
    <3> HIDE DEF h
    <3> QED BY <1>4, <2>1, <3>1
  <2> QED BY <2>1, <2>2, <2>3
<1> HIDE DEF h
<1>7. Solution(h, D, R, stop, end, next, step)
  BY <1>5, <1>6 DEF Solution
<1> QED BY <1>7

-----------------------------------------------------------------------------
(* Flattening                                                              *)

Flattens(g, s) == g = [i \in 1 .. Len(s) |-> IF i = 1 THEN s[i] ELSE g[i - 1] \o s[i]]

\* A sequence of sequences that is not empty can be flattened.
LEMMA FlatteningExists ==
  ASSUME NEW s \in Seq(Seq(Nat)), s # <<>>
  PROVE  \E g : Flattens(g, s) /\ FlattenSeq(s) = g[Len(s)]
<1> DEFINE D == 1 .. Len(s)
           R == Seq(Nat)
           size == [i \in D |-> i]
           stop == [i \in D |-> i = 1]
           end == [i \in D |-> s[i]]
           next == [i \in D |-> IF i = 1 THEN i ELSE i - 1]
           step == [i \in D |-> [r \in R |-> r \o s[i]]]
<1>1. size \in [D -> Nat] /\ stop \in [D -> BOOLEAN] /\ end \in [D -> R] /\ next \in [D -> D]
  OBVIOUS
<1>2. step \in [D -> [R -> R]]
  OBVIOUS
<1>3. ASSUME NEW i \in D, ~stop[i] PROVE size[next[i]] < size[i]
  <2>0. i # 1
    BY <1>3, Zenon
  <2>1. i # 1 /\ i - 1 \in D
    <3> HIDE DEF size, stop, end, next, step
    <3> QED BY <2>0
  <2>2. next[i] = i - 1
    BY <2>1
  <2>3. size[i - 1] = i - 1 /\ size[i] = i
    BY <2>1
  <2> HIDE DEF size, next
  <2>4. i - 1 < i
    OBVIOUS
  <2> QED BY <2>2, <2>3, <2>4
<1> HIDE DEF size, stop, end, next, step, D, R
<1>4. PICK f : Solution(f, D, R, stop, end, next, step)
  <2>1. IsRecursion(D, R, size, stop, end, next, step)
    BY <1>1, <1>2, <1>3 DEF IsRecursion
  <2> QED BY <2>1, Recursion
<1>5. ASSUME NEW i \in D PROVE f[i] = IF i = 1 THEN s[i] ELSE f[i - 1] \o s[i]
  <2>1. f[next[i]] \in R
    BY <1>1, <1>4 DEF Solution
  <2> QED BY <1>4, <2>1 DEF Solution, stop, end, next, step
<1>6. Flattens(f, s)
  BY <1>4, <1>5 DEF Flattens, Solution, D
<1> DEFINE h == CHOOSE flatten : flatten = [i \in 1 .. Len(s) |-> IF i = 1 THEN s[i] ELSE flatten[i - 1] \o s[i]]
<1>7. Flattens(h, s)
  BY <1>6, Zenon DEF Flattens
<1>8. FlattenSeq(s) = h[Len(s)]
  <2>1. Len(s) # 0
    OBVIOUS
  <2> QED BY <2>1, Zenon DEF FlattenSeq
<1> QED BY <1>7, <1>8

\* A frame at the end of the frames is at the end of what they flatten to.
LEMMA FlattenAppend ==
  ASSUME NEW s \in Seq(Seq(Nat)), NEW b \in Seq(Nat)
  PROVE  FlattenSeq(s \o <<b>>) = FlattenSeq(s) \o b
<1> DEFINE t == s \o <<b>>
           n == Len(s)
<1>1. /\ t \in Seq(Seq(Nat)) /\ t # <<>> /\ Len(t) = n + 1 /\ n \in Nat
      /\ t[n + 1] = b /\ \A i \in 1 .. n : t[i] = s[i]
  OBVIOUS
<1> HIDE DEF t
<1>2. PICK g : Flattens(g, t) /\ FlattenSeq(t) = g[n + 1]
  BY <1>1, FlatteningExists
<1>3. \A i \in 1 .. n + 1 : g[i] = IF i = 1 THEN t[i] ELSE g[i - 1] \o t[i]
  BY <1>1, <1>2 DEF Flattens
<1>4. CASE s = <<>>
  <2>1. FlattenSeq(s) = <<>> /\ n = 0
    BY <1>4 DEF FlattenSeq
  <2>2. FlattenSeq(t) = b
    BY <1>1, <1>2, <1>3, <2>1
  <2> QED BY <2>1, <2>2 DEF t
<1>5. CASE s # <<>>
  <2>1. PICK h : Flattens(h, s) /\ FlattenSeq(s) = h[n]
    BY <1>5, FlatteningExists
  <2>2. \A i \in 1 .. n : h[i] = IF i = 1 THEN s[i] ELSE h[i - 1] \o s[i]
    BY <2>1 DEF Flattens
  <2> DEFINE T == {i \in Nat : i \in 1 .. n => g[i] = h[i]}
  <2>3. 0 \in T
    OBVIOUS
  <2>4. ASSUME NEW i \in T PROVE i + 1 \in T
    <3> SUFFICES ASSUME i + 1 \in 1 .. n PROVE g[i + 1] = h[i + 1]
      OBVIOUS
    <3>1. i + 1 \in 1 .. n + 1 /\ t[i + 1] = s[i + 1]
      BY <1>1
    <3>2. CASE i = 0
      BY <1>3, <2>2, <3>1, <3>2
    <3>3. CASE i # 0
      <4>1. g[i] = h[i] /\ i + 1 # 1 /\ (i + 1) - 1 = i
        BY <2>4, <3>3
      <4>2. g[i + 1] = g[i] \o t[i + 1] /\ h[i + 1] = h[i] \o s[i + 1]
        BY <1>3, <2>2, <3>1, <4>1
      <4> QED BY <3>1, <4>1, <4>2
    <3> QED BY <3>2, <3>3
  <2> HIDE DEF T
  <2>5. T \in SUBSET Nat
    BY DEF T
  <2>6. \A i \in Nat : i \in T
    BY <2>3, <2>4, <2>5, Induction
  <2>7. g[n] = h[n] /\ n # 0
    BY <1>1, <1>5, <2>6 DEF T
  <2>8. n + 1 \in 1 .. n + 1 /\ n + 1 # 1 /\ (n + 1) - 1 = n
    BY <1>1, <2>7
  <2>9. g[n + 1] = g[n] \o b
    BY <1>1, <1>3, <2>8
  <2> QED BY <1>2, <2>1, <2>7, <2>9 DEF t
<1> QED BY <1>4, <1>5

-----------------------------------------------------------------------------
(* Counting                                                                *)

At(b, s) == {i \in DOMAIN s : s[i] = b}

\* A count is a number.
LEMMA TimesType ==
  ASSUME NEW S, NEW s \in Seq(S), NEW b
  PROVE  Times(b, s) \in Nat /\ IsFiniteSet(At(b, s)) /\ Times(b, s) = Cardinality(At(b, s))
<1>1. IsFiniteSet(1 .. Len(s))
  BY FS_Interval
<1>2. At(b, s) \in SUBSET (1 .. Len(s))
  BY DEF At
<1>3. IsFiniteSet(At(b, s))
  BY <1>1, <1>2, FS_Subset
<1> QED BY <1>3, FS_CardinalityType DEF Times, At

\* What does not occur counts nothing.
LEMMA TimesNone ==
  ASSUME NEW S, NEW s \in Seq(S), NEW b, \A i \in 1 .. Len(s) : s[i] # b
  PROVE  Times(b, s) = 0
<1>1. At(b, s) = {}
  BY DEF At
<1> QED BY <1>1, TimesType, FS_EmptySet

\* What occurs once counts one.
LEMMA TimesOne ==
  ASSUME NEW S, NEW s \in Seq(S), NEW b, NEW k \in 1 .. Len(s), s[k] = b,
         \A i \in 1 .. Len(s) : s[i] = b => i = k
  PROVE  Times(b, s) = 1
<1>1. At(b, s) = {k}
  BY DEF At
<1> QED BY <1>1, TimesType, FS_Singleton

\* Where b is in s it is in t: no more of s.
LEMMA TimesLess ==
  ASSUME NEW S, NEW s \in Seq(S), NEW T, NEW t \in Seq(T), NEW b,
         \A i \in 1 .. Len(s) : s[i] = b => i \in 1 .. Len(t) /\ t[i] = b
  PROVE  Times(b, s) <= Times(b, t)
<1>1. At(b, s) \in SUBSET At(b, t)
  BY DEF At
<1>2. /\ IsFiniteSet(At(b, t)) /\ Times(b, t) = Cardinality(At(b, t))
      /\ Times(b, s) = Cardinality(At(b, s))
  BY TimesType
<1> QED BY <1>1, <1>2, FS_Subset

\* If t has it at one place more.
LEMMA TimesLessOne ==
  ASSUME NEW S, NEW s \in Seq(S), NEW T, NEW t \in Seq(T), NEW b,
         NEW k \in 1 .. Len(t), t[k] = b,
         \A i \in 1 .. Len(s) : s[i] = b => i # k /\ i \in 1 .. Len(t) /\ t[i] = b
  PROVE  Times(b, s) <= Times(b, t) - 1
<1>1. At(b, s) \in SUBSET (At(b, t) \ {k}) /\ k \in At(b, t)
  BY DEF At
<1>2. /\ IsFiniteSet(At(b, t)) /\ Times(b, t) = Cardinality(At(b, t))
      /\ Times(b, s) = Cardinality(At(b, s))
  BY TimesType
<1>3. IsFiniteSet(At(b, t) \ {k}) /\ Cardinality(At(b, t) \ {k}) = Times(b, t) - 1
  BY <1>1, <1>2, FS_RemoveElement
<1>4. Cardinality(At(b, s)) <= Cardinality(At(b, t) \ {k})
  BY <1>1, <1>3, FS_Subset
<1> QED BY <1>2, <1>3, <1>4

\* Where b is in s it is in t or in u.
LEMMA TimesBoth ==
  ASSUME NEW S, NEW s \in Seq(S), NEW T, NEW t \in Seq(T), NEW U, NEW u \in Seq(U), NEW b,
         \A i \in 1 .. Len(s) : s[i] = b =>
            (i \in 1 .. Len(t) /\ t[i] = b) \/ (i \in 1 .. Len(u) /\ u[i] = b)
  PROVE  Times(b, s) <= Times(b, t) + Times(b, u)
<1> DEFINE A == At(b, t)
           B == At(b, u)
<1>1. At(b, s) \in SUBSET (A \cup B)
  BY DEF At
<1>2. /\ IsFiniteSet(A) /\ Times(b, t) = Cardinality(A) /\ Cardinality(A) \in Nat
      /\ IsFiniteSet(B) /\ Times(b, u) = Cardinality(B) /\ Cardinality(B) \in Nat
      /\ Times(b, s) = Cardinality(At(b, s)) /\ Times(b, s) \in Nat
  BY TimesType
<1> HIDE DEF A, B
<1>3. IsFiniteSet(A \cup B) /\ Cardinality(A \cup B) = Cardinality(A) + Cardinality(B) - Cardinality(A \cap B)
  BY <1>2, FS_Union
<1>4. Cardinality(A \cap B) \in Nat
  BY <1>2, FS_Intersection, FS_CardinalityType
<1>5. Cardinality(At(b, s)) <= Cardinality(A \cup B)
  BY <1>1, <1>3, FS_Subset
<1> QED BY <1>2, <1>3, <1>4, <1>5

\* A sequence and another one behind it.
LEMMA TimesJoined ==
  ASSUME NEW S, NEW s \in Seq(S), NEW t \in Seq(S), NEW b
  PROVE  Times(b, s \o t) = Times(b, s) + Times(b, t)
<1> DEFINE m == Len(s)
           A == At(b, s)
           B == At(b, t)
           C == {i \in m + 1 .. m + Len(t) : t[i - m] = b}
           f == [i \in B |-> m + i]
<1>1. m \in Nat /\ Len(t) \in Nat /\ s \o t \in Seq(S)
  OBVIOUS
<1>2. /\ IsFiniteSet(A) /\ Times(b, s) = Cardinality(A) /\ Cardinality(A) \in Nat
      /\ IsFiniteSet(B) /\ Times(b, t) = Cardinality(B) /\ Cardinality(B) \in Nat
      /\ Times(b, s \o t) = Cardinality(At(b, s \o t))
  BY <1>1, TimesType
<1>3. f \in Bijection(B, C)
  <2>1. \A i \in B : i \in 1 .. Len(t) /\ t[i] = b
    BY DEF At
  <2>2. f \in [B -> C]
    BY <1>1, <2>1
  <2>3. \A i, j \in B : f[i] = f[j] => i = j
    BY <1>1, <2>1
  <2>4. ASSUME NEW c \in C PROVE \E i \in B : f[i] = c
    <3>1. c - m \in 1 .. Len(t) /\ t[c - m] = b /\ m + (c - m) = c
      BY <1>1
    <3>2. c - m \in B
      BY <3>1 DEF At
    <3> QED BY <3>1, <3>2
  <2> HIDE DEF f, B, C
  <2> QED BY <2>2, <2>3, <2>4 DEF Bijection, Injection, Surjection, IsInjective
<1>4. IsFiniteSet(C) /\ Cardinality(C) = Cardinality(B)
  <2>1. ExistsBijection(B, C)
    BY <1>3 DEF ExistsBijection
  <2> HIDE DEF B, C
  <2> QED BY <1>2, <2>1, FS_Bijection
<1>5. At(b, s \o t) = A \cup C /\ A \cap C = {}
  BY <1>1 DEF At
<1> HIDE DEF A, B, C
<1>6. Cardinality(A \cup C) = Cardinality(A) + Cardinality(C) - Cardinality(A \cap C)
  BY <1>2, <1>4, FS_Union
<1>7. Cardinality(A \cap C) = 0
  BY <1>5, FS_EmptySet
<1> QED BY <1>2, <1>4, <1>5, <1>6, <1>7

\* What sequences over T flatten to is one.
LEMMA FlattenType ==
  ASSUME NEW T \in SUBSET Nat, NEW s \in Seq(Seq(T))
  PROVE  FlattenSeq(s) \in Seq(T)
<1>1. CASE s = <<>>
  <2>1. FlattenSeq(s) = <<>>
    BY <1>1 DEF FlattenSeq
  <2> QED BY <2>1
<1>2. CASE s # <<>>
  <2>1. s \in Seq(Seq(Nat))
    <3>1. \A r \in Seq(T) : r \in Seq(Nat)
      BY SeqMonotonic
    <3>2. Seq(T) \subseteq Seq(Nat)
      BY <3>1
    <3> QED BY <3>2, SeqMonotonic
  <2>2. PICK g : Flattens(g, s) /\ FlattenSeq(s) = g[Len(s)]
    BY <1>2, <2>1, FlatteningExists
  <2>3. \A i \in 1 .. Len(s) : g[i] = IF i = 1 THEN s[i] ELSE g[i - 1] \o s[i]
    BY <2>2 DEF Flattens
  <2> DEFINE U == {i \in Nat : i \in 1 .. Len(s) => g[i] \in Seq(T)}
  <2>4. 0 \in U
    OBVIOUS
  <2>5. ASSUME NEW i \in U PROVE i + 1 \in U
    <3> SUFFICES ASSUME i + 1 \in 1 .. Len(s) PROVE g[i + 1] \in Seq(T)
      OBVIOUS
    <3>1. s[i + 1] \in Seq(T)
      OBVIOUS
    <3>2. CASE i = 0
      BY <2>3, <3>1, <3>2
    <3>3. CASE i # 0
      <4>1. g[i] \in Seq(T) /\ i + 1 # 1 /\ (i + 1) - 1 = i
        BY <2>5, <3>3
      <4>2. g[i + 1] = g[i] \o s[i + 1]
        BY <2>3, <4>1
      <4> QED BY <3>1, <4>1, <4>2
    <3> QED BY <3>2, <3>3
  <2> HIDE DEF U
  <2>6. U \in SUBSET Nat
    BY DEF U
  <2>7. \A i \in Nat : i \in U
    BY <2>4, <2>5, <2>6, Induction
  <2>8. Len(s) \in U /\ Len(s) \in 1 .. Len(s)
    BY <1>2, <2>7
  <2> QED BY <2>2, <2>8 DEF U
<1> QED BY <1>1, <1>2

Associates(p, q, r) == p \o (q \o r) = (p \o q) \o r

\* Concatenation is associative.
LEMMA Associative ==
  ASSUME NEW S, NEW p \in Seq(S), NEW q \in Seq(S), NEW r \in Seq(S)
  PROVE  Associates(p, q, r)
BY ConcatAssociative DEF Associates

\* The first element of a sequence is at the front of what it flattens to.
LEMMA FlattenFirst ==
  ASSUME NEW a \in Seq(Nat), NEW s \in Seq(Seq(Nat))
  PROVE  FlattenSeq(<<a>> \o s) = a \o FlattenSeq(s)
<1> DEFINE t == <<a>> \o s
           n == Len(s)
<1>1. /\ t \in Seq(Seq(Nat)) /\ t # <<>> /\ Len(t) = n + 1 /\ n \in Nat
      /\ t[1] = a /\ \A i \in 1 .. n : t[i + 1] = s[i]
  OBVIOUS
<1> HIDE DEF t
<1>2. PICK g : Flattens(g, t) /\ FlattenSeq(t) = g[n + 1]
  BY <1>1, FlatteningExists
<1>3. \A i \in 1 .. n + 1 : g[i] = IF i = 1 THEN t[i] ELSE g[i - 1] \o t[i]
  BY <1>1, <1>2 DEF Flattens
<1>4. CASE s = <<>>
  <2>1. FlattenSeq(s) = <<>> /\ n = 0
    BY <1>4 DEF FlattenSeq
  <2>2. FlattenSeq(t) = a
    BY <1>1, <1>2, <1>3, <2>1
  <2> QED BY <2>1, <2>2 DEF t
<1>5. CASE s # <<>>
  <2>1. PICK h : Flattens(h, s) /\ FlattenSeq(s) = h[n]
    BY <1>5, FlatteningExists
  <2>2. \A i \in 1 .. n : h[i] = IF i = 1 THEN s[i] ELSE h[i - 1] \o s[i]
    BY <2>1 DEF Flattens
  <2> DEFINE T == {i \in Nat : i \in 1 .. n => h[i] \in Seq(Nat) /\ g[i + 1] = a \o h[i]}
  <2>3. 0 \in T
    OBVIOUS
  <2>4. ASSUME NEW i \in T PROVE i + 1 \in T
    <3> SUFFICES ASSUME i + 1 \in 1 .. n PROVE h[i + 1] \in Seq(Nat) /\ g[i + 2] = a \o h[i + 1]
      OBVIOUS
    <3>1. i + 2 \in 1 .. n + 1 /\ t[i + 2] = s[i + 1] /\ s[i + 1] \in Seq(Nat) /\ i + 2 # 1
      BY <1>1
    <3>2. g[i + 2] = g[i + 1] \o s[i + 1]
      <4>1. (i + 2) - 1 = i + 1
        OBVIOUS
      <4> QED BY <1>3, <3>1, <4>1
    <3>3. CASE i = 0
      <4>1. 1 \in 1 .. n /\ 1 \in 1 .. n + 1 /\ i + 1 = 1 /\ i + 2 = 2
        BY <1>1, <3>3
      <4>2. g[1] = a /\ h[1] = s[1]
        BY <1>1, <1>3, <2>2, <4>1
      <4> HIDE <1>3, <2>2
      <4> QED BY <3>1, <3>2, <4>1, <4>2
    <3>4. CASE i # 0
      <4>1. h[i] \in Seq(Nat) /\ g[i + 1] = a \o h[i] /\ i + 1 # 1 /\ (i + 1) - 1 = i
        BY <2>4, <3>4
      <4>2. h[i + 1] = h[i] \o s[i + 1]
        BY <2>2, <4>1
      <4>3. (a \o h[i]) \o s[i + 1] = a \o (h[i] \o s[i + 1])
        <5>1. Associates(a, h[i], s[i + 1])
          BY <3>1, <4>1, Associative
        <5> QED BY <5>1, Zenon DEF Associates
      <4> QED BY <3>1, <3>2, <4>1, <4>2, <4>3
    <3> QED BY <3>3, <3>4
  <2> HIDE DEF T
  <2>5. T \in SUBSET Nat
    BY DEF T
  <2>6. \A i \in Nat : i \in T
    BY <2>3, <2>4, <2>5, Induction
  <2>7. n \in T /\ n \in 1 .. n
    BY <1>1, <1>5, <2>6
  <2> QED BY <1>2, <2>1, <2>7 DEF T, t
<1> QED BY <1>4, <1>5

-----------------------------------------------------------------------------
(* Objects and what they refer to                                          *)

Image == Images \cup {NoImage}

\* An object with that many slots, where n buffers have been made.
Holder(slots, n) ==
    [own : [1 .. slots -> 0 .. n], wrap : Seq(0 .. n), planes : 0 .. slots, image : Image]

\* A MediaPacket; its adapter always has a buffer.
Packet(n) ==
    [own : [1 .. 1 -> 0 .. n], wrap : Seq(1 .. n), planes : 0 .. 1, image : Image]

Item(n) == [id : Nat, packet : Packet(n)]

\* What an object refers to is what its struct and its adapters refer to.
LEMMA HolderShape ==
  ASSUME NEW slots \in Nat, NEW n \in Nat, NEW h \in Holder(slots, n)
  PROVE  /\ h.own \in Seq(0 .. n) /\ Len(h.own) = slots /\ h.wrap \in Seq(0 .. n)
         /\ h.planes \in 0 .. slots /\ Refs(h) \in Seq(0 .. n) /\ Refs(h) \in Seq(Nat)
         /\ \A b : Times(b, Refs(h)) = Times(b, h.own) + Times(b, h.wrap)
         /\ \A b : Times(b, h.own) \in Nat /\ Times(b, h.wrap) \in Nat
<1>1. /\ h.own \in Seq(0 .. n) /\ Len(h.own) = slots /\ h.wrap \in Seq(0 .. n)
      /\ h.planes \in 0 .. slots
  BY DEF Holder
<1>2. Refs(h) = h.own \o h.wrap
  BY DEF Refs
<1>3. Refs(h) \in Seq(0 .. n) /\ Refs(h) \in Seq(Nat)
  BY <1>1, <1>2
<1>4. ASSUME NEW b
      PROVE /\ Times(b, Refs(h)) = Times(b, h.own) + Times(b, h.wrap)
            /\ Times(b, h.own) \in Nat /\ Times(b, h.wrap) \in Nat
  BY <1>1, <1>2, TimesJoined, TimesType
<1> QED BY <1>1, <1>3, <1>4

\* A packet is an object with one slot.
LEMMA PacketIsHolder ==
  ASSUME NEW n \in Nat
  PROVE  Packet(n) \subseteq Holder(1, n)
<1>1. Seq(1 .. n) \subseteq Seq(0 .. n)
  OBVIOUS
<1> QED BY <1>1 DEF Packet, Holder

\* Buffers are only made: what was of the type is of the type.
LEMMA HolderLater ==
  ASSUME NEW n \in Nat, NEW m \in Nat, n <= m, NEW slots \in Nat
  PROVE  /\ Holder(slots, n) \subseteq Holder(slots, m) /\ Packet(n) \subseteq Packet(m)
         /\ Item(n) \subseteq Item(m)
<1>1. 0 .. n \subseteq 0 .. m /\ 1 .. n \subseteq 1 .. m
  OBVIOUS
<1>2. Seq(0 .. n) \subseteq Seq(0 .. m) /\ Seq(1 .. n) \subseteq Seq(1 .. m)
  BY <1>1
<1>3. [1 .. slots -> 0 .. n] \subseteq [1 .. slots -> 0 .. m] /\ [1 .. 1 -> 0 .. n] \subseteq [1 .. 1 -> 0 .. m]
  BY <1>1
<1>4. Holder(slots, n) \subseteq Holder(slots, m)
  BY <1>2, <1>3 DEF Holder
<1>5. Packet(n) \subseteq Packet(m)
  BY <1>2, <1>3 DEF Packet
<1>6. Item(n) \subseteq Item(m)
  BY <1>5 DEF Item
<1> QED BY <1>4, <1>5, <1>6

-----------------------------------------------------------------------------
(* The queue                                                               *)

\* What a queue refers to: its first packet's buffers, and the others'.
LEMMA QueuedType ==
  ASSUME NEW n \in Nat, NEW q \in Seq(Item(n))
  PROVE  /\ Queued(q) \in Seq(0 .. n)
         /\ [i \in DOMAIN q |-> Refs(q[i].packet)] \in Seq(Seq(Nat))
         /\ \A b : Times(b, Queued(q)) \in Nat
<1> DEFINE s == [i \in 1 .. Len(q) |-> Refs(q[i].packet)]
<1>1. DOMAIN q = 1 .. Len(q) /\ Len(q) \in Nat
  OBVIOUS
<1>2. \A i \in 1 .. Len(q) : Refs(q[i].packet) \in Seq(0 .. n)
  <2> SUFFICES ASSUME NEW i \in 1 .. Len(q) PROVE Refs(q[i].packet) \in Seq(0 .. n)
    OBVIOUS
  <2>1. q[i].packet \in Holder(1, n)
    <3>1. q[i] \in Item(n)
      OBVIOUS
    <3> QED BY <3>1, PacketIsHolder DEF Item
  <2> QED BY <2>1, HolderShape
<1>3. s \in Seq(Seq(0 .. n))
  BY <1>1, <1>2
<1>4. s \in Seq(Seq(Nat))
  <2>1. Seq(0 .. n) \subseteq Seq(Nat)
    OBVIOUS
  <2> QED BY <1>3, <2>1
<1>5. Queued(q) = FlattenSeq(s)
  BY <1>1 DEF Queued
<1>6. 0 .. n \in SUBSET Nat
  OBVIOUS
<1> HIDE DEF s
<1>7. Queued(q) \in Seq(0 .. n)
  BY <1>3, <1>5, <1>6, FlattenType
<1>8. \A b : Times(b, Queued(q)) \in Nat
  BY <1>7, TimesType
<1> QED BY <1>1, <1>4, <1>7, <1>8 DEF s

\* A packet at the end of the queue adds what it refers to.
LEMMA QueuedAppend ==
  ASSUME NEW n \in Nat, NEW q \in Seq(Item(n)), NEW e \in Item(n), NEW b
  PROVE  Times(b, Queued(Append(q, e))) = Times(b, Queued(q)) + Times(b, Refs(e.packet))
<1> DEFINE r == Append(q, e)
           s == [i \in DOMAIN q |-> Refs(q[i].packet)]
           t == [i \in DOMAIN r |-> Refs(r[i].packet)]
           w == Refs(e.packet)
<1>1. w \in Seq(0 .. n) /\ w \in Seq(Nat)
  BY PacketIsHolder, HolderShape DEF Item
<1>2. s \in Seq(Seq(Nat)) /\ Queued(q) \in Seq(0 .. n)
  BY QueuedType
<1>3. t = s \o <<w>>
  OBVIOUS
<1>4. Queued(q) = FlattenSeq(s) /\ Queued(r) = FlattenSeq(t)
  BY Zenon DEF Queued
<1> HIDE DEF s, t, w, r
<1>5. Queued(r) = Queued(q) \o w
  BY <1>1, <1>2, <1>3, <1>4, FlattenAppend
<1>6. Times(b, Queued(q) \o w) = Times(b, Queued(q)) + Times(b, w)
  BY <1>1, <1>2, TimesJoined
<1> QED BY <1>5, <1>6 DEF w, r

\* The packet that leaves the queue takes with it what it refers to.
LEMMA QueuedTail ==
  ASSUME NEW n \in Nat, NEW q \in Seq(Item(n)), q # <<>>, NEW b
  PROVE  Times(b, Queued(q)) = Times(b, Refs(Head(q).packet)) + Times(b, Queued(Tail(q)))
<1> DEFINE r == Tail(q)
           s == [i \in DOMAIN r |-> Refs(r[i].packet)]
           t == [i \in DOMAIN q |-> Refs(q[i].packet)]
           w == Refs(Head(q).packet)
<1>0. r \in Seq(Item(n)) /\ Head(q) \in Item(n)
  OBVIOUS
<1>1. w \in Seq(0 .. n) /\ w \in Seq(Nat)
  BY <1>0, PacketIsHolder, HolderShape DEF Item
<1>2. s \in Seq(Seq(Nat)) /\ Queued(r) \in Seq(0 .. n)
  BY <1>0, QueuedType
<1>3. t = <<w>> \o s
  <2>1. t \in Seq(Seq(Nat)) /\ Len(t) = Len(q)
    BY QueuedType
  <2>2. Len(<<w>> \o s) = Len(q) /\ <<w>> \o s \in Seq(Seq(Nat))
    BY <1>1, <1>2
  <2>3. ASSUME NEW i \in 1 .. Len(q) PROVE t[i] = (<<w>> \o s)[i]
    <3>1. CASE i = 1
      BY <3>1
    <3>2. CASE i # 1
      <4>1. i - 1 \in 1 .. Len(r) /\ r[i - 1] = q[i]
        BY <3>2
      <4>2. (<<w>> \o s)[i] = s[i - 1]
        BY <1>1, <1>2, <4>1, <3>2
      <4> QED BY <4>1, <4>2
    <3> QED BY <3>1, <3>2
  <2> HIDE DEF t, s, w, r
  <2> QED BY <2>1, <2>2, <2>3, SeqEqual
<1>4. Queued(r) = FlattenSeq(s) /\ Queued(q) = FlattenSeq(t)
  BY Zenon DEF Queued
<1> HIDE DEF s, t, w, r
<1>5. Queued(q) = w \o Queued(r)
  BY <1>1, <1>2, <1>3, <1>4, FlattenFirst
<1>6. Times(b, w \o Queued(r)) = Times(b, w) + Times(b, Queued(r))
  BY <1>1, <1>2, TimesJoined
<1> QED BY <1>5, <1>6 DEF w, r

-----------------------------------------------------------------------------
(* The invariant                                                           *)

Buffer == [refs : Int, data : Seq(0 .. 255)]

\* What the object x may be when n buffers have been made.
ObjectOf(x, n) == IF x = "packet" THEN Packet(n) ELSE Holder(Slots(x), n)

Typed ==
    /\ buf \in Seq(Buffer)
    /\ \E w \in DOMAIN Cpp : DOMAIN obj = {w, Cpp[w]}
    /\ obj = [x \in DOMAIN obj |-> obj[x]]
    /\ \A x \in DOMAIN obj : obj[x] \in ObjectOf(x, Len(buf))
    /\ queue \in Seq(Item(Len(buf)))
    /\ reader \in [pc : {"idle", "woken", "tested", "waiting", "parsing"}, id : Nat,
                   packet : Packet(Len(buf))]
    /\ pushed \in Seq(Seq(0 .. 255))
    /\ got \in Seq([id : Nat, units : Seq(Seq(0 .. 255))])
    /\ dropped \subseteq Nat

\* What a packet holds.
Data(bs, h) == IF h.wrap = <<>> THEN <<>> ELSE bs[h.wrap[1]].data

\* Packets under way hold what was pushed.
Held ==
    /\ \A i \in DOMAIN queue : pushed[queue[i].id] = Data(buf, queue[i].packet)
    /\ reader.pc = "parsing" => pushed[reader.id] = Data(buf, reader.packet)

\* One object is h instead, and the buffers are bs: every old buffer keeps its
\* contents, and has lost no more references than the object gave up.
Grown(x, h, bs) ==
    /\ bs \in Seq(Buffer) /\ Len(buf) <= Len(bs)
    /\ h \in ObjectOf(x, Len(bs))
    /\ \A b \in 1 .. Len(buf) :
          /\ bs[b].data = buf[b].data
          /\ bs[b].refs + Times(b, Refs(obj[x])) >= buf[b].refs + Times(b, Refs(h))
    /\ \A b \in Len(buf) + 1 .. Len(bs) : bs[b].refs >= Times(b, Refs(h))

\* An application works on packets or on frames.
LEMMA WorkShape ==
  ASSUME NEW x \in DOMAIN obj, Typed
  PROVE  /\ x \in {"packet", "frame", "c_packet", "c_frame"}
         /\ x \in DOMAIN Cpp => DOMAIN obj = {x, Cpp[x]} /\ x # Cpp[x]
         /\ Cpp["packet"] = "c_packet" /\ Cpp["frame"] = "c_frame" /\ DOMAIN Cpp = {"packet", "frame"}
<1>1. Cpp["packet"] = "c_packet" /\ Cpp["frame"] = "c_frame" /\ DOMAIN Cpp = {"packet", "frame"}
  BY DEF Cpp
<1>2. PICK w \in DOMAIN Cpp : DOMAIN obj = {w, Cpp[w]}
  BY DEF Typed
<1> QED BY <1>1, <1>2

\* Every object has the slots of its kind.
LEMMA ObjectShape ==
  ASSUME NEW x \in {"packet", "frame", "c_packet", "c_frame"}, NEW n \in Nat, NEW h \in ObjectOf(x, n)
  PROVE  h \in Holder(Slots(x), n) /\ Slots(x) \in {1, 4}
<1>1. CASE x = "packet"
  BY <1>1, PacketIsHolder DEF ObjectOf, Slots
<1>2. CASE x # "packet"
  BY <1>2 DEF ObjectOf, Slots
<1> QED BY <1>1, <1>2

\* An object stays one when more buffers are made.
LEMMA ObjectLater ==
  ASSUME NEW x \in {"packet", "frame", "c_packet", "c_frame"}, NEW n \in Nat, NEW m \in Nat, n <= m,
         NEW h \in ObjectOf(x, n)
  PROVE  h \in ObjectOf(x, m)
<1>1. Slots(x) \in Nat
  BY DEF Slots
<1> QED BY <1>1, HolderLater DEF ObjectOf

\* What refers to old buffers refers to no new one.
LEMMA NoneNew ==
  ASSUME NEW n \in Nat, NEW s \in Seq(0 .. n), NEW b \in Nat, b > n
  PROVE  Times(b, s) = 0
<1>1. \A i \in 1 .. Len(s) : s[i] \in 0 .. n
  OBVIOUS
<1> QED BY <1>1, TimesNone

\* An operation on one object keeps the invariant.
LEMMA MediaKeeps ==
  ASSUME Typed, References, Held, NEW x \in DOMAIN obj, NEW h, NEW bs, Media(x, h, bs), Grown(x, h, bs)
  PROVE  Typed' /\ References' /\ Held'
<1> DEFINE n == Len(buf)
           m == Len(bs)
<1>1. /\ obj' = [obj EXCEPT ![x] = h] /\ buf' = bs
      /\ UNCHANGED <<queue, reader, pushed, got, dropped>>
  BY DEF Media
<1>2. /\ n \in Nat /\ m \in Nat /\ n <= m /\ bs \in Seq(Buffer)
      /\ obj = [y \in DOMAIN obj |-> obj[y]]
  BY DEF Typed, Grown
<1>3. /\ DOMAIN obj' = DOMAIN obj /\ obj'[x] = h
      /\ \A y \in DOMAIN obj : y # x => obj'[y] = obj[y]
      /\ obj' = [y \in DOMAIN obj |-> obj'[y]]
  BY <1>1, <1>2
<1>4. \A y \in DOMAIN obj : y \in {"packet", "frame", "c_packet", "c_frame"}
  BY WorkShape
<1>5. \A y \in DOMAIN obj : obj[y] \in ObjectOf(y, n) /\ obj'[y] \in ObjectOf(y, m)
  <2> SUFFICES ASSUME NEW y \in DOMAIN obj
               PROVE  obj[y] \in ObjectOf(y, n) /\ obj'[y] \in ObjectOf(y, m)
    OBVIOUS
  <2>1. obj[y] \in ObjectOf(y, n)
    BY DEF Typed
  <2>2. obj[y] \in ObjectOf(y, m)
    BY <1>2, <1>4, <2>1, ObjectLater
  <2>3. h \in ObjectOf(x, m)
    BY DEF Grown
  <2> HIDE DEF m, n
  <2> QED BY <1>3, <2>1, <2>2, <2>3
<1>6. Typed'
  <2>1. 1 \in Nat /\ Item(n) \subseteq Item(m) /\ Packet(n) \subseteq Packet(m)
    BY <1>2, HolderLater
  <2>2. queue \in Seq(Item(n))
    BY DEF Typed
  <2>3. queue \in Seq(Item(m))
    <3> HIDE DEF m, n
    <3> QED BY <2>1, <2>2, SeqMonotonic
  <2>4. reader \in [pc : {"idle", "woken", "tested", "waiting", "parsing"}, id : Nat, packet : Packet(m)]
    <3>1. reader \in [pc : {"idle", "woken", "tested", "waiting", "parsing"}, id : Nat, packet : Packet(n)]
      BY DEF Typed
    <3> HIDE DEF m, n
    <3> QED BY <2>1, <3>1
  <2>5. Len(buf') = m
    BY <1>1
  <2>6. \E w \in DOMAIN Cpp : DOMAIN obj = {w, Cpp[w]}
    BY DEF Typed
  <2>7. /\ pushed' \in Seq(Seq(0 .. 255)) /\ dropped' \subseteq Nat
        /\ got' \in Seq([id : Nat, units : Seq(Seq(0 .. 255))])
    BY <1>1 DEF Typed
  <2>8. (\E w \in DOMAIN Cpp : DOMAIN obj = {w, Cpp[w]})'
    BY <1>3, <2>6 DEF Cpp
  <2>9. \A y \in DOMAIN obj' : obj'[y] \in ObjectOf(y, Len(buf'))
    BY <1>3, <1>5, <2>5
  <2>10. obj' = [y \in DOMAIN obj' |-> obj'[y]]
    BY <1>3
  <2>11. /\ queue' \in Seq(Item(m)) /\ buf' \in Seq(Buffer)
         /\ reader' \in [pc : {"idle", "woken", "tested", "waiting", "parsing"}, id : Nat, packet : Packet(m)]
    BY <1>1, <1>2, <2>3, <2>4
  <2>12. (\A y \in DOMAIN obj : obj[y] \in ObjectOf(y, Len(buf)))'
    BY <2>9 DEF ObjectOf, Packet, Holder, Image, Slots
  <2>13. /\ (queue \in Seq(Item(Len(buf))))'
         /\ (reader \in [pc : {"idle", "woken", "tested", "waiting", "parsing"}, id : Nat, packet : Packet(Len(buf))])'
    BY <2>5, <2>11 DEF Item, Packet, Image
  <2> QED BY <2>7, <2>8, <2>10, <2>11, <2>12, <2>13 DEF Typed, Buffer
<1>7. \A y \in DOMAIN obj : Refs(obj[y]) \in Seq(0 .. n) /\ Refs(obj'[y]) \in Seq(0 .. m)
  <2> SUFFICES ASSUME NEW y \in DOMAIN obj
               PROVE  Refs(obj[y]) \in Seq(0 .. n) /\ Refs(obj'[y]) \in Seq(0 .. m)
    OBVIOUS
  <2> DEFINE k == Slots(y)
  <2> HIDE DEF n, m, k
  <2>1. obj[y] \in Holder(k, n) /\ obj'[y] \in Holder(k, m) /\ k \in Nat
    BY <1>2, <1>4, <1>5, ObjectShape DEF k
  <2> QED BY <1>2, <2>1, HolderShape
<1>8. Refs(reader.packet) \in Seq(0 .. n)
  <2>1. reader.packet \in Holder(1, n)
    BY <1>2, PacketIsHolder DEF Typed
  <2> QED BY <1>2, <2>1, HolderShape
<1>9. Queued(queue) \in Seq(0 .. n)
  BY <1>2, QueuedType DEF Typed
<1>10. References'
  <2> SUFFICES ASSUME NEW y \in DOMAIN obj, y \in DOMAIN Cpp, NEW b \in 1 .. m
               PROVE  bs[b].refs >= Times(b, Refs(obj'[y])) + Times(b, Refs(obj'[Cpp[y]]))
                         + Times(b, Refs(reader.packet)) + Times(b, Queued(queue))
    <3>1. DOMAIN bs = 1 .. m
      BY <1>2
    <3>2. References' = \A y \in DOMAIN obj' \cap DOMAIN Cpp, b \in DOMAIN buf' :
              buf'[b].refs >= Times(b, Refs(obj'[y])) + Times(b, Refs(obj'[Cpp[y]]))
                               + Times(b, Refs(reader'.packet)) + Times(b, Queued(queue'))
      BY DEF References
    <3> HIDE DEF m
    <3> QED BY <1>1, <1>3, <3>1, <3>2, Zenon
  <2>1. DOMAIN obj = {y, Cpp[y]} /\ y # Cpp[y]
    BY WorkShape
  <2>0. PICK z : z = Cpp[y]
    OBVIOUS
  <2>2. /\ Times(b, Refs(obj[y])) \in Nat /\ Times(b, Refs(obj[z])) \in Nat
        /\ Times(b, Refs(obj'[y])) \in Nat /\ Times(b, Refs(obj'[z])) \in Nat
        /\ Times(b, Refs(reader.packet)) \in Nat /\ Times(b, Queued(queue)) \in Nat
    BY <1>7, <1>8, <1>9, <2>0, <2>1, TimesType
  <2>3. bs[b].refs \in Int
    <3>1. bs[b] \in Buffer
      BY <1>2
    <3> QED BY <3>1 DEF Buffer
  <2>4. CASE b \in 1 .. n
    <3>1. buf[b].refs >= Times(b, Refs(obj[y])) + Times(b, Refs(obj[z]))
                         + Times(b, Refs(reader.packet)) + Times(b, Queued(queue))
      <4>1. b \in DOMAIN buf
        BY <2>4 DEF Typed
      <4> QED BY <2>0, <4>1 DEF References
    <3>2. bs[b].refs + Times(b, Refs(obj[x])) >= buf[b].refs + Times(b, Refs(h))
      BY <2>4 DEF Grown
    <3>3. buf[b].refs \in Int
      <4>1. buf[b] \in Buffer
        BY <2>4 DEF Typed
      <4> QED BY <4>1 DEF Buffer
    <3>4. PICK w \in {y, z} : w # x /\ ((x = y /\ w = z) \/ (x = z /\ w = y))
      <4>1. y # z /\ (x = y \/ x = z)
        BY <2>0, <2>1
      <4> QED BY <4>1
    <3>5. obj'[x] = h /\ obj'[w] = obj[w]
      BY <1>3, <2>0, <2>1, <3>4
    <3>6. PICK old \in Nat : old = Times(b, Refs(obj[x]))
      BY <2>2, <3>4
    <3>7. PICK new \in Nat : new = Times(b, Refs(h))
      BY <2>2, <3>4, <3>5
    <3>8. PICK u \in Nat : u = Times(b, Refs(obj[w]))
      BY <2>2, <3>4
    <3>9. PICK k \in Nat : k = Times(b, Refs(reader.packet))
      BY <2>2
    <3>10. PICK l \in Nat : l = Times(b, Queued(queue))
      BY <2>2
    <3>11. PICK q \in Int : q = buf[b].refs
      BY <3>3
    <3>12. PICK r \in Int : r = bs[b].refs
      BY <2>3
    <3>13. r + old >= q + new
      BY <3>2, <3>6, <3>7, <3>11, <3>12, Zenon
    <3>14. q >= old + u + k + l \/ q >= u + old + k + l
      BY <3>1, <3>4, <3>6, <3>8, <3>9, <3>10, <3>11, Zenon
    <3>15. r >= new + u + k + l /\ r >= u + new + k + l
      BY <3>13, <3>14
    <3> QED BY <2>0, <3>4, <3>5, <3>7, <3>8, <3>9, <3>10, <3>12, <3>15, Zenon
  <2>5. CASE b \in n + 1 .. m
    <3>1. bs[b].refs >= Times(b, Refs(h))
      BY <2>5 DEF Grown
    <3>2. b \in Nat /\ b > n
      BY <1>2, <2>5
    <3>3. \A w \in DOMAIN obj : Times(b, Refs(obj[w])) = 0
      BY <1>2, <1>7, <3>2, NoneNew
    <3>4. Times(b, Refs(reader.packet)) = 0 /\ Times(b, Queued(queue)) = 0
      BY <1>2, <1>8, <1>9, <3>2, NoneNew
    <3>5. CASE x = y
      BY <1>3, <2>0, <2>1, <2>2, <2>3, <3>1, <3>3, <3>4, <3>5
    <3>6. CASE x = z
      BY <1>3, <2>0, <2>1, <2>2, <2>3, <3>1, <3>3, <3>4, <3>6
    <3> QED BY <2>1, <3>5, <3>6, <2>0
  <2> QED BY <1>2, <2>4, <2>5
<1>11. Held'
  <2>1. \A p \in Packet(n) : Data(bs, p) = Data(buf, p)
    <3> SUFFICES ASSUME NEW p \in Packet(n), p.wrap # <<>> PROVE bs[p.wrap[1]].data = buf[p.wrap[1]].data
      BY DEF Data
    <3>1. p.wrap \in Seq(1 .. n)
      BY DEF Packet
    <3>2. p.wrap[1] \in 1 .. n
      BY <3>1
    <3> QED BY <3>2 DEF Grown
  <2>2. \A i \in DOMAIN queue : queue[i].packet \in Packet(n)
    <3> SUFFICES ASSUME NEW i \in DOMAIN queue PROVE queue[i].packet \in Packet(n)
      OBVIOUS
    <3>1. queue[i] \in Item(n)
      BY DEF Typed
    <3> QED BY <3>1 DEF Item
  <2>3. reader.packet \in Packet(n)
    BY DEF Typed
  <2> HIDE DEF n
  <2> QED BY <1>1, <2>1, <2>2, <2>3 DEF Held, Data
<1> QED BY <1>6, <1>10, <1>11

-----------------------------------------------------------------------------
(* Operations on objects                                                   *)

\* Ref and Unref change counts only.
LEMMA RefShape ==
  ASSUME NEW bs \in Seq(Buffer), NEW S, NEW s \in Seq(S)
  PROVE  /\ Ref(bs, s) \in Seq(Buffer) /\ Len(Ref(bs, s)) = Len(bs)
         /\ Unref(bs, s) \in Seq(Buffer) /\ Len(Unref(bs, s)) = Len(bs)
         /\ \A b \in 1 .. Len(bs) :
               /\ bs[b].refs \in Int /\ Times(b, s) \in Nat
               /\ Ref(bs, s)[b].data = bs[b].data /\ Ref(bs, s)[b].refs = bs[b].refs + Times(b, s)
               /\ Unref(bs, s)[b].data = bs[b].data /\ Unref(bs, s)[b].refs = bs[b].refs - Times(b, s)
<1>1. DOMAIN bs = 1 .. Len(bs) /\ Len(bs) \in Nat
  OBVIOUS
<1>2. ASSUME NEW b \in 1 .. Len(bs)
      PROVE  /\ bs[b] \in Buffer /\ Times(b, s) \in Nat
             /\ [bs[b] EXCEPT !.refs = @ + Times(b, s)] \in Buffer
             /\ [bs[b] EXCEPT !.refs = @ - Times(b, s)] \in Buffer
             /\ [bs[b] EXCEPT !.refs = @ + Times(b, s)].data = bs[b].data
             /\ [bs[b] EXCEPT !.refs = @ - Times(b, s)].data = bs[b].data
             /\ [bs[b] EXCEPT !.refs = @ + Times(b, s)].refs = bs[b].refs + Times(b, s)
             /\ [bs[b] EXCEPT !.refs = @ - Times(b, s)].refs = bs[b].refs - Times(b, s)
             /\ bs[b].refs \in Int
  <2>1. bs[b] \in Buffer /\ Times(b, s) \in Nat
    BY TimesType
  <2>2. PICK k \in Nat : k = Times(b, s)
    BY <2>1
  <2>3. PICK e \in Buffer : e = bs[b]
    BY <2>1
  <2>4. /\ e.refs \in Int /\ [e EXCEPT !.refs = @ + k] \in Buffer /\ [e EXCEPT !.refs = @ - k] \in Buffer
        /\ [e EXCEPT !.refs = @ + k].data = e.data /\ [e EXCEPT !.refs = @ + k].refs = e.refs + k
        /\ [e EXCEPT !.refs = @ - k].data = e.data /\ [e EXCEPT !.refs = @ - k].refs = e.refs - k
    <3>1. e.refs \in Int /\ e.data \in Seq(0 .. 255) /\ e = [refs |-> e.refs, data |-> e.data]
      BY DEF Buffer
    <3>2. /\ [e EXCEPT !.refs = @ + k] = [refs |-> e.refs + k, data |-> e.data]
          /\ [e EXCEPT !.refs = @ - k] = [refs |-> e.refs - k, data |-> e.data]
      BY <3>1
    <3>3. e.refs + k \in Int /\ e.refs - k \in Int
      BY <3>1
    <3> QED BY <3>1, <3>2, <3>3 DEF Buffer
  <2> QED BY <2>1, <2>2, <2>3, <2>4, Zenon
<1>3. /\ Ref(bs, s) = [b \in 1 .. Len(bs) |-> [bs[b] EXCEPT !.refs = @ + Times(b, s)]]
      /\ Unref(bs, s) = [b \in 1 .. Len(bs) |-> [bs[b] EXCEPT !.refs = @ - Times(b, s)]]
  BY <1>1 DEF Ref, Unref
<1>4. Ref(bs, s) \in Seq(Buffer) /\ Len(Ref(bs, s)) = Len(bs)
  BY <1>1, <1>2, <1>3
<1>5. Unref(bs, s) \in Seq(Buffer) /\ Len(Unref(bs, s)) = Len(bs)
  BY <1>1, <1>2, <1>3
<1>6. ASSUME NEW b \in 1 .. Len(bs)
      PROVE  /\ Ref(bs, s)[b] = [bs[b] EXCEPT !.refs = @ + Times(b, s)]
             /\ Unref(bs, s)[b] = [bs[b] EXCEPT !.refs = @ - Times(b, s)]
  BY <1>3
<1> QED BY <1>2, <1>4, <1>5, <1>6

\* The fields of an object, and an object made of fields.
LEMMA ObjectFields ==
  ASSUME NEW x \in {"packet", "frame", "c_packet", "c_frame"}, NEW n \in Nat, NEW h \in ObjectOf(x, n)
  PROVE  /\ h = [own |-> h.own, wrap |-> h.wrap, planes |-> h.planes, image |-> h.image]
         /\ h.own \in [1 .. Slots(x) -> 0 .. n] /\ h.own \in Seq(0 .. n) /\ Len(h.own) = Slots(x)
         /\ h.wrap \in Seq(0 .. n)
         /\ x = "packet" => h.wrap \in Seq(1 .. n)
         /\ h.planes \in 0 .. Slots(x) /\ h.image \in Image /\ Slots(x) \in {1, 4}
         /\ \A b : /\ Times(b, Refs(h)) = Times(b, h.own) + Times(b, h.wrap)
                   /\ Times(b, h.own) \in Nat /\ Times(b, h.wrap) \in Nat
<1>1. Slots(x) \in Nat /\ Slots(x) \in {1, 4} /\ h \in Holder(Slots(x), n)
  BY ObjectShape
<1>2. x = "packet" => h.wrap \in Seq(1 .. n)
  BY DEF ObjectOf, Packet
<1>3. /\ h.own \in Seq(0 .. n) /\ Len(h.own) = Slots(x)
      /\ \A b : /\ Times(b, Refs(h)) = Times(b, h.own) + Times(b, h.wrap)
                /\ Times(b, h.own) \in Nat /\ Times(b, h.wrap) \in Nat
  BY <1>1, HolderShape
<1> DEFINE k == Slots(x)
<1> HIDE DEF k
<1>4. /\ h = [own |-> h.own, wrap |-> h.wrap, planes |-> h.planes, image |-> h.image]
      /\ h.own \in [1 .. k -> 0 .. n] /\ h.wrap \in Seq(0 .. n) /\ h.planes \in 0 .. k /\ h.image \in Image
  <2>1. h \in Holder(k, n)
    BY <1>1 DEF k
  <2> QED BY <2>1 DEF Holder
<1> QED BY <1>1, <1>2, <1>3, <1>4 DEF k

\* An object from its parts.
LEMMA ObjectMade ==
  ASSUME NEW x \in {"packet", "frame", "c_packet", "c_frame"}, NEW n \in Nat,
         NEW own \in [1 .. Slots(x) -> 0 .. n], NEW wrap \in Seq(0 .. n), x = "packet" => wrap \in Seq(1 .. n),
         NEW planes \in 0 .. Slots(x), NEW image \in Image
  PROVE  [own |-> own, wrap |-> wrap, planes |-> planes, image |-> image] \in ObjectOf(x, n)
<1>1. CASE x = "packet"
  <2>1. Slots(x) = 1
    BY <1>1 DEF Slots
  <2> QED BY <1>1, <2>1 DEF ObjectOf, Packet
<1>2. CASE x # "packet"
  <2> DEFINE k == Slots(x)
  <2> HIDE DEF k
  <2>1. own \in [1 .. k -> 0 .. n] /\ planes \in 0 .. k
    BY DEF k
  <2>2. [own |-> own, wrap |-> wrap, planes |-> planes, image |-> image] \in Holder(k, n)
    BY <2>1 DEF Holder
  <2> QED BY <1>2, <2>2 DEF ObjectOf, k
<1> QED BY <1>1, <1>2

\* The buffers and the object of an operation, to begin with.
LEMMA Before ==
  ASSUME Typed, NEW x \in DOMAIN obj
  PROVE  /\ x \in {"packet", "frame", "c_packet", "c_frame"}
         /\ Len(buf) \in Nat /\ buf \in Seq(Buffer) /\ obj[x] \in ObjectOf(x, Len(buf))
<1>1. x \in {"packet", "frame", "c_packet", "c_frame"}
  BY WorkShape
<1> QED BY <1>1 DEF Typed

\* A new buffer, with the one reference of its maker, or two.
LEMMA NewBufferShape ==
  ASSUME NEW data \in Seq(0 .. 255)
  PROVE  /\ NewBuffer(data) \in Buffer /\ NewBuffer(data).refs = 1
         /\ [NewBuffer(data) EXCEPT !.refs = 2] \in Buffer /\ [NewBuffer(data) EXCEPT !.refs = 2].refs = 2
BY DEF NewBuffer, Buffer

\* A struct that has no buffer.
LEMMA NoneOwned ==
  ASSUME NEW k \in Nat, NEW b, b # 0
  PROVE  /\ [i \in 1 .. k |-> 0] \in [1 .. k -> {0}]
         /\ Times(b, [i \in 1 .. k |-> 0]) = 0 
<1> DEFINE z == [i \in 1 .. k |-> 0]
<1>1. z \in [1 .. k -> {0}] /\ z \in Seq({0})
  OBVIOUS
<1>2. \A i \in 1 .. Len(z) : z[i] # b
  OBVIOUS
<1> HIDE DEF z
<1>3. Times(b, z) = 0
  BY <1>1, <1>2, TimesNone
<1> QED BY <1>1, <1>3 DEF z

\* Clear and an allocation that fails give back what the struct had.
LEMMA GivenBack ==
  ASSUME Typed, NEW x \in DOMAIN obj
  PROVE  Grown(x, Cleared(obj[x]), Unref(buf, obj[x].own))
<1> DEFINE n == Len(buf)
           h == obj[x]
           z == [i \in 1 .. Slots(x) |-> 0]
           c == Cleared(h)
           bs == Unref(buf, h.own)
<1>1. x \in {"packet", "frame", "c_packet", "c_frame"} /\ n \in Nat /\ buf \in Seq(Buffer) /\ h \in ObjectOf(x, n)
  BY Before
<1> HIDE DEF n, h
<1>2. /\ h = [own |-> h.own, wrap |-> h.wrap, planes |-> h.planes, image |-> h.image]
      /\ h.own \in [1 .. Slots(x) -> 0 .. n] /\ h.own \in Seq(0 .. n) /\ h.wrap \in Seq(0 .. n)
      /\ x = "packet" => h.wrap \in Seq(1 .. n)
      /\ h.planes \in 0 .. Slots(x) /\ h.image \in Image /\ Slots(x) \in Nat
  BY <1>1, ObjectFields
<1>9. \A b : /\ Times(b, Refs(h)) = Times(b, h.own) + Times(b, h.wrap)
             /\ Times(b, h.own) \in Nat /\ Times(b, h.wrap) \in Nat
  BY <1>1, ObjectFields
<1>3. c = [own |-> z, wrap |-> h.wrap, planes |-> h.planes, image |-> h.image]
  <2>1. DOMAIN h.own = 1 .. Slots(x)
    BY <1>2
  <2>2. c = [h EXCEPT !.own = [i \in DOMAIN h.own |-> 0]]
    BY DEF Cleared
  <2>3. [i \in DOMAIN h.own |-> 0] = z
    BY <2>1
  <2>4. c = [h EXCEPT !.own = z]
    BY <2>2, <2>3
  <2> HIDE DEF z, c
  <2> QED BY <1>2, <2>4
<1>4. z \in [1 .. Slots(x) -> 0 .. n] /\ \A b \in Nat \ {0} : Times(b, z) = 0
  BY <1>1, <1>2, NoneOwned
<1> HIDE DEF z, c
<1>5. c \in ObjectOf(x, n)
  BY <1>1, <1>2, <1>3, <1>4, ObjectMade
<1>6. \A b : Times(b, Refs(c)) = Times(b, z) + Times(b, h.wrap)
  BY <1>1, <1>3, <1>5, ObjectFields
<1>7. /\ bs \in Seq(Buffer) /\ Len(bs) = n
      /\ \A b \in 1 .. n : bs[b].data = buf[b].data /\ bs[b].refs = buf[b].refs - Times(b, h.own) /\ buf[b].refs \in Int
  BY <1>1, <1>2, RefShape DEF n
<1> HIDE DEF bs
<1>8. ASSUME NEW b \in 1 .. n
      PROVE  bs[b].refs + Times(b, Refs(h)) >= buf[b].refs + Times(b, Refs(c))
  <2>1. Times(b, z) = 0 /\ Times(b, h.own) \in Nat /\ Times(b, h.wrap) \in Nat
    BY <1>1, <1>9, <1>4
  <2>2. Times(b, Refs(c)) = Times(b, h.wrap) /\ Times(b, Refs(h)) = Times(b, h.own) + Times(b, h.wrap)
    BY <1>9, <1>6, <2>1
  <2>3. bs[b].refs = buf[b].refs - Times(b, h.own) /\ buf[b].refs \in Int
    BY <1>7
  <2> QED BY <2>1, <2>2, <2>3
<1> QED BY <1>1, <1>5, <1>7, <1>8 DEF Grown, n, h, c, bs

\* Of these parts the object x can be made, and the buffers bs have a reference
\* for all that own and wrap refer to, besides those that the other objects have.
Balanced(x, own, wrap, planes, image, bs) ==
    /\ bs \in Seq(Buffer) /\ Len(buf) <= Len(bs)
    /\ own \in [1 .. Slots(x) -> 0 .. Len(bs)] /\ wrap \in Seq(0 .. Len(bs))
    /\ x = "packet" => wrap \in Seq(1 .. Len(bs))
    /\ planes \in 0 .. Slots(x) /\ image \in Image
    /\ \A b \in 1 .. Len(buf) :
          /\ bs[b].data = buf[b].data
          /\ bs[b].refs + Times(b, obj[x].own) + Times(b, obj[x].wrap)
                >= buf[b].refs + Times(b, own) + Times(b, wrap)
    /\ \A b \in Len(buf) + 1 .. Len(bs) : bs[b].refs >= Times(b, own) + Times(b, wrap)

\* An operation described by the fields of its object.
LEMMA GrownFrom ==
  ASSUME Typed, NEW x \in DOMAIN obj, NEW bs, NEW own, NEW wrap, NEW planes, NEW image,
         Balanced(x, own, wrap, planes, image, bs)
  PROVE  Grown(x, [own |-> own, wrap |-> wrap, planes |-> planes, image |-> image], bs)
<1> DEFINE h == obj[x]
           c == [own |-> own, wrap |-> wrap, planes |-> planes, image |-> image]
           m == Len(bs)
<1>1. /\ x \in {"packet", "frame", "c_packet", "c_frame"} /\ Len(buf) \in Nat
      /\ buf \in Seq(Buffer) /\ h \in ObjectOf(x, Len(buf))
  BY Before
<1>2. m \in Nat /\ bs \in Seq(Buffer) /\ Len(buf) <= m
  BY DEF Balanced
<1>3. c.own = own /\ c.wrap = wrap
  OBVIOUS
<1>4. c \in ObjectOf(x, m)
  <2> HIDE DEF m
  <2>1. /\ own \in [1 .. Slots(x) -> 0 .. m] /\ wrap \in Seq(0 .. m) /\ (x = "packet" => wrap \in Seq(1 .. m))
        /\ planes \in 0 .. Slots(x) /\ image \in Image
    BY DEF m, Balanced
  <2> QED BY <1>1, <1>2, <2>1, ObjectMade
<1> HIDE DEF h, c, m
<1>5. \A b : /\ Times(b, Refs(h)) = Times(b, h.own) + Times(b, h.wrap)
             /\ Times(b, h.own) \in Nat /\ Times(b, h.wrap) \in Nat
  BY <1>1, ObjectFields
<1>6. \A b : /\ Times(b, Refs(c)) = Times(b, own) + Times(b, wrap)
             /\ Times(b, own) \in Nat /\ Times(b, wrap) \in Nat
  BY <1>1, <1>2, <1>3, <1>4, ObjectFields
<1>7. ASSUME NEW b \in 1 .. Len(buf)
      PROVE  /\ bs[b].data = buf[b].data
             /\ bs[b].refs + Times(b, Refs(h)) >= buf[b].refs + Times(b, Refs(c))
  <2>1. bs[b] \in Buffer /\ buf[b] \in Buffer
    BY <1>1, <1>2 DEF m
  <2>2. PICK q \in Int, r \in Int : q = buf[b].refs /\ r = bs[b].refs
    BY <2>1 DEF Buffer
  <2>3. PICK o \in Nat, w \in Nat, p \in Nat, v \in Nat :
            o = Times(b, h.own) /\ w = Times(b, h.wrap) /\ p = Times(b, own) /\ v = Times(b, wrap)
    BY <1>5, <1>6
  <2>4. r + o + w >= q + p + v
    BY <2>2, <2>3 DEF Balanced, h
  <2>5. r + (o + w) >= q + (p + v)
    BY <2>4
  <2>6. Times(b, Refs(h)) = o + w /\ Times(b, Refs(c)) = p + v
    BY <1>5, <1>6, <2>3
  <2> QED BY <2>2, <2>5, <2>6 DEF Balanced
<1>8. \A b \in Len(buf) + 1 .. m : bs[b].refs >= Times(b, Refs(c))
  BY <1>6 DEF Balanced, m
<1> QED BY <1>2, <1>4, <1>7, <1>8 DEF Grown, h, c, m

\* An operation of which this is known.
Keeps(x) == \E h, bs : Media(x, h, bs) /\ Grown(x, h, bs)

\* One new buffer.
LEMMA OneBuffer ==
  ASSUME NEW n \in Nat, NEW m \in Nat, m = n + 1
  PROVE  /\ <<m>> \in Seq(1 .. m) /\ <<m>> \in Seq(0 .. m)
         /\ <<m>> \in [1 .. 1 -> 0 .. m]
         /\ Times(m, <<m>>) = 1
         /\ \A b \in 1 .. n : Times(b, <<m>>) = 0
<1> DEFINE s == <<m>>
<1>1. s \in Seq(1 .. m) /\ s \in Seq(0 .. m) /\ s \in [1 .. 1 -> 0 .. m]
  OBVIOUS
<1>2. 1 \in 1 .. Len(s) /\ s[1] = m /\ \A i \in 1 .. Len(s) : s[i] = m => i = 1
  OBVIOUS
<1>3. \A b \in 1 .. n : \A i \in 1 .. Len(s) : s[i] # b
  OBVIOUS
<1> HIDE DEF s
<1>4. Times(m, s) = 1
  BY <1>1, <1>2, TimesOne
<1>5. \A b \in 1 .. n : Times(b, s) = 0
  BY <1>1, <1>3, TimesNone
<1> QED BY <1>1, <1>4, <1>5 DEF s

\* An object some of whose parts are replaced.
OwnAndWrap(h, own, wrap) == [h EXCEPT !.own = own, !.wrap = wrap]
OwnAndImage(h, own, image) == [h EXCEPT !.own = own, !.image = image]
OwnToImage(h, own, planes, image) == [h EXCEPT !.own = own, !.planes = planes, !.image = image]
Parts(h) == h = [own |-> h.own, wrap |-> h.wrap, planes |-> h.planes, image |-> h.image]

\* An object with some of its parts replaced.
LEMMA Fields ==
  ASSUME NEW h, Parts(h), NEW own, NEW wrap, NEW planes, NEW image
  PROVE  /\ OwnAndWrap(h, own, wrap)
               = [own |-> own, wrap |-> wrap, planes |-> h.planes, image |-> h.image]
         /\ OwnAndImage(h, own, image)
               = [own |-> own, wrap |-> h.wrap, planes |-> h.planes, image |-> image]
         /\ OwnToImage(h, own, planes, image)
               = [own |-> own, wrap |-> h.wrap, planes |-> planes, image |-> image]
<1>1. PICK a, b, c, d : h = [own |-> a, wrap |-> b, planes |-> c, image |-> d]
  BY DEF Parts
<1>2. h.own = a /\ h.wrap = b /\ h.planes = c /\ h.image = d
  BY <1>1
<1>3. PICK g : g = [h EXCEPT !.own = own] 
  OBVIOUS
<1>4. g = [own |-> own, wrap |-> b, planes |-> c, image |-> d]
  BY <1>1, <1>3
<1>5. OwnAndWrap(h, own, wrap) = [g EXCEPT !.wrap = wrap]
  BY <1>3 DEF OwnAndWrap
<1>6. OwnAndImage(h, own, image) = [g EXCEPT !.image = image]
  BY <1>3 DEF OwnAndImage
<1>7. PICK k : k = [g EXCEPT !.planes = planes]
  OBVIOUS
<1>8. k = [own |-> own, wrap |-> b, planes |-> planes, image |-> d]
  BY <1>4, <1>7
<1>9. OwnToImage(h, own, planes, image) = [k EXCEPT !.image = image]
  BY <1>3, <1>7 DEF OwnToImage
<1>10. [g EXCEPT !.wrap = wrap] = [own |-> own, wrap |-> wrap, planes |-> c, image |-> d]
  BY <1>4
<1>11. [g EXCEPT !.image = image] = [own |-> own, wrap |-> b, planes |-> c, image |-> image]
  BY <1>4
<1>12. [k EXCEPT !.image = image] = [own |-> own, wrap |-> b, planes |-> planes, image |-> image]
  BY <1>8
<1> QED BY <1>2, <1>5, <1>6, <1>9, <1>10, <1>11, <1>12, Zenon

\* A packet's buffer is made in the place of the old one.
LEMMA AllocPacketKeeps ==
  ASSUME Typed, NEW x \in DOMAIN obj, NEW data \in Seq(0 .. 255), AllocPacket(x, data)
  PROVE  Keeps(x)
<1> DEFINE n == Len(buf)
           m == n + 1
           h == obj[x]
           new == <<m>>
           left == Unref(buf, h.own)
           made == Append(left, NewBuffer(data))
           bs == Unref(Ref(made, new), h.wrap)
<1>1. /\ x \in {"packet", "frame", "c_packet", "c_frame"} /\ n \in Nat
      /\ buf \in Seq(Buffer) /\ h \in ObjectOf(x, n)
  BY Before
<1>2. x \in {"packet", "c_packet"} /\ Slots(x) = 1
  BY DEF AllocPacket, Slots
<1>3. IF x = "packet" THEN Media(x, [h EXCEPT !.own = new, !.wrap = new], bs)
      ELSE Media(x, [h EXCEPT !.own = new], made)
  BY DEF AllocPacket
<1>4. m \in Nat /\ m = n + 1 /\ n <= m /\ \A b \in n + 1 .. m : b = m
  BY <1>1
<1>5. \A b \in 1 .. m : b \in 1 .. n \/ b = m
  BY <1>1
<1>6. \A b \in 1 .. n : b \in 1 .. m
  BY <1>1
<1> HIDE DEF n, m
<1>7. /\ new \in Seq(1 .. m) /\ new \in Seq(0 .. m) /\ new \in [1 .. 1 -> 0 .. m]
      /\ Times(m, new) = 1 /\ \A b \in 1 .. n : Times(b, new) = 0
  BY <1>1, <1>4, OneBuffer
<1> HIDE DEF h, new
<1>8. /\ h = [own |-> h.own, wrap |-> h.wrap, planes |-> h.planes, image |-> h.image]
      /\ h.own \in Seq(0 .. n) /\ h.wrap \in Seq(0 .. n)
      /\ h.planes \in 0 .. Slots(x) /\ h.image \in Image
  BY <1>1, ObjectFields
<1>9. \A b : Times(b, h.own) \in Nat /\ Times(b, h.wrap) \in Nat
  BY <1>1, ObjectFields
<1>10. /\ left \in Seq(Buffer) /\ Len(left) = n
       /\ \A b \in 1 .. n : left[b].data = buf[b].data /\ left[b].refs = buf[b].refs - Times(b, h.own)
                            /\ buf[b].refs \in Int
  BY <1>1, <1>8, RefShape DEF n
<1>11. NewBuffer(data) \in Buffer /\ NewBuffer(data).refs = 1
  BY NewBufferShape
<1> HIDE DEF left
<1>12. /\ made \in Seq(Buffer) /\ Len(made) = m
       /\ made[m] = NewBuffer(data) /\ \A b \in 1 .. n : made[b] = left[b]
  BY <1>1, <1>4, <1>10, <1>11
<1> HIDE DEF made
<1>13. Times(m, h.wrap) = 0
  <2>1. m > n
    BY <1>1, <1>4
  <2> QED BY <1>1, <1>4, <1>8, <2>1, NoneNew
<1>14. CASE x = "packet"
  <2>1. /\ Ref(made, new) \in Seq(Buffer) /\ Len(Ref(made, new)) = m
        /\ \A b \in 1 .. m : /\ Ref(made, new)[b].data = made[b].data
                             /\ Ref(made, new)[b].refs = made[b].refs + Times(b, new)
                             /\ made[b].refs \in Int /\ Times(b, new) \in Nat
    BY <1>7, <1>12, RefShape
  <2> DEFINE mid == Ref(made, new)
  <2> HIDE DEF mid
  <2>9. mid \in Seq(Buffer) /\ Len(mid) = m /\ bs = Unref(mid, h.wrap)
    BY <2>1 DEF mid
  <2>10. \A b \in 1 .. m : /\ mid[b].data = made[b].data
                         /\ mid[b].refs = made[b].refs + Times(b, new)
    BY <2>1 DEF mid
  <2> HIDE DEF bs
  <2>2. /\ bs \in Seq(Buffer) /\ Len(bs) = m
        /\ \A b \in 1 .. m : /\ bs[b].data = made[b].data
                             /\ bs[b].refs = (made[b].refs + Times(b, new)) - Times(b, h.wrap)
    <3>1. /\ Unref(mid, h.wrap) \in Seq(Buffer) /\ Len(Unref(mid, h.wrap)) = Len(mid)
          /\ \A b \in 1 .. Len(mid) : /\ Unref(mid, h.wrap)[b].data = mid[b].data
                                     /\ Unref(mid, h.wrap)[b].refs = mid[b].refs - Times(b, h.wrap)
      BY <1>8, <2>9, RefShape
    <3> QED BY <2>9, <2>10, <3>1
  <2>3. ASSUME NEW b \in 1 .. n
        PROVE  /\ bs[b].data = buf[b].data
               /\ bs[b].refs + Times(b, h.own) + Times(b, h.wrap) >= buf[b].refs + Times(b, new) + Times(b, new)
    <3>1. b \in 1 .. m /\ Times(b, new) = 0
      BY <1>6, <1>7
    <3>2. bs[b].data = buf[b].data
      BY <1>10, <1>12, <2>2, <3>1
    <3>3. /\ bs[b].refs = (left[b].refs + Times(b, new)) - Times(b, h.wrap)
          /\ left[b].refs = buf[b].refs - Times(b, h.own) /\ buf[b].refs \in Int
      BY <1>10, <1>12, <2>2, <3>1
    <3>4. PICK q \in Int, o \in Nat, w \in Nat :
              q = buf[b].refs /\ o = Times(b, h.own) /\ w = Times(b, h.wrap)
      BY <1>9, <3>3
    <3>5. bs[b].refs = ((q - o) + 0) - w
      <4>1. left[b].refs = q - o /\ bs[b].refs = (left[b].refs + 0) - w
        BY <3>1, <3>3, <3>4, Zenon
      <4> QED BY <4>1, Zenon
    <3>6. (((q - o) + 0) - w) + o + w >= q + 0 + 0
      OBVIOUS
    <3> QED BY <3>1, <3>2, <3>4, <3>5, <3>6, Zenon
  <2>4. bs[m].refs >= Times(m, new) + Times(m, new)
    <3>1. m \in 1 .. m
      BY <1>1, <1>4
    <3>2. bs[m].refs = (1 + 1) - 0
      BY <1>7, <1>11, <1>12, <1>13, <2>2, <3>1, Zenon
    <3> QED BY <1>7, <3>2
  <2>5. Balanced(x, new, new, h.planes, h.image, bs)
    <3>1. /\ new \in [1 .. Slots(x) -> 0 .. Len(bs)] /\ new \in Seq(0 .. Len(bs)) /\ new \in Seq(1 .. Len(bs))
          /\ h.planes \in 0 .. Slots(x) /\ h.image \in Image
      BY <1>2, <1>7, <1>8, <2>2
    <3> QED BY <1>4, <2>2, <2>3, <2>4, <3>1 DEF Balanced, n, h
  <2>6. Grown(x, [own |-> new, wrap |-> new, planes |-> h.planes, image |-> h.image], bs)
    BY <2>5, GrownFrom
  <2>7. OwnAndWrap(h, new, new) = [own |-> new, wrap |-> new, planes |-> h.planes, image |-> h.image]
    <3>1. Parts(h)
      BY <1>8 DEF Parts
    <3> QED BY <3>1, Fields
  <2>8. Media(x, OwnAndWrap(h, new, new), bs)
    BY <1>3, <1>14 DEF OwnAndWrap, bs
  <2> QED BY <2>6, <2>7, <2>8 DEF Keeps
<1>15. CASE x = "c_packet"
  <2>1. ASSUME NEW b \in 1 .. n
        PROVE  /\ made[b].data = buf[b].data
               /\ made[b].refs + Times(b, h.own) + Times(b, h.wrap) >= buf[b].refs + Times(b, new) + Times(b, h.wrap)
    <3>1. Times(b, new) = 0
      BY <1>7
    <3>2. made[b].data = buf[b].data /\ made[b].refs = buf[b].refs - Times(b, h.own) /\ buf[b].refs \in Int
      BY <1>10, <1>12
    <3>3. PICK q \in Int, o \in Nat, w \in Nat :
              q = buf[b].refs /\ o = Times(b, h.own) /\ w = Times(b, h.wrap)
      BY <1>9, <3>2
    <3>4. made[b].refs = q - o
      BY <3>2, <3>3, Zenon
    <3>5. (q - o) + o + w >= q + 0 + w
      BY <3>3
    <3> QED BY <3>1, <3>2, <3>3, <3>4, <3>5, Zenon
  <2>2. made[m].refs >= Times(m, new) + Times(m, h.wrap)
    BY <1>7, <1>11, <1>12, <1>13
  <2>3. h.wrap \in Seq(0 .. m)
    <3>1. 0 .. n \subseteq 0 .. m
      BY <1>1, <1>4
    <3> QED BY <1>8, <3>1, SeqMonotonic
  <2>4. Balanced(x, new, h.wrap, h.planes, h.image, made)
    <3>1. /\ new \in [1 .. Slots(x) -> 0 .. Len(made)] /\ h.wrap \in Seq(0 .. Len(made))
          /\ h.planes \in 0 .. Slots(x) /\ h.image \in Image
      BY <1>2, <1>7, <1>8, <1>12, <2>3
    <3> QED BY <1>4, <1>12, <1>15, <2>1, <2>2, <3>1 DEF Balanced, n, h
  <2>5. Grown(x, [own |-> new, wrap |-> h.wrap, planes |-> h.planes, image |-> h.image], made)
    BY <2>4, GrownFrom
  <2>6. [h EXCEPT !.own = new] = [own |-> new, wrap |-> h.wrap, planes |-> h.planes, image |-> h.image]
    BY <1>8
  <2> QED BY <1>3, <1>15, <2>5, <2>6 DEF Keeps
<1> QED BY <1>2, <1>14, <1>15

\* A struct is emptied.
LEMMA GivenBackKeeps ==
  ASSUME Typed, NEW x \in DOMAIN obj, Clear(x) \/ AllocPacketFails(x)
  PROVE  Keeps(x)
<1>1. Media(x, Cleared(obj[x]), Unref(buf, obj[x].own))
  BY DEF Clear, AllocPacketFails
<1> QED BY <1>1, GivenBack DEF Keeps

\* A C++ object gives back all it has.
LEMMA RemakeKeeps ==
  ASSUME Typed, NEW x \in DOMAIN obj, Remake(x)
  PROVE  Keeps(x)
<1> DEFINE n == Len(buf)
           h == obj[x]
           k == Slots(x)
           z == [i \in 1 .. k |-> 0]
           all == Refs(h)
           bs == Unref(buf, all)
<1>1. /\ x \in {"packet", "frame", "c_packet", "c_frame"} /\ n \in Nat
      /\ buf \in Seq(Buffer) /\ h \in ObjectOf(x, n)
  BY Before
<1>2. k \in {1, 4}
  BY <1>1 DEF Slots
<1>3. PICK p : p = IF k = 1 THEN 1 ELSE 0
  OBVIOUS
<1>15. PICK e : e = <<>>
  OBVIOUS
<1>4. p \in 0 .. k
  BY <1>2, <1>3
<1>5. Media(x, [own |-> z, wrap |-> e, planes |-> p, image |-> h.image], bs)
  BY <1>3, <1>15 DEF Remake, Fresh, Blank
<1> HIDE DEF n, h, k
<1>6. h \in Holder(k, n)
  BY <1>1, ObjectShape DEF k
<1>7. all \in Seq(0 .. n)
  BY <1>1, <1>2, <1>6, HolderShape
<1>8. h.image \in Image
  BY <1>6 DEF Holder
<1>9. \A b : /\ Times(b, all) = Times(b, h.own) + Times(b, h.wrap)
             /\ Times(b, h.own) \in Nat /\ Times(b, h.wrap) \in Nat
  BY <1>1, ObjectFields
<1>10. z \in [1 .. k -> 0 .. n] /\ \A b \in Nat \ {0} : Times(b, z) = 0
  BY <1>1, <1>2, NoneOwned
<1>11. e \in Seq(0 .. n) /\ e \in Seq(1 .. n) /\ \A b : Times(b, e) = 0
  <2>1. e \in Seq(0 .. n) /\ e \in Seq(1 .. n) /\ \A b : \A i \in 1 .. Len(e) : e[i] # b
    BY <1>15
  <2> QED BY <2>1, TimesNone
<1> HIDE DEF z, all
<1>12. /\ bs \in Seq(Buffer) /\ Len(bs) = n
       /\ \A b \in 1 .. n : bs[b].data = buf[b].data /\ bs[b].refs = buf[b].refs - Times(b, all) /\ buf[b].refs \in Int
  BY <1>1, <1>7, RefShape DEF n
<1> HIDE DEF bs
<1>13. ASSUME NEW b \in 1 .. n
       PROVE  /\ bs[b].data = buf[b].data
              /\ bs[b].refs + Times(b, h.own) + Times(b, h.wrap) >= buf[b].refs + Times(b, z) + Times(b, e)
  <2>1. PICK q \in Int, o \in Nat, w \in Nat :
            q = buf[b].refs /\ o = Times(b, h.own) /\ w = Times(b, h.wrap)
    BY <1>9, <1>12
  <2>2. bs[b].refs = q - (o + w) /\ Times(b, z) = 0
    <3>1. Times(b, all) = o + w
      BY <1>9, <2>1
    <3>2. bs[b].refs = buf[b].refs - Times(b, all)
      BY <1>12
    <3>3. b \in Nat \ {0}
      BY <1>1
    <3> QED BY <1>10, <2>1, <3>1, <3>2, <3>3, Zenon
  <2>3. (q - (o + w)) + o + w >= q + 0 + 0
    OBVIOUS
  <2> QED BY <1>11, <1>12, <2>1, <2>2, <2>3, Zenon
<1>14. Balanced(x, z, e, p, h.image, bs)
  <2>1. /\ z \in [1 .. Slots(x) -> 0 .. Len(bs)] /\ e \in Seq(0 .. Len(bs)) /\ e \in Seq(1 .. Len(bs))
        /\ p \in 0 .. Slots(x) /\ Len(buf) <= Len(bs)
        /\ \A b \in Len(buf) + 1 .. Len(bs) : bs[b].refs >= Times(b, z) + Times(b, e)
    BY <1>1, <1>4, <1>10, <1>11, <1>12 DEF k, n
  <2> QED BY <1>8, <1>12, <1>13, <2>1 DEF Balanced, n, h
<1> QED BY <1>5, <1>14, GrownFrom DEF Keeps

\* A format has three planes at most.
LEMMA PlaneCount ==
  ASSUME NEW im
  PROVE  Len(PlaneSizes(im)) \in 0 .. 3
<1> DEFINE w == im.width
           h == im.height
<1>1. /\ Len(<<w * h, (w \div 2) * (h \div 2), (w \div 2) * (h \div 2)>>) = 3
      /\ Len(<<w * h, w * (h \div 2)>>) = 2 /\ Len(<<w * h * 2>>) = 1
      /\ Len(<<w * h * 3>>) = 1 /\ Len(<<w * h * 4>>) = 1 /\ Len(<<0>>) = 1 /\ Len(<<>>) = 0
  OBVIOUS
<1> QED BY <1>1 DEF PlaneSizes

\* A frame loses the planes before the one that cannot be made.
LEMMA AllocFrameFailsKeeps ==
  ASSUME Typed, NEW x \in DOMAIN obj, NEW im \in Images, NEW k \in 1 .. 4, AllocFrameFails(x, im, k)
  PROVE  Keeps(x)
<1> DEFINE n == Len(buf)
           h == obj[x]
           own == [i \in 1 .. 4 |-> IF i <= k THEN 0 ELSE h.own[i]]
<1>1. /\ x \in {"packet", "frame", "c_packet", "c_frame"} /\ n \in Nat
      /\ buf \in Seq(Buffer) /\ h \in ObjectOf(x, n)
  BY Before
<1>2. Slots(x) = 4
  BY DEF AllocFrameFails, Slots
<1>3. Media(x, OwnAndImage(h, own, im), buf)
  BY DEF AllocFrameFails, OwnAndImage
<1> HIDE DEF n, h
<1>4. /\ h = [own |-> h.own, wrap |-> h.wrap, planes |-> h.planes, image |-> h.image]
      /\ h.own \in Seq(0 .. n) /\ Len(h.own) = 4 /\ h.wrap \in Seq(0 .. n)
      /\ (x = "packet" => h.wrap \in Seq(1 .. n)) /\ h.planes \in 0 .. Slots(x)
  BY <1>1, <1>2, ObjectFields
<1>5. \A b : Times(b, h.own) \in Nat /\ Times(b, h.wrap) \in Nat
  BY <1>1, ObjectFields
<1>6. own \in [1 .. 4 -> 0 .. n] /\ own \in Seq(0 .. n) /\ Len(own) = 4
  BY <1>1, <1>4
<1>7. \A b \in 1 .. n : \A i \in 1 .. Len(own) : own[i] = b => i \in 1 .. Len(h.own) /\ h.own[i] = b
  <2> SUFFICES ASSUME NEW b \in 1 .. n, NEW i \in 1 .. 4, own[i] = b
               PROVE  h.own[i] = b
    BY <1>4, <1>6
  <2>1. b # 0 /\ own[i] = (IF i <= k THEN 0 ELSE h.own[i])
    BY <1>1
  <2> HIDE DEF own
  <2> QED BY <2>1
<1>8. \A i \in 1 .. n : buf[i].refs \in Int
  <2>1. \A i \in 1 .. n : buf[i] \in Buffer
    BY <1>1 DEF n
  <2> QED BY <2>1 DEF Buffer
<1> HIDE DEF own
<1>9. ASSUME NEW b \in 1 .. n
      PROVE  buf[b].refs + Times(b, h.own) + Times(b, h.wrap) >= buf[b].refs + Times(b, own) + Times(b, h.wrap)
  <2>1. Times(b, own) <= Times(b, h.own) /\ Times(b, own) \in Nat
    BY <1>4, <1>6, <1>7, TimesLess, TimesType
  <2> QED BY <1>5, <1>8, <2>1
<1>10. Balanced(x, own, h.wrap, h.planes, im, buf)
  <2>1. \A b \in Len(buf) + 1 .. Len(buf) : buf[b].refs >= Times(b, own) + Times(b, h.wrap)
    BY <1>1 DEF n
  <2>2. im \in Image
    BY DEF Image
  <2> QED BY <1>1, <1>2, <1>4, <1>6, <1>9, <2>1, <2>2 DEF Balanced, n, h
<1>11. OwnAndImage(h, own, im) = [own |-> own, wrap |-> h.wrap, planes |-> h.planes, image |-> im]
  BY <1>4, Fields DEF Parts
<1> QED BY <1>3, <1>10, <1>11, GrownFrom DEF Keeps

\* The buffers of a frame's planes are made behind the others.
LEMMA AllocFrameKeeps ==
  ASSUME Typed, NEW x \in DOMAIN obj, NEW im \in Images, AllocFrame(x, im)
  PROVE  Keeps(x)
<1> DEFINE n == Len(buf)
           h == obj[x]
           k == Len(PlaneSizes(im))
           m == n + k
           own == [i \in 1 .. 4 |-> IF i <= k THEN n + i ELSE h.own[i]]
           new == [i \in 1 .. k |-> NewBuffer(<<>>)]
           bs == buf \o new
<1>1. /\ x \in {"packet", "frame", "c_packet", "c_frame"} /\ n \in Nat
      /\ buf \in Seq(Buffer) /\ h \in ObjectOf(x, n)
  BY Before
<1>2. Slots(x) = 4 /\ x # "packet"
  BY DEF AllocFrame, Slots
<1>3. Media(x, OwnToImage(h, own, k, im), bs)
  BY DEF AllocFrame, OwnToImage
<1>4. k \in 0 .. 3
  BY PlaneCount
<1> HIDE DEF n, h, k
<1>5. m \in Nat /\ n <= m /\ \A i \in 1 .. k : n + i \in 1 .. m
  BY <1>1, <1>4
<1>6. ASSUME NEW b \in n + 1 .. m
      PROVE  b - n \in 1 .. k /\ b = n + (b - n) /\ b - n \in 1 .. 4 /\ b \in Nat /\ b > n
  BY <1>1, <1>4
<1> HIDE DEF m
<1>7. /\ h = [own |-> h.own, wrap |-> h.wrap, planes |-> h.planes, image |-> h.image]
      /\ h.own \in Seq(0 .. n) /\ Len(h.own) = 4 /\ h.wrap \in Seq(0 .. n)
      /\ h.own \in [1 .. 4 -> 0 .. n]
  BY <1>1, <1>2, ObjectFields
<1>8. \A b : Times(b, h.own) \in Nat /\ Times(b, h.wrap) \in Nat
  BY <1>1, ObjectFields
<1>9. ASSUME NEW i \in 1 .. 4
      PROVE  /\ i <= k => own[i] = n + i /\ own[i] \in 1 .. m
             /\ ~(i <= k) => own[i] = h.own[i] /\ own[i] \in 0 .. n
             /\ own[i] \in 0 .. m
  <2>1. own[i] = (IF i <= k THEN n + i ELSE h.own[i])
    OBVIOUS
  <2>2. i <= k => n + i \in 1 .. m
    BY <1>4, <1>5
  <2>3. h.own[i] \in 0 .. n
    BY <1>7
  <2> HIDE DEF own
  <2> QED BY <1>1, <1>5, <2>1, <2>2, <2>3
<1>10. DOMAIN own = 1 .. 4 /\ own = [i \in 1 .. 4 |-> own[i]]
  OBVIOUS
<1> HIDE DEF own
<1>11. own \in [1 .. 4 -> 0 .. m] /\ own \in Seq(0 .. m) /\ Len(own) = 4
  <2>1. own \in [1 .. 4 -> 0 .. m]
    BY <1>9, <1>10
  <2>2. PICK N \in Nat : N = 4
    OBVIOUS
  <2>3. own \in [1 .. N -> 0 .. m]
    BY <2>1, <2>2
  <2>4. own \in Seq(0 .. m) /\ Len(own) = N
    BY <1>5, <2>3
  <2> QED BY <2>1, <2>2, <2>4
<1>12. /\ new \in Seq(Buffer) /\ Len(new) = k
       /\ \A i \in 1 .. k : new[i] = NewBuffer(<<>>)
       /\ NewBuffer(<<>>) \in Buffer /\ NewBuffer(<<>>).refs = 1
  <2>1. NewBuffer(<<>>) \in Buffer /\ NewBuffer(<<>>).refs = 1
    <3>1. <<>> \in Seq(0 .. 255)
      OBVIOUS
    <3> QED BY <3>1, NewBufferShape
  <2> QED BY <1>4, <2>1
<1> HIDE DEF new
<1>13. /\ bs \in Seq(Buffer) /\ Len(bs) = m
       /\ \A b \in 1 .. n : bs[b] = buf[b]
       /\ \A b \in n + 1 .. m : bs[b] = new[b - n]
  BY <1>1, <1>4, <1>12 DEF n, m
<1> HIDE DEF bs
<1>14. \A i \in 1 .. n : buf[i].refs \in Int
  <2>1. \A i \in 1 .. n : buf[i] \in Buffer
    BY <1>1 DEF n
  <2> QED BY <2>1 DEF Buffer
<1>15. ASSUME NEW b \in 1 .. n
       PROVE  /\ bs[b].data = buf[b].data
              /\ bs[b].refs + Times(b, h.own) + Times(b, h.wrap) >= buf[b].refs + Times(b, own) + Times(b, h.wrap)
  <2>1. \A i \in 1 .. Len(own) : own[i] = b => i \in 1 .. Len(h.own) /\ h.own[i] = b
    <3> SUFFICES ASSUME NEW i \in 1 .. 4, own[i] = b PROVE h.own[i] = b
      BY <1>7, <1>11
    <3>1. i <= k => own[i] # b
      <4>1. i <= k => n + i # b
        BY <1>1, <1>4
      <4> QED BY <1>9, <4>1
    <3> QED BY <1>9, <3>1
  <2>2. Times(b, own) <= Times(b, h.own) /\ Times(b, own) \in Nat
    BY <1>7, <1>11, <2>1, TimesLess, TimesType
  <2>3. bs[b] = buf[b] /\ buf[b].refs \in Int
    BY <1>13, <1>14
  <2> QED BY <1>8, <2>2, <2>3
<1>16. ASSUME NEW b \in n + 1 .. m
       PROVE  bs[b].refs >= Times(b, own) + Times(b, h.wrap)
  <2>1. /\ b - n \in 1 .. k /\ b = n + (b - n) /\ b - n \in 1 .. 4 /\ b \in Nat /\ b > n
    BY <1>6
  <2>2. bs[b].refs = 1
    BY <1>12, <1>13, <2>1
  <2>3. Times(b, h.wrap) = 0
    BY <1>1, <1>7, <2>1, NoneNew
  <2>4. own[b - n] = b
    <3>1. PICK j : j = b - n
      OBVIOUS
    <3>2. j \in 1 .. k /\ j \in 1 .. 4 /\ b = n + j
      BY <2>1, <3>1
    <3>3. own[j] = n + j
      BY <1>4, <1>9, <3>2
    <3> QED BY <3>1, <3>2, <3>3
  <2>5. \A i \in 1 .. Len(own) : own[i] = b => i = b - n
    <3> SUFFICES ASSUME NEW i \in 1 .. 4, own[i] = b PROVE i = b - n
      BY <1>11
    <3>1. CASE i <= k
      BY <1>1, <1>9, <3>1, <2>1
    <3>2. CASE ~(i <= k)
      BY <1>1, <1>9, <3>2, <2>1
    <3> QED BY <3>1, <3>2
  <2>6. b - n \in 1 .. Len(own)
    BY <1>11, <2>1
  <2>7. Times(b, own) = 1
    <3>1. PICK j : j = b - n
      OBVIOUS
    <3> QED BY <1>11, <2>4, <2>5, <2>6, <3>1, TimesOne
  <2> QED BY <2>2, <2>3, <2>7
<1>17. Balanced(x, own, h.wrap, k, im, bs)
  <2>1. h.wrap \in Seq(0 .. m)
    <3>1. 0 .. n \subseteq 0 .. m
      BY <1>1, <1>5
    <3> QED BY <1>7, <3>1, SeqMonotonic
  <2>2. im \in Image /\ k \in 0 .. Slots(x)
    BY <1>2, <1>4 DEF Image
  <2>3. own \in [1 .. Slots(x) -> 0 .. Len(bs)] /\ h.wrap \in Seq(0 .. Len(bs))
    BY <1>2, <1>11, <1>13, <2>1
  <2>4. bs \in Seq(Buffer) /\ Len(buf) <= Len(bs)
    BY <1>5, <1>13 DEF n
  <2> QED BY <1>2, <1>13, <1>15, <1>16, <2>2, <2>3, <2>4 DEF Balanced, n, h
<1>18. OwnToImage(h, own, k, im) = [own |-> own, wrap |-> h.wrap, planes |-> k, image |-> im]
  BY <1>7, Fields DEF Parts
<1> QED BY <1>3, <1>17, <1>18, GrownFrom DEF Keeps

\* A copied struct has the source's first p planes, and of its own the others.
Overwritten(f, t, p, k) == [i \in 1 .. k |-> IF i <= p THEN f[i] ELSE t[i]]

\* It refers to no buffer more often than the two it was made from.
LEMMA CopiedOwn ==
  ASSUME NEW n \in Nat, NEW k \in Nat, NEW f \in Seq(0 .. n), Len(f) = k, NEW p \in 0 .. k,
         NEW t \in Seq(0 .. n), Len(t) = k
  PROVE  /\ Overwritten(f, t, p, k) \in [1 .. k -> 0 .. n]
         /\ SubSeq(f, 1, p) \in Seq(0 .. n)
         /\ \A b : /\ Times(b, Overwritten(f, t, p, k)) <= Times(b, t) + Times(b, SubSeq(f, 1, p))
                   /\ Times(b, Overwritten(f, t, p, k)) \in Nat
                   /\ Times(b, SubSeq(f, 1, p)) \in Nat
<1> DEFINE s == SubSeq(f, 1, p)
           own == Overwritten(f, t, p, k)
<1>1. s \in Seq(0 .. n) /\ Len(s) = p /\ \A i \in 1 .. p : s[i] = f[i]
  OBVIOUS
<1>2. ASSUME NEW i \in 1 .. k
      PROVE  own[i] \in 0 .. n /\ (i <= p => i \in 1 .. p /\ own[i] = f[i]) /\ (~(i <= p) => own[i] = t[i])
  BY DEF Overwritten
<1>3. own \in [1 .. k -> 0 .. n]
  BY <1>2 DEF Overwritten
<1> HIDE DEF s, own
<1>4. own \in Seq(0 .. n) /\ Len(own) = k
  BY <1>3
<1>5. ASSUME NEW b
      PROVE  Times(b, own) <= Times(b, t) + Times(b, s)
  <2>1. \A i \in 1 .. Len(own) : own[i] = b =>
           (i \in 1 .. Len(t) /\ t[i] = b) \/ (i \in 1 .. Len(s) /\ s[i] = b)
    BY <1>1, <1>2, <1>4
  <2> QED BY <1>1, <1>4, <2>1, TimesBoth
<1>6. \A b : Times(b, own) \in Nat /\ Times(b, s) \in Nat
  BY <1>1, <1>4, TimesType
<1> QED BY <1>1, <1>3, <1>5, <1>6 DEF s, own

\* A struct and its C++ object have as many slots.
LEMMA SameSlots ==
  ASSUME Typed, NEW x \in DOMAIN obj, NEW y \in DOMAIN obj
  PROVE  Slots(x) = Slots(y)
<1>1. PICK w \in DOMAIN Cpp : DOMAIN obj = {w, Cpp[w]}
  BY DEF Typed
<1>2. (w = "packet" /\ Cpp[w] = "c_packet") \/ (w = "frame" /\ Cpp[w] = "c_frame")
  BY DEF Cpp
<1> QED BY <1>1, <1>2 DEF Slots

\* What Copied makes of two objects.
LEMMA CopiedShape ==
  ASSUME NEW n \in Nat, NEW k \in Nat, NEW from \in Holder(k, n), NEW to \in Holder(k, n)
  PROVE  \E own :
            /\ Copied(from, to) = [own |-> own, wrap |-> to.wrap, planes |-> from.planes, image |-> from.image]
            /\ own \in [1 .. k -> 0 .. n]
            /\ SubSeq(from.own, 1, from.planes) \in Seq(0 .. n)
            /\ \A b : /\ Times(b, own) <= Times(b, to.own) + Times(b, SubSeq(from.own, 1, from.planes))
                      /\ Times(b, own) \in Nat
                      /\ Times(b, SubSeq(from.own, 1, from.planes)) \in Nat
<1> DEFINE own == Overwritten(from.own, to.own, from.planes, k)
<1>1. /\ to = [own |-> to.own, wrap |-> to.wrap, planes |-> to.planes, image |-> to.image]
      /\ DOMAIN to.own = 1 .. k /\ from.planes \in 0 .. k
  BY DEF Holder
<1>2. from.own \in Seq(0 .. n) /\ Len(from.own) = k /\ to.own \in Seq(0 .. n) /\ Len(to.own) = k
  BY HolderShape
<1>3. Copied(from, to) = OwnToImage(to, own, from.planes, from.image)
  BY <1>1 DEF Copied, OwnToImage, Overwritten
<1> HIDE DEF own
<1>4. Copied(from, to) = [own |-> own, wrap |-> to.wrap, planes |-> from.planes, image |-> from.image]
  BY <1>1, <1>3, Fields DEF Parts
<1>5. /\ own \in [1 .. k -> 0 .. n] /\ SubSeq(from.own, 1, from.planes) \in Seq(0 .. n)
      /\ \A b : /\ Times(b, own) <= Times(b, to.own) + Times(b, SubSeq(from.own, 1, from.planes))
                /\ Times(b, own) \in Nat
                /\ Times(b, SubSeq(from.own, 1, from.planes)) \in Nat
  BY <1>1, <1>2, CopiedOwn DEF own
<1> QED BY <1>4, <1>5

\* A copy has references of its own.
LEMMA CopyKeeps ==
  ASSUME Typed, NEW x \in DOMAIN obj, NEW y \in DOMAIN obj, Copy(x, y)
  PROVE  Keeps(y)
<1> DEFINE n == Len(buf)
           k == Slots(y)
           from == obj[x]
           to == obj[y]
           sub == SubSeq(from.own, 1, from.planes)
           bs == Ref(buf, sub)
<1>1. /\ x \in {"packet", "frame", "c_packet", "c_frame"} /\ y \in {"packet", "frame", "c_packet", "c_frame"}
      /\ n \in Nat /\ buf \in Seq(Buffer) /\ from \in ObjectOf(x, n) /\ to \in ObjectOf(y, n)
  BY Before
<1>2. Slots(x) = k /\ y # "packet"
  BY SameSlots DEF Copy
<1>3. Media(y, Copied(from, to), bs)
  BY DEF Copy, CopyRefs
<1> HIDE DEF n, from, to, k
<1>4. from \in Holder(k, n) /\ to \in Holder(k, n) /\ k \in Nat
  <2>1. from \in Holder(Slots(x), n) /\ to \in Holder(Slots(y), n) /\ Slots(y) \in Nat
    BY <1>1, ObjectShape
  <2> QED BY <1>2, <2>1 DEF k
<1>5. PICK own :
         /\ Copied(from, to) = [own |-> own, wrap |-> to.wrap, planes |-> from.planes, image |-> from.image]
         /\ own \in [1 .. k -> 0 .. n] /\ sub \in Seq(0 .. n)
         /\ \A b : /\ Times(b, own) <= Times(b, to.own) + Times(b, sub)
                   /\ Times(b, own) \in Nat /\ Times(b, sub) \in Nat
  BY <1>1, <1>4, CopiedShape
<1>6. \A b : Times(b, to.own) \in Nat /\ Times(b, to.wrap) \in Nat
  BY <1>1, <1>4, HolderShape
<1> HIDE DEF sub
<1>7. /\ bs \in Seq(Buffer) /\ Len(bs) = n
      /\ \A b \in 1 .. n : bs[b].data = buf[b].data /\ bs[b].refs = buf[b].refs + Times(b, sub) /\ buf[b].refs \in Int
  BY <1>1, <1>5, RefShape DEF n
<1> HIDE DEF bs
<1>8. ASSUME NEW b \in 1 .. n
      PROVE  /\ bs[b].data = buf[b].data
             /\ bs[b].refs + Times(b, to.own) + Times(b, to.wrap) >= buf[b].refs + Times(b, own) + Times(b, to.wrap)
  <2>1. PICK q \in Int, s \in Nat, o \in Nat, w \in Nat, p \in Nat :
            q = buf[b].refs /\ s = Times(b, sub) /\ o = Times(b, to.own) /\ w = Times(b, to.wrap) /\ p = Times(b, own)
    BY <1>5, <1>6, <1>7
  <2>2. p <= o + s
    BY <1>5, <2>1
  <2>3. (q + s) + o + w >= q + p + w
    BY <2>2
  <2>4. bs[b].refs = q + s
    BY <1>7, <2>1
  <2> QED BY <1>7, <2>1, <2>3, <2>4, Zenon
<1>9. Balanced(y, own, to.wrap, from.planes, from.image, bs)
  <2>1. /\ own \in [1 .. Slots(y) -> 0 .. Len(bs)] /\ to.wrap \in Seq(0 .. Len(bs))
        /\ from.planes \in 0 .. Slots(y) /\ from.image \in Image
    <3>1. to.wrap \in Seq(0 .. n) /\ from.planes \in 0 .. k /\ from.image \in Image
      BY <1>4 DEF Holder
    <3> QED BY <1>5, <1>7, <3>1 DEF k
  <2>2. /\ Len(buf) <= Len(bs)
        /\ \A b \in Len(buf) + 1 .. Len(bs) : bs[b].refs >= Times(b, own) + Times(b, to.wrap)
    BY <1>1, <1>7 DEF n
  <2> QED BY <1>2, <1>7, <1>8, <2>1, <2>2 DEF Balanced, n, to
<1> QED BY <1>3, <1>5, <1>9, GrownFrom DEF Keeps

\* A cleared object's struct refers to nothing; its adapters are what they were.
LEMMA ClearedShape ==
  ASSUME NEW n \in Nat, NEW k \in Nat, NEW h \in Holder(k, n)
  PROVE  /\ Cleared(h) \in Holder(k, n) /\ Cleared(h).wrap = h.wrap
         /\ \A b \in Nat \ {0} : Times(b, Cleared(h).own) = 0
<1> DEFINE z == [i \in 1 .. k |-> 0]
<1>1. /\ h = [own |-> h.own, wrap |-> h.wrap, planes |-> h.planes, image |-> h.image]
      /\ DOMAIN h.own = 1 .. k /\ h.wrap \in Seq(0 .. n) /\ h.planes \in 0 .. k /\ h.image \in Image
  BY DEF Holder
<1>2. z \in [1 .. k -> 0 .. n] /\ \A b \in Nat \ {0} : Times(b, z) = 0
  BY NoneOwned
<1>3. Cleared(h) = [h EXCEPT !.own = z]
  <2>1. Cleared(h) = [h EXCEPT !.own = [i \in DOMAIN h.own |-> 0]]
    BY DEF Cleared
  <2>2. [i \in DOMAIN h.own |-> 0] = z
    BY <1>1
  <2> QED BY <2>1, <2>2
<1> HIDE DEF z
<1>4. Cleared(h) = [own |-> z, wrap |-> h.wrap, planes |-> h.planes, image |-> h.image]
  BY <1>1, <1>3
<1>5. [own |-> z, wrap |-> h.wrap, planes |-> h.planes, image |-> h.image] \in Holder(k, n)
  BY <1>1, <1>2 DEF Holder
<1> QED BY <1>2, <1>4, <1>5

\* The buffers of the planes that have one, in their order.
PlanesOf(f) ==
    FlattenSeq([i \in 1 .. f.planes |-> IF f.own[i] = 0 THEN <<>> ELSE <<f.own[i]>>])

\* The adapters that FromCStruct makes have buffers.
LEMMA PlanesOfType ==
  ASSUME NEW n \in Nat, NEW k \in Nat, NEW f \in Holder(k, n)
  PROVE  PlanesOf(f) \in Seq(1 .. n) /\ PlanesOf(f) \in Seq(0 .. n)
<1> DEFINE s == [i \in 1 .. f.planes |-> IF f.own[i] = 0 THEN <<>> ELSE <<f.own[i]>>]
<1>1. f.planes \in 0 .. k /\ f.own \in [1 .. k -> 0 .. n]
  BY DEF Holder
<1>2. ASSUME NEW i \in 1 .. f.planes
      PROVE  s[i] \in Seq(1 .. n)
  <2>1. f.own[i] \in 0 .. n
    BY <1>1
  <2>2. <<>> \in Seq(1 .. n)
    OBVIOUS
  <2>3. f.own[i] # 0 => <<f.own[i]>> \in Seq(1 .. n)
    BY <2>1
  <2> QED BY <2>2, <2>3
<1>3. s \in Seq(Seq(1 .. n))
  <2>1. DOMAIN s = 1 .. f.planes /\ s = [i \in 1 .. f.planes |-> s[i]] /\ f.planes \in Nat
    BY <1>1
  <2> HIDE DEF s
  <2> QED BY <1>2, <2>1
<1> HIDE DEF s
<1>4. 1 .. n \in SUBSET Nat
  OBVIOUS
<1>5. FlattenSeq(s) \in Seq(1 .. n)
  BY <1>3, <1>4, FlattenType
<1>6. 1 .. n \subseteq 0 .. n
  OBVIOUS
<1>7. FlattenSeq(s) \in Seq(0 .. n)
  BY <1>5, <1>6, SeqMonotonic
<1> QED BY <1>5, <1>7 DEF PlanesOf, s

\* An object is filled from a struct: it gives back what it had, or keeps it.
LEMMA FromCStructKeeps ==
  ASSUME Typed, NEW x \in DOMAIN obj \cap DOMAIN Cpp, FromCStruct(x)
  PROVE  Keeps(x)
<1> DEFINE n == Len(buf)
           k == Slots(x)
           y == Cpp[x]
           from == obj[y]
           h == obj[x]
           c == Cleared(h)
           sub == SubSeq(from.own, 1, from.planes)
           planes == PlanesOf(from)
           u == Unref(buf, h.own)
           v == Ref(u, sub)
           w == Ref(v, planes)
           d == Copied(from, c)
<1>0. x \in DOMAIN obj /\ y \in DOMAIN obj
  BY WorkShape
<1>1. /\ x \in {"packet", "frame", "c_packet", "c_frame"} /\ y \in {"packet", "frame", "c_packet", "c_frame"}
      /\ n \in Nat /\ buf \in Seq(Buffer) /\ from \in ObjectOf(y, n) /\ h \in ObjectOf(x, n)
  BY <1>0, Before
<1>2. Slots(y) = k
  BY <1>0, SameSlots
<1>3. \/ x = "packet" /\ Media(x, [d EXCEPT !.wrap = planes], Unref(w, h.wrap))
      \/ x # "packet" /\ Media(x, [d EXCEPT !.wrap = @ \o planes], w)
  BY DEF FromCStruct, CopyRefs, PlanesOf
<1> HIDE DEF n, from, h, k, y
<1>4. from \in Holder(k, n) /\ h \in Holder(k, n) /\ k \in Nat
  <2>1. from \in Holder(Slots(y), n) /\ h \in Holder(Slots(x), n) /\ Slots(x) \in Nat
    BY <1>1, ObjectShape
  <2> QED BY <1>2, <2>1 DEF k
<1>5. c \in Holder(k, n) /\ c.wrap = h.wrap /\ \A b \in Nat \ {0} : Times(b, c.own) = 0
  BY <1>1, <1>4, ClearedShape
<1> HIDE DEF c
<1>6. PICK own :
         /\ d = [own |-> own, wrap |-> c.wrap, planes |-> from.planes, image |-> from.image]
         /\ own \in [1 .. k -> 0 .. n] /\ sub \in Seq(0 .. n)
         /\ \A b : /\ Times(b, own) <= Times(b, c.own) + Times(b, sub)
                   /\ Times(b, own) \in Nat /\ Times(b, sub) \in Nat
  BY <1>1, <1>4, <1>5, CopiedShape
<1>7. planes \in Seq(1 .. n) /\ planes \in Seq(0 .. n) /\ \A b : Times(b, planes) \in Nat
  BY <1>1, <1>4, PlanesOfType, TimesType
<1>8. /\ h.own \in Seq(0 .. n) /\ h.wrap \in Seq(0 .. n)
      /\ \A b : Times(b, h.own) \in Nat /\ Times(b, h.wrap) \in Nat
  BY <1>1, <1>4, HolderShape
<1> HIDE DEF sub, planes, d
<1>9. /\ u \in Seq(Buffer) /\ Len(u) = n
      /\ \A b \in 1 .. n : /\ u[b].data = buf[b].data /\ u[b].refs = buf[b].refs - Times(b, h.own)
                           /\ buf[b].refs \in Int
  BY <1>1, <1>8, RefShape DEF n
<1> HIDE DEF u
<1>10. /\ v \in Seq(Buffer) /\ Len(v) = n
       /\ \A b \in 1 .. n : v[b].data = u[b].data /\ v[b].refs = u[b].refs + Times(b, sub)
  BY <1>6, <1>9, RefShape
<1> HIDE DEF v
<1>11. /\ w \in Seq(Buffer) /\ Len(w) = n
       /\ \A b \in 1 .. n : w[b].data = v[b].data /\ w[b].refs = v[b].refs + Times(b, planes)
  BY <1>7, <1>10, RefShape
<1> HIDE DEF w
<1>12. ASSUME NEW b \in 1 .. n
       PROVE  \E q \in Int, o, a, s, p, t \in Nat :
                 /\ q = buf[b].refs /\ o = Times(b, h.own) /\ a = Times(b, h.wrap) /\ s = Times(b, sub)
                 /\ p = Times(b, planes) /\ t = Times(b, own) /\ t <= s
                 /\ w[b].refs = ((q - o) + s) + p /\ w[b].data = buf[b].data
  <2>1. PICK q \in Int, o \in Nat, a \in Nat, s \in Nat, p \in Nat, t \in Nat :
           /\ q = buf[b].refs /\ o = Times(b, h.own) /\ a = Times(b, h.wrap) /\ s = Times(b, sub)
           /\ p = Times(b, planes) /\ t = Times(b, own)
    BY <1>6, <1>7, <1>8, <1>9
  <2>2. b \in Nat \ {0}
    BY <1>1
  <2>3. t <= s
    BY <1>5, <1>6, <2>1, <2>2
  <2>4. w[b].data = buf[b].data
    BY <1>9, <1>10, <1>11
  <2>5. u[b].refs = q - o
    BY <1>9, <2>1, Zenon
  <2>6. v[b].refs = (q - o) + s
    BY <1>10, <2>1, <2>5, Zenon
  <2>7. w[b].refs = ((q - o) + s) + p
    BY <1>11, <2>1, <2>6, Zenon
  <2> QED BY <2>1, <2>3, <2>4, <2>7
<1>13. from.planes \in 0 .. Slots(x) /\ from.image \in Image /\ own \in [1 .. Slots(x) -> 0 .. n]
  BY <1>4, <1>6 DEF Holder, k
<1>14. CASE x = "packet"
  <2> DEFINE bs == Unref(w, h.wrap)
  <2>1. /\ bs \in Seq(Buffer) /\ Len(bs) = n
        /\ \A b \in 1 .. n : bs[b].data = w[b].data /\ bs[b].refs = w[b].refs - Times(b, h.wrap)
    BY <1>8, <1>11, RefShape
  <2>2. Media(x, [d EXCEPT !.wrap = planes], bs)
    BY <1>3, <1>14
  <2>3. [d EXCEPT !.wrap = planes] = [own |-> own, wrap |-> planes, planes |-> from.planes, image |-> from.image]
    BY <1>6
  <2> HIDE DEF bs
  <2>4. ASSUME NEW b \in 1 .. n
        PROVE  /\ bs[b].data = buf[b].data
               /\ bs[b].refs + Times(b, h.own) + Times(b, h.wrap) >= buf[b].refs + Times(b, own) + Times(b, planes)
    <3>1. PICK q \in Int, o \in Nat, a \in Nat, s \in Nat, p \in Nat, t \in Nat :
             /\ q = buf[b].refs /\ o = Times(b, h.own) /\ a = Times(b, h.wrap) /\ s = Times(b, sub)
             /\ p = Times(b, planes) /\ t = Times(b, own) /\ t <= s
             /\ w[b].refs = ((q - o) + s) + p /\ w[b].data = buf[b].data
      BY <1>12
    <3>2. bs[b].refs = (((q - o) + s) + p) - a /\ bs[b].data = buf[b].data
      BY <2>1, <3>1, Zenon
    <3>3. ((((q - o) + s) + p) - a) + o + a >= q + t + p
      BY <3>1
    <3> QED BY <3>1, <3>2, <3>3, Zenon
  <2>5. Balanced(x, own, planes, from.planes, from.image, bs)
    <3>1. /\ own \in [1 .. Slots(x) -> 0 .. Len(bs)] /\ planes \in Seq(0 .. Len(bs)) /\ planes \in Seq(1 .. Len(bs))
          /\ Len(buf) <= Len(bs)
          /\ \A b \in Len(buf) + 1 .. Len(bs) : bs[b].refs >= Times(b, own) + Times(b, planes)
      BY <1>1, <1>7, <1>13, <2>1 DEF n
    <3> QED BY <1>13, <2>1, <2>4, <3>1 DEF Balanced, n, h
  <2> QED BY <2>2, <2>3, <2>5, <1>0, GrownFrom DEF Keeps
<1>15. CASE x # "packet"
  <2> DEFINE wrap == h.wrap \o planes
  <2>1. wrap \in Seq(0 .. n) /\ \A b : Times(b, wrap) = Times(b, h.wrap) + Times(b, planes)
    BY <1>7, <1>8, TimesJoined
  <2>2. Media(x, [d EXCEPT !.wrap = d.wrap \o planes], w)
    BY <1>3, <1>15
  <2>3. d.wrap \o planes = wrap
    BY <1>5, <1>6
  <2> HIDE DEF wrap
  <2>4. [d EXCEPT !.wrap = wrap] = [own |-> own, wrap |-> wrap, planes |-> from.planes, image |-> from.image]
    BY <1>6
  <2>5. ASSUME NEW b \in 1 .. n
        PROVE  /\ w[b].data = buf[b].data
               /\ w[b].refs + Times(b, h.own) + Times(b, h.wrap) >= buf[b].refs + Times(b, own) + Times(b, wrap)
    <3>1. PICK q \in Int, o \in Nat, a \in Nat, s \in Nat, p \in Nat, t \in Nat :
             /\ q = buf[b].refs /\ o = Times(b, h.own) /\ a = Times(b, h.wrap) /\ s = Times(b, sub)
             /\ p = Times(b, planes) /\ t = Times(b, own) /\ t <= s
             /\ w[b].refs = ((q - o) + s) + p /\ w[b].data = buf[b].data
      BY <1>12
    <3>2. Times(b, wrap) = a + p
      BY <2>1, <3>1, Zenon
    <3>3. (((q - o) + s) + p) + o + a >= q + t + (a + p)
      BY <3>1
    <3> QED BY <3>1, <3>2, <3>3, Zenon
  <2>6. Balanced(x, own, wrap, from.planes, from.image, w)
    <3>1. /\ own \in [1 .. Slots(x) -> 0 .. Len(w)] /\ wrap \in Seq(0 .. Len(w))
          /\ Len(buf) <= Len(w)
          /\ \A b \in Len(buf) + 1 .. Len(w) : w[b].refs >= Times(b, own) + Times(b, wrap)
      BY <1>1, <1>11, <1>13, <2>1 DEF n
    <3> QED BY <1>11, <1>13, <1>15, <2>5, <3>1 DEF Balanced, n, h
  <2>7. Media(x, [own |-> own, wrap |-> wrap, planes |-> from.planes, image |-> from.image], w)
    BY <2>2, <2>3, <2>4
  <2> QED BY <2>6, <2>7, <1>0, GrownFrom DEF Keeps
<1> QED BY <1>14, <1>15

\* Max of a set of two is the larger one.
LEMMA MaxOfTwo ==
  ASSUME NEW i \in Nat, NEW l \in Nat
  PROVE  Max({i, l}) \in Nat /\ Max({i, l}) \in {i, l} /\ i <= Max({i, l}) /\ l <= Max({i, l})
<1>1. \E x \in {i, l} : \A y \in {i, l} : x >= y
  <2>1. CASE i >= l
    BY <2>1
  <2>2. CASE l >= i
    BY <2>2
  <2> QED BY <2>1, <2>2
<1> QED BY <1>1 DEF Max

\* The adapters of an object one of which is replaced, or put behind the others.
Wrapped(wrap, i, m) ==
    [k \in 1 .. Max({i, Len(wrap)}) |->
        IF k = i THEN m ELSE IF k <= Len(wrap) THEN wrap[k] ELSE 0]

Unwrapped(wrap, i) == IF i <= Len(wrap) THEN <<wrap[i]>> ELSE <<>>

\* A new buffer's adapter takes the place of an old one, whose reference is given back.
LEMMA WrappedShape ==
  ASSUME NEW n \in Nat, NEW m \in Nat, m = n + 1, NEW wrap \in Seq(0 .. n), NEW i \in Nat \ {0}
  PROVE  /\ Wrapped(wrap, i, m) \in Seq(0 .. m) /\ Unwrapped(wrap, i) \in Seq(0 .. n)
         /\ i = 1 /\ wrap \in Seq(1 .. n) => Wrapped(wrap, i, m) \in Seq(1 .. m)
         /\ Times(m, Wrapped(wrap, i, m)) = 1
         /\ \A b \in 1 .. n : /\ Times(b, Wrapped(wrap, i, m)) \in Nat /\ Times(b, Unwrapped(wrap, i)) \in Nat
                              /\ Times(b, Wrapped(wrap, i, m)) + Times(b, Unwrapped(wrap, i)) <= Times(b, wrap)
<1> DEFINE s == Wrapped(wrap, i, m)
           u == Unwrapped(wrap, i)
<1>1. PICK l \in Nat : l = Len(wrap)
  OBVIOUS
<1>2. PICK x \in Nat : x = Max({i, l}) /\ i <= x /\ l <= x
  BY MaxOfTwo
<1>12. x = i \/ x = l
  BY <1>2, MaxOfTwo
<1>3. s = [k \in 1 .. x |-> IF k = i THEN m ELSE IF k <= l THEN wrap[k] ELSE 0]
  BY <1>1, <1>2 DEF Wrapped
<1>4. \A k \in 1 .. l : wrap[k] \in 0 .. n
  BY <1>1
<1>5. i \in 1 .. x
  BY <1>2
<1> HIDE DEF s
<1>6. ASSUME NEW k \in 1 .. x
      PROVE  /\ k = i => s[k] = m
             /\ k # i => (k \in 1 .. l /\ s[k] = wrap[k]) \/ (~(k <= l) /\ s[k] = 0)
             /\ s[k] \in 0 .. m
  <2>1. s[k] = (IF k = i THEN m ELSE IF k <= l THEN wrap[k] ELSE 0)
    BY <1>3
  <2>2. k <= l => k \in 1 .. l /\ wrap[k] \in 0 .. m
    BY <1>4
  <2> QED BY <2>1, <2>2
<1>7. s \in Seq(0 .. m) /\ Len(s) = x
  BY <1>3, <1>6
<1>8. u \in Seq(0 .. n)
  <2>1. CASE i <= l
    <3>1. PICK e \in 0 .. n : e = wrap[i]
      BY <1>4, <2>1
    <3>2. u = <<e>>
      BY <1>1, <2>1, <3>1 DEF Unwrapped
    <3> QED BY <3>2
  <2>2. CASE ~(i <= l)
    BY <1>1, <2>2 DEF Unwrapped
  <2> QED BY <2>1, <2>2
<1>9. ASSUME i = 1, wrap \in Seq(1 .. n)
      PROVE  s \in Seq(1 .. m)
  <2>1. \A k \in 1 .. l : wrap[k] \in 1 .. n
    BY <1>1, <1>9
  <2>2. ASSUME NEW k \in 1 .. x
        PROVE  s[k] \in 1 .. m
    <3>1. k # i => k \in 1 .. l
      BY <1>9, <1>12
    <3> QED BY <1>6, <2>1, <3>1
  <2> QED BY <1>7, <2>2
<1>10. Times(m, s) = 1
  <2>1. \A k \in 1 .. Len(s) : s[k] = m => k = i
    <3> SUFFICES ASSUME NEW k \in 1 .. x, k # i PROVE s[k] # m
      BY <1>7
    <3>1. k \in 1 .. l => wrap[k] # m
      BY <1>4
    <3> QED BY <1>6, <3>1
  <2>2. i \in 1 .. Len(s) /\ s[i] = m
    BY <1>5, <1>6, <1>7
  <2> QED BY <1>7, <2>1, <2>2, TimesOne
<1>11. ASSUME NEW b \in 1 .. n
       PROVE  /\ Times(b, s) \in Nat /\ Times(b, u) \in Nat /\ Times(b, s) + Times(b, u) <= Times(b, wrap)
  <2>1. Times(b, s) \in Nat /\ Times(b, u) \in Nat /\ Times(b, wrap) \in Nat
    BY <1>7, <1>8, TimesType
  <2>2. \A k \in 1 .. Len(s) : s[k] = b => k # i /\ k \in 1 .. Len(wrap) /\ wrap[k] = b
    <3> SUFFICES ASSUME NEW k \in 1 .. x, s[k] = b PROVE k # i /\ k \in 1 .. l /\ wrap[k] = b
      BY <1>1, <1>7
    <3>1. b # m /\ b # 0
      OBVIOUS
    <3> QED BY <1>6, <3>1
  <2>3. CASE i <= l /\ wrap[i] = b
    <3>1. u = <<b>>
      BY <1>1, <2>3 DEF Unwrapped
    <3>2. Times(b, u) = 1
      <4>1. 1 \in 1 .. Len(u) /\ u[1] = b /\ \A k \in 1 .. Len(u) : u[k] = b => k = 1
        BY <3>1
      <4> QED BY <1>8, <4>1, TimesOne
    <3>3. i \in 1 .. Len(wrap) /\ wrap[i] = b
      BY <1>1, <2>3
    <3>4. Times(b, s) <= Times(b, wrap) - 1
      BY <1>7, <2>2, <3>3, TimesLessOne
    <3> QED BY <2>1, <3>2, <3>4
  <2>4. CASE ~(i <= l /\ wrap[i] = b)
    <3>1. \A k \in 1 .. Len(u) : u[k] # b
      BY <1>1, <2>4 DEF Unwrapped
    <3> HIDE DEF u
    <3>2. Times(b, u) = 0
      BY <1>8, <3>1, TimesNone
    <3>3. \A k \in 1 .. Len(s) : s[k] = b => k \in 1 .. Len(wrap) /\ wrap[k] = b
      BY <2>2
    <3>4. Times(b, s) <= Times(b, wrap)
      BY <1>7, <3>3, TimesLess
    <3> QED BY <2>1, <3>2, <3>4
  <2> QED BY <2>3, <2>4
<1> QED BY <1>7, <1>8, <1>9, <1>10, <1>11 DEF s

\* A buffer of the application's own is put in the place of an old one.
LEMMA SetBufferKeeps ==
  ASSUME Typed, NEW x \in DOMAIN obj, NEW i \in 1 .. 4, NEW data \in Seq(0 .. 255), SetBuffer(x, i, data),
         x = "packet" => i = 1, x \in {"packet", "frame"}
  PROVE  Keeps(x)
<1> DEFINE n == Len(buf)
           m == n + 1
           h == obj[x]
           own == [h.own EXCEPT ![i] = m]
           wrap == Wrapped(h.wrap, i, m)
           old == Unwrapped(h.wrap, i)
           two == [NewBuffer(data) EXCEPT !.refs = 2]
           made == Append(buf, two)
           bs == Unref(made, old)
<1>1. /\ x \in {"packet", "frame", "c_packet", "c_frame"} /\ n \in Nat
      /\ buf \in Seq(Buffer) /\ h \in ObjectOf(x, n)
  BY Before
<1>2. i \in 1 .. Slots(x)
  BY DEF Slots
<1>3. Media(x, OwnAndWrap(h, own, wrap), bs)
  BY DEF SetBuffer, OwnAndWrap, Wrapped, Unwrapped
<1>4. m \in Nat /\ m = n + 1 /\ n <= m /\ \A b \in n + 1 .. m : b = m
  BY <1>1
<1>5. i \in Nat \ {0}
  OBVIOUS
<1> HIDE DEF n, m, h
<1>6. /\ h = [own |-> h.own, wrap |-> h.wrap, planes |-> h.planes, image |-> h.image]
      /\ h.own \in Seq(0 .. n) /\ Len(h.own) = Slots(x) /\ h.wrap \in Seq(0 .. n)
      /\ h.own \in [1 .. Slots(x) -> 0 .. n]
      /\ (x = "packet" => h.wrap \in Seq(1 .. n))
      /\ h.planes \in 0 .. Slots(x) /\ h.image \in Image /\ Slots(x) \in Nat
  BY <1>1, ObjectFields
<1>7. \A b : Times(b, h.own) \in Nat /\ Times(b, h.wrap) \in Nat
  BY <1>1, ObjectFields
<1>8. /\ wrap \in Seq(0 .. m) /\ old \in Seq(0 .. n)
      /\ (i = 1 /\ h.wrap \in Seq(1 .. n) => wrap \in Seq(1 .. m))
      /\ Times(m, wrap) = 1
      /\ \A b \in 1 .. n : /\ Times(b, wrap) \in Nat /\ Times(b, old) \in Nat
                           /\ Times(b, wrap) + Times(b, old) <= Times(b, h.wrap)
  BY <1>1, <1>4, <1>5, <1>6, WrappedShape
<1> HIDE DEF wrap, old
<1>9. /\ DOMAIN own = 1 .. Slots(x) /\ own = [j \in 1 .. Slots(x) |-> own[j]]
      /\ own[i] = m /\ \A j \in 1 .. Slots(x) : j # i => own[j] = h.own[j]
  BY <1>2, <1>6
<1>10. \A j \in 1 .. Slots(x) : h.own[j] \in 0 .. n
  BY <1>6
<1> HIDE DEF own
<1>11. own \in [1 .. Slots(x) -> 0 .. m]
  <2>1. \A j \in 1 .. Slots(x) : own[j] \in 0 .. m
    BY <1>1, <1>4, <1>9, <1>10
  <2> QED BY <1>9, <2>1
<1>12. own \in Seq(0 .. m) /\ Len(own) = Slots(x)
  <2>1. PICK N \in Nat : N = Slots(x)
    BY <1>6
  <2>2. own \in [1 .. N -> 0 .. m]
    BY <1>11, <2>1
  <2>3. own \in Seq(0 .. m) /\ Len(own) = N
    BY <1>4, <2>2
  <2> QED BY <2>1, <2>3
<1>13. Times(m, own) = 1
  <2>1. \A j \in 1 .. Len(own) : own[j] = m => j = i
    <3> SUFFICES ASSUME NEW j \in 1 .. Slots(x), j # i PROVE own[j] # m
      BY <1>12
    <3>1. h.own[j] \in 0 .. n /\ own[j] = h.own[j]
      BY <1>9, <1>10
    <3> QED BY <1>1, <1>4, <3>1
  <2>2. i \in 1 .. Len(own) /\ own[i] = m
    BY <1>2, <1>9, <1>12
  <2> QED BY <1>12, <2>1, <2>2, TimesOne
<1>14. ASSUME NEW b \in 1 .. n
       PROVE  Times(b, own) <= Times(b, h.own) /\ Times(b, own) \in Nat
  <2>1. \A j \in 1 .. Len(own) : own[j] = b => j \in 1 .. Len(h.own) /\ h.own[j] = b
    <3> SUFFICES ASSUME NEW j \in 1 .. Slots(x), own[j] = b PROVE h.own[j] = b
      BY <1>6, <1>12
    <3>1. b # m
      BY <1>1, <1>4
    <3> QED BY <1>9, <3>1
  <2> QED BY <1>6, <1>12, <2>1, TimesLess, TimesType
<1>15. two \in Buffer /\ two.refs = 2
  BY NewBufferShape
<1> HIDE DEF two
<1>16. /\ made \in Seq(Buffer) /\ Len(made) = m /\ made[m] = two
       /\ \A b \in 1 .. n : b \in 1 .. m /\ made[b] = buf[b]
       /\ m \in 1 .. m
  BY <1>1, <1>15 DEF n, m
<1> HIDE DEF made
<1>17. /\ bs \in Seq(Buffer) /\ Len(bs) = m
       /\ \A b \in 1 .. m : /\ bs[b].data = made[b].data /\ bs[b].refs = made[b].refs - Times(b, old)
                            /\ made[b].refs \in Int
  BY <1>8, <1>16, RefShape
<1> HIDE DEF bs
<1>18. ASSUME NEW b \in 1 .. n
       PROVE  /\ bs[b].data = buf[b].data
              /\ bs[b].refs + Times(b, h.own) + Times(b, h.wrap) >= buf[b].refs + Times(b, own) + Times(b, wrap)
  <2>1. bs[b].data = buf[b].data /\ bs[b].refs = buf[b].refs - Times(b, old) /\ buf[b].refs \in Int
    BY <1>16, <1>17
  <2>2. PICK q \in Int, o \in Nat, a \in Nat, t \in Nat, v \in Nat, d \in Nat :
           /\ q = buf[b].refs /\ o = Times(b, h.own) /\ a = Times(b, h.wrap)
           /\ t = Times(b, own) /\ v = Times(b, wrap) /\ d = Times(b, old)
    BY <1>7, <1>8, <1>14, <2>1
  <2>3. t <= o /\ v + d <= a
    BY <1>8, <1>14, <2>2
  <2>4. (q - d) + o + a >= q + t + v
    BY <2>3
  <2>5. bs[b].refs = q - d
    BY <2>1, <2>2, Zenon
  <2> QED BY <2>1, <2>2, <2>4, <2>5, Zenon
<1>19. bs[m].refs >= Times(m, own) + Times(m, wrap)
  <2>1. m > n
    BY <1>1, <1>4
  <2>2. Times(m, old) = 0
    BY <1>1, <1>4, <1>8, <2>1, NoneNew
  <2>3. bs[m].refs = 2
    BY <1>15, <1>16, <1>17, <2>2
  <2> QED BY <1>8, <1>13, <2>3
<1>20. Balanced(x, own, wrap, h.planes, h.image, bs)
  <2>1. /\ own \in [1 .. Slots(x) -> 0 .. Len(bs)] /\ wrap \in Seq(0 .. Len(bs))
        /\ (x = "packet" => wrap \in Seq(1 .. Len(bs)))
        /\ bs \in Seq(Buffer) /\ Len(buf) <= Len(bs)
    BY <1>4, <1>6, <1>8, <1>11, <1>17 DEF n
  <2>2. \A b \in Len(buf) + 1 .. Len(bs) : bs[b].refs >= Times(b, own) + Times(b, wrap)
    BY <1>4, <1>17, <1>19 DEF n
  <2> QED BY <1>6, <1>18, <2>1, <2>2 DEF Balanced, n, h
<1>21. OwnAndWrap(h, own, wrap) = [own |-> own, wrap |-> wrap, planes |-> h.planes, image |-> h.image]
  <2>1. Parts(h)
    BY <1>6 DEF Parts
  <2> QED BY <2>1, Fields
<1> QED BY <1>3, <1>20, <1>21, GrownFrom DEF Keeps

\* Any step on an object.
LEMMA MediaStepKeeps ==
  ASSUME Typed, MediaStep
  PROVE  \E x \in DOMAIN obj : Keeps(x)
<1>1. CASE \E x \in DOMAIN obj : \E data \in Payloads : AllocPacket(x, data)
  <2>1. PICK x \in DOMAIN obj, data \in Payloads : AllocPacket(x, data)
    BY <1>1
  <2>2. data \in Seq(0 .. 255)
    BY PayloadAssumption
  <2> QED BY <2>1, <2>2, AllocPacketKeeps
<1>2. CASE \E x \in DOMAIN obj : AllocPacketFails(x) \/ Clear(x)
  BY <1>2, GivenBackKeeps
<1>3. CASE \E x \in DOMAIN obj : \E im \in Images : AllocFrame(x, im)
  BY <1>3, AllocFrameKeeps
<1>4. CASE \E x \in DOMAIN obj : \E im \in Images : \E k \in 1 .. 4 : AllocFrameFails(x, im, k)
  BY <1>4, AllocFrameFailsKeeps
<1>5. CASE \E x \in DOMAIN obj : \E y \in DOMAIN obj : Copy(x, y)
  BY <1>5, CopyKeeps
<1>6. CASE \E x \in DOMAIN obj : Remake(x)
  BY <1>6, RemakeKeeps
<1>7. CASE \E x \in DOMAIN obj \cap DOMAIN Cpp : FromCStruct(x)
  BY <1>7, FromCStructKeeps
<1>8. CASE \E data \in Payloads : SetBuffer("packet", 1, data)
  <2>1. PICK data \in Payloads : SetBuffer("packet", 1, data)
    BY <1>8
  <2>2. data \in Seq(0 .. 255) /\ "packet" \in DOMAIN obj /\ 1 \in 1 .. 4
    BY <2>1, PayloadAssumption DEF SetBuffer
  <2> QED BY <2>1, <2>2, SetBufferKeeps
<1>9. CASE \E i \in 1 .. 4 : SetBuffer("frame", i, <<>>)
  <2>1. PICK i \in 1 .. 4 : SetBuffer("frame", i, <<>>)
    BY <1>9
  <2>2. <<>> \in Seq(0 .. 255) /\ "frame" \in DOMAIN obj
    BY <2>1 DEF SetBuffer
  <2> QED BY <2>1, <2>2, SetBufferKeeps
<1>10. \/ \E x \in DOMAIN obj : \E data \in Payloads : AllocPacket(x, data)
       \/ \E x \in DOMAIN obj : AllocPacketFails(x) \/ Clear(x)
       \/ \E x \in DOMAIN obj : \E im \in Images : AllocFrame(x, im)
       \/ \E x \in DOMAIN obj : \E im \in Images : \E k \in 1 .. 4 : AllocFrameFails(x, im, k)
       \/ \E x \in DOMAIN obj : \E y \in DOMAIN obj : Copy(x, y)
       \/ \E x \in DOMAIN obj : Remake(x)
       \/ \E x \in DOMAIN obj \cap DOMAIN Cpp : FromCStruct(x)
       \/ \E data \in Payloads : SetBuffer("packet", 1, data)
       \/ \E i \in 1 .. 4 : SetBuffer("frame", i, <<>>)
  BY Zenon DEF MediaStep
<1> QED BY <1>1, <1>2, <1>3, <1>4, <1>5, <1>6, <1>7, <1>8, <1>9, <1>10

-----------------------------------------------------------------------------
(* The packets under way                                                   *)

\* The numbers of the packets read, being read and queued.
Seen ==
    {got[i].id : i \in DOMAIN got} \cup {queue[i].id : i \in DOMAIN queue}
        \cup (IF reader.pc = "parsing" THEN {reader.id} ELSE {})

\* They come in the order they were pushed in, and with those dropped are all.
Numbered ==
    /\ \A i, j \in DOMAIN got : i < j => got[i].id < got[j].id
    /\ \A i, j \in DOMAIN queue : i < j => queue[i].id < queue[j].id
    /\ \A i \in DOMAIN got, j \in DOMAIN queue : got[i].id < queue[j].id
    /\ reader.pc = "parsing" =>
          (\A i \in DOMAIN got : got[i].id < reader.id) /\ (\A j \in DOMAIN queue : reader.id < queue[j].id)
    /\ Seen \cup dropped = DOMAIN pushed
    /\ Seen \cap dropped = {}

\* Every packet read was taken apart into its units.
Parsed == \A i \in DOMAIN got : AreUnits(got[i].units, pushed[got[i].id])

MediaInv == Typed /\ References /\ Held /\ Numbered /\ Parsed

\* A step on objects changes nothing of the packets under way.
LEMMA ObjectsKeep ==
  ASSUME MediaInv, MediaStep
  PROVE  MediaInv'
<1>0. PICK x \in DOMAIN obj : \E h, bs : Media(x, h, bs) /\ Grown(x, h, bs)
  BY MediaStepKeeps DEF MediaInv, Keeps
<1>1. PICK h, bs : Media(x, h, bs) /\ Grown(x, h, bs)
  BY <1>0
<1>2. Typed' /\ References' /\ Held'
  BY <1>1, MediaKeeps DEF MediaInv
<1>3. UNCHANGED <<queue, reader, pushed, got, dropped>>
  BY <1>1 DEF Media
<1>4. Numbered'
  BY <1>3 DEF MediaInv, Numbered, Seen
<1>5. Parsed'
  BY <1>3 DEF MediaInv, Parsed
<1> QED BY <1>2, <1>4, <1>5 DEF MediaInv

\* A packet that has no buffer.
LEMMA FreshPacket ==
  ASSUME NEW n \in Nat
  PROVE  /\ Fresh("packet", NoImage) \in Packet(n) /\ Fresh("packet", NoImage) \in Holder(1, n)
         /\ \A b \in Nat \ {0} : Times(b, Refs(Fresh("packet", NoImage))) = 0
<1> DEFINE h == Fresh("packet", NoImage)
           z == [i \in 1 .. 1 |-> 0]
           e == <<>>
<1>1. h = [own |-> z, wrap |-> e, planes |-> 1, image |-> NoImage]
  BY DEF Fresh, Blank, Slots
<1>2. z \in [1 .. 1 -> 0 .. n] /\ e \in Seq(1 .. n) /\ e \in Seq(0 .. n) /\ NoImage \in Image
  BY DEF Image
<1>3. h \in Packet(n) /\ h \in Holder(1, n)
  <2> HIDE DEF z, e, h
  <2> QED BY <1>1, <1>2 DEF Packet, Holder
<1>4. \A b \in Nat \ {0} : Times(b, z) = 0
  BY NoneOwned
<1>5. \A b : Times(b, e) = 0
  <2>1. \A b : \A i \in 1 .. Len(e) : e[i] # b
    OBVIOUS
  <2> HIDE DEF e
  <2> QED BY <1>2, <2>1, TimesNone
<1> HIDE DEF h, z, e
<1>6. \A b : Times(b, Refs(h)) = Times(b, h.own) + Times(b, h.wrap)
  BY <1>3, HolderShape
<1>7. h.own = z /\ h.wrap = e
  BY <1>1
<1>8. \A b \in Nat \ {0} : Times(b, Refs(h)) = 0
  BY <1>4, <1>5, <1>6, <1>7
<1> QED BY <1>3, <1>8 DEF h

\* Steps that leave the packets where they are.
Pcs == {"idle", "woken", "tested", "waiting", "parsing"}

\* They keep the invariant, if the reader stays with the packet it has.
LEMMA QuietKeeps ==
  ASSUME MediaInv, UNCHANGED <<buf, obj, queue, pushed, got, dropped>>,
         NEW pc \in Pcs, reader' = [reader EXCEPT !.pc = pc], (pc = "parsing") <=> (reader.pc = "parsing")
  PROVE  MediaInv'
<1>1. reader \in [pc : Pcs, id : Nat, packet : Packet(Len(buf))]
  BY DEF MediaInv, Typed, Pcs
<1>2. /\ reader' \in [pc : Pcs, id : Nat, packet : Packet(Len(buf))]
      /\ reader'.id = reader.id /\ reader'.packet = reader.packet /\ reader'.pc = pc
  BY <1>1
<1>3. Typed'
  <2>1. (reader \in [pc : Pcs, id : Nat, packet : Packet(Len(buf))])'
    BY <1>2 DEF Packet, Image, Pcs
  <2>2. (\A x \in DOMAIN obj : obj[x] \in ObjectOf(x, Len(buf)))'
    BY DEF MediaInv, Typed, ObjectOf, Packet, Holder, Image, Slots
  <2>3. (queue \in Seq(Item(Len(buf))))'
    BY DEF MediaInv, Typed, Item, Packet, Image
  <2> QED BY <2>1, <2>2, <2>3 DEF MediaInv, Typed, Pcs, Buffer, Cpp
<1>4. References'
  <2> SUFFICES ASSUME NEW x \in DOMAIN obj \cap DOMAIN Cpp, NEW b \in DOMAIN buf
               PROVE  buf[b].refs >= Times(b, Refs(obj[x])) + Times(b, Refs(obj[Cpp[x]]))
                         + Times(b, Refs(reader.packet)) + Times(b, Queued(queue))
    BY <1>2 DEF References
  <2> QED BY DEF MediaInv, References
<1>5. Held'
  BY <1>2 DEF MediaInv, Held, Data
<1>6. Numbered'
  <2>1. Seen' = Seen
    BY <1>2 DEF Seen
  <2>2. reader'.pc = "parsing" => reader.pc = "parsing" /\ reader'.id = reader.id
    BY <1>2
  <2> QED BY <2>1, <2>2 DEF MediaInv, Numbered
<1>7. Parsed'
  BY DEF MediaInv, Parsed
<1> QED BY <1>3, <1>4, <1>5, <1>6, <1>7 DEF MediaInv

\* What is seen was pushed.
LEMMA SeenPushed ==
  ASSUME MediaInv
  PROVE  /\ \A i \in DOMAIN got : got[i].id \in DOMAIN pushed
         /\ \A i \in DOMAIN queue : queue[i].id \in DOMAIN pushed
         /\ reader.pc = "parsing" => reader.id \in DOMAIN pushed
         /\ DOMAIN pushed = 1 .. Len(pushed) /\ Len(pushed) \in Nat
<1>1. Seen \subseteq DOMAIN pushed
  BY DEF MediaInv, Numbered
<1>2. DOMAIN pushed = 1 .. Len(pushed) /\ Len(pushed) \in Nat
  BY DEF MediaInv, Typed
<1> QED BY <1>1, <1>2 DEF Seen

\* A notification wakes a reader that waits.
LEMMA NotifiedShape ==
  ASSUME NEW n, reader \in [pc : Pcs, id : Nat, packet : Packet(n)]
  PROVE  /\ Notified \in [pc : Pcs, id : Nat, packet : Packet(n)]
         /\ Notified.id = reader.id /\ Notified.packet = reader.packet
         /\ (Notified.pc = "parsing") <=> (reader.pc = "parsing")
BY DEF Notified, Woken, Pcs

\* What the packets and the reader's packet refer to.
LEMMA Counts ==
  ASSUME Typed, NEW b
  PROVE  /\ \A x \in DOMAIN obj : Times(b, Refs(obj[x])) \in Nat
         /\ Times(b, Refs(reader.packet)) \in Nat /\ Times(b, Queued(queue)) \in Nat
         /\ b \in DOMAIN buf => buf[b] \in Buffer /\ buf[b].refs \in Int /\ b \in Nat \ {0}
         /\ Len(buf) \in Nat /\ DOMAIN buf = 1 .. Len(buf)
<1>1. Len(buf) \in Nat /\ DOMAIN buf = 1 .. Len(buf)
  BY DEF Typed
<1>2. b \in DOMAIN buf => buf[b] \in Buffer /\ buf[b].refs \in Int /\ b \in Nat \ {0}
  <2>1. b \in DOMAIN buf => buf[b] \in Buffer
    BY DEF Typed
  <2> QED BY <1>1, <2>1 DEF Buffer
<1>3. ASSUME NEW x \in DOMAIN obj
      PROVE  Times(b, Refs(obj[x])) \in Nat
  <2> DEFINE k == Slots(x)
  <2>1. obj[x] \in Holder(k, Len(buf)) /\ k \in Nat
    BY <1>1, Before, ObjectShape
  <2> HIDE DEF k
  <2>2. Refs(obj[x]) \in Seq(0 .. Len(buf))
    BY <1>1, <2>1, HolderShape
  <2> QED BY <2>2, TimesType
<1>4. Times(b, Refs(reader.packet)) \in Nat
  <2>1. reader.packet \in Holder(1, Len(buf))
    BY <1>1, PacketIsHolder DEF Typed
  <2>2. Refs(reader.packet) \in Seq(0 .. Len(buf))
    BY <1>1, <2>1, HolderShape
  <2> QED BY <2>2, TimesType
<1>5. Times(b, Queued(queue)) \in Nat
  BY <1>1, QueuedType DEF Typed
<1> QED BY <1>1, <1>2, <1>3, <1>4, <1>5

\* The contents of a packet.
LEMMA DataType ==
  ASSUME Typed, NEW p \in Packet(Len(buf))
  PROVE  Data(buf, p) \in Seq(0 .. 255)
<1>1. CASE p.wrap = <<>>
  <2>1. <<>> \in Seq(0 .. 255)
    OBVIOUS
  <2> QED BY <1>1, <2>1 DEF Data
<1>2. CASE p.wrap # <<>>
  <2>1. p.wrap \in Seq(1 .. Len(buf))
    BY DEF Packet
  <2>2. p.wrap[1] \in 1 .. Len(buf)
    BY <1>2, <2>1
  <2>3. buf[p.wrap[1]] \in Buffer
    BY <2>2 DEF Typed
  <2> QED BY <1>2, <2>3 DEF Data, Buffer
<1> QED BY <1>1, <1>2

\* A packet is pushed.
LEMMA PushKeeps ==
  ASSUME MediaInv, PushPacket
  PROVE  MediaInv'
<1> DEFINE n == Len(buf)
           h == obj["packet"]
           N == Len(pushed) + 1
           c == Data(buf, h)
           e == [id |-> N, packet |-> h]
           fresh == Fresh("packet", NoImage)
<1>1. Typed /\ "packet" \in DOMAIN obj
  BY DEF MediaInv, PushPacket
<1>2. /\ pushed' = Append(pushed, c) /\ reader' = Notified
      /\ obj' = [obj EXCEPT !["packet"] = fresh] /\ UNCHANGED <<buf, got, dropped>>
  BY DEF PushPacket, Data
<1>3. Len(pushed') = N /\ Len(pushed) \in Nat /\ n \in Nat
  BY <1>1, <1>2 DEF Typed
<1>4. queue' = Append(queue, e)
  BY <1>3 DEF PushPacket
<1>5. h \in Packet(n)
  BY <1>1 DEF Typed, ObjectOf
<1>6. e \in Item(n) /\ N \in Nat
  BY <1>3, <1>5 DEF Item
<1>7. c \in Seq(0 .. 255)
  BY <1>1, <1>5, DataType
<1>8. fresh \in Packet(n) /\ \A b \in Nat \ {0} : Times(b, Refs(fresh)) = 0
  BY <1>3, FreshPacket
<1>9. queue \in Seq(Item(n)) /\ pushed \in Seq(Seq(0 .. 255)) /\ got \in Seq([id : Nat, units : Seq(Seq(0 .. 255))])
  BY <1>1 DEF Typed
<1>10. reader \in [pc : Pcs, id : Nat, packet : Packet(n)]
  BY <1>1 DEF Typed, Pcs
<1> HIDE DEF n, h, c, e, fresh, N
<1>11. /\ reader' \in [pc : Pcs, id : Nat, packet : Packet(n)]
       /\ reader'.id = reader.id /\ reader'.packet = reader.packet
       /\ (reader'.pc = "parsing") <=> (reader.pc = "parsing")
  BY <1>2, <1>10, NotifiedShape
<1>12. /\ DOMAIN obj' = DOMAIN obj /\ obj'["packet"] = fresh
       /\ \A x \in DOMAIN obj : x # "packet" => obj'[x] = obj[x]
       /\ obj' = [x \in DOMAIN obj |-> obj'[x]]
  BY <1>1, <1>2 DEF Typed
<1>13. /\ queue' \in Seq(Item(n)) /\ Len(queue') = Len(queue) + 1 /\ Len(queue) \in Nat
       /\ DOMAIN queue = 1 .. Len(queue) /\ DOMAIN queue' = 1 .. Len(queue) + 1
       /\ \A i \in DOMAIN queue : i \in DOMAIN queue' /\ queue'[i] = queue[i]
       /\ queue'[Len(queue) + 1] = e
       /\ \A i \in DOMAIN queue' : i \in DOMAIN queue \/ i = Len(queue) + 1
  BY <1>4, <1>6, <1>9
<1>14. /\ pushed' \in Seq(Seq(0 .. 255)) /\ DOMAIN pushed = 1 .. Len(pushed)
       /\ DOMAIN pushed' = DOMAIN pushed \cup {N} /\ pushed'[N] = c
       /\ \A i \in DOMAIN pushed : i < N /\ pushed'[i] = pushed[i]
  BY <1>2, <1>3, <1>7, <1>9 DEF N
<1>15. e.id = N /\ e.packet = h
  BY DEF e
<1>16. Typed'
  <2>1. (\A x \in DOMAIN obj : obj[x] \in ObjectOf(x, Len(buf)))'
    <3>1. \A x \in DOMAIN obj : obj'[x] \in ObjectOf(x, n)
      <4>1. \A x \in DOMAIN obj : obj[x] \in ObjectOf(x, n)
        BY <1>1 DEF Typed, n
      <4>2. fresh \in ObjectOf("packet", n)
        BY <1>8 DEF ObjectOf
      <4> QED BY <1>12, <4>1, <4>2
    <3>2. \A x \in DOMAIN obj' : obj'[x] \in ObjectOf(x, Len(buf'))
      BY <1>2, <1>12, <3>1 DEF n
    <3> QED BY <3>2 DEF ObjectOf, Packet, Holder, Image, Slots
  <2>2. (\E w \in DOMAIN Cpp : DOMAIN obj = {w, Cpp[w]})'
    BY <1>1, <1>12 DEF Typed, Cpp
  <2>3. (queue \in Seq(Item(Len(buf))))'
    BY <1>2, <1>13 DEF n, Item, Packet, Image
  <2>4. (reader \in [pc : {"idle", "woken", "tested", "waiting", "parsing"}, id : Nat, packet : Packet(Len(buf))])'
    BY <1>2, <1>11 DEF n, Packet, Image, Pcs
  <2>5. (buf \in Seq(Buffer) /\ obj = [x \in DOMAIN obj |-> obj[x]])'
    BY <1>1, <1>2, <1>12 DEF Typed, Buffer
  <2>6. (dropped \subseteq Nat)' /\ got' \in Seq([id : Nat, units : Seq(Seq(0 .. 255))])
    BY <1>1, <1>2 DEF Typed
  <2> QED BY <1>14, <2>1, <2>2, <2>3, <2>4, <2>5, <2>6 DEF Typed
<1>17. References'
  <2> SUFFICES ASSUME NEW x \in DOMAIN obj, x \in DOMAIN Cpp, NEW b \in DOMAIN buf
               PROVE  buf[b].refs >= Times(b, Refs(obj'[x])) + Times(b, Refs(obj'[Cpp[x]]))
                         + Times(b, Refs(reader.packet)) + Times(b, Queued(queue'))
    <3>1. References' = \A x \in DOMAIN obj' \cap DOMAIN Cpp, b \in DOMAIN buf' :
              buf'[b].refs >= Times(b, Refs(obj'[x])) + Times(b, Refs(obj'[Cpp[x]]))
                               + Times(b, Refs(reader'.packet)) + Times(b, Queued(queue'))
      BY DEF References
    <3> QED BY <1>2, <1>11, <1>12, <3>1, Zenon
  <2>1. x = "packet" /\ Cpp[x] = "c_packet" /\ Cpp[x] \in DOMAIN obj
    BY <1>1, WorkShape
  <2>2. buf[b].refs >= Times(b, Refs(h)) + Times(b, Refs(obj["c_packet"]))
                         + Times(b, Refs(reader.packet)) + Times(b, Queued(queue))
    BY <2>1 DEF MediaInv, References, h
  <2>3. PICK q \in Int, o \in Nat, s \in Nat, r \in Nat, w \in Nat :
           /\ q = buf[b].refs /\ o = Times(b, Refs(h)) /\ s = Times(b, Refs(obj["c_packet"]))
           /\ r = Times(b, Refs(reader.packet)) /\ w = Times(b, Queued(queue))
    BY <1>1, <2>1, Counts DEF h
  <2>4. Times(b, Refs(fresh)) = 0
    BY <1>1, <1>8, Counts
  <2>5. Times(b, Queued(queue')) = w + o
    BY <1>3, <1>4, <1>6, <1>9, <1>15, <2>3, QueuedAppend
  <2>6. q >= o + s + r + w
    BY <2>2, <2>3, Zenon
  <2>7. q >= 0 + s + r + (w + o)
    BY <2>6
  <2>8. obj'[x] = fresh /\ obj'[Cpp[x]] = obj["c_packet"]
    BY <1>12, <2>1
  <2> QED BY <2>3, <2>4, <2>5, <2>7, <2>8, Zenon
<1>18. Held'
  <2>1. \A i \in DOMAIN queue' : pushed'[queue'[i].id] = Data(buf, queue'[i].packet)
    <3> SUFFICES ASSUME NEW i \in DOMAIN queue' PROVE pushed'[queue'[i].id] = Data(buf, queue'[i].packet)
      OBVIOUS
    <3>1. CASE i \in DOMAIN queue
      BY <1>13, <1>14, <3>1, SeenPushed DEF MediaInv, Held
    <3>2. CASE i = Len(queue) + 1
      BY <1>13, <1>14, <1>15, <3>2 DEF c
    <3> QED BY <1>13, <3>1, <3>2
  <2>2. reader'.pc = "parsing" => pushed'[reader'.id] = Data(buf, reader'.packet)
    BY <1>11, <1>14, SeenPushed DEF MediaInv, Held
  <2> QED BY <1>2, <2>1, <2>2 DEF Held, Data
<1>19. Numbered'
  <2>1. Seen' = Seen \cup {N}
    <3>1. {queue'[i].id : i \in DOMAIN queue'} = {queue[i].id : i \in DOMAIN queue} \cup {N}
      BY <1>13, <1>15
    <3> QED BY <1>2, <1>11, <3>1 DEF Seen
  <2>2. N \notin dropped
    <3>1. dropped \subseteq DOMAIN pushed
      BY DEF MediaInv, Numbered
    <3> QED BY <1>14, <3>1
  <2>3. Seen' \cup dropped' = DOMAIN pushed' /\ Seen' \cap dropped' = {}
    BY <1>2, <1>14, <2>1, <2>2 DEF MediaInv, Numbered
  <2>4. \A i \in DOMAIN queue : queue[i].id < N
    BY <1>14, SeenPushed
  <2>5. \A i, j \in DOMAIN queue' : i < j => queue'[i].id < queue'[j].id
    <3> SUFFICES ASSUME NEW i \in DOMAIN queue', NEW j \in DOMAIN queue', i < j PROVE queue'[i].id < queue'[j].id
      OBVIOUS
    <3>1. i \in DOMAIN queue
      BY <1>13
    <3>2. CASE j \in DOMAIN queue
      BY <1>13, <3>1, <3>2 DEF MediaInv, Numbered
    <3>3. CASE j = Len(queue) + 1
      BY <1>13, <1>15, <2>4, <3>1, <3>3
    <3> QED BY <1>13, <3>2, <3>3
  <2>6. \A i \in DOMAIN got, j \in DOMAIN queue' : got[i].id < queue'[j].id
    <3>1. \A i \in DOMAIN got : got[i].id < N
      BY <1>14, SeenPushed
    <3> QED BY <1>13, <1>15, <3>1 DEF MediaInv, Numbered
  <2>7. reader'.pc = "parsing" =>
          (\A i \in DOMAIN got : got[i].id < reader'.id) /\ (\A j \in DOMAIN queue' : reader'.id < queue'[j].id)
    <3>1. reader.pc = "parsing" => reader.id < N
      BY <1>14, SeenPushed
    <3> QED BY <1>11, <1>13, <1>15, <3>1 DEF MediaInv, Numbered
  <2>8. \A i, j \in DOMAIN got' : i < j => got'[i].id < got'[j].id
    BY <1>2 DEF MediaInv, Numbered
  <2> QED BY <1>2, <2>3, <2>5, <2>6, <2>7, <2>8 DEF Numbered
<1>20. Parsed'
  <2>1. \A i \in DOMAIN got : pushed'[got[i].id] = pushed[got[i].id]
    BY <1>14, SeenPushed
  <2> QED BY <1>2, <2>1 DEF MediaInv, Parsed
<1> QED BY <1>16, <1>17, <1>18, <1>19, <1>20 DEF MediaInv

\* Packets that are given back, or only moved: the counts follow.
LEMMA StillTyped ==
  ASSUME Typed, buf' \in Seq(Buffer), Len(buf') = Len(buf), UNCHANGED obj,
         queue' \in Seq(Item(Len(buf))), reader' \in [pc : Pcs, id : Nat, packet : Packet(Len(buf))],
         UNCHANGED pushed, got' \in Seq([id : Nat, units : Seq(Seq(0 .. 255))]), dropped' \subseteq Nat
  PROVE  Typed'
<1>1. (\A x \in DOMAIN obj : obj[x] \in ObjectOf(x, Len(buf)))'
  <2>1. \A x \in DOMAIN obj' : obj'[x] \in ObjectOf(x, Len(buf'))
    BY DEF Typed
  <2> QED BY <2>1 DEF ObjectOf, Packet, Holder, Image, Slots
<1>2. (queue \in Seq(Item(Len(buf))))'
  BY DEF Item, Packet, Image
<1>3. (reader \in [pc : {"idle", "woken", "tested", "waiting", "parsing"}, id : Nat, packet : Packet(Len(buf))])'
  BY DEF Packet, Image, Pcs
<1>4. (buf \in Seq(Buffer))' /\ (\E w \in DOMAIN Cpp : DOMAIN obj = {w, Cpp[w]})'
      /\ (obj = [x \in DOMAIN obj |-> obj[x]])'
  BY DEF Typed, Buffer, Cpp
<1>5. pushed' \in Seq(Seq(0 .. 255))
  BY DEF Typed
<1> QED BY <1>1, <1>2, <1>3, <1>4, <1>5 DEF Typed

\* The contents of a packet are the same in buffers whose contents are.
LEMMA DataKept ==
  ASSUME NEW n \in Nat, NEW p \in Packet(n), NEW bs, NEW cs, \A b \in 1 .. n : bs[b].data = cs[b].data
  PROVE  Data(bs, p) = Data(cs, p)
<1> SUFFICES ASSUME p.wrap # <<>> PROVE bs[p.wrap[1]].data = cs[p.wrap[1]].data
  BY DEF Data
<1>1. p.wrap \in Seq(1 .. n)
  BY DEF Packet
<1>2. p.wrap[1] \in 1 .. n
  BY <1>1
<1> QED BY <1>2

\* The queue is cleared: its packets give back what they have.
LEMMA ClearsKeeps ==
  ASSUME MediaInv, ClearsQueue
  PROVE  MediaInv'
<1> DEFINE n == Len(buf)
           all == Queued(queue)
           e == <<>>
<1>1. /\ buf' = Unref(buf, all) /\ queue' = e /\ reader' = Notified
      /\ dropped' = dropped \cup {queue[i].id : i \in DOMAIN queue}
      /\ UNCHANGED <<obj, pushed, got>>
  BY DEF ClearsQueue
<1>2. /\ Typed /\ n \in Nat /\ buf \in Seq(Buffer) /\ queue \in Seq(Item(n))
      /\ got \in Seq([id : Nat, units : Seq(Seq(0 .. 255))]) /\ dropped \subseteq Nat
      /\ reader \in [pc : Pcs, id : Nat, packet : Packet(n)]
  BY DEF MediaInv, Typed, Pcs
<1> HIDE DEF n
<1>3. all \in Seq(0 .. n)
  BY <1>2, QueuedType
<1>4. /\ reader' \in [pc : Pcs, id : Nat, packet : Packet(n)]
      /\ reader'.id = reader.id /\ reader'.packet = reader.packet
      /\ (reader'.pc = "parsing") <=> (reader.pc = "parsing")
  BY <1>1, <1>2, NotifiedShape
<1> HIDE DEF all
<1>5. /\ buf' \in Seq(Buffer) /\ Len(buf') = n
      /\ \A b \in 1 .. n : buf'[b].data = buf[b].data /\ buf'[b].refs = buf[b].refs - Times(b, all)
  BY <1>1, <1>2, <1>3, RefShape DEF n
<1>6. e \in Seq(Item(n)) /\ DOMAIN e = {}
  OBVIOUS
<1>7. \A b : Times(b, Queued(e)) = 0
  <2>1. Queued(e) = <<>>
    <3>1. [i \in DOMAIN e |-> Refs(e[i].packet)] = <<>>
      BY <1>6
    <3> QED BY <3>1 DEF Queued, FlattenSeq
  <2>2. \A b : \A i \in 1 .. Len(Queued(e)) : Queued(e)[i] # b
    BY <2>1
  <2>3. Queued(e) \in Seq(0 .. n)
    <3>1. <<>> \in Seq(0 .. n)
      OBVIOUS
    <3> QED BY <2>1, <3>1, Zenon
  <2> HIDE DEF e
  <2> QED BY <2>2, <2>3, TimesNone
<1> HIDE DEF e
<1>8. Typed'
  <2>1. queue' \in Seq(Item(Len(buf))) /\ reader' \in [pc : Pcs, id : Nat, packet : Packet(Len(buf))]
        /\ buf' \in Seq(Buffer) /\ Len(buf') = Len(buf)
    BY <1>1, <1>4, <1>5, <1>6 DEF n
  <2>2. dropped' \subseteq Nat
    <3>1. \A i \in DOMAIN queue : queue[i].id \in Nat
      BY SeenPushed
    <3> QED BY <1>1, <1>2, <3>1
  <2> QED BY <1>1, <1>2, <2>1, <2>2, StillTyped
<1>9. References'
  <2> SUFFICES ASSUME NEW x \in DOMAIN obj \cap DOMAIN Cpp, NEW b \in DOMAIN buf
               PROVE  buf'[b].refs >= Times(b, Refs(obj[x])) + Times(b, Refs(obj[Cpp[x]]))
                         + Times(b, Refs(reader.packet)) + Times(b, Queued(e))
    <3>1. References' = \A x \in DOMAIN obj' \cap DOMAIN Cpp, b \in DOMAIN buf' :
              buf'[b].refs >= Times(b, Refs(obj'[x])) + Times(b, Refs(obj'[Cpp[x]]))
                               + Times(b, Refs(reader'.packet)) + Times(b, Queued(queue'))
      BY DEF References
    <3>2. DOMAIN buf' = DOMAIN buf
      BY <1>2, <1>5 DEF n
    <3> QED BY <1>1, <1>4, <3>1, <3>2, Zenon
  <2>1. buf[b].refs >= Times(b, Refs(obj[x])) + Times(b, Refs(obj[Cpp[x]]))
                         + Times(b, Refs(reader.packet)) + Times(b, all)
    BY DEF MediaInv, References, all
  <2>2. x \in DOMAIN obj /\ Cpp[x] \in DOMAIN obj /\ b \in 1 .. n
    <3>1. x \in DOMAIN obj /\ x \in DOMAIN Cpp
      OBVIOUS
    <3>2. DOMAIN obj = {x, Cpp[x]}
      BY <1>2, <3>1, WorkShape
    <3>3. b \in 1 .. n
      BY <1>2 DEF n
    <3> QED BY <3>1, <3>2, <3>3
  <2>3. PICK q \in Int, o \in Nat, s \in Nat, r \in Nat, w \in Nat :
           /\ q = buf[b].refs /\ o = Times(b, Refs(obj[x])) /\ s = Times(b, Refs(obj[Cpp[x]]))
           /\ r = Times(b, Refs(reader.packet)) /\ w = Times(b, all)
    BY <1>2, <2>2, Counts DEF all
  <2>4. q >= o + s + r + w
    BY <2>1, <2>3, Zenon
  <2>5. q - w >= o + s + r + 0
    BY <2>4
  <2>6. buf'[b].refs = q - w
    BY <1>5, <2>2, <2>3, Zenon
  <2> QED BY <1>7, <2>3, <2>5, <2>6, Zenon
<1>10. Held'
  <2>1. \A p \in Packet(n) : Data(buf', p) = Data(buf, p)
    BY <1>2, <1>5, DataKept
  <2>2. reader.packet \in Packet(n)
    BY <1>2
  <2>3. Data(buf', reader.packet) = Data(buf, reader.packet)
    BY <2>1, <2>2
  <2>4. reader'.pc = "parsing" => pushed'[reader'.id] = Data(buf', reader'.packet)
    BY <1>1, <1>4, <2>3 DEF MediaInv, Held
  <2>5. \A i \in DOMAIN queue' : FALSE
    BY <1>1, <1>6
  <2> QED BY <2>4, <2>5 DEF Held, Data
<1>11. Numbered'
  <2> DEFINE Q == {queue[i].id : i \in DOMAIN queue}
             G == {got[i].id : i \in DOMAIN got}
             P == IF reader.pc = "parsing" THEN {reader.id} ELSE {}
  <2>1. Seen = G \cup Q \cup P
    BY DEF Seen
  <2>2. Seen' = G \cup P
    <3>1. {queue'[i].id : i \in DOMAIN queue'} = {}
      BY <1>1, <1>6
    <3> QED BY <1>1, <1>4, <3>1 DEF Seen
  <2>3. (G \cup P) \cap Q = {}
    <3>1. \A i \in DOMAIN queue : queue[i].id \in Nat
      BY SeenPushed
    <3>2. \A i \in DOMAIN got : \A j \in DOMAIN queue : got[i].id # queue[j].id
      <4>1. \A i \in DOMAIN got : \A j \in DOMAIN queue : got[i].id < queue[j].id
        BY DEF MediaInv, Numbered
      <4>2. \A i \in DOMAIN got : got[i].id \in Nat
        BY SeenPushed
      <4> QED BY <3>1, <4>1, <4>2
    <3>3. reader.pc = "parsing" => \A j \in DOMAIN queue : reader.id # queue[j].id
      <4>1. reader.pc = "parsing" => reader.id \in Nat /\ \A j \in DOMAIN queue : reader.id < queue[j].id
        BY SeenPushed DEF MediaInv, Numbered
      <4> QED BY <3>1, <4>1
    <3> QED BY <3>2, <3>3
  <2>4. dropped' = dropped \cup Q
    BY <1>1
  <2>5. Seen \cup dropped = DOMAIN pushed /\ Seen \cap dropped = {}
    BY DEF MediaInv, Numbered
  <2> HIDE DEF Q, G, P
  <2>6. Seen' \cup dropped' = DOMAIN pushed' /\ Seen' \cap dropped' = {}
    BY <1>1, <2>1, <2>2, <2>3, <2>4, <2>5
  <2>7. \A i \in DOMAIN queue' : FALSE
    BY <1>1, <1>6
  <2> QED BY <1>1, <1>4, <2>6, <2>7 DEF MediaInv, Numbered
<1>12. Parsed'
  BY <1>1 DEF MediaInv, Parsed
<1> QED BY <1>8, <1>9, <1>10, <1>11, <1>12 DEF MediaInv

\* The reader takes the first packet of the queue.
LEMMA TakesKeeps ==
  ASSUME MediaInv, queue # <<>>, reader.pc # "parsing", reader' = Takes, queue' = Tail(queue),
         UNCHANGED <<buf, obj, pushed, got, dropped>>
  PROVE  MediaInv'
<1> DEFINE n == Len(buf)
           q == queue
           first == Head(q)
           t == Tail(q)
<1>1. /\ Typed /\ n \in Nat /\ buf \in Seq(Buffer) /\ q \in Seq(Item(n))
      /\ got \in Seq([id : Nat, units : Seq(Seq(0 .. 255))]) /\ dropped \subseteq Nat
      /\ reader \in [pc : Pcs, id : Nat, packet : Packet(n)]
  BY DEF MediaInv, Typed, Pcs
<1> HIDE DEF n
<1>2. /\ first = q[1] /\ first \in Item(n) /\ 1 \in DOMAIN q /\ t \in Seq(Item(n))
      /\ \A i \in DOMAIN t : t[i] = q[i + 1] /\ i + 1 \in DOMAIN q /\ 1 < i + 1 /\ i \in Nat
      /\ \A i \in DOMAIN q : i # 1 => i - 1 \in DOMAIN t /\ i = (i - 1) + 1
  <2>1. q # <<>> /\ q \in Seq(Item(n))
    BY <1>1
  <2> HIDE DEF q
  <2>2. PICK l \in Nat : l = Len(q) /\ l > 0
    BY <2>1
  <2>3. /\ first = q[1] /\ first \in Item(n) /\ 1 \in DOMAIN q /\ DOMAIN q = 1 .. l
    BY <2>1, <2>2
  <2>4. t \in Seq(Item(n)) /\ Len(t) = l - 1 /\ \A i \in 1 .. l - 1 : t[i] = q[i + 1]
    BY <2>1, <2>2
  <2> HIDE DEF t, first
  <2>5. DOMAIN t = 1 .. l - 1
    BY <2>4
  <2>6. \A i \in 1 .. l - 1 : i + 1 \in 1 .. l /\ 1 < i + 1 /\ i \in Nat
    BY <2>2
  <2>7. \A i \in 1 .. l : i # 1 => i - 1 \in 1 .. l - 1 /\ i = (i - 1) + 1
    BY <2>2
  <2> QED BY <2>3, <2>4, <2>5, <2>6, <2>7
<1>3. /\ first.id \in Nat /\ first.packet \in Packet(n)
  BY <1>2 DEF Item
<1>4. /\ reader' \in [pc : Pcs, id : Nat, packet : Packet(n)]
      /\ reader'.pc = "parsing" /\ reader'.id = first.id /\ reader'.packet = first.packet
      /\ queue' = t
  BY <1>3 DEF Takes, Pcs
<1>5. \A b : Times(b, Queued(q)) = Times(b, Refs(first.packet)) + Times(b, Queued(t))
  BY <1>1, QueuedTail
<1> HIDE DEF first, t
<1>6. Typed'
  <2>1. queue' \in Seq(Item(Len(buf))) /\ reader' \in [pc : Pcs, id : Nat, packet : Packet(Len(buf))]
        /\ buf' \in Seq(Buffer) /\ Len(buf') = Len(buf)
    BY <1>1, <1>2, <1>4 DEF n
  <2> QED BY <1>1, <2>1, StillTyped
<1>7. References'
  <2> SUFFICES ASSUME NEW x \in DOMAIN obj \cap DOMAIN Cpp, NEW b \in DOMAIN buf
               PROVE  buf[b].refs >= Times(b, Refs(obj[x])) + Times(b, Refs(obj[Cpp[x]]))
                         + Times(b, Refs(first.packet)) + Times(b, Queued(t))
    <3>1. References' = \A x \in DOMAIN obj' \cap DOMAIN Cpp, b \in DOMAIN buf' :
              buf'[b].refs >= Times(b, Refs(obj'[x])) + Times(b, Refs(obj'[Cpp[x]]))
                               + Times(b, Refs(reader'.packet)) + Times(b, Queued(queue'))
      BY DEF References
    <3> QED BY <1>4, <3>1, Zenon
  <2>1. buf[b].refs >= Times(b, Refs(obj[x])) + Times(b, Refs(obj[Cpp[x]]))
                         + Times(b, Refs(reader.packet)) + Times(b, Queued(q))
    BY DEF MediaInv, References
  <2>2. x \in DOMAIN obj /\ Cpp[x] \in DOMAIN obj
    <3>1. x \in DOMAIN obj /\ x \in DOMAIN Cpp
      OBVIOUS
    <3>2. DOMAIN obj = {x, Cpp[x]}
      BY <1>1, <3>1, WorkShape
    <3> QED BY <3>1, <3>2
  <2>3. PICK z \in Int, o \in Nat, s \in Nat, r \in Nat :
           /\ z = buf[b].refs /\ o = Times(b, Refs(obj[x])) /\ s = Times(b, Refs(obj[Cpp[x]]))
           /\ r = Times(b, Refs(reader.packet))
    BY <1>1, <2>2, Counts
  <2>4. PICK f \in Nat, w \in Nat : f = Times(b, Refs(first.packet)) /\ w = Times(b, Queued(t))
    <3>1. first.packet \in Holder(1, n)
      BY <1>1, <1>3, PacketIsHolder
    <3>2. Refs(first.packet) \in Seq(0 .. n)
      BY <1>1, <3>1, HolderShape
    <3>3. Times(b, Refs(first.packet)) \in Nat
      BY <3>2, TimesType
    <3>4. Times(b, Queued(t)) \in Nat
      BY <1>1, <1>2, QueuedType
    <3> QED BY <3>3, <3>4
  <2>5. z >= o + s + r + (f + w)
    BY <1>5, <2>1, <2>3, <2>4, Zenon
  <2>6. z >= o + s + f + w
    BY <2>5
  <2> QED BY <2>3, <2>4, <2>6, Zenon
<1>8. Held'
  <2>1. \A i \in DOMAIN t : pushed[t[i].id] = Data(buf, t[i].packet)
    BY <1>2 DEF MediaInv, Held
  <2>2. pushed[first.id] = Data(buf, first.packet)
    BY <1>2 DEF MediaInv, Held
  <2> QED BY <1>4, <2>1, <2>2 DEF Held, Data
<1>9. Numbered'
  <2>1. {q[i].id : i \in DOMAIN q} = {t[i].id : i \in DOMAIN t} \cup {first.id}
    <3>1. \A i \in DOMAIN q : q[i].id \in {t[j].id : j \in DOMAIN t} \cup {first.id}
      <4> SUFFICES ASSUME NEW i \in DOMAIN q, i # 1 PROVE \E j \in DOMAIN t : q[i].id = t[j].id
        BY <1>2
      <4>1. i - 1 \in DOMAIN t /\ t[i - 1] = q[i]
        BY <1>2
      <4> QED BY <4>1
    <3>2. \A i \in DOMAIN t : t[i].id \in {q[j].id : j \in DOMAIN q}
      BY <1>2
    <3> QED BY <1>2, <3>1, <3>2
  <2>2. Seen' = Seen
    BY <1>4, <2>1 DEF Seen
  <2>3. \A i, j \in DOMAIN t : i < j => t[i].id < t[j].id
    <3> SUFFICES ASSUME NEW i \in DOMAIN t, NEW j \in DOMAIN t, i < j PROVE t[i].id < t[j].id
      OBVIOUS
    <3>1. i + 1 < j + 1
      BY <1>2
    <3> QED BY <1>2, <3>1 DEF MediaInv, Numbered
  <2>4. \A j \in DOMAIN t : first.id < t[j].id
    BY <1>2 DEF MediaInv, Numbered
  <2>5. \A i \in DOMAIN got : got[i].id < first.id /\ \A j \in DOMAIN t : got[i].id < t[j].id
    BY <1>2 DEF MediaInv, Numbered
  <2> QED BY <1>4, <2>2, <2>3, <2>4, <2>5 DEF MediaInv, Numbered
<1>10. Parsed'
  BY DEF MediaInv, Parsed
<1> QED BY <1>6, <1>7, <1>8, <1>9, <1>10 DEF MediaInv

-----------------------------------------------------------------------------
(* NAL units: what ParseNALUnits makes of the contents of a packet         *)

Long == <<0, 0, 0, 1>>
Short == <<0, 0, 1>>

CodeAt(d, j) == IsAt(d, j, Long) \/ IsAt(d, j, Short)

\* A part of a sequence of bytes.
LEMMA Piece ==
  ASSUME NEW d \in Seq(0 .. 255), NEW i \in Int, NEW k \in Int, 1 <= i, i <= k, k <= Len(d)
  PROVE  /\ SubSeq(d, i, k) \in Seq(0 .. 255)
         /\ Len(SubSeq(d, i, k)) = k - i + 1
         /\ \A j \in 1 .. k - i + 1 : SubSeq(d, i, k)[j] = d[i + j - 1]
<1>1. \A j \in i .. k : d[j] \in 0 .. 255
  <2> SUFFICES ASSUME NEW j \in i .. k PROVE d[j] \in 0 .. 255
    OBVIOUS
  <2>1. j \in 1 .. Len(d)
    OBVIOUS
  <2> QED BY <2>1, ElementOfSeq
<1>2. SubSeq(d, i, k) \in Seq(0 .. 255)
  BY <1>1, SubSeqProperties
<1>3. Len(SubSeq(d, i, k)) = k - i + 1
  <2>1. Len(SubSeq(d, i, k)) = IF i <= k THEN k - i + 1 ELSE 0
    BY <1>1, SubSeqProperties
  <2> QED BY <2>1
<1>4. \A j \in 1 .. k - i + 1 : SubSeq(d, i, k)[j] = d[i + j - 1]
  BY <1>1, SubSeqProperties
<1> QED BY <1>2, <1>3, <1>4

\* A start code of three bytes, byte by byte.
LEMMA ShortBytes ==
  ASSUME NEW d \in Seq(0 .. 255), NEW i \in Nat \ {0}
  PROVE  IsAt(d, i, Short) <=> (i + 2 <= Len(d) /\ d[i] = 0 /\ d[i + 1] = 0 /\ d[i + 2] = 1)
<1>1. Len(Short) = 3 /\ Short[1] = 0 /\ Short[2] = 0 /\ Short[3] = 1
  BY DEF Short
<1>2. CASE i + 2 <= Len(d)
  <2> DEFINE s == SubSeq(d, i, i + 2)
  <2>1. s \in Seq(0 .. 255) /\ Len(s) = 3 /\ s[1] = d[i] /\ s[2] = d[i + 1] /\ s[3] = d[i + 2]
    <3>1. PICK k \in Nat : k = i + 2
      OBVIOUS
    <3>2. i \in Int /\ k \in Int /\ 1 <= i /\ i <= k /\ k <= Len(d) /\ k - i + 1 = 3
      BY <1>2, <3>1
    <3>3. /\ SubSeq(d, i, k) \in Seq(0 .. 255) /\ Len(SubSeq(d, i, k)) = k - i + 1
          /\ \A j \in 1 .. k - i + 1 : SubSeq(d, i, k)[j] = d[i + j - 1]
      BY <3>2, Piece, Zenon
    <3>4. i + 1 - 1 = i /\ i + 2 - 1 = i + 1 /\ i + 3 - 1 = i + 2 /\ 1 \in 1 .. 3 /\ 2 \in 1 .. 3 /\ 3 \in 1 .. 3
      OBVIOUS
    <3> HIDE DEF s
    <3>5. s = SubSeq(d, i, k)
      BY <3>1 DEF s
    <3> QED BY <3>2, <3>3, <3>4, <3>5
  <2> HIDE DEF s
  <2>2. s = <<s[1], s[2], s[3]>>
    BY <2>1
  <2>3. s = Short <=> (d[i] = 0 /\ d[i + 1] = 0 /\ d[i + 2] = 1)
    BY <1>1, <2>1, <2>2 DEF Short
  <2>4. i + Len(Short) - 1 = i + 2
    BY <1>1
  <2>5. IsAt(d, i, Short) <=> s = Short
    BY <1>2, <2>4 DEF IsAt, s
  <2> QED BY <1>2, <2>3, <2>5
<1>3. CASE ~(i + 2 <= Len(d))
  <2>1. i + Len(Short) - 1 = i + 2
    BY <1>1
  <2> QED BY <1>3, <2>1 DEF IsAt
<1> QED BY <1>2, <1>3

\* A start code of four bytes, byte by byte.
LEMMA LongBytes ==
  ASSUME NEW d \in Seq(0 .. 255), NEW i \in Nat \ {0}
  PROVE  IsAt(d, i, Long) <=> (i + 3 <= Len(d) /\ d[i] = 0 /\ d[i + 1] = 0 /\ d[i + 2] = 0 /\ d[i + 3] = 1)
<1>1. Len(Long) = 4 /\ Long[1] = 0 /\ Long[2] = 0 /\ Long[3] = 0 /\ Long[4] = 1
  BY DEF Long
<1>2. CASE i + 3 <= Len(d)
  <2> DEFINE s == SubSeq(d, i, i + 3)
  <2>1. /\ s \in Seq(0 .. 255) /\ Len(s) = 4 /\ s[1] = d[i] /\ s[2] = d[i + 1]
        /\ s[3] = d[i + 2] /\ s[4] = d[i + 3]
    <3>1. PICK k \in Nat : k = i + 3
      OBVIOUS
    <3>2. i \in Int /\ k \in Int /\ 1 <= i /\ i <= k /\ k <= Len(d) /\ k - i + 1 = 4
      BY <1>2, <3>1
    <3>3. /\ SubSeq(d, i, k) \in Seq(0 .. 255) /\ Len(SubSeq(d, i, k)) = k - i + 1
          /\ \A j \in 1 .. k - i + 1 : SubSeq(d, i, k)[j] = d[i + j - 1]
      BY <3>2, Piece, Zenon
    <3>4. /\ i + 1 - 1 = i /\ i + 2 - 1 = i + 1 /\ i + 3 - 1 = i + 2 /\ i + 4 - 1 = i + 3
          /\ 1 \in 1 .. 4 /\ 2 \in 1 .. 4 /\ 3 \in 1 .. 4 /\ 4 \in 1 .. 4
      OBVIOUS
    <3> HIDE DEF s
    <3>5. s = SubSeq(d, i, k)
      BY <3>1 DEF s
    <3> QED BY <3>2, <3>3, <3>4, <3>5
  <2> HIDE DEF s
  <2>2. s = <<s[1], s[2], s[3], s[4]>>
    BY <2>1
  <2>3. s = Long <=> (d[i] = 0 /\ d[i + 1] = 0 /\ d[i + 2] = 0 /\ d[i + 3] = 1)
    BY <1>1, <2>1, <2>2 DEF Long
  <2>4. i + Len(Long) - 1 = i + 3
    BY <1>1
  <2>5. IsAt(d, i, Long) <=> s = Long
    BY <1>2, <2>4 DEF IsAt, s
  <2> QED BY <1>2, <2>3, <2>5
<1>3. CASE ~(i + 3 <= Len(d))
  <2>1. i + Len(Long) - 1 = i + 3
    BY <1>1
  <2> QED BY <1>3, <2>1 DEF IsAt
<1> QED BY <1>2, <1>3

\* A set of numbers has the minimum that Min chooses.
LEMMA MinLeast ==
  ASSUME NEW T \in SUBSET Nat, T # {}
  PROVE  Min(T) \in T /\ \A n \in T : Min(T) <= n
BY Smallest DEF Min

\* FindStartCode finds the first start code from a position on.
LEMMA FirstCode ==
  ASSUME NEW d \in Seq(0 .. 255), NEW i \in 1 .. Len(d) + 1
  PROVE  /\ FindStartCode(d, i) \in i .. Len(d) + 1
         /\ FindStartCode(d, i) <= Len(d) => CodeAt(d, FindStartCode(d, i))
         /\ \A j \in i .. Len(d) : CodeAt(d, j) => FindStartCode(d, i) <= j
<1>1. PICK n \in Nat : n = Len(d)
  OBVIOUS
<1> DEFINE T == {j \in i .. n : \E c \in {Long, Short} : IsAt(d, j, c)} \cup {n + 1}
<1>2. \A j \in i .. n : j \in T <=> CodeAt(d, j)
  BY <1>1 DEF CodeAt
<1>3. T \in SUBSET Nat /\ n + 1 \in T /\ \A j \in T : j \in i .. n + 1
  BY <1>1
<1>4. FindStartCode(d, i) = Min(T)
  BY <1>1 DEF FindStartCode, Long, Short
<1> HIDE DEF T
<1>5. Min(T) \in T /\ \A j \in T : Min(T) <= j
  BY <1>3, MinLeast
<1> DEFINE m == Min(T)
<1>6. m \in i .. n + 1 /\ (m <= n => m \in T)
  BY <1>3, <1>5
<1>7. \A j \in i .. n : CodeAt(d, j) => m <= j
  BY <1>2, <1>5
<1> HIDE DEF m
<1>8. m <= n => CodeAt(d, m)
  BY <1>2, <1>6
<1>9. FindStartCode(d, i) = m
  BY <1>4 DEF m
<1> QED BY <1>1, <1>6, <1>7, <1>8, <1>9

\* What follows a start code starts three bytes after a short one, which may be
\* the end of a long one; no other overlaps with it.
LEMMA AfterCode ==
  ASSUME NEW d \in Seq(0 .. 255), NEW c \in 1 .. Len(d), CodeAt(d, c)
  PROVE  /\ CodeLength(d, c) \in {3, 4}
         /\ c + CodeLength(d, c) <= Len(d) + 1
         /\ IsAt(d, c + CodeLength(d, c) - 3, Short)
         /\ \A p \in c .. c + CodeLength(d, c) - 1 :
               IsAt(d, p, Short) => p = c + CodeLength(d, c) - 3
<1>1. CodeLength(d, c) = IF IsAt(d, c, Long) THEN 4 ELSE 3
  <2>1. ~(IsAt(d, c, Long) /\ IsAt(d, c, Short))
    BY LongBytes, ShortBytes
  <2>2. CodeLength(d, c) = CASE IsAt(d, c, Long) -> 4 [] IsAt(d, c, Short) -> 3 [] OTHER -> 0
    BY DEF CodeLength, Long, Short
  <2> QED BY <2>1, <2>2 DEF CodeAt
<1>2. CASE IsAt(d, c, Long)
  <2>1. c + 3 <= Len(d) /\ d[c] = 0 /\ d[c + 1] = 0 /\ d[c + 2] = 0 /\ d[c + 3] = 1
    BY <1>2, LongBytes
  <2>2. c + 1 \in Nat \ {0} /\ (c + 1) + 1 = c + 2 /\ (c + 1) + 2 = c + 3
    OBVIOUS
  <2>3. IsAt(d, c + 1, Short)
    BY <2>1, <2>2, ShortBytes
  <2>4. CodeLength(d, c) = 4 /\ c + 4 - 3 = c + 1 /\ c + 4 - 1 = c + 3
    BY <1>1, <1>2
  <2>5. ASSUME NEW p \in c .. c + 3, IsAt(d, p, Short) PROVE p = c + 1
    <3>1. p + 2 <= Len(d) /\ d[p] = 0 /\ d[p + 1] = 0 /\ d[p + 2] = 1
      BY <2>5, ShortBytes
    <3>2. p = c \/ p = c + 1 \/ p = c + 2 \/ p = c + 3
      OBVIOUS
    <3>3. p # c
      BY <2>1, <3>1
    <3>4. CASE p = c + 2
      <4>1. p + 1 = c + 3
        BY <3>4
      <4> QED BY <2>1, <3>1, <4>1
    <3> QED BY <2>1, <3>1, <3>2, <3>3, <3>4
  <2> QED BY <2>1, <2>3, <2>4, <2>5
<1>3. CASE ~IsAt(d, c, Long)
  <2>1. IsAt(d, c, Short)
    BY <1>3 DEF CodeAt
  <2>2. c + 2 <= Len(d) /\ d[c] = 0 /\ d[c + 1] = 0 /\ d[c + 2] = 1
    BY <2>1, ShortBytes
  <2>3. CodeLength(d, c) = 3 /\ c + 3 - 3 = c /\ c + 3 - 1 = c + 2
    BY <1>1, <1>3
  <2>4. ASSUME NEW p \in c .. c + 2, IsAt(d, p, Short) PROVE p = c
    <3>1. p + 2 <= Len(d) /\ d[p] = 0 /\ d[p + 1] = 0 /\ d[p + 2] = 1
      BY <2>4, ShortBytes
    <3>2. p = c \/ p = c + 1 \/ p = c + 2
      OBVIOUS
    <3>3. CASE p = c + 1
      <4>1. p + 1 = c + 2
        BY <3>3
      <4> QED BY <2>2, <3>1, <4>1
    <3> QED BY <2>2, <3>1, <3>2, <3>3
  <2> QED BY <2>1, <2>2, <2>3, <2>4
<1> QED BY <1>2, <1>3

\* The spans whose start code is at i or later.
From(d, i) == {s \in Spans(d) : i + 3 <= s[1]}

\* us are the units of these spans in their order.
AreUnitsOf(us, d, S) ==
    /\ us \in Seq(Seq(0 .. 255)) /\ Len(us) = Cardinality(S)
    /\ \A s \in S : us[Cardinality({r \in S : r[1] <= s[1]})] = SubSeq(d, s[1], s[2])

\* A span, by its start code and the one after it.
LEMMA SpanIs ==
  ASSUME NEW d \in Seq(0 .. 255), NEW a \in 1 .. Len(d), NEW b \in 1 .. Len(d)
  PROVE  <<a, b>> \in Spans(d) <=>
           /\ a > 3 /\ IsAt(d, a - 3, Short) /\ a <= b
           /\ b + 1 <= Len(d) => CodeAt(d, b + 1)
           /\ \A k \in a .. b : ~CodeAt(d, k)
<1>1. \A k \in a .. b : k \in Nat /\ k <= Len(d)
  OBVIOUS
<1>2. <<a, b>> \in (DOMAIN d) \X (DOMAIN d)
  OBVIOUS
<1> DEFINE P(s) == /\ s[1] > 3 /\ IsAt(d, s[1] - 3, <<0, 0, 1>>)
                   /\ s[1] <= s[2]
                   /\ s[2] + 1 > Len(d) \/ IsAt(d, s[2] + 1, <<0, 0, 1>>) \/ IsAt(d, s[2] + 1, <<0, 0, 0, 1>>)
                   /\ \A k \in s[1] .. s[2] :
                         ~(k > Len(d) \/ IsAt(d, k, <<0, 0, 1>>) \/ IsAt(d, k, <<0, 0, 0, 1>>))
<1>3. Spans(d) = {s \in (DOMAIN d) \X (DOMAIN d) : P(s)}
  BY Zenon DEF Spans
<1>4. <<a, b>> \in Spans(d) <=> P(<<a, b>>)
  <2> HIDE DEF P
  <2> QED BY <1>2, <1>3
<1>5. P(<<a, b>>) <=>
           /\ a > 3 /\ IsAt(d, a - 3, Short) /\ a <= b
           /\ b + 1 > Len(d) \/ IsAt(d, b + 1, Short) \/ IsAt(d, b + 1, Long)
           /\ \A k \in a .. b : ~(k > Len(d) \/ IsAt(d, k, Short) \/ IsAt(d, k, Long))
  BY DEF Short, Long
<1> HIDE DEF P
<1>6. (\A k \in a .. b : ~(k > Len(d) \/ IsAt(d, k, Short) \/ IsAt(d, k, Long)))
        <=> (\A k \in a .. b : ~CodeAt(d, k))
  BY <1>1 DEF CodeAt
<1>7. (b + 1 > Len(d) \/ IsAt(d, b + 1, Short) \/ IsAt(d, b + 1, Long))
        <=> (b + 1 <= Len(d) => CodeAt(d, b + 1))
  BY DEF CodeAt
<1> QED BY <1>4, <1>5, <1>6, <1>7, Zenon

\* A span is a pair of positions.
LEMMA SpanShape ==
  ASSUME NEW d \in Seq(0 .. 255), NEW s \in Spans(d)
  PROVE  \E a \in 1 .. Len(d), b \in 1 .. Len(d) : s = <<a, b>>
<1>1. s \in (1 .. Len(d)) \X (1 .. Len(d))
  BY DEF Spans
<1> QED BY <1>1

\* From a position after which there is no start code there are no spans.
LEMMA NoneLeft ==
  ASSUME NEW d \in Seq(0 .. 255), NEW i \in 1 .. Len(d) + 1, \A j \in i .. Len(d) : ~CodeAt(d, j)
  PROVE  From(d, i) = {}
<1> SUFFICES ASSUME NEW s \in From(d, i) PROVE FALSE
  OBVIOUS
<1>1. s \in Spans(d) /\ i + 3 <= s[1]
  BY DEF From
<1>2. PICK a \in 1 .. Len(d), b \in 1 .. Len(d) : s = <<a, b>>
  BY <1>1, SpanShape
<1>3. IsAt(d, a - 3, Short) /\ i + 3 <= a
  BY <1>1, <1>2, SpanIs
<1>4. a - 3 \in i .. Len(d)
  BY <1>3
<1> QED BY <1>3, <1>4 DEF CodeAt

\* The first span from a position on is what follows the first start code, unless
\* the next code follows at once; the others are those from the next code on.
LEMMA FirstSpan ==
  ASSUME NEW d \in Seq(0 .. 255), NEW i \in 1 .. Len(d), NEW c \in i .. Len(d), CodeAt(d, c),
         \A j \in i .. Len(d) : CodeAt(d, j) => c <= j,
         NEW f \in 1 .. Len(d) + 1, f = c + CodeLength(d, c),
         NEW g \in f .. Len(d) + 1, g <= Len(d) => CodeAt(d, g),
         \A j \in f .. Len(d) : CodeAt(d, j) => g <= j
  PROVE  /\ \A s \in From(d, g) : f < s[1]
         /\ f < g => (<<f, g - 1>> \in From(d, i) /\ From(d, i) = {<<f, g - 1>>} \cup From(d, g))
         /\ f = g => From(d, i) = From(d, g)
<1>1. PICK n \in Nat : n = Len(d)
  OBVIOUS
<1>2. c \in 1 .. n /\ i \in 1 .. n /\ f \in 1 .. n + 1 /\ g \in f .. n + 1 /\ i \in Nat /\ g \in Nat /\ f \in Nat
  BY <1>1
<1>3. /\ f - c \in {3, 4} /\ c + 3 <= f /\ i + 3 <= f /\ f > 3
      /\ IsAt(d, f - 3, Short)
      /\ \A p \in c .. f - 1 : IsAt(d, p, Short) => p = f - 3
  <2>1. PICK l \in {3, 4} : l = CodeLength(d, c)
    BY <1>1, <1>2, AfterCode
  <2>2. /\ IsAt(d, c + l - 3, Short)
        /\ \A p \in c .. c + l - 1 : IsAt(d, p, Short) => p = c + l - 3
    BY <1>1, <1>2, <2>1, AfterCode
  <2>3. f = c + l
    BY <2>1
  <2> QED BY <1>2, <2>2, <2>3
<1>4. \A s \in From(d, g) : f < s[1]
  <2> SUFFICES ASSUME NEW s \in From(d, g) PROVE f < s[1]
    OBVIOUS
  <2>1. s \in Spans(d) /\ g + 3 <= s[1]
    BY DEF From
  <2>2. PICK a \in 1 .. n, b \in 1 .. n : s = <<a, b>>
    BY <1>1, <2>1, SpanShape
  <2> QED BY <1>2, <2>1, <2>2
<1>5. From(d, g) \subseteq From(d, i)
  <2> SUFFICES ASSUME NEW s \in From(d, g) PROVE s \in From(d, i)
    OBVIOUS
  <2>1. s \in Spans(d) /\ g + 3 <= s[1]
    BY DEF From
  <2>2. PICK a \in 1 .. n, b \in 1 .. n : s = <<a, b>>
    BY <1>1, <2>1, SpanShape
  <2>3. i + 3 <= s[1]
    BY <1>2, <1>3, <2>1, <2>2
  <2> QED BY <2>1, <2>3 DEF From
<1>6. \A j \in f .. g - 1 : j \in 1 .. n /\ ~CodeAt(d, j)
  <2> SUFFICES ASSUME NEW j \in f .. g - 1 PROVE j \in 1 .. n /\ ~CodeAt(d, j)
    OBVIOUS
  <2>1. j \in 1 .. n /\ j \in f .. Len(d) /\ ~(g <= j)
    BY <1>1, <1>2
  <2> QED BY <2>1
<1>7. ASSUME NEW s \in From(d, i), s \notin From(d, g) PROVE f < g /\ s = <<f, g - 1>>
  <2>1. s \in Spans(d) /\ i + 3 <= s[1] /\ ~(g + 3 <= s[1])
    BY <1>7 DEF From
  <2>2. PICK a \in 1 .. n, b \in 1 .. n : s = <<a, b>>
    BY <1>1, <2>1, SpanShape
  <2>3. /\ a > 3 /\ IsAt(d, a - 3, Short) /\ a <= b
        /\ b + 1 <= n => CodeAt(d, b + 1)
        /\ \A k \in a .. b : ~CodeAt(d, k)
    BY <1>1, <2>1, <2>2, SpanIs
  <2>4. PICK p \in Nat : p = a - 3
    BY <2>3
  <2>5. p \in i .. n /\ p < g /\ CodeAt(d, p)
    BY <1>2, <2>1, <2>2, <2>3, <2>4 DEF CodeAt
  <2>6. c <= p /\ ~(p \in f .. n)
    BY <1>1, <2>5
  <2>7. p \in c .. f - 1
    BY <1>2, <2>5, <2>6
  <2>8. p = f - 3
    BY <1>3, <2>3, <2>4, <2>7
  <2>9. a = f
    BY <1>2, <2>4, <2>8
  <2>10. a < g
    <3> SUFFICES ASSUME a = g PROVE FALSE
      BY <1>2, <2>9
    <3>1. a \in a .. b /\ g <= Len(d)
      BY <1>1, <2>3
    <3> QED BY <2>3, <3>1
  <2>11. ~(g <= b)
    <3> SUFFICES ASSUME g <= b PROVE FALSE
      OBVIOUS
    <3>1. g \in a .. b /\ g <= Len(d)
      BY <1>1, <1>2, <2>10
    <3> QED BY <2>3, <3>1
  <2>12. ~(b + 1 < g)
    <3> SUFFICES ASSUME b + 1 < g PROVE FALSE
      OBVIOUS
    <3>1. b + 1 \in f .. g - 1 /\ b + 1 <= n
      BY <1>2, <2>3, <2>9
    <3> QED BY <1>6, <2>3, <3>1
  <2>13. b = g - 1
    BY <1>2, <2>11, <2>12
  <2> QED BY <2>2, <2>9, <2>10, <2>13
<1>8. ASSUME f < g PROVE <<f, g - 1>> \in From(d, i)
  <2>1. PICK b \in 1 .. n : b = g - 1
    BY <1>2, <1>8
  <2>2. f \in 1 .. n /\ f <= b /\ b + 1 = g
    BY <1>2, <1>8, <2>1
  <2>3. <<f, b>> \in Spans(d)
    <3>1. \A k \in f .. b : ~CodeAt(d, k)
      BY <1>6, <2>1
    <3>2. b + 1 <= Len(d) => CodeAt(d, b + 1)
      BY <2>2
    <3> QED BY <1>1, <1>3, <2>2, <3>1, <3>2, SpanIs
  <2> QED BY <1>3, <2>1, <2>3 DEF From
<1>9. ASSUME f < g PROVE <<f, g - 1>> \in From(d, i) /\ From(d, i) = {<<f, g - 1>>} \cup From(d, g)
  <2>1. <<f, g - 1>> \in From(d, i)
    BY <1>8, <1>9
  <2>2. \A s \in From(d, i) : s \in From(d, g) \/ s = <<f, g - 1>>
    BY <1>7
  <2> QED BY <1>5, <2>1, <2>2
<1>10. ASSUME f = g PROVE From(d, i) = From(d, g)
  <2>1. \A s \in From(d, i) : s \in From(d, g)
    BY <1>2, <1>7, <1>10
  <2> QED BY <1>5, <2>1
<1> QED BY <1>4, <1>9, <1>10, Zenon

\* There are finitely many spans.
LEMMA SpansFinite ==
  ASSUME NEW d \in Seq(0 .. 255), NEW T \in SUBSET Spans(d)
  PROVE  IsFiniteSet(T)
<1>1. IsFiniteSet(1 .. Len(d))
  BY FS_Interval
<1>2. IsFiniteSet((1 .. Len(d)) \X (1 .. Len(d)))
  BY <1>1, FS_Product
<1>3. T \subseteq (1 .. Len(d)) \X (1 .. Len(d))
  BY DEF Spans
<1> QED BY <1>2, <1>3, FS_Subset

With(u, us) == <<u>> \o us

\* A sequence with one more element at its beginning.
LEMMA OneBefore ==
  ASSUME NEW U, NEW u \in U, NEW us \in Seq(U)
  PROVE  /\ With(u, us) \in Seq(U) /\ Len(With(u, us)) = Len(us) + 1 /\ With(u, us)[1] = u
         /\ \A i \in 1 .. Len(us) : With(u, us)[i + 1] = us[i]
BY DEF With

\* One more unit, of a span before all others.
LEMMA OneMoreUnit ==
  ASSUME NEW d \in Seq(0 .. 255), NEW S \in SUBSET Spans(d), NEW us, AreUnitsOf(us, d, S),
         NEW s \in Spans(d), \A r \in S : s[1] < r[1],
         NEW u, u = SubSeq(d, s[1], s[2])
  PROVE  AreUnitsOf(With(u, us), d, {s} \cup S)
<1> DEFINE T == {s} \cup S
           vs == With(u, us)
           Upto(t, r) == {q \in t : q[1] <= r[1]}
<1>1. IsFiniteSet(S) /\ IsFiniteSet(T) /\ T \in SUBSET Spans(d)
  BY SpansFinite
<1>2. \A r \in Spans(d) : r[1] \in Nat /\ r[2] \in Nat
  BY DEF Spans
<1>3. PICK k \in Nat : k = Cardinality(S) /\ k = Len(us)
  BY <1>1, FS_CardinalityType DEF AreUnitsOf
<1>4. s \notin S
  BY <1>2
<1>5. Cardinality(T) = k + 1
  <2>1. Cardinality(S \cup {s}) = Cardinality(S) + 1
    BY <1>1, <1>4, FS_AddElement
  <2>2. T = S \cup {s}
    OBVIOUS
  <2> QED BY <1>3, <2>1, <2>2
<1>6. u \in Seq(0 .. 255)
  <2>1. PICK a \in 1 .. Len(d), b \in 1 .. Len(d) : s = <<a, b>>
    BY SpanShape
  <2>2. a <= b
    BY <2>1, SpanIs
  <2>3. u = SubSeq(d, a, b)
    BY <2>1
  <2>4. a \in Int /\ b \in Int /\ 1 <= a /\ b <= Len(d)
    OBVIOUS
  <2>5. SubSeq(d, a, b) \in Seq(0 .. 255)
    BY <2>2, <2>4, Piece, Zenon
  <2> QED BY <2>3, <2>5
<1>7. us \in Seq(Seq(0 .. 255))
  BY DEF AreUnitsOf
<1>8. /\ vs \in Seq(Seq(0 .. 255)) /\ Len(vs) = k + 1 /\ vs[1] = u
      /\ \A i \in 1 .. k : vs[i + 1] = us[i]
  <2>1. PICK U : U = Seq(0 .. 255)
    OBVIOUS
  <2>2. u \in U /\ us \in Seq(U)
    BY <1>6, <1>7, <2>1
  <2>3. /\ vs \in Seq(U) /\ Len(vs) = k + 1 /\ vs[1] = u
        /\ \A i \in 1 .. k : vs[i + 1] = us[i]
    <3>1. u \in U /\ us \in Seq(U)
      BY <2>2
    <3>2. /\ vs \in Seq(U) /\ Len(vs) = Len(us) + 1 /\ vs[1] = u
          /\ \A i \in 1 .. Len(us) : vs[i + 1] = us[i]
      <4> HIDE DEF T, Upto
      <4>1. With(u, us) \in Seq(U)
        BY <3>1, OneBefore
      <4>2. Len(With(u, us)) = Len(us) + 1
        BY <3>1, OneBefore
      <4>3. With(u, us)[1] = u
        BY <3>1, OneBefore
      <4>4. \A i \in 1 .. Len(us) : With(u, us)[i + 1] = us[i]
        BY <3>1, OneBefore
      <4> QED BY <4>1, <4>2, <4>3, <4>4
    <3> QED BY <1>3, <3>2
  <2> QED BY <2>1, <2>3
<1> HIDE DEF vs
<1>9. vs[Cardinality(Upto(T, s))] = SubSeq(d, s[1], s[2])
  <2>1. Upto(T, s) = {s}
    BY <1>2
  <2>2. Cardinality({s}) = 1
    BY FS_Singleton
  <2> QED BY <1>8, <2>1, <2>2
<1>10. ASSUME NEW r \in S PROVE vs[Cardinality(Upto(T, r))] = SubSeq(d, r[1], r[2])
  <2> DEFINE A == Upto(S, r)
  <2>1. Upto(T, r) = A \cup {s}
    BY <1>2
  <2>2. A \in SUBSET S /\ r \in A /\ s \notin A
    BY <1>2, <1>4
  <2>3. IsFiniteSet(A) /\ Cardinality(A) \in Nat /\ Cardinality(A) <= k
    BY <1>1, <1>3, <2>2, FS_Subset, FS_CardinalityType
  <2>4. Cardinality(A) # 0
    BY <2>2, <2>3, FS_EmptySet
  <2>5. us[Cardinality(A)] = SubSeq(d, r[1], r[2])
    BY DEF AreUnitsOf
  <2> HIDE DEF A
  <2>6. Cardinality(A \cup {s}) = Cardinality(A) + 1
    BY <2>2, <2>3, FS_AddElement
  <2>7. Cardinality(A) \in 1 .. k
    BY <2>3, <2>4
  <2> QED BY <1>8, <2>1, <2>5, <2>6, <2>7
<1>11. \A r \in T : vs[Cardinality(Upto(T, r))] = SubSeq(d, r[1], r[2])
  BY <1>9, <1>10
<1>12. AreUnitsOf(vs, d, T)
  BY <1>5, <1>8, <1>11 DEF AreUnitsOf
<1> QED BY <1>12 DEF vs

\* UnitsFrom finds the units, whatever the packet has in it.
LEMMA UnitsCorrect ==
  ASSUME NEW d \in Seq(0 .. 255)
  PROVE  UnitsFrom(d) \in Seq(Seq(0 .. 255)) /\ AreUnits(UnitsFrom(d), d)
<1>1. PICK n \in Nat : n = Len(d)
  OBVIOUS
<1> DEFINE D == 1 .. n + 1
           R == Seq(Seq(0 .. 255))
           Stops(i) == i > n \/ FindStartCode(d, i) > n
           F(i) == FindStartCode(d, i) + CodeLength(d, FindStartCode(d, i))
           G(i) == FindStartCode(d, F(i))
           Unit(i) == IF G(i) > F(i) THEN <<SubSeq(d, F(i), G(i) - 1)>> ELSE <<>>
           size == [i \in D |-> n + 1 - i]
           stop == [i \in D |-> Stops(i)]
           end == [i \in D |-> <<>>]
           next == [i \in D |-> IF Stops(i) THEN i ELSE G(i)]
           step == [i \in D |-> [r \in R |-> IF Stops(i) THEN r ELSE Unit(i) \o r]]
<1>2. ASSUME NEW i \in D, ~Stops(i)
      PROVE  /\ i \in 1 .. n /\ FindStartCode(d, i) \in i .. n /\ CodeAt(d, FindStartCode(d, i))
             /\ \A j \in i .. n : CodeAt(d, j) => FindStartCode(d, i) <= j
             /\ F(i) \in 1 .. n + 1 /\ F(i) > i
             /\ G(i) \in F(i) .. n + 1 /\ G(i) \in D /\ (G(i) <= n => CodeAt(d, G(i)))
             /\ \A j \in F(i) .. n : CodeAt(d, j) => G(i) <= j
  <2>1. PICK c : c = FindStartCode(d, i)
    OBVIOUS
  <2>2. i \in 1 .. n /\ c \in i .. n /\ CodeAt(d, c) /\ \A j \in i .. n : CodeAt(d, j) => c <= j
    <3>1. i <= n /\ c <= n
      <4>1. ~(i > n) /\ ~(c > n)
        BY <1>2, <2>1, Zenon
      <4>2. c \in i .. n + 1
        BY <1>1, <2>1, FirstCode
      <4> QED BY <4>1, <4>2
    <3> QED BY <1>1, <2>1, <3>1, FirstCode
  <2>3. PICK f : f = c + CodeLength(d, c)
    OBVIOUS
  <2>4. f \in 1 .. n + 1 /\ f > i
    <3>1. CodeLength(d, c) \in {3, 4} /\ c + CodeLength(d, c) <= n + 1
      BY <1>1, <2>2, AfterCode
    <3> QED BY <2>2, <2>3, <3>1
  <2>5. PICK g : g = FindStartCode(d, f)
    OBVIOUS
  <2>6. g \in f .. n + 1 /\ (g <= n => CodeAt(d, g)) /\ \A j \in f .. n : CodeAt(d, j) => g <= j
    BY <1>1, <2>4, <2>5, FirstCode
  <2>7. F(i) = f /\ G(i) = g
    BY <2>1, <2>3, <2>5
  <2>8. g \in D
    BY <2>4, <2>6
  <2> HIDE DEF F, G
  <2> QED BY <2>1, <2>2, <2>4, <2>6, <2>7, <2>8
<1> HIDE DEF F, G
<1>3. ASSUME NEW i \in D, ~Stops(i) PROVE Unit(i) \in R
  <2>1. CASE G(i) > F(i)
    <3>1. PICK f \in Int, b \in Int : f = F(i) /\ b = G(i) - 1
      BY <1>2, <1>3
    <3>2. 1 <= f /\ f <= b /\ b <= n
      BY <1>2, <1>3, <2>1, <3>1
    <3>3. SubSeq(d, f, b) \in Seq(0 .. 255)
      BY <1>1, <3>2, Piece, Zenon
    <3>4. PICK U : U = Seq(0 .. 255)
      OBVIOUS
    <3>5. <<SubSeq(d, f, b)>> \in Seq(U)
      BY <3>3, <3>4
    <3>6. Unit(i) = <<SubSeq(d, f, b)>>
      BY <2>1, <3>1
    <3> QED BY <3>4, <3>5, <3>6
  <2>2. CASE ~(G(i) > F(i))
    <3>1. Unit(i) = <<>>
      BY <2>2
    <3> QED BY <3>1
  <2> QED BY <2>1, <2>2
<1>4. /\ size \in [D -> Nat] /\ stop \in [D -> BOOLEAN] /\ end \in [D -> R] /\ next \in [D -> D]
      /\ step \in [D -> [R -> R]] /\ \A i \in D : ~stop[i] => size[next[i]] < size[i]
  <2>1. size \in [D -> Nat] /\ stop \in [D -> BOOLEAN] /\ end \in [D -> R]
    <3> HIDE DEF Stops
    <3>1. size \in [D -> Nat]
      BY <1>1
    <3>2. stop \in [D -> BOOLEAN]
      <4> USE DEF Stops
      <4> QED OBVIOUS
    <3>3. end \in [D -> R]
      OBVIOUS
    <3> QED BY <3>1, <3>2, <3>3
  <2> HIDE DEF Stops, Unit
  <2>2. next \in [D -> D]
    BY <1>2
  <2>3. step \in [D -> [R -> R]]
    <3>1. PICK U : U = Seq(0 .. 255)
      OBVIOUS
    <3>2. \A i \in D : ~Stops(i) => Unit(i) \in Seq(U)
      BY <1>3, <3>1
    <3>3. \A i \in D : [r \in Seq(U) |-> IF Stops(i) THEN r ELSE Unit(i) \o r] \in [Seq(U) -> Seq(U)]
      BY <3>2
    <3> QED BY <3>1, <3>3
  <2>4. ASSUME NEW i \in D, ~stop[i] PROVE size[next[i]] < size[i]
    <3>1. ~Stops(i)
      BY <2>4
    <3>2. next[i] = G(i) /\ G(i) \in D /\ G(i) > i
      <4>1. G(i) \in F(i) .. n + 1 /\ F(i) > i /\ G(i) \in D /\ F(i) \in 1 .. n + 1
        BY <1>2, <3>1
      <4> QED BY <3>1, <4>1
    <3>3. size[G(i)] = n + 1 - G(i) /\ size[i] = n + 1 - i
      BY <3>2
    <3> HIDE DEF size, next
    <3>4. n + 1 - G(i) < n + 1 - i
      BY <3>2
    <3> QED BY <3>2, <3>3, <3>4
  <2> QED BY <2>1, <2>2, <2>3, <2>4
<1> HIDE DEF size, stop, end, next, step, D, R
<1>5. PICK f : Solution(f, D, R, stop, end, next, step)
  <2>1. IsRecursion(D, R, size, stop, end, next, step)
    BY <1>4 DEF IsRecursion
  <2> QED BY <2>1, Recursion
<1> DEFINE E(units, i) == IF Stops(i) THEN <<>> ELSE Unit(i) \o units[G(i)]
<1>6. f \in [D -> R] /\ \A i \in D : f[i] = E(f, i)
  <2>1. f \in [D -> R] /\ \A i \in D : f[i] = IF stop[i] THEN end[i] ELSE step[i][f[next[i]]]
    BY <1>5, Zenon DEF Solution
  <2> SUFFICES ASSUME NEW i \in D PROVE f[i] = E(f, i)
    BY <2>1
  <2> HIDE DEF Unit
  <2>2. CASE Stops(i)
    <3>1. stop[i] /\ end[i] = <<>>
      BY <2>2 DEF stop, end
    <3> QED BY <2>1, <2>2, <3>1
  <2>3. CASE ~Stops(i)
    <3>1. ~stop[i] /\ next[i] = G(i) /\ G(i) \in D
      BY <1>2, <2>3 DEF stop, next, D
    <3>2. f[G(i)] \in R
      BY <2>1, <3>1
    <3>3. step[i][f[G(i)]] = Unit(i) \o f[G(i)]
      BY <2>3, <3>2 DEF step
    <3> QED BY <2>1, <2>3, <3>1, <3>3
  <2> QED BY <2>2, <2>3
<1> DEFINE Recurs(g) == g = [i \in 1 .. Len(d) + 1 |->
                               LET code == FindStartCode(d, i)
                                   first == code + CodeLength(d, code)
                                   follows == FindStartCode(d, first)
                               IN IF i > Len(d) \/ code > Len(d) THEN <<>>
                                  ELSE (IF follows > first THEN <<SubSeq(d, first, follows - 1)>> ELSE <<>>)
                                           \o g[follows]]
<1>7. \A g : Recurs(g) <=> g = [i \in D |-> E(g, i)]
  BY <1>1, Zenon DEF F, G, D
<1> DEFINE h == CHOOSE g : Recurs(g)
<1>8. UnitsFrom(d) = h[1]
  BY Zenon DEF UnitsFrom
<1> HIDE DEF E, Recurs, h
<1>9. f = [i \in D |-> E(f, i)]
  BY <1>6
<1>10. Recurs(h)
  BY <1>7, <1>9, Zenon DEF h
<1>11. \A i \in D : h[i] = E(h, i)
  BY <1>7, <1>10
<1> DEFINE T == {i \in D : AreUnitsOf(h[i], d, From(d, i))}
<1>12. ASSUME NEW i \in D, \A j \in D : size[j] < size[i] => j \in T PROVE i \in T
  <2>1. i \in 1 .. Len(d) + 1
    BY <1>1 DEF D
  <2>2. CASE Stops(i)
    <3>1. h[i] = <<>>
      BY <1>11, <2>2 DEF E
    <3>2. \A j \in i .. Len(d) : ~CodeAt(d, j)
      <4> SUFFICES ASSUME NEW j \in i .. Len(d), CodeAt(d, j) PROVE FALSE
        OBVIOUS
      <4>1. PICK c \in i .. n + 1 : c = FindStartCode(d, i)
        BY <1>1, <2>1, FirstCode
      <4>2. i > n \/ c > n
        BY <2>2, <4>1, Zenon
      <4>3. c <= j
        BY <2>1, <4>1, FirstCode
      <4> QED BY <1>1, <2>1, <4>1, <4>2, <4>3
    <3>3. From(d, i) = {}
      BY <2>1, <3>2, NoneLeft
    <3>4. Cardinality({}) = 0 /\ Len(<<>>) = 0 /\ <<>> \in Seq(Seq(0 .. 255))
      BY FS_EmptySet
    <3>5. AreUnitsOf(<<>>, d, {})
      BY <3>4 DEF AreUnitsOf
    <3> QED BY <3>1, <3>3, <3>5
  <2>3. CASE ~Stops(i)
    <3>1. PICK c : c = FindStartCode(d, i)
      OBVIOUS
    <3>2. PICK k : k = F(i)
      OBVIOUS
    <3>3. PICK g : g = G(i)
      OBVIOUS
    <3>4. /\ i \in 1 .. n /\ c \in i .. n /\ CodeAt(d, c) /\ (\A j \in i .. n : CodeAt(d, j) => c <= j)
          /\ k \in 1 .. n + 1 /\ k > i /\ g \in k .. n + 1 /\ g \in D /\ (g <= n => CodeAt(d, g))
          /\ \A j \in k .. n : CodeAt(d, j) => g <= j
      <4>0. i \in 1 .. n + 1
        BY <1>1, <2>1
      <4> HIDE DEF Stops
      <4> QED BY <1>2, <2>3, <3>1, <3>2, <3>3, <4>0 DEF D
    <3>5. k = c + CodeLength(d, c)
      BY <3>1, <3>2 DEF F
    <3>6. /\ \A s \in From(d, g) : k < s[1]
          /\ k < g => (<<k, g - 1>> \in From(d, i) /\ From(d, i) = {<<k, g - 1>>} \cup From(d, g))
          /\ k = g => From(d, i) = From(d, g)
      <4>1. /\ i \in 1 .. Len(d) /\ c \in i .. Len(d) /\ CodeAt(d, c)
            /\ \A j \in i .. Len(d) : CodeAt(d, j) => c <= j
            /\ k \in 1 .. Len(d) + 1 /\ g \in k .. Len(d) + 1 /\ (g <= Len(d) => CodeAt(d, g))
            /\ \A j \in k .. Len(d) : CodeAt(d, j) => g <= j
        BY <1>1, <3>4
      <4> QED BY <3>5, <4>1, FirstSpan
    <3>7. h[i] = Unit(i) \o h[g]
      <4> HIDE DEF Stops, Unit
      <4> QED BY <1>11, <2>3, <3>3 DEF E
    <3>8. AreUnitsOf(h[g], d, From(d, g))
      <4>1. size[g] = n + 1 - g /\ size[i] = n + 1 - i
        BY <3>4 DEF size
      <4>2. n + 1 - g < n + 1 - i
        BY <3>4
      <4> QED BY <1>12, <3>4, <4>1, <4>2
    <3>9. CASE k < g
      <4>1. Unit(i) = <<SubSeq(d, k, g - 1)>>
        BY <3>2, <3>3, <3>4, <3>9
      <4>2. PICK s : s = <<k, g - 1>>
        OBVIOUS
      <4>3. s[1] = k /\ s[2] = g - 1 /\ s \in Spans(d) /\ From(d, i) = {s} \cup From(d, g)
        BY <3>6, <3>9, <4>2 DEF From
      <4>4. From(d, g) \in SUBSET Spans(d) /\ \A r \in From(d, g) : s[1] < r[1]
        BY <3>6, <4>3 DEF From
      <4>5. PICK u : u = SubSeq(d, s[1], s[2])
        OBVIOUS
      <4>6. AreUnitsOf(With(u, h[g]), d, {s} \cup From(d, g))
        BY <3>8, <4>3, <4>4, <4>5, OneMoreUnit
      <4> QED BY <3>7, <4>1, <4>3, <4>5, <4>6 DEF With
    <3>10. CASE ~(k < g)
      <4>1. k = g
        BY <3>4, <3>10
      <4>2. Unit(i) = <<>>
        BY <3>2, <3>3, <3>4, <3>10
      <4>3. h[g] \in Seq(Seq(0 .. 255))
        BY <3>8 DEF AreUnitsOf
      <4>4. \A U : \A v \in Seq(U) : <<>> \o v = v
        OBVIOUS
      <4>5. h[i] = h[g]
        BY <3>7, <4>2, <4>3, <4>4
      <4> QED BY <3>6, <3>8, <4>1, <4>5
    <3> QED BY <3>9, <3>10
  <2> QED BY <2>2, <2>3
<1>13. 1 \in T
  <2>1. 1 \in D
    BY <1>1 DEF D
  <2>2. \A i \in D : i \in T
    <3> HIDE DEF T
    <3>1. size \in [D -> Nat]
      BY <1>4
    <3>2. \A i \in D : (\A j \in D : size[j] < size[i] => j \in T) => i \in T
      BY <1>12
    <3> QED BY <3>1, <3>2, SizeInduction
  <2> QED BY <2>1, <2>2
<1>14. From(d, 1) = Spans(d)
  <2> SUFFICES ASSUME NEW s \in Spans(d) PROVE s \in From(d, 1)
    BY DEF From
  <2>1. PICK a \in 1 .. n, b \in 1 .. n : s = <<a, b>>
    BY <1>1, SpanShape
  <2>2. a > 3
    BY <1>1, <2>1, SpanIs
  <2> QED BY <2>1, <2>2 DEF From
<1>15. AreUnitsOf(UnitsFrom(d), d, Spans(d))
  BY <1>8, <1>13, <1>14
<1> QED BY <1>15 DEF AreUnitsOf, AreUnits

\* A packet that is taken apart is given back.
LEMMA ParsesKeeps ==
  ASSUME MediaInv, Parses
  PROVE  MediaInv'
<1> DEFINE n == Len(buf)
           h == reader.packet
           all == Refs(h)
           us == ParseNALUnits(h)
           e == [id |-> reader.id, units |-> us]
           away == Fresh("packet", NoImage)
<1>1. /\ reader.pc = "parsing" /\ got' = Append(got, e) /\ buf' = Unref(buf, all) /\ reader' = Away
      /\ UNCHANGED <<obj, queue, pushed, dropped>>
  BY DEF Parses
<1>2. /\ Typed /\ n \in Nat /\ buf \in Seq(Buffer) /\ queue \in Seq(Item(n))
      /\ got \in Seq([id : Nat, units : Seq(Seq(0 .. 255))]) /\ dropped \subseteq Nat
      /\ reader \in [pc : Pcs, id : Nat, packet : Packet(n)]
  BY DEF MediaInv, Typed, Pcs
<1>3. h \in Packet(n) /\ reader.id \in Nat
  BY <1>2
<1>4. h \in Holder(1, n)
  BY <1>2, <1>3, PacketIsHolder
<1>5. Data(buf, h) \in Seq(0 .. 255)
  BY <1>2, <1>3, DataType
<1>6. us \in Seq(Seq(0 .. 255)) /\ AreUnits(us, Data(buf, h))
  <2>1. CASE h.wrap = <<>>
    <3>1. us = <<>> /\ Data(buf, h) = <<>>
      BY <2>1 DEF ParseNALUnits, Data
    <3>2. Spans(<<>>) = {}
      <4>1. DOMAIN <<>> = {}
        OBVIOUS
      <4> QED BY <4>1 DEF Spans
    <3>3. Cardinality({}) = 0 /\ Len(<<>>) = 0 /\ <<>> \in Seq(Seq(0 .. 255))
      BY FS_EmptySet
    <3>4. AreUnits(<<>>, <<>>)
      BY <3>2, <3>3 DEF AreUnits
    <3> QED BY <3>1, <3>3, <3>4
  <2>2. CASE h.wrap # <<>>
    <3>1. us = UnitsFrom(Data(buf, h))
      BY <2>2 DEF ParseNALUnits, Data
    <3> QED BY <1>5, <3>1, UnitsCorrect
  <2> QED BY <2>1, <2>2
<1>7. pushed[reader.id] = Data(buf, h)
  BY <1>1 DEF MediaInv, Held
<1> HIDE DEF n, us
<1>8. e \in [id : Nat, units : Seq(Seq(0 .. 255))] /\ e.id = reader.id /\ e.units = us
  BY <1>3, <1>6
<1> HIDE DEF e
<1>9. /\ got' \in Seq([id : Nat, units : Seq(Seq(0 .. 255))]) /\ Len(got) \in Nat
      /\ DOMAIN got = 1 .. Len(got) /\ DOMAIN got' = 1 .. Len(got) + 1
      /\ \A i \in DOMAIN got : i \in DOMAIN got' /\ got'[i] = got[i]
      /\ got'[Len(got) + 1] = e
      /\ \A i \in DOMAIN got' : i \in DOMAIN got \/ i = Len(got) + 1
  BY <1>1, <1>2, <1>8
<1>10. all \in Seq(0 .. n)
  BY <1>2, <1>4, HolderShape
<1> HIDE DEF all
<1>11. /\ buf' \in Seq(Buffer) /\ Len(buf') = n
       /\ \A b \in 1 .. n : buf'[b].data = buf[b].data /\ buf'[b].refs = buf[b].refs - Times(b, all)
  <2>1. /\ Unref(buf, all) \in Seq(Buffer) /\ Len(Unref(buf, all)) = n
        /\ \A b \in 1 .. n : /\ Unref(buf, all)[b].data = buf[b].data
                             /\ Unref(buf, all)[b].refs = buf[b].refs - Times(b, all)
    BY <1>2, <1>10, RefShape DEF n
  <2>2. buf' = Unref(buf, all)
    BY <1>1
  <2> QED BY <2>1, <2>2
<1>12. away \in Packet(n) /\ \A b \in Nat \ {0} : Times(b, Refs(away)) = 0
  BY <1>2, FreshPacket
<1> HIDE DEF away
<1>13. /\ reader' \in [pc : Pcs, id : Nat, packet : Packet(n)]
       /\ reader'.pc = "idle" /\ reader'.packet = away
  BY <1>1, <1>12 DEF Away, Pcs, away
<1>14. Typed'
  <2>1. queue' \in Seq(Item(Len(buf))) /\ reader' \in [pc : Pcs, id : Nat, packet : Packet(Len(buf))]
        /\ buf' \in Seq(Buffer) /\ Len(buf') = Len(buf)
    BY <1>1, <1>2, <1>11, <1>13 DEF n
  <2> QED BY <1>1, <1>2, <1>9, <2>1, StillTyped
<1>15. References'
  <2> SUFFICES ASSUME NEW x \in DOMAIN obj \cap DOMAIN Cpp, NEW b \in DOMAIN buf
               PROVE  buf'[b].refs >= Times(b, Refs(obj[x])) + Times(b, Refs(obj[Cpp[x]]))
                         + Times(b, Refs(away)) + Times(b, Queued(queue))
    <3>1. References' = \A x \in DOMAIN obj' \cap DOMAIN Cpp, b \in DOMAIN buf' :
              buf'[b].refs >= Times(b, Refs(obj'[x])) + Times(b, Refs(obj'[Cpp[x]]))
                               + Times(b, Refs(reader'.packet)) + Times(b, Queued(queue'))
      BY DEF References
    <3>2. DOMAIN buf' = DOMAIN buf
      BY <1>2, <1>11 DEF n
    <3> QED BY <1>1, <1>13, <3>1, <3>2, Zenon
  <2>1. buf[b].refs >= Times(b, Refs(obj[x])) + Times(b, Refs(obj[Cpp[x]]))
                         + Times(b, all) + Times(b, Queued(queue))
    BY DEF MediaInv, References, all
  <2>2. x \in DOMAIN obj /\ Cpp[x] \in DOMAIN obj /\ b \in 1 .. n
    <3>1. x \in DOMAIN obj /\ x \in DOMAIN Cpp
      OBVIOUS
    <3>2. DOMAIN obj = {x, Cpp[x]}
      BY <1>2, <3>1, WorkShape
    <3>3. b \in 1 .. n
      BY <1>2 DEF n
    <3> QED BY <3>1, <3>2, <3>3
  <2>3. PICK q \in Int, o \in Nat, s \in Nat, r \in Nat, w \in Nat :
           /\ q = buf[b].refs /\ o = Times(b, Refs(obj[x])) /\ s = Times(b, Refs(obj[Cpp[x]]))
           /\ r = Times(b, all) /\ w = Times(b, Queued(queue))
    BY <1>2, <2>2, Counts DEF all
  <2>4. q >= o + s + r + w
    BY <2>1, <2>3, Zenon
  <2>5. q - r >= o + s + 0 + w
    BY <2>4
  <2>6. buf'[b].refs = q - r
    BY <1>11, <2>2, <2>3, Zenon
  <2>7. Times(b, Refs(away)) = 0
    BY <1>2, <1>12, Counts
  <2> QED BY <2>3, <2>5, <2>6, <2>7, Zenon
<1>16. Held'
  <2>1. \A p \in Packet(n) : Data(buf', p) = Data(buf, p)
    BY <1>2, <1>11, DataKept
  <2>2. \A i \in DOMAIN queue : queue[i].packet \in Packet(n)
    <3> SUFFICES ASSUME NEW i \in DOMAIN queue PROVE queue[i].packet \in Packet(n)
      OBVIOUS
    <3>1. queue[i] \in Item(n)
      BY <1>2
    <3> QED BY <3>1 DEF Item
  <2>3. \A i \in DOMAIN queue : pushed[queue[i].id] = Data(buf', queue[i].packet)
    BY <2>1, <2>2 DEF MediaInv, Held
  <2> QED BY <1>1, <1>13, <2>3 DEF Held, Data
<1>17. Numbered'
  <2>1. {got'[i].id : i \in DOMAIN got'} = {got[i].id : i \in DOMAIN got} \cup {reader.id}
    <3>1. \A i \in DOMAIN got' : got'[i].id \in {got[j].id : j \in DOMAIN got} \cup {reader.id}
      BY <1>8, <1>9
    <3>2. \A i \in DOMAIN got : got[i].id \in {got'[j].id : j \in DOMAIN got'}
      BY <1>9
    <3>3. Len(got) + 1 \in DOMAIN got' /\ got'[Len(got) + 1].id = reader.id
      BY <1>8, <1>9
    <3>4. reader.id \in {got'[j].id : j \in DOMAIN got'}
      BY <3>3
    <3> QED BY <3>1, <3>2, <3>4
  <2>2. Seen' = Seen
    BY <1>1, <1>13, <2>1 DEF Seen
  <2>3. \A i, j \in DOMAIN got' : i < j => got'[i].id < got'[j].id
    <3> SUFFICES ASSUME NEW i \in DOMAIN got', NEW j \in DOMAIN got', i < j PROVE got'[i].id < got'[j].id
      OBVIOUS
    <3>1. i \in DOMAIN got
      BY <1>9
    <3>2. CASE j \in DOMAIN got
      BY <1>9, <3>1, <3>2 DEF MediaInv, Numbered
    <3>3. CASE j = Len(got) + 1
      BY <1>1, <1>8, <1>9, <3>1, <3>3 DEF MediaInv, Numbered
    <3> QED BY <1>9, <3>2, <3>3
  <2>4. \A i \in DOMAIN got', j \in DOMAIN queue : got'[i].id < queue[j].id
    BY <1>1, <1>8, <1>9 DEF MediaInv, Numbered
  <2> QED BY <1>1, <1>13, <2>2, <2>3, <2>4 DEF MediaInv, Numbered
<1>18. Parsed'
  <2>1. \A i \in DOMAIN got' : AreUnits(got'[i].units, pushed[got'[i].id])
    <3> SUFFICES ASSUME NEW i \in DOMAIN got' PROVE AreUnits(got'[i].units, pushed[got'[i].id])
      OBVIOUS
    <3>1. CASE i \in DOMAIN got
      BY <1>9, <3>1 DEF MediaInv, Parsed
    <3>2. CASE i = Len(got) + 1
      BY <1>6, <1>7, <1>8, <1>9, <3>2
    <3> QED BY <1>9, <3>1, <3>2
  <2> QED BY <1>1, <2>1 DEF Parsed
<1> QED BY <1>14, <1>15, <1>16, <1>17, <1>18 DEF MediaInv

\* Every step of the application's thread and of the reader.
LEMMA AppKeeps ==
  ASSUME MediaInv, AppStep
  PROVE  MediaInv'
<1>1. reader \in [pc : Pcs, id : Nat, packet : Packet(Len(buf))] /\ reader.pc \in Pcs
  BY DEF MediaInv, Typed, Pcs
<1>2. CASE PushPacket
  BY <1>2, PushKeeps
<1>3. CASE OpenClears \/ Close \/ Reset
  BY <1>3, ClearsKeeps DEF OpenClears, Close, Reset
<1>4. CASE (\E n \in Limits : SetMaxQueueSize(n)) \/ Open \/ CloseResets \/ SetEndOfStream \/ MoveAssign
  <2>1. UNCHANGED <<buf, obj, queue, pushed, got, dropped>> /\ reader' = reader
    BY <1>4 DEF SetMaxQueueSize, Open, CloseResets, SetEndOfStream, MoveAssign
  <2>2. reader' = [reader EXCEPT !.pc = reader.pc]
    BY <1>1, <2>1
  <2> QED BY <1>1, <2>1, <2>2, QuietKeeps
<1>5. CASE EndNotifies
  <2>1. UNCHANGED <<buf, obj, queue, pushed, got, dropped>> /\ reader' = Notified
    BY <1>5 DEF EndNotifies
  <2>2. PICK pc \in Pcs : /\ pc = (IF reader.pc = "waiting" THEN "woken" ELSE reader.pc)
                          /\ (pc = "parsing" <=> reader.pc = "parsing")
    BY <1>1 DEF Pcs
  <2>3. reader' = [reader EXCEPT !.pc = pc]
    BY <2>1, <2>2 DEF Notified, Woken
  <2> QED BY <2>1, <2>2, <2>3, QuietKeeps
<1> QED BY <1>2, <1>3, <1>4, <1>5 DEF AppStep

\* Every step of the reader.
LEMMA ReaderKeeps ==
  ASSUME MediaInv, ReaderStep
  PROVE  MediaInv'
<1>1. reader \in [pc : Pcs, id : Nat, packet : Packet(Len(buf))] /\ reader.pc \in Pcs
  BY DEF MediaInv, Typed, Pcs
<1>2. CASE Parses
  BY <1>2, ParsesKeeps
<1>3. CASE ReadNextFrame \/ Sleeps
  <2>1. PICK pc \in Pcs : reader' = [reader EXCEPT !.pc = pc] /\ pc # "parsing" /\ reader.pc # "parsing"
    BY <1>3 DEF ReadNextFrame, Sleeps, Pcs
  <2>2. UNCHANGED <<buf, obj, queue, pushed, got, dropped>>
    BY <1>3 DEF ReadNextFrame, Sleeps
  <2> QED BY <2>1, <2>2, QuietKeeps
<1>4. CASE TryReadNextFrame
  BY <1>4, TakesKeeps DEF TryReadNextFrame
<1>5. CASE Tests
  <2>1. reader.pc # "parsing" /\ UNCHANGED <<buf, obj, pushed, got, dropped>>
    BY <1>5 DEF Tests
  <2>2. CASE queue # <<>>
    BY <1>5, <2>1, <2>2, TakesKeeps DEF Tests
  <2>3. CASE queue = <<>>
    <3>1. PICK pc \in Pcs : reader' = [reader EXCEPT !.pc = pc] /\ pc # "parsing"
      BY <1>5, <2>3 DEF Tests, Pcs
    <3>2. UNCHANGED queue
      BY <1>5, <2>3 DEF Tests
    <3> QED BY <2>1, <3>1, <3>2, QuietKeeps
  <2> QED BY <2>2, <2>3
<1> QED BY <1>2, <1>3, <1>4, <1>5 DEF ReaderStep

\* Nothing is shared at first.
LEMMA MediaStarts ==
  ASSUME Init
  PROVE  MediaInv
<1> DEFINE e == <<>>
<1>1. PICK w \in Works : obj = [x \in w |-> Fresh(x, NoImage)]
  BY DEF Init
<1>2. w = {"packet", "c_packet"} \/ w = {"frame", "c_frame"}
  BY <1>1 DEF Works
<1>3. buf = e /\ queue = e /\ reader = Away /\ pushed = e /\ got = e /\ dropped = {}
  BY DEF Init
<1>4. /\ Len(e) = 0 /\ DOMAIN e = {} /\ \A S : e \in Seq(S)
  OBVIOUS
<1> HIDE DEF e
<1>5. 0 \in Nat /\ Len(buf) = 0
  BY <1>3, <1>4
<1>6. Fresh("packet", NoImage) \in Packet(0)
  BY <1>5, FreshPacket
<1>7. Away = [pc |-> "idle", id |-> 0, packet |-> Fresh("packet", NoImage)]
  BY DEF Away
<1>8. \A x \in {"packet", "frame", "c_packet", "c_frame"} : Fresh(x, NoImage) \in ObjectOf(x, 0)
  <2> SUFFICES ASSUME NEW x \in {"packet", "frame", "c_packet", "c_frame"} PROVE Fresh(x, NoImage) \in ObjectOf(x, 0)
    OBVIOUS
  <2>1. CASE x = "packet"
    BY <1>6, <2>1 DEF ObjectOf
  <2>2. CASE x # "packet"
    <3> DEFINE k == Slots(x)
               z == [i \in 1 .. k |-> 0]
               p == IF k = 1 THEN 1 ELSE 0
    <3>1. k \in {1, 4}
      BY DEF Slots
    <3>2. Fresh(x, NoImage) = [own |-> z, wrap |-> <<>>, planes |-> p, image |-> NoImage]
      BY DEF Fresh, Blank
    <3> HIDE DEF k
    <3>3. z \in [1 .. k -> 0 .. 0] /\ p \in 0 .. k /\ NoImage \in Image /\ <<>> \in Seq(0 .. 0)
      BY <3>1 DEF Image
    <3> HIDE DEF z, p
    <3>4. Fresh(x, NoImage) \in Holder(k, 0)
      BY <3>2, <3>3 DEF Holder
    <3> QED BY <2>2, <3>4 DEF ObjectOf, k
  <2> QED BY <2>1, <2>2
<1>9. Typed
  <2>1. \A x \in DOMAIN obj : obj[x] \in ObjectOf(x, Len(buf))
    BY <1>1, <1>2, <1>5, <1>8
  <2>2. \E v \in DOMAIN Cpp : DOMAIN obj = {v, Cpp[v]}
    BY <1>1, <1>2 DEF Cpp
  <2>3. obj = [x \in DOMAIN obj |-> obj[x]]
    BY <1>1
  <2>4. reader \in [pc : {"idle", "woken", "tested", "waiting", "parsing"}, id : Nat, packet : Packet(Len(buf))]
    BY <1>3, <1>5, <1>6, <1>7
  <2> QED BY <1>3, <1>4, <2>1, <2>2, <2>3, <2>4 DEF Typed
<1>10. References /\ Held /\ Numbered /\ Parsed
  <2>1. reader.pc = "idle"
    BY <1>3, <1>7
  <2>2. Seen = {}
    BY <1>3, <1>4, <2>1 DEF Seen
  <2> QED BY <1>3, <1>4, <2>1, <2>2 DEF References, Held, Numbered, Parsed
<1> QED BY <1>9, <1>10 DEF MediaInv

\* Every step.
LEMMA MediaNext ==
  ASSUME MediaInv, [Next]_vars
  PROVE  MediaInv'
<1>1. CASE UNCHANGED vars
  <2>1. reader \in [pc : Pcs, id : Nat, packet : Packet(Len(buf))] /\ reader.pc \in Pcs
    BY DEF MediaInv, Typed, Pcs
  <2>2. UNCHANGED <<buf, obj, queue, pushed, got, dropped>> /\ reader' = [reader EXCEPT !.pc = reader.pc]
    BY <1>1, <2>1 DEF vars
  <2> QED BY <2>1, <2>2, QuietKeeps
<1> QED BY <1>1, ObjectsKeep, AppKeeps, ReaderKeeps DEF Next

\* Everything that refers to a buffer has a reference of its own: of every
\* application, with whatever packets, frames and number of buffers.
THEOREM MediaInvariant == Spec => []MediaInv
<1>1. Init => MediaInv
  BY MediaStarts
<1>2. MediaInv /\ [Next]_vars => MediaInv'
  BY MediaNext
<1> QED BY <1>1, <1>2, PTL DEF Spec

\* No buffer is released while a struct, an adapter, the queue or the reader has it.
THEOREM ReferencesHold == Spec => []References
<1>1. MediaInv => References
  BY DEF MediaInv
<1> QED BY <1>1, MediaInvariant, PTL

\* The numbers in the order in which packets are read, the way the property has them.
LEMMA InOrder ==
  ASSUME MediaInv
  PROVE  FramesInOrder
<1> DEFINE g == [i \in DOMAIN got |-> got[i].id]
           r == IF reader.pc = "parsing" THEN <<reader.id>> ELSE <<>>
           q == [i \in DOMAIN queue |-> queue[i].id]
           ids == g \o r \o q
<1>1. /\ got \in Seq([id : Nat, units : Seq(Seq(0 .. 255))]) /\ queue \in Seq(Item(Len(buf)))
      /\ reader.id \in Nat
  BY DEF MediaInv, Typed
<1>2. PICK a \in Nat, c \in Nat : a = Len(got) /\ c = Len(queue)
  BY <1>1
<1>3. DOMAIN got = 1 .. a /\ DOMAIN queue = 1 .. c
  BY <1>1, <1>2
<1>4. g \in Seq(Nat) /\ Len(g) = a /\ \A i \in 1 .. a : g[i] = got[i].id /\ got[i].id \in Nat
  <2>1. \A i \in 1 .. a : got[i].id \in Nat
    <3>1. PICK S : S = [id : Nat, units : Seq(Seq(0 .. 255))]
      OBVIOUS
    <3>2. got \in Seq(S) /\ \A e \in S : e.id \in Nat
      BY <1>1, <3>1
    <3>3. \A i \in 1 .. a : got[i] \in S
      BY <1>2, <3>2, ElementOfSeq
    <3> QED BY <3>2, <3>3
  <2> QED BY <1>3, <2>1
<1>5. q \in Seq(Nat) /\ Len(q) = c /\ \A i \in 1 .. c : q[i] = queue[i].id /\ queue[i].id \in Nat
  <2>1. \A i \in 1 .. c : queue[i].id \in Nat
    <3>1. \A i \in 1 .. c : queue[i] \in Item(Len(buf))
      BY <1>1, <1>3
    <3> QED BY <3>1 DEF Item
  <2> QED BY <1>3, <2>1
<1>6. PICK b \in {0, 1} : b = IF reader.pc = "parsing" THEN 1 ELSE 0
  OBVIOUS
<1>7. r \in Seq(Nat) /\ Len(r) = b /\ \A i \in 1 .. b : reader.pc = "parsing" /\ r[i] = reader.id
  BY <1>1, <1>6
<1> HIDE DEF g, r, q
<1>8. /\ ids \in Seq(Nat) /\ Len(ids) = a + b + c
      /\ \A i \in 1 .. a : ids[i] = g[i]
      /\ \A i \in a + 1 .. a + b : ids[i] = r[i - a]
      /\ \A i \in a + b + 1 .. a + b + c : ids[i] = q[i - (a + b)]
  <2>1. PICK p : p = g \o r
    OBVIOUS
  <2>2. p \in Seq(Nat) /\ Len(p) = a + b /\ (\A i \in 1 .. a : p[i] = g[i]) /\ \A i \in a + 1 .. a + b : p[i] = r[i - a]
    BY <1>4, <1>7, <2>1
  <2>3. ids = p \o q
    BY <2>1
  <2> HIDE DEF ids
  <2>9. PICK l \in Nat : l = a + b
    BY <1>2, <1>6
  <2>4. ids \in Seq(Nat) /\ Len(ids) = l + c /\ (\A i \in 1 .. l : ids[i] = p[i])
        /\ \A i \in l + 1 .. l + c : ids[i] = q[i - l]
    <3>1. p \in Seq(Nat) /\ Len(p) = l
      BY <2>2, <2>9
    <3>2. ids \in Seq(Nat)
      BY <1>5, <2>3, <3>1
    <3>3. Len(ids) = l + c
      BY <1>5, <2>3, <3>1
    <3>4. \A i \in 1 .. l : ids[i] = p[i]
      BY <1>5, <2>3, <3>1
    <3>5. \A i \in l + 1 .. l + c : ids[i] = q[i - l]
      BY <1>5, <2>3, <3>1
    <3> QED BY <3>2, <3>3, <3>4, <3>5
  <2>5. \A i \in 1 .. a : i \in 1 .. a + b
    BY <1>2, <1>6
  <2>6. \A i \in a + 1 .. a + b : i \in 1 .. a + b
    BY <1>2, <1>6
  <2> QED BY <2>2, <2>4, <2>5, <2>6, <2>9
<1> HIDE DEF ids
<1>9. DOMAIN ids = 1 .. a + b + c
  BY <1>8
<1>10. ASSUME NEW i \in 1 .. a + b + c
       PROVE  \/ i \in 1 .. a /\ ids[i] = got[i].id
              \/ i \in a + 1 .. a + b /\ reader.pc = "parsing" /\ b = 1 /\ i = a + 1 /\ ids[i] = reader.id
              \/ i \in a + b + 1 .. a + b + c /\ i - (a + b) \in 1 .. c /\ ids[i] = queue[i - (a + b)].id
  <2>1. CASE i \in 1 .. a
    BY <1>4, <1>8, <2>1
  <2>2. CASE i \in a + 1 .. a + b
    <3>1. i - a \in 1 .. b /\ i = a + 1 /\ b = 1
      BY <1>2, <1>6, <2>2
    <3>2. ids[i] = r[i - a]
      BY <1>8, <2>2
    <3> QED BY <1>7, <2>2, <3>1, <3>2
  <2>3. CASE i \in a + b + 1 .. a + b + c
    <3>1. i - (a + b) \in 1 .. c
      BY <1>2, <1>6, <2>3
    <3>2. ids[i] = q[i - (a + b)]
      BY <1>8, <2>3
    <3> QED BY <1>5, <2>3, <3>1, <3>2
  <2> QED BY <1>2, <1>6, <2>1, <2>2, <2>3
<1>11. \A i \in DOMAIN ids : \A j \in DOMAIN ids : i < j => ids[i] < ids[j]
  <2> SUFFICES ASSUME NEW i \in 1 .. a + b + c, NEW j \in 1 .. a + b + c, i < j PROVE ids[i] < ids[j]
    BY <1>9
  <2>1. CASE i \in 1 .. a /\ ids[i] = got[i].id
    <3>1. CASE j \in 1 .. a /\ ids[j] = got[j].id
      BY <1>3, <2>1, <3>1 DEF MediaInv, Numbered
    <3>2. CASE reader.pc = "parsing" /\ ids[j] = reader.id
      BY <1>3, <2>1, <3>2 DEF MediaInv, Numbered
    <3>3. CASE j - (a + b) \in 1 .. c /\ ids[j] = queue[j - (a + b)].id
      BY <1>3, <2>1, <3>3 DEF MediaInv, Numbered
    <3> QED BY <1>10, <3>1, <3>2, <3>3
  <2>2. CASE reader.pc = "parsing" /\ b = 1 /\ i = a + 1 /\ ids[i] = reader.id
    <3>1. j - (a + b) \in 1 .. c /\ ids[j] = queue[j - (a + b)].id
      BY <1>2, <1>10, <2>2
    <3> QED BY <1>3, <2>2, <3>1 DEF MediaInv, Numbered
  <2>3. CASE i \in a + b + 1 .. a + b + c /\ i - (a + b) \in 1 .. c /\ ids[i] = queue[i - (a + b)].id
    <3>1. j - (a + b) \in 1 .. c /\ ids[j] = queue[j - (a + b)].id
      <4>1. ~(j \in 1 .. a) /\ ~(j \in a + 1 .. a + b)
        BY <1>2, <1>6, <2>3
      <4> QED BY <1>10, <4>1
    <3>2. i - (a + b) < j - (a + b)
      BY <1>2, <1>6, <2>3
    <3> QED BY <1>3, <2>3, <3>1, <3>2 DEF MediaInv, Numbered
  <2> QED BY <1>10, <2>1, <2>2, <2>3
<1>12. Range(ids) = Seen
  <2>1. \A i \in 1 .. a + b + c : ids[i] \in Seen
    BY <1>3, <1>10 DEF Seen
  <2>2. \A i \in 1 .. a : got[i].id \in Range(ids)
    <3> SUFFICES ASSUME NEW i \in 1 .. a PROVE got[i].id \in Range(ids)
      OBVIOUS
    <3>1. i \in DOMAIN ids /\ ids[i] = got[i].id
      BY <1>2, <1>4, <1>6, <1>8, <1>9
    <3> QED BY <3>1 DEF Range
  <2>3. reader.pc = "parsing" => reader.id \in Range(ids)
    <3> SUFFICES ASSUME reader.pc = "parsing" PROVE reader.id \in Range(ids)
      OBVIOUS
    <3>1. b = 1 /\ a + 1 \in a + 1 .. a + b /\ a + 1 \in DOMAIN ids /\ (a + 1) - a = 1 /\ 1 \in 1 .. b
      BY <1>2, <1>6, <1>9
    <3>2. ids[a + 1] = reader.id
      BY <1>7, <1>8, <3>1
    <3> QED BY <3>1, <3>2 DEF Range
  <2>4. \A i \in 1 .. c : queue[i].id \in Range(ids)
    <3> SUFFICES ASSUME NEW i \in 1 .. c PROVE queue[i].id \in Range(ids)
      OBVIOUS
    <3>1. PICK j : j = a + b + i
      OBVIOUS
    <3>2. j \in a + b + 1 .. a + b + c /\ j \in DOMAIN ids /\ j - (a + b) = i
      BY <1>2, <1>6, <1>9, <3>1
    <3>3. ids[j] = queue[i].id
      BY <1>5, <1>8, <3>2
    <3> QED BY <3>2, <3>3 DEF Range
  <2>5. \A v \in Range(ids) : v \in Seen
    BY <1>9, <2>1 DEF Range
  <2>6. \A v \in Seen : v \in Range(ids)
    BY <1>3, <2>2, <2>3, <2>4 DEF Seen
  <2> QED BY <2>5, <2>6
<1>13. Range(ids) \cup dropped = DOMAIN pushed /\ Range(ids) \cap dropped = {}
  BY <1>12 DEF MediaInv, Numbered
<1>14. \A i \in DOMAIN got : AreUnits(got[i].units, pushed[got[i].id])
  BY DEF MediaInv, Parsed
<1> QED BY <1>11, <1>13, <1>14, Zenon DEF FramesInOrder, ids, g, r, q

\* Packets come out in the order they went in, none skipped but by a clearing of
\* the queue, each as the bytes between its start codes.
THEOREM FramesInOrderHolds == Spec => []FramesInOrder
<1>1. MediaInv => FramesInOrder
  BY InOrder
<1> QED BY <1>1, MediaInvariant, PTL
===============================================================================
