-------------------------- MODULE SerialPorts_proofs --------------------------
(***************************************************************************)
(* Proofs about SerialPorts, for any callers, names and streams, and any   *)
(* length field:                                                           *)
(*   - the framing protocols as rounds that take a frame off the front of  *)
(*     a buffer, and FramingJoins: cutting a stream in two does not change *)
(*     its frames.  The recursive functions are handled by induction over  *)
(*     the length of the buffer, which rests on the well-foundedness of <; *)
(*   - PortsInvariant, the inductive invariant: types, mutual exclusion by *)
(*     mutex_, what the Open that waits and the functions that are posted  *)
(*     know of their port, and what every port has received;               *)
(*   - OneReaderHolds and FramesExactHolds, from that invariant.           *)
(***************************************************************************)
EXTENDS SerialPorts, SequenceTheorems, WellFoundedInduction, TLAPS

-----------------------------------------------------------------------------
(* Induction over numbers                                                  *)

\* The order of the numbers is well-founded.
LEMMA LessIsWellFounded == IsWellFoundedOn({p \in Nat \X Nat : p[1] < p[2]}, Nat)
BY NatLessThanWellFounded DEF OpToRel

\* A set of numbers has a smallest one.
LEMMA Smallest ==
  ASSUME NEW T \in SUBSET Nat, T # {}
  PROVE  \E m \in T : \A n \in T : m <= n
<1> DEFINE less == {p \in Nat \X Nat : p[1] < p[2]}
<1>1. PICK m \in T : \A n \in T : <<n, m>> \notin less
  BY LessIsWellFounded, WFMin
<1>2. \A n \in T : n \in Nat /\ m \in Nat /\ ~(n < m)
  <2> SUFFICES ASSUME NEW n \in T PROVE n \in Nat /\ m \in Nat /\ ~(n < m)
    OBVIOUS
  <2>1. <<n, m>> \in Nat \X Nat /\ <<n, m>> \notin less
    BY <1>1
  <2> QED BY <2>1
<1> QED BY <1>2

\* A set that has 0, and with a number the next one, has them all.
LEMMA Induction ==
  ASSUME NEW T \in SUBSET Nat, 0 \in T, \A n \in T : n + 1 \in T
  PROVE  \A n \in Nat : n \in T
<1> SUFFICES ASSUME Nat \ T # {} PROVE FALSE
  OBVIOUS
<1>1. PICK m \in Nat \ T : \A n \in Nat \ T : m <= n
  BY Smallest
<1>2. m # 0 /\ m - 1 \in Nat /\ m - 1 \notin Nat \ T
  BY <1>1
<1>3. m - 1 \in T /\ (m - 1) + 1 = m
  BY <1>2
<1> QED BY <1>1, <1>3

\* A set that has every argument all of whose smaller ones it has, has them all.
LEMMA SizeInduction ==
  ASSUME NEW D, NEW size \in [D -> Nat], NEW T,
         \A b \in D : (\A c \in D : size[c] < size[b] => c \in T) => b \in T
  PROVE  \A b \in D : b \in T
<1> SUFFICES ASSUME NEW b \in D, b \notin T PROVE FALSE
  OBVIOUS
<1> DEFINE S == {size[c] : c \in D \ T}
<1>1. S \in SUBSET Nat /\ S # {}
  OBVIOUS
<1>2. PICK m \in S : \A n \in S : m <= n
  BY <1>1, Smallest
<1>3. PICK c \in D \ T : m = size[c]
  BY <1>2
<1>4. ASSUME NEW d \in D, size[d] < size[c], d \notin T PROVE FALSE
  <2>1. size[d] \in S
    BY <1>4
  <2>2. m <= size[d]
    BY <1>2, <2>1
  <2> QED BY <1>3, <1>4, <2>2
<1> QED BY <1>3, <1>4

\* A recursion over D with results in R: step takes an argument and the result of
\* the next, smaller, one to the result, unless the argument stops the recursion.
IsRecursion(D, R, size, stop, end, next, step) ==
    /\ size \in [D -> Nat] /\ stop \in [D -> BOOLEAN] /\ end \in [D -> R]
    /\ next \in [D -> D] /\ step \in [D -> [R -> R]]
    /\ \A b \in D : ~stop[b] => size[next[b]] < size[b]

Solution(f, D, R, stop, end, next, step) ==
    /\ f \in [D -> R]
    /\ \A b \in D : f[b] = IF stop[b] THEN end[b] ELSE step[b][f[next[b]]]

\* It has a solution.
LEMMA Recursion ==
  ASSUME NEW D, NEW R, NEW size, NEW stop, NEW end, NEW next, NEW step,
         IsRecursion(D, R, size, stop, end, next, step)
  PROVE  \E f : Solution(f, D, R, stop, end, next, step)
<1> USE DEF IsRecursion
<1> DEFINE Result(f, b) == IF stop[b] THEN end[b] ELSE step[b][f[next[b]]]
           Solves(f, n) == \A b \in D : size[b] < n => f[b] = Result(f, b)
<1>1. \A f \in [D -> R], b \in D : Result(f, b) \in R
  OBVIOUS
<1>2. \A n \in Nat : \E f \in [D -> R] : Solves(f, n)
  <2> DEFINE T == {n \in Nat : \E f \in [D -> R] : Solves(f, n)}
  <2>1. 0 \in T
    <3>1. end \in [D -> R] /\ Solves(end, 0)
      OBVIOUS
    <3> QED BY <3>1
  <2>2. ASSUME NEW n \in T PROVE n + 1 \in T
    <3>1. PICK f \in [D -> R] : Solves(f, n)
      BY <2>2
    <3> DEFINE h == [b \in D |-> IF size[b] < n THEN f[b] ELSE Result(f, b)]
    <3>2. h \in [D -> R]
      BY <1>1
    <3>3. ASSUME NEW b \in D, size[b] < n + 1 PROVE h[b] = Result(h, b)
      <4>1. h[b] = Result(f, b)
        BY <3>1
      <4>2. ~stop[b] => h[next[b]] = f[next[b]]
        BY <3>3
      <4> QED BY <4>1, <4>2
    <3> HIDE DEF h
    <3>4. Solves(h, n + 1)
      BY <3>3
    <3> QED BY <3>2, <3>4
  <2> HIDE DEF T
  <2>3. T \in SUBSET Nat
    BY DEF T
  <2>4. \A n \in Nat : n \in T
    BY <2>1, <2>2, <2>3, Induction
  <2> QED BY <2>4 DEF T
<1> DEFINE F == [n \in Nat |-> CHOOSE f \in [D -> R] : Solves(f, n)]
           h == [b \in D |-> F[size[b] + 1][b]]
<1>3. \A n \in Nat : F[n] \in [D -> R] /\ Solves(F[n], n)
  BY <1>2
<1> HIDE DEF F
<1>4. \A k \in Nat : \A b \in D : size[b] < k => \A n \in Nat : size[b] < n => F[n][b] = h[b]
  <2> DEFINE T == {k \in Nat : \A b \in D : size[b] < k => \A n \in Nat : size[b] < n => F[n][b] = h[b]}
  <2>1. 0 \in T
    OBVIOUS
  <2>2. ASSUME NEW k \in T PROVE k + 1 \in T
    <3>1. ASSUME NEW b \in D, size[b] < k + 1, NEW n \in Nat, size[b] < n PROVE F[n][b] = h[b]
      <4> DEFINE m == size[b] + 1
      <4>1. m \in Nat /\ size[b] < m
        OBVIOUS
      <4>2. h[b] = F[m][b]
        OBVIOUS
      <4>3. F[n][b] = Result(F[n], b) /\ F[m][b] = Result(F[m], b)
        BY <1>3, <3>1, <4>1
      <4>4. ~stop[b] => F[n][next[b]] = F[m][next[b]]
        <5> SUFFICES ASSUME ~stop[b] PROVE F[n][next[b]] = F[m][next[b]]
          OBVIOUS
        <5>1. next[b] \in D /\ size[next[b]] < k /\ size[next[b]] < n /\ size[next[b]] < m
          BY <3>1
        <5> HIDE DEF h, m
        <5>2. F[n][next[b]] = h[next[b]] /\ F[m][next[b]] = h[next[b]]
          BY <2>2, <4>1, <5>1
        <5> QED BY <5>2
      <4> QED BY <4>2, <4>3, <4>4
    <3> HIDE DEF h
    <3> QED BY <3>1
  <2> HIDE DEF T, h
  <2>3. T \in SUBSET Nat
    BY DEF T
  <2>4. \A n \in Nat : n \in T
    BY <2>1, <2>2, <2>3, Induction
  <2> QED BY <2>4 DEF T
<1>5. h \in [D -> R]
  BY <1>3
<1>6. ASSUME NEW b \in D PROVE h[b] = Result(h, b)
  <2> DEFINE m == size[b] + 1
  <2>1. m \in Nat /\ size[b] < m /\ h[b] = F[m][b]
    OBVIOUS
  <2> HIDE DEF m
  <2>2. F[m][b] = Result(F[m], b)
    BY <1>3, <2>1
  <2>3. ~stop[b] => F[m][next[b]] = h[next[b]]
    <3> SUFFICES ASSUME ~stop[b] PROVE F[m][next[b]] = h[next[b]]
      OBVIOUS
    <3>1. next[b] \in D /\ size[next[b]] \in Nat /\ size[next[b]] < m /\ size[next[b]] < size[next[b]] + 1
      BY <2>1
    <3> HIDE DEF h
    <3> QED BY <1>4, <2>1, <3>1
  <2> QED BY <2>1, <2>2, <2>3
<1> HIDE DEF h
<1>7. Solution(h, D, R, stop, end, next, step)
  BY <1>5, <1>6 DEF Solution
<1> QED BY <1>7

-----------------------------------------------------------------------------
(* Framing                                                                 *)

Framed == [frames : Seq(Seq(Byte)), rest : Seq(Byte), lost : BOOLEAN]

Drop(b, n) == SubSeq(b, n + 1, Len(b))

\* One round of a protocol's loop: how many bytes it takes off the front of its
\* buffer, 0 if it leaves the loop; the frame it makes of them; whether it throws
\* the buffer away.  Bytes that arrive later change none of it.
IsRound(cut, piece, lost) ==
    /\ cut \in [Seq(Byte) -> Nat] /\ piece \in [Seq(Byte) -> Seq(Byte)]
    /\ lost \in [Seq(Byte) -> BOOLEAN]
    /\ \A b \in Seq(Byte) : cut[b] <= Len(b) /\ (lost[b] => cut[b] = 0)
    /\ \A a, d \in Seq(Byte) :
         /\ cut[a] # 0 => cut[a \o d] = cut[a] /\ piece[a \o d] = piece[a]
         /\ lost[a] => lost[a \o d]

\* What the rounds make of a buffer.
Framing(f, cut, piece, lost) ==
    \A b \in Seq(Byte) :
        f[b] = IF cut[b] = 0
               THEN [frames |-> <<>>, rest |-> IF lost[b] THEN <<>> ELSE b, lost |-> lost[b]]
               ELSE [f[Drop(b, cut[b])] EXCEPT !.frames = <<piece[b]>> \o @]

\* The frame that was cut off first goes before the others.
LEMMA Prepend ==
  ASSUME NEW r \in Framed, NEW frame \in Seq(Byte)
  PROVE  /\ [r EXCEPT !.frames = <<frame>> \o @] \in Framed
         /\ [r EXCEPT !.frames = <<frame>> \o @]
              = [frames |-> <<frame>> \o r.frames, rest |-> r.rest, lost |-> r.lost]
<1> DEFINE fs == <<frame>> \o r.frames
<1>1. fs \in Seq(Seq(Byte))
  BY DEF Framed
<1> HIDE DEF fs
<1>2. [r EXCEPT !.frames = fs] = [frames |-> fs, rest |-> r.rest, lost |-> r.lost]
  BY DEF Framed
<1>3. r.rest \in Seq(Byte) /\ r.lost \in BOOLEAN
  BY DEF Framed
<1>4. [frames |-> fs, rest |-> r.rest, lost |-> r.lost] \in Framed
  BY <1>1, <1>3 DEF Framed
<1> QED BY <1>2, <1>4 DEF fs

\* A round that takes bytes leaves fewer.
LEMMA DropShorter ==
  ASSUME NEW b \in Seq(Byte), NEW n \in Nat, n <= Len(b)
  PROVE  /\ Drop(b, n) \in Seq(Byte) /\ Len(Drop(b, n)) = Len(b) - n
         /\ \A k \in 1 .. Len(b) - n : Drop(b, n)[k] = b[n + k]
BY DEF Drop

\* The rounds end: there is such a framing.
LEMMA FramingExists ==
  ASSUME NEW cut, NEW piece, NEW lost, IsRound(cut, piece, lost)
  PROVE  \E f : Framing(f, cut, piece, lost) /\ f \in [Seq(Byte) -> Framed]
<1> DEFINE D == Seq(Byte)
           size == [b \in D |-> Len(b)]
           stop == [b \in D |-> cut[b] = 0]
           end == [b \in D |-> [frames |-> <<>>, rest |-> IF lost[b] THEN <<>> ELSE b, lost |-> lost[b]]]
           next == [b \in D |-> Drop(b, cut[b])]
           step == [b \in D |-> [r \in Framed |-> [r EXCEPT !.frames = <<piece[b]>> \o @]]]
<1>1. size \in [D -> Nat] /\ stop \in [D -> BOOLEAN]
  OBVIOUS
<1>2. end \in [D -> Framed]
  BY DEF Framed, IsRound
<1>3. next \in [D -> D] /\ \A b \in D : ~stop[b] => size[next[b]] < size[b]
  <2> SUFFICES ASSUME NEW b \in D
               PROVE  Drop(b, cut[b]) \in D /\ (cut[b] # 0 => Len(Drop(b, cut[b])) < Len(b))
    OBVIOUS
  <2>1. cut[b] \in Nat /\ cut[b] <= Len(b)
    BY DEF IsRound
  <2> QED BY <2>1, DropShorter
<1>4. step \in [D -> [Framed -> Framed]]
  <2> SUFFICES ASSUME NEW b \in D, NEW r \in Framed
               PROVE  [r EXCEPT !.frames = <<piece[b]>> \o @] \in Framed
    OBVIOUS
  <2>1. piece[b] \in D
    BY DEF IsRound
  <2> QED BY <2>1, Prepend
<1> HIDE DEF size, stop, end, next, step
<1>5. PICK f : Solution(f, D, Framed, stop, end, next, step)
  <2>1. IsRecursion(D, Framed, size, stop, end, next, step)
    BY <1>1, <1>2, <1>3, <1>4 DEF IsRecursion
  <2> QED BY <2>1, Recursion
<1>6. ASSUME NEW b \in D
      PROVE  f[b] = IF cut[b] = 0
                    THEN [frames |-> <<>>, rest |-> IF lost[b] THEN <<>> ELSE b, lost |-> lost[b]]
                    ELSE [f[Drop(b, cut[b])] EXCEPT !.frames = <<piece[b]>> \o @]
  <2>1. f[next[b]] \in Framed
    BY <1>3, <1>5 DEF Solution
  <2> QED BY <1>5, <2>1 DEF Solution, stop, end, next, step
<1> QED BY <1>5, <1>6 DEF Framing, Solution

\* Whatever solves the equations is one of its type.
LEMMA FramingTyped ==
  ASSUME NEW cut, NEW piece, NEW lost, IsRound(cut, piece, lost), NEW f, Framing(f, cut, piece, lost)
  PROVE  \A b \in Seq(Byte) : f[b] \in Framed
<1> DEFINE D == Seq(Byte)
           size == [b \in D |-> Len(b)]
           T == {b \in D : f[b] \in Framed}
<1>1. ASSUME NEW b \in D, \A c \in D : size[c] < size[b] => c \in T PROVE f[b] \in Framed
  <2>1. CASE cut[b] = 0
    <3>1. f[b] = [frames |-> <<>>, rest |-> IF lost[b] THEN <<>> ELSE b, lost |-> lost[b]]
      BY <2>1 DEF Framing
    <3>2. lost[b] \in BOOLEAN
      BY DEF IsRound
    <3> QED BY <3>1, <3>2 DEF Framed
  <2>2. CASE cut[b] # 0
    <3> DEFINE after == Drop(b, cut[b])
    <3>1. piece[b] \in Seq(Byte) /\ cut[b] \in Nat /\ cut[b] <= Len(b)
      BY DEF IsRound
    <3>2. after \in D /\ size[after] < size[b]
      <4>1. after \in D /\ Len(after) = Len(b) - cut[b] /\ Len(b) \in Nat
        BY <3>1, DropShorter
      <4> HIDE DEF after
      <4> QED BY <2>2, <3>1, <4>1
    <3>3. f[b] = [f[after] EXCEPT !.frames = <<piece[b]>> \o @]
      BY <2>2 DEF Framing
    <3>4. PICK r \in Framed : r = f[after]
      BY <1>1, <3>2
    <3>5. [r EXCEPT !.frames = <<piece[b]>> \o @] \in Framed
      BY <3>1, Prepend
    <3> QED BY <3>3, <3>4, <3>5
  <2> QED BY <2>1, <2>2
<1>2. size \in [D -> Nat]
  OBVIOUS
<1> HIDE DEF size
<1>3. \A b \in D : (\A c \in D : size[c] < size[b] => c \in T) => b \in T
  BY <1>1
<1> HIDE DEF T, D
<1>4. \A b \in D : b \in T
  BY <1>2, <1>3, SizeInduction
<1> QED BY <1>4 DEF T, D

\* One round that takes nothing, and one that takes a frame.
LEMMA RoundStops ==
  ASSUME NEW cut, NEW piece, NEW lost, IsRound(cut, piece, lost),
         NEW f, Framing(f, cut, piece, lost), NEW b \in Seq(Byte), cut[b] = 0
  PROVE  /\ f[b].frames = <<>> /\ (f[b].lost <=> lost[b])
         /\ lost[b] \/ f[b].rest = b
<1>1. f[b] = [frames |-> <<>>, rest |-> IF lost[b] THEN <<>> ELSE b, lost |-> lost[b]]
  BY DEF Framing
<1>2. f[b].frames = <<>> /\ (f[b].lost <=> lost[b]) /\ f[b].rest = IF lost[b] THEN <<>> ELSE b
  BY <1>1
<1> QED BY <1>2, Zenon

\* A round that takes a frame puts it before those of the rest.
LEMMA RoundTakes ==
  ASSUME NEW cut, NEW piece, NEW lost, IsRound(cut, piece, lost),
         NEW f, Framing(f, cut, piece, lost), NEW b \in Seq(Byte), cut[b] # 0
  PROVE  /\ f[b].frames = <<piece[b]>> \o f[Drop(b, cut[b])].frames
         /\ f[b].rest = f[Drop(b, cut[b])].rest
         /\ (f[b].lost <=> f[Drop(b, cut[b])].lost)
<1>1. cut[b] \in Nat /\ cut[b] <= Len(b) /\ piece[b] \in Seq(Byte)
  BY DEF IsRound
<1>2. Drop(b, cut[b]) \in Seq(Byte)
  BY <1>1, DropShorter
<1>3. PICK r \in Framed : r = f[Drop(b, cut[b])]
  BY <1>2, FramingTyped
<1>4. [r EXCEPT !.frames = <<piece[b]>> \o @]
        = [frames |-> <<piece[b]>> \o r.frames, rest |-> r.rest, lost |-> r.lost]
  BY <1>1, Prepend
<1>5. f[b] = [r EXCEPT !.frames = <<piece[b]>> \o @]
  BY <1>3 DEF Framing
<1>6. f[b].frames = <<piece[b]>> \o r.frames /\ f[b].rest = r.rest /\ f[b].lost = r.lost
  BY <1>4, <1>5
<1> QED BY <1>3, <1>6, Zenon

\* More bytes behind a buffer stay behind it when bytes are taken off its front.
LEMMA DropFirst ==
  ASSUME NEW a \in Seq(Byte), NEW d \in Seq(Byte), NEW n \in Nat, n <= Len(a)
  PROVE  Drop(a \o d, n) = Drop(a, n) \o d
<1> DEFINE all == a \o d
           x == Drop(all, n)
           y == Drop(a, n)
           z == y \o d
<1>1. /\ y \in Seq(Byte) /\ Len(y) = Len(a) - n
      /\ \A k \in 1 .. Len(a) - n : y[k] = a[n + k]
  BY DropShorter
<1>2. /\ all \in Seq(Byte) /\ Len(all) = Len(a) + Len(d)
      /\ \A k \in 1 .. Len(all) : all[k] = IF k <= Len(a) THEN a[k] ELSE d[k - Len(a)]
  BY ConcatProperties
<1> HIDE DEF all, y
<1>3. /\ x \in Seq(Byte) /\ Len(x) = Len(all) - n
      /\ \A k \in 1 .. Len(all) - n : x[k] = all[n + k]
  <2>1. n <= Len(all)
    BY <1>2
  <2> QED BY <1>2, <2>1, DropShorter
<1>4. /\ z \in Seq(Byte) /\ Len(z) = Len(y) + Len(d)
      /\ \A k \in 1 .. Len(y) + Len(d) : z[k] = IF k <= Len(y) THEN y[k] ELSE d[k - Len(y)]
  BY <1>1, ConcatProperties
<1> HIDE DEF x, z
<1>5. Len(x) = Len(z)
  BY <1>1, <1>2, <1>3, <1>4
<1>6. ASSUME NEW k \in 1 .. Len(x) PROVE x[k] = z[k]
  <2>1. k \in 1 .. Len(all) - n /\ n + k \in 1 .. Len(all) /\ k \in 1 .. Len(y) + Len(d)
    BY <1>1, <1>2, <1>3
  <2>2. x[k] = IF n + k <= Len(a) THEN a[n + k] ELSE d[(n + k) - Len(a)]
    BY <1>2, <1>3, <2>1
  <2>3. z[k] = IF k <= Len(y) THEN y[k] ELSE d[k - Len(y)]
    BY <1>4, <2>1
  <2>4. CASE k <= Len(y)
    <3>1. k \in 1 .. Len(a) - n /\ n + k <= Len(a)
      BY <1>1, <2>1, <2>4
    <3> QED BY <1>1, <2>2, <2>3, <2>4, <3>1
  <2>5. CASE ~(k <= Len(y))
    <3>1. ~(n + k <= Len(a)) /\ (n + k) - Len(a) = k - Len(y)
      BY <1>1, <2>1, <2>5
    <3> QED BY <2>2, <2>3, <2>5, <3>1
  <2> QED BY <2>4, <2>5
<1>7. x = z
  BY <1>3, <1>4, <1>5, <1>6, SeqEqual
<1> QED BY <1>7 DEF x, y, z, all

\* However a stream is cut in two, the frames of the first part and then those
\* of the second, behind the rest of the first, are the frames of the whole; the
\* frames before a loss stay.
Joins(f, a, d) ==
    /\ f[a].lost => f[a \o d].lost /\ f[a \o d].frames = f[a].frames
    /\ ~f[a].lost =>
         /\ f[a \o d].frames = f[a].frames \o f[f[a].rest \o d].frames
         /\ f[a \o d].rest = f[f[a].rest \o d].rest
         /\ (f[a \o d].lost <=> f[f[a].rest \o d].lost)

Associates(p, q, r) == p \o (q \o r) = (p \o q) \o r

\* Concatenation is associative.
LEMMA Associative ==
  ASSUME NEW S, NEW p \in Seq(S), NEW q \in Seq(S), NEW r \in Seq(S)
  PROVE  Associates(p, q, r)
BY ConcatAssociative DEF Associates

\* What a buffer gives is a frame, and then what another buffer gives.
Follows(f, a, frame, after) ==
    /\ f[a].frames = <<frame>> \o f[after].frames
    /\ f[a].rest = f[after].rest
    /\ (f[a].lost <=> f[after].lost)

\* The frames that two parts of a stream give, behind a first one.
LEMMA JoinsNext ==
  ASSUME NEW f, NEW a \in Seq(Byte), NEW d \in Seq(Byte), NEW after \in Seq(Byte), NEW frame \in Seq(Byte),
         \A b \in Seq(Byte) : f[b] \in Framed,
         Follows(f, a, frame, after), Follows(f, a \o d, frame, after \o d), Joins(f, after, d)
  PROVE  Joins(f, a, d)
<1>1. CASE f[after].lost
  BY <1>1, Zenon DEF Joins, Follows
<1>2. CASE ~f[after].lost
  <2> DEFINE last == f[after].rest \o d
  <2>1. f[after \o d].frames = f[after].frames \o f[last].frames
    BY <1>2, Zenon DEF Joins
  <2>2. <<frame>> \in Seq(Seq(Byte)) /\ f[after].frames \in Seq(Seq(Byte)) /\ f[last].frames \in Seq(Seq(Byte))
    <3>1. f[after] \in Framed
      OBVIOUS
    <3>2. last \in Seq(Byte)
      BY <3>1 DEF Framed
    <3> HIDE DEF last
    <3>3. f[last] \in Framed
      BY <3>2
    <3> QED BY <3>1, <3>3 DEF Framed
  <2>3. <<frame>> \o (f[after].frames \o f[last].frames) = (<<frame>> \o f[after].frames) \o f[last].frames
    <3> HIDE DEF last
    <3>1. Associates(<<frame>>, f[after].frames, f[last].frames)
      BY <2>2, Associative
    <3> QED BY <3>1, Zenon DEF Associates
  <2> QED BY <1>2, <2>1, <2>3, Zenon DEF Joins, Follows
<1> QED BY <1>1, <1>2

\* Every framing joins.
LEMMA FramingJoins ==
  ASSUME NEW cut, NEW piece, NEW lost, IsRound(cut, piece, lost),
         NEW f, Framing(f, cut, piece, lost), NEW d \in Seq(Byte)
  PROVE  \A a \in Seq(Byte) : Joins(f, a, d)
<1> DEFINE D == Seq(Byte)
           size == [b \in D |-> Len(b)]
           T == {a \in D : Joins(f, a, d)}
<1>1. ASSUME NEW a \in D, \A c \in D : size[c] < size[a] => c \in T PROVE Joins(f, a, d)
  <2>1. a \o d \in D
    OBVIOUS
  <2>2. CASE cut[a] = 0 /\ lost[a]
    <3>1. lost[a \o d]
      BY <2>2 DEF IsRound
    <3>2. cut[a \o d] = 0
      BY <2>1, <3>1 DEF IsRound
    <3>3. f[a \o d].frames = <<>> /\ (f[a \o d].lost <=> lost[a \o d])
      BY <2>1, <3>2, RoundStops
    <3>4. f[a].frames = <<>> /\ (f[a].lost <=> lost[a])
      BY <2>2, RoundStops
    <3> QED BY <2>2, <3>1, <3>3, <3>4, Zenon DEF Joins
  <2>3. CASE cut[a] = 0 /\ ~lost[a]
    <3>1. f[a].frames = <<>> /\ (f[a].lost <=> lost[a]) /\ f[a].rest = a
      BY <2>3, RoundStops
    <3>2. f[a \o d].frames \in Seq(Seq(Byte))
      BY <2>1, FramingTyped DEF Framed
    <3>3. f[a \o d].frames = <<>> \o f[a \o d].frames
      BY <3>2
    <3> QED BY <2>3, <3>1, <3>3, Zenon DEF Joins
  <2>4. CASE cut[a] # 0
    <3> DEFINE after == Drop(a, cut[a])
    <3>1. piece[a] \in D /\ cut[a] \in Nat /\ cut[a] <= Len(a)
      BY DEF IsRound
    <3>2. after \in D /\ Len(after) = Len(a) - cut[a] /\ Drop(a \o d, cut[a]) = after \o d
      BY <3>1, DropShorter, DropFirst
    <3>3. cut[a \o d] = cut[a] /\ piece[a \o d] = piece[a]
      BY <2>4 DEF IsRound
    <3>4. Joins(f, after, d)
      <4>1. size[after] < size[a]
        <5> HIDE DEF after
        <5> QED BY <2>4, <3>1, <3>2
      <4> QED BY <1>1, <3>2, <4>1
    <3>5. f[a].frames = <<piece[a]>> \o f[after].frames /\ f[a].rest = f[after].rest /\ (f[a].lost <=> f[after].lost)
      <4>1. /\ f[a].frames = <<piece[a]>> \o f[Drop(a, cut[a])].frames /\ f[a].rest = f[Drop(a, cut[a])].rest
            /\ (f[a].lost <=> f[Drop(a, cut[a])].lost)
        <5>1. \A b \in Seq(Byte) : cut[b] # 0 =>
                 /\ f[b].frames = <<piece[b]>> \o f[Drop(b, cut[b])].frames
                 /\ f[b].rest = f[Drop(b, cut[b])].rest
                 /\ (f[b].lost <=> f[Drop(b, cut[b])].lost)
          BY RoundTakes
        <5> QED BY <2>4, <5>1
      <4> QED BY <4>1
    <3>6. /\ f[a \o d].frames = <<piece[a \o d]>> \o f[Drop(a \o d, cut[a \o d])].frames
          /\ f[a \o d].rest = f[Drop(a \o d, cut[a \o d])].rest
          /\ (f[a \o d].lost <=> f[Drop(a \o d, cut[a \o d])].lost)
      <4>1. cut[a \o d] # 0
        BY <2>4, <3>3
      <4> QED BY <2>1, <4>1, RoundTakes
    <3>7. /\ f[a \o d].frames = <<piece[a]>> \o f[after \o d].frames /\ f[a \o d].rest = f[after \o d].rest
          /\ (f[a \o d].lost <=> f[after \o d].lost)
      BY <3>2, <3>3, <3>6, Zenon
    <3>8. \A b \in Seq(Byte) : f[b] \in Framed
      BY FramingTyped
    <3> HIDE DEF after
    <3>9. Follows(f, a, piece[a], after) /\ Follows(f, a \o d, piece[a], after \o d)
      BY <3>5, <3>7, Zenon DEF Follows
    <3> QED BY <3>1, <3>2, <3>4, <3>8, <3>9, JoinsNext
  <2> QED BY <2>2, <2>3, <2>4
<1>2. size \in [D -> Nat]
  OBVIOUS
<1> HIDE DEF size
<1>3. \A b \in D : (\A c \in D : size[c] < size[b] => c \in T) => b \in T
  BY <1>1
<1> HIDE DEF T, D
<1>4. \A b \in D : b \in T
  BY <1>2, <1>3, SizeInduction
<1> QED BY <1>4 DEF T, D

-----------------------------------------------------------------------------
(* The two protocols                                                       *)

LineEnd(b) == Min({i \in DOMAIN b : b[i] = Newline})

\* The first newline of a buffer.
LEMMA LineEndShape ==
  ASSUME NEW b \in Seq(Byte), Newline \in Range(b)
  PROVE  /\ LineEnd(b) \in 1 .. Len(b) /\ b[LineEnd(b)] = Newline
         /\ \A i \in 1 .. Len(b) : b[i] = Newline => LineEnd(b) <= i
<1> DEFINE S == {i \in DOMAIN b : b[i] = Newline}
<1>1. S \in SUBSET Nat /\ S # {}
  BY DEF Range
<1>2. PICK m \in S : \A n \in S : m <= n
  BY <1>1, Smallest
<1>3. LineEnd(b) \in S /\ \A n \in S : LineEnd(b) <= n
  BY <1>2 DEF LineEnd, Min
<1> QED BY <1>3

\* Bytes behind a buffer do not move its first newline.
LEMMA LineEndStays ==
  ASSUME NEW a \in Seq(Byte), NEW d \in Seq(Byte), Newline \in Range(a)
  PROVE  /\ Newline \in Range(a \o d) /\ LineEnd(a \o d) = LineEnd(a)
         /\ SubSeq(a \o d, 1, LineEnd(a \o d) - 1) = SubSeq(a, 1, LineEnd(a) - 1)
<1> DEFINE all == a \o d
           n == LineEnd(a)
           m == LineEnd(all)
<1>1. n \in 1 .. Len(a) /\ a[n] = Newline /\ \A i \in 1 .. Len(a) : a[i] = Newline => n <= i
  BY LineEndShape
<1>2. /\ all \in Seq(Byte) /\ Len(all) = Len(a) + Len(d)
      /\ \A k \in 1 .. Len(a) : all[k] = a[k]
  BY ConcatProperties
<1> HIDE DEF all, n
<1>3. Newline \in Range(all)
  BY <1>1, <1>2 DEF Range
<1>4. m \in 1 .. Len(all) /\ all[m] = Newline /\ \A i \in 1 .. Len(all) : all[i] = Newline => m <= i
  BY <1>2, <1>3, LineEndShape
<1> HIDE DEF m
<1>5. m = n
  BY <1>1, <1>2, <1>4
<1>6. SubSeq(all, 1, n - 1) = SubSeq(a, 1, n - 1)
  <2> DEFINE x == SubSeq(all, 1, n - 1)
             y == SubSeq(a, 1, n - 1)
  <2>1. x \in Seq(Byte) /\ y \in Seq(Byte) /\ Len(x) = n - 1 /\ Len(y) = n - 1
    BY <1>1, <1>2
  <2>2. \A k \in 1 .. n - 1 : x[k] = y[k]
    BY <1>1, <1>2
  <2> HIDE DEF x, y
  <2>3. x = y
    BY <1>1, <2>1, <2>2, SeqEqual
  <2> QED BY <2>3 DEF x, y
<1> QED BY <1>3, <1>5, <1>6 DEF all, n, m

LineCut == [b \in Seq(Byte) |-> IF Newline \in Range(b) THEN LineEnd(b) ELSE 0]
LinePiece == [b \in Seq(Byte) |-> IF Newline \in Range(b) THEN SubSeq(b, 1, LineEnd(b) - 1) ELSE <<>>]
LineLost == [b \in Seq(Byte) |-> FALSE]

\* A line ends at its newline, whatever comes behind it.
LEMMA LineRound == IsRound(LineCut, LinePiece, LineLost)
<1>1. \A b \in Seq(Byte) : Newline \in Range(b) =>
         LineEnd(b) \in 1 .. Len(b) /\ SubSeq(b, 1, LineEnd(b) - 1) \in Seq(Byte)
  <2> SUFFICES ASSUME NEW b \in Seq(Byte), Newline \in Range(b)
               PROVE  LineEnd(b) \in 1 .. Len(b) /\ SubSeq(b, 1, LineEnd(b) - 1) \in Seq(Byte)
    OBVIOUS
  <2>1. LineEnd(b) \in 1 .. Len(b)
    BY LineEndShape
  <2> QED BY <2>1
<1>2. LineCut \in [Seq(Byte) -> Nat] /\ LinePiece \in [Seq(Byte) -> Seq(Byte)]
  BY <1>1 DEF LineCut, LinePiece
<1>3. \A b \in Seq(Byte) : LineCut[b] <= Len(b)
  BY <1>1 DEF LineCut
<1>4. ASSUME NEW a \in Seq(Byte), NEW d \in Seq(Byte), LineCut[a] # 0
      PROVE  LineCut[a \o d] = LineCut[a] /\ LinePiece[a \o d] = LinePiece[a]
  <2>1. Newline \in Range(a) /\ a \o d \in Seq(Byte)
    BY <1>4 DEF LineCut
  <2>2. /\ Newline \in Range(a \o d) /\ LineEnd(a \o d) = LineEnd(a)
        /\ SubSeq(a \o d, 1, LineEnd(a \o d) - 1) = SubSeq(a, 1, LineEnd(a) - 1)
    BY <2>1, LineEndStays
  <2> QED BY <2>1, <2>2 DEF LineCut, LinePiece
<1>5. LineLost \in [Seq(Byte) -> BOOLEAN] /\ \A b \in Seq(Byte) : ~LineLost[b]
  BY DEF LineLost
<1> QED BY <1>2, <1>3, <1>4, <1>5 DEF IsRound

\* The protocol's function is the framing of these rounds.
LEMMA LineFraming == Framing(LineFrames, LineCut, LinePiece, LineLost)
<1>1. PICK g : Framing(g, LineCut, LinePiece, LineLost) /\ g \in [Seq(Byte) -> Framed]
  BY LineRound, FramingExists
<1> DEFINE Body(f, b) ==
      IF Newline \notin Range(b) THEN [frames |-> <<>>, rest |-> b, lost |-> FALSE]
      ELSE [f[Drop(b, LineEnd(b))] EXCEPT !.frames = <<SubSeq(b, 1, LineEnd(b) - 1)>> \o @]
<1>2. ASSUME NEW f, NEW b \in Seq(Byte)
      PROVE  (IF LineCut[b] = 0
              THEN [frames |-> <<>>, rest |-> IF LineLost[b] THEN <<>> ELSE b, lost |-> LineLost[b]]
              ELSE [f[Drop(b, LineCut[b])] EXCEPT !.frames = <<LinePiece[b]>> \o @]) = Body(f, b)
  <2>1. CASE Newline \in Range(b)
    <3>1. LineCut[b] = LineEnd(b) /\ LineCut[b] # 0 /\ LinePiece[b] = SubSeq(b, 1, LineEnd(b) - 1)
      BY <2>1, LineEndShape DEF LineCut, LinePiece
    <3> QED BY <2>1, <3>1, Zenon
  <2>2. CASE Newline \notin Range(b)
    <3>1. LineCut[b] = 0 /\ LineLost[b] = FALSE
      BY <2>2 DEF LineCut, LineLost
    <3> QED BY <2>2, <3>1, Zenon
  <2> QED BY <2>1, <2>2
<1>3. \A b \in Seq(Byte) : g[b] = Body(g, b)
  BY <1>1, <1>2, Zenon DEF Framing
<1>4. g = [b \in Seq(Byte) |-> Body(g, b)]
  BY <1>1, <1>3
<1>5. LineFrames = [b \in Seq(Byte) |-> Body(LineFrames, b)]
  BY <1>4, Zenon DEF LineFrames, LineEnd, Drop
<1>6. \A b \in Seq(Byte) : LineFrames[b] = Body(LineFrames, b)
  BY <1>5, Zenon
<1> QED BY <1>2, <1>6, Zenon DEF Framing

\* The length field lies in the first bytes of the buffer.
LEMMA PayloadLenStays ==
  ASSUME NEW a \in Seq(Byte), NEW d \in Seq(Byte), Len(a) >= Offset + FieldSize
  PROVE  PayloadLen(a) \in Nat /\ PayloadLen(a \o d) = PayloadLen(a)
<1> DEFINE all == a \o d
           At(b, k) == b[Offset + (IF BigEndian THEN k ELSE FieldSize + 1 - k)]
<1>1. /\ all \in Seq(Byte) /\ Len(all) = Len(a) + Len(d)
      /\ \A k \in 1 .. Len(a) : all[k] = a[k]
  BY ConcatProperties
<1> HIDE DEF all
<1>2. \A k \in 1 .. FieldSize : At(a, k) \in Nat /\ At(all, k) = At(a, k)
  <2> SUFFICES ASSUME NEW k \in 1 .. FieldSize PROVE At(a, k) \in Nat /\ At(all, k) = At(a, k)
    OBVIOUS
  <2> DEFINE j == Offset + (IF BigEndian THEN k ELSE FieldSize + 1 - k)
  <2>1. j \in 1 .. Len(a)
    BY LengthAssumption
  <2> HIDE DEF j
  <2>2. a[j] \in Byte /\ all[j] = a[j]
    BY <1>1, <2>1
  <2>3. \A x \in Byte : x \in Nat
    BY DEF Byte
  <2> QED BY <2>2, <2>3 DEF j
<1> HIDE DEF At
<1>3. ASSUME NEW b
      PROVE  PayloadLen(b) = CASE FieldSize = 1 -> At(b, 1)
                               [] FieldSize = 2 -> 256 * At(b, 1) + At(b, 2)
                               [] FieldSize = 4 -> 256 * (256 * (256 * At(b, 1) + At(b, 2)) + At(b, 3)) + At(b, 4)
  BY DEF PayloadLen, At
<1>4. PayloadLen(a) \in Nat /\ PayloadLen(all) = PayloadLen(a)
  <2>1. CASE FieldSize = 1
    <3>1. PayloadLen(a) = At(a, 1) /\ PayloadLen(all) = At(all, 1)
      BY <1>3, <2>1
    <3> QED BY <1>2, <2>1, <3>1
  <2>2. CASE FieldSize = 2
    <3>1. PayloadLen(a) = 256 * At(a, 1) + At(a, 2) /\ PayloadLen(all) = 256 * At(all, 1) + At(all, 2)
      BY <1>3, <2>2
    <3>2. /\ At(a, 1) \in Nat /\ At(a, 2) \in Nat /\ At(all, 1) = At(a, 1) /\ At(all, 2) = At(a, 2)
      BY <1>2, <2>2
    <3> QED BY <3>1, <3>2
  <2>3. CASE FieldSize = 4
    <3>1. /\ PayloadLen(a) = 256 * (256 * (256 * At(a, 1) + At(a, 2)) + At(a, 3)) + At(a, 4)
          /\ PayloadLen(all) = 256 * (256 * (256 * At(all, 1) + At(all, 2)) + At(all, 3)) + At(all, 4)
      BY <1>3, <2>3
    <3>2. /\ At(a, 1) \in Nat /\ At(a, 2) \in Nat /\ At(a, 3) \in Nat /\ At(a, 4) \in Nat
          /\ At(all, 1) = At(a, 1) /\ At(all, 2) = At(a, 2) /\ At(all, 3) = At(a, 3) /\ At(all, 4) = At(a, 4)
      BY <1>2, <2>3
    <3> QED BY <3>1, <3>2
  <2> QED BY <2>1, <2>2, <2>3, LengthAssumption
<1> QED BY <1>4 DEF all

FieldEnd == Offset + FieldSize

HasField(b) == Len(b) >= FieldEnd
TooLong(b) == HasField(b) /\ PayloadLen(b) > MaxFrame
Complete(b) == HasField(b) /\ ~TooLong(b) /\ Len(b) >= FieldEnd + PayloadLen(b)

LengthCut == [b \in Seq(Byte) |-> IF Complete(b) THEN FieldEnd + PayloadLen(b) ELSE 0]
LengthPiece == [b \in Seq(Byte) |-> IF Complete(b) THEN SubSeq(b, 1, FieldEnd + PayloadLen(b)) ELSE <<>>]
LengthLost == [b \in Seq(Byte) |-> TooLong(b)]

\* A buffer that begins with a length field has one.
LEMMA FieldShape ==
  ASSUME NEW b \in Seq(Byte), HasField(b)
  PROVE  PayloadLen(b) \in Nat /\ FieldEnd \in Nat \ {0}
<1>1. FieldEnd \in Nat \ {0}
  BY LengthAssumption DEF FieldEnd
<1>2. <<>> \in Seq(Byte)
  OBVIOUS
<1>3. PayloadLen(b) \in Nat
  BY <1>2, PayloadLenStays DEF HasField, FieldEnd
<1> QED BY <1>1, <1>3

\* What the first bytes say of a frame, bytes behind them do not change.
LEMMA FieldStays ==
  ASSUME NEW a \in Seq(Byte), NEW d \in Seq(Byte), HasField(a)
  PROVE  /\ HasField(a \o d) /\ PayloadLen(a \o d) = PayloadLen(a)
         /\ TooLong(a) => TooLong(a \o d)
         /\ Complete(a) => Complete(a \o d)
<1>1. Len(a \o d) = Len(a) + Len(d) /\ Len(a) \in Nat /\ Len(d) \in Nat
  OBVIOUS
<1>2. PayloadLen(a) \in Nat /\ PayloadLen(a \o d) = PayloadLen(a)
  BY PayloadLenStays DEF HasField, FieldEnd
<1>3. FieldEnd \in Nat
  BY FieldShape
<1> QED BY <1>1, <1>2, <1>3, LengthAssumption DEF HasField, TooLong, Complete

\* A frame ends where its length field says, whatever comes behind it.
LEMMA LengthRound == IsRound(LengthCut, LengthPiece, LengthLost)
<1>1. \A b \in Seq(Byte) : Complete(b) =>
         /\ FieldEnd + PayloadLen(b) \in 1 .. Len(b)
         /\ SubSeq(b, 1, FieldEnd + PayloadLen(b)) \in Seq(Byte)
  <2> SUFFICES ASSUME NEW b \in Seq(Byte), Complete(b)
               PROVE  /\ FieldEnd + PayloadLen(b) \in 1 .. Len(b)
                      /\ SubSeq(b, 1, FieldEnd + PayloadLen(b)) \in Seq(Byte)
    OBVIOUS
  <2>1. FieldEnd + PayloadLen(b) \in 1 .. Len(b)
    BY FieldShape DEF Complete
  <2> QED BY <2>1
<1>2. LengthCut \in [Seq(Byte) -> Nat] /\ LengthPiece \in [Seq(Byte) -> Seq(Byte)]
  BY <1>1 DEF LengthCut, LengthPiece
<1>3. LengthLost \in [Seq(Byte) -> BOOLEAN]
  BY DEF LengthLost, TooLong
<1>4. \A b \in Seq(Byte) : LengthCut[b] <= Len(b) /\ (LengthLost[b] => LengthCut[b] = 0)
  BY <1>1 DEF LengthCut, LengthLost, Complete
<1>5. ASSUME NEW a \in Seq(Byte), NEW d \in Seq(Byte)
      PROVE  /\ LengthCut[a] # 0 => LengthCut[a \o d] = LengthCut[a] /\ LengthPiece[a \o d] = LengthPiece[a]
             /\ LengthLost[a] => LengthLost[a \o d]
  <2> DEFINE all == a \o d
  <2>1. all \in Seq(Byte) /\ Len(all) = Len(a) + Len(d) /\ \A k \in 1 .. Len(a) : all[k] = a[k]
    BY ConcatProperties
  <2>2. ASSUME LengthCut[a] # 0 PROVE LengthCut[all] = LengthCut[a] /\ LengthPiece[all] = LengthPiece[a]
    <3> DEFINE n == FieldEnd + PayloadLen(a)
    <3>1. Complete(a) /\ HasField(a)
      BY <2>2 DEF LengthCut, Complete
    <3>2. Complete(all) /\ PayloadLen(all) = PayloadLen(a)
      BY <3>1, FieldStays
    <3>3. n \in 1 .. Len(a)
      BY <1>1, <3>1
    <3> HIDE DEF all, n
    <3>4. SubSeq(all, 1, n) = SubSeq(a, 1, n)
      <4> DEFINE x == SubSeq(all, 1, n)
                 y == SubSeq(a, 1, n)
      <4>1. x \in Seq(Byte) /\ y \in Seq(Byte) /\ Len(x) = n /\ Len(y) = n
        BY <2>1, <3>3
      <4>2. \A k \in 1 .. n : x[k] = y[k]
        BY <2>1, <3>3
      <4> HIDE DEF x, y
      <4>3. x = y
        BY <4>1, <4>2, SeqEqual
      <4> QED BY <4>3 DEF x, y
    <3> QED BY <2>1, <3>1, <3>2, <3>4 DEF LengthCut, LengthPiece, n
  <2>3. ASSUME LengthLost[a] PROVE LengthLost[all]
    <3>1. TooLong(a) /\ HasField(a)
      BY <2>3 DEF LengthLost, TooLong
    <3>2. TooLong(all)
      BY <3>1, FieldStays
    <3> QED BY <2>1, <3>2 DEF LengthLost
  <2> QED BY <2>2, <2>3
<1> QED BY <1>2, <1>3, <1>4, <1>5 DEF IsRound

\* The protocol's function is the framing of these rounds.
LEMMA LengthFraming == Framing(LengthFrames, LengthCut, LengthPiece, LengthLost)
<1>1. PICK g : Framing(g, LengthCut, LengthPiece, LengthLost) /\ g \in [Seq(Byte) -> Framed]
  BY LengthRound, FramingExists
<1> DEFINE Body(f, b) ==
      IF Len(b) < Offset + FieldSize THEN [frames |-> <<>>, rest |-> b, lost |-> FALSE]
      ELSE IF PayloadLen(b) > MaxFrame THEN [frames |-> <<>>, rest |-> <<>>, lost |-> TRUE]
      ELSE IF Len(b) < Offset + FieldSize + PayloadLen(b) THEN [frames |-> <<>>, rest |-> b, lost |-> FALSE]
      ELSE [f[Drop(b, Offset + FieldSize + PayloadLen(b))]
              EXCEPT !.frames = <<SubSeq(b, 1, Offset + FieldSize + PayloadLen(b))>> \o @]
<1>2. ASSUME NEW f, NEW b \in Seq(Byte)
      PROVE  (IF LengthCut[b] = 0
              THEN [frames |-> <<>>, rest |-> IF LengthLost[b] THEN <<>> ELSE b, lost |-> LengthLost[b]]
              ELSE [f[Drop(b, LengthCut[b])] EXCEPT !.frames = <<LengthPiece[b]>> \o @]) = Body(f, b)
  <2>0. Len(b) \in Nat /\ FieldEnd \in Nat /\ (HasField(b) <=> ~(Len(b) < FieldEnd)) /\ FieldEnd = Offset + FieldSize
    BY LengthAssumption DEF HasField, FieldEnd
  <2>1. CASE ~HasField(b)
    <3>1. LengthCut[b] = 0 /\ LengthLost[b] = FALSE
      BY <2>1 DEF LengthCut, LengthLost, Complete, TooLong
    <3> QED BY <2>0, <2>1, <3>1, Zenon
  <2>2. CASE TooLong(b)
    <3>1. LengthCut[b] = 0 /\ LengthLost[b] = TRUE
      BY <2>2 DEF LengthCut, LengthLost, Complete
    <3>2. HasField(b) /\ PayloadLen(b) > MaxFrame
      BY <2>2 DEF TooLong
    <3> QED BY <2>0, <3>1, <3>2, Zenon
  <2>3. CASE HasField(b) /\ ~TooLong(b) /\ ~Complete(b)
    <3>1. LengthCut[b] = 0 /\ LengthLost[b] = FALSE
      BY <2>3 DEF LengthCut, LengthLost
    <3>2. ~(PayloadLen(b) > MaxFrame) /\ Len(b) < FieldEnd + PayloadLen(b)
      BY <2>0, <2>3, FieldShape DEF TooLong, Complete
    <3> QED BY <2>0, <2>3, <3>1, <3>2, Zenon
  <2>4. CASE Complete(b)
    <3>1. /\ HasField(b) /\ ~(PayloadLen(b) > MaxFrame)
          /\ PayloadLen(b) \in Nat /\ FieldEnd \in Nat \ {0}
      BY <2>4, FieldShape DEF Complete, TooLong
    <3>2. ~(Len(b) < FieldEnd + PayloadLen(b)) /\ FieldEnd + PayloadLen(b) # 0
      BY <2>0, <2>4, <3>1 DEF Complete
    <3>3. LengthCut[b] = FieldEnd + PayloadLen(b) /\ LengthCut[b] # 0
          /\ LengthPiece[b] = SubSeq(b, 1, FieldEnd + PayloadLen(b))
      BY <2>4, <3>2 DEF LengthCut, LengthPiece
    <3> QED BY <2>0, <3>1, <3>2, <3>3, Zenon
  <2> QED BY <2>1, <2>2, <2>3, <2>4 DEF TooLong, Complete
<1>3. \A b \in Seq(Byte) : g[b] = Body(g, b)
  BY <1>1, <1>2, Zenon DEF Framing
<1>4. g = [b \in Seq(Byte) |-> Body(g, b)]
  BY <1>1, <1>3
<1>5. LengthFrames = [b \in Seq(Byte) |-> Body(LengthFrames, b)]
  BY <1>4, Zenon DEF LengthFrames, Drop
<1>6. \A b \in Seq(Byte) : LengthFrames[b] = Body(LengthFrames, b)
  BY <1>5, Zenon
<1> QED BY <1>2, <1>6, Zenon DEF Framing

-----------------------------------------------------------------------------
(* What the reads of a port make of its stream                             *)

\* Every protocol hands out frames of bytes and keeps bytes.
LEMMA OnDataTyped ==
  ASSUME NEW protocol, NEW b \in Seq(Byte)
  PROVE  OnData(protocol, b) \in Framed
<1>1. LineFrames[b] \in Framed
  BY LineRound, LineFraming, FramingTyped
<1>2. LengthFrames[b] \in Framed
  BY LengthRound, LengthFraming, FramingTyped
<1>3. [frames |-> <<b>>, rest |-> <<>>, lost |-> FALSE] \in Framed
  BY DEF Framed
<1> QED BY <1>1, <1>2, <1>3 DEF OnData

\* A stream that is read in two parts.
ReadsInParts(protocol, a, d) ==
    LET first == OnData(protocol, a)
        next == OnData(protocol, first.rest \o d)
        all == OnData(protocol, a \o d)
    IN /\ first.lost => all.lost /\ all.frames = first.frames
       /\ ~first.lost => /\ all.frames = first.frames \o next.frames
                         /\ all.rest = next.rest
                         /\ (all.lost <=> next.lost)

\* OnData makes of two reads, the rest of the first before the second, what it
\* makes of their bytes in one: for any stream, cut anywhere, and any length
\* field.  What follows a frame that is too long is excepted.
THEOREM OnDataJoins ==
  ASSUME NEW protocol \in {"line", "length"}, NEW a \in Seq(Byte), NEW d \in Seq(Byte)
  PROVE  ReadsInParts(protocol, a, d)
<1>1. Joins(LineFrames, a, d)
  BY LineRound, LineFraming, FramingJoins
<1>2. Joins(LengthFrames, a, d)
  BY LengthRound, LengthFraming, FramingJoins
<1>3. CASE protocol = "line"
  <2>1. \A b : OnData(protocol, b) = LineFrames[b]
    BY <1>3 DEF OnData
  <2> QED BY <1>1, <2>1, Zenon DEF Joins, ReadsInParts
<1>4. CASE protocol = "length"
  <2>1. \A b : OnData(protocol, b) = LengthFrames[b]
    BY <1>4 DEF OnData
  <2> QED BY <1>2, <2>1, Zenon DEF Joins, ReadsInParts
<1> QED BY <1>3, <1>4

\* Nothing comes of nothing.
LEMMA OnDataEmpty ==
  ASSUME NEW protocol \in {"line", "length"}
  PROVE  /\ OnData(protocol, <<>>).frames = <<>> /\ OnData(protocol, <<>>).rest = <<>>
         /\ ~OnData(protocol, <<>>).lost
<1> DEFINE e == <<>>
<1>1. e \in Seq(Byte) /\ Len(e) = 0
  OBVIOUS
<1>2. LineCut[e] = 0 /\ ~LineLost[e]
  BY DEF LineCut, LineLost, Range
<1>3. LengthCut[e] = 0 /\ ~LengthLost[e]
  <2>1. ~HasField(e)
    BY <1>1, LengthAssumption DEF HasField, FieldEnd
  <2> QED BY <1>1, <2>1 DEF LengthCut, LengthLost, Complete, TooLong
<1> HIDE DEF e
<1>4. LineFrames[e].frames = <<>> /\ LineFrames[e].rest = e /\ ~LineFrames[e].lost
  <2>1. /\ LineFrames[e].frames = <<>> /\ (LineFrames[e].lost <=> LineLost[e])
        /\ LineLost[e] \/ LineFrames[e].rest = e
    BY <1>1, <1>2, LineRound, LineFraming, RoundStops
  <2> QED BY <1>2, <2>1, Zenon
<1>5. LengthFrames[e].frames = <<>> /\ LengthFrames[e].rest = e /\ ~LengthFrames[e].lost
  <2>1. /\ LengthFrames[e].frames = <<>> /\ (LengthFrames[e].lost <=> LengthLost[e])
        /\ LengthLost[e] \/ LengthFrames[e].rest = e
    BY <1>1, <1>3, LengthRound, LengthFraming, RoundStops
  <2> QED BY <1>3, <2>1, Zenon
<1> QED BY <1>4, <1>5 DEF OnData, e

-----------------------------------------------------------------------------
(* Flattening                                                              *)

Flattens(g, s) == g = [i \in 1 .. Len(s) |-> IF i = 1 THEN s[i] ELSE g[i - 1] \o s[i]]

\* A sequence of sequences that is not empty can be flattened.
LEMMA FlatteningExists ==
  ASSUME NEW s \in Seq(Seq(Byte)), s # <<>>
  PROVE  \E g : Flattens(g, s) /\ FlattenSeq(s) = g[Len(s)]
<1> DEFINE D == 1 .. Len(s)
           R == Seq(Byte)
           size == [i \in D |-> i]
           stop == [i \in D |-> i = 1]
           end == [i \in D |-> s[i]]
           next == [i \in D |-> IF i = 1 THEN i ELSE i - 1]
           step == [i \in D |-> [r \in R |-> r \o s[i]]]
<1>1. size \in [D -> Nat] /\ stop \in [D -> BOOLEAN] /\ end \in [D -> R] /\ next \in [D -> D]
  OBVIOUS
<1>2. step \in [D -> [R -> R]]
  OBVIOUS
<1>3. ASSUME NEW i \in D, ~stop[i] PROVE size[next[i]] < size[i]
  <2>0. i # 1
    BY <1>3, Zenon
  <2>1. i # 1 /\ i - 1 \in D
    <3> HIDE DEF size, stop, end, next, step
    <3> QED BY <2>0
  <2>2. next[i] = i - 1
    BY <2>1
  <2>3. size[i - 1] = i - 1 /\ size[i] = i
    BY <2>1
  <2> HIDE DEF size, next
  <2>4. i - 1 < i
    OBVIOUS
  <2> QED BY <2>2, <2>3, <2>4
<1> HIDE DEF size, stop, end, next, step, D, R
<1>4. PICK f : Solution(f, D, R, stop, end, next, step)
  <2>1. IsRecursion(D, R, size, stop, end, next, step)
    BY <1>1, <1>2, <1>3 DEF IsRecursion
  <2> QED BY <2>1, Recursion
<1>5. ASSUME NEW i \in D PROVE f[i] = IF i = 1 THEN s[i] ELSE f[i - 1] \o s[i]
  <2>1. f[next[i]] \in R
    BY <1>1, <1>4 DEF Solution
  <2> QED BY <1>4, <2>1 DEF Solution, stop, end, next, step
<1>6. Flattens(f, s)
  BY <1>4, <1>5 DEF Flattens, Solution, D
<1> DEFINE h == CHOOSE flatten : flatten = [i \in 1 .. Len(s) |-> IF i = 1 THEN s[i] ELSE flatten[i - 1] \o s[i]]
<1>7. Flattens(h, s)
  BY <1>6, Zenon DEF Flattens
<1>8. FlattenSeq(s) = h[Len(s)]
  <2>1. Len(s) # 0
    OBVIOUS
  <2> QED BY <2>1, Zenon DEF FlattenSeq
<1> QED BY <1>7, <1>8

\* A frame at the end of the frames is at the end of what they flatten to.
LEMMA FlattenAppend ==
  ASSUME NEW s \in Seq(Seq(Byte)), NEW b \in Seq(Byte)
  PROVE  FlattenSeq(s \o <<b>>) = FlattenSeq(s) \o b
<1> DEFINE t == s \o <<b>>
           n == Len(s)
<1>1. /\ t \in Seq(Seq(Byte)) /\ t # <<>> /\ Len(t) = n + 1 /\ n \in Nat
      /\ t[n + 1] = b /\ \A i \in 1 .. n : t[i] = s[i]
  OBVIOUS
<1> HIDE DEF t
<1>2. PICK g : Flattens(g, t) /\ FlattenSeq(t) = g[n + 1]
  BY <1>1, FlatteningExists
<1>3. \A i \in 1 .. n + 1 : g[i] = IF i = 1 THEN t[i] ELSE g[i - 1] \o t[i]
  BY <1>1, <1>2 DEF Flattens
<1>4. CASE s = <<>>
  <2>1. FlattenSeq(s) = <<>> /\ n = 0
    BY <1>4 DEF FlattenSeq
  <2>2. FlattenSeq(t) = b
    BY <1>1, <1>2, <1>3, <2>1
  <2> QED BY <2>1, <2>2 DEF t
<1>5. CASE s # <<>>
  <2>1. PICK h : Flattens(h, s) /\ FlattenSeq(s) = h[n]
    BY <1>5, FlatteningExists
  <2>2. \A i \in 1 .. n : h[i] = IF i = 1 THEN s[i] ELSE h[i - 1] \o s[i]
    BY <2>1 DEF Flattens
  <2> DEFINE T == {i \in Nat : i \in 1 .. n => g[i] = h[i]}
  <2>3. 0 \in T
    OBVIOUS
  <2>4. ASSUME NEW i \in T PROVE i + 1 \in T
    <3> SUFFICES ASSUME i + 1 \in 1 .. n PROVE g[i + 1] = h[i + 1]
      OBVIOUS
    <3>1. i + 1 \in 1 .. n + 1 /\ t[i + 1] = s[i + 1]
      BY <1>1
    <3>2. CASE i = 0
      BY <1>3, <2>2, <3>1, <3>2
    <3>3. CASE i # 0
      <4>1. g[i] = h[i] /\ i + 1 # 1 /\ (i + 1) - 1 = i
        BY <2>4, <3>3
      <4>2. g[i + 1] = g[i] \o t[i + 1] /\ h[i + 1] = h[i] \o s[i + 1]
        BY <1>3, <2>2, <3>1, <4>1
      <4> QED BY <3>1, <4>1, <4>2
    <3> QED BY <3>2, <3>3
  <2> HIDE DEF T
  <2>5. T \in SUBSET Nat
    BY DEF T
  <2>6. \A i \in Nat : i \in T
    BY <2>3, <2>4, <2>5, Induction
  <2>7. g[n] = h[n] /\ n # 0
    BY <1>1, <1>5, <2>6 DEF T
  <2>8. n + 1 \in 1 .. n + 1 /\ n + 1 # 1 /\ (n + 1) - 1 = n
    BY <1>1, <2>7
  <2>9. g[n + 1] = g[n] \o b
    BY <1>1, <1>3, <2>8
  <2> QED BY <1>2, <2>1, <2>7, <2>9 DEF t
<1> QED BY <1>4, <1>5

-----------------------------------------------------------------------------
(* The invariant                                                           *)

\* The calls that hold mutex_.
Holding == {"locked", "opening", "closing", "sending", "stopping", "joining"}

PlainCall == [op : {"idle", "stop", "stopping", "joining"}]
NamingCall == [op : {"close", "closing", "delete", "send", "sending", "query"}, name : Names]
OpenCall == [op : {"open", "locked"}, name : Names, protocol : Protocols]
OpeningCall == [op : {"opening"}, name : Names, port : Nat, result : {"none", "ok", "failed"}]

CallRecord == PlainCall \cup NamingCall \cup OpenCall \cup OpeningCall

OpenFunction == [fn : {"open"}, port : Nat, caller : Callers]
PlainFunction == [fn : {"close", "write"}, port : Nat]
Function == OpenFunction \cup PlainFunction

PortRecord ==
    [name : Names, state : {"new", "open", "closed"}, alive : BOOLEAN,
     read : {"none", "pending", "done"}, protocol : Protocols, got : Nat,
     buf : Seq(Byte), frames : Seq(Seq(Byte))]

Typed ==
    /\ port \in Seq(PortRecord)
    /\ ports \in [Names -> 0 .. Len(port)]
    /\ call \in [Callers -> CallRecord]
    /\ queue \in Seq(Function)
    /\ \A i \in DOMAIN queue : queue[i].fn = "open" => queue[i].port \in DOMAIN port

\* mutex_ excludes.
Exclusive == \A c \in Callers : call[c].op \in Holding => mutex = c

Opens(c, p) == call[c].op = "opening" /\ call[c].port = p

\* While an Open waits, its port is the only one of its name that may be open.
NewInHand ==
    \A c \in Callers : call[c].op = "opening" =>
        /\ call[c].port \in DOMAIN port
        /\ port[call[c].port].name = call[c].name
        /\ \A q \in DOMAIN port :
              port[q].state = "open" /\ port[q].name = call[c].name => q = call[c].port

\* A posted function opens a port that still exists once only, and for the Open
\* that waits for it.
Posted ==
    /\ \A i \in DOMAIN queue : queue[i].fn = "open" /\ port[queue[i].port].alive =>
          Opens(queue[i].caller, queue[i].port) /\ call[queue[i].caller].result = "none"
    /\ \A i, j \in DOMAIN queue :
          queue[i].fn = "open" /\ queue[j].fn = "open" /\ queue[i].port = queue[j].port => i = j

\* A port that is open is in the map, or in the hands of the Open that made it.
Reached ==
    \A p \in DOMAIN port : port[p].state = "open" =>
        ports[port[p].name] = p \/ \E c \in Callers : Opens(c, p)

\* What a port has handed out and keeps is what its protocol makes of all it has
\* read, until a frame that is too long empties its buffer.
Receives(x) ==
    LET read == SubSeq(Stream[x.protocol], 1, x.got)
        whole == OnData(x.protocol, read)
    IN /\ x.got <= Len(Stream[x.protocol])
       /\ IF x.protocol = "raw" THEN x.buf = <<>> /\ FlattenSeq(x.frames) = read
          ELSE IF whole.lost THEN IsPrefix(whole.frames, x.frames)
          ELSE x.frames = whole.frames /\ x.buf = whole.rest

Received == \A p \in DOMAIN port : Receives(port[p])

PortsInv == Typed /\ Exclusive /\ NewInHand /\ Posted /\ Reached /\ Received

-----------------------------------------------------------------------------
(* What a port receives                                                    *)

\* A port that has received nothing yet.
LEMMA NewPortReceives ==
  ASSUME NEW n \in Names, NEW p \in Protocols
  PROVE  NewPort(n, p) \in PortRecord /\ Receives(NewPort(n, p))
<1> DEFINE x == NewPort(n, p)
           e == <<>>
<1>1. x \in PortRecord
  BY DEF NewPort, PortRecord
<1>2. x.protocol = p /\ x.got = 0 /\ x.buf = e /\ x.frames = e
  BY DEF NewPort
<1>3. Stream[p] \in Seq(Byte) /\ Len(Stream[p]) \in Nat
  BY ProtocolAssumption
<1>4. SubSeq(Stream[p], 1, 0) = e
  BY <1>3
<1>5. FlattenSeq(e) = e
  BY DEF FlattenSeq
<1>6. p \in {"line", "length"} =>
        OnData(p, e).frames = e /\ OnData(p, e).rest = e /\ ~OnData(p, e).lost
  BY OnDataEmpty
<1>7. p = "raw" \/ p \in {"line", "length"}
  BY ProtocolAssumption
<1> HIDE DEF x, e
<1>8. Receives(x)
  <2>1. x.got <= Len(Stream[x.protocol])
    BY <1>2, <1>3
  <2>2. SubSeq(Stream[x.protocol], 1, x.got) = e
    BY <1>2, <1>4, Zenon
  <2>3. CASE p = "raw"
    BY <1>2, <1>5, <2>1, <2>2, <2>3, Zenon DEF Receives, e
  <2>4. CASE p # "raw"
    <3>1. OnData(x.protocol, e).frames = e /\ OnData(x.protocol, e).rest = e /\ ~OnData(x.protocol, e).lost
      BY <1>2, <1>6, <1>7, <2>4, Zenon
    <3> QED BY <1>2, <2>1, <2>2, <2>4, <3>1, Zenon DEF Receives, e
  <2> QED BY <2>3, <2>4
<1> QED BY <1>1, <1>8 DEF x

\* A prefix of the frames stays one when frames are added.
LEMMA PrefixStays ==
  ASSUME NEW S, NEW s \in Seq(S), NEW t \in Seq(S), NEW u \in Seq(S), IsPrefix(s, t)
  PROVE  IsPrefix(s, t \o u)
<1>1. Len(t \o u) = Len(t) + Len(u) /\ Len(s) <= Len(t)
  BY DEF IsPrefix
<1>2. SubSeq(t \o u, 1, Len(s)) = SubSeq(t, 1, Len(s))
  <2>1. CASE Len(s) = 0
    BY <2>1
  <2>2. CASE Len(s) # 0
    <3>1. 1 \in 1 .. Len(t) /\ Len(s) \in 1 .. Len(t)
      BY <1>1, <2>2
    <3> QED BY <3>1, SubSeqOfConcat1
  <2> QED BY <2>1, <2>2
<1>3. Len(s) <= Len(t \o u)
  BY <1>1
<1> QED BY <1>2, <1>3 DEF IsPrefix

\* OnRead: k more bytes behind the buffer, and the frames they complete.
LEMMA ReadReceives ==
  ASSUME NEW x \in PortRecord, Receives(x), NEW k \in Nat,
         x.got + k <= Len(Stream[x.protocol]), NEW y \in PortRecord,
         y.protocol = x.protocol, y.got = x.got + k,
         y.buf = OnData(x.protocol, x.buf \o SubSeq(Stream[x.protocol], x.got + 1, x.got + k)).rest,
         y.frames = x.frames
           \o OnData(x.protocol, x.buf \o SubSeq(Stream[x.protocol], x.got + 1, x.got + k)).frames
  PROVE  Receives(y)
<1> DEFINE all == Stream[x.protocol]
           read == SubSeq(all, 1, x.got)
           data == SubSeq(all, x.got + 1, x.got + k)
           more == SubSeq(all, 1, x.got + k)
<1>1. all \in Seq(Byte) /\ x.got \in Nat /\ x.protocol \in {"line", "length", "raw"}
  BY ProtocolAssumption DEF PortRecord
<1>2. read \in Seq(Byte) /\ data \in Seq(Byte) /\ more \in Seq(Byte) /\ more = read \o data
  <2> HIDE DEF all
  <2>1. 1 \in 1 .. Len(all) + 1 /\ x.got \in 1 - 1 .. Len(all) /\ x.got + k \in x.got .. Len(all)
    BY <1>1 DEF all
  <2>2. SubSeq(all, 1, x.got) \o SubSeq(all, x.got + 1, x.got + k) = SubSeq(all, 1, x.got + k)
    BY <1>1, <2>1, ConcatAdjacentSubSeq
  <2>3. read \in Seq(Byte) /\ data \in Seq(Byte) /\ more \in Seq(Byte)
    BY <1>1, <2>1
  <2> QED BY <2>2, <2>3
<1>3. x.buf \in Seq(Byte) /\ x.frames \in Seq(Seq(Byte))
  BY DEF PortRecord
<1>4. /\ x.got + k <= Len(all) /\ y.got = x.got + k /\ y.protocol = x.protocol
      /\ y.buf = OnData(x.protocol, x.buf \o data).rest
      /\ y.frames = x.frames \o OnData(x.protocol, x.buf \o data).frames
  OBVIOUS
<1>5. IF x.protocol = "raw" THEN x.buf = <<>> /\ FlattenSeq(x.frames) = read
      ELSE IF OnData(x.protocol, read).lost THEN IsPrefix(OnData(x.protocol, read).frames, x.frames)
      ELSE x.frames = OnData(x.protocol, read).frames /\ x.buf = OnData(x.protocol, read).rest
  BY DEF Receives
<1>6. SUFFICES IF x.protocol = "raw" THEN y.buf = <<>> /\ FlattenSeq(y.frames) = more
               ELSE IF OnData(x.protocol, more).lost THEN IsPrefix(OnData(x.protocol, more).frames, y.frames)
               ELSE y.frames = OnData(x.protocol, more).frames /\ y.buf = OnData(x.protocol, more).rest
  BY <1>4, <1>6 DEF Receives
<1> HIDE DEF all, read, data, more
<1>7. CASE x.protocol = "raw"
  <2>1. x.buf \o data = data
    BY <1>2, <1>5, <1>7
  <2>2. y.buf = <<>> /\ y.frames = x.frames \o <<data>>
    BY <1>4, <1>7, <2>1 DEF OnData
  <2>3. FlattenSeq(y.frames) = FlattenSeq(x.frames) \o data
    BY <1>2, <1>3, <2>2, FlattenAppend
  <2> QED BY <1>2, <1>5, <1>7, <2>2, <2>3
<1>8. CASE x.protocol \in {"line", "length"}
  <2> DEFINE first == OnData(x.protocol, read)
             whole == OnData(x.protocol, more)
             next == OnData(x.protocol, first.rest \o data)
             f == OnData(x.protocol, x.buf \o data)
  <2>1. /\ first.lost => whole.lost /\ whole.frames = first.frames
        /\ ~first.lost => /\ whole.frames = first.frames \o next.frames
                          /\ whole.rest = next.rest
                          /\ (whole.lost <=> next.lost)
    <3>1. ReadsInParts(x.protocol, read, data)
      BY <1>2, <1>8, OnDataJoins
    <3> QED BY <1>2, <3>1, Zenon DEF ReadsInParts
  <2>2. x.protocol # "raw"
    BY <1>8
  <2>3. f \in Framed /\ first \in Framed
    <3>1. x.buf \o data \in Seq(Byte)
      BY <1>2, <1>3
    <3> QED BY <1>2, <3>1, OnDataTyped
  <2>4. f.frames \in Seq(Seq(Byte)) /\ first.frames \in Seq(Seq(Byte))
    BY <2>3 DEF Framed
  <2>5. CASE first.lost
    <3>1. IsPrefix(first.frames, x.frames)
      BY <1>5, <2>2, <2>5
    <3> DEFINE S == Seq(Byte)
    <3>2. IsPrefix(first.frames, x.frames \o f.frames)
      <4>1. first.frames \in Seq(S) /\ f.frames \in Seq(S) /\ x.frames \in Seq(S)
        BY <1>3, <2>4
      <4> HIDE DEF S, first, f
      <4> QED BY <3>1, <4>1, PrefixStays
    <3> QED BY <1>4, <2>1, <2>2, <2>5, <3>2
  <2>6. CASE ~first.lost
    <3>1. x.frames = first.frames /\ x.buf = first.rest
      BY <1>5, <2>2, <2>6
    <3>2. y.frames = whole.frames /\ y.buf = whole.rest
      BY <1>4, <2>1, <2>6, <3>1
    <3>3. IsPrefix(whole.frames, whole.frames)
      <4>1. whole.frames \in Seq(Seq(Byte))
        <5>1. whole \in Framed
          BY <1>2, OnDataTyped
        <5> QED BY <5>1 DEF Framed
      <4> QED BY <4>1 DEF IsPrefix
    <3> QED BY <2>2, <3>2, <3>3
  <2> QED BY <2>5, <2>6
<1> QED BY <1>1, <1>7, <1>8

\* A port whose bytes do not change has received what it had.
LEMMA SameReceives ==
  ASSUME NEW x, NEW y, Receives(x), y.protocol = x.protocol, y.got = x.got,
         y.buf = x.buf, y.frames = x.frames
  PROVE  Receives(y)
BY DEF Receives

-----------------------------------------------------------------------------
(* Records                                                                 *)

\* The fields of a call follow from its operation.
LEMMA CallShape ==
  ASSUME NEW x \in CallRecord
  PROVE  /\ x.op \in {"idle", "stop", "stopping", "joining"} => x \in PlainCall
         /\ x.op \in {"close", "closing", "delete", "send", "sending", "query"} => x \in NamingCall
         /\ x.op \in {"open", "locked"} => x \in OpenCall
         /\ x.op = "opening" => x \in OpeningCall
BY DEF CallRecord, PlainCall, NamingCall, OpenCall, OpeningCall

\* A call goes on to its next operation and keeps its fields.
LEMMA CallGoesOn ==
  ASSUME NEW x, NEW o
  PROVE  /\ x \in PlainCall /\ o \in {"idle", "stop", "stopping", "joining"} =>
              [x EXCEPT !.op = o] \in PlainCall /\ [x EXCEPT !.op = o].op = o
         /\ x \in NamingCall /\ o \in {"close", "closing", "delete", "send", "sending", "query"} =>
              [x EXCEPT !.op = o] \in NamingCall /\ [x EXCEPT !.op = o].op = o
         /\ x \in OpenCall /\ o \in {"open", "locked"} =>
              [x EXCEPT !.op = o] \in OpenCall /\ [x EXCEPT !.op = o].op = o
BY DEF PlainCall, NamingCall, OpenCall

\* An Open that waits gets its result.
LEMMA OpenGetsResult ==
  ASSUME NEW x \in OpeningCall, NEW r \in {"none", "ok", "failed"}
  PROVE  /\ [x EXCEPT !.result = r] \in OpeningCall
         /\ [x EXCEPT !.result = r].op = "opening" /\ [x EXCEPT !.result = r].port = x.port
         /\ [x EXCEPT !.result = r].name = x.name
BY DEF OpeningCall

\* What a step makes of a port that it does not open and does not read: the same
\* port, no more open and no more alive than before.
Quiet(x, y) ==
    /\ y \in PortRecord /\ y.name = x.name
    /\ y.state = "open" => x.state = "open"
    /\ y.alive => x.alive
    /\ Receives(x) => Receives(y)

Quieter(a, b) ==
    /\ b \in Seq(PortRecord) /\ Len(b) = Len(a)
    /\ \A p \in DOMAIN a : Quiet(a[p], b[p])

\* A port itself, and a port whose read changes.
LEMMA QuietRead ==
  ASSUME NEW x \in PortRecord, NEW r \in {"none", "pending", "done"}
  PROVE  Quiet(x, x) /\ Quiet(x, [x EXCEPT !.read = r])
<1> DEFINE y == [x EXCEPT !.read = r]
<1>1. /\ y \in PortRecord /\ y.name = x.name /\ y.state = x.state /\ y.alive = x.alive
      /\ y.protocol = x.protocol /\ y.got = x.got /\ y.buf = x.buf /\ y.frames = x.frames
  BY DEF PortRecord
<1> HIDE DEF y
<1>2. Receives(x) => Receives(y)
  BY <1>1, SameReceives
<1>3. Quiet(x, y)
  BY <1>1, <1>2, Zenon DEF Quiet
<1>4. Quiet(x, x)
  BY Zenon DEF Quiet
<1> QED BY <1>3, <1>4 DEF y

\* A port that is closed, and one that is destroyed.
LEMMA QuietEnd ==
  ASSUME NEW x \in PortRecord
  PROVE  /\ Quiet(x, Closed(x)) /\ Closed(x).state = "closed"
         /\ Quiet(x, Destroyed(x)) /\ Destroyed(x).state = "closed" /\ ~Destroyed(x).alive
<1> DEFINE r == IF x.read = "pending" THEN "none" ELSE x.read
           y == Closed(x)
           z == Destroyed(x)
<1>1. r \in {"none", "pending", "done"}
  BY DEF PortRecord
<1>2. y = [x EXCEPT !.state = "closed", !.read = r]
  BY DEF Closed
<1> HIDE DEF r, y
<1>3. /\ y \in PortRecord /\ y.name = x.name /\ y.state = "closed" /\ y.alive = x.alive
      /\ y.protocol = x.protocol /\ y.got = x.got /\ y.buf = x.buf /\ y.frames = x.frames
  BY <1>1, <1>2 DEF PortRecord
<1>4. z = [y EXCEPT !.alive = FALSE]
  BY DEF Destroyed, y
<1> HIDE DEF z
<1>5. /\ z \in PortRecord /\ z.name = y.name /\ z.state = y.state /\ z.alive = FALSE
      /\ z.protocol = y.protocol /\ z.got = y.got /\ z.buf = y.buf /\ z.frames = y.frames
  BY <1>3, <1>4 DEF PortRecord
<1>6. (Receives(x) => Receives(y)) /\ (Receives(y) => Receives(z))
  BY <1>3, <1>5, SameReceives
<1>7. y.state # "open" /\ z.state = "closed" /\ z.state # "open" /\ ~z.alive
  BY <1>3, <1>5
<1>8. Quiet(x, y) /\ Quiet(x, z)
  BY <1>3, <1>5, <1>6, <1>7, Zenon DEF Quiet
<1> QED BY <1>3, <1>7, <1>8 DEF y, z

\* One port changes, if there is one.
LEMMA OnePort ==
  ASSUME NEW s \in Seq(PortRecord), NEW q, NEW r, q \in DOMAIN s => r \in PortRecord
  PROVE  /\ [s EXCEPT ![q] = r] \in Seq(PortRecord) /\ Len([s EXCEPT ![q] = r]) = Len(s)
         /\ \A p \in DOMAIN s : [s EXCEPT ![q] = r][p] = IF p = q THEN r ELSE s[p]
<1>1. CASE q \in DOMAIN s
  <2>1. q \in 1 .. Len(s)
    BY <1>1
  <2> HIDE DEF PortRecord
  <2> QED BY <1>1, <2>1, ExceptSeq
<1>2. CASE q \notin DOMAIN s
  <2>1. [s EXCEPT ![q] = r] = s
    BY <1>2
  <2> QED BY <1>2, <2>1
<1> QED BY <1>1, <1>2

\* All ports as they were, and one that changes quietly.
LEMMA NoneQuieter ==
  ASSUME NEW s \in Seq(PortRecord)
  PROVE  Quieter(s, s)
<1>1. ASSUME NEW p \in DOMAIN s PROVE Quiet(s[p], s[p])
  <2>1. s[p] \in PortRecord
    OBVIOUS
  <2> QED BY <2>1, QuietRead
<1> QED BY <1>1 DEF Quieter

\* One port changes quietly, the others do not.
LEMMA OneQuiet ==
  ASSUME NEW s \in Seq(PortRecord), NEW q, NEW r, q \in DOMAIN s => Quiet(s[q], r)
  PROVE  Quieter(s, [s EXCEPT ![q] = r])
<1> DEFINE t == [s EXCEPT ![q] = r]
<1>1. \A p \in DOMAIN s : Quiet(s[p], s[p])
  BY NoneQuieter DEF Quieter
<1>2. q \in DOMAIN s => r \in PortRecord
  BY Zenon DEF Quiet
<1>3. t \in Seq(PortRecord) /\ Len(t) = Len(s) /\ \A p \in DOMAIN s : t[p] = IF p = q THEN r ELSE s[p]
  BY <1>2, OnePort
<1> HIDE DEF t
<1>4. \A p \in DOMAIN s : Quiet(s[p], t[p])
  BY <1>1, <1>3
<1>5. Quieter(s, t)
  BY <1>3, <1>4 DEF Quieter
<1> QED BY <1>5 DEF t

-----------------------------------------------------------------------------
(* Steps that make and open no port                                        *)

\* No Open begins to wait, none gets its result, none returns.
SameOpenings ==
    \A d \in Callers : call[d].op = "opening" \/ call'[d].op = "opening" => call'[d] = call[d]

\* The functions of r are those of q, but for one taken from its front, others
\* left out and some that open no port.
Carried(q, r) ==
    /\ r \in Seq(Function)
    /\ \E k \in {0, 1} : \A i \in DOMAIN r : r[i].fn = "open" => i + k \in DOMAIN q /\ q[i + k] = r[i]

CallsFit == call' \in [Callers -> CallRecord] /\ Exclusive' /\ SameOpenings

\* The invariant survives a step that makes, opens and hands over no port.
LEMMA QuietStep ==
  ASSUME PortsInv, Quieter(port, port'), ports' = ports, CallsFit, Carried(queue, queue')
  PROVE  PortsInv'
<1> USE DEF PortsInv
<1>1. DOMAIN port' = DOMAIN port /\ \A p \in DOMAIN port : Quiet(port[p], port'[p])
  BY DEF Quieter, Typed
<1>2. Typed'
  <2>1. \A i \in DOMAIN queue' : queue'[i].fn = "open" => queue'[i].port \in DOMAIN port
    BY DEF Carried, Typed
  <2> QED BY <1>1, <2>1 DEF Typed, Quieter, CallsFit, Carried
<1>3. NewInHand'
  <2> SUFFICES ASSUME NEW c \in Callers, call'[c].op = "opening"
               PROVE  /\ call'[c].port \in DOMAIN port'
                      /\ port'[call'[c].port].name = call'[c].name
                      /\ \A q \in DOMAIN port' :
                            port'[q].state = "open" /\ port'[q].name = call'[c].name => q = call'[c].port
    BY DEF NewInHand
  <2>1. call'[c] = call[c] /\ call[c].op = "opening"
    BY DEF CallsFit, SameOpenings
  <2>2. /\ call[c].port \in DOMAIN port /\ port[call[c].port].name = call[c].name
        /\ \A q \in DOMAIN port : port[q].state = "open" /\ port[q].name = call[c].name => q = call[c].port
    BY <2>1 DEF NewInHand
  <2> QED BY <1>1, <2>1, <2>2 DEF Quiet
<1>4. Posted'
  <2>1. PICK k \in {0, 1} : \A i \in DOMAIN queue' :
           queue'[i].fn = "open" => i + k \in DOMAIN queue /\ queue[i + k] = queue'[i]
    BY DEF Carried
  <2>2. ASSUME NEW i \in DOMAIN queue', queue'[i].fn = "open", port'[queue'[i].port].alive
        PROVE  /\ call'[queue'[i].caller].op = "opening" /\ call'[queue'[i].caller].port = queue'[i].port
               /\ call'[queue'[i].caller].result = "none"
    <3> DEFINE f == queue'[i]
    <3>1. i + k \in DOMAIN queue /\ queue[i + k] = f /\ queue' \in Seq(Function)
      BY <2>1, <2>2 DEF Carried
    <3>2. f \in Function /\ f.fn = "open"
      BY <2>2, <3>1
    <3>3. f.caller \in Callers
      BY <3>2 DEF Function, OpenFunction, PlainFunction
    <3> HIDE DEF f
    <3>4. port[f.port].alive
      <4>1. f.port \in DOMAIN port
        BY <3>1, <3>2 DEF Typed
      <4> QED BY <1>1, <2>2, <4>1 DEF Quiet, f
    <3>5. call[f.caller].op = "opening" /\ call[f.caller].port = f.port /\ call[f.caller].result = "none"
      BY <3>1, <3>2, <3>4, Zenon DEF Posted, Opens
    <3>6. call'[f.caller] = call[f.caller]
      BY <3>3, <3>5 DEF CallsFit, SameOpenings
    <3>7. call'[f.caller].op = "opening" /\ call'[f.caller].port = f.port /\ call'[f.caller].result = "none"
      BY <3>5, <3>6
    <3> QED BY <3>7 DEF f
  <2>3. ASSUME NEW i \in DOMAIN queue', NEW j \in DOMAIN queue', queue'[i].fn = "open",
               queue'[j].fn = "open", queue'[i].port = queue'[j].port
        PROVE  i = j
    <3>1. i + k \in DOMAIN queue /\ queue[i + k] = queue'[i] /\ j + k \in DOMAIN queue /\ queue[j + k] = queue'[j]
      BY <2>1, <2>3
    <3>2. i + k = j + k
      BY <2>3, <3>1 DEF Posted
    <3>3. i \in Int /\ j \in Int /\ k \in Int
      <4>1. queue' \in Seq(Function)
        BY DEF Carried
      <4> QED BY <4>1
    <3>4. \A a, b, e \in Int : a + e = b + e => a = b
      OBVIOUS
    <3> QED BY <3>2, <3>3, <3>4, Zenon
  <2> QED BY <2>2, <2>3, Zenon DEF Posted, Opens
<1>5. Reached'
  <2> SUFFICES ASSUME NEW p \in DOMAIN port', port'[p].state = "open"
               PROVE  ports'[port'[p].name] = p \/ \E c \in Callers : Opens(c, p)'
    BY DEF Reached
  <2>1. p \in DOMAIN port /\ port[p].state = "open" /\ port'[p].name = port[p].name
    BY <1>1 DEF Quiet
  <2>2. CASE ports[port[p].name] = p
    BY <2>1, <2>2
  <2>3. CASE \E c \in Callers : Opens(c, p)
    <3>1. PICK c \in Callers : call[c].op = "opening" /\ call[c].port = p
      BY <2>3 DEF Opens
    <3>2. call'[c] = call[c]
      BY <3>1 DEF CallsFit, SameOpenings
    <3>3. call'[c].op = "opening" /\ call'[c].port = p
      BY <3>1, <3>2
    <3> QED BY <3>3 DEF Opens
  <2> QED BY <2>1, <2>2, <2>3 DEF Reached
<1>6. Received'
  BY <1>1 DEF Received, Quiet
<1> QED BY <1>2, <1>3, <1>4, <1>5, <1>6 DEF CallsFit

\* The calls as they were.
LEMMA CallsStay ==
  ASSUME PortsInv, call' = call, mutex' = mutex, ports' = ports
  PROVE  CallsFit
BY DEF PortsInv, Typed, CallsFit, Exclusive, SameOpenings

\* mutex_ free, or held by c: no other call holds it.
LEMMA Alone ==
  ASSUME PortsInv, NEW c \in Callers, mutex = "free" \/ mutex = c \/ call[c].op \in Holding
  PROVE  \A d \in Callers : d # c => call[d].op \notin Holding
<1>1. mutex = "free" \/ mutex = c
  BY DEF PortsInv, Exclusive
<1>2. \A d \in Callers : call[d].op \in Holding => mutex = d /\ d # "free"
  BY CallerAssumption DEF PortsInv, Exclusive
<1> QED BY <1>1, <1>2

\* A step of one call.
LEMMA OneCall ==
  ASSUME PortsInv, NEW c \in Callers, NEW y \in CallRecord, call' = [call EXCEPT ![c] = y],
         ports' = ports, call[c].op # "opening", y.op # "opening",
         y.op \in Holding => mutex' = c,
         mutex' = mutex \/ mutex = "free" \/ call[c].op \in Holding
  PROVE  CallsFit
<1>1. call' \in [Callers -> CallRecord] /\ call'[c] = y /\ \A d \in Callers : d # c => call'[d] = call[d]
  BY DEF PortsInv, Typed
<1>2. Exclusive'
  <2> SUFFICES ASSUME NEW d \in Callers, call'[d].op \in Holding PROVE mutex' = d
    BY DEF Exclusive
  <2>1. CASE d = c
    BY <1>1, <2>1
  <2>2. CASE d # c
    <3>1. call[d].op \in Holding
      BY <1>1, <2>2
    <3>2. mutex' = mutex
      BY <2>2, <3>1, Alone
    <3> QED BY <3>1, <3>2 DEF PortsInv, Exclusive
  <2> QED BY <2>1, <2>2
<1>3. SameOpenings
  BY <1>1 DEF SameOpenings
<1> QED BY <1>1, <1>2, <1>3 DEF CallsFit

\* The functions that wait: as they were, none, the first gone, one more that
\* opens no port.
LEMMA QueueCarried ==
  ASSUME PortsInv
  PROVE  /\ Carried(queue, queue) /\ Carried(queue, <<>>)
         /\ queue # <<>> => Carried(queue, Tail(queue))
         /\ \A f \in PlainFunction : Carried(queue, Append(queue, f))
<1>1. queue \in Seq(Function)
  BY DEF PortsInv, Typed
<1>2. Carried(queue, queue)
  <2>1. \A i \in DOMAIN queue : i + 0 = i
    BY <1>1
  <2> QED BY <1>1, <2>1 DEF Carried
<1>3. Carried(queue, <<>>)
  BY DEF Carried
<1>4. ASSUME queue # <<>> PROVE Carried(queue, Tail(queue))
  <2>1. Tail(queue) \in Seq(Function) /\ \A i \in DOMAIN Tail(queue) : i + 1 \in DOMAIN queue /\ queue[i + 1] = Tail(queue)[i]
    <3> HIDE DEF Function
    <3> QED BY <1>1, <1>4
  <2> QED BY <1>1, <2>1 DEF Carried
<1>5. ASSUME NEW f \in PlainFunction PROVE Carried(queue, Append(queue, f))
  <2> DEFINE r == Append(queue, f)
  <2>1. f \in Function /\ f.fn # "open"
    BY DEF Function, PlainFunction
  <2>2. /\ r \in Seq(Function) /\ Len(r) = Len(queue) + 1 /\ r[Len(queue) + 1] = f
        /\ \A i \in DOMAIN queue : r[i] = queue[i]
    BY <1>1, <2>1
  <2> HIDE DEF r
  <2>3. \A i \in DOMAIN r : i \in DOMAIN queue \/ i = Len(queue) + 1
    BY <1>1, <2>2
  <2>4. \A i \in DOMAIN r : r[i].fn = "open" => i + 0 \in DOMAIN queue /\ queue[i + 0] = r[i]
    BY <1>1, <2>1, <2>2, <2>3
  <2>5. Carried(queue, r)
    BY <2>2, <2>4 DEF Carried
  <2> QED BY <2>5 DEF r
<1> QED BY <1>2, <1>3, <1>4, <1>5

\* A step of one call that changes no port.
LEMMA CallStep ==
  ASSUME PortsInv, NEW c \in Callers, NEW y \in CallRecord, call' = [call EXCEPT ![c] = y],
         ports' = ports, port' = port, Carried(queue, queue'), call[c].op # "opening", y.op # "opening",
         y.op \in Holding => mutex' = c,
         mutex' = mutex \/ mutex = "free" \/ call[c].op \in Holding
  PROVE  PortsInv'
<1>1. CallsFit
  BY OneCall
<1>2. Quieter(port, port')
  <2>1. port \in Seq(PortRecord)
    BY DEF PortsInv, Typed
  <2> QED BY <2>1, NoneQuieter
<1> QED BY <1>1, <1>2, QuietStep

\* A call returns.
LEMMA CallReturns ==
  ASSUME PortsInv, NEW c \in Callers, Returns(c), ports' = ports, port' = port, Carried(queue, queue'),
         call[c].op # "opening", mutex = "free" \/ call[c].op \in Holding
  PROVE  PortsInv'
<1>1. Idle \in CallRecord /\ Idle.op = "idle"
  BY DEF Idle, CallRecord, PlainCall
<1>2. call' = [call EXCEPT ![c] = Idle] /\ mutex' = "free"
  BY DEF Returns
<1> HIDE DEF Idle
<1>3. Idle.op # "opening" /\ Idle.op \notin Holding
  BY <1>1 DEF Holding
<1> QED BY <1>1, <1>2, <1>3, CallStep

\* A call goes on.
LEMMA CallProceeds ==
  ASSUME PortsInv, NEW c \in Callers, NEW o, call' = [call EXCEPT ![c].op = o],
         ports' = ports, port' = port, Carried(queue, queue'),
         \/ call[c].op \in {"open", "locked"} /\ o \in {"open", "locked"}
         \/ /\ call[c].op \in {"close", "closing", "delete", "send", "sending", "query"}
            /\ o \in {"close", "closing", "delete", "send", "sending", "query"}
         \/ call[c].op \in {"idle", "stop", "stopping", "joining"} /\ o \in {"idle", "stop", "stopping", "joining"},
         o \in Holding => mutex' = c,
         mutex' = mutex \/ mutex = "free" \/ call[c].op \in Holding
  PROVE  PortsInv'
<1> DEFINE x == call[c]
           y == [x EXCEPT !.op = o]
<1>1. x \in CallRecord
  BY DEF PortsInv, Typed
<1>2. call' = [call EXCEPT ![c] = y]
  BY DEF PortsInv, Typed
<1>3. o # "opening" /\ x.op # "opening"
  OBVIOUS
<1> HIDE DEF x
<1>4. y \in CallRecord /\ y.op = o
  <2>1. CASE x.op \in {"open", "locked"} /\ o \in {"open", "locked"}
    <3>1. y \in OpenCall /\ y.op = o
      BY <1>1, <2>1, CallShape, CallGoesOn
    <3> QED BY <2>1, <3>1 DEF CallRecord
  <2>2. CASE /\ x.op \in {"close", "closing", "delete", "send", "sending", "query"}
             /\ o \in {"close", "closing", "delete", "send", "sending", "query"}
    <3>1. y \in NamingCall /\ y.op = o
      BY <1>1, <2>2, CallShape, CallGoesOn
    <3> QED BY <3>1 DEF CallRecord
  <2>3. CASE x.op \in {"idle", "stop", "stopping", "joining"} /\ o \in {"idle", "stop", "stopping", "joining"}
    <3>1. y \in PlainCall /\ y.op = o
      BY <1>1, <2>3, CallShape, CallGoesOn
    <3> QED BY <2>3, <3>1 DEF CallRecord
  <2> QED BY <2>1, <2>2, <2>3 DEF x
<1> HIDE DEF y
<1>5. y.op # "opening" /\ (y.op \in Holding => mutex' = c)
  BY <1>3, <1>4
<1> QED BY <1>2, <1>3, <1>4, <1>5, CallStep DEF x

\* A call begins.
LEMMA CallStarts ==
  ASSUME PortsInv, NEW c \in Callers, NEW y \in CallRecord, Begins(c, y),
         y.op \in {"open", "close", "delete", "send", "query", "stop"},
         ports' = ports, port' = port, mutex' = mutex, Carried(queue, queue')
  PROVE  PortsInv'
<1>1. call[c].op = "idle" /\ call' = [call EXCEPT ![c] = y]
  BY DEF Begins, Idle
<1>2. call[c].op # "opening" /\ y.op # "opening" /\ y.op \notin Holding
  BY <1>1 DEF Holding
<1> QED BY <1>1, <1>2, CallStep

\* What a call finds in the map under a name.
LEMMA InMap ==
  ASSUME PortsInv, NEW c \in Callers,
         call[c].op \in {"close", "closing", "delete", "send", "sending", "query", "open", "locked", "opening"}
  PROVE  /\ call[c].name \in Names /\ ports[call[c].name] \in 0 .. Len(port)
         /\ ports[call[c].name] # 0 => ports[call[c].name] \in DOMAIN port
<1>1. call[c] \in CallRecord /\ ports \in [Names -> 0 .. Len(port)] /\ DOMAIN port = 1 .. Len(port)
  BY DEF PortsInv, Typed
<1>2. call[c].name \in Names
  <2>1. CASE call[c].op \in {"close", "closing", "delete", "send", "sending", "query"}
    BY <1>1, <2>1, CallShape DEF NamingCall
  <2>2. CASE call[c].op \in {"open", "locked"}
    BY <1>1, <2>2, CallShape DEF OpenCall
  <2>3. CASE call[c].op = "opening"
    BY <1>1, <2>3, CallShape DEF OpeningCall
  <2> QED BY <2>1, <2>2, <2>3
<1> QED BY <1>1, <1>2

\* An Open begins; it may start the manager.
LEMMA OpenBeginsKeeps ==
  ASSUME PortsInv, NEW c \in Callers, NEW n \in Names, NEW p \in Protocols, OpenBegins(c, n, p)
  PROVE  PortsInv'
<1> DEFINE y == [op |-> "open", name |-> n, protocol |-> p]
<1>1. y \in CallRecord /\ y.op = "open"
  BY DEF CallRecord, OpenCall
<1>2. Begins(c, y) /\ ports' = ports /\ port' = port /\ mutex' = mutex
  BY DEF OpenBegins
<1>3. queue' = queue \/ queue' = <<>>
  BY DEF OpenBegins
<1>4. Carried(queue, queue')
  BY <1>3, QueueCarried
<1> HIDE DEF y
<1> QED BY <1>1, <1>2, <1>4, CallStarts

\* Another call begins.
LEMMA CallBeginsKeeps ==
  ASSUME PortsInv, NEW c \in Callers, NEW n \in Names, NEW op \in {"close", "delete", "send", "query"},
         CallBegins(c, op, n)
  PROVE  PortsInv'
<1> DEFINE y == [op |-> op, name |-> n]
<1>1. y \in CallRecord /\ y.op \in {"open", "close", "delete", "send", "query", "stop"}
  BY DEF CallRecord, NamingCall
<1>2. Begins(c, y) /\ ports' = ports /\ port' = port /\ mutex' = mutex /\ queue' = queue
  BY DEF CallBegins
<1>3. Carried(queue, queue')
  BY <1>2, QueueCarried
<1> HIDE DEF y
<1> QED BY <1>1, <1>2, <1>3, CallStarts

\* A Stop begins.
LEMMA StopBeginsKeeps ==
  ASSUME PortsInv, NEW c \in Callers, StopBegins(c)
  PROVE  PortsInv'
<1> DEFINE y == [op |-> "stop"]
<1>1. y \in CallRecord /\ y.op = "stop"
  BY DEF CallRecord, PlainCall
<1>2. Begins(c, y) /\ ports' = ports /\ port' = port /\ mutex' = mutex /\ queue' = queue
  BY DEF StopBegins
<1>3. Carried(queue, queue')
  BY <1>2, QueueCarried
<1> HIDE DEF y
<1> QED BY <1>1, <1>2, <1>3, CallStarts

\* Open takes mutex_.
LEMMA OpenLocksKeeps ==
  ASSUME PortsInv, NEW c \in Callers, OpenLocks(c)
  PROVE  PortsInv'
<1>1. /\ call[c].op = "open" /\ mutex = "free" /\ mutex' = c /\ call' = [call EXCEPT ![c].op = "locked"]
      /\ ports' = ports /\ port' = port /\ queue' = queue
  BY DEF OpenLocks
<1>2. Carried(queue, queue')
  BY <1>1, QueueCarried
<1> QED BY <1>1, <1>2, CallProceeds

\* The DELETE route tests a port, and closes it or returns.
LEMMA DeleteTestsKeeps ==
  ASSUME PortsInv, NEW c \in Callers, DeleteTests(c)
  PROVE  PortsInv'
<1>1. /\ call[c].op = "delete" /\ mutex = "free" /\ mutex' = mutex
      /\ ports' = ports /\ port' = port /\ queue' = queue
  BY DEF DeleteTests
<1>2. Carried(queue, queue')
  BY <1>1, QueueCarried
<1>3. CASE call' = [call EXCEPT ![c] = Idle]
  BY <1>1, <1>2, <1>3, CallReturns DEF Returns
<1>4. CASE call' = [call EXCEPT ![c] = [@ EXCEPT !.op = "close"]]
  <2>1. call' = [call EXCEPT ![c].op = "close"]
    BY <1>4
  <2>2. "close" \notin Holding
    BY DEF Holding
  <2> QED BY <1>1, <1>2, <2>1, <2>2, CallProceeds
<1> QED BY <1>3, <1>4 DEF DeleteTests

\* Close takes mutex_ and posts, or finds no port.
LEMMA ClosePostsKeeps ==
  ASSUME PortsInv, NEW c \in Callers, ClosePosts(c)
  PROVE  PortsInv'
<1> DEFINE p == ports[call[c].name]
<1>1. call[c].op = "close" /\ mutex = "free" /\ ports' = ports /\ port' = port
  BY DEF ClosePosts
<1>2. CASE p = 0
  <2>1. Returns(c) /\ queue' = queue
    BY <1>2 DEF ClosePosts
  <2>2. Carried(queue, queue')
    BY <2>1, QueueCarried
  <2> QED BY <1>1, <2>1, <2>2, CallReturns
<1>3. CASE p # 0
  <2> DEFINE f == [fn |-> "close", port |-> p]
  <2>1. mutex' = c /\ queue' = Append(queue, f) /\ call' = [call EXCEPT ![c].op = "closing"]
    BY <1>3 DEF ClosePosts
  <2>2. p \in Nat
    BY <1>1, InMap
  <2>3. f \in PlainFunction
    BY <2>2 DEF PlainFunction
  <2> HIDE DEF f
  <2>4. Carried(queue, queue')
    BY <2>1, <2>3, QueueCarried
  <2> QED BY <1>1, <1>3, <2>1, <2>4, CallProceeds
<1> QED BY <1>2, <1>3

\* Send takes mutex_, or finds no open port.
LEMMA SendLocksKeeps ==
  ASSUME PortsInv, NEW c \in Callers, SendLocks(c)
  PROVE  PortsInv'
<1> DEFINE p == ports[call[c].name]
<1>1. call[c].op = "send" /\ mutex = "free" /\ ports' = ports /\ port' = port /\ queue' = queue
  BY DEF SendLocks
<1>2. Carried(queue, queue')
  BY <1>1, QueueCarried
<1>3. CASE Returns(c)
  BY <1>1, <1>2, <1>3, CallReturns
<1>4. CASE p # 0 /\ mutex' = c /\ call' = [call EXCEPT ![c].op = "sending"]
  BY <1>1, <1>2, <1>4, CallProceeds
<1> QED BY <1>3, <1>4 DEF SendLocks

\* Send posts a write.
LEMMA SendPostsKeeps ==
  ASSUME PortsInv, NEW c \in Callers, SendPosts(c)
  PROVE  PortsInv'
<1> DEFINE p == ports[call[c].name]
           f == [fn |-> "write", port |-> p]
<1>1. /\ call[c].op = "sending" /\ Returns(c) /\ ports' = ports /\ port' = port
      /\ queue' = Append(queue, f)
  BY DEF SendPosts
<1>2. p \in Nat
  BY <1>1, InMap
<1>3. f \in PlainFunction
  BY <1>2 DEF PlainFunction
<1> HIDE DEF f
<1>4. Carried(queue, queue')
  BY <1>1, <1>3, QueueCarried
<1>5. call[c].op \in Holding /\ call[c].op # "opening"
  BY <1>1 DEF Holding
<1> QED BY <1>1, <1>4, <1>5, CallReturns

\* A query changes nothing.
LEMMA QueriesKeeps ==
  ASSUME PortsInv, NEW c \in Callers, Queries(c)
  PROVE  PortsInv'
<1>1. call[c].op = "query" /\ mutex = "free" /\ Returns(c) /\ ports' = ports /\ port' = port /\ queue' = queue
  BY DEF Queries
<1>2. Carried(queue, queue')
  BY <1>1, QueueCarried
<1> QED BY <1>1, <1>2, CallReturns

\* Stop takes mutex_.
LEMMA StopLocksKeeps ==
  ASSUME PortsInv, NEW c \in Callers, StopLocks(c)
  PROVE  PortsInv'
<1>1. /\ call[c].op = "stop" /\ mutex = "free" /\ mutex' = c /\ call' = [call EXCEPT ![c].op = "stopping"]
      /\ ports' = ports /\ port' = port /\ queue' = queue
  BY DEF StopLocks
<1>2. Carried(queue, queue')
  BY <1>1, QueueCarried
<1> QED BY <1>1, <1>2, CallProceeds

\* Stop joins the io thread and drops its context.
LEMMA StopJoinsKeeps ==
  ASSUME PortsInv, NEW c \in Callers, StopJoins(c)
  PROVE  PortsInv'
<1>1. /\ call[c].op = "joining" /\ Returns(c) /\ ports' = ports /\ port' = port /\ queue' = <<>>
  BY DEF StopJoins
<1>2. Carried(queue, queue')
  BY <1>1, QueueCarried
<1>3. call[c].op \in Holding /\ call[c].op # "opening"
  BY <1>1 DEF Holding
<1> QED BY <1>1, <1>2, <1>3, CallReturns

-----------------------------------------------------------------------------
(* Steps that make a port, hand it over or end it                          *)

\* While a call holds mutex_ and is not an Open that waits, no port is in the
\* hands of one.
LEMMA NoneInHand ==
  ASSUME PortsInv, NEW c \in Callers, call[c].op \in Holding
  PROVE  /\ \A d \in Callers : call[d].op = "opening" => d = c
         /\ \A p \in DOMAIN port : port[p].state = "open" => ports[port[p].name] = p \/ Opens(c, p)
         /\ \A i \in DOMAIN queue : queue[i].fn = "open" /\ port[queue[i].port].alive =>
               Opens(c, queue[i].port) /\ call[c].result = "none"
<1>1. \A d \in Callers : call[d].op = "opening" => d = c
  BY Alone DEF Holding
<1>2. \A p \in DOMAIN port : port[p].state = "open" => ports[port[p].name] = p \/ Opens(c, p)
  BY <1>1 DEF PortsInv, Reached, Opens
<1>3. ASSUME NEW i \in DOMAIN queue, queue[i].fn = "open", port[queue[i].port].alive
      PROVE  Opens(c, queue[i].port) /\ call[c].result = "none"
  <2>1. queue[i] \in Function
    BY DEF PortsInv, Typed
  <2>2. queue[i].caller \in Callers
    BY <1>3, <2>1 DEF Function, OpenFunction, PlainFunction
  <2>3. Opens(queue[i].caller, queue[i].port) /\ call[queue[i].caller].result = "none"
    BY <1>3 DEF PortsInv, Posted
  <2> QED BY <1>1, <2>2, <2>3 DEF Opens
<1> QED BY <1>1, <1>2, <1>3

\* A call that holds mutex_ gives it back or keeps it.
LEMMA HolderSteps ==
  ASSUME PortsInv, NEW c \in Callers, call[c].op \in Holding, NEW y \in CallRecord,
         call' = [call EXCEPT ![c] = y], y.op \in Holding => mutex' = c
  PROVE  /\ call' \in [Callers -> CallRecord] /\ Exclusive'
         /\ call'[c] = y /\ \A d \in Callers : d # c => call'[d] = call[d] /\ call[d].op \notin Holding
<1>1. call' \in [Callers -> CallRecord] /\ call'[c] = y /\ \A d \in Callers : d # c => call'[d] = call[d]
  BY DEF PortsInv, Typed
<1>2. \A d \in Callers : d # c => call[d].op \notin Holding
  BY Alone
<1>3. Exclusive'
  BY <1>1, <1>2 DEF Exclusive
<1> QED BY <1>1, <1>2, <1>3

\* The port of the same name is closed, and a new one made.
LEMMA OpenPostsKeeps ==
  ASSUME PortsInv, NEW c \in Callers, OpenPosts(c)
  PROVE  PortsInv'
<1> DEFINE x == call[c]
           n == x.name
           old == ports[n]
           closed == OldClosed(old)
           new == NewPort(n, x.protocol)
           m == Len(port) + 1
           f == [fn |-> "open", port |-> m, caller |-> c]
           y == Opening(x, m)
<1>1. x.op = "locked" /\ x.op \in Holding /\ ports' = ports /\ mutex' = mutex /\ mutex = c
  BY DEF OpenPosts, Holding, PortsInv, Exclusive
<1>2. port \in Seq(PortRecord) /\ queue \in Seq(Function) /\ Len(port) \in Nat
  BY DEF PortsInv, Typed
<1>3. x \in OpenCall /\ n \in Names /\ x.protocol \in Protocols
  <2>1. x \in CallRecord
    BY DEF PortsInv, Typed
  <2>2. x \in OpenCall
    BY <1>1, <2>1, CallShape
  <2> QED BY <2>2 DEF OpenCall
<1>4. CASE ctx = "none"
  <2>1. UNCHANGED <<port, queue, call, ports, mutex>>
    BY <1>4 DEF OpenPosts
  <2> QED BY <2>1 DEF PortsInv, Typed, Exclusive, NewInHand, Posted, Reached, Received, Opens
<1>5. CASE ctx # "none"
  <2>1. \/ old = 0 /\ closed = port
        \/ old \in DOMAIN port /\ closed = [port EXCEPT ![old] = Closed(port[old])]
    BY <1>1, <1>2, InMap DEF OldClosed
  <2>2. /\ Quieter(port, closed)
        /\ \A p \in DOMAIN port : closed[p].state = "open" => closed[p] = port[p] /\ p # old
    <3>1. CASE old = 0 /\ closed = port
      <4>1. Quieter(port, port)
        BY <1>2, NoneQuieter
      <4> QED BY <1>2, <3>1, <4>1
    <3>2. CASE old \in DOMAIN port /\ closed = [port EXCEPT ![old] = Closed(port[old])]
      <4>1. port[old] \in PortRecord
        BY <1>2, <3>2
      <4>2. Quiet(port[old], Closed(port[old])) /\ Closed(port[old]).state = "closed"
        BY <4>1, QuietEnd
      <4>3. Quieter(port, closed)
        <5>1. Quieter(port, [port EXCEPT ![old] = Closed(port[old])])
          BY <1>2, <4>2, OneQuiet
        <5> QED BY <3>2, <5>1, Zenon
      <4>4. \A p \in DOMAIN port : closed[p] = IF p = old THEN Closed(port[old]) ELSE port[p]
        BY <1>2, <3>2
      <4> QED BY <4>2, <4>3, <4>4
    <3> QED BY <2>1, <3>1, <3>2
  <2>3. closed \in Seq(PortRecord) /\ Len(closed) = Len(port) /\ DOMAIN closed = DOMAIN port
    BY <1>2, <2>2 DEF Quieter
  <2>4. port' = Append(closed, new) /\ queue' = Append(queue, f) /\ call' = [call EXCEPT ![c] = y]
    <3>1. Len(Append(closed, new)) = m
      <4> HIDE DEF closed, new
      <4> QED BY <2>3
    <3> QED BY <1>5, <3>1 DEF OpenPosts
  <2>5. new \in PortRecord /\ Receives(new) /\ new.state = "new" /\ new.name = n
    <3>1. new \in PortRecord /\ Receives(new)
      BY <1>3, NewPortReceives
    <3> QED BY <3>1 DEF NewPort
  <2>6. y \in CallRecord /\ y.op = "opening" /\ y.port = m /\ y.name = n /\ y.result = "none" /\ y.op \in Holding
    BY <1>2, <1>3 DEF Opening, OpeningCall, CallRecord, Holding
  <2>7. f \in Function /\ f.fn = "open" /\ f.port = m /\ f.caller = c
    BY <1>2 DEF Function, OpenFunction
  <2> HIDE DEF closed, new, f, y, x
  <2>8. /\ port' \in Seq(PortRecord) /\ Len(port') = m /\ port'[m] = new
        /\ DOMAIN port' = 1 .. m /\ \A p \in DOMAIN port : port'[p] = closed[p]
    BY <1>2, <2>3, <2>4, <2>5
  <2>9. \A p \in DOMAIN port' : p \in DOMAIN port \/ p = m
    BY <1>2, <2>8
  <2>10. /\ queue' \in Seq(Function) /\ Len(queue') = Len(queue) + 1 /\ queue'[Len(queue) + 1] = f
         /\ \A i \in DOMAIN queue : queue'[i] = queue[i]
         /\ \A i \in DOMAIN queue' : i \in DOMAIN queue \/ i = Len(queue) + 1
    BY <1>2, <2>4, <2>7
  <2>11. /\ call' \in [Callers -> CallRecord] /\ Exclusive'
         /\ call'[c] = y /\ \A d \in Callers : d # c => call'[d] = call[d] /\ call[d].op \notin Holding
    BY <1>1, <2>4, <2>6, HolderSteps DEF x
  <2>12. \A p \in DOMAIN port : ~Opens(c, p)
    BY <1>1 DEF Opens, x
  <2>13. Typed'
    <3>1. \A i \in DOMAIN queue' : queue'[i].fn = "open" => queue'[i].port \in DOMAIN port'
      <4>1. \A i \in DOMAIN queue : queue[i].fn = "open" => queue[i].port \in DOMAIN port /\ queue[i].port \in 1 .. m
        BY <1>2 DEF PortsInv, Typed
      <4>2. m \in 1 .. m
        BY <1>2
      <4> QED BY <2>7, <2>8, <2>10, <4>1, <4>2
    <3>2. ports' \in [Names -> 0 .. Len(port')]
      BY <1>1, <1>2, <2>8 DEF PortsInv, Typed
    <3> QED BY <2>8, <2>10, <2>11, <3>1, <3>2 DEF Typed
  <2>14. \A p \in DOMAIN port' : port'[p].state = "open" =>
            p \in DOMAIN port /\ port'[p] = port[p] /\ ports[port[p].name] = p /\ port[p].name # n
    <3> SUFFICES ASSUME NEW p \in DOMAIN port', port'[p].state = "open"
                 PROVE  p \in DOMAIN port /\ port'[p] = port[p] /\ ports[port[p].name] = p /\ port[p].name # n
      OBVIOUS
    <3>1. p \in DOMAIN port
      BY <2>5, <2>8, <2>9
    <3>2. port'[p] = port[p] /\ p # old
      BY <2>2, <2>8, <3>1
    <3>3. ports[port[p].name] = p
      BY <1>1, <2>12, <3>1, <3>2, NoneInHand DEF x
    <3> QED BY <3>1, <3>2, <3>3
  <2>15. NewInHand'
    <3> SUFFICES ASSUME NEW d \in Callers, call'[d].op = "opening"
                 PROVE  /\ call'[d].port \in DOMAIN port'
                        /\ port'[call'[d].port].name = call'[d].name
                        /\ \A q \in DOMAIN port' :
                              port'[q].state = "open" /\ port'[q].name = call'[d].name => q = call'[d].port
      BY DEF NewInHand
    <3>1. d = c
      BY <2>11 DEF Holding
    <3>2. call'[d].port = m /\ call'[d].name = n /\ m \in DOMAIN port'
      BY <1>2, <2>6, <2>8, <2>11, <3>1
    <3> QED BY <2>5, <2>8, <2>14, <3>2
  <2>16. Posted'
    <3>1. \A i \in DOMAIN queue : queue[i].fn = "open" => ~port'[queue[i].port].alive
      <4> SUFFICES ASSUME NEW i \in DOMAIN queue, queue[i].fn = "open", port'[queue[i].port].alive PROVE FALSE
        OBVIOUS
      <4>1. queue[i].port \in DOMAIN port
        BY DEF PortsInv, Typed
      <4>2. port[queue[i].port].alive
        BY <2>2, <2>8, <4>1 DEF Quieter, Quiet
      <4> QED BY <1>1, <2>12, <4>1, <4>2, NoneInHand DEF x
    <3>2. ASSUME NEW i \in DOMAIN queue', queue'[i].fn = "open", port'[queue'[i].port].alive
          PROVE  /\ call'[queue'[i].caller].op = "opening" /\ call'[queue'[i].caller].port = queue'[i].port
                 /\ call'[queue'[i].caller].result = "none"
      <4>1. queue'[i] = f
        BY <2>10, <3>1, <3>2
      <4> QED BY <2>6, <2>7, <2>11, <4>1
    <3>3. ASSUME NEW i \in DOMAIN queue', NEW j \in DOMAIN queue', queue'[i].fn = "open",
                 queue'[j].fn = "open", queue'[i].port = queue'[j].port
          PROVE  i = j
      <4>1. \A k \in DOMAIN queue : queue[k].fn = "open" => queue[k].port # m
        BY <1>2 DEF PortsInv, Typed
      <4>2. CASE i \in DOMAIN queue /\ j \in DOMAIN queue
        <5>1. queue[i] = queue'[i] /\ queue[j] = queue'[j]
          BY <2>10, <4>2
        <5> QED BY <3>3, <4>2, <5>1 DEF PortsInv, Posted
      <4> QED BY <2>7, <2>10, <3>3, <4>1, <4>2
    <3> QED BY <3>2, <3>3, Zenon DEF Posted, Opens
  <2>17. Reached'
    BY <1>1, <2>14 DEF Reached
  <2>18. Received'
    <3> SUFFICES ASSUME NEW p \in DOMAIN port' PROVE Receives(port'[p])
      BY DEF Received
    <3>1. CASE p \in DOMAIN port
      BY <2>2, <2>8, <3>1 DEF PortsInv, Received, Quieter, Quiet
    <3>2. CASE p = m
      BY <2>5, <2>8, <3>2
    <3> QED BY <2>9, <3>1, <3>2
  <2> QED BY <2>11, <2>13, <2>15, <2>16, <2>17, <2>18 DEF PortsInv
<1> QED BY <1>4, <1>5

\* What the end of a port, or of several, leaves to show: the holder of mutex_
\* no longer waits for an Open, the ports are quieter, and what is still open can
\* be found in the map.
LEMMA HolderEnds ==
  ASSUME PortsInv, NEW c \in Callers, call[c].op \in Holding, NEW y \in CallRecord,
         call' = [call EXCEPT ![c] = y], y.op # "opening",
         y.op \in Holding => mutex' = c, queue' = queue,
         Quieter(port, port'), ports' \in [Names -> 0 .. Len(port)],
         \A i \in DOMAIN queue : queue[i].fn = "open" => ~port'[queue[i].port].alive,
         \A p \in DOMAIN port : port'[p].state = "open" => ports'[port[p].name] = p
  PROVE  PortsInv'
<1>1. /\ call' \in [Callers -> CallRecord] /\ Exclusive'
      /\ call'[c] = y /\ \A d \in Callers : d # c => call'[d] = call[d] /\ call[d].op \notin Holding
  BY HolderSteps
<1>2. /\ port' \in Seq(PortRecord) /\ Len(port') = Len(port) /\ DOMAIN port' = DOMAIN port
      /\ \A p \in DOMAIN port : Quiet(port[p], port'[p])
  BY DEF Quieter, PortsInv, Typed
<1>3. Typed'
  BY <1>1, <1>2 DEF PortsInv, Typed
<1>4. \A d \in Callers : call'[d].op # "opening"
  BY <1>1 DEF Holding
<1>5. NewInHand'
  BY <1>4 DEF NewInHand
<1>6. Posted'
  BY DEF PortsInv, Posted
<1>7. Reached'
  BY <1>2 DEF Reached, Quiet
<1>8. Received'
  BY <1>2 DEF PortsInv, Received, Quiet
<1> QED BY <1>1, <1>3, <1>5, <1>6, <1>7, <1>8 DEF PortsInv

\* A call that ends gives mutex_ back.
LEMMA HolderReturns ==
  ASSUME PortsInv, NEW c \in Callers, call[c].op \in Holding, Returns(c), queue' = queue,
         Quieter(port, port'), ports' \in [Names -> 0 .. Len(port)],
         \A i \in DOMAIN queue : queue[i].fn = "open" => ~port'[queue[i].port].alive,
         \A p \in DOMAIN port : port'[p].state = "open" => ports'[port[p].name] = p
  PROVE  PortsInv'
<1>1. Idle \in CallRecord /\ Idle.op = "idle"
  BY DEF Idle, CallRecord, PlainCall
<1>2. call' = [call EXCEPT ![c] = Idle]
  BY DEF Returns
<1> HIDE DEF Idle
<1>3. Idle.op # "opening" /\ Idle.op \notin Holding
  BY <1>1 DEF Holding
<1> QED BY <1>1, <1>2, <1>3, HolderEnds

\* One port ends.
LEMMA OneEnds ==
  ASSUME PortsInv, NEW q, port' = [port EXCEPT ![q] = Destroyed(port[q])]
  PROVE  /\ Quieter(port, port')
         /\ \A p \in DOMAIN port : port'[p].state = "open" => port[p].state = "open" /\ p # q
         /\ \A p \in DOMAIN port : port'[p].alive => port[p].alive /\ p # q
<1>1. port \in Seq(PortRecord)
  BY DEF PortsInv, Typed
<1>2. q \in DOMAIN port => /\ Quiet(port[q], Destroyed(port[q])) /\ Destroyed(port[q]).state = "closed"
                           /\ ~Destroyed(port[q]).alive
  <2> SUFFICES ASSUME q \in DOMAIN port
               PROVE  /\ Quiet(port[q], Destroyed(port[q])) /\ Destroyed(port[q]).state = "closed"
                      /\ ~Destroyed(port[q]).alive
    OBVIOUS
  <2>1. port[q] \in PortRecord
    BY <1>1
  <2> QED BY <2>1, QuietEnd
<1>3. Quieter(port, port')
  BY <1>1, <1>2, OneQuiet
<1>4. \A p \in DOMAIN port : Quiet(port[p], port'[p])
  BY <1>3 DEF Quieter
<1>5. \A p \in DOMAIN port : p = q => port'[p] = Destroyed(port[q])
  BY <1>1
<1>6. \A p \in DOMAIN port : p = q => port'[p].state # "open" /\ ~port'[p].alive
  BY <1>2, <1>5
<1> QED BY <1>3, <1>4, <1>6, Zenon DEF Quiet

\* An Open returns: its port replaces the one in the map, or is destroyed.
LEMMA OpenReturnsKeeps ==
  ASSUME PortsInv, NEW c \in Callers, OpenReturns(c)
  PROVE  PortsInv'
<1> DEFINE x == call[c]
           gone == IF x.result = "ok" THEN ports[x.name] ELSE x.port
<1>1. /\ x.op = "opening" /\ x.op \in Holding /\ x.result # "none" /\ Returns(c) /\ queue' = queue
      /\ ports' = IF x.result = "ok" THEN [ports EXCEPT ![x.name] = x.port] ELSE ports
      /\ port' = IF gone = 0 THEN port ELSE [port EXCEPT ![gone] = Destroyed(port[gone])]
  BY DEF OpenReturns, Holding
<1>2. /\ x.port \in DOMAIN port /\ port[x.port].name = x.name
      /\ \A q \in DOMAIN port : port[q].state = "open" /\ port[q].name = x.name => q = x.port
  BY <1>1 DEF PortsInv, NewInHand
<1>3. x.name \in Names /\ port \in Seq(PortRecord) /\ ports \in [Names -> 0 .. Len(port)]
  BY <1>1, InMap DEF PortsInv, Typed
<1>4. /\ Quieter(port, port')
      /\ \A p \in DOMAIN port : port'[p].state = "open" => port[p].state = "open" /\ p # gone
      /\ \A p \in DOMAIN port : port'[p].alive => port[p].alive
  <2>1. CASE gone = 0
    <3>1. port' = port
      BY <1>1, <2>1
    <3>2. Quieter(port, port)
      BY <1>3, NoneQuieter
    <3>3. \A p \in DOMAIN port : p # gone
      BY <1>3, <2>1
    <3> QED BY <3>1, <3>2, <3>3
  <2>2. CASE gone # 0
    <3> HIDE DEF gone
    <3>1. port' = [port EXCEPT ![gone] = Destroyed(port[gone])]
      BY <1>1, <2>2
    <3> QED BY <3>1, OneEnds
  <2> QED BY <2>1, <2>2
<1> HIDE DEF gone
<1>5. ports' \in [Names -> 0 .. Len(port)]
  BY <1>1, <1>2, <1>3
<1>6. \A i \in DOMAIN queue : queue[i].fn = "open" => ~port'[queue[i].port].alive
  <2> SUFFICES ASSUME NEW i \in DOMAIN queue, queue[i].fn = "open", port'[queue[i].port].alive PROVE FALSE
    OBVIOUS
  <2>1. queue[i].port \in DOMAIN port
    BY DEF PortsInv, Typed
  <2> QED BY <1>1, <1>4, <2>1, NoneInHand
<1>7. ASSUME NEW p \in DOMAIN port, port'[p].state = "open" PROVE ports'[port[p].name] = p
  <2>1. port[p].state = "open" /\ p # gone
    BY <1>4, <1>7
  <2>2. ports[port[p].name] = p \/ p = x.port
    BY <1>1, <2>1, NoneInHand DEF Opens
  <2>3. port[p].name \in Names
    <3>1. port[p] \in PortRecord
      BY <1>3
    <3> QED BY <3>1 DEF PortRecord
  <2>4. CASE x.result = "ok"
    <3>1. ports' = [ports EXCEPT ![x.name] = x.port]
      BY <1>1, <2>4
    <3>2. port[p].name = x.name => p = x.port
      BY <1>2, <2>1
    <3> QED BY <1>2, <1>3, <2>2, <2>3, <3>1, <3>2
  <2>5. CASE x.result # "ok"
    <3>1. ports' = ports /\ gone = x.port
      BY <1>1, <2>5 DEF gone
    <3> QED BY <2>1, <2>2, <3>1
  <2> QED BY <2>4, <2>5
<1> QED BY <1>1, <1>4, <1>5, <1>6, <1>7, HolderReturns

\* An Open gives up: its port is destroyed, and its function finds it so.
LEMMA OpenTimesOutKeeps ==
  ASSUME PortsInv, NEW c \in Callers, OpenTimesOut(c)
  PROVE  PortsInv'
<1> DEFINE q == call[c].port
<1>1. /\ call[c].op = "opening" /\ call[c].op \in Holding /\ Returns(c) /\ queue' = queue /\ ports' = ports
      /\ port' = [port EXCEPT ![q] = Destroyed(port[q])]
  BY DEF OpenTimesOut, Holding
<1> HIDE DEF q
<1>2. /\ Quieter(port, port')
      /\ \A p \in DOMAIN port : port'[p].state = "open" => port[p].state = "open" /\ p # q
      /\ \A p \in DOMAIN port : port'[p].alive => port[p].alive /\ p # q
  BY <1>1, OneEnds
<1>3. ports' \in [Names -> 0 .. Len(port)]
  BY <1>1 DEF PortsInv, Typed
<1>4. \A i \in DOMAIN queue : queue[i].fn = "open" => ~port'[queue[i].port].alive
  <2> SUFFICES ASSUME NEW i \in DOMAIN queue, queue[i].fn = "open", port'[queue[i].port].alive PROVE FALSE
    OBVIOUS
  <2>1. queue[i].port \in DOMAIN port
    BY DEF PortsInv, Typed
  <2> QED BY <1>1, <1>2, <2>1, NoneInHand DEF Opens, q
<1>5. \A p \in DOMAIN port : port'[p].state = "open" => ports'[port[p].name] = p
  BY <1>1, <1>2, NoneInHand DEF Opens, q
<1> QED BY <1>1, <1>2, <1>3, <1>4, <1>5, HolderReturns

\* Close destroys the port that it takes out of the map.
LEMMA CloseErasesKeeps ==
  ASSUME PortsInv, NEW c \in Callers, CloseErases(c)
  PROVE  PortsInv'
<1> DEFINE n == call[c].name
           q == ports[n]
<1>1. /\ call[c].op = "closing" /\ call[c].op \in Holding /\ Returns(c) /\ queue' = queue
      /\ ports' = [ports EXCEPT ![n] = 0]
      /\ port' = [port EXCEPT ![q] = Destroyed(port[q])]
  BY DEF CloseErases, Holding
<1> HIDE DEF q
<1>2. /\ Quieter(port, port')
      /\ \A p \in DOMAIN port : port'[p].state = "open" => port[p].state = "open" /\ p # q
      /\ \A p \in DOMAIN port : port'[p].alive => port[p].alive /\ p # q
  BY <1>1, OneEnds
<1>3. ports \in [Names -> 0 .. Len(port)] /\ port \in Seq(PortRecord) /\ n \in Names
  BY <1>1, InMap DEF PortsInv, Typed
<1>4. ports' \in [Names -> 0 .. Len(port)]
  BY <1>1, <1>3
<1>5. \A p \in DOMAIN port : ~Opens(c, p)
  BY <1>1 DEF Opens
<1>6. \A i \in DOMAIN queue : queue[i].fn = "open" => ~port'[queue[i].port].alive
  <2> SUFFICES ASSUME NEW i \in DOMAIN queue, queue[i].fn = "open", port'[queue[i].port].alive PROVE FALSE
    OBVIOUS
  <2>1. queue[i].port \in DOMAIN port
    BY DEF PortsInv, Typed
  <2> QED BY <1>1, <1>2, <1>5, <2>1, NoneInHand
<1>7. ASSUME NEW p \in DOMAIN port, port'[p].state = "open" PROVE ports'[port[p].name] = p
  <2>1. ports[port[p].name] = p /\ p # q
    BY <1>1, <1>2, <1>5, <1>7, NoneInHand
  <2>2. port[p].name # n
    BY <2>1 DEF q
  <2>3. port[p].name \in Names
    <3>1. port[p] \in PortRecord
      BY <1>3
    <3> QED BY <3>1 DEF PortRecord
  <2> QED BY <1>1, <1>3, <2>1, <2>2, <2>3
<1> QED BY <1>1, <1>2, <1>4, <1>6, <1>7, HolderReturns

\* Stop destroys the ports in the map: no other is open.
LEMMA StopClosesKeeps ==
  ASSUME PortsInv, NEW c \in Callers, StopCloses(c)
  PROVE  PortsInv'
<1> DEFINE x == call[c]
           y == [x EXCEPT !.op = "joining"]
<1>1. /\ x.op = "stopping" /\ x.op \in Holding /\ queue' = queue /\ mutex' = mutex /\ mutex = c
      /\ port' = [p \in DOMAIN port |-> IF p \in Range(ports) THEN Destroyed(port[p]) ELSE port[p]]
      /\ ports' = [n \in Names |-> 0]
      /\ call' = [call EXCEPT ![c].op = "joining"]
  BY DEF StopCloses, Holding, PortsInv, Exclusive
<1>2. port \in Seq(PortRecord) /\ ports \in [Names -> 0 .. Len(port)] /\ x \in CallRecord
      /\ call \in [Callers -> CallRecord]
  BY DEF PortsInv, Typed
<1>3. call' = [call EXCEPT ![c] = y]
  BY <1>1, <1>2
<1> HIDE DEF x
<1>4. y \in CallRecord /\ y.op = "joining"
  <2>1. x \in PlainCall
    BY <1>1, <1>2, CallShape
  <2>2. y \in PlainCall /\ y.op = "joining"
    BY <2>1, CallGoesOn
  <2> QED BY <2>2 DEF CallRecord
<1> HIDE DEF y
<1>5. ASSUME NEW p \in DOMAIN port
      PROVE  /\ Quiet(port[p], port'[p])
             /\ port'[p].state = "open" => port[p].state = "open" /\ p \notin Range(ports)
  <2>1. port[p] \in PortRecord
    BY <1>2
  <2>2. /\ Quiet(port[p], port[p]) /\ Quiet(port[p], Destroyed(port[p]))
        /\ Destroyed(port[p]).state = "closed"
    BY <2>1, QuietRead, QuietEnd
  <2>3. port'[p] = IF p \in Range(ports) THEN Destroyed(port[p]) ELSE port[p]
    BY <1>1
  <2> QED BY <2>2, <2>3
<1>6. Quieter(port, port')
  <2>1. DOMAIN port' = 1 .. Len(port) /\ Len(port) \in Nat
    BY <1>1, <1>2
  <2>2. \A p \in 1 .. Len(port) : port'[p] \in PortRecord
    BY <1>2, <1>5 DEF Quiet
  <2>3. port' = [p \in 1 .. Len(port) |-> port'[p]]
    BY <1>1, <2>1
  <2>4. port' \in [1 .. Len(port) -> PortRecord]
    BY <2>2, <2>3
  <2>5. port' \in Seq(PortRecord) /\ Len(port') = Len(port)
    <3> HIDE DEF PortRecord
    <3> QED BY <2>1, <2>4
  <2> QED BY <1>5, <2>5 DEF Quieter
<1>7. \A p \in DOMAIN port : ~Opens(c, p)
  BY <1>1 DEF Opens, x
<1>8. ASSUME NEW p \in DOMAIN port, port'[p].state = "open" PROVE FALSE
  <2>1. ports[port[p].name] = p /\ p \notin Range(ports)
    BY <1>1, <1>5, <1>7, <1>8, NoneInHand DEF x
  <2>2. port[p].name \in Names
    <3>1. port[p] \in PortRecord
      BY <1>2
    <3> QED BY <3>1 DEF PortRecord
  <2> QED BY <1>2, <2>1, <2>2 DEF Range
<1>9. \A i \in DOMAIN queue : queue[i].fn = "open" => ~port'[queue[i].port].alive
  <2> SUFFICES ASSUME NEW i \in DOMAIN queue, queue[i].fn = "open", port'[queue[i].port].alive PROVE FALSE
    OBVIOUS
  <2>1. queue[i].port \in DOMAIN port
    BY DEF PortsInv, Typed
  <2>2. port[queue[i].port].alive
    BY <1>5, <2>1 DEF Quiet
  <2> QED BY <1>1, <1>7, <2>1, <2>2, NoneInHand DEF x
<1>10. ports' \in [Names -> 0 .. Len(port)]
  BY <1>1, <1>2
<1>11. y.op # "opening" /\ (y.op \in Holding => mutex' = c)
  BY <1>1, <1>4
<1> QED BY <1>1, <1>3, <1>4, <1>6, <1>8, <1>9, <1>10, <1>11, HolderEnds DEF x

-----------------------------------------------------------------------------
(* Steps of the io thread and the devices                                  *)

\* A step that leaves the calls and the map alone.
LEMMA PortStep ==
  ASSUME PortsInv, Quieter(port, port'), ports' = ports, call' = call, mutex' = mutex,
         Carried(queue, queue')
  PROVE  PortsInv'
BY CallsStay, QuietStep

\* One of the ports changes quietly.
LEMMA OnePortStep ==
  ASSUME PortsInv, NEW p, NEW y, port' = [port EXCEPT ![p] = y],
         p \in DOMAIN port => Quiet(port[p], y),
         ports' = ports, call' = call, mutex' = mutex, Carried(queue, queue')
  PROVE  PortsInv'
<1>1. port \in Seq(PortRecord)
  BY DEF PortsInv, Typed
<1>2. Quieter(port, port')
  BY <1>1, OneQuiet
<1> QED BY <1>2, PortStep

\* No port changes.
LEMMA NoPortStep ==
  ASSUME PortsInv, port' = port, ports' = ports, call' = call, mutex' = mutex, Carried(queue, queue')
  PROVE  PortsInv'
<1>1. port \in Seq(PortRecord)
  BY DEF PortsInv, Typed
<1>2. Quieter(port, port')
  BY <1>1, NoneQuieter
<1> QED BY <1>2, PortStep

\* A function is taken from the queue.
LEMMA PopsFunction ==
  ASSUME PortsInv, NEW fn, Pops(fn)
  PROVE  /\ ports' = ports /\ mutex' = mutex /\ queue' = Tail(queue) /\ Carried(queue, queue')
         /\ 1 \in DOMAIN queue /\ Head(queue) = queue[1]
         /\ queue[1] \in Function /\ queue[1].fn = fn
<1>1. /\ queue # <<>> /\ Head(queue).fn = fn /\ queue' = Tail(queue)
      /\ ports' = ports /\ mutex' = mutex
  BY DEF Pops
<1>2. Carried(queue, queue')
  BY <1>1, QueueCarried
<1>3. queue \in Seq(Function)
  BY DEF PortsInv, Typed
<1>4. 1 \in DOMAIN queue /\ Head(queue) = queue[1]
  BY <1>1, <1>3
<1> QED BY <1>1, <1>2, <1>3, <1>4

\* The posted Close closes a port that still exists.
LEMMA RunsCloseKeeps ==
  ASSUME PortsInv, RunsClose
  PROVE  PortsInv'
<1> DEFINE p == Head(queue).port
<1>1. Pops("close") /\ call' = call
  BY DEF RunsClose
<1>2. /\ ports' = ports /\ mutex' = mutex /\ Carried(queue, queue')
  BY <1>1, PopsFunction
<1>3. port' = [port EXCEPT ![p] = Closed(port[p])] \/ port' = port
  BY DEF RunsClose
<1> HIDE DEF p
<1>4. p \in DOMAIN port => Quiet(port[p], Closed(port[p]))
  <2> SUFFICES ASSUME p \in DOMAIN port PROVE Quiet(port[p], Closed(port[p]))
    OBVIOUS
  <2>1. port[p] \in PortRecord
    BY DEF PortsInv, Typed
  <2> QED BY <2>1, QuietEnd
<1> QED BY <1>1, <1>2, <1>3, <1>4, OnePortStep, NoPortStep

\* The posted write leaves the ports alone.
LEMMA RunsWriteKeeps ==
  ASSUME PortsInv, RunsWrite
  PROVE  PortsInv'
<1>1. Pops("write") /\ call' = call /\ port' = port
  BY DEF RunsWrite
<1>2. ports' = ports /\ mutex' = mutex /\ Carried(queue, queue')
  BY <1>1, PopsFunction
<1> QED BY <1>1, <1>2, NoPortStep

\* The port that opens is in the hands of its Open, which alone holds mutex_.
LEMMA RunsOpenKeeps ==
  ASSUME PortsInv, RunsOpen
  PROVE  PortsInv'
<1> DEFINE f == queue[1]
           q == f.port
           c == f.caller
<1>1. Pops("open")
  BY DEF RunsOpen
<1>2. /\ ports' = ports /\ mutex' = mutex /\ queue' = Tail(queue) /\ Carried(queue, queue')
      /\ 1 \in DOMAIN queue /\ Head(queue) = f /\ f \in Function /\ f.fn = "open" /\ q \in DOMAIN port
  <2>1. /\ ports' = ports /\ mutex' = mutex /\ queue' = Tail(queue) /\ Carried(queue, queue')
        /\ 1 \in DOMAIN queue /\ Head(queue) = f /\ f \in Function /\ f.fn = "open"
    BY <1>1, PopsFunction
  <2> QED BY <2>1 DEF PortsInv, Typed
<1>3. c \in Callers
  BY <1>2 DEF Function, OpenFunction, PlainFunction
<1>4. CASE ~port[q].alive
  <2>1. port' = port /\ call' = call
    BY <1>2, <1>4 DEF RunsOpen
  <2> QED BY <1>2, <2>1, NoPortStep
<1>5. CASE port[q].alive
  <2>1. PICK ok \in BOOLEAN :
           /\ port' = IF ok THEN [port EXCEPT ![q].state = "open", ![q].read = "pending"] ELSE port
           /\ call' = [call EXCEPT ![c].result = IF ok THEN "ok" ELSE "failed"]
    BY <1>2, <1>5 DEF RunsOpen
  <2> DEFINE x == call[c]
             r == IF ok THEN "ok" ELSE "failed"
             y == [x EXCEPT !.result = r]
             z == IF ok THEN [port[q] EXCEPT !.state = "open", !.read = "pending"] ELSE port[q]
  <2>2. Opens(c, q) /\ x.result = "none"
    BY <1>2, <1>5 DEF PortsInv, Posted
  <2>3. x.op = "opening" /\ x.port = q /\ x.op \in Holding
    BY <2>2 DEF Opens, Holding
  <2>4. /\ port \in Seq(PortRecord) /\ call \in [Callers -> CallRecord] /\ port[q] \in PortRecord
        /\ x \in OpeningCall
    <3>1. port \in Seq(PortRecord) /\ call \in [Callers -> CallRecord]
      BY DEF PortsInv, Typed
    <3>2. x \in CallRecord
      BY <1>3, <3>1
    <3> QED BY <1>2, <2>3, <3>1, <3>2, CallShape
  <2>5. port' = [port EXCEPT ![q] = z]
    <3> HIDE DEF q
    <3>1. CASE ok
      BY <2>1, <2>4, <3>1
    <3>2. CASE ~ok
      <4>1. port' = port /\ z = port[q]
        BY <2>1, <3>2
      <4> QED BY <1>2, <2>4, <4>1
    <3> QED BY <3>1, <3>2
  <2>6. call' = [call EXCEPT ![c] = y]
    BY <1>3, <2>1, <2>4
  <2>7. /\ y \in OpeningCall /\ y.op = "opening" /\ y.port = q /\ y.name = x.name
    <3>1. r \in {"none", "ok", "failed"}
      OBVIOUS
    <3> HIDE DEF r, x, q
    <3>2. y \in OpeningCall /\ y.op = "opening" /\ y.port = x.port /\ y.name = x.name
      BY <2>4, <3>1, OpenGetsResult
    <3> QED BY <2>3, <3>2
  <2>8. /\ z \in PortRecord /\ z.name = port[q].name /\ z.alive = port[q].alive
        /\ z.protocol = port[q].protocol /\ z.got = port[q].got /\ z.buf = port[q].buf
        /\ z.frames = port[q].frames
    <3> DEFINE v == port[q]
    <3>1. v \in PortRecord
      BY <2>4
    <3> HIDE DEF v
    <3>2. /\ [v EXCEPT !.state = "open", !.read = "pending"] \in PortRecord
          /\ LET w == [v EXCEPT !.state = "open", !.read = "pending"]
             IN /\ w.name = v.name /\ w.alive = v.alive /\ w.protocol = v.protocol
                /\ w.got = v.got /\ w.buf = v.buf /\ w.frames = v.frames
      BY <3>1 DEF PortRecord
    <3> QED BY <3>1, <3>2 DEF v
  <2>9. port[q].name = x.name /\ \A p \in DOMAIN port : port[p].state = "open" /\ port[p].name = x.name => p = q
    BY <1>3, <2>3 DEF PortsInv, NewInHand
  <2> HIDE DEF f, q, c, x, y, z
  <2>10. /\ port' \in Seq(PortRecord) /\ Len(port') = Len(port) /\ DOMAIN port' = DOMAIN port
         /\ \A p \in DOMAIN port : port'[p] = IF p = q THEN z ELSE port[p]
    BY <2>4, <2>5, <2>8, OnePort
  <2>11. /\ call' \in [Callers -> CallRecord] /\ Exclusive'
         /\ call'[c] = y /\ \A d \in Callers : d # c => call'[d] = call[d] /\ call[d].op \notin Holding
    <3>1. y \in CallRecord
      BY <2>7 DEF CallRecord
    <3>2. mutex' = c
      BY <1>2, <1>3, <2>3 DEF PortsInv, Exclusive, x
    <3> QED BY <1>3, <2>3, <2>6, <3>1, <3>2, HolderSteps DEF x
  <2>12. Typed'
    BY <1>2, <2>10, <2>11 DEF PortsInv, Typed, Carried
  <2>13. \A d \in Callers : call'[d].op = "opening" => d = c
    BY <2>11 DEF Holding
  <2>14. \A p \in DOMAIN port : port'[p].name = port[p].name /\ (port'[p].state = "open" => p = q \/ port[p].state = "open")
    BY <2>8, <2>10
  <2>15. NewInHand'
    <3>1. call'[c].port = q /\ call'[c].name = x.name
      BY <2>7, <2>11
    <3>2. \A p \in DOMAIN port' : port'[p].state = "open" /\ port'[p].name = x.name => p = q
      BY <2>9, <2>10, <2>14
    <3> QED BY <1>2, <2>9, <2>10, <2>13, <2>14, <3>1, <3>2 DEF NewInHand
  <2>16. Reached'
    <3> SUFFICES ASSUME NEW p \in DOMAIN port', port'[p].state = "open"
                 PROVE  ports'[port'[p].name] = p \/ \E d \in Callers : Opens(d, p)'
      BY DEF Reached
    <3>1. call'[c].op = "opening" /\ call'[c].port = q
      BY <2>7, <2>11
    <3>2. CASE p = q
      BY <1>3, <3>1, <3>2 DEF Opens
    <3>3. CASE p # q
      <4>1. p \in DOMAIN port /\ port[p].state = "open"
        BY <2>10, <2>14, <3>3
      <4>2. ports[port[p].name] = p
        BY <1>3, <2>3, <3>3, <4>1, NoneInHand DEF Opens, x
      <4> QED BY <1>2, <2>14, <4>1, <4>2
    <3> QED BY <3>2, <3>3
  <2>17. Posted'
    <3>1. /\ \A i \in DOMAIN queue' : i + 1 \in DOMAIN queue /\ queue[i + 1] = queue'[i] /\ i + 1 # 1 /\ i \in Int
      <4>1. queue \in Seq(Function) /\ queue # <<>>
        BY <1>2 DEF PortsInv, Typed
      <4> HIDE DEF Function
      <4> QED BY <1>2, <4>1
    <3>2. ASSUME NEW i \in DOMAIN queue', queue'[i].fn = "open", port'[queue'[i].port].alive PROVE FALSE
      <4>1. i + 1 \in DOMAIN queue /\ queue[i + 1] = queue'[i] /\ i + 1 # 1
        BY <3>1
      <4>2. queue[i + 1].port \in DOMAIN port
        BY <3>2, <4>1 DEF PortsInv, Typed
      <4>3. port[queue[i + 1].port].alive
        BY <2>8, <2>10, <3>2, <4>1, <4>2
      <4>4. Opens(c, queue[i + 1].port)
        BY <1>3, <2>3, <3>2, <4>1, <4>3, NoneInHand DEF x
      <4>5. queue[i + 1].port = queue[1].port
        BY <2>3, <4>4 DEF Opens, x, q, f
      <4>6. \A j, k \in DOMAIN queue :
               queue[j].fn = "open" /\ queue[k].fn = "open" /\ queue[j].port = queue[k].port => j = k
        BY DEF PortsInv, Posted
      <4>7. i + 1 = 1
        BY <1>2, <3>2, <4>1, <4>5, <4>6 DEF f
      <4> QED BY <4>1, <4>7
    <3>3. ASSUME NEW i \in DOMAIN queue', NEW j \in DOMAIN queue', queue'[i].fn = "open",
                 queue'[j].fn = "open", queue'[i].port = queue'[j].port
          PROVE  i = j
      <4>1. i + 1 = j + 1
        BY <3>1, <3>3 DEF PortsInv, Posted
      <4>2. \A a, b \in Int : a + 1 = b + 1 => a = b
        OBVIOUS
      <4> QED BY <3>1, <4>1, <4>2
    <3> QED BY <3>2, <3>3, Zenon DEF Posted
  <2>18. Received'
    <3>1. Receives(port[q])
      BY <1>2 DEF PortsInv, Received
    <3>2. Receives(z)
      BY <2>8, <3>1, SameReceives
    <3> QED BY <2>10, <3>2 DEF PortsInv, Received
  <2> QED BY <2>11, <2>12, <2>15, <2>16, <2>17, <2>18 DEF PortsInv
<1> QED BY <1>4, <1>5

\* Bytes arrive.
LEMMA BytesArriveKeeps ==
  ASSUME PortsInv, NEW p \in DOMAIN port, BytesArrive(p)
  PROVE  PortsInv'
<1> DEFINE y == [port[p] EXCEPT !.read = "done"]
<1>1. port[p] \in PortRecord /\ port \in Seq(PortRecord)
  BY DEF PortsInv, Typed
<1>2. port' = [port EXCEPT ![p] = y] /\ ports' = ports /\ call' = call /\ mutex' = mutex /\ queue' = queue
  BY <1>1 DEF BytesArrive
<1>3. Quiet(port[p], y)
  BY <1>1, QuietRead
<1>4. Carried(queue, queue')
  BY <1>2, QueueCarried
<1> HIDE DEF y
<1> QED BY <1>2, <1>3, <1>4, OnePortStep

\* A read fails and closes its port.
LEMMA ReadFailsKeeps ==
  ASSUME PortsInv, NEW p \in DOMAIN port, ReadFails(p)
  PROVE  PortsInv'
<1>1. port[p] \in PortRecord
  BY DEF PortsInv, Typed
<1>2. /\ port' = [port EXCEPT ![p] = Closed(port[p])]
      /\ ports' = ports /\ call' = call /\ mutex' = mutex /\ queue' = queue
  BY DEF ReadFails
<1>3. Quiet(port[p], Closed(port[p]))
  BY <1>1, QuietEnd
<1>4. Carried(queue, queue')
  BY <1>2, QueueCarried
<1> QED BY <1>2, <1>3, <1>4, OnePortStep

\* OnRead changes a port that is open: what it has received, and its read.
LEMMA QuietReads ==
  ASSUME NEW x \in PortRecord, NEW k \in Nat, x.got + k <= Len(Stream[x.protocol]),
         NEW r \in {"none", "pending"}
  PROVE  LET f == OnData(x.protocol, x.buf \o SubSeq(Stream[x.protocol], x.got + 1, x.got + k))
         IN Quiet(x, [x EXCEPT !.read = r, !.got = x.got + k, !.buf = f.rest, !.frames = x.frames \o f.frames])
<1> DEFINE all == Stream[x.protocol]
           data == SubSeq(all, x.got + 1, x.got + k)
           f == OnData(x.protocol, x.buf \o data)
           got == x.got + k
           frames == x.frames \o f.frames
           rest == f.rest
           y == [x EXCEPT !.read = r, !.got = got, !.buf = rest, !.frames = frames]
<1>1. all \in Seq(Byte) /\ x.got \in Nat /\ x.buf \in Seq(Byte) /\ x.frames \in Seq(Seq(Byte))
  BY ProtocolAssumption DEF PortRecord
<1>2. data \in Seq(Byte)
  <2>1. got <= Len(all)
    OBVIOUS
  <2> HIDE DEF all
  <2> QED BY <1>1, <2>1
<1> HIDE DEF data
<1>3. x.buf \o data \in Seq(Byte)
  BY <1>1, <1>2
<1>4. f \in Framed
  BY <1>3, OnDataTyped
<1>5. rest \in Seq(Byte) /\ f.frames \in Seq(Seq(Byte))
  BY <1>4 DEF Framed
<1> HIDE DEF f, rest
<1>6. frames \in Seq(Seq(Byte)) /\ got \in Nat
  BY <1>1, <1>5
<1> HIDE DEF frames, got
<1>7. /\ y \in PortRecord /\ y.name = x.name /\ y.state = x.state /\ y.alive = x.alive
      /\ y.protocol = x.protocol /\ y.got = got /\ y.buf = rest /\ y.frames = frames
  BY <1>5, <1>6 DEF PortRecord
<1> HIDE DEF y
<1>8. Receives(x) => Receives(y)
  BY <1>7, ReadReceives DEF got, rest, frames, f, data
<1>9. Quiet(x, y)
  BY <1>7, <1>8, Zenon DEF Quiet
<1> QED BY <1>9 DEF y, got, rest, frames, f, data

\* OnRead.
LEMMA ReadsKeeps ==
  ASSUME PortsInv, NEW p \in DOMAIN port, NEW k \in 1 .. Len(Stream[port[p].protocol]),
         NEW sends \in BOOLEAN, Reads(p, k, sends)
  PROVE  PortsInv'
<1> DEFINE x == port[p]
           f == OnData(x.protocol, x.buf \o SubSeq(Stream[x.protocol], x.got + 1, x.got + k))
           quiet == [x EXCEPT !.read = "none"]
           y(r) == [x EXCEPT !.read = r, !.got = x.got + k, !.buf = f.rest, !.frames = x.frames \o f.frames]
<1>1. x \in PortRecord /\ port \in Seq(PortRecord)
  BY DEF PortsInv, Typed
<1>2. /\ x.got + k <= Len(Stream[x.protocol]) /\ k \in Nat
      /\ ports' = ports /\ call' = call /\ mutex' = mutex /\ queue' = queue
  BY DEF Reads
<1>3. Carried(queue, queue')
  BY <1>2, QueueCarried
<1>4. Quiet(x, quiet) /\ Quiet(x, y("none")) /\ Quiet(x, y("pending"))
  <2> HIDE DEF x
  <2> QED BY <1>1, <1>2, QuietRead, QuietReads
<1>5. \/ port' = port
      \/ port' = [port EXCEPT ![p] = quiet]
      \/ port' = [port EXCEPT ![p] = y("none")]
      \/ port' = [port EXCEPT ![p] = y("pending")]
  <2>1. CASE ~x.alive
    BY <2>1 DEF Reads
  <2>2. CASE x.alive /\ x.state # "open"
    <3>1. ~sends /\ port' = [port EXCEPT ![p] = quiet]
      BY <2>2 DEF Reads
    <3> QED BY <3>1
  <2>3. CASE x.alive /\ x.state = "open"
    <3> DEFINE z == [x EXCEPT !.read = "pending", !.got = @ + k, !.buf = f.rest, !.frames = @ \o f.frames]
    <3>1. port' = [port EXCEPT ![p] = IF sends THEN [z EXCEPT !.read = "none"] ELSE z]
      BY <2>3 DEF Reads
    <3>2. z = y("pending")
      OBVIOUS
    <3>3. [z EXCEPT !.read = "none"] = y("none")
      <4> DEFINE rest == f.rest
                 more == f.frames
      <4> HIDE DEF x, rest, more
      <4> QED BY <1>1 DEF PortRecord
    <3> QED BY <3>1, <3>2, <3>3
  <2> QED BY <2>1, <2>2, <2>3
<1> HIDE DEF quiet, y
<1> QED BY <1>2, <1>3, <1>4, <1>5, OnePortStep, NoPortStep

\* The Send of a receive callback.
LEMMA CallbackSendsKeeps ==
  ASSUME PortsInv, CallbackSends
  PROVE  PortsInv'
<1> DEFINE p == io.port
           f == [fn |-> "write", port |-> p]
           y == [port[p] EXCEPT !.read = "pending"]
<1>1. /\ ports' = ports /\ call' = call /\ mutex' = mutex
      /\ queue' = queue \/ (p \in Range(ports) /\ queue' = Append(queue, f))
      /\ port' = port \/ port' = [port EXCEPT ![p].read = "pending"]
  BY DEF CallbackSends
<1>2. port \in Seq(PortRecord) /\ ports \in [Names -> 0 .. Len(port)]
  BY DEF PortsInv, Typed
<1>3. Carried(queue, queue')
  <2>1. CASE queue' = queue
    BY <2>1, QueueCarried
  <2>2. CASE p \in Range(ports) /\ queue' = Append(queue, f)
    <3>1. p \in Nat
      BY <1>2, <2>2 DEF Range
    <3>2. f \in PlainFunction
      BY <3>1 DEF PlainFunction
    <3> QED BY <2>2, <3>1, <3>2, QueueCarried
  <2> QED BY <1>1, <2>1, <2>2
<1>4. CASE port' = port
  BY <1>1, <1>3, <1>4, NoPortStep
<1>5. CASE port' = [port EXCEPT ![p].read = "pending"]
  <2>1. p \in DOMAIN port => Quiet(port[p], y)
    <3> SUFFICES ASSUME p \in DOMAIN port PROVE Quiet(port[p], y)
      OBVIOUS
    <3>1. port[p] \in PortRecord
      BY <1>2
    <3> QED BY <3>1, QuietRead
  <2>2. port' = [port EXCEPT ![p] = y]
    BY <1>5
  <2> QED BY <1>1, <1>3, <2>1, <2>2, OnePortStep
<1> QED BY <1>1, <1>4, <1>5

-----------------------------------------------------------------------------
(* The theorems                                                            *)

\* The invariant holds at first.
LEMMA PortsInvInit == Init => PortsInv
<1> SUFFICES ASSUME Init PROVE PortsInv
  OBVIOUS
<1>1. /\ port = <<>> /\ queue = <<>> /\ ports = [n \in Names |-> 0]
      /\ call = [c \in Callers |-> Idle]
  BY DEF Init
<1>2. Idle \in CallRecord /\ Idle.op = "idle"
  BY DEF Idle, CallRecord, PlainCall
<1> HIDE DEF Idle
<1>3. Typed
  <2>1. Len(port) = 0 /\ DOMAIN queue = {}
    BY <1>1
  <2> QED BY <1>1, <1>2, <2>1 DEF Typed
<1>4. Exclusive /\ NewInHand
  BY <1>1, <1>2 DEF Exclusive, NewInHand, Holding
<1>5. Posted /\ Reached /\ Received
  BY <1>1 DEF Posted, Reached, Received
<1> QED BY <1>3, <1>4, <1>5 DEF PortsInv

\* Every step keeps it.
LEMMA PortsInvNext == PortsInv /\ [Next]_vars => PortsInv'
<1> SUFFICES ASSUME PortsInv, [Next]_vars PROVE PortsInv'
  OBVIOUS
<1>1. CASE UNCHANGED vars
  <2>1. port' = port /\ ports' = ports /\ call' = call /\ mutex' = mutex /\ queue' = queue
    BY <1>1 DEF vars
  <2>2. Carried(queue, queue')
    BY <2>1, QueueCarried
  <2> QED BY <2>1, <2>2, NoPortStep
<1>2. ASSUME NEW c \in Callers, CallSteps(c) PROVE PortsInv'
  BY <1>2, OpenLocksKeeps, OpenPostsKeeps, OpenReturnsKeeps, OpenTimesOutKeeps, DeleteTestsKeeps,
     ClosePostsKeeps, CloseErasesKeeps, SendLocksKeeps, SendPostsKeeps, QueriesKeeps,
     StopLocksKeeps, StopClosesKeeps, StopJoinsKeeps DEF CallSteps
<1>3. ASSUME NEW c \in Callers, NEW n \in Names, NEW p \in Protocols, OpenBegins(c, n, p) PROVE PortsInv'
  BY <1>3, OpenBeginsKeeps
<1>4. ASSUME NEW c \in Callers, NEW n \in Names, NEW op \in {"close", "delete", "send", "query"},
             CallBegins(c, op, n)
      PROVE  PortsInv'
  BY <1>4, CallBeginsKeeps
<1>5. ASSUME NEW c \in Callers, StopBegins(c) PROVE PortsInv'
  BY <1>5, StopBeginsKeeps
<1>6. ASSUME IoRuns \/ IoEnds PROVE PortsInv'
  <2>1. port' = port /\ ports' = ports /\ call' = call /\ mutex' = mutex /\ queue' = queue
    BY <1>6 DEF IoRuns, IoEnds
  <2>2. Carried(queue, queue')
    BY <2>1, QueueCarried
  <2> QED BY <2>1, <2>2, NoPortStep
<1>7. ASSUME RunsOpen \/ RunsClose \/ RunsWrite \/ CallbackSends PROVE PortsInv'
  BY <1>7, RunsOpenKeeps, RunsCloseKeeps, RunsWriteKeeps, CallbackSendsKeeps
<1>8. ASSUME NEW p \in DOMAIN port, NEW k \in 1 .. Len(Stream[port[p].protocol]), NEW sends \in BOOLEAN,
             Reads(p, k, sends)
      PROVE  PortsInv'
  BY <1>8, ReadsKeeps
<1>9. ASSUME NEW p \in DOMAIN port, BytesArrive(p) \/ ReadFails(p) PROVE PortsInv'
  BY <1>9, BytesArriveKeeps, ReadFailsKeeps
<1>10. CASE Step
  BY <1>2, <1>3, <1>4, <1>5, <1>6, <1>7, <1>8, <1>9, <1>10, Zenon DEF Step, IoSteps
<1> QED BY <1>1, <1>10 DEF Next

\* The invariant of the ports holds in every state.
THEOREM PortsInvariant == Spec => []PortsInv
<1>1. Init => PortsInv
  BY PortsInvInit
<1>2. PortsInv /\ [Next]_vars => PortsInv'
  BY PortsInvNext
<1> QED BY <1>1, <1>2, PTL DEF Spec

\* However calls of several threads and the io thread interleave, at most one
\* port object has the device of a name open, and it can be reached by its name
\* or belongs to an Open that has not returned.
THEOREM OneReaderHolds == Spec => []OneReader
<1>1. PortsInv => OneReader
  <2> SUFFICES ASSUME PortsInv, NEW p \in DOMAIN port, port[p].state = "open"
               PROVE  /\ \A q \in DOMAIN port :
                            port[q].state = "open" /\ port[q].name = port[p].name => q = p
                      /\ \/ ports[port[p].name] = p
                         \/ \E c \in Callers : call[c].op = "opening" /\ call[c].port = p
    BY DEF OneReader
  <2>1. \A q \in DOMAIN port : port[q].state = "open" =>
           ports[port[q].name] = q \/ \E c \in Callers : call[c].op = "opening" /\ call[c].port = q
    BY DEF PortsInv, Reached, Opens
  <2>2. ASSUME NEW q \in DOMAIN port, port[q].state = "open", port[q].name = port[p].name PROVE q = p
    <3>1. ASSUME NEW c \in Callers, call[c].op = "opening", NEW a \in DOMAIN port, call[c].port = a,
                 NEW b \in DOMAIN port, port[b].state = "open", port[b].name = port[a].name
          PROVE  b = a
      <4>1. port[a].name = call[c].name
        BY <3>1 DEF PortsInv, NewInHand
      <4> QED BY <3>1, <4>1 DEF PortsInv, NewInHand
    <3>2. CASE ports[port[p].name] = p /\ ports[port[q].name] = q
      BY <2>2, <3>2
    <3>3. CASE \E c \in Callers : call[c].op = "opening" /\ call[c].port = p
      BY <2>2, <3>1, <3>3
    <3>4. CASE \E c \in Callers : call[c].op = "opening" /\ call[c].port = q
      BY <2>2, <3>1, <3>4
    <3> QED BY <2>1, <2>2, <3>2, <3>3, <3>4
  <2> QED BY <2>1, <2>2
<1> QED BY <1>1, PortsInvariant, PTL

\* However the bytes of a device are cut into reads, a port hands out the frames
\* of what it has read, no other and none twice, until a frame that is too long
\* empties its buffer; those before that stay the first.
THEOREM FramesExactHolds == Spec => []FramesExact
<1>1. PortsInv => FramesExact
  BY DEF PortsInv, Received, Receives, FramesExact
<1> QED BY <1>1, PortsInvariant, PTL
===============================================================================
