------------------------- MODULE RtspSession_proofs -------------------------
(***************************************************************************)
(* What holds of the stream of an RTSP connection for every file, packet   *)
(* size, client and number of requests: a running loop has its timer, a    *)
(* session in PLAYING has its loop, no packet leaves a session that is     *)
(* paused or torn down, the packets that leave are those of the file in    *)
(* order, and a request that arrives whole is answered.                    *)
(*                                                                         *)
(* All but the last follow from StreamInv.  One part of it is that the     *)
(* loop runs only on a transport that plays, in a session in PLAYING or    *)
(* READY, and that a transport that plays without a loop is one whose      *)
(* is_playing was set from birth.  The other, Ordered, says of the queue   *)
(* that each packet follows the one before, the first what the receiver    *)
(* has, and that the file is read on behind the last: this rests on        *)
(* FragmentsCover, how a unit is cut, and FrameChain, how a frame's units  *)
(* are put together.                                                       *)
(***************************************************************************)
EXTENDS RtspSession, SequenceTheorems, WellFoundedInduction, TLAPS

-----------------------------------------------------------------------------
(* Induction over numbers                                                  *)

\* The order of the numbers is well-founded.
LEMMA LessIsWellFounded == IsWellFoundedOn({p \in Nat \X Nat : p[1] < p[2]}, Nat)
BY NatLessThanWellFounded DEF OpToRel

\* A set of numbers has a smallest one.
LEMMA Smallest ==
  ASSUME NEW T \in SUBSET Nat, T # {}
  PROVE  \E m \in T : \A n \in T : m <= n
<1> DEFINE less == {p \in Nat \X Nat : p[1] < p[2]}
<1>1. PICK m \in T : \A n \in T : <<n, m>> \notin less
  BY LessIsWellFounded, WFMin
<1>2. \A n \in T : n \in Nat /\ m \in Nat /\ ~(n < m)
  <2> SUFFICES ASSUME NEW n \in T PROVE n \in Nat /\ m \in Nat /\ ~(n < m)
    OBVIOUS
  <2>1. <<n, m>> \in Nat \X Nat /\ <<n, m>> \notin less
    BY <1>1
  <2> QED BY <2>1
<1> QED BY <1>2

\* A set that has 0, and with a number the next one, has them all.
LEMMA Induction ==
  ASSUME NEW T \in SUBSET Nat, 0 \in T, \A n \in T : n + 1 \in T
  PROVE  \A n \in Nat : n \in T
<1> SUFFICES ASSUME Nat \ T # {} PROVE FALSE
  OBVIOUS
<1>1. PICK m \in Nat \ T : \A n \in Nat \ T : m <= n
  BY Smallest
<1>2. m # 0 /\ m - 1 \in Nat /\ m - 1 \notin Nat \ T
  BY <1>1
<1>3. m - 1 \in T /\ (m - 1) + 1 = m
  BY <1>2
<1> QED BY <1>1, <1>3

\* A set of numbers has the minimum that Min chooses.
LEMMA MinLeast ==
  ASSUME NEW T \in SUBSET Nat, T # {}
  PROVE  Min(T) \in T /\ \A n \in T : Min(T) <= n
BY Smallest DEF Min

-----------------------------------------------------------------------------
(* The packets of a unit                                                   *)

\* Sizes of a unit's fragments: all full ones, and a last one of 1 .. step bytes.
LEMMA FullFragmentsFit ==
  ASSUME NEW n \in Nat, n > MaxPayload
  PROVE  LET k == FullFragments(n)
             rest == (n - 1) - k * (MaxPayload - 2)
         IN k \in Nat /\ 1 <= rest /\ rest <= MaxPayload - 2
<1> DEFINE step == MaxPayload - 2
           T == {k \in 0 .. n : (n - 1) - k * step + 2 <= MaxPayload}
<1>1. step \in Nat /\ step >= 1 /\ MaxPayload \in Nat /\ MaxPayload = step + 2
  BY PayloadAssumption
<1> HIDE DEF step
<1>2. n \in T
  <2>1. n * step >= n
    BY <1>1
  <2>2. n * step \in Nat
    BY <1>1
  <2> QED BY <1>1, <2>1, <2>2
<1>3. Min(T) \in T /\ \A j \in T : Min(T) <= j
  <2>1. T \in SUBSET Nat
    OBVIOUS
  <2> HIDE DEF T
  <2> QED BY <1>2, <2>1, MinLeast
<1>4. FullFragments(n) = Min(T)
  BY DEF FullFragments, step
<1> DEFINE k == Min(T)
<1>5. k \in Nat /\ k <= n /\ (n - 1) - k * step + 2 <= step + 2 /\ k * step \in Nat
  BY <1>1, <1>3
<1>6. 1 <= (n - 1) - k * step
  <2>1. CASE k = 0
    <3>1. k * step = 0
      BY <1>1, <2>1
    <3> QED BY <1>1, <3>1
  <2>2. CASE k # 0
    <3>1. k - 1 \notin T
      <4>1. k - 1 \in Nat /\ ~(k <= k - 1)
        <5> HIDE DEF k
        <5> QED BY <1>5, <2>2
      <4> HIDE DEF T
      <4> QED BY <1>3, <4>1
    <3>2. ~((n - 1) - (k - 1) * step + 2 <= step + 2)
      BY <1>1, <1>5, <2>2, <3>1
    <3>3. (k - 1) * step = k * step - step
      BY <1>1, <1>5
    <3> HIDE DEF k
    <3> QED BY <1>1, <1>5, <3>2, <3>3
  <2> QED BY <2>1, <2>2
<1> QED BY <1>1, <1>4, <1>5, <1>6 DEF step

Fragment == [pos : Nat, len : Nat, start : BOOLEAN, end : BOOLEAN]

\* What has arrived of a unit once f has.
Reach(f) == f.pos + f.len

\* A unit of n bytes is cut without a gap and without an overlap, and the
\* fragments but the last one leave something of it.
LEMMA FragmentsCover ==
  ASSUME NEW n \in Nat, n > 0
  PROVE  LET q == Fragments(n)
         IN /\ q \in Seq(Fragment) /\ q # <<>>
            /\ q[1].start
            /\ \A i \in 1 .. Len(q) - 1 : Reach(q[i]) < n /\ q[i + 1].pos = Reach(q[i])
            /\ Reach(q[Len(q)]) = n
<1>1. CASE n <= MaxPayload
  <2> DEFINE f == [pos |-> 0, len |-> n, start |-> TRUE, end |-> TRUE]
  <2>1. Fragments(n) = <<f>>
    BY <1>1 DEF Fragments
  <2>2. f \in Fragment /\ f.start /\ Reach(f) = n
    BY DEF Fragment, Reach
  <2> HIDE DEF f
  <2>3. <<f>> \in Seq(Fragment) /\ <<f>> # <<>> /\ <<f>>[1] = f /\ Len(<<f>>) = 1
    BY <2>2
  <2> HIDE DEF Reach
  <2> QED BY <2>1, <2>2, <2>3
<1>2. CASE ~(n <= MaxPayload)
  <2> DEFINE k == FullFragments(n)
             step == MaxPayload - 2
             q == [i \in 1 .. k + 1 |->
                     [pos |-> 1 + (i - 1) * step,
                      len |-> IF i <= k THEN step ELSE n - 1 - k * step,
                      start |-> i = 1, end |-> i = k + 1]]
  <2>1. Fragments(n) = q
    BY <1>2 DEF Fragments
  <2>2. /\ k \in Nat /\ step \in Nat /\ step >= 1
        /\ 1 <= (n - 1) - k * step /\ (n - 1) - k * step <= step /\ k * step \in Nat
    <3>1. MaxPayload \in Nat /\ n > MaxPayload /\ step \in Nat /\ step >= 1
      BY <1>2, PayloadAssumption
    <3>2. k \in Nat /\ 1 <= (n - 1) - k * step /\ (n - 1) - k * step <= step
      BY <3>1, FullFragmentsFit
    <3> HIDE DEF step, k
    <3> QED BY <3>1, <3>2
  <2> HIDE DEF k, step
  <2>3. ASSUME NEW i \in 1 .. k + 1
        PROVE  /\ (i - 1) * step \in Nat /\ i * step = (i - 1) * step + step
               /\ i <= k => i * step <= k * step
    <3>1. i - 1 \in Nat /\ i \in Nat
      BY <2>2
    <3>2. (i - 1) * step \in Nat /\ i * step = (i - 1) * step + step
      BY <2>2, <3>1
    <3>3. i <= k => i * step <= k * step
      <4> SUFFICES ASSUME i <= k PROVE i * step <= k * step
        OBVIOUS
      <4>1. (k - i) \in Nat /\ (k - i) * step \in Nat
        BY <2>2, <3>1
      <4>2. (k - i) * step = k * step - i * step
        BY <2>2, <3>1
      <4>3. i * step \in Int /\ k * step \in Int
        BY <2>2, <3>1
      <4> QED BY <4>1, <4>2, <4>3
    <3> QED BY <3>2, <3>3
  <2>4. ASSUME NEW i \in 1 .. k + 1
        PROVE  /\ q[i] \in Fragment
               /\ q[i].pos = 1 + (i - 1) * step
               /\ i <= k => Reach(q[i]) = 1 + i * step /\ Reach(q[i]) < n
               /\ i = k + 1 => Reach(q[i]) = n
               /\ (i = 1) => q[i].start
    <3> DEFINE p == 1 + (i - 1) * step
               l == IF i <= k THEN step ELSE n - 1 - k * step
               b == i = 1
               e == i = k + 1
    <3>1. q[i] = [pos |-> p, len |-> l, start |-> b, end |-> e]
      OBVIOUS
    <3>5. b \in BOOLEAN /\ e \in BOOLEAN
      OBVIOUS
    <3>2. p \in Nat /\ l \in Nat
      BY <2>2, <2>3
    <3>3. (i <= k => p + l = 1 + i * step /\ p + l < n) /\ (i = k + 1 => p + l = n)
      <4>1. i <= k => p + l = 1 + i * step /\ p + l < n
        BY <2>2, <2>3
      <4>2. i = k + 1 => p + l = n
        BY <2>2
      <4> QED BY <4>1, <4>2
    <3> HIDE DEF p, l, b, e
    <3>4. q[i].pos = p /\ q[i].len = l /\ (q[i].start <=> b) /\ q[i] \in Fragment
      <4> HIDE DEF q
      <4> QED BY <3>1, <3>2, <3>5 DEF Fragment
    <3> HIDE DEF q
    <3> QED BY <3>3, <3>4 DEF Reach, p, b
  <2>5. q \in Seq(Fragment) /\ Len(q) = k + 1 /\ q # <<>>
    <3>1. k + 1 \in Nat /\ \A i \in 1 .. k + 1 : q[i] \in Fragment
      BY <2>2, <2>4
    <3>2. q \in [1 .. k + 1 -> Fragment]
      BY <3>1
    <3> HIDE DEF q
    <3>3. q \in Seq(Fragment) /\ Len(q) = k + 1
      BY <3>1, <3>2
    <3> QED BY <3>1, <3>3, <2>2
  <2> HIDE DEF q
  <2>6. q[1].start /\ Reach(q[Len(q)]) = n
    BY <2>2, <2>4, <2>5
  <2>7. ASSUME NEW i \in 1 .. Len(q) - 1
        PROVE  Reach(q[i]) < n /\ q[i + 1].pos = Reach(q[i])
    <3>1. i \in 1 .. k + 1 /\ i + 1 \in 1 .. k + 1 /\ i <= k /\ (i + 1) - 1 = i
      BY <2>2, <2>5, <2>7
    <3>2. Reach(q[i]) < n /\ Reach(q[i]) = 1 + i * step
      BY <2>4, <3>1
    <3>3. q[i + 1].pos = 1 + ((i + 1) - 1) * step
      BY <2>4, <3>1
    <3>4. q[i + 1].pos = 1 + i * step
      BY <3>1, <3>3
    <3> QED BY <3>2, <3>4
  <2> QED BY <2>1, <2>5, <2>6, <2>7
<1> QED BY <1>1, <1>2

-----------------------------------------------------------------------------
(* The packets of a frame                                                  *)

\* A frame ends behind its first unit, before a slice or at the end of the file.
LEMMA FrameEndNext ==
  ASSUME NEW i \in 1 .. Len(File)
  PROVE  /\ FrameEnd(i) \in i + 1 .. Len(File) + 1
         /\ FrameEnd(i) <= Len(File) => IsVcl(FrameEnd(i))
<1> DEFINE T == {j \in i + 1 .. Len(File) : IsVcl(j) /\ \E k \in i .. j - 1 : IsVcl(k)}
                  \cup {Len(File) + 1}
<1>1. Len(File) \in Nat
  BY FileAssumption
<1>2. T \in SUBSET Nat /\ T # {} /\ \A j \in T : j \in i + 1 .. Len(File) + 1 /\ (j <= Len(File) => IsVcl(j))
  BY <1>1
<1>3. FrameEnd(i) = Min(T)
  BY DEF FrameEnd
<1> HIDE DEF T
<1>4. Min(T) \in T
  BY <1>2, MinLeast
<1> QED BY <1>2, <1>3, <1>4

\* A slice is sent, and so is the first unit.
LEMMA SlicesKept ==
  ASSUME NEW i \in 1 .. Len(File), i = 1 \/ IsVcl(i)
  PROVE  i \in Kept
BY DEF Kept, IsVcl

\* The unit after i, or the end, is the only one with nothing kept before it.
LEMMA NextKeptIs ==
  ASSUME NEW i \in 1 .. Len(File), NEW m \in i + 1 .. Len(File) + 1,
         m \in Kept \/ m = Len(File) + 1, \A j \in i + 1 .. m - 1 : j \notin Kept
  PROVE  NextKept(i) = m
<1> DEFINE T == {j \in Kept : j > i} \cup {Len(File) + 1}
<1>1. Len(File) \in Nat
  BY FileAssumption
<1>2. T \in SUBSET Nat /\ m \in T
  BY <1>1 DEF Kept
<1>3. \A j \in T : m <= j
  <2> SUFFICES ASSUME NEW j \in T, ~(m <= j) PROVE FALSE
    OBVIOUS
  <2>1. j \in Kept /\ j > i /\ j \in Nat
    BY <1>1, <1>2
  <2> QED BY <1>1, <2>1
<1>4. Min(T) = m
  <2> HIDE DEF T
  <2>1. Min(T) \in T /\ \A j \in T : Min(T) <= j
    BY <1>2, MinLeast
  <2>2. Min(T) \in Nat /\ m \in Nat /\ Min(T) <= m /\ m <= Min(T)
    BY <1>2, <1>3, <2>1
  <2> QED BY <2>2
<1> QED BY <1>4 DEF NextKept

Piece == [nal : 1 .. Len(File), frag : Fragment]

\* b is the packet to send after a.
InTurn(a, b) ==
    IF Reach(a.frag) < SizeOf(a.nal)
    THEN b.nal = a.nal /\ b.frag.pos = Reach(a.frag)
    ELSE b.frag.start /\ b.nal = NextKept(a.nal)

\* A sequence of packets that begins with unit i, leaves nothing out and ends
\* with all of some unit, which is l.
Chain(q, i, l) ==
    /\ q \in Seq(Piece) /\ q # <<>>
    /\ q[1].nal = i /\ q[1].frag.start
    /\ \A j \in 1 .. Len(q) - 1 : InTurn(q[j], q[j + 1])
    /\ q[Len(q)].nal = l /\ Reach(q[Len(q)].frag) = SizeOf(l)

\* The packets of a unit are one.
LEMMA UnitChain ==
  ASSUME NEW i \in 1 .. Len(File)
  PROVE  Chain(PacketsOf(i), i, i)
<1> DEFINE n == File[i].size
           fs == Fragments(n)
           q == [j \in 1 .. Len(fs) |-> [nal |-> i, frag |-> fs[j]]]
<1>1. n \in Nat /\ n > 0
  <2>1. File[i] \in [type : 0 .. 31, size : Nat \ {0}]
    BY FileAssumption, ElementOfSeq
  <2>2. n \in Nat \ {0}
    BY <2>1
  <2> HIDE DEF n
  <2> QED BY <2>2
<1>2. PacketsOf(i) = q /\ SizeOf(i) = n
  BY DEF PacketsOf, SizeOf
<1> HIDE DEF n
<1>3. /\ fs \in Seq(Fragment) /\ fs # <<>> /\ fs[1].start
      /\ \A j \in 1 .. Len(fs) - 1 : Reach(fs[j]) < n /\ fs[j + 1].pos = Reach(fs[j])
      /\ Reach(fs[Len(fs)]) = n
  BY <1>1, FragmentsCover
<1> HIDE DEF fs
<1>4. Len(fs) \in Nat /\ Len(fs) >= 1 /\ \A j \in 1 .. Len(fs) : fs[j] \in Fragment
  BY <1>3
<1>5. \A j \in 1 .. Len(fs) : q[j] \in Piece /\ q[j].nal = i /\ q[j].frag = fs[j]
  BY <1>4 DEF Piece
<1>6. q \in Seq(Piece) /\ Len(q) = Len(fs)
  <2>1. q \in [1 .. Len(fs) -> Piece]
    BY <1>5
  <2> HIDE DEF q
  <2> QED BY <1>4, <2>1
<1> HIDE DEF q
<1>7. ASSUME NEW j \in 1 .. Len(q) - 1 PROVE InTurn(q[j], q[j + 1])
  <2>1. j \in 1 .. Len(fs) /\ j + 1 \in 1 .. Len(fs) /\ j \in 1 .. Len(fs) - 1
    BY <1>4, <1>6, <1>7
  <2>2. q[j].nal = i /\ q[j].frag = fs[j] /\ q[j + 1].nal = i /\ q[j + 1].frag = fs[j + 1]
    BY <1>5, <2>1
  <2> QED BY <1>2, <1>3, <2>1, <2>2 DEF InTurn
<1>8. q # <<>> /\ q[1].nal = i /\ q[1].frag = fs[1] /\ q[Len(q)].nal = i /\ q[Len(q)].frag = fs[Len(fs)]
  BY <1>4, <1>5, <1>6
<1> QED BY <1>2, <1>3, <1>6, <1>7, <1>8 DEF Chain

\* One chain behind another.
LEMMA ChainsJoin ==
  ASSUME NEW q, NEW p, NEW i, NEW l, NEW k, NEW m, Chain(q, i, l), Chain(p, k, m),
         k = NextKept(l)
  PROVE  Chain(q \o p, i, m)
<1> DEFINE a == Len(q)
           b == Len(p)
           r == q \o p
<1>1. q \in Seq(Piece) /\ p \in Seq(Piece) /\ a \in Nat /\ b \in Nat /\ a >= 1 /\ b >= 1
  BY DEF Chain
<1>2. r \in Seq(Piece) /\ Len(r) = a + b
  BY <1>1
<1>3. (\A j \in 1 .. a : r[j] = q[j]) /\ (\A j \in 1 .. b : r[a + j] = p[j])
  BY <1>1
<1> HIDE DEF r
<1>4. ASSUME NEW j \in 1 .. Len(r) - 1 PROVE InTurn(r[j], r[j + 1])
  <2>1. CASE j < a
    <3>1. r[j] = q[j] /\ r[j + 1] = q[j + 1] /\ j \in 1 .. Len(q) - 1
      BY <1>1, <1>2, <1>3, <2>1
    <3> QED BY <3>1 DEF Chain
  <2>2. CASE j = a
    <3>1. r[j] = q[a] /\ r[j + 1] = p[1]
      BY <1>1, <1>2, <1>3, <2>2
    <3>2. q[a].nal = l /\ Reach(q[a].frag) = SizeOf(l) /\ p[1].nal = k /\ p[1].frag.start
      BY DEF Chain
    <3>3. ~(SizeOf(l) < SizeOf(l))
      <4>1. q[a] \in Piece
        BY <1>1
      <4>2. SizeOf(l) \in Nat
        BY <3>2, <4>1 DEF Piece, Fragment, Reach
      <4> QED BY <4>2
    <3> QED BY <3>1, <3>2, <3>3 DEF InTurn
  <2>3. CASE j > a
    <3> DEFINE h == j - a
    <3>1. h \in 1 .. b - 1 /\ h \in 1 .. b /\ h + 1 \in 1 .. b /\ j = a + h /\ j + 1 = a + (h + 1)
      BY <1>1, <1>2, <2>3
    <3> HIDE DEF h
    <3>2. r[j] = p[h] /\ r[j + 1] = p[h + 1]
      BY <1>3, <3>1
    <3> QED BY <3>1, <3>2 DEF Chain
  <2> QED BY <1>1, <1>2, <2>1, <2>2, <2>3
<1>5. r # <<>> /\ r[1] = q[1] /\ r[Len(r)] = p[b]
  BY <1>1, <1>2, <1>3
<1>6. q[1].nal = i /\ q[1].frag.start /\ p[b].nal = m /\ Reach(p[b].frag) = SizeOf(m)
  BY DEF Chain
<1>7. Chain(r, i, m)
  BY <1>2, <1>4, <1>5, <1>6 DEF Chain
<1> QED BY <1>7 DEF r

\* The function that joins the packets of a frame's units exists.
LEMMA FrameRecursion ==
  ASSUME NEW i \in 1 .. Len(File)
  PROVE  \E g : /\ FramePackets(i) = g[FrameEnd(i) - 1]
                /\ \A k \in i - 1 .. FrameEnd(i) - 1 :
                     g[k] = IF k < i THEN <<>>
                            ELSE IF k \in FrameUnits(i) THEN g[k - 1] \o PacketsOf(k)
                            ELSE g[k - 1]
<1> DEFINE lo == i - 1
           Body(g, k) == IF k < i THEN <<>>
                         ELSE IF k \in FrameUnits(i) THEN g[k - 1] \o PacketsOf(k)
                         ELSE g[k - 1]
           T == {n \in Nat : \E g : g = [k \in lo .. lo + n |-> Body(g, k)]}
<1>1. lo \in Nat /\ i \in Nat /\ i = lo + 1
  BY FileAssumption
<1>2. 0 \in T
  <2> DEFINE g == [k \in lo .. lo |-> <<>>]
  <2>1. \A k \in lo .. lo + 0 : k \in lo .. lo /\ Body(g, k) = <<>>
    BY <1>1
  <2>2. lo .. lo + 0 = lo .. lo
    BY <1>1
  <2>3. g = [k \in lo .. lo + 0 |-> Body(g, k)]
    BY <2>1, <2>2
  <2> QED BY <2>3
<1>3. ASSUME NEW n \in T PROVE n + 1 \in T
  <2>1. PICK g : g = [k \in lo .. lo + n |-> Body(g, k)]
    BY <1>3
  <2> DEFINE h == [k \in lo .. lo + (n + 1) |-> IF k <= lo + n THEN g[k] ELSE Body(g, k)]
  <2>2. ASSUME NEW k \in lo .. lo + (n + 1) PROVE h[k] = Body(h, k)
    <3>1. h[k] = Body(g, k)
      <4>1. k <= lo + n => k \in lo .. lo + n
        BY <1>1
      <4>2. k <= lo + n => g[k] = Body(g, k)
        <5> HIDE DEF Body
        <5> QED BY <2>1, <4>1
      <4> HIDE DEF Body
      <4> QED BY <4>2
    <3>2. ~(k < i) => h[k - 1] = g[k - 1]
      BY <1>1
    <3> HIDE DEF h
    <3> QED BY <3>1, <3>2
  <2>3. h = [k \in lo .. lo + (n + 1) |-> h[k]]
    OBVIOUS
  <2> HIDE DEF h
  <2>4. h = [k \in lo .. lo + (n + 1) |-> Body(h, k)]
    <3> HIDE DEF Body
    <3> QED BY <2>2, <2>3
  <2> HIDE DEF Body
  <2> QED BY <2>4
<1>4. \A n \in Nat : n \in T
  <2>1. T \in SUBSET Nat
    OBVIOUS
  <2> HIDE DEF T
  <2> QED BY <1>2, <1>3, <2>1, Induction
<1> DEFINE e == FrameEnd(i) - 1
           S == lo .. e
           u == CHOOSE g : g = [k \in S |-> Body(g, k)]
<1>5. e \in Nat /\ e - lo \in Nat /\ lo + (e - lo) = e
  <2>1. FrameEnd(i) \in i + 1 .. Len(File) + 1 /\ Len(File) \in Nat
    BY FrameEndNext, FileAssumption
  <2> QED BY <1>1, <2>1
<1>6. \E g : g = [k \in S |-> Body(g, k)]
  <2>1. e - lo \in T
    <3> HIDE DEF T
    <3> QED BY <1>4, <1>5
  <2> HIDE DEF Body
  <2> QED BY <1>5, <2>1
<1>7. u = [k \in S |-> Body(u, k)]
  <2> HIDE DEF Body, S
  <2> QED BY <1>6
<1>8. FramePackets(i) = u[e]
  BY Zenon DEF FramePackets
<1> HIDE DEF u
<1>9. \A k \in S : u[k] = Body(u, k)
  <2> HIDE DEF Body, S
  <2> QED BY <1>7
<1> QED BY <1>8, <1>9

\* The packets of a frame: its units from the first on, and none that is sent
\* is left between its last one and the frame's end.
LEMMA FrameChain ==
  ASSUME NEW i \in 1 .. Len(File), i = 1 \/ IsVcl(i)
  PROVE  \E l \in 1 .. Len(File) : Chain(FramePackets(i), i, l) /\ NextKept(l) = FrameEnd(i)
<1> DEFINE e == FrameEnd(i)
<1>1. /\ e \in i + 1 .. Len(File) + 1 /\ (e <= Len(File) => IsVcl(e))
      /\ Len(File) \in Nat /\ i \in Nat /\ e \in Nat
  BY FrameEndNext, FileAssumption
<1>2. PICK g : /\ FramePackets(i) = g[e - 1]
               /\ \A k \in i - 1 .. e - 1 :
                    g[k] = IF k < i THEN <<>>
                           ELSE IF k \in FrameUnits(i) THEN g[k - 1] \o PacketsOf(k)
                           ELSE g[k - 1]
  BY FrameRecursion
<1>3. FrameUnits(i) = {k \in i .. e - 1 : k = i \/ File[k].type # 9}
  BY DEF FrameUnits
<1> HIDE DEF e
<1> DEFINE Upto(k) == \E l \in i .. k : Chain(g[k], i, l) /\ \A j \in l + 1 .. k : j \notin Kept
           T == {n \in Nat : i + n < e => Upto(i + n)}
<1>4. 0 \in T
  <2>1. i - 1 \in i - 1 .. e - 1 /\ i \in i - 1 .. e - 1 /\ i \in FrameUnits(i) /\ i - 1 < i /\ ~(i < i)
    BY <1>1, <1>3
  <2>2. g[i - 1] = <<>>
    BY <1>2, <2>1
  <2>3. g[i] = <<>> \o PacketsOf(i)
    BY <1>2, <2>1, <2>2
  <2>4. Chain(PacketsOf(i), i, i)
    BY UnitChain
  <2>5. g[i] = PacketsOf(i)
    <3>1. PacketsOf(i) \in Seq(Piece)
      BY <2>4 DEF Chain
    <3> QED BY <2>3, <3>1
  <2>6. i \in i .. i /\ \A j \in i + 1 .. i : j \notin Kept
    BY <1>1
  <2>7. Upto(i)
    BY <2>4, <2>5, <2>6
  <2>8. i + 0 = i
    BY <1>1
  <2> HIDE DEF Upto
  <2> QED BY <2>7, <2>8
<1>5. ASSUME NEW n \in T PROVE n + 1 \in T
  <2> SUFFICES ASSUME i + (n + 1) < e PROVE Upto(i + (n + 1))
    OBVIOUS
  <2> DEFINE k == i + n
             m == k + 1
  <2>1. n \in Nat /\ k \in Nat /\ m \in Nat /\ i + (n + 1) = m /\ k < e /\ m < e /\ i <= k
        /\ m - 1 = k /\ ~(m < i) /\ m \in i - 1 .. e - 1 /\ m \in i .. e - 1 /\ m # i /\ m # 1
        /\ m \in 1 .. Len(File)
    BY <1>1, <1>5
  <2>2. Upto(k)
    <3> HIDE DEF Upto
    <3> QED BY <1>5, <2>1
  <2> HIDE DEF k, m
  <2>3. PICK l \in i .. k : Chain(g[k], i, l) /\ \A j \in l + 1 .. k : j \notin Kept
    BY <2>2
  <2>4. l \in Nat /\ i <= l /\ l <= k /\ l \in 1 .. Len(File) /\ l \in i .. m /\ m \in i .. m
        /\ m \in l + 1 .. Len(File) + 1
    BY <1>1, <2>1
  <2>5. CASE m \in FrameUnits(i)
    <3>1. g[m] = g[k] \o PacketsOf(m)
      BY <1>2, <2>1, <2>5
    <3>2. m \in Kept
      BY <1>3, <2>1, <2>5 DEF Kept
    <3>3. NextKept(l) = m
      BY <2>1, <2>3, <2>4, <3>2, NextKeptIs
    <3>4. Chain(PacketsOf(m), m, m)
      BY <2>1, UnitChain
    <3>5. Chain(g[m], i, m)
      BY <2>3, <3>1, <3>3, <3>4, ChainsJoin
    <3>6. \A j \in m + 1 .. m : j \notin Kept
      BY <2>1
    <3>7. Upto(m)
      BY <2>4, <3>5, <3>6
    <3> HIDE DEF Upto
    <3> QED BY <2>1, <3>7
  <2>6. CASE m \notin FrameUnits(i)
    <3>1. g[m] = g[k]
      BY <1>2, <2>1, <2>6
    <3>2. m \notin Kept
      BY <1>3, <2>1, <2>6 DEF Kept
    <3>3. \A j \in l + 1 .. m : j \notin Kept
      BY <2>1, <2>3, <2>4, <3>2
    <3>4. Upto(m)
      BY <2>3, <2>4, <3>1, <3>3
    <3> HIDE DEF Upto
    <3> QED BY <2>1, <3>4
  <2> QED BY <2>5, <2>6
<1>6. \A n \in Nat : n \in T
  <2>1. T \in SUBSET Nat
    OBVIOUS
  <2> HIDE DEF T
  <2> QED BY <1>4, <1>5, <2>1, Induction
<1>7. Upto(e - 1)
  <2>1. (e - 1) - i \in Nat /\ i + ((e - 1) - i) = e - 1 /\ e - 1 < e
    BY <1>1
  <2>2. (e - 1) - i \in T
    <3> HIDE DEF T
    <3> QED BY <1>6, <2>1
  <2> HIDE DEF Upto
  <2> QED BY <2>1, <2>2
<1>8. PICK l \in i .. e - 1 : Chain(g[e - 1], i, l) /\ \A j \in l + 1 .. e - 1 : j \notin Kept
  BY <1>7
<1>9. l \in 1 .. Len(File) /\ e \in l + 1 .. Len(File) + 1
  BY <1>1
<1>10. e \in Kept \/ e = Len(File) + 1
  <2>1. e <= Len(File) => e \in 1 .. Len(File) /\ IsVcl(e)
    BY <1>1
  <2>2. e <= Len(File) => e \in Kept
    BY <2>1, SlicesKept
  <2> QED BY <1>1, <2>2
<1>11. NextKept(l) = e
  BY <1>8, <1>9, <1>10, NextKeptIs
<1> QED BY <1>2, <1>8, <1>9, <1>11 DEF e

-----------------------------------------------------------------------------
(* Reading the file and sending                                            *)

Fields == {"state", "cseq", "mode", "out", "transport", "playing", "garbage", "gen", "loop",
           "armed", "nal", "eof", "frame", "queue", "sent", "parity", "rx"}

\* A session object: its fields, with the types of those that control it.
Shaped(x) ==
    /\ x = [f \in Fields |-> x[f]]
    /\ x.state \in States
    /\ x.transport \in BOOLEAN /\ x.playing \in BOOLEAN /\ x.garbage \in BOOLEAN
    /\ x.loop \in BOOLEAN /\ x.armed \in BOOLEAN /\ x.parity \in BOOLEAN
    /\ x.gen \in Nat

Controlled(x) ==
    /\ x.loop => x.playing /\ x.transport /\ x.state \in {"PLAYING", "READY"}
    /\ x.playing /\ ~x.garbage => x.loop
    /\ x.state = "PLAYING" /\ x.transport => x.playing

Timed(x, q) == x.loop => x.armed \/ x.gen \in Range(q)

\* y is x but for the file, the packets and the reply.
Played(x, y) ==
    /\ Shaped(y)
    /\ y.state = x.state /\ y.transport = x.transport /\ y.playing = x.playing
    /\ y.garbage = x.garbage /\ y.loop = x.loop /\ y.armed = x.armed /\ y.gen = x.gen

\* y has the packets of x still to send, from where x was in the file or, for
\* a receiver that has nothing yet, from the first unit on.
Rewound(x, y) ==
    /\ y.queue = x.queue
    /\ \/ y.nal = x.nal /\ y.frame = x.frame /\ y.rx = x.rx
       \/ y.nal \in {x.nal, 1} /\ y.frame = 0 /\ y.rx = <<>>

\* Nothing was sent; the loop of y has a timer of its own, or it is the loop of
\* x as it was.
Turned(x, y) ==
    /\ Shaped(y) /\ Controlled(y)
    /\ y.parity = x.parity
    /\ y.loop => y.armed \/ (x.loop /\ y.gen = x.gen /\ y.armed = x.armed)
    /\ Rewound(x, y)

Steered(x, y) == Turned(x, y) /\ y.cseq = x.cseq

\* Reading a frame moves the position in the file.
LEMMA ReadKeeps ==
  ASSUME NEW x, Shaped(x)
  PROVE  LET y == ReadNextFrame(x).src
         IN /\ Played(x, y) /\ y.parity = x.parity
            /\ y.queue = x.queue /\ y.rx = x.rx /\ y.frame = x.frame
            /\ y.nal = IF HasMoreData(x) THEN FrameEnd(x.nal) ELSE x.nal
<1>1. CASE HasMoreData(x)
  <2>1. ReadNextFrame(x).src = [x EXCEPT !.nal = FrameEnd(x.nal)]
    BY <1>1 DEF ReadNextFrame
  <2> DEFINE e == FrameEnd(x.nal)
  <2> HIDE DEF e
  <2>2. ReadNextFrame(x).src = [x EXCEPT !.nal = e]
    BY <2>1 DEF e
  <2>3. LET y == [x EXCEPT !.nal = e]
        IN /\ Played(x, y) /\ y.parity = x.parity
           /\ y.queue = x.queue /\ y.rx = x.rx /\ y.frame = x.frame /\ y.nal = e
    BY DEF Played, Shaped, Fields
  <2> QED BY <1>1, <2>2, <2>3 DEF e
<1>2. CASE ~HasMoreData(x)
  <2>1. ReadNextFrame(x).src = [x EXCEPT !.eof = TRUE]
    BY <1>2 DEF ReadNextFrame
  <2>2. LET y == [x EXCEPT !.eof = TRUE]
        IN /\ Played(x, y) /\ y.parity = x.parity
           /\ y.queue = x.queue /\ y.rx = x.rx /\ y.frame = x.frame /\ y.nal = x.nal
    BY DEF Played, Shaped, Fields
  <2> QED BY <1>2, <2>1, <2>2
<1> QED BY <1>1, <1>2

\* So does going back to its start.
LEMMA ResetKeeps ==
  ASSUME NEW x, Shaped(x)
  PROVE  LET y == Reset(x)
         IN /\ Played(x, y) /\ y.parity = x.parity
            /\ y.queue = x.queue /\ y.rx = x.rx /\ y.frame = x.frame /\ y.cseq = x.cseq
            /\ y.nal = 1 /\ ~y.eof
BY DEF Played, Shaped, Fields, Reset

\* The packets of a frame go to the queue.
LEMMA EnqueueKeeps ==
  ASSUME NEW x, Shaped(x)
  PROVE  Played(x, Enqueue(ReadNextFrame(x)))
<1> DEFINE r == ReadNextFrame(x)
           q == r.src.queue \o [j \in DOMAIN r.packets |->
                                  [ts |-> r.src.frame, nal |-> r.packets[j].nal,
                                   frag |-> r.packets[j].frag]]
<1>1. Played(x, r.src)
  BY ReadKeeps
<1>2. Enqueue(r) = [[r.src EXCEPT !.queue = q] EXCEPT !.frame = r.src.frame + 1]
  <2>1. r.src = [f \in Fields |-> r.src[f]]
    BY <1>1 DEF Played, Shaped
  <2> QED BY <2>1 DEF Enqueue, Fields
<1> DEFINE y == r.src
           n == y.frame + 1
           z == [y EXCEPT !.queue = q]
<1> HIDE DEF r, q, n
<1>3. Played(x, z)
  BY <1>1 DEF Played, Shaped, Fields
<1> HIDE DEF z
<1>4. Played(x, [z EXCEPT !.frame = n])
  BY <1>3 DEF Played, Shaped, Fields
<1> QED BY <1>2, <1>4 DEF z, n, r

\* FeedNextNALFrame plays the file, from its start again if it has to.
LEMMA FeedKeeps ==
  ASSUME NEW x, Shaped(x)
  PROVE  Played(x, FeedNextNALFrame(x))
<1> DEFINE first == ReadNextFrame(x).src
           zero == [first EXCEPT !.frame = 0]
<1>1. Played(x, first)
  BY ReadKeeps
<1>2. Played(x, zero)
  BY <1>1 DEF Played, Shaped, Fields
<1>3. Shaped(zero)
  BY <1>2 DEF Played
<1>4. Played(x, Reset(zero))
  BY <1>2, <1>3, ResetKeeps DEF Played
<1>5. Shaped(Reset(zero))
  BY <1>4 DEF Played
<1>6. Played(x, Enqueue(ReadNextFrame(Reset(zero))))
  BY <1>4, <1>5, EnqueueKeeps DEF Played
<1>7. Played(x, Enqueue(ReadNextFrame(x))) /\ Played(x, x)
  BY EnqueueKeeps DEF Played
<1> QED BY <1>6, <1>7 DEF FeedNextNALFrame

\* Sending the next packet changes what is sent and nothing that controls it.
LEMMA SendKeeps ==
  ASSUME NEW x, Shaped(x)
  PROVE  Played(x, SendNext(x))
<1> DEFINE y == IF x.queue = <<>> THEN FeedNextNALFrame(x) ELSE x
           z == [y EXCEPT !.queue = Tail(@)]
<1>1. Played(x, y)
  BY FeedKeeps DEF Played
<1> HIDE DEF y
<1>2. Played(x, z)
  BY <1>1 DEF Played, Shaped, Fields
<1> HIDE DEF z
<1>3. ASSUME NEW p PROVE Played(x, SendRtpPacket(z, p))
  BY <1>2 DEF SendRtpPacket, Played, Shaped, Fields
<1>4. SendNext(x) = IF y.queue = <<>> THEN y ELSE SendRtpPacket(z, Head(y.queue))
  BY DEF SendNext, y, z
<1> QED BY <1>1, <1>3, <1>4

-----------------------------------------------------------------------------
(* The order of the packets                                                *)

\* What a receiver has of a unit.
Part == [nal : 1 .. Len(File), ts : Nat, got : Nat]

\* The unit is whole, and unit n may be read next.
Continues(n, r) == r.got = SizeOf(r.nal) /\ n \in {1, NextKept(r.nal), Len(File) + 1}

Linked(q) == \A j \in 1 .. Len(q) - 1 : Follows(q[j + 1], Received(q[j]))

\* The file is read from the start of a frame.
Located(x) ==
    /\ x.nal \in 1 .. Len(File) + 1 /\ x.frame \in Nat
    /\ x.nal <= Len(File) => x.nal = 1 \/ IsVcl(x.nal)

\* What is sent next continues r.
Awaits(x, r) ==
    r \in Part /\ IF x.queue = <<>> THEN Continues(x.nal, r) ELSE Follows(x.queue[1], r)

Ordered(x) ==
    /\ Located(x)
    /\ x.queue \in Seq(PacketType) /\ Linked(x.queue)
    /\ x.queue # <<>> => Continues(x.nal, Received(x.queue[Len(x.queue)]))
    /\ x.rx # <<>> => Awaits(x, x.rx[1])

\* A request leaves what is sent next in order: a receiver that has nothing yet
\* may begin with what the queue holds, or with the first unit.
LEMMA RewoundOrdered ==
  ASSUME NEW x, NEW y, Ordered(x), Rewound(x, y)
  PROVE  Ordered(y)
<1>1. Located(y)
  <2>1. Len(File) \in Nat
    BY FileAssumption
  <2> QED BY <2>1 DEF Ordered, Located, Rewound
<1>2. \A r : Continues(x.nal, r) => Continues(y.nal, r)
  BY DEF Continues, Rewound
<1>3. y.queue = x.queue
  BY DEF Rewound
<1>4. y.rx # <<>> => y.rx = x.rx /\ y.nal = x.nal
  BY DEF Rewound
<1>5. y.rx # <<>> => Awaits(y, y.rx[1])
  BY <1>3, <1>4 DEF Ordered, Awaits
<1> QED BY <1>1, <1>2, <1>3, <1>5 DEF Ordered

\* The packets of a frame with its timestamp.
Stamped(q, t) == [j \in DOMAIN q |-> [ts |-> t, nal |-> q[j].nal, frag |-> q[j].frag]]

\* A chain of them is linked from its first unit to its last.
LEMMA StampedLinked ==
  ASSUME NEW q, NEW i, NEW l, Chain(q, i, l), NEW t \in Nat
  PROVE  LET p == Stamped(q, t)
         IN /\ p \in Seq(PacketType) /\ p # <<>> /\ Linked(p)
            /\ p[1].nal = i /\ p[1].frag.start
            /\ Received(p[Len(p)]).nal = l /\ Received(p[Len(p)]).got = SizeOf(l)
<1> DEFINE p == Stamped(q, t)
<1>1. q \in Seq(Piece) /\ Len(q) \in Nat /\ Len(q) >= 1 /\ DOMAIN q = 1 .. Len(q)
  BY DEF Chain
<1>2. ASSUME NEW j \in 1 .. Len(q)
      PROVE  /\ p[j] = [ts |-> t, nal |-> q[j].nal, frag |-> q[j].frag]
             /\ p[j] \in PacketType
             /\ p[j].nal = q[j].nal /\ p[j].frag = q[j].frag /\ p[j].ts = t
  <2>1. p[j] = [ts |-> t, nal |-> q[j].nal, frag |-> q[j].frag]
    BY <1>1 DEF Stamped
  <2>2. q[j] \in Piece
    BY <1>1, ElementOfSeq
  <2>3. q[j].nal \in 1 .. Len(File) /\ q[j].frag \in Fragment
    BY <2>2 DEF Piece
  <2> HIDE DEF p
  <2>4. p[j] \in PacketType
    BY <2>1, <2>3 DEF PacketType, Fragment
  <2> QED BY <2>1, <2>4
<1>3. p \in Seq(PacketType) /\ Len(p) = Len(q)
  <2>1. p \in [1 .. Len(q) -> PacketType]
    BY <1>1, <1>2 DEF Stamped
  <2> HIDE DEF p
  <2> QED BY <1>1, <2>1
<1> HIDE DEF p
<1>4. ASSUME NEW j \in 1 .. Len(p) - 1 PROVE Follows(p[j + 1], Received(p[j]))
  <2>1. j \in 1 .. Len(q) - 1 /\ j \in 1 .. Len(q) /\ j + 1 \in 1 .. Len(q)
    BY <1>1, <1>3, <1>4
  <2>2. InTurn(q[j], q[j + 1])
    BY <2>1 DEF Chain
  <2>3. /\ p[j].nal = q[j].nal /\ p[j].frag = q[j].frag /\ p[j].ts = t
        /\ p[j + 1].nal = q[j + 1].nal /\ p[j + 1].frag = q[j + 1].frag /\ p[j + 1].ts = t
    BY <1>2, <2>1
  <2>4. /\ Received(p[j]).nal = q[j].nal /\ Received(p[j]).ts = t
        /\ Received(p[j]).got = Reach(q[j].frag)
    BY <2>3 DEF Received, Reach
  <2> QED BY <2>2, <2>3, <2>4 DEF Follows, InTurn
<1>5. Linked(p)
  BY <1>4 DEF Linked
<1>6. 1 \in 1 .. Len(q) /\ Len(q) \in 1 .. Len(q)
  BY <1>1
<1>7. p[1].nal = i /\ p[1].frag.start
  BY <1>2, <1>6 DEF Chain
<1>8. Received(p[Len(p)]).nal = l /\ Received(p[Len(p)]).got = SizeOf(l)
  <2>1. p[Len(p)].nal = q[Len(q)].nal /\ p[Len(p)].frag = q[Len(q)].frag
    BY <1>2, <1>3, <1>6
  <2> QED BY <2>1 DEF Received, Chain, Reach
<1> QED BY <1>1, <1>3, <1>5, <1>7, <1>8 DEF p

\* Reading a frame for an empty queue fills it in order.
LEMMA EnqueueOrdered ==
  ASSUME NEW x, Shaped(x), Located(x), x.queue = <<>>, HasMoreData(x),
         x.rx # <<>> => x.rx[1] \in Part /\ Continues(x.nal, x.rx[1])
  PROVE  LET r == ReadNextFrame(x)
         IN /\ Ordered(Enqueue(r)) /\ Enqueue(r).rx = x.rx
            /\ r.packets # <<>> /\ Enqueue(r).queue # <<>>
<1> DEFINE r == ReadNextFrame(x)
           y == r.src
           q == Stamped(r.packets, y.frame)
           n == y.frame + 1
           z == Enqueue(r)
<1>1. x.nal \in 1 .. Len(File) /\ (x.nal = 1 \/ IsVcl(x.nal)) /\ Len(File) \in Nat /\ x.frame \in Nat
  BY FileAssumption DEF Located, HasMoreData
<1>2. PICK l \in 1 .. Len(File) : Chain(FramePackets(x.nal), x.nal, l) /\ NextKept(l) = FrameEnd(x.nal)
  BY <1>1, FrameChain
<1>3. r.packets = FramePackets(x.nal)
  BY DEF ReadNextFrame
<1>4. /\ Shaped(y) /\ y.queue = <<>> /\ y.rx = x.rx /\ y.frame = x.frame
      /\ y.nal = FrameEnd(x.nal)
  BY ReadKeeps DEF Played
<1>5. /\ q \in Seq(PacketType) /\ q # <<>> /\ Linked(q)
      /\ q[1].nal = x.nal /\ q[1].frag.start
      /\ Received(q[Len(q)]).nal = l /\ Received(q[Len(q)]).got = SizeOf(l)
  BY <1>1, <1>2, <1>3, <1>4, StampedLinked
<1>6. z = [[y EXCEPT !.queue = q] EXCEPT !.frame = n]
  <2>1. z = [[y EXCEPT !.queue = y.queue \o q] EXCEPT !.frame = [y EXCEPT !.queue = y.queue \o q].frame + 1]
    BY DEF Enqueue, Stamped
  <2>2. y.queue \o q = q
    BY <1>4, <1>5
  <2> HIDE DEF y, q
  <2>3. [y EXCEPT !.queue = q].frame = y.frame
    BY <1>4 DEF Shaped, Fields
  <2> QED BY <2>1, <2>2, <2>3
<1>7. n \in Nat
  BY <1>1, <1>4
<1> HIDE DEF y, q, n, z
<1>8. z.queue = q /\ z.frame = n /\ z.nal = y.nal /\ z.rx = y.rx
  BY <1>4, <1>6 DEF Shaped, Fields
<1>9. Located(z)
  <2>1. FrameEnd(x.nal) \in x.nal + 1 .. Len(File) + 1 /\ (FrameEnd(x.nal) <= Len(File) => IsVcl(FrameEnd(x.nal)))
    BY <1>1, FrameEndNext
  <2> QED BY <1>1, <1>4, <1>7, <1>8, <2>1 DEF Located
<1>10. Continues(z.nal, Received(q[Len(q)]))
  BY <1>2, <1>4, <1>5, <1>8 DEF Continues
<1>11. ASSUME z.rx # <<>> PROVE Awaits(z, z.rx[1])
  <2>1. z.rx[1] \in Part /\ Continues(x.nal, z.rx[1])
    BY <1>4, <1>8, <1>11
  <2> DEFINE p == z.rx[1]
  <2>2. p.got = SizeOf(p.nal) /\ p.got \in Nat /\ x.nal \in {1, NextKept(p.nal)}
    BY <1>1, <2>1 DEF Continues, Part
  <2>3. ~(p.got < SizeOf(p.nal))
    <3> HIDE DEF p
    <3> QED BY <2>2
  <2>4. Follows(q[1], p)
    BY <1>5, <2>2, <2>3 DEF Follows
  <2> QED BY <1>5, <1>8, <2>1, <2>4 DEF Awaits
<1>12. r.packets # <<>>
  BY <1>2, <1>3 DEF Chain
<1>13. Ordered(z)
  BY <1>5, <1>8, <1>9, <1>10, <1>11 DEF Ordered
<1>14. z.rx = x.rx
  BY <1>4, <1>8
<1> QED BY <1>5, <1>8, <1>12, <1>13, <1>14 DEF z

\* So does FeedNextNALFrame, which plays the file again after its end.
LEMMA FeedOrdered ==
  ASSUME NEW x, Shaped(x), Ordered(x), x.queue = <<>>
  PROVE  /\ Ordered(FeedNextNALFrame(x)) /\ FeedNextNALFrame(x).rx = x.rx
         /\ FeedNextNALFrame(x) = x \/ FeedNextNALFrame(x).queue # <<>>
<1>1. x.rx # <<>> => x.rx[1] \in Part /\ Continues(x.nal, x.rx[1])
  BY DEF Ordered, Awaits
<1>2. Located(x) /\ Len(File) \in Nat /\ (File # <<>> => Len(File) >= 1)
  BY FileAssumption DEF Ordered
<1>3. CASE File = <<>>
  BY <1>3 DEF FeedNextNALFrame
<1>4. CASE File # <<>> /\ HasMoreData(x)
  <2>1. ReadNextFrame(x).packets # <<>>
    BY <1>1, <1>2, <1>4, EnqueueOrdered
  <2>2. FeedNextNALFrame(x) = Enqueue(ReadNextFrame(x))
    BY <1>4, <2>1 DEF FeedNextNALFrame
  <2> QED BY <1>1, <1>2, <1>4, <2>2, EnqueueOrdered
<1>5. CASE File # <<>> /\ ~HasMoreData(x)
  <2> DEFINE first == ReadNextFrame(x).src
             zero == [first EXCEPT !.frame = 0]
             y == Reset(zero)
  <2>1. ReadNextFrame(x).packets = <<>>
    BY <1>5 DEF ReadNextFrame
  <2>2. FeedNextNALFrame(x) = Enqueue(ReadNextFrame(y))
    BY <1>5, <2>1 DEF FeedNextNALFrame
  <2>3. Shaped(first) /\ first.queue = <<>> /\ first.rx = x.rx
    BY ReadKeeps DEF Played
  <2> HIDE DEF first
  <2>4. Shaped(zero) /\ zero.queue = <<>> /\ zero.rx = x.rx /\ zero.frame = 0
    BY <2>3 DEF Shaped, Fields
  <2> HIDE DEF zero
  <2>5. Shaped(y) /\ y.queue = <<>> /\ y.rx = x.rx /\ y.frame = 0 /\ y.nal = 1 /\ ~y.eof
    BY <2>4, ResetKeeps DEF Played
  <2> HIDE DEF y
  <2>6. Located(y) /\ HasMoreData(y)
    BY <1>2, <1>5, <2>5 DEF Located, HasMoreData
  <2>7. y.rx # <<>> => y.rx[1] \in Part /\ Continues(y.nal, y.rx[1])
    BY <1>1, <2>5 DEF Continues
  <2>8. /\ Ordered(Enqueue(ReadNextFrame(y))) /\ Enqueue(ReadNextFrame(y)).rx = y.rx
        /\ Enqueue(ReadNextFrame(y)).queue # <<>>
    BY <2>5, <2>6, <2>7, EnqueueOrdered
  <2> QED BY <2>2, <2>5, <2>8
<1> QED BY <1>3, <1>4, <1>5

\* What is sent follows what was received, and the rest stays in order.
LEMMA SendOrdered ==
  ASSUME NEW x, Shaped(x), Ordered(x)
  PROVE  LET y == SendNext(x)
         IN /\ Ordered(y)
            /\ y.parity = x.parity \/ (x.rx # <<>> => Follows(y.sent, x.rx[1]))
<1> DEFINE y == IF x.queue = <<>> THEN FeedNextNALFrame(x) ELSE x
           z == [y EXCEPT !.queue = Tail(@)]
           p == Head(y.queue)
           t == SendRtpPacket(z, p)
<1>1. Played(x, y)
  BY FeedKeeps DEF Played
<1>2. Ordered(y) /\ y.rx = x.rx
  BY FeedOrdered
<1>3. SendNext(x) = IF y.queue = <<>> THEN y ELSE t
  BY DEF SendNext
<1>4. CASE y.queue = <<>>
  <2>1. y = x
    BY <1>4, FeedOrdered
  <2> HIDE DEF y
  <2> QED BY <1>2, <1>3, <1>4, <2>1
<1>5. CASE y.queue # <<>>
  <2>1. Shaped(y)
    BY <1>1 DEF Played
  <2> HIDE DEF y
  <2> DEFINE q == y.queue
             rest == Tail(q)
             part == <<Received(p)>>
  <2>2. /\ q \in Seq(PacketType) /\ Linked(q) /\ Located(y)
        /\ Continues(y.nal, Received(q[Len(q)]))
    BY <1>2, <1>5 DEF Ordered
  <2>3. /\ rest \in Seq(PacketType) /\ Len(rest) = Len(q) - 1 /\ Len(q) \in Nat /\ Len(q) >= 1
        /\ \A j \in 1 .. Len(rest) : rest[j] = q[j + 1]
        /\ p = q[1]
    BY <1>5, <2>2
  <2>4. t = [[[z EXCEPT !.sent = p] EXCEPT !.parity = ~z.parity] EXCEPT !.rx = part]
    <3> DEFINE a == [z EXCEPT !.sent = p]
    <3>1. Shaped(z)
      BY <2>1 DEF Shaped, Fields
    <3> HIDE DEF z
    <3>2. a.parity = z.parity
      BY <3>1 DEF Shaped, Fields
    <3> QED BY <3>2 DEF SendRtpPacket
  <2>5. Shaped(z) /\ z.queue = rest /\ z.nal = y.nal /\ z.frame = y.frame
    BY <2>1 DEF Shaped, Fields
  <2> HIDE DEF z, rest, part, p, t
  <2>6. t.queue = rest /\ t.nal = y.nal /\ t.frame = y.frame /\ t.rx = part /\ t.sent = p
    BY <2>4, <2>5 DEF Shaped, Fields
  <2> USE DEF p
  <2>7. p \in PacketType /\ Received(p) \in Part
    <3>1. p \in PacketType
      BY <2>2, <2>3, ElementOfSeq
    <3> HIDE DEF p
    <3> QED BY <3>1 DEF PacketType, Received, Part
  <2> HIDE DEF p
  <2>8. part # <<>> /\ part[1] = Received(p)
    BY DEF part
  <2>9. Linked(rest)
    <3> SUFFICES ASSUME NEW j \in 1 .. Len(rest) - 1 PROVE Follows(rest[j + 1], Received(rest[j]))
      BY DEF Linked
    <3>1. j \in 1 .. Len(rest) /\ j + 1 \in 1 .. Len(rest) /\ j + 1 \in 1 .. Len(q) - 1
      BY <2>3
    <3>2. rest[j] = q[j + 1] /\ rest[j + 1] = q[(j + 1) + 1]
      BY <2>3, <3>1
    <3> QED BY <2>2, <3>1, <3>2 DEF Linked
  <2>10. rest # <<>> => /\ Follows(rest[1], Received(p))
                        /\ rest[Len(rest)] = q[Len(q)]
    <3> SUFFICES ASSUME rest # <<>>
                 PROVE  Follows(rest[1], Received(p)) /\ rest[Len(rest)] = q[Len(q)]
      OBVIOUS
    <3>1. Len(rest) >= 1 /\ 1 \in 1 .. Len(q) - 1 /\ 1 \in 1 .. Len(rest)
          /\ Len(rest) \in 1 .. Len(rest) /\ Len(rest) + 1 = Len(q)
      BY <2>3
    <3>2. rest[1] = q[1 + 1] /\ rest[Len(rest)] = q[Len(q)]
      BY <2>3, <3>1
    <3> QED BY <2>2, <2>3, <3>1, <3>2 DEF Linked
  <2>11. rest = <<>> => Continues(y.nal, Received(p))
    <3> SUFFICES ASSUME rest = <<>> PROVE Continues(y.nal, Received(p))
      OBVIOUS
    <3>1. Len(q) = 1
      BY <2>3
    <3> QED BY <2>2, <2>3, <3>1
  <2>12. Awaits(t, t.rx[1])
    BY <2>6, <2>7, <2>8, <2>10, <2>11 DEF Awaits
  <2>13. Located(t)
    BY <2>2, <2>6 DEF Located
  <2>14. rest # <<>> => Continues(t.nal, Received(rest[Len(rest)]))
    BY <2>2, <2>6, <2>10
  <2>15. Ordered(t)
    BY <2>3, <2>6, <2>9, <2>12, <2>13, <2>14 DEF Ordered
  <2>16. x.rx # <<>> => Follows(t.sent, x.rx[1])
    BY <1>2, <1>5, <2>3, <2>6 DEF Ordered, Awaits
  <2> QED BY <1>3, <1>5, <2>15, <2>16
<1> QED BY <1>4, <1>5

-----------------------------------------------------------------------------
(* The request handlers                                                    *)

\* The request is answered, with the CSeq that the session holds.
Settled(x, y) == Steered(x, y) /\ y.out.status # 0 /\ y.out.cseq = x.cseq

\* A reply does not touch the stream.
LEMMA ReplyKeeps ==
  ASSUME NEW x, NEW y, NEW status, status # 0, Steered(x, y)
  PROVE  Settled(x, Reply(y, status))
<1> DEFINE r == [status |-> status, cseq |-> y.cseq]
<1>1. r.status = status /\ r.cseq = x.cseq
  BY DEF Steered
<1> HIDE DEF r
<1>2. Steered(x, [y EXCEPT !.out = r]) /\ [y EXCEPT !.out = r].out = r
  BY DEF Steered, Turned, Rewound, Controlled, Shaped, Fields
<1> QED BY <1>1, <1>2 DEF Reply, Settled, r

\* SetPlaying(true) on a session that enters PLAYING.
LEMMA PlaySteers ==
  ASSUME NEW x, NEW y, Shaped(x), Controlled(x), x.transport,
         Shaped(y), y.parity = x.parity, y.state = "PLAYING", y.transport = x.transport,
         y.playing = x.playing, y.garbage = x.garbage, y.loop = x.loop,
         y.armed = x.armed, y.gen = x.gen, Rewound(x, y), y.cseq = x.cseq
  PROVE  Steered(x, SetPlaying(y, TRUE))
<1>1. CASE y.playing
  <2>1. SetPlaying(y, TRUE) = y
    BY <1>1 DEF SetPlaying
  <2> QED BY <1>1, <2>1 DEF Steered, Turned, Controlled
<1>2. CASE ~y.playing
  <2> DEFINE z == [y EXCEPT !.playing = TRUE]
  <2>1. SetPlaying(y, TRUE) = StartEventLoop(z)
    BY <1>2 DEF SetPlaying
  <2>2. ~z.loop
    BY <1>2 DEF Shaped, Fields, Controlled
  <2>3. StartEventLoop(z) = [z EXCEPT !.loop = TRUE, !.armed = TRUE]
    BY <2>2 DEF StartEventLoop
  <2>4. Shaped(z) /\ z.playing /\ z.parity = y.parity /\ z.state = y.state
        /\ z.transport /\ Rewound(y, z) /\ z.cseq = y.cseq
    BY DEF Shaped, Fields, Rewound
  <2> HIDE DEF z
  <2> DEFINE t == [z EXCEPT !.loop = TRUE, !.armed = TRUE]
  <2>5. /\ Shaped(t) /\ t.playing /\ t.parity = y.parity /\ t.state = y.state
        /\ t.transport /\ t.loop /\ t.armed /\ Rewound(z, t) /\ t.cseq = y.cseq
    BY <2>4 DEF Shaped, Fields, Rewound
  <2>6. SetPlaying(y, TRUE) = t
    BY <2>1, <2>3
  <2> HIDE DEF t
  <2>7. Rewound(x, t)
    BY <2>4, <2>5 DEF Rewound
  <2> QED BY <2>5, <2>6, <2>7 DEF Steered, Turned, Controlled
<1> QED BY <1>1, <1>2 DEF Shaped

\* SetPlaying(false) on a session that leaves PLAYING ends the loop.
LEMMA SilenceSteers ==
  ASSUME NEW x, NEW y, Shaped(x), Controlled(x),
         Shaped(y), y.parity = x.parity, y.state \in {"PAUSED", "TEARDOWN"},
         y.transport = x.transport, y.playing = x.playing, y.garbage = x.garbage,
         y.loop = x.loop, Rewound(x, y), y.cseq = x.cseq
  PROVE  Steered(x, SetPlaying(y, FALSE))
<1>1. CASE y.playing
  <2>1. SetPlaying(y, FALSE) =
           StopEventLoop([y EXCEPT !.playing = FALSE, !.garbage = FALSE])
    BY <1>1 DEF SetPlaying
  <2> DEFINE z == [y EXCEPT !.playing = FALSE, !.garbage = FALSE]
  <2>2. Shaped(z) /\ ~z.playing /\ z.parity = y.parity /\ z.state = y.state
        /\ Rewound(y, z) /\ z.cseq = y.cseq
    BY DEF Shaped, Fields, Rewound
  <2> HIDE DEF z
  <2> DEFINE t == [z EXCEPT !.loop = FALSE, !.armed = FALSE]
  <2>3. Shaped(t) /\ ~t.playing /\ ~t.loop /\ t.parity = y.parity /\ t.state = y.state
        /\ Rewound(z, t) /\ t.cseq = y.cseq
    BY <2>2 DEF Shaped, Fields, Rewound
  <2>4. SetPlaying(y, FALSE) = t
    BY <2>1 DEF StopEventLoop, z
  <2> HIDE DEF t
  <2>5. Rewound(x, t)
    BY <2>2, <2>3 DEF Rewound
  <2> QED BY <2>3, <2>4, <2>5 DEF Steered, Turned, Controlled
<1>2. CASE ~y.playing
  <2>1. SetPlaying(y, FALSE) = y
    BY <1>2 DEF SetPlaying
  <2>2. ~y.loop
    BY <1>2 DEF Controlled
  <2> QED BY <1>2, <2>1, <2>2 DEF Steered, Turned, Controlled
<1> QED BY <1>1, <1>2 DEF Shaped

\* SETUP answers READY with a transport that is silent, or the old one.
LEMMA SetupSteers ==
  ASSUME NEW x, Shaped(x), Controlled(x), NEW tr, NEW garbage \in BOOLEAN
  PROVE  Settled(x, HandleSetup(x, tr, garbage))
<1>1. Steered(x, x)
  BY DEF Steered, Turned, Rewound
<1>2. CASE tr = "udp-no-port"
  <2>1. Steered(x, [x EXCEPT !.mode = "udp"])
    BY DEF Steered, Turned, Rewound, Controlled, Shaped, Fields
  <2> QED BY <1>2, <2>1, ReplyKeeps DEF HandleSetup
<1>3. CASE tr \in {"tcp", "udp"}
  <2> DEFINE y == [x EXCEPT !.mode = tr, !.state = "READY"]
             u == [y EXCEPT !.transport = TRUE]
             n == u.gen + 1
             v == [u EXCEPT !.gen = n]
             z == [v EXCEPT !.playing = garbage, !.garbage = garbage]
             t == [z EXCEPT !.loop = FALSE, !.armed = FALSE]
  <2>2. Shaped(y) /\ y.parity = x.parity /\ y.state = "READY" /\ Rewound(x, y) /\ y.cseq = x.cseq
    BY DEF Shaped, Fields, States, Rewound
  <2>3. NewTransport(y, garbage) = t
    BY DEF NewTransport
  <2> HIDE DEF y
  <2>8. Shaped(u) /\ u.parity = x.parity /\ u.state = "READY" /\ Rewound(y, u) /\ u.cseq = x.cseq
    BY <2>2 DEF Shaped, Fields, Rewound
  <2> HIDE DEF u
  <2>6. n \in Nat
    BY <2>8 DEF Shaped
  <2> HIDE DEF n
  <2>7. Shaped(v) /\ v.parity = x.parity /\ v.state = "READY" /\ Rewound(u, v) /\ v.cseq = x.cseq
    BY <2>8, <2>6 DEF Shaped, Fields, Rewound
  <2> HIDE DEF v
  <2>4. Shaped(z) /\ z.parity = x.parity /\ z.state = "READY" /\ z.playing = z.garbage
        /\ Rewound(v, z) /\ z.cseq = x.cseq
    BY <2>7 DEF Shaped, Fields, Rewound
  <2> HIDE DEF z
  <2>5. /\ Shaped(t) /\ t.parity = x.parity /\ t.state = "READY" /\ t.playing = t.garbage
        /\ ~t.loop /\ Rewound(z, t) /\ t.cseq = x.cseq
    BY <2>4 DEF Shaped, Fields, Rewound
  <2> HIDE DEF t
  <2>9. Rewound(x, t)
    BY <2>2, <2>4, <2>5, <2>7, <2>8 DEF Rewound
  <2>1. Steered(x, NewTransport(y, garbage))
    BY <2>3, <2>5, <2>9 DEF Steered, Turned, Controlled
  <2> USE DEF y
  <2> QED BY <1>3, <2>1, ReplyKeeps DEF HandleSetup
<1>4. CASE tr = "multicast"
  <2>1. Steered(x, [x EXCEPT !.mode = tr, !.state = "READY"])
    BY DEF Steered, Turned, Rewound, Controlled, Shaped, Fields, States
  <2> QED BY <1>4, <2>1, ReplyKeeps DEF HandleSetup
<1>5. CASE tr \notin {"udp-no-port", "tcp", "udp", "multicast"}
  <2>1. HandleSetup(x, tr, garbage) = Reply(x, 400)
    BY <1>5 DEF HandleSetup
  <2> QED BY <1>1, <2>1, ReplyKeeps
<1> QED BY <1>2, <1>3, <1>4, <1>5

\* PLAY rewinds the file and starts the loop, with a transport.
LEMMA HandlePlaySteers ==
  ASSUME NEW x, Shaped(x), Controlled(x)
  PROVE  Settled(x, HandlePlay(x))
<1> DEFINE playing == [x EXCEPT !.state = "PLAYING"]
           y == IF HasMoreData(x) THEN Reset(playing) ELSE playing
           rewound == [y EXCEPT !.frame = 0, !.rx = <<>>]
<1>1. Steered(x, x)
  BY DEF Steered, Turned, Rewound
<1>2. CASE x.state # "READY"
  BY <1>1, <1>2, ReplyKeeps DEF HandlePlay
<1>3. CASE x.state = "READY" /\ x.transport
  <2>1. Shaped(playing)
    BY DEF Shaped, Fields, States
  <2>2. /\ Played(playing, y) /\ y.parity = playing.parity
        /\ y.queue = playing.queue /\ y.nal \in {playing.nal, 1} /\ y.cseq = playing.cseq
    BY <2>1, ResetKeeps DEF Played
  <2> HIDE DEF y
  <2>3. /\ Played(playing, rewound) /\ rewound.parity = playing.parity
        /\ rewound.queue = playing.queue /\ rewound.nal \in {playing.nal, 1}
        /\ rewound.frame = 0 /\ rewound.rx = <<>> /\ rewound.cseq = playing.cseq
    BY <2>2 DEF Played, Shaped, Fields
  <2>4. /\ playing.parity = x.parity /\ playing.state = "PLAYING"
        /\ playing.transport = x.transport /\ playing.playing = x.playing
        /\ playing.garbage = x.garbage /\ playing.loop = x.loop
        /\ playing.armed = x.armed /\ playing.gen = x.gen
        /\ playing.queue = x.queue /\ playing.nal = x.nal /\ playing.cseq = x.cseq
    BY DEF Shaped, Fields
  <2> HIDE DEF rewound, playing
  <2>7. Rewound(x, rewound)
    BY <2>3, <2>4 DEF Rewound
  <2>5. Steered(x, SetPlaying(rewound, TRUE))
    BY <1>3, <2>3, <2>4, <2>7, PlaySteers DEF Played
  <2>6. HandlePlay(x) = Reply(SetPlaying(rewound, TRUE), 200)
    BY <1>3 DEF HandlePlay, rewound, y, playing
  <2> DEFINE z == SetPlaying(rewound, TRUE)
  <2> HIDE DEF z
  <2>9. Steered(x, z)
    BY <2>5 DEF z
  <2>8. Settled(x, Reply(z, 200))
    BY <2>9, ReplyKeeps
  <2> QED BY <2>6, <2>8, Zenon DEF z
<1>4. CASE x.state = "READY" /\ ~x.transport
  <2>1. Steered(x, playing)
    BY <1>4 DEF Steered, Turned, Rewound, Controlled, Shaped, Fields, States
  <2>2. HandlePlay(x) = Reply(playing, 200)
    BY <1>4 DEF HandlePlay
  <2> HIDE DEF playing
  <2> QED BY <2>1, <2>2, ReplyKeeps
<1> QED BY <1>2, <1>3, <1>4 DEF Shaped

\* PAUSE and TEARDOWN end it.
LEMMA HandleStopSteers ==
  ASSUME NEW x, Shaped(x), Controlled(x)
  PROVE  Settled(x, HandlePause(x)) /\ Settled(x, HandleTeardown(x))
<1>1. Steered(x, x)
  BY DEF Steered, Turned, Rewound
<1>2. ASSUME NEW st \in {"PAUSED", "TEARDOWN"}
      PROVE  LET y == [x EXCEPT !.state = st]
             IN Steered(x, IF x.transport THEN SetPlaying(y, FALSE) ELSE y)
  <2> DEFINE y == [x EXCEPT !.state = st]
  <2>1. /\ Shaped(y) /\ y.parity = x.parity /\ y.state \in {"PAUSED", "TEARDOWN"}
        /\ y.transport = x.transport /\ y.playing = x.playing /\ y.garbage = x.garbage
        /\ y.loop = x.loop /\ Rewound(x, y) /\ y.cseq = x.cseq
    BY DEF Shaped, Fields, States, Rewound
  <2>2. ~x.transport => Steered(x, y)
    BY DEF Steered, Turned, Rewound, Controlled, Shaped, Fields, States
  <2> HIDE DEF y
  <2>3. Steered(x, SetPlaying(y, FALSE))
    BY <2>1, SilenceSteers
  <2> QED BY <2>2, <2>3 DEF y
<1>3. Settled(x, HandlePause(x))
  <2> DEFINE y == [x EXCEPT !.state = "PAUSED"]
             z == IF x.transport THEN SetPlaying(y, FALSE) ELSE y
  <2>1. Steered(x, z)
    BY <1>2
  <2>2. HandlePause(x) = IF x.state # "PLAYING" THEN Reply(x, 400) ELSE Reply(z, 200)
    BY DEF HandlePause
  <2> HIDE DEF z
  <2> QED BY <1>1, <2>1, <2>2, ReplyKeeps
<1>4. Settled(x, HandleTeardown(x))
  <2> DEFINE y == [x EXCEPT !.state = "TEARDOWN"]
             z == IF x.transport THEN SetPlaying(y, FALSE) ELSE y
  <2>1. Steered(x, z)
    BY <1>2
  <2>2. HandleTeardown(x) = Reply(z, 200)
    BY DEF HandleTeardown
  <2> HIDE DEF z
  <2> QED BY <2>1, <2>2, ReplyKeeps
<1> QED BY <1>3, <1>4

\* So does every request; one that begins with a request line is answered with
\* the CSeq of its headers.
LEMMA RequestSteers ==
  ASSUME NEW x, Shaped(x), Controlled(x), NEW b, NEW garbage \in BOOLEAN
  PROVE  LET z == HandleRtspRequest(x, b, garbage)
             n == ParseHeaders(b).cseq
         IN /\ Turned(x, z)
            /\ z.out.status # 0
            /\ ParseRtspRequestLine(b[1]) /\ n # 0 => z.out.cseq = n
<1> DEFINE h == ParseHeaders(b)
           n == h.cseq
           y == IF n = 0 THEN x ELSE [x EXCEPT !.cseq = n]
<1> HIDE DEF h, n
<1>1. /\ Shaped(y) /\ Controlled(y) /\ Played(x, y) /\ y.parity = x.parity /\ Rewound(x, y)
      /\ n # 0 => y.cseq = n
  BY DEF Shaped, Fields, Controlled, Played, Rewound
<1> HIDE DEF y
<1>2. ASSUME NEW m, NEW tr PROVE Settled(y, Dispatch(y, m, tr, garbage))
  <2>1. Steered(y, y)
    BY <1>1 DEF Steered, Turned, Rewound
  <2>2. /\ Settled(y, HandleSetup(y, tr, garbage)) /\ Settled(y, HandlePlay(y))
        /\ Settled(y, HandlePause(y)) /\ Settled(y, HandleTeardown(y))
        /\ Settled(y, Reply(y, 405)) /\ Settled(y, Reply(y, 200))
    BY <1>1, <2>1, SetupSteers, HandlePlaySteers, HandleStopSteers, ReplyKeeps
  <2> QED BY <2>2 DEF Dispatch
<1>3. CASE ParseRtspRequestLine(b[1])
  <2> DEFINE z == Dispatch(y, b[1].m, h.tr, garbage)
  <2>1. HandleRtspRequest(x, b, garbage) = z
    BY <1>3 DEF HandleRtspRequest, y, h, n
  <2>2. Settled(y, z)
    BY <1>2
  <2> HIDE DEF z
  <2>3. Turned(x, z)
    BY <1>1, <2>2 DEF Settled, Steered, Turned, Rewound, Played
  <2>4. z.out.status # 0 /\ (n # 0 => z.out.cseq = n)
    BY <1>1, <2>2 DEF Settled
  <2> QED BY <2>1, <2>3, <2>4 DEF h, n
<1>4. CASE ~ParseRtspRequestLine(b[1])
  <2> DEFINE r == [status |-> 400, cseq |-> -1]
             z == [x EXCEPT !.out = r]
  <2>1. HandleRtspRequest(x, b, garbage) = z
    BY <1>4 DEF HandleRtspRequest
  <2>2. r.status # 0
    OBVIOUS
  <2> HIDE DEF r
  <2>3. Turned(x, z) /\ z.out = r
    BY DEF Turned, Rewound, Controlled, Shaped, Fields
  <2> HIDE DEF z
  <2> QED BY <1>4, <2>1, <2>2, <2>3
<1> QED BY <1>3, <1>4

-----------------------------------------------------------------------------
(* The invariant                                                           *)

StreamInv ==
    /\ Shaped(s)
    /\ Controlled(s)
    /\ queued \in Seq(Nat)
    /\ Timed(s, queued)
    /\ Ordered(s)

\* A packet leaves a running loop, and it is the one the receiver waits for.
SendsDue == Sends => s.loop /\ (s.rx # <<>> => Follows(s'.sent, s.rx[1]))

\* A new session loads the file and has no stream.
LEMMA StartsQuiet == Init => StreamInv
<1> SUFFICES ASSUME Init PROVE StreamInv
  OBVIOUS
<1> DEFINE x == [state |-> "INIT", cseq |-> 0, mode |-> "tcp", out |-> NoReply,
                 transport |-> FALSE, playing |-> FALSE, garbage |-> FALSE,
                 gen |-> 0, loop |-> FALSE, armed |-> FALSE,
                 nal |-> 1, eof |-> FALSE, frame |-> 0, queue |-> <<>>,
                 sent |-> <<>>, parity |-> FALSE, rx |-> <<>>]
           y == ReadNextFrame(x).src
<1>1. Shaped(x)
  BY DEF Shaped, Fields, States
<1>2. ~x.loop /\ ~x.playing /\ x.state = "INIT" /\ x.queue = <<>> /\ x.rx = <<>> /\ x.frame = 0
  OBVIOUS
<1> HIDE DEF x
<1>3. Played(x, y) /\ y.queue = <<>> /\ y.rx = <<>> /\ y.frame = 0
  BY <1>1, <1>2, ReadKeeps
<1> DEFINE z == Reset(y)
<1>5. s = z /\ queued = <<>>
  BY DEF Init, OnCreateSession, LoadVideoFile, x
<1> HIDE DEF y
<1>4. Played(x, z) /\ z.queue = <<>> /\ z.rx = <<>> /\ z.frame = 0 /\ z.nal = 1
  BY <1>3, ResetKeeps DEF Played
<1> HIDE DEF z
<1>6. Located(z)
  <2>1. Len(File) \in Nat
    BY FileAssumption
  <2> QED BY <1>4, <2>1 DEF Located
<1>7. z.queue \in Seq(PacketType) /\ Linked(z.queue)
  BY <1>4 DEF Linked
<1>8. Ordered(z)
  BY <1>4, <1>6, <1>7 DEF Ordered
<1> QED BY <1>2, <1>4, <1>5, <1>8 DEF StreamInv, Played, Controlled, Timed

\* A read handles a request, or leaves the session as it is.
LEMMA ReadSteers ==
  ASSUME StreamInv, NEW n, NEW garbage \in BOOLEAN, Read(n, garbage)
  PROVE  Turned(s, s') /\ queued' = queued
<1> DEFINE got == Consume(s, buf \o SubSeq(net, 1, n))
           next == IF got.request = <<>> THEN [s EXCEPT !.out = NoReply]
                   ELSE HandleRtspRequest(s, got.request, garbage)
<1>1. Turned(s, [s EXCEPT !.out = NoReply])
  BY DEF StreamInv, Turned, Rewound, Controlled, Shaped, Fields
<1>2. Turned(s, HandleRtspRequest(s, got.request, garbage))
  BY RequestSteers DEF StreamInv
<1>3. Turned(s, s)
  BY DEF StreamInv, Turned, Rewound
<1>4. (s' = next \/ s' = s) /\ queued' = queued
  BY DEF Read
<1> QED BY <1>1, <1>2, <1>3, <1>4

\* A session that was turned, and whose callbacks stay where they are keeps its timer.
LEMMA TurnedKeeps ==
  ASSUME StreamInv, Turned(s, s'), queued' = queued
  PROVE  StreamInv' /\ ~Sends
<1>1. Ordered(s')
  <2>1. Ordered(s) /\ Rewound(s, s')
    BY DEF StreamInv, Turned
  <2> QED BY <2>1, RewoundOrdered
<1>2. Shaped(s') /\ Controlled(s') /\ queued' \in Seq(Nat) /\ Timed(s', queued')
  BY DEF StreamInv, Turned, Timed, Shaped
<1>3. ~Sends
  BY DEF Turned, Sends
<1> QED BY <1>1, <1>2, <1>3 DEF StreamInv

\* The pacing timer expires.
LEMMA ExpireKeeps ==
  ASSUME StreamInv, Expire
  PROVE  StreamInv' /\ ~Sends
<1>1. s.gen \in Nat /\ queued' = Append(queued, s.gen) /\ s' = [s EXCEPT !.armed = FALSE]
  BY DEF Expire, StreamInv, Shaped
<1>2. Shaped(s') /\ Controlled(s') /\ s'.gen = s.gen /\ s'.parity = s.parity /\ Rewound(s, s')
  BY <1>1 DEF StreamInv, Shaped, Controlled, Rewound, Fields
<1>3. queued' \in Seq(Nat) /\ s.gen \in Range(queued')
  <2>1. queued' \in Seq(Nat) /\ Len(queued') = Len(queued) + 1 /\ queued'[Len(queued')] = s.gen
    BY <1>1 DEF StreamInv
  <2> QED BY <2>1 DEF Range
<1>4. Ordered(s')
  BY <1>2, RewoundOrdered DEF StreamInv
<1> QED BY <1>2, <1>3, <1>4 DEF StreamInv, Timed, Sends

\* A callback that runs sends a packet and arms the timer, or finds the
\* transport silent.
LEMMA TickKeeps ==
  ASSUME StreamInv, Tick
  PROVE  StreamInv' /\ SendsDue
<1>1. queued # <<>> /\ queued' = Tail(queued) /\ queued' \in Seq(Nat)
  BY DEF Tick, StreamInv
<1>2. CASE Head(queued) = s.gen /\ s.playing /\ s.loop
  <2>1. s' = [SendNext(s) EXCEPT !.armed = TRUE]
    BY <1>2 DEF Tick, OnTimer
  <2>2. Played(s, SendNext(s))
    BY SendKeeps DEF StreamInv
  <2> DEFINE y == SendNext(s)
  <2>4. Ordered(y) /\ (y.parity = s.parity \/ (s.rx # <<>> => Follows(y.sent, s.rx[1])))
    BY SendOrdered DEF StreamInv
  <2> HIDE DEF y
  <2>3. /\ Shaped(s') /\ Controlled(s') /\ s'.armed
        /\ Rewound(y, s') /\ s'.parity = y.parity /\ s'.sent = y.sent
    <3>1. s' = [y EXCEPT !.armed = TRUE] /\ Played(s, y)
      BY <2>1, <2>2 DEF y
    <3> QED BY <3>1 DEF StreamInv, Played, Shaped, Controlled, Rewound, Fields
  <2>5. Ordered(s')
    BY <2>3, <2>4, RewoundOrdered
  <2>6. SendsDue
    BY <1>2, <2>3, <2>4 DEF SendsDue, Sends
  <2> QED BY <1>1, <2>3, <2>5, <2>6 DEF StreamInv, Timed
<1>3. CASE Head(queued) = s.gen /\ ~(s.playing /\ s.loop)
  <2>1. s' = s
    BY <1>3 DEF Tick, OnTimer
  <2>2. ~s.loop
    BY <1>3 DEF StreamInv, Controlled
  <2> QED BY <1>1, <2>1, <2>2 DEF StreamInv, Timed, Sends, SendsDue
<1>4. CASE Head(queued) # s.gen
  <2>1. s' = s
    BY <1>4 DEF Tick
  <2>2. s.gen \in Range(queued) => s.gen \in Range(queued')
    <3> SUFFICES ASSUME NEW i \in DOMAIN queued, queued[i] = s.gen
                 PROVE  s.gen \in Range(queued')
      BY DEF Range
    <3>1. i \in 1 .. Len(queued) /\ i # 1
      BY <1>1, <1>4 DEF StreamInv
    <3>2. i - 1 \in 1 .. Len(queued') /\ queued'[i - 1] = s.gen
      BY <1>1, <3>1 DEF StreamInv
    <3> QED BY <1>1, <3>2 DEF Range
  <2> QED BY <1>1, <2>1, <2>2 DEF StreamInv, Timed, Sends, SendsDue
<1> QED BY <1>2, <1>3, <1>4

\* Every step keeps the invariant, and what it sends is due.
LEMMA StreamStep ==
  ASSUME StreamInv, [Next]_vars
  PROVE  StreamInv' /\ SendsDue
<1>1. ASSUME s' = s, queued' = queued PROVE StreamInv' /\ ~Sends
  BY <1>1 DEF StreamInv, Sends
<1>2. ASSUME NEW q \in Asked, ClientRequest(q[1], q[2]) PROVE s' = s /\ queued' = queued
  BY <1>2 DEF ClientRequest
<1>3. CASE ClientRtcp \/ ClientGone \/ ReadError
  <2>1. s' = s /\ queued' = queued
    BY <1>3 DEF ClientRtcp, ClientGone, ReadError
  <2> QED BY <1>1, <2>1 DEF SendsDue
<1>4. ASSUME NEW n \in 1 .. Len(net), NEW garbage \in BOOLEAN, Read(n, garbage)
      PROVE  StreamInv' /\ ~Sends
  BY <1>4, ReadSteers, TurnedKeeps
<1>5. CASE Expire
  BY <1>5, ExpireKeeps DEF SendsDue
<1>6. CASE Tick
  BY <1>6, TickKeeps
<1>7. CASE UNCHANGED vars
  <2>1. s' = s /\ queued' = queued
    BY <1>7 DEF vars
  <2> QED BY <1>1, <2>1 DEF SendsDue
<1> QED BY <1>1, <1>2, <1>3, <1>4, <1>5, <1>6, <1>7 DEF Next, Step, SendsDue

\* The loop runs only on a transport that plays, and it has a timer.
THEOREM StreamInvariant == Spec => []StreamInv
<1>1. Init => StreamInv
  BY StartsQuiet
<1>2. StreamInv /\ [Next]_vars => StreamInv'
  BY StreamStep
<1> QED BY <1>1, <1>2, PTL DEF Spec

\* No order of requests and expiries leaves the loop's flag without a timer.
THEOREM LoopHasTimerHolds == Spec => []LoopHasTimer
<1>1. StreamInv => LoopHasTimer
  BY DEF StreamInv, Timed, LoopHasTimer
<1> QED BY <1>1, StreamInvariant, PTL

\* A session in PLAYING with a transport has its loop running.
THEOREM PlayingHasLoopHolds == Spec => []PlayingHasLoop
<1>1. StreamInv => PlayingHasLoop
  BY DEF StreamInv, Shaped, Controlled, PlayingHasLoop
<1> QED BY <1>1, StreamInvariant, PTL

\* No media packet leaves a session that is paused or torn down.
THEOREM SilentWhenStoppedHolds == Spec => SilentWhenStopped
<1>1. StreamInv /\ [Next]_vars => [Sends => s.state \in {"PLAYING", "READY"}]_vars
  BY StreamStep DEF StreamInv, Controlled, SendsDue
<1> QED BY <1>1, StreamInvariant, PTL DEF Spec, SilentWhenStopped

\* From one PLAY to the next the receiver gets every unit whole, in file order
\* and from its first fragment on.
THEOREM StreamInOrderHolds == Spec => StreamInOrder
<1>1. StreamInv /\ [Next]_vars => [Sends /\ s.rx # <<>> => Follows(s'.sent, s.rx[1])]_vars
  BY StreamStep DEF SendsDue
<1> QED BY <1>1, StreamInvariant, PTL DEF Spec, StreamInOrder

-----------------------------------------------------------------------------
(* The answer to a request                                                 *)

Tokens ==
    {Line(m) : m \in Methods}
        \cup {Rest(n, tr) : n \in Nat \ {0}, tr \in Transports \cup {"none"}}
        \cup {FrameHead, FrameBody}

\* What is on its way to the server; a header block has a CSeq of its own.
NetInv == asked \in Nat /\ net \in Seq(Tokens)

\* The rest of a header block names a CSeq that is not 0.
LEMMA RestNumbered ==
  ASSUME NEW t \in Tokens, t.kind = "rest"
  PROVE  t.cseq # 0
<1>1. \A m : Line(m).kind # "rest"
  BY DEF Line
<1>2. FrameHead.kind # "rest" /\ FrameBody.kind # "rest"
  BY DEF FrameHead, FrameBody
<1>3. PICK n \in Nat \ {0}, tr \in Transports \cup {"none"} : t = Rest(n, tr)
  BY <1>1, <1>2 DEF Tokens
<1> QED BY <1>3 DEF Rest

\* The client numbers its requests from 1, and a read takes from the front.
LEMMA NetStep ==
  ASSUME NetInv, [Next]_vars
  PROVE  NetInv'
<1>1. ASSUME NEW q \in Asked, ClientRequest(q[1], q[2]) PROVE NetInv'
  <2>1. q[1] \in Methods /\ q[2] \in Transports \cup {"none"}
    BY AskedAssumption
  <2>2. asked' = asked + 1 /\ asked' \in Nat \ {0} /\ net' = net \o <<Line(q[1]), Rest(asked', q[2])>>
    BY <1>1 DEF ClientRequest, NetInv
  <2>3. Line(q[1]) \in Tokens /\ Rest(asked', q[2]) \in Tokens
    BY <2>1, <2>2 DEF Tokens
  <2>4. <<Line(q[1]), Rest(asked', q[2])>> \in Seq(Tokens)
    BY <2>3
  <2> QED BY <2>2, <2>4 DEF NetInv
<1>2. CASE ClientRtcp
  <2>1. FrameHead \in Tokens /\ FrameBody \in Tokens
    BY DEF Tokens
  <2>2. <<FrameHead, FrameBody>> \in Seq(Tokens)
    BY <2>1
  <2> QED BY <1>2, <2>2 DEF ClientRtcp, NetInv
<1>3. CASE ReadError
  BY <1>3 DEF ReadError, NetInv
<1>4. ASSUME NEW n \in 1 .. Len(net), NEW garbage \in BOOLEAN, Read(n, garbage) PROVE NetInv'
  BY <1>4 DEF Read, NetInv
<1>5. CASE ClientGone \/ Expire \/ Tick
  BY <1>5 DEF ClientGone, Expire, Tick, NetInv
<1>6. CASE UNCHANGED vars
  BY <1>6 DEF vars, NetInv
<1> QED BY <1>1, <1>2, <1>3, <1>4, <1>5, <1>6 DEF Next, Step

\* A request line and its headers, alone in the buffer, are one request with
\* the CSeq of those headers, in every state.
LEMMA AloneConsumed ==
  ASSUME NEW x, NEW b \in Seq(Tokens), Len(b) = 2,
         NEW m \in Methods \ {"GET_PARAMETER", "RECORD"}, b[1] = Line(m), b[2].kind = "rest"
  PROVE  /\ Consume(x, b).request = b
         /\ ParseRtspRequestLine(b[1])
         /\ ParseHeaders(b).cseq = b[2].cseq
<1>1. b[1].kind = "line" /\ b[1].m = m
  BY DEF Line
<1>2. DropFrames(b) = b
  <2> DEFINE W == {k \in 0 .. Len(b) \div 2 : \A i \in 1 .. k : b[2 * i - 1].kind = "head"}
  <2>1. W = {0}
    <3>1. Len(b) \div 2 = 1 /\ 2 * 1 - 1 = 1
      BY SMT
    <3>2. 1 \in 1 .. 1 /\ b[1].kind # "head"
      BY <1>1
    <3>3. \A k \in W : k = 0
      <4> SUFFICES ASSUME NEW k \in W PROVE k = 0
        OBVIOUS
      <4>1. k \in 0 .. 1 /\ \A i \in 1 .. k : b[2 * i - 1].kind = "head"
        BY <3>1
      <4>2. k = 1 => b[2 * 1 - 1].kind = "head"
        BY <4>1
      <4> HIDE DEF W
      <4> QED BY <3>1, <3>2, <4>1, <4>2
    <3>4. 0 \in W
      BY <3>1
    <3> HIDE DEF W
    <3> QED BY <3>3, <3>4
  <2> HIDE DEF W
  <2>2. Max({0}) = 0
    BY DEF Max
  <2>3. DropFrames(b) = SubSeq(b, 2 * 0 + 1, Len(b))
    BY <2>1, <2>2 DEF DropFrames, W
  <2>4. SubSeq(b, 1, Len(b)) = b
    OBVIOUS
  <2>5. 2 * 0 + 1 = 1
    OBVIOUS
  <2> QED BY <2>3, <2>4, <2>5
<1>3. b # <<>> /\ b[1].kind # "head" /\ KnownFirstByte(b[1])
  BY <1>1 DEF KnownFirstByte
<1>4. Consume(x, b).request = b
  <2>1. Consume(x, b) = IF x.state \notin {"PLAYING", "READY"} THEN [request |-> b, left |-> <<>>]
                        ELSE [request |-> b, left |-> <<>>]
    BY <1>2, <1>3, Zenon DEF Consume
  <2> QED BY <2>1
<1>5. ParseRtspRequestLine(b[1])
  BY <1>1 DEF ParseRtspRequestLine
<1>6. ParseHeaders(b).cseq = b[2].cseq
  <2> DEFINE H == {i \in DOMAIN b : b[i].kind = "rest"}
             N == {i \in H : b[i].tr # "none"}
             tr == IF N = {} THEN "none" ELSE b[Max(N)].tr
  <2>1. H = {2}
    <3>1. DOMAIN b = {1, 2}
      OBVIOUS
    <3> QED BY <1>1, <3>1
  <2>2. Max({2}) = 2
    BY DEF Max
  <2>3. ParseHeaders(b) = [cseq |-> IF H = {} THEN 0 ELSE b[Max(H)].cseq, tr |-> tr]
    BY Zenon DEF ParseHeaders
  <2> HIDE DEF H, tr
  <2>4. (IF H = {} THEN 0 ELSE b[Max(H)].cseq) = b[2].cseq
    BY <2>1, <2>2
  <2> QED BY <2>3, <2>4
<1> QED BY <1>4, <1>5, <1>6

\* A request that arrives whole, alone and on an empty buffer is answered in
\* that step with its own CSeq, whatever state the session is in.
THEOREM AnsweredHolds == Spec => Answered
<1> DEFINE Known == Methods \ {"GET_PARAMETER", "RECORD"}
<1>1. Init => NetInv
  BY DEF Init, NetInv
<1>2. NetInv /\ [Next]_vars => NetInv'
  BY NetStep
<1>3. StreamInv /\ NetInv /\ [Next]_vars => [AnswersWhole(Known)]_vars
  <2> SUFFICES ASSUME StreamInv, NetInv, Next, NEW m \in Known, Alone(m), buf = <<>>,
                      net' = <<>>, sock' = sock, fate' = "ok"
               PROVE  s'.out.status # 0 /\ s'.out.cseq = net[2].cseq
    BY DEF AnswersWhole
  <2>1. net \in Seq(Tokens) /\ Len(net) = 2 /\ net[1] = Line(m) /\ net[2].kind = "rest" /\ net # <<>>
    BY DEF NetInv, Alone
  <2>2. PICK n \in 1 .. Len(net), garbage \in BOOLEAN : Read(n, garbage)
    <3>1. ASSUME NEW q \in Asked, ClientRequest(q[1], q[2]) PROVE FALSE
      BY <2>1, <3>1 DEF ClientRequest
    <3>2. ~ClientRtcp
      BY <2>1 DEF ClientRtcp
    <3>3. ~ClientGone /\ ~ReadError
      BY DEF ClientGone, ReadError
    <3>4. ~Expire /\ ~Tick
      BY <2>1 DEF Expire, Tick
    <3> QED BY <3>1, <3>2, <3>3, <3>4 DEF Next, Step
  <2>3. n = 2
    <3>1. Len(SubSeq(net, n + 1, Len(net))) = 2 - n
      BY <2>1
    <3>2. SubSeq(net, n + 1, Len(net)) = <<>>
      BY <2>2 DEF Read
    <3> QED BY <2>1, <3>1, <3>2
  <2>4. buf \o SubSeq(net, 1, n) = net
    BY <2>1, <2>3
  <2>5. /\ Consume(s, net).request = net
        /\ ParseRtspRequestLine(net[1]) /\ ParseHeaders(net).cseq = net[2].cseq
    BY <2>1, AloneConsumed
  <2>6. s' = HandleRtspRequest(s, net, garbage)
    <3> DEFINE got == Consume(s, buf \o SubSeq(net, 1, n))
               next == IF got.request = <<>> THEN [s EXCEPT !.out = NoReply]
                       ELSE HandleRtspRequest(s, got.request, garbage)
    <3>1. s' = next
      BY <2>2, Zenon DEF Read
    <3>2. got.request = net
      BY <2>4, <2>5
    <3> HIDE DEF got
    <3> QED BY <2>1, <3>1, <3>2
  <2>7. net[2].cseq # 0
    <3>1. net[2] \in Tokens
      BY <2>1
    <3> QED BY <2>1, <3>1, RestNumbered
  <2>8. Shaped(s) /\ Controlled(s)
    BY DEF StreamInv
  <2> QED BY <2>5, <2>6, <2>7, <2>8, RequestSteers
<1>4. Spec => []NetInv
  BY <1>1, <1>2, PTL DEF Spec
<1> QED BY <1>3, <1>4, StreamInvariant, PTL DEF Spec, Answered
=============================================================================
