---------------------------- MODULE TransferProofs ----------------------------
(***************************************************************************)
(* Proofs about the mailbox services, for every set of calls, mailboxes    *)
(* and objects of any size (below the thousand by which objects are told   *)
(* apart) and any number of faults.                                        *)
(*                                                                         *)
(* First what buffers, cuts and messages are (the length of what was put   *)
(* together is a fold, whose value follows by induction over its recursive *)
(* function), then the steps of the link, then one invariant per function  *)
(* or kind of function, and at the end all of them together.               *)
(***************************************************************************)
EXTENDS TransferProperties, SequenceTheorems, WellFoundedInduction, TLAPS

-----------------------------------------------------------------------------
(* Induction over a set of numbers. *)
LEMMA Induct ==
  ASSUME NEW T \in SUBSET Nat, 0 \in T, \A n \in T : n + 1 \in T
  PROVE  T = Nat
<1> SUFFICES ASSUME T # Nat PROVE FALSE
    OBVIOUS
<1> DEFINE R == Nat \ T
<1>1. PICK x \in R : \A y \in R : ~ (<<y, x>> \in OpToRel(<, Nat))
    BY NatLessThanWellFounded, WFMin
<1>2. x \in Nat /\ x # 0 /\ x - 1 \in Nat /\ x - 1 < x
    OBVIOUS
<1>3. x - 1 \in T
    BY <1>1, <1>2 DEF OpToRel
<1> QED
    BY <1>2, <1>3

(* The length of what was put together. *)
Bufs == Seq(Int \X Int)

Iter(b) ==
  CHOOSE g : g = [s \in SUBSET DOMAIN b |-> IF s = {} THEN 0 ELSE g[s \ {Max(s)}] + Span(b[Max(s)])]

LEMMA LengthIsIter ==
  ASSUME NEW b
  PROVE  Length(b) = Iter(b)[DOMAIN b]
BY DEF Length, FoldLeft, MapThenFoldSet, Iter

IsIter(g, b, n) ==
  g = [s \in SUBSET (1 .. n) |-> IF s = {} THEN 0 ELSE g[s \ {Max(s)}] + Span(b[Max(s)])]

LEMMA MaxIsLast ==
  ASSUME NEW n \in Nat, NEW s \in SUBSET (1 .. n), n \in s
  PROVE  Max(s) = n
<1>1. \A y \in s : n >= y
    OBVIOUS
<1>2. \A x \in s : (\A y \in s : x >= y) => x = n
    OBVIOUS
<1> QED
    BY <1>1, <1>2 DEF Max

LEMMA IterExists ==
  ASSUME NEW b, NEW n \in Nat
  PROVE  \E g : IsIter(g, b, n)
<1> DEFINE T == {k \in Nat : \E g : IsIter(g, b, k)}
<1>1. 0 \in T
  <2> DEFINE g == [s \in SUBSET (1 .. 0) |-> 0]
  <2>1. \A s \in SUBSET (1 .. 0) : s = {}
      OBVIOUS
  <2>2. g = [s \in SUBSET (1 .. 0) |-> IF s = {} THEN 0 ELSE g[s \ {Max(s)}] + Span(b[Max(s)])]
      BY <2>1
  <2> QED
      BY <2>2 DEF IsIter
<1>2. ASSUME NEW k \in T PROVE k + 1 \in T
  <2>1. PICK g : IsIter(g, b, k)
      BY <1>2
  <2> DEFINE h == [s \in SUBSET (1 .. k + 1) |->
                     IF k + 1 \in s THEN g[s \ {k + 1}] + Span(b[k + 1]) ELSE g[s]]
  <2>2. ASSUME NEW s \in SUBSET (1 .. k + 1)
        PROVE  h[s] = IF s = {} THEN 0 ELSE h[s \ {Max(s)}] + Span(b[Max(s)])
    <3>1. CASE k + 1 \in s
      <4>1. Max(s) = k + 1
          BY <3>1, MaxIsLast
      <4>2. s \ {k + 1} \in SUBSET (1 .. k + 1) /\ k + 1 \notin s \ {k + 1}
          OBVIOUS
      <4>3. h[s \ {k + 1}] = g[s \ {k + 1}]
          BY <4>2
      <4> QED
          BY <3>1, <4>1, <4>3
    <3>2. CASE k + 1 \notin s
      <4>1. s \in SUBSET (1 .. k)
          BY <3>2
      <4>2. g[s] = IF s = {} THEN 0 ELSE g[s \ {Max(s)}] + Span(b[Max(s)])
          BY <2>1, <4>1 DEF IsIter
      <4>3. s \ {Max(s)} \in SUBSET (1 .. k + 1) /\ k + 1 \notin s \ {Max(s)}
          BY <3>2
      <4>4. h[s \ {Max(s)}] = g[s \ {Max(s)}] /\ h[s] = g[s]
          BY <3>2, <4>3
      <4> QED
          BY <4>2, <4>4
    <3> QED
        BY <3>1, <3>2
  <2>3. h = [s \in SUBSET (1 .. k + 1) |-> IF s = {} THEN 0 ELSE h[s \ {Max(s)}] + Span(b[Max(s)])]
    <3> DEFINE G(s) == IF s = {} THEN 0 ELSE h[s \ {Max(s)}] + Span(b[Max(s)])
    <3>1. h = [s \in SUBSET (1 .. k + 1) |-> h[s]]
        OBVIOUS
    <3>2. \A s \in SUBSET (1 .. k + 1) : h[s] = G(s)
        BY <2>2
    <3> HIDE DEF h, G
    <3>3. h = [s \in SUBSET (1 .. k + 1) |-> G(s)]
        BY <3>1, <3>2
    <3> QED
        BY <3>3 DEF G
  <2> HIDE DEF h
  <2>4. IsIter(h, b, k + 1)
      BY <2>3 DEF IsIter
  <2>5. k + 1 \in Nat
      OBVIOUS
  <2> QED
      BY <2>4, <2>5
<1> HIDE DEF T
<1>3. T = Nat
    BY <1>1, <1>2, Induct DEF T
<1> QED
    BY <1>3 DEF T

LEMMA IterIsIter ==
  ASSUME NEW b \in Bufs
  PROVE  IsIter(Iter(b), b, Len(b))
<1>1. Len(b) \in Nat /\ DOMAIN b = 1 .. Len(b)
    BY DEF Bufs
<1>2. \E g : IsIter(g, b, Len(b))
    BY <1>1, IterExists
<1>3. Iter(b) = CHOOSE g : IsIter(g, b, Len(b))
    BY <1>1 DEF Iter, IsIter
<1> QED
    BY <1>2, <1>3

LEMMA IterStep ==
  ASSUME NEW b, NEW n \in Nat, NEW g, IsIter(g, b, n)
  PROVE  /\ g[1 .. 0] = 0
         /\ \A k \in 0 .. n - 1 : g[1 .. k + 1] = g[1 .. k] + Span(b[k + 1])
<1>1. 1 .. 0 \in SUBSET (1 .. n) /\ 1 .. 0 = {}
    OBVIOUS
<1>2. g[1 .. 0] = 0
    BY <1>1 DEF IsIter
<1>3. ASSUME NEW k \in 0 .. n - 1 PROVE g[1 .. k + 1] = g[1 .. k] + Span(b[k + 1])
  <2>1. 1 .. k + 1 \in SUBSET (1 .. n) /\ k + 1 \in 1 .. k + 1 /\ 1 .. k + 1 # {}
      OBVIOUS
  <2>2. Max(1 .. k + 1) = k + 1
      BY <2>1, MaxIsLast
  <2>3. (1 .. k + 1) \ {k + 1} = 1 .. k
      OBVIOUS
  <2> QED
      BY <2>1, <2>2, <2>3 DEF IsIter
<1> QED
    BY <1>2, <1>3

LEMMA LengthEmpty == Length(<<>>) = 0
<1>1. <<>> \in Bufs /\ Len(<<>>) = 0 /\ DOMAIN <<>> = 1 .. 0
    BY DEF Bufs
<1>2. IsIter(Iter(<<>>), <<>>, 0)
    BY <1>1, IterIsIter
<1>3. Iter(<<>>)[1 .. 0] = 0
    BY <1>2, IterStep
<1> QED
    BY <1>1, <1>3, LengthIsIter

LEMMA LengthAppend ==
  ASSUME NEW b \in Bufs, NEW p \in Int \X Int
  PROVE  /\ Append(b, p) \in Bufs /\ Length(b) \in Int
         /\ Length(Append(b, p)) = Length(b) + Span(p)
<1> DEFINE a == Append(b, p)
           n == Len(b)
           f == Iter(a)
           g == Iter(b)
<1>1. a \in Bufs /\ n \in Nat /\ Len(a) = n + 1 /\ DOMAIN a = 1 .. n + 1 /\ DOMAIN b = 1 .. n
    BY DEF Bufs
<1>2. a[n + 1] = p /\ \A k \in 1 .. n : a[k] = b[k] /\ b[k] \in Int \X Int
    BY <1>1 DEF Bufs
<1>3. IsIter(f, a, n + 1) /\ IsIter(g, b, n)
    BY <1>1, IterIsIter
<1> HIDE DEF a, n, f, g
<1>4. /\ f[1 .. 0] = 0
      /\ \A k \in 0 .. n : f[1 .. k + 1] = f[1 .. k] + Span(a[k + 1])
  <2>1. n + 1 \in Nat /\ (n + 1) - 1 = n
      BY <1>1
  <2> QED
      BY <1>3, <2>1, IterStep
<1>5. /\ g[1 .. 0] = 0
      /\ \A k \in 0 .. n - 1 : g[1 .. k + 1] = g[1 .. k] + Span(b[k + 1])
    BY <1>1, <1>3, IterStep
<1> DEFINE T == {k \in Nat : k <= n => g[1 .. k] \in Int /\ f[1 .. k] = g[1 .. k]}
<1>6. 0 \in T
    BY <1>4, <1>5
<1>7. ASSUME NEW k \in T PROVE k + 1 \in T
  <2>1. CASE k + 1 <= n
    <3>1. k \in 0 .. n - 1 /\ k \in 0 .. n /\ k + 1 \in 1 .. n /\ k <= n
        BY <2>1, <1>1
    <3>2. Span(b[k + 1]) \in Int /\ a[k + 1] = b[k + 1]
        BY <3>1, <1>2 DEF Span
    <3>3. g[1 .. k] \in Int /\ f[1 .. k] = g[1 .. k]
        BY <1>7, <3>1
    <3>4. g[1 .. k + 1] = g[1 .. k] + Span(b[k + 1]) /\ f[1 .. k + 1] = f[1 .. k] + Span(a[k + 1])
        BY <3>1, <1>4, <1>5
    <3> QED
        BY <3>1, <3>2, <3>3, <3>4
  <2>2. CASE ~(k + 1 <= n)
      BY <2>2
  <2> QED
      BY <2>1, <2>2
<1> HIDE DEF T
<1>8. T = Nat
    BY <1>6, <1>7, Induct DEF T
<1>9. g[1 .. n] \in Int /\ f[1 .. n] = g[1 .. n]
    BY <1>8, <1>1 DEF T
<1>10. f[1 .. n + 1] = f[1 .. n] + Span(p)
    BY <1>1, <1>2, <1>4
<1>11. Length(a) = f[1 .. n + 1] /\ Length(b) = g[1 .. n]
    BY <1>1, LengthIsIter DEF f, g
<1> QED
    BY <1>1, <1>9, <1>10, <1>11 DEF a

LEMMA LowerIs ==
  ASSUME NEW a \in Int, NEW b \in Int
  PROVE  /\ Lower(a, b) \in Int /\ Lower(a, b) <= a /\ Lower(a, b) <= b
         /\ Lower(a, b) = a \/ Lower(a, b) = b
BY DEF Lower

LEMMA GlueLength ==
  ASSUME NEW b \in Bufs, NEW p \in Int \X Int
  PROVE  /\ Glue(b, p) \in Bufs /\ Length(b) \in Int /\ Span(p) \in Int
         /\ Length(Glue(b, p)) = Length(b) + Span(p)
<1>1. Span(p) \in Int /\ p = <<p[1], p[2]>> /\ p[1] \in Int /\ p[2] \in Int
    BY DEF Span
<1>2. Length(b) \in Int
    BY LengthAppend
<1>3. CASE Span(p) = 0
    BY <1>1, <1>2, <1>3 DEF Glue
<1>4. CASE Span(p) # 0 /\ b # <<>> /\ Last(b)[2] = p[1]
  <2> DEFINE f == Front(b)
             l == Last(b)
             q == <<l[1], p[2]>>
  <2>1. Len(b) \in Nat /\ Len(b) # 0
      BY <1>4 DEF Bufs
  <2>2. l \in Int \X Int /\ f \in Bufs /\ b = Append(f, l)
    <3>1. PICK s \in Seq(Int \X Int), e \in Int \X Int : b = Append(s, e)
        BY <1>4, SequenceEmptyOrAppend DEF Bufs
    <3>2. /\ Len(s) \in Nat /\ Len(b) = Len(s) + 1 /\ b[Len(s) + 1] = e
          /\ \A i \in 1 .. Len(s) : b[i] = s[i]
        BY <3>1, AppendProperties, LenProperties
    <3>3. l = e
        BY <3>2 DEF Last
    <3>4. f = SubSeq(b, 1, Len(s))
        BY <3>2 DEF Front
    <3>5. \A i \in 1 .. Len(s) : b[i] \in Int \X Int
        BY <3>2, ElementOfSeq
    <3>6. /\ SubSeq(b, 1, Len(s)) \in Seq(Int \X Int)
          /\ Len(SubSeq(b, 1, Len(s))) = IF 1 <= Len(s) THEN Len(s) - 1 + 1 ELSE 0
          /\ \A i \in 1 .. Len(s) - 1 + 1 : SubSeq(b, 1, Len(s))[i] = b[1 + i - 1]
        BY <3>2, <3>5, SubSeqProperties
    <3>7. Len(SubSeq(b, 1, Len(s))) = Len(s)
        BY <3>2, <3>6
    <3>8. \A i \in 1 .. Len(s) : SubSeq(b, 1, Len(s))[i] = s[i]
        BY <3>2, <3>6
    <3>9. f = s
        BY <3>4, <3>6, <3>7, <3>8, SeqEqual
    <3> QED
        BY <3>1, <3>3, <3>9 DEF Bufs
  <2>3. Length(b) = Length(f) + Span(l) /\ Length(f) \in Int
      BY <2>2, LengthAppend
  <2>4. q \in Int \X Int /\ Span(q) = Span(l) + Span(p)
      BY <2>2, <1>1, <1>4 DEF Span
  <2> HIDE DEF f, l, q
  <2>5. Append(f, q) \in Bufs /\ Length(Append(f, q)) = Length(f) + Span(q)
      BY <2>2, <2>4, LengthAppend
  <2>6. Glue(b, p) = Append(f, q)
      BY <1>4 DEF Glue, f, l, q
  <2>7. Span(l) \in Int
      BY <2>2 DEF Span
  <2> QED
      BY <1>1, <1>2, <2>3, <2>4, <2>5, <2>6, <2>7
<1>5. CASE Span(p) # 0 /\ ~(b # <<>> /\ Last(b)[2] = p[1])
  <2>1. Glue(b, p) = Append(b, p)
      BY <1>5 DEF Glue
  <2> QED
      BY <1>1, <1>2, <2>1, LengthAppend
<1> QED
    BY <1>3, <1>4, <1>5

LEMMA GlueFirst ==
  ASSUME NEW x \in Int, NEW z \in Int
  PROVE  Glue(<<>>, <<x, z>>) = IF x = z THEN <<>> ELSE <<<<x, z>>>>
<1>1. Span(<<x, z>>) = 0 <=> x = z
    BY DEF Span
<1>2. Append(<<>>, <<x, z>>) = <<<<x, z>>>>
    OBVIOUS
<1> QED
    BY <1>1, <1>2 DEF Glue

LEMMA GlueOne ==
  ASSUME NEW x \in Int, NEW y \in Int, NEW z \in Int
  PROVE  Glue(<<<<x, y>>>>, <<y, z>>) = <<<<x, z>>>>
<1> DEFINE b == <<<<x, y>>>>
<1>1. Span(<<y, z>>) = 0 <=> y = z
    BY DEF Span
<1>2. b # <<>> /\ Len(b) = 1 /\ Last(b) = <<x, y>> /\ Front(b) = <<>>
    BY DEF Last, Front
<1>3. Append(Front(b), <<Last(b)[1], z>>) = <<<<x, z>>>>
    BY <1>2
<1>4. Last(b)[2] = y /\ <<y, z>>[1] = y /\ <<y, z>>[2] = z
    BY <1>2
<1> HIDE DEF b
<1>5. Glue(b, <<y, z>>) = IF y = z THEN b ELSE Append(Front(b), <<Last(b)[1], z>>)
    BY <1>1, <1>2, <1>4 DEF Glue
<1> QED
    BY <1>3, <1>5 DEF b

LEMMA EntireIs ==
  ASSUME NEW n \in Nat
  PROVE  /\ Entire(n) = IF n = 0 THEN <<>> ELSE <<<<0, n>>>>
         /\ Entire(n) \in Bufs /\ Length(Entire(n)) = n
<1>1. Entire(n) = IF n = 0 THEN <<>> ELSE <<<<0, n>>>>
    BY GlueFirst DEF Entire
<1>2. <<>> \in Bufs /\ <<0, n>> \in Int \X Int /\ Span(<<0, n>>) = n
    BY DEF Bufs, Span
<1>3. Entire(n) \in Bufs /\ Length(Entire(n)) = 0 + n
    BY <1>2, GlueLength, LengthEmpty DEF Entire
<1> QED
    BY <1>1, <1>3

LEMMA GlueEntire ==
  ASSUME NEW a \in Nat, NEW z \in Nat, a <= z
  PROVE  Glue(Entire(a), <<a, z>>) = Entire(z)
<1>1. CASE a = 0
  <2>1. Entire(a) = <<>>
      BY <1>1, EntireIs
  <2>2. <<a, z>> = <<0, z>>
      BY <1>1
  <2> QED
      BY <2>1, <2>2 DEF Entire
<1>2. CASE a # 0 /\ z # 0
  <2>1. Entire(a) = <<<<0, a>>>> /\ Entire(z) = <<<<0, z>>>>
      BY <1>2, EntireIs
  <2> QED
      BY <2>1, GlueOne
<1> QED
    BY <1>1, <1>2

(* At most e long, and e long only when nothing is missing before e. *)
Tight(b, e) == Length(b) <= e /\ (Length(b) = e => b = Entire(e))

LEMMA GlueTight ==
  ASSUME NEW b \in Bufs, NEW e \in Nat, NEW a \in Nat, NEW z \in Nat,
         Tight(b, e), e <= a, a <= z
  PROVE  Tight(Glue(b, <<a, z>>), z)
<1>1. <<a, z>> \in Int \X Int /\ Span(<<a, z>>) = z - a
    BY DEF Span
<1>2. Length(Glue(b, <<a, z>>)) = Length(b) + (z - a) /\ Length(b) \in Int
    BY <1>1, GlueLength
<1>3. CASE Length(Glue(b, <<a, z>>)) = z
  <2>1. Length(b) = e /\ e = a
      BY <1>2, <1>3 DEF Tight
  <2> QED
      BY <1>2, <1>3, <2>1, GlueEntire DEF Tight
<1>4. CASE Length(Glue(b, <<a, z>>)) # z
    BY <1>2, <1>4 DEF Tight
<1> QED
    BY <1>3, <1>4

-----------------------------------------------------------------------------
(* How a message is cut. *)
LEMMA DivIs ==
  ASSUME NEW n \in Nat, NEW c \in Nat, c > 0
  PROVE  /\ n \div c \in Nat /\ c * (n \div c) <= n /\ n < c * (n \div c) + c
OBVIOUS

LEMMA Grows ==
  ASSUME NEW i \in Nat, NEW j \in Nat, NEW c \in Nat, i <= j
  PROVE  /\ i * c \in Nat /\ j * c \in Nat /\ i * c <= j * c
         /\ (i + 1) * c = i * c + c
OBVIOUS

(* Piece i of a message of n bytes begins at Cut(n, cap, i - 1) and ends    *)
(* at Cut(n, cap, i).                                                      *)
Cut(n, cap, k) == Lower(n, k * cap)

PieceAt(base, n, cap, i) ==
  /\ Cut(n, cap, i - 1) \in Nat /\ Cut(n, cap, i) \in Nat
  /\ Cut(n, cap, i - 1) <= Cut(n, cap, i) /\ Cut(n, cap, i) <= n
  /\ n > 0 => Cut(n, cap, i - 1) < Cut(n, cap, i)
  /\ Pieces(base, n, cap)[i] = <<base + Cut(n, cap, i - 1), base + Cut(n, cap, i)>>

LEMMA PiecesAre ==
  ASSUME NEW base \in Nat, NEW n \in Nat, NEW cap \in Nat, cap > 0
  PROVE  /\ Len(Pieces(base, n, cap)) \in Nat \ {0}
         /\ Pieces(base, n, cap) \in Seq(Int \X Int)
         /\ Cut(n, cap, 0) = 0 /\ Cut(n, cap, Len(Pieces(base, n, cap))) = n
         /\ \A i \in 1 .. Len(Pieces(base, n, cap)) : PieceAt(base, n, cap, i)
<1> DEFINE q == (n + cap - 1) \div cap
           K == IF n = 0 THEN 1 ELSE q
<1>1. n + cap - 1 \in Nat
    OBVIOUS
<1>2. q \in Nat /\ cap * q <= n + cap - 1 /\ n + cap - 1 < cap * q + cap
    BY <1>1, DivIs
<1> HIDE DEF q
<1>3. q * cap = cap * q /\ q * cap >= n /\ q * cap <= n + cap - 1
    BY <1>2
<1>4. n # 0 => q # 0
    BY <1>2, <1>3
<1>5. K \in Nat \ {0} /\ K * cap >= n
  <2>1. CASE n = 0
      BY <2>1
  <2>2. CASE n # 0
      BY <2>2, <1>2, <1>3, <1>4
  <2> QED
      BY <2>1, <2>2
<1>6. n > 0 => K * cap <= n + cap - 1
    BY <1>3
<1>7. n = 0 => K = 1
    OBVIOUS
<1>8. Pieces(base, n, cap) = [i \in 1 .. K |-> <<base + (i - 1) * cap, base + Lower(n, i * cap)>>]
    BY DEF Pieces, q
<1> HIDE DEF K
<1>9. ASSUME NEW i \in 1 .. K
      PROVE  /\ Cut(n, cap, i - 1) = (i - 1) * cap /\ (i - 1) * cap \in 0 .. n
             /\ i > 1 => (i - 1) * cap < n
             /\ Cut(n, cap, i) \in (i - 1) * cap .. n
             /\ <<base + (i - 1) * cap, base + Lower(n, i * cap)>>
                  = <<base + (i - 1) * cap, base + Cut(n, cap, i)>>
  <2>1. i - 1 \in Nat /\ i \in Nat /\ i - 1 <= K - 1 /\ K - 1 \in Nat
      BY <1>5
  <2>2. (i - 1) * cap \in Nat /\ (i - 1) * cap <= (K - 1) * cap /\ ((i - 1) + 1) * cap = (i - 1) * cap + cap
      BY <2>1, Grows
  <2>3. (K - 1) * cap \in Nat /\ ((K - 1) + 1) * cap = (K - 1) * cap + cap
      BY <2>1, Grows
  <2>4. (i - 1) + 1 = i /\ (K - 1) + 1 = K
      BY <2>1, <1>5
  <2>5. n = 0 => (i - 1) * cap = 0
      BY <1>7, <2>1
  <2>6. n > 0 => (i - 1) * cap < n
      BY <2>2, <2>3, <2>4, <1>6
  <2>7. i > 1 => n > 0
      BY <1>7
  <2>8. i * cap = (i - 1) * cap + cap /\ (i - 1) * cap <= n
      BY <2>2, <2>4, <2>5, <2>6
  <2> QED
      BY <2>2, <2>6, <2>7, <2>8 DEF Cut, Lower
<1>10. Len(Pieces(base, n, cap)) = K
    BY <1>5, <1>8
<1>11. Cut(n, cap, K) = n
  <2>1. K * cap \in Nat /\ K * cap >= n
      BY <1>5
  <2> QED
      BY <2>1 DEF Cut, Lower
<1>12. \A i \in 1 .. K : <<base + (i - 1) * cap, base + Lower(n, i * cap)>> \in Int \X Int
  <2> SUFFICES ASSUME NEW i \in 1 .. K
               PROVE  <<base + (i - 1) * cap, base + Lower(n, i * cap)>> \in Int \X Int
      OBVIOUS
  <2> DEFINE x == (i - 1) * cap
             y == Lower(n, i * cap)
  <2>1. x \in Int
      BY <1>9
  <2>2. y \in Int
      BY <1>9 DEF Cut
  <2> HIDE DEF x, y
  <2>3. <<base + x, base + y>> \in Int \X Int
      BY <2>1, <2>2
  <2> QED
      BY <2>3 DEF x, y
<1>13. Pieces(base, n, cap) \in Seq(Int \X Int)
  <2> DEFINE F(i) == <<base + (i - 1) * cap, base + Lower(n, i * cap)>>
  <2>1. \A i \in 1 .. K : F(i) \in Int \X Int
      BY <1>12
  <2> HIDE DEF F
  <2>2. K \in Nat /\ [i \in 1 .. K |-> F(i)] \in Seq(Int \X Int)
      BY <1>5, <2>1
  <2> QED
      BY <1>8, <2>2 DEF F
<1>14. Cut(n, cap, 0) = 0
    BY DEF Cut, Lower
<1>15. ASSUME NEW i \in 1 .. K
       PROVE  PieceAt(base, n, cap, i)
  <2> DEFINE x == (i - 1) * cap
             y == i * cap
  <2>1. /\ Cut(n, cap, i - 1) = x /\ x \in 0 .. n /\ (n > 0 => x < n)
        /\ Cut(n, cap, i) = Lower(n, y) /\ Lower(n, y) \in x .. n
        /\ Pieces(base, n, cap)[i] = <<base + x, base + Lower(n, y)>>
    <3>1. n > 0 => x < n
      <4>1. i = 1 => i - 1 = 0 /\ x = 0
          OBVIOUS
      <4>2. i > 1 \/ i = 1
          BY <1>5
      <4> QED
          BY <1>9, <4>1, <4>2
    <3> QED
        BY <1>8, <1>9, <3>1 DEF Cut
  <2>2. y = x + cap
    <3>1. i - 1 \in Nat /\ i \in Nat /\ (i - 1) + 1 = i
        BY <1>5
    <3>2. ((i - 1) + 1) * cap = (i - 1) * cap + cap
        BY <3>1, Grows
    <3> QED
        BY <3>1, <3>2
  <2> HIDE DEF x, y
  <2>3. x \in Int /\ y \in Int /\ Lower(n, y) \in Int
      BY <2>1, <2>2
  <2>4. n > 0 => x < Lower(n, y)
      BY <2>1, <2>2, <2>3 DEF Lower
  <2> QED
      BY <2>1, <2>3, <2>4 DEF PieceAt
<1> QED
    BY <1>5, <1>10, <1>11, <1>13, <1>14, <1>15

-----------------------------------------------------------------------------
(* What is said, by kind.  Requests carry pieces of the object of the call.*)
Part == {p \in Nat \X Nat : p[1] <= p[2] /\ p[2] <= job.size}
Said == Messages(Piece)

Uploads == [kind : {"upload"}, index : {"x", "y"}, sub : 0 .. 255]
UploadSegments == [kind : {"upload segment"}, toggle : BOOLEAN]
Downloads == [kind : {"download"}, index : {"x"}, sub : {1}, size : {job.size}, piece : Part]
DownloadSegments == [kind : {"download segment"}, toggle : BOOLEAN, piece : Part, last : BOOLEAN]
RxPDOs == [kind : {"rxpdo"}, piece : Part]
OEs == [kind : {"oe"}, sub : 0 .. 255]
FoeAcks == [kind : {"foe ack"}, no : Nat]
FoeDatas == [kind : {"foe data"}, no : Nat, piece : Part]
SoeWrites == [kind : {"soe write"}, piece : Part, incomplete : BOOLEAN]
EoeWrites == [kind : {"eoe"}, frag : Nat, offset : Nat, piece : Part, last : BOOLEAN]

Uploadeds ==
  [kind : {"expedited", "normal"}, index : {"x", "y"}, sub : 0 .. 255, size : {job.size}, piece : Piece]
Downloadeds == [kind : {"downloaded"}, index : {"x"}, sub : {1}]
Segments == [kind : {"segment"}, last : BOOLEAN, piece : Piece]
Names == [kind : {"txpdo", "od", "ip"}, piece : Part]
OEeds == [kind : {"oe"}, sub : 0 .. 255, piece : Part]
ODlists == [kind : {"odlist"}, piece : Part, left : Nat]
SoeDatas == [kind : {"soe data"}, piece : Part, incomplete : BOOLEAN]
Eoes == [kind : {"eoe"}, frag : Nat, frame : Nat, offset : Nat, piece : Piece, last : BOOLEAN]

Word(k) == [kind |-> k]

DevSet ==
  [todo : Seq(Said), base : {0, 1000}, at : Nat, toggle : BOOLEAN, got : Bufs, want : Nat,
   no : Nat, stored : Bufs, busy : BOOLEAN]

LEMMA JobIs ==
  ASSUME job \in Jobs
  PROVE  /\ job.op \in Operations /\ job.size \in Nat /\ job.size <= 999 /\ job.room \in Nat
         /\ job.moody \in BOOLEAN
         /\ job.l \in Nat /\ job.l >= 16 /\ job.rl \in Nat /\ job.rl >= 16
<1>1. job.op \in Operations /\ job.moody \in BOOLEAN
  BY JobsAssumption
<1>2. job.size \in 0 .. 999
  BY JobsAssumption
<1>3. job.room \in Nat /\ job.l \in Nat /\ job.rl \in Nat
  BY JobsAssumption
<1>4. job.l >= 16 /\ job.rl >= 16
  BY JobsAssumption
<1>5. \A i \in 0 .. 999 : i \in Nat /\ i <= 999
  OBVIOUS
<1>6. job.size \in Nat /\ job.size <= 999
  BY <1>2, <1>5, SMTT(30)
<1> QED
  BY <1>1, <1>3, <1>4, <1>6

LEMMA JobHas ==
  ASSUME job \in Jobs
  PROVE  /\ job.early # Null =>
              /\ job.op \in {"SDOread", "SDOwrite"}
              /\ \/ job.early \in {Upload(1), Upload(2), UploadOther}
                 \/ job.op = "SDOread" /\ job.early = DownloadOther /\ job.size > 0
         /\ job.op \in {"RxPDO", "EOEsend"} => ~job.moody
         /\ job.op \in {"EOErecv", "EOEreadfragment"} => job.size > 0 /\ job.rl >= 42
         /\ job.op = "EOEgetIp" => job.size <= job.room
  BY JobsAssumption

LEMMA PieceIs ==
  ASSUME job \in Jobs, NEW b \in {0, 1, 2}, NEW x \in Nat, NEW y \in Nat, x <= y, y <= job.size
  PROVE  /\ <<x, y>> \in Part /\ <<x, y>> \in Piece
         /\ <<1000 * b + x, 1000 * b + y>> \in Piece
<1>1. job.size \in Nat /\ job.size <= 999
    BY JobIs
<1>2. (1000 * b + x) % 1000 = x /\ x % 1000 = x
    BY <1>1
<1>3. Span(<<1000 * b + x, 1000 * b + y>>) = y - x /\ Span(<<x, y>>) = y - x
    BY DEF Span
<1>4. 1000 * b + x \in Nat /\ 1000 * b + y \in Nat /\ 1000 * b + x <= 1000 * b + y
    BY <1>1
<1> QED
    BY <1>1, <1>2, <1>3, <1>4 DEF Part, Piece

LEMMA PieceType ==
  ASSUME job \in Jobs, NEW p \in Piece
  PROVE  p \in Nat \X Nat /\ p \in Int \X Int /\ Span(p) \in Nat /\ Span(p) <= job.size
         /\ p = <<p[1], p[2]>> /\ p[1] <= p[2]
<1>1. job.size \in Nat
    BY JobIs
<1>2. p[1] \in Nat /\ p[2] \in Nat /\ p[1] % 1000 >= 0
    BY DEF Piece
<1> QED
    BY <1>1, <1>2 DEF Piece, Span

LEMMA PartIsPiece ==
  ASSUME job \in Jobs
  PROVE  Part \subseteq Piece
<1> SUFFICES ASSUME NEW p \in Part PROVE p \in Piece
    OBVIOUS
<1>1. p[1] \in Nat /\ p[2] \in Nat /\ p[1] <= p[2] /\ p[2] <= job.size /\ p = <<p[1], p[2]>>
    BY DEF Part
<1>2. <<p[1], p[2]>> \in Piece
    BY <1>1, PieceIs
<1> QED
    BY <1>1, <1>2

LEMMA CoeSaid ==
  ASSUME job \in Jobs
  PROVE  /\ Uploads \subseteq Said /\ UploadSegments \subseteq Said /\ Downloads \subseteq Said
         /\ DownloadSegments \subseteq Said /\ RxPDOs \subseteq Said
         /\ Uploadeds \subseteq Said /\ Downloadeds \subseteq Said /\ Segments \subseteq Said
<1> DEFINE P == Piece
<1>1. Part \subseteq P /\ job.size \in Nat
    BY PartIsPiece, JobIs
<1> HIDE DEF P
<1>2. Uploads \subseteq ec_SDOt(P)
    BY ZenonT(60) DEF ec_SDOt, Uploads
<1>3. UploadSegments \subseteq ec_SDOt(P)
    BY ZenonT(60) DEF ec_SDOt, UploadSegments
<1>4. Downloads \subseteq ec_SDOt(P)
  <2> SUFFICES ASSUME NEW m \in Downloads PROVE m \in ec_SDOt(P)
      OBVIOUS
  <2>1. m \in [kind : {"download"}, index : {"x", "y"}, sub : 0 .. 255, size : Nat, piece : P]
      BY <1>1 DEF Downloads
  <2> QED
      BY <2>1, ZenonT(60) DEF ec_SDOt
<1>5. DownloadSegments \subseteq ec_SDOt(P)
    BY <1>1, ZenonT(60) DEF ec_SDOt, DownloadSegments
<1>6. RxPDOs \subseteq ec_SDOt(P)
    BY <1>1, ZenonT(60) DEF ec_SDOt, RxPDOs
<1>7. Uploadeds \subseteq ec_SDOt(P)
    BY <1>1, ZenonT(60) DEF ec_SDOt, Uploadeds, P
<1>8. Downloadeds \subseteq ec_SDOt(P)
  <2> SUFFICES ASSUME NEW m \in Downloadeds PROVE m \in ec_SDOt(P)
      OBVIOUS
  <2>1. m \in [kind : {"downloaded"}, index : {"x", "y"}, sub : 0 .. 255]
      BY DEF Downloadeds
  <2> QED
      BY <2>1, ZenonT(60) DEF ec_SDOt
<1>9. Segments \subseteq ec_SDOt(P)
    BY ZenonT(60) DEF ec_SDOt, Segments, P
<1>10. ec_SDOt(P) \subseteq Said
    BY DEF Said, Messages, P
<1> QED
    BY <1>2, <1>3, <1>4, <1>5, <1>6, <1>7, <1>8, <1>9, <1>10

LEMMA ServiceSaid ==
  ASSUME job \in Jobs
  PROVE  /\ OEs \subseteq Said /\ OEeds \subseteq Said /\ ODlists \subseteq Said /\ Names \subseteq Said
         /\ \A k \in {"tx", "segment downloaded", "abort", "od", "odlist", "foe read", "foe write",
                      "foe busy", "soe read", "soe written", "ip", "ip set"} : Word(k) \in Said
<1> DEFINE P == Piece
<1>1. Part \subseteq P
    BY PartIsPiece
<1> HIDE DEF P
<1>2. OEs \subseteq ec_SDOservicet(P)
    BY DEF ec_SDOservicet, OEs
<1>3. OEeds \subseteq ec_SDOservicet(P)
    BY <1>1 DEF ec_SDOservicet, OEeds
<1>4. ODlists \subseteq ec_SDOservicet(P)
    BY <1>1 DEF ec_SDOservicet, ODlists
<1>5. ASSUME NEW m \in Names PROVE m \in ec_SDOt(P) \cup ec_SDOservicet(P) \cup ec_EOEt(P)
  <2>1. m.piece \in P /\ m = [kind |-> m.kind, piece |-> m.piece] /\ m.kind \in {"txpdo", "od", "ip"}
      BY <1>1 DEF Names
  <2>2. m.kind = "txpdo" => m \in ec_SDOt(P)
      BY <2>1, ZenonT(60) DEF ec_SDOt
  <2>3. m.kind = "od" => m \in ec_SDOservicet(P)
      BY <2>1 DEF ec_SDOservicet
  <2>4. m.kind = "ip" => m \in ec_EOEt(P)
      BY <2>1 DEF ec_EOEt
  <2> QED
      BY <2>1, <2>2, <2>3, <2>4
<1>6. \A k \in {"tx", "segment downloaded", "abort"} : Word(k) \in ec_SDOt(P)
    BY ZenonT(60) DEF ec_SDOt, Word
<1>7. \A k \in {"od", "odlist"} : Word(k) \in ec_SDOservicet(P)
    BY DEF ec_SDOservicet, Word
<1>8. \A k \in {"foe read", "foe write", "foe busy"} : Word(k) \in ec_FOEt(P)
    BY DEF ec_FOEt, Word
<1>9. \A k \in {"soe read", "soe written"} : Word(k) \in ec_SoEt(P)
    BY DEF ec_SoEt, Word
<1>10. \A k \in {"ip", "ip set"} : Word(k) \in ec_EOEt(P)
    BY DEF ec_EOEt, Word
<1>11. /\ ec_SDOt(P) \subseteq Said /\ ec_SDOservicet(P) \subseteq Said /\ ec_FOEt(P) \subseteq Said
       /\ ec_SoEt(P) \subseteq Said /\ ec_EOEt(P) \subseteq Said
    BY DEF Said, Messages, P
<1> QED
    BY <1>2, <1>3, <1>4, <1>5, <1>6, <1>7, <1>8, <1>9, <1>10, <1>11

LEMMA OthersSaid ==
  ASSUME job \in Jobs
  PROVE  /\ FoeAcks \subseteq Said /\ FoeDatas \subseteq Said /\ SoeWrites \subseteq Said
         /\ SoeDatas \subseteq Said /\ EoeWrites \subseteq Said /\ Eoes \subseteq Said
<1> DEFINE P == Piece
<1>1. Part \subseteq P
    BY PartIsPiece
<1> HIDE DEF P
<1>2. FoeAcks \subseteq ec_FOEt(P)
    BY DEF ec_FOEt, FoeAcks
<1>3. FoeDatas \subseteq ec_FOEt(P)
    BY <1>1 DEF ec_FOEt, FoeDatas
<1>4. SoeWrites \subseteq ec_SoEt(P)
    BY <1>1 DEF ec_SoEt, SoeWrites
<1>5. SoeDatas \subseteq ec_SoEt(P)
    BY <1>1 DEF ec_SoEt, SoeDatas
<1>6. EoeWrites \subseteq ec_EOEt(P)
    BY <1>1 DEF ec_EOEt, EoeWrites
<1>7. Eoes \subseteq ec_EOEt(P)
    BY DEF ec_EOEt, Eoes, P
<1>8. ec_FOEt(P) \subseteq Said /\ ec_SoEt(P) \subseteq Said /\ ec_EOEt(P) \subseteq Said
    BY DEF Said, Messages, P
<1> QED
    BY <1>2, <1>3, <1>4, <1>5, <1>6, <1>7, <1>8

LEMMA NullUnsaid ==
  ASSUME job \in Jobs
  PROVE  Null \notin Said
<1> DEFINE W == Nat \X Nat
           P == Piece
<1>1. P \subseteq W
    BY DEF Piece
<1>2. Null \notin Messages(W)
    BY JobsAssumption
<1> HIDE DEF W, P
<1>3. ASSUME NEW w \in Messages(P) PROVE w \in Messages(W)
  <2>3. ASSUME w \in ec_SDOt(P) PROVE w \in ec_SDOt(W)
    <3> DEFINE A == [kind : {"upload"}, index : {"x", "y"}, sub : 0 .. 255]
               B(Q) == [kind : {"expedited", "normal"}, index : {"x", "y"}, sub : 0 .. 255, size : Nat, piece : Q]
               C(Q) == [kind : {"download"}, index : {"x", "y"}, sub : 0 .. 255, size : Nat, piece : Q]
               D == [kind : {"downloaded"}, index : {"x", "y"}, sub : 0 .. 255]
               E == [kind : {"upload segment"}, toggle : BOOLEAN]
               F == [kind : {"segment downloaded", "abort"}]
               G(Q) == [kind : {"segment"}, last : BOOLEAN, piece : Q]
               H(Q) == [kind : {"download segment"}, toggle : BOOLEAN, piece : Q, last : BOOLEAN]
               I(Q) == [kind : {"rxpdo", "txpdo"}, piece : Q]
               J == [kind : {"tx"}]
               U(Q) == A \cup B(Q) \cup C(Q) \cup D \cup E \cup F \cup G(Q) \cup H(Q) \cup I(Q) \cup J
    <3>1. ec_SDOt(P) = U(P) /\ ec_SDOt(W) = U(W)
        BY DEF ec_SDOt
    <3>2. B(P) \subseteq B(W)
        BY <1>1
    <3>3. C(P) \subseteq C(W)
        BY <1>1
    <3>4. G(P) \subseteq G(W)
        BY <1>1
    <3>5. H(P) \subseteq H(W)
        BY <1>1
    <3>6. I(P) \subseteq I(W)
        BY <1>1
    <3> HIDE DEF A, B, C, D, E, F, G, H, I, J
    <3>7. U(P) \subseteq U(W)
        BY <3>2, <3>3, <3>4, <3>5, <3>6
    <3> QED
        BY <2>3, <3>1, <3>7
  <2>4. w \in ec_SDOservicet(P) => w \in ec_SDOservicet(W)
      BY <1>1 DEF ec_SDOservicet
  <2>5. w \in ec_FOEt(P) => w \in ec_FOEt(W)
      BY <1>1 DEF ec_FOEt
  <2>6. w \in ec_SoEt(P) => w \in ec_SoEt(W)
      BY <1>1 DEF ec_SoEt
  <2>7. w \in ec_EOEt(P) => w \in ec_EOEt(W)
      BY <1>1 DEF ec_EOEt
  <2> QED
      BY <2>3, <2>4, <2>5, <2>6, <2>7 DEF Messages
<1>4. Null \notin Messages(P)
    BY <1>2, <1>3
<1> QED
    BY <1>4 DEF Said, P

-----------------------------------------------------------------------------
(* A call that has come to an end.                                         *)
Over == {"done", "dry", "crashed"}

USE DEF Over

(* What holds of every call.                                               *)
Base ==
  /\ job \in Jobs /\ pc \in {"purge", "send", "empty", "receive"} \cup Over
  /\ dev \in DevSet /\ buf \in Bufs /\ wkc \in Int
  /\ alive \in BOOLEAN /\ missed \in BOOLEAN /\ late \in BOOLEAN /\ unsent \in BOOLEAN

(* Requests are of A, answers of T.                                        *)
Talk(A, T) ==
  /\ req \in A /\ outbox \in A \cup {Null} /\ inbox \in T \cup {Null} /\ dev.todo \in Seq(T)

(* The rest of the device's state.                                         *)
SameDevice(d) ==
  /\ d.base = dev.base /\ d.at = dev.at /\ d.toggle = dev.toggle /\ d.got = dev.got
  /\ d.want = dev.want /\ d.no = dev.no /\ d.stored = dev.stored

LEMMA Steady ==
  ASSUME job' = job
  PROVE  /\ Part' = Part /\ Piece' = Piece /\ Said' = Said /\ DevSet' = DevSet
         /\ Jobs' = Jobs
<1>1. Part' = Part /\ Piece' = Piece /\ Jobs' = Jobs
    BY DEF Part, Piece
<1> QED
    BY <1>1 DEF Said, DevSet

LEMMA TodoIs ==
  ASSUME dev \in DevSet, NEW t \in Seq(Said)
  PROVE  /\ [dev EXCEPT !.todo = t] \in DevSet
         /\ [dev EXCEPT !.todo = t].todo = t /\ [dev EXCEPT !.todo = t].busy = dev.busy
         /\ SameDevice([dev EXCEPT !.todo = t])
BY SMTT(30) DEF DevSet, SameDevice

LEMMA ReplyIs ==
  ASSUME dev \in DevSet, NEW m \in Said
  PROVE  /\ Reply(m) \in DevSet /\ Reply(m).todo = <<m>> /\ Reply(m).busy = dev.busy
         /\ SameDevice(Reply(m))
<1>1. <<m>> \in Seq(Said)
    OBVIOUS
<1> QED
    BY <1>1, TodoIs DEF Reply

LEMMA BusyIs ==
  ASSUME dev \in DevSet, job \in Jobs
  PROVE  /\ FoeBusy \in DevSet /\ FoeBusy.todo = <<Word("foe busy")>> /\ FoeBusy.busy = TRUE
         /\ SameDevice(FoeBusy)
<1> DEFINE m == [kind |-> "foe busy"]
           d == Reply(m)
<1>1. m \in Said /\ m = Word("foe busy")
    BY ServiceSaid DEF Word
<1> HIDE DEF m
<1>2. d \in DevSet /\ d.todo = <<m>> /\ SameDevice(d)
    BY <1>1, ReplyIs
<1>3. FoeBusy = [d EXCEPT !.busy = TRUE]
    BY DEF FoeBusy, m
<1> HIDE DEF d
<1>4. ASSUME NEW t \in BOOLEAN
      PROVE  /\ [d EXCEPT !.busy = t] \in DevSet /\ [d EXCEPT !.busy = t].todo = d.todo
             /\ [d EXCEPT !.busy = t].busy = t /\ SameDevice([d EXCEPT !.busy = t])
    BY <1>2 DEF DevSet, SameDevice
<1>5. TRUE \in BOOLEAN
    OBVIOUS
<1> QED
    BY <1>1, <1>2, <1>3, <1>4, <1>5

-----------------------------------------------------------------------------
(* The steps of the link.                                                  *)
LEMMA PurgeStep ==
  ASSUME NEW A, NEW T, Base, Talk(A, T), Purge
  PROVE  /\ Base' /\ req' \in A /\ outbox' \in A \cup {Null} /\ inbox' \in T \cup {Null}
         /\ dev'.todo \in Seq(T)
         /\ pc = "purge" /\ pc' = "send" /\ inbox' \in {inbox, Null}
         /\ UNCHANGED <<job, req, loc, buf, wkc, outbox, dev, alive, missed, late, unsent>>
<1>1. job' = job
    BY DEF Purge
<1>2. DevSet' = DevSet /\ Jobs' = Jobs
    BY <1>1, Steady
<1> QED
    BY <1>1, <1>2 DEF Purge, Base, Talk

LEMMA PostStep ==
  ASSUME NEW A, NEW T, T \subseteq Said, Base, Talk(A, T), PostNext
  PROVE  /\ Base' /\ req' \in A /\ outbox' \in A \cup {Null} /\ inbox' \in T \cup {Null}
         /\ dev'.todo \in Seq(T)
         /\ alive /\ inbox = Null /\ dev.todo # <<>>
         /\ inbox' = Head(dev.todo) /\ inbox' \in T
         /\ dev'.todo = Tail(dev.todo) /\ Len(dev.todo) \in Nat \ {0} /\ Len(dev'.todo) = Len(dev.todo) - 1
         /\ SameDevice(dev') /\ dev'.busy = dev.busy
         /\ UNCHANGED <<job, callVars, outbox, alive, faults, missed, late, unsent>>
<1>1. job' = job /\ dev.todo # <<>> /\ dev' = [dev EXCEPT !.todo = Tail(dev.todo)]
    BY DEF PostNext
<1>2. DevSet' = DevSet /\ Jobs' = Jobs
    BY <1>1, Steady
<1>3. dev.todo \in Seq(T) /\ dev.todo \in Seq(Said) /\ dev \in DevSet
    BY DEF Talk, Base, DevSet
<1>4. /\ Tail(dev.todo) \in Seq(T) /\ Tail(dev.todo) \in Seq(Said) /\ Head(dev.todo) \in T
      /\ Len(dev.todo) \in Nat \ {0} /\ Len(Tail(dev.todo)) = Len(dev.todo) - 1
    BY <1>1, <1>3
<1>5. dev' \in DevSet /\ dev'.todo = Tail(dev.todo) /\ SameDevice(dev') /\ dev'.busy = dev.busy
    BY <1>1, <1>3, <1>4, TodoIs
<1>6. UNCHANGED <<job, callVars, outbox, alive, faults, missed, late, unsent>> /\ inbox' = Head(dev.todo)
      /\ alive /\ inbox = Null
    BY DEF PostNext
<1>7. UNCHANGED <<pc, req, buf, wkc>>
    BY <1>6 DEF callVars
<1>8. Base'
    BY <1>2, <1>5, <1>6, <1>7 DEF Base
<1>9. req' \in A /\ outbox' \in A \cup {Null}
    BY <1>6, <1>7 DEF Talk
<1> QED
    BY <1>1, <1>4, <1>5, <1>6, <1>8, <1>9

LEMMA VanishStep ==
  ASSUME NEW A, NEW T, Base, Talk(A, T), Vanish
  PROVE  /\ Base' /\ req' \in A /\ outbox' \in A \cup {Null} /\ inbox' \in T \cup {Null}
         /\ dev'.todo \in Seq(T)
         /\ alive' = FALSE /\ outbox' = Null /\ inbox' = Null
         /\ UNCHANGED <<job, callVars, dev, missed, late, unsent>>
<1>1. job' = job
    BY DEF Vanish
<1>2. DevSet' = DevSet /\ Jobs' = Jobs
    BY <1>1, Steady
<1> QED
    BY <1>1, <1>2 DEF Vanish, Base, Talk, callVars

LEMMA StutterStep ==
  ASSUME NEW A, NEW T, Base, Talk(A, T), UNCHANGED vars
  PROVE  /\ Base' /\ req' \in A /\ outbox' \in A \cup {Null} /\ inbox' \in T \cup {Null}
         /\ dev'.todo \in Seq(T)
         /\ UNCHANGED <<job, pc, req, loc, buf, wkc, outbox, inbox, dev, alive, missed, late, unsent>>
<1>1. UNCHANGED <<job, pc, req, loc, buf, wkc, outbox, inbox, dev, alive, missed, late, unsent>>
    BY DEF vars, callVars, linkVars
<1>2. DevSet' = DevSet /\ Jobs' = Jobs
    BY <1>1, Steady
<1> QED
    BY <1>1, <1>2 DEF Base, Talk

LEMMA SendStep ==
  ASSUME NEW A, NEW T, NEW op, NEW ok \in BOOLEAN, Base, Talk(A, T), Sending(op, ok)
  PROVE  /\ pc = "send" /\ outbox' \in A \cup {Null} /\ inbox' \in T \cup {Null} /\ dev'.todo \in Seq(T)
         /\ UNCHANGED <<job, inbox, dev, alive, missed>>
         /\ dev' \in DevSet' /\ late' \in BOOLEAN /\ unsent' \in BOOLEAN
         /\ ok => alive /\ outbox = Null /\ outbox' = req /\ UNCHANGED <<late, unsent>>
         /\ ~ok => \/ outbox' = outbox /\ unsent' = TRUE /\ late' = late
                   \/ alive /\ outbox = Null /\ outbox' = req /\ late' = TRUE /\ unsent' = unsent
<1>1. job' = job /\ pc = "send" /\ Send(req, ok)
    BY DEF Sending
<1>2. DevSet' = DevSet
    BY <1>1, Steady
<1>3. UNCHANGED <<inbox, dev, alive, missed>>
    BY <1>1 DEF Send
<1>4. ok => alive /\ outbox = Null /\ outbox' = req /\ UNCHANGED <<late, unsent>>
    BY <1>1 DEF Send
<1>5. ~ok => \/ outbox' = outbox /\ unsent' = TRUE /\ late' = late
             \/ alive /\ outbox = Null /\ outbox' = req /\ late' = TRUE /\ unsent' = unsent
    BY <1>1 DEF Send
<1> QED
    BY <1>1, <1>2, <1>3, <1>4, <1>5 DEF Base, Talk

LEMMA ReceiveStep ==
  ASSUME NEW A, NEW T, NEW op, NEW m \in Answers, Null \notin T, Base, Talk(A, T), Receiving(op, m)
  PROVE  /\ pc = "receive" /\ outbox' \in A \cup {Null} /\ inbox' \in T \cup {Null} /\ dev'.todo \in Seq(T)
         /\ UNCHANGED <<job, outbox, dev, alive, unsent>> /\ inbox' \in {inbox, Null}
         /\ dev' \in DevSet' /\ late' \in BOOLEAN /\ missed' \in BOOLEAN
         /\ m # Null => m \in T /\ inbox = m /\ inbox' = Null /\ UNCHANGED <<missed, late>>
         /\ m = Null => \/ Quiet /\ UNCHANGED <<inbox, missed, late>>
                        \/ late' = TRUE /\ UNCHANGED <<inbox, missed>>
                        \/ inbox # Null /\ inbox' = Null /\ missed' = TRUE /\ UNCHANGED late
<1>1. job' = job /\ pc = "receive" /\ Receive(m)
    BY DEF Receiving
<1>2. DevSet' = DevSet
    BY <1>1, Steady
<1>3. UNCHANGED <<outbox, dev, alive, unsent>>
    BY <1>1 DEF Receive
<1>4. m # Null => m \in T /\ inbox = m /\ inbox' = Null /\ UNCHANGED <<missed, late>>
    BY <1>1 DEF Receive, Talk
<1>5. m = Null => \/ Quiet /\ UNCHANGED <<inbox, missed, late>>
                  \/ late' = TRUE /\ UNCHANGED <<inbox, missed>>
                  \/ inbox # Null /\ inbox' = Null /\ missed' = TRUE /\ UNCHANGED late
    BY <1>1 DEF Receive
<1> QED
    BY <1>1, <1>2, <1>3, <1>4, <1>5 DEF Base, Talk

LEMMA ServeStep ==
  ASSUME NEW A, NEW T, Null \notin A, Base, Talk(A, T), Serve
  PROVE  /\ req' \in A /\ inbox' \in T \cup {Null} /\ outbox' = Null /\ outbox \in A /\ outbox # Null
         /\ alive /\ dev.todo = <<>> /\ DevSet' = DevSet
         /\ UNCHANGED <<job, pc, req, loc, buf, wkc, inbox, alive, missed, late, unsent>>
         /\ dev' \in DevSet => Base'
         /\ \/ dev' = Served(outbox)
            \/ job.moody /\ ~Partial(outbox) /\ dev' = Reply(Abort)
            \/ /\ job.moody /\ ~dev.busy /\ outbox.kind \in {"foe write", "foe data"}
               /\ dev' = FoeBusy
<1>1. job' = job /\ UNCHANGED <<callVars, inbox, alive, missed, late, unsent>>
      /\ alive /\ outbox # Null /\ dev.todo = <<>> /\ outbox' = Null
    BY DEF Serve
<1>2. DevSet' = DevSet /\ Jobs' = Jobs
    BY <1>1, Steady
<1>3. UNCHANGED <<pc, req, loc, buf, wkc>>
    BY <1>1 DEF callVars
<1>4. \/ dev' = Served(outbox)
      \/ job.moody /\ ~Partial(outbox) /\ dev' = Reply(Abort)
      \/ /\ job.moody /\ ~dev.busy /\ outbox.kind \in {"foe write", "foe data"}
         /\ dev' = FoeBusy
    BY DEF Serve, Moods
<1>5. dev' \in DevSet => Base'
    BY <1>1, <1>2, <1>3 DEF Base
<1> QED
    BY <1>1, <1>2, <1>3, <1>4, <1>5 DEF Talk

-----------------------------------------------------------------------------
(* Every function has its own steps.                                       *)
LinkStep == Purge \/ Serve \/ PostNext \/ Vanish \/ UNCHANGED vars

LEMMA OwnCoe ==
  /\ SDOread => job.op = "SDOread"
  /\ SDOwrite => job.op = "SDOwrite"
  /\ RxPDO => job.op = "RxPDO"
  /\ TxPDOreceive => job.op = "TxPDO"
  /\ ODreceive => job.op = "readOD"
  /\ (OEsend \/ OEreceive) => job.op = "readOE"
  /\ ODlistReceive => job.op = "readODlist"
  /\ \A op : SendOnce(op) => job.op = op
<1>1. SDOread => job.op = "SDOread"
    BY DEF SDOread, SDOreadSend, SDOreadFirst, SDOreadSegment, Sending, Receiving
<1>2. SDOwrite => job.op = "SDOwrite"
    BY DEF SDOwrite, SDOwriteSend, SDOwriteReceive, Sending, Receiving
<1>3. RxPDO => job.op = "RxPDO"
    BY DEF RxPDO, Sending
<1>4. TxPDOreceive => job.op = "TxPDO"
    BY DEF TxPDOreceive, Receiving
<1>5. ODreceive => job.op = "readOD"
    BY DEF ODreceive, Receiving
<1>6. OEsend => job.op = "readOE"
    BY DEF OEsend, Sending
<1>7. OEreceive => job.op = "readOE"
    BY DEF OEreceive, Receiving
<1>8. ODlistReceive => job.op = "readODlist"
    BY DEF ODlistReceive, Receiving
<1>9. \A op : SendOnce(op) => job.op = op
    BY DEF SendOnce, Sending
<1> QED
    BY <1>1, <1>2, <1>3, <1>4, <1>5, <1>6, <1>7, <1>8, <1>9

LEMMA OwnOthers ==
  /\ (FOEreadSend \/ FOEreadReceive) => job.op = "FOEread"
  /\ (FOEwriteSend \/ FOEwriteReceive) => job.op = "FOEwrite"
  /\ (SoEreadSend \/ SoEreadReceive) => job.op = "SoEread"
  /\ (SoEwriteSend \/ SoEwriteEmpty \/ SoEwriteReceive) => job.op = "SoEwrite"
  /\ EOEsend => job.op = "EOEsend"
  /\ EOErecv => job.op = "EOErecv"
  /\ EOEreadfragment => job.op = "EOEreadfragment"
  /\ SetIpReceive => job.op = "EOEsetIp"
  /\ GetIpReceive => job.op = "EOEgetIp"
<1>1. FOEreadSend \/ FOEreadReceive => job.op = "FOEread"
    BY DEF FOEreadSend, FOEreadReceive, Sending, Receiving
<1>2. FOEwriteSend \/ FOEwriteReceive => job.op = "FOEwrite"
    BY DEF FOEwriteSend, FOEwriteReceive, Sending, Receiving
<1>3. SoEreadSend \/ SoEreadReceive => job.op = "SoEread"
    BY DEF SoEreadSend, SoEreadReceive, Sending, Receiving
<1>4. SoEwriteSend \/ SoEwriteEmpty \/ SoEwriteReceive => job.op = "SoEwrite"
    BY DEF SoEwriteSend, SoEwriteEmpty, SoEwriteReceive, Sending, Receiving
<1>5. EOEsend => job.op = "EOEsend"
    BY DEF EOEsend, Sending
<1>6. EOErecv => job.op = "EOErecv"
    BY DEF EOErecv, Receiving
<1>7. EOEreadfragment => job.op = "EOEreadfragment"
    BY DEF EOEreadfragment, Receiving
<1>8. SetIpReceive => job.op = "EOEsetIp"
    BY DEF SetIpReceive, Receiving
<1>9. GetIpReceive => job.op = "EOEgetIp"
    BY DEF GetIpReceive, Receiving
<1> QED
    BY <1>1, <1>2, <1>3, <1>4, <1>5, <1>6, <1>7, <1>8, <1>9

(* The steps of function op.                                               *)
StepOf(op) ==
  \/ op = "SDOread" /\ SDOread
  \/ op = "SDOwrite" /\ SDOwrite
  \/ op = "RxPDO" /\ RxPDO
  \/ op = "TxPDO" /\ (SendOnce(op) \/ TxPDOreceive)
  \/ op = "readOD" /\ (SendOnce(op) \/ ODreceive)
  \/ op = "readOE" /\ (OEsend \/ OEreceive)
  \/ op = "readODlist" /\ (SendOnce(op) \/ ODlistReceive)
  \/ op = "FOEread" /\ (FOEreadSend \/ FOEreadReceive)
  \/ op = "FOEwrite" /\ (FOEwriteSend \/ FOEwriteReceive)
  \/ op = "SoEread" /\ (SoEreadSend \/ SoEreadReceive)
  \/ op = "SoEwrite" /\ (SoEwriteSend \/ SoEwriteEmpty \/ SoEwriteReceive)
  \/ op = "EOEsend" /\ EOEsend
  \/ op = "EOErecv" /\ EOErecv
  \/ op = "EOEreadfragment" /\ EOEreadfragment
  \/ op = "EOEsetIp" /\ (SendOnce(op) \/ SetIpReceive)
  \/ op = "EOEgetIp" /\ (SendOnce(op) \/ GetIpReceive)

(* The step that finds the pool empty.                                     *)
DryStep == CoeNoBuffer \/ OEnoBuffer \/ NullBuffer

LEMMA StepsOf ==
  ASSUME [Next]_vars
  PROVE  LinkStep \/ StepOf(job.op) \/ DryStep
<1>1. CASE CoeStep
  <2>1. CASE SDOread \/ SDOwrite
      BY <2>1, OwnCoe DEF StepOf
  <2>2. CASE RxPDO \/ SendOnce("TxPDO") \/ TxPDOreceive \/ SendOnce("readOD") \/ ODreceive
      BY <2>2, OwnCoe DEF StepOf
  <2>3. CASE OEsend \/ OEreceive \/ SendOnce("readODlist") \/ ODlistReceive
      BY <2>3, OwnCoe DEF StepOf
  <2> QED
      BY <1>1, <2>1, <2>2, <2>3 DEF CoeStep, CoeService, DryStep
<1>2. CASE FoeStep
    BY <1>2, OwnOthers DEF FoeStep, StepOf
<1>3. CASE SoeStep
    BY <1>3, OwnOthers, OwnCoe DEF SoeStep, StepOf
<1>4. CASE EoeStep
    BY <1>4, OwnOthers, OwnCoe DEF EoeStep, StepOf
<1> QED
    BY <1>1, <1>2, <1>3, <1>4 DEF Next, CallStep, SlaveStep, LinkStep, DryStep

LEMMA DryStepIs ==
  ASSUME NEW A, NEW T, Base, Talk(A, T), DryStep
  PROVE  /\ pc = "send" /\ unsent' = TRUE
         /\ UNCHANGED <<job, buf, wkc, outbox, inbox, dev, alive, missed, late>>
         /\ outbox' \in A \cup {Null} /\ inbox' \in T \cup {Null} /\ dev'.todo \in Seq(T)
         /\ job.op # "readOE" =>
              pc' \in {"dry", "crashed"} /\ req' = req /\ loc' = loc /\ req' \in A /\ Base'
         /\ job.op = "readOE" => OEnoBuffer
<1>1. /\ pc = "send" /\ unsent' = TRUE
      /\ UNCHANGED <<job, buf, outbox, inbox, dev, alive, missed, late>>
  BY DEF DryStep, CoeNoBuffer, OEnoBuffer, NullBuffer, NoBuffer, Keep
<1>2. wkc' = wkc
  BY DEF DryStep, CoeNoBuffer, OEnoBuffer, NullBuffer, Ends, OEnext, NoBuffer, None
<1>3. DevSet' = DevSet /\ Jobs' = Jobs
  BY <1>1, Steady
<1>4. ASSUME job.op # "readOE" PROVE pc' \in {"dry", "crashed"} /\ req' = req /\ loc' = loc
  BY <1>4 DEF DryStep, CoeNoBuffer, OEnoBuffer, NullBuffer, NoBuffer, Ends
<1>5. job.op = "readOE" => OEnoBuffer
  BY DEF DryStep, CoeNoBuffer, NullBuffer, NoBuffer, Checked, Unchecked
<1> QED
  BY <1>1, <1>2, <1>3, <1>4, <1>5 DEF Base, Talk

-----------------------------------------------------------------------------
(* Functions that ask once and take one answer.                            *)
Asked ==
  Word(CASE job.op = "TxPDO" -> "tx" [] job.op = "readOD" -> "od"
         [] job.op = "EOEsetIp" -> "ip set" [] job.op = "EOEgetIp" -> "ip")

Answer ==
  CASE job.op = "TxPDO" -> [kind |-> "txpdo", piece |-> <<0, job.size>>]
    [] job.op = "readOD" -> [kind |-> "od", piece |-> <<0, job.size>>]
    [] job.op = "EOEsetIp" -> Word("ip set")
    [] job.op = "EOEgetIp" -> [kind |-> "ip", piece |-> <<0, job.size>>]

Exchanges == {"TxPDO", "readOD", "EOEsetIp", "EOEgetIp"}

Got == Entire(IF job.op = "readOD" THEN Lower(job.size, job.room) ELSE job.size)

ExchangeInv ==
  /\ Base /\ Talk({Asked}, {Answer, Abort})
  /\ Length(buf) <= job.room
  /\ wkc > 0 /\ job.op # "EOEsetIp" => buf = Got

LEMMA ExchangeSaid ==
  ASSUME job \in Jobs, job.op \in Exchanges
  PROVE  /\ {Asked} \subseteq Said /\ {Answer, Abort} \subseteq Said
         /\ Null \notin {Asked} /\ Null \notin {Answer, Abort}
<1>1. <<0, job.size>> \in Part /\ job.size \in Nat
    BY JobIs, PieceIs
<1>2. Abort \in Said
    BY ServiceSaid DEF Abort, Word
<1>3. \A k \in {"txpdo", "od", "ip"} : [kind |-> k, piece |-> <<0, job.size>>] \in Said
    BY <1>1, ServiceSaid DEF Names
<1>4. \A k \in {"tx", "od", "ip", "ip set"} : Word(k) \in Said
    BY ServiceSaid
<1>5. Asked \in Said
    BY <1>4 DEF Asked, Exchanges
<1>6. Answer \in Said
    BY <1>3, <1>4 DEF Answer, Exchanges
<1> QED
    BY <1>2, <1>5, <1>6, NullUnsaid

LEMMA AskedKind ==
  ASSUME job.op \in Exchanges
  PROVE  Asked.kind \in {"tx", "od", "ip set", "ip"}
<1>1. CASE job.op = "TxPDO"
    BY <1>1 DEF Asked, Word
<1>2. CASE job.op = "readOD"
    BY <1>2 DEF Asked, Word
<1>3. CASE job.op = "EOEsetIp"
    BY <1>3 DEF Asked, Word
<1>4. CASE job.op = "EOEgetIp"
    BY <1>4 DEF Asked, Word
<1> QED
    BY <1>1, <1>2, <1>3, <1>4 DEF Exchanges

LEMMA ExchangeSteady ==
  ASSUME job' = job
  PROVE  Asked' = Asked /\ Answer' = Answer /\ Got' = Got
BY DEF Asked, Answer, Got

LEMMA ExchangeServed ==
  ASSUME job \in Jobs, job.op \in Exchanges
  PROVE  Served(Asked) = Reply(Answer)
<1>1. CASE job.op = "TxPDO"
  <2>1. Asked.kind = "tx" /\ Answer = [kind |-> "txpdo", piece |-> <<0, job.size>>]
      BY <1>1 DEF Asked, Answer, Word
  <2> QED
      BY <2>1 DEF Served
<1>2. CASE job.op = "readOD"
  <2>1. Asked.kind = "od" /\ Answer = [kind |-> "od", piece |-> <<0, job.size>>]
      BY <1>2 DEF Asked, Answer, Word
  <2> QED
      BY <2>1 DEF Served
<1>3. CASE job.op = "EOEsetIp"
  <2>1. Asked.kind = "ip set" /\ Answer = Asked
      BY <1>3 DEF Asked, Answer, Word
  <2> QED
      BY <2>1 DEF Served
<1>4. CASE job.op = "EOEgetIp"
  <2>1. Asked.kind = "ip" /\ Answer = [kind |-> "ip", piece |-> <<0, job.size>>]
      BY <1>4 DEF Asked, Answer, Word
  <2> QED
      BY <2>1 DEF Served
<1> QED
    BY <1>1, <1>2, <1>3, <1>4 DEF Exchanges

LEMMA EntireFits ==
  ASSUME NEW n \in Nat, NEW r \in Nat
  PROVE  /\ Entire(n) \in Bufs /\ Entire(Lower(n, r)) \in Bufs
         /\ Length(Entire(n)) = n /\ Length(Entire(Lower(n, r))) <= r
         /\ Lower(n, r) \in Nat
<1>1. Lower(n, r) \in Nat /\ Lower(n, r) <= r
    BY DEF Lower
<1> QED
    BY <1>1, EntireIs

LEMMA ExchangeLink ==
  ASSUME ExchangeInv, job.op \in Exchanges, LinkStep
  PROVE  ExchangeInv'
<1> DEFINE A == {Asked}
           T == {Answer, Abort}
<1>0. Base /\ Talk(A, T)
    BY DEF ExchangeInv
<1>1. A \subseteq Said /\ T \subseteq Said /\ Null \notin A /\ Null \notin T /\ job \in Jobs
    BY <1>0, ExchangeSaid DEF Base
<1>2. job' = job /\ buf' = buf /\ wkc' = wkc
    BY DEF LinkStep, Purge, Serve, PostNext, Vanish, vars, callVars
<1>3. A' = A /\ T' = T /\ Got' = Got
    BY <1>2, ExchangeSteady DEF Abort
<1>4. T \subseteq Said /\ Abort \in T /\ Answer \in T
    BY <1>1
<1> HIDE DEF A, T
<1>5. Base' /\ Talk(A, T)'
  <2>1. CASE Purge
      BY <1>0, <1>3, <2>1, PurgeStep DEF Talk
  <2>2. CASE PostNext
      BY <1>0, <1>1, <1>3, <2>2, PostStep DEF Talk
  <2>3. CASE Vanish
      BY <1>0, <1>3, <2>3, VanishStep DEF Talk
  <2>4. CASE UNCHANGED vars
      BY <1>0, <1>3, <2>4, StutterStep DEF Talk
  <2>5. CASE Serve
    <3>1. /\ req' \in A /\ inbox' \in T \cup {Null} /\ outbox' = Null /\ outbox \in A /\ DevSet' = DevSet
          /\ dev' \in DevSet => Base'
          /\ \/ dev' = Served(outbox) \/ dev' = Reply(Abort)
             \/ dev' = FoeBusy /\ outbox.kind \in {"foe write", "foe data"}
        BY <1>0, <1>1, <2>5, ServeStep
    <3>2. outbox = Asked /\ outbox.kind \notin {"foe write", "foe data"}
        BY <3>1, AskedKind DEF A
    <3>3. dev' = Reply(Answer) \/ dev' = Reply(Abort)
        BY <1>1, <3>1, <3>2, ExchangeServed
    <3>4. dev \in DevSet
        BY <1>0 DEF Base
    <3>5. dev' \in DevSet /\ (dev'.todo = <<Answer>> \/ dev'.todo = <<Abort>>)
        BY <1>1, <1>4, <3>3, <3>4, ReplyIs
    <3>6. <<Answer>> \in Seq(T) /\ <<Abort>> \in Seq(T)
        BY <1>4
    <3>7. dev'.todo \in Seq(T)
        BY <3>5, <3>6
    <3> QED
        BY <1>3, <3>1, <3>5, <3>7 DEF Talk
  <2> QED
      BY <2>1, <2>2, <2>3, <2>4, <2>5 DEF LinkStep
<1> QED
    BY <1>2, <1>3, <1>5 DEF ExchangeInv, A, T

LEMMA ExchangeTake ==
  ASSUME ExchangeInv, job.op \in Exchanges, StepOf(job.op)
  PROVE  ExchangeInv'
<1> DEFINE A == {Asked}
           T == {Answer, Abort}
<1>0. Base /\ Talk(A, T) /\ Length(buf) <= job.room /\ (wkc > 0 /\ job.op # "EOEsetIp" => buf = Got)
    BY DEF ExchangeInv
<1>1. A \subseteq Said /\ T \subseteq Said /\ Null \notin A /\ Null \notin T /\ job \in Jobs
    BY <1>0, ExchangeSaid DEF Base
<1>2. job.size \in Nat /\ job.room \in Nat
    BY <1>1, JobIs
<1>3. \/ SendOnce(job.op)
      \/ job.op = "TxPDO" /\ TxPDOreceive
      \/ job.op = "readOD" /\ ODreceive
      \/ job.op = "EOEsetIp" /\ SetIpReceive
      \/ job.op = "EOEgetIp" /\ GetIpReceive
    BY DEF StepOf, Exchanges
<1>4. CASE SendOnce(job.op)
  <2>1. PICK ok \in BOOLEAN : /\ Sending(job.op, ok) /\ buf' = buf
                              /\ IF ok THEN Wait /\ UNCHANGED loc ELSE Return(0)
      BY <1>4 DEF SendOnce, Keep
  <2>2. /\ outbox' \in A \cup {Null} /\ inbox' \in T \cup {Null} /\ dev'.todo \in Seq(T)
        /\ UNCHANGED <<job, inbox, dev, alive, missed>>
        /\ dev' \in DevSet' /\ late' \in BOOLEAN /\ unsent' \in BOOLEAN
      BY <1>0, <2>1, SendStep
  <2>3. req' = req /\ pc' \in {"receive", "done"} /\ wkc' \in {0, wkc}
      BY <2>1 DEF Wait, Return
  <2>4. A' = A /\ T' = T /\ Got' = Got /\ Jobs' = Jobs
      BY <2>2, ExchangeSteady DEF Abort
  <2>5. Base' /\ Talk(A, T)'
      BY <1>0, <2>1, <2>2, <2>3, <2>4 DEF Base, Talk
  <2> QED
      BY <1>0, <2>1, <2>2, <2>3, <2>4, <2>5 DEF ExchangeInv, A, T
<1>5. ASSUME NEW m \in Answers, Receiving(job.op, m), pc' = "done", req' = req,
             wkc' \in Int, buf' \in Bufs, Length(buf') <= job.room,
             wkc' > 0 /\ job.op # "EOEsetIp" => buf' = Got
      PROVE  ExchangeInv'
  <2>1. /\ outbox' \in A \cup {Null} /\ inbox' \in T \cup {Null} /\ dev'.todo \in Seq(T)
        /\ UNCHANGED <<job, outbox, dev, alive, unsent>>
        /\ dev' \in DevSet' /\ late' \in BOOLEAN /\ missed' \in BOOLEAN
      BY <1>0, <1>1, <1>5, ReceiveStep
  <2>2. A' = A /\ T' = T /\ Got' = Got /\ Jobs' = Jobs
      BY <2>1, ExchangeSteady DEF Abort
  <2>3. Base' /\ Talk(A, T)'
      BY <1>0, <1>5, <2>1, <2>2 DEF Base, Talk
  <2> QED
      BY <1>5, <2>1, <2>2, <2>3 DEF ExchangeInv, A, T
<1>6. ASSUME NEW m \in Answers, Receiving(job.op, m), m # Null
      PROVE  m = Answer \/ m.kind = "abort"
  <2>1. m \in T
    <3> HIDE DEF A, T
    <3> QED
      BY <1>0, <1>1, <1>6, ReceiveStep
  <2>2. Abort.kind = "abort"
      BY DEF Abort
  <2> QED
      BY <2>1, <2>2
<1>7. buf \in Bufs /\ wkc \in Int
    BY <1>0 DEF Base
<1>12. job' = job
    BY <1>3 DEF SendOnce, TxPDOreceive, ODreceive, SetIpReceive, GetIpReceive, Sending, Receiving
<1>8. CASE job.op = "TxPDO" /\ TxPDOreceive
  <2>1. PICK m \in Answers : /\ Receiving("TxPDO", m)
                             /\ IF m # Null /\ m.kind = "txpdo" /\ Fits(m)
                                THEN buf' = Glue(<<>>, m.piece) /\ Return(1) ELSE Keep /\ Return(0)
      BY <1>8 DEF TxPDOreceive
  <2>2. CASE m # Null /\ m.kind = "txpdo" /\ Fits(m)
    <3>1. m = [kind |-> "txpdo", piece |-> <<0, job.size>>]
        BY <1>6, <1>8, <2>1, <2>2 DEF Answer
    <3>2. buf' = Entire(job.size) /\ job.size <= job.room
        BY <1>2, <2>1, <2>2, <3>1 DEF Entire, Fits, Span
    <3>3. Entire(job.size) \in Bufs /\ Length(Entire(job.size)) = job.size /\ Got = Entire(job.size)
        BY <1>2, <1>8, EntireFits DEF Got
    <3>4. Receiving(job.op, m) /\ pc' = "done" /\ req' = req /\ wkc' = 1
        BY <1>8, <2>1, <2>2 DEF Return
    <3>5. Got' = Got
        BY <1>12, ExchangeSteady
    <3> QED
        BY <1>2, <1>5, <3>2, <3>3, <3>4, <3>5
  <2>3. CASE ~(m # Null /\ m.kind = "txpdo" /\ Fits(m))
      BY <1>0, <1>5, <1>7, <1>8, <1>12, <2>1, <2>3 DEF Return, Keep
  <2> QED
      BY <2>2, <2>3
<1>9. CASE job.op = "readOD" /\ ODreceive
  <2>1. PICK m \in Answers : /\ Receiving("readOD", m)
                             /\ IF m # Null /\ m.kind = "od" THEN Named(m) /\ Return(1) ELSE Keep /\ Return(0)
      BY <1>9 DEF ODreceive
  <2>2. CASE m # Null /\ m.kind = "od"
    <3>1. m = [kind |-> "od", piece |-> <<0, job.size>>]
        BY <1>6, <1>9, <2>1, <2>2 DEF Answer
    <3>2. buf' = Glue(<<>>, <<0, 0 + Lower(job.size - 0, job.room)>>)
        BY <2>1, <2>2, <3>1 DEF Named, Span
    <3> DEFINE n == Lower(job.size, job.room)
    <3>7. Got = Entire(n)
        BY <1>9 DEF Got
    <3>8. Entire(n) \in Bufs /\ Length(Entire(n)) <= job.room /\ n \in Nat
        BY <1>2, EntireFits
    <3>3. Got = Entire(n) /\ Entire(n) \in Bufs /\ Length(Entire(n)) <= job.room /\ job.size - 0 = job.size /\ 0 + n = n
        BY <1>2, <3>7, <3>8
    <3>4. buf' = Entire(n)
        BY <3>2, <3>3 DEF Entire
    <3>5. Receiving(job.op, m) /\ pc' = "done" /\ req' = req /\ wkc' = 1
        BY <1>9, <2>1, <2>2 DEF Return
    <3>6. Got' = Got
        BY <1>12, ExchangeSteady
    <3> HIDE DEF n
    <3> QED
        BY <1>5, <3>3, <3>4, <3>5, <3>6
  <2>3. CASE ~(m # Null /\ m.kind = "od")
      BY <1>0, <1>5, <1>7, <1>9, <1>12, <2>1, <2>3 DEF Return, Keep
  <2> QED
      BY <2>2, <2>3
<1>10. CASE job.op = "EOEsetIp" /\ SetIpReceive
  <2>1. PICK m \in Answers : /\ Receiving("EOEsetIp", m) /\ Keep
                             /\ Return(IF m # Null /\ m.kind = "ip set" THEN 1 ELSE 0)
      BY <1>10 DEF SetIpReceive
  <2>2. ExchangeInv'
    <3>1. Receiving(job.op, m) /\ pc' = "done" /\ req' = req /\ wkc' \in {0, 1} /\ buf' = buf
        BY <1>10, <2>1 DEF Return, Keep
    <3> QED
        BY <1>0, <1>5, <1>7, <1>10, <3>1
  <2> QED
      BY <2>2
<1>11. CASE job.op = "EOEgetIp" /\ GetIpReceive
  <2>1. PICK m \in Answers : /\ Receiving("EOEgetIp", m)
                             /\ IF m # Null /\ m.kind = "ip"
                                THEN /\ buf' = Glue(<<>>, m.piece)
                                     /\ Return(IF Span(m.piece) < job.room THEN -1 ELSE 1)
                                ELSE Keep /\ Return(0)
      BY <1>11 DEF GetIpReceive
  <2>2. CASE m # Null /\ m.kind = "ip"
    <3>1. m = [kind |-> "ip", piece |-> <<0, job.size>>]
        BY <1>6, <1>11, <2>1, <2>2 DEF Answer
    <3>2. buf' = Entire(job.size) /\ job.size <= job.room
        BY <1>1, <1>11, <2>1, <2>2, <3>1, JobHas DEF Entire
    <3>3. Entire(job.size) \in Bufs /\ Length(Entire(job.size)) = job.size /\ Got = Entire(job.size)
        BY <1>2, <1>11, EntireFits DEF Got
    <3>4. Receiving(job.op, m) /\ pc' = "done" /\ req' = req /\ wkc' \in {-1, 1}
        BY <1>11, <2>1, <2>2 DEF Return
    <3>5. Got' = Got
        BY <1>12, ExchangeSteady
    <3> QED
        BY <1>2, <1>5, <3>2, <3>3, <3>4, <3>5
  <2>3. CASE ~(m # Null /\ m.kind = "ip")
      BY <1>0, <1>5, <1>7, <1>11, <1>12, <2>1, <2>3 DEF Return, Keep
  <2> QED
      BY <2>2, <2>3
<1> QED
    BY <1>3, <1>4, <1>8, <1>9, <1>10, <1>11

-----------------------------------------------------------------------------
(* Functions that wait for the answer to each request before the next: at  *)
(* most one message is under way.                                          *)
Lock ==
  /\ ~alive => outbox = Null /\ inbox = Null
  /\ pc \in {"purge", "send"} => outbox = Null /\ inbox = Null /\ (alive => dev.todo = <<>>)
  /\ pc = "receive" =>
       /\ outbox # Null => inbox = Null /\ dev.todo = <<>>
       /\ inbox # Null => dev.todo = <<>>
       /\ alive => Len(dev.todo) <= 1

(* The answer under way.                                                   *)
Coming == IF inbox # Null THEN inbox ELSE IF dev.todo # <<>> THEN Head(dev.todo) ELSE Null

LEMMA LockLink ==
  ASSUME NEW A, NEW T, T \subseteq Said, Null \notin T, Base, Talk(A, T), Lock,
         Purge \/ PostNext \/ Vanish \/ UNCHANGED vars
  PROVE  /\ Lock' /\ ((pc = "purge" /\ pc' = "send") \/ pc' = pc)
         /\ UNCHANGED <<job, req, loc, buf, wkc, missed, late, unsent>>
         /\ pc = "receive" /\ alive' => /\ alive /\ Coming' = Coming /\ outbox' = outbox
                                        /\ SameDevice(dev') /\ dev'.busy = dev.busy
         /\ pc # "receive" /\ pc \notin Over => SameDevice(dev') /\ dev'.busy = dev.busy
         /\ SameDevice(dev') /\ dev'.busy = dev.busy
<1>0. UNCHANGED <<job, req, loc, buf, wkc, missed, late, unsent>>
    BY DEF Purge, PostNext, Vanish, vars, callVars, linkVars
<1>1. CASE Purge
  <2>1. pc = "purge" /\ pc' = "send" /\ inbox' \in {inbox, Null} /\ UNCHANGED <<outbox, dev, alive>>
      BY <1>1, PurgeStep
  <2>2. Lock'
      BY <2>1 DEF Lock
  <2> QED
      BY <1>0, <2>1, <2>2 DEF SameDevice
<1>2. CASE PostNext
  <2>1. /\ alive /\ inbox = Null /\ dev.todo # <<>> /\ inbox' = Head(dev.todo) /\ inbox' \in T
        /\ Len(dev.todo) \in Nat \ {0} /\ Len(dev'.todo) = Len(dev.todo) - 1 /\ dev'.todo \in Seq(T)
        /\ SameDevice(dev') /\ dev'.busy = dev.busy /\ UNCHANGED <<callVars, outbox, alive>>
      BY <1>2, PostStep
  <2>2. UNCHANGED <<pc, buf>>
      BY <2>1 DEF callVars
  <2>3. pc \notin {"purge", "send"}
      BY <2>1 DEF Lock
  <2>4. CASE pc = "receive"
    <3>5. Len(dev.todo) <= 1 /\ outbox = Null
        BY <2>1, <2>4 DEF Lock
    <3>6. Len(dev.todo) \in Nat \ {0} /\ Len(dev'.todo) = Len(dev.todo) - 1
        BY <2>1
    <3> DEFINE n == Len(dev.todo)
    <3>7. \A k \in Nat : k # 0 /\ k <= 1 => k - 1 = 0
        BY ONLY TRUE
    <3>8. n \in Nat /\ n # 0 /\ n <= 1 /\ Len(dev'.todo) = n - 1
        BY ONLY <3>5, <3>6
    <3> HIDE DEF n
    <3>9. n - 1 = 0
        BY ONLY <3>7, <3>8
    <3>1. Len(dev'.todo) = 0 /\ outbox = Null
        BY ONLY <3>5, <3>8, <3>9
    <3>2. dev'.todo = <<>>
        BY <2>1, <3>1
    <3>3. Coming' = Coming
        BY <2>1 DEF Coming
    <3>4. Lock'
        BY <2>1, <2>2, <2>4, <3>1, <3>2 DEF Lock
    <3> QED
        BY <1>0, <2>1, <2>2, <2>4, <3>3, <3>4
  <2>5. CASE pc # "receive"
    <3>1. Lock'
        BY <2>1, <2>2, <2>3, <2>5 DEF Lock
    <3> QED
        BY <1>0, <2>1, <2>2, <2>5, <3>1
  <2> QED
      BY <2>4, <2>5
<1>3. CASE Vanish
  <2>1. alive' = FALSE /\ outbox' = Null /\ inbox' = Null /\ UNCHANGED <<callVars, dev>>
      BY <1>3, VanishStep
  <2>2. UNCHANGED <<pc, buf>>
      BY <2>1 DEF callVars
  <2>3. Lock'
      BY <2>1, <2>2 DEF Lock
  <2> QED
      BY <1>0, <2>1, <2>2, <2>3 DEF SameDevice
<1>4. CASE UNCHANGED vars
  <2>1. UNCHANGED <<pc, outbox, inbox, dev, alive>>
      BY <1>4 DEF vars, callVars, linkVars
  <2>2. Lock' /\ Coming' = Coming
      BY <2>1 DEF Lock, Coming
  <2> QED
      BY <1>0, <2>1, <2>2 DEF SameDevice
<1> QED
    BY <1>1, <1>2, <1>3, <1>4

LEMMA LockServe ==
  ASSUME NEW A, NEW T, Null \notin A, Null \notin T, Base, Talk(A, T), Lock, Serve,
         dev'.todo = <<>> \/ \E m \in T : dev'.todo = <<m>>
  PROVE  /\ Lock' /\ pc \in {"receive", "empty"} \cup Over /\ outbox \in A
         /\ pc = "receive" => inbox = Null /\ inbox' = Null
         /\ dev'.todo = <<>> /\ pc = "receive" => Coming' = Null
         /\ \A m \in T : dev'.todo = <<m>> /\ pc = "receive" => Coming' = m
<1>1. /\ alive /\ outbox' = Null /\ outbox \in A /\ outbox # Null
      /\ UNCHANGED <<job, pc, req, loc, buf, wkc, inbox, alive, missed, late, unsent>>
    BY ServeStep
<1>2. Len(dev'.todo) <= 1
  <2>1. Len(<<>>) = 0 /\ \A m : Len(<<m>>) = 1
      OBVIOUS
  <2>2. dev'.todo = <<>> \/ \E m : dev'.todo = <<m>>
      OBVIOUS
  <2>3. Len(dev'.todo) = 0 \/ Len(dev'.todo) = 1
      BY ONLY <2>1, <2>2
  <2>4. \A k : k = 0 \/ k = 1 => k <= 1
      BY ONLY TRUE
  <2> DEFINE n == Len(dev'.todo)
  <2>5. n = 0 \/ n = 1
      BY ONLY <2>3
  <2> HIDE DEF n
  <2>6. n <= 1
      BY ONLY <2>4, <2>5
  <2> QED
      BY ONLY <2>6 DEF n
<1>3. pc = "receive" => inbox = Null
    BY <1>1 DEF Lock
<1>4. pc \in {"receive", "empty"} \cup Over
    BY <1>1 DEF Lock, Base
<1>5. Lock'
    BY <1>1, <1>2, <1>3, <1>4 DEF Lock
<1>6. \A m \in T : <<m>> # <<>> /\ Head(<<m>>) = m
    OBVIOUS
<1> QED
    BY <1>1, <1>3, <1>4, <1>5, <1>6 DEF Coming

LEMMA LockSend ==
  ASSUME NEW A, NEW T, NEW op, NEW ok \in BOOLEAN, Base, Talk(A, T), Lock, Sending(op, ok),
         pc' = "done" \/ (ok /\ pc' = "receive") \/ (~ok /\ ~late' /\ pc' \in {"purge", "send"})
  PROVE  Lock'
<1>1. /\ pc = "send" /\ UNCHANGED <<job, inbox, dev, alive, missed>>
      /\ ok => alive /\ outbox = Null /\ outbox' = req
      /\ ~ok => \/ outbox' = outbox /\ unsent' = TRUE /\ late' = late
                \/ alive /\ outbox = Null /\ outbox' = req /\ late' = TRUE /\ unsent' = unsent
    BY SendStep
<1>2. inbox = Null /\ outbox = Null /\ (alive => dev.todo = <<>>)
    BY <1>1 DEF Lock
<1>3. alive => Len(dev.todo) = 0
    BY <1>2
<1>4. ~alive => outbox' = Null \/ pc' = "done"
    BY <1>1, <1>2
<1>5. CASE pc' = "done"
    BY <1>1, <1>2, <1>5 DEF Lock
<1>6. CASE ok /\ pc' = "receive"
    BY <1>1, <1>2, <1>3, <1>6 DEF Lock
<1>7. CASE ~ok /\ ~late' /\ pc' \in {"purge", "send"}
    BY <1>1, <1>2, <1>7 DEF Lock
<1> QED
    BY <1>5, <1>6, <1>7

LEMMA LockReceive ==
  ASSUME NEW A, NEW T, NEW op, NEW m \in Answers, Null \notin T, Base, Talk(A, T), Lock, Receiving(op, m),
         pc' = "done" \/ ((m # Null \/ ~late') /\ pc' \in {"purge", "send"})
  PROVE  /\ Lock'
         /\ m # Null => m = Coming /\ alive /\ m \in T /\ outbox = Null
         /\ m = Null => \/ late' \/ missed' \/ ~alive
                        \/ (inbox = Null /\ outbox = Null /\ dev.todo = <<>>)
<1>1. /\ pc = "receive" /\ UNCHANGED <<job, outbox, dev, alive, unsent>> /\ inbox' \in {inbox, Null}
      /\ m # Null => m \in T /\ inbox = m /\ inbox' = Null /\ UNCHANGED <<missed, late>>
      /\ m = Null => \/ Quiet /\ UNCHANGED <<inbox, missed, late>>
                     \/ late' = TRUE /\ UNCHANGED <<inbox, missed>>
                     \/ inbox # Null /\ inbox' = Null /\ missed' = TRUE /\ UNCHANGED late
    BY ReceiveStep
<1>2. m # Null => m = Coming /\ alive /\ m \in T /\ outbox = Null /\ dev.todo = <<>>
    BY <1>1 DEF Lock, Coming
<1>3. m = Null => \/ late' \/ missed' \/ ~alive
                 \/ (inbox = Null /\ outbox = Null /\ dev.todo = <<>>)
    BY <1>1 DEF Quiet
<1>4. Lock'
  <2>1. CASE pc' = "done"
      BY <1>1, <2>1 DEF Lock
  <2>2. CASE m # Null /\ pc' \in {"purge", "send"}
      BY <1>1, <1>2, <2>2 DEF Lock
  <2>3. CASE m = Null /\ ~late' /\ pc' \in {"purge", "send"}
    <3>1. \/ Quiet /\ UNCHANGED <<inbox, missed, late>>
          \/ inbox # Null /\ inbox' = Null
        BY <1>1, <2>3
    <3>2. CASE Quiet /\ UNCHANGED <<inbox, missed, late>>
        BY <1>1, <2>3, <3>2 DEF Lock, Quiet
    <3>3. CASE inbox # Null /\ inbox' = Null
        BY <1>1, <2>3, <3>3 DEF Lock
    <3> QED
        BY <3>1, <3>2, <3>3
  <2> QED
      BY <2>1, <2>2, <2>3
<1> QED
    BY <1>2, <1>3, <1>4

-----------------------------------------------------------------------------
(* ecx_RxPDO.                                                              *)
RxAsked == RxPDOrequest(job.size, job.l)

RxInv ==
  /\ Base /\ Talk({RxAsked}, {}) /\ buf = <<>>
  /\ wkc > 0 /\ alive => outbox = RxAsked \/ dev.stored = Entire(Lower(job.size, job.l - 8))

LEMMA RxAskedIs ==
  ASSUME job \in Jobs
  PROVE  /\ RxAsked \in Said /\ RxAsked # Null /\ RxAsked.kind = "rxpdo"
         /\ Glue(<<>>, RxAsked.piece) = Entire(Lower(job.size, job.l - 8))
         /\ Entire(Lower(job.size, job.l - 8)) \in Bufs
<1> DEFINE n == Lower(job.size, job.l - 8)
<1>1. n \in Nat /\ n <= job.size
    BY JobIs DEF Lower
<1>2. RxAsked = [kind |-> "rxpdo", piece |-> <<0, n>>]
    BY DEF RxAsked, RxPDOrequest
<1> HIDE DEF n
<1>3. <<0, n>> \in Part
    BY <1>1, PieceIs
<1>4. RxAsked \in Said
    BY <1>2, <1>3, CoeSaid DEF RxPDOs
<1>5. Entire(n) \in Bufs
    BY <1>1, EntireIs
<1> QED
    BY <1>2, <1>4, <1>5, NullUnsaid DEF n, Entire

LEMMA RxStep ==
  ASSUME RxInv, job.op = "RxPDO", LinkStep \/ StepOf(job.op)
  PROVE  RxInv'
<1> DEFINE A == {RxAsked}
           T == {}
<1>0. Base /\ Talk(A, T) /\ buf = <<>> /\ job \in Jobs
      /\ (wkc > 0 /\ alive => outbox = RxAsked \/ dev.stored = Entire(Lower(job.size, job.l - 8)))
    BY DEF RxInv, Base
<1>1. A \subseteq Said /\ T \subseteq Said /\ Null \notin A /\ Null \notin T
    BY <1>0, RxAskedIs
<1>2. RxPDO \/ LinkStep
    BY DEF StepOf
<1>3. job' = job
    BY <1>2 DEF LinkStep, Purge, Serve, PostNext, Vanish, vars, RxPDO, Sending
<1>4. A' = A /\ T' = T
    BY <1>3 DEF RxAsked
<1> HIDE DEF A, T
<1>5. CASE Purge
    BY <1>0, <1>3, <1>4, <1>5, PurgeStep DEF Talk, RxInv, RxAsked, A, T
<1>6. CASE PostNext
    BY <1>0, <1>1, <1>6, PostStep DEF T
<1>7. CASE Vanish
  <2>1. Base' /\ Talk(A, T)' /\ alive' = FALSE /\ buf' = buf
      BY <1>0, <1>4, <1>7, VanishStep DEF Talk, callVars
  <2> QED
      BY <1>0, <2>1 DEF RxInv, A, T
<1>8. CASE UNCHANGED vars
  <2>1. Base' /\ Talk(A, T)' /\ UNCHANGED <<buf, wkc, alive, outbox, dev, job>>
      BY <1>0, <1>4, <1>8, StutterStep DEF Talk
  <2> QED
      BY <1>0, <2>1 DEF RxInv, RxAsked, A, T
<1>9. CASE Serve
  <2>1. /\ req' \in A /\ inbox' \in T \cup {Null} /\ outbox' = Null /\ outbox = RxAsked /\ DevSet' = DevSet
        /\ UNCHANGED <<job, buf, wkc>> /\ (dev' \in DevSet => Base')
        /\ dev.todo = <<>>
      BY <1>0, <1>1, <1>9, ServeStep DEF A
  <2>2. dev' = Served(RxAsked)
    <3>1. ~job.moody /\ RxAsked.kind = "rxpdo"
        BY <1>0, JobHas, RxAskedIs
    <3> QED
        BY <1>0, <1>1, <1>9, <2>1, <3>1, ServeStep
  <2> DEFINE b == Entire(Lower(job.size, job.l - 8))
  <2>3. dev' = [dev EXCEPT !.stored = b]
      BY <1>0, <2>2, RxAskedIs DEF Served
  <2>4. b \in Bufs
      BY <1>0, RxAskedIs
  <2> HIDE DEF b
  <2>5. dev' \in DevSet /\ dev'.todo = <<>> /\ dev'.stored = b
      BY <1>0, <2>1, <2>3, <2>4 DEF Base, DevSet
  <2>6. dev'.todo \in Seq(T)
      BY <2>5
  <2>7. Base' /\ Talk(A, T)' /\ b' = b
      BY <1>3, <1>4, <2>1, <2>5, <2>6 DEF Talk, b
  <2>8. dev'.stored = b'
      BY <2>5, <2>7
  <2> QED
      BY <1>0, <2>1, <2>7, <2>8 DEF RxInv, A, T, b
<1>10. CASE RxPDO
  <2>1. PICK ok \in BOOLEAN : Sending("RxPDO", ok) /\ Keep /\ Return(IF ok THEN 1 ELSE 0)
      BY <1>10 DEF RxPDO
  <2>2. /\ outbox' \in A \cup {Null} /\ inbox' \in T \cup {Null} /\ dev'.todo \in Seq(T)
        /\ UNCHANGED <<job, inbox, dev, alive, missed>>
        /\ dev' \in DevSet' /\ late' \in BOOLEAN /\ unsent' \in BOOLEAN
        /\ ok => outbox' = req
      BY <1>0, <2>1, SendStep
  <2>3. /\ pc' = "done" /\ req' = req /\ buf' = buf /\ wkc' \in {0, 1} /\ (wkc' > 0 => ok)
      BY <2>1 DEF Return, Keep
  <2>4. Jobs' = Jobs
      BY <1>3, Steady
  <2>5. Base' /\ Talk(A, T)'
      BY <1>0, <1>4, <2>2, <2>3, <2>4 DEF Base, Talk
  <2>6. wkc' > 0 => outbox' = RxAsked'
      BY <1>0, <1>4, <2>2, <2>3 DEF Talk, A
  <2> QED
      BY <1>0, <1>4, <2>3, <2>5, <2>6 DEF RxInv, A, T
<1> QED
    BY <1>2, <1>5, <1>6, <1>7, <1>8, <1>9, <1>10 DEF LinkStep

-----------------------------------------------------------------------------
(* ecx_readOE.                                                             *)
OEanswers == [kind : {"oe"}, sub : 0 .. 255, piece : {<<0, job.size>>}] \cup {Abort}

Excused == missed \/ unsent \/ job.moody \/ ~alive

OEInv ==
  /\ Base /\ Talk(OEs, OEanswers)
  /\ Length(buf) <= job.room
  /\ wkc > 0 => buf = Entire(Lower(job.size, job.room))
  /\ loc \in [sub : 0 .. MaxSub, entry : [0 .. MaxSub -> Int]] /\ req = OErequest(loc.sub)
  /\ ~late =>
       /\ Lock
       /\ pc = "receive" /\ alive =>
            \/ outbox = req /\ Coming = Null
            \/ outbox = Null /\ Coming # Null
               /\ ((Coming.kind = "oe" /\ Coming.sub = loc.sub) \/ (Coming = Abort /\ job.moody))
       /\ \A k \in 0 .. MaxSub :
            \/ loc.entry[k] = k
            \/ loc.entry[k] = None /\ (Excused \/ (pc \notin Over /\ k >= loc.sub))

LEMMA OESaid ==
  ASSUME job \in Jobs
  PROVE  /\ OEs \subseteq Said /\ OEanswers \subseteq Said /\ Null \notin OEs /\ Null \notin OEanswers
         /\ Abort \in OEanswers
<1>1. <<0, job.size>> \in Part
    BY JobIs, PieceIs
<1>2. Abort \in Said
    BY ServiceSaid DEF Abort, Word
<1>3. [kind : {"oe"}, sub : 0 .. 255, piece : {<<0, job.size>>}] \subseteq OEeds
    BY <1>1 DEF OEeds
<1> QED
    BY <1>2, <1>3, ServiceSaid, NullUnsaid DEF OEanswers

LEMMA OEServed ==
  ASSUME NEW r \in OEs
  PROVE  /\ Served(r) = Reply([kind |-> "oe", sub |-> r.sub, piece |-> <<0, job.size>>])
         /\ [kind |-> "oe", sub |-> r.sub, piece |-> <<0, job.size>>] \in OEanswers
         /\ r.kind = "oe" /\ r.sub \in 0 .. 255
<1>1. r.kind = "oe" /\ r.sub \in 0 .. 255
    BY DEF OEs
<1> QED
    BY <1>1 DEF Served, OEanswers

LEMMA OELink ==
  ASSUME OEInv, job.op = "readOE", LinkStep
  PROVE  OEInv'
<1> DEFINE A == OEs
           T == OEanswers
<1>0. Base /\ Talk(A, T) /\ job \in Jobs
    BY DEF OEInv, Base
<1>1. A \subseteq Said /\ T \subseteq Said /\ Null \notin A /\ Null \notin T /\ Abort \in T
    BY <1>0, OESaid
<1>2. UNCHANGED <<job, buf, wkc, loc, req, late, missed, unsent>>
    BY DEF LinkStep, Purge, Serve, PostNext, Vanish, vars, callVars, linkVars
<1>3. A' = A /\ T' = T /\ Abort' = Abort
    BY <1>2 DEF OEs, OEanswers, Abort
<1>4. CASE Purge \/ PostNext \/ Vanish \/ UNCHANGED vars
  <2>1. Base' /\ Talk(A, T)'
    <3> HIDE DEF A, T
    <3>1. CASE Purge
        BY <1>0, <1>3, <3>1, PurgeStep DEF Talk
    <3>2. CASE PostNext
        BY <1>0, <1>1, <1>3, <3>2, PostStep DEF Talk
    <3>3. CASE Vanish
        BY <1>0, <1>3, <3>3, VanishStep DEF Talk
    <3>4. CASE UNCHANGED vars
        BY <1>0, <1>3, <3>4, StutterStep DEF Talk
    <3> QED
        BY <1>4, <3>1, <3>2, <3>3, <3>4
  <2>2. ASSUME ~late PROVE
          /\ Lock' /\ ((pc = "purge" /\ pc' = "send") \/ pc' = pc)
          /\ pc = "receive" /\ alive' => alive /\ Coming' = Coming /\ outbox' = outbox
    <3>1. Lock
        BY <2>2 DEF OEInv
    <3> HIDE DEF A, T
    <3> QED
        BY <1>0, <1>1, <1>4, <3>1, LockLink
  <2>3. ~alive => ~alive'
      BY <1>4 DEF Purge, PostNext, Vanish, vars, linkVars
  <2> QED
      BY <1>2, <1>3, <2>1, <2>2, <2>3 DEF OEInv, Excused, OErequest
<1>5. CASE Serve
  <2>1. /\ req' \in A /\ inbox' \in T \cup {Null} /\ outbox' = Null /\ outbox \in A /\ DevSet' = DevSet
        /\ UNCHANGED <<pc, alive, inbox>> /\ (dev' \in DevSet => Base')
        /\ \/ dev' = Served(outbox) \/ (job.moody /\ dev' = Reply(Abort))
           \/ outbox.kind \in {"foe write", "foe data"}
    <3> HIDE DEF A, T
    <3> QED
      BY <1>0, <1>1, <1>5, ServeStep
  <2> DEFINE a == [kind |-> "oe", sub |-> outbox.sub, piece |-> <<0, job.size>>]
  <2>2. Served(outbox) = Reply(a) /\ a \in T /\ outbox.kind = "oe" /\ a.sub = outbox.sub
        /\ a.kind = "oe"
      BY <2>1, OEServed
  <2>3. dev' = Reply(a) \/ (job.moody /\ dev' = Reply(Abort))
      BY <2>1, <2>2
  <2> HIDE DEF a
  <2>4. PICK m \in {a, Abort} : dev' = Reply(m) /\ m \in T /\ ((m = Abort /\ job.moody) \/ m = a)
      BY <1>1, <2>2, <2>3
  <2>5. dev' \in DevSet /\ dev'.todo = <<m>>
      BY <1>0, <1>1, <2>4, ReplyIs DEF Base
  <2>6. dev'.todo \in Seq(T)
      BY <2>4, <2>5
  <2>7. Base' /\ Talk(A, T)'
    <3> HIDE DEF A, T
    <3> QED
      BY <1>3, <2>1, <2>5, <2>6 DEF Talk
  <2>8. ASSUME ~late PROVE /\ Lock' /\ pc \in {"receive", "empty"} \cup Over
                           /\ pc = "receive" => Coming' = m
    <3>1. Lock
        BY <2>8 DEF OEInv
    <3> HIDE DEF A, T
    <3> QED
        BY <1>0, <1>1, <1>5, <2>4, <2>5, <3>1, LockServe
  <2>9. ASSUME ~late, pc = "receive"
        PROVE  m # Null /\ ((m.kind = "oe" /\ m.sub = loc.sub) \/ (m = Abort /\ job.moody))
    <3>1. outbox = req /\ req = OErequest(loc.sub)
      <4>1. alive /\ outbox # Null
          BY <1>5 DEF Serve
      <4> QED
          BY <2>9, <4>1 DEF OEInv
    <3>2. outbox.sub = loc.sub
        BY <3>1 DEF OErequest
    <3>3. m # Null
      <4> HIDE DEF T
      <4> QED
        BY <1>1, <2>4
    <3>4. CASE m = a
        BY <2>2, <3>2, <3>3, <3>4
    <3>5. CASE m = Abort /\ job.moody
        BY <3>3, <3>5
    <3> QED
        BY <2>4, <3>4, <3>5
  <2>10. Excused' = Excused
      BY <1>2, <2>1 DEF Excused
  <2>11. ASSUME ~late' PROVE
       /\ Lock'
       /\ pc' = "receive" /\ alive' =>
            \/ outbox' = Null /\ Coming' # Null
               /\ ((Coming'.kind = "oe" /\ Coming'.sub = loc'.sub) \/ (Coming' = Abort /\ job'.moody))
       /\ \A k \in 0 .. MaxSub :
            \/ loc'.entry[k] = k
            \/ loc'.entry[k] = None /\ (Excused' \/ (pc' \notin Over /\ k >= loc'.sub))
    <3>1. ~late
        BY <1>2, <2>11
    <3>2. Lock'
        BY <2>8, <3>1
    <3>3. ASSUME pc' = "receive"
          PROVE  /\ outbox' = Null /\ Coming' # Null
                 /\ ((Coming'.kind = "oe" /\ Coming'.sub = loc'.sub) \/ (Coming' = Abort /\ job'.moody))
      <4>1. pc = "receive"
          BY <2>1, <3>3
      <4>2. Coming' = m
          BY <2>8, <3>1, <4>1
      <4> QED
          BY <1>2, <2>1, <2>9, <3>1, <4>1, <4>2
    <3>4. \A k \in 0 .. MaxSub :
            \/ loc.entry[k] = k
            \/ loc.entry[k] = None /\ (Excused \/ (pc \notin Over /\ k >= loc.sub))
        BY <3>1 DEF OEInv
    <3> QED
        BY <1>2, <2>1, <2>10, <3>2, <3>3, <3>4
  <2>12. /\ Length(buf) <= job.room
         /\ wkc > 0 => buf = Entire(Lower(job.size, job.room))
         /\ loc \in [sub : 0 .. MaxSub, entry : [0 .. MaxSub -> Int]] /\ req = OErequest(loc.sub)
      BY DEF OEInv
  <2>13. req' = OErequest(loc.sub)'
      BY <1>2, <2>12 DEF OErequest
  <2> QED
      BY <1>2, <1>3, <2>7, <2>11, <2>12, <2>13 DEF OEInv
<1> QED
    BY <1>4, <1>5 DEF LinkStep

LEMMA OENext ==
  ASSUME OEInv, job.op = "readOE", NEW w \in {0, 1}, NEW e \in [0 .. MaxSub -> Int], OEnext(w, e),
         job' = job, Base /\ Talk(OEs, OEanswers), buf' \in Bufs,
         outbox' \in OEs \cup {Null}, inbox' \in OEanswers \cup {Null}, dev'.todo \in Seq(OEanswers),
         dev' \in DevSet', alive' = alive, late' \in BOOLEAN, missed' \in BOOLEAN, unsent' \in BOOLEAN,
         late => late', missed => missed', unsent => unsent',
         Length(buf') <= job.room, w = 1 => buf' = Entire(Lower(job.size, job.room)),
         wkc > 0 => buf' = buf,
         ~late' => /\ Lock'
                   /\ \A k \in 0 .. MaxSub : k # loc.sub => e[k] = loc.entry[k]
                   /\ e[loc.sub] = loc.sub \/ (e[loc.sub] = None /\ Excused')
  PROVE  OEInv'
<1>1. /\ pc' \in {"purge", "done"} /\ wkc' \in {0, 1, wkc}
      /\ loc' \in [sub : 0 .. MaxSub, entry : [0 .. MaxSub -> Int]] /\ req' = OErequest(loc'.sub)
      /\ loc'.entry = e
      /\ pc' \notin Over => loc'.sub = loc.sub + 1 /\ loc.sub < MaxSub
      /\ pc' = "done" => ~(loc.sub < MaxSub)
      /\ wkc' > 0 => w = 1 \/ wkc' = wkc
      /\ loc.sub \in 0 .. MaxSub
  <2>1. loc \in [sub : 0 .. MaxSub, entry : [0 .. MaxSub -> Int]] /\ req = OErequest(loc.sub) /\ wkc \in Int
      BY DEF OEInv, Base
  <2>2. CASE loc.sub < MaxSub
      BY <2>1, <2>2 DEF OEnext, OErequest, MaxSub
  <2>3. CASE ~(loc.sub < MaxSub)
    <3>1. pc' = "done" /\ wkc' = w /\ loc' = [loc EXCEPT !.entry = e] /\ req' = req
        BY <2>3 DEF OEnext
    <3> QED
        BY <2>1, <2>3, <3>1
  <2> QED
      BY <2>2, <2>3
<1>2. OEs' = OEs /\ OEanswers' = OEanswers /\ Jobs' = Jobs
    BY DEF OEs, OEanswers, Abort
<1>3. req' \in OEs
    BY <1>1 DEF OErequest, OEs, MaxSub
<1>4. Base' /\ Talk(OEs, OEanswers)'
    BY <1>1, <1>2, <1>3 DEF Base, Talk
<1>5. wkc' > 0 => buf' = Entire(Lower(job.size, job.room))
    BY <1>1 DEF OEInv
<1>6. ASSUME ~late', NEW k \in 0 .. MaxSub
      PROVE  \/ loc'.entry[k] = k
             \/ loc'.entry[k] = None /\ (Excused' \/ (pc' \notin Over /\ k >= loc'.sub))
  <2>1. CASE k = loc.sub
      BY <1>1, <1>6, <2>1
  <2>2. CASE k # loc.sub
    <3>1. e[k] = loc.entry[k]
        BY <1>6, <2>2
    <3>2. loc.entry[k] = k \/ (loc.entry[k] = None /\ (Excused \/ (pc \notin Over /\ k >= loc.sub)))
        BY <1>6 DEF OEInv
    <3>3. Excused => Excused'
        BY DEF Excused
    <3>4. k >= loc.sub => loc.sub < MaxSub /\ k >= loc.sub + 1
        BY <1>1, <2>2 DEF MaxSub
    <3> QED
        BY <1>1, <3>1, <3>2, <3>3, <3>4
  <2> QED
      BY <2>1, <2>2
<1>7. OErequest(loc.sub)' = OErequest(loc'.sub)
    BY DEF OErequest
<1> QED
    BY <1>1, <1>4, <1>5, <1>6, <1>7 DEF OEInv

LEMMA OETake ==
  ASSUME OEInv, job.op = "readOE", OEsend \/ OEreceive
  PROVE  OEInv'
<1> DEFINE A == OEs
           T == OEanswers
<1>0. Base /\ Talk(A, T) /\ job \in Jobs /\ Length(buf) <= job.room
      /\ loc \in [sub : 0 .. MaxSub, entry : [0 .. MaxSub -> Int]] /\ req = OErequest(loc.sub)
      /\ (wkc > 0 => buf = Entire(Lower(job.size, job.room)))
    BY DEF OEInv, Base
<1>1. A \subseteq Said /\ T \subseteq Said /\ Null \notin A /\ Null \notin T /\ Abort \in T
      /\ job.size \in Nat /\ job.room \in Nat
    BY <1>0, OESaid, JobIs
<1>2. ~late => Lock
    BY DEF OEInv
<1>3. buf \in Bufs
    BY <1>0 DEF Base
<1> HIDE DEF A, T
<1>4. CASE OEsend
  <2>1. PICK ok \in BOOLEAN : /\ Sending("readOE", ok) /\ buf' = buf
                              /\ IF ok THEN Wait /\ UNCHANGED loc ELSE OEnext(0, loc.entry)
      BY <1>4 DEF OEsend, Keep
  <2>2. /\ outbox' \in A \cup {Null} /\ inbox' \in T \cup {Null} /\ dev'.todo \in Seq(T)
        /\ UNCHANGED <<job, inbox, dev, alive, missed>>
        /\ dev' \in DevSet' /\ late' \in BOOLEAN /\ unsent' \in BOOLEAN
        /\ ok => alive /\ outbox = Null /\ outbox' = req /\ UNCHANGED <<late, unsent>>
        /\ ~ok => \/ outbox' = outbox /\ unsent' = TRUE /\ late' = late
                  \/ alive /\ outbox = Null /\ outbox' = req /\ late' = TRUE /\ unsent' = unsent
        /\ pc = "send"
      BY <1>0, <2>1, SendStep
  <2>3. A' = A /\ T' = T /\ Jobs' = Jobs
      BY <2>2 DEF OEs, OEanswers, Abort, A, T
  <2>4. (late => late') /\ (unsent => unsent')
      BY <2>2
  <2>5. CASE ok
    <3>1. pc' = "receive" /\ UNCHANGED <<req, wkc, loc>>
        BY <2>1, <2>5 DEF Wait
    <3>2. ~late' => Lock'
        BY <1>0, <1>2, <2>1, <2>4, <2>5, <3>1, LockSend
    <3>3. Base' /\ Talk(A, T)'
        BY <1>0, <2>1, <2>2, <2>3, <3>1 DEF Base, Talk
    <3>4. ~late => inbox = Null /\ (alive => dev.todo = <<>>)
        BY <1>2, <2>2 DEF Lock
    <3>5. ~late /\ alive => outbox' = req' /\ Coming' = Null
        BY <2>2, <2>5, <3>1, <3>4 DEF Coming
    <3>6. Excused' = Excused /\ OErequest(loc.sub)' = OErequest(loc.sub)
        BY <2>2, <2>5, <3>1 DEF Excused, OErequest
    <3>7. ~late => \A k \in 0 .. MaxSub :
            \/ loc.entry[k] = k
            \/ loc.entry[k] = None /\ (Excused \/ (pc \notin Over /\ k >= loc.sub))
        BY DEF OEInv
    <3>8. ~late' => \A k \in 0 .. MaxSub :
            \/ loc'.entry[k] = k
            \/ loc'.entry[k] = None /\ (Excused' \/ (pc' \notin Over /\ k >= loc'.sub))
        BY <2>2, <2>5, <3>1, <3>6, <3>7
    <3> QED
        BY <1>0, <2>1, <2>2, <2>5, <3>1, <3>2, <3>3, <3>5, <3>6, <3>8 DEF OEInv, A, T
  <2>6. CASE ~ok
    <3>1. OEnext(0, loc.entry) /\ pc' \in {"purge", "done"}
        BY <2>1, <2>6 DEF OEnext
    <3>2. ~late' => Lock'
        BY <1>0, <1>2, <2>1, <2>4, <2>6, <3>1, LockSend
    <3>3. ~late' => unsent'
        BY <2>2, <2>6
    <3>4. ~late' => \/ loc.entry[loc.sub] = loc.sub
                    \/ loc.entry[loc.sub] = None /\ Excused'
      <4>1. loc.sub \in 0 .. MaxSub
          BY <1>0
      <4>2. ~late => loc.entry[loc.sub] = loc.sub \/ loc.entry[loc.sub] = None
          BY <4>1 DEF OEInv
      <4> QED
          BY <2>4, <3>3, <4>2 DEF Excused
    <3>5. loc.entry \in [0 .. MaxSub -> Int] /\ missed' \in BOOLEAN
        BY <1>0, <2>2 DEF Base
    <3> QED
        BY <1>0, <1>3, <2>1, <2>2, <2>4, <3>1, <3>2, <3>4, <3>5, OENext DEF A, T
  <2> QED
      BY <2>5, <2>6
<1>5. CASE OEreceive
  <2>1. PICK m \in Answers :
           /\ Receiving("readOE", m)
           /\ IF m # Null /\ m.kind = "oe"
              THEN Named(m) /\ OEnext(1, [loc.entry EXCEPT ![loc.sub] = m.sub])
              ELSE Keep /\ OEnext(0, loc.entry)
      BY <1>5 DEF OEreceive
  <2>2. /\ outbox' \in A \cup {Null} /\ inbox' \in T \cup {Null} /\ dev'.todo \in Seq(T)
        /\ UNCHANGED <<job, outbox, dev, alive, unsent>>
        /\ dev' \in DevSet' /\ late' \in BOOLEAN /\ missed' \in BOOLEAN /\ pc = "receive"
        /\ m # Null => m \in T /\ inbox = m /\ inbox' = Null /\ UNCHANGED <<missed, late>>
        /\ m = Null => \/ Quiet /\ UNCHANGED <<inbox, missed, late>>
                       \/ late' = TRUE /\ UNCHANGED <<inbox, missed>>
                       \/ inbox # Null /\ inbox' = Null /\ missed' = TRUE /\ UNCHANGED late
      BY <1>0, <1>1, <2>1, ReceiveStep
  <2>3. (late => late') /\ (missed => missed') /\ unsent' \in BOOLEAN /\ (unsent => unsent')
      BY <1>0, <2>2 DEF Base
  <2>4. pc' \in {"purge", "done"}
      BY <2>1 DEF OEnext
  <2>5. ~late' => /\ Lock'
                  /\ m # Null => m = Coming /\ alive /\ m \in T /\ outbox = Null
                  /\ m = Null => \/ late' \/ missed' \/ ~alive
                                 \/ (inbox = Null /\ outbox = Null /\ dev.todo = <<>>)
      BY <1>0, <1>1, <1>2, <2>1, <2>3, <2>4, LockReceive
  <2>6. CASE m # Null /\ m.kind = "oe"
    <3>1. m \in T /\ m # Abort /\ late' = late
        BY <2>2, <2>6 DEF Abort
    <3>2. m.piece = <<0, job.size>> /\ m.sub \in Int
        BY <3>1 DEF T, OEanswers
    <3> DEFINE n == Lower(job.size, job.room)
               e == [loc.entry EXCEPT ![loc.sub] = m.sub]
    <3>3. n \in Nat /\ Entire(n) \in Bufs /\ Length(Entire(n)) <= job.room
        BY <1>1, EntireFits
    <3>4. buf' = Glue(<<>>, <<0, 0 + Lower(job.size - 0, job.room)>>)
        BY <2>1, <2>6, <3>2 DEF Named, Span
    <3>5. buf' = Entire(n)
        BY <1>1, <3>3, <3>4 DEF Entire
    <3>6. e \in [0 .. MaxSub -> Int] /\ e[loc.sub] = m.sub
          /\ \A k \in 0 .. MaxSub : k # loc.sub => e[k] = loc.entry[k]
        BY <1>0, <3>2
    <3>7. ~late' => m.sub = loc.sub
      <4>1. ~late' => m = Coming /\ alive /\ outbox = Null
          BY <2>5, <2>6
      <4>2. ~late => req # Null
          BY <1>0, <1>1 DEF Talk
      <4> QED
          BY <1>0, <2>2, <3>1, <4>1, <4>2 DEF OEInv
    <3>8. OEnext(1, e)
        BY <2>1, <2>6
    <3>9. ~late' => /\ Lock'
                    /\ \A k \in 0 .. MaxSub : k # loc.sub => e[k] = loc.entry[k]
                    /\ e[loc.sub] = loc.sub
        BY <2>5, <3>6, <3>7
    <3>10. buf' \in Bufs /\ Length(buf') <= job.room /\ (wkc > 0 => buf' = buf)
        BY <1>0, <3>3, <3>5
    <3> HIDE DEF e
    <3> QED
        BY <1>0, <2>2, <2>3, <3>5, <3>6, <3>8, <3>9, <3>10, OENext DEF A, T
  <2>7. CASE ~(m # Null /\ m.kind = "oe")
    <3>1. OEnext(0, loc.entry) /\ buf' = buf
        BY <2>1, <2>7 DEF Keep
    <3>2. ~late' => Excused'
      <4>1. CASE m # Null
        <5>1. ~late /\ ~late' => Coming = m /\ alive /\ outbox = Null
            BY <2>5, <4>1
        <5>2. req # Null
            BY <1>0, <1>1 DEF Talk
        <5>3. ~late /\ ~late' => job.moody
            BY <2>2, <2>7, <4>1, <5>1, <5>2 DEF OEInv
        <5> QED
            BY <2>2, <2>3, <5>3 DEF Excused
      <4>2. CASE m = Null
        <5>1. ~late /\ alive => ~(inbox = Null /\ outbox = Null /\ dev.todo = <<>>)
          <6>1. ~late /\ alive => outbox # Null \/ Coming # Null
              BY <1>0, <1>1, <2>2 DEF OEInv, Talk
          <6> QED
              BY <6>1 DEF Coming
        <5> QED
            BY <2>2, <2>3, <2>5, <4>2, <5>1 DEF Excused
      <4> QED
          BY <4>1, <4>2
    <3>3. ~late' => loc.entry[loc.sub] = loc.sub \/ loc.entry[loc.sub] = None
      <4>1. loc.sub \in 0 .. MaxSub
          BY <1>0
      <4> QED
          BY <2>3, <4>1 DEF OEInv
    <3>4. loc.entry \in [0 .. MaxSub -> Int]
        BY <1>0
    <3> QED
        BY <1>0, <1>3, <2>2, <2>3, <2>5, <3>1, <3>2, <3>3, <3>4, OENext DEF A, T
  <2> QED
      BY <2>6, <2>7
<1> QED
    BY <1>4, <1>5

(* Without a buffer the entry stays empty.                                 *)
LEMMA OEDry ==
  ASSUME OEInv, job.op = "readOE", DryStep
  PROVE  OEInv'
<1> DEFINE A == OEs
           T == OEanswers
<1>0. Base /\ Talk(A, T) /\ Length(buf) <= job.room
      /\ loc \in [sub : 0 .. MaxSub, entry : [0 .. MaxSub -> Int]] /\ req = OErequest(loc.sub)
      /\ (wkc > 0 => buf = Entire(Lower(job.size, job.room)))
    BY DEF OEInv
<1>1. /\ pc = "send" /\ unsent' = TRUE
      /\ UNCHANGED <<job, buf, wkc, outbox, inbox, dev, alive, missed, late>>
      /\ outbox' \in A \cup {Null} /\ inbox' \in T \cup {Null} /\ dev'.todo \in Seq(T)
      /\ OEnoBuffer
    BY <1>0, DryStepIs
<1>2. DevSet' = DevSet /\ dev' \in DevSet'
    BY <1>0, <1>1, Steady DEF Base
<1>3. buf' \in Bufs /\ late' \in BOOLEAN /\ missed' \in BOOLEAN /\ unsent' \in BOOLEAN
    BY <1>0, <1>1 DEF Base
<1>4. ~late' => Lock'
  <2>1. ~late => Lock
      BY DEF OEInv
  <2>2. pc' \in {"purge", "dry"}
      BY <1>0, <1>1 DEF OEnoBuffer, OEnext, Ends
  <2> QED
      BY <1>1, <2>1, <2>2 DEF Lock
<1>5. CASE loc.sub < MaxSub
  <2>1. OEnext(0, loc.entry)
      BY <1>1, <1>5 DEF OEnoBuffer
  <2>2. ~late' => loc.entry[loc.sub] = loc.sub \/ (loc.entry[loc.sub] = None /\ Excused')
    <3>1. loc.sub \in 0 .. MaxSub
        BY <1>0
    <3>2. ~late => loc.entry[loc.sub] = loc.sub \/ loc.entry[loc.sub] = None
        BY <3>1 DEF OEInv
    <3> QED
        BY <1>1, <3>2 DEF Excused
  <2>3. loc.entry \in [0 .. MaxSub -> Int] /\ 0 \in {0, 1} /\ (0 = 1 => buf' = Entire(Lower(job.size, job.room)))
      BY <1>0
  <2> QED
      BY <1>0, <1>1, <1>2, <1>3, <1>4, <2>1, <2>2, <2>3, OENext
<1>6. CASE ~(loc.sub < MaxSub)
  <2>1. pc' = "dry" /\ req' = req /\ loc' = loc
      BY <1>1, <1>6 DEF OEnoBuffer, Ends
  <2>2. OEs' = OEs /\ OEanswers' = OEanswers /\ Jobs' = Jobs
      BY <1>1 DEF OEs, OEanswers, Abort
  <2>3. Base' /\ Talk(OEs, OEanswers)'
      BY <1>0, <1>1, <1>2, <1>3, <2>1, <2>2 DEF Base, Talk
  <2>4. OErequest(loc.sub)' = OErequest(loc.sub)
      BY <2>1 DEF OErequest
  <2>5. ASSUME ~late', NEW k \in 0 .. MaxSub
        PROVE  loc'.entry[k] = k \/ (loc'.entry[k] = None /\ Excused')
      BY <1>1, <2>1, <2>5 DEF OEInv, Excused
  <2> QED
      BY <1>0, <1>1, <1>4, <2>1, <2>3, <2>4, <2>5 DEF OEInv
<1> QED
    BY <1>5, <1>6

-----------------------------------------------------------------------------
(* ecx_readODlist and ecx_SoEread: the fragments come one after the other. *)
Streams == {"readODlist", "SoEread"}

StreamAsk == Word(IF job.op = "readODlist" THEN "odlist" ELSE "soe read")
Fragment == IF job.op = "readODlist" THEN ODlists ELSE SoeDatas
StreamTell == Fragment \cup {Abort}

(* k fragments follow m.                                                   *)
Follow(m, k) == IF job.op = "readODlist" THEN m.left = k ELSE m.incomplete = (k > 0)

Collected(p) ==
  IF job.op = "readODlist" THEN buf = Entire(Lower(p, job.room)) ELSE Length(buf) = Lower(p, job.room)

(* t is the rest of the message from p on.                                 *)
RestFrom(t, p) ==
  /\ t \in Seq(Fragment) /\ t # <<>> /\ t[1].piece[1] = p
  /\ \A i \in 1 .. Len(t) :
       /\ t[i].piece[2] = IF i = Len(t) THEN job.size ELSE t[i + 1].piece[1]
       /\ Follow(t[i], Len(t) - i)

After(m, t) ==
  /\ Follow(m, Len(t))
  /\ IF t = <<>> THEN m.piece[2] = job.size ELSE RestFrom(t, m.piece[2])

UnderWay(p) ==
  \/ outbox # Null /\ inbox = Null /\ dev.todo = <<>> /\ p = 0
  \/ outbox = Null /\ inbox = Abort
  \/ outbox = Null /\ inbox = Null /\ dev.todo = <<Abort>>
  \/ outbox = Null /\ inbox = Null /\ RestFrom(dev.todo, p)
  \/ outbox = Null /\ inbox \in Fragment /\ inbox.piece[1] = p /\ After(inbox, dev.todo)

StreamInv ==
  /\ Base /\ Talk({StreamAsk}, StreamTell)
  /\ Length(buf) <= job.room
  /\ wkc > 0 => Collected(job.size)
  /\ ~alive => outbox = Null /\ inbox = Null
  /\ pc \in {"purge", "send"} =>
       buf = <<>> /\ outbox = Null /\ inbox = Null /\ (alive => dev.todo = <<>>)
  /\ pc = "receive" => \E p \in 0 .. job.size : Collected(p) /\ (alive => UnderWay(p))

LEMMA StreamSaid ==
  ASSUME job \in Jobs, job.op \in Streams
  PROVE  /\ {StreamAsk} \subseteq Said /\ StreamTell \subseteq Said
         /\ Null \notin {StreamAsk} /\ Null \notin StreamTell
         /\ Abort \in StreamTell /\ Fragment \subseteq StreamTell /\ Abort \notin Fragment
         /\ \A m \in Fragment : /\ m.piece \in Part /\ m.kind # "abort"
                                /\ m.kind = IF job.op = "readODlist" THEN "odlist" ELSE "soe data"
<1>1. Abort \in Said /\ Abort.kind = "abort"
    BY ServiceSaid DEF Abort, Word
<1>2. Fragment \subseteq Said
    BY ServiceSaid, OthersSaid DEF Fragment
<1>3. StreamAsk \in Said
    BY ServiceSaid DEF StreamAsk
<1>4. \A m \in Fragment : /\ m.piece \in Part /\ m.kind # "abort"
                          /\ m.kind = IF job.op = "readODlist" THEN "odlist" ELSE "soe data"
  <2>1. CASE job.op = "readODlist"
      BY <2>1 DEF Fragment, ODlists
  <2>2. CASE job.op # "readODlist"
      BY <2>2 DEF Fragment, SoeDatas
  <2> QED
      BY <2>1, <2>2
<1> QED
    BY <1>1, <1>2, <1>3, <1>4, NullUnsaid DEF StreamTell

LEMMA StreamSteady ==
  ASSUME job' = job
  PROVE  /\ StreamAsk' = StreamAsk /\ Fragment' = Fragment /\ StreamTell' = StreamTell
         /\ \A t, p : RestFrom(t, p)' <=> RestFrom(t, p)
         /\ \A m, t : After(m, t)' <=> After(m, t)
<1>1. StreamAsk' = StreamAsk /\ Fragment' = Fragment
    BY DEF StreamAsk, Fragment, ODlists, SoeDatas, Part
<1>2. StreamTell' = StreamTell
    BY <1>1 DEF StreamTell, Abort
<1>3. \A m, k : Follow(m, k)' <=> Follow(m, k)
    BY DEF Follow
<1>4. \A t, p : RestFrom(t, p)' <=> RestFrom(t, p)
    BY <1>1, <1>3 DEF RestFrom
<1> QED
    BY <1>1, <1>2, <1>3, <1>4 DEF After

(* Posting and taking a fragment leave the rest.                           *)
LEMMA RestHead ==
  ASSUME job \in Jobs, NEW t, NEW p, RestFrom(t, p)
  PROVE  /\ Head(t) \in Fragment /\ Head(t).piece[1] = p /\ Tail(t) \in Seq(Fragment)
         /\ After(Head(t), Tail(t))
<1>1. t \in Seq(Fragment) /\ t # <<>> /\ Len(t) \in Nat \ {0} /\ Head(t) = t[1] /\ Head(t) \in Fragment
    BY DEF RestFrom
<1>2. /\ Tail(t) \in Seq(Fragment) /\ Len(Tail(t)) = Len(t) - 1
      /\ \A i \in 1 .. Len(t) - 1 : Tail(t)[i] = t[i + 1]
    BY <1>1
<1> DEFINE u == Tail(t)
           n == Len(t)
<1>3. /\ n \in Nat \ {0} /\ u \in Seq(Fragment) /\ Len(u) = n - 1
      /\ \A i \in 1 .. n - 1 : u[i] = t[i + 1]
    BY <1>1, <1>2
<1>4. \A i \in 1 .. n : /\ t[i].piece[2] = IF i = n THEN job.size ELSE t[i + 1].piece[1]
                        /\ Follow(t[i], n - i)
    BY DEF RestFrom
<1> HIDE DEF u, n
<1>5. Follow(t[1], n - 1)
    BY <1>3, <1>4, SMTT(30)
<1>6. CASE n = 1
  <2>1. u = <<>>
      BY <1>3, <1>6
  <2>2. t[1].piece[2] = job.size
      BY <1>4, <1>6
  <2> QED
      BY <1>1, <1>3, <1>5, <2>1, <2>2 DEF After, RestFrom, u, n
<1>7. CASE n # 1
  <2>1. u # <<>> /\ u[1] = t[2] /\ 1 + 1 = 2
      BY <1>3, <1>7
  <2>2. t[1].piece[2] = u[1].piece[1]
      BY <1>3, <1>4, <1>7, <2>1
  <2>3. ASSUME NEW i \in 1 .. Len(u)
        PROVE  /\ u[i].piece[2] = IF i = Len(u) THEN job.size ELSE u[i + 1].piece[1]
               /\ Follow(u[i], Len(u) - i)
    <3>1. i \in 1 .. n - 1 /\ i + 1 \in 1 .. n /\ u[i] = t[i + 1] /\ (n - 1) - i = n - (i + 1)
          /\ (i = n - 1 <=> i + 1 = n)
        BY <1>3, <2>3
    <3>2. i # n - 1 => i + 1 \in 1 .. n - 1 /\ u[i + 1] = t[i + 1 + 1]
        BY <1>3, <3>1, SMTT(30)
    <3> QED
        BY <1>3, <1>4, <3>1, <3>2
  <2>4. RestFrom(u, t[1].piece[2])
      BY <1>3, <2>1, <2>2, <2>3 DEF RestFrom
  <2> QED
      BY <1>1, <1>3, <1>5, <2>1, <2>4, ZenonT(30) DEF After, RestFrom, u, n
<1> QED
    BY <1>6, <1>7

LEMMA StreamServed ==
  ASSUME job \in Jobs, job.op \in Streams, dev \in DevSet
  PROVE  /\ Served(StreamAsk) \in DevSet
         /\ Served(StreamAsk).todo \in Seq(Fragment)
         /\ RestFrom(Served(StreamAsk).todo, 0)
<1> DEFINE cap == job.rl - (IF job.op = "readODlist" THEN 12 ELSE 10)
           ps == Pieces(0, job.size, cap)
           n == Len(ps)
           M(i) == IF job.op = "readODlist"
                   THEN [kind |-> "odlist", piece |-> ps[i], left |-> n - i]
                   ELSE [kind |-> "soe data", piece |-> ps[i], incomplete |-> n - i > 0]
           t == [i \in 1 .. n |-> M(i)]
<1>1. cap \in Nat /\ cap > 0 /\ job.size \in Nat
    BY JobIs
<1> HIDE DEF cap
<1> DEFINE C(i) == Cut(job.size, cap, i)
<1>18. /\ n \in Nat \ {0} /\ ps \in Seq(Int \X Int) /\ C(0) = 0 /\ C(n) = job.size
       /\ \A i \in 1 .. n : PieceAt(0, job.size, cap, i)
  <2>1. /\ n \in Nat \ {0} /\ ps \in Seq(Int \X Int) /\ C(0) = 0
        /\ \A i \in 1 .. n : PieceAt(0, job.size, cap, i)
      BY <1>1, PiecesAre
  <2>2. 0 \in Nat
      OBVIOUS
  <2>3. C(n) = job.size
      BY <1>1, <2>2, PiecesAre, Zenon
  <2> QED
      BY <2>1, <2>3
<1>2. /\ n \in Nat \ {0} /\ ps \in Seq(Int \X Int) /\ C(0) = 0 /\ C(n) = job.size
      /\ \A i \in 1 .. n : /\ C(i - 1) \in Nat /\ C(i) \in Nat /\ C(i - 1) <= C(i) /\ C(i) <= job.size
                            /\ ps[i] = <<C(i - 1), C(i)>>
  <2>1. ASSUME NEW i \in 1 .. n
        PROVE  /\ C(i - 1) \in Nat /\ C(i) \in Nat /\ C(i - 1) <= C(i) /\ C(i) <= job.size
               /\ ps[i] = <<C(i - 1), C(i)>>
    <3>1. PieceAt(0, job.size, cap, i)
        BY <1>18
    <3>2. /\ C(i - 1) \in Nat /\ C(i) \in Nat /\ C(i - 1) <= C(i) /\ C(i) <= job.size
          /\ ps[i] = <<0 + C(i - 1), 0 + C(i)>>
        BY <3>1 DEF PieceAt
    <3> HIDE DEF C
    <3> QED
        BY <3>2
  <2> HIDE DEF C, ps
  <2> QED
      BY <1>18, <2>1
<1>17. DOMAIN ps = 1 .. n
  <2> HIDE DEF ps
  <2> QED
      BY <1>2
<1>16. n \in Nat \ {0}
    BY <1>2
<1>3. \A i \in 1 .. n : /\ C(i) \in Nat /\ C(i - 1) \in Nat /\ C(i - 1) <= C(i) /\ C(i) <= job.size
                        /\ ps[i] = <<C(i - 1), C(i)>>
    BY <1>2
<1>4. C(n) = job.size /\ n \in 1 .. n
    BY <1>2
<1>5. C(0) = 0
    BY <1>2
<1>6. Served(StreamAsk) = [dev EXCEPT !.todo = t]
  <2>1. CASE job.op = "readODlist"
    <3>1. StreamAsk.kind = "odlist"
        BY <2>1 DEF StreamAsk, Word
    <3> QED
        BY <1>17, <2>1, <3>1 DEF Served, Series, cap
  <2>2. CASE job.op = "SoEread"
    <3>1. StreamAsk.kind = "soe read"
        BY <2>2 DEF StreamAsk, Word
    <3> QED
        BY <1>17, <2>2, <3>1 DEF Served, Series, cap
  <2> QED
      BY <2>1, <2>2 DEF Streams
<1> HIDE DEF n, ps, C
<1>7. \A i \in 1 .. n : ps[i] \in Part /\ ps[i][1] = C(i - 1) /\ ps[i][2] = C(i)
  <2> TAKE i \in 1 .. n
  <2>1. C(i - 1) \in Nat /\ C(i) \in Nat /\ C(i - 1) <= C(i) /\ C(i) <= job.size /\ ps[i] = <<C(i - 1), C(i)>>
      BY <1>3
  <2>2. 0 \in {0, 1, 2}
      OBVIOUS
  <2>3. <<C(i - 1), C(i)>> \in Part
      BY <2>1, <2>2, PieceIs
  <2> QED
      BY <2>1, <2>3
<1>8. ASSUME NEW i \in 1 .. n
      PROVE  M(i) \in Fragment /\ M(i).piece = ps[i] /\ Follow(M(i), n - i)
  <2>1. n - i \in Nat /\ (n - i > 0) \in BOOLEAN
      BY <1>16
  <2>2. CASE job.op = "readODlist"
      BY <1>7, <2>1, <2>2 DEF Fragment, ODlists, Follow
  <2>3. CASE job.op # "readODlist"
      BY <1>7, <2>1, <2>3 DEF Fragment, SoeDatas, Follow
  <2> QED
      BY <2>2, <2>3
<1>9. \A i \in 1 .. n : t[i] = M(i)
    OBVIOUS
<1>15. t \in [1 .. n -> Fragment]
    BY <1>8
<1>10. t \in Seq(Fragment) /\ Len(t) = n /\ t # <<>>
  <2> HIDE DEF t
  <2> QED
    BY <1>15, <1>16
<1> HIDE DEF M, t
<1>11. ASSUME NEW i \in 1 .. n
       PROVE  /\ t[i].piece[2] = IF i = n THEN job.size ELSE t[i + 1].piece[1]
              /\ Follow(t[i], n - i)
  <2>1. i # n => i + 1 \in 1 .. n /\ (i + 1) - 1 = i
      BY <1>2
  <2> QED
      BY <1>4, <1>7, <1>8, <1>9, <2>1
<1>12. t[1].piece[1] = 0
  <2>1. 1 \in 1 .. n /\ 1 - 1 = 0
      BY <1>2
  <2> QED
      BY <1>5, <1>7, <1>8, <1>9, <2>1
<1>13. RestFrom(t, 0)
    BY <1>10, <1>11, <1>12 DEF RestFrom
<1>14. t \in Seq(Said)
  <2>1. Fragment \subseteq Said
      BY StreamSaid
  <2> QED
      BY <1>10, <2>1
<1> QED
    BY <1>6, <1>10, <1>13, <1>14, TodoIs

-----------------------------------------------------------------------------
(* A call that has not come back has no result.                            *)
Unfinished == pc # "done" => wkc = 0

LEMMA UnfinishedStep ==
  ASSUME Unfinished, [Next]_vars
  PROVE  Unfinished'
<1>1. \A w : Return(w) => pc' = "done"
    BY DEF Return
<1>2. \A m : Say(m) => wkc' = wkc
    BY DEF Say
<1>3. \A ops, ok : Sending(ops, ok) => pc = "send"
    BY DEF Sending
<1>4. \A ops, m : Receiving(ops, m) => pc = "receive"
    BY DEF Receiving
<1>5. Wait => wkc' = wkc
    BY DEF Wait
<1>11. CASE DryStep
  <2>1. pc = "send" /\ wkc' = wkc
      BY <1>11 DEF DryStep, CoeNoBuffer, OEnoBuffer, NullBuffer, NoBuffer, Ends, OEnext
  <2> QED
      BY <2>1 DEF Unfinished
<1>6. CASE CoeStep
  <2>1. CASE SDOread
    <3>1. pc \in {"send", "receive"}
        BY <1>3, <1>4, <2>1 DEF SDOread, SDOreadSend, SDOreadFirst, SDOreadSegment
    <3>2. \A t : NextUpload(t) => wkc' = wkc
        BY <1>2 DEF NextUpload
    <3>3. wkc' = wkc \/ pc' = "done"
        BY <1>1, <1>5, <2>1, <3>2 DEF SDOread, SDOreadSend, SDOreadFirst, SDOreadSegment
    <3> QED
        BY <3>1, <3>3 DEF Unfinished
  <2>2. CASE SDOwrite
    <3>1. pc \in {"send", "receive"}
        BY <1>3, <1>4, <2>2 DEF SDOwrite, SDOwriteSend, SDOwriteReceive
    <3>2. \A w : GoOn(w) => wkc' = wkc \/ pc' = "done"
        BY <1>1, <1>2 DEF GoOn, NextDownload
    <3>3. wkc' = wkc \/ pc' = "done"
        BY <1>1, <1>5, <2>2, <3>2 DEF SDOwrite, SDOwriteSend, SDOwriteReceive
    <3> QED
        BY <3>1, <3>3 DEF Unfinished
  <2>3. CASE CoeService
    <3>1. pc \in {"send", "receive"}
        BY <1>3, <1>4, <2>3 DEF CoeService, RxPDO, SendOnce, TxPDOreceive, ODreceive, OEsend, OEreceive,
           ODlistReceive
    <3>2. \A w, e : OEnext(w, e) => wkc' = wkc \/ pc' = "done"
        BY DEF OEnext
    <3>3. wkc' = wkc \/ pc' = "done"
        BY <1>1, <1>5, <2>3, <3>2 DEF CoeService, RxPDO, SendOnce, TxPDOreceive, ODreceive, OEsend, OEreceive,
           ODlistReceive
    <3> QED
        BY <3>1, <3>3 DEF Unfinished
  <2> QED
      BY <1>6, <1>11, <2>1, <2>2, <2>3 DEF CoeStep, DryStep
<1>7. CASE FoeStep
  <2>1. pc \in {"send", "receive"}
      BY <1>3, <1>4, <1>7 DEF FoeStep, FOEreadSend, FOEreadReceive, FOEwriteSend, FOEwriteReceive
  <2>2. \A at, no : FOEdata(at, no) => wkc' = wkc \/ pc' = "done"
      BY <1>1, <1>2 DEF FOEdata
  <2>3. wkc' = wkc \/ pc' = "done"
      BY <1>1, <1>2, <1>5, <1>7, <2>2 DEF FoeStep, FOEreadSend, FOEreadReceive, FOEwriteSend, FOEwriteReceive
  <2> QED
      BY <2>1, <2>3 DEF Unfinished
<1>8. CASE SoeStep
  <2>1. pc \in {"send", "receive", "empty"}
      BY <1>3, <1>4, <1>8 DEF SoeStep, SoEreadSend, SoEreadReceive, SoEwriteSend, SoEwriteEmpty, SoEwriteReceive
  <2>2. \A w : SoEgoOn(w) => wkc' = wkc \/ pc' = "done"
      BY <1>1, <1>2 DEF SoEgoOn, SoEnext
  <2>4. SoEwriteReceive => wkc' = wkc \/ pc' = "done"
    <3> SUFFICES ASSUME SoEwriteReceive PROVE wkc' = wkc \/ pc' = "done"
        OBVIOUS
    <3>1. PICK m : CASE m = Null -> SoEgoOn(0) [] m # Null /\ m.kind = "soe written" -> Return(1)
                     [] OTHER -> Return(0)
        BY DEF SoEwriteReceive
    <3>2. SoEgoOn(0) \/ Return(1) \/ Return(0)
        BY <3>1
    <3> QED
        BY <1>1, <2>2, <3>2
  <2>3. wkc' = wkc \/ pc' = "done"
      BY <1>1, <1>2, <1>5, <1>8, <2>2, <2>4 DEF SoeStep, SoEreadSend, SoEreadReceive, SoEwriteSend,
         SoEwriteEmpty, Ends
  <2> QED
      BY <2>1, <2>3 DEF Unfinished
<1>9. CASE EoeStep
  <2>1. pc \in {"send", "receive"}
      BY <1>3, <1>4, <1>9 DEF EoeStep, EOEsend, EOErecv, EOEreadfragment, SendOnce, SetIpReceive, GetIpReceive
  <2>2. \A m, n, b : EOEtake(m, n, b) => wkc' = wkc \/ pc' = "done"
    <3> TAKE m, n, b
    <3>1. EOEtake(m, n, b) => IF m.last THEN pc' = "done" /\ wkc' = 1 /\ UNCHANGED req ELSE Wait
        BY DEF EOEtake
    <3> QED
        BY <1>5, <3>1
  <2>4. EOErecv => wkc' = wkc \/ pc' = "done"
      BY <1>1, <2>2 DEF EOErecv
  <2>5. EOEreadfragment => wkc' = wkc \/ pc' = "done"
      BY <1>1, <1>5, <2>2 DEF EOEreadfragment
  <2>3. wkc' = wkc \/ pc' = "done"
      BY <1>1, <1>2, <1>5, <1>9, <2>4, <2>5 DEF EoeStep, EOEsend, SendOnce, SetIpReceive, GetIpReceive
  <2> QED
      BY <2>1, <2>3 DEF Unfinished
<1>10. CASE Purge \/ SlaveStep \/ Vanish \/ UNCHANGED vars
  <2>1. wkc' = wkc /\ (pc' = pc \/ pc = "purge")
      BY <1>10 DEF Purge, SlaveStep, Serve, PostNext, Vanish, vars, callVars
  <2> QED
      BY <2>1 DEF Unfinished
<1> QED
    BY <1>6, <1>7, <1>8, <1>9, <1>10, <1>11 DEF Next, CallStep, DryStep

LEMMA StreamLink ==
  ASSUME StreamInv, job.op \in Streams, LinkStep
  PROVE  StreamInv'
<1> DEFINE A == {StreamAsk}
           T == StreamTell
<1>0. Base /\ Talk(A, T) /\ job \in Jobs /\ dev \in DevSet
    BY DEF StreamInv, Base
<1>1. A \subseteq Said /\ T \subseteq Said /\ Null \notin A /\ Null \notin T /\ Abort \in T
      /\ Fragment \subseteq T
    BY <1>0, StreamSaid
<1>2. UNCHANGED <<job, buf, wkc>> /\ pc' \in {pc, "send"}
    BY DEF LinkStep, Purge, Serve, PostNext, Vanish, vars, callVars
<1>3. A' = A /\ T' = T /\ Fragment' = Fragment /\ Abort' = Abort /\ StreamAsk' = StreamAsk
    BY <1>2, StreamSteady DEF Abort
<1>4. /\ \A t, p : RestFrom(t, p)' <=> RestFrom(t, p)
      /\ \A m, t : After(m, t)' <=> After(m, t)
      /\ \A p : Collected(p)' <=> Collected(p)
    BY <1>2, StreamSteady DEF Collected
<1>5. /\ Length(buf) <= job.room
      /\ wkc > 0 => Collected(job.size)
      /\ ~alive => outbox = Null /\ inbox = Null
      /\ pc \in {"purge", "send"} =>
           buf = <<>> /\ outbox = Null /\ inbox = Null /\ (alive => dev.todo = <<>>)
      /\ pc = "receive" => \E p \in 0 .. job.size : Collected(p) /\ (alive => UnderWay(p))
    BY DEF StreamInv
<1> SUFFICES ASSUME TRUE
             PROVE  /\ Base' /\ Talk(A, T)'
                    /\ ~alive' => outbox' = Null /\ inbox' = Null
                    /\ pc' \in {"purge", "send"} =>
                         buf = <<>> /\ outbox' = Null /\ inbox' = Null /\ (alive' => dev'.todo = <<>>)
                    /\ pc' = "receive" => \E p \in 0 .. job.size : Collected(p) /\ (alive' => UnderWay(p)')
  <2>1. wkc' > 0 => Collected(job.size)'
      BY <1>2, <1>4, <1>5
  <2>2. (\E p \in 0 .. job.size : Collected(p) /\ (alive' => UnderWay(p)'))
          => (\E p \in 0 .. job'.size : Collected(p)' /\ (alive' => UnderWay(p)'))
      BY <1>2, <1>4
  <2> QED
      BY <1>2, <1>5, <2>1, <2>2 DEF StreamInv
<1> HIDE DEF A, T
<1>6. CASE Purge
  <2>1. Base' /\ Talk(A, T)'
      BY <1>0, <1>3, <1>6, PurgeStep DEF Talk
  <2>2. pc = "purge" /\ pc' = "send" /\ inbox' \in {inbox, Null} /\ UNCHANGED <<outbox, dev, alive>>
      BY <1>0, <1>6, PurgeStep
  <2> QED
      BY <1>5, <2>1, <2>2
<1>7. CASE PostNext
  <2>1. /\ Base' /\ req' \in A /\ outbox' \in A \cup {Null} /\ inbox' \in T \cup {Null}
        /\ dev'.todo \in Seq(T)
        /\ alive /\ inbox = Null /\ dev.todo # <<>> /\ inbox' = Head(dev.todo) /\ inbox' \in T
        /\ dev'.todo = Tail(dev.todo)
        /\ UNCHANGED <<callVars, outbox, alive>>
      BY <1>0, <1>1, <1>7, PostStep
  <2>2. Base' /\ Talk(A, T)' /\ pc' = pc
      BY <1>3, <2>1 DEF Talk, callVars
  <2>3. pc \notin {"purge", "send"}
      BY <1>5, <2>1
  <2>4. ASSUME pc = "receive", NEW p \in 0 .. job.size, UnderWay(p) PROVE UnderWay(p)'
    <3>1. outbox' = Null /\ outbox = Null /\ inbox' # Null
        BY <1>1, <2>1, <2>4 DEF UnderWay
    <3>2. CASE dev.todo = <<Abort>>
      <4>1. inbox' = Abort
          BY <2>1, <3>2
      <4> QED
          BY <1>3, <3>1, <4>1 DEF UnderWay
    <3>3. CASE RestFrom(dev.todo, p)
      <4>1. inbox' \in Fragment /\ inbox'.piece[1] = p /\ After(inbox', dev'.todo)
          BY <1>0, <2>1, <3>3, RestHead
      <4>2. After(inbox, dev.todo)' = After(inbox', dev'.todo)
          BY <1>2 DEF After, RestFrom, Follow, Fragment, ODlists, SoeDatas, Part
      <4> QED
          BY <1>3, <3>1, <4>1, <4>2 DEF UnderWay
    <3> QED
        BY <1>1, <2>1, <2>4, <3>2, <3>3 DEF UnderWay
  <2> QED
      BY <1>5, <2>1, <2>2, <2>3, <2>4
<1>8. CASE Vanish
  <2>1. Base' /\ Talk(A, T)' /\ alive' = FALSE /\ outbox' = Null /\ inbox' = Null /\ pc' = pc
      BY <1>0, <1>3, <1>8, VanishStep DEF Talk, callVars
  <2> QED
      BY <1>5, <2>1
<1>9. CASE UNCHANGED vars
  <2>1. Base' /\ Talk(A, T)' /\ UNCHANGED <<pc, alive, outbox, inbox, dev>>
      BY <1>0, <1>3, <1>9, StutterStep DEF Talk
  <2>2. \A p : UnderWay(p)' <=> UnderWay(p)
      BY <1>2, <1>3, <2>1 DEF UnderWay, After, RestFrom, Follow, Fragment, ODlists, SoeDatas, Part
  <2> QED
      BY <1>5, <2>1, <2>2
<1>10. CASE Serve
  <2>1. /\ req' \in A /\ inbox' \in T \cup {Null} /\ outbox' = Null /\ outbox \in A /\ outbox # Null
        /\ alive /\ dev.todo = <<>> /\ DevSet' = DevSet
        /\ UNCHANGED <<pc, inbox, alive>>
        /\ (dev' \in DevSet => Base')
        /\ \/ dev' = Served(outbox) \/ dev' = Reply(Abort)
           \/ dev' = FoeBusy /\ outbox.kind \in {"foe write", "foe data"}
      BY <1>0, <1>1, <1>10, ServeStep
  <2>2. outbox = StreamAsk /\ outbox.kind \notin {"foe write", "foe data"}
    <3>1. outbox = StreamAsk
        BY <2>1 DEF A
    <3>2. StreamAsk.kind = IF job.op = "readODlist" THEN "odlist" ELSE "soe read"
        BY DEF StreamAsk, Word
    <3> QED
        BY <3>1, <3>2
  <2>3. dev' = Served(StreamAsk) \/ dev' = Reply(Abort)
      BY <2>1, <2>2
  <2>4. dev' \in DevSet /\ (dev'.todo = <<Abort>> \/ (dev'.todo \in Seq(Fragment) /\ RestFrom(dev'.todo, 0)))
      BY <1>0, <1>1, <2>3, StreamServed, ReplyIs
  <2>5. dev'.todo \in Seq(T)
    <3>1. <<Abort>> \in Seq(T)
        BY <1>1
    <3>2. Seq(Fragment) \subseteq Seq(T)
        BY <1>1
    <3> QED
        BY <2>4, <3>1, <3>2
  <2>6. Base' /\ Talk(A, T)'
      BY <1>3, <2>1, <2>4, <2>5 DEF Talk
  <2>7. ASSUME pc = "receive", NEW p \in 0 .. job.size, UnderWay(p) PROVE UnderWay(p)'
    <3>1. inbox' = Null /\ p = 0
        BY <2>1, <2>7 DEF UnderWay
    <3>2. RestFrom(dev.todo, p)' = RestFrom(dev'.todo, p)
        BY <1>2 DEF RestFrom, Follow, Fragment, ODlists, SoeDatas, Part
    <3> QED
        BY <1>3, <2>1, <2>4, <3>1, <3>2 DEF UnderWay
  <2>8. pc \notin {"purge", "send"}
      BY <1>5, <2>1
  <2> QED
      BY <1>5, <2>1, <2>6, <2>7, <2>8
<1> QED
    BY <1>6, <1>7, <1>8, <1>9, <1>10 DEF LinkStep

(* What a fragment adds.                                                   *)
LEMMA FragmentAdds ==
  ASSUME job \in Jobs, job.op \in Streams, buf \in Bufs, NEW p \in 0 .. job.size, Collected(p),
         NEW m \in Fragment, m.piece[1] = p,
         buf' = Glue(buf, IF job.op = "readODlist"
                          THEN <<m.piece[1], m.piece[1] + Lower(Span(m.piece), job.room - Length(buf))>>
                          ELSE SoECopied(<<m.piece[1], m.piece[1] + Lower(Span(m.piece), job.room - Length(buf))>>)),
         job' = job
  PROVE  /\ m.piece[2] \in p .. job.size /\ Collected(m.piece[2])' /\ buf' \in Bufs
         /\ Length(buf') <= job.room
<1>1. job.size \in Nat /\ job.room \in Nat /\ p \in Nat
    BY JobIs
<1> DEFINE e == m.piece[2]
           c == Lower(p, job.room)
           n == Lower(e - p, job.room - c)
<1>2. e \in Nat /\ p <= e /\ e <= job.size /\ Span(m.piece) = e - p
  <2>1. m.piece \in Part
      BY StreamSaid
  <2> QED
      BY <2>1 DEF Part, Span
<1>3. Length(buf) = c /\ c \in Nat
    BY <1>1, EntireFits, EntireIs DEF Collected
<1>4. n \in Nat /\ c + n = Lower(e, job.room) /\ Lower(e, job.room) <= job.room /\ Lower(e, job.room) \in Nat
    BY <1>1, <1>2 DEF Lower
<1>5. p <= job.room => c = p
    BY <1>1 DEF Lower
<1>6. p > job.room => n = 0 /\ c = job.room
    BY <1>1, <1>2 DEF Lower
<1>7. Lower(Span(m.piece), job.room - Length(buf)) = n
    BY <1>2, <1>3
<1> HIDE DEF e, c, n
<1>8. CASE job.op = "readODlist"
  <2>1. buf = Entire(c)
      BY <1>8 DEF Collected, c
  <2>2. buf' = Glue(Entire(c), <<p, p + n>>)
      BY <1>7, <1>8, <2>1
  <2>3. Glue(Entire(c), <<p, p + n>>) = Entire(c + n)
    <3>1. CASE p <= job.room
        BY <1>1, <1>3, <1>4, <1>5, <3>1, GlueEntire
    <3>2. CASE p > job.room
      <4>1. Span(<<p, p + n>>) = 0 /\ c + n = c
          BY <1>1, <1>3, <1>6, <3>2 DEF Span
      <4> QED
          BY <4>1 DEF Glue
    <3> QED
        BY <1>1, <3>1, <3>2
  <2>4. buf' = Entire(Lower(e, job.room))
      BY <1>4, <2>2, <2>3
  <2>5. Length(buf') = Lower(e, job.room) /\ buf' \in Bufs
      BY <1>4, <2>4, EntireIs
  <2> QED
      BY <1>1, <1>2, <1>4, <1>8, <2>4, <2>5 DEF Collected, e
<1>9. CASE job.op # "readODlist"
  <2> DEFINE q == <<-1 - n, -1>>
  <2>1. SoECopied(<<p, p + n>>) = q
      BY <1>1, <1>4 DEF SoECopied, Span
  <2>2. buf' = Glue(buf, q)
      BY <1>7, <1>9, <2>1
  <2>3. q \in Int \X Int /\ Span(q) = n
      BY <1>4 DEF Span
  <2> HIDE DEF q
  <2>4. buf' \in Bufs /\ Length(buf') = Length(buf) + n
      BY <2>2, <2>3, GlueLength
  <2>5. Length(buf') = Lower(e, job.room)
      BY <1>3, <1>4, <2>4
  <2> QED
      BY <1>1, <1>2, <1>4, <1>9, <2>4, <2>5 DEF Collected, e
<1> QED
    BY <1>8, <1>9

LEMMA StreamTake ==
  ASSUME StreamInv, Unfinished, job.op \in Streams, StepOf(job.op)
  PROVE  StreamInv'
<1> DEFINE A == {StreamAsk}
           T == StreamTell
<1>0. Base /\ Talk(A, T) /\ job \in Jobs /\ dev \in DevSet /\ buf \in Bufs
    BY DEF StreamInv, Base
<1>1. A \subseteq Said /\ T \subseteq Said /\ Null \notin A /\ Null \notin T /\ Abort \in T
      /\ Fragment \subseteq T
    BY <1>0, StreamSaid
<1>2. job' = job
    BY DEF StepOf, Streams, SendOnce, ODlistReceive, SoEreadSend, SoEreadReceive, Sending, Receiving
<1>3. A' = A /\ T' = T /\ Fragment' = Fragment /\ Abort' = Abort /\ Jobs' = Jobs
    BY <1>2, StreamSteady DEF Abort
<1>4. job.size \in Nat /\ job.room \in Nat
    BY <1>0, JobIs
<1>5. /\ Length(buf) <= job.room
      /\ wkc > 0 => Collected(job.size)
      /\ ~alive => outbox = Null /\ inbox = Null
      /\ pc \in {"purge", "send"} =>
           buf = <<>> /\ outbox = Null /\ inbox = Null /\ (alive => dev.todo = <<>>)
      /\ pc = "receive" => \E p \in 0 .. job.size : Collected(p) /\ (alive => UnderWay(p))
    BY DEF StreamInv
<1> HIDE DEF A, T
<1>6. CASE SendOnce(job.op) \/ (job.op = "SoEread" /\ SoEreadSend)
  <2>1. PICK ok \in BOOLEAN : /\ Sending(job.op, ok) /\ buf' = buf
                              /\ IF ok THEN Wait ELSE Return(0)
      BY <1>6 DEF SendOnce, SoEreadSend, Keep
  <2>2. /\ outbox' \in A \cup {Null} /\ inbox' \in T \cup {Null} /\ dev'.todo \in Seq(T)
        /\ UNCHANGED <<job, inbox, dev, alive, missed>>
        /\ dev' \in DevSet' /\ late' \in BOOLEAN /\ unsent' \in BOOLEAN
        /\ ok => alive /\ outbox = Null /\ outbox' = req
        /\ ~ok => outbox' = outbox \/ (alive /\ outbox' = req)
        /\ pc = "send"
      BY <1>0, <2>1, SendStep
  <2>3. req' = req /\ pc' \in {"receive", "done"} /\ wkc' \in {0, wkc} /\ (pc' = "receive" => ok)
      BY <2>1 DEF Wait, Return
  <2>4. Base' /\ Talk(A, T)'
      BY <1>0, <1>3, <2>1, <2>2, <2>3 DEF Base, Talk
  <2>5. wkc' > 0 => Collected(job.size)'
      BY <1>2, <1>5, <2>1, <2>3 DEF Collected
  <2>6. Collected(0)'
    <3>1. buf' = <<>> /\ Lower(0, job.room) = 0
        BY <1>4, <1>5, <2>1, <2>2 DEF Lower
    <3>2. Entire(0) = <<>>
        BY EntireIs
    <3> QED
        BY <1>2, <3>1, <3>2, LengthEmpty DEF Collected
  <2>7. pc' = "receive" => UnderWay(0)'
    <3>1. req # Null
        BY <1>0, <1>1 DEF Talk
    <3> QED
        BY <1>5, <2>2, <2>3, <3>1 DEF UnderWay
  <2>8. ~alive' => outbox' = Null /\ inbox' = Null
      BY <1>5, <2>2
  <2>9. 0 \in 0 .. job'.size
      BY <1>2, <1>4
  <2> QED
      BY <1>2, <1>5, <2>1, <2>3, <2>4, <2>5, <2>6, <2>7, <2>8, <2>9 DEF StreamInv, A, T
<1>7. ASSUME NEW m \in Answers, Receiving(job.op, m), req' = req, wkc' \in Int, buf' \in Bufs,
             Length(buf') <= job.room, wkc' > 0 => Collected(job.size)',
             pc' \in {"done", "crashed"} \/ (pc' = "receive" /\ m # Null
                              /\ \E p \in 0 .. job.size : Collected(p)' /\ UnderWay(p)')
      PROVE  StreamInv'
  <2>1. /\ outbox' \in A \cup {Null} /\ inbox' \in T \cup {Null} /\ dev'.todo \in Seq(T)
        /\ UNCHANGED <<job, outbox, dev, alive, unsent>> /\ inbox' \in {inbox, Null}
        /\ dev' \in DevSet' /\ late' \in BOOLEAN /\ missed' \in BOOLEAN
      BY <1>0, <1>1, <1>7, ReceiveStep
  <2>2. Base' /\ Talk(A, T)'
      BY <1>0, <1>3, <1>7, <2>1 DEF Base, Talk
  <2>3. ~alive' => outbox' = Null /\ inbox' = Null
      BY <1>5, <2>1
  <2> QED
      BY <1>2, <1>7, <2>2, <2>3 DEF StreamInv, A, T
<1>8. ASSUME NEW m \in Answers, Receiving(job.op, m), m # Null, m # Abort,
             buf' = Glue(buf, IF job.op = "readODlist"
                          THEN <<m.piece[1], m.piece[1] + Lower(Span(m.piece), job.room - Length(buf))>>
                          ELSE SoECopied(<<m.piece[1], m.piece[1] + Lower(Span(m.piece), job.room - Length(buf))>>)),
             IF (IF job.op = "readODlist" THEN m.left > 0 ELSE m.incomplete)
             THEN Wait /\ UNCHANGED loc ELSE Return(1)
      PROVE  StreamInv'
  <2>1. /\ m \in T /\ inbox = m /\ inbox' = Null /\ pc = "receive"
        /\ UNCHANGED <<outbox, dev, alive>>
      BY <1>0, <1>1, <1>8, ReceiveStep
  <2>2. m \in Fragment
      BY <1>8, <2>1 DEF T, StreamTell
  <2>3. PICK p \in 0 .. job.size : Collected(p) /\ (alive => UnderWay(p))
      BY <1>5, <2>1
  <2>4. outbox = Null /\ m.piece[1] = p /\ After(m, dev.todo)
      BY <1>5, <1>8, <2>1, <2>3 DEF UnderWay
  <2> DEFINE e == m.piece[2]
  <2>5. e \in p .. job.size /\ Collected(e)' /\ buf' \in Bufs /\ Length(buf') <= job.room
      BY <1>0, <1>2, <1>8, <2>2, <2>3, <2>4, FragmentAdds
  <2>6. e \in 0 .. job.size
      BY <1>4, <2>5
  <2>7. (IF job.op = "readODlist" THEN m.left > 0 ELSE m.incomplete) <=> dev.todo # <<>>
    <3>1. dev.todo \in Seq(T)
        BY <1>0 DEF Talk
    <3>2. Len(dev.todo) \in Nat /\ (Len(dev.todo) > 0 <=> dev.todo # <<>>)
        BY <3>1
    <3> QED
        BY <2>4, <3>2 DEF After, Follow
  <2>8. CASE dev.todo # <<>>
    <3>1. RestFrom(dev.todo, e)
        BY <2>4, <2>8 DEF After
    <3>2. RestFrom(dev.todo, e)' = RestFrom(dev.todo, e)
        BY <1>2, <2>1 DEF RestFrom, Follow, Fragment, ODlists, SoeDatas, Part
    <3>3. UnderWay(e)'
        BY <2>1, <2>4, <3>1, <3>2 DEF UnderWay
    <3>4. pc' = "receive" /\ req' = req /\ wkc' = wkc
        BY <1>8, <2>7, <2>8 DEF Wait
    <3>5. wkc' \in Int
        BY <1>0, <3>4 DEF Base
    <3>6. wkc' = 0
        BY <2>1, <3>4 DEF Unfinished
    <3> QED
        BY <1>7, <1>8, <2>5, <2>6, <3>3, <3>4, <3>5, <3>6
  <2>9. CASE dev.todo = <<>>
    <3>1. e = job.size
        BY <2>4, <2>9 DEF After
    <3>2. pc' = "done" /\ req' = req /\ wkc' = 1
        BY <1>8, <2>7, <2>9 DEF Return
    <3>3. Collected(job.size)'
        BY <1>2, <2>5, <3>1 DEF Collected
    <3> QED
        BY <1>7, <1>8, <2>5, <3>2, <3>3
  <2> QED
      BY <2>8, <2>9
<1>9. ASSUME NEW m \in Answers, Receiving(job.op, m), Return(0), Keep PROVE StreamInv'
    BY <1>0, <1>5, <1>7, <1>9 DEF Return, Keep
<1>10. CASE job.op = "readODlist" /\ ODlistReceive
  <2>1. PICK m \in Answers :
    /\ Receiving("readODlist", m)
    /\ \/ /\ m # Null /\ m.kind = "odlist"
          /\ buf' = Glue(buf, <<m.piece[1], m.piece[1] + Lower(Span(m.piece), job.room - Length(buf))>>)
          /\ IF m.left > 0 THEN Wait /\ UNCHANGED loc ELSE Return(1)
       \/ Return(0) /\ Keep
      BY <1>10 DEF ODlistReceive
  <2>3. Abort.kind = "abort"
      BY DEF Abort
  <2>2. m.kind = "odlist" => m # Abort
      BY <2>3
  <2> QED
      BY <1>8, <1>9, <1>10, <2>1, <2>2
<1>11. CASE job.op = "SoEread" /\ SoEreadReceive
  <2>1. PICK m \in Answers :
    /\ Receiving("SoEread", m)
    /\ \/ /\ m # Null /\ m.kind = "soe data"
          /\ buf' = Glue(buf, SoECopied(<<m.piece[1], m.piece[1] + Lower(Span(m.piece), job.room - Length(buf))>>))
          /\ IF m.incomplete THEN Wait /\ UNCHANGED loc ELSE Return(1)
       \/ m # Null /\ m.kind = "soe data" /\ Keep /\ Ends("crashed")
       \/ Return(0) /\ Keep
      BY <1>11 DEF SoEreadReceive
  <2>4. Keep /\ Ends("crashed") => StreamInv'
      BY <1>0, <1>2, <1>5, <1>7, <1>11, <2>1 DEF Keep, Ends, Base, Collected
  <2>3. Abort.kind = "abort"
      BY DEF Abort
  <2>2. m.kind = "soe data" => m # Abort
      BY <2>3
  <2> QED
      BY <1>8, <1>9, <1>11, <2>1, <2>2, <2>4
<1> QED
    BY <1>6, <1>10, <1>11 DEF StepOf, Streams

-----------------------------------------------------------------------------
(* ecx_FOEread: e bytes are in the buffer, and the next packet begins there. *)
FoeReadAsk == {Word("foe read")} \cup FoeAcks
FoeReadTell == FoeDatas \cup {Abort}

Read(e) ==
  /\ pc # "empty" /\ buf = Entire(e) /\ (~loc.worktodo /\ job.l = job.rl => e = job.size)
  /\ req.kind = "foe read" => e = 0
  /\ outbox # Null => outbox = req
  /\ alive /\ req.kind = "foe ack" /\ (pc # "receive" \/ outbox # Null) => dev.at = e
  /\ alive /\ pc = "receive" /\ Coming \in FoeDatas =>
       /\ outbox = Null /\ dev.at = e + Lower(job.size - e, job.rl - 12)
       /\ Coming.piece = <<e, dev.at>>

FoeReadInv ==
  /\ Base /\ Talk(FoeReadAsk, FoeReadTell) /\ Lock
  /\ loc \in [prevpacket : Nat, worktodo : BOOLEAN]
  /\ Length(buf) <= job.room /\ dev.at <= job.size
  /\ wkc > 0 => buf = Entire(job.size) \/ job.l # job.rl
  /\ pc \notin Over => \E e \in 0 .. job.size : Read(e)

LEMMA FoeReadSaid ==
  ASSUME job \in Jobs
  PROVE  /\ FoeReadAsk \subseteq Said /\ FoeReadTell \subseteq Said
         /\ Null \notin FoeReadAsk /\ Null \notin FoeReadTell
         /\ Abort \in FoeReadTell /\ Abort \notin FoeDatas
         /\ \A m \in FoeReadAsk : m.kind \in {"foe read", "foe ack"}
         /\ \A m \in FoeDatas : m.kind = "foe data" /\ m.no \in Nat
         /\ Abort.kind = "abort"
<1>1. Abort \in Said /\ Abort.kind = "abort"
    BY ServiceSaid DEF Abort, Word
<1>2. Word("foe read") \in Said /\ Word("foe read").kind = "foe read"
    BY ServiceSaid DEF Word
<1>3. FoeAcks \subseteq Said /\ FoeDatas \subseteq Said
    BY OthersSaid
<1>4. \A m \in FoeAcks : m.kind = "foe ack"
    BY DEF FoeAcks
<1>5. \A m \in FoeDatas : m.kind = "foe data" /\ m.no \in Nat
    BY DEF FoeDatas
<1> QED
    BY <1>1, <1>2, <1>3, <1>4, <1>5, NullUnsaid DEF FoeReadAsk, FoeReadTell

LEMMA FoeReadSteady ==
  ASSUME job' = job
  PROVE  FoeReadAsk' = FoeReadAsk /\ FoeReadTell' = FoeReadTell /\ FoeDatas' = FoeDatas
<1>1. FoeDatas' = FoeDatas /\ FoeAcks' = FoeAcks
    BY DEF FoeDatas, FoeAcks, Part
<1> QED
    BY <1>1 DEF FoeReadAsk, FoeReadTell, Abort, Word

Placed(d, z, no, t) == [d EXCEPT !.at = z, !.no = no, !.toggle = t]

LEMMA PlaceIs ==
  ASSUME NEW d \in DevSet, NEW z \in Nat, NEW no \in Nat, NEW t \in BOOLEAN
  PROVE  /\ Placed(d, z, no, t) \in DevSet /\ Placed(d, z, no, t).at = z
         /\ Placed(d, z, no, t).todo = d.todo
<1> DEFINE d1 == [d EXCEPT !.at = z]
           d2 == [d1 EXCEPT !.no = no]
           d3 == [d2 EXCEPT !.toggle = t]
<1>1. Placed(d, z, no, t) = d3
    BY DEF DevSet, Placed
<1>2. d1 \in DevSet /\ d1.at = z /\ d1.todo = d.todo
    BY DEF DevSet
<1> HIDE DEF d1
<1>3. d2 \in DevSet /\ d2.at = z /\ d2.todo = d.todo
    BY <1>2 DEF DevSet
<1> HIDE DEF d2
<1>4. d3 \in DevSet /\ d3.at = z /\ d3.todo = d.todo
    BY <1>3 DEF DevSet
<1> QED
    BY <1>1, <1>4

LEMMA PacketIs ==
  ASSUME job \in Jobs, dev \in DevSet, NEW at \in Nat, at <= job.size, NEW no \in Nat
  PROVE  LET d == FoePacket(at, no)
             z == at + Lower(job.size - at, job.rl - 12)
         IN /\ d \in DevSet /\ d.at = z /\ z \in Nat /\ z <= job.size /\ at <= z
            /\ d.todo = <<[kind |-> "foe data", no |-> no, piece |-> <<at, z>>]>>
            /\ [kind |-> "foe data", no |-> no, piece |-> <<at, z>>] \in FoeDatas
<1> DEFINE n == Lower(job.size - at, job.rl - 12)
           z == at + n
           m == [kind |-> "foe data", no |-> no, piece |-> <<at, z>>]
           d == Reply(m)
           f == n = job.rl - 12
<1>1. job.size \in Nat /\ n \in Nat /\ z \in Nat /\ z <= job.size /\ at <= z
    BY JobIs DEF Lower
<1>2. FoePacket(at, no) = Placed(d, z, no, f)
    BY DEF FoePacket, Placed
<1>3. f \in BOOLEAN
    OBVIOUS
<1> HIDE DEF n, z, f
<1>4. <<at, z>> \in Part
  <2>1. 0 \in {0, 1, 2}
      OBVIOUS
  <2> QED
      BY <1>1, <2>1, PieceIs
<1>5. m \in FoeDatas /\ m \in Said
    BY <1>4, OthersSaid DEF FoeDatas
<1>6. z = at + Lower(job.size - at, job.rl - 12)
    BY DEF z, n
<1>9. m = [kind |-> "foe data", no |-> no, piece |-> <<at, z>>]
    OBVIOUS
<1> HIDE DEF m
<1>7. d \in DevSet /\ d.todo = <<m>>
    BY <1>5, ReplyIs
<1> HIDE DEF d
<1>8. ASSUME NEW t \in BOOLEAN
      PROVE  /\ Placed(d, z, no, t) \in DevSet /\ Placed(d, z, no, t).at = z
             /\ Placed(d, z, no, t).todo = d.todo
  <2>1. d \in DevSet
      BY <1>7
  <2>2. z \in Nat
      BY <1>1
  <2>3. Placed(d, z, no, t) \in DevSet
      BY <2>1, <2>2, PlaceIs
  <2>4. Placed(d, z, no, t).at = z
      BY <2>1, <2>2, PlaceIs
  <2> QED
      BY <2>1, <2>2, <2>3, <2>4, PlaceIs
<1>10. FoePacket(at, no) \in DevSet /\ FoePacket(at, no).at = z /\ FoePacket(at, no).todo = <<m>>
    BY <1>2, <1>3, <1>7, <1>8
<1> QED
    BY <1>1, <1>5, <1>6, <1>9, <1>10

LEMMA FoeReadServed ==
  ASSUME job \in Jobs, dev \in DevSet, dev.at <= job.size, NEW r \in FoeReadAsk, dev.todo = <<>>
  PROVE  LET d == Served(r)
             a == IF r.kind = "foe read" THEN 0 ELSE dev.at
             z == a + Lower(job.size - a, job.rl - 12)
         IN /\ d \in DevSet /\ d.at <= job.size
            /\ \/ d.todo = <<>>
               \/ \E m \in FoeDatas : d.todo = <<m>> /\ m.piece = <<a, z>> /\ d.at = z
<1>1. CASE r.kind = "foe read"
  <2>1. Served(r) = FoePacket(0, 1)
      BY <1>1 DEF Served
  <2>2. 0 \in Nat /\ 1 \in Nat /\ 0 <= job.size
      BY JobIs
  <2> DEFINE z == 0 + Lower(job.size - 0, job.rl - 12)
             m == [kind |-> "foe data", no |-> 1, piece |-> <<0, z>>]
             d == FoePacket(0, 1)
  <2>3. d \in DevSet /\ d.at = z /\ z <= job.size /\ d.todo = <<m>> /\ m \in FoeDatas
      BY <2>2, PacketIs
  <2>4. m.piece = <<0, z>>
      OBVIOUS
  <2>6. z = 0 + Lower(job.size - 0, job.rl - 12)
      OBVIOUS
  <2> HIDE DEF z, m, d
  <2>5. Served(r) = d
      BY <2>1 DEF d
  <2> QED
      BY <1>1, <2>3, <2>4, <2>5, <2>6
<1>2. CASE r.kind # "foe read"
  <2>1. r.kind = "foe ack"
      BY <1>2, FoeReadSaid
  <2>2. Served(r) = FoeAcked(r)
      BY <2>1 DEF Served
  <2>3. dev.at \in Nat /\ dev.no + 1 \in Nat
      BY DEF DevSet
  <2> DEFINE z == dev.at + Lower(job.size - dev.at, job.rl - 12)
             m == [kind |-> "foe data", no |-> dev.no + 1, piece |-> <<dev.at, z>>]
             d == FoePacket(dev.at, dev.no + 1)
  <2>4. d \in DevSet /\ d.at = z /\ z <= job.size /\ d.todo = <<m>> /\ m \in FoeDatas
      BY <2>3, PacketIs
  <2>5. m.piece = <<dev.at, z>> /\ z = dev.at + Lower(job.size - dev.at, job.rl - 12)
      OBVIOUS
  <2>6. \/ Served(r) = d
        \/ Served(r) = [dev EXCEPT !.todo = <<>>]
      BY <2>2 DEF FoeAcked
  <2> HIDE DEF z, m, d
  <2>7. CASE Served(r) = d
      BY <1>2, <2>4, <2>5, <2>7
  <2>8. CASE Served(r) = [dev EXCEPT !.todo = <<>>]
    <3>1. <<>> \in Seq(Said)
        OBVIOUS
    <3>2. /\ [dev EXCEPT !.todo = <<>>] \in DevSet /\ [dev EXCEPT !.todo = <<>>].todo = <<>>
          /\ SameDevice([dev EXCEPT !.todo = <<>>])
        BY <3>1, TodoIs
    <3> QED
        BY <2>8, <3>2 DEF SameDevice
  <2> QED
      BY <2>6, <2>7, <2>8
<1> QED
    BY <1>1, <1>2

LEMMA FoeReadLink ==
  ASSUME FoeReadInv, job.op = "FOEread", LinkStep
  PROVE  FoeReadInv'
<1> DEFINE A == FoeReadAsk
           T == FoeReadTell
<1>0. Base /\ Talk(A, T) /\ Lock /\ job \in Jobs /\ dev \in DevSet /\ dev.at <= job.size
      /\ loc \in [prevpacket : Nat, worktodo : BOOLEAN]
      /\ Length(buf) <= job.room
      /\ (wkc > 0 => buf = Entire(job.size) \/ job.l # job.rl)
      /\ (pc \notin Over => \E e \in 0 .. job.size : Read(e))
    BY DEF FoeReadInv, Base
<1>1. A \subseteq Said /\ T \subseteq Said /\ Null \notin A /\ Null \notin T /\ Abort \in T
      /\ Abort \notin FoeDatas /\ FoeDatas \subseteq T
      /\ \A m \in A : m.kind \in {"foe read", "foe ack"}
  <2>1. FoeDatas \subseteq T
      BY DEF FoeReadTell
  <2> QED
      BY <1>0, <2>1, FoeReadSaid
<1>2. UNCHANGED <<job, req, loc, buf, wkc>> /\ pc' \in {pc, "send"}
    BY DEF LinkStep, Purge, Serve, PostNext, Vanish, vars, callVars
<1>3. A' = A /\ T' = T /\ FoeDatas' = FoeDatas
    BY <1>2, FoeReadSteady
<1> HIDE DEF A, T
<1>4. CASE Purge \/ PostNext \/ Vanish \/ UNCHANGED vars
  <2>1. /\ Lock' /\ ((pc = "purge" /\ pc' = "send") \/ pc' = pc)
        /\ pc = "receive" /\ alive' => /\ alive /\ Coming' = Coming /\ outbox' = outbox
        /\ SameDevice(dev')
      BY <1>0, <1>1, <1>4, LockLink
  <2>2. Base' /\ Talk(A, T)'
    <3>1. CASE Purge
        BY <1>0, <1>3, <3>1, PurgeStep DEF Talk
    <3>2. CASE PostNext
        BY <1>0, <1>1, <1>3, <3>2, PostStep DEF Talk
    <3>3. CASE Vanish
        BY <1>0, <1>3, <3>3, VanishStep DEF Talk
    <3>4. CASE UNCHANGED vars
        BY <1>0, <1>3, <3>4, StutterStep DEF Talk
    <3> QED
        BY <1>4, <3>1, <3>2, <3>3, <3>4
  <2>3. dev'.at = dev.at /\ (alive' => alive)
    <3>1. alive' => alive
        BY <1>0, <1>4 DEF Purge, PostNext, Vanish, vars, linkVars
    <3> QED
        BY <2>1, <3>1 DEF SameDevice
  <2>4. outbox' # Null => outbox' = outbox
      BY <1>4 DEF Purge, PostNext, Vanish, vars, linkVars
  <2>5. ASSUME pc' \notin Over, NEW e \in 0 .. job.size, Read(e) PROVE Read(e)'
    <3>1. CASE pc' = "receive"
      <4>1. pc = "receive"
          BY <2>1, <3>1
      <4> QED
          BY <1>2, <1>3, <2>1, <2>3, <2>4, <2>5, <3>1, <4>1 DEF Read
    <3>2. CASE pc' # "receive"
      <4>1. pc # "receive"
          BY <2>1, <3>2
      <4> QED
          BY <1>2, <1>3, <2>1, <2>3, <2>4, <2>5, <3>2, <4>1 DEF Read
    <3> QED
        BY <3>1, <3>2
  <2>6. pc' \notin Over => pc \notin Over
      BY <2>1
  <2> QED
      BY <1>0, <1>2, <2>1, <2>2, <2>3, <2>5, <2>6 DEF FoeReadInv, A, T
<1>5. CASE Serve
  <2>1. /\ req' \in A /\ inbox' \in T \cup {Null} /\ outbox' = Null /\ outbox \in A /\ outbox # Null
        /\ alive /\ dev.todo = <<>> /\ DevSet' = DevSet
        /\ UNCHANGED <<job, pc, req, loc, buf, wkc, inbox, alive, missed, late, unsent>>
        /\ (dev' \in DevSet => Base')
        /\ \/ dev' = Served(outbox) \/ dev' = Reply(Abort)
           \/ dev' = FoeBusy /\ outbox.kind \in {"foe write", "foe data"}
      BY <1>0, <1>1, <1>5, ServeStep
  <2>2. outbox.kind \in {"foe read", "foe ack"}
      BY <1>1, <2>1
  <2> DEFINE a == IF outbox.kind = "foe read" THEN 0 ELSE dev.at
             z == a + Lower(job.size - a, job.rl - 12)
  <2>3. /\ dev' \in DevSet /\ dev'.at <= job.size
        /\ \/ dev'.todo = <<>> \/ dev'.todo = <<Abort>>
           \/ \E m \in FoeDatas : dev'.todo = <<m>> /\ m.piece = <<a, z>> /\ dev'.at = z
    <3>1. CASE dev' = Served(outbox)
        BY <1>0, <2>1, <3>1, FoeReadServed DEF A
    <3>2. CASE dev' = Reply(Abort)
      <4>1. Abort \in Said
          BY <1>1
      <4>2. dev' \in DevSet /\ dev'.todo = <<Abort>> /\ SameDevice(dev')
          BY <1>0, <3>2, <4>1, ReplyIs
      <4> QED
          BY <1>0, <4>2 DEF SameDevice
    <3> QED
        BY <2>1, <2>2, <3>1, <3>2
  <2> HIDE DEF a, z
  <2>4. dev'.todo = <<>> \/ \E m \in T : dev'.todo = <<m>>
      BY <1>1, <2>3
  <2>5. dev'.todo \in Seq(T)
    <3>1. <<>> \in Seq(T) /\ \A m \in T : <<m>> \in Seq(T)
        OBVIOUS
    <3> QED
        BY <2>4, <3>1
  <2>6. Base' /\ Talk(A, T)'
      BY <1>3, <2>1, <2>3, <2>5 DEF Talk
  <2>7. /\ Lock' /\ pc \in {"receive", "empty"} \cup Over
        /\ (dev'.todo = <<>> /\ pc = "receive" => Coming' = Null)
        /\ \A m \in T : dev'.todo = <<m>> /\ pc = "receive" => Coming' = m
      BY <1>0, <1>1, <1>5, <2>4, LockServe
  <2>8. ASSUME pc' \notin Over, NEW e \in 0 .. job.size, Read(e) PROVE Read(e)'
    <3>1. a = e
      <4>1. outbox = req /\ (req.kind = "foe read" => e = 0) /\ (req.kind = "foe ack" => dev.at = e)
          BY <2>1, <2>8 DEF Read
      <4> QED
          BY <2>2, <4>1 DEF a
    <3>2. z = e + Lower(job.size - e, job.rl - 12)
        BY <3>1 DEF z
    <3>3. alive' /\ req'.kind = "foe ack" /\ (pc' # "receive" \/ outbox' # Null) => FALSE
      <4>1. pc = "empty" => FALSE
          BY <2>8 DEF Read
      <4> QED
          BY <2>1, <2>7, <2>8, <4>1
    <3>4. ASSUME pc' = "receive", Coming' \in FoeDatas
          PROVE  dev'.at = z /\ Coming'.piece = <<e, dev'.at>>
        BY <1>1, <2>1, <2>3, <2>7, <3>1, <3>4
    <3> QED
        BY <1>3, <2>1, <2>8, <3>2, <3>3, <3>4 DEF Read
  <2> QED
      BY <1>0, <1>2, <2>1, <2>3, <2>6, <2>7, <2>8 DEF FoeReadInv, A, T
<1> QED
    BY <1>4, <1>5 DEF LinkStep

LEMMA FoeReadTake ==
  ASSUME FoeReadInv, Unfinished, job.op = "FOEread", FOEreadSend \/ FOEreadReceive
  PROVE  FoeReadInv'
<1> DEFINE A == FoeReadAsk
           T == FoeReadTell
<1>0. Base /\ Talk(A, T) /\ Lock /\ job \in Jobs /\ dev \in DevSet /\ dev.at <= job.size
      /\ loc \in [prevpacket : Nat, worktodo : BOOLEAN] /\ buf \in Bufs
      /\ Length(buf) <= job.room
      /\ (pc \notin Over => \E e \in 0 .. job.size : Read(e))
      /\ job.size \in Nat /\ job.room \in Nat
    BY JobIs DEF FoeReadInv, Base
<1>1. A \subseteq Said /\ T \subseteq Said /\ Null \notin A /\ Null \notin T /\ Abort \in T
      /\ Abort.kind = "abort"
      /\ (\A m \in A : m.kind \in {"foe read", "foe ack"})
      /\ \A m \in FoeDatas : m.kind = "foe data" /\ m.no \in Nat
    BY <1>0, FoeReadSaid
<1> HIDE DEF A, T
<1>2. CASE FOEreadSend
  <2>1. PICK ok \in BOOLEAN :
           /\ Sending("FOEread", ok) /\ buf' = buf
           /\ IF ok /\ loc.worktodo THEN Wait /\ UNCHANGED loc ELSE Return(IF ok THEN 1 ELSE 0)
      BY <1>2 DEF FOEreadSend, Keep
  <2>2. /\ outbox' \in A \cup {Null} /\ inbox' \in T \cup {Null} /\ dev'.todo \in Seq(T)
        /\ UNCHANGED <<job, inbox, dev, alive, missed>>
        /\ dev' \in DevSet' /\ late' \in BOOLEAN /\ unsent' \in BOOLEAN
        /\ ok => alive /\ outbox = Null /\ outbox' = req
        /\ pc = "send"
      BY <1>0, <2>1, SendStep
  <2>3. A' = A /\ T' = T /\ FoeDatas' = FoeDatas /\ Jobs' = Jobs
      BY <2>2, FoeReadSteady DEF A, T
  <2>4. req' = req /\ loc' = loc /\ (pc' = "done" \/ (ok /\ pc' = "receive" /\ wkc' = wkc /\ loc.worktodo))
        /\ wkc' \in {0, 1, wkc} /\ (wkc' = 1 /\ pc' = "done" => ~loc.worktodo)
      BY <2>1 DEF Wait, Return
  <2>5. Lock'
      BY <1>0, <2>1, <2>4, LockSend
  <2>6. Base' /\ Talk(A, T)'
      BY <1>0, <2>1, <2>2, <2>3, <2>4 DEF Base, Talk
  <2>7. PICK e \in 0 .. job.size : Read(e)
      BY <1>0, <2>2
  <2>8. wkc' > 0 => buf' = Entire(job.size) \/ job.l # job.rl
    <3>1. wkc = 0
        BY <2>2 DEF Unfinished
    <3>2. wkc' > 0 => ~loc.worktodo
        BY <2>4, <3>1
    <3> QED
        BY <2>1, <2>7, <3>2 DEF Read
  <2>9. pc' \notin Over => Read(e)'
    <3>1. inbox = Null /\ (alive => dev.todo = <<>>)
        BY <1>0, <2>2 DEF Lock
    <3>2. pc' \notin Over => Coming' = Null
        BY <2>2, <2>4, <3>1 DEF Coming
    <3>3. Null \notin FoeDatas
        BY <1>1 DEF T, FoeReadTell
    <3> QED
        BY <2>1, <2>2, <2>3, <2>4, <2>7, <3>2, <3>3 DEF Read
  <2> QED
      BY <1>0, <2>1, <2>2, <2>4, <2>5, <2>6, <2>8, <2>9 DEF FoeReadInv, A, T
<1>3. CASE FOEreadReceive
  <2>1. PICK m \in Answers :
           /\ Receiving("FOEread", m)
           /\ IF m # Null /\ m.kind = "foe data" /\ m.no = loc.prevpacket + 1 /\ HasRoom(m)
              THEN /\ buf' = Glue(buf, m.piece)
                   /\ Say([kind |-> "foe ack", no |-> m.no])
                   /\ loc' = [prevpacket |-> m.no, worktodo |-> Span(m.piece) = FullPacket]
              ELSE Return(IF m = Null THEN 0 ELSE -1) /\ Keep
      BY <1>3 DEF FOEreadReceive
  <2>2. /\ outbox' \in A \cup {Null} /\ inbox' \in T \cup {Null} /\ dev'.todo \in Seq(T)
        /\ UNCHANGED <<job, outbox, dev, alive, unsent>>
        /\ dev' \in DevSet' /\ late' \in BOOLEAN /\ missed' \in BOOLEAN /\ pc = "receive"
        /\ m # Null => m \in T
      BY <1>0, <1>1, <2>1, ReceiveStep
  <2>3. A' = A /\ T' = T /\ FoeDatas' = FoeDatas /\ Jobs' = Jobs
      BY <2>2, FoeReadSteady DEF A, T
  <2>4. pc' = "done" \/ (m # Null /\ pc' = "send")
      BY <2>1 DEF Return, Say
  <2>5. /\ Lock' /\ (m # Null => m = Coming /\ alive /\ outbox = Null)
    <3>1. Base /\ Talk(A, T) /\ Lock /\ Null \notin T /\ Receiving("FOEread", m)
        BY <1>0, <1>1, <2>1
    <3>2. pc' = "done" \/ ((m # Null \/ ~late') /\ pc' \in {"purge", "send"})
        BY <2>4
    <3>3. Lock'
        BY <3>1, <3>2, LockReceive
    <3>4. m # Null => m = Coming /\ alive /\ m \in T /\ outbox = Null
        BY <3>1, <3>2, LockReceive
    <3> QED
        BY <3>3, <3>4
  <2>6. CASE m # Null /\ m.kind = "foe data" /\ m.no = loc.prevpacket + 1 /\ HasRoom(m)
    <3>1. m \in FoeDatas
        BY <1>1, <2>2, <2>6 DEF T, FoeReadTell
    <3>2. PICK e \in 0 .. job.size : Read(e)
        BY <1>0, <2>2
    <3>3. /\ dev.at = e + Lower(job.size - e, job.rl - 12) /\ m.piece = <<e, dev.at>>
        BY <2>2, <2>5, <2>6, <3>1, <3>2 DEF Read
    <3>0. PICK z \in Nat : z = dev.at
        BY <1>0 DEF DevSet
    <3> DEFINE r == [kind |-> "foe ack", no |-> m.no]
    <3>4. z \in Nat /\ e <= z /\ z <= job.size /\ e \in Nat
      <4>1. Lower(job.size - e, job.rl - 12) >= 0
          BY <1>0, JobIs DEF Lower
      <4>2. z = dev.at
          BY <3>0
      <4> DEFINE n == Lower(job.size - e, job.rl - 12)
      <4>3. n \in Int
          BY <1>0, JobIs DEF Lower
      <4> HIDE DEF n
      <4> QED
          BY <1>0, <3>3, <4>1, <4>2, <4>3 DEF n
    <3>5. buf' = Entire(z)
        BY <2>1, <2>6, <3>0, <3>2, <3>3, <3>4, GlueEntire DEF Read
    <3>6. Length(buf) + Span(m.piece) = z /\ Span(m.piece) = z - e /\ buf = Entire(e)
      <4>1. Length(buf) = e /\ buf = Entire(e)
          BY <3>2, <3>4, EntireIs DEF Read
      <4>2. Span(m.piece) = z - e
          BY <3>0, <3>3 DEF Span
      <4> QED
          BY <3>4, <4>1, <4>2
    <3>7. z <= job.room
        BY <2>6, <3>6 DEF HasRoom
    <3>8. buf' \in Bufs /\ Length(buf') <= job.room
        BY <3>4, <3>5, <3>7, EntireIs
    <3>9. m.no \in Nat /\ r \in FoeAcks
      <4>1. m.no \in Nat
          BY <3>1 DEF FoeDatas
      <4> QED
          BY <4>1 DEF FoeAcks
    <3>10. r \in A /\ r.kind = "foe ack" /\ req' = r /\ wkc' = wkc /\ pc' = "send"
        BY <2>1, <2>6, <3>9 DEF A, FoeReadAsk, Say
    <3>11. loc' = [prevpacket |-> m.no, worktodo |-> (z - e) = FullPacket]
        BY <2>1, <2>6, <3>6
    <3>12. loc' \in [prevpacket : Nat, worktodo : BOOLEAN] /\ (loc'.worktodo <=> (z - e = FullPacket))
        BY <3>9, <3>11
    <3>13. ~loc'.worktodo /\ job.l = job.rl => z = job.size
      <4>1. ~loc'.worktodo /\ job.l = job.rl => z - e # job.rl - 12
          BY <3>12 DEF FullPacket
      <4>2. z - e = Lower(job.size - e, job.rl - 12)
        <5> DEFINE n == Lower(job.size - e, job.rl - 12)
        <5>1. n \in Int /\ z = e + n
            BY <1>0, <3>0, <3>3, JobIs DEF Lower
        <5> HIDE DEF n
        <5>2. z - e = n
            BY <3>4, <5>1
        <5> QED
            BY <5>2 DEF n
      <4>3. Lower(job.size - e, job.rl - 12) \in {job.size - e, job.rl - 12}
          BY DEF Lower
      <4> QED
          BY <1>0, <3>4, <4>1, <4>2, <4>3
    <3> HIDE DEF r
    <3>14. Base' /\ Talk(A, T)'
        BY <1>0, <2>2, <2>3, <3>8, <3>10 DEF Base, Talk
    <3>15. Read(z)'
        BY <2>2, <2>5, <2>6, <3>0, <3>5, <3>10, <3>13 DEF Read
    <3>16. z \in 0 .. job'.size
        BY <2>2, <3>4
    <3>17. wkc' = 0
        BY <2>2, <3>10 DEF Unfinished
    <3> QED
        BY <1>0, <2>2, <2>5, <3>8, <3>12, <3>14, <3>15, <3>16, <3>17 DEF FoeReadInv, A, T
  <2>7. CASE ~(m # Null /\ m.kind = "foe data" /\ m.no = loc.prevpacket + 1 /\ HasRoom(m))
    <3>1. pc' = "done" /\ wkc' \in {0, -1} /\ UNCHANGED <<req, loc, buf>>
        BY <2>1, <2>7 DEF Return, Keep
    <3>2. Base' /\ Talk(A, T)'
        BY <1>0, <2>2, <2>3, <3>1 DEF Base, Talk
    <3>3. ~(wkc' > 0)
        BY <3>1
    <3> QED
        BY <1>0, <2>2, <2>5, <3>1, <3>2, <3>3 DEF FoeReadInv, A, T
  <2> QED
      BY <2>6, <2>7
<1> QED
    BY <1>2, <1>3

-----------------------------------------------------------------------------
(* ecx_EOErecv and ecx_EOEreadfragment.  Bytes of a frame go up to UpTo(k)  *)
(* after k fragments.                                                      *)
Collectors == {"EOErecv", "EOEreadfragment"}
FrameCap == ((job.rl - 10) \div 32) * 32
Fragments == Len(Pieces(0, job.size, FrameCap))
UpTo(k) == Cut(job.size, FrameCap, k)

FragmentOf(f, i) ==
  [kind |-> "eoe", frag |-> i - 1, frame |-> f, last |-> Fragments - i = 0,
   offset |-> IF i = 1 THEN Rounded(job.size) ELSE UpTo(i - 1),
   piece |-> <<1000 * f + UpTo(i - 1), 1000 * f + UpTo(i)>>]

EoeFrames == {FragmentOf(f, i) : f \in {1, 2}, i \in 1 .. Fragments}

UpToOf(f, k) == <<<<1000 * f, 1000 * f + UpTo(k)>>>>

Assembled ==
  loc.frag > 0 =>
    /\ loc.frame \in {1, 2} /\ UpTo(loc.frag) \in Nat /\ UpTo(loc.frag) < job.size
    /\ loc.offset = UpTo(loc.frag) /\ buf = UpToOf(loc.frame, loc.frag)

FrameInv ==
  /\ Base /\ Talk({Null}, EoeFrames) /\ pc \in {"receive", "done"}
  /\ loc \in [frag : Nat, frame : Nat, size : Nat, offset : Nat]
  /\ Length(buf) <= job.room
  /\ wkc > 0 =>
       \/ \E f \in {1, 2} : buf = <<<<1000 * f, 1000 * f + job.size>>>>
       \/ job.op = "EOEreadfragment" /\ job.size > job.room
  /\ pc = "receive" => Assembled
  /\ pc = "receive" /\ job.op = "EOErecv" =>
       IF loc.frag > 0 THEN job.size <= job.room ELSE buf = <<>>
  /\ pc = "receive" /\ job.op = "EOEreadfragment" /\ loc.frag > 0 => loc.size = Rounded(job.size)

LEMMA RoundedIs ==
  ASSUME NEW n \in Nat
  PROVE  Rounded(n) \in Nat /\ n <= Rounded(n)
<1> DEFINE q == (n + 31) \div 32
<1>1. q \in Nat /\ n + 31 < 32 * q + 32
  <2>1. n + 31 \in Nat /\ 32 \in Nat /\ 32 > 0
      OBVIOUS
  <2> QED
      BY <2>1, DivIs
<1>2. Rounded(n) = q * 32
    BY DEF Rounded
<1> HIDE DEF q
<1> QED
    BY <1>1, <1>2

LEMMA FrameCapIs ==
  ASSUME job \in Jobs, job.op \in Collectors
  PROVE  FrameCap \in Nat /\ FrameCap > 0 /\ job.size \in Nat /\ job.size > 0
<1> DEFINE r == job.rl - 10
           q == r \div 32
<1>1. job.size \in Nat /\ job.size > 0 /\ r \in Nat /\ r >= 32
    BY JobIs, JobHas DEF Collectors
<1>2. FrameCap = q * 32
    BY DEF FrameCap
<1> HIDE DEF r
<1>3. q \in Nat /\ r < 32 * q + 32
    BY <1>1, DivIs
<1> HIDE DEF q
<1> QED
    BY <1>1, <1>2, <1>3

LEMMA UpToIs ==
  ASSUME job \in Jobs, job.op \in Collectors
  PROVE  /\ Fragments \in Nat \ {0} /\ UpTo(0) = 0 /\ UpTo(Fragments) = job.size
         /\ \A i \in 1 .. Fragments :
              /\ UpTo(i - 1) \in Nat /\ UpTo(i) \in Nat
              /\ UpTo(i - 1) < UpTo(i) /\ UpTo(i) <= job.size
              /\ Pieces(0, job.size, FrameCap)[i] = <<UpTo(i - 1), UpTo(i)>>
<1> DEFINE n == job.size
           c == FrameCap
           ps == Pieces(0, n, c)
           k == Len(ps)
<1>1. n \in Nat /\ n > 0 /\ c \in Nat /\ c > 0
    BY FrameCapIs
<1>7. Fragments = k /\ \A i : UpTo(i) = Cut(n, c, i)
    BY DEF Fragments, UpTo
<1> HIDE DEF n, c
<1>2. /\ k \in Nat \ {0} /\ Cut(n, c, 0) = 0
      /\ \A i \in 1 .. k : PieceAt(0, n, c, i)
    BY <1>1, PiecesAre
<1>3. Cut(n, c, k) = n
  <2>1. 0 \in Nat
      OBVIOUS
  <2> QED
      BY <1>1, <2>1, PiecesAre, Zenon
<1>4. ASSUME NEW i \in 1 .. k
      PROVE  /\ Cut(n, c, i - 1) \in Nat /\ Cut(n, c, i) \in Nat
             /\ Cut(n, c, i - 1) < Cut(n, c, i) /\ Cut(n, c, i) <= n
             /\ ps[i] = <<Cut(n, c, i - 1), Cut(n, c, i)>>
  <2>1. PieceAt(0, n, c, i)
      BY <1>2
  <2> DEFINE x == Cut(n, c, i - 1)
             y == Cut(n, c, i)
  <2>2. /\ x \in Nat /\ y \in Nat /\ x < y /\ y <= n
        /\ ps[i] = <<0 + x, 0 + y>>
      BY <1>1, <2>1 DEF PieceAt
  <2> HIDE DEF x, y, ps
  <2>3. ps[i] = <<x, y>>
      BY <2>2
  <2> QED
      BY <2>2, <2>3 DEF x, y
<1>5. ps = Pieces(0, job.size, FrameCap)
    BY DEF n, c
<1>6. n = job.size
    BY DEF n
<1> HIDE DEF ps, k
<1> QED
    BY <1>2, <1>3, <1>4, <1>5, <1>6, <1>7

(* What a fragment is.                                                     *)
FragmentIs(m, f, i) ==
  /\ f \in {1, 2} /\ i \in Nat /\ i > 0 /\ m.kind = "eoe" /\ m.frag = i - 1 /\ m.frame = f
  /\ UpTo(i - 1) \in Nat /\ UpTo(i) \in Nat /\ UpTo(i - 1) < UpTo(i) /\ UpTo(i) <= job.size
  /\ i = 1 => UpTo(i - 1) = 0
  /\ m.last \in BOOLEAN /\ (m.last => UpTo(i) = job.size) /\ (~m.last => UpTo(i) < job.size)
  /\ i = 1 => m.offset = Rounded(job.size)
  /\ i # 1 => m.offset = UpTo(i - 1)
  /\ m.piece = <<1000 * f + UpTo(i - 1), 1000 * f + UpTo(i)>>

LEMMA ShiftIs ==
  ASSUME job \in Jobs, NEW t \in {0, 1000, 2000}, NEW x \in Nat, NEW y \in Nat, x <= y, y <= job.size
  PROVE  <<t + x, t + y>> \in Piece
<1>1. job.size \in Nat /\ job.size <= 999
    BY JobIs
<1>2. (t + x) % 1000 = x
    BY <1>1
<1>3. Span(<<t + x, t + y>>) = y - x
    BY DEF Span
<1>4. t + x \in Nat /\ t + y \in Nat /\ t + x <= t + y
    OBVIOUS
<1> QED
    BY <1>1, <1>2, <1>3, <1>4 DEF Piece

LEMMA EoeMade ==
  ASSUME NEW frag \in Nat, NEW frame \in Nat, NEW last \in BOOLEAN, NEW offset \in Nat, NEW piece \in Piece
  PROVE  [kind |-> "eoe", frag |-> frag, frame |-> frame, last |-> last, offset |-> offset,
          piece |-> piece] \in Eoes
BY DEF Eoes

LEMMA FrameSaid ==
  ASSUME job \in Jobs, job.op \in Collectors
  PROVE  /\ EoeFrames \subseteq Said /\ Null \notin EoeFrames
         /\ \A m \in EoeFrames : \E f, i : FragmentIs(m, f, i)
<1>1. ASSUME NEW m \in EoeFrames
      PROVE  m \in Said /\ \E f, i : FragmentIs(m, f, i)
  <2>1. PICK f \in {1, 2}, i \in 1 .. Fragments : m = FragmentOf(f, i)
      BY DEF EoeFrames
  <2>2. /\ Fragments \in Nat \ {0} /\ UpTo(0) = 0 /\ UpTo(Fragments) = job.size
        /\ UpTo(i - 1) \in Nat /\ UpTo(i) \in Nat /\ UpTo(i - 1) < UpTo(i) /\ UpTo(i) <= job.size
      BY UpToIs
  <2> DEFINE x == UpTo(i - 1)
             y == UpTo(i)
  <2>3. /\ m.kind = "eoe" /\ m.frag = i - 1 /\ m.frame = f /\ m.last = (Fragments - i = 0)
        /\ m.offset = (IF i = 1 THEN Rounded(job.size) ELSE x)
        /\ m.piece = <<1000 * f + x, 1000 * f + y>>
      BY <2>1 DEF FragmentOf
  <2>4. job.size \in Nat /\ Rounded(job.size) \in Nat
      BY JobIs, RoundedIs
  <2>5. i = Fragments => y = job.size
      BY <2>2
  <2>6. i # Fragments => y < job.size
    <3>1. i # Fragments => i + 1 \in 1 .. Fragments
        BY <2>2
    <3>2. i # Fragments => UpTo((i + 1) - 1) < UpTo(i + 1) /\ UpTo(i + 1) <= job.size /\ UpTo(i + 1) \in Nat
        BY <3>1, UpToIs
    <3>3. (i + 1) - 1 = i
        OBVIOUS
    <3> QED
        BY <2>2, <2>4, <3>2, <3>3
  <2>7. i = 1 => x = 0
      BY <2>2
  <2>8. i \in Nat /\ i > 0 /\ i - 1 \in Nat /\ (Fragments - i = 0 <=> i = Fragments)
      BY <2>2
  <2>9. x \in Nat /\ y \in Nat /\ x < y /\ y <= job.size
      BY <2>2
  <2>10. FragmentIs(m, f, i)
    <3>1. m.last \in BOOLEAN /\ (m.last => i = Fragments) /\ (~m.last => i # Fragments)
      <4> DEFINE t == Fragments - i = 0
      <4>1. t \in BOOLEAN /\ (t <=> i = Fragments)
          BY <2>8
      <4>2. m.last = t
          BY <2>1 DEF FragmentOf
      <4> HIDE DEF t
      <4> QED
          BY <4>1, <4>2
    <3>2. (m.last => y = job.size) /\ (~m.last => y < job.size)
        BY <2>5, <2>6, <3>1
    <3>3. (i = 1 => m.offset = Rounded(job.size)) /\ (i # 1 => m.offset = x)
        BY <2>3
    <3>4. m.piece = <<1000 * f + x, 1000 * f + y>> /\ m.kind = "eoe" /\ m.frag = i - 1 /\ m.frame = f
        BY <2>3
    <3> QED
        BY <2>7, <2>8, <2>9, <3>1, <3>2, <3>3, <3>4, Zenon DEF FragmentIs
  <2>11. m \in Said
    <3> HIDE DEF x, y
    <3>1. <<1000 * f + x, 1000 * f + y>> \in Piece
      <4>1. x \in Nat /\ y \in Nat /\ x <= y /\ y <= job.size
          BY <2>9
      <4> DEFINE t == 1000 * f
      <4>2. t \in {0, 1000, 2000}
          OBVIOUS
      <4> HIDE DEF t
      <4>3. <<t + x, t + y>> \in Piece
          BY <4>1, <4>2, ShiftIs
      <4> QED
          BY <4>3 DEF t
    <3>2. m = [kind |-> m.kind, frag |-> m.frag, frame |-> m.frame, last |-> m.last,
               offset |-> m.offset, piece |-> m.piece]
        BY <2>1 DEF FragmentOf
    <3>3. m.offset \in Nat /\ m.last \in BOOLEAN /\ m.piece \in Piece /\ m.frag \in Nat /\ m.frame \in Nat
        BY <2>3, <2>4, <2>8, <2>9, <3>1
    <3>4. m \in Eoes
      <4>1. [kind |-> "eoe", frag |-> m.frag, frame |-> m.frame, last |-> m.last,
             offset |-> m.offset, piece |-> m.piece] \in Eoes
          BY <3>3, EoeMade
      <4> QED
          BY <2>3, <3>2, <4>1
    <3> QED
        BY <3>4, OthersSaid
  <2> QED
      BY <2>10, <2>11
<1> QED
    BY <1>1, NullUnsaid

LEMMA FrameSteady ==
  ASSUME job' = job
  PROVE  /\ EoeFrames' = EoeFrames /\ \A k : UpTo(k)' = UpTo(k)
<1>1. FrameCap' = FrameCap /\ Fragments' = Fragments /\ \A k : UpTo(k)' = UpTo(k)
    BY DEF FrameCap, Fragments, UpTo, Cut
<1> QED
    BY <1>1 DEF EoeFrames, FragmentOf

LEMMA OneLength ==
  ASSUME NEW x \in Int, NEW y \in Int
  PROVE  <<<<x, y>>>> \in Bufs /\ Length(<<<<x, y>>>>) = y - x
<1>1. Append(<<>>, <<x, y>>) = <<<<x, y>>>> /\ <<>> \in Bufs /\ <<x, y>> \in Int \X Int
      /\ Span(<<x, y>>) = y - x
    BY DEF Bufs, Span
<1>2. Append(<<>>, <<x, y>>) \in Bufs /\ Length(Append(<<>>, <<x, y>>)) = Length(<<>>) + Span(<<x, y>>)
    BY <1>1, LengthAppend
<1> QED
    BY <1>1, <1>2, LengthEmpty

LEMMA FrameLink ==
  ASSUME FrameInv, job.op \in Collectors, LinkStep
  PROVE  FrameInv'
<1> DEFINE A == {Null}
           T == EoeFrames
<1>0. Base /\ Talk(A, T) /\ pc \in {"receive", "done"} /\ job \in Jobs
    BY DEF FrameInv, Base
<1>1. T \subseteq Said /\ Null \notin T
    BY <1>0, FrameSaid
<1>2. ~Purge /\ ~Serve
    BY <1>0 DEF Purge, Serve, Talk
<1>3. UNCHANGED <<job, pc, req, loc, buf, wkc>>
    BY <1>2 DEF LinkStep, PostNext, Vanish, vars, callVars
<1>4. A' = A /\ T' = T
    BY <1>3, FrameSteady
<1> HIDE DEF T
<1>5. Base' /\ Talk(A, T)'
  <2>1. CASE PostNext
      BY <1>0, <1>1, <1>4, <2>1, PostStep DEF Talk
  <2>2. CASE Vanish
      BY <1>0, <1>4, <2>2, VanishStep DEF Talk
  <2>3. CASE UNCHANGED vars
      BY <1>0, <1>4, <2>3, StutterStep DEF Talk
  <2> QED
      BY <1>2, <2>1, <2>2, <2>3 DEF LinkStep
<1>6. \A k : UpTo(k)' = UpTo(k)
    BY <1>3, FrameSteady
<1>7. Assembled' = Assembled
    BY <1>3, <1>6 DEF Assembled, UpToOf
<1> QED
    BY <1>3, <1>5, <1>7 DEF FrameInv, T, Rounded

LEMMA GlueStart ==
  ASSUME NEW from \in Int, NEW upto \in Int, from # upto
  PROVE  Glue(<<>>, <<from, upto>>) = <<<<from, upto>>>>
<1>1. Span(<<from, upto>>) # 0
    BY DEF Span
<1>2. Append(<<>>, <<from, upto>>) = <<<<from, upto>>>>
    OBVIOUS
<1> QED
    BY <1>1, <1>2 DEF Glue

(* What a fragment adds to what has been put together.                     *)
Before(b, f, i) ==
  \/ b = <<>> /\ i = 1
  \/ i > 1 /\ b = UpToOf(f, i - 1)

LEMMA FragmentGlued ==
  ASSUME job \in Jobs, NEW f \in {1, 2}, NEW i, NEW m, FragmentIs(m, f, i), NEW b, Before(b, f, i)
  PROVE  /\ Glue(b, m.piece) = UpToOf(f, i)
         /\ Glue(b, m.piece) \in Bufs /\ Length(Glue(b, m.piece)) = UpTo(i)
         /\ Span(m.piece) = UpTo(i) - UpTo(i - 1)
         /\ (IF b = <<>> THEN 0 ELSE UpTo(i - 1)) + Span(m.piece) = UpTo(i)
         /\ (b = <<>> <=> i = 1)
<1> DEFINE t == 1000 * f
           x == UpTo(i - 1)
           y == UpTo(i)
<1>1. /\ x \in Nat /\ y \in Nat /\ x < y /\ (i = 1 => x = 0) /\ i \in Nat
      /\ m.piece = <<t + x, t + y>> /\ t \in Nat
    BY DEF FragmentIs
<1>2. (b = <<>> /\ i = 1) \/ (i > 1 /\ b = <<<<t, t + x>>>>)
    BY DEF UpToOf, Before
<1> HIDE DEF t, x, y
<1>3. Span(m.piece) = y - x
    BY <1>1 DEF Span
<1>4. Glue(b, m.piece) = <<<<t, t + y>>>>
  <2>1. CASE b = <<>> /\ i = 1
    <3>1. m.piece = <<t, t + y>> /\ t # t + y /\ t \in Int /\ t + y \in Int
        BY <1>1, <2>1
    <3>2. Glue(<<>>, <<t, t + y>>) = <<<<t, t + y>>>>
      <4> DEFINE u == t + y
      <4>1. u \in Int /\ t \in Int /\ t # u
          BY <3>1
      <4> HIDE DEF u
      <4>2. Glue(<<>>, <<t, u>>) = <<<<t, u>>>>
          BY <4>1, GlueStart
      <4> QED
          BY <4>2 DEF u
    <3> QED
        BY <2>1, <3>1, <3>2
  <2>2. CASE i > 1 /\ b = <<<<t, t + x>>>>
    <3>1. t + x \in Int /\ t + y \in Int /\ t \in Int
        BY <1>1
    <3> QED
        BY <1>1, <2>2, <3>1, GlueOne
  <2> QED
      BY <1>2, <2>1, <2>2
<1>5. <<<<t, t + y>>>> \in Bufs /\ Length(<<<<t, t + y>>>>) = y
  <2>1. t \in Int /\ t + y \in Int /\ (t + y) - t = y
      BY <1>1
  <2> QED
      BY <2>1, OneLength
<1>6. b = <<>> <=> i = 1
  <2>1. <<<<t, t + x>>>> # <<>>
      OBVIOUS
  <2>2. i > 1 => i # 1
      BY <1>1
  <2>3. CASE b = <<>> /\ i = 1
      BY <2>3
  <2>4. CASE i > 1 /\ b = <<<<t, t + x>>>>
      BY <2>1, <2>2, <2>4
  <2> QED
      BY <1>2, <2>3, <2>4
<1>7. (IF b = <<>> THEN 0 ELSE x) + Span(m.piece) = y
    BY <1>1, <1>3, <1>6
<1> QED
    BY <1>3, <1>4, <1>5, <1>6, <1>7 DEF t, x, y, UpToOf

LEMMA FrameTaken ==
  ASSUME FrameInv, Unfinished, job.op \in Collectors, NEW m \in Answers, Receiving(job.op, m),
         buf' \in Bufs, Length(buf') <= job.room, req' = req,
         loc' \in [frag : Nat, frame : Nat, size : Nat, offset : Nat],
         \/ /\ pc' = "done" /\ wkc' \in Int
            /\ wkc' > 0 => \/ \E f \in {1, 2} : buf' = <<<<1000 * f, 1000 * f + job.size>>>>
                           \/ job.op = "EOEreadfragment" /\ job.size > job.room
         \/ /\ pc' = "receive" /\ wkc' = wkc /\ Assembled'
            /\ job.op = "EOErecv" => IF loc'.frag > 0 THEN job.size <= job.room ELSE buf' = <<>>
            /\ job.op = "EOEreadfragment" /\ loc'.frag > 0 => loc'.size = Rounded(job.size)
  PROVE  FrameInv'
<1> DEFINE A == {Null}
           T == EoeFrames
<1>0. Base /\ Talk(A, T) /\ job \in Jobs
    BY DEF FrameInv, Base
<1>1. T \subseteq Said /\ Null \notin T
    BY <1>0, FrameSaid
<1> HIDE DEF A, T
<1>2. /\ outbox' \in A \cup {Null} /\ inbox' \in T \cup {Null} /\ dev'.todo \in Seq(T) /\ pc = "receive"
      /\ UNCHANGED <<job, outbox, dev, alive, unsent>>
      /\ dev' \in DevSet' /\ late' \in BOOLEAN /\ missed' \in BOOLEAN
    BY <1>0, <1>1, ReceiveStep
<1>3. A' = A /\ T' = T /\ Jobs' = Jobs
    BY <1>2, FrameSteady DEF A, T
<1>4. wkc' \in Int /\ pc' \in {"receive", "done"} /\ (pc' = "receive" => wkc' = 0)
    BY <1>0, <1>2 DEF Base, Unfinished
<1>5. Base' /\ Talk(A, T)'
    BY <1>0, <1>2, <1>3, <1>4 DEF Base, Talk
<1>6. wkc' > 0 =>
       \/ \E f \in {1, 2} : buf' = <<<<1000 * f, 1000 * f + job'.size>>>>
       \/ job'.op = "EOEreadfragment" /\ job'.size > job'.room
    BY <1>2, <1>4
<1>7. Rounded(job.size)' = Rounded(job.size)
    BY <1>2 DEF Rounded
<1> QED
    BY <1>2, <1>4, <1>5, <1>6, <1>7 DEF FrameInv, A, T

LEMMA FragmentEffect ==
  ASSUME job \in Jobs, NEW f \in {1, 2}, NEW i, NEW m, FragmentIs(m, f, i), NEW b, NEW lim \in Nat,
         Before(b, f, i), i > 1 => loc.offset = UpTo(i - 1) /\ loc.frag = i - 1,
         EOEtake(m, lim, b)
  PROVE  /\ UpTo(i) <= Lower(lim, job.room) =>
              /\ buf' = UpToOf(f, i) /\ buf' \in Bufs /\ Length(buf') = UpTo(i)
              /\ loc' = [frag |-> i, frame |-> f, size |-> lim, offset |-> UpTo(i)]
         /\ ~(UpTo(i) <= Lower(lim, job.room)) =>
              /\ buf' = b
              /\ loc' = [frag |-> i - 1, frame |-> f, size |-> lim, offset |-> UpTo(i - 1)]
<1> DEFINE p == m.piece
           off == IF b = <<>> THEN 0 ELSE loc.offset
           top == off + Span(m.piece)
           fits == top <= Lower(lim, job.room)
           num == IF b = <<>> THEN 0 ELSE loc.frag
<1>1. /\ i \in Nat /\ (i = 1 => UpTo(i - 1) = 0) /\ m.frame = f
      /\ UpTo(i - 1) \in Nat /\ UpTo(i) \in Nat
    BY DEF FragmentIs
<1>2. i = 1 \/ i > 1
    BY DEF Before
<1>3. /\ Glue(b, p) = UpToOf(f, i)
      /\ Glue(b, p) \in Bufs /\ Length(Glue(b, p)) = UpTo(i)
      /\ (IF b = <<>> THEN 0 ELSE UpTo(i - 1)) + Span(p) = UpTo(i)
      /\ (b = <<>> <=> i = 1)
    BY FragmentGlued
<1>4. off = UpTo(i - 1) /\ num = i - 1
  <2>1. CASE i = 1
      BY <1>1, <1>3, <2>1
  <2>2. CASE i > 1
      BY <1>1, <1>3, <2>2
  <2> QED
      BY <1>2, <2>1, <2>2
<1>11. off = IF b = <<>> THEN 0 ELSE UpTo(i - 1)
  <2>1. CASE b = <<>>
      BY <2>1
  <2>2. CASE b # <<>>
      BY <1>4, <2>2
  <2> QED
      BY <2>1, <2>2
<1>5. top = UpTo(i)
    BY <1>3, <1>11
<1>6. /\ buf' = IF fits THEN Glue(b, p) ELSE b
      /\ loc' = [frag |-> num + (IF fits THEN 1 ELSE 0), frame |-> f, size |-> lim,
                 offset |-> IF fits THEN top ELSE off]
    BY <1>1 DEF EOEtake
<1>7. fits <=> UpTo(i) <= Lower(lim, job.room)
    BY <1>5
<1> HIDE DEF fits, top, off, num, p
<1>8. (i - 1) + 1 = i /\ (i - 1) + 0 = i - 1
    BY <1>1
<1>9. CASE fits
    BY <1>3, <1>4, <1>5, <1>6, <1>7, <1>8, <1>9
<1>10. CASE ~fits
    BY <1>3, <1>4, <1>5, <1>6, <1>7, <1>8, <1>10
<1> QED
    BY <1>9, <1>10

LEMMA FragmentTaken ==
  ASSUME FrameInv, Unfinished, job.op \in Collectors, NEW m \in Answers, Receiving(job.op, m),
         NEW f \in {1, 2}, NEW i, FragmentIs(m, f, i), NEW b, NEW lim \in Nat,
         Before(b, f, i), i > 1 => b = buf /\ loc.offset = UpTo(i - 1) /\ loc.frag = i - 1,
         EOEtake(m, lim, b),
         job.op = "EOErecv" => lim = job.room /\ job.size <= job.room,
         job.op = "EOEreadfragment" => lim = Rounded(job.size)
  PROVE  FrameInv'
<1>0. /\ job \in Jobs /\ job.size \in Nat /\ job.room \in Nat /\ Length(buf) <= job.room /\ buf \in Bufs
      /\ Rounded(job.size) \in Nat /\ job.size <= Rounded(job.size)
    BY JobIs, RoundedIs DEF FrameInv, Base
<1>1. /\ i \in Nat /\ i > 0 /\ UpTo(i - 1) \in Nat /\ UpTo(i) \in Nat /\ UpTo(i - 1) < UpTo(i)
      /\ UpTo(i) <= job.size /\ m.last \in BOOLEAN
      /\ (m.last => UpTo(i) = job.size) /\ (~m.last => UpTo(i) < job.size)
    BY DEF FragmentIs
<1>2. job' = job
    BY DEF Receiving
<1>3. \A k : UpTo(k)' = UpTo(k)
    BY <1>2, FrameSteady
<1>4. /\ UpTo(i) <= Lower(lim, job.room) =>
           /\ buf' = UpToOf(f, i) /\ buf' \in Bufs /\ Length(buf') = UpTo(i)
           /\ loc' = [frag |-> i, frame |-> f, size |-> lim, offset |-> UpTo(i)]
      /\ ~(UpTo(i) <= Lower(lim, job.room)) =>
           /\ buf' = b
           /\ loc' = [frag |-> i - 1, frame |-> f, size |-> lim, offset |-> UpTo(i - 1)]
    BY <1>0, FragmentEffect
<1>5. /\ m.last => pc' = "done" /\ wkc' = 1 /\ req' = req
      /\ ~m.last => pc' = "receive" /\ wkc' = wkc /\ req' = req
    BY DEF EOEtake, Wait
<1>6. CASE UpTo(i) <= Lower(lim, job.room)
  <2>1. Length(buf') <= job.room /\ buf' \in Bufs
      BY <1>0, <1>1, <1>4, <1>6 DEF Lower
  <2>2. loc' = [frag |-> i, frame |-> f, size |-> lim, offset |-> UpTo(i)]
        /\ buf' = UpToOf(f, i)
      BY <1>4, <1>6
  <2>3. loc' \in [frag : Nat, frame : Nat, size : Nat, offset : Nat]
        /\ loc'.frag = i /\ loc'.frame = f /\ loc'.size = lim /\ loc'.offset = UpTo(i)
      BY <1>1, <2>2
  <2>4. CASE m.last
    <3>1. buf' = <<<<1000 * f, 1000 * f + job.size>>>>
        BY <1>1, <2>2, <2>4 DEF UpToOf
    <3> QED
        BY <1>5, <2>1, <2>3, <2>4, <3>1, FrameTaken
  <2>5. CASE ~m.last
    <3>1. UpTo(i) < job.size /\ UpTo(i)' = UpTo(i)
        BY <1>1, <1>3, <2>5
    <3>2. Assembled'
      <4>1. UpTo(loc.frag)' = UpTo(i)
          BY <2>3, <3>1 DEF UpTo, Cut, Lower
      <4>2. (buf = UpToOf(loc.frame, loc.frag))'
          BY <2>2, <2>3, <4>1 DEF UpToOf
      <4> QED
          BY <1>1, <1>2, <2>3, <3>1, <4>1, <4>2 DEF Assembled
    <3> QED
        BY <1>1, <1>5, <2>1, <2>3, <2>5, <3>2, FrameTaken
  <2> QED
      BY <1>1, <2>4, <2>5
<1>7. CASE ~(UpTo(i) <= Lower(lim, job.room))
  <2>1. job.op = "EOEreadfragment" /\ job.size > job.room
    <3>1. Lower(lim, job.room) \in {lim, job.room} /\ (job.size <= job.room => job.size <= Lower(lim, job.room))
      <4>1. job.op \in {"EOErecv", "EOEreadfragment"}
          BY DEF Collectors
      <4>2. job.size <= job.room => job.size <= lim
          BY <1>0, <4>1
      <4> QED
          BY <1>0, <4>2 DEF Lower
    <3>2. ~(job.size <= job.room)
        BY <1>0, <1>1, <1>7, <3>1
    <3> QED
        BY <1>0, <3>2 DEF Collectors
  <2>2. loc' = [frag |-> i - 1, frame |-> f, size |-> lim, offset |-> UpTo(i - 1)] /\ buf' = b
      BY <1>4, <1>7
  <2>3. loc' \in [frag : Nat, frame : Nat, size : Nat, offset : Nat] /\ i - 1 \in Nat
        /\ loc'.frag = i - 1 /\ loc'.frame = f /\ loc'.size = lim /\ loc'.offset = UpTo(i - 1)
      BY <1>1, <2>2
  <2>4. buf' \in Bufs /\ Length(buf') <= job.room
    <3>1. <<>> \in Bufs /\ Length(<<>>) = 0
        BY LengthEmpty DEF Bufs
    <3>2. b = <<>> \/ b = buf
        BY DEF Before
    <3> QED
        BY <1>0, <2>2, <3>1, <3>2
  <2>5. CASE m.last
      BY <1>5, <2>1, <2>3, <2>4, <2>5, FrameTaken
  <2>6. CASE ~m.last
    <3>1. UpTo(i - 1) < job.size
        BY <1>0, <1>1
    <3>2. Assembled'
      <4>1. UpTo(loc.frag)' = UpTo(i - 1)
        <5>1. UpTo(i - 1)' = UpTo(i - 1)
            BY <1>3
        <5> QED
            BY <2>3, <5>1 DEF UpTo, Cut, Lower
      <4>2. loc'.frag > 0 => buf' = UpToOf(f, i - 1)
          BY <1>1, <2>2, <2>3 DEF Before
      <4>3. loc'.frag > 0 => (buf = UpToOf(loc.frame, loc.frag))'
          BY <2>3, <4>1, <4>2 DEF UpToOf
      <4> QED
          BY <1>1, <1>2, <2>3, <3>1, <4>1, <4>3 DEF Assembled
    <3> QED
        BY <1>5, <2>1, <2>3, <2>4, <2>6, <3>2, FrameTaken
  <2> QED
      BY <1>1, <2>5, <2>6
<1> QED
    BY <1>6, <1>7

LEMMA FrameTake ==
  ASSUME FrameInv, Unfinished, job.op \in Collectors, StepOf(job.op)
  PROVE  FrameInv'
<1>0. /\ Base /\ Talk({Null}, EoeFrames) /\ job \in Jobs /\ buf \in Bufs /\ Length(buf) <= job.room
      /\ loc \in [frag : Nat, frame : Nat, size : Nat, offset : Nat]
      /\ pc = "receive" => Assembled
      /\ pc = "receive" /\ job.op = "EOErecv" =>
           IF loc.frag > 0 THEN job.size <= job.room ELSE buf = <<>>
      /\ pc = "receive" /\ job.op = "EOEreadfragment" /\ loc.frag > 0 => loc.size = Rounded(job.size)
    BY DEF FrameInv, Base
<1>1. /\ job.size \in Nat /\ job.room \in Nat /\ Rounded(job.size) \in Nat /\ job.size <= Rounded(job.size)
      /\ Null \notin EoeFrames
    BY <1>0, JobIs, RoundedIs, FrameSaid
<1>2. ASSUME NEW m \in Answers, Receiving(job.op, m), m # Null
      PROVE  \E f \in {1, 2}, i \in Nat : FragmentIs(m, f, i)
  <2>1. m \in EoeFrames
      BY <1>0, <1>1, <1>2, ReceiveStep
  <2>2. PICK f, i : FragmentIs(m, f, i)
      BY <1>0, <2>1, FrameSaid
  <2> QED
      BY <2>2 DEF FragmentIs
<1>3. ASSUME NEW m \in Answers, Receiving(job.op, m), NEW w \in {0, -1}, Return(w), Keep PROVE FrameInv'
  <2>1. pc' = "done" /\ wkc' = w /\ req' = req /\ loc' = loc /\ buf' = buf /\ ~(w > 0) /\ w \in Int
      BY <1>3 DEF Return, Keep
  <2> QED
      BY <1>0, <1>3, <2>1, FrameTaken
<1>4. CASE job.op = "EOErecv"
  <2>1. PICK m \in Answers :
           /\ Receiving("EOErecv", m)
           /\ \/ m # Null /\ EOEinTurn(m) /\ EOEtake(m, job.room, buf)
              \/ m # Null /\ ~EOEinTurn(m) /\ Return(-1) /\ Keep
              \/ m = Null /\ Return(0) /\ Keep
      BY <1>4 DEF StepOf, EOErecv
  <2>2. CASE m # Null /\ EOEinTurn(m) /\ EOEtake(m, job.room, buf)
    <3>1. PICK f \in {1, 2}, i \in Nat : FragmentIs(m, f, i)
        BY <1>2, <1>4, <2>1, <2>2
    <3>2. /\ i > 0 /\ m.frag = i - 1 /\ m.frame = f /\ UpTo(i - 1) \in Nat
          /\ (i = 1 => m.offset = Rounded(job.size)) /\ (i # 1 => m.offset = UpTo(i - 1))
        BY <3>1 DEF FragmentIs
    <3>3. pc = "receive" /\ loc.frag \in Nat
        BY <1>0, <2>1 DEF Receiving
    <3>4. /\ m.frag \in {0, loc.frag}
          /\ loc.frag = 0 => m.offset <= job.room
          /\ loc.frag # 0 => m.frame = loc.frame /\ m.offset = loc.offset
        BY <2>2 DEF EOEinTurn, Continues
    <3>5. CASE loc.frag = 0
      <4>1. i = 1 /\ buf = <<>>
          BY <1>0, <1>4, <3>2, <3>3, <3>4, <3>5
      <4>2. job.size <= job.room
          BY <1>1, <3>2, <3>4, <3>5, <4>1
      <4>3. Before(buf, f, i)
          BY <4>1 DEF Before
      <4> QED
          BY <1>1, <1>4, <2>1, <2>2, <3>1, <4>1, <4>2, <4>3, FragmentTaken
    <3>6. CASE loc.frag # 0
      <4>1. /\ loc.offset = UpTo(loc.frag) /\ UpTo(loc.frag) < job.size /\ UpTo(loc.frag) \in Nat
            /\ buf = UpToOf(loc.frame, loc.frag) /\ job.size <= job.room
          BY <1>0, <1>4, <3>3, <3>6 DEF Assembled
      <4>2. i # 1
          BY <1>1, <3>2, <3>4, <3>6, <4>1
      <4>3. loc.frag = i - 1 /\ i > 1 /\ loc.frame = f
          BY <3>2, <3>3, <3>4, <3>6, <4>2
      <4>4. Before(buf, f, i) /\ loc.offset = UpTo(i - 1)
          BY <4>1, <4>3 DEF Before
      <4> QED
          BY <1>1, <1>4, <2>1, <2>2, <3>1, <4>1, <4>3, <4>4, FragmentTaken
    <3> QED
        BY <3>5, <3>6
  <2>3. CASE Return(-1) /\ Keep
    <3>1. -1 \in {0, -1}
        OBVIOUS
    <3> QED
        BY <1>3, <1>4, <2>1, <2>3, <3>1
  <2>4. CASE Return(0) /\ Keep
    <3>1. 0 \in {0, -1}
        OBVIOUS
    <3> QED
        BY <1>3, <1>4, <2>1, <2>4, <3>1
  <2> QED
      BY <2>1, <2>2, <2>3, <2>4
<1>5. CASE job.op = "EOEreadfragment"
  <2>1. PICK m \in Answers :
           /\ Receiving("EOEreadfragment", m)
           /\ LET fresh == m # Null /\ m.kind = "eoe" /\ m.frag = 0
                  next == m # Null /\ m.kind = "eoe" /\ m.frag > 0 /\ m.frag = loc.frag /\ Continues(m)
              IN \/ fresh /\ EOEtake(m, m.offset, <<>>)
                 \/ next /\ EOEtake(m, loc.size, buf)
                 \/ m # Null /\ ~fresh /\ ~next /\ loc' = EOEloc /\ Wait /\ Keep
                 \/ m = Null /\ Return(0) /\ Keep
      BY <1>5 DEF StepOf, EOEreadfragment
  <2>2. pc = "receive" /\ loc.frag \in Nat /\ Receiving(job.op, m)
      BY <1>0, <1>5, <2>1 DEF Receiving
  <2>3. CASE m # Null /\ m.frag = 0 /\ EOEtake(m, m.offset, <<>>)
    <3>1. PICK f \in {1, 2}, i \in Nat : FragmentIs(m, f, i)
        BY <1>2, <2>2, <2>3
    <3>2. i = 1 /\ m.offset = Rounded(job.size)
        BY <2>3, <3>1 DEF FragmentIs
    <3>3. Before(<<>>, f, i)
        BY <3>2 DEF Before
    <3>4. EOEtake(m, Rounded(job.size), <<>>)
        BY <2>3, <3>2
    <3> DEFINE b == <<>>
    <3>5. Before(b, f, i) /\ EOEtake(m, Rounded(job.size), b) /\ ~(i > 1)
        BY <3>2, <3>3, <3>4
    <3> HIDE DEF b
    <3> QED
        BY <1>1, <1>5, <2>2, <3>1, <3>5, FragmentTaken
  <2>4. CASE m # Null /\ m.frag > 0 /\ m.frag = loc.frag /\ Continues(m) /\ EOEtake(m, loc.size, buf)
    <3>1. PICK f \in {1, 2}, i \in Nat : FragmentIs(m, f, i)
        BY <1>2, <2>2, <2>4
    <3>2. m.frag = i - 1 /\ m.frame = f
        BY <3>1 DEF FragmentIs
    <3>3. i > 1 /\ loc.frag = i - 1 /\ loc.frag > 0 /\ loc.frame = f
        BY <2>4, <3>2 DEF Continues
    <3>4. loc.offset = UpTo(i - 1) /\ buf = UpToOf(f, i - 1) /\ loc.size = Rounded(job.size)
        BY <1>0, <1>5, <2>2, <3>3 DEF Assembled
    <3>5. Before(buf, f, i) /\ EOEtake(m, Rounded(job.size), buf)
        BY <2>4, <3>3, <3>4 DEF Before
    <3> QED
        BY <1>1, <1>5, <2>2, <3>1, <3>3, <3>4, <3>5, FragmentTaken
  <2>5. CASE loc' = EOEloc /\ Wait /\ Keep
    <3>1. loc' \in [frag : Nat, frame : Nat, size : Nat, offset : Nat] /\ loc'.frag = 0
        BY <2>5 DEF EOEloc
    <3>2. Assembled' /\ ~(loc'.frag > 0)
        BY <3>1 DEF Assembled
    <3>3. pc' = "receive" /\ wkc' = wkc /\ req' = req /\ buf' = buf
        BY <2>5 DEF Wait, Keep
    <3> QED
        BY <1>0, <1>5, <2>2, <3>1, <3>2, <3>3, FrameTaken
  <2>6. CASE Return(0) /\ Keep
    <3>1. 0 \in {0, -1}
        OBVIOUS
    <3> QED
        BY <1>3, <2>2, <2>6, <3>1
  <2> QED
      BY <2>1, <2>3, <2>4, <2>5, <2>6
<1> QED
    BY <1>4, <1>5 DEF Collectors

-----------------------------------------------------------------------------
(* ecx_SDOread.  First is the length of the first answer's data.           *)
First == Lower(job.size, IF job.size <= 4 THEN 4 ELSE job.rl - 16)

FirstAnswers == {m \in Uploadeds : Span(m.piece) = First}

(* The request of an earlier download, and the answer to it.               *)
LateAsk == {r \in {DownloadOther} : job.early = r}
LateTell == {m \in Downloadeds : job.early = DownloadOther}

SdoReadAsk == Uploads \cup UploadSegments \cup LateAsk
SdoReadTell == FirstAnswers \cup Segments \cup {Abort} \cup LateTell

(* The answer that waits to be posted, and the bytes a segment carries.    *)
Posting == IF dev.todo = <<>> THEN Null ELSE Head(dev.todo)
Carried(m) == IF m \in Segments THEN Span(m.piece) ELSE 0

(* The segments under way end where the slave has got to, which is never   *)
(* beyond the end of the object; an upload that is still in the slave's    *)
(* mailbox came before every request of a segment.                         *)
SdoReadBounds ==
  /\ Len(dev.todo) <= 1 /\ dev.at <= job.size /\ (~alive => inbox = Null)
  /\ Length(buf) + Carried(inbox) + Carried(Posting) <= dev.at /\ Length(buf) <= job.room
  /\ inbox \in FirstAnswers \/ Posting \in FirstAnswers => First <= dev.at
  /\ outbox \in Uploads => inbox \notin Segments /\ Posting \notin Segments /\ Length(buf) <= First
  /\ loc.segment => req \in UploadSegments /\ job.size <= job.room /\ pc # "purge"
  /\ ~loc.segment => /\ req = Upload(1) /\ outbox \notin UploadSegments
                     /\ inbox \notin Segments /\ Posting \notin Segments
                     /\ pc \notin Over => buf = <<>>

(* The answer to the call's own request is the only one of its index, and  *)
(* nothing comes behind it before it is taken.                             *)
IsOwn(m) == m \in FirstAnswers /\ m.index = "x"

OwnIsRight ==
  /\ outbox \in Uploads /\ outbox.index = "x" => outbox.sub = 1 /\ pc \notin {"purge", "send"}
  /\ IsOwn(inbox) \/ IsOwn(Posting) =>
       outbox = Null /\ dev.at = First /\ dev.base = 0 /\ pc \notin {"purge", "send"}
  /\ IsOwn(inbox) => inbox.piece = <<0, First>> /\ dev.todo = <<>>
  /\ IsOwn(Posting) => Posting.piece = <<0, First>>

(* The segments under way follow each other without a hole.                *)
Runs(m, x, y) ==
  /\ m \notin FirstAnswers
  /\ m \in Segments => m.piece = <<x, y>> /\ (m.last => y = job.size)
  /\ m \notin Segments => x = y

Chain(e, f) ==
  /\ dev.base = 0 /\ outbox \notin Uploads /\ e <= f /\ f <= dev.at
  /\ buf = Entire(e) /\ Runs(inbox, e, f) /\ Runs(Posting, f, dev.at)

Ordered == ~Mistaken /\ ~missed /\ alive /\ loc.segment /\ pc \notin Over

SdoReadInv ==
  /\ Base /\ Talk(SdoReadAsk, SdoReadTell)
  /\ loc \in [segment : BOOLEAN, toggle : BOOLEAN] /\ pc # "empty"
  /\ SdoReadBounds
  /\ ~Mistaken /\ pc \notin Over /\ ~loc.segment => OwnIsRight
  /\ Ordered => \E e, f \in 0 .. job.size : Chain(e, f)
  /\ wkc > 0 => buf = Entire(job.size) \/ (missed /\ loc.segment) \/ Mistaken

LEMMA FirstIs ==
  ASSUME job \in Jobs
  PROVE  First \in Nat /\ First <= job.size
BY JobIs DEF First, Lower

LEMMA LateSaid ==
  ASSUME job \in Jobs
  PROVE  /\ LateAsk \subseteq Said /\ LateTell \subseteq Said
         /\ \A q \in LateAsk : q = DownloadOther /\ q.kind = "download"
         /\ \A m \in LateTell : m.kind = "downloaded" /\ Mistaken
<1>1. Null \notin Messages(Nat \X Nat)
    BY JobsAssumption
<1>2. DownloadOther.kind = "download" /\ DownloadOther.index = "x" /\ DownloadOther.sub = 1
    BY DEF DownloadOther
<1>3. DownloadOther \in [kind : {"download"}, index : {"x", "y"}, sub : 0 .. 255, size : Nat, piece : Nat \X Nat]
    BY DEF DownloadOther
<1>4. DownloadOther # Null
  <2> DEFINE W == Nat \X Nat
  <2>1. DownloadOther \in [kind : {"download"}, index : {"x", "y"}, sub : 0 .. 255, size : Nat, piece : W]
      BY <1>3
  <2> HIDE DEF W
  <2>2. DownloadOther \in ec_SDOt(W)
      BY <2>1, ZenonT(60) DEF ec_SDOt
  <2>3. DownloadOther \in Messages(W)
      BY <2>2 DEF Messages
  <2> QED
      BY <1>1, <2>3 DEF W
<1>5. ASSUME job.early = DownloadOther PROVE job.size > 0
  <2>1. DownloadOther \notin {Upload(1), Upload(2), UploadOther}
      BY <1>2 DEF Upload, UploadOther
  <2> QED
      BY <1>4, <1>5, <2>1, JobHas
<1>6. ASSUME job.early = DownloadOther PROVE DownloadOther \in Said
  <2>1. job.size \in Nat /\ job.size > 0
      BY <1>5, <1>6, JobIs
  <2>2. 1000 % 1000 = 0 /\ Span(<<1000, 1001>>) = 1
      BY DEF Span
  <2>3. <<1000, 1001>> \in Piece
      BY <2>1, <2>2 DEF Piece
  <2> DEFINE P == Piece
  <2>4. DownloadOther \in [kind : {"download"}, index : {"x", "y"}, sub : 0 .. 255, size : Nat, piece : P]
      BY <2>3 DEF DownloadOther
  <2> HIDE DEF P
  <2>5. DownloadOther \in ec_SDOt(P)
      BY <2>4, ZenonT(60) DEF ec_SDOt
  <2> QED
      BY <2>5 DEF Said, Messages, P
<1>7. Downloadeds \subseteq Said
    BY CoeSaid
<1>8. \A m \in Downloadeds : m.kind = "downloaded"
    BY DEF Downloadeds
<1>9. job.early = DownloadOther => Mistaken
    BY <1>2, <1>4 DEF Mistaken
<1> QED
    BY <1>2, <1>6, <1>7, <1>8, <1>9 DEF LateAsk, LateTell

LEMMA SdoReadSaid ==
  ASSUME job \in Jobs
  PROVE  /\ SdoReadAsk \subseteq Said /\ SdoReadTell \subseteq Said
         /\ Null \notin SdoReadAsk /\ Null \notin SdoReadTell
         /\ Null \notin Uploads /\ Null \notin UploadSegments /\ Null \notin FirstAnswers /\ Null \notin Segments
         /\ Abort \in SdoReadTell /\ Abort.kind = "abort" /\ Abort \notin FirstAnswers /\ Abort \notin Segments
         /\ \A m \in Uploads : m.kind = "upload"
         /\ \A m \in UploadSegments : m.kind = "upload segment"
         /\ \A m \in FirstAnswers : m.kind \in {"expedited", "normal"}
         /\ \A m \in Segments : m.kind = "segment"
         /\ \A m \in LateTell : m.kind = "downloaded" /\ m \notin FirstAnswers /\ m \notin Segments
         /\ \A q \in LateAsk : q = DownloadOther /\ q.kind = "download"
         /\ Upload(1) \in Uploads
<1>1. Abort \in Said /\ Abort.kind = "abort"
    BY ServiceSaid DEF Abort, Word
<1>2. Uploads \subseteq Said /\ UploadSegments \subseteq Said /\ Uploadeds \subseteq Said /\ Segments \subseteq Said
    BY CoeSaid
<1>3. FirstAnswers \subseteq Said
    BY <1>2 DEF FirstAnswers
<1>4. /\ \A m \in Uploads : m.kind = "upload"
      /\ \A m \in UploadSegments : m.kind = "upload segment"
      /\ \A m \in Segments : m.kind = "segment"
    BY DEF Uploads, UploadSegments, Segments
<1>5. \A m \in FirstAnswers : m.kind \in {"expedited", "normal"}
    BY DEF FirstAnswers, Uploadeds
<1>6. Upload(1) \in Uploads
    BY DEF Upload, Uploads
<1>7. Null \notin Said
    BY NullUnsaid
<1>8. Abort \notin FirstAnswers /\ Abort \notin Segments
    BY <1>1, <1>4, <1>5
<1>9. /\ LateAsk \subseteq Said /\ LateTell \subseteq Said
      /\ \A q \in LateAsk : q = DownloadOther /\ q.kind = "download"
      /\ \A m \in LateTell : m.kind = "downloaded"
    BY LateSaid
<1>10. \A m \in LateTell : m \notin FirstAnswers /\ m \notin Segments
    BY <1>4, <1>5, <1>9
<1> QED
    BY <1>1, <1>2, <1>3, <1>4, <1>5, <1>6, <1>7, <1>8, <1>9, <1>10 DEF SdoReadAsk, SdoReadTell

LEMMA SdoReadSteady ==
  ASSUME job' = job
  PROVE  /\ SdoReadAsk' = SdoReadAsk /\ SdoReadTell' = SdoReadTell
         /\ First' = First /\ FirstAnswers' = FirstAnswers /\ Segments' = Segments
         /\ Uploads' = Uploads /\ UploadSegments' = UploadSegments /\ (Mistaken' <=> Mistaken)
         /\ \A m : Carried(m)' = Carried(m)
<1>1. First' = First /\ Piece' = Piece
    BY DEF First, Piece
<1>2. Segments' = Segments /\ Uploadeds' = Uploadeds /\ Uploads' = Uploads /\ UploadSegments' = UploadSegments
    BY <1>1 DEF Segments, Uploadeds, Uploads, UploadSegments
<1>3. FirstAnswers' = FirstAnswers
    BY <1>1, <1>2 DEF FirstAnswers
<1>4. Mistaken' <=> Mistaken
    BY DEF Mistaken
<1>5. LateAsk' = LateAsk /\ LateTell' = LateTell
    BY DEF LateAsk, LateTell, Downloadeds
<1> QED
    BY <1>1, <1>2, <1>3, <1>4, <1>5 DEF SdoReadAsk, SdoReadTell, Abort, Carried

Bases == {0, 1000}
Moved(d, b, z, t) == [d EXCEPT !.base = b, !.at = z, !.toggle = t]
Advanced(d, z, t) == [d EXCEPT !.at = z, !.toggle = t]

LEMMA AdvanceIs ==
  ASSUME NEW d \in DevSet, NEW z \in Nat, NEW t \in BOOLEAN
  PROVE  /\ Advanced(d, z, t) \in DevSet /\ Advanced(d, z, t).at = z
         /\ Advanced(d, z, t).base = d.base /\ Advanced(d, z, t).todo = d.todo
<1> DEFINE d1 == [d EXCEPT !.at = z]
           d2 == [d1 EXCEPT !.toggle = t]
<1>1. Advanced(d, z, t) = d2
    BY DEF DevSet, Advanced
<1>2. d1 \in DevSet /\ d1.at = z /\ d1.base = d.base /\ d1.todo = d.todo
    BY DEF DevSet
<1> HIDE DEF d1
<1>3. d2 \in DevSet /\ d2.at = z /\ d2.base = d.base /\ d2.todo = d.todo
    BY <1>2 DEF DevSet
<1> QED
    BY <1>1, <1>3

LEMMA MoveIs ==
  ASSUME NEW d \in DevSet, NEW b \in Bases, NEW z \in Nat, NEW t \in BOOLEAN
  PROVE  /\ Moved(d, b, z, t) \in DevSet /\ Moved(d, b, z, t).at = z /\ Moved(d, b, z, t).base = b
         /\ Moved(d, b, z, t).todo = d.todo
<1> DEFINE d1 == [d EXCEPT !.base = b]
           d2 == Advanced(d1, z, t)
<1>1. Moved(d, b, z, t) = d2
    BY DEF DevSet, Moved, Advanced
<1>2. d1 \in DevSet /\ d1.base = b /\ d1.todo = d.todo
    BY DEF DevSet, Bases
<1> HIDE DEF d1
<1>3. d2 \in DevSet /\ d2.at = z /\ d2.base = d1.base /\ d2.todo = d1.todo
    BY <1>2, AdvanceIs
<1> QED
    BY <1>1, <1>2, <1>3

-----------------------------------------------------------------------------
(* What the slave answers. *)
LEMMA UploadedIs ==
  ASSUME job \in Jobs, dev \in DevSet, NEW r \in Uploads
  PROVE  /\ Uploaded(r) \in DevSet /\ Uploaded(r).at = First
         /\ \E m \in FirstAnswers :
              /\ Uploaded(r).todo = <<m>> /\ m.index = r.index
              /\ r.index = "x" /\ r.sub = 1 => Uploaded(r).base = 0 /\ m.piece = <<0, First>>
<1> DEFINE w == IF r.index = "x" /\ r.sub = 1 THEN 0 ELSE 1000
           n == First
           m == [kind |-> IF job.size <= 4 THEN "expedited" ELSE "normal", index |-> r.index,
                 sub |-> r.sub, size |-> job.size, piece |-> <<w, w + n>>]
           q == Reply(m)
<1>1. n \in Nat /\ n <= job.size /\ job.size \in Nat
    BY FirstIs, JobIs
<1>2. w \in {0, 1000} /\ r.index \in {"x", "y"} /\ r.sub \in 0 .. 255
    BY DEF Uploads
<1>3. Uploaded(r) = Moved(q, w, n, FALSE)
    BY DEF Uploaded, Moved, First
<1>9. r.index = "x" /\ r.sub = 1 => w = 0
    OBVIOUS
<1> HIDE DEF w, n
<1>4. <<w, w + n>> \in Piece /\ Span(<<w, w + n>>) = n
  <2>1. 0 \in Nat /\ 0 <= n /\ w \in {0, 1000, 2000} /\ w + 0 = w
      BY <1>1, <1>2
  <2>2. <<w + 0, w + n>> \in Piece
      BY <1>1, <2>1, ShiftIs
  <2> QED
      BY <1>1, <1>2, <2>1, <2>2 DEF Span
<1>5. m \in Uploadeds
    BY <1>2, <1>4 DEF Uploadeds
<1>6. m \in FirstAnswers /\ m.index = r.index /\ m.piece = <<w, w + n>>
    BY <1>4, <1>5 DEF FirstAnswers, n
<1>7. m \in Said
    BY <1>6, SdoReadSaid DEF SdoReadTell
<1> HIDE DEF m
<1>8. q \in DevSet /\ q.todo = <<m>>
    BY <1>7, ReplyIs
<1> HIDE DEF q
<1>10. ASSUME NEW u \in BOOLEAN
       PROVE  /\ Moved(q, w, n, u) \in DevSet /\ Moved(q, w, n, u).at = n
              /\ Moved(q, w, n, u).base = w /\ Moved(q, w, n, u).todo = q.todo
  <2>1. q \in DevSet /\ n \in Nat /\ w \in Bases
      BY <1>1, <1>2, <1>8 DEF Bases
  <2>2. Moved(q, w, n, u) \in DevSet
      BY <2>1, MoveIs
  <2>3. Moved(q, w, n, u).at = n
      BY <2>1, MoveIs
  <2>4. Moved(q, w, n, u).base = w
      BY <2>1, MoveIs
  <2>5. Moved(q, w, n, u).todo = q.todo
      BY <2>1, MoveIs
  <2> QED
      BY <2>2, <2>3, <2>4, <2>5
<1>12. FALSE \in BOOLEAN
    OBVIOUS
<1>11. w = 0 => m.piece = <<0, n>>
    BY <1>1, <1>6
<1> QED
    BY <1>3, <1>6, <1>8, <1>9, <1>10, <1>11, <1>12 DEF n

LEMMA UploadedSegmentIs ==
  ASSUME job \in Jobs, dev \in DevSet, dev.at <= job.size, NEW r \in UploadSegments
  PROVE  LET d == UploadedSegment(r) IN
         /\ d \in DevSet /\ d.base = dev.base
         /\ \/ d.todo = <<Abort>> /\ d.at = dev.at
            \/ \E m \in Segments :
                 /\ d.todo = <<m>> /\ d.at = dev.at + Span(m.piece) /\ d.at <= job.size
                 /\ m.piece = <<dev.base + dev.at, dev.base + d.at>>
                 /\ m.last => d.at = job.size
<1>1. CASE r.toggle # dev.toggle
  <2>1. Abort \in Said
      BY SdoReadSaid DEF SdoReadTell
  <2>2. Reply(Abort) \in DevSet /\ Reply(Abort).todo = <<Abort>> /\ SameDevice(Reply(Abort))
      BY <2>1, ReplyIs
  <2>3. UploadedSegment(r) = Reply(Abort)
      BY <1>1 DEF UploadedSegment
  <2> QED
      BY <2>2, <2>3 DEF SameDevice
<1>2. CASE r.toggle = dev.toggle
  <2> DEFINE n == Lower(job.size - dev.at, job.rl - 9)
             e == dev.at + n
             m == [kind |-> "segment", last |-> dev.at + n = job.size,
                   piece |-> <<dev.base + dev.at, dev.base + dev.at + n>>]
             q == Reply(m)
             u == ~q.toggle
  <2>1. /\ dev.at \in Nat /\ dev.base \in {0, 1000} /\ job.size \in Nat /\ n \in Nat
        /\ e \in Nat /\ dev.at <= e /\ e <= job.size
    <3>1. dev.at \in Nat /\ dev.base \in {0, 1000}
        BY DEF DevSet
    <3>2. job.size \in Nat /\ job.rl \in Nat /\ job.rl >= 16
        BY JobIs
    <3>3. n \in Nat /\ n <= job.size - dev.at
        BY <3>1, <3>2 DEF Lower
    <3> QED
        BY <3>1, <3>2, <3>3
  <2>2. UploadedSegment(r) = [q EXCEPT !.at = @ + n, !.toggle = ~@]
      BY <1>2 DEF UploadedSegment
  <2>10. m = [kind |-> "segment", last |-> e = job.size, piece |-> <<dev.base + dev.at, dev.base + dev.at + n>>]
      OBVIOUS
  <2>11. dev.base + dev.at + n = dev.base + e
      BY <2>1
  <2>12. e = dev.at + n
      OBVIOUS
  <2> HIDE DEF n, e
  <2>3. <<dev.base + dev.at, dev.base + e>> \in Piece /\ Span(<<dev.base + dev.at, dev.base + e>>) = n
    <3>1. PICK a \in Nat : a = dev.at
        BY <2>1
    <3>2. PICK w \in {0, 1000, 2000} : w = dev.base
        BY <2>1
    <3>3. a <= e /\ e <= job.size
        BY <2>1, <3>1
    <3>6. <<dev.base + a, dev.base + e>> \in Piece
        BY <2>1, <3>2, <3>3, ShiftIs
    <3>7. Span(<<dev.base + a, dev.base + e>>) = n
      <4>1. Span(<<dev.base + a, dev.base + e>>) = (dev.base + e) - (dev.base + a)
          BY DEF Span
      <4>2. n \in Nat /\ e = a + n /\ dev.base \in Nat
          BY <2>1, <2>12, <3>1
      <4> QED
          BY <4>1, <4>2
    <3> QED
        BY <3>1, <3>6, <3>7
  <2>4. /\ m \in Segments /\ m.piece = <<dev.base + dev.at, dev.base + e>> /\ (m.last => e = job.size)
        /\ Span(m.piece) = n
    <3>1. (e = job.size) \in BOOLEAN
        OBVIOUS
    <3>2. ASSUME NEW l \in BOOLEAN
          PROVE  [kind |-> "segment", last |-> l, piece |-> <<dev.base + dev.at, dev.base + e>>] \in Segments
        BY <2>3, <3>2 DEF Segments
    <3> QED
        BY <2>3, <2>10, <2>11, <3>1, <3>2
  <2>5. m \in Said
      BY <2>4, SdoReadSaid DEF SdoReadTell
  <2> HIDE DEF m
  <2>6. q \in DevSet /\ q.todo = <<m>> /\ q.at = dev.at /\ q.base = dev.base
      BY <2>5, ReplyIs DEF SameDevice
  <2>7. UploadedSegment(r) = Advanced(q, e, u)
      BY <2>2, <2>6, <2>12 DEF Advanced, DevSet
  <2>8. u \in BOOLEAN
      OBVIOUS
  <2> HIDE DEF q, u
  <2>9. /\ Advanced(q, e, u) \in DevSet /\ Advanced(q, e, u).at = e /\ Advanced(q, e, u).base = q.base
        /\ Advanced(q, e, u).todo = q.todo
    <3>1. u \in BOOLEAN /\ q \in DevSet /\ e \in Nat
        BY <2>1, <2>6, <2>8
    <3>2. Advanced(q, e, u) \in DevSet
        BY <3>1, AdvanceIs
    <3>3. Advanced(q, e, u).at = e
        BY <3>1, AdvanceIs
    <3>4. Advanced(q, e, u).base = q.base
        BY <3>1, AdvanceIs
    <3>5. Advanced(q, e, u).todo = q.todo
        BY <3>1, AdvanceIs
    <3> QED
        BY <3>2, <3>3, <3>4, <3>5
  <2> QED
      BY <2>1, <2>4, <2>6, <2>7, <2>9, <2>12
<1> QED
    BY <1>1, <1>2

LEMMA CarriedIs ==
  ASSUME job \in Jobs, NEW m
  PROVE  Carried(m) \in Nat /\ (m \notin Segments => Carried(m) = 0)
<1>1. CASE m \in Segments
  <2>1. m.piece \in Piece
      BY <1>1 DEF Segments
  <2> QED
      BY <1>1, <2>1, PieceType DEF Carried
<1>2. CASE m \notin Segments
    BY <1>2 DEF Carried
<1> QED
    BY <1>1, <1>2

LEMMA LengthIsInt ==
  ASSUME NEW b \in Bufs
  PROVE  Length(b) \in Int
<1>1. <<0, 0>> \in Int \X Int
    OBVIOUS
<1> QED
    BY <1>1, LengthAppend

LEMMA SdoReadPurge ==
  ASSUME SdoReadInv, job.op = "SDOread", Purge
  PROVE  SdoReadInv'
<1> DEFINE A == SdoReadAsk
           T == SdoReadTell
<1>0. /\ Base /\ Talk(A, T) /\ job \in Jobs /\ buf \in Bufs /\ dev \in DevSet
      /\ SdoReadBounds /\ (~Mistaken /\ pc \notin Over /\ ~loc.segment => OwnIsRight)
      /\ loc \in [segment : BOOLEAN, toggle : BOOLEAN]
      /\ (wkc > 0 => buf = Entire(job.size) \/ (missed /\ loc.segment) \/ Mistaken)
    BY DEF SdoReadInv, Base
<1> HIDE DEF A, T
<1>1. /\ Base' /\ req' \in A /\ outbox' \in A \cup {Null} /\ inbox' \in T \cup {Null}
      /\ dev'.todo \in Seq(T)
      /\ pc = "purge" /\ pc' = "send" /\ inbox' \in {inbox, Null}
      /\ UNCHANGED <<job, req, loc, buf, wkc, outbox, dev, alive, missed, late, unsent>>
    BY <1>0, PurgeStep
<1>2. /\ A' = A /\ T' = T /\ First' = First /\ FirstAnswers' = FirstAnswers /\ Segments' = Segments
      /\ Uploads' = Uploads /\ UploadSegments' = UploadSegments /\ (Mistaken' <=> Mistaken)
      /\ (\A m : Carried(m)' = Carried(m)) /\ Posting' = Posting
    BY <1>1, SdoReadSteady DEF A, T, Posting
<1>3. Null \notin Segments /\ Null \notin FirstAnswers
    BY <1>0, SdoReadSaid
<1>4. ~loc.segment
    BY <1>0, <1>1 DEF SdoReadBounds
<1>5. /\ Carried(inbox) \in Nat /\ Carried(Null) = 0 /\ Carried(Posting) \in Nat /\ Length(buf) \in Int
      /\ dev.at \in Nat
  <2>1. Length(buf) \in Int
      BY <1>0, LengthIsInt
  <2>2. dev.at \in Nat
      BY <1>0 DEF DevSet
  <2> QED
      BY <1>0, <1>3, <2>1, <2>2, CarriedIs
<1>6. SdoReadBounds'
  <2>1. Carried(inbox)' \in {Carried(inbox), Carried(Null)} /\ Carried(Posting)' = Carried(Posting)
    <3>1. Carried(inbox)' = Carried(inbox')
        BY <1>2 DEF Carried
    <3> QED
        BY <1>1, <1>2, <3>1 DEF Carried
  <2>2. Length(buf') + Carried(inbox)' + Carried(Posting)' <= dev'.at
    <3>1. Length(buf) + Carried(inbox) + Carried(Posting) <= dev.at /\ Length(buf') = Length(buf) /\ dev' = dev
        BY <1>0, <1>1 DEF SdoReadBounds
    <3> QED
        BY <1>5, <2>1, <3>1
  <2> QED
      BY <1>0, <1>1, <1>2, <1>3, <1>4, <2>2 DEF SdoReadBounds
<1>7. ~Mistaken' => OwnIsRight'
    BY <1>0, <1>1, <1>2, <1>3, <1>4 DEF OwnIsRight, IsOwn
<1>8. Talk(A, T)'
    BY <1>1, <1>2 DEF Talk
<1> QED
    BY <1>0, <1>1, <1>2, <1>4, <1>6, <1>7, <1>8 DEF SdoReadInv, Ordered, A, T

LEMMA SdoReadFacts ==
  ASSUME SdoReadInv
  PROVE  /\ Base /\ Talk(SdoReadAsk, SdoReadTell) /\ job \in Jobs /\ buf \in Bufs /\ dev \in DevSet
         /\ SdoReadBounds /\ (~Mistaken /\ pc \notin Over /\ ~loc.segment => OwnIsRight)
         /\ loc \in [segment : BOOLEAN, toggle : BOOLEAN]
         /\ Carried(inbox) \in Nat /\ Carried(Null) = 0 /\ Carried(Posting) \in Nat
         /\ Length(buf) \in Int /\ dev.at \in Nat /\ dev.todo \in Seq(Said)
         /\ SdoReadAsk \subseteq Said /\ SdoReadTell \subseteq Said
         /\ Null \notin SdoReadAsk /\ Null \notin SdoReadTell
         /\ Null \notin Segments /\ Null \notin FirstAnswers
<1>0. /\ Base /\ Talk(SdoReadAsk, SdoReadTell) /\ job \in Jobs /\ buf \in Bufs /\ dev \in DevSet
      /\ SdoReadBounds /\ (~Mistaken /\ pc \notin Over /\ ~loc.segment => OwnIsRight)
      /\ loc \in [segment : BOOLEAN, toggle : BOOLEAN]
    BY DEF SdoReadInv, Base
<1>3. /\ Null \notin Segments /\ Null \notin FirstAnswers
      /\ Null \notin SdoReadAsk /\ Null \notin SdoReadTell
      /\ SdoReadAsk \subseteq Said /\ SdoReadTell \subseteq Said
    BY <1>0, SdoReadSaid
<1>4. Length(buf) \in Int
    BY <1>0, LengthIsInt
<1>5. dev.at \in Nat /\ dev.todo \in Seq(Said)
    BY <1>0 DEF DevSet
<1> QED
    BY <1>0, <1>3, <1>4, <1>5, CarriedIs

LEMMA SdoReadPost ==
  ASSUME SdoReadInv, job.op = "SDOread", PostNext
  PROVE  SdoReadInv'
<1> DEFINE A == SdoReadAsk
           T == SdoReadTell
<1>0. /\ Base /\ Talk(A, T) /\ job \in Jobs /\ SdoReadBounds /\ pc # "empty"
      /\ (~Mistaken /\ pc \notin Over /\ ~loc.segment => OwnIsRight)
      /\ (Ordered => \E e, f \in 0 .. job.size : Chain(e, f))
      /\ loc \in [segment : BOOLEAN, toggle : BOOLEAN]
      /\ (wkc > 0 => buf = Entire(job.size) \/ (missed /\ loc.segment) \/ Mistaken)
      /\ Carried(inbox) \in Nat /\ Carried(Null) = 0 /\ Carried(Posting) \in Nat
      /\ Length(buf) \in Int /\ dev.at \in Nat /\ T \subseteq Said
      /\ Null \notin Segments /\ Null \notin FirstAnswers
    BY SdoReadFacts DEF SdoReadInv
<1> HIDE DEF A, T
<1>1. /\ Base' /\ req' \in A /\ outbox' \in A \cup {Null} /\ inbox' \in T \cup {Null}
      /\ dev'.todo \in Seq(T)
      /\ alive /\ inbox = Null /\ dev.todo # <<>>
      /\ inbox' = Head(dev.todo) /\ inbox' \in T
      /\ dev'.todo = Tail(dev.todo) /\ Len(dev.todo) \in Nat \ {0} /\ Len(dev'.todo) = Len(dev.todo) - 1
      /\ SameDevice(dev')
      /\ UNCHANGED <<job, callVars, outbox, alive, faults, missed, late, unsent>>
    BY <1>0, PostStep
<1>2. UNCHANGED <<job, pc, req, loc, buf, wkc, outbox, alive, missed>> /\ dev'.at = dev.at /\ dev'.base = dev.base
    BY <1>1 DEF callVars, SameDevice
<1>3. /\ A' = A /\ T' = T /\ First' = First /\ FirstAnswers' = FirstAnswers /\ Segments' = Segments
      /\ Uploads' = Uploads /\ UploadSegments' = UploadSegments /\ (Mistaken' <=> Mistaken)
    BY <1>2, SdoReadSteady DEF A, T
<1>4. dev'.todo = <<>> /\ Len(dev'.todo) = 0
  <2>1. Len(dev.todo) <= 1
      BY <1>0 DEF SdoReadBounds
  <2>2. \A k \in Nat \ {0} : k <= 1 => k - 1 = 0
      OBVIOUS
  <2>3. Len(dev'.todo) = 0
      BY ONLY <1>1, <2>1, <2>2
  <2>4. dev'.todo \in Seq(T)
      BY <1>1
  <2>5. \A s \in Seq(T) : Len(s) = 0 => s = <<>>
      OBVIOUS
  <2> QED
      BY ONLY <2>3, <2>4, <2>5
<1>5. inbox' = Posting /\ Posting' = Null
    BY <1>1, <1>4 DEF Posting
<1>6. Carried(inbox)' = Carried(Posting) /\ Carried(Posting)' = Carried(Null) /\ Carried(inbox) = 0
    BY <1>0, <1>1, <1>3, <1>5 DEF Carried
<1>7. SdoReadBounds'
  <2>2. Length(buf') + Carried(inbox)' + Carried(Posting)' <= dev'.at
    <3>1. Length(buf) + Carried(inbox) + Carried(Posting) <= dev.at /\ Length(buf') = Length(buf)
        BY <1>0, <1>2 DEF SdoReadBounds
    <3> QED
        BY <1>0, <1>2, <1>6, <3>1
  <2> QED
      BY <1>0, <1>1, <1>2, <1>3, <1>4, <1>5, <2>2 DEF SdoReadBounds
<1>8. ~Mistaken' /\ pc' \notin Over /\ ~loc'.segment => OwnIsRight'
    BY <1>0, <1>1, <1>2, <1>3, <1>4, <1>5 DEF OwnIsRight, IsOwn
<1>9. ASSUME Ordered' PROVE \E e, f \in 0 .. job'.size : Chain(e, f)'
  <2>1. Ordered
      BY <1>2, <1>3, <1>9 DEF Ordered
  <2>2. PICK e \in 0 .. job.size, f \in 0 .. job.size : Chain(e, f)
      BY <1>0, <2>1
  <2>3. PICK z \in Nat : z = dev.at
      BY <1>0
  <2>4. job.size \in Nat /\ z <= job.size /\ f <= z /\ e = f
    <3>1. job.size \in Nat
        BY <1>0, JobIs
    <3> QED
        BY <1>0, <1>1, <2>2, <2>3, <3>1 DEF SdoReadBounds, Chain, Runs
  <2>5. Runs(inbox, e, z)'
      BY <1>2, <1>3, <1>5, <2>2, <2>3, <2>4 DEF Chain, Runs
  <2>6. Runs(Posting, z, z)'
      BY <1>0, <1>3, <1>5 DEF Runs
  <2>7. Chain(e, z)'
      BY <1>2, <1>3, <2>2, <2>3, <2>4, <2>5, <2>6 DEF Chain
  <2>8. e \in 0 .. job'.size /\ z \in 0 .. job'.size
      BY <1>2, <2>4
  <2> QED
      BY <2>7, <2>8
<1>10. Talk(A, T)'
    BY <1>1, <1>3 DEF Talk
<1> QED
    BY <1>0, <1>1, <1>2, <1>3, <1>7, <1>8, <1>9, <1>10 DEF SdoReadInv, A, T

LEMMA SdoReadVanish ==
  ASSUME SdoReadInv, job.op = "SDOread", Vanish \/ UNCHANGED vars
  PROVE  SdoReadInv'
<1> DEFINE A == SdoReadAsk
           T == SdoReadTell
<1>0. /\ Base /\ Talk(A, T) /\ job \in Jobs /\ SdoReadBounds /\ pc # "empty"
      /\ (~Mistaken /\ pc \notin Over /\ ~loc.segment => OwnIsRight)
      /\ (Ordered => \E e, f \in 0 .. job.size : Chain(e, f))
      /\ loc \in [segment : BOOLEAN, toggle : BOOLEAN]
      /\ (wkc > 0 => buf = Entire(job.size) \/ (missed /\ loc.segment) \/ Mistaken)
      /\ Carried(inbox) \in Nat /\ Carried(Null) = 0 /\ Carried(Posting) \in Nat
      /\ Length(buf) \in Int /\ dev.at \in Nat /\ T \subseteq Said
      /\ Null \notin Segments /\ Null \notin FirstAnswers /\ Null \notin A
    BY SdoReadFacts DEF SdoReadInv
<1>11. Null \notin Uploads /\ Null \notin UploadSegments
    BY <1>0 DEF A, SdoReadAsk
<1> HIDE DEF A, T
<1>1. /\ Base' /\ req' \in A /\ outbox' \in A \cup {Null} /\ inbox' \in T \cup {Null}
      /\ dev'.todo \in Seq(T)
      /\ UNCHANGED <<job, pc, req, loc, buf, wkc, dev, missed>>
      /\ \/ alive' = FALSE /\ outbox' = Null /\ inbox' = Null
         \/ UNCHANGED <<alive, outbox, inbox>>
  <2>1. CASE Vanish
      BY <1>0, <2>1, VanishStep DEF callVars
  <2>2. CASE UNCHANGED vars
      BY <1>0, <2>2, StutterStep
  <2> QED
      BY <2>1, <2>2
<1>3. /\ A' = A /\ T' = T /\ First' = First /\ FirstAnswers' = FirstAnswers /\ Segments' = Segments
      /\ Uploads' = Uploads /\ UploadSegments' = UploadSegments /\ (Mistaken' <=> Mistaken)
      /\ Posting' = Posting
    BY <1>1, SdoReadSteady DEF A, T, Posting
<1>6. Carried(inbox)' \in {0, Carried(inbox)} /\ Carried(Posting)' = Carried(Posting)
    BY <1>0, <1>1, <1>3 DEF Carried
<1>7. SdoReadBounds'
  <2>2. Length(buf') + Carried(inbox)' + Carried(Posting)' <= dev'.at
    <3>1. Length(buf) + Carried(inbox) + Carried(Posting) <= dev.at /\ Length(buf') = Length(buf)
        BY <1>0, <1>1 DEF SdoReadBounds
    <3> QED
        BY <1>0, <1>1, <1>6, <3>1
  <2> QED
      BY <1>0, <1>1, <1>3, <1>11, <2>2 DEF SdoReadBounds
<1>8. ~Mistaken' /\ pc' \notin Over /\ ~loc'.segment => OwnIsRight'
    BY <1>0, <1>1, <1>3, <1>11 DEF OwnIsRight, IsOwn
<1>9. ASSUME Ordered' PROVE \E e, f \in 0 .. job'.size : Chain(e, f)'
  <2>1. Ordered /\ UNCHANGED <<alive, outbox, inbox>>
      BY <1>1, <1>3, <1>9 DEF Ordered
  <2>2. PICK e \in 0 .. job.size, f \in 0 .. job.size : Chain(e, f)
      BY <1>0, <2>1
  <2>7. Chain(e, f)'
      BY <1>1, <1>3, <2>1, <2>2 DEF Chain, Runs
  <2> QED
      BY <1>1, <2>2, <2>7
<1>10. Talk(A, T)'
    BY <1>1, <1>3 DEF Talk
<1> QED
    BY <1>0, <1>1, <1>3, <1>7, <1>8, <1>9, <1>10 DEF SdoReadInv, A, T

-----------------------------------------------------------------------------
(* A download taken by the slave.                                          *)
LEMMA StoringIs ==
  ASSUME NEW d \in DevSet
  PROVE  /\ Storing(d) \in DevSet /\ Storing(d).todo = d.todo /\ Storing(d).got = d.got
         /\ Storing(d).want = d.want /\ Storing(d).base = d.base /\ Storing(d).at = d.at
         /\ Length(d.got) = d.want => Storing(d).stored = d.got
<1> DEFINE s == IF Length(d.got) = d.want THEN d.got ELSE d.stored
<1>1. Storing(d) = [d EXCEPT !.stored = s]
    BY DEF Storing, DevSet
<1>2. s \in Bufs
    BY DEF DevSet
<1>3. Length(d.got) = d.want => s = d.got
    OBVIOUS
<1> HIDE DEF s
<1>4. ASSUME NEW v \in Bufs
      PROVE  /\ [d EXCEPT !.stored = v] \in DevSet /\ [d EXCEPT !.stored = v].todo = d.todo
             /\ [d EXCEPT !.stored = v].got = d.got /\ [d EXCEPT !.stored = v].want = d.want
             /\ [d EXCEPT !.stored = v].base = d.base /\ [d EXCEPT !.stored = v].at = d.at
             /\ [d EXCEPT !.stored = v].stored = v
    BY <1>4 DEF DevSet
<1> QED
    BY <1>1, <1>2, <1>3, <1>4

Loaded(d, g, k, t) == [d EXCEPT !.got = g, !.want = k, !.toggle = t]

LEMMA LoadedIs ==
  ASSUME NEW d \in DevSet, NEW g \in Bufs, NEW k \in Nat, NEW t \in BOOLEAN
  PROVE  /\ Loaded(d, g, k, t) \in DevSet /\ Loaded(d, g, k, t).got = g
         /\ Loaded(d, g, k, t).want = k /\ Loaded(d, g, k, t).todo = d.todo
         /\ Loaded(d, g, k, t).base = d.base /\ Loaded(d, g, k, t).at = d.at
<1> DEFINE d1 == [d EXCEPT !.got = g]
           d2 == [d1 EXCEPT !.want = k]
           d3 == [d2 EXCEPT !.toggle = t]
<1>1. Loaded(d, g, k, t) = d3
    BY DEF DevSet, Loaded
<1>2. d1 \in DevSet /\ d1.todo = d.todo /\ d1.got = g /\ d1.base = d.base /\ d1.at = d.at
    BY DEF DevSet
<1> HIDE DEF d1
<1>3. d2 \in DevSet /\ d2.todo = d.todo /\ d2.got = g /\ d2.want = k /\ d2.base = d.base /\ d2.at = d.at
    BY <1>2 DEF DevSet
<1> HIDE DEF d2
<1>4. d3 \in DevSet /\ d3.todo = d.todo /\ d3.got = g /\ d3.want = k /\ d3.base = d.base /\ d3.at = d.at
    BY <1>3 DEF DevSet
<1> QED
    BY <1>1, <1>4

LEMMA StoreIs ==
  ASSUME NEW d \in DevSet, NEW g \in Bufs, NEW k \in Nat, NEW t \in BOOLEAN
  PROVE  LET q == Storing(Loaded(d, g, k, t)) IN
         /\ q \in DevSet /\ q.got = g /\ q.want = k /\ q.todo = d.todo
         /\ q.base = d.base /\ q.at = d.at
         /\ Length(g) = k => q.stored = g
<1> DEFINE e == Loaded(d, g, k, t)
<1>1. e \in DevSet
    BY LoadedIs
<1>2. e.got = g
    BY LoadedIs
<1>3. e.want = k
    BY LoadedIs
<1>4. e.todo = d.todo
    BY LoadedIs
<1>6. e.base = d.base /\ e.at = d.at
    BY LoadedIs
<1> HIDE DEF e
<1>5. /\ Storing(e) \in DevSet /\ Storing(e).todo = e.todo /\ Storing(e).got = e.got
      /\ Storing(e).want = e.want /\ Storing(e).base = e.base /\ Storing(e).at = e.at
      /\ (Length(e.got) = e.want => Storing(e).stored = e.got)
    BY <1>1, StoringIs
<1> QED
    BY <1>2, <1>3, <1>4, <1>5, <1>6 DEF e

LEMMA LateDownloadedIs ==
  ASSUME job \in Jobs, dev \in DevSet, NEW r \in LateAsk
  PROVE  LET d == Downloaded(r) IN
         /\ d \in DevSet /\ d.base = dev.base /\ d.at = dev.at
         /\ \E m \in LateTell : d.todo = <<m>>
<1> DEFINE m == [kind |-> "downloaded", index |-> r.index, sub |-> r.sub]
           q == Reply(m)
           g == Glue(<<>>, r.piece)
<1>1. r = DownloadOther /\ job.early = DownloadOther
    BY DEF LateAsk
<1>2. r.index = "x" /\ r.sub = 1 /\ r.size = 1 /\ r.piece = <<1000, 1001>>
    BY <1>1 DEF DownloadOther
<1>3. m \in LateTell /\ m \in Said
    BY <1>1, <1>2, CoeSaid DEF Downloadeds, LateTell
<1>4. g \in Bufs
  <2>1. <<>> \in Bufs /\ r.piece \in Int \X Int
      BY <1>2 DEF Bufs
  <2> QED
      BY <2>1, GlueLength
<1>5. Downloaded(r) = Storing([q EXCEPT !.got = g, !.want = r.size, !.toggle = FALSE])
    BY DEF Downloaded
<1> HIDE DEF m, g
<1>6. q \in DevSet /\ q.todo = <<m>> /\ SameDevice(q)
    BY <1>3, ReplyIs
<1> HIDE DEF q
<1>7. FALSE \in BOOLEAN /\ 1 \in Nat
    OBVIOUS
<1> DEFINE z == Storing(Loaded(q, g, 1, FALSE))
<1>8. Downloaded(r) = z
    BY <1>2, <1>5 DEF Loaded
<1>9. z \in DevSet
    BY <1>4, <1>6, <1>7, StoreIs
<1>10. z.todo = q.todo
    BY <1>4, <1>6, <1>7, StoreIs
<1>11. z.base = q.base /\ z.at = q.at
    BY <1>4, <1>6, <1>7, StoreIs
<1> HIDE DEF z
<1> QED
    BY <1>3, <1>6, <1>8, <1>9, <1>10, <1>11 DEF SameDevice

(* What the slave may do with a request r and leave behind as d: answer an *)
(* upload, answer with a segment, or with what is neither.                 *)
AnswersUpload(d, r, m) ==
  /\ r \in Uploads /\ m \in FirstAnswers /\ m.index = r.index /\ d.at = First
  /\ r.index = "x" /\ r.sub = 1 => d.base = 0 /\ m.piece = <<0, First>>

AnswersSegment(d, r, m) ==
  /\ r \in UploadSegments /\ m \in Segments
  /\ d.base = dev.base /\ d.at = dev.at + Span(m.piece) /\ d.at <= job.size
  /\ m.piece = <<dev.base + dev.at, dev.base + d.at>> /\ (m.last => d.at = job.size)

Refuses(d, m) == m \notin FirstAnswers /\ m \notin Segments /\ d.base = dev.base /\ d.at = dev.at

LEMMA SdoReadServed ==
  ASSUME SdoReadInv, Serve
  PROVE  /\ dev' \in DevSet
         /\ \E m \in SdoReadTell :
              /\ dev'.todo = <<m>>
              /\ AnswersUpload(dev', outbox, m) \/ AnswersSegment(dev', outbox, m) \/ Refuses(dev', m)
<1> DEFINE A == SdoReadAsk
           T == SdoReadTell
<1>0. /\ Base /\ Talk(A, T) /\ job \in Jobs /\ dev \in DevSet /\ Null \notin A
      /\ dev.at <= job.size
    BY SdoReadFacts DEF SdoReadBounds
<1>1. /\ Abort \in T /\ T \subseteq Said /\ FirstAnswers \subseteq T /\ Segments \subseteq T
      /\ \A m \in Uploads : m.kind = "upload"
      /\ \A m \in UploadSegments : m.kind = "upload segment"
      /\ \A q \in LateAsk : q.kind = "download"
      /\ LateTell \subseteq T /\ \A m \in LateTell : m \notin FirstAnswers /\ m \notin Segments
      /\ Abort \notin FirstAnswers /\ Abort \notin Segments
    BY <1>0, SdoReadSaid DEF SdoReadTell
<1>8. outbox \in A => outbox \in Uploads \/ outbox \in UploadSegments \/ outbox \in LateAsk
    BY DEF SdoReadAsk
<1> HIDE DEF A, T
<1>2. /\ outbox \in A
      /\ \/ dev' = Served(outbox) \/ dev' = Reply(Abort)
         \/ dev' = FoeBusy /\ outbox.kind \in {"foe write", "foe data"}
    BY <1>0, ServeStep
<1>3. CASE dev' = Served(outbox) /\ outbox \in Uploads
  <2>1. dev' = Uploaded(outbox)
      BY <1>1, <1>3 DEF Served
  <2>2. /\ Uploaded(outbox) \in DevSet /\ Uploaded(outbox).at = First
        /\ \E m \in FirstAnswers :
             /\ Uploaded(outbox).todo = <<m>> /\ m.index = outbox.index
             /\ outbox.index = "x" /\ outbox.sub = 1 =>
                  Uploaded(outbox).base = 0 /\ m.piece = <<0, First>>
      BY <1>0, <1>3, UploadedIs
  <2>3. PICK m \in FirstAnswers :
             /\ dev'.todo = <<m>> /\ m.index = outbox.index
             /\ outbox.index = "x" /\ outbox.sub = 1 => dev'.base = 0 /\ m.piece = <<0, First>>
      BY <2>1, <2>2
  <2>4. AnswersUpload(dev', outbox, m)
      BY <1>3, <2>1, <2>2, <2>3 DEF AnswersUpload
  <2> QED
      BY <1>1, <2>1, <2>2, <2>3, <2>4 DEF T
<1>4. CASE dev' = Served(outbox) /\ outbox \in UploadSegments
  <2>1. dev' = UploadedSegment(outbox)
      BY <1>1, <1>4 DEF Served
  <2> DEFINE q == UploadedSegment(outbox)
  <2>2. /\ q \in DevSet /\ q.base = dev.base
        /\ \/ q.todo = <<Abort>> /\ q.at = dev.at
           \/ \E m \in Segments :
                /\ q.todo = <<m>> /\ q.at = dev.at + Span(m.piece) /\ q.at <= job.size
                /\ m.piece = <<dev.base + dev.at, dev.base + q.at>>
                /\ m.last => q.at = job.size
      BY <1>0, <1>4, UploadedSegmentIs
  <2> HIDE DEF q
  <2>3. dev' = q
      BY <2>1 DEF q
  <2>4. CASE q.todo = <<Abort>> /\ q.at = dev.at
      BY <1>1, <2>2, <2>3, <2>4 DEF Refuses, T
  <2>5. CASE ~(q.todo = <<Abort>> /\ q.at = dev.at)
    <3>1. PICK m \in Segments :
                /\ q.todo = <<m>> /\ q.at = dev.at + Span(m.piece) /\ q.at <= job.size
                /\ m.piece = <<dev.base + dev.at, dev.base + q.at>>
                /\ m.last => q.at = job.size
        BY <2>2, <2>5
    <3>2. AnswersSegment(dev', outbox, m)
        BY <1>4, <2>2, <2>3, <3>1 DEF AnswersSegment
    <3> QED
        BY <1>1, <2>2, <2>3, <3>1, <3>2 DEF T
  <2> QED
      BY <2>4, <2>5
<1>5. CASE dev' = Reply(Abort)
  <2>1. Abort \in Said
      BY <1>1
  <2>2. dev' \in DevSet /\ dev'.todo = <<Abort>> /\ SameDevice(dev')
      BY <1>0, <1>5, <2>1, ReplyIs
  <2>3. Refuses(dev', Abort)
      BY <1>1, <2>2 DEF Refuses, SameDevice
  <2> QED
      BY <1>1, <2>2, <2>3 DEF T
<1>6. outbox.kind \notin {"foe write", "foe data"}
    BY <1>1, <1>2, <1>8
<1>7. CASE dev' = Served(outbox) /\ outbox \in LateAsk
  <2>1. dev' = Downloaded(outbox)
      BY <1>1, <1>7 DEF Served
  <2>2. /\ Downloaded(outbox) \in DevSet /\ Downloaded(outbox).base = dev.base
        /\ Downloaded(outbox).at = dev.at /\ \E m \in LateTell : Downloaded(outbox).todo = <<m>>
      BY <1>0, <1>7, LateDownloadedIs
  <2>3. PICK m \in LateTell : dev'.todo = <<m>>
      BY <2>1, <2>2
  <2>4. Refuses(dev', m)
      BY <1>1, <2>1, <2>2 DEF Refuses
  <2> QED
      BY <1>1, <2>1, <2>2, <2>3, <2>4 DEF T
<1> QED
    BY <1>2, <1>3, <1>4, <1>5, <1>6, <1>7, <1>8

LEMMA SdoReadServe ==
  ASSUME SdoReadInv, job.op = "SDOread", Serve
  PROVE  SdoReadInv'
<1> DEFINE A == SdoReadAsk
           T == SdoReadTell
<1>0. /\ Base /\ Talk(A, T) /\ job \in Jobs /\ SdoReadBounds /\ pc # "empty"
      /\ (~Mistaken /\ pc \notin Over /\ ~loc.segment => OwnIsRight)
      /\ (Ordered => \E e, f \in 0 .. job.size : Chain(e, f))
      /\ loc \in [segment : BOOLEAN, toggle : BOOLEAN]
      /\ (wkc > 0 => buf = Entire(job.size) \/ (missed /\ loc.segment) \/ Mistaken)
      /\ Carried(inbox) \in Nat /\ Carried(Null) = 0 /\ Carried(Posting) \in Nat
      /\ Length(buf) \in Int /\ dev.at \in Nat /\ T \subseteq Said
      /\ Null \notin Segments /\ Null \notin FirstAnswers /\ Null \notin A /\ dev \in DevSet
    BY SdoReadFacts DEF SdoReadInv
<1>11. Null \notin Uploads /\ Null \notin UploadSegments
    BY <1>0 DEF A, SdoReadAsk
<1>12. /\ \A m \in Uploads : m.kind = "upload"
       /\ \A m \in UploadSegments : m.kind = "upload segment"
       /\ \A m \in FirstAnswers : m.kind \in {"expedited", "normal"}
       /\ \A m \in Segments : m.kind = "segment"
       /\ Abort \notin Segments /\ Abort \notin FirstAnswers
    BY <1>0, SdoReadSaid
<1>13. First \in Nat /\ First <= job.size /\ job.size \in Nat
    BY <1>0, FirstIs, JobIs
<1>14. dev' \in DevSet
    BY SdoReadServed
<1>15. PICK m \in T :
              /\ dev'.todo = <<m>>
              /\ AnswersUpload(dev', outbox, m) \/ AnswersSegment(dev', outbox, m) \/ Refuses(dev', m)
    BY SdoReadServed
<1> HIDE DEF A, T
<1>1. /\ req' \in A /\ inbox' \in T \cup {Null} /\ outbox' = Null /\ outbox \in A /\ outbox # Null
      /\ alive /\ dev.todo = <<>> /\ DevSet' = DevSet
      /\ UNCHANGED <<job, pc, req, loc, buf, wkc, inbox, alive, missed, late, unsent>>
      /\ dev' \in DevSet => Base'
    BY <1>0, ServeStep
<1>3. /\ A' = A /\ T' = T /\ First' = First /\ FirstAnswers' = FirstAnswers /\ Segments' = Segments
      /\ Uploads' = Uploads /\ UploadSegments' = UploadSegments /\ (Mistaken' <=> Mistaken)
    BY <1>1, SdoReadSteady DEF A, T
<1>4. Posting = Null /\ Posting' = m /\ Len(dev'.todo) = 1
  <2>1. Len(<<m>>) = 1 /\ <<m>> # <<>> /\ Head(<<m>>) = m
      OBVIOUS
  <2> QED
      BY <1>1, <1>15, <2>1 DEF Posting
<1>6. Carried(inbox)' = Carried(inbox) /\ Carried(Posting)' = Carried(m)
      /\ Carried(m) \in Nat /\ (m \notin Segments => Carried(m) = 0)
      /\ (m \in Segments => Carried(m) = Span(m.piece))
    BY <1>0, <1>1, <1>3, <1>4, CarriedIs DEF Carried
<1>16. Base' /\ Talk(A, T)'
  <2>1. \A k \in T : <<k>> \in Seq(T)
      OBVIOUS
  <2> QED
      BY <1>1, <1>3, <1>14, <1>15, <2>1 DEF Talk
<1>17. outbox \in Uploads => inbox \notin Segments /\ Length(buf) <= First
    BY <1>0 DEF SdoReadBounds
<1>18. Length(buf) + Carried(inbox) + 0 <= dev.at
    BY <1>0, <1>4 DEF SdoReadBounds
<1>19. dev'.at \in Nat
    BY <1>14 DEF DevSet
<1>7. SdoReadBounds'
  <2>2. /\ Length(buf') + Carried(inbox)' + Carried(Posting)' <= dev'.at /\ dev'.at <= job.size
        /\ inbox' \in FirstAnswers \/ m \in FirstAnswers => First <= dev'.at
        /\ ~loc.segment => m \notin Segments
    <3>1. CASE AnswersUpload(dev', outbox, m)
      <4>1. inbox \notin Segments /\ Length(buf) <= First /\ m \notin Segments /\ dev'.at = First
          BY <1>12, <1>17, <3>1 DEF AnswersUpload
      <4>2. Carried(inbox) = 0
          BY <4>1 DEF Carried
      <4>3. Length(buf') + Carried(inbox)' + Carried(Posting)' <= dev'.at
          BY <1>0, <1>1, <1>6, <1>13, <4>1, <4>2
      <4> QED
          BY <1>13, <4>1, <4>3
    <3>2. CASE AnswersSegment(dev', outbox, m)
      <4>1. /\ m \in Segments /\ m \notin FirstAnswers /\ outbox \in UploadSegments
            /\ dev'.at = dev.at + Span(m.piece) /\ dev'.at <= job.size
          BY <1>12, <3>2 DEF AnswersSegment
      <4>2. Length(buf') + Carried(inbox)' + Carried(Posting)' <= dev'.at
        <5>1. Length(buf') = Length(buf) /\ Carried(inbox)' = Carried(inbox) /\ Carried(Posting)' = Span(m.piece)
            BY <1>1, <1>6, <4>1
        <5>2. Span(m.piece) \in Nat
            BY <1>6, <4>1
        <5> QED
            BY <1>0, <1>18, <4>1, <5>1, <5>2
      <4>3. inbox' \in FirstAnswers => First <= dev'.at
        <5>1. inbox' \in FirstAnswers => First <= dev.at
            BY <1>0, <1>1 DEF SdoReadBounds
        <5>2. Span(m.piece) \in Nat
            BY <1>6, <4>1
        <5> QED
            BY <1>0, <1>13, <4>1, <5>1, <5>2
      <4>4. loc.segment
          BY <1>0, <4>1 DEF SdoReadBounds
      <4> QED
          BY <4>1, <4>2, <4>3, <4>4
    <3>3. CASE Refuses(dev', m)
      <4>1. m \notin Segments /\ m \notin FirstAnswers /\ dev'.at = dev.at
          BY <1>12, <3>3 DEF Refuses
      <4>2. inbox' \in FirstAnswers => First <= dev.at
          BY <1>0, <1>1 DEF SdoReadBounds
      <4>3. dev.at <= job.size
          BY <1>0 DEF SdoReadBounds
      <4> QED
          BY <1>0, <1>1, <1>6, <1>18, <4>1, <4>2, <4>3
    <3> QED
        BY <1>15, <3>1, <3>2, <3>3
  <2> QED
      BY <1>0, <1>1, <1>3, <1>4, <1>11, <2>2 DEF SdoReadBounds
<1>8. ~Mistaken' /\ pc' \notin Over /\ ~loc'.segment => OwnIsRight'
  <2> SUFFICES ASSUME ~Mistaken, pc \notin Over, ~loc.segment
               PROVE  OwnIsRight'
      BY <1>1, <1>3
  <2>1. OwnIsRight
      BY <1>0
  <2>2. ~IsOwn(inbox)
      BY <1>1, <2>1 DEF OwnIsRight
  <2>3. IsOwn(m) => m.piece = <<0, First>> /\ dev'.at = First /\ dev'.base = 0 /\ pc \notin {"purge", "send"}
    <3>1. CASE AnswersUpload(dev', outbox, m)
        BY <2>1, <3>1 DEF OwnIsRight, IsOwn, AnswersUpload
    <3>2. CASE AnswersSegment(dev', outbox, m)
        BY <1>12, <3>2 DEF IsOwn, AnswersSegment
    <3>3. CASE Refuses(dev', m)
        BY <1>12, <3>3 DEF IsOwn, Refuses
    <3> QED
        BY <1>15, <3>1, <3>2, <3>3
  <2>4. (IsOwn(inbox)' <=> IsOwn(inbox)) /\ (IsOwn(Posting)' <=> IsOwn(m))
      BY <1>1, <1>3, <1>4 DEF IsOwn
  <2> QED
      BY <1>1, <1>3, <1>4, <1>11, <2>2, <2>3, <2>4 DEF OwnIsRight
<1>9. ASSUME Ordered' PROVE \E e, f \in 0 .. job'.size : Chain(e, f)'
  <2>1. Ordered
      BY <1>1, <1>3, <1>9 DEF Ordered
  <2>2. PICK e \in 0 .. job.size, f \in 0 .. job.size : Chain(e, f)
      BY <1>0, <2>1
  <2>3. dev.base = 0 /\ outbox \notin Uploads /\ e <= f /\ f = dev.at /\ buf = Entire(e) /\ Runs(inbox, e, f)
      BY <1>0, <1>4, <2>2 DEF Chain, Runs
  <2>4. Runs(inbox, e, f)'
      BY <1>1, <1>3, <2>3 DEF Runs
  <2>5. Runs(Posting, f, dev.at)' /\ dev'.base = 0 /\ f <= dev'.at
    <3>1. CASE AnswersUpload(dev', outbox, m)
        BY <2>3, <3>1 DEF AnswersUpload
    <3>2. CASE AnswersSegment(dev', outbox, m)
      <4>1. /\ m \in Segments /\ m \notin FirstAnswers /\ dev'.base = 0
            /\ dev'.at = dev.at + Span(m.piece) /\ m.piece = <<0 + dev.at, 0 + dev'.at>>
            /\ (m.last => dev'.at = job.size)
          BY <1>12, <2>3, <3>2 DEF AnswersSegment
      <4>2. Span(m.piece) \in Nat
          BY <1>6, <4>1
      <4>3. m.piece = <<f, dev'.at>> /\ f <= dev'.at
          BY <1>0, <1>19, <2>3, <4>1, <4>2
      <4> QED
          BY <1>1, <1>3, <1>4, <4>1, <4>3 DEF Runs
    <3>3. CASE Refuses(dev', m)
      <4>1. m \notin Segments /\ m \notin FirstAnswers /\ dev'.at = dev.at /\ dev'.base = 0
          BY <1>12, <2>3, <3>3 DEF Refuses
      <4> QED
          BY <1>0, <1>1, <1>3, <1>4, <2>3, <4>1 DEF Runs
    <3> QED
        BY <1>15, <3>1, <3>2, <3>3
  <2>7. Chain(e, f)'
      BY <1>1, <1>3, <1>11, <2>3, <2>4, <2>5 DEF Chain
  <2> QED
      BY <1>1, <2>2, <2>7
<1> QED
    BY <1>0, <1>1, <1>3, <1>7, <1>8, <1>9, <1>16 DEF SdoReadInv, A, T

LEMMA NextUploadIs ==
  ASSUME NEW t \in BOOLEAN, NextUpload(t)
  PROVE  /\ pc' = "send" /\ req' \in UploadSegments /\ req' \in SdoReadAsk /\ wkc' = wkc
         /\ loc' \in [segment : BOOLEAN, toggle : BOOLEAN] /\ loc'.segment
<1>1. UploadSegment(t) \in UploadSegments
    BY DEF UploadSegment, UploadSegments
<1>2. [segment |-> TRUE, toggle |-> t] \in [segment : BOOLEAN, toggle : BOOLEAN]
    OBVIOUS
<1> QED
    BY <1>1, <1>2 DEF NextUpload, Say, SdoReadAsk

LEMMA SdoReadSend ==
  ASSUME SdoReadInv, Unfinished, job.op = "SDOread", SDOreadSend
  PROVE  SdoReadInv'
<1> DEFINE A == SdoReadAsk
           T == SdoReadTell
<1>0. /\ Base /\ Talk(A, T) /\ job \in Jobs /\ SdoReadBounds /\ pc # "empty"
      /\ (~Mistaken /\ pc \notin Over /\ ~loc.segment => OwnIsRight)
      /\ (Ordered => \E e, f \in 0 .. job.size : Chain(e, f))
      /\ loc \in [segment : BOOLEAN, toggle : BOOLEAN]
      /\ Carried(inbox) \in Nat /\ Carried(Null) = 0 /\ Carried(Posting) \in Nat
      /\ Length(buf) \in Int /\ dev.at \in Nat /\ T \subseteq Said
      /\ Null \notin Segments /\ Null \notin FirstAnswers /\ Null \notin A /\ dev \in DevSet
    BY SdoReadFacts DEF SdoReadInv
<1>12. /\ \A m \in Uploads : m.kind = "upload"
       /\ \A m \in UploadSegments : m.kind = "upload segment"
       /\ Upload(1) \in Uploads
    BY <1>0, SdoReadSaid
<1>13. First \in Nat /\ First <= job.size /\ job.size \in Nat
    BY <1>0, FirstIs, JobIs
<1>14. UploadSegments \subseteq A
    BY DEF SdoReadAsk
<1>11. Null \notin Uploads /\ Null \notin UploadSegments
    BY <1>0 DEF A, SdoReadAsk
<1> HIDE DEF A, T
<1>1. PICK ok \in BOOLEAN :
        /\ Sending("SDOread", ok) /\ buf' = buf
        /\ \/ ok /\ Wait /\ UNCHANGED loc
           \/ ~ok /\ loc.segment /\ NextUpload(~loc.toggle)
           \/ ~ok /\ ~loc.segment /\ Return(0)
    BY DEF SDOreadSend, Keep
<1>2. /\ pc = "send" /\ outbox' \in A \cup {Null} /\ inbox' \in T \cup {Null} /\ dev'.todo \in Seq(T)
      /\ UNCHANGED <<job, inbox, dev, alive, missed>>
      /\ dev' \in DevSet' /\ late' \in BOOLEAN /\ unsent' \in BOOLEAN
      /\ ok => alive /\ outbox = Null /\ outbox' = req
      /\ ~ok => \/ outbox' = outbox
                \/ alive /\ outbox = Null /\ outbox' = req
    BY <1>0, <1>1, SendStep, ZenonT(30)
<1>3. /\ A' = A /\ T' = T /\ First' = First /\ FirstAnswers' = FirstAnswers /\ Segments' = Segments
      /\ Uploads' = Uploads /\ UploadSegments' = UploadSegments /\ (Mistaken' <=> Mistaken)
      /\ (\A m : Carried(m)' = Carried(m)) /\ Posting' = Posting /\ Jobs' = Jobs
    BY <1>2, SdoReadSteady DEF A, T, Posting
<1>4. /\ loc' \in [segment : BOOLEAN, toggle : BOOLEAN] /\ loc'.segment = loc.segment /\ wkc' = 0
      /\ req' \in A /\ (loc.segment => req' \in UploadSegments) /\ (~loc.segment => req' = Upload(1))
      /\ pc' \in {"receive", "send", "done"}
      /\ ~loc.segment /\ pc' \notin Over => ok /\ pc' = "receive"
  <2>1. wkc = 0 /\ req \in A
      BY <1>0, <1>2 DEF Unfinished, Talk
  <2>2. (loc.segment => req \in UploadSegments) /\ (~loc.segment => req = Upload(1))
      BY <1>0 DEF SdoReadBounds
  <2>3. CASE ok /\ Wait /\ UNCHANGED loc
      BY <1>0, <2>1, <2>2, <2>3 DEF Wait
  <2>4. CASE ~ok /\ loc.segment /\ NextUpload(~loc.toggle)
    <3> DEFINE u == ~loc.toggle
    <3>1. u \in BOOLEAN /\ NextUpload(u)
        BY <2>4
    <3> HIDE DEF u
    <3>2. /\ pc' = "send" /\ req' \in UploadSegments /\ wkc' = wkc
          /\ loc' \in [segment : BOOLEAN, toggle : BOOLEAN] /\ loc'.segment
        BY <3>1, NextUploadIs
    <3>3. loc'.segment = TRUE /\ loc.segment = TRUE
        BY <1>0, <2>4, <3>2
    <3> QED
        BY <1>14, <2>1, <2>4, <3>2, <3>3
  <2>5. CASE ~ok /\ ~loc.segment /\ Return(0)
      BY <1>0, <2>1, <2>2, <2>5 DEF Return
  <2> QED
      BY <1>1, <2>3, <2>4, <2>5
<1>5. outbox' = outbox \/ (outbox = Null /\ outbox' = req)
    BY <1>2
<1>6. req \in Uploads => ~loc.segment
    BY <1>0, <1>12 DEF SdoReadBounds
<1>7. SdoReadBounds'
  <2>1. outbox' \in Uploads => inbox \notin Segments /\ Posting \notin Segments /\ Length(buf) <= First
    <3>1. CASE outbox' = outbox
        BY <1>0, <3>1 DEF SdoReadBounds
    <3>2. CASE outbox' = req
      <4>1. ~loc.segment => inbox \notin Segments /\ Posting \notin Segments /\ buf = <<>>
          BY <1>0, <1>2 DEF SdoReadBounds
      <4> QED
          BY <1>6, <1>13, <3>2, <4>1, LengthEmpty
    <3> QED
        BY <1>5, <3>1, <3>2
  <2>2. ~loc.segment => outbox' \notin UploadSegments
    <3>1. CASE outbox' = outbox
        BY <1>0, <3>1 DEF SdoReadBounds
    <3>2. CASE outbox' = req
        BY <1>0, <1>12, <3>2 DEF SdoReadBounds
    <3> QED
        BY <1>5, <3>1, <3>2
  <2>3. ~loc.segment => /\ inbox \notin Segments /\ Posting \notin Segments /\ buf = <<>>
      BY <1>0, <1>2 DEF SdoReadBounds
  <2>4. /\ Len(dev.todo) <= 1 /\ dev.at <= job.size
        /\ Length(buf) + Carried(inbox) + Carried(Posting) <= dev.at /\ Length(buf) <= job.room
        /\ (inbox \in FirstAnswers \/ Posting \in FirstAnswers => First <= dev.at)
        /\ (loc.segment => job.size <= job.room) /\ (~alive => inbox = Null)
      BY <1>0 DEF SdoReadBounds
  <2>5. Carried(inbox)' = Carried(inbox) /\ Carried(Posting)' = Carried(Posting)
      BY <1>2, <1>3 DEF Carried
  <2>6. Length(buf') + Carried(inbox)' + Carried(Posting)' <= dev'.at
      BY <1>1, <1>2, <2>4, <2>5
  <2> QED
      BY <1>1, <1>2, <1>3, <1>4, <2>1, <2>2, <2>3, <2>4, <2>6 DEF SdoReadBounds
<1>8. ~Mistaken' /\ pc' \notin Over /\ ~loc'.segment => OwnIsRight'
  <2> SUFFICES ASSUME ~Mistaken, pc' \notin Over, ~loc.segment
               PROVE  OwnIsRight'
      BY <1>3, <1>4
  <2>1. OwnIsRight /\ pc' = "receive" /\ outbox' = Upload(1)
      BY <1>0, <1>2, <1>4 DEF SdoReadBounds
  <2>2. ~IsOwn(inbox) /\ ~IsOwn(Posting)
      BY <1>2, <2>1 DEF OwnIsRight
  <2>3. (IsOwn(inbox)' <=> IsOwn(inbox)) /\ (IsOwn(Posting)' <=> IsOwn(Posting))
      BY <1>2, <1>3 DEF IsOwn
  <2>4. Upload(1).sub = 1
      BY DEF Upload
  <2> QED
      BY <2>1, <2>2, <2>3, <2>4 DEF OwnIsRight
<1>9. ASSUME Ordered' PROVE \E e, f \in 0 .. job'.size : Chain(e, f)'
  <2>1. Ordered /\ loc.segment
      BY <1>2, <1>3, <1>4, <1>9 DEF Ordered
  <2>2. PICK e \in 0 .. job.size, f \in 0 .. job.size : Chain(e, f)
      BY <1>0, <2>1
  <2>3. outbox' \notin Uploads
      BY <1>5, <1>6, <1>11, <2>1, <2>2 DEF Chain
  <2>7. Chain(e, f)'
      BY <1>1, <1>2, <1>3, <2>2, <2>3 DEF Chain, Runs
  <2> QED
      BY <1>2, <2>2, <2>7
<1>10. Base' /\ Talk(A, T)'
    BY <1>0, <1>1, <1>2, <1>3, <1>4 DEF Base, Talk
<1> QED
    BY <1>1, <1>4, <1>7, <1>8, <1>9, <1>10 DEF SdoReadInv, A, T

LEMMA SdoReadFirst ==
  ASSUME SdoReadInv, Unfinished, job.op = "SDOread", SDOreadFirst
  PROVE  SdoReadInv'
<1> DEFINE A == SdoReadAsk
           T == SdoReadTell
<1>0. /\ Base /\ Talk(A, T) /\ job \in Jobs /\ SdoReadBounds
      /\ (~Mistaken /\ pc \notin Over /\ ~loc.segment => OwnIsRight)
      /\ loc \in [segment : BOOLEAN, toggle : BOOLEAN]
      /\ Carried(inbox) \in Nat /\ Carried(Null) = 0 /\ Carried(Posting) \in Nat
      /\ Length(buf) \in Int /\ dev.at \in Nat /\ T \subseteq Said /\ buf \in Bufs
      /\ Null \notin Segments /\ Null \notin FirstAnswers /\ Null \notin A /\ Null \notin T /\ dev \in DevSet
    BY SdoReadFacts DEF SdoReadInv
<1>12. /\ \A m \in Segments : m.kind = "segment"
       /\ Abort.kind = "abort" /\ \A m \in LateTell : m.kind = "downloaded"
       /\ \A m \in FirstAnswers : m.kind \in {"expedited", "normal"}
    BY <1>0, SdoReadSaid
<1>16. \A m \in T : m.kind = "downloaded" => Mistaken
  <2>1. \A m \in T : m.kind = "downloaded" => m \in LateTell
      BY <1>12 DEF SdoReadTell
  <2>2. \A m \in LateTell : Mistaken
      BY <1>0, LateSaid
  <2> QED
      BY <2>1, <2>2
<1>13. First \in Nat /\ First <= job.size /\ job.size \in Nat /\ job.room \in Nat
    BY <1>0, FirstIs, JobIs
<1>14. \A m \in T : m.kind \in {"expedited", "normal"} =>
                      /\ m \in FirstAnswers /\ m.size = job.size /\ m.piece \in Int \X Int
                      /\ Span(m.piece) = First /\ m.piece \in Piece
  <2> SUFFICES ASSUME NEW m \in T, m.kind \in {"expedited", "normal"}
               PROVE  /\ m \in FirstAnswers /\ m.size = job.size /\ m.piece \in Int \X Int
                      /\ Span(m.piece) = First /\ m.piece \in Piece
      OBVIOUS
  <2>1. m \in FirstAnswers
      BY <1>12 DEF SdoReadTell
  <2>2. m.size = job.size /\ m.piece \in Piece /\ Span(m.piece) = First
      BY <2>1 DEF FirstAnswers, Uploadeds
  <2> QED
      BY <1>0, <2>1, <2>2, PieceType
<1>15. UploadSegments \subseteq A
    BY DEF SdoReadAsk
<1> HIDE DEF A, T
<1>1. PICK m \in Answers :
        /\ Receiving("SDOread", m) /\ ~loc.segment
        /\ \/ m = Null /\ Return(0) /\ Keep
           \/ m # Null /\ Whole(m) /\ buf' = Glue(<<>>, m.piece) /\ Return(1)
           \/ m # Null /\ InPart(m) /\ buf' = Glue(<<>>, m.piece) /\ NextUpload(FALSE)
           \/ m # Null /\ TooSmall(m) /\ Return(0) /\ Keep
           \/ m # Null /\ IsLateDownload(m) /\ Return(1) /\ Keep
           \/ m # Null /\ ~IsUploaded(m) /\ ~IsLateDownload(m) /\ Return(0) /\ Keep
    BY DEF SDOreadFirst
<1>2. /\ pc = "receive" /\ outbox' \in A \cup {Null} /\ inbox' \in T \cup {Null} /\ dev'.todo \in Seq(T)
      /\ UNCHANGED <<job, outbox, dev, alive, unsent>> /\ inbox' \in {inbox, Null}
      /\ dev' \in DevSet' /\ late' \in BOOLEAN /\ missed' \in BOOLEAN
      /\ m # Null => m \in T /\ inbox = m /\ inbox' = Null /\ UNCHANGED <<missed, late>>
    BY <1>0, <1>1, ReceiveStep
<1>3. /\ A' = A /\ T' = T /\ First' = First /\ FirstAnswers' = FirstAnswers /\ Segments' = Segments
      /\ Uploads' = Uploads /\ UploadSegments' = UploadSegments /\ (Mistaken' <=> Mistaken)
      /\ (\A k : Carried(k)' = Carried(k)) /\ Posting' = Posting /\ Jobs' = Jobs
    BY <1>2, SdoReadSteady DEF A, T, Posting
<1>4. req \in A /\ req = Upload(1) /\ wkc = 0 /\ outbox \notin UploadSegments
      /\ inbox \notin Segments /\ Posting \notin Segments /\ buf = <<>>
      /\ Len(dev.todo) <= 1 /\ dev.at <= job.size /\ (~alive => inbox = Null)
      /\ Length(buf) + Carried(inbox) + Carried(Posting) <= dev.at
      /\ (inbox \in FirstAnswers \/ Posting \in FirstAnswers => First <= dev.at)
    BY <1>0, <1>1, <1>2 DEF Talk, SdoReadBounds, Unfinished
<1>5. Carried(Posting)' = 0 /\ Carried(inbox)' = 0 /\ inbox' \notin Segments /\ Posting' \notin Segments
  <2>1. inbox' \notin Segments' /\ Posting' \notin Segments'
      BY <1>0, <1>2, <1>3, <1>4
  <2> QED
      BY <1>3, <2>1 DEF Carried
<1>6. ~Mistaken => OwnIsRight
    BY <1>0, <1>1, <1>2
<1>7. CASE pc' = "done" /\ UNCHANGED <<req, loc, buf>> /\ wkc' \in {0, 1} /\ (wkc' = 1 => Mistaken)
  <2>1. Base' /\ Talk(A, T)'
      BY <1>0, <1>2, <1>3, <1>4, <1>7 DEF Base, Talk
  <2>2. SdoReadBounds'
    <3>1. Length(buf') + Carried(inbox)' + Carried(Posting)' <= dev'.at /\ Length(buf') <= job.room
          /\ Length(buf') <= First
      <4>1. Length(buf') = 0
          BY <1>4, <1>7, LengthEmpty
      <4> QED
          BY <1>0, <1>2, <1>5, <1>13, <4>1
    <3>2. inbox' \in FirstAnswers \/ Posting' \in FirstAnswers => First <= dev'.at
        BY <1>0, <1>2, <1>3, <1>4
    <3> QED
        BY <1>1, <1>2, <1>3, <1>4, <1>5, <1>7, <3>1, <3>2 DEF SdoReadBounds
  <2>3. wkc' > 0 => Mistaken
      BY <1>7
  <2> QED
      BY <1>0, <1>3, <1>7, <2>1, <2>2, <2>3 DEF SdoReadInv, Ordered, A, T
<1>8. CASE /\ m # Null /\ IsUploaded(m) /\ m.size <= job.room /\ buf' = Glue(<<>>, m.piece)
           /\ \/ Span(m.piece) = m.size /\ Return(1)
              \/ NextUpload(FALSE)
  <2>1. /\ m \in FirstAnswers /\ m.size = job.size /\ m.piece \in Int \X Int /\ m.index = "x"
        /\ Span(m.piece) = First /\ job.size <= job.room /\ inbox = m /\ inbox' = Null /\ missed' = missed
      BY <1>2, <1>8, <1>14 DEF IsUploaded
  <2>2. buf' \in Bufs /\ Length(buf') = First
    <3>1. <<>> \in Bufs
        BY DEF Bufs
    <3> QED
        BY <1>8, <1>13, <2>1, <3>1, GlueLength, LengthEmpty
  <2>3. ~Mistaken => /\ outbox = Null /\ dev.at = First /\ dev.base = 0 /\ m.piece = <<0, First>> /\ dev.todo = <<>>
                     /\ buf' = Entire(First)
    <3>1. IsOwn(inbox)
        BY <2>1 DEF IsOwn
    <3> QED
        BY <1>6, <1>8, <2>1, <3>1 DEF OwnIsRight, Entire
  <2>4. /\ loc' \in [segment : BOOLEAN, toggle : BOOLEAN] /\ pc' \in {"send", "done"}
        /\ req' \in A /\ wkc' \in Int
        /\ pc' = "done" => wkc' = 1 /\ loc' = loc /\ req' = req /\ job.size = First
        /\ pc' = "send" => wkc' = 0 /\ loc'.segment /\ req' \in UploadSegments
    <3>1. CASE Span(m.piece) = m.size /\ Return(1)
        BY <1>0, <1>4, <2>1, <3>1 DEF Return
    <3>2. CASE NextUpload(FALSE)
      <4>1. ASSUME NEW u \in BOOLEAN, NextUpload(u)
            PROVE  /\ pc' = "send" /\ req' \in UploadSegments /\ wkc' = wkc
                   /\ loc' \in [segment : BOOLEAN, toggle : BOOLEAN] /\ loc'.segment
          BY <4>1, NextUploadIs
      <4>2. FALSE \in BOOLEAN
          OBVIOUS
      <4>3. /\ pc' = "send" /\ req' \in UploadSegments /\ wkc' = wkc
            /\ loc' \in [segment : BOOLEAN, toggle : BOOLEAN] /\ loc'.segment
          BY <3>2, <4>1, <4>2
      <4> QED
          BY <1>4, <1>15, <4>3
    <3> QED
        BY <1>8, <3>1, <3>2
  <2>5. Base' /\ Talk(A, T)'
      BY <1>0, <1>2, <1>3, <2>2, <2>4 DEF Base, Talk
  <2>6. SdoReadBounds'
    <3>1. First <= dev.at
        BY <1>4, <2>1
    <3>2. Length(buf') + Carried(inbox)' + Carried(Posting)' <= dev'.at /\ Length(buf') <= job.room
          /\ Length(buf') <= First
        BY <1>0, <1>2, <1>5, <1>13, <2>1, <2>2, <3>1
    <3>3. /\ loc'.segment => req' \in UploadSegments /\ job.size <= job.room /\ pc' # "purge"
          /\ ~loc'.segment => req' = Upload(1) /\ pc' = "done"
        BY <1>1, <1>4, <2>1, <2>4
    <3> QED
        BY <1>1, <1>2, <1>3, <1>4, <1>5, <3>1, <3>2, <3>3 DEF SdoReadBounds
  <2>7. wkc' > 0 => buf' = Entire(job.size) \/ Mistaken
      BY <2>3, <2>4
  <2>8. ASSUME Ordered' PROVE \E e, f \in 0 .. job'.size : Chain(e, f)'
    <3>1. ~Mistaken
        BY <1>3, <2>8 DEF Ordered
    <3>2. PICK e \in Nat : e = First
        BY <1>13
    <3>3. Runs(inbox, e, e)' /\ Runs(Posting, e, e)'
      <4>1. Posting' = Null
          BY <1>3, <2>3, <3>1 DEF Posting
      <4> QED
          BY <1>0, <1>3, <2>1, <4>1 DEF Runs
    <3>4. Null \notin Uploads
        BY <1>0, SdoReadSaid
    <3>5. Chain(e, e)'
        BY <1>2, <1>3, <2>3, <3>1, <3>2, <3>3, <3>4 DEF Chain
    <3>6. e \in 0 .. job'.size
        BY <1>2, <1>13, <3>2
    <3> QED
        BY <3>5, <3>6
  <2>9. ~(pc' \notin Over /\ ~loc'.segment)
      BY <2>4
  <2> QED
      BY <1>2, <1>3, <2>4, <2>5, <2>6, <2>7, <2>8, <2>9 DEF SdoReadInv, A, T
<1>9. m # Null /\ IsLateDownload(m) => Mistaken
    BY <1>2, <1>16 DEF IsLateDownload
<1>10. ASSUME NEW v \in {0, 1}, Return(v), Keep, v = 1 => Mistaken PROVE SdoReadInv'
    BY <1>1, <1>4, <1>7, <1>10 DEF Return, Keep, Receiving
<1>11. 0 \in {0, 1} /\ 1 \in {0, 1} /\ 0 # 1
    OBVIOUS
<1>17. CASE m = Null /\ Return(0) /\ Keep
    BY <1>10, <1>11, <1>17
<1>18. CASE m # Null /\ Whole(m) /\ buf' = Glue(<<>>, m.piece) /\ Return(1)
    BY <1>8, <1>18 DEF Whole
<1>19. CASE m # Null /\ InPart(m) /\ buf' = Glue(<<>>, m.piece) /\ NextUpload(FALSE)
    BY <1>8, <1>19 DEF InPart
<1>20. CASE m # Null /\ TooSmall(m) /\ Return(0) /\ Keep
    BY <1>10, <1>11, <1>20
<1>21. CASE m # Null /\ IsLateDownload(m) /\ Return(1) /\ Keep
    BY <1>9, <1>10, <1>11, <1>21
<1>22. CASE m # Null /\ ~IsUploaded(m) /\ ~IsLateDownload(m) /\ Return(0) /\ Keep
    BY <1>10, <1>11, <1>22
<1> QED
    BY <1>1, <1>17, <1>18, <1>19, <1>20, <1>21, <1>22

LEMMA SdoReadSegment ==
  ASSUME SdoReadInv, Unfinished, job.op = "SDOread", SDOreadSegment
  PROVE  SdoReadInv'
<1> DEFINE A == SdoReadAsk
           T == SdoReadTell
<1>0. /\ Base /\ Talk(A, T) /\ job \in Jobs /\ SdoReadBounds
      /\ (Ordered => \E e, f \in 0 .. job.size : Chain(e, f))
      /\ loc \in [segment : BOOLEAN, toggle : BOOLEAN]
      /\ Carried(inbox) \in Nat /\ Carried(Null) = 0 /\ Carried(Posting) \in Nat
      /\ Length(buf) \in Int /\ dev.at \in Nat /\ T \subseteq Said /\ buf \in Bufs
      /\ Null \notin Segments /\ Null \notin FirstAnswers /\ Null \notin A /\ Null \notin T /\ dev \in DevSet
    BY SdoReadFacts DEF SdoReadInv
<1>12. /\ \A m \in FirstAnswers : m.kind \in {"expedited", "normal"}
       /\ Abort.kind = "abort" /\ \A m \in LateTell : m.kind = "downloaded"
       /\ \A m \in Segments : m.piece \in Piece
    BY <1>0, SdoReadSaid DEF Segments
<1>13. job.size \in Nat /\ job.room \in Nat
    BY <1>0, JobIs
<1>14. \A m \in T : m.kind = "segment" => m \in Segments /\ m.piece \in Int \X Int
  <2>1. \A m \in T : m.kind = "segment" => m \in Segments
      BY <1>12 DEF SdoReadTell
  <2> QED
      BY <1>0, <1>12, <2>1, PieceType
<1>15. UploadSegments \subseteq A
    BY DEF SdoReadAsk
<1> HIDE DEF A, T
<1>1. PICK m \in Answers :
        /\ Receiving("SDOread", m) /\ loc.segment
        /\ \/ m = Null /\ NextUpload(~loc.toggle) /\ Keep
           \/ /\ m # Null /\ m.kind = "segment" /\ buf' = Glue(buf, m.piece)
              /\ IF m.last THEN Return(1) ELSE NextUpload(~loc.toggle)
           \/ m # Null /\ m.kind # "segment" /\ Return(0) /\ Keep
    BY DEF SDOreadSegment
<1>2. /\ pc = "receive" /\ outbox' \in A \cup {Null} /\ inbox' \in T \cup {Null} /\ dev'.todo \in Seq(T)
      /\ UNCHANGED <<job, outbox, dev, alive, unsent>> /\ inbox' \in {inbox, Null}
      /\ dev' \in DevSet' /\ late' \in BOOLEAN /\ missed' \in BOOLEAN
      /\ m # Null => m \in T /\ inbox = m /\ inbox' = Null /\ UNCHANGED <<missed, late>>
      /\ m = Null => (inbox' = inbox /\ missed' = missed) \/ missed' = TRUE
  <2> QED
      BY <1>0, <1>1, ReceiveStep
<1>3. /\ A' = A /\ T' = T /\ First' = First /\ FirstAnswers' = FirstAnswers /\ Segments' = Segments
      /\ Uploads' = Uploads /\ UploadSegments' = UploadSegments /\ (Mistaken' <=> Mistaken)
      /\ (\A k : Carried(k)' = Carried(k)) /\ Posting' = Posting /\ Jobs' = Jobs
    BY <1>2, SdoReadSteady DEF A, T, Posting
<1>4. req \in A /\ req \in UploadSegments /\ wkc = 0 /\ job.size <= job.room
      /\ Len(dev.todo) <= 1 /\ dev.at <= job.size /\ (~alive => inbox = Null)
      /\ Length(buf) + Carried(inbox) + Carried(Posting) <= dev.at
      /\ (inbox \in FirstAnswers \/ Posting \in FirstAnswers => First <= dev.at)
      /\ (outbox \in Uploads => inbox \notin Segments /\ Posting \notin Segments /\ Length(buf) <= First)
    BY <1>0, <1>1, <1>2 DEF Talk, SdoReadBounds, Unfinished
<1>5. /\ Carried(Posting)' = Carried(Posting) /\ Carried(inbox)' \in {Carried(inbox), 0}
      /\ (inbox' = Null => Carried(inbox)' = 0)
    BY <1>0, <1>2, <1>3 DEF Carried
<1>6. ASSUME NextUpload(~loc.toggle)
      PROVE  /\ pc' = "send" /\ req' \in UploadSegments /\ req' \in A /\ wkc' = wkc
             /\ loc' \in [segment : BOOLEAN, toggle : BOOLEAN] /\ loc'.segment
  <2> DEFINE u == ~loc.toggle
  <2>1. u \in BOOLEAN /\ NextUpload(u)
      BY <1>6
  <2> HIDE DEF u
  <2>2. /\ pc' = "send" /\ req' \in UploadSegments /\ wkc' = wkc
        /\ loc' \in [segment : BOOLEAN, toggle : BOOLEAN] /\ loc'.segment
      BY <2>1, NextUploadIs
  <2> QED
      BY <1>15, <2>2
<1>16. /\ loc' \in [segment : BOOLEAN, toggle : BOOLEAN] /\ loc'.segment /\ pc' \in {"send", "done"}
       /\ req' \in UploadSegments /\ req' \in A /\ wkc' \in Int
       /\ wkc' > 0 => m # Null /\ m.kind = "segment" /\ m.last
  <2>1. CASE NextUpload(~loc.toggle)
      BY <1>4, <1>6, <2>1
  <2>2. CASE Return(0)
      BY <1>0, <1>1, <1>4, <2>2 DEF Return
  <2>3. CASE m # Null /\ m.kind = "segment" /\ m.last /\ Return(1)
      BY <1>0, <1>1, <1>4, <2>3 DEF Return
  <2> QED
      BY <1>1, <2>1, <2>2, <2>3
<1>7. /\ Length(buf') + Carried(inbox)' + Carried(Posting)' <= dev'.at /\ buf' \in Bufs /\ Length(buf') \in Int
      /\ (outbox' \in Uploads => inbox' \notin Segments /\ Posting' \notin Segments /\ Length(buf') <= First)
      /\ Length(buf') <= Length(buf) + Carried(inbox)
  <2>1. CASE m # Null /\ m.kind = "segment"
    <3>1. m \in Segments /\ m.piece \in Int \X Int /\ inbox = m /\ inbox' = Null /\ buf' = Glue(buf, m.piece)
        BY <1>1, <1>2, <1>14, <2>1
    <3>2. buf' \in Bufs /\ Length(buf') = Length(buf) + Span(m.piece) /\ Carried(inbox) = Span(m.piece)
        BY <1>0, <3>1, GlueLength DEF Carried
    <3> QED
        BY <1>0, <1>2, <1>4, <1>5, <3>1, <3>2
  <2>2. CASE ~(m # Null /\ m.kind = "segment")
    <3>1. buf' = buf
        BY <1>1, <2>2 DEF Keep
    <3>2. Length(buf') + Carried(inbox)' + Carried(Posting)' <= dev'.at
        BY <1>0, <1>2, <1>4, <1>5, <3>1
    <3> QED
        BY <1>0, <1>2, <1>3, <1>4, <3>1, <3>2
  <2> QED
      BY <2>1, <2>2
<1>8. SdoReadBounds'
  <2>1. Length(buf') <= job.room
      BY <1>0, <1>4, <1>7, <1>13
  <2>2. inbox' \in FirstAnswers \/ Posting' \in FirstAnswers => First <= dev'.at
      BY <1>0, <1>2, <1>3, <1>4
  <2> QED
      BY <1>2, <1>3, <1>4, <1>7, <1>16, <2>1, <2>2 DEF SdoReadBounds
<1>9. Base' /\ Talk(A, T)'
    BY <1>0, <1>2, <1>3, <1>7, <1>16 DEF Base, Talk
<1>17. ASSUME ~Mistaken, ~missed', alive
       PROVE  \E e, f \in 0 .. job.size : Chain(e, f)' /\ (wkc' > 0 => buf' = Entire(job.size))
  <2>1. Ordered
      BY <1>1, <1>2, <1>17 DEF Ordered
  <2>2. PICK e \in 0 .. job.size, f \in 0 .. job.size : Chain(e, f)
      BY <1>0, <2>1
  <2>3. CASE m # Null /\ m.kind = "segment"
    <3>1. m \in Segments /\ inbox = m /\ inbox' = Null /\ buf' = Glue(buf, m.piece)
        BY <1>1, <1>2, <1>14, <2>3
    <3>2. m.piece = <<e, f>> /\ (m.last => f = job.size) /\ buf = Entire(e) /\ e <= f
        BY <2>2, <3>1 DEF Chain, Runs
    <3>3. buf' = Entire(f)
        BY <3>1, <3>2, GlueEntire
    <3>4. Runs(inbox, f, f)'
        BY <1>0, <1>3, <3>1 DEF Runs
    <3>5. Chain(f, f)'
        BY <1>2, <1>3, <2>2, <3>3, <3>4 DEF Chain, Runs
    <3>6. wkc' > 0 => buf' = Entire(job.size)
        BY <1>16, <3>2, <3>3
    <3> QED
        BY <3>5, <3>6
  <2>4. CASE ~(m # Null /\ m.kind = "segment")
    <3>1. buf' = buf /\ ~(wkc' > 0)
        BY <1>1, <1>16, <2>4 DEF Keep
    <3>2. CASE m = Null
      <4>1. inbox' = inbox
          BY <1>2, <1>17, <3>2
      <4>2. Chain(e, f)'
          BY <1>2, <1>3, <2>2, <3>1, <4>1 DEF Chain, Runs
      <4> QED
          BY <2>2, <3>1, <4>2
    <3>3. CASE m # Null
      <4>1. inbox = m /\ inbox' = Null /\ m \notin Segments
        <5>1. \A k \in Segments : k.kind = "segment"
            BY DEF Segments
        <5> QED
            BY <1>2, <2>4, <3>3, <5>1
      <4>2. e = f
          BY <2>2, <4>1 DEF Chain, Runs
      <4>3. Runs(inbox, e, f)'
          BY <1>0, <1>3, <4>1, <4>2 DEF Runs
      <4>4. Chain(e, f)'
          BY <1>2, <1>3, <2>2, <3>1, <4>3 DEF Chain, Runs
      <4> QED
          BY <2>2, <3>1, <4>4
    <3> QED
        BY <3>2, <3>3
  <2> QED
      BY <2>3, <2>4
<1>18. Ordered' => \E e, f \in 0 .. job'.size : Chain(e, f)'
    BY <1>2, <1>3, <1>17 DEF Ordered
<1>19. wkc' > 0 => buf' = Entire(job'.size) \/ (missed' /\ loc'.segment) \/ Mistaken'
  <2> SUFFICES ASSUME wkc' > 0, ~missed', ~Mistaken PROVE buf' = Entire(job.size)
      BY <1>2, <1>3, <1>16
  <2>1. m # Null /\ m.kind = "segment"
      BY <1>16
  <2>2. alive \/ ~alive
      BY <1>0 DEF Base
  <2>3. CASE alive
      BY <1>17, <2>3
  <2>4. CASE ~alive
    <3>1. inbox = Null
        BY <1>0, <2>4 DEF SdoReadBounds
    <3> QED
        BY <1>0, <1>2, <2>1, <3>1
  <2> QED
      BY <2>2, <2>3, <2>4
<1> QED
    BY <1>3, <1>8, <1>9, <1>16, <1>18, <1>19 DEF SdoReadInv, A, T

LEMMA SdoReadTake ==
  ASSUME SdoReadInv, Unfinished, job.op = "SDOread", SDOread
  PROVE  SdoReadInv'
BY SdoReadSend, SdoReadFirst, SdoReadSegment DEF SDOread

LEMMA SdoReadLink ==
  ASSUME SdoReadInv, job.op = "SDOread", LinkStep
  PROVE  SdoReadInv'
BY SdoReadPurge, SdoReadPost, SdoReadVanish, SdoReadServe DEF LinkStep

-----------------------------------------------------------------------------
(* ecx_EOEsend: a fragment of the frame from b to a.                       *)
EoePart(m, b, a) ==
  /\ m \in EoeWrites /\ m.piece = <<b, a>> /\ b \in Nat /\ a \in Nat /\ b <= a /\ a <= job.size
  /\ (m.last <=> a = job.size) /\ (m.frag = 0 <=> b = 0)

Grown(a) == a = 0 \/ dev.got = Entire(a)

(* The slave has the frame up to a, or will when it takes its mailbox.     *)
EoeHas(a) ==
  /\ outbox = Null => Grown(a)
  /\ outbox # Null => \E b \in 0 .. a : EoePart(outbox, b, a) /\ Grown(b)

EoeSendInv ==
  /\ Base /\ Talk(EoeWrites, {}) /\ buf = <<>>
  /\ pc \notin Over => \E a, z \in 0 .. job.size : EoePart(req, a, z) /\ (alive => EoeHas(a))
  /\ wkc > 0 /\ alive => /\ outbox = Null => dev.stored = Entire(job.size)
                         /\ outbox # Null => EoeHas(job.size)

LEMMA EoeFragmentIs ==
  ASSUME job \in Jobs, NEW a \in Nat, a <= job.size
  PROVE  \E z \in 0 .. job.size : EoePart(EOEfragment(a), a, z)
<1> DEFINE rest == job.size - a
           n == IF rest > job.l - 10 THEN Blocks(job.l - 10) ELSE rest
           z == a + n
<1>1. job.size \in Nat /\ job.l \in Nat /\ job.l >= 16 /\ job.l - 10 \in Nat /\ rest \in Nat
    BY JobIs
<1>2. \A k \in Nat : (k \div 32) * 32 \in Nat /\ (k \div 32) * 32 <= k
    OBVIOUS
<1>3. Blocks(job.l - 10) \in Nat /\ Blocks(job.l - 10) <= job.l - 10 /\ Blocks(a) \in Nat
    BY <1>1, <1>2 DEF Blocks
<1>4. Rounded(job.size) \in Nat
  <2>1. job.size + 31 \in Nat
      BY <1>1
  <2> QED
      BY <1>2, <2>1 DEF Rounded
<1>5. n \in Nat /\ n <= rest
    BY <1>1, <1>3
<1>6. EOEfragment(a) = EOEblocks(a, n)
    BY DEF EOEfragment
<1> HIDE DEF n
<1>7. z \in Nat /\ a <= z /\ z <= job.size
    BY <1>1, <1>5
<1>8. EOEblocks(a, n) = [kind |-> "eoe", frag |-> IF a = 0 THEN 0 ELSE 1,
                         offset |-> IF a = 0 THEN Rounded(job.size) ELSE Blocks(a),
                         piece |-> <<a, z>>, last |-> z = job.size]
    BY DEF EOEblocks
<1> HIDE DEF z
<1>9. <<a, z>> \in Part
    BY <1>1, <1>7 DEF Part
<1>10. ASSUME NEW k \in Nat, NEW o \in Nat, NEW p \in Part, NEW b \in BOOLEAN
       PROVE  [kind |-> "eoe", frag |-> k, offset |-> o, piece |-> p, last |-> b] \in EoeWrites
    BY DEF EoeWrites
<1> DEFINE k == IF a = 0 THEN 0 ELSE 1
           o == IF a = 0 THEN Rounded(job.size) ELSE Blocks(a)
           b == z = job.size
<1>11. k \in Nat /\ o \in Nat /\ b \in BOOLEAN /\ (k = 0 <=> a = 0) /\ (b <=> z = job.size)
    BY <1>3, <1>4
<1>12. EOEblocks(a, n) = [kind |-> "eoe", frag |-> k, offset |-> o, piece |-> <<a, z>>, last |-> b]
    BY <1>8
<1> HIDE DEF k, o, b
<1>13. EOEblocks(a, n) \in EoeWrites
    BY <1>9, <1>10, <1>11, <1>12
<1>14. EoePart(EOEblocks(a, n), a, z)
    BY <1>1, <1>7, <1>11, <1>12, <1>13 DEF EoePart
<1>15. z \in 0 .. job.size
    BY <1>1, <1>7
<1> QED
    BY <1>6, <1>14, <1>15

Taking(d, t, g, s) == [d EXCEPT !.todo = t, !.got = g, !.stored = s]

LEMMA TakingIs ==
  ASSUME NEW d \in DevSet, NEW t \in Seq(Said), NEW g \in Bufs, NEW s \in Bufs
  PROVE  /\ Taking(d, t, g, s) \in DevSet /\ Taking(d, t, g, s).todo = t
         /\ Taking(d, t, g, s).got = g /\ Taking(d, t, g, s).stored = s
         /\ Taking(d, t, g, s).busy = d.busy /\ Taking(d, t, g, s).want = d.want
         /\ Taking(d, t, g, s).no = d.no
<1> DEFINE d1 == [d EXCEPT !.todo = t]
           d2 == [d1 EXCEPT !.got = g]
           d3 == [d2 EXCEPT !.stored = s]
<1>1. Taking(d, t, g, s) = d3
    BY DEF DevSet, Taking
<1>2. d1 \in DevSet /\ d1.todo = t /\ d1.busy = d.busy /\ d1.want = d.want /\ d1.no = d.no
    BY SMTT(30) DEF DevSet
<1> HIDE DEF d1
<1>3. d2 \in DevSet /\ d2.todo = t /\ d2.got = g /\ d2.busy = d.busy /\ d2.want = d.want /\ d2.no = d.no
    BY <1>2, SMTT(30) DEF DevSet
<1> HIDE DEF d2
<1>4. d3 \in DevSet /\ d3.todo = t /\ d3.got = g /\ d3.stored = s
      /\ d3.busy = d.busy /\ d3.want = d.want /\ d3.no = d.no
    BY <1>3 DEF DevSet
<1> QED
    BY <1>1, <1>4

LEMMA PartIs ==
  ASSUME job \in Jobs, NEW p \in Part
  PROVE  p \in Int \X Int /\ p[1] \in Nat /\ p[2] \in Nat /\ p[1] <= p[2] /\ p[2] <= job.size
BY JobIs DEF Part

LEMMA EmptyBuf == <<>> \in Bufs /\ <<>> = Entire(0)
<1>1. <<>> \in Bufs
    BY DEF Bufs
<1>2. 0 \in Nat
    OBVIOUS
<1> QED
    BY <1>1, <1>2, EntireIs

LEMMA EoeTakenIs ==
  ASSUME job \in Jobs, dev \in DevSet, NEW r \in EoeWrites
  PROVE  LET d == EoeTaken(r) IN
         /\ d \in DevSet /\ d.todo = <<>>
         /\ \A b, a \in Nat : EoePart(r, b, a) /\ Grown(b) =>
              /\ d.got = Entire(a) /\ (a = job.size => d.stored = Entire(job.size))
<1> DEFINE g == IF r.frag = 0 THEN Glue(<<>>, r.piece) ELSE Glue(dev.got, r.piece)
           s == IF r.last THEN g ELSE dev.stored
           t == <<>>
           q == EoeTaken(r)
<1>1. r.piece \in Part
    BY DEF EoeWrites
<1>2. r.piece \in Int \X Int /\ dev.got \in Bufs /\ dev.stored \in Bufs /\ <<>> \in Bufs
    BY <1>1, PartIs, EmptyBuf DEF DevSet
<1>3. g \in Bufs
  <2>1. Glue(<<>>, r.piece) \in Bufs
      BY <1>2, GlueLength
  <2>2. Glue(dev.got, r.piece) \in Bufs
      BY <1>2, GlueLength
  <2> QED
      BY <2>1, <2>2
<1>4. s \in Bufs /\ t \in Seq(Said)
    BY <1>2, <1>3
<1>5. q = Taking(dev, t, g, s)
    BY DEF EoeTaken, Taking
<1>10. (r.last => s = g) /\ (r.frag = 0 => g = Glue(<<>>, r.piece)) /\ (r.frag # 0 => g = Glue(dev.got, r.piece))
    OBVIOUS
<1>11. t = <<>>
    OBVIOUS
<1> HIDE DEF g, s, t, q
<1>6. q \in DevSet /\ q.todo = t /\ q.got = g /\ q.stored = s
  <2>1. Taking(dev, t, g, s) \in DevSet
      BY <1>3, <1>4, TakingIs
  <2>2. Taking(dev, t, g, s).todo = t
      BY <1>3, <1>4, TakingIs
  <2>3. Taking(dev, t, g, s).got = g
      BY <1>3, <1>4, TakingIs
  <2>4. Taking(dev, t, g, s).stored = s
      BY <1>3, <1>4, TakingIs
  <2> QED
      BY <1>5, <2>1, <2>2, <2>3, <2>4
<1>7. ASSUME NEW x \in Nat, NEW y \in Nat, EoePart(r, x, y), Grown(x)
      PROVE  q.got = Entire(y) /\ (y = job.size => q.stored = Entire(job.size))
  <2>1. r.piece = <<x, y>> /\ x <= y /\ (r.last <=> y = job.size) /\ (r.frag = 0 <=> x = 0)
      BY <1>7 DEF EoePart
  <2>2. g = Entire(y)
    <3>1. CASE x = 0
        BY <1>10, <2>1, <3>1 DEF Entire
    <3>2. CASE x # 0
        BY <1>7, <1>10, <2>1, <3>2, GlueEntire DEF Grown
    <3> QED
        BY <3>1, <3>2
  <2> QED
      BY <1>6, <1>10, <2>1, <2>2
<1> QED
    BY <1>6, <1>7, <1>11 DEF q

LEMMA EoeSteady ==
  ASSUME job' = job
  PROVE  /\ EoeWrites' = EoeWrites
         /\ \A m, b, a : EoePart(m, b, a)' <=> EoePart(m, b, a)
<1>1. EoeWrites' = EoeWrites
    BY DEF EoeWrites, Part
<1> QED
    BY <1>1 DEF EoePart

LEMMA EoeSendLink ==
  ASSUME EoeSendInv, job.op = "EOEsend", LinkStep
  PROVE  EoeSendInv'
<1> DEFINE A == EoeWrites
           T == {}
<1>0. /\ Base /\ Talk(A, T) /\ buf = <<>> /\ job \in Jobs /\ dev \in DevSet
      /\ (pc \notin Over => \E a, z \in 0 .. job.size : EoePart(req, a, z) /\ (alive => EoeHas(a)))
      /\ (wkc > 0 /\ alive => /\ outbox = Null => dev.stored = Entire(job.size)
                              /\ outbox # Null => EoeHas(job.size))
    BY DEF EoeSendInv, Base
<1>1. A \subseteq Said /\ T \subseteq Said /\ Null \notin A /\ Null \notin T /\ job.size \in Nat
    BY <1>0, OthersSaid, NullUnsaid, JobIs
<1>2. UNCHANGED <<job, req, loc, buf, wkc>> /\ pc' \in {pc, "send"} /\ (pc' \notin Over => pc \notin Over)
    BY DEF LinkStep, Purge, Serve, PostNext, Vanish, vars, callVars
<1>3. A' = A /\ T' = T /\ \A m, b, a : EoePart(m, b, a)' <=> EoePart(m, b, a)
    BY <1>2, EoeSteady
<1> HIDE DEF A, T
<1>4. CASE Purge \/ UNCHANGED vars
  <2>1. Base' /\ Talk(A, T)' /\ UNCHANGED <<outbox, dev, alive>>
    <3>1. CASE Purge
        BY <1>0, <1>3, <3>1, PurgeStep DEF Talk
    <3>2. CASE UNCHANGED vars
        BY <1>0, <1>3, <3>2, StutterStep DEF Talk
    <3> QED
        BY <1>4, <3>1, <3>2
  <2>2. \A a : EoeHas(a)' <=> EoeHas(a)
      BY <1>3, <2>1 DEF EoeHas, Grown
  <2> QED
      BY <1>0, <1>2, <1>3, <2>1, <2>2 DEF EoeSendInv, A, T
<1>5. CASE PostNext
    BY <1>0, <1>1, <1>5, PostStep DEF T
<1>6. CASE Vanish
  <2>1. Base' /\ Talk(A, T)' /\ alive' = FALSE
      BY <1>0, <1>3, <1>6, VanishStep DEF Talk
  <2> QED
      BY <1>0, <1>2, <1>3, <2>1 DEF EoeSendInv, A, T
<1>7. CASE Serve
  <2>1. /\ req' \in A /\ inbox' \in T \cup {Null} /\ outbox' = Null /\ outbox \in A /\ outbox # Null
        /\ alive /\ DevSet' = DevSet /\ UNCHANGED alive
        /\ dev' \in DevSet => Base'
        /\ \/ dev' = Served(outbox)
           \/ job.moody
      BY <1>0, <1>1, <1>7, ServeStep
  <2>2. ~job.moody /\ outbox.kind = "eoe"
      BY <1>0, <2>1, JobHas DEF A, EoeWrites
  <2>3. dev' = EoeTaken(outbox)
      BY <2>1, <2>2 DEF Served
  <2>4. /\ dev' \in DevSet /\ dev'.todo = <<>>
        /\ \A b, a \in Nat : EoePart(outbox, b, a) /\ Grown(b) =>
             /\ dev'.got = Entire(a) /\ (a = job.size => dev'.stored = Entire(job.size))
      BY <1>0, <2>1, <2>3, EoeTakenIs DEF A
  <2>5. Base' /\ Talk(A, T)'
    <3>1. <<>> \in Seq(T)
        OBVIOUS
    <3> QED
        BY <1>3, <2>1, <2>4, <3>1 DEF Talk
  <2>6. ASSUME NEW a \in 0 .. job.size, EoeHas(a)
        PROVE  EoeHas(a)' /\ (a = job.size => dev'.stored = Entire(job.size))
    <3>1. PICK b \in 0 .. a : EoePart(outbox, b, a) /\ Grown(b)
        BY <2>1, <2>6 DEF EoeHas
    <3>2. a \in Nat /\ b \in Nat
        BY <1>1, <3>1
    <3>3. dev'.got = Entire(a) /\ (a = job.size => dev'.stored = Entire(job.size))
        BY <2>4, <3>1, <3>2
    <3> QED
        BY <2>1, <3>3 DEF EoeHas, Grown
  <2>7. job.size \in 0 .. job.size
      BY <1>1
  <2>8. wkc' > 0 /\ alive' => dev'.stored = Entire(job'.size)
      BY <1>0, <1>2, <2>1, <2>6, <2>7
  <2>9. pc' \notin Over => \E a, z \in 0 .. job'.size : EoePart(req, a, z)' /\ (alive' => EoeHas(a)')
      BY <1>0, <1>2, <1>3, <2>1, <2>6
  <2> QED
      BY <1>0, <1>2, <2>1, <2>5, <2>8, <2>9 DEF EoeSendInv, A, T
<1> QED
    BY <1>4, <1>5, <1>6, <1>7 DEF LinkStep

LEMMA EoeSendTake ==
  ASSUME EoeSendInv, Unfinished, job.op = "EOEsend", EOEsend
  PROVE  EoeSendInv'
<1> DEFINE A == EoeWrites
           T == {}
<1>0. /\ Base /\ Talk(A, T) /\ buf = <<>> /\ job \in Jobs /\ dev \in DevSet
      /\ (pc \notin Over => \E a, z \in 0 .. job.size : EoePart(req, a, z) /\ (alive => EoeHas(a)))
    BY DEF EoeSendInv, Base
<1>1. A \subseteq Said /\ T \subseteq Said /\ Null \notin A /\ Null \notin T /\ job.size \in Nat
    BY <1>0, OthersSaid, NullUnsaid, JobIs
<1> HIDE DEF A, T
<1>2. PICK ok \in BOOLEAN :
        /\ Sending("EOEsend", ok) /\ buf' = buf /\ UNCHANGED loc
        /\ \/ ok /\ ~req.last /\ Say(EOEfragment(req.piece[2]))
           \/ ok /\ req.last /\ Return(1)
           \/ ~ok /\ Return(0)
    BY DEF EOEsend, Keep
<1>3. /\ pc = "send" /\ outbox' \in A \cup {Null} /\ inbox' \in T \cup {Null} /\ dev'.todo \in Seq(T)
      /\ UNCHANGED <<job, inbox, dev, alive, missed>>
      /\ dev' \in DevSet' /\ late' \in BOOLEAN /\ unsent' \in BOOLEAN
      /\ ok => alive /\ outbox = Null /\ outbox' = req /\ UNCHANGED <<late, unsent>>
    BY <1>0, <1>2, SendStep
<1>4. A' = A /\ T' = T /\ (\A m, b, a : EoePart(m, b, a)' <=> EoePart(m, b, a)) /\ Jobs' = Jobs
    BY <1>3, EoeSteady DEF A, T
<1>5. wkc = 0 /\ req \in A
    BY <1>0, <1>3 DEF Unfinished, Talk
<1>6. PICK a \in 0 .. job.size, z \in 0 .. job.size : EoePart(req, a, z) /\ (alive => EoeHas(a))
    BY <1>0, <1>3
<1>7. req.piece[2] = z /\ (req.last <=> z = job.size) /\ a \in Nat /\ z \in Nat /\ a <= z /\ z <= job.size
    BY <1>6 DEF EoePart
<1>8. ok => outbox' # Null /\ EoeHas(z)'
  <2> SUFFICES ASSUME ok PROVE outbox' # Null /\ EoeHas(z)'
      OBVIOUS
  <2>1. Grown(a)
      BY <1>3, <1>6 DEF EoeHas
  <2>2. outbox' = req /\ req # Null /\ Grown(a)' /\ EoePart(req, a, z)
      BY <1>1, <1>3, <1>5, <1>6, <2>1 DEF Grown
  <2>3. EoePart(outbox, a, z)'
      BY <1>3, <2>2 DEF EoePart, EoeWrites, Part
  <2>4. a \in 0 .. z
      BY <1>7
  <2> QED
      BY <2>2, <2>3, <2>4 DEF EoeHas
<1>9. CASE ok /\ ~req.last /\ Say(EOEfragment(req.piece[2]))
  <2>1. PICK y \in 0 .. job.size : EoePart(EOEfragment(z), z, y)
      BY <1>0, <1>7, EoeFragmentIs
  <2>2. req' = EOEfragment(z) /\ pc' = "send" /\ wkc' = 0
      BY <1>5, <1>7, <1>9 DEF Say
  <2>3. req' \in A
      BY <2>1, <2>2 DEF EoePart, A
  <2>4. EoePart(req, z, y)'
      BY <1>3, <2>1, <2>2 DEF EoePart, EoeWrites, Part
  <2>5. Base' /\ Talk(A, T)'
      BY <1>0, <1>2, <1>3, <1>4, <2>2, <2>3 DEF Base, Talk
  <2>6. z \in 0 .. job'.size /\ y \in 0 .. job'.size
      BY <1>3, <1>6, <2>1
  <2>7. \E c, e \in 0 .. job'.size : EoePart(req, c, e)' /\ (alive' => EoeHas(c)')
      BY <1>8, <1>9, <2>4, <2>6
  <2> QED
      BY <1>0, <1>2, <2>2, <2>5, <2>7 DEF EoeSendInv, A, T
<1>10. CASE ok /\ req.last /\ Return(1)
  <2>1. req' = req /\ pc' = "done" /\ wkc' = 1
      BY <1>10 DEF Return
  <2>2. Base' /\ Talk(A, T)'
      BY <1>0, <1>2, <1>3, <1>4, <1>5, <2>1 DEF Base, Talk
  <2>3. outbox' # Null /\ EoeHas(z)' /\ z = job.size
      BY <1>7, <1>8, <1>10
  <2>4. EoeHas(job.size)'
    <3>1. z = job'.size
        BY <1>3, <2>3
    <3> QED
        BY <2>3, <3>1
  <2> QED
      BY <1>0, <1>2, <2>1, <2>2, <2>3, <2>4 DEF EoeSendInv, A, T
<1>11. CASE ~ok /\ Return(0)
  <2>1. req' = req /\ pc' = "done" /\ wkc' = 0
      BY <1>11 DEF Return
  <2>2. Base' /\ Talk(A, T)'
      BY <1>0, <1>2, <1>3, <1>4, <1>5, <2>1 DEF Base, Talk
  <2> QED
      BY <1>0, <1>2, <2>1, <2>2 DEF EoeSendInv, A, T
<1> QED
    BY <1>2, <1>9, <1>10, <1>11

-----------------------------------------------------------------------------
(* ecx_SoEwrite: a fragment of the data from b to a.                       *)
SoeTell == {Word("soe written"), Abort}

SoePart(m, b, a) ==
  /\ m \in SoeWrites /\ m.piece = <<b, a>> /\ b \in Nat /\ a \in Nat /\ b <= a /\ a <= job.size
  /\ (m.incomplete <=> a < job.size)

Written == Word("soe written") \in {inbox, Posting}

(* The slave has the data up to a, or will when it takes its mailbox.      *)
SoeHas(a) ==
  /\ outbox # Null => \E b \in 0 .. a : SoePart(outbox, b, a) /\ dev.got = Entire(b)
  /\ outbox = Null /\ (pc \in {"purge", "send"} \/ loc.notLast) => dev.got = Entire(a)
  /\ Written => dev.stored = Entire(job.size)

(* The last fragment is under way only when nothing is left to send, and   *)
(* it is answered only when the slave has taken it.                        *)
SoeOrder ==
  /\ pc = "empty" => loc.notLast
  /\ outbox # Null /\ ~outbox.incomplete => pc = "receive" /\ ~loc.notLast /\ ~Written
  /\ Written => pc = "receive" /\ outbox = Null /\ ~loc.notLast

(* The fragment to send goes from a to z.                                  *)
SoeAt(a, z) ==
  /\ SoePart(req, a, z) /\ loc = [at |-> z, notLast |-> req.incomplete] /\ (a < job.size \/ a = 0)
  /\ ~unsent /\ alive => /\ pc \in {"purge", "send"} => SoeHas(a)
                         /\ pc \notin {"purge", "send"} => SoeHas(z)

SoeWriteInv ==
  /\ Base /\ Talk(SoeWrites, SoeTell) /\ buf = <<>> /\ Len(dev.todo) <= 1
  /\ pc \notin Over => SoeOrder /\ \E a, z \in 0 .. job.size : SoeAt(a, z)
  /\ wkc > 0 => outbox = Null /\ (unsent \/ ~alive \/ dev.stored = Entire(job.size))

LEMMA SoeSaid ==
  ASSUME job \in Jobs
  PROVE  /\ SoeWrites \subseteq Said /\ SoeTell \subseteq Said
         /\ Null \notin SoeWrites /\ Null \notin SoeTell
         /\ Abort \in SoeTell /\ Word("soe written") \in SoeTell /\ Abort # Word("soe written")
         /\ Word("soe written") # Null
         /\ \A m \in SoeWrites : m.kind = "soe write"
<1>1. Abort \in Said /\ Word("soe written") \in Said /\ Abort # Word("soe written")
    BY ServiceSaid DEF Abort, Word
<1>2. \A m \in SoeWrites : m.kind = "soe write"
    BY DEF SoeWrites
<1> QED
    BY <1>1, <1>2, OthersSaid, NullUnsaid DEF SoeTell

LEMMA SoeSteady ==
  ASSUME job' = job
  PROVE  /\ SoeWrites' = SoeWrites /\ SoeTell' = SoeTell
         /\ \A m, b, a : SoePart(m, b, a)' <=> SoePart(m, b, a)
<1>1. SoeWrites' = SoeWrites /\ SoeTell' = SoeTell
    BY DEF SoeWrites, SoeTell, Part, Word, Abort
<1> QED
    BY <1>1 DEF SoePart

LEMMA SoeFragmentIs ==
  ASSUME job \in Jobs, NEW a \in Nat, a <= job.size
  PROVE  \E z \in 0 .. job.size : SoePart(SoEfragment(a), a, z)
<1> DEFINE n == Lower(job.size - a, job.l - 10)
           z == a + n
           u == z < job.size
<1>1. n \in Nat /\ z \in Nat /\ a <= z /\ z <= job.size /\ job.size \in Nat
    BY JobIs DEF Lower
<1>2. SoEfragment(a) = [kind |-> "soe write", piece |-> <<a, z>>, incomplete |-> u]
    BY DEF SoEfragment
<1>3. u \in BOOLEAN /\ (u <=> z < job.size)
    OBVIOUS
<1> HIDE DEF n, z, u
<1>4. <<a, z>> \in Part
    BY <1>1 DEF Part
<1>5. ASSUME NEW p \in Part, NEW w \in BOOLEAN, NEW m,
             m = [kind |-> "soe write", piece |-> p, incomplete |-> w]
      PROVE  m \in SoeWrites /\ m.piece = p /\ (m.incomplete <=> w)
    BY <1>5 DEF SoeWrites
<1>6. SoEfragment(a) \in SoeWrites
    BY <1>2, <1>3, <1>4, <1>5
<1>9. SoEfragment(a).piece = <<a, z>> /\ (SoEfragment(a).incomplete <=> u)
    BY <1>2, <1>3, <1>4, <1>5
<1>7. SoePart(SoEfragment(a), a, z)
    BY <1>1, <1>3, <1>6, <1>9 DEF SoePart
<1>8. z \in 0 .. job.size
    BY <1>1
<1> QED
    BY <1>7, <1>8

LEMMA SoeTakenIs ==
  ASSUME job \in Jobs, dev \in DevSet, NEW r \in SoeWrites
  PROVE  LET d == SoeTaken(r) IN
         /\ d \in DevSet
         /\ r.incomplete => d.todo = <<>> /\ d.got = Glue(dev.got, r.piece)
         /\ ~r.incomplete => /\ d.todo = <<Word("soe written")>> /\ d.got = <<>>
                             /\ d.stored = Glue(dev.got, r.piece)
<1> DEFINE g == Glue(dev.got, r.piece)
           w == Word("soe written")
           q == SoeTaken(r)
<1>1. r.piece \in Part
    BY DEF SoeWrites
<1>2. r.piece \in Int \X Int /\ dev.got \in Bufs /\ dev.stored \in Bufs /\ <<>> \in Bufs
    BY <1>1, PartIs, EmptyBuf DEF DevSet
<1>3. g \in Bufs
    BY <1>2, GlueLength
<1>4. w \in Said
    BY SoeSaid
<1>5. r.incomplete => q = [dev EXCEPT !.got = g, !.todo = <<>>]
    BY DEF SoeTaken
<1>20. ASSUME NEW v \in Bufs, NEW u \in Seq(Said)
       PROVE  /\ [dev EXCEPT !.got = v, !.todo = u] \in DevSet
              /\ [dev EXCEPT !.got = v, !.todo = u].todo = u
              /\ [dev EXCEPT !.got = v, !.todo = u].got = v
  <2> DEFINE d1 == [dev EXCEPT !.got = v]
             d2 == [d1 EXCEPT !.todo = u]
  <2>1. d2 = [dev EXCEPT !.got = v, !.todo = u]
      BY DEF DevSet
  <2>2. d1 \in DevSet /\ d1.got = v
      BY SMTT(30) DEF DevSet
  <2> HIDE DEF d1
  <2>3. d2 \in DevSet /\ d2.got = v /\ d2.todo = u
      BY <2>2, SMTT(30) DEF DevSet
  <2> QED
      BY <2>1, <2>3
<1>6. ~r.incomplete => q = Taking(dev, <<w>>, <<>>, g)
    BY DEF SoeTaken, Taking, DevSet, Reply, Word
<1> DEFINE e == <<>>
           t == <<w>>
<1>7. <<>> \in Seq(Said) /\ <<w>> \in Seq(Said)
  <2>1. \A m \in Said : <<m>> \in Seq(Said)
      OBVIOUS
  <2> HIDE DEF w
  <2> QED
      BY <1>4, <2>1
<1>8. e \in Seq(Said) /\ t \in Seq(Said) /\ e \in Bufs
    BY <1>2, <1>7
<1>9. (r.incomplete => q = [dev EXCEPT !.got = g, !.todo = e]) /\ (~r.incomplete => q = Taking(dev, t, e, g))
    BY <1>5, <1>6
<1>10. e = <<>> /\ t = <<w>>
    OBVIOUS
<1> HIDE DEF g, w, q, e, t
<1>14. Taking(dev, t, e, g) \in DevSet
    BY <1>3, <1>8, TakingIs
<1>15. Taking(dev, t, e, g).todo = t
    BY <1>3, <1>8, TakingIs
<1>16. Taking(dev, t, e, g).got = e
    BY <1>3, <1>8, TakingIs
<1>17. Taking(dev, t, e, g).stored = g
    BY <1>3, <1>8, TakingIs
<1>18. CASE r.incomplete
  <2>1. [dev EXCEPT !.got = g, !.todo = e] \in DevSet
      BY <1>3, <1>8, <1>20
  <2>2. [dev EXCEPT !.got = g, !.todo = e].todo = e
      BY <1>3, <1>8, <1>20
  <2>3. [dev EXCEPT !.got = g, !.todo = e].got = g
      BY <1>3, <1>8, <1>20
  <2>4. q \in DevSet /\ q.todo = e /\ q.got = g
      BY <1>9, <1>18, <2>1, <2>2, <2>3
  <2> QED
      BY <1>10, <1>18, <2>4 DEF q, g
<1>19. CASE ~r.incomplete
    BY <1>9, <1>10, <1>14, <1>15, <1>16, <1>17, <1>19 DEF q, g, w
<1> QED
    BY <1>18, <1>19

(* A slave that has one answer to post at most.                            *)
LEMMA PostOne ==
  ASSUME NEW A, NEW T, T \subseteq Said, Base, Talk(A, T), PostNext, Len(dev.todo) <= 1
  PROVE  /\ inbox = Null /\ inbox' = Posting /\ Posting' = Null
         /\ dev'.todo = <<>> /\ Len(dev'.todo) <= 1
<1>1. /\ inbox = Null /\ dev.todo # <<>> /\ inbox' = Head(dev.todo) /\ dev'.todo \in Seq(T)
      /\ dev'.todo = Tail(dev.todo) /\ Len(dev.todo) \in Nat \ {0} /\ Len(dev'.todo) = Len(dev.todo) - 1
    BY PostStep
<1>2. \A k \in Nat \ {0} : k <= 1 => k - 1 = 0
    OBVIOUS
<1>3. Len(dev'.todo) = 0
    BY ONLY <1>1, <1>2, Len(dev.todo) <= 1
<1>4. \A s \in Seq(T) : Len(s) = 0 => s = <<>>
    OBVIOUS
<1>5. dev'.todo = <<>>
    BY ONLY <1>1, <1>3, <1>4
<1> QED
    BY <1>1, <1>3, <1>5 DEF Posting

LEMMA OneToPost ==
  ASSUME NEW t, NEW m, t = <<m>> \/ t = <<>>
  PROVE  Len(t) <= 1 /\ (t = <<m>> => t # <<>> /\ Head(t) = m)
<1>1. CASE t = <<>>
  <2>1. Len(<<>>) = 0 /\ <<m>> # <<>>
      OBVIOUS
  <2> QED
      BY <1>1, <2>1
<1>2. CASE t = <<m>>
  <2>1. Len(<<m>>) = 1 /\ Head(<<m>>) = m /\ <<m>> # <<>>
      OBVIOUS
  <2> QED
      BY <1>2, <2>1
<1> QED
    BY <1>1, <1>2

LEMMA SoeCarry ==
  ASSUME SoeOrder, NEW a, NEW z, SoeAt(a, z), pc \notin Over, Null \notin SoeWrites,
         UNCHANGED <<job, req, loc, unsent>>, Written' => Written, alive' => alive,
         dev'.got = dev.got, dev'.stored = dev.stored,
         outbox' \in {outbox, Null}, alive' => outbox' = outbox,
         pc' = pc \/ (pc = "purge" /\ pc' = "send")
  PROVE  SoeOrder' /\ SoeAt(a, z)'
<1>1. \A m, b, c : SoePart(m, b, c)' <=> SoePart(m, b, c)
    BY SoeSteady
<1>2. SoeOrder'
    BY DEF SoeOrder
<1>3. SoePart(req, a, z)' /\ job' = job
    BY <1>1 DEF SoeAt, SoePart, SoeWrites, Part
<1>4. ASSUME NEW p, alive', SoeHas(p) PROVE SoeHas(p)'
  <2>1. outbox' # Null => \E b \in 0 .. p : SoePart(outbox, b, p)' /\ dev'.got = Entire(b)
    <3>1. SUFFICES ASSUME outbox' # Null PROVE \E b \in 0 .. p : SoePart(outbox, b, p)' /\ dev'.got = Entire(b)
        OBVIOUS
    <3>2. PICK b \in 0 .. p : SoePart(outbox, b, p) /\ dev.got = Entire(b)
        BY <1>4, <3>1 DEF SoeHas
    <3>3. SoePart(outbox, b, p)'
        BY <1>4, <3>2 DEF SoePart, SoeWrites, Part
    <3> QED
        BY <3>2, <3>3
  <2> QED
      BY <1>4, <2>1 DEF SoeHas
<1>5. SoeAt(a, z)'
    BY <1>3, <1>4 DEF SoeAt
<1> QED
    BY <1>2, <1>5

LEMMA SoeWriteLink ==
  ASSUME SoeWriteInv, job.op = "SoEwrite", LinkStep
  PROVE  SoeWriteInv'
<1> DEFINE A == SoeWrites
           T == SoeTell
<1>0. /\ Base /\ Talk(A, T) /\ buf = <<>> /\ job \in Jobs /\ dev \in DevSet /\ Len(dev.todo) <= 1
      /\ (pc \notin Over => SoeOrder /\ \E a, z \in 0 .. job.size : SoeAt(a, z))
      /\ (wkc > 0 => outbox = Null /\ (unsent \/ ~alive \/ dev.stored = Entire(job.size)))
    BY DEF SoeWriteInv, Base
<1>1. A \subseteq Said /\ T \subseteq Said /\ Null \notin A /\ Null \notin T /\ Abort \in T /\ job.size \in Nat
      /\ Word("soe written") \in T /\ Abort # Word("soe written") /\ Word("soe written") # Null
      /\ \A m \in A : m.kind = "soe write"
    BY <1>0, SoeSaid, JobIs
<1>2. UNCHANGED <<job, req, loc, buf, wkc, unsent>> /\ (pc' = pc \/ (pc = "purge" /\ pc' = "send"))
      /\ (alive' => alive)
  <2>1. CASE Purge
      BY <2>1 DEF Purge
  <2>2. CASE Serve \/ PostNext
      BY <2>2 DEF Serve, PostNext, callVars
  <2>3. CASE Vanish
      BY <2>3 DEF Vanish, callVars
  <2>4. CASE UNCHANGED vars
      BY <2>4 DEF vars, callVars, linkVars
  <2> QED
      BY <2>1, <2>2, <2>3, <2>4 DEF LinkStep
<1>3. A' = A /\ T' = T /\ Word("soe written")' = Word("soe written") /\ \A m, b, a : SoePart(m, b, a)' <=> SoePart(m, b, a)
    BY <1>2, SoeSteady DEF Word
<1> HIDE DEF A, T
<1>4. CASE Purge \/ PostNext \/ Vanish \/ UNCHANGED vars
  <2>1. Base' /\ Talk(A, T)' /\ (Written' => Written) /\ dev'.got = dev.got /\ dev'.stored = dev.stored
        /\ outbox' \in {outbox, Null} /\ (alive' => outbox' = outbox) /\ Len(dev'.todo) <= 1
    <3>1. CASE Purge
      <4>1. Base' /\ Talk(A, T)' /\ dev' = dev /\ outbox' = outbox /\ inbox' \in {inbox, Null}
          BY <1>0, <1>3, <3>1, PurgeStep DEF Talk
      <4>2. Written' => Written
          BY <1>1, <1>3, <4>1 DEF Written, Posting
      <4> QED
          BY <1>0, <4>1, <4>2
    <3>2. CASE PostNext
      <4>1. Base' /\ Talk(A, T)' /\ dev'.got = dev.got /\ dev'.stored = dev.stored /\ outbox' = outbox
          BY <1>0, <1>1, <1>3, <3>2, PostStep DEF Talk, SameDevice
      <4>2. inbox' = Posting /\ Posting' = Null /\ Len(dev'.todo) <= 1
          BY <1>0, <1>1, <3>2, PostOne
      <4>3. Written' => Written
          BY <1>1, <1>3, <4>2 DEF Written
      <4> QED
          BY <4>1, <4>2, <4>3
    <3>3. CASE Vanish
      <4>1. Base' /\ Talk(A, T)' /\ dev' = dev /\ outbox' = Null /\ inbox' = Null /\ alive' = FALSE
          BY <1>0, <1>3, <3>3, VanishStep DEF Talk
      <4>2. Written' => Written
          BY <1>1, <1>3, <4>1 DEF Written, Posting
      <4> QED
          BY <1>0, <4>1, <4>2
    <3>4. CASE UNCHANGED vars
      <4>1. Base' /\ Talk(A, T)' /\ UNCHANGED <<dev, outbox, inbox>>
          BY <1>0, <1>3, <3>4, StutterStep DEF Talk
      <4>2. Written' => Written
          BY <1>1, <1>3, <4>1 DEF Written, Posting
      <4> QED
          BY <1>0, <4>1, <4>2
    <3> QED
        BY <1>4, <3>1, <3>2, <3>3, <3>4
  <2>2. ASSUME pc' \notin Over PROVE SoeOrder' /\ \E a, z \in 0 .. job'.size : SoeAt(a, z)'
    <3>1. pc \notin Over /\ SoeOrder
        BY <1>0, <1>2, <2>2
    <3>2. PICK a \in 0 .. job.size, z \in 0 .. job.size : SoeAt(a, z)
        BY <1>0, <3>1
    <3>3. SoeOrder' /\ SoeAt(a, z)'
        BY <1>1, <1>2, <2>1, <3>1, <3>2, SoeCarry DEF A
    <3> QED
        BY <1>2, <3>2, <3>3
  <2> QED
      BY <1>0, <1>2, <2>1, <2>2 DEF SoeWriteInv, A, T
<1>5. CASE Serve
  <2>1. /\ req' \in A /\ inbox' \in T \cup {Null} /\ outbox' = Null /\ outbox \in A /\ outbox # Null
        /\ alive /\ dev.todo = <<>> /\ DevSet' = DevSet
        /\ UNCHANGED <<job, pc, req, loc, buf, wkc, inbox, alive, missed, late, unsent>>
        /\ (dev' \in DevSet => Base')
        /\ \/ dev' = Served(outbox)
           \/ ~Partial(outbox) /\ dev' = Reply(Abort)
           \/ dev' = FoeBusy /\ outbox.kind \in {"foe write", "foe data"}
      BY <1>0, <1>1, <1>5, ServeStep
  <2>2. outbox.kind = "soe write"
      BY <1>1, <2>1
  <2>3. /\ dev' \in DevSet
        /\ outbox.incomplete => dev'.todo = <<>> /\ dev'.got = Glue(dev.got, outbox.piece)
        /\ ~outbox.incomplete =>
             \/ dev'.todo = <<Word("soe written")>> /\ dev'.got = <<>> /\ dev'.stored = Glue(dev.got, outbox.piece)
             \/ dev'.todo = <<Abort>> /\ dev'.got = dev.got
    <3>1. CASE dev' = Served(outbox)
      <4>1. dev' = SoeTaken(outbox)
          BY <2>2, <3>1 DEF Served
      <4> QED
          BY <1>0, <2>1, <4>1, SoeTakenIs DEF A
    <3>2. CASE ~Partial(outbox) /\ dev' = Reply(Abort)
      <4>1. ~outbox.incomplete
          BY <2>2, <3>2 DEF Partial
      <4>2. dev' \in DevSet /\ dev'.todo = <<Abort>> /\ SameDevice(dev')
          BY <1>0, <1>1, <3>2, ReplyIs
      <4> QED
          BY <4>1, <4>2 DEF SameDevice
    <3> QED
        BY <2>1, <2>2, <3>1, <3>2
  <2>4. dev'.todo = <<>> \/ \E m \in T : dev'.todo = <<m>>
      BY <1>1, <2>3
  <2>5. dev'.todo \in Seq(T) /\ Len(dev'.todo) <= 1
    <3>1. <<>> \in Seq(T) /\ \A m \in T : <<m>> \in Seq(T)
        OBVIOUS
    <3>2. Len(<<>>) <= 1 /\ \A m \in T : Len(<<m>>) <= 1
        OBVIOUS
    <3> QED
        BY <2>4, <3>1, <3>2
  <2>6. Base' /\ Talk(A, T)'
      BY <1>3, <2>1, <2>3, <2>5 DEF Talk
  <2>7. ~(wkc > 0)
      BY <1>0, <2>1
  <2>8. ASSUME pc' \notin Over PROVE SoeOrder' /\ \E a, z \in 0 .. job'.size : SoeAt(a, z)'
    <3>1. pc \notin Over /\ SoeOrder
        BY <1>0, <1>2, <2>8
    <3>2. PICK a \in 0 .. job.size, z \in 0 .. job.size : SoeAt(a, z)
        BY <1>0, <3>1
    <3>3. inbox # Word("soe written") /\ (Written' => ~outbox.incomplete /\ dev'.todo = <<Word("soe written")>>)
      <4>1. ~Written
          BY <2>1, <3>1 DEF SoeOrder
      <4>2. inbox # Word("soe written")
          BY <4>1 DEF Written
      <4>3. Written' => Posting' = Word("soe written")
          BY <1>3, <2>1, <4>2 DEF Written
      <4>4. Posting' = IF dev'.todo = <<>> THEN Null ELSE Head(dev'.todo)
          BY DEF Posting
      <4>5. \A m \in T : <<m>> # <<>> /\ Head(<<m>>) = m
          OBVIOUS
      <4>6. Written' => dev'.todo = <<Word("soe written")>>
          BY <1>1, <2>4, <4>3, <4>4, <4>5
      <4>7. Word("soe written") \in T /\ <<Word("soe written")>> # <<>>
          BY <1>1, <4>5
      <4> QED
          BY <2>3, <4>2, <4>6, <4>7
    <3>4. SoeOrder'
        BY <1>1, <2>1, <3>1, <3>3 DEF SoeOrder
    <3>5. \A b, p \in Nat : SoePart(outbox, b, p) /\ dev.got = Entire(b) =>
             /\ outbox.incomplete => dev'.got = Entire(p)
             /\ ~outbox.incomplete => /\ p = job.size
                                      /\ dev'.todo = <<Word("soe written")>> => dev'.stored = Entire(job.size)
                                      /\ dev'.got \in {<<>>, Entire(b)}
      <4>1. SUFFICES ASSUME NEW b \in Nat, NEW p \in Nat, SoePart(outbox, b, p), dev.got = Entire(b)
                     PROVE
             /\ outbox.incomplete => dev'.got = Entire(p)
             /\ ~outbox.incomplete => /\ p = job.size
                                      /\ dev'.todo = <<Word("soe written")>> => dev'.stored = Entire(job.size)
                                      /\ dev'.got \in {<<>>, Entire(b)}
          OBVIOUS
      <4>2. outbox.piece = <<b, p>> /\ b <= p /\ (outbox.incomplete <=> p < job.size) /\ p <= job.size
          BY <4>1 DEF SoePart
      <4>3. Glue(dev.got, outbox.piece) = Entire(p)
          BY <4>1, <4>2, GlueEntire
      <4>6. job.size \in Nat
          BY <1>1
      <4>7. \A k, n \in Nat : k <= n /\ ~(k < n) => k = n
          BY ONLY TRUE
      <4>4. ~outbox.incomplete => p = job.size
          BY <4>2, <4>6, <4>7
      <4>5. <<Abort>> # <<Word("soe written")>>
          BY <1>1
      <4> QED
          BY <2>3, <4>1, <4>3, <4>4, <4>5
    <3>6. ASSUME NEW p \in Nat, SoeHas(p), pc \in {"purge", "send"} => p < job.size \/ p = 0,
                 pc \notin {"purge", "send"} => (loc.notLast => p < job.size)
          PROVE  SoeHas(p)'
      <4>1. PICK b \in 0 .. p : SoePart(outbox, b, p) /\ dev.got = Entire(b)
          BY <2>1, <3>6 DEF SoeHas
      <4>2. b \in Nat /\ b <= p
          BY <3>6, <4>1
      <4>3. CASE outbox.incomplete
          BY <2>1, <3>3, <3>5, <4>1, <4>2, <4>3 DEF SoeHas
      <4>4. CASE ~outbox.incomplete
        <5>1. p = job.size /\ (dev'.todo = <<Word("soe written")>> => dev'.stored = Entire(job.size))
              /\ dev'.got \in {<<>>, Entire(b)}
            BY <3>5, <4>1, <4>2, <4>4
        <5>5. \A n \in Nat : ~(n < n)
            BY ONLY TRUE
        <5>6. ~(p < job.size)
            BY <5>1, <5>5
        <5>2. pc \in {"purge", "send"} \/ loc.notLast => p = 0
            BY <3>6, <5>6
        <5>3. p = 0 => b = 0 /\ Entire(b) = Entire(p) /\ <<>> = Entire(p)
            BY <4>2, EmptyBuf
        <5>4. pc \in {"purge", "send"} \/ loc.notLast => dev'.got = Entire(p)
            BY <5>1, <5>2, <5>3
        <5> QED
            BY <2>1, <3>3, <5>1, <5>4 DEF SoeHas
      <4> QED
          BY <4>3, <4>4
    <3>7. a \in Nat /\ z \in Nat
        BY <3>2
    <3>8. loc.notLast => z < job.size
        BY <3>2 DEF SoeAt, SoePart
    <3>9. SoePart(req, a, z)'
        BY <2>1, <3>2 DEF SoeAt, SoePart, SoeWrites, Part
    <3>10. SoeAt(a, z)'
        BY <2>1, <3>2, <3>6, <3>7, <3>8, <3>9 DEF SoeAt
    <3> QED
        BY <2>1, <3>2, <3>4, <3>10
  <2> QED
      BY <1>0, <2>1, <2>5, <2>6, <2>7, <2>8 DEF SoeWriteInv, A, T
<1> QED
    BY <1>4, <1>5 DEF LinkStep

-----------------------------------------------------------------------------
(* The next fragment, when what is under way ends at z.                    *)
SoeUpTo(z) ==
  /\ outbox # Null => \E b \in 0 .. z : SoePart(outbox, b, z) /\ dev.got = Entire(b)
  /\ outbox = Null => dev.got = Entire(z)

LEMMA SoeNextIs ==
  ASSUME job \in Jobs, job' = job, NEW a \in 0 .. job.size, NEW z \in 0 .. job.size, NEW w,
         SoeAt(a, z), loc.notLast, SoEgoOn(w),
         ~Written', outbox' # Null => outbox'.incomplete,
         ~unsent' /\ alive' => SoeUpTo(z)'
  PROVE  /\ SoeOrder' /\ pc' = "send" /\ wkc' = wkc /\ req' \in SoeWrites
         /\ \E y \in 0 .. job.size : SoeAt(z, y)'
<1>1. loc.at = z /\ z < job.size /\ z \in Nat /\ z <= job.size
    BY JobIs DEF SoeAt, SoePart
<1>2. PICK y \in 0 .. job.size : SoePart(SoEfragment(z), z, y)
    BY <1>1, SoeFragmentIs
<1>3. /\ pc' = "send" /\ wkc' = wkc /\ req' = SoEfragment(z)
      /\ loc' = [at |-> req'.piece[2], notLast |-> req'.incomplete]
    BY <1>1 DEF SoEgoOn, SoEnext, Say
<1>4. req' \in SoeWrites /\ loc' = [at |-> y, notLast |-> req'.incomplete]
    BY <1>2, <1>3 DEF SoePart
<1>5. SoePart(req, z, y)'
    BY <1>2, <1>3 DEF SoePart, SoeWrites, Part
<1>6. SoeOrder'
    BY <1>3 DEF SoeOrder
<1>7. ~unsent' /\ alive' => SoeHas(z)'
    BY <1>3 DEF SoeHas, SoeUpTo
<1>8. SoeAt(z, y)'
    BY <1>1, <1>3, <1>4, <1>5, <1>7 DEF SoeAt
<1> QED
    BY <1>3, <1>4, <1>6, <1>8

LEMMA SoeWriteTake ==
  ASSUME SoeWriteInv, Unfinished, job.op = "SoEwrite", SoEwriteSend \/ SoEwriteEmpty \/ SoEwriteReceive
  PROVE  SoeWriteInv'
<1> DEFINE A == SoeWrites
           T == SoeTell
<1>0. /\ Base /\ Talk(A, T) /\ buf = <<>> /\ job \in Jobs /\ dev \in DevSet /\ Len(dev.todo) <= 1
      /\ (pc \notin Over => SoeOrder /\ \E a, z \in 0 .. job.size : SoeAt(a, z))
    BY DEF SoeWriteInv, Base
<1>1. A \subseteq Said /\ T \subseteq Said /\ Null \notin A /\ Null \notin T /\ Abort \in T /\ job.size \in Nat
      /\ Word("soe written") \in T /\ Word("soe written") # Null
    BY <1>0, SoeSaid, JobIs
<1>2. pc \notin Over /\ wkc = 0 /\ SoeOrder
    BY <1>0 DEF Unfinished, SoEwriteSend, SoEwriteEmpty, SoEwriteReceive, Sending, Receiving
<1>3. PICK a \in 0 .. job.size, z \in 0 .. job.size : SoeAt(a, z)
    BY <1>0, <1>2
<1>4. /\ SoePart(req, a, z) /\ loc.notLast = req.incomplete /\ req \in A /\ req # Null /\ a \in Nat /\ z \in Nat
      /\ a <= z
    BY <1>1, <1>3 DEF SoeAt, SoePart
<1>5. ~unsent /\ alive => /\ pc = "send" => SoeHas(a)
                          /\ pc \in {"empty", "receive"} => SoeHas(z)
    BY <1>3 DEF SoeAt
<1> HIDE DEF A, T
<1>6. ASSUME job' = job PROVE A' = A /\ T' = T /\ Jobs' = Jobs /\ Word("soe written")' = Word("soe written")
    BY <1>6, SoeSteady DEF A, T, Word
<1>7. ASSUME NEW w, SoEgoOn(w), ~loc.notLast
      PROVE  pc' = "done" /\ wkc' = w /\ UNCHANGED <<req, loc>>
    BY <1>7 DEF SoEgoOn, Return
<1>8. CASE SoEwriteSend
  <2>1. PICK ok \in BOOLEAN :
          /\ Sending("SoEwrite", ok) /\ buf' = buf
          /\ IF ok THEN /\ pc' = IF loc.notLast THEN "empty" ELSE "receive"
                        /\ UNCHANGED <<req, loc, wkc>>
             ELSE SoEgoOn(0)
      BY <1>8 DEF SoEwriteSend, Keep
  <2>2. /\ pc = "send" /\ outbox' \in A \cup {Null} /\ inbox' \in T \cup {Null} /\ dev'.todo \in Seq(T)
        /\ UNCHANGED <<job, inbox, dev, alive, missed>>
        /\ dev' \in DevSet' /\ late' \in BOOLEAN /\ unsent' \in BOOLEAN
        /\ ok => alive /\ outbox = Null /\ outbox' = req /\ UNCHANGED <<late, unsent>>
        /\ ~ok => \/ outbox' = outbox /\ unsent' = TRUE /\ late' = late
                  \/ alive /\ outbox = Null /\ outbox' = req /\ late' = TRUE /\ unsent' = unsent
      BY <1>0, <2>1, SendStep
  <2>3. A' = A /\ T' = T /\ Jobs' = Jobs
      BY <1>6, <2>2
  <2>4. ~Written /\ ~Written' /\ (outbox # Null => outbox.incomplete)
    <3>1. ~Written /\ (outbox # Null => outbox.incomplete)
        BY <1>2, <2>2 DEF SoeOrder
    <3>2. Written' <=> Written
        BY <1>6, <2>2 DEF Written, Posting
    <3> QED
        BY <3>1, <3>2
  <2>5. outbox = Null /\ outbox' = req /\ ~unsent /\ alive =>
           \E b \in 0 .. z : SoePart(outbox, b, z)' /\ dev'.got = Entire(b)
    <3> SUFFICES ASSUME outbox = Null, outbox' = req, ~unsent, alive
                 PROVE  \E b \in 0 .. z : SoePart(outbox, b, z)' /\ dev'.got = Entire(b)
        OBVIOUS
    <3>1. dev'.got = Entire(a)
        BY <1>5, <2>2 DEF SoeHas
    <3>2. SoePart(outbox, a, z)'
        BY <1>4, <2>2 DEF SoePart, SoeWrites, Part
    <3>3. a \in 0 .. z
        BY <1>4
    <3> QED
        BY <3>1, <3>2, <3>3
  <2>6. CASE ok
    <3>1. /\ pc' = IF loc.notLast THEN "empty" ELSE "receive"
          /\ UNCHANGED <<req, loc, wkc>> /\ alive /\ outbox = Null /\ outbox' = req /\ UNCHANGED <<late, unsent>>
        BY <2>1, <2>2, <2>6
    <3>2. Base' /\ Talk(A, T)'
        BY <1>0, <1>4, <2>1, <2>2, <2>3, <3>1 DEF Base, Talk
    <3>3. SoeOrder'
        BY <1>4, <2>4, <3>1 DEF SoeOrder
    <3>4. ~unsent' /\ alive' => SoeHas(z)'
        BY <1>1, <1>4, <2>2, <2>4, <2>5, <3>1 DEF SoeHas
    <3>5. SoePart(req, a, z)'
        BY <1>4, <2>2, <3>1 DEF SoePart, SoeWrites, Part
    <3>6. SoeAt(a, z)'
        BY <1>3, <2>2, <3>1, <3>4, <3>5 DEF SoeAt
    <3>7. \E c, e \in 0 .. job'.size : SoeAt(c, e)'
        BY <1>3, <2>2, <3>6
    <3>8. ~(wkc' > 0)
        BY <1>2, <3>1
    <3> QED
        BY <1>0, <2>1, <2>2, <3>2, <3>3, <3>7, <3>8 DEF SoeWriteInv, A, T
  <2>7. CASE ~ok /\ loc.notLast
    <3>1. outbox' # Null => outbox'.incomplete
        BY <1>4, <2>2, <2>4, <2>7
    <3>2. ~unsent' /\ alive' => SoeUpTo(z)'
      <4> SUFFICES ASSUME ~unsent', alive' PROVE SoeUpTo(z)'
          OBVIOUS
      <4>1. outbox = Null /\ outbox' = req /\ ~unsent /\ alive /\ outbox' # Null
          BY <1>4, <2>2, <2>7
      <4>2. \E b \in 0 .. z : SoePart(outbox, b, z)' /\ dev'.got = Entire(b)
          BY <2>5, <4>1
      <4> QED
          BY <4>1, <4>2 DEF SoeUpTo
    <3>3. /\ SoeOrder' /\ pc' = "send" /\ wkc' = wkc /\ req' \in A
          /\ \E y \in 0 .. job.size : SoeAt(z, y)'
        BY <1>0, <1>3, <2>1, <2>2, <2>4, <2>7, <3>1, <3>2, SoeNextIs DEF A
    <3>4. Base' /\ Talk(A, T)'
        BY <1>0, <2>1, <2>2, <2>3, <3>3 DEF Base, Talk
    <3>5. \E c, e \in 0 .. job'.size : SoeAt(c, e)'
        BY <1>3, <2>2, <3>3
    <3>6. ~(wkc' > 0)
        BY <1>2, <3>3
    <3> QED
        BY <1>0, <2>1, <2>2, <3>3, <3>4, <3>5, <3>6 DEF SoeWriteInv, A, T
  <2>8. CASE ~ok /\ ~loc.notLast
    <3>1. SoEgoOn(0)
        BY <2>1, <2>8
    <3>2. pc' = "done" /\ wkc' = 0 /\ UNCHANGED <<req, loc>>
        BY <1>7, <2>8, <3>1
    <3>3. Base' /\ Talk(A, T)'
        BY <1>0, <1>4, <2>1, <2>2, <2>3, <3>2 DEF Base, Talk
    <3> QED
        BY <1>0, <2>1, <2>2, <3>2, <3>3 DEF SoeWriteInv, A, T
  <2> QED
      BY <2>6, <2>7, <2>8
<1>9. CASE SoEwriteEmpty
  <2>1. /\ pc = "empty" /\ buf' = buf
        /\ \/ alive /\ outbox = Null /\ SoEgoOn(1)
           \/ Wait /\ UNCHANGED loc
        /\ UNCHANGED <<job, outbox, inbox, dev, alive, missed, late, unsent>>
      BY <1>9 DEF SoEwriteEmpty, Keep
  <2>2. loc.notLast /\ ~Written /\ (outbox # Null => outbox.incomplete)
      BY <1>2, <2>1 DEF SoeOrder
  <2>3. Written' <=> Written
      BY <1>6, <2>1 DEF Written, Posting
  <2>4. A' = A /\ T' = T /\ Jobs' = Jobs /\ dev' \in DevSet'
      BY <1>0, <1>6, <2>1, Steady
  <2>5. CASE alive /\ outbox = Null /\ SoEgoOn(1)
    <3>1. ~unsent' /\ alive' => SoeUpTo(z)'
        BY <1>5, <2>1, <2>2, <2>5 DEF SoeUpTo, SoeHas
    <3>2. outbox' # Null => outbox'.incomplete
        BY <2>1, <2>5
    <3>3. /\ SoeOrder' /\ pc' = "send" /\ wkc' = wkc /\ req' \in A
          /\ \E y \in 0 .. job.size : SoeAt(z, y)'
        BY <1>0, <1>3, <2>1, <2>2, <2>3, <2>5, <3>1, <3>2, SoeNextIs DEF A
    <3>4. Base' /\ Talk(A, T)'
        BY <1>0, <2>1, <2>4, <3>3 DEF Base, Talk
    <3>5. \E c, e \in 0 .. job'.size : SoeAt(c, e)'
        BY <1>3, <2>1, <3>3
    <3>6. ~(wkc' > 0)
        BY <1>2, <3>3
    <3> QED
        BY <1>0, <2>1, <3>3, <3>4, <3>5, <3>6 DEF SoeWriteInv, A, T
  <2>6. CASE Wait /\ UNCHANGED loc
    <3>1. pc' = "receive" /\ UNCHANGED <<req, wkc, loc>>
        BY <2>6 DEF Wait
    <3>2. Base' /\ Talk(A, T)'
        BY <1>0, <1>4, <2>1, <2>4, <3>1 DEF Base, Talk
    <3>3. SoeOrder'
        BY <2>1, <2>2, <2>3, <3>1 DEF SoeOrder
    <3>4. SoePart(req, a, z)'
        BY <1>4, <2>1, <3>1 DEF SoePart, SoeWrites, Part
    <3>5. SoeHas(z) => SoeHas(z)'
      <4>1. \A b : SoePart(outbox, b, z) => SoePart(outbox, b, z)'
          BY <2>1 DEF SoePart, SoeWrites, Part
      <4> QED
          BY <2>1, <2>2, <2>3, <3>1, <4>1 DEF SoeHas
    <3>6. SoeAt(a, z)'
        BY <1>3, <1>5, <2>1, <3>1, <3>4, <3>5 DEF SoeAt
    <3>7. \E c, e \in 0 .. job'.size : SoeAt(c, e)'
        BY <1>3, <2>1, <3>6
    <3>8. ~(wkc' > 0)
        BY <1>2, <3>1
    <3> QED
        BY <1>0, <2>1, <3>2, <3>3, <3>7, <3>8 DEF SoeWriteInv, A, T
  <2> QED
      BY <2>1, <2>5, <2>6
<1>10. CASE SoEwriteReceive
  <2>1. PICK m \in Answers :
          /\ Receiving("SoEwrite", m) /\ buf' = buf
          /\ CASE m = Null -> SoEgoOn(0)
               [] m # Null /\ m.kind = "soe written" -> Return(1)
               [] OTHER -> Return(0)
      BY <1>10 DEF SoEwriteReceive, Keep
  <2>2. /\ pc = "receive" /\ outbox' \in A \cup {Null} /\ inbox' \in T \cup {Null} /\ dev'.todo \in Seq(T)
        /\ UNCHANGED <<job, outbox, dev, alive, unsent>> /\ inbox' \in {inbox, Null}
        /\ dev' \in DevSet' /\ late' \in BOOLEAN /\ missed' \in BOOLEAN
        /\ m # Null => m \in T /\ inbox = m /\ inbox' = Null /\ UNCHANGED <<missed, late>>
      BY <1>0, <1>1, <2>1, ReceiveStep
  <2>3. A' = A /\ T' = T /\ Jobs' = Jobs
      BY <1>6, <2>2
  <2>4. Written' => Written
      BY <1>1, <1>6, <2>2 DEF Written, Posting
  <2>5. CASE m = Null /\ loc.notLast
    <3>1. ~Written /\ (outbox # Null => outbox.incomplete)
        BY <1>2, <2>5 DEF SoeOrder
    <3>2. ~unsent' /\ alive' => SoeUpTo(z)'
      <4>1. \A b : SoePart(outbox, b, z) => SoePart(outbox, b, z)'
          BY <2>2 DEF SoePart, SoeWrites, Part
      <4> QED
          BY <1>5, <2>2, <2>5, <4>1 DEF SoeUpTo, SoeHas
    <3>3. SoEgoOn(0)
        BY <2>1, <2>5
    <3>4. /\ SoeOrder' /\ pc' = "send" /\ wkc' = wkc /\ req' \in A
          /\ \E y \in 0 .. job.size : SoeAt(z, y)'
        BY <1>0, <1>3, <2>2, <2>4, <2>5, <3>1, <3>2, <3>3, SoeNextIs DEF A
    <3>5. Base' /\ Talk(A, T)'
        BY <1>0, <2>1, <2>2, <2>3, <3>4 DEF Base, Talk
    <3>6. \E c, e \in 0 .. job'.size : SoeAt(c, e)'
        BY <1>3, <2>2, <3>4
    <3>7. ~(wkc' > 0)
        BY <1>2, <3>4
    <3> QED
        BY <1>0, <2>1, <2>2, <3>4, <3>5, <3>6, <3>7 DEF SoeWriteInv, A, T
  <2>6. CASE ~(m = Null /\ loc.notLast)
    <3>1. /\ pc' = "done" /\ UNCHANGED <<req, loc>> /\ wkc' \in {0, 1}
          /\ wkc' > 0 => m # Null /\ m.kind = "soe written"
      <4>1. CASE m = Null
        <5>1. SoEgoOn(0)
            BY <2>1, <4>1
        <5> QED
            BY <1>7, <2>6, <4>1, <5>1
      <4>2. CASE m # Null /\ m.kind = "soe written"
        <5>1. Return(1)
            BY <2>1, <4>2
        <5> QED
            BY <4>2, <5>1 DEF Return
      <4>3. CASE m # Null /\ m.kind # "soe written"
        <5>1. Return(0)
            BY <2>1, <4>3
        <5> QED
            BY <5>1 DEF Return
      <4> QED
          BY <4>1, <4>2, <4>3
    <3>5. wkc' = 0 \/ wkc' = 1
        BY <3>1
    <3>6. 0 \in Int /\ 1 \in Int
        BY ONLY TRUE
    <3>4. wkc' \in Int
        BY ONLY <3>5, <3>6
    <3>2. Base' /\ Talk(A, T)'
        BY <1>0, <1>4, <2>1, <2>2, <2>3, <3>1, <3>4 DEF Base, Talk
    <3>3. ASSUME wkc' > 0 PROVE outbox' = Null /\ (unsent' \/ ~alive' \/ dev'.stored = Entire(job'.size))
      <4>1. inbox = Word("soe written")
        <5>1. m \in T /\ inbox = m /\ m.kind = "soe written"
            BY <2>2, <3>1, <3>3
        <5>2. Abort.kind # "soe written"
            BY DEF Abort
        <5> QED
            BY <5>1, <5>2 DEF T, SoeTell
      <4>2. Written
          BY <4>1 DEF Written
      <4> QED
          BY <1>2, <1>5, <2>2, <4>2 DEF SoeOrder, SoeHas
    <3> QED
        BY <1>0, <2>1, <2>2, <3>1, <3>2, <3>3 DEF SoeWriteInv, A, T
  <2> QED
      BY <2>5, <2>6
<1> QED
    BY <1>8, <1>9, <1>10

-----------------------------------------------------------------------------
(* ecx_FOEwrite: packet p of the file, from x to y; packet 0 is the        *)
(* request to write.                                                       *)
FoeWriteAsk == {Word("foe write")} \cup FoeDatas
FoeWriteTell == {Abort, Word("foe busy")} \cup FoeAcks

FoeData(p, x, y) == [kind |-> "foe data", no |-> p, piece |-> <<x, y>>]

FoeAt(p, x, y) ==
  /\ p \in Nat /\ x \in Nat /\ y \in Nat /\ x <= y /\ y <= job.size
  /\ loc = [at |-> y, sendpacket |-> p, segmentdata |-> y - x, dofinalzero |-> p = 0 \/ NeedsFinalZero(x, y - x)]
  /\ p = 0 => x = 0 /\ y = 0 /\ req = Word("foe write")
  /\ p # 0 => req = FoeData(p, x, y) /\ y = x + Lower(job.size - x, FullPacket)

(* The slave before and after it has taken it.                             *)
FoeBefore(p, x) == dev.no = (IF p = 0 THEN 0 ELSE p - 1) /\ dev.got = Entire(x)
FoeAfter(p, x, y) ==
  /\ dev.no = p /\ dev.got = Entire(y)
  /\ p # 0 /\ y - x < FullPacket => dev.stored = Entire(y)

FoeUnder(p, x, y) ==
  /\ pc \in {"purge", "send"} => FoeBefore(p, x)
  /\ pc = "receive" => /\ outbox # Null => outbox = req /\ FoeBefore(p, x)
                       /\ Coming \in FoeAcks => FoeAfter(p, x, y)
                       /\ Coming = Word("foe busy") => FoeBefore(p, x) /\ dev.busy

FoeWriteInv ==
  /\ Base /\ Talk(FoeWriteAsk, FoeWriteTell) /\ Lock /\ buf = <<>> /\ pc # "empty"
  /\ pc \notin Over => \E p, x, y \in Nat : FoeAt(p, x, y) /\ (alive => FoeUnder(p, x, y))
  /\ wkc > 0 => /\ outbox = Null
                /\ \/ dev.stored = Entire(job.size)
                   \/ dev.busy /\ (loc.sendpacket = 0 \/ loc.segmentdata = 0)

LEMMA FoeWriteSaid ==
  ASSUME job \in Jobs
  PROVE  /\ FoeWriteAsk \subseteq Said /\ FoeWriteTell \subseteq Said
         /\ Null \notin FoeWriteAsk /\ Null \notin FoeWriteTell
         /\ Abort \in FoeWriteTell /\ Abort \notin FoeAcks /\ Abort # Word("foe busy") /\ Null \notin FoeAcks
         /\ Word("foe busy") \in FoeWriteTell /\ Word("foe busy") # Null /\ Word("foe busy") \notin FoeAcks
         /\ FoeAcks \subseteq FoeWriteTell
         /\ \A m \in FoeWriteAsk : m = Word("foe write") \/ (m \in FoeDatas /\ m.kind = "foe data")
         /\ \A m \in FoeAcks : m.kind = "foe ack"
         /\ Word("foe write").kind = "foe write" /\ Word("foe busy").kind = "foe busy" /\ Abort.kind = "abort"
<1>1. Abort \in Said /\ Abort.kind = "abort" /\ Abort # Word("foe busy")
    BY ServiceSaid DEF Abort, Word
<1>2. /\ Word("foe write") \in Said /\ Word("foe write").kind = "foe write"
      /\ Word("foe busy") \in Said /\ Word("foe busy").kind = "foe busy"
    BY ServiceSaid DEF Word
<1>3. FoeAcks \subseteq Said /\ FoeDatas \subseteq Said
    BY OthersSaid
<1>4. \A m \in FoeAcks : m.kind = "foe ack"
    BY DEF FoeAcks
<1>5. \A m \in FoeDatas : m.kind = "foe data"
    BY DEF FoeDatas
<1>6. FoeWriteAsk \subseteq Said /\ FoeWriteTell \subseteq Said
    BY <1>1, <1>2, <1>3 DEF FoeWriteAsk, FoeWriteTell
<1>7. Null \notin Said
    BY NullUnsaid
<1> QED
    BY <1>1, <1>2, <1>3, <1>4, <1>5, <1>6, <1>7 DEF FoeWriteAsk, FoeWriteTell

LEMMA FoeWriteSteady ==
  ASSUME job' = job
  PROVE  /\ FoeWriteAsk' = FoeWriteAsk /\ FoeWriteTell' = FoeWriteTell /\ FoeAcks' = FoeAcks
         /\ FullPacket' = FullPacket /\ Word("foe busy")' = Word("foe busy")
<1>1. FoeDatas' = FoeDatas /\ FoeAcks' = FoeAcks
    BY DEF FoeDatas, FoeAcks, Part
<1> QED
    BY <1>1 DEF FoeWriteAsk, FoeWriteTell, Abort, Word, FullPacket

(* The next packet.                                                        *)
LEMMA FoeDataIs ==
  ASSUME job \in Jobs, NEW x \in Nat, x <= job.size, NEW p \in Nat
  PROVE  \E y \in Nat : /\ y = x + Lower(job.size - x, FullPacket) /\ x <= y /\ y <= job.size
                        /\ y - x = Lower(job.size - x, FullPacket)
                        /\ FoeData(p, x, y) \in FoeDatas
                        /\ y - x <= FullPacket /\ (y = x => x = job.size)
<1> DEFINE n == Lower(job.size - x, FullPacket)
<1>1. job.size \in Nat /\ FullPacket \in Nat /\ FullPacket > 0
    BY JobIs DEF FullPacket
<1>2. n \in Nat /\ n <= FullPacket /\ n <= job.size - x /\ (n = 0 => job.size - x = 0)
    BY <1>1 DEF Lower
<1> HIDE DEF n
<1>3. PICK y \in Nat : y = x + n
    BY <1>2
<1>4. x <= y /\ y <= job.size /\ y - x = n /\ (y = x => x = job.size)
    BY <1>1, <1>2, <1>3
<1>5. <<x, y>> \in Part
    BY <1>4 DEF Part
<1>6. FoeData(p, x, y) \in FoeDatas
    BY <1>5 DEF FoeDatas, FoeData
<1> QED
    BY <1>2, <1>3, <1>4, <1>6 DEF n

Packed(d, g, k, s) == [d EXCEPT !.got = g, !.no = k, !.stored = s]

LEMMA PackedIs ==
  ASSUME NEW d \in DevSet, NEW g \in Bufs, NEW k \in Nat, NEW s \in Bufs
  PROVE  /\ Packed(d, g, k, s) \in DevSet /\ Packed(d, g, k, s).got = g
         /\ Packed(d, g, k, s).no = k /\ Packed(d, g, k, s).stored = s
         /\ Packed(d, g, k, s).todo = d.todo
<1> DEFINE d1 == [d EXCEPT !.got = g]
           d2 == [d1 EXCEPT !.no = k]
           d3 == [d2 EXCEPT !.stored = s]
<1>1. Packed(d, g, k, s) = d3
    BY DEF DevSet, Packed
<1>2. d1 \in DevSet /\ d1.todo = d.todo /\ d1.got = g
    BY DEF DevSet
<1> HIDE DEF d1
<1>3. d2 \in DevSet /\ d2.todo = d.todo /\ d2.got = g /\ d2.no = k
    BY <1>2 DEF DevSet
<1> HIDE DEF d2
<1>4. d3 \in DevSet /\ d3.todo = d.todo /\ d3.got = g /\ d3.no = k /\ d3.stored = s
    BY <1>3 DEF DevSet
<1> QED
    BY <1>1, <1>4

LEMMA FoeTakenIs ==
  ASSUME job \in Jobs, dev \in DevSet, NEW r \in FoeDatas
  PROVE  LET d == FoeTaken(r) IN
         /\ d \in DevSet
         /\ r.no # dev.no + 1 => d.todo = <<Abort>>
         /\ r.no = dev.no + 1 =>
              /\ \E m \in FoeAcks : d.todo = <<m>>
              /\ d.no = r.no /\ d.got = Glue(dev.got, r.piece)
              /\ Span(r.piece) < FullPacket => d.stored = Glue(dev.got, r.piece)
<1> DEFINE g == Glue(dev.got, r.piece)
           m == [kind |-> "foe ack", no |-> r.no]
           q == FoeTaken(r)
           w == Reply(m)
           s == IF Span(r.piece) < FullPacket THEN g ELSE w.stored
           k == r.no
<1>1. r.piece \in Part /\ k \in Nat
    BY DEF FoeDatas
<1>2. r.piece \in Int \X Int /\ dev.got \in Bufs /\ dev.stored \in Bufs
    BY <1>1, PartIs DEF DevSet
<1>3. g \in Bufs
    BY <1>2, GlueLength
<1>5. m \in FoeAcks /\ m \in Said
    BY <1>1, OthersSaid DEF FoeAcks
<1>4. s \in Bufs
  <2> HIDE DEF m
  <2>1. w \in DevSet
      BY <1>5, ReplyIs
  <2>2. w.stored \in Bufs
      BY <2>1 DEF DevSet
  <2> QED
      BY <1>3, <2>2
<1>6. CASE r.no # dev.no + 1
  <2>1. q = Reply(Abort)
      BY <1>6 DEF FoeTaken
  <2>2. Abort \in Said
      BY ServiceSaid DEF Abort, Word
  <2> QED
      BY <1>6, <2>1, <2>2, ReplyIs
<1>7. CASE r.no = dev.no + 1
  <2>1. q = Packed(w, g, k, s)
      BY <1>7 DEF FoeTaken, Packed, FullPacket
  <2>2. Span(r.piece) < FullPacket => s = g
      OBVIOUS
  <2> HIDE DEF g, m, s, k
  <2>3. w \in DevSet /\ w.todo = <<m>>
      BY <1>5, ReplyIs
  <2> HIDE DEF w
  <2>4. Packed(w, g, k, s) \in DevSet
      BY <1>1, <1>3, <1>4, <2>3, PackedIs
  <2>5. Packed(w, g, k, s).got = g
      BY <1>1, <1>3, <1>4, <2>3, PackedIs
  <2>6. Packed(w, g, k, s).no = k
      BY <1>1, <1>3, <1>4, <2>3, PackedIs
  <2>7. Packed(w, g, k, s).stored = s
      BY <1>1, <1>3, <1>4, <2>3, PackedIs
  <2>8. Packed(w, g, k, s).todo = w.todo
      BY <1>1, <1>3, <1>4, <2>3, PackedIs
  <2> HIDE DEF q
  <2>9. q \in DevSet /\ q.got = g /\ q.no = k /\ q.stored = s /\ q.todo = <<m>>
      BY <2>1, <2>3, <2>4, <2>5, <2>6, <2>7, <2>8
  <2> QED
      BY <1>5, <1>7, <2>2, <2>9 DEF q, g, k
<1> QED
    BY <1>6, <1>7

LEMMA FoeWriteServed ==
  ASSUME job \in Jobs, dev \in DevSet, NEW p, NEW x, NEW y, FoeAt(p, x, y), FoeBefore(p, x),
         req \in FoeWriteAsk
  PROVE  /\ Served(req) \in DevSet
         /\ \E m \in FoeAcks : Served(req).todo = <<m>>
         /\ dev' = Served(req) /\ job' = job => FoeAfter(p, x, y)'
<1>1. /\ p \in Nat /\ x \in Nat /\ y \in Nat /\ x <= y /\ y <= job.size
      /\ dev.no = (IF p = 0 THEN 0 ELSE p - 1) /\ dev.got = Entire(x)
    BY DEF FoeAt, FoeBefore
<1>2. CASE p = 0
  <2> DEFINE m == [kind |-> "foe ack", no |-> 0]
             q == Served(req)
  <2>1. req = Word("foe write") /\ x = 0 /\ y = 0
      BY <1>2 DEF FoeAt
  <2>2. req.kind = "foe write"
      BY <2>1 DEF Word
  <2>3. q = Reply(m)
      BY <2>2 DEF Served
  <2>4. m \in FoeAcks /\ m \in Said
      BY OthersSaid DEF FoeAcks
  <2> HIDE DEF m, q
  <2>5. q \in DevSet /\ q.todo = <<m>> /\ SameDevice(q)
      BY <2>3, <2>4, ReplyIs
  <2>6. q.no = 0 /\ q.got = Entire(x)
      BY <1>1, <1>2, <2>5 DEF SameDevice
  <2> QED
      BY <1>2, <2>1, <2>4, <2>5, <2>6 DEF q, FoeAfter
<1>3. CASE p # 0
  <2> DEFINE q == FoeTaken(req)
  <2>1. req = FoeData(p, x, y)
      BY <1>3 DEF FoeAt
  <2>2. req.kind = "foe data" /\ req.no = p /\ req.piece = <<x, y>>
      BY <2>1 DEF FoeData
  <2>3. Served(req) = q
      BY <2>2 DEF Served
  <2>4. req \in FoeDatas
    <3>1. Word("foe write").kind = "foe write"
        BY DEF Word
    <3> QED
        BY <2>2, <3>1 DEF FoeWriteAsk
  <2>5. req.no = dev.no + 1
    <3>1. \A k \in Nat : k # 0 => (k - 1) + 1 = k
        BY ONLY TRUE
    <3>2. dev.no = p - 1 /\ req.no = p
        BY <1>1, <1>3, <2>2
    <3>3. (p - 1) + 1 = p
        BY ONLY <1>1, <1>3, <3>1
    <3> QED
        BY ONLY <3>2, <3>3
  <2>6. /\ q \in DevSet /\ \E m \in FoeAcks : q.todo = <<m>>
        /\ q.no = req.no /\ q.got = Glue(dev.got, req.piece)
        /\ Span(req.piece) < FullPacket => q.stored = Glue(dev.got, req.piece)
      BY <2>4, <2>5, FoeTakenIs
  <2> HIDE DEF q
  <2>7. Glue(dev.got, req.piece) = Entire(y) /\ Span(req.piece) = y - x
    <3>1. Glue(Entire(x), <<x, y>>) = Entire(y)
        BY <1>1, GlueEntire
    <3>2. Span(<<x, y>>) = y - x
        BY DEF Span
    <3> QED
        BY ONLY <1>1, <2>2, <3>1, <3>2
  <2>8. q.no = p /\ q.got = Entire(y) /\ (y - x < FullPacket => q.stored = Entire(y))
      BY <2>2, <2>6, <2>7
  <2>9. job' = job => FullPacket' = FullPacket
      BY FoeWriteSteady
  <2> QED
      BY <2>3, <2>6, <2>8, <2>9 DEF FoeAfter
<1> QED
    BY <1>2, <1>3

LEMMA FoeWriteLink ==
  ASSUME FoeWriteInv, job.op = "FOEwrite", LinkStep
  PROVE  FoeWriteInv'
<1> DEFINE A == FoeWriteAsk
           T == FoeWriteTell
<1>0. /\ Base /\ Talk(A, T) /\ Lock /\ buf = <<>> /\ pc # "empty" /\ job \in Jobs /\ dev \in DevSet
      /\ (pc \notin Over => \E p, x, y \in Nat : FoeAt(p, x, y) /\ (alive => FoeUnder(p, x, y)))
      /\ (wkc > 0 => /\ outbox = Null
                     /\ \/ dev.stored = Entire(job.size)
                        \/ dev.busy /\ (loc.sendpacket = 0 \/ loc.segmentdata = 0))
    BY DEF FoeWriteInv, Base
<1>1. /\ A \subseteq Said /\ T \subseteq Said /\ Null \notin A /\ Null \notin T
      /\ Abort \in T /\ Abort \notin FoeAcks /\ Abort # Word("foe busy") /\ Null \notin FoeAcks
      /\ Word("foe busy") \in T /\ Word("foe busy") # Null /\ Word("foe busy") \notin FoeAcks
      /\ FoeAcks \subseteq T
    BY <1>0, FoeWriteSaid
<1>2. UNCHANGED <<job, req, loc, buf, wkc>> /\ pc' \in {pc, "send"} /\ (pc' \notin Over => pc \notin Over)
    BY DEF LinkStep, Purge, Serve, PostNext, Vanish, vars, callVars
<1>3. A' = A /\ T' = T /\ FoeAcks' = FoeAcks /\ FullPacket' = FullPacket
      /\ Word("foe busy")' = Word("foe busy") /\ \A p, x, y : FoeAt(p, x, y)' <=> FoeAt(p, x, y)
    BY <1>2, FoeWriteSteady DEF FoeAt, FoeData, NeedsFinalZero, Word
<1> HIDE DEF A, T
<1>4. CASE Purge \/ PostNext \/ Vanish \/ UNCHANGED vars
  <2>1. /\ Lock' /\ ((pc = "purge" /\ pc' = "send") \/ pc' = pc)
        /\ pc = "receive" /\ alive' => /\ alive /\ Coming' = Coming /\ outbox' = outbox
        /\ SameDevice(dev') /\ dev'.busy = dev.busy
      BY <1>0, <1>1, <1>4, LockLink
  <2>2. Base' /\ Talk(A, T)'
    <3>1. CASE Purge
        BY <1>0, <1>3, <3>1, PurgeStep DEF Talk
    <3>2. CASE PostNext
        BY <1>0, <1>1, <1>3, <3>2, PostStep DEF Talk
    <3>3. CASE Vanish
        BY <1>0, <1>3, <3>3, VanishStep DEF Talk
    <3>4. CASE UNCHANGED vars
        BY <1>0, <1>3, <3>4, StutterStep DEF Talk
    <3> QED
        BY <1>4, <3>1, <3>2, <3>3, <3>4
  <2>3. dev'.no = dev.no /\ dev'.got = dev.got /\ dev'.stored = dev.stored /\ (alive' => alive)
    <3>1. alive' => alive
        BY <1>0, <1>4 DEF Purge, PostNext, Vanish, vars, linkVars
    <3> QED
        BY <2>1, <3>1 DEF SameDevice
  <2>4. outbox' # Null => outbox' = outbox
      BY <1>4 DEF Purge, PostNext, Vanish, vars, linkVars
  <2>5. ASSUME NEW p, NEW x, NEW y
        PROVE  (FoeBefore(p, x)' <=> FoeBefore(p, x)) /\ (FoeAfter(p, x, y)' <=> FoeAfter(p, x, y))
      BY <1>3, <2>3 DEF FoeBefore, FoeAfter
  <2>6. ASSUME NEW p, NEW x, NEW y, alive', FoeUnder(p, x, y) PROVE FoeUnder(p, x, y)'
    <3>1. CASE pc' = "receive"
      <4>1. pc = "receive"
          BY <2>1, <3>1
      <4> QED
          BY <1>2, <1>3, <2>1, <2>5, <2>6, <3>1, <4>1 DEF FoeUnder
    <3>2. CASE pc' # "receive"
      <4>1. pc' \in {"purge", "send"} => pc \in {"purge", "send"}
          BY <2>1
      <4> QED
          BY <2>5, <2>6, <3>2, <4>1 DEF FoeUnder
    <3> QED
        BY <3>1, <3>2
  <2>7. pc' \notin Over => \E p, x, y \in Nat : FoeAt(p, x, y)' /\ (alive' => FoeUnder(p, x, y)')
      BY <1>0, <1>2, <1>3, <2>3, <2>6
  <2>8. pc' # "empty"
      BY <1>0, <2>1
  <2> QED
      BY <1>0, <1>2, <2>1, <2>2, <2>3, <2>4, <2>7, <2>8 DEF FoeWriteInv, A, T
<1>5. CASE Serve
  <2>1. /\ req' \in A /\ inbox' \in T \cup {Null} /\ outbox' = Null /\ outbox \in A /\ outbox # Null
        /\ alive /\ dev.todo = <<>> /\ DevSet' = DevSet
        /\ UNCHANGED <<job, pc, req, loc, buf, wkc, inbox, alive, missed, late, unsent>>
        /\ (dev' \in DevSet => Base')
        /\ \/ dev' = Served(outbox) \/ dev' = Reply(Abort)
           \/ dev' = FoeBusy
      BY <1>0, <1>1, <1>5, ServeStep
  <2>2. pc \in {"receive"} \cup Over
      BY <1>0, <2>1 DEF Base, Lock
  <2>3. ~(wkc > 0)
      BY <1>0, <2>1
  <2>4. CASE dev' = Reply(Abort)
    <3>1. Abort \in Said
        BY <1>1
    <3>2. dev' \in DevSet /\ dev'.todo = <<Abort>>
        BY <1>0, <2>4, <3>1, ReplyIs
    <3>3. \E m \in T : dev'.todo = <<m>>
        BY <1>1, <3>2
    <3>4. Lock' /\ (pc = "receive" => Coming' = Abort)
        BY <1>0, <1>1, <1>5, <3>2, <3>3, LockServe
    <3>5. dev'.todo \in Seq(T)
      <4>1. \A m \in T : <<m>> \in Seq(T)
          OBVIOUS
      <4> QED
          BY <3>3, <4>1
    <3>6. Base' /\ Talk(A, T)'
        BY <1>3, <2>1, <3>2, <3>5 DEF Talk
    <3>7. ASSUME NEW p, NEW x, NEW y PROVE FoeUnder(p, x, y)'
        BY <1>1, <1>3, <2>1, <2>2, <3>4 DEF FoeUnder
    <3>8. pc' \notin Over => \E p, x, y \in Nat : FoeAt(p, x, y)' /\ (alive' => FoeUnder(p, x, y)')
        BY <1>0, <1>2, <1>3, <3>7
    <3> QED
        BY <1>0, <1>2, <2>1, <2>3, <3>4, <3>6, <3>8 DEF FoeWriteInv, A, T
  <2>5. CASE dev' = FoeBusy
    <3>1. dev' \in DevSet /\ dev'.todo = <<Word("foe busy")>> /\ dev'.busy = TRUE /\ SameDevice(dev')
        BY <1>0, <2>5, BusyIs
    <3>3. \E m \in T : dev'.todo = <<m>>
        BY <1>1, <3>1
    <3>4. Lock' /\ (pc = "receive" => Coming' = Word("foe busy"))
        BY <1>0, <1>1, <1>5, <3>1, <3>3, LockServe
    <3>5. dev'.todo \in Seq(T)
      <4>1. \A m \in T : <<m>> \in Seq(T)
          OBVIOUS
      <4> QED
          BY <3>3, <4>1
    <3>6. Base' /\ Talk(A, T)'
        BY <1>3, <2>1, <3>1, <3>5 DEF Talk
    <3>7. ASSUME NEW p, NEW x, NEW y, FoeUnder(p, x, y), pc = "receive" PROVE FoeUnder(p, x, y)'
      <4>1. FoeBefore(p, x)
          BY <2>1, <3>7 DEF FoeUnder
      <4>2. FoeBefore(p, x)'
          BY <3>1, <4>1 DEF FoeBefore, SameDevice
      <4> QED
          BY <1>1, <1>3, <2>1, <3>1, <3>4, <3>7, <4>2 DEF FoeUnder
    <3>8. pc' \notin Over => \E p, x, y \in Nat : FoeAt(p, x, y)' /\ (alive' => FoeUnder(p, x, y)')
        BY <1>0, <1>2, <1>3, <2>1, <2>2, <3>7
    <3> QED
        BY <1>0, <1>2, <2>1, <2>3, <3>4, <3>6, <3>8 DEF FoeWriteInv, A, T
  <2>6. CASE dev' = Served(outbox) /\ pc = "receive"
    <3>1. PICK p \in Nat, x \in Nat, y \in Nat : FoeAt(p, x, y) /\ FoeUnder(p, x, y)
        BY <1>0, <2>1, <2>6
    <3>2. outbox = req /\ FoeBefore(p, x)
        BY <2>1, <2>6, <3>1 DEF FoeUnder
    <3>3. /\ dev' \in DevSet /\ FoeAfter(p, x, y)'
          /\ \E m \in FoeAcks : dev'.todo = <<m>>
      <4>1. req \in FoeWriteAsk
          BY <2>1, <3>2 DEF A
      <4>2. dev' = Served(req)
          BY <2>6, <3>2
      <4> QED
          BY <1>0, <2>1, <3>1, <3>2, <4>1, <4>2, FoeWriteServed
    <3>4. PICK m \in FoeAcks : dev'.todo = <<m>>
        BY <3>3
    <3>5. m \in T /\ m # Word("foe busy")
        BY <1>1
    <3>6. Lock' /\ Coming' = m
        BY <1>0, <1>1, <1>5, <2>6, <3>4, <3>5, LockServe
    <3>7. dev'.todo \in Seq(T)
      <4>1. \A k \in T : <<k>> \in Seq(T)
          OBVIOUS
      <4> QED
          BY <3>4, <3>5, <4>1
    <3>8. Base' /\ Talk(A, T)'
        BY <1>3, <2>1, <3>3, <3>7 DEF Talk
    <3>9. FoeUnder(p, x, y)'
        BY <1>1, <1>3, <2>1, <2>6, <3>3, <3>5, <3>6 DEF FoeUnder
    <3>10. FoeAt(p, x, y)'
        BY <1>3, <3>1
    <3> QED
        BY <1>0, <1>2, <2>1, <2>3, <3>1, <3>6, <3>8, <3>9, <3>10 DEF FoeWriteInv, A, T
  <2>7. CASE dev' = Served(outbox) /\ pc \in Over
    <3>1. outbox = Word("foe write") \/ outbox \in FoeDatas
        BY <2>1 DEF A, FoeWriteAsk
    <3>2. dev' \in DevSet /\ \E m \in T : dev'.todo = <<m>>
      <4>1. CASE outbox = Word("foe write")
        <5> DEFINE m == [kind |-> "foe ack", no |-> 0]
        <5>1. outbox.kind = "foe write"
            BY <4>1 DEF Word
        <5>2. dev' = Reply(m)
            BY <2>7, <5>1 DEF Served
        <5>3. m \in FoeAcks
            BY DEF FoeAcks
        <5>4. m \in T /\ m \in Said
            BY <1>1, <5>3
        <5> HIDE DEF m
        <5> QED
            BY <1>0, <5>2, <5>4, ReplyIs
      <4>2. CASE outbox \in FoeDatas
        <5>1. outbox.kind = "foe data"
            BY <4>2 DEF FoeDatas
        <5>2. dev' = FoeTaken(outbox)
            BY <2>7, <5>1 DEF Served
        <5>3. \/ outbox.no # dev.no + 1
              \/ outbox.no = dev.no + 1
            OBVIOUS
        <5> QED
            BY <1>0, <1>1, <4>2, <5>2, <5>3, FoeTakenIs
      <4> QED
          BY <3>1, <4>1, <4>2
    <3>3. Lock'
        BY <1>0, <1>1, <1>5, <3>2, LockServe
    <3>4. dev'.todo \in Seq(T)
      <4>1. \A m \in T : <<m>> \in Seq(T)
          OBVIOUS
      <4> QED
          BY <3>2, <4>1
    <3>5. Base' /\ Talk(A, T)'
        BY <1>3, <2>1, <3>2, <3>4 DEF Talk
    <3> QED
        BY <1>0, <1>2, <2>1, <2>3, <2>7, <3>3, <3>5 DEF FoeWriteInv, A, T
  <2> QED
      BY <2>1, <2>2, <2>4, <2>5, <2>6, <2>7
<1> QED
    BY <1>4, <1>5 DEF LinkStep

LEMMA FoeDataNext ==
  ASSUME job \in Jobs, job' = job, NEW x \in Nat, x <= job.size, NEW p \in Nat, p # 0, FOEdata(x, p)
  PROVE  \E y \in Nat :
           /\ y = x + Lower(job.size - x, FullPacket) /\ x <= y /\ y <= job.size
           /\ y - x = Lower(job.size - x, FullPacket) /\ (y = x => x = job.size)
           /\ \/ FoeAt(p, x, y)' /\ pc' = "send" /\ req' \in FoeDatas /\ wkc' = wkc
              \/ Return(1) /\ y = x /\ ~loc.dofinalzero
<1>1. PICK y \in Nat :
        /\ y = x + Lower(job.size - x, FullPacket) /\ x <= y /\ y <= job.size
        /\ y - x = Lower(job.size - x, FullPacket)
        /\ FoeData(p, x, y) \in FoeDatas
        /\ y - x <= FullPacket /\ (y = x => x = job.size)
    BY FoeDataIs
<1> DEFINE n == Lower(job.size - x, FullPacket)
<1>2. \/ /\ Say([kind |-> "foe data", no |-> p, piece |-> <<x, x + n>>])
         /\ loc' = [at |-> x + n, sendpacket |-> p, segmentdata |-> n,
                    dofinalzero |-> NeedsFinalZero(x, n)]
      \/ ~(n > 0 \/ loc.dofinalzero) /\ Return(1)
    BY DEF FOEdata
<1> HIDE DEF n
<1>3. n = y - x /\ y = x + n
    BY <1>1 DEF n
<1>4. CASE /\ Say([kind |-> "foe data", no |-> p, piece |-> <<x, x + n>>])
           /\ loc' = [at |-> x + n, sendpacket |-> p, segmentdata |-> n,
                      dofinalzero |-> NeedsFinalZero(x, n)]
  <2>1. /\ req' = FoeData(p, x, y) /\ pc' = "send" /\ wkc' = wkc
        /\ loc' = [at |-> y, sendpacket |-> p, segmentdata |-> y - x, dofinalzero |-> NeedsFinalZero(x, y - x)]
      BY <1>3, <1>4 DEF Say, FoeData
  <2>2. (p = 0 \/ NeedsFinalZero(x, y - x)) = NeedsFinalZero(x, y - x)
      BY DEF NeedsFinalZero
  <2>3. FullPacket' = FullPacket /\ NeedsFinalZero(x, y - x)' = NeedsFinalZero(x, y - x)
      BY DEF FullPacket, NeedsFinalZero
  <2>4. FoeAt(p, x, y)'
      BY <1>1, <2>1, <2>2, <2>3 DEF FoeAt, FoeData
  <2> QED
      BY <1>1, <2>1, <2>4
<1>5. CASE ~(n > 0 \/ loc.dofinalzero) /\ Return(1)
  <2>1. y = x
      BY <1>1, <1>3, <1>5
  <2> QED
      BY <1>1, <1>5, <2>1
<1> QED
    BY <1>2, <1>4, <1>5

LEMMA FoeWriteTake ==
  ASSUME FoeWriteInv, Unfinished, job.op = "FOEwrite", FOEwriteSend \/ FOEwriteReceive
  PROVE  FoeWriteInv'
<1> DEFINE A == FoeWriteAsk
           T == FoeWriteTell
<1>0. /\ Base /\ Talk(A, T) /\ Lock /\ buf = <<>> /\ pc # "empty" /\ job \in Jobs /\ dev \in DevSet
      /\ (pc \notin Over => \E p, x, y \in Nat : FoeAt(p, x, y) /\ (alive => FoeUnder(p, x, y)))
    BY DEF FoeWriteInv, Base
<1>1. /\ A \subseteq Said /\ T \subseteq Said /\ Null \notin A /\ Null \notin T
      /\ Abort \in T /\ Abort \notin FoeAcks /\ Abort # Word("foe busy") /\ Null \notin FoeAcks
      /\ Word("foe busy") \in T /\ Word("foe busy") # Null /\ Word("foe busy") \notin FoeAcks
      /\ FoeAcks \subseteq T /\ FoeDatas \subseteq A
      /\ \A m \in FoeAcks : m.kind = "foe ack"
      /\ Word("foe busy").kind = "foe busy" /\ Abort.kind = "abort"
      /\ \A m \in T : m = Abort \/ m = Word("foe busy") \/ m \in FoeAcks
    BY <1>0, FoeWriteSaid DEF FoeWriteAsk, FoeWriteTell
<1>2. pc \notin Over /\ wkc = 0
    BY DEF Unfinished, FOEwriteSend, FOEwriteReceive, Sending, Receiving
<1>3. PICK p \in Nat, x \in Nat, y \in Nat : FoeAt(p, x, y) /\ (alive => FoeUnder(p, x, y))
    BY <1>0, <1>2
<1>4. ASSUME job' = job
      PROVE  /\ A' = A /\ T' = T /\ FoeAcks' = FoeAcks /\ FullPacket' = FullPacket /\ Jobs' = Jobs
             /\ Word("foe busy")' = Word("foe busy")
    BY <1>4, FoeWriteSteady
<1> HIDE DEF A, T
<1>5. CASE FOEwriteSend
  <2>1. PICK ok \in BOOLEAN :
           /\ Sending("FOEwrite", ok) /\ buf' = buf
           /\ IF ok THEN Wait /\ UNCHANGED loc ELSE Return(0)
      BY <1>5 DEF FOEwriteSend, Keep
  <2>2. /\ outbox' \in A \cup {Null} /\ inbox' \in T \cup {Null} /\ dev'.todo \in Seq(T)
        /\ UNCHANGED <<job, inbox, dev, alive, missed>>
        /\ dev' \in DevSet' /\ late' \in BOOLEAN /\ unsent' \in BOOLEAN
        /\ ok => alive /\ outbox = Null /\ outbox' = req
        /\ pc = "send"
      BY <1>0, <2>1, SendStep
  <2>3. A' = A /\ T' = T /\ FoeAcks' = FoeAcks /\ FullPacket' = FullPacket /\ Jobs' = Jobs
        /\ Word("foe busy")' = Word("foe busy")
      BY <1>4, <2>2
  <2>4. req' = req /\ loc' = loc /\ (pc' = "done" \/ (ok /\ pc' = "receive")) /\ wkc' \in {0, wkc}
      BY <2>1 DEF Wait, Return
  <2>5. Lock'
      BY <1>0, <2>1, <2>4, LockSend
  <2>6. wkc' = 0
      BY <1>2, <2>4
  <2>7. Base' /\ Talk(A, T)'
      BY <1>0, <2>1, <2>2, <2>3, <2>4, <2>6 DEF Base, Talk
  <2>8. FoeAt(p, x, y)'
      BY <1>3, <2>2, <2>3, <2>4 DEF FoeAt, NeedsFinalZero, FoeData, Word
  <2>9. alive' /\ pc' \notin Over => FoeUnder(p, x, y)'
    <3> SUFFICES ASSUME alive', pc' \notin Over PROVE FoeUnder(p, x, y)'
        OBVIOUS
    <3>1. inbox = Null /\ dev.todo = <<>> /\ alive
        BY <1>0, <2>2 DEF Lock
    <3>2. pc' = "receive" /\ outbox' = req
        BY <2>2, <2>4
    <3>3. Coming' = Null
        BY <2>2, <3>1 DEF Coming
    <3>4. FoeBefore(p, x)
        BY <1>3, <2>2, <3>1 DEF FoeUnder
    <3>5. FoeBefore(p, x)'
        BY <2>2, <3>4 DEF FoeBefore
    <3> QED
        BY <1>1, <2>3, <2>4, <3>2, <3>3, <3>5 DEF FoeUnder
  <2>10. pc' \notin Over => \E c, e, u \in Nat : FoeAt(c, e, u)' /\ (alive' => FoeUnder(c, e, u)')
      BY <1>3, <2>8, <2>9
  <2>11. ~(wkc' > 0) /\ pc' # "empty"
      BY <2>4, <2>6
  <2> QED
      BY <1>0, <2>1, <2>5, <2>7, <2>10, <2>11 DEF FoeWriteInv, A, T
<1>6. CASE FOEwriteReceive
  <2>1. PICK m \in Answers :
          /\ Receiving("FOEwrite", m) /\ buf' = buf
          /\ \/ m = Null /\ Return(0)
             \/ /\ m # Null /\ m.kind = "foe ack"
                /\ IF m.no = loc.sendpacket THEN FOEdata(loc.at, loc.sendpacket + 1) ELSE Return(-1)
             \/ /\ m # Null /\ m.kind = "foe busy"
                /\ IF loc.sendpacket > 0 THEN FOEdata(loc.at - loc.segmentdata, loc.sendpacket)
                   ELSE Return(1)
             \/ m # Null /\ m.kind \notin {"foe ack", "foe busy"} /\ Return(-1)
      BY <1>6 DEF FOEwriteReceive, Keep
  <2>2. /\ outbox' \in A \cup {Null} /\ inbox' \in T \cup {Null} /\ dev'.todo \in Seq(T)
        /\ UNCHANGED <<job, outbox, dev, alive, unsent>>
        /\ dev' \in DevSet' /\ late' \in BOOLEAN /\ missed' \in BOOLEAN /\ pc = "receive"
        /\ m # Null => m \in T
      BY <1>0, <1>1, <2>1, ReceiveStep
  <2>3. A' = A /\ T' = T /\ FoeAcks' = FoeAcks /\ FullPacket' = FullPacket /\ Jobs' = Jobs
        /\ Word("foe busy")' = Word("foe busy")
      BY <1>4, <2>2
  <2>4. pc' = "done" \/ (m # Null /\ pc' = "send")
      BY <2>1 DEF Return, Say, FOEdata
  <2>5. /\ Lock' /\ (m # Null => m = Coming /\ alive /\ outbox = Null)
    <3>1. Base /\ Talk(A, T) /\ Lock /\ Null \notin T /\ Receiving("FOEwrite", m)
        BY <1>0, <1>1, <2>1
    <3>2. pc' = "done" \/ ((m # Null \/ ~late') /\ pc' \in {"purge", "send"})
        BY <2>4
    <3>3. Lock'
        BY <3>1, <3>2, LockReceive
    <3>4. m # Null => m = Coming /\ alive /\ m \in T /\ outbox = Null
        BY <3>1, <3>2, LockReceive
    <3> QED
        BY <3>3, <3>4
  <2>6. /\ loc.at = y /\ loc.sendpacket = p /\ loc.segmentdata = y - x
        /\ (loc.dofinalzero <=> (p = 0 \/ NeedsFinalZero(x, y - x)))
        /\ x <= y /\ y <= job.size /\ (p # 0 => y = x + Lower(job.size - x, FullPacket))
      BY <1>3 DEF FoeAt
  <2>7. ASSUME NEW c \in Nat, NEW e \in Nat, NEW u \in Nat, FoeAt(c, e, u)', FoeBefore(c, e),
               pc' = "send", req' \in FoeDatas, wkc' = wkc
        PROVE  FoeWriteInv'
    <3>1. Base' /\ Talk(A, T)'
        BY <1>0, <1>1, <2>1, <2>2, <2>3, <2>7 DEF Base, Talk
    <3>2. FoeBefore(c, e)'
        BY <2>2, <2>7 DEF FoeBefore
    <3>3. FoeUnder(c, e, u)'
        BY <2>7, <3>2 DEF FoeUnder
    <3>4. ~(wkc' > 0)
        BY <1>2, <2>7
    <3> QED
        BY <1>0, <2>1, <2>5, <2>7, <3>1, <3>3, <3>4 DEF FoeWriteInv, A, T
  <2>8. ASSUME NEW w \in Int, Return(w),
               w > 0 => /\ outbox = Null
                        /\ \/ dev.stored = Entire(job.size)
                           \/ dev.busy /\ (loc.sendpacket = 0 \/ loc.segmentdata = 0)
        PROVE  FoeWriteInv'
    <3>1. pc' = "done" /\ wkc' = w /\ UNCHANGED <<req, loc>>
        BY <2>8 DEF Return
    <3>2. Base' /\ Talk(A, T)'
        BY <1>0, <1>1, <2>1, <2>2, <2>3, <3>1 DEF Base, Talk
    <3> QED
        BY <1>0, <2>1, <2>2, <2>5, <2>8, <3>1, <3>2 DEF FoeWriteInv, A, T
  <2>n. 0 \in Int /\ 1 \in Int /\ -1 \in Int /\ ~(0 > 0) /\ ~(-1 > 0)
      BY ONLY TRUE
  <2>9. CASE m = Null
    <3>1. Return(0)
        BY <2>1, <2>9
    <3> QED
        BY <2>8, <2>n, <3>1
  <2>10. CASE m \in FoeAcks
    <3>1. /\ m.kind = "foe ack" /\ m # Null
          /\ IF m.no = loc.sendpacket THEN FOEdata(loc.at, loc.sendpacket + 1) ELSE Return(-1)
        BY <1>1, <2>1, <2>10
    <3>2. CASE m.no # loc.sendpacket
      <4>1. Return(-1)
          BY <3>1, <3>2
      <4> QED
          BY <2>8, <2>n, <4>1
    <3>3. CASE m.no = loc.sendpacket
      <4>1. FOEdata(y, p + 1)
          BY <2>6, <3>1, <3>3
      <4>2. FoeAfter(p, x, y)
          BY <1>3, <2>2, <2>5, <2>10, <3>1 DEF FoeUnder
      <4>3. PICK u \in Nat :
              /\ u = y + Lower(job.size - y, FullPacket) /\ y <= u /\ u <= job.size
              /\ u - y = Lower(job.size - y, FullPacket) /\ (u = y => y = job.size)
              /\ \/ FoeAt(p + 1, y, u)' /\ pc' = "send" /\ req' \in FoeDatas /\ wkc' = wkc
                 \/ Return(1) /\ u = y /\ ~loc.dofinalzero
        <5>1. p + 1 \in Nat /\ p + 1 # 0
            OBVIOUS
        <5> QED
            BY <1>0, <2>2, <2>6, <4>1, <5>1, FoeDataNext
      <4>4. CASE FoeAt(p + 1, y, u)' /\ pc' = "send" /\ req' \in FoeDatas /\ wkc' = wkc
        <5>1. p + 1 # 0 /\ (p + 1) - 1 = p /\ p + 1 \in Nat
            OBVIOUS
        <5>2. FoeBefore(p + 1, y)
            BY <4>2, <5>1 DEF FoeBefore, FoeAfter
        <5> QED
            BY <2>7, <4>4, <5>1, <5>2
      <4>5. CASE Return(1) /\ u = y /\ ~loc.dofinalzero
        <5>1. y = job.size /\ p # 0 /\ ~NeedsFinalZero(x, y - x)
            BY <2>6, <4>3, <4>5
        <5>2. y - x < FullPacket
          <6>1. FullPacket \in Int /\ job.size \in Nat
              BY <1>0, JobIs DEF FullPacket
          <6>2. x + (y - x) = job.size
              BY <5>1
          <6>3. y - x # FullPacket
              BY <5>1, <6>2 DEF NeedsFinalZero
          <6>4. y - x <= FullPacket
              BY <2>6, <5>1, <6>1 DEF Lower
          <6> QED
              BY <6>1, <6>3, <6>4
        <5>3. dev.stored = Entire(job.size)
            BY <4>2, <5>1, <5>2 DEF FoeAfter
        <5> QED
            BY <2>5, <2>8, <2>n, <3>1, <4>5, <5>3
      <4> QED
          BY <4>3, <4>4, <4>5
    <3> QED
        BY <3>2, <3>3
  <2>11. CASE m = Word("foe busy")
    <3>1. /\ m.kind = "foe busy" /\ m # Null
          /\ IF loc.sendpacket > 0 THEN FOEdata(loc.at - loc.segmentdata, loc.sendpacket) ELSE Return(1)
        BY <1>1, <2>1, <2>11
    <3>2. FoeBefore(p, x) /\ dev.busy /\ outbox = Null
        BY <1>3, <2>2, <2>5, <2>11, <3>1 DEF FoeUnder
    <3>3. CASE p = 0
      <4>1. Return(1)
        <5>1. ~(loc.sendpacket > 0)
            BY ONLY <2>6, <2>n, <3>3
        <5> QED
            BY <3>1, <5>1
      <4> QED
          BY <2>6, <2>8, <2>n, <3>2, <3>3, <4>1
    <3>4. CASE p # 0
      <4>1. y - (y - x) = x
          BY <2>6
      <4>2. FOEdata(x, p)
        <5>1. \A k \in Nat : k # 0 => k > 0
            BY ONLY TRUE
        <5>2. loc.sendpacket > 0
            BY ONLY <2>6, <3>4, <5>1
        <5>3. FOEdata(loc.at - loc.segmentdata, loc.sendpacket)
            BY ONLY <3>1, <5>2
        <5>4. loc.at - loc.segmentdata = x /\ loc.sendpacket = p
            BY ONLY <2>6, <4>1
        <5> QED
            BY ONLY <5>3, <5>4
      <4>3. x <= job.size
          BY <1>0, <2>6, JobIs
      <4>4. PICK u \in Nat :
              /\ u = x + Lower(job.size - x, FullPacket) /\ x <= u /\ u <= job.size
              /\ u - x = Lower(job.size - x, FullPacket) /\ (u = x => x = job.size)
              /\ \/ FoeAt(p, x, u)' /\ pc' = "send" /\ req' \in FoeDatas /\ wkc' = wkc
                 \/ Return(1) /\ u = x /\ ~loc.dofinalzero
          BY <1>0, <2>2, <3>4, <4>2, <4>3, FoeDataNext
      <4>5. CASE FoeAt(p, x, u)' /\ pc' = "send" /\ req' \in FoeDatas /\ wkc' = wkc
          BY <2>7, <3>2, <4>5
      <4>6. CASE Return(1) /\ u = x /\ ~loc.dofinalzero
        <5>1. u = y
            BY <2>6, <3>4, <4>4
        <5>2. loc.segmentdata = 0
            BY <2>6, <4>6, <5>1
        <5> QED
            BY <2>8, <2>n, <3>2, <4>6, <5>2
      <4> QED
          BY <4>4, <4>5, <4>6
    <3> QED
        BY <3>3, <3>4
  <2>12. CASE m = Abort /\ m # Null
    <3>1. Return(-1)
        BY <1>1, <2>1, <2>12
    <3> QED
        BY <2>8, <2>n, <3>1
  <2> QED
      BY <1>1, <2>2, <2>9, <2>10, <2>11, <2>12
<1> QED
    BY <1>5, <1>6

-----------------------------------------------------------------------------
(* ecx_SDOwrite.  Chunk is the length of the data in the first frame.      *)
Chunk == IF job.size <= 4 THEN job.size ELSE Lower(job.size, MaxData)

SdoWriteAsk == Uploads \cup {Download(job.size)} \cup DownloadSegments
SdoWriteTell == FirstAnswers \cup Downloadeds \cup {Word("segment downloaded"), Abort}

(* What passes for the answer to the first frame.                          *)
Answering(m) == m \in FirstAnswers \cup Downloadeds /\ m.index = "x"

(* Before the first frame is answered: the only answer of the call's index *)
(* is that to its own request, and then the slave has that frame's data.   *)
FirstFrame ==
  /\ pc \in {"purge", "send"} => outbox # Download(job.size)
  /\ outbox \in Uploads => outbox.index # "x"
  /\ outbox \notin DownloadSegments
  /\ Answering(inbox) \/ Answering(Posting) =>
       /\ outbox = Null /\ dev.want = job.size /\ dev.got = Entire(Chunk)
       /\ pc \notin {"purge", "send"}
       /\ Chunk = job.size => dev.stored = Entire(job.size)
  /\ Answering(inbox) => dev.todo = <<>>

(* The segment from x to y.                                                *)
SegmentAt(x, y) ==
  /\ x \in Nat /\ y \in Nat /\ x <= y /\ y <= job.size /\ pc # "purge"
  /\ req \in DownloadSegments /\ req.piece = <<x, y>> /\ (req.last <=> y = job.size)
  /\ loc.at = y /\ (loc.notLast <=> y # job.size) /\ loc.toggle \in BOOLEAN

(* What the slave has is either the beginning of the object without a hole *)
(* or too short ever to be taken for the whole.                            *)
SegmentUnder(x, y) ==
  /\ dev.want = job.size /\ Tight(dev.got, y)
  /\ pc = "send" => Tight(dev.got, x)
  /\ outbox # Null => outbox = req /\ Tight(dev.got, x)
  /\ pc = "receive" /\ Coming = Word("segment downloaded") /\ y = job.size => dev.stored = Entire(job.size)

SdoWriteInv ==
  /\ Base /\ Talk(SdoWriteAsk, SdoWriteTell) /\ buf = <<>> /\ pc # "empty" /\ Len(dev.todo) <= 1
  /\ loc.segment \in BOOLEAN
  /\ ~loc.segment => req = Download(job.size) /\ loc = SDOwriteLoc(job.size, Chunk)
  /\ ~loc.segment /\ ~Mistaken /\ pc \notin Over => FirstFrame
  /\ loc.segment => \E x, y \in Nat :
       SegmentAt(x, y) /\ (~Mistaken /\ ~late /\ pc \notin Over => Lock /\ (alive => SegmentUnder(x, y)))
  /\ wkc > 0 => \/ outbox = Null /\ dev.stored = Entire(job.size)
                \/ loc.segment /\ late
                \/ Mistaken

LEMMA ChunkIs ==
  ASSUME job \in Jobs
  PROVE  /\ Chunk \in Nat /\ Chunk <= job.size /\ Download(job.size).piece = <<0, Chunk>>
         /\ Download(job.size) \in Downloads /\ Download(job.size).size = job.size
         /\ Download(job.size).kind = "download"
         /\ Download(job.size).index = "x" /\ Download(job.size).sub = 1
<1> DEFINE m == Download(job.size)
<1>1. Chunk \in Nat /\ Chunk <= job.size /\ job.size \in Nat
    BY JobIs DEF Chunk, Lower, MaxData
<1>2. m = [kind |-> "download", index |-> "x", sub |-> 1, piece |-> <<0, Chunk>>, size |-> job.size]
    BY DEF Download, Chunk
<1>3. <<0, Chunk>> \in Part
    BY <1>1 DEF Part
<1> HIDE DEF m
<1>4. m \in Downloads
    BY <1>2, <1>3 DEF Downloads
<1> QED
    BY <1>1, <1>2, <1>4 DEF m

LEMMA SdoWriteSaid ==
  ASSUME job \in Jobs
  PROVE  /\ SdoWriteAsk \subseteq Said /\ SdoWriteTell \subseteq Said
         /\ Null \notin SdoWriteAsk /\ Null \notin SdoWriteTell
         /\ Null \notin Uploads /\ Null \notin DownloadSegments /\ Download(job.size) # Null
         /\ \A m \in Uploads : m.kind = "upload"
         /\ \A m \in DownloadSegments : m.kind = "download segment"
         /\ \A m \in FirstAnswers : m.kind \in {"expedited", "normal"}
         /\ \A m \in Downloadeds : m.kind = "downloaded" /\ m.index = "x" /\ m.sub = 1
         /\ Word("segment downloaded").kind = "segment downloaded" /\ Abort.kind = "abort"
<1>1. /\ Abort \in Said /\ Abort.kind = "abort"
      /\ Word("segment downloaded") \in Said /\ Word("segment downloaded").kind = "segment downloaded"
    BY ServiceSaid DEF Abort, Word
<1>2. Uploads \subseteq Said /\ Downloads \subseteq Said /\ DownloadSegments \subseteq Said
      /\ Uploadeds \subseteq Said /\ Downloadeds \subseteq Said
    BY CoeSaid
<1>3. FirstAnswers \subseteq Said
    BY <1>2 DEF FirstAnswers
<1>4. /\ \A m \in Uploads : m.kind = "upload"
      /\ \A m \in DownloadSegments : m.kind = "download segment"
      /\ \A m \in Downloadeds : m.kind = "downloaded" /\ m.index = "x" /\ m.sub = 1
    BY DEF Uploads, DownloadSegments, Downloadeds
<1>5. \A m \in FirstAnswers : m.kind \in {"expedited", "normal"}
    BY DEF FirstAnswers, Uploadeds
<1>6. Download(job.size) \in Said
    BY <1>2, ChunkIs
<1>7. Null \notin Said
    BY NullUnsaid
<1>8. SdoWriteAsk \subseteq Said /\ SdoWriteTell \subseteq Said
    BY <1>1, <1>2, <1>3, <1>6 DEF SdoWriteAsk, SdoWriteTell
<1> QED
    BY <1>1, <1>2, <1>4, <1>5, <1>6, <1>7, <1>8

LEMMA SdoWriteSteady ==
  ASSUME job' = job
  PROVE  /\ SdoWriteAsk' = SdoWriteAsk /\ SdoWriteTell' = SdoWriteTell
         /\ Chunk' = Chunk /\ FirstAnswers' = FirstAnswers /\ Downloadeds' = Downloadeds
         /\ Uploads' = Uploads /\ DownloadSegments' = DownloadSegments /\ (Mistaken' <=> Mistaken)
         /\ Word("segment downloaded")' = Word("segment downloaded")
         /\ Download(job.size)' = Download(job.size)
<1>1. FirstAnswers' = FirstAnswers /\ Uploads' = Uploads /\ (Mistaken' <=> Mistaken)
    BY SdoReadSteady
<1>2. Chunk' = Chunk /\ Download(job.size)' = Download(job.size)
    BY DEF Chunk, Download, MaxData
<1>3. DownloadSegments' = DownloadSegments /\ Downloadeds' = Downloadeds
    BY DEF DownloadSegments, Downloadeds, Part
<1> QED
    BY <1>1, <1>2, <1>3 DEF SdoWriteAsk, SdoWriteTell, Abort, Word

(* The next segment.                                                       *)
LEMMA NextPieceIs ==
  ASSUME job \in Jobs, NEW x \in Nat, x <= job.size
  PROVE  \E y \in Nat : /\ NextPiece(x) = <<x, y>> /\ x <= y /\ y <= job.size
                        /\ <<x, y>> \in Part /\ (y >= job.size <=> y = job.size)
<1> DEFINE n == Lower(job.size - x, MaxSegment)
<1>1. job.size \in Nat /\ MaxSegment \in Nat
    BY JobIs DEF MaxSegment, MaxData
<1>2. n \in Nat /\ n <= job.size - x
    BY <1>1 DEF Lower
<1>3. NextPiece(x) = <<x, x + n>>
    BY DEF NextPiece
<1> HIDE DEF n
<1>4. PICK y \in Nat : y = x + n
    BY <1>2
<1>5. x <= y /\ y <= job.size
    BY <1>1, <1>2, <1>4
<1>6. <<x, y>> \in Part
    BY <1>5 DEF Part
<1> QED
    BY <1>1, <1>3, <1>4, <1>5, <1>6

LEMMA DownloadedIs ==
  ASSUME job \in Jobs, dev \in DevSet
  PROVE  LET d == Downloaded(Download(job.size)) IN
         /\ d \in DevSet /\ d.want = job.size /\ d.got = Entire(Chunk)
         /\ \E m \in Downloadeds : d.todo = <<m>>
         /\ Chunk = job.size => d.stored = Entire(job.size)
<1> DEFINE r == Download(job.size)
           m == [kind |-> "downloaded", index |-> r.index, sub |-> r.sub]
           q == Reply(m)
           g == Glue(<<>>, r.piece)
<1>1. /\ r.index = "x" /\ r.sub = 1 /\ r.size = job.size /\ r.piece = <<0, Chunk>>
      /\ Chunk \in Nat /\ job.size \in Nat
    BY ChunkIs, JobIs
<1> HIDE DEF r
<1>2. m \in Downloadeds /\ m \in Said
    BY <1>1, CoeSaid DEF Downloadeds
<1>3. g = Entire(Chunk)
    BY <1>1 DEF Entire
<1>4. g \in Bufs /\ Length(g) = Chunk
    BY <1>1, <1>3, EntireIs
<1>5. Downloaded(r) = Storing([q EXCEPT !.got = g, !.want = r.size, !.toggle = FALSE])
    BY DEF Downloaded
<1> HIDE DEF m, g
<1>6. q \in DevSet /\ q.todo = <<m>>
    BY <1>2, ReplyIs
<1> HIDE DEF q
<1>7. ASSUME NEW u \in BOOLEAN
      PROVE  LET d == Storing(Loaded(q, g, job.size, u)) IN
             /\ d \in DevSet /\ d.got = g /\ d.want = job.size /\ d.todo = q.todo
             /\ Length(g) = job.size => d.stored = g
  <2> DEFINE d == Storing(Loaded(q, g, job.size, u))
  <2>0. q \in DevSet /\ g \in Bufs /\ job.size \in Nat /\ u \in BOOLEAN
      BY <1>1, <1>4, <1>6
  <2>1. d \in DevSet
      BY <2>0, StoreIs
  <2>2. d.got = g
      BY <2>0, StoreIs
  <2>3. d.want = job.size
      BY <2>0, StoreIs
  <2>4. d.todo = q.todo
      BY <2>0, StoreIs
  <2>5. Length(g) = job.size => d.stored = g
      BY <2>0, StoreIs
  <2> QED
      BY <2>1, <2>2, <2>3, <2>4, <2>5
<1>8. FALSE \in BOOLEAN
    OBVIOUS
<1>9. Downloaded(r) = Storing(Loaded(q, g, job.size, FALSE))
    BY <1>1, <1>5 DEF Loaded
<1>10. LET d == Downloaded(r) IN
       /\ d \in DevSet /\ d.got = g /\ d.want = job.size /\ d.todo = q.todo
       /\ Length(g) = job.size => d.stored = g
    BY <1>7, <1>8, <1>9
<1> QED
    BY <1>2, <1>3, <1>4, <1>6, <1>10 DEF r

LEMMA DownloadedSegmentIs ==
  ASSUME job \in Jobs, dev \in DevSet, NEW r \in DownloadSegments
  PROVE  LET d == DownloadedSegment(r) IN
         /\ d \in DevSet /\ d.want = dev.want
         /\ \/ d.todo = <<Abort>> /\ d.got = dev.got
            \/ /\ d.todo = <<Word("segment downloaded")>> /\ d.got = Glue(dev.got, r.piece)
               /\ r.last => Length(d.got) = dev.want
               /\ Length(d.got) = dev.want => d.stored = d.got
<1> DEFINE g == Glue(dev.got, r.piece)
<1>1. Abort \in Said /\ Word("segment downloaded") \in Said
    BY ServiceSaid DEF Abort, Word
<1>2. g \in Bufs
  <2>1. r.piece \in Part
      BY DEF DownloadSegments
  <2>2. r.piece \in Int \X Int /\ dev.got \in Bufs
      BY <2>1, PartIs DEF DevSet
  <2> QED
      BY <2>2, GlueLength
<1>3. CASE r.toggle # dev.toggle \/ (r.last /\ Length(g) # dev.want)
  <2>1. DownloadedSegment(r) = Reply(Abort)
      BY <1>3 DEF DownloadedSegment
  <2>2. Reply(Abort) \in DevSet /\ Reply(Abort).todo = <<Abort>> /\ SameDevice(Reply(Abort))
      BY <1>1, ReplyIs
  <2> QED
      BY <2>1, <2>2 DEF SameDevice
<1>4. CASE ~(r.toggle # dev.toggle \/ (r.last /\ Length(g) # dev.want))
  <2> DEFINE m == Word("segment downloaded")
             q == Reply(m)
             u == ~q.toggle
  <2>1. DownloadedSegment(r) = Storing([q EXCEPT !.got = g, !.toggle = ~@])
      BY <1>4 DEF DownloadedSegment, Word
  <2> HIDE DEF m, g
  <2>2. q \in DevSet /\ q.todo = <<m>> /\ q.want = dev.want
      BY <1>1, ReplyIs DEF m, SameDevice
  <2>3. u \in BOOLEAN /\ dev.want \in Nat
      BY DEF DevSet
  <2>4. [q EXCEPT !.got = g, !.toggle = ~@] = Loaded(q, g, dev.want, u)
    <3>1. [q EXCEPT !.got = g, !.toggle = ~@] = [q EXCEPT !.got = g, !.toggle = u]
        BY <2>2 DEF DevSet
    <3> HIDE DEF q, u
    <3>2. \A e \in DevSet : [e EXCEPT !.want = e.want] = e
        BY DEF DevSet
    <3> DEFINE e == [q EXCEPT !.got = g]
    <3>3. e \in DevSet /\ e.want = dev.want
        BY <1>2, <2>2 DEF DevSet
    <3>4. [q EXCEPT !.got = g, !.toggle = u] = [e EXCEPT !.toggle = u]
        BY <2>2 DEF DevSet
    <3>5. Loaded(q, g, dev.want, u) = [[e EXCEPT !.want = dev.want] EXCEPT !.toggle = u]
        BY <2>2 DEF Loaded, DevSet
    <3> HIDE DEF e
    <3> QED
        BY <3>1, <3>2, <3>3, <3>4, <3>5
  <2> HIDE DEF q, u
  <2>5. LET d == Storing(Loaded(q, g, dev.want, u)) IN
        /\ d \in DevSet /\ d.got = g /\ d.want = dev.want /\ d.todo = q.todo
        /\ Length(g) = dev.want => d.stored = g
    <3> DEFINE d == Storing(Loaded(q, g, dev.want, u))
    <3>0. q \in DevSet /\ g \in Bufs /\ dev.want \in Nat /\ u \in BOOLEAN
        BY <1>2, <2>2, <2>3
    <3>1. d \in DevSet
        BY <3>0, StoreIs
    <3>2. d.got = g
        BY <3>0, StoreIs
    <3>3. d.want = dev.want
        BY <3>0, StoreIs
    <3>4. d.todo = q.todo
        BY <3>0, StoreIs
    <3>5. Length(g) = dev.want => d.stored = g
        BY <3>0, StoreIs
    <3> QED
        BY <3>1, <3>2, <3>3, <3>4, <3>5
  <2>6. r.last => Length(g) = dev.want
      BY <1>4 DEF g
  <2>7. LET d == DownloadedSegment(r) IN
        /\ d \in DevSet /\ d.got = g /\ d.want = dev.want /\ d.todo = <<m>>
        /\ Length(g) = dev.want => d.stored = g
      BY <2>1, <2>2, <2>4, <2>5
  <2> QED
      BY <2>6, <2>7 DEF m, g
<1> QED
    BY <1>3, <1>4

(* The slave takes a segment: what it has of the object stays tight.       *)
LEMMA SegmentServed ==
  ASSUME job \in Jobs, dev \in DevSet, NEW x \in Nat, NEW y \in Nat, x <= y, NEW r \in DownloadSegments,
         r.piece = <<x, y>>, r.last <=> y = job.size, dev.want = job.size, Tight(dev.got, x)
  PROVE  LET d == DownloadedSegment(r) IN
         /\ d \in DevSet /\ d.want = job.size /\ Tight(d.got, y)
         /\ \/ d.todo = <<Abort>>
            \/ d.todo = <<Word("segment downloaded")>> /\ (y = job.size => d.stored = Entire(job.size))
<1> DEFINE d == DownloadedSegment(r)
<1>1. /\ d \in DevSet /\ d.want = dev.want
      /\ \/ d.todo = <<Abort>> /\ d.got = dev.got
         \/ /\ d.todo = <<Word("segment downloaded")>> /\ d.got = Glue(dev.got, r.piece)
            /\ r.last => Length(d.got) = dev.want
            /\ Length(d.got) = dev.want => d.stored = d.got
    BY DownloadedSegmentIs
<1> HIDE DEF d
<1>2. dev.got \in Bufs
    BY DEF DevSet
<1>3. CASE d.todo = <<Abort>> /\ d.got = dev.got
  <2>1. Length(dev.got) \in Int
      BY <1>2, LengthIsInt
  <2>2. Tight(dev.got, y)
    <3>1. Length(dev.got) = y => x = y
        BY <2>1 DEF Tight
    <3> QED
        BY <2>1, <3>1 DEF Tight
  <2> QED
      BY <1>1, <1>3, <2>2 DEF d
<1>4. CASE /\ d.todo = <<Word("segment downloaded")>> /\ d.got = Glue(dev.got, r.piece)
           /\ r.last => Length(d.got) = dev.want
           /\ Length(d.got) = dev.want => d.stored = d.got
  <2>1. x <= x
      OBVIOUS
  <2>2. Tight(d.got, y)
    <3>1. Tight(Glue(dev.got, <<x, y>>), y)
        BY <1>2, <2>1, GlueTight
    <3> QED
        BY <1>4, <3>1
  <2>3. y = job.size => d.stored = Entire(job.size)
      BY <1>4, <2>2 DEF Tight
  <2> QED
      BY <1>1, <1>4, <2>2, <2>3 DEF d
<1> QED
    BY <1>1, <1>3, <1>4

LEMMA SdoWriteFacts ==
  ASSUME SdoWriteInv
  PROVE  /\ Base /\ Talk(SdoWriteAsk, SdoWriteTell) /\ buf = <<>> /\ pc # "empty" /\ Len(dev.todo) <= 1
         /\ loc.segment \in BOOLEAN /\ job \in Jobs /\ dev \in DevSet /\ job.size \in Nat
         /\ ~loc.segment => req = Download(job.size) /\ loc = SDOwriteLoc(job.size, Chunk)
         /\ ~loc.segment /\ ~Mistaken /\ pc \notin Over => FirstFrame
         /\ loc.segment => \E x, y \in Nat :
              SegmentAt(x, y) /\ (~Mistaken /\ ~late /\ pc \notin Over => Lock /\ (alive => SegmentUnder(x, y)))
         /\ wkc > 0 => \/ outbox = Null /\ dev.stored = Entire(job.size)
                       \/ loc.segment /\ late
                       \/ Mistaken
  BY JobIs DEF SdoWriteInv, Base

LEMMA SdoWriteMove ==
  ASSUME SdoWriteInv, job.op = "SDOwrite", Purge \/ PostNext \/ Vanish \/ UNCHANGED vars
  PROVE  SdoWriteInv'
<1> DEFINE A == SdoWriteAsk
           T == SdoWriteTell
<1>0. /\ Base /\ Talk(A, T) /\ buf = <<>> /\ pc # "empty" /\ Len(dev.todo) <= 1
      /\ loc.segment \in BOOLEAN /\ job \in Jobs /\ dev \in DevSet
      /\ ~loc.segment => req = Download(job.size) /\ loc = SDOwriteLoc(job.size, Chunk)
      /\ ~loc.segment /\ ~Mistaken /\ pc \notin Over => FirstFrame
      /\ loc.segment => \E x, y \in Nat :
           SegmentAt(x, y) /\ (~Mistaken /\ ~late /\ pc \notin Over => Lock /\ (alive => SegmentUnder(x, y)))
      /\ wkc > 0 => \/ outbox = Null /\ dev.stored = Entire(job.size)
                    \/ loc.segment /\ late
                    \/ Mistaken
    BY SdoWriteFacts
<1>1. /\ A \subseteq Said /\ T \subseteq Said /\ Null \notin A /\ Null \notin T
      /\ Null \notin Uploads /\ Null \notin DownloadSegments /\ Download(job.size) # Null
      /\ Null \notin FirstAnswers \cup Downloadeds
    BY <1>0, SdoWriteSaid DEF SdoWriteTell
<1>2. UNCHANGED <<job, req, loc, buf, wkc, missed, late, unsent>>
      /\ ((pc = "purge" /\ pc' = "send") \/ pc' = pc)
    BY DEF Purge, PostNext, Vanish, vars, callVars, linkVars
<1>3. /\ A' = A /\ T' = T /\ Chunk' = Chunk /\ FirstAnswers' = FirstAnswers /\ Downloadeds' = Downloadeds
      /\ Uploads' = Uploads /\ DownloadSegments' = DownloadSegments /\ (Mistaken' <=> Mistaken)
      /\ Word("segment downloaded")' = Word("segment downloaded")
      /\ Download(job.size)' = Download(job.size)
    BY <1>2, SdoWriteSteady
<1> HIDE DEF A, T
<1>4. Base' /\ Talk(A, T)' /\ SameDevice(dev') /\ Len(dev'.todo) <= 1
      /\ (alive' => alive) /\ (outbox' # Null => outbox' = outbox)
      /\ \/ UNCHANGED dev /\ inbox' \in {inbox, Null}
         \/ inbox' = Posting /\ Posting' = Null /\ dev'.todo = <<>> /\ inbox = Null /\ UNCHANGED <<pc, outbox>>
  <2>1. CASE Purge
    <3>1. Base' /\ Talk(A, T)' /\ inbox' \in {inbox, Null} /\ UNCHANGED <<outbox, dev, alive>>
        BY <1>0, <1>3, <2>1, PurgeStep DEF Talk
    <3> QED
        BY <1>0, <3>1 DEF SameDevice
  <2>2. CASE PostNext
    <3>1. /\ Base' /\ Talk(A, T)' /\ inbox = Null /\ dev.todo # <<>>
          /\ inbox' = Head(dev.todo) /\ Len(dev.todo) \in Nat \ {0} /\ Len(dev'.todo) = Len(dev.todo) - 1
          /\ SameDevice(dev') /\ UNCHANGED <<callVars, outbox, alive>> /\ dev'.todo \in Seq(T)
        BY <1>0, <1>1, <1>3, <2>2, PostStep DEF Talk
    <3>2. \A k \in Nat \ {0} : k <= 1 => k - 1 = 0
        OBVIOUS
    <3>3. Len(dev'.todo) = 0
        BY ONLY <1>0, <3>1, <3>2
    <3>4. \A s \in Seq(T) : Len(s) = 0 => s = <<>>
        OBVIOUS
    <3>5. dev'.todo = <<>>
        BY ONLY <3>1, <3>3, <3>4
    <3>6. Posting' = Null /\ inbox' = Posting
        BY <3>1, <3>5 DEF Posting
    <3>7. UNCHANGED <<pc, outbox, alive>>
        BY <3>1 DEF callVars
    <3>8. 0 <= 1
        BY ONLY TRUE
    <3>9. Len(dev'.todo) <= 1
        BY ONLY <3>3, <3>8
    <3> QED
        BY ONLY <3>1, <3>5, <3>6, <3>7, <3>9
  <2>3. CASE Vanish
    <3>1. Base' /\ Talk(A, T)' /\ inbox' = Null /\ outbox' = Null /\ alive' = FALSE /\ UNCHANGED dev
        BY <1>0, <1>3, <2>3, VanishStep DEF Talk
    <3> QED
        BY <1>0, <3>1 DEF SameDevice
  <2>4. CASE UNCHANGED vars
    <3>1. Base' /\ Talk(A, T)' /\ UNCHANGED <<outbox, inbox, dev, alive>>
        BY <1>0, <1>3, <2>4, StutterStep DEF Talk
    <3> QED
        BY <1>0, <3>1 DEF SameDevice
  <2> QED
      BY <2>1, <2>2, <2>3, <2>4
<1>5. /\ dev'.got = dev.got /\ dev'.want = dev.want /\ dev'.stored = dev.stored
    BY <1>4 DEF SameDevice
<1>6. ASSUME ~loc'.segment, ~Mistaken', pc' \notin Over PROVE FirstFrame'
  <2>1. FirstFrame /\ (pc' \in {"purge", "send"} => pc \in {"purge", "send"})
      BY <1>0, <1>2, <1>3, <1>6
  <2>2. ASSUME NEW q PROVE Answering(q)' <=> Answering(q')
      BY <1>3 DEF Answering
  <2>3. ~Answering(Null)
      BY <1>1 DEF Answering
  <2>4. CASE UNCHANGED dev /\ inbox' \in {inbox, Null}
    <3>1. Posting' = Posting
        BY <2>4 DEF Posting
    <3>3. Answering(inbox)' => Answering(inbox)
        BY <1>3, <2>3, <2>4 DEF Answering
    <3>4. Answering(Posting)' <=> Answering(Posting)
        BY <1>3, <3>1 DEF Answering
    <3>5. Answering(inbox)' \/ Answering(Posting)' =>
             /\ outbox = Null /\ dev.want = job.size
             /\ dev.got = Entire(Chunk) /\ pc \notin {"purge", "send"}
             /\ (Chunk = job.size => dev.stored = Entire(job.size))
        BY <2>1, <3>3, <3>4 DEF FirstFrame
    <3>6. Answering(inbox)' => dev.todo = <<>>
        BY <2>1, <3>3 DEF FirstFrame
    <3>7. /\ pc' \in {"purge", "send"} => outbox' # Download(job.size)
          /\ outbox' \in Uploads => outbox'.index # "x"
          /\ outbox' \notin DownloadSegments
        BY <1>1, <1>4, <2>1 DEF FirstFrame
    <3>8. Entire(Chunk)' = Entire(Chunk) /\ Entire(job.size)' = Entire(job.size)
        BY <1>2, <1>3
    <3>9. \/ ~Answering(inbox)' /\ ~Answering(Posting)'
          \/ /\ outbox' = Null /\ dev'.want = job'.size /\ dev'.got = Entire(Chunk)'
             /\ pc' \notin {"purge", "send"} /\ (Chunk' = job'.size => dev'.stored = Entire(job.size)')
        BY <1>2, <1>3, <1>4, <1>5, <3>5, <3>8
    <3>10. Answering(inbox)' => dev'.todo = <<>>
        BY <2>4, <3>6
    <3>11. /\ pc' \in {"purge", "send"} => outbox' # Download(job.size)'
           /\ outbox' \in Uploads' => outbox'.index # "x"
           /\ outbox' \notin DownloadSegments'
        BY ONLY <1>3, <3>7
    <3> QED
        BY ONLY <3>9, <3>10, <3>11 DEF FirstFrame
  <2>5. CASE inbox' = Posting /\ Posting' = Null /\ dev'.todo = <<>> /\ inbox = Null /\ UNCHANGED <<pc, outbox>>
    <3>1. Answering(inbox)' => Answering(Posting)
        BY <1>3, <2>5 DEF Answering
    <3>2. ~Answering(Posting)'
        BY <1>3, <2>3, <2>5 DEF Answering
    <3>3. Answering(inbox)' =>
             /\ outbox = Null /\ dev.want = job.size
             /\ dev.got = Entire(Chunk) /\ pc \notin {"purge", "send"}
             /\ (Chunk = job.size => dev.stored = Entire(job.size))
        BY <2>1, <3>1 DEF FirstFrame
    <3>8. Entire(Chunk)' = Entire(Chunk) /\ Entire(job.size)' = Entire(job.size)
        BY <1>2, <1>3
    <3>9. \/ ~Answering(inbox)' /\ ~Answering(Posting)'
          \/ /\ outbox' = Null /\ dev'.want = job'.size /\ dev'.got = Entire(Chunk)'
             /\ pc' \notin {"purge", "send"} /\ (Chunk' = job'.size => dev'.stored = Entire(job.size)')
        BY <1>2, <1>3, <1>5, <2>5, <3>2, <3>3, <3>8
    <3>10. Answering(inbox)' => dev'.todo = <<>>
        BY <2>5
    <3>11. /\ pc' \in {"purge", "send"} => outbox' # Download(job.size)'
           /\ outbox' \in Uploads' => outbox'.index # "x"
           /\ outbox' \notin DownloadSegments'
        BY <1>3, <2>1, <2>5 DEF FirstFrame
    <3> QED
        BY ONLY <3>9, <3>10, <3>11 DEF FirstFrame
  <2> QED
      BY <1>4, <2>4, <2>5
<1>7. ASSUME loc'.segment
      PROVE  \E x, y \in Nat : SegmentAt(x, y)' /\
               (~Mistaken' /\ ~late' /\ pc' \notin Over => Lock' /\ (alive' => SegmentUnder(x, y)'))
  <2>1. PICK x \in Nat, y \in Nat :
          SegmentAt(x, y) /\ (~Mistaken /\ ~late /\ pc \notin Over => Lock /\ (alive => SegmentUnder(x, y)))
      BY <1>0, <1>2, <1>7
  <2>2. pc' = pc /\ pc # "purge"
      BY <1>2, <2>1 DEF SegmentAt
  <2>3. SegmentAt(x, y)'
      BY <1>2, <1>3, <2>1, <2>2 DEF SegmentAt
  <2>4. ASSUME ~Mistaken', ~late', pc' \notin Over PROVE Lock' /\ (alive' => SegmentUnder(x, y)')
    <3>1. Lock /\ (alive => SegmentUnder(x, y))
        BY <1>2, <1>3, <2>1, <2>2, <2>4
    <3>2. /\ Lock'
          /\ pc = "receive" /\ alive' => Coming' = Coming /\ outbox' = outbox
        BY <1>0, <1>1, <3>1, LockLink
    <3>3. alive' => SegmentUnder(x, y)'
        BY <1>2, <1>3, <1>4, <1>5, <2>2, <3>1, <3>2 DEF SegmentUnder
    <3> QED
        BY <3>2, <3>3
  <2> QED
      BY <2>1, <2>3, <2>4
<1>8. ~loc'.segment => req' = Download(job.size)' /\ loc' = SDOwriteLoc(job.size, Chunk)'
    BY <1>0, <1>2, <1>3 DEF SDOwriteLoc
<1>9. wkc' > 0 => \/ outbox' = Null /\ dev'.stored = Entire(job'.size)
                  \/ loc'.segment /\ late'
                  \/ Mistaken'
    BY <1>0, <1>2, <1>3, <1>4, <1>5
<1>10. buf' = <<>> /\ pc' # "empty" /\ loc'.segment \in BOOLEAN
    BY <1>0, <1>2
<1> QED
    BY <1>4, <1>6, <1>7, <1>8, <1>9, <1>10 DEF SdoWriteInv, A, T

LEMMA SdoWriteServe ==
  ASSUME SdoWriteInv, job.op = "SDOwrite", Serve
  PROVE  SdoWriteInv'
<1> DEFINE A == SdoWriteAsk
           T == SdoWriteTell
<1>0. /\ Base /\ Talk(A, T) /\ buf = <<>> /\ pc # "empty" /\ Len(dev.todo) <= 1
      /\ loc.segment \in BOOLEAN /\ job \in Jobs /\ dev \in DevSet
      /\ ~loc.segment => req = Download(job.size) /\ loc = SDOwriteLoc(job.size, Chunk)
      /\ ~loc.segment /\ ~Mistaken /\ pc \notin Over => FirstFrame
      /\ loc.segment => \E x, y \in Nat :
           SegmentAt(x, y) /\ (~Mistaken /\ ~late /\ pc \notin Over => Lock /\ (alive => SegmentUnder(x, y)))
      /\ wkc > 0 => \/ outbox = Null /\ dev.stored = Entire(job.size)
                    \/ loc.segment /\ late
                    \/ Mistaken
    BY SdoWriteFacts
<1>1. /\ A \subseteq Said /\ T \subseteq Said /\ Null \notin A /\ Null \notin T
      /\ \A m \in Uploads : m.kind = "upload"
      /\ \A m \in DownloadSegments : m.kind = "download segment"
      /\ \A m \in FirstAnswers : m.kind \in {"expedited", "normal"}
      /\ \A m \in Downloadeds : m.kind = "downloaded" /\ m.index = "x" /\ m.sub = 1
      /\ Word("segment downloaded").kind = "segment downloaded" /\ Abort.kind = "abort"
      /\ Download(job.size).kind = "download"
      /\ FirstAnswers \cup Downloadeds \subseteq T /\ Abort \in T /\ Word("segment downloaded") \in T
    BY <1>0, SdoWriteSaid, ChunkIs DEF SdoWriteTell
<1>k. \A m \in A : m \in Uploads \/ m = Download(job.size) \/ m \in DownloadSegments
    BY DEF SdoWriteAsk
<1> HIDE DEF A, T
<1>2. /\ req' \in A /\ inbox' \in T \cup {Null} /\ outbox' = Null /\ outbox \in A /\ outbox # Null
      /\ alive /\ dev.todo = <<>>
      /\ UNCHANGED <<job, pc, req, loc, buf, wkc, inbox, alive, missed, late, unsent>>
      /\ (dev' \in DevSet => Base')
      /\ \/ dev' = Served(outbox) \/ dev' = Reply(Abort)
         \/ outbox.kind \in {"foe write", "foe data"}
    BY <1>0, <1>1, ServeStep
<1>3. /\ A' = A /\ T' = T /\ Chunk' = Chunk /\ FirstAnswers' = FirstAnswers /\ Downloadeds' = Downloadeds
      /\ Uploads' = Uploads /\ DownloadSegments' = DownloadSegments /\ (Mistaken' <=> Mistaken)
      /\ Word("segment downloaded")' = Word("segment downloaded")
      /\ Download(job.size)' = Download(job.size)
    BY <1>2, SdoWriteSteady DEF A, T
<1>4. dev' = Served(outbox) \/ dev' = Reply(Abort)
    BY <1>1, <1>2, <1>k
<1>5. Reply(Abort) \in DevSet /\ Reply(Abort).todo = <<Abort>> /\ SameDevice(Reply(Abort))
    BY <1>0, <1>1, ReplyIs
<1>6. \/ dev' = Reply(Abort)
      \/ outbox = Download(job.size) /\ dev' = Downloaded(Download(job.size))
      \/ outbox \in Uploads /\ dev' = Uploaded(outbox)
      \/ outbox \in DownloadSegments /\ dev' = DownloadedSegment(outbox)
  <2>1. CASE outbox \in Uploads /\ dev' = Served(outbox)
      BY <1>1, <2>1 DEF Served
  <2>2. CASE outbox = Download(job.size) /\ dev' = Served(outbox)
      BY <1>1, <2>2 DEF Served
  <2>3. CASE outbox \in DownloadSegments /\ dev' = Served(outbox)
      BY <1>1, <2>3 DEF Served
  <2> QED
      BY <1>2, <1>4, <1>k, <2>1, <2>2, <2>3
<1>7. dev' \in DevSet /\ \E m \in T : dev'.todo = <<m>>
  <2>1. CASE dev' = Reply(Abort)
      BY <1>1, <1>5, <2>1
  <2>2. CASE outbox = Download(job.size) /\ dev' = Downloaded(Download(job.size))
      BY <1>0, <1>1, <2>2, DownloadedIs
  <2>3. CASE outbox \in Uploads /\ dev' = Uploaded(outbox)
      BY <1>0, <1>1, <2>3, UploadedIs
  <2>4. CASE outbox \in DownloadSegments /\ dev' = DownloadedSegment(outbox)
    <3>1. dev' \in DevSet /\ (dev'.todo = <<Abort>> \/ dev'.todo = <<Word("segment downloaded")>>)
        BY <1>0, <2>4, DownloadedSegmentIs
    <3> QED
        BY <1>1, <3>1
  <2> QED
      BY <1>6, <2>1, <2>2, <2>3, <2>4
<1>8. Base' /\ Talk(A, T)' /\ Len(dev'.todo) <= 1
  <2>1. dev'.todo \in Seq(T)
    <3>1. \A m \in T : <<m>> \in Seq(T)
        OBVIOUS
    <3> QED
        BY <1>7, <3>1
  <2>2. Len(dev'.todo) = 1
    <3>1. \A m : Len(<<m>>) = 1
        OBVIOUS
    <3> QED
        BY <1>7, <3>1
  <2>3. Len(dev'.todo) <= 1
    <3>1. 1 <= 1
        BY ONLY TRUE
    <3> QED
        BY ONLY <2>2, <3>1
  <2> QED
      BY <1>2, <1>3, <1>7, <2>1, <2>3 DEF Talk
<1>9. ASSUME ~loc'.segment, ~Mistaken', pc' \notin Over PROVE FirstFrame'
  <2>1. FirstFrame
      BY <1>0, <1>2, <1>3, <1>9
  <2>2. ~Answering(inbox)
      BY <1>2, <2>1 DEF FirstFrame
  <2>3. ~Answering(inbox)'
      BY <1>2, <1>3, <2>2 DEF Answering
  <2>4. PICK m \in T : dev'.todo = <<m>>
      BY <1>7
  <2>5. Posting' = m
      BY <2>4 DEF Posting
  <2>6. Answering(Posting)' <=> Answering(m)
      BY <1>3, <2>5 DEF Answering
  <2>7. \/ ~Answering(m)
        \/ /\ dev'.want = job.size /\ dev'.got = Entire(Chunk) /\ pc \notin {"purge", "send"}
           /\ (Chunk = job.size => dev'.stored = Entire(job.size))
    <3>1. \A k, j : <<k>> = <<j>> => k = j
        OBVIOUS
    <3>2. CASE dev' = Reply(Abort)
      <4>1. m = Abort
          BY <1>5, <2>4, <3>1, <3>2
      <4>2. Abort \notin FirstAnswers \cup Downloadeds
          BY <1>1
      <4> QED
          BY <4>1, <4>2 DEF Answering
    <3>3. CASE outbox = Download(job.size) /\ dev' = Downloaded(Download(job.size))
        BY <1>0, <2>1, <3>3, DownloadedIs DEF FirstFrame
    <3>4. CASE outbox \in Uploads /\ dev' = Uploaded(outbox)
      <4>1. PICK k \in FirstAnswers : dev'.todo = <<k>> /\ k.index = outbox.index
          BY <1>0, <3>4, UploadedIs
      <4>2. m = k /\ outbox.index # "x"
          BY <2>1, <2>4, <3>1, <3>4, <4>1 DEF FirstFrame
      <4> QED
          BY <4>1, <4>2 DEF Answering
    <3>5. CASE outbox \in DownloadSegments
        BY <2>1, <3>5 DEF FirstFrame
    <3> QED
        BY <1>6, <3>2, <3>3, <3>4, <3>5
  <2>8. Entire(Chunk)' = Entire(Chunk) /\ Entire(job.size)' = Entire(job.size)
      BY <1>2, <1>3
  <2>9. \/ ~Answering(inbox)' /\ ~Answering(Posting)'
        \/ /\ outbox' = Null /\ dev'.want = job'.size /\ dev'.got = Entire(Chunk)'
           /\ pc' \notin {"purge", "send"} /\ (Chunk' = job'.size => dev'.stored = Entire(job.size)')
      BY <1>2, <1>3, <2>3, <2>6, <2>7, <2>8
  <2>10. Null \notin Uploads' /\ Null \notin DownloadSegments' /\ Null # Download(job.size)'
      BY <1>0, <1>3, SdoWriteSaid
  <2> QED
      BY ONLY <1>2, <2>3, <2>9, <2>10 DEF FirstFrame
<1>10. ASSUME loc'.segment
       PROVE  \E x, y \in Nat : SegmentAt(x, y)' /\
                (~Mistaken' /\ ~late' /\ pc' \notin Over => Lock' /\ (alive' => SegmentUnder(x, y)'))
  <2>1. PICK x \in Nat, y \in Nat :
          SegmentAt(x, y) /\ (~Mistaken /\ ~late /\ pc \notin Over => Lock /\ (alive => SegmentUnder(x, y)))
      BY <1>0, <1>2, <1>10
  <2>2. pc' = pc /\ pc # "purge"
      BY <1>2, <2>1 DEF SegmentAt
  <2>3. SegmentAt(x, y)'
      BY <1>2, <1>3, <2>1 DEF SegmentAt
  <2>4. ASSUME ~Mistaken', ~late', pc' \notin Over PROVE Lock' /\ (alive' => SegmentUnder(x, y)')
    <3>1. Lock /\ SegmentUnder(x, y)
        BY <1>2, <1>3, <2>1, <2>2, <2>4
    <3>2. outbox = req /\ Tight(dev.got, x) /\ Tight(dev.got, y) /\ dev.want = job.size
        BY <1>2, <3>1 DEF SegmentUnder
    <3>3. PICK m \in T : dev'.todo = <<m>>
        BY <1>7
    <3>4. Lock' /\ pc \in {"receive", "empty"} \cup Over /\ (pc = "receive" => Coming' = m)
      <4>1. dev'.todo = <<>> \/ \E k \in T : dev'.todo = <<k>>
          BY <3>3
      <4>2. Base /\ Talk(A, T) /\ Lock /\ Serve /\ Null \notin A /\ Null \notin T
          BY <1>0, <1>1, <3>1
      <4>3. Lock' /\ pc \in {"receive", "empty"} \cup Over
          BY <4>1, <4>2, LockServe
      <4>4. \A k \in T : dev'.todo = <<k>> /\ pc = "receive" => Coming' = k
          BY <4>1, <4>2, LockServe
      <4> QED
          BY <3>3, <4>3, <4>4
    <3>5. pc = "receive" /\ Coming' = m
        BY <1>0, <1>2, <2>4, <3>4
    <3>6. req \in DownloadSegments /\ req.piece = <<x, y>> /\ (req.last <=> y = job.size) /\ x <= y
        BY <2>1 DEF SegmentAt
    <3>7. \A k, j : <<k>> = <<j>> => k = j
        OBVIOUS
    <3>8. Abort # Word("segment downloaded")
        BY <1>1
    <3>9. /\ dev'.want = job.size /\ Tight(dev'.got, y)
          /\ (m = Word("segment downloaded") /\ y = job.size => dev'.stored = Entire(job.size))
      <4>1. CASE dev' = Reply(Abort)
        <5>1. m = Abort /\ dev'.want = dev.want /\ dev'.got = dev.got
            BY <1>5, <3>3, <3>7, <4>1 DEF SameDevice
        <5> QED
            BY <3>2, <3>8, <5>1
      <4>2. CASE dev' = DownloadedSegment(outbox)
        <5>1. LET d == DownloadedSegment(req) IN
              /\ d \in DevSet /\ d.want = job.size /\ Tight(d.got, y)
              /\ \/ d.todo = <<Abort>>
                 \/ d.todo = <<Word("segment downloaded")>> /\ (y = job.size => d.stored = Entire(job.size))
            BY <1>0, <2>1, <3>2, <3>6, SegmentServed
        <5>2. dev' = DownloadedSegment(req)
            BY <3>2, <4>2
        <5>3. /\ dev'.want = job.size /\ Tight(dev'.got, y)
              /\ \/ dev'.todo = <<Abort>>
                 \/ dev'.todo = <<Word("segment downloaded")>> /\ (y = job.size => dev'.stored = Entire(job.size))
            BY <5>1, <5>2
        <5> QED
            BY <3>3, <3>7, <3>8, <5>3
      <4>3. outbox \notin Uploads /\ outbox # Download(job.size)
          BY <1>1, <3>2, <3>6
      <4> QED
          BY <1>6, <4>1, <4>2, <4>3
    <3>10. SegmentUnder(x, y)'
        BY <1>2, <1>3, <3>5, <3>9 DEF SegmentUnder
    <3> QED
        BY <3>4, <3>10
  <2> QED
      BY <2>1, <2>3, <2>4
<1>11. ~loc'.segment => req' = Download(job.size)' /\ loc' = SDOwriteLoc(job.size, Chunk)'
    BY <1>0, <1>2, <1>3 DEF SDOwriteLoc
<1>12. wkc' > 0 => \/ outbox' = Null /\ dev'.stored = Entire(job'.size)
                   \/ loc'.segment /\ late'
                   \/ Mistaken'
    BY <1>0, <1>2, <1>3
<1>13. buf' = <<>> /\ pc' # "empty" /\ loc'.segment \in BOOLEAN
    BY <1>0, <1>2
<1> QED
    BY <1>8, <1>9, <1>10, <1>11, <1>12, <1>13 DEF SdoWriteInv, A, T

LEMMA TightUp ==
  ASSUME NEW b \in Bufs, NEW e \in Nat, NEW z \in Nat, Tight(b, e), e <= z
  PROVE  Tight(b, z)
<1>1. Length(b) \in Int
    BY LengthIsInt
<1>2. Length(b) = z => e = z
    BY <1>1 DEF Tight
<1> QED
    BY <1>1, <1>2 DEF Tight

LEMMA GoOnIs ==
  ASSUME job \in Jobs, job' = job, NEW w, GoOn(w), loc.segment \in BOOLEAN, loc.toggle \in BOOLEAN,
         NEW x \in Nat, x <= job.size, loc.at = x, loc.notLast <=> x # job.size
  PROVE  \/ x = job.size /\ Return(w)
         \/ \E y \in Nat : /\ SegmentAt(x, y)' /\ x <= y /\ loc'.segment = TRUE
                           /\ pc' = "send" /\ req' \in DownloadSegments /\ wkc' = wkc
<1>1. CASE x = job.size
    BY <1>1 DEF GoOn
<1>2. CASE x # job.size
  <2> DEFINE t == loc.segment /\ ~loc.toggle
             piece == NextPiece(loc.at)
             last == piece[2] >= job.size
  <2>1. NextDownload(t)
      BY <1>2 DEF GoOn
  <2>2. PICK y \in Nat : /\ piece = <<x, y>> /\ x <= y /\ y <= job.size
                         /\ <<x, y>> \in Part /\ (y >= job.size <=> y = job.size)
      BY NextPieceIs
  <2>3. /\ Say([kind |-> "download segment", toggle |-> t, piece |-> piece, last |-> last])
        /\ loc' = [segment |-> TRUE, toggle |-> t, at |-> piece[2], notLast |-> ~last]
      BY <2>1 DEF NextDownload
  <2>4. t \in BOOLEAN /\ last \in BOOLEAN /\ (last <=> y = job.size) /\ piece[2] = y
      BY <2>2
  <2> HIDE DEF t, last, piece
  <2>5. ASSUME NEW u \in BOOLEAN, NEW q \in BOOLEAN, NEW m,
               m = [kind |-> "download segment", toggle |-> u, piece |-> <<x, y>>, last |-> q]
        PROVE  m \in DownloadSegments /\ m.piece = <<x, y>> /\ (m.last <=> q)
      BY <2>2, <2>5 DEF DownloadSegments
  <2>6. /\ pc' = "send" /\ wkc' = wkc
        /\ req' = [kind |-> "download segment", toggle |-> t, piece |-> <<x, y>>, last |-> last]
      BY <2>2, <2>3 DEF Say
  <2>7. req' \in DownloadSegments /\ req'.piece = <<x, y>> /\ (req'.last <=> y = job.size)
      BY <2>4, <2>5, <2>6
  <2>8. ASSUME NEW u \in BOOLEAN, NEW q \in BOOLEAN, NEW l,
               l = [segment |-> TRUE, toggle |-> u, at |-> y, notLast |-> ~q]
        PROVE  l.segment = TRUE /\ l.toggle \in BOOLEAN /\ l.at = y /\ (l.notLast <=> ~q)
      BY <2>8
  <2>9. loc'.segment = TRUE /\ loc'.toggle \in BOOLEAN /\ loc'.at = y /\ (loc'.notLast <=> y # job.size)
      BY <2>3, <2>4, <2>8
  <2>10. DownloadSegments' = DownloadSegments
      BY SdoWriteSteady
  <2>11. SegmentAt(x, y)'
      BY <2>2, <2>6, <2>7, <2>9, <2>10 DEF SegmentAt
  <2> QED
      BY <2>2, <2>6, <2>7, <2>9, <2>11
<1> QED
    BY <1>1, <1>2

LEMMA SegmentOn ==
  ASSUME dev \in DevSet, NEW x \in Nat, NEW y \in Nat, NEW z \in Nat, y <= z, SegmentUnder(x, y),
         Lock', pc' = "send", job' = job, dev' = dev
  PROVE  SegmentUnder(y, z)'
<1>1. dev.want = job.size /\ Tight(dev.got, y) /\ dev.got \in Bufs
    BY ZenonT(60) DEF SegmentUnder, DevSet
<1>2. Tight(dev.got, z)
    BY <1>1, TightUp
<1>3. outbox' = Null
    BY DEF Lock
<1> QED
    BY <1>1, <1>2, <1>3 DEF SegmentUnder

(* A step of the call that ends it, or goes on with another segment.       *)
LEMMA SdoWriteEnd ==
  ASSUME SdoWriteInv, Base', Talk(SdoWriteAsk, SdoWriteTell)', job' = job, buf' = buf, dev' = dev,
         NEW w, Return(w),
         w > 0 => \/ outbox' = Null /\ dev.stored = Entire(job.size)
                  \/ loc.segment /\ late'
                  \/ Mistaken
  PROVE  SdoWriteInv'
<1>0. /\ buf = <<>> /\ Len(dev.todo) <= 1 /\ loc.segment \in BOOLEAN
      /\ ~loc.segment => req = Download(job.size) /\ loc = SDOwriteLoc(job.size, Chunk)
      /\ loc.segment => \E x, y \in Nat : SegmentAt(x, y)
    BY SdoWriteFacts
<1>1. pc' = "done" /\ wkc' = w /\ UNCHANGED <<req, loc>>
    BY DEF Return
<1>2. /\ Chunk' = Chunk /\ DownloadSegments' = DownloadSegments /\ (Mistaken' <=> Mistaken)
      /\ Download(job.size)' = Download(job.size)
    BY SdoWriteSteady
<1>3. \A x, y : SegmentAt(x, y) => SegmentAt(x, y)'
    BY <1>1, <1>2 DEF SegmentAt
<1>4. ~loc'.segment => req' = Download(job.size)' /\ loc' = SDOwriteLoc(job.size, Chunk)'
    BY <1>0, <1>1, <1>2 DEF SDOwriteLoc
<1>5. loc'.segment => \E x, y \in Nat : SegmentAt(x, y)'
    BY <1>0, <1>1, <1>3
<1>6. wkc' > 0 => \/ outbox' = Null /\ dev'.stored = Entire(job'.size)
                  \/ loc'.segment /\ late'
                  \/ Mistaken'
    BY <1>1, <1>2
<1> QED
    BY <1>0, <1>1, <1>4, <1>5, <1>6 DEF SdoWriteInv

LEMMA SdoWriteOn ==
  ASSUME SdoWriteInv, Unfinished, pc \notin Over, Base', Talk(SdoWriteAsk, SdoWriteTell)', job' = job, buf' = buf,
         dev' = dev, loc'.segment = TRUE, pc' = "send", wkc' = wkc,
         NEW x \in Nat, NEW y \in Nat, SegmentAt(x, y)',
         ~Mistaken /\ ~late' => Lock' /\ (alive' => SegmentUnder(x, y)')
  PROVE  SdoWriteInv'
<1>0. buf = <<>> /\ Len(dev.todo) <= 1 /\ wkc = 0
    BY SdoWriteFacts DEF Unfinished
<1>1. Mistaken' <=> Mistaken
    BY SdoWriteSteady
<1>2. ~(wkc' > 0)
    BY <1>0
<1> QED
    BY <1>0, <1>1, <1>2 DEF SdoWriteInv

LEMMA SdoWriteOut ==
  ASSUME SdoWriteInv, Unfinished, job.op = "SDOwrite", SDOwriteSend
  PROVE  SdoWriteInv'
<1> DEFINE A == SdoWriteAsk
           T == SdoWriteTell
<1>0. /\ Base /\ Talk(A, T) /\ buf = <<>> /\ pc # "empty" /\ Len(dev.todo) <= 1
      /\ loc.segment \in BOOLEAN /\ job \in Jobs /\ dev \in DevSet
      /\ ~loc.segment => req = Download(job.size) /\ loc = SDOwriteLoc(job.size, Chunk)
      /\ ~loc.segment /\ ~Mistaken /\ pc \notin Over => FirstFrame
      /\ loc.segment => \E x, y \in Nat :
           SegmentAt(x, y) /\ (~Mistaken /\ ~late /\ pc \notin Over => Lock /\ (alive => SegmentUnder(x, y)))
    BY SdoWriteFacts
<1>1. PICK ok \in BOOLEAN :
        /\ Sending("SDOwrite", ok) /\ buf' = buf
        /\ \/ ok /\ Wait /\ UNCHANGED loc
           \/ ~ok /\ loc.segment /\ GoOn(0)
           \/ ~ok /\ ~loc.segment /\ Return(0)
    BY DEF SDOwriteSend, Keep
<1> HIDE DEF A, T
<1>2. /\ pc = "send" /\ outbox' \in A \cup {Null} /\ inbox' \in T \cup {Null} /\ dev'.todo \in Seq(T)
      /\ UNCHANGED <<job, inbox, dev, alive, missed>>
      /\ dev' \in DevSet' /\ late' \in BOOLEAN /\ unsent' \in BOOLEAN
      /\ ok => alive /\ outbox = Null /\ outbox' = req /\ UNCHANGED <<late, unsent>>
      /\ ~ok => \/ outbox' = outbox /\ unsent' = TRUE /\ late' = late
                \/ alive /\ outbox = Null /\ outbox' = req /\ late' = TRUE /\ unsent' = unsent
    BY <1>0, <1>1, SendStep
<1>3. /\ A' = A /\ T' = T /\ Chunk' = Chunk /\ FirstAnswers' = FirstAnswers /\ Downloadeds' = Downloadeds
      /\ Uploads' = Uploads /\ DownloadSegments' = DownloadSegments /\ (Mistaken' <=> Mistaken)
      /\ Word("segment downloaded")' = Word("segment downloaded")
      /\ Download(job.size)' = Download(job.size) /\ Jobs' = Jobs
    BY <1>2, SdoWriteSteady DEF A, T
<1>4. wkc = 0 /\ 0 \in Int /\ ~(0 > 0)
    BY <1>2 DEF Unfinished
<1>5. ASSUME req' \in A, wkc' \in Int, pc' \in {"send", "receive", "done"}
      PROVE  Base' /\ Talk(SdoWriteAsk, SdoWriteTell)'
    BY <1>0, <1>1, <1>2, <1>3, <1>5 DEF Base, Talk, A, T
<1>6. req \in A /\ DownloadSegments \subseteq A
    BY <1>0 DEF Talk, A, SdoWriteAsk
<1>7. ASSUME Return(0) PROVE SdoWriteInv'
  <2>1. req' = req /\ pc' = "done" /\ wkc' = 0
      BY <1>7 DEF Return
  <2>2. Base' /\ Talk(SdoWriteAsk, SdoWriteTell)'
      BY <1>4, <1>5, <1>6, <2>1
  <2> QED
      BY <1>1, <1>2, <1>4, <1>7, <2>2, SdoWriteEnd
<1>8. CASE ok /\ Wait /\ UNCHANGED loc
  <2>1. pc' = "receive" /\ req' = req /\ wkc' = wkc /\ loc' = loc
      BY <1>8 DEF Wait
  <2>2. Base' /\ Talk(SdoWriteAsk, SdoWriteTell)'
      BY <1>4, <1>5, <1>6, <2>1
  <2>3. ASSUME ~loc'.segment, ~Mistaken' PROVE FirstFrame'
    <3>1. FirstFrame /\ req = Download(job.size)
        BY <1>0, <1>2, <1>3, <2>1, <2>3
    <3>2. ~Answering(inbox) /\ ~Answering(Posting)
        BY <1>2, <3>1 DEF FirstFrame
    <3>3. ~Answering(inbox)'
        BY <1>2, <1>3, <3>2 DEF Answering
    <3>4. ~Answering(Posting)'
        BY <1>2, <1>3, <3>2 DEF Answering, Posting
    <3>5. outbox' = Download(job.size)
        BY <1>2, <1>8, <3>1
    <3>6. Download(job.size) \notin Uploads /\ Download(job.size) \notin DownloadSegments
      <4>1. Download(job.size).kind = "download"
          BY DEF Download
      <4>2. (\A m \in Uploads : m.kind = "upload") /\ (\A m \in DownloadSegments : m.kind = "download segment")
          BY DEF Uploads, DownloadSegments
      <4> QED
          BY <4>1, <4>2
    <3> QED
        BY <1>3, <2>1, <3>3, <3>4, <3>5, <3>6 DEF FirstFrame
  <2>4. ASSUME loc'.segment
        PROVE  \E x, y \in Nat : SegmentAt(x, y)' /\
                 (~Mistaken' /\ ~late' => Lock' /\ (alive' => SegmentUnder(x, y)'))
    <3>1. PICK x \in Nat, y \in Nat :
            SegmentAt(x, y) /\ (~Mistaken /\ ~late /\ pc \notin Over => Lock /\ (alive => SegmentUnder(x, y)))
        BY <1>0, <2>1, <2>4
    <3>2. SegmentAt(x, y)'
        BY <1>2, <1>3, <2>1, <3>1 DEF SegmentAt
    <3>3. ASSUME ~Mistaken', ~late' PROVE Lock' /\ (alive' => SegmentUnder(x, y)')
      <4>1. Lock /\ (alive => SegmentUnder(x, y))
          BY <1>2, <1>3, <1>8, <3>1, <3>3
      <4>2. Lock'
          BY <1>0, <1>1, <1>8, <2>1, <4>1, LockSend
      <4>3. alive /\ inbox = Null /\ dev.todo = <<>>
          BY <1>2, <1>8, <4>1 DEF Lock
      <4>4. Coming' = Null
          BY <1>2, <4>3 DEF Coming
      <4>5. Word("segment downloaded") # Null
          BY <1>0, ServiceSaid, NullUnsaid
      <4>6. SegmentUnder(x, y)'
          BY <1>2, <1>3, <1>8, <2>1, <4>1, <4>3, <4>4, <4>5 DEF SegmentUnder
      <4> QED
          BY <4>2, <4>6
    <3> QED
        BY <3>1, <3>2, <3>3
  <2>5. ~loc'.segment => req' = Download(job.size)' /\ loc' = SDOwriteLoc(job.size, Chunk)'
      BY <1>0, <1>2, <1>3, <2>1 DEF SDOwriteLoc
  <2>6. ~(wkc' > 0)
      BY <1>4, <2>1
  <2> QED
      BY <1>0, <1>1, <1>2, <2>1, <2>2, <2>3, <2>4, <2>5, <2>6 DEF SdoWriteInv
<1>9. CASE ~ok /\ loc.segment /\ GoOn(0)
  <2>1. PICK x \in Nat, y \in Nat :
          SegmentAt(x, y) /\ (~Mistaken /\ ~late /\ pc \notin Over => Lock /\ (alive => SegmentUnder(x, y)))
      BY <1>0, <1>9
  <2>2. y <= job.size /\ loc.at = y /\ (loc.notLast <=> y # job.size) /\ loc.toggle \in BOOLEAN
      BY <2>1 DEF SegmentAt
  <2>3. \/ y = job.size /\ Return(0)
        \/ \E z \in Nat : /\ SegmentAt(y, z)' /\ y <= z /\ loc'.segment = TRUE
                          /\ pc' = "send" /\ req' \in DownloadSegments /\ wkc' = wkc
      BY <1>0, <1>2, <1>9, <2>2, GoOnIs
  <2>4. ASSUME NEW z \in Nat, SegmentAt(y, z)', y <= z, loc'.segment = TRUE, pc' = "send",
               req' \in DownloadSegments, wkc' = wkc
        PROVE  SdoWriteInv'
    <3>1. Base' /\ Talk(SdoWriteAsk, SdoWriteTell)'
        BY <1>4, <1>5, <1>6, <2>4
    <3>2. ASSUME ~Mistaken, ~late' PROVE Lock' /\ (alive' => SegmentUnder(y, z)')
      <4>1. late' = late
          BY <1>2, <1>9, <3>2
      <4>2. Lock /\ (alive => SegmentUnder(x, y))
          BY <1>2, <2>1, <3>2, <4>1
      <4>3. Lock'
          BY <1>0, <1>1, <1>9, <2>4, <3>2, <4>2, LockSend
      <4>4. alive' => SegmentUnder(y, z)'
          BY <1>0, <1>2, <2>4, <4>2, <4>3, SegmentOn
      <4> QED
          BY <4>3, <4>4
    <3> QED
        BY <1>1, <1>2, <2>4, <3>1, <3>2, SdoWriteOn
  <2> QED
      BY <1>7, <2>3, <2>4
<1> QED
    BY <1>1, <1>7, <1>8, <1>9

LEMMA SdoWriteIn ==
  ASSUME SdoWriteInv, Unfinished, job.op = "SDOwrite", SDOwriteReceive
  PROVE  SdoWriteInv'
<1> DEFINE A == SdoWriteAsk
           T == SdoWriteTell
<1>0. /\ Base /\ Talk(A, T) /\ buf = <<>> /\ pc # "empty" /\ Len(dev.todo) <= 1
      /\ loc.segment \in BOOLEAN /\ job \in Jobs /\ dev \in DevSet
      /\ ~loc.segment => req = Download(job.size) /\ loc = SDOwriteLoc(job.size, Chunk)
      /\ ~loc.segment /\ ~Mistaken /\ pc \notin Over => FirstFrame
      /\ loc.segment => \E x, y \in Nat :
           SegmentAt(x, y) /\ (~Mistaken /\ ~late /\ pc \notin Over => Lock /\ (alive => SegmentUnder(x, y)))
    BY SdoWriteFacts
<1>1. /\ Null \notin A /\ Null \notin T
      /\ \A m \in FirstAnswers : m.kind \in {"expedited", "normal"}
      /\ \A m \in Downloadeds : m.kind = "downloaded"
      /\ Word("segment downloaded").kind = "segment downloaded" /\ Abort.kind = "abort"
      /\ \A m \in T : m \in FirstAnswers \/ m \in Downloadeds \/ m = Word("segment downloaded") \/ m = Abort
    BY <1>0, SdoWriteSaid DEF SdoWriteTell
<1> HIDE DEF A, T
<1>2. PICK m \in Answers :
        /\ Receiving("SDOwrite", m) /\ buf' = buf
        /\ LET good == m # Null /\ IF loc.segment THEN IsSegmentTaken(m) ELSE IsDownloaded(m) IN
           \/ good /\ GoOn(1)
           \/ m = Null /\ loc.segment /\ GoOn(0)
           \/ ~good /\ ~(m = Null /\ loc.segment) /\ Return(0)
    BY DEF SDOwriteReceive, Keep
<1>3. /\ pc = "receive" /\ outbox' \in A \cup {Null} /\ inbox' \in T \cup {Null} /\ dev'.todo \in Seq(T)
      /\ UNCHANGED <<job, outbox, dev, alive, unsent>>
      /\ dev' \in DevSet' /\ late' \in BOOLEAN /\ missed' \in BOOLEAN
      /\ m # Null => m \in T /\ inbox = m /\ inbox' = Null /\ UNCHANGED <<missed, late>>
      /\ (m = Null => late' = TRUE \/ late' = late)
  <2>1. /\ pc = "receive" /\ outbox' \in A \cup {Null} /\ inbox' \in T \cup {Null} /\ dev'.todo \in Seq(T)
        /\ UNCHANGED <<job, outbox, dev, alive, unsent>>
        /\ dev' \in DevSet' /\ late' \in BOOLEAN /\ missed' \in BOOLEAN
        /\ m # Null => m \in T /\ inbox = m /\ inbox' = Null /\ UNCHANGED <<missed, late>>
    <3>1. Base /\ Talk(A, T) /\ Null \notin T /\ Receiving("SDOwrite", m)
        BY <1>0, <1>1, <1>2
    <3> QED
        BY <3>1, ReceiveStep
  <2>2. Receive(m)
      BY <1>2 DEF Receiving
  <2>3. late' = TRUE \/ late' = late
      BY <2>2 DEF Receive
  <2> QED
      BY <2>1, <2>3
<1>4. /\ A' = A /\ T' = T /\ (Mistaken' <=> Mistaken) /\ Jobs' = Jobs
    BY <1>3, SdoWriteSteady DEF A, T
<1>5. wkc = 0 /\ 0 \in Int /\ 1 \in Int /\ ~(0 > 0)
    BY <1>3 DEF Unfinished
<1>6. ASSUME req' \in A, wkc' \in Int, pc' \in {"send", "receive", "done"}
      PROVE  Base' /\ Talk(SdoWriteAsk, SdoWriteTell)'
    BY <1>0, <1>2, <1>3, <1>4, <1>6 DEF Base, Talk, A, T
<1>7. req \in A /\ DownloadSegments \subseteq A
    BY <1>0 DEF Talk, A, SdoWriteAsk
<1>8. ASSUME NEW w \in Int, Return(w),
             w > 0 => \/ outbox' = Null /\ dev.stored = Entire(job.size)
                      \/ loc.segment /\ late'
                      \/ Mistaken
      PROVE  SdoWriteInv'
  <2>1. req' = req /\ pc' = "done" /\ wkc' = w
      BY <1>8 DEF Return
  <2>2. Base' /\ Talk(SdoWriteAsk, SdoWriteTell)'
      BY <1>6, <1>7, <1>8, <2>1
  <2> QED
      BY <1>2, <1>3, <1>8, <2>2, SdoWriteEnd
<1>9. ASSUME NEW w \in Int, GoOn(w), loc.segment, w > 0 => m # Null /\ IsSegmentTaken(m)
      PROVE  SdoWriteInv'
  <2>1. PICK x \in Nat, y \in Nat :
          SegmentAt(x, y) /\ (~Mistaken /\ ~late /\ pc \notin Over => Lock /\ (alive => SegmentUnder(x, y)))
      BY <1>0, <1>9
  <2>2. y <= job.size /\ loc.at = y /\ (loc.notLast <=> y # job.size) /\ loc.toggle \in BOOLEAN
      BY <2>1 DEF SegmentAt
  <2>3. \/ y = job.size /\ Return(w)
        \/ \E z \in Nat : /\ SegmentAt(y, z)' /\ y <= z /\ loc'.segment = TRUE
                          /\ pc' = "send" /\ req' \in DownloadSegments /\ wkc' = wkc
      BY <1>0, <1>3, <1>9, <2>2, GoOnIs
  <2>4. ASSUME ~Mistaken, ~late', pc' = "done" \/ pc' = "send"
        PROVE  /\ Lock' /\ (alive => SegmentUnder(x, y))
               /\ m # Null => m = Coming /\ alive /\ outbox = Null
    <3>1. Lock /\ (alive => SegmentUnder(x, y))
        BY <1>3, <2>1, <2>4
    <3>2. Base /\ Talk(A, T) /\ Lock /\ Null \notin T /\ Receiving("SDOwrite", m)
        BY <1>0, <1>1, <1>2, <3>1
    <3>3. pc' = "done" \/ ((m # Null \/ ~late') /\ pc' \in {"purge", "send"})
        BY <2>4
    <3>4. Lock'
        BY <3>2, <3>3, LockReceive
    <3>5. m # Null => m = Coming /\ alive /\ m \in T /\ outbox = Null
        BY <3>2, <3>3, LockReceive
    <3> QED
        BY <3>1, <3>4, <3>5
  <2>5. ASSUME y = job.size, Return(w) PROVE SdoWriteInv'
    <3>1. pc' = "done"
        BY <2>5 DEF Return
    <3>2. ASSUME w > 0, ~late', ~Mistaken PROVE outbox' = Null /\ dev.stored = Entire(job.size)
      <4>1. m # Null /\ m.kind = "segment downloaded" /\ m \in T
          BY <1>3, <1>9, <3>2 DEF IsSegmentTaken
      <4>2. m = Word("segment downloaded")
          BY <1>1, <4>1
      <4>3. m = Coming /\ alive /\ outbox = Null /\ SegmentUnder(x, y)
          BY <2>4, <3>1, <3>2, <4>1
      <4> QED
          BY <1>3, <2>5, <4>2, <4>3 DEF SegmentUnder
    <3> QED
        BY <1>8, <1>9, <2>5, <3>2
  <2>6. ASSUME NEW z \in Nat, SegmentAt(y, z)', y <= z, loc'.segment = TRUE, pc' = "send",
               req' \in DownloadSegments, wkc' = wkc
        PROVE  SdoWriteInv'
    <3>1. Base' /\ Talk(SdoWriteAsk, SdoWriteTell)'
        BY <1>5, <1>6, <1>7, <2>6
    <3>2. ASSUME ~Mistaken, ~late' PROVE Lock' /\ (alive' => SegmentUnder(y, z)')
      <4>1. Lock' /\ (alive => SegmentUnder(x, y))
          BY <2>4, <2>6, <3>2
      <4>2. alive' => SegmentUnder(y, z)'
          BY <1>0, <1>3, <2>6, <4>1, SegmentOn
      <4> QED
          BY <4>1, <4>2
    <3> QED
        BY <1>2, <1>3, <2>6, <3>1, <3>2, SdoWriteOn
  <2> QED
      BY <2>3, <2>5, <2>6
<1>10. CASE m # Null /\ ~loc.segment /\ IsDownloaded(m) /\ GoOn(1)
  <2>1. Answering(m) /\ inbox = m /\ inbox' = Null
    <3>1. m \in T /\ m.kind \in {"expedited", "normal", "downloaded"} /\ m.index = "x"
        BY <1>3, <1>10 DEF IsDownloaded
    <3> QED
        BY <1>1, <1>3, <1>10, <3>1 DEF Answering
  <2>2. ASSUME ~Mistaken
        PROVE  /\ outbox = Null /\ dev.want = job.size /\ dev.got = Entire(Chunk) /\ dev.todo = <<>>
               /\ Chunk = job.size => dev.stored = Entire(job.size)
      BY <1>0, <1>3, <1>10, <2>1, <2>2 DEF FirstFrame
  <2>3. PICK c \in Nat : c = Chunk /\ c <= job.size /\ job.size \in Nat
      BY <1>0, ChunkIs, JobIs
  <2>4. loc.at = c /\ (loc.notLast <=> c # job.size) /\ loc.toggle \in BOOLEAN
    <3>1. loc = [segment |-> FALSE, toggle |-> FALSE, at |-> c, notLast |-> c < job.size]
        BY <1>0, <1>10, <2>3 DEF SDOwriteLoc
    <3>2. (c < job.size) <=> c # job.size
        BY <2>3
    <3>3. ASSUME NEW u \in BOOLEAN, NEW q \in BOOLEAN, NEW l,
                 l = [segment |-> u, toggle |-> u, at |-> c, notLast |-> q]
          PROVE  l.at = c /\ (l.notLast <=> q) /\ l.toggle \in BOOLEAN
        BY <3>3
    <3>4. FALSE \in BOOLEAN /\ (c < job.size) \in BOOLEAN
        OBVIOUS
    <3> QED
        BY <3>1, <3>2, <3>3, <3>4
  <2>5. \/ c = job.size /\ Return(1)
        \/ \E z \in Nat : /\ SegmentAt(c, z)' /\ c <= z /\ loc'.segment = TRUE
                          /\ pc' = "send" /\ req' \in DownloadSegments /\ wkc' = wkc
      BY <1>0, <1>3, <1>10, <2>3, <2>4, GoOnIs
  <2>6. ASSUME c = job.size, Return(1) PROVE SdoWriteInv'
      BY <1>3, <1>5, <1>8, <2>2, <2>3, <2>6
  <2>7. ASSUME NEW z \in Nat, SegmentAt(c, z)', c <= z, loc'.segment = TRUE, pc' = "send",
               req' \in DownloadSegments, wkc' = wkc
        PROVE  SdoWriteInv'
    <3>1. Base' /\ Talk(SdoWriteAsk, SdoWriteTell)'
        BY <1>5, <1>6, <1>7, <2>7
    <3>2. ASSUME ~Mistaken, ~late' PROVE Lock' /\ (alive' => SegmentUnder(c, z)')
      <4>1. Lock'
          BY <1>3, <2>1, <2>2, <2>7, <3>2 DEF Lock
      <4>2. Tight(Entire(c), c)
          BY <2>3, EntireIs DEF Tight
      <4>3. Tight(Entire(c), z)
          BY <2>3, <2>7, <4>2, EntireIs, TightUp
      <4>4. dev'.got = Entire(c) /\ dev'.want = job'.size /\ outbox' = Null
          BY <1>3, <2>2, <2>3, <3>2
      <4>5. SegmentUnder(c, z)'
          BY <2>7, <4>2, <4>3, <4>4 DEF SegmentUnder
      <4> QED
          BY <4>1, <4>5
    <3> QED
        BY <1>2, <1>3, <2>7, <3>1, <3>2, SdoWriteOn
  <2> QED
      BY <2>5, <2>6, <2>7
<1>11. CASE m # Null /\ loc.segment /\ IsSegmentTaken(m) /\ GoOn(1)
    BY <1>5, <1>9, <1>11
<1>12. CASE m = Null /\ loc.segment /\ GoOn(0)
    BY <1>5, <1>9, <1>12
<1>13. CASE Return(0)
    BY <1>5, <1>8, <1>13
<1> QED
    BY <1>2, <1>10, <1>11, <1>12, <1>13

LEMMA SdoWriteTake ==
  ASSUME SdoWriteInv, Unfinished, job.op = "SDOwrite", SDOwrite
  PROVE  SdoWriteInv'
  BY SdoWriteOut, SdoWriteIn DEF SDOwrite

-----------------------------------------------------------------------------
(* Only the functions that look whether they have a buffer return without. *)
DryIsChecked == pc = "dry" => job.op \in Checked \cup {"readOE"}

(* All calls together.                                                     *)
CallInv ==
  /\ job \in Jobs /\ Unfinished /\ DryIsChecked
  /\ job.op \in Exchanges => ExchangeInv
  /\ job.op = "RxPDO" => RxInv
  /\ job.op = "readOE" => OEInv
  /\ job.op \in Streams => StreamInv
  /\ job.op = "FOEread" => FoeReadInv
  /\ job.op = "FOEwrite" => FoeWriteInv
  /\ job.op \in Collectors => FrameInv
  /\ job.op = "SDOread" => SdoReadInv
  /\ job.op = "SDOwrite" => SdoWriteInv
  /\ job.op = "EOEsend" => EoeSendInv
  /\ job.op = "SoEwrite" => SoeWriteInv

LEMMA JobKept ==
  ASSUME [Next]_vars
  PROVE  job' = job
<1>1. UNCHANGED vars => job' = job
  BY DEF vars
<1>2. Purge \/ Vanish \/ SlaveStep => job' = job
  BY DEF Purge, Vanish, SlaveStep, Serve, PostNext
<1>3. \A op : SendOnce(op) => job' = job
  BY DEF SendOnce, Sending
<1>4. SDOread \/ SDOwrite => job' = job
  BY DEF SDOread, SDOreadSend, SDOreadFirst, SDOreadSegment, SDOwrite, SDOwriteSend, SDOwriteReceive,
         Sending, Receiving
<1>9. DryStep => job' = job
  BY DEF DryStep, CoeNoBuffer, OEnoBuffer, NullBuffer, NoBuffer
<1>5. CoeService => job' = job
  BY <1>3 DEF CoeService, RxPDO, TxPDOreceive, ODreceive, OEsend, OEreceive, ODlistReceive, Sending, Receiving
<1>6. FoeStep => job' = job
  BY DEF FoeStep, FOEreadSend, FOEreadReceive, FOEwriteSend, FOEwriteReceive, Sending, Receiving
<1>7. SoeStep => job' = job
  BY <1>3 DEF SoeStep, SoEreadSend, SoEreadReceive, SoEwriteSend, SoEwriteEmpty, SoEwriteReceive, Sending, Receiving
<1>8. EoeStep => job' = job
  BY <1>3 DEF EoeStep, EOEsend, EOErecv, EOEreadfragment, SetIpReceive, GetIpReceive, Sending, Receiving
<1> QED
  BY <1>1, <1>2, <1>4, <1>5, <1>6, <1>7, <1>8, <1>9 DEF Next, CallStep, CoeStep, DryStep

(* The steps of the functions that have an invariant of their own.         *)
LEMMA OwnStep ==
  ASSUME NEW op
  PROVE  /\ op = "readOE" /\ StepOf(op) => OEsend \/ OEreceive
         /\ op = "FOEread" /\ StepOf(op) => FOEreadSend \/ FOEreadReceive
         /\ op = "FOEwrite" /\ StepOf(op) => FOEwriteSend \/ FOEwriteReceive
         /\ op = "SDOread" /\ StepOf(op) => SDOread
         /\ op = "SDOwrite" /\ StepOf(op) => SDOwrite
         /\ op = "EOEsend" /\ StepOf(op) => EOEsend
         /\ op = "SoEwrite" /\ StepOf(op) => SoEwriteSend \/ SoEwriteEmpty \/ SoEwriteReceive
  BY DEF StepOf

(* A call that finds no buffer ends, and leaves everything else as it was. *)
LEMMA DryKeeps ==
  ASSUME job \in Jobs, DryStep
  PROVE  /\ job.op \in Exchanges /\ ExchangeInv => ExchangeInv'
         /\ job.op = "RxPDO" /\ RxInv => RxInv'
         /\ job.op \in Streams /\ StreamInv => StreamInv'
         /\ job.op = "FOEread" /\ FoeReadInv => FoeReadInv'
         /\ job.op = "FOEwrite" /\ FoeWriteInv => FoeWriteInv'
         /\ job.op \in Collectors /\ FrameInv => FrameInv'
         /\ job.op = "SDOread" /\ SdoReadInv => SdoReadInv'
         /\ job.op = "SDOwrite" /\ SdoWriteInv => SdoWriteInv'
         /\ job.op = "EOEsend" /\ EoeSendInv => EoeSendInv'
         /\ job.op = "SoEwrite" /\ SoeWriteInv => SoeWriteInv'
<1>1. ASSUME NEW A, NEW T, Base, Talk(A, T), job.op # "readOE"
      PROVE  /\ pc = "send" /\ pc' \in {"dry", "crashed"} /\ unsent' = TRUE /\ Base'
             /\ UNCHANGED <<job, req, loc, buf, wkc, outbox, inbox, dev, alive, missed, late>>
             /\ req' \in A /\ outbox' \in A \cup {Null} /\ inbox' \in T \cup {Null} /\ dev'.todo \in Seq(T)
  BY <1>1, DryStepIs
<1>2. ASSUME job.op \in Exchanges, ExchangeInv PROVE ExchangeInv'
  <2>1. Base /\ Talk({Asked}, {Answer, Abort}) /\ job.op # "readOE"
    BY <1>2 DEF ExchangeInv, Exchanges
  <2>2. job' = job
    BY <1>1, <2>1
  <2>3. Asked' = Asked /\ Answer' = Answer /\ Got' = Got /\ Abort' = Abort
    BY <2>2, ExchangeSteady DEF Abort
  <2> QED
    BY <1>1, <1>2, <2>1, <2>2, <2>3 DEF ExchangeInv, Talk
<1>3. ASSUME job.op = "RxPDO", RxInv PROVE RxInv'
  <2>1. Base /\ Talk({RxAsked}, {}) /\ job.op # "readOE"
    BY <1>3 DEF RxInv
  <2>2. job' = job
    BY <1>1, <2>1
  <2>3. RxAsked' = RxAsked
    BY <2>2 DEF RxAsked, RxPDOrequest
  <2> QED
    BY <1>1, <1>3, <2>1, <2>2, <2>3 DEF RxInv, Talk
<1>4. ASSUME job.op \in Streams, StreamInv PROVE StreamInv'
  <2>1. Base /\ Talk({StreamAsk}, StreamTell) /\ job.op # "readOE"
    BY <1>4 DEF StreamInv, Streams
  <2>2. job' = job
    BY <1>1, <2>1
  <2>3. StreamAsk' = StreamAsk /\ StreamTell' = StreamTell
    BY <2>2, StreamSteady
  <2>4. Collected(job.size)' = Collected(job.size)
    BY <1>1, <2>1 DEF Collected
  <2> QED
    BY <1>1, <1>4, <2>1, <2>2, <2>3, <2>4 DEF StreamInv, Talk
<1>5. ASSUME job.op = "FOEread", FoeReadInv PROVE FoeReadInv'
  <2>1. Base /\ Talk(FoeReadAsk, FoeReadTell) /\ job.op # "readOE"
    BY <1>5 DEF FoeReadInv
  <2>2. job' = job
    BY <1>1, <2>1
  <2>3. FoeReadAsk' = FoeReadAsk /\ FoeReadTell' = FoeReadTell
    BY <2>2, FoeReadSteady
  <2> QED
    BY <1>1, <1>5, <2>1, <2>2, <2>3 DEF FoeReadInv, Talk, Lock
<1>6. ASSUME job.op = "FOEwrite", FoeWriteInv PROVE FoeWriteInv'
  <2>1. Base /\ Talk(FoeWriteAsk, FoeWriteTell) /\ job.op # "readOE"
    BY <1>6 DEF FoeWriteInv
  <2>2. job' = job
    BY <1>1, <2>1
  <2>3. FoeWriteAsk' = FoeWriteAsk /\ FoeWriteTell' = FoeWriteTell
    BY <2>2, FoeWriteSteady
  <2> QED
    BY <1>1, <1>6, <2>1, <2>2, <2>3 DEF FoeWriteInv, Talk, Lock
<1>7. ASSUME job.op \in Collectors, FrameInv PROVE FrameInv'
  <2>1. Base /\ Talk({Null}, EoeFrames) /\ job.op # "readOE" /\ pc # "send"
    BY <1>7 DEF FrameInv, Collectors
  <2> QED
    BY <1>1, <2>1
<1>8. ASSUME job.op = "SDOread", SdoReadInv PROVE SdoReadInv'
  <2>1. Base /\ Talk(SdoReadAsk, SdoReadTell) /\ job.op # "readOE"
    BY <1>8 DEF SdoReadInv
  <2>2. job' = job
    BY <1>1, <2>1
  <2>3. SdoReadAsk' = SdoReadAsk /\ SdoReadTell' = SdoReadTell /\ First' = First
        /\ FirstAnswers' = FirstAnswers /\ Segments' = Segments /\ (Mistaken' <=> Mistaken)
        /\ Uploads' = Uploads /\ UploadSegments' = UploadSegments
    BY <2>2, SdoReadSteady
  <2>4. Carried(inbox)' = Carried(inbox) /\ Carried(Posting)' = Carried(Posting) /\ Posting' = Posting
    BY <1>1, <2>1, <2>3 DEF Carried, Posting
  <2>5. SdoReadBounds'
    BY <1>1, <1>8, <2>1, <2>2, <2>3, <2>4 DEF SdoReadInv, SdoReadBounds
  <2> QED
    BY <1>1, <1>8, <2>1, <2>2, <2>3, <2>5 DEF SdoReadInv, Talk, Ordered
<1>9. ASSUME job.op = "SDOwrite", SdoWriteInv PROVE SdoWriteInv'
  <2>1. Base /\ Talk(SdoWriteAsk, SdoWriteTell) /\ job.op # "readOE"
    BY <1>9 DEF SdoWriteInv
  <2>2. job' = job
    BY <1>1, <2>1
  <2>3. SdoWriteAsk' = SdoWriteAsk /\ SdoWriteTell' = SdoWriteTell /\ Chunk' = Chunk /\ (Mistaken' <=> Mistaken)
        /\ Download(job.size)' = Download(job.size) /\ DownloadSegments' = DownloadSegments
    BY <2>2, SdoWriteSteady
  <2>4. SDOwriteLoc(job.size, Chunk)' = SDOwriteLoc(job.size, Chunk)
    BY <2>2, <2>3 DEF SDOwriteLoc
  <2>5. ASSUME NEW x \in Nat, NEW y \in Nat, SegmentAt(x, y) PROVE SegmentAt(x, y)'
    BY <1>1, <2>1, <2>2, <2>3, <2>5 DEF SegmentAt
  <2> QED
    BY <1>1, <1>9, <2>1, <2>2, <2>3, <2>4, <2>5 DEF SdoWriteInv, Talk
<1>10. ASSUME job.op = "EOEsend", EoeSendInv PROVE EoeSendInv'
  <2>1. Base /\ Talk(EoeWrites, {}) /\ job.op # "readOE"
    BY <1>10 DEF EoeSendInv
  <2>2. job' = job
    BY <1>1, <2>1
  <2>3. EoeWrites' = EoeWrites
    BY <2>2, EoeSteady
  <2>4. EoeHas(job.size)' = EoeHas(job.size)
    BY <1>1, <2>1, <2>2, <2>3 DEF EoeHas, EoePart, Grown
  <2> QED
    BY <1>1, <1>10, <2>1, <2>2, <2>3, <2>4 DEF EoeSendInv, Talk
<1>11. ASSUME job.op = "SoEwrite", SoeWriteInv PROVE SoeWriteInv'
  <2>1. Base /\ Talk(SoeWrites, SoeTell) /\ job.op # "readOE"
    BY <1>11 DEF SoeWriteInv
  <2>2. job' = job
    BY <1>1, <2>1
  <2>3. SoeWrites' = SoeWrites /\ SoeTell' = SoeTell
    BY <2>2, SoeSteady
  <2> QED
    BY <1>1, <1>11, <2>1, <2>2, <2>3 DEF SoeWriteInv, Talk
<1> QED
  BY <1>2, <1>3, <1>4, <1>5, <1>6, <1>7, <1>8, <1>9, <1>10, <1>11

LEMMA DryIsCheckedStep ==
  ASSUME DryIsChecked, [Next]_vars
  PROVE  DryIsChecked'
<1>0. job' = job
  BY JobKept
<1>1. SUFFICES pc' = "dry" => pc = "dry" \/ job.op \in Checked \cup {"readOE"}
  BY <1>0 DEF DryIsChecked
<1>2. \A w : Return(w) => pc' # "dry"
  BY DEF Return
<1>3. \A m : Say(m) => pc' # "dry"
  BY DEF Say
<1>4. Wait => pc' # "dry"
  BY DEF Wait
<1>5. ASSUME job.op \in Checked \cup {"readOE"} PROVE pc' = "dry" => pc = "dry" \/ job.op \in Checked \cup {"readOE"}
  BY <1>5
<1>6. CASE LinkStep
  BY <1>6 DEF LinkStep, Purge, Serve, PostNext, Vanish, vars, callVars
<1>7. CASE DryStep
  BY <1>7 DEF DryStep, CoeNoBuffer, OEnoBuffer, NullBuffer, NoBuffer, Ends
<1>8. CASE StepOf(job.op) /\ job.op \notin Checked \cup {"readOE"}
  <2>1. FOEreadSend \/ FOEreadReceive => pc' # "dry"
    BY <1>2, <1>3, <1>4 DEF FOEreadSend, FOEreadReceive
  <2>2. FOEwriteSend \/ FOEwriteReceive => pc' # "dry"
    BY <1>2, <1>3, <1>4 DEF FOEwriteSend, FOEwriteReceive, FOEdata
  <2>3. \A op : SendOnce(op) => pc' # "dry"
    BY <1>2, <1>4 DEF SendOnce
  <2>4. SoEreadSend \/ SoEreadReceive => pc' # "dry"
    BY <1>2, <1>4 DEF SoEreadSend, SoEreadReceive, Ends
  <2>5. \A w : SoEgoOn(w) => pc' # "dry"
    BY <1>2, <1>3 DEF SoEgoOn, SoEnext
  <2>6. SoEwriteReceive => pc' # "dry"
    <3> SUFFICES ASSUME SoEwriteReceive PROVE pc' # "dry"
      OBVIOUS
    <3>1. PICK m : CASE m = Null -> SoEgoOn(0) [] m # Null /\ m.kind = "soe written" -> Return(1)
                     [] OTHER -> Return(0)
      BY DEF SoEwriteReceive
    <3>2. SoEgoOn(0) \/ Return(1) \/ Return(0)
      BY <3>1
    <3> QED
      BY <1>2, <2>5, <3>2
  <2>7. SoEwriteSend \/ SoEwriteEmpty => pc' # "dry"
    BY <1>2, <1>4, <2>5 DEF SoEwriteSend, SoEwriteEmpty
  <2>8. \A m, n, b : EOEtake(m, n, b) => pc' # "dry"
    <3> TAKE m, n, b
    <3>1. EOEtake(m, n, b) => IF m.last THEN pc' = "done" /\ wkc' = 1 /\ UNCHANGED req ELSE Wait
      BY DEF EOEtake
    <3> QED
      BY <1>4, <3>1
  <2>9. EOEsend \/ EOErecv \/ SetIpReceive \/ GetIpReceive => pc' # "dry"
    BY <1>2, <1>3, <2>8 DEF EOEsend, EOErecv, SetIpReceive, GetIpReceive
  <2>10. EOEreadfragment => pc' # "dry"
    BY <1>2, <1>4, <2>8 DEF EOEreadfragment
  <2> QED
    BY <1>8, <2>1, <2>2, <2>3, <2>4, <2>6, <2>7, <2>9, <2>10 DEF StepOf, Checked
<1> QED
  BY <1>5, <1>6, <1>7, <1>8, StepsOf

LEMMA CallStepKeeps ==
  ASSUME CallInv, [Next]_vars
  PROVE  CallInv'
<1>1. job' = job /\ job \in Jobs /\ Unfinished
  BY JobKept DEF CallInv
<1>2. Unfinished' /\ DryIsChecked'
  BY <1>1, UnfinishedStep, DryIsCheckedStep DEF CallInv
<1>3. LinkStep \/ StepOf(job.op) \/ DryStep
  BY StepsOf
<1>4. ASSUME job.op \in Exchanges PROVE ExchangeInv'
  BY <1>1, <1>3, <1>4, ExchangeLink, ExchangeTake, DryKeeps DEF CallInv
<1>5. ASSUME job.op = "RxPDO" PROVE RxInv'
  BY <1>1, <1>3, <1>5, RxStep, DryKeeps DEF CallInv
<1>6. ASSUME job.op = "readOE" PROVE OEInv'
  BY <1>3, <1>6, OELink, OETake, OEDry, OwnStep DEF CallInv
<1>7. ASSUME job.op \in Streams PROVE StreamInv'
  BY <1>1, <1>3, <1>7, StreamLink, StreamTake, DryKeeps DEF CallInv
<1>8. ASSUME job.op = "FOEread" PROVE FoeReadInv'
  BY <1>1, <1>3, <1>8, FoeReadLink, FoeReadTake, OwnStep, DryKeeps DEF CallInv
<1>9. ASSUME job.op = "FOEwrite" PROVE FoeWriteInv'
  BY <1>1, <1>3, <1>9, FoeWriteLink, FoeWriteTake, OwnStep, DryKeeps DEF CallInv
<1>10. ASSUME job.op \in Collectors PROVE FrameInv'
  BY <1>1, <1>3, <1>10, FrameLink, FrameTake, DryKeeps DEF CallInv
<1>11. ASSUME job.op = "SDOread" PROVE SdoReadInv'
  BY <1>1, <1>3, <1>11, SdoReadLink, SdoReadTake, OwnStep, DryKeeps DEF CallInv
<1>12. ASSUME job.op = "SDOwrite" PROVE SdoWriteInv'
  BY <1>1, <1>3, <1>12, SdoWriteMove, SdoWriteServe, SdoWriteTake, OwnStep, DryKeeps DEF CallInv, LinkStep
<1>13. ASSUME job.op = "EOEsend" PROVE EoeSendInv'
  BY <1>1, <1>3, <1>13, EoeSendLink, EoeSendTake, OwnStep, DryKeeps DEF CallInv
<1>14. ASSUME job.op = "SoEwrite" PROVE SoeWriteInv'
  BY <1>1, <1>3, <1>14, SoeWriteLink, SoeWriteTake, OwnStep, DryKeeps DEF CallInv
<1>15. job'.op = job.op /\ job' \in Jobs /\ Exchanges' = Exchanges /\ Streams' = Streams
       /\ Collectors' = Collectors
  BY <1>1 DEF Exchanges, Streams, Collectors
<1> QED
  BY <1>2, <1>4, <1>5, <1>6, <1>7, <1>8, <1>9, <1>10, <1>11, <1>12, <1>13, <1>14, <1>15 DEF CallInv

-----------------------------------------------------------------------------
(* The beginning of a call.                                                *)
LEMMA IdleIs ==
  ASSUME NEW t \in Seq(Said)
  PROVE  /\ Idle(t) \in DevSet /\ Idle(t).todo = t /\ Idle(t).base = 0 /\ Idle(t).at = 0
         /\ Idle(t).toggle = FALSE /\ Idle(t).got = <<>> /\ Idle(t).want = 0 /\ Idle(t).no = 0
         /\ Idle(t).stored = <<>> /\ Idle(t).busy = FALSE
<1>1. <<>> \in Bufs /\ 0 \in {0, 1000} /\ 0 \in Nat /\ FALSE \in BOOLEAN
  BY EmptyBuf
<1> QED
  BY <1>1 DEF Idle, DevSet

LEMMA CoeInit ==
  ASSUME CallInit
  PROVE  /\ job.op = "SDOread" => SDOreadBegin
         /\ job.op = "SDOwrite" => SDOwriteBegin
         /\ job.op = "RxPDO" => Begin(RxPDOrequest(job.size, job.l), Null)
         /\ job.op = "TxPDO" => Begin(Word("tx"), Null)
         /\ job.op = "readOD" => Begin(Word("od"), Null)
         /\ job.op = "readOE" => OEbegin
         /\ job.op = "readODlist" => Begin(Word("odlist"), Null)
<1>1. CASE job.op = "SDOread"
  BY <1>1 DEF CallInit
<1>2. CASE job.op = "SDOwrite"
  BY <1>2 DEF CallInit
<1>3. CASE job.op = "RxPDO"
  BY <1>3 DEF CallInit
<1>4. CASE job.op = "TxPDO"
  BY <1>4 DEF CallInit, Word
<1>5. CASE job.op = "readOD"
  BY <1>5 DEF CallInit, Word
<1>6. CASE job.op = "readOE"
  BY <1>6 DEF CallInit
<1>7. CASE job.op = "readODlist"
  BY <1>7 DEF CallInit, Word
<1> QED
  BY <1>1, <1>2, <1>3, <1>4, <1>5, <1>6, <1>7

LEMMA OthersInit ==
  ASSUME CallInit
  PROVE  /\ job.op = "FOEread" => FOEreadBegin
         /\ job.op = "FOEwrite" => FOEwriteBegin
         /\ job.op = "SoEread" => Begin(Word("soe read"), Null)
         /\ job.op = "SoEwrite" => SoEwriteBegin
         /\ job.op = "EOEsend" => pc = "send" /\ req = EOEfragment(0) /\ loc = Null
         /\ job.op = "EOEsetIp" => Begin(Word("ip set"), Null)
         /\ job.op = "EOEgetIp" => Begin(Word("ip"), Null)
         /\ job.op \in Collectors => Unasked
<1>1. CASE job.op = "FOEread"
  BY <1>1 DEF CallInit, Collectors
<1>2. CASE job.op = "FOEwrite"
  BY <1>2 DEF CallInit, Collectors
<1>3. CASE job.op = "SoEread"
  BY <1>3 DEF CallInit, Word, Collectors
<1>4. CASE job.op = "SoEwrite"
  BY <1>4 DEF CallInit, Collectors
<1>5. CASE job.op = "EOEsend"
  BY <1>5 DEF CallInit, Collectors
<1>6. CASE job.op = "EOEsetIp"
  BY <1>6 DEF CallInit, Word, Collectors
<1>7. CASE job.op = "EOEgetIp"
  BY <1>7 DEF CallInit, Word, Collectors
<1>8. CASE job.op = "EOErecv"
  BY <1>8 DEF CallInit, Collectors
<1>9. CASE job.op = "EOEreadfragment"
  BY <1>9 DEF CallInit, Collectors
<1> QED
  BY <1>1, <1>2, <1>3, <1>4, <1>5, <1>6, <1>7, <1>8, <1>9 DEF Collectors

(* Nothing is under way, but for an earlier request.                       *)
Rest ==
  /\ buf = <<>> /\ wkc = 0 /\ inbox = Null /\ outbox = job.early
  /\ alive = TRUE /\ missed = FALSE /\ late = FALSE /\ unsent = FALSE

Still ==
  /\ dev \in DevSet /\ dev.todo = <<>> /\ dev.base = 0 /\ dev.at = 0 /\ dev.got = <<>> /\ dev.want = 0
  /\ dev.no = 0 /\ dev.stored = <<>> /\ dev.busy = FALSE

LEMMA InitIs ==
  ASSUME Init
  PROVE  /\ job \in Jobs /\ CallInit /\ Rest
         /\ job.op \notin Collectors => Still
         /\ job.op \in Collectors => \E t \in Frames : dev = Idle(t)
<1>1. job \in Jobs /\ CallInit /\ Rest
  BY DEF Init, Rest
<1>2. ASSUME job.op \notin Collectors PROVE Still
  <2>1. dev = Idle(<<>>)
    BY <1>2 DEF Init, Collectors
  <2>2. <<>> \in Seq(Said)
    OBVIOUS
  <2> QED
    BY <2>1, <2>2, IdleIs DEF Still
<1>3. job.op \in Collectors => \E t \in Frames : dev = Idle(t)
  BY DEF Init, Collectors
<1> QED
  BY <1>1, <1>2, <1>3

LEMMA QuietAtFirst ==
  ASSUME Init, job.op \notin Collectors
  PROVE  /\ pc \in {"purge", "send", "receive"} => Base
         /\ Null \notin {} /\ inbox = Null /\ dev.todo = <<>>
         /\ \A T : dev.todo \in Seq(T)
         /\ pc \in {"purge", "send"} => (job.op \notin {"SDOread", "SDOwrite"} => Lock)
         /\ job.op \notin {"SDOread", "SDOwrite"} => outbox = Null
         /\ alive = TRUE /\ ~missed /\ ~late /\ ~unsent /\ wkc = 0 /\ buf = <<>> /\ Length(buf) = 0
         /\ Posting = Null /\ Coming = Null
<1>1. job \in Jobs /\ Rest /\ Still
  BY InitIs
<1>2. pc \in {"purge", "send", "receive"} => Base
  <2>1. job \in Jobs /\ dev \in DevSet
    BY <1>1 DEF Still
  <2>2. buf \in Bufs /\ wkc \in Int
    BY <1>1, EmptyBuf DEF Rest
  <2>3. alive \in BOOLEAN /\ missed \in BOOLEAN /\ late \in BOOLEAN /\ unsent \in BOOLEAN
    BY <1>1 DEF Rest
  <2> QED
    BY <2>1, <2>2, <2>3 DEF Base
<1>3. \A T : <<>> \in Seq(T)
  OBVIOUS
<1>4. job.op \notin {"SDOread", "SDOwrite"} => outbox = Null
  BY <1>1, JobHas DEF Rest
<1>5. inbox = Null /\ dev.todo = <<>> /\ alive = TRUE
  BY <1>1 DEF Rest, Still
<1>6. pc \in {"purge", "send"} => (job.op \notin {"SDOread", "SDOwrite"} => Lock)
  BY <1>4, <1>5 DEF Lock
<1>7. Length(<<>>) = 0
  BY LengthEmpty
<1>8. Posting = Null /\ Coming = Null
  BY <1>5 DEF Posting, Coming
<1>9. alive = TRUE /\ ~missed /\ ~late /\ ~unsent /\ wkc = 0 /\ buf = <<>>
  BY <1>1 DEF Rest
<1>10. \A T : dev.todo \in Seq(T)
  BY <1>3, <1>5
<1>11. Length(buf) = 0
  BY <1>7, <1>9
<1> QED
  BY <1>2, <1>4, <1>5, <1>6, <1>8, <1>9, <1>10, <1>11

LEMMA AskedIs ==
  /\ job.op = "TxPDO" => Asked = Word("tx")
  /\ job.op = "readOD" => Asked = Word("od")
  /\ job.op = "EOEsetIp" => Asked = Word("ip set")
  /\ job.op = "EOEgetIp" => Asked = Word("ip")
<1>1. CASE job.op = "TxPDO"
  BY <1>1 DEF Asked
<1>2. CASE job.op = "readOD"
  BY <1>2 DEF Asked
<1>3. CASE job.op = "EOEsetIp"
  BY <1>3 DEF Asked
<1>4. CASE job.op = "EOEgetIp"
  BY <1>4 DEF Asked
<1> QED
  BY <1>1, <1>2, <1>3, <1>4

LEMMA ExchangeInit ==
  ASSUME Init, job.op \in Exchanges
  PROVE  ExchangeInv
<1>1. job \in Jobs /\ CallInit
  BY InitIs
<1>2. Begin(Asked, Null)
  BY <1>1, CoeInit, OthersInit, AskedIs DEF Exchanges
<1>3. pc = "purge" /\ req = Asked
  BY <1>2 DEF Begin
<1>4. job.op \notin Collectors /\ job.op \notin {"SDOread", "SDOwrite"}
  BY DEF Exchanges, Collectors
<1>5. Base /\ outbox = Null /\ inbox = Null /\ wkc = 0 /\ Length(buf) = 0
  BY <1>3, <1>4, QuietAtFirst
<1>6. dev.todo \in Seq({Answer, Abort})
  BY <1>4, QuietAtFirst
<1>7. Talk({Asked}, {Answer, Abort})
  BY <1>3, <1>5, <1>6 DEF Talk
<1>8. Length(buf) <= job.room
  BY <1>1, <1>5, JobIs
<1> QED
  BY <1>5, <1>7, <1>8 DEF ExchangeInv

LEMMA RxInit ==
  ASSUME Init, job.op = "RxPDO"
  PROVE  RxInv
<1>1. job \in Jobs /\ CallInit
  BY InitIs
<1>2. Begin(RxAsked, Null)
  BY <1>1, CoeInit DEF RxAsked
<1>3. pc = "purge" /\ req = RxAsked
  BY <1>2 DEF Begin
<1>4. job.op \notin Collectors /\ job.op \notin {"SDOread", "SDOwrite"}
  BY DEF Collectors
<1>5. Base /\ outbox = Null /\ inbox = Null /\ wkc = 0 /\ buf = <<>>
  BY <1>3, <1>4, QuietAtFirst
<1>6. dev.todo \in Seq({})
  BY <1>4, QuietAtFirst
<1>7. Talk({RxAsked}, {})
  BY <1>3, <1>5, <1>6 DEF Talk
<1> QED
  BY <1>5, <1>7 DEF RxInv

LEMMA OEInit ==
  ASSUME Init, job.op = "readOE"
  PROVE  OEInv
<1>1. job \in Jobs /\ CallInit
  BY InitIs
<1>2. OEbegin
  BY <1>1, CoeInit
<1>3. pc = "purge" /\ req = OErequest(0) /\ loc = [sub |-> 0, entry |-> [k \in 0 .. MaxSub |-> None]]
  BY <1>2 DEF OEbegin, Begin
<1>4. job.op \notin Collectors /\ job.op \notin {"SDOread", "SDOwrite"}
  BY DEF Collectors
<1>5. Base /\ outbox = Null /\ inbox = Null /\ wkc = 0 /\ Length(buf) = 0 /\ Lock
  BY <1>3, <1>4, QuietAtFirst
<1>6. dev.todo \in Seq(OEanswers)
  BY <1>4, QuietAtFirst
<1>7. req \in OEs
  BY <1>3 DEF OErequest, OEs
<1>8. Talk(OEs, OEanswers)
  BY <1>5, <1>6, <1>7 DEF Talk
<1>9. Length(buf) <= job.room
  BY <1>1, <1>5, JobIs
<1>10. 0 \in 0 .. MaxSub /\ None \in Int /\ \A k \in 0 .. MaxSub : k >= 0
  BY DEF MaxSub, None
<1>11. loc \in [sub : 0 .. MaxSub, entry : [0 .. MaxSub -> Int]] /\ loc.sub = 0
       /\ \A k \in 0 .. MaxSub : loc.entry[k] = None
  BY <1>3, <1>10
<1>12. \A k \in 0 .. MaxSub : loc.entry[k] = None /\ pc \notin Over /\ k >= loc.sub
  BY <1>3, <1>10, <1>11
<1>13. req = OErequest(loc.sub)
  BY <1>3, <1>11
<1> QED
  BY <1>3, <1>5, <1>8, <1>9, <1>11, <1>12, <1>13 DEF OEInv

LEMMA StreamInit ==
  ASSUME Init, job.op \in Streams
  PROVE  StreamInv
<1>1. job \in Jobs /\ CallInit
  BY InitIs
<1>2. Begin(StreamAsk, Null)
  BY <1>1, CoeInit, OthersInit DEF Streams, StreamAsk
<1>3. pc = "purge" /\ req = StreamAsk
  BY <1>2 DEF Begin
<1>4. job.op \notin Collectors /\ job.op \notin {"SDOread", "SDOwrite"}
  BY DEF Collectors, Streams
<1>5. Base /\ outbox = Null /\ inbox = Null /\ wkc = 0 /\ buf = <<>> /\ Length(buf) = 0 /\ dev.todo = <<>>
  BY <1>3, <1>4, QuietAtFirst
<1>6. dev.todo \in Seq(StreamTell)
  BY <1>4, QuietAtFirst
<1>7. Talk({StreamAsk}, StreamTell)
  BY <1>3, <1>5, <1>6 DEF Talk
<1>8. Length(buf) <= job.room
  BY <1>1, <1>5, JobIs
<1> QED
  BY <1>3, <1>5, <1>7, <1>8 DEF StreamInv

LEMMA FoeReadInit ==
  ASSUME Init, job.op = "FOEread"
  PROVE  FoeReadInv
<1>1. job \in Jobs /\ CallInit /\ Still
  BY InitIs DEF Collectors
<1>2. FOEreadBegin
  BY <1>1, OthersInit
<1>3. pc = "purge" /\ req = Word("foe read") /\ loc = FOEreadLoc
  BY <1>2 DEF FOEreadBegin, Begin, Word
<1>4. job.op \notin Collectors /\ job.op \notin {"SDOread", "SDOwrite"}
  BY DEF Collectors
<1>5. Base /\ outbox = Null /\ inbox = Null /\ wkc = 0 /\ buf = <<>> /\ Length(buf) = 0 /\ Lock
  BY <1>3, <1>4, QuietAtFirst
<1>6. dev.todo \in Seq(FoeReadTell)
  BY <1>4, QuietAtFirst
<1>7. req \in FoeReadAsk /\ req.kind = "foe read"
  BY <1>3 DEF FoeReadAsk, Word
<1>8. Talk(FoeReadAsk, FoeReadTell)
  BY <1>5, <1>6, <1>7 DEF Talk
<1>9. Length(buf) <= job.room /\ dev.at <= job.size /\ 0 \in 0 .. job.size
  BY <1>1, <1>5, JobIs DEF Still
<1>10. loc \in [prevpacket : Nat, worktodo : BOOLEAN] /\ loc.worktodo = TRUE
  BY <1>3 DEF FOEreadLoc
<1>11. Read(0)
  BY <1>3, <1>5, <1>7, <1>10, EmptyBuf DEF Read
<1>12. \E e \in 0 .. job.size : Read(e)
  BY <1>9, <1>11
<1> QED
  BY <1>5, <1>8, <1>9, <1>10, <1>12 DEF FoeReadInv

LEMMA FoeWriteInit ==
  ASSUME Init, job.op = "FOEwrite"
  PROVE  FoeWriteInv
<1>1. job \in Jobs /\ CallInit /\ Still
  BY InitIs DEF Collectors
<1>2. FOEwriteBegin
  BY <1>1, OthersInit
<1>3. pc = "purge" /\ req = Word("foe write") /\ loc = FOEwriteLoc
  BY <1>2 DEF FOEwriteBegin, Begin, Word
<1>4. job.op \notin Collectors /\ job.op \notin {"SDOread", "SDOwrite"}
  BY DEF Collectors
<1>5. Base /\ outbox = Null /\ inbox = Null /\ wkc = 0 /\ buf = <<>> /\ Lock
  BY <1>3, <1>4, QuietAtFirst
<1>6. dev.todo \in Seq(FoeWriteTell)
  BY <1>4, QuietAtFirst
<1>7. req \in FoeWriteAsk
  BY <1>3 DEF FoeWriteAsk
<1>8. Talk(FoeWriteAsk, FoeWriteTell)
  BY <1>5, <1>6, <1>7 DEF Talk
<1>9. 0 <= job.size /\ 0 - 0 = 0 /\ 0 \in Nat /\ 0 <= 0
  BY <1>1, JobIs
<1>10. FoeAt(0, 0, 0)
  BY <1>3, <1>9 DEF FoeAt, FOEwriteLoc
<1>11. FoeUnder(0, 0, 0)
  BY <1>1, <1>3, EmptyBuf DEF FoeUnder, FoeBefore, Still
<1>12. \E p, x, y \in Nat : FoeAt(p, x, y) /\ (alive => FoeUnder(p, x, y))
  BY <1>9, <1>10, <1>11
<1>13. pc # "empty"
  BY <1>3
<1>14. wkc = 0 /\ ~(0 > 0)
  BY <1>5
<1> QED
  BY <1>5, <1>8, <1>12, <1>13, <1>14, Zenon DEF FoeWriteInv

LEMMA EoeSendInit ==
  ASSUME Init, job.op = "EOEsend"
  PROVE  EoeSendInv
<1>1. job \in Jobs /\ CallInit /\ Still
  BY InitIs DEF Collectors
<1>3. pc = "send" /\ req = EOEfragment(0)
  BY <1>1, OthersInit
<1>4. job.op \notin Collectors /\ job.op \notin {"SDOread", "SDOwrite"}
  BY DEF Collectors
<1>5. Base /\ outbox = Null /\ inbox = Null /\ wkc = 0 /\ buf = <<>>
  BY <1>3, <1>4, QuietAtFirst
<1>6. dev.todo \in Seq({})
  BY <1>4, QuietAtFirst
<1>7. 0 \in Nat /\ 0 <= job.size /\ 0 \in 0 .. job.size
  BY <1>1, JobIs
<1>8. PICK z \in 0 .. job.size : EoePart(EOEfragment(0), 0, z)
  BY <1>1, <1>7, EoeFragmentIs
<1>9. EoePart(req, 0, z) /\ req \in EoeWrites
  BY <1>3, <1>8 DEF EoePart
<1>10. Talk(EoeWrites, {})
  BY <1>5, <1>6, <1>9 DEF Talk
<1>11. EoeHas(0)
  BY <1>5 DEF EoeHas, Grown
<1>12. \E a, q \in 0 .. job.size : EoePart(req, a, q) /\ (alive => EoeHas(a))
  BY <1>7, <1>9, <1>11
<1> QED
  BY <1>5, <1>10, <1>12 DEF EoeSendInv

LEMMA SoeWriteInit ==
  ASSUME Init, job.op = "SoEwrite"
  PROVE  SoeWriteInv
<1>1. job \in Jobs /\ CallInit /\ Still
  BY InitIs DEF Collectors
<1>2. SoEwriteBegin
  BY <1>1, OthersInit
<1>3. pc = "purge" /\ req = SoEfragment(0) /\ loc = [at |-> req.piece[2], notLast |-> req.incomplete]
  BY <1>2 DEF SoEwriteBegin, Begin
<1>4. job.op \notin Collectors /\ job.op \notin {"SDOread", "SDOwrite"}
  BY DEF Collectors
<1>5. /\ Base /\ outbox = Null /\ inbox = Null /\ wkc = 0 /\ buf = <<>> /\ Posting = Null
      /\ dev.todo = <<>>
  BY <1>3, <1>4, QuietAtFirst
<1>6. dev.todo \in Seq(SoeTell)
  BY <1>4, QuietAtFirst
<1>7. 0 \in Nat /\ 0 <= job.size /\ 0 \in 0 .. job.size
  BY <1>1, JobIs
<1>8. PICK z \in 0 .. job.size : SoePart(SoEfragment(0), 0, z)
  BY <1>1, <1>7, SoeFragmentIs
<1>9. SoePart(req, 0, z) /\ req \in SoeWrites /\ req.piece[2] = z
  BY <1>3, <1>8 DEF SoePart
<1>10. Talk(SoeWrites, SoeTell)
  BY <1>5, <1>6, <1>9 DEF Talk
<1>11. ~Written
  BY <1>1, <1>5, SoeSaid DEF Written
<1>12. SoeHas(0)
  BY <1>1, <1>5, <1>11, EmptyBuf DEF SoeHas, Still
<1>13. SoeOrder
  BY <1>3, <1>5, <1>11 DEF SoeOrder
<1>14. SoeAt(0, z)
  BY <1>3, <1>9, <1>12 DEF SoeAt
<1>15. \E a, q \in 0 .. job.size : SoeAt(a, q)
  BY <1>7, <1>14
<1>16. Len(dev.todo) <= 1
  BY <1>5
<1> QED
  BY <1>5, <1>10, <1>13, <1>15, <1>16 DEF SoeWriteInv

-----------------------------------------------------------------------------
(* An earlier request is an upload, before an upload perhaps a download;   *)
(* its answer is mistaken for the call's own when it has its index.        *)
LEMMA EarlyIs ==
  ASSUME Init, job.op \in {"SDOread", "SDOwrite"}
  PROVE  /\ outbox \in Uploads \cup LateAsk \cup {Null}
         /\ job.op = "SDOwrite" => outbox \in Uploads \cup {Null}
         /\ ~Mistaken /\ outbox \in Uploads => outbox.index # "x"
<1>1. job \in Jobs /\ outbox = job.early
  BY InitIs DEF Rest
<1>2. \/ outbox \in {Null, Upload(1), Upload(2), UploadOther}
      \/ job.op = "SDOread" /\ outbox \in LateAsk
  BY <1>1, JobHas DEF LateAsk
<1>3. \A s \in {1, 2} : s \in 0 .. 255
  OBVIOUS
<1>4. Upload(1) \in Uploads /\ Upload(2) \in Uploads /\ UploadOther \in Uploads
  BY <1>3 DEF Upload, UploadOther, Uploads
<1>5. Null \notin Uploads
  BY <1>1, SdoReadSaid
<1> QED
  BY <1>1, <1>2, <1>4, <1>5 DEF Mistaken

LEMMA SdoReadInit ==
  ASSUME Init, job.op = "SDOread"
  PROVE  SdoReadInv
<1>1. job \in Jobs /\ CallInit /\ Still
  BY InitIs DEF Collectors
<1>2. SDOreadBegin
  BY <1>1, CoeInit
<1>3. pc = "purge" /\ req = Upload(1) /\ loc = SDOreadLoc
  BY <1>2 DEF SDOreadBegin, Begin
<1>4. job.op \notin Collectors
  BY DEF Collectors
<1>5. /\ Base /\ inbox = Null /\ wkc = 0 /\ buf = <<>> /\ Length(buf) = 0 /\ Posting = Null /\ dev.todo = <<>>
      /\ alive = TRUE
  BY <1>3, <1>4, QuietAtFirst
<1>6. dev.todo \in Seq(SdoReadTell)
  BY <1>4, QuietAtFirst
<1>7. /\ Upload(1) \in Uploads /\ Null \notin Uploads /\ Null \notin UploadSegments
      /\ Null \notin FirstAnswers /\ Null \notin Segments
      /\ \A m \in Uploads : m.kind = "upload"
      /\ \A m \in UploadSegments : m.kind = "upload segment"
      /\ \A q \in LateAsk : q.kind = "download"
  BY <1>1, SdoReadSaid
<1>8. outbox \in Uploads \cup LateAsk \cup {Null} /\ (~Mistaken /\ outbox \in Uploads => outbox.index # "x")
  BY EarlyIs
<1>9. Talk(SdoReadAsk, SdoReadTell)
  BY <1>3, <1>5, <1>6, <1>7, <1>8 DEF Talk, SdoReadAsk
<1>10. loc \in [segment : BOOLEAN, toggle : BOOLEAN] /\ loc.segment = FALSE
  BY <1>3 DEF SDOreadLoc
<1>11. outbox \notin UploadSegments
  BY <1>7, <1>8
<1>12. Carried(inbox) = 0 /\ Carried(Posting) = 0
  BY <1>5, <1>7 DEF Carried
<1>13. dev.at = 0 /\ job.size \in Nat /\ job.room \in Nat /\ First \in Nat /\ Len(dev.todo) = 0
  BY <1>1, <1>5, JobIs, FirstIs DEF Still
<1>14. /\ Len(dev.todo) <= 1 /\ dev.at <= job.size /\ Length(buf) <= job.room
       /\ Length(buf) + Carried(inbox) + Carried(Posting) <= dev.at /\ Length(buf) <= First
  BY <1>5, <1>12, <1>13
<1>15. inbox \notin FirstAnswers /\ Posting \notin FirstAnswers /\ inbox \notin Segments /\ Posting \notin Segments
  BY <1>5, <1>7
<1>16. SdoReadBounds
  BY <1>3, <1>5, <1>10, <1>11, <1>14, <1>15 DEF SdoReadBounds
<1>17. ~IsOwn(inbox) /\ ~IsOwn(Posting)
  BY <1>15 DEF IsOwn
<1>18. ~Mistaken => OwnIsRight
  BY <1>8, <1>17 DEF OwnIsRight
<1>19. ~Ordered
  BY <1>10 DEF Ordered
<1>20. pc # "empty" /\ wkc = 0 /\ ~(0 > 0)
  BY <1>3, <1>5
<1> QED
  BY <1>5, <1>9, <1>10, <1>16, <1>18, <1>19, <1>20 DEF SdoReadInv

LEMMA SdoWriteInit ==
  ASSUME Init, job.op = "SDOwrite"
  PROVE  SdoWriteInv
<1>1. job \in Jobs /\ CallInit /\ Still
  BY InitIs DEF Collectors
<1>2. SDOwriteBegin
  BY <1>1, CoeInit
<1>3. pc = "purge" /\ req = Download(job.size) /\ loc = SDOwriteLoc(job.size, Download(job.size).piece[2])
  BY <1>2 DEF SDOwriteBegin, Begin
<1>4. job.op \notin Collectors
  BY DEF Collectors
<1>5. Base /\ inbox = Null /\ wkc = 0 /\ buf = <<>> /\ Posting = Null /\ dev.todo = <<>>
  BY <1>3, <1>4, QuietAtFirst
<1>6. dev.todo \in Seq(SdoWriteTell)
  BY <1>4, QuietAtFirst
<1>7. Download(job.size).piece[2] = Chunk /\ Download(job.size).kind = "download"
  BY <1>1, ChunkIs
<1>8. outbox \in Uploads \cup {Null} /\ (~Mistaken /\ outbox \in Uploads => outbox.index # "x")
  BY EarlyIs
<1>9. Talk(SdoWriteAsk, SdoWriteTell)
  BY <1>3, <1>5, <1>6, <1>8 DEF Talk, SdoWriteAsk
<1>10. loc = SDOwriteLoc(job.size, Chunk) /\ loc.segment = FALSE
  BY <1>3, <1>7 DEF SDOwriteLoc
<1>11. /\ Null \notin FirstAnswers \cup Downloadeds /\ Null \notin DownloadSegments
       /\ Download(job.size) # Null /\ Null \notin Uploads
       /\ \A m \in Uploads : m.kind = "upload"
       /\ \A m \in DownloadSegments : m.kind = "download segment"
  BY <1>1, SdoWriteSaid DEF SdoWriteTell
<1>12. outbox # Download(job.size) /\ outbox \notin DownloadSegments
  BY <1>7, <1>8, <1>11
<1>13. ~Answering(inbox) /\ ~Answering(Posting)
  BY <1>5, <1>11 DEF Answering
<1>14. ~Mistaken => FirstFrame
  BY <1>8, <1>12, <1>13 DEF FirstFrame
<1>15. pc # "empty" /\ wkc = 0 /\ ~(0 > 0)
  BY <1>3, <1>5
<1>16. Len(dev.todo) <= 1
  BY <1>5
<1> QED
  BY <1>3, <1>5, <1>9, <1>10, <1>14, <1>15, <1>16 DEF SdoWriteInv

-----------------------------------------------------------------------------
(* The frames that come unasked are made of fragments.                     *)
LEMMA FrameIs ==
  ASSUME job \in Jobs, job.op \in Collectors, NEW f \in {1, 2}
  PROVE  Frame(f) \in Seq(EoeFrames)
<1> DEFINE ps == Pieces(0, job.size, FrameCap)
<1>1. FrameCap \in Nat /\ FrameCap > 0 /\ job.size \in Nat
  BY FrameCapIs
<1>2. Len(ps) = Fragments /\ Fragments \in Nat \ {0}
  BY UpToIs DEF Fragments
<1>3. DOMAIN ps = 1 .. Fragments
  <2>1. 0 \in Nat /\ ps \in Seq(Int \X Int)
    BY <1>1, PiecesAre
  <2> HIDE DEF ps
  <2> QED
    BY <1>2, <2>1
<1>4. \A i \in 1 .. Fragments : ps[i] = <<UpTo(i - 1), UpTo(i)>>
  BY UpToIs
<1>5. Frame(f) =
        [i \in DOMAIN ps |->
           [kind |-> "eoe", frag |-> i - 1, frame |-> f, last |-> Len(ps) - i = 0,
            offset |-> IF i = 1 THEN ((job.size + 31) \div 32) * 32 ELSE ps[i][1],
            piece |-> <<1000 * f + ps[i][1], 1000 * f + ps[i][2]>>]]
  BY DEF Frame, Series, FrameCap
<1> HIDE DEF ps
<1>6. ASSUME NEW i \in 1 .. Fragments
      PROVE  [kind |-> "eoe", frag |-> i - 1, frame |-> f, last |-> Len(ps) - i = 0,
              offset |-> IF i = 1 THEN ((job.size + 31) \div 32) * 32 ELSE ps[i][1],
              piece |-> <<1000 * f + ps[i][1], 1000 * f + ps[i][2]>>] = FragmentOf(f, i)
  <2>1. ps[i][1] = UpTo(i - 1) /\ ps[i][2] = UpTo(i)
    BY <1>4
  <2> QED
    BY <1>2, <2>1 DEF FragmentOf, Rounded
<1>7. \A i \in 1 .. Fragments : FragmentOf(f, i) \in EoeFrames
  BY DEF EoeFrames
<1>8. DOMAIN Frame(f) = 1 .. Fragments /\ \A i \in 1 .. Fragments : Frame(f)[i] = FragmentOf(f, i)
  BY <1>3, <1>5, <1>6
<1>9. Frame(f) = [i \in 1 .. Fragments |-> Frame(f)[i]]
  BY <1>3, <1>5
<1>10. Frame(f) \in [1 .. Fragments -> EoeFrames]
  BY <1>7, <1>8, <1>9
<1>11. Fragments \in Nat
  BY <1>2
<1> QED
  BY <1>10, <1>11

LEMMA FramesAre ==
  ASSUME job \in Jobs, job.op \in Collectors
  PROVE  Frames \subseteq Seq(EoeFrames)
<1> SUFFICES ASSUME NEW t \in Frames PROVE t \in Seq(EoeFrames)
  OBVIOUS
<1> DEFINE all == Frame(1) \o Frame(2)
<1>1. all \in Seq(EoeFrames)
  BY FrameIs
<1> HIDE DEF all
<1>2. Len(all) \in Nat
  BY <1>1
<1>3. PICK q \in (0 .. Len(all)) \X (1 .. Len(all) + 1) : t = SubSeq(all, 1, q[1]) \o SubSeq(all, q[2], Len(all))
  BY DEF Frames, all
<1>4. q[1] \in 0 .. Len(all) /\ q[2] \in 1 .. Len(all) + 1
  BY <1>3
<1>5. SubSeq(all, 1, q[1]) \in Seq(EoeFrames) /\ SubSeq(all, q[2], Len(all)) \in Seq(EoeFrames)
  BY <1>1, <1>2, <1>4
<1> QED
  BY <1>3, <1>5

LEMMA FrameInit ==
  ASSUME Init, job.op \in Collectors
  PROVE  FrameInv
<1>1. job \in Jobs /\ CallInit /\ Rest
  BY InitIs
<1>2. Unasked
  BY <1>1, OthersInit
<1>3. pc = "receive" /\ req = Null /\ loc = EOEloc
  BY <1>2 DEF Unasked
<1>4. PICK t \in Frames : dev = Idle(t)
  BY InitIs
<1>5. t \in Seq(EoeFrames)
  BY <1>1, <1>4, FramesAre
<1>6. t \in Seq(Said)
  BY <1>1, <1>5, FrameSaid
<1>7. dev \in DevSet /\ dev.todo \in Seq(EoeFrames)
  BY <1>4, <1>5, <1>6, IdleIs
<1>8. inbox = Null /\ outbox = Null /\ wkc = 0 /\ buf = <<>> /\ ~(0 > 0)
  BY <1>1, JobHas DEF Rest, Collectors
<1>9. Talk({Null}, EoeFrames)
  BY <1>3, <1>7, <1>8 DEF Talk
<1>10. buf \in Bufs /\ wkc \in Int
  BY <1>8, EmptyBuf
<1>11. alive \in BOOLEAN /\ missed \in BOOLEAN /\ late \in BOOLEAN /\ unsent \in BOOLEAN
  BY <1>1 DEF Rest
<1>12. Base
  BY <1>1, <1>3, <1>7, <1>10, <1>11 DEF Base
<1>13. Length(buf) <= job.room
  BY <1>1, <1>8, LengthEmpty, JobIs
<1>14. loc \in [frag : Nat, frame : Nat, size : Nat, offset : Nat] /\ loc.frag = 0 /\ ~(loc.frag > 0)
  BY <1>3 DEF EOEloc
<1> QED
  BY <1>3, <1>8, <1>9, <1>12, <1>13, <1>14 DEF FrameInv, Assembled

LEMMA CallInitially ==
  ASSUME Init
  PROVE  CallInv
<1>1. job \in Jobs /\ Rest
  BY InitIs
<1>2. Unfinished /\ DryIsChecked
  <2>1. job.op \in Operations
    BY <1>1, JobIs
  <2>2. wkc = 0 /\ CallInit
    BY InitIs DEF Rest
  <2>3. pc \in {"purge", "send", "receive"}
    <3>1. CASE job.op \in {"SDOread", "SDOwrite", "RxPDO", "TxPDO", "readOD", "readOE", "readODlist"}
      BY <2>2, <3>1, CoeInit DEF SDOreadBegin, SDOwriteBegin, OEbegin, Begin
    <3>2. CASE job.op \notin {"SDOread", "SDOwrite", "RxPDO", "TxPDO", "readOD", "readOE", "readODlist"}
      BY <2>1, <2>2, <3>2, OthersInit
         DEF Operations, FOEreadBegin, FOEwriteBegin, SoEwriteBegin, Begin, Unasked, Collectors
    <3> QED
      BY <3>1, <3>2
  <2> QED
    BY <2>2, <2>3 DEF Unfinished, DryIsChecked
<1> QED
  BY <1>1, <1>2, ExchangeInit, RxInit, OEInit, StreamInit, FoeReadInit, FoeWriteInit, FrameInit,
     SdoReadInit, SdoWriteInit, EoeSendInit, SoeWriteInit DEF CallInv

-----------------------------------------------------------------------------
(* What the invariants say of the properties.                              *)
Speaks ==
  Length(buf) <= job.room /\ \E A, T : A \subseteq Said \cup {Null} /\ T \subseteq Said /\ Talk(A, T)

LEMMA Speaking ==
  ASSUME NEW A, NEW T, A \subseteq Said \cup {Null}, T \subseteq Said, Talk(A, T), Length(buf) <= job.room
  PROVE  Speaks
  BY DEF Speaks

LEMMA CallSpeaks ==
  ASSUME CallInv
  PROVE  Speaks
<1>1. job \in Jobs /\ job.op \in Operations /\ job.room \in Nat /\ Length(<<>>) = 0
  BY JobIs, LengthEmpty DEF CallInv
<1>2. buf = <<>> => Length(buf) <= job.room
  BY <1>1
<1>3. CASE job.op \in Exchanges
  BY <1>1, <1>3, ExchangeSaid, Speaking DEF CallInv, ExchangeInv
<1>4. CASE job.op = "RxPDO"
  <2>1. Talk({RxAsked}, {}) /\ buf = <<>>
    BY <1>4 DEF CallInv, RxInv
  <2>2. {RxAsked} \subseteq Said \cup {Null} /\ {} \subseteq Said
    BY <1>1, RxAskedIs
  <2> QED
    BY <1>2, <2>1, <2>2, Speaking
<1>5. CASE job.op = "readOE"
  BY <1>1, <1>5, OESaid, Speaking DEF CallInv, OEInv
<1>6. CASE job.op \in Streams
  BY <1>1, <1>6, StreamSaid, Speaking DEF CallInv, StreamInv
<1>7. CASE job.op = "FOEread"
  BY <1>1, <1>7, FoeReadSaid, Speaking DEF CallInv, FoeReadInv
<1>8. CASE job.op = "FOEwrite"
  BY <1>1, <1>2, <1>8, FoeWriteSaid, Speaking DEF CallInv, FoeWriteInv
<1>9. CASE job.op \in Collectors
  <2>1. Talk({Null}, EoeFrames) /\ Length(buf) <= job.room
    BY <1>9 DEF CallInv, FrameInv
  <2>2. {Null} \subseteq Said \cup {Null} /\ EoeFrames \subseteq Said
    BY <1>1, <1>9, FrameSaid
  <2> QED
    BY <2>1, <2>2, Speaking
<1>10. CASE job.op = "SDOread"
  BY <1>1, <1>10, SdoReadSaid, Speaking DEF CallInv, SdoReadInv, SdoReadBounds
<1>11. CASE job.op = "SDOwrite"
  BY <1>1, <1>2, <1>11, SdoWriteSaid, Speaking DEF CallInv, SdoWriteInv
<1>12. CASE job.op = "EOEsend"
  <2>1. Talk(EoeWrites, {}) /\ buf = <<>>
    BY <1>12 DEF CallInv, EoeSendInv
  <2>2. EoeWrites \subseteq Said \cup {Null} /\ {} \subseteq Said
    BY <1>1, OthersSaid
  <2> QED
    BY <1>2, <2>1, <2>2, Speaking
<1>13. CASE job.op = "SoEwrite"
  BY <1>1, <1>2, <1>13, SoeSaid, Speaking DEF CallInv, SoeWriteInv
<1> QED
  BY <1>1, <1>3, <1>4, <1>5, <1>6, <1>7, <1>8, <1>9, <1>10, <1>11, <1>12, <1>13
     DEF Operations, Exchanges, Streams, Collectors

LEMMA CallWithin ==
  ASSUME CallInv
  PROVE  WithinBuffer
<1>1. PICK A, T : A \subseteq Said \cup {Null} /\ T \subseteq Said /\ Talk(A, T)
  BY CallSpeaks DEF Speaks
<1>2. Length(buf) <= job.room
  BY CallSpeaks DEF Speaks
<1>3. /\ req \in Said \cup {Null} /\ outbox \in Said \cup {Null} /\ inbox \in Said \cup {Null}
      /\ dev.todo \in Seq(T)
  BY <1>1 DEF Talk
<1>4. \A m \in ToSet(dev.todo) : m \in T
  BY <1>3 DEF ToSet
<1>5. \A m \in ({req, outbox, inbox} \cup ToSet(dev.todo)) \ {Null} : m \in Said
  BY <1>1, <1>3, <1>4
<1> QED
  BY <1>2, <1>5 DEF WithinBuffer, Said

LEMMA CallReads ==
  ASSUME CallInv
  PROVE  ReadIsWhole
<1>1. job \in Jobs /\ job.size \in Nat /\ job.room \in Nat
  BY JobIs DEF CallInv
<1>9. ASSUME NEW ops, Succeeded(ops)
      PROVE  /\ job.op \in ops /\ (Dry \/ (pc = "done" /\ wkc > 0))
             /\ Dry => job.op \in Checked \cup {"readOE"}
  BY <1>9 DEF Succeeded, Dry, Result, CallInv, DryIsChecked
<1>2. EntriesInPlace
  <2>1. ASSUME job.op = "readOE", pc \in {"done", "dry"}, NEW k \in DOMAIN loc.entry
        PROVE  \/ loc.entry[k] = k \/ late
               \/ loc.entry[k] = None /\ (missed \/ unsent \/ job.moody \/ ~alive)
    <3>1. OEInv
      BY <2>1 DEF CallInv
    <3>2. k \in 0 .. MaxSub
      BY <2>1, <3>1 DEF OEInv
    <3>3. ~late => loc.entry[k] = k \/ (loc.entry[k] = None /\ Excused)
      BY <2>1, <3>1, <3>2 DEF OEInv
    <3> QED
      BY <3>3 DEF Excused
  <2> QED
    BY <2>1 DEF EntriesInPlace
<1>3. Succeeded({"SDOread"}) => buf = Entire(job.size) \/ (missed /\ loc.segment) \/ Mistaken \/ Dry
  BY <1>9 DEF CallInv, SdoReadInv
<1>4. Succeeded({"FOEread"}) => buf = Entire(job.size) \/ job.l # job.rl
  BY <1>9 DEF CallInv, FoeReadInv, Checked
<1>5. Succeeded({"TxPDO", "EOEgetIp"}) => buf = Entire(job.size) \/ Dry
  BY <1>9 DEF CallInv, ExchangeInv, Exchanges, Got
<1>6. Succeeded({"readOD", "readOE", "readODlist"}) => buf = Entire(Lower(job.size, job.room)) \/ Dry
  <2>1. Succeeded({"readOD"}) => buf = Entire(Lower(job.size, job.room)) \/ Dry
    BY <1>9 DEF CallInv, ExchangeInv, Exchanges, Got
  <2>2. Succeeded({"readOE"}) => buf = Entire(Lower(job.size, job.room)) \/ Dry
    BY <1>9 DEF CallInv, OEInv
  <2>3. Succeeded({"readODlist"}) => buf = Entire(Lower(job.size, job.room)) \/ Dry
    BY <1>9 DEF CallInv, StreamInv, Streams, Collected
  <2> QED
    BY <2>1, <2>2, <2>3 DEF Succeeded
<1>7. Succeeded({"SoEread"}) => Length(buf) = Lower(job.size, job.room)
  BY <1>9 DEF CallInv, StreamInv, Streams, Collected, Checked
<1>8. Succeeded({"EOErecv", "EOEreadfragment"}) =>
        \/ \E f \in {1, 2} : buf = <<<<1000 * f, 1000 * f + job.size>>>>
        \/ job.op = "EOEreadfragment" /\ job.size > job.room
  <2>1. Succeeded({"EOErecv", "EOEreadfragment"}) => FrameInv /\ wkc > 0
    BY <1>9 DEF CallInv, Collectors, Checked
  <2> QED
    BY <2>1 DEF FrameInv
<1> QED
  BY <1>2, <1>3, <1>4, <1>5, <1>6, <1>7, <1>8 DEF ReadIsWhole

LEMMA CallWrites ==
  ASSUME CallInv
  PROVE  WriteIsWhole
<1>1. job \in Jobs /\ job.size \in Nat /\ job.l \in Nat
  BY JobIs DEF CallInv
<1>9. ASSUME NEW ops, Succeeded(ops)
      PROVE  /\ job.op \in ops /\ (Dry \/ (pc = "done" /\ wkc > 0))
             /\ Dry => job.op \in Checked \cup {"readOE"}
  BY <1>9 DEF Succeeded, Dry, Result, CallInv, DryIsChecked
<1> DEFINE Ready(op) == Succeeded({op}) /\ alive /\ outbox = Null
<1>2. Ready("SDOwrite") => \/ dev.stored = Entire(job.size)
                           \/ loc.segment /\ late
                           \/ Mistaken \/ Dry
  BY <1>9 DEF CallInv, SdoWriteInv
<1>3. Ready("FOEwrite") => \/ dev.stored = Entire(job.size)
                           \/ dev.busy /\ (loc.sendpacket = 0 \/ loc.segmentdata = 0)
  BY <1>9 DEF CallInv, Checked, FoeWriteInv
<1>4. Ready("SoEwrite") => dev.stored = Entire(job.size) \/ unsent
  BY <1>9 DEF CallInv, Checked, SoeWriteInv
<1>5. Ready("EOEsend") => dev.stored = Entire(job.size)
  BY <1>9 DEF CallInv, Checked, EoeSendInv
<1>6. Ready("RxPDO") => dev.stored = Entire(job.size) \/ job.size > job.l - 8 \/ Dry
  <2>1. ASSUME Ready("RxPDO"), ~Dry PROVE dev.stored = Entire(Lower(job.size, job.l - 8))
    <3>1. RxInv /\ wkc > 0 /\ alive /\ outbox = Null
      BY <1>9, <2>1 DEF CallInv
    <3>2. RxAsked # Null
      BY <1>1, RxAskedIs
    <3> QED
      BY <3>1, <3>2 DEF RxInv
  <2>2. job.size <= job.l - 8 => Lower(job.size, job.l - 8) = job.size
    BY <1>1 DEF Lower
  <2>3. job.size <= job.l - 8 \/ job.size > job.l - 8
    BY <1>1
  <2> QED
    BY <2>1, <2>2, <2>3
<1>7. ASSUME Succeeded({"SDOwrite", "FOEwrite", "SoEwrite", "EOEsend", "RxPDO"}), alive, outbox = Null
      PROVE  \E op \in {"SDOwrite", "FOEwrite", "SoEwrite", "EOEsend", "RxPDO"} : op = job.op /\ Ready(op)
  BY <1>7 DEF Succeeded
<1> HIDE DEF Ready
<1> QED
  BY <1>2, <1>3, <1>4, <1>5, <1>6, <1>7 DEF WriteIsWhole

-----------------------------------------------------------------------------
(* Whatever is lost, late or refused, every call keeps its invariant: the  *)
(* state of its function and that of the slave fit together (ec_coe.c,     *)
(* ec_foe.c, ec_soe.c, ec_eoe.c).                                          *)
THEOREM CallHolds == Spec => []CallInv
<1>1. Init => CallInv
  BY CallInitially
<1>2. CallInv /\ [Next]_vars => CallInv'
  BY CallStepKeeps
<1> QED
  BY <1>1, <1>2, PTL DEF Spec

(* No function collects more than the caller's buffer holds, and no        *)
(* message carries bytes from beyond the end of what is transferred        *)
(* (psize, EC_MAXODLIST, EC_MAXNAME).                                      *)
THEOREM TransfersWithin == Spec => []WithinBuffer
<1>1. CallInv => WithinBuffer
  BY CallWithin
<1> QED
  BY <1>1, CallHolds, PTL

(* A read that reports success has the whole object, list, file or frame,  *)
(* but in the cases that ReadIsWhole names.                                *)
THEOREM ReadsWhole == Spec => []ReadIsWhole
<1>1. CallInv => ReadIsWhole
  BY CallReads
<1> QED
  BY <1>1, CallHolds, PTL

(* After a write that reports success the slave holds the whole object,    *)
(* file or frame, but in the cases that WriteIsWhole names.                *)
THEOREM WritesWhole == Spec => []WriteIsWhole
<1>1. CallInv => WriteIsWhole
  BY CallWrites
<1> QED
  BY <1>1, CallHolds, PTL
=============================================================================
