------------------------ MODULE ArchiveReaderProofs ------------------------
(***************************************************************************)
(* Proofs about the package reader, for any archive, any cut, any block    *)
(* length and any number of digits in a size field.                        *)
(*                                                                         *)
(* The positions of the entries and the sizes in their headers are values  *)
(* of a recursive function (Value).  What it computes is proved by an      *)
(* induction that is itself proved here, for sets of numbers in the place  *)
(* of predicates: the library's NatInduction takes an operator.            *)
(***************************************************************************)
EXTENDS ArchiveReader, FiniteSetTheorems, TLAPS

-----------------------------------------------------------------------------
(* A set of numbers has a least element: the intervals that end in it are  *)
(* finite, and proper inclusion among them is well founded.                *)
LEMMA LeastElement ==
  ASSUME NEW T \in SUBSET Nat, T # {}
  PROVE  \E x \in T : \A y \in T : x <= y
<1> DEFINE I == {0..n : n \in T}
<1>1. I \subseteq FiniteSubsetsOf(Nat)
  <2>1. ASSUME NEW n \in T PROVE IsFiniteSet(0..n) /\ 0..n \in SUBSET Nat
    <3>1. n \in Int /\ 0 \in Int
      OBVIOUS
    <3>2. IsFiniteSet(0..n)
      BY <3>1, FS_Interval
    <3> QED
      BY <3>2
  <2> QED
    BY <2>1 DEF FiniteSubsetsOf
<1>2. PICK i \in I : \A j \in I : ~ (<<j, i>> \in StrictSubsetOrdering(Nat))
  <2> HIDE DEF I
  <2>1. IsWellFoundedOn(StrictSubsetOrdering(Nat), FiniteSubsetsOf(Nat))
    BY FS_StrictSubsetOrderingWellFounded
  <2>2. I # {}
    BY DEF I
  <2> QED
    BY <1>1, <2>1, <2>2, WFMin
<1>3. PICK x \in T : i = 0..x
  OBVIOUS
<1>4. ASSUME NEW y \in T, y < x PROVE FALSE
  <2>1. 0..y \subseteq 0..x /\ 0..y # 0..x
    <3>1. x \in 0..x /\ x \notin 0..y
      BY <1>4
    <3> QED
      BY <1>4, <3>1
  <2>2. <<0..y, 0..x>> \in StrictSubsetOrdering(Nat)
    <3>1. 0..y \in SUBSET Nat /\ 0..x \in SUBSET Nat
      OBVIOUS
    <3> QED
      BY <2>1, <3>1 DEF StrictSubsetOrdering
  <2> QED
    BY <1>2, <1>3, <2>2
<1> QED
  BY <1>4

(* Induction: a set that holds 0 and every successor holds all numbers.    *)
LEMMA SetInduction ==
  ASSUME NEW S, 0 \in S, \A n \in Nat : n \in S => n + 1 \in S
  PROVE  Nat \subseteq S
<1> SUFFICES ASSUME Nat \ S # {} PROVE FALSE
  OBVIOUS
<1>1. PICK x \in Nat \ S : \A y \in Nat \ S : x <= y
  BY LeastElement
<1>2. x - 1 \in Nat
  BY <1>1
<1>3. (x - 1) + 1 \in S
  BY <1>1, <1>2
<1> QED
  BY <1>1, <1>3

-----------------------------------------------------------------------------
(* The recursion of Value defines a function.  There is a function that    *)
(* follows it up to each number, any two agree as far as both go, and      *)
(* their ends together follow it for ever.                                 *)
LEMMA ValueDefined ==
  ASSUME NEW b, NEW d
  PROVE  Value(b, d) =
           [n \in Nat |-> IF n = 0 THEN 0 ELSE b * Value(b, d)[n - 1] + d[n]]
<1> DEFINE Go(x, n) == b * x + d[n]
           Upto(g, n) == g[0] = 0 /\ \A i \in 1..n : g[i] = Go(g[i - 1], i)
<1> HIDE DEF Go
<1>1. \A n \in Nat : \E g : Upto(g, n)
  <2> DEFINE S == {n \in Nat : \E g : Upto(g, n)}
  <2>1. 0 \in S
    <3>1. Upto([i \in {0} |-> 0], 0)
      OBVIOUS
    <3> QED
      BY <3>1
  <2>2. ASSUME NEW n \in Nat, n \in S PROVE n + 1 \in S
    <3>1. PICK g : Upto(g, n)
      BY <2>2
    <3> DEFINE h == [i \in 0..(n + 1) |-> IF i = n + 1 THEN Go(g[n], i) ELSE g[i]]
    <3>2. h[0] = 0
      BY <3>1
    <3>3. ASSUME NEW i \in 1..(n + 1) PROVE h[i] = Go(h[i - 1], i)
      <4>1. CASE i = n + 1
        BY <4>1
      <4>2. CASE i # n + 1
        BY <3>1, <4>2
      <4> QED
        BY <4>1, <4>2
    <3>4. Upto(h, n + 1)
      BY <3>2, <3>3
    <3> QED
      BY <3>4
  <2> HIDE DEF S
  <2>3. Nat \subseteq S
    BY <2>1, <2>2, SetInduction
  <2> QED
    BY <2>3 DEF S
<1>2. ASSUME NEW g, NEW h, NEW m \in Nat, Upto(g, m), Upto(h, m)
      PROVE  g[m] = h[m]
  <2> DEFINE S == {n \in Nat : n <= m => g[n] = h[n]}
  <2>1. 0 \in S
    BY <1>2
  <2>2. ASSUME NEW n \in Nat, n \in S PROVE n + 1 \in S
    <3> SUFFICES ASSUME n + 1 <= m PROVE g[n + 1] = h[n + 1]
      OBVIOUS
    <3>1. n + 1 \in 1..m /\ (n + 1) - 1 = n /\ g[n] = h[n]
      BY <2>2
    <3>2. g[n + 1] = Go(g[(n + 1) - 1], n + 1)
      BY <1>2, <3>1
    <3>3. h[n + 1] = Go(h[(n + 1) - 1], n + 1)
      BY <1>2, <3>1
    <3> QED
      BY <3>1, <3>2, <3>3
  <2> HIDE DEF S
  <2>3. Nat \subseteq S
    BY <2>1, <2>2, SetInduction
  <2> QED
    BY <2>3 DEF S
<1> DEFINE f == [n \in Nat |-> (CHOOSE g : Upto(g, n))[n]]
<1>3. ASSUME NEW n \in Nat PROVE f[n] = IF n = 0 THEN 0 ELSE Go(f[n - 1], n)
  <2> DEFINE g == CHOOSE g : Upto(g, n)
  <2>1. Upto(g, n)
    BY <1>1
  <2>2. CASE n = 0
    BY <2>1, <2>2
  <2>3. CASE n # 0
    <3> DEFINE h == CHOOSE h : Upto(h, n - 1)
    <3>1. n - 1 \in Nat
      BY <2>3
    <3>2. Upto(h, n - 1)
      BY <1>1, <3>1
    <3>3. Upto(g, n - 1)
      BY <2>1, <2>3
    <3> HIDE DEF g, h
    <3>4. g[n - 1] = h[n - 1]
      <4> HIDE DEF Upto
      <4> QED
        BY <1>2, <3>1, <3>2, <3>3
    <3>5. f[n - 1] = h[n - 1] /\ f[n] = g[n]
      BY <3>1 DEF g, h
    <3>6. g[n] = Go(g[n - 1], n)
      BY <2>1, <2>3
    <3> QED
      BY <2>3, <3>4, <3>5, <3>6
  <2> QED
    BY <2>2, <2>3
<1>4. f = [n \in Nat |-> IF n = 0 THEN 0 ELSE Go(f[n - 1], n)]
  <2> HIDE DEF f
  <2>1. f = [n \in Nat |-> f[n]]
    BY DEF f
  <2> QED
    BY <1>3, <2>1
<1> HIDE DEF f
<1>5. \E v : v = [n \in Nat |-> IF n = 0 THEN 0 ELSE b * v[n - 1] + d[n]]
  BY <1>4 DEF Go
<1> QED
  BY <1>5 DEF Value

LEMMA ValueStep ==
  ASSUME NEW b, NEW d
  PROVE  /\ Value(b, d)[0] = 0
         /\ \A n \in Nat : Value(b, d)[n + 1] = b * Value(b, d)[n] + d[n + 1]
<1> DEFINE v == Value(b, d)
<1>1. v = [n \in Nat |-> IF n = 0 THEN 0 ELSE b * v[n - 1] + d[n]]
  BY ValueDefined
<1> HIDE DEF v
<1>2. ASSUME NEW n \in Nat PROVE v[n + 1] = b * v[n] + d[n + 1]
  <2>1. n + 1 \in Nat /\ n + 1 # 0 /\ (n + 1) - 1 = n
    OBVIOUS
  <2> QED
    BY <1>1, <2>1
<1>3. v[0] = 0
  BY <1>1
<1> QED
  BY <1>2, <1>3 DEF v

(* Digits that are numbers amount to a number.                             *)
LEMMA ValueType ==
  ASSUME NEW b \in Nat, NEW d, NEW m \in Nat, \A i \in 1..m : d[i] \in Nat
  PROVE  \A n \in 0..m : Value(b, d)[n] \in Nat
<1> DEFINE S == {n \in Nat : n <= m => Value(b, d)[n] \in Nat}
<1>1. 0 \in S
  BY ValueStep
<1>2. ASSUME NEW n \in Nat, n \in S PROVE n + 1 \in S
  <2> SUFFICES ASSUME n + 1 <= m PROVE Value(b, d)[n + 1] \in Nat
    OBVIOUS
  <2>1. Value(b, d)[n] \in Nat /\ d[n + 1] \in Nat
    BY <1>2
  <2> QED
    BY <2>1, ValueStep
<1> HIDE DEF S
<1>3. Nat \subseteq S
  BY <1>1, <1>2, SetInduction
<1> QED
  BY <1>3 DEF S

(* Larger digits amount to more.                                           *)
LEMMA ValueMonotonic ==
  ASSUME NEW b \in Nat, NEW d, NEW e, NEW m \in Nat,
         \A i \in 1..m : d[i] \in Nat /\ e[i] \in Nat /\ d[i] <= e[i]
  PROVE  \A n \in 0..m : Value(b, d)[n] <= Value(b, e)[n]
<1> DEFINE S == {n \in Nat : n <= m => Value(b, d)[n] <= Value(b, e)[n]}
<1>1. 0 \in S
  BY ValueStep
<1>2. ASSUME NEW n \in Nat, n \in S PROVE n + 1 \in S
  <2> SUFFICES ASSUME n + 1 <= m PROVE Value(b, d)[n + 1] <= Value(b, e)[n + 1]
    OBVIOUS
  <2>1. n \in 0..m /\ n + 1 \in 1..m
    OBVIOUS
  <2>2. Value(b, d)[n] \in Nat /\ Value(b, e)[n] \in Nat
    BY <2>1, ValueType
  <2>3. Value(b, d)[n] <= Value(b, e)[n]
    BY <1>2
  <2>4. b * Value(b, d)[n] <= b * Value(b, e)[n]
    BY <2>2, <2>3
  <2>5. b * Value(b, d)[n] \in Nat /\ b * Value(b, e)[n] \in Nat
    BY <2>2
  <2> QED
    BY <2>1, <2>4, <2>5, ValueStep
<1> HIDE DEF S
<1>3. Nat \subseteq S
  BY <1>1, <1>2, SetInduction
<1> QED
  BY <1>3 DEF S

(* A first digit that is larger makes the whole larger.                    *)
LEMMA ValueFirst ==
  ASSUME NEW b \in Nat \ {0}, NEW d, NEW e, NEW m \in Nat,
         \A i \in 1..m : d[i] \in Nat /\ e[i] \in Nat /\ d[i] <= e[i],
         d[1] < e[1]
  PROVE  \A n \in 1..m : Value(b, d)[n] < Value(b, e)[n]
<1> DEFINE S == {n \in Nat : n + 1 <= m => Value(b, d)[n + 1] < Value(b, e)[n + 1]}
<1> SUFFICES ASSUME 1 <= m
             PROVE  \A n \in 1..m : Value(b, d)[n] < Value(b, e)[n]
  OBVIOUS
<1>1. 0 \in S
  <2>1. /\ Value(b, d)[0] = 0 /\ Value(b, e)[0] = 0
        /\ Value(b, d)[0 + 1] = b * Value(b, d)[0] + d[0 + 1]
        /\ Value(b, e)[0 + 1] = b * Value(b, e)[0] + e[0 + 1]
    BY ValueStep
  <2>2. b * 0 = 0 /\ 0 + 1 = 1 /\ d[1] \in Nat /\ e[1] \in Nat
    OBVIOUS
  <2> QED
    BY <2>1, <2>2
<1>2. ASSUME NEW n \in Nat, n \in S PROVE n + 1 \in S
  <2> SUFFICES ASSUME (n + 1) + 1 <= m
               PROVE  Value(b, d)[(n + 1) + 1] < Value(b, e)[(n + 1) + 1]
    OBVIOUS
  <2> DEFINE x == Value(b, d)[n + 1]
             y == Value(b, e)[n + 1]
  <2>1. n + 1 \in 0..m /\ (n + 1) + 1 \in 1..m
    OBVIOUS
  <2>2. x \in Nat /\ y \in Nat
    BY <2>1, ValueType
  <2>3. x < y
    BY <1>2
  <2>4. /\ Value(b, d)[(n + 1) + 1] = b * x + d[(n + 1) + 1]
        /\ Value(b, e)[(n + 1) + 1] = b * y + e[(n + 1) + 1]
    BY <2>1, ValueStep
  <2>5. d[(n + 1) + 1] \in Nat /\ e[(n + 1) + 1] \in Nat
        /\ d[(n + 1) + 1] <= e[(n + 1) + 1]
    BY <2>1
  <2> HIDE DEF x, y
  <2>6. b * x < b * y /\ b * x \in Nat /\ b * y \in Nat
    BY <2>2, <2>3
  <2> QED
    BY <2>4, <2>5, <2>6
<1> HIDE DEF S
<1>3. Nat \subseteq S
  BY <1>1, <1>2, SetInduction
<1>4. ASSUME NEW n \in 1..m PROVE Value(b, d)[n] < Value(b, e)[n]
  <2>1. n - 1 \in S /\ (n - 1) + 1 = n
    BY <1>3
  <2> QED
    BY <2>1 DEF S
<1> QED
  BY <1>4

-----------------------------------------------------------------------------
(* A size field is read as a number or refused, never as more than it says. *)
LEMMA SizeType ==
  ASSUME NEW e, e.size \in SizeField
  PROVE  /\ SizeOf(e) \in Nat
         /\ oct2dec(e.size) \in Nat \cup {-1}
         /\ oct2dec(e.size) <= SizeOf(e)
<1> DEFINE d == [e.size EXCEPT ![1] = 0]
           w == [i \in 1..COUNT |-> IF e.size[i] < 0 THEN 0 ELSE e.size[i]]
<1>1. COUNT \in Nat /\ COUNT \in 0..COUNT
  BY ArchiveAssumption
<1>2. \A i \in 1..COUNT : w[i] \in Nat
  BY <1>1 DEF SizeField
<1>3. SizeOf(e) = Value(8, w)[COUNT]
  BY DEF SizeOf
<1>4. SizeOf(e) \in Nat
  <2> HIDE DEF w
  <2> QED
    BY <1>1, <1>2, <1>3, ValueType
<1>5. CASE \E i \in 2..COUNT : e.size[i] < 0
  <2>1. oct2dec(e.size) = -1
    BY <1>5 DEF oct2dec
  <2> QED
    BY <1>4, <2>1
<1>6. CASE ~ \E i \in 2..COUNT : e.size[i] < 0
  <2>1. oct2dec(e.size) = Value(8, d)[COUNT]
    BY <1>6 DEF oct2dec
  <2>2. \A i \in 1..COUNT : d[i] \in Nat /\ w[i] \in Nat /\ d[i] <= w[i]
    BY <1>1, <1>6 DEF SizeField
  <2> HIDE DEF d, w
  <2> QED
    BY <1>1, <1>3, <1>4, <2>1, <2>2, ValueType, ValueMonotonic
<1> QED
  BY <1>5, <1>6

(* A size field is read as what it says exactly when the skipped digit is  *)
(* 0 or blank and no other digit is blank: oct2dec starts at count - 1 and *)
(* stops before 0.                                                         *)
THEOREM FirstDigitIsSkipped ==
  ASSUME NEW e, e.size \in SizeField
  PROVE  oct2dec(e.size) = SizeOf(e)
           <=> e.size[1] <= 0 /\ \A i \in 2..COUNT : e.size[i] >= 0
<1> DEFINE d == [e.size EXCEPT ![1] = 0]
           w == [i \in 1..COUNT |-> IF e.size[i] < 0 THEN 0 ELSE e.size[i]]
<1>1. /\ COUNT \in Nat /\ COUNT \in 1..COUNT /\ COUNT \in 0..COUNT
      /\ 1 \in 1..COUNT
  BY ArchiveAssumption
<1>2. SizeOf(e) = Value(8, w)[COUNT] /\ SizeOf(e) \in Nat
  BY SizeType DEF SizeOf
<1>3. \A i \in 1..COUNT : e.size[i] \in Int
  BY <1>1 DEF SizeField
<1>4. CASE \E i \in 2..COUNT : e.size[i] < 0
  <2>1. oct2dec(e.size) = -1
    BY <1>4 DEF oct2dec
  <2> QED
    BY <1>1, <1>2, <1>3, <1>4, <2>1
<1>5. CASE ~ \E i \in 2..COUNT : e.size[i] < 0
  <2>1. oct2dec(e.size) = Value(8, d)[COUNT]
    BY <1>5 DEF oct2dec
  <2>2. CASE e.size[1] <= 0
    <3>1. d = w
      BY <1>1, <1>5, <2>2 DEF SizeField
    <3> QED
      BY <1>1, <1>2, <1>3, <1>5, <2>1, <2>2, <3>1
  <2>3. CASE ~ (e.size[1] <= 0)
    <3>1. /\ \A i \in 1..COUNT : d[i] \in Nat /\ w[i] \in Nat /\ d[i] <= w[i]
          /\ d[1] < w[1]
      BY <1>1, <1>5, <2>3 DEF SizeField
    <3> HIDE DEF d, w
    <3>2. Value(8, d)[COUNT] < Value(8, w)[COUNT]
      <4>1. 8 \in Nat \ {0}
        OBVIOUS
      <4> QED
        BY <1>1, <3>1, <4>1, ValueFirst
    <3>3. Value(8, d)[COUNT] \in Nat
      BY <1>1, <3>1, ValueType
    <3> QED
      BY <1>2, <2>1, <2>3, <3>2, <3>3
  <2> QED
    BY <2>2, <2>3
<1> QED
  BY <1>4, <1>5

-----------------------------------------------------------------------------
(* The blocks of an entry are its header, its body and its padding.        *)
LEMMA SpanIs ==
  ASSUME NEW n \in Nat
  PROVE  /\ Padding(n) \in Nat /\ Span(n) \in Nat
         /\ Span(n) = BLOCK + n + Padding(n)
<1> DEFINE q == n \div BLOCK
           r == n % BLOCK
<1>1. BLOCK \in Nat \ {0}
  BY ArchiveAssumption
<1>2. q \in Nat /\ r \in 0..(BLOCK - 1) /\ n = BLOCK * q + r
  BY <1>1
<1> HIDE DEF q, r
<1>3. CASE r = 0
  <2>1. n + BLOCK - 1 = BLOCK * q + (BLOCK - 1) /\ BLOCK - 1 \in 0..(BLOCK - 1)
    BY <1>1, <1>2, <1>3
  <2>2. (BLOCK * q + (BLOCK - 1)) \div BLOCK = q
    BY <1>1, <1>2, <2>1
  <2>3. Blocks(n) = q
    BY <2>1, <2>2 DEF Blocks
  <2>4. BLOCK * (1 + q) = BLOCK + BLOCK * q
    BY <1>1, <1>2
  <2>5. Span(n) = BLOCK + n /\ Padding(n) = 0
    BY <1>1, <1>2, <1>3, <2>3, <2>4 DEF Span, Padding, r
  <2> QED
    BY <1>1, <2>5
<1>4. CASE r # 0
  <2>1. r - 1 \in 0..(BLOCK - 1) /\ q + 1 \in Nat
    BY <1>1, <1>2, <1>4
  <2>2. BLOCK * (q + 1) = BLOCK * q + BLOCK
    BY <1>1, <1>2
  <2>3. n + BLOCK - 1 = BLOCK * (q + 1) + (r - 1)
    BY <1>1, <1>2, <2>2
  <2>4. (BLOCK * (q + 1) + (r - 1)) \div BLOCK = q + 1
    BY <1>1, <2>1
  <2>5. Blocks(n) = q + 1
    BY <2>3, <2>4 DEF Blocks
  <2>6. BLOCK * (1 + (q + 1)) = BLOCK + (BLOCK * q + BLOCK)
    BY <1>1, <1>2
  <2>7. Padding(n) = BLOCK - r
    BY <1>4 DEF Padding, r
  <2>8. Span(n) = BLOCK + (BLOCK * q + BLOCK)
    BY <2>5, <2>6 DEF Span
  <2>9. BLOCK * q \in Nat
    BY <1>1, <1>2
  <2> QED
    BY <1>1, <1>2, <2>7, <2>8, <2>9
<1> QED
  BY <1>3, <1>4

(* The entries of an archive, one after the other.                         *)
LEMMA StartIs ==
  ASSUME archive \in Archives
  PROVE  /\ Len(archive) \in Nat
         /\ Start(1) = 0
         /\ \A k \in 1..(Len(archive) + 1) : Start(k) \in Nat
         /\ \A k \in 1..Len(archive) :
              /\ archive[k] \in Header /\ archive[k].size \in SizeField
              /\ SizeOf(archive[k]) \in Nat
              /\ Start(k + 1) = Start(k) + Span(SizeOf(archive[k]))
<1> DEFINE d == [i \in 1..Len(archive) |-> Span(SizeOf(archive[i]))]
<1>1. archive \in Seq(Header) /\ Len(archive) \in Nat
  BY ArchiveAssumption
<1>2. ASSUME NEW k \in 1..Len(archive)
      PROVE  /\ archive[k] \in Header /\ archive[k].size \in SizeField
             /\ SizeOf(archive[k]) \in Nat /\ d[k] \in Nat
  <2>1. archive[k] \in Header
    BY <1>1
  <2>2. archive[k].size \in SizeField
    BY <2>1, ArchiveAssumption
  <2>3. SizeOf(archive[k]) \in Nat
    BY <2>2, SizeType
  <2> QED
    BY <2>1, <2>2, <2>3, SpanIs
<1>3. \A k : Start(k) = Value(1, d)[k - 1]
  BY DEF Start
<1>4. \A k \in 1..Len(archive) : d[k] = Span(SizeOf(archive[k]))
  OBVIOUS
<1> HIDE DEF d
<1>5. \A n \in 0..Len(archive) : Value(1, d)[n] \in Nat
  BY <1>1, <1>2, ValueType
<1>6. ASSUME NEW k \in 1..Len(archive)
      PROVE  Start(k + 1) = Start(k) + Span(SizeOf(archive[k]))
  <2>1. /\ k - 1 \in Nat /\ (k - 1) + 1 = k /\ (k + 1) - 1 = k
        /\ k - 1 \in 0..Len(archive)
    BY <1>1
  <2>2. Value(1, d)[(k - 1) + 1] = 1 * Value(1, d)[k - 1] + d[(k - 1) + 1]
    BY <2>1, ValueStep
  <2>3. Value(1, d)[k - 1] \in Nat
    BY <1>5, <2>1
  <2> QED
    BY <1>2, <1>3, <1>4, <2>1, <2>2, <2>3
<1>7. Start(1) = 0
  BY <1>3, ValueStep
<1>8. \A k \in 1..(Len(archive) + 1) : Start(k) \in Nat
  BY <1>1, <1>3, <1>5
<1> QED
  BY <1>1, <1>2, <1>6, <1>7, <1>8

(* An entry ends before the next one starts.                               *)
LEMMA StartOrder ==
  ASSUME archive \in Archives,
         NEW j \in 1..Len(archive), NEW k \in 1..(Len(archive) + 1), j < k
  PROVE  /\ Start(j + 1) <= Start(k)
         /\ Start(j) + BLOCK + SizeOf(archive[j]) <= Start(k)
         /\ Start(j) < Start(k)
<1> DEFINE S == {n \in Nat : j + 1 + n <= Len(archive) + 1 =>
                               Start(j + 1) <= Start(j + 1 + n)}
<1>1. Len(archive) \in Nat /\ BLOCK \in Nat \ {0}
  BY StartIs, ArchiveAssumption
<1>2. 0 \in S
  <2>1. j + 1 + 0 = j + 1 /\ j + 1 \in 1..(Len(archive) + 1)
    BY <1>1
  <2>2. Start(j + 1) \in Nat
    BY <2>1, StartIs
  <2> QED
    BY <2>1, <2>2
<1>3. ASSUME NEW n \in Nat, n \in S PROVE n + 1 \in S
  <2> SUFFICES ASSUME j + 1 + (n + 1) <= Len(archive) + 1
               PROVE  Start(j + 1) <= Start(j + 1 + (n + 1))
    OBVIOUS
  <2>1. /\ j + 1 + n \in 1..Len(archive) /\ j + 1 \in 1..Len(archive)
        /\ j + 1 + (n + 1) = (j + 1 + n) + 1
    BY <1>1
  <2> DEFINE i == j + 1 + n
  <2>2. /\ Start(i) \in Nat /\ Start(j + 1) \in Nat
        /\ Span(SizeOf(archive[i])) \in Nat
        /\ Start(i + 1) = Start(i) + Span(SizeOf(archive[i]))
    <3>1. /\ i \in 1..Len(archive) /\ i \in 1..(Len(archive) + 1)
          /\ j + 1 \in 1..(Len(archive) + 1)
      BY <1>1, <2>1
    <3> HIDE DEF i
    <3>2. /\ Start(i) \in Nat /\ Start(j + 1) \in Nat /\ SizeOf(archive[i]) \in Nat
          /\ Start(i + 1) = Start(i) + Span(SizeOf(archive[i]))
      BY <3>1, StartIs
    <3> QED
      BY <3>2, SpanIs
  <2>3. Start(j + 1) <= Start(j + 1 + n)
    BY <1>1, <1>3
  <2> QED
    BY <2>1, <2>2, <2>3
<1> HIDE DEF S
<1>4. Nat \subseteq S
  BY <1>2, <1>3, SetInduction
<1>5. Start(j + 1) <= Start(k)
  <2>1. k - (j + 1) \in Nat /\ j + 1 + (k - (j + 1)) = k
    BY <1>1
  <2>2. k - (j + 1) \in S
    BY <1>4, <2>1
  <2> QED
    BY <1>1, <2>1, <2>2 DEF S
<1>6. /\ Start(j + 1) = Start(j) + (BLOCK + SizeOf(archive[j]) + Padding(SizeOf(archive[j])))
      /\ Padding(SizeOf(archive[j])) \in Nat /\ SizeOf(archive[j]) \in Nat
      /\ Start(j) \in Nat /\ Start(k) \in Nat
  <2>1. j \in 1..(Len(archive) + 1)
    BY <1>1
  <2>2. /\ Start(j) \in Nat /\ Start(k) \in Nat /\ SizeOf(archive[j]) \in Nat
        /\ Start(j + 1) = Start(j) + Span(SizeOf(archive[j]))
    BY <2>1, StartIs
  <2> QED
    BY <2>2, SpanIs
<1> QED
  BY <1>1, <1>5, <1>6

(* No two entries start at the same place.                                 *)
LEMMA StartOnce ==
  ASSUME archive \in Archives,
         NEW j \in 1..Len(archive), NEW k \in 1..Len(archive),
         Start(j) = Start(k)
  PROVE  j = k
<1>1. Start(j) \in Nat /\ Start(k) \in Nat
  BY StartIs
<1>2. j < k => Start(j) < Start(k)
  BY StartOrder, StartIs
<1>3. k < j => Start(k) < Start(j)
  BY StartOrder, StartIs
<1> QED
  BY <1>1, <1>2, <1>3, StartIs

(* No step touches what arrived, nor what is to be delivered.              *)
LEMMA Frozen ==
  ASSUME UNCHANGED <<archive, cut>>
  PROVE  /\ Length' = Length
         /\ \A k : Start(k)' = Start(k)
         /\ SizesRead' = SizesRead /\ Torn' = Torn
         /\ \A k : Delivered(k)' = Delivered(k)
<1>1. \A k : Start(k)' = Start(k)
  BY DEF Start
<1>2. Length' = Length
  BY <1>1 DEF Length
<1>3. SizesRead' = SizesRead
  BY DEF SizesRead
<1>4. Torn' = Torn
  BY <1>1, <1>3 DEF Torn
<1>5. \A k : Delivered(k)' = Delivered(k)
  BY <1>1, <1>3 DEF Delivered, Legible
<1> QED
  BY <1>1, <1>2, <1>3, <1>4, <1>5

-----------------------------------------------------------------------------
(* The units of a body are its entry's, and no unit is of two entries.     *)
LEMMA UnitIs ==
  ASSUME archive \in Archives
  PROVE  /\ \A u : Unit(u) \in 0..Len(archive)
         /\ \A k \in 1..Len(archive), u \in Int : InBody(k, u) => Unit(u) = k
<1>1. Len(archive) \in Nat /\ BLOCK \in Nat \ {0}
  BY StartIs, ArchiveAssumption
<1>2. ASSUME NEW u PROVE Unit(u) \in 0..Len(archive)
  <2>1. CASE \E k \in 1..Len(archive) : InBody(k, u)
    <3>1. Unit(u) \in 1..Len(archive)
      BY <2>1 DEF Unit
    <3> QED
      BY <1>1, <3>1
  <2>2. CASE ~ \E k \in 1..Len(archive) : InBody(k, u)
    BY <1>1, <2>2 DEF Unit
  <2> QED
    BY <2>1, <2>2
<1>3. ASSUME NEW k \in 1..Len(archive), NEW u \in Int, InBody(k, u)
      PROVE  Unit(u) = k
  <2>1. PICK i \in 1..Len(archive) : i = Unit(u) /\ InBody(i, u)
    BY <1>3 DEF Unit
  <2>2. ASSUME NEW x \in 1..Len(archive), NEW y \in 1..Len(archive), x < y,
               InBody(x, u), InBody(y, u)
        PROVE  FALSE
    <3>1. y \in 1..(Len(archive) + 1)
      BY <1>1
    <3>2. Start(x) + BLOCK + SizeOf(archive[x]) <= Start(y)
      BY <2>2, <3>1, StartOrder
    <3>3. /\ Start(x) \in Nat /\ Start(y) \in Nat /\ SizeOf(archive[x]) \in Nat
          /\ SizeOf(archive[y]) \in Nat
      BY <1>1, StartIs
    <3> QED
      BY <1>1, <2>2, <3>2, <3>3 DEF InBody
  <2>3. ~(i < k) /\ ~(k < i)
    BY <1>3, <2>1, <2>2
  <2> QED
    BY <1>1, <2>1, <2>3
<1> QED
  BY <1>2, <1>3

-----------------------------------------------------------------------------
(* A turn of the loop, under the header h.                                 *)
Turn(h) ==
  /\ pc = "reading" /\ More /\ h \in ReadHeader
  /\ ReadEntry(h) \/ ReadEmptyEntry(h)

LEMMA Turns ==
  ASSUME Next
  PROVE  /\ pc = "reading"
         /\ (\E h : Turn(h)) \/ ReadEnd
  BY DEF Next, Turn

LEMMA HeaderIs ==
  ASSUME TypeOK, NEW h \in ReadHeader
  PROVE  /\ h \in Header /\ h.path \in Name
         /\ h.kind \in {"file", "dir", "other"}
         /\ h.size \in SizeField /\ oct2dec(h.size) \in Nat \cup {-1}
<1>1. \A k \in 1..Len(archive) : archive[k] \in Header
  BY StartIs DEF TypeOK
<1>2. h \in Header
  BY <1>1 DEF ReadHeader, AtHeader
<1>3. \A e \in Header : /\ e.path \in Name /\ e.kind \in {"file", "dir", "other"}
                        /\ e.size \in SizeField
  BY ArchiveAssumption
<1> QED
  BY <1>2, <1>3, SizeType

(* The buffer after a body, whatever it was taken from.                    *)
LEMMA BodyType ==
  ASSUME TypeOK, NEW n \in Nat, ReadBody(n)
  PROVE  data' \in Seq(0..Len(archive)) /\ Len(data') = n
<1> DEFINE b == [j \in 1..n |-> IF pos + BLOCK + j <= cut
                                THEN Unit(pos + BLOCK + j - 1)
                                ELSE IF j <= Len(data) THEN data[j] ELSE 0]
<1>1. Len(archive) \in Nat /\ Len(data) \in Nat
  BY StartIs DEF TypeOK
<1>2. data' = b
  BY DEF ReadBody, resize
<1>3. \A u : Unit(u) \in 0..Len(archive)
  BY UnitIs DEF TypeOK
<1>4. \A i \in 1..Len(data) : data[i] \in 0..Len(archive)
  BY DEF TypeOK
<1>5. \A j \in 1..n : b[j] \in 0..Len(archive)
  BY <1>1, <1>3, <1>4
<1> HIDE DEF b
<1>6. b \in [1..n -> 0..Len(archive)]
  <2>1. b = [j \in 1..n |-> b[j]]
    BY DEF b
  <2> QED
    BY <1>5, <2>1
<1> QED
  BY <1>2, <1>6

(* Where a turn leaves the stream: further on, or at its end.              *)
LEMMA TurnMoves ==
  ASSUME TypeOK, NEW h, Turn(h)
  PROVE  /\ UNCHANGED <<archive, cut>>
         /\ pos \in Nat /\ cut \in Nat /\ pos < cut
         /\ oct2dec(h.size) \in Nat
         /\ pos' \in 0..cut \cup {Eof}
         /\ pos' > pos \/ pos' = Eof
         /\ pos + BLOCK > cut => pos' = Eof
         /\ data' \in Seq(0..Len(archive))
<1>1. h \in ReadHeader /\ BLOCK \in Nat \ {0}
  BY ArchiveAssumption DEF Turn
<1>2. pos \in Nat /\ cut \in Nat /\ pos < cut
  BY StartIs DEF Turn, More, TypeOK, Length, Eof
<1>3. CASE ReadEntry(h)
  <2>1. oct2dec(h.size) \in Nat
    BY <1>1, <1>3, HeaderIs DEF ReadEntry
  <2>2. ReadBody(oct2dec(h.size)) /\ UNCHANGED <<archive, cut>>
    BY <1>3 DEF ReadEntry
  <2>3. Padding(oct2dec(h.size)) \in Nat
    BY <2>1, SpanIs
  <2>4. pos' = IF pos + BLOCK + oct2dec(h.size) + Padding(oct2dec(h.size)) <= cut
               THEN pos + BLOCK + oct2dec(h.size) + Padding(oct2dec(h.size))
               ELSE Eof
    BY <2>2 DEF ReadBody
  <2>5. data' \in Seq(0..Len(archive))
    BY <2>1, <2>2, BodyType
  <2> QED
    BY <1>1, <1>2, <2>1, <2>2, <2>3, <2>4, <2>5
<1>4. CASE ReadEmptyEntry(h)
  <2>1. /\ oct2dec(h.size) = 0 /\ UNCHANGED <<archive, cut, data>>
        /\ pos' = IF pos + BLOCK <= cut THEN pos + BLOCK ELSE Eof
    BY <1>4 DEF ReadEmptyEntry
  <2> QED
    BY <1>1, <1>2, <2>1 DEF TypeOK
<1> QED
  BY <1>3, <1>4 DEF Turn

(* What a turn does to the disk.                                           *)
LEMMA TurnWrites ==
  ASSUME TypeOK, NEW h, Turn(h)
  PROVE  /\ Extract(h) /\ h.path \in Name
         /\ dirs \subseteq dirs'
         /\ pc' \in {"reading", "thrown"}
         /\ \/ file' = file
            \/ /\ h.kind = "file" /\ CanOpen(h.path) /\ pc' = pc /\ dirs' = dirs
               /\ file' = [file EXCEPT ![h.path] = data']
<1>1. h \in ReadHeader /\ pc = "reading"
  BY DEF Turn
<1>2. Extract(h)
  BY DEF Turn, ReadEntry, ReadEmptyEntry
<1>3. h.path \in Name
  BY <1>1, HeaderIs
<1> QED
  BY <1>1, <1>2, <1>3 DEF Extract

-----------------------------------------------------------------------------
(* Type correctness.                                                       *)
LEMMA TypeInit == Init => TypeOK
<1> SUFFICES ASSUME Init PROVE TypeOK
  OBVIOUS
<1>1. Length \in Nat /\ Len(archive) \in Nat
  BY StartIs DEF Init, Length
<1>2. data \in Seq(0..Len(archive))
  BY DEF Init
<1> QED
  BY <1>1, <1>2 DEF Init, TypeOK

LEMMA TypeNext == TypeOK /\ [Next]_vars => TypeOK'
<1> SUFFICES ASSUME TypeOK, [Next]_vars PROVE TypeOK'
  OBVIOUS
<1>1. ASSUME NEW h, Turn(h) PROVE TypeOK'
  <2>1. /\ UNCHANGED <<archive, cut>> /\ Length' = Length
        /\ pos' \in 0..cut \cup {Eof} /\ data' \in Seq(0..Len(archive))
    BY <1>1, TurnMoves, Frozen
  <2>2. h.path \in Name /\ Extract(h) /\ pc' \in {"reading", "thrown"}
    BY <1>1, TurnWrites
  <2>3. Above[h.path] \subseteq Name
    BY <2>2, ArchiveAssumption
  <2>4. dirs' \subseteq Name
    BY <2>2, <2>3 DEF Extract, TypeOK
  <2>5. file' \in [Name -> Seq(0..Len(archive)) \cup {Absent}]
    BY <1>1, <2>1, <2>2, TurnWrites DEF TypeOK
  <2> QED
    BY <2>1, <2>2, <2>4, <2>5 DEF TypeOK
<1>2. CASE ReadEnd
  BY <1>2, Frozen DEF ReadEnd, TypeOK
<1>3. CASE UNCHANGED vars
  BY <1>3, Frozen DEF vars, TypeOK
<1> QED
  BY <1>1, <1>2, <1>3, Turns

(* The reader's state is always one of its type: in particular a position  *)
(* within what arrived, and files that hold units of the archive.          *)
THEOREM TypeCorrect == Spec => []TypeOK
<1> QED
  BY TypeInit, TypeNext, PTL DEF Spec

(* Every turn of the loop goes on in the stream, or reaches its end, or is *)
(* the last: the reader does not read the same header twice.               *)
THEOREM ReaderAdvances ==
  Spec => [][pc' = "reading" => pos' > pos \/ (pos' = Eof /\ pos # Eof)]_vars
<1>1. TypeOK /\ Next => (pc' = "reading" => pos' > pos \/ (pos' = Eof /\ pos # Eof))
  <2> SUFFICES ASSUME TypeOK, Next, pc' = "reading"
               PROVE  pos' > pos \/ (pos' = Eof /\ pos # Eof)
    OBVIOUS
  <2>1. PICK h : Turn(h)
    BY Turns DEF ReadEnd
  <2> QED
    BY <2>1, TurnMoves DEF Eof
<1> QED
  BY <1>1, TypeInit, TypeNext, PTL DEF Spec

-----------------------------------------------------------------------------
(* Where no size is taken for another, the reader keeps its place: it      *)
(* stands where an entry begins, or is at the end of the stream.           *)
OnTrack ==
  SizesRead => pos = Eof \/ \E j \in 1..(Len(archive) + 1) : pos = Start(j)

(* A turn that takes the entry m, the header of which arrived.             *)
EntryTurn(m, h) ==
  /\ Turn(h) /\ SizesRead
  /\ m \in 1..Len(archive) /\ pos = Start(m) /\ pos + BLOCK <= cut

(* A turn that takes what arrived of a header for a whole one.             *)
TornTurn(m, h) ==
  /\ Turn(h) /\ SizesRead
  /\ m \in 1..Len(archive) /\ pos = Start(m) /\ cut < pos + BLOCK

LEMMA TurnIs ==
  ASSUME TypeOK, OnTrack, SizesRead, NEW h, Turn(h)
  PROVE  \E m : EntryTurn(m, h) \/ TornTurn(m, h)
<1>1. /\ pos \in Nat /\ cut \in Nat /\ pos < cut /\ cut <= Length
      /\ BLOCK \in Nat /\ Len(archive) \in Nat /\ Length \in Nat
  BY TurnMoves, StartIs, ArchiveAssumption DEF TypeOK, Length
<1>2. PICK j \in 1..(Len(archive) + 1) : pos = Start(j)
  BY <1>1 DEF OnTrack, Eof
<1>3. j \in 1..Len(archive)
  BY <1>1, <1>2 DEF Length
<1> QED
  BY <1>1, <1>2, <1>3 DEF EntryTurn, TornTurn

(* A turn that takes an entry: its header, its size and, in the buffer, no *)
(* unit of another entry that was not there before.                        *)
LEMMA EntryIs ==
  ASSUME TypeOK, NEW m, NEW h, EntryTurn(m, h)
  PROVE  /\ UNCHANGED <<archive, cut>> /\ pc = "reading"
         /\ archive \in Archives /\ Len(archive) \in Nat
         /\ m \in 1..Len(archive) /\ pos = Start(m) /\ h = archive[m]
         /\ SizeOf(h) \in Nat /\ oct2dec(h.size) = SizeOf(h)
         /\ Start(m + 1) \in Nat /\ cut \in Nat
         /\ pos' = IF Start(m + 1) <= cut THEN Start(m + 1) ELSE Eof
         /\ \A i \in 1..Len(data') : \/ data'[i] \in {0, m}
                                     \/ i \in 1..Len(data) /\ data'[i] = data[i]
         /\ SizeOf(h) > 0 /\ Start(m) + BLOCK + SizeOf(h) <= cut =>
              data' = [j \in 1..SizeOf(h) |-> m]
<1>1. /\ Turn(h) /\ SizesRead /\ m \in 1..Len(archive) /\ pos = Start(m)
      /\ pos + BLOCK <= cut
  BY DEF EntryTurn
<1>2. /\ UNCHANGED <<archive, cut>> /\ pc = "reading" /\ h \in ReadHeader
      /\ pos \in Nat /\ cut \in Nat /\ oct2dec(h.size) \in Nat
      /\ archive \in Archives /\ Len(archive) \in Nat /\ BLOCK \in Nat
      /\ SizeOf(archive[m]) \in Nat
  BY <1>1, TurnMoves, StartIs, ArchiveAssumption DEF Turn, TypeOK
<1>3. h = archive[m]
  <2>1. PICK k \in AtHeader : h = archive[k]
    BY <1>1, <1>2 DEF ReadHeader, AtHeader
  <2>2. k \in 1..Len(archive) /\ Start(k) = Start(m)
    BY <1>1, <2>1 DEF AtHeader
  <2> QED
    BY <1>1, <1>2, <2>1, <2>2, StartOnce
<1>4. oct2dec(h.size) = SizeOf(h) /\ SizeOf(h) \in Nat
  BY <1>1, <1>2, <1>3 DEF SizesRead
<1>5. /\ Padding(SizeOf(h)) \in Nat /\ Start(m + 1) \in Nat
      /\ Start(m + 1) = pos + BLOCK + SizeOf(h) + Padding(SizeOf(h))
  <2>1. m + 1 \in 1..(Len(archive) + 1)
    BY <1>1, <1>2
  <2>2. /\ Start(m + 1) \in Nat /\ Start(m + 1) = Start(m) + Span(SizeOf(h))
    BY <1>1, <1>2, <1>3, <2>1, StartIs
  <2>3. Padding(SizeOf(h)) \in Nat
        /\ Span(SizeOf(h)) = BLOCK + SizeOf(h) + Padding(SizeOf(h))
    BY <1>4, SpanIs
  <2> QED
    BY <1>1, <1>2, <1>4, <2>2, <2>3
<1>6. CASE SizeOf(h) > 0
  <2> DEFINE n == SizeOf(h)
  <2>1. ReadBody(n)
    BY <1>1, <1>4, <1>6 DEF Turn, ReadEntry, ReadEmptyEntry
  <2>2. pos' = IF Start(m + 1) <= cut THEN Start(m + 1) ELSE Eof
    BY <1>5, <2>1 DEF ReadBody
  <2>3. data' = [j \in 1..n |-> IF pos + BLOCK + j <= cut
                                THEN Unit(pos + BLOCK + j - 1)
                                ELSE IF j <= Len(data) THEN data[j] ELSE 0]
    BY <2>1 DEF ReadBody, resize
  <2>4. \A j \in 1..n : Unit(pos + BLOCK + j - 1) = m
    <3>1. ASSUME NEW j \in 1..n PROVE Unit(pos + BLOCK + j - 1) = m
      <4>1. pos + BLOCK + j - 1 \in Int /\ InBody(m, pos + BLOCK + j - 1)
        BY <1>1, <1>2, <1>3, <1>4 DEF InBody
      <4> QED
        BY <1>1, <1>2, <4>1, UnitIs
    <3> QED
      BY <3>1
  <2>5. Len(data') = n /\ Len(data) \in Nat
    BY <1>4, <2>1, BodyType DEF TypeOK
  <2> HIDE DEF n
  <2>6. \A i \in 1..Len(data') : \/ data'[i] \in {0, m}
                                 \/ i \in 1..Len(data) /\ data'[i] = data[i]
    <3> TAKE i \in 1..Len(data')
    <3>1. n \in Nat /\ i \in 1..n /\ Unit(pos + BLOCK + i - 1) = m
      BY <1>4, <2>4, <2>5 DEF n
    <3>2. data'[i] = IF pos + BLOCK + i <= cut THEN m
                     ELSE IF i <= Len(data) THEN data[i] ELSE 0
      BY <2>3, <3>1
    <3>3. i <= Len(data) => i \in 1..Len(data)
      BY <2>5, <3>1
    <3> QED
      BY <3>2, <3>3
  <2>7. ASSUME Start(m) + BLOCK + n <= cut PROVE data' = [j \in 1..n |-> m]
    <3>1. n \in Nat
      BY <1>4 DEF n
    <3>2. \A j \in 1..n : pos + BLOCK + j <= cut
      BY <1>1, <1>2, <2>7, <3>1
    <3> QED
      BY <2>3, <2>4, <3>2
  <2> QED
    BY <1>1, <1>2, <1>3, <1>4, <1>5, <2>2, <2>6, <2>7 DEF n
<1>7. CASE SizeOf(h) = 0
  <2>1. pos' = pos + BLOCK /\ data' = data
    BY <1>1, <1>4, <1>7 DEF Turn, ReadEntry, ReadEmptyEntry
  <2>2. Padding(0) = 0
    BY ArchiveAssumption DEF Padding
  <2>3. Start(m + 1) = pos + BLOCK
    BY <1>2, <1>5, <1>7, <2>2
  <2> QED
    BY <1>1, <1>2, <1>3, <1>4, <1>5, <1>7, <2>1, <2>3
<1> QED
  BY <1>4, <1>6, <1>7

LEMMA OnTrackNext ==
  ASSUME TypeOK, OnTrack, NEW h, Turn(h)
  PROVE  OnTrack'
<1>1. /\ UNCHANGED <<archive, cut>> /\ SizesRead' = SizesRead
      /\ \A j : Start(j)' = Start(j)
  BY TurnMoves, Frozen
<1> SUFFICES ASSUME SizesRead
             PROVE  pos' = Eof \/ \E j \in 1..(Len(archive) + 1) : pos' = Start(j)
  BY <1>1 DEF OnTrack
<1>2. PICK m : EntryTurn(m, h) \/ TornTurn(m, h)
  BY TurnIs
<1>3. CASE EntryTurn(m, h)
  <2>1. /\ m \in 1..Len(archive) /\ Len(archive) \in Nat
        /\ pos' = Start(m + 1) \/ pos' = Eof
    BY <1>3, EntryIs
  <2>2. m + 1 \in 1..(Len(archive) + 1)
    BY <2>1
  <2> QED
    BY <2>1, <2>2
<1>4. CASE TornTurn(m, h)
  <2>1. pos + BLOCK > cut
    BY <1>4, TurnMoves, ArchiveAssumption DEF TornTurn
  <2> QED
    BY <2>1, TurnMoves
<1> QED
  BY <1>2, <1>3, <1>4

LEMMA OnTrackInit == Init => OnTrack
<1> SUFFICES ASSUME Init PROVE OnTrack
  OBVIOUS
<1>1. pos = Start(1) /\ Len(archive) \in Nat
  BY StartIs DEF Init
<1> QED
  BY <1>1 DEF OnTrack

-----------------------------------------------------------------------------
(* In an archive that arrived whole every turn takes an entry, with all of *)
(* its body.                                                               *)
LEMMA WholeTurn ==
  ASSUME TypeOK, OnTrack, SizesRead, cut = Length, NEW h, Turn(h)
  PROVE  \E m \in 1..Len(archive) :
           /\ h = archive[m] /\ SizeOf(h) \in Nat
           /\ SizeOf(h) > 0 => data' = [j \in 1..SizeOf(h) |-> m]
<1>1. PICK m : EntryTurn(m, h) \/ TornTurn(m, h)
  BY TurnIs
<1>2. /\ m \in 1..Len(archive) /\ archive \in Archives /\ Len(archive) \in Nat
      /\ pos = Start(m) /\ BLOCK \in Nat
  BY <1>1, StartIs, ArchiveAssumption DEF EntryTurn, TornTurn, TypeOK
<1>3. /\ Start(m) + BLOCK + SizeOf(archive[m]) <= Length
      /\ SizeOf(archive[m]) \in Nat /\ Length \in Nat /\ Start(m) \in Nat
  <2>1. /\ m < Len(archive) + 1 /\ Len(archive) + 1 \in 1..(Len(archive) + 1)
        /\ m \in 1..(Len(archive) + 1)
    BY <1>2
  <2> QED
    BY <1>2, <2>1, StartIs, StartOrder DEF Length
<1>4. EntryTurn(m, h)
  BY <1>1, <1>2, <1>3 DEF EntryTurn, TornTurn
<1>5. /\ h = archive[m] /\ SizeOf(h) \in Nat
      /\ SizeOf(h) > 0 /\ Start(m) + BLOCK + SizeOf(h) <= cut =>
           data' = [j \in 1..SizeOf(h) |-> m]
  BY <1>4, EntryIs
<1> QED
  BY <1>2, <1>3, <1>5

(* FilesAreWhole: the buffer that all entries share leaves no byte of one  *)
(* in the file of another, when the archive arrived whole, its sizes are   *)
(* read as what they say, and no entry of that path is empty.              *)
THEOREM WholeFiles == Spec => []FilesAreWhole
<1> DEFINE WholeInv == TypeOK /\ OnTrack /\ FilesAreWhole
<1>1. Init => WholeInv
  BY TypeInit, OnTrackInit DEF Init, FilesAreWhole
<1>2. WholeInv /\ [Next]_vars => WholeInv'
  <2> SUFFICES ASSUME TypeOK, OnTrack, FilesAreWhole, [Next]_vars
               PROVE  OnTrack' /\ FilesAreWhole'
    BY TypeNext
  <2>1. ASSUME NEW h, Turn(h) PROVE FilesAreWhole'
    <3>1. UNCHANGED <<archive, cut>> /\ Length' = Length /\ SizesRead' = SizesRead
      BY <2>1, TurnMoves, Frozen
    <3> SUFFICES ASSUME cut = Length, SizesRead, NEW p \in Name, file'[p] # Absent
                 PROVE  \E k \in 1..Len(archive) :
                          /\ archive[k].path = p /\ archive[k].kind = "file"
                          /\ \/ SizeOf(archive[k]) = 0
                             \/ file'[archive[k].path] = [j \in 1..SizeOf(archive[k]) |-> k]
      BY <3>1 DEF FilesAreWhole, Intact
    <3>2. CASE file'[p] = file[p]
      <4>1. PICK k \in 1..Len(archive) :
              /\ archive[k].path = p /\ archive[k].kind = "file"
              /\ SizeOf(archive[k]) = 0 \/ Intact(k)
        BY <3>2 DEF FilesAreWhole
      <4> QED
        BY <3>2, <4>1 DEF Intact
    <3>3. CASE file'[p] # file[p]
      <4>1. /\ h.kind = "file" /\ file' = [file EXCEPT ![h.path] = data']
            /\ h.path \in Name
        BY <2>1, <3>3, TurnWrites
      <4>2. p = h.path /\ file'[p] = data'
        BY <3>3, <4>1 DEF TypeOK
      <4>3. PICK m \in 1..Len(archive) :
              /\ h = archive[m] /\ SizeOf(h) \in Nat
              /\ SizeOf(h) > 0 => data' = [j \in 1..SizeOf(h) |-> m]
        BY <2>1, WholeTurn
      <4> QED
        BY <4>1, <4>2, <4>3
    <3> QED
      BY <3>2, <3>3
  <2>2. CASE ReadEnd
    <3>1. UNCHANGED <<archive, cut, pos, file>>
      BY <2>2 DEF ReadEnd
    <3> QED
      BY <3>1, Frozen DEF FilesAreWhole, OnTrack, Intact
  <2>3. CASE UNCHANGED vars
    <3>1. UNCHANGED <<archive, cut, pos, file>>
      BY <2>3 DEF vars
    <3> QED
      BY <3>1, Frozen DEF FilesAreWhole, OnTrack, Intact
  <2> QED
    BY <2>1, <2>2, <2>3, Turns, OnTrackNext
<1> QED
  BY <1>1, <1>2, PTL DEF Spec

-----------------------------------------------------------------------------
(* Delivery.  An entry that is to be on the disk (Delivered) is still      *)
(* ahead, or there, unless an exception ended the reader; and until it is  *)
(* read nothing gets in its way: no directory has its path, no file that   *)
(* of a directory above it, and those directories are made once their      *)
(* entries are passed.  No unit is written before its entry is read.       *)
Ahead(k) == pc = "reading" /\ \E j \in 1..k : pos = Start(j)

Came(k) == Ahead(k) \/ pc = "thrown" \/ Intact(k)

Clear(k) ==
  /\ archive[k].path \notin dirs
  /\ \A d \in Above[archive[k].path] : file[d] = Absent

Made(k) ==
  pc # "thrown" =>
    \A i \in 1..(k - 1) :
      archive[i].path \in Above[archive[k].path] /\ ~Ahead(i) =>
        archive[i].path \in dirs

Way(k) == Came(k) /\ Clear(k) /\ Made(k)

NotBefore ==
  SizesRead => \A j \in 1..Len(archive) : pos = Start(j) =>
    /\ \A i \in 1..Len(data) : data[i] < j
    /\ \A p \in Name : file[p] # Absent => \A i \in 1..Len(file[p]) : file[p][i] < j

(* Past a torn header this holds of all the entries but one.               *)
Spoiled == Torn /\ pos = Eof

Kept ==
  \E l \in 0..Len(archive) :
    \A k \in 1..Len(archive) : Delivered(k) /\ k # l => Intact(k)

DeliveryInv ==
  /\ TypeOK /\ OnTrack /\ NotBefore
  /\ Spoiled => pc = "thrown" \/ Kept
  /\ ~Spoiled => \A k \in 1..Len(archive) : Delivered(k) => Way(k)

(* What is known of an entry that is to be delivered.                      *)
LEMMA DeliveredIs ==
  ASSUME TypeOK, NEW k \in 1..Len(archive), Delivered(k)
  PROVE  /\ SizesRead /\ archive \in Archives /\ Len(archive) \in Nat
         /\ archive[k].path \in Name /\ Above[archive[k].path] \subseteq Name
         /\ SizeOf(archive[k]) \in Nat /\ SizeOf(archive[k]) > 0
         /\ [j \in 1..SizeOf(archive[k]) |-> k] # Absent
         /\ cut \in Nat /\ BLOCK \in Nat \ {0} /\ k \in 1..(Len(archive) + 1)
         /\ \A m \in 1..k :
              /\ m \in 1..Len(archive) /\ Start(m) \in Nat
              /\ SizeOf(archive[m]) \in Nat
              /\ oct2dec(archive[m].size) = SizeOf(archive[m])
              /\ Start(m) + BLOCK + SizeOf(archive[m]) <= cut
              /\ m < k => Start(m + 1) <= cut /\ m + 1 \in 1..k
<1>1. /\ SizesRead /\ archive \in Archives /\ Len(archive) \in Nat
      /\ archive[k] \in Header /\ SizeOf(archive[k]) \in Nat
      /\ SizeOf(archive[k]) > 0 /\ cut \in Nat /\ BLOCK \in Nat \ {0}
      /\ k \in 1..(Len(archive) + 1) /\ Start(k) \in Nat
      /\ Start(k) + BLOCK + SizeOf(archive[k]) <= cut
  BY StartIs, ArchiveAssumption DEF TypeOK, Delivered, Length
<1>2. /\ archive[k].path \in Name /\ Above[archive[k].path] \subseteq Name
      /\ [j \in 1..SizeOf(archive[k]) |-> k] # Absent
  BY <1>1, ArchiveAssumption
<1>3. ASSUME NEW m \in 1..k
      PROVE  /\ m \in 1..Len(archive) /\ Start(m) \in Nat
             /\ SizeOf(archive[m]) \in Nat
             /\ oct2dec(archive[m].size) = SizeOf(archive[m])
             /\ Start(m) + BLOCK + SizeOf(archive[m]) <= cut
             /\ m < k => Start(m + 1) <= cut /\ m + 1 \in 1..k
  <2>1. /\ m \in 1..Len(archive) /\ m \in 1..(Len(archive) + 1)
        /\ oct2dec(archive[m].size) = SizeOf(archive[m])
    BY <1>1 DEF Delivered, Legible
  <2>2. Start(m) \in Nat /\ SizeOf(archive[m]) \in Nat
    BY <1>1, <2>1, StartIs
  <2>3. CASE m = k
    BY <1>1, <2>1, <2>2, <2>3
  <2>4. CASE m < k
    <3>1. /\ Start(m + 1) <= Start(k) /\ m + 1 \in 1..k
          /\ Start(m) + BLOCK + SizeOf(archive[m]) <= Start(k)
      BY <1>1, <2>1, <2>4, StartOrder
    <3>2. Start(m + 1) \in Nat
      <4>1. m + 1 \in 1..(Len(archive) + 1)
        BY <1>1, <2>1
      <4> QED
        BY <1>1, <4>1, StartIs
    <3> QED
      BY <1>1, <2>1, <2>2, <3>1, <3>2
  <2> QED
    BY <1>1, <2>3, <2>4
<1> QED
  BY <1>1, <1>2, <1>3

(* The headers up to an entry that is to be delivered arrived and are      *)
(* legible, so that the reader finds each of those entries.                *)
LEMMA Passed ==
  ASSUME TypeOK, NEW k \in 1..Len(archive), Delivered(k),
         NEW m \in 1..k, NEW h, EntryTurn(m, h)
  PROVE  /\ SizeOf(h) > 0 => data' = [j \in 1..SizeOf(h) |-> m]
         /\ m < k => pos' = Start(m + 1) /\ m + 1 \in 1..k
<1>1. h = archive[m]
  BY EntryIs
<1>2. Start(m) + BLOCK + SizeOf(archive[m]) <= cut
      /\ (m < k => Start(m + 1) <= cut /\ m + 1 \in 1..k)
  BY DeliveredIs
<1> QED
  BY <1>1, <1>2, EntryIs

(* The reader does not end with an entry that is to be delivered ahead.    *)
LEMMA NotTheEnd ==
  ASSUME TypeOK, NEW k \in 1..Len(archive), Delivered(k), Ahead(k)
  PROVE  ~ReadEnd
<1> SUFFICES ASSUME ReadEnd PROVE FALSE
  OBVIOUS
<1>1. PICK m \in 1..k : pos = Start(m)
  BY DEF Ahead
<1>2. /\ m \in 1..Len(archive) /\ archive \in Archives /\ Len(archive) \in Nat
      /\ BLOCK \in Nat \ {0} /\ cut \in Nat /\ Start(m) \in Nat
      /\ SizeOf(archive[m]) \in Nat
      /\ oct2dec(archive[m].size) = SizeOf(archive[m])
      /\ Start(m) + BLOCK + SizeOf(archive[m]) <= cut
  BY <1>1, DeliveredIs
<1>3. More /\ pos + BLOCK <= cut
  BY <1>1, <1>2 DEF More, Eof
<1>4. m \in AtHeader
  BY <1>1, <1>2 DEF AtHeader
<1>5. PICK n \in AtHeader : oct2dec(archive[n].size) < 0
  BY <1>3, <1>4 DEF ReadEnd, ReadHeader
<1>6. n = m
  BY <1>1, <1>2, <1>5, StartOnce DEF AtHeader
<1> QED
  BY <1>2, <1>5, <1>6

(* No entry is ahead of one that starts later.                             *)
LEMMA NotAhead ==
  ASSUME archive \in Archives, NEW k \in 1..Len(archive),
         NEW m \in 1..Len(archive), k < m, pos = Start(m)
  PROVE  ~Ahead(k)
<1>1. Len(archive) \in Nat
  BY StartIs
<1>2. ASSUME NEW j \in 1..k, pos = Start(j) PROVE FALSE
  <2>1. j \in 1..Len(archive) /\ Start(j) = Start(m)
    BY <1>1, <1>2
  <2>2. j = m
    BY <1>1, <2>1, StartOnce
  <2> QED
    BY <2>2
<1> QED
  BY <1>2 DEF Ahead

(* A turn behind an entry leaves it where it is.                           *)
LEMMA Behind ==
  ASSUME TypeOK, NEW k \in 1..Len(archive), Delivered(k),
         NEW m, NEW h, EntryTurn(m, h), ~(m \in 1..k)
  PROVE  /\ ~Ahead(k) /\ k < m
         /\ h.path # archive[k].path
         /\ file'[archive[k].path] = file[archive[k].path]
<1>1. /\ m \in 1..Len(archive) /\ archive \in Archives /\ Len(archive) \in Nat
      /\ pos = Start(m) /\ h = archive[m] /\ Turn(h)
  BY EntryIs DEF EntryTurn
<1>2. k < m /\ ~Ahead(k)
  <2>1. k < m
    BY <1>1
  <2> QED
    BY <1>1, <2>1, NotAhead
<1>3. archive[m].path # archive[k].path
  BY <1>1 DEF Delivered
<1>4. archive[k].path \in Name
  BY DeliveredIs
<1>5. file'[archive[k].path] = file[archive[k].path]
  BY <1>1, <1>3, <1>4, TurnWrites DEF TypeOK
<1> QED
  BY <1>1, <1>2, <1>3, <1>5

LEMMA NotBeforeNext ==
  ASSUME TypeOK, OnTrack, NotBefore, NEW h, Turn(h)
  PROVE  NotBefore'
<1>1. /\ UNCHANGED <<archive, cut>> /\ SizesRead' = SizesRead
      /\ \A j : Start(j)' = Start(j)
      /\ archive \in Archives /\ Len(archive) \in Nat
  BY TurnMoves, Frozen, StartIs DEF TypeOK
<1> SUFFICES ASSUME SizesRead, NEW j \in 1..Len(archive), pos' = Start(j)
             PROVE  /\ \A i \in 1..Len(data') : data'[i] < j
                    /\ \A p \in Name : file'[p] # Absent =>
                         \A i \in 1..Len(file'[p]) : file'[p][i] < j
  BY <1>1 DEF NotBefore
<1>2. PICK m : EntryTurn(m, h)
  <2>1. \A m : TornTurn(m, h) => pos' = Eof
    BY TurnMoves, ArchiveAssumption DEF TornTurn
  <2>2. Start(j) \in Nat
    BY <1>1, StartIs
  <2> QED
    BY <2>1, <2>2, TurnIs DEF Eof
<1>3. /\ m \in 1..Len(archive) /\ pos = Start(m)
      /\ Start(m) \in Nat /\ Start(j) \in Nat /\ pos' > pos
  BY <1>1, <1>2, EntryIs, StartIs, TurnMoves DEF Eof
<1>4. \A i \in 1..Len(data') : data'[i] \in 0..m
  <2>1. \A i \in 1..Len(data') : \/ data'[i] \in {0, m}
                                 \/ i \in 1..Len(data) /\ data'[i] = data[i]
    BY <1>2, EntryIs
  <2>2. \A i \in 1..Len(data) : data[i] < m /\ data[i] \in 0..Len(archive)
    BY <1>3 DEF NotBefore, TypeOK
  <2> QED
    BY <1>1, <1>3, <2>1, <2>2
<1>5. ASSUME NEW p \in Name, file'[p] # Absent, NEW i \in 1..Len(file'[p])
      PROVE  file'[p][i] \in 0..m
  <2>1. CASE file'[p] = data'
    BY <1>4, <1>5, <2>1
  <2>2. CASE file'[p] = file[p]
    <3>1. file[p] \in Seq(0..Len(archive))
      BY <1>5, <2>2 DEF TypeOK
    <3>2. file[p][i] < m /\ file[p][i] \in 0..Len(archive)
      BY <1>3, <1>5, <2>2, <3>1 DEF NotBefore
    <3> QED
      BY <1>1, <1>3, <2>2, <3>2
  <2> QED
    BY <2>1, <2>2, TurnWrites DEF TypeOK
<1>6. m < j
  <2>1. j < m => Start(j) < Start(m)
    BY <1>1, <1>3, StartOrder
  <2> QED
    BY <1>1, <1>3, <2>1
<1> QED
  BY <1>1, <1>3, <1>4, <1>5, <1>6

LEMMA CameNext ==
  ASSUME TypeOK, NEW k \in 1..Len(archive), Delivered(k), Way(k),
         NEW m, NEW h, EntryTurn(m, h)
  PROVE  Came(k)'
<1>1. /\ UNCHANGED <<archive, cut>> /\ \A j : Start(j)' = Start(j)
      /\ pc = "reading" /\ Turn(h) /\ h = archive[m] /\ m \in 1..Len(archive)
      /\ pos = Start(m) /\ archive \in Archives /\ Len(archive) \in Nat
  BY EntryIs, Frozen DEF EntryTurn
<1>2. pc' \in {"reading", "thrown"}
  BY <1>1, TurnWrites
<1>3. CASE m \in 1..k /\ m < k
  <2>1. pos' = Start(m + 1) /\ m + 1 \in 1..k
    BY <1>3, Passed
  <2> QED
    BY <1>1, <1>2, <2>1 DEF Came, Ahead
<1>4. CASE m = k
  <2>1. /\ h.kind = "file" /\ SizeOf(h) > 0 /\ SizeOf(h) \in Nat
        /\ data' = [j \in 1..SizeOf(h) |-> k]
    <3>1. m \in 1..k
      BY <1>4
    <3> QED
      BY <1>1, <1>4, <3>1, Passed, DeliveredIs DEF Delivered
  <2>2. Len(data') = SizeOf(h)
    BY <2>1
  <2>3. CanOpen(h.path)
    <3>1. ASSUME NEW d \in Above[h.path] PROVE d \in dirs
      <4>1. PICK i \in 1..(k - 1) : archive[i].path = d
        BY <1>1, <1>4, <3>1 DEF Delivered
      <4>2. ~Ahead(i)
        <5>1. i \in 1..Len(archive) /\ i < m
          BY <1>1, <1>4
        <5> QED
          BY <1>1, <5>1, NotAhead
      <4> QED
        BY <1>1, <1>4, <3>1, <4>1, <4>2 DEF Way, Made
    <3> QED
      BY <1>1, <1>4, <3>1 DEF CanOpen, Way, Clear
  <2>4. file' = [file EXCEPT ![h.path] = data'] /\ h.path \in Name
    BY <1>1, <2>1, <2>2, <2>3, TurnWrites DEF Extract
  <2>5. file'[archive[k].path] = [j \in 1..SizeOf(archive[k]) |-> k]
    BY <1>1, <1>4, <2>1, <2>4 DEF TypeOK
  <2> QED
    BY <1>1, <2>5 DEF Came, Intact
<1>5. CASE ~(m \in 1..k)
  <2>1. ~Ahead(k) /\ file'[archive[k].path] = file[archive[k].path]
    BY <1>5, Behind
  <2> QED
    BY <1>1, <2>1 DEF Way, Came, Intact
<1> QED
  BY <1>1, <1>3, <1>4, <1>5

LEMMA ClearNext ==
  ASSUME TypeOK, NEW k \in 1..Len(archive), Delivered(k), Way(k),
         NEW m, NEW h, EntryTurn(m, h)
  PROVE  Clear(k)'
<1>1. /\ UNCHANGED <<archive, cut>> /\ pc = "reading" /\ m \in 1..Len(archive)
      /\ h = archive[m] /\ h.path \in Name /\ Turn(h) /\ Len(archive) \in Nat
  BY EntryIs, TurnWrites DEF EntryTurn
<1>2. ~(m \in 1..k) => k < m /\ h.path # archive[k].path
  BY Behind
<1>3. archive[k].path \notin dirs'
  <2>1. ASSUME h.path = archive[k].path PROVE h.kind = "file"
    BY <1>1, <2>1 DEF Delivered
  <2>2. archive[k].path \notin Above[h.path]
    BY <1>1 DEF Delivered
  <2> QED
    BY <1>1, <2>1, <2>2, TurnWrites DEF Extract, Way, Clear
<1>4. ASSUME NEW d \in Above[archive[k].path] PROVE file'[d] = Absent
  <2>1. d \in Name
    BY <1>4, DeliveredIs
  <2>2. ASSUME h.path = d, h.kind = "file" PROVE FALSE
    BY <1>1, <1>4, <2>2 DEF Delivered
  <2>3. file[d] = Absent
    BY <1>4 DEF Way, Clear
  <2> QED
    BY <1>1, <2>1, <2>2, <2>3, TurnWrites DEF TypeOK
<1> QED
  BY <1>1, <1>3, <1>4 DEF Clear

LEMMA MadeNext ==
  ASSUME TypeOK, NEW k \in 1..Len(archive), Delivered(k), Way(k),
         NEW m, NEW h, EntryTurn(m, h)
  PROVE  Made(k)'
<1>1. /\ UNCHANGED <<archive, cut>> /\ \A j : Start(j)' = Start(j)
      /\ pc = "reading" /\ archive \in Archives /\ Len(archive) \in Nat
      /\ m \in 1..Len(archive) /\ pos = Start(m) /\ h = archive[m] /\ Turn(h)
      /\ pc' \in {"reading", "thrown"} /\ dirs \subseteq dirs'
  BY EntryIs, TurnWrites, Frozen DEF EntryTurn
<1> SUFFICES ASSUME pc' = "reading", NEW i \in 1..(k - 1),
                    archive[i].path \in Above[archive[k].path], ~Ahead(i)'
             PROVE  archive[i].path \in dirs'
  BY <1>1 DEF Made
<1>2. CASE ~Ahead(i)
  BY <1>1, <1>2 DEF Way, Made
<1>3. CASE Ahead(i)
  <2>1. m \in 1..i
    <3>1. PICK j \in 1..i : pos = Start(j)
      BY <1>3 DEF Ahead
    <3>2. j \in 1..Len(archive) /\ Start(j) = Start(m)
      BY <1>1, <3>1
    <3>3. j = m
      BY <1>1, <3>2, StartOnce
    <3> QED
      BY <3>1, <3>3
  <2>2. m \in 1..k /\ m < k
    BY <1>1, <2>1
  <2>3. pos' = Start(m + 1)
    BY <2>2, Passed
  <2>4. m = i
    <3>1. \A j \in 1..i : pos' # Start(j)
      BY <1>1 DEF Ahead
    <3> QED
      BY <1>1, <2>1, <2>3, <3>1
  <2>5. h.kind = "dir"
    <3>1. i \in 1..Len(archive)
      BY <1>1
    <3> QED
      BY <1>1, <2>4, <3>1 DEF Delivered
  <2>6. file[h.path] = Absent
    BY <1>1, <2>4 DEF Way, Clear
  <2>7. h.path \in dirs'
    BY <1>1, <2>5, <2>6, TurnWrites DEF Extract, Exists
  <2> QED
    BY <1>1, <2>4, <2>7
<1> QED
  BY <1>2, <1>3

(* Only a torn header takes the stream of a torn archive to its end.       *)
LEMMA TornStays ==
  ASSUME TypeOK, Torn, NEW m, NEW h, EntryTurn(m, h)
  PROVE  pos' # Eof
<1>1. /\ archive \in Archives /\ Len(archive) \in Nat /\ m \in 1..Len(archive)
      /\ cut \in Nat /\ Start(m + 1) \in Nat /\ BLOCK \in Nat
      /\ pos = Start(m) /\ pos + BLOCK <= cut
      /\ pos' = IF Start(m + 1) <= cut THEN Start(m + 1) ELSE Eof
  BY EntryIs, ArchiveAssumption DEF EntryTurn
<1>2. PICK i \in 1..Len(archive) : Start(i) < cut /\ cut < Start(i) + BLOCK
  BY DEF Torn
<1>3. /\ Start(i) \in Nat /\ Start(m) \in Nat /\ SizeOf(archive[i]) \in Nat
      /\ i \in 1..(Len(archive) + 1) /\ m \in 1..(Len(archive) + 1)
  BY <1>1, StartIs
<1>4. m < i
  <2>1. m # i
    BY <1>1, <1>2, <1>3
  <2>2. ~(i < m)
    <3>1. i < m => Start(i) + BLOCK + SizeOf(archive[i]) <= Start(m)
      BY <1>1, <1>3, StartOrder
    <3> QED
      BY <1>1, <1>2, <1>3, <3>1
  <2> QED
    BY <1>1, <2>1, <2>2
<1>5. Start(m + 1) <= Start(i)
  BY <1>1, <1>3, <1>4, StartOrder
<1> QED
  BY <1>1, <1>2, <1>3, <1>5 DEF Eof

(* It is the last of the archive: what is to be delivered is behind it.    *)
LEMMA TornIs ==
  ASSUME TypeOK, NEW m, NEW h, TornTurn(m, h)
  PROVE  /\ Torn /\ pos # Eof /\ pos' = Eof /\ UNCHANGED <<archive, cut>>
         /\ pc = "reading" /\ pc' \in {"reading", "thrown"}
         /\ \A k \in 1..Len(archive) : Delivered(k) => ~Ahead(k)
<1>1. /\ m \in 1..Len(archive) /\ pos = Start(m) /\ cut < pos + BLOCK
      /\ Turn(h) /\ SizesRead /\ BLOCK \in Nat
      /\ archive \in Archives /\ Len(archive) \in Nat
  BY StartIs, ArchiveAssumption DEF TornTurn, TypeOK
<1>2. /\ UNCHANGED <<archive, cut>> /\ pos \in Nat /\ cut \in Nat /\ pos < cut
      /\ pc = "reading" /\ pc' \in {"reading", "thrown"}
  BY <1>1, TurnMoves, TurnWrites DEF Turn
<1>3. pos' = Eof
  BY <1>1, <1>2, TurnMoves
<1>4. Torn /\ pos # Eof
  BY <1>1, <1>2 DEF Torn, Eof
<1>5. ASSUME NEW k \in 1..Len(archive), Delivered(k) PROVE ~Ahead(k)
  <2>1. /\ Start(k) \in Nat /\ SizeOf(archive[k]) \in Nat
        /\ Start(k) + BLOCK + SizeOf(archive[k]) <= cut
    <3>1. k \in 1..k
      BY <1>1
    <3> QED
      BY <1>5, <3>1, DeliveredIs
  <2>2. m < k => Start(m) < Start(k)
    <3>1. k \in 1..(Len(archive) + 1)
      BY <1>1
    <3> QED
      BY <1>1, <3>1, StartOrder
  <2>3. k < m
    <3>1. k # m
      BY <1>1, <1>2, <2>1
    <3>2. ~(m < k)
      BY <1>1, <1>2, <2>1, <2>2
    <3> QED
      BY <1>1, <3>1, <3>2
  <2> QED
    BY <1>1, <2>3, NotAhead
<1> QED
  BY <1>2, <1>3, <1>4, <1>5

(* It costs one file at most, and none when it ends in an exception: two   *)
(* entries that are to be delivered have different paths.                  *)
LEMMA TornCosts ==
  ASSUME DeliveryInv, NEW m, NEW h, TornTurn(m, h)
  PROVE  /\ \A k \in 1..Len(archive) : Delivered(k) => Intact(k)
         /\ pc' = "thrown" =>
              \A k \in 1..Len(archive) : Delivered(k) => Intact(k)'
         /\ \E l \in 0..Len(archive) :
              \A k \in 1..Len(archive) : Delivered(k) /\ k # l => Intact(k)'
<1>1. /\ TypeOK /\ Turn(h) /\ pc = "reading" /\ UNCHANGED <<archive, cut>>
      /\ Torn /\ pos # Eof /\ Len(archive) \in Nat
  BY TornIs, StartIs DEF DeliveryInv, TornTurn, TypeOK
<1>2. \A k \in 1..Len(archive) : Delivered(k) => Intact(k)
  BY <1>1, TornIs DEF DeliveryInv, Spoiled, Way, Came
<1>3. ASSUME NEW k \in 1..Len(archive), Delivered(k),
             file' = file \/ h.path # archive[k].path
      PROVE  Intact(k)'
  <2>1. Intact(k) /\ archive[k].path \in Name
    BY <1>1, <1>2, <1>3, DeliveredIs
  <2>2. file'[archive[k].path] = file[archive[k].path]
    BY <1>1, <1>3, <2>1, TurnWrites DEF TypeOK
  <2> QED
    BY <1>1, <2>1, <2>2 DEF Intact
<1>4. pc' = "thrown" => file' = file
  BY <1>1, TurnWrites
<1>5. \E l \in 0..Len(archive) :
        \A k \in 1..Len(archive) : Delivered(k) /\ k # l => h.path # archive[k].path
  <2>1. CASE \A k \in 1..Len(archive) : Delivered(k) => h.path # archive[k].path
    <3>1. 0 \in 0..Len(archive)
      BY <1>1
    <3> QED
      BY <2>1, <3>1
  <2>2. ASSUME NEW l \in 1..Len(archive), Delivered(l), h.path = archive[l].path
        PROVE  \A k \in 1..Len(archive) :
                 Delivered(k) /\ k # l => h.path # archive[k].path
    <3>1. ASSUME NEW k \in 1..Len(archive), Delivered(k), k # l,
                 archive[k].path = archive[l].path
          PROVE  FALSE
      <4>1. l < k
        BY <3>1 DEF Delivered
      <4>2. k < l
        BY <2>2, <3>1 DEF Delivered
      <4> QED
        BY <1>1, <4>1, <4>2
    <3> QED
      BY <2>2, <3>1
  <2>3. \A l \in 1..Len(archive) : l \in 0..Len(archive)
    BY <1>1
  <2> QED
    BY <2>1, <2>2, <2>3
<1> QED
  BY <1>2, <1>3, <1>4, <1>5

LEMMA DeliveryInit == Init => DeliveryInv
<1> SUFFICES ASSUME Init PROVE DeliveryInv
  OBVIOUS
<1>1. TypeOK /\ OnTrack
  BY TypeInit, OnTrackInit
<1>2. NotBefore /\ ~Spoiled
  BY DEF Init, NotBefore, Spoiled, Eof
<1>3. ASSUME NEW k \in 1..Len(archive), Delivered(k) PROVE Way(k)
  <2>1. /\ archive[k].path \in Name /\ Above[archive[k].path] \subseteq Name
        /\ Len(archive) \in Nat
    BY <1>1, <1>3, DeliveredIs
  <2>2. pos = Start(1)
    BY <1>1, StartIs DEF TypeOK, Init
  <2>3. \A i \in 1..k : Ahead(i)
    BY <2>1, <2>2 DEF Ahead, Init
  <2> QED
    BY <2>1, <2>3 DEF Way, Came, Clear, Made, Init
<1> QED
  BY <1>1, <1>2, <1>3 DEF DeliveryInv

LEMMA DeliveryNext == DeliveryInv /\ [Next]_vars => DeliveryInv'
<1> SUFFICES ASSUME DeliveryInv, [Next]_vars PROVE DeliveryInv'
  OBVIOUS
<1>1. TypeOK /\ TypeOK' /\ OnTrack /\ NotBefore
  BY TypeNext DEF DeliveryInv
<1>2. UNCHANGED <<archive, cut>>
  BY <1>1, Turns, TurnMoves DEF ReadEnd, vars
<1>3. /\ \A j : Start(j)' = Start(j) /\ Delivered(j)' = Delivered(j)
      /\ SizesRead' = SizesRead /\ Torn' = Torn
  BY <1>2, Frozen
<1>4. ASSUME NEW h, Turn(h) PROVE DeliveryInv'
  <2>1. OnTrack' /\ NotBefore'
    BY <1>1, <1>4, OnTrackNext, NotBeforeNext
  <2>2. pos # Eof
    BY <1>4 DEF Turn, More
  <2>3. CASE \E m : EntryTurn(m, h)
    <3>1. PICK m : EntryTurn(m, h)
      BY <2>3
    <3>2. ~Spoiled'
      BY <1>1, <1>3, <3>1, TornStays DEF Spoiled, Eof
    <3>3. ASSUME NEW k \in 1..Len(archive), Delivered(k) PROVE Way(k)'
      <4>1. Way(k)
        BY <2>2, <3>3 DEF DeliveryInv, Spoiled
      <4>2. Came(k)' /\ Clear(k)' /\ Made(k)'
        BY <1>1, <3>1, <3>3, <4>1, CameNext, ClearNext, MadeNext
      <4> QED
        BY <4>2 DEF Way
    <3> QED
      BY <1>1, <1>2, <1>3, <2>1, <3>2, <3>3 DEF DeliveryInv
  <2>4. CASE \E m : TornTurn(m, h)
    <3>1. PICK m : TornTurn(m, h)
      BY <2>4
    <3>2. Spoiled'
      BY <1>1, <1>3, <3>1, TornIs DEF Spoiled, Eof
    <3>3. Kept'
      BY <1>2, <1>3, <3>1, TornCosts DEF Kept
    <3> QED
      BY <1>1, <2>1, <3>2, <3>3 DEF DeliveryInv
  <2>5. CASE ~SizesRead
    <3>1. ~Torn /\ \A k : ~Delivered(k)
      BY <2>5 DEF Torn, Delivered
    <3> QED
      BY <1>1, <1>2, <1>3, <2>1, <3>1 DEF DeliveryInv, Spoiled
  <2> QED
    BY <1>1, <1>4, <2>3, <2>4, <2>5, TurnIs
<1>5. CASE (pc = "reading" /\ ReadEnd) \/ UNCHANGED vars
  <2>1. UNCHANGED <<pos, data, file, dirs>> /\ (pc' = "done" \/ pc' = pc)
    BY <1>5 DEF ReadEnd, vars
  <2>2. NotBefore' /\ OnTrack' /\ Spoiled' = Spoiled /\ Kept' = Kept
    BY <1>1, <1>2, <1>3, <2>1 DEF NotBefore, OnTrack, Spoiled, Kept, Intact
  <2>3. Spoiled => pc' = "thrown" \/ Kept
    BY <1>5 DEF DeliveryInv, vars
  <2>4. ASSUME ~Spoiled, NEW k \in 1..Len(archive), Delivered(k) PROVE Way(k)'
    <3>1. Way(k)
      BY <2>4 DEF DeliveryInv
    <3>2. CASE UNCHANGED vars
      BY <1>2, <1>3, <2>1, <3>1, <3>2 DEF Way, Came, Clear, Made, Ahead, Intact, vars
    <3>3. CASE pc = "reading" /\ ReadEnd
      <4>1. ~Ahead(k)
        BY <1>1, <2>4, <3>3, NotTheEnd
      <4>2. Intact(k)
        BY <3>1, <3>3, <4>1 DEF Way, Came
      <4>3. Came(k)' /\ Clear(k)'
        BY <1>2, <2>1, <3>1, <4>2 DEF Way, Came, Clear, Intact
      <4>4. ASSUME NEW i \in 1..(k - 1) PROVE ~Ahead(i)
        <5>1. Len(archive) \in Nat
          BY <1>1, StartIs DEF TypeOK
        <5> QED
          BY <4>1, <5>1 DEF Ahead
      <4>5. Made(k)'
        BY <1>2, <2>1, <3>1, <3>3, <4>4 DEF Way, Made
      <4> QED
        BY <4>3, <4>5 DEF Way
    <3> QED
      BY <1>5, <3>2, <3>3
  <2> QED
    BY <1>1, <1>2, <1>3, <2>2, <2>3, <2>4 DEF DeliveryInv
<1> QED
  BY <1>4, <1>5, Turns

LEMMA DeliveryAlways == Spec => []DeliveryInv
  BY DeliveryInit, DeliveryNext, PTL DEF Spec

(* DeliveredIsIntact: when the reader is done, every file whose body       *)
(* arrived and that nothing else claims is on the disk, whole and unmixed; *)
(* of an archive that is cut within a header, all of them but one at most. *)
THEOREM IntactDelivery == Spec => []DeliveredIsIntact
<1>1. DeliveryInv => DeliveredIsIntact
  <2> SUFFICES ASSUME DeliveryInv, pc = "done"
               PROVE  Lost = {} \/ (Torn /\ \E k \in Lost : Lost = {k})
    BY DEF DeliveredIsIntact
  <2>1. CASE Spoiled
    <3>1. PICK l : \A k \in 1..Len(archive) : Delivered(k) /\ k # l => Intact(k)
      BY <2>1 DEF DeliveryInv, Kept
    <3>2. Lost \subseteq {l}
      BY <3>1 DEF Lost
    <3> QED
      BY <2>1, <3>2 DEF Spoiled
  <2>2. CASE ~Spoiled
    BY <2>2 DEF DeliveryInv, Way, Came, Ahead, Lost
  <2> QED
    BY <2>1, <2>2
<1> QED
  BY <1>1, DeliveryAlways, PTL

-----------------------------------------------------------------------------
(* The file of an entry does not hold its body before the entry is read.   *)
LEMMA NotYet ==
  ASSUME DeliveryInv, NEW k \in 1..Len(archive), Delivered(k),
         NEW m, NEW h, EntryTurn(m, h), m <= k
  PROVE  ~Intact(k)
<1> SUFFICES ASSUME Intact(k) PROVE FALSE
  OBVIOUS
<1> DEFINE body == [j \in 1..SizeOf(archive[k]) |-> k]
<1>1. /\ SizeOf(archive[k]) \in Nat /\ SizeOf(archive[k]) > 0 /\ SizesRead
      /\ m \in 1..Len(archive) /\ pos = Start(m) /\ Len(archive) \in Nat
      /\ archive[k].path \in Name /\ body # Absent
  BY EntryIs, DeliveredIs DEF DeliveryInv
<1>2. file[archive[k].path] = body
  BY DEF Intact
<1>3. Len(body) = SizeOf(archive[k]) /\ 1 \in 1..Len(body) /\ body[1] = k
  BY <1>1
<1> HIDE DEF body
<1>4. body[1] < m
  BY <1>1, <1>2, <1>3 DEF DeliveryInv, NotBefore
<1> QED
  BY <1>1, <1>3, <1>4

(* A turn that takes an entry brings at most that one, and takes none away. *)
LEMMA TurnDelivers ==
  ASSUME DeliveryInv, NEW k \in 1..Len(archive), Delivered(k),
         NEW m, NEW h, EntryTurn(m, h)
  PROVE  /\ Intact(k) => Intact(k)'
         /\ Intact(k)' => Intact(k) \/ (k = m /\ pc' = "reading")
<1>1. /\ TypeOK /\ Len(archive) \in Nat /\ m \in 1..Len(archive)
      /\ pc = "reading" /\ UNCHANGED <<archive, cut>> /\ h = archive[m]
      /\ pos = Start(m) /\ Turn(h)
      /\ archive[k].path \in Name /\ SizesRead
      /\ SizeOf(archive[k]) \in Nat /\ SizeOf(archive[k]) > 0
  BY EntryIs, DeliveredIs DEF DeliveryInv, EntryTurn
<1>2. CASE file'[archive[k].path] = file[archive[k].path]
  BY <1>1, <1>2 DEF Intact
<1>3. CASE file'[archive[k].path] # file[archive[k].path]
  <2>1. /\ file' = [file EXCEPT ![h.path] = data'] /\ pc' = "reading"
    BY <1>1, <1>3, TurnWrites
  <2>2. h.path = archive[k].path /\ file'[archive[k].path] = data'
    BY <1>1, <1>3, <2>1 DEF TypeOK
  <2>3. m <= k
    <3>1. m # k => m < k
      BY <1>1, <2>2 DEF Delivered
    <3> QED
      BY <1>1, <3>1
  <2>4. ~Intact(k)
    BY <2>3, NotYet
  <2>5. ASSUME Intact(k)', k # m PROVE FALSE
    <3>1. data' = [j \in 1..SizeOf(archive[k]) |-> k]
      BY <1>1, <2>2, <2>5 DEF Intact
    <3>2. 1 \in 1..Len(data') /\ data'[1] = k
      BY <1>1, <3>1
    <3>3. \/ data'[1] \in {0, m}
          \/ 1 \in 1..Len(data) /\ data'[1] = data[1]
      BY <1>1, <3>2, EntryIs
    <3>4. k > m /\ k # 0
      BY <1>1, <2>3, <2>5
    <3>5. \A i \in 1..Len(data) : data[i] < m
      BY <1>1 DEF DeliveryInv, NotBefore
    <3> QED
      BY <1>1, <3>2, <3>3, <3>4, <3>5
  <2> QED
    BY <2>1, <2>4, <2>5
<1> QED
  BY <1>2, <1>3

(* Every step of the reader is a delivery, the loss that a torn header may *)
(* cost, the end, an exception or no step of Delivery: what came stays,    *)
(* and the end comes when all is there.                                    *)
THEOREM Refinement == Spec => ImplementsDelivery
<1> DEFINE wanted == {k \in 1..Len(archive) : Delivered(k)}
           have == {k \in 1..Len(archive) : Delivered(k) /\ Intact(k)}
           state == IF pc = "reading" /\ Torn /\ pos = Eof THEN "ending" ELSE pc
           absvars == <<wanted, have, Torn, state>>
<1>1. Init => Reading!Init
  <2> SUFFICES ASSUME Init PROVE Reading!Init
    OBVIOUS
  <2>1. TypeOK /\ state = "reading"
    BY TypeInit DEF Init, Eof
  <2>2. ASSUME NEW k \in 1..Len(archive), Delivered(k) PROVE ~Intact(k)
    BY <2>1, <2>2, DeliveredIs DEF Init, Intact
  <2> QED
    BY <2>1, <2>2 DEF Reading!Init
<1>2. DeliveryInv /\ [Next]_vars => [Reading!Next]_absvars
  <2> SUFFICES ASSUME DeliveryInv, [Next]_vars PROVE [Reading!Next]_absvars
    OBVIOUS
  <2>1. TypeOK /\ OnTrack
    BY DEF DeliveryInv
  <2>2. UNCHANGED <<archive, cut>>
    BY <2>1, Turns, TurnMoves DEF ReadEnd, vars
  <2>3. /\ wanted' = wanted /\ Torn' = Torn
        /\ \A k : Delivered(k)' = Delivered(k)
        /\ have' = {k \in 1..Len(archive) : Delivered(k) /\ Intact(k)'}
    BY <2>2, Frozen
  <2>4. ASSUME NEW h, Turn(h) PROVE [Reading!Next]_absvars
    <3>1. /\ pc = "reading" /\ pc' \in {"reading", "thrown"} /\ pos # Eof
          /\ state = "reading"
      BY <2>1, <2>4, TurnWrites DEF Turn, More
    <3>2. CASE \E m : EntryTurn(m, h)
      <4>1. PICK m : EntryTurn(m, h)
        BY <3>2
      <4>2. state' = pc' /\ m \in 1..Len(archive)
        BY <2>1, <2>3, <4>1, TornStays DEF Eof, EntryTurn
      <4>3. \A k \in 1..Len(archive) : Delivered(k) =>
              /\ Intact(k) => Intact(k)'
              /\ Intact(k)' => Intact(k) \/ (k = m /\ pc' = "reading")
        BY <4>1, TurnDelivers
      <4>4. \/ have' = have
            \/ have' = have \cup {m} /\ m \in wanted \ have /\ pc' = "reading"
        <5>1. CASE m \in have' /\ m \notin have
          BY <2>3, <4>3, <5>1
        <5>2. CASE m \in have \/ m \notin have'
          BY <2>3, <4>3, <5>2
        <5> QED
          BY <5>1, <5>2
      <4> HIDE DEF wanted, have, state
      <4>5. CASE pc' = "reading"
        BY <2>3, <3>1, <4>2, <4>4, <4>5
        DEF Reading!Next, Reading!Deliver, wanted, have, state
      <4>6. CASE pc' = "thrown"
        BY <2>3, <3>1, <4>2, <4>4, <4>6
        DEF Reading!Next, Reading!Throw, wanted, have, state
      <4> QED
        BY <3>1, <4>5, <4>6
    <3>3. CASE \E m : TornTurn(m, h)
      <4>1. PICK m : TornTurn(m, h)
        BY <3>3
      <4>2. Torn /\ pos' = Eof
        BY <2>1, <4>1, TornIs
      <4>3. have = wanted
        BY <4>1, TornCosts
      <4>4. have' \subseteq have
        BY <2>3, <4>3
      <4>5. CASE pc' = "thrown"
        <5>1. have' = have
          BY <2>3, <4>1, <4>5, TornCosts
        <5>2. state' = "thrown"
          BY <4>5
        <5> HIDE DEF wanted, have, state
        <5> QED
          BY <2>3, <3>1, <5>1, <5>2
          DEF Reading!Next, Reading!Throw, wanted, have, state
      <4>6. CASE pc' = "reading"
        <5>1. PICK l \in 0..Len(archive) :
                \A k \in 1..Len(archive) : Delivered(k) /\ k # l => Intact(k)'
          BY <4>1, TornCosts
        <5>2. have' = have \/ \E k \in have : have' = have \ {k}
          <6>1. have \ {l} \subseteq have'
            BY <2>3, <5>1
          <6> QED
            BY <4>4, <6>1
        <5>3. state' = "ending"
          BY <2>3, <4>2, <4>6 DEF Eof
        <5> HIDE DEF wanted, have, state
        <5> QED
          BY <2>3, <3>1, <4>2, <4>3, <5>2, <5>3
          DEF Reading!Next, Reading!Spoil, wanted, have, state
      <4> QED
        BY <3>1, <4>5, <4>6
    <3>4. CASE ~SizesRead
      <4>1. ~Torn /\ wanted = {} /\ have = {} /\ have' = {}
        BY <2>3, <3>4 DEF Torn, Delivered
      <4>2. state' = pc'
        BY <2>3, <4>1
      <4> HIDE DEF wanted, have, state
      <4> QED
        BY <2>3, <3>1, <4>1, <4>2
        DEF Reading!Next, Reading!Throw, wanted, have, state
    <3> QED
      BY <2>1, <2>4, <3>2, <3>3, <3>4, TurnIs
  <2>5. CASE pc = "reading" /\ ReadEnd
    <3>1. state = "reading" => have = wanted
      BY <2>1, <2>5, NotTheEnd DEF DeliveryInv, Spoiled, Way, Came
    <3>2. UNCHANGED have /\ state' = "done"
      BY <2>2, <2>5, Frozen DEF ReadEnd, Intact
    <3>3. state \in {"reading", "ending"}
      BY <2>5
    <3> HIDE DEF wanted, have, state
    <3> QED
      BY <2>3, <3>1, <3>2, <3>3
      DEF Reading!Next, Reading!Close, wanted, have, state
  <2>6. CASE UNCHANGED vars
    <3>1. UNCHANGED have /\ state' = state
      BY <2>2, <2>3, <2>6 DEF vars, Intact
    <3> QED
      BY <2>3, <3>1
  <2> QED
    BY <2>4, <2>5, <2>6, Turns
<1> QED
  BY <1>1, <1>2, DeliveryAlways, PTL DEF Spec, ImplementsDelivery, Reading!Spec
=============================================================================
