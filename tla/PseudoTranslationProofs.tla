---------------------- MODULE PseudoTranslationProofs ----------------------
(***************************************************************************)
(* Lemmas about PseudoTranslation: what the native engine makes of a block *)
(* a reader handed over is whole, what is not to be translated comes       *)
(* through, and both engines translate a block whose sides agree as the    *)
(* reference does. ParitySuiteProofs states them as theorems of the suite. *)
(***************************************************************************)
EXTENDS PseudoTranslation, SequenceTheorems, FiniteSetTheorems, WellFoundedInduction, TLAPS

-----------------------------------------------------------------------------
(* Induction, maxima.                                                        *)

\* Induction over the natural numbers, of a set.
LEMMA AllNaturals ==
  ASSUME NEW T, 0 \in T, \A n \in Nat : n \in T => n + 1 \in T
  PROVE  \A n \in Nat : n \in T
<1> SUFFICES ASSUME Nat \ T # {} PROVE FALSE
  OBVIOUS
<1>1. PICK x \in Nat \ T : \A y \in Nat \ T : ~(<<y, x>> \in OpToRel(<, Nat))
  BY NatLessThanWellFounded, WFMin
<1>2. x \in Nat \ T /\ \A y \in Nat \ T : ~(y < x)
  BY <1>1 DEF OpToRel
<1>3. x # 0 /\ x - 1 \in Nat /\ x - 1 < x
  BY <1>2
<1>4. x - 1 \in T
  BY <1>2, <1>3
<1> QED BY <1>2, <1>3, <1>4

\* Some of the first n places have a last one.
LEMMA Greatest ==
  ASSUME NEW n \in Nat, NEW S \in SUBSET (1..n), S # {}
  PROVE  Max(S) \in S
<1> DEFINE T == {k \in Nat : \A s \in SUBSET (1..k) : s # {} => \E x \in s : \A y \in s : x >= y}
<1>1. 0 \in T
  <2>1. \A s \in SUBSET (1..0) : s = {}
    OBVIOUS
  <2> QED BY <2>1
<1>2. ASSUME NEW k \in Nat, k \in T PROVE k + 1 \in T
  <2> SUFFICES ASSUME NEW s \in SUBSET (1..(k + 1)), s # {} PROVE \E x \in s : \A y \in s : x >= y
    OBVIOUS
  <2>1. CASE k + 1 \in s
    BY <2>1
  <2>2. CASE k + 1 \notin s
    <3>1. s \in SUBSET (1..k)
      BY <2>2
    <3> QED BY <1>2, <3>1
  <2> QED BY <2>1, <2>2
<1>3. \A k \in Nat : k \in T
  <2> HIDE DEF T
  <2> QED BY <1>1, <1>2, AllNaturals
<1>4. \E x \in S : \A y \in S : x >= y
  BY <1>3
<1> QED BY <1>4 DEF Max

-----------------------------------------------------------------------------
(* Sequences put one behind the other.                                       *)

Concatenates(h, ss, n) == h = [i \in 1..n |-> IF i = 1 THEN ss[i] ELSE h[i - 1] \o ss[i]]
Prefix(ss, n) == [j \in 1..n |-> ss[j]]
Flat(ss, n) == FlattenSeq(Prefix(ss, n))

LEMMA FlattenExists ==
  ASSUME NEW ss, NEW n \in Nat
  PROVE  \E h : Concatenates(h, ss, n)
<1> DEFINE T == {k \in Nat : \E h : Concatenates(h, ss, k)}
<1>1. 0 \in T
  <2> DEFINE g == [i \in 1..0 |-> <<>>]
  <2>1. Concatenates(g, ss, 0)
    BY DEF Concatenates
  <2> HIDE DEF g
  <2> QED BY <2>1
<1>2. ASSUME NEW k \in Nat, k \in T PROVE k + 1 \in T
  <2>1. PICK h : Concatenates(h, ss, k)
    BY <1>2
  <2> DEFINE g == [i \in 1..(k + 1) |-> IF i = 1 THEN ss[i] ELSE h[i - 1] \o ss[i]]
  <2>2. \A i \in 1..k : g[i] = h[i]
    <3>1. \A i \in 1..k : h[i] = IF i = 1 THEN ss[i] ELSE h[i - 1] \o ss[i]
      BY <2>1 DEF Concatenates
    <3> QED BY <3>1
  <2>3. Concatenates(g, ss, k + 1)
    <3>1. \A i \in 1..(k + 1) : i # 1 => i - 1 \in 1..k
      OBVIOUS
    <3>2. \A i \in 1..(k + 1) : (IF i = 1 THEN ss[i] ELSE h[i - 1] \o ss[i])
                                  = (IF i = 1 THEN ss[i] ELSE g[i - 1] \o ss[i])
      <4> HIDE DEF g
      <4> QED BY <2>2, <3>1
    <3>3. g = [i \in 1..(k + 1) |-> IF i = 1 THEN ss[i] ELSE g[i - 1] \o ss[i]]
      <4> SUFFICES [i \in 1..(k + 1) |-> IF i = 1 THEN ss[i] ELSE h[i - 1] \o ss[i]]
                     = [i \in 1..(k + 1) |-> IF i = 1 THEN ss[i] ELSE g[i - 1] \o ss[i]]
        OBVIOUS
      <4> HIDE DEF g
      <4> QED BY <3>2
    <3> HIDE DEF g
    <3> QED BY <3>3 DEF Concatenates
  <2>4. k + 1 \in Nat
    OBVIOUS
  <2> HIDE DEF g
  <2> QED BY <2>3, <2>4
<1> HIDE DEF T
<1>3. \A k \in Nat : k \in T
  BY <1>1, <1>2, AllNaturals
<1> QED BY <1>3 DEF T

\* A prefix is put together with the next piece to the next prefix.
LEMMA Flattens ==
  ASSUME NEW R, NEW ss \in Seq(Seq(R))
  PROVE  /\ Flat(ss, 0) = <<>> /\ Flat(ss, Len(ss)) = FlattenSeq(ss)
         /\ \A n \in 1..Len(ss) : Flat(ss, n) = Flat(ss, n - 1) \o ss[n]
         /\ \A n \in 0..Len(ss) : Flat(ss, n) \in Seq(R)
<1> DEFINE N == Len(ss)
<1>1. N \in Nat /\ ss \in [1..N -> Seq(R)]
  OBVIOUS
<1>2. \A n \in 0..N : Prefix(ss, n) \in Seq(Seq(R)) /\ Len(Prefix(ss, n)) = n
  BY <1>1 DEF Prefix
<1>3. Prefix(ss, N) = ss
  BY <1>1 DEF Prefix
<1>4. Flat(ss, 0) = <<>>
  <2>1. Prefix(ss, 0) = <<>>
    BY DEF Prefix
  <2> QED BY <2>1 DEF Flat, FlattenSeq
<1>5. PICK h : Concatenates(h, ss, N)
  BY <1>1, FlattenExists
<1>6. \A n \in 1..N : h[n] = IF n = 1 THEN ss[n] ELSE h[n - 1] \o ss[n]
  BY <1>5 DEF Concatenates
<1>7. ASSUME NEW n \in 1..N PROVE Flat(ss, n) = h[n]
  <2> DEFINE p == Prefix(ss, n)
             g == CHOOSE f : Concatenates(f, p, n)
  <2>1. Len(p) = n /\ Len(p) # 0
    BY <1>2
  <2>2. FlattenSeq(p) = g[n]
    <3> HIDE DEF p
    <3> QED BY <2>1 DEF FlattenSeq, Concatenates
  <2>3. Concatenates(g, p, n)
    <3>1. n \in Nat
      BY <1>1
    <3> HIDE DEF p
    <3> QED BY <3>1, FlattenExists
  <2>4. \A i \in 1..n : p[i] = ss[i]
    BY DEF Prefix
  <2>5. \A i \in 1..n : g[i] = IF i = 1 THEN ss[i] ELSE g[i - 1] \o ss[i]
    <3>1. \A i \in 1..n : g[i] = IF i = 1 THEN p[i] ELSE g[i - 1] \o p[i]
      <4> HIDE DEF p, g
      <4> QED BY <2>3 DEF Concatenates
    <3> HIDE DEF p, g
    <3> QED BY <2>4, <3>1
  <2> DEFINE T == {k \in Nat : k + 1 <= n => g[k + 1] = h[k + 1]}
  <2>6. 0 \in T
    <3> HIDE DEF g
    <3> QED BY <1>6, <2>5
  <2>7. ASSUME NEW k \in Nat, k \in T PROVE k + 1 \in T
    <3> SUFFICES ASSUME k + 2 <= n PROVE g[k + 2] = h[k + 2]
      OBVIOUS
    <3>1. g[k + 1] = h[k + 1]
      BY <2>7
    <3> HIDE DEF g
    <3>2. g[k + 2] = g[k + 1] \o ss[k + 2] /\ h[k + 2] = h[k + 1] \o ss[k + 2]
      <4>1. k + 2 \in 1..n /\ k + 2 \in 1..N /\ k + 2 # 1 /\ (k + 2) - 1 = k + 1
        BY <1>1
      <4> HIDE DEF N
      <4> QED BY <1>6, <2>5, <4>1
    <3> QED BY <3>1, <3>2
  <2>8. \A k \in Nat : k \in T
    <3> HIDE DEF T
    <3> QED BY <2>6, <2>7, AllNaturals
  <2>9. g[n] = h[n]
    <3>1. n - 1 \in Nat /\ (n - 1) + 1 = n
      OBVIOUS
    <3> HIDE DEF g, N
    <3> QED BY <2>8, <3>1
  <2> QED BY <2>2, <2>9 DEF Flat
<1>8. \A n \in 1..N : Flat(ss, n) = Flat(ss, n - 1) \o ss[n]
  <2> SUFFICES ASSUME NEW n \in 1..N PROVE Flat(ss, n) = Flat(ss, n - 1) \o ss[n]
    OBVIOUS
  <2>1. CASE n = 1
    <3>1. ss[n] \in Seq(R)
      BY <1>1
    <3>2. Flat(ss, n - 1) = <<>>
      BY <1>4, <2>1
    <3>3. Flat(ss, n) = ss[n]
      BY <1>6, <1>7, <2>1
    <3> HIDE DEF N
    <3> QED BY <3>1, <3>2, <3>3, ConcatEmptySeq
  <2>2. CASE n # 1
    <3>1. n - 1 \in 1..N
      BY <1>1, <2>2
    <3> HIDE DEF N
    <3> QED BY <1>6, <1>7, <2>2, <3>1
  <2> QED BY <2>1, <2>2
<1>9. \A n \in 0..N : Flat(ss, n) \in Seq(R)
  <2> DEFINE T == {k \in Nat : k <= N => Flat(ss, k) \in Seq(R)}
  <2>1. 0 \in T
    BY <1>4, EmptySeq
  <2>2. ASSUME NEW k \in Nat, k \in T PROVE k + 1 \in T
    <3> SUFFICES ASSUME k + 1 <= N PROVE Flat(ss, k + 1) \in Seq(R)
      OBVIOUS
    <3>1. k + 1 \in 1..N /\ (k + 1) - 1 = k
      BY <1>1
    <3>2. Flat(ss, k) \in Seq(R) /\ ss[k + 1] \in Seq(R)
      BY <1>1, <2>2, <3>1
    <3>3. Flat(ss, k + 1) = Flat(ss, k) \o ss[k + 1]
      BY <1>8, <3>1
    <3> HIDE DEF N
    <3> QED BY <3>2, <3>3, ConcatProperties
  <2>3. \A k \in Nat : k \in T
    <3> HIDE DEF T
    <3> QED BY <2>1, <2>2, AllNaturals
  <2> QED BY <2>3
<1> QED BY <1>3, <1>4, <1>8, <1>9 DEF Flat

\* How long the first n pieces are together.
Size(ss, n) == Len(Flat(ss, n))

\* A prefix starts every longer one.
LEMMA Grows ==
  ASSUME NEW R, NEW ss \in Seq(Seq(R)), NEW n \in 0..Len(ss), NEW m \in n..Len(ss)
  PROVE  /\ Size(ss, n) \in Nat /\ Size(ss, m) \in Nat /\ Size(ss, n) <= Size(ss, m)
         /\ \A x \in 1..Size(ss, n) : Flat(ss, m)[x] = Flat(ss, n)[x]
<1> DEFINE N == Len(ss)
           T == {k \in Nat : n + k <= N =>
                   /\ Size(ss, n + k) \in Nat /\ Size(ss, n) <= Size(ss, n + k)
                   /\ \A x \in 1..Size(ss, n) : Flat(ss, n + k)[x] = Flat(ss, n)[x]}
<1>1. N \in Nat /\ n \in Nat /\ m \in Nat /\ m - n \in Nat /\ n + (m - n) = m
  OBVIOUS
<1>2. \A k \in 0..N : Flat(ss, k) \in Seq(R) /\ Size(ss, k) \in Nat
  <2>1. \A k \in 0..N : Flat(ss, k) \in Seq(R)
    BY Flattens
  <2> QED BY <2>1, LenProperties DEF Size
<1>3. 0 \in T
  <2>1. n + 0 = n
    BY <1>1
  <2> HIDE DEF N
  <2> QED BY <1>1, <1>2, <2>1
<1>4. ASSUME NEW k \in Nat, k \in T PROVE k + 1 \in T
  <2> SUFFICES ASSUME n + (k + 1) <= N
               PROVE  /\ Size(ss, n + (k + 1)) \in Nat /\ Size(ss, n) <= Size(ss, n + (k + 1))
                      /\ \A x \in 1..Size(ss, n) : Flat(ss, n + (k + 1))[x] = Flat(ss, n)[x]
    OBVIOUS
  <2> DEFINE a == n + k
             b == n + (k + 1)
  <2>1. a \in 0..N /\ b \in 1..N /\ b - 1 = a
    BY <1>1
  <2>2. Size(ss, n) <= Size(ss, a) /\ \A x \in 1..Size(ss, n) : Flat(ss, a)[x] = Flat(ss, n)[x]
    BY <1>4, <2>1
  <2>3. Flat(ss, b) = Flat(ss, a) \o ss[b] /\ ss[b] \in Seq(R)
    <3>1. \A i \in 1..N : Flat(ss, i) = Flat(ss, i - 1) \o ss[i] /\ ss[i] \in Seq(R)
      BY Flattens, ElementOfSeq
    <3> HIDE DEF a, b, N
    <3> QED BY <2>1, <3>1
  <2>4. Flat(ss, a) \in Seq(R) /\ Size(ss, a) \in Nat /\ Size(ss, b) \in Nat /\ Size(ss, n) \in Nat
    BY <1>1, <1>2, <2>1
  <2> HIDE DEF a, b, N
  <2>5. /\ Len(Flat(ss, b)) = Len(Flat(ss, a)) + Len(ss[b])
        /\ \A x \in 1..Len(Flat(ss, a)) : Flat(ss, b)[x] = Flat(ss, a)[x]
    BY <2>3, <2>4, ConcatProperties
  <2>6. Size(ss, a) <= Size(ss, b)
    <3>1. Len(ss[b]) \in Nat
      BY <2>3
    <3> QED BY <2>4, <2>5, <3>1 DEF Size
  <2>7. Size(ss, n) <= Size(ss, b)
    BY <2>2, <2>4, <2>6
  <2>8. \A x \in 1..Size(ss, n) : Flat(ss, b)[x] = Flat(ss, n)[x]
    <3>1. \A x \in 1..Size(ss, n) : x \in 1..Size(ss, a)
      BY <2>2, <2>4
    <3> QED BY <2>2, <2>5, <3>1 DEF Size
  <2> QED BY <2>4, <2>7, <2>8 DEF b
<1>5. \A k \in Nat : k \in T
  <2> HIDE DEF T
  <2> QED BY <1>3, <1>4, AllNaturals
<1>6. /\ Size(ss, m) \in Nat /\ Size(ss, n) <= Size(ss, m)
      /\ \A x \in 1..Size(ss, n) : Flat(ss, m)[x] = Flat(ss, n)[x]
  <2>1. m <= N
    OBVIOUS
  <2>2. m - n \in T
    <3> HIDE DEF T
    <3> QED BY <1>1, <1>5
  <2> HIDE DEF N
  <2> QED BY <1>1, <2>1, <2>2
<1> QED BY <1>1, <1>2, <1>6

\* Where the elements of a piece are, and that every place belongs to one.
LEMMA Lies ==
  ASSUME NEW R, NEW ss \in Seq(Seq(R))
  PROVE  LET all == FlattenSeq(ss)
         IN /\ all \in Seq(R) /\ Len(all) = Size(ss, Len(ss)) /\ Size(ss, 0) = 0
            /\ \A n \in 1..Len(ss) :
                 /\ Size(ss, n) = Size(ss, n - 1) + Len(ss[n]) /\ Size(ss, n) <= Len(all)
                 /\ \A k \in 1..Len(ss[n]) : /\ Size(ss, n - 1) + k \in 1..Len(all)
                                             /\ all[Size(ss, n - 1) + k] = ss[n][k]
            /\ \A x \in 1..Len(all) : \E n \in 1..Len(ss) : Size(ss, n - 1) < x /\ x <= Size(ss, n)
<1> DEFINE all == FlattenSeq(ss)
           N == Len(ss)
<1>1. N \in Nat /\ all \in Seq(R) /\ all = Flat(ss, N) /\ Len(all) = Size(ss, N)
  <2>1. N \in Nat /\ N \in 0..N
    OBVIOUS
  <2>2. Flat(ss, N) = all
    BY Flattens
  <2>3. \A n \in 0..N : Flat(ss, n) \in Seq(R)
    BY Flattens
  <2> HIDE DEF all, N
  <2> QED BY <2>1, <2>2, <2>3 DEF Size
<1>2. Size(ss, 0) = 0
  <2>1. Flat(ss, 0) = <<>>
    BY Flattens
  <2> QED BY <2>1 DEF Size
<1>3. \A n \in 0..N : Flat(ss, n) \in Seq(R) /\ Size(ss, n) \in Nat /\ Size(ss, n) <= Size(ss, N)
  <2>1. \A n \in 0..N : N \in n..N
    BY <1>1
  <2> QED BY <2>1, Grows, Flattens
<1>4. ASSUME NEW n \in 1..N
      PROVE  /\ Size(ss, n) = Size(ss, n - 1) + Len(ss[n]) /\ Size(ss, n) <= Len(all)
             /\ \A k \in 1..Len(ss[n]) : /\ Size(ss, n - 1) + k \in 1..Len(all)
                                         /\ all[Size(ss, n - 1) + k] = ss[n][k]
  <2> DEFINE b == n - 1
  <2>1. b \in 0..N /\ n \in 0..N /\ N \in n..N
    BY <1>1
  <2>2. Flat(ss, n) = Flat(ss, b) \o ss[n] /\ ss[n] \in Seq(R) /\ Flat(ss, b) \in Seq(R) /\ Len(ss[n]) \in Nat
    <3>1. Flat(ss, n) = Flat(ss, n - 1) \o ss[n]
      BY Flattens
    <3>2. ss[n] \in Seq(R) /\ Len(ss[n]) \in Nat
      BY ElementOfSeq, LenProperties
    <3> QED BY <1>3, <2>1, <3>1, <3>2
  <2>3. Size(ss, b) \in Nat /\ Size(ss, n) \in Nat /\ Size(ss, n) <= Size(ss, N)
    BY <1>3, <2>1
  <2>4. \A x \in 1..Size(ss, n) : Flat(ss, N)[x] = Flat(ss, n)[x]
    BY <2>1, Grows
  <2> HIDE DEF b, N, all
  <2>5. /\ Len(Flat(ss, n)) = Len(Flat(ss, b)) + Len(ss[n])
        /\ \A x \in 1..(Len(Flat(ss, b)) + Len(ss[n])) :
             Flat(ss, n)[x] = IF x <= Len(Flat(ss, b)) THEN Flat(ss, b)[x] ELSE ss[n][x - Len(Flat(ss, b))]
    BY <2>2, ConcatProperties
  <2>6. Size(ss, n) = Size(ss, b) + Len(ss[n])
    BY <2>5 DEF Size
  <2>7. ASSUME NEW k \in 1..Len(ss[n]) PROVE /\ Size(ss, b) + k \in 1..Len(all)
                                             /\ all[Size(ss, b) + k] = ss[n][k]
    <3> DEFINE x == Size(ss, b) + k
    <3>1. x \in 1..Size(ss, n) /\ ~(x <= Size(ss, b)) /\ x - Size(ss, b) = k /\ x \in 1..Size(ss, N)
      <4>1. Size(ss, N) \in Nat
        BY <1>1
      <4> QED BY <2>2, <2>3, <2>6, <4>1
    <3> HIDE DEF x
    <3>2. Flat(ss, n)[x] = ss[n][k]
      BY <2>5, <3>1 DEF Size
    <3> QED BY <1>1, <2>4, <3>1, <3>2 DEF x
  <2> QED BY <1>1, <2>3, <2>6, <2>7 DEF b
<1>5. ASSUME NEW x \in 1..Len(all) PROVE \E n \in 1..N : Size(ss, n - 1) < x /\ x <= Size(ss, n)
  <2> DEFINE T == {k \in Nat : k <= N /\ x <= Size(ss, k) => \E n \in 1..N : Size(ss, n - 1) < x /\ x <= Size(ss, n)}
  <2>1. 0 \in T
    BY <1>2
  <2>2. ASSUME NEW k \in Nat, k \in T PROVE k + 1 \in T
    <3> SUFFICES ASSUME k + 1 <= N, x <= Size(ss, k + 1)
                 PROVE  \E n \in 1..N : Size(ss, n - 1) < x /\ x <= Size(ss, n)
      OBVIOUS
    <3>1. k \in 0..N /\ k + 1 \in 1..N /\ (k + 1) - 1 = k /\ Size(ss, k) \in Nat
      BY <1>1, <1>3
    <3>2. CASE x <= Size(ss, k)
      <4>1. k <= N
        BY <1>1, <3>1
      <4> QED BY <2>2, <3>2, <4>1
    <3>3. CASE ~(x <= Size(ss, k))
      <4>1. Size(ss, k) < x
        BY <1>1, <3>1, <3>3
      <4> HIDE DEF N, all
      <4> QED BY <3>1, <4>1
    <3> QED BY <3>2, <3>3
  <2>3. \A k \in Nat : k \in T
    <3> HIDE DEF T
    <3> QED BY <2>1, <2>2, AllNaturals
  <2>4. N \in T
    <3> HIDE DEF T, N
    <3> QED BY <1>1, <2>3
  <2>5. N <= N /\ x <= Size(ss, N)
    BY <1>1
  <2> HIDE DEF N, all
  <2> QED BY <2>4, <2>5
<1> QED
  <2> HIDE DEF all, N
  <2>1. /\ all \in Seq(R) /\ Len(all) = Size(ss, N) /\ Size(ss, 0) = 0
        /\ \A n \in 1..N :
             /\ Size(ss, n) = Size(ss, n - 1) + Len(ss[n]) /\ Size(ss, n) <= Len(all)
             /\ \A k \in 1..Len(ss[n]) : /\ Size(ss, n - 1) + k \in 1..Len(all)
                                         /\ all[Size(ss, n - 1) + k] = ss[n][k]
        /\ \A x \in 1..Len(all) : \E n \in 1..N : Size(ss, n - 1) < x /\ x <= Size(ss, n)
    BY <1>1, <1>2, <1>4, <1>5
  <2> QED BY <2>1 DEF all, N

\* A piece can be cut out again.
LEMMA Pieces ==
  ASSUME NEW R, NEW ss \in Seq(Seq(R)), NEW n \in 1..Len(ss)
  PROVE  SubSeq(FlattenSeq(ss), Size(ss, n - 1) + 1, Size(ss, n)) = ss[n]
<1> DEFINE all == FlattenSeq(ss)
           f == Size(ss, n - 1) + 1
           t == Size(ss, n)
           sub == SubSeq(all, f, t)
<1>1. all \in Seq(R) /\ t = Size(ss, n - 1) + Len(ss[n]) /\ t <= Len(all)
  BY Lies
<1>2. \A k \in 1..Len(ss[n]) : Size(ss, n - 1) + k \in 1..Len(all) /\ all[Size(ss, n - 1) + k] = ss[n][k]
  BY Lies
<1>3. ss[n] \in Seq(R) /\ Len(ss[n]) \in Nat /\ Len(ss) \in Nat /\ Len(all) \in Nat
  BY <1>1
<1>4. Size(ss, n - 1) \in Nat
  BY <1>3, Grows
<1> HIDE DEF all
<1>5. f \in Int /\ t \in Int /\ \A i \in f..t : all[i] \in R
  <2>1. \A i \in f..t : i \in 1..Len(all)
    BY <1>1, <1>3, <1>4
  <2> QED BY <1>1, <1>3, <1>4, <2>1
<1>6. sub \in Seq(R) /\ Len(sub) = (IF f <= t THEN t - f + 1 ELSE 0) /\ \A i \in 1..(t - f + 1) : sub[i] = all[f + i - 1]
  <2> HIDE DEF f, t
  <2> QED BY <1>5, SubSeqProperties
<1>7. Len(sub) = Len(ss[n])
  <2> HIDE DEF sub
  <2> QED BY <1>1, <1>3, <1>4, <1>6
<1>8. \A i \in 1..Len(sub) : sub[i] = ss[n][i]
  <2> SUFFICES ASSUME NEW i \in 1..Len(ss[n]) PROVE sub[i] = ss[n][i]
    BY <1>7
  <2>1. i \in 1..(t - f + 1) /\ f + i - 1 = Size(ss, n - 1) + i
    BY <1>1, <1>3, <1>4
  <2> HIDE DEF sub, f, t
  <2> QED BY <1>2, <1>6, <2>1
<1> QED
  <2> HIDE DEF sub
  <2>1. sub = ss[n]
    BY <1>3, <1>6, <1>7, <1>8, SeqEqual
  <2> QED BY <2>1 DEF sub, all

-----------------------------------------------------------------------------
(* Segments and sides.                                                       *)

SegSet == [id : Ids, props : SUBSET Props, runs : Seq(RunSet), ir : Seq(Seq(RunSet))]
RunsOf(segs) == [i \in DOMAIN segs |-> segs[i].runs]
Inline(ir, id) == IF id \in DOMAIN ir THEN <<ir[id]>> ELSE <<>>
Cut(side, ir, sp) == [id |-> sp.id, props |-> sp.props, runs |-> SubSeq(side.runs, sp.from + 1, sp.to),
                      ir |-> Inline(ir, sp.id)]
Anonymous(runs) == [id |-> NoName, props |-> {}, runs |-> runs, ir |-> <<>>]

\* The three forms a side can have.
LEMMA ThreeForms ==
  ASSUME NEW side, NEW ir
  PROVE  /\ side.spans = <<>> /\ side.runs = <<>> => Segments(side, ir) = <<>>
         /\ side.spans = <<>> /\ side.runs # <<>> => Segments(side, ir) = <<Anonymous(side.runs)>>
         /\ side.spans # <<>> => Segments(side, ir) = [i \in DOMAIN side.spans |-> Cut(side, ir, side.spans[i])]
BY DEF Segments, Anonymous, Cut, Inline

LEMMA InlineIsContent ==
  ASSUME NEW ir, IsIR(ir), NEW id
  PROVE  Inline(ir, id) \in Seq(Seq(RunSet))
<1>1. CASE id \in DOMAIN ir
  <2>1. ir[id] \in Seq(RunSet)
    BY <1>1 DEF IsIR
  <2> QED BY <1>1, <2>1 DEF Inline
<1>2. CASE id \notin DOMAIN ir
  BY <1>2, EmptySeq DEF Inline
<1> QED BY <1>1, <1>2

LEMMA MakesSeg ==
  ASSUME NEW id \in Ids, NEW props \in SUBSET Props, NEW runs \in Seq(RunSet), NEW ir \in Seq(Seq(RunSet))
  PROVE  [id |-> id, props |-> props, runs |-> runs, ir |-> ir] \in SegSet
BY DEF SegSet

LEMMA AnonymousIsSeg ==
  ASSUME NEW runs \in Seq(RunSet)
  PROVE  Anonymous(runs) \in SegSet
<1>1. <<>> \in Seq(Seq(RunSet))
  BY EmptySeq
<1> QED BY <1>1, AlphabetAssumption DEF Anonymous, SegSet

LEMMA RunsOfSegs ==
  ASSUME NEW segs \in Seq(SegSet)
  PROVE  /\ RunsOf(segs) \in Seq(Seq(RunSet)) /\ Len(RunsOf(segs)) = Len(segs) /\ DOMAIN RunsOf(segs) = DOMAIN segs
         /\ \A i \in 1..Len(segs) : RunsOf(segs)[i] = segs[i].runs /\ segs[i].runs \in Seq(RunSet)
         /\ Runs(segs) = FlattenSeq(RunsOf(segs)) /\ Runs(segs) \in Seq(RunSet)
<1>1. Len(segs) \in Nat /\ DOMAIN segs = 1..Len(segs) /\ \A i \in 1..Len(segs) : segs[i] \in SegSet
  BY LenProperties, ElementOfSeq
<1>2. \A i \in 1..Len(segs) : segs[i].runs \in Seq(RunSet)
  BY <1>1 DEF SegSet
<1>3. RunsOf(segs) \in [1..Len(segs) -> Seq(RunSet)]
  BY <1>1, <1>2 DEF RunsOf
<1>4. RunsOf(segs) \in Seq(Seq(RunSet)) /\ Len(RunsOf(segs)) = Len(segs)
  BY <1>1, <1>3
<1>5. Runs(segs) = FlattenSeq(RunsOf(segs))
  BY DEF Runs, RunsOf
<1>6. FlattenSeq(RunsOf(segs)) \in Seq(RunSet)
  BY <1>4, Lies
<1> QED BY <1>1, <1>2, <1>4, <1>5, <1>6 DEF RunsOf

LEMMA EndsAre ==
  ASSUME NEW segs \in Seq(SegSet), NEW i \in 1..Len(segs)
  PROVE  Ends(segs)[i] = Size(RunsOf(segs), i)
<1>1. DOMAIN segs = 1..Len(segs) /\ Len(segs) \in Nat
  BY LenProperties
<1>2. [j \in 1..i |-> segs[j].runs] = Prefix(RunsOf(segs), i)
  <2>1. \A j \in 1..i : segs[j].runs = RunsOf(segs)[j]
    BY <1>1 DEF RunsOf
  <2> QED BY <2>1 DEF Prefix
<1> QED BY <1>1, <1>2 DEF Ends, Size, Flat

\* Segments written as a side are read back as they were.
LEMMA ReadBack ==
  ASSUME NEW segs \in Seq(SegSet), segs # <<>>, NEW ir
  PROVE  LET side == Side(Runs(segs), Spans(segs))
         IN /\ Segments(side, ir) = [i \in 1..Len(segs) |-> [id |-> segs[i].id, props |-> segs[i].props,
                                         runs |-> segs[i].runs, ir |-> Inline(ir, segs[i].id)]]
            /\ IsSide(side) /\ side.spans # <<>> /\ Len(side.spans) = Len(segs)
            /\ \A i \in 1..Len(segs) : side.spans[i].id = segs[i].id /\ side.spans[i].props = segs[i].props
<1> DEFINE side == Side(Runs(segs), Spans(segs))
           N == Len(segs)
           ss == RunsOf(segs)
<1>1. N \in Nat /\ N > 0 /\ DOMAIN segs = 1..N /\ \A i \in 1..N : segs[i] \in SegSet
  BY LenProperties, ElementOfSeq, EmptySeq
<1>2. ss \in Seq(Seq(RunSet)) /\ Len(ss) = N /\ Runs(segs) = FlattenSeq(ss) /\ Runs(segs) \in Seq(RunSet)
  BY RunsOfSegs
<1>3. \A i \in 1..N : ss[i] = segs[i].runs
  BY RunsOfSegs
<1>4. side.runs = Runs(segs) /\ side.spans = Spans(segs)
  BY DEF Side
<1>5. ASSUME NEW i \in 1..N
      PROVE  /\ Spans(segs)[i] = Span(segs[i].id, segs[i].props, Size(ss, i - 1), Size(ss, i))
             /\ Size(ss, i - 1) \in Nat /\ Size(ss, i) \in Nat /\ Size(ss, i - 1) <= Size(ss, i)
             /\ Spans(segs)[i] \in SpanSet
  <2>1. Ends(segs)[i] = Size(ss, i)
    BY EndsAre
  <2>2. Size(ss, i) = Size(ss, i - 1) + Len(segs[i].runs)
    <3> HIDE DEF ss
    <3> QED BY <1>2, <1>3, Lies
  <2>3. Len(segs[i].runs) \in Nat
    BY RunsOfSegs, LenProperties
  <2>4. Size(ss, i - 1) \in Nat
    <3>1. i - 1 \in 0..N /\ N \in (i - 1)..N
      BY <1>1
    <3> HIDE DEF ss, N
    <3> QED BY <1>2, <3>1, Grows
  <2>5. Ends(segs)[i] - Len(segs[i].runs) = Size(ss, i - 1)
    <3> HIDE DEF ss
    <3> QED BY <2>1, <2>2, <2>3, <2>4
  <2>6. Spans(segs)[i] = Span(segs[i].id, segs[i].props, Size(ss, i - 1), Size(ss, i))
    <3> HIDE DEF ss, N
    <3> QED BY <1>1, <2>1, <2>5 DEF Spans
  <2>7. segs[i].id \in Ids /\ segs[i].props \in SUBSET Props
    BY <1>1 DEF SegSet
  <2>8. Size(ss, i) \in Nat /\ Size(ss, i - 1) <= Size(ss, i)
    <3> HIDE DEF ss
    <3> QED BY <2>2, <2>3, <2>4
  <2> HIDE DEF ss, N
  <2> QED BY <2>4, <2>6, <2>7, <2>8 DEF Span, SpanSet
<1>6. Spans(segs) \in Seq(SpanSet) /\ Len(Spans(segs)) = N /\ DOMAIN Spans(segs) = 1..N /\ Spans(segs) # <<>>
  <2>1. DOMAIN Spans(segs) = 1..N
    BY <1>1 DEF Spans
  <2>2. Spans(segs) = [i \in 1..N |-> Spans(segs)[i]]
    BY <1>1 DEF Spans
  <2>3. Spans(segs) \in [1..N -> SpanSet]
    <3> HIDE DEF N
    <3> QED BY <1>5, <2>1, <2>2
  <2> HIDE DEF N
  <2>4. Spans(segs) \in Seq(SpanSet) /\ Len(Spans(segs)) = N
    BY <1>1, <2>3
  <2> QED BY <1>1, <2>1, <2>4, EmptySeq
<1>7. ASSUME NEW i \in 1..N PROVE SubSeq(Runs(segs), Size(ss, i - 1) + 1, Size(ss, i)) = segs[i].runs
  <2> HIDE DEF ss
  <2> QED BY <1>2, <1>3, Pieces
<1>12. ASSUME NEW i \in 1..N
       PROVE  /\ side.spans[i].id = segs[i].id /\ side.spans[i].props = segs[i].props
              /\ side.spans[i].from = Size(ss, i - 1) /\ side.spans[i].to = Size(ss, i)
  <2> DEFINE sp == Spans(segs)[i]
  <2>1. sp = Span(segs[i].id, segs[i].props, Size(ss, i - 1), Size(ss, i))
    BY <1>5
  <2>2. side.spans[i] = sp
    BY <1>4
  <2> HIDE DEF ss, side, sp
  <2>3. sp.id = segs[i].id /\ sp.props = segs[i].props /\ sp.from = Size(ss, i - 1) /\ sp.to = Size(ss, i)
    BY <2>1 DEF Span
  <2> QED BY <2>2, <2>3
<1>8. Segments(side, ir) = [i \in 1..N |-> [id |-> segs[i].id, props |-> segs[i].props,
                                 runs |-> segs[i].runs, ir |-> Inline(ir, segs[i].id)]]
  <2>1. Segments(side, ir) = [i \in 1..N |-> Cut(side, ir, side.spans[i])]
    BY <1>4, <1>6, ThreeForms
  <2>2. ASSUME NEW i \in 1..N
        PROVE  Cut(side, ir, side.spans[i]) = [id |-> segs[i].id, props |-> segs[i].props,
                                               runs |-> segs[i].runs, ir |-> Inline(ir, segs[i].id)]
    <3> HIDE DEF ss, side
    <3> QED BY <1>4, <1>7, <1>12 DEF Cut
  <2> HIDE DEF side, N
  <2> QED BY <2>1, <2>2
<1>9. CutsAll(side)
  <2>1. side.spans[1].from = 0
    <3>1. 1 \in 1..N /\ Size(ss, 0) = 0
      BY <1>1, <1>2, Lies
    <3> HIDE DEF ss, side, N
    <3> QED BY <1>4, <1>12, <3>1
  <2>2. side.spans[N].to = Len(side.runs)
    <3>1. N \in 1..N /\ Len(Runs(segs)) = Size(ss, N)
      BY <1>1, <1>2, Lies
    <3> HIDE DEF ss, side, N
    <3> QED BY <1>4, <1>12, <3>1
  <2>3. \A i \in 1..N : side.spans[i].from <= side.spans[i].to
    <3> HIDE DEF ss, side, N
    <3> QED BY <1>5, <1>12
  <2>4. \A i \in 2..N : side.spans[i].from = side.spans[i - 1].to
    <3>1. \A i \in 2..N : i \in 1..N /\ i - 1 \in 1..N
      BY <1>1
    <3> HIDE DEF ss, side, N
    <3> QED BY <1>4, <1>12, <3>1
  <2> HIDE DEF ss, N
  <2> QED BY <1>4, <1>6, <2>1, <2>2, <2>3, <2>4 DEF CutsAll
<1>10. IsSide(side)
  <2>1. side = Side(side.runs, side.spans)
    BY DEF Side
  <2> HIDE DEF side
  <2> QED BY <1>2, <1>4, <1>6, <1>9, <2>1 DEF IsSide
<1>11. \A i \in 1..N : side.spans[i].id = segs[i].id /\ side.spans[i].props = segs[i].props
  BY <1>12
<1> QED BY <1>4, <1>6, <1>8, <1>10, <1>11

\* The segments of a side cover its runs.
LEMMA SegsOfSide ==
  ASSUME NEW side, IsSide(side), NEW ir, IsIR(ir)
  PROVE  LET segs == Segments(side, ir)
         IN /\ segs \in Seq(SegSet) /\ Runs(segs) = side.runs
            /\ side.spans = <<>> /\ side.runs = <<>> => segs = <<>>
            /\ side.spans = <<>> /\ side.runs # <<>> => segs = <<Anonymous(side.runs)>>
            /\ side.spans # <<>> =>
                 /\ Len(segs) = Len(side.spans)
                 /\ \A i \in 1..Len(segs) : /\ segs[i].id = side.spans[i].id /\ segs[i].props = side.spans[i].props
                                            /\ segs[i].ir = Inline(ir, side.spans[i].id)
<1> DEFINE segs == Segments(side, ir)
           spans == side.spans
           N == Len(spans)
<1>1. side.runs \in Seq(RunSet) /\ spans \in Seq(SpanSet) /\ CutsAll(side)
  BY DEF IsSide
<1>2. CASE spans = <<>> /\ side.runs = <<>>
  <2>1. segs = <<>>
    BY <1>2, ThreeForms
  <2>2. Runs(<<>>) = <<>>
    <3>1. [i \in DOMAIN <<>> |-> <<>>[i].runs] = <<>>
      OBVIOUS
    <3> QED BY <3>1 DEF Runs, FlattenSeq
  <2> QED BY <1>2, <2>1, <2>2, EmptySeq
<1>3. CASE spans = <<>> /\ side.runs # <<>>
  <2>1. segs = <<Anonymous(side.runs)>>
    BY <1>3, ThreeForms
  <2>2. segs \in Seq(SegSet) /\ Len(segs) = 1
    BY <1>1, <2>1, AnonymousIsSeg
  <2> HIDE DEF segs
  <2>3. RunsOf(segs) \in Seq(Seq(RunSet)) /\ Len(RunsOf(segs)) = 1 /\ RunsOf(segs)[1] = segs[1].runs
        /\ Runs(segs) = FlattenSeq(RunsOf(segs))
    BY <2>2, RunsOfSegs
  <2>4. segs[1].runs = side.runs
    BY <2>1 DEF Anonymous
  <2> DEFINE ss == RunsOf(segs)
  <2>5. Flat(ss, 0) = <<>> /\ Flat(ss, 1) = FlattenSeq(ss) /\ Flat(ss, 1) = Flat(ss, 0) \o ss[1]
    <3>1. ss \in Seq(Seq(RunSet)) /\ 1 \in 1..Len(ss) /\ Len(ss) = 1
      BY <2>3
    <3> HIDE DEF ss
    <3>2. Flat(ss, 1) = Flat(ss, 1 - 1) \o ss[1]
      BY <3>1, Flattens
    <3>3. Flat(ss, 0) = <<>> /\ Flat(ss, Len(ss)) = FlattenSeq(ss)
      BY <3>1, Flattens
    <3> QED BY <3>1, <3>2, <3>3
  <2>6. Runs(segs) = <<>> \o side.runs
    <3>1. Runs(segs) = FlattenSeq(ss) /\ ss[1] = side.runs
      BY <2>3, <2>4
    <3> HIDE DEF ss
    <3> QED BY <2>5, <3>1
  <2>7. Runs(segs) = side.runs
    BY <1>1, <2>6, ConcatEmptySeq
  <2> QED BY <1>3, <2>1, <2>2, <2>7 DEF segs
<1>4. CASE spans # <<>>
  <2>1. N \in Nat /\ N > 0 /\ DOMAIN spans = 1..N /\ \A i \in 1..N : spans[i] \in SpanSet
    BY <1>1, <1>4, LenProperties, ElementOfSeq, EmptySeq
  <2>2. segs = [i \in 1..N |-> Cut(side, ir, spans[i])]
    BY <1>4, <2>1, ThreeForms
  <2> DEFINE M == Len(side.runs)
             to(n) == IF n = 0 THEN 0 ELSE spans[n].to
  <2>3. M \in Nat /\ \A i \in 1..N : spans[i].from \in Nat /\ spans[i].to \in Nat
    BY <1>1, <2>1, LenProperties DEF SpanSet
  <2>4. \A i \in 1..N : spans[i].from = to(i - 1) /\ to(i - 1) <= to(i)
    <3> SUFFICES ASSUME NEW i \in 1..N PROVE spans[i].from = to(i - 1) /\ to(i - 1) <= to(i)
      OBVIOUS
    <3>1. spans[i].from <= spans[i].to
      BY <1>1, <1>4 DEF CutsAll
    <3>2. CASE i = 1
      BY <1>1, <1>4, <3>1, <3>2 DEF CutsAll
    <3>3. CASE i # 1
      <4>1. i \in 2..N /\ i - 1 # 0
        BY <2>1, <3>3
      <4> QED BY <1>1, <1>4, <3>1, <4>1 DEF CutsAll
    <3> QED BY <3>2, <3>3
  <2>5. to(N) = M
    BY <1>1, <1>4, <2>1 DEF CutsAll
  <2>6. \A n \in 0..N : to(n) \in Nat /\ to(n) <= M
    <3> DEFINE T == {k \in Nat : k <= N => to(N - k) \in Nat /\ to(N - k) <= M}
    <3>1. 0 \in T
      <4>1. N - 0 = N
        BY <2>1
      <4> HIDE DEF to
      <4> QED BY <2>1, <2>3, <2>5, <4>1
    <3>2. ASSUME NEW k \in Nat, k \in T PROVE k + 1 \in T
      <4> SUFFICES ASSUME k + 1 <= N PROVE to(N - (k + 1)) \in Nat /\ to(N - (k + 1)) <= M
        OBVIOUS
      <4>1. N - k \in 1..N /\ (N - k) - 1 = N - (k + 1) /\ k <= N
        BY <2>1
      <4>2. to(N - k) \in Nat /\ to(N - k) <= M
        BY <3>2, <4>1
      <4>3. to((N - k) - 1) <= to(N - k)
        <5> HIDE DEF to, N
        <5> QED BY <2>4, <4>1
      <4>4. to((N - k) - 1) \in Nat
        <5>1. (N - k) - 1 # 0 => (N - k) - 1 \in 1..N
          BY <2>1, <4>1
        <5> QED BY <2>3, <5>1
      <4> HIDE DEF to, N, M
      <4> QED BY <2>3, <4>1, <4>2, <4>3, <4>4
    <3>3. \A k \in Nat : k \in T
      <4> HIDE DEF T
      <4> QED BY <3>1, <3>2, AllNaturals
    <3> SUFFICES ASSUME NEW n \in 0..N PROVE to(n) \in Nat /\ to(n) <= M
      OBVIOUS
    <3>4. N - n \in Nat /\ N - (N - n) = n /\ N - n <= N
      BY <2>1
    <3>5. N - n \in T
      <4> HIDE DEF T
      <4> QED BY <3>3, <3>4
    <3> HIDE DEF to, N, M
    <3> QED BY <3>4, <3>5
  <2>7. ASSUME NEW i \in 1..N
        PROVE  /\ segs[i].id = spans[i].id /\ segs[i].props = spans[i].props
               /\ segs[i].ir = Inline(ir, spans[i].id)
               /\ segs[i].runs = SubSeq(side.runs, to(i - 1) + 1, to(i))
               /\ segs[i] \in SegSet
    <3>1. segs[i] = Cut(side, ir, spans[i])
      BY <2>2
    <3>2. i - 1 \in 0..N /\ i \in 0..N /\ spans[i].to = to(i) /\ spans[i].from = to(i - 1)
      BY <2>1, <2>4
    <3>3. spans[i].id \in Ids /\ spans[i].props \in SUBSET Props
      BY <2>1 DEF SpanSet
    <3> HIDE DEF to, N, spans, segs
    <3>4. SubSeq(side.runs, to(i - 1) + 1, to(i)) \in Seq(RunSet)
      <4> DEFINE m == to(i - 1) + 1
                 n == to(i)
      <4>1. m \in Int /\ n \in Int /\ \A x \in m..n : x \in 1..M
        BY <2>3, <2>6, <3>2
      <4>2. \A x \in m..n : side.runs[x] \in RunSet
        <5> HIDE DEF m, n
        <5> QED BY <1>1, <4>1, ElementOfSeq
      <4> HIDE DEF m, n
      <4>3. SubSeq(side.runs, m, n) \in Seq(RunSet)
        BY <4>1, <4>2, SubSeqProperties
      <4> QED BY <4>3 DEF m, n
    <3>5. Inline(ir, spans[i].id) \in Seq(Seq(RunSet))
      BY InlineIsContent
    <3>6. segs[i] = [id |-> spans[i].id, props |-> spans[i].props,
                     runs |-> SubSeq(side.runs, to(i - 1) + 1, to(i)), ir |-> Inline(ir, spans[i].id)]
      BY <3>1, <3>2 DEF Cut
    <3> DEFINE r == SubSeq(side.runs, to(i - 1) + 1, to(i))
    <3>7. segs[i] = [id |-> spans[i].id, props |-> spans[i].props, runs |-> r, ir |-> Inline(ir, spans[i].id)]
          /\ r \in Seq(RunSet)
      BY <3>4, <3>6
    <3> HIDE DEF r
    <3>8. segs[i] \in SegSet
      BY <3>3, <3>5, <3>7, MakesSeg
    <3>9. segs[i].id = spans[i].id /\ segs[i].props = spans[i].props
          /\ segs[i].ir = Inline(ir, spans[i].id) /\ segs[i].runs = r
      BY <3>7
    <3> QED BY <3>8, <3>9 DEF r
  <2>8. segs \in Seq(SegSet) /\ Len(segs) = N
    <3>1. segs \in [1..N -> SegSet]
      <4>1. segs = [i \in 1..N |-> segs[i]]
        BY <2>2
      <4> HIDE DEF segs, N
      <4> QED BY <2>7, <4>1
    <3> HIDE DEF segs, N
    <3> QED BY <2>1, <3>1
  <2> DEFINE ss == RunsOf(segs)
  <2>9. ss \in Seq(Seq(RunSet)) /\ Len(ss) = N /\ Runs(segs) = FlattenSeq(ss)
        /\ \A i \in 1..N : ss[i] = segs[i].runs
    <3> HIDE DEF segs, N
    <3> QED BY <2>8, RunsOfSegs
  <2> DEFINE T == {k \in Nat : k <= N => Flat(ss, k) = SubSeq(side.runs, 1, to(k))}
  <2>10. 0 \in T
    <3>1. Flat(ss, 0) = <<>>
      <4> HIDE DEF ss
      <4> QED BY <2>9, Flattens
    <3>2. SubSeq(side.runs, 1, 0) = <<>>
      BY SubSeqEmpty
    <3> QED BY <3>1, <3>2
  <2>11. ASSUME NEW k \in Nat, k \in T PROVE k + 1 \in T
    <3> SUFFICES ASSUME k + 1 <= N PROVE Flat(ss, k + 1) = SubSeq(side.runs, 1, to(k + 1))
      OBVIOUS
    <3>1. k + 1 \in 1..N /\ (k + 1) - 1 = k /\ k <= N /\ k \in 0..N /\ k + 1 \in 0..N
      BY <2>1
    <3>2. Flat(ss, k) = SubSeq(side.runs, 1, to(k))
      BY <2>11, <3>1
    <3> DEFINE n == k + 1
    <3>3. Flat(ss, n) = Flat(ss, n - 1) \o ss[n]
      <4> HIDE DEF ss
      <4> QED BY <2>9, <3>1, Flattens
    <3>4. ss[n] = SubSeq(side.runs, to(k) + 1, to(n))
      <4> HIDE DEF ss, to, segs, N, spans
      <4> QED BY <2>7, <2>9, <3>1
    <3>5. to(k) \in Nat /\ to(n) \in Nat /\ to(k) <= to(n) /\ to(n) <= M
      <4> HIDE DEF to, N, spans
      <4> QED BY <2>4, <2>6, <3>1
    <3>6. SubSeq(side.runs, 1, to(k)) \o SubSeq(side.runs, to(k) + 1, to(n)) = SubSeq(side.runs, 1, to(n))
      <4> DEFINE a == to(k)
                 b == to(n)
      <4>1. 1 \in 1..(M + 1) /\ a \in (1 - 1)..M /\ b \in a..M
        BY <2>3, <3>5
      <4> HIDE DEF a, b
      <4>2. SubSeq(side.runs, 1, a) \o SubSeq(side.runs, a + 1, b) = SubSeq(side.runs, 1, b)
        BY <1>1, <4>1, ConcatAdjacentSubSeq
      <4> QED BY <4>2 DEF a, b
    <3> HIDE DEF ss, to
    <3> QED BY <3>1, <3>2, <3>3, <3>4, <3>6
  <2>12. \A k \in Nat : k \in T
    <3> HIDE DEF T
    <3> QED BY <2>10, <2>11, AllNaturals
  <2>13. Flat(ss, N) = SubSeq(side.runs, 1, M)
    <3>1. N \in T /\ N <= N
      <4> HIDE DEF T
      <4> QED BY <2>1, <2>12
    <3> HIDE DEF ss, to, N, M
    <3> QED BY <2>5, <3>1
  <2>14. Runs(segs) = side.runs
    <3>1. Flat(ss, Len(ss)) = FlattenSeq(ss)
      <4> HIDE DEF ss
      <4> QED BY <2>9, Flattens
    <3>2. SubSeq(side.runs, 1, M) = side.runs
      BY <1>1, SubSeqFull
    <3> HIDE DEF ss, N, M, segs
    <3> QED BY <2>9, <2>13, <3>1, <3>2
  <2> HIDE DEF segs, N, spans
  <2> QED BY <1>4, <2>7, <2>8, <2>14 DEF segs, N, spans
<1> QED BY <1>2, <1>3, <1>4

-----------------------------------------------------------------------------
(* Writing a target.                                                         *)

\* The side some segments are written as.
NewSide(segs) == Side(Runs(segs), IF NeedsOverlay(segs) THEN Spans(segs) ELSE <<>>)

\* A block whose target in the requested language is another one.
Retargeted(c, b, side, ir) ==
  c = [translatable |-> b.translatable, source |-> b.source, targets |-> With(b.targets, Request, side),
       ir |-> [source |-> b.ir.source,
               targets |-> IF DOMAIN ir = {} THEN b.ir.targets ELSE With(b.ir.targets, Request, ir)]]

LEMMA TargetIRIsIR ==
  ASSUME NEW b, IsBlock(b), NEW loc
  PROVE  IsIR(TargetIR(b, loc)) /\ IsIR(b.ir.source)
<1>1. IsIR(NoIR)
  BY DEF IsIR, NoIR
<1> QED BY <1>1 DEF TargetIR, IsBlock

LEMMA NewSideIsSide ==
  ASSUME NEW segs \in Seq(SegSet), segs # <<>>
  PROVE  IsSide(NewSide(segs))
<1>1. CASE NeedsOverlay(segs)
  BY <1>1, ReadBack DEF NewSide
<1>2. CASE ~NeedsOverlay(segs)
  <2>1. <<>> \in Seq(SpanSet) /\ Runs(segs) \in Seq(RunSet)
    BY EmptySeq, RunsOfSegs
  <2> QED BY <1>2, <2>1 DEF NewSide, IsSide, Side, CutsAll
<1> QED BY <1>1, <1>2

\* The inline content that is kept of some segments: that of one of the name.
LEMMA NewIRKeeps ==
  ASSUME NEW segs \in Seq(SegSet)
  PROVE  /\ IsIR(NewIR(segs))
         /\ \A i \in 1..Len(segs) : segs[i].ir # <<>> /\ segs[i].id # NoName => segs[i].id \in DOMAIN NewIR(segs)
         /\ \A id \in DOMAIN NewIR(segs) :
              /\ id # NoName
              /\ \E i \in 1..Len(segs) : segs[i].ir # <<>> /\ segs[i].id = id /\ NewIR(segs)[id] = segs[i].ir[1]
<1> DEFINE carried == {i \in DOMAIN segs : segs[i].ir # <<>> /\ segs[i].id # NoName}
           at(id) == Max(carried \cap PlacesOf(segs, id))
<1>1. NewIR(segs) = [id \in {segs[i].id : i \in carried} |-> segs[at(id)].ir[1]]
  BY DEF NewIR
<1>2. DOMAIN segs = 1..Len(segs) /\ Len(segs) \in Nat /\ \A i \in 1..Len(segs) : segs[i] \in SegSet
  BY LenProperties, ElementOfSeq
<1>3. ASSUME NEW id \in {segs[i].id : i \in carried}
      PROVE  at(id) \in carried /\ segs[at(id)].id = id
  <2>1. carried \cap PlacesOf(segs, id) # {}
    BY <1>3 DEF PlacesOf
  <2>2. carried \cap PlacesOf(segs, id) \in SUBSET (1..Len(segs))
    BY <1>2
  <2>3. at(id) \in carried \cap PlacesOf(segs, id)
    <3> HIDE DEF carried
    <3> QED BY <1>2, <2>1, <2>2, Greatest
  <2> HIDE DEF carried, at
  <2> QED BY <2>3 DEF PlacesOf
<1>4. \A i \in carried : /\ i \in 1..Len(segs) /\ segs[i].ir # <<>> /\ segs[i].id # NoName
                         /\ segs[i].ir[1] \in Seq(RunSet)
  <2> SUFFICES ASSUME NEW i \in carried PROVE segs[i].ir[1] \in Seq(RunSet)
    BY <1>2
  <2>1. segs[i].ir \in Seq(Seq(RunSet)) /\ segs[i].ir # <<>>
    BY <1>2 DEF SegSet
  <2>2. 1 \in 1..Len(segs[i].ir)
    BY <2>1, EmptySeq, LenProperties
  <2> QED BY <2>1, <2>2, ElementOfSeq
<1>5. IsIR(NewIR(segs))
  <2> HIDE DEF carried, at
  <2> QED BY <1>1, <1>3, <1>4 DEF IsIR
<1>6. \A i \in 1..Len(segs) : segs[i].ir # <<>> /\ segs[i].id # NoName => segs[i].id \in DOMAIN NewIR(segs)
  <2>1. \A i \in 1..Len(segs) : segs[i].ir # <<>> /\ segs[i].id # NoName => i \in carried
    BY <1>2
  <2> HIDE DEF carried, at
  <2> QED BY <1>1, <2>1
<1>7. \A id \in DOMAIN NewIR(segs) :
        /\ id # NoName
        /\ \E i \in 1..Len(segs) : segs[i].ir # <<>> /\ segs[i].id = id /\ NewIR(segs)[id] = segs[i].ir[1]
  <2> HIDE DEF carried, at
  <2> QED BY <1>1, <1>3, <1>4
<1> QED BY <1>5, <1>6, <1>7

\* A block with another target is a block, and the rest of it as before.
LEMMA RetargetedIsBlock ==
  ASSUME NEW b, IsBlock(b), NEW side, IsSide(side), NEW ir, IsIR(ir), NEW c, Retargeted(c, b, side, ir)
  PROVE  /\ IsBlock(c) /\ Held(c, Request) /\ c.targets[Request] = side
         /\ c.translatable = b.translatable /\ c.source = b.source /\ c.ir.source = b.ir.source
         /\ DOMAIN c.targets = DOMAIN b.targets \cup {Request}
         /\ \A loc \in DOMAIN b.targets : loc # Request =>
              c.targets[loc] = b.targets[loc] /\ TargetIR(c, loc) = TargetIR(b, loc)
         /\ TargetIR(c, Request) = IF DOMAIN ir = {} THEN TargetIR(b, Request) ELSE ir
<1> DEFINE irs == IF DOMAIN ir = {} THEN b.ir.targets ELSE With(b.ir.targets, Request, ir)
           targets == With(b.targets, Request, side)
<1>1. c = [translatable |-> b.translatable, source |-> b.source, targets |-> targets,
           ir |-> [source |-> b.ir.source, targets |-> irs]]
  BY DEF Retargeted
<1>2. /\ DOMAIN targets = DOMAIN b.targets \cup {Request} /\ targets[Request] = side
      /\ \A loc \in DOMAIN b.targets : loc # Request => targets[loc] = b.targets[loc]
      /\ targets = [loc \in DOMAIN targets |-> targets[loc]]
  BY DEF With
<1>3. \A loc \in DOMAIN targets : IsSide(targets[loc])
  <2> HIDE DEF targets
  <2> QED BY <1>2 DEF IsBlock
<1>4. /\ irs = [loc \in DOMAIN irs |-> irs[loc]]
      /\ \A loc \in DOMAIN irs : IsIR(irs[loc])
      /\ \A loc : loc # Request => (loc \in DOMAIN irs <=> loc \in DOMAIN b.ir.targets)
      /\ \A loc \in DOMAIN irs : loc # Request => irs[loc] = b.ir.targets[loc]
      /\ DOMAIN ir # {} => Request \in DOMAIN irs /\ irs[Request] = ir
      /\ DOMAIN ir = {} => irs = b.ir.targets
  <2>1. CASE DOMAIN ir = {}
    BY <2>1 DEF IsBlock
  <2>2. CASE DOMAIN ir # {}
    BY <2>2 DEF With, IsBlock
  <2> QED BY <2>1, <2>2
<1> HIDE DEF irs, targets
<1>5. c.translatable = b.translatable /\ c.source = b.source /\ c.targets = targets
      /\ c.ir = [source |-> b.ir.source, targets |-> irs]
  BY <1>1
<1>6. c.ir.source = b.ir.source /\ c.ir.targets = irs
  BY <1>5
<1>7. IsBlock(c)
  <2>1. NoLocale \notin DOMAIN c.targets
    BY <1>2, <1>5, RequestAssumption DEF IsBlock
  <2> QED BY <1>1, <1>2, <1>3, <1>4, <1>5, <1>6, <2>1 DEF IsBlock
<1>8. \A loc : loc # Request => TargetIR(c, loc) = TargetIR(b, loc)
  BY <1>4, <1>6 DEF TargetIR
<1>9. TargetIR(c, Request) = IF DOMAIN ir = {} THEN TargetIR(b, Request) ELSE ir
  BY <1>4, <1>6 DEF TargetIR
<1> QED BY <1>2, <1>5, <1>6, <1>7, <1>8, <1>9 DEF Held

LEMMA WriteTargetRetargets ==
  ASSUME NEW b, IsBlock(b), NEW segs
  PROVE  Retargeted(WriteTarget(b, segs), b, NewSide(segs), NewIR(segs))
<1> DEFINE side == NewSide(segs)
           ir == NewIR(segs)
           d == [b EXCEPT !.targets = With(@, Request, side)]
<1>1. WriteTarget(b, segs) = SetTargetIR(d, ir)
  BY DEF WriteTarget, NewSide
<1>2. b = [translatable |-> b.translatable, source |-> b.source, targets |-> b.targets, ir |-> b.ir]
      /\ b.ir = [source |-> b.ir.source, targets |-> b.ir.targets]
  BY DEF IsBlock
<1> HIDE DEF side, ir
<1>3. d = [translatable |-> b.translatable, source |-> b.source, targets |-> With(b.targets, Request, side), ir |-> b.ir]
  BY <1>2
<1> HIDE DEF d
<1>4. CASE DOMAIN ir = {}
  BY <1>1, <1>2, <1>3, <1>4 DEF SetTargetIR, Retargeted, side, ir
<1>5. CASE DOMAIN ir # {}
  <2>1. SetTargetIR(d, ir) = [d EXCEPT !.ir.targets = With(@, Request, ir)]
    BY <1>5 DEF SetTargetIR
  <2>2. d.ir.targets = b.ir.targets
    BY <1>3
  <2>3. SetTargetIR(d, ir) = [translatable |-> b.translatable, source |-> b.source,
                              targets |-> With(b.targets, Request, side),
                              ir |-> [source |-> b.ir.source, targets |-> With(b.ir.targets, Request, ir)]]
    BY <1>2, <1>3, <2>1, <2>2
  <2> QED BY <1>1, <1>5, <2>3 DEF Retargeted, side, ir
<1> QED BY <1>4, <1>5

-----------------------------------------------------------------------------
(* The native engine makes blocks of blocks.                                 *)

\* Each of those segments is at one of the places, in their order.
LEMMA ThoseSegs ==
  ASSUME NEW segs \in Seq(SegSet), NEW places \in SUBSET (1..Len(segs))
  PROVE  LET some == Those(segs, places)
         IN /\ some \in Seq(SegSet)
            /\ \A a \in 1..Len(some) : \E i \in places : some[a] = segs[i]
            /\ \A a, b \in 1..Len(some) : a < b =>
                 \E i, j \in places : i < j /\ some[a] = segs[i] /\ some[b] = segs[j]
<1> DEFINE some == Those(segs, places)
           N == Len(segs)
           ss == [i \in DOMAIN segs |-> IF i \in places THEN <<segs[i]>> ELSE <<>>]
<1>1. N \in Nat /\ DOMAIN segs = 1..N /\ \A i \in 1..N : segs[i] \in SegSet
  BY LenProperties, ElementOfSeq
<1>2. some = FlattenSeq(ss)
  BY DEF Those
<1>3. \A i \in 1..N : ss[i] = IF i \in places THEN <<segs[i]>> ELSE <<>>
  BY <1>1
<1>4. ss \in Seq(Seq(SegSet)) /\ Len(ss) = N
  <2>1. \A i \in 1..N : ss[i] \in Seq(SegSet)
    BY <1>1, <1>3, EmptySeq
  <2>2. ss \in [1..N -> Seq(SegSet)]
    <3>1. ss = [i \in 1..N |-> ss[i]]
      BY <1>1
    <3> HIDE DEF ss, N
    <3> QED BY <2>1, <3>1
  <2> HIDE DEF ss, N
  <2> QED BY <1>1, <2>2
<1> HIDE DEF ss, some
<1>5. /\ some \in Seq(SegSet) /\ Len(some) = Size(ss, N) /\ Size(ss, 0) = 0
      /\ \A n \in 1..N :
           /\ Size(ss, n) = Size(ss, n - 1) + Len(ss[n]) /\ Size(ss, n) <= Len(some)
           /\ \A k \in 1..Len(ss[n]) : some[Size(ss, n - 1) + k] = ss[n][k]
      /\ \A x \in 1..Len(some) : \E n \in 1..N : Size(ss, n - 1) < x /\ x <= Size(ss, n)
  BY <1>2, <1>4, Lies
<1>6. \A n \in 0..N : Size(ss, n) \in Nat
  <2>1. \A n \in 0..N : N \in n..N
    BY <1>1
  <2> QED BY <1>4, <2>1, Grows
\* The n-th piece is the one segment at place n.
<1>7. ASSUME NEW x \in 1..Len(some), NEW n \in 1..N, Size(ss, n - 1) < x, x <= Size(ss, n)
      PROVE  n \in places /\ some[x] = segs[n] /\ x = Size(ss, n)
  <2>1. n - 1 \in 0..N /\ n \in 0..N
    BY <1>1
  <2>2. Size(ss, n - 1) \in Nat /\ Size(ss, n) \in Nat /\ x \in Int
    BY <1>6, <2>1
  <2>3. n \in places
    <3> SUFFICES ASSUME n \notin places PROVE FALSE
      OBVIOUS
    <3>1. ss[n] = <<>>
      BY <1>3
    <3>2. Size(ss, n) = Size(ss, n - 1) + Len(ss[n])
      BY <1>5
    <3>3. Size(ss, n) = Size(ss, n - 1)
      BY <2>2, <3>1, <3>2
    <3> QED BY <1>7, <2>2, <3>3
  <2>4. Len(ss[n]) = 1 /\ ss[n][1] = segs[n]
    <3>1. ss[n] = <<segs[n]>>
      BY <1>3, <2>3
    <3> QED BY <3>1
  <2>5. x = Size(ss, n) /\ x = Size(ss, n - 1) + 1
    <3>1. Size(ss, n) = Size(ss, n - 1) + 1
      BY <1>5, <2>4
    <3> QED BY <1>7, <2>2, <3>1
  <2>6. some[Size(ss, n - 1) + 1] = ss[n][1]
    <3>1. 1 \in 1..Len(ss[n])
      BY <2>4
    <3> QED BY <1>5, <3>1
  <2> QED BY <2>3, <2>4, <2>5, <2>6
<1>8. \A a \in 1..Len(some) : \E i \in places : some[a] = segs[i]
  BY <1>5, <1>7
<1>9. ASSUME NEW a \in 1..Len(some), NEW b \in 1..Len(some), a < b
      PROVE  \E i, j \in places : i < j /\ some[a] = segs[i] /\ some[b] = segs[j]
  <2>1. PICK n \in 1..N : Size(ss, n - 1) < a /\ a <= Size(ss, n)
    BY <1>5
  <2>2. PICK m \in 1..N : Size(ss, m - 1) < b /\ b <= Size(ss, m)
    BY <1>5
  <2>3. n \in places /\ some[a] = segs[n] /\ a = Size(ss, n)
    BY <1>7, <2>1
  <2>4. m \in places /\ some[b] = segs[m] /\ b = Size(ss, m)
    BY <1>7, <2>2
  <2>5. n < m
    <3> SUFFICES ASSUME ~(n < m) PROVE FALSE
      OBVIOUS
    <3>1. m \in 0..N /\ n \in m..N
      BY <1>1
    <3>2. Size(ss, m) <= Size(ss, n)
      BY <1>4, <3>1, Grows
    <3>3. a \in Nat /\ b \in Nat
      BY <1>5
    <3> QED BY <1>9, <2>3, <2>4, <3>2, <3>3
  <2> QED BY <2>3, <2>4, <2>5
<1> QED BY <1>5, <1>8, <1>9 DEF some

LEMMA PseudoIsRuns ==
  ASSUME NEW runs \in Seq(RunSet)
  PROVE  /\ Pseudo(runs) \in Seq(RunSet) /\ DOMAIN Pseudo(runs) = DOMAIN runs
         /\ Len(Pseudo(runs)) = Len(runs)
<1>1. Len(runs) \in Nat /\ DOMAIN runs = 1..Len(runs) /\ \A i \in 1..Len(runs) : runs[i] \in RunSet
  BY LenProperties, ElementOfSeq
<1>2. ASSUME NEW t \in Seq(Atoms) PROVE PseudoText(t) \in Seq(Atoms)
  <2>1. Len(t) \in Nat /\ DOMAIN t = 1..Len(t) /\ \A i \in 1..Len(t) : t[i] \in Atoms
    BY LenProperties, ElementOfSeq
  <2>2. PseudoText(t) \in [1..Len(t) -> Atoms]
    BY <2>1, AlphabetAssumption DEF PseudoText
  <2> QED BY <2>1, <2>2
<1>3. ASSUME NEW i \in 1..Len(runs)
      PROVE  (IF runs[i].kind = "text" THEN Text(PseudoText(runs[i].text)) ELSE runs[i]) \in RunSet
  <2>1. runs[i].text \in Seq(Atoms)
    BY <1>1 DEF RunSet
  <2>2. Text(PseudoText(runs[i].text)) \in RunSet
    BY <1>2, <2>1 DEF Text, RunSet
  <2> QED BY <1>1, <2>2
<1>4. Pseudo(runs) \in [1..Len(runs) -> RunSet]
  BY <1>1, <1>3 DEF Pseudo
<1> QED BY <1>1, <1>4

LEMMA SegsAreSegs ==
  ASSUME NEW b, IsBlock(b)
  PROVE  /\ SourceSegs(b) \in Seq(SegSet)
         /\ \A loc : TargetSegs(b, loc) \in Seq(SegSet)
         /\ \A loc : SegsOf(b, loc) \in Seq(SegSet)
<1>1. SourceSegs(b) \in Seq(SegSet)
  <2>1. IsSide(b.source) /\ IsIR(b.ir.source)
    BY DEF IsBlock
  <2>2. Segments(b.source, b.ir.source) \in Seq(SegSet)
    BY <2>1, SegsOfSide
  <2> QED BY <2>2, EmptySeq DEF SourceSegs
<1>2. ASSUME NEW loc PROVE TargetSegs(b, loc) \in Seq(SegSet)
  <2>1. CASE Held(b, loc)
    <3>1. IsSide(b.targets[loc]) /\ IsIR(TargetIR(b, loc))
      BY <2>1, TargetIRIsIR DEF IsBlock, Held
    <3>2. Segments(b.targets[loc], TargetIR(b, loc)) \in Seq(SegSet)
      BY <3>1, SegsOfSide
    <3> QED BY <2>1, <3>2 DEF TargetSegs
  <2>2. CASE ~Held(b, loc)
    BY <2>2, EmptySeq DEF TargetSegs
  <2> QED BY <2>1, <2>2
<1> QED BY <1>1, <1>2 DEF SegsOf

\* The segment a map by name holds is one of that name.
LEMMA ExistingIsThere ==
  ASSUME NEW b, IsBlock(b), NEW id, PlacesOf(TargetSegs(b, Request), id) # {}
  PROVE  \E k \in 1..Len(TargetSegs(b, Request)) :
           Existing(b, id) = TargetSegs(b, Request)[k] /\ TargetSegs(b, Request)[k].id = id
<1> DEFINE segs == TargetSegs(b, Request)
<1>1. segs \in Seq(SegSet)
  BY SegsAreSegs
<1>2. PlacesOf(segs, id) \in SUBSET (1..Len(segs)) /\ Len(segs) \in Nat
  BY <1>1, LenProperties DEF PlacesOf
<1>3. Max(PlacesOf(segs, id)) \in PlacesOf(segs, id)
  <2> HIDE DEF segs
  <2>1. PlacesOf(segs, id) # {}
    BY DEF segs
  <2> QED BY <1>2, <2>1, Greatest
<1> QED BY <1>2, <1>3 DEF Existing, PlacesOf

\* A new segment has the name and the properties of its base.
LEMMA NewSegIsSeg ==
  ASSUME NEW b, IsBlock(b), NEW seg \in SegSet
  PROVE  NewSeg(b, seg) \in SegSet /\ NewSeg(b, seg).id = seg.id /\ NewSeg(b, seg).props = seg.props
<1>1. seg = [id |-> seg.id, props |-> seg.props, runs |-> seg.runs, ir |-> seg.ir]
  BY DEF SegSet
<1>5. seg.id \in Ids /\ seg.props \in SUBSET Props /\ seg.runs \in Seq(RunSet) /\ seg.ir \in Seq(Seq(RunSet))
  BY DEF SegSet
<1>2. CASE Ignorable(seg) /\ PlacesOf(TargetSegs(b, Request), seg.id) = {}
  BY <1>2 DEF NewSeg, Kept
<1>3. CASE Ignorable(seg) /\ PlacesOf(TargetSegs(b, Request), seg.id) # {}
  <2> DEFINE old == Existing(b, seg.id)
  <2>1. old \in SegSet
    BY <1>3, ExistingIsThere, SegsAreSegs, ElementOfSeq
  <2>2. old.runs \in Seq(RunSet) /\ old.ir \in Seq(Seq(RunSet))
    BY <2>1 DEF SegSet
  <2>3. NewSeg(b, seg) = [seg EXCEPT !.runs = old.runs, !.ir = old.ir]
    BY <1>3 DEF NewSeg, Kept
  <2> HIDE DEF old
  <2>4. NewSeg(b, seg) = [id |-> seg.id, props |-> seg.props, runs |-> old.runs, ir |-> old.ir]
    BY <1>1, <2>3
  <2>5. [id |-> seg.id, props |-> seg.props, runs |-> old.runs, ir |-> old.ir] \in SegSet
    BY <1>5, <2>2, MakesSeg
  <2> QED BY <2>4, <2>5
<1>4. CASE ~Ignorable(seg)
  <2> DEFINE runs == Pseudo(seg.runs)
             ir == [i \in DOMAIN seg.ir |-> Pseudo(seg.ir[i])]
  <2>1. runs \in Seq(RunSet)
    BY <1>5, PseudoIsRuns
  <2>2. ir \in Seq(Seq(RunSet))
    <3>1. Len(seg.ir) \in Nat /\ DOMAIN seg.ir = 1..Len(seg.ir) /\ \A i \in 1..Len(seg.ir) : seg.ir[i] \in Seq(RunSet)
      BY <1>5, LenProperties, ElementOfSeq
    <3>2. \A i \in 1..Len(seg.ir) : Pseudo(seg.ir[i]) \in Seq(RunSet)
      BY <3>1, PseudoIsRuns
    <3>3. ir \in [1..Len(seg.ir) -> Seq(RunSet)]
      BY <3>1, <3>2
    <3> HIDE DEF ir
    <3> QED BY <3>1, <3>3
  <2>3. NewSeg(b, seg) = [seg EXCEPT !.runs = runs, !.ir = ir]
    BY <1>4 DEF NewSeg
  <2> HIDE DEF runs, ir
  <2>4. NewSeg(b, seg) = [id |-> seg.id, props |-> seg.props, runs |-> runs, ir |-> ir]
    BY <1>1, <2>3
  <2>5. [id |-> seg.id, props |-> seg.props, runs |-> runs, ir |-> ir] \in SegSet
    BY <1>5, <2>1, <2>2, MakesSeg
  <2> QED BY <2>4, <2>5
<1> QED BY <1>2, <1>3, <1>4

Renewed(b, base) == [i \in DOMAIN base |-> NewSeg(b, base[i])]

LEMMA RenewedAreSegs ==
  ASSUME NEW b, IsBlock(b), NEW base \in Seq(SegSet), base # <<>>
  PROVE  /\ Renewed(b, base) \in Seq(SegSet) /\ Renewed(b, base) # <<>>
         /\ Len(Renewed(b, base)) = Len(base)
         /\ \A i \in 1..Len(base) : /\ Renewed(b, base)[i] = NewSeg(b, base[i]) /\ base[i] \in SegSet
                                    /\ Renewed(b, base)[i].id = base[i].id
                                    /\ Renewed(b, base)[i].props = base[i].props
<1>1. Len(base) \in Nat \ {0} /\ DOMAIN base = 1..Len(base) /\ \A i \in 1..Len(base) : base[i] \in SegSet
  BY LenProperties, ElementOfSeq, EmptySeq
<1>2. \A i \in 1..Len(base) : Renewed(b, base)[i] = NewSeg(b, base[i])
  BY <1>1 DEF Renewed
<1>3. \A i \in 1..Len(base) : /\ NewSeg(b, base[i]) \in SegSet /\ NewSeg(b, base[i]).id = base[i].id
                              /\ NewSeg(b, base[i]).props = base[i].props
  BY <1>1, NewSegIsSeg
<1>4. Renewed(b, base) \in [1..Len(base) -> SegSet]
  BY <1>1, <1>3 DEF Renewed
<1>5. Renewed(b, base) \in Seq(SegSet) /\ Len(Renewed(b, base)) = Len(base)
  BY <1>1, <1>4
<1> QED BY <1>1, <1>2, <1>3, <1>5, EmptySeq

\* A block is left as it is or gets a target made of the segments of one side.
LEMMA ApplyPseudoForms ==
  ASSUME NEW b, IsBlock(b), NEW force
  PROVE  LET c == ApplyPseudo(b, force)
             base == SegsOf(b, BaseLocale(b, force))
             segs == Renewed(b, base)
         IN \/ c = b
            \/ base # <<>> /\ Retargeted(c, b, NewSide(segs), NewIR(segs))
<1> DEFINE base == SegsOf(b, BaseLocale(b, force))
<1>1. BaseSegs(b, force) = base
  BY DEF BaseSegs
<1>2. CASE ~b.translatable \/ base = <<>>
  BY <1>1, <1>2 DEF ApplyPseudo, FromBase
<1>3. CASE b.translatable /\ base # <<>>
  <2>1. ApplyPseudo(b, force) = WriteTarget(b, Renewed(b, base))
    BY <1>1, <1>3 DEF ApplyPseudo, FromBase, Renewed
  <2>2. Retargeted(WriteTarget(b, Renewed(b, base)), b, NewSide(Renewed(b, base)), NewIR(Renewed(b, base)))
    BY WriteTargetRetargets
  <2> QED BY <1>3, <2>1, <2>2
<1> QED BY <1>2, <1>3

LEMMA ApplyPseudoIsBlock ==
  ASSUME NEW b, IsBlock(b), NEW force
  PROVE  IsBlock(ApplyPseudo(b, force))
<1> DEFINE c == ApplyPseudo(b, force)
           base == SegsOf(b, BaseLocale(b, force))
<1>1. CASE base # <<>> /\ Retargeted(c, b, NewSide(Renewed(b, base)), NewIR(Renewed(b, base)))
  <2> DEFINE segs == Renewed(b, base)
  <2>1. segs \in Seq(SegSet) /\ segs # <<>>
    BY <1>1, SegsAreSegs, RenewedAreSegs
  <2> HIDE DEF segs
  <2>2. IsSide(NewSide(segs)) /\ IsIR(NewIR(segs))
    BY <2>1, NewSideIsSide, NewIRKeeps
  <2>3. Retargeted(c, b, NewSide(segs), NewIR(segs))
    BY <1>1 DEF segs
  <2> HIDE DEF c
  <2>4. IsBlock(c)
    BY <2>2, <2>3, RetargetedIsBlock
  <2> QED BY <2>4 DEF c
<1>2. CASE c = b
  BY <1>2
<1> QED BY <1>1, <1>2, ApplyPseudoForms

\* The segments of the target, one without a name under the first one of the source.
LEMMA OwnSegsAreSegs ==
  ASSUME NEW b, IsBlock(b)
  PROVE  /\ OwnSegs(b) \in Seq(SegSet) /\ Len(OwnSegs(b)) = Len(TargetSegs(b, Request))
         /\ \A k \in 1..Len(OwnSegs(b)) : /\ OwnSegs(b)[k].runs = TargetSegs(b, Request)[k].runs
                                          /\ OwnSegs(b)[k].props = TargetSegs(b, Request)[k].props
         /\ \/ OwnSegs(b) = TargetSegs(b, Request)
            \/ /\ Held(b, Request) /\ b.targets[Request].spans = <<>> /\ b.source.spans # <<>>
               /\ Len(OwnSegs(b)) = 1
               /\ OwnSegs(b)[1].id = b.source.spans[1].id
<1> DEFINE own == TargetSegs(b, Request)
<1>1. own \in Seq(SegSet)
  BY SegsAreSegs
<1>2. CASE own = <<>> \/ b.targets[Request].spans # <<>> \/ b.source.spans = <<>>
  <2>1. OwnSegs(b) = own
    BY <1>2 DEF OwnSegs
  <2> QED BY <1>1, <2>1
<1>3. CASE ~(own = <<>> \/ b.targets[Request].spans # <<>> \/ b.source.spans = <<>>)
  <2>1. Held(b, Request)
    BY <1>3 DEF TargetSegs
  <2>2. IsSide(b.targets[Request]) /\ IsIR(TargetIR(b, Request))
    BY <2>1, TargetIRIsIR DEF IsBlock, Held
  <2>3. own = Segments(b.targets[Request], TargetIR(b, Request))
    BY <2>1 DEF TargetSegs
  <2>4. own = <<Anonymous(b.targets[Request].runs)>>
    BY <1>3, <2>2, <2>3, SegsOfSide
  <2>5. Len(own) = 1 /\ own[1] \in SegSet
    <3>1. Len(own) = 1
      BY <2>4
    <3> QED BY <1>1, <3>1, ElementOfSeq
  <2>6. b.source.spans[1].id \in Ids
    <3>1. b.source.spans \in Seq(SpanSet) /\ b.source.spans # <<>>
      BY <1>3 DEF IsBlock, IsSide
    <3>2. b.source.spans[1] \in SpanSet
      BY <3>1, EmptySeq, ElementOfSeq
    <3> QED BY <3>2 DEF SpanSet
  <2> DEFINE new == [own[1] EXCEPT !.id = b.source.spans[1].id]
  <2>7. OwnSegs(b) = <<new>>
    BY <1>3 DEF OwnSegs
  <2>8. new = [id |-> b.source.spans[1].id, props |-> own[1].props, runs |-> own[1].runs, ir |-> own[1].ir]
    BY <2>5 DEF SegSet
  <2>9. own[1].props \in SUBSET Props /\ own[1].runs \in Seq(RunSet) /\ own[1].ir \in Seq(Seq(RunSet))
    BY <2>5 DEF SegSet
  <2> HIDE DEF new, own
  <2>10. new \in SegSet
    <3>1. [id |-> b.source.spans[1].id, props |-> own[1].props, runs |-> own[1].runs, ir |-> own[1].ir] \in SegSet
      BY <2>6, <2>9, MakesSeg
    <3> QED BY <2>8, <3>1
  <2>11. new.id = b.source.spans[1].id /\ new.props = own[1].props /\ new.runs = own[1].runs
    BY <2>8
  <2>12. OwnSegs(b) \in Seq(SegSet) /\ Len(OwnSegs(b)) = 1 /\ OwnSegs(b)[1] = new
    BY <2>7, <2>10
  <2> QED BY <1>3, <2>1, <2>5, <2>11, <2>12 DEF own
<1> QED BY <1>2, <1>3

\* Seeding leaves a block as it is, or adds ignorables behind its target.
LEMMA SeedForms ==
  ASSUME NEW b, IsBlock(b)
  PROVE  LET own == OwnSegs(b)
             segs == own \o Missing(b, own)
             c == SeedIgnorables(b)
         IN /\ Missing(b, own) \in Seq(SegSet)
            /\ \/ c = b
               \/ /\ Held(b, Request) /\ Missing(b, own) # <<>> /\ b.targets[Request].runs # <<>>
                  /\ segs \in Seq(SegSet) /\ segs # <<>>
                  /\ Retargeted(c, b, Side(Runs(segs), Spans(segs)), NoIR)
<1> DEFINE own == OwnSegs(b)
           missing == Missing(b, own)
           segs == own \o missing
           side == Side(Runs(segs), Spans(segs))
<1>1. own \in Seq(SegSet)
  BY OwnSegsAreSegs
<1>2. missing \in Seq(SegSet)
  <2> DEFINE source == SourceSegs(b)
             places == {i \in DOMAIN source : Ignorable(source[i]) /\ ~Present(own, source[i].id)}
  <2>1. source \in Seq(SegSet)
    BY SegsAreSegs
  <2>2. places \in SUBSET (1..Len(source))
    BY <2>1, LenProperties
  <2>3. missing = Those(source, places)
    BY DEF Missing
  <2> HIDE DEF source, places, own
  <2> QED BY <2>1, <2>2, <2>3, ThoseSegs
<1>3. CASE ~Held(b, Request) \/ b.targets[Request].runs = <<>> \/ missing = <<>>
  <2>1. SeedIgnorables(b) = b
    BY <1>3 DEF SeedIgnorables, Seeded
  <2> QED BY <1>2, <2>1
<1>4. CASE ~(~Held(b, Request) \/ b.targets[Request].runs = <<>> \/ missing = <<>>)
  <2>1. SeedIgnorables(b) = [b EXCEPT !.targets[Request] = side]
    BY <1>4 DEF SeedIgnorables, Seeded
  <2>2. segs \in Seq(SegSet) /\ segs # <<>>
    <3> HIDE DEF own, missing
    <3> QED BY <1>1, <1>2, <1>4, ConcatProperties, ConcatSimplifications
  <2>3. b = [translatable |-> b.translatable, source |-> b.source, targets |-> b.targets, ir |-> b.ir]
        /\ b.ir = [source |-> b.ir.source, targets |-> b.ir.targets]
        /\ b.targets = [loc \in DOMAIN b.targets |-> b.targets[loc]]
    BY DEF IsBlock
  <2> HIDE DEF side
  <2>4. [b.targets EXCEPT ![Request] = side] = With(b.targets, Request, side)
    BY <1>4, <2>3 DEF Held, With
  <2>5. SeedIgnorables(b) = [translatable |-> b.translatable, source |-> b.source,
                             targets |-> With(b.targets, Request, side), ir |-> b.ir]
    BY <2>1, <2>3, <2>4
  <2>6. Retargeted(SeedIgnorables(b), b, side, NoIR)
    <3>1. DOMAIN NoIR = {}
      BY DEF NoIR
    <3> QED BY <2>3, <2>5, <3>1 DEF Retargeted
  <2> QED BY <1>2, <1>4, <2>2, <2>6 DEF side
<1> QED BY <1>3, <1>4

LEMMA SeedIgnorablesIsBlock ==
  ASSUME NEW b, IsBlock(b)
  PROVE  IsBlock(SeedIgnorables(b))
<1> DEFINE segs == OwnSegs(b) \o Missing(b, OwnSegs(b))
           side == Side(Runs(segs), Spans(segs))
           c == SeedIgnorables(b)
<1>1. CASE c = b
  BY <1>1
<1>2. CASE segs \in Seq(SegSet) /\ segs # <<>> /\ Retargeted(c, b, side, NoIR)
  <2> HIDE DEF segs, c
  <2>1. IsSide(side)
    BY <1>2, ReadBack
  <2>2. IsIR(NoIR)
    BY DEF IsIR, NoIR
  <2> HIDE DEF side
  <2>3. IsBlock(c)
    BY <1>2, <2>1, <2>2, RetargetedIsBlock
  <2> QED BY <2>3 DEF c
<1> QED BY <1>1, <1>2, SeedForms

LEMMA NativeBlockIsBlock ==
  ASSUME NEW b, IsBlock(b), NEW lang, NEW xliff2
  PROVE  IsBlock(NativeBlock(b, lang, xliff2))
BY ApplyPseudoIsBlock, SeedIgnorablesIsBlock DEF NativeBlock

\* The segments of the target of a block cover its runs.
LEMMA TargetsCover ==
  ASSUME NEW b, IsBlock(b), Held(b, Request)
  PROVE  Runs(TargetSegs(b, Request)) = b.targets[Request].runs
<1>1. IsSide(b.targets[Request]) /\ IsIR(TargetIR(b, Request))
  BY TargetIRIsIR DEF IsBlock, Held
<1> QED BY <1>1, SegsOfSide DEF TargetSegs

-----------------------------------------------------------------------------
(* Texts and codes under the pseudo-translation.                             *)

\* What is in a concatenation is in one of its pieces.
LEMMA Elements ==
  ASSUME NEW R, NEW ss \in Seq(Seq(R))
  PROVE  LET all == FlattenSeq(ss)
         IN /\ \A p \in 1..Len(all) : \E n \in 1..Len(ss) : \E k \in 1..Len(ss[n]) : ss[n][k] = all[p]
            /\ \A n \in 1..Len(ss) : \A k \in 1..Len(ss[n]) : \E p \in 1..Len(all) : all[p] = ss[n][k]
<1> DEFINE all == FlattenSeq(ss)
<1>1. /\ \A n \in 1..Len(ss) :
           /\ Size(ss, n) = Size(ss, n - 1) + Len(ss[n])
           /\ \A k \in 1..Len(ss[n]) : Size(ss, n - 1) + k \in 1..Len(all) /\ all[Size(ss, n - 1) + k] = ss[n][k]
      /\ \A p \in 1..Len(all) : \E n \in 1..Len(ss) : Size(ss, n - 1) < p /\ p <= Size(ss, n)
      /\ all \in Seq(R)
  BY Lies
<1>2. \A n \in 0..Len(ss) : Size(ss, n) \in Nat
  <2>1. Len(ss) \in Nat /\ \A n \in 0..Len(ss) : Len(ss) \in n..Len(ss)
    BY LenProperties
  <2> QED BY <2>1, Grows
<1> HIDE DEF all
<1>3. ASSUME NEW p \in 1..Len(all)
      PROVE  \E n \in 1..Len(ss) : \E k \in 1..Len(ss[n]) : ss[n][k] = all[p]
  <2>1. PICK n \in 1..Len(ss) : Size(ss, n - 1) < p /\ p <= Size(ss, n)
    BY <1>1
  <2>2. Size(ss, n - 1) \in Nat /\ Size(ss, n) = Size(ss, n - 1) + Len(ss[n]) /\ Len(ss[n]) \in Nat /\ p \in Nat
    <3>1. n - 1 \in 0..Len(ss) /\ Len(ss) \in Nat
      BY LenProperties
    <3>2. ss[n] \in Seq(R)
      BY ElementOfSeq
    <3> QED BY <1>1, <1>2, <3>1, <3>2, LenProperties
  <2> DEFINE k == p - Size(ss, n - 1)
  <2>3. k \in 1..Len(ss[n]) /\ Size(ss, n - 1) + k = p
    BY <2>1, <2>2
  <2> HIDE DEF k
  <2>4. ss[n][k] = all[p]
    <3>1. all[Size(ss, n - 1) + k] = ss[n][k]
      BY <1>1, <2>3
    <3> QED BY <2>3, <3>1
  <2> QED BY <2>3, <2>4
<1>4. ASSUME NEW n \in 1..Len(ss), NEW k \in 1..Len(ss[n])
      PROVE  \E p \in 1..Len(all) : all[p] = ss[n][k]
  <2>1. Size(ss, n - 1) + k \in 1..Len(all) /\ all[Size(ss, n - 1) + k] = ss[n][k]
    BY <1>1
  <2> QED BY <2>1
<1> QED BY <1>3, <1>4 DEF all

Accented(c) == IF c \in DOMAIN ExtLatin THEN ExtLatin[c] ELSE c

LEMMA PseudoTextIsText ==
  ASSUME NEW t \in Seq(Atoms)
  PROVE  /\ PseudoText(t) \in Seq(Atoms) /\ Len(PseudoText(t)) = Len(t)
         /\ \A i \in 1..Len(t) : PseudoText(t)[i] = Accented(t[i])
<1>1. Len(t) \in Nat /\ DOMAIN t = 1..Len(t) /\ \A i \in 1..Len(t) : t[i] \in Atoms
  BY LenProperties, ElementOfSeq
<1>2. PseudoText(t) = [i \in 1..Len(t) |-> Accented(t[i])]
  BY <1>1 DEF PseudoText, Accented
<1>3. \A i \in 1..Len(t) : Accented(t[i]) \in Atoms
  BY <1>1, AlphabetAssumption DEF Accented
<1>4. PseudoText(t) \in [1..Len(t) -> Atoms]
  BY <1>2, <1>3
<1> QED BY <1>1, <1>2, <1>4

LEMMA PseudoOfConcat ==
  ASSUME NEW s \in Seq(Atoms), NEW t \in Seq(Atoms)
  PROVE  PseudoText(s \o t) = PseudoText(s) \o PseudoText(t)
<1> DEFINE l == PseudoText(s \o t)
           r == PseudoText(s) \o PseudoText(t)
<1>1. /\ s \o t \in Seq(Atoms) /\ Len(s \o t) = Len(s) + Len(t) /\ Len(s) \in Nat /\ Len(t) \in Nat
      /\ \A i \in 1..(Len(s) + Len(t)) : (s \o t)[i] = IF i <= Len(s) THEN s[i] ELSE t[i - Len(s)]
  BY ConcatProperties, LenProperties
<1>2. /\ l \in Seq(Atoms) /\ Len(l) = Len(s) + Len(t)
      /\ \A i \in 1..(Len(s) + Len(t)) : l[i] = Accented((s \o t)[i])
  <2> DEFINE u == s \o t
  <2>1. u \in Seq(Atoms) /\ Len(u) = Len(s) + Len(t)
    BY <1>1
  <2> HIDE DEF u
  <2>2. PseudoText(u) \in Seq(Atoms) /\ Len(PseudoText(u)) = Len(u) /\ \A i \in 1..Len(u) : PseudoText(u)[i] = Accented(u[i])
    BY <2>1, PseudoTextIsText
  <2> QED BY <2>1, <2>2 DEF u
<1>3. /\ PseudoText(s) \in Seq(Atoms) /\ Len(PseudoText(s)) = Len(s)
      /\ PseudoText(t) \in Seq(Atoms) /\ Len(PseudoText(t)) = Len(t)
      /\ \A i \in 1..Len(s) : PseudoText(s)[i] = Accented(s[i])
      /\ \A i \in 1..Len(t) : PseudoText(t)[i] = Accented(t[i])
  BY PseudoTextIsText
<1>4. /\ r \in Seq(Atoms) /\ Len(r) = Len(s) + Len(t)
      /\ \A i \in 1..(Len(s) + Len(t)) : r[i] = IF i <= Len(s) THEN PseudoText(s)[i] ELSE PseudoText(t)[i - Len(s)]
  <2> DEFINE x == PseudoText(s)
             y == PseudoText(t)
  <2>1. x \in Seq(Atoms) /\ y \in Seq(Atoms) /\ Len(x) = Len(s) /\ Len(y) = Len(t)
    BY <1>3
  <2> HIDE DEF x, y
  <2>2. /\ x \o y \in Seq(Atoms) /\ Len(x \o y) = Len(x) + Len(y)
        /\ \A i \in 1..(Len(x) + Len(y)) : (x \o y)[i] = IF i <= Len(x) THEN x[i] ELSE y[i - Len(x)]
    BY <2>1, ConcatProperties
  <2> QED BY <2>1, <2>2 DEF x, y
<1>5. ASSUME NEW i \in 1..(Len(s) + Len(t)) PROVE l[i] = r[i]
  <2>1. CASE i <= Len(s)
    <3>1. i \in 1..Len(s)
      BY <1>1, <2>1
    <3>2. l[i] = Accented((s \o t)[i]) /\ (s \o t)[i] = s[i]
      BY <1>1, <1>2, <2>1
    <3>3. r[i] = PseudoText(s)[i] /\ PseudoText(s)[i] = Accented(s[i])
      BY <1>3, <1>4, <2>1, <3>1
    <3> HIDE DEF l, r
    <3> QED BY <3>2, <3>3
  <2>2. CASE ~(i <= Len(s))
    <3>1. i - Len(s) \in 1..Len(t)
      BY <1>1, <2>2
    <3>2. l[i] = Accented((s \o t)[i]) /\ (s \o t)[i] = t[i - Len(s)]
      BY <1>1, <1>2, <2>2
    <3>3. r[i] = PseudoText(t)[i - Len(s)] /\ PseudoText(t)[i - Len(s)] = Accented(t[i - Len(s)])
      BY <1>3, <1>4, <2>2, <3>1
    <3> HIDE DEF l, r
    <3> QED BY <3>2, <3>3
  <2> QED BY <2>1, <2>2
<1>6. l = r
  <2> HIDE DEF l, r
  <2>1. \A i \in 1..Len(l) : l[i] = r[i]
    BY <1>2, <1>5
  <2> QED BY <1>2, <1>4, <2>1, SeqEqual
<1> QED BY <1>6

\* A text put together of pieces is pseudo-translated piece by piece.
LEMMA PseudoOfPieces ==
  ASSUME NEW ss \in Seq(Seq(Atoms)), NEW tt \in Seq(Seq(Atoms)), Len(tt) = Len(ss),
         \A n \in 1..Len(ss) : tt[n] = PseudoText(ss[n])
  PROVE  FlattenSeq(tt) = PseudoText(FlattenSeq(ss))
<1> DEFINE N == Len(ss)
           T == {k \in Nat : k <= N => Flat(tt, k) = PseudoText(Flat(ss, k))}
<1>1. N \in Nat
  BY LenProperties
<1>2. /\ Flat(ss, 0) = <<>> /\ Flat(ss, N) = FlattenSeq(ss)
      /\ \A n \in 1..N : Flat(ss, n) = Flat(ss, n - 1) \o ss[n]
      /\ \A n \in 0..N : Flat(ss, n) \in Seq(Atoms)
  BY Flattens
<1>3. /\ Flat(tt, 0) = <<>> /\ Flat(tt, N) = FlattenSeq(tt)
      /\ \A n \in 1..N : Flat(tt, n) = Flat(tt, n - 1) \o tt[n]
  BY Flattens
<1>4. 0 \in T
  <2>1. PseudoText(<<>>) = <<>>
    <3>1. <<>> \in Seq(Atoms) /\ Len(<<>>) = 0
      BY EmptySeq
    <3>2. PseudoText(<<>>) \in Seq(Atoms) /\ Len(PseudoText(<<>>)) = 0
      BY <3>1, PseudoTextIsText
    <3> QED BY <3>2, EmptySeq
  <2> QED BY <1>2, <1>3, <2>1
<1>5. ASSUME NEW k \in Nat, k \in T PROVE k + 1 \in T
  <2> SUFFICES ASSUME k + 1 <= N PROVE Flat(tt, k + 1) = PseudoText(Flat(ss, k + 1))
    OBVIOUS
  <2>1. k + 1 \in 1..N /\ (k + 1) - 1 = k /\ k <= N /\ k \in 0..N
    BY <1>1
  <2>2. Flat(tt, k) = PseudoText(Flat(ss, k))
    BY <1>5, <2>1
  <2>3. Flat(tt, k + 1) = Flat(tt, k) \o tt[k + 1] /\ Flat(ss, k + 1) = Flat(ss, k) \o ss[k + 1]
    <3> HIDE DEF N
    <3> QED BY <1>2, <1>3, <2>1
  <2>4. Flat(ss, k) \in Seq(Atoms) /\ ss[k + 1] \in Seq(Atoms)
    <3>1. Flat(ss, k) \in Seq(Atoms)
      BY <1>2, <2>1
    <3> QED BY <2>1, <3>1, ElementOfSeq
  <2>5. tt[k + 1] = PseudoText(ss[k + 1])
    BY <2>1
  <2> HIDE DEF N
  <2> QED BY <2>2, <2>3, <2>4, <2>5, PseudoOfConcat
<1>6. \A k \in Nat : k \in T
  <2> HIDE DEF T
  <2> QED BY <1>4, <1>5, AllNaturals
<1>7. Flat(tt, N) = PseudoText(Flat(ss, N))
  BY <1>1, <1>6
<1> QED
  <2> HIDE DEF N
  <2> QED BY <1>2, <1>3, <1>7

Texts(runs) == [i \in DOMAIN runs |-> IF runs[i].kind = "text" THEN runs[i].text ELSE <<>>]

LEMMA TextsAreTexts ==
  ASSUME NEW runs \in Seq(RunSet)
  PROVE  /\ Texts(runs) \in Seq(Seq(Atoms)) /\ Len(Texts(runs)) = Len(runs)
         /\ \A i \in 1..Len(runs) : Texts(runs)[i] = IF runs[i].kind = "text" THEN runs[i].text ELSE <<>>
         /\ FlatText(runs) = FlattenSeq(Texts(runs)) /\ FlatText(runs) \in Seq(Atoms)
<1>1. Len(runs) \in Nat /\ DOMAIN runs = 1..Len(runs) /\ \A i \in 1..Len(runs) : runs[i] \in RunSet
  BY LenProperties, ElementOfSeq
<1>2. \A i \in 1..Len(runs) : Texts(runs)[i] = IF runs[i].kind = "text" THEN runs[i].text ELSE <<>>
  BY <1>1 DEF Texts
<1>3. \A i \in 1..Len(runs) : Texts(runs)[i] \in Seq(Atoms)
  <2>1. \A i \in 1..Len(runs) : runs[i].text \in Seq(Atoms)
    BY <1>1 DEF RunSet
  <2> QED BY <1>2, <2>1, EmptySeq
<1>4. Texts(runs) \in [1..Len(runs) -> Seq(Atoms)]
  <2>1. Texts(runs) = [i \in 1..Len(runs) |-> Texts(runs)[i]]
    BY <1>1 DEF Texts
  <2> QED BY <1>3, <2>1
<1>5. Texts(runs) \in Seq(Seq(Atoms)) /\ Len(Texts(runs)) = Len(runs)
  BY <1>1, <1>4
<1>6. FlatText(runs) = FlattenSeq(Texts(runs))
  BY DEF FlatText, Texts
<1>7. FlattenSeq(Texts(runs)) \in Seq(Atoms)
  BY <1>5, Lies
<1> QED BY <1>2, <1>5, <1>6, <1>7

LEMMA TextIsText ==
  ASSUME NEW t
  PROVE  Text(t).kind = "text" /\ Text(t).text = t
BY DEF Text

\* Runs that say the same still do so afterwards.
LEMMA PseudoOfRuns ==
  ASSUME NEW runs \in Seq(RunSet)
  PROVE  FlatText(Pseudo(runs)) = PseudoText(FlatText(runs))
<1> DEFINE new == Pseudo(runs)
<1>1. new \in Seq(RunSet) /\ Len(new) = Len(runs)
  BY PseudoIsRuns
<1>2. Len(runs) \in Nat /\ DOMAIN runs = 1..Len(runs) /\ \A i \in 1..Len(runs) : runs[i] \in RunSet
  BY LenProperties, ElementOfSeq
<1>3. \A i \in 1..Len(runs) : new[i] = IF runs[i].kind = "text" THEN Text(PseudoText(runs[i].text)) ELSE runs[i]
  BY <1>2 DEF Pseudo
<1> HIDE DEF new
<1>4. /\ Texts(new) \in Seq(Seq(Atoms)) /\ Len(Texts(new)) = Len(runs)
      /\ \A i \in 1..Len(runs) : Texts(new)[i] = IF new[i].kind = "text" THEN new[i].text ELSE <<>>
      /\ FlatText(new) = FlattenSeq(Texts(new))
  BY <1>1, TextsAreTexts
<1>5. /\ Texts(runs) \in Seq(Seq(Atoms)) /\ Len(Texts(runs)) = Len(runs)
      /\ \A i \in 1..Len(runs) : Texts(runs)[i] = IF runs[i].kind = "text" THEN runs[i].text ELSE <<>>
      /\ FlatText(runs) = FlattenSeq(Texts(runs))
  BY TextsAreTexts
<1>6. ASSUME NEW i \in 1..Len(runs) PROVE Texts(new)[i] = PseudoText(Texts(runs)[i])
  <2>1. CASE runs[i].kind = "text"
    <3>1. new[i].kind = "text" /\ new[i].text = PseudoText(runs[i].text)
      BY <1>3, <2>1, TextIsText
    <3> QED BY <1>4, <1>5, <2>1, <3>1
  <2>2. CASE runs[i].kind # "text"
    <3>1. new[i] = runs[i]
      BY <1>3, <2>2
    <3>2. Texts(new)[i] = <<>> /\ Texts(runs)[i] = <<>>
      BY <1>4, <1>5, <2>2, <3>1
    <3>3. PseudoText(<<>>) = <<>>
      BY DEF PseudoText
    <3> QED BY <3>2, <3>3
  <2> QED BY <2>1, <2>2
<1>7. FlattenSeq(Texts(new)) = PseudoText(FlattenSeq(Texts(runs)))
  BY <1>4, <1>5, <1>6, PseudoOfPieces
<1> QED BY <1>4, <1>5, <1>7 DEF new

LEMMA PseudoKeepsCodes ==
  ASSUME NEW runs \in Seq(RunSet)
  PROVE  Codes(Pseudo(runs)) = Codes(runs)
<1>1. DOMAIN Pseudo(runs) = DOMAIN runs
  BY PseudoIsRuns
<1>2. \A i \in DOMAIN runs : Pseudo(runs)[i] = IF runs[i].kind = "text" THEN Text(PseudoText(runs[i].text)) ELSE runs[i]
  BY DEF Pseudo
<1>3. \A i \in DOMAIN runs : (IF Pseudo(runs)[i].kind = "code" THEN <<Pseudo(runs)[i]>> ELSE <<>>)
                               = (IF runs[i].kind = "code" THEN <<runs[i]>> ELSE <<>>)
  <2> SUFFICES ASSUME NEW i \in DOMAIN runs
               PROVE  (IF Pseudo(runs)[i].kind = "code" THEN <<Pseudo(runs)[i]>> ELSE <<>>)
                        = (IF runs[i].kind = "code" THEN <<runs[i]>> ELSE <<>>)
    OBVIOUS
  <2>1. CASE runs[i].kind = "text"
    <3>1. Pseudo(runs)[i].kind = "text"
      BY <1>2, <2>1, TextIsText
    <3> QED BY <2>1, <3>1
  <2>2. CASE runs[i].kind # "text"
    BY <1>2, <2>2
  <2> QED BY <2>1, <2>2
<1> QED BY <1>1, <1>3 DEF Codes

-----------------------------------------------------------------------------
(* Names and inline content, from the reader to the target.                  *)

Nameless(segs) == Len(segs) = 1 /\ segs[1].id = NoName /\ segs[1].props = {} /\ segs[1].ir = <<>>
Named(segs) ==
  /\ \A i \in 1..Len(segs) : segs[i].id # NoName /\ SameText(segs[i])
  /\ \A i, j \in 1..Len(segs) : segs[i].id = segs[j].id => i = j
Full(segs) == \A i \in 1..Len(segs) : segs[i].ir # <<>>
Looked(segs, ir) == \A i \in 1..Len(segs) : segs[i].ir = Inline(ir, segs[i].id)

\* A block the native engine can translate: the segments of the target find what
\* is kept under their names, all others have it.
Ready(b) ==
  /\ IsBlock(b) /\ HasNames(b)
  /\ LET own == TargetSegs(b, Request)
     IN Nameless(own) \/ (Named(own) /\ Looked(own, TargetIR(b, Request)))
  /\ Nameless(SourceSegs(b)) \/ (Named(SourceSegs(b)) /\ Full(SourceSegs(b)))
  /\ \A loc : loc # Request =>
       LET segs == TargetSegs(b, loc) IN Nameless(segs) \/ (Named(segs) /\ Full(segs))

LEMMA NoSegs == Named(<<>>) /\ Full(<<>>) /\ \A ir : Looked(<<>>, ir)
BY DEF Named, Full, Looked

LEMMA SideIsReady ==
  ASSUME NEW side, IsSide(side), Names(side), NEW ir, IsIR(ir), NamesItsSegments(side, ir)
  PROVE  LET segs == Segments(side, ir) IN Nameless(segs) \/ (Named(segs) /\ Full(segs) /\ Looked(segs, ir))
<1> DEFINE segs == Segments(side, ir)
<1>1. CASE side.spans = <<>> /\ side.runs = <<>>
  BY <1>1, SegsOfSide, NoSegs
<1>2. CASE side.spans = <<>> /\ side.runs # <<>>
  <2>1. segs = <<Anonymous(side.runs)>>
    BY <1>2, SegsOfSide
  <2>2. Nameless(segs)
    BY <2>1 DEF Nameless, Anonymous
  <2> QED BY <2>2
<1>3. CASE side.spans # <<>>
  <2>1. /\ segs \in Seq(SegSet) /\ Len(segs) = Len(side.spans)
        /\ \A i \in 1..Len(segs) : segs[i].id = side.spans[i].id /\ segs[i].ir = Inline(ir, side.spans[i].id)
    BY <1>3, SegsOfSide
  <2>2. DOMAIN side.spans = 1..Len(segs)
    <3>1. side.spans \in Seq(SpanSet)
      BY DEF IsSide
    <3> QED BY <2>1, <3>1, LenProperties
  <2>3. /\ \A i, j \in 1..Len(segs) : side.spans[i].id = side.spans[j].id => i = j
        /\ \A i \in 1..Len(segs) : segs[i].ir # <<>> /\ SameText(segs[i])
    BY <2>2 DEF NamesItsSegments
  <2>4. \A i \in 1..Len(segs) : side.spans[i].id # NoName
    BY <2>2 DEF Names
  <2> HIDE DEF segs
  <2> QED BY <2>1, <2>3, <2>4 DEF Named, Full, Looked, segs
<1> QED BY <1>1, <1>2, <1>3

LEMMA SourceIsReady ==
  ASSUME NEW b, IsBlock(b), HasNames(b), IsXliff2Block(b)
  PROVE  Nameless(SourceSegs(b)) \/ (Named(SourceSegs(b)) /\ Full(SourceSegs(b)))
<1>1. IsSide(b.source) /\ Names(b.source) /\ IsIR(b.ir.source) /\ NamesItsSegments(b.source, b.ir.source)
  BY DEF IsBlock, HasNames, IsXliff2Block
<1> QED BY <1>1, SideIsReady, NoSegs DEF SourceSegs

LEMMA TargetsAreReady ==
  ASSUME NEW b, IsBlock(b), HasNames(b), IsXliff2Block(b), NEW loc
  PROVE  LET segs == TargetSegs(b, loc)
         IN Nameless(segs) \/ (Named(segs) /\ Full(segs) /\ Looked(segs, TargetIR(b, loc)))
<1>1. CASE Held(b, loc)
  <2>1. IsSide(b.targets[loc]) /\ Names(b.targets[loc]) /\ NamesItsSegments(b.targets[loc], TargetIR(b, loc))
    BY <1>1 DEF Held, IsBlock, HasNames, IsXliff2Block
  <2>2. IsIR(TargetIR(b, loc))
    BY TargetIRIsIR
  <2> QED BY <1>1, <2>1, <2>2, SideIsReady DEF TargetSegs
<1>2. CASE ~Held(b, loc)
  BY <1>2, NoSegs DEF TargetSegs
<1> QED BY <1>1, <1>2

LEMMA BlockIsReady ==
  ASSUME NEW b, IsBlock(b), HasNames(b), IsXliff2Block(b)
  PROVE  Ready(b)
BY SourceIsReady, TargetsAreReady DEF Ready

\* What seeding adds are ignorables of the source without a target, each once.
LEMMA MissingAre ==
  ASSUME NEW b, IsBlock(b), NEW own
  PROVE  /\ Missing(b, own) \in Seq(SegSet)
         /\ \A k \in 1..Len(Missing(b, own)) :
              \E i \in 1..Len(SourceSegs(b)) :
                /\ Missing(b, own)[k] = SourceSegs(b)[i] /\ Ignorable(SourceSegs(b)[i])
                /\ ~Present(own, SourceSegs(b)[i].id)
         /\ Named(SourceSegs(b)) => \A i, j \in 1..Len(Missing(b, own)) :
                                      Missing(b, own)[i].id = Missing(b, own)[j].id => i = j
<1> DEFINE source == SourceSegs(b)
           places == {i \in DOMAIN source : Ignorable(source[i]) /\ ~Present(own, source[i].id)}
           missing == Missing(b, own)
<1>1. source \in Seq(SegSet)
  BY SegsAreSegs
<1>2. places \in SUBSET (1..Len(source)) /\ Len(source) \in Nat
  BY <1>1, LenProperties
<1>3. missing = Those(source, places)
  BY DEF Missing
<1>4. \A i \in places : Ignorable(source[i]) /\ ~Present(own, source[i].id)
  OBVIOUS
<1> HIDE DEF source, places, missing
<1>5. /\ missing \in Seq(SegSet)
      /\ \A k \in 1..Len(missing) : \E i \in places : missing[k] = source[i]
      /\ \A i, j \in 1..Len(missing) : i < j =>
           \E m, n \in places : m < n /\ missing[i] = source[m] /\ missing[j] = source[n]
  <2> DEFINE some == Those(source, places)
  <2>1. /\ some \in Seq(SegSet)
        /\ \A k \in 1..Len(some) : \E i \in places : some[k] = source[i]
        /\ \A i, j \in 1..Len(some) : i < j =>
             \E m, n \in places : m < n /\ some[i] = source[m] /\ some[j] = source[n]
    BY <1>1, <1>2, ThoseSegs
  <2> HIDE DEF some
  <2>2. missing = some
    BY <1>3 DEF some
  <2> QED BY <2>1, <2>2
<1>6. ASSUME Named(source), NEW i \in 1..Len(missing), NEW j \in 1..Len(missing), missing[i].id = missing[j].id
      PROVE  i = j
  <2>1. Len(missing) \in Nat
    BY <1>5, LenProperties
  <2>2. \A m, n \in places : source[m].id = source[n].id => m = n
    BY <1>2, <1>6 DEF Named
  <2>3. ASSUME i < j PROVE FALSE
    <3>1. PICK m \in places, n \in places : m < n /\ missing[i] = source[m] /\ missing[j] = source[n]
      BY <1>5, <2>3
    <3>2. m \in Nat /\ n \in Nat
      BY <1>2
    <3> QED BY <1>6, <2>2, <3>1, <3>2
  <2>4. ASSUME j < i PROVE FALSE
    <3>1. PICK m \in places, n \in places : m < n /\ missing[j] = source[m] /\ missing[i] = source[n]
      BY <1>5, <2>4
    <3>2. m \in Nat /\ n \in Nat
      BY <1>2
    <3> QED BY <1>6, <2>2, <3>1, <3>2
  <2> QED BY <2>1, <2>3, <2>4
<1>7. \A k \in 1..Len(missing) : \E i \in 1..Len(source) :
        missing[k] = source[i] /\ Ignorable(source[i]) /\ ~Present(own, source[i].id)
  BY <1>2, <1>4, <1>5
<1>8. Named(source) => \A i, j \in 1..Len(missing) : missing[i].id = missing[j].id => i = j
  BY <1>6
<1> QED BY <1>5, <1>7, <1>8 DEF missing, source

\* Ignorables are cut out by spans.
LEMMA MissingNeedsSpans ==
  ASSUME NEW b, IsBlock(b), NEW own, Missing(b, own) # <<>>
  PROVE  b.source.spans # <<>>
<1> DEFINE missing == Missing(b, own)
<1>1. /\ missing \in Seq(SegSet)
      /\ \A k \in 1..Len(missing) : \E i \in 1..Len(SourceSegs(b)) : Ignorable(SourceSegs(b)[i])
  BY MissingAre
<1>2. 1 \in 1..Len(missing)
  <2> HIDE DEF missing
  <2>1. missing # <<>>
    BY DEF missing
  <2> QED BY <1>1, <2>1, EmptySeq, LenProperties
<1>3. PICK i \in 1..Len(SourceSegs(b)) : Ignorable(SourceSegs(b)[i])
  <2> HIDE DEF missing
  <2> QED BY <1>1, <1>2
<1> SUFFICES ASSUME b.source.spans = <<>> PROVE FALSE
  OBVIOUS
<1>4. CASE b.source.runs = <<>>
  <2>1. SourceSegs(b) = <<>>
    BY <1>4 DEF SourceSegs
  <2> QED BY <1>3, <2>1
<1>5. CASE b.source.runs # <<>>
  <2>1. IsSide(b.source) /\ IsIR(b.ir.source)
    BY DEF IsBlock
  <2>2. SourceSegs(b) = <<Anonymous(b.source.runs)>>
    BY <1>5, <2>1, SegsOfSide DEF SourceSegs
  <2>3. SourceSegs(b)[i].props = {}
    <3>1. i = 1
      BY <1>3, <2>2
    <3> QED BY <2>2, <3>1 DEF Anonymous
  <2> QED BY <1>3, <2>3 DEF Ignorable
<1> QED BY <1>4, <1>5

\* Beside a source with names the segments of a target have names.
LEMMA OwnSegsAreNamed ==
  ASSUME NEW b, IsBlock(b), HasNames(b), b.source.spans # <<>>
  PROVE  \A k \in 1..Len(OwnSegs(b)) : OwnSegs(b)[k].id # NoName
<1> DEFINE own == TargetSegs(b, Request)
<1>1. b.source.spans[1].id # NoName
  <2>1. b.source.spans \in Seq(SpanSet)
    BY DEF IsBlock, IsSide
  <2>2. 1 \in DOMAIN b.source.spans
    BY <2>1, EmptySeq, LenProperties
  <2> QED BY <2>2 DEF HasNames, Names
<1>2. CASE OwnSegs(b) # own
  <2>1. Len(OwnSegs(b)) = 1 /\ OwnSegs(b)[1].id = b.source.spans[1].id
    BY <1>2, OwnSegsAreSegs
  <2> QED BY <1>1, <2>1
<1>3. CASE OwnSegs(b) = own /\ ~Held(b, Request)
  <2>1. own = <<>>
    BY <1>3 DEF TargetSegs
  <2> HIDE DEF own
  <2> QED BY <1>3, <2>1
<1>4. CASE OwnSegs(b) = own /\ Held(b, Request)
  <2>1. IsSide(b.targets[Request]) /\ IsIR(TargetIR(b, Request)) /\ Names(b.targets[Request])
    BY <1>4, TargetIRIsIR DEF IsBlock, Held, HasNames
  <2>2. own = Segments(b.targets[Request], TargetIR(b, Request))
    BY <1>4 DEF TargetSegs
  <2>3. CASE b.targets[Request].spans # <<>>
    <3>1. /\ Len(own) = Len(b.targets[Request].spans)
          /\ \A i \in 1..Len(own) : own[i].id = b.targets[Request].spans[i].id
      BY <2>1, <2>2, <2>3, SegsOfSide
    <3>2. DOMAIN b.targets[Request].spans = 1..Len(own)
      <4>1. b.targets[Request].spans \in Seq(SpanSet)
        BY <2>1 DEF IsSide
      <4> QED BY <3>1, <4>1, LenProperties
    <3> HIDE DEF own
    <3> QED BY <1>4, <2>1, <3>1, <3>2 DEF Names
  <2>4. CASE b.targets[Request].spans = <<>> /\ own = <<>>
    <3> HIDE DEF own
    <3> QED BY <1>4, <2>4
  <2>5. CASE b.targets[Request].spans = <<>> /\ own # <<>>
    <3>1. own = <<Anonymous(b.targets[Request].runs)>>
      BY <2>1, <2>2, <2>5, SegsOfSide
    <3>2. OwnSegs(b) = <<[own[1] EXCEPT !.id = b.source.spans[1].id]>>
      BY <2>5 DEF OwnSegs
    <3>3. [own[1] EXCEPT !.id = b.source.spans[1].id].id = b.source.spans[1].id
      <4>1. own[1] = Anonymous(b.targets[Request].runs)
        BY <3>1
      <4> HIDE DEF own
      <4> QED BY <4>1 DEF Anonymous
    <3> DEFINE new == [own[1] EXCEPT !.id = b.source.spans[1].id]
    <3>4. OwnSegs(b) = <<new>> /\ new.id # NoName
      BY <1>1, <3>2, <3>3
    <3> HIDE DEF new
    <3> QED BY <3>4
  <2> QED BY <2>3, <2>4, <2>5
<1> QED BY <1>2, <1>3, <1>4

\* The target after the seeding: its own segments and the missing ones.
LEMMA SeededSegs ==
  ASSUME NEW b, IsBlock(b), SeedIgnorables(b) # b
  PROVE  LET c == SeedIgnorables(b)
             segs == OwnSegs(b) \o Missing(b, OwnSegs(b))
             new == TargetSegs(c, Request)
         IN /\ Held(b, Request) /\ Missing(b, OwnSegs(b)) # <<>> /\ b.source.spans # <<>>
            /\ segs \in Seq(SegSet) /\ new \in Seq(SegSet) /\ Len(new) = Len(segs)
            /\ \A k \in 1..Len(new) : /\ new[k].id = segs[k].id /\ new[k].props = segs[k].props
                                      /\ new[k].runs = segs[k].runs
                                      /\ new[k].ir = Inline(TargetIR(b, Request), segs[k].id)
            /\ TargetIR(c, Request) = TargetIR(b, Request)
            /\ Held(c, Request) /\ c.targets[Request].runs = Runs(segs)
            /\ c.targets[Request].spans # <<>> /\ Len(c.targets[Request].spans) = Len(segs)
            /\ \A k \in 1..Len(segs) : c.targets[Request].spans[k].id = segs[k].id
            /\ c.source = b.source /\ SourceSegs(c) = SourceSegs(b)
            /\ DOMAIN c.targets = DOMAIN b.targets
            /\ \A loc : loc # Request =>
                 /\ loc \in DOMAIN b.targets => c.targets[loc] = b.targets[loc]
                 /\ TargetSegs(c, loc) = TargetSegs(b, loc)
<1> DEFINE c == SeedIgnorables(b)
           segs == OwnSegs(b) \o Missing(b, OwnSegs(b))
           new == TargetSegs(c, Request)
           side == Side(Runs(segs), Spans(segs))
           ir == TargetIR(b, Request)
<1>1. /\ Held(b, Request) /\ Missing(b, OwnSegs(b)) # <<>>
      /\ segs \in Seq(SegSet) /\ segs # <<>> /\ Retargeted(c, b, side, NoIR)
  BY SeedForms
<1>2. b.source.spans # <<>>
  BY <1>1, MissingNeedsSpans
<1>3. DOMAIN NoIR = {} /\ IsIR(NoIR)
  BY DEF NoIR, IsIR
<1> HIDE DEF segs, c
<1>4. /\ IsSide(side) /\ side.spans # <<>> /\ Len(side.spans) = Len(segs)
      /\ \A k \in 1..Len(segs) : side.spans[k].id = segs[k].id
      /\ Segments(side, ir) = [i \in 1..Len(segs) |-> [id |-> segs[i].id, props |-> segs[i].props,
                                   runs |-> segs[i].runs, ir |-> Inline(ir, segs[i].id)]]
  BY <1>1, ReadBack
<1>5. side.runs = Runs(segs)
  BY DEF Side
<1> HIDE DEF side, ir
<1>6. /\ IsBlock(c) /\ Held(c, Request) /\ c.targets[Request] = side
      /\ c.source = b.source /\ c.ir.source = b.ir.source
      /\ DOMAIN c.targets = DOMAIN b.targets \cup {Request}
      /\ \A loc \in DOMAIN b.targets : loc # Request =>
           c.targets[loc] = b.targets[loc] /\ TargetIR(c, loc) = TargetIR(b, loc)
      /\ TargetIR(c, Request) = TargetIR(b, Request)
  BY <1>1, <1>3, <1>4, RetargetedIsBlock
<1>7. new = Segments(side, ir)
  BY <1>6 DEF TargetSegs, ir
<1>8. new \in Seq(SegSet)
  BY <1>6, SegsAreSegs
<1>9. /\ Len(new) = Len(segs)
      /\ \A k \in 1..Len(new) : /\ new[k].id = segs[k].id /\ new[k].props = segs[k].props
                                /\ new[k].runs = segs[k].runs /\ new[k].ir = Inline(ir, segs[k].id)
  <2>1. Len(segs) \in Nat
    BY <1>1, LenProperties
  <2>2. Len(new) = Len(segs)
    BY <1>4, <1>7, <2>1
  <2> HIDE DEF new
  <2> QED BY <1>4, <1>7, <2>2
<1>10. SourceSegs(c) = SourceSegs(b)
  BY <1>6 DEF SourceSegs
<1>11. DOMAIN c.targets = DOMAIN b.targets
  BY <1>1, <1>6 DEF Held
<1>12. \A loc : loc # Request => TargetSegs(c, loc) = TargetSegs(b, loc)
  BY <1>6, <1>11 DEF TargetSegs, Held
<1> HIDE DEF new
<1>13. \A loc : loc # Request => (loc \in DOMAIN b.targets => c.targets[loc] = b.targets[loc])
  BY <1>6
<1> QED BY <1>1, <1>2, <1>4, <1>5, <1>6, <1>8, <1>9, <1>10, <1>11, <1>12, <1>13 DEF c, segs, new, ir

\* Its segments have names, each one of its own.
LEMMA SeededAreNamed ==
  ASSUME NEW b, IsBlock(b), HasNames(b), SeedIgnorables(b) # b
  PROVE  LET own == OwnSegs(b)
             missing == Missing(b, own)
             segs == own \o missing
         IN /\ own \in Seq(SegSet) /\ missing \in Seq(SegSet) /\ Len(segs) = Len(own) + Len(missing)
            /\ \A k \in 1..Len(segs) : IF k <= Len(own) THEN k \in 1..Len(own) /\ segs[k] = own[k]
                                       ELSE /\ k - Len(own) \in 1..Len(missing)
                                            /\ segs[k] = missing[k - Len(own)]
            /\ \A k \in 1..Len(segs) : segs[k].id # NoName
            /\ HasNames(SeedIgnorables(b))
<1> DEFINE own == OwnSegs(b)
           missing == Missing(b, own)
           segs == own \o missing
<1>1. own \in Seq(SegSet) /\ missing \in Seq(SegSet) /\ Len(own) \in Nat /\ Len(missing) \in Nat
  BY OwnSegsAreSegs, MissingAre, LenProperties
<1>2. \A k \in 1..Len(own) : own[k].id # NoName
  BY SeededSegs, OwnSegsAreNamed
<1>3. \A k \in 1..Len(missing) : missing[k].id # NoName
  <2> SUFFICES ASSUME NEW k \in 1..Len(missing) PROVE missing[k].id # NoName
    OBVIOUS
  <2>1. PICK i \in 1..Len(SourceSegs(b)) : missing[k] = SourceSegs(b)[i]
    BY MissingAre
  <2>2. b.source.spans # <<>> /\ IsSide(b.source) /\ IsIR(b.ir.source) /\ Names(b.source)
    BY SeededSegs DEF IsBlock, HasNames
  <2>3. b.source.runs # <<>>
    <3> SUFFICES ASSUME b.source.runs = <<>> PROVE FALSE
      OBVIOUS
    <3>1. SourceSegs(b) = <<>>
      BY DEF SourceSegs
    <3> QED BY <2>1, <3>1
  <2>4. SourceSegs(b) = Segments(b.source, b.ir.source)
    BY <2>3 DEF SourceSegs
  <2>5. Len(SourceSegs(b)) = Len(b.source.spans) /\ SourceSegs(b)[i].id = b.source.spans[i].id
    BY <2>2, <2>4, SegsOfSide
  <2>6. i \in DOMAIN b.source.spans
    <3>1. b.source.spans \in Seq(SpanSet)
      BY <2>2 DEF IsSide
    <3> QED BY <2>5, <3>1, LenProperties
  <2> HIDE DEF missing
  <2> QED BY <2>1, <2>2, <2>5, <2>6 DEF Names
<1> HIDE DEF own, missing
<1>4. /\ Len(segs) = Len(own) + Len(missing)
      /\ \A k \in 1..(Len(own) + Len(missing)) : segs[k] = IF k <= Len(own) THEN own[k] ELSE missing[k - Len(own)]
  BY <1>1, ConcatProperties
<1>5. ASSUME NEW k \in 1..Len(segs)
      PROVE  IF k <= Len(own) THEN k \in 1..Len(own) /\ segs[k] = own[k]
             ELSE k - Len(own) \in 1..Len(missing) /\ segs[k] = missing[k - Len(own)]
  <2>1. k \in 1..(Len(own) + Len(missing))
    BY <1>4
  <2> HIDE DEF segs
  <2> QED BY <1>1, <1>4, <2>1
<1>6. \A k \in 1..Len(segs) : segs[k].id # NoName
  <2> HIDE DEF segs
  <2> QED BY <1>2, <1>3, <1>5
<1>7. HasNames(SeedIgnorables(b))
  <2> DEFINE c == SeedIgnorables(b)
  <2>1. /\ c.source = b.source /\ DOMAIN c.targets = DOMAIN b.targets
        /\ \A loc : loc # Request /\ loc \in DOMAIN b.targets => c.targets[loc] = b.targets[loc]
    BY SeededSegs
  <2>2. /\ Len(c.targets[Request].spans) = Len(segs)
        /\ \A k \in 1..Len(segs) : c.targets[Request].spans[k].id = segs[k].id
        /\ Held(c, Request)
    BY SeededSegs DEF own, missing
  <2>3. IsBlock(c)
    BY SeedIgnorablesIsBlock
  <2> HIDE DEF c
  <2>4. DOMAIN c.targets[Request].spans = 1..Len(segs)
    <3>1. c.targets[Request].spans \in Seq(SpanSet)
      BY <2>2, <2>3 DEF IsBlock, Held, IsSide
    <3> HIDE DEF segs
    <3> QED BY <2>2, <3>1, LenProperties
  <2> HIDE DEF segs
  <2>5. Names(c.targets[Request])
    BY <1>6, <2>2, <2>4 DEF Names
  <2>6. HasNames(c)
    BY <2>1, <2>5 DEF HasNames
  <2> QED BY <2>6 DEF c
<1> QED BY <1>1, <1>4, <1>5, <1>6, <1>7 DEF own, missing

\* After the seeding the block can be translated.
LEMMA SeededIsReady ==
  ASSUME NEW b, IsBlock(b), HasNames(b), IsXliff2Block(b)
  PROVE  Ready(SeedIgnorables(b))
<1> DEFINE c == SeedIgnorables(b)
           own == OwnSegs(b)
           missing == Missing(b, own)
           segs == own \o missing
           new == TargetSegs(c, Request)
           ir == TargetIR(b, Request)
           target == TargetSegs(b, Request)
<1>1. CASE c = b
  BY <1>1, BlockIsReady
<1>2. CASE c # b
  <2>1. /\ Held(b, Request) /\ b.source.spans # <<>>
        /\ new \in Seq(SegSet) /\ Len(new) = Len(segs)
        /\ \A k \in 1..Len(new) : /\ new[k].id = segs[k].id /\ new[k].runs = segs[k].runs
                                  /\ new[k].ir = Inline(ir, segs[k].id)
        /\ TargetIR(c, Request) = ir
        /\ SourceSegs(c) = SourceSegs(b)
        /\ \A loc : loc # Request => TargetSegs(c, loc) = TargetSegs(b, loc)
    BY <1>2, SeededSegs
  <2>2. /\ own \in Seq(SegSet) /\ missing \in Seq(SegSet) /\ Len(segs) = Len(own) + Len(missing)
        /\ \A k \in 1..Len(segs) : IF k <= Len(own) THEN k \in 1..Len(own) /\ segs[k] = own[k]
                                   ELSE k - Len(own) \in 1..Len(missing) /\ segs[k] = missing[k - Len(own)]
        /\ \A k \in 1..Len(segs) : segs[k].id # NoName
        /\ HasNames(c)
    BY <1>2, SeededAreNamed
  <2>3. IsBlock(c)
    BY SeedIgnorablesIsBlock
  <2>4. \A k \in 1..Len(own) : own[k].id # NoName
    BY <2>1, OwnSegsAreNamed
  <2>5. Len(own) \in Nat /\ Len(missing) \in Nat
    BY <2>2, LenProperties
  \* the names of the target were its own, and all there is inline is under them
  <2>6. \A i, j \in 1..Len(own) : own[i].id = own[j].id => i = j
    <3>1. CASE own = target
      <4>1. Nameless(target) \/ Named(target)
        BY TargetsAreReady
      <4>2. ~Nameless(target)
        <5> SUFFICES ASSUME Nameless(target) PROVE FALSE
          OBVIOUS
        <5>1. Len(own) = 1 /\ own[1].id = NoName
          BY <3>1 DEF Nameless
        <5> HIDE DEF own
        <5> QED BY <2>4, <5>1
      <4> QED BY <3>1, <4>1, <4>2 DEF Named
    <3>2. CASE own # target
      <4>1. Len(own) = 1
        BY <3>2, OwnSegsAreSegs
      <4> HIDE DEF own
      <4> QED BY <4>1
    <3> QED BY <3>1, <3>2
  <2>7. \A i, j \in 1..Len(missing) : missing[i].id = missing[j].id => i = j
    <3>1. Nameless(SourceSegs(b)) \/ Named(SourceSegs(b))
      BY SourceIsReady
    <3>2. ~Nameless(SourceSegs(b))
      <4> SUFFICES ASSUME Nameless(SourceSegs(b)) PROVE FALSE
        OBVIOUS
      <4>1. missing # <<>>
        BY <1>2, SeededSegs
      <4>2. 1 \in 1..Len(missing)
        <5> HIDE DEF missing
        <5> QED BY <2>2, <4>1, EmptySeq, LenProperties
      <4>3. PICK i \in 1..Len(SourceSegs(b)) : Ignorable(SourceSegs(b)[i])
        <5>1. \A k \in 1..Len(missing) : \E i \in 1..Len(SourceSegs(b)) : Ignorable(SourceSegs(b)[i])
          BY MissingAre
        <5> HIDE DEF missing
        <5> QED BY <4>2, <5>1
      <4>4. i = 1 /\ SourceSegs(b)[1].props = {}
        BY <4>3 DEF Nameless
      <4> QED BY <4>3, <4>4 DEF Ignorable
    <3> QED BY <3>1, <3>2, MissingAre
  <2>8. \A k \in 1..Len(missing) : ~Present(own, missing[k].id)
    <3> SUFFICES ASSUME NEW k \in 1..Len(missing) PROVE ~Present(own, missing[k].id)
      OBVIOUS
    <3>1. PICK i \in 1..Len(SourceSegs(b)) : missing[k] = SourceSegs(b)[i] /\ ~Present(own, SourceSegs(b)[i].id)
      BY MissingAre
    <3> HIDE DEF missing, own
    <3> QED BY <3>1
  <2>9. \A k \in 1..Len(missing) : \A i \in 1..Len(own) : own[i].id # missing[k].id
    <3>1. DOMAIN own = 1..Len(own)
      BY <2>2, LenProperties
    <3> HIDE DEF missing, own
    <3> QED BY <2>8, <3>1 DEF Present, PlacesOf
  <2>10. \A k \in 1..Len(segs) : \A l \in 1..Len(segs) : segs[k].id = segs[l].id => k = l
    <3> HIDE DEF segs, own, missing
    <3> SUFFICES ASSUME NEW k \in 1..Len(segs), NEW l \in 1..Len(segs), segs[k].id = segs[l].id PROVE k = l
      OBVIOUS
    <3>1. k \in Nat /\ l \in Nat
      BY <2>2, <2>5
    <3>2. CASE k <= Len(own) /\ l <= Len(own)
      BY <2>2, <2>6, <3>2
    <3>3. CASE k <= Len(own) /\ ~(l <= Len(own))
      <4>1. k \in 1..Len(own) /\ segs[k] = own[k]
        BY <2>2, <3>3
      <4>2. l - Len(own) \in 1..Len(missing) /\ segs[l] = missing[l - Len(own)]
        BY <2>2, <3>3
      <4> QED BY <2>9, <4>1, <4>2
    <3>4. CASE ~(k <= Len(own)) /\ l <= Len(own)
      <4>1. l \in 1..Len(own) /\ segs[l] = own[l]
        BY <2>2, <3>4
      <4>2. k - Len(own) \in 1..Len(missing) /\ segs[k] = missing[k - Len(own)]
        BY <2>2, <3>4
      <4> QED BY <2>9, <4>1, <4>2
    <3>5. CASE ~(k <= Len(own)) /\ ~(l <= Len(own))
      <4>1. l - Len(own) \in 1..Len(missing) /\ segs[l] = missing[l - Len(own)]
        BY <2>2, <3>5
      <4>2. k - Len(own) \in 1..Len(missing) /\ segs[k] = missing[k - Len(own)]
        BY <2>2, <3>5
      <4>3. k - Len(own) = l - Len(own)
        BY <2>7, <4>1, <4>2
      <4> QED BY <2>5, <3>1, <4>3
    <3> QED BY <3>2, <3>3, <3>4, <3>5
  <2>11. DOMAIN ir \subseteq {NoName} \cup {b.targets[Request].spans[i].id : i \in DOMAIN b.targets[Request].spans}
    BY <2>1 DEF IsXliff2Block, NamesItsSegments, Held
  <2>12. IsSide(b.targets[Request]) /\ IsIR(ir)
    BY <2>1, TargetIRIsIR DEF Held, IsBlock
  <2>13. target = Segments(b.targets[Request], ir)
    BY <2>1 DEF TargetSegs
  <2>14. \A id \in DOMAIN ir : id # NoName => \E i \in 1..Len(own) : own = target /\ own[i].id = id
    <3>1. CASE b.targets[Request].spans = <<>>
      BY <2>11, <3>1
    <3>2. CASE b.targets[Request].spans # <<>>
      <4>1. own = target
        BY <3>2, OwnSegsAreSegs
      <4>2. /\ Len(target) = Len(b.targets[Request].spans)
            /\ \A i \in 1..Len(target) : target[i].id = b.targets[Request].spans[i].id
        BY <2>12, <2>13, <3>2, SegsOfSide
      <4>3. DOMAIN b.targets[Request].spans = 1..Len(target)
        <5>1. b.targets[Request].spans \in Seq(SpanSet)
          BY <2>12 DEF IsSide
        <5> QED BY <4>2, <5>1, LenProperties
      <4> HIDE DEF own, target, ir
      <4> QED BY <2>11, <4>1, <4>2, <4>3
    <3> QED BY <3>1, <3>2
  \* a segment without inline content says nothing else than its runs
  <2>15. ASSUME NEW k \in 1..Len(new) PROVE SameText(new[k])
    <3>1. new[k].runs = segs[k].runs /\ new[k].ir = Inline(ir, segs[k].id) /\ segs[k].id # NoName
      BY <2>1, <2>2
    <3>2. CASE segs[k].id \notin DOMAIN ir
      BY <3>1, <3>2 DEF SameText, Inline
    <3>3. CASE segs[k].id \in DOMAIN ir
      <4>1. PICK i \in 1..Len(own) : own = target /\ own[i].id = segs[k].id
        BY <2>14, <3>1, <3>3
      <4>2. segs[k] = target[i]
        <5>1. k <= Len(own)
          <6> SUFFICES ASSUME ~(k <= Len(own)) PROVE FALSE
            OBVIOUS
          <6>1. k - Len(own) \in 1..Len(missing) /\ segs[k] = missing[k - Len(own)]
            BY <2>1, <2>2
          <6> HIDE DEF segs, own, missing
          <6> QED BY <2>9, <4>1, <6>1
        <5>2. k \in 1..Len(own) /\ segs[k] = own[k]
          BY <2>1, <2>2, <5>1
        <5>3. k = i
          <6> HIDE DEF segs, own
          <6> QED BY <2>6, <4>1, <5>2
        <5> QED BY <4>1, <5>2, <5>3
      <4>3. Named(target) /\ Looked(target, ir)
        <5>1. ~Nameless(target)
          <6> SUFFICES ASSUME Nameless(target) PROVE FALSE
            OBVIOUS
          <6>1. Len(own) = 1 /\ own[1].id = NoName
            BY <4>1 DEF Nameless
          <6> HIDE DEF own
          <6> QED BY <2>4, <6>1
        <5> QED BY <5>1, TargetsAreReady
      <4>4. i \in 1..Len(target)
        BY <4>1
      <4>5. SameText(target[i]) /\ target[i].ir = Inline(ir, target[i].id)
        BY <4>3, <4>4 DEF Named, Looked
      <4>6. new[k].runs = target[i].runs /\ new[k].ir = target[i].ir
        <5> HIDE DEF new, segs, target, ir
        <5> QED BY <3>1, <4>2, <4>5
      <4> HIDE DEF new, target
      <4> QED BY <4>5, <4>6 DEF SameText
    <3> QED BY <3>2, <3>3
  <2>16. Named(new) /\ Looked(new, ir)
    <3>1. \A k \in 1..Len(new) : new[k].id # NoName /\ new[k].ir = Inline(ir, new[k].id)
      <4> HIDE DEF new, segs
      <4> QED BY <2>1, <2>2
    <3>2. \A k, l \in 1..Len(new) : new[k].id = new[l].id => k = l
      <4> HIDE DEF new, segs
      <4> QED BY <2>1, <2>10
    <3> HIDE DEF new, ir
    <3> QED BY <2>15, <3>1, <3>2 DEF Named, Looked
  <2>17. \A loc : loc # Request =>
           LET some == TargetSegs(c, loc) IN Nameless(some) \/ (Named(some) /\ Full(some))
    BY <2>1, TargetsAreReady
  <2>18. Nameless(SourceSegs(c)) \/ (Named(SourceSegs(c)) /\ Full(SourceSegs(c)))
    BY <2>1, SourceIsReady
  <2>19. Named(TargetSegs(c, Request)) /\ Looked(TargetSegs(c, Request), TargetIR(c, Request))
    BY <2>1, <2>16
  <2> HIDE DEF c
  <2>20. Ready(c)
    BY <2>2, <2>3, <2>17, <2>18, <2>19 DEF Ready
  <2> QED BY <2>20 DEF c
<1> QED BY <1>1, <1>2

-----------------------------------------------------------------------------
(* Targets are whole.                                                        *)

LEMMA PseudoKeepsText ==
  ASSUME NEW seg \in SegSet, SameText(seg), seg.ir # <<>>
  PROVE  LET ir == [i \in DOMAIN seg.ir |-> Pseudo(seg.ir[i])]
         IN ir # <<>> /\ FlatText(ir[1]) = FlatText(Pseudo(seg.runs))
<1> DEFINE ir == [i \in DOMAIN seg.ir |-> Pseudo(seg.ir[i])]
<1>1. seg.ir \in Seq(Seq(RunSet)) /\ seg.runs \in Seq(RunSet)
  BY DEF SegSet
<1>2. 1 \in DOMAIN seg.ir /\ DOMAIN seg.ir = 1..Len(seg.ir) /\ seg.ir[1] \in Seq(RunSet)
  <2>1. Len(seg.ir) \in Nat \ {0} /\ DOMAIN seg.ir = 1..Len(seg.ir)
    BY <1>1, EmptySeq, LenProperties
  <2>2. 1 \in 1..Len(seg.ir)
    BY <2>1
  <2> QED BY <1>1, <2>1, <2>2, ElementOfSeq
<1>3. ir[1] = Pseudo(seg.ir[1]) /\ DOMAIN ir = DOMAIN seg.ir
  BY <1>2
<1> HIDE DEF ir
<1>4. FlatText(seg.ir[1]) = FlatText(seg.runs)
  BY DEF SameText
<1>5. FlatText(ir[1]) = FlatText(Pseudo(seg.runs))
  BY <1>1, <1>2, <1>3, <1>4, PseudoOfRuns
<1>6. ir # <<>>
  BY <1>2, <1>3
<1> QED BY <1>5, <1>6 DEF ir

\* A new segment says inside what its runs say; where it has nothing inside,
\* nothing is kept under its name.
LEMMA NewSegText ==
  ASSUME NEW c, Ready(c), NEW seg \in SegSet, SameText(seg)
  PROVE  /\ SameText(NewSeg(c, seg))
         /\ (/\ NewSeg(c, seg).ir = <<>> /\ seg.id # NoName
             /\ seg.ir # <<>> \/ seg.ir = Inline(TargetIR(c, Request), seg.id))
            => Inline(TargetIR(c, Request), seg.id) = <<>>
<1> DEFINE own == TargetSegs(c, Request)
           new == NewSeg(c, seg)
<1>1. IsBlock(c) /\ own \in Seq(SegSet)
  BY SegsAreSegs DEF Ready
<1>2. seg = [id |-> seg.id, props |-> seg.props, runs |-> seg.runs, ir |-> seg.ir]
  BY DEF SegSet
<1>3. CASE ~Ignorable(seg)
  <2> DEFINE runs == Pseudo(seg.runs)
             ir == [i \in DOMAIN seg.ir |-> Pseudo(seg.ir[i])]
  <2>1. new = [seg EXCEPT !.runs = runs, !.ir = ir]
    BY <1>3 DEF NewSeg
  <2>2. seg.ir # <<>> => ir # <<>> /\ FlatText(ir[1]) = FlatText(runs)
    BY PseudoKeepsText
  <2>3. seg.ir = <<>> => ir = <<>>
    <3>1. seg.ir = <<>> => DOMAIN seg.ir = {}
      OBVIOUS
    <3> QED BY <3>1
  <2> HIDE DEF runs, ir, new
  <2>4. new.runs = runs /\ new.ir = ir
    BY <1>2, <2>1
  <2>5. SameText(new)
    BY <2>2, <2>3, <2>4 DEF SameText
  <2>6. new.ir = <<>> => seg.ir = <<>>
    BY <2>2, <2>4
  <2> QED BY <2>5, <2>6 DEF new
<1>4. CASE Ignorable(seg) /\ PlacesOf(own, seg.id) = {}
  <2>1. new = seg
    BY <1>4 DEF NewSeg, Kept
  <2> QED BY <2>1
<1>5. CASE Ignorable(seg) /\ PlacesOf(own, seg.id) # {}
  <2>1. PICK k \in 1..Len(own) : Existing(c, seg.id) = own[k] /\ own[k].id = seg.id
    BY <1>1, <1>5, ExistingIsThere
  <2>2. new = [seg EXCEPT !.runs = own[k].runs, !.ir = own[k].ir]
    BY <1>5, <2>1 DEF NewSeg, Kept
  <2> HIDE DEF new, own
  <2>3. new.runs = own[k].runs /\ new.ir = own[k].ir
    BY <1>2, <2>2
  <2>4. Nameless(own) \/ (Named(own) /\ Looked(own, TargetIR(c, Request)))
    BY DEF Ready, own
  <2>5. CASE Nameless(own)
    <3>1. k = 1 /\ own[1].ir = <<>> /\ own[1].id = NoName
      BY <2>1, <2>5 DEF Nameless
    <3> QED BY <2>1, <2>3, <3>1 DEF SameText, new
  <2>6. CASE Named(own) /\ Looked(own, TargetIR(c, Request))
    <3>1. SameText(own[k]) /\ own[k].ir = Inline(TargetIR(c, Request), own[k].id)
      BY <2>1, <2>6 DEF Named, Looked
    <3>2. SameText(new)
      BY <2>3, <3>1 DEF SameText
    <3>3. new.ir = <<>> => Inline(TargetIR(c, Request), seg.id) = <<>>
      BY <2>1, <2>3, <3>1
    <3> QED BY <3>2, <3>3 DEF new
  <2> QED BY <2>4, <2>5, <2>6
<1> QED BY <1>3, <1>4, <1>5

\* Whatever side the translation starts from.
LEMMA BaseIsReady ==
  ASSUME NEW c, Ready(c), NEW loc
  PROVE  LET base == SegsOf(c, loc)
         IN \/ Nameless(base)
            \/ /\ Named(base)
               /\ \A i \in 1..Len(base) : base[i].ir # <<>> \/ base[i].ir = Inline(TargetIR(c, Request), base[i].id)
<1>1. CASE loc = NoLocale
  BY <1>1 DEF Ready, SegsOf, Full
<1>2. CASE loc # NoLocale /\ loc # Request
  <2>1. SegsOf(c, loc) = TargetSegs(c, loc)
    BY <1>2 DEF SegsOf
  <2>2. Nameless(TargetSegs(c, loc)) \/ (Named(TargetSegs(c, loc)) /\ Full(TargetSegs(c, loc)))
    BY <1>2 DEF Ready
  <2> QED BY <2>1, <2>2 DEF Full
<1>3. CASE loc # NoLocale /\ loc = Request
  <2>1. SegsOf(c, loc) = TargetSegs(c, Request)
    BY <1>3 DEF SegsOf
  <2> QED BY <2>1 DEF Ready, Looked
<1> QED BY <1>1, <1>2, <1>3

LEMMA TranslatedHasText ==
  ASSUME NEW c, Ready(c), NEW force
  PROVE  LET new == TargetSegs(ApplyPseudo(c, force), Request)
         IN \A k \in 1..Len(new) : SameText(new[k])
<1> DEFINE d == ApplyPseudo(c, force)
           new == TargetSegs(d, Request)
           base == SegsOf(c, BaseLocale(c, force))
           segs == Renewed(c, base)
           old == TargetIR(c, Request)
<1>1. IsBlock(c)
  BY DEF Ready
<1>2. CASE d = c
  <2>1. \A k \in 1..Len(TargetSegs(c, Request)) : SameText(TargetSegs(c, Request)[k])
    <3>1. CASE Nameless(TargetSegs(c, Request))
      <4>1. Len(TargetSegs(c, Request)) = 1 /\ TargetSegs(c, Request)[1].ir = <<>>
        BY <3>1 DEF Nameless
      <4>2. \A k \in 1..Len(TargetSegs(c, Request)) : k = 1
        BY <4>1
      <4> QED BY <4>1, <4>2 DEF SameText
    <3>2. CASE Named(TargetSegs(c, Request))
      BY <3>2 DEF Named
    <3> QED BY <3>1, <3>2 DEF Ready
  <2> QED BY <1>2, <2>1
<1>3. CASE base # <<>> /\ Retargeted(d, c, NewSide(segs), NewIR(segs))
  <2>1. base \in Seq(SegSet)
    BY <1>1, SegsAreSegs
  <2>2. \/ Nameless(base)
        \/ Named(base) /\ \A i \in 1..Len(base) : base[i].ir # <<>> \/ base[i].ir = Inline(old, base[i].id)
    BY BaseIsReady
  <2> HIDE DEF base
  <2>3. /\ segs \in Seq(SegSet) /\ segs # <<>> /\ Len(segs) = Len(base)
        /\ \A i \in 1..Len(base) : /\ segs[i] = NewSeg(c, base[i]) /\ base[i] \in SegSet
                                   /\ segs[i].id = base[i].id /\ segs[i].props = base[i].props
    BY <1>1, <1>3, <2>1, RenewedAreSegs
  <2> HIDE DEF segs
  <2>4. IsSide(NewSide(segs)) /\ IsIR(NewIR(segs))
    BY <2>3, NewSideIsSide, NewIRKeeps
  <2>5. /\ Held(d, Request) /\ d.targets[Request] = NewSide(segs)
        /\ TargetIR(d, Request) = IF DOMAIN NewIR(segs) = {} THEN old ELSE NewIR(segs)
    <3>1. Retargeted(d, c, NewSide(segs), NewIR(segs))
      BY <1>3
    <3> HIDE DEF d
    <3> QED BY <1>1, <2>4, <3>1, RetargetedIsBlock
  <2> DEFINE ir == TargetIR(d, Request)
  <2>6. new = Segments(NewSide(segs), ir)
    BY <2>5 DEF TargetSegs
  <2>7. CASE ~NeedsOverlay(segs)
    <3>1. NewSide(segs).spans = <<>>
      BY <2>7 DEF NewSide, Side
    <3>2. new = <<>> \/ new = <<Anonymous(NewSide(segs).runs)>>
      BY <2>6, <3>1, ThreeForms
    <3>3. \A k \in 1..Len(new) : new[k].ir = <<>>
      <4>1. Len(new) = 0 \/ (Len(new) = 1 /\ new[1].ir = <<>>)
        BY <3>2 DEF Anonymous
      <4> HIDE DEF new
      <4> QED BY <4>1
    <3> HIDE DEF new
    <3>4. \A k \in 1..Len(new) : SameText(new[k])
      BY <3>3 DEF SameText
    <3> QED BY <3>4 DEF new
  <2>8. CASE NeedsOverlay(segs)
    <3>1. Named(base) /\ \A i \in 1..Len(base) : base[i].ir # <<>> \/ base[i].ir = Inline(old, base[i].id)
      <4> SUFFICES ASSUME Nameless(base) PROVE FALSE
        BY <2>2
      <4>1. Len(segs) = 1 /\ segs[1].props = {} /\ segs[1].id = NoName
        <5>1. 1 \in 1..Len(base) /\ Len(base) = 1
          BY DEF Nameless
        <5> QED BY <2>3, <5>1 DEF Nameless
      <4> QED BY <2>8, <4>1 DEF NeedsOverlay
    <3>2. /\ Len(new) = Len(segs)
          /\ \A k \in 1..Len(segs) : new[k].runs = segs[k].runs /\ new[k].ir = Inline(ir, segs[k].id)
      <4>1. new = [i \in 1..Len(segs) |-> [id |-> segs[i].id, props |-> segs[i].props,
                                           runs |-> segs[i].runs, ir |-> Inline(ir, segs[i].id)]]
        <5> HIDE DEF ir, new
        <5>1. NewSide(segs) = Side(Runs(segs), Spans(segs))
          BY <2>8 DEF NewSide
        <5> QED BY <2>3, <2>6, <5>1, ReadBack
      <4>2. Len(segs) \in Nat
        BY <2>3, LenProperties
      <4> HIDE DEF ir, new
      <4> QED BY <4>1, <4>2
    <3>3. \A k \in 1..Len(segs) :
            /\ segs[k].id = base[k].id /\ base[k].id # NoName /\ SameText(segs[k])
            /\ segs[k].ir = <<>> => Inline(old, segs[k].id) = <<>>
      <4> SUFFICES ASSUME NEW k \in 1..Len(segs)
                   PROVE  /\ segs[k].id = base[k].id /\ base[k].id # NoName /\ SameText(segs[k])
                          /\ segs[k].ir = <<>> => Inline(old, segs[k].id) = <<>>
        OBVIOUS
      <4>1. /\ segs[k] = NewSeg(c, base[k]) /\ base[k] \in SegSet /\ segs[k].id = base[k].id
            /\ base[k].id # NoName /\ SameText(base[k])
            /\ base[k].ir # <<>> \/ base[k].ir = Inline(old, base[k].id)
        <5> HIDE DEF old
        <5> QED BY <2>3, <3>1 DEF Named
      <4>2. /\ SameText(NewSeg(c, base[k]))
            /\ NewSeg(c, base[k]).ir = <<>> => Inline(old, base[k].id) = <<>>
        BY <4>1, NewSegText
      <4> HIDE DEF old
      <4> QED BY <4>1, <4>2
    <3>4. ASSUME NEW k \in 1..Len(segs) PROVE SameText(new[k])
      <4>1. CASE segs[k].id \notin DOMAIN ir
        <5>1. new[k].ir = <<>>
          <6> HIDE DEF ir, new
          <6> QED BY <3>2, <4>1 DEF Inline
        <5> HIDE DEF new
        <5> QED BY <5>1 DEF SameText
      <4>2. CASE segs[k].id \in DOMAIN ir /\ DOMAIN NewIR(segs) = {}
        <5>1. ir = old
          BY <2>5, <4>2
        <5>2. segs[k].ir = <<>>
          BY <2>3, <3>3, <4>2, NewIRKeeps
        <5>3. Inline(ir, segs[k].id) = <<>>
          BY <3>3, <5>1, <5>2
        <5>4. new[k].ir = <<>>
          BY <3>2, <5>3
        <5> HIDE DEF new
        <5> QED BY <5>4 DEF SameText
      <4>3. CASE segs[k].id \in DOMAIN ir /\ DOMAIN NewIR(segs) # {}
        <5>1. ir = NewIR(segs)
          BY <2>5, <4>3
        <5> HIDE DEF ir, new
        <5>2. PICK i \in 1..Len(segs) :
                segs[i].ir # <<>> /\ segs[i].id = segs[k].id /\ NewIR(segs)[segs[k].id] = segs[i].ir[1]
          BY <2>3, <4>3, <5>1, NewIRKeeps
        <5>3. i = k
          BY <2>3, <3>1, <5>2 DEF Named
        <5>4. new[k].ir = <<segs[k].ir[1]>> /\ new[k].runs = segs[k].runs
          BY <3>2, <4>3, <5>1, <5>2, <5>3 DEF Inline
        <5>5. FlatText(segs[k].ir[1]) = FlatText(segs[k].runs)
          BY <3>3, <5>2, <5>3 DEF SameText
        <5>6. new[k].ir[1] = segs[k].ir[1]
          BY <5>4
        <5> QED BY <5>4, <5>5, <5>6 DEF SameText
      <4> QED BY <4>1, <4>2, <4>3
    <3> HIDE DEF new
    <3>5. \A k \in 1..Len(new) : SameText(new[k])
      BY <3>2, <3>4
    <3> QED BY <3>5 DEF new
  <2> QED BY <2>7, <2>8
<1>4. d = c \/ (base # <<>> /\ Retargeted(d, c, NewSide(segs), NewIR(segs)))
  BY <1>1, ApplyPseudoForms
<1> QED BY <1>2, <1>3, <1>4

\* What the native engine makes of a block has a whole target.
LEMMA NativeIsWhole ==
  ASSUME NEW b, IsBlock(b), HasNames(b), NEW lang, NEW xliff2, xliff2 => IsXliff2Block(b)
  PROVE  WholeTarget(NativeBlock(b, lang, xliff2), xliff2)
<1> DEFINE c == NativeBlock(b, lang, xliff2)
           segs == TargetSegs(c, Request)
<1>1. IsBlock(c)
  BY NativeBlockIsBlock
<1>2. Held(c, Request) => Runs(segs) = c.targets[Request].runs
  BY <1>1, TargetsCover
<1>3. xliff2 => \A k \in 1..Len(segs) : SameText(segs[k])
  <2> SUFFICES ASSUME xliff2 PROVE \A k \in 1..Len(segs) : SameText(segs[k])
    OBVIOUS
  <2>1. Ready(SeedIgnorables(b))
    BY SeededIsReady
  <2>2. c = ApplyPseudo(SeedIgnorables(b), ~SameLanguage(lang))
    BY DEF NativeBlock
  <2> QED BY <2>1, <2>2, TranslatedHasText
<1>4. DOMAIN segs = 1..Len(segs)
  BY <1>1, SegsAreSegs, LenProperties
<1> HIDE DEF c
<1>5. WholeTarget(c, xliff2)
  BY <1>2, <1>3, <1>4 DEF WholeTarget
<1> QED BY <1>5 DEF c

-----------------------------------------------------------------------------
(* What comes through.                                                       *)

LEMMA HasTextSomewhere ==
  ASSUME NEW runs \in Seq(RunSet)
  PROVE  RunsHaveText(runs) <=> \E i \in 1..Len(runs) :
           runs[i].kind = "text" /\ \E k \in 1..Len(runs[i].text) : runs[i].text[k] \notin White
<1> DEFINE ss == Texts(runs)
           all == FlatText(runs)
<1>1. /\ ss \in Seq(Seq(Atoms)) /\ Len(ss) = Len(runs) /\ all = FlattenSeq(ss) /\ all \in Seq(Atoms)
      /\ \A i \in 1..Len(runs) : ss[i] = IF runs[i].kind = "text" THEN runs[i].text ELSE <<>>
  BY TextsAreTexts
<1>2. RunsHaveText(runs) <=> \E c \in ToSet(all) : c \notin White
  BY DEF RunsHaveText
<1> HIDE DEF ss, all
<1>3. DOMAIN all = 1..Len(all)
  BY <1>1, LenProperties
<1>4. RunsHaveText(runs) <=> \E p \in 1..Len(all) : all[p] \notin White
  BY <1>2, <1>3 DEF ToSet
<1>5. /\ \A p \in 1..Len(all) : \E n \in 1..Len(ss) : \E k \in 1..Len(ss[n]) : ss[n][k] = all[p]
      /\ \A n \in 1..Len(ss) : \A k \in 1..Len(ss[n]) : \E p \in 1..Len(all) : all[p] = ss[n][k]
  BY <1>1, Elements
<1>6. (\E p \in 1..Len(all) : all[p] \notin White)
        <=> (\E n \in 1..Len(ss) : \E k \in 1..Len(ss[n]) : ss[n][k] \notin White)
  BY <1>5
<1>7. ASSUME NEW n \in 1..Len(ss), NEW k \in 1..Len(ss[n]), ss[n][k] \notin White
      PROVE  \E i \in 1..Len(runs) :
               runs[i].kind = "text" /\ \E l \in 1..Len(runs[i].text) : runs[i].text[l] \notin White
  <2>1. n \in 1..Len(runs) /\ ss[n] = IF runs[n].kind = "text" THEN runs[n].text ELSE <<>>
    BY <1>1
  <2>2. runs[n].kind = "text"
    <3> SUFFICES ASSUME runs[n].kind # "text" PROVE FALSE
      OBVIOUS
    <3>1. ss[n] = <<>>
      BY <2>1
    <3> QED BY <1>7, <3>1
  <2>3. ss[n] = runs[n].text
    BY <2>1, <2>2
  <2> QED BY <1>7, <2>1, <2>2, <2>3
<1>8. ASSUME NEW i \in 1..Len(runs), runs[i].kind = "text",
             NEW l \in 1..Len(runs[i].text), runs[i].text[l] \notin White
      PROVE  \E n \in 1..Len(ss) : \E k \in 1..Len(ss[n]) : ss[n][k] \notin White
  <2>1. i \in 1..Len(ss) /\ ss[i] = runs[i].text
    BY <1>1, <1>8
  <2> QED BY <1>8, <2>1
<1> QED BY <1>4, <1>6, <1>7, <1>8

\* A run of a segment is one of its side.
LEMMA RunsOfASide ==
  ASSUME NEW segs \in Seq(SegSet)
  PROVE  LET all == Runs(segs)
         IN /\ \A p \in 1..Len(all) : \E n \in 1..Len(segs) : \E k \in 1..Len(segs[n].runs) : segs[n].runs[k] = all[p]
            /\ \A n \in 1..Len(segs) : \A k \in 1..Len(segs[n].runs) : \E p \in 1..Len(all) : all[p] = segs[n].runs[k]
<1> DEFINE ss == RunsOf(segs)
           all == FlattenSeq(ss)
<1>1. /\ ss \in Seq(Seq(RunSet)) /\ Len(ss) = Len(segs) /\ Runs(segs) = all
      /\ \A n \in 1..Len(segs) : ss[n] = segs[n].runs
  BY RunsOfSegs
<1>2. /\ \A p \in 1..Len(all) : \E n \in 1..Len(ss) : \E k \in 1..Len(ss[n]) : ss[n][k] = all[p]
      /\ \A n \in 1..Len(ss) : \A k \in 1..Len(ss[n]) : \E p \in 1..Len(all) : all[p] = ss[n][k]
  <2> HIDE DEF ss
  <2> QED BY <1>1, Elements
<1> HIDE DEF ss, all
<1>3. \A p \in 1..Len(all) : \E n \in 1..Len(segs) : \E k \in 1..Len(segs[n].runs) : segs[n].runs[k] = all[p]
  <2> SUFFICES ASSUME NEW p \in 1..Len(all)
               PROVE  \E n \in 1..Len(segs) : \E k \in 1..Len(segs[n].runs) : segs[n].runs[k] = all[p]
    OBVIOUS
  <2>1. PICK n \in 1..Len(ss) : \E k \in 1..Len(ss[n]) : ss[n][k] = all[p]
    BY <1>2
  <2>2. n \in 1..Len(segs) /\ ss[n] = segs[n].runs
    BY <1>1
  <2> QED BY <2>1, <2>2
<1>4. \A n \in 1..Len(segs) : \A k \in 1..Len(segs[n].runs) : \E p \in 1..Len(all) : all[p] = segs[n].runs[k]
  <2> SUFFICES ASSUME NEW n \in 1..Len(segs), NEW k \in 1..Len(segs[n].runs)
               PROVE  \E p \in 1..Len(all) : all[p] = segs[n].runs[k]
    OBVIOUS
  <2>1. n \in 1..Len(ss) /\ ss[n] = segs[n].runs
    BY <1>1
  <2>2. \A l \in 1..Len(ss[n]) : \E p \in 1..Len(all) : all[p] = ss[n][l]
    BY <1>2, <2>1
  <2> QED BY <2>1, <2>2
<1> QED BY <1>1, <1>3, <1>4

\* A target that had a translation has one after the seeding.
LEMMA SeededStaysTranslated ==
  ASSUME NEW b, IsBlock(b), HasNames(b), SeedIgnorables(b) # b, Translated(b, Request)
  PROVE  Translated(SeedIgnorables(b), Request)
<1> DEFINE c == SeedIgnorables(b)
           own == OwnSegs(b)
           segs == own \o Missing(b, own)
           target == TargetSegs(b, Request)
           old == b.targets[Request].runs
<1>1. segs \in Seq(SegSet) /\ Held(c, Request) /\ c.targets[Request].runs = Runs(segs) /\ Held(b, Request)
  BY SeededSegs
<1>2. old \in Seq(RunSet) /\ Runs(target) = old /\ target \in Seq(SegSet)
  BY <1>1, TargetsCover, SegsAreSegs DEF IsBlock, Held, IsSide
<1>3. Runs(segs) \in Seq(RunSet)
  <2> HIDE DEF segs
  <2> QED BY <1>1, RunsOfSegs
<1>4. RunsHaveText(old)
  BY DEF Translated
<1>5. PICK i \in 1..Len(old) : old[i].kind = "text" /\ \E k \in 1..Len(old[i].text) : old[i].text[k] \notin White
  <2> HIDE DEF old
  <2> QED BY <1>2, <1>4, HasTextSomewhere
<1>11. PICK n \in 1..Len(target) : \E k \in 1..Len(target[n].runs) : target[n].runs[k] = old[i]
  <2> HIDE DEF old, target
  <2>1. \E p \in 1..Len(Runs(target)) : Runs(target)[p] = old[i]
    BY <1>2
  <2> QED BY <1>2, <2>1, RunsOfASide
<1>6. PICK k \in 1..Len(target[n].runs) : target[n].runs[k] = old[i]
  BY <1>11
<1>7. own[n].runs = target[n].runs /\ n \in 1..Len(own) /\ own \in Seq(SegSet)
  BY OwnSegsAreSegs
<1>8. n \in 1..Len(segs) /\ segs[n] = own[n]
  <2>1. Len(own) \in Nat /\ Missing(b, own) \in Seq(SegSet)
    BY <1>7, LenProperties, MissingAre
  <2> DEFINE missing == Missing(b, own)
  <2>2. missing \in Seq(SegSet) /\ Len(missing) \in Nat
    BY <2>1, LenProperties
  <2>3. segs = own \o missing
    OBVIOUS
  <2> HIDE DEF own, missing, segs
  <2>4. Len(segs) = Len(own) + Len(missing) /\ \A m \in 1..Len(own) : segs[m] = own[m]
    BY <1>7, <2>2, <2>3, ConcatProperties
  <2> QED BY <1>7, <2>1, <2>2, <2>4
<1>9. \E p \in 1..Len(Runs(segs)) : Runs(segs)[p] = old[i]
  <2>1. k \in 1..Len(segs[n].runs) /\ segs[n].runs[k] = old[i]
    BY <1>6, <1>7, <1>8
  <2> HIDE DEF segs, old
  <2> QED BY <1>1, <1>8, <2>1, RunsOfASide
<1>10. RunsHaveText(Runs(segs))
  <2> DEFINE new == Runs(segs)
  <2>1. new \in Seq(RunSet) /\ \E p \in 1..Len(new) : new[p] = old[i]
    BY <1>3, <1>9
  <2> HIDE DEF new, old
  <2>2. RunsHaveText(new)
    BY <1>5, <2>1, HasTextSomewhere
  <2> QED BY <2>2 DEF new
<1> QED BY <1>1, <1>10 DEF Translated

\* The seeding never makes the engine start from another locale.
LEMMA SeededBase ==
  ASSUME NEW b, IsBlock(b), HasNames(b), NEW force
  PROVE  BaseLocale(SeedIgnorables(b), force) \in {Request, BaseLocale(b, force)}
<1> DEFINE c == SeedIgnorables(b)
           before == {loc \in DOMAIN b.targets : Translated(b, loc)}
           after == {loc \in DOMAIN c.targets : Translated(c, loc)}
<1>1. CASE c = b
  BY <1>1
<1>2. CASE c # b
  <2>1. /\ c.source = b.source /\ DOMAIN c.targets = DOMAIN b.targets
        /\ \A loc : loc # Request /\ loc \in DOMAIN b.targets => c.targets[loc] = b.targets[loc]
    BY <1>2, SeededSegs
  <2>2. Translated(b, Request) => Translated(c, Request)
    BY <1>2, SeededStaysTranslated
  <2> HIDE DEF c
  <2>3. \A loc \in DOMAIN b.targets : loc # Request => (Translated(c, loc) <=> Translated(b, loc))
    BY <2>1 DEF Translated, Held
  <2>4. Request \notin after => after = before
    BY <2>1, <2>2, <2>3
  <2>5. PickBase(b) = IF Request \in before THEN Request ELSE IF before = {} THEN NoLocale ELSE CHOOSE loc \in before : TRUE
    BY DEF PickBase
  <2>6. PickBase(c) = IF Request \in after THEN Request ELSE IF after = {} THEN NoLocale ELSE CHOOSE loc \in after : TRUE
    BY DEF PickBase
  <2>7. PickBase(c) \in {Request, PickBase(b)}
    <3> HIDE DEF before, after
    <3> QED BY <2>4, <2>5, <2>6
  <2>8. BaseLocale(c, force) \in {Request, BaseLocale(b, force)}
    BY <2>1, <2>7 DEF BaseLocale
  <2> QED BY <2>8 DEF c
<1> QED BY <1>1, <1>2

\* The segments a block had before: what ComesFrom may look at.
Before(b) == OwnSegs(b) \o SourceSegs(b)
SameRuns(x, y) == x.id = y.id /\ x.runs = y.runs

LEMMA BeforeHas ==
  ASSUME NEW b, IsBlock(b)
  PROVE  /\ \A k \in 1..Len(OwnSegs(b)) : \E j \in DOMAIN Before(b) : Before(b)[j] = OwnSegs(b)[k]
         /\ \A k \in 1..Len(SourceSegs(b)) : \E j \in DOMAIN Before(b) : Before(b)[j] = SourceSegs(b)[k]
         /\ \A j \in DOMAIN Before(b) : \/ \E k \in 1..Len(OwnSegs(b)) : Before(b)[j] = OwnSegs(b)[k]
                                        \/ \E k \in 1..Len(SourceSegs(b)) : Before(b)[j] = SourceSegs(b)[k]
<1> DEFINE own == OwnSegs(b)
           source == SourceSegs(b)
           all == own \o source
<1>1. own \in Seq(SegSet) /\ source \in Seq(SegSet)
  BY OwnSegsAreSegs, SegsAreSegs
<1>2. all = Before(b)
  BY DEF Before
<1> HIDE DEF own, source
<1>3. /\ all \in Seq(SegSet) /\ Len(all) = Len(own) + Len(source) /\ Len(own) \in Nat /\ Len(source) \in Nat
      /\ \A k \in 1..(Len(own) + Len(source)) : all[k] = IF k <= Len(own) THEN own[k] ELSE source[k - Len(own)]
  BY <1>1, ConcatProperties, LenProperties
<1> HIDE DEF all
<1>4. DOMAIN all = 1..(Len(own) + Len(source))
  BY <1>3, LenProperties
<1>5. ASSUME NEW k \in 1..Len(own) PROVE \E j \in DOMAIN all : all[j] = own[k]
  <2>1. k \in DOMAIN all /\ k <= Len(own)
    BY <1>3, <1>4
  <2> QED BY <1>3, <1>4, <2>1
<1>6. ASSUME NEW k \in 1..Len(source) PROVE \E j \in DOMAIN all : all[j] = source[k]
  <2> DEFINE j == Len(own) + k
  <2>1. j \in DOMAIN all /\ ~(j <= Len(own)) /\ j - Len(own) = k
    BY <1>3, <1>4
  <2> HIDE DEF j
  <2> QED BY <1>3, <1>4, <2>1
<1>7. ASSUME NEW j \in DOMAIN all
      PROVE  (\E k \in 1..Len(own) : all[j] = own[k]) \/ (\E k \in 1..Len(source) : all[j] = source[k])
  <2>1. j \in 1..(Len(own) + Len(source))
    BY <1>4
  <2>2. CASE j <= Len(own)
    <3>1. j \in 1..Len(own) /\ all[j] = own[j]
      BY <1>3, <2>1, <2>2
    <3> QED BY <3>1
  <2>3. CASE ~(j <= Len(own))
    <3>1. j - Len(own) \in 1..Len(source) /\ all[j] = source[j - Len(own)]
      BY <1>3, <2>1, <2>3
    <3> QED BY <3>1
  <2> QED BY <2>2, <2>3
<1>8. DOMAIN all = DOMAIN Before(b) /\ \A j : all[j] = Before(b)[j]
  BY <1>2
<1> QED BY <1>5, <1>6, <1>7, <1>8 DEF own, source

\* What is of the target or the source of a seeded block was so before.
LEMMA SeedingKeeps ==
  ASSUME NEW b, IsBlock(b), HasNames(b), NEW j \in DOMAIN Before(SeedIgnorables(b))
  PROVE  \E i \in DOMAIN Before(b) : SameRuns(Before(SeedIgnorables(b))[j], Before(b)[i])
<1> DEFINE c == SeedIgnorables(b)
           own == OwnSegs(b)
           missing == Missing(b, own)
           segs == own \o missing
           x == Before(c)[j]
<1>1. CASE c = b
  BY <1>1 DEF SameRuns
<1>2. CASE c # b
  <2>1. /\ SourceSegs(c) = SourceSegs(b)
        /\ Len(TargetSegs(c, Request)) = Len(segs)
        /\ \A k \in 1..Len(TargetSegs(c, Request)) :
             TargetSegs(c, Request)[k].id = segs[k].id /\ TargetSegs(c, Request)[k].runs = segs[k].runs
        /\ c.targets[Request].spans # <<>>
    BY <1>2, SeededSegs
  <2>2. OwnSegs(c) = TargetSegs(c, Request)
    BY <2>1, SeedIgnorablesIsBlock, OwnSegsAreSegs
  <2>3. \A k \in 1..Len(segs) : IF k <= Len(own) THEN k \in 1..Len(own) /\ segs[k] = own[k]
                                ELSE k - Len(own) \in 1..Len(missing) /\ segs[k] = missing[k - Len(own)]
    BY <1>2, SeededAreNamed
  <2>4. \A k \in 1..Len(missing) : \E i \in 1..Len(SourceSegs(b)) : missing[k] = SourceSegs(b)[i]
    BY MissingAre
  <2>5. /\ \A k \in 1..Len(own) : \E i \in DOMAIN Before(b) : Before(b)[i] = own[k]
        /\ \A k \in 1..Len(SourceSegs(b)) : \E i \in DOMAIN Before(b) : Before(b)[i] = SourceSegs(b)[k]
    BY BeforeHas
  <2>6. (\E k \in 1..Len(OwnSegs(c)) : x = OwnSegs(c)[k]) \/ (\E k \in 1..Len(SourceSegs(c)) : x = SourceSegs(c)[k])
    BY SeedIgnorablesIsBlock, BeforeHas
  <2> HIDE DEF c, own, missing, segs, x
  <2>7. CASE \E k \in 1..Len(SourceSegs(c)) : x = SourceSegs(c)[k]
    <3>1. \E i \in DOMAIN Before(b) : SameRuns(x, Before(b)[i])
      BY <2>1, <2>5, <2>7 DEF SameRuns
    <3> QED BY <3>1 DEF x, c
  <2>8. CASE \E k \in 1..Len(OwnSegs(c)) : x = OwnSegs(c)[k]
    <3>1. PICK k \in 1..Len(segs) : x = TargetSegs(c, Request)[k]
      BY <2>1, <2>2, <2>8
    <3>2. x.id = segs[k].id /\ x.runs = segs[k].runs
      BY <2>1, <3>1
    <3>3. \E i \in DOMAIN Before(b) : Before(b)[i] = segs[k]
      <4>1. CASE k <= Len(own)
        BY <2>3, <2>5, <4>1
      <4>2. CASE ~(k <= Len(own))
        <5>1. k - Len(own) \in 1..Len(missing) /\ segs[k] = missing[k - Len(own)]
          BY <2>3, <4>2
        <5>2. PICK i \in 1..Len(SourceSegs(b)) : segs[k] = SourceSegs(b)[i]
          BY <2>4, <5>1
        <5> QED BY <2>5, <5>2
      <4> QED BY <4>1, <4>2
    <3>4. \E i \in DOMAIN Before(b) : SameRuns(x, Before(b)[i])
      BY <3>2, <3>3 DEF SameRuns
    <3> QED BY <3>4 DEF x, c
  <2> QED BY <2>6, <2>7, <2>8
<1> QED BY <1>1, <1>2

\* The segments of the two sides the engine may start from.
LEMMA NamedOrAlone ==
  ASSUME NEW side, IsSide(side), Names(side), NEW ir, IsIR(ir), NEW k \in 1..Len(Segments(side, ir))
  PROVE  LET seg == Segments(side, ir)[k]
         IN IF side.spans # <<>> THEN seg.id # NoName
            ELSE /\ k = 1 /\ Len(Segments(side, ir)) = 1 /\ side.runs # <<>>
                 /\ seg.id = NoName /\ seg.props = {} /\ seg.runs = side.runs
<1> DEFINE segs == Segments(side, ir)
<1>1. CASE side.spans # <<>>
  <2>1. Len(segs) = Len(side.spans) /\ segs[k].id = side.spans[k].id
    BY <1>1, SegsOfSide
  <2>2. k \in DOMAIN side.spans
    <3>1. side.spans \in Seq(SpanSet)
      BY DEF IsSide
    <3> QED BY <2>1, <3>1, LenProperties
  <2> QED BY <1>1, <2>1, <2>2 DEF Names
<1>2. CASE side.spans = <<>> /\ side.runs = <<>>
  <2>1. segs = <<>>
    BY <1>2, ThreeForms
  <2> QED BY <2>1
<1>3. CASE side.spans = <<>> /\ side.runs # <<>>
  <2>1. segs = <<Anonymous(side.runs)>>
    BY <1>3, ThreeForms
  <2>2. Len(segs) = 1 /\ k = 1 /\ segs[k] = Anonymous(side.runs)
    BY <2>1
  <2> HIDE DEF segs
  <2> QED BY <1>3, <2>2 DEF Anonymous, segs
<1> QED BY <1>1, <1>2, <1>3

LEMMA SourceForm ==
  ASSUME NEW b, IsBlock(b), HasNames(b), NEW k \in 1..Len(SourceSegs(b))
  PROVE  LET seg == SourceSegs(b)[k]
         IN IF b.source.spans # <<>> THEN seg.id # NoName
            ELSE seg.id = NoName /\ seg.props = {} /\ seg.runs = b.source.runs
<1>1. b.source.runs # <<>>
  <2> SUFFICES ASSUME b.source.runs = <<>> PROVE FALSE
    OBVIOUS
  <2>1. SourceSegs(b) = <<>>
    BY DEF SourceSegs
  <2> QED BY <2>1
<1>2. SourceSegs(b) = Segments(b.source, b.ir.source)
  BY <1>1 DEF SourceSegs
<1>3. IsSide(b.source) /\ Names(b.source) /\ IsIR(b.ir.source)
  BY DEF IsBlock, HasNames
<1> QED BY <1>2, <1>3, NamedOrAlone

LEMMA TargetForm ==
  ASSUME NEW b, IsBlock(b), HasNames(b), NEW loc, NEW k \in 1..Len(TargetSegs(b, loc))
  PROVE  LET seg == TargetSegs(b, loc)[k]
         IN /\ Held(b, loc)
            /\ IF b.targets[loc].spans # <<>> THEN seg.id # NoName
               ELSE /\ k = 1 /\ Len(TargetSegs(b, loc)) = 1
                    /\ seg.id = NoName /\ seg.props = {} /\ seg.runs = b.targets[loc].runs
<1>1. Held(b, loc)
  <2> SUFFICES ASSUME ~Held(b, loc) PROVE FALSE
    OBVIOUS
  <2>1. TargetSegs(b, loc) = <<>>
    BY DEF TargetSegs
  <2> QED BY <2>1
<1>2. TargetSegs(b, loc) = Segments(b.targets[loc], TargetIR(b, loc))
  BY <1>1 DEF TargetSegs
<1>3. IsSide(b.targets[loc]) /\ Names(b.targets[loc]) /\ IsIR(TargetIR(b, loc))
  BY <1>1, TargetIRIsIR DEF IsBlock, HasNames, Held
<1> QED BY <1>1, <1>2, <1>3, NamedOrAlone

\* The own segments are those of the target, but one without a name takes the
\* first of the source.
LEMMA OwnForm ==
  ASSUME NEW b, IsBlock(b), HasNames(b), NEW k \in 1..Len(TargetSegs(b, Request))
  PROVE  LET seg == OwnSegs(b)[k]
         IN /\ Len(OwnSegs(b)) = Len(TargetSegs(b, Request))
            /\ seg.runs = TargetSegs(b, Request)[k].runs /\ seg.props = TargetSegs(b, Request)[k].props
            /\ seg.id = IF b.targets[Request].spans # <<>> \/ b.source.spans = <<>>
                        THEN TargetSegs(b, Request)[k].id ELSE b.source.spans[1].id
<1> DEFINE own == TargetSegs(b, Request)
<1>1. /\ Len(OwnSegs(b)) = Len(own) /\ k \in 1..Len(OwnSegs(b))
      /\ OwnSegs(b)[k].runs = own[k].runs /\ OwnSegs(b)[k].props = own[k].props
  BY OwnSegsAreSegs
<1>2. CASE b.targets[Request].spans # <<>> \/ b.source.spans = <<>>
  <2>1. OwnSegs(b) = own
    BY <1>2, OwnSegsAreSegs
  <2> QED BY <1>1, <1>2, <2>1
<1>3. CASE ~(b.targets[Request].spans # <<>> \/ b.source.spans = <<>>)
  <2>1. k = 1 /\ own[1].id = NoName
    BY <1>3, TargetForm
  <2>2. own # <<>>
    <3> SUFFICES ASSUME own = <<>> PROVE FALSE
      OBVIOUS
    <3> HIDE DEF own
    <3>1. k \in 1..Len(own)
      BY DEF own
    <3> QED BY <3>1
  <2> DEFINE new == [own[1] EXCEPT !.id = b.source.spans[1].id]
  <2>3. OwnSegs(b) = <<new>>
    BY <1>3, <2>2 DEF OwnSegs
  <2>4. own[1] \in SegSet
    <3>1. own \in Seq(SegSet)
      BY SegsAreSegs
    <3> QED BY <2>1, <3>1, ElementOfSeq
  <2>5. new.id = b.source.spans[1].id
    <3> HIDE DEF own
    <3> QED BY <2>4 DEF SegSet
  <2> HIDE DEF new, own
  <2>6. OwnSegs(b)[k].id = b.source.spans[1].id
    BY <2>1, <2>3, <2>5
  <2> QED BY <1>1, <1>3, <2>6 DEF own
<1> QED BY <1>2, <1>3

\* A new segment has the codes of one of before, an ignorable one its runs.
LEMMA NewSegComesFrom ==
  ASSUME NEW c, IsBlock(c), HasNames(c), NEW seg \in SegSet, Ignorable(seg) => seg.id # NoName,
         NEW j \in DOMAIN Before(c), SameRuns(Before(c)[j], seg)
  PROVE  ComesFrom(NewSeg(c, seg), Before(c))
<1> DEFINE own == TargetSegs(c, Request)
           new == NewSeg(c, seg)
<1>1. new.id = seg.id /\ new.props = seg.props
  BY NewSegIsSeg
<1>2. seg = [id |-> seg.id, props |-> seg.props, runs |-> seg.runs, ir |-> seg.ir] /\ seg.runs \in Seq(RunSet)
  BY DEF SegSet
<1>3. Before(c)[j].id = seg.id /\ Before(c)[j].runs = seg.runs
  BY DEF SameRuns
<1>4. CASE ~Ignorable(seg)
  <2>1. new.runs = Pseudo(seg.runs)
    <3> DEFINE runs == Pseudo(seg.runs)
               ir == [i \in DOMAIN seg.ir |-> Pseudo(seg.ir[i])]
    <3>1. new = [seg EXCEPT !.runs = runs, !.ir = ir]
      BY <1>4 DEF NewSeg
    <3> HIDE DEF runs, ir, new
    <3>2. new.runs = runs
      BY <1>2, <3>1
    <3> QED BY <3>2 DEF runs
  <2>2. Codes(new.runs) = Codes(seg.runs)
    BY <1>2, <2>1, PseudoKeepsCodes
  <2>3. ~Ignorable(new)
    BY <1>1, <1>4 DEF Ignorable
  <2> HIDE DEF new
  <2>4. ComesFrom(new, Before(c))
    BY <1>1, <1>3, <2>2, <2>3 DEF ComesFrom
  <2> QED BY <2>4 DEF new
<1>5. CASE Ignorable(seg) /\ PlacesOf(own, seg.id) = {}
  <2>1. new = seg
    BY <1>5 DEF NewSeg, Kept
  <2>2. ComesFrom(seg, Before(c))
    BY <1>3 DEF ComesFrom
  <2> QED BY <2>1, <2>2
<1>6. CASE Ignorable(seg) /\ PlacesOf(own, seg.id) # {}
  <2>1. PICK k \in 1..Len(own) : Existing(c, seg.id) = own[k] /\ own[k].id = seg.id
    BY <1>6, ExistingIsThere
  <2>2. new = [seg EXCEPT !.runs = own[k].runs, !.ir = own[k].ir]
    BY <1>6, <2>1 DEF NewSeg, Kept
  <2>3. OwnSegs(c)[k].runs = own[k].runs /\ OwnSegs(c)[k].id = own[k].id /\ Len(OwnSegs(c)) = Len(own)
    <3>1. c.targets[Request].spans # <<>>
      BY <1>6, <2>1, TargetForm
    <3> QED BY <3>1, OwnForm
  <2> HIDE DEF new, own
  <2>4. new.runs = own[k].runs
    BY <1>2, <2>2
  <2>5. PICK i \in DOMAIN Before(c) : Before(c)[i] = OwnSegs(c)[k]
    BY <2>3, BeforeHas
  <2>6. Before(c)[i].id = new.id /\ Before(c)[i].runs = new.runs
    BY <1>1, <2>1, <2>3, <2>4, <2>5 DEF new
  <2>7. ComesFrom(new, Before(c))
    BY <2>6 DEF ComesFrom
  <2> QED BY <2>7 DEF new
<1> QED BY <1>4, <1>5, <1>6

\* What the translation makes of a target or of the source comes from them.
LEMMA TranslatedComesFrom ==
  ASSUME NEW c, IsBlock(c), HasNames(c), NEW force, BaseLocale(c, force) \in {Request, NoLocale}
  PROVE  LET after == OwnSegs(ApplyPseudo(c, force))
         IN \A k \in 1..Len(after) : ComesFrom(after[k], Before(c))
<1> DEFINE d == ApplyPseudo(c, force)
           loc == BaseLocale(c, force)
           base == SegsOf(c, loc)
           segs == Renewed(c, base)
           new == TargetSegs(d, Request)
<1>1. CASE d = c
  <2> SUFFICES ASSUME NEW k \in 1..Len(OwnSegs(c)) PROVE ComesFrom(OwnSegs(c)[k], Before(c))
    BY <1>1
  <2>1. PICK j \in DOMAIN Before(c) : Before(c)[j] = OwnSegs(c)[k]
    BY BeforeHas
  <2> QED BY <2>1 DEF ComesFrom
<1>2. CASE base # <<>> /\ Retargeted(d, c, NewSide(segs), NewIR(segs))
  <2>1. base \in Seq(SegSet)
    BY SegsAreSegs
  <2>2. base = SourceSegs(c) \/ (base = TargetSegs(c, Request) /\ loc = Request)
    BY DEF SegsOf
  <2>3. /\ segs \in Seq(SegSet) /\ segs # <<>> /\ Len(segs) = Len(base)
        /\ \A i \in 1..Len(base) : /\ segs[i] = NewSeg(c, base[i]) /\ base[i] \in SegSet
                                   /\ segs[i].id = base[i].id /\ segs[i].props = base[i].props
    <3> HIDE DEF base
    <3> QED BY <1>2, <2>1, RenewedAreSegs
  <2>4. IsSide(NewSide(segs)) /\ IsIR(NewIR(segs))
    <3> HIDE DEF segs
    <3> QED BY <2>3, NewSideIsSide, NewIRKeeps
  <2>5. /\ IsBlock(d) /\ Held(d, Request) /\ d.targets[Request] = NewSide(segs) /\ d.source = c.source
    <3>1. Retargeted(d, c, NewSide(segs), NewIR(segs))
      BY <1>2
    <3> HIDE DEF d, segs
    <3> QED BY <2>4, <3>1, RetargetedIsBlock
  <2> DEFINE ir == TargetIR(d, Request)
             side == NewSide(segs)
  <2>6. new = Segments(side, ir)
    BY <2>5 DEF TargetSegs
  <2>7. Len(base) \in Nat \ {0} /\ Len(segs) = Len(base)
    <3> HIDE DEF base
    <3> QED BY <1>2, <2>1, <2>3, EmptySeq, LenProperties
  <2>8. CASE NeedsOverlay(segs)
    <3>1. side = Side(Runs(segs), Spans(segs))
      BY <2>8 DEF NewSide
    <3>2. /\ Len(new) = Len(segs) /\ side.spans # <<>>
          /\ \A k \in 1..Len(segs) : new[k].id = segs[k].id /\ new[k].props = segs[k].props /\ new[k].runs = segs[k].runs
      <4> HIDE DEF side, segs, new, ir
      <4>1. /\ new = [i \in 1..Len(segs) |-> [id |-> segs[i].id, props |-> segs[i].props,
                                              runs |-> segs[i].runs, ir |-> Inline(ir, segs[i].id)]]
            /\ side.spans # <<>>
        BY <2>3, <2>6, <3>1, ReadBack
      <4> QED BY <2>7, <4>1
    <3>3. OwnSegs(d) = new
      BY <2>5, <3>2, OwnSegsAreSegs
    \* what is translated is a segment the block had
    <3>4. ASSUME NEW k \in 1..Len(base)
          PROVE  /\ Ignorable(base[k]) => base[k].id # NoName
                 /\ \E j \in DOMAIN Before(c) : SameRuns(Before(c)[j], base[k])
      <4>1. CASE base = SourceSegs(c)
        <5>1. Ignorable(base[k]) => base[k].id # NoName
          <6>1. k \in 1..Len(SourceSegs(c)) /\ base[k] = SourceSegs(c)[k]
            BY <4>1
          <6>2. base[k].id # NoName \/ base[k].props = {}
            BY <6>1, SourceForm
          <6> QED BY <6>2 DEF Ignorable
        <5>2. \E j \in DOMAIN Before(c) : Before(c)[j] = base[k]
          BY <4>1, BeforeHas
        <5> QED BY <5>1, <5>2 DEF SameRuns
      <4>2. CASE base = TargetSegs(c, Request)
        <5>1. k \in 1..Len(TargetSegs(c, Request)) /\ base[k] = TargetSegs(c, Request)[k]
          BY <4>2
        <5>2. CASE c.targets[Request].spans # <<>>
          <6>1. base[k].id # NoName
            BY <5>1, <5>2, TargetForm
          <6>2. /\ Len(OwnSegs(c)) = Len(base) /\ OwnSegs(c)[k].runs = base[k].runs
                /\ OwnSegs(c)[k].id = base[k].id
            BY <4>2, <5>1, <5>2, OwnForm
          <6>3. \E j \in DOMAIN Before(c) : Before(c)[j] = OwnSegs(c)[k]
            BY <6>2, BeforeHas
          <6> QED BY <6>1, <6>2, <6>3 DEF SameRuns
        <5>3. CASE c.targets[Request].spans = <<>>
          <6>1. k = 1 /\ Len(base) = 1 /\ base[1].id = NoName /\ base[1].props = {}
            BY <4>2, <5>1, <5>3, TargetForm
          <6>2. Len(segs) = 1 /\ segs[1].id = NoName /\ segs[1].props = {}
            BY <2>3, <6>1
          <6> QED BY <2>8, <6>2 DEF NeedsOverlay
        <5> QED BY <5>2, <5>3
      <4> QED BY <2>2, <4>1, <4>2
    <3>5. ASSUME NEW k \in 1..Len(new) PROVE ComesFrom(new[k], Before(c))
      <4>1. k \in 1..Len(base) /\ segs[k] = NewSeg(c, base[k]) /\ base[k] \in SegSet
        BY <2>3, <3>2
      <4>2. ComesFrom(segs[k], Before(c))
        BY <3>4, <4>1, NewSegComesFrom
      <4>3. new[k].id = segs[k].id /\ new[k].props = segs[k].props /\ new[k].runs = segs[k].runs
        BY <2>3, <3>2, <4>1
      <4> HIDE DEF new, segs
      <4> QED BY <4>2, <4>3 DEF ComesFrom, Ignorable
    <3> QED BY <3>3, <3>5
  <2>9. CASE ~NeedsOverlay(segs)
    <3>1. side.spans = <<>> /\ side.runs = Runs(segs)
      BY <2>9 DEF NewSide, Side
    <3>2. Len(segs) = 1 /\ segs[1].props = {} /\ segs[1].id = NoName
      <4> HIDE DEF segs
      <4> QED BY <2>7, <2>9 DEF NeedsOverlay
    <3>3. 1 \in 1..Len(base) /\ base[1].id = NoName /\ base[1].props = {} /\ segs[1] = NewSeg(c, base[1])
          /\ base[1] \in SegSet
      BY <2>3, <3>2
    <3>4. segs[1].runs = Pseudo(base[1].runs)
      <4> DEFINE seg == base[1]
                 runs == Pseudo(seg.runs)
                 irs == [i \in DOMAIN seg.ir |-> Pseudo(seg.ir[i])]
      <4>1. NewSeg(c, seg) = [seg EXCEPT !.runs = runs, !.ir = irs]
        BY <3>3 DEF NewSeg, Ignorable
      <4>2. seg = [id |-> seg.id, props |-> seg.props, runs |-> seg.runs, ir |-> seg.ir]
        BY <3>3 DEF SegSet
      <4> HIDE DEF seg, runs, irs
      <4>3. NewSeg(c, seg).runs = runs
        BY <4>1, <4>2
      <4> QED BY <3>3, <4>3 DEF seg, runs
    <3>5. Runs(segs) = segs[1].runs
      <4> DEFINE ss == RunsOf(segs)
                 r == segs[1].runs
      <4>1. ss \in Seq(Seq(RunSet)) /\ Len(ss) = 1 /\ ss[1] = r /\ Runs(segs) = FlattenSeq(ss) /\ r \in Seq(RunSet)
        <5> HIDE DEF segs
        <5> QED BY <2>3, <3>2, RunsOfSegs
      <4> HIDE DEF ss, r, segs
      <4>2. Flat(ss, 1) = Flat(ss, 1 - 1) \o ss[1]
        <5>1. 1 \in 1..Len(ss)
          BY <4>1
        <5> QED BY <4>1, <5>1, Flattens
      <4>3. Flat(ss, 0) = <<>> /\ Flat(ss, Len(ss)) = FlattenSeq(ss)
        BY <4>1, Flattens
      <4>4. FlattenSeq(ss) = <<>> \o r
        BY <4>1, <4>2, <4>3
      <4>5. FlattenSeq(ss) = r
        BY <4>1, <4>4, ConcatEmptySeq
      <4> QED BY <4>1, <4>5 DEF r
    <3>6. base[1].runs \in Seq(RunSet)
      BY <3>3 DEF SegSet
    <3>7. Codes(side.runs) = Codes(base[1].runs)
      BY <3>1, <3>4, <3>5, <3>6, PseudoKeepsCodes
    <3>8. ASSUME NEW k \in 1..Len(OwnSegs(d)) PROVE ComesFrom(OwnSegs(d)[k], Before(c))
      <4>1. new = <<>> \/ new = <<Anonymous(side.runs)>>
        <5> HIDE DEF new
        <5> QED BY <2>6, <3>1, ThreeForms
      <4>2. Len(OwnSegs(d)) = Len(new)
        BY <2>5, OwnSegsAreSegs
      <4>3. k = 1 /\ Len(new) = 1 /\ new[1] = Anonymous(side.runs)
        <5> HIDE DEF new
        <5>1. k \in 1..Len(new)
          BY <4>2
        <5>2. CASE new = <<>>
          BY <5>1, <5>2
        <5>3. CASE new = <<Anonymous(side.runs)>>
          <6>1. Len(new) = 1
            BY <5>3
          <6> QED BY <5>1, <5>3, <6>1
        <5> QED BY <4>1, <5>2, <5>3
      <4>4. new[1].id = NoName /\ new[1].props = {} /\ new[1].runs = side.runs
        <5> HIDE DEF new, side
        <5> QED BY <4>3 DEF Anonymous
      <4>5. HasNames(d)
        <5>1. Names(d.targets[Request])
          BY <2>5, <3>1 DEF Names
        <5>2. /\ DOMAIN d.targets = DOMAIN c.targets \cup {Request}
              /\ \A l \in DOMAIN c.targets : l # Request => d.targets[l] = c.targets[l]
          <6>1. Retargeted(d, c, side, NewIR(segs)) /\ IsSide(side) /\ IsIR(NewIR(segs))
            BY <1>2, <2>4
          <6> HIDE DEF d, segs, side
          <6> QED BY <6>1, RetargetedIsBlock
        <5> HIDE DEF d
        <5> QED BY <2>5, <5>1, <5>2 DEF HasNames
      <4>6. /\ OwnSegs(d)[1].runs = side.runs /\ OwnSegs(d)[1].props = {}
            /\ OwnSegs(d)[1].id = IF c.source.spans = <<>> THEN NoName ELSE c.source.spans[1].id
        <5>1. 1 \in 1..Len(TargetSegs(d, Request))
          BY <4>3
        <5>2. d.targets[Request].spans = <<>> /\ d.source.spans = c.source.spans
          BY <2>5, <3>1
        <5> HIDE DEF d
        <5>3. /\ OwnSegs(d)[1].runs = TargetSegs(d, Request)[1].runs
              /\ OwnSegs(d)[1].props = TargetSegs(d, Request)[1].props
              /\ OwnSegs(d)[1].id = IF c.source.spans = <<>> THEN TargetSegs(d, Request)[1].id ELSE c.source.spans[1].id
          BY <2>5, <4>5, <5>1, <5>2, OwnForm
        <5> QED BY <4>4, <5>3
      <4>7. \E j \in DOMAIN Before(c) : /\ Before(c)[j].runs = base[1].runs
                                        /\ Before(c)[j].id = OwnSegs(d)[1].id
        <5>1. CASE base = SourceSegs(c)
          <6>1. c.source.spans = <<>>
            BY <3>3, <5>1, SourceForm
          <6>2. OwnSegs(d)[1].id = base[1].id
            BY <3>3, <4>6, <6>1
          <6>3. \E j \in DOMAIN Before(c) : Before(c)[j] = base[1]
            BY <3>3, <5>1, BeforeHas
          <6> HIDE DEF base, d
          <6> QED BY <6>2, <6>3
        <5>2. CASE base = TargetSegs(c, Request)
          <6>1. c.targets[Request].spans = <<>>
            BY <3>3, <5>2, TargetForm
          <6>2. /\ Len(OwnSegs(c)) = Len(base) /\ OwnSegs(c)[1].runs = base[1].runs
                /\ OwnSegs(c)[1].id = IF c.source.spans = <<>> THEN base[1].id ELSE c.source.spans[1].id
            BY <3>3, <5>2, <6>1, OwnForm
          <6>3. OwnSegs(d)[1].id = OwnSegs(c)[1].id
            BY <3>3, <4>6, <6>2
          <6>4. \E j \in DOMAIN Before(c) : Before(c)[j] = OwnSegs(c)[1]
            BY <3>3, <6>2, BeforeHas
          <6> HIDE DEF base, d
          <6> QED BY <6>2, <6>3, <6>4
        <5> QED BY <2>2, <5>1, <5>2
      <4> HIDE DEF d, base, side
      <4>8. ~Ignorable(OwnSegs(d)[1])
        BY <4>6 DEF Ignorable
      <4>9. Codes(OwnSegs(d)[1].runs) = Codes(base[1].runs)
        BY <3>7, <4>6
      <4> QED BY <4>3, <4>7, <4>8, <4>9 DEF ComesFrom
    <3> QED BY <3>8
  <2> QED BY <2>8, <2>9
<1>3. d = c \/ (base # <<>> /\ Retargeted(d, c, NewSide(segs), NewIR(segs)))
  BY ApplyPseudoForms
<1> QED BY <1>1, <1>2, <1>3

\* What the native engine makes of a block whose target it starts from comes from
\* the block.
LEMMA NativeComesThrough ==
  ASSUME NEW b, IsBlock(b), HasNames(b), NEW lang, NEW xliff2, xliff2 \/ SameLanguage(lang),
         BaseLocale(b, ~SameLanguage(lang)) \in {Request, NoLocale}
  PROVE  LET after == OwnSegs(NativeBlock(b, lang, xliff2))
         IN \A k \in 1..Len(after) : ComesFrom(after[k], OwnSegs(b) \o SourceSegs(b))
<1> DEFINE d == NativeBlock(b, lang, xliff2)
           after == OwnSegs(d)
<1>1. CASE ~xliff2
  <2> DEFINE force == FALSE
  <2>1. d = ApplyPseudo(b, force) /\ BaseLocale(b, force) \in {Request, NoLocale}
    <3>1. SameLanguage(lang)
      BY <1>1
    <3>2. ~SameLanguage(lang) = FALSE
      BY <3>1 DEF SameLanguage
    <3> QED BY <1>1, <3>1, <3>2 DEF NativeBlock
  <2> HIDE DEF force
  <2>2. \A k \in 1..Len(after) : ComesFrom(after[k], Before(b))
    BY <2>1, TranslatedComesFrom
  <2> QED BY <2>2 DEF Before
<1>2. CASE xliff2
  <2> DEFINE c == SeedIgnorables(b)
             force == ~SameLanguage(lang)
  <2>1. d = ApplyPseudo(c, force)
    BY <1>2 DEF NativeBlock
  <2>2. IsBlock(c) /\ HasNames(c)
    BY SeedIgnorablesIsBlock, SeededAreNamed
  <2>3. BaseLocale(c, force) \in {Request, NoLocale}
    <3>1. BaseLocale(c, force) \in {Request, BaseLocale(b, force)}
      BY SeededBase
    <3> QED BY <3>1
  <2>4. \A j \in DOMAIN Before(c) : \E i \in DOMAIN Before(b) : SameRuns(Before(c)[j], Before(b)[i])
    BY SeedingKeeps
  <2> HIDE DEF force, c
  <2>5. \A k \in 1..Len(after) : ComesFrom(after[k], Before(c))
    BY <2>1, <2>2, <2>3, TranslatedComesFrom
  <2> HIDE DEF after
  <2>6. ASSUME NEW k \in 1..Len(after) PROVE ComesFrom(after[k], Before(b))
    <3>1. PICK j \in DOMAIN Before(c) :
            /\ Before(c)[j].id = after[k].id /\ Codes(Before(c)[j].runs) = Codes(after[k].runs)
            /\ Ignorable(after[k]) => Before(c)[j].runs = after[k].runs
      BY <2>5 DEF ComesFrom
    <3>2. PICK i \in DOMAIN Before(b) : SameRuns(Before(c)[j], Before(b)[i])
      BY <2>4
    <3> QED BY <3>1, <3>2 DEF ComesFrom, SameRuns
  <2> QED BY <2>6 DEF Before, after
<1> QED BY <1>1, <1>2

-----------------------------------------------------------------------------
(* The engines translate alike.                                              *)

\* An ignorable name stands once among the segments of the target.
Once(b) ==
  LET own == OwnSegs(b) IN \A i, j \in DOMAIN own : Ignorable(own[i]) /\ own[i].id = own[j].id => i = j

\* A block without a source has nothing in its targets either.
Sourced(b) == SourceSegs(b) # <<>> \/ \A loc \in DOMAIN b.targets : TargetSegs(b, loc) = <<>>

\* The ignorables of the source have no text, and the target has nothing else
\* under their names.
SameGaps(b) ==
  LET own == OwnSegs(b)
      source == SourceSegs(b)
  IN own # <<>> =>
       \A i \in DOMAIN source : Ignorable(source[i]) =>
         /\ ~RunsHaveText(source[i].runs)
         /\ \A k \in PlacesOf(own, source[i].id) : own[k].runs = source[i].runs

\* The sides of a block that agree: a translated target is in the language of
\* its layer, has a text to be shown, and no name of an ignorable twice; where
\* there is no translation there is a source to start from, and both sides have
\* the same gaps.
SidesAgree(b, lang) ==
  IF Translated(b, Request) THEN SameLanguage(lang) /\ Translated(Shown(b), Request) /\ Once(b)
  ELSE Sourced(b) /\ Sourced(Shown(b)) /\ SameGaps(b)

\* What a translation makes of segments: each has its name and, unless it is
\* ignorable, accents.
Renders(after, basis) ==
  /\ Len(after) = Len(basis)
  /\ \A k \in 1..Len(basis) :
       /\ after[k].id = basis[k].id
       /\ after[k].runs = IF Ignorable(basis[k]) THEN basis[k].runs ELSE Pseudo(basis[k].runs)

\* The segments of a side have names, or there is one without.
Shaped(segs) ==
  \/ \A k \in 1..Len(segs) : segs[k].id # NoName
  \/ Len(segs) = 1 /\ segs[1].id = NoName /\ segs[1].props = {} /\ segs[1].runs # <<>>

LEMMA SidesAreShaped ==
  ASSUME NEW b, IsBlock(b), HasNames(b)
  PROVE  Shaped(SourceSegs(b)) /\ \A loc : Shaped(TargetSegs(b, loc))
<1> DEFINE source == SourceSegs(b)
<1>1. Shaped(source)
  <2>1. CASE b.source.runs = <<>>
    <3>1. source = <<>>
      BY <2>1 DEF SourceSegs
    <3> QED BY <3>1 DEF Shaped
  <2>2. CASE b.source.runs # <<>> /\ b.source.spans # <<>>
    BY <2>2, SourceForm DEF Shaped
  <2>3. CASE b.source.runs # <<>> /\ b.source.spans = <<>>
    <3>1. source = <<Anonymous(b.source.runs)>>
      BY <2>3, ThreeForms DEF SourceSegs
    <3>2. Len(source) = 1 /\ source[1] = Anonymous(b.source.runs)
      BY <3>1
    <3> HIDE DEF source
    <3> QED BY <2>3, <3>2 DEF Shaped, Anonymous
  <2> QED BY <2>1, <2>2, <2>3
<1>2. ASSUME NEW loc PROVE Shaped(TargetSegs(b, loc))
  <2> DEFINE target == TargetSegs(b, loc)
  <2>1. target \in Seq(SegSet)
    BY SegsAreSegs
  <2>2. CASE \E k \in 1..Len(target) : b.targets[loc].spans = <<>>
    <3>1. PICK k \in 1..Len(target) : b.targets[loc].spans = <<>>
      BY <2>2
    <3>2. /\ Held(b, loc) /\ k = 1 /\ Len(target) = 1 /\ target[1].id = NoName /\ target[1].props = {}
          /\ target[1].runs = b.targets[loc].runs
      BY <3>1, TargetForm
    <3>3. b.targets[loc].runs # <<>>
      <4> SUFFICES ASSUME b.targets[loc].runs = <<>> PROVE FALSE
        OBVIOUS
      <4>1. target = <<>>
        BY <3>1, <3>2, ThreeForms DEF TargetSegs
      <4> QED BY <3>1, <4>1
    <3> HIDE DEF target
    <3> QED BY <3>2, <3>3 DEF Shaped, target
  <2>3. CASE \A k \in 1..Len(target) : b.targets[loc].spans # <<>>
    BY <2>3, TargetForm DEF Shaped
  <2> QED BY <2>2, <2>3
<1> QED BY <1>1, <1>2

\* What is ignorable keeps its runs if the target has no others under its name.
LEMMA NewSegRuns ==
  ASSUME NEW c, IsBlock(c), NEW seg \in SegSet,
         LET own == TargetSegs(c, Request)
         IN Ignorable(seg) => \A k \in 1..Len(own) : own[k].id = seg.id => own[k].runs = seg.runs
  PROVE  NewSeg(c, seg).runs = IF Ignorable(seg) THEN seg.runs ELSE Pseudo(seg.runs)
<1> DEFINE own == TargetSegs(c, Request)
           new == NewSeg(c, seg)
<1>1. seg = [id |-> seg.id, props |-> seg.props, runs |-> seg.runs, ir |-> seg.ir]
  BY DEF SegSet
<1>2. CASE ~Ignorable(seg)
  <2> DEFINE runs == Pseudo(seg.runs)
             ir == [i \in DOMAIN seg.ir |-> Pseudo(seg.ir[i])]
  <2>1. new = [seg EXCEPT !.runs = runs, !.ir = ir]
    BY <1>2 DEF NewSeg
  <2> HIDE DEF runs, ir, new
  <2>2. new.runs = runs
    BY <1>1, <2>1
  <2> QED BY <1>2, <2>2 DEF runs, new
<1>3. CASE Ignorable(seg) /\ PlacesOf(own, seg.id) = {}
  BY <1>3 DEF NewSeg, Kept
<1>4. CASE Ignorable(seg) /\ PlacesOf(own, seg.id) # {}
  <2>1. PICK k \in 1..Len(own) : Existing(c, seg.id) = own[k] /\ own[k].id = seg.id
    BY <1>4, ExistingIsThere
  <2>2. new = [seg EXCEPT !.runs = own[k].runs, !.ir = own[k].ir]
    BY <1>4, <2>1 DEF NewSeg, Kept
  <2>3. own[k].runs = seg.runs
    BY <1>4, <2>1
  <2> HIDE DEF new, own
  <2>4. new.runs = own[k].runs
    BY <1>1, <2>2
  <2> QED BY <1>4, <2>3, <2>4 DEF new
<1> QED BY <1>2, <1>3, <1>4

\* What is written for one segment without a name.
LEMMA RunsOfOne ==
  ASSUME NEW segs \in Seq(SegSet), Len(segs) = 1
  PROVE  Runs(segs) = segs[1].runs
<1> DEFINE ss == RunsOf(segs)
           r == segs[1].runs
<1>1. ss \in Seq(Seq(RunSet)) /\ Len(ss) = 1 /\ ss[1] = r /\ Runs(segs) = FlattenSeq(ss) /\ r \in Seq(RunSet)
  BY RunsOfSegs
<1> HIDE DEF ss, r
<1>2. Flat(ss, 1) = Flat(ss, 1 - 1) \o ss[1]
  <2>1. 1 \in 1..Len(ss)
    BY <1>1
  <2> QED BY <1>1, <2>1, Flattens
<1>3. Flat(ss, 0) = <<>> /\ Flat(ss, Len(ss)) = FlattenSeq(ss)
  BY <1>1, Flattens
<1>4. FlattenSeq(ss) = <<>> \o r
  BY <1>1, <1>2, <1>3
<1>5. FlattenSeq(ss) = r
  BY <1>1, <1>4, ConcatEmptySeq
<1> QED BY <1>1, <1>5 DEF r

\* A translation that was written reads back segment by segment; one without a
\* name takes the first of the source.
LEMMA WrittenIsRead ==
  ASSUME NEW c, IsBlock(c), HasNames(c), NEW base \in Seq(SegSet), base # <<>>, Shaped(base),
         NEW d, Retargeted(d, c, NewSide(Renewed(c, base)), NewIR(Renewed(c, base)))
  PROVE  /\ Held(d, Request) /\ Len(OwnSegs(d)) = Len(base)
         /\ \A k \in 1..Len(base) :
              /\ OwnSegs(d)[k].runs = NewSeg(c, base[k]).runs
              /\ OwnSegs(d)[k].id = IF base[k].id # NoName \/ c.source.spans = <<>> THEN base[k].id
                                    ELSE c.source.spans[1].id
<1> DEFINE segs == Renewed(c, base)
           side == NewSide(segs)
           new == TargetSegs(d, Request)
           ir == TargetIR(d, Request)
<1>1. /\ segs \in Seq(SegSet) /\ segs # <<>> /\ Len(segs) = Len(base)
      /\ \A i \in 1..Len(base) : /\ segs[i] = NewSeg(c, base[i]) /\ base[i] \in SegSet
                                 /\ segs[i].id = base[i].id /\ segs[i].props = base[i].props
  BY RenewedAreSegs
<1>2. IsSide(side) /\ IsIR(NewIR(segs))
  <2> HIDE DEF segs
  <2> QED BY <1>1, NewSideIsSide, NewIRKeeps
<1>3. /\ IsBlock(d) /\ Held(d, Request) /\ d.targets[Request] = side /\ d.source = c.source
      /\ DOMAIN d.targets = DOMAIN c.targets \cup {Request}
      /\ \A l \in DOMAIN c.targets : l # Request => d.targets[l] = c.targets[l]
  <2>1. Retargeted(d, c, side, NewIR(segs))
    OBVIOUS
  <2> HIDE DEF segs, side
  <2> QED BY <1>2, <2>1, RetargetedIsBlock
<1>4. new = Segments(side, ir)
  BY <1>3 DEF TargetSegs
<1>5. Len(base) \in Nat \ {0}
  BY EmptySeq, LenProperties
<1>6. CASE NeedsOverlay(segs)
  <2>1. side = Side(Runs(segs), Spans(segs))
    BY <1>6 DEF NewSide
  <2>2. /\ Len(new) = Len(segs) /\ side.spans # <<>>
        /\ \A k \in 1..Len(segs) : new[k].id = segs[k].id /\ new[k].runs = segs[k].runs
    <3> HIDE DEF side, segs, new, ir
    <3>1. /\ new = [i \in 1..Len(segs) |-> [id |-> segs[i].id, props |-> segs[i].props,
                                            runs |-> segs[i].runs, ir |-> Inline(ir, segs[i].id)]]
          /\ side.spans # <<>>
      BY <1>1, <1>4, <2>1, ReadBack
    <3> QED BY <1>1, <1>5, <3>1
  <2>3. OwnSegs(d) = new
    BY <1>3, <2>2, OwnSegsAreSegs
  <2>4. \A k \in 1..Len(base) : base[k].id # NoName
    <3> SUFFICES ASSUME Len(base) = 1, base[1].id = NoName, base[1].props = {} PROVE FALSE
      BY DEF Shaped
    <3>1. Len(segs) = 1 /\ segs[1].id = NoName /\ segs[1].props = {}
      BY <1>1
    <3> HIDE DEF segs
    <3> QED BY <1>6, <3>1 DEF NeedsOverlay
  <2> HIDE DEF new, segs
  <2> QED BY <1>1, <1>3, <2>2, <2>3, <2>4
<1>7. CASE ~NeedsOverlay(segs)
  <2>1. side.spans = <<>> /\ side.runs = Runs(segs)
    BY <1>7 DEF NewSide, Side
  <2>2. Len(segs) = 1 /\ segs[1].id = NoName
    <3> HIDE DEF segs
    <3> QED BY <1>1, <1>5, <1>7 DEF NeedsOverlay
  <2>3. 1 \in 1..Len(base) /\ Len(base) = 1 /\ base[1].id = NoName /\ base[1].props = {} /\ base[1].runs # <<>>
    BY <1>1, <2>2 DEF Shaped
  <2>4. side.runs = segs[1].runs
    <3> HIDE DEF segs
    <3> QED BY <1>1, <2>1, <2>2, RunsOfOne
  <2>5. side.runs = NewSeg(c, base[1]).runs
    BY <1>1, <2>3, <2>4
  <2>6. side.runs # <<>>
    <3>1. base[1] \in SegSet /\ base[1].runs \in Seq(RunSet)
      BY <1>1, <2>3 DEF SegSet
    <3>2. NewSeg(c, base[1]).runs = Pseudo(base[1].runs)
      BY <2>3, <3>1, NewSegRuns DEF Ignorable
    <3>3. Pseudo(base[1].runs) \in Seq(RunSet) /\ Len(Pseudo(base[1].runs)) = Len(base[1].runs)
      BY <3>1, PseudoIsRuns
    <3> QED BY <2>3, <2>5, <3>1, <3>2, <3>3, EmptySeq
  <2>7. Len(new) = 1 /\ new[1].id = NoName /\ new[1].runs = side.runs
    <3>1. new = <<Anonymous(side.runs)>>
      <4> HIDE DEF side, new
      <4> QED BY <1>4, <2>1, <2>6, ThreeForms
    <3>2. Len(new) = 1 /\ new[1] = Anonymous(side.runs)
      <4> HIDE DEF side, new
      <4> QED BY <3>1
    <3> HIDE DEF side, new
    <3> QED BY <3>2 DEF Anonymous
  <2>8. HasNames(d)
    <3>1. Names(d.targets[Request])
      BY <1>3, <2>1 DEF Names
    <3> QED BY <1>3, <3>1 DEF HasNames
  <2>9. /\ Len(OwnSegs(d)) = 1 /\ OwnSegs(d)[1].runs = side.runs
        /\ OwnSegs(d)[1].id = IF c.source.spans = <<>> THEN NoName ELSE c.source.spans[1].id
    <3>1. 1 \in 1..Len(TargetSegs(d, Request))
      BY <2>7
    <3>2. d.targets[Request].spans = <<>> /\ d.source.spans = c.source.spans
      BY <1>3, <2>1
    <3>3. /\ Len(OwnSegs(d)) = Len(new)
          /\ OwnSegs(d)[1].runs = new[1].runs
          /\ OwnSegs(d)[1].id = IF c.source.spans = <<>> THEN new[1].id ELSE c.source.spans[1].id
      BY <1>3, <2>8, <3>1, <3>2, OwnForm
    <3> QED BY <2>7, <3>3
  <2> QED BY <1>3, <2>3, <2>5, <2>9
<1> QED BY <1>6, <1>7

\* Segments have text when one of them has.
LEMMA TextOfSegs ==
  ASSUME NEW segs \in Seq(SegSet)
  PROVE  RunsHaveText(Runs(segs)) <=> \E k \in 1..Len(segs) : RunsHaveText(segs[k].runs)
<1> DEFINE all == Runs(segs)
           HasIt(run) == run.kind = "text" /\ \E k \in 1..Len(run.text) : run.text[k] \notin White
<1>1. all \in Seq(RunSet) /\ \A k \in 1..Len(segs) : segs[k].runs \in Seq(RunSet)
  BY RunsOfSegs
<1>2. RunsHaveText(all) <=> \E p \in 1..Len(all) : HasIt(all[p])
  <2> HIDE DEF all
  <2> QED BY <1>1, HasTextSomewhere
<1>3. \A n \in 1..Len(segs) : RunsHaveText(segs[n].runs) <=> \E k \in 1..Len(segs[n].runs) : HasIt(segs[n].runs[k])
  BY <1>1, HasTextSomewhere
<1>4. /\ \A p \in 1..Len(all) : \E n \in 1..Len(segs) : \E k \in 1..Len(segs[n].runs) : segs[n].runs[k] = all[p]
      /\ \A n \in 1..Len(segs) : \A k \in 1..Len(segs[n].runs) : \E p \in 1..Len(all) : all[p] = segs[n].runs[k]
  BY RunsOfASide
<1> HIDE DEF all, HasIt
<1> QED BY <1>2, <1>3, <1>4 DEF all

\* The requested target has text when one of its segments has.
LEMMA TextOfTarget ==
  ASSUME NEW b, IsBlock(b), NEW loc
  PROVE  LET target == TargetSegs(b, loc)
         IN Translated(b, loc) <=> \E k \in 1..Len(target) : RunsHaveText(target[k].runs)
<1> DEFINE target == TargetSegs(b, loc)
<1>1. target \in Seq(SegSet)
  BY SegsAreSegs
<1>2. CASE Held(b, loc)
  <2>1. Runs(target) = b.targets[loc].runs
    <3>1. IsSide(b.targets[loc]) /\ IsIR(TargetIR(b, loc))
      BY <1>2, TargetIRIsIR DEF IsBlock, Held
    <3>2. target = Segments(b.targets[loc], TargetIR(b, loc))
      BY <1>2 DEF TargetSegs
    <3> QED BY <3>1, <3>2, SegsOfSide
  <2> HIDE DEF target
  <2>2. RunsHaveText(Runs(target)) <=> \E k \in 1..Len(target) : RunsHaveText(target[k].runs)
    BY <1>1, TextOfSegs
  <2>3. Translated(b, loc) <=> RunsHaveText(Runs(target))
    BY <1>2, <2>1 DEF Translated
  <2> QED BY <2>2, <2>3 DEF target
<1>3. CASE ~Held(b, loc)
  <2>1. target = <<>>
    BY <1>3 DEF TargetSegs
  <2>2. 1..Len(target) = {}
    BY <2>1
  <2> QED BY <1>3, <2>2 DEF Translated
<1> QED BY <1>2, <1>3

\* The translation starts from the requested target only if that has text.
LEMMA BaseIsTranslated ==
  ASSUME NEW b, NEW force, BaseLocale(b, force) = Request
  PROVE  Translated(b, Request)
<1> DEFINE translated == {loc \in DOMAIN b.targets : Translated(b, loc)}
<1>1. PickBase(b) = Request
  BY RequestAssumption DEF BaseLocale
<1>2. PickBase(b) = IF Request \in translated THEN Request ELSE IF translated = {} THEN NoLocale
                    ELSE CHOOSE loc \in translated : TRUE
  BY DEF PickBase
<1>3. Request \in translated
  <2> HIDE DEF translated
  <2> QED BY <1>1, <1>2, RequestAssumption
<1> QED BY <1>3

LEMMA RequestFirst ==
  ASSUME NEW b, Translated(b, Request)
  PROVE  BaseLocale(b, FALSE) = Request
BY DEF BaseLocale, PickBase, Translated, Held

\* What ApplyPseudo does to a block whose base has a segment.
LEMMA Applied ==
  ASSUME NEW c, IsBlock(c), HasNames(c), c.translatable, NEW force, NEW base,
         base = BaseSegs(c, force), base # <<>>
  PROVE  LET d == ApplyPseudo(c, force)
         IN /\ base \in Seq(SegSet)
            /\ Retargeted(d, c, NewSide(Renewed(c, base)), NewIR(Renewed(c, base)))
<1>1. base \in Seq(SegSet)
  BY SegsAreSegs DEF BaseSegs
<1>2. ApplyPseudo(c, force) = WriteTarget(c, Renewed(c, base))
  BY DEF ApplyPseudo, FromBase, Renewed
<1> QED BY <1>1, <1>2, WriteTargetRetargets

\* From a target the translation makes what the step makes of it.
LEMMA FromTarget ==
  ASSUME NEW c, IsBlock(c), HasNames(c), c.translatable, NEW force,
         BaseLocale(c, force) = Request, Once(c)
  PROVE  Renders(OwnSegs(ApplyPseudo(c, force)), OwnSegs(c))
<1> DEFINE d == ApplyPseudo(c, force)
           base == TargetSegs(c, Request)
           own == OwnSegs(c)
<1>1. base = BaseSegs(c, force)
  BY RequestAssumption DEF BaseSegs, SegsOf
<1>2. base # <<>> /\ base \in Seq(SegSet)
  <2>1. Translated(c, Request)
    BY BaseIsTranslated
  <2>2. \E k \in 1..Len(base) : RunsHaveText(base[k].runs)
    BY <2>1, TextOfTarget
  <2>3. base \in Seq(SegSet)
    BY SegsAreSegs
  <2> HIDE DEF base
  <2> QED BY <2>2, <2>3
<1>3. Shaped(base)
  BY SidesAreShaped
<1>4. /\ Len(OwnSegs(d)) = Len(base)
      /\ \A k \in 1..Len(base) :
           /\ OwnSegs(d)[k].runs = NewSeg(c, base[k]).runs
           /\ OwnSegs(d)[k].id = IF base[k].id # NoName \/ c.source.spans = <<>> THEN base[k].id
                                 ELSE c.source.spans[1].id
  <2> HIDE DEF base
  <2>1. Retargeted(d, c, NewSide(Renewed(c, base)), NewIR(Renewed(c, base)))
    BY <1>1, <1>2, Applied
  <2> HIDE DEF d
  <2> QED BY <1>2, <1>3, <2>1, WrittenIsRead
<1>5. /\ Len(own) = Len(base) /\ own \in Seq(SegSet)
      /\ \A k \in 1..Len(base) :
           /\ own[k].runs = base[k].runs /\ own[k].props = base[k].props
           /\ own[k].id = IF base[k].id # NoName \/ c.source.spans = <<>> THEN base[k].id
                          ELSE c.source.spans[1].id
  <2>1. Len(own) = Len(base) /\ own \in Seq(SegSet)
    BY OwnSegsAreSegs
  <2>2. ASSUME NEW k \in 1..Len(base)
        PROVE  /\ own[k].runs = base[k].runs /\ own[k].props = base[k].props
               /\ own[k].id = IF base[k].id # NoName \/ c.source.spans = <<>> THEN base[k].id
                              ELSE c.source.spans[1].id
    <3>1. base[k].id # NoName <=> c.targets[Request].spans # <<>>
      BY TargetForm
    <3> QED BY <3>1, OwnForm
  <2> QED BY <2>1, <2>2
<1>6. ASSUME NEW k \in 1..Len(base)
      PROVE  NewSeg(c, base[k]).runs = IF Ignorable(base[k]) THEN base[k].runs ELSE Pseudo(base[k].runs)
  <2>1. base[k] \in SegSet
    <3> HIDE DEF base
    <3> QED BY <1>2, ElementOfSeq
  <2>2. ASSUME Ignorable(base[k]), NEW j \in 1..Len(base), base[j].id = base[k].id
        PROVE  base[j].runs = base[k].runs
    <3>1. base[k].id # NoName
      BY <1>3, <2>2 DEF Shaped, Ignorable
    <3>2. own[k].id = own[j].id /\ Ignorable(own[k])
      BY <1>5, <2>2, <3>1 DEF Ignorable
    <3>3. k \in DOMAIN own /\ j \in DOMAIN own
      <4> HIDE DEF own
      <4> QED BY <1>5, LenProperties
    <3>4. k = j
      BY <3>2, <3>3 DEF Once
    <3> QED BY <3>4
  <2> QED BY <2>1, <2>2, NewSegRuns
<1> HIDE DEF base, own, d
<1>7. Renders(OwnSegs(d), own)
  BY <1>4, <1>5, <1>6 DEF Renders, Ignorable
<1> QED BY <1>7 DEF own, d

\* From the source the translation makes what the step makes of it, if the target
\* has nothing else under the name of an ignorable.
LEMMA FromSource ==
  ASSUME NEW c, IsBlock(c), HasNames(c), c.translatable, NEW force,
         BaseLocale(c, force) = NoLocale, SourceSegs(c) # <<>>,
         \A i \in 1..Len(SourceSegs(c)), k \in 1..Len(TargetSegs(c, Request)) :
           Ignorable(SourceSegs(c)[i]) /\ TargetSegs(c, Request)[k].id = SourceSegs(c)[i].id =>
             TargetSegs(c, Request)[k].runs = SourceSegs(c)[i].runs
  PROVE  Held(ApplyPseudo(c, force), Request) /\ Renders(OwnSegs(ApplyPseudo(c, force)), SourceSegs(c))
<1> DEFINE d == ApplyPseudo(c, force)
           base == SourceSegs(c)
<1>1. base = BaseSegs(c, force)
  BY DEF BaseSegs, SegsOf
<1>2. base \in Seq(SegSet) /\ Shaped(base)
  BY SegsAreSegs, SidesAreShaped
<1>3. /\ Held(d, Request) /\ Len(OwnSegs(d)) = Len(base)
      /\ \A k \in 1..Len(base) :
           /\ OwnSegs(d)[k].runs = NewSeg(c, base[k]).runs
           /\ OwnSegs(d)[k].id = IF base[k].id # NoName \/ c.source.spans = <<>> THEN base[k].id
                                 ELSE c.source.spans[1].id
  <2> HIDE DEF base
  <2>1. base # <<>>
    BY DEF base
  <2>2. Retargeted(d, c, NewSide(Renewed(c, base)), NewIR(Renewed(c, base)))
    BY <1>1, <2>1, Applied
  <2> HIDE DEF d
  <2> QED BY <1>2, <2>1, <2>2, WrittenIsRead
<1>4. \A k \in 1..Len(base) : base[k].id # NoName \/ c.source.spans = <<>>
  BY SourceForm
<1>5. ASSUME NEW k \in 1..Len(base)
      PROVE  NewSeg(c, base[k]).runs = IF Ignorable(base[k]) THEN base[k].runs ELSE Pseudo(base[k].runs)
  <2>1. base[k] \in SegSet
    <3> HIDE DEF base
    <3> QED BY <1>2, ElementOfSeq
  <2> QED BY <2>1, NewSegRuns
<1> HIDE DEF base, d
<1>6. Renders(OwnSegs(d), base)
  BY <1>3, <1>4, <1>5 DEF Renders
<1> QED BY <1>3, <1>6 DEF base, d

\* Of a block whose sides are all empty the translation makes nothing.
LEMMA FromNothing ==
  ASSUME NEW c, NEW force, SourceSegs(c) = <<>>, \A loc \in DOMAIN c.targets : TargetSegs(c, loc) = <<>>
  PROVE  ApplyPseudo(c, force) = c
<1>1. SegsOf(c, BaseLocale(c, force)) = <<>>
  BY DEF SegsOf, TargetSegs, Held
<1> QED BY <1>1 DEF ApplyPseudo, FromBase, BaseSegs

\* The step renders its target, or the source where that has no text.
LEMMA StepRenders ==
  ASSUME NEW b, IsBlock(b), NEW target \in Seq(SegSet)
  PROVE  /\ Renders(StepTarget(b, target),
                    IF \E k \in 1..Len(target) : RunsHaveText(target[k].runs) THEN target ELSE SourceSegs(b))
         /\ DOMAIN StepTarget(b, target) = 1..Len(StepTarget(b, target))
<1> DEFINE basis == IF RunsHaveText(Runs(target)) THEN target ELSE SourceSegs(b)
           Of(seg) == IF Ignorable(seg) THEN seg ELSE [seg EXCEPT !.runs = Pseudo(@)]
<1>1. basis \in Seq(SegSet)
  BY SegsAreSegs
<1>2. basis = IF \E k \in 1..Len(target) : RunsHaveText(target[k].runs) THEN target ELSE SourceSegs(b)
  BY TextOfSegs
<1>3. StepTarget(b, target) = [i \in DOMAIN basis |-> Of(basis[i])]
  BY DEF StepTarget
<1> HIDE DEF basis
<1>4. ASSUME NEW seg \in SegSet
      PROVE  Of(seg).id = seg.id /\ Of(seg).runs = IF Ignorable(seg) THEN seg.runs ELSE Pseudo(seg.runs)
  <2> DEFINE runs == Pseudo(seg.runs)
  <2>1. seg = [id |-> seg.id, props |-> seg.props, runs |-> seg.runs, ir |-> seg.ir]
    BY DEF SegSet
  <2>2. CASE Ignorable(seg)
    BY <2>2
  <2>3. CASE ~Ignorable(seg)
    <3>1. Of(seg) = [seg EXCEPT !.runs = runs]
      BY <2>3
    <3> HIDE DEF runs, Of
    <3>2. Of(seg).id = seg.id /\ Of(seg).runs = runs
      BY <2>1, <3>1
    <3> QED BY <2>3, <3>2 DEF runs
  <2> QED BY <2>2, <2>3
<1>5. /\ DOMAIN basis = 1..Len(basis) /\ Len(basis) \in Nat
      /\ \A i \in 1..Len(basis) : basis[i] \in SegSet
  BY <1>1, LenProperties, ElementOfSeq
<1> HIDE DEF Of
<1>6. /\ Len(StepTarget(b, target)) = Len(basis) /\ DOMAIN StepTarget(b, target) = 1..Len(basis)
      /\ \A i \in 1..Len(basis) : StepTarget(b, target)[i] = Of(basis[i])
  BY <1>3, <1>5
<1> QED BY <1>2, <1>4, <1>5, <1>6 DEF Renders

\* Segments that differ at most in their inline content.
Same(s, t) ==
  /\ Len(s) = Len(t)
  /\ \A k \in 1..Len(s) : s[k].id = t[k].id /\ s[k].props = t[k].props /\ s[k].runs = t[k].runs

LEMMA SameRendered ==
  ASSUME NEW after, NEW s, NEW t, Renders(after, s), Same(s, t)
  PROVE  Renders(after, t)
BY DEF Renders, Same, Ignorable

\* A block with segments to be seeded changes.
LEMMA SeedingShows ==
  ASSUME NEW b, IsBlock(b), Held(b, Request), b.targets[Request].runs # <<>>,
         SeedIgnorables(b) = b
  PROVE  Missing(b, OwnSegs(b)) = <<>>
<1> SUFFICES ASSUME Missing(b, OwnSegs(b)) # <<>> PROVE FALSE
  OBVIOUS
<1> DEFINE own == OwnSegs(b)
           missing == Missing(b, own)
           segs == own \o missing
           side == Side(Runs(segs), Spans(segs))
<1>1. own \in Seq(SegSet) /\ missing \in Seq(SegSet) /\ Len(own) = Len(TargetSegs(b, Request))
  BY OwnSegsAreSegs, MissingAre
<1>2. segs \in Seq(SegSet) /\ Len(segs) = Len(own) + Len(missing) /\ segs # <<>>
  <2>1. missing # <<>>
    OBVIOUS
  <2> HIDE DEF own, missing
  <2>2. segs \in Seq(SegSet) /\ Len(segs) = Len(own) + Len(missing)
    BY <1>1, ConcatProperties
  <2>3. Len(own) \in Nat /\ Len(missing) \in Nat /\ Len(missing) # 0
    BY <1>1, <2>1, EmptySeq, LenProperties
  <2>4. segs # <<>>
    <3> HIDE DEF segs
    <3> QED BY <2>2, <2>3, EmptySeq
  <2> QED BY <2>2, <2>4
<1>3. b = [b EXCEPT !.targets[Request] = side]
  BY DEF SeedIgnorables, Seeded
<1>4. b.targets[Request] = side
  <2> HIDE DEF side
  <2>1. /\ b = [translatable |-> b.translatable, source |-> b.source, targets |-> b.targets, ir |-> b.ir]
        /\ b.targets = [loc \in DOMAIN b.targets |-> b.targets[loc]] /\ Request \in DOMAIN b.targets
    BY DEF IsBlock, Held
  <2> QED BY <1>3, <2>1
<1>5. Len(TargetSegs(b, Request)) = Len(segs)
  <2>1. TargetSegs(b, Request) = Segments(side, TargetIR(b, Request))
    BY <1>4 DEF TargetSegs
  <2> HIDE DEF segs
  <2>2. Segments(side, TargetIR(b, Request)) =
          [i \in 1..Len(segs) |-> [id |-> segs[i].id, props |-> segs[i].props,
                                   runs |-> segs[i].runs, ir |-> Inline(TargetIR(b, Request), segs[i].id)]]
    BY <1>2, ReadBack
  <2>3. Len(segs) \in Nat
    BY <1>2, LenProperties
  <2> HIDE DEF side
  <2> QED BY <2>1, <2>2, <2>3
<1>6. Len(missing) \in Nat \ {0} /\ Len(own) \in Nat
  <2> missing # <<>>
    OBVIOUS
  <2> HIDE DEF own, missing
  <2> QED BY <1>1, EmptySeq, LenProperties
<1> HIDE DEF own, missing, segs
<1> QED BY <1>1, <1>2, <1>5, <1>6

\* Seeding puts what is missing behind the segments of the target.
LEMMA SeededIsFilled ==
  ASSUME NEW b, IsBlock(b), HasNames(b), Held(b, Request), b.targets[Request].runs # <<>>
  PROVE  /\ OwnSegs(b) \o Missing(b, OwnSegs(b)) \in Seq(SegSet)
         /\ Same(OwnSegs(SeedIgnorables(b)), OwnSegs(b) \o Missing(b, OwnSegs(b)))
<1> DEFINE c == SeedIgnorables(b)
           own == OwnSegs(b)
           missing == Missing(b, own)
           segs == own \o missing
<1>1. CASE c = b
  <2>1. missing = <<>>
    BY <1>1, SeedingShows
  <2>2. own \in Seq(SegSet)
    BY OwnSegsAreSegs
  <2>3. segs = own
    BY <2>1, <2>2, ConcatEmptySeq
  <2>4. OwnSegs(c) = own
    BY <1>1
  <2> HIDE DEF own, segs
  <2>5. Same(OwnSegs(c), segs)
    BY <2>3, <2>4 DEF Same
  <2> QED BY <2>2, <2>3, <2>5 DEF own, segs
<1>2. CASE c # b
  <2>1. LET new == TargetSegs(c, Request)
        IN /\ segs \in Seq(SegSet) /\ Len(new) = Len(segs) /\ c.targets[Request].spans # <<>>
           /\ \A k \in 1..Len(new) : /\ new[k].id = segs[k].id /\ new[k].props = segs[k].props
                                     /\ new[k].runs = segs[k].runs
    BY <1>2, SeededSegs
  <2>2. OwnSegs(c) = TargetSegs(c, Request)
    BY <2>1, SeedIgnorablesIsBlock, OwnSegsAreSegs
  <2> HIDE DEF segs, c
  <2>3. Same(OwnSegs(c), segs)
    BY <2>1, <2>2 DEF Same
  <2> QED BY <2>1, <2>3 DEF segs, c
<1> QED BY <1>1, <1>2

\* What is missing in XLIFF 2 has names of its own.
LEMMA MissingHasNames ==
  ASSUME NEW b, IsBlock(b), HasNames(b), IsXliff2Block(b)
  PROVE  LET own == OwnSegs(b)
             missing == Missing(b, own)
         IN /\ missing \in Seq(SegSet)
            /\ \A k \in 1..Len(missing) :
                 /\ Ignorable(missing[k])
                 /\ \E i \in 1..Len(SourceSegs(b)) : missing[k] = SourceSegs(b)[i]
                 /\ \A j \in 1..Len(own) : own[j].id # missing[k].id
                 /\ \A j \in 1..Len(missing) : missing[j].id = missing[k].id => j = k
                 /\ \A i \in 1..Len(SourceSegs(b)) :
                      SourceSegs(b)[i].id = missing[k].id => SourceSegs(b)[i].runs = missing[k].runs
<1> DEFINE own == OwnSegs(b)
           missing == Missing(b, own)
           source == SourceSegs(b)
<1>1. /\ missing \in Seq(SegSet)
      /\ \A k \in 1..Len(missing) :
           \E i \in 1..Len(source) : /\ missing[k] = source[i] /\ Ignorable(source[i]) /\ ~Present(own, source[i].id)
      /\ Named(source) => \A i, j \in 1..Len(missing) : missing[i].id = missing[j].id => i = j
  BY MissingAre
<1>2. own \in Seq(SegSet) /\ DOMAIN own = 1..Len(own)
  <2>1. own \in Seq(SegSet)
    BY OwnSegsAreSegs
  <2> HIDE DEF own
  <2> QED BY <2>1, LenProperties
<1>3. ASSUME NEW k \in 1..Len(missing) PROVE Named(source)
  <2>1. PICK i \in 1..Len(source) : missing[k] = source[i] /\ Ignorable(source[i])
    BY <1>1
  <2>2. Nameless(source) \/ Named(source)
    BY SourceIsReady
  <2>3. ~Nameless(source)
    <3> HIDE DEF source
    <3> QED BY <2>1 DEF Nameless, Ignorable
  <2> QED BY <2>2, <2>3
<1>4. ASSUME NEW k \in 1..Len(missing)
      PROVE  /\ Ignorable(missing[k])
             /\ \E i \in 1..Len(source) : missing[k] = source[i]
             /\ \A j \in 1..Len(own) : own[j].id # missing[k].id
             /\ \A j \in 1..Len(missing) : missing[j].id = missing[k].id => j = k
             /\ \A i \in 1..Len(source) : source[i].id = missing[k].id => source[i].runs = missing[k].runs
  <2>1. PICK i \in 1..Len(source) : missing[k] = source[i] /\ Ignorable(source[i]) /\ ~Present(own, source[i].id)
    BY <1>1
  <2>2. Named(source)
    BY <1>3
  <2>3. \A j \in 1..Len(own) : own[j].id # missing[k].id
    <3> HIDE DEF own, source, missing
    <3> QED BY <1>2, <2>1 DEF Present, PlacesOf
  <2> HIDE DEF own, source, missing
  <2>4. \A j \in 1..Len(missing) : missing[j].id = missing[k].id => j = k
    BY <1>1, <2>2
  <2>5. \A j \in 1..Len(source) : source[j].id = missing[k].id => source[j].runs = missing[k].runs
    BY <2>1, <2>2 DEF Named
  <2> QED BY <2>1, <2>3, <2>4, <2>5
<1> QED BY <1>1, <1>4

\* Names of ignorables stand once in the seeded target as well.
LEMMA SeededOnce ==
  ASSUME NEW b, IsBlock(b), HasNames(b), IsXliff2Block(b), Held(b, Request),
         b.targets[Request].runs # <<>>, Once(b)
  PROVE  Once(SeedIgnorables(b))
<1> DEFINE c == SeedIgnorables(b)
           own == OwnSegs(b)
           missing == Missing(b, own)
           segs == own \o missing
           after == OwnSegs(c)
<1>1. segs \in Seq(SegSet) /\ Same(after, segs)
  BY SeededIsFilled
<1>2. own \in Seq(SegSet) /\ missing \in Seq(SegSet) /\ after \in Seq(SegSet)
  BY OwnSegsAreSegs, MissingAre, SeedIgnorablesIsBlock
<1>3. \A k \in 1..Len(missing) :
         /\ \A j \in 1..Len(own) : own[j].id # missing[k].id
         /\ \A j \in 1..Len(missing) : missing[j].id = missing[k].id => j = k
  BY MissingHasNames
<1>4. \A i, j \in 1..Len(own) : Ignorable(own[i]) /\ own[i].id = own[j].id => i = j
  <2> HIDE DEF own
  <2>1. DOMAIN own = 1..Len(own)
    BY <1>2, LenProperties
  <2> QED BY <2>1 DEF Once, own
<1>5. DOMAIN after = 1..Len(after)
  <2> HIDE DEF after
  <2> QED BY <1>2, LenProperties
<1> SUFFICES ASSUME NEW i \in 1..Len(after), NEW j \in 1..Len(after), Ignorable(after[i]), after[i].id = after[j].id
             PROVE  i = j
  BY <1>5 DEF Once
<1> HIDE DEF own, missing, segs, after
<1>6. /\ i \in 1..Len(segs) /\ j \in 1..Len(segs) /\ Ignorable(segs[i]) /\ segs[i].id = segs[j].id
  BY <1>1 DEF Same, Ignorable
<1>7. /\ Len(segs) = Len(own) + Len(missing) /\ Len(own) \in Nat /\ Len(missing) \in Nat
      /\ \A k \in 1..Len(segs) : IF k <= Len(own) THEN k \in 1..Len(own) /\ segs[k] = own[k]
                                 ELSE k - Len(own) \in 1..Len(missing) /\ segs[k] = missing[k - Len(own)]
  BY <1>2, ConcatProperties, LenProperties DEF segs
<1>8. CASE i <= Len(own) /\ j <= Len(own)
  BY <1>4, <1>6, <1>7, <1>8
<1>9. CASE i <= Len(own) /\ ~(j <= Len(own))
  BY <1>3, <1>6, <1>7, <1>9
<1>10. CASE ~(i <= Len(own)) /\ j <= Len(own)
  BY <1>3, <1>6, <1>7, <1>10
<1>11. CASE ~(i <= Len(own)) /\ ~(j <= Len(own))
  <2>1. i - Len(own) = j - Len(own)
    BY <1>3, <1>6, <1>7, <1>11
  <2> QED BY <1>7, <2>1
<1> QED BY <1>7, <1>8, <1>9, <1>10, <1>11

\* Two renderings of the same segments.
Alike(s, t) == \E basis : Renders(s, basis) /\ Renders(t, basis)

\* The step starts from the requested target where that has text.
LEMMA OwnHasText ==
  ASSUME NEW b, IsBlock(b)
  PROVE  LET own == OwnSegs(b)
         IN Translated(b, Request) <=> \E k \in 1..Len(own) : RunsHaveText(own[k].runs)
<1> DEFINE own == OwnSegs(b)
           target == TargetSegs(b, Request)
<1>1. Len(own) = Len(target) /\ \A k \in 1..Len(own) : own[k].runs = target[k].runs
  BY OwnSegsAreSegs
<1>2. Translated(b, Request) <=> \E k \in 1..Len(target) : RunsHaveText(target[k].runs)
  BY TextOfTarget
<1> HIDE DEF own, target
<1>3. (\E k \in 1..Len(own) : RunsHaveText(own[k].runs)) <=> \E k \in 1..Len(target) : RunsHaveText(target[k].runs)
  BY <1>1
<1> QED BY <1>2, <1>3 DEF own

LEMMA NativeTranslated ==
  ASSUME NEW b, IsBlock(b), HasNames(b), b.translatable, NEW lang, NEW xliff2, xliff2 => IsXliff2Block(b),
         SameLanguage(lang), Translated(b, Request), Once(b)
  PROVE  Alike(OwnSegs(NativeBlock(b, lang, xliff2)), HandleTextUnit(b, xliff2))
<1> DEFINE own == OwnSegs(b)
           d == NativeBlock(b, lang, xliff2)
<1>1. own \in Seq(SegSet) /\ \E k \in 1..Len(own) : RunsHaveText(own[k].runs)
  BY OwnSegsAreSegs, OwnHasText
<1>2. ~SameLanguage(lang) = FALSE
  BY DEF SameLanguage
<1>3. CASE ~xliff2
  <2>1. d = ApplyPseudo(b, FALSE)
    BY <1>3 DEF NativeBlock
  <2>2. Renders(OwnSegs(d), own)
    BY <2>1, RequestFirst, FromTarget
  <2>3. HandleTextUnit(b, xliff2) = StepTarget(b, own)
    BY <1>3 DEF HandleTextUnit, FilterTarget
  <2> HIDE DEF own, d
  <2>4. Renders(StepTarget(b, own), own)
    BY <1>1, StepRenders
  <2> QED BY <2>2, <2>3, <2>4 DEF Alike, d
<1>4. CASE xliff2
  <2> DEFINE c == SeedIgnorables(b)
             missing == Missing(b, own)
             segs == own \o missing
  <2>1. Held(b, Request) /\ b.targets[Request].runs # <<>>
    <3>1. own # <<>>
      <4> HIDE DEF own
      <4> QED BY <1>1
    <3>2. Held(b, Request) /\ RunsHaveText(b.targets[Request].runs)
      BY DEF Translated
    <3>3. b.targets[Request].runs \in Seq(RunSet)
      BY <3>2 DEF IsBlock, IsSide, Held
    <3>4. \E i \in 1..Len(b.targets[Request].runs) : TRUE
      BY <3>2, <3>3, HasTextSomewhere
    <3> QED BY <3>2, <3>4
  <2>2. IsBlock(c) /\ HasNames(c) /\ c.translatable
    <3>1. IsBlock(c) /\ HasNames(c)
      BY SeedIgnorablesIsBlock, SeededAreNamed
    <3>2. c.translatable
      <4>1. b = [translatable |-> b.translatable, source |-> b.source, targets |-> b.targets, ir |-> b.ir]
        BY DEF IsBlock
      <4> QED BY <4>1 DEF SeedIgnorables, Seeded
    <3> QED BY <3>1, <3>2
  <2>3. Translated(c, Request) /\ Once(c)
    <3>1. Translated(c, Request)
      BY SeededStaysTranslated
    <3>2. Once(c)
      BY <1>4, <2>1, SeededOnce
    <3> QED BY <3>1, <3>2
  <2>4. segs \in Seq(SegSet) /\ Same(OwnSegs(c), segs)
    BY <2>1, SeededIsFilled
  <2>5. d = ApplyPseudo(c, FALSE)
    BY <1>2, <1>4 DEF NativeBlock
  <2>6. HandleTextUnit(b, xliff2) = StepTarget(b, segs)
    <3>1. own # <<>>
      <4> HIDE DEF own
      <4> QED BY <1>1
    <3> QED BY <1>4, <3>1 DEF HandleTextUnit, FilterTarget
  <2> HIDE DEF c, d
  <2>7. Renders(OwnSegs(d), OwnSegs(c))
    BY <2>2, <2>3, <2>5, RequestFirst, FromTarget
  <2>8. Renders(OwnSegs(d), segs)
    BY <2>4, <2>7, SameRendered
  <2>9. \E k \in 1..Len(segs) : RunsHaveText(segs[k].runs)
    <3>1. \E k \in 1..Len(OwnSegs(c)) : RunsHaveText(OwnSegs(c)[k].runs)
      BY <2>2, <2>3, OwnHasText
    <3> HIDE DEF segs
    <3> QED BY <2>4, <3>1 DEF Same
  <2> HIDE DEF segs
  <2>10. Renders(StepTarget(b, segs), segs)
    BY <2>4, <2>9, StepRenders
  <2> QED BY <2>6, <2>8, <2>10 DEF Alike, d
<1> QED BY <1>3, <1>4

LEMMA NativeFromSource ==
  ASSUME NEW b, IsBlock(b), HasNames(b), b.translatable, NEW lang, NEW xliff2, xliff2 => IsXliff2Block(b),
         xliff2 \/ SameLanguage(lang), BaseLocale(b, ~SameLanguage(lang)) \in {Request, NoLocale},
         ~Translated(b, Request), SourceSegs(b) # <<>>, SameGaps(b)
  PROVE  Alike(OwnSegs(NativeBlock(b, lang, xliff2)), HandleTextUnit(b, xliff2))
<1> DEFINE own == OwnSegs(b)
           source == SourceSegs(b)
           force == ~SameLanguage(lang)
           missing == Missing(b, own)
           c == IF xliff2 THEN SeedIgnorables(b) ELSE b
           d == NativeBlock(b, lang, xliff2)
<1>1. /\ own \in Seq(SegSet) /\ DOMAIN own = 1..Len(own)
      /\ source \in Seq(SegSet) /\ DOMAIN source = 1..Len(source)
  <2>1. own \in Seq(SegSet) /\ source \in Seq(SegSet)
    BY OwnSegsAreSegs, SegsAreSegs
  <2> HIDE DEF own, source
  <2> QED BY <2>1, LenProperties
<1>2. \A k \in 1..Len(own) : ~RunsHaveText(own[k].runs)
  BY OwnHasText
<1>3. own # <<>> => \A i \in 1..Len(source) : Ignorable(source[i]) =>
        /\ ~RunsHaveText(source[i].runs)
        /\ \A k \in 1..Len(own) : own[k].id = source[i].id => own[k].runs = source[i].runs
  BY <1>1 DEF SameGaps, PlacesOf
<1>4. BaseLocale(b, force) = NoLocale
  BY BaseIsTranslated
<1>5. d = ApplyPseudo(c, force)
  <2>1. SameLanguage(lang) => ~SameLanguage(lang) = FALSE
    BY DEF SameLanguage
  <2> QED BY <2>1 DEF NativeBlock
<1>6. missing \in Seq(SegSet) /\ Len(missing) \in Nat
      /\ \A k \in 1..Len(missing) : \E i \in 1..Len(source) : missing[k] = source[i] /\ Ignorable(source[i])
  <2>1. missing \in Seq(SegSet)
        /\ \A k \in 1..Len(missing) : \E i \in 1..Len(source) : missing[k] = source[i] /\ Ignorable(source[i])
    BY MissingAre
  <2> HIDE DEF missing
  <2> QED BY <2>1, LenProperties
\* what the seeding leaves is a block without a translation
<1>7. IsBlock(c) /\ HasNames(c) /\ c.translatable /\ SourceSegs(c) = source
  <2>1. IsBlock(c) /\ HasNames(c)
    BY SeedIgnorablesIsBlock, SeededAreNamed
  <2>2. c.translatable
    <3>1. b = [translatable |-> b.translatable, source |-> b.source, targets |-> b.targets, ir |-> b.ir]
      BY DEF IsBlock
    <3> QED BY <3>1 DEF SeedIgnorables, Seeded
  <2>3. SourceSegs(c) = source
    <3>1. SeedIgnorables(b) # b => SourceSegs(SeedIgnorables(b)) = source
      BY SeededSegs
    <3> QED BY <3>1
  <2> QED BY <2>1, <2>2, <2>3
<1>8. /\ ~Translated(c, Request)
      /\ \A i \in 1..Len(source), k \in 1..Len(OwnSegs(c)) :
           Ignorable(source[i]) /\ OwnSegs(c)[k].id = source[i].id => OwnSegs(c)[k].runs = source[i].runs
  <2>1. CASE c = b
    <3>1. own = <<>> => 1..Len(own) = {}
      <4> HIDE DEF own
      <4> QED OBVIOUS
    <3> QED BY <1>3, <2>1, <3>1
  <2>2. CASE c # b
    <3> DEFINE after == OwnSegs(c)
               segs == own \o missing
    <3>1. xliff2 /\ c = SeedIgnorables(b) /\ Held(b, Request) /\ b.targets[Request].runs # <<>>
      BY <2>2 DEF SeedIgnorables
    <3>2. segs \in Seq(SegSet) /\ Same(after, segs)
      BY <3>1, SeededIsFilled
    <3>3. own # <<>>
      <4>1. Runs(TargetSegs(b, Request)) = b.targets[Request].runs /\ Len(own) = Len(TargetSegs(b, Request))
            /\ TargetSegs(b, Request) \in Seq(SegSet)
        BY <3>1, TargetsCover, OwnSegsAreSegs, SegsAreSegs
      <4>2. b.targets[Request].runs \in Seq(RunSet)
        BY <3>1 DEF IsBlock, IsSide, Held
      <4>3. \E p \in 1..Len(Runs(TargetSegs(b, Request))) : TRUE
        BY <3>1, <4>1, <4>2, EmptySeq, LenProperties
      <4>4. \E n \in 1..Len(TargetSegs(b, Request)) : TRUE
        BY <4>1, <4>3, RunsOfASide
      <4> HIDE DEF own
      <4> QED BY <4>1, <4>4
    <3>4. \A k \in 1..Len(missing) : /\ ~RunsHaveText(missing[k].runs)
                                     /\ \A i \in 1..Len(source) :
                                          source[i].id = missing[k].id => source[i].runs = missing[k].runs
      <4>1. \A k \in 1..Len(missing) : ~RunsHaveText(missing[k].runs)
        <5> HIDE DEF own, source, missing
        <5> QED BY <1>3, <1>6, <3>3
      <4>2. \A k \in 1..Len(missing) : \A i \in 1..Len(source) :
              source[i].id = missing[k].id => source[i].runs = missing[k].runs
        BY <3>1, MissingHasNames
      <4> QED BY <4>1, <4>2
    <3> HIDE DEF own, missing, segs, after, source, c, d
    <3>5. /\ Len(segs) = Len(own) + Len(missing) /\ Len(own) \in Nat
          /\ \A k \in 1..Len(segs) : \/ \E j \in 1..Len(own) : segs[k] = own[j]
                                     \/ \E j \in 1..Len(missing) : segs[k] = missing[j]
      BY <1>1, <1>6, ConcatProperties, LenProperties DEF segs
    <3>6. \A k \in 1..Len(segs) : ~RunsHaveText(segs[k].runs)
      BY <1>2, <3>4, <3>5
    <3>7. \A i \in 1..Len(source), k \in 1..Len(segs) :
            Ignorable(source[i]) /\ segs[k].id = source[i].id => segs[k].runs = source[i].runs
      <4> SUFFICES ASSUME NEW i \in 1..Len(source), NEW k \in 1..Len(segs),
                          Ignorable(source[i]), segs[k].id = source[i].id
                   PROVE  segs[k].runs = source[i].runs
        OBVIOUS
      <4>1. CASE \E j \in 1..Len(own) : segs[k] = own[j]
        BY <1>3, <3>3, <4>1
      <4>2. CASE \E j \in 1..Len(missing) : segs[k] = missing[j]
        BY <3>4, <4>2
      <4> QED BY <3>5, <4>1, <4>2
    <3>8. ~\E k \in 1..Len(after) : RunsHaveText(after[k].runs)
      BY <3>2, <3>6 DEF Same
    <3>9. ~Translated(c, Request)
      BY <1>7, <3>8, OwnHasText DEF after
    <3> QED BY <3>2, <3>7, <3>9 DEF Same, after
  <2> QED BY <2>1, <2>2
<1>9. BaseLocale(c, force) = NoLocale
  <2>1. BaseLocale(c, force) \in {Request, BaseLocale(b, force)}
    BY SeededBase
  <2>2. BaseLocale(c, force) # Request
    BY <1>8, BaseIsTranslated
  <2> QED BY <1>4, <2>1, <2>2
\* the names the target has in the block are those of its own segments
<1>10. \A i \in 1..Len(SourceSegs(c)), k \in 1..Len(TargetSegs(c, Request)) :
         Ignorable(SourceSegs(c)[i]) /\ TargetSegs(c, Request)[k].id = SourceSegs(c)[i].id =>
           TargetSegs(c, Request)[k].runs = SourceSegs(c)[i].runs
  <2> SUFFICES ASSUME NEW i \in 1..Len(source), NEW k \in 1..Len(TargetSegs(c, Request)),
                      Ignorable(source[i]), TargetSegs(c, Request)[k].id = source[i].id
               PROVE  TargetSegs(c, Request)[k].runs = source[i].runs
    BY <1>7
  <2>1. source[i].id # NoName
    BY SourceForm DEF Ignorable
  <2> HIDE DEF c, source
  <2>2. c.targets[Request].spans # <<>>
    BY <1>7, <2>1, TargetForm
  <2>3. /\ k \in 1..Len(OwnSegs(c)) /\ OwnSegs(c)[k].id = TargetSegs(c, Request)[k].id
        /\ OwnSegs(c)[k].runs = TargetSegs(c, Request)[k].runs
    BY <1>7, <2>2, OwnForm
  <2> QED BY <1>8, <2>3
<1>11. Renders(OwnSegs(d), source)
  <2>1. SourceSegs(c) # <<>>
    BY <1>7
  <2> HIDE DEF c, d, source, force
  <2> QED BY <1>5, <1>7, <1>9, <1>10, <2>1, FromSource
<1>12. Renders(HandleTextUnit(b, xliff2), source)
  <2>1. CASE ~(xliff2 /\ own # <<>>)
    <3>1. HandleTextUnit(b, xliff2) = StepTarget(b, own)
      BY <2>1 DEF HandleTextUnit, FilterTarget
    <3> HIDE DEF own
    <3> QED BY <1>1, <1>2, <3>1, StepRenders
  <2>2. CASE xliff2 /\ own # <<>>
    <3> DEFINE segs == own \o missing
    <3>1. HandleTextUnit(b, xliff2) = StepTarget(b, segs)
      BY <2>2 DEF HandleTextUnit, FilterTarget
    <3> HIDE DEF own, missing
    <3>2. segs \in Seq(SegSet)
      BY <1>1, <1>6, ConcatProperties
    <3>3. \A k \in 1..Len(segs) : \/ \E j \in 1..Len(own) : segs[k] = own[j]
                                  \/ \E j \in 1..Len(missing) : segs[k] = missing[j]
      BY <1>1, <1>6, ConcatProperties, LenProperties
    <3> HIDE DEF source, segs
    <3>4. \A k \in 1..Len(missing) : ~RunsHaveText(missing[k].runs)
      BY <1>3, <1>6, <2>2
    <3>5. ~\E k \in 1..Len(segs) : RunsHaveText(segs[k].runs)
      BY <1>2, <3>3, <3>4
    <3> QED BY <3>1, <3>2, <3>5, StepRenders DEF source
  <2> QED BY <2>1, <2>2
<1> QED BY <1>11, <1>12 DEF Alike

LEMMA NativeOfNothing ==
  ASSUME NEW b, IsBlock(b), HasNames(b), b.translatable, NEW lang, NEW xliff2, xliff2 \/ SameLanguage(lang),
         SourceSegs(b) = <<>>, \A loc \in DOMAIN b.targets : TargetSegs(b, loc) = <<>>
  PROVE  Alike(OwnSegs(NativeBlock(b, lang, xliff2)), HandleTextUnit(b, xliff2))
<1>1. TargetSegs(b, Request) = <<>>
  BY DEF TargetSegs, Held
<1>2. OwnSegs(b) = <<>>
  BY <1>1 DEF OwnSegs
<1>3. SeedIgnorables(b) = b
  <2>1. CASE Held(b, Request)
    <3>1. Runs(TargetSegs(b, Request)) = b.targets[Request].runs
      BY <2>1, TargetsCover
    <3>2. Runs(<<>>) = <<>>
      BY DEF Runs, FlattenSeq
    <3>3. b.targets[Request].runs = <<>>
      BY <1>1, <3>1, <3>2
    <3> QED BY <3>3 DEF SeedIgnorables
  <2> QED BY <2>1 DEF SeedIgnorables
<1>4. NativeBlock(b, lang, xliff2) = b
  BY <1>3, FromNothing DEF NativeBlock
<1>5. FilterTarget(b, OwnSegs(b), xliff2) = <<>>
  BY <1>2 DEF FilterTarget
<1>6. Renders(StepTarget(b, <<>>), <<>>)
  <2>1. <<>> \in Seq(SegSet) /\ 1..Len(<<>>) = {}
    OBVIOUS
  <2> QED BY <2>1, StepRenders
<1>7. Renders(<<>>, <<>>)
  BY DEF Renders
<1> QED BY <1>2, <1>4, <1>5, <1>6, <1>7 DEF Alike, HandleTextUnit

LEMMA NoInline == IsIR(NoIR)
BY DEF NoIR, IsIR

\* What the daemon shows of a side is a side without ignorables, and with no
\* other text.
LEMMA VisibleIsSide ==
  ASSUME NEW side, IsSide(side), Names(side)
  PROVE  LET v == Visible(side)
         IN /\ IsSide(v) /\ Names(v)
            /\ \A ir : IsIR(ir) => \A k \in 1..Len(Segments(v, ir)) : ~Ignorable(Segments(v, ir)[k])
            /\ RunsHaveText(v.runs) => RunsHaveText(side.runs)
<1> DEFINE v == Visible(side)
           all == Segments(side, NoIR)
           shown == {i \in DOMAIN all : ~Ignorable(all[i])}
           segs == Those(all, shown)
<1>1. CASE side.spans = <<>>
  <2>1. v = side
    BY <1>1 DEF Visible
  <2>2. ASSUME NEW ir, IsIR(ir), NEW k \in 1..Len(Segments(side, ir)) PROVE ~Ignorable(Segments(side, ir)[k])
    <3>1. Segments(side, ir)[k].props = {}
      BY <1>1, <2>2, NamedOrAlone
    <3> QED BY <3>1 DEF Ignorable
  <2> QED BY <2>1, <2>2
<1>2. CASE side.spans # <<>>
  <2>1. v = Side(Runs(segs), Spans(segs))
    BY <1>2 DEF Visible
  <2>2. all \in Seq(SegSet) /\ Runs(all) = side.runs /\ DOMAIN all = 1..Len(all)
    <3>1. all \in Seq(SegSet) /\ Runs(all) = side.runs
      BY NoInline, SegsOfSide
    <3> HIDE DEF all
    <3> QED BY <3>1, LenProperties
  <2>3. \A i \in 1..Len(all) : all[i].id # NoName
    BY <1>2, NoInline, NamedOrAlone
  <2>4. segs \in Seq(SegSet) /\ \A a \in 1..Len(segs) : \E i \in shown : segs[a] = all[i]
    <3>1. shown \in SUBSET (1..Len(all))
      BY <2>2
    <3> HIDE DEF all, shown
    <3> QED BY <2>2, <3>1, ThoseSegs
  <2>5. \A a \in 1..Len(segs) : /\ segs[a].id # NoName /\ ~Ignorable(segs[a])
                                /\ \E i \in 1..Len(all) : segs[a] = all[i]
    <3> HIDE DEF all, segs
    <3> QED BY <2>2, <2>3, <2>4
  <2>6. RunsHaveText(v.runs) => RunsHaveText(side.runs)
    <3>1. v.runs = Runs(segs)
      BY <2>1 DEF Side
    <3> HIDE DEF all, segs, v
    <3>2. RunsHaveText(v.runs) => \E k \in 1..Len(segs) : RunsHaveText(segs[k].runs)
      BY <2>4, <3>1, TextOfSegs
    <3>3. (\E k \in 1..Len(all) : RunsHaveText(all[k].runs)) => RunsHaveText(side.runs)
      BY <2>2, TextOfSegs
    <3> QED BY <2>5, <3>2, <3>3
  <2>7. CASE segs = <<>>
    <3>1. v = Side(<<>>, <<>>)
      <4>1. Runs(segs) = <<>> /\ Spans(segs) = <<>>
        <5> HIDE DEF segs
        <5> QED BY <2>7 DEF Runs, Spans, FlattenSeq
      <4> QED BY <2>1, <4>1
    <3>2. v.runs = <<>> /\ v.spans = <<>>
      BY <3>1 DEF Side
    <3> HIDE DEF v
    <3>3. IsSide(v) /\ Names(v)
      BY <3>1, <3>2 DEF IsSide, CutsAll, Names, Side
    <3>4. \A ir : Segments(v, ir) = <<>>
      BY <3>2, ThreeForms
    <3>5. 1..Len(<<>>) = {}
      OBVIOUS
    <3> QED BY <2>6, <3>3, <3>4, <3>5 DEF v
  <2>8. CASE segs # <<>>
    <3> HIDE DEF segs
    <3>1. /\ IsSide(v) /\ v.spans # <<>> /\ Len(v.spans) = Len(segs)
          /\ \A i \in 1..Len(segs) : v.spans[i].id = segs[i].id
          /\ \A ir : Segments(v, ir) = [i \in 1..Len(segs) |-> [id |-> segs[i].id, props |-> segs[i].props,
                                           runs |-> segs[i].runs, ir |-> Inline(ir, segs[i].id)]]
      BY <2>1, <2>4, <2>8, ReadBack
    <3> HIDE DEF v
    <3>2. Len(segs) \in Nat
      BY <2>4, LenProperties
    <3>3. Names(v)
      <4>1. v.spans \in Seq(SpanSet)
        BY <3>1 DEF IsSide
      <4>2. DOMAIN v.spans = 1..Len(segs)
        BY <3>1, <4>1, LenProperties
      <4> QED BY <2>5, <3>1, <4>2 DEF Names
    <3>4. ASSUME NEW ir, NEW k \in 1..Len(Segments(v, ir)) PROVE ~Ignorable(Segments(v, ir)[k])
      <4> DEFINE new == Segments(v, ir)
      <4>1. new = [i \in 1..Len(segs) |-> [id |-> segs[i].id, props |-> segs[i].props,
                                           runs |-> segs[i].runs, ir |-> Inline(ir, segs[i].id)]]
        BY <3>1
      <4> HIDE DEF new
      <4>2. Len(new) = Len(segs) /\ \A i \in 1..Len(segs) : new[i].props = segs[i].props
        BY <3>2, <4>1
      <4>3. k \in 1..Len(segs)
        BY <4>2 DEF new
      <4>4. ~Ignorable(new[k])
        BY <2>5, <4>2, <4>3 DEF Ignorable
      <4> QED BY <4>4 DEF new
    <3> QED BY <2>6, <3>1, <3>3, <3>4 DEF v
  <2> QED BY <2>7, <2>8
<1> QED BY <1>1, <1>2

\* What the daemon shows of a block is a block without ignorables, translated
\* nowhere else.
LEMMA ShownIsBlock ==
  ASSUME NEW b, IsBlock(b), HasNames(b)
  PROVE  LET s == Shown(b)
         IN /\ IsBlock(s) /\ HasNames(s) /\ s.translatable = b.translatable
            /\ DOMAIN s.targets = DOMAIN b.targets
            /\ \A k \in 1..Len(SourceSegs(s)) : ~Ignorable(SourceSegs(s)[k])
            /\ \A loc : \A k \in 1..Len(TargetSegs(s, loc)) : ~Ignorable(TargetSegs(s, loc)[k])
            /\ \A loc : Translated(s, loc) => Translated(b, loc)
<1> DEFINE s == Shown(b)
           ir == [source |-> NoIR, targets |-> [loc \in {} |-> NoIR]]
           targets == [loc \in DOMAIN b.targets |-> Visible(b.targets[loc])]
<1>1. b = [translatable |-> b.translatable, source |-> b.source, targets |-> b.targets, ir |-> b.ir]
  BY DEF IsBlock
<1>2. s = [b EXCEPT !.source = Visible(b.source), !.targets = targets, !.ir = ir]
  BY DEF Shown
<1>3. s = [translatable |-> b.translatable, source |-> Visible(b.source), targets |-> targets, ir |-> ir]
  <2> HIDE DEF s, ir, targets
  <2> QED BY <1>1, <1>2
<1>4. /\ s.translatable = b.translatable /\ s.source = Visible(b.source) /\ s.targets = targets /\ s.ir = ir
  <2> HIDE DEF s, ir, targets
  <2> QED BY <1>3
<1>5. ir.source = NoIR /\ DOMAIN ir.targets = {} /\ ir = [source |-> ir.source, targets |-> ir.targets]
      /\ ir.targets = [loc \in DOMAIN ir.targets |-> ir.targets[loc]]
  OBVIOUS
<1>6. /\ IsSide(s.source) /\ Names(s.source)
      /\ \A k \in 1..Len(Segments(s.source, NoIR)) : ~Ignorable(Segments(s.source, NoIR)[k])
  <2>1. IsSide(b.source) /\ Names(b.source)
    BY DEF IsBlock, HasNames
  <2> HIDE DEF s
  <2> QED BY <1>4, <2>1, NoInline, VisibleIsSide
<1>7. ASSUME NEW loc \in DOMAIN b.targets
      PROVE  /\ loc \in DOMAIN s.targets /\ IsSide(s.targets[loc]) /\ Names(s.targets[loc])
             /\ \A k \in 1..Len(Segments(s.targets[loc], NoIR)) : ~Ignorable(Segments(s.targets[loc], NoIR)[k])
             /\ RunsHaveText(s.targets[loc].runs) => RunsHaveText(b.targets[loc].runs)
  <2>1. IsSide(b.targets[loc]) /\ Names(b.targets[loc])
    BY DEF IsBlock, HasNames
  <2>2. loc \in DOMAIN s.targets /\ s.targets[loc] = Visible(b.targets[loc])
    BY <1>4
  <2> HIDE DEF s
  <2> QED BY <2>1, <2>2, NoInline, VisibleIsSide
<1>8. DOMAIN s.targets = DOMAIN b.targets /\ s.targets = [loc \in DOMAIN s.targets |-> s.targets[loc]]
  BY <1>4
<1> HIDE DEF s, ir, targets
<1>9. IsBlock(s)
  <2>1. s = [translatable |-> s.translatable, source |-> s.source, targets |-> s.targets, ir |-> s.ir]
    BY <1>3, <1>4
  <2>2. s.translatable \in BOOLEAN /\ NoLocale \notin DOMAIN s.targets
    BY <1>4, <1>8 DEF IsBlock
  <2>3. \A loc \in DOMAIN s.targets : IsSide(s.targets[loc])
    BY <1>7, <1>8
  <2>4. /\ s.ir = [source |-> s.ir.source, targets |-> s.ir.targets]
        /\ s.ir.targets = [loc \in DOMAIN s.ir.targets |-> s.ir.targets[loc]]
        /\ IsIR(s.ir.source) /\ \A loc \in DOMAIN s.ir.targets : IsIR(s.ir.targets[loc])
    BY <1>4, <1>5, NoInline
  <2> QED BY <1>6, <1>8, <2>1, <2>2, <2>3, <2>4 DEF IsBlock
<1>10. HasNames(s)
  BY <1>6, <1>7, <1>8 DEF HasNames
<1>11. \A k \in 1..Len(SourceSegs(s)) : ~Ignorable(SourceSegs(s)[k])
  <2>1. CASE s.source.runs = <<>>
    <3>1. SourceSegs(s) = <<>>
      BY <2>1 DEF SourceSegs
    <3>2. 1..Len(<<>>) = {}
      OBVIOUS
    <3> QED BY <3>1, <3>2
  <2>2. CASE s.source.runs # <<>>
    <3>1. SourceSegs(s) = Segments(s.source, NoIR)
      BY <1>4, <1>5, <2>2 DEF SourceSegs
    <3> QED BY <1>6, <3>1
  <2> QED BY <2>1, <2>2
<1>12. ASSUME NEW loc, NEW k \in 1..Len(TargetSegs(s, loc)) PROVE ~Ignorable(TargetSegs(s, loc)[k])
  <2>1. Held(s, loc)
    BY <1>9, <1>10, <1>12, TargetForm
  <2>2. TargetIR(s, loc) = NoIR
    BY <1>4, <1>5 DEF TargetIR
  <2>3. TargetSegs(s, loc) = Segments(s.targets[loc], NoIR)
    BY <2>1, <2>2 DEF TargetSegs
  <2> QED BY <1>7, <1>8, <2>1, <2>3 DEF Held
<1>13. \A loc : Translated(s, loc) => Translated(b, loc)
  BY <1>7, <1>8 DEF Translated, Held
<1> QED BY <1>4, <1>8, <1>9, <1>10, <1>11, <1>12, <1>13 DEF s

\* The reference of a block without ignorables is the step alone.
LEMMA NothingIsMissing ==
  ASSUME NEW s, IsBlock(s), \A k \in 1..Len(SourceSegs(s)) : ~Ignorable(SourceSegs(s)[k]), NEW xliff2
  PROVE  HandleTextUnit(s, xliff2) = StepTarget(s, OwnSegs(s))
<1> DEFINE own == OwnSegs(s)
           missing == Missing(s, own)
<1>1. missing = <<>>
  <2>1. /\ missing \in Seq(SegSet)
        /\ \A k \in 1..Len(missing) : \E i \in 1..Len(SourceSegs(s)) :
             missing[k] = SourceSegs(s)[i] /\ Ignorable(SourceSegs(s)[i])
    BY MissingAre
  <2>2. ~\E k \in 1..Len(missing) : TRUE
    BY <2>1
  <2> HIDE DEF missing
  <2>3. Len(missing) \in Nat
    BY <2>1, LenProperties
  <2>4. Len(missing) = 0
    BY <2>2, <2>3
  <2> QED BY <2>1, <2>4, EmptySeq
<1>2. own \in Seq(SegSet)
  BY OwnSegsAreSegs
<1>3. FilterTarget(s, own, xliff2) = own
  <2>1. own \o <<>> = own
    <3> HIDE DEF own
    <3> QED BY <1>2, ConcatEmptySeq
  <2> QED BY <1>1, <2>1 DEF FilterTarget
<1> QED BY <1>3 DEF HandleTextUnit

\* What the bridge makes of a block is one.
LEMMA BridgeIsBlock ==
  ASSUME NEW s, IsBlock(s), NEW xliff2
  PROVE  IsBlock(BridgeTransform(s, xliff2))
<1>1. ASSUME NEW e, IsBlock(e) PROVE IsBlock(Asked(e))
  <2> DEFINE empty == Side(<<>>, <<>>)
             targets == With(e.targets, Request, empty)
  <2>1. CASE Asked(e) = e
    BY <1>1, <2>1
  <2>2. CASE Asked(e) # e
    <3>1. Asked(e) = [e EXCEPT !.targets = targets]
      BY <2>2 DEF Asked
    <3>2. /\ e = [translatable |-> e.translatable, source |-> e.source, targets |-> e.targets, ir |-> e.ir]
          /\ e.ir = [source |-> e.ir.source, targets |-> e.ir.targets]
      BY <1>1 DEF IsBlock
    <3>3. Asked(e) = [translatable |-> e.translatable, source |-> e.source, targets |-> targets,
                      ir |-> [source |-> e.ir.source, targets |-> e.ir.targets]]
      <4> HIDE DEF targets
      <4> QED BY <3>1, <3>2
    <3>4. IsSide(empty)
      <4>1. empty = Side(<<>>, <<>>) /\ empty.runs = <<>> /\ empty.spans = <<>>
        BY DEF Side
      <4> HIDE DEF empty
      <4> QED BY <4>1 DEF IsSide, CutsAll, Side
    <3>5. DOMAIN NoIR = {}
      BY DEF NoIR
    <3>6. Retargeted(Asked(e), e, empty, NoIR)
      BY <3>3, <3>5 DEF Retargeted
    <3> HIDE DEF empty
    <3> QED BY <1>1, <3>4, <3>6, NoInline, RetargetedIsBlock
  <2> QED BY <2>1, <2>2
<1>2. IsBlock(ApplyPseudo(s, TRUE)) /\ IsBlock(ApplyPseudo(s, FALSE))
  BY ApplyPseudoIsBlock
<1> QED BY <1>1, <1>2 DEF BridgeTransform

\* The bridge makes of what it is shown what the step makes of it.
LEMMA BridgeIsAlike ==
  ASSUME NEW b, IsBlock(b), HasNames(b), b.translatable, NEW lang, NEW xliff2, xliff2 \/ SameLanguage(lang),
         BaseLocale(b, ~SameLanguage(lang)) \in {Request, NoLocale}, SidesAgree(b, lang)
  PROVE  Alike(OwnSegs(BridgeTransform(Shown(b), xliff2)), HandleTextUnit(Shown(b), xliff2))
<1> DEFINE s == Shown(b)
           own == OwnSegs(s)
           source == SourceSegs(s)
           d == BridgeTransform(s, xliff2)
<1>1. /\ IsBlock(s) /\ HasNames(s) /\ s.translatable
      /\ DOMAIN s.targets = DOMAIN b.targets
      /\ \A k \in 1..Len(SourceSegs(s)) : ~Ignorable(SourceSegs(s)[k])
      /\ \A loc : \A k \in 1..Len(TargetSegs(s, loc)) : ~Ignorable(TargetSegs(s, loc)[k])
      /\ \A loc : Translated(s, loc) => Translated(b, loc)
  BY ShownIsBlock
<1> HIDE DEF s
<1>2. own \in Seq(SegSet) /\ DOMAIN own = 1..Len(own)
  <2>1. own \in Seq(SegSet)
    BY <1>1, OwnSegsAreSegs
  <2> HIDE DEF own
  <2> QED BY <2>1, LenProperties
<1>3. HandleTextUnit(s, xliff2) = StepTarget(s, own)
  BY <1>1, NothingIsMissing
<1>4. CASE Translated(s, Request)
  <2>1. d = ApplyPseudo(s, FALSE)
    BY <1>4 DEF BridgeTransform
  <2>2. Once(s)
    <3>1. \A k \in 1..Len(own) : ~Ignorable(own[k])
      BY <1>1, OwnSegsAreSegs DEF Ignorable
    <3> QED BY <1>2, <3>1 DEF Once
  <2>3. Renders(OwnSegs(d), own)
    BY <1>1, <1>4, <2>1, <2>2, RequestFirst, FromTarget
  <2>4. \E k \in 1..Len(own) : RunsHaveText(own[k].runs)
    BY <1>1, <1>4, OwnHasText
  <2> HIDE DEF own, d
  <2>5. Renders(StepTarget(s, own), own)
    BY <1>1, <1>2, <2>4, StepRenders
  <2> QED BY <1>3, <2>3, <2>5 DEF Alike, d, s
<1>5. CASE ~Translated(s, Request)
  <2>1. ~Translated(b, Request) /\ Sourced(s)
    BY <1>5 DEF SidesAgree, s
  <2>2. ~\E k \in 1..Len(own) : RunsHaveText(own[k].runs)
    BY <1>1, <1>5, OwnHasText
  <2>3. Renders(StepTarget(s, own), source)
    <3> HIDE DEF own, source
    <3>1. Renders(StepTarget(s, own), SourceSegs(s))
      BY <1>1, <1>2, <2>2, StepRenders
    <3> QED BY <3>1 DEF source
  <2>4. d = IF xliff2 THEN Asked(ApplyPseudo(s, TRUE)) ELSE ApplyPseudo(s, FALSE)
    BY <1>5 DEF BridgeTransform
  <2>5. CASE source # <<>>
    <3> DEFINE force == IF xliff2 THEN TRUE ELSE FALSE
    <3>1. BaseLocale(s, force) = NoLocale
      <4>1. CASE xliff2
        <5>1. s.source.runs # <<>>
          BY <2>5 DEF SourceSegs
        <5> QED BY <4>1, <5>1 DEF BaseLocale
      <4>2. CASE ~xliff2
        <5> DEFINE before == {loc \in DOMAIN b.targets : Translated(b, loc)}
                   after == {loc \in DOMAIN s.targets : Translated(s, loc)}
        <5>1. BaseLocale(b, FALSE) = PickBase(b) /\ BaseLocale(b, FALSE) \in {Request, NoLocale}
          <6>1. ~SameLanguage(lang) = FALSE
            BY <4>2 DEF SameLanguage
          <6> QED BY <6>1 DEF BaseLocale
        <5>2. PickBase(b) = IF Request \in before THEN Request ELSE IF before = {} THEN NoLocale
                            ELSE CHOOSE loc \in before : TRUE
          BY DEF PickBase
        <5>3. PickBase(s) = IF Request \in after THEN Request ELSE IF after = {} THEN NoLocale
                            ELSE CHOOSE loc \in after : TRUE
          BY DEF PickBase
        <5>4. Request \notin before /\ NoLocale \notin before /\ after \subseteq before
          BY <1>1, <2>1 DEF IsBlock
        <5>5. before = {}
          <6> HIDE DEF before, after
          <6> QED BY <5>1, <5>2, <5>4
        <5>6. PickBase(s) = NoLocale
          <6> HIDE DEF before, after
          <6> QED BY <5>3, <5>4, <5>5
        <5> QED BY <4>2, <5>6 DEF BaseLocale
      <4> QED BY <4>1, <4>2
    <3> DEFINE e == ApplyPseudo(s, force)
    <3>2. Held(e, Request) /\ Renders(OwnSegs(e), source)
      <4>1. SourceSegs(s) # <<>>
        BY <2>5
      <4> HIDE DEF force
      <4> QED BY <1>1, <3>1, <4>1, FromSource
    <3>3. d = e
      <4>1. Asked(e) = e
        BY <3>2 DEF Asked
      <4>2. CASE xliff2
        BY <2>4, <4>1, <4>2
      <4>3. CASE ~xliff2
        BY <2>4, <4>3
      <4> QED BY <4>2, <4>3
    <3> HIDE DEF e, d, own, source
    <3> QED BY <1>3, <2>3, <3>2, <3>3 DEF Alike, d, s
  <2>6. CASE source = <<>>
    <3>1. \A loc \in DOMAIN s.targets : TargetSegs(s, loc) = <<>>
      BY <2>1, <2>6 DEF Sourced
    <3>2. ApplyPseudo(s, TRUE) = s /\ ApplyPseudo(s, FALSE) = s
      BY <2>6, <3>1, FromNothing
    <3>3. TargetSegs(d, Request) = <<>>
      <4>1. TargetSegs(s, Request) = <<>>
        BY <3>1 DEF TargetSegs, Held
      <4>2. CASE d = s
        BY <4>1, <4>2
      <4>3. CASE d # s
        <5> DEFINE empty == Side(<<>>, <<>>)
                   targets == With(s.targets, Request, empty)
        <5>1. d = [s EXCEPT !.targets = targets]
          BY <2>4, <3>2, <4>3 DEF Asked
        <5>2. s = [translatable |-> s.translatable, source |-> s.source, targets |-> s.targets, ir |-> s.ir]
          BY <1>1 DEF IsBlock
        <5>3. d.targets = targets
          <6> HIDE DEF targets, d
          <6> QED BY <5>1, <5>2
        <5>4. Request \in DOMAIN targets /\ targets[Request] = empty
          BY DEF With
        <5>5. empty.runs = <<>> /\ empty.spans = <<>>
          BY DEF Side
        <5> HIDE DEF d, targets, empty
        <5> QED BY <5>3, <5>4, <5>5, ThreeForms DEF TargetSegs
      <4> QED BY <4>2, <4>3
    <3>4. OwnSegs(d) = <<>>
      BY <3>3 DEF OwnSegs
    <3>5. Renders(<<>>, <<>>)
      BY DEF Renders
    <3> HIDE DEF d, own
    <3> QED BY <1>3, <2>3, <2>6, <3>4, <3>5 DEF Alike, d, s
  <2> QED BY <2>5, <2>6
<1> QED BY <1>4, <1>5

\* So does the native engine of the block.
LEMMA NativeIsAlike ==
  ASSUME NEW b, IsBlock(b), HasNames(b), b.translatable, NEW lang, NEW xliff2, xliff2 => IsXliff2Block(b),
         xliff2 \/ SameLanguage(lang), BaseLocale(b, ~SameLanguage(lang)) \in {Request, NoLocale},
         SidesAgree(b, lang)
  PROVE  Alike(OwnSegs(NativeBlock(b, lang, xliff2)), HandleTextUnit(b, xliff2))
<1>1. CASE Translated(b, Request)
  BY <1>1, NativeTranslated DEF SidesAgree
<1>2. CASE ~Translated(b, Request) /\ SourceSegs(b) # <<>>
  BY <1>2, NativeFromSource DEF SidesAgree
<1>3. CASE ~Translated(b, Request) /\ SourceSegs(b) = <<>>
  BY <1>3, NativeOfNothing DEF SidesAgree, Sourced
<1> QED BY <1>1, <1>2, <1>3

=============================================================================
