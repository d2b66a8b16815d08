---------------------------- MODULE SequenceLemmas ---------------------------
(****************************************************************************)
(* Facts about the operators on sequences that the models are built from:   *)
(* what FlattenSeq and SetToSeq return, and that a recursive function is    *)
(* what its loop computes.  Induction is over a set of natural numbers,     *)
(* since the provers cannot instantiate the induction theorems of the       *)
(* library.                                                                 *)
(****************************************************************************)
EXTENDS SequencesExt, SequenceTheorems, FiniteSetTheorems, TLAPS

\* Induction: a set that contains 0 and the successor of each of its elements.
LEMMA InductiveSet ==
  ASSUME NEW T \in SUBSET Nat, 0 \in T, \A n \in T : n + 1 \in T
  PROVE  T = Nat
<1> SUFFICES ASSUME Nat \ T # {}
             PROVE  FALSE
  OBVIOUS
<1>1. IsWellFoundedOn(OpToRel(<, Nat), Nat)
  BY NatLessThanWellFounded
<1>2. PICK n \in Nat \ T : \A m \in Nat \ T : ~ (<<m, n>> \in OpToRel(<, Nat))
  BY <1>1, WFMin
<1>3. n # 0 /\ n - 1 \in Nat
  OBVIOUS
<1>4. <<n - 1, n>> \in OpToRel(<, Nat)
  BY <1>3 DEF OpToRel
<1>5. n - 1 \in T
  BY <1>2, <1>3, <1>4
<1>6. QED
  BY <1>3, <1>5

\* A non-empty set of natural numbers has a least element.
LEMMA LeastNatural ==
  ASSUME NEW S \in SUBSET Nat, S # {}
  PROVE  \E m \in S : \A n \in S : m <= n
<1>1. IsWellFoundedOn(OpToRel(<, Nat), Nat)
  BY NatLessThanWellFounded
<1>2. PICK m \in S : \A n \in S : ~ (<<n, m>> \in OpToRel(<, Nat))
  BY <1>1, WFMin
<1>3. ASSUME NEW n \in S, n < m
      PROVE  <<n, m>> \in OpToRel(<, Nat)
  BY <1>3 DEF OpToRel
<1>4. \A n \in S : m \in Nat /\ n \in Nat /\ ~(n < m)
  BY <1>2, <1>3
<1>5. \A n \in S : m <= n
  BY <1>4
<1>6. QED
  BY <1>5

\* A finite set of natural numbers can be enumerated in ascending order.
Enumerates(s, S) ==
  /\ s \in [1 .. Cardinality(S) -> S]
  /\ \A i, j \in DOMAIN s : i < j => s[i] < s[j]

LEMMA EnumerationExists ==
  ASSUME NEW S \in SUBSET Nat, IsFiniteSet(S)
  PROVE  \E s : Enumerates(s, S)
<1> DEFINE T == {n \in Nat : \A R \in SUBSET Nat :
                   IsFiniteSet(R) /\ Cardinality(R) = n => \E s : Enumerates(s, R)}
<1>1. 0 \in T
  <2> SUFFICES ASSUME NEW R \in SUBSET Nat, IsFiniteSet(R), Cardinality(R) = 0
               PROVE  \E s : Enumerates(s, R)
    OBVIOUS
  <2> DEFINE s == [i \in 1 .. 0 |-> 0]
  <2>1. Enumerates(s, R)
    BY DEF Enumerates
  <2>2. QED
    BY <2>1
<1>2. ASSUME NEW n \in T
      PROVE  n + 1 \in T
  <2> SUFFICES ASSUME NEW R \in SUBSET Nat, IsFiniteSet(R), Cardinality(R) = n + 1
               PROVE  \E s : Enumerates(s, R)
    OBVIOUS
  <2>1. R # {}
    BY FS_EmptySet
  <2>2. PICK m \in R : \A k \in R : m <= k
    BY <2>1, LeastNatural
  <2>3. IsFiniteSet(R \ {m}) /\ Cardinality(R \ {m}) = n
    <3>1. Cardinality(R \ {m}) = Cardinality(R) - 1 /\ IsFiniteSet(R \ {m})
      BY FS_RemoveElement
    <3>2. QED
      BY <3>1
  <2>4. PICK t : Enumerates(t, R \ {m})
    BY <1>2, <2>3
  <2> DEFINE s == [i \in 1 .. n + 1 |-> IF i = 1 THEN m ELSE t[i - 1]]
  <2>5. t \in [1 .. n -> R \ {m}] /\ \A i, j \in 1 .. n : i < j => t[i] < t[j]
    BY <2>3, <2>4 DEF Enumerates
  <2>6. \A i \in 1 .. n + 1 : i # 1 => i - 1 \in 1 .. n
    OBVIOUS
  <2>7. s \in [1 .. n + 1 -> R]
    BY <2>5, <2>6
  <2>8. ASSUME NEW i \in 1 .. n + 1, NEW j \in 1 .. n + 1, i < j
        PROVE  s[i] < s[j]
    <3>1. j - 1 \in 1 .. n /\ s[j] = t[j - 1]
      BY <2>8, <2>6
    <3>2. CASE i = 1
      <4>1. t[j - 1] \in R \ {m}
        BY <2>5, <3>1
      <4>2. m <= t[j - 1] /\ t[j - 1] # m /\ m \in Nat /\ t[j - 1] \in Nat
        BY <2>2, <4>1
      <4>3. s[i] = m
        BY <3>2
      <4> HIDE DEF s
      <4>4. QED
        BY <3>1, <4>2, <4>3
    <3>3. CASE i # 1
      <4>1. i - 1 \in 1 .. n /\ s[i] = t[i - 1] /\ i - 1 < j - 1
        BY <2>6, <2>8, <3>3
      <4>2. QED
        BY <2>5, <3>1, <4>1
    <3>4. QED
      BY <3>2, <3>3
  <2>9. DOMAIN s = 1 .. n + 1
    OBVIOUS
  <2> HIDE DEF s
  <2>10. Enumerates(s, R)
    BY <2>7, <2>8, <2>9 DEF Enumerates
  <2>11. QED
    BY <2>10
<1> HIDE DEF T
<1>3. T = Nat
  <2>1. T \in SUBSET Nat
    BY DEF T
  <2>2. QED
    BY <1>1, <1>2, <2>1, InductiveSet
<1>4. Cardinality(S) \in Nat
  BY FS_CardinalityType
<1>5. QED
  BY <1>3, <1>4 DEF T

------------------------------------------------------------------------------
(* FlattenSeq.                                                               *)

\* The function by which FlattenSeq is defined satisfies its equation.
Flattens(f, seqs, n) ==
  f = [i \in 1 .. n |-> IF i = 1 THEN seqs[i] ELSE f[i - 1] \o seqs[i]]

LEMMA FlattensAt ==
  ASSUME NEW f, NEW seqs, NEW n, Flattens(f, seqs, n), NEW i \in 1 .. n
  PROVE  f[i] = IF i = 1 THEN seqs[i] ELSE f[i - 1] \o seqs[i]
<1> DEFINE h == [j \in 1 .. n |-> IF j = 1 THEN seqs[j] ELSE f[j - 1] \o seqs[j]]
<1>1. h[i] = IF i = 1 THEN seqs[i] ELSE f[i - 1] \o seqs[i]
  OBVIOUS
<1>2. f = h
  BY DEF Flattens
<1> HIDE DEF h
<1>3. f[i] = h[i]
  BY <1>2
<1>4. QED
  BY <1>1, <1>3

LEMMA FlattensExists ==
  ASSUME NEW seqs, NEW n \in Nat
  PROVE  \E f : Flattens(f, seqs, n)
<1> DEFINE T == {m \in Nat : \E f : Flattens(f, seqs, m)}
<1>1. 0 \in T
  <2>1. Flattens(<< >>, seqs, 0)
    BY DEF Flattens
  <2>2. QED
    BY <2>1
<1>2. ASSUME NEW m \in T
      PROVE  m + 1 \in T
  <2>1. PICK f : Flattens(f, seqs, m)
    OBVIOUS
  <2> DEFINE g == [i \in 1 .. m + 1 |-> IF i <= m THEN f[i]
                     ELSE IF i = 1 THEN seqs[i] ELSE f[i - 1] \o seqs[i]]
  <2>2. ASSUME NEW i \in 1 .. m + 1
        PROVE  g[i] = IF i = 1 THEN seqs[i] ELSE g[i - 1] \o seqs[i]
    <3>1. CASE i <= m
      <4>1. g[i] = f[i] /\ f[i] = IF i = 1 THEN seqs[i] ELSE f[i - 1] \o seqs[i]
        BY <2>1, <3>1, FlattensAt
      <4>2. i # 1 => g[i - 1] = f[i - 1]
        BY <3>1
      <4>3. QED
        BY <4>1, <4>2
    <3>2. CASE i = m + 1
      <4>1. i # 1 => g[i - 1] = f[i - 1]
        BY <3>2
      <4>2. QED
        BY <3>2, <4>1
    <3>3. QED
      BY <3>1, <3>2
  <2>3. Flattens(g, seqs, m + 1)
    BY <2>2 DEF Flattens
  <2>4. QED
    BY <2>3
<1>3. T = Nat
  <2> HIDE DEF T
  <2>1. T \in SUBSET Nat
    BY DEF T
  <2>2. QED
    BY <1>1, <1>2, <2>1, InductiveSet
<1>4. QED
  BY <1>3

LEMMA FlattenSeqIs ==
  ASSUME NEW seqs, Len(seqs) \in Nat \ {0}
  PROVE  \E f : Flattens(f, seqs, Len(seqs)) /\ FlattenSeq(seqs) = f[Len(seqs)]
<1> DEFINE g == CHOOSE f : Flattens(f, seqs, Len(seqs))
<1>1. Flattens(g, seqs, Len(seqs))
  BY FlattensExists
<1>2. FlattenSeq(seqs) = g[Len(seqs)]
  BY DEF FlattenSeq, Flattens
<1>3. QED
  BY <1>1, <1>2

\* No element occurs at two places of the first m sequences.
Apart(seqs, m) ==
  \A i, k \in 1 .. m : \A j \in 1 .. Len(seqs[i]), l \in 1 .. Len(seqs[k]) :
    seqs[i][j] = seqs[k][l] => i = k /\ j = l

\* s has the elements of the first m sequences, each once if they are apart.
Gathers(s, seqs, m, S) ==
  /\ s \in Seq(S)
  /\ \A k \in 1 .. Len(s) :
       \E i \in 1 .. m : \E j \in 1 .. Len(seqs[i]) : s[k] = seqs[i][j]
  /\ \A i \in 1 .. m : \A j \in 1 .. Len(seqs[i]) :
       \E k \in 1 .. Len(s) : s[k] = seqs[i][j]
  /\ Apart(seqs, m) => \A k, l \in 1 .. Len(s) : s[k] = s[l] => k = l

LEMMA GathersOneMore ==
  ASSUME NEW S, NEW seqs \in Seq(Seq(S)), NEW m \in 1 .. Len(seqs), m + 1 \in 1 .. Len(seqs),
         NEW s, Gathers(s, seqs, m, S)
  PROVE  Gathers(s \o seqs[m + 1], seqs, m + 1, S)
<1> DEFINE t == seqs[m + 1]
           u == s \o t
<1>1. s \in Seq(S) /\ t \in Seq(S) /\ Len(s) \in Nat /\ Len(t) \in Nat
  BY ElementOfSeq, LenProperties DEF Gathers
<1>2. /\ u \in Seq(S) /\ Len(u) = Len(s) + Len(t)
      /\ \A k \in 1 .. Len(s) : u[k] = s[k]
      /\ \A k \in 1 .. Len(t) : u[Len(s) + k] = t[k]
      /\ \A k \in 1 .. Len(u) : k > Len(s) => k - Len(s) \in 1 .. Len(t) /\ u[k] = t[k - Len(s)]
  BY <1>1, ConcatProperties
<1> HIDE DEF u
<1>3. ASSUME NEW k \in 1 .. Len(u)
      PROVE  \E i \in 1 .. m + 1 : \E j \in 1 .. Len(seqs[i]) : u[k] = seqs[i][j]
  <2>1. CASE k <= Len(s)
    <3>1. k \in 1 .. Len(s) /\ u[k] = s[k]
      BY <1>1, <1>2, <2>1
    <3>2. PICK i \in 1 .. m : \E j \in 1 .. Len(seqs[i]) : s[k] = seqs[i][j]
      BY <3>1 DEF Gathers
    <3>3. i \in 1 .. m + 1
      OBVIOUS
    <3>4. QED
      BY <3>1, <3>2, <3>3
  <2>2. CASE k > Len(s)
    <3>1. k - Len(s) \in 1 .. Len(seqs[m + 1]) /\ u[k] = seqs[m + 1][k - Len(s)]
      BY <1>2, <2>2
    <3>2. m + 1 \in 1 .. m + 1
      OBVIOUS
    <3>3. QED
      BY <3>1, <3>2
  <2>3. QED
    BY <1>1, <1>2, <2>1, <2>2
<1>4. ASSUME NEW i \in 1 .. m + 1, NEW j \in 1 .. Len(seqs[i])
      PROVE  \E k \in 1 .. Len(u) : u[k] = seqs[i][j]
  <2>1. CASE i \in 1 .. m
    <3>1. PICK k \in 1 .. Len(s) : s[k] = seqs[i][j]
      BY <2>1 DEF Gathers
    <3>2. k \in 1 .. Len(u) /\ u[k] = s[k]
      BY <1>1, <1>2
    <3>3. QED
      BY <3>1, <3>2
  <2>2. CASE i = m + 1
    <3>1. Len(s) + j \in 1 .. Len(u) /\ u[Len(s) + j] = seqs[i][j]
      BY <1>1, <1>2, <2>2
    <3>2. QED
      BY <3>1
  <2>3. QED
    BY <2>1, <2>2
<1>5. ASSUME Apart(seqs, m + 1), NEW k \in 1 .. Len(u), NEW l \in 1 .. Len(u), u[k] = u[l]
      PROVE  k = l
  <2>1. Apart(seqs, m)
    <3>1. \A i \in 1 .. m : i \in 1 .. m + 1
      OBVIOUS
    <3> HIDE DEF t
    <3>2. QED
      BY <1>5, <3>1 DEF Apart
  <2>2. ASSUME NEW a \in 1 .. Len(s), NEW b \in 1 .. Len(t)
        PROVE  s[a] # t[b]
    <3>1. PICK i \in 1 .. m : \E j \in 1 .. Len(seqs[i]) : s[a] = seqs[i][j]
      BY DEF Gathers
    <3>2. i \in 1 .. m + 1 /\ m + 1 \in 1 .. m + 1 /\ i # m + 1
      OBVIOUS
    <3>3. QED
      BY <1>5, <3>1, <3>2 DEF Apart
  <2>3. CASE k <= Len(s) /\ l <= Len(s)
    BY <1>1, <1>2, <1>5, <2>1, <2>3 DEF Gathers
  <2>4. CASE k > Len(s) /\ l > Len(s)
    <3>1. /\ k - Len(s) \in 1 .. Len(t) /\ l - Len(s) \in 1 .. Len(t)
          /\ t[k - Len(s)] = t[l - Len(s)]
      BY <1>2, <1>5, <2>4
    <3>2. m + 1 \in 1 .. m + 1
      OBVIOUS
    <3>3. \A i, j \in 1 .. Len(seqs[m + 1]) : seqs[m + 1][i] = seqs[m + 1][j] => i = j
      BY <1>5, <3>2 DEF Apart
    <3>4. k - Len(s) = l - Len(s)
      BY <3>1, <3>3
    <3>5. QED
      BY <1>1, <1>2, <3>4
  <2>5. CASE k <= Len(s) /\ l > Len(s)
    <3>1. k \in 1 .. Len(s) /\ l - Len(s) \in 1 .. Len(t) /\ s[k] = t[l - Len(s)]
      BY <1>1, <1>2, <1>5, <2>5
    <3>2. QED
      BY <2>2, <3>1
  <2>6. CASE k > Len(s) /\ l <= Len(s)
    <3>1. l \in 1 .. Len(s) /\ k - Len(s) \in 1 .. Len(t) /\ s[l] = t[k - Len(s)]
      BY <1>1, <1>2, <1>5, <2>6
    <3>2. QED
      BY <2>2, <3>1
  <2>7. QED
    BY <1>1, <1>2, <2>3, <2>4, <2>5, <2>6
<1>6. QED
  BY <1>2, <1>3, <1>4, <1>5 DEF Gathers, u

\* FlattenSeq has the elements of the sequences, each once if they are apart.
LEMMA FlattenSeqGathers ==
  ASSUME NEW S, NEW seqs \in Seq(Seq(S))
  PROVE  Gathers(FlattenSeq(seqs), seqs, Len(seqs), S)
<1>1. CASE Len(seqs) = 0
  <2>1. FlattenSeq(seqs) = << >> /\ seqs = << >>
    BY <1>1, EmptySeq DEF FlattenSeq
  <2>2. QED
    BY <1>1, <2>1 DEF Gathers
<1>2. CASE Len(seqs) # 0
  <2>1. PICK f : Flattens(f, seqs, Len(seqs)) /\ FlattenSeq(seqs) = f[Len(seqs)]
    BY <1>2, FlattenSeqIs
  <2>2. ASSUME NEW i \in 1 .. Len(seqs)
        PROVE  f[i] = IF i = 1 THEN seqs[i] ELSE f[i - 1] \o seqs[i]
    BY <2>1, FlattensAt
  <2> DEFINE T == {m \in Nat : m + 1 <= Len(seqs) => Gathers(f[m + 1], seqs, m + 1, S)}
  <2>3. 0 \in T
    <3>1. 1 \in 1 .. Len(seqs) /\ f[1] = seqs[1] /\ seqs[1] \in Seq(S)
      BY <1>2, <2>2, ElementOfSeq
    <3>2. Gathers(seqs[1], seqs, 1, S)
      BY <3>1 DEF Gathers, Apart
    <3>3. QED
      BY <3>1, <3>2
  <2>4. ASSUME NEW m \in T
        PROVE  m + 1 \in T
    <3> SUFFICES ASSUME m + 2 <= Len(seqs)
                 PROVE  Gathers(f[m + 2], seqs, m + 2, S)
      OBVIOUS
    <3>1. Gathers(f[m + 1], seqs, m + 1, S)
      OBVIOUS
    <3> HIDE DEF T
    <3>2. m \in Nat
      BY DEF T
    <3>3. m + 1 \in 1 .. Len(seqs) /\ (m + 1) + 1 \in 1 .. Len(seqs)
      BY <3>2
    <3>4. f[(m + 1) + 1] = f[m + 1] \o seqs[(m + 1) + 1]
      <4>1. (m + 1) + 1 # 1 /\ ((m + 1) + 1) - 1 = m + 1
        BY <3>2
      <4>2. QED
        BY <2>2, <3>3, <4>1
    <3>5. Gathers(f[(m + 1) + 1], seqs, (m + 1) + 1, S)
      BY <3>1, <3>3, <3>4, GathersOneMore
    <3>6. (m + 1) + 1 = m + 2
      BY <3>2
    <3>7. QED
      BY <3>5, <3>6
  <2>5. T = Nat
    <3> HIDE DEF T
    <3>1. T \in SUBSET Nat
      BY DEF T
    <3>2. QED
      BY <2>3, <2>4, <3>1, InductiveSet
  <2>6. Len(seqs) - 1 \in Nat /\ (Len(seqs) - 1) + 1 = Len(seqs)
    BY <1>2, LenProperties
  <2>7. Len(seqs) - 1 \in T
    <3> HIDE DEF T
    <3>1. QED
      BY <2>5, <2>6
  <2>8. Len(seqs) <= Len(seqs)
    BY <2>6
  <2>9. QED
    BY <2>1, <2>6, <2>7, <2>8
<1>3. QED
  BY <1>1, <1>2

------------------------------------------------------------------------------
(* Sequences of whatever they hold.                                          *)

IsList(s) == s \in Seq(ToSet(s))

\* A sequence over S is a list of elements of S.
LEMMA ListOf ==
  ASSUME NEW S, NEW s \in Seq(S)
  PROVE  IsList(s) /\ ToSet(s) \subseteq S
<1>1. Len(s) \in Nat /\ DOMAIN s = 1 .. Len(s) /\ s = [i \in 1 .. Len(s) |-> s[i]]
  BY LenProperties
<1>2. \A i \in 1 .. Len(s) : s[i] \in S /\ s[i] \in ToSet(s)
  BY <1>1, ElementOfSeq DEF ToSet
<1>3. s \in [1 .. Len(s) -> ToSet(s)]
  BY ONLY <1>1, <1>2
<1>4. s \in Seq(ToSet(s))
  BY ONLY <1>1, <1>3
<1>5. QED
  BY <1>1, <1>2, <1>4 DEF IsList, ToSet

LEMMA ListElements ==
  ASSUME NEW s, IsList(s)
  PROVE  /\ Len(s) \in Nat /\ DOMAIN s = 1 .. Len(s)
         /\ \A x \in ToSet(s) : \E i \in 1 .. Len(s) : s[i] = x
         /\ \A i \in 1 .. Len(s) : s[i] \in ToSet(s)
BY LenProperties DEF IsList, ToSet

LEMMA EmptyList == IsList(<< >>) /\ ToSet(<< >>) = {}
BY DEF IsList, ToSet

LEMMA SingletonList ==
  ASSUME NEW x
  PROVE  IsList(<<x>>) /\ ToSet(<<x>>) = {x}
<1>1. <<x>> \in Seq({x}) /\ DOMAIN <<x>> = {1} /\ <<x>>[1] = x
  OBVIOUS
<1>2. ToSet(<<x>>) = {x}
  BY <1>1 DEF ToSet
<1>3. QED
  BY <1>1, <1>2 DEF IsList

LEMMA TailList ==
  ASSUME NEW s, IsList(s), s # << >>
  PROVE  IsList(Tail(s)) /\ ToSet(Tail(s)) \subseteq ToSet(s) /\ Head(s) \in ToSet(s)
<1>1. Tail(s) \in Seq(ToSet(s)) /\ Head(s) \in ToSet(s)
  BY HeadTailProperties DEF IsList
<1>2. QED
  BY <1>1, ListOf

LEMMA ConcatList ==
  ASSUME NEW s, NEW t, IsList(s), IsList(t)
  PROVE  IsList(s \o t) /\ ToSet(s \o t) \subseteq ToSet(s) \cup ToSet(t)
<1> DEFINE S == ToSet(s) \cup ToSet(t)
<1>1. s \in Seq(S) /\ t \in Seq(S)
  <2>1. Len(s) \in Nat /\ s \in [1 .. Len(s) -> ToSet(s)] /\ Len(t) \in Nat /\ t \in [1 .. Len(t) -> ToSet(t)]
    BY LenProperties DEF IsList
  <2>2. QED
    BY <2>1
<1>2. s \o t \in Seq(S)
  BY <1>1, ConcatProperties
<1>3. QED
  BY <1>2, ListOf

LEMMA AppendList ==
  ASSUME NEW s, NEW x, IsList(s)
  PROVE  IsList(Append(s, x)) /\ ToSet(Append(s, x)) \subseteq ToSet(s) \cup {x}
<1>1. s \in Seq(ToSet(s) \cup {x})
  <2>1. Len(s) \in Nat /\ s \in [1 .. Len(s) -> ToSet(s)]
    BY LenProperties DEF IsList
  <2>2. QED
    BY <2>1
<1>2. Append(s, x) \in Seq(ToSet(s) \cup {x})
  BY <1>1, AppendProperties
<1>3. QED
  BY <1>2, ListOf

\* The elements of a flattened sequence are elements of its parts.
LEMMA FlattenList ==
  ASSUME NEW n \in Nat, NEW seqs, seqs = [i \in 1 .. n |-> seqs[i]],
         \A i \in 1 .. n : IsList(seqs[i])
  PROVE  /\ IsList(FlattenSeq(seqs))
         /\ \A x \in ToSet(FlattenSeq(seqs)) : \E i \in 1 .. n : x \in ToSet(seqs[i])
<1> DEFINE S == UNION {ToSet(seqs[i]) : i \in 1 .. n}
           s == FlattenSeq(seqs)
<1>1. ASSUME NEW i \in 1 .. n
      PROVE  seqs[i] \in Seq(S)
  <2>1. Len(seqs[i]) \in Nat /\ seqs[i] \in [1 .. Len(seqs[i]) -> ToSet(seqs[i])]
    BY LenProperties DEF IsList
  <2>2. ToSet(seqs[i]) \subseteq S
    OBVIOUS
  <2>3. seqs[i] \in [1 .. Len(seqs[i]) -> S]
    BY <2>1, <2>2
  <2>4. QED
    BY ONLY <2>1, <2>3
<1> HIDE DEF S
<1>2. seqs \in Seq(Seq(S)) /\ Len(seqs) = n
  BY <1>1
<1>3. Gathers(s, seqs, n, S)
  BY <1>2, FlattenSeqGathers
<1>4. IsList(s)
  BY <1>3, ListOf DEF Gathers
<1> HIDE DEF s
<1>5. ASSUME NEW x \in ToSet(s)
      PROVE  \E i \in 1 .. n : x \in ToSet(seqs[i])
  <2>1. PICK k \in 1 .. Len(s) : s[k] = x
    BY <1>4, ListElements
  <2>2. PICK i \in 1 .. n : \E j \in 1 .. Len(seqs[i]) : s[k] = seqs[i][j]
    BY <1>3 DEF Gathers
  <2>3. QED
    BY <2>1, <2>2, ListElements
<1>6. QED
  BY <1>4, <1>5 DEF s

------------------------------------------------------------------------------
(* Sequences with at most one place that holds an element of a set.          *)

Once(S, s) == \A m, n \in DOMAIN s : s[m] \in S /\ s[n] \in S => m = n

LEMMA OnceConcat ==
  ASSUME NEW S, NEW s, NEW t, IsList(s), IsList(t), Once(S, s), Once(S, t),
         ToSet(s) \cap S = {} \/ ToSet(t) \cap S = {}
  PROVE  Once(S, s \o t)
<1> DEFINE u == s \o t
           U == ToSet(s) \cup ToSet(t)
<1>1. /\ Len(s) \in Nat /\ Len(t) \in Nat /\ DOMAIN s = 1 .. Len(s) /\ DOMAIN t = 1 .. Len(t)
      /\ \A i \in 1 .. Len(s) : s[i] \in ToSet(s)
      /\ \A i \in 1 .. Len(t) : t[i] \in ToSet(t)
  BY ListElements
<1>2. s \in Seq(U) /\ t \in Seq(U)
  <2>1. s \in [1 .. Len(s) -> ToSet(s)] /\ t \in [1 .. Len(t) -> ToSet(t)]
    BY <1>1, LenProperties DEF IsList
  <2>2. QED
    BY <1>1, <2>1
<1>3. /\ DOMAIN u = 1 .. Len(s) + Len(t)
      /\ \A k \in 1 .. Len(s) : u[k] = s[k]
      /\ \A k \in DOMAIN u : k > Len(s) => k - Len(s) \in 1 .. Len(t) /\ u[k] = t[k - Len(s)]
  BY <1>1, <1>2, ConcatProperties, LenProperties
<1> HIDE DEF u
<1>4. ASSUME NEW m \in DOMAIN u, NEW n \in DOMAIN u, u[m] \in S, u[n] \in S
      PROVE  m = n
  <2>1. CASE m <= Len(s) /\ n <= Len(s)
    <3>1. m \in 1 .. Len(s) /\ n \in 1 .. Len(s)
      BY <1>1, <1>3, <2>1
    <3>2. s[m] \in S /\ s[n] \in S
      BY <1>3, <1>4, <3>1
    <3>3. QED
      BY <1>1, <3>1, <3>2 DEF Once
  <2>2. CASE m > Len(s) /\ n > Len(s)
    <3>1. /\ m - Len(s) \in 1 .. Len(t) /\ t[m - Len(s)] \in S
          /\ n - Len(s) \in 1 .. Len(t) /\ t[n - Len(s)] \in S
      BY <1>3, <1>4, <2>2
    <3>2. m - Len(s) = n - Len(s)
      BY <1>1, <3>1 DEF Once
    <3>3. QED
      BY <1>1, <1>3, <3>2
  <2>3. ASSUME NEW i \in DOMAIN u, NEW j \in DOMAIN u, i <= Len(s), j > Len(s)
        PROVE  ~(u[i] \in S /\ u[j] \in S)
    <3>1. i \in 1 .. Len(s) /\ u[i] = s[i] /\ j - Len(s) \in 1 .. Len(t) /\ u[j] = t[j - Len(s)]
      BY <1>1, <1>3, <2>3
    <3>2. QED
      BY <1>1, <3>1
  <2>4. m \in Nat /\ n \in Nat
    BY <1>1, <1>3
  <2>5. QED
    BY <1>1, <1>4, <2>1, <2>2, <2>3, <2>4
<1>5. QED
  BY <1>4 DEF Once, u

\* At most one part of a flattened sequence has such an element, and that part at
\* most one.
LEMMA OnceFlatten ==
  ASSUME NEW S, NEW n \in Nat, NEW seqs, seqs = [i \in 1 .. n |-> seqs[i]],
         \A i \in 1 .. n : IsList(seqs[i]) /\ Once(S, seqs[i]),
         \A i, j \in 1 .. n : ToSet(seqs[i]) \cap S # {} /\ ToSet(seqs[j]) \cap S # {} => i = j
  PROVE  Once(S, FlattenSeq(seqs))
<1> DEFINE Upto(s, m) == /\ IsList(s) /\ Once(S, s)
                         /\ \A x \in ToSet(s) : \E i \in 1 .. m : x \in ToSet(seqs[i])
<1>1. Len(seqs) = n
  OBVIOUS
<1>2. CASE n = 0
  <2>1. FlattenSeq(seqs) = << >>
    BY <1>2, EmptySeq DEF FlattenSeq
  <2>2. QED
    BY <2>1 DEF Once
<1>3. CASE n # 0
  <2>1. PICK f : Flattens(f, seqs, n) /\ FlattenSeq(seqs) = f[n]
    BY <1>1, <1>3, FlattenSeqIs
  <2>2. ASSUME NEW i \in 1 .. n
        PROVE  f[i] = IF i = 1 THEN seqs[i] ELSE f[i - 1] \o seqs[i]
    BY <2>1, FlattensAt
  <2> DEFINE T == {m \in Nat : m + 1 <= n => Upto(f[m + 1], m + 1)}
  <2>3. 0 \in T
    <3>1. 1 \in 1 .. n /\ f[1] = seqs[1]
      BY <1>3, <2>2
    <3>2. Upto(seqs[1], 1)
      BY <3>1
    <3>3. QED
      BY <3>1, <3>2
  <2>4. ASSUME NEW m \in T
        PROVE  m + 1 \in T
    <3> SUFFICES ASSUME m + 2 <= n
                 PROVE  Upto(f[m + 2], m + 2)
      OBVIOUS
    <3>1. m \in Nat /\ Upto(f[m + 1], m + 1)
      OBVIOUS
    <3> HIDE DEF T
    <3> DEFINE s == f[m + 1]
               t == seqs[m + 2]
    <3>2. m + 2 \in 1 .. n /\ m + 2 # 1 /\ (m + 2) - 1 = m + 1
      BY <3>1
    <3>3. f[m + 2] = s \o t
      BY <2>2, <3>2
    <3>4. IsList(t) /\ Once(S, t)
      BY <3>2
    <3>5. ToSet(s) \cap S = {} \/ ToSet(t) \cap S = {}
      <4> SUFFICES ASSUME NEW x \in ToSet(s) \cap S, ToSet(t) \cap S # {}
                   PROVE  FALSE
        OBVIOUS
      <4>1. PICK i \in 1 .. m + 1 : x \in ToSet(seqs[i])
        BY <3>1
      <4>2. i \in 1 .. n /\ i # m + 2
        BY <3>1, <3>2
      <4>3. ToSet(seqs[i]) \cap S # {}
        BY <4>1
      <4>4. QED
        BY <3>2, <4>2, <4>3
    <3>6. Once(S, s \o t) /\ IsList(s \o t) /\ ToSet(s \o t) \subseteq ToSet(s) \cup ToSet(t)
      BY <3>1, <3>4, <3>5, OnceConcat, ConcatList
    <3>7. ASSUME NEW x \in ToSet(s) \cup ToSet(t)
          PROVE  \E i \in 1 .. m + 2 : x \in ToSet(seqs[i])
      <4>1. CASE x \in ToSet(s)
        <5>1. PICK i \in 1 .. m + 1 : x \in ToSet(seqs[i])
          BY <3>1, <4>1
        <5>2. i \in 1 .. m + 2
          BY <3>1
        <5>3. QED
          BY <5>1, <5>2
      <4>2. CASE x \in ToSet(t)
        BY <3>1, <3>2, <4>2
      <4>3. QED
        BY <4>1, <4>2
    <3>8. QED
      BY <3>3, <3>6, <3>7
  <2>5. T = Nat
    <3> HIDE DEF T
    <3>1. T \in SUBSET Nat
      BY DEF T
    <3>2. QED
      BY <2>3, <2>4, <3>1, InductiveSet
  <2>6. n - 1 \in T /\ (n - 1) + 1 = n
    BY <1>3, <2>5
  <2>7. Upto(f[n], n)
    BY <2>6
  <2>8. QED
    BY <2>1, <2>7
<1>4. QED
  BY <1>2, <1>3

\* The rest of the sequence, behind its first element.
LEMMA OnceTail ==
  ASSUME NEW S, NEW s, IsList(s), s # << >>, Once(S, s)
  PROVE  Once(S, Tail(s)) /\ (Head(s) \in S => ToSet(Tail(s)) \cap S = {})
<1>1. /\ Len(s) \in Nat /\ DOMAIN s = 1 .. Len(s) /\ Head(s) = s[1] /\ 1 \in DOMAIN s
      /\ DOMAIN Tail(s) = 1 .. Len(s) - 1
      /\ \A i \in DOMAIN Tail(s) : i + 1 \in DOMAIN s /\ Tail(s)[i] = s[i + 1]
  <2>1. /\ s \in Seq(ToSet(s)) /\ Len(s) \in Nat /\ DOMAIN s = 1 .. Len(s)
    BY LenProperties DEF IsList
  <2>2. Tail(s) \in Seq(ToSet(s)) /\ Len(Tail(s)) = Len(s) - 1 /\ Len(s) >= 1
        /\ \A i \in 1 .. Len(Tail(s)) : Tail(s)[i] = s[i + 1]
    BY <2>1, HeadTailProperties, LenProperties, EmptySeq
  <2>3. QED
    BY <2>1, <2>2, LenProperties
<1>2. Once(S, Tail(s))
  BY <1>1 DEF Once
<1>3. Head(s) \in S => \A i \in DOMAIN Tail(s) : Tail(s)[i] \notin S
  BY <1>1 DEF Once
<1>4. QED
  BY <1>2, <1>3 DEF ToSet

------------------------------------------------------------------------------
(* SetToSeq.                                                                 *)

\* SetToSeq lists each element of a finite set once.
LEMMA SetToSeqLists ==
  ASSUME NEW S, IsFiniteSet(S)
  PROVE  /\ SetToSeq(S) \in Seq(S)
         /\ \A x \in S : \E i \in 1 .. Len(SetToSeq(S)) : SetToSeq(S)[i] = x
         /\ \A i, j \in 1 .. Len(SetToSeq(S)) : SetToSeq(S)[i] = SetToSeq(S)[j] => i = j
         /\ Len(SetToSeq(S)) = Cardinality(S)
<1> DEFINE n == Cardinality(S)
           f == SetToSeq(S)
<1>1. n \in Nat /\ ExistsBijection(1 .. n, S)
  BY FS_CardinalityType
<1>2. PICK g \in [1 .. n -> S] : IsInjective(g)
  BY <1>1 DEF ExistsBijection, Bijection, Injection
<1>3. f \in [1 .. n -> S] /\ IsInjective(f)
  BY <1>2 DEF SetToSeq
<1> HIDE DEF f, n
<1>4. f \in Seq(S) /\ Len(f) = n
  BY <1>1, <1>3
<1>5. \A i, j \in 1 .. Len(f) : f[i] = f[j] => i = j
  BY <1>3, <1>4 DEF IsInjective
<1>6. ASSUME NEW x \in S
      PROVE  \E i \in 1 .. Len(f) : f[i] = x
  <2>1. f \in Injection(1 .. n, S) /\ IsFiniteSet(1 .. n) /\ Cardinality(1 .. n) = n
    BY <1>1, <1>3, FS_Interval DEF Injection
  <2>2. f \in Surjection(1 .. n, S)
    BY <2>1, FS_Injection DEF n
  <2>3. QED
    BY <1>4, <2>2 DEF Surjection
<1>7. QED
  BY <1>4, <1>5, <1>6 DEF f, n
------------------------------------------------------------------------------
(* Loops: a value that is computed anew from each of n elements in turn.     *)

\* A recursive function on 0 .. n, as the loops of the models are written, is
\* what its definition says; G is one round of the loop.
Loops(f, start, G, n) ==
  \A i \in 0 .. n : f[i] = IF i = 0 THEN start ELSE G[<<f[i - 1], i>>]

LEMMA LoopExists ==
  ASSUME NEW S, NEW start \in S, NEW n \in Nat, NEW G \in [S \X (1 .. n) -> S]
  PROVE  \E f \in [0 .. n -> S] : Loops(f, start, G, n)
<1> DEFINE Upto(f, k) == \A i \in 0 .. k : f[i] = IF i = 0 THEN start ELSE G[<<f[i - 1], i>>]
           T == {k \in Nat : k <= n => \E f \in [0 .. k -> S] : Upto(f, k)}
<1>1. 0 \in T
  <2> DEFINE f == [i \in 0 .. 0 |-> start]
  <2>1. f \in [0 .. 0 -> S] /\ Upto(f, 0)
    OBVIOUS
  <2>2. QED
    BY <2>1
<1>2. ASSUME NEW k \in T
      PROVE  k + 1 \in T
  <2> SUFFICES ASSUME k + 1 <= n
               PROVE  \E f \in [0 .. k + 1 -> S] : Upto(f, k + 1)
    OBVIOUS
  <2>1. k \in Nat /\ k + 1 \in 1 .. n /\ k <= n
    OBVIOUS
  <2>2. PICK f \in [0 .. k -> S] : Upto(f, k)
    BY <2>1
  <2> DEFINE g == [i \in 0 .. k + 1 |-> IF i <= k THEN f[i] ELSE G[<<f[k], k + 1>>]]
  <2>3. f[k] \in S /\ <<f[k], k + 1>> \in S \X (1 .. n)
    BY <2>1
  <2>4. G[<<f[k], k + 1>>] \in S
    BY <2>3
  <2>5. g \in [0 .. k + 1 -> S]
    BY <2>1, <2>4
  <2>6. ASSUME NEW i \in 0 .. k + 1
        PROVE  g[i] = IF i = 0 THEN start ELSE G[<<g[i - 1], i>>]
    <3>1. CASE i <= k
      <4>1. g[i] = f[i] /\ (i # 0 => g[i - 1] = f[i - 1])
        BY <2>1, <3>1
      <4>2. f[i] = IF i = 0 THEN start ELSE G[<<f[i - 1], i>>]
        BY <2>1, <2>2, <3>1
      <4> HIDE DEF g
      <4>3. QED
        BY <4>1, <4>2
    <3>2. CASE i = k + 1
      <4>1. i # 0 /\ g[i] = G[<<f[k], k + 1>>] /\ g[i - 1] = f[k] /\ i - 1 = k
        BY <2>1, <3>2
      <4> HIDE DEF g
      <4>2. QED
        BY <3>2, <4>1
    <3>3. QED
      BY <2>1, <3>1, <3>2
  <2>7. QED
    <3> HIDE DEF g
    <3>1. QED
      BY <2>5, <2>6
<1>3. T = Nat
  <2> HIDE DEF T
  <2>1. T \in SUBSET Nat
    BY DEF T
  <2>2. QED
    BY <1>1, <1>2, <2>1, InductiveSet
<1>4. QED
  BY <1>3 DEF Loops

==============================================================================
