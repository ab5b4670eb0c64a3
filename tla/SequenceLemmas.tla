--------------------------- MODULE SequenceLemmas ---------------------------
(***************************************************************************)
(* Facts about short sequences, about sequences whose head is replaced,    *)
(* and about flattened ones, that the proofs of the other modules cite;    *)
(* and induction over the natural numbers, for a set instead of a          *)
(* predicate.                                                              *)
(***************************************************************************)
EXTENDS Integers, Sequences, SequencesExt, SequenceTheorems, FiniteSetTheorems, TLAPS

\* A sequence of length zero is the empty one.
LEMMA LenZero ==
  ASSUME NEW S, NEW s \in Seq(S), Len(s) = 0
  PROVE  s = << >>
BY EmptySeq

\* Sequences of different lengths are different.
LEMMA DifferentLengths ==
  ASSUME NEW s, NEW t, Len(s) # Len(t)
  PROVE  s # t
BY Zenon

\* Nothing follows the only element.
LEMMA TailOfOne ==
  ASSUME NEW S, NEW s \in Seq(S), Len(s) = 1
  PROVE  Tail(s) = << >>
<1>1. s # << >>
  OBVIOUS
<1>2. Tail(s) \in Seq(S) /\ Len(Tail(s)) = 0
  BY <1>1
<1> QED BY <1>2, LenZero

\* What replacing the head of a sequence does (a method goes on, or takes the
\* lock).
LEMMA ReplaceHead ==
  ASSUME NEW S, NEW s \in Seq(S), s # << >>, NEW x \in S
  PROVE  /\ <<x>> \o Tail(s) \in Seq(S)
         /\ <<x>> \o Tail(s) # << >>
         /\ Len(<<x>> \o Tail(s)) = Len(s)
         /\ Head(<<x>> \o Tail(s)) = x
         /\ (<<x>> \o Tail(s))[1] = x
         /\ \A i \in 2..Len(s) : (<<x>> \o Tail(s))[i] = s[i]
OBVIOUS

\* What replacing the only element by two does (a method calls another).
LEMMA ReplaceOneByTwo ==
  ASSUME NEW S, NEW s \in Seq(S), Len(s) = 1, NEW x \in S, NEW y \in S
  PROVE  <<x, y>> \o Tail(s) = <<x, y>>
<1>1. Tail(s) = << >>
  BY TailOfOne
<1>2. <<x, y>> \in Seq(S)
  OBVIOUS
<1> QED BY <1>1, <1>2, ConcatEmptySeq

\* What dropping the head of a sequence does.
LEMMA DropHead ==
  ASSUME NEW S, NEW s \in Seq(S), s # << >>
  PROVE  /\ Head(s) = s[1] /\ Head(s) \in S
         /\ Tail(s) \in Seq(S)
         /\ Len(Tail(s)) = Len(s) - 1
         /\ \A i \in 1..Len(s) - 1 : Tail(s)[i] = s[i + 1]
OBVIOUS

\* What is left when the head is dropped ends as the sequence does.
LEMMA LastOfTail ==
  ASSUME NEW S, NEW s \in Seq(S), s # << >>, Tail(s) # << >>
  PROVE  Tail(s)[Len(Tail(s))] = s[Len(s)]
<1>1. /\ Tail(s) \in Seq(S) /\ Len(Tail(s)) = Len(s) - 1
      /\ \A i \in 1..Len(s) - 1 : Tail(s)[i] = s[i + 1]
  BY DropHead
<1>2. Len(Tail(s)) # 0
  BY <1>1, LenZero
<1>3. Len(s) \in Nat /\ Len(s) # 0
  BY LenZero
<1>4. \A n \in Nat : n # 0 /\ n - 1 # 0 => n - 1 \in 1..n - 1 /\ (n - 1) + 1 = n
  OBVIOUS
<1>5. Len(s) - 1 # 0
  BY <1>1, <1>2, Zenon
<1>6. Len(s) - 1 \in 1..Len(s) - 1 /\ (Len(s) - 1) + 1 = Len(s)
  BY <1>3, <1>4, <1>5, Zenon
<1>7. Tail(s)[Len(s) - 1] = s[(Len(s) - 1) + 1]
  BY <1>1, <1>6, Zenon
<1> QED BY <1>1, <1>6, <1>7, Zenon

\* The first k elements, and the elements after them.
LEMMA TakeFirst ==
  ASSUME NEW S, NEW s \in Seq(S), NEW k \in 0..Len(s)
  PROVE  /\ SubSeq(s, 1, k) \in Seq(S) /\ Len(SubSeq(s, 1, k)) = k
         /\ \A i \in 1..k : SubSeq(s, 1, k)[i] = s[i]
<1>1. \A i \in 1..k : s[i] \in S
  OBVIOUS
<1> QED BY <1>1

LEMMA DropFirst ==
  ASSUME NEW S, NEW s \in Seq(S), NEW k \in 0..Len(s)
  PROVE  /\ SubSeq(s, k + 1, Len(s)) \in Seq(S)
         /\ Len(SubSeq(s, k + 1, Len(s))) = Len(s) - k
         /\ \A i \in 1..Len(s) - k : SubSeq(s, k + 1, Len(s))[i] = s[k + i]
<1>1. k + 1 \in Int /\ Len(s) \in Int /\ Len(s) \in Nat /\ k \in Nat /\ k <= Len(s)
  OBVIOUS
<1>2. \A i \in k + 1 .. Len(s) : s[i] \in S
  BY <1>1, ElementOfSeq
<1>3. SubSeq(s, k + 1, Len(s)) \in Seq(S) /\ Len(SubSeq(s, k + 1, Len(s))) = Len(s) - k
  <2>1. /\ SubSeq(s, k + 1, Len(s)) \in Seq(S)
        /\ Len(SubSeq(s, k + 1, Len(s))) =
             IF k + 1 <= Len(s) THEN Len(s) - (k + 1) + 1 ELSE 0
    BY <1>1, <1>2, SubSeqProperties
  <2> QED BY <1>1, <2>1
<1>4. \A i \in 1..Len(s) - k : SubSeq(s, k + 1, Len(s))[i] = s[k + i]
  BY <1>1, <1>2
<1> QED BY <1>3, <1>4

\* The elements of a sequence over S are in S.
LEMMA RangeWithin ==
  ASSUME NEW S, NEW s \in Seq(S)
  PROVE  Range(s) \subseteq S
BY DEF Range

\* The elements of two sequences in a row.
LEMMA RangeOfConcat ==
  ASSUME NEW S, NEW s \in Seq(S), NEW t \in Seq(S)
  PROVE  Range(s \o t) = Range(s) \cup Range(t)
<1> DEFINE u == s \o t
<1>1. /\ DOMAIN u = 1..Len(s) + Len(t) /\ Len(s) \in Nat /\ Len(t) \in Nat
      /\ DOMAIN s = 1..Len(s) /\ DOMAIN t = 1..Len(t)
  OBVIOUS
<1>2. \A i \in 1..Len(s) : i \in 1..Len(s) + Len(t) /\ u[i] = s[i]
  OBVIOUS
<1>3. \A i \in 1..Len(t) : Len(s) + i \in 1..Len(s) + Len(t) /\ u[Len(s) + i] = t[i]
  OBVIOUS
<1>4. \A i \in 1..Len(s) + Len(t) :
        \/ i \in 1..Len(s) /\ u[i] = s[i]
        \/ i - Len(s) \in 1..Len(t) /\ u[i] = t[i - Len(s)]
  <2> SUFFICES ASSUME NEW i \in 1..Len(s) + Len(t), ~(i \in 1..Len(s))
               PROVE  i - Len(s) \in 1..Len(t) /\ u[i] = t[i - Len(s)]
    BY <1>2
  <2>1. i - Len(s) \in 1..Len(t) /\ Len(s) + (i - Len(s)) = i
    BY <1>1
  <2> QED BY <1>3, <2>1
<1> HIDE DEF u
<1>5. Range(s) \cup Range(t) \subseteq Range(u)
  BY <1>1, <1>2, <1>3 DEF Range
<1>6. Range(u) \subseteq Range(s) \cup Range(t)
  BY <1>1, <1>4 DEF Range
<1> QED BY <1>5, <1>6 DEF u

\* The first element alone.
LEMMA FirstAlone ==
  ASSUME NEW S, NEW s \in Seq(S), s # << >>
  PROVE  SubSeq(s, 1, 1) = <<s[1]>>
<1>1. 1 \in 0..Len(s) /\ s[1] \in S
  OBVIOUS
<1>2. /\ SubSeq(s, 1, 1) \in Seq(S) /\ Len(SubSeq(s, 1, 1)) = 1
      /\ SubSeq(s, 1, 1)[1] = s[1]
  BY <1>1, TakeFirst
<1>3. <<s[1]>> \in Seq(S) /\ Len(<<s[1]>>) = 1 /\ <<s[1]>>[1] = s[1]
  BY <1>1
<1> HIDE <1>1
<1>4. \A i \in 1..Len(SubSeq(s, 1, 1)) : SubSeq(s, 1, 1)[i] = <<s[1]>>[i]
  BY <1>2, <1>3
<1> QED BY <1>2, <1>3, <1>4, SeqEqual

\* Literal sequences of up to seven elements.
LEMMA Literals ==
  ASSUME NEW S, NEW a \in S, NEW b \in S, NEW c \in S, NEW d \in S,
         NEW e \in S, NEW f \in S, NEW g \in S
  PROVE  /\ << >> \in Seq(S) /\ <<a>> \in Seq(S) /\ <<a, b>> \in Seq(S)
         /\ <<a, b, c>> \in Seq(S) /\ <<a, b, c, d>> \in Seq(S)
         /\ <<a, b, c, d, e, f, g>> \in Seq(S)
OBVIOUS

\* Induction over the natural numbers.  Were n missing from the set, moving each
\* number of the set below n one up would map 0..n into itself, one to one, and
\* miss 0, which no finite set allows.
LEMMA InductionInSet ==
  ASSUME NEW S, 0 \in S, \A n \in Nat : n \in S => n + 1 \in S
  PROVE  \A n \in Nat : n \in S
<1> SUFFICES ASSUME NEW n \in Nat, n \notin S PROVE FALSE
  OBVIOUS
<1> DEFINE f == [x \in 0..n |-> IF x \in S THEN x + 1 ELSE x]
<1>1. \A x \in 0..n : f[x] \in 0..n
  OBVIOUS
<1>2. f \in [0..n -> 0..n]
  BY <1>1
<1>3. ASSUME NEW x \in 0..n, NEW y \in 0..n, f[x] = f[y] PROVE x = y
  <2>1. CASE x \in S /\ y \in S BY <1>3, <2>1
  <2>2. CASE x \in S /\ y \notin S
    BY <1>3, <2>2
  <2>3. CASE x \notin S /\ y \in S
    BY <1>3, <2>3
  <2>4. CASE x \notin S /\ y \notin S BY <1>3, <2>4
  <2> QED BY <2>1, <2>2, <2>3, <2>4
<1>4. \A x \in 0..n : f[x] # 0
  OBVIOUS
<1> HIDE DEF f
<1>5. f \in Injection(0..n, 0..n)
  BY <1>2, <1>3, Zenon DEF Injection, IsInjective
<1>6. IsFiniteSet(0..n)
  BY FS_Interval
<1>7. f \in Surjection(0..n, 0..n)
  BY <1>5, <1>6, FS_Injection, Zenon
<1>8. 0 \in 0..n OBVIOUS
<1> QED BY <1>4, <1>7, <1>8, Zenon DEF Surjection


\* The rule by which a sequence of sequences is flattened.
FlattenRule(seqs, F) ==
  \A i \in 1..Len(seqs) : F[i] = IF i = 1 THEN seqs[i] ELSE F[i - 1] \o seqs[i]

\* Flattening obeys its rule.
LEMMA FlattenIs ==
  ASSUME NEW T, NEW seqs \in Seq(T), seqs # << >>
  PROVE  \E F : FlattenRule(seqs, F) /\ FlattenSeq(seqs) = F[Len(seqs)]
<1> DEFINE n == Len(seqs)
           Rule(m, f) == \A i \in 1..m : f[i] = IF i = 1 THEN seqs[i] ELSE f[i - 1] \o seqs[i]
           Flat(m, f) == f = [i \in 1..m |-> f[i]] /\ Rule(m, f)
           Has(m) == \E f : Flat(m, f)
           Good == {k \in Nat : k < n => Has(k + 1)}
<1>n. n \in Nat /\ n # 0
  OBVIOUS
<1> HIDE DEF Has
<1>g. \A k \in Nat : k \in Good <=> (k < n => Has(k + 1))
  OBVIOUS
<1> HIDE DEF n, Good
<1>1. 0 \in Good
  <2> DEFINE f == [i \in 1..0 + 1 |-> seqs[1]]
  <2>1. f = [i \in 1..0 + 1 |-> f[i]]
    OBVIOUS
  <2>2. Rule(0 + 1, f)
    OBVIOUS
  <2> HIDE DEF f
  <2>3. Has(0 + 1)
    BY <2>1, <2>2, Zenon DEF Has
  <2> QED BY <1>g, <2>3
<1>2. ASSUME NEW k \in Nat, k \in Good PROVE k + 1 \in Good
  <2>k. k + 1 \in Nat
    OBVIOUS
  <2>s. SUFFICES ASSUME k + 1 < n
               PROVE  Has(k + 1 + 1)
    BY <1>g, <2>k, Zenon
  <2>0. k < n
    BY <2>s, <1>n
  <2>1. PICK f : Rule(k + 1, f)
    <3>1. Has(k + 1)
      BY <1>2, <2>0, <1>g, Zenon
    <3> QED BY <3>1, Zenon DEF Has
  <2> DEFINE g == [i \in 1..k + 1 + 1 |-> IF i = k + 2 THEN f[k + 1] \o seqs[k + 2] ELSE f[i]]
  <2>2. \A i \in 1..k + 2 : g[i] = IF i = k + 2 THEN f[k + 1] \o seqs[k + 2] ELSE f[i]
    OBVIOUS
  <2>3. g = [i \in 1..k + 1 + 1 |-> g[i]]
    OBVIOUS
  <2> HIDE DEF g
  <2>4. Rule(k + 1 + 1, g)
    <3> SUFFICES ASSUME NEW i \in 1..k + 1 + 1
                 PROVE  g[i] = IF i = 1 THEN seqs[i] ELSE g[i - 1] \o seqs[i]
      OBVIOUS
    <3>1. CASE i = k + 2
      <4>1. /\ i - 1 \in 1..k + 2 /\ i - 1 # k + 2 /\ i - 1 = k + 1
            /\ i \in 1..k + 2 /\ i # 1
        BY <3>1
      <4>2. g[i - 1] = f[k + 1]
        BY <4>1, <2>2, Zenon
      <4>3. g[i] = f[k + 1] \o seqs[k + 2]
        BY <4>1, <3>1, <2>2, Zenon
      <4> QED BY <3>1, <4>1, <4>2, <4>3, Zenon
    <3>2. CASE i # k + 2
      <4>1. i \in 1..k + 1
        BY <3>2
      <4>2. g[i] = f[i] /\ (i # 1 => g[i - 1] = f[i - 1])
        BY <4>1, <2>2
      <4>3. f[i] = IF i = 1 THEN seqs[i] ELSE f[i - 1] \o seqs[i]
        BY <4>1, <2>1
      <4> QED BY <4>2, <4>3
    <3> QED BY <3>1, <3>2
  <2> QED BY <2>3, <2>4, Zenon DEF Has
<1>3. \A k \in Nat : k \in Good
  BY <1>1, <1>2, InductionInSet
<1>4. PICK f : Flat(n, f)
  <2>1. PICK k \in Nat : k + 1 = n /\ k < n
    <3>1. n - 1 \in Nat /\ n - 1 + 1 = n /\ n - 1 < n
      BY <1>n
    <3> QED BY <3>1, Zenon
  <2>2. Has(k + 1)
    BY <2>1, <1>3, <1>g, Zenon
  <2> QED BY <2>1, <2>2, Zenon DEF Has
<1> DEFINE Whole(g) == g = [i \in 1..n |-> IF i = 1 THEN seqs[i] ELSE g[i - 1] \o seqs[i]]
           F == CHOOSE g : Whole(g)
<1>5. Whole(f)
  BY <1>4
<1>6. Whole(F)
  BY <1>5, Zenon
<1>7. FlattenSeq(seqs) = F[n]
  BY <1>n, Zenon DEF FlattenSeq, n
<1>8. FlattenRule(seqs, F)
  BY <1>6 DEF FlattenRule, n
<1> QED BY <1>7, <1>8, Zenon DEF n

\* A property kept by appending each piece holds of the flattened sequence.
LEMMA FlattenIn ==
  ASSUME NEW T, NEW seqs \in Seq(T), seqs # << >>, NEW W,
         seqs[1] \in W,
         \A u \in W : \A i \in 2..Len(seqs) : u \o seqs[i] \in W
  PROVE  FlattenSeq(seqs) \in W
<1>1. PICK F : FlattenRule(seqs, F) /\ FlattenSeq(seqs) = F[Len(seqs)]
  BY FlattenIs
<1> DEFINE n == Len(seqs)
           Fine == {k \in Nat : k < n => F[k + 1] \in W}
<1>n. n \in Nat /\ n # 0
  OBVIOUS
<1>8. \A i \in 1..n : F[i] = IF i = 1 THEN seqs[i] ELSE F[i - 1] \o seqs[i]
  BY <1>1, Zenon DEF FlattenRule
<1>s. \A u \in W : \A i \in 2..n : u \o seqs[i] \in W
  OBVIOUS
<1> HIDE DEF n
<1>9. 0 \in Fine
  <2>1. 1 \in 1..n
    BY <1>n
  <2>2. F[1] = seqs[1]
    BY <2>1, <1>8, Zenon
  <2> QED BY <2>2
<1>10. ASSUME NEW k \in Nat, k \in Fine PROVE k + 1 \in Fine
  <2> SUFFICES ASSUME k + 1 < n PROVE F[k + 1 + 1] \in W
    OBVIOUS
  <2>1. F[k + 1] \in W
    BY <1>10, <1>n
  <2>2. PICK i \in 2..n : i = k + 1 + 1 /\ i \in 1..n /\ i # 1 /\ i - 1 = k + 1
    BY <1>n
  <2>3. F[i] = F[k + 1] \o seqs[i]
    BY <2>2, <1>8, Zenon
  <2> QED BY <2>1, <2>2, <2>3, <1>s
<1> HIDE DEF Fine
<1>11. \A k \in Nat : k \in Fine
  BY <1>9, <1>10, InductionInSet
<1>12. F[n] \in W
  <2>1. PICK k \in Nat : k + 1 = n /\ k < n
    <3>1. n - 1 \in Nat /\ n - 1 + 1 = n /\ n - 1 < n
      BY <1>n
    <3> QED BY <3>1, Zenon
  <2> QED BY <2>1, <1>11, Zenon DEF Fine
<1> QED BY <1>1, <1>12, Zenon DEF n

\* An element at the end.
LEMMA OneMore ==
  ASSUME NEW S, NEW s \in Seq(S), NEW x \in S
  PROVE  /\ s \o <<x>> \in Seq(S) /\ Len(s \o <<x>>) = Len(s) + 1
         /\ (s \o <<x>>)[Len(s) + 1] = x
         /\ \A i \in 1..Len(s) : (s \o <<x>>)[i] = s[i]
OBVIOUS

\* Pieces of one element each are flattened into the list of the elements.
LEMMA FlattenSingles ==
  ASSUME NEW S, NEW list \in Seq(S), list # << >>,
         NEW seqs \in Seq(Seq(S)), Len(seqs) = Len(list),
         \A i \in 1..Len(list) : seqs[i] = <<list[i]>>
  PROVE  FlattenSeq(seqs) = list
<1> DEFINE n == Len(list)
           Starts(s, m) == s \in Seq(S) /\ Len(s) = m /\ \A i \in 1..m : s[i] = list[i]
<1>n. n \in Nat /\ n # 0 /\ Len(seqs) = n
  OBVIOUS
<1>e. \A i \in 1..n : list[i] \in S /\ seqs[i] = <<list[i]>>
  OBVIOUS
<1>1. seqs # << >>
  BY <1>n
<1>2. PICK F : FlattenRule(seqs, F) /\ FlattenSeq(seqs) = F[Len(seqs)]
  BY <1>1, FlattenIs
<1>3. \A i \in 1..n : F[i] = IF i = 1 THEN seqs[i] ELSE F[i - 1] \o seqs[i]
  BY <1>2, <1>n, Zenon DEF FlattenRule
<1> DEFINE Fine == {k \in Nat : k < n => Starts(F[k + 1], k + 1)}
<1> HIDE DEF n
<1>4. 0 \in Fine
  <2>1. 1 \in 1..n
    BY <1>n
  <2>2. F[1] = <<list[1]>> /\ list[1] \in S
    BY <2>1, <1>3, <1>e, Zenon
  <2> DEFINE t == <<list[1]>>
  <2>3. t \in Seq(S) /\ Len(t) = 1 /\ t[1] = list[1]
    BY <2>2
  <2>4. F[1] = t
    BY <2>2
  <2> HIDE DEF t
  <2>5. Starts(F[1], 1)
    BY <2>3, <2>4
  <2> QED BY <2>5
<1>5. ASSUME NEW k \in Nat, k \in Fine PROVE k + 1 \in Fine
  <2> SUFFICES ASSUME k + 1 < n PROVE Starts(F[k + 1 + 1], k + 1 + 1)
    OBVIOUS
  <2>1. Starts(F[k + 1], k + 1)
    BY <1>5, <1>n
  <2>2. PICK m : m = k + 1 /\ m \in Nat
    OBVIOUS
  <2>3. PICK i : i = m + 1 /\ i \in 1..n /\ i # 1 /\ i - 1 = m
    BY <2>2, <1>n
  <2>4. F[i] = F[m] \o <<list[i]>> /\ list[i] \in S
    BY <2>3, <1>3, <1>e, Zenon
  <2>5. PICK s : s = F[m]
    OBVIOUS
  <2>6. Starts(s, m)
    BY <2>1, <2>2, <2>5
  <2>7. F[i] = s \o <<list[i]>>
    BY <2>4, <2>5
  <2>8. /\ s \o <<list[i]>> \in Seq(S) /\ Len(s \o <<list[i]>>) = m + 1
        /\ (s \o <<list[i]>>)[m + 1] = list[i]
        /\ \A j \in 1..m : (s \o <<list[i]>>)[j] = s[j]
    <3>1. s \in Seq(S) /\ Len(s) = m
      BY <2>6, Zenon
    <3>2. /\ s \o <<list[i]>> \in Seq(S) /\ Len(s \o <<list[i]>>) = Len(s) + 1
          /\ (s \o <<list[i]>>)[Len(s) + 1] = list[i]
          /\ \A j \in 1..Len(s) : (s \o <<list[i]>>)[j] = s[j]
      BY <3>1, <2>4, OneMore
    <3> QED BY <3>1, <3>2, Zenon
  <2>9. \A j \in 1..m + 1 : j = m + 1 \/ j \in 1..m
    BY <2>2
  <2>10. \A j \in 1..m + 1 : F[i][j] = list[j]
    BY <2>3, <2>6, <2>7, <2>8, <2>9, Zenon
  <2>11. Starts(F[i], i)
    BY <2>3, <2>7, <2>8, <2>10
  <2> QED BY <2>11, <2>2, <2>3
<1> HIDE DEF Fine
<1>6. \A k \in Nat : k \in Fine
  BY <1>4, <1>5, InductionInSet
<1>7. Starts(F[n], n)
  <2>1. PICK k \in Nat : k + 1 = n /\ k < n
    <3>1. n - 1 \in Nat /\ n - 1 + 1 = n /\ n - 1 < n
      BY <1>n
    <3> QED BY <3>1, Zenon
  <2> QED BY <2>1, <1>6, Zenon DEF Fine
<1>8. F[n] = list
  BY <1>7, SeqEqual DEF n
<1> QED BY <1>2, <1>8, <1>n

\* The elements of a sequence are its head and those of its tail.
LEMMA RangeOfHeadAndTail ==
  ASSUME NEW S, NEW s \in Seq(S), s # << >>
  PROVE  Range(s) = {Head(s)} \cup Range(Tail(s))
<1>1. /\ Tail(s) \in Seq(S) /\ Len(Tail(s)) = Len(s) - 1 /\ Head(s) = s[1]
      /\ \A i \in 1..Len(s) - 1 : Tail(s)[i] = s[i + 1]
      /\ Len(s) \in Nat /\ Len(s) # 0
      /\ DOMAIN s = 1..Len(s) /\ DOMAIN Tail(s) = 1..Len(s) - 1
  BY DropHead
<1>2. Range(s) \subseteq {Head(s)} \cup Range(Tail(s))
  <2> SUFFICES ASSUME NEW i \in 1..Len(s), i # 1 PROVE s[i] \in Range(Tail(s))
    BY <1>1 DEF Range
  <2>1. i - 1 \in 1..Len(s) - 1 /\ (i - 1) + 1 = i
    BY <1>1
  <2>2. Tail(s)[i - 1] = s[i]
    BY <1>1, <2>1
  <2> QED BY <1>1, <2>1, <2>2 DEF Range
<1>3. {Head(s)} \cup Range(Tail(s)) \subseteq Range(s)
  <2>1. 1 \in 1..Len(s)
    BY <1>1
  <2>2. ASSUME NEW i \in 1..Len(s) - 1 PROVE Tail(s)[i] \in Range(s)
    <3>1. i + 1 \in 1..Len(s)
      BY <1>1
    <3> QED BY <1>1, <3>1 DEF Range
  <2> QED BY <1>1, <2>1, <2>2 DEF Range
<1> QED BY <1>2, <1>3

\* Each earlier element of a sequence stands in the relation R to each later one.
InRelation(s, R) == \A i, j \in DOMAIN s : i < j => <<s[i], s[j]>> \in R

\* Two related sequences in a row are related if their elements are.
LEMMA ConcatRelated ==
  ASSUME NEW S, NEW s \in Seq(S), NEW t \in Seq(S), NEW R,
         InRelation(s, R), InRelation(t, R),
         \A x \in Range(s), y \in Range(t) : <<x, y>> \in R
  PROVE  InRelation(s \o t, R)
<1> DEFINE u == s \o t
<1>1. /\ DOMAIN u = 1..Len(s) + Len(t) /\ Len(s) \in Nat /\ Len(t) \in Nat
      /\ DOMAIN s = 1..Len(s) /\ DOMAIN t = 1..Len(t)
  OBVIOUS
<1>2. \A i \in 1..Len(s) : u[i] = s[i]
  OBVIOUS
<1>3. \A i \in 1..Len(t) : u[Len(s) + i] = t[i]
  OBVIOUS
<1>4. \A i \in DOMAIN u : \/ i \in DOMAIN s /\ u[i] = s[i]
                          \/ i - Len(s) \in DOMAIN t /\ u[i] = t[i - Len(s)] /\ i > Len(s)
  <2> SUFFICES ASSUME NEW i \in 1..Len(s) + Len(t), ~(i \in 1..Len(s))
               PROVE  i - Len(s) \in 1..Len(t) /\ u[i] = t[i - Len(s)] /\ i > Len(s)
    BY <1>1, <1>2
  <2>1. i - Len(s) \in 1..Len(t) /\ Len(s) + (i - Len(s)) = i /\ i > Len(s)
    BY <1>1
  <2> QED BY <1>3, <2>1
<1> HIDE DEF u
<1>5. ASSUME NEW i \in DOMAIN u, NEW j \in DOMAIN u, i < j PROVE <<u[i], u[j]>> \in R
  <2>1. CASE j \in DOMAIN s /\ u[j] = s[j]
    <3>1. i \in DOMAIN s
      BY <1>1, <1>5, <2>1
    <3>2. u[i] = s[i]
      BY <1>1, <1>2, <3>1
    <3> QED BY <1>5, <2>1, <3>1, <3>2 DEF InRelation
  <2>2. CASE j - Len(s) \in DOMAIN t /\ u[j] = t[j - Len(s)] /\ j > Len(s)
    <3>1. CASE i \in DOMAIN s /\ u[i] = s[i]
      BY <2>2, <3>1 DEF Range
    <3>2. CASE i - Len(s) \in DOMAIN t /\ u[i] = t[i - Len(s)]
      <4>1. i - Len(s) < j - Len(s)
        BY <1>1, <1>5
      <4> QED BY <2>2, <3>2, <4>1 DEF InRelation
    <3> QED BY <1>4, <1>5, <3>1, <3>2
  <2> QED BY <1>4, <1>5, <2>1, <2>2
<1> QED BY <1>5 DEF InRelation, u

\* A related sequence is so without its head, to which all the others are related.
LEMMA TailRelated ==
  ASSUME NEW S, NEW s \in Seq(S), s # << >>, NEW R, InRelation(s, R)
  PROVE  InRelation(Tail(s), R) /\ \A y \in Range(Tail(s)) : <<Head(s), y>> \in R
<1>1. /\ Len(Tail(s)) = Len(s) - 1 /\ Head(s) = s[1]
      /\ \A i \in 1..Len(s) - 1 : Tail(s)[i] = s[i + 1]
      /\ Len(s) \in Nat /\ Len(s) # 0
      /\ DOMAIN s = 1..Len(s) /\ DOMAIN Tail(s) = 1..Len(s) - 1
  BY DropHead
<1>2. \A i \in 1..Len(s) - 1 : i + 1 \in 1..Len(s) /\ 1 < i + 1
  BY <1>1
<1>3. 1 \in 1..Len(s)
  BY <1>1
<1>4. \A i, j \in 1..Len(s) - 1 : i < j => i + 1 < j + 1
  BY <1>1
<1>5. InRelation(Tail(s), R)
  BY <1>1, <1>2, <1>4 DEF InRelation
<1>6. ASSUME NEW y \in Range(Tail(s)) PROVE <<Head(s), y>> \in R
  <2>1. PICK i \in 1..Len(s) - 1 : y = s[i + 1]
    BY <1>1, <1>6 DEF Range
  <2> QED BY <1>1, <1>2, <1>3, <2>1 DEF InRelation
<1> QED BY <1>5, <1>6

\* A flattened sequence has the elements of the pieces, and their order.
LEMMA FlattenRelated ==
  ASSUME NEW T, NEW seqs \in Seq(Seq(T)), seqs # << >>, NEW R,
         \A i \in 1..Len(seqs) : InRelation(seqs[i], R),
         \A i, j \in 1..Len(seqs) :
           i < j => \A x \in Range(seqs[i]), y \in Range(seqs[j]) : <<x, y>> \in R
  PROVE  /\ Range(FlattenSeq(seqs)) = UNION {Range(seqs[i]) : i \in 1..Len(seqs)}
         /\ InRelation(FlattenSeq(seqs), R)
<1> DEFINE W == Seq(T)
           n == Len(seqs)
<1>0. seqs \in Seq(W)
  OBVIOUS
<1>n. n \in Nat /\ n # 0 /\ \A i \in 1..n : seqs[i] \in W
  BY <1>0, ElementOfSeq
<1>r. /\ \A i \in 1..n : InRelation(seqs[i], R)
      /\ \A i, j \in 1..n :
           i < j => \A x \in Range(seqs[i]), y \in Range(seqs[j]) : <<x, y>> \in R
  OBVIOUS
<1> HIDE DEF W
<1>1. PICK F : FlattenRule(seqs, F) /\ FlattenSeq(seqs) = F[Len(seqs)]
  BY <1>0, FlattenIs
<1> DEFINE Pieces(k) == UNION {Range(seqs[i]) : i \in 1..k}
           Fine == {k \in Nat : k < n => /\ F[k + 1] \in W /\ Range(F[k + 1]) = Pieces(k + 1)
                                         /\ InRelation(F[k + 1], R)}
<1>8. \A i \in 1..n : F[i] = IF i = 1 THEN seqs[i] ELSE F[i - 1] \o seqs[i]
  BY <1>1, Zenon DEF FlattenRule
<1> HIDE DEF n
<1>9. 0 \in Fine
  <2>1. 1 \in 1..n /\ 1..0 + 1 = {1} /\ 0 + 1 = 1
    BY <1>n
  <2>2. F[1] = seqs[1] /\ seqs[1] \in W /\ InRelation(seqs[1], R)
    BY <2>1, <1>8, <1>n, <1>r, Zenon
  <2>3. Pieces(1) = Range(seqs[1])
    BY <2>1
  <2> QED BY <2>1, <2>2, <2>3
<1>10. ASSUME NEW k \in Nat, k \in Fine PROVE k + 1 \in Fine
  <2> SUFFICES ASSUME k + 1 < n
               PROVE  /\ F[k + 1 + 1] \in W /\ Range(F[k + 1 + 1]) = Pieces(k + 1 + 1)
                      /\ InRelation(F[k + 1 + 1], R)
    OBVIOUS
  <2>1. F[k + 1] \in W /\ Range(F[k + 1]) = Pieces(k + 1) /\ InRelation(F[k + 1], R)
    BY <1>10, <1>n
  <2>2. PICK i \in 1..n : i = k + 1 + 1 /\ i # 1 /\ i - 1 = k + 1
    BY <1>n
  <2>3. F[i] = F[k + 1] \o seqs[i] /\ seqs[i] \in W
    BY <2>2, <1>8, <1>n, Zenon
  <2>4. /\ F[i] \in W /\ Range(F[i]) = Range(F[k + 1]) \cup Range(seqs[i])
        /\ InRelation(F[i], R)
    <3>1. F[k + 1] \in Seq(T) /\ seqs[i] \in Seq(T)
      BY <2>1, <2>3 DEF W
    <3>2. PICK u \in Seq(T) : u = F[k + 1]
      BY <3>1
    <3>3. PICK v \in Seq(T) : v = seqs[i]
      BY <3>1
    <3>4. u \o v \in Seq(T) /\ Range(u \o v) = Range(u) \cup Range(v)
      BY RangeOfConcat
    <3>5. \A x \in Range(u), y \in Range(v) : <<x, y>> \in R
      <4> SUFFICES ASSUME NEW x \in Range(u), NEW y \in Range(v) PROVE <<x, y>> \in R
        OBVIOUS
      <4>1. PICK j \in 1..k + 1 : x \in Range(seqs[j])
        BY <2>1, <3>2
      <4>2. j \in 1..n /\ j < i
        BY <1>n, <2>2, <4>1
      <4> QED BY <1>r, <2>2, <3>3, <4>1, <4>2
    <3>6. InRelation(u \o v, R)
      <4>1. InRelation(u, R) /\ InRelation(v, R)
        BY <1>r, <2>1, <2>2, <3>2, <3>3
      <4> QED BY <3>5, <4>1, ConcatRelated
    <3> QED BY <2>3, <3>2, <3>3, <3>4, <3>6 DEF W
  <2>5. 1..i = (1..k + 1) \cup {i}
    BY <2>2
  <2>6. Pieces(i) = Pieces(k + 1) \cup Range(seqs[i])
    BY <2>5
  <2> QED BY <2>1, <2>2, <2>4, <2>6
<1> HIDE DEF Fine
<1>11. \A k \in Nat : k \in Fine
  BY <1>9, <1>10, InductionInSet
<1>12. Range(F[n]) = Pieces(n) /\ InRelation(F[n], R)
  <2>1. PICK k \in Nat : k + 1 = n /\ k < n
    <3>1. n - 1 \in Nat /\ n - 1 + 1 = n /\ n - 1 < n
      BY <1>n
    <3> QED BY <3>1, Zenon
  <2> QED BY <2>1, <1>11, Zenon DEF Fine
<1> QED BY <1>1, <1>12, Zenon DEF n

\* A flattened sequence has the elements of the pieces.
LEMMA FlattenRange ==
  ASSUME NEW T, NEW seqs \in Seq(Seq(T)), seqs # << >>
  PROVE  Range(FlattenSeq(seqs)) = UNION {Range(seqs[i]) : i \in 1..Len(seqs)}
<1> DEFINE W == Seq(T)
<1>1. \A i \in 1..Len(seqs) : seqs[i] \in W
  OBVIOUS
<1>2. \A s \in Seq(T) : Range(s) \subseteq T /\ InRelation(s, T \X T)
  BY DEF Range, InRelation
<1>3. \A i \in 1..Len(seqs) : Range(seqs[i]) \subseteq T /\ InRelation(seqs[i], T \X T)
  BY <1>1, <1>2, Zenon
<1>4. \A i, j \in 1..Len(seqs) :
        i < j => \A x \in Range(seqs[i]), y \in Range(seqs[j]) : <<x, y>> \in T \X T
  BY <1>3
<1> QED BY <1>3, <1>4, FlattenRelated
=============================================================================
