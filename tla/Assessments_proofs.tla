------------------------- MODULE Assessments_proofs -------------------------
(***************************************************************************)
(* Proofs about the legal texts: from a page of EUR-Lex to what is stored  *)
(* of it, to the registry of obligations and to the notes.                 *)
(*                                                                         *)
(*   1. induction over numbers and sequences, from the least element       *)
(*   2. InOrder, Only, Joined: what the functions of LegalText consist of  *)
(*   3. the functions of LegalText: no word is lost, none occurs twice     *)
(*   4. the rows of the registry and of the law, and what is made of them  *)
(*   5. the invariant of the scripts of LegalStore                         *)
(*   6. the invariant of the pipeline and of the notes                     *)
(*   7. the properties                                                     *)
(***************************************************************************)
EXTENDS Assessments, TLAPS, WellFoundedInduction, FiniteSetTheorems, SequenceTheorems

\* A set of numbers that is not empty has a least one: every induction here is
\* this.
LEMMA Least ==
  ASSUME NEW S \in SUBSET Nat, S # {}
  PROVE  \E n \in S : \A m \in S : n <= m
<1>1. PICK n \in S : \A m \in S : ~(<<m, n>> \in OpToRel(<, Nat))
  BY NatLessThanWellFounded, WFMin
<1>2. \A m \in S : ~(m < n)
  BY <1>1 DEF OpToRel
<1> QED BY <1>2

\* Induction over numbers, for a set in place of a predicate.
LEMMA Induction ==
  ASSUME NEW S, 0 \in S, \A n \in Nat : n \in S => n + 1 \in S
  PROVE  Nat \subseteq S
<1> SUFFICES ASSUME Nat \ S # {} PROVE FALSE
  OBVIOUS
<1>1. PICK n \in Nat \ S : \A m \in Nat \ S : n <= m
  BY Least
<1>2. n - 1 \in S
  BY <1>1
<1> QED BY <1>1, <1>2

\* Induction over sequences, by their length.
LEMMA SeqInduction ==
  ASSUME NEW T, NEW S, << >> \in S,
         \A s \in Seq(T), x \in T : s \in S => Append(s, x) \in S
  PROVE  Seq(T) \subseteq S
<1> DEFINE N == {n \in Nat : \A s \in Seq(T) : Len(s) = n => s \in S}
<1>1. 0 \in N
  BY EmptySeq, ConcatEqualIffEmpty
<1>2. ASSUME NEW n \in Nat, n \in N PROVE n + 1 \in N
  <2> SUFFICES ASSUME NEW s \in Seq(T), Len(s) = n + 1 PROVE s \in S
    OBVIOUS
  <2>1. s # << >>
    OBVIOUS
  <2>2. PICK r \in Seq(T), x \in T : s = Append(r, x)
    BY <2>1, SequenceEmptyOrAppend
  <2>3. Len(r) = n
    BY <2>2
  <2> QED BY <1>2, <2>2, <2>3
<1> HIDE DEF N
<1>3. Nat \subseteq N
  BY <1>1, <1>2, Induction
<1> QED BY <1>3 DEF N

\* Greatest, of a bounded set of numbers: the key after which NextId counts.
LEMMA GreatestOf ==
  ASSUME NEW S \in SUBSET Nat, S # {}, NEW n \in Nat, \A i \in S : i <= n
  PROVE  Greatest(S) \in S /\ \A i \in S : i <= Greatest(S)
<1> DEFINE D == {n - i : i \in S}
<1>1. D \in SUBSET Nat /\ D # {}
  OBVIOUS
<1>2. PICK d \in D : \A e \in D : d <= e
  BY <1>1, Least
<1>3. PICK m \in S : d = n - m
  OBVIOUS
<1>4. \A i \in S : i <= m
  <2> TAKE i \in S
  <2>1. n - i \in D
    OBVIOUS
  <2>2. d <= n - i
    BY <2>1, <1>2
  <2>3. i \in Nat /\ m \in Nat
    OBVIOUS
  <2> QED BY <2>2, <2>3, <1>3
<1> QED BY <1>4 DEF Greatest

-----------------------------------------------------------------------------
(* Positions of a sequence in order, and what is selected by them *)

UpTo(S, i) == {j \in S : j <= i}
Positions(S) == S \in SUBSET Nat /\ IsFiniteSet(S)

\* The ranks of the positions of a finite set are 1, 2, ..., each once.
LEMMA Ranks ==
  ASSUME NEW S, Positions(S)
  PROVE  /\ Cardinality(S) \in Nat
         /\ \A i \in S : Cardinality(UpTo(S, i)) \in 1..Cardinality(S)
         /\ \A i, j \in S : i < j => Cardinality(UpTo(S, i)) < Cardinality(UpTo(S, j))
         /\ \A k \in 1..Cardinality(S) : \E i \in S : Cardinality(UpTo(S, i)) = k
<1> USE DEF Positions
<1>1. \A i \in S : UpTo(S, i) \in SUBSET S /\ i \in UpTo(S, i)
  BY DEF UpTo
<1>2. Cardinality(S) \in Nat
  BY FS_CardinalityType
<1>3. \A i \in S : /\ IsFiniteSet(UpTo(S, i)) /\ Cardinality(UpTo(S, i)) \in Nat
                   /\ Cardinality(UpTo(S, i)) <= Cardinality(S)
                   /\ Cardinality(UpTo(S, i)) # 0
  BY <1>1, FS_Subset, FS_CardinalityType, FS_EmptySet
<1>4. ASSUME NEW i \in S, NEW j \in S, i < j
      PROVE  Cardinality(UpTo(S, i)) < Cardinality(UpTo(S, j))
  <2>1. UpTo(S, i) \in SUBSET UpTo(S, j) /\ j \notin UpTo(S, i)
    <3>1. \A h \in S : h \in Nat
      OBVIOUS
    <3>2. \A h \in S : h <= i => h <= j
      BY <3>1, <1>4
    <3>3. ~(j <= i)
      BY <3>1, <1>4
    <3> QED BY <3>2, <3>3 DEF UpTo
  <2>2. Cardinality(UpTo(S, i)) <= Cardinality(UpTo(S, j))
        /\ Cardinality(UpTo(S, i)) # Cardinality(UpTo(S, j))
    BY <2>1, <1>1, <1>3, FS_Subset
  <2> QED BY <2>2, <1>3
<1> DEFINE f == [i \in S |-> Cardinality(UpTo(S, i))]
<1>5. f \in Injection(S, 1..Cardinality(S))
  <2>1. f \in [S -> 1..Cardinality(S)]
    BY <1>2, <1>3
  <2>2. \A i, j \in S : f[i] = f[j] => i = j
    BY <1>4, <1>3
  <2> QED BY <2>1, <2>2 DEF Injection, IsInjective
<1>6. IsFiniteSet(1..Cardinality(S)) /\ Cardinality(1..Cardinality(S)) = Cardinality(S)
  BY <1>2, FS_Interval
<1>7. f \in Surjection(S, 1..Cardinality(S))
  BY <1>5, <1>6, FS_Injection
<1>8. \A k \in 1..Cardinality(S) : \E i \in S : f[i] = k
  BY <1>7 DEF Surjection
<1> QED BY <1>2, <1>3, <1>4, <1>8

\* The k-th position in order is the one that has k up to it.
LEMMA Ordered ==
  ASSUME NEW S, Positions(S)
  PROVE  /\ InOrder(S) \in [1..Cardinality(S) -> S]
         /\ \A k \in 1..Cardinality(S) : Cardinality(UpTo(S, InOrder(S)[k])) = k
         /\ \A i \in S : InOrder(S)[Cardinality(UpTo(S, i))] = i
         /\ \A i \in S : \E k \in 1..Cardinality(S) : InOrder(S)[k] = i
         /\ \A k, l \in 1..Cardinality(S) : k < l => InOrder(S)[k] < InOrder(S)[l]
<1> DEFINE n == Cardinality(S)
<1>1. InOrder(S) = [k \in 1..n |-> CHOOSE i \in S : Cardinality(UpTo(S, i)) = k]
  BY DEF InOrder, UpTo
<1>2. \A k \in 1..n : InOrder(S)[k] \in S /\ Cardinality(UpTo(S, InOrder(S)[k])) = k
  <2> TAKE k \in 1..n
  <2>1. InOrder(S)[k] = CHOOSE i \in S : Cardinality(UpTo(S, i)) = k
    BY <1>1
  <2> QED BY <2>1, Ranks
<1>3. \A i \in S : InOrder(S)[Cardinality(UpTo(S, i))] = i
  <2> TAKE i \in S
  <2> DEFINE k == Cardinality(UpTo(S, i))
  <2>1. k \in 1..n
    BY Ranks
  <2>2. Cardinality(UpTo(S, InOrder(S)[k])) = k /\ InOrder(S)[k] \in S
    BY <2>1, <1>2
  <2> HIDE DEF k
  <2>3. i \in Nat /\ InOrder(S)[k] \in Nat
    BY <2>2 DEF Positions
  <2>4. ~(i < InOrder(S)[k]) /\ ~(InOrder(S)[k] < i)
    BY <2>2, <2>1, Ranks DEF k
  <2> QED BY <2>3, <2>4 DEF k
<1>4. ASSUME NEW k \in 1..n, NEW l \in 1..n, k < l PROVE InOrder(S)[k] < InOrder(S)[l]
  <2>1. InOrder(S)[k] \in S /\ InOrder(S)[l] \in S
    BY <1>2
  <2>2. InOrder(S)[k] \in Nat /\ InOrder(S)[l] \in Nat
    BY <2>1 DEF Positions
  <2>3. ~(InOrder(S)[l] < InOrder(S)[k]) /\ InOrder(S)[l] # InOrder(S)[k]
    BY <1>2, <1>4, <2>1, Ranks
  <2> QED BY <2>2, <2>3
<1> QED BY <1>1, <1>2, <1>3, <1>4, Ranks

\* Positions of a sequence are finitely many.
LEMMA Few == ASSUME NEW n \in Nat, NEW S \in SUBSET (1..n) PROVE Positions(S)
<1>1. IsFiniteSet(1..n)
  BY FS_Interval
<1>2. S \in SUBSET Nat
  OBVIOUS
<1> QED BY <1>1, <1>2, FS_Subset DEF Positions

\* No positions, in order, are none.
LEMMA NonePositioned == Positions({}) /\ Cardinality({}) = 0 /\ InOrder({}) = << >>
BY FS_EmptySet DEF Positions, InOrder

\* A position after all others comes last.
LEMMA OneMorePosition ==
  ASSUME NEW S, Positions(S), NEW m \in Nat, \A i \in S : i < m
  PROVE  /\ Positions(S \cup {m}) /\ Cardinality(S \cup {m}) = Cardinality(S) + 1
         /\ \A k \in 1..Cardinality(S) : InOrder(S \cup {m})[k] = InOrder(S)[k]
         /\ InOrder(S \cup {m})[Cardinality(S) + 1] = m
<1> DEFINE U == S \cup {m}
<1>1. m \notin S
  BY DEF Positions
<1>2. Positions(U) /\ Cardinality(U) = Cardinality(S) + 1
  BY <1>1, FS_AddElement DEF Positions
<1>3. \A i \in S : UpTo(U, i) = UpTo(S, i)
  <2>1. \A i \in S : i \in Nat /\ ~(m <= i)
    BY DEF Positions
  <2> QED BY <2>1 DEF UpTo
<1>4. UpTo(U, m) = U
  <2>1. \A i \in S : i \in Nat /\ i <= m
    BY DEF Positions
  <2> QED BY <2>1 DEF UpTo
<1>5. ASSUME NEW k \in 1..Cardinality(S) PROVE InOrder(U)[k] = InOrder(S)[k]
  <2>1. InOrder(S)[k] \in S /\ Cardinality(UpTo(S, InOrder(S)[k])) = k
    BY ZenonT(40), Ordered
  <2>2. Cardinality(UpTo(U, InOrder(S)[k])) = k
    BY <2>1, <1>3
  <2>3. InOrder(S)[k] \in U
    BY <2>1
  <2> QED BY <2>2, <2>3, <1>2, Ordered
<1>6. InOrder(U)[Cardinality(U)] = m
  BY <1>4, <1>2, Ordered
<1> QED BY <1>2, <1>5, <1>6

-----------------------------------------------------------------------------
\* What Only keeps is what stands at the positions, each of them once.
LEMMA OnlyOf ==
  ASSUME NEW T, NEW s \in Seq(T), NEW S \in SUBSET (1..Len(s))
  PROVE  /\ Only(s, S) \in Seq(T) /\ Cardinality(S) \in Nat
         /\ Len(Only(s, S)) = Cardinality(S)
         /\ \A k \in 1..Cardinality(S) :
              InOrder(S)[k] \in S /\ Only(s, S)[k] = s[InOrder(S)[k]]
         /\ \A i \in S : \E k \in 1..Cardinality(S) : InOrder(S)[k] = i
<1> DEFINE n == Cardinality(S)
<1>0. Len(s) \in Nat
  OBVIOUS
<1>1. Positions(S)
  BY <1>0, Few
<1>2. n \in Nat /\ InOrder(S) \in [1..n -> S]
  BY <1>1, Ranks, Ordered
<1>3. Only(s, S) = [k \in 1..n |-> s[InOrder(S)[k]]]
  BY DEF Only
<1>4. \A k \in 1..n : s[InOrder(S)[k]] \in T
  BY <1>2, ElementOfSeq
<1>5. Only(s, S) \in Seq(T) /\ Len(Only(s, S)) = n /\ DOMAIN Only(s, S) = 1..n
  BY <1>2, <1>3, <1>4
<1> QED BY <1>1, <1>2, <1>3, <1>5, Ordered

\* The elements of s that are in Q.
Within(s, Q) == {i \in DOMAIN s : s[i] \in Q}
Sel(s, Q) == Only(s, Within(s, Q))

\* What is selected are the elements of the sequence that are in the set.
LEMMA SelType ==
  ASSUME NEW T, NEW s \in Seq(T), NEW Q
  PROVE  /\ Sel(s, Q) \in Seq(T) /\ Sel(s, Q) \in Seq(Q)
         /\ \A x : x \in ToSet(Sel(s, Q)) <=> x \in ToSet(s) /\ x \in Q
<1> DEFINE S == Within(s, Q)
<1>1. S \in SUBSET (1..Len(s))
  BY DEF Within
<1>2. /\ Sel(s, Q) \in Seq(T) /\ Len(Sel(s, Q)) = Cardinality(S) /\ Cardinality(S) \in Nat
      /\ \A k \in 1..Cardinality(S) : InOrder(S)[k] \in S /\ Sel(s, Q)[k] = s[InOrder(S)[k]]
      /\ \A i \in S : \E k \in 1..Cardinality(S) : InOrder(S)[k] = i
  BY <1>1, OnlyOf DEF Sel
<1>3. \A k \in 1..Len(Sel(s, Q)) : Sel(s, Q)[k] \in Q
  BY <1>2 DEF Within
<1>4. Sel(s, Q) \in Seq(Q)
  BY <1>2, <1>3
<1>5. \A x : x \in ToSet(s) <=> \E i \in 1..Len(s) : x = s[i]
  BY DEF ToSet
<1>6. \A x : x \in ToSet(Sel(s, Q)) <=> \E k \in 1..Cardinality(S) : x = Sel(s, Q)[k]
  BY <1>2 DEF ToSet
<1>7. \A i : i \in S <=> i \in 1..Len(s) /\ s[i] \in Q
  BY DEF Within
<1> HIDE DEF S
<1>8. ASSUME NEW x PROVE x \in ToSet(Sel(s, Q)) <=> x \in ToSet(s) /\ x \in Q
  <2>1. ASSUME NEW k \in 1..Cardinality(S), x = Sel(s, Q)[k] PROVE x \in ToSet(s) /\ x \in Q
    BY <2>1, <1>2, <1>5, <1>7
  <2>2. ASSUME NEW i \in 1..Len(s), x = s[i], x \in Q
        PROVE  \E k \in 1..Cardinality(S) : x = Sel(s, Q)[k]
    <3>0. s[i] \in Q
      BY <2>2
    <3>1. i \in S
      BY <3>0, <1>7
    <3>2. PICK k \in 1..Cardinality(S) : InOrder(S)[k] = i
      BY <3>1, <1>2
    <3> QED BY <3>2, <2>2, <1>2
  <2> QED BY <2>1, <2>2, <1>5, <1>6
<1> QED BY <1>2, <1>4, <1>8

\* Of nothing, nothing is selected.
LEMMA SelNone == \A Q : Sel(<< >>, Q) = << >>
<1> TAKE Q
<1>1. Within(<< >>, Q) = {}
  BY DEF Within
<1>2. Sel(<< >>, Q) = [k \in 1..0 |-> << >>[InOrder({})[k]]]
  BY <1>1, NonePositioned DEF Sel, Only
<1> QED BY <1>2

\* Only, on a sequence with one element more.
LEMMA OnlyAppend ==
  ASSUME NEW T, NEW s \in Seq(T), NEW x \in T, NEW S \in SUBSET (1..Len(s))
  PROVE  /\ Only(Append(s, x), S) = Only(s, S)
         /\ Only(Append(s, x), S \cup {Len(s) + 1}) = Append(Only(s, S), x)
<1> DEFINE n == Len(s)  t == Append(s, x)  W == S \cup {n + 1}
<1>1. n \in Nat /\ t \in Seq(T) /\ Len(t) = n + 1 /\ t[n + 1] = x /\ \A i \in 1..n : t[i] = s[i]
  OBVIOUS
<1>2. Positions(S) /\ \A i \in S : i < n + 1
  <2>1. Positions(S)
    BY <1>1, Few
  <2> HIDE DEF t
  <2> QED BY <2>1, <1>1
<1>3. /\ Only(s, S) \in Seq(T) /\ Len(Only(s, S)) = Cardinality(S) /\ Cardinality(S) \in Nat
      /\ \A k \in 1..Cardinality(S) : InOrder(S)[k] \in S /\ Only(s, S)[k] = s[InOrder(S)[k]]
  BY OnlyOf
<1>4. Only(t, S) = Only(s, S)
  <2>1. \A k \in 1..Cardinality(S) : t[InOrder(S)[k]] = s[InOrder(S)[k]]
    <3> HIDE DEF t
    <3> QED BY <1>1, <1>3
  <2> QED BY <2>1 DEF Only
<1>5. /\ Cardinality(W) = Cardinality(S) + 1
      /\ \A k \in 1..Cardinality(S) : InOrder(W)[k] = InOrder(S)[k]
      /\ InOrder(W)[Cardinality(S) + 1] = n + 1
  <2>1. n + 1 \in Nat
    BY <1>1
  <2> HIDE DEF n
  <2> QED BY <2>1, <1>2, OneMorePosition
<1>6. W \in SUBSET (1..Len(t))
  <2>1. \A i \in S : i \in 1..(n + 1)
    OBVIOUS
  <2>2. n + 1 \in 1..(n + 1) /\ Len(t) = n + 1
    BY <1>1
  <2> HIDE DEF t, n
  <2> QED BY <2>1, <2>2
<1> HIDE DEF W, t, n
<1>7. /\ Only(t, W) \in Seq(T) /\ Len(Only(t, W)) = Cardinality(S) + 1
      /\ \A k \in 1..(Cardinality(S) + 1) : Only(t, W)[k] = t[InOrder(W)[k]]
  BY <1>1, <1>5, <1>6, OnlyOf
<1>8. \A k \in 1..Cardinality(S) : Only(t, W)[k] = Only(s, S)[k]
  <2> TAKE k \in 1..Cardinality(S)
  <2>1. k \in 1..(Cardinality(S) + 1)
    BY <1>3
  <2>2. InOrder(S)[k] \in 1..n
    BY <1>3 DEF n
  <2>3. Only(t, W)[k] = t[InOrder(W)[k]] /\ InOrder(W)[k] = InOrder(S)[k]
    BY <2>1, <1>5, <1>7
  <2>4. Only(s, S)[k] = s[InOrder(S)[k]]
    BY <1>3
  <2>5. t[InOrder(S)[k]] = s[InOrder(S)[k]]
    BY <2>2, <1>1
  <2> QED BY <2>3, <2>4, <2>5
<1>9. Only(t, W)[Cardinality(S) + 1] = x
  BY <1>1, <1>3, <1>5, <1>7
<1>10. /\ Append(Only(s, S), x) \in Seq(T) /\ Len(Append(Only(s, S), x)) = Cardinality(S) + 1
       /\ \A k \in 1..(Cardinality(S) + 1) :
            Append(Only(s, S), x)[k] = IF k = Cardinality(S) + 1 THEN x ELSE Only(s, S)[k]
  BY <1>3
<1>11. \A k \in 1..(Cardinality(S) + 1) : Only(t, W)[k] = Append(Only(s, S), x)[k]
  BY <1>3, <1>8, <1>9, <1>10
<1>12. Only(t, W) = Append(Only(s, S), x)
  BY <1>7, <1>10, <1>11, SeqEqual
<1> QED BY <1>4, <1>12 DEF W, t, n

\* Selection goes element by element ...
LEMMA SelAppend ==
  ASSUME NEW T, NEW s \in Seq(T), NEW x \in T, NEW Q
  PROVE  Sel(Append(s, x), Q) = IF x \in Q THEN Append(Sel(s, Q), x) ELSE Sel(s, Q)
<1> DEFINE S == Within(s, Q)  n == Len(s)  t == Append(s, x)
<1>1. S \in SUBSET (1..n) /\ n \in Nat /\ DOMAIN t = 1..(n + 1) /\ t[n + 1] = x
      /\ \A i \in 1..n : t[i] = s[i]
  BY DEF Within
<1>2. \A i : i \in S <=> i \in 1..n /\ s[i] \in Q
  BY DEF Within
<1>3. \A i : i \in 1..(n + 1) <=> i \in 1..n \/ i = n + 1
  OBVIOUS
<1>4. Within(t, Q) = IF x \in Q THEN S \cup {n + 1} ELSE S
  <2> HIDE DEF S, t, n
  <2> QED BY <1>1, <1>2, <1>3 DEF Within
<1>5. Only(t, S) = Only(s, S) /\ Only(t, S \cup {n + 1}) = Append(Only(s, S), x)
  <2> HIDE DEF S
  <2> QED BY <1>1, OnlyAppend
<1> HIDE DEF t, n
<1> QED BY <1>4, <1>5 DEF Sel, t

\* ... and so part by part.
LEMMA SelConcat ==
  ASSUME NEW T, NEW s \in Seq(T), NEW t \in Seq(T), NEW Q
  PROVE  Sel(s \o t, Q) = Sel(s, Q) \o Sel(t, Q)
<1> DEFINE S == {r \in Seq(T) : Sel(s \o r, Q) = Sel(s, Q) \o Sel(r, Q)}
<1>1. << >> \in S
  BY SelNone, SelType, EmptySeq, ConcatEmptySeq
<1>2. ASSUME NEW r \in Seq(T), NEW x \in T, r \in S PROVE Append(r, x) \in S
  <2>1. s \o Append(r, x) = Append(s \o r, x) /\ s \o r \in Seq(T) /\ Append(r, x) \in Seq(T)
    OBVIOUS
  <2>2. Sel(s, Q) \in Seq(T) /\ Sel(r, Q) \in Seq(T)
    BY SelType
  <2>3. Sel(s, Q) \o Append(Sel(r, Q), x) = Append(Sel(s, Q) \o Sel(r, Q), x)
    BY <2>2
  <2>4. Sel(Append(r, x), Q) = IF x \in Q THEN Append(Sel(r, Q), x) ELSE Sel(r, Q)
    BY SelAppend
  <2>5. Sel(Append(s \o r, x), Q) = IF x \in Q THEN Append(Sel(s \o r, Q), x) ELSE Sel(s \o r, Q)
    BY <2>1, SelAppend
  <2> QED BY <1>2, <2>1, <2>3, <2>4, <2>5
<1> HIDE DEF S
<1>3. Seq(T) \subseteq S
  BY <1>1, <1>2, SeqInduction
<1> QED BY <1>3 DEF S

-----------------------------------------------------------------------------
\* The function by which FlattenSeq is defined, for the sequences up to n.
Flattens(f, xs, n) == f = [i \in 1..n |-> IF i = 1 THEN xs[1] ELSE f[i - 1] \o xs[i]]

\* The function by which FlattenSeq is defined exists.
LEMMA FlattensExists ==
  ASSUME NEW xs, NEW n \in Nat
  PROVE  \E f : Flattens(f, xs, n)
<1> DEFINE S == {m \in Nat : \E f : Flattens(f, xs, m)}
<1>1. 0 \in S
  <2>1. Flattens([i \in 1..0 |-> << >>], xs, 0)
    BY DEF Flattens
  <2> QED BY <2>1
<1>2. ASSUME NEW m \in Nat, m \in S PROVE m + 1 \in S
  <2>1. PICK f : Flattens(f, xs, m)
    BY <1>2
  <2> DEFINE g == [i \in 1..(m + 1) |->
                    IF i <= m THEN f[i] ELSE IF i = 1 THEN xs[1] ELSE f[m] \o xs[i]]
  <2>2. \A i \in 1..(m + 1) : g[i] = IF i = 1 THEN xs[1] ELSE g[i - 1] \o xs[i]
    <3> TAKE i \in 1..(m + 1)
    <3>1. CASE i <= m
      <4>0. i \in 1..m
        BY <3>1
      <4>1. f[i] = IF i = 1 THEN xs[1] ELSE f[i - 1] \o xs[i]
        BY <2>1, <4>0 DEF Flattens
      <4>2. i # 1 => g[i - 1] = f[i - 1]
        BY <4>0
      <4> QED BY <4>1, <4>2, <3>1
    <3>2. CASE i = m + 1
      BY <3>2
    <3> QED BY <3>1, <3>2
  <2>3. Flattens(g, xs, m + 1)
    BY <2>2 DEF Flattens
  <2> QED BY <2>3
<1> HIDE DEF S
<1>3. n \in S
  BY <1>1, <1>2, Induction
<1> QED BY <1>3 DEF S

\* It depends on the texts that are joined only.
LEMMA FlattensAgree ==
  ASSUME NEW xs, NEW ys, NEW f, NEW g, NEW m \in Nat, NEW n \in Nat, m <= n,
         Flattens(f, xs, m), Flattens(g, ys, n), \A i \in 1..m : xs[i] = ys[i]
  PROVE  \A i \in 1..m : f[i] = g[i]
<1> DEFINE S == {k \in Nat : k \in 1..m => f[k] = g[k]}
<1>1. 0 \in S
  OBVIOUS
<1>2. ASSUME NEW k \in Nat, k \in S PROVE k + 1 \in S
  <2> SUFFICES ASSUME k + 1 \in 1..m PROVE f[k + 1] = g[k + 1]
    OBVIOUS
  <2>1. k + 1 \in 1..n /\ xs[k + 1] = ys[k + 1]
    OBVIOUS
  <2>2. \A i \in 1..m : f[i] = IF i = 1 THEN xs[1] ELSE f[i - 1] \o xs[i]
    BY DEF Flattens
  <2>3. \A i \in 1..n : g[i] = IF i = 1 THEN ys[1] ELSE g[i - 1] \o ys[i]
    BY DEF Flattens
  <2>4. (k + 1) - 1 = k
    OBVIOUS
  <2>5. f[k + 1] = IF k + 1 = 1 THEN xs[1] ELSE f[k] \o xs[k + 1]
    BY <2>2, <2>4
  <2>6. g[k + 1] = IF k + 1 = 1 THEN ys[1] ELSE g[k] \o ys[k + 1]
    BY <2>1, <2>3, <2>4
  <2>7. k + 1 = 1 \/ k \in 1..m
    OBVIOUS
  <2>8. xs[1] = ys[1]
    OBVIOUS
  <2> QED BY <1>2, <2>1, <2>5, <2>6, <2>7, <2>8
<1> HIDE DEF S
<1>3. Nat \subseteq S
  BY <1>1, <1>2, Induction
<1> QED BY <1>3 DEF S

\* What FlattenSeq is, by its function.
LEMMA JoinedBy ==
  ASSUME NEW T, NEW xs \in Seq(T)
  PROVE  \E f : Flattens(f, xs, Len(xs)) /\ Joined(xs) = IF Len(xs) = 0 THEN xs ELSE f[Len(xs)]
<1> DEFINE f == CHOOSE f : f = [i \in 1..Len(xs) |-> IF i = 1 THEN xs[i] ELSE f[i - 1] \o xs[i]]
<1>1. Joined(xs) = IF Len(xs) = 0 THEN xs ELSE f[Len(xs)]
  BY DEF Joined, FlattenSeq
<1>2. PICK g : Flattens(g, xs, Len(xs))
  BY FlattensExists
<1>3. g = [i \in 1..Len(xs) |-> IF i = 1 THEN xs[i] ELSE g[i - 1] \o xs[i]]
  BY <1>2 DEF Flattens
<1>4. f = [i \in 1..Len(xs) |-> IF i = 1 THEN xs[i] ELSE f[i - 1] \o xs[i]]
  BY <1>3
<1>5. Flattens(f, xs, Len(xs))
  BY ZenonT(40), <1>4 DEF Flattens
<1> QED BY <1>1, <1>5

\* No texts are joined to none.
LEMMA JoinedNone == Joined(<< >>) = << >>
BY DEF Joined, FlattenSeq

\* Joining one text more appends it.
LEMMA JoinedAppend ==
  ASSUME NEW T, NEW xs \in Seq(Seq(T)), NEW x \in Seq(T)
  PROVE  Joined(Append(xs, x)) = Joined(xs) \o x
<1> DEFINE n == Len(xs)  ys == Append(xs, x)
<1>1. n \in Nat /\ ys \in Seq(Seq(T)) /\ Len(ys) = n + 1 /\ ys[n + 1] = x
      /\ \A i \in 1..n : ys[i] = xs[i]
  OBVIOUS
<1>2. PICK f : Flattens(f, xs, n) /\ Joined(xs) = IF n = 0 THEN xs ELSE f[n]
  BY JoinedBy
<1>3. PICK g : Flattens(g, ys, n + 1) /\ Joined(ys) = IF n + 1 = 0 THEN ys ELSE g[n + 1]
  BY <1>1, JoinedBy
<1>4. \A i \in 1..n : f[i] = g[i]
  <2> HIDE DEF n, ys
  <2>1. n <= n + 1 /\ n + 1 \in Nat /\ \A i \in 1..n : xs[i] = ys[i]
    BY <1>1
  <2>2. Flattens(f, xs, n) /\ Flattens(g, ys, n + 1)
    BY <1>2, <1>3
  <2>3. n \in Nat
    BY <1>1
  <2> QED BY ONLY <2>1, <2>2, <2>3, FlattensAgree
<1>5. g[n + 1] = IF n + 1 = 1 THEN ys[1] ELSE g[n] \o ys[n + 1]
  <2>1. \A i \in 1..(n + 1) : g[i] = IF i = 1 THEN ys[1] ELSE g[i - 1] \o ys[i]
    BY <1>3 DEF Flattens
  <2>2. n + 1 \in 1..(n + 1) /\ (n + 1) - 1 = n
    BY <1>1
  <2> QED BY <2>1, <2>2
<1>6. CASE n = 0
  <2>1. xs = << >> /\ << >> \o x = x
    BY <1>6
  <2>2. Joined(xs) = << >>
    BY <1>2, <1>6, <2>1
  <2> QED BY <1>1, <1>3, <1>5, <1>6, <2>1, <2>2
<1>7. CASE n # 0
  <2>1. g[n] = f[n] /\ Joined(xs) = f[n]
    BY <1>1, <1>2, <1>4, <1>7
  <2> QED BY <1>1, <1>3, <1>5, <1>7, <2>1
<1> QED BY <1>6, <1>7

\* Texts are joined to a text.
LEMMA JoinedType ==
  ASSUME NEW T, NEW xs \in Seq(Seq(T))
  PROVE  Joined(xs) \in Seq(T)
<1> DEFINE S == {r \in Seq(Seq(T)) : Joined(r) \in Seq(T)}
<1>1. << >> \in S
  <2>1. << >> \in Seq(Seq(T)) /\ << >> \in Seq(T)
    BY EmptySeq
  <2> QED BY <2>1, JoinedNone
<1>2. ASSUME NEW r \in Seq(Seq(T)), NEW x \in Seq(T), r \in S PROVE Append(r, x) \in S
  <2>1. Append(r, x) \in Seq(Seq(T))
    BY AppendProperties
  <2>2. Joined(r) \in Seq(T) /\ Joined(Append(r, x)) = Joined(r) \o x
    BY <1>2, JoinedAppend
  <2>3. Joined(r) \o x \in Seq(T)
    BY <2>2, ConcatProperties
  <2> QED BY <2>1, <2>2, <2>3
<1> HIDE DEF S
<1>3. Seq(Seq(T)) \subseteq S
  BY <1>1, <1>2, SeqInduction
<1> QED BY <1>3 DEF S

\* What is selected of texts that are joined.
LEMMA JoinedSel ==
  ASSUME NEW T, NEW xs \in Seq(Seq(T)), NEW Q
  PROVE  /\ [k \in DOMAIN xs |-> Sel(xs[k], Q)] \in Seq(Seq(T))
         /\ Sel(Joined(xs), Q) = Joined([k \in DOMAIN xs |-> Sel(xs[k], Q)])
<1> DEFINE Sels(r) == [k \in DOMAIN r |-> Sel(r[k], Q)]
           S == {r \in Seq(Seq(T)) : Sels(r) \in Seq(Seq(T)) /\ Sel(Joined(r), Q) = Joined(Sels(r))}
<1>1. << >> \in S
  <2>1. << >> \in Seq(Seq(T)) /\ Sels(<< >>) = << >>
    BY EmptySeq
  <2> QED BY <2>1, JoinedNone, SelNone
<1>2. ASSUME NEW r \in Seq(Seq(T)), NEW x \in Seq(T), r \in S PROVE Append(r, x) \in S
  <2>1. Append(r, x) \in Seq(Seq(T))
    BY AppendProperties
  <2>2. Sel(x, Q) \in Seq(T)
    BY SelType
  <2>3. Sels(Append(r, x)) = Append(Sels(r), Sel(x, Q))
    <3> DEFINE n == Len(r)
    <3>1. Len(Append(r, x)) = n + 1 /\ DOMAIN Append(r, x) = 1..(n + 1) /\ DOMAIN r = 1..n
          /\ n \in Nat /\ \A k \in 1..(n + 1) : Append(r, x)[k] = IF k = n + 1 THEN x ELSE r[k]
      OBVIOUS
    <3>2. Sels(r) \in Seq(Seq(T)) /\ Len(Sels(r)) = n
      BY <1>2, <3>1
    <3> HIDE DEF n
    <3>3. Append(Sels(r), Sel(x, Q)) = [k \in 1..(n + 1) |-> IF k = n + 1 THEN Sel(x, Q) ELSE Sels(r)[k]]
      BY <3>2, <2>2, <3>1
    <3> QED BY <3>1, <3>3
  <2>4. Sels(r) \in Seq(Seq(T)) /\ Sel(Joined(r), Q) = Joined(Sels(r))
    BY <1>2
  <2> HIDE DEF Sels
  <2>5. Append(Sels(r), Sel(x, Q)) \in Seq(Seq(T))
    BY <2>2, <2>4, AppendProperties
  <2>6. Joined(Append(Sels(r), Sel(x, Q))) = Joined(Sels(r)) \o Sel(x, Q)
    BY <2>2, <2>4, JoinedAppend
  <2>7. Joined(r) \in Seq(T) /\ Joined(Append(r, x)) = Joined(r) \o x
    BY JoinedAppend, JoinedType
  <2>8. Sel(Joined(r) \o x, Q) = Sel(Joined(r), Q) \o Sel(x, Q)
    BY <2>7, SelConcat
  <2> QED BY <2>1, <2>3, <2>4, <2>5, <2>6, <2>7, <2>8
<1> HIDE DEF S
<1>3. Seq(Seq(T)) \subseteq S
  BY <1>1, <1>2, SeqInduction
<1> QED BY <1>3 DEF S

-----------------------------------------------------------------------------
\* A text is what is before the first cut and then the pieces.
LEMMA Pieces ==
  ASSUME NEW T, NEW text \in Seq(T), NEW cuts \in SUBSET (1..Len(text))
  PROVE  /\ Cut(text, cuts) \in Seq(Seq(T)) /\ Len(Cut(text, cuts)) = Cardinality(cuts)
         /\ Cardinality(cuts) \in Nat
         /\ cuts # {} => /\ InOrder(cuts)[1] \in cuts
                         /\ \A i \in cuts : InOrder(cuts)[1] <= i
                         /\ Before(text, cuts) = SubSeq(text, 1, InOrder(cuts)[1] - 1)
                         /\ Joined(Cut(text, cuts)) = SubSeq(text, InOrder(cuts)[1], Len(text))
         /\ Before(text, cuts) \in Seq(T)
         /\ text = Before(text, cuts) \o Joined(Cut(text, cuts))
         /\ cuts # {} => Cut(text, cuts) # << >>
         /\ cuts = {} => Cut(text, cuts) = << >>
<1> DEFINE N == Cardinality(cuts)  at == InOrder(cuts)  m == Len(text)
           end(k) == IF k = N THEN m ELSE at[k + 1] - 1
           piece(k) == SubSeq(text, at[k], end(k))
           Q(k) == [j \in 1..k |-> piece(j)]
<1>0. m \in Nat /\ DOMAIN text = 1..m
  OBVIOUS
<1>1. Positions(cuts)
  BY <1>0, Few
<1>2. N \in Nat /\ at \in [1..N -> cuts]
      /\ (\A k, l \in 1..N : k < l => at[k] < at[l])
      /\ (\A i \in cuts : \E k \in 1..N : at[k] = i)
  BY <1>1, Ranks, Ordered
<1>3. \A k \in 1..N : at[k] \in cuts /\ at[k] \in 1..m
  BY <1>2
<1>4. \A k \in 1..N : end(k) \in (at[k] - 1)..m
  <2> TAKE k \in 1..N
  <2>1. CASE k = N
    BY <2>1, <1>0, <1>3
  <2>2. CASE k # N
    <3>1. k + 1 \in 1..N /\ k < k + 1
      BY <2>2, <1>2
    <3>2. at[k] < at[k + 1] /\ at[k + 1] \in 1..m /\ at[k] \in 1..m
      BY <3>1, <1>2, <1>3
    <3>3. end(k) = at[k + 1] - 1
      BY <2>2
    <3> HIDE DEF at
    <3> QED BY <3>2, <3>3, <1>0
  <2> QED BY <2>1, <2>2
<1>5. Cut(text, cuts) = Q(N)
  BY DEF Cut
<1> HIDE DEF N, at, m
<1>6. \A k \in 1..N : piece(k) \in Seq(T)
  <2> TAKE k \in 1..N
  <2>1. \A i \in at[k]..end(k) : text[i] \in T
    BY <1>0, <1>3, <1>4, ElementOfSeq DEF m
  <2>2. at[k] \in Int /\ end(k) \in Int
    BY <1>0, <1>3, <1>4
  <2> HIDE DEF end
  <2> QED BY <2>1, <2>2, SubSeqProperties
<1> HIDE DEF piece
<1>7. \A k \in 0..N : Q(k) \in Seq(Seq(T)) /\ Len(Q(k)) = k
  BY <1>2, <1>6
<1>8. \A k \in 0..(N - 1) : Q(k + 1) = Append(Q(k), piece(k + 1))
  <2> TAKE k \in 0..(N - 1)
  <2>1. k \in 0..N /\ k + 1 \in 1..N /\ k + 1 \in 0..N
    BY <1>2
  <2>2. Q(k) \in Seq(Seq(T)) /\ Len(Q(k)) = k /\ piece(k + 1) \in Seq(T)
        /\ Q(k + 1) \in Seq(Seq(T)) /\ Len(Q(k + 1)) = k + 1
    BY <2>1, <1>6, <1>7
  <2>3. Append(Q(k), piece(k + 1)) \in Seq(Seq(T)) /\ Len(Append(Q(k), piece(k + 1))) = k + 1
    BY <2>2
  <2>4. \A j \in 1..(k + 1) : Q(k + 1)[j] = Append(Q(k), piece(k + 1))[j]
    BY <2>1, <2>2
  <2> HIDE DEF Q
  <2> QED BY <2>2, <2>3, <2>4, SeqEqual
<1>9. ASSUME cuts # {}
      PROVE  N # 0 /\ at[1] \in cuts /\ at[1] \in 1..m /\ \A i \in cuts : at[1] <= i
  <2>0. PICK c \in cuts : TRUE
    BY <1>9
  <2>1. N # 0 /\ 1 \in 1..N
    BY <2>0, <1>2
  <2>2. \A i \in cuts : at[1] <= i
    <3> TAKE i \in cuts
    <3>1. PICK k \in 1..N : at[k] = i
      BY <1>2
    <3>2. k = 1 \/ 1 < k
      BY <2>1
    <3>3. at[1] \in 1..m /\ at[k] \in 1..m
      BY <2>1, <1>3
    <3> QED BY <3>1, <3>2, <3>3, <2>1, <1>2
  <2> QED BY <2>1, <2>2, <1>3
<1>10. ASSUME cuts # {} PROVE Joined(Q(N)) = SubSeq(text, at[1], m)
  <2> DEFINE S == {k \in Nat : k \in 0..N => Joined(Q(k)) = SubSeq(text, at[1], IF k = 0 THEN at[1] - 1 ELSE end(k))}
  <2>1. 0 \in S
    <3>1. Q(0) = << >>
      OBVIOUS
    <3>2. SubSeq(text, at[1], at[1] - 1) = << >>
      BY <1>9, <1>10, SubSeqEmpty
    <3>3. 0 \in Nat
      OBVIOUS
    <3> QED BY <3>1, <3>2, <3>3, JoinedNone
  <2>2. ASSUME NEW k \in Nat, k \in S PROVE k + 1 \in S
    <3> SUFFICES ASSUME k + 1 \in 0..N
                 PROVE  Joined(Q(k + 1)) = SubSeq(text, at[1], end(k + 1))
      OBVIOUS
    <3>1. k \in 0..N /\ k \in 0..(N - 1) /\ k + 1 \in 1..N
      BY <1>2
    <3>2. Q(k) \in Seq(Seq(T)) /\ piece(k + 1) \in Seq(T) /\ Q(k + 1) = Append(Q(k), piece(k + 1))
      BY <3>1, <1>6, <1>7, <1>8
    <3>3. Joined(Q(k)) = SubSeq(text, at[1], at[k + 1] - 1)
      <4>1. k = 0 => at[k + 1] - 1 = at[1] - 1
        OBVIOUS
      <4>2. k # 0 => end(k) = at[k + 1] - 1
        BY <3>1, <1>2
      <4> QED BY <2>2, <3>1, <4>1, <4>2
    <3> HIDE DEF Q, end
    <3>4. Joined(Q(k + 1)) = SubSeq(text, at[1], at[k + 1] - 1) \o piece(k + 1)
      BY <3>2, <3>3, JoinedAppend
    <3>5. at[1] \in 1..m /\ at[k + 1] \in 1..m /\ at[1] <= at[k + 1]
          /\ end(k + 1) \in (at[k + 1] - 1)..m
      BY <1>3, <1>4, <1>9, <1>10, <3>1
    <3>6. /\ at[1] \in 1..(m + 1) /\ at[k + 1] - 1 \in (at[1] - 1)..m
          /\ end(k + 1) \in (at[k + 1] - 1)..m /\ (at[k + 1] - 1) + 1 = at[k + 1]
      BY <3>5, <1>0
    <3>7. SubSeq(text, at[1], at[k + 1] - 1) \o SubSeq(text, (at[k + 1] - 1) + 1, end(k + 1))
            = SubSeq(text, at[1], end(k + 1))
      BY <3>6, ConcatAdjacentSubSeq DEF m
    <3> QED BY <3>4, <3>6, <3>7 DEF piece
  <2> HIDE DEF S
  <2>3. N \in S
    BY <2>1, <2>2, <1>2, Induction
  <2>4. N \in 0..N /\ N # 0 /\ end(N) = m
    BY <1>2, <1>9, <1>10
  <2> HIDE DEF Q, end
  <2> QED BY <2>3, <2>4 DEF S
<1>11. Before(text, cuts) = IF cuts = {} THEN text ELSE SubSeq(text, 1, at[1] - 1)
  BY DEF Before, at
<1>12. cuts = {} => N = 0 /\ Q(N) = << >>
  <2>1. cuts = {} => N = 0
    BY NonePositioned DEF N
  <2> QED BY <2>1
<1>13. Before(text, cuts) \in Seq(T) /\ text = Before(text, cuts) \o Joined(Q(N))
  <2>1. CASE cuts = {}
    <3>1. Joined(Q(N)) = << >>
      BY <1>12, <2>1, JoinedNone
    <3> HIDE DEF Q
    <3> QED BY <2>1, <1>11, <3>1
  <2>2. CASE cuts # {}
    <3>1. at[1] \in 1..m /\ Joined(Q(N)) = SubSeq(text, at[1], m)
      BY <2>2, <1>9, <1>10
    <3>2. /\ 1 \in 1..(m + 1) /\ at[1] - 1 \in (1 - 1)..m /\ m \in (at[1] - 1)..m
          /\ (at[1] - 1) + 1 = at[1]
      BY <3>1, <1>0
    <3>3. SubSeq(text, 1, at[1] - 1) \o SubSeq(text, (at[1] - 1) + 1, m) = SubSeq(text, 1, m)
      BY <3>2, ConcatAdjacentSubSeq DEF m
    <3>4. SubSeq(text, 1, m) = text
      BY SubSeqFull DEF m
    <3>5. SubSeq(text, 1, at[1] - 1) \in Seq(T)
      <4>1. \A i \in 1..(at[1] - 1) : text[i] \in T
        BY <3>2, <1>0, ElementOfSeq DEF m
      <4>2. 1 \in Int /\ at[1] - 1 \in Int
        BY <3>2
      <4> QED BY <4>1, <4>2, SubSeqProperties
    <3> HIDE DEF Q
    <3> QED BY <2>2, <3>1, <3>2, <3>3, <3>4, <3>5, <1>11
  <2> QED BY <2>1, <2>2
<1>14. cuts # {} => Q(N) # << >>
  <2>1. cuts # {} => N # 0 /\ Len(Q(N)) = N
    BY <1>2, <1>7, <1>9
  <2> QED BY <2>1
<1>15. Q(N) \in Seq(Seq(T)) /\ Len(Q(N)) = N
  BY <1>7, <1>2
<1> HIDE DEF Q
<1> QED BY <1>2, <1>5, <1>9, <1>10, <1>11, <1>12, <1>13, <1>14, <1>15 DEF N, at, m

-----------------------------------------------------------------------------
\* What the elements of a sequence carry, joined.
Texts(f, os) == Joined([k \in DOMAIN os |-> f[os[k]]])
Carries(f, R, T) == f \in [R -> Seq(T)]

\* What the parts of a sequence carry is a sequence of the carried type.
LEMMA TextsType ==
  ASSUME NEW T, NEW R, NEW f, Carries(f, R, T), NEW os \in Seq(R)
  PROVE  /\ [k \in DOMAIN os |-> f[os[k]]] \in Seq(Seq(T)) /\ Texts(f, os) \in Seq(T)
         /\ Len([k \in DOMAIN os |-> f[os[k]]]) = Len(os)
<1>1. DOMAIN os = 1..Len(os) /\ Len(os) \in Nat /\ \A k \in 1..Len(os) : os[k] \in R
  OBVIOUS
<1>2. \A k \in 1..Len(os) : f[os[k]] \in Seq(T)
  BY <1>1 DEF Carries
<1>3. [k \in DOMAIN os |-> f[os[k]]] \in Seq(Seq(T)) /\ Len([k \in DOMAIN os |-> f[os[k]]]) = Len(os)
  BY <1>1, <1>2
<1> QED BY <1>3, JoinedType DEF Texts

\* No parts carry nothing.
LEMMA TextsNone == ASSUME NEW f PROVE Texts(f, << >>) = << >>
<1>1. [k \in DOMAIN << >> |-> f[<< >>[k]]] = << >>
  OBVIOUS
<1> QED BY <1>1, JoinedNone DEF Texts

\* One part more carries its own text after the others.
LEMMA TextsAppend ==
  ASSUME NEW T, NEW R, NEW f, Carries(f, R, T), NEW os \in Seq(R), NEW o \in R
  PROVE  Texts(f, Append(os, o)) = Texts(f, os) \o f[o]
<1> DEFINE F(r) == [k \in DOMAIN r |-> f[r[k]]]  n == Len(os)
<1>1. Append(os, o) \in Seq(R) /\ Len(Append(os, o)) = n + 1 /\ n \in Nat
      /\ \A k \in 1..(n + 1) : Append(os, o)[k] = IF k = n + 1 THEN o ELSE os[k]
  OBVIOUS
<1>t. \A r \in Seq(R) : F(r) \in Seq(Seq(T)) /\ Len(F(r)) = Len(r)
  <2> TAKE r \in Seq(R)
  <2>1. Carries(f, R, T) /\ r \in Seq(R)
    OBVIOUS
  <2> QED BY ONLY <2>1, TextsType
<1>2. /\ F(os) \in Seq(Seq(T)) /\ Len(F(os)) = n /\ f[o] \in Seq(T)
      /\ F(Append(os, o)) \in Seq(Seq(T)) /\ Len(F(Append(os, o))) = n + 1
  <2>1. f[o] \in Seq(T)
    BY DEF Carries
  <2> HIDE DEF F
  <2> QED BY <1>1, <1>t, <2>1
<1>3. Append(F(os), f[o]) \in Seq(Seq(T)) /\ Len(Append(F(os), f[o])) = n + 1
      /\ \A k \in 1..(n + 1) : Append(F(os), f[o])[k] = IF k = n + 1 THEN f[o] ELSE F(os)[k]
  BY <1>1, <1>2
<1>4. \A k \in 1..(n + 1) : F(Append(os, o))[k] = IF k = n + 1 THEN f[o] ELSE F(os)[k]
  BY <1>1
<1>5. F(Append(os, o)) = Append(F(os), f[o])
  <2> HIDE DEF F, n
  <2>1. Len(F(Append(os, o))) = n + 1
    BY <1>2
  <2>2. \A k \in 1..Len(F(Append(os, o))) : F(Append(os, o))[k] = Append(F(os), f[o])[k]
    BY <1>3, <1>4, <2>1
  <2> QED BY <1>2, <1>3, <2>2, SeqEqual
<1>6. Joined(Append(F(os), f[o])) = Joined(F(os)) \o f[o]
  <2> HIDE DEF F
  <2> QED BY <1>2, JoinedAppend
<1> QED BY <1>5, <1>6 DEF Texts

\* Two sequences of parts carry the one and then the other.
LEMMA TextsConcat ==
  ASSUME NEW T, NEW R, NEW f, Carries(f, R, T), NEW os \in Seq(R), NEW ps \in Seq(R)
  PROVE  Texts(f, os \o ps) = Texts(f, os) \o Texts(f, ps)
<1>a. \A r \in Seq(R), x \in R : Texts(f, Append(r, x)) = Texts(f, r) \o f[x]
  <2> TAKE r \in Seq(R), x \in R
  <2>1. Carries(f, R, T) /\ r \in Seq(R) /\ x \in R
    OBVIOUS
  <2> QED BY ONLY <2>1, TextsAppend
<1>t. \A r \in Seq(R) : Texts(f, r) \in Seq(T)
  <2> TAKE r \in Seq(R)
  <2>1. Carries(f, R, T) /\ r \in Seq(R)
    OBVIOUS
  <2> QED BY ONLY <2>1, TextsType
<1>k. \A u, v, w \in Seq(T) : (u \o v) \o w = u \o (v \o w)
  BY ConcatAssociative
<1> DEFINE S == {r \in Seq(R) : Texts(f, os \o r) = Texts(f, os) \o Texts(f, r)}
<1>1. << >> \in S
  <2>1. << >> \in Seq(R) /\ os \o << >> = os /\ Texts(f, << >>) = << >>
    BY EmptySeq, ConcatEmptySeq, TextsNone
  <2>2. Texts(f, os) \o << >> = Texts(f, os)
    BY <1>t, ConcatEmptySeq
  <2> QED BY <2>1, <2>2
<1>2. ASSUME NEW r \in Seq(R), NEW x \in R, r \in S PROVE Append(r, x) \in S
  <2>1. os \o Append(r, x) = Append(os \o r, x) /\ os \o r \in Seq(R) /\ Append(r, x) \in Seq(R)
    OBVIOUS
  <2>2. Texts(f, os) \in Seq(T) /\ Texts(f, r) \in Seq(T) /\ f[x] \in Seq(T)
    BY <1>t DEF Carries
  <2>3. Texts(f, Append(os \o r, x)) = Texts(f, os \o r) \o f[x]
    BY <2>1, <1>a
  <2>4. Texts(f, Append(r, x)) = Texts(f, r) \o f[x]
    BY <1>a
  <2>5. (Texts(f, os) \o Texts(f, r)) \o f[x] = Texts(f, os) \o (Texts(f, r) \o f[x])
    BY <1>k, <2>2
  <2> QED BY <1>2, <2>1, <2>3, <2>4, <2>5
<1> HIDE DEF S
<1>3. Seq(R) \subseteq S
  BY <1>1, <1>2, SeqInduction
<1> QED BY <1>3 DEF S

\* Parts that are joined carry what they carry before.
LEMMA TextsJoined ==
  ASSUME NEW T, NEW R, NEW f, Carries(f, R, T), NEW xs \in Seq(Seq(R))
  PROVE  /\ [n \in DOMAIN xs |-> Texts(f, xs[n])] \in Seq(Seq(T))
         /\ Texts(f, Joined(xs)) = Joined([n \in DOMAIN xs |-> Texts(f, xs[n])])
<1>c. \A r, s \in Seq(R) : Texts(f, r \o s) = Texts(f, r) \o Texts(f, s)
  <2> TAKE r, s \in Seq(R)
  <2>1. Carries(f, R, T) /\ r \in Seq(R) /\ s \in Seq(R)
    OBVIOUS
  <2> QED BY ONLY <2>1, TextsConcat
<1>t. \A r \in Seq(R) : Texts(f, r) \in Seq(T)
  <2> TAKE r \in Seq(R)
  <2>1. Carries(f, R, T) /\ r \in Seq(R)
    OBVIOUS
  <2> QED BY ONLY <2>1, TextsType
<1> DEFINE g == [x \in Seq(R) |-> Texts(f, x)]
           S == {r \in Seq(Seq(R)) : Texts(f, Joined(r)) = Texts(g, r)}
<1>0. g \in [Seq(R) -> Seq(T)] /\ Carries(g, Seq(R), T)
  BY <1>t DEF Carries
<1> HIDE DEF g, S
<1>a. \A r \in Seq(Seq(R)), x \in Seq(R) : Texts(g, Append(r, x)) = Texts(g, r) \o g[x]
  <2> TAKE r \in Seq(Seq(R)), x \in Seq(R)
  <2>1. Carries(g, Seq(R), T) /\ r \in Seq(Seq(R)) /\ x \in Seq(R)
    BY <1>0
  <2> QED BY ONLY <2>1, TextsAppend
<1> USE DEF S
<1>1. << >> \in S
  <2>1. << >> \in Seq(Seq(R))
    BY EmptySeq
  <2> QED BY <2>1, JoinedNone, TextsNone
<1>2. ASSUME NEW r \in Seq(Seq(R)), NEW x \in Seq(R), r \in S PROVE Append(r, x) \in S
  <2>1. Append(r, x) \in Seq(Seq(R))
    BY AppendProperties
  <2>2. Joined(Append(r, x)) = Joined(r) \o x /\ Joined(r) \in Seq(R)
    BY JoinedAppend, JoinedType
  <2>3. Texts(f, Joined(r) \o x) = Texts(f, Joined(r)) \o Texts(f, x)
    BY <2>2, <1>c
  <2>4. Texts(g, Append(r, x)) = Texts(g, r) \o g[x]
    BY <1>a
  <2>5. g[x] = Texts(f, x)
    BY DEF g
  <2> QED BY <1>2, <2>1, <2>2, <2>3, <2>4, <2>5
<1> HIDE DEF S
<1>3. Seq(Seq(R)) \subseteq S
  BY <1>1, <1>2, SeqInduction
<1>4. Texts(f, Joined(xs)) = Texts(g, xs)
  BY <1>3 DEF S
<1>5. [n \in DOMAIN xs |-> Texts(f, xs[n])] = [n \in DOMAIN xs |-> g[xs[n]]]
  <2>1. \A n \in DOMAIN xs : xs[n] \in Seq(R)
    OBVIOUS
  <2>2. \A n \in DOMAIN xs : Texts(f, xs[n]) = g[xs[n]]
    BY <2>1 DEF g
  <2> QED BY <2>2
<1>6. [n \in DOMAIN xs |-> g[xs[n]]] \in Seq(Seq(T))
  <2>1. DOMAIN xs = 1..Len(xs) /\ Len(xs) \in Nat /\ \A n \in 1..Len(xs) : xs[n] \in Seq(R)
    OBVIOUS
  <2>2. \A n \in 1..Len(xs) : g[xs[n]] \in Seq(T)
    BY <2>1, <1>0
  <2> QED BY <2>1, <2>2
<1> QED BY <1>4, <1>5, <1>6 DEF Texts

\* Those that carry nothing of Q may be left out.
LEMMA TextsSel ==
  ASSUME NEW T, NEW R, NEW f, Carries(f, R, T), NEW os \in Seq(R), NEW Q, NEW W,
         \A o \in R : o \notin W => Sel(f[o], Q) = << >>
  PROVE  Sel(Texts(f, Sel(os, W)), Q) = Sel(Texts(f, os), Q)
<1>a. \A r \in Seq(R), x \in R : Texts(f, Append(r, x)) = Texts(f, r) \o f[x]
  <2> TAKE r \in Seq(R), x \in R
  <2>1. Carries(f, R, T) /\ r \in Seq(R) /\ x \in R
    OBVIOUS
  <2> QED BY ONLY <2>1, TextsAppend
<1>t. \A r \in Seq(R) : Texts(f, r) \in Seq(T)
  <2> TAKE r \in Seq(R)
  <2>1. Carries(f, R, T) /\ r \in Seq(R)
    OBVIOUS
  <2> QED BY ONLY <2>1, TextsType
<1>k. \A u, v \in Seq(T) : Sel(u \o v, Q) = Sel(u, Q) \o Sel(v, Q)
  BY SelConcat
<1> DEFINE S == {r \in Seq(R) : Sel(Texts(f, Sel(r, W)), Q) = Sel(Texts(f, r), Q)}
<1>1. << >> \in S
  BY EmptySeq, SelNone
<1>2. ASSUME NEW r \in Seq(R), NEW x \in R, r \in S PROVE Append(r, x) \in S
  <2>1. Append(r, x) \in Seq(R) /\ Sel(r, W) \in Seq(R)
    BY AppendProperties, SelType
  <2>2. Texts(f, Append(r, x)) = Texts(f, r) \o f[x] /\ Texts(f, r) \in Seq(T) /\ f[x] \in Seq(T)
        /\ Texts(f, Sel(r, W)) \in Seq(T)
    BY <2>1, <1>a, <1>t DEF Carries
  <2>3. Sel(Texts(f, Append(r, x)), Q) = Sel(Texts(f, r), Q) \o Sel(f[x], Q)
    BY <1>k, <2>2
  <2>4. CASE x \in W
    <3>1. Sel(Append(r, x), W) = Append(Sel(r, W), x)
      BY <2>4, SelAppend
    <3>2. Texts(f, Append(Sel(r, W), x)) = Texts(f, Sel(r, W)) \o f[x]
      BY <2>1, <1>a
    <3>3. Sel(Texts(f, Sel(r, W)) \o f[x], Q) = Sel(Texts(f, Sel(r, W)), Q) \o Sel(f[x], Q)
      BY <1>k, <2>2
    <3> QED BY <1>2, <2>1, <2>3, <3>1, <3>2, <3>3
  <2>5. CASE x \notin W
    <3>1. Sel(Append(r, x), W) = Sel(r, W)
      BY <2>5, SelAppend
    <3>2. Sel(f[x], Q) = << >> /\ Sel(Texts(f, r), Q) \in Seq(T)
      BY <2>2, <2>5, SelType
    <3>3. Sel(Texts(f, r), Q) \o << >> = Sel(Texts(f, r), Q)
      BY <3>2, ConcatEmptySeq
    <3> QED BY <1>2, <2>1, <2>3, <3>1, <3>2, <3>3
  <2> QED BY <2>4, <2>5
<1> HIDE DEF S
<1>3. Seq(R) \subseteq S
  BY <1>1, <1>2, SeqInduction
<1> QED BY <1>3 DEF S

\* Everything or nothing is selected if all or none is in the set.
LEMMA SelAllOrNone ==
  ASSUME NEW T, NEW s \in Seq(T), NEW Q
  PROVE  /\ T \subseteq Q => Sel(s, Q) = s
         /\ (\A x \in T : x \notin Q) => Sel(s, Q) = << >>
<1> DEFINE S == {r \in Seq(T) : /\ T \subseteq Q => Sel(r, Q) = r
                                /\ (\A x \in T : x \notin Q) => Sel(r, Q) = << >>}
<1>1. << >> \in S
  BY EmptySeq, SelNone
<1>2. ASSUME NEW r \in Seq(T), NEW x \in T, r \in S PROVE Append(r, x) \in S
  <2>1. Append(r, x) \in Seq(T)
    BY AppendProperties
  <2>2. Sel(Append(r, x), Q) = IF x \in Q THEN Append(Sel(r, Q), x) ELSE Sel(r, Q)
    BY SelAppend
  <2> QED BY <1>2, <2>1, <2>2
<1> HIDE DEF S
<1>3. Seq(T) \subseteq S
  BY <1>1, <1>2, SeqInduction
<1> QED BY <1>3 DEF S

-----------------------------------------------------------------------------
(* The functions of LegalText: parser.py, chunker.py *)

Parses(f, page, n) == f = [k \in 0..n |-> IF k = 0 THEN Unread ELSE Read(f[k - 1], page[k])]

\* The function by which ParseLaw is defined exists.
LEMMA ParsesExists ==
  ASSUME NEW page, NEW n \in Nat
  PROVE  \E f : Parses(f, page, n)
<1> DEFINE S == {m \in Nat : \E f : Parses(f, page, m)}
<1>1. 0 \in S
  <2>1. Parses([k \in 0..0 |-> Unread], page, 0)
    BY DEF Parses
  <2> QED BY <2>1
<1>2. ASSUME NEW m \in Nat, m \in S PROVE m + 1 \in S
  <2>1. PICK f : Parses(f, page, m)
    BY <1>2
  <2> DEFINE g == [k \in 0..(m + 1) |-> IF k <= m THEN f[k] ELSE Read(f[m], page[k])]
  <2>2. \A k \in 0..(m + 1) : g[k] = IF k = 0 THEN Unread ELSE Read(g[k - 1], page[k])
    <3> TAKE k \in 0..(m + 1)
    <3>1. CASE k <= m
      <4>1. f[k] = IF k = 0 THEN Unread ELSE Read(f[k - 1], page[k])
        BY <2>1, <3>1 DEF Parses
      <4>2. k # 0 => g[k - 1] = f[k - 1]
        BY <3>1
      <4> QED BY <4>1, <4>2, <3>1
    <3>2. CASE k = m + 1
      <4>1. g[k] = Read(f[m], page[k]) /\ g[k - 1] = f[m] /\ k # 0
        BY <3>2
      <4> QED BY <4>1
    <3> QED BY <3>1, <3>2
  <2>3. Parses(g, page, m + 1)
    BY <2>2 DEF Parses
  <2> QED BY <2>3
<1> HIDE DEF S
<1>3. n \in S
  BY <1>1, <1>2, Induction
<1> QED BY <1>3 DEF S

\* Parsing depends on the blocks read so far only.
LEMMA ParsesAgree ==
  ASSUME NEW p, NEW q, NEW f, NEW g, NEW m \in Nat, NEW n \in Nat, m <= n,
         Parses(f, p, m), Parses(g, q, n), \A i \in 1..m : p[i] = q[i]
  PROVE  \A i \in 0..m : f[i] = g[i]
<1> DEFINE S == {k \in Nat : k \in 0..m => f[k] = g[k]}
<1>1. 0 \in S
  BY DEF Parses
<1>2. ASSUME NEW k \in Nat, k \in S PROVE k + 1 \in S
  <2> SUFFICES ASSUME k + 1 \in 0..m PROVE f[k + 1] = g[k + 1]
    OBVIOUS
  <2>1. k + 1 \in 0..n /\ k \in 0..m /\ (k + 1) - 1 = k /\ p[k + 1] = q[k + 1] /\ k + 1 # 0
    OBVIOUS
  <2>2. f[k + 1] = Read(f[k], p[k + 1])
    BY <2>1 DEF Parses
  <2>3. g[k + 1] = Read(g[k], q[k + 1])
    BY <2>1 DEF Parses
  <2> QED BY <1>2, <2>1, <2>2, <2>3
<1> HIDE DEF S
<1>3. Nat \subseteq S
  BY <1>1, <1>2, Induction
<1> QED BY <1>3 DEF S

\* What ParseLaw is, by its function.
LEMMA ParsedBy ==
  ASSUME NEW T, NEW page \in Seq(T)
  PROVE  \E f : Parses(f, page, Len(page)) /\ ParseLaw(page) = f[Len(page)]
<1> DEFINE law == CHOOSE law : law = [k \in 0..Len(page) |->
                               IF k = 0 THEN Unread ELSE Read(law[k - 1], page[k])]
<1>1. ParseLaw(page) = law[Len(page)]
  BY DEF ParseLaw
<1>2. PICK f : Parses(f, page, Len(page))
  BY ParsesExists
<1>3. f = [k \in 0..Len(page) |-> IF k = 0 THEN Unread ELSE Read(f[k - 1], page[k])]
  BY <1>2 DEF Parses
<1>4. law = [k \in 0..Len(page) |-> IF k = 0 THEN Unread ELSE Read(law[k - 1], page[k])]
  BY <1>3
<1>5. Parses(law, page, Len(page))
  BY <1>4 DEF Parses
<1> QED BY <1>1, <1>5

\* An empty page is parsed to nothing.
LEMMA ParseNone == ParseLaw(<< >>) = Unread
<1>1. << >> \in Seq({})
  BY EmptySeq
<1>2. PICK f : Parses(f, << >>, Len(<< >>)) /\ ParseLaw(<< >>) = f[Len(<< >>)]
  BY <1>1, ParsedBy
<1>3. Len(<< >>) = 0
  OBVIOUS
<1>4. f[0] = Unread
  BY <1>2, <1>3 DEF Parses
<1> QED BY <1>2, <1>3, <1>4

\* The parser reads one block after the other (parser.py, parse_law).
LEMMA ParseAppend ==
  ASSUME NEW T, NEW page \in Seq(T), NEW b \in T
  PROVE  ParseLaw(Append(page, b)) = Read(ParseLaw(page), b)
<1> DEFINE n == Len(page)  q == Append(page, b)
<1>1. n \in Nat /\ q \in Seq(T) /\ Len(q) = n + 1 /\ q[n + 1] = b
      /\ \A i \in 1..n : page[i] = q[i]
  OBVIOUS
<1> HIDE DEF q
<1>2. PICK f : Parses(f, page, n) /\ ParseLaw(page) = f[n]
  BY ParsedBy
<1>3. PICK g : Parses(g, q, n + 1) /\ ParseLaw(q) = g[n + 1]
  BY <1>1, ParsedBy
<1> HIDE DEF n
<1>4. f[n] = g[n]
  <2>1. n <= n + 1 /\ n + 1 \in Nat /\ n \in Nat /\ n \in 0..n
    BY <1>1
  <2>2. \A i \in 0..n : f[i] = g[i]
    BY <1>1, <1>2, <1>3, <2>1, ParsesAgree
  <2> QED BY <2>1, <2>2
<1>5. g[n + 1] = Read(g[n], q[n + 1])
  <2>1. n + 1 \in 0..(n + 1) /\ (n + 1) - 1 = n /\ n + 1 # 0
    BY <1>1
  <2> QED BY <1>3, <2>1 DEF Parses
<1> QED BY <1>1, <1>2, <1>3, <1>4, <1>5 DEF q

-----------------------------------------------------------------------------
Paragraphs == {b \in PageBlocks : b.kind = "paragraph"}
AllLabels == {b.label : b \in Paragraphs}
AllNums == {b.num : b \in PageBlocks}
AllTitles == {b.title : b \in PageBlocks} \cup {""}
AllCodes == {b.code : b \in PageBlocks}
ParsedArticles ==
  [num : AllNums, path : Seq(AllLabels), title : AllTitles, text : Seq(Paragraphs)]
ParsedRecitals == [num : Digits, text : Seq(Paragraphs)]
ParsedAnnexes == [code : AllCodes, title : AllTitles, text : {<< >>}]
Laws == [articles : Seq(ParsedArticles), recitals : Seq(ParsedRecitals),
         annexes : Seq(ParsedAnnexes), within : BOOLEAN]
\* A paragraph can be added to the last article.
Legible(law) == law \in Laws /\ (law.within => law.articles # << >>)

\* What one block does to a law that is read.
LEMMA ReadMarker ==
  ASSUME NEW law, Legible(law), NEW b \in PageBlocks, b.kind = "article_marker"
  PROVE  LET a == [num |-> b.num, path |-> << >>, title |-> b.title, text |-> << >>] IN
         /\ Legible(Read(law, b)) /\ a \in ParsedArticles
         /\ Read(law, b) = [law EXCEPT !.within = TRUE, !.articles = Append(@, a)]
<1> DEFINE a == [num |-> b.num, path |-> << >>, title |-> b.title, text |-> << >>]
<1>1. a \in ParsedArticles
  <2>1. << >> \in Seq(AllLabels) /\ << >> \in Seq(Paragraphs)
    BY EmptySeq
  <2>2. b.num \in AllNums /\ b.title \in AllTitles
    BY DEF AllNums, AllTitles
  <2> QED BY <2>1, <2>2 DEF ParsedArticles
<1>2. Read(law, b) = [law EXCEPT !.within = TRUE, !.articles = Append(@, a)]
  BY DEF Read, OpenArticle
<1> HIDE DEF a
<1>3. Append(law.articles, a) \in Seq(ParsedArticles) /\ Append(law.articles, a) # << >>
  BY <1>1, AppendProperties DEF Legible, Laws
<1>4. Legible([law EXCEPT !.within = TRUE, !.articles = Append(@, a)])
  BY <1>3 DEF Legible, Laws
<1> QED BY <1>1, <1>2, <1>4 DEF a

\* The title of an article changes no number and no text.
LEMMA ReadTitle ==
  ASSUME NEW law, Legible(law), NEW b \in PageBlocks, b.kind = "article_title"
  PROVE  /\ Legible(Read(law, b)) /\ Len(Read(law, b).articles) = Len(law.articles)
         /\ \A i \in 1..Len(law.articles) :
              /\ Read(law, b).articles[i].num = law.articles[i].num
              /\ Read(law, b).articles[i].text = law.articles[i].text
         /\ Read(law, b).within = law.within /\ Read(law, b).recitals = law.recitals
<1> DEFINE n == Len(law.articles)
<1>1. Read(law, b) = NameArticle(law, b)
  BY DEF Read
<1>2. CASE NameArticle(law, b) = law
  BY <1>1, <1>2
<1>3. CASE NameArticle(law, b) # law
  <2>1. /\ law.articles # << >>
        /\ NameArticle(law, b) = [law EXCEPT !.articles[n].title = b.title]
    BY <1>3 DEF NameArticle
  <2>2. law.articles \in Seq(ParsedArticles) /\ n \in Nat /\ n \in 1..n
    BY <2>1 DEF Legible, Laws
  <2>3. law.articles[n] \in ParsedArticles
    BY <2>2
  <2> DEFINE a == [law.articles[n] EXCEPT !.title = b.title]
             s == [law.articles EXCEPT ![n] = a]
  <2>4. a \in ParsedArticles /\ a.num = law.articles[n].num /\ a.text = law.articles[n].text
    <3>1. b.title \in AllTitles
      BY DEF AllTitles
    <3> QED BY <2>3, <3>1 DEF ParsedArticles
  <2>5. NameArticle(law, b) = [law EXCEPT !.articles = s]
    BY <2>1, <2>3
  <2> HIDE DEF a
  <2>6. s \in Seq(ParsedArticles) /\ Len(s) = n /\ \A i \in 1..n : s[i] = IF i = n THEN a ELSE law.articles[i]
    BY <2>2, <2>4, ExceptSeq
  <2>7. s # << >>
    BY <2>2, <2>6
  <2> HIDE DEF s
  <2>8. [law EXCEPT !.articles = s] \in Laws /\ [law EXCEPT !.articles = s].articles = s
        /\ [law EXCEPT !.articles = s].within = law.within
        /\ [law EXCEPT !.articles = s].recitals = law.recitals
    BY <2>6 DEF Legible, Laws
  <2> QED BY <1>1, <2>4, <2>5, <2>6, <2>7, <2>8 DEF Legible
<1> QED BY <1>2, <1>3

\* A paragraph within an article is appended to its text.
LEMMA ReadIntoArticle ==
  ASSUME NEW law, Legible(law), NEW b \in Paragraphs, law.within
  PROVE  LET n == Len(law.articles) IN
         /\ Legible(Read(law, b)) /\ Len(Read(law, b).articles) = n /\ n \in Nat \ {0}
         /\ Read(law, b).articles[n].text = Append(law.articles[n].text, b)
         /\ Read(law, b).articles[n].num = law.articles[n].num
         /\ \A i \in 1..(n - 1) : Read(law, b).articles[i] = law.articles[i]
         /\ Read(law, b).within /\ Read(law, b).recitals = law.recitals
<1> DEFINE n == Len(law.articles)
           path == IF b.label = "" \/ b.mark # 0 THEN law.articles[n].path
                   ELSE Append(law.articles[n].path, b.label)
           a == [law.articles[n] EXCEPT !.text = Append(@, b), !.path = path]
           s == [law.articles EXCEPT ![n] = a]
<1>1. b \in PageBlocks /\ b.kind = "paragraph"
  BY DEF Paragraphs
<1>2. law.articles \in Seq(ParsedArticles) /\ n \in Nat \ {0} /\ n \in 1..n
  BY DEF Legible, Laws
<1>3. law.articles[n] \in ParsedArticles
  BY <1>2
<1>4. path \in Seq(AllLabels)
  <2>1. law.articles[n].path \in Seq(AllLabels) /\ b.label \in AllLabels
    BY <1>3 DEF ParsedArticles, AllLabels
  <2> QED BY <2>1, AppendProperties
<1> HIDE DEF path
<1>5. Append(law.articles[n].text, b) \in Seq(Paragraphs)
  BY <1>3, AppendProperties DEF ParsedArticles
<1>6. /\ a \in ParsedArticles /\ a.text = Append(law.articles[n].text, b)
      /\ a.num = law.articles[n].num
  BY <1>3, <1>4, <1>5 DEF ParsedArticles
<1>7. Read(law, b) = [law EXCEPT !.articles = s]
  BY <1>1, <1>2, <1>3 DEF Read, AddToArticle, path
<1> HIDE DEF a
<1>8. s \in Seq(ParsedArticles) /\ Len(s) = n /\ \A i \in 1..n : s[i] = IF i = n THEN a ELSE law.articles[i]
  BY <1>2, <1>6, ExceptSeq
<1>9. s # << >>
  BY <1>2, <1>8
<1> HIDE DEF s
<1>10. [law EXCEPT !.articles = s] \in Laws /\ [law EXCEPT !.articles = s].articles = s
       /\ [law EXCEPT !.articles = s].within = law.within
       /\ [law EXCEPT !.articles = s].recitals = law.recitals
  BY <1>8 DEF Legible, Laws
<1> HIDE DEF n
<1>11. \A i \in 1..(n - 1) : s[i] = law.articles[i]
  BY <1>2, <1>8
<1> QED BY <1>2, <1>6, <1>7, <1>8, <1>9, <1>10, <1>11 DEF Legible, n

\* A paragraph outside of the articles opens a recital or is appended to one.
LEMMA ReadRecital ==
  ASSUME NEW law, Legible(law), NEW b \in Paragraphs, ~law.within
  PROVE  /\ Legible(Read(law, b)) /\ Read(law, b).articles = law.articles /\ ~Read(law, b).within
<1> DEFINE n == Len(law.recitals)
<1>1. b \in PageBlocks /\ b.kind = "paragraph" /\ Read(law, b) = AddRecital(law, b)
  BY DEF Paragraphs, Read, Legible, Laws
<1>2. law.recitals \in Seq(ParsedRecitals) /\ n \in Nat
  BY DEF Legible, Laws
<1>3. CASE b.label \in Digits /\ b.mark = 0
  <2> DEFINE r == [num |-> b.label, text |-> <<b>>]  s == Append(law.recitals, r)
  <2>1. r \in ParsedRecitals
    BY <1>3 DEF ParsedRecitals
  <2> HIDE DEF r
  <2>2. s \in Seq(ParsedRecitals)
    BY <1>2, <2>1, AppendProperties
  <2>3. AddRecital(law, b) = [law EXCEPT !.recitals = s]
    BY <1>3 DEF AddRecital, r
  <2> HIDE DEF s
  <2>4. [law EXCEPT !.recitals = s] \in Laws
        /\ [law EXCEPT !.recitals = s].within = law.within
        /\ [law EXCEPT !.recitals = s].articles = law.articles
    BY <2>2 DEF Legible, Laws
  <2> QED BY <1>1, <2>3, <2>4 DEF Legible
<1>4. CASE ~(b.label \in Digits /\ b.mark = 0) /\ law.recitals = << >>
  <2>1. AddRecital(law, b) = law
    BY <1>4 DEF AddRecital
  <2> QED BY <1>1, <2>1
<1>5. CASE ~(b.label \in Digits /\ b.mark = 0) /\ law.recitals # << >>
  <2>1. n \in 1..n /\ law.recitals[n] \in ParsedRecitals
    BY <1>2, <1>5
  <2> DEFINE r == [law.recitals[n] EXCEPT !.text = Append(@, b)]
             s == [law.recitals EXCEPT ![n] = r]
  <2>2. Append(law.recitals[n].text, b) \in Seq(Paragraphs)
    BY <2>1, AppendProperties DEF ParsedRecitals
  <2>3. r \in ParsedRecitals
    BY <2>1, <2>2 DEF ParsedRecitals
  <2>4. AddRecital(law, b) = [law EXCEPT !.recitals = s]
    BY <1>5, <2>1 DEF AddRecital
  <2> HIDE DEF r
  <2>5. s \in Seq(ParsedRecitals)
    BY <1>2, <2>1, <2>3, ExceptSeq
  <2> HIDE DEF s
  <2>6. [law EXCEPT !.recitals = s] \in Laws
        /\ [law EXCEPT !.recitals = s].within = law.within
        /\ [law EXCEPT !.recitals = s].articles = law.articles
    BY <2>5 DEF Legible, Laws
  <2> QED BY <1>1, <2>4, <2>6 DEF Legible
<1> QED BY <1>3, <1>4, <1>5

\* Annexes touch neither articles nor recitals; a marker closes the article.
LEMMA ReadAnnex ==
  ASSUME NEW law, Legible(law), NEW b \in PageBlocks, b.kind \in {"annex_marker", "annex_title"}
  PROVE  /\ Legible(Read(law, b)) /\ Read(law, b).articles = law.articles
         /\ Read(law, b).within = (law.within /\ b.kind = "annex_title")
         /\ Read(law, b).recitals = law.recitals
<1>1. law.annexes \in Seq(ParsedAnnexes)
  BY DEF Legible, Laws
<1>2. CASE b.kind = "annex_marker"
  <2> DEFINE x == [code |-> b.code, title |-> "", text |-> << >>]  s == Append(law.annexes, x)
  <2>1. b.code \in AllCodes /\ "" \in AllTitles
    BY DEF AllCodes, AllTitles
  <2>2. x \in ParsedAnnexes
    BY <2>1 DEF ParsedAnnexes
  <2>3. Read(law, b) = [law EXCEPT !.within = FALSE, !.annexes = s]
    BY <1>2 DEF Read, OpenAnnex
  <2> HIDE DEF x
  <2>4. s \in Seq(ParsedAnnexes)
    BY <1>1, <2>2, AppendProperties
  <2> HIDE DEF s
  <2> QED BY <1>2, <2>3, <2>4 DEF Legible, Laws
<1>3. CASE b.kind = "annex_title"
  <2>1. Read(law, b) = NameAnnex(law, b)
    BY <1>3 DEF Read
  <2>2. CASE law.annexes = << >>
    BY <1>3, <2>1, <2>2 DEF NameAnnex, Legible, Laws
  <2>3. CASE law.annexes # << >>
    <3> DEFINE n == Len(law.annexes)
    <3>1. n \in 1..n /\ law.annexes[n] \in ParsedAnnexes
      BY <1>1, <2>3
    <3> DEFINE x == [law.annexes[n] EXCEPT !.title = b.title]  s == [law.annexes EXCEPT ![n] = x]
    <3>2. b.title \in AllTitles
      BY DEF AllTitles
    <3>3. x \in ParsedAnnexes
      BY <3>1, <3>2 DEF ParsedAnnexes
    <3>4. NameAnnex(law, b) = [law EXCEPT !.annexes = s]
      BY <2>3, <3>1 DEF NameAnnex
    <3> HIDE DEF x
    <3>5. s \in Seq(ParsedAnnexes)
      BY <1>1, <3>1, <3>3, ExceptSeq
    <3> HIDE DEF s
    <3> QED BY <1>3, <2>1, <3>4, <3>5 DEF Legible, Laws
  <2> QED BY <2>2, <2>3
<1> QED BY <1>2, <1>3

\* The parser knows every kind of block.
LEMMA KindsOfBlocks == \A b \in PageBlocks : b.kind \in Kinds
BY EditionsAssumption

\* Whatever the page, what is parsed is a law.
LEMMA ParseIsLegible ==
  ASSUME NEW page \in Seq(PageBlocks)
  PROVE  Legible(ParseLaw(page))
<1> DEFINE S == {p \in Seq(PageBlocks) : Legible(ParseLaw(p))}
<1>1. << >> \in S
  <2>1. << >> \in Seq(PageBlocks) /\ << >> \in Seq(ParsedArticles) /\ << >> \in Seq(ParsedRecitals)
        /\ << >> \in Seq(ParsedAnnexes)
    BY EmptySeq
  <2>2. Legible(Unread)
    BY <2>1 DEF Legible, Laws, Unread
  <2> QED BY <2>1, <2>2, ParseNone
<1>2. ASSUME NEW p \in Seq(PageBlocks), NEW b \in PageBlocks, p \in S PROVE Append(p, b) \in S
  <2>1. Append(p, b) \in Seq(PageBlocks)
    BY AppendProperties
  <2>2. ParseLaw(Append(p, b)) = Read(ParseLaw(p), b)
    BY ParseAppend
  <2>3. Legible(ParseLaw(p)) /\ b.kind \in Kinds
    BY <1>2, KindsOfBlocks
  <2> DEFINE law == ParseLaw(p)
  <2> HIDE DEF law, S
  <2>4. Legible(law)
    BY <2>3 DEF law
  <2>5. Legible(Read(law, b))
    <3>1. CASE b.kind = "article_marker"
      BY <2>4, <3>1, ReadMarker
    <3>2. CASE b.kind = "article_title"
      BY <2>4, <3>2, ReadTitle
    <3>3. CASE b.kind = "paragraph"
      <4>1. b \in Paragraphs
        BY <3>3 DEF Paragraphs
      <4> QED BY <2>4, <4>1, ReadIntoArticle, ReadRecital
    <3>4. CASE b.kind \in {"annex_marker", "annex_title"}
      BY <2>4, <3>4, ReadAnnex
    <3> QED BY <2>3, <3>1, <3>2, <3>3, <3>4 DEF Kinds
  <2> QED BY <2>1, <2>2, <2>5 DEF law, S
<1> HIDE DEF S
<1>3. Seq(PageBlocks) \subseteq S
  BY <1>1, <1>2, SeqInduction
<1> QED BY <1>3 DEF S

\* The articles of a page have the numbers of its markers.
LEMMA ParsedNumbers ==
  ASSUME NEW page \in Seq(PageBlocks)
  PROVE  LET as == ParseLaw(page).articles IN
         /\ \A i \in 1..Len(as) : \E m \in DOMAIN page :
              page[m].kind = "article_marker" /\ page[m].num = as[i].num
         /\ NumberedOnce(page) => \A i, j \in 1..Len(as) : as[i].num = as[j].num => i = j
<1> DEFINE As(p) == ParseLaw(p).articles
           Marked(p) == \A i \in 1..Len(As(p)) : \E m \in DOMAIN p :
                          p[m].kind = "article_marker" /\ p[m].num = As(p)[i].num
           Once(p) == \A i, j \in 1..Len(As(p)) : As(p)[i].num = As(p)[j].num => i = j
           S == {p \in Seq(PageBlocks) : Marked(p) /\ (NumberedOnce(p) => Once(p))}
<1>1. << >> \in S
  <2>1. << >> \in Seq(PageBlocks) /\ Len(As(<< >>)) = 0
    BY EmptySeq, ParseNone DEF Unread
  <2> HIDE DEF As
  <2> QED BY <2>1
<1>2. ASSUME NEW p \in Seq(PageBlocks), NEW b \in PageBlocks, p \in S PROVE Append(p, b) \in S
  <2> DEFINE q == Append(p, b)  law == ParseLaw(p)  n == Len(p)
  <2>1. /\ q \in Seq(PageBlocks) /\ DOMAIN p = 1..n /\ DOMAIN q = 1..(n + 1) /\ n \in Nat
        /\ q[n + 1] = b /\ \A i \in 1..n : q[i] = p[i]
    BY AppendProperties
  <2>2. ParseLaw(q) = Read(law, b)
    BY ParseAppend
  <2>3. Legible(law) /\ b.kind \in Kinds
    BY ParseIsLegible, KindsOfBlocks
  <2>4. NumberedOnce(q) => NumberedOnce(p)
    <3>1. DOMAIN p \subseteq DOMAIN q
      BY <2>1
    <3> HIDE DEF q, n
    <3> QED BY <3>1, <2>1 DEF NumberedOnce
  <2>5. Marked(p) /\ (NumberedOnce(p) => Once(p))
    BY <1>2
  <2>6. As(p) = law.articles /\ As(q) = Read(law, b).articles
    BY <2>2
  <2> HIDE DEF law, As, q, n
  <2>7. As(p) \in Seq(ParsedArticles) /\ Len(As(p)) \in Nat
    BY <2>3, <2>6, LenProperties DEF Legible, Laws
  <2>8. CASE b.kind = "article_marker"
    <3> DEFINE a == [num |-> b.num, path |-> << >>, title |-> b.title, text |-> << >>]
               l == Len(As(p))
    <3>1. a \in ParsedArticles /\ As(q) = Append(As(p), a)
      <4>1. a \in ParsedArticles /\ Read(law, b) = [law EXCEPT !.within = TRUE, !.articles = Append(@, a)]
        BY <2>3, <2>8, ReadMarker
      <4>2. [law EXCEPT !.within = TRUE, !.articles = Append(@, a)].articles = Append(law.articles, a)
        BY <2>3 DEF Legible, Laws
      <4> QED BY <2>6, <4>1, <4>2
    <3>2. Len(As(q)) = l + 1 /\ As(q)[l + 1] = a /\ \A i \in 1..l : As(q)[i] = As(p)[i]
      <4> HIDE DEF a
      <4> QED BY <2>7, <3>1, AppendProperties
    <3>3. a.num = b.num
      OBVIOUS
    <3> HIDE DEF a, l
    <3>4. l \in Nat /\ \A i \in 1..(l + 1) : i \in 1..l \/ i = l + 1
      BY <2>7 DEF l
    <3>5. \A i \in 1..l : \E m \in 1..n : p[m].kind = "article_marker" /\ p[m].num = As(p)[i].num
      BY <2>1, <2>5 DEF l
    <3>6. ASSUME NEW i \in 1..(l + 1)
          PROVE  \E m \in 1..(n + 1) : q[m].kind = "article_marker" /\ q[m].num = As(q)[i].num
      <4>1. CASE i \in 1..l
        <5>1. PICK m \in 1..n : p[m].kind = "article_marker" /\ p[m].num = As(p)[i].num
          BY <4>1, <3>5
        <5>2. m \in 1..(n + 1) /\ q[m] = p[m]
          BY <2>1
        <5> QED BY <4>1, <5>1, <5>2, <3>2
      <4>2. CASE i = l + 1
        <5>1. n + 1 \in 1..(n + 1)
          BY <2>1
        <5> QED BY <4>2, <5>1, <2>1, <2>8, <3>2, <3>3
      <4> QED BY <3>4, <4>1, <4>2
    <3>7. Marked(q)
      BY <3>2, <3>6, <2>1
    <3>8. ASSUME NumberedOnce(q) PROVE Once(q)
      <4>1. \A i, j \in 1..l : As(p)[i].num = As(p)[j].num => i = j
        BY <2>4, <2>5, <3>8 DEF l
      <4>2. \A i \in 1..l : As(p)[i].num # b.num
        <5> SUFFICES ASSUME NEW i \in 1..l, As(p)[i].num = b.num PROVE FALSE
          OBVIOUS
        <5>1. PICK m \in 1..n : p[m].kind = "article_marker" /\ p[m].num = As(p)[i].num
          BY <3>5
        <5>2. m \in DOMAIN q /\ n + 1 \in DOMAIN q /\ m # n + 1 /\ q[m] = p[m]
          BY <2>1
        <5> QED BY <5>1, <5>2, <3>8, <2>1, <2>8 DEF NumberedOnce
      <4> QED BY <4>1, <4>2, <3>2, <3>3, <3>4
    <3> QED BY <2>1, <3>7, <3>8 DEF q
  <2>9. CASE /\ Len(As(q)) = Len(As(p))
             /\ \A i \in 1..Len(As(p)) : As(q)[i].num = As(p)[i].num
    <3>1. \A m \in DOMAIN p : m \in DOMAIN q /\ q[m] = p[m]
      BY <2>1
    <3>2. Marked(q)
      BY <2>5, <2>9, <3>1
    <3>3. Once(p) => Once(q)
      BY <2>9
    <3> QED BY <2>1, <2>4, <2>5, <3>2, <3>3 DEF q
  <2>10. b.kind = "article_title" =>
           Len(As(q)) = Len(As(p)) /\ \A i \in 1..Len(As(p)) : As(q)[i].num = As(p)[i].num
    BY <2>3, <2>6, ReadTitle
  <2>11. b.kind \in {"annex_marker", "annex_title"} => As(q) = As(p)
    BY <2>3, <2>6, ReadAnnex
  <2>12. b.kind = "paragraph" =>
           Len(As(q)) = Len(As(p)) /\ \A i \in 1..Len(As(p)) : As(q)[i].num = As(p)[i].num
    <3> SUFFICES ASSUME b.kind = "paragraph"
                 PROVE  Len(As(q)) = Len(As(p)) /\ \A i \in 1..Len(As(p)) : As(q)[i].num = As(p)[i].num
      OBVIOUS
    <3>1. b \in Paragraphs
      BY DEF Paragraphs
    <3>2. CASE law.within
      <4>1. LET l == Len(law.articles) IN
            /\ Len(Read(law, b).articles) = l
            /\ Read(law, b).articles[l].num = law.articles[l].num
            /\ \A i \in 1..(l - 1) : Read(law, b).articles[i] = law.articles[i]
        BY <2>3, <3>1, <3>2, ReadIntoArticle
      <4>2. \A i \in 1..Len(As(p)) : i \in 1..(Len(As(p)) - 1) \/ i = Len(As(p))
        BY <2>7
      <4> QED BY <4>1, <4>2, <2>6
    <3>3. CASE ~law.within
      BY <2>3, <2>6, <3>1, <3>3, ReadRecital
    <3> QED BY <3>2, <3>3
  <2> QED BY <2>3, <2>8, <2>9, <2>10, <2>11, <2>12 DEF Kinds
<1> HIDE DEF S
<1>3. page \in S
  BY <1>1, <1>2, SeqInduction
<1> QED BY <1>3 DEF S

\* The paragraphs of a page after this one belong to an article.
Inside(p) ==
  Markers(p, Len(p)) # {} /\ p[Greatest(Markers(p, Len(p)))].kind = "article_marker"
ArticleText(p) == Only(p, {k \in DOMAIN p : InArticle(p, k)})

\* Which text stands within articles, for one block more.
LEMMA OneMoreBlock ==
  ASSUME NEW p \in Seq(PageBlocks), NEW b \in PageBlocks
  PROVE  LET q == Append(p, b) IN
         /\ Inside(q) = IF b.kind \in {"article_marker", "annex_marker"}
                        THEN b.kind = "article_marker" ELSE Inside(p)
         /\ ArticleText(q) = IF b.kind = "paragraph" /\ Inside(p)
                             THEN Append(ArticleText(p), b) ELSE ArticleText(p)
<1> DEFINE q == Append(p, b)  n == Len(p)  marks == {"article_marker", "annex_marker"}
<1>1. /\ q \in Seq(PageBlocks) /\ n \in Nat /\ Len(q) = n + 1 /\ DOMAIN q = 1..(n + 1)
      /\ DOMAIN p = 1..n /\ q[n + 1] = b /\ \A i \in 1..n : q[i] = p[i]
  BY AppendProperties
<1> HIDE DEF q, n
<1>2. \A k \in 1..n : Markers(q, k) = Markers(p, k)
  <2> TAKE k \in 1..n
  <2>1. \A i \in 1..k : q[i] = p[i]
    BY <1>1
  <2> QED BY <2>1 DEF Markers
<1>3. ASSUME NEW k \in 0..n, Markers(p, k) # {}
      PROVE  Greatest(Markers(p, k)) \in 1..k /\ Greatest(Markers(p, k)) \in Markers(p, k)
  <2>1. Markers(p, k) \in SUBSET Nat /\ k \in Nat /\ Markers(p, k) \in SUBSET (1..k)
    BY <1>1 DEF Markers
  <2>2. \A i \in Markers(p, k) : i <= k
    BY <2>1
  <2>3. Greatest(Markers(p, k)) \in Markers(p, k)
    BY <2>1, <2>2, <1>3, GreatestOf
  <2> QED BY <2>1, <2>3
<1>4. \A k \in 1..n : InArticle(q, k) = InArticle(p, k)
  <2> TAKE k \in 1..n
  <2>1. Markers(p, k) # {} => q[Greatest(Markers(p, k))] = p[Greatest(Markers(p, k))]
    <3> SUFFICES ASSUME Markers(p, k) # {} PROVE q[Greatest(Markers(p, k))] = p[Greatest(Markers(p, k))]
      OBVIOUS
    <3>1. k \in 0..n
      BY <1>1
    <3>2. Greatest(Markers(p, k)) \in 1..k
      BY <3>1, <1>3
    <3> QED BY <3>1, <3>2, <1>1
  <2> QED BY <2>1, <1>1, <1>2 DEF InArticle
<1>5. b.kind \notin marks => Markers(q, n + 1) = Markers(p, n)
  <2>1. \A i : i \in 1..(n + 1) <=> i \in 1..n \/ i = n + 1
    BY <1>1
  <2> QED BY <2>1, <1>1 DEF Markers
<1>6. b.kind \in marks => /\ Markers(q, n + 1) # {}
                          /\ Greatest(Markers(q, n + 1)) = n + 1
  <2> SUFFICES ASSUME b.kind \in marks
               PROVE  Markers(q, n + 1) # {} /\ Greatest(Markers(q, n + 1)) = n + 1
    OBVIOUS
  <2>1. n + 1 \in Markers(q, n + 1)
    BY <1>1 DEF Markers
  <2>2. Markers(q, n + 1) \in SUBSET Nat /\ \A i \in Markers(q, n + 1) : i <= n + 1 /\ i \in Nat
    BY <1>1 DEF Markers
  <2>3. Greatest(Markers(q, n + 1)) \in Markers(q, n + 1)
        /\ \A i \in Markers(q, n + 1) : i <= Greatest(Markers(q, n + 1))
    <3>1. n + 1 \in Nat
      BY <1>1
    <3> QED BY <2>1, <2>2, <3>1, GreatestOf
  <2>4. Greatest(Markers(q, n + 1)) \in Nat
    BY <2>2, <2>3
  <2> QED BY <2>1, <2>2, <2>3, <2>4, <1>1
<1>7. n \in 0..n
  BY <1>1
<1>8. ASSUME b.kind \notin marks
      PROVE  Markers(q, n + 1) # {} => q[Greatest(Markers(q, n + 1))] = p[Greatest(Markers(p, n))]
  <2> SUFFICES ASSUME Markers(q, n + 1) # {}
               PROVE  q[Greatest(Markers(q, n + 1))] = p[Greatest(Markers(p, n))]
    OBVIOUS
  <2>1. Markers(q, n + 1) = Markers(p, n) /\ Markers(p, n) # {}
    BY <1>5, <1>8
  <2>2. Greatest(Markers(p, n)) \in 1..n
    BY <2>1, <1>3, <1>7
  <2> QED BY <2>1, <2>2, <1>1
<1>9. Inside(q) = IF b.kind \in marks THEN b.kind = "article_marker" ELSE Inside(p)
  <2>1. CASE b.kind \in marks
    BY <2>1, <1>1, <1>6 DEF Inside
  <2>2. CASE b.kind \notin marks
    <3>1. Markers(q, Len(q)) = Markers(p, n)
      BY <2>2, <1>1, <1>5
    <3> QED BY <2>2, <3>1, <1>1, <1>8 DEF Inside, n
  <2> QED BY <2>1, <2>2
<1>10. InArticle(q, n + 1) = (b.kind = "paragraph" /\ Inside(p))
  <2>1. CASE b.kind = "paragraph"
    <3>1. b.kind \notin marks
      BY <2>1
    <3>2. Markers(q, n + 1) = Markers(p, n)
      BY <3>1, <1>5
    <3> QED BY <2>1, <3>1, <3>2, <1>1, <1>8 DEF Inside, InArticle, n
  <2>2. CASE b.kind # "paragraph"
    BY <2>2, <1>1 DEF InArticle
  <2> QED BY <2>1, <2>2
<1>11. ArticleText(q) = IF b.kind = "paragraph" /\ Inside(p)
                        THEN Append(ArticleText(p), b) ELSE ArticleText(p)
  <2> DEFINE I(r) == {k \in DOMAIN r : InArticle(r, k)}
  <2>1. I(q) = IF b.kind = "paragraph" /\ Inside(p) THEN I(p) \cup {n + 1} ELSE I(p)
    <3>1. \A i : i \in 1..(n + 1) <=> i \in 1..n \/ i = n + 1
      BY <1>1
    <3> QED BY <3>1, <1>1, <1>4, <1>10
  <2>2. I(p) \in SUBSET (1..n)
    BY <1>1
  <2> HIDE DEF I
  <2>3. Only(q, I(p)) = Only(p, I(p)) /\ Only(q, I(p) \cup {n + 1}) = Append(Only(p, I(p)), b)
    BY <2>2, OnlyAppend DEF q, n
  <2> QED BY <2>1, <2>3 DEF ArticleText, I
<1> QED BY <1>9, <1>11 DEF q

TextOf == [a \in ParsedArticles |-> a.text]
\* Articles carry paragraphs.
LEMMA TextOfCarries == Carries(TextOf, ParsedArticles, Paragraphs)
BY DEF TextOf, ParsedArticles, Carries

\* Texts that differ in a block added to the last one.
LEMMA JoinedLast ==
  ASSUME NEW T, NEW xs \in Seq(Seq(T)), NEW ys \in Seq(Seq(T)), NEW b \in T,
         xs # << >>, Len(ys) = Len(xs), ys[Len(xs)] = Append(xs[Len(xs)], b),
         \A i \in 1..(Len(xs) - 1) : ys[i] = xs[i]
  PROVE  Joined(ys) = Append(Joined(xs), b)
<1> DEFINE n == Len(xs)
<1>1. n \in Nat \ {0} /\ ys # << >>
  OBVIOUS
<1>0. \A zs \in Seq(Seq(T)) :
        zs # << >> => \E v \in Seq(Seq(T)), y \in Seq(T) : zs = Append(v, y)
  BY SequenceEmptyOrAppend
<1>2. PICK u \in Seq(Seq(T)), x \in Seq(T) : xs = Append(u, x)
  BY <1>0
<1>3. PICK v \in Seq(Seq(T)), y \in Seq(T) : ys = Append(v, y)
  BY <1>0, <1>1
<1>4. /\ Len(u) = n - 1 /\ Len(v) = n - 1 /\ xs[n] = x /\ ys[n] = y
      /\ \A i \in 1..(n - 1) : xs[i] = u[i] /\ ys[i] = v[i]
  BY <1>2, <1>3, <1>1
<1>5. u = v /\ y = Append(x, b)
  <2>1. \A i \in 1..Len(u) : u[i] = v[i]
    BY <1>4
  <2>2. u \in Seq(Seq(T)) /\ v \in Seq(Seq(T)) /\ Len(u) = Len(v)
    BY <1>4
  <2>3. u = v
    BY ONLY <2>1, <2>2, SeqEqual
  <2> QED BY <2>3, <1>4
<1>6. Joined(xs) = Joined(u) \o x /\ Joined(ys) = Joined(u) \o Append(x, b) /\ Joined(u) \in Seq(T)
  BY <1>2, <1>3, <1>5, JoinedAppend, JoinedType
<1>7. Joined(u) \o Append(x, b) = Append(Joined(u) \o x, b)
  BY SMTT(30), <1>6
<1> QED BY <1>6, <1>7

\* The words of a page reach the articles they stand in, in order and once.
LEMMA ParsedTexts ==
  ASSUME NEW page \in Seq(PageBlocks)
  PROVE  /\ ParseLaw(page).within = Inside(page)
         /\ Texts(TextOf, ParseLaw(page).articles) = ArticleText(page)
<1>t. \A r \in Seq(ParsedArticles) :
        /\ [k \in DOMAIN r |-> TextOf[r[k]]] \in Seq(Seq(Paragraphs))
        /\ Len([k \in DOMAIN r |-> TextOf[r[k]]]) = Len(r)
  BY TextOfCarries, TextsType
<1>a. \A r \in Seq(ParsedArticles), a \in ParsedArticles :
        Texts(TextOf, Append(r, a)) = Texts(TextOf, r) \o TextOf[a]
  BY TextOfCarries, TextsAppend
<1> DEFINE S == {p \in Seq(PageBlocks) :
                   /\ ParseLaw(p).within = Inside(p)
                   /\ Texts(TextOf, ParseLaw(p).articles) = ArticleText(p)}
<1>1. << >> \in S
  <2>1. << >> \in Seq(PageBlocks) /\ Len(<< >>) = 0
    BY EmptySeq
  <2>2. Inside(<< >>) = FALSE
    BY DEF Inside, Markers
  <2>3. ArticleText(<< >>) = << >>
    <3>1. {k \in DOMAIN << >> : InArticle(<< >>, k)} = {}
      OBVIOUS
    <3> QED BY <3>1, NonePositioned DEF ArticleText, Only
  <2>4. ParseLaw(<< >>).within = FALSE /\ ParseLaw(<< >>).articles = << >>
    BY ParseNone DEF Unread
  <2>5. Texts(TextOf, << >>) = << >>
    BY TextsNone
  <2> QED BY <2>1, <2>2, <2>3, <2>4, <2>5
<1>2. ASSUME NEW p \in Seq(PageBlocks), NEW b \in PageBlocks, p \in S PROVE Append(p, b) \in S
  <2> DEFINE q == Append(p, b)  law == ParseLaw(p)  as == law.articles  bs == Read(law, b).articles
  <2>1. q \in Seq(PageBlocks) /\ ParseLaw(q) = Read(law, b)
    BY AppendProperties, ParseAppend
  <2>2. Legible(law) /\ b.kind \in Kinds /\ Legible(Read(law, b))
    BY <2>1, ParseIsLegible, KindsOfBlocks
  <2>3. law.within = Inside(p) /\ Texts(TextOf, as) = ArticleText(p)
    BY <1>2
  <2>4. /\ Inside(q) = IF b.kind \in {"article_marker", "annex_marker"}
                       THEN b.kind = "article_marker" ELSE Inside(p)
        /\ ArticleText(q) = IF b.kind = "paragraph" /\ Inside(p)
                            THEN Append(ArticleText(p), b) ELSE ArticleText(p)
    BY OneMoreBlock
  <2>5. as \in Seq(ParsedArticles) /\ bs \in Seq(ParsedArticles) /\ law.within \in BOOLEAN
    BY <2>2 DEF Legible, Laws
  <2> DEFINE F(r) == [k \in DOMAIN r |-> TextOf[r[k]]]
  <2>7. /\ F(as) \in Seq(Seq(Paragraphs)) /\ Len(F(as)) = Len(as)
        /\ F(bs) \in Seq(Seq(Paragraphs)) /\ Len(F(bs)) = Len(bs)
    BY <2>5, <1>t
  <2>8. /\ \A i \in 1..Len(as) : F(as)[i] = as[i].text
        /\ \A i \in 1..Len(bs) : F(bs)[i] = bs[i].text
    BY <2>5 DEF TextOf
  <2>9. Texts(TextOf, as) = Joined(F(as)) /\ Texts(TextOf, bs) = Joined(F(bs))
    BY DEF Texts
  <2>10. Texts(TextOf, as) \in Seq(Paragraphs)
    BY <2>7, <2>9, JoinedType
  <2> HIDE DEF q, S, F
  <2>11. ASSUME Len(bs) = Len(as), \A i \in 1..Len(as) : bs[i].text = as[i].text
         PROVE  Texts(TextOf, bs) = Texts(TextOf, as)
    <3>1. \A i \in 1..Len(F(as)) : F(as)[i] = F(bs)[i]
      BY <2>7, <2>8, <2>11
    <3>2. Len(F(as)) = Len(F(bs))
      BY <2>7, <2>11
    <3>3. ASSUME NEW u \in Seq(Seq(Paragraphs)), NEW v \in Seq(Seq(Paragraphs)),
                 Len(u) = Len(v), \A i \in 1..Len(u) : u[i] = v[i]
          PROVE  u = v
      BY <3>3, SeqEqual
    <3>4. F(as) = F(bs)
      <4> HIDE DEF as, bs
      <4> QED BY <2>7, <3>1, <3>2, <3>3
    <3> QED BY <3>4, <2>9
  <2> HIDE DEF law
  <2>12. Read(law, b).within = Inside(q) /\ Texts(TextOf, bs) = ArticleText(q)
    <3>1. CASE b.kind = "article_marker"
      <4> DEFINE a == [num |-> b.num, path |-> << >>, title |-> b.title, text |-> << >>]
      <4>1. a \in ParsedArticles /\ Read(law, b) = [law EXCEPT !.within = TRUE, !.articles = Append(@, a)]
        BY <2>2, <3>1, ReadMarker
      <4>2. bs = Append(as, a) /\ Read(law, b).within
        BY <2>2, <4>1 DEF Legible, Laws
      <4>3. TextOf[a] = << >>
        BY <4>1 DEF TextOf
      <4> HIDE DEF a
      <4>4. Texts(TextOf, Append(as, a)) = Texts(TextOf, as) \o TextOf[a]
        BY <2>5, <1>a, <4>1
      <4>5. Texts(TextOf, as) \o << >> = Texts(TextOf, as)
        BY <2>10, ConcatEmptySeq
      <4> QED BY <2>3, <2>4, <3>1, <4>2, <4>3, <4>4, <4>5
    <3>2. CASE b.kind = "article_title"
      <4>1. Len(bs) = Len(as) /\ (\A i \in 1..Len(as) : bs[i].text = as[i].text)
            /\ Read(law, b).within = law.within
        BY <2>2, <3>2, ReadTitle
      <4>2. Texts(TextOf, bs) = Texts(TextOf, as)
        BY <2>11, <4>1
      <4> QED BY <2>3, <2>4, <3>2, <4>1, <4>2
    <3>3. CASE b.kind = "paragraph"
      <4>1. b \in Paragraphs
        BY <3>3 DEF Paragraphs
      <4>2. CASE ~law.within
        <5>1. bs = as /\ ~Read(law, b).within
          BY <2>2, <4>1, <4>2, ReadRecital
        <5> QED BY <2>3, <2>4, <2>2, <3>3, <4>2, <5>1 DEF Legible, Laws
      <4>3. CASE law.within
        <5> DEFINE n == Len(as)
        <5>1. /\ Len(bs) = n /\ n \in Nat \ {0} /\ bs[n].text = Append(as[n].text, b)
              /\ (\A i \in 1..(n - 1) : bs[i] = as[i]) /\ Read(law, b).within
          BY <2>2, <4>1, <4>3, ReadIntoArticle
        <5>2. n \in 1..n /\ \A i \in 1..(n - 1) : i \in 1..n
          BY <5>1
        <5>3. /\ F(as) # << >> /\ Len(F(bs)) = Len(F(as))
              /\ F(bs)[Len(F(as))] = Append(F(as)[Len(F(as))], b)
              /\ \A i \in 1..(Len(F(as)) - 1) : F(bs)[i] = F(as)[i]
          BY <2>7, <2>8, <5>1, <5>2
        <5>4. Joined(F(bs)) = Append(Joined(F(as)), b)
          BY <2>7, <4>1, <5>3, JoinedLast
        <5> QED BY <2>2, <2>3, <2>4, <2>9, <3>3, <4>3, <5>1, <5>4 DEF Legible, Laws
      <4> QED BY <4>2, <4>3
    <3>4. CASE b.kind \in {"annex_marker", "annex_title"}
      <4>1. bs = as /\ Read(law, b).within = (law.within /\ b.kind = "annex_title")
        BY <2>2, <3>4, ReadAnnex
      <4> QED BY <2>3, <2>4, <2>5, <3>4, <4>1
    <3> QED BY <2>2, <3>1, <3>2, <3>3, <3>4 DEF Kinds
  <2> QED BY <2>1, <2>12 DEF q, S
<1> HIDE DEF S
<1>3. page \in S
  BY <1>1, <1>2, SeqInduction
<1> QED BY <1>3 DEF S

-----------------------------------------------------------------------------
\* The paragraphs that say something.
Sayings == {b \in Paragraphs : b.words # ""}
\* What a text says are its paragraphs that have words.
LEMMA Said ==
  ASSUME NEW text \in Seq(Paragraphs)
  PROVE  /\ WordsOf(text) = Sel(text, Sayings) /\ WordsOf(text) \in Seq(Paragraphs)
         /\ Blank(text) => Sel(text, Sayings) = << >>
<1>1. \A i \in DOMAIN text : text[i] \in Paragraphs
  OBVIOUS
<1>2. Within(text, Sayings) = {i \in DOMAIN text : text[i].words # ""}
  BY <1>1 DEF Within, Sayings
<1>3. WordsOf(text) = Sel(text, Sayings)
  BY <1>2 DEF WordsOf, Sel
<1>4. Blank(text) => Within(text, Sayings) = {}
  BY <1>2 DEF Blank
<1>5. Only(text, {}) = << >>
  BY NonePositioned DEF Only
<1>6. Sel(text, Sayings) \in Seq(Paragraphs)
  BY SelType
<1>7. Blank(text) => Sel(text, Sayings) = << >>
  BY <1>4, <1>5 DEF Sel
<1> QED BY <1>3, <1>6, <1>7

Pieced == [path : Seq(AllLabels), text : Seq(Paragraphs)]
PieceText == [s \in Pieced |-> s.text]
\* Segments carry paragraphs.
LEMMA PieceTextCarries == Carries(PieceText, Pieced, Paragraphs)
BY DEF PieceText, Pieced, Carries

\* The segments of a text are the text.
LEMMA SegmentsAreTheText ==
  ASSUME NEW text \in Seq(Paragraphs)
  PROVE  Segments(text) \in Seq(Pieced) /\ Texts(PieceText, Segments(text)) = text
<1> DEFINE cuts == Labelled(text)  N == Cardinality(cuts)
           path(k) == [j \in 1..k |-> text[InOrder(cuts)[j]].label]
           pieces == Cut(text, cuts)
           head == IF Before(text, cuts) = << >> THEN << >>
                   ELSE <<[path |-> << >>, text |-> Before(text, cuts)]>>
           rest == [k \in 1..Len(pieces) |-> [path |-> path(k), text |-> pieces[k]]]
<1>1. cuts \in SUBSET (1..Len(text)) /\ Len(text) \in Nat
  <2>1. DOMAIN text = 1..Len(text) /\ Len(text) \in Nat
    BY LenProperties
  <2> QED BY <2>1 DEF Labelled
<1>2. /\ pieces \in Seq(Seq(Paragraphs)) /\ Len(pieces) = N /\ N \in Nat
      /\ Before(text, cuts) \in Seq(Paragraphs) /\ text = Before(text, cuts) \o Joined(pieces)
  <2> HIDE DEF cuts
  <2> QED BY <1>1, Pieces
<1>3. Segments(text) = head \o rest
  BY DEF Segments
<1>4. \A k \in 1..N : path(k) \in Seq(AllLabels)
  <2>1. Positions(cuts)
    <3> HIDE DEF cuts
    <3> QED BY <1>1, Few
  <2>2. \A j \in 1..N : InOrder(cuts)[j] \in cuts
    <3> HIDE DEF cuts
    <3> QED BY <2>1, Ordered
  <2>3. \A j \in 1..N : text[InOrder(cuts)[j]] \in Paragraphs
    <3> HIDE DEF cuts
    <3> QED BY <1>1, <2>2, ElementOfSeq
  <2>4. \A j \in 1..N : text[InOrder(cuts)[j]].label \in AllLabels
    BY <2>3 DEF AllLabels
  <2> HIDE DEF cuts, N
  <2> QED BY <1>2, <2>4
<1> HIDE DEF cuts, N, pieces, path
<1>5. rest \in Seq(Pieced) /\ Len(rest) = N /\ \A k \in 1..N : rest[k] \in Pieced /\ rest[k].text = pieces[k]
  <2>1. \A k \in 1..N : [path |-> path(k), text |-> pieces[k]] \in Pieced
    BY <1>2, <1>4 DEF Pieced
  <2> QED BY <1>2, <2>1
<1>6. head \in Seq(Pieced)
  <2>1. << >> \in Seq(AllLabels) /\ << >> \in Seq(Pieced)
    BY EmptySeq
  <2>2. [path |-> << >>, text |-> Before(text, cuts)] \in Pieced
    BY <1>2, <2>1 DEF Pieced
  <2> QED BY <2>1, <2>2
<1>7. Texts(PieceText, rest) = Joined(pieces)
  <2>1. [k \in DOMAIN rest |-> PieceText[rest[k]]] = pieces
    <3>1. DOMAIN rest = 1..N /\ DOMAIN pieces = 1..N
      BY <1>2, <1>5
    <3> HIDE DEF rest
    <3>2. \A k \in 1..N : PieceText[rest[k]] = pieces[k]
      BY <1>5 DEF PieceText
    <3>3. pieces = [k \in 1..N |-> pieces[k]]
      BY <3>1, <1>2
    <3> QED BY <3>1, <3>2, <3>3
  <2> QED BY <2>1 DEF Texts
<1>8. Texts(PieceText, head) = Before(text, cuts)
  <2>1. CASE Before(text, cuts) = << >>
    BY <2>1, TextsNone
  <2>2. CASE Before(text, cuts) # << >>
    <3> DEFINE s == [path |-> << >>, text |-> Before(text, cuts)]
    <3>1. s \in Pieced /\ s.text = Before(text, cuts)
      BY <1>2, EmptySeq DEF Pieced
    <3>2. PieceText[s] = Before(text, cuts)
      BY <3>1 DEF PieceText
    <3> HIDE DEF s
    <3>3. << >> \in Seq(Pieced) /\ Append(<< >>, s) = <<s>>
      BY <3>1, EmptySeq
    <3>4. Texts(PieceText, <<s>>) = Texts(PieceText, << >>) \o PieceText[s]
      <4>1. \A r \in Seq(Pieced), p \in Pieced :
              Texts(PieceText, Append(r, p)) = Texts(PieceText, r) \o PieceText[p]
        BY PieceTextCarries, TextsAppend
      <4> QED BY <3>1, <3>3, <4>1
    <3> QED BY <1>2, <2>2, <3>2, <3>4, TextsNone, ConcatEmptySeq DEF s
  <2> QED BY <2>1, <2>2
<1> HIDE DEF head, rest
<1>9. Texts(PieceText, head \o rest) = Texts(PieceText, head) \o Texts(PieceText, rest)
  BY <1>5, <1>6, PieceTextCarries, TextsConcat
<1> QED BY <1>2, <1>3, <1>5, <1>6, <1>7, <1>8, <1>9, ConcatProperties

\* The chunks of an article say what the article says.
Passages == [kind : {"article_paragraph"}, of : AllNums, path : Seq(AllLabels),
             text : Seq(Paragraphs)]
PassageText == [c \in Passages |-> c.text]
\* Chunks carry paragraphs.
LEMMA PassageTextCarries == Carries(PassageText, Passages, Paragraphs)
BY DEF PassageText, Passages, Carries

\* The chunks of an article say what it says.
LEMMA ChunksOfAnArticle ==
  ASSUME NEW a \in ParsedArticles
  PROVE  /\ ArticleChunks(a) \in Seq(Passages)
         /\ Sel(Texts(PassageText, ArticleChunks(a)), Sayings) = Sel(a.text, Sayings)
<1> DEFINE all == Segments(a.text)  segments == Worded(all)
           W == {s \in Pieced : ~Blank(s.text)}
<1>1. a.text \in Seq(Paragraphs) /\ a.num \in AllNums
  BY DEF ParsedArticles
<1>2. all \in Seq(Pieced) /\ Texts(PieceText, all) = a.text
  BY <1>1, SegmentsAreTheText
<1>3. segments = Sel(all, W)
  <2>1. \A i \in DOMAIN all : all[i] \in Pieced
    BY <1>2
  <2> HIDE DEF all
  <2>2. {i \in DOMAIN all : ~Blank(all[i].text)} = Within(all, W)
    BY <2>1 DEF Within
  <2> QED BY <2>2 DEF Worded, Sel
<1>4. segments \in Seq(Pieced)
  <2> HIDE DEF all, W
  <2> QED BY <1>2, <1>3, SelType
<1>5. Sel(Texts(PieceText, segments), Sayings) = Sel(a.text, Sayings)
  <2>1. \A o \in Pieced : o \notin W => Sel(PieceText[o], Sayings) = << >>
    <3> TAKE o \in Pieced
    <3>1. o.text \in Seq(Paragraphs) /\ PieceText[o] = o.text
      BY DEF Pieced, PieceText
    <3>2. o \notin W => Blank(o.text)
      OBVIOUS
    <3> HIDE DEF W
    <3> QED BY <3>1, <3>2, Said
  <2> HIDE DEF all, W
  <2>2. Sel(Texts(PieceText, Sel(all, W)), Sayings) = Sel(Texts(PieceText, all), Sayings)
    BY <1>2, <2>1, PieceTextCarries, TextsSel
  <2> HIDE DEF segments
  <2> QED BY <1>2, <1>3, <2>2
<1> HIDE DEF all, segments
<1> DEFINE n == Len(segments)
           c(k) == Chunk("article_paragraph", a.num, segments[k].path, segments[k].text)
<1>6. n \in Nat /\ DOMAIN segments = 1..n /\ \A k \in 1..n : segments[k] \in Pieced
  BY <1>4
<1>7. \A k \in 1..n : c(k) \in Passages /\ c(k).text = segments[k].text
  BY <1>1, <1>6 DEF Chunk, Passages, Pieced
<1>8. ArticleChunks(a) = [k \in 1..n |-> c(k)]
  BY DEF ArticleChunks, segments, all
<1> HIDE DEF c
<1>9. [k \in 1..n |-> c(k)] \in Seq(Passages)
  BY <1>6, <1>7
<1>10. Texts(PassageText, [k \in 1..n |-> c(k)]) = Texts(PieceText, segments)
  <2>1. \A k \in 1..n : PassageText[c(k)] = PieceText[segments[k]]
    BY <1>6, <1>7 DEF PassageText, PieceText
  <2>2. [k \in DOMAIN [j \in 1..n |-> c(j)] |-> PassageText[[j \in 1..n |-> c(j)][k]]]
          = [k \in DOMAIN segments |-> PieceText[segments[k]]]
    BY <2>1, <1>6
  <2> QED BY <2>2 DEF Texts
<1> QED BY <1>5, <1>8, <1>9, <1>10

AnyChunk ==
  [kind : {"recital", "article_paragraph", "annex"},
   of : AllNums \cup {<<d>> : d \in Digits} \cup {<<c>> : c \in AllCodes},
   path : Seq(AllLabels), text : Seq(Paragraphs)]
OtherChunks == {c \in AnyChunk : c.kind # "article_paragraph"}

\* The chunks of a law that are of articles say what the articles say; those
\* of recitals and annexes are others.
LEMMA ChunksOfALaw ==
  ASSUME NEW law \in Laws
  PROVE  LET chunks == ChunkLaw(law)
             carrying == Only(chunks, {i \in DOMAIN chunks : chunks[i].kind = "article_paragraph"})
         IN /\ carrying \in Seq(Passages)
            /\ Sel(Texts(PassageText, carrying), Sayings)
                 = Sel(Texts(TextOf, law.articles), Sayings)
<1> DEFINE chunks == ChunkLaw(law)
           carrying == Only(chunks, {i \in DOMAIN chunks : chunks[i].kind = "article_paragraph"})
           recitals == Worded(law.recitals)
           annexes == Only(law.annexes, {i \in DOMAIN law.annexes : law.annexes[i].title # ""})
           A == [k \in 1..Len(recitals) |-> Chunk("recital", <<recitals[k].num>>, << >>, recitals[k].text)]
           per == [k \in 1..Len(law.articles) |-> ArticleChunks(law.articles[k])]
           C == [k \in 1..Len(annexes) |-> Chunk("annex", <<annexes[k].code>>, << >>, annexes[k].text)]
<1>1. /\ law.recitals \in Seq(ParsedRecitals) /\ law.articles \in Seq(ParsedArticles)
      /\ law.annexes \in Seq(ParsedAnnexes)
  BY DEF Laws
<1>2. chunks = A \o Joined(per) \o C
  BY DEF ChunkLaw
<1>3. recitals \in Seq(ParsedRecitals) /\ annexes \in Seq(ParsedAnnexes)
  <2>0. DOMAIN law.recitals = 1..Len(law.recitals) /\ DOMAIN law.annexes = 1..Len(law.annexes)
    BY <1>1, LenProperties
  <2>1. {i \in DOMAIN law.recitals : ~Blank(law.recitals[i].text)} \in SUBSET (1..Len(law.recitals))
        /\ {i \in DOMAIN law.annexes : law.annexes[i].title # ""} \in SUBSET (1..Len(law.annexes))
    BY <2>0
  <2>2. recitals \in Seq(ParsedRecitals)
    BY <1>1, <2>1, OnlyOf DEF Worded
  <2>3. annexes \in Seq(ParsedAnnexes)
    BY <1>1, <2>1, OnlyOf
  <2> QED BY <2>2, <2>3
<1> HIDE DEF recitals, annexes
<1>4. << >> \in Seq(AllLabels) /\ << >> \in Seq(Paragraphs)
  BY EmptySeq
<1>5. A \in Seq(OtherChunks)
  <2>1. \A k \in 1..Len(recitals) : recitals[k].num \in Digits /\ recitals[k].text \in Seq(Paragraphs)
    <3>1. \A k \in 1..Len(recitals) : recitals[k] \in ParsedRecitals
      BY <1>3
    <3> QED BY <3>1 DEF ParsedRecitals
  <2>2. \A k \in 1..Len(recitals) :
          Chunk("recital", <<recitals[k].num>>, << >>, recitals[k].text) \in OtherChunks
    BY <2>1, <1>4 DEF Chunk, OtherChunks, AnyChunk
  <2>3. Len(recitals) \in Nat
    BY <1>3
  <2> QED BY <2>2, <2>3
<1>6. C \in Seq(OtherChunks)
  <2>1. \A k \in 1..Len(annexes) : annexes[k].code \in AllCodes /\ annexes[k].text \in Seq(Paragraphs)
    <3>1. \A k \in 1..Len(annexes) : annexes[k] \in ParsedAnnexes
      BY <1>3
    <3> QED BY <3>1, <1>4 DEF ParsedAnnexes
  <2>2. \A k \in 1..Len(annexes) :
          Chunk("annex", <<annexes[k].code>>, << >>, annexes[k].text) \in OtherChunks
    BY <2>1, <1>4 DEF Chunk, OtherChunks, AnyChunk
  <2>3. Len(annexes) \in Nat
    BY <1>3
  <2> QED BY <2>2, <2>3
<1>7. /\ per \in Seq(Seq(Passages)) /\ Len(per) = Len(law.articles) /\ Len(law.articles) \in Nat
      /\ \A k \in 1..Len(law.articles) : law.articles[k] \in ParsedArticles
  <2>1. Len(law.articles) \in Nat /\ \A k \in 1..Len(law.articles) : law.articles[k] \in ParsedArticles
    BY <1>1
  <2>2. \A k \in 1..Len(law.articles) : ArticleChunks(law.articles[k]) \in Seq(Passages)
    BY <2>1, ChunksOfAnArticle
  <2> QED BY <2>1, <2>2
<1>8. Joined(per) \in Seq(Passages)
  <2> HIDE DEF per
  <2> QED BY <1>7, JoinedType
<1> HIDE DEF A, C, per
<1> DEFINE Q == {c \in AnyChunk : c.kind = "article_paragraph"}
<1>9. /\ Passages \subseteq AnyChunk /\ Passages \subseteq Q
      /\ OtherChunks \subseteq AnyChunk /\ \A c \in OtherChunks : c \notin Q
  BY DEF Passages, AnyChunk, OtherChunks
<1>10. A \in Seq(AnyChunk) /\ C \in Seq(AnyChunk) /\ Joined(per) \in Seq(AnyChunk)
  BY <1>5, <1>6, <1>8, <1>9, SeqMonotonic
<1> HIDE DEF Q
<1>11. Sel(A, Q) = << >> /\ Sel(C, Q) = << >> /\ Sel(Joined(per), Q) = Joined(per)
  BY <1>5, <1>6, <1>8, <1>9, SelAllOrNone
<1>12. Sel(chunks, Q) = Joined(per)
  <2>1. \A u, v \in Seq(AnyChunk) : Sel(u \o v, Q) = Sel(u, Q) \o Sel(v, Q)
    BY SelConcat
  <2>2. A \o Joined(per) \in Seq(AnyChunk)
    BY <1>10, ConcatProperties
  <2>3. Sel(chunks, Q) = (<< >> \o Joined(per)) \o << >>
    <3> HIDE DEF chunks
    <3> QED BY ZenonT(40), <1>2, <1>10, <1>11, <2>1, <2>2
  <2>4. (<< >> \o Joined(per)) \o << >> = Joined(per)
    BY <1>8, ConcatEmptySeq
  <2> QED BY <2>3, <2>4
<1>13. chunks \in Seq(AnyChunk)
  <2> HIDE DEF chunks
  <2> QED BY <1>2, <1>10, ConcatProperties
<1>14. carrying = Joined(per)
  <2> HIDE DEF chunks
  <2>1. \A i \in DOMAIN chunks : chunks[i] \in AnyChunk
    BY <1>13
  <2>2. Within(chunks, Q) = {i \in DOMAIN chunks : chunks[i].kind = "article_paragraph"}
    BY <2>1 DEF Within, Q
  <2> QED BY <2>2, <1>12 DEF Sel
<1> HIDE DEF carrying, chunks
<1> DEFINE texts == [k \in DOMAIN law.articles |-> TextOf[law.articles[k]]]
           spoken == [k \in DOMAIN per |-> Texts(PassageText, per[k])]
           F(xs) == [k \in DOMAIN xs |-> Sel(xs[k], Sayings)]
<1>15. spoken \in Seq(Seq(Paragraphs)) /\ Texts(PassageText, Joined(per)) = Joined(spoken)
  BY <1>7, PassageTextCarries, TextsJoined
<1>16. texts \in Seq(Seq(Paragraphs)) /\ Texts(TextOf, law.articles) = Joined(texts)
  BY <1>1, TextOfCarries, TextsType DEF Texts
<1>17. F(spoken) = F(texts)
  <2>1. DOMAIN spoken = 1..Len(law.articles) /\ DOMAIN texts = 1..Len(law.articles)
    BY <1>1, <1>7
  <2>2. \A k \in 1..Len(law.articles) : Sel(spoken[k], Sayings) = Sel(texts[k], Sayings)
    <3> TAKE k \in 1..Len(law.articles)
    <3>1. spoken[k] = Texts(PassageText, ArticleChunks(law.articles[k]))
      BY <2>1 DEF per
    <3>2. texts[k] = law.articles[k].text
      BY <1>7, <2>1 DEF TextOf
    <3> HIDE DEF spoken, texts
    <3> QED BY <1>7, <3>1, <3>2, ChunksOfAnArticle
  <2> HIDE DEF spoken, texts
  <2> QED BY <2>1, <2>2
<1> HIDE DEF spoken, texts
<1>18. Sel(Joined(spoken), Sayings) = Joined(F(spoken))
  BY <1>15, JoinedSel
<1>19. Sel(Joined(texts), Sayings) = Joined(F(texts))
  BY <1>16, JoinedSel
<1> HIDE DEF F
<1>20. Sel(Texts(PassageText, carrying), Sayings) = Sel(Texts(TextOf, law.articles), Sayings)
  BY <1>14, <1>15, <1>16, <1>17, <1>18, <1>19
<1> QED BY <1>8, <1>14, <1>20 DEF carrying, chunks

\* Every page the scripts see is an edition, a part of one, or nothing.
LEMMA PagesAreSequences == Pages \subseteq Seq(PageBlocks)
<1>1. Editions \subseteq Seq(PageBlocks)
  BY EditionsAssumption
<1>2. Challenge \in Seq(PageBlocks)
  BY EmptySeq DEF Challenge
<1>3. ASSUME NEW p \in Editions, NEW q \in Truncations(p) PROVE q \in Seq(PageBlocks)
  <2>1. PICK k \in Cuts : k < Len(p) /\ q = SubSeq(p, 1, k)
    BY <1>3 DEF Truncations
  <2>2. p \in Seq(PageBlocks) /\ k \in Nat /\ Len(p) \in Nat
    BY <1>1, StoreAssumption
  <2>3. \A i \in 1..k : p[i] \in PageBlocks
    <3>1. \A i \in 1..k : i \in 1..Len(p)
      BY <2>1, <2>2
    <3> QED BY <2>2, <3>1, ElementOfSeq
  <2>4. 1 \in Int /\ k \in Int
    BY <2>2
  <2> QED BY <2>1, <2>3, <2>4, SubSeqProperties
<1> QED BY <1>1, <1>2, <1>3 DEF Pages

\* What each page is parsed to carries the page, and so do its chunks.
THEOREM PageIsCarried ==
  ASSUME NEW page \in Pages
  PROVE  LET law == Parsed[page]
             chunks == ChunkLaw(law)
             carrying == Only(chunks, {i \in DOMAIN chunks : chunks[i].kind = "article_paragraph"})
             texts == Joined([k \in 1..Len(law.articles) |-> law.articles[k].text])
         IN /\ texts = Only(page, {k \in DOMAIN page : InArticle(page, k)})
            /\ WordsOf(texts) = WordsOf(Joined([k \in 1..Len(carrying) |-> carrying[k].text]))
<1> DEFINE law == Parsed[page]
           chunks == ChunkLaw(law)
           carrying == Only(chunks, {i \in DOMAIN chunks : chunks[i].kind = "article_paragraph"})
           texts == Joined([k \in 1..Len(law.articles) |-> law.articles[k].text])
           passages == Joined([k \in 1..Len(carrying) |-> carrying[k].text])
<1>1. page \in Seq(PageBlocks) /\ law = ParseLaw(page)
  BY PagesAreSequences DEF Parsed
<1>2. law \in Laws
  BY <1>1, ParseIsLegible DEF Legible
<1>3. law.articles \in Seq(ParsedArticles)
  BY <1>2 DEF Laws
<1>4. texts = Texts(TextOf, law.articles)
  <2>1. DOMAIN law.articles = 1..Len(law.articles)
        /\ \A k \in 1..Len(law.articles) : law.articles[k] \in ParsedArticles
    BY <1>3
  <2>2. [k \in 1..Len(law.articles) |-> law.articles[k].text]
          = [k \in DOMAIN law.articles |-> TextOf[law.articles[k]]]
    BY <2>1 DEF TextOf
  <2> QED BY <2>2 DEF Texts
<1>5. texts = ArticleText(page)
  BY <1>1, <1>4, ParsedTexts
<1>6. carrying \in Seq(Passages)
      /\ Sel(Texts(PassageText, carrying), Sayings) = Sel(Texts(TextOf, law.articles), Sayings)
  BY <1>2, ChunksOfALaw
<1>7. passages = Texts(PassageText, carrying)
  <2> HIDE DEF carrying
  <2>1. DOMAIN carrying = 1..Len(carrying) /\ \A k \in 1..Len(carrying) : carrying[k] \in Passages
    BY <1>6
  <2>2. [k \in 1..Len(carrying) |-> carrying[k].text]
          = [k \in DOMAIN carrying |-> PassageText[carrying[k]]]
    BY <2>1 DEF PassageText
  <2> QED BY <2>2 DEF Texts
<1>8. texts \in Seq(Paragraphs)
  BY <1>3, <1>4, TextOfCarries, TextsType
<1>9. passages \in Seq(Paragraphs)
  BY <1>6, <1>7, PassageTextCarries, TextsType
<1> HIDE DEF texts, passages
<1>10. WordsOf(texts) = Sel(texts, Sayings) /\ WordsOf(passages) = Sel(passages, Sayings)
  BY <1>8, <1>9, Said
<1>11. WordsOf(texts) = WordsOf(passages)
  BY <1>4, <1>6, <1>7, <1>10
<1> QED BY <1>5, <1>11 DEF ArticleText, texts, passages

-----------------------------------------------------------------------------
(* legal_text_parser.py *)

\* What is put before the first text is before all of them.
LEMMA JoinedLeadIn ==
  ASSUME NEW T, NEW xs \in Seq(Seq(T)), xs # << >>, NEW u \in Seq(T)
  PROVE  LET ys == [xs EXCEPT ![1] = u \o @] IN
         ys \in Seq(Seq(T)) /\ Len(ys) = Len(xs) /\ Joined(ys) = u \o Joined(xs)
<1> DEFINE W(r) == [r EXCEPT ![1] = u \o @]
           S == {r \in Seq(Seq(T)) : r # << >> =>
                   W(r) \in Seq(Seq(T)) /\ Len(W(r)) = Len(r) /\ Joined(W(r)) = u \o Joined(r)}
<1>1. << >> \in S
  BY EmptySeq
<1>2. ASSUME NEW r \in Seq(Seq(T)), NEW x \in Seq(T), r \in S PROVE Append(r, x) \in S
  <2> DEFINE q == Append(r, x)
  <2>1. q \in Seq(Seq(T)) /\ Len(q) = Len(r) + 1 /\ Len(r) \in Nat /\ DOMAIN q = 1..(Len(r) + 1)
        /\ DOMAIN r = 1..Len(r) /\ \A i \in 1..(Len(r) + 1) : q[i] = IF i = Len(r) + 1 THEN x ELSE r[i]
    OBVIOUS
  <2>2. Joined(q) = Joined(r) \o x /\ Joined(r) \in Seq(T)
    BY JoinedAppend, JoinedType
  <2>3. q[1] \in Seq(T)
    BY <2>1
  <2>4. u \o q[1] \in Seq(T)
    BY <2>3, ConcatProperties
  <2>5. W(q) \in Seq(Seq(T)) /\ Len(W(q)) = Len(q) /\ \A i \in 1..Len(q) : W(q)[i] = IF i = 1 THEN u \o q[1] ELSE q[i]
    <3>1. 1 \in 1..Len(q)
      BY <2>1
    <3> HIDE DEF q
    <3> QED BY <2>1, <2>4, <3>1, ExceptSeq
  <2>6. Joined(W(q)) = u \o Joined(q)
    <3>1. CASE r = << >>
      <4>1. Len(q) = 1 /\ q[1] = x /\ u \o x \in Seq(T)
        BY <2>1, <2>4, <3>1
      <4>2. W(q) = Append(<< >>, u \o x)
        <5>1. Append(<< >>, u \o x) \in Seq(Seq(T)) /\ Len(Append(<< >>, u \o x)) = 1
              /\ Append(<< >>, u \o x)[1] = u \o x
          BY <4>1
        <5> HIDE DEF W, q
        <5>2. \A i \in 1..1 : W(q)[i] = Append(<< >>, u \o x)[i]
          <6>1. W(q)[1] = u \o x
            BY <2>5, <4>1
          <6>2. \A i \in 1..1 : i = 1
            OBVIOUS
          <6> QED BY <5>1, <6>1, <6>2
        <5> QED BY <2>5, <4>1, <5>1, <5>2, SeqEqual
      <4>3. << >> \in Seq(Seq(T))
        BY EmptySeq
      <4>4. Joined(W(q)) = << >> \o (u \o x)
        <5> HIDE DEF W, q
        <5> QED BY <4>1, <4>2, <4>3, JoinedAppend, JoinedNone
      <4>5. Joined(q) = << >> \o x
        BY <2>2, <3>1, JoinedNone
      <4>6. << >> \o (u \o x) = u \o x /\ << >> \o x = x
        BY <4>1, ConcatEmptySeq
      <4> HIDE DEF W, q
      <4> QED BY <4>4, <4>5, <4>6
    <3>2. CASE r # << >>
      <4>1. W(r) \in Seq(Seq(T)) /\ Len(W(r)) = Len(r) /\ Joined(W(r)) = u \o Joined(r)
        BY <1>2, <3>2
      <4>2. \A i \in 1..Len(r) : W(r)[i] = IF i = 1 THEN u \o r[1] ELSE r[i]
        BY <2>1
      <4>3. W(q) = Append(W(r), x)
        <5>1. Append(W(r), x) \in Seq(Seq(T)) /\ Len(Append(W(r), x)) = Len(r) + 1
              /\ \A i \in 1..(Len(r) + 1) :
                   Append(W(r), x)[i] = IF i = Len(r) + 1 THEN x ELSE W(r)[i]
          BY <4>1, <2>1
        <5>2. Len(r) >= 1
          BY <2>1, <3>2
        <5>4. \A i \in 1..(Len(r) + 1) : i \in 1..Len(r) \/ i = Len(r) + 1
          OBVIOUS
        <5>3. \A i \in 1..(Len(r) + 1) : W(q)[i] = Append(W(r), x)[i]
          <6> HIDE DEF W, q
          <6> TAKE i \in 1..(Len(r) + 1)
          <6>1. CASE i = Len(r) + 1
            <7>1. i # 1 /\ i \in 1..Len(q)
              BY <2>1, <5>2, <6>1
            <7> QED BY <2>1, <2>5, <5>1, <6>1, <7>1
          <6>2. CASE i \in 1..Len(r)
            <7>1. i # Len(r) + 1 /\ i \in 1..Len(q) /\ 1 # Len(r) + 1 /\ 1 \in 1..(Len(r) + 1)
              BY <2>1, <5>2, <6>2
            <7> QED BY <2>1, <2>5, <4>2, <5>1, <6>2, <7>1
          <6>3. i \in 1..Len(r) \/ i = Len(r) + 1
            BY <5>4
          <6> QED BY <6>1, <6>2, <6>3
        <5> HIDE DEF W, q
        <5>5. Len(W(q)) = Len(Append(W(r), x)) /\ \A i \in 1..Len(W(q)) : W(q)[i] = Append(W(r), x)[i]
          BY <2>1, <2>5, <5>1, <5>3
        <5> QED BY <2>5, <5>1, <5>5, SeqEqual
      <4> HIDE DEF W, q
      <4>4. Joined(W(q)) = (u \o Joined(r)) \o x
        BY <4>1, <4>3, JoinedAppend
      <4>5. (u \o Joined(r)) \o x = u \o (Joined(r) \o x)
        BY SMTT(30), <2>2, ConcatAssociative
      <4> QED BY <2>2, <4>4, <4>5
    <3> QED BY <3>1, <3>2
  <2> HIDE DEF W, q
  <2> QED BY <2>1, <2>5, <2>6 DEF q
<1> HIDE DEF S
<1>3. xs \in S
  BY <1>1, <1>2, SeqInduction
<1> QED BY <1>3 DEF S

Obligations == [paragraph : Nat, point : AllLabels \cup {""}, text : Seq(Paragraphs)]
ObligationText == [o \in Obligations |-> o.text]
\* Obligations carry paragraphs.
LEMMA ObligationTextCarries == Carries(ObligationText, Obligations, Paragraphs)
BY DEF ObligationText, Obligations, Carries

\* The points of a paragraph carry its text: the first one takes the lead-in.
LEMMA PointsAreTheParagraph ==
  ASSUME NEW n \in Nat, NEW body \in Seq(Paragraphs)
  PROVE  /\ SplitPoints(n, body) \in Seq(Obligations)
         /\ Texts(ObligationText, SplitPoints(n, body)) = body
<1> DEFINE cuts == PointLabels(body)  N == Cardinality(cuts)  xs == Cut(body, cuts)
           ys == WithLeadIn(body, cuts)
<1>1. cuts \in SUBSET (1..Len(body)) /\ Len(body) \in Nat
  <2>1. DOMAIN body = 1..Len(body) /\ Len(body) \in Nat
    BY LenProperties
  <2> QED BY <2>1 DEF PointLabels
<1> HIDE DEF cuts
<1>2. CASE cuts = {}
  <2> DEFINE o == Point(n, "", body)
  <2>1. o \in Obligations /\ o.text = body
    BY DEF Point, Obligations
  <2>2. SplitPoints(n, body) = Append(<< >>, o)
    BY <1>2 DEF SplitPoints, cuts
  <2> HIDE DEF o
  <2>3. << >> \in Seq(Obligations) /\ Append(<< >>, o) \in Seq(Obligations)
    BY <2>1, EmptySeq, AppendProperties
  <2>4. Texts(ObligationText, Append(<< >>, o)) = Texts(ObligationText, << >>) \o ObligationText[o]
    <3>1. \A r \in Seq(Obligations), p \in Obligations :
            Texts(ObligationText, Append(r, p)) = Texts(ObligationText, r) \o ObligationText[p]
      BY ObligationTextCarries, TextsAppend
    <3> QED BY <2>1, <2>3, <3>1
  <2>5. ObligationText[o] = body /\ << >> \o body = body
    BY <2>1, ConcatEmptySeq DEF ObligationText
  <2> QED BY <2>2, <2>3, <2>4, <2>5, TextsNone
<1>3. CASE cuts # {}
  <2>1. /\ xs \in Seq(Seq(Paragraphs)) /\ Len(xs) = N /\ N \in Nat /\ xs # << >>
        /\ Before(body, cuts) \in Seq(Paragraphs) /\ body = Before(body, cuts) \o Joined(xs)
    BY <1>1, <1>3, Pieces
  <2>2. ys = [xs EXCEPT ![1] = Before(body, cuts) \o @]
    BY DEF WithLeadIn
  <2> HIDE DEF xs, N, ys
  <2>3. ys \in Seq(Seq(Paragraphs)) /\ Len(ys) = N /\ Joined(ys) = body
    BY <2>1, <2>2, JoinedLeadIn
  <2> DEFINE o(k) == Point(n, body[InOrder(cuts)[k]].label, ys[k])
             os == [k \in 1..N |-> o(k)]
  <2>4. \A k \in 1..N : o(k) \in Obligations /\ o(k).text = ys[k]
    <3> TAKE k \in 1..N
    <3>1. InOrder(cuts)[k] \in cuts
      <4>1. Positions(cuts)
        BY <1>1, Few
      <4> QED BY <4>1, Ordered DEF N
    <3>2. body[InOrder(cuts)[k]] \in Paragraphs
      BY <1>1, <3>1, ElementOfSeq
    <3>3. body[InOrder(cuts)[k]].label \in AllLabels
      BY <3>2 DEF AllLabels
    <3>4. ys[k] \in Seq(Paragraphs)
      BY <2>3
    <3> QED BY <3>3, <3>4 DEF Point, Obligations
  <2>5. SplitPoints(n, body) = os
    BY <1>3 DEF SplitPoints, cuts, N, ys
  <2> HIDE DEF o
  <2>6. os \in Seq(Obligations)
    BY <2>1, <2>4
  <2>7. [k \in DOMAIN os |-> ObligationText[os[k]]] = ys
    <3>1. \A k \in 1..N : ObligationText[o(k)] = ys[k]
      BY <2>4 DEF ObligationText
    <3>2. ys = [k \in 1..N |-> ys[k]]
      BY <2>3
    <3> QED BY <3>1, <3>2
  <2> QED BY <2>3, <2>5, <2>6, <2>7 DEF Texts
<1> QED BY <1>2, <1>3

\* The paragraphs of an article carry it, from the first numbered one on.
LEMMA ParagraphsAreTheArticle ==
  ASSUME NEW text \in Seq(Paragraphs), text # << >>
  PROVE  /\ SplitParagraphs(text) \in Seq(Seq(Paragraphs))
         /\ \E k \in 1..Len(text) :
              /\ Sel(Joined(SplitParagraphs(text)), Sayings)
                   = Sel(SubSeq(text, k, Len(text)), Sayings)
              /\ \A j \in 1..(k - 1) : j \notin Marks(text)
<1> DEFINE cuts == Marks(text)  cut == Cut(text, cuts)  W == {p \in Seq(Paragraphs) : ~Blank(p)}
           bodies == Only(cut, {k \in DOMAIN cut : ~Blank(cut[k])})
<1>1. cuts \in SUBSET (1..Len(text)) /\ Len(text) \in Nat /\ 1 \in 1..Len(text)
  <2>1. DOMAIN text = 1..Len(text) /\ Len(text) \in Nat /\ Len(text) # 0
    BY LenProperties, EmptySeq
  <2> QED BY <2>1 DEF Marks
<1> HIDE DEF cuts
<1>2. CASE SplitParagraphs(text) = <<text>>
  <2>1. <<text>> \in Seq(Seq(Paragraphs)) /\ << >> \in Seq(Seq(Paragraphs))
        /\ <<text>> = Append(<< >>, text)
    BY EmptySeq
  <2>2. Joined(<<text>>) = << >> \o text
    BY <2>1, JoinedAppend, JoinedNone
  <2>3. << >> \o text = text /\ SubSeq(text, 1, Len(text)) = text
    BY ConcatEmptySeq, SubSeqFull
  <2>4. \A j \in 1..(1 - 1) : j \notin Marks(text)
    OBVIOUS
  <2> QED BY <1>1, <1>2, <2>1, <2>2, <2>3, <2>4
<1>3. CASE SplitParagraphs(text) # <<text>>
  <2>1. SplitParagraphs(text) = bodies /\ bodies # << >>
    BY <1>3 DEF SplitParagraphs, cuts
  <2>2. cut \in Seq(Seq(Paragraphs))
    BY <1>1, Pieces
  <2>3. bodies = Sel(cut, W)
    <3>1. \A k \in DOMAIN cut : cut[k] \in Seq(Paragraphs)
      BY <2>2
    <3> HIDE DEF cut
    <3>2. {k \in DOMAIN cut : ~Blank(cut[k])} = Within(cut, W)
      BY <3>1 DEF Within
    <3> QED BY <3>2 DEF Sel
  <2>4. cuts # {}
    <3> SUFFICES ASSUME cuts = {} PROVE FALSE
      OBVIOUS
    <3>1. cut = << >>
      BY <1>1, Pieces
    <3> QED BY <2>1, <2>3, <3>1, SelNone
  <2> DEFINE k == InOrder(cuts)[1]
  <2>5. k \in cuts /\ (\A i \in cuts : k <= i) /\ Joined(cut) = SubSeq(text, k, Len(text))
    BY <1>1, <2>4, Pieces
  <2>6. k \in 1..Len(text) /\ \A j \in 1..(k - 1) : j \notin cuts
    <3> HIDE DEF k
    <3>1. \A i \in cuts : i \in Nat
      BY <1>1
    <3>2. k \in 1..Len(text)
      BY <1>1, <2>5
    <3>3. ASSUME NEW j \in 1..(k - 1), j \in cuts PROVE FALSE
      <4>1. k <= j
        BY <2>5, <3>3
      <4> QED BY <4>1, <3>2
    <3> QED BY <3>2, <3>3
  <2> DEFINE id == [p \in Seq(Paragraphs) |-> p]
  <2> HIDE DEF cut, W, k
  <2>7. /\ Texts(id, cut) = Joined(cut) /\ Texts(id, Sel(cut, W)) = Joined(Sel(cut, W))
        /\ Sel(cut, W) \in Seq(Seq(Paragraphs))
    <3>1. \A r \in Seq(Seq(Paragraphs)) : [j \in DOMAIN r |-> id[r[j]]] = r
      <4> TAKE r \in Seq(Seq(Paragraphs))
      <4>1. DOMAIN r = 1..Len(r) /\ \A j \in 1..Len(r) : r[j] \in Seq(Paragraphs)
        OBVIOUS
      <4>2. r = [j \in 1..Len(r) |-> r[j]]
        OBVIOUS
      <4> QED BY <4>1, <4>2
    <3>2. Sel(cut, W) \in Seq(Seq(Paragraphs))
      BY <2>2, SelType
    <3> HIDE DEF id
    <3> QED BY <2>2, <3>1, <3>2 DEF Texts
  <2>8. Carries(id, Seq(Paragraphs), Paragraphs)
    BY DEF Carries
  <2>9. \A p \in Seq(Paragraphs) : p \notin W => Sel(id[p], Sayings) = << >>
    <3> TAKE p \in Seq(Paragraphs)
    <3>1. p \notin W => Blank(p)
      BY DEF W
    <3> QED BY <3>1, Said
  <2> HIDE DEF id
  <2>10. Sel(Texts(id, Sel(cut, W)), Sayings) = Sel(Texts(id, cut), Sayings)
    BY <2>2, <2>8, <2>9, TextsSel
  <2>11. Sel(Joined(SplitParagraphs(text)), Sayings) = Sel(SubSeq(text, k, Len(text)), Sayings)
    <3> HIDE DEF bodies
    <3> QED BY <2>1, <2>3, <2>5, <2>7, <2>10
  <2>12. SplitParagraphs(text) \in Seq(Seq(Paragraphs))
    <3> HIDE DEF bodies
    <3> QED BY <2>1, <2>3, <2>7
  <2> QED BY <2>6, <2>11, <2>12 DEF cuts
<1> QED BY <1>2, <1>3

\* The obligations of an article carry its text.
THEOREM ArticleIsCarried ==
  ASSUME NEW text \in Seq(Paragraphs), text # << >>
  PROVE  LET obligations == ParseArticle(text)
             carried == Joined([k \in 1..Len(obligations) |-> obligations[k].text])
         IN /\ obligations \in Seq(Obligations)
            /\ \E k \in 1..Len(text) :
                 /\ WordsOf(carried) = WordsOf(SubSeq(text, k, Len(text)))
                 /\ \A j \in 1..(k - 1) : j \in Marks(text) => text[j].words = ""
<1> DEFINE ps == SplitParagraphs(text)
           per == [n \in 1..Len(ps) |-> SplitPoints(n, ps[n])]
           obligations == ParseArticle(text)
           carried == Joined([k \in 1..Len(obligations) |-> obligations[k].text])
<1>1. ps \in Seq(Seq(Paragraphs))
  BY ParagraphsAreTheArticle
<1>2. PICK k \in 1..Len(text) :
        /\ Sel(Joined(ps), Sayings) = Sel(SubSeq(text, k, Len(text)), Sayings)
        /\ \A j \in 1..(k - 1) : j \notin Marks(text)
  BY ParagraphsAreTheArticle
<1>3. obligations = Joined(per)
  BY DEF ParseArticle
<1> HIDE DEF ps, obligations
<1>4. \A n \in 1..Len(ps) : /\ SplitPoints(n, ps[n]) \in Seq(Obligations)
                            /\ Texts(ObligationText, SplitPoints(n, ps[n])) = ps[n]
  <2> TAKE n \in 1..Len(ps)
  <2>1. n \in Nat /\ ps[n] \in Seq(Paragraphs)
    BY <1>1
  <2> QED BY <2>1, PointsAreTheParagraph
<1>5. per \in Seq(Seq(Obligations)) /\ DOMAIN per = 1..Len(ps)
  BY <1>1, <1>4
<1>6. [n \in DOMAIN per |-> Texts(ObligationText, per[n])] = ps
  <2>1. ps = [n \in 1..Len(ps) |-> ps[n]]
    BY <1>1
  <2> QED BY <1>4, <1>5, <2>1
<1> HIDE DEF per
<1>7. obligations \in Seq(Obligations) /\ Texts(ObligationText, obligations) = Joined(ps)
  <2>1. Joined(per) \in Seq(Obligations)
    BY <1>5, JoinedType
  <2>2. Texts(ObligationText, Joined(per)) = Joined([n \in DOMAIN per |-> Texts(ObligationText, per[n])])
    <3>1. \A xs \in Seq(Seq(Obligations)) :
            Texts(ObligationText, Joined(xs))
              = Joined([n \in DOMAIN xs |-> Texts(ObligationText, xs[n])])
      BY ObligationTextCarries, TextsJoined
    <3> QED BY <1>5, <3>1
  <2> QED BY <1>3, <1>6, <2>1, <2>2
<1>8. carried = Joined(ps)
  <2>1. DOMAIN obligations = 1..Len(obligations)
        /\ \A i \in 1..Len(obligations) : obligations[i] \in Obligations
    BY <1>7
  <2>2. [i \in 1..Len(obligations) |-> obligations[i].text]
          = [i \in DOMAIN obligations |-> ObligationText[obligations[i]]]
    BY <2>1 DEF ObligationText
  <2> QED BY <1>7, <2>2 DEF Texts
<1>9. Joined(ps) \in Seq(Paragraphs) /\ SubSeq(text, k, Len(text)) \in Seq(Paragraphs)
  <2>1. Joined(ps) \in Seq(Paragraphs)
    BY <1>1, JoinedType
  <2>2. \A i \in k..Len(text) : text[i] \in Paragraphs
    OBVIOUS
  <2>3. k \in Int /\ Len(text) \in Int
    OBVIOUS
  <2> QED BY <2>1, <2>2, <2>3, SubSeqProperties
<1>10. WordsOf(carried) = WordsOf(SubSeq(text, k, Len(text)))
  <2>1. WordsOf(Joined(ps)) = Sel(Joined(ps), Sayings)
        /\ WordsOf(SubSeq(text, k, Len(text))) = Sel(SubSeq(text, k, Len(text)), Sayings)
    BY <1>9, Said
  <2> HIDE DEF carried
  <2> QED BY <1>2, <1>8, <2>1
<1> QED BY <1>2, <1>7, <1>10 DEF obligations

-----------------------------------------------------------------------------
(* article_classifier.py, and the lines of an article *)

Verdicts == [text : Seq(Paragraphs), answered : BOOLEAN, stale : BOOLEAN]
RowRecords ==
  [id : Nat \ {0}, number : AllNums \X Seq(AllLabels), num : AllNums, path : Seq(AllLabels),
   title : AllTitles, text : Seq(Paragraphs), verdict : Verdicts]
\* A stored article; its number begins with that of the article.
Rows == {r \in RowRecords : r.number[1] = r.num}
Ids == Nat \X (AllLabels \cup {"", "parse_error"}) \X Nat
\* The leading integer of a number stands in both parts of a key.
KeyOf(number, id) == <<number, <<number[1][1], id>>>>
Keys == {KeyOf(number, id) : number \in AllNums \X Seq(AllLabels), id \in Ids}
LineRecords == [key : Keys, text : Seq(Paragraphs), class : Classes]
Statuses == {"proposed", "confirmed", "rejected", "needs_review"}
RegRows == [key : Keys, text : Seq(Paragraphs), class : Classes, status : Statuses]

\* The classifier gives one of its classes (article_classifier.py).
LEMMA ClassOfAText ==
  ASSUME NEW title, NEW text \in Seq(Paragraphs)
  PROVE  ClassifyAtomic(title, text) \in Classes
<1>1. CASE Kind(title) \in DOMAIN ByTitle
  BY <1>1 DEF ClassifyAtomic, ByTitle, Classes
<1>2. CASE Kind(title) \notin DOMAIN ByTitle
  <2> DEFINE s == AllSignals(text)
  <2>1. s \subseteq {"model", "documentation", "behaviour"}
    <3>1. \A i \in DOMAIN text : text[i] \in Paragraphs
      OBVIOUS
    <3>2. \A b \in Paragraphs : Signals(b.words) \subseteq {"model", "documentation", "behaviour"}
      BY EditionsAssumption DEF Paragraphs
    <3> QED BY <3>1, <3>2 DEF AllSignals
  <2> HIDE DEF s
  <2>2. ClassifyAtomic(title, text) = BySignals(s)
    BY <1>2 DEF ClassifyAtomic, s
  <2>3. CASE "model" \in s /\ "behaviour" \in s
    BY <2>2, <2>3 DEF BySignals, Classes
  <2>4. CASE "model" \in s /\ "behaviour" \notin s
    BY <2>2, <2>4 DEF BySignals, Classes
  <2>5. CASE "model" \notin s /\ "documentation" \in s
    BY <2>2, <2>5 DEF BySignals, Classes
  <2>6. CASE "model" \notin s /\ "documentation" \notin s /\ "behaviour" \in s
    <3>1. s = {"behaviour"}
      BY <2>1, <2>6
    <3> QED BY <2>2, <3>1 DEF BySignals, Classes
  <2>7. CASE "model" \notin s /\ "documentation" \notin s /\ "behaviour" \notin s
    <3>1. s = {}
      BY <2>1, <2>7
    <3> QED BY <2>2, <3>1 DEF BySignals, Classes
  <2> QED BY <2>3, <2>4, <2>5, <2>6, <2>7
<1> QED BY <1>1, <1>2

\* No two obligations of an article have the same id.
LEMMA AtomicIdsDiffer ==
  ASSUME NEW os \in Seq(Obligations)
  PROVE  /\ \A k \in 1..Len(os) : AtomicId(os, k) \in Ids
         /\ \A j, k \in 1..Len(os) : AtomicId(os, j) = AtomicId(os, k) => j = k
<1> DEFINE Same(k) == {j \in 1..k : os[j].paragraph = os[k].paragraph /\ os[j].point = os[k].point}
<1>1. \A k \in 1..Len(os) : AtomicId(os, k) = <<os[k].paragraph, os[k].point, Cardinality(Same(k))>>
  BY DEF AtomicId
<1>2. \A k \in 1..Len(os) : os[k].paragraph \in Nat /\ os[k].point \in AllLabels \cup {""}
  <2>1. \A k \in 1..Len(os) : os[k] \in Obligations
    OBVIOUS
  <2> QED BY <2>1 DEF Obligations
<1>3. \A k \in 1..Len(os) : IsFiniteSet(Same(k)) /\ Cardinality(Same(k)) \in Nat
  <2> TAKE k \in 1..Len(os)
  <2>1. IsFiniteSet(1..k) /\ Same(k) \in SUBSET (1..k)
    BY FS_Interval
  <2> HIDE DEF Same
  <2> QED BY <2>1, FS_Subset, FS_CardinalityType
<1>4. ASSUME NEW j \in 1..Len(os), NEW k \in 1..Len(os), j < k, AtomicId(os, j) = AtomicId(os, k)
      PROVE  FALSE
  <2>1. /\ os[j].paragraph = os[k].paragraph /\ os[j].point = os[k].point
        /\ Cardinality(Same(j)) = Cardinality(Same(k))
    <3> HIDE DEF Same
    <3> QED BY <1>1, <1>4
  <2>2. \A i \in 1..j : i \in 1..k
    BY <1>4
  <2>3. Same(j) \in SUBSET Same(k)
    BY <2>1, <2>2
  <2>4. k \in Same(k) /\ k \notin Same(j)
    BY <1>4
  <2> HIDE DEF Same
  <2> QED BY <2>1, <2>3, <2>4, <1>3, FS_Subset
<1>5. \A k \in 1..Len(os) : AtomicId(os, k) \in Ids
  <2> TAKE k \in 1..Len(os)
  <2> HIDE DEF Same
  <2>1. os[k].point \in AllLabels \cup {"", "parse_error"} /\ os[k].paragraph \in Nat
    BY <1>2
  <2>2. Cardinality(Same(k)) \in Nat
    BY <1>3
  <2>3. <<os[k].paragraph, os[k].point, Cardinality(Same(k))>> \in Ids
    BY <2>1, <2>2 DEF Ids
  <2> QED BY <1>1, <2>3
<1>6. ASSUME NEW j \in 1..Len(os), NEW k \in 1..Len(os), AtomicId(os, j) = AtomicId(os, k)
      PROVE  j = k
  <2>1. ~(j < k) /\ ~(k < j)
    BY <1>4, <1>6
  <2> QED BY <2>1
<1> QED BY <1>5, <1>6

\* The lines of an article: typed, under its number, and each with a key of
\* its own.
LEMMA LinesOfAnArticle ==
  ASSUME NEW a \in Rows
  PROVE  /\ Lines(a) \in Seq(LineRecords)
         /\ \A k \in 1..Len(Lines(a)) :
              Lines(a)[k].key[1] = a.number /\ Lines(a)[k].key[2][1] = Bare(a)
         /\ \A j, k \in 1..Len(Lines(a)) : Lines(a)[j].key = Lines(a)[k].key => j = k
<1>1. /\ a.text \in Seq(Paragraphs) /\ a.number \in AllNums \X Seq(AllLabels)
      /\ a.number[1] = a.num
  BY DEF Rows, RowRecords
<1>2. \A id, text, class : Line(a, id, text, class) = [key |-> KeyOf(a.number, id), text |-> text, class |-> class]
  BY <1>1 DEF Line, KeyOf, Bare
<1>3. \A id \in Ids, text \in Seq(Paragraphs), class \in Classes :
        Line(a, id, text, class) \in LineRecords
  BY <1>1, <1>2 DEF LineRecords, Keys
<1>4. \A id : KeyOf(a.number, id)[1] = a.number /\ KeyOf(a.number, id)[2][1] = Bare(a)
              /\ KeyOf(a.number, id)[2][2] = id
  BY <1>1 DEF KeyOf, Bare
<1>5. CASE Unparsable(a.text)
  <2> DEFINE l == Line(a, <<0, "parse_error", 1>>, a.text, "UNCLEAR")
  <2>1. Lines(a) = <<l>>
    BY <1>5 DEF Lines
  <2>2. <<0, "parse_error", 1>> \in Ids /\ "UNCLEAR" \in Classes
    BY DEF Ids, Classes
  <2>3. l \in LineRecords
    BY <1>1, <1>3, <2>2
  <2>4. l.key[1] = a.number /\ l.key[2][1] = Bare(a)
    BY <1>2, <1>4
  <2> HIDE DEF l
  <2>5. <<l>> \in Seq(LineRecords) /\ Len(<<l>>) = 1 /\ <<l>>[1] = l /\ \A k \in 1..1 : k = 1
    BY <2>3
  <2> QED BY <2>1, <2>4, <2>5
<1>6. CASE ~Unparsable(a.text)
  <2> DEFINE os == ParseArticle(a.text)  n == Len(os)
             l(k) == Line(a, AtomicId(os, k), os[k].text, ClassifyAtomic(a.title, os[k].text))
  <2>1. Lines(a) = [k \in 1..n |-> l(k)]
    BY <1>6 DEF Lines
  <2>2. os \in Seq(Obligations)
    BY <1>1, <1>6, ArticleIsCarried DEF Unparsable
  <2> HIDE DEF os
  <2>3. n \in Nat /\ \A k \in 1..n : os[k].text \in Seq(Paragraphs)
    <3>1. n \in Nat /\ \A k \in 1..n : os[k] \in Obligations
      BY <2>2, ElementOfSeq, LenProperties
    <3>2. \A o \in Obligations : o.text \in Seq(Paragraphs)
      BY DEF Obligations
    <3> HIDE DEF n
    <3> QED BY <3>1, <3>2
  <2>4. /\ \A k \in 1..n : AtomicId(os, k) \in Ids
        /\ \A j, k \in 1..n : AtomicId(os, j) = AtomicId(os, k) => j = k
    BY <2>2, AtomicIdsDiffer
  <2>5. \A k \in 1..n : ClassifyAtomic(a.title, os[k].text) \in Classes
    BY <2>3, ClassOfAText
  <2> HIDE DEF n
  <2>6. \A k \in 1..n : l(k) \in LineRecords
    BY <1>3, <2>3, <2>4, <2>5
  <2>7. \A k \in 1..n : l(k).key = KeyOf(a.number, AtomicId(os, k))
    BY <1>2
  <2> HIDE DEF l
  <2>8. Lines(a) \in Seq(LineRecords) /\ Len(Lines(a)) = n /\ \A k \in 1..n : Lines(a)[k] = l(k)
    BY <2>1, <2>3, <2>6
  <2>9. \A j, k \in 1..n : Lines(a)[j].key = Lines(a)[k].key => j = k
    <3> TAKE j, k \in 1..n
    <3>1. Lines(a)[j].key = Lines(a)[k].key => KeyOf(a.number, AtomicId(os, j))[2][2] = KeyOf(a.number, AtomicId(os, k))[2][2]
      BY <2>7, <2>8
    <3> QED BY <3>1, <1>4, <2>4
  <2> QED BY <1>4, <2>7, <2>8, <2>9
<1> QED BY <1>5, <1>6

-----------------------------------------------------------------------------
(* The rows of the registry *)

KeysDiffer(rows) == \A i, j \in 1..Len(rows) : rows[i].key = rows[j].key => i = j
Registers(rows) == rows \in Seq(RegRows) /\ KeysDiffer(rows)
\* What the pipeline may make of the rows it finds.
Follows(old, new) ==
  /\ Len(old) <= Len(new)
  /\ \A i \in 1..Len(old) :
       /\ new[i].key = old[i].key
       /\ new[i].status # old[i].status =>
            old[i].status \in {"confirmed", "rejected"} /\ new[i].status = "needs_review"
HasLine(rows, line) ==
  \E i \in 1..Len(rows) :
    rows[i].key = line.key /\ rows[i].text = line.text /\ rows[i].class = line.class
\* Rows with other keys than K are not touched.
Spares(old, new, K) == \A i \in 1..Len(old) : old[i].key \notin K => new[i] = old[i]

\* What is left as it is follows itself ...
LEMMA FollowsItself ==
  ASSUME NEW rows \in Seq(RegRows)
  PROVE  Follows(rows, rows)
<1>1. Len(rows) \in Nat
  OBVIOUS
<1> QED BY <1>1 DEF Follows

\* ... and steps that follow each other make one.
LEMMA FollowsThrough ==
  ASSUME NEW a \in Seq(RegRows), NEW b \in Seq(RegRows), NEW c \in Seq(RegRows),
         Follows(a, b), Follows(b, c)
  PROVE  Follows(a, c)
<1>1. Len(a) \in Nat /\ Len(b) \in Nat /\ Len(c) \in Nat
  OBVIOUS
<1>2. Len(a) <= Len(b) /\ Len(b) <= Len(c) /\ Len(a) <= Len(c)
  BY <1>1 DEF Follows
<1>3. \A i \in 1..Len(a) : i \in 1..Len(b)
  BY <1>1, <1>2
<1> QED BY <1>2, <1>3 DEF Follows

\* One upsert: the line is a row afterwards, no key occurs twice, and a status
\* changes to needs_review only, and only if a person had decided.
LEMMA UpsertStep ==
  ASSUME NEW rows, Registers(rows), NEW line \in LineRecords
  PROVE  /\ Registers(Upsert(rows, line)) /\ Follows(rows, Upsert(rows, line))
         /\ HasLine(Upsert(rows, line), line) /\ Spares(rows, Upsert(rows, line), {line.key})
<1> DEFINE n == Len(rows)  new == Upsert(rows, line)
<1>1. /\ rows \in Seq(RegRows) /\ n \in Nat /\ DOMAIN rows = 1..n
      /\ \A i \in 1..n : rows[i] \in RegRows
  BY DEF Registers
<1>2. \A status \in Statuses :
        /\ Row(line, status) \in RegRows /\ Row(line, status).key = line.key
        /\ Row(line, status).text = line.text /\ Row(line, status).class = line.class
        /\ Row(line, status).status = status
  BY DEF LineRecords, RegRows, Row
<1>3. \A i \in 1..n : rows[i].status \in Statuses
  BY <1>1 DEF RegRows
<1>4. CASE At(rows, line.key) = {}
  <2> DEFINE r == Row(line, "proposed")
  <2>1. new = Append(rows, r) /\ r \in RegRows /\ r.key = line.key /\ r.text = line.text
        /\ r.class = line.class
    BY <1>2, <1>4 DEF Upsert, Statuses
  <2>2. \A i \in 1..n : rows[i].key # line.key
    BY <1>1, <1>4 DEF At
  <2> HIDE DEF r, new
  <2>3. /\ new \in Seq(RegRows) /\ Len(new) = n + 1 /\ new[n + 1] = r
        /\ \A i \in 1..n : new[i] = rows[i]
    BY <2>1, <1>1
  <2>4. \A i : i \in 1..(n + 1) <=> i \in 1..n \/ i = n + 1
    BY <1>1
  <2>5. KeysDiffer(new)
    <3>1. \A i, j \in 1..n : rows[i].key = rows[j].key => i = j
      BY DEF Registers, KeysDiffer
    <3>2. \A i, j \in 1..(n + 1) : new[i].key = new[j].key => i = j
      <4> HIDE DEF n
      <4> QED BY <2>1, <2>2, <2>3, <2>4, <3>1
    <3> QED BY <2>3, <3>2 DEF KeysDiffer
  <2>6. HasLine(new, line)
    <3>1. n + 1 \in 1..(n + 1)
      BY <1>1
    <3> QED BY <2>1, <2>3, <3>1 DEF HasLine
  <2>7. Follows(rows, new)
    BY <1>1, <2>3 DEF Follows
  <2>8. Spares(rows, new, {line.key})
    BY <2>3 DEF Spares
  <2> QED BY <2>3, <2>5, <2>6, <2>7, <2>8 DEF Registers, new
<1>5. CASE At(rows, line.key) # {}
  <2> DEFINE r(i) == Row(line, StatusAfter(rows[i], rows[1]))
  <2>1. new = [i \in 1..n |-> IF i \in At(rows, line.key) THEN r(i) ELSE rows[i]]
    BY <1>1, <1>5 DEF Upsert
  <2>2. \A i \in 1..n : i \in At(rows, line.key) <=> rows[i].key = line.key
    BY <1>1 DEF At
  <2>3. \A i \in 1..n : StatusAfter(rows[i], rows[1]) \in Statuses
    BY <1>3 DEF StatusAfter, Statuses
  <2>4. \A i \in 1..n : StatusAfter(rows[i], rows[1]) # rows[i].status =>
          rows[i].status \in {"confirmed", "rejected"}
            /\ StatusAfter(rows[i], rows[1]) = "needs_review"
    BY <1>3 DEF StatusAfter, Statuses
  <2>5. \A i \in 1..n : r(i) \in RegRows /\ r(i).key = line.key
                        /\ r(i).text = line.text /\ r(i).class = line.class
                        /\ r(i).status = StatusAfter(rows[i], rows[1])
    BY <1>2, <2>3
  <2> HIDE DEF r
  <2>6. \A i \in 1..n : new[i] = IF rows[i].key = line.key THEN r(i) ELSE rows[i]
    BY <2>1, <2>2
  <2>7. new \in Seq(RegRows) /\ Len(new) = n
    <3>1. \A i \in 1..n : (IF i \in At(rows, line.key) THEN r(i) ELSE rows[i]) \in RegRows
      BY <2>5, <1>1
    <3> HIDE DEF n, new
    <3> QED BY <2>1, <3>1, <1>1
  <2> HIDE DEF new
  <2>8. \A i \in 1..n : new[i].key = rows[i].key
    BY <2>5, <2>6
  <2>9. KeysDiffer(new)
    BY <2>7, <2>8 DEF Registers, KeysDiffer
  <2>10. PICK i \in 1..n : rows[i].key = line.key
    BY <1>1, <1>5 DEF At
  <2>11. HasLine(new, line)
    BY <2>5, <2>6, <2>7, <2>10 DEF HasLine
  <2>12. \A j \in 1..n : new[j].status # rows[j].status =>
           rows[j].status \in {"confirmed", "rejected"} /\ new[j].status = "needs_review"
    BY <2>4, <2>5, <2>6
  <2>13. Follows(rows, new)
    BY <1>1, <2>7, <2>8, <2>12 DEF Follows
  <2>14. Spares(rows, new, {line.key})
    BY <2>6 DEF Spares
  <2> QED BY <2>7, <2>9, <2>11, <2>13, <2>14 DEF Registers, new
<1> QED BY <1>4, <1>5

\* The function by which Upserted is defined, for the first n lines.
Upserts(f, rows, lines, n) ==
  f = [k \in 0..n |-> IF k = 0 THEN rows ELSE Upsert(f[k - 1], lines[k])]

\* The function by which Upserted is defined exists.
LEMMA UpsertsExists ==
  ASSUME NEW rows, NEW lines, NEW n \in Nat
  PROVE  \E f : Upserts(f, rows, lines, n)
<1> DEFINE S == {m \in Nat : \E f : Upserts(f, rows, lines, m)}
<1>1. 0 \in S
  <2>1. Upserts([k \in 0..0 |-> rows], rows, lines, 0)
    BY DEF Upserts
  <2> QED BY <2>1
<1>2. ASSUME NEW m \in Nat, m \in S PROVE m + 1 \in S
  <2>1. PICK f : Upserts(f, rows, lines, m)
    BY <1>2
  <2> DEFINE g == [k \in 0..(m + 1) |-> IF k <= m THEN f[k] ELSE Upsert(f[m], lines[k])]
  <2>2. \A k \in 0..(m + 1) : g[k] = IF k = 0 THEN rows ELSE Upsert(g[k - 1], lines[k])
    <3> TAKE k \in 0..(m + 1)
    <3>1. CASE k <= m
      <4>1. f[k] = IF k = 0 THEN rows ELSE Upsert(f[k - 1], lines[k])
        BY <2>1, <3>1 DEF Upserts
      <4>2. k # 0 => g[k - 1] = f[k - 1]
        BY <3>1
      <4> QED BY <4>1, <4>2, <3>1
    <3>2. CASE k = m + 1
      <4>1. g[k] = Upsert(f[m], lines[k]) /\ g[k - 1] = f[m] /\ k # 0
        BY <3>2
      <4> QED BY <4>1
    <3> QED BY <3>1, <3>2
  <2>3. Upserts(g, rows, lines, m + 1)
    BY <2>2 DEF Upserts
  <2> QED BY <2>3
<1> HIDE DEF S
<1>3. n \in S
  BY <1>1, <1>2, Induction
<1> QED BY <1>3 DEF S

\* What Upserted is, by its function.
LEMMA UpsertedBy ==
  ASSUME NEW T, NEW rows, NEW lines \in Seq(T)
  PROVE  \E f : Upserts(f, rows, lines, Len(lines)) /\ Upserted(rows, lines) = f[Len(lines)]
<1> DEFINE after == CHOOSE after : after = [k \in 0..Len(lines) |->
                      IF k = 0 THEN rows ELSE Upsert(after[k - 1], lines[k])]
<1>1. Upserted(rows, lines) = after[Len(lines)]
  BY DEF Upserted
<1>2. PICK f : Upserts(f, rows, lines, Len(lines))
  <2>1. Len(lines) \in Nat
    OBVIOUS
  <2> QED BY <2>1, UpsertsExists
<1>3. f = [k \in 0..Len(lines) |-> IF k = 0 THEN rows ELSE Upsert(f[k - 1], lines[k])]
  BY <1>2 DEF Upserts
<1>4. after = [k \in 0..Len(lines) |-> IF k = 0 THEN rows ELSE Upsert(after[k - 1], lines[k])]
  BY <1>3
<1>5. Upserts(after, rows, lines, Len(lines))
  BY <1>4 DEF Upserts
<1> QED BY <1>1, <1>5

\* The upserts of an article: each line is a row afterwards, and other rows
\* are not touched.
THEOREM UpsertedLines ==
  ASSUME NEW rows, Registers(rows), NEW lines \in Seq(LineRecords),
         \A j, k \in 1..Len(lines) : lines[j].key = lines[k].key => j = k
  PROVE  LET new == Upserted(rows, lines) IN
         /\ Registers(new) /\ Follows(rows, new)
         /\ \A k \in 1..Len(lines) : HasLine(new, lines[k])
         /\ Spares(rows, new, {lines[k].key : k \in 1..Len(lines)})
<1> DEFINE n == Len(lines)  K(m) == {lines[k].key : k \in 1..m}
<1>1. n \in Nat /\ \A k \in 1..n : lines[k] \in LineRecords
  OBVIOUS
<1>2. PICK f : Upserts(f, rows, lines, n) /\ Upserted(rows, lines) = f[n]
  BY UpsertedBy
<1>3. f[0] = rows /\ \A k \in 1..n : f[k] = Upsert(f[k - 1], lines[k])
  <2>1. f = [k \in 0..n |-> IF k = 0 THEN rows ELSE Upsert(f[k - 1], lines[k])]
    BY <1>2 DEF Upserts
  <2>2. 0 \in 0..n /\ \A k \in 1..n : k \in 0..n /\ k # 0
    BY <1>1
  <2> HIDE DEF n
  <2> QED BY <2>1, <2>2
<1> DEFINE Good(m) == /\ Registers(f[m]) /\ Follows(rows, f[m])
                      /\ \A k \in 1..m : HasLine(f[m], lines[k])
                      /\ Spares(rows, f[m], K(m))
           S == {m \in Nat : m <= n => Good(m)}
<1>4. rows \in Seq(RegRows)
  BY DEF Registers
<1>5. 0 \in S
  <2>1. Follows(rows, rows) /\ Spares(rows, rows, K(0)) /\ ~\E k : k \in 1..0
    BY <1>4, FollowsItself DEF Spares
  <2> HIDE DEF K
  <2> QED BY <1>3, <2>1
<1>6. ASSUME NEW m \in Nat, m \in S PROVE m + 1 \in S
  <2> SUFFICES ASSUME m + 1 <= n PROVE Good(m + 1)
    OBVIOUS
  <2> DEFINE l == lines[m + 1]
  <2>1. m <= n /\ m + 1 \in 1..n /\ l \in LineRecords
    BY <1>1
  <2>2. Good(m)
    BY <1>6, <2>1
  <2>3. f[m + 1] = Upsert(f[m], l)
    <3>1. (m + 1) - 1 = m
      OBVIOUS
    <3> QED BY <1>3, <2>1, <3>1
  <2>4. /\ Registers(f[m + 1]) /\ Follows(f[m], f[m + 1]) /\ HasLine(f[m + 1], l)
        /\ Spares(f[m], f[m + 1], {l.key})
    BY <2>1, <2>2, <2>3, UpsertStep
  <2>5. f[m] \in Seq(RegRows) /\ f[m + 1] \in Seq(RegRows)
    BY <2>2, <2>4 DEF Registers
  <2>6. Follows(rows, f[m + 1])
    BY <1>4, <2>2, <2>4, <2>5, FollowsThrough
  <2>7. Len(f[m]) \in Nat /\ Len(f[m + 1]) \in Nat /\ Len(rows) \in Nat
        /\ Len(rows) <= Len(f[m]) /\ Len(f[m]) <= Len(f[m + 1])
    BY <1>4, <2>2, <2>4, <2>5, LenProperties DEF Follows
  <2>8. \A k \in 1..m : HasLine(f[m + 1], lines[k])
    <3> TAKE k \in 1..m
    <3>1. PICK i \in 1..Len(f[m]) :
            f[m][i].key = lines[k].key /\ f[m][i].text = lines[k].text /\ f[m][i].class = lines[k].class
      BY <2>2 DEF HasLine
    <3>2. lines[k].key # l.key
      <4>1. k \in 1..n /\ k # m + 1
        BY <2>1, <1>1
      <4> QED BY <4>1, <2>1
    <3>3. f[m + 1][i] = f[m][i]
      BY <2>4, <3>1, <3>2 DEF Spares
    <3>4. i \in 1..Len(f[m + 1])
      BY <2>7
    <3> QED BY <3>1, <3>3, <3>4 DEF HasLine
  <2>9. Spares(rows, f[m + 1], K(m + 1))
    <3> SUFFICES ASSUME NEW i \in 1..Len(rows), rows[i].key \notin K(m + 1)
                 PROVE  f[m + 1][i] = rows[i]
      BY DEF Spares
    <3>1. m + 1 \in 1..(m + 1) /\ \A k \in 1..m : k \in 1..(m + 1)
      OBVIOUS
    <3>2. rows[i].key \notin K(m) /\ rows[i].key # l.key
      BY <3>1
    <3>3. f[m][i] = rows[i]
      BY <2>2, <3>2 DEF Spares
    <3>4. i \in 1..Len(f[m])
      BY <2>7
    <3> QED BY <2>4, <3>2, <3>3, <3>4 DEF Spares
  <2>10. \A k \in 1..(m + 1) : HasLine(f[m + 1], lines[k])
    <3>1. \A k \in 1..(m + 1) : k \in 1..m \/ k = m + 1
      OBVIOUS
    <3> QED BY <2>4, <2>8, <3>1
  <2> HIDE DEF K
  <2> QED BY <2>4, <2>6, <2>9, <2>10
<1> HIDE DEF S
<1>7. n \in S
  BY <1>1, <1>5, <1>6, Induction
<1>8. Good(n)
  BY <1>1, <1>7 DEF S
<1> QED BY <1>2, <1>8

-----------------------------------------------------------------------------
(* The rows of law_articles *)

\* Rows of the store: no two with the same key, number or path.
Differ(rows) ==
  \A r, s \in rows : r.id = s.id \/ r.number = s.number \/ PathOf(r) = PathOf(s) => r = s
Stored(rows) == rows \in SUBSET Rows /\ IsFiniteSet(rows) /\ Differ(rows)

\* A part of what may be stored may be stored.
LEMMA StoredPart ==
  ASSUME NEW rows, Stored(rows), NEW part \in SUBSET rows
  PROVE  Stored(part)
<1>1. part \in SUBSET Rows /\ Differ(part)
  BY DEF Stored, Differ
<1>2. IsFiniteSet(part)
  BY FS_Subset DEF Stored
<1> QED BY <1>1, <1>2 DEF Stored

\* The rows in the order of their keys are all of them.
LEMMA ByIdIsAll ==
  ASSUME NEW rows, Stored(rows)
  PROVE  /\ ById(rows) \in Seq(rows) /\ Len(ById(rows)) = Cardinality(rows)
         /\ Cardinality(rows) \in Nat
         /\ \A r \in rows : \E k \in 1..Len(ById(rows)) : ById(rows)[k] = r
<1> DEFINE ids == {r.id : r \in rows}  n == Cardinality(ids)
           s == ById(rows)  f == [r \in rows |-> r.id]
<1>1. rows \in SUBSET Rows /\ IsFiniteSet(rows) /\ \A r \in rows : r.id \in Nat
  BY DEF Stored, Rows, RowRecords
<1>2. f \in Surjection(rows, ids) /\ f \in Injection(rows, ids)
  <2>1. f \in [rows -> ids]
    OBVIOUS
  <2>2. \A r, t \in rows : f[r] = f[t] => r = t
    BY DEF Stored, Differ
  <2>3. \A i \in ids : \E r \in rows : f[r] = i
    OBVIOUS
  <2> HIDE DEF f, ids
  <2> QED BY <2>1, <2>2, <2>3 DEF Surjection, Injection, IsInjective
<1>3. IsFiniteSet(ids) /\ n = Cardinality(rows)
  <2> HIDE DEF f, ids
  <2> QED BY <1>1, <1>2, FS_Surjection
<1>4. Positions(ids)
  BY <1>1, <1>3 DEF Positions
<1>5. n \in Nat /\ InOrder(ids) \in [1..n -> ids]
      /\ \A i \in ids : \E k \in 1..n : InOrder(ids)[k] = i
  <2> HIDE DEF ids
  <2> QED BY <1>4, Ranks, Ordered
<1>6. s = [k \in 1..n |-> CHOOSE r \in rows : r.id = InOrder(ids)[k]]
  <2>1. DOMAIN InOrder(ids) = 1..n
    BY <1>5
  <2> QED BY <2>1 DEF ById
<1>7. \A k \in 1..n : s[k] \in rows /\ s[k].id = InOrder(ids)[k]
  <2> TAKE k \in 1..n
  <2>1. s[k] = CHOOSE r \in rows : r.id = InOrder(ids)[k]
    BY <1>6
  <2>2. \E r \in rows : r.id = InOrder(ids)[k]
    BY <1>5
  <2> QED BY <2>1, <2>2
<1>8. s \in Seq(rows) /\ Len(s) = n
  <2>1. s \in [1..n -> rows]
    <3> HIDE DEF n, ids
    <3>1. s = [k \in 1..n |-> s[k]]
      BY <1>6
    <3> HIDE DEF s
    <3> QED BY <3>1, <1>7
  <2> HIDE DEF n, s, ids
  <2> QED BY <2>1, <1>5, LenProperties
<1>9. \A r \in rows : \E k \in 1..n : s[k] = r
  <2> TAKE r \in rows
  <2>1. r.id \in ids
    OBVIOUS
  <2> HIDE DEF s, n, ids
  <2>2. PICK k \in 1..n : InOrder(ids)[k] = r.id
    BY <2>1, <1>5
  <2> QED BY <2>2, <1>7 DEF Stored, Differ
<1> HIDE DEF s, n, ids
<1> QED BY <1>3, <1>5, <1>8, <1>9 DEF s, n

Tasks == [id : Nat \ {0}, text : Seq(Paragraphs)]

\* The items of a run are the keys and the texts of the rows, each of them
\* once.
LEMMA ItemsAreAll ==
  ASSUME NEW rows, Stored(rows)
  PROVE  /\ Items(rows) \in Seq(Tasks) /\ Len(Items(rows)) = Cardinality(rows)
         /\ Cardinality(rows) \in Nat
         /\ \A r \in rows : \E k \in 1..Len(Items(rows)) : Items(rows)[k].id = r.id
         /\ \A k \in 1..Len(Items(rows)) : \E r \in rows :
              Items(rows)[k].id = r.id /\ Items(rows)[k].text = r.text
<1> DEFINE s == ById(rows)  n == Cardinality(rows)  t == Items(rows)
<1>1. /\ s \in Seq(rows) /\ Len(s) = n /\ n \in Nat
      /\ \A r \in rows : \E k \in 1..n : s[k] = r
  BY ByIdIsAll
<1>2. rows \in SUBSET Rows
  BY DEF Stored
<1>3. t = [k \in DOMAIN s |-> [id |-> s[k].id, text |-> s[k].text]]
  BY DEF Items
<1> HIDE DEF t, n, s
<1>4. DOMAIN s = 1..n /\ \A k \in 1..n : s[k] \in rows
  BY <1>1
<1>5. \A k \in 1..n : /\ t[k] = [id |-> s[k].id, text |-> s[k].text]
                      /\ t[k].id = s[k].id /\ t[k].text = s[k].text
  BY <1>3, <1>4
<1>6. \A r \in rows : [id |-> r.id, text |-> r.text] \in Tasks
  BY <1>2 DEF Rows, RowRecords, Tasks
<1>7. t \in Seq(Tasks) /\ Len(t) = n
  <2>1. \A k \in 1..n : t[k] \in Tasks
    BY <1>4, <1>5, <1>6
  <2>2. t \in [1..n -> Tasks]
    BY <2>1, <1>3, <1>4
  <2> QED BY <2>2, <1>1, LenProperties
<1> QED BY <1>1, <1>4, <1>5, <1>7 DEF t, n

\* The next key is greater than every key in the table.
LEMMA NextIdIsNew ==
  ASSUME NEW rows, Stored(rows), others \in Nat
  PROVE  /\ NextId(rows) \in Nat \ {0} /\ others < NextId(rows)
         /\ \A r \in rows : r.id < NextId(rows)
<1> DEFINE ids == {r.id : r \in rows}  S == {0, others} \cup ids
<1>1. \A r \in rows : r.id \in Nat
  BY DEF Stored, Rows, RowRecords
<1>2. S \in SUBSET Nat /\ S # {}
  BY <1>1
<1>3. IsFiniteSet(S)
  <2>1. IsFiniteSet(ids)
    <3> DEFINE f == [r \in rows |-> r.id]
    <3>1. f \in Surjection(rows, ids)
      BY DEF Surjection
    <3> HIDE DEF f, ids
    <3> QED BY <3>1, FS_Surjection DEF Stored
  <2>2. IsFiniteSet({0, others})
    <3>1. IsFiniteSet({} \cup {0})
      BY FS_AddElement, FS_EmptySet
    <3>2. IsFiniteSet(({} \cup {0}) \cup {others})
      BY <3>1, FS_AddElement
    <3>3. {0, others} = ({} \cup {0}) \cup {others}
      OBVIOUS
    <3> QED BY <3>2, <3>3
  <2> QED BY <2>1, <2>2, FS_Union
<1>4. PICK n \in Nat : \A i \in S : i <= n
  <2> HIDE DEF S
  <2>1. Positions(S)
    BY <1>2, <1>3 DEF Positions
  <2>2. /\ Cardinality(S) \in Nat
        /\ InOrder(S) \in [1..Cardinality(S) -> S]
        /\ \A i \in S : \E k \in 1..Cardinality(S) : InOrder(S)[k] = i
        /\ \A k, l \in 1..Cardinality(S) : k < l => InOrder(S)[k] < InOrder(S)[l]
    BY <2>1, Ranks, Ordered
  <2>3. Cardinality(S) \in 1..Cardinality(S)
    <3>1. PICK i \in S : TRUE
      BY <1>2
    <3>2. PICK k \in 1..Cardinality(S) : InOrder(S)[k] = i
      BY <2>2
    <3> QED BY <2>2, <3>2
  <2> DEFINE m == InOrder(S)[Cardinality(S)]
  <2>4. m \in Nat
    BY <2>2, <2>3, <1>2
  <2>5. \A k \in 1..Cardinality(S) : k = Cardinality(S) \/ k < Cardinality(S)
    BY <2>2
  <2>6. \A k \in 1..Cardinality(S) : InOrder(S)[k] \in Nat
    BY <2>2, <1>2
  <2>7. \A k \in 1..Cardinality(S) : InOrder(S)[k] <= m
    <3> TAKE k \in 1..Cardinality(S)
    <3>1. k = Cardinality(S) \/ InOrder(S)[k] < m
      BY <2>2, <2>3, <2>5
    <3> QED BY <3>1, <2>4, <2>6
  <2>8. \A i \in S : i <= m
    BY <2>2, <2>7
  <2> QED BY <2>4, <2>8
<1>5. Greatest(S) \in S /\ \A i \in S : i <= Greatest(S)
  <2> HIDE DEF S
  <2> QED BY <1>2, <1>4, GreatestOf
<1>6. NextId(rows) = 1 + Greatest(S)
  BY DEF NextId
<1>7. Greatest(S) \in Nat /\ others <= Greatest(S) /\ \A r \in rows : r.id <= Greatest(S)
  <2>1. others \in S /\ \A r \in rows : r.id \in S
    OBVIOUS
  <2> HIDE DEF S
  <2> QED BY <2>1, <1>2, <1>5
<1> HIDE DEF S
<1> QED BY <1>1, <1>6, <1>7

-----------------------------------------------------------------------------
\* fs has the elements of seq at these positions, one for each key.
OnePerKey(fs, seq, keys, at) ==
  /\ at \in [1..Len(fs) -> 1..Len(seq)]
  /\ \A k \in 1..Len(fs) : fs[k] = seq[at[k]]
  /\ \A j, k \in 1..Len(fs) : keys[at[j]] = keys[at[k]] => j = k
  /\ \A i \in 1..Len(seq) : \E k \in 1..Len(fs) : keys[at[k]] = keys[i]

\* Of those that go by the same key one is left, and every key is left.
LEMMA FirstsOf ==
  ASSUME NEW T, NEW seq \in Seq(T), NEW keys, DOMAIN keys = DOMAIN seq
  PROVE  /\ Firsts(seq, keys) \in Seq(T)
         /\ \E at : OnePerKey(Firsts(seq, keys), seq, keys, at)
<1> DEFINE n == Len(seq)
           S == {i \in 1..n : \A j \in 1..(i - 1) : keys[j] # keys[i]}
           at == InOrder(S)  fs == Only(seq, S)
<1>1. n \in Nat /\ DOMAIN keys = 1..n
  BY LenProperties
<1>2. Firsts(seq, keys) = fs
  BY <1>1 DEF Firsts
<1>3. S \in SUBSET (1..n)
  OBVIOUS
<1>4. \A i \in S, j \in S : keys[i] = keys[j] => i = j
  <2> SUFFICES ASSUME NEW i \in S, NEW j \in S, keys[i] = keys[j], i < j PROVE FALSE
    OBVIOUS
  <2>1. i \in 1..(j - 1)
    OBVIOUS
  <2> QED BY <2>1
<1>5. \A i \in 1..n : \E j \in S : keys[j] = keys[i]
  <2> TAKE i \in 1..n
  <2> DEFINE N == {j \in 1..n : keys[j] = keys[i]}
  <2>1. N \in SUBSET Nat /\ N # {}
    OBVIOUS
  <2>2. PICK j \in N : \A h \in N : j <= h
    <3> HIDE DEF N
    <3> QED BY <2>1, Least
  <2>3. \A h \in 1..(j - 1) : keys[h] # keys[j]
    <3> TAKE h \in 1..(j - 1)
    <3>1. h \in 1..n /\ ~(j <= h)
      OBVIOUS
    <3> QED BY <3>1, <2>2
  <2> QED BY <2>3
<1> HIDE DEF S
<1>6. /\ fs \in Seq(T) /\ Len(fs) = Cardinality(S) /\ Cardinality(S) \in Nat
      /\ \A k \in 1..Cardinality(S) : at[k] \in S /\ fs[k] = seq[at[k]]
      /\ \A i \in S : \E k \in 1..Cardinality(S) : at[k] = i
  BY <1>3, OnlyOf
<1>7. Positions(S)
  BY <1>1, <1>3, Few
<1>8. at \in [1..Cardinality(S) -> S]
      /\ \A k, l \in 1..Cardinality(S) : k < l => at[k] < at[l]
  BY <1>7, Ordered
<1>9. \A k, l \in 1..Cardinality(S) : at[k] = at[l] => k = l
  <2> SUFFICES ASSUME NEW k \in 1..Cardinality(S), NEW l \in 1..Cardinality(S), k < l
               PROVE  at[k] # at[l]
    BY <1>6
  <2>1. at[k] < at[l]
    BY <1>8
  <2>2. at[k] \in Nat /\ at[l] \in Nat
    <3>1. at[k] \in S /\ at[l] \in S
      BY <1>6
    <3>2. \A i \in S : i \in Nat
      BY <1>3
    <3> HIDE DEF at
    <3> QED BY <3>1, <3>2
  <2> HIDE DEF at
  <2> QED BY <2>1, <2>2
<1> HIDE DEF at, fs
<1>10. at \in [1..Len(fs) -> 1..n]
  BY <1>3, <1>6, <1>8
<1>11. \A j, k \in 1..Len(fs) : keys[at[j]] = keys[at[k]] => j = k
  BY <1>4, <1>6, <1>9
<1>12. \A i \in 1..n : \E k \in 1..Len(fs) : keys[at[k]] = keys[i]
  BY <1>5, <1>6
<1> HIDE DEF n
<1>13. \A k \in 1..Len(fs) : fs[k] = seq[at[k]]
  BY <1>6
<1>14. OnePerKey(fs, seq, keys, at)
  BY <1>10, <1>11, <1>12, <1>13 DEF OnePerKey, n
<1> QED BY <1>2, <1>6, <1>14

\* The same for keys that are a function of the elements.
FirstBy(seq, key) == Firsts(seq, [i \in DOMAIN seq |-> key[seq[i]]])
\* Firsts keeps one for every key, and no two with the same.
LEMMA FirstsByKey ==
  ASSUME NEW T, NEW seq \in Seq(T), NEW key
  PROVE  /\ FirstBy(seq, key) \in Seq(T) /\ ToSet(FirstBy(seq, key)) \subseteq ToSet(seq)
         /\ \A j, k \in 1..Len(FirstBy(seq, key)) :
              key[FirstBy(seq, key)[j]] = key[FirstBy(seq, key)[k]] => j = k
         /\ {key[x] : x \in ToSet(FirstBy(seq, key))} = {key[x] : x \in ToSet(seq)}
<1> DEFINE keys == [i \in DOMAIN seq |-> key[seq[i]]]
           fs == Firsts(seq, keys)  n == Len(seq)
<1>1. DOMAIN keys = DOMAIN seq /\ DOMAIN seq = 1..n /\ \A i \in 1..n : keys[i] = key[seq[i]]
  OBVIOUS
<1> HIDE DEF keys
<1>2. fs \in Seq(T) /\ \E at : OnePerKey(fs, seq, keys, at)
  BY <1>1, FirstsOf
<1> HIDE DEF fs
<1>3. PICK at : /\ at \in [1..Len(fs) -> 1..n]
                /\ \A k \in 1..Len(fs) : fs[k] = seq[at[k]]
                /\ \A j, k \in 1..Len(fs) : keys[at[j]] = keys[at[k]] => j = k
                /\ \A i \in 1..n : \E k \in 1..Len(fs) : keys[at[k]] = keys[i]
  BY <1>2 DEF OnePerKey
<1> HIDE DEF n
<1>4. DOMAIN fs = 1..Len(fs)
  BY <1>2
<1>5. \A x : x \in ToSet(fs) <=> \E k \in 1..Len(fs) : x = fs[k]
  BY <1>4 DEF ToSet
<1>6. \A x : x \in ToSet(seq) <=> \E i \in 1..n : x = seq[i]
  BY <1>1 DEF ToSet
<1>7. ToSet(fs) \subseteq ToSet(seq)
  BY <1>3, <1>5, <1>6
<1>a. \A k \in 1..Len(fs) : at[k] \in 1..n /\ keys[at[k]] = key[fs[k]]
  BY <1>1, <1>3
<1>8. \A j, k \in 1..Len(fs) : key[fs[j]] = key[fs[k]] => j = k
  BY <1>3, <1>a
<1>9. \A i \in 1..n : \E k \in 1..Len(fs) : key[fs[k]] = key[seq[i]]
  <2> TAKE i \in 1..n
  <2>1. PICK k \in 1..Len(fs) : keys[at[k]] = keys[i]
    BY <1>3
  <2> QED BY <2>1, <1>1, <1>a
<1>10. {key[x] : x \in ToSet(fs)} = {key[x] : x \in ToSet(seq)}
  <2>1. \A x \in ToSet(seq) : \E y \in ToSet(fs) : key[y] = key[x]
    BY <1>5, <1>6, <1>9
  <2> QED BY <2>1, <1>7
<1> QED BY <1>2, <1>7, <1>8, <1>10 DEF fs, keys, FirstBy

\* Those that have a text.
LEMMA WordedOf ==
  ASSUME NEW T, NEW seq \in Seq(T)
  PROVE  /\ Worded(seq) \in Seq(T)
         /\ \A x : x \in ToSet(Worded(seq)) <=> x \in ToSet(seq) /\ ~Blank(x.text)
         /\ \E at \in [1..Len(Worded(seq)) -> 1..Len(seq)] :
              /\ \A k \in 1..Len(Worded(seq)) : Worded(seq)[k] = seq[at[k]]
              /\ \A j, k \in 1..Len(Worded(seq)) : at[j] = at[k] => j = k
<1> DEFINE Q == {x \in T : ~Blank(x.text)}  S == {i \in DOMAIN seq : ~Blank(seq[i].text)}
           at == InOrder(S)
<1>1. Len(seq) \in Nat /\ DOMAIN seq = 1..Len(seq) /\ \A i \in DOMAIN seq : seq[i] \in T
  OBVIOUS
<1>2. Within(seq, Q) = S /\ Worded(seq) = Only(seq, S)
  BY <1>1 DEF Within, Worded
<1>3. Worded(seq) = Sel(seq, Q)
  BY <1>2 DEF Sel
<1>4. S \in SUBSET (1..Len(seq))
  BY <1>1
<1>5. /\ Worded(seq) \in Seq(T)
      /\ \A x : x \in ToSet(Worded(seq)) <=> x \in ToSet(seq) /\ x \in Q
  <2> HIDE DEF Q
  <2>1. Sel(seq, Q) \in Seq(T) /\ \A x : x \in ToSet(Sel(seq, Q)) <=> x \in ToSet(seq) /\ x \in Q
    BY SelType
  <2> QED BY <1>3, <2>1
<1>6. \A x : x \in ToSet(seq) => x \in T
  BY <1>1 DEF ToSet
<1> HIDE DEF S
<1>7. /\ Len(Worded(seq)) = Cardinality(S) /\ Cardinality(S) \in Nat
      /\ \A k \in 1..Cardinality(S) : at[k] \in S /\ Worded(seq)[k] = seq[at[k]]
  BY <1>2, <1>4, OnlyOf
<1>8. Positions(S)
  BY <1>1, <1>4, Few
<1>9. at \in [1..Cardinality(S) -> S]
      /\ \A k, l \in 1..Cardinality(S) : k < l => at[k] < at[l]
  BY <1>8, Ordered
<1>10. \A k, l \in 1..Cardinality(S) : at[k] = at[l] => k = l
  <2> SUFFICES ASSUME NEW k \in 1..Cardinality(S), NEW l \in 1..Cardinality(S), k < l
               PROVE  at[k] # at[l]
    BY <1>7
  <2>1. at[k] < at[l]
    BY <1>9
  <2>2. at[k] \in Nat /\ at[l] \in Nat
    <3>1. at[k] \in S /\ at[l] \in S
      BY <1>7
    <3>2. \A i \in S : i \in Nat
      BY <1>4
    <3> HIDE DEF at
    <3> QED BY <3>1, <3>2
  <2> HIDE DEF at
  <2> QED BY <2>1, <2>2
<1> HIDE DEF at
<1>11. at \in [1..Len(Worded(seq)) -> 1..Len(seq)]
  BY <1>4, <1>7, <1>9
<1> QED BY <1>5, <1>6, <1>7, <1>10, <1>11

-----------------------------------------------------------------------------
\* A page cut off is the beginning of its edition.
LEMMA PartsOfAnEdition ==
  ASSUME NEW p \in Editions, NEW q \in Truncations(p)
  PROVE  /\ p \in Seq(PageBlocks) /\ q \in Seq(PageBlocks)
         /\ DOMAIN p = 1..Len(p) /\ DOMAIN q = 1..Len(q) /\ Len(p) \in Nat /\ Len(q) \in Nat
         /\ Len(q) <= Len(p) /\ \A i \in 1..Len(q) : q[i] = p[i]
<1>1. PICK k \in Cuts : k < Len(p) /\ q = SubSeq(p, 1, k)
  BY DEF Truncations
<1>2. p \in Seq(PageBlocks) /\ k \in Nat /\ Len(p) \in Nat
  BY StoreAssumption, EditionsAssumption
<1>3. Len(q) = k /\ \A i \in 1..k : q[i] = p[i]
  BY <1>1, <1>2
<1>4. q \in Pages
  BY DEF Pages
<1>5. q \in Seq(PageBlocks)
  BY <1>4, PagesAreSequences
<1> QED BY <1>1, <1>2, <1>3, <1>5

\* No page has two articles of the same number.
LEMMA PagesNumberedOnce == \A page \in Pages : NumberedOnce(page)
<1>1. \A p \in Editions : NumberedOnce(p)
  BY EditionsAssumption
<1>2. NumberedOnce(Challenge)
  BY DEF NumberedOnce, Challenge
<1>3. ASSUME NEW p \in Editions, NEW q \in Truncations(p) PROVE NumberedOnce(q)
  <2>1. DOMAIN q \subseteq DOMAIN p /\ \A i \in DOMAIN q : q[i] = p[i]
    BY PartsOfAnEdition
  <2> QED BY <1>1, <2>1 DEF NumberedOnce
<1> QED BY <1>1, <1>2, <1>3 DEF Pages

-----------------------------------------------------------------------------
PathKey == [a \in ParsedArticles |-> PathOf(a)]
NumKey == [r \in ParsedRecitals |-> r.num]
CodeKey == [a \in ParsedAnnexes |-> a.code]

\* The recitals that are not passed over.
LEMMA RecitedOf ==
  ASSUME NEW law \in Laws
  PROVE  Recited(law) \in Seq(ParsedRecitals) /\ ToSet(Recited(law)) \subseteq ToSet(law.recitals)
<1> DEFINE s == law.recitals
           Q == {r \in ParsedRecitals : ~Short(r.text) /\ ~Citation(r.text)}
<1>1. s \in Seq(ParsedRecitals)
  BY DEF Laws
<1>2. \A i \in DOMAIN s : s[i] \in ParsedRecitals
  BY <1>1
<1>3. Within(s, Q) = {i \in DOMAIN s : ~Short(s[i].text) /\ ~Citation(s[i].text)}
  BY <1>2 DEF Within
<1>4. Recited(law) = Sel(s, Q)
  BY <1>3 DEF Recited, Sel
<1> HIDE DEF s, Q
<1>5. Sel(s, Q) \in Seq(ParsedRecitals) /\ \A x : x \in ToSet(Sel(s, Q)) <=> x \in ToSet(s) /\ x \in Q
  BY <1>1, SelType
<1> QED BY <1>4, <1>5 DEF s

\* What a law is merged as.
LEMMA FirstsOfALaw ==
  ASSUME NEW law \in Laws
  PROVE  /\ FirstArticles(law) \in Seq(ParsedArticles)
         /\ ToSet(FirstArticles(law)) \subseteq ToSet(law.articles)
         /\ \A j, k \in 1..Len(FirstArticles(law)) :
              PathOf(FirstArticles(law)[j]) = PathOf(FirstArticles(law)[k]) => j = k
         /\ {PathOf(a) : a \in ToSet(FirstArticles(law))} = {PathOf(a) : a \in ToSet(law.articles)}
         /\ ToSet(FirstRecitals(law)) \subseteq ToSet(law.recitals)
         /\ \A r, s \in ToSet(FirstRecitals(law)) : r.num = s.num => r = s
         /\ {r.num : r \in ToSet(FirstRecitals(law))} = {r.num : r \in ToSet(Recited(law))}
         /\ {a.code : a \in ToSet(FirstAnnexes(law))} = {a.code : a \in ToSet(law.annexes)}
<1>1. /\ law.articles \in Seq(ParsedArticles) /\ law.recitals \in Seq(ParsedRecitals)
      /\ law.annexes \in Seq(ParsedAnnexes)
  BY DEF Laws
<1>2. Recited(law) \in Seq(ParsedRecitals) /\ ToSet(Recited(law)) \subseteq ToSet(law.recitals)
  BY RecitedOf
<1>t. \A T : \A s \in Seq(T) : \A x \in ToSet(s) : x \in T
  BY DEF ToSet
<1>3. /\ FirstArticles(law) \in Seq(ParsedArticles)
      /\ ToSet(FirstArticles(law)) \subseteq ToSet(law.articles)
      /\ \A j, k \in 1..Len(FirstArticles(law)) :
           PathOf(FirstArticles(law)[j]) = PathOf(FirstArticles(law)[k]) => j = k
      /\ {PathOf(a) : a \in ToSet(FirstArticles(law))} = {PathOf(a) : a \in ToSet(law.articles)}
  <2> DEFINE s == law.articles  fs == FirstBy(s, PathKey)
  <2>1. \A i \in DOMAIN s : s[i] \in ParsedArticles
    BY <1>1
  <2>2. Paths(s) = [i \in DOMAIN s |-> PathKey[s[i]]]
    BY <2>1 DEF Paths, PathKey
  <2>3. s \in Seq(ParsedArticles)
    BY <1>1
  <2> HIDE DEF s
  <2>4. /\ fs \in Seq(ParsedArticles) /\ ToSet(fs) \subseteq ToSet(s)
        /\ \A j, k \in 1..Len(fs) : PathKey[fs[j]] = PathKey[fs[k]] => j = k
        /\ {PathKey[x] : x \in ToSet(fs)} = {PathKey[x] : x \in ToSet(s)}
    BY <2>3, FirstsByKey
  <2> HIDE DEF fs
  <2>5. \A x \in ToSet(s) : PathKey[x] = PathOf(x)
    BY <2>3, <1>t DEF PathKey
  <2>6. \A x \in ToSet(fs) : PathKey[x] = PathOf(x)
    BY <2>4, <2>5
  <2>7. {PathOf(x) : x \in ToSet(fs)} = {PathOf(x) : x \in ToSet(s)}
    BY <2>4, <2>5, <2>6
  <2>8. \A j \in 1..Len(fs) : PathKey[fs[j]] = PathOf(fs[j])
    BY <2>4 DEF PathKey
  <2>9. \A j, k \in 1..Len(fs) : PathOf(fs[j]) = PathOf(fs[k]) => j = k
    BY <2>4, <2>8
  <2> QED BY <2>2, <2>4, <2>7, <2>9 DEF FirstArticles, FirstBy, fs, s
<1>4. /\ ToSet(FirstRecitals(law)) \subseteq ToSet(law.recitals)
      /\ \A x, y \in ToSet(FirstRecitals(law)) : x.num = y.num => x = y
      /\ {r.num : r \in ToSet(FirstRecitals(law))} = {r.num : r \in ToSet(Recited(law))}
  <2> DEFINE s == Recited(law)  fs == FirstBy(s, NumKey)
  <2>1. \A i \in DOMAIN s : s[i] \in ParsedRecitals
    BY <1>2
  <2>2. Nums(s) = [i \in DOMAIN s |-> NumKey[s[i]]]
    BY <2>1 DEF Nums, NumKey
  <2>3. s \in Seq(ParsedRecitals) /\ ToSet(s) \subseteq ToSet(law.recitals)
    BY <1>2
  <2> HIDE DEF s
  <2>4. /\ fs \in Seq(ParsedRecitals) /\ ToSet(fs) \subseteq ToSet(s)
        /\ \A j, k \in 1..Len(fs) : NumKey[fs[j]] = NumKey[fs[k]] => j = k
        /\ {NumKey[x] : x \in ToSet(fs)} = {NumKey[x] : x \in ToSet(s)}
    BY <2>3, FirstsByKey
  <2> HIDE DEF fs
  <2>5. \A x \in ToSet(s) : NumKey[x] = x.num
    BY <2>3, <1>t DEF NumKey
  <2>6. \A x \in ToSet(fs) : NumKey[x] = x.num
    BY <2>4, <2>5
  <2>7. {x.num : x \in ToSet(fs)} = {x.num : x \in ToSet(s)}
    BY <2>4, <2>5, <2>6
  <2>8. \A x : x \in ToSet(fs) <=> \E k \in 1..Len(fs) : x = fs[k]
    BY <2>4 DEF ToSet
  <2>9. \A x, y \in ToSet(fs) : x.num = y.num => x = y
    BY <2>4, <2>6, <2>8
  <2> QED BY <2>2, <2>3, <2>4, <2>7, <2>9 DEF FirstRecitals, FirstBy, fs, s
<1>5. {a.code : a \in ToSet(FirstAnnexes(law))} = {a.code : a \in ToSet(law.annexes)}
  <2> DEFINE s == law.annexes  fs == FirstBy(s, CodeKey)
  <2>1. \A i \in DOMAIN s : s[i] \in ParsedAnnexes
    BY <1>1
  <2>2. Codes(s) = [i \in DOMAIN s |-> CodeKey[s[i]]]
    BY <2>1 DEF Codes, CodeKey
  <2>3. s \in Seq(ParsedAnnexes)
    BY <1>1
  <2> HIDE DEF s
  <2>4. /\ ToSet(fs) \subseteq ToSet(s)
        /\ {CodeKey[x] : x \in ToSet(fs)} = {CodeKey[x] : x \in ToSet(s)}
    BY <2>3, FirstsByKey
  <2> HIDE DEF fs
  <2>5. \A x \in ToSet(s) : CodeKey[x] = x.code
    BY <2>3, <1>t DEF CodeKey
  <2>6. \A x \in ToSet(fs) : CodeKey[x] = x.code
    BY <2>4, <2>5
  <2>7. {x.code : x \in ToSet(fs)} = {x.code : x \in ToSet(s)}
    BY <2>4, <2>5, <2>6
  <2> QED BY <2>2, <2>7 DEF FirstAnnexes, FirstBy, fs, s
<1> QED BY <1>3, <1>4, <1>5

-----------------------------------------------------------------------------
\* Articles given the keys from m on.
NewRows(m, ns, xs) == {Article(m + k - 1, ns[k], xs[k]) : k \in DOMAIN xs}

Numbering(ns, xs) ==
  /\ \A k \in 1..Len(xs) : ns[k] \in AllNums \X Seq(AllLabels)
  /\ \A k \in 1..Len(xs) : ns[k][1] = xs[k].num
  /\ \A j, k \in 1..Len(xs) : ns[j] = ns[k] => j = k

\* New rows are the articles, one row each, without a verdict.
LEMMA NewRowsAreTheArticles ==
  ASSUME NEW xs \in Seq(ParsedArticles), NEW m \in Nat \ {0}, NEW ns,
         Numbering(ns, xs),
         \A j, k \in 1..Len(xs) : PathOf(xs[j]) = PathOf(xs[k]) => j = k
  PROVE  LET rows == NewRows(m, ns, xs) IN
         /\ Stored(rows)
         /\ \A r \in rows : m <= r.id /\ r.verdict = NoVerdict
         /\ {PathOf(r) : r \in rows} = {PathOf(a) : a \in ToSet(xs)}
         /\ \A r \in rows : \E a \in ToSet(xs) : PathOf(a) = PathOf(r) /\ a.text = r.text
<1> DEFINE n == Len(xs)  row(k) == Article(m + k - 1, ns[k], xs[k])  rows == NewRows(m, ns, xs)
<1>1. n \in Nat /\ DOMAIN xs = 1..n /\ \A k \in 1..n : xs[k] \in ParsedArticles
  OBVIOUS
<1>2. \A k \in 1..n :
        /\ row(k).id = m + k - 1 /\ row(k).number = ns[k] /\ row(k).num = xs[k].num
        /\ row(k).path = xs[k].path /\ row(k).title = xs[k].title /\ row(k).text = xs[k].text
        /\ row(k).verdict = NoVerdict
        /\ row(k) = [id |-> m + k - 1, number |-> ns[k], num |-> xs[k].num, path |-> xs[k].path,
                     title |-> xs[k].title, text |-> xs[k].text, verdict |-> NoVerdict]
  BY DEF Article
<1>3. rows = {row(k) : k \in 1..n}
  BY <1>1 DEF NewRows
<1>4. NoVerdict \in Verdicts
  <2>1. << >> \in Seq(Paragraphs)
    BY EmptySeq
  <2> QED BY <2>1 DEF NoVerdict, Verdicts
<1>5. \A k \in 1..n : row(k) \in Rows
  <2> TAKE k \in 1..n
  <2>1. m + k - 1 \in Nat \ {0}
    BY <1>1
  <2>2. /\ xs[k].num \in AllNums /\ xs[k].path \in Seq(AllLabels) /\ xs[k].title \in AllTitles
        /\ xs[k].text \in Seq(Paragraphs)
    BY <1>1 DEF ParsedArticles
  <2>3. ns[k] \in AllNums \X Seq(AllLabels) /\ ns[k][1] = xs[k].num
    BY DEF Numbering
  <2>4. row(k) \in RowRecords
    <3> DEFINE N == AllNums \X Seq(AllLabels)
    <3>1. RowRecords =
            [id : Nat \ {0}, number : N, num : AllNums, path : Seq(AllLabels),
             title : AllTitles, text : Seq(Paragraphs), verdict : Verdicts]
      BY DEF RowRecords
    <3>2. ns[k] \in N
      BY <2>3
    <3> HIDE DEF N, row
    <3> QED BY <1>2, <1>4, <2>1, <2>2, <3>1, <3>2
  <2> HIDE DEF row
  <2>5. row(k).number[1] = row(k).num
    BY <1>2, <2>3
  <2> QED BY <2>4, <2>5 DEF Rows
<1>6. \A k \in 1..n : PathOf(row(k)) = PathOf(xs[k])
  <2> HIDE DEF row
  <2> QED BY <1>2 DEF PathOf
<1> HIDE DEF rows, row
<1>7. IsFiniteSet(rows)
  <2> DEFINE f == [k \in 1..n |-> row(k)]
  <2>1. f \in Surjection(1..n, rows)
    BY <1>3 DEF Surjection
  <2>2. IsFiniteSet(1..n)
    BY <1>1, FS_Interval
  <2> HIDE DEF f, n
  <2> QED BY <2>1, <2>2, FS_Surjection
<1>8. Differ(rows)
  <2> SUFFICES ASSUME NEW j \in 1..n, NEW k \in 1..n,
                      row(j).id = row(k).id \/ row(j).number = row(k).number
                        \/ PathOf(row(j)) = PathOf(row(k))
               PROVE  j = k
    BY <1>3 DEF Differ
  <2>1. row(j).id = row(k).id => j = k
    <3>1. row(j).id = m + j - 1 /\ row(k).id = m + k - 1 /\ m \in Nat /\ j \in Nat /\ k \in Nat
      BY <1>1, <1>2
    <3> QED BY <3>1
  <2>2. row(j).number = row(k).number => j = k
    <3>1. ns[j] = ns[k] => j = k
      BY DEF Numbering
    <3> QED BY <1>2, <3>1
  <2>3. PathOf(row(j)) = PathOf(row(k)) => j = k
    BY <1>6
  <2> QED BY <2>1, <2>2, <2>3
<1>9. Stored(rows)
  BY <1>3, <1>5, <1>7, <1>8 DEF Stored
<1>10. \A r \in rows : m <= r.id /\ r.verdict = NoVerdict
  <2>1. \A k \in 1..n : m <= m + k - 1
    BY <1>1
  <2> QED BY <1>2, <1>3, <2>1
<1>11. \A x : x \in ToSet(xs) <=> \E k \in 1..n : x = xs[k]
  BY <1>1 DEF ToSet
<1>12. {PathOf(r) : r \in rows} = {PathOf(a) : a \in ToSet(xs)}
  <2> HIDE DEF n
  <2> QED BY <1>3, <1>6, <1>11
<1>13. \A r \in rows : \E a \in ToSet(xs) : PathOf(a) = PathOf(r) /\ a.text = r.text
  BY <1>2, <1>3, <1>6, <1>11
<1> QED BY <1>9, <1>10, <1>12, <1>13 DEF rows

-----------------------------------------------------------------------------
(* ingest_one and ingest_frameworks *)

NothingIn(st) == st.articles = {} /\ st.recitals = {} /\ st.annexes = {}
SameTexts(st, law) ==
  \A r \in st.articles : \E a \in ToSet(law.articles) : PathOf(a) = PathOf(r) /\ a.text = r.text
\* What a script stores of a law.
Loads(law) == {ByIngestOne(law), ByFrameworks(law)}
Holds(st, what) ==
  /\ {PathOf(r) : r \in st.articles} = {PathOf(a) : a \in what.articles}
  /\ st.recitals = what.recitals /\ st.annexes = what.annexes
IsTheLaw(st, law) == SameTexts(st, law) /\ \E what \in Loads(law) : Holds(st, what)
OnceNumbered(recitals) == \A r, s \in recitals : r.num = s.num => r = s
OwnVerdicts(rows) ==
  \A r \in rows : r.verdict # NoVerdict /\ ~r.verdict.stale => r.verdict.text = r.text
\* What is stored is one page, or nothing; another law has the key.
OnePage(st, key) ==
  /\ st = [known |-> st.known, articles |-> st.articles, recitals |-> st.recitals,
           annexes |-> st.annexes, chunks |-> st.chunks]
  /\ st.known \in BOOLEAN /\ Stored(st.articles) /\ OwnVerdicts(st.articles)
  /\ OnceNumbered(st.recitals)
  /\ ~st.known => NothingIn(st)
  /\ st.known => \E page \in Pages : IsTheLaw(st, Parsed[page])
  /\ \A r \in st.articles : r.id # key

\* Nothing may be stored.
LEMMA NothingStored == Stored({}) /\ OnePage(NoLaw, others) /\ NothingIn(NoLaw)
<1>1. Stored({})
  BY FS_EmptySet DEF Stored, Differ
<1> QED BY <1>1 DEF OnePage, NoLaw, NothingIn, OwnVerdicts, OnceNumbered

\* Every page is parsed to a law.
LEMMA ParsedIsALaw == \A page \in Pages : Parsed[page] \in Laws /\ Parsed[page] = ParseLaw(page)
<1> TAKE page \in Pages
<1>1. page \in Seq(PageBlocks) /\ Parsed[page] = ParseLaw(page)
  BY PagesAreSequences DEF Parsed
<1> QED BY <1>1, ParseIsLegible DEF Legible

\* ingest_one replaces what is stored by its page.
LEMMA IngestedIsThePage ==
  ASSUME NEW page \in Pages, Unique(Parsed[page]), others \in Nat
  PROVE  OnePage(Ingested(Parsed[page]), others)
<1> DEFINE law == Parsed[page]  xs == Kept(law)  m == NextId({})
           ns == [k \in 1..Len(xs) |-> <<xs[k].num, << >>>>]
           rows == NewRows(m, ns, xs)  st == Ingested(law)
<1>1. law \in Laws /\ law = ParseLaw(page) /\ page \in Seq(PageBlocks)
  BY ParsedIsALaw, PagesAreSequences
<1>2. law.articles \in Seq(ParsedArticles)
  BY <1>1 DEF Laws
<1>3. /\ xs \in Seq(ParsedArticles)
      /\ \A x : x \in ToSet(xs) => x \in ToSet(law.articles)
      /\ \E at \in [1..Len(xs) -> 1..Len(law.articles)] :
           /\ \A k \in 1..Len(xs) : xs[k] = law.articles[at[k]]
           /\ \A j, k \in 1..Len(xs) : at[j] = at[k] => j = k
  <2> HIDE DEF law
  <2> QED BY <1>2, WordedOf DEF Kept
<1>4. m \in Nat \ {0} /\ others < m
  BY NothingStored, NextIdIsNew
<1>5. \A i, j \in 1..Len(law.articles) : law.articles[i].num = law.articles[j].num => i = j
  BY <1>1, ParsedNumbers, PagesNumberedOnce
<1> HIDE DEF law
<1>6. st = [known |-> TRUE, articles |-> {} \cup NewRows(m, ns, xs),
            recitals |-> ToSet(Worded(law.recitals)), annexes |-> ToSet(law.annexes),
            chunks |-> ChunkLaw(law)]
  <2>1. DOMAIN xs = 1..Len(xs)
    BY <1>3
  <2>2. \A k \in DOMAIN xs : ns[k] = <<xs[k].num, << >>>>
    BY <2>1
  <2>3. {Article(m + k - 1, <<xs[k].num, << >>>>, xs[k]) : k \in DOMAIN xs} = NewRows(m, ns, xs)
    BY <2>2 DEF NewRows
  <2> QED BY <2>3 DEF Ingested, LawRows
<1> HIDE DEF xs, m
<1>7. Numbering(ns, xs)
  <2>1. \A k \in 1..Len(xs) : xs[k].num \in AllNums
    <3>1. \A k \in 1..Len(xs) : xs[k] \in ParsedArticles
      BY <1>3, ElementOfSeq
    <3>2. \A a \in ParsedArticles : a.num \in AllNums
      BY DEF ParsedArticles
    <3> QED BY <3>1, <3>2
  <2>2. << >> \in Seq(AllLabels)
    BY EmptySeq
  <2>3. \A k \in 1..Len(xs) : ns[k] = <<xs[k].num, << >>>>
    OBVIOUS
  <2>4. \A k \in 1..Len(xs) : ns[k] \in AllNums \X Seq(AllLabels)
    BY <2>1, <2>2, <2>3
  <2>5. \A k \in 1..Len(xs) : ns[k][1] = xs[k].num
    BY <2>3
  <2>6. \A j, k \in 1..Len(xs) : xs[j].num = xs[k].num => j = k
    BY SMTT(30), <1>3, <1>5
  <2> HIDE DEF ns
  <2>7. \A j, k \in 1..Len(xs) : ns[j] = ns[k] => j = k
    BY <2>5, <2>6
  <2> QED BY <2>4, <2>5, <2>7 DEF Numbering
<1>8. \A j, k \in 1..Len(xs) : PathOf(xs[j]) = PathOf(xs[k]) => j = k
  <2>1. IsInjective(Paths(xs))
    BY DEF Unique, law, xs
  <2>2. DOMAIN xs = 1..Len(xs)
    BY <1>3
  <2> QED BY <2>1, <2>2 DEF IsInjective, Paths
<1> HIDE DEF ns
<1>9. /\ Stored(rows)
      /\ \A r \in rows : m <= r.id /\ r.verdict = NoVerdict
      /\ {PathOf(r) : r \in rows} = {PathOf(a) : a \in ToSet(xs)}
      /\ \A r \in rows : \E a \in ToSet(xs) : PathOf(a) = PathOf(r) /\ a.text = r.text
  <2>1. xs \in Seq(ParsedArticles) /\ m \in Nat \ {0}
    BY <1>3, <1>4
  <2> QED BY ZenonT(40), <2>1, <1>7, <1>8, NewRowsAreTheArticles
<1> HIDE DEF st
<1>10. st.articles = rows /\ st.known = TRUE
       /\ st.recitals = ToSet(Worded(law.recitals)) /\ st.annexes = ToSet(law.annexes)
  BY <1>6
<1> HIDE DEF rows
<1>11. IsTheLaw(st, law)
  <2>1. Holds(st, ByIngestOne(law))
    BY <1>9, <1>10 DEF Holds, ByIngestOne, xs
  <2>2. SameTexts(st, law)
    BY <1>3, <1>9, <1>10 DEF SameTexts
  <2> QED BY <2>1, <2>2 DEF IsTheLaw, Loads
<1>12. \A r \in rows : r.id # others
  <2>1. \A r \in rows : r.id \in Nat
    BY <1>9 DEF Stored, Rows, RowRecords
  <2> QED BY <2>1, <1>4, <1>9
<1>13. OwnVerdicts(st.articles)
  BY <1>9, <1>10 DEF OwnVerdicts
<1>14. st = [known |-> st.known, articles |-> st.articles, recitals |-> st.recitals,
             annexes |-> st.annexes, chunks |-> st.chunks]
  BY <1>6
<1>15. \E p \in Pages : IsTheLaw(st, Parsed[p])
  BY <1>11 DEF law
<1>16. OnceNumbered(st.recitals)
  <2> DEFINE ws == Worded(law.recitals)
  <2>1. IsInjective(Nums(ws))
    BY DEF Unique, law
  <2>2. \A x : x \in ToSet(ws) <=> \E k \in DOMAIN ws : x = ws[k]
    BY DEF ToSet
  <2> HIDE DEF ws
  <2>3. \A i, j \in DOMAIN ws : ws[i].num = ws[j].num => i = j
    BY <2>1 DEF IsInjective, Nums
  <2>4. st.recitals = ToSet(ws)
    BY <1>10 DEF ws
  <2> QED BY <2>2, <2>3, <2>4 DEF OnceNumbered
<1>17. OnePage(st, others)
  BY <1>9, <1>10, <1>12, <1>13, <1>14, <1>15, <1>16 DEF OnePage
<1> QED BY <1>17 DEF st, law

\* ingest_frameworks adds its page where nothing is, or adds nothing.
LEMMA MergedIsThePage ==
  ASSUME NEW page \in Pages, NEW base, OnePage(base, others), ~Clash(Parsed[page], base), others \in Nat
  PROVE  OnePage(Merged(Parsed[page], base), others)
<1> DEFINE law == Parsed[page]  xs == FirstArticles(law)  m == NextId(base.articles)
           ns == [k \in 1..Len(xs) |-> <<xs[k].num, xs[k].path>>]
           rows == NewRows(m, ns, xs)  st == Merged(law, base)
<1>1. law \in Laws
  BY ParsedIsALaw
<1>2. /\ xs \in Seq(ParsedArticles) /\ ToSet(xs) \subseteq ToSet(law.articles)
      /\ \A j, k \in 1..Len(xs) : PathOf(xs[j]) = PathOf(xs[k]) => j = k
      /\ OnceNumbered(ToSet(FirstRecitals(law)))
  <2> HIDE DEF law
  <2> QED BY <1>1, FirstsOfALaw DEF OnceNumbered
<1>3. m \in Nat \ {0} /\ others < m
  BY NextIdIsNew DEF OnePage
<1> HIDE DEF law
<1>4. st = [known |-> TRUE, articles |-> base.articles \cup rows,
            recitals |-> base.recitals \cup ToSet(FirstRecitals(law)),
            annexes |-> base.annexes \cup ToSet(FirstAnnexes(law)), chunks |-> store.chunks]
  <2>1. DOMAIN xs = 1..Len(xs)
    BY <1>2
  <2>2. \A k \in DOMAIN xs : ns[k] = <<xs[k].num, xs[k].path>>
    BY <2>1
  <2>3. {Article(m + k - 1, <<xs[k].num, xs[k].path>>, xs[k]) : k \in DOMAIN xs} = rows
    BY <2>2 DEF NewRows
  <2> QED BY <2>3 DEF Merged
<1> HIDE DEF m
<1>5. st = [known |-> st.known, articles |-> st.articles, recitals |-> st.recitals,
            annexes |-> st.annexes, chunks |-> st.chunks]
      /\ st.known = TRUE /\ st.articles = base.articles \cup rows
      /\ st.recitals = base.recitals \cup ToSet(FirstRecitals(law))
      /\ st.annexes = base.annexes \cup ToSet(FirstAnnexes(law))
  <2> HIDE DEF st, rows
  <2> QED BY <1>4
<1> HIDE DEF st
<1>6. CASE NothingIn(base)
  <2> HIDE DEF xs
  <2>1. Numbering(ns, xs)
    <3>1. \A k \in 1..Len(xs) : xs[k].num \in AllNums /\ xs[k].path \in Seq(AllLabels)
      <4>1. \A k \in 1..Len(xs) : xs[k] \in ParsedArticles
        BY <1>2, ElementOfSeq
      <4>2. \A a \in ParsedArticles : a.num \in AllNums /\ a.path \in Seq(AllLabels)
        BY DEF ParsedArticles
      <4> QED BY <4>1, <4>2
    <3>2. \A k \in 1..Len(xs) : ns[k] = <<xs[k].num, xs[k].path>>
      OBVIOUS
    <3>3. \A k \in 1..Len(xs) : ns[k] \in AllNums \X Seq(AllLabels)
      BY <3>1, <3>2
    <3>4. \A k \in 1..Len(xs) : ns[k][1] = xs[k].num
      BY <3>2
    <3>5. \A k \in 1..Len(xs) : ns[k] = PathOf(xs[k])
      BY <3>2 DEF PathOf
    <3> HIDE DEF ns
    <3>6. \A j, k \in 1..Len(xs) : ns[j] = ns[k] => j = k
      BY <1>2, <3>5
    <3> QED BY <3>3, <3>4, <3>6 DEF Numbering
  <2> HIDE DEF ns
  <2>2. /\ Stored(rows)
        /\ \A r \in rows : m <= r.id /\ r.verdict = NoVerdict
        /\ {PathOf(r) : r \in rows} = {PathOf(a) : a \in ToSet(xs)}
        /\ \A r \in rows : \E a \in ToSet(xs) : PathOf(a) = PathOf(r) /\ a.text = r.text
    BY ZenonT(40), <1>2, <1>3, <2>1, NewRowsAreTheArticles
  <2> HIDE DEF rows
  <2>3. st.articles = rows /\ st.recitals = ToSet(FirstRecitals(law))
        /\ st.annexes = ToSet(FirstAnnexes(law))
    BY <1>5, <1>6 DEF NothingIn
  <2>4. IsTheLaw(st, law)
    <3>1. Holds(st, ByFrameworks(law))
      BY <2>2, <2>3 DEF Holds, ByFrameworks, xs
    <3>2. SameTexts(st, law)
      BY <1>2, <2>2, <2>3 DEF SameTexts
    <3> QED BY <3>1, <3>2 DEF IsTheLaw, Loads
  <2>5. \A r \in rows : r.id # others
    <3>1. \A r \in rows : r.id \in Nat
      BY <2>2 DEF Stored, Rows, RowRecords
    <3> QED BY <3>1, <1>3, <2>2
  <2>6. OwnVerdicts(st.articles)
    BY <2>2, <2>3 DEF OwnVerdicts
  <2>7. \E p \in Pages : IsTheLaw(st, Parsed[p])
    BY <2>4 DEF law
  <2>8. Stored(st.articles) /\ \A r \in st.articles : r.id # others
    BY <2>2, <2>3, <2>5
  <2>9. OnceNumbered(st.recitals)
    BY <1>2, <2>3
  <2>10. OnePage(st, others)
    BY <1>5, <2>6, <2>7, <2>8, <2>9 DEF OnePage
  <2> QED BY <2>10 DEF st, law
<1>7. CASE ~NothingIn(base)
  <2>1. base.known = TRUE
    BY <1>7 DEF OnePage
  <2>2. PICK p \in Pages : IsTheLaw(base, Parsed[p])
    BY <2>1 DEF OnePage
  <2>3. PICK what \in Loads(Parsed[p]) : Holds(base, what)
    BY <2>2 DEF IsTheLaw
  <2>4. ~Void(what)
    <3> SUFFICES ASSUME Void(what) PROVE FALSE
      OBVIOUS
    <3>1. {PathOf(r) : r \in base.articles} = {} /\ base.recitals = {} /\ base.annexes = {}
      BY <2>3 DEF Holds, Void
    <3>2. base.articles = {}
      BY <3>1
    <3> QED BY <1>7, <3>1, <3>2 DEF NothingIn
  <2>5. ~Clash(law, what)
    <3>1. ~Clash(law, base)
      BY DEF law
    <3>2. \A r \in what.articles : \E q \in base.articles : PathOf(q) = PathOf(r)
      <4>1. \A r \in what.articles : PathOf(r) \in {PathOf(q) : q \in base.articles}
        BY <2>3 DEF Holds
      <4> QED BY <4>1
    <3>3. base.recitals = what.recitals /\ base.annexes = what.annexes
      BY <2>3 DEF Holds
    <3> QED BY <3>1, <3>2, <3>3 DEF Clash
  <2>6. Void(ByFrameworks(law))
    <3>1. Void(what) \/ Void(ByFrameworks(Parsed[page])) \/ Clash(Parsed[page], what)
      BY OpeningAssumption DEF Loads
    <3> QED BY <2>4, <2>5, <3>1 DEF law
  <2>8. ToSet(xs) = {} /\ ToSet(FirstRecitals(law)) = {} /\ ToSet(FirstAnnexes(law)) = {}
    BY <2>6 DEF Void, ByFrameworks, xs
  <2>9. rows = {}
    <3>1. DOMAIN xs = {}
      BY <2>8 DEF ToSet
    <3> HIDE DEF xs, ns
    <3> QED BY <3>1 DEF NewRows
  <2> HIDE DEF rows, xs
  <2>10. st.articles = base.articles /\ st.recitals = base.recitals /\ st.annexes = base.annexes
    BY <1>5, <2>8, <2>9
  <2>11. IsTheLaw(st, Parsed[p])
    <3>1. SameTexts(st, Parsed[p])
      BY <2>2, <2>10 DEF IsTheLaw, SameTexts
    <3>2. Holds(st, what)
      BY <2>3, <2>10 DEF Holds
    <3> QED BY <3>1, <3>2 DEF IsTheLaw
  <2>12. Stored(st.articles) /\ OwnVerdicts(st.articles) /\ OnceNumbered(st.recitals) /\ \A r \in st.articles : r.id # others
    BY <2>10 DEF OnePage
  <2>13. \E q \in Pages : IsTheLaw(st, Parsed[q])
    BY <2>11
  <2>14. OnePage(st, others)
    BY <1>5, <2>12, <2>13 DEF OnePage
  <2> QED BY <2>14 DEF st, law
<1> QED BY <1>6, <1>7

-----------------------------------------------------------------------------
(* classify_detection_methods *)

\* Rows of which only the verdicts are written anew.
Anew(J, rows) ==
  \A r \in rows : /\ J[r] \in Rows /\ J[r].id = r.id /\ J[r].number = r.number
                  /\ PathOf(J[r]) = PathOf(r) /\ J[r].text = r.text

Image(J, rows) == {J[r] : r \in rows}

\* Verdicts written anew leave rows that may be stored, with the same paths.
LEMMA StoredAnew ==
  ASSUME NEW rows, Stored(rows), NEW J, Anew(J, rows)
  PROVE  /\ Stored(Image(J, rows))
         /\ {PathOf(s) : s \in Image(J, rows)} = {PathOf(r) : r \in rows}
<1> DEFINE new == Image(J, rows)
<1> USE DEF Image
<1>1. new \in SUBSET Rows
  BY DEF Anew
<1>2. IsFiniteSet(new)
  <2> DEFINE f == [r \in rows |-> J[r]]
  <2>1. f \in Surjection(rows, new)
    BY DEF Surjection
  <2> HIDE DEF f
  <2> QED BY <2>1, FS_Surjection DEF Stored
<1>3. Differ(new)
  <2> SUFFICES ASSUME NEW r \in rows, NEW s \in rows,
                      J[r].id = J[s].id \/ J[r].number = J[s].number \/ PathOf(J[r]) = PathOf(J[s])
               PROVE  J[r] = J[s]
    BY DEF Differ
  <2>1. r.id = s.id \/ r.number = s.number \/ PathOf(r) = PathOf(s)
    BY DEF Anew
  <2> QED BY <2>1 DEF Stored, Differ
<1>4. {PathOf(s) : s \in new} = {PathOf(r) : r \in rows}
  <2>1. \A r \in rows : PathOf(J[r]) = PathOf(r)
    BY DEF Anew
  <2> QED BY <2>1
<1> QED BY <1>1, <1>2, <1>3, <1>4 DEF Stored

SaysTheSame(rows, items) == \A i \in items, r \in rows : i.id = r.id => i.text = r.text

\* Rows after a batch of verdicts, each about the text it stands next to.
Reclassified(rows, items, new, stale) ==
  /\ Stored(new) /\ OwnVerdicts(new)
  /\ {PathOf(s) : s \in new} = {PathOf(r) : r \in rows}
  /\ \A s \in new : \E r \in rows : s.id = r.id /\ PathOf(s) = PathOf(r) /\ s.text = r.text
  /\ ~stale => \A s \in new : s.verdict = NoVerdict /\ ~Short(s.text) =>
       s \in rows /\ \A i \in items : i.id # s.id

\* A batch of verdicts: every verdict is about the text next to it, and what
\* has none still had none and was not in the batch.
LEMMA ClassifiedRows ==
  ASSUME NEW rows, Stored(rows), OwnVerdicts(rows), NEW items \in SUBSET Tasks, NEW answered,
         cls.stale \in BOOLEAN, ~cls.stale => SaysTheSame(rows, items)
  PROVE  Reclassified(rows, items, Classified(rows, items, answered), cls.stale)
<1> DEFINE V(r) == [text |-> (CHOOSE i \in items : i.id = r.id).text,
                    answered |-> r.id \in answered, stale |-> cls.stale]
           J == [r \in rows |-> IF \E i \in items : i.id = r.id THEN [r EXCEPT !.verdict = V(r)] ELSE r]
           new == Classified(rows, items, answered)
<1>1. new = {J[r] : r \in rows}
  BY DEF Classified
<1>2. \A r \in rows : r \in Rows
  BY DEF Stored
<1>3. \A r \in rows : (\E i \in items : i.id = r.id) =>
        /\ (CHOOSE i \in items : i.id = r.id) \in items
        /\ (CHOOSE i \in items : i.id = r.id).id = r.id
  OBVIOUS
<1>4. \A r \in rows : (\E i \in items : i.id = r.id) => V(r) \in Verdicts
  <2>1. \A i \in items : i.text \in Seq(Paragraphs)
    BY DEF Tasks
  <2> QED BY <1>3, <2>1 DEF Verdicts
<1>5. ASSUME NEW r \in rows, \E i \in items : i.id = r.id
      PROVE  /\ J[r] \in Rows /\ J[r].id = r.id /\ J[r].number = r.number /\ J[r].num = r.num
             /\ J[r].path = r.path /\ J[r].text = r.text /\ J[r].verdict = V(r)
  <2> DEFINE N == AllNums \X Seq(AllLabels)  v == V(r)
  <2>1. J[r] = [r EXCEPT !.verdict = v]
    BY <1>5
  <2>2. v \in Verdicts
    BY <1>4, <1>5
  <2>3. RowRecords =
          [id : Nat \ {0}, number : N, num : AllNums, path : Seq(AllLabels),
           title : AllTitles, text : Seq(Paragraphs), verdict : Verdicts]
    BY DEF RowRecords
  <2> HIDE DEF N, v, J
  <2>4. r \in RowRecords /\ r.number[1] = r.num
    BY <1>2 DEF Rows
  <2>5. /\ J[r] \in RowRecords /\ J[r].id = r.id /\ J[r].number = r.number /\ J[r].num = r.num
        /\ J[r].path = r.path /\ J[r].text = r.text /\ J[r].verdict = v
    BY <2>1, <2>2, <2>3, <2>4
  <2>6. J[r] \in Rows
    BY <2>4, <2>5 DEF Rows
  <2> QED BY <2>5, <2>6 DEF v
<1>6. \A r \in rows : ~(\E i \in items : i.id = r.id) => J[r] = r
  OBVIOUS
<1> HIDE DEF J
<1>7. Anew(J, rows)
  <2> SUFFICES ASSUME NEW r \in rows
               PROVE  /\ J[r] \in Rows /\ J[r].id = r.id /\ J[r].number = r.number
                      /\ PathOf(J[r]) = PathOf(r) /\ J[r].text = r.text
    BY DEF Anew
  <2>1. CASE \E i \in items : i.id = r.id
    BY <1>5, <2>1 DEF PathOf
  <2>2. CASE ~(\E i \in items : i.id = r.id)
    BY <1>2, <1>6, <2>2
  <2> QED BY <2>1, <2>2
<1> HIDE DEF new
<1>8. Stored(new) /\ {PathOf(s) : s \in new} = {PathOf(r) : r \in rows}
  <2>1. new = Image(J, rows)
    BY <1>1 DEF Image
  <2> QED BY <2>1, <1>7, StoredAnew
<1>9. \A s \in new : \E r \in rows : s.id = r.id /\ PathOf(s) = PathOf(r) /\ s.text = r.text
  BY <1>1, <1>7 DEF Anew
<1>10. \A r \in rows : (\E i \in items : i.id = r.id) /\ ~cls.stale => V(r).text = r.text
  BY <1>3 DEF SaysTheSame
<1>11. OwnVerdicts(new)
  <2> SUFFICES ASSUME NEW r \in rows, J[r].verdict # NoVerdict, ~J[r].verdict.stale
               PROVE  J[r].verdict.text = J[r].text
    BY <1>1 DEF OwnVerdicts
  <2>1. CASE \E i \in items : i.id = r.id
    <3>1. J[r].verdict = V(r) /\ J[r].text = r.text
      BY <1>5, <2>1
    <3>2. ~cls.stale
      BY <3>1
    <3> QED BY <1>10, <2>1, <3>1, <3>2
  <2>2. CASE ~(\E i \in items : i.id = r.id)
    BY <1>6, <2>2 DEF OwnVerdicts
  <2> QED BY <2>1, <2>2
<1>12. ASSUME ~cls.stale, NEW s \in new, s.verdict = NoVerdict, ~Short(s.text)
       PROVE  s \in rows /\ \A i \in items : i.id # s.id
  <2>1. PICK r \in rows : s = J[r]
    BY <1>1
  <2>2. CASE \E i \in items : i.id = r.id
    <3>1. s.verdict = V(r) /\ s.text = r.text
      BY <1>5, <2>1, <2>2
    <3>2. V(r).text = r.text
      BY <1>10, <1>12, <2>2
    <3>3. r.text = << >>
      BY <1>12, <3>1, <3>2 DEF NoVerdict
    <3>4. Short(<< >>)
      BY ShortAssumption
    <3> QED BY <1>12, <3>1, <3>3, <3>4
  <2>3. CASE ~(\E i \in items : i.id = r.id)
    BY <1>6, <2>1, <2>3
  <2> QED BY <2>2, <2>3
<1>13. Reclassified(rows, items, new, cls.stale)
  BY <1>8, <1>9, <1>11, <1>12 DEF Reclassified
<1> QED BY <1>13 DEF new

-----------------------------------------------------------------------------
(* The invariant of LegalStore *)

Scripts ==
  /\ raw \in Pages \cup {NoPage} /\ others \in Nat
  /\ lock \in {"free", "frameworks", "assess"}
  /\ imp.pc \in {"idle", "download", "parsed"} /\ imp.page \in Pages
  /\ fwk.pc \in {"idle", "session"} /\ fwk.page \in Pages
  /\ lock = "frameworks" => fwk.pc = "session" /\ fwk.replace
  /\ starts \in 0..MaxStarts /\ faults \in 0..MaxFaults

Runs == [pc : {"idle", "run", "done"}, todo : Seq(Tasks), size : Nat, all : BOOLEAN, stale : BOOLEAN]
\* What a run has read of a row is what the row says.
UpToDate(todo, rows) ==
  \A k \in 1..Len(todo), r \in rows : r.id = todo[k].id => r.text = todo[k].text
Open(rows) == {r \in rows : r.verdict = NoVerdict /\ ~Short(r.text)}
\* A run for all of them has still to do what has no verdict.
Remains(todo, rows) == \A r \in Open(rows) : \E k \in 1..Len(todo) : todo[k].id = r.id
RunFor(run, rows) ==
  /\ run \in Runs /\ (run.pc = "run") = (run.todo # << >>)
  /\ ~run.stale => UpToDate(run.todo, rows)
  /\ run.all /\ ~run.stale /\ run.pc # "idle" => Remains(run.todo, rows)

StoreInv == Scripts /\ OnePage(store, others) /\ RunFor(cls, store.articles)

\* The scripts begin with nothing stored.
LEMMA StoreInitially == StoreInit => StoreInv
<1> SUFFICES ASSUME StoreInit PROVE StoreInv
  OBVIOUS
<1>1. << >> \in Pages
  BY DEF Pages, Challenge
<1>2. MaxStarts \in Nat /\ MaxFaults \in Nat
  BY StoreAssumption
<1>3. Scripts
  BY <1>1, <1>2 DEF StoreInit, Scripts, Idle, FwkIdle
<1>4. others = 0 /\ store = NoLaw /\ cls = ClsIdle
  BY DEF StoreInit
<1>5. OnePage(store, others)
  BY <1>4, NothingStored
<1>6. RunFor(ClsIdle, store.articles)
  <2>1. << >> \in Seq(Tasks)
    BY EmptySeq
  <2>2. ClsIdle \in Runs
    BY <2>1 DEF ClsIdle, Runs
  <2>3. ClsIdle.todo = << >> /\ ClsIdle.pc = "idle"
    BY DEF ClsIdle
  <2>4. UpToDate(<< >>, store.articles)
    BY DEF UpToDate
  <2> QED BY <2>2, <2>3, <2>4 DEF RunFor
<1> QED BY <1>3, <1>4, <1>5, <1>6 DEF StoreInv

\* No script takes the lock of another.
LEMMA ScriptsStep ==
  ASSUME StoreInv, StoreNext
  PROVE  Scripts' /\ (lock = "assess" <=> lock' = "assess")
<1> USE DEF Scripts
<1>0. Scripts
  BY DEF StoreInv
<1>1. MaxStarts \in Nat /\ MaxFaults \in Nat /\ << >> \in Pages
  BY StoreAssumption DEF Pages, Challenge
<1>2. ASSUME Begin PROVE starts' \in 0..MaxStarts /\ faults' \in 0..MaxFaults
  BY <1>0, <1>1, <1>2 DEF Begin
<1>3. ASSUME Fault PROVE starts' \in 0..MaxStarts /\ faults' \in 0..MaxFaults
  BY <1>0, <1>1, <1>3 DEF Fault
<1>4. ASSUME Calm PROVE starts' \in 0..MaxStarts /\ faults' \in 0..MaxFaults
  BY <1>0, <1>4 DEF Calm
<1>5. CASE \E force \in BOOLEAN : StartIngest(force)
  BY <1>0, <1>1, <1>2, <1>5 DEF StartIngest
<1>6. CASE \E page \in Pages : Download(page)
  BY <1>0, <1>4, <1>6 DEF Download
<1>7. CASE \E page \in Pages : KilledWriting(page)
  BY <1>0, <1>1, <1>3, <1>7 DEF KilledWriting, Idle
<1>8. CASE DownloadFails
  BY <1>0, <1>1, <1>4, <1>8 DEF DownloadFails, Idle
<1>9. CASE StoreLaw
  BY <1>0, <1>1, <1>4, <1>9 DEF StoreLaw, Idle
<1>10. CASE LawRefused
  BY <1>0, <1>1, <1>4, <1>10 DEF LawRefused, Idle
<1>11. CASE LockedOut
  BY <1>0, <1>1, <1>3, <1>11 DEF LockedOut, Idle
<1>12. CASE IngestOther
  <2>1. NextId(store.articles) \in Nat
    BY <1>0, NextIdIsNew DEF StoreInv, OnePage
  <2> QED BY <1>0, <1>2, <1>12, <2>1 DEF IngestOther
<1>13. CASE \E replace \in BOOLEAN : StartFrameworks(replace)
  BY <1>0, <1>2, <1>13 DEF StartFrameworks
<1>14. CASE StoreFrameworks
  BY <1>0, <1>1, <1>4, <1>14 DEF StoreFrameworks, FwkIdle
<1>15. CASE FrameworksRefused
  BY <1>0, <1>1, <1>4, <1>15 DEF FrameworksRefused, FwkIdle
<1>16. CASE FrameworksLockedOut
  BY <1>0, <1>1, <1>3, <1>16 DEF FrameworksLockedOut, FwkIdle
<1>17. CASE \E limit \in 1..Cardinality(store.articles) : StartFull(limit)
  BY <1>0, <1>2, <1>17 DEF StartFull
<1>18. CASE \E rows \in SUBSET store.articles : StartTest(rows)
  BY <1>0, <1>2, <1>18 DEF StartTest
<1>19. CASE \E answered \in SUBSET {i.id : i \in Batch} : ClassifyBatch(answered)
  BY <1>0, <1>4, <1>19 DEF ClassifyBatch
<1>20. CASE RowGone
  BY <1>0, <1>4, <1>20 DEF RowGone
<1>21. CASE ClassifyLockedOut
  BY <1>0, <1>3, <1>21 DEF ClassifyLockedOut
<1>22. CASE KillWriter
  BY <1>0, <1>1, <1>3, <1>22 DEF KillWriter, Idle, FwkIdle
<1> QED BY <1>5, <1>6, <1>7, <1>8, <1>9, <1>10, <1>11, <1>12, <1>13, <1>14, <1>15, <1>16,
           <1>17, <1>18, <1>19, <1>20, <1>21, <1>22 DEF StoreNext, Ingest, Frameworks, Classify

\* No run of the classifier claims anything.
LEMMA NoRun == \A rows : RunFor(ClsIdle, rows)
<1> TAKE rows
<1>1. << >> \in Seq(Tasks)
  BY EmptySeq
<1>2. ClsIdle \in Runs /\ ClsIdle.todo = << >> /\ ClsIdle.pc = "idle"
  BY <1>1 DEF ClsIdle, Runs
<1>3. UpToDate(<< >>, rows)
  BY DEF UpToDate
<1> QED BY <1>2, <1>3 DEF RunFor

\* A run that is overtaken claims nothing any more.
LEMMA OvertakenRun ==
  ASSUME NEW old, RunFor(cls, old), NEW rows
  PROVE  RunFor(Overtake, rows)
<1>1. CASE cls.pc = "idle"
  <2>1. Overtake = cls /\ cls.todo = << >> /\ cls \in Runs
    BY <1>1 DEF Overtake, RunFor
  <2>2. UpToDate(<< >>, rows)
    BY DEF UpToDate
  <2> QED BY <1>1, <2>1, <2>2 DEF RunFor
<1>2. CASE cls.pc # "idle"
  <2>1. Overtake = [cls EXCEPT !.stale = TRUE] /\ cls \in Runs
    BY <1>2 DEF Overtake, RunFor
  <2>2. Overtake \in Runs /\ Overtake.stale = TRUE /\ Overtake.pc = cls.pc /\ Overtake.todo = cls.todo
    BY <2>1 DEF Runs
  <2> QED BY <2>2 DEF RunFor
<1> QED BY <1>1, <1>2

\* A run reads rows.
LEMMA StartedRun ==
  ASSUME NEW rows, Stored(rows), NEW part \in SUBSET rows, NEW n \in 1..Cardinality(part),
         NEW size \in Nat, NEW all \in BOOLEAN,
         all => n = Cardinality(part) /\ part = Open(rows)
  PROVE  RunFor([pc |-> "run", todo |-> SubSeq(Items(part), 1, n), size |-> size,
                 all |-> all, stale |-> FALSE], rows)
<1> DEFINE s == Items(part)  t == SubSeq(s, 1, n)
           run == [pc |-> "run", todo |-> t, size |-> size, all |-> all, stale |-> FALSE]
<1>1. Stored(part)
  BY StoredPart
<1>2. /\ s \in Seq(Tasks) /\ Len(s) = Cardinality(part) /\ Cardinality(part) \in Nat
      /\ \A r \in part : \E k \in 1..Len(s) : s[k].id = r.id
      /\ \A k \in 1..Len(s) : \E r \in part : s[k].id = r.id /\ s[k].text = r.text
  BY <1>1, ItemsAreAll
<1> HIDE DEF s
<1>3. t \in Seq(Tasks) /\ Len(t) = n /\ \A k \in 1..n : t[k] = s[k]
  <2>1. \A i \in 1..n : i \in 1..Len(s)
    BY <1>2
  <2>2. \A i \in 1..n : s[i] \in Tasks
    BY <1>2, <2>1
  <2> QED BY <1>2, <2>1, <2>2, SubSeqProperties
<1> HIDE DEF t
<1>4. run \in Runs /\ run.pc = "run" /\ run.todo = t /\ run.stale = FALSE /\ run.all = all
  BY <1>3 DEF Runs
<1>5. t # << >>
  BY <1>3
<1>6. UpToDate(t, rows)
  <2> SUFFICES ASSUME NEW k \in 1..n, NEW r \in rows, r.id = t[k].id PROVE r.text = t[k].text
    BY <1>3 DEF UpToDate
  <2>1. k \in 1..Len(s)
    BY <1>2
  <2>2. PICK p \in part : s[k].id = p.id /\ s[k].text = p.text
    BY <1>2, <2>1
  <2>3. p = r
    BY <1>3, <2>2 DEF Stored, Differ
  <2> QED BY <1>3, <2>2, <2>3
<1>7. all => Remains(t, rows)
  <2> SUFFICES ASSUME all, NEW r \in part PROVE \E k \in 1..n : t[k].id = r.id
    BY <1>3 DEF Remains
  <2>1. PICK k \in 1..Len(s) : s[k].id = r.id
    BY <1>2
  <2> QED BY <1>2, <1>3, <2>1
<1> HIDE DEF run
<1>8. RunFor(run, rows)
  BY <1>4, <1>5, <1>6, <1>7 DEF RunFor
<1> QED BY <1>8 DEF run, t, s

-----------------------------------------------------------------------------
\* A batch is the first items of the run.
LEMMA BatchOf ==
  ASSUME NEW rows, RunFor(cls, rows)
  PROVE  /\ BatchLength \in Nat /\ Len(cls.todo) \in Nat /\ BatchLength <= Len(cls.todo)
         /\ Batch \in SUBSET Tasks
         /\ \A i \in Batch : \E k \in 1..Len(cls.todo) : i = cls.todo[k]
         /\ \A k \in 1..BatchLength : cls.todo[k] \in Batch
<1>1. cls.todo \in Seq(Tasks) /\ cls.size \in Nat
  BY DEF RunFor, Runs
<1>2. Len(cls.todo) \in Nat /\ \A k \in 1..Len(cls.todo) : cls.todo[k] \in Tasks
  BY <1>1, LenProperties, ElementOfSeq
<1>3. BatchLength \in Nat /\ BatchLength <= Len(cls.todo)
  BY <1>1, <1>2 DEF BatchLength
<1>4. \A k \in 1..BatchLength : k \in 1..Len(cls.todo)
  BY <1>2, <1>3
<1> QED BY <1>2, <1>3, <1>4 DEF Batch

\* A batch of verdicts, committed: the law is still its page, and what remains
\* to do remains.
LEMMA BatchStep ==
  ASSUME StoreInv, NEW answered, ClassifyBatch(answered)
  PROVE  OnePage(store, others)' /\ RunFor(cls, store.articles)'
<1> DEFINE rows == store.articles  new == Classified(rows, Batch, answered)  n == Len(cls.todo)
           b == BatchLength
<1>1. RunFor(cls, rows) /\ OnePage(store, others)
  BY DEF StoreInv
<1>2. /\ b \in Nat /\ n \in Nat /\ b <= n /\ Batch \in SUBSET Tasks
      /\ \A i \in Batch : \E k \in 1..n : i = cls.todo[k]
      /\ \A k \in 1..b : cls.todo[k] \in Batch
  BY <1>1, BatchOf
<1>3. cls \in Runs /\ cls.todo \in Seq(Tasks) /\ cls.stale \in BOOLEAN
  BY <1>1 DEF RunFor, Runs
<1>4. ~cls.stale => SaysTheSame(rows, Batch)
  <2> SUFFICES ASSUME ~cls.stale, NEW i \in Batch, NEW r \in rows, i.id = r.id
               PROVE  i.text = r.text
    BY DEF SaysTheSame
  <2>1. UpToDate(cls.todo, rows)
    BY <1>1 DEF RunFor
  <2>2. PICK k \in 1..n : i = cls.todo[k]
    BY <1>2
  <2> QED BY <2>1, <2>2 DEF UpToDate
<1>5. Stored(rows) /\ OwnVerdicts(rows)
  BY <1>1 DEF OnePage
<1> HIDE DEF rows, n, b
<1>6. /\ Stored(new) /\ OwnVerdicts(new)
      /\ {PathOf(s) : s \in new} = {PathOf(r) : r \in rows}
      /\ \A s \in new : \E r \in rows : s.id = r.id /\ PathOf(s) = PathOf(r) /\ s.text = r.text
      /\ ~cls.stale => \A s \in new : s.verdict = NoVerdict /\ ~Short(s.text) =>
           s \in rows /\ \A i \in Batch : i.id # s.id
  <2>1. Batch \in SUBSET Tasks /\ cls.stale \in BOOLEAN
    BY <1>2, <1>3
  <2>2. Reclassified(rows, Batch, Classified(rows, Batch, answered), cls.stale)
    BY <2>1, <1>4, <1>5, ClassifiedRows
  <2> QED BY <2>2 DEF Reclassified
<1>7. store' = [store EXCEPT !.articles = new] /\ others' = others
  BY DEF ClassifyBatch, rows
<1> HIDE DEF new
<1>8. /\ store' = [known |-> store.known, articles |-> new, recitals |-> store.recitals,
                   annexes |-> store.annexes, chunks |-> store.chunks]
      /\ store'.known = store.known /\ store'.articles = new /\ store'.recitals = store.recitals
      /\ store'.annexes = store.annexes /\ store'.chunks = store.chunks
  <2>1. store = [known |-> store.known, articles |-> rows, recitals |-> store.recitals,
                 annexes |-> store.annexes, chunks |-> store.chunks]
    BY <1>1 DEF OnePage, rows
  <2> QED BY <2>1, <1>7
<1>9. OnePage(store', others')
  <2>1. ~store.known => new = {}
    <3>1. ~store.known => rows = {}
      BY <1>1 DEF OnePage, NothingIn, rows
    <3> QED BY <3>1, <1>6
  <2>2. ~store'.known => NothingIn(store')
    BY <1>1, <1>8, <2>1 DEF OnePage, NothingIn
  <2>3. ASSUME NEW law, IsTheLaw(store, law) PROVE IsTheLaw(store', law)
    <3>1. \A what : Holds(store, what) => Holds(store', what)
      BY <1>6, <1>8 DEF Holds, rows
    <3>2. SameTexts(store', law)
      <4> SUFFICES ASSUME NEW s \in new
                   PROVE  \E a \in ToSet(law.articles) : PathOf(a) = PathOf(s) /\ a.text = s.text
        BY <1>8 DEF SameTexts
      <4>1. PICK r \in rows : PathOf(s) = PathOf(r) /\ s.text = r.text
        BY <1>6
      <4> QED BY <2>3, <4>1 DEF IsTheLaw, SameTexts, rows
    <3> QED BY <2>3, <3>1, <3>2 DEF IsTheLaw
  <2>4. store'.known => \E page \in Pages : IsTheLaw(store', Parsed[page])
    BY <1>1, <1>8, <2>3 DEF OnePage
  <2>5. \A s \in new : s.id # others
    BY <1>1, <1>6 DEF OnePage, rows
  <2>6. store'.known \in BOOLEAN /\ OnceNumbered(store'.recitals)
    BY <1>1, <1>8 DEF OnePage
  <2> QED BY <1>6, <1>7, <1>8, <2>2, <2>4, <2>5, <2>6 DEF OnePage
<1>10. ~cls.stale => UpToDate(cls.todo, new)
  <2> SUFFICES ASSUME ~cls.stale, NEW k \in 1..n, NEW s \in new, s.id = cls.todo[k].id
               PROVE  s.text = cls.todo[k].text
    BY DEF UpToDate, n
  <2>1. PICK r \in rows : s.id = r.id /\ s.text = r.text
    BY <1>6
  <2>2. UpToDate(cls.todo, rows)
    BY <1>1 DEF RunFor
  <2> QED BY <2>1, <2>2 DEF UpToDate, n
<1>11. ASSUME cls.all, ~cls.stale, NEW s \in Open(new)
       PROVE  \E k \in 1..n : k > b /\ cls.todo[k].id = s.id
  <2>1. s \in rows /\ s \in Open(rows) /\ \A i \in Batch : i.id # s.id
    BY <1>6, <1>11 DEF Open
  <2>2. cls.pc = "run"
    BY DEF ClassifyBatch
  <2>3. Remains(cls.todo, rows)
    BY <1>1, <1>11, <2>2 DEF RunFor
  <2>4. PICK k \in 1..n : cls.todo[k].id = s.id
    BY <2>1, <2>3 DEF Remains, n
  <2>5. k \notin 1..b
    BY <1>2, <2>1, <2>4
  <2>6. k > b
    BY <1>2, <2>5
  <2> QED BY <2>4, <2>6
<1>12. CASE b = n
  <2>1. cls' = [cls EXCEPT !.pc = "done", !.todo = << >>]
    BY <1>12 DEF ClassifyBatch, b, n
  <2>2. << >> \in Seq(Tasks) /\ Len(<< >>) = 0
    BY EmptySeq
  <2>3. cls' \in Runs /\ cls'.pc = "done" /\ cls'.todo = << >> /\ cls'.all = cls.all
        /\ cls'.stale = cls.stale
    BY <1>3, <2>1, <2>2 DEF Runs
  <2>4. UpToDate(<< >>, new)
    BY <2>2 DEF UpToDate
  <2>5. cls.all /\ ~cls.stale => Remains(<< >>, new)
    <3>1. ~\E k \in 1..n : k > b
      BY <1>2, <1>12
    <3> QED BY <1>11, <3>1 DEF Remains
  <2>6. RunFor(cls', new)
    BY <2>3, <2>4, <2>5 DEF RunFor
  <2> QED BY <1>8, <1>9, <2>6
<1>13. CASE b # n
  <2> DEFINE t == SubSeq(cls.todo, b + 1, n)
  <2>1. cls' = [cls EXCEPT !.todo = t]
    BY <1>13 DEF ClassifyBatch, b, n
  <2>2. t \in Seq(Tasks) /\ Len(t) = n - b /\ \A k \in 1..(n - b) : t[k] = cls.todo[k + b]
    <3>1. \A i \in (b + 1)..n : i \in 1..n
      BY <1>2
    <3>2. \A i \in (b + 1)..n : cls.todo[i] \in Tasks
      BY <1>3, <3>1, ElementOfSeq DEF n
    <3>3. b + 1 \in Int /\ n \in Int /\ b + 1 <= n /\ n - (b + 1) + 1 = n - b
      BY <1>2, <1>13
    <3>4. /\ t \in Seq(Tasks) /\ Len(t) = n - (b + 1) + 1
          /\ \A i \in 1..(n - (b + 1) + 1) : t[i] = cls.todo[(b + 1) + i - 1]
      BY <3>2, <3>3, SubSeqProperties
    <3>5. \A i \in 1..(n - b) : (b + 1) + i - 1 = i + b
      BY <1>2
    <3> HIDE DEF t
    <3> QED BY <3>3, <3>4, <3>5
  <2> HIDE DEF t
  <2>3. cls' \in Runs /\ cls'.pc = "run" /\ cls'.todo = t /\ cls'.all = cls.all
        /\ cls'.stale = cls.stale
    <3>1. cls.pc = "run"
      BY DEF ClassifyBatch
    <3> QED BY <1>3, <2>1, <2>2, <3>1 DEF Runs
  <2>4. t # << >>
    BY <1>2, <1>13, <2>2
  <2>5. ~cls.stale => UpToDate(t, new)
    <3>1. \A k \in 1..(n - b) : k + b \in 1..n
      BY <1>2
    <3> QED BY <1>10, <2>2, <3>1 DEF UpToDate, n
  <2>6. cls.all /\ ~cls.stale => Remains(t, new)
    <3> SUFFICES ASSUME cls.all, ~cls.stale, NEW s \in Open(new)
                 PROVE  \E k \in 1..(n - b) : t[k].id = s.id
      BY <2>2 DEF Remains
    <3>1. PICK k \in 1..n : k > b /\ cls.todo[k].id = s.id
      BY <1>11
    <3>2. k - b \in 1..(n - b) /\ (k - b) + b = k
      BY <1>2, <3>1
    <3> QED BY <2>2, <3>1, <3>2
  <2>7. RunFor(cls', new)
    BY <2>3, <2>4, <2>5, <2>6 DEF RunFor
  <2> QED BY <1>8, <1>9, <2>7
<1> QED BY <1>12, <1>13

\* Every step of the scripts keeps what is stored one page, and the verdicts
\* next to their texts.
LEMMA StoreKept ==
  ASSUME StoreInv, StoreNext
  PROVE  StoreInv'
<1>1. Scripts /\ Scripts' /\ OnePage(store, others) /\ RunFor(cls, store.articles)
  BY ScriptsStep DEF StoreInv
<1>2. Stored(store.articles) /\ others \in Nat /\ imp.page \in Pages /\ fwk.page \in Pages
  BY <1>1 DEF OnePage, Scripts
<1>3. SUFFICES OnePage(store, others)' /\ RunFor(cls, store.articles)'
  BY <1>1 DEF StoreInv
<1>4. ASSUME UNCHANGED <<store, others>>
      PROVE  OnePage(store, others)' /\ (UNCHANGED cls => RunFor(cls, store.articles)')
             /\ (cls' = ClsIdle => RunFor(cls, store.articles)')
  <2>1. OnePage(store', others') /\ (UNCHANGED cls => RunFor(cls', store'.articles))
    BY <1>1, <1>4
  <2>2. cls' = ClsIdle => RunFor(cls', store'.articles)
    BY NoRun
  <2> QED BY <2>1, <2>2
<1>5. CASE \E force \in BOOLEAN : StartIngest(force)
  BY <1>4, <1>5 DEF StartIngest
<1>6. CASE \E page \in Pages : Download(page) \/ KilledWriting(page)
  BY <1>4, <1>6 DEF Download, KilledWriting
<1>7. CASE DownloadFails \/ LawRefused \/ LockedOut
  BY <1>4, <1>7 DEF DownloadFails, LawRefused, LockedOut
<1>8. CASE StoreLaw
  <2>1. store' = Ingested(Parsed[imp.page]) /\ Unique(Parsed[imp.page]) /\ others' = others
        /\ cls' = Overtake
    BY <1>8 DEF StoreLaw
  <2>2. OnePage(store', others')
    BY <1>2, <2>1, IngestedIsThePage
  <2>3. RunFor(cls', store'.articles)
    BY <1>1, <2>1, OvertakenRun
  <2> QED BY <2>2, <2>3
<1>9. CASE IngestOther
  <2>1. others' = NextId(store.articles) /\ UNCHANGED <<store, cls>>
    BY <1>9 DEF IngestOther
  <2>2. \A r \in store.articles : r.id \in Nat /\ r.id < others' /\ others' \in Nat
    BY <1>2, <2>1, NextIdIsNew DEF Stored, Rows, RowRecords
  <2>3. \A r \in store.articles : r.id # others'
    BY <2>2
  <2>4. OnePage(store, others')
    BY <1>1, <2>3 DEF OnePage
  <2> QED BY <1>1, <2>1, <2>4
<1>10. CASE \E replace \in BOOLEAN : StartFrameworks(replace)
  BY <1>4, <1>10 DEF StartFrameworks
<1>11. CASE StoreFrameworks
  <2>1. store' = Merged(Parsed[fwk.page], Base) /\ ~Clash(Parsed[fwk.page], Base)
        /\ others' = others /\ cls' = Overtake
    BY <1>11 DEF StoreFrameworks, Commits
  <2>2. OnePage(Base, others)
    BY <1>1, NothingStored DEF Base
  <2>3. OnePage(store', others')
    <3> HIDE DEF Base
    <3> QED BY <1>2, <2>1, <2>2, MergedIsThePage
  <2>4. RunFor(cls', store'.articles)
    BY <1>1, <2>1, OvertakenRun
  <2> QED BY <2>3, <2>4
<1>12. CASE FrameworksRefused \/ FrameworksLockedOut
  BY <1>4, <1>12 DEF FrameworksRefused, FrameworksLockedOut
<1>13. CASE \E limit \in 1..Cardinality(store.articles) : StartFull(limit)
  <2>1. PICK limit \in 1..Cardinality(store.articles) : StartFull(limit)
    BY <1>13
  <2> DEFINE rows == store.articles  part == Open(rows)
  <2>2. Unclassified = part /\ part \in SUBSET rows
    BY DEF Unclassified, Open
  <2>3. /\ limit \in {1, Cardinality(part)} /\ part # {} /\ UNCHANGED <<store, others>>
        /\ cls' = [pc |-> "run", todo |-> SubSeq(Items(part), 1, limit), size |-> BatchSize,
                   all |-> limit = Cardinality(part), stale |-> FALSE]
    BY <2>1, <2>2 DEF StartFull
  <2> HIDE DEF part
  <2>4. Cardinality(part) \in Nat \ {0}
    <3>1. Stored(part)
      BY <1>2, <2>2, StoredPart
    <3> QED BY <2>3, <3>1, FS_EmptySet, FS_CardinalityType DEF Stored
  <2>5. limit \in 1..Cardinality(part)
    BY <2>3, <2>4
  <2>6. BatchSize \in Nat /\ (limit = Cardinality(part)) \in BOOLEAN
    BY StoreAssumption
  <2>7. RunFor(cls', rows)
    BY <1>2, <2>2, <2>3, <2>5, <2>6, StartedRun DEF part
  <2> QED BY <1>1, <2>3, <2>7
<1>14. CASE \E rows \in SUBSET store.articles : StartTest(rows)
  <2>1. PICK part \in SUBSET store.articles : StartTest(part)
    BY <1>14
  <2>2. /\ part # {} /\ UNCHANGED <<store, others>>
        /\ cls' = [pc |-> "run", todo |-> Items(part), size |-> Cardinality(part),
                   all |-> FALSE, stale |-> FALSE]
    BY <2>1 DEF StartTest
  <2>3. Stored(part)
    BY <1>2, StoredPart
  <2>4. Cardinality(part) \in Nat \ {0}
    BY <2>2, <2>3, FS_EmptySet, FS_CardinalityType DEF Stored
  <2>5. Items(part) \in Seq(Tasks) /\ Len(Items(part)) = Cardinality(part)
    BY <2>3, ItemsAreAll
  <2>6. SubSeq(Items(part), 1, Cardinality(part)) = Items(part)
    <3> DEFINE s == Items(part)  n == Cardinality(part)
    <3> HIDE DEF s, n
    <3>1. s \in Seq(Tasks) /\ Len(s) = n /\ n \in Nat
      BY <2>4, <2>5 DEF s, n
    <3>2. SubSeq(s, 1, n) = s
      BY <3>1
    <3> QED BY <3>2 DEF s, n
  <2>7. Cardinality(part) \in 1..Cardinality(part) /\ Cardinality(part) \in Nat
    BY <2>4
  <2>8. RunFor([pc |-> "run", todo |-> SubSeq(Items(part), 1, Cardinality(part)),
                size |-> Cardinality(part), all |-> FALSE, stale |-> FALSE], store.articles)
    BY <1>2, <2>7, StartedRun
  <2> QED BY <1>1, <2>2, <2>6, <2>8
<1>15. CASE \E answered \in SUBSET {i.id : i \in Batch} : ClassifyBatch(answered)
  BY <1>15, BatchStep
<1>16. CASE RowGone \/ ClassifyLockedOut
  BY <1>4, <1>16 DEF RowGone, ClassifyLockedOut
<1>17. CASE KillWriter
  BY <1>4, <1>17 DEF KillWriter
<1> QED BY <1>5, <1>6, <1>7, <1>8, <1>9, <1>10, <1>11, <1>12, <1>13, <1>14, <1>15, <1>16, <1>17
        DEF StoreNext, Ingest, Frameworks, Classify

-----------------------------------------------------------------------------
(* A transaction of article_runtime_pipeline *)

\* What a run of the pipeline has dealt with.
Assessed(read, todo) == {a \in read : a \notin ToSet(todo)}
Bares(xs) == {Bare(a) : a \in xs}
AllWritten(rows, xs) == \A a \in xs : \A k \in 1..Len(Lines(a)) : HasLine(rows, Lines(a)[k])
\* The lines of these sections of the note are rows.
Shown(note, rows, ss) ==
  \A s \in DOMAIN note : s \in ss => \A k \in DOMAIN note[s] : \E i \in 1..Len(rows) :
    rows[i].key[2] = note[s][k].id /\ rows[i].class = note[s][k].class
OfItsSections(note) ==
  DOMAIN note \subseteq Sections /\ \A s \in DOMAIN note : \A k \in DOMAIN note[s] : note[s][k].id[1] = s
SparesOthers(old, new, ss) == \A i \in 1..Len(old) : old[i].key[2][1] \notin ss => new[i] = old[i]

AssessRuns ==
  [pc : {"idle", "run", "done"}, todo : Seq(Rows), read : SUBSET Rows, work : Seq(RegRows)]
\* What a transaction has made of the rows, and written in the note.
Worked(old, new, note, read, done) ==
  /\ Registers(new) /\ Follows(old, new) /\ AllWritten(new, done)
  /\ Shown(note, new, Bares(done)) /\ SparesOthers(old, new, Bares(read))
AssessingFor(run, who, rows, note) ==
  /\ run \in AssessRuns /\ Stored(run.read) /\ ToSet(run.todo) \subseteq run.read
  /\ run.pc = "run" => run.read # {}
  /\ run.pc = "run" /\ who # "assess" => run.read \subseteq ToSet(run.todo)
  /\ who = "assess" => run.pc = "run" /\ Worked(rows, run.work, note, run.read, Assessed(run.read, run.todo))
  /\ run.pc = "done" => AllWritten(rows, run.read)

\* A sequence is its first element and the rest.
LEMMA HeadAndTail ==
  ASSUME NEW T, NEW s \in Seq(T), s # << >>
  PROVE  /\ Head(s) \in T /\ Tail(s) \in Seq(T) /\ Head(s) \in ToSet(s)
         /\ \A x : x \in ToSet(s) <=> x = Head(s) \/ x \in ToSet(Tail(s))
<1> DEFINE n == Len(s)  t == Tail(s)
<1>1. /\ n \in Nat \ {0} /\ Head(s) \in T /\ t \in Seq(T) /\ Len(t) = n - 1
      /\ \A i \in 1..(n - 1) : t[i] = s[i + 1]
      /\ s[1] = Head(s) /\ DOMAIN s = 1..n /\ DOMAIN t = 1..(n - 1)
  OBVIOUS
<1> HIDE DEF n, t
<1>2. \A x : x \in ToSet(s) <=> \E i \in 1..n : x = s[i]
  BY <1>1 DEF ToSet
<1>3. \A x : x \in ToSet(t) <=> \E i \in 1..(n - 1) : x = t[i]
  BY <1>1 DEF ToSet
<1>4. 1 \in 1..n /\ \A i \in 1..(n - 1) : i + 1 \in 1..n
  BY <1>1
<1>5. \A i \in 1..n : i = 1 \/ (i - 1 \in 1..(n - 1) /\ (i - 1) + 1 = i)
  BY <1>1
<1>6. ASSUME NEW x, x \in ToSet(s) PROVE x = Head(s) \/ x \in ToSet(t)
  <2>1. PICK i \in 1..n : x = s[i]
    BY <1>2, <1>6
  <2>2. CASE i = 1
    BY <1>1, <2>1, <2>2
  <2>3. CASE i - 1 \in 1..(n - 1) /\ (i - 1) + 1 = i
    BY <1>1, <1>3, <2>1, <2>3
  <2> QED BY <1>5, <2>2, <2>3
<1>7. ASSUME NEW x, x = Head(s) \/ x \in ToSet(t) PROVE x \in ToSet(s)
  BY <1>1, <1>2, <1>3, <1>4, <1>7
<1> QED BY <1>1, <1>6, <1>7 DEF t

\* One article assessed: what was written stays, and its lines are added.
LEMMA WorkStep ==
  ASSUME NEW old \in Seq(RegRows), NEW rows, NEW note, NEW read, Stored(read), NEW done \in SUBSET read,
         Worked(old, rows, note, read, done), OfItsSections(note), NEW a \in read,
         NEW note2, DOMAIN note2 = DOMAIN note, \A s \in DOMAIN note : s # Bare(a) => note2[s] = note[s],
         Bare(a) \in DOMAIN note =>
           note2[Bare(a)] = [k \in 1..Len(Lines(a)) |->
                               [id |-> Lines(a)[k].key[2], class |-> Lines(a)[k].class]]
  PROVE  Worked(old, Upserted(rows, Lines(a)), note2, read, done \cup {a})
<1> DEFINE lines == Lines(a)  new == Upserted(rows, lines)
           K == {lines[k].key : k \in 1..Len(lines)}
<1>0. a \in Rows
  BY DEF Stored
<1>1. /\ lines \in Seq(LineRecords)
      /\ \A k \in 1..Len(lines) : lines[k].key[1] = a.number /\ lines[k].key[2][1] = Bare(a)
      /\ \A j, k \in 1..Len(lines) : lines[j].key = lines[k].key => j = k
  BY <1>0, LinesOfAnArticle
<1>2. Registers(rows) /\ Follows(old, rows) /\ AllWritten(rows, done)
      /\ Shown(note, rows, Bares(done)) /\ SparesOthers(old, rows, Bares(read))
  BY DEF Worked
<1> HIDE DEF lines
<1>3. /\ Registers(new) /\ Follows(rows, new) /\ \A k \in 1..Len(lines) : HasLine(new, lines[k])
      /\ Spares(rows, new, K)
  BY <1>1, <1>2, UpsertedLines
<1>4. \A key \in K : key[1] = a.number /\ key[2][1] = Bare(a)
  BY <1>1
<1> HIDE DEF new, K
<1>5. rows \in Seq(RegRows) /\ new \in Seq(RegRows)
  BY <1>2, <1>3 DEF Registers
<1>6. Len(old) \in Nat /\ Len(rows) \in Nat /\ Len(new) \in Nat /\ Len(old) <= Len(rows)
      /\ Len(rows) <= Len(new)
  BY <1>2, <1>3, <1>5, LenProperties DEF Follows
<1>7. \A i \in 1..Len(rows) : i \in 1..Len(new)
  BY <1>6
<1>8. Follows(old, new)
  BY <1>2, <1>3, <1>5, FollowsThrough
<1>9. \A i \in 1..Len(rows) : rows[i].key[1] # a.number \/ rows[i].key[2][1] # Bare(a) => new[i] = rows[i]
  BY <1>3, <1>4 DEF Spares
<1>10. AllWritten(new, done \cup {a})
  <2> SUFFICES ASSUME NEW b \in done, b # a, NEW k \in 1..Len(Lines(b))
               PROVE  HasLine(new, Lines(b)[k])
    BY <1>3 DEF AllWritten, lines
  <2>1. b \in Rows /\ b.number # a.number
    BY DEF Stored, Differ
  <2>2. Lines(b)[k].key[1] = b.number
    BY <2>1, LinesOfAnArticle
  <2>3. PICK i \in 1..Len(rows) :
          /\ rows[i].key = Lines(b)[k].key /\ rows[i].text = Lines(b)[k].text
          /\ rows[i].class = Lines(b)[k].class
    BY <1>2 DEF AllWritten, HasLine
  <2>4. new[i] = rows[i]
    BY <1>9, <2>1, <2>2, <2>3
  <2> QED BY <1>7, <2>3, <2>4 DEF HasLine
<1>11. Shown(note2, new, Bares(done \cup {a}))
  <2> SUFFICES ASSUME NEW s \in DOMAIN note, s \in Bares(done \cup {a}), NEW k \in DOMAIN note2[s]
               PROVE  \E i \in 1..Len(new) :
                        new[i].key[2] = note2[s][k].id /\ new[i].class = note2[s][k].class
    BY DEF Shown
  <2>1. CASE s = Bare(a)
    <3>1. note2[s] = [j \in 1..Len(lines) |-> [id |-> lines[j].key[2], class |-> lines[j].class]]
      BY <2>1 DEF lines
    <3>2. k \in 1..Len(lines) /\ note2[s][k].id = lines[k].key[2] /\ note2[s][k].class = lines[k].class
      BY <3>1
    <3> QED BY <1>3, <3>2 DEF HasLine
  <2>2. CASE s # Bare(a)
    <3>1. s \in Bares(done) /\ note2[s] = note[s]
      BY <2>2 DEF Bares
    <3>2. PICK i \in 1..Len(rows) : rows[i].key[2] = note[s][k].id /\ rows[i].class = note[s][k].class
      BY <1>2, <3>1 DEF Shown
    <3>3. note[s][k].id[1] = s
      BY <3>1 DEF OfItsSections
    <3>4. new[i] = rows[i]
      BY <1>9, <2>2, <3>2, <3>3
    <3> QED BY <1>7, <3>1, <3>2, <3>4
  <2> QED BY <2>1, <2>2
<1>12. SparesOthers(old, new, Bares(read))
  <2> SUFFICES ASSUME NEW i \in 1..Len(old), old[i].key[2][1] \notin Bares(read)
               PROVE  new[i] = old[i]
    BY DEF SparesOthers
  <2>1. rows[i] = old[i] /\ i \in 1..Len(rows)
    BY <1>2, <1>6 DEF SparesOthers
  <2>2. Bare(a) \in Bares(read)
    BY DEF Bares
  <2> QED BY <1>9, <2>1, <2>2
<1>13. Worked(old, new, note2, read, done \cup {a})
  BY <1>3, <1>8, <1>10, <1>11, <1>12 DEF Worked
<1> QED BY <1>13 DEF new, lines

-----------------------------------------------------------------------------
(* The invariant of Assessments *)

AssessInv ==
  /\ AssessingFor(asr, lock, registry, lawNote) /\ Registers(registry)
  /\ OfItsSections(lawNote) /\ unsaved \subseteq Numbers
  /\ Shown(lawNote, registry, DOMAIN lawNote \ unsaved)

NoteParts ==
  [kind : {"text", "rt", "person"}, body : Seq(Paragraphs \cup RegRows), closed : BOOLEAN]
NoteRecords == Seq(NoteParts)
\* A note has a block that shows these rows.
Displays(note, rows) == \E k \in Parts(note, "rt") : note[k].body = rows
Syncs == [pc : {"idle", "read", "write", "done"}, articles : Seq(Rows), rows : Seq(RegRows), left : Nat]
\* The notes that a run of sync_article_notes has written show its rows.
SyncingFor(run, files) ==
  /\ run \in Syncs /\ run.left <= Len(run.articles) /\ (run.pc = "done" => run.left = 0)
  /\ run.pc \in {"write", "done"} => \A n \in 1..(Len(run.articles) - run.left) :
       /\ File(run.articles[n]) \in DOMAIN files
       /\ Displays(files[File(run.articles[n])], RowsOf(run.articles[n], run.rows))
SyncInv ==
  /\ SyncingFor(syn, notes) /\ notes \in [DOMAIN notes -> NoteRecords]
  /\ edited \subseteq DOMAIN notes /\ torn \subseteq DOMAIN notes
  /\ reviews \in 0..MaxReviews /\ PersonsTextIsKept
  /\ \A f \in DOMAIN notes \ torn : Tidy(notes[f])

Inv == StoreInv /\ AssessInv /\ SyncInv

\* No run of the pipeline claims anything, unless it holds the lock.
LEMMA NoAssessment ==
  \A who, rows, note : who # "assess" => AssessingFor(AsrIdle, who, rows, note)
<1> TAKE who, rows, note
<1>1. << >> \in Seq(Rows) /\ << >> \in Seq(RegRows) /\ ToSet(<< >>) = {}
  BY EmptySeq DEF ToSet
<1>2. AsrIdle \in AssessRuns /\ AsrIdle.read = {} /\ AsrIdle.todo = << >> /\ AsrIdle.pc = "idle"
  BY <1>1 DEF AsrIdle, AssessRuns
<1> QED BY <1>1, <1>2, NothingStored DEF AssessingFor

\* No run of sync_article_notes claims anything.
LEMMA NoSync == \A files : SyncingFor(SynIdle, files)
<1> TAKE files
<1>1. << >> \in Seq(Rows) /\ << >> \in Seq(RegRows) /\ Len(<< >>) = 0
  BY EmptySeq
<1>2. SynIdle \in Syncs /\ SynIdle.left = 0 /\ SynIdle.articles = << >> /\ SynIdle.pc = "idle"
  BY <1>1 DEF SynIdle, Syncs
<1> QED BY <1>1, <1>2 DEF SyncingFor

\* The programs begin with nothing done.
LEMMA Initially == Init => Inv
<1> SUFFICES ASSUME Init PROVE Inv
  OBVIOUS
<1>1. StoreInv /\ lock = "free"
  BY StoreInitially DEF Init, StoreInit
<1>2. /\ asr = AsrIdle /\ syn = SynIdle /\ registry = << >> /\ notes = << >> /\ unsaved = {}
      /\ edited = {} /\ torn = {} /\ reviews = 0 /\ lawNote = [s \in Sections |-> << >>]
  BY DEF Init
<1>3. Registers(<< >>)
  <2>1. << >> \in Seq(RegRows) /\ Len(<< >>) = 0
    BY EmptySeq
  <2> QED BY <2>1 DEF Registers, KeysDiffer
<1>4. DOMAIN lawNote = Sections /\ \A s \in Sections : lawNote[s] = << >> /\ DOMAIN << >> = {}
  BY <1>2
<1>5. AssessInv
  <2>1. OfItsSections(lawNote) /\ Shown(lawNote, << >>, DOMAIN lawNote \ {})
    BY <1>4 DEF OfItsSections, Shown
  <2>2. AssessingFor(asr, lock, registry, lawNote)
    BY <1>1, <1>2, NoAssessment
  <2> QED BY <1>2, <1>3, <2>1, <2>2 DEF AssessInv
<1>6. SyncInv
  <2>1. MaxReviews \in Nat /\ DOMAIN << >> = {}
    BY AssessmentsAssumption
  <2>2. << >> \in [DOMAIN << >> -> NoteRecords]
    OBVIOUS
  <2> QED BY <1>2, <2>1, <2>2, NoSync DEF SyncInv, PersonsTextIsKept
<1> QED BY <1>1, <1>5, <1>6 DEF Inv

-----------------------------------------------------------------------------
\* What leaves the law and its scripts alone keeps what is said of them.
LEMMA ScriptsUntouched ==
  ASSUME StoreInv, UNCHANGED <<raw, store, others, imp, fwk, cls>>,
         lock' \in {"free", "assess", lock}, Begin \/ Fault \/ Calm
  PROVE  StoreInv'
<1>1. MaxStarts \in Nat /\ MaxFaults \in Nat
  BY StoreAssumption
<1>2. starts' \in 0..MaxStarts /\ faults' \in 0..MaxFaults
  BY <1>1 DEF Begin, Fault, Calm, StoreInv, Scripts
<1>3. Scripts'
  BY <1>2 DEF StoreInv, Scripts
<1>4. OnePage(store, others)' /\ RunFor(cls, store.articles)'
  BY DEF StoreInv
<1> QED BY <1>3, <1>4 DEF StoreInv

\* What leaves the registry and the pipeline alone keeps what is said of them.
LEMMA AssessUntouched ==
  ASSUME AssessInv, UNCHANGED <<registry, lawNote, asr, unsaved>>, lock = "assess" <=> lock' = "assess"
  PROVE  AssessInv'
<1>1. AssessingFor(asr, lock', registry, lawNote)
  BY DEF AssessInv, AssessingFor
<1> QED BY <1>1 DEF AssessInv

\* What leaves the notes alone keeps what is said of them.
LEMMA SyncUntouched ==
  ASSUME SyncInv, UNCHANGED <<notes, syn, reviews, edited, torn>>
  PROVE  SyncInv'
BY DEF SyncInv, PersonsTextIsKept

\* The pipeline reads articles: nothing is done of them yet.
LEMMA StartAssessStep ==
  ASSUME Inv, NEW from, NEW to, StartAssess(from, to)
  PROVE  Inv'
<1> DEFINE rows == {r \in store.articles : Bare(r) \in from..to}
<1>1. /\ asr.pc \in {"idle", "done"} /\ rows # {} /\ Begin /\ lock' = lock
      /\ asr' = [pc |-> "run", todo |-> ById(rows), read |-> rows, work |-> << >>]
      /\ UNCHANGED <<raw, store, others, imp, fwk, cls, registry, lawNote, notes, syn,
                     reviews, unsaved, edited, torn>>
  BY DEF StartAssess, Ended
<1>2. Stored(rows)
  <2>1. rows \in SUBSET store.articles
    OBVIOUS
  <2> QED BY <2>1, StoredPart DEF Inv, StoreInv, OnePage
<1> HIDE DEF rows
<1>3. /\ ById(rows) \in Seq(rows) /\ \A r \in rows : \E k \in 1..Len(ById(rows)) : ById(rows)[k] = r
  BY <1>2, ByIdIsAll
<1>4. ToSet(ById(rows)) \subseteq rows /\ rows \subseteq ToSet(ById(rows))
  <2>1. DOMAIN ById(rows) = 1..Len(ById(rows)) /\ \A k \in 1..Len(ById(rows)) : ById(rows)[k] \in rows
    BY <1>3
  <2> QED BY <1>3, <2>1 DEF ToSet
<1>5. lock # "assess"
  BY <1>1 DEF Inv, AssessInv, AssessingFor
<1>6. asr' \in AssessRuns
  <2>1. rows \in SUBSET Rows /\ ById(rows) \in Seq(Rows)
    <3>1. rows \in SUBSET Rows
      BY <1>2 DEF Stored
    <3>2. Seq(rows) \subseteq Seq(Rows)
      BY <3>1
    <3> QED BY <1>3, <3>1, <3>2
  <2>2. << >> \in Seq(RegRows)
    BY EmptySeq
  <2> QED BY <1>1, <2>1, <2>2 DEF AssessRuns
<1>7. AssessingFor(asr', lock', registry', lawNote')
  BY <1>1, <1>2, <1>4, <1>5, <1>6 DEF AssessingFor
<1>8. AssessInv'
  BY <1>1, <1>7 DEF Inv, AssessInv
<1>9. StoreInv'
  BY <1>1, ScriptsUntouched DEF Inv
<1> QED BY <1>1, <1>8, <1>9, SyncUntouched DEF Inv

\* One article assessed in the open transaction, and its section written.
LEMMA AssessArticleStep ==
  ASSUME Inv, AssessArticle
  PROVE  Inv'
<1> DEFINE a == Head(asr.todo)  base == IF lock = "assess" THEN asr.work ELSE registry
           done == Assessed(asr.read, asr.todo)  new == Upserted(base, Lines(a))
<1>1. /\ asr.pc = "run" /\ asr.todo # << >> /\ lock \in {"free", "assess"}
      /\ asr' = [asr EXCEPT !.todo = Tail(@), !.work = new]
      /\ lawNote' = Blocks(a) /\ lock' = "assess"
      /\ unsaved' = unsaved \cup ({Bare(a)} \cap DOMAIN lawNote)
      /\ Calm /\ UNCHANGED <<raw, store, others, imp, fwk, cls, registry, notes, syn,
                             reviews, edited, torn>>
  BY DEF AssessArticle
<1>2. /\ asr \in AssessRuns /\ Stored(asr.read) /\ ToSet(asr.todo) \subseteq asr.read /\ asr.read # {}
      /\ lock # "assess" => asr.read \subseteq ToSet(asr.todo)
      /\ lock = "assess" => Worked(registry, asr.work, lawNote, asr.read, done)
      /\ Registers(registry) /\ OfItsSections(lawNote) /\ unsaved \subseteq Numbers
      /\ Shown(lawNote, registry, DOMAIN lawNote \ unsaved)
  BY <1>1 DEF Inv, AssessInv, AssessingFor
<1>3. asr.todo \in Seq(Rows) /\ registry \in Seq(RegRows)
  BY <1>2 DEF AssessRuns, Registers
<1>4. /\ a \in asr.read /\ Tail(asr.todo) \in Seq(Rows)
      /\ \A x : x \in ToSet(asr.todo) <=> x = a \/ x \in ToSet(Tail(asr.todo))
  BY <1>1, <1>2, <1>3, HeadAndTail
<1> HIDE DEF a
<1>5. Worked(registry, base, lawNote, asr.read, done)
  <2>1. CASE lock = "assess"
    BY <1>2, <2>1
  <2>2. CASE lock # "assess"
    <3>1. done = {}
      BY <1>2, <2>2 DEF Assessed
    <3>2. Follows(registry, registry) /\ AllWritten(registry, {}) /\ Shown(lawNote, registry, Bares({}))
          /\ SparesOthers(registry, registry, Bares(asr.read))
      BY <1>3, FollowsItself DEF AllWritten, Shown, Bares, SparesOthers
    <3> HIDE DEF done
    <3> QED BY <1>2, <2>2, <3>1, <3>2 DEF Worked
  <2> QED BY <2>1, <2>2
<1>6. /\ DOMAIN lawNote' = DOMAIN lawNote
      /\ \A s \in DOMAIN lawNote : s # Bare(a) => lawNote'[s] = lawNote[s]
      /\ Bare(a) \in DOMAIN lawNote =>
           lawNote'[Bare(a)] = [k \in 1..Len(Lines(a)) |->
                                  [id |-> Lines(a)[k].key[2], class |-> Lines(a)[k].class]]
  BY <1>1 DEF Blocks
<1> HIDE DEF base
<1>7. Worked(registry, new, lawNote', asr.read, done \cup {a})
  <2>1. done \in SUBSET asr.read
    BY DEF Assessed
  <2> HIDE DEF done
  <2> QED BY <1>2, <1>3, <1>4, <1>5, <1>6, <2>1, WorkStep
<1> HIDE DEF new
<1>8. /\ asr' \in AssessRuns /\ asr'.pc = "run" /\ asr'.read = asr.read
      /\ asr'.todo = Tail(asr.todo) /\ asr'.work = new
  <2>1. new \in Seq(RegRows)
    BY <1>7 DEF Worked, Registers
  <2> QED BY <1>1, <1>2, <1>4, <2>1 DEF AssessRuns
<1>9. Worked(registry, new, lawNote', asr.read, Assessed(asr.read, Tail(asr.todo)))
  <2>1. Assessed(asr.read, Tail(asr.todo)) \subseteq done \cup {a}
    BY <1>4 DEF Assessed
  <2> DEFINE rest == Assessed(asr.read, Tail(asr.todo))
  <2> HIDE DEF rest, done
  <2>2. Bares(rest) \subseteq Bares(done \cup {a})
    BY <2>1 DEF Bares, rest
  <2>3. AllWritten(new, rest)
    BY <1>7, <2>1 DEF Worked, AllWritten, rest
  <2>4. Shown(lawNote', new, Bares(rest))
    BY <1>7, <2>2 DEF Worked, Shown
  <2> QED BY <1>7, <2>3, <2>4 DEF Worked, rest
<1>10. AssessingFor(asr', lock', registry', lawNote')
  <2>1. ToSet(Tail(asr.todo)) \subseteq asr.read
    BY <1>2, <1>4
  <2> QED BY <1>1, <1>2, <1>8, <1>9, <2>1 DEF AssessingFor
<1>11. OfItsSections(lawNote')
  <2> SUFFICES ASSUME NEW s \in DOMAIN lawNote, NEW k \in DOMAIN lawNote'[s]
               PROVE  lawNote'[s][k].id[1] = s
    BY <1>2, <1>6 DEF OfItsSections
  <2>1. CASE s = Bare(a)
    <3>1. lawNote'[s] = [j \in 1..Len(Lines(a)) |->
                           [id |-> Lines(a)[j].key[2], class |-> Lines(a)[j].class]]
      BY <1>6, <2>1
    <3>2. k \in 1..Len(Lines(a)) /\ lawNote'[s][k].id = Lines(a)[k].key[2]
      BY <3>1
    <3>3. a \in Rows
      BY <1>2, <1>4 DEF Stored
    <3> QED BY <2>1, <3>2, <3>3, LinesOfAnArticle
  <2>2. CASE s # Bare(a)
    BY <1>2, <1>6, <2>2 DEF OfItsSections
  <2> QED BY <2>1, <2>2
<1>12. unsaved' \subseteq Numbers
  <2>1. DOMAIN lawNote \subseteq Sections /\ Sections \subseteq Numbers
    BY <1>2, AssessmentsAssumption DEF OfItsSections
  <2> QED BY <1>1, <1>2, <2>1
<1>13. Shown(lawNote', registry, DOMAIN lawNote' \ unsaved')
  <2> SUFFICES ASSUME NEW s \in DOMAIN lawNote, s \notin unsaved', NEW k \in DOMAIN lawNote'[s]
               PROVE  \E i \in 1..Len(registry) : registry[i].key[2] = lawNote'[s][k].id
                                                  /\ registry[i].class = lawNote'[s][k].class
    BY <1>6 DEF Shown
  <2>1. s # Bare(a) /\ s \notin unsaved
    BY <1>1
  <2>2. lawNote'[s] = lawNote[s]
    BY <1>6, <2>1
  <2> QED BY <1>2, <2>1, <2>2 DEF Shown
<1>14. AssessInv'
  BY <1>1, <1>2, <1>10, <1>11, <1>12, <1>13 DEF AssessInv
<1>15. StoreInv'
  BY <1>1, ScriptsUntouched DEF Inv
<1> QED BY <1>1, <1>14, <1>15, SyncUntouched DEF Inv

-----------------------------------------------------------------------------
\* The transaction is committed: every article read has its rows, and the
\* sections written are saved.
LEMMA CommitAssessStep ==
  ASSUME Inv, CommitAssess
  PROVE  Inv'
<1>1. /\ asr.pc = "run" /\ asr.todo = << >> /\ registry' = asr.work /\ lock' = "free"
      /\ asr' = [asr EXCEPT !.pc = "done", !.work = << >>]
      /\ unsaved' = unsaved \ Bares(asr.read)
      /\ Calm /\ UNCHANGED <<raw, store, others, imp, fwk, cls, lawNote, notes, syn,
                             reviews, edited, torn>>
  BY DEF CommitAssess, Bares
<1>2. /\ asr \in AssessRuns /\ Stored(asr.read) /\ asr.read # {}
      /\ lock # "assess" => asr.read \subseteq ToSet(asr.todo)
      /\ lock = "assess" =>
           Worked(registry, asr.work, lawNote, asr.read, Assessed(asr.read, asr.todo))
      /\ Registers(registry) /\ OfItsSections(lawNote) /\ unsaved \subseteq Numbers
      /\ Shown(lawNote, registry, DOMAIN lawNote \ unsaved)
  BY <1>1 DEF Inv, AssessInv, AssessingFor
<1>3. ToSet(<< >>) = {} /\ << >> \in Seq(Rows) /\ << >> \in Seq(RegRows)
  BY EmptySeq DEF ToSet
<1>4. lock = "assess" /\ Assessed(asr.read, asr.todo) = asr.read
  BY <1>1, <1>2, <1>3 DEF Assessed
<1>5. /\ Registers(asr.work) /\ Follows(registry, asr.work) /\ AllWritten(asr.work, asr.read)
      /\ Shown(lawNote, asr.work, Bares(asr.read))
      /\ SparesOthers(registry, asr.work, Bares(asr.read))
  BY <1>2, <1>4 DEF Worked
<1>6. /\ asr' \in AssessRuns /\ asr'.pc = "done" /\ asr'.read = asr.read /\ asr'.todo = << >>
  BY <1>1, <1>2, <1>3 DEF AssessRuns
<1>7. AssessingFor(asr', lock', registry', lawNote')
  BY <1>1, <1>2, <1>3, <1>5, <1>6 DEF AssessingFor
<1>8. Shown(lawNote, asr.work, DOMAIN lawNote \ unsaved')
  <2> SUFFICES ASSUME NEW s \in DOMAIN lawNote, s \notin unsaved', NEW k \in DOMAIN lawNote[s]
               PROVE  \E i \in 1..Len(asr.work) : asr.work[i].key[2] = lawNote[s][k].id
                                                  /\ asr.work[i].class = lawNote[s][k].class
    BY DEF Shown
  <2>1. CASE s \in Bares(asr.read)
    BY <1>5, <2>1 DEF Shown
  <2>2. CASE s \notin Bares(asr.read)
    <3>1. s \notin unsaved
      BY <1>1, <2>2
    <3>2. PICK i \in 1..Len(registry) : registry[i].key[2] = lawNote[s][k].id
                                        /\ registry[i].class = lawNote[s][k].class
      BY <1>2, <3>1 DEF Shown
    <3>3. lawNote[s][k].id[1] = s
      BY <1>2 DEF OfItsSections
    <3>4. asr.work[i] = registry[i]
      BY <1>5, <2>2, <3>2, <3>3 DEF SparesOthers
    <3>5. i \in 1..Len(asr.work)
      <4>1. Len(registry) \in Nat /\ Len(asr.work) \in Nat
        BY <1>2, <1>5, LenProperties DEF Registers
      <4>2. Len(registry) <= Len(asr.work)
        BY <1>5 DEF Follows
      <4> QED BY <4>1, <4>2
    <3> QED BY <3>2, <3>4, <3>5
  <2> QED BY <2>1, <2>2
<1>9. unsaved' \subseteq Numbers
  BY <1>1, <1>2
<1>10. AssessInv'
  BY <1>1, <1>2, <1>5, <1>7, <1>8, <1>9 DEF AssessInv
<1>11. StoreInv'
  BY <1>1, ScriptsUntouched DEF Inv
<1> QED BY <1>1, <1>10, <1>11, SyncUntouched DEF Inv

\* The block of an article replaces the one of its section, and no other.
LEMMA BlocksOf ==
  ASSUME NEW a \in Rows
  PROVE  /\ DOMAIN Blocks(a) = DOMAIN lawNote
         /\ \A s \in DOMAIN lawNote : s # Bare(a) => Blocks(a)[s] = lawNote[s]
         /\ Bare(a) \in DOMAIN lawNote =>
              \A k \in DOMAIN Blocks(a)[Bare(a)] : Blocks(a)[Bare(a)][k].id[1] = Bare(a)
<1> DEFINE n == Len(Lines(a))  b == [k \in 1..n |-> [id |-> Lines(a)[k].key[2], class |-> Lines(a)[k].class]]
<1>1. Blocks(a) = [s \in DOMAIN lawNote |-> IF s = Bare(a) THEN b ELSE lawNote[s]]
  BY DEF Blocks
<1>2. \A k \in 1..n : Lines(a)[k].key[2][1] = Bare(a)
  BY LinesOfAnArticle
<1>3. \A k \in DOMAIN b : b[k].id[1] = Bare(a)
  BY <1>2
<1> HIDE DEF b
<1> QED BY <1>1, <1>3

\* A run refused or killed takes its transaction with it; the sections it
\* wrote are marked.
LEMMA AssessEndsStep ==
  ASSUME Inv, AssessLockedOut \/ KillAssess
  PROVE  Inv'
<1>1. /\ asr' = AsrIdle /\ lock' # "assess" /\ lock' \in {"free", lock} /\ Fault
      /\ UNCHANGED <<raw, store, others, imp, fwk, cls, registry, notes, syn,
                     reviews, edited, torn>>
  BY DEF AssessLockedOut, KillAssess
<1>2. /\ Registers(registry) /\ OfItsSections(lawNote) /\ unsaved \subseteq Numbers
      /\ Shown(lawNote, registry, DOMAIN lawNote \ unsaved)
  BY DEF Inv, AssessInv
<1>3. /\ OfItsSections(lawNote') /\ unsaved' \subseteq Numbers
      /\ Shown(lawNote', registry, DOMAIN lawNote' \ unsaved')
  <2>1. CASE UNCHANGED <<lawNote, unsaved>>
    BY <1>2, <2>1
  <2>2. CASE ~UNCHANGED <<lawNote, unsaved>>
    <3> DEFINE a == Head(asr.todo)  new == Blocks(a)
    <3>1. /\ Bare(a) \in DOMAIN lawNote
          /\ \E last \in {0} \cup DOMAIN lawNote, open \in BOOLEAN :
               lawNote' = CutOff(new, last, open)
          /\ unsaved' = unsaved \cup {Bare(a)}
      BY <2>2 DEF AssessLockedOut, KillAssess
    <3>2. /\ DOMAIN new = DOMAIN lawNote
          /\ \A s \in DOMAIN lawNote : s # Bare(a) => new[s] = lawNote[s]
          /\ \A k \in DOMAIN new[Bare(a)] : new[Bare(a)][k].id[1] = Bare(a)
      <4>1. asr.todo # << >> /\ asr.todo \in Seq(Rows)
        BY <2>2 DEF Inv, AssessInv, AssessingFor, AssessRuns, AssessLockedOut, KillAssess
      <4>2. a \in Rows
        BY <4>1
      <4> HIDE DEF a
      <4> QED BY <3>1, <4>2, BlocksOf
    <3> HIDE DEF a, new
    <3>3. PICK last \in {0} \cup DOMAIN new, open \in BOOLEAN :
            lawNote' = [s \in {t \in DOMAIN new : t <= last} |->
                          IF s = last /\ open THEN << >> ELSE new[s]]
      BY <3>1, <3>2 DEF CutOff
    <3>4. DOMAIN lawNote' \subseteq DOMAIN lawNote
          /\ \A s \in DOMAIN lawNote' : lawNote'[s] = << >> \/ lawNote'[s] = new[s]
      BY <3>2, <3>3
    <3>5. DOMAIN << >> = {}
      OBVIOUS
    <3>6. OfItsSections(lawNote')
      BY <1>2, <3>2, <3>4, <3>5 DEF OfItsSections
    <3>7. unsaved' \subseteq Numbers
      BY <1>2, <3>1, AssessmentsAssumption DEF OfItsSections
    <3>8. Shown(lawNote', registry, DOMAIN lawNote' \ unsaved')
      <4> SUFFICES ASSUME NEW s \in DOMAIN lawNote', s \notin unsaved', NEW k \in DOMAIN lawNote'[s]
                   PROVE  \E i \in 1..Len(registry) :
                            registry[i].key[2] = lawNote'[s][k].id /\ registry[i].class = lawNote'[s][k].class
        BY DEF Shown
      <4>1. s \in DOMAIN lawNote \ unsaved /\ lawNote'[s] = lawNote[s]
        BY <3>1, <3>2, <3>4, <3>5
      <4> QED BY <1>2, <4>1 DEF Shown
    <3> QED BY <3>6, <3>7, <3>8
  <2> QED BY <2>1, <2>2
<1>4. AssessingFor(asr', lock', registry', lawNote')
  BY <1>1, NoAssessment
<1>5. AssessInv'
  BY <1>1, <1>2, <1>3, <1>4 DEF AssessInv
<1>6. StoreInv'
  BY <1>1, ScriptsUntouched DEF Inv
<1> QED BY <1>1, <1>5, <1>6, SyncUntouched DEF Inv

\* A decision changes the status of one row and no key, text or class.
LEMMA ReviewStep ==
  ASSUME Inv, NEW i \in DOMAIN registry, NEW status \in {"confirmed", "rejected"}, Review(i, status)
  PROVE  Inv'
<1> DEFINE n == Len(registry)
<1>1. /\ lock = "free" /\ lock' = "free" /\ reviews < MaxReviews /\ reviews' = reviews + 1
      /\ registry' = [registry EXCEPT ![i].status = status] /\ Calm
      /\ UNCHANGED <<raw, store, others, lock, imp, fwk, cls, lawNote, notes, asr, syn,
                     unsaved, edited, torn>>
  BY DEF Review
<1>2. /\ Registers(registry) /\ OfItsSections(lawNote) /\ unsaved \subseteq Numbers
      /\ Shown(lawNote, registry, DOMAIN lawNote \ unsaved)
      /\ AssessingFor(asr, lock, registry, lawNote)
  BY DEF Inv, AssessInv
<1>3. /\ registry \in Seq(RegRows) /\ n \in Nat /\ DOMAIN registry = 1..n
      /\ \A j \in 1..n : registry[j] \in RegRows
  BY <1>2 DEF Registers
<1> HIDE DEF n
<1>4. /\ registry' = [j \in 1..n |-> registry'[j]]
      /\ \A j \in 1..n : /\ registry'[j] \in RegRows /\ registry'[j].key = registry[j].key
                         /\ registry'[j].text = registry[j].text /\ registry'[j].class = registry[j].class
  <2>1. registry' = [j \in 1..n |-> IF j = i THEN [registry[i] EXCEPT !.status = status] ELSE registry[j]]
    BY <1>1, <1>3
  <2>2. \A r \in RegRows :
          /\ [r EXCEPT !.status = status] \in RegRows /\ [r EXCEPT !.status = status].key = r.key
          /\ [r EXCEPT !.status = status].text = r.text /\ [r EXCEPT !.status = status].class = r.class
    <3> TAKE r \in RegRows
    <3>1. status \in Statuses
      BY DEF Statuses
    <3> QED BY <3>1 DEF RegRows
  <2>3. i \in 1..n
    BY <1>3
  <2> QED BY <1>3, <2>1, <2>2, <2>3
<1>5. registry' \in Seq(RegRows) /\ Len(registry') = n /\ DOMAIN registry' = 1..n
  BY <1>3, <1>4
<1>6. Registers(registry')
  BY <1>2, <1>4, <1>5 DEF Registers, KeysDiffer, n
<1>7. \A xs : AllWritten(registry, xs) => AllWritten(registry', xs)
  BY <1>4, <1>5 DEF AllWritten, HasLine, n
<1>8. Shown(lawNote, registry', DOMAIN lawNote \ unsaved)
  BY <1>2, <1>4, <1>5 DEF Shown, n
<1>9. AssessingFor(asr', lock', registry', lawNote')
  BY <1>1, <1>2, <1>7 DEF AssessingFor
<1>10. AssessInv'
  BY <1>1, <1>2, <1>6, <1>8, <1>9 DEF AssessInv
<1>11. StoreInv'
  BY <1>1, ScriptsUntouched DEF Inv
<1>12. SyncInv'
  <2>1. reviews' \in 0..MaxReviews
    BY <1>1, AssessmentsAssumption DEF Inv, SyncInv
  <2> QED BY <1>1, <2>1 DEF Inv, SyncInv, PersonsTextIsKept
<1> QED BY <1>10, <1>11, <1>12 DEF Inv

-----------------------------------------------------------------------------
\* The rows for an article are those of the leading integer of its number, in
\* whichever of the two ways the number is stored.
LEMMA RowsOfType ==
  ASSUME NEW rows \in Seq(RegRows), NEW a
  PROVE  /\ RowsOf(a, rows) \in Seq(RegRows)
         /\ ToSet(RowsOf(a, rows)) = {r \in ToSet(rows) : r.key[2][1] = Bare(a)}
<1> DEFINE Q == {r \in RegRows : r.key[1][1][1] = Bare(a)}
<1>1. \A r \in RegRows : r.key[1][1][1] = r.key[2][1]
  <2> TAKE r \in RegRows
  <2>1. PICK number \in AllNums \X Seq(AllLabels), id \in Ids : r.key = KeyOf(number, id)
    BY DEF RegRows, Keys
  <2> QED BY <2>1 DEF KeyOf
<1>2. \A i \in DOMAIN rows : rows[i] \in RegRows
  OBVIOUS
<1>3. {i \in DOMAIN rows : rows[i].key[1][1][1] = Bare(a)} = Within(rows, Q)
  BY <1>2 DEF Within
<1>4. RowsOf(a, rows) = Sel(rows, Q)
  BY <1>3 DEF RowsOf, Sel
<1>5. \A r \in ToSet(rows) : r \in RegRows
  BY <1>2 DEF ToSet
<1> HIDE DEF Q
<1>6. /\ Sel(rows, Q) \in Seq(RegRows)
      /\ \A x : x \in ToSet(Sel(rows, Q)) <=> x \in ToSet(rows) /\ x \in Q
  BY SelType
<1>7. \A x : x \in ToSet(RowsOf(a, rows)) <=> x \in ToSet(rows) /\ x.key[2][1] = Bare(a)
  BY <1>1, <1>4, <1>5, <1>6 DEF Q
<1> QED BY <1>4, <1>6, <1>7

\* sync_article_notes reads the articles ...
LEMMA StartSyncStep ==
  ASSUME Inv, StartSync
  PROVE  Inv'
<1>1. /\ syn' = [pc |-> "read", articles |-> ById(store.articles), rows |-> << >>, left |-> 0]
      /\ Begin /\ UNCHANGED <<raw, store, others, lock, imp, fwk, cls, registry, lawNote, notes, asr,
                             reviews, unsaved, edited, torn>>
  BY DEF StartSync
<1>2. ById(store.articles) \in Seq(Rows)
  <2>1. Stored(store.articles)
    BY DEF Inv, StoreInv, OnePage
  <2>2. ById(store.articles) \in Seq(store.articles) /\ store.articles \in SUBSET Rows
    BY <2>1, ByIdIsAll DEF Stored
  <2> QED BY <2>2
<1>3. << >> \in Seq(RegRows) /\ Len(ById(store.articles)) \in Nat
  BY <1>2, EmptySeq
<1>4. SyncingFor(syn', notes)
  <2>1. syn' \in Syncs /\ syn'.left = 0 /\ syn'.pc = "read" /\ syn'.articles = ById(store.articles)
    BY <1>1, <1>2, <1>3 DEF Syncs
  <2> QED BY <1>3, <2>1 DEF SyncingFor
<1>5. SyncInv'
  BY <1>1, <1>4 DEF Inv, SyncInv, PersonsTextIsKept
<1>6. StoreInv'
  BY <1>1, ScriptsUntouched DEF Inv
<1> QED BY <1>1, <1>5, <1>6, AssessUntouched DEF Inv

\* ... and then the registry.
LEMMA ReadRegistryStep ==
  ASSUME Inv, ReadRegistry
  PROVE  Inv'
<1>1. /\ syn' = [syn EXCEPT !.pc = "write", !.rows = registry, !.left = Len(syn.articles)]
      /\ Calm /\ UNCHANGED <<raw, store, others, lock, imp, fwk, cls, registry, lawNote, notes, asr,
                            reviews, unsaved, edited, torn>>
  BY DEF ReadRegistry
<1>2. syn \in Syncs /\ registry \in Seq(RegRows) /\ Len(syn.articles) \in Nat
  BY LenProperties DEF Inv, SyncInv, SyncingFor, AssessInv, Registers, Syncs
<1>3. /\ syn' \in Syncs /\ syn'.left = Len(syn.articles) /\ syn'.pc = "write"
      /\ syn'.articles = syn.articles
  BY <1>1, <1>2 DEF Syncs
<1>4. SyncingFor(syn', notes)
  <2>1. ~\E n : n \in 1..(Len(syn.articles) - Len(syn.articles))
    BY <1>2
  <2> QED BY <1>2, <1>3, <2>1 DEF SyncingFor
<1>5. SyncInv'
  BY <1>1, <1>4 DEF Inv, SyncInv, PersonsTextIsKept
<1>6. StoreInv'
  BY <1>1, ScriptsUntouched DEF Inv
<1> QED BY <1>1, <1>5, <1>6, AssessUntouched DEF Inv

\* One note is written, and no other is touched.
OneWritten(old, new, f, note) ==
  /\ new \in [DOMAIN new -> NoteRecords] /\ DOMAIN new = DOMAIN old \cup {f}
  /\ new[f] = note /\ \A g \in DOMAIN old : g # f => new[g] = old[g]
Typed(files) == files \in [DOMAIN files -> NoteRecords]

\* One note is written and no other is touched.
LEMMA WithNoteOf ==
  ASSUME NEW f, NEW note \in NoteRecords, Typed(notes)
  PROVE  OneWritten(notes, WithNote(f, note), f, note)
<1> DEFINE new == WithNote(f, note)
<1>1. new = [g \in DOMAIN notes \cup {f} |-> IF g = f THEN note ELSE notes[g]]
  BY DEF WithNote
<1>2. DOMAIN new = DOMAIN notes \cup {f} /\ \A g \in DOMAIN notes \cup {f} : new[g] \in NoteRecords
  BY <1>1 DEF Typed
<1>3. new \in [DOMAIN new -> NoteRecords]
  BY <1>1, <1>2
<1> HIDE DEF new
<1>4. new[f] = note /\ \A g \in DOMAIN notes : g # f => new[g] = notes[g]
  BY <1>1
<1>5. OneWritten(notes, new, f, note)
  BY <1>2, <1>3, <1>4 DEF OneWritten
<1> QED BY <1>5 DEF new

-----------------------------------------------------------------------------
(* The parts of a note *)

\* The first of some positions is one of them.
LEMMA FirstPosition ==
  ASSUME NEW n \in Nat, NEW S \in SUBSET (1..n), S # {}
  PROVE  InOrder(S)[1] \in S
<1>1. /\ InOrder(S) \in [1..Cardinality(S) -> S]
      /\ \A i \in S : \E k \in 1..Cardinality(S) : InOrder(S)[k] = i
      /\ Cardinality(S) \in Nat
  BY Few, Ordered, Ranks
<1>2. PICK i \in S : TRUE
  OBVIOUS
<1>3. PICK k \in 1..Cardinality(S) : InOrder(S)[k] = i
  BY <1>1, <1>2
<1>4. 1 \in 1..Cardinality(S)
  BY <1>1, <1>3
<1> QED BY <1>1, <1>4

\* A part put between the first i parts of a note and those after the j-th.
PutIn(note, i, x, j) == SubSeq(note, 1, i) \o <<x>> \o SubSeq(note, j + 1, Len(note))
IsPutIn(new, note, i, x, j) ==
  /\ new \in NoteRecords /\ Len(new) = i + 1 + (Len(note) - j)
  /\ \A k \in 1..i : new[k] = note[k]
  /\ new[i + 1] = x
  /\ \A k \in (i + 2)..Len(new) : new[k] = note[(k - i - 1) + j]
LEMMA PutBetween ==
  ASSUME NEW note \in NoteRecords, NEW i \in 0..Len(note), NEW j \in 0..Len(note), NEW x \in NoteParts
  PROVE  IsPutIn(PutIn(note, i, x, j), note, i, x, j)
<1> DEFINE n == Len(note)  u == SubSeq(note, 1, i)  v == <<x>>  w == SubSeq(note, j + 1, n)
           new == (u \o v) \o w
<1>1. note \in Seq(NoteParts) /\ n \in Nat /\ i \in Nat /\ j \in Nat /\ i <= n /\ j <= n
  BY DEF NoteRecords
<1>2. u \in Seq(NoteParts) /\ Len(u) = i /\ \A k \in 1..i : u[k] = note[k]
  BY <1>1
<1>3. v \in Seq(NoteParts) /\ Len(v) = 1 /\ v[1] = x
  OBVIOUS
<1>4. w \in Seq(NoteParts) /\ Len(w) = n - j /\ \A k \in 1..(n - j) : w[k] = note[k + j]
  <2>1. CASE j = n
    <3>1. w = << >>
      BY <1>1, <2>1
    <3> QED BY <1>1, <2>1, <3>1
  <2>2. CASE j < n
    <3>1. /\ j + 1 \in Int /\ n \in Int /\ j + 1 <= n /\ n - (j + 1) + 1 = n - j
          /\ \A k \in (j + 1)..n : note[k] \in NoteParts
      BY <1>1, <2>2
    <3> HIDE DEF n
    <3>2. /\ w \in Seq(NoteParts) /\ Len(w) = n - j
          /\ \A k \in 1..(n - j) : w[k] = note[(j + 1) + k - 1]
      BY <3>1, SubSeqProperties, SMTT(30)
    <3>3. \A k \in 1..(n - j) : (j + 1) + k - 1 = k + j
      BY <1>1
    <3> QED BY <3>2, <3>3
  <2> QED BY <1>1, <2>1, <2>2
<1> HIDE DEF u, v, w, n
<1>5. /\ u \o v \in Seq(NoteParts) /\ Len(u \o v) = i + 1
      /\ (\A k \in 1..i : (u \o v)[k] = note[k]) /\ (u \o v)[i + 1] = x
  <2>1. /\ u \o v \in Seq(NoteParts) /\ Len(u \o v) = i + 1
        /\ \A k \in 1..(i + 1) : (u \o v)[k] = IF k <= i THEN u[k] ELSE v[k - i]
    <3>1. /\ u \o v \in Seq(NoteParts) /\ Len(u \o v) = Len(u) + Len(v)
          /\ \A k \in 1..(Len(u) + Len(v)) :
               (u \o v)[k] = IF k <= Len(u) THEN u[k] ELSE v[k - Len(u)]
      <4>1. u \in Seq(NoteParts) /\ v \in Seq(NoteParts)
        BY <1>2, <1>3
      <4> HIDE DEF u, v
      <4> QED BY <4>1, ConcatProperties, ZenonT(30)
    <3> QED BY <1>2, <1>3, <3>1
  <2>2. i + 1 \in 1..(i + 1) /\ ~(i + 1 <= i) /\ (i + 1) - i = 1
        /\ \A k \in 1..i : k \in 1..(i + 1) /\ k <= i
    BY <1>1
  <2> QED BY <1>2, <1>3, <2>1, <2>2
<1> DEFINE y == u \o v
<1> HIDE DEF y
<1>6. /\ y \in Seq(NoteParts) /\ Len(y) = i + 1
      /\ (\A k \in 1..i : y[k] = note[k]) /\ y[i + 1] = x
  BY <1>5 DEF y
<1>7. /\ y \o w \in Seq(NoteParts) /\ Len(y \o w) = i + 1 + (n - j)
      /\ (\A k \in 1..(i + 1) : (y \o w)[k] = y[k])
      /\ \A k \in (i + 2)..(i + 1 + (n - j)) : (y \o w)[k] = w[k - (i + 1)]
  <2>1. /\ y \o w \in Seq(NoteParts) /\ Len(y \o w) = i + 1 + (n - j)
        /\ \A k \in 1..(i + 1 + (n - j)) :
             (y \o w)[k] = IF k <= i + 1 THEN y[k] ELSE w[k - (i + 1)]
    <3>1. /\ y \o w \in Seq(NoteParts) /\ Len(y \o w) = Len(y) + Len(w)
          /\ \A k \in 1..(Len(y) + Len(w)) :
               (y \o w)[k] = IF k <= Len(y) THEN y[k] ELSE w[k - Len(y)]
      <4>1. y \in Seq(NoteParts) /\ w \in Seq(NoteParts)
        BY <1>4, <1>6
      <4> QED BY <4>1, ConcatProperties, ZenonT(30)
    <3>2. Len(y) + Len(w) = i + 1 + (n - j)
      BY <1>1, <1>4, <1>6
    <3> QED BY <1>4, <1>6, <3>1, <3>2
  <2>2. /\ \A k \in 1..(i + 1) : k \in 1..(i + 1 + (n - j)) /\ k <= i + 1
        /\ \A k \in (i + 2)..(i + 1 + (n - j)) :
             k \in 1..(i + 1 + (n - j)) /\ ~(k <= i + 1)
    BY <1>1
  <2> QED BY <2>1, <2>2
<1> DEFINE z == y \o w
<1> HIDE DEF z
<1>8. /\ z \in Seq(NoteParts) /\ Len(z) = i + 1 + (n - j)
      /\ (\A k \in 1..(i + 1) : z[k] = y[k])
      /\ \A k \in (i + 2)..(i + 1 + (n - j)) : z[k] = w[k - (i + 1)]
  BY <1>7 DEF z
<1>9. \A k \in (i + 2)..(i + 1 + (n - j)) : z[k] = note[(k - i - 1) + j]
  <2> TAKE k \in (i + 2)..(i + 1 + (n - j))
  <2>1. k - (i + 1) \in 1..(n - j) /\ k - (i + 1) = k - i - 1
    BY <1>1
  <2> QED BY <1>4, <1>8, <2>1
<1>10. (\A k \in 1..i : z[k] = note[k]) /\ z[i + 1] = x
  BY <1>1, <1>6, <1>8
<1>11. z = new
  BY DEF z, y
<1> HIDE DEF new
<1>12. /\ new \in NoteRecords /\ Len(new) = i + 1 + (n - j)
       /\ (\A k \in 1..i : new[k] = note[k]) /\ new[i + 1] = x
       /\ \A k \in (i + 2)..Len(new) : new[k] = note[(k - i - 1) + j]
  BY <1>8, <1>9, <1>10, <1>11 DEF NoteRecords
<1> QED BY <1>12 DEF new, u, v, w, n, PutIn, IsPutIn

\* Every kind of part that a note has, the other has too.
KeepsKinds(old, new) == \A kind : Parts(old, kind) # {} => Parts(new, kind) # {}

\* A block replaced or appended is in the note; and in a tidy note nothing else
\* is touched.
LEMMA ReplacedNote ==
  ASSUME NEW note \in NoteRecords, NEW x \in NoteParts, x.closed
  PROVE  /\ Replaced(note, x) \in NoteRecords
         /\ \E k \in Parts(Replaced(note, x), x.kind) : Replaced(note, x)[k] = x
         /\ Tidy(note) => Tidy(Replaced(note, x)) /\ KeepsKinds(note, Replaced(note, x))
<1> DEFINE n == Len(note)  P == Parts(note, x.kind)  C == Closed(note, x.kind)  new == Replaced(note, x)
<1>1. note \in Seq(NoteParts) /\ n \in Nat /\ DOMAIN note = 1..n
  BY DEF NoteRecords
<1>2. P \in SUBSET (1..n) /\ C \in SUBSET P
  BY <1>1 DEF Parts, Closed
<1>3. \A k \in 1..n : k \in P <=> note[k].kind = x.kind
  BY <1>1 DEF Parts
<1>c. \A k \in P : note[k].closed => k \in C
  BY DEF Closed
<1> HIDE DEF n, P, C
<1>4. CASE C = {}
  <2>1. new = Append(note, x)
    BY <1>4 DEF Replaced, C
  <2> HIDE DEF new
  <2>2. new \in Seq(NoteParts) /\ Len(new) = n + 1 /\ (\A k \in 1..n : new[k] = note[k]) /\ new[n + 1] = x
    BY <1>1, <2>1, AppendProperties DEF n
  <2>3. DOMAIN new = 1..(n + 1) /\ n + 1 \in DOMAIN new
    BY <1>1, <2>2
  <2>4. n + 1 \in Parts(new, x.kind)
    BY <2>2, <2>3 DEF Parts
  <2>5. ASSUME Tidy(note) PROVE Tidy(new) /\ KeepsKinds(note, new)
    <3>1. \A k \in 1..n : note[k].closed /\ note[k].kind # x.kind
      BY <1>1, <1>3, <1>4, <1>c, <2>5 DEF Tidy
    <3>2. \A k \in 1..(n + 1) : k \in 1..n \/ k = n + 1
      BY <1>1
    <3>3. \A k \in DOMAIN new : new[k].closed
      BY <2>2, <2>3, <3>1, <3>2
    <3>4. \A j, k \in DOMAIN new : new[j].kind = new[k].kind => j = k
      BY <1>1, <2>2, <2>3, <2>5, <3>1, <3>2 DEF Tidy
    <3>5. \A k \in 1..n : k \in 1..(n + 1)
      BY <1>1
    <3>6. KeepsKinds(note, new)
      BY <1>1, <2>2, <2>3, <3>5 DEF KeepsKinds, Parts
    <3> QED BY <3>3, <3>4, <3>6 DEF Tidy
  <2> QED BY <2>2, <2>4, <2>5 DEF new, NoteRecords
<1>5. CASE C # {}
  <2> DEFINE i == InOrder(P)[1]  j == InOrder(C)[1]
  <2>1. i \in P /\ j \in C
    <3>1. C \in SUBSET (1..n) /\ P # {}
      BY <1>2, <1>5
    <3> QED BY <1>1, <1>2, <1>5, <3>1, FirstPosition
  <2>2. new = SubSeq(note, 1, i - 1) \o <<x>> \o SubSeq(note, j + 1, n)
    BY <1>5 DEF Replaced, P, C, n
  <2> HIDE DEF i, j
  <2>3. i \in 1..n /\ j \in 1..n /\ i - 1 \in 0..n /\ j \in 0..n
    BY <1>1, <1>2, <2>1
  <2> DEFINE put == PutIn(note, i - 1, x, j)
  <2>4. /\ put \in NoteRecords /\ Len(put) = (i - 1) + 1 + (n - j)
        /\ (\A k \in 1..(i - 1) : put[k] = note[k])
        /\ put[(i - 1) + 1] = x
        /\ \A k \in ((i - 1) + 2)..Len(put) : put[k] = note[(k - (i - 1) - 1) + j]
    <3>1. IsPutIn(put, note, i - 1, x, j)
      BY <2>3, PutBetween DEF n
    <3> HIDE DEF put
    <3> QED BY <3>1 DEF IsPutIn, n
  <2>5. put = new
    BY <2>2 DEF n, PutIn
  <2> HIDE DEF put, new
  <2>6. (i - 1) + 1 = i /\ (i - 1) + 2 = i + 1
    BY <2>3
  <2>7. new \in NoteRecords /\ new \in Seq(NoteParts) /\ Len(new) = i + (n - j) /\ new[i] = x
    BY <2>4, <2>5, <2>6 DEF NoteRecords
  <2>8. DOMAIN new = 1..(i + (n - j)) /\ i \in DOMAIN new
    <3>1. i \in 1..(i + (n - j))
      BY <1>1, <2>3
    <3> QED BY <2>7, <3>1
  <2>9. i \in Parts(new, x.kind)
    BY <2>7, <2>8 DEF Parts
  <2>10. ASSUME Tidy(note) PROVE Tidy(new) /\ KeepsKinds(note, new)
    <3>1. i = j /\ i + (n - j) = n
      <4>1. note[i].kind = note[j].kind
        BY <1>2, <1>3, <2>1, <2>3
      <4>2. i = j
        BY <1>1, <2>3, <2>10, <4>1 DEF Tidy
      <4> QED BY <1>1, <2>3, <4>2
    <3>2. \A k \in 1..n : k # i => new[k] = note[k]
      <4> SUFFICES ASSUME NEW k \in 1..n, k # i PROVE new[k] = note[k]
        OBVIOUS
      <4>1. CASE k < i
        <5>1. k \in 1..(i - 1)
          BY <2>3, <4>1
        <5> QED BY <2>4, <2>5, <5>1
      <4>2. CASE k > i
        <5>1. k \in ((i - 1) + 2)..Len(put) /\ (k - (i - 1) - 1) + j = k
          BY <1>1, <2>3, <2>5, <2>7, <3>1, <4>2
        <5> QED BY <2>4, <2>5, <5>1
      <4> QED BY <2>3, <4>1, <4>2
    <3>3. DOMAIN new = 1..n
      BY <2>8, <3>1
    <3>4. \A k \in 1..n : new[k].kind = note[k].kind
      BY <1>2, <1>3, <2>1, <2>7, <3>2
    <3>5. \A k \in 1..n : new[k].closed
      BY <1>1, <2>7, <2>10, <3>2 DEF Tidy
    <3>6. \A k, l \in 1..n : note[k].kind = note[l].kind => k = l
      BY <1>1, <2>10 DEF Tidy
    <3>7. Tidy(new)
      BY <3>3, <3>4, <3>5, <3>6 DEF Tidy
    <3>8. KeepsKinds(note, new)
      BY <1>1, <3>3, <3>4 DEF KeepsKinds, Parts
    <3> QED BY <3>7, <3>8
  <2> QED BY <2>7, <2>9, <2>10 DEF new
<1> QED BY <1>4, <1>5

\* What is written of an article shows its rows.
LEMMA UpdatedNote ==
  ASSUME NEW old \in NoteRecords, NEW a \in Rows, NEW rows \in Seq(RegRows)
  PROVE  /\ Updated(old, a, rows) \in NoteRecords
         /\ Displays(Updated(old, a, rows), RowsOf(a, rows))
         /\ Tidy(old) => Tidy(Updated(old, a, rows)) /\ KeepsKinds(old, Updated(old, a, rows))
<1> DEFINE x == Part("text", a.text)  y == Part("rt", RowsOf(a, rows))
           between == Replaced(old, x)  new == Replaced(between, y)
<1>1. Updated(old, a, rows) = new
  BY DEF Updated, Body
<1>2. a.text \in Seq(Paragraphs) /\ RowsOf(a, rows) \in Seq(RegRows)
  BY RowsOfType DEF Rows, RowRecords
<1>3. \A t \in Seq(Paragraphs) : t \in Seq(Paragraphs \cup RegRows)
  OBVIOUS
<1>4. \A t \in Seq(RegRows) : t \in Seq(Paragraphs \cup RegRows)
  OBVIOUS
<1>5. x \in NoteParts /\ x.closed
  BY <1>2, <1>3 DEF Part, NoteParts
<1>6. y \in NoteParts /\ y.closed /\ y.kind = "rt" /\ y.body = RowsOf(a, rows)
  BY <1>2, <1>4 DEF Part, NoteParts
<1> HIDE DEF x, y
<1>7. between \in NoteRecords /\ (Tidy(old) => Tidy(between) /\ KeepsKinds(old, between))
  BY <1>5, ReplacedNote
<1> HIDE DEF between
<1>8. /\ new \in NoteRecords /\ \E k \in Parts(new, y.kind) : new[k] = y
      /\ Tidy(between) => Tidy(new) /\ KeepsKinds(between, new)
  BY <1>6, <1>7, ReplacedNote
<1> HIDE DEF new
<1>9. Displays(new, RowsOf(a, rows))
  BY <1>6, <1>8 DEF Displays
<1>10. Tidy(old) => Tidy(new) /\ KeepsKinds(old, new)
  BY <1>7, <1>8 DEF KeepsKinds
<1> QED BY <1>1, <1>8, <1>9, <1>10

\* A note cut off is a note.
LEMMA BrokenNote ==
  ASSUME NEW note \in NoteRecords, NEW part \in Broken(note)
  PROVE  part \in NoteRecords
<1>1. note \in Seq(NoteParts) /\ Len(note) \in Nat /\ DOMAIN note = 1..Len(note)
  BY DEF NoteRecords
<1>2. ASSUME NEW k \in 0..Len(note) PROVE SubSeq(note, 1, k) \in Seq(NoteParts)
  BY <1>1
<1>3. ASSUME NEW k \in 1..Len(note), NEW x \in Begun(note[k])
      PROVE  x \in NoteParts
  <2>1. note[k] \in NoteParts
    BY <1>1
  <2>2. PICK n \in 0..Len(note[k].body) :
          x = [note[k] EXCEPT !.closed = FALSE, !.body = SubSeq(@, 1, n)]
    BY DEF Begun
  <2> DEFINE b == note[k].body
  <2>3. b \in Seq(Paragraphs \cup RegRows)
    BY <2>1 DEF NoteParts
  <2> HIDE DEF b
  <2>4. SubSeq(b, 1, n) \in Seq(Paragraphs \cup RegRows)
    BY <2>2, <2>3 DEF b
  <2> QED BY <2>1, <2>2, <2>4 DEF NoteParts, b
<1>4. CASE \E k \in 0..(Len(note) - 1) : part = SubSeq(note, 1, k)
  BY <1>1, <1>2, <1>4 DEF NoteRecords
<1>5. CASE \E k \in 1..Len(note) : \E x \in Begun(note[k]) : part = Append(SubSeq(note, 1, k - 1), x)
  <2>1. PICK k \in 1..Len(note) : \E x \in Begun(note[k]) : part = Append(SubSeq(note, 1, k - 1), x)
    BY <1>5
  <2>2. PICK x \in Begun(note[k]) : part = Append(SubSeq(note, 1, k - 1), x)
    BY <2>1
  <2>3. k - 1 \in 0..Len(note)
    BY <1>1
  <2>4. SubSeq(note, 1, k - 1) \in Seq(NoteParts) /\ x \in NoteParts
    BY <1>2, <1>3, <2>3
  <2> QED BY <2>2, <2>4, AppendProperties DEF NoteRecords
<1> QED BY <1>1, <1>4, <1>5 DEF Broken

\* What a person writes is put between the parts, which stay.
LEMMA EditedNote ==
  ASSUME NEW note \in NoteRecords, NEW k \in 0..Len(note), Parts(note, "person") = {}
  PROVE  LET new == SubSeq(note, 1, k) \o <<Person>> \o SubSeq(note, k + 1, Len(note)) IN
         /\ new \in NoteRecords /\ Parts(new, "person") # {}
         /\ \A rows : Displays(note, rows) => Displays(new, rows)
         /\ Tidy(note) => Tidy(new)
<1> DEFINE new == SubSeq(note, 1, k) \o <<Person>> \o SubSeq(note, k + 1, Len(note))  n == Len(note)
           was(m) == IF m <= k THEN m ELSE m - 1
<1>1. Person \in NoteParts /\ Person.kind = "person" /\ Person.closed
  <2>1. << >> \in Seq(Paragraphs \cup RegRows)
    BY EmptySeq
  <2> QED BY <2>1 DEF Person, Part, NoteParts
<1>2. n \in Nat /\ DOMAIN note = 1..n /\ k \in 0..n
  BY DEF NoteRecords
<1>3. /\ new \in NoteRecords /\ Len(new) = k + 1 + (n - k)
      /\ (\A m \in 1..k : new[m] = note[m])
      /\ new[k + 1] = Person
      /\ \A m \in (k + 2)..Len(new) : new[m] = note[(m - k - 1) + k]
  <2> DEFINE put == PutIn(note, k, Person, k)
  <2>1. IsPutIn(put, note, k, Person, k)
    BY <1>1, PutBetween
  <2>2. new = put
    BY DEF PutIn
  <2> HIDE DEF put, new
  <2> QED BY <2>1, <2>2 DEF IsPutIn
<1> HIDE DEF new, n
<1>4. Len(new) = n + 1 /\ DOMAIN new = 1..(n + 1) /\ k + 1 \in 1..(n + 1)
  BY <1>2, <1>3 DEF NoteRecords
<1>5. \A m \in 1..(n + 1) : m # k + 1 => was(m) \in 1..n /\ new[m] = note[was(m)]
  <2> SUFFICES ASSUME NEW m \in 1..(n + 1), m # k + 1 PROVE was(m) \in 1..n /\ new[m] = note[was(m)]
    OBVIOUS
  <2>1. CASE m <= k
    BY <1>2, <1>3, <2>1
  <2>2. CASE m > k + 1
    <3>1. m \in (k + 2)..(n + 1) /\ (m - k - 1) + k = m - 1 /\ was(m) = m - 1 /\ m - 1 \in 1..n
      BY <1>2, <2>2
    <3> QED BY <1>3, <1>4, <3>1
  <2> QED BY <1>2, <2>1, <2>2
<1>6. \A l, m \in 1..(n + 1) : l # k + 1 /\ m # k + 1 /\ was(l) = was(m) => l = m
  BY <1>2
<1>7. \A l \in 1..n : \E m \in 1..(n + 1) : m # k + 1 /\ was(m) = l
  <2> TAKE l \in 1..n
  <2>1. CASE l <= k
    <3>1. l \in 1..(n + 1) /\ l # k + 1 /\ was(l) = l
      BY <1>2, <2>1
    <3> QED BY <3>1
  <2>2. CASE l > k
    <3>1. l + 1 \in 1..(n + 1) /\ l + 1 # k + 1 /\ was(l + 1) = l
      BY <1>2, <2>2
    <3> QED BY <3>1
  <2> QED BY <1>2, <2>1, <2>2
<1> HIDE DEF was
<1>8. Parts(new, "person") # {}
  BY <1>1, <1>3, <1>4 DEF Parts
<1>9. ASSUME NEW rows, Displays(note, rows) PROVE Displays(new, rows)
  <2>1. PICK l \in 1..n : note[l].kind = "rt" /\ note[l].body = rows
    BY <1>2, <1>9 DEF Displays, Parts
  <2>2. PICK m \in 1..(n + 1) : m # k + 1 /\ was(m) = l
    BY <1>7
  <2>3. new[m] = note[l]
    BY <1>5, <2>2
  <2> QED BY <1>4, <2>1, <2>3 DEF Displays, Parts
<1>10. ASSUME Tidy(note) PROVE Tidy(new)
  <2>1. \A l \in 1..n : note[l].kind # "person" /\ note[l].closed
    BY <1>2, <1>10 DEF Parts, Tidy
  <2>2. \A m \in 1..(n + 1) : new[m].closed
    BY <1>1, <1>3, <1>5, <2>1
  <2>3. \A l, m \in 1..(n + 1) : new[l].kind = new[m].kind => l = m
    <3> SUFFICES ASSUME NEW l \in 1..(n + 1), NEW m \in 1..(n + 1), new[l].kind = new[m].kind
                 PROVE  l = m
      OBVIOUS
    <3>1. CASE l # k + 1 /\ m # k + 1
      <4>1. note[was(l)].kind = note[was(m)].kind /\ was(l) \in 1..n /\ was(m) \in 1..n
        BY <1>5, <3>1
      <4>2. was(l) = was(m)
        BY <1>2, <1>10, <4>1 DEF Tidy
      <4> QED BY <1>6, <3>1, <4>2
    <3>2. CASE l = k + 1 \/ m = k + 1
      BY <1>1, <1>3, <1>5, <2>1, <3>2
    <3> QED BY <3>1, <3>2
  <2> QED BY <1>4, <2>2, <2>3 DEF Tidy
<1> QED BY <1>3, <1>8, <1>9, <1>10 DEF new, n

-----------------------------------------------------------------------------
\* A note written shows the rows of its article; notes written before that
\* have the same file show the same rows, and what a person wrote stays.
LEMMA WriteNoteStep ==
  ASSUME Inv, WriteNote
  PROVE  Inv'
<1> DEFINE a == Current  f == File(a)  note == Written
           files == WithNote(f, note)  n == Len(syn.articles)  m == n - syn.left + 1
<1>1. /\ syn.pc = "write" /\ syn.left > 0 /\ notes' = files
      /\ syn' = [syn EXCEPT !.left = @ - 1, !.pc = IF syn.left = 1 THEN "done" ELSE @]
      /\ Calm /\ UNCHANGED <<raw, store, others, lock, imp, fwk, cls, registry, lawNote, asr,
                            reviews, unsaved, edited, torn>>
  BY DEF WriteNote
<1>2. /\ syn \in Syncs /\ syn.left <= n
      /\ notes \in [DOMAIN notes -> NoteRecords] /\ edited \subseteq DOMAIN notes
      /\ torn \subseteq DOMAIN notes /\ reviews \in 0..MaxReviews
      /\ \A g \in edited \ torn : g \in DOMAIN notes /\ Parts(notes[g], "person") # {}
      /\ \A g \in DOMAIN notes \ torn : Tidy(notes[g])
      /\ \A k \in 1..(n - syn.left) :
           /\ File(syn.articles[k]) \in DOMAIN notes
           /\ Displays(notes[File(syn.articles[k])], RowsOf(syn.articles[k], syn.rows))
  BY <1>1 DEF Inv, SyncInv, SyncingFor, PersonsTextIsKept
<1>3. /\ syn.articles \in Seq(Rows) /\ syn.rows \in Seq(RegRows) /\ syn.left \in Nat /\ n \in Nat
  BY <1>2, LenProperties DEF Syncs
<1>4. m \in 1..n /\ a = syn.articles[m] /\ n - (syn.left - 1) = m /\ \A k \in 1..m : k = m \/ k \in 1..(n - syn.left)
  BY <1>1, <1>2, <1>3 DEF Current
<1>5. a \in Rows
  BY <1>3, <1>4
<1>6. note = Updated(Existing(f), a, syn.rows)
  BY DEF Written
<1> HIDE DEF a, m, note
<1>e. /\ Existing(f) \in NoteRecords /\ (f \in DOMAIN notes => Existing(f) = notes[f])
      /\ f \notin torn => Tidy(Existing(f))
  <2>1. << >> \in NoteRecords /\ DOMAIN << >> = {}
    BY EmptySeq DEF NoteRecords
  <2>2. Tidy(<< >>)
    BY <2>1 DEF Tidy
  <2> QED BY <1>2, <2>1, <2>2 DEF Existing
<1>7. /\ note \in NoteRecords /\ Displays(note, RowsOf(a, syn.rows))
      /\ Tidy(Existing(f)) => Tidy(note) /\ KeepsKinds(Existing(f), note)
  <2> HIDE DEF f
  <2> QED BY <1>3, <1>5, <1>6, <1>e, UpdatedNote
<1> HIDE DEF note
<1>8. /\ files \in [DOMAIN files -> NoteRecords] /\ DOMAIN files = DOMAIN notes \cup {f}
      /\ files[f] = note /\ \A g \in DOMAIN notes : g # f => files[g] = notes[g]
  <2>1. Typed(notes)
    BY <1>2 DEF Typed
  <2> HIDE DEF f
  <2>2. OneWritten(notes, WithNote(f, note), f, note)
    BY <1>7, <2>1, WithNoteOf
  <2> QED BY <2>2 DEF OneWritten
<1> HIDE DEF files
<1>9. \A g \in edited \ torn : g \in DOMAIN files /\ Parts(files[g], "person") # {}
  <2> TAKE g \in edited \ torn
  <2>1. g \in DOMAIN notes /\ Parts(notes[g], "person") # {}
    BY <1>2
  <2> HIDE DEF f
  <2> QED BY <1>7, <1>8, <1>e, <2>1 DEF KeepsKinds
<1>t. \A g \in DOMAIN files \ torn : Tidy(files[g])
  <2> HIDE DEF f
  <2> QED BY <1>2, <1>7, <1>8, <1>e
<1>10. \A k \in 1..m : /\ File(syn.articles[k]) \in DOMAIN files
                       /\ Displays(files[File(syn.articles[k])], RowsOf(syn.articles[k], syn.rows))
  <2> TAKE k \in 1..m
  <2> DEFINE b == syn.articles[k]
  <2>1. CASE k = m
    BY <1>4, <1>7, <1>8, <2>1
  <2>2. CASE k # m
    <3>1. File(b) \in DOMAIN notes /\ Displays(notes[File(b)], RowsOf(b, syn.rows))
      BY <1>2, <1>4, <2>2
    <3>2. CASE File(b) = f
      <4>1. Bare(b) = Bare(a)
        BY <3>2 DEF File
      <4>2. RowsOf(b, syn.rows) = RowsOf(a, syn.rows)
        BY <4>1 DEF RowsOf
      <4> QED BY <1>7, <1>8, <3>2, <4>2
    <3>3. CASE File(b) # f
      BY <1>8, <3>1, <3>3
    <3> QED BY <3>2, <3>3
  <2> QED BY <2>1, <2>2
<1>11. /\ syn' \in Syncs /\ syn'.left = syn.left - 1 /\ syn'.articles = syn.articles
       /\ syn'.rows = syn.rows /\ (syn'.pc = "done" => syn.left = 1)
  <2>1. syn.left - 1 \in Nat
    BY <1>1, <1>3
  <2>2. CASE syn.left = 1
    BY <1>1, <1>2, <2>1, <2>2 DEF Syncs
  <2>3. CASE syn.left # 1
    <3>1. syn' = [syn EXCEPT !.left = @ - 1, !.pc = "write"]
      BY <1>1, <2>3
    <3> QED BY <1>2, <2>1, <3>1 DEF Syncs
  <2> QED BY <2>2, <2>3
<1>12. SyncingFor(syn', files)
  <2>1. syn.left - 1 <= n /\ (syn.left = 1 => syn.left - 1 = 0)
    BY <1>2, <1>3
  <2> QED BY <1>4, <1>10, <1>11, <2>1 DEF SyncingFor
<1>13. SyncInv'
  BY <1>1, <1>2, <1>8, <1>9, <1>t, <1>12 DEF SyncInv, PersonsTextIsKept
<1>14. StoreInv'
  BY <1>1, ScriptsUntouched DEF Inv
<1> QED BY <1>1, <1>13, <1>14, AssessUntouched DEF Inv

\* What a run is about to write is a note.
LEMMA WrittenNote ==
  ASSUME Inv, syn.pc = "write", syn.left > 0
  PROVE  Written \in NoteRecords
<1> DEFINE n == Len(syn.articles)  m == n - syn.left + 1  a == Current  f == File(a)
<1>1. syn \in Syncs /\ syn.left <= n /\ notes \in [DOMAIN notes -> NoteRecords]
  BY DEF Inv, SyncInv, SyncingFor
<1>2. /\ syn.articles \in Seq(Rows) /\ syn.rows \in Seq(RegRows) /\ syn.left \in Nat /\ n \in Nat
  BY <1>1, LenProperties DEF Syncs
<1>3. m \in 1..n /\ a = syn.articles[m]
  BY <1>1, <1>2 DEF Current
<1>4. a \in Rows
  BY <1>2, <1>3
<1>5. Written = Updated(Existing(f), a, syn.rows)
  BY DEF Written
<1> HIDE DEF a, f
<1>6. Existing(f) \in NoteRecords
  BY <1>1, EmptySeq DEF Existing, NoteRecords
<1> QED BY <1>2, <1>4, <1>5, <1>6, UpdatedNote

\* A kill ends the run, and may leave one note cut off, which is marked.
LEMMA KillSyncStep ==
  ASSUME Inv, KillSync
  PROVE  Inv'
<1> DEFINE f == File(Current)
<1>1. /\ syn' = SynIdle /\ Fault
      /\ UNCHANGED <<raw, store, others, lock, imp, fwk, cls, registry, lawNote, asr,
                     reviews, unsaved, edited>>
      /\ \/ UNCHANGED <<notes, torn>>
         \/ /\ syn.pc = "write" /\ syn.left > 0 /\ torn' = torn \cup {f}
            /\ \E note \in Broken(Written) : notes' = WithNote(f, note)
  BY DEF KillSync
<1>2. /\ notes \in [DOMAIN notes -> NoteRecords] /\ edited \subseteq DOMAIN notes
      /\ torn \subseteq DOMAIN notes /\ reviews \in 0..MaxReviews
      /\ \A g \in edited \ torn : g \in DOMAIN notes /\ Parts(notes[g], "person") # {}
      /\ \A g \in DOMAIN notes \ torn : Tidy(notes[g])
  BY DEF Inv, SyncInv, PersonsTextIsKept
<1>3. SyncingFor(syn', notes')
  BY <1>1, NoSync
<1>4. SyncInv'
  <2>1. CASE UNCHANGED <<notes, torn>>
    BY <1>1, <1>2, <1>3, <2>1 DEF SyncInv, PersonsTextIsKept
  <2>2. CASE ~UNCHANGED <<notes, torn>>
    <3>1. PICK note \in Broken(Written) : notes' = WithNote(f, note)
      BY <1>1, <2>2
    <3>2. torn' = torn \cup {f}
      BY <1>1, <2>2
    <3>3. Written \in NoteRecords
      BY <1>1, <2>2, WrittenNote
    <3>4. note \in NoteRecords
      BY <3>3, BrokenNote
    <3> HIDE DEF f
    <3>5. /\ notes' \in [DOMAIN notes' -> NoteRecords] /\ DOMAIN notes' = DOMAIN notes \cup {f}
          /\ \A g \in DOMAIN notes : g # f => notes'[g] = notes[g]
      <4>1. Typed(notes)
        BY <1>2 DEF Typed
      <4>2. OneWritten(notes, notes', f, note)
        BY <3>1, <3>4, <4>1, WithNoteOf
      <4> QED BY <4>2 DEF OneWritten
    <3>6. \A g \in edited \ torn' : g \in DOMAIN notes' /\ Parts(notes'[g], "person") # {}
      BY <1>2, <3>2, <3>5
    <3>7. \A g \in DOMAIN notes' \ torn' : Tidy(notes'[g])
      BY <1>2, <3>2, <3>5
    <3> QED BY <1>1, <1>2, <1>3, <3>2, <3>5, <3>6, <3>7 DEF SyncInv, PersonsTextIsKept
  <2> QED BY <2>1, <2>2
<1>5. StoreInv'
  BY <1>1, ScriptsUntouched DEF Inv
<1> QED BY <1>1, <1>4, <1>5, AssessUntouched DEF Inv

\* A person writes outside of the blocks: they stay.
LEMMA EditStep ==
  ASSUME Inv, NEW f \in DOMAIN notes, NEW k \in 0..Len(notes[f]), Edit(f, k)
  PROVE  Inv'
<1> DEFINE note == notes[f]
           new == SubSeq(note, 1, k) \o <<Person>> \o SubSeq(note, k + 1, Len(note))
<1>1. /\ reviews < MaxReviews /\ reviews' = reviews + 1 /\ Parts(note, "person") = {}
      /\ notes' = [notes EXCEPT ![f] = new]
      /\ edited' = edited \cup {f} /\ torn' = IF Tidy(note) THEN torn \ {f} ELSE torn
      /\ Calm /\ UNCHANGED <<raw, store, others, lock, imp, fwk, cls, registry, lawNote, asr,
                            syn, unsaved>>
  BY DEF Edit
<1>2. /\ notes \in [DOMAIN notes -> NoteRecords] /\ edited \subseteq DOMAIN notes
      /\ torn \subseteq DOMAIN notes /\ reviews \in 0..MaxReviews
      /\ \A g \in edited \ torn : g \in DOMAIN notes /\ Parts(notes[g], "person") # {}
      /\ \A g \in DOMAIN notes \ torn : Tidy(notes[g])
      /\ SyncingFor(syn, notes)
  BY DEF Inv, SyncInv, PersonsTextIsKept
<1>n. note \in NoteRecords /\ k \in 0..Len(note)
  BY <1>2
<1> HIDE DEF note
<1>3. /\ new \in NoteRecords /\ Parts(new, "person") # {}
      /\ \A rows : Displays(note, rows) => Displays(new, rows)
      /\ Tidy(note) => Tidy(new)
  BY <1>1, <1>n, EditedNote
<1> HIDE DEF new
<1>4. /\ notes' \in [DOMAIN notes' -> NoteRecords] /\ DOMAIN notes' = DOMAIN notes
      /\ notes'[f] = new /\ \A g \in DOMAIN notes : g # f => notes'[g] = notes[g]
  <2>1. notes' = [g \in DOMAIN notes |-> IF g = f THEN new ELSE notes[g]]
    BY <1>1, <1>2
  <2> QED BY <1>2, <1>3, <2>1
<1>5. SyncingFor(syn, notes')
  <2>1. \A g \in DOMAIN notes : \A rows : Displays(notes[g], rows) => Displays(notes'[g], rows)
    BY <1>3, <1>4 DEF note
  <2> QED BY <1>2, <1>4, <2>1 DEF SyncingFor
<1>6. reviews' \in 0..MaxReviews
  BY <1>1, <1>2, AssessmentsAssumption
<1>7. \A g \in DOMAIN notes' \ torn' : Tidy(notes'[g])
  BY <1>1, <1>2, <1>3, <1>4 DEF note
<1>8. \A g \in edited' \ torn' : g \in DOMAIN notes' /\ Parts(notes'[g], "person") # {}
  BY <1>1, <1>2, <1>3, <1>4
<1>9. SyncInv'
  BY <1>1, <1>2, <1>4, <1>5, <1>6, <1>7, <1>8 DEF SyncInv, PersonsTextIsKept
<1>10. StoreInv'
  BY <1>1, ScriptsUntouched DEF Inv
<1> QED BY <1>1, <1>9, <1>10, AssessUntouched DEF Inv

-----------------------------------------------------------------------------
(* Every step *)

\* Every step keeps the invariant ...
LEMMA Keeps ==
  ASSUME Inv, Next
  PROVE  Inv'
<1>1. CASE StoreStep
  <2>1. StoreNext /\ UNCHANGED <<registry, lawNote, asr, unsaved>>
        /\ UNCHANGED <<notes, syn, reviews, edited, torn>>
    BY <1>1 DEF StoreStep, assessVars
  <2>2. StoreInv' /\ (lock = "assess" <=> lock' = "assess")
    BY <2>1, StoreKept, ScriptsStep DEF Inv
  <2> QED BY <2>1, <2>2, AssessUntouched, SyncUntouched DEF Inv
<1>2. CASE \E from, to \in Numbers : StartAssess(from, to)
  BY <1>2, StartAssessStep
<1>3. CASE \E i \in DOMAIN registry, status \in {"confirmed", "rejected"} : Review(i, status)
  BY <1>3, ReviewStep
<1>4. CASE \E f \in DOMAIN notes : \E k \in 0..Len(notes[f]) : Edit(f, k)
  BY <1>4, EditStep
<1> QED BY <1>1, <1>2, <1>3, <1>4, AssessArticleStep, CommitAssessStep, AssessEndsStep,
           StartSyncStep, ReadRegistryStep, WriteNoteStep, KillSyncStep DEF Next, Assess, Sync

\* ... and so does a step of nobody.
LEMMA Rests ==
  ASSUME Inv, UNCHANGED vars
  PROVE  Inv'
<1>1. /\ UNCHANGED <<raw, store, others, imp, fwk, cls>> /\ lock' = lock /\ Calm
      /\ UNCHANGED <<registry, lawNote, asr, unsaved>>
      /\ UNCHANGED <<notes, syn, reviews, edited, torn>>
  BY DEF vars, Calm
<1> QED BY <1>1, ScriptsUntouched, AssessUntouched, SyncUntouched DEF Inv

\* The inductive invariant holds however the scripts, people and kills are
\* ordered.
THEOREM Invariant == Spec => []Inv
<1>1. Init => Inv
  BY Initially
<1>2. Inv /\ [Next]_vars => Inv'
  BY Keeps, Rests
<1> QED BY <1>1, <1>2, PTL DEF Spec

-----------------------------------------------------------------------------
(* The properties *)

\* The invariant gives the types.
LEMMA TypesOfInv == Inv => TypeOK
<1> SUFFICES ASSUME Inv PROVE TypeOK
  OBVIOUS
<1>1. StoreTypeOK
  <2>1. \A r \in store.articles : r.id \in Nat \ {0, others}
    BY DEF Inv, StoreInv, OnePage, Stored, Rows, RowRecords
  <2>2. store.known \in BOOLEAN
    BY DEF Inv, StoreInv, OnePage
  <2>3. cls.pc \in {"idle", "run", "done"} /\ (cls.pc = "run") = (cls.todo # << >>)
    BY DEF Inv, StoreInv, RunFor, Runs
  <2>4. Scripts
    BY DEF Inv, StoreInv
  <2> QED BY <2>1, <2>2, <2>3, <2>4 DEF StoreTypeOK, Scripts
<1>2. \A i \in DOMAIN registry :
        /\ registry[i].class \in Classes
        /\ registry[i].status \in {"proposed", "confirmed", "rejected", "needs_review"}
  <2>1. \A i \in DOMAIN registry : registry[i] \in RegRows
    BY DEF Inv, AssessInv, Registers
  <2> QED BY <2>1 DEF RegRows, Statuses
<1>3. /\ DOMAIN lawNote \subseteq Sections /\ unsaved \subseteq Numbers
      /\ asr.pc \in {"idle", "run", "done"} /\ (lock = "assess" => asr.pc = "run")
  BY DEF Inv, AssessInv, OfItsSections, AssessingFor, AssessRuns
<1>4. syn \in Syncs /\ syn.left <= Len(syn.articles)
  BY DEF Inv, SyncInv, SyncingFor
<1>5. syn.pc \in {"idle", "read", "write", "done"} /\ syn.left \in 0..Len(syn.articles)
  <2>1. syn.left \in Nat /\ Len(syn.articles) \in Nat
    BY <1>4, LenProperties DEF Syncs
  <2> QED BY <1>4, <2>1 DEF Syncs
<1>6. /\ edited \subseteq DOMAIN notes /\ torn \subseteq DOMAIN notes
      /\ reviews \in 0..MaxReviews
  BY DEF Inv, SyncInv
<1> QED BY <1>1, <1>2, <1>3, <1>5, <1>6 DEF TypeOK

\* Types: the database, the notes and the runs of the five programs are what
\* the model says they are, in every order of starts, kills and commits.
THEOREM TypeCorrect == Spec => []TypeOK
BY Invariant, TypesOfInv, PTL

\* What is stored is what a page says.
ShowsThePage(st, law) ==
  /\ {PathOf(r) : r \in st.articles} \in
       {{PathOf(a) : a \in ToSet(Kept(law))}, {PathOf(a) : a \in ToSet(law.articles)}}
  /\ \A r \in st.articles :
       \E a \in ToSet(law.articles) : PathOf(a) = PathOf(r) /\ a.text = r.text
  /\ st.recitals \subseteq ToSet(law.recitals)
  /\ {r.num : r \in st.recitals} \in
       {{r.num : r \in ToSet(Worded(law.recitals))},
        {r.num : r \in ToSet(Recited(law))}}
  /\ {a.code : a \in st.annexes} = {a.code : a \in ToSet(law.annexes)}
\* Either script stores what the page shows.
LEMMA LawShowsThePage ==
  ASSUME NEW law \in Laws, NEW st, IsTheLaw(st, law)
  PROVE  ShowsThePage(st, law)
<1>1. PICK what \in Loads(law) : Holds(st, what)
  BY DEF IsTheLaw
<1>2. SameTexts(st, law)
  BY DEF IsTheLaw
<1>3. CASE what = ByIngestOne(law)
  <2>1. /\ {PathOf(r) : r \in st.articles} = {PathOf(a) : a \in ToSet(Kept(law))}
        /\ st.recitals = ToSet(Worded(law.recitals)) /\ st.annexes = ToSet(law.annexes)
    BY <1>1, <1>3 DEF Holds, ByIngestOne
  <2>2. ToSet(Worded(law.recitals)) \subseteq ToSet(law.recitals)
    <3>1. law.recitals \in Seq(ParsedRecitals)
      BY DEF Laws
    <3> QED BY <3>1, WordedOf
  <2> QED BY <1>2, <2>1, <2>2 DEF ShowsThePage, SameTexts
<1>4. CASE what = ByFrameworks(law)
  <2>1. /\ {PathOf(r) : r \in st.articles} = {PathOf(a) : a \in ToSet(FirstArticles(law))}
        /\ st.recitals = ToSet(FirstRecitals(law)) /\ st.annexes = ToSet(FirstAnnexes(law))
    BY <1>1, <1>4 DEF Holds, ByFrameworks
  <2>2. /\ {PathOf(a) : a \in ToSet(FirstArticles(law))} = {PathOf(a) : a \in ToSet(law.articles)}
        /\ ToSet(FirstRecitals(law)) \subseteq ToSet(law.recitals)
        /\ {r.num : r \in ToSet(FirstRecitals(law))} = {r.num : r \in ToSet(Recited(law))}
        /\ {a.code : a \in ToSet(FirstAnnexes(law))} = {a.code : a \in ToSet(law.annexes)}
    BY FirstsOfALaw
  <2> QED BY <1>2, <2>1, <2>2 DEF ShowsThePage, SameTexts
<1> QED BY <1>3, <1>4 DEF Loads

\* The invariant gives that the law is its page.
LEMMA LawOfInv == Inv => LawIsItsPage
<1> SUFFICES ASSUME Inv PROVE LawIsItsPage
  OBVIOUS
<1>1. LawIsOnePage
  <2> SUFFICES ASSUME store.known
               PROVE  /\ \A r, s \in store.articles : r.id = s.id \/ PathOf(r) = PathOf(s) => r = s
                      /\ \A r, s \in store.recitals : r.num = s.num => r = s
                      /\ \E page \in Pages : ShowsThePage(store, Parsed[page])
    BY DEF LawIsOnePage, ShowsThePage
  <2>1. \A r, s \in store.articles : r.id = s.id \/ PathOf(r) = PathOf(s) => r = s
    BY DEF Inv, StoreInv, OnePage, Stored, Differ
  <2>2. \A r, s \in store.recitals : r.num = s.num => r = s
    BY DEF Inv, StoreInv, OnePage, OnceNumbered
  <2>3. PICK page \in Pages : IsTheLaw(store, Parsed[page])
    BY DEF Inv, StoreInv, OnePage
  <2>4. Parsed[page] \in Laws
    BY ParsedIsALaw
  <2>5. ShowsThePage(store, Parsed[page])
    BY <2>3, <2>4, LawShowsThePage
  <2> QED BY <2>1, <2>2, <2>5
<1>2. ArticlesCarryThePage
  <2>1. imp.page \in Pages
    BY DEF Inv, StoreInv, Scripts
  <2> QED BY <2>1, PageIsCarried DEF ArticlesCarryThePage
<1> QED BY <1>1, <1>2 DEF LawIsItsPage

\* However ingest_one and ingest_frameworks are ordered, killed or refused,
\* what is stored of the law is one page, with the words of the page in its
\* articles and chunks: for every set of editions.
THEOREM LawStored == Spec => []LawIsItsPage
BY Invariant, LawOfInv, PTL

\* The invariant gives that verdicts hold.
LEMMA VerdictsOfInv == Inv => VerdictsHold
<1> SUFFICES ASSUME Inv PROVE VerdictsHold
  OBVIOUS
<1>1. VerdictsAreOwn
  BY DEF Inv, StoreInv, OnePage, OwnVerdicts, VerdictsAreOwn
<1>2. FullRunIsComplete
  <2> SUFFICES ASSUME cls.pc = "done", cls.all, ~cls.stale PROVE Unclassified = {}
    BY DEF FullRunIsComplete
  <2>1. RunFor(cls, store.articles)
    BY DEF Inv, StoreInv
  <2>2. Remains(<< >>, store.articles)
    BY <2>1 DEF RunFor
  <2>3. ~\E k : k \in 1..Len(<< >>)
    <3>1. Len(<< >>) = 0
      BY EmptySeq
    <3> QED BY <3>1
  <2>4. Open(store.articles) = {}
    BY <2>2, <2>3 DEF Remains
  <2> QED BY <2>4 DEF Open, Unclassified
<1> QED BY <1>1, <1>2 DEF VerdictsHold

\* A verdict of classify_detection_methods is about the text next to it,
\* unless the law was stored anew meanwhile; a full run leaves no text without
\* one.
THEOREM VerdictsStand == Spec => []VerdictsHold
BY Invariant, VerdictsOfInv, PTL

\* The invariant gives that obligations are the article.
LEMMA ObligationsOfInv == Inv => ObligationsAreTheArticle
<1> SUFFICES ASSUME Inv PROVE ObligationsAreTheArticle
  OBVIOUS
<1>1. registry \in Seq(RegRows) /\ DOMAIN registry = 1..Len(registry) /\ KeysDiffer(registry)
  BY DEF Inv, AssessInv, Registers
<1>2. AssessingFor(asr, lock, registry, lawNote) /\ asr \in AssessRuns /\ Stored(asr.read)
  BY DEF Inv, AssessInv, AssessingFor
<1>3. OneRowPerObligation
  <2>1. ASSUME asr.pc = "done", NEW a \in asr.read, NEW k \in DOMAIN Lines(a)
        PROVE  \E i \in DOMAIN registry :
                 /\ registry[i].key = Lines(a)[k].key /\ registry[i].text = Lines(a)[k].text
                 /\ registry[i].class = Lines(a)[k].class
    <3>1. AllWritten(registry, asr.read)
      BY <1>2, <2>1 DEF AssessingFor
    <3>2. a \in Rows
      BY <1>2 DEF Stored
    <3>3. DOMAIN Lines(a) = 1..Len(Lines(a))
      <4>1. Lines(a) \in Seq(LineRecords)
        BY <3>2, LinesOfAnArticle
      <4> QED BY <4>1
    <3>4. HasLine(registry, Lines(a)[k])
      BY <3>1, <3>3 DEF AllWritten
    <3> QED BY <1>1, <3>4 DEF HasLine
  <2> QED BY <1>1, <2>1 DEF OneRowPerObligation, KeysDiffer
<1>4. ObligationsCarryTheArticle
  <2> SUFFICES ASSUME asr.todo # << >>, ~Unparsable(Head(asr.todo).text)
               PROVE  LET text == Head(asr.todo).text
                          obligations == ParseArticle(text)
                          carried == Joined([k \in 1..Len(obligations) |-> obligations[k].text])
                      IN \E k \in 1..Len(text) :
                           /\ WordsOf(carried) = WordsOf(SubSeq(text, k, Len(text)))
                           /\ \A j \in 1..(k - 1) : j \in Marks(text) => text[j].words = ""
    BY DEF ObligationsCarryTheArticle
  <2> DEFINE text == Head(asr.todo).text
  <2>1. text \in Seq(Paragraphs)
    <3>1. asr.todo \in Seq(Rows)
      BY <1>2 DEF AssessRuns
    <3>2. Head(asr.todo) \in Rows
      BY <3>1
    <3> QED BY <3>2 DEF Rows, RowRecords
  <2>2. text # << >>
    BY DEF Unparsable, Blank
  <2> HIDE DEF text
  <2> QED BY <2>1, <2>2, ArticleIsCarried DEF text
<1> QED BY <1>3, <1>4 DEF ObligationsAreTheArticle

\* article_runtime_pipeline registers one row for every obligation, with its
\* text and class, and the obligations carry the article, whatever its text.
THEOREM ObligationsRegistered == Spec => []ObligationsAreTheArticle
BY Invariant, ObligationsOfInv, PTL

\* The invariant gives that the notes show the registry.
LEMMA NotesOfInv == Inv => NotesShowRegistry
<1> SUFFICES ASSUME Inv PROVE NotesShowRegistry
  OBVIOUS
<1>1. LawNoteFollowsRegistry
  <2>1. DOMAIN registry = 1..Len(registry)
    BY DEF Inv, AssessInv, Registers
  <2>2. Shown(lawNote, registry, DOMAIN lawNote \ unsaved)
    BY DEF Inv, AssessInv
  <2> QED BY <2>1, <2>2 DEF Shown, LawNoteFollowsRegistry
<1>2. NotesProjectRegistry
  <2> SUFFICES ASSUME syn.pc = "done", NEW n \in DOMAIN syn.articles
               PROVE  LET a == syn.articles[n]
                          right == {r \in ToSet(syn.rows) : r.key[2][1] = Bare(a)}
                          shown == {ToSet(notes[File(a)][k].body) : k \in Parts(notes[File(a)], "rt")}
                      IN /\ File(a) \in DOMAIN notes /\ right \in shown
                         /\ File(a) \notin torn => shown = {right}
    BY DEF NotesProjectRegistry
  <2> DEFINE a == syn.articles[n]  note == notes[File(a)]
             right == {r \in ToSet(syn.rows) : r.key[2][1] = Bare(a)}
             shown == {ToSet(note[k].body) : k \in Parts(note, "rt")}
  <2>1. SyncingFor(syn, notes) /\ syn \in Syncs /\ syn.left = 0
    BY DEF Inv, SyncInv, SyncingFor
  <2>2. /\ syn.articles \in Seq(Rows) /\ syn.rows \in Seq(RegRows) /\ Len(syn.articles) \in Nat
        /\ DOMAIN syn.articles = 1..Len(syn.articles)
    BY <2>1, LenProperties DEF Syncs
  <2>3. n \in 1..(Len(syn.articles) - syn.left)
    BY <2>1, <2>2
  <2>4. File(a) \in DOMAIN notes /\ Displays(note, RowsOf(a, syn.rows))
    BY <2>1, <2>3 DEF SyncingFor
  <2>5. ToSet(RowsOf(a, syn.rows)) = right
    BY <2>2, RowsOfType
  <2>6. File(a) \notin torn => Tidy(note)
    BY <2>4 DEF Inv, SyncInv
  <2> HIDE DEF a, note, right
  <2>7. PICK k \in Parts(note, "rt") : note[k].body = RowsOf(a, syn.rows)
    BY <2>4 DEF Displays
  <2>8. right \in shown
    BY <2>5, <2>7
  <2>9. File(a) \notin torn => shown = {right}
    <3> SUFFICES ASSUME Tidy(note), NEW j \in Parts(note, "rt") PROVE j = k
      BY <2>5, <2>6, <2>7
    <3> QED BY DEF Tidy, Parts
  <2> QED BY <2>4, <2>8, <2>9 DEF a, note, right
<1> QED BY <1>1, <1>2 DEF NotesShowRegistry

\* The note of the law shows rows of the registry, but for sections a run
\* wrote and did not commit; the notes of articles show the rows their run
\* read.
THEOREM NotesShow == Spec => []NotesShowRegistry
BY Invariant, NotesOfInv, PTL

\* No step takes a row or a decision away.
LEMMA KeptByRegister ==
  ASSUME Inv, Next
  PROVE  ReviewsAreKept
<1>1. registry \in Seq(RegRows) /\ DOMAIN registry = 1..Len(registry) /\ Len(registry) \in Nat
  BY LenProperties DEF Inv, AssessInv, Registers
<1>2. ASSUME UNCHANGED registry PROVE ReviewsAreKept
  BY <1>2 DEF ReviewsAreKept
<1>3. CASE CommitAssess
  <2>1. /\ asr.pc = "run" /\ asr.todo = << >> /\ registry' = asr.work
    BY <1>3 DEF CommitAssess
  <2>2. lock = "assess"
    <3>1. asr.read # {} /\ (lock # "assess" => asr.read \subseteq ToSet(asr.todo))
      BY <2>1 DEF Inv, AssessInv, AssessingFor
    <3>2. ToSet(<< >>) = {}
      BY EmptySeq DEF ToSet
    <3> QED BY <2>1, <3>1, <3>2
  <2>3. Follows(registry, registry') /\ registry' \in Seq(RegRows)
    BY <2>1, <2>2 DEF Inv, AssessInv, AssessingFor, Worked, Registers
  <2>4. \A i \in 1..Len(registry) : i \in DOMAIN registry'
    <3>1. DOMAIN registry' = 1..Len(registry') /\ Len(registry') \in Nat
      BY <2>3
    <3> QED BY <1>1, <2>3, <3>1 DEF Follows
  <2> QED BY <1>1, <2>3, <2>4 DEF Follows, ReviewsAreKept
<1>4. ASSUME NEW i \in DOMAIN registry, NEW status, Review(i, status) PROVE ReviewsAreKept
  <2>1. registry' = [registry EXCEPT ![i].status = status] /\ reviews' = reviews + 1
    BY <1>4 DEF Review
  <2>2. \A r \in RegRows : [r EXCEPT !.status = status].key = r.key
    BY DEF RegRows
  <2>3. \A j \in DOMAIN registry : j \in DOMAIN registry' /\ registry'[j].key = registry[j].key
    BY <1>1, <2>1, <2>2
  <2> QED BY <2>1, <2>3 DEF ReviewsAreKept
<1>5. CASE StoreStep
  BY <1>2, <1>5 DEF StoreStep, assessVars
<1>6. CASE Sync
  BY <1>2, <1>6 DEF Sync, StartSync, ReadRegistry, WriteNote, KillSync, Edit
<1>7. CASE (\E from, to \in Numbers : StartAssess(from, to)) \/ AssessArticle
           \/ AssessLockedOut \/ KillAssess
  BY <1>2, <1>7 DEF StartAssess, AssessArticle, AssessLockedOut, KillAssess
<1> QED BY <1>3, <1>4, <1>5, <1>6, <1>7 DEF Next, Assess

\* What people decide or write stays: no run of the pipeline or of
\* sync_article_notes takes it back, but for a kill in the middle of a note.
THEOREM PersonsWorkStays == Spec => PersonsWorkIsKept
<1>1. Inv /\ Inv' /\ [Next]_vars => [PersonsTextIsKept' /\ ReviewsAreKept]_vars
  <2> SUFFICES ASSUME Inv, Inv', [Next]_vars PROVE [PersonsTextIsKept' /\ ReviewsAreKept]_vars
    OBVIOUS
  <2>1. PersonsTextIsKept'
    BY DEF Inv, SyncInv
  <2> QED BY <2>1, KeptByRegister
<1> QED BY <1>1, Invariant, PTL DEF Spec, PersonsWorkIsKept
=============================================================================
