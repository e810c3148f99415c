---------------------------- MODULE SelectionProofs ----------------------------
(***************************************************************************)
(* What Keep and the operators of Players return, for sequences of every   *)
(* length, and the facts on induction and recursion the proofs rest on:    *)
(* the provers have no induction of their own, so each proof takes the     *)
(* least length for which the fact fails.                                  *)
(***************************************************************************)
EXTENDS Selection, Players, Integers, FiniteSets, FiniteSetTheorems, SequenceTheorems,
        WellFoundedInduction, TLAPS

(* A set of natural numbers that is not empty has a least element.         *)
LEMMA LeastNat ==
    ASSUME NEW T, T \subseteq Nat, T # {}
    PROVE  \E n \in T : \A m \in T : n <= m
<1> DEFINE R == {ss \in Nat \X Nat : ss[1] < ss[2]}
<1>1. IsWellFoundedOn(R, Nat)
  BY NatLessThanWellFounded DEF OpToRel
<1>2. PICK x \in T : \A y \in T : ~ (<<y, x>> \in R)
  <2> HIDE DEF R
  <2> QED BY <1>1, WFMin
<1>3. \A y \in T : ~ (y < x)
  BY <1>2
<1> QED BY <1>3

(* Induction, for a set of natural numbers.                                *)
LEMMA Induct ==
    ASSUME NEW P, 0 \in P, \A n \in Nat : n \in P => n + 1 \in P
    PROVE  Nat \subseteq P
<1> SUFFICES ASSUME Nat \ P # {} PROVE FALSE
  OBVIOUS
<1>1. PICK n \in Nat \ P : \A m \in Nat \ P : n <= m
  BY LeastNat
<1>2. n # 0
  OBVIOUS
<1>3. n - 1 \in Nat /\ n - 1 \in P
  BY <1>1, <1>2
<1>4. (n - 1) + 1 \in P
  BY <1>3
<1> QED BY <1>4

(* Recursion over the numbers up to n.                                     *)
Recurs(f, V, z, G, n) ==
    /\ f \in [0 .. n -> V] /\ f[0] = z
    /\ \A k \in 1 .. n : f[k] = G[<<k, f[k - 1]>>]

LEMMA RecursionExists ==
    ASSUME NEW V, NEW z \in V, NEW G \in [Nat \X V -> V], NEW n \in Nat
    PROVE  \E f : Recurs(f, V, z, G, n)
<1> DEFINE P == {m \in Nat : \E f : Recurs(f, V, z, G, m)}
<1>1. 0 \in P
  <2> DEFINE f == [k \in 0 .. 0 |-> z]
  <2>1. Recurs(f, V, z, G, 0)
    BY DEF Recurs
  <2> QED BY <2>1
<1>2. ASSUME NEW m \in Nat, m \in P PROVE m + 1 \in P
  <2>0. PICK f : Recurs(f, V, z, G, m)
    BY <1>2
  <2>1. f \in [0 .. m -> V] /\ f[0] = z /\ \A k \in 1 .. m : f[k] = G[<<k, f[k - 1]>>]
    BY <2>0 DEF Recurs
  <2> DEFINE g == [k \in 0 .. m + 1 |-> IF k = m + 1 THEN G[<<m + 1, f[m]>>] ELSE f[k]]
  <2>2. f[m] \in V /\ G[<<m + 1, f[m]>>] \in V
    BY <2>1
  <2>3. g \in [0 .. m + 1 -> V] /\ g[0] = z
    BY <2>1, <2>2
  <2>4. ASSUME NEW k \in 1 .. m + 1 PROVE g[k] = G[<<k, g[k - 1]>>]
    <3>1. CASE k = m + 1
      <4>1. k - 1 = m /\ g[m] = f[m] /\ g[m + 1] = G[<<m + 1, f[m]>>]
        BY <3>1
      <4> QED BY <3>1, <4>1
    <3>2. CASE k # m + 1
      <4>1. k \in 1 .. m /\ k - 1 \in 0 .. m
        BY <3>2
      <4>2. g[k] = f[k] /\ g[k - 1] = f[k - 1]
        BY <4>1
      <4> QED BY <2>1, <4>1, <4>2
    <3> QED BY <3>1, <3>2
  <2>5. Recurs(g, V, z, G, m + 1)
    <3> HIDE DEF g
    <3> QED BY <2>3, <2>4 DEF Recurs
  <2> QED BY <2>5
<1>3. Nat \subseteq P
  <2> HIDE DEF P
  <2> QED BY <1>1, <1>2, Induct
<1> QED BY <1>3

-----------------------------------------------------------------------------
(* The equation that the function inside Keep satisfies.                   *)
KeepsUpTo(f, n, s, S) ==
    f = [k \in 0 .. n |->
           IF k = 0 THEN <<>>
           ELSE IF s[k] \in S THEN Append(f[k - 1], s[k]) ELSE f[k - 1]]

LEMMA KeepExists ==
    ASSUME NEW s, NEW S, NEW n \in Nat
    PROVE  \E f : KeepsUpTo(f, n, s, S)
<1> DEFINE P == {m \in Nat : \E f : KeepsUpTo(f, m, s, S)}
<1>1. 0 \in P
  <2> DEFINE f == [k \in 0 .. 0 |-> <<>>]
  <2>1. KeepsUpTo(f, 0, s, S)
    BY DEF KeepsUpTo
  <2> QED BY <2>1
<1>2. ASSUME NEW m \in Nat, m \in P PROVE m + 1 \in P
  <2>1. PICK f : KeepsUpTo(f, m, s, S)
    BY <1>2
  <2> DEFINE last == IF s[m + 1] \in S THEN Append(f[m], s[m + 1]) ELSE f[m]
             g == [k \in 0 .. m + 1 |-> IF k = m + 1 THEN last ELSE f[k]]
  <2>2. \A k \in 0 .. m : f[k] = IF k = 0 THEN <<>>
                                 ELSE IF s[k] \in S THEN Append(f[k - 1], s[k]) ELSE f[k - 1]
    BY <2>1 DEF KeepsUpTo
  <2>3. \A k \in 0 .. m : g[k] = f[k]
    OBVIOUS
  <2>4. g[m + 1] = last
    OBVIOUS
  <2>5. ASSUME NEW k \in 0 .. m + 1
        PROVE  g[k] = IF k = 0 THEN <<>>
                      ELSE IF s[k] \in S THEN Append(g[k - 1], s[k]) ELSE g[k - 1]
    <3>1. CASE k = m + 1
      <4>1. k - 1 = m /\ g[k - 1] = f[m] /\ k # 0
        BY <2>3, <3>1
      <4> QED BY <2>4, <3>1, <4>1
    <3>2. CASE k # m + 1
      <4>1. k \in 0 .. m /\ (k # 0 => k - 1 \in 0 .. m)
        BY <3>2
      <4> HIDE DEF g
      <4> QED BY <2>2, <2>3, <4>1
    <3> QED BY <3>1, <3>2
  <2>6. KeepsUpTo(g, m + 1, s, S)
    BY <2>5 DEF KeepsUpTo
  <2> QED BY <2>6
<1>3. Nat \subseteq P
  <2> HIDE DEF P
  <2> QED BY <1>1, <1>2, Induct
<1> QED BY <1>3

LEMMA KeepEquation ==
    ASSUME NEW f, NEW n \in Nat, NEW s, NEW S, KeepsUpTo(f, n, s, S), NEW k \in 0 .. n
    PROVE  f[k] = IF k = 0 THEN <<>>
                  ELSE IF s[k] \in S THEN Append(f[k - 1], s[k]) ELSE f[k - 1]
<1> QED BY DEF KeepsUpTo

(* Two such functions agree where both are defined.                        *)
SameUpTo(m, s, t) == \A k \in 1 .. m : s[k] = t[k]

LEMMA KeepAgrees ==
    ASSUME NEW s, NEW t, NEW S, NEW f, NEW g, NEW m \in Nat, NEW n \in Nat, m <= n,
           KeepsUpTo(f, m, s, S), KeepsUpTo(g, n, t, S),
           SameUpTo(m, s, t)
    PROVE  f[m] = g[m]
<1> DEFINE P == {k \in Nat : k <= m => f[k] = g[k]}
<1>1. \A k \in 0 .. m : f[k] = IF k = 0 THEN <<>>
                               ELSE IF s[k] \in S THEN Append(f[k - 1], s[k]) ELSE f[k - 1]
  BY KeepEquation
<1>2. \A k \in 0 .. m : g[k] = IF k = 0 THEN <<>>
                               ELSE IF t[k] \in S THEN Append(g[k - 1], t[k]) ELSE g[k - 1]
  <2>1. \A k \in 0 .. m : k \in 0 .. n
    OBVIOUS
  <2> QED BY <2>1, KeepEquation
<1>3. 0 \in P
  BY <1>1, <1>2
<1>4. ASSUME NEW k \in Nat, k \in P PROVE k + 1 \in P
  <2> SUFFICES ASSUME k + 1 <= m PROVE f[k + 1] = g[k + 1]
    OBVIOUS
  <2>1. k + 1 \in 0 .. m /\ k + 1 # 0 /\ (k + 1) - 1 = k /\ k + 1 \in 1 .. m
    OBVIOUS
  <2>2. f[k] = g[k]
    BY <1>4
  <2>3. s[k + 1] = t[k + 1]
    BY <2>1 DEF SameUpTo
  <2> QED BY <1>1, <1>2, <2>1, <2>2, <2>3
<1>5. Nat \subseteq P
  <2> HIDE DEF P
  <2> QED BY <1>3, <1>4, Induct
<1> QED BY <1>5

LEMMA KeepValue ==
    ASSUME NEW s, NEW S, Len(s) \in Nat
    PROVE  \E f : KeepsUpTo(f, Len(s), s, S) /\ Keep(s, S) = f[Len(s)]
<1> DEFINE F == CHOOSE f : KeepsUpTo(f, Len(s), s, S)
<1>1. \E f : KeepsUpTo(f, Len(s), s, S)
  BY KeepExists
<1>2. KeepsUpTo(F, Len(s), s, S)
  BY <1>1
<1>3. Keep(s, S) = F[Len(s)]
  BY DEF Keep, KeepsUpTo
<1> QED BY <1>2, <1>3

(* Keep by its two equations.                                              *)
LEMMA KeepEmpty == ASSUME NEW S PROVE Keep(<<>>, S) = <<>>
<1>1. Len(<<>>) = 0
  OBVIOUS
<1>2. PICK f : KeepsUpTo(f, 0, <<>>, S) /\ Keep(<<>>, S) = f[0]
  BY <1>1, KeepValue
<1>3. f[0] = <<>>
  BY <1>2 DEF KeepsUpTo
<1> QED BY <1>2, <1>3

LEMMA KeepAppend ==
    ASSUME NEW U, NEW s \in Seq(U), NEW e \in U, NEW S
    PROVE  Keep(Append(s, e), S) = IF e \in S THEN Append(Keep(s, S), e) ELSE Keep(s, S)
<1> DEFINE t == Append(s, e)
           n == Len(s)
<1>1. n \in Nat /\ Len(t) = n + 1 /\ t[n + 1] = e /\ \A k \in 1 .. n : s[k] = t[k]
  OBVIOUS
<1>2. PICK f : KeepsUpTo(f, n, s, S) /\ Keep(s, S) = f[n]
  BY <1>1, KeepValue
<1> HIDE DEF t, n
<1>3. PICK g : KeepsUpTo(g, n + 1, t, S) /\ Keep(t, S) = g[n + 1]
  <2>1. Len(t) \in Nat
    BY <1>1
  <2> QED BY <1>1, <2>1, KeepValue
<1>4. f[n] = g[n]
  <2> DEFINE m == n + 1
  <2>1. n \in Nat /\ m \in Nat /\ n <= m
    BY <1>1
  <2>2. KeepsUpTo(f, n, s, S) /\ KeepsUpTo(g, m, t, S)
    BY <1>2, <1>3
  <2>3. SameUpTo(n, s, t)
    BY <1>1 DEF SameUpTo
  <2> HIDE DEF m
  <2> QED BY <2>1, <2>2, <2>3, KeepAgrees
<1>5. g[n + 1] = IF t[n + 1] \in S THEN Append(g[n], t[n + 1]) ELSE g[n]
  <2>1. n + 1 \in 0 .. n + 1 /\ n + 1 # 0 /\ (n + 1) - 1 = n
    BY <1>1
  <2> QED BY <1>3, <2>1 DEF KeepsUpTo
<1> QED BY <1>1, <1>2, <1>3, <1>4, <1>5 DEF t

(* Induction over the sequences of elements of U.                          *)
LEMMA InductSeq ==
    ASSUME NEW U, NEW P, <<>> \in P,
           \A s \in Seq(U) : \A e \in U : s \in P => Append(s, e) \in P
    PROVE  Seq(U) \subseteq P
<1> DEFINE Q == {n \in Nat : \A s \in Seq(U) : Len(s) = n => s \in P}
<1>1. 0 \in Q
  <2>1. \A s \in Seq(U) : Len(s) = 0 => s = <<>>
    OBVIOUS
  <2> QED BY <2>1
<1>2. ASSUME NEW n \in Nat, n \in Q PROVE n + 1 \in Q
  <2>1. SUFFICES ASSUME NEW s \in Seq(U), Len(s) = n + 1 PROVE s \in P
    OBVIOUS
  <2>2. s # <<>>
    BY <2>1
  <2>3. PICK t \in Seq(U) : \E e \in U : s = Append(t, e)
    BY <2>2, SequenceEmptyOrAppend
  <2>4. PICK e \in U : s = Append(t, e)
    BY <2>3
  <2>5. Len(t) = n
    BY <2>1, <2>4, AppendProperties
  <2>6. t \in P
    BY <1>2, <2>5
  <2> QED BY <2>4, <2>6
<1>3. Nat \subseteq Q
  <2> HIDE DEF Q
  <2> QED BY <1>1, <1>2, Induct
<1>4. \A s \in Seq(U) : Len(s) \in Nat
  OBVIOUS
<1> QED BY <1>3, <1>4

-----------------------------------------------------------------------------
(* What is kept comes from s and is in S.                                  *)
LEMMA KeepType ==
    ASSUME NEW U, NEW s \in Seq(U), NEW S
    PROVE  Keep(s, S) \in Seq(U \cap S)
<1> DEFINE P == {t \in Seq(U) : Keep(t, S) \in Seq(U \cap S)}
<1>1. <<>> \in P
  <2>1. <<>> \in Seq(U) /\ <<>> \in Seq(U \cap S)
    BY EmptySeq
  <2> QED BY <2>1, KeepEmpty
<1>2. ASSUME NEW t \in Seq(U), NEW e \in U, t \in P PROVE Append(t, e) \in P
  <2>1. Append(t, e) \in Seq(U)
    OBVIOUS
  <2>2. Keep(Append(t, e), S) = IF e \in S THEN Append(Keep(t, S), e) ELSE Keep(t, S)
    BY KeepAppend
  <2>3. Keep(t, S) \in Seq(U \cap S)
    BY <1>2
  <2>4. CASE e \in S
    <3>1. e \in U \cap S
      BY <2>4
    <3>2. Append(Keep(t, S), e) \in Seq(U \cap S)
      BY <2>3, <3>1, AppendProperties
    <3> QED BY <2>1, <2>2, <2>4, <3>2
  <2>5. CASE e \notin S
    BY <2>1, <2>2, <2>3, <2>5
  <2> QED BY <2>4, <2>5
<1>3. Seq(U) \subseteq P
  <2> HIDE DEF P
  <2> QED BY <1>1, <1>2, InductSeq
<1> QED BY <1>3

(* Only the elements of s matter in S.                                     *)
LEMMA KeepSame ==
    ASSUME NEW U, NEW s \in Seq(U), NEW S, NEW T, U \cap S = U \cap T
    PROVE  Keep(s, S) = Keep(s, T)
<1> DEFINE P == {t \in Seq(U) : Keep(t, S) = Keep(t, T)}
<1>1. <<>> \in P
  BY KeepEmpty
<1>2. ASSUME NEW t \in Seq(U), NEW e \in U, t \in P PROVE Append(t, e) \in P
  <2>1. Append(t, e) \in Seq(U)
    OBVIOUS
  <2>2. Keep(Append(t, e), S) = IF e \in S THEN Append(Keep(t, S), e) ELSE Keep(t, S)
    BY KeepAppend
  <2>3. Keep(Append(t, e), T) = IF e \in T THEN Append(Keep(t, T), e) ELSE Keep(t, T)
    BY KeepAppend
  <2>4. e \in S <=> e \in T
    OBVIOUS
  <2> QED BY <1>2, <2>1, <2>2, <2>3, <2>4
<1>3. Seq(U) \subseteq P
  <2> HIDE DEF P
  <2> QED BY <1>1, <1>2, InductSeq
<1> QED BY <1>3

(* Nothing is left out where everything is in S.                           *)
LEMMA KeepAll ==
    ASSUME NEW U, NEW s \in Seq(U), NEW S, U \subseteq S
    PROVE  Keep(s, S) = s
<1> DEFINE P == {t \in Seq(U) : Keep(t, S) = t}
<1>1. <<>> \in P
  BY KeepEmpty
<1>2. ASSUME NEW t \in Seq(U), NEW e \in U, t \in P
      PROVE  Append(t, e) \in P
  <2>1. Keep(Append(t, e), S) = Append(Keep(t, S), e)
    BY KeepAppend
  <2> QED BY <1>2, <2>1
<1>3. Seq(U) \subseteq P
  <2> HIDE DEF P
  <2> QED BY <1>1, <1>2, InductSeq
<1> QED BY <1>3

(* How many are kept.                                                      *)
Chosen(s, S) == {k \in 1 .. Len(s) : s[k] \in S}

LEMMA ChosenFinite ==
    ASSUME NEW U, NEW s \in Seq(U), NEW S
    PROVE  IsFiniteSet(Chosen(s, S)) /\ Cardinality(Chosen(s, S)) \in Nat
<1>1. IsFiniteSet(1 .. Len(s))
  <2>1. 1 \in Int /\ Len(s) \in Int
    OBVIOUS
  <2> QED BY <2>1, FS_Interval
<1>2. Chosen(s, S) \in SUBSET (1 .. Len(s))
  BY DEF Chosen
<1> QED BY <1>1, <1>2, FS_Subset, FS_CardinalityType

LEMMA KeepLen ==
    ASSUME NEW U, NEW s \in Seq(U), NEW S
    PROVE  Len(Keep(s, S)) = Cardinality(Chosen(s, S))
<1> DEFINE P == {t \in Seq(U) : Len(Keep(t, S)) = Cardinality(Chosen(t, S))}
<1>1. <<>> \in P
  <2>1. Chosen(<<>>, S) = {}
    BY DEF Chosen
  <2>2. <<>> \in Seq(U) /\ Len(<<>>) = 0
    OBVIOUS
  <2> QED BY <2>1, <2>2, KeepEmpty, FS_EmptySet
<1>2. ASSUME NEW t \in Seq(U), NEW e \in U, t \in P PROVE Append(t, e) \in P
  <2> DEFINE u == Append(t, e)
             n == Len(t)
  <2>1. u \in Seq(U) /\ n \in Nat /\ Len(u) = n + 1 /\ u[n + 1] = e
        /\ \A k \in 1 .. n : u[k] = t[k]
    OBVIOUS
  <2>2. Keep(u, S) = IF e \in S THEN Append(Keep(t, S), e) ELSE Keep(t, S)
    BY KeepAppend
  <2>3. Keep(t, S) \in Seq(U \cap S)
    BY KeepType
  <2> HIDE DEF u, n
  <2>4. CASE e \in S
    <3>1. Chosen(u, S) = Chosen(t, S) \cup {n + 1}
      BY <2>1, <2>4 DEF Chosen, n
    <3>2. n + 1 \notin Chosen(t, S)
      BY <2>1 DEF Chosen, n
    <3>3. Cardinality(Chosen(u, S)) = Cardinality(Chosen(t, S)) + 1
      BY <3>1, <3>2, ChosenFinite, FS_AddElement
    <3>4. Len(Keep(u, S)) = Len(Keep(t, S)) + 1
      <4>1. e \in U \cap S
        BY <2>4
      <4> QED BY <2>2, <2>3, <2>4, <4>1, AppendProperties
    <3>5. Len(Keep(t, S)) = Cardinality(Chosen(t, S))
      BY <1>2
    <3> QED BY <2>1, <3>3, <3>4, <3>5 DEF u
  <2>5. CASE e \notin S
    <3>1. Chosen(u, S) = Chosen(t, S)
      BY <2>1, <2>5 DEF Chosen, n
    <3> QED BY <1>2, <2>1, <2>2, <2>5, <3>1 DEF u
  <2> QED BY <2>4, <2>5 DEF u
<1>3. Seq(U) \subseteq P
  <2> HIDE DEF P
  <2> QED BY <1>1, <1>2, InductSeq
<1> QED BY <1>3

(* Keeping distributes over concatenation.                                 *)
LEMMA KeepConcat ==
    ASSUME NEW U, NEW s \in Seq(U), NEW t \in Seq(U), NEW S
    PROVE  Keep(s \o t, S) = Keep(s, S) \o Keep(t, S)
<1> DEFINE P == {u \in Seq(U) : Keep(s \o u, S) = Keep(s, S) \o Keep(u, S)}
<1>1. <<>> \in P
  <2>1. s \o <<>> = s /\ <<>> \in Seq(U)
    OBVIOUS
  <2>2. Keep(s, S) \o <<>> = Keep(s, S)
    BY KeepType, ConcatEmptySeq
  <2> QED BY <2>1, <2>2, KeepEmpty
<1>2. ASSUME NEW u \in Seq(U), NEW e \in U, u \in P PROVE Append(u, e) \in P
  <2>1. Append(u, e) \in Seq(U) /\ s \o u \in Seq(U)
    OBVIOUS
  <2>2. s \o Append(u, e) = Append(s \o u, e)
    OBVIOUS
  <2>3. Keep(Append(u, e), S) = IF e \in S THEN Append(Keep(u, S), e) ELSE Keep(u, S)
    BY KeepAppend
  <2>4. Keep(Append(s \o u, e), S)
          = IF e \in S THEN Append(Keep(s \o u, S), e) ELSE Keep(s \o u, S)
    BY <2>1, KeepAppend
  <2>5. Keep(s \o u, S) = Keep(s, S) \o Keep(u, S)
    BY <1>2
  <2> DEFINE a == Keep(s, S)
             b == Keep(u, S)
  <2>6. a \in Seq(U) /\ b \in Seq(U)
    <3>1. a \in Seq(U \cap S) /\ b \in Seq(U \cap S) /\ U \cap S \subseteq U
      BY KeepType
    <3> QED BY <3>1, SeqMonotonic
  <2> HIDE DEF a, b
  <2>7. a \o Append(b, e) = Append(a \o b, e)
    BY <2>6
  <2> QED BY <2>1, <2>2, <2>3, <2>4, <2>5, <2>7 DEF a, b
<1>3. Seq(U) \subseteq P
  <2> HIDE DEF P
  <2> QED BY <1>1, <1>2, InductSeq
<1> QED BY <1>3

-----------------------------------------------------------------------------
(* Counting by Keep: an element more at either end, and none at all.       *)
LEMMA KeepLenAppend ==
    ASSUME NEW U, NEW s \in Seq(U), NEW e \in U, NEW S
    PROVE  /\ Len(Keep(s, S)) \in Nat
           /\ Len(Keep(Append(s, e), S)) = Len(Keep(s, S)) + IF e \in S THEN 1 ELSE 0
<1>1. Keep(Append(s, e), S) = IF e \in S THEN Append(Keep(s, S), e) ELSE Keep(s, S)
  BY KeepAppend
<1>2. Keep(s, S) \in Seq(U \cap S)
  BY KeepType
<1>3. CASE e \in S
  <2>1. e \in U \cap S
    BY <1>3
  <2> QED BY <1>1, <1>2, <1>3, <2>1, AppendProperties
<1> QED BY <1>1, <1>2, <1>3

LEMMA KeepLenNone ==
    ASSUME NEW U, NEW s \in Seq(U), NEW S, U \cap S = {}
    PROVE  Len(Keep(s, S)) = 0
<1>1. Keep(s, S) \in Seq({})
  BY KeepType
<1> QED BY <1>1

LEMMA KeepLenHead ==
    ASSUME NEW U, NEW s \in Seq(U), s # <<>>, NEW S
    PROVE  /\ Len(Keep(Tail(s), S)) \in Nat
           /\ Len(Keep(s, S)) = Len(Keep(Tail(s), S)) + IF Head(s) \in S THEN 1 ELSE 0
<1> DEFINE Good(u) == /\ Len(Keep(Tail(u), S)) \in Nat
                      /\ Len(Keep(u, S)) = Len(Keep(Tail(u), S)) + IF Head(u) \in S THEN 1 ELSE 0
           P == {u \in Seq(U) : u # <<>> => Good(u)}
<1>0. <<>> \in Seq(U) /\ Len(<<>>) = 0
  BY EmptySeq
<1>1. <<>> \in P
  BY <1>0
<1>2. ASSUME NEW u \in Seq(U), NEW e \in U, u \in P PROVE Append(u, e) \in P
  <2>1. Append(u, e) \in Seq(U)
    OBVIOUS
  <2>2. /\ Len(Keep(u, S)) \in Nat
        /\ Len(Keep(Append(u, e), S)) = Len(Keep(u, S)) + IF e \in S THEN 1 ELSE 0
    BY KeepLenAppend
  <2>3. CASE u = <<>>
    <3>1. Head(Append(u, e)) = e /\ Tail(Append(u, e)) = u
      BY <2>3
    <3>2. Len(Keep(u, S)) = 0
      BY <1>0, <2>3, KeepEmpty
    <3>3. Good(Append(u, e))
      BY <2>2, <3>1, <3>2
    <3> QED BY <2>1, <3>3
  <2>4. CASE u # <<>>
    <3>1. Head(Append(u, e)) = Head(u) /\ Tail(Append(u, e)) = Append(Tail(u), e) /\ Tail(u) \in Seq(U)
      BY <2>4
    <3>2. Good(u)
      BY <1>2, <2>4
    <3>3. Len(Keep(Append(Tail(u), e), S)) = Len(Keep(Tail(u), S)) + IF e \in S THEN 1 ELSE 0
      BY <3>1, KeepLenAppend
    <3>4. Good(Append(u, e))
      <4> DEFINE a == Len(Keep(Tail(u), S))
                 b == Len(Keep(Append(Tail(u), e), S))
                 h == IF Head(u) \in S THEN 1 ELSE 0
                 l == IF e \in S THEN 1 ELSE 0
      <4>1. a \in Nat /\ h \in Nat /\ l \in Nat /\ b = a + l /\ Len(Keep(u, S)) = a + h
        BY <3>2, <3>3
      <4>2. Len(Keep(Append(u, e), S)) = Len(Keep(u, S)) + l
        BY <2>2
      <4> HIDE DEF a, b, h, l
      <4>3. b \in Nat /\ Len(Keep(Append(u, e), S)) = b + h
        BY <4>1, <4>2
      <4> QED BY <3>1, <4>3 DEF b, h
    <3> QED BY <2>1, <3>4
  <2> QED BY <2>3, <2>4
<1>3. Seq(U) \subseteq P
  <2> HIDE DEF P
  <2> QED BY <1>1, <1>2, InductSeq
<1> QED BY <1>3

-----------------------------------------------------------------------------
(***************************************************************************)
(* What the lookups and the removal of Players return, for arrays of every *)
(* length and whatever else a player's record holds.                       *)
(***************************************************************************)
(* The least element of a set of indices.                                  *)
LEMMA LeastIndex ==
    ASSUME NEW I, I \subseteq Nat, I # {}
    PROVE  Min(I) \in I /\ \A n \in I : Min(I) <= n
<1>1. \E n \in I : \A m \in I : n <= m
  BY LeastNat
<1> QED BY <1>1 DEF Min

(* PlayerIndex finds the first player with the id, or returns 0.           *)
LEMMA PlayerIndexValue ==
    ASSUME NEW U, NEW ps \in Seq(U), NEW id
    PROVE  /\ PlayerIndex(ps, id) \in 0 .. Len(ps)
           /\ PlayerIndex(ps, id) = 0 => \A k \in 1 .. Len(ps) : ps[k].id # id
           /\ PlayerIndex(ps, id) # 0 =>
                 /\ PlayerIndex(ps, id) \in 1 .. Len(ps)
                 /\ ps[PlayerIndex(ps, id)].id = id
                 /\ \A k \in 1 .. PlayerIndex(ps, id) - 1 : ps[k].id # id
<1> DEFINE I == {k \in 1 .. Len(ps) : ps[k].id = id}
<1>1. PlayerIndex(ps, id) = IF I # {} THEN Min(I) ELSE 0
  BY DEF PlayerIndex, SelectInSeq
<1>2. Len(ps) \in Nat /\ I \subseteq Nat /\ I \subseteq 1 .. Len(ps)
  OBVIOUS
<1>3. CASE I = {}
  <2>1. PlayerIndex(ps, id) = 0
    BY <1>1, <1>3
  <2>2. \A k \in 1 .. Len(ps) : ps[k].id # id
    BY <1>3
  <2> QED BY <1>2, <2>1, <2>2
<1>4. CASE I # {}
  <2> DEFINE m == Min(I)
  <2>1. m \in I /\ \A n \in I : m <= n
    <3> HIDE DEF I
    <3> QED BY <1>2, <1>4, LeastIndex
  <2>2. PlayerIndex(ps, id) = m
    BY <1>1, <1>4
  <2>3. m \in 1 .. Len(ps) /\ ps[m].id = id
    BY <2>1
  <2>4. ASSUME NEW k \in 1 .. m - 1 PROVE ps[k].id # id
    <3>1. k \in 1 .. Len(ps) /\ ~(m <= k)
      BY <1>2, <2>3
    <3> QED BY <2>1, <3>1
  <2> HIDE DEF m
  <2> QED BY <1>2, <2>2, <2>3, <2>4
<1> QED BY <1>3, <1>4

(* RemovePlayer takes out the player PlayerIndex finds; those behind it    *)
(* move up by one.                                                         *)
LEMMA RemovePlayerValue ==
    ASSUME NEW U, NEW ps \in Seq(U), NEW id
    PROVE  /\ RemovePlayer(ps, id) \in Seq(U)
           /\ PlayerIndex(ps, id) = 0 => RemovePlayer(ps, id) = ps
           /\ PlayerIndex(ps, id) # 0 =>
                 /\ Len(RemovePlayer(ps, id)) = Len(ps) - 1
                 /\ \A k \in 1 .. Len(ps) - 1 :
                       RemovePlayer(ps, id)[k]
                         = IF k < PlayerIndex(ps, id) THEN ps[k] ELSE ps[k + 1]
<1> DEFINE m == PlayerIndex(ps, id)
<1>1. RemovePlayer(ps, id)
        = IF \E k \in 1 .. Len(ps) : ps[k].id = id
          THEN SubSeq(ps, 1, m - 1) \o SubSeq(ps, m + 1, Len(ps)) ELSE ps
  BY DEF RemovePlayer, RemoveFirstMatch, RemoveAt, PlayerIndex
<1>2. /\ m \in 0 .. Len(ps)
      /\ m = 0 => \A k \in 1 .. Len(ps) : ps[k].id # id
      /\ m # 0 => m \in 1 .. Len(ps) /\ ps[m].id = id
  BY PlayerIndexValue
<1> HIDE DEF m
<1>3. CASE m = 0
  BY <1>1, <1>2, <1>3 DEF m
<1>4. CASE m # 0
  <2> DEFINE a == SubSeq(ps, 1, m - 1)
             b == SubSeq(ps, m + 1, Len(ps))
  <2>1. RemovePlayer(ps, id) = a \o b
    BY <1>1, <1>2, <1>4
  <2>2. m \in 1 .. Len(ps) /\ Len(ps) \in Nat
    BY <1>2, <1>4
  <2>3. a \in Seq(U) /\ Len(a) = m - 1 /\ \A k \in 1 .. m - 1 : a[k] = ps[k]
    BY <2>2
  <2>4. b \in Seq(U) /\ Len(b) = Len(ps) - m /\ \A k \in 1 .. Len(ps) - m : b[k] = ps[m + k]
    BY <2>2
  <2> HIDE DEF a, b
  <2>5. a \o b \in Seq(U) /\ Len(a \o b) = Len(ps) - 1
    <3>1. a \o b \in Seq(U) /\ Len(a \o b) = Len(a) + Len(b)
      BY <2>3, <2>4, ConcatProperties
    <3> QED BY <2>2, <2>3, <2>4, <3>1
  <2>6. ASSUME NEW k \in 1 .. Len(ps) - 1
        PROVE  (a \o b)[k] = IF k < m THEN ps[k] ELSE ps[k + 1]
    <3>1. (a \o b)[k] = IF k <= Len(a) THEN a[k] ELSE b[k - Len(a)]
      BY <2>2, <2>3, <2>4
    <3>2. CASE k < m
      BY <2>2, <2>3, <3>1, <3>2
    <3>3. CASE ~(k < m)
      <4>1. ~(k <= Len(a)) /\ k - Len(a) \in 1 .. Len(ps) - m /\ m + (k - Len(a)) = k + 1
        BY <2>2, <2>3, <3>3
      <4> QED BY <2>4, <3>1, <3>3, <4>1
    <3> QED BY <3>2, <3>3
  <2> QED BY <1>4, <2>1, <2>5, <2>6 DEF m
<1> QED BY <1>3, <1>4

-----------------------------------------------------------------------------
(* Removing several players: the result, and what every removal keeps.     *)
RemovesUpTo(f, n, ps, ids) ==
    f = [k \in 0 .. n |-> IF k = 0 THEN ps ELSE RemovePlayer(f[k - 1], ids[k])]

LEMMA RemovesExist ==
    ASSUME NEW ps, NEW ids, NEW n \in Nat
    PROVE  \E f : RemovesUpTo(f, n, ps, ids)
<1> DEFINE P == {m \in Nat : \E f : RemovesUpTo(f, m, ps, ids)}
<1>1. 0 \in P
  <2> DEFINE f == [k \in 0 .. 0 |-> ps]
  <2>1. RemovesUpTo(f, 0, ps, ids)
    BY DEF RemovesUpTo
  <2> QED BY <2>1
<1>2. ASSUME NEW m \in Nat, m \in P PROVE m + 1 \in P
  <2>1. PICK f : RemovesUpTo(f, m, ps, ids)
    BY <1>2
  <2> DEFINE last == RemovePlayer(f[m], ids[m + 1])
             g == [k \in 0 .. m + 1 |-> IF k <= m THEN f[k] ELSE last]
  <2>2. \A k \in 0 .. m : f[k] = IF k = 0 THEN ps ELSE RemovePlayer(f[k - 1], ids[k])
    BY <2>1 DEF RemovesUpTo
  <2> HIDE DEF last
  <2>3. ASSUME NEW k \in 0 .. m + 1
        PROVE  g[k] = IF k = 0 THEN ps ELSE RemovePlayer(g[k - 1], ids[k])
    <3>1. CASE k <= m
      <4>1. k \in 0 .. m /\ (k # 0 => k - 1 \in 0 .. m /\ k - 1 \in 0 .. m + 1)
        BY <3>1
      <4> QED BY <2>2, <3>1, <4>1
    <3>2. CASE k = m + 1
      <4>1. m \in 0 .. m + 1 /\ m <= m /\ ~(m + 1 <= m) /\ k - 1 = m /\ k # 0
        BY <3>2
      <4> QED BY <3>2, <4>1 DEF last
    <3> QED BY <3>1, <3>2
  <2>4. g = [k \in 0 .. m + 1 |-> IF k = 0 THEN ps ELSE RemovePlayer(g[k - 1], ids[k])]
    <3> DEFINE h == [k \in 0 .. m + 1 |-> IF k = 0 THEN ps ELSE RemovePlayer(g[k - 1], ids[k])]
    <3>1. \A k \in 0 .. m + 1 : g[k] = h[k]
      BY <2>3
    <3> HIDE DEF last
    <3> QED BY <3>1
  <2>5. RemovesUpTo(g, m + 1, ps, ids)
    BY <2>4 DEF RemovesUpTo
  <2> QED BY <2>5
<1> HIDE DEF P
<1>3. Nat \subseteq P
  BY <1>1, <1>2, Induct
<1> QED BY <1>3 DEF P

LEMMA RemovePlayersValue ==
    ASSUME NEW ps, NEW ids, Len(ids) \in Nat
    PROVE  \E f : RemovesUpTo(f, Len(ids), ps, ids) /\ RemovePlayers(ps, ids) = f[Len(ids)]
<1> DEFINE F == CHOOSE f : RemovesUpTo(f, Len(ids), ps, ids)
<1>1. \E f : RemovesUpTo(f, Len(ids), ps, ids)
  BY RemovesExist
<1>2. RemovesUpTo(F, Len(ids), ps, ids)
  BY <1>1
<1>3. RemovePlayers(ps, ids) = F[Len(ids)]
  BY DEF RemovePlayers, RemovesUpTo
<1> QED BY <1>2, <1>3

ClosedUnderRemoval(P, W) == \A ps \in P : \A id \in W : RemovePlayer(ps, id) \in P

LEMMA RemovePlayersKeeps ==
    ASSUME NEW W, NEW ids \in Seq(W), NEW P, NEW ps \in P, ClosedUnderRemoval(P, W)
    PROVE  RemovePlayers(ps, ids) \in P
<1> DEFINE n == Len(ids)
<1>1. n \in Nat /\ \A k \in 1 .. n : ids[k] \in W
  OBVIOUS
<1>2. PICK f : RemovesUpTo(f, n, ps, ids) /\ RemovePlayers(ps, ids) = f[n]
  BY <1>1, RemovePlayersValue
<1> HIDE DEF n
<1>3. \A k \in 0 .. n : f[k] = IF k = 0 THEN ps ELSE RemovePlayer(f[k - 1], ids[k])
  BY <1>2 DEF RemovesUpTo
<1> DEFINE Q == {k \in Nat : k <= n => f[k] \in P}
<1>4. 0 \in Q
  BY <1>1, <1>3
<1>5. ASSUME NEW k \in Nat, k \in Q PROVE k + 1 \in Q
  <2> SUFFICES ASSUME k + 1 <= n PROVE f[k + 1] \in P
    OBVIOUS
  <2>1. k + 1 \in 0 .. n /\ k + 1 # 0 /\ (k + 1) - 1 = k /\ k <= n /\ k + 1 \in 1 .. n
    BY <1>1
  <2>2. f[k + 1] = RemovePlayer(f[k], ids[k + 1])
    BY <1>3, <2>1
  <2> QED BY <1>1, <1>5, <2>1, <2>2 DEF ClosedUnderRemoval
<1> HIDE DEF Q
<1>6. n \in Q
  BY <1>1, <1>4, <1>5, Induct
<1>7. f[n] \in P
  BY <1>1, <1>6 DEF Q
<1> QED BY <1>2, <1>7

-----------------------------------------------------------------------------
(* Pausing, resuming and joining change one player or add one.             *)
Records(I, C) == [id : I, conn : C, paused : BOOLEAN, pending : BOOLEAN]

(* ResumePlayer's lookup, which passes over those that await a RESUME.     *)
ReadyIndex(ps, id) == SelectInSeq(ps, LAMBDA p : p.id = id /\ ~p.pending)

LEMMA ReadyIndexValue ==
    ASSUME NEW U, NEW ps \in Seq(U), NEW id
    PROVE  /\ ReadyIndex(ps, id) = 0 => \A k \in 1 .. Len(ps) : ~(ps[k].id = id /\ ~ps[k].pending)
           /\ ReadyIndex(ps, id) # 0 =>
                 /\ ReadyIndex(ps, id) \in 1 .. Len(ps)
                 /\ ps[ReadyIndex(ps, id)].id = id /\ ~ps[ReadyIndex(ps, id)].pending
                 /\ \A k \in 1 .. ReadyIndex(ps, id) - 1 : ~(ps[k].id = id /\ ~ps[k].pending)
<1> DEFINE I == {k \in 1 .. Len(ps) : ps[k].id = id /\ ~ps[k].pending}
<1>1. ReadyIndex(ps, id) = IF I # {} THEN Min(I) ELSE 0
  BY DEF ReadyIndex, SelectInSeq
<1>2. Len(ps) \in Nat /\ I \subseteq Nat /\ I \subseteq 1 .. Len(ps)
  OBVIOUS
<1>3. CASE I = {}
  BY <1>1, <1>3
<1>4. CASE I # {}
  <2> DEFINE m == Min(I)
  <2>1. m \in I /\ \A n \in I : m <= n
    <3> HIDE DEF I
    <3> QED BY <1>2, <1>4, LeastIndex
  <2>2. ReadyIndex(ps, id) = m
    BY <1>1, <1>4
  <2>3. m \in 1 .. Len(ps) /\ ps[m].id = id /\ ~ps[m].pending
    BY <2>1
  <2>4. ASSUME NEW k \in 1 .. m - 1 PROVE ~(ps[k].id = id /\ ~ps[k].pending)
    <3>1. k \in 1 .. Len(ps) /\ ~(m <= k)
      BY <1>2, <2>3
    <3> QED BY <2>1, <3>1
  <2> HIDE DEF m
  <2> QED BY <1>2, <2>2, <2>3, <2>4
<1> QED BY <1>3, <1>4

(* Every other player keeps its record; all keep their ids.                *)
Others(ps, r, i) ==
    /\ Len(r) = Len(ps)
    /\ \A k \in 1 .. Len(ps) : /\ r[k].id = ps[k].id /\ r[k].conn = ps[k].conn
                               /\ k # i => r[k] = ps[k]

LEMMA PauseValue ==
    ASSUME NEW I, NEW C, NEW ps \in Seq(Records(I, C)), NEW id
    PROVE  /\ PausePlayer(ps, id) \in Seq(Records(I, C))
           /\ Others(ps, PausePlayer(ps, id), PlayerIndex(ps, id))
           /\ PlayerIndex(ps, id) # 0 =>
                 /\ PausePlayer(ps, id)[PlayerIndex(ps, id)].paused
                 /\ PausePlayer(ps, id)[PlayerIndex(ps, id)].pending
<1> DEFINE i == PlayerIndex(ps, id)
<1>1. i \in 0 .. Len(ps)
  BY PlayerIndexValue
<1>2. PausePlayer(ps, id) = IF i = 0 THEN ps
                            ELSE [ps EXCEPT ![i].paused = TRUE, ![i].pending = TRUE]
  BY DEF PausePlayer
<1> HIDE DEF i
<1>3. CASE i = 0
  BY <1>2, <1>3 DEF Others, i
<1>4. CASE i # 0
  <2> DEFINE p == ps[i]
             q == [p EXCEPT !.paused = TRUE, !.pending = TRUE]
  <2>1. i \in 1 .. Len(ps) /\ p \in Records(I, C)
    BY <1>1, <1>4
  <2>2. q \in Records(I, C) /\ q.id = p.id /\ q.conn = p.conn /\ q.paused /\ q.pending
    BY <2>1 DEF Records
  <2> DEFINE r == PausePlayer(ps, id)
  <2>3. r = [ps EXCEPT ![i] = q]
    BY <1>2, <1>4, <2>1
  <2> HIDE DEF q, r
  <2>4. /\ r \in Seq(Records(I, C)) /\ Len(r) = Len(ps)
        /\ \A k \in 1 .. Len(ps) : r[k] = IF k = i THEN q ELSE ps[k]
    BY <2>1, <2>2, <2>3, ExceptSeq
  <2>5. Others(ps, r, i) /\ r[i] = q
    BY <2>1, <2>2, <2>4 DEF Others
  <2> QED BY <2>2, <2>4, <2>5 DEF i, r
<1> QED BY <1>3, <1>4

LEMMA ScheduleValue ==
    ASSUME NEW I, NEW C, NEW ps \in Seq(Records(I, C)), NEW id
    PROVE  /\ ScheduleResume(ps, id) \in Seq(Records(I, C))
           /\ Others(ps, ScheduleResume(ps, id), PlayerIndex(ps, id))
           /\ PlayerIndex(ps, id) # 0 =>
                 /\ ScheduleResume(ps, id)[PlayerIndex(ps, id)].paused
                      = ps[PlayerIndex(ps, id)].paused
                 /\ ~ScheduleResume(ps, id)[PlayerIndex(ps, id)].pending
<1> DEFINE i == PlayerIndex(ps, id)
<1>1. i \in 0 .. Len(ps)
  BY PlayerIndexValue
<1>2. ScheduleResume(ps, id) = IF i = 0 THEN ps ELSE [ps EXCEPT ![i].pending = FALSE]
  BY DEF ScheduleResume
<1> HIDE DEF i
<1>3. CASE i = 0
  BY <1>2, <1>3 DEF Others, i
<1>4. CASE i # 0
  <2> DEFINE p == ps[i]
             q == [p EXCEPT !.pending = FALSE]
  <2>1. i \in 1 .. Len(ps) /\ p \in Records(I, C)
    BY <1>1, <1>4
  <2>2. q \in Records(I, C) /\ q.id = p.id /\ q.conn = p.conn /\ q.paused = p.paused /\ ~q.pending
    BY <2>1 DEF Records
  <2> DEFINE r == ScheduleResume(ps, id)
  <2>3. r = [ps EXCEPT ![i] = q]
    BY <1>2, <1>4, <2>1
  <2> HIDE DEF q, r
  <2>4. /\ r \in Seq(Records(I, C)) /\ Len(r) = Len(ps)
        /\ \A k \in 1 .. Len(ps) : r[k] = IF k = i THEN q ELSE ps[k]
    BY <2>1, <2>2, <2>3, ExceptSeq
  <2>5. Others(ps, r, i) /\ r[i] = q
    BY <2>1, <2>2, <2>4 DEF Others
  <2> QED BY <2>2, <2>4, <2>5 DEF i, r
<1> QED BY <1>3, <1>4

LEMMA ResumeValue ==
    ASSUME NEW I, NEW C, NEW ps \in Seq(Records(I, C)), NEW id
    PROVE  /\ ResumePlayer(ps, id) \in Seq(Records(I, C))
           /\ Others(ps, ResumePlayer(ps, id), ReadyIndex(ps, id))
           /\ ReadyIndex(ps, id) # 0 =>
                 /\ ~ResumePlayer(ps, id)[ReadyIndex(ps, id)].paused
                 /\ ~ResumePlayer(ps, id)[ReadyIndex(ps, id)].pending
<1> DEFINE i == ReadyIndex(ps, id)
<1>1. i # 0 => i \in 1 .. Len(ps) /\ ~ps[i].pending
  BY ReadyIndexValue
<1>2. ResumePlayer(ps, id) = IF i = 0 THEN ps ELSE [ps EXCEPT ![i].paused = FALSE]
  BY DEF ResumePlayer, ReadyIndex
<1> HIDE DEF i
<1>3. CASE i = 0
  BY <1>2, <1>3 DEF Others, i
<1>4. CASE i # 0
  <2> DEFINE p == ps[i]
             q == [p EXCEPT !.paused = FALSE]
  <2>1. i \in 1 .. Len(ps) /\ p \in Records(I, C)
    BY <1>1, <1>4
  <2>2. q \in Records(I, C) /\ q.id = p.id /\ q.conn = p.conn /\ ~q.paused /\ ~q.pending
    BY <1>1, <1>4, <2>1 DEF Records
  <2> DEFINE r == ResumePlayer(ps, id)
  <2>3. r = [ps EXCEPT ![i] = q]
    BY <1>2, <1>4, <2>1
  <2> HIDE DEF q, r
  <2>4. /\ r \in Seq(Records(I, C)) /\ Len(r) = Len(ps)
        /\ \A k \in 1 .. Len(ps) : r[k] = IF k = i THEN q ELSE ps[k]
    BY <2>1, <2>2, <2>3, ExceptSeq
  <2>5. Others(ps, r, i) /\ r[i] = q
    BY <2>1, <2>2, <2>4 DEF Others
  <2> QED BY <2>2, <2>4, <2>5 DEF i, r
<1> QED BY <1>3, <1>4
=============================================================================
