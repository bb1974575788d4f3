--------------------------- MODULE TotalsTheorems ---------------------------
(* What the proofs need to know about Total. *)
EXTENDS Totals, FiniteSetTheorems, TLAPS

\* The parts of one element are as many as its value.
LEMMA PartsOfOne ==
    ASSUME NEW x, NEW n \in Nat
    PROVE  IsFiniteSet({x} \X (1 .. n)) /\ Cardinality({x} \X (1 .. n)) = n
<1> DEFINE X == {x}
           I == 1 .. n
<1>1. IsFiniteSet(X) /\ Cardinality(X) = 1
  BY FS_Singleton
<1>2. IsFiniteSet(I) /\ Cardinality(I) = n
  BY FS_Interval
<1> HIDE DEF X, I
<1>3. IsFiniteSet(X \X I) /\ Cardinality(X \X I) = Cardinality(X) * Cardinality(I)
  BY <1>1, <1>2, FS_Product
<1>4. Cardinality(X \X I) = n
  BY <1>1, <1>2, <1>3
<1> QED
  BY <1>3, <1>4 DEF X, I

\* A finite set has finitely many parts.
LEMMA PartsFinite ==
    ASSUME NEW S, IsFiniteSet(S), NEW c, \A x \in S : c[x] \in Nat
    PROVE  IsFiniteSet(Parts(c, S))
<1> DEFINE f == [x \in S |-> {x} \X (1 .. c[x])]
           R == {{x} \X (1 .. c[x]) : x \in S}
<1>1. f \in Surjection(S, R)
  BY DEF Surjection
<1>2. IsFiniteSet(R)
  BY <1>1, FS_Surjection
<1>3. ASSUME NEW T \in R
      PROVE  IsFiniteSet(T)
  <2>1. PICK x \in S : T = {x} \X (1 .. c[x])
    OBVIOUS
  <2>2. IsFiniteSet({x} \X (1 .. c[x]))
    BY PartsOfOne, Zenon
  <2> QED
    BY <2>1, <2>2, Zenon
<1> QED
  BY <1>2, <1>3, FS_UNION DEF Parts

\* A total is a natural number.
LEMMA TotalType ==
    ASSUME NEW S, IsFiniteSet(S), NEW c, \A x \in S : c[x] \in Nat
    PROVE  Total(c, S) \in Nat
BY PartsFinite, FS_CardinalityType DEF Total

\* A new element adds its value.
LEMMA TotalAdd ==
    ASSUME NEW S, IsFiniteSet(S), NEW c, \A x \in S : c[x] \in Nat,
           NEW y, y \notin S, c[y] \in Nat
    PROVE  Total(c, S \cup {y}) = Total(c, S) + c[y]
<1> DEFINE P == Parts(c, S)
           Q == {y} \X (1 .. c[y])
<1>1. IsFiniteSet(P)
  BY PartsFinite
<1>2. IsFiniteSet(Q) /\ Cardinality(Q) = c[y]
  BY PartsOfOne
<1>3. Parts(c, S \cup {y}) = P \cup Q
  BY DEF Parts
<1>4. P \cap Q = {}
  BY DEF Parts
<1>5. Cardinality(P \cup Q) = Cardinality(P) + Cardinality(Q) - Cardinality({})
  <2>1. Cardinality(P \cup Q) = Cardinality(P) + Cardinality(Q) - Cardinality(P \cap Q)
    BY <1>1, <1>2, FS_Union
  <2> QED
    BY <2>1, <1>4
<1>6. Cardinality(P) \in Nat /\ Cardinality({}) = 0
  BY <1>1, FS_CardinalityType, FS_EmptySet
<1> QED
  <2>1. Total(c, S \cup {y}) = Cardinality(P \cup Q) /\ Total(c, S) = Cardinality(P)
    BY <1>3 DEF Total
  <2> HIDE DEF P, Q
  <2> QED
    BY <1>2, <1>5, <1>6, <2>1

\* An element leaves with its value.
LEMMA TotalRemove ==
    ASSUME NEW S, IsFiniteSet(S), NEW c, \A x \in S : c[x] \in Nat, NEW y \in S
    PROVE  Total(c, S) = Total(c, S \ {y}) + c[y]
<1>1. IsFiniteSet(S \ {y})
  BY FS_RemoveElement
<1>2. Total(c, (S \ {y}) \cup {y}) = Total(c, S \ {y}) + c[y]
  BY <1>1, TotalAdd
<1>3. (S \ {y}) \cup {y} = S
  OBVIOUS
<1> QED
  BY <1>2, <1>3

\* A larger set has no smaller total.
LEMMA TotalMonotone ==
    ASSUME NEW S, IsFiniteSet(S), NEW c, \A x \in S : c[x] \in Nat,
           NEW T \in SUBSET S
    PROVE  Total(c, T) <= Total(c, S)
<1>1. IsFiniteSet(Parts(c, S))
  BY PartsFinite
<1>2. Parts(c, T) \in SUBSET Parts(c, S)
  BY DEF Parts
<1> QED
  BY <1>1, <1>2, FS_Subset DEF Total

\* Only the values inside the set count.
LEMMA TotalSame ==
    ASSUME NEW S, NEW c, NEW d, \A x \in S : c[x] = d[x]
    PROVE  Total(c, S) = Total(d, S)
<1>1. Parts(c, S) = Parts(d, S)
  BY DEF Parts
<1> QED
  BY <1>1 DEF Total

\* Nothing, or only zeros, adds up to zero.
LEMMA TotalZero ==
    ASSUME NEW S, NEW c, \A x \in S : c[x] = 0
    PROVE  Total(c, S) = 0
<1>1. Parts(c, S) = {}
  BY DEF Parts
<1> QED
  BY <1>1, FS_EmptySet DEF Total
=============================================================================
