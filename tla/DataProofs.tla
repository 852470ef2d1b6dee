------------------------------- MODULE DataProofs -------------------------------
(***************************************************************************)
(* Facts about the operators of the community modules that the models are  *)
(* built from: sums over a function, which the ledgers are, and sequences  *)
(* that list a set in an order.  There is no induction here: where a claim *)
(* fails for some size, it holds for every size below the least such size  *)
(* (LeastNatural), and one step contradicts it.                            *)
(***************************************************************************)
EXTENDS Naturals, FiniteSets, Sequences, SequencesExt, FiniteSetTheorems, WellFoundedInduction, TLAPS

(* Every set of naturals that is not empty has a least element.            *)
LEMMA LeastNatural ==
  ASSUME NEW U \in SUBSET Nat, U # {} PROVE \E n \in U : \A m \in U : n <= m
<1> DEFINE R == OpToRel(<, Nat)
<1>1. IsWellFoundedOn(R, Nat)
  BY NatLessThanWellFounded
<1>2. \A x, y \in Nat : x < y => <<x, y>> \in R
  BY DEF OpToRel
<1> HIDE DEF R
<1>3. PICK n \in U : \A m \in U : ~ (<<m, n>> \in R)
  BY <1>1, WFMin
<1>4. n \in Nat /\ \A m \in U : m \in Nat /\ ~ (m < n)
  BY <1>2, <1>3
<1>5. \A m \in U : n <= m
  BY <1>4
<1> QED BY <1>3, <1>5

(* What one step of the sum takes from the sums over smaller sets.         *)
Part(w, g, s) == IF s = {} THEN 0
                 ELSE LET x == CHOOSE x \in s : TRUE IN w[x] + g[s \ {x}]
UpTo(S, n) == {s \in SUBSET S : Cardinality(s) <= n}
Summed(w, D, g) == g = [s \in D |-> Part(w, g, s)]

LEMMA SumIs ==
  ASSUME NEW w, NEW S
  PROVE SumFunctionOnSet(w, S) = (CHOOSE g : Summed(w, SUBSET S, g))[S]
BY DEF SumFunctionOnSet, FoldFunctionOnSet, MapThenFoldSet, Summed, Part

(* Taking an element out of a finite set.                                  *)
LEMMA OneLess ==
  ASSUME NEW s, IsFiniteSet(s), NEW x \in s
  PROVE /\ IsFiniteSet(s \ {x}) /\ Cardinality(s) \in Nat /\ Cardinality(s \ {x}) \in Nat
        /\ Cardinality(s \ {x}) + 1 = Cardinality(s)
<1>1. IsFiniteSet(s \ {x}) /\ Cardinality(s \ {x}) = Cardinality(s) - 1
  BY FS_RemoveElement
<1>2. Cardinality(s) \in Nat /\ Cardinality(s \ {x}) \in Nat
  BY <1>1, FS_CardinalityType
<1> QED BY <1>1, <1>2

LEMMA Chosen == ASSUME NEW s, s # {} PROVE (CHOOSE x \in s : TRUE) \in s
OBVIOUS

(* The recursion of the sum has a solution over the small sets, ...        *)
LEMMA SummedSmall ==
  ASSUME NEW w, NEW S, IsFiniteSet(S), NEW n \in Nat
  PROVE \E g : Summed(w, UpTo(S, n), g)
<1> DEFINE Bad == {m \in Nat : ~ \E g : Summed(w, UpTo(S, m), g)}
<1> SUFFICES ASSUME Bad # {} PROVE FALSE
  OBVIOUS
<1>1. PICK m \in Bad : \A k \in Bad : m <= k
  BY LeastNatural
<1>2. m \in Nat /\ ~ \E g : Summed(w, UpTo(S, m), g)
  BY <1>1
<1>3. \A s \in SUBSET S : IsFiniteSet(s) /\ Cardinality(s) \in Nat
  BY FS_Subset, FS_CardinalityType
<1>4. CASE m = 0
  <2> DEFINE g == [s \in UpTo(S, 0) |-> 0]
  <2>1. \A s \in UpTo(S, 0) : s = {}
    BY <1>3, FS_EmptySet DEF UpTo
  <2>2. \A s \in UpTo(S, 0) : Part(w, g, s) = 0
    BY <2>1 DEF Part
  <2>3. Summed(w, UpTo(S, 0), g)
    BY <2>2 DEF Summed
  <2> QED BY <1>2, <1>4, <2>3
<1>5. CASE m # 0
  <2>1. m - 1 \in Nat /\ m - 1 \notin Bad
    <3>1. m - 1 \in Nat /\ ~ (m <= m - 1)
      BY <1>2, <1>5
    <3> QED BY <1>1, <3>1
  <2>2. PICK h : Summed(w, UpTo(S, m - 1), h)
    BY <2>1
  <2> DEFINE g == [s \in UpTo(S, m) |-> Part(w, h, s)]
  <2>3. \A s \in UpTo(S, m - 1) : s \in UpTo(S, m) /\ g[s] = h[s]
    <3> TAKE s \in UpTo(S, m - 1)
    <3>1. s \in UpTo(S, m)
      BY <1>2, <1>3, <2>1 DEF UpTo
    <3>2. h[s] = Part(w, h, s)
      BY <2>2 DEF Summed
    <3> QED BY <3>1, <3>2
  <2> HIDE DEF g
  <2>4. \A s \in UpTo(S, m) : Part(w, g, s) = Part(w, h, s)
    <3> TAKE s \in UpTo(S, m)
    <3>1. CASE s = {}
      BY <3>1 DEF Part
    <3>2. CASE s # {}
      <4> DEFINE x == CHOOSE x \in s : TRUE
      <4>1. x \in s
        BY <3>2, Chosen
      <4> HIDE DEF x
      <4>2. IsFiniteSet(s) /\ s \in SUBSET S /\ Cardinality(s) <= m
        BY <1>3 DEF UpTo
      <4>3. /\ Cardinality(s) \in Nat /\ Cardinality(s \ {x}) \in Nat
            /\ Cardinality(s \ {x}) + 1 = Cardinality(s)
        BY <4>1, <4>2, OneLess
      <4>4. s \ {x} \in SUBSET S /\ Cardinality(s \ {x}) <= m - 1
        BY <1>2, <4>2, <4>3
      <4>5. s \ {x} \in UpTo(S, m - 1)
        BY <4>4 DEF UpTo
      <4>6. g[s \ {x}] = h[s \ {x}]
        BY <2>3, <4>5
      <4> QED BY <3>2, <4>6 DEF Part, x
    <3> QED BY <3>1, <3>2
  <2>5. g = [s \in UpTo(S, m) |-> Part(w, g, s)]
    BY <2>4 DEF g
  <2>6. Summed(w, UpTo(S, m), g)
    BY <2>5 DEF Summed
  <2> QED BY <1>2, <2>6
<1> QED BY <1>4, <1>5

LEMMA SummedAll ==
  ASSUME NEW w, NEW S, IsFiniteSet(S)
  PROVE Summed(w, SUBSET S, CHOOSE g : Summed(w, SUBSET S, g))
<1>1. Cardinality(S) \in Nat
  BY FS_CardinalityType
<1>2. \A s \in SUBSET S : Cardinality(s) <= Cardinality(S)
  BY FS_Subset
<1>3. UpTo(S, Cardinality(S)) = SUBSET S
  BY <1>2 DEF UpTo
<1>4. \E g : Summed(w, UpTo(S, Cardinality(S)), g)
  BY <1>1, SummedSmall
<1>5. \E g : Summed(w, SUBSET S, g)
  BY <1>3, <1>4
<1> QED BY <1>5

(* ... and only one.                                                       *)
LEMMA SummedAgree ==
  ASSUME NEW w, NEW v, NEW S, NEW R, NEW g, NEW h,
         Summed(w, SUBSET S, g), Summed(v, SUBSET R, h),
         NEW a, a \subseteq S, a \subseteq R, IsFiniteSet(a), \A x \in a : w[x] = v[x]
  PROVE g[a] = h[a]
<1> DEFINE Differ(k) == \E s \in SUBSET a : Cardinality(s) = k /\ g[s] # h[s]
           Bad == {k \in Nat : Differ(k)}
<1>1. \A s \in SUBSET a : IsFiniteSet(s) /\ Cardinality(s) \in Nat
  BY FS_Subset, FS_CardinalityType
<1> SUFFICES ASSUME Bad # {} PROVE FALSE
  BY <1>1
<1>2. PICK m \in Bad : \A k \in Bad : m <= k
  BY LeastNatural
<1>3. m \in Nat /\ Differ(m)
  BY <1>2
<1>4. PICK s \in SUBSET a : Cardinality(s) = m /\ g[s] # h[s]
  BY <1>3
<1>5. g[s] = Part(w, g, s) /\ h[s] = Part(v, h, s)
  BY DEF Summed
<1>6. CASE s = {}
  BY <1>4, <1>5, <1>6 DEF Part
<1>7. CASE s # {}
  <2> DEFINE x == CHOOSE x \in s : TRUE
  <2>1. x \in s
    BY <1>7, Chosen
  <2> HIDE DEF x
  <2>2. Cardinality(s \ {x}) \in Nat /\ Cardinality(s \ {x}) + 1 = m
    BY <1>1, <1>4, <2>1, OneLess
  <2>3. Cardinality(s \ {x}) \notin Bad
    <3>1. ~ (m <= Cardinality(s \ {x}))
      BY <1>3, <2>2
    <3> QED BY <1>2, <3>1
  <2>4. ~ Differ(Cardinality(s \ {x}))
    BY <2>2, <2>3
  <2>5. g[s \ {x}] = h[s \ {x}]
    BY <2>4
  <2>6. w[x] = v[x]
    BY <2>1
  <2> QED BY <1>4, <1>5, <1>7, <2>5, <2>6 DEF Part, x
<1> QED BY <1>6, <1>7

-----------------------------------------------------------------------------
LEMMA SumEmpty == ASSUME NEW w PROVE SumFunctionOnSet(w, {}) = 0
<1>1. Summed(w, SUBSET {}, CHOOSE g : Summed(w, SUBSET {}, g))
  BY FS_EmptySet, SummedAll
<1> QED BY <1>1, SumIs DEF Summed, Part

LEMMA SumAgree ==
  ASSUME NEW w, NEW v, NEW S, IsFiniteSet(S), \A x \in S : w[x] = v[x]
  PROVE SumFunctionOnSet(w, S) = SumFunctionOnSet(v, S)
<1> DEFINE g == CHOOSE g : Summed(w, SUBSET S, g)
           h == CHOOSE h : Summed(v, SUBSET S, h)
<1>1. Summed(w, SUBSET S, g) /\ Summed(v, SUBSET S, h)
  BY SummedAll
<1>2. SumFunctionOnSet(w, S) = g[S] /\ SumFunctionOnSet(v, S) = h[S]
  BY SumIs
<1> HIDE DEF g, h
<1> QED BY <1>1, <1>2, SummedAgree

LEMMA SumFirst ==
  ASSUME NEW w, NEW S, IsFiniteSet(S), S # {}
  PROVE LET x == CHOOSE x \in S : TRUE
        IN  SumFunctionOnSet(w, S) = w[x] + SumFunctionOnSet(w, S \ {x})
<1> DEFINE x == CHOOSE x \in S : TRUE
           less == S \ {x}
           g == CHOOSE g : Summed(w, SUBSET S, g)
           h == CHOOSE h : Summed(w, SUBSET less, h)
<1>1. x \in S
  BY Chosen
<1>2. IsFiniteSet(less)
  BY <1>1, OneLess
<1>3. SumFunctionOnSet(w, S) = g[S] /\ SumFunctionOnSet(w, less) = h[less]
  BY SumIs
<1>4. Summed(w, SUBSET S, g) /\ Summed(w, SUBSET less, h)
  BY <1>2, SummedAll
<1>5. less \subseteq S
  OBVIOUS
<1> HIDE DEF g, h
<1>6. g[less] = h[less]
  <2> HIDE DEF less
  <2> QED BY <1>2, <1>4, <1>5, SummedAgree
<1>7. g[S] = Part(w, g, S)
  BY <1>4 DEF Summed
<1> QED BY <1>3, <1>6, <1>7 DEF Part

Valued(w, S) == \A x \in S : w[x] \in Nat

(* Sums of naturals are naturals, ...                                      *)
LEMMA SumNat ==
  ASSUME NEW w, NEW S, IsFiniteSet(S), Valued(w, S)
  PROVE SumFunctionOnSet(w, S) \in Nat
<1> DEFINE Wrong(k) == \E s \in SUBSET S : Cardinality(s) = k /\ SumFunctionOnSet(w, s) \notin Nat
           Bad == {k \in Nat : Wrong(k)}
<1>1. \A s \in SUBSET S : IsFiniteSet(s) /\ Cardinality(s) \in Nat
  BY FS_Subset, FS_CardinalityType
<1> SUFFICES ASSUME Bad # {} PROVE FALSE
  BY <1>1
<1>2. PICK m \in Bad : \A k \in Bad : m <= k
  BY LeastNatural
<1>3. m \in Nat /\ Wrong(m)
  BY <1>2
<1>4. PICK s \in SUBSET S : Cardinality(s) = m /\ SumFunctionOnSet(w, s) \notin Nat
  BY <1>3
<1>5. s # {}
  BY <1>4, SumEmpty
<1> DEFINE x == CHOOSE x \in s : TRUE
<1>6. x \in s
  BY <1>5, Chosen
<1>7. SumFunctionOnSet(w, s) = w[x] + SumFunctionOnSet(w, s \ {x})
  BY <1>1, <1>5, SumFirst
<1> HIDE DEF x
<1>8. Cardinality(s \ {x}) \in Nat /\ Cardinality(s \ {x}) + 1 = m
  BY <1>1, <1>4, <1>6, OneLess
<1>9. Cardinality(s \ {x}) \notin Bad
  <2>1. ~ (m <= Cardinality(s \ {x}))
    BY <1>3, <1>8
  <2> QED BY <1>2, <2>1
<1>10. SumFunctionOnSet(w, s \ {x}) \in Nat
  BY <1>8, <1>9
<1>11. w[x] \in Nat
  BY <1>6 DEF Valued
<1> QED BY <1>4, <1>7, <1>10, <1>11

(* ... in whatever order the elements are taken, ...                       *)
LEMMA SumRemove ==
  ASSUME NEW w, NEW S, IsFiniteSet(S), Valued(w, S), NEW y \in S
  PROVE SumFunctionOnSet(w, S) = w[y] + SumFunctionOnSet(w, S \ {y})
<1> DEFINE Right(s, z) == SumFunctionOnSet(w, s) = w[z] + SumFunctionOnSet(w, s \ {z})
           Wrong(k) == \E s \in SUBSET S : Cardinality(s) = k /\ \E z \in s : ~ Right(s, z)
           Bad == {k \in Nat : Wrong(k)}
<1>1. \A s \in SUBSET S : IsFiniteSet(s) /\ Cardinality(s) \in Nat /\ Valued(w, s)
  BY FS_Subset, FS_CardinalityType DEF Valued
<1> SUFFICES ASSUME Bad # {} PROVE FALSE
  BY <1>1
<1>2. PICK m \in Bad : \A k \in Bad : m <= k
  BY LeastNatural
<1>3. m \in Nat /\ Wrong(m)
  BY <1>2
<1>4. PICK s \in SUBSET S : Cardinality(s) = m /\ \E z \in s : ~ Right(s, z)
  BY <1>3
<1>5. PICK z \in s : ~ Right(s, z)
  BY <1>4
<1> DEFINE x == CHOOSE x \in s : TRUE
<1>6. x \in s
  BY <1>5, Chosen
<1>7. Right(s, x)
  BY <1>1, <1>5, SumFirst
<1> HIDE DEF x
<1>8. x # z
  BY <1>5, <1>7
<1>9. \A k \in {x, z} : Cardinality(s \ {k}) \in Nat /\ Cardinality(s \ {k}) + 1 = m
  BY <1>1, <1>4, <1>5, <1>6, OneLess
<1>10. \A k \in {x, z} : Cardinality(s \ {k}) \notin Bad
  <2>1. \A k \in {x, z} : ~ (m <= Cardinality(s \ {k}))
    <3> TAKE k \in {x, z}
    <3> DEFINE c == Cardinality(s \ {k})
    <3>1. c \in Nat /\ c + 1 = m
      BY <1>9
    <3> HIDE DEF c
    <3>2. ~ (m <= c)
      BY <1>3, <3>1
    <3> QED BY <3>2 DEF c
  <2> QED BY <1>2, <2>1
<1>11. \A k \in {x, z} : ~ Wrong(Cardinality(s \ {k}))
  BY <1>9, <1>10
<1>12. Right(s \ {x}, z) /\ Right(s \ {z}, x)
  BY <1>5, <1>6, <1>8, <1>11
<1>13. (s \ {x}) \ {z} = (s \ {z}) \ {x}
  OBVIOUS
<1>14. SumFunctionOnSet(w, (s \ {x}) \ {z}) \in Nat
  <2>1. (s \ {x}) \ {z} \in SUBSET S
    OBVIOUS
  <2> QED BY <1>1, <2>1, SumNat
<1>15. w[x] \in Nat /\ w[z] \in Nat
  BY <1>5, <1>6 DEF Valued
<1>16. Right(s, z)
  BY <1>7, <1>12, <1>13, <1>14, <1>15
<1> QED BY <1>5, <1>16

LEMMA SumAdd ==
  ASSUME NEW w, NEW S, IsFiniteSet(S), Valued(w, S), NEW y, y \notin S, w[y] \in Nat
  PROVE SumFunctionOnSet(w, S \cup {y}) = w[y] + SumFunctionOnSet(w, S)
<1>1. IsFiniteSet(S \cup {y}) /\ Valued(w, S \cup {y})
  BY FS_AddElement DEF Valued
<1>2. (S \cup {y}) \ {y} = S
  OBVIOUS
<1>3. SumFunctionOnSet(w, S \cup {y}) = w[y] + SumFunctionOnSet(w, (S \cup {y}) \ {y})
  BY <1>1, SumRemove
<1> QED BY <1>2, <1>3

LEMMA SumOne == ASSUME NEW w, NEW y, w[y] \in Nat PROVE SumFunctionOnSet(w, {y}) = w[y]
<1>1. SumFunctionOnSet(w, {} \cup {y}) = w[y] + SumFunctionOnSet(w, {})
  BY FS_EmptySet, SumAdd DEF Valued
<1>2. {} \cup {y} = {y}
  OBVIOUS
<1> QED BY <1>1, <1>2, SumEmpty

(* ... and whatever the elements are called.                               *)
LEMMA SumRename ==
  ASSUME NEW w, NEW v, NEW S, NEW R, IsFiniteSet(S), Valued(w, S),
         NEW f, \A x \in S : f[x] \in R /\ v[f[x]] = w[x],
         \A x, y \in S : f[x] = f[y] => x = y,
         \A z \in R : \E x \in S : f[x] = z
  PROVE SumFunctionOnSet(w, S) = SumFunctionOnSet(v, R)
<1> DEFINE Over(s) == {f[x] : x \in s}
           Right(s) == IsFiniteSet(Over(s)) /\ SumFunctionOnSet(w, s) = SumFunctionOnSet(v, Over(s))
           Wrong(k) == \E s \in SUBSET S : Cardinality(s) = k /\ ~ Right(s)
           Bad == {k \in Nat : Wrong(k)}
<1>1. \A s \in SUBSET S : IsFiniteSet(s) /\ Cardinality(s) \in Nat /\ Valued(w, s)
  BY FS_Subset, FS_CardinalityType DEF Valued
<1>2. SUFFICES Right(S)
  <2>1. Over(S) = R
    OBVIOUS
  <2> QED BY <2>1
<1> SUFFICES ASSUME Bad # {} PROVE FALSE
  BY <1>1
<1>3. PICK m \in Bad : \A k \in Bad : m <= k
  BY LeastNatural
<1>4. m \in Nat /\ Wrong(m)
  BY <1>3
<1>5. PICK s \in SUBSET S : Cardinality(s) = m /\ ~ Right(s)
  BY <1>4
<1>6. s # {}
  <2>1. SUFFICES ASSUME s = {} PROVE Right(s)
    BY <1>5
  <2>2. Over({}) = {}
    OBVIOUS
  <2>3. SumFunctionOnSet(w, {}) = 0 /\ SumFunctionOnSet(v, {}) = 0 /\ IsFiniteSet({})
    BY SumEmpty, FS_EmptySet
  <2>4. Right({})
    BY <2>2, <2>3
  <2> QED BY <2>1, <2>4
<1>7. PICK x \in s : TRUE
  BY <1>6
<1> DEFINE less == s \ {x}
<1>8. Cardinality(less) \in Nat /\ Cardinality(less) + 1 = m
  BY <1>1, <1>5, <1>7, OneLess
<1>9. Cardinality(less) \notin Bad
  <2>1. ~ (m <= Cardinality(less))
    BY <1>4, <1>8
  <2> QED BY <1>3, <2>1
<1>10. less \in SUBSET S
  OBVIOUS
<1>11. Right(less)
  BY <1>8, <1>9, <1>10
<1>12. SumFunctionOnSet(w, s) = w[x] + SumFunctionOnSet(w, less)
  BY <1>1, <1>7, SumRemove
<1>13. f[x] \notin Over(less) /\ Over(s) = Over(less) \cup {f[x]}
  BY <1>7
<1>14. v[f[x]] = w[x] /\ w[x] \in Nat
  BY <1>7 DEF Valued
<1>15. Valued(v, Over(less))
  BY <1>10 DEF Valued
<1> DEFINE image == Over(less)
<1>16. IsFiniteSet(image) /\ f[x] \notin image /\ Valued(v, image)
  BY <1>11, <1>13, <1>15
<1>17. SumFunctionOnSet(v, image \cup {f[x]}) = w[x] + SumFunctionOnSet(v, image)
  <2> HIDE DEF image
  <2> QED BY <1>14, <1>16, SumAdd
<1>18. IsFiniteSet(image \cup {f[x]})
  <2> HIDE DEF image
  <2> QED BY <1>16, FS_AddElement
<1>19. Right(s)
  BY <1>11, <1>12, <1>13, <1>17, <1>18
<1> QED BY <1>5, <1>19

(* A part sums up to no more than the whole, ...                           *)
LEMMA SumPart ==
  ASSUME NEW w, NEW S, IsFiniteSet(S), Valued(w, S), NEW R \in SUBSET S
  PROVE SumFunctionOnSet(w, R) <= SumFunctionOnSet(w, S)
<1> DEFINE Right(s) == SumFunctionOnSet(w, R) <= SumFunctionOnSet(w, s)
           Wrong(k) == \E s \in SUBSET S : R \subseteq s /\ Cardinality(s) = k /\ ~ Right(s)
           Bad == {k \in Nat : Wrong(k)}
<1>1. \A s \in SUBSET S : IsFiniteSet(s) /\ Cardinality(s) \in Nat /\ Valued(w, s)
  BY FS_Subset, FS_CardinalityType DEF Valued
<1>2. \A s \in SUBSET S : SumFunctionOnSet(w, s) \in Nat
  BY <1>1, SumNat
<1> SUFFICES ASSUME Bad # {} PROVE FALSE
  BY <1>1
<1>3. PICK m \in Bad : \A k \in Bad : m <= k
  BY LeastNatural
<1>4. m \in Nat /\ Wrong(m)
  BY <1>3
<1>5. PICK s \in SUBSET S : R \subseteq s /\ Cardinality(s) = m /\ ~ Right(s)
  BY <1>4
<1>6. s # R
  BY <1>2, <1>5
<1>7. PICK x \in s : x \notin R
  BY <1>5, <1>6
<1> DEFINE less == s \ {x}
<1>8. Cardinality(less) \in Nat /\ Cardinality(less) + 1 = m
  BY <1>1, <1>5, <1>7, OneLess
<1>9. Cardinality(less) \notin Bad
  <2>1. ~ (m <= Cardinality(less))
    BY <1>4, <1>8
  <2> QED BY <1>3, <2>1
<1>10. less \in SUBSET S /\ R \subseteq less
  BY <1>5, <1>7
<1>11. Right(less)
  BY <1>8, <1>9, <1>10
<1>12. SumFunctionOnSet(w, s) = w[x] + SumFunctionOnSet(w, less)
  BY <1>1, <1>7, SumRemove
<1>13. w[x] \in Nat
  BY <1>7 DEF Valued
<1>14. SumFunctionOnSet(w, R) \in Nat /\ SumFunctionOnSet(w, less) \in Nat
  BY <1>2, <1>10
<1> HIDE DEF less
<1>15. Right(s)
  BY <1>11, <1>12, <1>13, <1>14
<1> QED BY <1>5, <1>15

(* ... and n numbers up to b sum up to no more than n times b.             *)
LEMMA SumBound ==
  ASSUME NEW w, NEW S, IsFiniteSet(S), NEW b \in Nat, \A x \in S : w[x] \in 0..b
  PROVE SumFunctionOnSet(w, S) <= Cardinality(S) * b
<1> DEFINE Right(s) == SumFunctionOnSet(w, s) <= Cardinality(s) * b
           Wrong(k) == \E s \in SUBSET S : Cardinality(s) = k /\ ~ Right(s)
           Bad == {k \in Nat : Wrong(k)}
<1>1. \A s \in SUBSET S : IsFiniteSet(s) /\ Cardinality(s) \in Nat /\ Valued(w, s)
  BY FS_Subset, FS_CardinalityType DEF Valued
<1>2. \A s \in SUBSET S : SumFunctionOnSet(w, s) \in Nat
  BY <1>1, SumNat
<1> SUFFICES ASSUME Bad # {} PROVE FALSE
  BY <1>1
<1>3. PICK m \in Bad : \A k \in Bad : m <= k
  BY LeastNatural
<1>4. m \in Nat /\ Wrong(m)
  BY <1>3
<1>5. PICK s \in SUBSET S : Cardinality(s) = m /\ ~ Right(s)
  BY <1>4
<1>6. s # {}
  <2>1. SUFFICES ASSUME s = {} PROVE Right(s)
    BY <1>5
  <2>2. SumFunctionOnSet(w, s) = 0 /\ Cardinality(s) = 0
    BY <2>1, SumEmpty, FS_EmptySet
  <2>3. 0 <= 0 * b
    OBVIOUS
  <2> QED BY <2>2, <2>3
<1>7. PICK x \in s : TRUE
  BY <1>6
<1> DEFINE less == s \ {x}
<1>8. Cardinality(less) \in Nat /\ Cardinality(less) + 1 = m
  BY <1>1, <1>5, <1>7, OneLess
<1>9. Cardinality(less) \notin Bad
  <2>1. ~ (m <= Cardinality(less))
    BY <1>4, <1>8
  <2> QED BY <1>3, <2>1
<1>10. less \in SUBSET S
  OBVIOUS
<1>11. Right(less)
  BY <1>8, <1>9, <1>10
<1>12. SumFunctionOnSet(w, s) = w[x] + SumFunctionOnSet(w, less)
  BY <1>1, <1>7, SumRemove
<1>13. w[x] \in Nat /\ w[x] <= b
  BY <1>7
<1>14. SumFunctionOnSet(w, less) \in Nat
  BY <1>2, <1>10
<1> DEFINE c == Cardinality(less)
<1>15. m * b = c * b + b
  <2>1. \A k, j \in Nat : (k + 1) * j = k * j + j
    OBVIOUS
  <2> QED BY <1>8, <2>1
<1>16. c * b \in Nat
  <2>1. \A k, j \in Nat : k * j \in Nat
    OBVIOUS
  <2> QED BY <1>8, <2>1
<1>17. Right(s)
  <2> DEFINE p == c * b
             q == m * b
  <2>1. SumFunctionOnSet(w, less) <= p /\ q = p + b /\ p \in Nat
    BY <1>11, <1>15, <1>16
  <2> HIDE DEF p, q, less
  <2>2. SumFunctionOnSet(w, s) <= q
    BY <1>12, <1>13, <1>14, <2>1
  <2> QED BY <1>5, <2>2 DEF q
<1> QED BY <1>5, <1>17
-----------------------------------------------------------------------------
(* Sequences that list a finite set.  R orders the set strictly.           *)
Orders(R, S) == /\ \A a, b \in S : a # b => <<a, b>> \in R \/ <<b, a>> \in R
                /\ \A a, b, c \in S : <<a, b>> \in R /\ <<b, c>> \in R => <<a, c>> \in R

LEMMA FirstOf ==
  ASSUME NEW S, IsFiniteSet(S), S # {}, NEW R, Orders(R, S)
  PROVE \E x \in S : \A y \in S : y # x => <<x, y>> \in R
<1> DEFINE Led(s) == \E x \in s : \A y \in s : y # x => <<x, y>> \in R
           Wrong(k) == \E s \in SUBSET S : s # {} /\ Cardinality(s) = k /\ ~ Led(s)
           Bad == {k \in Nat : Wrong(k)}
<1>1. \A s \in SUBSET S : IsFiniteSet(s) /\ Cardinality(s) \in Nat
  BY FS_Subset, FS_CardinalityType
<1> SUFFICES ASSUME Bad # {} PROVE FALSE
  BY <1>1
<1>2. PICK m \in Bad : \A k \in Bad : m <= k
  BY LeastNatural
<1>3. m \in Nat /\ Wrong(m)
  BY <1>2
<1>4. PICK s \in SUBSET S : s # {} /\ Cardinality(s) = m /\ ~ Led(s)
  BY <1>3
<1>5. PICK z \in s : TRUE
  BY <1>4
<1> DEFINE less == s \ {z}
<1>6. Cardinality(less) \in Nat /\ Cardinality(less) + 1 = m
  BY <1>1, <1>4, <1>5, OneLess
<1>7. Cardinality(less) \notin Bad
  <2>1. ~ (m <= Cardinality(less))
    BY <1>3, <1>6
  <2> QED BY <1>2, <2>1
<1>8. CASE less = {}
  <2>1. s = {z}
    BY <1>5, <1>8
  <2>2. Led(s)
    BY <2>1
  <2> QED BY <1>4, <2>2
<1>9. CASE less # {}
  <2>1. Led(less)
    BY <1>6, <1>7, <1>9
  <2>2. PICK x \in less : \A y \in less : y # x => <<x, y>> \in R
    BY <2>1
  <2>3. \A y \in s : y \in less \/ y = z
    OBVIOUS
  <2>4. x \in S /\ z \in S /\ x # z /\ less \subseteq S
    OBVIOUS
  <2>5. CASE <<x, z>> \in R
    <3>1. \A y \in s : y # x => <<x, y>> \in R
      BY <2>2, <2>3, <2>5
    <3> QED BY <1>4, <2>2, <3>1
  <2>6. CASE <<z, x>> \in R
    <3>1. \A y \in less : <<z, y>> \in R
      BY <2>2, <2>4, <2>6 DEF Orders
    <3>2. \A y \in s : y # z => <<z, y>> \in R
      BY <2>3, <3>1
    <3> QED BY <1>4, <1>5, <3>2
  <2> QED BY <2>4, <2>5, <2>6 DEF Orders
<1> QED BY <1>8, <1>9

(* Finite sets of numbers have a largest one.                              *)
LEMMA LargestNatural ==
  ASSUME NEW S \in SUBSET Nat, IsFiniteSet(S), S # {}
  PROVE \E x \in S : \A y \in S : y <= x
<1> DEFINE R == {y \in S \X S : y[1] > y[2]}
<1>1. \A a, b \in S : <<a, b>> \in R <=> a > b
  OBVIOUS
<1> HIDE DEF R
<1>2. Orders(R, S)
  <2>1. \A a, b \in S : a # b => <<a, b>> \in R \/ <<b, a>> \in R
    BY <1>1
  <2>2. \A a, b, c \in S : <<a, b>> \in R /\ <<b, c>> \in R => <<a, c>> \in R
    BY <1>1
  <2> QED BY <2>1, <2>2 DEF Orders
<1>3. PICK x \in S : \A y \in S : y # x => <<x, y>> \in R
  BY <1>2, FirstOf
<1>4. \A y \in S : y = x \/ x > y
  BY <1>1, <1>3
<1>5. x \in Nat /\ \A y \in S : y \in Nat /\ y <= x
  BY <1>4
<1> QED BY <1>5

LEMMA Listed ==
  ASSUME NEW S, IsFiniteSet(S), NEW s \in SetToSeqs(S)
  PROVE LET n == Cardinality(S) IN
        /\ n \in Nat /\ DOMAIN s = 1..n /\ Len(s) = n /\ s \in Seq(S)
        /\ \A i \in 1..n : s[i] \in S
        /\ \A i, j \in 1..n : s[i] = s[j] => i = j
        /\ \A x \in S : \E i \in 1..n : s[i] = x
<1> DEFINE n == Cardinality(S)
<1>1. n \in Nat
  BY FS_CardinalityType
<1>2. s \in [1..n -> S] /\ \A i, j \in 1..n : i # j => s[i] # s[j]
  BY DEF SetToSeqs
<1>3. s \in Injection(1..n, S)
  BY <1>2 DEF Injection, IsInjective
<1>4. Cardinality(1..n) = n
  BY <1>1, FS_Interval
<1>5. s \in Surjection(1..n, S)
  BY <1>3, <1>4, FS_Injection
<1>6. \A x \in S : \E i \in 1..n : s[i] = x
  BY <1>5 DEF Surjection
<1>7. s \in Seq(S) /\ Len(s) = n
  BY <1>1, <1>2
<1> QED BY <1>1, <1>2, <1>6, <1>7

LEMMA Sorted ==
  ASSUME NEW S, IsFiniteSet(S), NEW R, Orders(R, S)
  PROVE \E s \in SetToSeqs(S) : \A i, j \in DOMAIN s : i < j => <<s[i], s[j]>> \in R
<1> DEFINE InOrder(q) == \A i, j \in DOMAIN q : i < j => <<q[i], q[j]>> \in R
           Done(s) == \E q \in SetToSeqs(s) : InOrder(q)
           Wrong(k) == \E s \in SUBSET S : Cardinality(s) = k /\ ~ Done(s)
           Bad == {k \in Nat : Wrong(k)}
<1>1. \A s \in SUBSET S : IsFiniteSet(s) /\ Cardinality(s) \in Nat
  BY FS_Subset, FS_CardinalityType
<1> SUFFICES ASSUME Bad # {} PROVE FALSE
  BY <1>1
<1>2. PICK m \in Bad : \A k \in Bad : m <= k
  BY LeastNatural
<1>3. m \in Nat /\ Wrong(m)
  BY <1>2
<1>4. PICK s \in SUBSET S : Cardinality(s) = m /\ ~ Done(s)
  BY <1>3
<1>5. CASE s = {}
  <2> DEFINE q == [i \in 1..0 |-> i]
  <2>1. m = 0
    BY <1>4, <1>5, FS_EmptySet
  <2>2. q \in [1..0 -> s] /\ \A i, j \in 1..0 : i # j => q[i] # q[j]
    OBVIOUS
  <2>3. q \in SetToSeqs(s)
    BY <1>4, <2>1, <2>2 DEF SetToSeqs
  <2>4. InOrder(q)
    OBVIOUS
  <2> QED BY <1>4, <2>3, <2>4
<1>6. CASE s # {}
  <2>1. Orders(R, s)
    BY DEF Orders
  <2>2. PICK x \in s : \A y \in s : y # x => <<x, y>> \in R
    BY <1>1, <1>6, <2>1, FirstOf
  <2> DEFINE less == s \ {x}
             k == Cardinality(less)
  <2>3. k \in Nat /\ k + 1 = m /\ IsFiniteSet(less)
    BY <1>1, <1>4, <2>2, OneLess
  <2>4. k \notin Bad
    <3>1. ~ (m <= k)
      BY <1>3, <2>3
    <3> QED BY <1>2, <3>1
  <2>5. less \in SUBSET S
    OBVIOUS
  <2>6. PICK p \in SetToSeqs(less) : InOrder(p)
    BY <2>3, <2>4, <2>5
  <2>7. /\ DOMAIN p = 1..k /\ \A i \in 1..k : p[i] \in less
        /\ \A i, j \in 1..k : p[i] = p[j] => i = j
    <3> HIDE DEF less
    <3> QED BY <2>3, <2>6, Listed
  <2> DEFINE q == [i \in 1..m |-> IF i = 1 THEN x ELSE p[i - 1]]
  <2> HIDE DEF k
  <2>8. /\ q[1] = x
        /\ \A i \in 1..m : i # 1 => /\ i - 1 \in 1..k /\ q[i] = p[i - 1] /\ q[i] \in less
    BY <1>3, <2>3, <2>7
  <2>9. q \in [1..m -> s]
    BY <1>3, <2>2, <2>7, <2>8
  <2> HIDE DEF q
  <2>10. \A i, j \in 1..m : i # j => q[i] # q[j]
    <3> SUFFICES ASSUME NEW i \in 1..m, NEW j \in 1..m, i # j PROVE q[i] # q[j]
      OBVIOUS
    <3>1. CASE i = 1
      BY <2>8, <3>1
    <3>2. CASE j = 1
      BY <2>8, <3>2
    <3>3. CASE i # 1 /\ j # 1
      <4>1. i - 1 # j - 1
        BY <3>3
      <4> QED BY <2>7, <2>8, <3>3, <4>1
    <3> QED BY <3>1, <3>2, <3>3
  <2>11. q \in SetToSeqs(s)
    BY <1>4, <2>9, <2>10 DEF SetToSeqs
  <2>12. DOMAIN q = 1..m
    BY <2>9
  <2>13. InOrder(q)
    <3> SUFFICES ASSUME NEW i \in 1..m, NEW j \in 1..m, i < j PROVE <<q[i], q[j]>> \in R
      BY <2>12
    <3>1. CASE i = 1
      <4>1. j # 1 /\ q[j] \in less
        BY <2>8, <3>1
      <4> QED BY <2>2, <2>8, <3>1, <4>1
    <3>2. CASE i # 1
      <4>1. j # 1 /\ i - 1 < j - 1
        BY <3>2
      <4>2. <<p[i - 1], p[j - 1]>> \in R
        BY <2>6, <2>7, <2>8, <3>2, <4>1
      <4> QED BY <2>8, <3>2, <4>1, <4>2
    <3> QED BY <3>1, <3>2
  <2> QED BY <1>4, <2>11, <2>13
<1> QED BY <1>5, <1>6

(* A set of positions that holds every one before each of its own is a     *)
(* beginning.                                                              *)
LEMMA Beginning ==
  ASSUME NEW n \in Nat, NEW I \in SUBSET (1..n), \A i \in I : \A j \in 1..n : j < i => j \in I
  PROVE Cardinality(I) \in Nat /\ I = 1..Cardinality(I)
<1> DEFINE Out == {i \in Nat : i # 0 /\ i \notin I}
<1>1. n + 1 \in Out
  OBVIOUS
<1>2. PICK m \in Out : \A i \in Out : m <= i
  BY <1>1, LeastNatural
<1>3. m \in Nat /\ m # 0 /\ m \notin I /\ m <= n + 1
  BY <1>1, <1>2
<1>4. \A i \in 1..(m - 1) : i \in I
  <2> TAKE i \in 1..(m - 1)
  <2>1. i \in Nat /\ i # 0 /\ ~ (m <= i)
    BY <1>3
  <2> QED BY <1>2, <2>1
<1>5. \A i \in I : i \in 1..(m - 1)
  <2> TAKE i \in I
  <2>1. i \in 1..n /\ i # m
    BY <1>3
  <2>2. CASE m < i
    <3>1. m \in 1..n
      BY <1>3, <2>1, <2>2
    <3> QED BY <1>3, <2>2, <3>1
  <2> QED BY <1>3, <2>1, <2>2
<1>6. I = 1..(m - 1)
  BY <1>4, <1>5
<1>7. Cardinality(1..(m - 1)) = m - 1
  BY <1>3, FS_Interval
<1> QED BY <1>3, <1>6, <1>7

(* Entries of a list at different positions.                               *)
Numbered(image, I, n, s) == /\ n \in Nat /\ I \subseteq 1..n
                            /\ \A i, j \in 1..n : s[i] = s[j] => i = j
                            /\ \A i \in I : s[i] \in image
                            /\ \A x \in image : \E i \in I : x = s[i]
LEMMA Taken ==
  ASSUME NEW n, NEW s, NEW I, NEW image, Numbered(image, I, n, s)
  PROVE Cardinality(image) = Cardinality(I)
<1> DEFINE f == [i \in I |-> s[i]]
<1>1. IsFiniteSet(I)
  <2>1. IsFiniteSet(1..n)
    BY FS_Interval DEF Numbered
  <2> QED BY <2>1, FS_Subset DEF Numbered
<1>2. f \in Surjection(I, image)
  BY DEF Numbered, Surjection
<1>3. f \in Injection(I, image)
  BY DEF Numbered, Injection, IsInjective
<1> HIDE DEF f
<1> QED BY <1>1, <1>2, <1>3, FS_Surjection

(* What RemoveAt leaves.                                                   *)
LEMMA Removed ==
  ASSUME NEW E, NEW s \in Seq(E), NEW i \in 1..Len(s)
  PROVE /\ RemoveAt(s, i) \in Seq(E) /\ Len(RemoveAt(s, i)) = Len(s) - 1
        /\ \A j \in 1..(Len(s) - 1) : RemoveAt(s, i)[j] = s[IF j < i THEN j ELSE j + 1]
<1> DEFINE left == SubSeq(s, 1, i - 1)
           right == SubSeq(s, i + 1, Len(s))
<1>1. left \in Seq(E) /\ Len(left) = i - 1 /\ \A j \in 1..(i - 1) : left[j] = s[j]
  OBVIOUS
<1>2. /\ right \in Seq(E) /\ Len(right) = Len(s) - i
      /\ \A j \in 1..(Len(s) - i) : right[j] = s[i + j]
  <2>1. right \in Seq(E)
    OBVIOUS
  <2>2. Len(right) = Len(s) - i
    OBVIOUS
  <2>3. \A j \in 1..(Len(s) - i) : right[j] = s[i + j]
    OBVIOUS
  <2> QED BY <2>1, <2>2, <2>3
<1>3. RemoveAt(s, i) = left \o right
  BY DEF RemoveAt
<1> HIDE DEF left, right
<1>4. RemoveAt(s, i) \in Seq(E) /\ Len(RemoveAt(s, i)) = Len(s) - 1
  BY <1>1, <1>2, <1>3
<1>5. ASSUME NEW j \in 1..(Len(s) - 1) PROVE RemoveAt(s, i)[j] = s[IF j < i THEN j ELSE j + 1]
  <2>1. CASE j < i
    BY <1>1, <1>2, <1>3, <2>1
  <2>2. CASE ~ (j < i)
    <3>1. (left \o right)[j] = right[j - (i - 1)] /\ j - (i - 1) \in 1..(Len(s) - i)
      BY <1>1, <1>2, <2>2
    <3>2. i + (j - (i - 1)) = j + 1
      OBVIOUS
    <3> QED BY <1>2, <1>3, <2>2, <3>1, <3>2
  <2> QED BY <2>1, <2>2
<1> QED BY <1>4, <1>5

LEMMA LeastOne == ASSUME NEW i \in Nat PROVE Min({i}) = i
BY DEF Min

(* RemoveFirst takes out an entry that occurs once, wherever it is, and a  *)
(* sequence that moves an entry to its end keeps the order of the others.  *)
LEMMA RemovedFirst ==
  ASSUME NEW E, NEW s \in Seq(E), IsInjective(s), NEW k \in 1..Len(s)
  PROVE RemoveFirst(s, s[k]) = RemoveAt(s, k)
<1> DEFINE I == {i \in 1..Len(s) : s[i] = s[k]}
<1>1. I = {k}
  BY DEF IsInjective
<1>2. Min(I) = k
  BY <1>1, LeastOne
<1>3. SelectInSeq(s, LAMBDA v : v = s[k]) = k
  BY <1>1, <1>2 DEF SelectInSeq
<1> QED BY <1>3 DEF RemoveFirst

Moved(u, v, p) ==
  /\ v[Len(v)] = p /\ ToSet(v) = ToSet(u) \cup {p}
  /\ Len(v) = (IF p \in ToSet(u) THEN Len(u) ELSE Len(u) + 1)
  /\ \A a, b \in 1..Len(v) : a < b =>
       /\ v[a] # p
       /\ \E i \in 1..Len(u) : /\ v[a] = u[i]
                               /\ b = Len(v) \/ \E j \in 1..Len(u) : i < j /\ v[b] = u[j]

LEMMA MovedToEnd ==
  ASSUME NEW E, NEW u \in Seq(E), IsInjective(u), NEW p \in E
  PROVE LET v == Append(RemoveFirst(u, p), p)
        IN  v \in Seq(E) /\ IsInjective(v) /\ Moved(u, v, p)
<1> DEFINE n == Len(u)
           r == RemoveFirst(u, p)
           v == Append(r, p)
<1>1. n \in Nat /\ DOMAIN u = 1..n /\ \A i \in 1..n : u[i] \in E
  OBVIOUS
<1> DEFINE Shifted(m, old) ==
             /\ r \in Seq(E) /\ Len(r) = m /\ m + 1 = (IF p \in ToSet(u) THEN n ELSE n + 1)
             /\ \A i \in 1..m : old[i] \in 1..n /\ r[i] = u[old[i]] /\ u[old[i]] # p
             /\ \A i, j \in 1..m : i < j => old[i] < old[j]
             /\ \A x \in ToSet(u) : x # p => \E i \in 1..m : r[i] = x
<1>2. ASSUME NEW m \in Nat, NEW old, Shifted(m, old)
      PROVE v \in Seq(E) /\ IsInjective(v) /\ Moved(u, v, p)
  <2>1. /\ v \in Seq(E) /\ Len(v) = m + 1 /\ DOMAIN v = 1..(m + 1)
        /\ v[m + 1] = p /\ \A i \in 1..m : v[i] = r[i]
    BY <1>2
  <2> HIDE DEF r, v, n
  <2>2. \A i, j \in 1..m : old[i] = old[j] => i = j
    BY <1>1, <1>2
  <2>3. IsInjective(v)
    <3> SUFFICES ASSUME NEW i \in 1..(m + 1), NEW j \in 1..(m + 1), v[i] = v[j] PROVE i = j
      BY <2>1 DEF IsInjective
    <3>1. CASE i \in 1..m /\ j \in 1..m
      <4>1. u[old[i]] = u[old[j]] /\ old[i] \in DOMAIN u /\ old[j] \in DOMAIN u
        BY <1>1, <1>2, <2>1, <3>1
      <4>2. old[i] = old[j]
        BY <4>1 DEF IsInjective
      <4> QED BY <2>2, <3>1, <4>2
    <3>2. CASE i \notin 1..m
      <4>1. i = m + 1 /\ v[i] = p
        BY <2>1, <3>2
      <4> QED BY <1>2, <2>1, <4>1
    <3>3. CASE j \notin 1..m
      <4>1. j = m + 1 /\ v[j] = p
        BY <2>1, <3>3
      <4> QED BY <1>2, <2>1, <4>1
    <3> QED BY <3>1, <3>2, <3>3
  <2>4. ToSet(v) = ToSet(u) \cup {p}
    <3>1. \A x : x \in ToSet(v) <=> \E i \in 1..(m + 1) : v[i] = x
      BY <2>1 DEF ToSet
    <3>2. \A x : x \in ToSet(u) <=> \E i \in 1..n : u[i] = x
      BY <1>1 DEF ToSet
    <3>3. \A i \in 1..m : v[i] \in ToSet(u)
      BY <1>2, <2>1, <3>2
    <3>4. \A i \in 1..(m + 1) : i \in 1..m \/ i = m + 1
      OBVIOUS
    <3>5. \A x \in ToSet(v) : x \in ToSet(u) \cup {p}
      BY <2>1, <3>1, <3>3, <3>4
    <3>6. \A x \in ToSet(u) : x # p => x \in ToSet(v)
      BY <1>2, <2>1, <3>1
    <3>7. p \in ToSet(v)
      BY <2>1, <3>1
    <3> QED BY <3>5, <3>6, <3>7
  <2>5. ASSUME NEW a \in 1..(m + 1), NEW b \in 1..(m + 1), a < b
        PROVE  /\ v[a] # p
               /\ \E i \in 1..n : v[a] = u[i] /\ (b = m + 1 \/ \E j \in 1..n : i < j /\ v[b] = u[j])
    <3>1. a \in 1..m /\ (b = m + 1 \/ b \in 1..m)
      BY <2>5
    <3>2. v[a] = u[old[a]] /\ old[a] \in 1..n /\ v[a] # p
      BY <1>2, <2>1, <3>1
    <3>3. b \in 1..m => v[b] = u[old[b]] /\ old[b] \in 1..n /\ old[a] < old[b]
      BY <1>2, <2>1, <2>5, <3>1
    <3> QED BY <3>1, <3>2, <3>3
  <2>6. Len(v) = (IF p \in ToSet(u) THEN n ELSE n + 1)
    BY <1>2, <2>1
  <2>7. Moved(u, v, p)
    BY <2>1, <2>4, <2>5, <2>6 DEF Moved, n
  <2> QED BY <2>1, <2>3, <2>7
<1>3. CASE p \notin ToSet(u)
  <2> DEFINE old == [i \in 1..n |-> i]
  <2>1. \A i \in 1..n : u[i] # p
    BY <1>1, <1>3 DEF ToSet
  <2>2. r = u
    BY <2>1 DEF RemoveFirst
  <2>3. \A x \in ToSet(u) : \E i \in 1..n : r[i] = x
    BY <1>1, <2>2 DEF ToSet
  <2>4. \A i \in 1..n : old[i] \in 1..n /\ r[i] = u[old[i]] /\ u[old[i]] # p
    BY <2>1, <2>2
  <2>5. \A i, j \in 1..n : i < j => old[i] < old[j]
    OBVIOUS
  <2>6. Shifted(n, old) /\ n \in Nat
    <3> HIDE DEF old
    <3> QED BY <1>1, <1>3, <2>2, <2>3, <2>4, <2>5
  <2> HIDE DEF Shifted, old, n, r, v
  <2> QED BY <1>2, <2>6 DEF r, v
<1>4. CASE p \in ToSet(u)
  <2>1. PICK k \in 1..n : u[k] = p
    BY <1>1, <1>4 DEF ToSet
  <2> DEFINE m == n - 1
             old == [i \in 1..m |-> IF i < k THEN i ELSE i + 1]
  <2>2. r = RemoveAt(u, k)
    BY <1>1, <2>1, RemovedFirst
  <2>3. m \in Nat /\ m + 1 = n
    BY <1>1, <2>1
  <2>4. r \in Seq(E) /\ Len(r) = m /\ \A i \in 1..m : r[i] = u[old[i]]
    BY <2>1, <2>2, Removed
  <2>5. \A i \in 1..m : old[i] \in 1..n /\ old[i] # k
    BY <1>1, <2>3
  <2>6. \A i \in 1..m : u[old[i]] # p
    BY <1>1, <2>1, <2>5 DEF IsInjective
  <2>7. \A i, j \in 1..m : i < j => old[i] < old[j]
    BY <2>3
  <2>8. ASSUME NEW x \in ToSet(u), x # p PROVE \E i \in 1..m : r[i] = x
    <3>1. PICK j \in 1..n : u[j] = x
      BY <1>1 DEF ToSet
    <3>2. j # k
      BY <2>1, <2>8, <3>1
    <3>3. \E i \in 1..m : old[i] = j
      <4>1. CASE j < k
        <5>1. j \in 1..m /\ old[j] = j
          BY <1>1, <2>3, <4>1
        <5> QED BY <5>1
      <4>2. CASE k < j
        <5>1. j - 1 \in 1..m /\ old[j - 1] = j
          BY <1>1, <2>3, <4>2
        <5> QED BY <5>1
      <4> QED BY <1>1, <3>2, <4>1, <4>2
    <3> HIDE DEF old, m
    <3> QED BY <2>4, <3>1, <3>3
  <2>9. Shifted(m, old)
    <3> HIDE DEF old, m, n
    <3> QED BY <1>4, <2>3, <2>4, <2>5, <2>6, <2>7, <2>8
  <2> HIDE DEF Shifted, old, m, n, r, v
  <2> QED BY <1>2, <2>3, <2>9 DEF r, v
<1> QED BY <1>3, <1>4
=============================================================================
