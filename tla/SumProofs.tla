------------------------------ MODULE SumProofs ------------------------------
(***************************************************************************)
(* Induction over finite sets, in a form that needs no predicate, and what *)
(* it says of the sums and the best elements the components compute: the   *)
(* library's induction rules are about an operator, this one about a set.  *)
(***************************************************************************)
EXTENDS Integers, FiniteSets, Functions, FiniteSetTheorems, WellFoundedInduction, TLAPS

\* A set of natural numbers has a least element.
LEMMA Least == ASSUME NEW T \in SUBSET Nat, T # {} PROVE \E n \in T : \A m \in T : n <= m
<1>. DEFINE R == OpToRel(<, Nat)
<1>1. IsWellFoundedOn(R, Nat) BY NatLessThanWellFounded
<1>2. \E x \in T : \A y \in T : ~ (<<y, x>> \in R)
  <2>. HIDE DEF R
  <2>. QED BY <1>1, WFMin
<1>3. \A x, y \in Nat : <<y, x>> \in R <=> y < x BY DEF OpToRel
<1>4. PICK n \in T : \A m \in T : ~ (<<m, n>> \in R) BY <1>2
<1>5. ASSUME NEW m \in T PROVE n <= m
  <2>1. m \in Nat /\ n \in Nat OBVIOUS
  <2>2. ~ (m < n) BY <1>3, <1>4, <2>1
  <2>. QED BY <2>1, <2>2
<1>. QED BY <1>5

\* What each subset has when those with one element less have it, every subset has.
LEMMA SubsetInduction ==
    ASSUME NEW S, IsFiniteSet(S), NEW Good,
           \A s \in SUBSET S : (\A x \in s : s \ {x} \in Good) => s \in Good
    PROVE  \A s \in SUBSET S : s \in Good
<1>. DEFINE Sizes == {n \in Nat : \E s \in SUBSET S : Cardinality(s) = n /\ s \notin Good}
<1>1. \A s \in SUBSET S : IsFiniteSet(s) /\ Cardinality(s) \in Nat
  BY FS_Subset, FS_CardinalityType
<1>2. CASE Sizes = {}
  BY <1>1, <1>2
<1>3. CASE Sizes # {}
  <2>1. PICK n \in Sizes : \A m \in Sizes : n <= m BY <1>3, Least
  <2>2. PICK s \in SUBSET S : Cardinality(s) = n /\ s \notin Good BY <2>1
  <2>3. ASSUME NEW x \in s PROVE s \ {x} \in Good
    <3>1. s \ {x} \in SUBSET S OBVIOUS
    <3>2. Cardinality(s \ {x}) = Cardinality(s) - 1 BY <1>1, FS_RemoveElement
    <3>3. Cardinality(s \ {x}) \in Nat /\ Cardinality(s \ {x}) < n BY <1>1, <2>2, <3>1, <3>2
    <3>4. Cardinality(s \ {x}) \notin Sizes
      <4>. HIDE DEF Sizes
      <4>1. n \in Nat BY <2>2, <1>1
      <4>2. ~ (n <= Cardinality(s \ {x})) BY <3>3, <4>1
      <4>. QED BY <2>1, <4>2
    <3>. QED BY <3>1, <3>3, <3>4
  <2>. QED BY <2>2, <2>3
<1>. QED BY <1>2, <1>3

-----------------------------------------------------------------------------
(* The sum of a function over a finite set.                                 *)

Chosen(s) == CHOOSE x \in s : TRUE

\* One step of the fold.
SumStep(f, h, s) == IF s = {} THEN 0 ELSE f[Chosen(s)] + h[s \ {Chosen(s)}]

SumIter(f, S) == CHOOSE h : h = [s \in SUBSET S |-> SumStep(f, h, s)]

LEMMA SumIsIter == ASSUME NEW f, NEW S PROVE SumFunctionOnSet(f, S) = SumIter(f, S)[S]
  BY DEF SumFunctionOnSet, FoldFunctionOnSet, MapThenFoldSet, SumIter, Chosen, SumStep

LEMMA ChosenIsIn == ASSUME NEW s, s # {} PROVE Chosen(s) \in s
  BY DEF Chosen

\* The function the fold is defined by exists: its steps can be taken one size at a time.
LEMMA IterExists ==
    ASSUME NEW f, NEW S, IsFiniteSet(S)
    PROVE  \E h : h = [s \in SUBSET S |-> SumStep(f, h, s)]
<1>. DEFINE Upto(n) == \E h : /\ h = [s \in SUBSET S |-> h[s]]
                              /\ \A s \in SUBSET S : Cardinality(s) <= n => h[s] = SumStep(f, h, s)
            Bad == {n \in Nat : ~ Upto(n)}
<1>1. \A s \in SUBSET S : IsFiniteSet(s) /\ Cardinality(s) \in Nat
  BY FS_Subset, FS_CardinalityType
<1>2. Bad = {}
  <2>. SUFFICES ASSUME Bad # {} PROVE FALSE OBVIOUS
  <2>1. PICK n \in Bad : \A m \in Bad : n <= m BY Least
  <2>2. \E h : /\ h = [s \in SUBSET S |-> h[s]]
               /\ \A s \in SUBSET S : Cardinality(s) < n => h[s] = SumStep(f, h, s)
    <3>1. CASE n = 0
      <4>. DEFINE h == [s \in SUBSET S |-> 0]
      <4>1. h = [s \in SUBSET S |-> h[s]] OBVIOUS
      <4>2. \A s \in SUBSET S : ~ (Cardinality(s) < n) BY <1>1, <3>1
      <4>. QED BY <4>1, <4>2
    <3>2. CASE n # 0
      <4>1. n - 1 \in Nat /\ ~ (n <= n - 1) BY <3>2
      <4>2. Upto(n - 1) BY <2>1, <4>1
      <4>3. \A s \in SUBSET S : Cardinality(s) < n <=> Cardinality(s) <= n - 1 BY <1>1
      <4>. QED BY <4>2, <4>3
    <3>. QED BY <3>1, <3>2
  <2>3. PICK h : /\ h = [s \in SUBSET S |-> h[s]]
                 /\ \A s \in SUBSET S : Cardinality(s) < n => h[s] = SumStep(f, h, s)
    BY <2>2
  <2>. DEFINE g == [s \in SUBSET S |-> SumStep(f, h, s)]
  <2>4. ASSUME NEW s \in SUBSET S, Cardinality(s) <= n PROVE g[s] = SumStep(f, g, s)
    <3>1. CASE s = {} BY <3>1 DEF SumStep
    <3>2. CASE s # {}
      <4>. DEFINE t == s \ {Chosen(s)}
      <4>1. Chosen(s) \in s BY <3>2, ChosenIsIn
      <4>2. Cardinality(t) = Cardinality(s) - 1 BY <1>1, <4>1, FS_RemoveElement
      <4>3. t \in SUBSET S /\ Cardinality(t) < n
        <5>1. t \in SUBSET S OBVIOUS
        <5>2. Cardinality(s) \in Nat BY <1>1
        <5>. QED BY <2>4, <4>2, <5>1, <5>2
      <4>4. g[t] = h[t] BY <2>3, <4>3
      <4>5. g[s] = f[Chosen(s)] + h[t] BY <3>2 DEF SumStep
      <4>. QED BY <3>2, <4>4, <4>5 DEF SumStep
    <3>. QED BY <3>1, <3>2
  <2>5. g = [s \in SUBSET S |-> g[s]] OBVIOUS
  <2>6. Upto(n)
    <3>. HIDE DEF g
    <3>. QED BY <2>4, <2>5
  <2>. QED BY <2>6
<1>3. Cardinality(S) \in Nat BY FS_CardinalityType
<1>4. Upto(Cardinality(S)) BY <1>2, <1>3
<1>5. PICK h : /\ h = [s \in SUBSET S |-> h[s]]
               /\ \A s \in SUBSET S : Cardinality(s) <= Cardinality(S) => h[s] = SumStep(f, h, s)
  BY <1>4
<1>6. \A s \in SUBSET S : h[s] = SumStep(f, h, s)
  BY <1>5, FS_Subset
<1>7. h = [s \in SUBSET S |-> SumStep(f, h, s)] BY <1>5, <1>6
<1>. QED BY <1>7

LEMMA IterSteps ==
    ASSUME NEW f, NEW S, IsFiniteSet(S)
    PROVE  \A s \in SUBSET S : SumIter(f, S)[s] = SumStep(f, SumIter(f, S), s)
<1>1. SumIter(f, S) = [s \in SUBSET S |-> SumStep(f, SumIter(f, S), s)]
  BY IterExists DEF SumIter
<1>. QED BY <1>1

\* A subset is summed alike, whatever it is a subset of.
LEMMA IterIsSum ==
    ASSUME NEW f, NEW S, IsFiniteSet(S)
    PROVE  \A s \in SUBSET S : SumIter(f, S)[s] = SumFunctionOnSet(f, s)
<1>. DEFINE Good == {s \in SUBSET S :
                        \A T \in SUBSET S : s \subseteq T => SumIter(f, T)[s] = SumIter(f, S)[s]}
<1>1. ASSUME NEW s \in SUBSET S, \A x \in s : s \ {x} \in Good PROVE s \in Good
  <2>. SUFFICES ASSUME NEW T \in SUBSET S, s \subseteq T PROVE SumIter(f, T)[s] = SumIter(f, S)[s]
    OBVIOUS
  <2>0. IsFiniteSet(T) BY FS_Subset
  <2>1. /\ SumIter(f, T)[s] = SumStep(f, SumIter(f, T), s)
        /\ SumIter(f, S)[s] = SumStep(f, SumIter(f, S), s)
    BY <2>0, IterSteps
  <2>2. CASE s = {} BY <2>1, <2>2 DEF SumStep
  <2>3. CASE s # {}
    <3>1. Chosen(s) \in s BY <2>3, ChosenIsIn
    <3>2. SumIter(f, T)[s \ {Chosen(s)}] = SumIter(f, S)[s \ {Chosen(s)}]
      <4>1. s \ {Chosen(s)} \in Good BY <1>1, <3>1
      <4>. QED BY <4>1
    <3>. QED BY <2>1, <2>3, <3>2 DEF SumStep
  <2>. QED BY <2>2, <2>3
<1>2. \A s \in SUBSET S : s \in Good
  <2>. HIDE DEF Good
  <2>. QED BY <1>1, SubsetInduction
<1>. QED BY <1>2, SumIsIter

\* The fold adds the elements one after the other, in the order it chooses them.
LEMMA SumSteps ==
    ASSUME NEW f, NEW S, IsFiniteSet(S)
    PROVE  /\ S = {} => SumFunctionOnSet(f, S) = 0
           /\ S # {} => /\ Chosen(S) \in S
                        /\ SumFunctionOnSet(f, S) =
                              f[Chosen(S)] + SumFunctionOnSet(f, S \ {Chosen(S)})
<1>1. SumFunctionOnSet(f, S) = SumStep(f, SumIter(f, S), S) BY SumIsIter, IterSteps
<1>2. SumIter(f, S)[S \ {Chosen(S)}] = SumFunctionOnSet(f, S \ {Chosen(S)}) BY IterIsSum
<1>. QED BY <1>1, <1>2, ChosenIsIn DEF SumStep

\* A sum of integers is one, and a sum of natural numbers one.
LEMMA SumType ==
    ASSUME NEW S, IsFiniteSet(S), NEW f, \A x \in S : f[x] \in Int
    PROVE  /\ SumFunctionOnSet(f, S) \in Int
           /\ (\A x \in S : f[x] >= 0) => SumFunctionOnSet(f, S) >= 0
<1>. DEFINE Good == {s \in SUBSET S : /\ SumFunctionOnSet(f, s) \in Int
                                      /\ (\A x \in s : f[x] >= 0) => SumFunctionOnSet(f, s) >= 0}
<1>1. ASSUME NEW s \in SUBSET S, \A x \in s : s \ {x} \in Good PROVE s \in Good
  <2>0. IsFiniteSet(s) BY FS_Subset
  <2>1. CASE s = {}
    <3>1. SumFunctionOnSet(f, s) = 0 BY <2>0, <2>1, SumSteps
    <3>. QED BY <3>1
  <2>2. CASE s # {}
    <3>. DEFINE x == Chosen(s)
    <3>1. x \in s /\ SumFunctionOnSet(f, s) = f[x] + SumFunctionOnSet(f, s \ {x})
      BY <2>0, <2>2, SumSteps
    <3>. HIDE DEF x
    <3>2. s \ {x} \in Good BY <1>1, <3>1
    <3>3. f[x] \in Int BY <3>1
    <3>. QED BY <3>1, <3>2, <3>3
  <2>. QED BY <2>1, <2>2
<1>2. S \in Good
  <2>. HIDE DEF Good
  <2>1. \A s \in SUBSET S : s \in Good BY <1>1, SubsetInduction
  <2>. QED BY <2>1
<1>. QED BY <1>2

\* The order does not matter: a sum is any element of it and the sum of the others.
LEMMA SumTakesOut ==
    ASSUME NEW S, IsFiniteSet(S), NEW f, \A x \in S : f[x] \in Int, NEW x \in S
    PROVE  SumFunctionOnSet(f, S) = f[x] + SumFunctionOnSet(f, S \ {x})
<1>. DEFINE Good == {s \in SUBSET S : \A y \in s :
                        SumFunctionOnSet(f, s) = f[y] + SumFunctionOnSet(f, s \ {y})}
<1>1. ASSUME NEW s \in SUBSET S, \A y \in s : s \ {y} \in Good PROVE s \in Good
  <2>. SUFFICES ASSUME NEW y \in s
                PROVE  SumFunctionOnSet(f, s) = f[y] + SumFunctionOnSet(f, s \ {y})
    OBVIOUS
  <2>. DEFINE z == Chosen(s)
  <2>0. IsFiniteSet(s) /\ IsFiniteSet(s \ {y}) BY FS_Subset
  <2>1. z \in s /\ SumFunctionOnSet(f, s) = f[z] + SumFunctionOnSet(f, s \ {z})
    BY <2>0, SumSteps
  <2>. HIDE DEF z
  <2>2. CASE y = z BY <2>1, <2>2
  <2>3. CASE y # z
    <3>1. SumFunctionOnSet(f, s \ {z}) = f[y] + SumFunctionOnSet(f, (s \ {z}) \ {y})
      <4>1. s \ {z} \in Good /\ y \in s \ {z} BY <1>1, <2>1, <2>3
      <4>. QED BY <4>1
    <3>2. SumFunctionOnSet(f, s \ {y}) = f[z] + SumFunctionOnSet(f, (s \ {y}) \ {z})
      <4>1. s \ {y} \in Good /\ z \in s \ {y} BY <1>1, <2>1, <2>3
      <4>. QED BY <4>1
    <3>3. (s \ {z}) \ {y} = (s \ {y}) \ {z} OBVIOUS
    <3>. DEFINE rest == SumFunctionOnSet(f, (s \ {y}) \ {z})
    <3>4. f[y] \in Int /\ f[z] \in Int /\ rest \in Int
      <4>1. IsFiniteSet((s \ {y}) \ {z}) BY FS_Subset
      <4>. QED BY <2>1, <4>1, SumType
    <3>5. /\ SumFunctionOnSet(f, s) = f[z] + (f[y] + rest)
          /\ SumFunctionOnSet(f, s \ {y}) = f[z] + rest
      BY <2>1, <3>1, <3>2, <3>3
    <3>6. f[z] + (f[y] + rest) = f[y] + (f[z] + rest)
      <4>. HIDE DEF rest
      <4>. QED BY <3>4
    <3>. QED BY <3>5, <3>6
  <2>. QED BY <2>2, <2>3
<1>2. S \in Good
  <2>. HIDE DEF Good
  <2>1. \A s \in SUBSET S : s \in Good BY <1>1, SubsetInduction
  <2>. QED BY <2>1
<1>. QED BY <1>2

\* What holds of every term holds of the sum: at most, or at least, so many times another.
LEMMA SumScales ==
    ASSUME NEW S, IsFiniteSet(S), NEW f, NEW g, NEW c \in Int,
           \A x \in S : f[x] \in Int /\ g[x] \in Int
    PROVE  /\ (\A x \in S : f[x] <= c * g[x]) =>
                  SumFunctionOnSet(f, S) <= c * SumFunctionOnSet(g, S)
           /\ (\A x \in S : f[x] >= c * g[x]) =>
                  SumFunctionOnSet(f, S) >= c * SumFunctionOnSet(g, S)
<1>. DEFINE AtMost(s) == \A x \in s : f[x] <= c * g[x]
            AtLeast(s) == \A x \in s : f[x] >= c * g[x]
            Good == {s \in SUBSET S :
                        /\ AtMost(s) => SumFunctionOnSet(f, s) <= c * SumFunctionOnSet(g, s)
                        /\ AtLeast(s) => SumFunctionOnSet(f, s) >= c * SumFunctionOnSet(g, s)}
<1>1. ASSUME NEW s \in SUBSET S, \A x \in s : s \ {x} \in Good PROVE s \in Good
  <2>0. IsFiniteSet(s) BY FS_Subset
  <2>1. CASE s = {}
    <3>1. SumFunctionOnSet(f, s) = 0 /\ SumFunctionOnSet(g, s) = 0 BY <2>0, <2>1, SumSteps
    <3>. QED BY <3>1
  <2>2. CASE s # {}
    <3>1. PICK x \in s : TRUE BY <2>2
    <3>. DEFINE F == SumFunctionOnSet(f, s \ {x})
                G == SumFunctionOnSet(g, s \ {x})
    <3>2. SumFunctionOnSet(f, s) = f[x] + F /\ SumFunctionOnSet(g, s) = g[x] + G
      BY <2>0, SumTakesOut
    <3>3. /\ AtMost(s) => F <= c * G /\ f[x] <= c * g[x]
          /\ AtLeast(s) => F >= c * G /\ f[x] >= c * g[x]
      BY <1>1
    <3>4. F \in Int /\ G \in Int
      <4>1. IsFiniteSet(s \ {x}) BY <2>0, FS_Subset
      <4>. QED BY <4>1, SumType
    <3>5. f[x] \in Int /\ g[x] \in Int OBVIOUS
    <3>. HIDE DEF F, G, AtMost, AtLeast
    <3>6. c * (g[x] + G) = c * g[x] + c * G BY <3>4, <3>5
    <3>7. c * g[x] \in Int /\ c * G \in Int BY <3>4, <3>5
    <3>8. /\ AtMost(s) => f[x] + F <= c * g[x] + c * G
          /\ AtLeast(s) => f[x] + F >= c * g[x] + c * G
      BY <3>3, <3>4, <3>5, <3>7
    <3>. QED BY <3>2, <3>6, <3>8
  <2>. QED BY <2>1, <2>2
<1>2. S \in Good
  <2>. HIDE DEF Good
  <2>1. \A s \in SUBSET S : s \in Good BY <1>1, SubsetInduction
  <2>. QED BY <2>1
<1>. QED BY <1>2

-----------------------------------------------------------------------------
(* The best element of a finite set, and the place of each.                 *)

\* R, a set of pairs, puts the elements of S in a row.
InOrder(R, S) ==
    /\ \A x \in S : <<x, x>> \notin R
    /\ \A x, y \in S : x # y => <<x, y>> \in R \/ <<y, x>> \in R
    /\ \A x, y, z \in S : <<x, y>> \in R /\ <<y, z>> \in R => <<x, z>> \in R

Before(R, S, x) == {y \in S : <<y, x>> \in R}
Place(R, S, x) == 1 + Cardinality(Before(R, S, x))

\* One of them comes before all others.
LEMMA FirstExists ==
    ASSUME NEW S, IsFiniteSet(S), S # {}, NEW R, InOrder(R, S)
    PROVE  \E i \in S : \A j \in S \ {i} : <<i, j>> \in R
<1>. DEFINE Good == {s \in SUBSET S : s = {} \/ \E i \in s : \A j \in s \ {i} : <<i, j>> \in R}
<1>1. ASSUME NEW s \in SUBSET S, \A x \in s : s \ {x} \in Good PROVE s \in Good
  <2>. SUFFICES ASSUME s # {} PROVE \E i \in s : \A j \in s \ {i} : <<i, j>> \in R OBVIOUS
  <2>1. PICK x \in s : TRUE OBVIOUS
  <2>2. CASE s \ {x} = {} BY <2>1, <2>2
  <2>3. CASE s \ {x} # {}
    <3>1. PICK i \in s \ {x} : \A j \in s \ {x, i} : <<i, j>> \in R
      <4>1. \E i \in s \ {x} : \A j \in (s \ {x}) \ {i} : <<i, j>> \in R
        BY <1>1, <2>1, <2>3
      <4>2. \A i : (s \ {x}) \ {i} = s \ {x, i} OBVIOUS
      <4>. QED BY <4>1, <4>2
    <3>2. CASE <<i, x>> \in R
      <4>1. \A j \in s \ {i} : <<i, j>> \in R BY <3>1, <3>2
      <4>. QED BY <3>1, <4>1
    <3>3. CASE <<x, i>> \in R
      <4>1. \A j \in s \ {x} : <<x, j>> \in R
        BY <2>1, <3>1, <3>3 DEF InOrder
      <4>. QED BY <2>1, <4>1
    <3>4. <<i, x>> \in R \/ <<x, i>> \in R BY <2>1, <3>1 DEF InOrder
    <3>. QED BY <3>2, <3>3, <3>4
  <2>. QED BY <2>2, <2>3
<1>2. \A s \in SUBSET S : s \in Good
  <2>. HIDE DEF Good
  <2>. QED BY <1>1, SubsetInduction
<1>. QED BY <1>2

\* Who comes before has the smaller place.
LEMMA PlacesGrow ==
    ASSUME NEW S, IsFiniteSet(S), NEW R, InOrder(R, S), NEW x \in S, NEW y \in S, <<x, y>> \in R
    PROVE  Place(R, S, x) \in Nat /\ Place(R, S, y) \in Nat /\ Place(R, S, x) < Place(R, S, y)
<1>. DEFINE B == Before(R, S, x)
            C == Before(R, S, y)
<1>1. /\ IsFiniteSet(B) /\ IsFiniteSet(C)
      /\ Cardinality(B) \in Nat /\ Cardinality(C) \in Nat
  <2>1. B \in SUBSET S /\ C \in SUBSET S BY DEF Before
  <2>. QED BY <2>1, FS_Subset, FS_CardinalityType
<1>2. B \in SUBSET C /\ x \in C /\ x \notin B BY DEF Before, InOrder
<1>3. Cardinality(B) <= Cardinality(C) /\ Cardinality(B) # Cardinality(C)
  <2>. HIDE DEF B, C
  <2>. QED BY <1>1, <1>2, FS_Subset
<1>. QED BY <1>1, <1>3 DEF Place

\* The places are numbered from one, without a gap and without a place for two.
LEMMA PlacesAreNumbered ==
    ASSUME NEW S, IsFiniteSet(S), NEW R, InOrder(R, S)
    PROVE  /\ Cardinality(S) \in Nat
           /\ \A x \in S : Place(R, S, x) \in 1 .. Cardinality(S)
           /\ \A x, y \in S : Place(R, S, x) = Place(R, S, y) => x = y
           /\ \A n \in 1 .. Cardinality(S) : \E x \in S : Place(R, S, x) = n
<1>. DEFINE N == Cardinality(S)
            f == [x \in S |-> Place(R, S, x)]
<1>1. N \in Nat BY FS_CardinalityType
<1>2. ASSUME NEW x \in S PROVE Place(R, S, x) \in 1 .. N
  <2>1. Before(R, S, x) \in SUBSET (S \ {x}) BY DEF Before, InOrder
  <2>2. IsFiniteSet(S \ {x}) /\ Cardinality(S \ {x}) = N - 1 BY FS_RemoveElement
  <2>3. /\ Cardinality(Before(R, S, x)) <= N - 1 /\ IsFiniteSet(Before(R, S, x))
    BY <2>1, <2>2, FS_Subset
  <2>4. Cardinality(Before(R, S, x)) \in Nat BY <2>3, FS_CardinalityType
  <2>. DEFINE c == Cardinality(Before(R, S, x))
  <2>5. c \in Nat /\ c <= N - 1 BY <2>3, <2>4
  <2>. HIDE DEF c, N
  <2>6. 1 + c \in 1 .. N BY <1>1, <2>5
  <2>. QED BY <2>6 DEF c, Place
<1>3. ASSUME NEW x \in S, NEW y \in S, Place(R, S, x) = Place(R, S, y), x # y PROVE FALSE
  <2>1. <<x, y>> \in R \/ <<y, x>> \in R BY <1>3 DEF InOrder
  <2>. DEFINE a == Place(R, S, x)
              b == Place(R, S, y)
  <2>2. a \in Nat /\ b \in Nat /\ (a < b \/ b < a) BY <2>1, PlacesGrow
  <2>3. a = b BY <1>3
  <2>. HIDE DEF a, b
  <2>. QED BY <2>2, <2>3
<1>4. f \in Injection(S, 1 .. N)
  <2>. HIDE DEF N
  <2>. QED BY <1>2, <1>3 DEF Injection, IsInjective
<1>5. IsFiniteSet(1 .. N) /\ Cardinality(1 .. N) = N
  <2>. HIDE DEF N
  <2>1. IsFiniteSet(1 .. N) /\ Cardinality(1 .. N) = IF 1 > N THEN 0 ELSE N - 1 + 1
    BY <1>1, FS_Interval
  <2>. QED BY <1>1, <2>1
<1>6. f \in Surjection(S, 1 .. N)
  <2>. HIDE DEF f
  <2>. QED BY <1>4, <1>5, FS_Injection
<1>7. \A n \in 1 .. N : \E x \in S : Place(R, S, x) = n
  <2>. HIDE DEF N
  <2>. QED BY <1>6 DEF Surjection
<1>. QED BY <1>1, <1>2, <1>3, <1>7
=============================================================================
