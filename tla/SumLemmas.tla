------------------------------- MODULE SumLemmas -------------------------------
(***************************************************************************)
(* Sums over finite sets as the specifications write them.  The library    *)
(* defines a sum by a walk through the set that takes out one element      *)
(* after another.  The walk exists for every finite set, by the least      *)
(* cardinality for which it would not, and the order of it is irrelevant.  *)
(***************************************************************************)
EXTENDS FiniteSetsExt, FiniteSetTheorems, WellFoundedInduction, TLAPS

Picked(s) == CHOOSE x \in s : TRUE

(* The walk through the sets of a collection that is closed under taking   *)
(* out the element picked.                                                 *)
WalkOf(f, g, collection) ==
  [s \in collection |-> IF s = {} THEN 0 ELSE f[Picked(s)] + g[s \ {Picked(s)}]]

Walk(f, S) == CHOOSE g : g = WalkOf(f, g, SUBSET S)

LEMMA SumIsAWalk == ASSUME NEW f, NEW S PROVE SumFunctionOnSet(f, S) = Walk(f, S)[S]
BY DEF SumFunctionOnSet, FoldFunctionOnSet, MapThenFoldSet, Walk, WalkOf, Picked

LEMMA MapSumIsASum ==
  ASSUME NEW f, NEW S PROVE MapThenSumSet(LAMBDA x : f[x], S) = SumFunctionOnSet(f, S)
BY DEF SumFunctionOnSet, FoldFunctionOnSet, MapThenSumSet

LEMMA NaturalsAreWellFounded ==
  IsWellFoundedOn({ss \in Nat \X Nat : ss[1] < ss[2]}, Nat)
<1>1. OpToRel(<, Nat) = {ss \in Nat \X Nat : ss[1] < ss[2]}
  BY DEF OpToRel
<1> QED BY <1>1, NatLessThanWellFounded

LEMMA LeastOf ==
  ASSUME NEW T \in SUBSET Nat, T # {}
  PROVE  \E x \in T : \A y \in T : x <= y
<1> DEFINE Before == {ss \in Nat \X Nat : ss[1] < ss[2]}
<1>1. PICK x \in T : \A y \in T : ~ (<<y, x>> \in Before)
  <2>1. IsWellFoundedOn(Before, Nat)
    BY NaturalsAreWellFounded
  <2> HIDE DEF Before
  <2> QED BY <2>1, WFMin
<1>2. ASSUME NEW y \in T PROVE x <= y
  <2>1. x \in Nat /\ y \in Nat /\ ~ (y < x)
    BY <1>1
  <2> QED BY <2>1
<1> QED BY <1>2

(* Subsets of at most n elements.                                          *)
Small(S, n) == {s \in SUBSET S : Cardinality(s) <= n}

LEMMA WalksAreLonger ==
  ASSUME NEW f, NEW S, IsFiniteSet(S), NEW n \in Nat,
         \E g : g = WalkOf(f, g, Small(S, n))
  PROVE  \E h : h = WalkOf(f, h, Small(S, n + 1))
<1>1. PICK g : g = WalkOf(f, g, Small(S, n))
  OBVIOUS
<1> DEFINE h == WalkOf(f, g, Small(S, n + 1))
<1>2. ASSUME NEW s \in Small(S, n + 1), s # {}
      PROVE  h[s \ {Picked(s)}] = g[s \ {Picked(s)}]
  <2> DEFINE t == s \ {Picked(s)}
  <2>1. Picked(s) \in s
    BY <1>2 DEF Picked
  <2>2. s \in SUBSET S /\ IsFiniteSet(s) /\ Cardinality(s) \in Nat /\ Cardinality(s) <= n + 1
    BY FS_Subset, FS_CardinalityType DEF Small
  <2>3. Cardinality(t) = Cardinality(s) - 1 /\ IsFiniteSet(t)
    BY <2>1, <2>2, FS_RemoveElement
  <2>4. t \in Small(S, n) /\ t \in Small(S, n + 1)
    BY <2>2, <2>3 DEF Small
  <2> HIDE DEF t
  <2>5. g[t] = IF t = {} THEN 0 ELSE f[Picked(t)] + g[t \ {Picked(t)}]
    BY <1>1, <2>4 DEF WalkOf
  <2>6. h[t] = IF t = {} THEN 0 ELSE f[Picked(t)] + g[t \ {Picked(t)}]
    BY <2>4 DEF WalkOf
  <2> QED BY <2>5, <2>6 DEF t
<1>3. h = WalkOf(f, h, Small(S, n + 1))
  <2>1. ASSUME NEW s \in Small(S, n + 1)
        PROVE  h[s] = IF s = {} THEN 0 ELSE f[Picked(s)] + h[s \ {Picked(s)}]
    <3>1. h[s] = IF s = {} THEN 0 ELSE f[Picked(s)] + g[s \ {Picked(s)}]
      BY DEF WalkOf
    <3> HIDE DEF h
    <3> QED BY <1>2, <3>1
  <2>2. h = [s \in Small(S, n + 1) |-> h[s]]
    BY DEF WalkOf
  <2> HIDE DEF h
  <2> QED BY <2>1, <2>2 DEF WalkOf
<1> QED BY <1>3

LEMMA WalksExist ==
  ASSUME NEW f, NEW S, IsFiniteSet(S)
  PROVE  Walk(f, S) = WalkOf(f, Walk(f, S), SUBSET S)
<1> DEFINE Bad == {n \in Nat : ~ \E g : g = WalkOf(f, g, Small(S, n))}
<1>1. \E g : g = WalkOf(f, g, Small(S, 0))
  <2> DEFINE g == [s \in Small(S, 0) |-> 0]
  <2>1. ASSUME NEW s \in Small(S, 0) PROVE s = {}
    <3>1. IsFiniteSet(s) /\ Cardinality(s) \in Nat /\ Cardinality(s) <= 0
      BY FS_Subset, FS_CardinalityType DEF Small
    <3> QED BY <3>1, FS_EmptySet
  <2>2. g = WalkOf(f, g, Small(S, 0))
    BY <2>1 DEF WalkOf
  <2> QED BY <2>2
<1>2. Bad = {}
  <2> SUFFICES ASSUME Bad # {} PROVE FALSE
    OBVIOUS
  <2>1. PICK n \in Bad : \A m \in Bad : n <= m
    BY LeastOf
  <2>2. n \in Nat \ {0}
    BY <1>1
  <2>3. n - 1 \in Nat /\ n - 1 \notin Bad /\ (n - 1) + 1 = n
    BY <2>1, <2>2
  <2>4. \E g : g = WalkOf(f, g, Small(S, n - 1))
    BY <2>3
  <2>5. \E g : g = WalkOf(f, g, Small(S, (n - 1) + 1))
    BY <2>3, <2>4, WalksAreLonger
  <2> QED BY <2>3, <2>5
<1>3. Cardinality(S) \in Nat /\ Small(S, Cardinality(S)) = SUBSET S
  <2>1. Cardinality(S) \in Nat /\ \A s \in SUBSET S : Cardinality(s) <= Cardinality(S)
    BY FS_Subset, FS_CardinalityType
  <2> QED BY <2>1 DEF Small
<1>4. \E g : g = WalkOf(f, g, SUBSET S)
  BY <1>2, <1>3
<1> QED BY <1>4 DEF Walk

(* A walk through a set without its picked element is one element shorter. *)
LEMMA Shorter ==
  ASSUME NEW s, IsFiniteSet(s), s # {}
  PROVE  /\ Picked(s) \in s /\ IsFiniteSet(s \ {Picked(s)})
         /\ Cardinality(s) \in Nat \ {0} /\ Cardinality(s \ {Picked(s)}) = Cardinality(s) - 1
         /\ Cardinality(s \ {Picked(s)}) \in Nat
<1>1. Picked(s) \in s
  BY DEF Picked
<1>2. /\ IsFiniteSet(s \ {Picked(s)}) /\ Cardinality(s \ {Picked(s)}) = Cardinality(s) - 1
      /\ Cardinality(s \ {Picked(s)}) \in Nat /\ Cardinality(s) \in Nat
  BY <1>1, FS_RemoveElement, FS_CardinalityType
<1> QED BY <1>1, <1>2

LEMMA WalksAgree ==
  ASSUME NEW f, NEW S, IsFiniteSet(S), NEW T, IsFiniteSet(T), NEW u \in SUBSET (S \cap T)
  PROVE  Walk(f, S)[u] = Walk(f, T)[u]
<1> DEFINE Bad == {n \in Nat : \E s \in SUBSET (S \cap T) :
                     Cardinality(s) = n /\ Walk(f, S)[s] # Walk(f, T)[s]}
<1>1. Bad = {}
  <2> SUFFICES ASSUME Bad # {} PROVE FALSE
    OBVIOUS
  <2>1. PICK n \in Bad : \A m \in Bad : n <= m
    BY LeastOf
  <2>2. PICK s \in SUBSET (S \cap T) : Cardinality(s) = n /\ Walk(f, S)[s] # Walk(f, T)[s]
    OBVIOUS
  <2>3. IsFiniteSet(s)
    BY FS_Subset
  <2>4. /\ Walk(f, S)[s] = IF s = {} THEN 0 ELSE f[Picked(s)] + Walk(f, S)[s \ {Picked(s)}]
        /\ Walk(f, T)[s] = IF s = {} THEN 0 ELSE f[Picked(s)] + Walk(f, T)[s \ {Picked(s)}]
    <3>1. Walk(f, S) = WalkOf(f, Walk(f, S), SUBSET S) /\ Walk(f, T) = WalkOf(f, Walk(f, T), SUBSET T)
      BY WalksExist
    <3>2. s \in SUBSET S /\ s \in SUBSET T
      OBVIOUS
    <3> QED BY <3>1, <3>2 DEF WalkOf
  <2>5. s # {}
    BY <2>2, <2>4
  <2> DEFINE t == s \ {Picked(s)}
  <2>6. Cardinality(t) \in Nat /\ Cardinality(t) < n
    <3>1. /\ Cardinality(s) \in Nat \ {0} /\ Cardinality(t) = Cardinality(s) - 1
      BY <2>3, <2>5, Shorter
    <3> QED BY <2>2, <3>1
  <2>7. Cardinality(t) \notin Bad
    <3> HIDE DEF Bad, t
    <3> QED BY <2>1, <2>2, <2>3, <2>6, FS_CardinalityType
  <2>8. t \in SUBSET (S \cap T)
    OBVIOUS
  <2> HIDE DEF t
  <2>9. Walk(f, S)[t] = Walk(f, T)[t]
    BY <2>6, <2>7, <2>8
  <2> QED BY <2>2, <2>4, <2>9 DEF t
<1>2. Cardinality(u) \in Nat
  BY FS_Subset, FS_CardinalityType
<1> QED BY <1>1, <1>2

(* The sum of a set that is not empty, by the element picked.              *)
LEMMA SumStep ==
  ASSUME NEW f, NEW S, IsFiniteSet(S), S # {}
  PROVE  SumFunctionOnSet(f, S) = f[Picked(S)] + SumFunctionOnSet(f, S \ {Picked(S)})
<1> DEFINE rest == S \ {Picked(S)}
<1>1. Walk(f, S) = WalkOf(f, Walk(f, S), SUBSET S)
  BY WalksExist
<1>2. Walk(f, S)[S] = f[Picked(S)] + Walk(f, S)[rest]
  BY <1>1 DEF WalkOf
<1>3. Walk(f, S)[rest] = Walk(f, rest)[rest]
  <2>1. IsFiniteSet(rest) /\ rest \in SUBSET (S \cap rest)
    BY Shorter
  <2> QED BY <2>1, WalksAgree
<1> QED BY <1>2, <1>3, SumIsAWalk

LEMMA SumOfNone == ASSUME NEW f PROVE SumFunctionOnSet(f, {}) = 0
<1>1. Walk(f, {}) = WalkOf(f, Walk(f, {}), SUBSET {})
  BY WalksExist, FS_EmptySet
<1> QED BY <1>1, SumIsAWalk DEF WalkOf

(* Sums of integers are integers; functions that agree have one sum.       *)
LEMMA SumsAgree ==
  ASSUME NEW f, NEW g, NEW S, IsFiniteSet(S), \A x \in S : f[x] \in Int /\ f[x] = g[x]
  PROVE  SumFunctionOnSet(f, S) \in Int /\ SumFunctionOnSet(f, S) = SumFunctionOnSet(g, S)
<1> DEFINE Good(s) == SumFunctionOnSet(f, s) \in Int /\ SumFunctionOnSet(f, s) = SumFunctionOnSet(g, s)
           Bad     == {n \in Nat : \E s \in SUBSET S : Cardinality(s) = n /\ ~Good(s)}
<1>1. Bad = {}
  <2> SUFFICES ASSUME Bad # {} PROVE FALSE
    OBVIOUS
  <2>1. PICK n \in Bad : \A m \in Bad : n <= m
    BY LeastOf
  <2>2. PICK s \in SUBSET S : Cardinality(s) = n /\ ~Good(s)
    OBVIOUS
  <2>3. IsFiniteSet(s)
    BY FS_Subset
  <2>4. s # {}
    BY <2>2, SumOfNone
  <2> DEFINE t == s \ {Picked(s)}
  <2>5. Picked(s) \in s /\ Cardinality(t) \in Nat /\ Cardinality(t) < n
    <3>1. Cardinality(s) \in Nat \ {0} /\ Cardinality(t) = Cardinality(s) - 1 /\ Picked(s) \in s
      BY <2>3, <2>4, Shorter
    <3> QED BY <2>2, <3>1
  <2>6. t \in SUBSET S
    OBVIOUS
  <2>7. /\ SumFunctionOnSet(f, s) = f[Picked(s)] + SumFunctionOnSet(f, t)
        /\ SumFunctionOnSet(g, s) = g[Picked(s)] + SumFunctionOnSet(g, t)
    BY <2>3, <2>4, SumStep
  <2> HIDE DEF t
  <2>8. Good(t)
    BY <2>1, <2>5, <2>6
  <2>9. f[Picked(s)] \in Int /\ f[Picked(s)] = g[Picked(s)]
    BY <2>5
  <2> QED BY <2>2, <2>7, <2>8, <2>9
<1>2. Cardinality(S) \in Nat
  BY FS_CardinalityType
<1> QED BY <1>1, <1>2

LEMMA SumIsAnInteger ==
  ASSUME NEW f, NEW S, IsFiniteSet(S), \A x \in S : f[x] \in Int
  PROVE  SumFunctionOnSet(f, S) \in Int
BY SumsAgree

(* Any element can be taken out first.                                     *)
LEMMA SumWithout ==
  ASSUME NEW f, NEW S, IsFiniteSet(S), \A x \in S : f[x] \in Int, NEW y \in S
  PROVE  SumFunctionOnSet(f, S) = f[y] + SumFunctionOnSet(f, S \ {y})
<1> DEFINE Good(s, z) == SumFunctionOnSet(f, s) = f[z] + SumFunctionOnSet(f, s \ {z})
           Bad        == {n \in Nat : \E s \in SUBSET S : Cardinality(s) = n /\ \E z \in s : ~Good(s, z)}
<1>1. Bad = {}
  <2> SUFFICES ASSUME Bad # {} PROVE FALSE
    OBVIOUS
  <2>1. PICK n \in Bad : \A m \in Bad : n <= m
    BY LeastOf
  <2>2. PICK s \in SUBSET S : Cardinality(s) = n /\ \E z \in s : ~Good(s, z)
    OBVIOUS
  <2>3. PICK z \in s : ~Good(s, z)
    BY <2>2
  <2>4. IsFiniteSet(s) /\ s # {}
    BY FS_Subset
  <2> DEFINE w == Picked(s)
             t == s \ {w}
             r == t \ {z}
  <2>5. w \in s /\ IsFiniteSet(t) /\ Cardinality(t) \in Nat /\ Cardinality(t) < n
    BY <2>2, <2>4, Shorter
  <2>6. SumFunctionOnSet(f, s) = f[w] + SumFunctionOnSet(f, t)
    BY <2>4, SumStep
  <2> HIDE DEF w
  <2>7. z # w
    BY <2>3, <2>6
  <2>8. z \in t /\ w \in s \ {z} /\ (s \ {z}) \ {w} = r
    BY <2>5, <2>7
  <2>9. SumFunctionOnSet(f, t) = f[z] + SumFunctionOnSet(f, r)
    <3>1. t \in SUBSET S /\ Cardinality(t) \notin Bad
      BY <2>1, <2>5
    <3> QED BY <2>5, <2>8, <3>1
  <2>10. SumFunctionOnSet(f, s \ {z}) = f[w] + SumFunctionOnSet(f, r)
    <3>1. /\ IsFiniteSet(s \ {z}) /\ Cardinality(s \ {z}) = Cardinality(s) - 1
          /\ Cardinality(s) \in Nat /\ Cardinality(s \ {z}) \in Nat
      BY <2>4, FS_RemoveElement, FS_CardinalityType
    <3>2. Cardinality(s \ {z}) < n /\ n \in Nat
      BY <2>2, <3>1
    <3>3. s \ {z} \in SUBSET S /\ Cardinality(s \ {z}) \notin Bad
      <4> HIDE DEF Bad
      <4> QED BY <2>1, <3>1, <3>2
    <3> DEFINE v == s \ {z}
    <3>4. v \in SUBSET S /\ Cardinality(v) \in Nat /\ Cardinality(v) \notin Bad /\ w \in v /\ v \ {w} = r
      BY <2>8, <3>1, <3>3
    <3> HIDE DEF v, r, t
    <3>5. Good(v, w)
      BY <3>4
    <3> QED BY <3>4, <3>5 DEF v
  <2>11. f[w] \in Int /\ f[z] \in Int /\ SumFunctionOnSet(f, r) \in Int
    <3>1. IsFiniteSet(r) /\ \A x \in r : f[x] \in Int
      BY <2>4, FS_Subset
    <3> HIDE DEF r
    <3> QED BY <2>5, <3>1, SumIsAnInteger
  <2> HIDE DEF r, t
  <2>12. Good(s, z)
    BY <2>6, <2>9, <2>10, <2>11
  <2> QED BY <2>3, <2>12
<1>2. Cardinality(S) \in Nat
  BY FS_CardinalityType
<1> QED BY <1>1, <1>2

LEMMA SumWith ==
  ASSUME NEW f, NEW S, IsFiniteSet(S), NEW y, y \notin S, \A x \in S \cup {y} : f[x] \in Int
  PROVE  SumFunctionOnSet(f, S \cup {y}) = f[y] + SumFunctionOnSet(f, S)
<1> DEFINE all == S \cup {y}
<1>1. IsFiniteSet(all) /\ y \in all /\ all \ {y} = S /\ \A x \in all : f[x] \in Int
  BY FS_AddElement
<1> HIDE DEF all
<1>2. SumFunctionOnSet(f, all) = f[y] + SumFunctionOnSet(f, all \ {y})
  BY <1>1, SumWithout
<1> QED BY <1>1, <1>2 DEF all

(* A constant is summed as often as there are elements.                    *)
LEMMA SumOfAConstant ==
  ASSUME NEW f, NEW S, IsFiniteSet(S), NEW k \in Int, \A x \in S : f[x] = k
  PROVE  SumFunctionOnSet(f, S) = k * Cardinality(S)
<1> DEFINE Good(s) == SumFunctionOnSet(f, s) = k * Cardinality(s)
           Bad     == {n \in Nat : \E s \in SUBSET S : Cardinality(s) = n /\ ~Good(s)}
<1>1. Bad = {}
  <2> SUFFICES ASSUME Bad # {} PROVE FALSE
    OBVIOUS
  <2>1. PICK n \in Bad : \A m \in Bad : n <= m
    BY LeastOf
  <2>2. PICK s \in SUBSET S : Cardinality(s) = n /\ ~Good(s)
    OBVIOUS
  <2>3. IsFiniteSet(s)
    BY FS_Subset
  <2>4. s # {}
    <3>1. Cardinality({}) = 0 /\ SumFunctionOnSet(f, {}) = 0 /\ k * 0 = 0
      BY SumOfNone, FS_EmptySet
    <3> QED BY <2>2, <3>1
  <2> DEFINE t == s \ {Picked(s)}
  <2>5. Picked(s) \in s /\ Cardinality(t) \in Nat /\ Cardinality(t) = n - 1
    BY <2>2, <2>3, <2>4, Shorter
  <2>6. t \in SUBSET S
    OBVIOUS
  <2>7. SumFunctionOnSet(f, s) = f[Picked(s)] + SumFunctionOnSet(f, t)
    BY <2>3, <2>4, SumStep
  <2> HIDE DEF t
  <2>8. Good(t)
    BY <2>1, <2>5, <2>6
  <2>9. SumFunctionOnSet(f, s) = k + k * (n - 1)
    BY <2>5, <2>7, <2>8
  <2>10. k + k * (n - 1) = k * n
    BY <2>5
  <2> QED BY <2>2, <2>9, <2>10
<1>2. Cardinality(S) \in Nat
  BY FS_CardinalityType
<1> QED BY <1>1, <1>2


LEMMA SumOfNothing ==
  ASSUME NEW f, NEW S, IsFiniteSet(S), \A x \in S : f[x] = 0
  PROVE  SumFunctionOnSet(f, S) = 0
<1>1. SumFunctionOnSet(f, S) = 0 * Cardinality(S)
  BY SumOfAConstant
<1>2. Cardinality(S) \in Nat
  BY FS_CardinalityType
<1> QED BY <1>1, <1>2

(* What is nothing can be left out of a sum.                               *)
LEMMA SumOfTheRest ==
  ASSUME NEW f, NEW g, NEW S, IsFiniteSet(S), NEW T \in SUBSET S,
         \A x \in T : f[x] \in Int /\ f[x] = g[x], \A x \in S \ T : g[x] = 0
  PROVE  SumFunctionOnSet(g, S) = SumFunctionOnSet(f, T)
<1> DEFINE Bad == {n \in Nat : \E s \in SUBSET (S \ T) :
                     Cardinality(s) = n /\ SumFunctionOnSet(g, T \cup s) # SumFunctionOnSet(f, T)}
<1>1. IsFiniteSet(T) /\ SumFunctionOnSet(f, T) \in Int /\ SumFunctionOnSet(f, T) = SumFunctionOnSet(g, T)
  <2>1. IsFiniteSet(T)
    BY FS_Subset
  <2> QED BY <2>1, SumsAgree
<1>2. Bad = {}
  <2> SUFFICES ASSUME Bad # {} PROVE FALSE
    OBVIOUS
  <2>1. PICK n \in Bad : \A m \in Bad : n <= m
    BY LeastOf
  <2>2. PICK s \in SUBSET (S \ T) : Cardinality(s) = n /\ SumFunctionOnSet(g, T \cup s) # SumFunctionOnSet(f, T)
    OBVIOUS
  <2>3. s # {}
    <3>1. s = {} => T \cup s = T
      OBVIOUS
    <3> QED BY <1>1, <2>2, <3>1
  <2>4. PICK z \in s : TRUE
    BY <2>3
  <2> DEFINE t == s \ {z}
             all == T \cup s
  <2>5. IsFiniteSet(s)
    BY FS_Subset
  <2>6. Cardinality(t) = n - 1 /\ Cardinality(t) \in Nat /\ n \in Nat
    BY <2>2, <2>4, <2>5, FS_RemoveElement, FS_CardinalityType
  <2>7. Cardinality(t) \notin Bad
    <3>1. ~ (n <= Cardinality(t))
      BY <2>6
    <3> HIDE DEF Bad, t
    <3> QED BY <2>1, <3>1
  <2>8. SumFunctionOnSet(g, T \cup t) = SumFunctionOnSet(f, T)
    <3>1. t \in SUBSET (S \ T)
      OBVIOUS
    <3> HIDE DEF t
    <3>2. SumFunctionOnSet(g, T \cup t) # SumFunctionOnSet(f, T) => Cardinality(t) \in Bad
      BY <2>6, <3>1
    <3> QED BY <2>7, <3>2
  <2>9. IsFiniteSet(all) /\ z \in all /\ all \ {z} = T \cup t /\ g[z] = 0 /\ \A x \in all : g[x] \in Int
    <3>1. IsFiniteSet(all)
      BY <1>1, <2>5, FS_Union
    <3>2. z \in S \ T
      BY <2>4
    <3>3. \A x \in all : g[x] \in Int
      OBVIOUS
    <3> QED BY <2>4, <3>1, <3>2, <3>3
  <2> HIDE DEF all, t
  <2>10. SumFunctionOnSet(g, all) = g[z] + SumFunctionOnSet(g, all \ {z})
    BY <2>9, SumWithout
  <2>11. SumFunctionOnSet(g, all) = SumFunctionOnSet(f, T)
    <3>1. SumFunctionOnSet(g, all \ {z}) = SumFunctionOnSet(f, T)
      BY <2>8, <2>9
    <3>2. SumFunctionOnSet(g, all) = 0 + SumFunctionOnSet(f, T)
      BY <2>9, <2>10, <3>1
    <3>3. SumFunctionOnSet(f, T) \in Int
      BY <1>1
    <3> QED BY ONLY <3>2, <3>3
  <2> QED BY <2>2, <2>11 DEF all
<1>3. Cardinality(S \ T) \in Nat /\ T \cup (S \ T) = S
  BY FS_Subset, FS_CardinalityType
<1> QED BY <1>2, <1>3

===============================================================================
