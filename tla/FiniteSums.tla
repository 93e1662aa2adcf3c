----------------------------- MODULE FiniteSums -----------------------------
(***************************************************************************)
(* Lemmas about SumFunctionOnSet(f, S), the sum of f[x] over a finite set  *)
(* S, which the ledgers of this project are built from.                    *)
(*                                                                         *)
(* Induction over a finite set is over the subsets that are members of a   *)
(* set Good, which stands for the predicate to be proved.                  *)
(***************************************************************************)
EXTENDS Integers, FiniteSets, FiniteSetsExt, Functions, FiniteSetTheorems, WellFoundedInduction, TLAPS

(* A non-empty set of finite sets has a member no other member is part of. *)
LEMMA SmallestSet ==
  ASSUME NEW S, IsFiniteSet(S), NEW TT, TT \subseteq SUBSET S, TT # {}
  PROVE  \E T \in TT : \A U \in TT : U \subseteq T => U = T
<1>1. IsWellFoundedOn(StrictSubsetOrdering(S), SUBSET S)
  BY FS_StrictSubsetOrderingWellFounded, FS_FiniteSubsetsOfFinite
<1>2. PICK T \in TT : \A U \in TT : ~ (<<U, T>> \in StrictSubsetOrdering(S))
  BY <1>1, WFMin
<1>3. \A U \in TT : <<U, T>> \in (SUBSET S) \X (SUBSET S)
  OBVIOUS
<1> QED BY <1>2, <1>3 DEF StrictSubsetOrdering

(* Good holds of a finite set if it holds of a set whenever it holds of    *)
(* every smaller one.                                                      *)
LEMMA StrongSubsetInduction ==
  ASSUME NEW S, IsFiniteSet(S), NEW Good,
         \A T \in SUBSET S : (\A U \in SUBSET T : U # T => U \in Good) => T \in Good
  PROVE  S \in Good
<1> DEFINE Bad == {T \in SUBSET S : T \notin Good}
<1> SUFFICES ASSUME Bad # {} PROVE FALSE
  OBVIOUS
<1>0. Bad \subseteq SUBSET S
  OBVIOUS
<1>1. PICK T \in Bad : \A U \in Bad : U \subseteq T => U = T
  <2> HIDE DEF Bad
  <2> QED BY <1>0, SmallestSet
<1> QED BY <1>1

(* Good holds of a finite set if it holds of the empty set and survives    *)
(* the addition of an element.                                             *)
LEMMA SubsetInduction ==
  ASSUME NEW S, IsFiniteSet(S), NEW Good, {} \in Good,
         \A T \in SUBSET S : T \in Good => \A x \in S \ T : T \cup {x} \in Good
  PROVE  S \in Good
<1> DEFINE Bad == {T \in SUBSET S : T \notin Good}
<1> SUFFICES ASSUME Bad # {} PROVE FALSE
  OBVIOUS
<1>0. Bad \subseteq SUBSET S
  OBVIOUS
<1>1. PICK T \in Bad : \A U \in Bad : U \subseteq T => U = T
  <2> HIDE DEF Bad
  <2> QED BY <1>0, SmallestSet
<1>2. PICK x \in T : TRUE
  OBVIOUS
<1>3. T \ {x} \in Good
  BY <1>1
<1>4. (T \ {x}) \cup {x} = T /\ x \in S \ (T \ {x}) /\ T \ {x} \in SUBSET S
  OBVIOUS
<1>5. (T \ {x}) \cup {x} \in Good
  BY <1>3, <1>4
<1> QED BY <1>4, <1>5

---------------------------------------------------------------------------
(* The recursion of a fold and the sum it defines                          *)

First(s) == CHOOSE x \in s : TRUE

(* g sums f over every subset of S, one element at a time.                 *)
Sums(f, S, g) ==
  g = [s \in SUBSET S |-> IF s = {} THEN 0 ELSE f[First(s)] + g[s \ {First(s)}]]

(* The element a choice takes from a set is in the set.                    *)
LEMMA FirstOfSet == ASSUME NEW s, s # {} PROVE First(s) \in s
BY DEF First

(* What such a function says of one subset.                                *)
LEMMA SumsAt ==
  ASSUME NEW f, NEW S, NEW g, Sums(f, S, g), NEW s \in SUBSET S
  PROVE  /\ s = {} => g[s] = 0
         /\ s # {} => g[s] = f[First(s)] + g[s \ {First(s)}]
BY DEF Sums

(* Two such functions agree wherever both are defined.                     *)
LEMMA SumsAgree ==
  ASSUME NEW f, NEW S, IsFiniteSet(S), NEW T, NEW g, NEW h,
         Sums(f, S, g), Sums(f, T, h)
  PROVE  \A s \in (SUBSET S) \cap (SUBSET T) : g[s] = h[s]
<1> DEFINE Bad == {s \in (SUBSET S) \cap (SUBSET T) : g[s] # h[s]}
<1> SUFFICES ASSUME Bad # {} PROVE FALSE
  OBVIOUS
<1>0. Bad \subseteq SUBSET S
  OBVIOUS
<1>1. PICK s \in Bad : \A t \in Bad : t \subseteq s => t = s
  <2> HIDE DEF Bad
  <2> QED BY <1>0, SmallestSet
<1>2. s # {}
  <2>1. s \in SUBSET S /\ s \in SUBSET T /\ g[s] # h[s]
    OBVIOUS
  <2> QED BY <2>1, SumsAt
<1>3. First(s) \in s
  BY <1>2, FirstOfSet
<1>4. g[s \ {First(s)}] = h[s \ {First(s)}]
  BY <1>1, <1>3
<1>5. g[s] = f[First(s)] + g[s \ {First(s)}] /\ h[s] = f[First(s)] + h[s \ {First(s)}]
  BY <1>2, SumsAt
<1> QED BY <1>4, <1>5

(* Over a finite set there is one.                                         *)
LEMMA SumsExist ==
  ASSUME NEW f, NEW S, IsFiniteSet(S)
  PROVE  \E g : Sums(f, S, g)
<1> DEFINE Bad == {T \in SUBSET S : ~ \E g : Sums(f, T, g)}
<1> SUFFICES ASSUME Bad # {} PROVE FALSE
  OBVIOUS
<1>0. Bad \subseteq SUBSET S
  OBVIOUS
<1>1. PICK T \in Bad : \A U \in Bad : U \subseteq T => U = T
  <2> HIDE DEF Bad
  <2> QED BY <1>0, SmallestSet
<1> DEFINE G(U) == CHOOSE g : Sums(f, U, g)
           h == [s \in SUBSET T |-> IF s = {} THEN 0
                                    ELSE f[First(s)] + G(s \ {First(s)})[s \ {First(s)}]]
<1>2. \A U \in SUBSET T : U # T => Sums(f, U, G(U))
  <2> SUFFICES ASSUME NEW U \in SUBSET T, U # T PROVE Sums(f, U, G(U))
    OBVIOUS
  <2>1. \E g : Sums(f, U, g)
    BY <1>1
  <2> QED BY <2>1
<1> HIDE DEF G
<1>3. \A s \in SUBSET T : s # {} => h[s] = f[First(s)] + h[s \ {First(s)}]
  <2> SUFFICES ASSUME NEW s \in SUBSET T, s # {}
               PROVE  h[s] = f[First(s)] + h[s \ {First(s)}]
    OBVIOUS
  <2> DEFINE t == s \ {First(s)}
  <2>1. First(s) \in s
    BY FirstOfSet
  <2>2. t \in SUBSET T /\ t # T
    BY <2>1
  <2>3. Sums(f, t, G(t))
    BY <1>2, <2>2
  <2>4. h[s] = f[First(s)] + G(t)[t]
    OBVIOUS
  <2>5. h[t] = G(t)[t]
    <3>1. CASE t = {}
      BY <3>1, <2>2, <2>3, SumsAt
    <3>2. CASE t # {}
      <4> DEFINE u == t \ {First(t)}
      <4>1. First(t) \in t
        BY <3>2, FirstOfSet
      <4>2. u \in SUBSET T /\ u # T /\ u \in SUBSET t
        BY <2>2, <4>1
      <4>3. Sums(f, u, G(u))
        BY <1>2, <4>2
      <4>4. IsFiniteSet(t)
        BY FS_Subset, <2>2
      <4>5. G(t)[u] = G(u)[u]
        BY <4>2, <4>3, <4>4, <2>3, SumsAgree
      <4>6. G(t)[t] = f[First(t)] + G(t)[u]
        <5> HIDE DEF t
        <5>1. t \in SUBSET t
          OBVIOUS
        <5> QED BY <5>1, <2>3, <3>2, SumsAt
      <4>7. h[t] = f[First(t)] + G(u)[u]
        BY <2>2, <3>2
      <4> QED BY <4>5, <4>6, <4>7
    <3> QED BY <3>1, <3>2
  <2> QED BY <2>4, <2>5
<1>4. h = [s \in SUBSET T |-> IF s = {} THEN 0 ELSE f[First(s)] + h[s \ {First(s)}]]
  BY <1>3
<1>5. Sums(f, T, h)
  BY <1>4 DEF Sums
<1> QED BY <1>5

(* The sum is the value of that function at the whole set.                 *)
LEMMA SumIs ==
  ASSUME NEW f, NEW S, IsFiniteSet(S)
  PROVE  \E g : Sums(f, S, g) /\ SumFunctionOnSet(f, S) = g[S]
<1> DEFINE g == CHOOSE iter : Sums(f, S, iter)
<1>1. Sums(f, S, g)
  BY SumsExist
<1>2. SumFunctionOnSet(f, S) = g[S]
  BY DEF SumFunctionOnSet, FoldFunctionOnSet, MapThenFoldSet, First, Sums
<1> QED BY <1>1, <1>2

---------------------------------------------------------------------------
(* Sums of integers                                                        *)

(* The sum over no elements is zero.                                       *)
LEMMA SumEmpty == \A f : SumFunctionOnSet(f, {}) = 0
<1> SUFFICES ASSUME NEW f PROVE SumFunctionOnSet(f, {}) = 0
  OBVIOUS
<1>1. IsFiniteSet({})
  BY FS_EmptySet
<1>2. PICK g : Sums(f, {}, g) /\ SumFunctionOnSet(f, {}) = g[{}]
  BY <1>1, SumIs
<1>3. g[{}] = 0
  BY <1>2, SumsAt
<1> QED BY <1>2, <1>3

(* The first element is added to the sum of the others.                    *)
LEMMA SumFirst ==
  ASSUME NEW f, NEW S, IsFiniteSet(S), S # {}
  PROVE  /\ First(S) \in S
         /\ SumFunctionOnSet(f, S) = f[First(S)] + SumFunctionOnSet(f, S \ {First(S)})
<1> DEFINE R == S \ {First(S)}
<1>1. First(S) \in S
  BY FirstOfSet
<1>2. IsFiniteSet(R)
  BY FS_Subset
<1>3. PICK g : Sums(f, S, g) /\ SumFunctionOnSet(f, S) = g[S]
  BY SumIs
<1>4. PICK h : Sums(f, R, h) /\ SumFunctionOnSet(f, R) = h[R]
  <2> HIDE DEF R
  <2> QED BY <1>2, SumIs
<1>5. g[S] = f[First(S)] + g[R]
  BY <1>3, SumsAt
<1>6. g[R] = h[R]
  <2>1. R \in (SUBSET S) \cap (SUBSET R)
    OBVIOUS
  <2> HIDE DEF R
  <2> QED BY <2>1, <1>3, <1>4, SumsAgree
<1> QED BY <1>1, <1>3, <1>4, <1>5, <1>6

(* A sum of integers is an integer.                                        *)
LEMMA SumInt ==
  ASSUME NEW S, IsFiniteSet(S), NEW f, \A x \in S : f[x] \in Int
  PROVE  SumFunctionOnSet(f, S) \in Int
<1> DEFINE Good == {T \in SUBSET S : SumFunctionOnSet(f, T) \in Int}
<1>1. ASSUME NEW T \in SUBSET S, \A U \in SUBSET T : U # T => U \in Good
      PROVE  T \in Good
  <2>1. CASE T = {}
    BY <2>1, SumEmpty
  <2>2. CASE T # {}
    <3>1. /\ First(T) \in T
          /\ SumFunctionOnSet(f, T) = f[First(T)] + SumFunctionOnSet(f, T \ {First(T)})
      BY <2>2, FS_Subset, SumFirst
    <3>2. SumFunctionOnSet(f, T \ {First(T)}) \in Int
      BY <1>1, <3>1
    <3> QED BY <3>1, <3>2
  <2> QED BY <2>1, <2>2
<1>2. S \in Good
  <2> HIDE DEF Good
  <2> QED BY <1>1, StrongSubsetInduction
<1> QED BY <1>2

(* Any element may be added last.                                          *)
LEMMA SumRemove ==
  ASSUME NEW S, IsFiniteSet(S), NEW f, \A y \in S : f[y] \in Int, NEW x \in S
  PROVE  SumFunctionOnSet(f, S) = f[x] + SumFunctionOnSet(f, S \ {x})
<1> DEFINE Splits(T) == \A y \in T : SumFunctionOnSet(f, T) = f[y] + SumFunctionOnSet(f, T \ {y})
           Good == {T \in SUBSET S : Splits(T)}
<1>1. ASSUME NEW T \in SUBSET S, \A U \in SUBSET T : U # T => U \in Good, NEW y \in T
      PROVE  SumFunctionOnSet(f, T) = f[y] + SumFunctionOnSet(f, T \ {y})
  <2> DEFINE z == First(T)
             R == (T \ {z}) \ {y}
             r == SumFunctionOnSet(f, R)
  <2>1. IsFiniteSet(T)
    BY FS_Subset
  <2>2. z \in T /\ SumFunctionOnSet(f, T) = f[z] + SumFunctionOnSet(f, T \ {z})
    BY <2>1, SumFirst
  <2> HIDE DEF z
  <2>3. CASE y = z
    BY <2>2, <2>3
  <2>4. CASE y # z
    <3>1. Splits(T \ {z}) /\ Splits(T \ {y})
      BY <1>1, <2>2
    <3>2. SumFunctionOnSet(f, T \ {z}) = f[y] + r
      BY <2>4, <3>1
    <3>3. (T \ {y}) \ {z} = R
      OBVIOUS
    <3>4. SumFunctionOnSet(f, T \ {y}) = f[z] + r
      BY <2>2, <2>4, <3>1, <3>3
    <3>5. r \in Int
      <4>1. IsFiniteSet(R) /\ \A t \in R : f[t] \in Int
        BY <2>1, FS_Subset
      <4> HIDE DEF R
      <4> QED BY <4>1, SumInt
    <3>6. f[y] \in Int /\ f[z] \in Int
      BY <2>2
    <3> HIDE DEF R, r, Splits, Good
    <3> QED BY <2>2, <3>2, <3>4, <3>5, <3>6
  <2> QED BY <2>3, <2>4
<1>2. S \in Good
  <2>1. \A T \in SUBSET S : (\A U \in SUBSET T : U # T => U \in Good) => T \in Good
    BY <1>1
  <2> HIDE DEF Good
  <2> QED BY <2>1, StrongSubsetInduction
<1> QED BY <1>2

(* One more element adds its own value to the sum.                         *)
LEMMA SumAdd ==
  ASSUME NEW S, IsFiniteSet(S), NEW x, x \notin S,
         NEW f, \A y \in S \cup {x} : f[y] \in Int
  PROVE  SumFunctionOnSet(f, S \cup {x}) = f[x] + SumFunctionOnSet(f, S)
<1>1. IsFiniteSet(S \cup {x})
  BY FS_AddElement
<1>2. (S \cup {x}) \ {x} = S
  OBVIOUS
<1>3. SumFunctionOnSet(f, S \cup {x}) = f[x] + SumFunctionOnSet(f, (S \cup {x}) \ {x})
  <2> DEFINE T == S \cup {x}
  <2>1. x \in T
    OBVIOUS
  <2> HIDE DEF T
  <2>2. IsFiniteSet(T) /\ \A y \in T : f[y] \in Int
    BY <1>1 DEF T
  <2> QED BY <2>1, <2>2, SumRemove DEF T
<1> QED BY <1>2, <1>3

(* The sum depends on the values at the set only.                          *)
LEMMA SumSame ==
  ASSUME NEW S, IsFiniteSet(S), NEW f, NEW g, \A x \in S : f[x] = g[x]
  PROVE  SumFunctionOnSet(f, S) = SumFunctionOnSet(g, S)
<1> DEFINE Good == {T \in SUBSET S : SumFunctionOnSet(f, T) = SumFunctionOnSet(g, T)}
<1>1. ASSUME NEW T \in SUBSET S, \A U \in SUBSET T : U # T => U \in Good
      PROVE  T \in Good
  <2>1. CASE T = {}
    BY <2>1, SumEmpty
  <2>2. CASE T # {}
    <3>1. /\ First(T) \in T
          /\ SumFunctionOnSet(f, T) = f[First(T)] + SumFunctionOnSet(f, T \ {First(T)})
          /\ SumFunctionOnSet(g, T) = g[First(T)] + SumFunctionOnSet(g, T \ {First(T)})
      BY <2>2, FS_Subset, SumFirst
    <3>2. SumFunctionOnSet(f, T \ {First(T)}) = SumFunctionOnSet(g, T \ {First(T)})
      BY <1>1, <3>1
    <3> QED BY <3>1, <3>2
  <2> QED BY <2>1, <2>2
<1>2. S \in Good
  <2> HIDE DEF Good
  <2> QED BY <1>1, StrongSubsetInduction
<1> QED BY <1>2

(* When one value changes, the sum changes by as much.                     *)
LEMMA SumChange ==
  ASSUME NEW S, IsFiniteSet(S), NEW x \in S,
         NEW f, \A y \in S : f[y] \in Int,
         NEW g, \A y \in S : g[y] \in Int,
         \A y \in S \ {x} : f[y] = g[y]
  PROVE  SumFunctionOnSet(g, S) = SumFunctionOnSet(f, S) + g[x] - f[x]
<1> DEFINE R == S \ {x}
<1>1. IsFiniteSet(R)
  BY FS_Subset
<1>2. SumFunctionOnSet(f, R) = SumFunctionOnSet(g, R)
  <2> \A y \in R : f[y] = g[y]
    OBVIOUS
  <2> HIDE DEF R
  <2> QED BY <1>1, SumSame
<1>3. SumFunctionOnSet(f, R) \in Int
  <2> \A y \in R : f[y] \in Int
    OBVIOUS
  <2> HIDE DEF R
  <2> QED BY <1>1, SumInt
<1>4. SumFunctionOnSet(f, S) = f[x] + SumFunctionOnSet(f, R)
  BY SumRemove
<1>5. SumFunctionOnSet(g, S) = g[x] + SumFunctionOnSet(g, R)
  BY SumRemove
<1> HIDE DEF R
<1> QED BY <1>2, <1>3, <1>4, <1>5

(* A sum of zeros is zero.                                                 *)
LEMMA SumZero ==
  ASSUME NEW S, IsFiniteSet(S), NEW f, \A x \in S : f[x] = 0
  PROVE  SumFunctionOnSet(f, S) = 0
<1> DEFINE Good == {T \in SUBSET S : SumFunctionOnSet(f, T) = 0}
<1>1. {} \in Good
  BY SumEmpty
<1>2. ASSUME NEW T \in SUBSET S, T \in Good, NEW x \in S \ T
      PROVE  T \cup {x} \in Good
  <2>1. SumFunctionOnSet(f, T \cup {x}) = f[x] + SumFunctionOnSet(f, T)
    <3>1. IsFiniteSet(T) /\ x \notin T /\ \A y \in T \cup {x} : f[y] \in Int
      BY FS_Subset
    <3> QED BY <3>1, SumAdd
  <2> QED BY <1>2, <2>1
<1>3. S \in Good
  <2> HIDE DEF Good
  <2> QED BY <1>1, <1>2, SubsetInduction
<1> QED BY <1>3

(* A sum of natural numbers is a natural number.                           *)
LEMMA SumNat ==
  ASSUME NEW S, IsFiniteSet(S), NEW f, \A x \in S : f[x] \in Nat
  PROVE  SumFunctionOnSet(f, S) \in Nat
<1> DEFINE Good == {T \in SUBSET S : SumFunctionOnSet(f, T) \in Nat}
<1>1. {} \in Good
  BY SumEmpty
<1>2. ASSUME NEW T \in SUBSET S, T \in Good, NEW x \in S \ T
      PROVE  T \cup {x} \in Good
  <2>1. SumFunctionOnSet(f, T \cup {x}) = f[x] + SumFunctionOnSet(f, T)
    <3>1. IsFiniteSet(T) /\ x \notin T /\ \A y \in T \cup {x} : f[y] \in Int
      BY FS_Subset
    <3> QED BY <3>1, SumAdd
  <2> QED BY <1>2, <2>1
<1>3. S \in Good
  <2> HIDE DEF Good
  <2> QED BY <1>1, <1>2, SubsetInduction
<1> QED BY <1>3

(* The sum of a sum of two functions.                                      *)
LEMMA SumPlus ==
  ASSUME NEW S, IsFiniteSet(S),
         NEW f, \A x \in S : f[x] \in Int,
         NEW g, \A x \in S : g[x] \in Int,
         NEW h, \A x \in S : h[x] = f[x] + g[x]
  PROVE  SumFunctionOnSet(h, S) = SumFunctionOnSet(f, S) + SumFunctionOnSet(g, S)
<1> DEFINE Good == {T \in SUBSET S :
             SumFunctionOnSet(h, T) = SumFunctionOnSet(f, T) + SumFunctionOnSet(g, T)}
<1>1. {} \in Good
  <2>1. SumFunctionOnSet(h, {}) = SumFunctionOnSet(f, {}) + SumFunctionOnSet(g, {})
    BY SumEmpty
  <2> QED BY <2>1
<1>2. ASSUME NEW T \in SUBSET S, T \in Good, NEW x \in S \ T
      PROVE  T \cup {x} \in Good
  <2>1. IsFiniteSet(T) /\ x \notin T
    BY FS_Subset
  <2>2. /\ SumFunctionOnSet(f, T \cup {x}) = f[x] + SumFunctionOnSet(f, T)
        /\ SumFunctionOnSet(g, T \cup {x}) = g[x] + SumFunctionOnSet(g, T)
        /\ SumFunctionOnSet(h, T \cup {x}) = h[x] + SumFunctionOnSet(h, T)
    <3>1. \A y \in T \cup {x} : f[y] \in Int /\ g[y] \in Int /\ h[y] \in Int
      OBVIOUS
    <3> QED BY <2>1, <3>1, SumAdd
  <2>3. SumFunctionOnSet(f, T) \in Int /\ SumFunctionOnSet(g, T) \in Int
    <3>1. \A y \in T : f[y] \in Int /\ g[y] \in Int
      OBVIOUS
    <3> QED BY <2>1, <3>1, SumInt
  <2>4. f[x] \in Int /\ g[x] \in Int /\ h[x] = f[x] + g[x]
    OBVIOUS
  <2>5. SumFunctionOnSet(h, T) = SumFunctionOnSet(f, T) + SumFunctionOnSet(g, T)
    BY <1>2
  <2>6. SumFunctionOnSet(h, T \cup {x})
          = SumFunctionOnSet(f, T \cup {x}) + SumFunctionOnSet(g, T \cup {x})
    <3> HIDE DEF Good
    <3> QED BY <2>2, <2>3, <2>4, <2>5
  <2> QED BY <2>6
<1>3. S \in Good
  <2> HIDE DEF Good
  <2> QED BY <1>1, <1>2, SubsetInduction
<1> QED BY <1>3

(* The sum over a set in two parts.                                        *)
LEMMA SumParts ==
  ASSUME NEW S, IsFiniteSet(S), NEW A, NEW B, A \cup B = S, A \cap B = {},
         NEW f, \A x \in S : f[x] \in Int
  PROVE  SumFunctionOnSet(f, S) = SumFunctionOnSet(f, A) + SumFunctionOnSet(f, B)
<1> DEFINE Good == {T \in SUBSET A :
             SumFunctionOnSet(f, T \cup B) = SumFunctionOnSet(f, T) + SumFunctionOnSet(f, B)}
<1>1. IsFiniteSet(A) /\ IsFiniteSet(B)
  BY FS_Subset
<1>2. SumFunctionOnSet(f, B) \in Int
  BY <1>1, SumInt
<1>3. {} \in Good
  <2>1. {} \cup B = B /\ SumFunctionOnSet(f, {}) = 0
    BY SumEmpty
  <2> QED BY <1>2, <2>1
<1>4. ASSUME NEW T \in SUBSET A, T \in Good, NEW x \in A \ T
      PROVE  T \cup {x} \in Good
  <2> DEFINE TB == T \cup B
  <2>1. IsFiniteSet(T) /\ IsFiniteSet(TB)
    BY <1>1, FS_Subset
  <2>2. SumFunctionOnSet(f, T \cup {x}) = f[x] + SumFunctionOnSet(f, T)
    BY <2>1, SumAdd
  <2>3. x \notin TB /\ \A y \in TB \cup {x} : f[y] \in Int
    OBVIOUS
  <2>4. SumFunctionOnSet(f, TB \cup {x}) = f[x] + SumFunctionOnSet(f, TB)
    <3> HIDE DEF TB
    <3> QED BY <2>1, <2>3, SumAdd
  <2>5. (T \cup {x}) \cup B = TB \cup {x}
    OBVIOUS
  <2>6. SumFunctionOnSet(f, T) \in Int /\ f[x] \in Int
    <3>1. \A y \in T : f[y] \in Int
      OBVIOUS
    <3> QED BY <2>1, <3>1, SumInt
  <2>7. SumFunctionOnSet(f, TB) = SumFunctionOnSet(f, T) + SumFunctionOnSet(f, B)
    BY <1>4
  <2>8. SumFunctionOnSet(f, (T \cup {x}) \cup B)
          = SumFunctionOnSet(f, T \cup {x}) + SumFunctionOnSet(f, B)
    <3> HIDE DEF TB, Good
    <3>1. SumFunctionOnSet(f, TB \cup {x})
            = SumFunctionOnSet(f, T \cup {x}) + SumFunctionOnSet(f, B)
      BY <1>2, <2>2, <2>4, <2>6, <2>7
    <3> QED BY <2>5, <3>1
  <2> QED BY <2>8
<1>5. A \in Good
  <2> HIDE DEF Good
  <2> QED BY <1>1, <1>3, <1>4, SubsetInduction
<1> QED BY <1>5

(* Terms that are zero may be left out.                                    *)
LEMMA SumOfNonZeros ==
  ASSUME NEW S, IsFiniteSet(S), NEW T, T \subseteq S,
         NEW f, \A x \in S : f[x] \in Int, \A x \in S \ T : f[x] = 0
  PROVE  SumFunctionOnSet(f, S) = SumFunctionOnSet(f, T)
<1> DEFINE R == S \ T
<1>1. IsFiniteSet(R) /\ IsFiniteSet(T) /\ T \cup R = S /\ T \cap R = {}
  BY FS_Subset
<1>2. SumFunctionOnSet(f, R) = 0
  <2> \A x \in R : f[x] = 0
    OBVIOUS
  <2> HIDE DEF R
  <2> QED BY <1>1, SumZero
<1>3. SumFunctionOnSet(f, S) = SumFunctionOnSet(f, T) + SumFunctionOnSet(f, R)
  <2> HIDE DEF R
  <2> QED BY <1>1, SumParts
<1>4. SumFunctionOnSet(f, T) \in Int
  BY <1>1, SumInt
<1> HIDE DEF R
<1> QED BY <1>2, <1>3, <1>4

(* A transfer from the members of B to those of A leaves the sum alone.    *)
LEMMA SumOfTransfer ==
  ASSUME NEW S, IsFiniteSet(S), NEW A, A \subseteq S, NEW B, B \subseteq S,
         NEW gain, \A x \in S : gain[x] \in Int, \A x \in S \ A : gain[x] = 0,
         NEW loss, \A x \in S : loss[x] \in Int, \A x \in S \ B : loss[x] = 0,
         SumFunctionOnSet(gain, A) = SumFunctionOnSet(loss, B),
         NEW f, \A x \in S : f[x] \in Int,
         NEW g, \A x \in S : g[x] = f[x] + (gain[x] - loss[x])
  PROVE  SumFunctionOnSet(g, S) = SumFunctionOnSet(f, S)
<1> DEFINE h == [x \in S |-> f[x] + gain[x]]
<1>1. SumFunctionOnSet(gain, S) = SumFunctionOnSet(loss, S)
  BY SumOfNonZeros
<1>2. SumFunctionOnSet(h, S) = SumFunctionOnSet(f, S) + SumFunctionOnSet(gain, S)
  <2> \A x \in S : h[x] = f[x] + gain[x]
    OBVIOUS
  <2> HIDE DEF h
  <2> QED BY SumPlus
<1>3. SumFunctionOnSet(h, S) = SumFunctionOnSet(g, S) + SumFunctionOnSet(loss, S)
  <2> \A x \in S : g[x] \in Int /\ h[x] = g[x] + loss[x]
    OBVIOUS
  <2> HIDE DEF h
  <2> QED BY SumPlus
<1>4. /\ SumFunctionOnSet(f, S) \in Int /\ SumFunctionOnSet(g, S) \in Int
      /\ SumFunctionOnSet(loss, S) \in Int
  <2> \A x \in S : g[x] \in Int
    OBVIOUS
  <2> QED BY SumInt
<1> HIDE DEF h
<1> QED BY <1>1, <1>2, <1>3, <1>4

(* No term of a sum of naturals exceeds it.                                *)
LEMMA SumMember ==
  ASSUME NEW S, IsFiniteSet(S), NEW f, \A y \in S : f[y] \in Nat, NEW x \in S
  PROVE  f[x] <= SumFunctionOnSet(f, S)
<1>1. SumFunctionOnSet(f, S) = f[x] + SumFunctionOnSet(f, S \ {x})
  BY SumRemove
<1>2. IsFiniteSet(S \ {x})
  BY FS_Subset
<1>3. SumFunctionOnSet(f, S \ {x}) \in Nat
  BY <1>2, SumNat
<1> QED BY <1>1, <1>3

---------------------------------------------------------------------------
(* The greatest and the least of a finite set of numbers.                  *)
LEMMA GreatestNumber ==
  ASSUME NEW S, IsFiniteSet(S), S \subseteq Int, S # {}
  PROVE  \E m \in S : \A x \in S : x <= m
<1> DEFINE Good == {T \in SUBSET S : T = {} \/ \E m \in T : \A x \in T : x <= m}
<1>1. {} \in Good
  OBVIOUS
<1>2. ASSUME NEW T \in SUBSET S, T \in Good, NEW y \in S \ T
      PROVE  T \cup {y} \in Good
  <2>1. CASE T = {}
    BY <2>1
  <2>2. CASE T # {}
    <3>1. PICK m \in T : \A x \in T : x <= m
      BY <1>2, <2>2
    <3>2. CASE y <= m
      <4>1. \A x \in T \cup {y} : x <= m
        BY <3>1, <3>2
      <4> QED BY <4>1
    <3>3. CASE ~ (y <= m)
      <4>1. \A x \in T \cup {y} : x <= y
        BY <3>1, <3>3
      <4> QED BY <4>1
    <3> QED BY <3>2, <3>3
  <2> QED BY <2>1, <2>2
<1>3. S \in Good
  <2> HIDE DEF Good
  <2> QED BY <1>1, <1>2, SubsetInduction
<1> QED BY <1>3

(* A finite set of integers that is not empty has a least element.         *)
LEMMA LeastNumber ==
  ASSUME NEW S, IsFiniteSet(S), S \subseteq Int, S # {}
  PROVE  \E m \in S : \A x \in S : m <= x
<1> DEFINE Good == {T \in SUBSET S : T = {} \/ \E m \in T : \A x \in T : m <= x}
<1>1. {} \in Good
  OBVIOUS
<1>2. ASSUME NEW T \in SUBSET S, T \in Good, NEW y \in S \ T
      PROVE  T \cup {y} \in Good
  <2>1. CASE T = {}
    BY <2>1
  <2>2. CASE T # {}
    <3>1. PICK m \in T : \A x \in T : m <= x
      BY <1>2, <2>2
    <3>2. CASE m <= y
      <4>1. \A x \in T \cup {y} : m <= x
        BY <3>1, <3>2
      <4> QED BY <4>1
    <3>3. CASE ~ (m <= y)
      <4>1. \A x \in T \cup {y} : y <= x
        BY <3>1, <3>3
      <4> QED BY <4>1
    <3> QED BY <3>2, <3>3
  <2> QED BY <2>1, <2>2
<1>3. S \in Good
  <2> HIDE DEF Good
  <2> QED BY <1>1, <1>2, SubsetInduction
<1> QED BY <1>3


---------------------------------------------------------------------------
(* A pool that is handed out in turn                                       *)

(* What one of them gets of what is left.                                  *)
Share(wanted, left) == IF left <= 0 THEN 0 ELSE IF wanted < left THEN wanted ELSE left

(* What a pool gives to S when the later numbers are served first.          *)
FromTheNewest(f, S, pool) ==
  [n \in S |-> Share(f[n], pool - SumFunctionOnSet(f, {s \in S : s > n}))]

(* Spreading an amount over the elements from the newest on spreads all of *)
(* it, or as much as they hold.                                            *)
LEMMA TotalFromTheNewest ==
  ASSUME NEW S, IsFiniteSet(S), S \subseteq Int, NEW pool \in Nat,
         NEW f, \A n \in S : f[n] \in Nat
  PROVE  SumFunctionOnSet(FromTheNewest(f, S, pool), S) = Share(SumFunctionOnSet(f, S), pool)
<1> DEFINE Good == {T \in SUBSET S : SumFunctionOnSet(FromTheNewest(f, T, pool), T)
                                       = Share(SumFunctionOnSet(f, T), pool)}
<1>1. ASSUME NEW T \in SUBSET S, \A U \in SUBSET T : U # T => U \in Good
      PROVE  T \in Good
  <2>1. CASE T = {}
    BY <2>1, SumEmpty DEF Share
  <2>2. CASE T # {}
    <3>1. IsFiniteSet(T) /\ T \subseteq Int
      BY FS_Subset
    <3>2. PICK z \in T : \A x \in T : z <= x
      BY <2>2, <3>1, LeastNumber
    <3> DEFINE R == T \ {z}
               g == FromTheNewest(f, T, pool)
               h == FromTheNewest(f, R, pool)
    <3>3. IsFiniteSet(R) /\ R \subseteq S /\ R \subseteq Int
      BY <3>1, FS_Subset
    <3>4. SumFunctionOnSet(h, R) = Share(SumFunctionOnSet(f, R), pool)
      BY <1>1
    <3>5. \A n \in R : g[n] = h[n]
      <4> SUFFICES ASSUME NEW n \in R PROVE g[n] = h[n]
        OBVIOUS
      <4>1. {s \in T : s > n} = {s \in R : s > n}
        BY <3>1, <3>2
      <4> QED BY <4>1 DEF FromTheNewest
    <3>6. g[z] = Share(f[z], pool - SumFunctionOnSet(f, R))
      <4>1. \A s \in T : s > z <=> s # z
        BY <3>1, <3>2
      <4>2. {s \in T : s > z} = R
        BY <4>1
      <4> QED BY <4>2 DEF FromTheNewest
    <3>7. SumFunctionOnSet(g, R) = SumFunctionOnSet(h, R)
      <4> HIDE DEF R, g, h
      <4> QED BY <3>3, <3>5, SumSame
    <3>8. SumFunctionOnSet(f, R) \in Nat
      <4>1. \A n \in R : f[n] \in Nat
        BY <3>3
      <4> HIDE DEF R
      <4> QED BY <3>3, <4>1, SumNat
    <3>9. SumFunctionOnSet(f, T) = f[z] + SumFunctionOnSet(f, R)
      <4>1. \A n \in T : f[n] \in Int
        OBVIOUS
      <4> QED BY <3>1, <4>1, SumRemove
    <3>10. \A n \in T : g[n] \in Int
      <4> SUFFICES ASSUME NEW n \in T PROVE g[n] \in Int
        OBVIOUS
      <4> DEFINE A == {s \in T : s > n}
      <4>1. IsFiniteSet(A) /\ \A x \in A : f[x] \in Int
        BY <3>1, FS_Subset
      <4>2. SumFunctionOnSet(f, A) \in Int
        <5> HIDE DEF A
        <5> QED BY <4>1, SumInt
      <4> QED BY <4>2 DEF FromTheNewest, Share
    <3>11. SumFunctionOnSet(g, T) = g[z] + SumFunctionOnSet(g, R)
      <4> HIDE DEF g
      <4> QED BY <3>1, <3>10, SumRemove
    <3>12. f[z] \in Nat
      OBVIOUS
    <3>13. SumFunctionOnSet(g, T) = Share(SumFunctionOnSet(f, T), pool)
      <4> HIDE DEF g, h, R
      <4> QED BY <3>4, <3>6, <3>7, <3>8, <3>9, <3>11, <3>12 DEF Share
    <3> QED BY <3>13
  <2> QED BY <2>1, <2>2
<1>2. S \in Good
  <2> HIDE DEF Good
  <2> QED BY <1>1, StrongSubsetInduction
<1> QED BY <1>2

(* What a pool gives to S when the earlier numbers are served first.        *)
FromTheOldest(f, S, pool) ==
  [n \in S |-> Share(f[n], pool - SumFunctionOnSet(f, {s \in S : s < n}))]

(* Spreading an amount over the elements from the oldest on spreads all of *)
(* it, or as much as they hold.                                            *)
LEMMA TotalFromTheOldest ==
  ASSUME NEW S, IsFiniteSet(S), S \subseteq Int, NEW pool \in Nat,
         NEW f, \A n \in S : f[n] \in Nat
  PROVE  SumFunctionOnSet(FromTheOldest(f, S, pool), S) = Share(SumFunctionOnSet(f, S), pool)
<1> DEFINE Good == {T \in SUBSET S : SumFunctionOnSet(FromTheOldest(f, T, pool), T)
                                       = Share(SumFunctionOnSet(f, T), pool)}
<1>1. ASSUME NEW T \in SUBSET S, \A U \in SUBSET T : U # T => U \in Good
      PROVE  T \in Good
  <2>1. CASE T = {}
    BY <2>1, SumEmpty DEF Share
  <2>2. CASE T # {}
    <3>1. IsFiniteSet(T) /\ T \subseteq Int
      BY FS_Subset
    <3>2. PICK z \in T : \A x \in T : x <= z
      BY <2>2, <3>1, GreatestNumber
    <3> DEFINE R == T \ {z}
               g == FromTheOldest(f, T, pool)
               h == FromTheOldest(f, R, pool)
    <3>3. IsFiniteSet(R) /\ R \subseteq S /\ R \subseteq Int
      BY <3>1, FS_Subset
    <3>4. SumFunctionOnSet(h, R) = Share(SumFunctionOnSet(f, R), pool)
      BY <1>1
    <3>5. \A n \in R : g[n] = h[n]
      <4> SUFFICES ASSUME NEW n \in R PROVE g[n] = h[n]
        OBVIOUS
      <4>1. {s \in T : s < n} = {s \in R : s < n}
        BY <3>1, <3>2
      <4> QED BY <4>1 DEF FromTheOldest
    <3>6. g[z] = Share(f[z], pool - SumFunctionOnSet(f, R))
      <4>1. \A s \in T : s < z <=> s # z
        BY <3>1, <3>2
      <4>2. {s \in T : s < z} = R
        BY <4>1
      <4> QED BY <4>2 DEF FromTheOldest
    <3>7. SumFunctionOnSet(g, R) = SumFunctionOnSet(h, R)
      <4> HIDE DEF R, g, h
      <4> QED BY <3>3, <3>5, SumSame
    <3>8. SumFunctionOnSet(f, R) \in Nat
      <4>1. \A n \in R : f[n] \in Nat
        BY <3>3
      <4> HIDE DEF R
      <4> QED BY <3>3, <4>1, SumNat
    <3>9. SumFunctionOnSet(f, T) = f[z] + SumFunctionOnSet(f, R)
      <4>1. \A n \in T : f[n] \in Int
        OBVIOUS
      <4> QED BY <3>1, <4>1, SumRemove
    <3>10. \A n \in T : g[n] \in Int
      <4> SUFFICES ASSUME NEW n \in T PROVE g[n] \in Int
        OBVIOUS
      <4> DEFINE A == {s \in T : s < n}
      <4>1. IsFiniteSet(A) /\ \A x \in A : f[x] \in Int
        BY <3>1, FS_Subset
      <4>2. SumFunctionOnSet(f, A) \in Int
        <5> HIDE DEF A
        <5> QED BY <4>1, SumInt
      <4> QED BY <4>2 DEF FromTheOldest, Share
    <3>11. SumFunctionOnSet(g, T) = g[z] + SumFunctionOnSet(g, R)
      <4> HIDE DEF g
      <4> QED BY <3>1, <3>10, SumRemove
    <3>12. f[z] \in Nat
      OBVIOUS
    <3>13. SumFunctionOnSet(g, T) = Share(SumFunctionOnSet(f, T), pool)
      <4> HIDE DEF g, h, R
      <4> QED BY <3>4, <3>6, <3>7, <3>8, <3>9, <3>11, <3>12 DEF Share
    <3> QED BY <3>13
  <2> QED BY <2>1, <2>2
<1>2. S \in Good
  <2> HIDE DEF Good
  <2> QED BY <1>1, StrongSubsetInduction
<1> QED BY <1>2

---------------------------------------------------------------------------
(* Folds in general                                                        *)

(* g folds every subset of S with t, from b on, c[s] being the last of s.   *)
Folding(b, c, t, S, g) ==
  \A s \in SUBSET S : IF s = {} THEN g[s] = b ELSE g[s] = t[c[s]][g[s \ {c[s]}]]

(* Two foldings of the same set with the same choice of elements agree on  *)
(* every subset.                                                           *)
LEMMA FoldingsAgree ==
  ASSUME NEW b, NEW c, NEW t, NEW S, IsFiniteSet(S), NEW T, NEW g, NEW h,
         \A s \in SUBSET S : s # {} => c[s] \in s,
         Folding(b, c, t, S, g), Folding(b, c, t, T, h)
  PROVE  \A s \in (SUBSET S) \cap (SUBSET T) : g[s] = h[s]
<1> DEFINE Bad == {s \in (SUBSET S) \cap (SUBSET T) : g[s] # h[s]}
<1> SUFFICES ASSUME Bad # {} PROVE FALSE
  OBVIOUS
<1>0. Bad \subseteq SUBSET S
  OBVIOUS
<1>a. \A s \in SUBSET S : IF s = {} THEN g[s] = b ELSE g[s] = t[c[s]][g[s \ {c[s]}]]
  BY DEF Folding
<1>b. \A s \in SUBSET T : IF s = {} THEN h[s] = b ELSE h[s] = t[c[s]][h[s \ {c[s]}]]
  BY DEF Folding
<1>1. PICK s \in Bad : \A r \in Bad : r \subseteq s => r = s
  <2> HIDE DEF Bad
  <2> QED BY <1>0, SmallestSet
<1>2. s # {}
  BY <1>a, <1>b
<1>3. c[s] \in s
  BY <1>2
<1>4. g[s \ {c[s]}] = h[s \ {c[s]}]
  BY <1>1, <1>3
<1>5. g[s] = t[c[s]][g[s \ {c[s]}]] /\ h[s] = t[c[s]][h[s \ {c[s]}]]
  BY <1>2, <1>a, <1>b
<1> QED BY <1>4, <1>5

(* A finite set has a folding.                                             *)
LEMMA FoldingExists ==
  ASSUME NEW b, NEW c, NEW t, NEW S, IsFiniteSet(S),
         \A s \in SUBSET S : s # {} => c[s] \in s
  PROVE  \E g : Folding(b, c, t, S, g)
<1> DEFINE Bad == {T \in SUBSET S : ~ \E g : Folding(b, c, t, T, g)}
<1> SUFFICES ASSUME Bad # {} PROVE FALSE
  OBVIOUS
<1>0. Bad \subseteq SUBSET S
  OBVIOUS
<1>1. PICK T \in Bad : \A U \in Bad : U \subseteq T => U = T
  <2> HIDE DEF Bad
  <2> QED BY <1>0, SmallestSet
<1> DEFINE G(U) == CHOOSE g : Folding(b, c, t, U, g)
           h == [s \in SUBSET T |-> IF s = {} THEN b
                                    ELSE t[c[s]][G(s \ {c[s]})[s \ {c[s]}]]]
<1>2. \A U \in SUBSET T : U # T => Folding(b, c, t, U, G(U))
  <2> SUFFICES ASSUME NEW U \in SUBSET T, U # T PROVE Folding(b, c, t, U, G(U))
    OBVIOUS
  <2>1. \E g : Folding(b, c, t, U, g)
    BY <1>1
  <2> QED BY <2>1
<1> HIDE DEF G
<1>3. \A s \in SUBSET T : s # {} => h[s] = t[c[s]][h[s \ {c[s]}]]
  <2> SUFFICES ASSUME NEW s \in SUBSET T, s # {}
               PROVE  h[s] = t[c[s]][h[s \ {c[s]}]]
    OBVIOUS
  <2> DEFINE r == s \ {c[s]}
  <2>1. c[s] \in s
    OBVIOUS
  <2>2. r \in SUBSET T /\ r # T
    BY <2>1
  <2>3. Folding(b, c, t, r, G(r))
    BY <1>2, <2>2
  <2>4. h[s] = t[c[s]][G(r)[r]]
    OBVIOUS
  <2>5. h[r] = G(r)[r]
    <3>a. r \in SUBSET r
      OBVIOUS
    <3>b. IF r = {} THEN G(r)[r] = b ELSE G(r)[r] = t[c[r]][G(r)[r \ {c[r]}]]
      <4> HIDE DEF r
      <4> QED BY <2>3, <3>a DEF Folding
    <3>1. CASE r = {}
      BY <3>1, <2>2, <3>b
    <3>2. CASE r # {}
      <4> DEFINE u == r \ {c[r]}
      <4>1. c[r] \in r
        BY <2>2, <3>2
      <4>2. u \in SUBSET T /\ u # T /\ u \in SUBSET r
        BY <2>2, <4>1
      <4>3. Folding(b, c, t, u, G(u))
        BY <1>2, <4>2
      <4>4. IsFiniteSet(r) /\ \A v \in SUBSET r : v # {} => c[v] \in v
        BY FS_Subset, <2>2
      <4>5. G(r)[u] = G(u)[u]
        <5>1. u \in (SUBSET r) \cap (SUBSET u)
          BY <4>2
        <5> HIDE DEF r, u
        <5> QED BY <4>3, <4>4, <5>1, <2>3, FoldingsAgree
      <4>6. G(r)[r] = t[c[r]][G(r)[u]]
        BY <3>2, <3>b
      <4>7. h[r] = t[c[r]][G(u)[u]]
        BY <2>2, <3>2
      <4> QED BY <4>5, <4>6, <4>7
    <3> QED BY <3>1, <3>2
  <2> QED BY <2>4, <2>5
<1>4. h = [s \in SUBSET T |-> IF s = {} THEN b ELSE t[c[s]][h[s \ {c[s]}]]]
  BY <1>3
<1>5. Folding(b, c, t, T, h)
  BY <1>4 DEF Folding
<1> QED BY <1>5

(* A fold with a step that stays in V stays in V.                          *)
LEMMA FoldingStays ==
  ASSUME NEW b, NEW c, NEW t, NEW S, IsFiniteSet(S), NEW V, b \in V,
         \A s \in SUBSET S : s # {} => c[s] \in s,
         \A x \in S, v \in V : t[x][v] \in V,
         NEW g, Folding(b, c, t, S, g)
  PROVE  \A s \in SUBSET S : g[s] \in V
<1> DEFINE Bad == {s \in SUBSET S : g[s] \notin V}
<1> SUFFICES ASSUME Bad # {} PROVE FALSE
  OBVIOUS
<1>0. Bad \subseteq SUBSET S
  OBVIOUS
<1>1. PICK s \in Bad : \A r \in Bad : r \subseteq s => r = s
  <2> HIDE DEF Bad
  <2> QED BY <1>0, SmallestSet
<1>a. \A r \in SUBSET S : IF r = {} THEN g[r] = b ELSE g[r] = t[c[r]][g[r \ {c[r]}]]
  BY DEF Folding
<1>2. s # {}
  BY <1>a
<1>3. c[s] \in s
  BY <1>2
<1>4. g[s \ {c[s]}] \in V
  BY <1>1, <1>3
<1>5. g[s] = t[c[s]][g[s \ {c[s]}]]
  BY <1>2, <1>a
<1> QED BY <1>3, <1>4, <1>5

---------------------------------------------------------------------------
(* Folds over a sequence                                                   *)

(* Good holds of every number up to N if it holds of 0 and is handed on.   *)
LEMMA CountUp ==
  ASSUME NEW N \in Nat, NEW Good, 0 \in Good,
         \A n \in 0 .. N : n # N /\ n \in Good => n + 1 \in Good
  PROVE  \A n \in 0 .. N : n \in Good
<1> DEFINE Bad == {n \in 0 .. N : n \notin Good}
<1> SUFFICES ASSUME Bad # {} PROVE FALSE
  OBVIOUS
<1>1. IsFiniteSet(Bad) /\ Bad \subseteq Int
  <2>1. 0 \in Int /\ N \in Int
    OBVIOUS
  <2>2. IsFiniteSet(0 .. N)
    BY <2>1, FS_Interval
  <2>3. Bad \subseteq 0 .. N /\ 0 .. N \subseteq Int
    OBVIOUS
  <2> HIDE DEF Bad
  <2> QED BY <2>2, <2>3, FS_Subset
<1>2. PICK m \in Bad : \A x \in Bad : m <= x
  <2> HIDE DEF Bad
  <2> QED BY <1>1, LeastNumber
<1>3. m \in 1 .. N
  OBVIOUS
<1>4. m - 1 \in 0 .. N /\ m - 1 # N /\ m - 1 \notin Bad
  BY <1>2, <1>3
<1>5. m - 1 \in Good
  BY <1>4
<1>6. (m - 1) + 1 \in Good
  BY <1>4, <1>5
<1> QED BY <1>3, <1>6

(* The greatest of a finite set of integers is in the set.                 *)
LEMMA MaxIn ==
  ASSUME NEW s, IsFiniteSet(s), s \subseteq Int, s # {} PROVE Max(s) \in s
<1>1. \E m \in s : \A x \in s : x <= m
  BY GreatestNumber
<1>2. \E m \in s : \A x \in s : m >= x
  BY <1>1
<1> QED BY <1>2 DEF Max

(* The last of the places 1 to n, and the places before it.                *)
LEMMA LastPlace ==
  ASSUME NEW N \in Nat, NEW n \in 1 .. N
  PROVE  /\ Max(1 .. n) = n /\ (1 .. n) \ {n} = 1 .. (n - 1)
         /\ 1 .. n \in SUBSET (1 .. N) /\ 1 .. n # {} /\ n - 1 \in 0 .. N
<1>1. n \in 1 .. n /\ \A x \in 1 .. n : n >= x
  OBVIOUS
<1>2. \A m \in 1 .. n : (\A x \in 1 .. n : m >= x) => m = n
  OBVIOUS
<1>3. Max(1 .. n) = n
  BY <1>1, <1>2 DEF Max
<1>4. (1 .. n) \ {n} = 1 .. (n - 1)
  OBVIOUS
<1>5. \A x \in 1 .. n : x \in 1 .. N
  OBVIOUS
<1>6. n - 1 \in 0 .. N
  OBVIOUS
<1> QED BY <1>1, <1>3, <1>4, <1>5, <1>6

(* g folds every set of places of a sequence of length N, latest last.     *)
FoldsPlaces(g, N, V, b, t) ==
  \A s \in SUBSET (1 .. N) :
    /\ g[s] \in V
    /\ IF s = {} THEN g[s] = b
       ELSE Max(s) \in s /\ g[s] = t[Max(s)][g[s \ {Max(s)}]]

(* Folding over the places of a sequence exists and stays in its range.    *)
LEMMA PlacesFold ==
  ASSUME NEW N \in Nat, NEW V, NEW b \in V, NEW t, \A i \in 1 .. N, v \in V : t[i][v] \in V
  PROVE  \E g : FoldsPlaces(g, N, V, b, t)
<1> DEFINE S == 1 .. N
           c == [s \in SUBSET S |-> Max(s)]
<1>1. IsFiniteSet(S) /\ S \subseteq Int
  <2>1. 1 \in Int /\ N \in Int
    OBVIOUS
  <2> QED BY <2>1, FS_Interval
<1>2. \A s \in SUBSET S : s # {} => Max(s) \in s
  <2> SUFFICES ASSUME NEW s \in SUBSET S, s # {} PROVE Max(s) \in s
    OBVIOUS
  <2> HIDE DEF S
  <2>1. IsFiniteSet(s) /\ s \subseteq Int
    BY <1>1, FS_Subset
  <2> QED BY <2>1, MaxIn
<1>3. \A s \in SUBSET S : s # {} => c[s] \in s
  BY <1>2
<1>4. PICK g : Folding(b, c, t, S, g)
  <2> HIDE DEF c, S
  <2> QED BY <1>1, <1>3, FoldingExists
<1>5. \A s \in SUBSET S : g[s] \in V
  <2>1. \A x \in S, v \in V : t[x][v] \in V
    OBVIOUS
  <2> HIDE DEF c, S
  <2> QED BY <1>1, <1>3, <1>4, <2>1, FoldingStays
<1>6. \A s \in SUBSET S : IF s = {} THEN g[s] = b
                          ELSE Max(s) \in s /\ g[s] = t[Max(s)][g[s \ {Max(s)}]]
  BY <1>2, <1>4 DEF Folding
<1> QED BY <1>5, <1>6 DEF FoldsPlaces
=============================================================================
