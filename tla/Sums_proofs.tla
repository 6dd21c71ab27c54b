---------------------------- MODULE Sums_proofs ----------------------------
(* What the sums of the models are: SumFunctionOnSet(f, S), a fold that    *)
(* takes the elements of S in the order of CHOOSE, does not depend on that *)
(* order, and changes by one term with one element.                        *)
(*                                                                         *)
(* Induction over finite sets is done with a least counterexample, for     *)
(* which the theorems about well-founded relations suffice.                *)
EXTENDS Integers, Sequences, Functions, FiniteSetsExt, FiniteSetTheorems, TLAPS

First(s) == CHOOSE x \in s : TRUE

IsFold(g, f, S) == g = [s \in SUBSET S |-> IF s = {} THEN 0
                                          ELSE f[First(s)] + g[s \ {First(s)}]]

LEMMA FirstIn == \A s : s # {} => First(s) \in s
BY DEF First

LEMMA SumIsFold ==
    ASSUME NEW f, NEW S
    PROVE  SumFunctionOnSet(f, S) = (CHOOSE g : IsFold(g, f, S))[S]
BY DEF SumFunctionOnSet, FoldFunctionOnSet, MapThenFoldSet, IsFold, First

(* Of a family of subsets of a finite set there is a least one. *)
LEMMA LeastSet ==
    ASSUME NEW S, IsFiniteSet(S), NEW F \in SUBSET (SUBSET S), F # {}
    PROVE  \E T \in F : \A U \in SUBSET T : U # T => U \notin F
<1> DEFINE R == StrictSubsetOrdering(S)
<1>1. IsWellFoundedOn(R, SUBSET S)
  BY FS_StrictSubsetOrderingWellFounded, FS_FiniteSubsetsOfFinite
<1>2. \A U, T \in SUBSET S : U \subseteq T /\ U # T => <<U, T>> \in R
  BY DEF StrictSubsetOrdering
<1> HIDE DEF R
<1>3. PICK T \in F : \A U \in F : ~ (<<U, T>> \in R)
  BY <1>1, WFMin
<1>4. T \in SUBSET S
  OBVIOUS
<1>5. ASSUME NEW U \in SUBSET T, U # T PROVE U \notin F
  <2>1. U \in SUBSET S /\ <<U, T>> \in R
    BY <1>2, <1>4, <1>5
  <2> QED
    BY <1>3, <2>1
<1> QED
  BY <1>5

-----------------------------------------------------------------------------
(* The sum of a set is the term of its first element and the sum of the    *)
(* rest.                                                                   *)
Unfolds(f, s) == SumFunctionOnSet(f, s) = f[First(s)] + SumFunctionOnSet(f, s \ {First(s)})

LEMMA FoldIs ==
    ASSUME NEW f, NEW S, \E g : IsFold(g, f, S)
    PROVE  \E g : IsFold(g, f, S) /\ SumFunctionOnSet(f, S) = g[S]
BY SumIsFold

LEMMA EmptySum == ASSUME NEW f PROVE SumFunctionOnSet(f, {}) = 0
<1> DEFINE g == [s \in SUBSET {} |-> 0]
<1>1. IsFold(g, f, {})
  BY DEF IsFold
<1>2. PICK h : IsFold(h, f, {}) /\ SumFunctionOnSet(f, {}) = h[{}]
  BY <1>1, FoldIs
<1> QED
  BY <1>2 DEF IsFold

LEMMA SumUnfolds ==
    ASSUME NEW f, NEW S, IsFiniteSet(S), S # {} PROVE Unfolds(f, S)
<1> DEFINE Bad == {T \in SUBSET S : T # {} /\ ~Unfolds(f, T)}
<1> SUFFICES ASSUME Bad # {} PROVE FALSE
  OBVIOUS
<1>1. PICK T \in Bad : \A U \in SUBSET T : U # T => U \notin Bad
  <2> HIDE DEF Bad
  <2>1. Bad \in SUBSET (SUBSET S)
    BY DEF Bad
  <2> QED
    BY <2>1, LeastSet
<1>2. /\ T \in SUBSET S /\ T # {} /\ ~Unfolds(f, T)
      /\ \A U \in SUBSET T : U # T /\ U # {} => Unfolds(f, U)
  BY <1>1
<1> HIDE DEF Bad
<1>3. First(T) \in T /\ \A s \in SUBSET T : s # {} => First(s) \in s
  BY <1>2, FirstIn
<1> DEFINE rest == T \ {First(T)}
           g == [s \in SUBSET T |-> IF s = T THEN f[First(T)] + SumFunctionOnSet(f, rest)
                                   ELSE SumFunctionOnSet(f, s)]
<1>4. IsFold(g, f, T)
  <2>1. \A s \in SUBSET T : s # {} => s \ {First(s)} \in SUBSET T /\ s \ {First(s)} # T
    BY <1>3
  <2>2. ASSUME NEW s \in SUBSET T
        PROVE  g[s] = IF s = {} THEN 0 ELSE f[First(s)] + g[s \ {First(s)}]
    <3>1. CASE s = {}
      BY <1>2, <3>1, EmptySum
    <3>2. CASE s = T
      BY <1>2, <2>1, <3>2
    <3>3. CASE s # {} /\ s # T
      <4>1. g[s] = SumFunctionOnSet(f, s) /\ Unfolds(f, s)
        BY <1>2, <3>3
      <4>2. g[s \ {First(s)}] = SumFunctionOnSet(f, s \ {First(s)})
        BY <2>1, <3>3
      <4> QED
        BY <3>3, <4>1, <4>2 DEF Unfolds
    <3> QED
      BY <3>1, <3>2, <3>3
  <2> QED
    BY <2>2 DEF IsFold
<1>5. PICK h : IsFold(h, f, T) /\ SumFunctionOnSet(f, T) = h[T]
  BY <1>4, FoldIs
<1> HIDE DEF g
<1>6. \A s \in SUBSET T : h[s] = IF s = {} THEN 0 ELSE f[First(s)] + h[s \ {First(s)}]
  BY <1>5 DEF IsFold
<1>7. \A s \in SUBSET T : s # T => h[s] = SumFunctionOnSet(f, s)
  <2> DEFINE Off == {s \in SUBSET T : s # T /\ h[s] # SumFunctionOnSet(f, s)}
  <2> SUFFICES ASSUME Off # {} PROVE FALSE
    OBVIOUS
  <2>1. IsFiniteSet(T)
    BY <1>2, FS_Subset
  <2>2. PICK s \in Off : \A U \in SUBSET s : U # s => U \notin Off
    <3> HIDE DEF Off
    <3>1. Off \in SUBSET (SUBSET T)
      BY DEF Off
    <3> QED
      BY <2>1, <3>1, LeastSet
  <2>3. s # {}
    BY <1>6, <2>2, EmptySum
  <2>4. /\ First(s) \in s /\ s \ {First(s)} \in SUBSET s /\ s \ {First(s)} # s
        /\ s \ {First(s)} # T
    BY <1>3, <2>2, <2>3
  <2>5. h[s \ {First(s)}] = SumFunctionOnSet(f, s \ {First(s)})
    BY <2>2, <2>4
  <2>6. Unfolds(f, s)
    BY <1>2, <2>2, <2>3
  <2> QED
    BY <1>6, <2>2, <2>3, <2>5, <2>6 DEF Unfolds
<1>8. rest \in SUBSET T /\ rest # T
  BY <1>3
<1>9. SumFunctionOnSet(f, T) = f[First(T)] + SumFunctionOnSet(f, rest)
  BY <1>2, <1>5, <1>6, <1>7, <1>8
<1> QED
  BY <1>2, <1>9 DEF Unfolds

-----------------------------------------------------------------------------
(* Sums of whole numbers. *)
Ints(f, S) == \A x \in S : f[x] \in Int

(* A sum of whole numbers is one. *)
LEMMA SumInt ==
    ASSUME NEW f, NEW S, IsFiniteSet(S), Ints(f, S) PROVE SumFunctionOnSet(f, S) \in Int
<1> DEFINE Bad == {T \in SUBSET S : SumFunctionOnSet(f, T) \notin Int}
<1> SUFFICES ASSUME Bad # {} PROVE FALSE
  OBVIOUS
<1>1. PICK T \in Bad : \A U \in SUBSET T : U # T => U \notin Bad
  <2> HIDE DEF Bad
  <2>1. Bad \in SUBSET (SUBSET S)
    BY DEF Bad
  <2> QED
    BY <2>1, LeastSet
<1>a. /\ T \in SUBSET S /\ SumFunctionOnSet(f, T) \notin Int
      /\ \A U \in SUBSET T : U # T => SumFunctionOnSet(f, U) \in Int
  BY <1>1
<1> HIDE DEF Bad
<1>2. T # {} /\ IsFiniteSet(T)
  <2>1. SumFunctionOnSet(f, {}) = 0
    BY EmptySum
  <2>S. SumFunctionOnSet(f, {}) \in Int
    BY <2>1
  <2>2. T # {}
    BY <1>a, <2>S, Zenon
  <2>3. IsFiniteSet(T)
    BY <1>a, FS_Subset
  <2> QED
    BY <2>2, <2>3
<1>3. /\ First(T) \in T /\ T \ {First(T)} \in SUBSET T /\ T \ {First(T)} # T
  BY <1>2, FirstIn
<1>4. SumFunctionOnSet(f, T \ {First(T)}) \in Int /\ f[First(T)] \in Int
  BY <1>a, <1>3 DEF Ints
<1>5. Unfolds(f, T)
  BY <1>2, SumUnfolds
<1> QED
  BY <1>a, <1>4, <1>5 DEF Unfolds

(* The sum depends on the terms of the set only. *)
LEMMA SumSame ==
    ASSUME NEW f, NEW g, NEW S, IsFiniteSet(S), \A x \in S : f[x] = g[x]
    PROVE  SumFunctionOnSet(f, S) = SumFunctionOnSet(g, S)
<1> DEFINE Bad == {T \in SUBSET S : SumFunctionOnSet(f, T) # SumFunctionOnSet(g, T)}
<1> SUFFICES ASSUME Bad # {} PROVE FALSE
  OBVIOUS
<1>1. PICK T \in Bad : \A U \in SUBSET T : U # T => U \notin Bad
  <2> HIDE DEF Bad
  <2>1. Bad \in SUBSET (SUBSET S)
    BY DEF Bad
  <2> QED
    BY <2>1, LeastSet
<1>2. T # {} /\ IsFiniteSet(T)
  BY <1>1, EmptySum, FS_Subset
<1>3. /\ First(T) \in T /\ T \ {First(T)} \in SUBSET T /\ T \ {First(T)} # T
  BY <1>2, FirstIn
<1>4. /\ SumFunctionOnSet(f, T \ {First(T)}) = SumFunctionOnSet(g, T \ {First(T)})
      /\ f[First(T)] = g[First(T)]
  BY <1>1, <1>3
<1>5. Unfolds(f, T) /\ Unfolds(g, T)
  BY <1>2, SumUnfolds
<1> QED
  BY <1>1, <1>4, <1>5 DEF Unfolds

(* Any element can be taken out, not only the first. *)
LEMMA SumRemove ==
    ASSUME NEW f, NEW S, IsFiniteSet(S), Ints(f, S), NEW x \in S
    PROVE  SumFunctionOnSet(f, S) = f[x] + SumFunctionOnSet(f, S \ {x})
<1> DEFINE Bad == {T \in SUBSET S : \E y \in T :
                      SumFunctionOnSet(f, T) # f[y] + SumFunctionOnSet(f, T \ {y})}
<1> SUFFICES ASSUME Bad # {} PROVE FALSE
  OBVIOUS
<1>1. PICK T \in Bad : \A U \in SUBSET T : U # T => U \notin Bad
  <2> HIDE DEF Bad
  <2>1. Bad \in SUBSET (SUBSET S)
    BY DEF Bad
  <2> QED
    BY <2>1, LeastSet
<1>2. PICK y \in T : SumFunctionOnSet(f, T) # f[y] + SumFunctionOnSet(f, T \ {y})
  BY <1>1
<1>3. /\ IsFiniteSet(T) /\ T \in SUBSET S
      /\ \A U \in SUBSET T : U # T => \A z \in U :
            SumFunctionOnSet(f, U) = f[z] + SumFunctionOnSet(f, U \ {z})
  BY <1>1, FS_Subset
<1> HIDE DEF Bad
<1> DEFINE z == First(T)
<1>4. z \in T /\ Unfolds(f, T)
  BY <1>2, <1>3, FirstIn, SumUnfolds
<1>5. z # y
  BY <1>2, <1>4 DEF Unfolds
<1> HIDE DEF z
<1>6. SumFunctionOnSet(f, T \ {z}) = f[y] + SumFunctionOnSet(f, (T \ {z}) \ {y})
  BY <1>3, <1>4, <1>5
<1>7. SumFunctionOnSet(f, T \ {y}) = f[z] + SumFunctionOnSet(f, (T \ {y}) \ {z})
  BY <1>2, <1>3, <1>4, <1>5
<1>8. (T \ {y}) \ {z} = (T \ {z}) \ {y}
  OBVIOUS
<1> DEFINE rest == (T \ {z}) \ {y}
<1>9. SumFunctionOnSet(f, rest) \in Int
  <2>1. rest \in SUBSET T /\ IsFiniteSet(rest) /\ Ints(f, rest)
    BY <1>3, FS_Subset DEF Ints
  <2> HIDE DEF rest
  <2> QED
    BY <2>1, SumInt
<1>10. SumFunctionOnSet(f, T) = f[z] + SumFunctionOnSet(f, T \ {z})
  BY <1>4 DEF Unfolds, z
<1>11. f[y] \in Int /\ f[z] \in Int
  BY <1>2, <1>3, <1>4 DEF Ints
<1>12. /\ SumFunctionOnSet(f, T \ {z}) = f[y] + SumFunctionOnSet(f, rest)
       /\ SumFunctionOnSet(f, T \ {y}) = f[z] + SumFunctionOnSet(f, rest)
  BY <1>6, <1>7, <1>8
<1> HIDE DEF rest
<1> QED
  BY <1>2, <1>9, <1>10, <1>11, <1>12

(* One element more, one term more. *)
LEMMA SumAdd ==
    ASSUME NEW f, NEW S, IsFiniteSet(S), NEW x, x \notin S, Ints(f, S \cup {x})
    PROVE  SumFunctionOnSet(f, S \cup {x}) = SumFunctionOnSet(f, S) + f[x]
<1>1. IsFiniteSet(S \cup {x}) /\ (S \cup {x}) \ {x} = S /\ Ints(f, S)
  BY FS_AddElement DEF Ints
<1>2. SumFunctionOnSet(f, S) \in Int /\ f[x] \in Int
  BY <1>1, SumInt DEF Ints
<1>3. SumFunctionOnSet(f, S \cup {x}) = f[x] + SumFunctionOnSet(f, (S \cup {x}) \ {x})
  BY <1>1, SumRemove
<1>4. SumFunctionOnSet(f, (S \cup {x}) \ {x}) = SumFunctionOnSet(f, S)
  BY <1>1
<1> QED
  BY <1>2, <1>3, <1>4

(* One term that changes. *)
LEMMA SumChange ==
    ASSUME NEW f, NEW g, NEW S, IsFiniteSet(S), Ints(f, S), NEW x \in S, g[x] \in Int,
           \A y \in S : y # x => g[y] = f[y]
    PROVE  SumFunctionOnSet(g, S) = SumFunctionOnSet(f, S) - f[x] + g[x]
<1>1. IsFiniteSet(S \ {x}) /\ Ints(f, S \ {x}) /\ Ints(g, S)
  BY FS_Subset DEF Ints
<1>2. SumFunctionOnSet(f, S) = f[x] + SumFunctionOnSet(f, S \ {x})
  BY SumRemove
<1>3. SumFunctionOnSet(g, S) = g[x] + SumFunctionOnSet(g, S \ {x})
  BY <1>1, SumRemove
<1>4. SumFunctionOnSet(f, S \ {x}) = SumFunctionOnSet(g, S \ {x})
  BY <1>1, SumSame
<1>5. SumFunctionOnSet(f, S \ {x}) \in Int /\ f[x] \in Int
  BY <1>1, SumInt DEF Ints
<1> QED
  BY <1>2, <1>3, <1>4, <1>5

(* Terms that are not negative make a sum that is not. *)
LEMMA SumNat ==
    ASSUME NEW f, NEW S, IsFiniteSet(S), \A x \in S : f[x] \in Nat
    PROVE  SumFunctionOnSet(f, S) \in Nat
<1> DEFINE Bad == {T \in SUBSET S : SumFunctionOnSet(f, T) \notin Nat}
<1> SUFFICES ASSUME Bad # {} PROVE FALSE
  OBVIOUS
<1>1. PICK T \in Bad : \A U \in SUBSET T : U # T => U \notin Bad
  <2> HIDE DEF Bad
  <2>1. Bad \in SUBSET (SUBSET S)
    BY DEF Bad
  <2> QED
    BY <2>1, LeastSet
<1>a. /\ T \in SUBSET S /\ SumFunctionOnSet(f, T) \notin Nat
      /\ \A U \in SUBSET T : U # T => SumFunctionOnSet(f, U) \in Nat
  BY <1>1
<1> HIDE DEF Bad
<1>2. T # {} /\ IsFiniteSet(T)
  <2>1. SumFunctionOnSet(f, {}) = 0
    BY EmptySum
  <2>S. SumFunctionOnSet(f, {}) \in Nat
    BY <2>1
  <2>2. T # {}
    BY <1>a, <2>S, Zenon
  <2>3. IsFiniteSet(T)
    BY <1>a, FS_Subset
  <2> QED
    BY <2>2, <2>3
<1>3. /\ First(T) \in T /\ T \ {First(T)} \in SUBSET T /\ T \ {First(T)} # T
  BY <1>2, FirstIn
<1>4. SumFunctionOnSet(f, T \ {First(T)}) \in Nat /\ f[First(T)] \in Nat
  BY <1>a, <1>3
<1>5. Unfolds(f, T)
  BY <1>2, SumUnfolds
<1> QED
  BY <1>a, <1>4, <1>5 DEF Unfolds

(* The terms of a part that are taken from the whole. *)
LEMMA SumSplit ==
    ASSUME NEW f, NEW S, IsFiniteSet(S), Ints(f, S), NEW P \in SUBSET S
    PROVE  SumFunctionOnSet(f, S) = SumFunctionOnSet(f, P) + SumFunctionOnSet(f, S \ P)
<1> DEFINE Bad == {T \in SUBSET P : SumFunctionOnSet(f, S)
                      # SumFunctionOnSet(f, T) + SumFunctionOnSet(f, S \ T)}
<1>s. /\ IsFiniteSet(P) /\ \A T \in SUBSET P : IsFiniteSet(T) /\ Ints(f, T)
      /\ \A T \in SUBSET S : IsFiniteSet(T) /\ Ints(f, T) /\ SumFunctionOnSet(f, T) \in Int
  BY FS_Subset, SumInt DEF Ints
<1> SUFFICES ASSUME Bad # {} PROVE FALSE
  OBVIOUS
<1>1. PICK T \in Bad : \A U \in SUBSET T : U # T => U \notin Bad
  <2> HIDE DEF Bad
  <2>1. Bad \in SUBSET (SUBSET P)
    BY DEF Bad
  <2> QED
    BY <1>s, <2>1, LeastSet
<1>2. T \in SUBSET P /\ T \in SUBSET S
  BY <1>1
<1>3. T # {}
  <2>1. S \ {} = S /\ SumFunctionOnSet(f, S) \in Int
    BY <1>s
  <2>2. SumFunctionOnSet(f, S) = SumFunctionOnSet(f, {}) + SumFunctionOnSet(f, S \ {})
    BY <2>1, EmptySum
  <2> QED
    BY <1>1, <2>2
<1>4. PICK x \in T : TRUE
  BY <1>3
<1> DEFINE U == T \ {x}
<1>5. SumFunctionOnSet(f, S) = SumFunctionOnSet(f, U) + SumFunctionOnSet(f, S \ U)
  BY <1>1, <1>4
<1>6. SumFunctionOnSet(f, T) = f[x] + SumFunctionOnSet(f, U)
  BY <1>2, <1>s, SumRemove
<1>7. SumFunctionOnSet(f, S \ U) = f[x] + SumFunctionOnSet(f, (S \ U) \ {x})
  <2>1. x \in S \ U /\ IsFiniteSet(S \ U) /\ Ints(f, S \ U)
    BY <1>2, <1>4, <1>s
  <2> HIDE DEF U
  <2> QED
    BY <2>1, SumRemove
<1>8. (S \ U) \ {x} = S \ T
  BY <1>2, <1>4
<1>9. /\ SumFunctionOnSet(f, U) \in Int /\ SumFunctionOnSet(f, S \ T) \in Int
      /\ f[x] \in Int
  BY <1>2, <1>s DEF Ints
<1>10. SumFunctionOnSet(f, S) # SumFunctionOnSet(f, T) + SumFunctionOnSet(f, S \ T)
  BY <1>1
<1>11. SumFunctionOnSet(f, S \ U) = f[x] + SumFunctionOnSet(f, S \ T)
  BY <1>7, <1>8
<1> HIDE DEF U, Bad
<1> QED
  BY <1>5, <1>6, <1>9, <1>10, <1>11

-----------------------------------------------------------------------------
(* The sum of a function, SumFunction(f), takes all of its domain. *)
LEMMA TotalEmpty == ASSUME NEW f, DOMAIN f = {} PROVE SumFunction(f) = 0
<1>1. SumFunctionOnSet(f, {}) = 0
  BY EmptySum
<1> QED
  BY <1>1 DEF SumFunction

LEMMA TotalInt ==
    ASSUME NEW f, IsFiniteSet(DOMAIN f), \A x \in DOMAIN f : f[x] \in Int
    PROVE  SumFunction(f) \in Int
BY SumInt DEF SumFunction, Ints

LEMMA TotalNat ==
    ASSUME NEW f, IsFiniteSet(DOMAIN f), \A x \in DOMAIN f : f[x] \in Nat
    PROVE  SumFunction(f) \in Nat
BY SumNat DEF SumFunction

(* Nothing but zeros sum to zero. *)
LEMMA TotalZero ==
    ASSUME NEW f, IsFiniteSet(DOMAIN f), \A x \in DOMAIN f : f[x] = 0
    PROVE  SumFunction(f) = 0
<1> DEFINE S == DOMAIN f
           Bad == {T \in SUBSET S : SumFunctionOnSet(f, T) # 0}
<1> SUFFICES ASSUME Bad # {} PROVE FALSE
  BY DEF SumFunction
<1>1. PICK T \in Bad : \A U \in SUBSET T : U # T => U \notin Bad
  <2> HIDE DEF Bad
  <2>1. Bad \in SUBSET (SUBSET S)
    BY DEF Bad
  <2> QED
    BY <2>1, LeastSet
<1>2. T \in SUBSET S /\ SumFunctionOnSet(f, T) # 0
  OBVIOUS
<1>3. T # {} /\ IsFiniteSet(T) /\ Ints(f, T)
  <2>1. SumFunctionOnSet(f, {}) = 0
    BY EmptySum
  <2>2. T # {}
    BY <1>2, <2>1, Zenon
  <2> QED
    BY <1>2, <2>2, FS_Subset DEF Ints
<1>4. PICK x \in T : TRUE
  BY <1>3
<1>5. T \ {x} \in SUBSET T /\ T \ {x} # T /\ T \ {x} \in SUBSET S
  BY <1>2, <1>4
<1>6. SumFunctionOnSet(f, T \ {x}) = 0
  BY <1>1, <1>5
<1>7. SumFunctionOnSet(f, T) = f[x] + SumFunctionOnSet(f, T \ {x})
  BY <1>3, <1>4, SumRemove
<1>8. f[x] = 0
  BY <1>2, <1>4
<1> QED
  BY <1>2, <1>6, <1>7, <1>8

(* A new element adds its term, whatever is summed. *)
LEMMA TotalAdd ==
    ASSUME NEW f, NEW g, NEW x, IsFiniteSet(DOMAIN f), x \notin DOMAIN f,
           DOMAIN g = DOMAIN f \cup {x}, \A y \in DOMAIN f : g[y] = f[y] /\ f[y] \in Int,
           g[x] \in Int
    PROVE  SumFunction(g) = SumFunction(f) + g[x] /\ SumFunction(f) \in Int
<1> DEFINE S == DOMAIN f
<1>1. SumFunctionOnSet(g, S \cup {x}) = SumFunctionOnSet(g, S) + g[x]
  BY SumAdd DEF Ints
<1>2. SumFunctionOnSet(g, S) = SumFunctionOnSet(f, S)
  BY SumSame
<1>3. SumFunction(f) \in Int
  BY TotalInt
<1> QED
  BY <1>1, <1>2, <1>3 DEF SumFunction

(* A term that changes changes the sum by the difference. *)
LEMMA TotalChange ==
    ASSUME NEW f, NEW g, NEW x \in DOMAIN f, IsFiniteSet(DOMAIN f), DOMAIN g = DOMAIN f,
           \A y \in DOMAIN f : f[y] \in Int, g[x] \in Int,
           \A y \in DOMAIN f : y # x => g[y] = f[y]
    PROVE  SumFunction(g) = SumFunction(f) - f[x] + g[x] /\ SumFunction(f) \in Int
<1> DEFINE S == DOMAIN f
<1>1. SumFunctionOnSet(g, S) = SumFunctionOnSet(f, S) - f[x] + g[x]
  BY SumChange DEF Ints
<1>2. SumFunction(f) \in Int
  BY TotalInt
<1> QED
  BY <1>1, <1>2 DEF SumFunction

(* A part and the rest make the whole. *)
LEMMA TotalSplit ==
    ASSUME NEW f, NEW g, NEW h, IsFiniteSet(DOMAIN f), \A y \in DOMAIN f : f[y] \in Int,
           DOMAIN g \in SUBSET (DOMAIN f), DOMAIN h = DOMAIN f \ DOMAIN g,
           \A y \in DOMAIN g : g[y] = f[y], \A y \in DOMAIN h : h[y] = f[y]
    PROVE  /\ SumFunction(f) = SumFunction(g) + SumFunction(h)
           /\ SumFunction(g) \in Int /\ SumFunction(h) \in Int
<1>1. IsFiniteSet(DOMAIN g) /\ IsFiniteSet(DOMAIN h)
  BY FS_Subset
<1>2. SumFunction(g) \in Int /\ SumFunction(h) \in Int
  BY <1>1, TotalInt
<1>3. SumFunctionOnSet(f, DOMAIN f)
         = SumFunctionOnSet(f, DOMAIN g) + SumFunctionOnSet(f, DOMAIN f \ DOMAIN g)
  BY SumSplit DEF Ints
<1>4. SumFunctionOnSet(f, DOMAIN g) = SumFunctionOnSet(g, DOMAIN g)
  BY <1>1, SumSame
<1>5. SumFunctionOnSet(f, DOMAIN h) = SumFunctionOnSet(h, DOMAIN h)
  BY <1>1, SumSame
<1> QED
  BY <1>2, <1>3, <1>4, <1>5 DEF SumFunction

(* g is f, with the term v for n if c holds. *)
Joined(S, T, n, c, f, g, v) ==
    /\ IsFiniteSet(S) /\ n \notin S /\ c \in BOOLEAN /\ v \in Int
    /\ T = IF c THEN S \cup {n} ELSE S
    /\ f = [x \in S |-> f[x]] /\ g = [x \in T |-> g[x]]
    /\ \A x \in S : g[x] = f[x] /\ f[x] \in Int
    /\ c => g[n] = v

LEMMA TotalJoined ==
    ASSUME NEW S, NEW T, NEW n, NEW c, NEW f, NEW g, NEW v, Joined(S, T, n, c, f, g, v)
    PROVE  SumFunction(g) = SumFunction(f) + (IF c THEN v ELSE 0) /\ SumFunction(f) \in Int
<1> USE DEF Joined
<1>1. SumFunction(f) \in Int
  BY TotalInt
<1>2. CASE c
  <2>1. DOMAIN f = S /\ DOMAIN g = S \cup {n} /\ g[n] = v
    BY <1>2
  <2> QED
    BY <1>1, <1>2, <2>1, TotalAdd
<1>3. CASE ~c
  <2>1. f = g
    BY <1>3
  <2> QED
    BY <1>1, <1>3, <2>1
<1> QED
  BY <1>2, <1>3

-----------------------------------------------------------------------------
(* Sequences of rows: a row more, a row replaced. *)
LEMMA Appended ==
    ASSUME NEW S, NEW s \in Seq(S), NEW x \in S
    PROVE  /\ Append(s, x) \in Seq(S) /\ Len(s) \in Nat /\ DOMAIN s = 1..Len(s)
           /\ DOMAIN Append(s, x) = DOMAIN s \cup {Len(s) + 1} /\ Len(s) + 1 \notin DOMAIN s
           /\ Append(s, x)[Len(s) + 1] = x /\ \A n \in DOMAIN s : Append(s, x)[n] = s[n]
<1>1. Len(s) \in Nat /\ DOMAIN s = 1..Len(s)
  OBVIOUS
<1>2. Append(s, x) \in Seq(S) /\ Len(Append(s, x)) = Len(s) + 1
  OBVIOUS
<1>3. DOMAIN Append(s, x) = 1..(Len(s) + 1)
  BY <1>2
<1>4. /\ Append(s, x)[Len(s) + 1] = x /\ \A n \in 1..Len(s) : Append(s, x)[n] = s[n]
  OBVIOUS
<1> QED
  BY <1>1, <1>2, <1>3, <1>4

LEMMA Rewritten ==
    ASSUME NEW S, NEW s \in Seq(S), NEW t, DOMAIN t = DOMAIN s, t = [n \in DOMAIN s |-> t[n]],
           \A n \in DOMAIN s : t[n] \in S
    PROVE  t \in Seq(S)
<1>1. Len(s) \in Nat /\ DOMAIN s = 1..Len(s)
  OBVIOUS
<1>2. t \in [1..Len(s) -> S]
  BY <1>1
<1> QED
  BY <1>1, <1>2

LEMMA SeqDomain ==
    ASSUME NEW S, NEW s \in Seq(S)
    PROVE  /\ DOMAIN s = 1..Len(s) /\ Len(s) \in Nat /\ IsFiniteSet(DOMAIN s)
           /\ \A n \in DOMAIN s : s[n] \in S
<1>1. DOMAIN s = 1..Len(s) /\ Len(s) \in Nat /\ \A n \in DOMAIN s : s[n] \in S
  OBVIOUS
<1>2. IsFiniteSet(1..Len(s))
  BY <1>1, FS_Interval
<1> QED
  BY <1>1, <1>2

-----------------------------------------------------------------------------
(* Finite sets of numbers, and sums. *)

(* The greatest and the least of a finite set of numbers. *)
LEMMA MaxIs ==
    ASSUME NEW S \in SUBSET Int, IsFiniteSet(S), S # {}
    PROVE  Max(S) \in S /\ \A x \in S : x <= Max(S)
<1> DEFINE Greatest(T) == \E x \in T : \A y \in T : x >= y
           Bad == {T \in SUBSET S : T # {} /\ ~Greatest(T)}
<1>1. Bad = {}
  <2> SUFFICES ASSUME Bad # {} PROVE FALSE
    OBVIOUS
  <2>1. PICK T \in Bad : \A U \in SUBSET T : U # T => U \notin Bad
    <3> HIDE DEF Bad
    <3>1. Bad \in SUBSET (SUBSET S)
      BY DEF Bad
    <3> QED
      BY <3>1, LeastSet
  <2>2. PICK x \in T : TRUE
    OBVIOUS
  <2>3. CASE T = {x}
    BY <2>3
  <2>4. CASE T # {x}
    <3>1. T \ {x} \in SUBSET T /\ T \ {x} # T /\ T \ {x} # {}
      BY <2>2, <2>4
    <3>2. Greatest(T \ {x})
      BY <2>1, <3>1
    <3>3. PICK m \in T \ {x} : \A y \in T \ {x} : m >= y
      BY <3>2
    <3>4. m \in Int /\ x \in Int /\ \A y \in T : y \in Int
      BY <2>2
    <3>5. (\A y \in T : m >= y) \/ (\A y \in T : x >= y)
      BY <3>3, <3>4
    <3> QED
      BY <2>2, <3>3, <3>5
  <2> QED
    BY <2>3, <2>4
<1>2. PICK m \in S : \A y \in S : m >= y
  BY <1>1
<1>3. Max(S) \in S /\ \A y \in S : Max(S) >= y
  BY <1>2 DEF Max
<1> QED
  BY <1>3

LEMMA MinIs ==
    ASSUME NEW S \in SUBSET Int, IsFiniteSet(S), S # {}
    PROVE  Min(S) \in S /\ \A x \in S : Min(S) <= x
<1> DEFINE T == {-x : x \in S}
<1>1. T \in SUBSET Int /\ T # {} /\ IsFiniteSet(T)
  <2> DEFINE neg == [x \in S |-> -x]
  <2>1. neg \in [S -> T] /\ \A y \in T : \E x \in S : neg[x] = y
    OBVIOUS
  <2>2. neg \in Surjection(S, T)
    <3> HIDE DEF neg, T
    <3> QED
      BY <2>1 DEF Surjection
  <2>3. IsFiniteSet(T)
    <3> HIDE DEF neg, T
    <3> QED
      BY <2>2, FS_Surjection
  <2>4. T \in SUBSET Int
    OBVIOUS
  <2>5. T # {}
    <3>1. PICK x \in S : TRUE
      OBVIOUS
    <3>2. -x \in T
      BY <3>1
    <3> QED
      BY <3>2
  <2> QED
    BY <2>3, <2>4, <2>5
<1>2. PICK m \in S : -m = Max(T)
  <2> HIDE DEF T
  <2>1. Max(T) \in T
    BY <1>1, MaxIs
  <2> QED
    BY <2>1 DEF T
<1>3. \A x \in S : -x <= -m
  <2>1. \A x \in T : x <= Max(T)
    <3> HIDE DEF T
    <3> QED
      BY <1>1, MaxIs
  <2> QED
    BY <1>2, <2>1
<1>4. \A x \in S : m <= x
  BY <1>3
<1>5. Min(S) \in S /\ \A x \in S : Min(S) <= x
  BY <1>2, <1>4 DEF Min
<1> QED
  BY <1>5

(* Sums that are added element by element. *)
LEMMA TotalPlus ==
    ASSUME NEW S, IsFiniteSet(S), NEW f, NEW g, NEW h,
           DOMAIN f = S, DOMAIN g = S, DOMAIN h = S,
           \A x \in S : f[x] \in Int /\ g[x] \in Int /\ h[x] = f[x] + g[x]
    PROVE  /\ SumFunction(h) = SumFunction(f) + SumFunction(g)
           /\ SumFunction(f) \in Int /\ SumFunction(g) \in Int
<1> DEFINE Total(e, T) == SumFunctionOnSet(e, T)
           Bad == {T \in SUBSET S : Total(h, T) # Total(f, T) + Total(g, T)}
<1>1. Bad = {}
  <2> SUFFICES ASSUME Bad # {} PROVE FALSE
    OBVIOUS
  <2>1. PICK T \in Bad : \A U \in SUBSET T : U # T => U \notin Bad
    <3> HIDE DEF Bad
    <3>1. Bad \in SUBSET (SUBSET S)
      BY DEF Bad
    <3> QED
      BY <3>1, LeastSet
  <2>2. IsFiniteSet(T) /\ T \in SUBSET S /\ Ints(f, T) /\ Ints(g, T) /\ Ints(h, T)
    BY FS_Subset DEF Ints
  <2>3. T # {}
    <3>1. Total(f, {}) = 0 /\ Total(g, {}) = 0 /\ Total(h, {}) = 0
      BY EmptySum
    <3>2. Total(h, T) # Total(f, T) + Total(g, T)
      OBVIOUS
    <3>3. Total(h, {}) = Total(f, {}) + Total(g, {})
      BY <3>1
    <3> HIDE DEF Total, Bad
    <3> QED
      BY <3>2, <3>3, Zenon
  <2>4. PICK x \in T : TRUE
    BY <2>3
  <2>5. /\ Total(f, T) = f[x] + Total(f, T \ {x})
        /\ Total(g, T) = g[x] + Total(g, T \ {x})
        /\ Total(h, T) = h[x] + Total(h, T \ {x})
    BY <2>2, <2>4, SumRemove
  <2>6. Total(f, T \ {x}) \in Int /\ Total(g, T \ {x}) \in Int
    <3>1. IsFiniteSet(T \ {x}) /\ Ints(f, T \ {x}) /\ Ints(g, T \ {x})
      BY <2>2, FS_Subset DEF Ints
    <3> QED
      BY <3>1, SumInt
  <2>7. Total(h, T \ {x}) = Total(f, T \ {x}) + Total(g, T \ {x})
    <3>1. T \ {x} \in SUBSET T /\ T \ {x} # T
      BY <2>4
    <3>2. T \ {x} \notin Bad /\ T \ {x} \in SUBSET S
      BY <2>1, <2>2, <3>1
    <3> QED
      BY <3>2
  <2>8. f[x] \in Int /\ g[x] \in Int /\ h[x] = f[x] + g[x]
    BY <2>2, <2>4
  <2> DEFINE F == Total(f, T \ {x})
             G == Total(g, T \ {x})
  <2> HIDE DEF Bad, F, G
  <2>9. Total(h, T) = Total(f, T) + Total(g, T)
    BY <2>5, <2>6, <2>7, <2>8 DEF F, G
  <2> QED
    BY <2>9 DEF Bad
<1>2. Total(h, S) = Total(f, S) + Total(g, S)
  BY <1>1
<1>3. SumFunction(f) \in Int /\ SumFunction(g) \in Int
  BY TotalInt
<1> QED
  BY <1>2, <1>3 DEF SumFunction

LEMMA TotalMinus ==
    ASSUME NEW S, IsFiniteSet(S), NEW f, NEW g, NEW h,
           DOMAIN f = S, DOMAIN g = S, DOMAIN h = S,
           \A x \in S : f[x] \in Int /\ g[x] \in Int /\ h[x] = f[x] - g[x]
    PROVE  /\ SumFunction(h) = SumFunction(f) - SumFunction(g)
           /\ SumFunction(f) \in Int /\ SumFunction(g) \in Int
<1>1. \A x \in S : h[x] \in Int /\ g[x] \in Int /\ f[x] = h[x] + g[x]
  OBVIOUS
<1>2. /\ SumFunction(f) = SumFunction(h) + SumFunction(g)
      /\ SumFunction(h) \in Int /\ SumFunction(g) \in Int
  BY ONLY IsFiniteSet(S), DOMAIN f = S, DOMAIN g = S, DOMAIN h = S, <1>1, TotalPlus
<1>3. SumFunction(f) \in Int
  BY TotalInt
<1> QED
  BY <1>2, <1>3

(* Elements that count for nothing may be left out. *)
LEMMA TotalWithin ==
    ASSUME NEW f, NEW g, IsFiniteSet(DOMAIN f), DOMAIN g \in SUBSET (DOMAIN f),
           \A x \in DOMAIN f : f[x] \in Int /\ f[x] = IF x \in DOMAIN g THEN g[x] ELSE 0
    PROVE  SumFunction(g) = SumFunction(f) /\ SumFunction(f) \in Int
<1> DEFINE R == DOMAIN f \ DOMAIN g
           h == [x \in R |-> f[x]]
<1>1. DOMAIN h = R
  OBVIOUS
<1>2. (\A x \in R : h[x] = f[x] /\ h[x] = 0) /\ (\A x \in DOMAIN g : g[x] = f[x])
  OBVIOUS
<1>3. SumFunction(f) = SumFunction(g) + SumFunction(h) /\ SumFunction(g) \in Int
  <2> HIDE DEF h
  <2> QED
    BY <1>1, <1>2, TotalSplit, ZenonT(60)
<1>4. SumFunction(h) = 0
  <2>1. IsFiniteSet(R)
    BY FS_Subset
  <2> HIDE DEF h
  <2> QED
    BY <1>1, <1>2, <2>1, TotalZero
<1> QED
  BY <1>3, <1>4

(* The rows of a table, added up key by key. *)
Parted(R, K, f, key, g) ==
    /\ IsFiniteSet(R) /\ IsFiniteSet(K) /\ f = [r \in R |-> f[r]] /\ g = [k \in K |-> g[k]]
    /\ \A r \in R : f[r] \in Int /\ key[r] \in K
    /\ \A k \in K : g[k] = SumFunction([r \in {x \in R : key[x] = k} |-> f[r]])

LEMMA SumOfParts ==
    ASSUME NEW R, NEW K, NEW f, NEW key, NEW g, Parted(R, K, f, key, g)
    PROVE  SumFunction(g) = SumFunction(f)
<1>0. IsFiniteSet(R) /\ IsFiniteSet(K) /\ \A r \in R : f[r] \in Int /\ key[r] \in K
  BY DEF Parted
<1> USE <1>0
<1> DEFINE Of(T) == {r \in R : key[r] \in T}
           Part(k) == {r \in R : key[r] = k}
           Sum(Q) == SumFunction([r \in Q |-> f[r]])
           e == [k \in K |-> Sum(Part(k))]
           Total(T) == SumFunctionOnSet(e, T)
           Bad == {T \in SUBSET K : Total(T) # Sum(Of(T))}
<1>1. \A Q \in SUBSET R : IsFiniteSet(Q) /\ Sum(Q) \in Int
  <2> SUFFICES ASSUME NEW Q \in SUBSET R PROVE IsFiniteSet(Q) /\ Sum(Q) \in Int
    OBVIOUS
  <2>1. IsFiniteSet(Q)
    BY FS_Subset
  <2> DEFINE q == [r \in Q |-> f[r]]
  <2>2. DOMAIN q = Q /\ \A r \in Q : q[r] \in Int
    OBVIOUS
  <2>3. SumFunction(q) \in Int
    <3> HIDE DEF q
    <3> QED
      BY <2>1, <2>2, TotalInt
  <2> QED
    BY <2>1, <2>3
<1>2. \A k \in K : e[k] = Sum(Part(k)) /\ e[k] \in Int
  BY <1>1
<1>3. DOMAIN e = K
  OBVIOUS
<1>4. \A T \in SUBSET K : \A k \in T : Sum(Of(T)) = Sum(Of(T \ {k})) + Sum(Part(k))
  <2> SUFFICES ASSUME NEW T \in SUBSET K, NEW k \in T
               PROVE  Sum(Of(T)) = Sum(Of(T \ {k})) + Sum(Part(k))
    OBVIOUS
  <2> DEFINE a == [r \in Of(T) |-> f[r]]
             b == [r \in Of(T \ {k}) |-> f[r]]
             c == [r \in Part(k) |-> f[r]]
  <2>1. DOMAIN a = Of(T) /\ DOMAIN b = Of(T \ {k}) /\ DOMAIN c = Part(k)
    OBVIOUS
  <2>2. Of(T) \in SUBSET R /\ Of(T \ {k}) \in SUBSET Of(T) /\ Part(k) = Of(T) \ Of(T \ {k})
    OBVIOUS
  <2>4. \A r \in Of(T) : a[r] \in Int
    BY <2>2
  <2>5. IsFiniteSet(Of(T))
    BY <1>1, <2>2
  <2>6. (\A r \in Of(T \ {k}) : b[r] = a[r]) /\ (\A r \in Part(k) : c[r] = a[r])
    BY <2>2
  <2>7. SumFunction(a) = SumFunction(b) + SumFunction(c)
    <3> HIDE DEF a, b, c, Of, Part
    <3>1. /\ IsFiniteSet(DOMAIN a) /\ \A r \in DOMAIN a : a[r] \in Int
          /\ DOMAIN b \in SUBSET (DOMAIN a) /\ DOMAIN c = DOMAIN a \ DOMAIN b
          /\ \A r \in DOMAIN b : b[r] = a[r]
          /\ \A r \in DOMAIN c : c[r] = a[r]
      BY <2>1, <2>2, <2>4, <2>5, <2>6
    <3> QED
      BY ONLY <3>1, TotalSplit, ZenonT(60)
  <2> QED
    BY <2>7
<1>5. Sum(Of({})) = 0
  <2> DEFINE q == [r \in Of({}) |-> f[r]]
  <2>1. DOMAIN q = {}
    OBVIOUS
  <2>2. SumFunction(q) = 0
    <3> HIDE DEF q
    <3> QED
      BY <2>1, TotalEmpty
  <2> QED
    BY <2>2
<1>6. Of(K) = R
  OBVIOUS
<1>7. \A T \in SUBSET K : Of(T) \in SUBSET R /\ IsFiniteSet(T)
  BY FS_Subset
<1> HIDE DEF e, Of, Part, Sum
<1>8. Bad = {}
  <2> SUFFICES ASSUME Bad # {} PROVE FALSE
    OBVIOUS
  <2>1. PICK T \in Bad : \A U \in SUBSET T : U # T => U \notin Bad
    <3> HIDE DEF Bad
    <3>1. Bad \in SUBSET (SUBSET K)
      BY DEF Bad
    <3> QED
      BY <3>1, LeastSet
  <2>2. T \in SUBSET K /\ Total(T) # Sum(Of(T)) /\ IsFiniteSet(T) /\ Ints(e, T)
    BY <1>2, <1>7 DEF Ints
  <2>3. T # {}
    <3>1. Total({}) = 0
      BY EmptySum
    <3>2. Total(T) # Sum(Of(T))
      OBVIOUS
    <3> QED
      BY <1>5, <3>1, <3>2
  <2>4. PICK k \in T : TRUE
    BY <2>3
  <2>5. Total(T) = e[k] + Total(T \ {k})
    BY <2>2, <2>4, SumRemove
  <2>6. Total(T \ {k}) = Sum(Of(T \ {k}))
    <3>1. T \ {k} \in SUBSET T /\ T \ {k} # T
      BY <2>4
    <3>2. T \ {k} \notin Bad /\ T \ {k} \in SUBSET K
      BY <2>1, <2>2, <3>1
    <3> QED
      BY <3>2
  <2>7. Sum(Of(T)) = Sum(Of(T \ {k})) + Sum(Part(k))
    BY <1>4, <2>2, <2>4
  <2>8. e[k] = Sum(Part(k)) /\ e[k] \in Int /\ Sum(Of(T \ {k})) \in Int
    <3>1. Of(T \ {k}) \in SUBSET R
      BY <1>7, <2>2
    <3> QED
      BY <1>1, <1>2, <2>2, <2>4, <3>1
  <2>9. Total(T) = Sum(Of(T))
    BY <2>5, <2>6, <2>7, <2>8
  <2> QED
    BY <2>2, <2>9
<1>9. Total(K) = Sum(Of(K))
  BY <1>8
<1>10. SumFunction(e) = Sum(R)
  BY <1>3, <1>6, <1>9 DEF SumFunction
<1>11. SumFunction(f) = Sum(R)
  BY DEF Parted, Sum
<1>12. e = g
  <2>1. \A k \in K : g[k] = Sum(Part(k))
    BY DEF Parted, Sum, Part
  <2>2. g = [k \in K |-> g[k]]
    BY DEF Parted
  <2>3. e = [k \in K |-> Sum(Part(k))]
    BY DEF e
  <2> QED
    BY <2>1, <2>2, <2>3
<1> QED
  BY <1>10, <1>11, <1>12

-----------------------------------------------------------------------------
(* Tables: a row replaced, rows added. *)
LEMMA PutRow ==
    ASSUME NEW S, NEW s \in Seq(S), NEW i \in DOMAIN s, NEW x \in S, NEW t, t = [s EXCEPT ![i] = x]
    PROVE  /\ t \in Seq(S) /\ DOMAIN t = DOMAIN s /\ Len(t) = Len(s)
           /\ \A n \in DOMAIN s : t[n] = IF n = i THEN x ELSE s[n]
<1>1. Len(s) \in Nat /\ DOMAIN s = 1..Len(s) /\ s \in [1..Len(s) -> S]
  OBVIOUS
<1>2. t \in [1..Len(s) -> S] /\ DOMAIN t = DOMAIN s
  BY <1>1
<1>3. \A n \in DOMAIN s : t[n] = IF n = i THEN x ELSE s[n]
  OBVIOUS
<1>4. t \in Seq(S) /\ Len(t) = Len(s)
  BY <1>1, <1>2
<1> QED
  BY <1>2, <1>3, <1>4

LEMMA AddRows ==
    ASSUME NEW S, NEW s \in Seq(S), NEW t \in Seq(S)
    PROVE  /\ s \o t \in Seq(S) /\ Len(s) \in Nat /\ Len(t) \in Nat /\ Len(s \o t) = Len(s) + Len(t)
           /\ DOMAIN s = 1..Len(s) /\ DOMAIN t = 1..Len(t) /\ DOMAIN (s \o t) = 1..(Len(s) + Len(t))
           /\ \A n \in DOMAIN s : (s \o t)[n] = s[n]
           /\ \A n \in DOMAIN t : (s \o t)[Len(s) + n] = t[n]
<1>1. Len(s) \in Nat /\ DOMAIN s = 1..Len(s) /\ Len(t) \in Nat /\ DOMAIN t = 1..Len(t)
  OBVIOUS
<1>2. s \o t \in Seq(S) /\ Len(s \o t) = Len(s) + Len(t)
  OBVIOUS
<1>3. DOMAIN (s \o t) = 1..(Len(s) + Len(t))
  BY <1>2
<1>4. \A n \in 1..Len(s) : (s \o t)[n] = s[n]
  OBVIOUS
<1>5. \A n \in 1..Len(t) : (s \o t)[Len(s) + n] = t[n]
  BY <1>1
<1> QED
  BY <1>1, <1>2, <1>3, <1>4, <1>5

-----------------------------------------------------------------------------
(* Tables whose rows count for something: what a table is worth when a row *)
(* is added or replaced.                                                   *)
Worth(rows, w) == SumFunction([i \in DOMAIN rows |-> w[rows[i]]])

LEMMA WorthInt ==
    ASSUME NEW S, NEW rows \in Seq(S), NEW w \in [S -> Int]
    PROVE  Worth(rows, w) \in Int
<1> DEFINE f == [i \in DOMAIN rows |-> w[rows[i]]]
<1>1. DOMAIN f = DOMAIN rows /\ IsFiniteSet(DOMAIN f) /\ \A i \in DOMAIN f : f[i] \in Int
  BY SeqDomain
<1>2. SumFunction(f) \in Int
  <2> HIDE DEF f
  <2> QED
    BY <1>1, TotalInt
<1> QED
  BY <1>2 DEF Worth

LEMMA WorthNothing ==
    ASSUME NEW w PROVE Worth(<<>>, w) = 0
<1> DEFINE f == [i \in DOMAIN << >> |-> w[<< >>[i]]]
<1>1. DOMAIN f = {}
  OBVIOUS
<1>2. SumFunction(f) = 0
  <2> HIDE DEF f
  <2> QED
    BY <1>1, TotalEmpty
<1> QED
  BY <1>2 DEF Worth

LEMMA WorthSame ==
    ASSUME NEW rows, NEW w, NEW v, \A i \in DOMAIN rows : w[rows[i]] = v[rows[i]]
    PROVE  Worth(rows, w) = Worth(rows, v)
<1>1. [i \in DOMAIN rows |-> w[rows[i]]] = [i \in DOMAIN rows |-> v[rows[i]]]
  OBVIOUS
<1> QED
  BY <1>1 DEF Worth

(* A row is added. *)
Adds(S, w, rows, x, t) == rows \in Seq(S) /\ w \in [S -> Int] /\ x \in S /\ t = Append(rows, x)

LEMMA WorthAdd ==
    ASSUME NEW S, NEW w, NEW rows, NEW x, NEW t, Adds(S, w, rows, x, t)
    PROVE  Worth(t, w) = Worth(rows, w) + w[x] /\ Worth(rows, w) \in Int
<1>0. rows \in Seq(S) /\ w \in [S -> Int] /\ x \in S /\ t = Append(rows, x)
  BY DEF Adds
<1> DEFINE f == [i \in DOMAIN rows |-> w[rows[i]]]
           g == [i \in DOMAIN t |-> w[t[i]]]
           n == Len(rows) + 1
<1>1. /\ DOMAIN t = DOMAIN rows \cup {n} /\ n \notin DOMAIN rows /\ t[n] = x
      /\ \A i \in DOMAIN rows : t[i] = rows[i]
  BY <1>0, Appended
<1>2. IsFiniteSet(DOMAIN rows) /\ \A i \in DOMAIN rows : rows[i] \in S
  BY <1>0, SeqDomain
<1>3. /\ DOMAIN f = DOMAIN rows /\ DOMAIN g = DOMAIN f \cup {n} /\ n \notin DOMAIN f
      /\ \A i \in DOMAIN f : g[i] = f[i] /\ f[i] \in Int
      /\ g[n] = w[x] /\ g[n] \in Int
  BY <1>0, <1>1, <1>2
<1>4. SumFunction(g) = SumFunction(f) + g[n] /\ SumFunction(f) \in Int
  <2> HIDE DEF f, g, n
  <2> QED
    BY <1>2, <1>3, TotalAdd
<1> QED
  BY <1>3, <1>4 DEF Worth

(* A row is replaced. *)
Puts(S, w, rows, i, x, t) ==
    rows \in Seq(S) /\ w \in [S -> Int] /\ i \in DOMAIN rows /\ x \in S /\ t = [rows EXCEPT ![i] = x]

LEMMA WorthPut ==
    ASSUME NEW S, NEW w, NEW rows, NEW i, NEW x, NEW t, Puts(S, w, rows, i, x, t)
    PROVE  Worth(t, w) = Worth(rows, w) - w[rows[i]] + w[x] /\ Worth(rows, w) \in Int
<1>0. rows \in Seq(S) /\ w \in [S -> Int] /\ i \in DOMAIN rows /\ x \in S /\ t = [rows EXCEPT ![i] = x]
  BY DEF Puts
<1> DEFINE f == [n \in DOMAIN rows |-> w[rows[n]]]
           g == [n \in DOMAIN t |-> w[t[n]]]
<1>1. DOMAIN t = DOMAIN rows /\ \A n \in DOMAIN rows : t[n] = IF n = i THEN x ELSE rows[n]
  BY <1>0, PutRow
<1>2. IsFiniteSet(DOMAIN rows) /\ \A n \in DOMAIN rows : rows[n] \in S
  BY <1>0, SeqDomain
<1>3. /\ DOMAIN f = DOMAIN rows /\ DOMAIN g = DOMAIN f /\ i \in DOMAIN f
      /\ \A n \in DOMAIN f : f[n] \in Int
      /\ \A n \in DOMAIN f : n # i => g[n] = f[n]
      /\ g[i] = w[x] /\ g[i] \in Int /\ f[i] = w[rows[i]]
  BY <1>0, <1>1, <1>2
<1>4. SumFunction(g) = SumFunction(f) - f[i] + g[i] /\ SumFunction(f) \in Int
  <2> HIDE DEF f, g
  <2> QED
    BY <1>2, <1>3, TotalChange
<1> QED
  BY <1>3, <1>4 DEF Worth

(* The rows that count for something may be added up alone. *)
LEMMA WorthWithin ==
    ASSUME NEW S, NEW rows \in Seq(S), NEW w \in [S -> Int], NEW T \in SUBSET (DOMAIN rows), NEW g,
           DOMAIN g = T, \A i \in T : g[i] = w[rows[i]], \A i \in DOMAIN rows : i \notin T => w[rows[i]] = 0
    PROVE  SumFunction(g) = Worth(rows, w)
<1> DEFINE f == [i \in DOMAIN rows |-> w[rows[i]]]
<1>1. IsFiniteSet(DOMAIN rows) /\ \A i \in DOMAIN rows : rows[i] \in S
  BY SeqDomain
<1>2. /\ IsFiniteSet(DOMAIN f) /\ DOMAIN g \in SUBSET (DOMAIN f)
      /\ \A i \in DOMAIN f : f[i] \in Int /\ f[i] = IF i \in DOMAIN g THEN g[i] ELSE 0
  BY <1>1
<1>3. SumFunction(g) = SumFunction(f)
  <2> HIDE DEF f
  <2> QED
    BY <1>2, TotalWithin
<1> QED
  BY <1>3 DEF Worth

(* One term. *)
LEMMA TotalOne ==
    ASSUME NEW q, NEW x, DOMAIN q = {x}, q[x] \in Int PROVE SumFunction(q) = q[x]
<1>1. IsFiniteSet({x}) /\ Ints(q, {x}) /\ x \in {x}
  BY FS_Singleton DEF Ints
<1>2. SumFunctionOnSet(q, {x}) = q[x] + SumFunctionOnSet(q, {x} \ {x})
  BY <1>1, SumRemove
<1>3. {x} \ {x} = {} /\ SumFunctionOnSet(q, {}) = 0
  BY EmptySum
<1> QED
  BY <1>2, <1>3 DEF SumFunction

(* Rows are added at the end. *)
Joins(S, w, rows, more, t) ==
    rows \in Seq(S) /\ more \in Seq(S) /\ w \in [S -> Int] /\ t = rows \o more

LEMMA WorthJoin ==
    ASSUME NEW S, NEW w, NEW rows, NEW more, NEW t, Joins(S, w, rows, more, t)
    PROVE  /\ Worth(t, w) = Worth(rows, w) + Worth(more, w)
           /\ Worth(rows, w) \in Int /\ Worth(more, w) \in Int
<1>0. rows \in Seq(S) /\ more \in Seq(S) /\ w \in [S -> Int] /\ t = rows \o more
  BY DEF Joins
<1> DEFINE n == Len(rows)
           R == DOMAIN t \ DOMAIN rows
           K == DOMAIN more
           f == [i \in DOMAIN t |-> w[t[i]]]
           g == [i \in DOMAIN rows |-> w[rows[i]]]
           h == [i \in R |-> w[t[i]]]
           e == [i \in K |-> w[more[i]]]
           key == [i \in R |-> i - n]
<1>1. /\ t \in Seq(S) /\ n \in Nat /\ Len(more) \in Nat
      /\ DOMAIN rows = 1..n /\ K = 1..Len(more) /\ DOMAIN t = 1..(n + Len(more))
      /\ \A i \in DOMAIN rows : t[i] = rows[i]
      /\ \A i \in K : t[n + i] = more[i]
  BY <1>0, AddRows
<1>2. IsFiniteSet(DOMAIN t) /\ IsFiniteSet(K) /\ \A i \in DOMAIN t : w[t[i]] \in Int
  BY <1>0, <1>1, SeqDomain
<1>3. /\ DOMAIN rows \in SUBSET (DOMAIN t) /\ R \in SUBSET (DOMAIN t) /\ IsFiniteSet(R)
      /\ \A i \in R : i - n \in K /\ i \in Int /\ i = n + (i - n)
      /\ \A k \in K : n + k \in R /\ k \in Int
  <2>1. DOMAIN rows \in SUBSET (DOMAIN t) /\ R \in SUBSET (DOMAIN t)
    BY <1>1
  <2>2. R = (n + 1)..(n + Len(more))
    BY <1>1
  <2> HIDE DEF R, K
  <2>3. IsFiniteSet(R)
    BY <1>2, <2>1, FS_Subset
  <2> QED
    BY <1>1, <2>1, <2>2, <2>3
<1>4. SumFunction(f) = SumFunction(g) + SumFunction(h) /\ SumFunction(g) \in Int /\ SumFunction(h) \in Int
  <2>1. DOMAIN f = DOMAIN t /\ DOMAIN g = DOMAIN rows /\ DOMAIN h = R
    OBVIOUS
  <2>2. (\A i \in DOMAIN t : f[i] \in Int) /\ (\A i \in DOMAIN rows : g[i] = f[i]) /\ (\A i \in R : h[i] = f[i])
    BY <1>1, <1>2, <1>3
  <2>3. R = DOMAIN t \ DOMAIN rows
    OBVIOUS
  <2> HIDE DEF f, g, h, R
  <2>4. /\ IsFiniteSet(DOMAIN f) /\ \A i \in DOMAIN f : f[i] \in Int
        /\ DOMAIN g \in SUBSET (DOMAIN f) /\ DOMAIN h = DOMAIN f \ DOMAIN g
        /\ \A i \in DOMAIN g : g[i] = f[i]
        /\ \A i \in DOMAIN h : h[i] = f[i]
    BY <1>2, <1>3, <2>1, <2>2, <2>3
  <2> QED
    BY ONLY <2>4, TotalSplit, ZenonT(60)
<1>5. Parted(R, K, h, key, e)
  <2>1. \A i \in R : h[i] \in Int /\ key[i] \in K
    BY <1>2, <1>3
  <2>2. ASSUME NEW k \in K PROVE e[k] = SumFunction([r \in {x \in R : key[x] = k} |-> h[r]])
    <3> DEFINE q == [r \in {x \in R : key[x] = k} |-> h[r]]
    <3>1. {x \in R : key[x] = k} = {n + k}
      <4>1. \A x \in R : key[x] = k <=> x = n + k
        <5>1. \A x \in R : key[x] = x - n
          OBVIOUS
        <5> HIDE DEF key, R, K
        <5> QED
          BY <1>1, <1>3, <5>1
      <4>2. n + k \in R
        BY <1>3
      <4> HIDE DEF key, R, K
      <4> QED
        BY <4>1, <4>2
    <3>2. DOMAIN q = {n + k} /\ q[n + k] = h[n + k]
      <4> HIDE DEF h, key, R, K
      <4> QED
        BY <3>1
    <3>3. h[n + k] = e[k] /\ h[n + k] \in Int
      BY <1>1, <1>2, <1>3
    <3>4. SumFunction(q) = q[n + k]
      <4> HIDE DEF q, h, e
      <4> QED
        BY <3>2, <3>3, TotalOne
    <3> QED
      BY <3>2, <3>3, <3>4
  <2>3. h = [r \in R |-> h[r]] /\ e = [k \in K |-> e[k]]
    OBVIOUS
  <2> HIDE DEF h, e, key, R, K
  <2> QED
    BY <1>2, <1>3, <2>1, <2>2, <2>3 DEF Parted
<1>6. SumFunction(e) = SumFunction(h)
  <2> HIDE DEF h, e, key, R, K
  <2> QED
    BY <1>5, SumOfParts
<1> QED
  BY <1>4, <1>6 DEF Worth

(* One row, or none, counts. *)
LEMMA WorthOne ==
    ASSUME NEW S, NEW rows \in Seq(S), NEW w \in [S -> Int], NEW i \in DOMAIN rows,
           \A m \in DOMAIN rows : m # i => w[rows[m]] = 0
    PROVE  Worth(rows, w) = w[rows[i]]
<1> DEFINE g == [m \in {i} |-> w[rows[i]]]
<1>1. DOMAIN g = {i} /\ {i} \in SUBSET (DOMAIN rows) /\ \A m \in {i} : g[m] = w[rows[m]]
  OBVIOUS
<1>2. g[i] \in Int /\ g[i] = w[rows[i]]
  BY SeqDomain
<1> HIDE DEF g
<1>3. SumFunction(g) = g[i]
  BY <1>1, <1>2, TotalOne
<1>4. \A m \in DOMAIN rows : m \notin {i} => w[rows[m]] = 0
  OBVIOUS
<1>5. SumFunction(g) = Worth(rows, w)
  BY <1>1, <1>4, WorthWithin
<1> QED
  BY <1>2, <1>3, <1>5

LEMMA WorthZero ==
    ASSUME NEW S, NEW rows \in Seq(S), NEW w, \A m \in DOMAIN rows : w[rows[m]] = 0
    PROVE  Worth(rows, w) = 0
<1> DEFINE f == [i \in DOMAIN rows |-> w[rows[i]]]
<1>1. DOMAIN f = DOMAIN rows /\ IsFiniteSet(DOMAIN rows) /\ \A i \in DOMAIN rows : f[i] = 0
  BY SeqDomain
<1>2. SumFunction(f) = 0
  <2> HIDE DEF f
  <2> QED
    BY <1>1, TotalZero
<1> QED
  BY <1>2 DEF Worth
=============================================================================
