------------------------------ MODULE DataFacts ------------------------------
(* Sums of weights over finite sets, for proofs about ledgers: every byte  *)
(* or slot counter of the pool and of the chunk owners is the sum of what  *)
(* its holders own. A sum is defined by recursion over a set, and the      *)
(* facts about it are proved from the library's theorem that the strict    *)
(* subset order on a finite set is well founded. Then facts about the      *)
(* queues of the owners, whose retain is a recursion over positions and    *)
(* puts each element it keeps at the number of those kept up to it.        *)
EXTENDS Functions, Queues, FiniteSets, FiniteSetTheorems, WellFoundedInduction, TLAPS

Chosen(s) == CHOOSE x \in s : TRUE

IsIter(g, S, w) ==
  g = [s \in SUBSET S |-> IF s = {} THEN 0 ELSE w[Chosen(s)] + g[s \ {Chosen(s)}]]

IterOf(S, w) == CHOOSE g : IsIter(g, S, w)

(* The community library's sum is the value, at the whole set, of the      *)
(* function that takes one chosen element away at a time.                  *)
LEMMA SumIsIter ==
  ASSUME NEW w, NEW S
  PROVE  SumFunctionOnSet(w, S) = IterOf(S, w)[S]
BY DEF SumFunctionOnSet, FoldFunctionOnSet, MapThenFoldSet, IterOf, IsIter, Chosen

(* The element that is taken away is one of the set.                       *)
LEMMA ChosenIn == ASSUME NEW s, s # {} PROVE Chosen(s) \in s
BY DEF Chosen

(* A nonempty family of subsets of a finite set has a member that contains *)
(* no other. This is what stands for induction over finite sets below: a   *)
(* statement that failed somewhere would fail at such a smallest set, and  *)
(* hold for it without its chosen element.                                 *)
LEMMA Smallest ==
  ASSUME NEW S, IsFiniteSet(S), NEW F \in SUBSET SUBSET S, F # {}
  PROVE  \E T \in F : \A U \in F : U \subseteq T => U = T
<1>1. SUBSET S = FiniteSubsetsOf(S)
  BY FS_FiniteSubsetsOfFinite
<1>2. IsWellFoundedOn(StrictSubsetOrdering(S), FiniteSubsetsOf(S))
  BY FS_StrictSubsetOrderingWellFounded
<1>3. \E T \in F : \A U \in F : ~ (<<U, T>> \in StrictSubsetOrdering(S))
  BY <1>1, <1>2, WFMin
<1> QED
  BY <1>3 DEF StrictSubsetOrdering

(* The unfolding at one set.                                               *)
LEMMA IterValue ==
  ASSUME NEW w, NEW S, NEW g, IsIter(g, S, w), NEW s \in SUBSET S
  PROVE  g[s] = IF s = {} THEN 0 ELSE w[Chosen(s)] + g[s \ {Chosen(s)}]
<1> DEFINE h == [t \in SUBSET S |-> IF t = {} THEN 0 ELSE w[Chosen(t)] + g[t \ {Chosen(t)}]]
<1>1. g = h
  BY DEF IsIter
<1>2. h[s] = IF s = {} THEN 0 ELSE w[Chosen(s)] + g[s \ {Chosen(s)}]
  OBVIOUS
<1> QED
  BY <1>1, <1>2

(* Two unfoldings agree where both are defined. *)
LEMMA IterAgree ==
  ASSUME NEW w, NEW S, IsFiniteSet(S), NEW V \in SUBSET S,
         NEW g, IsIter(g, S, w), NEW h, IsIter(h, V, w)
  PROVE  g[V] = h[V]
<1> DEFINE F == {s \in SUBSET V : g[s] # h[s]}
<1> SUFFICES ASSUME F # {} PROVE FALSE
  OBVIOUS
<1>1. IsFiniteSet(V)
  BY FS_Subset
<1>2. PICK T \in F : \A U \in F : U \subseteq T => U = T
  <2>1. F \in SUBSET SUBSET V
    OBVIOUS
  <2> HIDE DEF F
  <2> QED
    BY <1>1, <2>1, Smallest
<1>3. T \in SUBSET V /\ T \in SUBSET S /\ g[T] # h[T]
  OBVIOUS
<1>4. /\ g[T] = IF T = {} THEN 0 ELSE w[Chosen(T)] + g[T \ {Chosen(T)}]
      /\ h[T] = IF T = {} THEN 0 ELSE w[Chosen(T)] + h[T \ {Chosen(T)}]
  BY <1>3, IterValue
<1>5. T # {}
  BY <1>3, <1>4
<1>6. T \ {Chosen(T)} \notin F
  BY <1>2, <1>5, ChosenIn
<1> QED
  BY <1>3, <1>4, <1>5, <1>6

(* There is such a function, for every weight on a finite set.             *)
LEMMA IterExists ==
  ASSUME NEW w, NEW S, IsFiniteSet(S)
  PROVE  IsIter(IterOf(S, w), S, w)
<1> DEFINE F == {T \in SUBSET S : ~ \E g : IsIter(g, T, w)}
<1>1. SUFFICES ASSUME F # {} PROVE FALSE
  <2>1. S \notin F
    BY <1>1
  <2> QED
    BY <2>1 DEF IterOf
<1>2. PICK T \in F : \A U \in F : U \subseteq T => U = T
  <2>1. F \in SUBSET SUBSET S
    OBVIOUS
  <2> HIDE DEF F
  <2> QED
    BY <1>1, <2>1, Smallest
<1>3. ASSUME NEW U \in SUBSET T, U # T PROVE IsIter(IterOf(U, w), U, w)
  <2>1. U \notin F
    BY <1>2, <1>3
  <2>2. \E g : IsIter(g, U, w)
    BY <2>1
  <2> QED
    BY <2>2 DEF IterOf
<1> DEFINE h == [s \in SUBSET T |->
                   IF s = {} THEN 0
                   ELSE w[Chosen(s)] + IterOf(s \ {Chosen(s)}, w)[s \ {Chosen(s)}]]
<1>4. ASSUME NEW U \in SUBSET T, U # T PROVE h[U] = IterOf(U, w)[U]
  <2>1. CASE U = {}
    <3>1. IsIter(IterOf(U, w), U, w)
      BY <1>3, <1>4
    <3>2. IterOf(U, w)[U] = 0
      BY <2>1, <3>1, IterValue
    <3> QED
      BY <2>1, <3>2
  <2>2. CASE U # {}
    <3> DEFINE V == U \ {Chosen(U)}
    <3>1. V \in SUBSET U /\ V \in SUBSET T /\ V # T
      BY <2>2, ChosenIn
    <3>2. IsIter(IterOf(V, w), V, w) /\ IsIter(IterOf(U, w), U, w)
      BY <3>1, <1>3, <1>4
    <3>3. IsFiniteSet(U)
      BY FS_Subset
    <3>4. IterOf(U, w)[V] = IterOf(V, w)[V]
      <4> HIDE DEF V
      <4> QED BY <3>1, <3>2, <3>3, IterAgree
    <3>5. IterOf(U, w)[U] = w[Chosen(U)] + IterOf(U, w)[V]
      BY <2>2, <3>2, IterValue
    <3>6. h[U] = w[Chosen(U)] + IterOf(V, w)[V]
      BY <2>2
    <3> QED
      BY <3>4, <3>5, <3>6
  <2> QED BY <2>1, <2>2
<1>5. \A s \in SUBSET T : s # {} => h[s \ {Chosen(s)}] = IterOf(s \ {Chosen(s)}, w)[s \ {Chosen(s)}]
  <2> SUFFICES ASSUME NEW s \in SUBSET T, s # {}
               PROVE  h[s \ {Chosen(s)}] = IterOf(s \ {Chosen(s)}, w)[s \ {Chosen(s)}]
    OBVIOUS
  <2>1. s \ {Chosen(s)} \in SUBSET T /\ s \ {Chosen(s)} # T
    BY ChosenIn
  <2> HIDE DEF h
  <2> QED BY <2>1, <1>4
<1>6. h = [s \in SUBSET T |-> IF s = {} THEN 0 ELSE w[Chosen(s)] + h[s \ {Chosen(s)}]]
  BY <1>5
<1>7. IsIter(h, T, w)
  <2> HIDE DEF h
  <2> QED BY <1>6 DEF IsIter
<1> QED
  BY <1>7

(* A sum over a nonempty finite set is one chosen weight and the sum of    *)
(* the rest.                                                               *)
LEMMA SumStep ==
  ASSUME NEW w, NEW S, IsFiniteSet(S)
  PROVE  SumFunctionOnSet(w, S) =
           IF S = {} THEN 0
           ELSE w[Chosen(S)] + SumFunctionOnSet(w, S \ {Chosen(S)})
<1>1. IsIter(IterOf(S, w), S, w)
  BY IterExists
<1>2. IterOf(S, w)[S] = IF S = {} THEN 0 ELSE w[Chosen(S)] + IterOf(S, w)[S \ {Chosen(S)}]
  BY <1>1, IterValue
<1>3. ASSUME S # {}
      PROVE  IterOf(S, w)[S \ {Chosen(S)}] = IterOf(S \ {Chosen(S)}, w)[S \ {Chosen(S)}]
  <2> DEFINE V == S \ {Chosen(S)}
  <2>1. V \in SUBSET S /\ IsFiniteSet(V)
    BY FS_Subset
  <2> HIDE DEF V
  <2>2. IsIter(IterOf(V, w), V, w)
    BY <2>1, IterExists
  <2>3. IterOf(S, w)[V] = IterOf(V, w)[V]
    BY <1>1, <2>1, <2>2, IterAgree
  <2> QED
    BY <2>3 DEF V
<1> QED
  BY <1>2, <1>3, SumIsIter

(* The empty sum is zero.                                                  *)
LEMMA SumEmpty == ASSUME NEW w PROVE SumFunctionOnSet(w, {}) = 0
BY SumStep, FS_EmptySet

(* A sum of natural numbers is one.                                        *)
LEMMA SumNat ==
  ASSUME NEW w, NEW S, IsFiniteSet(S), \A x \in S : w[x] \in Nat
  PROVE  SumFunctionOnSet(w, S) \in Nat
<1> DEFINE F == {T \in SUBSET S : SumFunctionOnSet(w, T) \notin Nat}
<1> SUFFICES ASSUME F # {} PROVE FALSE
  OBVIOUS
<1>1. F \in SUBSET SUBSET S
  OBVIOUS
<1>2. PICK T \in F : \A U \in F : U \subseteq T => U = T
  <2> HIDE DEF F
  <2> QED
    BY <1>1, Smallest
<1>3. T \in SUBSET S /\ IsFiniteSet(T) /\ SumFunctionOnSet(w, T) \notin Nat
  BY FS_Subset
<1>4. SumFunctionOnSet(w, T) =
           IF T = {} THEN 0
           ELSE w[Chosen(T)] + SumFunctionOnSet(w, T \ {Chosen(T)})
  BY <1>3, SumStep
<1>5. T # {}
  BY <1>3, <1>4
<1>6. Chosen(T) \in T /\ T \ {Chosen(T)} \notin F
  BY <1>2, <1>5, ChosenIn
<1> QED
  BY <1>3, <1>4, <1>5, <1>6

(* Any element may be the one that is taken away, not just the chosen one. *)
LEMMA SumRemove ==
  ASSUME NEW w, NEW S, IsFiniteSet(S), \A x \in S : w[x] \in Nat, NEW e \in S
  PROVE  SumFunctionOnSet(w, S) = w[e] + SumFunctionOnSet(w, S \ {e})
<1> DEFINE Sum(T) == SumFunctionOnSet(w, T)
           F == {T \in SUBSET S : \E x \in T : Sum(T) # w[x] + Sum(T \ {x})}
<1> HIDE DEF Sum
<1> SUFFICES ASSUME F # {} PROVE FALSE
  BY DEF Sum
<1>1. F \in SUBSET SUBSET S
  OBVIOUS
<1>2. PICK T \in F : \A U \in F : U \subseteq T => U = T
  <2> HIDE DEF F
  <2> QED
    BY <1>1, Smallest
<1>3. PICK x \in T : Sum(T) # w[x] + Sum(T \ {x})
  OBVIOUS
<1>4. T \in SUBSET S /\ IsFiniteSet(T)
  BY FS_Subset
<1> DEFINE c == Chosen(T)
<1>5. c \in T
  BY <1>3, ChosenIn
<1>6. Sum(T) = w[c] + Sum(T \ {c})
  BY <1>3, <1>4, SumStep DEF Sum
<1> HIDE DEF c
<1>7. c # x
  BY <1>3, <1>6
<1>8. T \ {c} \notin F /\ T \ {x} \notin F
  BY <1>2, <1>3, <1>5
<1>9. Sum(T \ {c}) = w[x] + Sum((T \ {c}) \ {x}) /\ Sum(T \ {x}) = w[c] + Sum((T \ {x}) \ {c})
  BY <1>4, <1>5, <1>7, <1>8
<1>10. (T \ {c}) \ {x} = (T \ {x}) \ {c}
  OBVIOUS
<1>11. Sum((T \ {x}) \ {c}) \in Nat
  <2>1. (T \ {x}) \ {c} \in SUBSET S
    BY <1>4
  <2> QED
    BY <2>1, FS_Subset, SumNat DEF Sum
<1>12. w[c] \in Nat /\ w[x] \in Nat
  BY <1>4, <1>5
<1> QED
  BY <1>3, <1>6, <1>9, <1>10, <1>11, <1>12

(* A new element adds its weight.                                          *)
LEMMA SumAdd ==
  ASSUME NEW w, NEW S, IsFiniteSet(S), NEW e, e \notin S,
         \A x \in S \cup {e} : w[x] \in Nat
  PROVE  SumFunctionOnSet(w, S \cup {e}) = w[e] + SumFunctionOnSet(w, S)
<1>1. IsFiniteSet(S \cup {e}) /\ (S \cup {e}) \ {e} = S
  BY FS_AddElement
<1>2. SumFunctionOnSet(w, S \cup {e}) = w[e] + SumFunctionOnSet(w, (S \cup {e}) \ {e})
  BY <1>1, SumRemove
<1> QED
  BY <1>1, <1>2

(* The sum depends only on the weights of the elements that are summed.    *)
LEMMA SumSame ==
  ASSUME NEW w, NEW v, NEW S, IsFiniteSet(S), \A x \in S : w[x] = v[x]
  PROVE  SumFunctionOnSet(w, S) = SumFunctionOnSet(v, S)
<1> DEFINE F == {T \in SUBSET S : SumFunctionOnSet(w, T) # SumFunctionOnSet(v, T)}
<1> SUFFICES ASSUME F # {} PROVE FALSE
  OBVIOUS
<1>1. F \in SUBSET SUBSET S
  OBVIOUS
<1>2. PICK T \in F : \A U \in F : U \subseteq T => U = T
  <2> HIDE DEF F
  <2> QED
    BY <1>1, Smallest
<1>3. IsFiniteSet(T)
  BY FS_Subset
<1>4. /\ SumFunctionOnSet(w, T) =
           IF T = {} THEN 0 ELSE w[Chosen(T)] + SumFunctionOnSet(w, T \ {Chosen(T)})
      /\ SumFunctionOnSet(v, T) =
           IF T = {} THEN 0 ELSE v[Chosen(T)] + SumFunctionOnSet(v, T \ {Chosen(T)})
  BY <1>3, SumStep
<1>5. T # {}
  BY <1>2, <1>4
<1>6. Chosen(T) \in T /\ T \ {Chosen(T)} \notin F
  BY <1>2, <1>5, ChosenIn
<1> QED
  BY <1>2, <1>4, <1>5, <1>6

(* The sum over two sets without a common element is that of both sums.    *)
LEMMA SumParts ==
  ASSUME NEW w, NEW S, IsFiniteSet(S), \A x \in S : w[x] \in Nat, NEW A \in SUBSET S
  PROVE  SumFunctionOnSet(w, S) = SumFunctionOnSet(w, A) + SumFunctionOnSet(w, S \ A)
<1> DEFINE Sum(T) == SumFunctionOnSet(w, T)
           F == {T \in SUBSET A : Sum(S) # Sum(T) + Sum(S \ T)}
<1> HIDE DEF Sum
<1> SUFFICES ASSUME F # {} PROVE FALSE
  BY DEF Sum
<1>1. F \in SUBSET SUBSET A /\ IsFiniteSet(A)
  BY FS_Subset
<1>2. PICK T \in F : \A U \in F : U \subseteq T => U = T
  <2> HIDE DEF F
  <2> QED
    BY <1>1, Smallest
<1>3. T \in SUBSET S /\ IsFiniteSet(T) /\ IsFiniteSet(S \ T)
  BY FS_Subset
<1>4. Sum(S) \in Nat
  BY SumNat DEF Sum
<1>5. T # {}
  <2>1. Sum(S) # Sum(T) + Sum(S \ T)
    OBVIOUS
  <2> SUFFICES ASSUME T = {} PROVE FALSE
    OBVIOUS
  <2>2. Sum(T) = 0 /\ Sum(S \ T) = Sum(S)
    <3>1. S \ T = S
      OBVIOUS
    <3> QED
      BY <3>1, SumEmpty DEF Sum
  <2> QED
    BY <2>1, <2>2, <1>4
<1>6. PICK x \in T : TRUE
  BY <1>5
<1> DEFINE U == T \ {x}
<1>7. U \notin F /\ U \in SUBSET A
  BY <1>2, <1>6
<1>8. Sum(S) = Sum(U) + Sum(S \ U)
  BY <1>7
<1>9. Sum(T) = w[x] + Sum(U)
  BY <1>3, SumRemove DEF Sum
<1>10. S \ U = (S \ T) \cup {x} /\ x \notin S \ T
  BY <1>3, <1>6
<1>11. Sum(S \ U) = w[x] + Sum(S \ T)
  <2>1. \A y \in (S \ T) \cup {x} : w[y] \in Nat
    BY <1>3, <1>6
  <2> QED
    BY <1>3, <1>10, <2>1, SumAdd DEF Sum
<1>12. w[x] \in Nat /\ Sum(S \ T) \in Nat /\ Sum(U) \in Nat
  <2>1. IsFiniteSet(U) /\ U \in SUBSET S
    BY <1>3, FS_Subset
  <2> QED
    BY <1>3, <1>6, <2>1, SumNat DEF Sum
<1>13. Sum(S) # Sum(T) + Sum(S \ T)
  OBVIOUS
<1> HIDE DEF U
<1> QED
  BY <1>8, <1>9, <1>11, <1>12, <1>13

(* Taking a part away leaves the rest, and no sum gets larger by it.       *)
LEMMA SumWithout ==
  ASSUME NEW w, NEW S, IsFiniteSet(S), \A x \in S : w[x] \in Nat, NEW A \in SUBSET S
  PROVE  /\ SumFunctionOnSet(w, S \ A) = SumFunctionOnSet(w, S) - SumFunctionOnSet(w, A)
         /\ SumFunctionOnSet(w, S \ A) \in Nat
         /\ SumFunctionOnSet(w, S \ A) <= SumFunctionOnSet(w, S)
<1>1. IsFiniteSet(A) /\ IsFiniteSet(S \ A)
  BY FS_Subset
<1>2. /\ SumFunctionOnSet(w, S) \in Nat
      /\ SumFunctionOnSet(w, A) \in Nat
      /\ SumFunctionOnSet(w, S \ A) \in Nat
  BY <1>1, SumNat
<1>3. SumFunctionOnSet(w, S) = SumFunctionOnSet(w, A) + SumFunctionOnSet(w, S \ A)
  BY SumParts
<1> QED
  BY <1>2, <1>3

(* Counting with one element more or less.                                 *)
LEMMA CountOne ==
  ASSUME NEW S, IsFiniteSet(S), NEW x
  PROVE  /\ Cardinality(S) \in Nat
         /\ Cardinality(S \cup {x}) = Cardinality(S) + (IF x \in S THEN 0 ELSE 1)
         /\ Cardinality(S \ {x}) = Cardinality(S) - (IF x \in S THEN 1 ELSE 0)
<1>1. Cardinality(S) \in Nat
  BY FS_CardinalityType
<1>2. Cardinality(S \cup {x}) = IF x \in S THEN Cardinality(S) ELSE Cardinality(S) + 1
  BY FS_AddElement
<1>3. Cardinality(S \ {x}) = IF x \in S THEN Cardinality(S) - 1 ELSE Cardinality(S)
  BY FS_RemoveElement
<1> QED
  BY <1>1, <1>2, <1>3

-----------------------------------------------------------------------------
(* Queues.                                                                 *)

(* A set of indices has a least one.                                       *)
LEMMA LeastIndex ==
  ASSUME NEW n \in Nat, NEW I \in SUBSET (0..n), I # {}
  PROVE  \E i \in I : \A k \in I : i <= k
<1> DEFINE D == 0..n
           F == {0..i : i \in I}
<1>1. F \in SUBSET SUBSET D /\ F # {}
  <2>1. \A i \in I : 0..i \in SUBSET (0..n)
    OBVIOUS
  <2> QED
    BY <2>1
<1>2. IsFiniteSet(D)
  BY FS_Interval, 0 \in Int, n \in Int
<1>3. PICK T \in F : \A U \in F : U \subseteq T => U = T
  <2> HIDE DEF F, D
  <2> QED
    BY <1>1, <1>2, Smallest
<1>4. PICK i \in I : T = 0..i
  BY <1>3
<1>5. ASSUME NEW k \in I, ~(i <= k) PROVE FALSE
  <2>1. 0..k \in F /\ 0..k \subseteq T /\ i \in T /\ i \notin 0..k
    BY <1>4, <1>5
  <2> HIDE DEF F
  <2> QED
    BY <1>3, <2>1
<1> QED
  BY <1>5

(* The prefixes retain builds.                                             *)
IsKept(g, q, S, n) ==
  g = [i \in 0..n |-> IF i = 0 THEN <<>>
                      ELSE IF q[i] \in S THEN Append(g[i - 1], q[i]) ELSE g[i - 1]]

(* Retain's recursion has a solution.                                      *)
LEMMA KeptExists ==
  ASSUME NEW q, NEW S, NEW n \in Nat
  PROVE  \E g : IsKept(g, q, S, n)
<1> DEFINE bad == {m \in 0..n : ~ \E g : IsKept(g, q, S, m)}
<1> SUFFICES ASSUME bad # {} PROVE FALSE
  OBVIOUS
<1>1. PICK m \in bad : \A k \in bad : m <= k
  <2>1. bad \in SUBSET (0..n)
    OBVIOUS
  <2> HIDE DEF bad
  <2> QED
    BY <2>1, LeastIndex
<1>2. CASE m = 0
  <2> DEFINE h == [i \in 0..0 |-> <<>>]
  <2>1. IsKept(h, q, S, 0)
    BY DEF IsKept
  <2> QED
    BY <1>1, <1>2, <2>1
<1>3. CASE m # 0
  <2>1. m - 1 \in 0..n /\ m - 1 \notin bad
    BY <1>1, <1>3
  <2>2. PICK g : IsKept(g, q, S, m - 1)
    BY <2>1
  <2> DEFINE next == IF q[m] \in S THEN Append(g[m - 1], q[m]) ELSE g[m - 1]
             h == [i \in 0..m |-> IF i = m THEN next ELSE g[i]]
  <2>3. \A i \in 0..(m - 1) :
          g[i] = IF i = 0 THEN <<>>
                 ELSE IF q[i] \in S THEN Append(g[i - 1], q[i]) ELSE g[i - 1]
    BY <2>2 DEF IsKept
  <2>4. ASSUME NEW i \in 0..m
        PROVE  h[i] = IF i = 0 THEN <<>>
                      ELSE IF q[i] \in S THEN Append(h[i - 1], q[i]) ELSE h[i - 1]
    <3>1. CASE i = m
      <4>1. h[i] = next /\ h[i - 1] = g[m - 1]
        BY <1>3, <3>1
      <4> QED
        BY <1>3, <3>1, <4>1
    <3>2. CASE i # m
      <4>1. h[i] = g[i] /\ (i # 0 => h[i - 1] = g[i - 1])
        BY <3>2
      <4> QED
        BY <2>3, <3>2, <4>1
    <3> QED
      BY <3>1, <3>2
  <2>5. h = [i \in 0..m |-> IF i = 0 THEN <<>>
                            ELSE IF q[i] \in S THEN Append(h[i - 1], q[i]) ELSE h[i - 1]]
    <3>1. h = [i \in 0..m |-> h[i]]
      OBVIOUS
    <3> HIDE DEF h
    <3> QED
      BY <2>4, <3>1
  <2>6. IsKept(h, q, S, m)
    BY <2>5 DEF IsKept
  <2> QED
    BY <1>1, <2>6
<1> QED
  BY <1>2, <1>3

(* p is what retain keeps of the first i elements of q.                    *)
KeptPart(p, q, S, i) ==
  /\ Len(p) <= i
  /\ \A x : (\E k \in 1..Len(p) : x = p[k]) <=> x \in S /\ \E k \in 1..i : x = q[k]
  /\ Distinct(q) => \A a, b \in 1..Len(p) : p[a] = p[b] => a = b

(* One turn of retain's loop.                                              *)
LEMMA RetainStep ==
  ASSUME NEW T, NEW q \in Seq(T), NEW S, NEW m \in 1..Len(q), NEW p \in Seq(T),
         KeptPart(p, q, S, m - 1)
  PROVE  /\ q[m] \notin S => KeptPart(p, q, S, m)
         /\ q[m] \in S => /\ Append(p, q[m]) \in Seq(T)
                          /\ KeptPart(Append(p, q[m]), q, S, m)
<1>1. q[m] \in T /\ m \in Nat /\ Len(q) \in Nat /\ Len(p) \in Nat /\ DOMAIN q = 1..Len(q)
  OBVIOUS
<1>2. /\ Len(p) <= m - 1
      /\ \A x : (\E k \in 1..Len(p) : x = p[k]) <=> x \in S /\ \E k \in 1..(m - 1) : x = q[k]
      /\ Distinct(q) => \A a, b \in 1..Len(p) : p[a] = p[b] => a = b
  BY DEF KeptPart
<1>3. \A x : (\E k \in 1..m : x = q[k]) <=> x = q[m] \/ \E k \in 1..(m - 1) : x = q[k]
  BY <1>1
<1>4. ASSUME q[m] \notin S PROVE KeptPart(p, q, S, m)
  <2>1. \A x : x \in S /\ (\E k \in 1..m : x = q[k])
               <=> x \in S /\ \E k \in 1..(m - 1) : x = q[k]
    BY <1>3, <1>4
  <2>2. Len(p) <= m
    BY <1>1, <1>2
  <2> QED
    BY <1>2, <2>1, <2>2 DEF KeptPart
<1>5. ASSUME q[m] \in S
      PROVE  Append(p, q[m]) \in Seq(T) /\ KeptPart(Append(p, q[m]), q, S, m)
  <2> DEFINE r == Append(p, q[m])
  <2>1. /\ r \in Seq(T) /\ Len(r) = Len(p) + 1 /\ r[Len(p) + 1] = q[m]
        /\ \A k \in 1..Len(p) : r[k] = p[k]
    BY <1>1
  <2> HIDE DEF r
  <2>2. \A x : (\E k \in 1..Len(r) : x = r[k]) <=> x = q[m] \/ \E k \in 1..Len(p) : x = p[k]
    <3> SUFFICES ASSUME NEW x
                 PROVE  (\E k \in 1..Len(r) : x = r[k])
                          <=> x = q[m] \/ \E k \in 1..Len(p) : x = p[k]
      OBVIOUS
    <3>1. ASSUME NEW k \in 1..Len(r), x = r[k]
          PROVE  x = q[m] \/ \E l \in 1..Len(p) : x = p[l]
      <4>1. k \in 1..Len(p) \/ k = Len(p) + 1
        BY <1>1, <2>1
      <4> QED
        BY <2>1, <3>1, <4>1
    <3>2. ASSUME x = q[m] PROVE \E k \in 1..Len(r) : x = r[k]
      <4>1. Len(p) + 1 \in 1..Len(r)
        BY <1>1, <2>1
      <4> QED
        BY <2>1, <3>2, <4>1
    <3>3. ASSUME NEW l \in 1..Len(p), x = p[l] PROVE \E k \in 1..Len(r) : x = r[k]
      <4>1. l \in 1..Len(r)
        BY <1>1, <2>1
      <4> QED
        BY <2>1, <3>3, <4>1
    <3> QED
      BY <3>1, <3>2, <3>3
  <2>3. \A x : x = q[m] => x \in S
    BY <1>5
  <2>4. \A x : (\E k \in 1..Len(r) : x = r[k]) <=> x \in S /\ \E k \in 1..m : x = q[k]
    BY <1>2, <1>3, <2>2, <2>3
  <2>5. ASSUME Distinct(q) PROVE \A a, b \in 1..Len(r) : r[a] = r[b] => a = b
    <3>1. \A k \in 1..Len(p) : p[k] # q[m]
      <4> SUFFICES ASSUME NEW k \in 1..Len(p), p[k] = q[m] PROVE FALSE
        OBVIOUS
      <4>1. PICK l \in 1..(m - 1) : q[m] = q[l]
        BY <1>2
      <4>2. l \in DOMAIN q /\ m \in DOMAIN q /\ l # m
        BY <1>1
      <4> QED
        BY <2>5, <4>1, <4>2 DEF Distinct
    <3> QED
      BY <1>1, <1>2, <2>1, <2>5, <3>1
  <2>6. Len(r) <= m
    BY <1>1, <1>2, <2>1
  <2>7. KeptPart(r, q, S, m)
    BY <2>4, <2>5, <2>6 DEF KeptPart
  <2> QED
    BY <2>1, <2>7 DEF r
<1> QED
  BY <1>4, <1>5

(* retain keeps what is in S, once each if it was there once.              *)
LEMMA RetainFacts ==
  ASSUME NEW T, NEW q \in Seq(T), NEW S
  PROVE  /\ Retain(q, S) \in Seq(T) /\ Len(Retain(q, S)) <= Len(q)
         /\ Elements(Retain(q, S)) = Elements(q) \cap S
         /\ Distinct(q) => Distinct(Retain(q, S))
<1> DEFINE n == Len(q)
           kept == CHOOSE g : IsKept(g, q, S, n)
<1>0. n \in Nat /\ DOMAIN q = 1..n /\ n \in 0..n
  OBVIOUS
<1>1. IsKept(kept, q, S, n)
  <2> HIDE DEF n
  <2> QED
    BY <1>0, KeptExists
<1>2. Retain(q, S) = kept[n]
  BY DEF Retain, IsKept
<1> HIDE DEF kept
<1>3. \A i \in 0..n :
        kept[i] = IF i = 0 THEN <<>>
                  ELSE IF q[i] \in S THEN Append(kept[i - 1], q[i]) ELSE kept[i - 1]
  BY <1>1 DEF IsKept
<1> DEFINE bad == {i \in 0..n : ~(kept[i] \in Seq(T) /\ KeptPart(kept[i], q, S, i))}
<1>4. bad = {}
  <2> SUFFICES ASSUME bad # {} PROVE FALSE
    OBVIOUS
  <2>1. PICK m \in bad : \A k \in bad : m <= k
    <3>1. bad \in SUBSET (0..n)
      OBVIOUS
    <3> HIDE DEF bad, n
    <3> QED
      BY <1>0, <3>1, LeastIndex
  <2>2. m \in 0..n /\ ~(kept[m] \in Seq(T) /\ KeptPart(kept[m], q, S, m))
    OBVIOUS
  <2>3. CASE m = 0
    <3>1. kept[0] = <<>>
      BY <1>0, <1>3, <2>2, <2>3
    <3>2. kept[0] \in Seq(T) /\ KeptPart(kept[0], q, S, 0)
      BY <3>1 DEF KeptPart
    <3> QED
      BY <2>2, <2>3, <3>2
  <2>4. CASE m # 0
    <3>1. m \in 1..n /\ m - 1 \in 0..n /\ ~(m <= m - 1)
      BY <1>0, <2>2, <2>4
    <3>2. m - 1 \notin bad
      BY <2>1, <3>1
    <3>3. kept[m - 1] \in Seq(T) /\ KeptPart(kept[m - 1], q, S, m - 1)
      BY <3>1, <3>2
    <3>4. kept[m] = IF q[m] \in S THEN Append(kept[m - 1], q[m]) ELSE kept[m - 1]
      BY <1>3, <2>2, <2>4
    <3> QED
      BY <2>2, <3>1, <3>3, <3>4, RetainStep
  <2> QED
    BY <2>3, <2>4
<1>5. kept[n] \in Seq(T) /\ KeptPart(kept[n], q, S, n)
  BY <1>0, <1>4
<1> DEFINE p == Retain(q, S)
<1>6. p \in Seq(T) /\ KeptPart(p, q, S, n)
  BY <1>2, <1>5
<1>7. DOMAIN p = 1..Len(p)
  BY <1>6
<1> HIDE DEF p
<1>8. Elements(p) = Elements(q) \cap S
  <2>1. \A x : x \in Elements(p) <=> \E k \in 1..Len(p) : x = p[k]
    BY <1>7 DEF Elements
  <2>2. \A x : x \in Elements(q) <=> \E k \in 1..n : x = q[k]
    BY <1>0 DEF Elements
  <2> QED
    BY <1>6, <2>1, <2>2 DEF KeptPart
<1>9. Distinct(q) => Distinct(p)
  BY <1>6, <1>7 DEF KeptPart, Distinct
<1> QED
  BY <1>6, <1>8, <1>9 DEF KeptPart, p

(* A queue without repetition is as long as what is in it.                 *)
LEMMA DistinctLength ==
  ASSUME NEW T, NEW q \in Seq(T), Distinct(q)
  PROVE  /\ IsFiniteSet(Elements(q)) /\ Cardinality(Elements(q)) = Len(q)
<1>1. Len(q) \in Nat /\ DOMAIN q = 1..Len(q) /\ q \in [1..Len(q) -> Elements(q)]
  BY DEF Elements
<1>2. q \in Bijection(1..Len(q), Elements(q))
  <2>1. q \in Injection(1..Len(q), Elements(q))
    BY <1>1 DEF Injection, IsInjective, Distinct
  <2>2. q \in Surjection(1..Len(q), Elements(q))
    BY <1>1 DEF Surjection, Elements
  <2> QED
    BY <2>1, <2>2 DEF Bijection
<1>3. ExistsBijection(1..Len(q), Elements(q))
  BY <1>2 DEF ExistsBijection
<1>4. IsFiniteSet(1..Len(q))
  BY <1>1, FS_Interval, 1 \in Int, Len(q) \in Int
<1>5. IsFiniteSet(Elements(q))
  BY <1>3, <1>4, FS_Bijection
<1> QED
  BY <1>1, <1>3, <1>5, FS_CountingElements

(* Taking the head off, or adding a new element behind.                    *)
LEMMA QueueEnds ==
  ASSUME NEW T, NEW q \in Seq(T), Distinct(q)
  PROVE  /\ q # <<>> => /\ Tail(q) \in Seq(T) /\ Distinct(Tail(q))
                        /\ Head(q) \in Elements(q) /\ Head(q) \in T
                        /\ Elements(Tail(q)) = Elements(q) \ {Head(q)}
                        /\ Len(Tail(q)) = Len(q) - 1
         /\ \A x \in T \ Elements(q) : /\ Append(q, x) \in Seq(T) /\ Distinct(Append(q, x))
                                       /\ Elements(Append(q, x)) = Elements(q) \cup {x}
                                       /\ Len(Append(q, x)) = Len(q) + 1
<1>0. Len(q) \in Nat /\ DOMAIN q = 1..Len(q)
  OBVIOUS
<1>1. ASSUME q # <<>>
      PROVE  /\ Tail(q) \in Seq(T) /\ Distinct(Tail(q))
             /\ Head(q) \in Elements(q) /\ Head(q) \in T
             /\ Elements(Tail(q)) = Elements(q) \ {Head(q)}
             /\ Len(Tail(q)) = Len(q) - 1
  <2>1. /\ Tail(q) \in Seq(T) /\ Len(Tail(q)) = Len(q) - 1 /\ Len(q) >= 1
        /\ DOMAIN Tail(q) = 1..(Len(q) - 1)
        /\ \A k \in 1..(Len(q) - 1) : Tail(q)[k] = q[k + 1]
        /\ Head(q) = q[1] /\ 1 \in 1..Len(q)
    BY <1>0, <1>1
  <2>2. Distinct(Tail(q))
    BY <1>0, <2>1 DEF Distinct
  <2>3. Head(q) \in Elements(q) /\ Head(q) \in T
    BY <1>0, <2>1 DEF Elements
  <2>4. ASSUME NEW x PROVE x \in Elements(Tail(q)) <=> x \in Elements(q) /\ x # Head(q)
    <3>1. ASSUME x \in Elements(Tail(q)) PROVE x \in Elements(q) /\ x # Head(q)
      <4>1. PICK k \in 1..(Len(q) - 1) : x = q[k + 1]
        BY <2>1, <3>1 DEF Elements
      <4> QED
        BY <1>0, <2>1, <4>1 DEF Distinct, Elements
    <3>2. ASSUME x \in Elements(q), x # Head(q) PROVE x \in Elements(Tail(q))
      <4>1. PICK k \in 1..Len(q) : x = q[k]
        BY <1>0, <3>2 DEF Elements
      <4>2. k - 1 \in 1..(Len(q) - 1) /\ Tail(q)[k - 1] = q[k]
        BY <1>0, <2>1, <3>2, <4>1
      <4> QED
        BY <2>1, <4>1, <4>2 DEF Elements
    <3> QED
      BY <3>1, <3>2
  <2> QED
    BY <2>1, <2>2, <2>3, <2>4
<1>2. ASSUME NEW x \in T \ Elements(q)
      PROVE  /\ Append(q, x) \in Seq(T) /\ Distinct(Append(q, x))
             /\ Elements(Append(q, x)) = Elements(q) \cup {x}
             /\ Len(Append(q, x)) = Len(q) + 1
  <2>1. /\ Append(q, x) \in Seq(T) /\ Len(Append(q, x)) = Len(q) + 1
        /\ DOMAIN Append(q, x) = 1..(Len(q) + 1)
        /\ Append(q, x)[Len(q) + 1] = x
        /\ \A k \in 1..Len(q) : Append(q, x)[k] = q[k]
    BY <1>0
  <2>2. \A k \in 1..Len(q) : q[k] # x
    BY <1>0, <1>2 DEF Elements
  <2>3. Distinct(Append(q, x))
    BY <1>0, <2>1, <2>2 DEF Distinct
  <2>4. Elements(Append(q, x)) = Elements(q) \cup {x}
    BY <1>0, <2>1 DEF Elements
  <2> QED
    BY <2>1, <2>3, <2>4
<1> QED
  BY <1>1, <1>2

-----------------------------------------------------------------------------
(* More about sums and counts.                                            *)

LEMMA SumPlus ==
  ASSUME NEW S, IsFiniteSet(S), NEW a, NEW b, NEW w,
         \A x \in S : a[x] \in Nat /\ b[x] \in Nat /\ w[x] = a[x] + b[x]
  PROVE  SumFunctionOnSet(w, S) = SumFunctionOnSet(a, S) + SumFunctionOnSet(b, S)
<1> DEFINE Sw(T) == SumFunctionOnSet(w, T)
           Sa(T) == SumFunctionOnSet(a, T)
           Sb(T) == SumFunctionOnSet(b, T)
           F == {T \in SUBSET S : Sw(T) # Sa(T) + Sb(T)}
<1> SUFFICES ASSUME F # {} PROVE FALSE
  BY DEF F
<1>1. PICK T \in F : \A U \in F : U \subseteq T => U = T
  <2>1. F \in SUBSET SUBSET S
    OBVIOUS
  <2> HIDE DEF F
  <2> QED
    BY <2>1, Smallest
<1>2. T \in SUBSET S /\ IsFiniteSet(T)
  BY <1>1, FS_Subset
<1>3. \A x \in T : a[x] \in Nat /\ b[x] \in Nat /\ w[x] \in Nat /\ w[x] = a[x] + b[x]
  BY <1>2
<1>4. T # {}
  <2>1. Sw({}) = 0 /\ Sa({}) = 0 /\ Sb({}) = 0
    BY SumEmpty
  <2>2. Sw(T) # Sa(T) + Sb(T)
    BY <1>1
  <2>3. ASSUME T = {} PROVE FALSE
    <3>1. Sw(T) = 0 /\ Sa(T) = 0 /\ Sb(T) = 0
      BY <2>1, <2>3
    <3>2. Sw(T) = Sa(T) + Sb(T)
      BY <3>1, Z3
    <3> QED
      BY <2>2, <3>2
  <2> QED
    BY <2>3
<1>5. PICK e \in T : TRUE
  BY <1>4
<1> DEFINE U == T \ {e}
<1>6. U \in SUBSET S /\ U \subseteq T /\ U # T /\ IsFiniteSet(U) /\ \A x \in U : x \in T
  BY <1>2, <1>5, FS_Subset
<1>7. Sw(U) = Sa(U) + Sb(U)
  BY <1>1, <1>6
<1>8. Sw(T) = w[e] + Sw(U) /\ Sa(T) = a[e] + Sa(U) /\ Sb(T) = b[e] + Sb(U)
  BY <1>2, <1>3, <1>5, SumRemove
<1>9. Sw(U) \in Nat /\ Sa(U) \in Nat /\ Sb(U) \in Nat
  BY <1>3, <1>6, SumNat
<1>10. Sw(T) # Sa(T) + Sb(T)
  BY <1>1
<1> HIDE DEF U, Sw, Sa, Sb
<1> QED
  BY <1>3, <1>5, <1>7, <1>8, <1>9, <1>10

LEMMA SumZero ==
  ASSUME NEW S, IsFiniteSet(S), NEW z, \A x \in S : z[x] = 0
  PROVE  SumFunctionOnSet(z, S) = 0
<1> DEFINE s == SumFunctionOnSet(z, S)
<1>1. s = s + s
  BY SumPlus
<1>2. s \in Nat
  BY SumNat
<1> HIDE DEF s
<1>3. s = 0
  BY <1>1, <1>2
<1> QED
  BY <1>3 DEF s

(* Weights that are 0 outside a part.                                      *)
LEMMA SumWithin ==
  ASSUME NEW D, IsFiniteSet(D), NEW S \in SUBSET D, NEW w, NEW v,
         \A x \in S : w[x] \in Nat, \A x \in D : v[x] = IF x \in S THEN w[x] ELSE 0
  PROVE  SumFunctionOnSet(v, D) = SumFunctionOnSet(w, S)
<1>1. IsFiniteSet(S) /\ IsFiniteSet(D \ S)
  BY FS_Subset
<1>2. SumFunctionOnSet(v, D) = SumFunctionOnSet(v, S) + SumFunctionOnSet(v, D \ S)
  BY SumParts
<1>3. SumFunctionOnSet(v, D \ S) = 0
  BY <1>1, SumZero
<1>4. SumFunctionOnSet(v, S) = SumFunctionOnSet(w, S)
  BY <1>1, SumSame
<1>5. SumFunctionOnSet(w, S) \in Nat
  BY <1>1, SumNat
<1> QED
  BY <1>2, <1>3, <1>4, <1>5

LEMMA SumOnes ==
  ASSUME NEW S, IsFiniteSet(S), NEW w, \A x \in S : w[x] = 1
  PROVE  SumFunctionOnSet(w, S) = Cardinality(S)
<1> DEFINE Sw(T) == SumFunctionOnSet(w, T)
           F == {T \in SUBSET S : Sw(T) # Cardinality(T)}
<1> SUFFICES ASSUME F # {} PROVE FALSE
  BY DEF F
<1>1. PICK T \in F : \A U \in F : U \subseteq T => U = T
  <2>1. F \in SUBSET SUBSET S
    OBVIOUS
  <2> HIDE DEF F
  <2> QED
    BY <2>1, Smallest
<1>2. T \in SUBSET S /\ IsFiniteSet(T)
  BY <1>1, FS_Subset
<1>3. T # {}
  <2>1. Sw({}) = 0 /\ Cardinality({}) = 0
    BY SumEmpty, FS_EmptySet
  <2> QED
    BY <2>1, <1>1
<1>4. PICK e \in T : TRUE
  BY <1>3
<1> DEFINE U == T \ {e}
<1>5. U \in SUBSET S /\ U \subseteq T /\ U # T
  BY <1>2, <1>4
<1>6. Sw(U) = Cardinality(U)
  BY <1>1, <1>5
<1>7. Sw(T) = w[e] + Sw(U) /\ w[e] = 1
  BY <1>2, <1>4, SumRemove
<1>8. Cardinality(T) \in Nat /\ Cardinality(U) = Cardinality(T) - 1
  BY <1>2, <1>4, CountOne
<1>9. Sw(T) # Cardinality(T)
  BY <1>1
<1> HIDE DEF U, Sw
<1> QED
  BY <1>6, <1>7, <1>8, <1>9

(* Counting through a one-to-one map.                                      *)
LEMMA ImageCount ==
  ASSUME NEW S, IsFiniteSet(S), NEW f, \A x, y \in S : f[x] = f[y] => x = y
  PROVE  IsFiniteSet({f[x] : x \in S}) /\ Cardinality({f[x] : x \in S}) = Cardinality(S)
<1> DEFINE T == {f[x] : x \in S}
           g == [x \in S |-> f[x]]
<1>1. g \in Injection(S, T)
  BY DEF Injection, IsInjective
<1>2. g \in Surjection(S, T)
  BY DEF Surjection
<1> HIDE DEF g, T
<1>3. ExistsBijection(S, T)
  BY <1>1, <1>2 DEF ExistsBijection, Bijection
<1>4. IsFiniteSet(T) /\ Cardinality(T) = Cardinality(S)
  BY <1>3, FS_Bijection
<1> QED
  BY <1>4 DEF T

LEMMA ImageSize ==
  ASSUME NEW S, IsFiniteSet(S), NEW f
  PROVE  IsFiniteSet({f[x] : x \in S}) /\ Cardinality({f[x] : x \in S}) <= Cardinality(S)
<1> DEFINE T == {f[x] : x \in S}
           g == [x \in S |-> f[x]]
<1>1. g \in Surjection(S, T)
  BY DEF Surjection
<1> HIDE DEF g, T
<1>2. IsFiniteSet(T) /\ Cardinality(T) <= Cardinality(S)
  BY <1>1, FS_Surjection
<1> QED
  BY <1>2 DEF T

LEMMA UptoCount == ASSUME NEW n \in Nat PROVE IsFiniteSet(1..n) /\ Cardinality(1..n) = n
<1>1. 1 \in Int /\ n \in Int /\ (IF 1 > n THEN 0 ELSE n - 1 + 1) = n
  OBVIOUS
<1> QED
  BY <1>1, FS_Interval

LEMMA JoinFacts ==
  ASSUME NEW T, NEW p \in Seq(T), NEW r \in Seq(T)
  PROVE  /\ Len(p \o r) = Len(p) + Len(r) /\ DOMAIN (p \o r) = 1 .. Len(p) + Len(r)
         /\ \A i \in 1 .. Len(p) + Len(r) :
              (p \o r)[i] = IF i <= Len(p) THEN p[i] ELSE r[i - Len(p)]
OBVIOUS

-----------------------------------------------------------------------------
(* Where retain puts what it keeps.                                        *)

(* The place of element i: the number of elements kept up to it.           *)
KeptUpto(q, S, i) == {j \in 1..i : q[j] \in S}
Place(q, S, i) == Cardinality(KeptUpto(q, S, i))

LEMMA PlaceFacts ==
  ASSUME NEW q, NEW S, NEW i \in Nat
  PROVE  /\ IsFiniteSet(KeptUpto(q, S, i)) /\ Place(q, S, i) \in Nat
         /\ i = 0 => Place(q, S, i) = 0
         /\ i > 0 => Place(q, S, i) = Place(q, S, i - 1) + (IF q[i] \in S THEN 1 ELSE 0)
<1> DEFINE A == KeptUpto(q, S, i)
           B == KeptUpto(q, S, i - 1)
<1>1. A \subseteq 1..i
  BY DEF KeptUpto
<1>2. IsFiniteSet(A)
  BY <1>1, UptoCount, FS_Subset
<1>3. Cardinality(A) \in Nat
  BY <1>2, FS_CardinalityType
<1>4. i = 0 => A = {}
  BY DEF KeptUpto
<1>5. i > 0 => B = A \ {i} /\ (i \in A <=> q[i] \in S)
  BY DEF KeptUpto
<1> HIDE DEF A, B
<1>6. i = 0 => Cardinality(A) = 0
  BY <1>4, FS_EmptySet
<1>7. i > 0 => Cardinality(A) = Cardinality(B) + (IF q[i] \in S THEN 1 ELSE 0)
  <2> SUFFICES ASSUME i > 0
               PROVE  Cardinality(A) = Cardinality(B) + (IF q[i] \in S THEN 1 ELSE 0)
    OBVIOUS
  <2>1. Cardinality(A \ {i}) = Cardinality(A) - (IF i \in A THEN 1 ELSE 0)
    BY <1>2, CountOne
  <2>2. B = A \ {i} /\ (i \in A <=> q[i] \in S)
    BY <1>5
  <2>3. Cardinality(B) = Cardinality(A) - (IF q[i] \in S THEN 1 ELSE 0)
    BY <2>1, <2>2
  <2> QED
    BY <1>3, <2>3
<1> QED
  BY <1>2, <1>3, <1>6, <1>7 DEF A, B, Place

LEMMA PlaceOrder ==
  ASSUME NEW q, NEW S, NEW i \in Nat, NEW j \in Nat, i <= j
  PROVE  /\ Place(q, S, i) <= Place(q, S, j)
         /\ i < j /\ q[j] \in S => Place(q, S, i) < Place(q, S, j)
<1> DEFINE A == KeptUpto(q, S, i)
           B == KeptUpto(q, S, j)
<1>1. A \subseteq B /\ (i < j /\ q[j] \in S => j \in B \ A)
  BY DEF KeptUpto
<1>2. IsFiniteSet(A) /\ IsFiniteSet(B) /\ Cardinality(A) \in Nat /\ Cardinality(B) \in Nat
  BY PlaceFacts DEF Place
<1> HIDE DEF A, B
<1>3. Cardinality(A) <= Cardinality(B) /\ (Cardinality(A) = Cardinality(B) => A = B)
  BY <1>1, <1>2, FS_Subset
<1>4. i < j /\ q[j] \in S => Cardinality(A) < Cardinality(B)
  <2>1. i < j /\ q[j] \in S => A # B
    BY <1>1
  <2> QED
    BY <1>2, <1>3, <2>1
<1> QED
  BY <1>3, <1>4 DEF A, B, Place

(* p holds what retain keeps of the first i elements, each in its place.   *)
KeptPlaces(p, q, S, i) ==
  /\ Len(p) = Place(q, S, i)
  /\ \A j \in 1..i : q[j] \in S => Place(q, S, j) \in 1..Len(p) /\ p[Place(q, S, j)] = q[j]
  /\ \A k \in 1..Len(p) : \E j \in 1..i : q[j] \in S /\ Place(q, S, j) = k

LEMMA KeptPlacesStep ==
  ASSUME NEW T, NEW q \in Seq(T), NEW S, NEW m \in 1..Len(q), NEW p \in Seq(T),
         KeptPlaces(p, q, S, m - 1)
  PROVE  /\ q[m] \notin S => KeptPlaces(p, q, S, m)
         /\ q[m] \in S => Append(p, q[m]) \in Seq(T) /\ KeptPlaces(Append(p, q[m]), q, S, m)
<1>1. m \in Nat /\ m > 0 /\ m - 1 \in Nat /\ q[m] \in T /\ Len(p) \in Nat
  OBVIOUS
<1>2. /\ Len(p) = Place(q, S, m - 1)
      /\ \A j \in 1..(m - 1) :
           q[j] \in S => Place(q, S, j) \in 1..Len(p) /\ p[Place(q, S, j)] = q[j]
      /\ \A k \in 1..Len(p) : \E j \in 1..(m - 1) : q[j] \in S /\ Place(q, S, j) = k
  BY DEF KeptPlaces
<1>3. Place(q, S, m) = Place(q, S, m - 1) + (IF q[m] \in S THEN 1 ELSE 0)
  BY <1>1, PlaceFacts
<1>4. ASSUME q[m] \notin S PROVE KeptPlaces(p, q, S, m)
  <2>1. Len(p) = Place(q, S, m)
    BY <1>1, <1>2, <1>3, <1>4
  <2>2. ASSUME NEW j \in 1..m, q[j] \in S
        PROVE  Place(q, S, j) \in 1..Len(p) /\ p[Place(q, S, j)] = q[j]
    <3>1. j \in 1..(m - 1)
      BY <1>1, <1>4, <2>2
    <3> QED
      BY <1>2, <2>2, <3>1
  <2>3. ASSUME NEW k \in 1..Len(p) PROVE \E j \in 1..m : q[j] \in S /\ Place(q, S, j) = k
    <3>1. PICK j \in 1..(m - 1) : q[j] \in S /\ Place(q, S, j) = k
      BY <1>2
    <3>2. j \in 1..m
      BY <1>1
    <3> QED
      BY <3>1, <3>2
  <2> QED
    BY <2>1, <2>2, <2>3 DEF KeptPlaces
<1>5. ASSUME q[m] \in S PROVE Append(p, q[m]) \in Seq(T) /\ KeptPlaces(Append(p, q[m]), q, S, m)
  <2> DEFINE r == Append(p, q[m])
  <2>1. /\ r \in Seq(T) /\ Len(r) = Len(p) + 1 /\ r[Len(p) + 1] = q[m]
        /\ \A k \in 1..Len(p) : r[k] = p[k]
    BY <1>1
  <2> HIDE DEF r
  <2>2. Place(q, S, m) = Len(p) + 1
    BY <1>1, <1>2, <1>3, <1>5
  <2>3. ASSUME NEW j \in 1..m, q[j] \in S
        PROVE  Place(q, S, j) \in 1..Len(r) /\ r[Place(q, S, j)] = q[j]
    <3>1. CASE j = m
      BY <1>1, <2>1, <2>2, <3>1
    <3>2. CASE j # m
      <4>1. j \in 1..(m - 1)
        BY <1>1, <3>2
      <4>2. Place(q, S, j) \in 1..Len(p) /\ p[Place(q, S, j)] = q[j]
        BY <1>2, <2>3, <4>1
      <4> QED
        BY <1>1, <2>1, <4>2
    <3> QED
      BY <3>1, <3>2
  <2>4. ASSUME NEW k \in 1..Len(r) PROVE \E j \in 1..m : q[j] \in S /\ Place(q, S, j) = k
    <3>1. CASE k = Len(p) + 1
      <4>1. m \in 1..m
        BY <1>1
      <4> QED
        BY <1>5, <2>2, <3>1, <4>1
    <3>2. CASE k # Len(p) + 1
      <4>1. k \in 1..Len(p)
        BY <1>1, <2>1, <3>2
      <4>2. PICK j \in 1..(m - 1) : q[j] \in S /\ Place(q, S, j) = k
        BY <1>2, <4>1
      <4>3. j \in 1..m
        BY <1>1
      <4> QED
        BY <4>2, <4>3
    <3> QED
      BY <3>1, <3>2
  <2>5. KeptPlaces(r, q, S, m)
    BY <2>1, <2>2, <2>3, <2>4 DEF KeptPlaces
  <2> QED
    BY <2>1, <2>5 DEF r
<1> QED
  BY <1>4, <1>5

LEMMA RetainPlaces ==
  ASSUME NEW T, NEW q \in Seq(T), NEW S
  PROVE  Retain(q, S) \in Seq(T) /\ KeptPlaces(Retain(q, S), q, S, Len(q))
<1> DEFINE n == Len(q)
           kept == CHOOSE g : IsKept(g, q, S, n)
<1>0. n \in Nat /\ DOMAIN q = 1..n /\ n \in 0..n
  OBVIOUS
<1>1. IsKept(kept, q, S, n)
  <2> HIDE DEF n
  <2> QED
    BY <1>0, KeptExists
<1>2. Retain(q, S) = kept[n]
  BY DEF Retain, IsKept
<1> HIDE DEF kept
<1>3. \A i \in 0..n :
        kept[i] = IF i = 0 THEN <<>>
                  ELSE IF q[i] \in S THEN Append(kept[i - 1], q[i]) ELSE kept[i - 1]
  BY <1>1 DEF IsKept
<1> DEFINE bad == {i \in 0..n : ~(kept[i] \in Seq(T) /\ KeptPlaces(kept[i], q, S, i))}
<1>4. bad = {}
  <2> SUFFICES ASSUME bad # {} PROVE FALSE
    OBVIOUS
  <2>1. PICK m \in bad : \A k \in bad : m <= k
    <3>1. bad \in SUBSET (0..n)
      OBVIOUS
    <3> HIDE DEF bad, n
    <3> QED
      BY <1>0, <3>1, LeastIndex
  <2>2. m \in 0..n /\ ~(kept[m] \in Seq(T) /\ KeptPlaces(kept[m], q, S, m))
    OBVIOUS
  <2>3. CASE m = 0
    <3>1. kept[0] = <<>>
      BY <1>0, <1>3, <2>2, <2>3
    <3>2. Place(q, S, 0) = 0
      BY PlaceFacts
    <3>3. kept[0] \in Seq(T) /\ KeptPlaces(kept[0], q, S, 0)
      BY <3>1, <3>2 DEF KeptPlaces
    <3> QED
      BY <2>2, <2>3, <3>3
  <2>4. CASE m # 0
    <3>1. m \in 1..n /\ m - 1 \in 0..n /\ ~(m <= m - 1)
      BY <1>0, <2>2, <2>4
    <3>2. m - 1 \notin bad
      BY <2>1, <3>1
    <3>3. kept[m - 1] \in Seq(T) /\ KeptPlaces(kept[m - 1], q, S, m - 1)
      BY <3>1, <3>2
    <3>4. kept[m] = IF q[m] \in S THEN Append(kept[m - 1], q[m]) ELSE kept[m - 1]
      BY <1>3, <2>2, <2>4
    <3> QED
      BY <2>2, <3>1, <3>3, <3>4, KeptPlacesStep
  <2> QED
    BY <2>3, <2>4
<1> QED
  BY <1>0, <1>2, <1>4

-----------------------------------------------------------------------------
(* Rows of a grid: quotient and remainder locate a number in a grid of w   *)
(* rows of h cells, and each cell has its number.                          *)
LEMMA DivFacts ==
  ASSUME NEW h \in Nat \ {0}, NEW w \in Nat, NEW j \in Nat, j < w * h
  PROVE  /\ j = (j \div h) * h + (j % h) /\ j % h \in 0..(h - 1)
         /\ j \div h \in Nat /\ j \div h < w
<1>1. j = (j \div h) * h + (j % h)
  OBVIOUS
<1>2. j % h \in 0..(h - 1)
  OBVIOUS
<1>3. j \div h \in Nat
  OBVIOUS
<1>4. j \div h < w
  OBVIOUS
<1> QED
  BY <1>1, <1>2, <1>3, <1>4

LEMMA DivBack ==
  ASSUME NEW h \in Nat \ {0}, NEW x \in Nat, NEW z \in 0..(h - 1)
  PROVE  (x * h + z) \div h = x /\ (x * h + z) % h = z
OBVIOUS
=============================================================================
