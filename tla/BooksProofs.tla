---- MODULE BooksProofs ----
(***************************************************************************)
(* Theorems about the books of Cluster: what a worker holds reserved, what  *)
(* the scheduler's transaction takes from and gives back to its workers,    *)
(* and what commits make of cpu_available.                                  *)
(*                                                                         *)
(* All three are sums over sets of tasks or coroutines, which the library   *)
(* defines by recursion over the subsets; the first part shows that these   *)
(* sums add up, by minimal counterexamples instead of induction.  The books *)
(* then follow from one fact about a transaction: it changes the figure of  *)
(* a worker by the cpu it takes off less the cpu it puts there.             *)
(***************************************************************************)
EXTENDS LifecycleProofs, FiniteSetTheorems

-----------------------------------------------------------------------------
(* Sums over finite sets *)

\* The sum of g over S, as the properties write it.
Total(g, S) == MapThenSumSet(LAMBDA x : g[x], S)

Pick(s) == CHOOSE x \in s : TRUE

\* h sums g over every subset of S, one chosen element after the other.
Adds(g, S, h) ==
    h = [s \in SUBSET S |-> IF s = {} THEN 0 ELSE g[Pick(s)] + h[s \ {Pick(s)}]]

\* The fold of the library is what its recursive function gives, if there is
\* one.
LEMMA Unfold ==
    ASSUME NEW g, NEW S
    PROVE  Total(g, S) = (CHOOSE h : Adds(g, S, h))[S]
BY DEF Total, MapThenSumSet, MapThenFoldSet, Adds, Pick

\* Induction over the subsets of a finite set, as the existence of a minimal
\* counterexample.
LEMMA MinimalSubset ==
    ASSUME NEW S, IsFiniteSet(S), NEW T, T \subseteq SUBSET S, T # {}
    PROVE  \E A \in T : \A B \in T : B \subseteq A => B = A
<1>1. IsWellFoundedOn(StrictSubsetOrdering(S), FiniteSubsetsOf(S))
  BY FS_StrictSubsetOrderingWellFounded
<1>2. T \subseteq FiniteSubsetsOf(S)
  BY FS_Subset DEF FiniteSubsetsOf
<1>3. PICK A \in T : \A B \in T : ~ (<<B, A>> \in StrictSubsetOrdering(S))
  BY <1>1, <1>2, WFMin
<1> QED
  BY <1>3 DEF StrictSubsetOrdering

\* Two such functions agree where both are defined.
LEMMA AddsUnique ==
    ASSUME NEW A, NEW B, NEW g, NEW h, NEW k, IsFiniteSet(A), Adds(g, A, h), Adds(g, B, k),
           NEW s, s \subseteq A, s \subseteq B
    PROVE  h[s] = k[s]
<1> DEFINE T == {r \in SUBSET A : r \subseteq B /\ h[r] # k[r]}
<1>1. \A r \in SUBSET A : h[r] = IF r = {} THEN 0 ELSE g[Pick(r)] + h[r \ {Pick(r)}]
  BY DEF Adds
<1>2. \A r \in SUBSET B : k[r] = IF r = {} THEN 0 ELSE g[Pick(r)] + k[r \ {Pick(r)}]
  BY DEF Adds
<1>3. T = {}
  <2> SUFFICES ASSUME T # {} PROVE FALSE
    OBVIOUS
  <2>1. PICK r \in T : \A q \in T : q \subseteq r => q = r
    <3>1. T \subseteq SUBSET A
      OBVIOUS
    <3> HIDE DEF T
    <3> QED
      BY <3>1, MinimalSubset
  <2>2. r \in SUBSET A /\ r \in SUBSET B /\ h[r] # k[r]
    OBVIOUS
  <2>3. r # {}
    BY <1>1, <1>2, <2>2
  <2>4. Pick(r) \in r
    BY <2>3 DEF Pick
  <2>5. r \ {Pick(r)} \notin T
    BY <2>1, <2>4
  <2>6. h[r \ {Pick(r)}] = k[r \ {Pick(r)}]
    BY <2>2, <2>5
  <2> QED
    BY <1>1, <1>2, <2>2, <2>3, <2>6
<1> QED
  BY <1>3

\* A finite set has such a function: put together from those of its subsets.
LEMMA AddsExists ==
    ASSUME NEW S, NEW g, IsFiniteSet(S)
    PROVE  \E h : Adds(g, S, h)
<1> DEFINE T == {A \in SUBSET S : ~ \E h : Adds(g, A, h)}
<1> SUFFICES ASSUME T # {} PROVE FALSE
  OBVIOUS
<1>1. PICK A \in T : \A B \in T : B \subseteq A => B = A
  <2>1. T \subseteq SUBSET S
    OBVIOUS
  <2> HIDE DEF T
  <2> QED
    BY <2>1, MinimalSubset
<1>2. A \in SUBSET S /\ ~ \E h : Adds(g, A, h)
  OBVIOUS
<1> DEFINE H(B) == CHOOSE h : Adds(g, B, h)
<1>3. ASSUME NEW B, B \subseteq A, B # A PROVE Adds(g, B, H(B)) /\ IsFiniteSet(B)
  <2>1. B \in SUBSET S /\ B \notin T
    BY <1>1, <1>2, <1>3
  <2>2. \E h : Adds(g, B, h)
    BY <2>1
  <2> QED
    BY <2>1, <2>2, FS_Subset
<1> DEFINE h == [s \in SUBSET A |-> IF s = {} THEN 0
                                    ELSE g[Pick(s)] + H(s \ {Pick(s)})[s \ {Pick(s)}]]
<1> HIDE DEF T, H
<1>4. ASSUME NEW s \in SUBSET A, s # A PROVE h[s] = H(s)[s]
  <2>1. Adds(g, s, H(s)) /\ IsFiniteSet(s)
    BY <1>3, <1>4
  <2>2. H(s)[s] = IF s = {} THEN 0 ELSE g[Pick(s)] + H(s)[s \ {Pick(s)}]
    BY <2>1 DEF Adds
  <2>3. ASSUME s # {} PROVE H(s)[s \ {Pick(s)}] = H(s \ {Pick(s)})[s \ {Pick(s)}]
    <3> DEFINE r == s \ {Pick(s)}
    <3>1. Pick(s) \in s
      BY <2>3 DEF Pick
    <3>2. r \subseteq A /\ r # A /\ r \subseteq s
      BY <1>4, <3>1
    <3>3. Adds(g, r, H(r))
      BY <1>3, <3>2
    <3> HIDE DEF r
    <3>4. H(s)[r] = H(r)[r]
      BY <2>1, <3>2, <3>3, AddsUnique
    <3> QED
      BY <3>4 DEF r
  <2> QED
    BY <2>2, <2>3
<1>5. Adds(g, A, h)
  <2>1. ASSUME NEW s \in SUBSET A, s # {}
        PROVE  H(s \ {Pick(s)})[s \ {Pick(s)}] = h[s \ {Pick(s)}]
    <3>1. Pick(s) \in s
      BY <2>1 DEF Pick
    <3>2. s \ {Pick(s)} \in SUBSET A /\ s \ {Pick(s)} # A
      BY <2>1, <3>1
    <3> HIDE DEF h
    <3> QED
      BY <1>4, <3>2
  <2>2. h = [s \in SUBSET A |-> IF s = {} THEN 0 ELSE g[Pick(s)] + h[s \ {Pick(s)}]]
    <3> SUFFICES ASSUME NEW s \in SUBSET A
                 PROVE  (IF s = {} THEN 0 ELSE g[Pick(s)] + H(s \ {Pick(s)})[s \ {Pick(s)}])
                        = (IF s = {} THEN 0 ELSE g[Pick(s)] + h[s \ {Pick(s)}])
      OBVIOUS
    <3> HIDE DEF h
    <3> QED
      BY <2>1
  <2> HIDE DEF h
  <2> QED
    BY <2>2 DEF Adds
<1> QED
  BY <1>2, <1>5

\* So the totals of all subsets of a finite set obey the recursion.
LEMMA TotalAdds ==
    ASSUME NEW S, NEW g, IsFiniteSet(S)
    PROVE  \E h : Adds(g, S, h) /\ \A A \in SUBSET S : Total(g, A) = h[A]
<1>1. PICK h : Adds(g, S, h)
  BY AddsExists
<1>2. ASSUME NEW A \in SUBSET S PROVE Total(g, A) = h[A]
  <2> DEFINE k == CHOOSE k : Adds(g, A, k)
  <2>1. IsFiniteSet(A)
    BY FS_Subset
  <2>2. Adds(g, A, k)
    BY <2>1, AddsExists
  <2>3. Total(g, A) = k[A]
    BY Unfold
  <2> HIDE DEF k
  <2> QED
    BY <1>1, <2>1, <2>2, <2>3, AddsUnique
<1> QED
  BY <1>1, <1>2

\* The total is an integer, zero of nothing, and splits off the chosen element.
LEMMA TotalInt ==
    ASSUME NEW S, NEW g, IsFiniteSet(S), \A x \in S : g[x] \in Int
    PROVE  /\ Total(g, {}) = 0
           /\ \A A \in SUBSET S : Total(g, A) \in Int
           /\ \A A \in SUBSET S : A # {} =>
                Pick(A) \in A /\ Total(g, A) = g[Pick(A)] + Total(g, A \ {Pick(A)})
<1>1. PICK h : Adds(g, S, h) /\ \A A \in SUBSET S : Total(g, A) = h[A]
  BY TotalAdds
<1>2. \A A \in SUBSET S : h[A] = IF A = {} THEN 0 ELSE g[Pick(A)] + h[A \ {Pick(A)}]
  BY <1>1 DEF Adds
<1>3. \A A \in SUBSET S : A # {} => Pick(A) \in A
  BY DEF Pick
<1>4. ASSUME NEW A \in SUBSET S, A # {}
      PROVE  Total(g, A) = g[Pick(A)] + Total(g, A \ {Pick(A)})
  <2>1. A \ {Pick(A)} \in SUBSET S
    OBVIOUS
  <2> QED
    BY <1>1, <1>2, <1>4, <2>1
<1>5. Total(g, {}) = 0
  BY <1>1, <1>2
<1>6. \A A \in SUBSET S : Total(g, A) \in Int
  <2> DEFINE T == {A \in SUBSET S : Total(g, A) \notin Int}
  <2> SUFFICES ASSUME T # {} PROVE FALSE
    OBVIOUS
  <2>1. PICK A \in T : \A B \in T : B \subseteq A => B = A
    <3>1. T \subseteq SUBSET S
      OBVIOUS
    <3> HIDE DEF T
    <3> QED
      BY <3>1, MinimalSubset
  <2>2. A \in SUBSET S /\ Total(g, A) \notin Int /\ A # {}
    BY <1>5
  <2>3. Pick(A) \in A /\ A \ {Pick(A)} \notin T
    BY <1>3, <2>1, <2>2
  <2>4. Total(g, A \ {Pick(A)}) \in Int /\ g[Pick(A)] \in Int
    BY <2>2, <2>3
  <2> QED
    BY <1>4, <2>2, <2>4
<1> QED
  BY <1>3, <1>4, <1>5, <1>6

\* The order does not matter: the total splits off any element.
LEMMA TotalRemove ==
    ASSUME NEW S, NEW g, IsFiniteSet(S), \A x \in S : g[x] \in Int, NEW x \in S
    PROVE  Total(g, S) = g[x] + Total(g, S \ {x})
<1> DEFINE T == {A \in SUBSET S : \E y \in A : Total(g, A) # g[y] + Total(g, A \ {y})}
<1> SUFFICES ASSUME T # {} PROVE FALSE
  OBVIOUS
<1>1. PICK A \in T : \A B \in T : B \subseteq A => B = A
  <2>1. T \subseteq SUBSET S
    OBVIOUS
  <2> HIDE DEF T
  <2> QED
    BY <2>1, MinimalSubset
<1>2. PICK y \in A : Total(g, A) # g[y] + Total(g, A \ {y})
  OBVIOUS
<1> DEFINE c == Pick(A)
<1>3. A \in SUBSET S /\ c \in A /\ Total(g, A) = g[c] + Total(g, A \ {c})
  <2>1. \A B \in SUBSET S : B # {} =>
            Pick(B) \in B /\ Total(g, B) = g[Pick(B)] + Total(g, B \ {Pick(B)})
    BY TotalInt
  <2>2. A \in SUBSET S /\ A # {}
    BY <1>2
  <2> QED
    BY <2>1, <2>2
<1> HIDE DEF c
<1>4. y # c
  BY <1>2, <1>3
<1>5. A \ {c} \notin T /\ A \ {y} \notin T
  BY <1>1, <1>2, <1>3
<1>6. Total(g, A \ {c}) = g[y] + Total(g, (A \ {c}) \ {y})
  BY <1>2, <1>3, <1>4, <1>5
<1>7. Total(g, A \ {y}) = g[c] + Total(g, (A \ {y}) \ {c})
  BY <1>2, <1>3, <1>4, <1>5
<1>8. (A \ {y}) \ {c} = (A \ {c}) \ {y}
  OBVIOUS
<1>9. g[y] \in Int /\ g[c] \in Int /\ Total(g, (A \ {c}) \ {y}) \in Int
  <2>1. (A \ {c}) \ {y} \in SUBSET S /\ y \in S /\ c \in S
    BY <1>3
  <2> QED
    BY <2>1, TotalInt
<1> QED
  BY <1>2, <1>3, <1>6, <1>7, <1>8, <1>9

\* One more element.
LEMMA TotalAdd ==
    ASSUME NEW S, NEW g, IsFiniteSet(S), NEW x, x \notin S,
           \A y \in S \cup {x} : g[y] \in Int
    PROVE  Total(g, S \cup {x}) = Total(g, S) + g[x]
<1> DEFINE U == S \cup {x}
<1>1. IsFiniteSet(U) /\ x \in U /\ U \ {x} = S /\ \A y \in U : g[y] \in Int
  BY FS_AddElement
<1> HIDE DEF U
<1>2. Total(g, U) = g[x] + Total(g, U \ {x})
  BY <1>1, TotalRemove
<1>3. g[x] \in Int /\ Total(g, S) \in Int
  BY TotalInt
<1>4. Total(g, U \ {x}) = Total(g, S)
  BY <1>1
<1>5. Total(g, U) = Total(g, S) + g[x]
  BY <1>2, <1>3, <1>4
<1> QED
  BY <1>5 DEF U

\* The total of a disjoint union.
LEMMA TotalUnion ==
    ASSUME NEW g, NEW A, NEW B, IsFiniteSet(A), IsFiniteSet(B), A \cap B = {},
           \A x \in A \cup B : g[x] \in Int
    PROVE  Total(g, A \cup B) = Total(g, A) + Total(g, B)
<1> DEFINE T == {C \in SUBSET B : Total(g, A \cup C) # Total(g, A) + Total(g, C)}
<1> SUFFICES ASSUME T # {} PROVE FALSE
  OBVIOUS
<1>1. PICK C \in T : \A D \in T : D \subseteq C => D = C
  <2>1. T \subseteq SUBSET B
    OBVIOUS
  <2> HIDE DEF T
  <2> QED
    BY <2>1, MinimalSubset
<1>2. C \in SUBSET B /\ Total(g, A \cup C) # Total(g, A) + Total(g, C)
  OBVIOUS
<1>3. IsFiniteSet(C) /\ IsFiniteSet(A \cup C) /\ Total(g, A) \in Int
  BY <1>2, FS_Subset, FS_Union, TotalInt
<1>4. C # {}
  <2> SUFFICES ASSUME C = {} PROVE FALSE
    OBVIOUS
  <2>1. Total(g, C) = 0 /\ A \cup C = A
    BY TotalInt
  <2>2. Total(g, A \cup C) = Total(g, A)
    BY <2>1
  <2> QED
    BY <1>2, <1>3, <2>1, <2>2
<1>5. PICK x : x \in C
  BY <1>4
<1> DEFINE D == C \ {x}
<1>6. D \in SUBSET B /\ D \notin T
  BY <1>1, <1>2, <1>5
<1>7. Total(g, A \cup D) = Total(g, A) + Total(g, D)
  BY <1>6
<1>8. Total(g, C) = g[x] + Total(g, D)
  BY <1>2, <1>3, <1>5, TotalRemove
<1>9. (A \cup C) \ {x} = A \cup D
  BY <1>2, <1>5
<1>10. Total(g, A \cup C) = g[x] + Total(g, A \cup D)
  BY <1>2, <1>3, <1>5, <1>9, TotalRemove
<1>11. g[x] \in Int /\ Total(g, D) \in Int
  <2>1. D \subseteq C /\ \A y \in C : g[y] \in Int
    BY <1>2
  <2> QED
    BY <1>3, <1>5, <2>1, TotalInt
<1> HIDE DEF D, T
<1> QED
  BY <1>2, <1>3, <1>7, <1>8, <1>10, <1>11

\* A total of naturals is a natural.
LEMMA TotalNat ==
    ASSUME NEW S, NEW g, IsFiniteSet(S), \A x \in S : g[x] \in Nat
    PROVE  Total(g, S) \in Nat
<1> DEFINE T == {A \in SUBSET S : Total(g, A) \notin Nat}
<1> SUFFICES ASSUME T # {} PROVE FALSE
  OBVIOUS
<1>1. PICK A \in T : \A B \in T : B \subseteq A => B = A
  <2>1. T \subseteq SUBSET S
    OBVIOUS
  <2> HIDE DEF T
  <2> QED
    BY <2>1, MinimalSubset
<1>2. A \in SUBSET S /\ Total(g, A) \notin Nat
  OBVIOUS
<1>3. A # {}
  <2>1. Total(g, {}) = 0
    BY TotalInt
  <2> QED
    BY <1>2, <2>1
<1>4. Pick(A) \in A /\ Total(g, A) = g[Pick(A)] + Total(g, A \ {Pick(A)})
  BY <1>2, <1>3, TotalInt
<1>5. Total(g, A \ {Pick(A)}) \in Nat
  BY <1>1, <1>2, <1>4
<1> QED
  BY <1>2, <1>4, <1>5

\* Only the values on the set count.
LEMMA TotalSame ==
    ASSUME NEW S, NEW g, NEW k, IsFiniteSet(S), \A x \in S : g[x] = k[x] /\ g[x] \in Int
    PROVE  Total(g, S) = Total(k, S)
<1> DEFINE T == {A \in SUBSET S : Total(g, A) # Total(k, A)}
<1> SUFFICES ASSUME T # {} PROVE FALSE
  OBVIOUS
<1>1. PICK A \in T : \A B \in T : B \subseteq A => B = A
  <2>1. T \subseteq SUBSET S
    OBVIOUS
  <2> HIDE DEF T
  <2> QED
    BY <2>1, MinimalSubset
<1>2. A \in SUBSET S /\ Total(g, A) # Total(k, A)
  OBVIOUS
<1>3. A # {}
  BY <1>2, TotalInt
<1>4. /\ Pick(A) \in A /\ Total(g, A) = g[Pick(A)] + Total(g, A \ {Pick(A)})
      /\ Total(k, A) = k[Pick(A)] + Total(k, A \ {Pick(A)})
  BY <1>2, <1>3, TotalInt
<1>5. Total(g, A \ {Pick(A)}) = Total(k, A \ {Pick(A)})
  BY <1>1, <1>2, <1>4
<1> QED
  BY <1>2, <1>4, <1>5

-----------------------------------------------------------------------------
(* Reservations *)

\* What the coroutines of w hold, and the ones that hold it.
Holds(w) == [k \in Slots |-> resource_cpu[exec[w][k].task]]
Fetched(w) == {k \in Slots : exec[w][k].fetched}

\* A coroutine has fetched its task only after the stage in which it does.
FetchedOnce ==
    \A w \in Workers, k \in Slots : exec[w][k].fetched => exec[w][k].stage \notin {"free", "fetch"}

Accounted(w) ==
    /\ reserved[w] <= Total(Holds(w), Fetched(w)) + leaked[w]
    /\ Total(Holds(w), Fetched(w)) + leaked[w] <= reserved[w] + unreserved[w]
Covered == \A w \in Workers : Accounted(w)

\* The sum of the property is the total of what is held.
LEMMA CoveredTotal ==
    ASSUME NEW w \in Workers
    PROVE  MapThenSumSet(LAMBDA k : resource_cpu[exec[w][k].task],
                         {k \in Slots : exec[w][k].fetched}) = Total(Holds(w), Fetched(w))
<1> DEFINE S == Fetched(w)
           g == Holds(w)
           Eq(h) == h = [s \in SUBSET S |-> IF s = {} THEN 0
                            ELSE resource_cpu[exec[w][Pick(s)].task] + h[s \ {Pick(s)}]]
<1>1. MapThenSumSet(LAMBDA k : resource_cpu[exec[w][k].task], S) = (CHOOSE h : Eq(h))[S]
  BY DEF MapThenSumSet, MapThenFoldSet, Pick
<1>2. IsFiniteSet(S) /\ S \subseteq Slots
  BY SlotsAssumption, FS_Subset DEF Fetched
<1>3. \A s \in SUBSET S : s # {} => g[Pick(s)] = resource_cpu[exec[w][Pick(s)].task]
  <2>1. ASSUME NEW s \in SUBSET S, s # {} PROVE Pick(s) \in Slots
    BY <1>2, <2>1 DEF Pick
  <2> QED
    BY <2>1 DEF Holds
<1> HIDE DEF S, g
<1>4. ASSUME NEW h PROVE Eq(h) <=> Adds(g, S, h)
  BY <1>3 DEF Adds
<1>5. PICK h : Adds(g, S, h)
  BY <1>2, AddsExists
<1>6. Eq(CHOOSE k : Eq(k))
  BY <1>4, <1>5
<1>7. Adds(g, S, CHOOSE k : Eq(k))
  BY <1>4, <1>6
<1>8. Total(g, S) = (CHOOSE k : Adds(g, S, k))[S] /\ Adds(g, S, CHOOSE k : Adds(g, S, k))
  BY <1>5, Unfold
<1>9. (CHOOSE k : Eq(k))[S] = (CHOOSE k : Adds(g, S, k))[S]
  BY <1>2, <1>7, <1>8, AddsUnique
<1>10. MapThenSumSet(LAMBDA k : resource_cpu[exec[w][k].task], S) = Total(g, S)
  BY <1>1, <1>8, <1>9
<1> QED
  BY <1>10 DEF S, g, Fetched

\* The figures of the sums: only the coroutines that have fetched count.
LEMMA HeldTypes ==
    ASSUME NodeTypeOK, FetchedOnce, NEW w \in Workers
    PROVE  /\ IsFiniteSet(Fetched(w)) /\ Fetched(w) \subseteq Slots
           /\ \A k \in Fetched(w) : Holds(w)[k] \in Nat
           /\ Total(Holds(w), Fetched(w)) \in Nat
<1>1. IsFiniteSet(Fetched(w)) /\ Fetched(w) \subseteq Slots
  BY SlotsAssumption, FS_Subset DEF Fetched
<1>2. ASSUME NEW k \in Fetched(w) PROVE Holds(w)[k] \in Nat
  <2>1. k \in Slots /\ exec[w][k].task \in Tasks
    BY DEF Fetched, FetchedOnce, NodeTypeOK
  <2> QED
    BY <2>1, ColumnsAssumption DEF Holds
<1> QED
  BY <1>1, <1>2, TotalNat

\* The coroutines of v that have fetched are the same, with the same tasks.
LEMMA SameHeld ==
    ASSUME NodeTypeOK, FetchedOnce, NEW v \in Workers,
           \A j \in Slots : /\ exec'[v][j].fetched = exec[v][j].fetched
                            /\ exec[v][j].fetched => exec'[v][j].task = exec[v][j].task
    PROVE  Total(Holds(v), Fetched(v))' = Total(Holds(v), Fetched(v))
<1> DEFINE S == Fetched(v)
           g == Holds(v)
           h == Holds(v)'
<1>1. Fetched(v)' = S
  BY DEF Fetched
<1>2. ASSUME NEW k \in S PROVE g[k] = h[k] /\ g[k] \in Int
  <2>1. k \in Slots /\ exec'[v][k].task = exec[v][k].task
    BY DEF Fetched
  <2>2. g[k] \in Int
    BY HeldTypes
  <2> QED
    BY <2>1, <2>2 DEF Holds
<1>3. IsFiniteSet(S)
  BY HeldTypes
<1> HIDE DEF S, g, h
<1>4. Total(g, S) = Total(h, S)
  BY <1>2, <1>3, TotalSame
<1>5. Total(Holds(v), Fetched(v))' = Total(h, S)
  BY <1>1 DEF h
<1> QED
  BY <1>4, <1>5 DEF S, g

\* A worker whose coroutines and figures stay keeps its account.
LEMMA SameAccount ==
    ASSUME NodeTypeOK, FetchedOnce, NEW v \in Workers, Accounted(v),
           reserved'[v] = reserved[v], leaked'[v] = leaked[v], unreserved'[v] = unreserved[v],
           \A j \in Slots : /\ exec'[v][j].fetched = exec[v][j].fetched
                            /\ exec[v][j].fetched => exec'[v][j].task = exec[v][j].task
    PROVE  Accounted(v)'
<1>1. Total(Holds(v), Fetched(v))' = Total(Holds(v), Fetched(v))
  BY SameHeld
<1> QED
  BY <1>1 DEF Accounted

\* Steps that leave every figure alone.
LEMMA KeepCovered ==
    ASSUME NodeTypeOK, FetchedOnce, Covered, UNCHANGED <<reserved, leaked, unreserved>>,
           \A v \in Workers, j \in Slots :
                /\ exec'[v][j].fetched = exec[v][j].fetched
                /\ exec[v][j].fetched => exec'[v][j].task = exec[v][j].task
    PROVE  Covered'
BY SameAccount DEF Covered

\* A coroutine that moves on to another stage holds what it held.
LEMMA StageCovered ==
    ASSUME NodeTypeOK, FetchedOnce, Covered, UNCHANGED <<reserved, leaked, unreserved>>,
           NEW w \in Workers, NEW k \in Slots, NEW st \in Stage \ {"free", "fetch"},
           exec' = [exec EXCEPT ![w][k].stage = st]
    PROVE  FetchedOnce' /\ Covered'
<1>1. exec[w][k] \in Coroutine
  BY DEF NodeTypeOK
<1>2. ASSUME NEW v \in Workers, NEW j \in Slots
      PROVE  /\ exec'[v][j].fetched = exec[v][j].fetched
             /\ exec'[v][j].task = exec[v][j].task
             /\ exec'[v][j].stage \in {exec[v][j].stage, st}
  <2>1. exec'[v][j] = IF v = w /\ j = k THEN [exec[w][k] EXCEPT !.stage = st] ELSE exec[v][j]
    BY DEF NodeTypeOK
  <2> QED
    BY <1>1, <2>1 DEF Coroutine
<1> QED
  BY <1>2, KeepCovered DEF FetchedOnce

\* BLPOP: the new coroutine's slot was free and holds nothing yet.
LEMMA PollCovered ==
    ASSUME NodeTypeOK, FetchedOnce, Covered,
           NEW w \in Workers, NEW k \in Slots, poll_assignment(w, k)
    PROVE  FetchedOnce' /\ Covered'
<1> DEFINE x == [Free EXCEPT !.stage = "fetch", !.task = Head(assignments[w])]
<1>1. x.fetched = FALSE
  BY DEF Free
<1>2. /\ exec' = [exec EXCEPT ![w][k] = x] /\ exec[w][k].stage = "free"
      /\ UNCHANGED <<reserved, leaked, unreserved>>
  BY DEF poll_assignment, FreeSlot
<1>3. exec[w][k].fetched = FALSE
  BY <1>2 DEF FetchedOnce, NodeTypeOK, Coroutine
<1> HIDE DEF x
<1>4. \A v \in Workers, j \in Slots :
        exec'[v][j] = IF v = w /\ j = k THEN x ELSE exec[v][j]
  BY <1>2 DEF NodeTypeOK
<1>5. ASSUME NEW v \in Workers, NEW j \in Slots
      PROVE  /\ exec'[v][j].fetched = exec[v][j].fetched
             /\ exec[v][j].fetched => exec'[v][j] = exec[v][j]
  BY <1>1, <1>3, <1>4
<1> QED
  BY <1>2, <1>5, KeepCovered DEF FetchedOnce

\* reserve, whether add_active_task then answers or raises: the coroutine
\* joins those that hold, with what is reserved.
LEMMA FetchCovered ==
    ASSUME NodeTypeOK, FetchedOnce, Covered,
           NEW w \in Workers, NEW k \in Slots, NEW x,
           At(w, k, "fetch"), UNCHANGED <<leaked, unreserved>>,
           x.fetched = TRUE, x.task = exec[w][k].task, x.stage \in {"report", "fail"},
           exec' = [exec EXCEPT ![w][k] = x],
           reserved' = [reserved EXCEPT ![w] = @ + resource_cpu[exec[w][k].task]]
    PROVE  FetchedOnce' /\ Covered'
<1> DEFINE t == exec[w][k].task
           cpu == resource_cpu[t]
<1>1. exec[w][k] \in Coroutine /\ exec[w][k].stage = "fetch" /\ t \in Tasks
  BY DEF At, NodeTypeOK
<1>2. reserved' = [reserved EXCEPT ![w] = @ + cpu]
  OBVIOUS
<1>3. x.fetched = TRUE /\ x.task = t /\ x.stage \in {"report", "fail"}
  OBVIOUS
<1>4. exec[w][k].fetched = FALSE
  BY <1>1 DEF FetchedOnce, Coroutine
<1>5. cpu \in Nat
  BY <1>1, ColumnsAssumption
<1>6. \A v \in Workers, j \in Slots :
        exec'[v][j] = IF v = w /\ j = k THEN x ELSE exec[v][j]
  BY DEF NodeTypeOK
<1>7. FetchedOnce'
  BY <1>3, <1>6 DEF FetchedOnce
<1>8. ASSUME NEW v \in Workers \ {w} PROVE Accounted(v)'
  <2>1. reserved'[v] = reserved[v] /\ Accounted(v)
    BY <1>2 DEF NodeTypeOK, Covered
  <2> QED
    BY <1>6, <2>1, SameAccount
<1>9. Accounted(w)'
  <2> DEFINE S == Fetched(w)
             g == Holds(w)
  <2>1. Fetched(w)' = S \cup {k} /\ k \notin S
    BY <1>3, <1>4, <1>6 DEF Fetched
  <2>2. Holds(w)' = g /\ g[k] = cpu
    BY <1>3, <1>6 DEF Holds
  <2>3. IsFiniteSet(S) /\ Total(g, S) \in Nat /\ \A j \in S : g[j] \in Nat
    BY HeldTypes
  <2> HIDE DEF S, g, cpu
  <2>4. Total(g, S \cup {k}) = Total(g, S) + g[k]
    BY <1>5, <2>1, <2>2, <2>3, TotalAdd
  <2>5. Total(Holds(w), Fetched(w))' = Total(g, S \cup {k})
    BY <2>1, <2>2
  <2>6. /\ reserved'[w] = reserved[w] + cpu /\ reserved[w] \in Nat
        /\ leaked[w] \in Nat /\ unreserved[w] \in Nat
    BY <1>2 DEF NodeTypeOK
  <2>7. /\ reserved[w] <= Total(g, S) + leaked[w]
        /\ Total(g, S) + leaked[w] <= reserved[w] + unreserved[w]
    BY DEF Covered, Accounted, S, g
  <2>8. /\ reserved'[w] <= Total(Holds(w), Fetched(w))' + leaked[w]
        /\ Total(Holds(w), Fetched(w))' + leaked[w] <= reserved'[w] + unreserved[w]
    BY <1>5, <2>2, <2>3, <2>4, <2>5, <2>6, <2>7
  <2> QED
    BY <2>8 DEF Accounted
<1> QED
  BY <1>7, <1>8, <1>9 DEF Covered

\* The end of a coroutine in the finally block.  One that had fetched its task
\* gives back what it holds, or leaks it when remove_active_task raises; one
\* that had not gives back a default, at most what is reserved, or nothing.
LEMMA EndCovered ==
    ASSUME NodeTypeOK, FetchedOnce, Covered,
           NEW w \in Workers, NEW k \in Slots, At(w, k, "finally"),
           finally(w, k) \/ remove_active_task_error(w, k)
    PROVE  FetchedOnce' /\ Covered'
<1> DEFINE cpu == resource_cpu[exec[w][k].task]
<1>1. exec' = [exec EXCEPT ![w][k] = Free]
  BY DEF finally, remove_active_task_error
<1>2. Free.fetched = FALSE /\ Free.stage = "free"
  BY DEF Free
<1>3. \A v \in Workers, j \in Slots :
        exec'[v][j] = IF v = w /\ j = k THEN Free ELSE exec[v][j]
  BY <1>1 DEF NodeTypeOK
<1>4. FetchedOnce'
  BY <1>2, <1>3 DEF FetchedOnce
<1>5. ASSUME NEW v \in Workers \ {w} PROVE Accounted(v)'
  <2>1. /\ reserved'[v] = reserved[v] /\ leaked'[v] = leaked[v]
        /\ unreserved'[v] = unreserved[v] /\ Accounted(v)
    BY DEF finally, remove_active_task_error, NodeTypeOK, Covered
  <2> QED
    BY <1>3, <2>1, SameAccount
<1>6. reserved[w] \in Nat /\ leaked[w] \in Nat /\ unreserved[w] \in Nat
  BY DEF NodeTypeOK
<1>7. finally(w, k) => /\ reserved'[w] = Released(reserved[w], Claim(w, k))
                       /\ leaked'[w] = leaked[w]
                       /\ unreserved'[w] = IF exec[w][k].fetched THEN unreserved[w]
                                           ELSE unreserved[w] + DefaultCpu
  BY DEF finally, NodeTypeOK
<1>8. remove_active_task_error(w, k) =>
        /\ reserved'[w] = reserved[w] /\ unreserved'[w] = unreserved[w]
        /\ leaked'[w] = IF exec[w][k].fetched THEN leaked[w] + cpu ELSE leaked[w]
  BY DEF remove_active_task_error, NodeTypeOK
<1>9. Accounted(w)'
  <2> DEFINE S == Fetched(w)
             g == Holds(w)
             h == Holds(w)'
  <2>1. Fetched(w)' = S \ {k}
    BY <1>2, <1>3 DEF Fetched
  <2>2. \A j \in S \ {k} : h[j] = g[j]
    BY <1>3 DEF Holds, Fetched
  <2>3. /\ IsFiniteSet(S) /\ Total(g, S) \in Nat /\ \A j \in S : g[j] \in Nat
        /\ reserved[w] <= Total(g, S) + leaked[w]
        /\ Total(g, S) + leaked[w] <= reserved[w] + unreserved[w]
    BY HeldTypes DEF Covered, Accounted
  <2>4. k \in S => exec[w][k].fetched /\ cpu = g[k] /\ Claim(w, k) = cpu
    BY DEF Fetched, Holds, Claim
  <2>5. k \notin S => ~exec[w][k].fetched /\ Claim(w, k) = 1
    BY DEF Fetched, DefaultCpu, Claim
  <2> HIDE DEF S, g, h, cpu
  <2>6. Total(g, S \ {k}) \in Nat /\ IsFiniteSet(S \ {k})
    BY <2>3, TotalNat, FS_RemoveElement
  <2>7. Total(h, S \ {k}) = Total(g, S \ {k})
    BY <2>2, <2>3, <2>6, TotalSame
  <2>8. Total(Holds(w), Fetched(w))' = Total(g, S \ {k})
    <3>1. Total(Holds(w), Fetched(w))' = Total(h, S \ {k})
      BY <2>1 DEF h
    <3> QED
      BY <2>7, <3>1
  <2> DEFINE new == Total(g, S \ {k})
  <2>9. /\ reserved'[w] <= new + leaked'[w]
        /\ new + leaked'[w] <= reserved'[w] + unreserved'[w]
    <3>1. CASE k \in S
      <4>1. Total(g, S) = g[k] + new
        BY <2>3, <3>1, TotalRemove
      <4>2. g[k] \in Nat
        BY <2>3, <3>1
      <4> HIDE DEF new
      <4>3. CASE finally(w, k)
        BY <1>6, <1>7, <2>3, <2>4, <2>6, <3>1, <4>1, <4>2, <4>3 DEF Released, new
      <4>4. CASE remove_active_task_error(w, k)
        BY <1>6, <1>8, <2>3, <2>4, <2>6, <3>1, <4>1, <4>2, <4>4 DEF new
      <4> QED
        BY <4>3, <4>4
    <3>2. CASE k \notin S
      <4>1. new = Total(g, S)
        <5>1. S \ {k} = S
          BY <3>2
        <5> QED
          BY <5>1
      <4> HIDE DEF new
      <4>3. CASE finally(w, k)
        BY <1>6, <1>7, <2>3, <2>5, <3>2, <4>1, <4>3 DEF Released, DefaultCpu
      <4>4. CASE remove_active_task_error(w, k)
        BY <1>6, <1>8, <2>3, <2>5, <3>2, <4>1, <4>4
      <4> QED
        BY <4>3, <4>4
    <3> QED
      BY <3>1, <3>2
  <2> QED
    BY <2>8, <2>9 DEF Accounted
<1> QED
  BY <1>4, <1>5, <1>9 DEF Covered

\* Every step of the cluster keeps the reservations covered.
LEMMA CoveredStep ==
    TypeOK /\ FetchedOnce /\ Covered /\ [Next]_vars => FetchedOnce' /\ Covered'
<1> SUFFICES ASSUME NodeTypeOK, FetchedOnce, Covered, [Next]_vars
             PROVE  FetchedOnce' /\ Covered'
  BY DEF TypeOK
<1>1. ASSUME UNCHANGED <<exec, reserved, leaked, unreserved>> PROVE FetchedOnce' /\ Covered'
  BY <1>1, KeepCovered DEF FetchedOnce
<1>2. CASE UNCHANGED vars
  BY <1>2, <1>1 DEF vars
<1>3. CASE Handlers
  BY <1>3, <1>1 DEF Handlers, Create, Cancel, Respond, HandlerError, Timeout, PostHeartbeat,
                    main, nodeVars, history
<1>4. CASE Loops
  BY <1>4, <1>1 DEF Loops, Reconcile, ReconcileError, Tick, TickError, Detect, DetectError,
                    MasterRestart, nodeVars, history
<1>5. ASSUME NEW w \in Workers, Register(w) \/ Heartbeat(w) \/ Expire(w)
      PROVE  FetchedOnce' /\ Covered'
  BY <1>5, <1>1 DEF Register, Heartbeat, Expire, register_with_master, send_heartbeat,
                    heartbeat_expires, nodeVars, history
<1>6. ASSUME NEW w \in Workers, Stop(w) PROVE FetchedOnce' /\ Covered'
  <2>1. /\ exec' = [exec EXCEPT ![w] = [k \in Slots |-> Free]]
        /\ reserved' = [reserved EXCEPT ![w] = 0]
        /\ leaked' = [leaked EXCEPT ![w] = 0]
        /\ unreserved' = [unreserved EXCEPT ![w] = 0]
    BY <1>6 DEF Stop, stop
  <2>2. \A v \in Workers \ {w} :
            /\ exec'[v] = exec[v] /\ reserved'[v] = reserved[v]
            /\ leaked'[v] = leaked[v] /\ unreserved'[v] = unreserved[v]
    BY <2>1 DEF NodeTypeOK
  <2>3. /\ reserved'[w] = 0 /\ leaked'[w] = 0 /\ unreserved'[w] = 0
        /\ \A k \in Slots : exec'[w][k] = Free
    BY <2>1 DEF NodeTypeOK
  <2>4. \A k \in Slots : exec'[w][k].fetched = FALSE /\ exec'[w][k].stage = "free"
    BY <2>3 DEF Free
  <2>5. FetchedOnce'
    <3> SUFFICES ASSUME NEW v \in Workers, NEW k \in Slots, exec'[v][k].fetched
                 PROVE  exec'[v][k].stage \notin {"free", "fetch"}
      BY DEF FetchedOnce
    <3>1. v # w
      BY <2>4
    <3> QED
      BY <2>2, <3>1 DEF FetchedOnce
  <2>6. ASSUME NEW v \in Workers \ {w} PROVE Accounted(v)'
    BY <2>2, SameAccount DEF Covered
  <2>7. Accounted(w)'
    <3> DEFINE h == Holds(w)'
    <3>1. Fetched(w)' = {}
      BY <2>4 DEF Fetched
    <3> HIDE DEF h
    <3>2. Total(h, {}) = 0
      BY TotalInt, FS_EmptySet
    <3>3. Total(Holds(w), Fetched(w))' = Total(h, {})
      BY <3>1 DEF h
    <3> QED
      BY <2>3, <3>2, <3>3 DEF Accounted
  <2> QED
    BY <2>5, <2>6, <2>7 DEF Covered
<1>7. ASSUME NEW w \in Workers, Listen(w) PROVE FetchedOnce' /\ Covered'
  <2>1. \A v \in Workers, k \in Slots : /\ exec'[v][k].stage = exec[v][k].stage
                                        /\ exec'[v][k].task = exec[v][k].task
                                        /\ exec'[v][k].fetched = exec[v][k].fetched
    <3>1. CASE UNCHANGED exec
      BY <3>1
    <3>2. ASSUME NEW j, exec' = [exec EXCEPT ![w][j].cancel = TRUE]
          PROVE  \A v \in Workers, k \in Slots : /\ exec'[v][k].stage = exec[v][k].stage
                                                 /\ exec'[v][k].task = exec[v][k].task
                                                 /\ exec'[v][k].fetched = exec[v][k].fetched
      BY <3>2 DEF NodeTypeOK, Coroutine
    <3> QED
      BY <1>7, <3>1, <3>2 DEF Listen, _preemption_listener
  <2>2. UNCHANGED <<reserved, leaked, unreserved>>
    BY <1>7 DEF Listen, _preemption_listener, history
  <2> QED
    BY <2>1, <2>2, KeepCovered DEF FetchedOnce
<1>8. ASSUME NEW w \in Workers, NEW k \in Slots, Poll(w, k) \/ Finally(w, k)
      PROVE  FetchedOnce' /\ Covered'
  BY <1>8, PollCovered, EndCovered DEF Poll, Finally, finally
<1>8f. ASSUME NEW w \in Workers, NEW k \in Slots, NEW st \in {"report", "fail"},
              At(w, k, "fetch"), UNCHANGED history,
              exec' = [exec EXCEPT ![w][k].stage = st, ![w][k].fetched = TRUE],
              reserved' = [reserved EXCEPT ![w] = @ + resource_cpu[exec[w][k].task]]
       PROVE  FetchedOnce' /\ Covered'
  <2> DEFINE x == [exec[w][k] EXCEPT !.stage = st, !.fetched = TRUE]
  <2>1. exec[w][k] \in Coroutine
    BY DEF NodeTypeOK
  <2>2. x.fetched = TRUE /\ x.task = exec[w][k].task /\ x.stage = st
    BY <2>1 DEF Coroutine
  <2>3. exec' = [exec EXCEPT ![w][k] = x]
    BY <1>8f DEF NodeTypeOK
  <2> HIDE DEF x
  <2> QED
    BY <1>8f, <2>2, <2>3, FetchCovered DEF history
<1>8r. ASSUME NEW w \in Workers, NEW k \in Slots, Fetch(w, k) \/ RedisError(w, k)
       PROVE  FetchedOnce' /\ Covered'
  <2>1. CASE fetch_task(w, k)
    BY <2>1, <1>8f DEF fetch_task
  <2>2. CASE add_active_task_error(w, k)
    BY <2>2, <1>8f DEF add_active_task_error
  <2>3. CASE remove_active_task_error(w, k)
    BY <2>3, EndCovered DEF remove_active_task_error
  <2> QED
    BY <1>8r, <2>1, <2>2, <2>3 DEF RedisError, Fetch
<1>9. ASSUME NEW w \in Workers, NEW k \in Slots, Execution(w, k),
             ~(Poll(w, k) \/ Fetch(w, k) \/ Finally(w, k) \/ RedisError(w, k))
      PROVE  FetchedOnce' /\ Covered'
  <2>1. /\ UNCHANGED <<reserved, leaked, unreserved>>
        /\ \E st \in Stage \ {"free", "fetch"} : exec' = [exec EXCEPT ![w][k].stage = st]
    BY <1>9 DEF Execution, FetchError, ReportRunning, ReportCompletion, ReportFailure,
                ReportLost, Run, fetch_error, _report_state, _report_completion,
                _report_failure, run_task, Stage, history
  <2> QED
    BY <2>1, StageCovered
<1> QED
  BY <1>2, <1>3, <1>4, <1>5, <1>6, <1>7, <1>8, <1>8r, <1>9 DEF Next, Process

\* For any number of coroutines and any order of fetches, failures, Redis
\* errors and releases, what the reporter of a worker holds reserved is what its
\* live executions reserved, plus what a finally block cut short by a Redis error
\* left behind, less at most the defaults released by executions that had
\* reserved nothing.
THEOREM ReservationsSound == Spec => []ReservationsAccounted
<1>1. Init => FetchedOnce /\ Covered
  <2> SUFFICES ASSUME Init PROVE FetchedOnce /\ Covered
    OBVIOUS
  <2>1. \A w \in Workers, k \in Slots : exec[w][k].fetched = FALSE
    BY DEF Init, NodeInit, Free
  <2>2. \A w \in Workers : reserved[w] = 0 /\ leaked[w] = 0 /\ unreserved[w] = 0
    BY DEF Init, NodeInit
  <2>3. FetchedOnce
    BY <2>1 DEF FetchedOnce
  <2>4. ASSUME NEW w \in Workers PROVE Total(Holds(w), Fetched(w)) = 0
    <3> DEFINE g == Holds(w)
    <3>1. Fetched(w) = {}
      BY <2>1 DEF Fetched
    <3> HIDE DEF g
    <3>2. Total(g, {}) = 0
      BY TotalInt, FS_EmptySet
    <3> QED
      BY <3>1, <3>2 DEF g
  <2> QED
    BY <2>2, <2>3, <2>4 DEF Covered, Accounted
<1>2. TypeOK /\ FetchedOnce /\ Covered /\ [Next]_vars => FetchedOnce' /\ Covered'
  BY CoveredStep
<1>3. Covered => ReservationsAccounted
  <2>1. \A w \in Workers : Held(w) = Total(Holds(w), Fetched(w))
    BY CoveredTotal DEF Held
  <2> QED
    BY <2>1 DEF Covered, Accounted, ReservationsAccounted
<1> QED
  BY <1>1, <1>2, <1>3, TypeCorrect, PTL DEF Spec

-----------------------------------------------------------------------------
(* What a transaction does to the figure of a worker *)

Cpu(S) == Total(resource_cpu, S)

\* Sets of tasks have a total.
LEMMA CpuInt ==
    ASSUME NEW S, S \subseteq Tasks
    PROVE  IsFiniteSet(S) /\ Cpu(S) \in Int /\ \A t \in S : resource_cpu[t] \in Int
<1>1. IsFiniteSet(S) /\ \A t \in S : resource_cpu[t] \in Int
  BY TasksAssumption, ColumnsAssumption, FS_Subset
<1>2. \A A \in SUBSET S : Total(resource_cpu, A) \in Int
  BY <1>1, TotalInt
<1> QED
  BY <1>1, <1>2 DEF Cpu

\* A task that joins a set adds its cpu.
LEMMA CpuAdd ==
    ASSUME NEW S, S \subseteq Tasks, NEW t \in Tasks, t \notin S
    PROVE  Cpu(S \cup {t}) = Cpu(S) + resource_cpu[t]
<1>1. IsFiniteSet(S) /\ \A u \in S \cup {t} : resource_cpu[u] \in Int
  BY CpuInt, ColumnsAssumption
<1> QED
  BY <1>1, TotalAdd DEF Cpu

\* What the open transaction of a adds to the cpu_available of w.
Change(a, w) ==
    IF session_workers[a][w] = None THEN 0
    ELSE session_workers[a][w].new.cpu_available - session_workers[a][w].old.cpu_available

\* Setting a worker's object changes its figure by the difference of the two
\* rows, and no other worker's.
LEMMA ChangeBy ==
    ASSUME StoresTypeOK, NEW a \in Actors, NEW w \in Workers, NEW row \in WorkerRow,
           session_workers' = WithWorker(a, w, row), NEW v \in Workers
    PROVE  Change(a, v)' =
             IF v = w
             THEN Change(a, v) + (row.cpu_available - WorkerObject(a, w).cpu_available)
             ELSE Change(a, v)
<1>1. CASE v # w
  <2>1. session_workers'[a][v] = session_workers[a][v]
    BY <1>1 DEF WithWorker, StoresTypeOK
  <2> QED
    BY <1>1, <2>1 DEF Change
<1>2. CASE v = w
  <2>1. session_workers'[a][w] =
            [old |-> IF session_workers[a][w] = None THEN workers[w]
                     ELSE session_workers[a][w].old,
             new |-> row]
    BY WithWorkerAt
  <2>2. session_workers'[a][w] # None
    <3>1. session_workers'[a][w] \in Loaded(WorkerRow)
      BY <2>1 DEF StoresTypeOK, Loaded
    <3> QED
      BY <3>1, NoneAssumption
  <2>3. row.cpu_available \in Int /\ workers[w].cpu_available \in Int
    BY DEF WorkerRow, StoresTypeOK
  <2>4. CASE session_workers[a][w] = None
    <3>1. Change(a, w)' = row.cpu_available - workers[w].cpu_available
      BY <2>1, <2>2, <2>4 DEF Change
    <3>2. Change(a, w) = 0 /\ WorkerObject(a, w) = workers[w]
      BY <2>4 DEF Change, WorkerObject
    <3> QED
      BY <1>2, <2>3, <3>1, <3>2
  <2>5. CASE session_workers[a][w] # None
    <3> DEFINE o == session_workers[a][w]
    <3>1. o.old.cpu_available \in Int /\ o.new.cpu_available \in Int
      BY <2>5 DEF StoresTypeOK, Loaded, WorkerRow
    <3>2. Change(a, w)' = row.cpu_available - o.old.cpu_available
      BY <2>1, <2>2, <2>5 DEF Change
    <3>3. Change(a, w) = o.new.cpu_available - o.old.cpu_available
          /\ WorkerObject(a, w) = o.new
      BY <2>5 DEF Change, WorkerObject
    <3> QED
      BY <1>2, <2>3, <3>1, <3>2, <3>3
  <2> QED
    BY <2>4, <2>5
<1> QED
  BY <1>1, <1>2

-----------------------------------------------------------------------------
(* The scheduler's books *)

TakenOn(w) ==
    {t \in Tasks : /\ Object(t) # None
                   /\ Object(t).new.state = "SCHEDULED"
                   /\ Object(t).new.worker = w
                   /\ Object(t).new # Object(t).old}
EvictedFrom(w) == {v \in Tasks : Evicted(Object(v)) /\ Object(v).old.worker = w}

\* Only a batch has workers in its session, and what it changes in their
\* figures is what it evicts less what it places.
BatchBooks ==
    \A w \in Workers : Change("scheduler", w) = Cpu(EvictedFrom(w)) - Cpu(TakenOn(w))

BooksInv ==
    /\ sched.phase \notin {"batch", "evict"} =>
            \A w \in Workers : session_workers["scheduler"][w] = None
    /\ sched.phase \in {"batch", "evict"} => BatchBooks

\* The sums have values.
LEMMA BooksInt ==
    ASSUME StoresTypeOK, NEW w \in Workers
    PROVE  /\ Cpu(EvictedFrom(w)) \in Int /\ Cpu(TakenOn(w)) \in Int
           /\ Change("scheduler", w) \in Int
<1>1. EvictedFrom(w) \subseteq Tasks /\ TakenOn(w) \subseteq Tasks
  BY DEF EvictedFrom, TakenOn
<1>2. Change("scheduler", w) \in Int
  BY DEF Change, StoresTypeOK, Actors, Loaded, WorkerRow
<1> QED
  BY <1>1, <1>2, CpuInt

\* An empty session is in balance.
LEMMA EmptyBooks ==
    ASSUME \A t \in Tasks : session_tasks'["scheduler"][t] = None,
           \A w \in Workers : session_workers'["scheduler"][w] = None
    PROVE  BooksInv'
<1>1. ASSUME NEW w \in Workers
      PROVE  Change("scheduler", w)' = Cpu(EvictedFrom(w)') - Cpu(TakenOn(w)')
  <2>1. EvictedFrom(w)' = {} /\ TakenOn(w)' = {}
    BY DEF EvictedFrom, TakenOn, Evicted, Object
  <2>2. Change("scheduler", w)' = 0
    BY DEF Change
  <2>3. Cpu({}) = 0
    BY TotalInt, FS_EmptySet DEF Cpu
  <2> QED
    BY <2>1, <2>2, <2>3
<1>2. BatchBooks'
  BY <1>1 DEF BatchBooks, Cpu
<1> QED
  BY <1>2 DEF BooksInv

\* Whoever else takes a step.
LEMMA KeepBooks ==
    ASSUME BooksInv, session_tasks'["scheduler"] = session_tasks["scheduler"],
           session_workers'["scheduler"] = session_workers["scheduler"],
           sched'.phase = sched.phase
    PROVE  BooksInv'
<1>1. ASSUME NEW w \in Workers
      PROVE  /\ Change("scheduler", w)' = Change("scheduler", w)
             /\ EvictedFrom(w)' = EvictedFrom(w) /\ TakenOn(w)' = TakenOn(w)
  BY DEF Change, EvictedFrom, TakenOn, Object
<1>2. BatchBooks => BatchBooks'
  BY <1>1 DEF BatchBooks, Cpu
<1> QED
  BY <1>2 DEF BooksInv

\* A placement moves the cpu of the task from the figure of the worker to what
\* the batch has taken there.
LEMMA PlacedBooks ==
    ASSUME StoresTypeOK, BatchBooks, NEW t \in Tasks, NEW w \in Workers, Placed(t, w),
           TaskObject("scheduler", t).state = "PENDING",
           Object(t) # None => Object(t).old.state # "SCHEDULED"
    PROVE  BatchBooks'
<1> DEFINE row == [WorkerObject("scheduler", w) EXCEPT !.cpu_available = @ - resource_cpu[t]]
<1>a. "scheduler" \in Actors /\ resource_cpu[t] \in Int
  BY ColumnsAssumption DEF Actors
<1>b. WorkerObject("scheduler", w) \in WorkerRow
  BY <1>a, ObjectType
<1>c. /\ row \in WorkerRow
      /\ row.cpu_available - WorkerObject("scheduler", w).cpu_available = -resource_cpu[t]
  BY <1>a, <1>b DEF WorkerRow
<1>d. session_workers' = WithWorker("scheduler", w, row)
  BY DEF Placed, me
<1> HIDE DEF row
<1>1. ASSUME NEW v \in Workers
      PROVE  Change("scheduler", v)' = IF v = w THEN Change("scheduler", v) - resource_cpu[t]
                                       ELSE Change("scheduler", v)
  <2>1. Change("scheduler", v)' =
            IF v = w
            THEN Change("scheduler", v)
                    + (row.cpu_available - WorkerObject("scheduler", w).cpu_available)
            ELSE Change("scheduler", v)
    BY <1>a, <1>c, <1>d, ChangeBy
  <2> QED
    BY <1>a, <1>c, <2>1, BooksInt
<1>2. /\ Object(t) = None => tasks[t].state = "PENDING"
      /\ Object(t) # None => Object(t).new.state = "PENDING"
  BY DEF TaskObject, Object
<1>3. ASSUME NEW v \in Workers PROVE EvictedFrom(v)' = EvictedFrom(v)
  <2>1. ASSUME NEW u \in Tasks
        PROVE  Evicted(Object(u)') /\ Object(u)'.old.worker = v
                    <=> Evicted(Object(u)) /\ Object(u).old.worker = v
    <3>1. CASE u = t
      BY <1>2, <3>1, PlacedObject DEF Evicted
    <3>2. CASE u # t
      BY <3>2, PlacedObject
    <3> QED
      BY <3>1, <3>2
  <2> QED
    BY <2>1 DEF EvictedFrom
<1>4. ASSUME NEW v \in Workers
      PROVE  TakenOn(v)' = IF v = w THEN TakenOn(v) \cup {t} ELSE TakenOn(v)
  <2>1. /\ Object(t)' # None /\ Object(t)'.new.state = "SCHEDULED" /\ Object(t)'.new.worker = w
        /\ \A u \in Tasks \ {t} : Object(u)' = Object(u)
    BY PlacedObject
  <2>2. Object(t)'.new # Object(t)'.old
    <3>1. Object(t)'.old.state # "SCHEDULED"
      BY <1>2, PlacedObject
    <3> QED
      BY <2>1, <3>1
  <2>3. t \notin TakenOn(v)
    BY <1>2 DEF TakenOn
  <2> QED
    BY <2>1, <2>2, <2>3 DEF TakenOn
<1>5. ASSUME NEW v \in Workers
      PROVE  Change("scheduler", v)' = Cpu(EvictedFrom(v)') - Cpu(TakenOn(v)')
  <2>1. Change("scheduler", v) = Cpu(EvictedFrom(v)) - Cpu(TakenOn(v))
    BY DEF BatchBooks
  <2>2. CASE v # w
    BY <1>1, <1>3, <1>4, <2>1, <2>2
  <2>3. CASE v = w
    <3>1. t \notin TakenOn(v) /\ TakenOn(v) \subseteq Tasks
      BY <1>2 DEF TakenOn
    <3>2. Cpu(TakenOn(v) \cup {t}) = Cpu(TakenOn(v)) + resource_cpu[t]
      BY <3>1, CpuAdd
    <3>3. Cpu(TakenOn(v)') = Cpu(TakenOn(v) \cup {t})
      BY <1>4, <2>3
    <3>4. Cpu(EvictedFrom(v)') = Cpu(EvictedFrom(v))
      BY <1>3
    <3>5. Change("scheduler", v)' = Change("scheduler", v) - resource_cpu[t]
      BY <1>1, <2>3
    <3> QED
      BY <1>a, <2>1, <3>2, <3>3, <3>4, <3>5, BooksInt
  <2> QED
    BY <2>2, <2>3
<1> QED
  BY <1>5 DEF BatchBooks, Cpu

\* An eviction moves the cpu of the victim to the figure of the worker.
LEMMA EvictBooks ==
    ASSUME StoresTypeOK, SchedTypeOK, SessionInv, BatchBooks, NEW x \in Tasks, evict(x)
    PROVE  BatchBooks'
<1> DEFINE w == sched.plan.worker
           row == [WorkerObject("scheduler", w) EXCEPT !.cpu_available = @ + resource_cpu[x]]
           new == Preempted(TaskObject("scheduler", x), x)
<1>a. "scheduler" \in Actors /\ resource_cpu[x] \in Int
  BY ColumnsAssumption DEF Actors
<1>b. sched.phase = "evict" /\ x \in sched.plan.victims /\ w \in Workers
  BY DEF evict, SchedTypeOK
<1>c. WorkerObject("scheduler", w) \in WorkerRow /\ TaskObject("scheduler", x) \in TaskRow
  BY <1>a, <1>b, ObjectType
<1>d. /\ row \in WorkerRow
      /\ row.cpu_available - WorkerObject("scheduler", w).cpu_available = resource_cpu[x]
  BY <1>a, <1>c DEF WorkerRow
<1>e. /\ session_workers' = WithWorker("scheduler", w, row)
      /\ session_tasks' = WithTask("scheduler", x, new)
  BY DEF evict, me
<1>f. new \in TaskRow /\ new.state \in {"PENDING", "PREEMPTED"}
  BY <1>c DEF Preempted, Requeued, TaskRow, TaskState
<1>g. Doomed(x)
  BY <1>b DEF SessionInv, PlanInv
<1> HIDE DEF row, new
<1>1. ASSUME NEW v \in Workers
      PROVE  Change("scheduler", v)' = IF v = w THEN Change("scheduler", v) + resource_cpu[x]
                                       ELSE Change("scheduler", v)
  <2>1. Change("scheduler", v)' =
            IF v = w
            THEN Change("scheduler", v)
                    + (row.cpu_available - WorkerObject("scheduler", w).cpu_available)
            ELSE Change("scheduler", v)
    BY <1>a, <1>b, <1>d, <1>e, ChangeBy
  <2> QED
    BY <1>d, <2>1
<1>2. Object(x)' = [old |-> Object(x).old, new |-> new]
  BY <1>a, <1>e, <1>g, WithTaskAt DEF Object, Doomed
<1>3. Object(x)' # None
  <2>1. Object(x)' \in Loaded(TaskRow)
    BY <1>a, <1>f, <1>g, <1>2 DEF Doomed, StoresTypeOK, Object, Loaded
  <2> QED
    BY <2>1, NoneAssumption
<1>4. \A u \in Tasks \ {x} : Object(u)' = Object(u)
  BY <1>a, <1>e DEF WithTask, StoresTypeOK, Object
<1>5. /\ Object(x) # None
      /\ Object(x).old.state = "RUNNING" /\ Object(x).new.state = "RUNNING"
      /\ Object(x).old.worker = w
  BY <1>g DEF Doomed
<1> HIDE DEF w
<1>6. ASSUME NEW v \in Workers PROVE TakenOn(v)' = TakenOn(v)
  <2>1. x \notin TakenOn(v) /\ x \notin TakenOn(v)'
    BY <1>2, <1>5, <1>f DEF TakenOn
  <2> QED
    BY <1>4, <2>1 DEF TakenOn
<1>7. ASSUME NEW v \in Workers
      PROVE  /\ x \notin EvictedFrom(v)
             /\ EvictedFrom(v)' = IF v = w THEN EvictedFrom(v) \cup {x} ELSE EvictedFrom(v)
  <2>1. x \notin EvictedFrom(v)
    BY <1>5 DEF EvictedFrom, Evicted
  <2>2. Evicted(Object(x)') /\ Object(x)'.old.worker = w
    BY <1>2, <1>3, <1>5, <1>f DEF Evicted
  <2> QED
    BY <1>4, <2>1, <2>2 DEF EvictedFrom
<1>8. ASSUME NEW v \in Workers
      PROVE  Change("scheduler", v)' = Cpu(EvictedFrom(v)') - Cpu(TakenOn(v)')
  <2>1. Change("scheduler", v) = Cpu(EvictedFrom(v)) - Cpu(TakenOn(v))
    BY DEF BatchBooks
  <2>2. CASE v # w
    BY <1>1, <1>6, <1>7, <2>1, <2>2
  <2>3. CASE v = w
    <3>1. EvictedFrom(v) \subseteq Tasks
      BY DEF EvictedFrom
    <3>2. Cpu(EvictedFrom(v) \cup {x}) = Cpu(EvictedFrom(v)) + resource_cpu[x]
      BY <1>7, <3>1, CpuAdd
    <3>3. Cpu(EvictedFrom(v)') = Cpu(EvictedFrom(v) \cup {x})
      BY <1>7, <2>3
    <3>4. Cpu(TakenOn(v)') = Cpu(TakenOn(v))
      BY <1>6
    <3>5. Change("scheduler", v)' = Change("scheduler", v) + resource_cpu[x]
      BY <1>1, <2>3
    <3> QED
      BY <1>a, <2>1, <3>2, <3>3, <3>4, <3>5, BooksInt
  <2> QED
    BY <2>2, <2>3
<1> QED
  BY <1>8 DEF BatchBooks, Cpu

\* Reading the rows of a plan changes no book.
LEMMA PreemptBooks ==
    ASSUME StoresTypeOK, SchedTypeOK, SessionInv, BatchBooks, NEW t \in Tasks, preempt(t)
    PROVE  BatchBooks'
<1>a. "scheduler" \in Actors
  BY DEF Actors
<1>1. PICK p \in _find_preemption_candidates(t) :
        /\ session_tasks' = [session_tasks EXCEPT !["scheduler"] =
                [u \in Tasks |-> IF u \in p.victims \cup {t} /\ @[u] = None
                                 THEN [old |-> tasks[u], new |-> tasks[u]] ELSE @[u]]]
        /\ session_workers' =
                WithWorker("scheduler", p.worker, WorkerObject("scheduler", p.worker))
  BY DEF preempt, me
<1>2. p.worker \in Workers
  BY DEF _find_preemption_candidates
<1>3. WorkerObject("scheduler", p.worker) \in WorkerRow
  BY <1>a, <1>2, ObjectType
<1>4. ASSUME NEW v \in Workers PROVE Change("scheduler", v)' = Change("scheduler", v)
  <2> DEFINE row == WorkerObject("scheduler", p.worker)
  <2>1. Change("scheduler", v)' =
            IF v = p.worker
            THEN Change("scheduler", v) + (row.cpu_available - row.cpu_available)
            ELSE Change("scheduler", v)
    BY <1>a, <1>1, <1>2, <1>3, ChangeBy
  <2>2. row.cpu_available - row.cpu_available = 0
    BY <1>3 DEF WorkerRow
  <2> QED
    BY <2>1, <2>2, BooksInt
<1>5. \A u \in Tasks : \/ Object(u)' = Object(u)
                       \/ /\ Object(u) = None
                          /\ Object(u)' = [old |-> tasks[u], new |-> tasks[u]]
  BY <1>1, <1>a DEF Object, StoresTypeOK
<1>6. ASSUME NEW v \in Workers
      PROVE  TakenOn(v)' = TakenOn(v) /\ EvictedFrom(v)' = EvictedFrom(v)
  <2>1. ASSUME NEW u \in Tasks
        PROVE  /\ Evicted(Object(u)') /\ Object(u)'.old.worker = v
                    <=> Evicted(Object(u)) /\ Object(u).old.worker = v
               /\ u \in TakenOn(v)' <=> u \in TakenOn(v)
    BY <1>5 DEF Evicted, TakenOn
  <2>2. TakenOn(v) \subseteq Tasks /\ TakenOn(v)' \subseteq Tasks
    BY DEF TakenOn
  <2> QED
    BY <2>1, <2>2 DEF EvictedFrom
<1> QED
  BY <1>4, <1>6 DEF BatchBooks, Cpu

\* A reconciliation, which has no worker in its session.
LEMMA ReconcileBooks ==
    ASSUME StoresTypeOK, SchedTypeOK, BooksInv, Reconcile \/ ReconcileError
    PROVE  BooksInv'
<1>1. CASE reconciled \/ reconcile_abort
  <2>1. Forget("scheduler")
    BY <1>1 DEF reconciled, reconcile_abort, Rollback, me
  <2> QED
    BY <2>1, ForgetAt, EmptyBooks DEF Actors
<1>2. CASE \/ _reconcile_pending_tasks \/ enqueue_missing \/ _reconcile_scheduled_tasks
           \/ \E t \in Tasks : repush(t)
  <2>1. /\ sched.phase \notin {"batch", "evict"} /\ sched'.phase \notin {"batch", "evict"}
        /\ UNCHANGED session_workers
    BY <1>2 DEF _reconcile_pending_tasks, enqueue_missing, _reconcile_scheduled_tasks, repush,
                SchedTypeOK, sessions
  <2> QED
    BY <2>1 DEF BooksInv
<1> QED
  BY <1>1, <1>2 DEF Reconcile, ReconcileError

\* A tick: the books start empty, every placement and eviction keeps them, and
\* the end of the transaction empties them.
LEMMA TickBooks ==
    ASSUME StoresTypeOK, SchedTypeOK, SessionInv, BooksInv, Tick \/ TickError
    PROVE  BooksInv'
<1>1. CASE _tick \/ _schedule_batch
  <2>1. sched.phase \in {"idle", "popped"} /\ UNCHANGED sessions
    BY <1>1 DEF _tick, _schedule_batch
  <2>2. /\ \A t \in Tasks : session_tasks["scheduler"][t] = None
        /\ \A w \in Workers : session_workers["scheduler"][w] = None
    BY <2>1 DEF SessionInv, BooksInv, Object
  <2> QED
    BY <2>1, <2>2, EmptyBooks DEF sessions
<1>2. ASSUME NEW t \in Tasks, skip(t) \/ no_capacity(t) PROVE BooksInv'
  <2>1. UNCHANGED sessions /\ sched'.phase = sched.phase
    BY <1>2 DEF skip, no_capacity, SchedTypeOK
  <2> QED
    BY <2>1, KeepBooks DEF sessions
<1>3. ASSUME NEW t \in Tasks, _try_schedule_task(t) PROVE BooksInv'
  <2>1. PICK w \in Workers : Placed(t, w)
    BY <1>3 DEF _try_schedule_task, spread_schedule
  <2>2. /\ sched.phase = "batch" /\ sched'.phase = "batch"
        /\ TaskObject("scheduler", t).state = "PENDING"
    BY <1>3 DEF _try_schedule_task, Turn, SchedTypeOK, me
  <2>3. BatchInv /\ BatchBooks
    BY <2>2 DEF SessionInv, BooksInv
  <2>4. Object(t) # None => Object(t).old.state # "SCHEDULED"
    BY <2>3 DEF BatchInv, Changed
  <2> QED
    BY <2>1, <2>2, <2>3, <2>4, PlacedBooks DEF BooksInv
<1>4. CASE place
  <2>1. PICK t \in Tasks, w \in Workers : t = sched.plan.task /\ Placed(t, w)
    BY <1>4 DEF place, SchedTypeOK
  <2>2. sched.phase = "evict" /\ sched'.phase = "batch"
    BY <1>4 DEF place, SchedTypeOK
  <2>3. PlanInv /\ BatchBooks
    BY <2>2 DEF SessionInv, BooksInv
  <2>4. /\ TaskObject("scheduler", t).state = "PENDING"
        /\ Object(t).old.state # "SCHEDULED"
    BY <2>1, <2>3 DEF PlanInv, TaskObject, Object
  <2> QED
    BY <2>1, <2>2, <2>3, <2>4, PlacedBooks DEF BooksInv
<1>5. ASSUME NEW t \in Tasks, preempt(t) \/ evict(t) PROVE BooksInv'
  <2>1. sched.phase \in {"batch", "evict"} /\ sched'.phase = "evict"
    BY <1>5 DEF preempt, NeedsPreemption, Turn, evict, SchedTypeOK
  <2> QED
    BY <1>5, <2>1, PreemptBooks, EvictBooks DEF BooksInv
<1>6. CASE batch_commit \/ batch_abort
  <2>1. Forget("scheduler")
    BY <1>6 DEF batch_commit, batch_abort, Commit, Rollback, me
  <2> QED
    BY <2>1, ForgetAt, EmptyBooks DEF Actors
<1> QED
  BY <1>1, <1>2, <1>3, <1>4, <1>5, <1>6 DEF Tick, TickError

\* Every step of the cluster keeps the scheduler's books.
LEMMA BooksStep ==
    ASSUME SInv, BooksInv, [Next]_vars
    PROVE  BooksInv'
<1> USE DEF SInv, TypeOK
<1>a. ASSUME session_tasks'["scheduler"] = session_tasks["scheduler"],
             session_workers'["scheduler"] = session_workers["scheduler"], UNCHANGED sched
      PROVE  BooksInv'
  BY <1>a, KeepBooks
<1>1. CASE UNCHANGED vars
  BY <1>1, <1>a DEF vars
<1>2. CASE \/ Handlers
           \/ \E w \in Workers : Process(w)
           \/ \E w \in Workers, k \in Slots : Execution(w, k)
  BY <1>2, <1>a, LoopsUntouched
<1>3. CASE Reconcile \/ ReconcileError
  BY <1>3, ReconcileBooks
<1>4. CASE Tick \/ TickError
  BY <1>4, TickBooks
<1>5. CASE Detect \/ DetectError
  <2>1. /\ session_tasks'["scheduler"] = session_tasks["scheduler"]
        /\ session_workers'["scheduler"] = session_workers["scheduler"]
    BY <1>5, DetectorTouches DEF OnlyTouches, Actors
  <2>2. UNCHANGED sched
    BY <1>5 DEF Detect, DetectError
  <2> QED
    BY <1>a, <2>1, <2>2
<1>6. CASE MasterRestart
  BY <1>6, EmptyBooks DEF MasterRestart, Actors
<1> QED
  BY <1>1, <1>2, <1>3, <1>4, <1>5, <1>6 DEF Next, Loops

\* The invariant of the scheduler's books holds.
LEMMA BooksInvariance == Spec => []BooksInv
<1>1. Init => BooksInv
  BY DEF Init, StoresInit, SchedStart, BooksInv, Actors
<1>2. SInv /\ BooksInv /\ [Next]_vars => BooksInv'
  BY BooksStep
<1> QED
  BY <1>1, <1>2, SchedulerInvariance, PTL DEF Spec

\* What a batch changes in the cpu_available of a worker is what it evicts
\* there less what it places there, for any number of tasks and workers: no
\* order of placements, plans and evictions, and no commit of another
\* transaction while it is open, puts the session's books out.
THEOREM BatchBooksBalance == Spec => []SchedulerBooksBalance
<1>1. BooksInv => SchedulerBooksBalance
  <2> SUFFICES ASSUME BooksInv, NEW w \in Workers, session_workers["scheduler"][w] # None
               PROVE  session_workers["scheduler"][w].new.cpu_available
                        - session_workers["scheduler"][w].old.cpu_available
                      = Cpu(EvictedFrom(w)) - Cpu(TakenOn(w))
    BY DEF SchedulerBooksBalance, Cpu, Total, EvictedFrom, TakenOn, Evicted, Object
  <2>1. BatchBooks
    BY DEF BooksInv
  <2> QED
    BY <2>1 DEF BatchBooks, Change
<1> QED
  BY <1>1, BooksInvariance, PTL

-----------------------------------------------------------------------------
(* Commits and the table's books *)

\* The row takes cpu of w.
On(row, w) == row.worker = w /\ row.state \in {"SCHEDULED", "RUNNING"}

Assigned(w) == {t \in Tasks : On(tasks[t], w)}

\* The tasks the transaction of a takes off w, and puts on w.
Leaves(a, w) == {t \in Tasks : /\ session_tasks[a][t] # None
                               /\ On(session_tasks[a][t].old, w)
                               /\ ~On(session_tasks[a][t].new, w)}
Enters(a, w) == {t \in Tasks : /\ session_tasks[a][t] # None
                               /\ ~On(session_tasks[a][t].old, w)
                               /\ On(session_tasks[a][t].new, w)}

\* The transaction of a gives back what it takes off and takes what it puts on.
Balanced(a) == \A w \in Workers : Change(a, w) = Cpu(Leaves(a, w)) - Cpu(Enters(a, w))

LedgerSums == \A w \in Workers : Ledger(w) = workers[w].cpu_available + Cpu(Assigned(w))

\* The ledger of the property is a sum over the assigned tasks, in every state.
LEMMA LedgerTotal == LedgerSums /\ LedgerSums'
<1>1. LedgerSums
  BY DEF LedgerSums, Ledger, Cpu, Total, Assigned, On
<1> QED
  BY <1>1, PTL

\* What a transaction leaves of rows nobody changed since it read them: its
\* objects.
LEMMA FreshRows ==
    ASSUME StoresTypeOK, NEW a \in Actors, Fresh(a), Commit(a)
    PROVE  /\ \A t \in Tasks, w \in Workers :
                On(tasks'[t], w) <=> IF session_tasks[a][t] = None THEN On(tasks[t], w)
                                     ELSE On(session_tasks[a][t].new, w)
           /\ \A w \in Workers :
                workers'[w].cpu_available = workers[w].cpu_available + Change(a, w)
<1>1. ASSUME NEW t \in Tasks, NEW w \in Workers
      PROVE  On(tasks'[t], w) <=> IF session_tasks[a][t] = None THEN On(tasks[t], w)
                                  ELSE On(session_tasks[a][t].new, w)
  <2>1. tasks'[t] = FlushedTask(a, t)
    BY DEF Commit
  <2>2. CASE session_tasks[a][t] = None
    BY <2>1, <2>2 DEF FlushedTask
  <2>3. CASE session_tasks[a][t] # None
    <3>1. session_tasks[a][t].old = tasks[t]
      BY <2>3 DEF Fresh
    <3>2. /\ tasks'[t].state = session_tasks[a][t].new.state
          /\ tasks'[t].worker = session_tasks[a][t].new.worker
      BY <2>1, <2>3, <3>1 DEF FlushedTask, Column
    <3> QED
      BY <2>3, <3>2 DEF On
  <2> QED
    BY <2>2, <2>3
<1>2. ASSUME NEW w \in Workers
      PROVE  workers'[w].cpu_available = workers[w].cpu_available + Change(a, w)
  <2>0. workers'[w] = FlushedWorker(a, w) /\ workers[w].cpu_available \in Int
    BY DEF Commit, StoresTypeOK, WorkerRow
  <2>1. CASE session_workers[a][w] = None
    BY <2>0, <2>1 DEF FlushedWorker, Change
  <2>2. CASE session_workers[a][w] # None
    <3>1. session_workers[a][w].old = workers[w]
      BY <2>2 DEF Fresh
    <3>2. session_workers[a][w].new.cpu_available \in Int
      BY <2>2 DEF StoresTypeOK, Loaded, WorkerRow
    <3>3. workers'[w].cpu_available = session_workers[a][w].new.cpu_available
      BY <2>0, <2>2, <3>1 DEF FlushedWorker, Column
    <3> QED
      BY <2>0, <2>2, <3>1, <3>2, <3>3 DEF Change
  <2> QED
    BY <2>1, <2>2
<1> QED
  BY <1>1, <1>2

\* A transaction over fresh rows that is balanced for a worker keeps what the
\* worker has left and what is assigned to it together.
LEMMA FreshCommit ==
    ASSUME StoresTypeOK, NEW a \in Actors, Fresh(a), Commit(a), NEW w \in Workers,
           Change(a, w) = Cpu(Leaves(a, w)) - Cpu(Enters(a, w))
    PROVE  Ledger(w)' = Ledger(w)
<1> DEFINE A == Assigned(w)
           L == Leaves(a, w)
           E == Enters(a, w)
<1>1. Assigned(w)' = (A \ L) \cup E
  <2>1. \A t \in Tasks : On(tasks'[t], w) <=> IF session_tasks[a][t] = None THEN On(tasks[t], w)
                                              ELSE On(session_tasks[a][t].new, w)
    BY FreshRows
  <2>2. \A t \in Tasks : session_tasks[a][t] # None => session_tasks[a][t].old = tasks[t]
    BY DEF Fresh
  <2> QED
    BY <2>1, <2>2 DEF Assigned, Leaves, Enters
<1>2. L \subseteq A /\ (A \ L) \cap E = {}
  BY DEF Assigned, Leaves, Enters, Fresh
<1>3. A \subseteq Tasks /\ L \subseteq Tasks /\ E \subseteq Tasks /\ A \ L \subseteq Tasks
  BY DEF Assigned, Leaves, Enters
<1>4. /\ workers'[w].cpu_available = workers[w].cpu_available + Change(a, w)
      /\ Change(a, w) = Cpu(L) - Cpu(E)
      /\ workers[w].cpu_available \in Int
  BY FreshRows DEF StoresTypeOK, WorkerRow
<1>5. Ledger(w) = workers[w].cpu_available + Cpu(A)
  BY LedgerTotal DEF LedgerSums
<1>6. Ledger(w)' = workers'[w].cpu_available + Cpu(Assigned(w)')
  BY LedgerTotal DEF LedgerSums
<1> HIDE DEF A, L, E
<1>7. Cpu((A \ L) \cup E) = Cpu(A \ L) + Cpu(E)
  BY <1>2, <1>3, CpuInt, TotalUnion DEF Cpu
<1>8. Cpu((A \ L) \cup L) = Cpu(A \ L) + Cpu(L)
  BY <1>2, <1>3, CpuInt, TotalUnion DEF Cpu
<1>9. Cpu((A \ L) \cup L) = Cpu(A)
  <2>1. (A \ L) \cup L = A
    BY <1>2
  <2> QED
    BY <2>1
<1>10. Cpu(Assigned(w)') = Cpu((A \ L) \cup E)
  BY <1>1
<1>11. Cpu(A) \in Int /\ Cpu(L) \in Int /\ Cpu(E) \in Int /\ Cpu(A \ L) \in Int
  BY <1>3, CpuInt
<1> QED
  BY <1>4, <1>5, <1>6, <1>7, <1>8, <1>9, <1>10, <1>11

\* A batch that is about to commit is balanced.  A task it evicts and places
\* on the same worker again (B) counts on both sides.
LEMMA BatchBalanced ==
    ASSUME StoresTypeOK, SessionInv, BooksInv, sched.phase = "batch"
    PROVE  Balanced("scheduler")
<1>1. BatchInv /\ BatchBooks
  BY DEF SessionInv, BooksInv
<1> SUFFICES ASSUME NEW w \in Workers
             PROVE  Cpu(EvictedFrom(w)) - Cpu(TakenOn(w))
                        = Cpu(Leaves("scheduler", w)) - Cpu(Enters("scheduler", w))
  BY <1>1 DEF Balanced, BatchBooks
<1> DEFINE L == Leaves("scheduler", w)
           E == Enters("scheduler", w)
           B == EvictedFrom(w) \cap TakenOn(w)
<1>2. ASSUME NEW t \in Tasks
      PROVE  /\ t \in L <=> t \in EvictedFrom(w) /\ t \notin TakenOn(w)
             /\ t \in E <=> t \in TakenOn(w) /\ t \notin EvictedFrom(w)
  <2> DEFINE o == Object(t)
  <2>1. o # None => /\ o.old.state \in {"PENDING", "RUNNING"}
                    /\ o.new.state \notin {o.old.state, "RUNNING"}
    BY <1>1 DEF BatchInv, Changed
  <2>2. /\ t \in L <=> o # None /\ On(o.old, w) /\ ~On(o.new, w)
        /\ t \in E <=> o # None /\ ~On(o.old, w) /\ On(o.new, w)
    BY DEF Leaves, Enters, Object
  <2>3. /\ t \in EvictedFrom(w) <=> /\ o # None /\ o.old.state = "RUNNING"
                                    /\ o.new.state # "RUNNING" /\ o.old.worker = w
        /\ t \in TakenOn(w) <=> /\ o # None /\ o.new.state = "SCHEDULED"
                                /\ o.new.worker = w /\ o.new # o.old
    BY DEF EvictedFrom, Evicted, TakenOn
  <2> HIDE DEF o
  <2>4. o # None => /\ On(o.old, w) <=> o.old.state = "RUNNING" /\ o.old.worker = w
                    /\ On(o.new, w) <=> o.new.state = "SCHEDULED" /\ o.new.worker = w
                    /\ o.new # o.old
    BY <2>1 DEF On
  <2> HIDE DEF L, E
  <2> QED
    BY <2>1, <2>2, <2>3, <2>4
<1>3. /\ L \subseteq Tasks /\ E \subseteq Tasks /\ B \subseteq Tasks
      /\ EvictedFrom(w) \subseteq Tasks /\ TakenOn(w) \subseteq Tasks
  BY DEF Leaves, Enters, EvictedFrom, TakenOn
<1> HIDE DEF L, E
<1>4. /\ EvictedFrom(w) = L \cup B /\ TakenOn(w) = E \cup B
      /\ L \cap B = {} /\ E \cap B = {}
  BY <1>2, <1>3
<1> HIDE DEF B
<1>5. Cpu(L \cup B) = Cpu(L) + Cpu(B) /\ Cpu(E \cup B) = Cpu(E) + Cpu(B)
  BY <1>3, <1>4, CpuInt, TotalUnion DEF Cpu
<1>6. Cpu(L) \in Int /\ Cpu(E) \in Int /\ Cpu(B) \in Int
  BY <1>3, CpuInt
<1>7. Cpu(EvictedFrom(w)) = Cpu(L \cup B) /\ Cpu(TakenOn(w)) = Cpu(E \cup B)
  BY <1>4
<1>8. Cpu(EvictedFrom(w)) - Cpu(TakenOn(w)) = Cpu(L) - Cpu(E)
  BY <1>5, <1>6, <1>7
<1> QED
  BY <1>8 DEF L, E

-----------------------------------------------------------------------------
(* The handlers' books *)

\* The handlers that account for what they do to a task.
Accounting == {"create", "state", "complete", "fail"}

Begins(s) ==
    \E t \in Tasks, c \in Callers \cup {None} :
        \/ create_task(s, t) \/ update_task_state(s, t, "RUNNING", c)
        \/ complete_task(s, t, c) \/ fail_task(s, t, c)

HandlersBalanced == \A s \in Sessions : api[s].op \in Accounting => Balanced(s)

\* What may become of the session of a handler in one step: it stays as it is,
\* it ends or serves a request of another kind, or a handler has just run in it.
LEMMA SessionFate ==
    ASSUME TypeOK, [Next]_vars, NEW s \in Sessions
    PROVE  \/ /\ session_tasks'[s] = session_tasks[s]
              /\ session_workers'[s] = session_workers[s]
              /\ api'[s].op = api[s].op
           \/ api'[s].op \notin Accounting
           \/ Begins(s)
<1> DEFINE Same == /\ session_tasks'[s] = session_tasks[s]
                   /\ session_workers'[s] = session_workers[s]
                   /\ api'[s].op = api[s].op
           Fate == Same \/ api'[s].op \notin Accounting \/ Begins(s)
<1> SUFFICES Fate
  OBVIOUS
<1> USE DEF TypeOK
<1>a. s \in Actors /\ s # "scheduler" /\ s # "detector"
  BY SessionsAssumption DEF Actors
<1>b. ASSUME UNCHANGED <<api, sessions>> PROVE Fate
  BY <1>b DEF sessions
<1>c. ASSUME NEW z \in Sessions, OnlyTouches(z), NEW op, NEW c, Open(z, op, c),
             s = z => Begins(s) \/ op \notin Accounting
      PROVE  Fate
  <2>1. CASE s = z
    <3>1. api'[s].op = op
      BY <1>c, <2>1 DEF Open, ApiTypeOK
    <3> QED
      BY <1>c, <2>1, <3>1
  <2>2. CASE s # z
    <3>1. api'[s] = api[s]
      BY <1>c, <2>2 DEF Open, ApiTypeOK
    <3> QED
      BY <1>a, <1>c, <2>2, <3>1 DEF OnlyTouches
  <2> QED
    BY <2>1, <2>2
<1>d. ASSUME NEW z \in Sessions, commit(z) \/ abort(z) PROVE Fate
  <2>1. z \in Actors /\ Forget(z) /\ api' = [api EXCEPT ![z] = Idle]
    BY <1>d DEF commit, abort, Commit, Rollback, Actors
  <2>2. CASE s = z
    BY <2>1, <2>2 DEF ApiTypeOK, Idle, Accounting
  <2>3. CASE s # z
    <3>1. api'[s] = api[s]
      BY <2>1, <2>3 DEF ApiTypeOK
    <3> QED
      BY <1>a, <2>1, <2>3, <3>1, ForgetAt
  <2> QED
    BY <2>2, <2>3
<1>e. ASSUME NEW x \in {"scheduler", "detector"}, OnlyTouches(x), UNCHANGED api PROVE Fate
  BY <1>a, <1>e DEF OnlyTouches
<1> HIDE DEF Fate
<1>1. ASSUME NEW z \in Sessions, NEW t \in Tasks, Create(z, t) \/ Cancel(z, t) PROVE Fate
  <2>1. OnlyTouches(z)
    BY <1>1, HandlerTouches DEF Create, Cancel
  <2>2. CASE Create(z, t)
    <3>1. Open(z, "create", None) /\ Begins(z)
      BY <2>2 DEF Create, create_task, Begins
    <3> QED
      BY <1>c, <2>1, <3>1
  <2>3. CASE Cancel(z, t)
    <3>1. Open(z, "cancel", None)
      BY <2>3 DEF Cancel, cancel_task
    <3> QED
      BY <1>c, <2>1, <3>1 DEF Accounting
  <2> QED
    BY <1>1, <2>2, <2>3
<1>2. ASSUME NEW z \in Sessions, Respond(z) \/ HandlerError(z) PROVE Fate
  BY <1>2, <1>d DEF Respond, HandlerError
<1>3. ASSUME UNCHANGED sessions, api'[s].op = api[s].op PROVE Fate
  BY <1>3 DEF Fate, sessions
<1>4. ASSUME NEW z \in Sessions, Timeout(z) PROVE Fate
  BY <1>4, <1>3 DEF Timeout, ApiTypeOK
<1>5. ASSUME NEW z \in Sessions, NEW w \in Workers, PostHeartbeat(z, w) PROVE Fate
  BY <1>5, <1>c, HandlerTouches DEF PostHeartbeat, heartbeat, Accounting
<1>6. CASE Loops
  <2>1. CASE Reconcile \/ ReconcileError \/ Tick \/ TickError
    <3>1. UNCHANGED api
      BY <2>1 DEF Reconcile, ReconcileError, Tick, TickError, apiVars
    <3>2. OnlyTouches("scheduler")
      BY <2>1, SchedulerTouches
    <3> QED
      BY <1>e, <3>1, <3>2
  <2>2. CASE Detect \/ DetectError
    <3>1. UNCHANGED api
      BY <2>2 DEF Detect, DetectError, apiVars
    <3>2. OnlyTouches("detector")
      BY <2>2, DetectorTouches
    <3> QED
      BY <1>e, <3>1, <3>2
  <2>3. CASE MasterRestart
    BY <2>3 DEF MasterRestart, Idle, Accounting, Fate
  <2> QED
    BY <1>6, <2>1, <2>2, <2>3 DEF Loops
<1>7. ASSUME NEW w \in Workers, Process(w) PROVE Fate
  <2>1. CASE Register(w)
    BY <2>1, <1>c, HandlerTouches DEF Register, register_worker, Accounting
  <2>2. CASE Stop(w)
    BY <2>2, <1>3 DEF Stop, stop, ApiTypeOK
  <2>3. CASE Heartbeat(w) \/ Expire(w) \/ Listen(w)
    BY <2>3, <1>b DEF Fate, Heartbeat, Expire, Listen, send_heartbeat, heartbeat_expires,
                _preemption_listener, apiVars
  <2> QED
    BY <1>7, <2>1, <2>2, <2>3 DEF Process
<1>8. ASSUME NEW w \in Workers, NEW k \in Slots, Execution(w, k) PROVE Fate
  <2> DEFINE t == exec[w][k].task
  <2>a. <<w, k>> \in Callers \cup {None}
    BY DEF Callers
  <2>b. ASSUME exec[w][k].stage # "free" PROVE t \in Tasks
    BY <2>b DEF NodeTypeOK
  <2>1. CASE ReportRunning(w, k)
    <3>1. t \in Tasks
      BY <2>b, <2>1 DEF ReportRunning, _report_state, At
    <3>2. CASE UNCHANGED <<api, sessions>>
      BY <1>b, <3>2 DEF Fate
    <3>3. ASSUME NEW z \in Sessions, update_task_state(z, t, "RUNNING", <<w, k>>) PROVE Fate
      <4>1. OnlyTouches(z) /\ Open(z, "state", <<w, k>>) /\ Begins(z)
        BY <2>a, <3>1, <3>3, HandlerTouches DEF update_task_state, Begins
      <4> QED
        BY <1>c, <4>1
    <3> QED
      BY <2>1, <3>2, <3>3 DEF ReportRunning, apiVars
  <2>2. CASE ReportCompletion(w, k)
    <3>1. t \in Tasks
      BY <2>b, <2>2 DEF ReportCompletion, _report_completion, At
    <3>2. CASE UNCHANGED <<api, sessions>>
      BY <1>b, <3>2 DEF Fate
    <3>3. ASSUME NEW z \in Sessions, complete_task(z, t, <<w, k>>) PROVE Fate
      <4>1. OnlyTouches(z) /\ Open(z, "complete", <<w, k>>) /\ Begins(z)
        BY <2>a, <3>1, <3>3, HandlerTouches DEF complete_task, Begins
      <4> QED
        BY <1>c, <4>1
    <3> QED
      BY <2>2, <3>2, <3>3 DEF ReportCompletion, apiVars
  <2>3. CASE ReportFailure(w, k)
    <3>1. t \in Tasks
      BY <2>b, <2>3 DEF ReportFailure, _report_failure, At
    <3>2. CASE UNCHANGED <<api, sessions>>
      BY <1>b, <3>2 DEF Fate
    <3>3. ASSUME NEW z \in Sessions, fail_task(z, t, <<w, k>>) PROVE Fate
      <4>1. OnlyTouches(z) /\ Open(z, "fail", <<w, k>>) /\ Begins(z)
        BY <2>a, <3>1, <3>3, HandlerTouches DEF fail_task, Begins
      <4> QED
        BY <1>c, <4>1
    <3> QED
      BY <2>3, <3>2, <3>3 DEF ReportFailure, apiVars
  <2>4. CASE Poll(w, k) \/ Fetch(w, k) \/ FetchError(w, k) \/ ReportLost(w, k)
             \/ Run(w, k) \/ Finally(w, k) \/ RedisError(w, k)
    BY <2>4, <1>b DEF Fate, Poll, Fetch, FetchError, ReportLost, Run, Finally, RedisError,
                poll_assignment, fetch_task, fetch_error, run_task, finally,
                add_active_task_error, remove_active_task_error, apiVars
  <2> QED
    BY <1>8, <2>1, <2>2, <2>3, <2>4 DEF Execution
<1>9. CASE UNCHANGED vars
  BY <1>9, <1>3 DEF vars, sessions
<1> QED
  BY <1>1, <1>2, <1>4, <1>5, <1>6, <1>7, <1>8, <1>9 DEF Next, Handlers

\* A handler that has set its objects in an empty session is balanced: it
\* leaves its task where it is, or takes it off the worker it gives the cpu
\* back to.
LEMMA BeginBalanced ==
    ASSUME StoresTypeOK, Minting, IdleIsEmpty, NEW s \in Sessions, Begins(s)
    PROVE  Balanced(s)'
<1>1. PICK t \in Tasks, c \in Callers \cup {None} :
        \/ create_task(s, t) \/ update_task_state(s, t, "RUNNING", c)
        \/ complete_task(s, t, c) \/ fail_task(s, t, c)
  BY DEF Begins
<1>a. s \in Actors /\ tasks[t] \in TaskRow /\ resource_cpu[t] \in Int
  BY ColumnsAssumption DEF Actors, StoresTypeOK
<1>b. /\ \A u \in Tasks : session_tasks[s][u] = None
      /\ \A w \in Workers : session_workers[s][w] = None
  <2>1. api[s].op = "idle"
    BY <1>1 DEF create_task, update_task_state, complete_task, fail_task, Open, Idle
  <2> QED
    BY <2>1 DEF IdleIsEmpty
<1>d. Cpu({}) = 0 /\ Cpu({t}) = resource_cpu[t]
  <2>1. Cpu({}) = 0
    BY TotalInt, FS_EmptySet DEF Cpu
  <2>2. Cpu({} \cup {t}) = Cpu({}) + resource_cpu[t]
    BY CpuAdd
  <2>3. {} \cup {t} = {t}
    OBVIOUS
  <2>4. Cpu({} \cup {t}) = Cpu({t})
    BY <2>3
  <2> QED
    BY <1>a, <2>1, <2>2, <2>4
<1>2. CASE create_task(s, t) \/ update_task_state(s, t, "RUNNING", c)
  <2>1. \E row : /\ session_tasks' = WithTask(s, t, row)
                 /\ \A w \in Workers : On(row, w) <=> On(tasks[t], w)
    <3>1. CASE create_task(s, t)
      <4>1. tasks[t].state = "ABSENT"
        BY <3>1 DEF create_task, Minting
      <4> DEFINE row == [state |-> "PENDING", worker |-> None, retry |-> 0]
      <4>2. session_tasks' = WithTask(s, t, row)
        BY <3>1 DEF create_task
      <4>3. \A w \in Workers : ~On(row, w) /\ ~On(tasks[t], w)
        BY <4>1 DEF On
      <4> HIDE DEF row
      <4> QED
        BY <4>2, <4>3
    <3>2. CASE update_task_state(s, t, "RUNNING", c)
      <4> DEFINE row == [tasks[t] EXCEPT !.state = "RUNNING"]
      <4>1. session_tasks' = WithTask(s, t, row)
        BY <3>2 DEF update_task_state
      <4>2. tasks[t].state = "SCHEDULED"
        BY <3>2 DEF update_task_state, validate_transition, VALID_TRANSITIONS
      <4>3. row.state = "RUNNING" /\ row.worker = tasks[t].worker
        BY <1>a DEF TaskRow
      <4> HIDE DEF row
      <4>4. \A w \in Workers : On(row, w) <=> On(tasks[t], w)
        BY <4>2, <4>3 DEF On
      <4> QED
        BY <4>1, <4>4
    <3> QED
      BY <1>2, <3>1, <3>2
  <2>2. PICK row : /\ session_tasks' = WithTask(s, t, row)
                   /\ \A w \in Workers : On(row, w) <=> On(tasks[t], w)
    BY <2>1
  <2>3. ASSUME NEW w \in Workers PROVE Leaves(s, w)' = {} /\ Enters(s, w)' = {}
    <3>0. \A u \in Tasks : session_tasks'[s][u] =
            IF u = t THEN [old |-> tasks[t], new |-> row] ELSE None
      BY <1>a, <1>b, <2>2, WithTaskAt
    <3>1. \A u \in Tasks : session_tasks'[s][u] # None =>
            /\ u = t
            /\ session_tasks'[s][u].old = tasks[t] /\ session_tasks'[s][u].new = row
      BY <3>0
    <3> QED
      BY <2>2, <3>1 DEF Leaves, Enters
  <2>4. \A w \in Workers : Change(s, w)' = 0
    BY <1>2, <1>b DEF create_task, update_task_state, Change
  <2> QED
    BY <1>d, <2>3, <2>4 DEF Balanced
<1>3. CASE complete_task(s, t, c) \/ fail_task(s, t, c)
  <2>1. tasks[t].state = "RUNNING" /\ session_workers' = Freed(s, t)
    BY <1>3 DEF complete_task, fail_task, validate_transition, VALID_TRANSITIONS
  <2>2. \E row \in TaskRow : /\ session_tasks' = WithTask(s, t, row)
                             /\ row.state \notin {"SCHEDULED", "RUNNING"}
    <3>1. \A st \in {"COMPLETED", "FAILED"} :
            LET row == [tasks[t] EXCEPT !.state = st] IN row \in TaskRow /\ row.state = st
      BY <1>a DEF TaskRow, TaskState
    <3>2. Requeued(tasks[t]) \in TaskRow /\ Requeued(tasks[t]).state = "PENDING"
      BY <1>a DEF Requeued, TaskRow, TaskState
    <3>3. \/ session_tasks' = WithTask(s, t, [tasks[t] EXCEPT !.state = "COMPLETED"])
          \/ session_tasks' = WithTask(s, t, [tasks[t] EXCEPT !.state = "FAILED"])
          \/ session_tasks' = WithTask(s, t, Requeued(tasks[t]))
      BY <1>3 DEF complete_task, fail_task
    <3> QED
      BY <3>1, <3>2, <3>3
  <2>3. PICK row \in TaskRow : /\ session_tasks' = WithTask(s, t, row)
                               /\ row.state \notin {"SCHEDULED", "RUNNING"}
    BY <2>2
  <2>a. \A u \in Tasks : session_tasks'[s][u] =
            IF u = t THEN [old |-> tasks[t], new |-> row] ELSE None
    BY <1>a, <1>b, <2>3, WithTaskAt
  <2>4. session_tasks'[s][t] # None
    <3>1. session_tasks'[s][t] \in Loaded(TaskRow)
      BY <1>a, <2>a DEF Loaded
    <3> QED
      BY <3>1, NoneAssumption
  <2>5. ASSUME NEW w \in Workers
        PROVE  /\ Enters(s, w)' = {}
               /\ Leaves(s, w)' = IF tasks[t].worker = w THEN {t} ELSE {}
    <3>1. ASSUME NEW u \in Tasks
          PROVE  /\ session_tasks'[s][u] # None => u = t
                 /\ u = t => /\ session_tasks'[s][u].old = tasks[t]
                             /\ session_tasks'[s][u].new = row
      BY <2>a
    <3>2. ~On(row, w) /\ (On(tasks[t], w) <=> tasks[t].worker = w)
      BY <2>1, <2>3 DEF On
    <3>3. Enters(s, w)' = {}
      BY <3>1, <3>2 DEF Enters
    <3>4. \A u \in Tasks : u \in Leaves(s, w)' <=> u = t /\ tasks[t].worker = w
      BY <2>4, <3>1, <3>2 DEF Leaves
    <3>5. Leaves(s, w)' \subseteq Tasks
      BY DEF Leaves
    <3> QED
      BY <3>3, <3>4, <3>5
  <2>6. CASE tasks[t].worker = None
    <3>1. \A w \in Workers : Change(s, w)' = 0 /\ tasks[t].worker # w
      BY <1>b, <2>1, <2>6, NoneAssumption DEF Freed, Change
    <3> QED
      BY <1>d, <2>5, <3>1 DEF Balanced
  <2>7. CASE tasks[t].worker # None
    <3> DEFINE v == tasks[t].worker
               new == [workers[v] EXCEPT !.cpu_available = @ + resource_cpu[t]]
    <3>1. v \in Workers
      BY <1>a, <2>7 DEF TaskRow
    <3>2. workers[v] \in WorkerRow
      BY <3>1 DEF StoresTypeOK
    <3>3. /\ new \in WorkerRow /\ workers[v].cpu_available \in Int
          /\ new.cpu_available = workers[v].cpu_available + resource_cpu[t]
      BY <1>a, <3>2 DEF WorkerRow
    <3>4. session_workers' = WithWorker(s, v, new)
      BY <2>1, <2>7 DEF Freed
    <3>5. WorkerObject(s, v) = workers[v] /\ \A w \in Workers : Change(s, w) = 0
      BY <1>b, <3>1 DEF WorkerObject, Change
    <3> HIDE DEF new, v
    <3>6. ASSUME NEW w \in Workers
          PROVE  Change(s, w)' = IF v = w THEN resource_cpu[t] ELSE 0
      <4>1. Change(s, w)' =
                IF w = v THEN Change(s, w) + (new.cpu_available - WorkerObject(s, v).cpu_available)
                ELSE Change(s, w)
        BY <1>a, <3>1, <3>3, <3>4, ChangeBy
      <4> QED
        BY <1>a, <3>3, <3>5, <4>1
    <3>7. ASSUME NEW w \in Workers
          PROVE  Change(s, w)' = Cpu(Leaves(s, w)') - Cpu(Enters(s, w)')
      <4>1. Cpu(Enters(s, w)') = 0
        BY <1>d, <2>5
      <4>2. Cpu(Leaves(s, w)') = IF v = w THEN resource_cpu[t] ELSE 0
        BY <1>d, <2>5 DEF v
      <4> QED
        BY <1>a, <3>6, <4>1, <4>2
    <3> QED
      BY <3>7 DEF Balanced, Cpu
  <2> QED
    BY <2>6, <2>7
<1> QED
  BY <1>1, <1>2, <1>3

\* A session that nobody touches stays balanced.
LEMMA KeepBalanced ==
    ASSUME NEW a, Balanced(a), session_tasks'[a] = session_tasks[a],
           session_workers'[a] = session_workers[a]
    PROVE  Balanced(a)'
<1>1. ASSUME NEW w \in Workers
      PROVE  /\ Change(a, w)' = Change(a, w)
             /\ Leaves(a, w)' = Leaves(a, w) /\ Enters(a, w)' = Enters(a, w)
  BY DEF Change, Leaves, Enters
<1> QED
  BY <1>1 DEF Balanced, Cpu

\* Every handler that accounts for its task is balanced until it commits.
LEMMA HandlerBooks == Spec => []HandlersBalanced
<1>1. Init => HandlersBalanced
  BY DEF Init, ApiInit, Idle, HandlersBalanced, Accounting
<1>2. RInv /\ IdleIsEmpty /\ HandlersBalanced /\ [Next]_vars => HandlersBalanced'
  <2> SUFFICES ASSUME TypeOK, Minting, IdleIsEmpty, HandlersBalanced, [Next]_vars,
                      NEW s \in Sessions, api'[s].op \in Accounting
               PROVE  Balanced(s)'
    BY DEF HandlersBalanced, RInv, IInv, LifeInv
  <2>1. CASE Begins(s)
    BY <2>1, BeginBalanced DEF TypeOK
  <2>2. CASE ~Begins(s)
    <3>1. /\ session_tasks'[s] = session_tasks[s] /\ session_workers'[s] = session_workers[s]
          /\ api'[s].op = api[s].op
      BY <2>2, SessionFate
    <3> QED
      BY <3>1, KeepBalanced DEF HandlersBalanced
  <2> QED
    BY <2>1, <2>2
<1> QED
  BY <1>1, <1>2, LifecycleInvariance, IdleSound, PTL DEF Spec

\* The tables change only at the end of a transaction.
LEMMA OnlyCommitsWrite ==
    ASSUME TypeOK, [Next]_vars, rows # rows'
    PROVE  \/ \E s \in Sessions : commit(s)
           \/ batch_commit
           \/ fd_commit
<1>1. CASE Handlers
  BY <1>1 DEF Handlers, Create, Cancel, create_task, cancel_task, Respond, HandlerError, abort,
              Rollback, Timeout, PostHeartbeat, heartbeat
<1>2. CASE Reconcile \/ ReconcileError
  BY <1>2 DEF Reconcile, ReconcileError, _reconcile_pending_tasks, enqueue_missing,
              _reconcile_scheduled_tasks, repush, reconciled, reconcile_abort, Rollback
<1>3. CASE Tick \/ TickError
  BY <1>3 DEF Tick, TickError, _tick, _schedule_batch, skip, _try_schedule_task, preempt,
              no_capacity, evict, place, batch_abort, Rollback
<1>4. CASE Detect \/ DetectError
  BY <1>4 DEF Detect, DetectError, _check_all_workers, is_alive, _handle_dead_worker, requeue,
              exhausted, raise, handled, fd_abort, Rollback
<1>5. CASE MasterRestart
  BY <1>5 DEF MasterRestart
<1>6. ASSUME NEW w \in Workers, Process(w) PROVE FALSE
  BY <1>6 DEF Process, Register, register_worker, Stop, stop, Heartbeat, send_heartbeat,
              Expire, heartbeat_expires, Listen, _preemption_listener
<1>7. ASSUME NEW w \in Workers, NEW k \in Slots, Execution(w, k) PROVE FALSE
  <2>1. CASE Poll(w, k) \/ Fetch(w, k) \/ FetchError(w, k) \/ ReportLost(w, k)
             \/ Run(w, k) \/ Finally(w, k) \/ RedisError(w, k)
    BY <2>1 DEF Poll, Fetch, FetchError, ReportLost, Run, Finally, RedisError,
                poll_assignment, fetch_task, fetch_error, run_task, finally,
                add_active_task_error, remove_active_task_error
  <2>2. CASE ReportRunning(w, k) \/ ReportCompletion(w, k) \/ ReportFailure(w, k)
    BY <2>2 DEF ReportRunning, ReportCompletion, ReportFailure, update_task_state,
                complete_task, fail_task
  <2> QED
    BY <1>7, <2>1, <2>2 DEF Execution
<1>8. CASE UNCHANGED vars
  BY <1>8 DEF vars, rows
<1> QED
  BY <1>1, <1>2, <1>3, <1>4, <1>5, <1>6, <1>7, <1>8 DEF Next, Loops

-----------------------------------------------------------------------------
(* The failure detector's books *)

\* The pass takes tasks off workers it declares DEAD only, puts none on a
\* worker, and leaves every figure as it read it.
DeadOnly ==
    /\ \A t \in Tasks :
        LET o == session_tasks["detector"][t] IN
        o # None => /\ o.old.worker \in Workers
                    /\ session_workers["detector"][o.old.worker] # None
                    /\ session_workers["detector"][o.old.worker].new.status = "DEAD"
                    /\ o.new.worker \in {None, o.old.worker}
    /\ \A w \in Workers :
        LET c == session_workers["detector"][w] IN
        c # None => c.new.cpu_available = c.old.cpu_available

\* The end of a pass.
LEMMA DeadOnlyEnds ==
    ASSUME StoresTypeOK, Forget("detector")
    PROVE  DeadOnly'
<1>1. /\ \A t \in Tasks : session_tasks'["detector"][t] = None
      /\ \A w \in Workers : session_workers'["detector"][w] = None
  BY ForgetAt DEF Actors
<1> QED
  BY <1>1 DEF DeadOnly

\* The worker is declared dead, with the figure it was read with, and the tasks
\* the query returns are its own.
LEMMA DeadOnlyLoads ==
    ASSUME StoresTypeOK, PassInv, DeadOnly, NEW w \in Workers, _handle_dead_worker(w)
    PROVE  DeadOnly'
<1>a. "detector" \in Actors
  BY DEF Actors
<1> DEFINE row == [WorkerObject("detector", w) EXCEPT !.status = "DEAD"]
           c == [old |-> IF session_workers["detector"][w] = None THEN workers[w]
                         ELSE session_workers["detector"][w].old,
                 new |-> row]
<1>1. WorkerObject("detector", w) \in WorkerRow
  BY <1>a, ObjectType
<1>2. row \in WorkerRow /\ row.status = "DEAD"
      /\ row.cpu_available = WorkerObject("detector", w).cpu_available
  BY <1>1 DEF WorkerRow, WorkerStatus
<1>3. WorkerObject("detector", w).cpu_available = c.old.cpu_available
  BY DEF WorkerObject, DeadOnly
<1>4. c # None
  <2>1. c \in Loaded(WorkerRow)
    BY <1>a, <1>2 DEF Loaded, StoresTypeOK
  <2> QED
    BY <2>1, NoneAssumption
<1>5. c.new.cpu_available = c.old.cpu_available /\ c.new.status = "DEAD"
  BY <1>2, <1>3
<1>6. \A v \in Workers : session_workers'["detector"][v] =
                            IF v = w THEN c ELSE session_workers["detector"][v]
  <2>1. session_workers' = WithWorker("detector", w, row)
    BY DEF _handle_dead_worker, detector
  <2> HIDE DEF row
  <2> QED
    BY <1>a, <2>1, WithWorkerAt
<1> HIDE DEF row, c
<1>7. fd.phase = "check" /\ \A t \in Tasks : session_tasks'["detector"][t] =
        IF t \in Orphans(w) /\ session_tasks["detector"][t] = None
        THEN [old |-> tasks[t], new |-> tasks[t]] ELSE session_tasks["detector"][t]
  BY DEF _handle_dead_worker, StoresTypeOK, Actors, detector
<1>8. ASSUME NEW t \in Tasks, session_tasks'["detector"][t] # None
      PROVE  LET o == session_tasks'["detector"][t] IN
             /\ o.old.worker \in Workers
             /\ session_workers'["detector"][o.old.worker] # None
             /\ session_workers'["detector"][o.old.worker].new.status = "DEAD"
             /\ o.new.worker \in {None, o.old.worker}
  <2>1. CASE t \in Orphans(w)
    <3>1. session_tasks["detector"][t] = None
      BY <1>7, <2>1, OrphansAreNew
    <3>2. tasks[t].worker = w
      BY <2>1, <3>1 DEF Orphans, FlushedTask, detector
    <3>3. session_tasks'["detector"][t] = [old |-> tasks[t], new |-> tasks[t]]
      BY <1>7, <2>1, <3>1
    <3> QED
      BY <1>4, <1>5, <1>6, <3>2, <3>3
  <2>2. CASE t \notin Orphans(w)
    <3> DEFINE o == session_tasks["detector"][t]
    <3>1. session_tasks'["detector"][t] = o
      BY <1>7, <2>2
    <3>2. /\ o.old.worker \in Workers
          /\ session_workers["detector"][o.old.worker] # None
          /\ session_workers["detector"][o.old.worker].new.status = "DEAD"
          /\ o.new.worker \in {None, o.old.worker}
      BY <1>8, <3>1 DEF DeadOnly
    <3> HIDE DEF o
    <3> QED
      BY <1>4, <1>5, <1>6, <3>1, <3>2
  <2> QED
    BY <2>1, <2>2
<1>9. ASSUME NEW v \in Workers, session_workers'["detector"][v] # None
      PROVE  session_workers'["detector"][v].new.cpu_available
                = session_workers'["detector"][v].old.cpu_available
  BY <1>5, <1>6, <1>9 DEF DeadOnly
<1> QED
  BY <1>8, <1>9 DEF DeadOnly

\* One orphan dealt with: it stays with its worker or goes to none.
LEMMA DeadOnlySettles ==
    ASSUME StoresTypeOK, PassInv, DeadOnly, NEW t \in Tasks, t \in fd.orphans, NEW row,
           row.worker \in {None, TaskObject("detector", t).worker},
           session_tasks' = WithTask("detector", t, row), UNCHANGED session_workers
    PROVE  DeadOnly'
<1> DEFINE o == session_tasks["detector"][t]
           p == [old |-> o.old, new |-> row]
<1>1. o # None
  BY DEF PassInv, Untouched
<1>2. session_tasks'["detector"][t] = p
      /\ \A u \in Tasks \ {t} : session_tasks'["detector"][u] = session_tasks["detector"][u]
  BY <1>1, WithTaskAt DEF Actors
<1>3. p.old = o.old /\ p.new.worker \in {None, o.old.worker}
  BY <1>1 DEF TaskObject, DeadOnly
<1>4. /\ o.old.worker \in Workers
      /\ session_workers["detector"][o.old.worker] # None
      /\ session_workers["detector"][o.old.worker].new.status = "DEAD"
  BY <1>1 DEF DeadOnly
<1> HIDE DEF o, p
<1>5. ASSUME NEW u \in Tasks, session_tasks'["detector"][u] # None
      PROVE  LET q == session_tasks'["detector"][u] IN
             /\ q.old.worker \in Workers
             /\ session_workers["detector"][q.old.worker] # None
             /\ session_workers["detector"][q.old.worker].new.status = "DEAD"
             /\ q.new.worker \in {None, q.old.worker}
  <2>1. CASE u = t
    BY <1>2, <1>3, <1>4, <2>1
  <2>2. CASE u # t
    BY <1>2, <1>5, <2>2 DEF DeadOnly
  <2> QED
    BY <2>1, <2>2
<1> QED
  BY <1>5 DEF DeadOnly

\* Every step: only the detector writes into its session.
LEMMA DeadOnlyStep ==
    ASSUME TypeOK, PassInv, DeadOnly, [Next]_vars
    PROVE  DeadOnly'
<1> USE DEF TypeOK
<1>a. ASSUME session_tasks'["detector"] = session_tasks["detector"],
             session_workers'["detector"] = session_workers["detector"]
      PROVE  DeadOnly'
  BY <1>a DEF DeadOnly
<1>1. CASE UNCHANGED vars
  BY <1>1, <1>a DEF vars
<1>2. CASE \/ Handlers
           \/ \E w \in Workers : Process(w)
           \/ \E w \in Workers, k \in Slots : Execution(w, k)
  BY <1>2, <1>a, LoopsUntouched
<1>3. CASE Reconcile \/ ReconcileError \/ Tick \/ TickError
  BY <1>3, <1>a, SchedulerTouches DEF OnlyTouches, Actors
<1>4. CASE _check_all_workers
  <2>1. \A t \in Tasks : session_tasks'["detector"][t] = None
    BY <1>4 DEF _check_all_workers, PassInv
  <2>2. \A w \in Workers : session_workers'["detector"][w] \in
                            {None, [old |-> workers[w], new |-> workers[w]]}
    BY <1>4 DEF _check_all_workers, detector, StoresTypeOK, Actors
  <2>3. ASSUME NEW w \in Workers, session_workers'["detector"][w] # None
        PROVE  session_workers'["detector"][w].new = session_workers'["detector"][w].old
    BY <2>2, <2>3
  <2> QED
    BY <2>1, <2>3 DEF DeadOnly
<1>5. ASSUME NEW w \in Workers, is_alive(w) \/ handled PROVE DeadOnly'
  BY <1>5, <1>a DEF is_alive, handled, sessions
<1>6. ASSUME NEW w \in Workers, _handle_dead_worker(w) PROVE DeadOnly'
  BY <1>6, DeadOnlyLoads
<1>7. ASSUME NEW t \in Tasks, requeue(t) PROVE DeadOnly'
  <2> DEFINE row == Requeued(TaskObject("detector", t))
  <2>1. row.worker = None
    BY DEF Requeued
  <2>2. session_tasks' = WithTask("detector", t, row) /\ UNCHANGED session_workers
        /\ t \in fd.orphans
    BY <1>7 DEF requeue, Orphan, detector
  <2> HIDE DEF row
  <2> QED
    BY <2>1, <2>2, DeadOnlySettles
<1>8. ASSUME NEW t \in Tasks, exhausted(t) PROVE DeadOnly'
  <2> DEFINE row == [TaskObject("detector", t) EXCEPT !.state = "FAILED"]
  <2>1. row.worker = TaskObject("detector", t).worker
    BY ObjectType DEF TaskRow, Actors
  <2>2. session_tasks' = WithTask("detector", t, row) /\ UNCHANGED session_workers
        /\ t \in fd.orphans
    BY <1>8 DEF exhausted, Orphan, detector
  <2> HIDE DEF row
  <2> QED
    BY <2>1, <2>2, DeadOnlySettles
<1>9. ASSUME NEW t \in Tasks, raise(t) PROVE DeadOnly'
  BY <1>9, DeadOnlyEnds DEF raise, Rollback, detector
<1>10. CASE fd_commit \/ fd_abort
  BY <1>10, DeadOnlyEnds DEF fd_commit, fd_abort, Commit, Rollback, detector
<1>11. CASE handled
  BY <1>11, <1>a DEF handled, sessions
<1>12. CASE MasterRestart
  <2>1. /\ \A t \in Tasks : session_tasks'["detector"][t] = None
        /\ \A w \in Workers : session_workers'["detector"][w] = None
    BY <1>12 DEF MasterRestart, Actors
  <2> QED
    BY <2>1 DEF DeadOnly
<1>13. CASE Detect \/ DetectError
  BY <1>4, <1>5, <1>6, <1>7, <1>8, <1>9, <1>10, <1>11, <1>13 DEF Detect, DetectError
<1> QED
  BY <1>1, <1>2, <1>3, <1>12, <1>13 DEF Next, Loops

\* In every reachable state.
LEMMA DetectorBooks == Spec => []DeadOnly
<1>1. Init => DeadOnly
  BY DEF Init, StoresInit, DeadOnly, Actors
<1>2. DInv /\ DeadOnly /\ [Next]_vars => DeadOnly'
  BY DeadOnlyStep DEF DInv
<1> QED
  BY <1>1, <1>2, DetectorInvariance, PTL DEF Spec

\* A pass over fresh rows is balanced, trivially, for every worker it leaves
\* alive.
LEMMA PassBalanced ==
    ASSUME StoresTypeOK, DeadOnly, Fresh("detector"), Commit("detector"),
           NEW w \in Workers, workers'[w].status # "DEAD"
    PROVE  Change("detector", w) = Cpu(Leaves("detector", w)) - Cpu(Enters("detector", w))
<1>a. "detector" \in Actors
  BY DEF Actors
<1>1. session_workers["detector"][w] # None =>
        session_workers["detector"][w].new.status # "DEAD"
  BY DEF Commit, FlushedWorker, Column, Fresh
<1>2. ASSUME NEW t \in Tasks, session_tasks["detector"][t] # None
      PROVE  session_tasks["detector"][t].old.worker # w
             /\ session_tasks["detector"][t].new.worker # w
  BY <1>1, <1>2, NoneAssumption DEF DeadOnly
<1>3. Leaves("detector", w) = {} /\ Enters("detector", w) = {}
  BY <1>2 DEF Leaves, Enters, On
<1>4. Change("detector", w) = 0
  <2>1. CASE session_workers["detector"][w] = None
    BY <2>1 DEF Change
  <2>2. CASE session_workers["detector"][w] # None
    <3>1. /\ session_workers["detector"][w].new.cpu_available
                = session_workers["detector"][w].old.cpu_available
          /\ session_workers["detector"][w].new.cpu_available \in Int
      BY <1>a, <2>2 DEF DeadOnly, StoresTypeOK, Loaded, WorkerRow
    <3> QED
      BY <2>2, <3>1 DEF Change
  <2> QED
    BY <2>1, <2>2
<1>5. Cpu({}) \in Int
  BY CpuInt
<1>6. Cpu(Leaves("detector", w)) = Cpu({}) /\ Cpu(Enters("detector", w)) = Cpu({})
  BY <1>3
<1> QED
  BY <1>4, <1>5, <1>6

-----------------------------------------------------------------------------

\* For any number of tasks, workers and concurrent sessions: a batch, or a
\* handler that creates a task or reports on one, that commits over rows nobody
\* changed since it read them keeps cpu_available and the cpu of the assigned
\* tasks in step, and a fresh pass of the failure detector does so for every
\* worker it does not leave DEAD.
THEOREM FreshCommitsSound == Spec => FreshCommitsKeepTheBooks
<1>1. RInv /\ BooksInv /\ HandlersBalanced /\ DeadOnly /\ [Next]_vars =>
        [\A a \in Actors :
            (/\ Fresh(a)
             /\ session_tasks[a] # session_tasks'[a]
             /\ rows # rows'
             /\ a \in Sessions => api[a].op \in {"create", "state", "complete", "fail"})
                => \A w \in Workers : \/ Ledger(w)' = Ledger(w)
                                      \/ a = "detector" /\ workers'[w].status = "DEAD"]_vars
  <2> SUFFICES ASSUME TypeOK, SessionInv, BooksInv, HandlersBalanced, DeadOnly, [Next]_vars,
                      NEW a \in Actors, Fresh(a),
                      session_tasks[a] # session_tasks'[a], rows # rows',
                      a \in Sessions => api[a].op \in Accounting,
                      NEW w \in Workers
               PROVE  \/ Ledger(w)' = Ledger(w)
                      \/ a = "detector" /\ workers'[w].status = "DEAD"
    BY DEF RInv, SInv, Accounting
  <2> USE DEF TypeOK
  <2>b. ASSUME NEW b \in Actors, Commit(b) PROVE a = b
    BY <2>b, ForgetAt DEF Commit
  <2>1. ASSUME NEW s \in Sessions, commit(s) PROVE Ledger(w)' = Ledger(w)
    <3>1. Commit(s) /\ s \in Actors
      BY <2>1 DEF commit, Actors
    <3>2. a = s
      BY <2>b, <3>1
    <3>3. Balanced(a)
      BY <2>1, <3>2 DEF HandlersBalanced
    <3> QED
      BY <3>1, <3>2, <3>3, FreshCommit DEF Balanced
  <2>2. CASE batch_commit
    <3>1. Commit("scheduler") /\ sched.phase = "batch" /\ "scheduler" \in Actors
      BY <2>2 DEF batch_commit, me, Actors
    <3>2. a = "scheduler"
      BY <2>b, <3>1
    <3>3. Balanced(a)
      BY <3>1, <3>2, BatchBalanced
    <3> QED
      BY <3>1, <3>2, <3>3, FreshCommit DEF Balanced
  <2>3. CASE fd_commit
    <3>1. Commit("detector") /\ "detector" \in Actors
      BY <2>3 DEF fd_commit, detector, Actors
    <3>2. a = "detector"
      BY <2>b, <3>1
    <3>3. ASSUME workers'[w].status # "DEAD"
          PROVE  Change(a, w) = Cpu(Leaves(a, w)) - Cpu(Enters(a, w))
      BY <3>1, <3>2, <3>3, PassBalanced
    <3> QED
      BY <3>1, <3>2, <3>3, FreshCommit
  <2> QED
    BY <2>1, <2>2, <2>3, OnlyCommitsWrite
<1> QED
  BY <1>1, LifecycleInvariance, BooksInvariance, HandlerBooks, DetectorBooks, PTL
  DEF Spec, FreshCommitsKeepTheBooks
====
