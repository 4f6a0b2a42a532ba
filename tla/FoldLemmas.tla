----------------------------- MODULE FoldLemmas -----------------------------
(***************************************************************************)
(* Induction over numbers and finite sets, and what the folds of the       *)
(* community modules are: sums over a set, and a loop over a sequence.     *)
(* What an induction shows is that a set has everything; what a fold does  *)
(* in one step is a function.                                              *)
(***************************************************************************)
EXTENDS FiniteSetsExt, SequencesExt, FiniteSetTheorems, WellFoundedInduction, TLAPS

\* Some number in a set of numbers is the least.
LEMMA LeastNumber ==
  ASSUME NEW S \in SUBSET Nat, S # {}
  PROVE  \E n \in S : \A k \in S : n <= k
<1>1. PICK n \in S : \A k \in S : <<k, n>> \notin OpToRel(<, Nat)
  BY NatLessThanWellFounded, WFMin
<1>2. \A k \in S : ~(k < n)
  BY <1>1 DEF OpToRel
<1>. QED
  BY <1>2

\* A set of numbers with zero and the successor of each of its members has all.
LEMMA NumberInduction ==
  ASSUME NEW T, 0 \in T, \A n \in Nat : n \in T => n + 1 \in T
  PROVE  Nat \subseteq T
<1>. DEFINE Bad == Nat \ T
<1>. SUFFICES ASSUME Bad # {} PROVE FALSE
  OBVIOUS
<1>. HIDE DEF Bad
<1>1. PICK n \in Bad : \A k \in Bad : n <= k
  BY LeastNumber DEF Bad
<1>2. n \in Nat /\ n # 0
  BY DEF Bad
<1>3. n - 1 \in Nat /\ n - 1 \notin Bad
  BY <1>1, <1>2
<1>4. n - 1 \in T
  BY <1>3 DEF Bad
<1>. QED
  BY <1>2, <1>3, <1>4 DEF Bad

-----------------------------------------------------------------------------
(* Recursion over the subsets of a finite set, one member at a time. *)

\* c takes a member of every set that has one.
Chooses(c, S) == \A s \in SUBSET S : s # {} => c[s] \in s

\* What is left of a set when a member is taken.
LEMMA TakeOne ==
  ASSUME NEW S, IsFiniteSet(S), NEW s \in SUBSET S, NEW x \in s
  PROVE  /\ s \ {x} \in SUBSET S
         /\ Cardinality(s) \in Nat
         /\ Cardinality(s \ {x}) = Cardinality(s) - 1
<1>1. IsFiniteSet(s)
  BY FS_Subset
<1>. QED
  BY <1>1, FS_CardinalityType, FS_RemoveElement

\* A set of subsets with the empty one, and with each one that it has without
\* the member taken, has all.
LEMMA SubsetInduction ==
  ASSUME NEW S, IsFiniteSet(S), NEW c, Chooses(c, S), NEW T, {} \in T,
         \A s \in SUBSET S : s # {} /\ s \ {c[s]} \in T => s \in T
  PROVE  SUBSET S \subseteq T
<1>. DEFINE N == {n \in Nat : \A s \in SUBSET S : Cardinality(s) = n => s \in T}
<1>1. \A s \in SUBSET S : Cardinality(s) \in Nat /\ (Cardinality(s) = 0 => s = {})
  BY FS_Subset, FS_CardinalityType, FS_EmptySet
<1>2. 0 \in N
  BY <1>1
<1>3. ASSUME NEW n \in Nat, n \in N PROVE n + 1 \in N
  <2>. SUFFICES ASSUME NEW s \in SUBSET S, Cardinality(s) = n + 1 PROVE s \in T
    OBVIOUS
  <2>1. s # {} /\ c[s] \in s
    BY FS_EmptySet DEF Chooses
  <2>2. s \ {c[s]} \in SUBSET S /\ Cardinality(s \ {c[s]}) = n
    BY <2>1, TakeOne
  <2>3. s \ {c[s]} \in T
    BY <1>3, <2>2
  <2>. QED
    BY <2>1, <2>3
<1>. HIDE DEF N
<1>4. Nat \subseteq N
  BY <1>2, <1>3, NumberInduction
<1>. QED
  BY <1>1, <1>4 DEF N

\* One step: F of the member taken and of what g gives for the others.
FoldStep(base, F, c, g, s) == IF s = {} THEN base ELSE F[<<c[s], g[s \ {c[s]}]>>]

\* A recursion with values in V.
Recursive(S, c, V, base, F) ==
  IsFiniteSet(S) /\ Chooses(c, S) /\ base \in V /\ F \in [S \X V -> V]

\* g is a function that the recursion defines.
Solves(g, S, c, V, base, F) ==
  g \in [SUBSET S -> V] /\ \A s \in SUBSET S : g[s] = FoldStep(base, F, c, g, s)

\* There is a function that a recursion defines: it is built up over the
\* subsets by their size.
LEMMA Recursion ==
  ASSUME NEW S, NEW c, NEW V, NEW base, NEW F, Recursive(S, c, V, base, F)
  PROVE  \E g : Solves(g, S, c, V, base, F)
<1>. DEFINE UpTo(g, n) ==
              \A s \in SUBSET S : Cardinality(s) <= n => g[s] = FoldStep(base, F, c, g, s)
            N == {n \in Nat : \E g \in [SUBSET S -> V] : UpTo(g, n)}
<1>0. IsFiniteSet(S) /\ Chooses(c, S) /\ base \in V /\ F \in [S \X V -> V]
  BY DEF Recursive
<1>. USE <1>0
<1>1. \A s \in SUBSET S : Cardinality(s) \in Nat /\ (Cardinality(s) = 0 => s = {})
  BY FS_Subset, FS_CardinalityType, FS_EmptySet
<1>2. 0 \in N
  <2>. DEFINE g == [s \in SUBSET S |-> base]
  <2>1. g \in [SUBSET S -> V]
    OBVIOUS
  <2>2. UpTo(g, 0)
    BY <1>1 DEF FoldStep
  <2>. QED
    BY <2>1, <2>2
<1>3. ASSUME NEW n \in Nat, n \in N PROVE n + 1 \in N
  <2>1. PICK g \in [SUBSET S -> V] : UpTo(g, n)
    BY <1>3
  <2>. DEFINE h == [s \in SUBSET S |->
                      IF Cardinality(s) <= n THEN g[s] ELSE FoldStep(base, F, c, g, s)]
  <2>2. ASSUME NEW s \in SUBSET S PROVE FoldStep(base, F, c, g, s) \in V
    <3>1. CASE s = {}
      BY <3>1 DEF FoldStep
    <3>2. CASE s # {}
      <4>1. c[s] \in S /\ s \ {c[s]} \in SUBSET S
        BY <3>2 DEF Chooses
      <4>2. g[s \ {c[s]}] \in V
        BY <2>1, <4>1
      <4>. QED
        BY <3>2, <4>1, <4>2 DEF FoldStep
    <3>. QED
      BY <3>1, <3>2
  <2>3. h \in [SUBSET S -> V]
    BY <2>1, <2>2
  <2>4. ASSUME NEW s \in SUBSET S, Cardinality(s) <= n + 1
        PROVE  h[s] = FoldStep(base, F, c, h, s)
    <3>1. CASE s = {}
      <4>1. Cardinality(s) <= n
        BY <3>1, FS_EmptySet
      <4>2. h[s] = FoldStep(base, F, c, g, s)
        BY <2>1, <4>1
      <4>. QED
        BY <3>1, <4>2 DEF FoldStep
    <3>2. CASE s # {}
      <4>. DEFINE r == s \ {c[s]}
      <4>1. c[s] \in s
        BY <3>2 DEF Chooses
      <4>2. r \in SUBSET S /\ Cardinality(r) <= n
        BY <1>1, <2>4, <4>1, TakeOne
      <4>3. h[r] = g[r]
        BY <4>2
      <4>4. FoldStep(base, F, c, h, s) = FoldStep(base, F, c, g, s)
        BY <3>2, <4>3 DEF FoldStep
      <4>5. h[s] = FoldStep(base, F, c, g, s)
        BY <2>1
      <4>. QED
        BY <4>4, <4>5
    <3>. QED
      BY <3>1, <3>2
  <2>. HIDE DEF h
  <2>5. UpTo(h, n + 1)
    BY <2>4
  <2>. QED
    BY <2>3, <2>5
<1>. HIDE DEF N
<1>4. Cardinality(S) \in N
  <2>1. Nat \subseteq N
    BY <1>2, <1>3, NumberInduction
  <2>. QED
    BY <2>1, FS_CardinalityType
<1>5. PICK g \in [SUBSET S -> V] : UpTo(g, Cardinality(S))
  BY <1>4 DEF N
<1>. QED
  BY <1>5, FS_Subset DEF Solves

-----------------------------------------------------------------------------
(* Sums. *)

\* The sum of a function over a finite set, in the form that FiniteSetsExt has.
Total(f, S) == MapThenSumSet(LAMBDA x : f[x], S)

\* The member of a set that a sum takes next.
Chosen(s) == CHOOSE x \in s : TRUE
Choice(S) == [s \in SUBSET S |-> Chosen(s)]

\* One step of the sum, g being what the steps before gave.
SumStep(f, g, s) == IF s = {} THEN 0 ELSE f[Chosen(s)] + g[s \ {Chosen(s)}]

\* The sums over all subsets.
Sums(f, S) == CHOOSE g : g = [s \in SUBSET S |-> SumStep(f, g, s)]

\* Total is the last of the sums.
LEMMA TotalIs == ASSUME NEW f, NEW S PROVE Total(f, S) = Sums(f, S)[S]
BY DEF Total, MapThenSumSet, MapThenFoldSet, Sums, SumStep, Chosen

\* A sum takes members.
LEMMA ChoiceChooses ==
  ASSUME NEW S
  PROVE  Chooses(Choice(S), S) /\ \A s \in SUBSET S : Choice(S)[s] = Chosen(s)
BY DEF Chooses, Choice, Chosen

\* The function that the sums are by definition exists.
LEMMA SumsExist ==
  ASSUME NEW S, IsFiniteSet(S), NEW f \in [S -> Nat]
  PROVE  Sums(f, S) = [s \in SUBSET S |-> SumStep(f, Sums(f, S), s)]
<1>. DEFINE F == [xv \in S \X Nat |-> f[xv[1]] + xv[2]]
            c == Choice(S)
<1>1. F \in [S \X Nat -> Nat] /\ \A x \in S, v \in Nat : F[<<x, v>>] = f[x] + v
  OBVIOUS
<1>2. Chooses(c, S) /\ \A s \in SUBSET S : c[s] = Chosen(s)
  BY ChoiceChooses
<1>. HIDE DEF F, c
<1>3. PICK g : Solves(g, S, c, Nat, 0, F)
  <2>1. Recursive(S, c, Nat, 0, F)
    BY <1>1, <1>2 DEF Recursive
  <2>. QED
    BY <2>1, Recursion
<1>4. ASSUME NEW s \in SUBSET S PROVE g[s] = SumStep(f, g, s)
  <2>1. CASE s = {}
    BY <1>3, <2>1 DEF FoldStep, SumStep, Solves
  <2>2. CASE s # {}
    <3>1. Chosen(s) \in S /\ g[s \ {Chosen(s)}] \in Nat
      BY <1>2, <1>3, <2>2 DEF Chooses, Solves
    <3>2. g[s] = F[<<Chosen(s), g[s \ {Chosen(s)}]>>]
      BY <1>2, <1>3, <2>2 DEF FoldStep, Solves
    <3>. QED
      BY <1>1, <2>2, <3>1, <3>2 DEF SumStep
  <2>. QED
    BY <2>1, <2>2
<1>5. g = [s \in SUBSET S |-> SumStep(f, g, s)]
  BY <1>3, <1>4 DEF Solves
<1>. QED
  BY <1>5 DEF Sums

\* Each sum is one step from the sum over what is left.
LEMMA SumsAre ==
  ASSUME NEW S, IsFiniteSet(S), NEW f \in [S -> Nat]
  PROVE  /\ Sums(f, S)[{}] = 0
         /\ \A s \in SUBSET S :
              s # {} => Sums(f, S)[s] = f[Chosen(s)] + Sums(f, S)[s \ {Chosen(s)}]
<1>. DEFINE g == Sums(f, S)
<1>1. g = [s \in SUBSET S |-> SumStep(f, g, s)]
  BY SumsExist
<1>. HIDE DEF g
<1>2. \A s \in SUBSET S : g[s] = SumStep(f, g, s)
  BY <1>1
<1>3. {} \in SUBSET S
  OBVIOUS
<1>. QED
  BY <1>2, <1>3 DEF SumStep, g

\* A sum of numbers is a number, and zero if all of them are.
LEMMA TotalType ==
  ASSUME NEW S, IsFiniteSet(S), NEW f \in [S -> Nat]
  PROVE  /\ Total(f, S) \in Nat
         /\ (\A x \in S : f[x] = 0) => Total(f, S) = 0
<1>. DEFINE g == Sums(f, S)
            T == {s \in SUBSET S : g[s] \in Nat /\ ((\A x \in S : f[x] = 0) => g[s] = 0)}
<1>1. g[{}] = 0
  BY SumsAre
<1>2. \A s \in SUBSET S : s # {} => g[s] = f[Chosen(s)] + g[s \ {Chosen(s)}]
  BY SumsAre
<1>. HIDE DEF g
<1>3. {} \in T
  BY <1>1
<1>4. ASSUME NEW s \in SUBSET S, s # {}, s \ {Chosen(s)} \in T PROVE s \in T
  <2>1. f[Chosen(s)] \in Nat /\ Chosen(s) \in S
    BY <1>4 DEF Chosen
  <2>2. /\ g[s \ {Chosen(s)}] \in Nat
        /\ (\A x \in S : f[x] = 0) => g[s \ {Chosen(s)}] = 0
    BY <1>4
  <2>3. g[s] = f[Chosen(s)] + g[s \ {Chosen(s)}]
    BY <1>2, <1>4
  <2>. QED
    BY <2>1, <2>2, <2>3
<1>. HIDE DEF T
<1>5. SUBSET S \subseteq T
  <2>1. Chooses(Choice(S), S) /\ \A s \in SUBSET S : Choice(S)[s] = Chosen(s)
    BY ChoiceChooses
  <2>2. \A s \in SUBSET S : s # {} /\ s \ {Choice(S)[s]} \in T => s \in T
    BY <1>4, <2>1
  <2>. QED
    BY <1>3, <2>1, <2>2, SubsetInduction
<1>6. S \in T
  BY <1>5
<1>. QED
  BY <1>6, TotalIs DEF T, g

\* Where two functions differ at one point, their sums differ by as much.
LEMMA TotalChanges ==
  ASSUME NEW S, IsFiniteSet(S), NEW f \in [S -> Nat], NEW h \in [S -> Nat],
         NEW p \in S, \A x \in S : x # p => h[x] = f[x]
  PROVE  Total(h, S) + f[p] = Total(f, S) + h[p]
<1>. DEFINE F == Sums(f, S)
            H == Sums(h, S)
            T == {s \in SUBSET S :
                    /\ F[s] \in Nat /\ H[s] \in Nat
                    /\ p \notin s => H[s] = F[s]
                    /\ p \in s => H[s] + f[p] = F[s] + h[p]}
<1>1. F[{}] = 0 /\ \A s \in SUBSET S : s # {} => F[s] = f[Chosen(s)] + F[s \ {Chosen(s)}]
  BY SumsAre
<1>2. H[{}] = 0 /\ \A s \in SUBSET S : s # {} => H[s] = h[Chosen(s)] + H[s \ {Chosen(s)}]
  BY SumsAre
<1>. HIDE DEF F, H
<1>3. {} \in T
  BY <1>1, <1>2
<1>4. ASSUME NEW s \in SUBSET S, s # {}, s \ {Chosen(s)} \in T PROVE s \in T
  <2>. DEFINE c == Chosen(s)
              r == s \ {c}
  <2>1. c \in s /\ c \in S
    BY <1>4 DEF Chosen
  <2>2. F[s] = f[c] + F[r] /\ H[s] = h[c] + H[r]
    BY <1>1, <1>2, <1>4
  <2>3. /\ f[c] \in Nat /\ h[c] \in Nat /\ f[p] \in Nat /\ h[p] \in Nat
        /\ F[r] \in Nat /\ H[r] \in Nat
        /\ p \notin r => H[r] = F[r]
        /\ p \in r => H[r] + f[p] = F[r] + h[p]
    BY <1>4, <2>1
  <2>4. CASE c = p
    BY <2>1, <2>2, <2>3, <2>4
  <2>5. CASE c # p
    <3>1. h[c] = f[c] /\ (p \in r <=> p \in s)
      BY <2>1, <2>5
    <3>. HIDE DEF r, c
    <3>. QED
      BY <2>2, <2>3, <3>1
  <2>. QED
    BY <2>4, <2>5
<1>. HIDE DEF T
<1>5. SUBSET S \subseteq T
  <2>1. Chooses(Choice(S), S) /\ \A s \in SUBSET S : Choice(S)[s] = Chosen(s)
    BY ChoiceChooses
  <2>2. \A s \in SUBSET S : s # {} /\ s \ {Choice(S)[s]} \in T => s \in T
    BY <1>4, <2>1
  <2>. QED
    BY <1>3, <2>1, <2>2, SubsetInduction
<1>6. S \in T
  BY <1>5
<1>. QED
  BY <1>6, TotalIs DEF T, F, H

-----------------------------------------------------------------------------
(* A loop over the indices of a sequence. *)

\* The index that FoldLeft takes next, the greatest: the last round of the loop.
Greatest(n) == [s \in SUBSET (1 .. n) |-> Max(s)]

\* A set of indices has a greatest one.
LEMMA GreatestChooses ==
  ASSUME NEW n \in Nat
  PROVE  /\ Chooses(Greatest(n), 1 .. n)
         /\ \A s \in SUBSET (1 .. n) : Greatest(n)[s] = Max(s)
         /\ \A i \in 1 .. n : Max(1 .. i) = i
<1>1. ASSUME NEW s \in SUBSET (1 .. n), s # {} PROVE Max(s) \in s
  <2>. DEFINE D == {n - x : x \in s}
  <2>1. D \in SUBSET Nat /\ D # {}
    <3>1. \A x \in s : n - x \in Nat
      OBVIOUS
    <3>2. PICK x \in s : TRUE
      BY <1>1
    <3>3. n - x \in D
      BY <3>2
    <3>. QED
      BY <3>1, <3>3
  <2>. HIDE DEF D
  <2>2. PICK d \in D : \A e \in D : d <= e
    BY <2>1, LeastNumber
  <2>3. \E x \in s : \A y \in s : x >= y
    BY <2>2 DEF D
  <2>. QED
    BY <2>3 DEF Max
<1>2. ASSUME NEW i \in 1 .. n PROVE Max(1 .. i) = i
  <2>1. i \in 1 .. i /\ \A y \in 1 .. i : i >= y
    OBVIOUS
  <2>2. \A x \in 1 .. i : (\A y \in 1 .. i : x >= y) => x = i
    OBVIOUS
  <2>. QED
    BY <2>1, <2>2 DEF Max
<1>. QED
  BY <1>1, <1>2 DEF Chooses, Greatest

\* The indices up to one, and those before it.
LEMMA IndicesUpTo ==
  ASSUME NEW n \in Nat, NEW i \in 1 .. n
  PROVE  1 .. i \in SUBSET (1 .. n) /\ 1 .. i # {} /\ (1 .. i) \ {i} = 1 .. i - 1
<1>1. i \in 1 .. i
  OBVIOUS
<1>2. \A j \in 1 .. i : j \in 1 .. n
  OBVIOUS
<1>3. \A j : j \in (1 .. i) \ {i} <=> j \in 1 .. i - 1
  OBVIOUS
<1>. QED
  BY <1>1, <1>2, <1>3
=============================================================================
