----------------------------- MODULE FoldLemmas -----------------------------
(***************************************************************************)
(* Facts about folds over finite sets that the proofs of the components    *)
(* share.  Induction is by well-founded strict inclusion of finite sets,   *)
(* with the induction hypothesis as a set instead of an operator, so that  *)
(* a citation needs no instantiation of an operator.                       *)
(***************************************************************************)
EXTENDS Integers, FiniteSetsExt, FiniteSetTheorems, WellFoundedInduction, TLAPS

(* The sum of a function over a finite set *)
SumOf(f, S) == MapThenSumSet(LAMBDA a : f[a], S)

-----------------------------------------------------------------------------
(***************************************************************************)
(* Induction                                                               *)
(***************************************************************************)

(* A set that holds each subset of S all of whose proper subsets it holds, *)
(* holds every subset of S.                                                *)
LEMMA SubsetInduction ==
    ASSUME NEW S, IsFiniteSet(S), NEW A,
           \A T \in SUBSET S : (\A U \in SUBSET T : U # T => U \in A) => T \in A
    PROVE  \A T \in SUBSET S : T \in A
<1> DEFINE Bad == {T \in SUBSET S : T \notin A}
<1> SUFFICES ASSUME Bad # {} PROVE FALSE
  OBVIOUS
<1>1. IsWellFoundedOn(StrictSubsetOrdering(S), SUBSET S)
  <2>1. FiniteSubsetsOf(S) = SUBSET S
    BY FS_FiniteSubsetsOfFinite
  <2>2. IsWellFoundedOn(StrictSubsetOrdering(S), FiniteSubsetsOf(S))
    BY FS_StrictSubsetOrderingWellFounded
  <2> QED
    BY <2>1, <2>2
<1>2. Bad \subseteq SUBSET S
  OBVIOUS
<1> HIDE DEF Bad
<1>3. PICK T \in Bad : \A U \in Bad : ~(<<U, T>> \in StrictSubsetOrdering(S))
  BY <1>1, <1>2, WFMin
<1> USE DEF Bad
<1>4. \A U \in SUBSET T : U # T => U \in A
  BY <1>3 DEF StrictSubsetOrdering
<1> QED
  BY <1>3, <1>4

(* Induction along the numbers from 0 to n *)
LEMMA RangeInduction ==
    ASSUME NEW n \in Nat, NEW A, 0 \in A,
           \A k \in 0 .. (n - 1) : k \in A => k + 1 \in A
    PROVE  0 .. n \subseteq A
<1> DEFINE B == {T \in SUBSET (0 .. n) : \A k \in 0 .. n : T = 0 .. k => k \in A}
<1>1. IsFiniteSet(0 .. n)
  BY FS_Interval
<1>2. ASSUME NEW T \in SUBSET (0 .. n), \A U \in SUBSET T : U # T => U \in B
      PROVE  T \in B
  <2> SUFFICES ASSUME NEW k \in 0 .. n, T = 0 .. k PROVE k \in A
    OBVIOUS
  <2>1. CASE k = 0
    BY <2>1
  <2>2. CASE k # 0
    <3>1. k - 1 \in 0 .. (n - 1) /\ k - 1 \in 0 .. n /\ (k - 1) + 1 = k
      BY <2>2
    <3>2. 0 .. (k - 1) \in SUBSET T /\ k \in T /\ k \notin 0 .. (k - 1)
      BY <2>2
    <3>3. 0 .. (k - 1) \in B
      BY <1>2, <3>2
    <3>4. k - 1 \in A
      BY <3>1, <3>3
    <3> QED
      BY <3>1, <3>4
  <2> QED
    BY <2>1, <2>2
<1> HIDE DEF B
<1>3. \A T \in SUBSET (0 .. n) : T \in B
  BY <1>1, <1>2, SubsetInduction
<1>4. ASSUME NEW k \in 0 .. n
      PROVE  k \in A
  <2>1. 0 .. k \in SUBSET (0 .. n)
    OBVIOUS
  <2> QED
    BY <1>3, <2>1 DEF B
<1> QED
  BY <1>4

-----------------------------------------------------------------------------
(***************************************************************************)
(* Folds.  A fold over the finite set S with results in V picks an element *)
(* of the set that is left, and applies op for that element to the fold of *)
(* the others.                                                             *)
(***************************************************************************)
FoldArgs(S, V, base, pick, op) ==
    /\ IsFiniteSet(S) /\ base \in V
    /\ \A T \in SUBSET S : T # {} => pick[T] \in T
    /\ \A x \in S, v \in V : op[x][v] \in V

IsFold(it, S, base, pick, op) ==
    \A T \in SUBSET S : it[T] = IF T = {} THEN base ELSE op[pick[T]][it[T \ {pick[T]}]]

HasFold(S, V, base, pick, op) == \E it \in [SUBSET S -> V] : IsFold(it, S, base, pick, op)

(* The recursion has a solution. *)
LEMMA FoldExists ==
    ASSUME NEW S, NEW V, NEW base, NEW pick, NEW op, FoldArgs(S, V, base, pick, op)
    PROVE  HasFold(S, V, base, pick, op)
<1>0. /\ IsFiniteSet(S) /\ base \in V
      /\ \A T \in SUBSET S : T # {} => pick[T] \in T
      /\ \A x \in S, v \in V : op[x][v] \in V
  BY DEF FoldArgs
<1> DEFINE Upto(k) == {T \in SUBSET S : Cardinality(T) <= k}
           Rec(h, k) == \A T \in Upto(k) :
                          h[T] = IF T = {} THEN base ELSE op[pick[T]][h[T \ {pick[T]}]]
           A == {k \in Nat : \E h \in [SUBSET S -> V] : Rec(h, k)}
           n == Cardinality(S)
<1>1. \A T \in SUBSET S : /\ IsFiniteSet(T) /\ Cardinality(T) \in Nat /\ Cardinality(T) <= n
                          /\ Cardinality(T) = 0 <=> T = {}
                          /\ \A x \in T : T \ {x} \in SUBSET S
                                          /\ Cardinality(T \ {x}) = Cardinality(T) - 1
  BY <1>0, FS_Subset, FS_CardinalityType, FS_EmptySet, FS_RemoveElement
<1>2. n \in Nat
  BY <1>0, FS_CardinalityType
<1>3. 0 \in A
  <2> DEFINE h == [T \in SUBSET S |-> base]
  <2>1. Rec(h, 0)
    BY <1>1
  <2> QED
    BY <1>0, <2>1
<1>4. ASSUME NEW k \in 0 .. (n - 1), k \in A
      PROVE  k + 1 \in A
  <2>1. PICK h \in [SUBSET S -> V] : Rec(h, k)
    BY <1>4
  <2> DEFINE g == [T \in SUBSET S |->
                     IF T = {} \/ T \in Upto(k) THEN h[T] ELSE op[pick[T]][h[T \ {pick[T]}]]]
  <2>2. g \in [SUBSET S -> V]
    BY <1>0, <1>1
  <2>3. ASSUME NEW T \in Upto(k + 1)
        PROVE  g[T] = IF T = {} THEN base ELSE op[pick[T]][g[T \ {pick[T]}]]
    <3>1. CASE T = {}
      <4>1. T \in Upto(k)
        BY <1>1, <3>1
      <4> QED
        BY <2>1, <3>1, <4>1
    <3>2. CASE T # {}
      <4>1. pick[T] \in T
        BY <1>0, <3>2
      <4> DEFINE U == T \ {pick[T]}
      <4>2. U \in Upto(k) /\ U \in SUBSET S
        BY <1>1, <4>1
      <4>3. g[U] = h[U]
        BY <4>2
      <4>4. CASE T \in Upto(k)
        BY <2>1, <3>2, <4>3, <4>4
      <4>5. CASE T \notin Upto(k)
        BY <3>2, <4>3, <4>5
      <4> QED
        BY <4>4, <4>5
    <3> QED
      BY <3>1, <3>2
  <2>4. k + 1 \in Nat
    OBVIOUS
  <2> HIDE DEF g, Upto
  <2>5. Rec(g, k + 1)
    BY <2>3
  <2> HIDE DEF Rec
  <2> QED
    BY <2>2, <2>4, <2>5
<1> HIDE DEF A
<1>5. n \in A
  BY <1>2, <1>3, <1>4, RangeInduction
<1>6. PICK h \in [SUBSET S -> V] : Rec(h, n)
  BY <1>5 DEF A
<1> QED
  BY <1>1, <1>6 DEF HasFold, IsFold

-----------------------------------------------------------------------------
(***************************************************************************)
(* Sums                                                                    *)
(***************************************************************************)

(* The element MapThenSumSet takes next *)
First(T) == CHOOSE x \in T : TRUE

(* A sum is computed one element at a time. *)
LEMMA SumIter ==
    ASSUME NEW S, IsFiniteSet(S), NEW f, \A x \in S : f[x] \in Int
    PROVE  \E it \in [SUBSET S -> Int] :
              /\ \A T \in SUBSET S :
                    it[T] = IF T = {} THEN 0 ELSE f[First(T)] + it[T \ {First(T)}]
              /\ SumOf(f, S) = it[S]
<1> DEFINE pick == [T \in SUBSET S |-> First(T)]
           op == [x \in S |-> [v \in Int |-> f[x] + v]]
           Body(g) == [s \in SUBSET S |-> IF s = {} THEN 0 ELSE f[First(s)] + g[s \ {First(s)}]]
           chosen == CHOOSE iter : iter = Body(iter)
<1>1. \A T \in SUBSET S : T # {} => First(T) \in T /\ pick[T] \in T
  BY DEF First
<1>2. \A x \in S, v \in Int : op[x][v] \in Int
  OBVIOUS
<1>3. PICK it \in [SUBSET S -> Int] :
         \A T \in SUBSET S : it[T] = IF T = {} THEN 0 ELSE op[pick[T]][it[T \ {pick[T]}]]
  <2> DEFINE V == Int
             zero == 0
  <2>a. \A T \in SUBSET S : T # {} => pick[T] \in T
    BY <1>1
  <2>b. zero \in V /\ \A x \in S, v \in V : op[x][v] \in V
    BY <1>2
  <2> HIDE DEF pick, op, V, zero
  <2>1. FoldArgs(S, V, zero, pick, op)
    BY <2>a, <2>b DEF FoldArgs
  <2>2. HasFold(S, V, zero, pick, op)
    BY <2>1, FoldExists
  <2> QED
    BY <2>2 DEF V, zero, HasFold, IsFold
<1>4. ASSUME NEW T \in SUBSET S
      PROVE  it[T] = IF T = {} THEN 0 ELSE f[First(T)] + it[T \ {First(T)}]
  BY <1>1, <1>3
<1>5. it = Body(it)
  BY <1>4
<1> HIDE DEF Body
<1>6. chosen = Body(chosen)
  BY <1>5
<1>7. SumOf(f, S) = chosen[S]
  BY DEF SumOf, MapThenSumSet, MapThenFoldSet, Body, First
<1> HIDE DEF chosen
<1> DEFINE Same == {T \in SUBSET S : chosen[T] = it[T]}
<1>8. ASSUME NEW T \in SUBSET S, \A U \in SUBSET T : U # T => U \in Same
      PROVE  T \in Same
  <2>1. chosen[T] = IF T = {} THEN 0 ELSE f[First(T)] + chosen[T \ {First(T)}]
    BY <1>6 DEF Body
  <2>2. CASE T = {}
    BY <1>4, <2>1, <2>2
  <2>3. CASE T # {}
    <3>1. T \ {First(T)} \in SUBSET T /\ T \ {First(T)} # T
      BY <1>1, <2>3
    <3>2. chosen[T \ {First(T)}] = it[T \ {First(T)}]
      BY <1>8, <3>1
    <3> QED
      BY <1>4, <2>1, <2>3, <3>2
  <2> QED
    BY <2>2, <2>3
<1> HIDE DEF Same
<1>9. \A T \in SUBSET S : T \in Same
  BY <1>8, SubsetInduction
<1> QED
  BY <1>4, <1>7, <1>9 DEF Same

(* g is f, with v more at a *)
Raised(f, g, S, a, v) ==
    /\ IsFiniteSet(S) /\ a \in S /\ v \in Int
    /\ \A x \in S : f[x] \in Int
    /\ \A x \in S : g[x] = f[x] + (IF x = a THEN v ELSE 0)

SumRaised(f, g, S, v) == SumOf(g, S) = SumOf(f, S) + v /\ SumOf(f, S) \in Int

(* A function that differs in one place has a sum that differs by as much. *)
LEMMA SumUpdate ==
    ASSUME NEW S, NEW f, NEW g, NEW a, NEW v, Raised(f, g, S, a, v)
    PROVE  SumRaised(f, g, S, v)
<1>0. /\ IsFiniteSet(S) /\ a \in S /\ v \in Int
      /\ \A x \in S : f[x] \in Int
      /\ \A x \in S \ {a} : g[x] = f[x]
      /\ g[a] = f[a] + v
  BY DEF Raised
<1> SUFFICES SumOf(g, S) = SumOf(f, S) + v /\ SumOf(f, S) \in Int
  BY DEF SumRaised
<1> USE <1>0
<1>1. \A x \in S : g[x] \in Int
  OBVIOUS
<1>2. PICK fs \in [SUBSET S -> Int] :
         /\ \A T \in SUBSET S : fs[T] = IF T = {} THEN 0 ELSE f[First(T)] + fs[T \ {First(T)}]
         /\ SumOf(f, S) = fs[S]
  BY SumIter
<1>3. PICK gs \in [SUBSET S -> Int] :
         /\ \A T \in SUBSET S : gs[T] = IF T = {} THEN 0 ELSE g[First(T)] + gs[T \ {First(T)}]
         /\ SumOf(g, S) = gs[S]
  BY <1>1, SumIter
<1> DEFINE Moved == {T \in SUBSET S : gs[T] = fs[T] + IF a \in T THEN v ELSE 0}
<1>4. ASSUME NEW T \in SUBSET S, \A U \in SUBSET T : U # T => U \in Moved
      PROVE  T \in Moved
  <2>1. CASE T = {}
    <3>1. fs[T] = 0 /\ gs[T] = 0 /\ a \notin T
      BY <1>2, <1>3, <2>1
    <3> QED
      BY <3>1
  <2>2. CASE T # {}
    <3> DEFINE x == First(T)
               U == T \ {x}
    <3>1. x \in T
      BY <2>2 DEF First
    <3>2. U \in SUBSET T /\ U # T /\ U \in SUBSET S
      BY <3>1
    <3>3. gs[U] = fs[U] + IF a \in U THEN v ELSE 0
      BY <1>4, <3>2
    <3>4. gs[T] = g[x] + gs[U] /\ fs[T] = f[x] + fs[U]
      BY <1>2, <1>3, <2>2
    <3>5. fs[U] \in Int /\ f[x] \in Int
      BY <3>1, <3>2
    <3>6. CASE x = a
      BY <3>1, <3>3, <3>4, <3>5, <3>6
    <3>7. CASE x # a
      <4>1. g[x] = f[x] /\ (a \in U <=> a \in T)
        BY <3>1, <3>7
      <4> QED
        BY <3>3, <3>4, <3>5, <4>1
    <3> QED
      BY <3>6, <3>7
  <2> QED
    BY <2>1, <2>2
<1> HIDE DEF Moved
<1>5. \A T \in SUBSET S : T \in Moved
  BY <1>4, SubsetInduction
<1> QED
  BY <1>2, <1>3, <1>5 DEF Moved

(* A sum of zeros *)
LEMMA SumZero ==
    ASSUME NEW S, IsFiniteSet(S), NEW f, \A x \in S : f[x] = 0
    PROVE  SumOf(f, S) = 0
<1>0. \A x \in S : f[x] \in Int
  OBVIOUS
<1>1. PICK fs \in [SUBSET S -> Int] :
         /\ \A T \in SUBSET S : fs[T] = IF T = {} THEN 0 ELSE f[First(T)] + fs[T \ {First(T)}]
         /\ SumOf(f, S) = fs[S]
  BY <1>0, SumIter
<1> DEFINE Nil == {T \in SUBSET S : fs[T] = 0}
<1>2. ASSUME NEW T \in SUBSET S, \A U \in SUBSET T : U # T => U \in Nil
      PROVE  T \in Nil
  <2>1. CASE T = {}
    BY <1>1, <2>1
  <2>2. CASE T # {}
    <3> DEFINE U == T \ {First(T)}
    <3>1. First(T) \in T
      BY <2>2 DEF First
    <3>2. fs[U] = 0
      BY <1>2, <3>1
    <3>3. fs[T] = f[First(T)] + fs[U]
      BY <1>1, <2>2
    <3> QED
      BY <3>1, <3>2, <3>3
  <2> QED
    BY <2>1, <2>2
<1> HIDE DEF Nil
<1>3. \A T \in SUBSET S : T \in Nil
  BY <1>2, SubsetInduction
<1> QED
  BY <1>1, <1>3 DEF Nil

(* h adds up f and g *)
Added(f, g, h, S) ==
    /\ IsFiniteSet(S)
    /\ \A x \in S : f[x] \in Int /\ g[x] \in Int /\ h[x] = f[x] + g[x]

SumAdded(f, g, h, S) ==
    /\ SumOf(f, S) \in Int /\ SumOf(g, S) \in Int
    /\ SumOf(h, S) = SumOf(f, S) + SumOf(g, S)

(* The sum of the sums is the sum of the whole. *)
LEMMA SumAdd ==
    ASSUME NEW S, NEW f, NEW g, NEW h, Added(f, g, h, S)
    PROVE  SumAdded(f, g, h, S)
<1>1. IsFiniteSet(S) /\ \A x \in S : f[x] \in Int /\ g[x] \in Int /\ h[x] = f[x] + g[x]
  BY DEF Added
<1>2. \A x \in S : h[x] \in Int
  BY <1>1
<1>3. PICK fs \in [SUBSET S -> Int] :
         /\ \A T \in SUBSET S : fs[T] = IF T = {} THEN 0 ELSE f[First(T)] + fs[T \ {First(T)}]
         /\ SumOf(f, S) = fs[S]
  BY <1>1, SumIter
<1>4. PICK gs \in [SUBSET S -> Int] :
         /\ \A T \in SUBSET S : gs[T] = IF T = {} THEN 0 ELSE g[First(T)] + gs[T \ {First(T)}]
         /\ SumOf(g, S) = gs[S]
  BY <1>1, SumIter
<1>5. PICK hs \in [SUBSET S -> Int] :
         /\ \A T \in SUBSET S : hs[T] = IF T = {} THEN 0 ELSE h[First(T)] + hs[T \ {First(T)}]
         /\ SumOf(h, S) = hs[S]
  BY <1>1, <1>2, SumIter
<1> DEFINE Adds == {T \in SUBSET S : hs[T] = fs[T] + gs[T]}
<1>6. ASSUME NEW T \in SUBSET S, \A U \in SUBSET T : U # T => U \in Adds
      PROVE  T \in Adds
  <2>1. CASE T = {}
    <3>1. hs[T] = 0 /\ fs[T] = 0 /\ gs[T] = 0
      BY <1>3, <1>4, <1>5, <2>1
    <3> QED
      BY <3>1
  <2>2. CASE T # {}
    <3> DEFINE x == First(T)
               U == T \ {x}
    <3>1. x \in T
      BY <2>2 DEF First
    <3>2. hs[U] = fs[U] + gs[U]
      BY <1>6, <3>1
    <3>3. hs[T] = h[x] + hs[U] /\ fs[T] = f[x] + fs[U] /\ gs[T] = g[x] + gs[U]
      BY <1>3, <1>4, <1>5, <2>2
    <3>4. fs[U] \in Int /\ gs[U] \in Int /\ f[x] \in Int /\ g[x] \in Int /\ h[x] = f[x] + g[x]
      BY <1>1, <3>1
    <3> HIDE DEF x, U
    <3> QED
      BY <3>2, <3>3, <3>4
  <2> QED
    BY <2>1, <2>2
<1> HIDE DEF Adds
<1>7. \A T \in SUBSET S : T \in Adds
  BY <1>1, <1>6, SubsetInduction
<1> QED
  BY <1>3, <1>4, <1>5, <1>7 DEF Adds, SumAdded

(* g is f with one place more, at x *)
Extended(f, g, S, x) ==
    /\ IsFiniteSet(S) /\ x \notin S /\ g[x] \in Int
    /\ \A y \in S : f[y] \in Int /\ g[y] = f[y]

SumExtended(f, g, S, x) ==
    SumOf(f, S) \in Int /\ SumOf(g, S \cup {x}) = SumOf(f, S) + g[x]

(* One place more adds its value, whichever place the sum takes first. *)
LEMMA SumExtend ==
    ASSUME NEW S, NEW f, NEW g, NEW x, Extended(f, g, S, x)
    PROVE  SumExtended(f, g, S, x)
<1> DEFINE W == S \cup {x}
<1>1. /\ IsFiniteSet(S) /\ x \notin S /\ g[x] \in Int
      /\ \A y \in S : f[y] \in Int /\ g[y] = f[y]
  BY DEF Extended
<1>2. IsFiniteSet(W)
  BY <1>1, FS_AddElement
<1>3. \A y \in W : g[y] \in Int
  BY <1>1
<1>4. PICK fs \in [SUBSET S -> Int] :
         /\ \A T \in SUBSET S : fs[T] = IF T = {} THEN 0 ELSE f[First(T)] + fs[T \ {First(T)}]
         /\ SumOf(f, S) = fs[S]
  BY <1>1, SumIter
<1> HIDE DEF W
<1>5. PICK gs \in [SUBSET W -> Int] :
         /\ \A T \in SUBSET W : gs[T] = IF T = {} THEN 0 ELSE g[First(T)] + gs[T \ {First(T)}]
         /\ SumOf(g, W) = gs[W]
  BY <1>2, <1>3, SumIter
<1>6. gs[S] = fs[S]
  <2> DEFINE Same == {T \in SUBSET S : gs[T] = fs[T]}
  <2>1. ASSUME NEW T \in SUBSET S, \A U \in SUBSET T : U # T => U \in Same
        PROVE  T \in Same
    <3>0. T \in SUBSET W
      BY DEF W
    <3>1. CASE T = {}
      BY <1>4, <1>5, <3>0, <3>1
    <3>2. CASE T # {}
      <4> DEFINE a == First(T)
                 U == T \ {a}
      <4>1. a \in T
        BY <3>2 DEF First
      <4>2. gs[U] = fs[U]
        BY <2>1, <4>1
      <4>3. gs[T] = g[a] + gs[U] /\ fs[T] = f[a] + fs[U]
        BY <1>4, <1>5, <3>0, <3>2
      <4> QED
        BY <1>1, <4>1, <4>2, <4>3
    <3> QED
      BY <3>1, <3>2
  <2> HIDE DEF Same
  <2>2. \A T \in SUBSET S : T \in Same
    BY <1>1, <2>1, SubsetInduction
  <2> QED
    BY <2>2 DEF Same
<1> DEFINE Any == {T \in SUBSET W : \A a \in T : gs[T] = g[a] + gs[T \ {a}]}
<1>7. ASSUME NEW T \in SUBSET W, \A U \in SUBSET T : U # T => U \in Any
      PROVE  T \in Any
  <2> SUFFICES ASSUME NEW a \in T PROVE gs[T] = g[a] + gs[T \ {a}]
    OBVIOUS
  <2> DEFINE b == First(T)
  <2>1. b \in T
    BY DEF First
  <2>2. gs[T] = g[b] + gs[T \ {b}]
    BY <1>5
  <2> HIDE DEF b
  <2>3. CASE a = b
    BY <2>2, <2>3
  <2>4. CASE a # b
    <3> DEFINE rest == T \ {a, b}
    <3>1. (T \ {b}) \ {a} = rest /\ (T \ {a}) \ {b} = rest
      OBVIOUS
    <3>2. T \ {a} \in Any /\ T \ {b} \in Any /\ b \in T \ {a} /\ a \in T \ {b}
      BY <1>7, <2>1, <2>4
    <3>3. gs[T \ {b}] = g[a] + gs[rest] /\ gs[T \ {a}] = g[b] + gs[rest]
      BY <3>1, <3>2
    <3>4. g[a] \in Int /\ g[b] \in Int /\ gs[rest] \in Int
      BY <1>3, <2>1
    <3> HIDE DEF rest
    <3> QED
      BY <2>2, <3>3, <3>4
  <2> QED
    BY <2>3, <2>4
<1> HIDE DEF Any
<1>8. \A T \in SUBSET W : T \in Any
  BY <1>2, <1>7, SubsetInduction
<1>9. gs[W] = g[x] + gs[S]
  <2>1. x \in W /\ W \ {x} = S /\ W \in SUBSET W
    BY <1>1 DEF W
  <2> QED
    BY <1>8, <2>1 DEF Any
<1>10. fs[S] \in Int
  BY <1>4
<1>11. SumOf(f, S) \in Int /\ SumOf(g, W) = SumOf(f, S) + g[x]
  BY <1>1, <1>4, <1>5, <1>6, <1>9, <1>10
<1> QED
  BY <1>11 DEF SumExtended, W

(* g is nowhere below f, and f nowhere below 0 *)
Below(f, g, S) ==
    /\ IsFiniteSet(S)
    /\ \A x \in S : f[x] \in Nat /\ g[x] \in Nat /\ f[x] <= g[x]

SumBelow(f, g, S) == SumOf(f, S) \in Nat /\ SumOf(g, S) \in Nat /\ SumOf(f, S) <= SumOf(g, S)

(* Sums of naturals are naturals and monotone. *)
LEMMA SumMono == ASSUME NEW S, NEW f, NEW g, Below(f, g, S) PROVE SumBelow(f, g, S)
<1>1. IsFiniteSet(S) /\ \A x \in S : f[x] \in Nat /\ g[x] \in Nat /\ f[x] <= g[x]
  BY DEF Below
<1>2. (\A x \in S : f[x] \in Int) /\ (\A x \in S : g[x] \in Int)
  BY <1>1
<1>3. PICK fs \in [SUBSET S -> Int] :
         /\ \A T \in SUBSET S : fs[T] = IF T = {} THEN 0 ELSE f[First(T)] + fs[T \ {First(T)}]
         /\ SumOf(f, S) = fs[S]
  BY <1>1, <1>2, SumIter
<1>4. PICK gs \in [SUBSET S -> Int] :
         /\ \A T \in SUBSET S : gs[T] = IF T = {} THEN 0 ELSE g[First(T)] + gs[T \ {First(T)}]
         /\ SumOf(g, S) = gs[S]
  BY <1>1, <1>2, SumIter
<1> DEFINE Good == {T \in SUBSET S : fs[T] \in Nat /\ gs[T] \in Nat /\ fs[T] <= gs[T]}
<1>5. ASSUME NEW T \in SUBSET S, \A U \in SUBSET T : U # T => U \in Good
      PROVE  T \in Good
  <2>1. CASE T = {}
    BY <1>3, <1>4, <2>1
  <2>2. CASE T # {}
    <3> DEFINE x == First(T)
               U == T \ {x}
    <3>1. x \in T
      BY <2>2 DEF First
    <3>2. fs[U] \in Nat /\ gs[U] \in Nat /\ fs[U] <= gs[U]
      BY <1>5, <3>1
    <3>3. fs[T] = f[x] + fs[U] /\ gs[T] = g[x] + gs[U]
      BY <1>3, <1>4, <2>2
    <3>4. f[x] \in Nat /\ g[x] \in Nat /\ f[x] <= g[x]
      BY <1>1, <3>1
    <3> HIDE DEF x, U
    <3>5. fs[T] \in Nat /\ gs[T] \in Nat /\ fs[T] <= gs[T]
      BY <3>2, <3>3, <3>4
    <3> QED
      BY <3>5
  <2> QED
    BY <2>1, <2>2
<1> HIDE DEF Good
<1>6. \A T \in SUBSET S : T \in Good
  BY <1>1, <1>5, SubsetInduction
<1> QED
  BY <1>3, <1>4, <1>6 DEF Good, SumBelow

Constant(f, c, S) == IsFiniteSet(S) /\ c \in Int /\ \A x \in S : f[x] = c

(* The sum of a constant is a multiple of it. *)
LEMMA SumConst ==
    ASSUME NEW S, NEW f, NEW c, Constant(f, c, S)
    PROVE  SumOf(f, S) = c * Cardinality(S)
<1>1. IsFiniteSet(S) /\ c \in Int /\ \A x \in S : f[x] = c
  BY DEF Constant
<1>2. \A x \in S : f[x] \in Int
  BY <1>1
<1>3. PICK fs \in [SUBSET S -> Int] :
         /\ \A T \in SUBSET S : fs[T] = IF T = {} THEN 0 ELSE f[First(T)] + fs[T \ {First(T)}]
         /\ SumOf(f, S) = fs[S]
  BY <1>1, <1>2, SumIter
<1> DEFINE Good == {T \in SUBSET S : fs[T] = c * Cardinality(T)}
<1>4. ASSUME NEW T \in SUBSET S, \A U \in SUBSET T : U # T => U \in Good
      PROVE  T \in Good
  <2>1. CASE T = {}
    <3>1. fs[T] = 0 /\ Cardinality(T) = 0
      BY <1>3, <2>1, FS_EmptySet
    <3> QED
      BY <1>1, <3>1
  <2>2. CASE T # {}
    <3> DEFINE x == First(T)
               U == T \ {x}
               n == Cardinality(U)
    <3>1. x \in T
      BY <2>2 DEF First
    <3>2. IsFiniteSet(T)
      BY <1>1, FS_Subset
    <3>3. IsFiniteSet(U) /\ Cardinality(U) = Cardinality(T) - 1 /\ Cardinality(T) \in Nat
          /\ Cardinality(U) \in Nat
      BY <3>1, <3>2, FS_RemoveElement, FS_CardinalityType
    <3>4. fs[U] = c * n
      BY <1>4, <3>1
    <3>5. fs[T] = c + fs[U]
      BY <1>1, <1>3, <2>2, <3>1
    <3>6. Cardinality(T) = n + 1 /\ n \in Nat
      BY <3>3
    <3> HIDE DEF x, U, n
    <3>7. c * (n + 1) = c + c * n
      BY <1>1, <3>6
    <3> QED
      BY <3>4, <3>5, <3>6, <3>7
  <2> QED
    BY <2>1, <2>2
<1> HIDE DEF Good
<1>5. \A T \in SUBSET S : T \in Good
  BY <1>1, <1>4, SubsetInduction
<1> QED
  BY <1>3, <1>5 DEF Good

SameOn(f, g, S) == IsFiniteSet(S) /\ \A x \in S : f[x] \in Int /\ g[x] = f[x]

(* A sum depends only on the values that are summed. *)
LEMMA SumSame ==
    ASSUME NEW S, NEW f, NEW g, SameOn(f, g, S)
    PROVE  SumOf(g, S) = SumOf(f, S)
<1>1. IsFiniteSet(S) /\ \A x \in S : f[x] \in Int /\ g[x] = f[x]
  BY DEF SameOn
<1>2. CASE S = {}
  <2>1. SumOf(f, S) = 0 /\ SumOf(g, S) = 0
    BY <1>1, <1>2, SumZero
  <2> QED
    BY <2>1
<1>3. CASE S # {}
  <2>1. PICK a \in S : TRUE
    BY <1>3
  <2>2. Raised(f, g, S, a, 0)
    BY <1>1 DEF Raised
  <2>3. SumRaised(f, g, S, 0)
    BY <2>2, SumUpdate
  <2> QED
    BY <2>3 DEF SumRaised
<1> QED
  BY <1>2, <1>3

Disjoint(f, S, T) ==
    IsFiniteSet(S) /\ IsFiniteSet(T) /\ S \cap T = {} /\ \A x \in S \cup T : f[x] \in Int

SumJoined(f, S, T) ==
    /\ SumOf(f, S) \in Int /\ SumOf(f, T) \in Int
    /\ SumOf(f, S \cup T) = SumOf(f, S) + SumOf(f, T)

(* The sum over a union of disjoint sets *)
LEMMA SumUnion == ASSUME NEW S, NEW T, NEW f, Disjoint(f, S, T) PROVE SumJoined(f, S, T)
<1>1. /\ IsFiniteSet(S) /\ IsFiniteSet(T) /\ S \cap T = {}
      /\ \A x \in S \cup T : f[x] \in Int
  BY DEF Disjoint
<1>0. SumOf(f, {}) = 0
  BY FS_EmptySet, SumZero
<1>2. SumOf(f, S) \in Int
  <2>1. \A x \in S : f[x] \in Int
    BY <1>1
  <2>2. PICK fs \in [SUBSET S -> Int] :
         /\ \A V \in SUBSET S : fs[V] = IF V = {} THEN 0 ELSE f[First(V)] + fs[V \ {First(V)}]
         /\ SumOf(f, S) = fs[S]
    BY <1>1, <2>1, SumIter
  <2> QED
    BY <2>2
<1> DEFINE Good == {U \in SUBSET T : SumJoined(f, S, U)}
<1>3. ASSUME NEW U \in SUBSET T, \A V \in SUBSET U : V # U => V \in Good
      PROVE  U \in Good
  <2>1. CASE U = {}
    <3>1. S \cup U = S /\ SumOf(f, U) = 0
      BY <1>0, <2>1
    <3>2. SumJoined(f, S, U)
      BY <1>2, <3>1 DEF SumJoined
    <3> QED
      BY <3>2
  <2>2. CASE U # {}
    <3>1. PICK x \in U : TRUE
      BY <2>2
    <3> DEFINE V == U \ {x}
               W == S \cup V
    <3>2. V \in Good
      BY <1>3
    <3>3. SumJoined(f, S, V)
      BY <3>2
    <3>4. IsFiniteSet(V) /\ IsFiniteSet(W)
      BY <1>1, FS_Subset, FS_Union
    <3>5. x \notin V /\ x \notin W /\ V \cup {x} = U /\ W \cup {x} = S \cup U
      BY <1>1
    <3>6. Extended(f, f, V, x) /\ Extended(f, f, W, x)
      BY <1>1, <3>4, <3>5 DEF Extended
    <3>7. SumExtended(f, f, V, x) /\ SumExtended(f, f, W, x)
      BY <3>6, SumExtend
    <3>8. f[x] \in Int
      BY <1>1
    <3>9. SumOf(f, W) = SumOf(f, S) + SumOf(f, V) /\ SumOf(f, V) \in Int
      BY <3>3 DEF SumJoined
    <3>10. SumOf(f, U) = SumOf(f, V) + f[x] /\ SumOf(f, S \cup U) = SumOf(f, W) + f[x]
      BY <3>5, <3>7 DEF SumExtended
    <3> HIDE DEF V, W
    <3>11. SumJoined(f, S, U)
      BY <1>2, <3>8, <3>9, <3>10 DEF SumJoined
    <3> QED
      BY <3>11
  <2> QED
    BY <2>1, <2>2
<1> HIDE DEF Good
<1>4. \A U \in SUBSET T : U \in Good
  BY <1>1, <1>3, SubsetInduction
<1> QED
  BY <1>4 DEF Good
-----------------------------------------------------------------------------
(***************************************************************************)
(* Sums by groups                                                          *)
(***************************************************************************)

Cover(A, U) == UNION {A[i] : i \in U}

(* g is c[i] throughout the group A[i], and no two groups meet *)
Grouped(A, U, c, g) ==
    /\ IsFiniteSet(U)
    /\ \A i \in U : IsFiniteSet(A[i]) /\ c[i] \in Int /\ \A s \in A[i] : g[s] = c[i]
    /\ \A i, j \in U : i # j => A[i] \cap A[j] = {}

Weighted(A, U, c, w) == \A i \in U : w[i] = c[i] * Cardinality(A[i])

SumGrouped(A, U, g, w) == IsFiniteSet(Cover(A, U)) /\ SumOf(g, Cover(A, U)) = SumOf(w, U)

(* What is summed over all members is what is summed over the groups, each *)
(* weighted by its size.                                                   *)
LEMMA SumByGroup ==
    ASSUME NEW A, NEW U, NEW c, NEW g, NEW w, Grouped(A, U, c, g), Weighted(A, U, c, w)
    PROVE  SumGrouped(A, U, g, w)
<1>1. /\ IsFiniteSet(U)
      /\ \A i \in U : IsFiniteSet(A[i]) /\ c[i] \in Int /\ \A s \in A[i] : g[s] = c[i]
      /\ \A i, j \in U : i # j => A[i] \cap A[j] = {}
  BY DEF Grouped
<1>2. \A i \in U : /\ Cardinality(A[i]) \in Nat /\ w[i] = c[i] * Cardinality(A[i])
                   /\ w[i] \in Int
  <2> SUFFICES ASSUME NEW i \in U
               PROVE  /\ Cardinality(A[i]) \in Nat /\ w[i] = c[i] * Cardinality(A[i])
                      /\ w[i] \in Int
    OBVIOUS
  <2>1. Cardinality(A[i]) \in Nat /\ c[i] \in Int
    BY <1>1, FS_CardinalityType
  <2>2. w[i] = c[i] * Cardinality(A[i])
    BY DEF Weighted
  <2> QED
    BY <2>1, <2>2
<1> DEFINE Good == {T \in SUBSET U : SumGrouped(A, T, g, w)}
<1>3. ASSUME NEW T \in SUBSET U, \A V \in SUBSET T : V # T => V \in Good
      PROVE  T \in Good
  <2>1. CASE T = {}
    <3>1. Cover(A, T) = {}
      BY <2>1 DEF Cover
    <3>2. IsFiniteSet({}) /\ SumOf(g, {}) = 0 /\ SumOf(w, {}) = 0
      BY FS_EmptySet, SumZero
    <3>3. SumGrouped(A, T, g, w)
      BY <2>1, <3>1, <3>2 DEF SumGrouped
    <3> QED
      BY <3>3
  <2>2. CASE T # {}
    <3>1. PICK x \in T : TRUE
      BY <2>2
    <3> DEFINE V == T \ {x}
               C == Cover(A, V)
               B == A[x]
    <3>2. V \in Good
      BY <1>3
    <3>3. IsFiniteSet(C) /\ SumOf(g, C) = SumOf(w, V)
      BY <3>2 DEF SumGrouped
    <3>4. IsFiniteSet(B) /\ c[x] \in Int /\ \A s \in B : g[s] = c[x]
      BY <1>1
    <3>5. Cover(A, T) = C \cup B
      BY DEF Cover
    <3>6. C \cap B = {}
      BY <1>1 DEF Cover
    <3>7. \A s \in C \cup B : g[s] \in Int
      BY <1>1 DEF Cover
    <3>8. IsFiniteSet(V) /\ x \notin V /\ V \cup {x} = T
      BY <1>1, FS_Subset
    <3> HIDE DEF C, B
    <3>9. SumJoined(g, C, B)
      BY <3>3, <3>4, <3>6, <3>7, SumUnion DEF Disjoint
    <3>10. SumOf(g, B) = c[x] * Cardinality(B)
      BY <3>4, SumConst DEF Constant
    <3>11. w[x] = c[x] * Cardinality(B) /\ w[x] \in Int
      BY <1>2 DEF B
    <3>12. SumExtended(w, w, V, x)
      BY <1>2, <3>8, SumExtend DEF Extended
    <3>13. SumOf(g, C \cup B) = SumOf(g, C) + w[x]
      BY <3>9, <3>10, <3>11 DEF SumJoined
    <3>14. SumOf(w, T) = SumOf(w, V) + w[x]
      BY <3>8, <3>12 DEF SumExtended
    <3>15. SumOf(g, C \cup B) = SumOf(w, T)
      BY <3>3, <3>13, <3>14
    <3>16. IsFiniteSet(C \cup B)
      BY <3>3, <3>4, FS_Union
    <3>17. SumGrouped(A, T, g, w)
      BY <3>5, <3>15, <3>16 DEF SumGrouped
    <3> QED
      BY <3>17
  <2> QED
    BY <2>1, <2>2
<1> HIDE DEF Good
<1>4. \A T \in SUBSET U : T \in Good
  BY <1>1, <1>3, SubsetInduction
<1> QED
  BY <1>4 DEF Good

-----------------------------------------------------------------------------
(***************************************************************************)
(* Extrema over finite sets                                                *)
(***************************************************************************)

LEMMA ArgMax ==
    ASSUME NEW S, IsFiniteSet(S), S # {}, NEW f, \A x \in S : f[x] \in Int
    PROVE  \E m \in S : \A x \in S : f[x] <= f[m]
<1> DEFINE Good == {T \in SUBSET S : T # {} => \E m \in T : \A x \in T : f[x] <= f[m]}
<1>1. ASSUME NEW T \in SUBSET S, \A V \in SUBSET T : V # T => V \in Good
      PROVE  T \in Good
  <2> SUFFICES ASSUME T # {} PROVE \E m \in T : \A x \in T : f[x] <= f[m]
    OBVIOUS
  <2>1. PICK y \in T : TRUE
    OBVIOUS
  <2>2. CASE T = {y}
    BY <2>2
  <2>3. CASE T # {y}
    <3>1. T \ {y} # {} /\ T \ {y} # T /\ T \ {y} \in SUBSET T
      BY <2>3
    <3>2. T \ {y} \in Good
      <4> HIDE DEF Good
      <4> QED
        BY <1>1, <3>1
    <3>3. PICK m \in T \ {y} : \A x \in T \ {y} : f[x] <= f[m]
      BY <3>1, <3>2
    <3>4. f[m] \in Int /\ f[y] \in Int /\ \A x \in T : f[x] \in Int
      OBVIOUS
    <3>5. CASE f[y] <= f[m]
      BY <3>3, <3>5
    <3>6. CASE ~(f[y] <= f[m])
      <4>1. \A x \in T : f[x] <= f[y]
        BY <3>3, <3>4, <3>6
      <4> QED
        BY <4>1
    <3> QED
      BY <3>5, <3>6
  <2> QED
    BY <2>2, <2>3
<1> HIDE DEF Good
<1>2. \A T \in SUBSET S : T \in Good
  BY <1>1, SubsetInduction
<1> QED
  BY <1>2 DEF Good

LEMMA ArgMin ==
    ASSUME NEW S, IsFiniteSet(S), S # {}, NEW f, \A x \in S : f[x] \in Int
    PROVE  \E m \in S : \A x \in S : f[m] <= f[x]
<1> DEFINE Good == {T \in SUBSET S : T # {} => \E m \in T : \A x \in T : f[m] <= f[x]}
<1>1. ASSUME NEW T \in SUBSET S, \A V \in SUBSET T : V # T => V \in Good
      PROVE  T \in Good
  <2> SUFFICES ASSUME T # {} PROVE \E m \in T : \A x \in T : f[m] <= f[x]
    OBVIOUS
  <2>1. PICK y \in T : TRUE
    OBVIOUS
  <2>2. CASE T = {y}
    BY <2>2
  <2>3. CASE T # {y}
    <3>1. T \ {y} # {} /\ T \ {y} # T /\ T \ {y} \in SUBSET T
      BY <2>3
    <3>2. T \ {y} \in Good
      <4> HIDE DEF Good
      <4> QED
        BY <1>1, <3>1
    <3>3. PICK m \in T \ {y} : \A x \in T \ {y} : f[m] <= f[x]
      BY <3>1, <3>2
    <3>4. f[m] \in Int /\ f[y] \in Int /\ \A x \in T : f[x] \in Int
      OBVIOUS
    <3>5. CASE f[m] <= f[y]
      BY <3>3, <3>5
    <3>6. CASE ~(f[m] <= f[y])
      <4>1. \A x \in T : f[y] <= f[x]
        BY <3>3, <3>4, <3>6
      <4> QED
        BY <4>1
    <3> QED
      BY <3>5, <3>6
  <2> QED
    BY <2>2, <2>3
<1> HIDE DEF Good
<1>2. \A T \in SUBSET S : T \in Good
  BY <1>1, SubsetInduction
<1> QED
  BY <1>2 DEF Good

=============================================================================
