------------------------------- MODULE Lemmas -------------------------------
(***************************************************************************)
(* Lemmas without a state, that several components need: what the folds of *)
(* the community modules compute, for every finite set and every sequence, *)
(* and that a recursive definition has a solution.                         *)
(*                                                                         *)
(* A fold over a set takes its elements in the order CHOOSE gives. That    *)
(* the recursive function it is the value of exists, and that the order    *)
(* does not matter, takes an induction on the size of the set; an          *)
(* induction is a minimal counterexample here (LeastOf), so that no        *)
(* operator is passed to a theorem.                                        *)
(***************************************************************************)
EXTENDS Integers, SequencesExt, FiniteSetTheorems, SequenceTheorems, TLAPS

-----------------------------------------------------------------------------
(* Sums *)

Chosen(s) == CHOOSE x \in s : TRUE

\* g is what SumFunctionOnSet(f, S) evaluates at S.
Folds(f, S, g) ==
    g = [s \in SUBSET S |-> IF s = {} THEN 0 ELSE f[Chosen(s)] + g[s \ {Chosen(s)}]]

\* A non-empty set of numbers has a least one.
LEMMA LeastOf ==
    ASSUME NEW T, T \subseteq Nat, T # {}
    PROVE  \E n \in T : \A m \in T : n <= m
<1> DEFINE less == {ss \in Nat \X Nat : ss[1] < ss[2]}
<1>0. \A m, n \in Nat : <<m, n>> \in less <=> m < n
  OBVIOUS
<1>1. less = OpToRel(<, Nat)
  BY DEF OpToRel
<1>2. IsWellFoundedOn(less, Nat)
  BY <1>1, NatLessThanWellFounded
<1> HIDE DEF less
<1>3. PICK n \in T : \A m \in T : <<m, n>> \notin less
  BY <1>2, WFMin
<1>4. ASSUME NEW m \in T PROVE n <= m
  <2>1. m \in Nat /\ n \in Nat /\ ~(m < n)
    BY <1>0, <1>3
  <2> QED BY <2>1
<1> QED BY <1>4

\* The definition of SumFunctionOnSet, unfolded.
LEMMA SumIs ==
    ASSUME NEW f, NEW S
    PROVE  SumFunctionOnSet(f, S) = (CHOOSE g : Folds(f, S, g))[S]
BY DEF SumFunctionOnSet, FoldFunctionOnSet, MapThenFoldSet, Folds, Chosen

\* A recursive function that sums f over the subsets of S exists, with natural values.
LEMMA FoldExists ==
    ASSUME NEW S, IsFiniteSet(S), NEW f, \A x \in S : f[x] \in Nat
    PROVE  \E g \in [SUBSET S -> Nat] : Folds(f, S, g)
<1> DEFINE Small(n) == {s \in SUBSET S : Cardinality(s) <= n}
           Partial(n, g) ==
             \A s \in Small(n) :
               g[s] = IF s = {} THEN 0 ELSE f[Chosen(s)] + g[s \ {Chosen(s)}]
           Bad == {n \in Nat : ~ \E g \in [Small(n) -> Nat] : Partial(n, g)}
<1>1. \A s \in SUBSET S : IsFiniteSet(s) /\ Cardinality(s) \in Nat
  BY FS_Subset, FS_CardinalityType
<1>2. \A s \in SUBSET S : s # {} => /\ Chosen(s) \in s /\ f[Chosen(s)] \in Nat
                                    /\ s \ {Chosen(s)} \in SUBSET S
                                    /\ Cardinality(s \ {Chosen(s)}) = Cardinality(s) - 1
  BY <1>1, FS_RemoveElement DEF Chosen
<1>3. 0 \notin Bad
  <2> DEFINE g == [s \in Small(0) |-> 0]
  <2>1. \A s \in Small(0) : s = {}
    BY <1>1, FS_EmptySet
  <2>2. g \in [Small(0) -> Nat] /\ \A s \in Small(0) : g[s] = 0
    OBVIOUS
  <2> HIDE DEF g, Small
  <2>3. Partial(0, g)
    BY <2>1, <2>2
  <2> QED BY <2>2, <2>3
<1>4. ASSUME NEW n \in Nat \ {0}, n - 1 \notin Bad PROVE n \notin Bad
  <2>1. PICK g \in [Small(n - 1) -> Nat] : Partial(n - 1, g)
    <3>1. n - 1 \in Nat
      OBVIOUS
    <3> HIDE DEF Small, Partial
    <3> QED BY <1>4, <3>1
  <2> DEFINE h == [s \in Small(n) |->
                     IF s = {} THEN 0 ELSE f[Chosen(s)] + g[s \ {Chosen(s)}]]
  <2>2. \A s \in Small(n) : s # {} => s \ {Chosen(s)} \in Small(n - 1)
    BY <1>1, <1>2
  <2>3. \A s \in Small(n - 1) : s \in Small(n)
    BY <1>1
  <2> HIDE DEF Small
  <2>4. \A s \in Small(n) : s = {} \/ g[s \ {Chosen(s)}] \in Nat
    BY <2>2
  <2>5. \A s \in Small(n) : s \in SUBSET S
    BY DEF Small
  <2>6. h \in [Small(n) -> Nat]
    <3>1. ASSUME NEW s \in Small(n), s # {} PROVE f[Chosen(s)] + g[s \ {Chosen(s)}] \in Nat
      <4>1. f[Chosen(s)] \in Nat /\ g[s \ {Chosen(s)}] \in Nat
        BY <1>2, <2>4, <2>5, <3>1
      <4> QED BY <4>1
    <3>2. \A s \in Small(n) :
            (IF s = {} THEN 0 ELSE f[Chosen(s)] + g[s \ {Chosen(s)}]) \in Nat
      BY <3>1
    <3> QED BY <3>2
  <2>7. \A s \in Small(n - 1) : h[s] = g[s]
    BY <2>1, <2>3
  <2>8. Partial(n, h)
    BY <2>2, <2>7
  <2> QED BY <2>6, <2>8
<1>5. Bad = {}
  <2> HIDE DEF Bad
  <2>1. SUFFICES ASSUME Bad # {} PROVE FALSE
    OBVIOUS
  <2>2. Bad \subseteq Nat
    BY DEF Bad
  <2>3. PICK n \in Bad : \A m \in Bad : n <= m
    BY <2>1, <2>2, LeastOf
  <2>4. n \in Nat \ {0} /\ n - 1 \in Nat /\ ~(n <= n - 1)
    BY <1>3, <2>2
  <2> QED BY <1>4, <2>3, <2>4
<1>6. PICK g \in [Small(Cardinality(S)) -> Nat] : Partial(Cardinality(S), g)
  BY <1>1, <1>5
<1>7. Small(Cardinality(S)) = SUBSET S
  BY FS_Subset
<1> HIDE DEF Small
<1>8. g \in [SUBSET S -> Nat]
  BY <1>7
<1>9. \A s \in SUBSET S : g[s] = IF s = {} THEN 0 ELSE f[Chosen(s)] + g[s \ {Chosen(s)}]
  BY <1>6, <1>7
<1>10. Folds(f, S, g)
  BY <1>8, <1>9 DEF Folds
<1> QED BY <1>8, <1>10

\* Two such functions for the same summands agree wherever both are defined.
LEMMA FoldsAgree ==
    ASSUME NEW S, IsFiniteSet(S), NEW U \in SUBSET S, NEW f, NEW e, NEW g, NEW h,
           \A x \in U : f[x] = e[x], Folds(f, S, g), Folds(e, U, h)
    PROVE  g[U] = h[U]
<1> DEFINE Bad == {n \in Nat : \E s \in SUBSET U : Cardinality(s) = n /\ g[s] # h[s]}
<1>1. \A s \in SUBSET U : /\ s \in SUBSET S /\ IsFiniteSet(s) /\ Cardinality(s) \in Nat
                          /\ g[s] = IF s = {} THEN 0 ELSE f[Chosen(s)] + g[s \ {Chosen(s)}]
                          /\ h[s] = IF s = {} THEN 0 ELSE e[Chosen(s)] + h[s \ {Chosen(s)}]
  <2>1. \A s \in SUBSET U : s \in SUBSET S
    OBVIOUS
  <2> QED BY <2>1, FS_Subset, FS_CardinalityType DEF Folds
<1>2. ASSUME NEW s \in SUBSET U, g[s] # h[s]
      PROVE  \E r \in SUBSET U : g[r] # h[r] /\ Cardinality(r) < Cardinality(s)
  <2>1. s # {} /\ Chosen(s) \in s
    BY <1>1, <1>2 DEF Chosen
  <2>2. f[Chosen(s)] = e[Chosen(s)] /\ s \ {Chosen(s)} \in SUBSET U
    BY <2>1
  <2>3. Cardinality(s \ {Chosen(s)}) = Cardinality(s) - 1 /\ Cardinality(s) \in Nat
    BY <1>1, <2>1, FS_RemoveElement
  <2>4. g[s \ {Chosen(s)}] # h[s \ {Chosen(s)}]
    BY <1>1, <1>2, <2>1, <2>2
  <2> QED BY <2>2, <2>3, <2>4
<1>3. Bad = {}
  <2>1. SUFFICES ASSUME Bad # {} PROVE FALSE
    OBVIOUS
  <2>2. PICK n \in Bad : \A m \in Bad : n <= m
    <3>1. Bad \subseteq Nat
      OBVIOUS
    <3> HIDE DEF Bad
    <3> QED BY <2>1, <3>1, LeastOf
  <2>3. PICK s \in SUBSET U : Cardinality(s) = n /\ g[s] # h[s] /\ n \in Nat
    OBVIOUS
  <2>4. PICK r \in SUBSET U : g[r] # h[r] /\ Cardinality(r) < n
    BY <1>2, <2>3
  <2>5. Cardinality(r) \in Bad
    BY <1>1, <2>4
  <2>6. n <= Cardinality(r) /\ Cardinality(r) \in Nat
    BY <1>1, <2>2, <2>5
  <2> QED BY <2>3, <2>4, <2>6
<1> QED BY <1>1, <1>3

-----------------------------------------------------------------------------
(* What a sum is *)

\* The sum of a finite set of naturals is the value of such a function.
LEMMA SumFolds ==
    ASSUME NEW S, IsFiniteSet(S), NEW f, \A x \in S : f[x] \in Nat
    PROVE  \E g : /\ Folds(f, S, g) /\ SumFunctionOnSet(f, S) = g[S]
                  /\ SumFunctionOnSet(f, S) \in Nat
<1>1. PICK k \in [SUBSET S -> Nat] : Folds(f, S, k)
  BY FoldExists
<1> DEFINE g == CHOOSE h : Folds(f, S, h)
<1>2. Folds(f, S, g) /\ SumFunctionOnSet(f, S) = g[S]
  BY <1>1, SumIs
<1>3. g[S] = k[S]
  BY <1>1, <1>2, FoldsAgree
<1>4. k[S] \in Nat
  BY <1>1
<1> QED BY <1>2, <1>3, <1>4

\* The sum over no element is 0, and every sum is a natural number.
LEMMA SumType ==
    ASSUME NEW S, IsFiniteSet(S), NEW f, \A x \in S : f[x] \in Nat
    PROVE  SumFunctionOnSet(f, S) \in Nat /\ (S = {} => SumFunctionOnSet(f, S) = 0)
<1>1. PICK g : /\ Folds(f, S, g) /\ SumFunctionOnSet(f, S) = g[S]
               /\ SumFunctionOnSet(f, S) \in Nat
  BY SumFolds
<1>2. g[S] = IF S = {} THEN 0 ELSE f[Chosen(S)] + g[S \ {Chosen(S)}]
  BY <1>1 DEF Folds
<1> QED BY <1>1, <1>2

\* A sum depends on its summands alone.
LEMMA SumSame ==
    ASSUME NEW S, IsFiniteSet(S), NEW f, NEW e, \A x \in S : f[x] \in Nat /\ e[x] = f[x]
    PROVE  SumFunctionOnSet(f, S) = SumFunctionOnSet(e, S)
<1>1. PICK g : Folds(f, S, g) /\ SumFunctionOnSet(f, S) = g[S]
  BY SumFolds
<1>2. PICK h : Folds(e, S, h) /\ SumFunctionOnSet(e, S) = h[S]
  BY SumFolds
<1> QED BY <1>1, <1>2, FoldsAgree

\* The element CHOOSE gives can be split off.
LEMMA SumChosen ==
    ASSUME NEW S, IsFiniteSet(S), S # {}, NEW f, \A x \in S : f[x] \in Nat
    PROVE  /\ Chosen(S) \in S
           /\ SumFunctionOnSet(f, S) = f[Chosen(S)] + SumFunctionOnSet(f, S \ {Chosen(S)})
<1> DEFINE U == S \ {Chosen(S)}
<1>1. Chosen(S) \in S /\ U \in SUBSET S /\ IsFiniteSet(U) /\ \A x \in U : f[x] \in Nat
  BY FS_Subset DEF Chosen
<1>2. PICK g : Folds(f, S, g) /\ SumFunctionOnSet(f, S) = g[S]
  BY SumFolds
<1> HIDE DEF U
<1>3. PICK h : Folds(f, U, h) /\ SumFunctionOnSet(f, U) = h[U]
  BY <1>1, SumFolds
<1>4. g[U] = h[U]
  BY <1>1, <1>2, <1>3, FoldsAgree
<1>5. g[S] = f[Chosen(S)] + g[U]
  BY <1>2 DEF Folds, U
<1> QED BY <1>1, <1>2, <1>3, <1>4, <1>5 DEF U

\* So can any other: the order in which a sum is taken does not matter.
LEMMA SumSplit ==
    ASSUME NEW S, IsFiniteSet(S), NEW f, \A x \in S : f[x] \in Nat
    PROVE  \A x \in S : SumFunctionOnSet(f, S) = f[x] + SumFunctionOnSet(f, S \ {x})
<1> DEFINE Sum(s) == SumFunctionOnSet(f, s)
           Wrong(s) == \E x \in s : Sum(s) # f[x] + Sum(s \ {x})
           Bad == {n \in Nat : \E s \in SUBSET S : Cardinality(s) = n /\ Wrong(s)}
<1>1. \A s \in SUBSET S : /\ IsFiniteSet(s) /\ Cardinality(s) \in Nat
                          /\ \A x \in s : f[x] \in Nat
  BY FS_Subset, FS_CardinalityType
<1>2. \A s \in SUBSET S : Sum(s) \in Nat
  BY <1>1, SumType
<1>3. \A s \in SUBSET S : s # {} => /\ Chosen(s) \in s
                                    /\ Sum(s) = f[Chosen(s)] + Sum(s \ {Chosen(s)})
  BY <1>1, SumChosen
<1> HIDE DEF Sum
<1>4. ASSUME NEW s \in SUBSET S, NEW x \in s, Sum(s) # f[x] + Sum(s \ {x})
      PROVE  \E r \in SUBSET S : Wrong(r) /\ Cardinality(r) < Cardinality(s)
  <2> DEFINE c == Chosen(s)
             u == s \ {c}
             v == s \ {x}
             w == u \ {x}
  <2>1. c \in s /\ c # x /\ Sum(s) = f[c] + Sum(u)
    BY <1>3, <1>4
  <2>2. /\ u \in SUBSET S /\ Cardinality(u) < Cardinality(s)
        /\ v \in SUBSET S /\ Cardinality(v) < Cardinality(s)
    <3>1. IsFiniteSet(s) /\ Cardinality(s) \in Nat
      BY <1>1
    <3>2. \A y \in s : Cardinality(s \ {y}) = Cardinality(s) - 1
      BY <3>1, FS_RemoveElement
    <3>3. \A y \in s : s \ {y} \in SUBSET S /\ Cardinality(s \ {y}) < Cardinality(s)
      BY <3>1, <3>2
    <3> QED BY <2>1, <3>3
  <2>3. x \in u /\ c \in v /\ v \ {c} = w
    BY <2>1
  <2>4. /\ f[c] \in Nat /\ f[x] \in Nat
        /\ Sum(s) \in Nat /\ Sum(u) \in Nat /\ Sum(v) \in Nat /\ Sum(w) \in Nat
    <3>1. w \in SUBSET S
      BY <2>2
    <3> HIDE DEF c, u, v, w
    <3> QED BY <1>1, <1>2, <2>1, <2>2, <3>1
  <2>5. Sum(s) # f[x] + Sum(v)
    BY <1>4
  <2> DEFINE Splits(r, y) == Sum(r) = f[y] + Sum(r \ {y})
  <2>6. Splits(u, x) <=> Sum(u) = f[x] + Sum(w)
    OBVIOUS
  <2>7. Splits(v, c) <=> Sum(v) = f[c] + Sum(w)
    BY <2>3
  <2> HIDE DEF c, u, v, w
  <2>8. ~Splits(u, x) \/ ~Splits(v, c)
    <3> HIDE DEF Splits
    <3> QED BY <2>1, <2>4, <2>5, <2>6, <2>7
  <2> QED BY <2>2, <2>3, <2>8
<1>5. Bad = {}
  <2>1. SUFFICES ASSUME Bad # {} PROVE FALSE
    OBVIOUS
  <2>2. PICK n \in Bad : \A m \in Bad : n <= m
    <3>1. Bad \subseteq Nat
      OBVIOUS
    <3> HIDE DEF Bad
    <3> QED BY <2>1, <3>1, LeastOf
  <2>3. PICK s \in SUBSET S : Cardinality(s) = n /\ Wrong(s) /\ n \in Nat
    OBVIOUS
  <2>4. PICK r \in SUBSET S : Wrong(r) /\ Cardinality(r) < n
    BY <1>4, <2>3
  <2> HIDE DEF Wrong
  <2>5. Cardinality(r) \in Bad
    BY <1>1, <2>4
  <2>6. n <= Cardinality(r) /\ Cardinality(r) \in Nat
    BY <1>1, <2>2, <2>5
  <2> QED BY <2>3, <2>4, <2>6
<1>6. ~Wrong(S)
  <2> HIDE DEF Wrong
  <2> QED BY <1>1, <1>5
<1> QED BY <1>6 DEF Sum

\* Adding an element adds its summand.
LEMMA SumAdd ==
    ASSUME NEW S, IsFiniteSet(S), NEW x, x \notin S, NEW f, \A y \in S \cup {x} : f[y] \in Nat
    PROVE  SumFunctionOnSet(f, S \cup {x}) = f[x] + SumFunctionOnSet(f, S)
<1>1. IsFiniteSet(S \cup {x}) /\ (S \cup {x}) \ {x} = S
  BY FS_AddElement
<1>2. SumFunctionOnSet(f, S \cup {x}) = f[x] + SumFunctionOnSet(f, (S \cup {x}) \ {x})
  BY <1>1, SumSplit
<1> QED BY <1>1, <1>2

-----------------------------------------------------------------------------
(* Sequences, and what FlattenSeq makes of a family of them *)

\* A function set that the provers do not look into.
Maps(A, B) == [A -> B]

\* What a SubSeq of bytes is.
LEMMA Pieces ==
    ASSUME NEW S, NEW s \in Seq(S), NEW i \in Nat \ {0}, NEW j \in 0..Len(s), i <= j + 1
    PROVE  /\ SubSeq(s, i, j) \in Seq(S)
           /\ Len(SubSeq(s, i, j)) = j - i + 1
           /\ \A k \in 1..(j - i + 1) : SubSeq(s, i, j)[k] = s[i + k - 1]
OBVIOUS

\* The front of a concatenation, and what follows it.
LEMMA Parts ==
    ASSUME NEW S, NEW s \in Seq(S), NEW t \in Seq(S)
    PROVE  /\ s \o t \in Seq(S) /\ Len(s \o t) = Len(s) + Len(t)
           /\ SubSeq(s \o t, 1, Len(s)) = s
           /\ \A i : i = Len(s) + 1 => SubSeq(s \o t, i, Len(s \o t)) = t
<1>1. /\ s \o t \in Seq(S) /\ Len(s \o t) = Len(s) + Len(t) /\ Len(s) \in Nat /\ Len(t) \in Nat
      /\ \A i \in 1..Len(s) : (s \o t)[i] = s[i]
      /\ \A i \in 1..Len(t) : (s \o t)[Len(s) + i] = t[i]
  OBVIOUS
<1> DEFINE b == s \o t
           p == SubSeq(b, 1, Len(s))
           q == SubSeq(b, Len(s) + 1, Len(b))
<1>2. p = s
  <2>1. /\ p \in Seq(S) /\ Len(p) = Len(s) - 1 + 1
        /\ \A k \in 1..(Len(s) - 1 + 1) : p[k] = b[1 + k - 1]
    <3>1. b \in Seq(S) /\ 1 \in Nat \ {0} /\ Len(s) \in 0..Len(b) /\ 1 <= Len(s) + 1
      BY <1>1
    <3> HIDE DEF b
    <3> QED BY <3>1, Pieces
  <2>2. Len(s) - 1 + 1 = Len(s) /\ \A k \in 1..Len(s) : 1 + k - 1 = k
    BY <1>1
  <2>3. Len(p) = Len(s) /\ \A k \in 1..Len(s) : p[k] = s[k]
    <3> HIDE DEF p
    <3> QED BY <1>1, <2>1, <2>2
  <2> HIDE DEF p
  <2> QED BY <2>1, <2>3, SeqEqual
<1>3. q = t
  <2>1. /\ q \in Seq(S) /\ Len(q) = Len(b) - (Len(s) + 1) + 1
        /\ \A k \in 1..(Len(b) - (Len(s) + 1) + 1) : q[k] = b[(Len(s) + 1) + k - 1]
    <3>1. b \in Seq(S) /\ Len(s) + 1 \in Nat \ {0} /\ Len(b) \in 0..Len(b) /\ Len(s) + 1 <= Len(b) + 1
      BY <1>1
    <3> HIDE DEF b
    <3> QED BY <3>1, Pieces
  <2>2. Len(b) - (Len(s) + 1) + 1 = Len(t) /\ \A k \in 1..Len(t) : (Len(s) + 1) + k - 1 = Len(s) + k
    BY <1>1
  <2>3. Len(q) = Len(t) /\ \A k \in 1..Len(t) : q[k] = t[k]
    <3> HIDE DEF q
    <3> QED BY <1>1, <2>1, <2>2
  <2> HIDE DEF q
  <2> QED BY <2>1, <2>3, SeqEqual
<1> QED BY <1>1, <1>2, <1>3

\* Families of n sequences, and what FlattenSeq makes of the first i of one.
Family(T, n) == [1..n -> Seq(T)]
Flat(e, i) == FlattenSeq([j \in 1..i |-> e[j]])

\* g is what FlattenSeq evaluates on the first i sequences of e.
Flattens(g, i, e) == DOMAIN g = 1..i /\ \A k \in 1..i : g[k] = IF k = 1 THEN e[k] ELSE g[k - 1] \o e[k]

\* What FlattenSeq evaluates exists.
LEMMA FlattensExists ==
    ASSUME NEW T, NEW n \in Nat, NEW e \in Family(T, n), NEW l \in 0..n
    PROVE  \E g \in Family(T, l) : Flattens(g, l, e)
<1> DEFINE Some(i) == \E g \in Family(T, i) : Flattens(g, i, e)
           Bad == {i \in 0..n : ~Some(i)}
<1>1. SUFFICES ASSUME Bad # {} PROVE FALSE
  OBVIOUS
<1>2. PICK i \in Bad : \A m \in Bad : i <= m
  <2>1. Bad \subseteq Nat
    OBVIOUS
  <2> HIDE DEF Bad
  <2> QED BY <1>1, <2>1, LeastOf
<1>3. Some(0)
  <2> DEFINE g == [k \in 1..0 |-> <<>>]
  <2>1. g \in Family(T, 0) /\ Flattens(g, 0, e)
    BY DEF Family, Flattens
  <2> QED BY <2>1
<1>4. i \in 0..n /\ ~Some(i) /\ \A m \in 0..n : ~Some(m) => i <= m
  BY <1>2
<1> HIDE DEF Bad
<1>5. i \in 1..n /\ Some(i - 1)
  <2> HIDE DEF Some
  <2>1. i # 0
    BY <1>3, <1>4
  <2>2. i - 1 \in 0..n /\ ~(i <= i - 1)
    BY <1>4, <2>1
  <2> QED BY <1>4, <2>1, <2>2
<1>6. PICK g \in Family(T, i - 1) : Flattens(g, i - 1, e)
  BY <1>5
<1> DEFINE h == [k \in 1..i |-> IF k < i THEN g[k] ELSE IF k = 1 THEN e[k] ELSE g[k - 1] \o e[k]]
<1>7. \A k \in 1..i : e[k] \in Seq(T) /\ (k < i => k \in 1..(i - 1)) /\ (k # 1 => k - 1 \in 1..(i - 1))
  BY <1>5 DEF Family
<1>8. h \in Family(T, i)
  <2> SUFFICES ASSUME NEW k \in 1..i PROVE h[k] \in Seq(T)
    BY DEF Family
  <2>1. k < i => g[k] \in Seq(T)
    BY <1>7 DEF Family
  <2>2. k # 1 => g[k - 1] \in Seq(T)
    BY <1>7 DEF Family
  <2> QED BY <1>7, <2>1, <2>2
<1>9. Flattens(h, i, e)
  <2> SUFFICES ASSUME NEW k \in 1..i PROVE h[k] = IF k = 1 THEN e[k] ELSE h[k - 1] \o e[k]
    BY DEF Flattens
  <2>1. k # 1 => h[k - 1] = g[k - 1]
    BY <1>5, <1>7
  <2>2. k < i => h[k] = IF k = 1 THEN e[k] ELSE g[k - 1] \o e[k]
    BY <1>6, <1>7 DEF Flattens
  <2>3. ~(k < i) => h[k] = IF k = 1 THEN e[k] ELSE g[k - 1] \o e[k]
    OBVIOUS
  <2> HIDE DEF h
  <2> QED BY <2>1, <2>2, <2>3
<1> HIDE DEF h
<1>10. Some(i)
  BY <1>8, <1>9
<1> HIDE DEF Some
<1> QED BY <1>4, <1>10

\* It is the only one.
LEMMA FlattensAgree ==
    ASSUME NEW i \in Nat, NEW m \in Nat, i <= m, NEW e, NEW g, NEW h, Flattens(g, i, e), Flattens(h, m, e)
    PROVE  \A k \in 1..i : g[k] = h[k]
<1> DEFINE Wrong == {k \in 1..i : g[k] # h[k]}
<1>1. SUFFICES ASSUME Wrong # {} PROVE FALSE
  OBVIOUS
<1>2. PICK k \in Wrong : \A j \in Wrong : k <= j
  <2>1. Wrong \subseteq Nat
    OBVIOUS
  <2> HIDE DEF Wrong
  <2> QED BY <1>1, <2>1, LeastOf
<1>3. k \in 1..i /\ k \in 1..m /\ g[k] # h[k]
  BY <1>2
<1>4. /\ g[k] = IF k = 1 THEN e[k] ELSE g[k - 1] \o e[k]
      /\ h[k] = IF k = 1 THEN e[k] ELSE h[k - 1] \o e[k]
  BY <1>3 DEF Flattens
<1>5. k # 1 /\ g[k - 1] # h[k - 1] /\ k - 1 \in 1..i
  BY <1>3, <1>4
<1>6. k - 1 \in Wrong
  BY <1>5
<1> QED BY <1>2, <1>5, <1>6

\* FlattenSeq evaluates it.
LEMMA FlattenIs ==
    ASSUME NEW T, NEW n \in Nat, NEW e \in Family(T, n), NEW i \in 1..n,
           NEW g \in Family(T, n), Flattens(g, n, e)
    PROVE  Flat(e, i) = g[i]
<1> DEFINE s == [j \in 1..i |-> e[j]]
           Is(h) == h = [k \in 1..i |-> IF k = 1 THEN s[k] ELSE h[k - 1] \o s[k]]
           f == CHOOSE h : Is(h)
<1>1. Len(s) = i /\ i # 0 /\ i \in Nat /\ i <= n /\ i \in 0..n /\ \A k \in 1..i : s[k] = e[k]
  BY DEF Family
<1>2. Flat(e, i) = f[i]
  BY <1>1 DEF FlattenSeq, Flat
<1>3. PICK h \in Family(T, i) : Flattens(h, i, e)
  BY <1>1, FlattensExists
<1>4. Is(h)
  <2> HIDE DEF s
  <2>1. h = [k \in 1..i |-> h[k]]
    BY DEF Family
  <2>2. \A k \in 1..i : h[k] = IF k = 1 THEN s[k] ELSE h[k - 1] \o s[k]
    BY <1>1, <1>3 DEF Flattens
  <2> QED BY <2>1, <2>2
<1>5. Is(f)
  BY <1>4
<1>6. Flattens(f, i, e)
  <2> HIDE DEF f, s
  <2>1. Flattens(f, i, s)
    BY <1>5 DEF Flattens
  <2> HIDE DEF Is
  <2> QED BY <1>1, <2>1 DEF Flattens
<1> HIDE DEF f, s, Is
<1>7. \A k \in 1..i : f[k] = g[k]
  BY <1>1, <1>6, FlattensAgree
<1> QED BY <1>1, <1>2, <1>7

\* FlattenSeq of one sequence more.
LEMMA FlattenNext ==
    ASSUME NEW T, NEW n \in Nat, NEW e \in Family(T, n)
    PROVE  /\ Flat(e, 0) = <<>>
           /\ \A i \in 0..n : Flat(e, i) \in Seq(T)
           /\ \A i \in 1..n : Flat(e, i) = Flat(e, i - 1) \o e[i]
<1>1. Flat(e, 0) = <<>>
  <2>1. [j \in 1..0 |-> e[j]] = <<>> /\ Len(<<>>) = 0
    OBVIOUS
  <2> QED BY <2>1 DEF FlattenSeq, Flat
<1>2. PICK g \in Family(T, n) : Flattens(g, n, e)
  BY FlattensExists
<1>3. \A i \in 1..n : Flat(e, i) = g[i]
  BY <1>2, FlattenIs
<1>4. ASSUME NEW i \in 0..n PROVE Flat(e, i) \in Seq(T)
  <2>1. i = 0 \/ i \in 1..n
    OBVIOUS
  <2>2. <<>> \in Seq(T)
    OBVIOUS
  <2>3. i \in 1..n => g[i] \in Seq(T)
    BY <1>2 DEF Family
  <2> QED BY <1>1, <1>3, <2>1, <2>2, <2>3
<1>5. ASSUME NEW i \in 1..n PROVE Flat(e, i) = Flat(e, i - 1) \o e[i]
  <2>1. g[i] = IF i = 1 THEN e[i] ELSE g[i - 1] \o e[i]
    BY <1>2 DEF Flattens
  <2>2. i = 1 => Flat(e, i - 1) \o e[i] = e[i]
    BY <1>1 DEF Family
  <2>3. i # 1 => Flat(e, i - 1) = g[i - 1]
    <3>1. i # 1 => i - 1 \in 1..n
      OBVIOUS
    <3> QED BY <1>3, <3>1
  <2> QED BY <1>3, <2>1, <2>2, <2>3
<1> QED BY <1>1, <1>4, <1>5

\* Where a stream of sequences ends: behind its last one.
LEMMA Ends ==
    ASSUME NEW T, NEW n \in Nat, NEW e \in Family(T, n)
    PROVE  /\ \A i \in 0..n : Flat(e, i) \in Seq(T) /\ Len(Flat(e, i)) \in Nat
           /\ Len(Flat(e, 0)) = 0
           /\ \A i \in 1..n : /\ e[i] \in Seq(T) /\ Len(e[i]) \in Nat
                              /\ Len(Flat(e, i)) = Len(Flat(e, i - 1)) + Len(e[i])
<1>1. /\ Flat(e, 0) = <<>>
      /\ \A i \in 0..n : Flat(e, i) \in Seq(T)
      /\ \A i \in 1..n : Flat(e, i) = Flat(e, i - 1) \o e[i]
  BY FlattenNext
<1>2. ASSUME NEW i \in 1..n
      PROVE  /\ e[i] \in Seq(T) /\ Len(e[i]) \in Nat
             /\ Len(Flat(e, i)) = Len(Flat(e, i - 1)) + Len(e[i])
  <2>1. e[i] \in Seq(T) /\ i - 1 \in 0..n
    BY DEF Family
  <2>2. Flat(e, i - 1) \in Seq(T)
    BY <1>1, <2>1
  <2>3. Len(Flat(e, i - 1) \o e[i]) = Len(Flat(e, i - 1)) + Len(e[i]) /\ Len(e[i]) \in Nat
    BY <2>1, <2>2
  <2> QED BY <1>1, <2>1, <2>3
<1>3. Len(Flat(e, 0)) = 0
  BY <1>1
<1>4. \A i \in 0..n : Len(Flat(e, i)) \in Nat
  BY <1>1
<1> QED BY <1>1, <1>2, <1>3, <1>4

\* A shorter stream is the front of a longer one.
LEMMA Fronts ==
    ASSUME NEW T, NEW n \in Nat, NEW e \in Family(T, n), NEW m \in 0..n, NEW i \in 0..m
    PROVE  /\ Len(Flat(e, i)) <= Len(Flat(e, m))
           /\ \A k \in 1..Len(Flat(e, i)) : Flat(e, m)[k] = Flat(e, i)[k]
<1> DEFINE FrontOf(j) == /\ Len(Flat(e, i)) <= Len(Flat(e, j))
                         /\ \A k \in 1..Len(Flat(e, i)) : Flat(e, j)[k] = Flat(e, i)[k]
           Bad == {j \in i..n : ~FrontOf(j)}
<1>1. i \in 0..n /\ m \in i..n /\ i \in Nat
  OBVIOUS
<1>2. SUFFICES ASSUME Bad # {} PROVE FALSE
  BY <1>1
<1>3. PICK j \in Bad : \A h \in Bad : j <= h
  <2>1. Bad \subseteq Nat
    OBVIOUS
  <2> HIDE DEF Bad
  <2> QED BY <1>2, <2>1, LeastOf
<1>4. j \in i..n /\ ~FrontOf(j) /\ \A h \in i..n : ~FrontOf(h) => j <= h
  BY <1>3
<1>5. FrontOf(i)
  <2>1. Len(Flat(e, i)) \in Nat
    BY <1>1, Ends
  <2> QED BY <2>1
<1> HIDE DEF Bad
<1>6. j \in 1..n /\ j - 1 \in i..n /\ j - 1 \in 0..n /\ FrontOf(j - 1)
  <2> HIDE DEF FrontOf
  <2>1. j # i /\ j \in Nat
    BY <1>1, <1>4, <1>5
  <2>2. j - 1 \in i..n /\ ~(j <= j - 1)
    BY <1>1, <1>4, <2>1
  <2> QED BY <1>1, <1>4, <2>2
<1>7. /\ Flat(e, j) = Flat(e, j - 1) \o e[j] /\ Flat(e, j - 1) \in Seq(T) /\ e[j] \in Seq(T)
      /\ Len(Flat(e, i)) \in Nat /\ Len(Flat(e, j - 1)) \in Nat
  BY <1>1, <1>6, FlattenNext, Ends
<1>8. /\ Len(Flat(e, j)) = Len(Flat(e, j - 1)) + Len(e[j]) /\ Len(e[j]) \in Nat
      /\ \A k \in 1..Len(Flat(e, j - 1)) : Flat(e, j)[k] = Flat(e, j - 1)[k]
  <2> DEFINE s == Flat(e, j - 1)
             t == e[j]
  <2>1. s \in Seq(T) /\ t \in Seq(T) /\ Flat(e, j) = s \o t
    BY <1>7
  <2> HIDE DEF s, t
  <2>2. /\ Len(s \o t) = Len(s) + Len(t) /\ Len(t) \in Nat
        /\ \A k \in 1..Len(s) : (s \o t)[k] = s[k]
    BY <2>1
  <2>3. /\ Len(Flat(e, j)) = Len(s) + Len(t) /\ Len(t) \in Nat
        /\ \A k \in 1..Len(s) : Flat(e, j)[k] = s[k]
    BY <2>1, <2>2
  <2> QED BY <2>3 DEF s, t
<1>9. FrontOf(j)
  <2>1. /\ Len(Flat(e, i)) <= Len(Flat(e, j - 1))
        /\ \A k \in 1..Len(Flat(e, i)) : Flat(e, j - 1)[k] = Flat(e, i)[k]
    BY <1>6
  <2>2. \A k \in 1..Len(Flat(e, i)) : k \in 1..Len(Flat(e, j - 1))
    BY <1>7, <2>1
  <2>3. Len(Flat(e, i)) <= Len(Flat(e, j))
    <3>1. Len(Flat(e, i)) \in Nat /\ Len(Flat(e, j - 1)) \in Nat
      BY <1>7
    <3>2. Len(Flat(e, j)) = Len(Flat(e, j - 1)) + Len(e[j]) /\ Len(e[j]) \in Nat
      BY <1>8
    <3>3. Len(Flat(e, i)) <= Len(Flat(e, j - 1))
      BY <2>1
    <3> DEFINE x == Len(Flat(e, i))
               y == Len(Flat(e, j - 1))
               z == Len(e[j])
               w == Len(Flat(e, j))
    <3>4. x \in Nat /\ y \in Nat /\ z \in Nat /\ w = y + z /\ x <= y
      BY <3>1, <3>2, <3>3
    <3>5. x <= w
      <4> HIDE DEF x, y, z, w
      <4> QED BY <3>4
    <3> QED BY <3>5
  <2>4. ASSUME NEW k \in 1..Len(Flat(e, i)) PROVE Flat(e, j)[k] = Flat(e, i)[k]
    BY <1>8, <2>1, <2>2
  <2> QED BY <2>3, <2>4
<1> QED BY <1>4, <1>9

\* What a stream holds between the end of its i-th message and its a-th element.
Behind(e, n, i, a) == SubSeq(Flat(e, n), Len(Flat(e, i)) + 1, a)

\* The pieces of a stream: a message, and one of which the stream ends inside.
LEMMA StreamPieces ==
    ASSUME NEW T, NEW n \in Nat, NEW e \in Family(T, n), NEW i \in 1..n,
           NEW a \in Nat, a <= Len(Flat(e, n))
    PROVE  /\ Len(Flat(e, i)) <= a =>
                Behind(e, n, i - 1, a) = e[i] \o Behind(e, n, i, a)
           /\ Len(Flat(e, i - 1)) <= a /\ a <= Len(Flat(e, i)) =>
                Behind(e, n, i - 1, a) = SubSeq(e[i], 1, a - Len(Flat(e, i - 1)))
<1> DEFINE F == Flat(e, n)
           b == Len(Flat(e, i - 1))
           c == Len(Flat(e, i))
           E == e[i]
<1>1. /\ i - 1 \in 0..n /\ i \in 0..n /\ n \in 0..n /\ i - 1 \in 0..i /\ i \in 0..n
      /\ b \in Nat /\ c \in Nat /\ E \in Seq(T) /\ Len(E) \in Nat /\ c = b + Len(E)
      /\ F \in Seq(T) /\ Len(F) \in Nat
  <2>1. i - 1 \in 0..n /\ i \in 0..n /\ n \in 0..n /\ i - 1 \in 0..i
    OBVIOUS
  <2>2. /\ \A j \in 0..n : Flat(e, j) \in Seq(T) /\ Len(Flat(e, j)) \in Nat
        /\ \A j \in 1..n : /\ e[j] \in Seq(T) /\ Len(e[j]) \in Nat
                           /\ Len(Flat(e, j)) = Len(Flat(e, j - 1)) + Len(e[j])
    BY Ends
  <2> QED BY <2>1, <2>2
<1>2. c <= Len(F) /\ \A k \in 1..c : F[k] = Flat(e, i)[k]
  <2>1. n \in 0..n /\ i \in 0..n
    OBVIOUS
  <2> QED BY <2>1, Fronts
<1>3. \A k \in 1..Len(E) : F[b + k] = E[k]
  <2>1. Flat(e, i) = Flat(e, i - 1) \o E /\ Flat(e, i - 1) \in Seq(T)
    BY <1>1, FlattenNext
  <2>2. \A k \in 1..(b + Len(E)) : Flat(e, i)[k] = IF k <= b THEN Flat(e, i - 1)[k] ELSE E[k - b]
    <3> HIDE DEF E
    <3> QED BY <1>1, <2>1, ConcatProperties
  <2>3. ASSUME NEW k \in 1..Len(E) PROVE F[b + k] = E[k]
    <3>1. b + k \in 1..c /\ ~(b + k <= b) /\ (b + k) - b = k
      BY <1>1
    <3> HIDE DEF F, b, c, E
    <3> QED BY <1>1, <1>2, <2>2, <3>1
  <2> QED BY <2>3
<1> HIDE DEF F, b, c, E
<1>4. ASSUME NEW d \in Nat, b <= d, d <= c
      PROVE  SubSeq(F, b + 1, d) = SubSeq(E, 1, d - b)
  <2> DEFINE s == SubSeq(F, b + 1, d)
             t == SubSeq(E, 1, d - b)
  <2>1. /\ s \in Seq(T) /\ Len(s) = d - (b + 1) + 1
        /\ \A k \in 1..(d - (b + 1) + 1) : s[k] = F[(b + 1) + k - 1]
    <3>1. b + 1 \in Nat \ {0} /\ d \in 0..Len(F) /\ b + 1 <= d + 1
      BY <1>1, <1>2, <1>4
    <3> QED BY <1>1, <3>1, Pieces
  <2>2. /\ t \in Seq(T) /\ Len(t) = (d - b) - 1 + 1
        /\ \A k \in 1..((d - b) - 1 + 1) : t[k] = E[1 + k - 1]
    <3>1. 1 \in Nat \ {0} /\ d - b \in 0..Len(E) /\ 1 <= (d - b) + 1
      BY <1>1, <1>2, <1>4
    <3> QED BY <1>1, <3>1, Pieces
  <2>3. /\ d - (b + 1) + 1 = d - b /\ (d - b) - 1 + 1 = d - b
        /\ \A k \in 1..(d - b) : (b + 1) + k - 1 = b + k /\ 1 + k - 1 = k /\ k \in 1..Len(E)
    BY <1>1, <1>4
  <2> HIDE DEF s, t
  <2>4. Len(s) = Len(t) /\ \A k \in 1..Len(s) : s[k] = t[k]
    BY <1>3, <2>1, <2>2, <2>3
  <2>5. s = t
    BY <2>1, <2>2, <2>4, SeqEqual
  <2> QED BY <2>5 DEF s, t
<1>5. ASSUME c <= a
      PROVE  SubSeq(F, b + 1, a) = E \o SubSeq(F, c + 1, a)
  <2>1. SubSeq(F, b + 1, c) = E
    <3>1. SubSeq(F, b + 1, c) = SubSeq(E, 1, c - b) /\ c - b = Len(E)
      BY <1>1, <1>4
    <3> QED BY <1>1, <3>1, SubSeqFull
  <2>2. b + 1 \in 1..(Len(F) + 1) /\ c \in ((b + 1) - 1)..Len(F) /\ a \in c..Len(F)
    BY <1>1, <1>2, <1>5 DEF F
  <2>3. SubSeq(F, b + 1, c) \o SubSeq(F, c + 1, a) = SubSeq(F, b + 1, a)
    BY <1>1, <2>2, ConcatAdjacentSubSeq
  <2> QED BY <2>1, <2>3
<1> QED BY <1>4, <1>5 DEF F, b, c, E, Behind

-----------------------------------------------------------------------------
(* Recursion *)

\* f where the rank is below that of x, and d elsewhere: all that a definition by recursion
\* may look at to find its value for x.
Below(f, D, rank, x, d) == [y \in D |-> IF rank[y] < rank[x] THEN f[y] ELSE d]

\* f is what comb makes of it, up to the rank n.
SolvesTo(f, n, D, rank, d, comb) ==
    \A x \in D : rank[x] <= n => f[x] = comb[<<x, Below(f, D, rank, x, d)>>]

\* f is what comb makes of it: a solution of the recursive definition.
SolvesAll(f, D, rank, d, comb) ==
    \A x \in D : f[x] = comb[<<x, Below(f, D, rank, x, d)>>]

\* A recursive definition that looks only at what has a lower rank has a solution.
LEMMA WellFounded ==
    ASSUME NEW D, NEW V, NEW d \in V, NEW rank \in Maps(D, Nat),
           NEW comb \in Maps(D \X Maps(D, V), V)
    PROVE  \E f \in Maps(D, V) : SolvesAll(f, D, rank, d, comb)
<1> DEFINE low(f, x) == Below(f, D, rank, x, d)
           To(f, n) == SolvesTo(f, n, D, rank, d, comb)
           Better(f) == [x \in D |-> comb[<<x, low(f, x)>>]]
           Bad == {n \in Nat : ~ \E f \in Maps(D, V) : To(f, n)}
<1>1. \A x \in D : rank[x] \in Nat
  BY DEF Maps
<1>2. \A f \in Maps(D, V) : \A x \in D :
        /\ low(f, x) \in Maps(D, V)
        /\ \A y \in D : low(f, x)[y] = IF rank[y] < rank[x] THEN f[y] ELSE d
  BY DEF Maps, Below
<1>3. \A f \in Maps(D, V) : Better(f) \in Maps(D, V)
  <2>1. \A f \in Maps(D, V) : \A x \in D : comb[<<x, low(f, x)>>] \in V
    BY <1>2 DEF Maps
  <2> HIDE DEF low
  <2> QED BY <2>1 DEF Maps
<1>4. ASSUME NEW f \in Maps(D, V), NEW g \in Maps(D, V), NEW x \in D,
             \A y \in D : rank[y] < rank[x] => f[y] = g[y]
      PROVE  low(f, x) = low(g, x)
  BY <1>4 DEF Below
<1>5. \A f \in Maps(D, V) : \A x \in D : Better(f)[x] = comb[<<x, low(f, x)>>]
  OBVIOUS
<1> HIDE DEF Better
<1>6. ASSUME NEW n \in Nat, NEW f \in Maps(D, V), \A m \in Nat : m < n => To(f, m)
      PROVE  To(Better(f), n)
  <2> SUFFICES ASSUME NEW x \in D, rank[x] <= n
               PROVE  Better(f)[x] = comb[<<x, low(Better(f), x)>>]
    BY DEF SolvesTo
  <2>1. ASSUME NEW y \in D, rank[y] < rank[x] PROVE f[y] = Better(f)[y]
    <3>1. rank[y] \in Nat /\ rank[y] < n
      BY <1>1, <2>1
    <3>2. f[y] = comb[<<y, low(f, y)>>]
      BY <1>1, <1>6, <3>1 DEF SolvesTo
    <3> QED BY <1>5, <3>2
  <2>2. low(f, x) = low(Better(f), x)
    <3> HIDE DEF low
    <3> QED BY <1>3, <1>4, <2>1
  <2> QED BY <1>5, <2>2
<1>7. \A f \in Maps(D, V) : \A m \in Nat : \A n \in Nat : m <= n /\ To(f, n) => To(f, m)
  BY <1>1 DEF SolvesTo
<1> HIDE DEF To
<1>8. Bad = {}
  <2>1. SUFFICES ASSUME Bad # {} PROVE FALSE
    OBVIOUS
  <2>2. PICK n \in Bad : \A m \in Bad : n <= m
    <3>1. Bad \subseteq Nat
      OBVIOUS
    <3> HIDE DEF Bad
    <3> QED BY <2>1, <3>1, LeastOf
  <2>3. n \in Nat /\ ~ \E f \in Maps(D, V) : To(f, n)
    BY <2>2
  <2>4. \A m \in Nat : m < n => \E f \in Maps(D, V) : To(f, m)
    BY <2>2
  <2>5. \E f \in Maps(D, V) : \A m \in Nat : m < n => To(f, m)
    <3>1. CASE n = 0
      <4>1. [x \in D |-> d] \in Maps(D, V)
        BY DEF Maps
      <4> QED BY <3>1, <4>1
    <3>2. CASE n # 0
      <4>1. n - 1 \in Nat /\ n - 1 < n /\ \A m \in Nat : m < n => m <= n - 1
        BY <2>3, <3>2
      <4>2. PICK f \in Maps(D, V) : To(f, n - 1)
        BY <2>4, <4>1
      <4>3. \A m \in Nat : m < n => To(f, m)
        BY <1>7, <4>1, <4>2
      <4> QED BY <4>3
    <3> QED BY <3>1, <3>2
  <2> HIDE DEF Bad
  <2> QED BY <1>3, <1>6, <2>3, <2>5
<1>9. \A n \in Nat : \E f \in Maps(D, V) : To(f, n)
  BY <1>8
<1>10. ASSUME NEW n \in Nat, NEW m \in Nat, m <= n, NEW f \in Maps(D, V), NEW g \in Maps(D, V),
              To(f, n), To(g, m)
       PROVE  \A x \in D : rank[x] <= m => f[x] = g[x]
  <2> DEFINE Wrong(x) == rank[x] <= m /\ f[x] # g[x]
             L == {k \in Nat : \E x \in D : Wrong(x) /\ rank[x] = k}
  <2>1. SUFFICES ASSUME L # {} PROVE FALSE
    BY <1>1
  <2>2. PICK k \in L : \A j \in L : k <= j
    <3>1. L \subseteq Nat
      OBVIOUS
    <3> HIDE DEF L
    <3> QED BY <2>1, <3>1, LeastOf
  <2>3. PICK x \in D : Wrong(x) /\ rank[x] = k
    BY <2>2
  <2>4. \A y \in D : rank[y] < rank[x] => f[y] = g[y]
    <3> SUFFICES ASSUME NEW y \in D, rank[y] < rank[x], f[y] # g[y] PROVE FALSE
      OBVIOUS
    <3>1. rank[y] \in Nat /\ rank[x] \in Nat /\ rank[y] <= m
      BY <1>1, <2>3
    <3>2. rank[y] \in L
      BY <3>1
    <3> HIDE DEF L
    <3> QED BY <2>2, <2>3, <3>1, <3>2
  <2>5. f[x] = comb[<<x, low(f, x)>>] /\ g[x] = comb[<<x, low(g, x)>>]
    BY <1>1, <1>10, <2>3 DEF To, SolvesTo
  <2>6. low(f, x) = low(g, x)
    <3> HIDE DEF low
    <3> QED BY <1>4, <2>4
  <2> QED BY <2>3, <2>5, <2>6
<1> DEFINE sol(n) == CHOOSE f \in Maps(D, V) : To(f, n)
           F == [x \in D |-> sol(rank[x])[x]]
<1>11. \A n \in Nat : sol(n) \in Maps(D, V) /\ To(sol(n), n)
  BY <1>9
<1> HIDE DEF sol
<1>12. F \in Maps(D, V)
  BY <1>1, <1>11 DEF Maps
<1>13. ASSUME NEW x \in D PROVE F[x] = comb[<<x, low(F, x)>>]
  <2> DEFINE f == sol(rank[x])
  <2>1. rank[x] \in Nat /\ f \in Maps(D, V) /\ To(f, rank[x])
    BY <1>1, <1>11
  <2>2. F[x] = f[x] /\ f[x] = comb[<<x, low(f, x)>>]
    BY <2>1 DEF To, SolvesTo
  <2>3. ASSUME NEW y \in D, rank[y] < rank[x] PROVE f[y] = F[y]
    <3>1. rank[y] \in Nat /\ rank[y] <= rank[x] /\ F[y] = sol(rank[y])[y]
      BY <1>1, <2>3
    <3>2. sol(rank[y]) \in Maps(D, V) /\ To(sol(rank[y]), rank[y])
      BY <1>11, <3>1
    <3> HIDE DEF f, F
    <3> QED BY <1>10, <2>1, <3>1, <3>2
  <2>4. low(f, x) = low(F, x)
    <3> HIDE DEF low, f, F
    <3> QED BY <1>4, <1>12, <2>1, <2>3
  <2> QED BY <2>2, <2>4
<1> HIDE DEF F
<1> QED BY <1>12, <1>13 DEF SolvesAll

=============================================================================
