---------------------------- MODULE SequenceFolds ----------------------------
(***************************************************************************)
(* FoldLeft of the community modules, step by step.  FoldLeft is defined   *)
(* as a function CHOSEN on the subsets of a sequence's domain; here it is  *)
(* proved to be what its name says, for any operator Op: it exists, it is  *)
(* unique as far as it matters, and it takes one element after the other.  *)
(* A module that folds with an operator of its own takes this module with  *)
(* INSTANCE ... WITH Op <- that operator.                                  *)
(*                                                                         *)
(* Induction is stated about SETS (of numbers, of sequences), never about  *)
(* an operator: the set of the sequences that have a property is a set     *)
(* like any other.                                                         *)
(***************************************************************************)
EXTENDS Naturals, Sequences, SequencesExt, SequenceTheorems,
        WellFoundedInduction, TLAPS

CONSTANT Op(_, _)

-----------------------------------------------------------------------------
(***************************************************************************)
(* Induction.                                                              *)
(***************************************************************************)

\* A set that contains 0 and the successor of each of its numbers contains
\* every number: the least one outside it would have no predecessor.
LEMMA NumbersByInduction ==
  ASSUME NEW P, 0 \in P, \A n \in Nat : n \in P => n + 1 \in P
  PROVE  \A n \in Nat : n \in P
<1> DEFINE Q == Nat \ P
<1> SUFFICES ASSUME Q # {} PROVE FALSE
  OBVIOUS
<1>1. PICK n \in Q : \A m \in Q : ~(<< m, n >> \in OpToRel(<, Nat))
  BY NatLessThanWellFounded, WFMin
<1>2. n \in Nat /\ n # 0 /\ n \notin P
  OBVIOUS
<1>3. n - 1 \in Nat /\ n - 1 < n /\ (n - 1) + 1 = n
  BY <1>2
<1>4. << n - 1, n >> \in OpToRel(<, Nat)
  BY <1>2, <1>3 DEF OpToRel
<1>5. n - 1 \in P
  BY <1>1, <1>3, <1>4
<1> QED
  BY <1>2, <1>3, <1>5

\* A set that contains the empty sequence, and each of its sequences with one
\* more element at the end, contains every sequence.
LEMMA SequencesByInduction ==
  ASSUME NEW S, NEW P, << >> \in P,
         \A s \in Seq(S) : \A e \in S : s \in P => Append(s, e) \in P
  PROVE  \A s \in Seq(S) : s \in P
<1> DEFINE Q == {n \in Nat : \A s \in Seq(S) : Len(s) = n => s \in P}
<1>1. 0 \in Q
  BY EmptySeq
<1>2. ASSUME NEW n \in Nat, n \in Q PROVE n + 1 \in Q
  <2> SUFFICES ASSUME NEW s \in Seq(S), Len(s) = n + 1 PROVE s \in P
    OBVIOUS
  <2> DEFINE front == SubSeq(s, 1, n)
             last  == s[n + 1]
  <2>1. last \in S /\ front \in Seq(S) /\ Len(front) = n
    OBVIOUS
  <2>2. s = Append(front, last)
    OBVIOUS
  <2>3. front \in P
    BY <1>2, <2>1
  <2> HIDE DEF front, last
  <2> QED
    BY <2>1, <2>2, <2>3
<1> HIDE DEF Q
<1>3. \A n \in Nat : n \in Q
  BY <1>1, <1>2, NumbersByInduction
<1> QED
  BY <1>3 DEF Q

-----------------------------------------------------------------------------
(***************************************************************************)
(* The function behind FoldLeft.                                           *)
(***************************************************************************)

\* f is the fold of s over the subsets of 1 .. n.
Folds(f, base, s, n) ==
  f = [T \in SUBSET (1..n) |->
         IF T = {} THEN base ELSE Op(f[T \ {Max(T)}], s[Max(T)])]

\* The greatest element of a set that contains its upper bound.
LEMMA MaxOfTop ==
  ASSUME NEW n \in Nat, NEW T \in SUBSET (1..(n + 1)), n + 1 \in T
  PROVE  Max(T) = n + 1
<1>1. \A y \in T : n + 1 >= y
  OBVIOUS
<1>2. \A x \in T : (\A y \in T : x >= y) => x = n + 1
  OBVIOUS
<1> QED
  BY <1>1, <1>2, Zenon DEF Max

\* There is such a function, whatever s is.
LEMMA FoldExists ==
  ASSUME NEW base, NEW s
  PROVE  \A n \in Nat : \E f : Folds(f, base, s, n)
<1> DEFINE P == {n \in Nat : \E f : Folds(f, base, s, n)}
<1>1. 0 \in P
  <2> DEFINE f == [T \in SUBSET (1..0) |-> base]
  <2>1. \A T \in SUBSET (1..0) : T = {}
    OBVIOUS
  <2>2. Folds(f, base, s, 0)
    BY <2>1 DEF Folds
  <2> QED
    BY <2>2, Zenon
<1>2. ASSUME NEW n \in Nat, n \in P PROVE n + 1 \in P
  <2>1. PICK f : Folds(f, base, s, n)
    BY <1>2
  <2> DEFINE Rest(T) == T \ {n + 1}
             g == [T \in SUBSET (1..(n + 1)) |->
                     IF n + 1 \in T THEN Op(f[Rest(T)], s[n + 1]) ELSE f[T]]
             h == [T \in SUBSET (1..(n + 1)) |->
                     IF T = {} THEN base ELSE Op(g[T \ {Max(T)}], s[Max(T)])]
  <2>2. ASSUME NEW T \in SUBSET (1..(n + 1)), n + 1 \in T
        PROVE  g[T] = h[T]
    <3>1. Max(T) = n + 1
      BY <2>2, MaxOfTop
    <3>2. Rest(T) \in SUBSET (1..(n + 1)) /\ n + 1 \notin Rest(T) /\ T # {}
      BY <2>2
    <3>3. g[Rest(T)] = f[Rest(T)]
      BY <3>2
    <3>4. g[T] = Op(f[Rest(T)], s[n + 1])
      BY <2>2
    <3>5. h[T] = Op(g[Rest(T)], s[n + 1])
      BY <3>1, <3>2, Zenon
    <3> QED
      BY <3>3, <3>4, <3>5, Zenon
  <2>3. ASSUME NEW T \in SUBSET (1..(n + 1)), n + 1 \notin T
        PROVE  g[T] = h[T]
    <3>1. T \in SUBSET (1..n)
      BY <2>3
    <3>2. f[T] = IF T = {} THEN base ELSE Op(f[T \ {Max(T)}], s[Max(T)])
      BY <2>1, <3>1, Zenon DEF Folds
    <3>3. T \ {Max(T)} \in SUBSET (1..(n + 1)) /\ n + 1 \notin T \ {Max(T)}
      BY <2>3, Zenon
    <3>4. g[T \ {Max(T)}] = f[T \ {Max(T)}] /\ g[T] = f[T]
      BY <2>3, <3>3, Zenon
    <3> QED
      BY <3>2, <3>4, Zenon
  <2>4. g = h
    BY <2>2, <2>3, Zenon
  <2>5. Folds(g, base, s, n + 1)
    BY <2>4, Zenon DEF Folds
  <2> QED
    BY <2>5
<1> HIDE DEF P
<1>3. \A n \in Nat : n \in P
  BY <1>1, <1>2, NumbersByInduction
<1> QED
  BY <1>3 DEF P

\* Nothing folded is the base.
LEMMA FoldStart ==
  ASSUME NEW base, NEW s, NEW n \in Nat, NEW f, Folds(f, base, s, n)
  PROVE  f[{}] = base
<1>1. {} \in SUBSET (1..n)
  OBVIOUS
<1> QED
  BY <1>1, Zenon DEF Folds

\* One more element of the sequence is one more application of Op.
LEMMA FoldStep ==
  ASSUME NEW base, NEW s, NEW n \in Nat, NEW f, Folds(f, base, s, n),
         NEW k \in Nat, k < n
  PROVE  f[1..(k + 1)] = Op(f[1..k], s[k + 1])
<1> DEFINE T == 1..(k + 1)
<1>1. T \in SUBSET (1..n) /\ T # {}
  OBVIOUS
<1>2. T \in SUBSET (1..(k + 1)) /\ k + 1 \in T
  OBVIOUS
<1>3. Max(T) = k + 1
  BY <1>2, MaxOfTop
<1>4. T \ {k + 1} = 1..k
  OBVIOUS
<1> HIDE DEF T
<1>5. f[T] = Op(f[T \ {Max(T)}], s[Max(T)])
  BY <1>1, Zenon DEF Folds
<1> QED
  BY <1>3, <1>4, <1>5, Zenon DEF T

\* Two folds agree as far as their sequences do.
LEMMA FoldsAgree ==
  ASSUME NEW base, NEW s, NEW t, NEW m \in Nat, NEW n \in Nat, m <= n,
         NEW f, Folds(f, base, s, m), NEW g, Folds(g, base, t, n),
         \A i \in 1..m : s[i] = t[i]
  PROVE  f[1..m] = g[1..m]
<1> DEFINE P == {k \in Nat : k <= m => f[1..k] = g[1..k]}
<1>1. 0 \in P
  <2>1. f[{}] = base /\ g[{}] = base
    BY FoldStart
  <2>2. 1..0 = {}
    OBVIOUS
  <2> QED
    BY <2>1, <2>2
<1>2. ASSUME NEW k \in Nat, k \in P PROVE k + 1 \in P
  <2> SUFFICES ASSUME k + 1 <= m PROVE f[1..(k + 1)] = g[1..(k + 1)]
    OBVIOUS
  <2>1. k < m /\ k < n /\ k <= m /\ k + 1 \in 1..m
    OBVIOUS
  <2>2. f[1..(k + 1)] = Op(f[1..k], s[k + 1])
    BY <2>1, FoldStep
  <2>3. g[1..(k + 1)] = Op(g[1..k], t[k + 1])
    BY <2>1, FoldStep
  <2>4. f[1..k] = g[1..k]
    BY <1>2, <2>1
  <2>5. s[k + 1] = t[k + 1]
    BY <2>1
  <2> QED
    BY <2>2, <2>3, <2>4, <2>5, Zenon
<1> HIDE DEF P
<1>3. \A k \in Nat : k \in P
  BY <1>1, <1>2, NumbersByInduction
<1>4. m <= m /\ m \in P
  BY <1>3
<1> QED
  BY <1>4 DEF P

\* FoldLeft with Op; a name of our own, because the provers do not see through an
\* operator that takes an operator.
Fold(base, s) == FoldLeft(Op, base, s)

\* Fold is such a function, at the whole domain.
LEMMA FoldFolds ==
  ASSUME NEW S, NEW base, NEW s \in Seq(S)
  PROVE  \E f : /\ Folds(f, base, s, Len(s))
                /\ Fold(base, s) = f[1..Len(s)]
<1>1. DOMAIN s = 1..Len(s) /\ Len(s) \in Nat
  OBVIOUS
<1> DEFINE f == CHOOSE f : Folds(f, base, s, Len(s))
<1>2. Folds(f, base, s, Len(s))
  BY <1>1, FoldExists, Zenon
<1>3. Fold(base, s) = f[1..Len(s)]
  BY <1>1, Zenon DEF Fold, FoldLeft, MapThenFoldSet, Folds
<1> HIDE DEF f
<1> QED
  BY <1>2, <1>3, Zenon

-----------------------------------------------------------------------------
(***************************************************************************)
(* What Fold does.                                                         *)
(***************************************************************************)

\* Nothing to fold: the base.
THEOREM FoldOfEmpty ==
  ASSUME NEW base
  PROVE  Fold(base, << >>) = base
<1>1. << >> \in Seq({}) /\ Len(<< >>) = 0
  OBVIOUS
<1>2. \A s \in Seq({}) :
        \E f : Folds(f, base, s, Len(s)) /\ Fold(base, s) = f[1..Len(s)]
  BY FoldFolds
<1>3. \E f : Folds(f, base, << >>, 0) /\ Fold(base, << >>) = f[1..0]
  BY <1>1, <1>2, Zenon
<1>4. PICK f : Folds(f, base, << >>, 0) /\ Fold(base, << >>) = f[1..0]
  BY <1>3, Zenon
<1>5. 0 \in Nat /\ 1..0 = {}
  OBVIOUS
<1>6. f[{}] = base
  BY <1>4, <1>5, FoldStart
<1> QED
  BY <1>4, <1>5, <1>6

\* One more element at the end: Op once more.
THEOREM FoldOfAppend ==
  ASSUME NEW S, NEW base, NEW s \in Seq(S), NEW e \in S
  PROVE  Fold(base, Append(s, e)) = Op(Fold(base, s), e)
<1> DEFINE t == Append(s, e)
           n == Len(s)
<1>1. /\ t \in Seq(S) /\ Len(t) = n + 1 /\ t[n + 1] = e
      /\ \A i \in 1..n : s[i] = t[i]
  OBVIOUS
<1>2. n \in Nat /\ n + 1 \in Nat /\ n < n + 1 /\ n <= n + 1
  OBVIOUS
<1> HIDE DEF t
<1>3. PICK f : Folds(f, base, s, n) /\ Fold(base, s) = f[1..n]
  BY FoldFolds
<1> HIDE DEF n
<1>4. PICK g : Folds(g, base, t, n + 1) /\ Fold(base, t) = g[1..(n + 1)]
  BY <1>1, FoldFolds
<1>5. f[1..n] = g[1..n]
  BY <1>1, <1>2, <1>3, <1>4, FoldsAgree
<1>6. \A k \in Nat : k < n + 1 => g[1..(k + 1)] = Op(g[1..k], t[k + 1])
  BY <1>2, <1>4, FoldStep
<1>7. g[1..(n + 1)] = Op(g[1..n], t[n + 1])
  BY <1>2, <1>6, Zenon
<1> QED
  BY <1>1, <1>3, <1>4, <1>5, <1>7, Zenon DEF t

\* A sequence in two parts: the second is folded from what the first gave.
THEOREM FoldOfConcat ==
  ASSUME NEW S, NEW base, NEW s \in Seq(S), NEW t \in Seq(S)
  PROVE  Fold(base, s \o t) = Fold(Fold(base, s), t)
<1> DEFINE mid == Fold(base, s)
           P == {u \in Seq(S) : Fold(base, s \o u) = Fold(mid, u)}
<1>1. << >> \in P
  <2>1. s \o << >> = s /\ << >> \in Seq(S)
    OBVIOUS
  <2>2. Fold(mid, << >>) = mid
    BY FoldOfEmpty, Zenon
  <2> QED
    BY <2>1, <2>2, Zenon
<1>2. ASSUME NEW u \in Seq(S), NEW e \in S, u \in P PROVE Append(u, e) \in P
  <2>1. s \o Append(u, e) = Append(s \o u, e)
    OBVIOUS
  <2>2. s \o u \in Seq(S) /\ Append(u, e) \in Seq(S)
    OBVIOUS
  <2>3. \A v \in Seq(S) : Fold(base, Append(v, e)) = Op(Fold(base, v), e)
    BY FoldOfAppend
  <2>4. Fold(mid, Append(u, e)) = Op(Fold(mid, u), e)
    BY FoldOfAppend
  <2>5. Fold(base, s \o u) = Fold(mid, u)
    BY <1>2, Zenon
  <2> QED
    BY <2>1, <2>2, <2>3, <2>4, <2>5, Zenon
<1> HIDE DEF P
<1>3. t \in P
  BY <1>1, <1>2, SequencesByInduction, Zenon
<1> QED
  BY <1>3, Zenon DEF P

\* The element at the front goes first.
THEOREM FoldOfHead ==
  ASSUME NEW S, NEW base, NEW s \in Seq(S), s # << >>
  PROVE  Fold(base, s) = Fold(Op(base, Head(s)), Tail(s))
<1> DEFINE one == Append(<< >>, Head(s))
<1>1. << >> \in Seq(S) /\ Head(s) \in S /\ Tail(s) \in Seq(S) /\ one \in Seq(S)
  OBVIOUS
<1>2. s = one \o Tail(s)
  OBVIOUS
<1>3. Fold(base, one) = Op(base, Head(s))
  <2>1. \A v \in Seq(S), e \in S : Fold(base, Append(v, e)) = Op(Fold(base, v), e)
    BY FoldOfAppend
  <2>2. Fold(base, << >>) = base
    BY FoldOfEmpty
  <2> QED
    BY <1>1, <2>1, <2>2, Zenon
<1> HIDE DEF one
<1>4. \A u, v \in Seq(S) : Fold(base, u \o v) = Fold(Fold(base, u), v)
  BY FoldOfConcat
<1> QED
  BY <1>1, <1>2, <1>3, <1>4, Zenon

\* A set that Op does not leave, the fold does not leave.
THEOREM FoldStays ==
  ASSUME NEW S, NEW C, NEW base \in C, NEW s \in Seq(S),
         \A c \in C : \A e \in S : Op(c, e) \in C
  PROVE  Fold(base, s) \in C
<1> DEFINE P == {u \in Seq(S) : Fold(base, u) \in C}
<1>1. << >> \in P
  <2>1. << >> \in Seq(S)
    OBVIOUS
  <2> QED
    BY <2>1, FoldOfEmpty, Zenon
<1>2. ASSUME NEW u \in Seq(S), NEW e \in S, u \in P PROVE Append(u, e) \in P
  <2>1. Fold(base, Append(u, e)) = Op(Fold(base, u), e)
    BY FoldOfAppend
  <2>2. Append(u, e) \in Seq(S)
    OBVIOUS
  <2>3. Op(Fold(base, u), e) \in C
    BY <1>2, Zenon
  <2> QED
    BY <2>1, <2>2, <2>3, Zenon
<1> HIDE DEF P
<1>3. s \in P
  BY <1>1, <1>2, SequencesByInduction, Zenon
<1> QED
  BY <1>3, Zenon DEF P
=============================================================================
