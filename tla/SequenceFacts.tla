---------------------------- MODULE SequenceFacts ----------------------------
(***************************************************************************)
(* Induction on the natural numbers and what follows from it for functions *)
(* that are defined by recursion and for sequences that are flattened.  A  *)
(* statement about all numbers is a set of numbers here: the library's     *)
(* induction rules take an operator, which has to be instantiated.         *)
(***************************************************************************)
EXTENDS Integers, Sequences, SequencesExt, SequenceTheorems, WellFoundedInduction, TLAPS

\* A nonempty set of numbers has a least element.
LEMMA LeastNat ==
  ASSUME NEW T, T \subseteq Nat, T # {}
  PROVE  \E x \in T : \A y \in T : x <= y
<1> DEFINE R == OpToRel(<, Nat)
<1>1. IsWellFoundedOn(R, Nat)
  BY NatLessThanWellFounded
<1>2. PICK x \in T : \A y \in T : ~ (<<y, x>> \in R)
  <2> HIDE DEF R
  <2> QED
    BY <1>1, WFMin
<1>3. \A y \in T : y < x => <<y, x>> \in R
  BY DEF OpToRel
<1>4. \A y \in T : ~ (y < x)
  <2> HIDE DEF R
  <2> QED
    BY <1>2, <1>3
<1> QED
  BY <1>4

\* Induction from 0 up to a bound.
LEMMA UpTo ==
  ASSUME NEW n \in Nat, NEW T, 0 \in T,
         \A k \in 0 .. n - 1 : k \in T => k + 1 \in T
  PROVE  \A k \in 0 .. n : k \in T
<1> SUFFICES ASSUME NEW m \in 0 .. n, m \notin T PROVE FALSE
  OBVIOUS
<1> DEFINE U == {k \in 0 .. n : k \notin T}
<1>1. U \subseteq Nat /\ U # {}
  OBVIOUS
<1>2. PICK x \in U : \A y \in U : x <= y
  <2> HIDE DEF U
  <2> QED
    BY <1>1, LeastNat
<1>3. x \in 1 .. n
  BY <1>2
<1>4. x - 1 \in 0 .. n - 1 /\ x - 1 \notin U
  BY <1>2, <1>3
<1>5. x - 1 \in T
  BY <1>4
<1> QED
  BY <1>3, <1>4, <1>5

\* f is defined by recursion: step gives the next value from the index and the
\* value before.
Iterates(f, n, a, step) ==
  f[0] = a /\ \A k \in 1 .. n : f[k] = step[<<k, f[k - 1]>>]

\* A function on an interval may be defined by recursion.
LEMMA Recursion ==
  ASSUME NEW n \in Nat, NEW V, NEW a \in V,
         NEW step \in [(1 .. n) \X V -> V]
  PROVE  \E f \in [0 .. n -> V] : Iterates(f, n, a, step)
<1> DEFINE Good(k) == \E f \in [0 .. k -> V] :
                        f[0] = a /\ \A j \in 1 .. k : f[j] = step[<<j, f[j - 1]>>]
           T == {k \in 0 .. n : Good(k)}
<1>1. 0 \in T
  <2> DEFINE g == [j \in 0 .. 0 |-> a]
  <2>1. g \in [0 .. 0 -> V] /\ g[0] = a
    OBVIOUS
  <2>2. \A j \in 1 .. 0 : FALSE
    OBVIOUS
  <2> HIDE DEF g
  <2>3. Good(0)
    BY <2>1, <2>2
  <2> QED
    BY <2>3
<1>2. ASSUME NEW k \in 0 .. n - 1, k \in T
      PROVE  k + 1 \in T
  <2>1. PICK f \in [0 .. k -> V] :
          f[0] = a /\ \A j \in 1 .. k : f[j] = step[<<j, f[j - 1]>>]
    BY <1>2
  <2> DEFINE g == [j \in 0 .. k + 1 |-> IF j = k + 1 THEN step[<<k + 1, f[k]>>] ELSE f[j]]
  <2>2. step[<<k + 1, f[k]>>] \in V
    <3>1. <<k + 1, f[k]>> \in (1 .. n) \X V
      OBVIOUS
    <3> QED
      BY <3>1
  <2>3. g \in [0 .. k + 1 -> V]
    BY <2>2
  <2>4. g[0] = a
    BY <2>1
  <2>5. ASSUME NEW j \in 1 .. k + 1
        PROVE  g[j] = step[<<j, g[j - 1]>>]
    <3>1. g[j - 1] = f[j - 1]
      OBVIOUS
    <3>2. CASE j = k + 1
      <4>1. j - 1 = k /\ g[k + 1] = step[<<k + 1, f[k]>>]
        BY <3>2
      <4> QED
        BY <3>1, <3>2, <4>1
    <3>3. CASE j # k + 1
      BY <2>1, <3>1, <3>3
    <3> QED
      BY <3>2, <3>3
  <2>6. k + 1 \in 0 .. n
    OBVIOUS
  <2> HIDE DEF g
  <2> QED
    BY <2>3, <2>4, <2>5, <2>6
<1>3. n \in T
  <2> HIDE DEF T
  <2> QED
    BY <1>1, <1>2, UpTo
<1> QED
  BY <1>3 DEF Iterates
-----------------------------------------------------------------------------
\* f[k] is what is left of the first k elements of s, folded from the left.
Folds(f, s, a, step) ==
  f[0] = a /\ \A k \in 0 .. Len(s) - 1 : f[k + 1] = step[<<f[k], s[k + 1]>>]

\* Every sequence can be folded.
LEMMA FoldExists ==
  ASSUME NEW S, NEW V, NEW a \in V, NEW step \in [V \X S -> V], NEW s \in Seq(S)
  PROVE  \E f \in [0 .. Len(s) -> V] : Folds(f, s, a, step)
<1> DEFINE n == Len(s)
           next == [x \in (1 .. n) \X V |-> step[<<x[2], s[x[1]]>>]]
<1>1. n \in Nat /\ \A i \in 1 .. n : s[i] \in S
  BY LenProperties, ElementOfSeq
<1> HIDE DEF n
<1>2. next \in [(1 .. n) \X V -> V]
  <2> SUFFICES ASSUME NEW x \in (1 .. n) \X V
               PROVE  step[<<x[2], s[x[1]]>>] \in V
    OBVIOUS
  <2>1. <<x[2], s[x[1]]>> \in V \X S
    BY <1>1
  <2> QED
    BY <2>1
<1>3. ASSUME NEW k \in 1 .. n, NEW v \in V
      PROVE  next[<<k, v>>] = step[<<v, s[k]>>]
  BY <1>3
<1> HIDE DEF next
<1>4. PICK f \in [0 .. n -> V] : Iterates(f, n, a, next)
  BY <1>1, <1>2, Recursion
<1>5. ASSUME NEW k \in 0 .. n - 1
      PROVE  f[k + 1] = step[<<f[k], s[k + 1]>>]
  <2>1. k + 1 \in 1 .. n /\ k + 1 - 1 = k /\ f[k] \in V
    BY <1>1
  <2>2. f[k + 1] = next[<<k + 1, f[k]>>]
    BY <1>4, <2>1 DEF Iterates
  <2> QED
    BY <1>3, <2>1, <2>2
<1>6. f[0] = a
  BY <1>4 DEF Iterates
<1> QED
  BY <1>5, <1>6 DEF n, Folds

\* f takes the steps of the fold from the values that are in V.
FoldsIn(V, f, s, a, step) ==
  /\ f[0] = a
  /\ \A k \in 0 .. Len(s) - 1 : f[k] \in V => f[k + 1] = step[<<f[k], s[k + 1]>>]

\* Such a function has only such values, and folds.
LEMMA FoldTyped ==
  ASSUME NEW S, NEW V, NEW a \in V, NEW step \in [V \X S -> V], NEW s \in Seq(S),
         NEW f, f = [k \in 0 .. Len(s) |-> f[k]],
         FoldsIn(V, f, s, a, step)
  PROVE  f \in [0 .. Len(s) -> V] /\ Folds(f, s, a, step)
<1> DEFINE n == Len(s)
           T == {k \in 0 .. n : f[k] \in V}
<1>1. n \in Nat /\ \A i \in 1 .. n : s[i] \in S
  BY LenProperties, ElementOfSeq
<1>2. 0 \in T /\ f[0] = a
  BY <1>1 DEF FoldsIn
<1>3. ASSUME NEW k \in 0 .. n - 1, k \in T
      PROVE  k + 1 \in T
  <2>1. k + 1 \in 1 .. n /\ k + 1 \in 0 .. n /\ f[k] \in V
    BY <1>1, <1>3
  <2>2. f[k + 1] = step[<<f[k], s[k + 1]>>]
    BY <2>1 DEF FoldsIn
  <2>3. <<f[k], s[k + 1]>> \in V \X S
    BY <1>1, <2>1
  <2>4. f[k + 1] \in V
    BY <2>2, <2>3
  <2> QED
    BY <2>1, <2>4
<1>4. \A k \in 0 .. n : k \in T
  <2> HIDE DEF T, n
  <2> QED
    BY <1>1, <1>2, <1>3, UpTo
<1>5. \A k \in 0 .. n : f[k] \in V
  BY <1>4
<1>6. f \in [0 .. n -> V]
  BY <1>5
<1>7. ASSUME NEW k \in 0 .. n - 1
      PROVE  f[k + 1] = step[<<f[k], s[k + 1]>>]
  <2>1. k \in 0 .. n
    BY <1>1
  <2> QED
    BY <1>5, <2>1 DEF FoldsIn
<1> QED
  BY <1>2, <1>6, <1>7 DEF Folds

\* Folding one element more is one step more.
LEMMA FoldAppend ==
  ASSUME NEW S, NEW s \in Seq(S), NEW e \in S, NEW a, NEW step,
         NEW f, Folds(f, s, a, step), NEW g, Folds(g, Append(s, e), a, step)
  PROVE  g[Len(s) + 1] = step[<<f[Len(s)], e>>]
<1> DEFINE n == Len(s)
           t == Append(s, e)
           T == {k \in 0 .. n : g[k] = f[k]}
<1>1. /\ n \in Nat /\ Len(t) = n + 1
      /\ \A i \in 1 .. n : t[i] = s[i]
      /\ t[n + 1] = e
  BY LenProperties, AppendProperties
<1> HIDE DEF t, T
<1>2. /\ f[0] = a /\ \A k \in 0 .. n - 1 : f[k + 1] = step[<<f[k], s[k + 1]>>]
      /\ g[0] = a /\ \A k \in 0 .. n : g[k + 1] = step[<<g[k], t[k + 1]>>]
  BY <1>1 DEF t, Folds
<1> HIDE DEF n
<1>3. 0 \in T
  BY <1>1, <1>2 DEF T
<1>4. ASSUME NEW k \in 0 .. n - 1, k \in T
      PROVE  k + 1 \in T
  <2>1. k + 1 \in 1 .. n /\ k + 1 \in 0 .. n /\ k \in 0 .. n
    BY <1>1
  <2>2. g[k] = f[k] /\ t[k + 1] = s[k + 1]
    BY <1>1, <1>4, <2>1 DEF T
  <2>3. f[k + 1] = step[<<f[k], s[k + 1]>>] /\ g[k + 1] = step[<<g[k], t[k + 1]>>]
    BY <1>2, <2>1
  <2> QED
    BY <2>1, <2>2, <2>3 DEF T
<1>5. n \in 0 .. n
  BY <1>1
<1>6. n \in T
  BY <1>1, <1>3, <1>4, <1>5, UpTo
<1>7. g[n + 1] = step[<<g[n], t[n + 1]>>]
  BY <1>2, <1>5
<1>8. g[n] = f[n]
  BY <1>6 DEF T
<1> QED
  BY <1>1, <1>7, <1>8 DEF n
-----------------------------------------------------------------------------
\* Concatenation under a name, which the provers do not look into.
Cat(s, t) == s \o t

\* The result of a concatenation, and its neutral element.
LEMMA CatFacts ==
  ASSUME NEW S, NEW s \in Seq(S), NEW t \in Seq(S)
  PROVE  /\ Cat(s, t) \in Seq(S)
         /\ Cat(s, <<>>) = s /\ Cat(<<>>, s) = s
BY ConcatProperties, ConcatEmptySeq DEF Cat

\* Concatenation is associative.
LEMMA CatAssociative ==
  ASSUME NEW S, NEW s \in Seq(S), NEW t \in Seq(S), NEW u \in Seq(S)
  PROVE  Cat(Cat(s, t), u) = Cat(s, Cat(t, u))
BY ConcatAssociative DEF Cat

\* f joins the elements of ss from the left, as FlattenSeq does.
Joins(f, ss) ==
  /\ FlattenSeq(ss) = f[Len(ss)]
  /\ f[1] = ss[1]
  /\ \A i \in 1 .. Len(ss) - 1 : f[i + 1] = Cat(f[i], ss[i + 1])

\* There is such an f.
LEMMA FlattenRecursion ==
  ASSUME NEW S, NEW ss \in Seq(Seq(S)), ss # <<>>
  PROVE  \E f \in [1 .. Len(ss) -> Seq(S)] : Joins(f, ss)
<1> DEFINE n == Len(ss)
           step == [x \in (1 .. n) \X Seq(S) |-> Cat(x[2], ss[x[1]])]
<1>1. n \in Nat /\ n >= 1 /\ \A i \in 1 .. n : ss[i] \in Seq(S)
  BY EmptySeq, LenProperties, ElementOfSeq
<1> HIDE DEF n, step
<1>2. step \in [(1 .. n) \X Seq(S) -> Seq(S)]
  <2> SUFFICES ASSUME NEW x \in (1 .. n) \X Seq(S)
               PROVE  Cat(x[2], ss[x[1]]) \in Seq(S)
    BY DEF step
  <2>1. x[2] \in Seq(S) /\ ss[x[1]] \in Seq(S)
    BY <1>1
  <2> QED
    BY <2>1, CatFacts
<1>3. <<>> \in Seq(S)
  BY EmptySeq
<1>4. PICK g \in [0 .. n -> Seq(S)] :
        g[0] = <<>> /\ \A k \in 1 .. n : g[k] = step[<<k, g[k - 1]>>]
  <2>1. \E g \in [0 .. n -> Seq(S)] : Iterates(g, n, <<>>, step)
    BY <1>1, <1>2, <1>3, Recursion
  <2> QED
    BY <2>1 DEF Iterates
<1>5. ASSUME NEW k \in 1 .. n
      PROVE  g[k] = Cat(g[k - 1], ss[k])
  <2>1. k \in 1 .. n /\ g[k - 1] \in Seq(S) /\ g[k] = step[<<k, g[k - 1]>>]
    BY <1>1, <1>4, <1>5
  <2>2. \A v \in Seq(S) : step[<<k, v>>] = Cat(v, ss[k])
    BY <2>1 DEF step
  <2> QED
    BY <2>1, <2>2
<1>6. g[1] = ss[1]
  <2>1. 1 \in 1 .. n /\ ss[1] \in Seq(S) /\ 1 - 1 = 0
    BY <1>1
  <2>2. g[1] = Cat(g[0], ss[1])
    BY <1>5, <2>1
  <2> QED
    BY <1>4, <2>1, <2>2, CatFacts
<1> DEFINE rec(f) == [i \in 1 .. n |-> IF i = 1 THEN ss[i] ELSE Cat(f[i - 1], ss[i])]
           h == [i \in 1 .. n |-> g[i]]
           flat == CHOOSE f : f = rec(f)
<1>7. h = rec(h)
  <2>1. ASSUME NEW i \in 1 .. n
        PROVE  h[i] = IF i = 1 THEN ss[i] ELSE Cat(h[i - 1], ss[i])
    <3>1. CASE i = 1
      BY <1>6, <2>1, <3>1
    <3>2. CASE i # 1
      <4>1. i - 1 \in 1 .. n
        BY <1>1, <2>1, <3>2
      <4> QED
        BY <1>5, <2>1, <3>2, <4>1
    <3> QED
      BY <3>1, <3>2
  <2>2. \A i \in 1 .. n : h[i] = rec(h)[i]
    BY <2>1
  <2> QED
    BY <2>2
<1>8. flat = rec(flat)
  <2> HIDE DEF rec
  <2> QED
    BY <1>7
<1>9. FlattenSeq(ss) = flat[n]
  BY <1>1 DEF n, FlattenSeq, Cat
<1>10. ASSUME NEW i \in 1 .. n
       PROVE  flat[i] = IF i = 1 THEN ss[1] ELSE Cat(flat[i - 1], ss[i])
  <2>1. rec(flat)[i] = IF i = 1 THEN ss[i] ELSE Cat(flat[i - 1], ss[i])
    OBVIOUS
  <2> HIDE DEF rec
  <2> QED
    BY <1>8, <2>1
<1>11. flat = [i \in 1 .. n |-> flat[i]]
  <2>1. rec(flat) = [i \in 1 .. n |-> rec(flat)[i]]
    OBVIOUS
  <2> HIDE DEF rec
  <2> QED
    BY <1>8, <2>1
<1> HIDE DEF flat
<1> DEFINE T == {k \in 0 .. n : k > 0 => flat[k] \in Seq(S)}
<1> HIDE DEF rec
<1>12. \A k \in 0 .. n : k \in T
  <2>1. 0 \in T
    BY <1>1
  <2>2. ASSUME NEW k \in 0 .. n - 1, k \in T
        PROVE  k + 1 \in T
    <3>1. k + 1 \in 1 .. n /\ ss[k + 1] \in Seq(S)
      BY <1>1
    <3>2. flat[k + 1] = IF k + 1 = 1 THEN ss[1] ELSE Cat(flat[k + 1 - 1], ss[k + 1])
      BY <1>10, <3>1
    <3>3. CASE k = 0
      BY <1>1, <3>1, <3>2, <3>3
    <3>4. CASE k # 0
      <4>1. flat[k] \in Seq(S) /\ k + 1 - 1 = k /\ k + 1 # 1
        BY <2>2, <3>4
      <4>2. flat[k + 1] = Cat(flat[k], ss[k + 1])
        BY <3>2, <4>1
      <4>3. Cat(flat[k], ss[k + 1]) \in Seq(S)
        BY <3>1, <4>1, CatFacts
      <4>4. flat[k + 1] \in Seq(S)
        BY <4>2, <4>3
      <4>5. k + 1 \in 0 .. n
        BY <1>1
      <4> QED
        BY <4>4, <4>5
    <3> QED
      BY <3>3, <3>4
  <2> HIDE DEF T
  <2> QED
    BY <1>1, <2>1, <2>2, UpTo
<1>13. \A k \in 1 .. n : flat[k] \in Seq(S)
  BY <1>1, <1>12
<1> HIDE DEF T
<1>14. flat \in [1 .. n -> Seq(S)]
  BY <1>11, <1>13
<1>15. flat[1] = ss[1]
  BY <1>1, <1>10
<1>16. ASSUME NEW i \in 1 .. n - 1
       PROVE  flat[i + 1] = Cat(flat[i], ss[i + 1])
  <2>1. i + 1 \in 1 .. n /\ i + 1 # 1 /\ i + 1 - 1 = i
    BY <1>1
  <2>2. flat[i + 1] = IF i + 1 = 1 THEN ss[1] ELSE Cat(flat[i + 1 - 1], ss[i + 1])
    BY <1>10, <2>1
  <2> QED
    BY <2>1, <2>2
<1> QED
  BY <1>9, <1>14, <1>15, <1>16 DEF n, Joins

\* What FlattenSeq returns is a sequence of the elements' elements.
LEMMA FlattenType ==
  ASSUME NEW S, NEW ss \in Seq(Seq(S))
  PROVE  FlattenSeq(ss) \in Seq(S)
<1>1. CASE ss = <<>>
  BY <1>1, EmptySeq DEF FlattenSeq
<1>2. CASE ss # <<>>
  <2>1. Len(ss) \in 1 .. Len(ss)
    BY <1>2, EmptySeq
  <2> QED
    BY <1>2, <2>1, FlattenRecursion, SMTT(30) DEF Joins
<1> QED
  BY <1>1, <1>2

\* An element behind the others is joined behind them.
LEMMA FlattenAppend ==
  ASSUME NEW S, NEW ss \in Seq(Seq(S)), NEW t \in Seq(S)
  PROVE  FlattenSeq(Append(ss, t)) = Cat(FlattenSeq(ss), t)
<1> DEFINE tt == Append(ss, t)
           n == Len(ss)
<1>1. /\ n \in Nat /\ tt \in Seq(Seq(S)) /\ tt # <<>> /\ Len(tt) = n + 1
      /\ \A i \in 1 .. n : tt[i] = ss[i]
      /\ tt[n + 1] = t
  BY LenProperties, AppendProperties
<1> HIDE DEF tt
<1>2. PICK g \in [1 .. n + 1 -> Seq(S)] : Joins(g, tt)
  BY <1>1, FlattenRecursion
<1>3. /\ FlattenSeq(tt) = g[n + 1] /\ g[1] = tt[1]
      /\ \A i \in 1 .. n : g[i + 1] = Cat(g[i], tt[i + 1])
  BY <1>1, <1>2 DEF Joins
<1>4. CASE ss = <<>>
  <2>1. n = 0 /\ FlattenSeq(ss) = <<>>
    BY <1>4, EmptySeq DEF FlattenSeq
  <2>2. FlattenSeq(tt) = t
    BY <1>1, <1>3, <2>1
  <2> QED
    BY <2>1, <2>2, CatFacts DEF tt
<1>5. CASE ss # <<>>
  <2>1. n >= 1
    BY <1>1, <1>5, EmptySeq
  <2>2. PICK f \in [1 .. n -> Seq(S)] : Joins(f, ss)
    BY <1>5, FlattenRecursion
  <2>3. /\ FlattenSeq(ss) = f[n] /\ f[1] = ss[1]
        /\ \A i \in 1 .. n - 1 : f[i + 1] = Cat(f[i], ss[i + 1])
    BY <2>2 DEF Joins
  <2> HIDE DEF n
  <2> DEFINE T == {k \in 0 .. n : k > 0 => g[k] = f[k]}
  <2>4. 0 \in T
    BY <1>1
  <2>5. ASSUME NEW k \in 0 .. n - 1, k \in T
        PROVE  k + 1 \in T
    <3>1. k + 1 \in 1 .. n /\ k + 1 \in 0 .. n
      BY <1>1
    <3>2. tt[k + 1] = ss[k + 1]
      BY <1>1, <3>1
    <3>3. CASE k = 0
      BY <1>3, <2>3, <3>1, <3>2, <3>3
    <3>4. CASE k # 0
      <4>1. k \in 1 .. n - 1 /\ k \in 1 .. n
        BY <1>1, <3>4
      <4>2. g[k] = f[k]
        BY <2>5, <4>1
      <4>3. g[k + 1] = f[k + 1]
        BY <1>3, <2>3, <3>2, <4>1, <4>2
      <4> QED
        BY <3>1, <4>3
    <3> QED
      BY <3>3, <3>4
  <2>6. n \in T
    <3>1. n \in 0 .. n
      BY <1>1
    <3> HIDE DEF T
    <3> QED
      BY <1>1, <2>4, <2>5, <3>1, UpTo
  <2>7. g[n] = f[n]
    BY <2>1, <2>6
  <2>8. n \in 1 .. n
    BY <1>1, <2>1
  <2> QED
    BY <1>1, <1>3, <2>3, <2>7, <2>8 DEF tt
<1> QED
  BY <1>4, <1>5
=============================================================================
