------------------------------ MODULE Induction ------------------------------
(***************************************************************************)
(* Induction over the natural numbers, stated for sets instead of for      *)
(* predicates, and what follows from it for the recursive operators of the *)
(* community modules that the specifications are written with.             *)
(***************************************************************************)
EXTENDS Integers, Sequences, SequencesExt, FiniteSetTheorems, SequenceTheorems,
        WellFoundedInduction, TLAPS

\* A set of natural numbers that is not empty has a least element.
LEMMA LeastElement ==
  ASSUME NEW T \in SUBSET Nat, T # {}
  PROVE  \E x \in T : \A y \in T : x <= y
<1>1. IsWellFoundedOn(OpToRel(<, Nat), Nat)
  BY NatLessThanWellFounded
<1> DEFINE R == OpToRel(<, Nat)
<1>2. \A x, y \in Nat : x < y => <<x, y>> \in R
  BY DEF OpToRel
<1> HIDE DEF R
<1>3. IsWellFoundedOn(R, Nat)
  BY <1>1 DEF R
<1>4. PICK x \in T : \A y \in T : ~ (<<y, x>> \in R)
  BY <1>3, WFMin
<1>5. \A y \in T : x <= y
  <2> SUFFICES ASSUME NEW y \in T PROVE x <= y
    OBVIOUS
  <2>1. x \in Nat /\ y \in Nat
    OBVIOUS
  <2>2. ~(y < x)
    BY <1>2, <1>4, <2>1
  <2> QED
    BY <2>1, <2>2
<1> QED
  BY <1>5

\* What holds of 0, and of n + 1 whenever it holds of n, holds of every number.
LEMMA NatInduct ==
  ASSUME NEW S, 0 \in S, \A n \in Nat : n \in S => n + 1 \in S
  PROVE  Nat \subseteq S
<1> SUFFICES ASSUME Nat \ S # {} PROVE FALSE
  OBVIOUS
<1>1. PICK x \in Nat \ S : \A y \in Nat \ S : x <= y
  BY LeastElement
<1>2. x - 1 \in S /\ x # 0
  BY <1>1
<1> QED
  BY <1>1, <1>2

\* What a recursive function f[n \in 0 .. m] == IF n = 0 THEN first ELSE
\* step[<<f[n - 1], n>>] says of itself is true of some function.
LEMMA RecursionExists ==
  ASSUME NEW S, NEW first \in S, NEW m \in Nat, NEW step \in [S \X (1 .. m) -> S]
  PROVE  \E f \in [0 .. m -> S] : f[0] = first /\ \A n \in 1 .. m : f[n] = step[<<f[n - 1], n>>]
<1> DEFINE Is(f, k) == f[0] = first /\ \A n \in 1 .. k : f[n] = step[<<f[n - 1], n>>]
           T == {k \in Nat : k <= m => \E f \in [0 .. k -> S] : Is(f, k)}
<1>1. 0 \in T
  <2>1. [n \in 0 .. 0 |-> first] \in [0 .. 0 -> S] /\ Is([n \in 0 .. 0 |-> first], 0)
    OBVIOUS
  <2> QED
    BY <2>1
<1>2. ASSUME NEW k \in Nat, k \in T
      PROVE  k + 1 \in T
  <2> SUFFICES ASSUME k + 1 <= m PROVE \E g \in [0 .. k + 1 -> S] : Is(g, k + 1)
    OBVIOUS
  <2>1. PICK f \in [0 .. k -> S] : Is(f, k)
    BY <1>2
  <2> DEFINE g == [n \in 0 .. k + 1 |-> IF n = k + 1 THEN step[<<f[k], k + 1>>] ELSE f[n]]
  <2>2. step[<<f[k], k + 1>>] \in S
    OBVIOUS
  <2>3. g \in [0 .. k + 1 -> S]
    BY <2>2
  <2>4. g[0] = first
    BY <2>1
  <2>5. ASSUME NEW n \in 1 .. k + 1
        PROVE  g[n] = step[<<g[n - 1], n>>]
    <3>1. n - 1 \in 0 .. k + 1 /\ n - 1 # k + 1 /\ g[n - 1] = f[n - 1]
      OBVIOUS
    <3>2. CASE n = k + 1
      BY <3>1, <3>2
    <3>3. CASE n # k + 1
      <4>1. n \in 1 .. k /\ g[n] = f[n]
        BY <3>3
      <4> QED
        BY <2>1, <3>1, <4>1
    <3> QED
      BY <3>2, <3>3
  <2> QED
    BY <2>3, <2>4, <2>5
<1> HIDE DEF T, Is
<1>3. m \in T
  BY <1>1, <1>2, NatInduct
<1> QED
  BY <1>3 DEF T, Is

----------------------------------------------------------------------------
(* FlattenSeq                                                               *)

\* The function of RecursionExists.
IsRecursion(f, S, first, m, step) ==
  f \in [0 .. m -> S] /\ f[0] = first /\ \A n \in 1 .. m : f[n] = step[<<f[n - 1], n>>]

\* RecursionExists, for what is quantified in its conclusion being hidden.
LEMMA IsRecursionExists ==
  ASSUME NEW S, NEW first \in S, NEW m \in Nat, NEW step \in [S \X (1 .. m) -> S]
  PROVE  \E f : IsRecursion(f, S, first, m, step)
BY RecursionExists DEF IsRecursion

\* RecursionExists for numbers.
LEMMA NatRecursionExists ==
  ASSUME NEW start \in Nat, NEW m \in Nat, NEW step \in [Nat \X (1 .. m) -> Nat]
  PROVE  \E f \in [0 .. m -> Nat] : f[0] = start /\ \A n \in 1 .. m : f[n] = step[<<f[n - 1], n>>]
<1>1. PICK f : IsRecursion(f, Nat, start, m, step)
  BY IsRecursionExists
<1> QED
  BY <1>1 DEF IsRecursion

\* The function FlattenSeq computes: for each n, the first n sequences, one after
\* the other.
IsFlattening(f, seqs, m) ==
  f = [i \in 1 .. m |-> IF i = 1 THEN seqs[i] ELSE f[i - 1] \o seqs[i]]

\* FlattenSeq is what any such function has at the last position.
LEMMA FlattenChoice ==
  ASSUME NEW seqs, Len(seqs) # 0, \E f : IsFlattening(f, seqs, Len(seqs))
  PROVE  \E f : IsFlattening(f, seqs, Len(seqs)) /\ FlattenSeq(seqs) = f[Len(seqs)]
<1> DEFINE f == CHOOSE g : g = [i \in 1 .. Len(seqs) |->
                                  IF i = 1 THEN seqs[i] ELSE g[i - 1] \o seqs[i]]
<1>1. IsFlattening(f, seqs, Len(seqs))
  BY DEF IsFlattening
<1>2. FlattenSeq(seqs) = f[Len(seqs)]
  BY DEF FlattenSeq
<1> QED
  BY <1>1, <1>2

\* It is determined by the sequences it goes over.
LEMMA FlatteningSteps ==
  ASSUME NEW seqs, NEW m \in Nat, NEW f, IsFlattening(f, seqs, m),
         NEW i \in Nat, i + 1 \in 1 .. m
  PROVE  /\ i = 0 => f[i + 1] = seqs[i + 1]
         /\ i # 0 => f[i + 1] = f[i] \o seqs[i + 1]
<1>1. f[i + 1] = IF i + 1 = 1 THEN seqs[i + 1] ELSE f[(i + 1) - 1] \o seqs[i + 1]
  BY DEF IsFlattening
<1>2. (i + 1) - 1 = i /\ (i + 1 = 1 <=> i = 0)
  OBVIOUS
<1> QED
  BY <1>1, <1>2

\* A flattening can be continued by one sequence.
LEMMA FlatteningGrows ==
  ASSUME NEW seqs, NEW m \in Nat, NEW f, IsFlattening(f, seqs, m)
  PROVE  \E g : IsFlattening(g, seqs, m + 1)
<1> DEFINE g == [i \in 1 .. m + 1 |-> IF i = 1 THEN seqs[i] ELSE f[i - 1] \o seqs[i]]
<1>1. ASSUME NEW i \in 1 .. m
      PROVE  g[i] = f[i]
  <2>1. g[i] = IF i = 1 THEN seqs[i] ELSE f[i - 1] \o seqs[i]
    OBVIOUS
  <2>2. f[i] = IF i = 1 THEN seqs[i] ELSE f[i - 1] \o seqs[i]
    BY DEF IsFlattening
  <2> QED
    BY <2>1, <2>2
<1>2. \A i \in 1 .. m + 1 : i # 1 => g[i - 1] = f[i - 1]
  <2> HIDE DEF g
  <2> SUFFICES ASSUME NEW i \in 1 .. m + 1, i # 1 PROVE i - 1 \in 1 .. m
    BY <1>1
  <2> QED
    OBVIOUS
<1>3. \A i \in 1 .. m + 1 : (IF i = 1 THEN seqs[i] ELSE f[i - 1] \o seqs[i])
                              = (IF i = 1 THEN seqs[i] ELSE g[i - 1] \o seqs[i])
  BY <1>2
<1>4. g = [i \in 1 .. m + 1 |-> IF i = 1 THEN seqs[i] ELSE g[i - 1] \o seqs[i]]
  <2> DEFINE h == [i \in 1 .. m + 1 |-> IF i = 1 THEN seqs[i] ELSE g[i - 1] \o seqs[i]]
  <2>1. \A i \in 1 .. m + 1 : g[i] = h[i]
    BY <1>3
  <2> QED
    BY <2>1
<1> QED
  BY <1>4 DEF IsFlattening

\* There is one for every sequence of sequences.
LEMMA FlatteningExists ==
  ASSUME NEW seqs, NEW n \in Nat
  PROVE  \E f : IsFlattening(f, seqs, n)
<1> DEFINE T == {m \in Nat : \E f : IsFlattening(f, seqs, m)}
<1>1. 0 \in T
  <2> DEFINE f == [i \in 1 .. 0 |-> <<>>]
  <2>1. IsFlattening(f, seqs, 0)
    BY DEF IsFlattening
  <2> QED
    BY <2>1
<1>2. \A m \in Nat : m \in T => m + 1 \in T
  BY FlatteningGrows
<1> HIDE DEF T
<1>3. n \in T
  BY <1>1, <1>2, NatInduct
<1> QED
  BY <1>3 DEF T

\* Sequences that agree on the first places have the same flattening there.
LEMMA FlatteningUnique ==
  ASSUME NEW a, NEW b, NEW f, NEW g, NEW m \in Nat, NEW n \in Nat, m <= n,
         IsFlattening(f, a, m), IsFlattening(g, b, n),
         \A i \in 1 .. m : a[i] = b[i]
  PROVE  \A i \in 1 .. m : f[i] = g[i]
<1> DEFINE T == {i \in Nat : i \in 1 .. m => f[i] = g[i]}
<1>1. 0 \in T
  OBVIOUS
<1>2. ASSUME NEW i \in Nat, i \in T
      PROVE  i + 1 \in T
  <2> SUFFICES ASSUME i + 1 \in 1 .. m PROVE f[i + 1] = g[i + 1]
    OBVIOUS
  <2>1. i + 1 \in 1 .. m /\ i + 1 \in 1 .. n /\ a[i + 1] = b[i + 1]
    OBVIOUS
  <2>2. /\ i = 0 => f[i + 1] = a[i + 1]
        /\ i # 0 => f[i + 1] = f[i] \o a[i + 1]
    BY <2>1, FlatteningSteps
  <2>3. /\ i = 0 => g[i + 1] = b[i + 1]
        /\ i # 0 => g[i + 1] = g[i] \o b[i + 1]
    BY <2>1, FlatteningSteps
  <2>4. i # 0 => f[i] = g[i]
    BY <1>2
  <2> QED
    BY <2>1, <2>2, <2>3, <2>4
<1> HIDE DEF T
<1>3. Nat \subseteq T
  BY <1>1, <1>2, NatInduct
<1> QED
  BY <1>3 DEF T

\* Flattening sequences over S gives sequences over S.
LEMMA FlatteningType ==
  ASSUME NEW S, NEW n \in Nat, NEW seqs, \A i \in 1 .. n : seqs[i] \in Seq(S),
         NEW f, IsFlattening(f, seqs, n)
  PROVE  \A i \in 1 .. n : f[i] \in Seq(S)
<1> DEFINE T == {i \in Nat : i \in 1 .. n => f[i] \in Seq(S)}
<1>1. 0 \in T
  OBVIOUS
<1>2. ASSUME NEW i \in Nat, i \in T
      PROVE  i + 1 \in T
  <2> SUFFICES ASSUME i + 1 \in 1 .. n PROVE f[i + 1] \in Seq(S)
    OBVIOUS
  <2>1. /\ i = 0 => f[i + 1] = seqs[i + 1]
        /\ i # 0 => f[i + 1] = f[i] \o seqs[i + 1]
    BY FlatteningSteps
  <2>2. seqs[i + 1] \in Seq(S) /\ (i # 0 => f[i] \in Seq(S))
    BY <1>2
  <2>3. i # 0 => f[i] \o seqs[i + 1] \in Seq(S)
    BY <2>2
  <2> QED
    BY <2>1, <2>2, <2>3
<1> HIDE DEF T
<1>3. Nat \subseteq T
  BY <1>1, <1>2, NatInduct
<1> QED
  BY <1>3 DEF T

\* FlattenSeq joins sequences over S to a sequence over S, and what one more of
\* them adds comes last.
LEMMA FlattenAppend ==
  ASSUME NEW S, NEW seqs \in Seq(Seq(S)), NEW last \in Seq(S)
  PROVE  /\ FlattenSeq(seqs) \in Seq(S)
         /\ FlattenSeq(Append(seqs, last)) = FlattenSeq(seqs) \o last
<1> DEFINE longer == Append(seqs, last)
           n == Len(seqs)
<1>1. /\ Len(longer) = n + 1 /\ n \in Nat /\ longer[n + 1] = last
      /\ \A i \in 1 .. n : longer[i] = seqs[i] /\ seqs[i] \in Seq(S)
  OBVIOUS
<1>2. longer = Append(seqs, last) /\ n = Len(seqs)
  OBVIOUS
<1> HIDE DEF longer, n
<1>3. PICK f : IsFlattening(f, longer, n + 1) /\ FlattenSeq(longer) = f[n + 1]
  <2>1. n + 1 \in Nat /\ n + 1 # 0
    BY <1>1
  <2> QED
    BY <1>1, <2>1, FlatteningExists, FlattenChoice
<1>4. /\ n = 0 => f[n + 1] = last
      /\ n # 0 => f[n + 1] = f[n] \o last
  <2> DEFINE m == n + 1
  <2>1. m \in Nat /\ n + 1 \in 1 .. m /\ IsFlattening(f, longer, m)
    BY <1>1, <1>3
  <2> HIDE DEF m
  <2>2. /\ n = 0 => f[n + 1] = longer[n + 1]
        /\ n # 0 => f[n + 1] = f[n] \o longer[n + 1]
    BY <1>1, <2>1, FlatteningSteps
  <2> QED
    BY <1>1, <2>2
<1>5. CASE n = 0
  <2>1. FlattenSeq(seqs) = seqs
    BY <1>2, <1>5 DEF FlattenSeq
  <2>2. seqs = <<>>
    BY <1>2, <1>5, EmptySeq
  <2> QED
    BY <1>2, <1>3, <1>4, <1>5, <2>1, <2>2
<1>6. CASE n # 0
  <2>1. PICK g : IsFlattening(g, seqs, n) /\ FlattenSeq(seqs) = g[n]
    BY <1>1, <1>2, <1>6, FlatteningExists, FlattenChoice
  <2>2. n \in 1 .. n /\ n <= n + 1 /\ n + 1 \in Nat
    BY <1>1, <1>6
  <2> DEFINE m == n + 1
  <2>3. g[n] = f[n]
    <3>1. /\ IsFlattening(f, longer, m) /\ m \in Nat /\ n <= m
          /\ \A i \in 1 .. n : seqs[i] = longer[i]
      BY <1>1, <1>3, <2>2
    <3> HIDE DEF m
    <3>2. \A i \in 1 .. n : g[i] = f[i]
      BY <1>1, <2>1, <3>1, FlatteningUnique
    <3> QED
      BY <2>2, <3>2
  <2>4. g[n] \in Seq(S)
    BY <1>1, <2>1, <2>2, FlatteningType
  <2> QED
    BY <1>2, <1>3, <1>4, <2>1, <2>2, <2>3, <2>4
<1> QED
  BY <1>5, <1>6

\* Nothing but empty sequences gives the empty sequence.
LEMMA FlattenNothing ==
  ASSUME NEW seqs, Len(seqs) \in Nat \ {0}, \A i \in 1 .. Len(seqs) : seqs[i] = <<>>
  PROVE  FlattenSeq(seqs) = <<>>
<1> DEFINE f == [i \in 1 .. Len(seqs) |-> <<>>]
<1>1. IsFlattening(f, seqs, Len(seqs))
  <2>1. \A i \in 1 .. Len(seqs) :
          <<>> = IF i = 1 THEN seqs[i] ELSE f[i - 1] \o seqs[i]
    <3> SUFFICES ASSUME NEW i \in 1 .. Len(seqs), i # 1 PROVE <<>> = f[i - 1] \o seqs[i]
      OBVIOUS
    <3>1. i - 1 \in 1 .. Len(seqs) /\ seqs[i] = <<>>
      OBVIOUS
    <3>2. f[i - 1] = <<>>
      BY <3>1
    <3> QED
      BY <3>1, <3>2
  <2> QED
    BY <2>1 DEF IsFlattening
<1>2. PICK g : IsFlattening(g, seqs, Len(seqs)) /\ FlattenSeq(seqs) = g[Len(seqs)]
  BY <1>1, FlattenChoice
<1>3. f[Len(seqs)] = g[Len(seqs)]
  <2>1. \A i \in 1 .. Len(seqs) : f[i] = g[i]
    <3> HIDE DEF f
    <3> QED
      BY <1>1, <1>2, FlatteningUnique
  <2> QED
    BY <2>1
<1> QED
  BY <1>2, <1>3

\* Functions with the same values are the same.
LEMMA SameFunction ==
  ASSUME NEW n \in Nat, NEW T, NEW f \in [1 .. n -> T], NEW g \in [1 .. n -> T],
         \A i \in 1 .. n : f[i] = g[i]
  PROVE  f = g
OBVIOUS

\* A sequence without its last element, and that element put back.
LEMMA FrontAndLast ==
  ASSUME NEW T, NEW seq \in Seq(T), seq # <<>>, NEW last \in T
  PROVE  LET n == Len(seq)
             front == [i \in 1 .. n - 1 |-> seq[i]]
         IN  /\ n \in Nat \ {0} /\ front \in Seq(T) /\ seq[n] \in T
             /\ seq = Append(front, seq[n])
             /\ [seq EXCEPT ![n] = last] = Append(front, last)
<1> DEFINE n == Len(seq)
           front == [i \in 1 .. n - 1 |-> seq[i]]
<1>1. n \in Nat \ {0} /\ n - 1 \in Nat /\ seq \in [1 .. n -> T] /\ seq[n] \in T
  OBVIOUS
<1> HIDE DEF n
<1>2. front \in [1 .. n - 1 -> T]
  BY <1>1
<1> HIDE DEF front
<1>3. front \in Seq(T) /\ Len(front) = n - 1
  BY <1>1, <1>2
<1>4. ASSUME NEW x \in T
      PROVE  /\ Append(front, x) \in [1 .. n -> T]
             /\ Append(front, x)[n] = x
             /\ \A i \in 1 .. n - 1 : Append(front, x)[i] = seq[i]
  <2>1. \A i \in 1 .. n - 1 : front[i] = seq[i]
    BY DEF front
  <2>2. (n - 1) + 1 = n
    BY <1>1
  <2>3. /\ Append(front, x) \in Seq(T) /\ Len(Append(front, x)) = n
        /\ Append(front, x)[n] = x
        /\ \A i \in 1 .. n - 1 : Append(front, x)[i] = front[i]
    BY <1>3, <2>2, AppendProperties
  <2>4. Append(front, x) \in [1 .. n -> T]
    BY <2>3, LenProperties
  <2> QED
    BY <2>1, <2>3, <2>4
<1>5. \A i \in 1 .. n : i = n \/ i \in 1 .. n - 1
  BY <1>1
<1>6. seq = Append(front, seq[n])
  BY <1>1, <1>4, <1>5
<1>7. [seq EXCEPT ![n] = last] = Append(front, last)
  <2> DEFINE new == [seq EXCEPT ![n] = last]
  <2>1. new \in [1 .. n -> T] /\ \A i \in 1 .. n : new[i] = IF i = n THEN last ELSE seq[i]
    BY <1>1
  <2> HIDE DEF new
  <2>2. \A i \in 1 .. n : new[i] = Append(front, last)[i]
    BY <1>1, <1>4, <1>5, <2>1
  <2> DEFINE other == Append(front, last)
  <2>3. new = other
    <3>1. other \in [1 .. n -> T]
      BY <1>4
    <3>2. \A i \in 1 .. n : new[i] = other[i]
      BY <2>2
    <3> HIDE DEF other
    <3> QED
      BY <1>1, <2>1, <3>1, <3>2, SameFunction
  <2> QED
    BY <2>3 DEF new
<1> QED
  BY <1>1, <1>3, <1>6, <1>7 DEF front, n

\* What is added to the last sequence is added to the whole.
LEMMA FlattenLast ==
  ASSUME NEW S, NEW seqs \in Seq(Seq(S)), seqs # <<>>, NEW more \in Seq(S)
  PROVE  FlattenSeq([seqs EXCEPT ![Len(seqs)] = seqs[Len(seqs)] \o more])
           = FlattenSeq(seqs) \o more
<1> DEFINE n == Len(seqs)
           front == [i \in 1 .. n - 1 |-> seqs[i]]
           last == seqs[n]
           new == [seqs EXCEPT ![n] = last \o more]
<1>1. last \in Seq(S) /\ last \o more \in Seq(S)
  OBVIOUS
<1>2. front \in Seq(Seq(S)) /\ seqs = Append(front, last) /\ new = Append(front, last \o more)
  BY <1>1, FrontAndLast
<1>3. new = [seqs EXCEPT ![Len(seqs)] = seqs[Len(seqs)] \o more]
  OBVIOUS
<1> HIDE DEF front, last, new, n
<1>4. /\ FlattenSeq(front) \in Seq(S)
      /\ FlattenSeq(seqs) = FlattenSeq(front) \o last
      /\ FlattenSeq(new) = FlattenSeq(front) \o (last \o more)
  BY <1>1, <1>2, FlattenAppend
<1>5. FlattenSeq(front) \o (last \o more) = (FlattenSeq(front) \o last) \o more
  BY <1>1, <1>4
<1> QED
  BY <1>3, <1>4, <1>5

----------------------------------------------------------------------------
(* The first and the last element of a sequence that is in a set.           *)

HasNone(s, M) == \A i \in DOMAIN s : s[i] \notin M

LastIn(s, M, v) ==
  v \in M /\ \E i \in DOMAIN s : s[i] = v /\ \A j \in DOMAIN s : j > i => s[j] \notin M

FirstIn(s, M, v) ==
  v \in M /\ \E i \in DOMAIN s : s[i] = v /\ \A j \in DOMAIN s : j < i => s[j] \notin M

\* A sequence has none of a set, or a last one and a first one.
LEMMA SomeLastIn ==
  ASSUME NEW S, NEW s \in Seq(S), NEW M, ~HasNone(s, M)
  PROVE  (\E v \in S : LastIn(s, M, v)) /\ (\E v \in S : FirstIn(s, M, v))
<1> DEFINE n == Len(s)
           I == {i \in 1 .. n : s[i] \in M}
           J == {n + 1 - i : i \in I}
<1>1. n \in Nat /\ DOMAIN s = 1 .. n /\ \A i \in 1 .. n : s[i] \in S OBVIOUS
<1> HIDE DEF n
<1>2. PICK some \in 1 .. n : s[some] \in M BY <1>1 DEF HasNone
<1>3. I \in SUBSET Nat /\ some \in I BY <1>2
<1>4. J \in SUBSET Nat /\ n + 1 - some \in J BY <1>1, <1>2
<1> HIDE DEF J
<1>5. PICK first \in I : \A j \in I : first <= j
  <2> HIDE DEF I
  <2>1. QED BY <1>3, LeastElement
<1>6. PICK back \in J : \A j \in J : back <= j BY <1>4, LeastElement
<1>7. PICK last \in I : back = n + 1 - last BY <1>6 DEF J
<1>8. \A j \in I : j <= last
  <2> SUFFICES ASSUME NEW j \in I PROVE j <= last OBVIOUS
  <2>1. n + 1 - j \in J BY DEF J
  <2>2. n + 1 - last <= n + 1 - j BY <1>6, <1>7, <2>1
  <2>3. QED BY <1>1, <2>2
<1>9. LastIn(s, M, s[last]) /\ FirstIn(s, M, s[first])
  <2>1. \A j \in 1 .. n : j > last => s[j] \notin M BY <1>1, <1>8
  <2>2. \A j \in 1 .. n : j < first => s[j] \notin M BY <1>1, <1>5
  <2>3. QED BY <1>1, <2>1, <2>2 DEF LastIn, FirstIn
<1>10. QED BY <1>1, <1>9

\* Of two sequences the second decides about the last one, unless it has none, and
\* the first about the first.
LEMMA JoinedIn ==
  ASSUME NEW S, NEW s \in Seq(S), NEW t \in Seq(S), NEW M, NEW v
  PROVE  /\ HasNone(s, M) /\ HasNone(t, M) => HasNone(s \o t, M)
         /\ LastIn(t, M, v) => LastIn(s \o t, M, v)
         /\ HasNone(t, M) /\ LastIn(s, M, v) => LastIn(s \o t, M, v)
         /\ FirstIn(s, M, v) => FirstIn(s \o t, M, v)
         /\ HasNone(s, M) /\ FirstIn(t, M, v) => FirstIn(s \o t, M, v)
<1> DEFINE m == Len(s)
           n == Len(t)
           st == s \o t
<1>1. /\ m \in Nat /\ n \in Nat /\ DOMAIN s = 1 .. m /\ DOMAIN t = 1 .. n
      /\ DOMAIN st = 1 .. m + n
      /\ \A i \in 1 .. m : st[i] = s[i]
      /\ \A i \in 1 .. n : st[m + i] = t[i]
  OBVIOUS
<1> HIDE DEF m, n, st
<1>2. \A i \in 1 .. m + n : i \in 1 .. m \/ (i - m \in 1 .. n /\ i = m + (i - m)) BY <1>1
<1>3. HasNone(s, M) => \A i \in 1 .. m : st[i] \notin M BY <1>1 DEF HasNone
<1>4. ASSUME HasNone(t, M), NEW i \in 1 .. m + n, i > m PROVE st[i] \notin M
  <2>1. i - m \in 1 .. n /\ i = m + (i - m) BY <1>1, <1>2, <1>4
  <2>2. st[m + (i - m)] = t[i - m] BY <1>1, <2>1
  <2>3. t[i - m] \notin M BY <1>1, <1>4, <2>1 DEF HasNone
  <2>4. QED BY <2>1, <2>2, <2>3
<1>5. HasNone(s, M) /\ HasNone(t, M) => HasNone(st, M)
  BY <1>1, <1>2, <1>3, <1>4 DEF HasNone
<1>6. ASSUME LastIn(t, M, v) PROVE LastIn(st, M, v)
  <2>1. PICK i \in 1 .. n : t[i] = v /\ \A j \in 1 .. n : j > i => t[j] \notin M
    BY <1>1, <1>6 DEF LastIn
  <2>2. m + i \in 1 .. m + n /\ st[m + i] = v BY <1>1, <2>1
  <2>3. ASSUME NEW j \in 1 .. m + n, j > m + i PROVE st[j] \notin M
    <3>1. j - m \in 1 .. n /\ j - m > i /\ j = m + (j - m) BY <1>1, <2>1, <2>3
    <3>2. st[m + (j - m)] = t[j - m] BY <1>1, <3>1
    <3>3. QED BY <2>1, <3>1, <3>2
  <2>4. QED BY <1>1, <1>6, <2>2, <2>3 DEF LastIn
<1>7. ASSUME HasNone(t, M), LastIn(s, M, v) PROVE LastIn(st, M, v)
  <2>1. PICK i \in 1 .. m : s[i] = v /\ \A j \in 1 .. m : j > i => s[j] \notin M
    BY <1>1, <1>7 DEF LastIn
  <2>2. i \in 1 .. m + n /\ st[i] = v BY <1>1, <2>1
  <2>3. ASSUME NEW j \in 1 .. m + n, j > i PROVE st[j] \notin M
    <3>1. CASE j \in 1 .. m BY <1>1, <2>1, <2>3, <3>1
    <3>2. CASE j > m BY <1>4, <1>7, <3>2
    <3>3. QED BY <1>1, <3>1, <3>2
  <2>4. QED BY <1>1, <1>7, <2>2, <2>3 DEF LastIn
<1>8. ASSUME FirstIn(s, M, v) PROVE FirstIn(st, M, v)
  <2>1. PICK i \in 1 .. m : s[i] = v /\ \A j \in 1 .. m : j < i => s[j] \notin M
    BY <1>1, <1>8 DEF FirstIn
  <2>2. i \in 1 .. m + n /\ st[i] = v BY <1>1, <2>1
  <2>3. ASSUME NEW j \in 1 .. m + n, j < i PROVE st[j] \notin M
    <3>1. j \in 1 .. m BY <1>1, <2>3
    <3>2. QED BY <1>1, <2>1, <2>3, <3>1
  <2>4. QED BY <1>1, <1>8, <2>2, <2>3 DEF FirstIn
<1>9. ASSUME HasNone(s, M), FirstIn(t, M, v) PROVE FirstIn(st, M, v)
  <2>1. PICK i \in 1 .. n : t[i] = v /\ \A j \in 1 .. n : j < i => t[j] \notin M
    BY <1>1, <1>9 DEF FirstIn
  <2>2. m + i \in 1 .. m + n /\ st[m + i] = v BY <1>1, <2>1
  <2>3. ASSUME NEW j \in 1 .. m + n, j < m + i PROVE st[j] \notin M
    <3>1. CASE j \in 1 .. m BY <1>3, <1>9, <3>1
    <3>2. CASE j \notin 1 .. m
      <4>1. j - m \in 1 .. n /\ j - m < i /\ j = m + (j - m) BY <1>1, <2>3, <3>2
      <4>2. st[m + (j - m)] = t[j - m] BY <1>1, <4>1
      <4>3. QED BY <2>1, <4>1, <4>2
    <3>3. QED BY <3>1, <3>2
  <2>4. QED BY <1>1, <1>9, <2>2, <2>3 DEF FirstIn
<1>10. QED BY <1>5, <1>6, <1>7, <1>8, <1>9 DEF st

FlattensIn(seqs, M) ==
  /\ (\A k \in DOMAIN seqs : HasNone(seqs[k], M)) => HasNone(FlattenSeq(seqs), M)
  /\ \A k \in DOMAIN seqs : \A v :
       LastIn(seqs[k], M, v) /\ (\A j \in DOMAIN seqs : j > k => HasNone(seqs[j], M))
         => LastIn(FlattenSeq(seqs), M, v)
  /\ \A k \in DOMAIN seqs : \A v :
       FirstIn(seqs[k], M, v) /\ (\A j \in DOMAIN seqs : j < k => HasNone(seqs[j], M))
         => FirstIn(FlattenSeq(seqs), M, v)

\* Of joined sequences the last that has any decides about the last one, and the
\* first that has any about the first.
LEMMA FlattenedIn ==
  ASSUME NEW S, NEW seqs \in Seq(Seq(S)), NEW M
  PROVE  FlattensIn(seqs, M)
<1> DEFINE Flattens(ss) == FlattensIn(ss, M)
           T == {n \in Nat : \A ss \in Seq(Seq(S)) : Len(ss) = n => Flattens(ss)}
<1>1. 0 \in T
  <2> SUFFICES ASSUME NEW ss \in Seq(Seq(S)), Len(ss) = 0 PROVE FlattensIn(ss, M) OBVIOUS
  <2>1. FlattenSeq(ss) = ss /\ DOMAIN ss = {} BY DEF FlattenSeq
  <2>2. QED BY <2>1 DEF FlattensIn, HasNone
<1>2. ASSUME NEW n \in Nat, n \in T PROVE n + 1 \in T
  <2> SUFFICES ASSUME NEW ss \in Seq(Seq(S)), Len(ss) = n + 1 PROVE FlattensIn(ss, M)
    OBVIOUS
  <2> DEFINE front == [i \in 1 .. n |-> ss[i]]
             last == ss[n + 1]
  <2>1. front \in Seq(Seq(S)) /\ last \in Seq(S) /\ ss = Append(front, last)
    <3>1. ss # <<>> /\ last \in Seq(S) /\ Len(ss) = n + 1 /\ (n + 1) - 1 = n OBVIOUS
    <3>2. /\ [i \in 1 .. Len(ss) - 1 |-> ss[i]] \in Seq(Seq(S))
          /\ ss = Append([i \in 1 .. Len(ss) - 1 |-> ss[i]], ss[Len(ss)])
      BY <3>1, FrontAndLast
    <3>3. QED BY <3>1, <3>2
  <2>2. DOMAIN front = 1 .. n /\ Len(front) = n /\ DOMAIN ss = 1 .. n + 1
    BY <1>2
  <2>3. \A i \in 1 .. n : front[i] = ss[i] OBVIOUS
  <2> HIDE DEF front, T
  <2>4. FlattensIn(front, M) BY <1>2, <2>1, <2>2 DEF T
  <2> DEFINE flat == FlattenSeq(front)
  <2>5. flat \in Seq(S) /\ FlattenSeq(ss) = flat \o last BY <2>1, FlattenAppend
  <2> HIDE DEF flat, last
  <2>6. \A v : /\ HasNone(flat, M) /\ HasNone(last, M) => HasNone(flat \o last, M)
               /\ LastIn(last, M, v) => LastIn(flat \o last, M, v)
               /\ HasNone(last, M) /\ LastIn(flat, M, v) => LastIn(flat \o last, M, v)
               /\ FirstIn(flat, M, v) => FirstIn(flat \o last, M, v)
               /\ HasNone(flat, M) /\ FirstIn(last, M, v) => FirstIn(flat \o last, M, v)
    BY <2>1, <2>5, JoinedIn
  <2>7. \A k \in 1 .. n + 1 : k = n + 1 \/ (k \in 1 .. n /\ n + 1 > k /\ k < n + 1)
    OBVIOUS
  <2>8. n + 1 \in 1 .. n + 1 /\ ss[n + 1] = last /\ 1 .. n \subseteq 1 .. n + 1
    BY DEF last
  <2>9. (\A k \in 1 .. n : HasNone(ss[k], M)) => HasNone(flat, M)
    BY <2>2, <2>3, <2>4 DEF FlattensIn, flat
  <2>10. (\A k \in 1 .. n + 1 : HasNone(ss[k], M)) => HasNone(flat \o last, M)
    BY <2>6, <2>8, <2>9
  <2>11. ASSUME NEW k \in 1 .. n + 1, NEW v, LastIn(ss[k], M, v),
                \A j \in 1 .. n + 1 : j > k => HasNone(ss[j], M)
         PROVE  LastIn(flat \o last, M, v)
    <3>1. CASE k = n + 1 BY <2>6, <2>8, <2>11, <3>1
    <3>2. CASE k \in 1 .. n /\ n + 1 > k
      <4>1. HasNone(last, M) BY <2>8, <2>11, <3>2
      <4>2. LastIn(flat, M, v) BY <2>2, <2>3, <2>4, <2>8, <2>11, <3>2 DEF FlattensIn, flat
      <4>3. QED BY <2>6, <4>1, <4>2
    <3>3. QED BY <2>7, <3>1, <3>2
  <2>12. ASSUME NEW k \in 1 .. n + 1, NEW v, FirstIn(ss[k], M, v),
                \A j \in 1 .. n + 1 : j < k => HasNone(ss[j], M)
         PROVE  FirstIn(flat \o last, M, v)
    <3>1. CASE k = n + 1
      <4>1. \A j \in 1 .. n : HasNone(ss[j], M) BY <2>7, <2>8, <2>12, <3>1
      <4>2. QED BY <2>6, <2>8, <2>9, <2>12, <3>1, <4>1
    <3>2. CASE k \in 1 .. n
      <4>1. FirstIn(flat, M, v) BY <2>2, <2>3, <2>4, <2>8, <2>12, <3>2 DEF FlattensIn, flat
      <4>2. QED BY <2>6, <4>1
    <3>3. QED BY <2>7, <3>1, <3>2
  <2>13. QED BY <2>2, <2>5, <2>10, <2>11, <2>12 DEF FlattensIn
<1> HIDE DEF T
<1>3. Len(seqs) \in T BY <1>1, <1>2, NatInduct
<1>4. QED BY <1>3 DEF T

----------------------------------------------------------------------------
(* Sums over finite sets.                                                   *)

SumOf(f, S) == MapThenSumSet(LAMBDA k : f[k], S)

\* An element of a set.
Some(s) == CHOOSE x \in s : TRUE

\* What MapThenFoldSet computes.
IsSum(it, f, S) ==
  it = [s \in SUBSET S |-> IF s = {} THEN 0 ELSE f[Some(s)] + it[s \ {Some(s)}]]

\* The sums of f over the subsets of S.
SumsUp(it, f, S) ==
  /\ it \in [SUBSET S -> Nat] /\ SumOf(f, S) = it[S] /\ it[{}] = 0
  /\ \A s \in SUBSET S : s # {} => it[s] = f[Some(s)] + it[s \ {Some(s)}]

\* The empty set has no elements.
LEMMA NoElements == Cardinality({}) = 0
BY FS_EmptySet

\* The image of a finite set is finite.
LEMMA ImageIsFinite ==
  ASSUME NEW S, IsFiniteSet(S), NEW f, DOMAIN f = S
  PROVE  IsFiniteSet({f[x] : x \in S})
<1> DEFINE T == {f[x] : x \in S}
           g == [x \in S |-> f[x]]
<1>1. g \in Surjection(S, T)
  BY DEF Surjection
<1> HIDE DEF T, g
<1> QED
  BY <1>1, FS_Surjection DEF T

\* The sets of n + 1 elements are those of n with one more.
LEMMA OneLess ==
  ASSUME NEW S, IsFiniteSet(S), NEW s \in SUBSET S, s # {}
  PROVE  /\ IsFiniteSet(s) /\ Some(s) \in s /\ s \ {Some(s)} \in SUBSET S
         /\ Cardinality(s) \in Nat /\ Cardinality(s \ {Some(s)}) = Cardinality(s) - 1
         /\ Cardinality(s) # 0
<1>1. IsFiniteSet(s) /\ Some(s) \in s
  BY FS_Subset DEF Some
<1>2. s \ {Some(s)} \in SUBSET S
  OBVIOUS
<1> QED
  BY <1>1, <1>2, FS_CardinalityType, FS_RemoveElement, FS_EmptySet

\* What has elements is not empty.
LEMMA SomeElements ==
  ASSUME NEW s, Cardinality(s) # 0
  PROVE  s # {}
BY NoElements, Zenon

\* Such a sum exists.
LEMMA SumExists ==
  ASSUME NEW S, IsFiniteSet(S), NEW f \in [S -> Nat]
  PROVE  \E it \in [SUBSET S -> Nat] : IsSum(it, f, S)
<1> DEFINE Upto(n) == {s \in SUBSET S : Cardinality(s) <= n}
           Is(it, n) == \A s \in Upto(n) :
                          it[s] = IF s = {} THEN 0 ELSE f[Some(s)] + it[s \ {Some(s)}]
           T == {n \in Nat : \E it \in [SUBSET S -> Nat] : Is(it, n)}
<1>1. ASSUME NEW s \in SUBSET S
      PROVE  Cardinality(s) \in Nat /\ (Cardinality(s) <= 0 => s = {})
  <2>1. IsFiniteSet(s)
    BY FS_Subset
  <2> QED
    BY <2>1, FS_CardinalityType, FS_EmptySet
<1>2. 0 \in T
  <2>1. [s \in SUBSET S |-> 0] \in [SUBSET S -> Nat]
    OBVIOUS
  <2>2. Is([s \in SUBSET S |-> 0], 0)
    BY <1>1
  <2> QED
    BY <2>1, <2>2
<1>3. ASSUME NEW n \in Nat, n \in T
      PROVE  n + 1 \in T
  <2>1. PICK it \in [SUBSET S -> Nat] : Is(it, n)
    BY <1>3
  <2> DEFINE new == [s \in SUBSET S |-> IF Cardinality(s) <= n THEN it[s]
                                        ELSE f[Some(s)] + it[s \ {Some(s)}]]
  <2>2. ASSUME NEW s \in SUBSET S, s # {}
        PROVE  /\ Some(s) \in S /\ s \ {Some(s)} \in SUBSET S
               /\ Cardinality(s) <= n + 1 => Cardinality(s \ {Some(s)}) <= n
    <3>1. /\ Some(s) \in s /\ Cardinality(s) \in Nat
          /\ Cardinality(s \ {Some(s)}) = Cardinality(s) - 1
      BY <2>2, OneLess
    <3> QED
      BY <3>1
  <2>3. ASSUME NEW s \in SUBSET S
        PROVE  new[s] \in Nat
    <3>1. CASE Cardinality(s) <= n
      BY <3>1
    <3>2. CASE ~(Cardinality(s) <= n)
      <4>0. Cardinality(s) # 0
        BY <3>2
      <4>1. s # {}
        BY <4>0, SomeElements
      <4>2. f[Some(s)] \in Nat /\ it[s \ {Some(s)}] \in Nat
        BY <2>2, <4>1
      <4> QED
        BY <3>2, <4>2
    <3> QED
      BY <3>1, <3>2
  <2>4. new \in [SUBSET S -> Nat]
    BY <2>3
  <2>5. ASSUME NEW s \in Upto(n + 1)
        PROVE  new[s] = IF s = {} THEN 0 ELSE f[Some(s)] + new[s \ {Some(s)}]
    <3>1. s # {} => new[s \ {Some(s)}] = it[s \ {Some(s)}]
      BY <2>2
    <3>2. CASE Cardinality(s) <= n
      BY <2>1, <3>1, <3>2
    <3>3. CASE ~(Cardinality(s) <= n)
      <4>0. Cardinality(s) # 0
        BY <3>3
      <4>1. s # {}
        BY <4>0, SomeElements
      <4>2. new[s] = f[Some(s)] + it[s \ {Some(s)}]
        BY <3>3
      <4> QED
        BY <3>1, <4>1, <4>2
    <3> QED
      BY <3>2, <3>3
  <2> HIDE DEF new
  <2> QED
    BY <2>4, <2>5
<1>4. Cardinality(S) \in Nat
  BY FS_CardinalityType
<1>5. Cardinality(S) \in T
  <2> HIDE DEF T
  <2> QED
    BY <1>2, <1>3, <1>4, NatInduct
<1>6. PICK it \in [SUBSET S -> Nat] : Is(it, Cardinality(S))
  BY <1>5
<1>7. \A s \in SUBSET S : s \in Upto(Cardinality(S))
  BY FS_Subset
<1>8. \A s \in SUBSET S : it[s] = IF s = {} THEN 0 ELSE f[Some(s)] + it[s \ {Some(s)}]
  BY <1>6, <1>7
<1>9. it = [s \in SUBSET S |-> IF s = {} THEN 0 ELSE f[Some(s)] + it[s \ {Some(s)}]]
  BY <1>8
<1> QED
  BY <1>9 DEF IsSum

\* A sum is added up element by element.
LEMMA SumIs ==
  ASSUME NEW S, IsFiniteSet(S), NEW f \in [S -> Nat]
  PROVE  \E it : SumsUp(it, f, S)
<1> DEFINE it == CHOOSE g : IsSum(g, f, S)
<1>1. SumOf(f, S) = it[S]
  BY DEF SumOf, MapThenSumSet, MapThenFoldSet, IsSum, Some
<1>2. IsSum(it, f, S)
  BY SumExists
<1> HIDE DEF it
<1>3. /\ DOMAIN it = SUBSET S /\ it[{}] = 0
      /\ \A s \in SUBSET S : s # {} => it[s] = f[Some(s)] + it[s \ {Some(s)}]
  BY <1>2 DEF IsSum
<1> DEFINE T == {n \in Nat : \A s \in SUBSET S : Cardinality(s) = n => it[s] \in Nat}
<1>4. 0 \in T
  <2>1. \A s \in SUBSET S : Cardinality(s) = 0 => s = {}
    BY FS_Subset, FS_EmptySet
  <2> QED
    BY <1>3, <2>1
<1>5. ASSUME NEW n \in Nat, n \in T
      PROVE  n + 1 \in T
  <2> SUFFICES ASSUME NEW s \in SUBSET S, Cardinality(s) = n + 1 PROVE it[s] \in Nat
    OBVIOUS
  <2>0. Cardinality(s) # 0
    OBVIOUS
  <2>1. s # {}
    BY <2>0, SomeElements
  <2>2. /\ Some(s) \in S /\ s \ {Some(s)} \in SUBSET S
        /\ Cardinality(s \ {Some(s)}) = n
    BY <2>1, OneLess
  <2>3. it[s \ {Some(s)}] \in Nat /\ f[Some(s)] \in Nat
    BY <1>5, <2>2
  <2> QED
    BY <1>3, <2>1, <2>3
<1> HIDE DEF T
<1>6. ASSUME NEW s \in SUBSET S
      PROVE  it[s] \in Nat
  <2>1. Cardinality(s) \in Nat
    BY FS_Subset, FS_CardinalityType
  <2>2. Cardinality(s) \in T
    BY <1>4, <1>5, <2>1, NatInduct
  <2> QED
    BY <2>2 DEF T
<1>7. it \in [SUBSET S -> Nat]
  <2>1. it = [s \in SUBSET S |-> it[s]]
    BY <1>2, <1>3 DEF IsSum
  <2> QED
    BY <1>6, <2>1
<1> QED
  BY <1>1, <1>3, <1>7 DEF SumsUp

\* The sum of two sums.
LEMMA SumAdds ==
  ASSUME NEW S, IsFiniteSet(S), NEW f \in [S -> Nat], NEW g \in [S -> Nat],
         NEW h \in [S -> Nat], \A k \in S : h[k] = f[k] + g[k]
  PROVE  SumOf(h, S) = SumOf(f, S) + SumOf(g, S)
<1>1. PICK fs : SumsUp(fs, f, S)
  BY SumIs
<1>2. PICK gs : SumsUp(gs, g, S)
  BY SumIs
<1>3. PICK hs : SumsUp(hs, h, S)
  BY SumIs
<1> DEFINE T == {n \in Nat : \A s \in SUBSET S : Cardinality(s) = n => hs[s] = fs[s] + gs[s]}
<1>4. 0 \in T
  <2>1. \A s \in SUBSET S : Cardinality(s) = 0 => s = {}
    BY FS_Subset, FS_EmptySet
  <2>2. hs[{}] = fs[{}] + gs[{}]
    BY <1>1, <1>2, <1>3 DEF SumsUp
  <2>3. \A s \in SUBSET S : Cardinality(s) = 0 => hs[s] = fs[s] + gs[s]
    BY <2>1, <2>2, Zenon
  <2> QED
    BY <2>3
<1>5. ASSUME NEW n \in Nat, n \in T
      PROVE  n + 1 \in T
  <2> SUFFICES ASSUME NEW s \in SUBSET S, Cardinality(s) = n + 1 PROVE hs[s] = fs[s] + gs[s]
    OBVIOUS
  <2> DEFINE x == Some(s)
             r == s \ {x}
  <2>0. Cardinality(s) # 0
    OBVIOUS
  <2>1. s # {}
    BY <2>0, SomeElements
  <2>2. x \in S /\ r \in SUBSET S /\ Cardinality(r) = n
    BY <2>1, OneLess
  <2>3. hs[s] = h[x] + hs[r] /\ fs[s] = f[x] + fs[r] /\ gs[s] = g[x] + gs[r]
    BY <1>1, <1>2, <1>3, <2>1 DEF SumsUp
  <2> HIDE DEF x, r
  <2>4. hs[r] = fs[r] + gs[r] /\ h[x] = f[x] + g[x]
    BY <1>5, <2>2
  <2>5. f[x] \in Nat /\ g[x] \in Nat /\ fs[r] \in Nat /\ gs[r] \in Nat
    BY <1>1, <1>2, <2>2 DEF SumsUp
  <2> QED
    BY <2>3, <2>4, <2>5
<1> HIDE DEF T
<1>6. Cardinality(S) \in T
  BY <1>4, <1>5, FS_CardinalityType, NatInduct
<1> QED
  BY <1>1, <1>2, <1>3, <1>6 DEF T, SumsUp

\* The sizes of the classes of a finite set add up to its own.
LEMMA SumOfClasses ==
  ASSUME NEW S, IsFiniteSet(S), NEW P, IsFiniteSet(P), NEW class \in [P -> S],
         NEW g \in [S -> Nat], \A k \in S : g[k] = Cardinality({e \in P : class[e] = k})
  PROVE  SumOf(g, S) = Cardinality(P)
<1>1. PICK gs : SumsUp(gs, g, S)
  BY SumIs
<1> DEFINE Of(s) == {e \in P : class[e] \in s}
           T == {n \in Nat : \A s \in SUBSET S : Cardinality(s) = n => gs[s] = Cardinality(Of(s))}
<1>2. 0 \in T
  <2>1. \A s \in SUBSET S : Cardinality(s) = 0 => s = {}
    BY FS_Subset, FS_EmptySet
  <2>2. Of({}) = {}
    OBVIOUS
  <2> QED
    BY <1>1, <2>1, <2>2, NoElements DEF SumsUp
<1>3. ASSUME NEW n \in Nat, n \in T
      PROVE  n + 1 \in T
  <2> SUFFICES ASSUME NEW s \in SUBSET S, Cardinality(s) = n + 1
               PROVE  gs[s] = Cardinality(Of(s))
    OBVIOUS
  <2> DEFINE x == Some(s)
             r == s \ {x}
             E == {e \in P : class[e] = x}
  <2>0. Cardinality(s) # 0
    OBVIOUS
  <2>1. s # {}
    BY <2>0, SomeElements
  <2>2. x \in S /\ x \in s /\ r \in SUBSET S /\ Cardinality(r) = n
    BY <2>1, OneLess
  <2>3. gs[s] = g[x] + gs[r] /\ gs[r] = Cardinality(Of(r)) /\ g[x] = Cardinality(E)
    BY <1>1, <1>3, <2>1, <2>2 DEF SumsUp
  <2>4. Of(s) = E \cup Of(r) /\ E \cap Of(r) = {}
    BY <2>2
  <2>5. IsFiniteSet(E) /\ IsFiniteSet(Of(r))
    BY FS_Subset
  <2> HIDE DEF E, Of, x, r
  <2>6. Cardinality(Of(s)) = Cardinality(E) + Cardinality(Of(r)) - Cardinality(E \cap Of(r))
    BY <2>4, <2>5, FS_Union
  <2>7. Cardinality(E \cap Of(r)) = 0 /\ Cardinality(E) \in Nat /\ Cardinality(Of(r)) \in Nat
    BY <2>4, <2>5, FS_EmptySet, FS_CardinalityType
  <2> QED
    BY <2>3, <2>6, <2>7
<1>4. Cardinality(S) \in T
  <2> HIDE DEF T
  <2> QED
    BY <1>2, <1>3, FS_CardinalityType, NatInduct
<1>5. Of(S) = P
  OBVIOUS
<1> QED
  BY <1>1, <1>4, <1>5 DEF SumsUp

\* Nothing adds up to nothing.
LEMMA SumOfNothing ==
  ASSUME NEW S, IsFiniteSet(S)
  PROVE  SumOf([k \in S |-> 0], S) = 0
<1> DEFINE g == [k \in S |-> 0]
           class == [e \in {} |-> e]
<1>1. g \in [S -> Nat] /\ class \in [{} -> S]
  OBVIOUS
<1>2. ASSUME NEW k \in S
      PROVE  g[k] = Cardinality({e \in {} : class[e] = k})
  <2>1. {e \in {} : class[e] = k} = {}
    OBVIOUS
  <2>2. Cardinality({e \in {} : class[e] = k}) = 0
    BY <2>1, NoElements, Zenon
  <2> QED
    BY <2>2
<1> HIDE DEF g, class
<1>3. SumOf(g, S) = Cardinality({})
  <2>1. IsFiniteSet({})
    BY FS_EmptySet
  <2> QED
    BY <1>1, <1>2, <2>1, SumOfClasses
<1> QED
  BY <1>3, NoElements DEF g

----------------------------------------------------------------------------
(* Joined sequences, element by element.                                     *)

\* What holds of the first number and is handed on holds up to the last.
LEMMA UpTo ==
  ASSUME NEW n \in Nat, NEW S, 0 \in S, \A i \in 0 .. n - 1 : i \in S => i + 1 \in S
  PROVE  \A i \in 0 .. n : i \in S
<1> DEFINE T == {i \in Nat : i \in 0 .. n => i \in S}
<1>1. 0 \in T
  OBVIOUS
<1>2. \A i \in Nat : i \in T => i + 1 \in T
  OBVIOUS
<1> HIDE DEF T
<1>3. Nat \subseteq T
  BY <1>1, <1>2, NatInduct
<1> QED
  BY <1>3 DEF T

\* A function that is given by its first value and a step has values of the same kind.
LEMMA StepTypes ==
  ASSUME NEW n \in Nat, NEW S, NEW f, DOMAIN f = 0 .. n, f = [i \in 0 .. n |-> f[i]], f[0] \in S,
         \A i \in 0 .. n - 1 : f[i] \in S => f[i + 1] \in S
  PROVE  f \in [0 .. n -> S]
<1> DEFINE T == {i \in 0 .. n : f[i] \in S}
<1>1. 0 \in T
  OBVIOUS
<1>2. ASSUME NEW i \in 0 .. n - 1, i \in T
      PROVE  i + 1 \in T
  <2>1. i + 1 \in 0 .. n /\ f[i] \in S
    BY <1>2
  <2> QED
    BY <2>1
<1> HIDE DEF T
<1>3. \A i \in 0 .. n : i \in T
  BY <1>1, <1>2, UpTo
<1>4. \A i \in 0 .. n : f[i] \in S
  BY <1>3 DEF T
<1> QED
  BY <1>4

\* What holds of the empty sequence, and of a sequence with one more element whenever it
\* holds of the sequence, holds of every sequence.
LEMMA SeqInduct ==
  ASSUME NEW S, NEW P, <<>> \in P, \A s \in Seq(S), x \in S : s \in P => Append(s, x) \in P
  PROVE  \A s \in Seq(S) : s \in P
<1> DEFINE T == {n \in Nat : \A s \in Seq(S) : Len(s) = n => s \in P}
<1>1. 0 \in T
  <2>1. \A s \in Seq(S) : Len(s) = 0 => s = <<>>
    BY EmptySeq
  <2> QED
    BY <2>1
<1>2. ASSUME NEW n \in Nat, n \in T
      PROVE  n + 1 \in T
  <2>1. ASSUME NEW s \in Seq(S), Len(s) = n + 1
        PROVE  s \in P
    <3>1. s # <<>>
      BY <2>1, EmptySeq
    <3>2. PICK r \in Seq(S), x \in S : s = Append(r, x)
      BY <3>1, SequenceEmptyOrAppend
    <3>3. Len(r) = n
      BY <2>1, <3>2, AppendProperties
    <3> QED
      BY <1>2, <3>2, <3>3
  <2> QED
    BY <2>1
<1> HIDE DEF T
<1>3. Nat \subseteq T
  BY <1>1, <1>2, NatInduct
<1> QED
  BY <1>3 DEF T

\* Elements of a joined sequence.
LEMMA Parts ==
  ASSUME NEW S, NEW s \in Seq(S), NEW t \in Seq(S)
  PROVE  /\ s \o t \in Seq(S) /\ Len(s) \in Nat /\ Len(t) \in Nat
         /\ Len(s \o t) = Len(s) + Len(t) /\ DOMAIN (s \o t) = 1 .. Len(s) + Len(t)
         /\ DOMAIN s = 1 .. Len(s) /\ DOMAIN t = 1 .. Len(t)
         /\ \A i \in 1 .. Len(s) : (s \o t)[i] = s[i] /\ s[i] \in S
         /\ \A i \in 1 .. Len(t) : (s \o t)[Len(s) + i] = t[i] /\ t[i] \in S
<1>1. Len(s) \in Nat /\ Len(t) \in Nat
  OBVIOUS
<1>2. s \o t \in Seq(S) /\ Len(s \o t) = Len(s) + Len(t)
  BY ConcatProperties
<1>3. \A i \in 1 .. Len(s) : (s \o t)[i] = s[i] /\ s[i] \in S
  <2> SUFFICES ASSUME NEW i \in 1 .. Len(s) PROVE (s \o t)[i] = s[i] /\ s[i] \in S
    OBVIOUS
  <2>1. i \in 1 .. Len(s) + Len(t) /\ i <= Len(s)
    BY <1>1
  <2> QED
    BY <2>1, ConcatProperties, ElementOfSeq
<1>4. \A i \in 1 .. Len(t) : (s \o t)[Len(s) + i] = t[i] /\ t[i] \in S
  <2> SUFFICES ASSUME NEW i \in 1 .. Len(t) PROVE (s \o t)[Len(s) + i] = t[i] /\ t[i] \in S
    OBVIOUS
  <2>1. Len(s) + i \in 1 .. Len(s) + Len(t) /\ ~(Len(s) + i <= Len(s)) /\ (Len(s) + i) - Len(s) = i
    BY <1>1
  <2> QED
    BY <2>1, ConcatProperties, ElementOfSeq
<1> QED
  BY <1>1, <1>2, <1>3, <1>4, LenProperties

\* Parts, for what is quantified in its conclusion being hidden.
HasParts(S, s, t) ==
  /\ s \o t \in Seq(S) /\ Len(s \o t) = Len(s) + Len(t)
  /\ \A i \in 1 .. Len(s) : (s \o t)[i] = s[i] /\ s[i] \in S
  /\ \A i \in 1 .. Len(t) : (s \o t)[Len(s) + i] = t[i] /\ t[i] \in S

\* Parts, with its conclusion named.
LEMMA JoinHasParts ==
  ASSUME NEW S, NEW s \in Seq(S), NEW t \in Seq(S)
  PROVE  HasParts(S, s, t)
BY Parts DEF HasParts

\* A position of a joined sequence is one of the first or one of the second.
LEMMA PartOf ==
  ASSUME NEW m \in Nat, NEW n \in Nat, NEW k \in 1 .. m + n
  PROVE  k \in 1 .. m \/ (k - m \in 1 .. n /\ k = m + (k - m))
OBVIOUS

\* What is flattened together is what is flattened one after the other.
LEMMA FlattenJoined ==
  ASSUME NEW S, NEW a \in Seq(Seq(S)), NEW b \in Seq(Seq(S))
  PROVE  /\ FlattenSeq(a) \in Seq(S) /\ FlattenSeq(b) \in Seq(S)
         /\ FlattenSeq(a \o b) = FlattenSeq(a) \o FlattenSeq(b)
<1> DEFINE P == {t \in Seq(Seq(S)) : FlattenSeq(a \o t) = FlattenSeq(a) \o FlattenSeq(t)}
<1>1. \A t \in Seq(Seq(S)) : FlattenSeq(t) \in Seq(S)
  <2> SUFFICES ASSUME NEW t \in Seq(Seq(S)) PROVE FlattenSeq(t) \in Seq(S)
    OBVIOUS
  <2>1. <<>> \in Seq(S)
    BY EmptySeq
  <2> QED
    BY <2>1, FlattenAppend
<1>2. <<>> \in P
  <2>1. <<>> \in Seq(Seq(S)) /\ a \o <<>> = a
    BY EmptySeq, ConcatEmptySeq
  <2>2. FlattenSeq(<<>>) = <<>>
    <3>1. Len(<<>>) = 0
      BY EmptySeq
    <3> QED
      BY <3>1 DEF FlattenSeq
  <2>3. FlattenSeq(a) \o <<>> = FlattenSeq(a)
    BY <1>1, ConcatEmptySeq
  <2> QED
    BY <2>1, <2>2, <2>3
<1>3. ASSUME NEW t \in Seq(Seq(S)), NEW x \in Seq(S), t \in P
      PROVE  Append(t, x) \in P
  <2>1. Append(t, x) \in Seq(Seq(S)) /\ Append(t, x) = t \o <<x>> /\ <<x>> \in Seq(Seq(S))
    BY AppendProperties, AppendIsConcat
  <2>2. a \o t \in Seq(Seq(S)) /\ a \o Append(t, x) = Append(a \o t, x)
    <3>1. a \o t \in Seq(Seq(S))
      BY ConcatProperties
    <3>2. a \o (t \o <<x>>) = (a \o t) \o <<x>>
      BY <2>1, ConcatAssociative
    <3>3. Append(a \o t, x) = (a \o t) \o <<x>>
      BY <3>1, AppendIsConcat
    <3> QED
      BY <2>1, <3>1, <3>2, <3>3
  <2>3. FlattenSeq(Append(a \o t, x)) = FlattenSeq(a \o t) \o x
    BY <2>2, FlattenAppend
  <2>4. FlattenSeq(Append(t, x)) = FlattenSeq(t) \o x
    BY FlattenAppend
  <2>5. (FlattenSeq(a) \o FlattenSeq(t)) \o x = FlattenSeq(a) \o (FlattenSeq(t) \o x)
    BY <1>1, ConcatAssociative, SMTT(30)
  <2> QED
    BY <1>3, <2>1, <2>2, <2>3, <2>4, <2>5
<1> HIDE DEF P
<1>4. b \in P
  BY <1>2, <1>3, SeqInduct
<1> QED
  BY <1>1, <1>4 DEF P

\* One element is left of one.
LEMMA FlattenOne ==
  ASSUME NEW S, NEW x \in S
  PROVE  FlattenSeq(<<<<x>>>>) = <<x>>
<1>1. <<>> \in Seq(Seq(S)) /\ <<x>> \in Seq(S) /\ <<<<x>>>> = Append(<<>>, <<x>>)
  BY EmptySeq
<1>2. FlattenSeq(<<>>) = <<>>
  <2>1. Len(<<>>) = 0
    BY EmptySeq
  <2> QED
    BY <2>1 DEF FlattenSeq
<1>3. FlattenSeq(Append(<<>>, <<x>>)) = FlattenSeq(<<>>) \o <<x>>
  BY <1>1, FlattenAppend
<1>4. <<>> \o <<x>> = <<x>>
  BY <1>1, ConcatEmptySeq
<1> QED
  BY <1>1, <1>2, <1>3, <1>4

\* How many elements of a sequence are in a set.
NumIn(s, M) == Cardinality({i \in DOMAIN s : s[i] \in M})

\* Each element counts for itself.
LEMMA NumInAppend ==
  ASSUME NEW S, NEW s \in Seq(S), NEW x \in S, NEW M
  PROVE  NumIn(s, M) \in Nat /\ NumIn(Append(s, x), M) = NumIn(s, M) + (IF x \in M THEN 1 ELSE 0)
<1> DEFINE n == Len(s)
           longer == Append(s, x)
           A == {i \in 1 .. n : s[i] \in M}
           B == {i \in 1 .. n + 1 : longer[i] \in M}
<1>1. /\ n \in Nat /\ DOMAIN s = 1 .. n /\ DOMAIN longer = 1 .. n + 1
      /\ longer[n + 1] = x /\ \A i \in 1 .. n : longer[i] = s[i]
  <2>1. longer \in Seq(S) /\ Len(longer) = n + 1
    BY AppendProperties
  <2> QED
    BY <2>1, AppendProperties, LenProperties
<1>2. IsFiniteSet(A) /\ Cardinality(A) \in Nat
  <2>1. IsFiniteSet(1 .. n) /\ A \in SUBSET (1 .. n)
    BY <1>1, FS_Interval
  <2>2. IsFiniteSet(A)
    BY <2>1, FS_Subset
  <2> QED
    BY <2>2, FS_CardinalityType
<1>3. NumIn(s, M) = Cardinality(A) /\ NumIn(longer, M) = Cardinality(B)
  BY <1>1 DEF NumIn
<1> HIDE DEF longer, n
<1>4. \A i \in 1 .. n + 1 : i \in 1 .. n \/ i = n + 1
  BY <1>1
<1>5. 1 .. n \subseteq 1 .. n + 1 /\ n + 1 \in 1 .. n + 1 /\ n + 1 \notin 1 .. n
  BY <1>1
<1>6. CASE x \in M
  <2>1. B = A \cup {n + 1} /\ n + 1 \notin A
    BY <1>1, <1>4, <1>5, <1>6
  <2> QED
    BY <1>2, <1>3, <1>6, <2>1, FS_AddElement DEF longer
<1>7. CASE x \notin M
  <2>1. B = A
    BY <1>1, <1>4, <1>5, <1>7
  <2>2. (IF x \in M THEN 1 ELSE 0) = 0
    BY <1>7
  <2> HIDE DEF A, B
  <2>3. NumIn(longer, M) = NumIn(s, M) + 0
    BY <1>2, <1>3, <2>1
  <2> QED
    BY <1>2, <1>3, <2>2, <2>3 DEF longer
<1> QED
  BY <1>6, <1>7

\* The number of a joined sequence is the sum.
LEMMA NumInJoined ==
  ASSUME NEW S, NEW s \in Seq(S), NEW t \in Seq(S), NEW M
  PROVE  /\ NumIn(s, M) \in Nat /\ NumIn(t, M) \in Nat
         /\ NumIn(s \o t, M) = NumIn(s, M) + NumIn(t, M)
<1> DEFINE P == {r \in Seq(S) : NumIn(r, M) \in Nat /\ NumIn(s \o r, M) = NumIn(s, M) + NumIn(r, M)}
<1>1. NumIn(<<>>, M) = 0
  <2>1. DOMAIN <<>> = {}
    OBVIOUS
  <2> QED
    BY <2>1, FS_EmptySet DEF NumIn
<1>2. \A r \in Seq(S) : NumIn(r, M) \in Nat
  <2> DEFINE Q == {r \in Seq(S) : NumIn(r, M) \in Nat}
  <2>1. <<>> \in Q
    BY <1>1, EmptySeq
  <2>2. ASSUME NEW r \in Seq(S), NEW x \in S, r \in Q
        PROVE  Append(r, x) \in Q
    BY NumInAppend, AppendProperties
  <2> HIDE DEF Q
  <2>3. \A r \in Seq(S) : r \in Q
    BY <2>1, <2>2, SeqInduct
  <2> QED
    BY <2>3 DEF Q
<1>3. <<>> \in P
  BY <1>1, <1>2, EmptySeq, ConcatEmptySeq
<1>4. ASSUME NEW r \in Seq(S), NEW x \in S, r \in P
      PROVE  Append(r, x) \in P
  <2>1. Append(r, x) \in Seq(S) /\ Append(r, x) = r \o <<x>> /\ <<x>> \in Seq(S)
    BY AppendProperties, AppendIsConcat
  <2>2. s \o r \in Seq(S) /\ s \o Append(r, x) = Append(s \o r, x)
    <3>1. s \o r \in Seq(S)
      BY ConcatProperties
    <3>2. s \o (r \o <<x>>) = (s \o r) \o <<x>>
      BY <2>1, ConcatAssociative
    <3>3. Append(s \o r, x) = (s \o r) \o <<x>>
      BY <3>1, AppendIsConcat
    <3> QED
      BY <2>1, <3>1, <3>2, <3>3
  <2> DEFINE one == IF x \in M THEN 1 ELSE 0
  <2>3. NumIn(Append(s \o r, x), M) = NumIn(s \o r, M) + one
    BY <2>2, NumInAppend
  <2>4. NumIn(Append(r, x), M) = NumIn(r, M) + one /\ one \in Nat
    BY NumInAppend
  <2>5. NumIn(s, M) \in Nat /\ NumIn(r, M) \in Nat
    BY <1>2
  <2>6. NumIn(s \o r, M) = NumIn(s, M) + NumIn(r, M)
    BY <1>4
  <2> HIDE DEF one
  <2>7. NumIn(s \o Append(r, x), M) = NumIn(s, M) + NumIn(Append(r, x), M)
    BY <2>2, <2>3, <2>4, <2>5, <2>6
  <2> QED
    BY <1>2, <2>1, <2>7
<1> HIDE DEF P
<1>5. t \in P
  BY <1>3, <1>4, SeqInduct
<1> QED
  BY <1>2, <1>5 DEF P

\* The first k sequences, one after the other.
Flat(seqs, k) == FlattenSeq(SubSeq(seqs, 1, k))

\* One more sequence is added at the end.
LEMMA FlatGrows ==
  ASSUME NEW S, NEW seqs \in Seq(Seq(S)), NEW k \in 1 .. Len(seqs)
  PROVE  /\ Flat(seqs, k - 1) \in Seq(S) /\ seqs[k] \in Seq(S)
         /\ Flat(seqs, k) = Flat(seqs, k - 1) \o seqs[k]
<1> DEFINE front == SubSeq(seqs, 1, k - 1)
           last == seqs[k]
<1>1. last \in Seq(S) /\ k \in Nat /\ 1 \in 1 .. Len(seqs) /\ k \in 1 .. Len(seqs)
  OBVIOUS
<1>2. front \in Seq(Seq(S))
  <2>1. \A i \in 1 .. k - 1 : seqs[i] \in Seq(S)
    <3>1. \A i \in 1 .. k - 1 : i \in 1 .. Len(seqs)
      OBVIOUS
    <3> QED
      BY <3>1
  <2>2. 1 \in Int /\ k - 1 \in Int
    BY <1>1
  <2> QED
    BY <2>1, <2>2, SubSeqProperties
<1>3. SubSeq(seqs, 1, k) = front \o <<last>>
  BY <1>1, SubSeqRecursiveSecond
<1> HIDE DEF front, last
<1>4. front \o <<last>> = Append(front, last)
  BY <1>1, <1>2, AppendIsConcat
<1>5. FlattenSeq(Append(front, last)) = FlattenSeq(front) \o last /\ FlattenSeq(front) \in Seq(S)
  BY <1>1, <1>2, FlattenAppend
<1>6. FlattenSeq(SubSeq(seqs, 1, k)) = FlattenSeq(front) \o last
  BY <1>3, <1>4, <1>5
<1> QED
  BY <1>1, <1>5, <1>6 DEF Flat, front, last

\* None of the sequences, and all of them.
LEMMA FlatEnds ==
  ASSUME NEW S, NEW seqs \in Seq(Seq(S))
  PROVE  Flat(seqs, 0) = <<>> /\ Flat(seqs, Len(seqs)) = FlattenSeq(seqs)
<1>1. SubSeq(seqs, 1, 0) = <<>> /\ SubSeq(seqs, 1, Len(seqs)) = seqs
  BY SubSeqEmpty, SubSeqFull
<1>2. Len(<<>>) = 0
  BY EmptySeq
<1>3. FlattenSeq(<<>>) = <<>>
  BY <1>2 DEF FlattenSeq
<1> QED
  BY <1>1, <1>3 DEF Flat

\* The brackets of joined sequences.
Regroups(w, a, v, x) ==
  /\ (w \o (a \o v)) \o x = w \o (a \o (v \o x))
  /\ (w \o (a \o v)) \o x = w \o ((a \o v) \o x)

\* Joining is associative, for four sequences.
LEMMA Regroup ==
  ASSUME NEW S, NEW w \in Seq(S), NEW a \in Seq(S), NEW v \in Seq(S), NEW x \in Seq(S)
  PROVE  Regroups(w, a, v, x) /\ v \o x \in Seq(S) /\ a \o v \in Seq(S)
<1>1. v \o x \in Seq(S) /\ a \o v \in Seq(S)
  BY ConcatProperties
<1>2. (a \o v) \o x = a \o (v \o x)
  BY ConcatAssociative, SMTT(30)
<1>3. (w \o (a \o v)) \o x = w \o ((a \o v) \o x)
  <2> DEFINE av == a \o v
  <2>1. av \in Seq(S)
    BY <1>1
  <2> HIDE DEF av
  <2>2. (w \o av) \o x = w \o (av \o x)
    BY <2>1, ConcatAssociative, SMTT(30)
  <2> QED
    BY <2>2 DEF av
<1> QED
  BY <1>1, <1>2, <1>3 DEF Regroups

\* None of the elements in M are in a sequence joined of two without them.
LEMMA NoneJoined ==
  ASSUME NEW S, NEW s \in Seq(S), NEW t \in Seq(S), NEW M, HasNone(s, M), HasNone(t, M)
  PROVE  HasNone(s \o t, M)
BY JoinedIn

\* None of the elements in M are in a sequence of one that is not in M.
LEMMA NoneOfOne ==
  ASSUME NEW M, NEW x, x \notin M
  PROVE  HasNone(<<x>>, M)
BY DEF HasNone

\* A set of numbers up to a bound has a greatest element.
LEMMA GreatestElement ==
  ASSUME NEW n \in Nat, NEW T \in SUBSET (1 .. n), T # {}
  PROVE  \E x \in T : \A y \in T : x >= y
<1> DEFINE J == {n - x : x \in T}
<1>1. J \in SUBSET Nat /\ J # {}
  <2>1. \A x \in T : x \in 1 .. n /\ n - x \in Nat
    OBVIOUS
  <2> QED
    BY <2>1
<1>2. PICK j \in J : \A k \in J : j <= k
  BY <1>1, LeastElement
<1>3. PICK x \in T : j = n - x
  OBVIOUS
<1>4. ASSUME NEW y \in T PROVE x >= y
  <2>1. n - y \in J
    OBVIOUS
  <2> HIDE DEF J
  <2>2. j <= n - y
    BY <1>2, <2>1
  <2> QED
    BY <1>3, <2>2
<1> QED
  BY <1>4

\* Appending shows in the length and at the end.
LEMMA AppendIsLonger ==
  ASSUME NEW S, NEW s \in Seq(S), NEW x \in S
  PROVE  /\ Append(s, x) \in Seq(S) /\ Append(s, x) # <<>>
         /\ Len(Append(s, x)) = Len(s) + 1 /\ Last(Append(s, x)) = x
         /\ s = <<>> => Append(s, x)[1] = x
         /\ s # <<>> => Append(s, x)[1] = s[1]
BY DEF Last

\* Appending behind.
LEMMA AppendedBehind ==
  ASSUME NEW S, NEW r \in Seq(S), NEW s \in Seq(S), NEW x \in S
  PROVE  /\ r \o s \in Seq(S) /\ Append(r \o s, x) \in Seq(S)
         /\ r \o Append(s, x) = Append(r \o s, x)
<1>1. r \o s \in Seq(S) /\ <<x>> \in Seq(S)
  OBVIOUS
<1>2. Append(s, x) = s \o <<x>> /\ Append(r \o s, x) = (r \o s) \o <<x>>
  BY <1>1, AppendIsConcat
<1>3. (r \o s) \o <<x>> = r \o (s \o <<x>>)
  BY <1>1, ConcatAssociative, SMTT(30)
<1>4. Append(r \o s, x) \in Seq(S)
  BY <1>1, AppendProperties
<1> QED
  BY <1>1, <1>2, <1>3, <1>4

\* What comes behind is longer.
LEMMA LongerBehind ==
  ASSUME NEW S, NEW r \in Seq(S), NEW t \in Seq(S), t # <<>>
  PROVE  Len(r \o t) > Len(r)
<1> DEFINE lr == Len(r)
           lt == Len(t)
<1>1. lr \in Nat /\ lt \in Nat /\ lt # 0 /\ Len(r \o t) = lr + lt
  BY EmptySeq
<1> HIDE DEF lr, lt
<1>2. lr + lt > lr
  BY <1>1
<1> QED
  BY <1>1, <1>2 DEF lr

=============================================================================
