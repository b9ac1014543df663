--------------------------- MODULE RecursionProofs ---------------------------
(***************************************************************************)
(* Recursion and induction over numbers and sequences.  The step of a      *)
(* recursion is a function, and the claim of an induction a set, so that   *)
(* what follows speaks of values only.                                     *)
(***************************************************************************)
EXTENDS Integers, Sequences, SequenceTheorems, WellFoundedInduction, TLAPS

\* What holds of 0, and of n + 1 when it holds of n, holds of every number.
LEMMA NumberInduction ==
    ASSUME NEW A, 0 \in A, \A n \in Nat : n \in A => n + 1 \in A
    PROVE  Nat \subseteq A
<1> DEFINE T == Nat \ A
<1> SUFFICES ASSUME T # {} PROVE FALSE
  OBVIOUS
<1>1. PICK n \in T : \A m \in T : ~ (<<m, n>> \in OpToRel(<, Nat))
  BY NatLessThanWellFounded, WFMin
<1>2. \A m \in T : ~(m < n)
  BY <1>1 DEF OpToRel
<1>3. n \in Nat /\ n # 0
  BY <1>1
<1>4. n - 1 \in Nat /\ n - 1 < n /\ (n - 1) + 1 = n
  BY <1>3
<1>5. n - 1 \in A
  BY <1>2, <1>4
<1>6. QED
  BY <1>1, <1>4, <1>5

\* What holds of <<>>, and of a sequence when it holds of its tail, holds of
\* every sequence.
LEMMA SequenceInduction ==
    ASSUME NEW S, NEW A, <<>> \in A, \A q \in Seq(S) : q # <<>> /\ Tail(q) \in A => q \in A
    PROVE  Seq(S) \subseteq A
<1> DEFINE Short == {n \in Nat : \A q \in Seq(S) : Len(q) = n => q \in A}
<1>1. 0 \in Short
  <2>1. \A q \in Seq(S) : Len(q) = 0 => q = <<>>
    OBVIOUS
  <2>2. QED
    BY <2>1
<1>2. ASSUME NEW n \in Nat, n \in Short
      PROVE  n + 1 \in Short
  <2>1. ASSUME NEW q \in Seq(S), Len(q) = n + 1
        PROVE  q \in A
    <3>1. q # <<>> /\ Tail(q) \in Seq(S) /\ Len(Tail(q)) = n
      BY <2>1
    <3>2. Tail(q) \in A
      BY <1>2, <3>1
    <3>3. QED
      BY <3>1, <3>2
  <2>2. QED
    BY <2>1
<1>3. Nat \subseteq Short
  <2> HIDE DEF Short
  <2>1. QED
    BY <1>1, <1>2, NumberInduction
<1>4. \A q \in Seq(S) : Len(q) \in Nat
  OBVIOUS
<1>5. QED
  BY <1>3, <1>4

Steps(D, R) == [D \X R -> R]

\* f is what `step' makes of `base'
Counts(R, base, step, f) ==
    f \in [Nat -> R] /\ f[0] = base /\ \A n \in Nat : f[n + 1] = step[<<n, f[n]>>]

Walks(S, R, base, step, f) ==
    /\ f \in [Seq(S) -> R]
    /\ \A q \in Seq(S) : f[q] = IF q = <<>> THEN base ELSE step[<<q, f[Tail(q)]>>]

\* Primitive recursion defines a function.
LEMMA NumberRecursion ==
    ASSUME NEW R, NEW base \in R, NEW step \in Steps(Nat, R)
    PROVE  \E f : Counts(R, base, step, f)
<1> DEFINE Begun(n) ==
               {h \in [0 .. n -> R] : h[0] = base /\ \A i \in 0 .. n - 1 : h[i + 1] = step[<<i, h[i]>>]}
           Begins == {n \in Nat : Begun(n) # {}}
           Agree == {i \in Nat : \A m, n \in Nat : i <= m /\ i <= n =>
                        \A h \in Begun(m), g \in Begun(n) : h[i] = g[i]}
           any(n) == CHOOSE h \in Begun(n) : TRUE
           f == [n \in Nat |-> any(n)[n]]
<1> USE DEF Steps
<1>1. 0 \in Begins
  <2>1. [i \in 0 .. 0 |-> base] \in Begun(0)
    OBVIOUS
  <2>2. QED
    BY <2>1
<1>2. ASSUME NEW n \in Nat, n \in Begins
      PROVE  n + 1 \in Begins
  <2>1. PICK h : h \in Begun(n)
    BY <1>2
  <2> DEFINE g == [i \in 0 .. n + 1 |-> IF i = n + 1 THEN step[<<n, h[n]>>] ELSE h[i]]
  <2>2. h[n] \in R
    BY <2>1
  <2>3. step[<<n, h[n]>>] \in R
    BY <2>2
  <2>4. g \in [0 .. n + 1 -> R] /\ g[0] = base
    BY <2>1, <2>3
  <2>5. ASSUME NEW i \in 0 .. (n + 1) - 1
        PROVE  g[i + 1] = step[<<i, g[i]>>]
    <3>1. CASE i = n
      <4>1. i + 1 = n + 1 /\ i + 1 \in 0 .. n + 1 /\ i \in 0 .. n + 1 /\ i # n + 1
        BY <3>1
      <4>2. g[i + 1] = step[<<n, h[n]>>] /\ g[i] = h[i]
        BY <4>1
      <4>3. QED
        BY <3>1, <4>2
    <3>2. CASE i # n
      <4>1. i \in 0 .. n - 1 /\ i + 1 \in 0 .. n + 1 /\ i + 1 # n + 1 /\ i # n + 1 /\ i \in 0 .. n + 1
        BY <3>2
      <4>2. g[i + 1] = h[i + 1] /\ g[i] = h[i]
        BY <4>1
      <4>3. QED
        BY <2>1, <4>1, <4>2
    <3>3. QED
      BY <3>1, <3>2
  <2>6. g \in Begun(n + 1)
    <3> HIDE DEF g
    <3>1. QED
      BY <2>4, <2>5
  <2>7. QED
    <3> HIDE DEF g, Begun
    <3>1. QED
      BY <2>6
<1>3. 0 \in Agree
  OBVIOUS
<1>4. ASSUME NEW i \in Nat, i \in Agree
      PROVE  i + 1 \in Agree
  <2>1. ASSUME NEW m \in Nat, NEW n \in Nat, i + 1 <= m, i + 1 <= n, NEW h \in Begun(m), NEW g \in Begun(n)
        PROVE  h[i + 1] = g[i + 1]
    <3>1. i <= m /\ i <= n /\ i \in 0 .. m - 1 /\ i \in 0 .. n - 1
      BY <2>1
    <3>2. h[i] = g[i]
      <4> HIDE DEF Begun
      <4>1. QED
        BY <1>4, <2>1, <3>1
    <3>3. h[i + 1] = step[<<i, h[i]>>]
      BY <3>1
    <3>4. g[i + 1] = step[<<i, g[i]>>]
      BY <3>1
    <3>5. QED
      BY <3>2, <3>3, <3>4
  <2>2. QED
    <3> HIDE DEF Begun
    <3>1. QED
      BY <2>1
<1>5. Nat \subseteq Begins
  <2> HIDE DEF Begins
  <2>1. QED
    BY <1>1, <1>2, NumberInduction
<1>6. Nat \subseteq Agree
  <2> HIDE DEF Agree
  <2>1. QED
    BY <1>3, <1>4, NumberInduction
<1>7. ASSUME NEW n \in Nat
      PROVE  \E h \in Begun(n) : f[n] = h[n]
  <2>1. any(n) \in Begun(n)
    <3> HIDE DEF Begun
    <3>1. QED
      BY <1>5
  <2>2. f[n] = any(n)[n]
    <3> HIDE DEF any
    <3>1. QED
      OBVIOUS
  <2>3. QED
    <3> HIDE DEF any, Begun, f
    <3>1. QED
      BY <2>1, <2>2
<1>8. f \in [Nat -> R]
  BY <1>7
<1>9. f[0] = base
  BY <1>7
<1>10. ASSUME NEW n \in Nat
       PROVE  f[n + 1] = step[<<n, f[n]>>]
  <2>1. PICK h \in Begun(n + 1) : f[n + 1] = h[n + 1]
    <3>1. n + 1 \in Nat
      OBVIOUS
    <3>2. QED
      <4> HIDE DEF Begun, f
      <4>1. QED
        BY <1>7, <3>1
  <2>2. PICK g \in Begun(n) : f[n] = g[n]
    <3> HIDE DEF Begun, f
    <3>1. QED
      BY <1>7
  <2>3. h[n] = g[n]
    <3>1. n \in Agree
      <4> HIDE DEF Agree
      <4>1. QED
        BY <1>6
    <3>2. n <= n /\ n <= n + 1 /\ n + 1 \in Nat
      OBVIOUS
    <3>3. QED
      <4> HIDE DEF Begun
      <4>1. QED
        BY <3>1, <3>2
  <2>4. n \in 0 .. (n + 1) - 1
    OBVIOUS
  <2>5. h[n + 1] = step[<<n, h[n]>>]
    BY <2>4
  <2>6. QED
    <3> HIDE DEF f, Begun
    <3>1. QED
      BY <2>1, <2>2, <2>3, <2>5
<1>11. QED
  <2> HIDE DEF f
  <2>1. QED
    BY <1>8, <1>9, <1>10 DEF Counts

\* So does recursion along the tails of a sequence.
LEMMA SequenceRecursion ==
    ASSUME NEW S, NEW R, NEW base \in R, NEW step \in Steps(Seq(S), R)
    PROVE  \E f : Walks(S, R, base, step, f)
<1> DEFINE Part == [Seq(S) -> R]
           first == [q \in Seq(S) |-> base]
           more(g) == [q \in Seq(S) |-> IF q = <<>> THEN base ELSE step[<<q, g[Tail(q)]>>]]
           next == [x \in Nat \X Part |-> more(x[2])]
<1>1. \A q \in Seq(S) : q # <<>> => Tail(q) \in Seq(S) /\ Len(q) \in Nat /\ Len(q) = Len(Tail(q)) + 1
  OBVIOUS
<1>2. ASSUME NEW g \in Part
      PROVE  more(g) \in Part
  BY <1>1 DEF Steps
<1>3. first \in Part
  OBVIOUS
<1>4. next \in Steps(Nat, Part)
  <2> HIDE DEF Part, more
  <2>1. QED
    BY <1>2 DEF Steps
<1>5. PICK h : Counts(Part, first, next, h)
  <2> HIDE DEF Part, first, more, next
  <2>1. QED
    BY <1>3, <1>4, NumberRecursion
<1>6. \A n \in Nat : h[n + 1] = more(h[n])
  <2> HIDE DEF Part, more
  <2>1. QED
    BY <1>5 DEF Counts
<1> DEFINE f == [q \in Seq(S) |-> h[Len(q)][q]]
<1>7. \A q \in Seq(S) : Len(q) \in Nat
  OBVIOUS
<1>8. f \in [Seq(S) -> R]
  BY <1>5, <1>7 DEF Counts
<1>9. ASSUME NEW q \in Seq(S)
      PROVE  f[q] = IF q = <<>> THEN base ELSE step[<<q, f[Tail(q)]>>]
  <2>1. CASE q = <<>>
    <3>1. Len(q) = 0
      BY <2>1
    <3>2. f[q] = first[q]
      BY <1>5, <3>1 DEF Counts
    <3>3. QED
      BY <2>1, <3>2
  <2>2. CASE q # <<>>
    <3>1. Tail(q) \in Seq(S) /\ Len(Tail(q)) \in Nat /\ Len(q) = Len(Tail(q)) + 1
      BY <1>1, <1>7, <2>2
    <3>2. h[Len(q)] = more(h[Len(Tail(q))])
      <4> HIDE DEF more
      <4>1. QED
        BY <1>6, <3>1
    <3>3. more(h[Len(Tail(q))])[q] = step[<<q, h[Len(Tail(q))][Tail(q)]>>]
      BY <2>2
    <3>4. f[q] = h[Len(q)][q] /\ f[Tail(q)] = h[Len(Tail(q))][Tail(q)]
      BY <3>1
    <3>5. QED
      BY <2>2, <3>2, <3>3, <3>4
  <2>3. QED
    BY <2>1, <2>2
<1>10. QED
  <2> HIDE DEF f
  <2>1. QED
    BY <1>8, <1>9 DEF Walks
=============================================================================
