--------------------------- MODULE SequenceProofs ---------------------------
(* Induction over numbers and over sequences, and what a fold of a sequence  *)
(* is, for a recursive function over its length.  The library's induction    *)
(* theorems are about an operator, which a proof cannot give them; these are *)
(* about a set, the one of all that has a property.                          *)
EXTENDS Integers, Sequences, SequenceTheorems, WellFoundedInduction, TLAPS

NatOrder == {ss \in Nat \X Nat : ss[1] < ss[2]}

\* Induction over the natural numbers, for a set of them.
LEMMA SetInduction ==
  ASSUME NEW S, 0 \in S, \A n \in Nat : n \in S => n + 1 \in S
  PROVE  Nat \subseteq S
<1> DEFINE T == {n \in Nat : n \notin S}
<1>1. SUFFICES ASSUME T # {} PROVE FALSE
  OBVIOUS
<1>2. T \subseteq Nat
  OBVIOUS
<1>3. IsWellFoundedOn(NatOrder, Nat)
  BY NatLessThanWellFounded DEF NatOrder, OpToRel
<1>4. PICK x \in T : \A y \in T : ~ (<<y, x>> \in NatOrder)
  <2> HIDE DEF T
  <2> QED BY ONLY <1>1, <1>2, <1>3, WFMin
<1>5. x \in Nat /\ x # 0 /\ x \notin S
  BY <1>4
<1>6. x - 1 \in T
  BY <1>5
<1>7. <<x - 1, x>> \in NatOrder
  BY <1>5 DEF NatOrder
<1>. QED BY <1>4, <1>6, <1>7

\* Induction over sequences.
LEMMA SeqInduction ==
  ASSUME NEW R, NEW S, <<>> \in S, \A s \in Seq(R), r \in R : s \in S => Append(s, r) \in S
  PROVE  Seq(R) \subseteq S
<1> DEFINE L == {n \in Nat : \A s \in Seq(R) : Len(s) = n => s \in S}
<1>1. 0 \in L
  BY EmptySeq
<1>2. ASSUME NEW n \in Nat, n \in L
      PROVE  n + 1 \in L
  <2>1. SUFFICES ASSUME NEW s \in Seq(R), Len(s) = n + 1 PROVE s \in S
    BY <1>2
  <2>2. /\ SubSeq(s, 1, n) \in Seq(R) /\ Len(SubSeq(s, 1, n)) = n
        /\ s[n + 1] \in R /\ s = Append(SubSeq(s, 1, n), s[n + 1])
    BY <2>1
  <2>3. SubSeq(s, 1, n) \in S
    BY <1>2, <2>2
  <2>4. QED
    BY <2>2, <2>3
<1>3. Nat \subseteq L
  <2> HIDE DEF L
  <2> QED BY <1>1, <1>2, SetInduction
<1>4. QED
  BY <1>3

\* What a fold has for each prefix of a sequence.
IsFold(f, base, step, s) ==
  /\ f[0] = base
  /\ \A i \in 1..Len(s) : f[i] = step[<<f[i - 1], s[i]>>]

\* The same, for what is known to be of type V.
IsFoldIn(V, f, base, step, s) ==
  /\ f[0] = base
  /\ \A i \in 1..Len(s) : f[i - 1] \in V => f[i] = step[<<f[i - 1], s[i]>>]

\* There is such a function...
LEMMA FoldExists ==
  ASSUME NEW R, NEW V, NEW base \in V, NEW step \in [V \X R -> V], NEW s \in Seq(R)
  PROVE  \E f \in [0..Len(s) -> V] : IsFold(f, base, step, s)
<1> DEFINE S == {t \in Seq(R) : \E f \in [0..Len(t) -> V] : IsFold(f, base, step, t)}
<1>1. <<>> \in S
  <2> DEFINE f == [i \in 0..0 |-> base]
  <2>1. Len(<<>>) = 0 /\ <<>> \in Seq(R)
    BY EmptySeq
  <2>2. f \in [0..Len(<<>>) -> V] /\ f[0] = base
    BY <2>1
  <2>3. IsFold(f, base, step, <<>>)
    BY <2>1, <2>2 DEF IsFold
  <2> HIDE DEF f
  <2>4. QED
    BY <2>1, <2>2, <2>3
<1>2. ASSUME NEW t \in Seq(R), NEW r \in R, t \in S
      PROVE  Append(t, r) \in S
  <2>1. PICK f \in [0..Len(t) -> V] : IsFold(f, base, step, t)
    BY <1>2
  <2> DEFINE n == Len(t)
             g == [i \in 0..n + 1 |-> IF i = n + 1 THEN step[<<f[n], r>>] ELSE f[i]]
             u == Append(t, r)
  <2>2. /\ u \in Seq(R) /\ Len(u) = n + 1 /\ n \in Nat /\ u[n + 1] = r
        /\ \A i \in 1..n : u[i] = t[i] /\ t[i] \in R
    OBVIOUS
  <2>3. step[<<f[n], r>>] \in V
    OBVIOUS
  <2> HIDE DEF u
  <2>4. g \in [0..Len(u) -> V]
    BY <2>2, <2>3
  <2>5. g[0] = base
    BY <2>1, <2>2 DEF IsFold
  <2>6. ASSUME NEW i \in 1..Len(u)
        PROVE  g[i] = step[<<g[i - 1], u[i]>>]
    <3>1. CASE i = n + 1
      <4>1. g[i] = step[<<f[n], r>>] /\ g[i - 1] = f[n] /\ u[i] = r
        BY <2>2, <3>1
      <4>2. QED
        BY <4>1
    <3>2. CASE i # n + 1
      <4>1. i \in 1..n
        BY <2>2, <3>2
      <4>2. g[i] = f[i] /\ g[i - 1] = f[i - 1] /\ u[i] = t[i]
        BY <2>2, <4>1
      <4>3. f[i] = step[<<f[i - 1], t[i]>>]
        BY <2>1, <4>1 DEF IsFold
      <4>4. QED
        BY <4>2, <4>3
    <3>3. QED
      BY <3>1, <3>2
  <2> HIDE DEF g
  <2>7. IsFold(g, base, step, u)
    BY <2>5, <2>6 DEF IsFold
  <2>8. u \in S
    BY <2>2, <2>4, <2>7
  <2>9. QED
    BY <2>8 DEF u
<1>3. Seq(R) \subseteq S
  <2> HIDE DEF S
  <2> QED BY <1>1, <1>2, SeqInduction
<1>4. QED
  BY <1>3

\* ... whatever it is, its values are of the type of the fold...
LEMMA FoldTyped ==
  ASSUME NEW R, NEW V, NEW base \in V, NEW step \in [V \X R -> V], NEW s \in Seq(R), NEW f,
         IsFoldIn(V, f, base, step, s)
  PROVE  IsFold(f, base, step, s) /\ \A i \in 0..Len(s) : f[i] \in V
<1> DEFINE S == {i \in Nat : i <= Len(s) => f[i] \in V}
<1>1. 0 \in S
  BY DEF IsFoldIn
<1>2. ASSUME NEW i \in Nat, i \in S
      PROVE  i + 1 \in S
  <2>1. SUFFICES ASSUME i + 1 <= Len(s) PROVE f[i + 1] \in V
    OBVIOUS
  <2>2. f[i] \in V /\ i + 1 \in 1..Len(s) /\ (i + 1) - 1 = i /\ s[i + 1] \in R
    BY <1>2, <2>1
  <2>3. f[i + 1] = step[<<f[i], s[i + 1]>>]
    BY <2>2 DEF IsFoldIn
  <2>4. QED
    BY <2>2, <2>3
<1>3. Nat \subseteq S
  <2> HIDE DEF S
  <2> QED BY <1>1, <1>2, SetInduction
<1>4. \A i \in 0..Len(s) : f[i] \in V
  BY <1>3
<1>5. QED
  BY <1>4 DEF IsFold, IsFoldIn

\* ... and one element more takes one step more.
LEMMA FoldAppend ==
  ASSUME NEW R, NEW base, NEW step, NEW s \in Seq(R), NEW r \in R, NEW f, NEW g,
         IsFold(f, base, step, s), IsFold(g, base, step, Append(s, r))
  PROVE  g[Len(s) + 1] = step[<<f[Len(s)], r>>]
<1> DEFINE S == {i \in Nat : i <= Len(s) => g[i] = f[i]}
           u == Append(s, r)
<1>1. /\ Len(s) \in Nat /\ u[Len(s) + 1] = r /\ \A i \in 1..Len(s) : u[i] = s[i]
      /\ Len(u) = Len(s) + 1
  OBVIOUS
<1>2. IsFold(g, base, step, u)
  OBVIOUS
<1> HIDE DEF u
<1>3. 0 \in S
  BY <1>2 DEF IsFold
<1>4. ASSUME NEW i \in Nat, i \in S
      PROVE  i + 1 \in S
  <2>1. SUFFICES ASSUME i + 1 <= Len(s) PROVE g[i + 1] = f[i + 1]
    OBVIOUS
  <2>2. g[i] = f[i] /\ i + 1 \in 1..Len(s) /\ i + 1 \in 1..Len(u) /\ (i + 1) - 1 = i
    BY <1>1, <1>4, <2>1
  <2>3. g[i + 1] = step[<<g[i], u[i + 1]>>] /\ f[i + 1] = step[<<f[i], s[i + 1]>>]
    BY <1>2, <2>2 DEF IsFold
  <2>4. QED
    BY <1>1, <2>2, <2>3
<1>5. Nat \subseteq S
  <2> HIDE DEF S
  <2> QED BY <1>3, <1>4, SetInduction
<1>6. g[Len(s)] = f[Len(s)]
  BY <1>1, <1>5
<1>7. Len(s) + 1 \in 1..Len(u) /\ (Len(s) + 1) - 1 = Len(s)
  BY <1>1
<1>8. g[Len(s) + 1] = step[<<g[Len(s)], u[Len(s) + 1]>>]
  BY <1>2, <1>7 DEF IsFold
<1>9. QED
  BY <1>1, <1>6, <1>8
=============================================================================
