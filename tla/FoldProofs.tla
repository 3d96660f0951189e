------------------------------ MODULE FoldProofs -----------------------------
(***************************************************************************)
(* FoldLeft over sequences of every length: what it is for the empty       *)
(* sequence and for one item more, over a concatenation, and which set it  *)
(* stays in. The path functions fold over the tokens of a text, each of    *)
(* them an instance of this module with its own Op.                        *)
(*                                                                         *)
(* Induction is over sets, which are values, rather than over predicates:  *)
(* a set of numbers that holds 0 and, with n, n + 1 holds all of them,     *)
(* since the others would have a least one.                                *)
(***************************************************************************)
EXTENDS Integers, Sequences, SequencesExt, SequenceTheorems, WellFoundedInduction, TLAPS

CONSTANT Op(_, _)  (* what one more item does to what there is            *)

Fold(base, seq) == FoldLeft(Op, base, seq)

\* Less-than on the naturals, as a relation of pairs.
LEMMA BelowIsWellFounded ==
  \E R : IsWellFoundedOn(R, Nat) /\ \A x, y \in Nat : y < x => <<y, x>> \in R
<1> DEFINE R == OpToRel(<, Nat)
<1>1. IsWellFoundedOn(R, Nat)
  BY NatLessThanWellFounded, Zenon
<1>2. R = {ss \in Nat \X Nat : ss[1] < ss[2]}
  BY Zenon DEF OpToRel
<1>3. \A x, y \in Nat : y < x => <<y, x>> \in R
   <2> HIDE DEF R
   <2> QED
     BY <1>2
<1> HIDE DEF R
<1> QED
  BY <1>1, <1>3

\* Induction over the naturals.
LEMMA SetInduction ==
  ASSUME NEW S, 0 \in S, \A n \in S \cap Nat : n + 1 \in S
  PROVE  Nat \subseteq S
<1> DEFINE T == Nat \ S
<1> SUFFICES ASSUME T # {} PROVE FALSE
  OBVIOUS
<1>1. PICK R : IsWellFoundedOn(R, Nat) /\ \A x, y \in Nat : y < x => <<y, x>> \in R
  BY BelowIsWellFounded
<1>2. \E x \in T : \A y \in T : ~ (<<y, x>> \in R)
  <2>1. T \subseteq Nat
    OBVIOUS
  <2> HIDE DEF T
  <2> QED
    BY <1>1, <2>1, WFMin
<1>3. PICK x \in T : \A y \in T : ~ (<<y, x>> \in R)
  BY <1>2
<1>4. x # 0 /\ x \in Nat
  OBVIOUS
<1>5. x - 1 \in Nat /\ x - 1 < x
  BY <1>4
<1>6. x - 1 \notin T
  BY <1>3, <1>5, <1>4, <1>1
<1>7. x - 1 \in S
  BY <1>5, <1>6
<1>8. (x - 1) + 1 \in S
  BY <1>7, <1>5
<1> QED
  BY <1>8, <1>4

\* Induction over the sequences of X, by appending.
LEMMA SeqInduction ==
  ASSUME NEW X, NEW T, <<>> \in T, \A s \in Seq(X) \cap T, e \in X : Append(s, e) \in T
  PROVE  Seq(X) \subseteq T
<1> DEFINE S == {n \in Nat : \A s \in Seq(X) : Len(s) = n => s \in T}
<1>1. 0 \in S
  BY EmptySeq
<1>2. ASSUME NEW n \in S PROVE n + 1 \in S
  <2> SUFFICES ASSUME NEW s \in Seq(X), Len(s) = n + 1 PROVE s \in T
    OBVIOUS
  <2>0. n \in Nat
    OBVIOUS
  <2>1. s # <<>>
    BY <2>0
  <2>2. PICK t \in Seq(X), e \in X : s = Append(t, e)
    BY <2>1, SequenceEmptyOrAppend
  <2>3. Len(t) = n
    BY <2>2, <2>0, AppendProperties, LenProperties
  <2> QED
    BY <2>2, <2>3
<1>3. Nat \subseteq S
  <2> HIDE DEF S
  <2> QED
    BY <1>1, <1>2, SetInduction
<1> QED
  BY <1>3, LenProperties

\* FoldLeft folds over sets of indices, the largest last.
LEMMA MaxOfInterval ==
  ASSUME NEW n \in Nat, NEW s \in SUBSET (1..(n + 1)), n + 1 \in s
  PROVE  Max(s) = n + 1
<1>1. \A y \in s : n + 1 >= y
  OBVIOUS
<1>2. Max(s) \in s /\ \A y \in s : Max(s) >= y
  BY <1>1 DEF Max
<1>3. Max(s) >= n + 1 /\ Max(s) \in 1..(n + 1)
  BY <1>2
<1> QED
  BY <1>3

LEMMA MaxIsIn ==
  \A n \in Nat : \A s \in SUBSET (1..n) : s # {} => Max(s) \in s
<1> DEFINE S == {n \in Nat : \A s \in SUBSET (1..n) : s # {} => Max(s) \in s}
<1>1. 0 \in S
  <2>1. 1..0 = {}
    OBVIOUS
  <2> QED
    BY <2>1
<1>2. ASSUME NEW n \in S PROVE n + 1 \in S
  <2>0. n \in Nat
    OBVIOUS
  <2> SUFFICES ASSUME NEW s \in SUBSET (1..(n + 1)), s # {} PROVE Max(s) \in s
    BY <2>0
  <2>1. CASE n + 1 \in s
    BY <2>0, <2>1, MaxOfInterval
  <2>2. CASE n + 1 \notin s
    <3>1. s \in SUBSET (1..n)
      BY <2>2, <2>0
    <3> QED
      BY <3>1
  <2> QED
    BY <2>1, <2>2
<1>3. Nat \subseteq S
  <2> HIDE DEF S
  <2> QED
    BY <1>1, <1>2, SetInduction
<1> QED
  BY <1>3

\* f is the function that MapThenFoldSet defines recursively.
It(f, base, seq, n) ==
  f = [s \in SUBSET (1..n) |-> IF s = {} THEN base ELSE Op(f[s \ {Max(s)}], seq[Max(s)])]

\* It exists, so that CHOOSE finds it.
LEMMA ItExists ==
  ASSUME NEW base, NEW seq
  PROVE  \A n \in Nat : \E f : It(f, base, seq, n)
<1> DEFINE S == {n \in Nat : \E f : It(f, base, seq, n)}
<1>1. 0 \in S
  <2>1. SUBSET (1..0) = {{}}
    OBVIOUS
  <2>2. It([s \in SUBSET (1..0) |-> base], base, seq, 0)
    BY <2>1 DEF It
  <2> QED
    BY <2>2
<1>2. ASSUME NEW n \in S PROVE n + 1 \in S
  <2>0. n \in Nat
    OBVIOUS
  <2>1. PICK f : It(f, base, seq, n)
    OBVIOUS
  <2> DEFINE g == [s \in SUBSET (1..(n + 1)) |->
                     IF n + 1 \in s THEN Op(f[s \ {n + 1}], seq[n + 1]) ELSE f[s]]
  <2>2. ASSUME NEW s \in SUBSET (1..(n + 1))
        PROVE g[s] = IF s = {} THEN base ELSE Op(g[s \ {Max(s)}], seq[Max(s)])
    <3>1. CASE n + 1 \in s
      <4>1. Max(s) = n + 1
        BY <3>1, <2>0, MaxOfInterval
      <4>2. s \ {n + 1} \in SUBSET (1..(n + 1)) /\ n + 1 \notin s \ {n + 1}
        OBVIOUS
      <4>3. g[s \ {n + 1}] = f[s \ {n + 1}]
        BY <4>2
      <4>4. g[s] = Op(f[s \ {n + 1}], seq[n + 1])
        BY <3>1
      <4> HIDE DEF g
      <4> QED
        BY <4>1, <4>3, <4>4, <3>1
    <3>2. CASE n + 1 \notin s
      <4>1. s \in SUBSET (1..n)
        BY <3>2, <2>0
      <4>2. CASE s = {}
        BY <4>2, <4>1, <3>2, <2>1 DEF It
      <4>3. CASE s # {}
        <5>1. s \ {Max(s)} \in SUBSET (1..n) /\ n + 1 \notin s \ {Max(s)}
          BY <4>1, <3>2
        <5>2. s \ {Max(s)} \in SUBSET (1..(n + 1))
          OBVIOUS
        <5>3. g[s \ {Max(s)}] = f[s \ {Max(s)}]
          BY <5>1, <5>2
        <5>4. g[s] = f[s]
          BY <3>2
        <5>5. f[s] = Op(f[s \ {Max(s)}], seq[Max(s)])
          BY <2>1, <4>1, <4>3 DEF It
        <5> HIDE DEF g
        <5> QED
          BY <5>3, <5>4, <5>5, <4>3
      <4> QED
        BY <4>2, <4>3
    <3> QED
      BY <3>1, <3>2
  <2>3. It(g, base, seq, n + 1)
    <3>1. g = [s \in SUBSET (1..(n + 1)) |-> g[s]]
      OBVIOUS
    <3> HIDE DEF g
    <3> QED
      BY <2>2, <3>1 DEF It
  <2> QED
    BY <2>3, <2>0
<1>3. Nat \subseteq S
  <2> HIDE DEF S
  <2> QED
    BY <1>1, <1>2, SetInduction
<1> QED
  BY <1>3

\* The fold is its value for all the indices.
LEMMA FoldIs ==
  ASSUME NEW X, NEW seq \in Seq(X), NEW base
  PROVE  \E f : It(f, base, seq, Len(seq)) /\ Fold(base, seq) = f[1..Len(seq)]
<1> DEFINE f == CHOOSE f : It(f, base, seq, Len(seq))
<1>1. Len(seq) \in Nat /\ DOMAIN seq = 1..Len(seq)
  BY LenProperties
<1>2. It(f, base, seq, Len(seq))
  BY <1>1, ItExists
<1>3. Fold(base, seq) = f[DOMAIN seq]
  BY <1>1 DEF Fold, FoldLeft, MapThenFoldSet, It
<1> QED
  BY <1>1, <1>2, <1>3

\* Folding nothing leaves the base.
THEOREM FoldEmpty == \A base : Fold(base, <<>>) = base
<1> SUFFICES ASSUME NEW base PROVE Fold(base, <<>>) = base
  OBVIOUS
<1>1. <<>> \in Seq({}) /\ Len(<<>>) = 0
  BY EmptySeq
<1>2. PICK f : It(f, base, <<>>, 0) /\ Fold(base, <<>>) = f[1..0]
  BY <1>1, FoldIs
<1>3. 1..0 = {}
  OBVIOUS
<1> QED
  BY <1>2, <1>3 DEF It

\* An item at the end is folded last.
THEOREM FoldAppend ==
  ASSUME NEW X, NEW seq \in Seq(X), NEW e \in X, NEW base
  PROVE  Fold(base, Append(seq, e)) = Op(Fold(base, seq), e)
<1> DEFINE n == Len(seq)  longer == Append(seq, e)
<1>1. n \in Nat /\ longer \in Seq(X) /\ Len(longer) = n + 1 /\ longer[n + 1] = e
      /\ \A i \in 1..n : longer[i] = seq[i]
  BY AppendProperties, LenProperties
<1>2. PICK f : It(f, base, seq, n) /\ Fold(base, seq) = f[1..n]
  BY FoldIs
<1>3. PICK g : It(g, base, longer, n + 1) /\ Fold(base, longer) = g[1..(n + 1)]
  BY <1>1, FoldIs
<1> HIDE DEF n, longer
<1> DEFINE S == {k \in Nat : k <= n => f[1..k] = g[1..k]}
<1>4. \A k \in 1..(n + 1) : Max(1..k) = k /\ (1..k) \ {k} = 1..(k - 1) /\ 1..k # {}
  <2> SUFFICES ASSUME NEW k \in 1..(n + 1)
               PROVE  Max(1..k) = k /\ (1..k) \ {k} = 1..(k - 1) /\ 1..k # {}
    OBVIOUS
  <2>1. k - 1 \in Nat /\ (k - 1) + 1 = k /\ k \in 1..k
    BY <1>1
  <2>2. Max(1..k) = k
    BY <2>1, MaxOfInterval
  <2> QED
    BY <2>1, <2>2
<1>5. 0 \in S
  <2>1. 1..0 = {} /\ {} \in SUBSET (1..n) /\ {} \in SUBSET (1..(n + 1))
    OBVIOUS
  <2>2. f[{}] = base /\ g[{}] = base
    BY <2>1, <1>2, <1>3 DEF It
  <2> QED
    BY <2>1, <2>2
<1>6. ASSUME NEW k \in S PROVE k + 1 \in S
  <2>0. k \in Nat
    OBVIOUS
  <2> SUFFICES ASSUME k + 1 <= n PROVE f[1..(k + 1)] = g[1..(k + 1)]
    BY <2>0
  <2>1. f[1..k] = g[1..k]
    BY <2>0, <1>1
  <2>2. k + 1 \in 1..n /\ k + 1 \in 1..(n + 1) /\ (k + 1) - 1 = k
    BY <2>0, <1>1
  <2>3. Max(1..(k + 1)) = k + 1 /\ (1..(k + 1)) \ {k + 1} = 1..k /\ 1..(k + 1) # {}
    BY <2>2, <1>4
  <2>4. 1..(k + 1) \in SUBSET (1..n) /\ 1..(k + 1) \in SUBSET (1..(n + 1))
    BY <2>2, <1>1
  <2>5. f[1..(k + 1)] = Op(f[1..k], seq[k + 1])
    BY <2>3, <2>4, <1>2 DEF It
  <2>6. g[1..(k + 1)] = Op(g[1..k], longer[k + 1])
    BY <2>3, <2>4, <1>3 DEF It
  <2> QED
    BY <2>1, <2>2, <2>5, <2>6, <1>1
<1>7. f[1..n] = g[1..n]
  <2>1. Nat \subseteq S
    <3> HIDE DEF S
    <3> QED
      BY <1>5, <1>6, SetInduction
  <2>2. n \in Nat /\ n <= n
    BY <1>1
  <2> QED
    BY <2>1, <2>2
<1>8. g[1..(n + 1)] = Op(g[1..n], longer[n + 1])
  <2>1. n + 1 \in 1..(n + 1) /\ (n + 1) - 1 = n
    BY <1>1
  <2>2. 1..(n + 1) \in SUBSET (1..(n + 1))
    OBVIOUS
  <2>3. Max(1..(n + 1)) = n + 1 /\ (1..(n + 1)) \ {n + 1} = 1..n /\ 1..(n + 1) # {}
    BY <2>1, <1>4
  <2> QED
    BY <2>2, <2>3, <1>3 DEF It
<1> QED
  BY <1>1, <1>2, <1>3, <1>7, <1>8 DEF longer

\* A fold goes on where one over the first part ended.
THEOREM FoldConcat ==
  ASSUME NEW X, NEW seq \in Seq(X), NEW base
  PROVE  \A t \in Seq(X) : Fold(base, seq \o t) = Fold(Fold(base, seq), t)
<1> DEFINE T == {t \in Seq(X) : Fold(base, seq \o t) = Fold(Fold(base, seq), t)}
<1>1. <<>> \in T
  BY EmptySeq, ConcatEmptySeq, FoldEmpty
<1>2. ASSUME NEW t \in Seq(X) \cap T, NEW e \in X PROVE Append(t, e) \in T
  <2>1. seq \o t \in Seq(X) /\ Append(t, e) \in Seq(X)
    BY ConcatProperties, AppendProperties
  <2>2. seq \o Append(t, e) = Append(seq \o t, e)
    OBVIOUS
  <2>3. Fold(base, Append(seq \o t, e)) = Op(Fold(base, seq \o t), e)
    BY <2>1, FoldAppend
  <2>4. Fold(Fold(base, seq), Append(t, e)) = Op(Fold(Fold(base, seq), t), e)
    BY FoldAppend
  <2> QED
    BY <2>1, <2>2, <2>3, <2>4
<1>3. Seq(X) \subseteq T
  <2> HIDE DEF T
  <2> QED
    BY <1>1, <1>2, SeqInduction
<1> QED
  BY <1>3

\* A fold stays in every set that Op stays in.
THEOREM FoldType ==
  ASSUME NEW X, NEW A, NEW base \in A, \A a \in A, e \in X : Op(a, e) \in A
  PROVE  \A seq \in Seq(X) : Fold(base, seq) \in A
<1> DEFINE T == {t \in Seq(X) : Fold(base, t) \in A}
<1>1. <<>> \in T
  BY EmptySeq, FoldEmpty
<1>2. ASSUME NEW t \in Seq(X) \cap T, NEW e \in X PROVE Append(t, e) \in T
  <2>1. Fold(base, Append(t, e)) = Op(Fold(base, t), e)
    BY FoldAppend
  <2> QED
    BY <2>1, AppendProperties
<1>3. Seq(X) \subseteq T
  <2> HIDE DEF T
  <2> QED
    BY <1>1, <1>2, SeqInduction
<1> QED
  BY <1>3

\* The same as a recursive function of the index, as Places walks along a text.
Run(base, seq) ==
  LET at[i \in 0..Len(seq)] == IF i = 0 THEN base ELSE Op(at[i - 1], seq[i])
  IN at[Len(seq)]

LEMMA RunIsFold ==
  ASSUME NEW X, NEW seq \in Seq(X), NEW base
  PROVE  Run(base, seq) = Fold(base, seq)
<1> DEFINE n == Len(seq)
           Eq(f) == f = [i \in 0..n |-> IF i = 0 THEN base ELSE Op(f[i - 1], seq[i])]
           part(i) == SubSeq(seq, 1, i)
           g == [i \in 0..n |-> Fold(base, part(i))]
<1>1. n \in Nat
  BY LenProperties
<1>2. \A i \in 0..n : part(i) \in Seq(X)
  BY SubSeqProperties, ElementOfSeq
<1>3. part(0) = <<>> /\ part(n) = seq
  BY SubSeqEmpty, SubSeqFull
<1>4. \A i \in 1..n : part(i) = Append(part(i - 1), seq[i]) /\ seq[i] \in X
  <2> SUFFICES ASSUME NEW i \in 1..n
               PROVE  part(i) = Append(part(i - 1), seq[i]) /\ seq[i] \in X
    OBVIOUS
  <2>1. seq[i] \in X /\ i - 1 \in 0..n
    BY ElementOfSeq
  <2>2. SubSeq(seq, 1, i) = SubSeq(seq, 1, i - 1) \o <<seq[i]>>
    <3>1. 1 \in 1..Len(seq) /\ i \in 1..Len(seq)
      BY <1>1
    <3> QED
      BY <3>1, SubSeqRecursiveSecond
  <2>3. Append(part(i - 1), seq[i]) = part(i - 1) \o <<seq[i]>>
    BY <2>1, <1>2, AppendIsConcat
  <2> QED
    BY <2>1, <2>2, <2>3
<1>5. \A i \in 1..n : Fold(base, part(i)) = Op(Fold(base, part(i - 1)), seq[i])
  <2> SUFFICES ASSUME NEW i \in 1..n
               PROVE  Fold(base, part(i)) = Op(Fold(base, part(i - 1)), seq[i])
    OBVIOUS
  <2>1. part(i - 1) \in Seq(X)
    BY <1>1, <1>2
  <2> HIDE DEF part
  <2> QED
    BY <2>1, <1>4, FoldAppend
<1>6. Eq(g)
  <2>1. \A i \in 0..n : g[i] = IF i = 0 THEN base ELSE Op(g[i - 1], seq[i])
    <3> SUFFICES ASSUME NEW i \in 0..n
                 PROVE  g[i] = IF i = 0 THEN base ELSE Op(g[i - 1], seq[i])
      OBVIOUS
    <3>1. CASE i = 0
      BY <3>1, <1>3, FoldEmpty
    <3>2. CASE i # 0
      <4>1. i \in 1..n /\ i - 1 \in 0..n
        BY <3>2, <1>1
      <4> HIDE DEF part
      <4> QED
        BY <4>1, <1>5, <3>2
    <3> QED
      BY <3>1, <3>2
  <2>2. g = [i \in 0..n |-> g[i]]
    OBVIOUS
  <2> HIDE DEF g
  <2> QED
    BY <2>1, <2>2
<1>7. \A f : Eq(f) => f[n] = g[n]
  <2> SUFFICES ASSUME NEW f, Eq(f) PROVE f[n] = g[n]
    OBVIOUS
  <2>0. \A i \in 0..n : f[i] = IF i = 0 THEN base ELSE Op(f[i - 1], seq[i])
    OBVIOUS
  <2>4. \A i \in 0..n : g[i] = IF i = 0 THEN base ELSE Op(g[i - 1], seq[i])
    BY <1>6
  <2> HIDE DEF g, Eq
  <2> DEFINE S == {k \in Nat : k <= n => f[k] = g[k]}
  <2>1. 0 \in S
    BY <1>1, <2>0, <2>4
  <2>2. ASSUME NEW k \in S PROVE k + 1 \in S
    <3>1. k \in Nat /\ (k + 1) - 1 = k /\ k + 1 # 0
      OBVIOUS
    <3>2. k + 1 <= n => k <= n /\ k + 1 \in 0..n
      BY <3>1, <1>1
    <3> QED
      BY <3>1, <3>2, <2>0, <2>4
  <2>3. Nat \subseteq S
    <3> HIDE DEF S
    <3> QED
      BY <2>1, <2>2, SetInduction
  <2> QED
    BY <2>3, <1>1
<1>8. Run(base, seq) = (CHOOSE f : Eq(f))[n]
  BY DEF Run
<1>9. g[n] = Fold(base, seq)
  <2>1. n \in 0..n
    BY <1>1
  <2>2. g[n] = Fold(base, part(n))
    BY <2>1
  <2> HIDE DEF part, g
  <2> QED
    BY <2>2, <1>3
<1> HIDE DEF g, n, Eq
<1> QED
  BY <1>6, <1>7, <1>8, <1>9
=============================================================================
