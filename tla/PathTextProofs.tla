--------------------------- MODULE PathTextProofs ---------------------------
(***************************************************************************)
(* What the lexical functions do to a text of any length, with names of    *)
(* any kind and for every PATH_MAX: where a cleaned path leads             *)
(* (CleanedAbsolute), which paths are refused (WhatFitsIsTaken), what      *)
(* rewriting makes of a path (RewriteMaps, RelativeIsAbsolute), what       *)
(* getcwd makes of a directory (AnswerLeadsBack), and that a program that  *)
(* reads names in its own view of the tree gets where it means to          *)
(* (SeenIsMeant).                                                          *)
(***************************************************************************)
EXTENDS PathText, Places, SequenceTheorems, TLAPS

Tokens == Names \cup {"/"}
Plain  == Names \ {".", ".."}

Cut   == INSTANCE FoldProofs
           WITH Op <- LAMBDA names, token : IF token = "/" THEN names ELSE Append(names, token)
Count == INSTANCE FoldProofs WITH Op <- LAMBDA n, token : n + Characters(token)
Spelt == INSTANCE FoldProofs WITH Op <- LAMBDA text, name : text \o <<"/", name>>
Cleaner == INSTANCE FoldProofs WITH Op <- CleanSegment
Steps == INSTANCE FoldProofs WITH Op <- Onward

-----------------------------------------------------------------------------
(***************************************************************************)
(* The functions of the texts are folds over their tokens.                 *)
(***************************************************************************)
LEMMA SegmentsIsFold == \A text : Segments(text) = Cut!Fold(<<>>, text)
BY DEF Segments, Cut!Fold, FoldLeft, MapThenFoldSet, Cut!FoldLeft, Cut!MapThenFoldSet,
       Max, Cut!Max

LEMMA LengthIsFold == \A text : Length(text) = Count!Fold(0, text)
BY DEF Length, Count!Fold, FoldLeft, MapThenFoldSet, Count!FoldLeft, Count!MapThenFoldSet,
       Max, Count!Max

\* The text of a place other than the root.
Slashed(place) == FoldLeft(LAMBDA text, name : text \o <<"/", name>>, <<>>, place)

LEMMA SlashedIsFold == \A place : Slashed(place) = Spelt!Fold(<<>>, place)
BY DEF Slashed, Spelt!Fold, FoldLeft, MapThenFoldSet, Spelt!FoldLeft, Spelt!MapThenFoldSet,
       Max, Spelt!Max

LEMMA CleanIsFold == \A st, segs : FoldLeft(CleanSegment, st, segs) = Cleaner!Fold(st, segs)
BY DEF Cleaner!Fold, FoldLeft, MapThenFoldSet, Cleaner!FoldLeft, Cleaner!MapThenFoldSet,
       Max, Cleaner!Max

LEMMA WalkIsFold ==
  ASSUME NEW X, NEW place, NEW text \in Seq(X)
  PROVE  Walk(place, text) = Steps!Fold(place, text)
<1>1. Walk(place, text) = Steps!Run(place, text)
  BY DEF Walk, Steps!Run
<1> QED
  BY <1>1, Steps!RunIsFold

-----------------------------------------------------------------------------
(***************************************************************************)
(* Segments, Length and Walk of one token more, and of two texts.          *)
(***************************************************************************)
LEMMA TokensFacts ==
  /\ Names \subseteq Tokens /\ Plain \subseteq Names /\ "/" \in Tokens
  /\ \A token \in Tokens : token # "/" => token \in Names
  /\ \A name \in Names : name # "/"
  /\ Paths = Seq(Tokens)
BY PathTextAssumption DEF Tokens, Plain, Paths

LEMMA SegmentsEmpty == Segments(<<>>) = <<>>
BY SegmentsIsFold, Cut!FoldEmpty

LEMMA SegmentsAppend ==
  ASSUME NEW text \in Paths, NEW token \in Tokens
  PROVE  Segments(Append(text, token)) =
           IF token = "/" THEN Segments(text) ELSE Append(Segments(text), token)
<1>1. text \in Seq(Tokens)
  BY TokensFacts
<1> QED
  BY <1>1, SegmentsIsFold, Cut!FoldAppend

LEMMA SegmentsType == \A text \in Paths : Segments(text) \in Seq(Names)
<1>1. <<>> \in Seq(Names)
  BY EmptySeq
<1>2. \A names \in Seq(Names), token \in Tokens :
        (IF token = "/" THEN names ELSE Append(names, token)) \in Seq(Names)
  BY TokensFacts, AppendProperties
<1>3. \A text \in Seq(Tokens) : Cut!Fold(<<>>, text) \in Seq(Names)
  BY <1>1, <1>2, Cut!FoldType
<1> QED
  BY <1>3, TokensFacts, SegmentsIsFold

LEMMA LengthEmpty == Length(<<>>) = 0
BY LengthIsFold, Count!FoldEmpty

LEMMA CharactersType == \A token \in Tokens : Characters(token) \in Nat \ {0}
BY PathTextAssumption, TokensFacts DEF Characters

LEMMA LengthAppend ==
  ASSUME NEW text \in Paths, NEW token \in Tokens
  PROVE  Length(Append(text, token)) = Length(text) + Characters(token)
<1>1. text \in Seq(Tokens)
  BY TokensFacts
<1> QED
  BY <1>1, LengthIsFold, Count!FoldAppend

LEMMA LengthType == \A text \in Paths : Length(text) \in Nat
<1>1. \A n \in Nat, token \in Tokens : n + Characters(token) \in Nat
  BY CharactersType
<1>2. 0 \in Nat
  OBVIOUS
<1>3. \A text \in Seq(Tokens) : Count!Fold(0, text) \in Nat
  BY <1>1, <1>2, Count!FoldType
<1> QED
  BY <1>3, TokensFacts, LengthIsFold

LEMMA WalkEmpty == \A place : Walk(place, <<>>) = place
<1>1. <<>> \in Seq({})
  BY EmptySeq
<1> QED
  BY <1>1, WalkIsFold, Steps!FoldEmpty

LEMMA WalkAppend ==
  ASSUME NEW place, NEW text \in Paths, NEW token \in Tokens
  PROVE  Walk(place, Append(text, token)) = Onward(Walk(place, text), token)
<1>1. text \in Seq(Tokens) /\ Append(text, token) \in Seq(Tokens)
  BY TokensFacts, AppendProperties
<1>2. Walk(place, text) = Steps!Fold(place, text)
      /\ Walk(place, Append(text, token)) = Steps!Fold(place, Append(text, token))
  BY <1>1, WalkIsFold
<1> QED
  BY <1>1, <1>2, Steps!FoldAppend

LEMMA WalkConcat ==
  ASSUME NEW place, NEW s \in Paths, NEW t \in Paths
  PROVE  Walk(place, s \o t) = Walk(Walk(place, s), t)
<1>1. s \in Seq(Tokens) /\ t \in Seq(Tokens) /\ s \o t \in Seq(Tokens)
  BY TokensFacts, ConcatProperties
<1>2. /\ Walk(place, s) = Steps!Fold(place, s)
      /\ Walk(place, s \o t) = Steps!Fold(place, s \o t)
      /\ Walk(Steps!Fold(place, s), t) = Steps!Fold(Steps!Fold(place, s), t)
  BY <1>1, WalkIsFold
<1>3. Steps!Fold(place, s \o t) = Steps!Fold(Steps!Fold(place, s), t)
  BY <1>1, Steps!FoldConcat
<1> QED
  BY <1>2, <1>3

LEMMA OnwardType ==
  \A place \in Seq(Plain), token \in Tokens : Onward(place, token) \in Seq(Plain)
<1> TAKE place \in Seq(Plain), token \in Tokens
<1>1. CASE token \in {"/", "."}
  BY <1>1 DEF Onward
<1>2. CASE token \notin {"/", ".", ".."}
  <2>1. token \in Plain
    BY <1>2 DEF Plain, Tokens
  <2> QED
    BY <1>2, <2>1, AppendProperties DEF Onward
<1>3. CASE token = ".." /\ place = <<>>
  BY <1>3 DEF Onward
<1>4. CASE token = ".." /\ place # <<>>
  <2>1. Front(place) \in Seq(Plain)
    BY SubSeqProperties, ElementOfSeq, LenProperties DEF Front
  <2> QED
    BY <1>4, <2>1 DEF Onward
<1> QED
  BY <1>1, <1>2, <1>3, <1>4

LEMMA WalkType ==
  ASSUME NEW place \in Seq(Plain), NEW text \in Paths
  PROVE  Walk(place, text) \in Seq(Plain)
<1>1. \A t \in Seq(Tokens) : Steps!Fold(place, t) \in Seq(Plain)
  BY OnwardType, Steps!FoldType
<1> QED
  BY <1>1, WalkIsFold, TokensFacts

LEMMA SegmentsConcat ==
  ASSUME NEW s \in Paths
  PROVE  \A t \in Paths : Segments(s \o t) = Segments(s) \o Segments(t)
<1> DEFINE T == {t \in Paths : Segments(s \o t) = Segments(s) \o Segments(t)}
<1>0. Paths = Seq(Tokens) /\ \A t \in Paths : Segments(t) \in Seq(Names)
  BY TokensFacts, SegmentsType
<1>1. <<>> \in T
  BY <1>0, EmptySeq, ConcatEmptySeq, SegmentsEmpty
<1>2. ASSUME NEW t \in Seq(Tokens) \cap T, NEW token \in Tokens
      PROVE  Append(t, token) \in T
  <2>1. t \in Paths /\ s \o t \in Paths /\ Append(t, token) \in Paths
    BY <1>0, ConcatProperties, AppendProperties
  <2>2. s \o Append(t, token) = Append(s \o t, token)
    BY <1>0, <2>1
  <2>3. Segments(s \o t) = Segments(s) \o Segments(t)
    OBVIOUS
  <2>4. CASE token = "/"
    BY <2>1, <2>2, <2>3, <2>4, SegmentsAppend
  <2>5. CASE token # "/"
    <3>1. Segments(s \o Append(t, token)) = Append(Segments(s) \o Segments(t), token)
      BY <2>1, <2>2, <2>3, <2>5, SegmentsAppend
    <3>2. Segments(Append(t, token)) = Append(Segments(t), token) /\ token \in Names
      BY <2>1, <2>5, SegmentsAppend, TokensFacts
    <3>3. Segments(s) \o Append(Segments(t), token) = Append(Segments(s) \o Segments(t), token)
      BY <1>0, <2>1, <3>2
    <3> QED
      BY <2>1, <3>1, <3>2, <3>3
  <2> QED
    BY <2>4, <2>5
<1>3. Seq(Tokens) \subseteq T
  <2> HIDE DEF T
  <2> QED
    BY <1>1, <1>2, Cut!SeqInduction
<1> QED
  BY <1>0, <1>3

LEMMA LengthConcat ==
  ASSUME NEW s \in Paths
  PROVE  \A t \in Paths : Length(s \o t) = Length(s) + Length(t)
<1> DEFINE T == {t \in Paths : Length(s \o t) = Length(s) + Length(t)}
<1>0. Paths = Seq(Tokens) /\ \A t \in Paths : Length(t) \in Nat
  BY TokensFacts, LengthType
<1>1. <<>> \in T
  BY <1>0, EmptySeq, ConcatEmptySeq, LengthEmpty
<1>2. ASSUME NEW t \in Seq(Tokens) \cap T, NEW token \in Tokens
      PROVE  Append(t, token) \in T
  <2>1. t \in Paths /\ s \o t \in Paths /\ Append(t, token) \in Paths
    BY <1>0, ConcatProperties, AppendProperties
  <2>2. s \o Append(t, token) = Append(s \o t, token)
    BY <1>0, <2>1
  <2>3. Length(s \o t) = Length(s) + Length(t)
    OBVIOUS
  <2>4. /\ Length(Append(s \o t, token)) = Length(s \o t) + Characters(token)
        /\ Length(Append(t, token)) = Length(t) + Characters(token)
    BY <2>1, LengthAppend
  <2>5. Length(s) \in Nat /\ Length(t) \in Nat /\ Characters(token) \in Nat
    BY <1>0, <2>1, CharactersType
  <2>6. Length(Append(s \o t, token)) = Length(s) + Length(Append(t, token))
    BY <2>3, <2>4, <2>5
  <2> QED
    BY <2>1, <2>2, <2>6
<1>3. Seq(Tokens) \subseteq T
  <2> HIDE DEF T
  <2> QED
    BY <1>1, <1>2, Cut!SeqInduction
<1> QED
  BY <1>0, <1>3

-----------------------------------------------------------------------------
(***************************************************************************)
(* The texts of places, a slash before every name.                         *)
(***************************************************************************)
\* The text of a place.
LEMMA SlashedEmpty == Slashed(<<>>) = <<>>
BY SlashedIsFold, Spelt!FoldEmpty

LEMMA SlashedAppend ==
  ASSUME NEW place \in Seq(Names), NEW name \in Names
  PROVE  Slashed(Append(place, name)) = Slashed(place) \o <<"/", name>>
BY SlashedIsFold, Spelt!FoldAppend

LEMMA PairFacts ==
  \A name \in Names :
    /\ <<"/", name>> \in Paths /\ Len(<<"/", name>>) = 2
    /\ <<"/", name>>[1] = "/" /\ <<"/", name>>[2] = name
    /\ <<"/", name>> = Append(Append(<<>>, "/"), name)
    /\ Append(<<>>, "/") = <<"/">> /\ <<"/">> \in Paths /\ <<>> \in Paths
<1> TAKE name \in Names
<1>1. "/" \in Tokens /\ name \in Tokens /\ Paths = Seq(Tokens)
  BY TokensFacts
<1> QED
  BY <1>1

LEMMA SlashedType == \A place \in Seq(Names) : Slashed(place) \in Paths
<1>1. \A text \in Paths, name \in Names : text \o <<"/", name>> \in Paths
  BY PairFacts, TokensFacts, ConcatProperties
<1>2. <<>> \in Paths
  BY TokensFacts, EmptySeq
<1>3. \A place \in Seq(Names) : Spelt!Fold(<<>>, place) \in Paths
  BY <1>1, <1>2, Spelt!FoldType
<1> QED
  BY <1>3, SlashedIsFold

LEMMA PlainSeq == \A place \in Seq(Plain) : place \in Seq(Names)
BY SeqMonotonic, TokensFacts

LEMMA SlashedConcat ==
  ASSUME NEW place \in Seq(Names)
  PROVE  \A rest \in Seq(Names) : Slashed(place \o rest) = Slashed(place) \o Slashed(rest)
<1> DEFINE T == {t \in Seq(Names) : Slashed(place \o t) = Slashed(place) \o Slashed(t)}
<1>0. Paths = Seq(Tokens) /\ \A t \in Seq(Names) : Slashed(t) \in Seq(Tokens)
  BY TokensFacts, SlashedType
<1>1. <<>> \in T
  BY <1>0, EmptySeq, ConcatEmptySeq, SlashedEmpty
<1>2. ASSUME NEW t \in Seq(Names) \cap T, NEW name \in Names
      PROVE  Append(t, name) \in T
  <2>1. t \in Seq(Names) /\ place \o t \in Seq(Names) /\ Append(t, name) \in Seq(Names)
    BY ConcatProperties, AppendProperties
  <2>2. place \o Append(t, name) = Append(place \o t, name)
    BY <2>1
  <2>3. Slashed(place \o t) = Slashed(place) \o Slashed(t)
    OBVIOUS
  <2>4. Slashed(place \o Append(t, name)) = (Slashed(place) \o Slashed(t)) \o <<"/", name>>
    BY <2>1, <2>2, <2>3, SlashedAppend
  <2>5. Slashed(Append(t, name)) = Slashed(t) \o <<"/", name>>
    BY <2>1, SlashedAppend
  <2>6. <<"/", name>> \in Seq(Tokens)
    BY PairFacts, <1>0
  <2>7. (Slashed(place) \o Slashed(t)) \o <<"/", name>>
          = Slashed(place) \o (Slashed(t) \o <<"/", name>>)
    BY <1>0, <2>1, <2>6, ConcatAssociative
  <2> QED
    BY <2>1, <2>4, <2>5, <2>7
<1>3. Seq(Names) \subseteq T
  <2> HIDE DEF T
  <2> QED
    BY <1>1, <1>2, Cut!SeqInduction
<1> QED
  BY <1>3

LEMMA SlashedLen == \A place \in Seq(Names) : Len(Slashed(place)) = 2 * Len(place)
<1> DEFINE T == {t \in Seq(Names) : Len(Slashed(t)) = 2 * Len(t)}
<1>1. <<>> \in T
  BY EmptySeq, SlashedEmpty
<1>2. ASSUME NEW t \in Seq(Names) \cap T, NEW name \in Names
      PROVE  Append(t, name) \in T
  <2>1. Slashed(Append(t, name)) = Slashed(t) \o <<"/", name>>
    BY SlashedAppend
  <2>2. Len(Slashed(t) \o <<"/", name>>) = Len(Slashed(t)) + 2
    BY SlashedType, PairFacts, ConcatProperties, TokensFacts
  <2>3. Len(Append(t, name)) = Len(t) + 1 /\ Len(t) \in Nat /\ Append(t, name) \in Seq(Names)
    BY AppendProperties, LenProperties
  <2>4. Len(Slashed(t)) = 2 * Len(t)
    OBVIOUS
  <2>5. Len(Slashed(Append(t, name))) = 2 * (Len(t) + 1)
    BY <2>1, <2>2, <2>3, <2>4
  <2> QED
    BY <2>3, <2>5
<1>3. Seq(Names) \subseteq T
  <2> HIDE DEF T
  <2> QED
    BY <1>1, <1>2, Cut!SeqInduction
<1> QED
  BY <1>3

LEMMA SegmentsOfPair == \A name \in Names : Segments(<<"/", name>>) = <<name>>
<1> TAKE name \in Names
<1> DEFINE slash == Append(<<>>, "/")
<1>1. /\ <<>> \in Paths /\ slash \in Paths /\ <<"/", name>> = Append(slash, name)
      /\ "/" \in Tokens /\ name \in Tokens /\ name # "/"
  BY PairFacts, TokensFacts
<1> HIDE DEF slash
<1>2. Segments(slash) = <<>>
  BY <1>1, SegmentsAppend, SegmentsEmpty DEF slash
<1>3. Segments(Append(slash, name)) = Append(<<>>, name)
  BY <1>1, <1>2, SegmentsAppend
<1>4. Append(<<>>, name) = <<name>>
  OBVIOUS
<1> QED
  BY <1>1, <1>3, <1>4

LEMMA WalkPair ==
  ASSUME NEW place, NEW name \in Plain
  PROVE  Walk(place, <<"/", name>>) = Append(place, name)
<1> DEFINE slash == Append(<<>>, "/")
<1>0. name \in Names /\ name \notin {".", ".."}
  BY DEF Plain
<1>1. /\ <<>> \in Paths /\ slash \in Paths /\ <<"/", name>> = Append(slash, name)
      /\ "/" \in Tokens /\ name \in Tokens /\ name # "/"
  BY <1>0, PairFacts, TokensFacts
<1> HIDE DEF slash
<1>2. Walk(place, slash) = place
  BY <1>1, WalkAppend, WalkEmpty DEF slash, Onward
<1>3. Walk(place, Append(slash, name)) = Append(place, name)
  BY <1>0, <1>1, <1>2, WalkAppend DEF Onward
<1> QED
  BY <1>1, <1>3

LEMMA SegmentsOfSlashed == \A place \in Seq(Names) : Segments(Slashed(place)) = place
<1> DEFINE T == {t \in Seq(Names) : Segments(Slashed(t)) = t}
<1>1. <<>> \in T
  BY EmptySeq, SlashedEmpty, SegmentsEmpty
<1>2. ASSUME NEW t \in Seq(Names) \cap T, NEW name \in Names
      PROVE  Append(t, name) \in T
  <2>1. Slashed(Append(t, name)) = Slashed(t) \o <<"/", name>> /\ Append(t, name) \in Seq(Names)
    BY SlashedAppend, AppendProperties
  <2>2. Segments(Slashed(t) \o <<"/", name>>) = Segments(Slashed(t)) \o Segments(<<"/", name>>)
    BY SlashedType, PairFacts, SegmentsConcat
  <2>3. Segments(<<"/", name>>) = <<name>>
    BY SegmentsOfPair
  <2> QED
    BY <2>1, <2>2, <2>3, AppendIsConcat
<1>3. Seq(Names) \subseteq T
  <2> HIDE DEF T
  <2> QED
    BY <1>1, <1>2, Cut!SeqInduction
<1> QED
  BY <1>3

\* A text without dots leads straight down.
LEMMA WalkSlashed ==
  ASSUME NEW place \in Seq(Plain)
  PROVE  \A rest \in Seq(Plain) : Walk(place, Slashed(rest)) = place \o rest
<1> DEFINE T == {t \in Seq(Plain) : Walk(place, Slashed(t)) = place \o t}
<1>1. <<>> \in T
  BY EmptySeq, ConcatEmptySeq, SlashedEmpty, WalkEmpty
<1>2. ASSUME NEW t \in Seq(Plain) \cap T, NEW name \in Plain
      PROVE  Append(t, name) \in T
  <2>0. name \in Names /\ name \in Tokens /\ name \notin {"/", ".", ".."} /\ t \in Seq(Names)
    BY PlainSeq, TokensFacts DEF Plain
  <2>1. Slashed(Append(t, name)) = Slashed(t) \o <<"/", name>> /\ Append(t, name) \in Seq(Plain)
    BY <2>0, SlashedAppend, AppendProperties
  <2>2. Walk(place, Slashed(t) \o <<"/", name>>) = Walk(Walk(place, Slashed(t)), <<"/", name>>)
    <3>1. Slashed(t) \in Paths /\ <<"/", name>> \in Paths
      BY <2>0, SlashedType, PairFacts
    <3> QED
      BY <3>1, WalkConcat
  <2>3. Walk(place, Slashed(t)) = place \o t /\ place \o t \in Seq(Plain) /\ t \in Seq(Plain)
    BY ConcatProperties
  <2>4. Append(place \o t, name) = place \o Append(t, name)
    <3>1. /\ place \in Seq(Plain) /\ t \in Seq(Plain) /\ <<name>> \in Seq(Plain)
          /\ Append(place \o t, name) = (place \o t) \o <<name>>
          /\ Append(t, name) = t \o <<name>>
      BY <2>3, AppendIsConcat
    <3> QED
      BY <3>1, ConcatAssociative
  <2> QED
    BY <2>1, <2>2, <2>3, <2>4, WalkPair
<1>3. Seq(Plain) \subseteq T
  <2> HIDE DEF T
  <2> QED
    BY <1>1, <1>2, Cut!SeqInduction
<1> QED
  BY <1>3

-----------------------------------------------------------------------------
(***************************************************************************)
(* Cleaning an absolute path. What the cleaner holds has one of two forms, *)
(* the text of the place it has got to, with or without a slash at its end *)
(* (Shaped), and that is kept by every segment.                            *)
(***************************************************************************)
\* What the cleaner has of an absolute path that leads to place: the text of the
\* place, perhaps with the slash that ".." left, and where its names start.
Odd(n) == [i \in 1..n |-> 2 * i - 1]

Shaped(st, place, dst_len) ==
  /\ st \in Cleanings /\ st.absolute /\ st.dst_len = dst_len
  /\ \/ st.out = Slashed(place) /\ place # <<>>
     \/ st.out = Append(Slashed(place), "/")
  /\ st.starts = Odd(Len(place))

LEMMA OddIs ==
  ASSUME NEW n \in Nat
  PROVE  /\ Odd(n) \in Seq(Nat) /\ Len(Odd(n)) = n
         /\ \A i \in 1..n : Odd(n)[i] = 2 * i - 1
BY DEF Odd

LEMMA OddAppend ==
  ASSUME NEW n \in Nat
  PROVE  Append(Odd(n), 2 * n + 1) = Odd(n + 1)
<1> DEFINE s == Odd(n)
           e == 2 * n + 1
<1>1. e \in Nat /\ n + 1 \in Nat /\ 2 * (n + 1) - 1 = e
  OBVIOUS
<1>2. s \in Seq(Nat) /\ Len(s) = n /\ \A i \in 1..n : s[i] = 2 * i - 1
  BY OddIs
<1>3. /\ Odd(n + 1) \in Seq(Nat) /\ Len(Odd(n + 1)) = n + 1
      /\ \A i \in 1..(n + 1) : Odd(n + 1)[i] = 2 * i - 1
  BY <1>1, OddIs
<1> HIDE DEF s, e
<1>4. /\ Append(s, e) \in Seq(Nat) /\ Len(Append(s, e)) = n + 1
      /\ \A i \in 1..n : Append(s, e)[i] = s[i]
      /\ Append(s, e)[n + 1] = e
  BY <1>1, <1>2, AppendProperties
<1>5. ASSUME NEW i \in 1..(n + 1)
      PROVE  Append(s, e)[i] = Odd(n + 1)[i]
  <2>1. CASE i = n + 1
    BY <2>1, <1>1, <1>3, <1>4
  <2>2. CASE i # n + 1
    <3>1. i \in 1..n
      BY <2>2
    <3> QED
      BY <3>1, <1>2, <1>3, <1>4
  <2> QED
    BY <2>1, <2>2
<1>6. Append(s, e) = Odd(n + 1)
  BY <1>3, <1>4, <1>5, SeqEqual
<1> QED
  BY <1>6 DEF s, e

\* The last item of a sequence that was appended to.
LEMMA FrontOfAppend ==
  ASSUME NEW X, NEW s \in Seq(X), NEW e \in X
  PROVE  /\ Front(Append(s, e)) = s /\ Last(Append(s, e)) = e
         /\ Append(s, e) # <<>> /\ Append(s, e) \in Seq(X) /\ Len(Append(s, e)) = Len(s) + 1
<1>1. /\ Append(s, e) \in Seq(X) /\ Append(s, e) # <<>> /\ Len(Append(s, e)) = Len(s) + 1
      /\ Append(s, e)[Len(s) + 1] = e /\ Len(s) \in Nat
  BY AppendProperties, LenProperties
<1>2. Last(Append(s, e)) = e
  BY <1>1 DEF Last
<1>3. Front(Append(s, e)) = SubSeq(Append(s, e), 1, Len(s))
  BY <1>1 DEF Front
<1>4. SubSeq(Append(s, e), 1, Len(s)) = s
  OBVIOUS
<1> QED
  BY <1>1, <1>2, <1>3, <1>4

\* The text of a place one name further.
LEMMA SlashedNext ==
  ASSUME NEW place \in Seq(Names), NEW name \in Names
  PROVE  /\ Slashed(Append(place, name)) = Append(Append(Slashed(place), "/"), name)
         /\ Append(Slashed(place), "/") \in Seq(Tokens)
         /\ Len(Append(Slashed(place), "/")) = 2 * Len(place) + 1
         /\ Last(Append(Slashed(place), "/")) = "/" /\ Append(Slashed(place), "/") # <<>>
         /\ Last(Slashed(Append(place, name))) = name /\ Slashed(Append(place, name)) # <<>>
<1> DEFINE cut == Append(Slashed(place), "/")
<1>1. Slashed(place) \in Seq(Tokens) /\ "/" \in Tokens /\ name \in Tokens
  BY SlashedType, TokensFacts
<1>2. Slashed(Append(place, name)) = Append(cut, name)
  <2>1. Slashed(Append(place, name)) = Slashed(place) \o <<"/", name>>
    BY SlashedAppend
  <2> QED
    BY <2>1, <1>1
<1>3. /\ cut \in Seq(Tokens) /\ Len(cut) = 2 * Len(place) + 1 /\ Last(cut) = "/" /\ cut # <<>>
  BY <1>1, SlashedLen, FrontOfAppend, LenProperties
<1> HIDE DEF cut
<1>4. Last(Append(cut, name)) = name /\ Append(cut, name) # <<>>
  BY <1>1, <1>3, FrontOfAppend
<1> QED
  BY <1>2, <1>3, <1>4 DEF cut

LEMMA SlashedFirst ==
  ASSUME NEW place \in Seq(Names), place # <<>>
  PROVE  /\ Slashed(place)[1] = "/" /\ Slashed(place) # <<>>
         /\ Append(Slashed(place), "/")[1] = "/"
<1> DEFINE first == SubSeq(place, 1, 1)
           rest  == SubSeq(place, 2, Len(place))
           text  == Slashed(place)
<1>1. Len(place) \in Nat /\ Len(place) >= 1 /\ \A i \in 1..Len(place) : place[i] \in Names
  BY LenProperties, EmptySeq, ElementOfSeq
<1>2. place = <<place[1]>> \o rest /\ place[1] \in Names
  BY <1>1, SubSeqRecursiveFirst, SubSeqFull
<1>3. rest \in Seq(Names)
  BY <1>1, SubSeqProperties
<1> HIDE DEF rest
<1>4. <<place[1]>> \in Seq(Names) /\ <<place[1]>> = Append(<<>>, place[1]) /\ <<>> \in Seq(Names)
  BY <1>2
<1>5. Slashed(<<place[1]>>) = Append(Append(<<>>, "/"), place[1])
  BY <1>2, <1>4, SlashedNext, SlashedEmpty
<1>6. Slashed(place) = <<"/", place[1]>> \o Slashed(rest)
  <2>1. Slashed(<<place[1]>> \o rest) = Slashed(<<place[1]>>) \o Slashed(rest)
    BY <1>3, <1>4, SlashedConcat
  <2> QED
    BY <1>2, <1>5, <2>1, PairFacts
<1>7. /\ <<"/", place[1]>> \in Seq(Tokens) /\ Slashed(rest) \in Seq(Tokens)
      /\ Len(<<"/", place[1]>>) = 2 /\ <<"/", place[1]>>[1] = "/"
  BY <1>2, <1>3, PairFacts, SlashedType, TokensFacts
<1>8. text[1] = "/" /\ text \in Seq(Tokens) /\ Len(text) \in Nat /\ Len(text) >= 2
  BY <1>6, <1>7, ConcatProperties, LenProperties
<1> HIDE DEF text
<1>9. Append(text, "/")[1] = text[1] /\ text # <<>>
  BY <1>8, TokensFacts, AppendProperties, EmptySeq
<1> QED
  BY <1>8, <1>9 DEF text

\* ... and cut before the name.
LEMMA SlashedCut ==
  ASSUME NEW place \in Seq(Names), NEW name \in Names
  PROVE  /\ SubSeq(Slashed(Append(place, name)), 1, 2 * Len(place) + 1)
              = Append(Slashed(place), "/")
         /\ SubSeq(Append(Slashed(Append(place, name)), "/"), 1, 2 * Len(place) + 1)
              = Append(Slashed(place), "/")
<1> DEFINE cut == Append(Slashed(place), "/")
           n   == Len(cut)
<1>1. "/" \in Tokens /\ name \in Tokens /\ Len(place) \in Nat
  BY TokensFacts, LenProperties
<1>2. Slashed(Append(place, name)) = Append(cut, name)
  BY SlashedNext
<1>3. cut \in Seq(Tokens) /\ n = 2 * Len(place) + 1
  BY SlashedNext
<1> HIDE DEF cut
<1>4. SubSeq(Append(cut, name), 1, n) = cut
  BY <1>1, <1>3
<1>5. SubSeq(Append(Append(cut, name), "/"), 1, n) = cut
  BY <1>1, <1>3
<1> QED
  BY <1>2, <1>3, <1>4, <1>5 DEF cut

LEMMA CleaningsFacts ==
  ASSUME NEW st \in Cleanings, NEW out \in Paths, NEW starts \in Seq(Nat)
  PROVE  /\ [st EXCEPT !.out = out, !.starts = starts] \in Cleanings
         /\ [st EXCEPT !.out = out, !.starts = starts].out = out
         /\ [st EXCEPT !.out = out, !.starts = starts].starts = starts
         /\ [st EXCEPT !.out = out, !.starts = starts].absolute = st.absolute
         /\ [st EXCEPT !.out = out, !.starts = starts].dst_len = st.dst_len
         /\ st # Fail
BY PathTextAssumption DEF Cleanings

LEMMA ShapedStart ==
  ASSUME NEW dst_len \in Nat
  PROVE  Shaped(CleanStart(TRUE, dst_len), <<>>, dst_len)
<1>1. /\ <<"/">> \in Paths /\ <<>> \in Seq(Nat) /\ Append(<<>>, "/") = <<"/">>
      /\ Slashed(<<>>) = <<>> /\ Len(<<>>) = 0
  BY TokensFacts, EmptySeq, SlashedEmpty
<1>2. Odd(0) = <<>>
  BY OddIs, EmptySeq
<1> QED
  BY <1>1, <1>2 DEF Shaped, CleanStart, Cleanings

LEMMA ShapedOut ==
  ASSUME NEW place \in Seq(Plain), NEW st, NEW dst_len, Shaped(st, place, dst_len)
  PROVE  /\ st.out \in Paths /\ st.out # <<>> /\ st # Fail /\ st \in Cleanings
         /\ Last(st.out) = "/" <=> st.out = Append(Slashed(place), "/")
         /\ st.starts = <<>> <=> place = <<>>
<1>1. st \in Cleanings /\ st # Fail
  BY PathTextAssumption DEF Shaped
<1>2. st.out \in Paths
  BY <1>1 DEF Cleanings
<1>3. /\ Append(Slashed(place), "/") # <<>>
      /\ Last(Append(Slashed(place), "/")) = "/"
  BY PlainSeq, SlashedType, TokensFacts, FrontOfAppend
<1>4. st.out # <<>> /\ (Last(st.out) = "/" <=> st.out = Append(Slashed(place), "/"))
  <2>1. CASE st.out = Append(Slashed(place), "/")
    BY <1>3, <2>1
  <2>2. CASE st.out = Slashed(place) /\ place # <<>>
    <3>1. PICK rest \in Seq(Plain), name \in Plain : place = Append(rest, name)
      BY <2>2, SequenceEmptyOrAppend
    <3>2. rest \in Seq(Names) /\ name \in Names /\ name # "/"
      BY PlainSeq, TokensFacts
    <3>3. Last(st.out) = name /\ st.out # <<>>
      BY <2>2, <3>1, <3>2, SlashedNext
    <3> QED
      BY <1>3, <3>2, <3>3
  <2> QED
    BY <2>1, <2>2 DEF Shaped
<1>6. st.starts = <<>> <=> place = <<>>
  <2>1. st.starts = Odd(Len(place)) /\ Len(place) \in Nat /\ (Len(place) = 0 <=> place = <<>>)
    BY LenProperties, EmptySeq DEF Shaped
  <2>2. Odd(Len(place)) \in Seq(Nat) /\ Len(Odd(Len(place))) = Len(place)
    BY <2>1, OddIs
  <2> QED
    BY <2>1, <2>2, EmptySeq
<1> QED
  BY <1>1, <1>2, <1>4, <1>6

LEMMA ShapedSet ==
  ASSUME NEW place, NEW dst_len, NEW st, Shaped(st, place, dst_len), NEW new, NEW out \in Paths,
         \/ out = Slashed(new) /\ new # <<>>
         \/ out = Append(Slashed(new), "/"),
         Odd(Len(new)) \in Seq(Nat)
  PROVE  Shaped([st EXCEPT !.out = out, !.starts = Odd(Len(new))], new, dst_len)
<1> DEFINE next == [st EXCEPT !.out = out, !.starts = Odd(Len(new))]
<1>0. st \in Cleanings /\ st.absolute /\ st.dst_len = dst_len
  BY DEF Shaped
<1>1. /\ next \in Cleanings /\ next.out = out /\ next.starts = Odd(Len(new))
      /\ next.absolute /\ next.dst_len = dst_len
  <2>1. ASSUME NEW starts \in Seq(Nat), NEW to, to = [st EXCEPT !.out = out, !.starts = starts]
        PROVE  /\ to \in Cleanings /\ to.out = out /\ to.starts = starts
               /\ to.absolute /\ to.dst_len = dst_len
    BY <1>0, <2>1 DEF Cleanings
  <2> QED
    BY <2>1
<1> HIDE DEF next
<1>2. Shaped(next, new, dst_len)
  BY <1>1 DEF Shaped
<1> QED
  BY <1>2 DEF next

LEMMA ShapedPop ==
  ASSUME NEW place \in Seq(Plain), place # <<>>, NEW dst_len, NEW st, Shaped(st, place, dst_len)
  PROVE  Shaped(Pop(st), Front(place), dst_len)
<1>1. PICK rest \in Seq(Plain), name \in Plain : place = Append(rest, name)
  BY SequenceEmptyOrAppend
<1>2. rest \in Seq(Names) /\ name \in Names
  BY PlainSeq, TokensFacts
<1>3. Front(place) = rest /\ Len(place) = Len(rest) + 1 /\ Len(rest) \in Nat
  BY <1>1, FrontOfAppend, LenProperties
<1>4. st.starts = Append(Odd(Len(rest)), 2 * Len(rest) + 1)
  BY <1>3, OddAppend DEF Shaped
<1>5. Odd(Len(rest)) \in Seq(Nat) /\ 2 * Len(rest) + 1 \in Nat
  BY <1>3, OddIs
<1>6. Last(st.starts) = 2 * Len(rest) + 1 /\ Front(st.starts) = Odd(Len(rest))
  BY <1>4, <1>5, FrontOfAppend
<1>7. SubSeq(st.out, 1, 2 * Len(rest) + 1) = Append(Slashed(rest), "/")
  BY <1>1, <1>2, SlashedCut DEF Shaped
<1>8. Append(Slashed(rest), "/") \in Paths
  BY <1>2, SlashedType, TokensFacts, AppendProperties
<1>9. Pop(st) = [st EXCEPT !.out = Append(Slashed(rest), "/"), !.starts = Odd(Len(rest))]
  BY <1>6, <1>7 DEF Pop, Shaped, Cleanings
<1>10. Shaped([st EXCEPT !.out = Append(Slashed(rest), "/"), !.starts = Odd(Len(rest))],
              rest, dst_len)
  BY <1>5, <1>8, ShapedSet
<1> QED
  BY <1>3, <1>9, <1>10

LEMMA ShapedPush ==
  ASSUME NEW place \in Seq(Plain), NEW dst_len, NEW st, Shaped(st, place, dst_len),
         NEW name \in Plain, Push(st, name) # Fail
  PROVE  Shaped(Push(st, name), Append(place, name), dst_len)
<1> DEFINE slash == st.out # <<>> /\ Last(st.out) # "/"
           out   == IF slash THEN Append(st.out, "/") ELSE st.out
<1>1. place \in Seq(Names) /\ name \in Names /\ name \in Tokens /\ Len(place) \in Nat
  BY PlainSeq, TokensFacts, LenProperties
<1>2. /\ Slashed(Append(place, name)) = Append(Append(Slashed(place), "/"), name)
      /\ Append(Slashed(place), "/") \in Seq(Tokens)
      /\ Len(Append(Slashed(place), "/")) = 2 * Len(place) + 1
  BY <1>1, SlashedNext
<1>3. out = Append(Slashed(place), "/")
  BY ShapedOut DEF Shaped
<1>4. out \in Seq(Tokens) /\ Len(out) = 2 * Len(place) + 1
  BY <1>2, <1>3
<1>5. Append(out, name) = Slashed(Append(place, name))
  BY <1>2, <1>3
<1>6. Append(st.starts, Len(out)) = Odd(Len(Append(place, name)))
      /\ Odd(Len(Append(place, name))) \in Seq(Nat)
  <2>1. st.starts = Odd(Len(place)) /\ Len(Append(place, name)) = Len(place) + 1
    BY FrontOfAppend DEF Shaped
  <2>2. Odd(Len(place) + 1) \in Seq(Nat)
    BY <1>1, OddIs
  <2> QED
    BY <1>1, <1>4, <2>1, <2>2, OddAppend
<1>7. Append(out, name) \in Paths
  BY <1>1, <1>4, AppendProperties, TokensFacts
<1>8. Push(st, name) = [st EXCEPT !.out = Append(out, name), !.starts = Append(@, Len(out))]
  BY DEF Push
<1> HIDE DEF out
<1>9. Push(st, name)
        = [st EXCEPT !.out = Append(out, name), !.starts = Odd(Len(Append(place, name)))]
  BY <1>6, <1>8 DEF Shaped, Cleanings
<1>10. Append(place, name) # <<>>
  BY AppendProperties
<1>11. Shaped([st EXCEPT !.out = Append(out, name), !.starts = Odd(Len(Append(place, name)))],
              Append(place, name), dst_len)
  BY <1>5, <1>6, <1>7, <1>10, ShapedSet
<1> QED
  BY <1>9, <1>11

LEMMA ShapedSegment ==
  ASSUME NEW place \in Seq(Plain), NEW dst_len, NEW st, Shaped(st, place, dst_len),
         NEW name \in Names, CleanSegment(st, name) # Fail
  PROVE  Shaped(CleanSegment(st, name), Onward(place, name), dst_len)
<1>0. st # Fail /\ st.absolute /\ (st.starts = <<>> <=> place = <<>>) /\ name # "/"
  BY ShapedOut, TokensFacts DEF Shaped
<1>1. CASE name = "."
  BY <1>0, <1>1 DEF CleanSegment, Onward
<1>2. CASE name = ".." /\ place = <<>>
  BY <1>0, <1>2 DEF CleanSegment, Onward
<1>3. CASE name = ".." /\ place # <<>>
  BY <1>0, <1>3, ShapedPop DEF CleanSegment, Onward
<1>4. CASE name \notin {".", ".."}
  <2>1. name \in Plain
    BY <1>4 DEF Plain
  <2>2. CleanSegment(st, name) = Push(st, name) /\ Onward(place, name) = Append(place, name)
    BY <1>0, <1>4 DEF CleanSegment, Onward
  <2> QED
    BY <2>1, <2>2, ShapedPush
<1> QED
  BY <1>1, <1>2, <1>3, <1>4

\* The cleaner's state after the tokens of an absolute text.
After(text, dst_len) == Cleaner!Fold(CleanStart(TRUE, dst_len), Segments(text))

LEMMA AfterEmpty == \A dst_len : After(<<>>, dst_len) = CleanStart(TRUE, dst_len)
BY SegmentsEmpty, Cleaner!FoldEmpty DEF After

LEMMA AfterAppend ==
  ASSUME NEW text \in Paths, NEW token \in Tokens, NEW dst_len
  PROVE  After(Append(text, token), dst_len) =
           IF token = "/" THEN After(text, dst_len)
           ELSE CleanSegment(After(text, dst_len), token)
<1>1. Segments(text) \in Seq(Names) /\ (token # "/" => token \in Names)
  BY SegmentsType, TokensFacts
<1>2. token # "/" => Cleaner!Fold(CleanStart(TRUE, dst_len), Append(Segments(text), token))
          = CleanSegment(Cleaner!Fold(CleanStart(TRUE, dst_len), Segments(text)), token)
  BY <1>1, Cleaner!FoldAppend
<1> QED
  BY <1>2, SegmentsAppend DEF After

LEMMA AfterIsShaped ==
  ASSUME NEW dst_len \in Nat
  PROVE  \A text \in Paths :
           \/ After(text, dst_len) = Fail
           \/ Shaped(After(text, dst_len), Walk(<<>>, text), dst_len)
<1> DEFINE Ok(text) == \/ After(text, dst_len) = Fail
                       \/ Shaped(After(text, dst_len), Walk(<<>>, text), dst_len)
           T == {text \in Paths : Ok(text)}
<1>1. <<>> \in T
  BY TokensFacts, EmptySeq, AfterEmpty, ShapedStart, WalkEmpty
<1>2. ASSUME NEW text \in Seq(Tokens) \cap T, NEW token \in Tokens
      PROVE  Append(text, token) \in T
  <2>1. text \in Paths /\ Append(text, token) \in Paths
    BY TokensFacts, AppendProperties
  <2>2. Walk(<<>>, Append(text, token)) = Onward(Walk(<<>>, text), token)
    BY <2>1, WalkAppend
  <2>3. Walk(<<>>, text) \in Seq(Plain)
    BY <2>1, EmptySeq, WalkType
  <2>4. CASE token = "/"
    BY <2>1, <2>2, <2>4, AfterAppend DEF Onward
  <2>5. CASE token # "/" /\ After(text, dst_len) = Fail
    BY <2>1, <2>5, AfterAppend DEF CleanSegment
  <2>6. CASE token # "/" /\ Shaped(After(text, dst_len), Walk(<<>>, text), dst_len)
    <3>1. After(Append(text, token), dst_len) = CleanSegment(After(text, dst_len), token)
          /\ token \in Names
      BY <2>1, <2>6, AfterAppend, TokensFacts
    <3> QED
      BY <2>1, <2>2, <2>3, <2>6, <3>1, ShapedSegment
  <2> QED
    BY <2>4, <2>5, <2>6
<1>3. Seq(Tokens) \subseteq T
  <2> HIDE DEF T
  <2> QED
    BY <1>1, <1>2, Cut!SeqInduction
<1> QED
  BY <1>3, TokensFacts

\* Cleaning an absolute text keeps what it names, in buffers of every size: the
\* result is the text of the place the kernel would have gone to, or that text with
\* the slash that a last ".." leaves.
THEOREM CleanedAbsolute ==
  ASSUME NEW text \in Paths, Absolute(text), NEW dst_len \in Nat,
         clean_path_into(text, dst_len) # Fail
  PROVE  LET cleaned == clean_path_into(text, dst_len)
             place   == Walk(<<>>, text)
         IN /\ cleaned \in {TextOf(place), Append(Slashed(place), "/")}
            /\ cleaned \in Paths /\ Absolute(cleaned) /\ Segments(cleaned) = place
<1> DEFINE place == Walk(<<>>, text)
           st    == After(text, dst_len)
<1>1. st = FoldLeft(CleanSegment, CleanStart(TRUE, dst_len), Segments(text))
  BY CleanIsFold DEF After
<1>2. st # Fail
  BY <1>1 DEF clean_path_into
<1>3. Shaped(st, place, dst_len) /\ place \in Seq(Plain)
  BY <1>2, AfterIsShaped, EmptySeq, WalkType
<1>4. st.out # <<>> /\ st.out \in Paths
  BY <1>3, ShapedOut
<1>5. clean_path_into(text, dst_len) = st.out
  BY <1>1, <1>4 DEF clean_path_into
<1> HIDE DEF place, st
<1>6. Slashed(place) \in Paths /\ place \in Seq(Names)
  BY <1>3, PlainSeq, SlashedType
<1>7. TextOf(place) = IF place = <<>> THEN <<"/">> ELSE Slashed(place)
  BY DEF TextOf, Slashed
<1>8. st.out = Append(Slashed(place), "/") \/ (st.out = TextOf(place) /\ st.out = Slashed(place))
  BY <1>3, <1>7 DEF Shaped
<1>9. Segments(st.out) = place
  BY <1>6, <1>8, SegmentsOfSlashed, SegmentsAppend, TokensFacts
<1>10. st.out[1] = "/"
  <2>1. CASE place = <<>>
    <3>1. Append(<<>>, "/")[1] = "/"
      OBVIOUS
    <3> QED
      BY <1>3, <2>1, <3>1, SlashedEmpty DEF Shaped
  <2>2. CASE place # <<>>
    BY <1>3, <1>6, <2>2, SlashedFirst DEF Shaped
  <2> QED
    BY <2>1, <2>2
<1>11. Absolute(st.out)
  BY <1>4, <1>10, PathTextAssumption DEF Absolute
<1>12. st.out \in {TextOf(place), Append(Slashed(place), "/")}
  BY <1>8
<1> QED
  BY <1>4, <1>5, <1>9, <1>11, <1>12 DEF place

-----------------------------------------------------------------------------
(***************************************************************************)
(* Matching a prefix and putting another one in its place.                 *)
(***************************************************************************)
\* The odd tokens of the text of a place are slashes, the even ones its names.
LEMMA SlashedAt ==
  \A place \in Seq(Names) : \A i \in 1..Len(place) :
    Slashed(place)[2 * i - 1] = "/" /\ Slashed(place)[2 * i] = place[i]
<1> DEFINE At(place) == \A i \in 1..Len(place) :
                          Slashed(place)[2 * i - 1] = "/" /\ Slashed(place)[2 * i] = place[i]
           T == {place \in Seq(Names) : At(place)}
<1>1. <<>> \in T
  BY EmptySeq
<1>2. ASSUME NEW place \in Seq(Names) \cap T, NEW name \in Names
      PROVE  Append(place, name) \in T
  <2> DEFINE n == Len(place)  text == Slashed(place)  cut == Append(text, "/")
  <2>1. n \in Nat /\ Append(place, name) \in Seq(Names) /\ Len(Append(place, name)) = n + 1
        /\ Append(place, name)[n + 1] = name /\ \A i \in 1..n : Append(place, name)[i] = place[i]
    BY LenProperties, AppendProperties
  <2>2. text \in Seq(Tokens) /\ "/" \in Tokens /\ name \in Tokens /\ Len(text) = 2 * n
    BY SlashedType, SlashedLen, TokensFacts
  <2>3. Slashed(Append(place, name)) = Append(cut, name)
    BY SlashedNext
  <2>4. \A i \in 1..n : text[2 * i - 1] = "/" /\ text[2 * i] = place[i]
    OBVIOUS
  <2> HIDE DEF text, n
  <2>5. cut \in Seq(Tokens) /\ Len(cut) = 2 * n + 1 /\ cut[2 * n + 1] = "/"
        /\ \A i \in 1..(2 * n) : cut[i] = text[i]
    BY <2>2, AppendProperties
  <2> HIDE DEF cut
  <2>6. Append(cut, name)[2 * n + 2] = name
        /\ \A i \in 1..(2 * n + 1) : Append(cut, name)[i] = cut[i]
    BY <2>2, <2>5, AppendProperties
  <2>7. ASSUME NEW i \in 1..(n + 1)
        PROVE  /\ Append(cut, name)[2 * i - 1] = "/"
               /\ Append(cut, name)[2 * i] = Append(place, name)[i]
    <3>1. CASE i \in 1..n
      <4>1. ASSUME NEW j \in 1..(2 * n) PROVE Append(cut, name)[j] = text[j]
        BY <2>1, <2>5, <2>6
      <4>2. 2 * i - 1 \in 1..(2 * n) /\ 2 * i \in 1..(2 * n)
        BY <2>1, <3>1
      <4>3. Append(cut, name)[2 * i - 1] = text[2 * i - 1] /\ Append(cut, name)[2 * i] = text[2 * i]
        BY <4>1, <4>2
      <4> QED
        BY <2>1, <2>4, <3>1, <4>3
    <3>2. CASE i = n + 1
      <4>1. 2 * i - 1 = 2 * n + 1 /\ 2 * i = 2 * n + 2 /\ 2 * n + 1 \in 1..(2 * n + 1)
        BY <2>1, <3>2
      <4>2. Append(cut, name)[2 * i - 1] = "/"
        BY <2>5, <2>6, <4>1
      <4>3. Append(cut, name)[2 * i] = name /\ Append(place, name)[i] = name
        BY <2>1, <2>6, <3>2, <4>1
      <4> QED
        BY <4>2, <4>3
    <3>3. i \in 1..n \/ i = n + 1
      <4>1. n \in Nat
        BY <2>1
      <4> QED
        BY <4>1
    <3> QED
      BY <3>1, <3>2, <3>3
  <2> QED
    BY <2>1, <2>3, <2>7 DEF n
<1>3. Seq(Names) \subseteq T
  <2> HIDE DEF T
  <2> QED
    BY <1>1, <1>2, Cut!SeqInduction
<1> QED
  BY <1>3

\* Comparing texts token by token, path_matches_prefix finds exactly the places at
\* or below the one the prefix names.
LEMMA MatchesIsUnder ==
  ASSUME NEW place \in Seq(Plain), NEW top \in Seq(Plain), top # <<>>,
         NEW text \in {Slashed(place), Append(Slashed(place), "/")}
  PROVE  path_matches_prefix(text, Slashed(top)) <=> Under(place, top)
<1> DEFINE m == Len(top)  n == Len(place)  prefix == Slashed(top)
<1>1. place \in Seq(Names) /\ top \in Seq(Names) /\ m \in Nat \ {0} /\ n \in Nat
  BY PlainSeq, LenProperties, EmptySeq
<1>2. /\ prefix \in Seq(Tokens) /\ Len(prefix) = 2 * m /\ DOMAIN prefix = 1..(2 * m)
      /\ \A i \in 1..m : prefix[2 * i - 1] = "/" /\ prefix[2 * i] = top[i]
  BY <1>1, SlashedType, SlashedLen, SlashedAt, TokensFacts, LenProperties
<1>3. /\ text \in Seq(Tokens) /\ Len(text) \in {2 * n, 2 * n + 1}
      /\ \A i \in 1..n : text[2 * i - 1] = "/" /\ text[2 * i] = place[i]
      /\ Len(text) = 2 * n + 1 => text[2 * n + 1] = "/"
  <2> DEFINE t == Slashed(place)
  <2>1. /\ t \in Seq(Tokens) /\ Len(t) = 2 * n /\ "/" \in Tokens
        /\ \A i \in 1..n : t[2 * i - 1] = "/" /\ t[2 * i] = place[i]
    BY <1>1, SlashedType, SlashedLen, SlashedAt, TokensFacts
  <2>0. n \in Nat
    BY <1>1
  <2> HIDE DEF t, n
  <2>2. /\ Append(t, "/") \in Seq(Tokens) /\ Len(Append(t, "/")) = 2 * n + 1
        /\ Append(t, "/")[2 * n + 1] = "/"
        /\ \A i \in 1..(2 * n) : Append(t, "/")[i] = t[i]
    BY <2>0, <2>1, AppendProperties
  <2>3. \A i \in 1..n : 2 * i - 1 \in 1..(2 * n) /\ 2 * i \in 1..(2 * n)
    BY <1>1
  <2>4. text \in {t, Append(t, "/")}
    BY DEF t
  <2>5. CASE text = t
    BY <1>1, <2>1, <2>5
  <2>6. CASE text = Append(t, "/")
    BY <2>1, <2>2, <2>3, <2>6
  <2> QED
    BY <2>4, <2>5, <2>6
<1>4. /\ Last(prefix) = prefix[2 * m] /\ 2 * m \in 1..(2 * m)
      /\ Under(place, top) <=> m <= n /\ \A i \in 1..m : top[i] = place[i]
  <2>1. Under(place, top) <=> m <= n /\ SubSeq(top, 1, m) = SubSeq(place, 1, m)
    BY DEF Under, IsPrefix
  <2>2. ASSUME m <= n
        PROVE  SubSeq(top, 1, m) = SubSeq(place, 1, m) <=> \A i \in 1..m : top[i] = place[i]
    <3>1. SubSeq(top, 1, m) = top
      BY SubSeqFull
    <3>2. /\ SubSeq(place, 1, m) \in Seq(Names) /\ Len(SubSeq(place, 1, m)) = m
          /\ \A i \in 1..m : SubSeq(place, 1, m)[i] = place[i]
      <4>1. \A i \in 1..m : place[i] \in Names
        BY <1>1, <2>2, ElementOfSeq
      <4> QED
        BY <1>1, <4>1, SubSeqProperties
    <3>3. (\A i \in 1..m : top[i] = SubSeq(place, 1, m)[i]) => top = SubSeq(place, 1, m)
      BY <1>1, <3>2, SeqEqual
    <3> QED
      BY <3>1, <3>2, <3>3
  <2> QED
    BY <1>1, <1>2, <2>1, <2>2 DEF Last
<1> HIDE DEF prefix, m, n
<1>5. path_matches_prefix(text, prefix) <=>
        /\ 2 * m <= Len(text)
        /\ \A i \in 1..(2 * m) : text[i] = prefix[i]
        /\ Len(text) = 2 * m \/ text[2 * m + 1] = "/"
  BY <1>1, <1>2, <1>4 DEF path_matches_prefix, SameCharacters
<1>6. ASSUME path_matches_prefix(text, prefix)
      PROVE  m <= n /\ \A i \in 1..m : top[i] = place[i]
  <2>1. 2 * m <= Len(text) /\ \A i \in 1..(2 * m) : text[i] = prefix[i]
    BY <1>5, <1>6
  <2>2. m <= n
    BY <1>1, <1>3, <2>1
  <2>3. ASSUME NEW i \in 1..m PROVE top[i] = place[i]
    <3>1. 2 * i \in 1..(2 * m) /\ i \in 1..n
      BY <1>1, <2>2
    <3> QED
      BY <1>2, <1>3, <2>1, <3>1
  <2> QED
    BY <2>2, <2>3
<1>7. ASSUME m <= n, \A i \in 1..m : top[i] = place[i]
      PROVE  path_matches_prefix(text, prefix)
  <2>1. 2 * m <= Len(text)
    BY <1>1, <1>3, <1>7
  <2>2. ASSUME NEW i \in 1..(2 * m) PROVE text[i] = prefix[i]
    <3>1. PICK j \in 1..m : i = 2 * j - 1 \/ i = 2 * j
      <4>1. CASE \E j \in 1..m : i = 2 * j
        BY <4>1
      <4>2. CASE i % 2 = 1
        <5>1. (i + 1) \div 2 \in 1..m /\ i = 2 * ((i + 1) \div 2) - 1
          BY <1>1, <4>2
        <5> QED
          BY <5>1
      <4>3. CASE i % 2 = 0
        <5>1. i \div 2 \in 1..m /\ i = 2 * (i \div 2)
          BY <1>1, <4>3
        <5> QED
          BY <5>1
      <4> QED
        BY <1>1, <4>2, <4>3
    <3>2. j \in 1..n
      BY <1>1, <1>7
    <3> QED
      BY <1>2, <1>3, <1>7, <3>1, <3>2
  <2>3. Len(text) = 2 * m \/ text[2 * m + 1] = "/"
    <3>1. CASE m = n
      BY <1>1, <1>3, <3>1
    <3>2. CASE m < n
      <4>1. m + 1 \in 1..n /\ 2 * (m + 1) - 1 = 2 * m + 1
        BY <1>1, <3>2
      <4> QED
        BY <1>3, <4>1
    <3> QED
      BY <1>1, <1>7, <3>1, <3>2
  <2> QED
    BY <1>5, <2>1, <2>2, <2>3
<1> QED
  BY <1>4, <1>6, <1>7 DEF prefix

LEMMA ConcatAppend ==
  ASSUME NEW X, NEW s \in Seq(X), NEW t \in Seq(X), NEW e \in X
  PROVE  s \o Append(t, e) = Append(s \o t, e)
OBVIOUS

LEMMA SuffixOfConcat ==
  ASSUME NEW X, NEW s \in Seq(X), NEW t \in Seq(X)
  PROVE  SubSeq(s \o t, Len(s) + 1, Len(s \o t)) = t
<1> DEFINE both == s \o t  suffix == SubSeq(both, Len(s) + 1, Len(both))
<1>1. /\ both \in Seq(X) /\ Len(both) = Len(s) + Len(t) /\ Len(s) \in Nat /\ Len(t) \in Nat
      /\ \A i \in 1..(Len(s) + Len(t)) : both[i] = IF i <= Len(s) THEN s[i] ELSE t[i - Len(s)]
  BY ConcatProperties, LenProperties
<1> HIDE DEF both
<1>2. \A i \in (Len(s) + 1)..Len(both) : both[i] \in X
  BY <1>1, ElementOfSeq
<1>3. /\ suffix \in Seq(X) /\ Len(suffix) = Len(t)
      /\ \A i \in 1..Len(t) : suffix[i] = both[Len(s) + i]
  BY <1>1, <1>2, SubSeqProperties
<1>4. \A i \in 1..Len(t) : both[Len(s) + i] = t[i]
  BY <1>1
<1> HIDE DEF suffix
<1>5. suffix = t
  BY <1>1, <1>3, <1>4, SeqEqual
<1> QED
  BY <1>5 DEF suffix, both

\* A place at or below top is top and what follows.
LEMMA UnderIsConcat ==
  ASSUME NEW place \in Seq(Plain), NEW top \in Seq(Plain), Under(place, top)
  PROVE  \E rest \in Seq(Plain) :
           place = top \o rest /\ \A other : Carry(place, top, other) = other \o rest
<1> DEFINE m == Len(top)  n == Len(place)  rest == SubSeq(place, m + 1, n)
<1>1. m \in Nat /\ n \in Nat /\ m <= n /\ SubSeq(top, 1, m) = SubSeq(place, 1, m)
  BY LenProperties DEF Under, IsPrefix
<1>2. SubSeq(place, 1, m) = top
  BY <1>1, SubSeqFull
<1>3. SubSeq(place, 1, m) \o rest = SubSeq(place, 1, n) /\ SubSeq(place, 1, n) = place
  <2>1. 1 \in 1..n+1 /\ m \in 1-1..n /\ n \in m..n
    BY <1>1
  <2> QED
    BY <2>1, ConcatAdjacentSubSeq, SubSeqFull
<1>4. rest \in Seq(Plain)
  <2>1. \A i \in (m + 1)..n : place[i] \in Plain
    BY <1>1, ElementOfSeq
  <2> QED
    BY <1>1, <2>1, SubSeqProperties
<1>5. \A other : Carry(place, top, other) = other \o rest
  BY DEF Carry
<1> QED
  BY <1>2, <1>3, <1>4, <1>5

\* The text of a place with the slash that another text of a place has, if any.
Tailed(mapped, text, place) ==
  IF text = Slashed(place) THEN Slashed(mapped) ELSE Append(Slashed(mapped), "/")

\* A substitution leads from a place below old to the corresponding one below new,
\* and is refused only for a place elsewhere or for lack of room. What cleaning left
\* of a last ".." stays.
LEMMA SubstituteMaps ==
  ASSUME NEW place \in Seq(Plain), NEW old \in Seq(Plain), NEW new \in Seq(Plain),
         old # <<>>, NEW policy, policy.enabled, NEW dst_len \in Nat,
         NEW text, text = Slashed(place) \/ text = Append(Slashed(place), "/")
  PROVE  /\ Under(place, old) => /\ Carry(place, old, new) \in Seq(Plain)
                                 /\ Tailed(Carry(place, old, new), text, place) \in Paths
         /\ Substitute(policy, text, Slashed(old), Slashed(new), dst_len) =
              IF /\ Under(place, old)
                 /\ Length(Tailed(Carry(place, old, new), text, place)) + 1 <= dst_len
              THEN Tailed(Carry(place, old, new), text, place) ELSE Fail
<1> DEFINE result == Substitute(policy, text, Slashed(old), Slashed(new), dst_len)
           mapped == Carry(place, old, new)
           tailed == Tailed(mapped, text, place)
<1>1. path_matches_prefix(text, Slashed(old)) <=> Under(place, old)
  BY MatchesIsUnder
<1>2. CASE ~ Under(place, old)
  BY <1>1, <1>2 DEF Substitute
<1>3. CASE Under(place, old)
  <2>0. PICK rest \in Seq(Plain) :
          place = old \o rest /\ \A other : Carry(place, old, other) = other \o rest
    BY <1>3, UnderIsConcat
  <2>1. place = old \o rest /\ mapped = new \o rest
    BY <2>0
  <2>2. /\ old \in Seq(Names) /\ new \in Seq(Names) /\ rest \in Seq(Names) /\ "/" \in Tokens
        /\ mapped \in Seq(Plain)
    BY <2>1, PlainSeq, TokensFacts, ConcatProperties
  <2>3. /\ Slashed(place) = Slashed(old) \o Slashed(rest)
        /\ Slashed(mapped) = Slashed(new) \o Slashed(rest)
    BY <2>1, <2>2, SlashedConcat
  <2> HIDE DEF mapped
  <2> DEFINE o == Slashed(old)  n == Slashed(new)  r == Slashed(rest)
             suffix == IF text = Slashed(place) THEN r ELSE Append(r, "/")
  <2>4. o \in Seq(Tokens) /\ n \in Seq(Tokens) /\ r \in Seq(Tokens) /\ suffix \in Seq(Tokens)
    BY <2>2, SlashedType, TokensFacts, AppendProperties
  <2>5. text = o \o suffix /\ tailed = n \o suffix
    <3> HIDE DEF o, n, r
    <3>0. \A s, t \in Seq(Tokens) : s \o Append(t, "/") = Append(s \o t, "/")
      BY TokensFacts, ConcatAppend
    <3>1. Append(o \o r, "/") = o \o Append(r, "/") /\ Append(n \o r, "/") = n \o Append(r, "/")
      BY <2>4, <3>0, Zenon
    <3>2. Slashed(place) = o \o r /\ Slashed(mapped) = n \o r
      BY <2>3 DEF o, n, r
    <3> QED
      BY <3>1, <3>2 DEF Tailed
  <2> HIDE DEF o, n, r, suffix, tailed
  <2>6. SubSeq(text, Len(o) + 1, Len(text)) = suffix
    BY <2>4, <2>5, SuffixOfConcat
  <2>7. Length(n) + Length(suffix) = Length(tailed) /\ tailed \in Paths
    BY <2>4, <2>5, LengthConcat, TokensFacts, ConcatProperties
  <2>8. result = IF Length(n) + Length(suffix) + 1 > dst_len THEN Fail ELSE n \o suffix
    BY <1>1, <1>3, <2>6 DEF Substitute, o, n
  <2>9. Length(tailed) \in Nat
    BY <2>7, LengthType
  <2>10. (Length(tailed) + 1 > dst_len) <=> ~ (Length(tailed) + 1 <= dst_len)
    BY <2>9
  <2> HIDE DEF result
  <2>11. IF Length(tailed) + 1 <= dst_len THEN result = tailed ELSE result = Fail
    BY <2>5, <2>7, <2>8, <2>10
  <2> QED
    BY <1>3, <2>2, <2>7, <2>11 DEF result, tailed, mapped
<1> QED
  BY <1>2, <1>3

-----------------------------------------------------------------------------
(***************************************************************************)
(* What fits: the cleaned path is never longer than the path.              *)
(***************************************************************************)
LEMMA TightAppend ==
  ASSUME NEW text \in Paths, NEW token \in Tokens
  PROVE  Tight(Append(text, token)) <=>
           Tight(text) /\ (text = <<>> \/ Last(text) = "/" \/ token = "/")
<1> DEFINE n == Len(text)  longer == Append(text, token)
<1>1. /\ n \in Nat /\ Len(longer) = n + 1 /\ longer[n + 1] = token
      /\ \A i \in 1..n : longer[i] = text[i]
      /\ text = <<>> <=> n = 0
      /\ Last(text) = text[n]
  BY TokensFacts, AppendProperties, LenProperties, EmptySeq DEF Last
<1> HIDE DEF longer
<1>2. Tight(longer) <=> \A i \in 1..n : longer[i] = "/" \/ longer[i + 1] = "/"
  BY <1>1 DEF Tight
<1>3. Tight(text) <=> \A i \in 1..(n - 1) : text[i] = "/" \/ text[i + 1] = "/"
  BY DEF Tight
<1> HIDE DEF n
<1>4. ASSUME Tight(longer)
      PROVE  Tight(text) /\ (n = 0 \/ text[n] = "/" \/ token = "/")
  <2>1. ASSUME NEW i \in 1..(n - 1) PROVE text[i] = "/" \/ text[i + 1] = "/"
    <3>1. i \in 1..n /\ i + 1 \in 1..n
      BY <1>1
    <3> QED
      BY <1>1, <1>2, <1>4, <3>1
  <2>2. n = 0 \/ n \in 1..n
    BY <1>1
  <2>3. n \in 1..n => text[n] = "/" \/ token = "/"
    BY <1>1, <1>2, <1>4
  <2> QED
    BY <1>3, <2>1, <2>2, <2>3
<1>5. ASSUME Tight(text), n = 0 \/ text[n] = "/" \/ token = "/"
      PROVE  Tight(longer)
  <2>1. ASSUME NEW i \in 1..n PROVE longer[i] = "/" \/ longer[i + 1] = "/"
    <3>1. i = n \/ (i \in 1..(n - 1) /\ i + 1 \in 1..n)
      BY <1>1
    <3>2. CASE i = n
      BY <1>1, <1>5, <3>2
    <3>3. CASE i \in 1..(n - 1) /\ i + 1 \in 1..n
      BY <1>1, <1>3, <1>5, <3>3
    <3> QED
      BY <3>1, <3>2, <3>3
  <2> QED
    BY <1>2, <2>1
<1> QED
  BY <1>1, <1>4, <1>5 DEF longer

LEMMA TightSlashed == \A place \in Seq(Names) : Tight(Slashed(place))
<1> SUFFICES ASSUME NEW place \in Seq(Names) PROVE Tight(Slashed(place))
  OBVIOUS
<1> DEFINE n == Len(place)  text == Slashed(place)
<1>1. n \in Nat /\ Len(text) = 2 * n /\ \A i \in 1..n : text[2 * i - 1] = "/"
  BY LenProperties, SlashedLen, SlashedAt
<1> HIDE DEF n, text
<1>2. ASSUME NEW i \in 1..(2 * n - 1) PROVE text[i] = "/" \/ text[i + 1] = "/"
  <2>1. CASE i % 2 = 1
    <3>1. (i + 1) \div 2 \in 1..n /\ i = 2 * ((i + 1) \div 2) - 1
      BY <1>1, <2>1
    <3> QED
      BY <1>1, <3>1
  <2>2. CASE i % 2 = 0
    <3>1. i \div 2 + 1 \in 1..n /\ i + 1 = 2 * (i \div 2 + 1) - 1
      BY <1>1, <2>2
    <3> QED
      BY <1>1, <3>1
  <2> QED
    BY <1>1, <2>1, <2>2
<1> QED
  BY <1>1, <1>2 DEF Tight, text

\* One token makes a place longer by the slash and the name at most.
LEMMA OnwardLength ==
  ASSUME NEW place \in Seq(Plain), NEW token \in Tokens
  PROVE  Length(Slashed(Onward(place, token))) <=
           Length(Slashed(place)) + (IF token \in Plain THEN 1 + Characters(token) ELSE 0)
<1>1. Length(Slashed(place)) \in Nat
  BY PlainSeq, SlashedType, LengthType
<1>2. \A rest \in Seq(Plain), name \in Plain :
        /\ Length(Slashed(rest)) \in Nat /\ Characters(name) \in Nat
        /\ Length(Slashed(Append(rest, name))) = Length(Slashed(rest)) + 1 + Characters(name)
  <2> TAKE rest \in Seq(Plain), name \in Plain
  <2>1. /\ rest \in Seq(Names) /\ name \in Names /\ name \in Tokens /\ "/" \in Tokens
        /\ Slashed(rest) \in Paths /\ Append(Slashed(rest), "/") \in Paths
    BY PlainSeq, TokensFacts, SlashedType, AppendProperties
  <2>2. Slashed(Append(rest, name)) = Append(Append(Slashed(rest), "/"), name)
    BY <2>1, SlashedNext
  <2>3. /\ Length(Append(Slashed(rest), "/")) = Length(Slashed(rest)) + 1
        /\ Length(Append(Append(Slashed(rest), "/"), name))
             = Length(Append(Slashed(rest), "/")) + Characters(name)
    BY <2>1, LengthAppend DEF Characters
  <2>4. Length(Slashed(rest)) \in Nat /\ Characters(name) \in Nat
    BY <2>1, LengthType, CharactersType
  <2> QED
    BY <2>2, <2>3, <2>4
<1>3. CASE token \in Plain
  <2>1. Onward(place, token) = Append(place, token)
    BY <1>3, TokensFacts DEF Onward, Plain
  <2> QED
    BY <1>1, <1>2, <1>3, <2>1
<1>4. CASE token \notin Plain /\ Onward(place, token) = place
  BY <1>1, <1>4
<1>5. CASE token \notin Plain /\ Onward(place, token) # place
  <2>1. place # <<>> /\ Onward(place, token) = Front(place)
    BY <1>5, TokensFacts DEF Onward, Plain
  <2>2. PICK rest \in Seq(Plain), name \in Plain : place = Append(rest, name)
    BY <2>1, SequenceEmptyOrAppend
  <2>3. Front(place) = rest
    BY <2>2, FrontOfAppend
  <2>4. /\ Length(Slashed(rest)) \in Nat /\ Characters(name) \in Nat
        /\ Length(Slashed(place)) = Length(Slashed(rest)) + 1 + Characters(name)
    BY <1>2, <2>2
  <2> QED
    BY <1>5, <2>1, <2>3, <2>4
<1> QED
  BY <1>3, <1>4, <1>5

\* A path is never shorter than the place it leads to from the root.
LEMMA WalkShorter ==
  ASSUME NEW text \in Paths, text # <<>>, text[1] = "/", Tight(text)
  PROVE  Length(Slashed(Walk(<<>>, text))) + (IF Last(text) \in Plain THEN 0 ELSE 1)
           <= Length(text)
<1> DEFINE Ok(t) == t # <<>> /\ t[1] = "/" /\ Tight(t) =>
                      Length(Slashed(Walk(<<>>, t))) + (IF Last(t) \in Plain THEN 0 ELSE 1)
                        <= Length(t)
           T == {t \in Paths : Ok(t)}
<1>1. <<>> \in T
  BY EmptySeq, TokensFacts
<1>2. ASSUME NEW t \in Seq(Tokens) \cap T, NEW token \in Tokens
      PROVE  Append(t, token) \in T
  <2>1. t \in Paths /\ Append(t, token) \in Paths
    BY TokensFacts, AppendProperties
  <2> SUFFICES ASSUME Append(t, token)[1] = "/", Tight(Append(t, token)) PROVE Ok(Append(t, token))
    BY <2>1
  <2> DEFINE here == Walk(<<>>, t)  there == Onward(here, token)
  <2>2. Walk(<<>>, Append(t, token)) = there /\ here \in Seq(Plain) /\ there \in Seq(Plain)
    BY <2>1, EmptySeq, WalkAppend, WalkType, OnwardType
  <2>3. /\ Length(Append(t, token)) = Length(t) + Characters(token)
        /\ Length(t) \in Nat /\ Characters(token) \in Nat \ {0}
        /\ Length(Slashed(here)) \in Nat /\ Length(Slashed(there)) \in Nat
    BY <2>1, <2>2, LengthAppend, LengthType, CharactersType, PlainSeq, SlashedType
  <2>4. Last(Append(t, token)) = token
    BY <2>1, FrontOfAppend
  <2>5. Tight(t) /\ (t = <<>> \/ Last(t) = "/" \/ token = "/")
    BY <2>1, TightAppend
  <2>6. Length(Slashed(there)) <=
          Length(Slashed(here)) + (IF token \in Plain THEN 1 + Characters(token) ELSE 0)
    BY <2>2, OnwardLength
  <2>7. "/" \notin Plain
    BY TokensFacts
  <2>8. CASE t = <<>>
    <3>1. token = "/"
      BY <2>8
    <3>2. here = <<>> /\ there = <<>> /\ Slashed(<<>>) = <<>> /\ Length(<<>>) = 0
      BY <2>8, <3>1, WalkEmpty, SlashedEmpty, LengthEmpty DEF Onward
    <3> HIDE DEF here, there
    <3>3. Length(Slashed(there)) + (IF token \in Plain THEN 0 ELSE 1)
            <= Length(Append(t, token))
      BY <2>3, <2>7, <3>1, <3>2
    <3> QED
      BY <2>2, <2>4, <3>3
  <2>9. CASE t # <<>>
    <3>1. t[1] = "/"
      <4>1. Len(t) \in Nat /\ Len(t) >= 1
        BY <2>9, EmptySeq, LenProperties
      <4> QED
        BY <4>1, AppendProperties
    <3>2. Length(Slashed(here)) + (IF Last(t) \in Plain THEN 0 ELSE 1) <= Length(t)
      BY <2>5, <2>9, <3>1
    <3> HIDE DEF here, there
    <3>3. Length(Slashed(there)) + (IF token \in Plain THEN 0 ELSE 1)
            <= Length(Append(t, token))
      <4>1. CASE token \in Plain
        <5>1. Last(t) = "/"
          BY <2>5, <2>7, <2>9, <4>1
        <5> QED
          BY <2>3, <2>6, <2>7, <3>2, <4>1, <5>1
      <4>2. CASE token \notin Plain
        <5>1. Length(Slashed(here)) <= Length(t)
          BY <2>3, <3>2
        <5> QED
          BY <2>3, <2>6, <4>2, <5>1
      <4> QED
        BY <4>1, <4>2
    <3> QED
      BY <2>2, <2>4, <3>3
  <2> QED
    BY <2>8, <2>9
<1>3. Seq(Tokens) \subseteq T
  <2> HIDE DEF T
  <2> QED
    BY <1>1, <1>2, Cut!SeqInduction
<1> QED
  BY <1>3, TokensFacts

LEMMA PlaceShorter == \A place \in Seq(Names) : Len(place) <= Length(Slashed(place))
<1> DEFINE T == {place \in Seq(Names) : Len(place) <= Length(Slashed(place))}
<1>1. <<>> \in T
  BY EmptySeq, SlashedEmpty, LengthEmpty
<1>2. ASSUME NEW place \in Seq(Names) \cap T, NEW name \in Names
      PROVE  Append(place, name) \in T
  <2> DEFINE cut == Append(Slashed(place), "/")
  <2>1. /\ Slashed(place) \in Paths /\ cut \in Paths /\ name \in Tokens /\ "/" \in Tokens
        /\ Slashed(Append(place, name)) = Append(cut, name)
    BY SlashedType, SlashedNext, TokensFacts, AppendProperties
  <2>2. /\ Length(cut) = Length(Slashed(place)) + Characters("/")
        /\ Length(Slashed(place)) \in Nat /\ Characters("/") \in Nat \ {0}
        /\ Characters(name) \in Nat
    BY <2>1, LengthAppend, LengthType, CharactersType
  <2> HIDE DEF cut
  <2>3. Length(Append(cut, name)) = Length(cut) + Characters(name)
    BY <2>1, LengthAppend
  <2>4. /\ Append(place, name) \in Seq(Names) /\ Len(Append(place, name)) = Len(place) + 1
        /\ Len(place) \in Nat
    BY AppendProperties, LenProperties
  <2>5. Len(place) <= Length(Slashed(place))
    OBVIOUS
  <2>6. Len(place) + 1 <= Length(Append(cut, name))
    BY <2>2, <2>3, <2>4, <2>5
  <2> QED
    BY <2>1, <2>4, <2>6
<1>3. Seq(Names) \subseteq T
  <2> HIDE DEF T
  <2> QED
    BY <1>1, <1>2, Cut!SeqInduction
<1> QED
  BY <1>3

\* Room enough for the next name.
LEMMA PushFits ==
  ASSUME NEW place \in Seq(Plain), NEW dst_len \in Nat, dst_len <= PATH_MAX,
         NEW st, Shaped(st, place, dst_len), NEW name \in Plain,
         Length(Slashed(place)) + 1 + Characters(name) < dst_len
  PROVE  Push(st, name) # Fail
<1> DEFINE slash == st.out # <<>> /\ Last(st.out) # "/"
           out   == IF slash THEN Append(st.out, "/") ELSE st.out
           long  == Length(Slashed(place))
<1>1. place \in Seq(Names) /\ name \in Names /\ name \in Tokens /\ "/" \in Tokens
  BY PlainSeq, TokensFacts
<1>2. /\ Slashed(place) \in Paths /\ long \in Nat /\ Characters(name) \in Nat
      /\ Len(place) \in Nat /\ Len(place) <= long /\ PATH_MAX \in Nat
  BY <1>1, SlashedType, LengthType, CharactersType, PlaceShorter, LenProperties, LimitsAssumption
<1>3. st.dst_len = dst_len /\ Len(st.starts) = Len(place)
  BY <1>2, OddIs DEF Shaped
<1>4. Length(Append(Slashed(place), "/")) = long + 1
  BY <1>1, <1>2, LengthAppend DEF Characters
<1>5. out = Append(Slashed(place), "/") /\ (slash => st.out = Slashed(place))
  BY ShapedOut DEF Shaped
<1>6. Push(st, name) = Fail <=>
        \/ Push(st, name) = Fail /\ ~ (\/ Len(st.starts) >= PATH_MAX
                                       \/ slash /\ Length(st.out) + 1 >= st.dst_len
                                       \/ Length(out) + Characters(name) >= st.dst_len)
        \/ Len(st.starts) >= PATH_MAX
        \/ slash /\ Length(st.out) + 1 >= st.dst_len
        \/ Length(out) + Characters(name) >= st.dst_len
  BY DEF Push
<1>7. /\ ~ (Len(st.starts) >= PATH_MAX)
      /\ ~ (slash /\ Length(st.out) + 1 >= st.dst_len)
      /\ ~ (Length(out) + Characters(name) >= st.dst_len)
  <2> HIDE DEF slash, out, long
  <2>1. ~ (Len(st.starts) >= PATH_MAX)
    BY <1>2, <1>3 DEF long
  <2>2. ~ (slash /\ Length(st.out) + 1 >= st.dst_len)
    BY <1>2, <1>3, <1>5 DEF long
  <2>3. ~ (Length(out) + Characters(name) >= st.dst_len)
    BY <1>2, <1>3, <1>4, <1>5 DEF long
  <2> QED
    BY <2>1, <2>2, <2>3
<1>8. Push(st, name) =
        [st EXCEPT !.out = Append(out, name), !.starts = Append(@, Len(out))]
  BY <1>7 DEF Push
<1>9. [st EXCEPT !.out = Append(out, name), !.starts = Append(@, Len(out))] \in Cleanings
  <2>1. /\ st \in Cleanings /\ out \in Paths /\ Len(out) \in Nat
    <3>1. Append(Slashed(place), "/") \in Paths /\ Len(Append(Slashed(place), "/")) \in Nat
      BY <1>1, <1>2, TokensFacts, AppendProperties, LenProperties
    <3> QED
      BY <1>5, <3>1 DEF Shaped
  <2>2. Append(out, name) \in Paths /\ st.starts \in Seq(Nat)
    BY <1>1, <2>1, TokensFacts, AppendProperties DEF Cleanings
  <2>3. Append(st.starts, Len(out)) \in Seq(Nat)
    BY <2>1, <2>2, AppendProperties
  <2> HIDE DEF out
  <2> QED
    BY <2>1, <2>2, <2>3, CleaningsFacts
<1> QED
  BY <1>8, <1>9, PathTextAssumption

\* No text that fits the buffer is refused.
THEOREM WhatFitsIsTaken ==
  ASSUME NEW text \in Paths, Absolute(text), Tight(text), NEW dst_len \in Nat,
         dst_len <= PATH_MAX, Length(text) < dst_len
  PROVE  clean_path_into(text, dst_len) # Fail
<1> DEFINE Ok(t) == t # <<>> /\ t[1] = "/" /\ Tight(t) /\ Length(t) < dst_len =>
                      After(t, dst_len) # Fail
           T == {t \in Paths : Ok(t)}
<1>1. <<>> \in T
  BY EmptySeq, TokensFacts
<1>2. ASSUME NEW t \in Seq(Tokens) \cap T, NEW token \in Tokens
      PROVE  Append(t, token) \in T
  <2>1. t \in Paths /\ Append(t, token) \in Paths
    BY TokensFacts, AppendProperties
  <2> SUFFICES ASSUME Append(t, token)[1] = "/", Tight(Append(t, token)),
                      Length(Append(t, token)) < dst_len
               PROVE  After(Append(t, token), dst_len) # Fail
    BY <2>1
  <2> DEFINE here == Walk(<<>>, t)  st == After(t, dst_len)
  <2>2. here \in Seq(Plain)
    BY <2>1, EmptySeq, WalkType
  <2>3. /\ Length(Append(t, token)) = Length(t) + Characters(token)
        /\ Length(t) \in Nat /\ Characters(token) \in Nat \ {0}
        /\ Length(Slashed(here)) \in Nat
    BY <2>1, <2>2, LengthAppend, LengthType, CharactersType, PlainSeq, SlashedType
  <2>4. Tight(t) /\ (t = <<>> \/ Last(t) = "/" \/ token = "/")
    BY <2>1, TightAppend
  <2>5. st # Fail
    <3>1. CASE t = <<>>
      <4>1. CleanStart(TRUE, dst_len) # Fail
        BY ShapedStart, PathTextAssumption DEF Shaped
      <4> QED
        BY <3>1, <4>1, AfterEmpty
    <3>2. CASE t # <<>>
      <4>1. t[1] = "/"
        <5>1. Len(t) \in Nat /\ Len(t) >= 1
          BY <3>2, EmptySeq, LenProperties
        <5> QED
          BY <5>1, AppendProperties
      <4>2. Length(t) < dst_len
        BY <2>3
      <4> QED
        BY <2>4, <3>2, <4>1, <4>2
    <3> QED
      BY <3>1, <3>2
  <2>6. Shaped(st, here, dst_len)
    BY <2>1, <2>5, AfterIsShaped
  <2>7. /\ token = "/" => After(Append(t, token), dst_len) = st
        /\ token # "/" => After(Append(t, token), dst_len) = CleanSegment(st, token)
    BY <2>1, AfterAppend
  <2> HIDE DEF st
  <2>8. CASE token = "/"
    BY <2>5, <2>7, <2>8
  <2>9. CASE token \in {".", ".."}
    <3>1. token # "/"
      BY <2>9, TokensFacts, PathTextAssumption
    <3>2. here # <<>> => Shaped(Pop(st), Front(here), dst_len)
      BY <2>2, <2>6, ShapedPop
    <3>3. here # <<>> => Pop(st) # Fail
      BY <3>2, PathTextAssumption DEF Shaped
    <3>4. (st.starts = <<>> <=> here = <<>>) /\ st.absolute
      BY <2>2, <2>6, ShapedOut DEF Shaped
    <3>5. CleanSegment(st, token) \in {st, Pop(st)}
          /\ (CleanSegment(st, token) # st => here # <<>> /\ CleanSegment(st, token) = Pop(st))
      BY <2>5, <2>9, <3>4 DEF CleanSegment
    <3> QED
      BY <2>5, <2>7, <3>1, <3>3, <3>5
  <2>10. CASE token \in Plain
    <3>1. token # "/" /\ token \notin {".", ".."} /\ "/" \notin Plain
      BY <2>10, TokensFacts DEF Plain
    <3>2. CleanSegment(st, token) = Push(st, token)
      BY <2>5, <3>1 DEF CleanSegment
    <3>3. Length(Slashed(here)) + 1 <= Length(t)
      <4>1. t # <<>>
        <5>1. SUFFICES ASSUME t = <<>> PROVE FALSE
          OBVIOUS
        <5>2. Append(<<>>, token)[1] = token
          OBVIOUS
        <5> QED
          BY <3>1, <5>1, <5>2
      <4>2. t[1] = "/" /\ Last(t) = "/"
        <5>1. Len(t) \in Nat /\ Len(t) >= 1
          BY <4>1, EmptySeq, LenProperties
        <5>2. Append(t, token)[1] = t[1]
          BY <5>1, AppendProperties
        <5> QED
          BY <2>4, <3>1, <4>1, <5>2
      <4> QED
        BY <2>1, <2>4, <3>1, <4>1, <4>2, WalkShorter
    <3>4. Length(Slashed(here)) + 1 + Characters(token) < dst_len
      <4> HIDE DEF here
      <4> QED
        BY <2>3, <3>3
    <3> QED
      BY <2>2, <2>6, <2>7, <2>10, <3>1, <3>2, <3>4, PushFits
  <2> QED
    BY <2>8, <2>9, <2>10 DEF Plain, Tokens
<1>3. Seq(Tokens) \subseteq T
  <2> HIDE DEF T
  <2> QED
    BY <1>1, <1>2, Cut!SeqInduction
<1>4. After(text, dst_len) # Fail
  BY <1>3, TokensFacts DEF Absolute
<1>5. After(text, dst_len) = FoldLeft(CleanSegment, CleanStart(TRUE, dst_len), Segments(text))
  BY CleanIsFold DEF After
<1>6. Shaped(After(text, dst_len), Walk(<<>>, text), dst_len) /\ Walk(<<>>, text) \in Seq(Plain)
  BY <1>4, AfterIsShaped, EmptySeq, WalkType
<1>7. After(text, dst_len).out # <<>> /\ After(text, dst_len).out # Fail
  BY <1>6, ShapedOut, PathTextAssumption
<1>8. dst_len >= 2
  <2>1. /\ Length(Slashed(Walk(<<>>, text))) + (IF Last(text) \in Plain THEN 0 ELSE 1)
             <= Length(text)
        /\ Length(Slashed(Walk(<<>>, text))) \in Nat /\ Length(text) \in Nat
    BY <1>6, WalkShorter, PlainSeq, SlashedType, LengthType DEF Absolute
  <2>2. Length(text) >= 1
    <3>1. CASE Last(text) \notin Plain
      BY <2>1, <3>1
    <3>2. CASE Length(text) = 0
      <4>1. PICK t \in Seq(Tokens), token \in Tokens : text = Append(t, token)
        BY TokensFacts, SequenceEmptyOrAppend DEF Absolute
      <4>2. /\ Length(text) = Length(t) + Characters(token) /\ Length(t) \in Nat
            /\ Characters(token) \in Nat \ {0}
        BY <4>1, LengthAppend, LengthType, CharactersType, TokensFacts
      <4> QED
        BY <4>2
    <3> QED
      BY <2>1, <3>2
  <2> QED
    BY <2>1, <2>2
<1>9. text # NULL
  BY DEF Absolute
<1>10. dst_len # 0 /\ ~ (dst_len < 2)
  BY <1>8
<1> DEFINE end == After(text, dst_len)
<1>11. /\ end = FoldLeft(CleanSegment, CleanStart(Absolute(text), dst_len), Segments(text))
       /\ end # Fail /\ end.out # <<>> /\ end.out # Fail
  BY <1>4, <1>5, <1>7
<1> HIDE DEF end
<1>12. clean_path_into(text, dst_len) = end.out
  BY <1>9, <1>10, <1>11, Zenon DEF clean_path_into
<1> QED
  BY <1>11, <1>12

\* A text that ends in a plain name is cleaned to the text of its place, without
\* another slash.
THEOREM CleanedExactly ==
  ASSUME NEW text \in Paths, Absolute(text), Last(text) \in Plain, NEW dst_len \in Nat,
         clean_path_into(text, dst_len) # Fail
  PROVE  clean_path_into(text, dst_len) = TextOf(Walk(<<>>, text))
<1> DEFINE place == Walk(<<>>, text)  st == After(text, dst_len)
<1>1. st = FoldLeft(CleanSegment, CleanStart(TRUE, dst_len), Segments(text))
  BY CleanIsFold DEF After
<1>2. st # Fail
  BY <1>1 DEF clean_path_into
<1>3. Shaped(st, place, dst_len) /\ place \in Seq(Plain)
  BY <1>2, AfterIsShaped, EmptySeq, WalkType
<1>4. /\ st.out # <<>> /\ st.out \in Paths
      /\ Last(st.out) = "/" <=> st.out = Append(Slashed(place), "/")
  BY <1>3, ShapedOut
<1>5. clean_path_into(text, dst_len) = st.out
  BY <1>1, <1>4 DEF clean_path_into
<1>6. PICK t \in Seq(Tokens), token \in Tokens : text = Append(t, token)
  BY TokensFacts, SequenceEmptyOrAppend DEF Absolute
<1>7. Last(text) = token /\ token \in Plain /\ token # "/" /\ token \notin {".", ".."}
  <2>1. Last(text) = token
    BY <1>6, FrontOfAppend
  <2> QED
    BY <2>1, TokensFacts DEF Plain
<1>8. st = CleanSegment(After(t, dst_len), token)
  BY <1>6, <1>7, AfterAppend, TokensFacts
<1>9. After(t, dst_len) # Fail /\ st = Push(After(t, dst_len), token)
  BY <1>2, <1>7, <1>8 DEF CleanSegment
<1>10. Last(st.out) = token
  <2> DEFINE was   == After(t, dst_len)
             slash == was.out # <<>> /\ Last(was.out) # "/"
             out   == IF slash THEN Append(was.out, "/") ELSE was.out
  <2>1. st = [was EXCEPT !.out = Append(out, token), !.starts = Append(@, Len(out))]
    BY <1>2, <1>9 DEF Push
  <2>2. was \in Cleanings /\ was.out \in Paths
    BY <1>6, <1>9, AfterIsShaped, TokensFacts DEF Shaped, Cleanings
  <2>3. out \in Seq(Tokens)
    BY <2>2, TokensFacts, AppendProperties
  <2> HIDE DEF was, out
  <2>4. st.out = Append(out, token)
    BY <2>1, <2>2 DEF Cleanings
  <2> QED
    BY <2>3, <2>4, FrontOfAppend
<1>11. st.out = Slashed(place) /\ place # <<>>
  BY <1>3, <1>4, <1>7, <1>10 DEF Shaped
<1> QED
  BY <1>5, <1>11 DEF TextOf, Slashed

-----------------------------------------------------------------------------
(***************************************************************************)
(* Absolute paths and the answers of getcwd: what the two prefixes do to   *)
(* each other.                                                             *)
(***************************************************************************)
LEMMA TextOfIs ==
  ASSUME NEW place \in Seq(Plain)
  PROVE  /\ TextOf(place) = IF place = <<>> THEN <<"/">> ELSE Slashed(place)
         /\ TextOf(place) \in {Slashed(place), Append(Slashed(place), "/")}
         /\ TextOf(place) \in Paths /\ Tight(TextOf(place)) /\ Absolute(TextOf(place))
         /\ Walk(<<>>, TextOf(place)) = place
         /\ Last(TextOf(place)) = "/" <=> place = <<>>
         /\ place # <<>> => Last(TextOf(place)) \in Plain
<1>1. TextOf(place) = IF place = <<>> THEN <<"/">> ELSE Slashed(place)
  BY DEF TextOf, Slashed
<1>2. /\ place \in Seq(Names) /\ "/" \in Tokens /\ <<>> \in Seq(Plain) /\ <<>> \in Paths
      /\ "/" \notin Plain
  BY PlainSeq, EmptySeq, TokensFacts
<1>3. CASE place = <<>>
  <2>1. Slashed(<<>>) = <<>> /\ <<"/">> = Append(<<>>, "/") /\ Append(<<>>, "/")[1] = "/"
    BY SlashedEmpty
  <2>2. <<"/">> \in Paths /\ Last(<<"/">>) = "/" /\ <<"/">> # <<>>
    <3>1. <<>> \in Seq(Tokens) /\ "/" \in Tokens /\ Paths = Seq(Tokens)
      BY TokensFacts, EmptySeq
    <3>2. /\ Last(Append(<<>>, "/")) = "/" /\ Append(<<>>, "/") # <<>>
          /\ Append(<<>>, "/") \in Seq(Tokens)
      BY <3>1, FrontOfAppend
    <3> QED
      BY <2>1, <3>1, <3>2
  <2>3. Tight(<<"/">>)
    BY DEF Tight
  <2>4. Walk(<<>>, <<"/">>) = <<>>
    <3>1. Walk(<<>>, Append(<<>>, "/")) = Onward(Walk(<<>>, <<>>), "/")
      BY <1>2, WalkAppend
    <3>2. Onward(<<>>, "/") = <<>>
      BY DEF Onward
    <3> QED
      BY <2>1, <3>1, <3>2, WalkEmpty
  <2>5. <<"/">> # NULL
    BY <2>2, PathTextAssumption
  <2> QED
    BY <1>1, <1>3, <2>1, <2>2, <2>3, <2>4, <2>5 DEF Absolute
<1>4. CASE place # <<>>
  <2>1. /\ Slashed(place) \in Paths /\ Tight(Slashed(place)) /\ Slashed(place)[1] = "/"
        /\ Slashed(place) # <<>>
    BY <1>2, <1>4, SlashedType, TightSlashed, SlashedFirst
  <2>2. Walk(<<>>, Slashed(place)) = place
    BY <1>2, WalkSlashed, ConcatEmptySeq
  <2>3. Slashed(place) # NULL
    BY <2>1, PathTextAssumption
  <2>4. Last(Slashed(place)) \in Plain
    <3>1. PICK rest \in Seq(Plain), name \in Plain : place = Append(rest, name)
      BY <1>4, SequenceEmptyOrAppend
    <3>2. rest \in Seq(Names) /\ name \in Names
      BY PlainSeq, TokensFacts
    <3> QED
      BY <3>1, <3>2, SlashedNext
  <2> QED
    BY <1>1, <1>2, <1>4, <2>1, <2>2, <2>3, <2>4 DEF Absolute
<1> QED
  BY <1>3, <1>4

LEMMA WalkTailed ==
  ASSUME NEW place \in Seq(Plain),
         NEW text \in {TextOf(place), Slashed(place), Append(Slashed(place), "/")}
  PROVE  Walk(<<>>, text) = place
<1>1. place \in Seq(Names) /\ <<>> \in Seq(Plain) /\ "/" \in Tokens
  BY PlainSeq, EmptySeq, TokensFacts
<1>2. Slashed(place) \in Paths /\ Walk(<<>>, Slashed(place)) = place
  BY <1>1, SlashedType, WalkSlashed, ConcatEmptySeq
<1>3. Walk(<<>>, Append(Slashed(place), "/")) = place
  BY <1>1, <1>2, WalkAppend DEF Onward
<1> QED
  BY <1>2, <1>3, TextOfIs

LEMMA UnderConcat ==
  ASSUME NEW top \in Seq(Plain), NEW rest \in Seq(Plain)
  PROVE  Under(top \o rest, top) /\ \A new : Carry(top \o rest, top, new) = new \o rest
<1> DEFINE both == top \o rest  m == Len(top)
<1>1. /\ both \in Seq(Plain) /\ m \in Nat /\ Len(rest) \in Nat /\ Len(both) = m + Len(rest)
      /\ \A i \in 1..m : both[i] = top[i]
  BY ConcatProperties, LenProperties
<1>2. SubSeq(both, m + 1, Len(both)) = rest
  BY SuffixOfConcat
<1> HIDE DEF both
<1>3. SubSeq(both, 1, m) = top
  <2>1. /\ SubSeq(both, 1, m) \in Seq(Plain) /\ Len(SubSeq(both, 1, m)) = m
        /\ \A i \in 1..m : SubSeq(both, 1, m)[i] = both[i]
    <3>1. \A i \in 1..m : both[i] \in Plain
      BY <1>1, ElementOfSeq
    <3> QED
      BY <1>1, <3>1, SubSeqProperties
  <2> QED
    BY <1>1, <2>1, SeqEqual
<1>4. Under(both, top)
  BY <1>1, <1>3, SubSeqFull DEF Under, IsPrefix
<1>5. \A new : Carry(both, top, new) = new \o rest
  BY <1>2, <1>4 DEF Carry
<1> QED
  BY <1>4, <1>5 DEF both

\* What rewriting an absolute path with a plain policy does.
THEOREM RewriteMaps ==
  ASSUME NEW from \in Seq(Plain), from # <<>>, NEW to \in Seq(Plain), to # <<>>,
         NEW policy, policy.enabled, policy.from = Slashed(from), policy.to = Slashed(to),
         NEW text \in Paths, Absolute(text), Tight(text)
  PROVE  LET place   == Walk(<<>>, text)
             mapped  == Carry(place, from, to)
             cleaned == clean_path_into(text, PATH_MAX)
             result  == rewrite_absolute_path(policy, text)
         IN /\ mapped \in Seq(Plain)
            /\ result # Fail =>
                 /\ Under(place, from)
                 /\ result \in {Slashed(mapped), Append(Slashed(mapped), "/")} /\ result \in Paths
                 /\ Walk(<<>>, result) = mapped /\ Length(result) + 1 <= PATH_MAX
            /\ result = Fail =>
                 \/ ~ Under(place, from)
                 \/ Length(text) + 1 > PATH_MAX
                 \/ Length(TextOf(mapped)) + 1 > PATH_MAX
                 \/ Length(TextOf(mapped)) + 2 > PATH_MAX /\ Last(cleaned) = "/"
<1> DEFINE place   == Walk(<<>>, text)
           mapped  == Carry(place, from, to)
           cleaned == clean_path_into(text, PATH_MAX)
           result  == rewrite_absolute_path(policy, text)
<1>1. /\ place \in Seq(Plain) /\ PATH_MAX \in Nat /\ Length(text) \in Nat
      /\ PATH_MAX <= PATH_MAX
  <2>1. <<>> \in Seq(Plain) /\ PATH_MAX \in Nat
    BY EmptySeq, LimitsAssumption
  <2>2. place \in Seq(Plain)
    BY <2>1, WalkType
  <2> QED
    BY <2>1, <2>2, LengthType
<1>2. result = IF cleaned = Fail THEN Fail
               ELSE Substitute(policy, cleaned, Slashed(from), Slashed(to), PATH_MAX)
  BY DEF rewrite_absolute_path, substitute_prefix
<1>3. cleaned = Fail => Length(text) + 1 > PATH_MAX
  BY <1>1, WhatFitsIsTaken
<1>4. cleaned # Fail => cleaned \in {TextOf(place), Append(Slashed(place), "/")}
  BY <1>1, CleanedAbsolute
<1> HIDE DEF place, cleaned, result
<1>5. mapped \in Seq(Plain) /\ (Under(place, from) => mapped # <<>>)
  <2>1. CASE Under(place, from)
    <3>1. PICK rest \in Seq(Plain) :
            place = from \o rest /\ \A other : Carry(place, from, other) = other \o rest
      BY <1>1, <2>1, UnderIsConcat
    <3>2. mapped = to \o rest
      BY <3>1
    <3> QED
      BY <3>2, ConcatProperties, ConcatEqualIffEmpty
  <2>2. CASE ~ Under(place, from)
    BY <1>1, <2>2 DEF Carry
  <2> QED
    BY <2>1, <2>2
<1> HIDE DEF mapped
<1>6. CASE cleaned = Fail
  BY <1>2, <1>3, <1>5, <1>6 DEF place, mapped, cleaned, result
<1>7. CASE cleaned # Fail
  <2> DEFINE tailed == Tailed(mapped, cleaned, place)
  <2>1. cleaned \in {Slashed(place), Append(Slashed(place), "/")}
    BY <1>1, <1>4, <1>7, TextOfIs
  <2>2. IF Under(place, from) /\ Length(tailed) + 1 <= PATH_MAX
        THEN result = tailed /\ tailed \in Paths
        ELSE result = Fail
    <3>1. Substitute(policy, cleaned, Slashed(from), Slashed(to), PATH_MAX) =
            IF Under(place, from) /\ Length(tailed) + 1 <= PATH_MAX THEN tailed ELSE Fail
      BY <1>1, <2>1, SubstituteMaps DEF mapped
    <3>2. Under(place, from) => tailed \in Paths
      BY <1>1, <2>1, SubstituteMaps DEF mapped
    <3> QED
      BY <1>2, <1>7, <3>1, <3>2
  <2>3. /\ Slashed(mapped) \in Paths /\ Length(Slashed(mapped)) \in Nat
        /\ Append(Slashed(mapped), "/") \in Paths
        /\ Length(Append(Slashed(mapped), "/")) = Length(Slashed(mapped)) + 1
    <3>1. Slashed(mapped) \in Paths /\ "/" \in Tokens
      BY <1>5, PlainSeq, SlashedType, TokensFacts
    <3> QED
      BY <3>1, LengthType, LengthAppend, AppendProperties, TokensFacts DEF Characters
  <2>4. tailed \in Paths /\ Length(tailed) \in Nat
        /\ tailed = IF cleaned = Slashed(place) THEN Slashed(mapped)
                    ELSE Append(Slashed(mapped), "/")
    BY <2>3 DEF Tailed
  <2>5. result # Fail =>
          /\ Under(place, from)
          /\ result \in {Slashed(mapped), Append(Slashed(mapped), "/")} /\ result \in Paths
          /\ Walk(<<>>, result) = mapped /\ Length(result) + 1 <= PATH_MAX
    <3>1. Walk(<<>>, tailed) = mapped
      BY <1>5, <2>4, WalkTailed
    <3> QED
      BY <2>2, <2>4, <3>1
  <2>6. ASSUME result = Fail, Under(place, from)
        PROVE  \/ Length(TextOf(mapped)) + 1 > PATH_MAX
               \/ Length(TextOf(mapped)) + 2 > PATH_MAX /\ Last(cleaned) = "/"
    <3>1. TextOf(mapped) = Slashed(mapped)
      BY <1>5, <2>6, TextOfIs
    <3>2. Length(tailed) + 1 > PATH_MAX
      <4>1. tailed # Fail /\ Length(tailed) \in Nat /\ PATH_MAX \in Nat
        BY <1>1, <2>4, PathTextAssumption
      <4>2. ~ (Length(tailed) + 1 <= PATH_MAX)
        <5>1. ~ (result = tailed)
          BY <2>6, <4>1
        <5> HIDE DEF tailed, result
        <5> QED
          BY <2>2, <2>6, <5>1
      <4> HIDE DEF tailed
      <4> QED
        BY <4>1, <4>2
    <3>3. cleaned # Slashed(place) => Last(cleaned) = "/"
      <4>1. Slashed(place) \in Seq(Tokens) /\ "/" \in Tokens
        BY <1>1, PlainSeq, SlashedType, TokensFacts
      <4>2. Last(Append(Slashed(place), "/")) = "/"
        BY <4>1, FrontOfAppend
      <4> QED
        BY <2>1, <4>2
    <3> QED
      BY <1>1, <2>3, <2>4, <3>1, <3>2, <3>3
  <2> HIDE DEF tailed
  <2> QED
    BY <1>5, <2>5, <2>6 DEF place, mapped, cleaned, result
<1> QED
  BY <1>6, <1>7

\* What getcwd answers for a place outside FROM leads back to it, in every form it
\* takes: as it is, or by its name below FROM, if it was made without an overrun.
THEOREM AnswerLeadsBack ==
  ASSUME NEW from \in Seq(Plain), from # <<>>, NEW to \in Seq(Plain), to # <<>>,
         NEW policy, policy.enabled, policy.from = Slashed(from), policy.to = Slashed(to),
         NEW here \in Seq(Plain), ~ Under(here, from), NEW size \in Nat,
         Length(TextOf(here)) < PATH_MAX, Length(TextOf(here)) < size,
         ~ getcwd_overruns(policy, TextOf(here), size)
  PROVE  LET seen   == getcwd_answer(policy, TextOf(here), size)
             target == rewrite_absolute_path(policy, seen)
         IN /\ Length(seen) < size /\ seen \in Paths
            /\ Walk(<<>>, IF target = Fail THEN seen ELSE target) = here
<1> DEFINE text   == TextOf(here)
           seen   == getcwd_answer(policy, text, size)
           target == rewrite_absolute_path(policy, seen)
           back   == Substitute(policy, text, Slashed(to), Slashed(from), size)
<1>1. /\ text \in Paths /\ Tight(text) /\ Absolute(text) /\ Walk(<<>>, text) = here
      /\ text = Slashed(here) \/ text = Append(Slashed(here), "/")
      /\ here # <<>> => text = Slashed(here)
  BY TextOfIs
<1>2. seen = IF back = Fail \/ Length(back) + 1 > size THEN text ELSE back
  BY DEF getcwd_answer, substitute_prefix_reverse
<1>3. /\ Length(text) \in Nat /\ PATH_MAX \in Nat
      /\ Length(text) < size /\ Length(text) < PATH_MAX
  BY <1>1, LengthType, LimitsAssumption
<1>6. back = Fail \/ ~ (Length(back) + 1 > PATH_MAX)
  BY DEF getcwd_overruns, substitute_prefix_reverse
<1> HIDE DEF text, seen, back
<1>4. CASE seen = text
  <2>1. target # Fail => Under(Walk(<<>>, text), from)
    BY <1>1, <1>4, RewriteMaps
  <2> QED
    BY <1>1, <1>3, <1>4, <2>1 DEF text, seen
<1>5. CASE seen # text
  <2>1. back # Fail /\ seen = back /\ ~ (Length(back) + 1 > size)
    BY <1>2, <1>5
  <2>2. back = IF Under(here, to) /\ Length(Tailed(Carry(here, to, from), text, here)) + 1 <= size
               THEN Tailed(Carry(here, to, from), text, here) ELSE Fail
    BY <1>1, SubstituteMaps DEF back
  <2>3. Under(here, to)
    BY <2>1, <2>2
  <2>4. PICK rest \in Seq(Plain) :
          here = to \o rest /\ \A other : Carry(here, to, other) = other \o rest
    BY <2>3, UnderIsConcat
  <2> DEFINE mapped == from \o rest
  <2>5. /\ here # <<>> /\ mapped \in Seq(Plain) /\ mapped # <<>>
    BY <2>4, ConcatProperties, ConcatEqualIffEmpty
  <2>6. Carry(here, to, from) = mapped /\ Under(mapped, from) /\ Carry(mapped, from, to) = here
    BY <2>4, UnderConcat
  <2> HIDE DEF mapped
  <2>7. back = Slashed(mapped) /\ TextOf(mapped) = Slashed(mapped) /\ seen = TextOf(mapped)
    BY <1>1, <2>1, <2>2, <2>5, <2>6, TextOfIs DEF Tailed
  <2>8. /\ seen \in Paths /\ Absolute(seen) /\ Tight(seen) /\ Walk(<<>>, seen) = mapped
        /\ Last(seen) \in Plain
    BY <2>5, <2>7, TextOfIs
  <2>9. Length(seen) \in Nat /\ Length(seen) < size /\ Length(seen) < PATH_MAX
    <3>1. Length(seen) \in Nat
      BY <2>8, LengthType
    <3> QED
      BY <1>3, <1>6, <2>1, <3>1
  <2>10. clean_path_into(seen, PATH_MAX) # Fail
    <3>1. PATH_MAX <= PATH_MAX
      BY <1>3
    <3> QED
      BY <1>3, <2>8, <2>9, <3>1, WhatFitsIsTaken
  <2>11. clean_path_into(seen, PATH_MAX) = seen
    BY <1>3, <2>7, <2>8, <2>10, CleanedExactly
  <2>12. /\ /\ mapped \in Seq(Plain)
            /\ Carry(mapped, from, to) = here
         /\ target = IF Length(Tailed(here, seen, mapped)) + 1 <= PATH_MAX
                     THEN Tailed(here, seen, mapped) ELSE Fail
    <3>1. target = Substitute(policy, seen, Slashed(from), Slashed(to), PATH_MAX)
      BY <2>8, <2>10, <2>11 DEF rewrite_absolute_path, substitute_prefix
    <3>2. Substitute(policy, seen, Slashed(from), Slashed(to), PATH_MAX) =
            IF /\ Under(mapped, from)
               /\ Length(Tailed(Carry(mapped, from, to), seen, mapped)) + 1 <= PATH_MAX
            THEN Tailed(Carry(mapped, from, to), seen, mapped) ELSE Fail
      BY <1>3, <2>5, <2>7, SubstituteMaps
    <3> QED
      BY <2>5, <2>6, <3>1, <3>2
  <2>13. Tailed(here, seen, mapped) = text
    BY <1>1, <2>5, <2>7 DEF Tailed
  <2>14. target = text
    BY <1>3, <2>12, <2>13
  <2>15. text # Fail
    BY <1>1, PathTextAssumption
  <2> QED
    BY <1>1, <2>8, <2>9, <2>14, <2>15 DEF text, seen
<1> QED
  BY <1>4, <1>5

-----------------------------------------------------------------------------
(***************************************************************************)
(* The types of policies and of rewritten texts.                           *)
(***************************************************************************)
LEMMA SubstituteType ==
  ASSUME NEW policy, NEW text \in Paths, NEW old \in Paths, NEW new \in Paths, NEW dst_len
  PROVE  Substitute(policy, text, old, new, dst_len) \in Paths \cup {Fail}
<1> DEFINE suffix == SubSeq(text, Len(old) + 1, Len(text))
<1>1. suffix \in Paths
  <2>1. text \in Seq(Tokens) /\ Len(text) \in Nat /\ Len(old) \in Nat
    BY TokensFacts, LenProperties
  <2>2. \A i \in (Len(old) + 1)..Len(text) : text[i] \in Tokens
    BY <2>1, ElementOfSeq
  <2> QED
    BY <2>1, <2>2, SubSeqProperties, TokensFacts
<1>2. new \o suffix \in Paths
  BY <1>1, TokensFacts, ConcatProperties
<1> QED
  BY <1>2 DEF Substitute

\* A policy is made of texts.
LEMMA PolicyType ==
  ASSUME NEW from_env \in Paths \cup {NULL}, NEW to_env \in Paths \cup {NULL}
  PROVE  /\ init_rewrite_policy(from_env, to_env).from \in Paths
         /\ init_rewrite_policy(from_env, to_env).to \in Paths
<1>1. <<>> \in Paths /\ PATH_MAX \in Nat
  BY TokensFacts, EmptySeq, LimitsAssumption
<1>2. ASSUME NEW env \in Paths \cup {NULL}, Absolute(env), clean_path_into(env, PATH_MAX) # Fail
      PROVE  clean_path_into(env, PATH_MAX) \in Paths
  <2>1. env \in Paths
    BY <1>2 DEF Absolute
  <2> QED
    BY <1>1, <1>2, <2>1, CleanedAbsolute
<1> QED
  BY <1>1, <1>2 DEF init_rewrite_policy, NoPolicy

\* The two prefixes of a policy that neither are the root nor end in a slash.
LEMMA PlainPolicyIs ==
  ASSUME NEW from_env \in Paths \cup {NULL}, NEW to_env \in Paths \cup {NULL},
         NEW policy, policy = init_rewrite_policy(from_env, to_env), policy.enabled,
         Last(policy.from) # "/", Last(policy.to) # "/"
  PROVE  \E from, to \in Seq(Plain) :
           /\ from # <<>> /\ to # <<>>
           /\ policy.from = Slashed(from) /\ policy.to = Slashed(to)
           /\ Segments(policy.from) = from /\ Segments(policy.to) = to
           /\ policy.enabled
<1>1. /\ Absolute(from_env) /\ Absolute(to_env)
      /\ policy.from = clean_path_into(from_env, PATH_MAX)
      /\ clean_path_into(from_env, PATH_MAX) # Fail
      /\ policy.to = clean_path_into(to_env, PATH_MAX)
      /\ clean_path_into(to_env, PATH_MAX) # Fail
  BY DEF init_rewrite_policy, NoPolicy
<1>2. ASSUME NEW text \in Paths \cup {NULL}, Absolute(text),
             NEW cleaned, cleaned = clean_path_into(text, PATH_MAX), cleaned # Fail,
             Last(cleaned) # "/"
      PROVE  \E place \in Seq(Plain) :
               place # <<>> /\ cleaned = Slashed(place) /\ Segments(cleaned) = place
  <2>1. text \in Paths /\ PATH_MAX \in Nat
    BY <1>2, LimitsAssumption DEF Absolute
  <2> DEFINE place == Walk(<<>>, text)
  <2>2. place \in Seq(Plain) /\ place \in Seq(Names)
    BY <2>1, EmptySeq, WalkType, PlainSeq
  <2>3. cleaned \in {TextOf(place), Append(Slashed(place), "/")} /\ Segments(cleaned) = place
    BY <1>2, <2>1, CleanedAbsolute
  <2> HIDE DEF place
  <2>4. Last(Append(Slashed(place), "/")) = "/"
    BY <2>2, SlashedType, TokensFacts, FrontOfAppend
  <2>5. place # <<>> /\ cleaned = Slashed(place)
    BY <1>2, <2>2, <2>3, <2>4, TextOfIs
  <2> QED
    BY <2>2, <2>3, <2>5
<1>3. PICK from \in Seq(Plain) :
        from # <<>> /\ policy.from = Slashed(from) /\ Segments(policy.from) = from
  BY <1>1, <1>2
<1>4. PICK to \in Seq(Plain) :
        to # <<>> /\ policy.to = Slashed(to) /\ Segments(policy.to) = to
  BY <1>1, <1>2
<1> QED
  BY <1>3, <1>4

LEMMA RewriteType ==
  ASSUME NEW policy, policy.from \in Paths, policy.to \in Paths, NEW text \in Paths \cup {NULL}
  PROVE  rewrite_absolute_path(policy, text) \in Paths \cup {Fail}
<1>1. CASE Absolute(text) /\ clean_path_into(text, PATH_MAX) # Fail
  <2>1. text \in Paths /\ PATH_MAX \in Nat
    BY <1>1, LimitsAssumption DEF Absolute
  <2>2. clean_path_into(text, PATH_MAX) \in Paths
    BY <1>1, <2>1, CleanedAbsolute
  <2> QED
    BY <2>2, SubstituteType DEF rewrite_absolute_path, substitute_prefix
<1>2. CASE ~ (Absolute(text) /\ clean_path_into(text, PATH_MAX) # Fail)
  BY <1>2 DEF rewrite_absolute_path
<1> QED
  BY <1>1, <1>2

-----------------------------------------------------------------------------
(***************************************************************************)
(* Relative paths: rewriting one from a directory is rewriting the         *)
(* absolute path that they make together.                                  *)
(***************************************************************************)
LEMMA TightConcat ==
  ASSUME NEW s \in Paths, NEW t \in Paths, Tight(s), Tight(t), s # <<>>, Last(s) = "/"
  PROVE  Tight(s \o t)
<1> DEFINE m == Len(s)  n == Len(t)  both == s \o t
<1>1. /\ m \in Nat \ {0} /\ n \in Nat /\ Len(both) = m + n /\ s[m] = "/"
      /\ \A i \in 1..(m + n) : both[i] = IF i <= m THEN s[i] ELSE t[i - m]
  BY TokensFacts, ConcatProperties, LenProperties, EmptySeq DEF Last
<1>2. /\ \A i \in 1..(m - 1) : s[i] = "/" \/ s[i + 1] = "/"
      /\ \A i \in 1..(n - 1) : t[i] = "/" \/ t[i + 1] = "/"
  BY DEF Tight
<1> HIDE DEF m, n, both
<1>3. ASSUME NEW i \in 1..(m + n - 1) PROVE both[i] = "/" \/ both[i + 1] = "/"
  <2>1. /\ i \in 1..(m + n) /\ i + 1 \in 1..(m + n)
        /\ i \in 1..(m - 1) \/ i = m \/ i - m \in 1..(n - 1)
    BY <1>1
  <2>2. CASE i \in 1..(m - 1)
    BY <1>1, <1>2, <2>1, <2>2
  <2>3. CASE i = m
    BY <1>1, <2>1, <2>3
  <2>4. CASE i - m \in 1..(n - 1)
    <3>1. both[i] = t[i - m] /\ both[i + 1] = t[(i - m) + 1]
      BY <1>1, <2>1, <2>4
    <3> QED
      BY <1>2, <2>4, <3>1
  <2> QED
    BY <2>1, <2>2, <2>3, <2>4
<1> QED
  BY <1>1, <1>3 DEF Tight, both

\* A directory's path followed by a relative one.
Joined(place, text) == TextOf(place) \o <<"/">> \o text

LEMMA JoinedIs ==
  ASSUME NEW place \in Seq(Plain), NEW text \in Paths
  PROVE  /\ Joined(place, text) \in Paths /\ Absolute(Joined(place, text))
         /\ Walk(<<>>, Joined(place, text)) = Walk(place, text)
         /\ Length(Joined(place, text)) = Length(TextOf(place)) + 1 + Length(text)
         /\ Tight(text) => Tight(Joined(place, text))
<1> DEFINE base == TextOf(place)  cut == Append(base, "/")
<1>1. /\ base \in Seq(Tokens) /\ Tight(base) /\ Absolute(base) /\ Walk(<<>>, base) = place
      /\ "/" \in Tokens
  BY TextOfIs, TokensFacts
<1> HIDE DEF base
<1>2. base \o <<"/">> = cut
  BY <1>1, AppendIsConcat
<1>3. /\ cut \in Seq(Tokens) /\ cut \in Paths /\ cut # <<>> /\ Last(cut) = "/"
      /\ Len(cut) \in Nat \ {0}
  BY <1>1, FrontOfAppend, TokensFacts, LenProperties
<1>4. cut[1] = "/"
  <2>1. Len(base) \in Nat \ {0} /\ base[1] = "/"
    BY <1>1, EmptySeq DEF Absolute
  <2> QED
    BY <1>1, <2>1, AppendProperties
<1>5. Walk(<<>>, cut) = place
  BY <1>1, TokensFacts, WalkAppend DEF Onward
<1>6. Length(cut) = Length(base) + 1
  BY <1>1, TokensFacts, LengthAppend DEF Characters
<1>7. Tight(cut)
  BY <1>1, TokensFacts, TightAppend
<1> HIDE DEF cut
<1>8. /\ cut \o text \in Paths /\ Len(cut \o text) = Len(cut) + Len(text) /\ Len(text) \in Nat
      /\ \A i \in 1..(Len(cut) + Len(text)) :
           (cut \o text)[i] = IF i <= Len(cut) THEN cut[i] ELSE text[i - Len(cut)]
  BY <1>3, TokensFacts, ConcatProperties, LenProperties
<1>9. (cut \o text)[1] = "/" /\ cut \o text # <<>> /\ cut \o text # NULL
  <2>1. 1 \in 1..(Len(cut) + Len(text)) /\ 1 <= Len(cut) /\ Len(cut) + Len(text) # 0
    BY <1>3, <1>8
  <2> QED
    BY <1>4, <1>8, <2>1, EmptySeq, PathTextAssumption
<1>10. Absolute(cut \o text)
  BY <1>9 DEF Absolute
<1>11. Walk(<<>>, cut \o text) = Walk(place, text)
  BY <1>3, <1>5, WalkConcat
<1>12. Length(cut \o text) = Length(base) + 1 + Length(text)
  BY <1>3, <1>6, LengthConcat
<1>13. Tight(text) => Tight(cut \o text)
  BY <1>3, <1>7, TightConcat
<1> QED
  BY <1>2, <1>8, <1>10, <1>11, <1>12, <1>13 DEF Joined, base

\* The path of a directory is clean.
LEMMA CleanTextOf ==
  ASSUME NEW place \in Seq(Plain), NEW dst_len \in Nat
  PROVE  /\ clean_path_into(TextOf(place), dst_len) \in {TextOf(place), Fail}
         /\ Length(TextOf(place)) < dst_len /\ dst_len <= PATH_MAX =>
              clean_path_into(TextOf(place), dst_len) = TextOf(place)
<1> DEFINE text == TextOf(place)  cleaned == clean_path_into(text, dst_len)
<1>1. /\ text \in Paths /\ Absolute(text) /\ Tight(text) /\ Walk(<<>>, text) = place
      /\ place # <<>> => Last(text) \in Plain
  BY TextOfIs
<1>2. ASSUME cleaned # Fail PROVE cleaned = text
  <2>1. CASE place = <<>>
    <3>1. cleaned \in {TextOf(<<>>), Append(Slashed(<<>>), "/")}
      BY <1>1, <1>2, <2>1, CleanedAbsolute
    <3>2. TextOf(<<>>) = <<"/">>
      BY DEF TextOf
    <3>3. Append(Slashed(<<>>), "/") = <<"/">>
      BY SlashedEmpty, PairFacts, PathTextAssumption
    <3> QED
      BY <1>2, <2>1, <3>1, <3>2, <3>3
  <2>2. CASE place # <<>>
    BY <1>1, <1>2, <2>2, CleanedExactly
  <2> QED
    BY <2>1, <2>2
<1>3. Length(text) < dst_len /\ dst_len <= PATH_MAX => cleaned # Fail
  BY <1>1, WhatFitsIsTaken
<1> QED
  BY <1>2, <1>3

\* A relative path is rewritten as the absolute one is that names the same from the
\* root, unless the two do not fit together.
THEOREM RelativeIsAbsolute ==
  ASSUME NEW policy, NEW cwd \in BOOLEAN, NEW place \in Seq(Plain),
         NEW text \in Paths, ~ Absolute(text)
  PROVE  LET result == rewrite_relative_path_from_dirfd(policy, cwd, TextOf(place), text)
         IN /\ result \in {rewrite_absolute_path(policy, Joined(place, text)), Fail}
            /\ Length(TextOf(place)) + 1 + Length(text) < PATH_MAX - 1 =>
                 result = rewrite_absolute_path(policy, Joined(place, text))
<1> DEFINE base     == TextOf(place)
           joined   == Joined(place, text)
           start    == IF cwd THEN base
                       ELSE IF ~ Absolute(base) \/ Length(base) >= PATH_MAX - 1 THEN Fail
                       ELSE clean_path_into(base, PATH_MAX)
           resolved == join_and_clean_path(start, text, PATH_MAX)
           result   == rewrite_relative_path_from_dirfd(policy, cwd, base, text)
           short    == Length(base) + 1 + Length(text) < PATH_MAX - 1
<1>1. /\ base \in Paths /\ base # Fail /\ base # NULL /\ Absolute(base)
      /\ text # NULL /\ text # Fail
      /\ Length(base) \in Nat /\ Length(text) \in Nat /\ PATH_MAX \in Nat
  BY TextOfIs, PathTextAssumption, LengthType, LimitsAssumption
<1>2. Absolute(joined)
  BY JoinedIs
<1>3. start \in {base, Fail} /\ (short => start = base)
  <2>1. clean_path_into(base, PATH_MAX) \in {base, Fail}
    BY <1>1, CleanTextOf
  <2>2. ASSUME short
        PROVE  clean_path_into(base, PATH_MAX) = base /\ ~ (Length(base) >= PATH_MAX - 1)
    <3>1. Length(base) < PATH_MAX /\ PATH_MAX <= PATH_MAX /\ ~ (Length(base) >= PATH_MAX - 1)
      <4> HIDE DEF base
      <4> QED
        BY <1>1, <2>2
    <3> QED
      BY <1>1, <3>1, CleanTextOf
  <2> HIDE DEF base, short
  <2> QED
    BY <1>1, <2>1, <2>2
<1>4. result = IF ~ policy.enabled \/ start = Fail \/ resolved = Fail THEN Fail
               ELSE substitute_prefix(policy, resolved, PATH_MAX)
  BY <1>1 DEF rewrite_relative_path_from_dirfd
<1>5. rewrite_absolute_path(policy, joined) =
        IF ~ policy.enabled \/ clean_path_into(joined, PATH_MAX) = Fail THEN Fail
        ELSE substitute_prefix(policy, clean_path_into(joined, PATH_MAX), PATH_MAX)
  BY <1>2 DEF rewrite_absolute_path
<1>6. start = base => resolved \in {clean_path_into(joined, PATH_MAX), Fail}
                      /\ (short => resolved = clean_path_into(joined, PATH_MAX))
  <2>1. short => ~ (Length(base) + 1 + Length(text) >= PATH_MAX)
    <3> HIDE DEF base
    <3> QED
      BY <1>1
  <2>2. join_and_clean_path(base, text, PATH_MAX) =
          IF Length(base) + 1 + Length(text) >= PATH_MAX THEN Fail
          ELSE clean_path_into(joined, PATH_MAX)
    BY <1>1 DEF join_and_clean_path, Joined
  <2> HIDE DEF base, joined, short, start
  <2> QED
    BY <2>1, <2>2
<1> HIDE DEF base, joined, start, resolved, result, short
<1>7. result \in {rewrite_absolute_path(policy, joined), Fail}
      /\ (short => result = rewrite_absolute_path(policy, joined))
  <2>1. CASE start = Fail \/ resolved = Fail \/ ~ policy.enabled
    <3>1. result = Fail
      BY <1>4, <2>1
    <3>2. short => rewrite_absolute_path(policy, joined) = Fail
      BY <1>1, <1>3, <1>5, <1>6, <2>1
    <3> QED
      BY <3>1, <3>2
  <2>2. CASE start = base /\ resolved = clean_path_into(joined, PATH_MAX) /\ resolved # Fail
             /\ policy.enabled
    BY <1>1, <1>4, <1>5, <2>2
  <2> QED
    BY <1>3, <1>6, <2>1, <2>2
<1> QED
  BY <1>7 DEF base, joined, result, short

-----------------------------------------------------------------------------
(***************************************************************************)
(* What a program means. It walks from the place it believes to be in, the *)
(* kernel from the one it is in; where FROM and TO are siblings the two    *)
(* stay side by side.                                                      *)
(***************************************************************************)
\* A program that reads names from its own view of a directory, and the kernel that
\* reads them from the directory, stay side by side: at one place, or at
\* corresponding ones below two siblings.
Siblings(from, to) ==
  /\ from \in Seq(Plain) /\ from # <<>> /\ to \in Seq(Plain) /\ to # <<>>
  /\ Front(from) = Front(to) /\ from # to

Twin(seen, real, from, to) ==
  seen = real \/ \E rest \in Seq(Plain) : seen = from \o rest /\ real = to \o rest

LEMMA FrontFacts ==
  ASSUME NEW X, NEW s \in Seq(X), s # <<>>
  PROVE  /\ Len(s) \in Nat \ {0} /\ \A i \in 1..Len(s) : s[i] \in X
         /\ Front(s) \in Seq(X) /\ Len(Front(s)) = Len(s) - 1
         /\ \A i \in 1..(Len(s) - 1) : Front(s)[i] = s[i]
<1>1. Len(s) \in Nat \ {0} /\ \A i \in 1..Len(s) : s[i] \in X
  BY LenProperties, EmptySeq, ElementOfSeq
<1> DEFINE n == Len(s) - 1
<1>2. Front(s) = SubSeq(s, 1, n) /\ n \in Nat
  BY <1>1 DEF Front
<1>3. \A i \in 1..n : s[i] \in X
  BY <1>1
<1> HIDE DEF n
<1>4. /\ SubSeq(s, 1, n) \in Seq(X)
      /\ Len(SubSeq(s, 1, n)) = IF 1 <= n THEN n - 1 + 1 ELSE 0
      /\ \A i \in 1..(n - 1 + 1) : SubSeq(s, 1, n)[i] = s[1 + i - 1]
  BY <1>2, <1>3, SubSeqProperties
<1>5. Len(SubSeq(s, 1, n)) = n /\ \A i \in 1..n : SubSeq(s, 1, n)[i] = s[i]
  BY <1>2, <1>4
<1> QED
  BY <1>1, <1>2, <1>4, <1>5 DEF n

LEMMA SiblingsDiffer ==
  ASSUME NEW from, NEW to, Siblings(from, to)
  PROVE  Len(from) = Len(to) /\ Len(from) \in Nat \ {0} /\ from[Len(from)] # to[Len(to)]
<1> DEFINE m == Len(from)  n == Len(to)
<1>1. /\ m \in Nat \ {0} /\ n \in Nat \ {0}
      /\ \A i \in 1..m : from[i] \in Plain
      /\ \A i \in 1..n : to[i] \in Plain
  BY LenProperties, EmptySeq, ElementOfSeq DEF Siblings
<1>2. /\ Front(from) \in Seq(Plain) /\ Len(Front(from)) = m - 1
      /\ \A i \in 1..(m - 1) : Front(from)[i] = from[i]
  BY FrontFacts DEF Siblings
<1>3. /\ Len(Front(to)) = n - 1
      /\ \A i \in 1..(n - 1) : Front(to)[i] = to[i]
  BY FrontFacts DEF Siblings
<1>4. m = n
  BY <1>1, <1>2, <1>3 DEF Siblings
<1>5. ASSUME from[m] = to[n] PROVE FALSE
  <2>1. \A i \in 1..m : from[i] = to[i]
    BY <1>1, <1>2, <1>3, <1>4, <1>5 DEF Siblings
  <2> QED
    BY <1>4, <2>1, SeqEqual DEF Siblings
<1> QED
  BY <1>1, <1>4, <1>5

\* One of two siblings is never above what is below the other.
LEMMA SiblingsApart ==
  ASSUME NEW from, NEW to, Siblings(from, to), NEW rest \in Seq(Plain)
  PROVE  ~ Under(to \o rest, from)
<1> DEFINE m == Len(from)  both == to \o rest
<1>1. m = Len(to) /\ m \in Nat \ {0} /\ from[m] # to[m]
  BY SiblingsDiffer
<1>2. both \in Seq(Plain) /\ both[m] = to[m] /\ Len(both) = m + Len(rest) /\ Len(rest) \in Nat
  BY <1>1, ConcatProperties, LenProperties DEF Siblings
<1> HIDE DEF both
<1>3. ASSUME Under(both, from) PROVE FALSE
  <2>1. SubSeq(from, 1, m) = SubSeq(both, 1, m)
    BY <1>3 DEF Under, IsPrefix
  <2>2. SubSeq(from, 1, m)[m] = from[m] /\ SubSeq(both, 1, m)[m] = both[m]
    <3>1. \A i \in 1..m : from[i] \in Plain /\ both[i] \in Plain
      BY <1>1, <1>2, ElementOfSeq DEF Siblings
    <3> QED
      BY <1>1, <1>2, <3>1, SubSeqProperties DEF Siblings
  <2> QED
    BY <1>1, <1>2, <2>1, <2>2
<1> QED
  BY <1>3 DEF both

LEMMA FrontOfConcat ==
  ASSUME NEW X, NEW s \in Seq(X), NEW t \in Seq(X), t # <<>>
  PROVE  Front(s \o t) = s \o Front(t) /\ Front(t) \in Seq(X)
<1> DEFINE m == Len(s)  n == Len(t)  both == s \o t  front == Front(t)  joined == s \o front
<1>1. m \in Nat /\ n \in Nat \ {0}
  BY LenProperties, EmptySeq
<1>2. /\ both \in Seq(X) /\ Len(both) = m + n
      /\ \A i \in 1..(m + n) : both[i] = IF i <= m THEN s[i] ELSE t[i - m]
  BY ConcatProperties
<1>3. front \in Seq(X) /\ Len(front) = n - 1 /\ \A i \in 1..(n - 1) : front[i] = t[i]
  BY FrontFacts
<1> HIDE DEF both, front
<1>4. both # <<>>
  <2>1. Len(<<>>) = 0
    OBVIOUS
  <2> QED
    BY <1>1, <1>2, <2>1
<1>5. /\ Front(both) \in Seq(X) /\ Len(Front(both)) = Len(both) - 1
      /\ \A i \in 1..(Len(both) - 1) : Front(both)[i] = both[i]
  BY <1>2, <1>4, FrontFacts
<1>6. /\ joined \in Seq(X) /\ Len(joined) = m + Len(front)
      /\ \A i \in 1..(m + Len(front)) : joined[i] = IF i <= m THEN s[i] ELSE front[i - m]
  BY <1>3, ConcatProperties
<1> HIDE DEF joined
<1>7. ASSUME NEW i \in 1..(m + n - 1) PROVE Front(both)[i] = joined[i]
  <2>1. /\ i \in Nat /\ i \in 1..(m + n) /\ i \in 1..(Len(both) - 1)
        /\ i \in 1..(m + Len(front))
        /\ ~ (i <= m) => i - m \in 1..(n - 1)
    BY <1>1, <1>2, <1>3
  <2>2. Front(both)[i] = IF i <= m THEN s[i] ELSE t[i - m]
    BY <1>2, <1>5, <2>1
  <2>3. joined[i] = IF i <= m THEN s[i] ELSE front[i - m]
    BY <1>6, <2>1
  <2> QED
    BY <1>3, <2>1, <2>2, <2>3
<1>8. Len(Front(both)) = m + n - 1 /\ Len(joined) = m + n - 1
  BY <1>1, <1>2, <1>3, <1>5, <1>6
<1>9. Front(both) = joined
  BY <1>5, <1>6, <1>7, <1>8, SeqEqual
<1> QED
  BY <1>3, <1>9 DEF both, front, joined

LEMMA TwinOnward ==
  ASSUME NEW from, NEW to, Siblings(from, to), NEW seen, NEW real, Twin(seen, real, from, to),
         NEW token \in Tokens
  PROVE  Twin(Onward(seen, token), Onward(real, token), from, to)
<1>1. CASE seen = real
  BY <1>1 DEF Twin
<1>2. ASSUME NEW rest \in Seq(Plain), seen = from \o rest, real = to \o rest
      PROVE  Twin(Onward(seen, token), Onward(real, token), from, to)
  <2>1. CASE token \in {"/", "."}
    BY <1>2, <2>1 DEF Twin, Onward
  <2>2. CASE token \notin {"/", ".", ".."}
    <3>1. token \in Plain
      BY <2>2 DEF Plain, Tokens
    <3>2. Append(rest, token) \in Seq(Plain)
      BY <3>1, AppendProperties
    <3>3. from \in Seq(Plain) /\ to \in Seq(Plain)
      BY DEF Siblings
    <3>4. from \o Append(rest, token) = Append(from \o rest, token)
      BY <3>1, <3>3, ConcatAppend
    <3>5. to \o Append(rest, token) = Append(to \o rest, token)
      BY <3>1, <3>3, ConcatAppend
    <3> QED
      BY <1>2, <2>2, <3>2, <3>4, <3>5 DEF Twin, Onward
  <2>3. CASE token = ".." /\ rest = <<>>
    <3>1. seen = from /\ real = to
      BY <1>2, <2>3, ConcatEmptySeq DEF Siblings
    <3> QED
      BY <2>3, <3>1 DEF Siblings, Twin, Onward
  <2>4. CASE token = ".." /\ rest # <<>>
    <3>1. Front(seen) = from \o Front(rest) /\ Front(real) = to \o Front(rest)
          /\ Front(rest) \in Seq(Plain)
      BY <1>2, <2>4, FrontOfConcat DEF Siblings
    <3>2. seen # <<>> /\ real # <<>>
      <4>1. /\ Len(seen) = Len(from) + Len(rest) /\ Len(real) = Len(to) + Len(rest)
            /\ Len(rest) \in Nat \ {0} /\ Len(from) \in Nat /\ Len(to) \in Nat
        BY <1>2, <2>4, ConcatProperties, LenProperties, EmptySeq DEF Siblings
      <4>2. Len(<<>>) = 0
        OBVIOUS
      <4> QED
        BY <4>1, <4>2
    <3> QED
      BY <2>4, <3>1, <3>2 DEF Twin, Onward
  <2> QED
    BY <2>1, <2>2, <2>3, <2>4
<1> QED
  BY <1>1, <1>2 DEF Twin

\* Where names lead from what getcwd tells the program, mapped, is where they lead
\* from the directory it is in, mapped.
LEMMA SeenIsMeant ==
  ASSUME NEW from, NEW to, Siblings(from, to), NEW here \in Seq(Plain), NEW text \in Paths
  PROVE  Carry(Walk(Carry(here, to, from), text), from, to) = Carry(Walk(here, text), from, to)
<1> DEFINE start == Carry(here, to, from)
           T == {t \in Paths : Twin(Walk(start, t), Walk(here, t), from, to)}
<1>1. Twin(start, here, from, to)
  <2>1. CASE Under(here, to)
    <3>1. to \in Seq(Plain)
      BY DEF Siblings
    <3>2. PICK rest \in Seq(Plain) :
            here = to \o rest /\ \A other : Carry(here, to, other) = other \o rest
      BY <2>1, <3>1, UnderIsConcat
    <3>3. start = from \o rest
      BY <3>2
    <3> QED
      BY <3>2, <3>3 DEF Twin
  <2>2. CASE ~ Under(here, to)
    BY <2>2 DEF Twin, Carry
  <2> QED
    BY <2>1, <2>2
<1> HIDE DEF start
<1>2. <<>> \in T
  BY <1>1, EmptySeq, TokensFacts, WalkEmpty
<1>3. ASSUME NEW t \in Seq(Tokens) \cap T, NEW token \in Tokens
      PROVE  Append(t, token) \in T
  <2>1. t \in Paths /\ Append(t, token) \in Paths
    BY TokensFacts, AppendProperties
  <2>2. /\ Walk(start, Append(t, token)) = Onward(Walk(start, t), token)
        /\ Walk(here, Append(t, token)) = Onward(Walk(here, t), token)
    BY <2>1, WalkAppend
  <2>3. Twin(Walk(start, t), Walk(here, t), from, to)
    OBVIOUS
  <2> QED
    BY <2>1, <2>2, <2>3, TwinOnward
<1>4. Seq(Tokens) \subseteq T
  <2> HIDE DEF T
  <2> QED
    BY <1>2, <1>3, Cut!SeqInduction
<1>5. Twin(Walk(start, text), Walk(here, text), from, to)
  BY <1>4, TokensFacts
<1> DEFINE seen == Walk(start, text)  real == Walk(here, text)
<1> HIDE DEF seen, real
<1>6. ASSUME NEW rest \in Seq(Plain), seen = from \o rest, real = to \o rest
      PROVE  Carry(seen, from, to) = Carry(real, from, to)
  <2>1. Carry(seen, from, to) = to \o rest
    BY <1>6, UnderConcat DEF Siblings
  <2>2. Carry(real, from, to) = real
    BY <1>6, SiblingsApart DEF Carry
  <2> QED
    BY <1>6, <2>1, <2>2
<1>7. Carry(seen, from, to) = Carry(real, from, to)
  BY <1>5, <1>6 DEF Twin, seen, real
<1> QED
  BY <1>7 DEF start, seen, real

\* A mapped path takes at most the room of the new prefix more.
LEMMA MappedLength ==
  ASSUME NEW from \in Seq(Plain), NEW to \in Seq(Plain), to # <<>>,
         NEW text \in Paths, Absolute(text), Tight(text), Under(Walk(<<>>, text), from)
  PROVE  Length(TextOf(Carry(Walk(<<>>, text), from, to))) <= Length(Slashed(to)) + Length(text)
<1> DEFINE place == Walk(<<>>, text)
<1>1. place \in Seq(Plain) /\ text # <<>> /\ text[1] = "/"
  BY EmptySeq, WalkType DEF Absolute
<1>2. Length(Slashed(place)) + (IF Last(text) \in Plain THEN 0 ELSE 1) <= Length(text)
  BY <1>1, WalkShorter
<1> HIDE DEF place
<1>3. PICK rest \in Seq(Plain) :
        place = from \o rest /\ \A other : Carry(place, from, other) = other \o rest
  BY <1>1, UnderIsConcat DEF place
<1>4. from \in Seq(Names) /\ to \in Seq(Names) /\ rest \in Seq(Names) /\ place \in Seq(Names)
  BY <1>1, PlainSeq
<1>5. /\ Slashed(from) \in Paths /\ Slashed(to) \in Paths /\ Slashed(rest) \in Paths
      /\ Slashed(place) = Slashed(from) \o Slashed(rest)
      /\ Slashed(to \o rest) = Slashed(to) \o Slashed(rest)
  BY <1>3, <1>4, SlashedType, SlashedConcat
<1>6. /\ Length(Slashed(place)) = Length(Slashed(from)) + Length(Slashed(rest))
      /\ Length(Slashed(to \o rest)) = Length(Slashed(to)) + Length(Slashed(rest))
      /\ Length(Slashed(from)) \in Nat /\ Length(Slashed(to)) \in Nat
      /\ Length(Slashed(rest)) \in Nat /\ Length(text) \in Nat
  BY <1>5, LengthConcat, LengthType
<1>7. to \o rest \in Seq(Plain) /\ to \o rest # <<>>
  <2>1. to \o rest \in Seq(Plain) /\ Len(to \o rest) = Len(to) + Len(rest)
        /\ Len(to) \in Nat \ {0} /\ Len(rest) \in Nat /\ Len(<<>>) = 0
    BY ConcatProperties, LenProperties, EmptySeq
  <2> QED
    BY <2>1
<1>8. TextOf(to \o rest) = Slashed(to \o rest)
  BY <1>7, TextOfIs
<1>9. Length(TextOf(Carry(place, from, to))) = Length(Slashed(to)) + Length(Slashed(rest))
  BY <1>3, <1>6, <1>8
<1>10. Length(Slashed(rest)) <= Length(text)
  BY <1>2, <1>6
<1> QED
  BY <1>6, <1>9, <1>10 DEF place
=============================================================================
