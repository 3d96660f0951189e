--------------------------- MODULE PathCheckProofs --------------------------
(***************************************************************************)
(* What the lexical functions promise, for texts of every length, names of *)
(* every kind and buffers of every size up to PATH_MAX.                    *)
(***************************************************************************)
EXTENDS PathCheck, PathTextProofs, CleanPathProofs

PathOK == path \in Paths /\ Tight(path)

LEMMA PathStarts == CheckInit => PathOK
<1> SUFFICES ASSUME path = <<>> PROVE PathOK
  BY DEF CheckInit
<1>1. <<>> \in Paths /\ Len(<<>>) = 0
  BY EmptySeq, TokensFacts
<1> QED
  BY <1>1 DEF PathOK, Tight

LEMMA PathGrows == PathOK /\ [CheckNext]_<<path, vars>> => PathOK'
<1> SUFFICES ASSUME PathOK, [CheckNext]_<<path, vars>> PROVE PathOK'
  OBVIOUS
<1>1. CASE AppendSlash
  <2>1. "/" \in Tokens /\ path' = Append(path, "/")
    BY <1>1, TokensFacts DEF AppendSlash
  <2> QED
    BY <2>1, TightAppend, TokensFacts, AppendProperties DEF PathOK
<1>2. CASE AppendName
  <2>1. PICK name \in Names : path' = Append(path, name)
    BY <1>2 DEF AppendName
  <2>2. name \in Tokens /\ (path = <<>> \/ Last(path) = "/")
    BY <1>2, TokensFacts DEF AppendName
  <2> QED
    BY <2>1, <2>2, TightAppend, TokensFacts, AppendProperties DEF PathOK
<1>3. CASE Clean \/ CleanStep \/ UNCHANGED <<path, vars>>
  BY <1>3 DEF Clean, CleanStep, PathOK
<1> QED
  BY <1>1, <1>2, <1>3 DEF CheckNext

LEMMA PathInvariant == CheckSpec => []PathOK
BY PathStarts, PathGrows, PTL DEF CheckSpec

\* Cleaning is lexical: nothing that it drops, keeps or cuts changes where an absolute
\* path leads.
THEOREM CleaningIsLexical == CheckSpec => []CleanIsLexical
<1>1. PathOK => CleanIsLexical
  <2> SUFFICES ASSUME PathOK, Absolute(path), NEW n \in Sizes, clean_path_into(path, n) # Fail
               PROVE  /\ Absolute(clean_path_into(path, n))
                      /\ Segments(clean_path_into(path, n)) = Resolve(path)
    BY DEF CleanIsLexical
  <2>1. n \in Nat /\ path \in Paths
    BY PathCheckAssumption, LimitsAssumption DEF PathOK
  <2> QED
    BY <2>1, CleanedAbsolute DEF Resolve
<1> QED
  BY <1>1, PathInvariant, PTL

\* Policies from strings that are absolute and, when cleaned, neither the root nor
\* ending in a slash, as all are that do not end in "..".
PlainPolicies ==
  \A policy \in Policies : policy.enabled /\ Last(policy.from) # "/" /\ Last(policy.to) # "/"

LEMMA PolicyFacts ==
  ASSUME PlainPolicies, NEW policy \in Policies
  PROVE  \E from, to \in Seq(Plain) :
           /\ from # <<>> /\ to # <<>>
           /\ policy.from = Slashed(from) /\ policy.to = Slashed(to)
           /\ Segments(policy.from) = from /\ Segments(policy.to) = to
           /\ policy.enabled
<1>1. PICK from_env \in Paths \cup {NULL}, to_env \in Paths \cup {NULL} :
        policy = init_rewrite_policy(from_env, to_env)
  <2>1. PICK c \in Configs : policy = init_rewrite_policy(c[1], c[2])
    BY DEF Policies
  <2>2. c[1] \in Paths \cup {NULL} /\ c[2] \in Paths \cup {NULL}
    BY PathCheckAssumption
  <2> QED
    BY <2>1, <2>2
<1>2. policy.enabled /\ Last(policy.from) # "/" /\ Last(policy.to) # "/"
  BY DEF PlainPolicies
<1> QED
  BY <1>1, <1>2, PlainPolicyIs

\* Rewriting maps FROM onto TO, exactly and with room for the NUL.
THEOREM RewritingIsMapping ==
  ASSUME PlainPolicies
  PROVE  CheckSpec => []RewriteIsMapping
<1>1. PathOK => RewriteIsMapping
  <2> SUFFICES ASSUME PathOK, Absolute(path), NEW policy \in Policies
               PROVE  LET from    == Segments(policy.from)
                          to      == Segments(policy.to)
                          mapped  == Carry(Resolve(path), from, to)
                          cleaned == clean_path_into(path, PATH_MAX)
                          result  == rewrite_absolute_path(policy, path)
                      IN /\ result # Fail =>
                              /\ Under(Resolve(path), from) /\ Resolve(result) = mapped
                              /\ Length(result) + 1 <= PATH_MAX
                         /\ result = Fail =>
                              \/ ~ Under(Resolve(path), from)
                              \/ Length(path) + 1 > PATH_MAX
                              \/ Length(TextOf(mapped)) + 1 > PATH_MAX
                              \/ Length(TextOf(mapped)) + 2 > PATH_MAX /\ Last(cleaned) = "/"
    BY DEF RewriteIsMapping
  <2>1. PICK from, to \in Seq(Plain) :
          /\ from # <<>> /\ to # <<>>
          /\ policy.from = Slashed(from) /\ policy.to = Slashed(to)
          /\ Segments(policy.from) = from /\ Segments(policy.to) = to
          /\ policy.enabled
    BY PolicyFacts
  <2>2. path \in Paths /\ Tight(path)
    BY DEF PathOK
  <2> QED
    BY <2>1, <2>2, RewriteMaps DEF Resolve
<1> QED
  BY <1>1, PathInvariant, PTL

\* getcwd and chdir agree: what getcwd says of a directory outside FROM leads back to
\* it, from buffers of every size, unless making the name overran its array.
THEOREM CwdLeadsBack ==
  ASSUME PlainPolicies
  PROVE  CheckSpec => []CwdRoundTrip
<1>1. PathOK => CwdRoundTrip
  <2> SUFFICES ASSUME PathOK, NEW policy \in Policies, NEW size \in CwdSizes,
                      Length(TextOf(Resolve(path))) < PATH_MAX,
                      Length(TextOf(Resolve(path))) < size,
                      ~ Under(Resolve(path), Segments(policy.from)),
                      ~ getcwd_overruns(policy, TextOf(Resolve(path)), size)
               PROVE  LET here   == Resolve(path)
                          seen   == getcwd_answer(policy, TextOf(here), size)
                          target == rewrite_absolute_path(policy, seen)
                      IN /\ Length(seen) < size
                         /\ Resolve(IF target = Fail THEN seen ELSE target) = here
    BY DEF CwdRoundTrip
  <2>1. PICK from, to \in Seq(Plain) :
          /\ from # <<>> /\ to # <<>>
          /\ policy.from = Slashed(from) /\ policy.to = Slashed(to)
          /\ Segments(policy.from) = from /\ Segments(policy.to) = to
          /\ policy.enabled
    BY PolicyFacts
  <2>2. Resolve(path) \in Seq(Plain)
    BY EmptySeq, WalkType DEF PathOK, Resolve
  <2>3. size \in Nat
    BY PathCheckAssumption
  <2> QED
    BY <2>1, <2>2, <2>3, AnswerLeadsBack DEF Resolve
<1> QED
  BY <1>1, PathInvariant, PTL

-----------------------------------------------------------------------------
(***************************************************************************)
(* What the code does byte by byte is what PathText does token by token.   *)
(*                                                                         *)
(* The bytes of a text, token after token.                                 *)
(***************************************************************************)
Spelling == INSTANCE FoldProofs WITH Op <- LAMBDA bytes, token : bytes \o Bytes(token)

LEMMA SpellIsFold == \A text : Spell(text) = Spelling!Fold(<<>>, text)
BY DEF Spell, Spelling!Fold, FoldLeft, MapThenFoldSet, Spelling!FoldLeft,
       Spelling!MapThenFoldSet, Max, Spelling!Max

\* Only "/" has a slash in it.
LEMMA BytesFacts ==
  /\ \A token \in Tokens :
       /\ Bytes(token) \in Seq(Chars) /\ Len(Bytes(token)) = Characters(token)
       /\ Characters(token) \in Nat \ {0}
       /\ \A i \in 1..Characters(token) : Bytes(token)[i] \in Chars
       /\ token # "/" => \A i \in 1..Characters(token) : Bytes(token)[i] # "/"
  /\ Bytes("/") = <<"/">> /\ Characters("/") = 1
<1>1. Bytes("/") = <<"/">> /\ Characters("/") = 1
  BY DEF Bytes, Characters
<1>2. ASSUME NEW token \in Tokens, token # "/"
      PROVE  /\ Bytes(token) \in Seq(Chars) /\ Len(Bytes(token)) = Characters(token)
             /\ Characters(token) \in Nat \ {0}
             /\ \A i \in 1..Characters(token) :
                  Bytes(token)[i] \in Chars /\ Bytes(token)[i] # "/"
  <2>1. token \in Names
    BY <1>2, TokensFacts
  <2>2. Letters[token] \in Seq(Chars \ {"/"}) /\ Len(Letters[token]) = Width[token]
    BY <2>1, PathCheckAssumption
  <2>3. Letters[token] \in Seq(Chars)
    BY <2>2
  <2> QED
    BY <1>2, <2>2, <2>3, CharactersType, ElementOfSeq DEF Bytes, Characters
<1>3. /\ <<"/">> \in Seq(Chars) /\ Len(<<"/">>) = 1 /\ <<"/">>[1] = "/" /\ "/" \in Chars
  BY CleanPathAssumption
<1>4. ASSUME NEW token \in Tokens
      PROVE  /\ Bytes(token) \in Seq(Chars) /\ Len(Bytes(token)) = Characters(token)
             /\ Characters(token) \in Nat \ {0}
             /\ \A i \in 1..Characters(token) : Bytes(token)[i] \in Chars
             /\ token # "/" => \A i \in 1..Characters(token) : Bytes(token)[i] # "/"
  <2>1. CASE token = "/"
    <3>1. Bytes(token) = <<"/">> /\ Characters(token) = 1
      BY <1>1, <2>1
    <3>2. \A i \in 1..1 : i = 1
      OBVIOUS
    <3>3. Bytes(token) \in Seq(Chars) /\ Len(Bytes(token)) = Characters(token)
      BY <1>3, <3>1
    <3>4. \A i \in 1..Characters(token) : Bytes(token)[i] \in Chars
      BY <1>3, <3>1, <3>2
    <3>5. Characters(token) \in Nat \ {0}
      BY <3>1
    <3> QED
      BY <2>1, <3>3, <3>4, <3>5
  <2>2. CASE token # "/"
    BY <1>2, <2>2
  <2> QED
    BY <2>1, <2>2
<1> QED
  BY <1>1, <1>4

LEMMA SpellEmpty == Spell(<<>>) = <<>>
BY SpellIsFold, Spelling!FoldEmpty

LEMMA SpellAppend ==
  ASSUME NEW text \in Paths, NEW token \in Tokens
  PROVE  Spell(Append(text, token)) = Spell(text) \o Bytes(token)
<1>1. text \in Seq(Tokens)
  BY TokensFacts
<1> QED
  BY <1>1, SpellIsFold, Spelling!FoldAppend

LEMMA SpellType == \A text \in Paths : Spell(text) \in Seq(Chars)
<1>1. \A bytes \in Seq(Chars), token \in Tokens : bytes \o Bytes(token) \in Seq(Chars)
  BY BytesFacts, ConcatProperties
<1>2. <<>> \in Seq(Chars)
  BY EmptySeq
<1>3. \A text \in Seq(Tokens) : Spelling!Fold(<<>>, text) \in Seq(Chars)
  BY <1>1, <1>2, Spelling!FoldType
<1> QED
  BY <1>3, TokensFacts, SpellIsFold

LEMMA SpellLength == \A text \in Paths : Len(Spell(text)) = Length(text)
<1> DEFINE T == {t \in Paths : Len(Spell(t)) = Length(t)}
<1>0. Paths = Seq(Tokens)
  BY TokensFacts
<1>1. <<>> \in T
  BY <1>0, EmptySeq, SpellEmpty, LengthEmpty
<1>2. ASSUME NEW t \in Seq(Tokens) \cap T, NEW token \in Tokens
      PROVE  Append(t, token) \in T
  <2>1. t \in Paths /\ Append(t, token) \in Paths /\ Len(Spell(t)) = Length(t)
    BY <1>0, AppendProperties
  <2>2. /\ Spell(t) \in Seq(Chars) /\ Bytes(token) \in Seq(Chars)
        /\ Len(Bytes(token)) = Characters(token)
    BY <2>1, SpellType, BytesFacts
  <2>3. Len(Spell(t) \o Bytes(token)) = Length(t) + Characters(token)
    BY <2>1, <2>2, ConcatProperties
  <2> QED
    BY <2>1, <2>3, SpellAppend, LengthAppend
<1>3. Seq(Tokens) \subseteq T
  <2> HIDE DEF T
  <2> QED
    BY <1>1, <1>2, Cut!SeqInduction
<1> QED
  BY <1>0, <1>3

LEMMA SpellConcat ==
  ASSUME NEW s \in Paths
  PROVE  \A t \in Paths : Spell(s \o t) = Spell(s) \o Spell(t)
<1> DEFINE T == {t \in Paths : Spell(s \o t) = Spell(s) \o Spell(t)}
<1>0. Paths = Seq(Tokens) /\ \A t \in Paths : Spell(t) \in Seq(Chars)
  BY TokensFacts, SpellType
<1>1. <<>> \in T
  BY <1>0, EmptySeq, ConcatEmptySeq, SpellEmpty
<1>2. ASSUME NEW t \in Seq(Tokens) \cap T, NEW token \in Tokens
      PROVE  Append(t, token) \in T
  <2>1. t \in Paths /\ s \o t \in Paths /\ Append(t, token) \in Paths
    BY <1>0, ConcatProperties, AppendProperties
  <2>2. s \o Append(t, token) = Append(s \o t, token)
    BY <1>0, <2>1
  <2>3. Spell(s \o t) = Spell(s) \o Spell(t)
    OBVIOUS
  <2>4. /\ Spell(s \o Append(t, token)) = (Spell(s) \o Spell(t)) \o Bytes(token)
        /\ Spell(Append(t, token)) = Spell(t) \o Bytes(token)
    BY <2>1, <2>2, <2>3, SpellAppend
  <2>5. (Spell(s) \o Spell(t)) \o Bytes(token) = Spell(s) \o (Spell(t) \o Bytes(token))
    <3>1. Spell(s) \in Seq(Chars) /\ Spell(t) \in Seq(Chars) /\ Bytes(token) \in Seq(Chars)
      BY <1>0, <2>1, BytesFacts
    <3> QED
      BY <3>1, ConcatAssociative
  <2> QED
    BY <2>1, <2>4, <2>5
<1>3. Seq(Tokens) \subseteq T
  <2> HIDE DEF T
  <2> QED
    BY <1>1, <1>2, Cut!SeqInduction
<1> QED
  BY <1>0, <1>3

\* The first m tokens of a text.
Part(text, m) == SubSeq(text, 1, m)

LEMMA PartFacts ==
  ASSUME NEW text \in Paths
  PROVE  /\ Part(text, 0) = <<>> /\ Part(text, Len(text)) = text /\ Len(text) \in Nat
         /\ \A m \in 0..Len(text) : Part(text, m) \in Paths /\ Len(Part(text, m)) = m
         /\ \A m \in 0..(Len(text) - 1) :
              /\ Part(text, m + 1) = Append(Part(text, m), text[m + 1])
              /\ text[m + 1] \in Tokens
<1>0. text \in Seq(Tokens) /\ Paths = Seq(Tokens) /\ Len(text) \in Nat
  BY TokensFacts
<1>1. Part(text, 0) = <<>> /\ Part(text, Len(text)) = text
  BY <1>0, SubSeqEmpty, SubSeqFull DEF Part
<1>2. ASSUME NEW m \in 0..Len(text)
      PROVE  Part(text, m) \in Paths /\ Len(Part(text, m)) = m
  <2>1. m \in Nat /\ \A i \in 1..m : text[i] \in Tokens
    BY <1>0, <1>2, ElementOfSeq
  <2> QED
    BY <1>0, <2>1, SubSeqProperties DEF Part
<1>3. ASSUME NEW m \in 0..(Len(text) - 1)
      PROVE  /\ Part(text, m + 1) = Append(Part(text, m), text[m + 1])
             /\ text[m + 1] \in Tokens
  <2>1. m + 1 \in 1..Len(text) /\ 1 \in 1..Len(text) /\ m + 1 \in 1..Len(text)
        /\ (m + 1) - 1 = m /\ m \in 0..Len(text)
    BY <1>0, <1>3
  <2>2. text[m + 1] \in Tokens
    BY <1>0, <2>1, ElementOfSeq
  <2>3. SubSeq(text, 1, m + 1) = SubSeq(text, 1, (m + 1) - 1) \o <<text[m + 1]>>
    BY <1>0, <2>1, SubSeqRecursiveSecond
  <2>4. Append(Part(text, m), text[m + 1]) = Part(text, m) \o <<text[m + 1]>>
    BY <1>0, <1>2, <2>1, <2>2, AppendIsConcat
  <2> QED
    BY <2>1, <2>2, <2>3, <2>4 DEF Part
<1> QED
  BY <1>0, <1>1, <1>2, <1>3

\* A text is its first m tokens and the others.
LEMMA PartAndRest ==
  ASSUME NEW text \in Paths, NEW m \in 0..Len(text)
  PROVE  \E rest \in Paths : text = Part(text, m) \o rest
<1>0. text \in Seq(Tokens) /\ Paths = Seq(Tokens) /\ Len(text) \in Nat /\ m \in Nat
  BY TokensFacts
<1>1. \A i \in (m + 1)..Len(text) : text[i] \in Tokens
  BY <1>0, ElementOfSeq
<1>2. SubSeq(text, m + 1, Len(text)) \in Seq(Tokens)
  BY <1>0, <1>1, SubSeqProperties
<1>3. SubSeq(text, 1, m) \o SubSeq(text, m + 1, Len(text)) = SubSeq(text, 1, Len(text))
  <2>1. 1 \in 1..(Len(text) + 1) /\ m \in (1 - 1)..Len(text) /\ Len(text) \in m..Len(text)
    BY <1>0
  <2> QED
    BY <1>0, <2>1, ConcatAdjacentSubSeq
<1> QED
  BY <1>0, <1>2, <1>3, SubSeqFull DEF Part

\* The bytes of the first tokens are the first bytes.
LEMMA SpellPart ==
  ASSUME NEW text \in Paths, NEW m \in 0..Len(text)
  PROVE  /\ Length(Part(text, m)) \in Nat /\ Length(text) \in Nat
         /\ Length(Part(text, m)) <= Length(text)
         /\ \A i \in 1..Length(Part(text, m)) : Spell(Part(text, m))[i] = Spell(text)[i]
<1>1. PICK rest \in Paths : text = Part(text, m) \o rest
  BY PartAndRest
<1>2. Part(text, m) \in Paths
  BY PartFacts
<1> DEFINE s == Part(text, m)
<1> HIDE DEF s
<1>3. /\ Spell(text) = Spell(s) \o Spell(rest) /\ Spell(s) \in Seq(Chars)
      /\ Spell(rest) \in Seq(Chars)
  BY <1>1, <1>2, SpellConcat, SpellType DEF s
<1>4. /\ Len(Spell(s)) = Length(s) /\ Len(Spell(rest)) = Length(rest)
      /\ Len(Spell(text)) = Length(text)
      /\ Length(s) \in Nat /\ Length(rest) \in Nat /\ Length(text) \in Nat
  BY <1>2, SpellLength, LengthType DEF s
<1>5. /\ Len(Spell(s) \o Spell(rest)) = Len(Spell(s)) + Len(Spell(rest))
      /\ \A i \in 1..(Len(Spell(s)) + Len(Spell(rest))) :
           (Spell(s) \o Spell(rest))[i] =
             IF i <= Len(Spell(s)) THEN Spell(s)[i] ELSE Spell(rest)[i - Len(Spell(s))]
  BY <1>3, ConcatProperties
<1>6. Length(s) <= Length(text) /\ \A i \in 1..Length(s) : Spell(s)[i] = Spell(text)[i]
  BY <1>3, <1>4, <1>5
<1> QED
  BY <1>4, <1>6 DEF s

\* The bytes of a text with one token more.
LEMMA SpellNext ==
  ASSUME NEW text \in Paths, NEW token \in Tokens
  PROVE  /\ Length(Append(text, token)) = Length(text) + Characters(token)
         /\ \A i \in 1..Length(text) : Spell(Append(text, token))[i] = Spell(text)[i]
         /\ \A i \in 1..Characters(token) :
              Spell(Append(text, token))[Length(text) + i] = Bytes(token)[i]
<1>1. /\ Spell(text) \in Seq(Chars) /\ Bytes(token) \in Seq(Chars)
      /\ Len(Spell(text)) = Length(text) /\ Len(Bytes(token)) = Characters(token)
      /\ Length(text) \in Nat /\ Characters(token) \in Nat
  BY SpellType, BytesFacts, SpellLength, LengthType
<1>2. \A i \in 1..(Len(Spell(text)) + Len(Bytes(token))) :
        (Spell(text) \o Bytes(token))[i] =
          IF i <= Len(Spell(text)) THEN Spell(text)[i] ELSE Bytes(token)[i - Len(Spell(text))]
  BY <1>1, ConcatProperties
<1>3. Spell(Append(text, token)) = Spell(text) \o Bytes(token)
  BY SpellAppend
<1>4. \A i \in 1..Characters(token) :
        (Spell(text) \o Bytes(token))[Length(text) + i] = Bytes(token)[i]
  BY <1>1, <1>2
<1> QED
  BY <1>1, <1>2, <1>3, <1>4, LengthAppend

\* Where the bytes of a token are in the text.
LEMMA SpellAt ==
  ASSUME NEW text \in Paths, NEW m \in 0..(Len(text) - 1)
  PROVE  /\ Length(Part(text, m)) + Characters(text[m + 1]) <= Length(text)
         /\ Length(Part(text, m + 1)) = Length(Part(text, m)) + Characters(text[m + 1])
         /\ \A i \in 1..Characters(text[m + 1]) :
              Spell(text)[Length(Part(text, m)) + i] = Bytes(text[m + 1])[i]
<1>1. /\ m \in 0..Len(text) /\ m + 1 \in 0..Len(text) /\ Part(text, m) \in Paths
      /\ text[m + 1] \in Tokens /\ Part(text, m + 1) = Append(Part(text, m), text[m + 1])
  BY PartFacts
<1> DEFINE before == Length(Part(text, m))  token == text[m + 1]
<1>2. before \in Nat /\ Characters(token) \in Nat
  BY <1>1, LengthType, BytesFacts
<1>3. /\ Length(Part(text, m + 1)) = before + Characters(token)
      /\ \A i \in 1..Characters(token) : Spell(Part(text, m + 1))[before + i] = Bytes(token)[i]
  <2> DEFINE part == Part(text, m)
  <2>1. part \in Paths /\ token \in Tokens /\ Part(text, m + 1) = Append(part, token)
    BY <1>1
  <2>2. before = Length(part)
    OBVIOUS
  <2> HIDE DEF before, token, part
  <2>3. /\ Length(Append(part, token)) = Length(part) + Characters(token)
        /\ \A i \in 1..Characters(token) :
             Spell(Append(part, token))[Length(part) + i] = Bytes(token)[i]
    BY <2>1, SpellNext
  <2> QED
    BY <2>1, <2>2, <2>3
<1>4. /\ Length(Part(text, m + 1)) <= Length(text)
      /\ \A i \in 1..Length(Part(text, m + 1)) : Spell(Part(text, m + 1))[i] = Spell(text)[i]
  BY <1>1, SpellPart
<1> HIDE DEF before, token
<1>5. \A i \in 1..Characters(token) : Spell(text)[before + i] = Bytes(token)[i]
  BY <1>2, <1>3, <1>4
<1> QED
  BY <1>3, <1>4, <1>5 DEF before, token

\* A text ends in a slash if its bytes do.
LEMMA SpellLast ==
  ASSUME NEW text \in Paths
  PROVE  /\ text = <<>> <=> Length(text) = 0
         /\ text # <<>> => (Spell(text)[Length(text)] = "/" <=> Last(text) = "/")
<1>1. text = <<>> => Length(text) = 0
  BY LengthEmpty
<1>2. ASSUME text # <<>>
      PROVE  Length(text) # 0 /\ (Spell(text)[Length(text)] = "/" <=> Last(text) = "/")
  <2>1. PICK s \in Seq(Tokens), token \in Tokens : text = Append(s, token)
    BY <1>2, TokensFacts, SequenceEmptyOrAppend
  <2>2. s \in Paths /\ Last(text) = token /\ Length(s) \in Nat
    BY <2>1, TokensFacts, FrontOfAppend, LengthType
  <2>3. /\ Length(text) = Length(s) + Characters(token)
        /\ Spell(text)[Length(s) + Characters(token)] = Bytes(token)[Characters(token)]
        /\ Characters(token) \in Nat \ {0}
    BY <2>1, <2>2, SpellNext, BytesFacts
  <2>4. Bytes(token)[Characters(token)] = "/" <=> token = "/"
    BY <2>3, BytesFacts
  <2> QED
    BY <2>2, <2>3, <2>4
<1> QED
  BY <1>1, <1>2

-----------------------------------------------------------------------------
(***************************************************************************)
(* Where the walk along the bytes is, in tokens.                           *)
(*                                                                         *)
(* Names with the same letters are the same name.                          *)
(***************************************************************************)
LEMMA LettersDiffer == \A n, m \in Names : Letters[n] = Letters[m] => n = m
<1> SUFFICES ASSUME NEW n \in Names, NEW m \in Names, Letters[n] = Letters[m], n # m
             PROVE  FALSE
  OBVIOUS
<1>1. IsPrefix(Letters[n], Letters[m])
  BY PathCheckAssumption DEF IsPrefix
<1>2. <<n, m>> \in Begins /\ Width[n] = Width[m] /\ Width[n] \in Nat
  BY <1>1, PathCheckAssumption, PathTextAssumption
<1> QED
  BY <1>2, PathTextAssumption

\* The character at each byte of a token, and after a name.
LEMMA CharIs ==
  ASSUME NEW text \in Paths, src = Spell(text), NEW m \in 0..(Len(text) - 1)
  PROVE  /\ Length(Part(text, m)) \in Nat /\ Characters(text[m + 1]) \in Nat \ {0}
         /\ text[m + 1] \in Tokens
         /\ Length(Part(text, m + 1)) = Length(Part(text, m)) + Characters(text[m + 1])
         /\ \A j \in 0..(Characters(text[m + 1]) - 1) :
              /\ CharAt(Length(Part(text, m)) + j) = Bytes(text[m + 1])[j + 1]
              /\ CharAt(Length(Part(text, m)) + j) \in Chars
              /\ CharAt(Length(Part(text, m)) + j) = "/" <=> text[m + 1] = "/"
<1> DEFINE before == Length(Part(text, m))  token == text[m + 1]
<1>0. Len(text) \in Nat /\ token \in Tokens
  BY PartFacts
<1>1. m \in 0..Len(text) /\ token \in Tokens /\ Part(text, m) \in Paths
  <2>1. m \in 0..Len(text)
    BY <1>0
  <2> QED
    BY <1>0, <2>1, PartFacts
<1>2. /\ before \in Nat /\ Characters(token) \in Nat \ {0}
      /\ Len(Spell(text)) = Length(text) /\ Length(text) \in Nat
  BY <1>1, BytesFacts, LengthType, SpellLength
<1>3. /\ before + Characters(token) <= Length(text)
      /\ Length(Part(text, m + 1)) = before + Characters(token)
      /\ \A i \in 1..Characters(token) : Spell(text)[before + i] = Bytes(token)[i]
  BY SpellAt
<1> HIDE DEF before, token
<1>4. ASSUME NEW j \in 0..(Characters(token) - 1)
      PROVE  /\ CharAt(before + j) = Bytes(token)[j + 1]
             /\ Bytes(token)[j + 1] \in Chars
             /\ Bytes(token)[j + 1] = "/" <=> token = "/"
  <2>1. j + 1 \in 1..Characters(token) /\ before + j < Length(text)
        /\ before + (j + 1) = (before + j) + 1
    BY <1>2, <1>3
  <2>2. CharAt(before + j) = Bytes(token)[j + 1]
    BY <1>2, <1>3, <2>1 DEF CharAt
  <2>3. token = "/" => Bytes(token)[j + 1] = "/"
    <3>1. token = "/" => Characters(token) = 1 /\ Bytes(token) = <<"/">> /\ j = 0
      BY <1>2, BytesFacts
    <3> QED
      BY <3>1
  <2> QED
    BY <1>1, <2>1, <2>2, <2>3, BytesFacts
<1> QED
  BY <1>1, <1>2, <1>3, <1>4 DEF before, token

LEMMA CharAtEnd ==
  ASSUME NEW text \in Paths, src = Spell(text)
  PROVE  Length(text) \in Nat /\ CharAt(Length(text)) = NUL /\ Len(src) = Length(text)
BY SpellLength, LengthType DEF CharAt

\* Before the end of the text there is a token, at its end there is NUL.
LEMMA CharAtPart ==
  ASSUME NEW text \in Paths, src = Spell(text), NEW m \in 0..Len(text)
  PROVE  /\ CharAt(Length(Part(text, m))) = NUL <=> m = Len(text)
         /\ m # Len(text) =>
              /\ m \in 0..(Len(text) - 1)
              /\ CharAt(Length(Part(text, m))) = "/" <=> text[m + 1] = "/"
<1>1. Len(text) \in Nat /\ Part(text, Len(text)) = text
  BY PartFacts
<1>2. CASE m = Len(text)
  BY <1>1, <1>2, CharAtEnd
<1>3. CASE m # Len(text)
  <2>1. m \in 0..(Len(text) - 1)
    BY <1>1, <1>3
  <2>2. Characters(text[m + 1]) \in Nat \ {0} /\ Length(Part(text, m)) \in Nat
    BY <2>1, CharIs
  <2>3. 0 \in 0..(Characters(text[m + 1]) - 1) /\ Length(Part(text, m)) + 0 = Length(Part(text, m))
    BY <2>2
  <2>4. /\ CharAt(Length(Part(text, m))) \in Chars
        /\ CharAt(Length(Part(text, m))) = "/" <=> text[m + 1] = "/"
    BY <2>1, <2>3, CharIs
  <2> QED
    BY <1>3, <2>1, <2>4, CleanPathAssumption
<1> QED
  BY <1>2, <1>3

\* In a tight text a name ends at a slash or at the NUL.
LEMMA CharAfter ==
  ASSUME NEW text \in Paths, src = Spell(text), Tight(text), NEW m \in 0..(Len(text) - 1),
         text[m + 1] # "/"
  PROVE  CharAt(Length(Part(text, m)) + Characters(text[m + 1])) \in {"/", NUL}
<1>1. Len(text) \in Nat /\ m + 1 \in 0..Len(text) /\ m + 1 \in Nat
  BY PartFacts
<1>2. Length(Part(text, m + 1)) = Length(Part(text, m)) + Characters(text[m + 1])
  BY CharIs
<1>3. m + 1 # Len(text) => text[(m + 1) + 1] = "/"
  <2>1. m + 1 # Len(text) => m + 1 \in 1..(Len(text) - 1)
    BY <1>1
  <2> QED
    BY <2>1 DEF Tight
<1>4. CharAt(Length(Part(text, m + 1))) \in {"/", NUL}
  BY <1>1, <1>3, CharAtPart
<1> QED
  BY <1>2, <1>4

\* The text is absolute for the walk along the bytes if it is for the tokens.
LEMMA AbsoluteIs ==
  ASSUME NEW text \in Paths, src = Spell(text)
  PROVE  absolute <=> Absolute(text)
<1>1. Len(text) \in Nat /\ Part(text, 0) = <<>> /\ text # NULL
  BY PartFacts, PathTextAssumption
<1>2. Length(Part(text, 0)) = 0
  BY <1>1, LengthEmpty
<1>3. CASE text = <<>>
  <2>1. Len(text) = 0
    BY <1>3
  <2> QED
    BY <1>1, <1>2, <1>3, <2>1, CharAtPart, CleanPathAssumption DEF absolute, Absolute
<1>4. CASE text # <<>>
  <2>1. Len(text) # 0 /\ 0 \in 0..Len(text) /\ 0 + 1 = 1
    BY <1>1, <1>4, TokensFacts, EmptySeq
  <2> QED
    BY <1>1, <1>2, <1>4, <2>1, CharAtPart DEF absolute, Absolute
<1> QED
  BY <1>3, <1>4

-----------------------------------------------------------------------------
(***************************************************************************)
(* The cleaner of PathText after the first m tokens of a text.             *)
(***************************************************************************)
Reached(text, n, m) ==
  Cleaner!Fold(CleanStart(Absolute(text), n), Segments(Part(text, m)))

LEMMA ReachedNext ==
  ASSUME NEW text \in Paths, NEW n
  PROVE  /\ Reached(text, n, 0) = CleanStart(Absolute(text), n)
         /\ \A m \in 0..(Len(text) - 1) :
              Reached(text, n, m + 1) =
                IF text[m + 1] = "/" THEN Reached(text, n, m)
                ELSE CleanSegment(Reached(text, n, m), text[m + 1])
<1>1. Reached(text, n, 0) = CleanStart(Absolute(text), n)
  BY PartFacts, SegmentsEmpty, Cleaner!FoldEmpty DEF Reached
<1>2. ASSUME NEW m \in 0..(Len(text) - 1)
      PROVE  Reached(text, n, m + 1) =
               IF text[m + 1] = "/" THEN Reached(text, n, m)
               ELSE CleanSegment(Reached(text, n, m), text[m + 1])
  <2>0. Len(text) \in Nat
    BY PartFacts
  <2>1. m \in 0..Len(text)
    BY <2>0
  <2>2. /\ Part(text, m) \in Paths /\ text[m + 1] \in Tokens
        /\ Part(text, m + 1) = Append(Part(text, m), text[m + 1])
    BY <2>1, PartFacts
  <2>3. /\ Segments(Part(text, m)) \in Seq(Names)
        /\ Segments(Part(text, m + 1)) =
             IF text[m + 1] = "/" THEN Segments(Part(text, m))
             ELSE Append(Segments(Part(text, m)), text[m + 1])
    BY <2>2, SegmentsType, SegmentsAppend
  <2>4. text[m + 1] # "/" => text[m + 1] \in Names
    BY <2>2, TokensFacts
  <2>5. CASE text[m + 1] = "/"
    BY <2>3, <2>5 DEF Reached
  <2>6. CASE text[m + 1] # "/"
    BY <2>3, <2>4, <2>6, Cleaner!FoldAppend DEF Reached
  <2> QED
    BY <2>5, <2>6
<1> QED
  BY <1>1, <1>2

\* Once refused, a text stays refused.
LEMMA ReachedFails ==
  ASSUME NEW text \in Paths, NEW n, NEW m \in 0..Len(text), Reached(text, n, m) = Fail
  PROVE  Reached(text, n, Len(text)) = Fail
<1>0. Len(text) \in Nat
  BY PartFacts
<1> DEFINE S == {k \in Nat : m + k <= Len(text) => Reached(text, n, m + k) = Fail}
<1>1. 0 \in S
  <2>1. m + 0 = m
    BY <1>0
  <2> QED
    BY <2>1
<1>2. ASSUME NEW k \in S \cap Nat
      PROVE  k + 1 \in S
  <2> SUFFICES ASSUME m + (k + 1) <= Len(text) PROVE Reached(text, n, m + (k + 1)) = Fail
    OBVIOUS
  <2>1. /\ m + k \in 0..(Len(text) - 1) /\ m + (k + 1) = (m + k) + 1 /\ m + k <= Len(text)
    BY <1>0
  <2>2. Reached(text, n, m + k) = Fail
    BY <2>1
  <2>3. CleanSegment(Fail, text[(m + k) + 1]) = Fail
    BY DEF CleanSegment
  <2> QED
    BY <2>1, <2>2, <2>3, ReachedNext
<1>3. Nat \subseteq S
  <2> HIDE DEF S
  <2> QED
    BY <1>1, <1>2, Cleaner!SetInduction
<1>4. Len(text) - m \in Nat /\ m + (Len(text) - m) = Len(text)
  BY <1>0
<1>5. m + (Len(text) - m) <= Len(text) => Reached(text, n, m + (Len(text) - m)) = Fail
  BY <1>3, <1>4
<1> QED
  BY <1>0, <1>4, <1>5

LEMMA ReachedIsClean ==
  ASSUME NEW text \in Paths, NEW n
  PROVE  clean_path_into(text, n) =
           IF \/ n = 0
              \/ Absolute(text) /\ n < 2
              \/ Reached(text, n, Len(text)) = Fail
           THEN Fail
           ELSE IF Reached(text, n, Len(text)).out # <<>>
                THEN Reached(text, n, Len(text)).out
                ELSE IF n < 2 THEN Fail ELSE <<".">>
<1>1. text # NULL /\ Part(text, Len(text)) = text
  BY PartFacts, PathTextAssumption
<1> QED
  BY <1>1, CleanIsFold, Zenon DEF clean_path_into, Reached

-----------------------------------------------------------------------------
(***************************************************************************)
(* The invariant that ties the machine to the cleaner of PathText: what    *)
(* the machine holds when the cleaner is at st, and which tokens it has    *)
(* behind it at each pc.                                                   *)
(***************************************************************************)
Stored(st) ==
  /\ Length(st.out) = out
  /\ \A i \in 1..out : dst[i - 1] = Spell(st.out)[i]
Stacked(st) ==
  /\ Len(st.starts) = Len(seg_starts)
  /\ \A k \in 1..Len(seg_starts) :
       /\ st.starts[k] \in 0..Len(st.out)
       /\ seg_starts[k] = Length(Part(st.out, st.starts[k]))
       /\ \A j \in 1..k : st.starts[j] <= st.starts[k]
Holds(st) ==
  /\ st \in Cleanings /\ st.absolute = Absolute(path) /\ st.dst_len = dst_len
  /\ Stored(st) /\ Stacked(st)

\* The machine is at a token, in a name, or at the end.
AtToken ==
  \E m \in 0..Len(path) : at = Length(Part(path, m)) /\ Holds(Reached(path, dst_len, m))
InName(m) ==
  /\ path[m + 1] # "/" /\ start = Length(Part(path, m)) /\ Holds(Reached(path, dst_len, m))
  /\ at <= start + Characters(path[m + 1])
  /\ pc = "segment" => at = start + Characters(path[m + 1])
Follows ==
  /\ pc # "idle" => src = Spell(path)
  /\ pc = "skip" => AtToken
  /\ pc \in {"scan", "segment"} => \E m \in 0..(Len(path) - 1) : InName(m)
  /\ pc = "finish" => Holds(Reached(path, dst_len, Len(path)))
  /\ CleanerAgrees

\* It all holds together with what CleanPathProofs knows of the machine.
FInv == PathOK /\ IInv /\ Follows

LEMMA TextFacts ==
  ASSUME FInv
  PROVE  /\ path \in Paths /\ Tight(path) /\ Len(path) \in Nat
         /\ dst_len \in Nat /\ at \in Nat /\ start \in Nat /\ out \in Nat
         /\ Len(seg_starts) \in Nat /\ seg_starts \in Seq(Nat) /\ Len(src) \in Nat
         /\ dst \in [Memory -> Chars \cup {NUL, Junk}] /\ Memory = 0..Cells /\ Cells \in Nat
         /\ dst_len <= Cells
         /\ pc # "idle" => src = Spell(path)
BY TokensFacts, CleanPathAssumption, PartFacts
   DEF FInv, PathOK, IInv, TypeOK, Memory, InBuffer, Follows

\* A step of the walk changes nothing that the machine holds.
LEMMA StillHolds ==
  ASSUME UNCHANGED <<path, dst_len, dst, seg_starts, out>>, NEW st
  PROVE  Holds(st) => Holds(st)'
BY DEF Holds, Stored, Stacked

\* After a token, or before the first.
LEMMA Arrives ==
  ASSUME path' = path, dst_len' \in Nat, src' = Spell(path), pc' = "skip",
         NEW m \in 0..Len(path), at' = Length(Part(path, m)),
         NEW st, st = Reached(path, dst_len', m), Holds(st)'
  PROVE  Follows'
<1>1. AtToken'
  BY DEF AtToken
<1> QED
  BY <1>1 DEF Follows, CleanerAgrees

-----------------------------------------------------------------------------
(***************************************************************************)
(* Every step of the machine keeps it. The walk along the text first.      *)
(***************************************************************************)
LEMMA SkipSlashFollows == ASSUME FInv, SkipSlash, path' = path PROVE Follows'
<1>1. PICK m \in 0..Len(path) :
        at = Length(Part(path, m)) /\ Holds(Reached(path, dst_len, m))
  BY DEF FInv, Follows, SkipSlash, AtToken
<1>2. path \in Paths /\ src = Spell(path) /\ dst_len \in Nat /\ Len(path) \in Nat
  BY TextFacts DEF SkipSlash
<1>3. m \in 0..(Len(path) - 1) /\ path[m + 1] = "/"
  BY <1>1, <1>2, CharAtPart, CleanPathAssumption DEF SkipSlash
<1>4. /\ m + 1 \in 0..Len(path) /\ Length(Part(path, m + 1)) = at + 1
      /\ Reached(path, dst_len, m + 1) = Reached(path, dst_len, m)
  <2>1. m + 1 \in 0..Len(path)
    BY <1>2, <1>3
  <2>2. Length(Part(path, m + 1)) = at + Characters("/") /\ Characters("/") = 1
    BY <1>1, <1>2, <1>3, CharIs, BytesFacts
  <2>3. Reached(path, dst_len, m + 1) = Reached(path, dst_len, m)
    BY <1>2, <1>3, ReachedNext
  <2> QED
    BY <2>1, <2>2, <2>3
<1>5. UNCHANGED <<path, dst_len, dst, seg_starts, out>> /\ src' = src /\ pc' = "skip"
      /\ at' = at + 1
  BY DEF SkipSlash
<1> DEFINE st == Reached(path, dst_len, m)
<1>6. Holds(st)'
  <2>1. Holds(st)
    BY <1>1
  <2> QED
    BY <1>5, <2>1 DEF Holds, Stored, Stacked
<1> HIDE DEF st
<1> QED
  BY <1>1, <1>2, <1>4, <1>5, <1>6, Arrives DEF st

LEMMA EndOfTextFollows == ASSUME FInv, EndOfText, path' = path PROVE Follows'
<1>1. PICK m \in 0..Len(path) :
        at = Length(Part(path, m)) /\ Holds(Reached(path, dst_len, m))
  BY DEF FInv, Follows, EndOfText, AtToken
<1>2. path \in Paths /\ src = Spell(path)
  BY TextFacts DEF EndOfText
<1>3. m = Len(path)
  BY <1>1, <1>2, CharAtPart DEF EndOfText
<1>4. UNCHANGED <<path, dst_len, dst, seg_starts, out>> /\ src' = src /\ pc' = "finish"
  BY DEF EndOfText
<1>5. Holds(Reached(path, dst_len, Len(path)))'
  <2> DEFINE st == Reached(path, dst_len, Len(path))
  <2>1. Holds(st)
    BY <1>1, <1>3
  <2> QED
    BY <1>4, <2>1 DEF Holds, Stored, Stacked
<1> QED
  BY <1>2, <1>4, <1>5 DEF Follows, CleanerAgrees

\* In a name, with the offsets of the walk as they are after the step.
LEMMA Walks ==
  ASSUME FInv, UNCHANGED <<path, src, dst_len, dst, seg_starts, out>>,
         pc # "idle", pc' \in {"scan", "segment"},
         NEW m \in 0..(Len(path) - 1), path[m + 1] # "/", Holds(Reached(path, dst_len, m)),
         start' = Length(Part(path, m)), at' <= start' + Characters(path[m + 1]),
         pc' = "segment" => at' = start' + Characters(path[m + 1])
  PROVE  Follows'
<1>1. src = Spell(path)
  BY TextFacts
<1>2. Holds(Reached(path, dst_len, m))'
  BY DEF Holds, Stored, Stacked
<1>3. InName(m)'
  BY <1>2 DEF InName
<1> QED
  BY <1>1, <1>3 DEF Follows, CleanerAgrees

LEMMA StartSegmentFollows == ASSUME FInv, StartSegment, path' = path PROVE Follows'
<1>1. PICK m \in 0..Len(path) :
        at = Length(Part(path, m)) /\ Holds(Reached(path, dst_len, m))
  BY DEF FInv, Follows, StartSegment, AtToken
<1>2. path \in Paths /\ src = Spell(path) /\ at \in Nat
  BY TextFacts DEF StartSegment
<1>3. m \in 0..(Len(path) - 1) /\ path[m + 1] # "/"
  BY <1>1, <1>2, CharAtPart DEF StartSegment
<1>4. Characters(path[m + 1]) \in Nat
  BY <1>2, <1>3, CharIs
<1>5. at <= at + Characters(path[m + 1])
  BY <1>2, <1>4
<1> QED
  BY <1>1, <1>3, <1>5, Walks DEF StartSegment

LEMMA ScanNameFollows == ASSUME FInv, ScanName, path' = path PROVE Follows'
<1>1. PICK m \in 0..(Len(path) - 1) : InName(m)
  BY DEF FInv, Follows, ScanName
<1>2. path \in Paths /\ src = Spell(path) /\ Tight(path) /\ at \in Nat /\ start \in Nat
  BY TextFacts DEF ScanName
<1>3. /\ path[m + 1] # "/" /\ start = Length(Part(path, m)) /\ Holds(Reached(path, dst_len, m))
      /\ at <= start + Characters(path[m + 1])
  BY <1>1 DEF InName
<1>4. at # start + Characters(path[m + 1])
  BY <1>2, <1>3, CharAfter DEF ScanName
<1>5. Characters(path[m + 1]) \in Nat
  BY <1>2, <1>3, CharIs
<1>6. at + 1 <= start + Characters(path[m + 1])
  BY <1>2, <1>3, <1>4, <1>5
<1> QED
  BY <1>1, <1>3, <1>6, Walks DEF ScanName

LEMMA EndOfNameFollows == ASSUME FInv, EndOfName, path' = path PROVE Follows'
<1>1. PICK m \in 0..(Len(path) - 1) : InName(m)
  BY DEF FInv, Follows, EndOfName
<1>2. /\ path \in Paths /\ src = Spell(path) /\ at \in Nat /\ start \in Nat /\ start <= at
  BY TextFacts DEF EndOfName, FInv, IInv, AtName
<1>3. /\ path[m + 1] # "/" /\ start = Length(Part(path, m)) /\ Holds(Reached(path, dst_len, m))
      /\ at <= start + Characters(path[m + 1])
  BY <1>1 DEF InName
<1>4. Characters(path[m + 1]) \in Nat
  BY <1>2, <1>3, CharIs
<1>5. at = start + Characters(path[m + 1])
  <2> SUFFICES ASSUME at # start + Characters(path[m + 1]) PROVE FALSE
    OBVIOUS
  <2>1. at - start \in 0..(Characters(path[m + 1]) - 1) /\ start + (at - start) = at
    BY <1>2, <1>3, <1>4
  <2>2. CharAt(at) \in Chars /\ CharAt(at) # "/"
    BY <1>2, <1>3, <2>1, CharIs
  <2> QED
    BY <2>2, CleanPathAssumption DEF EndOfName
<1> QED
  BY <1>1, <1>3, <1>5, Walks DEF EndOfName

-----------------------------------------------------------------------------
(***************************************************************************)
(* The steps that take a segment in.                                       *)
(*                                                                         *)
(* What st and the machine have in common.                                 *)
(***************************************************************************)
LEMMA HoldsFacts ==
  ASSUME FInv, NEW st, Holds(st)
  PROVE  /\ st \in Cleanings /\ st # Fail
         /\ st.out \in Paths /\ st.starts \in Seq(Nat) /\ st.dst_len = dst_len
         /\ st.absolute = Absolute(path)
         /\ Length(st.out) = out /\ Len(st.starts) = Len(seg_starts)
         /\ st.starts = <<>> <=> seg_starts = <<>>
         /\ st.out = <<>> <=> out = 0
         /\ NeedsSlash <=> st.out # <<>> /\ Last(st.out) # "/"
<1>1. st \in Cleanings /\ st # Fail
  BY PathTextAssumption DEF Holds
<1>2. st.out \in Paths /\ st.starts \in Seq(Nat)
  BY <1>1 DEF Cleanings
<1>3. /\ Length(st.out) = out /\ Len(st.starts) = Len(seg_starts) /\ seg_starts \in Seq(Nat)
      /\ out \in Nat /\ st.dst_len = dst_len /\ st.absolute = Absolute(path)
  BY TextFacts DEF Holds, Stored, Stacked
<1>4. st.starts = <<>> <=> seg_starts = <<>>
  BY <1>2, <1>3, EmptySeq
<1>5. st.out = <<>> <=> out = 0
  BY <1>2, <1>3, SpellLast
<1>6. NeedsSlash <=> st.out # <<>> /\ Last(st.out) # "/"
  <2>1. out # 0 => out \in 1..out
    BY <1>3
  <2>2. out # 0 => dst[out - 1] = Spell(st.out)[out]
    BY <2>1 DEF Holds, Stored
  <2> QED
    BY <1>2, <1>3, <1>5, <2>2, SpellLast DEF NeedsSlash
<1> QED
  BY <1>1, <1>2, <1>3, <1>4, <1>5, <1>6

\* The segment that was scanned is the name at this place of the text.
LEMMA SegmentIs ==
  ASSUME FInv, pc = "segment", NEW m \in 0..(Len(path) - 1), InName(m)
  PROVE  /\ path[m + 1] \in Names /\ path[m + 1] \in Tokens
         /\ seg_len = Characters(path[m + 1]) /\ seg_len \in Nat \ {0}
         /\ at = Length(Part(path, m + 1)) /\ m + 1 \in 0..Len(path)
         /\ \A j \in 0..(seg_len - 1) : CharAt(start + j) = Bytes(path[m + 1])[j + 1]
         /\ Dot <=> path[m + 1] = "."
         /\ DotDot <=> path[m + 1] = ".."
         /\ Reached(path, dst_len, m + 1)
              = CleanSegment(Reached(path, dst_len, m), path[m + 1])
         /\ Holds(Reached(path, dst_len, m))
         /\ absolute <=> Absolute(path)
<1> DEFINE name == path[m + 1]
<1>1. /\ path \in Paths /\ src = Spell(path) /\ at \in Nat /\ start \in Nat
      /\ Len(path) \in Nat
  BY TextFacts
<1>2. /\ name # "/" /\ start = Length(Part(path, m)) /\ Holds(Reached(path, dst_len, m))
      /\ at = start + Characters(name)
  BY DEF InName
<1>3. /\ name \in Tokens /\ Characters(name) \in Nat \ {0}
      /\ Length(Part(path, m + 1)) = start + Characters(name)
      /\ \A j \in 0..(Characters(name) - 1) : CharAt(start + j) = Bytes(name)[j + 1]
  BY <1>1, <1>2, CharIs
<1>4. Reached(path, dst_len, m + 1) = CleanSegment(Reached(path, dst_len, m), name)
  BY <1>1, <1>2, ReachedNext
<1>5. absolute <=> Absolute(path)
  BY <1>1, AbsoluteIs
<1>6. m + 1 \in 0..Len(path)
  BY <1>1
<1> HIDE DEF name
<1>7. name \in Names /\ seg_len = Characters(name) /\ seg_len \in Nat \ {0}
  BY <1>1, <1>2, <1>3, TokensFacts DEF seg_len
<1>8. /\ Bytes(name) = Letters[name] /\ Letters[name] \in Seq(Chars \ {"/"})
      /\ Len(Letters[name]) = seg_len
      /\ "." \in Names /\ ".." \in Names
      /\ Letters["."] = <<".">> /\ Letters[".."] = <<".", ".">>
  BY <1>2, <1>7, PathCheckAssumption, PathTextAssumption DEF Bytes, Characters
<1>9. /\ CharAt(start) = Letters[name][1]
      /\ seg_len = 2 => CharAt(start + 1) = Letters[name][2]
  <2>1. 0 \in 0..(Characters(name) - 1) /\ start + 0 = start /\ 0 + 1 = 1
    BY <1>1, <1>3
  <2>2. seg_len = 2 => 1 \in 0..(Characters(name) - 1) /\ 1 + 1 = 2
    BY <1>7
  <2> QED
    BY <1>3, <1>8, <2>1, <2>2
<1>eq. ASSUME NEW s \in Seq(Chars \ {"/"}), NEW t \in Seq(Chars \ {"/"}), Len(s) = Len(t),
             \A i \in 1..Len(s) : s[i] = t[i]
      PROVE  s = t
  BY <1>eq, SeqEqual
<1>10. Dot <=> name = "."
  <2>1. ASSUME Dot PROVE name = "."
    <3>0. /\ Len(Letters[name]) = 1 /\ Letters[name][1] = "."
          /\ Letters["."][1] = "." /\ Len(Letters["."]) = 1
          /\ \A i \in 1..1 : i = 1
      BY <1>8, <1>9, <2>1 DEF Dot
    <3>1. Letters[name] = Letters["."]
      BY <1>8, <1>eq, <3>0, PathCheckAssumption
    <3> QED
      BY <1>7, <1>8, <3>1, LettersDiffer
  <2>2. ASSUME name = "." PROVE Dot
    <3>1. Letters[name] = <<".">>
      BY <1>8, <2>2
    <3>2. Letters[name][1] = "." /\ Len(Letters[name]) = 1
      BY <3>1
    <3> QED
      BY <1>8, <1>9, <3>2 DEF Dot
  <2> QED
    BY <2>1, <2>2
<1>11. DotDot <=> name = ".."
  <2>1. ASSUME DotDot PROVE name = ".."
    <3>0. /\ Len(Letters[name]) = 2 /\ Letters[name][1] = "." /\ Letters[name][2] = "."
          /\ Letters[".."][1] = "." /\ Letters[".."][2] = "." /\ Len(Letters[".."]) = 2
          /\ \A i \in 1..2 : i = 1 \/ i = 2
      BY <1>8, <1>9, <2>1 DEF DotDot
    <3>1. Letters[name] = Letters[".."]
      BY <1>8, <1>eq, <3>0, PathCheckAssumption
    <3> QED
      BY <1>7, <1>8, <3>1, LettersDiffer
  <2>2. ASSUME name = ".." PROVE DotDot
    <3>1. Letters[name] = <<".", ".">>
      BY <1>8, <2>2
    <3>2. Letters[name][1] = "." /\ Letters[name][2] = "." /\ Len(Letters[name]) = 2
      BY <3>1
    <3> QED
      BY <1>8, <1>9, <3>2 DEF DotDot
  <2> QED
    BY <2>1, <2>2
<1> QED
  BY <1>2, <1>3, <1>4, <1>5, <1>6, <1>7, <1>10, <1>11 DEF name

LEMMA SkipSegmentFollows == ASSUME FInv, SkipSegment, path' = path PROVE Follows'
<1>0. pc = "segment"
  BY DEF SkipSegment
<1>1. PICK m \in 0..(Len(path) - 1) : InName(m)
  BY <1>0 DEF FInv, Follows
<1>st. PICK st : st = Reached(path, dst_len, m)
  OBVIOUS
<1>2. /\ at = Length(Part(path, m + 1)) /\ m + 1 \in 0..Len(path)
      /\ Dot <=> path[m + 1] = "."
      /\ DotDot <=> path[m + 1] = ".."
      /\ Reached(path, dst_len, m + 1) = CleanSegment(st, path[m + 1])
      /\ Holds(st)
      /\ absolute <=> Absolute(path)
  BY <1>0, <1>1, <1>st, SegmentIs
<1>3. st # Fail /\ (st.starts = <<>> <=> seg_starts = <<>>) /\ st.absolute = Absolute(path)
  BY <1>2, HoldsFacts
<1>4. CleanSegment(st, path[m + 1]) = st
  BY <1>2, <1>3 DEF CleanSegment, SkipSegment
<1>5. /\ UNCHANGED <<path, src, dst_len, dst, at, seg_starts, out>> /\ pc' = "skip"
      /\ src = Spell(path) /\ dst_len \in Nat
  BY <1>0, TextFacts DEF SkipSegment
<1>6. Holds(st)'
  <2>1. Holds(st)
    BY <1>2
  <2> QED
    BY <1>5, <2>1 DEF Holds, Stored, Stacked
<1> QED
  BY <1>2, <1>4, <1>5, <1>6, Arrives

\* Texts that begin alike have the same parts there.
LEMMA PartsAgree ==
  ASSUME NEW s \in Paths, NEW t \in Paths, NEW i \in Nat, i <= Len(s), i <= Len(t),
         \A j \in 1..i : s[j] = t[j]
  PROVE  Part(s, i) = Part(t, i)
<1>1. s \in Seq(Tokens) /\ t \in Seq(Tokens) /\ Len(s) \in Nat /\ Len(t) \in Nat
  BY TokensFacts
<1>2. \A j \in 1..i : s[j] \in Tokens /\ t[j] \in Tokens
  BY <1>1, ElementOfSeq
<1>3. /\ Part(s, i) \in Seq(Tokens) /\ Len(Part(s, i)) = i
      /\ \A j \in 1..i : Part(s, i)[j] = s[j]
  BY <1>2, SubSeqProperties DEF Part
<1>4. /\ Part(t, i) \in Seq(Tokens) /\ Len(Part(t, i)) = i
      /\ \A j \in 1..i : Part(t, i)[j] = t[j]
  BY <1>2, SubSeqProperties DEF Part
<1> QED
  BY <1>3, <1>4, SeqEqual

LEMMA PartOfPart ==
  ASSUME NEW text \in Paths, NEW c \in 0..Len(text), NEW i \in 0..c
  PROVE  Part(Part(text, c), i) = Part(text, i)
<1>1. text \in Seq(Tokens) /\ Len(text) \in Nat /\ c \in Nat /\ i \in Nat /\ i <= c
      /\ Part(text, c) \in Paths /\ Len(Part(text, c)) = c
  BY TokensFacts, PartFacts
<1>2. \A j \in 1..c : text[j] \in Tokens
  BY <1>1, ElementOfSeq
<1>3. \A j \in 1..c : Part(text, c)[j] = text[j]
  BY <1>1, <1>2, SubSeqProperties DEF Part
<1> QED
  BY <1>1, <1>3, PartsAgree

LEMMA PartOfAppend ==
  ASSUME NEW text \in Paths, NEW token \in Tokens, NEW i \in 0..Len(text)
  PROVE  Part(Append(text, token), i) = Part(text, i)
<1>1. text \in Seq(Tokens) /\ Len(text) \in Nat /\ i \in Nat /\ i <= Len(text)
  BY TokensFacts
<1>2. /\ Append(text, token) \in Paths /\ Len(Append(text, token)) = Len(text) + 1
      /\ \A j \in 1..Len(text) : Append(text, token)[j] = text[j]
  BY <1>1, AppendProperties, TokensFacts
<1>3. i <= Len(Append(text, token)) /\ \A j \in 1..i : Append(text, token)[j] = text[j]
  BY <1>1, <1>2
<1> QED
  BY <1>1, <1>2, <1>3, PartsAgree

\* ".." cuts the bytes where it cuts the tokens.
LEMMA PopHolds ==
  ASSUME FInv, NEW st, Holds(st), seg_starts # <<>>, PopSegment, path' = path
  PROVE  Holds(Pop(st))'
<1>1. /\ st \in Cleanings /\ st.out \in Paths /\ st.starts \in Seq(Nat)
      /\ st.dst_len = dst_len /\ st.absolute = Absolute(path)
      /\ Length(st.out) = out /\ Len(st.starts) = Len(seg_starts) /\ st.starts # <<>>
  BY HoldsFacts
<1>2. /\ out \in Nat /\ seg_starts \in Seq(Nat) /\ Len(seg_starts) \in Nat \ {0}
      /\ dst_len \in Nat
  BY TextFacts, EmptySeq
<1>3. PICK K \in Nat \ {0} : K = Len(seg_starts)
  BY <1>2
<1>4. PICK cut : cut = st.starts[K]
  OBVIOUS
<1>5. Last(st.starts) = cut /\ K \in 1..Len(seg_starts)
  BY <1>1, <1>3, <1>4 DEF Last
<1>6. /\ cut \in 0..Len(st.out) /\ seg_starts[K] = Length(Part(st.out, cut))
      /\ \A j \in 1..K : st.starts[j] <= cut
  BY <1>4, <1>5 DEF Holds, Stacked
<1>7. Len(st.out) \in Nat /\ Part(st.out, cut) \in Paths /\ Len(Part(st.out, cut)) = cut
  BY <1>1, <1>6, PartFacts
<1>8. PICK short : short = Front(st.starts)
  OBVIOUS
<1>9. /\ short \in Seq(Nat) /\ Len(short) = K - 1
      /\ \A k \in 1..(K - 1) : short[k] = st.starts[k]
  BY <1>1, <1>3, <1>8, FrontFacts
<1>10. PICK popped : popped = Pop(st)
  OBVIOUS
<1>11. /\ popped \in Cleanings /\ popped.out = Part(st.out, cut) /\ popped.starts = short
       /\ popped.absolute = Absolute(path) /\ popped.dst_len = dst_len
  <2>1. popped = [st EXCEPT !.out = Part(st.out, cut), !.starts = short]
    BY <1>1, <1>5, <1>8, <1>10 DEF Pop, Part, Cleanings
  <2>2. PICK q \in Paths : q = Part(st.out, cut)
    BY <1>7
  <2>3. popped = [st EXCEPT !.out = q, !.starts = short]
    BY <2>1, <2>2
  <2>4. /\ popped \in Cleanings /\ popped.out = q /\ popped.starts = short
        /\ popped.absolute = st.absolute /\ popped.dst_len = st.dst_len
    BY <1>1, <1>9, <2>3 DEF Cleanings
  <2> QED
    BY <1>1, <2>2, <2>4
<1>12. /\ dst' = dst /\ out' = Length(Part(st.out, cut))
       /\ seg_starts' = SubSeq(seg_starts, 1, K - 1) /\ dst_len' = dst_len
  <2>1. absolute => seg_starts[K] # 0
    <3>1. absolute => 1 <= seg_starts[K]
      BY <1>5 DEF FInv, IInv, Stack, Busy, PopSegment
    <3> QED
      BY <3>1
  <2> QED
    BY <1>3, <1>6, <2>1 DEF PopSegment
<1>13. /\ Len(seg_starts') = K - 1
       /\ \A k \in 1..(K - 1) : seg_starts'[k] = seg_starts[k]
  BY <1>2, <1>3, <1>12, ShorterStack
<1>14. Stored(popped)'
  <2>1. /\ Length(Part(st.out, cut)) \in Nat /\ Length(Part(st.out, cut)) <= out
        /\ \A i \in 1..Length(Part(st.out, cut)) :
             Spell(Part(st.out, cut))[i] = Spell(st.out)[i]
    BY <1>1, <1>6, SpellPart
  <2>2. \A i \in 1..out : dst[i - 1] = Spell(st.out)[i]
    BY DEF Holds, Stored
  <2>3. \A i \in 1..out' : dst'[i - 1] = Spell(popped.out)[i]
    BY <1>2, <1>11, <1>12, <2>1, <2>2
  <2> QED
    BY <1>11, <1>12, <2>3 DEF Stored
<1>15. Stacked(popped)'
  <2>1. ASSUME NEW k \in 1..(K - 1)
        PROVE  /\ popped.starts[k] \in 0..Len(popped.out)
               /\ seg_starts'[k] = Length(Part(popped.out, popped.starts[k]))
               /\ \A j \in 1..k : popped.starts[j] <= popped.starts[k]
    <3>1. k \in 1..Len(seg_starts) /\ k \in 1..K /\ \A j \in 1..k : j \in 1..(K - 1)
      BY <1>3
    <3>2. /\ st.starts[k] \in 0..Len(st.out)
          /\ seg_starts[k] = Length(Part(st.out, st.starts[k]))
          /\ \A j \in 1..k : st.starts[j] <= st.starts[k]
      BY <3>1 DEF Holds, Stacked
    <3>3. st.starts[k] \in 0..cut
      BY <1>6, <1>7, <3>1, <3>2
    <3>4. Part(Part(st.out, cut), st.starts[k]) = Part(st.out, st.starts[k])
      BY <1>1, <1>6, <3>3, PartOfPart
    <3> QED
      BY <1>7, <1>9, <1>11, <1>13, <3>1, <3>2, <3>3, <3>4
  <2> QED
    BY <1>9, <1>11, <1>13, <2>1 DEF Stacked
<1> QED
  BY <1>10, <1>11, <1>12, <1>14, <1>15 DEF Holds

LEMMA PopSegmentFollows == ASSUME FInv, PopSegment, path' = path PROVE Follows'
<1>0. pc = "segment" /\ seg_starts # <<>> /\ DotDot
  BY DEF PopSegment
<1>1. PICK m \in 0..(Len(path) - 1) : InName(m)
  BY <1>0 DEF FInv, Follows
<1>st. PICK st : st = Reached(path, dst_len, m)
  OBVIOUS
<1>2. /\ at = Length(Part(path, m + 1)) /\ m + 1 \in 0..Len(path)
      /\ DotDot <=> path[m + 1] = ".."
      /\ Reached(path, dst_len, m + 1) = CleanSegment(st, path[m + 1])
      /\ Holds(st)
  BY <1>0, <1>1, <1>st, SegmentIs
<1>3. st # Fail /\ st.starts # <<>>
  BY <1>0, <1>2, HoldsFacts
<1>4. CleanSegment(st, path[m + 1]) = Pop(st)
  BY <1>0, <1>2, <1>3 DEF CleanSegment
<1>5. /\ UNCHANGED <<src, dst_len, at>> /\ pc' = "skip"
      /\ src = Spell(path) /\ dst_len \in Nat
  BY <1>0, TextFacts DEF PopSegment
<1>6. Holds(Pop(st))'
  BY <1>0, <1>2, PopHolds
<1>7. PICK popped : popped = Pop(st)
  OBVIOUS
<1>8. Holds(popped)'
  BY <1>6, <1>7
<1> QED
  BY <1>2, <1>4, <1>5, <1>7, <1>8, Arrives

\* What is in front of the name that is pushed.
Base(st) == IF st.out # <<>> /\ Last(st.out) # "/" THEN Append(st.out, "/") ELSE st.out

LEMMA BaseFacts ==
  ASSUME FInv, NEW st, Holds(st)
  PROVE  /\ Base(st) \in Paths /\ Len(Base(st)) \in Nat /\ Len(st.out) \in Nat
         /\ Length(Base(st)) = name_at /\ Len(st.out) <= Len(Base(st))
         /\ \A i \in 1..out : Spell(Base(st))[i] = Spell(st.out)[i]
         /\ NeedsSlash => Spell(Base(st))[out + 1] = "/"
         /\ \A i \in 0..Len(st.out) : Part(Base(st), i) = Part(st.out, i)
<1>1. /\ st.out \in Paths /\ Length(st.out) = out /\ out \in Nat /\ Len(st.out) \in Nat
      /\ NeedsSlash <=> st.out # <<>> /\ Last(st.out) # "/"
  BY HoldsFacts, TextFacts, PartFacts
<1>2. CASE NeedsSlash
  <2>1. "/" \in Tokens /\ Characters("/") = 1 /\ Bytes("/")[1] = "/" /\ 1 \in 1..1
    BY TokensFacts, BytesFacts
  <2>2. Base(st) = Append(st.out, "/")
    BY <1>1, <1>2 DEF Base
  <2>3. /\ Base(st) \in Paths /\ Len(Base(st)) = Len(st.out) + 1
    BY <1>1, <2>1, <2>2, TokensFacts, AppendProperties
  <2>4. /\ Length(Base(st)) = out + 1
        /\ \A i \in 1..out : Spell(Base(st))[i] = Spell(st.out)[i]
        /\ Spell(Base(st))[out + 1] = Bytes("/")[1]
    BY <1>1, <2>1, <2>2, SpellNext
  <2>5. \A i \in 0..Len(st.out) : Part(Base(st), i) = Part(st.out, i)
    BY <1>1, <2>1, <2>2, PartOfAppend
  <2> QED
    BY <1>1, <1>2, <2>1, <2>3, <2>4, <2>5 DEF name_at
<1>3. CASE ~ NeedsSlash
  <2>1. Base(st) = st.out
    BY <1>1, <1>3 DEF Base
  <2> QED
    BY <1>1, <1>3, <2>1 DEF name_at
<1> QED
  BY <1>2, <1>3

\* The cleaner of PathText refuses a name when the bytes do.
LEMMA PushIs ==
  ASSUME FInv, NEW st, Holds(st), NEW name \in Names, Characters(name) = seg_len
  PROVE  /\ Push(st, name) = Fail <=> NoRoom
         /\ ~ NoRoom =>
              Push(st, name) = [st EXCEPT !.out = Append(Base(st), name),
                                          !.starts = Append(@, Len(Base(st)))]
<1>1. /\ st \in Cleanings /\ st.out \in Paths /\ st.starts \in Seq(Nat) /\ st.dst_len = dst_len
      /\ Length(st.out) = out /\ Len(st.starts) = Len(seg_starts)
      /\ NeedsSlash <=> st.out # <<>> /\ Last(st.out) # "/"
  BY HoldsFacts
<1>2. /\ Base(st) \in Paths /\ Len(Base(st)) \in Nat /\ Length(Base(st)) = name_at
      /\ name \in Tokens
  BY BaseFacts, TokensFacts
<1>3. Push(st, name) =
        IF NoRoom THEN Fail
        ELSE [st EXCEPT !.out = Append(Base(st), name), !.starts = Append(@, Len(Base(st)))]
  BY <1>1, <1>2 DEF Push, Base, NoRoom
<1>4. [st EXCEPT !.out = Append(Base(st), name), !.starts = Append(@, Len(Base(st)))] # Fail
  <2>1. Append(Base(st), name) \in Paths /\ Append(st.starts, Len(Base(st))) \in Seq(Nat)
    BY <1>1, <1>2, TokensFacts, AppendProperties
  <2>2. [st EXCEPT !.out = Append(Base(st), name), !.starts = Append(@, Len(Base(st)))]
          \in Cleanings
    BY <1>1, <2>1 DEF Cleanings
  <2> QED
    BY <2>2, PathTextAssumption
<1> QED
  BY <1>3, <1>4

\* A name that fits goes where PathText puts it.
LEMMA PushHolds ==
  ASSUME FInv, NEW st, Holds(st), NEW name \in Names, Characters(name) = seg_len,
         \A j \in 0..(seg_len - 1) : CharAt(start + j) = Bytes(name)[j + 1],
         PushSegment, path' = path
  PROVE  Holds(Push(st, name))'
<1>1. /\ st \in Cleanings /\ st.out \in Paths /\ st.starts \in Seq(Nat) /\ st.dst_len = dst_len
      /\ st.absolute = Absolute(path) /\ Length(st.out) = out
      /\ Len(st.starts) = Len(seg_starts)
  BY HoldsFacts
<1>2. /\ Base(st) \in Paths /\ Len(Base(st)) \in Nat /\ Length(Base(st)) = name_at
      /\ Len(st.out) \in Nat /\ Len(st.out) <= Len(Base(st)) /\ name \in Tokens
      /\ \A i \in 1..out : Spell(Base(st))[i] = Spell(st.out)[i]
      /\ NeedsSlash => Spell(Base(st))[out + 1] = "/"
      /\ \A i \in 0..Len(st.out) : Part(Base(st), i) = Part(st.out, i)
  BY BaseFacts, TokensFacts
<1>3. ~ NoRoom /\ pc = "segment"
  BY DEF PushSegment
<1>4. /\ start \in Nat /\ out \in Nat /\ dst_len \in Nat /\ Cells \in Nat /\ Memory = 0..Cells
      /\ seg_len \in Nat \ {0} /\ name_at \in Nat /\ out <= name_at /\ dst_len <= Cells
      /\ seg_starts \in Seq(Nat) /\ Len(seg_starts) \in Nat
  BY <1>3, SegmentFacts, TextFacts DEF FInv
<1>5. name_at + seg_len < dst_len /\ name_at = IF NeedsSlash THEN out + 1 ELSE out
  BY <1>3, <1>4 DEF NoRoom, name_at
<1>6. PICK text \in Paths : text = Append(Base(st), name)
  BY <1>2, TokensFacts, AppendProperties
<1>7. PICK stack \in Seq(Nat) : stack = Append(st.starts, Len(Base(st)))
  BY <1>1, <1>2, AppendProperties
<1>8. PICK pushed : pushed = Push(st, name)
  OBVIOUS
<1>9. pushed = [st EXCEPT !.out = text, !.starts = stack]
  BY <1>3, <1>6, <1>7, <1>8, PushIs
<1>10. /\ pushed \in Cleanings /\ pushed.out = text /\ pushed.starts = stack
       /\ pushed.absolute = Absolute(path) /\ pushed.dst_len = dst_len
  BY <1>1, <1>9 DEF Cleanings
<1>11. /\ seg_starts' = Append(seg_starts, name_at) /\ out' = name_at + seg_len
       /\ dst_len' = dst_len
       /\ \A i \in Memory :
            dst'[i] = IF NeedsSlash /\ i = out THEN "/"
                      ELSE IF i >= name_at /\ i < name_at + seg_len
                      THEN CharAt(start + (i - name_at)) ELSE dst[i]
  BY <1>4 DEF PushSegment
<1>12. Stored(pushed)'
  <2>1. /\ Length(text) = name_at + seg_len
        /\ \A i \in 1..name_at : Spell(text)[i] = Spell(Base(st))[i]
        /\ \A i \in 1..seg_len : Spell(text)[name_at + i] = Bytes(name)[i]
    BY <1>2, <1>6, SpellNext
  <2>2. ASSUME NEW i \in 1..(name_at + seg_len)
        PROVE  dst'[i - 1] = Spell(text)[i]
    <3>1. /\ i - 1 \in Memory /\ i \in Nat
          /\ dst'[i - 1] = IF NeedsSlash /\ i - 1 = out THEN "/"
                           ELSE IF i - 1 >= name_at /\ i - 1 < name_at + seg_len
                           THEN CharAt(start + ((i - 1) - name_at)) ELSE dst[i - 1]
      BY <1>4, <1>5, <1>11
    <3>2. CASE i <= out
      <4>1. i \in 1..out /\ i \in 1..name_at
        BY <1>4, <3>1, <3>2
      <4>2. dst[i - 1] = Spell(st.out)[i]
        BY <4>1 DEF Holds, Stored
      <4>3. dst'[i - 1] = dst[i - 1]
        BY <1>4, <3>1, <3>2
      <4> QED
        BY <1>2, <2>1, <4>1, <4>2, <4>3
    <3>3. CASE i > out /\ i <= name_at
      <4>1. NeedsSlash /\ i = out + 1 /\ i \in 1..name_at
        BY <1>4, <1>5, <3>1, <3>3
      <4>2. dst'[i - 1] = "/"
        BY <1>4, <3>1, <4>1
      <4> QED
        BY <1>2, <2>1, <4>1, <4>2
    <3>4. CASE i > name_at
      <4>1. /\ i - name_at \in 1..seg_len /\ (i - 1) - name_at \in 0..(seg_len - 1)
            /\ ((i - 1) - name_at) + 1 = i - name_at /\ name_at + (i - name_at) = i
        BY <1>4, <3>1, <3>4
      <4>2. dst'[i - 1] = CharAt(start + ((i - 1) - name_at))
        BY <1>4, <1>5, <3>1, <3>4
      <4>3. CharAt(start + ((i - 1) - name_at)) = Bytes(name)[i - name_at]
        BY <4>1
      <4> QED
        BY <2>1, <4>1, <4>2, <4>3
    <3> QED
      BY <1>4, <3>1, <3>2, <3>3, <3>4
  <2> QED
    BY <1>10, <1>11, <2>1, <2>2 DEF Stored
<1>13. Stacked(pushed)'
  <2> DEFINE K == Len(seg_starts)
  <2>1. /\ Len(stack) = K + 1 /\ stack[K + 1] = Len(Base(st))
        /\ \A k \in 1..K : stack[k] = st.starts[k]
    BY <1>1, <1>2, <1>7, AppendProperties
  <2>2. /\ Len(seg_starts') = K + 1 /\ seg_starts'[K + 1] = name_at
        /\ \A k \in 1..K : seg_starts'[k] = seg_starts[k]
    BY <1>4, <1>11, AppendProperties
  <2>3. \A i \in 0..Len(Base(st)) : Part(text, i) = Part(Base(st), i)
    BY <1>2, <1>6, PartOfAppend
  <2>4. Len(text) = Len(Base(st)) + 1
    BY <1>2, <1>6, TokensFacts, AppendProperties
  <2>5. ASSUME NEW k \in 1..K
        PROVE  /\ stack[k] \in 0..Len(st.out)
               /\ seg_starts'[k] = Length(Part(text, stack[k]))
               /\ \A j \in 1..k : stack[j] <= stack[k]
    <3>1. /\ st.starts[k] \in 0..Len(st.out)
          /\ seg_starts[k] = Length(Part(st.out, st.starts[k]))
          /\ \A j \in 1..k : st.starts[j] <= st.starts[k]
      BY DEF Holds, Stacked
    <3>2. st.starts[k] \in 0..Len(Base(st)) /\ \A j \in 1..k : j \in 1..K
      <4>1. st.starts[k] \in 0..Len(Base(st))
        BY <1>2, <3>1
      <4>2. K \in Nat
        BY <1>4
      <4> HIDE DEF K
      <4> QED
        BY <4>1, <4>2
    <3>3. Part(text, st.starts[k]) = Part(st.out, st.starts[k])
      BY <1>2, <2>3, <3>1, <3>2
    <3> QED
      BY <2>1, <2>2, <3>1, <3>2, <3>3
  <2>6. /\ stack[K + 1] \in 0..Len(text)
        /\ seg_starts'[K + 1] = Length(Part(text, stack[K + 1]))
    <3>1. Len(Base(st)) \in 0..Len(Base(st)) /\ Part(Base(st), Len(Base(st))) = Base(st)
      BY <1>2, PartFacts
    <3>2. Part(text, Len(Base(st))) = Base(st)
      BY <2>3, <3>1
    <3> QED
      BY <1>2, <2>1, <2>2, <2>4, <3>2
  <2> HIDE DEF K
  <2>7. K \in Nat
    BY <1>4 DEF K
  <2>8. ASSUME NEW k \in 1..(K + 1)
        PROVE  /\ stack[k] \in 0..Len(text)
               /\ seg_starts'[k] = Length(Part(text, stack[k]))
               /\ \A j \in 1..k : stack[j] <= stack[k]
    <3>1. CASE k \in 1..K
      BY <1>2, <2>4, <2>5, <3>1
    <3>2. CASE k = K + 1
      <4>1. \A j \in 1..K : stack[j] \in 0..Len(st.out)
        BY <2>5
      <4>2. \A j \in 1..(K + 1) : stack[j] <= stack[K + 1]
        BY <1>2, <2>1, <2>7, <4>1
      <4> QED
        BY <2>6, <3>2, <4>2
    <3> QED
      BY <2>7, <3>1, <3>2
  <2> QED
    BY <1>10, <2>1, <2>2, <2>8 DEF Stacked
<1> QED
  BY <1>8, <1>10, <1>11, <1>12, <1>13 DEF Holds

\* What the cleaner does with a name, in both modules.
LEMMA NameIsPushed ==
  ASSUME FInv, pc = "segment", IsName, NEW m \in 0..(Len(path) - 1), InName(m)
  PROVE  /\ Reached(path, dst_len, m + 1) = Push(Reached(path, dst_len, m), path[m + 1])
         /\ Characters(path[m + 1]) = seg_len
<1>st. PICK st : st = Reached(path, dst_len, m)
  OBVIOUS
<1>1. /\ Dot <=> path[m + 1] = "."
      /\ DotDot <=> path[m + 1] = ".."
      /\ Reached(path, dst_len, m + 1) = CleanSegment(st, path[m + 1])
      /\ Holds(st) /\ seg_len = Characters(path[m + 1])
      /\ absolute <=> Absolute(path)
  BY <1>st, SegmentIs
<1>2. st # Fail /\ (st.starts = <<>> <=> seg_starts = <<>>) /\ st.absolute = Absolute(path)
  BY <1>1, HoldsFacts
<1>3. CleanSegment(st, path[m + 1]) = Push(st, path[m + 1])
  BY <1>1, <1>2 DEF CleanSegment, IsName
<1> QED
  BY <1>st, <1>1, <1>3

LEMMA PushSegmentFollows == ASSUME FInv, PushSegment, path' = path PROVE Follows'
<1>0. pc = "segment" /\ IsName
  BY DEF PushSegment
<1>1. PICK m \in 0..(Len(path) - 1) : InName(m)
  BY <1>0 DEF FInv, Follows
<1>st. PICK st : st = Reached(path, dst_len, m)
  OBVIOUS
<1>2. /\ at = Length(Part(path, m + 1)) /\ m + 1 \in 0..Len(path) /\ Holds(st)
      /\ path[m + 1] \in Names
      /\ \A j \in 0..(seg_len - 1) : CharAt(start + j) = Bytes(path[m + 1])[j + 1]
  BY <1>0, <1>1, <1>st, SegmentIs
<1>3. Reached(path, dst_len, m + 1) = Push(st, path[m + 1]) /\ Characters(path[m + 1]) = seg_len
  BY <1>0, <1>1, <1>st, NameIsPushed
<1>4. PICK name \in Names : name = path[m + 1]
  BY <1>2
<1>5. /\ Characters(name) = seg_len
      /\ \A j \in 0..(seg_len - 1) : CharAt(start + j) = Bytes(name)[j + 1]
  BY <1>2, <1>3, <1>4
<1>6. Holds(Push(st, name))'
  BY <1>2, <1>5, PushHolds
<1>7. PICK pushed : pushed = Push(st, name)
  OBVIOUS
<1>8. Holds(pushed)'
  BY <1>6, <1>7
<1>9. /\ UNCHANGED <<src, dst_len, at>> /\ pc' = "skip"
      /\ src = Spell(path) /\ dst_len \in Nat
  BY <1>0, TextFacts DEF PushSegment
<1> QED
  BY <1>2, <1>3, <1>4, <1>7, <1>8, <1>9, Arrives

LEMMA RefuseSegmentFollows == ASSUME FInv, RefuseSegment, path' = path PROVE Follows'
<1>0. pc = "segment" /\ IsName /\ NoRoom
  BY DEF RefuseSegment
<1>1. PICK m \in 0..(Len(path) - 1) : InName(m)
  BY <1>0 DEF FInv, Follows
<1>st. PICK st : st = Reached(path, dst_len, m)
  OBVIOUS
<1>2. m + 1 \in 0..Len(path) /\ Holds(st) /\ path[m + 1] \in Names
  BY <1>0, <1>1, <1>st, SegmentIs
<1>3. Reached(path, dst_len, m + 1) = Push(st, path[m + 1]) /\ Characters(path[m + 1]) = seg_len
  BY <1>0, <1>1, <1>st, NameIsPushed
<1>4. Reached(path, dst_len, m + 1) = Fail
  BY <1>0, <1>2, <1>3, PushIs
<1>5. path \in Paths /\ src = Spell(path)
  BY <1>0, TextFacts
<1>6. clean_path_into(path, dst_len) = Fail
  BY <1>2, <1>4, <1>5, ReachedFails, ReachedIsClean
<1>7. UNCHANGED <<path, src, dst_len>> /\ pc' = "failed"
  BY DEF RefuseSegment
<1> QED
  BY <1>5, <1>6, <1>7 DEF Follows, CleanerAgrees

-----------------------------------------------------------------------------
(***************************************************************************)
(* The end of a call, and its beginning.                                   *)
(***************************************************************************)
LEMMA FromZero ==
  ASSUME NEW text \in Seq(Chars), NEW memory, NEW n \in Nat, Len(text) = n,
         \A i \in 1..n : memory[i - 1] = text[i]
  PROVE  text = [i \in 1..n |-> memory[i - 1]]
OBVIOUS

LEMMA SpellOne ==
  ASSUME NEW token \in Tokens
  PROVE  /\ <<token>> \in Paths /\ Spell(<<token>>) = Bytes(token)
         /\ Length(<<token>>) = Characters(token) /\ Len(<<token>>) = 1
<1>1. <<>> \in Paths /\ <<token>> = Append(<<>>, token) /\ Bytes(token) \in Seq(Chars)
      /\ Characters(token) \in Nat
  BY TokensFacts, EmptySeq, BytesFacts
<1>2. Spell(<<token>>) = <<>> \o Bytes(token)
  BY <1>1, SpellAppend, SpellEmpty
<1>3. Length(<<token>>) = 0 + Characters(token)
  BY <1>1, LengthAppend, LengthEmpty
<1>4. <<token>> \in Seq(Tokens) /\ Len(<<token>>) = 1
  OBVIOUS
<1> QED
  BY <1>1, <1>2, <1>3, <1>4, ConcatEmptySeq, TokensFacts

LEMMA FinishFollows == ASSUME FInv, Finish, path' = path PROVE Follows'
<1>st. PICK st : st = Reached(path, dst_len, Len(path))
  OBVIOUS
<1>1. Holds(st)
  BY <1>st DEF FInv, Follows, Finish
<1>2. /\ path \in Paths /\ src = Spell(path) /\ dst_len \in Nat /\ out \in Nat
      /\ dst \in [Memory -> Chars \cup {NUL, Junk}] /\ Memory = 0..Cells /\ Cells \in Nat
      /\ dst_len <= Cells
  BY TextFacts DEF Finish
<1>3. out < dst_len /\ (absolute => out >= 1)
  BY DEF FInv, IInv, InBuffer, Busy, Finish
<1>4. absolute <=> Absolute(path)
  BY <1>2, AbsoluteIs
<1>5. /\ st # Fail /\ st.out \in Paths /\ Length(st.out) = out
      /\ st.out = <<>> <=> out = 0
      /\ \A i \in 1..out : dst[i - 1] = Spell(st.out)[i]
  BY <1>1, HoldsFacts DEF Holds, Stored
<1>6. clean_path_into(path, dst_len) =
        IF st.out # <<>> THEN st.out ELSE IF dst_len < 2 THEN Fail ELSE <<".">>
  <2>1. dst_len # 0 /\ ~ (Absolute(path) /\ dst_len < 2)
    BY <1>2, <1>3, <1>4
  <2> QED
    BY <1>st, <1>2, <1>5, <2>1, ReachedIsClean
<1>7. UNCHANGED <<path, src, dst_len>> /\ pc' \in {"done", "failed"}
  BY DEF Finish
<1>8. CASE out # 0
  <2>1. pc' = "done" /\ out' = out /\ \A i \in 1..out : dst'[i - 1] = dst[i - 1]
    <3>1. pc' = "done" /\ out' = out /\ dst' = [dst EXCEPT ![out] = NUL]
      BY <1>8 DEF Finish, Put
    <3>2. \A i \in 1..out : i - 1 \in Memory /\ i - 1 # out
      BY <1>2, <1>3
    <3> QED
      BY <1>2, <3>1, <3>2
  <2>2. st.out # Fail /\ clean_path_into(path, dst_len) = st.out
    BY <1>5, <1>6, <1>8, PathTextAssumption
  <2>3. Spell(st.out) \in Seq(Chars) /\ Len(Spell(st.out)) = out
    BY <1>5, SpellType, SpellLength
  <2>4. \A i \in 1..out : dst'[i - 1] = Spell(st.out)[i]
    BY <1>5, <2>1
  <2>5. Spell(st.out) = [i \in 1..out |-> dst'[i - 1]]
    BY <1>2, <2>3, <2>4, FromZero
  <2> QED
    BY <1>2, <1>7, <2>1, <2>2, <2>5 DEF Follows, CleanerAgrees
<1>9. CASE out = 0 /\ dst_len < 2
  <2>1. pc' = "failed"
    BY <1>9 DEF Finish
  <2> QED
    BY <1>2, <1>5, <1>6, <1>7, <1>9, <2>1 DEF Follows, CleanerAgrees
<1>10. CASE out = 0 /\ ~ dst_len < 2
  <2>1. ~ absolute
    BY <1>2, <1>3, <1>10
  <2>2. pc' = "done" /\ out' = 1 /\ dst' = Put(Put(dst, 0, "."), 1, NUL)
    BY <1>10, <2>1 DEF Finish
  <2>3. dst'[0] = "."
    BY <1>2, <1>10, <2>2 DEF Put
  <2>4. /\ "." \in Tokens /\ "." \in Names /\ Bytes(".") = <<".">> /\ Characters(".") = 1
    <3>1. "." \in Names /\ "." # "/"
      BY PathTextAssumption
    <3>2. Bytes(".") = <<".">> /\ "." \in Tokens
      BY <3>1, PathCheckAssumption, TokensFacts DEF Bytes
    <3>3. Len(Bytes(".")) = 1
      BY <3>2
    <3> QED
      BY <3>1, <3>2, <3>3, BytesFacts
  <2>5. <<".">> \in Paths /\ Spell(<<".">>) = <<".">>
    BY <2>4, SpellOne
  <2>6. clean_path_into(path, dst_len) = <<".">> /\ <<".">> # Fail
    BY <1>5, <1>6, <1>10, <2>5, PathTextAssumption
  <2>7. Spell(<<".">>) = [i \in 1..1 |-> dst'[i - 1]]
    <3>1. <<".">> \in Seq(Chars) /\ Len(<<".">>) = 1 /\ <<".">>[1] = "."
      BY CleanPathAssumption
    <3>2. \A i \in 1..1 : dst'[i - 1] = <<".">>[i]
      BY <2>3, <3>1
    <3> QED
      BY <2>5, <3>1, <3>2, FromZero
  <2> QED
    BY <1>2, <1>7, <2>2, <2>6, <2>7 DEF Follows, CleanerAgrees
<1> QED
  BY <1>8, <1>9, <1>10

LEMMA RootedIs ==
  ASSUME NEW text \in Paths
  PROVE  Absolute(text) <=> Spell(text) # <<>> /\ Spell(text)[1] = "/"
<1>1. Len(text) \in Nat /\ Part(text, 0) = <<>> /\ text # NULL /\ Spell(<<>>) = <<>>
  BY PartFacts, PathTextAssumption, SpellEmpty
<1>2. Length(Part(text, 0)) = 0
  BY <1>1, LengthEmpty
<1>3. CASE text = <<>>
  BY <1>1, <1>3 DEF Absolute
<1>4. CASE text # <<>>
  <2>1. 0 \in 0..(Len(text) - 1) /\ 0 + 1 = 1
    BY <1>1, <1>4, TokensFacts, EmptySeq
  <2>2. text[1] \in Tokens
    BY <2>1, PartFacts
  <2>3. /\ \A i \in 1..Characters(text[1]) : Spell(text)[0 + i] = Bytes(text[1])[i]
        /\ 0 + Characters(text[1]) <= Length(text)
    BY <1>2, <2>1, SpellAt
  <2>4. Characters(text[1]) \in Nat \ {0} /\ (Bytes(text[1])[1] = "/" <=> text[1] = "/")
    <3>1. text[1] = "/" => Bytes(text[1])[1] = "/"
      BY BytesFacts
    <3>2. Characters(text[1]) \in Nat \ {0} /\ 1 \in 1..Characters(text[1])
      BY <2>2, BytesFacts
    <3> QED
      BY <2>2, <3>1, <3>2, BytesFacts
  <2>5. Spell(text)[1] = Bytes(text[1])[1]
    BY <2>3, <2>4
  <2>6. Spell(text) # <<>>
    <3>1. Len(Spell(text)) = Length(text) /\ Length(text) \in Nat /\ Length(text) # 0
      BY <2>3, <2>4, SpellLength, LengthType
    <3> QED
      BY <3>1
  <2> QED
    BY <1>1, <1>4, <2>4, <2>5, <2>6 DEF Absolute
<1> QED
  BY <1>3, <1>4

\* The cleaner starts with the root, or with nothing.
LEMMA StartFacts ==
  ASSUME NEW n \in Nat, NEW rooted \in BOOLEAN
  PROVE  /\ CleanStart(rooted, n) \in Cleanings /\ CleanStart(rooted, n).starts = <<>>
         /\ CleanStart(rooted, n).absolute = rooted /\ CleanStart(rooted, n).dst_len = n
         /\ CleanStart(rooted, n).out = IF rooted THEN <<"/">> ELSE <<>>
<1>1. <<"/">> \in Paths /\ <<>> \in Paths /\ <<>> \in Seq(Nat)
  BY TokensFacts, EmptySeq
<1> QED
  BY <1>1 DEF CleanStart, Cleanings

LEMMA CleanFollows == ASSUME FInv, Clean PROVE Follows'
<1>1. PICK n \in Sizes : Call(Spell(path), n)
  BY DEF Clean
<1>2. /\ path' = path /\ path \in Paths /\ n \in Nat /\ n <= Cells /\ Cells \in Nat
      /\ dst \in [Memory -> Chars \cup {NUL, Junk}] /\ Memory = 0..Cells
  BY TextFacts, PathCheckAssumption DEF Clean
<1>3. /\ pc = "idle" /\ src' = Spell(path) /\ dst_len' = n /\ at' = at
      /\ seg_starts' = seg_starts
  BY <1>1 DEF Call
<1>4. at = 0 /\ seg_starts = <<>>
  BY <1>3 DEF FInv, IInv, Fresh
<1>5. PICK rooted \in BOOLEAN : rooted = Absolute(path)
  BY DEF Absolute
<1>6. rooted <=> Spell(path) # <<>> /\ Spell(path)[1] = "/"
  BY <1>2, <1>5, RootedIs
<1> DEFINE fits == n # 0 /\ (rooted => n >= 2)
<1>7. /\ pc' = IF fits THEN "skip" ELSE "failed"
      /\ dst' = IF fits /\ rooted THEN [dst EXCEPT ![0] = "/"] ELSE dst
      /\ out' = IF fits /\ rooted THEN 1 ELSE 0
  BY <1>1, <1>6 DEF Call, Put
<1>8. CASE fits
  <2>st. PICK st : st = CleanStart(rooted, n)
    OBVIOUS
  <2>1. /\ st \in Cleanings /\ st.starts = <<>> /\ st.absolute = rooted /\ st.dst_len = n
        /\ st.out = IF rooted THEN <<"/">> ELSE <<>>
    BY <1>2, <2>st, StartFacts
  <2>2. /\ Length(st.out) = out'
        /\ \A i \in 1..out' : dst'[i - 1] = Spell(st.out)[i]
    <3>1. CASE rooted
      <4>1. /\ Spell(<<"/">>) = <<"/">> /\ Length(<<"/">>) = 1
        BY SpellOne, BytesFacts, TokensFacts
      <4>2. dst'[0] = "/" /\ out' = 1
        BY <1>2, <1>7, <1>8, <3>1
      <4>3. \A i \in 1..1 : i - 1 = 0 /\ i = 1
        OBVIOUS
      <4>4. <<"/">>[1] = "/"
        OBVIOUS
      <4> QED
        BY <2>1, <3>1, <4>1, <4>2, <4>3, <4>4
    <3>2. CASE ~ rooted
      BY <1>7, <2>1, <3>2, LengthEmpty
    <3> QED
      BY <3>1, <3>2
  <2>3. Len(<<>>) = 0
    OBVIOUS
  <2>4. Holds(st)'
    BY <1>2, <1>3, <1>4, <1>5, <2>1, <2>2, <2>3 DEF Holds, Stored, Stacked
  <2>5. /\ 0 \in 0..Len(path) /\ Length(Part(path, 0)) = 0
        /\ st = Reached(path, n, 0)
    BY <1>2, <1>5, <2>st, PartFacts, LengthEmpty, ReachedNext
  <2> HIDE DEF fits
  <2> QED
    BY <1>2, <1>3, <1>4, <1>7, <1>8, <2>4, <2>5, Arrives
<1>9. CASE ~ fits
  <2>1. clean_path_into(path, n) = Fail
    BY <1>2, <1>5, <1>9, ReachedIsClean
  <2> QED
    BY <1>2, <1>3, <1>7, <1>9, <2>1 DEF Follows, CleanerAgrees
<1> QED
  BY <1>8, <1>9

LEMMA FollowsStarts == CheckInit => FInv
<1> SUFFICES ASSUME CheckInit PROVE FInv
  OBVIOUS
<1>1. PathOK /\ IInv
  BY PathStarts, InitEstablishes DEF CheckInit
<1>2. pc = "idle"
  BY DEF CheckInit, Init
<1> QED
  BY <1>1, <1>2 DEF FInv, Follows, CleanerAgrees

\* A step of CheckSpec is a step of the machine of CleanPath, or none.
LEMMA MachineSteps == PathOK /\ [CheckNext]_<<path, vars>> => [Next]_vars
<1> SUFFICES ASSUME PathOK, [CheckNext]_<<path, vars>> PROVE [Next]_vars
  OBVIOUS
<1>1. CASE Clean
  <2>1. PICK n \in Sizes : Call(Spell(path), n)
    BY <1>1 DEF Clean
  <2>2. n \in 0..Cells /\ Spell(path) \in Seq(Chars)
    BY PathCheckAssumption, SpellType DEF PathOK
  <2> QED
    BY <2>1, <2>2 DEF Next
<1>2. CASE CleanStep
  BY <1>2 DEF CleanStep, Next
<1>3. CASE AppendSlash \/ AppendName \/ UNCHANGED <<path, vars>>
  BY <1>3 DEF AppendSlash, AppendName, vars
<1> QED
  BY <1>1, <1>2, <1>3 DEF CheckNext

LEMMA FollowsOn == FInv /\ [CheckNext]_<<path, vars>> => FInv'
<1> SUFFICES ASSUME FInv, [CheckNext]_<<path, vars>> PROVE FInv'
  OBVIOUS
<1>1. PathOK' /\ IInv'
  BY PathGrows, MachineSteps, Inductive DEF FInv
<1>2. Follows'
  <2>1. CASE AppendSlash \/ AppendName
    <3>1. pc' = "idle"
      BY <2>1 DEF AppendSlash, AppendName, vars
    <3> QED
      BY <3>1 DEF Follows, CleanerAgrees
  <2>2. CASE Clean
    BY <2>2, CleanFollows
  <2>3. CASE CleanStep
    <3>1. path' = path /\ Step
      BY <2>3 DEF CleanStep
    <3> QED
      BY <3>1, SkipSlashFollows, EndOfTextFollows, StartSegmentFollows, ScanNameFollows,
         EndOfNameFollows, SkipSegmentFollows, PopSegmentFollows, PushSegmentFollows,
         RefuseSegmentFollows, FinishFollows DEF Step
  <2>4. CASE UNCHANGED <<path, vars>>
    <3>1. /\ path' = path /\ pc' = pc /\ src' = src /\ dst_len' = dst_len /\ at' = at
          /\ start' = start /\ \A st : Holds(st)' <=> Holds(st)
      BY <2>4 DEF Holds, Stored, Stacked, vars
    <3>2. CleanerAgrees' <=> CleanerAgrees
      BY <2>4 DEF CleanerAgrees, vars
    <3>3. Follows
      BY DEF FInv
    <3> QED
      BY <3>1, <3>2, <3>3 DEF Follows, AtToken, InName
  <2> QED
    BY <2>1, <2>2, <2>3, <2>4 DEF CheckNext
<1> QED
  BY <1>1, <1>2 DEF FInv

\* Byte by byte the code leaves in the buffer what PathText says, and refuses exactly
\* the texts that PathText refuses, for names of every spelling and buffers of every
\* size: what is proved of clean_path_into on tokens holds for the code on bytes.
THEOREM BytesFollowTokens == CheckSpec => []CleanerAgrees
<1>1. FInv => CleanerAgrees
  BY DEF FInv, Follows
<1> QED
  BY <1>1, FollowsStarts, FollowsOn, PTL DEF CheckSpec
=============================================================================
