-------------------------- MODULE CleanPathProofs ---------------------------
(***************************************************************************)
(* Proofs about CleanPath, for every text, every size of the buffer and    *)
(* every PATH_MAX.                                                         *)
(*                                                                         *)
(* The invariant says where the walk is in the text (AtName), what dst     *)
(* holds (InBuffer), that the starts on the stack are two bytes apart      *)
(* (Stack), and that dst never gets ahead of the text (Behind).            *)
(***************************************************************************)
EXTENDS CleanPath, SequenceTheorems, TLAPS

Busy == pc \in {"skip", "scan", "segment", "finish"}

\* Before the call nothing is written.
Fresh == pc = "idle" => /\ at = 0 /\ start = 0 /\ seg_starts = <<>>
                        /\ dst = [i \in Memory |-> Junk]

\* The name between start and at has no slash in it, and at the end of the scan
\* it is not empty and a slash or the end of the text follows.
AtName ==
  /\ pc \in {"scan", "segment"} =>
       /\ start <= at
       /\ CharAt(start) \notin {"/", NUL}
       /\ \A i \in start..(at - 1) : CharAt(i) \notin {"/", NUL}
  /\ pc = "segment" => start < at /\ CharAt(at) \in {"/", NUL}

\* dst holds out characters, no two slashes in a row, and has room for a NUL.
InBuffer ==
  /\ dst_len <= Cells
  /\ Busy =>
       /\ out < dst_len
       /\ \A i \in 0..(out - 1) : dst[i] \in Chars
       /\ absolute => out >= 1 /\ dst[0] = "/"
       /\ \A i \in 1..(out - 1) : dst[i] = "/" => dst[i - 1] # "/"

\* Every segment takes at least a character and a slash.
Stack ==
  Busy =>
    /\ \A k \in 1..Len(seg_starts) : /\ 2 * (k - 1) <= seg_starts[k]
                                     /\ absolute => 1 <= seg_starts[k]
    /\ \A k \in 1..(Len(seg_starts) - 1) : seg_starts[k] + 2 <= seg_starts[k + 1]
    /\ seg_starts # <<>> =>
         /\ seg_starts[Len(seg_starts)] + 1 <= out
         /\ ~ NeedsSlash => seg_starts[Len(seg_starts)] + 2 <= out

\* dst is never longer than what was read, the slash to come included.
Behind ==
  /\ pc = "skip" => \/ at = 0 /\ ~ NeedsSlash /\ out <= 1 /\ (out # 0 => absolute)
                    \/ out <= at /\ (NeedsSlash => \/ out + 1 <= at
                                                   \/ CharAt(at) \in {"/", NUL})
  /\ pc \in {"scan", "segment"} => name_at <= start

IInv ==
  /\ TypeOK /\ NoOverrun /\ SegStartsFit /\ CleanedIsString /\ TakesWhatFits
  /\ Fresh /\ AtName /\ InBuffer /\ Stack /\ Behind

-----------------------------------------------------------------------------
\* Inside the text a character is one of its characters, at its end it is NUL.
LEMMA CharTypes ==
  ASSUME TypeOK, NEW i \in Nat
  PROVE  /\ CharAt(i) \in Chars \cup {NUL}
         /\ CharAt(i) # NUL <=> i < Len(src)
<1>1. src \in Seq(Chars) /\ Len(src) \in Nat
  BY DEF TypeOK
<1>2. i < Len(src) => src[i + 1] \in Chars
  BY <1>1
<1> QED
  BY <1>1, <1>2, CleanPathAssumption, LimitsAssumption DEF CharAt

\* A text that is empty, or does not begin with a slash, is not absolute.
LEMMA AbsoluteText ==
  ASSUME NEW s \in Seq(Chars), src = s
  PROVE  absolute <=> s # <<>> /\ s[1] = "/"
<1>1. s # <<>> <=> 0 < Len(s)
  OBVIOUS
<1> QED
  BY <1>1, CleanPathAssumption, LimitsAssumption DEF absolute, CharAt

LEMMA InitEstablishes == Init => IInv
<1> SUFFICES ASSUME Init
             PROVE  IInv
  OBVIOUS
<1>1. /\ pc = "idle" /\ src = <<>> /\ dst_len = 0 /\ at = 0 /\ start = 0 /\ out = 0
      /\ seg_starts = <<>> /\ dst = [i \in Memory |-> Junk]
  BY DEF Init
<1>2. TypeOK
  <2>1. src \in Seq(Chars) /\ seg_starts \in Seq(Nat) /\ Len(src) = 0
    BY <1>1
  <2> QED
    BY <1>1, <2>1 DEF TypeOK
<1>3. NoOverrun /\ SegStartsFit /\ CleanedIsString /\ TakesWhatFits
  <2>1. Len(seg_starts) = 0
    BY <1>1
  <2> QED
    BY <1>1, <2>1, CleanPathAssumption, LimitsAssumption
       DEF NoOverrun, SegStartsFit, CleanedIsString, TakesWhatFits
<1>4. Fresh /\ AtName /\ InBuffer /\ Stack /\ Behind
  BY <1>1, CleanPathAssumption, LimitsAssumption DEF Fresh, AtName, InBuffer, Stack, Behind, Busy
<1> QED
  BY <1>2, <1>3, <1>4 DEF IInv

LEMMA CallKeeps ==
  ASSUME IInv, NEW s \in Seq(Chars), NEW n \in 0..Cells, Call(s, n)
  PROVE  IInv'
<1> DEFINE rooted == s # <<>> /\ s[1] = "/"
           fits   == n # 0 /\ (rooted => n >= 2)
<1> USE CleanPathAssumption, LimitsAssumption
<1>1. /\ pc = "idle" /\ src' = s /\ dst_len' = n
      /\ pc' = IF fits THEN "skip" ELSE "failed"
      /\ dst' = IF fits /\ rooted THEN [dst EXCEPT ![0] = "/"] ELSE dst
      /\ out' = IF fits /\ rooted THEN 1 ELSE 0
      /\ UNCHANGED <<at, start, seg_starts>>
  BY DEF Call, Put
<1>2. at = 0 /\ start = 0 /\ seg_starts = <<>> /\ dst = [i \in Memory |-> Junk]
  BY <1>1 DEF IInv, Fresh
<1>3. n \in Nat /\ n <= Cells /\ Cells \in Nat /\ Len(s) \in Nat /\ absolute' = rooted
  <2>1. s # <<>> <=> 0 < Len(s)
    OBVIOUS
  <2> QED
    BY <1>1, <2>1 DEF absolute, CharAt
<1>4. dst' = [i \in Memory |-> IF i = 0 /\ fits /\ rooted THEN "/" ELSE Junk]
  BY <1>1, <1>2, <1>3 DEF Memory
<1> HIDE DEF fits, rooted
<1>5. seg_starts \in Seq(Nat) /\ Len(seg_starts) = 0
  BY <1>2
<1>6. TypeOK'
  BY <1>1, <1>2, <1>3, <1>4, <1>5 DEF TypeOK, Memory
<1>7. NoOverrun' /\ SegStartsFit' /\ CleanedIsString' /\ TakesWhatFits'
  BY <1>1, <1>2, <1>3, <1>4, <1>5
  DEF fits, Memory, NoOverrun, SegStartsFit, CleanedIsString, TakesWhatFits
<1>8. Fresh' /\ AtName'
  BY <1>1 DEF Fresh, AtName
<1>9. InBuffer'
  BY <1>1, <1>3, <1>4 DEF fits, Memory, InBuffer
<1>10. Stack'
  BY <1>1, <1>2, <1>5 DEF Stack
<1>11. Behind'
  BY <1>1, <1>2, <1>3, <1>4 DEF fits, Memory, Behind, NeedsSlash
<1> QED
  BY <1>6, <1>7, <1>8, <1>9, <1>10, <1>11 DEF IInv

-----------------------------------------------------------------------------
\* A step of the walk that stores nothing keeps everything said of the buffer.
LEMMA WalkKeeps ==
  ASSUME IInv, Busy, Busy', UNCHANGED <<src, dst_len, dst, seg_starts, out>>
  PROVE  /\ NoOverrun' /\ SegStartsFit' /\ CleanedIsString' /\ TakesWhatFits'
         /\ Fresh' /\ InBuffer' /\ Stack'
         /\ NeedsSlash' = NeedsSlash /\ name_at' = name_at /\ absolute' = absolute
<1>1. pc' # "done" /\ pc' # "failed" /\ pc' # "idle"
  BY DEF Busy
<1>2. NeedsSlash' = NeedsSlash /\ name_at' = name_at /\ absolute' = absolute
  BY DEF NeedsSlash, name_at, absolute, CharAt
<1>3. NoOverrun' /\ SegStartsFit' /\ CleanedIsString' /\ TakesWhatFits' /\ Fresh'
  BY <1>1 DEF IInv, NoOverrun, SegStartsFit, CleanedIsString, TakesWhatFits, Fresh
<1>4. InBuffer'
  BY <1>2 DEF IInv, InBuffer
<1>5. Stack'
  BY <1>2 DEF IInv, Stack
<1> QED
  BY <1>2, <1>3, <1>4, <1>5

LEMMA SkipSlashKeeps == IInv /\ SkipSlash => IInv'
<1> SUFFICES ASSUME IInv, SkipSlash
             PROVE  IInv'
  OBVIOUS
<1> USE CleanPathAssumption, LimitsAssumption
<1>1. /\ TypeOK /\ Behind /\ pc = "skip" /\ pc' = "skip" /\ CharAt(at) = "/" /\ at' = at + 1
      /\ UNCHANGED <<src, dst_len, dst, start, seg_starts, out>>
  BY DEF IInv, SkipSlash
<1>2. Busy /\ Busy'
  BY <1>1 DEF Busy
<1>3. /\ NoOverrun' /\ SegStartsFit' /\ CleanedIsString' /\ TakesWhatFits'
      /\ Fresh' /\ InBuffer' /\ Stack' /\ NeedsSlash' = NeedsSlash
  BY <1>1, <1>2, WalkKeeps
<1>4. at \in Nat /\ at < Len(src) /\ Len(src) \in Nat
  BY <1>1, CharTypes DEF TypeOK
<1>5. TypeOK'
  BY <1>1, <1>4 DEF TypeOK
<1>6. AtName'
  BY <1>1 DEF AtName
<1>7. Behind'
  BY <1>1, <1>3, <1>4 DEF Behind, TypeOK
<1> QED
  BY <1>3, <1>5, <1>6, <1>7 DEF IInv

LEMMA EndOfTextKeeps == IInv /\ EndOfText => IInv'
<1> SUFFICES ASSUME IInv, EndOfText
             PROVE  IInv'
  OBVIOUS
<1>1. /\ TypeOK /\ pc = "skip" /\ pc' = "finish"
      /\ UNCHANGED <<src, dst_len, dst, at, start, seg_starts, out>>
  BY DEF IInv, EndOfText
<1>2. Busy /\ Busy'
  BY <1>1 DEF Busy
<1>3. /\ NoOverrun' /\ SegStartsFit' /\ CleanedIsString' /\ TakesWhatFits'
      /\ Fresh' /\ InBuffer' /\ Stack'
  BY <1>1, <1>2, WalkKeeps
<1>4. TypeOK' /\ AtName' /\ Behind'
  BY <1>1 DEF TypeOK, AtName, Behind
<1> QED
  BY <1>3, <1>4 DEF IInv

LEMMA StartSegmentKeeps == IInv /\ StartSegment => IInv'
<1> SUFFICES ASSUME IInv, StartSegment
             PROVE  IInv'
  OBVIOUS
<1> USE CleanPathAssumption, LimitsAssumption
<1>1. /\ TypeOK /\ Behind /\ pc = "skip" /\ pc' = "scan" /\ start' = at
      /\ CharAt(at) \notin {"/", NUL}
      /\ UNCHANGED <<src, dst_len, dst, at, seg_starts, out>>
  BY DEF IInv, StartSegment
<1>2. Busy /\ Busy'
  BY <1>1 DEF Busy
<1>3. /\ NoOverrun' /\ SegStartsFit' /\ CleanedIsString' /\ TakesWhatFits'
      /\ Fresh' /\ InBuffer' /\ Stack' /\ name_at' = name_at
  BY <1>1, <1>2, WalkKeeps
<1>4. at \in Nat /\ out \in Nat
  BY <1>1 DEF TypeOK
<1>5. TypeOK'
  BY <1>1 DEF TypeOK
<1>6. AtName'
  <2>1. \A i \in Nat : CharAt(i)' = CharAt(i)
    BY <1>1 DEF CharAt
  <2>2. CharAt(start)' = CharAt(at)
    BY <1>1 DEF CharAt
  <2>3. start' <= at' /\ (start'..(at' - 1)) = {}
    BY <1>1, <1>4
  <2> QED
    BY <1>1, <2>2, <2>3 DEF AtName
\* At the very start of an absolute text the character is its slash.
<1>7. name_at <= at
  <2>1. CASE at = 0 /\ ~ NeedsSlash /\ out <= 1 /\ (out # 0 => absolute)
    BY <1>1, <1>4, <2>1 DEF absolute, name_at
  <2>2. CASE out <= at /\ (NeedsSlash => \/ out + 1 <= at
                                         \/ CharAt(at) \in {"/", NUL})
    BY <1>1, <1>4, <2>2 DEF name_at
  <2> QED
    BY <1>1, <2>1, <2>2 DEF Behind
<1>8. Behind'
  BY <1>1, <1>3, <1>7 DEF Behind
<1> QED
  BY <1>3, <1>5, <1>6, <1>8 DEF IInv

LEMMA ScanNameKeeps == IInv /\ ScanName => IInv'
<1> SUFFICES ASSUME IInv, ScanName
             PROVE  IInv'
  OBVIOUS
<1> USE CleanPathAssumption, LimitsAssumption
<1>1. /\ TypeOK /\ AtName /\ Behind /\ pc = "scan" /\ pc' = "scan" /\ at' = at + 1
      /\ CharAt(at) \notin {"/", NUL}
      /\ UNCHANGED <<src, dst_len, dst, start, seg_starts, out>>
  BY DEF IInv, ScanName
<1>2. Busy /\ Busy'
  BY <1>1 DEF Busy
<1>3. /\ NoOverrun' /\ SegStartsFit' /\ CleanedIsString' /\ TakesWhatFits'
      /\ Fresh' /\ InBuffer' /\ Stack' /\ name_at' = name_at
  BY <1>1, <1>2, WalkKeeps
<1>4. at \in Nat /\ start \in Nat /\ at < Len(src) /\ Len(src) \in Nat
  BY <1>1, CharTypes DEF TypeOK
<1>5. TypeOK'
  BY <1>1, <1>4 DEF TypeOK
<1>6. AtName'
  <2>1. CharAt(start)' = CharAt(start)
    BY <1>1 DEF CharAt
  <2>2. ASSUME NEW i \in start'..(at' - 1)
        PROVE  CharAt(i)' \notin {"/", NUL}
    <3>1. i \in start..(at - 1) \/ i = at
      BY <1>1, <1>4
    <3> QED
      BY <1>1, <3>1 DEF AtName, CharAt
  <2> QED
    BY <1>1, <1>4, <2>1, <2>2 DEF AtName
<1>7. Behind'
  BY <1>1, <1>3 DEF Behind
<1> QED
  BY <1>3, <1>5, <1>6, <1>7 DEF IInv

LEMMA EndOfNameKeeps == IInv /\ EndOfName => IInv'
<1> SUFFICES ASSUME IInv, EndOfName
             PROVE  IInv'
  OBVIOUS
<1> USE CleanPathAssumption, LimitsAssumption
<1>1. /\ TypeOK /\ AtName /\ Behind /\ pc = "scan" /\ pc' = "segment"
      /\ CharAt(at) \in {"/", NUL}
      /\ UNCHANGED <<src, dst_len, dst, at, start, seg_starts, out>>
  BY DEF IInv, EndOfName
<1>2. Busy /\ Busy'
  BY <1>1 DEF Busy
<1>3. /\ NoOverrun' /\ SegStartsFit' /\ CleanedIsString' /\ TakesWhatFits'
      /\ Fresh' /\ InBuffer' /\ Stack' /\ name_at' = name_at
  BY <1>1, <1>2, WalkKeeps
<1>4. TypeOK' /\ Behind'
  BY <1>1, <1>3 DEF TypeOK, Behind
<1>5. AtName'
  <2>1. at \in Nat /\ start \in Nat
    BY <1>1 DEF TypeOK
  <2>2. start # at
    BY <1>1 DEF AtName
  <2>3. start < at
    BY <1>1, <2>1, <2>2 DEF AtName
  <2>4. CharAt(start)' = CharAt(start) /\ CharAt(at)' = CharAt(at)
    BY <1>1 DEF CharAt
  <2>5. \A i \in start..(at - 1) : CharAt(i)' = CharAt(i)
    BY <1>1 DEF CharAt
  <2> QED
    BY <1>1, <2>3, <2>4, <2>5 DEF AtName
<1> QED
  BY <1>3, <1>4, <1>5 DEF IInv

-----------------------------------------------------------------------------
\* At the end of a name there are bytes enough behind it for all that dst holds.
LEMMA SegmentFacts ==
  ASSUME IInv, pc = "segment"
  PROVE  /\ at \in Nat /\ start \in Nat /\ out \in Nat /\ dst_len \in Nat /\ Cells \in Nat
         /\ Len(seg_starts) \in Nat /\ Len(src) \in Nat /\ seg_len \in Nat \ {0}
         /\ name_at \in Nat /\ out <= name_at /\ name_at <= start /\ start < at
         /\ at <= Len(src) /\ out < dst_len /\ dst_len <= Cells
         /\ at = start + seg_len /\ CharAt(at) \in {"/", NUL}
         /\ 2 * Len(seg_starts) <= name_at
<1> USE CleanPathAssumption, LimitsAssumption
<1>1. /\ at \in Nat /\ start \in Nat /\ out \in Nat /\ dst_len \in Nat /\ Cells \in Nat
      /\ Len(seg_starts) \in Nat /\ Len(src) \in Nat /\ at <= Len(src)
      /\ seg_starts \in Seq(Nat)
  BY DEF IInv, TypeOK
<1>2. start < at /\ CharAt(at) \in {"/", NUL} /\ name_at <= start
  BY DEF IInv, AtName, Behind
<1>3. out < dst_len /\ dst_len <= Cells
  BY DEF IInv, InBuffer, Busy
<1>4. seg_len \in Nat \ {0} /\ at = start + seg_len
  BY <1>1, <1>2 DEF seg_len
<1>5. name_at \in Nat /\ out <= name_at /\ (NeedsSlash => name_at = out + 1)
  BY <1>1 DEF name_at
<1>6. 2 * Len(seg_starts) <= name_at
  <2>1. CASE seg_starts = <<>>
    BY <1>5, <2>1
  <2>2. CASE seg_starts # <<>>
    <3> DEFINE K == Len(seg_starts)
    <3>1. K \in 1..Len(seg_starts) /\ seg_starts[K] \in Nat
      BY <1>1, <2>2
    <3>2. 2 * (K - 1) <= seg_starts[K]
      BY <3>1 DEF IInv, Stack, Busy
    <3>3. seg_starts[K] + 1 <= out /\ (~ NeedsSlash => seg_starts[K] + 2 <= out)
      BY <2>2 DEF IInv, Stack, Busy
    <3> HIDE DEF K
    <3>4. K \in Nat /\ seg_starts[K] \in Nat
      BY <1>1, <3>1 DEF K
    <3>5. 2 * K <= name_at
      BY <1>1, <1>5, <3>2, <3>3, <3>4
    <3> QED
      BY <3>5 DEF K
  <2> QED
    BY <2>1, <2>2
<1> QED
  BY <1>1, <1>2, <1>3, <1>4, <1>5, <1>6

LEMMA SkipSegmentKeeps == IInv /\ SkipSegment => IInv'
<1> SUFFICES ASSUME IInv, SkipSegment
             PROVE  IInv'
  OBVIOUS
<1>1. /\ TypeOK /\ pc = "segment" /\ pc' = "skip"
      /\ UNCHANGED <<src, dst_len, dst, at, start, seg_starts, out>>
  BY DEF IInv, SkipSegment
<1>2. Busy /\ Busy'
  BY <1>1 DEF Busy
<1>3. /\ NoOverrun' /\ SegStartsFit' /\ CleanedIsString' /\ TakesWhatFits'
      /\ Fresh' /\ InBuffer' /\ Stack' /\ NeedsSlash' = NeedsSlash
  BY <1>1, <1>2, WalkKeeps
<1>4. TypeOK' /\ AtName'
  BY <1>1 DEF TypeOK, AtName
<1>5. Behind'
  <2>1. out + 1 <= at
    BY <1>1, SegmentFacts
  <2>2. out' <= at' /\ out' + 1 <= at'
    BY <1>1, <2>1 DEF TypeOK
  <2> QED
    BY <1>1, <2>2 DEF Behind
<1> QED
  BY <1>3, <1>4, <1>5 DEF IInv

\* A sequence without its last element.
LEMMA ShorterStack ==
  ASSUME NEW q \in Seq(Nat), q # <<>>
  PROVE  LET short == SubSeq(q, 1, Len(q) - 1)
         IN /\ short \in Seq(Nat) /\ Len(short) = Len(q) - 1
            /\ \A k \in 1..(Len(q) - 1) : short[k] = q[k]
<1>1. Len(q) \in Nat \ {0}
  OBVIOUS
<1>2. 1 \in Int /\ Len(q) - 1 \in Int
  BY <1>1
<1>3. \A i \in 1..(Len(q) - 1) : q[i] \in Nat
  BY <1>1
<1>4. /\ SubSeq(q, 1, Len(q) - 1) \in Seq(Nat)
      /\ Len(SubSeq(q, 1, Len(q) - 1)) = IF 1 <= Len(q) - 1 THEN (Len(q) - 1) - 1 + 1 ELSE 0
      /\ \A i \in 1..((Len(q) - 1) - 1 + 1) : SubSeq(q, 1, Len(q) - 1)[i] = q[1 + i - 1]
  BY <1>2, <1>3, SubSeqProperties
<1>5. (Len(q) - 1) - 1 + 1 = Len(q) - 1 /\ \A i \in 1..(Len(q) - 1) : 1 + i - 1 = i
  BY <1>1
<1> QED
  BY <1>1, <1>4, <1>5

LEMMA PopSegmentKeeps == IInv /\ PopSegment => IInv'
<1> SUFFICES ASSUME IInv, PopSegment
             PROVE  IInv'
  OBVIOUS
<1> USE CleanPathAssumption, LimitsAssumption
<1> DEFINE K   == Len(seg_starts)
           cut == seg_starts[K]
<1>1. /\ TypeOK /\ NoOverrun /\ SegStartsFit /\ InBuffer /\ Stack
      /\ pc = "segment" /\ pc' = "skip" /\ seg_starts # <<>>
      /\ seg_starts' = SubSeq(seg_starts, 1, K - 1)
      /\ UNCHANGED <<src, dst_len, at, start>>
  BY DEF IInv, PopSegment
<1>2. Busy /\ Busy'
  BY <1>1 DEF Busy
<1>3. /\ at \in Nat /\ out \in Nat /\ dst_len \in Nat /\ out <= at /\ out < dst_len
      /\ Cells \in Nat /\ dst_len <= Cells
  BY <1>1, SegmentFacts
<1>4. K \in Nat \ {0} /\ cut \in Nat
  BY <1>1 DEF TypeOK
<1>5. cut + 1 <= out /\ (absolute => 1 <= cut)
  BY <1>1, <1>2, <1>4 DEF Stack
\* Below an absolute path no segment starts at 0: the root is never cut off.
<1>6. dst' = dst /\ out' = cut
  BY <1>4, <1>5 DEF PopSegment
<1>7. /\ seg_starts' \in Seq(Nat) /\ Len(seg_starts') = K - 1
      /\ \A k \in 1..(K - 1) : seg_starts'[k] = seg_starts[k]
  BY <1>1, ShorterStack DEF TypeOK
<1>8. absolute' = absolute
  BY <1>1 DEF absolute, CharAt
<1> HIDE DEF K, cut
<1>9. TypeOK' /\ NoOverrun' /\ Fresh' /\ AtName'
  BY <1>1, <1>4, <1>6, <1>7 DEF TypeOK, NoOverrun, Fresh, AtName
<1>10. SegStartsFit' /\ CleanedIsString' /\ TakesWhatFits'
  <2>1. K <= PATH_MAX /\ 2 * K <= dst_len + 1
    BY <1>1 DEF SegStartsFit, K
  <2> QED
    BY <1>1, <1>3, <1>4, <1>7, <2>1 DEF SegStartsFit, CleanedIsString, TakesWhatFits
<1>11. InBuffer'
  BY <1>1, <1>2, <1>3, <1>4, <1>5, <1>6, <1>8 DEF InBuffer
<1>12. Stack'
  <2>1. K > 1 => seg_starts[K - 1] + 2 <= cut
    <3>1. K > 1 => K - 1 \in 1..(Len(seg_starts) - 1) /\ (K - 1) + 1 = K
      BY <1>4 DEF K
    <3> QED
      BY <1>1, <1>2, <3>1 DEF Stack, cut
  <2>2. \A k \in 1..(K - 1) : /\ 2 * (k - 1) <= seg_starts[k]
                              /\ absolute => 1 <= seg_starts[k]
    BY <1>1, <1>2, <1>4 DEF Stack, K
  <2>3. \A k \in 1..(K - 2) : seg_starts[k] + 2 <= seg_starts[k + 1]
    BY <1>1, <1>2, <1>4 DEF Stack, K
  <2>4. \A k \in 1..(K - 2) : /\ seg_starts'[k] = seg_starts[k]
                              /\ seg_starts'[k + 1] = seg_starts[k + 1]
    BY <1>4, <1>7
  <2>5. seg_starts' # <<>> => /\ K > 1 /\ seg_starts'[K - 1] = seg_starts[K - 1]
                              /\ seg_starts[K - 1] \in Nat
    <3>1. seg_starts' # <<>> => K > 1
      BY <1>4, <1>7
    <3>2. K > 1 => K - 1 \in 1..(K - 1) /\ K - 1 \in 1..Len(seg_starts)
      BY <1>4 DEF K
    <3> QED
      BY <1>1, <1>7, <3>1, <3>2 DEF TypeOK
  <2>6. /\ \A k \in 1..(K - 1) : /\ 2 * (k - 1) <= seg_starts'[k]
                                 /\ absolute' => 1 <= seg_starts'[k]
        /\ \A k \in 1..((K - 1) - 1) : seg_starts'[k] + 2 <= seg_starts'[k + 1]
    <3>1. ASSUME NEW k \in 1..(K - 1)
          PROVE  2 * (k - 1) <= seg_starts'[k] /\ (absolute' => 1 <= seg_starts'[k])
      <4>1. seg_starts'[k] = seg_starts[k]
        BY <1>7
      <4>2. 2 * (k - 1) <= seg_starts[k] /\ (absolute => 1 <= seg_starts[k])
        BY <2>2
      <4> QED
        BY <1>8, <4>1, <4>2
    <3>2. (K - 1) - 1 = K - 2
      BY <1>4
    <3> QED
      BY <2>3, <2>4, <3>1, <3>2
  <2>7. seg_starts' # <<>> => seg_starts'[K - 1] + 1 <= out' /\ seg_starts'[K - 1] + 2 <= out'
    BY <1>4, <1>6, <2>1, <2>5
  <2> QED
    BY <1>7, <2>6, <2>7 DEF Stack
<1>13. Behind'
  <2>1. out' <= at' /\ out' + 1 <= at'
    BY <1>1, <1>3, <1>4, <1>5, <1>6
  <2> QED
    BY <1>1, <2>1 DEF Behind
<1> QED
  BY <1>9, <1>10, <1>11, <1>12, <1>13 DEF IInv

\* What the name brings: no slash, and characters of the text only.
LEMMA NameCharacters ==
  ASSUME IInv, pc = "segment", NEW i \in start..(at - 1)
  PROVE  CharAt(i) \in Chars \ {"/"}
<1>1. i \in Nat
  BY DEF IInv, TypeOK
<1>2. CharAt(i) \notin {"/", NUL}
  BY DEF IInv, AtName
<1> QED
  BY <1>1, <1>2, CharTypes DEF IInv

LEMMA PushSegmentKeeps == IInv /\ PushSegment => IInv'
<1> SUFFICES ASSUME IInv, PushSegment
             PROVE  IInv'
  OBVIOUS
<1> USE CleanPathAssumption, LimitsAssumption
<1> DEFINE K == Len(seg_starts)
<1>1. /\ TypeOK /\ NoOverrun /\ SegStartsFit /\ InBuffer /\ Stack
      /\ pc = "segment" /\ pc' = "skip" /\ ~ NoRoom
      /\ seg_starts' = Append(seg_starts, name_at) /\ out' = name_at + seg_len
      /\ UNCHANGED <<src, dst_len, at, start>>
  BY DEF IInv, PushSegment
<1>2. Busy /\ Busy'
  BY <1>1 DEF Busy
<1>3. /\ at \in Nat /\ start \in Nat /\ out \in Nat /\ dst_len \in Nat /\ Cells \in Nat
      /\ seg_len \in Nat \ {0} /\ name_at \in Nat /\ out <= name_at /\ name_at <= start
      /\ out < dst_len /\ dst_len <= Cells /\ at = start + seg_len
      /\ CharAt(at) \in {"/", NUL}
  BY <1>1, SegmentFacts
<1>4. K \in Nat /\ 2 * K <= name_at
  BY <1>1, SegmentFacts
<1>5. K < PATH_MAX /\ name_at + seg_len < dst_len
  BY <1>1, <1>3, <1>4 DEF NoRoom
<1>6. /\ NeedsSlash => name_at = out + 1 /\ out # 0 /\ dst[out - 1] # "/"
      /\ ~ NeedsSlash => name_at = out /\ (out # 0 => dst[out - 1] = "/")
  BY DEF NeedsSlash, name_at
<1>7. ASSUME NEW i \in Memory
      PROVE  /\ NeedsSlash /\ i = out => dst'[i] = "/"
             /\ name_at <= i /\ i < name_at + seg_len => dst'[i] \in Chars \ {"/"}
             /\ i < out \/ name_at + seg_len <= i => dst'[i] = dst[i]
  <2>1. dst'[i] = IF NeedsSlash /\ i = out THEN "/"
                  ELSE IF i >= name_at /\ i < name_at + seg_len
                  THEN CharAt(start + (i - name_at)) ELSE dst[i]
    BY DEF PushSegment
  <2>2. i \in Nat
    BY DEF Memory
  <2>3. name_at <= i /\ i < name_at + seg_len => start + (i - name_at) \in start..(at - 1)
    BY <1>3, <2>2
  <2>4. name_at <= i /\ i < name_at + seg_len
          => CharAt(start + (i - name_at)) \in Chars \ {"/"}
    BY <1>1, <2>3, NameCharacters
  <2> QED
    BY <1>3, <1>6, <2>1, <2>2, <2>4
<1>8. DOMAIN dst' = Memory /\ dst' = [i \in Memory |-> dst'[i]]
  BY DEF PushSegment
<1>9. /\ seg_starts' \in Seq(Nat) /\ Len(seg_starts') = K + 1
      /\ \A k \in 1..K : seg_starts'[k] = seg_starts[k]
      /\ seg_starts'[K + 1] = name_at
  BY <1>1, <1>3, AppendProperties DEF TypeOK
<1>10. absolute' = absolute
  BY <1>1 DEF absolute, CharAt
<1>11. NeedsSlash' /\ name_at + seg_len - 1 \in Memory /\ out' - 1 = name_at + seg_len - 1
  <2>1. out' - 1 = name_at + seg_len - 1 /\ name_at + seg_len - 1 \in Memory /\ out' # 0
    BY <1>1, <1>3, <1>5 DEF Memory
  <2>2. name_at <= name_at + seg_len - 1 /\ name_at + seg_len - 1 < name_at + seg_len
    BY <1>3
  <2>3. dst'[name_at + seg_len - 1] # "/"
    BY <1>7, <2>1, <2>2
  <2> QED
    BY <2>1, <2>3 DEF NeedsSlash
<1> HIDE DEF K
<1>12. TypeOK'
  <2>1. \A i \in Memory : dst'[i] \in Chars \cup {NUL, Junk}
    <3> SUFFICES ASSUME NEW i \in Memory
                 PROVE  dst'[i] \in Chars \cup {NUL, Junk}
      OBVIOUS
    <3>1. dst[i] \in Chars \cup {NUL, Junk}
      BY <1>1 DEF TypeOK
    <3>2. i \in Nat
      BY DEF Memory
    <3>3. \/ NeedsSlash /\ i = out
          \/ name_at <= i /\ i < name_at + seg_len
          \/ i < out \/ name_at + seg_len <= i
      BY <1>3, <1>6, <3>2
    <3> QED
      BY <1>7, <3>1, <3>3
  <2>2. dst' \in [Memory -> Chars \cup {NUL, Junk}]
    BY <1>8, <2>1
  <2> QED
    BY <1>1, <1>3, <1>9, <2>2 DEF TypeOK
<1>13. NoOverrun' /\ Fresh' /\ AtName'
  <2>1. ASSUME NEW i \in Memory, i >= dst_len
        PROVE  dst'[i] = Junk
    <3>1. name_at + seg_len <= i
      BY <1>3, <1>5, <2>1 DEF Memory
    <3> QED
      BY <1>1, <1>7, <2>1, <3>1 DEF NoOverrun
  <2> QED
    BY <1>1, <2>1 DEF NoOverrun, Fresh, AtName
<1>14. SegStartsFit' /\ CleanedIsString' /\ TakesWhatFits'
  BY <1>1, <1>3, <1>4, <1>5, <1>9 DEF SegStartsFit, CleanedIsString, TakesWhatFits
<1>15. InBuffer'
  <2>1. out' < dst_len' /\ dst_len' <= Cells
    BY <1>1, <1>3, <1>5
  <2>2. ASSUME NEW i \in 0..(out' - 1)
        PROVE  dst'[i] \in Chars
    <3>1. i \in Memory /\ i \in Nat /\ i < name_at + seg_len
      BY <1>1, <1>3, <1>5 DEF Memory
    <3>2. CASE i < out
      <4>1. i \in 0..(out - 1)
        BY <1>3, <3>1, <3>2
      <4> QED
        BY <1>1, <1>2, <1>7, <3>1, <3>2, <4>1 DEF InBuffer
    <3>3. CASE out <= i
      BY <1>3, <1>6, <1>7, <3>1, <3>3
    <3> QED
      BY <1>3, <3>1, <3>2, <3>3
  <2>3. absolute' => out' >= 1 /\ dst'[0] = "/"
    <3>1. absolute => out >= 1 /\ dst[0] = "/"
      BY <1>1, <1>2 DEF InBuffer
    <3>2. 0 \in Memory
      BY <1>3 DEF Memory
    <3> QED
      BY <1>1, <1>3, <1>7, <1>10, <3>1, <3>2
  <2>4. ASSUME NEW i \in 1..(out' - 1), dst'[i] = "/"
        PROVE  dst'[i - 1] # "/"
    <3>1. /\ i \in Memory /\ i - 1 \in Memory /\ i \in Nat /\ i - 1 \in Nat /\ i # 0
          /\ i < name_at + seg_len
      BY <1>1, <1>3, <1>5 DEF Memory
    <3>2. i < name_at
      BY <1>3, <1>7, <2>4, <3>1
    <3>3. CASE i < out
      <4>1. i \in 1..(out - 1) /\ i - 1 < out
        BY <1>3, <3>1, <3>3
      <4>2. dst'[i] = dst[i] /\ dst'[i - 1] = dst[i - 1]
        BY <1>7, <3>1, <3>3, <4>1
      <4> QED
        BY <1>1, <1>2, <2>4, <4>1, <4>2 DEF InBuffer
    <3>4. CASE out <= i
      <4>1. NeedsSlash /\ i = out
        BY <1>3, <1>6, <3>1, <3>2, <3>4
      <4>2. dst'[i - 1] = dst[i - 1]
        BY <1>3, <1>7, <3>1, <4>1
      <4> QED
        BY <1>6, <4>1, <4>2
    <3> QED
      BY <1>3, <3>1, <3>3, <3>4
  <2> QED
    BY <2>1, <2>2, <2>3, <2>4 DEF InBuffer
<1>16. Stack'
  <2>1. \A k \in 1..K : /\ 2 * (k - 1) <= seg_starts[k]
                        /\ absolute => 1 <= seg_starts[k]
    BY <1>1, <1>2 DEF Stack, K
  <2>2. \A k \in 1..(K - 1) : seg_starts[k] + 2 <= seg_starts[k + 1]
    BY <1>1, <1>2 DEF Stack, K
  <2>3. K # 0 => seg_starts[K] \in Nat /\ seg_starts[K] + 2 <= name_at
    <3>1. ASSUME K # 0
          PROVE  /\ seg_starts # <<>> /\ seg_starts[K] \in Nat
                 /\ seg_starts[K] + 1 <= out
                 /\ ~ NeedsSlash => seg_starts[K] + 2 <= out
      <4>1. seg_starts # <<>> /\ K \in 1..Len(seg_starts)
        BY <1>4, <3>1 DEF K
      <4>2. seg_starts[K] \in Nat
        BY <1>1, <4>1 DEF TypeOK
      <4> QED
        BY <1>1, <1>2, <4>1, <4>2 DEF Stack, K
    <3> QED
      BY <1>3, <1>6, <3>1
  <2>4. absolute => 1 <= name_at
    BY <1>1, <1>2, <1>3 DEF InBuffer
  <2>5. ASSUME NEW k \in 1..(K + 1)
        PROVE  2 * (k - 1) <= seg_starts'[k] /\ (absolute' => 1 <= seg_starts'[k])
    <3>1. CASE k = K + 1
      BY <1>3, <1>4, <1>9, <1>10, <2>4, <3>1
    <3>2. CASE k \in 1..K
      BY <1>9, <1>10, <2>1, <3>2
    <3> QED
      BY <1>4, <3>1, <3>2
  <2>6. ASSUME NEW k \in 1..K
        PROVE  seg_starts'[k] + 2 <= seg_starts'[k + 1]
    <3>1. CASE k = K
      BY <1>4, <1>9, <2>3, <3>1
    <3>2. CASE k \in 1..(K - 1)
      <4>1. k + 1 \in 1..K
        BY <1>4, <3>2
      <4>2. seg_starts'[k] = seg_starts[k] /\ seg_starts'[k + 1] = seg_starts[k + 1]
        BY <1>9, <4>1
      <4> QED
        BY <2>2, <3>2, <4>2
    <3> QED
      BY <1>4, <3>1, <3>2
  <2>7. (K + 1) - 1 = K /\ seg_starts'[K + 1] + 1 <= out'
    BY <1>1, <1>3, <1>4, <1>9
  <2> QED
    BY <1>9, <1>11, <2>5, <2>6, <2>7 DEF Stack
<1>17. Behind'
  <2>1. out' <= at' /\ at' = at
    BY <1>1, <1>3
  <2>2. CharAt(at)' = CharAt(at)
    BY <1>1 DEF CharAt
  <2> QED
    BY <1>1, <1>3, <2>1, <2>2 DEF Behind
<1> QED
  BY <1>12, <1>13, <1>14, <1>15, <1>16, <1>17 DEF IInv

LEMMA RefuseSegmentKeeps == IInv /\ RefuseSegment => IInv'
<1> SUFFICES ASSUME IInv, RefuseSegment
             PROVE  IInv'
  OBVIOUS
<1> USE CleanPathAssumption, LimitsAssumption
<1> DEFINE K       == Len(seg_starts)
           counted == K < PATH_MAX /\ (NeedsSlash => out + 1 < dst_len)
<1>1. /\ TypeOK /\ NoOverrun /\ SegStartsFit /\ TakesWhatFits /\ InBuffer /\ Stack
      /\ pc = "segment" /\ pc' = "failed" /\ NoRoom
      /\ dst' = IF counted /\ NeedsSlash THEN [dst EXCEPT ![out] = "/"] ELSE dst
      /\ seg_starts' = IF counted THEN Append(seg_starts, name_at) ELSE seg_starts
      /\ out' = IF counted THEN name_at ELSE out
      /\ UNCHANGED <<src, dst_len, at, start>>
  BY DEF IInv, RefuseSegment, Put
<1>2. Busy /\ ~ Busy'
  BY <1>1 DEF Busy
<1>3. /\ at \in Nat /\ start \in Nat /\ out \in Nat /\ dst_len \in Nat /\ Cells \in Nat
      /\ seg_len \in Nat \ {0} /\ name_at \in Nat /\ out <= name_at /\ name_at <= start
      /\ out < dst_len /\ dst_len <= Cells /\ at = start + seg_len
      /\ at <= Len(src) /\ Len(src) \in Nat
  BY <1>1, SegmentFacts
<1>4. K \in Nat /\ 2 * K <= name_at
  BY <1>1, SegmentFacts
<1>5. NeedsSlash => name_at = out + 1
  BY DEF name_at
<1>6. ~ NeedsSlash => name_at = out
  BY DEF name_at
<1>7. /\ ~ counted => seg_starts' = seg_starts
      /\ counted => /\ seg_starts' \in Seq(Nat) /\ Len(seg_starts') = K + 1
                    /\ K < PATH_MAX /\ name_at < dst_len
  <2>1. ASSUME counted
        PROVE  /\ seg_starts' \in Seq(Nat) /\ Len(seg_starts') = K + 1
               /\ K < PATH_MAX /\ name_at < dst_len
    <3>1. seg_starts' = Append(seg_starts, name_at) /\ seg_starts \in Seq(Nat)
      BY <1>1, <2>1 DEF TypeOK
    <3>2. seg_starts' \in Seq(Nat) /\ Len(seg_starts') = K + 1
      BY <1>3, <3>1, AppendProperties
    <3>3. K < PATH_MAX /\ name_at < dst_len
      BY <1>3, <1>5, <1>6, <2>1
    <3> QED
      BY <3>2, <3>3
  <2> QED
    BY <1>1, <2>1
<1>8. SegStartsFit'
  <2>1. K <= PATH_MAX /\ 2 * K <= dst_len + 1
    BY <1>1 DEF SegStartsFit
  <2>2. CASE counted
    <3> HIDE DEF counted, K
    <3>1. Len(seg_starts') = K + 1 /\ K < PATH_MAX /\ name_at < dst_len
      BY <1>7, <2>2
    <3>2. dst_len' = dst_len
      BY <1>1
    <3> QED
      BY <1>3, <1>4, <3>1, <3>2 DEF SegStartsFit
  <2>3. CASE ~ counted
    BY <1>1, <2>1, <2>3 DEF SegStartsFit
  <2> QED
    BY <2>2, <2>3
\* The room that is missing is missing in the text already.
<1>9. TakesWhatFits'
  <2> SUFFICES ASSUME Len(src) < dst_len, 2 <= dst_len, dst_len <= PATH_MAX
               PROVE  FALSE
    BY <1>1 DEF TakesWhatFits
  <2>1. K < PATH_MAX
    <3>1. K <= PATH_MAX /\ 2 * K <= name_at
      BY <1>1, <1>4 DEF SegStartsFit
    <3> HIDE DEF K, counted
    <3> QED
      BY <1>3, <1>4, <3>1
  <2>2. name_at + seg_len < dst_len
    BY <1>3
  <2>3. NeedsSlash => out + 1 < dst_len
    BY <1>3, <1>5, <2>2
  <2> QED
    BY <1>1, <1>3, <1>4, <2>1, <2>2, <2>3 DEF NoRoom
<1>10. TypeOK' /\ NoOverrun'
  <2>1. out \in Memory /\ \A i \in Memory : i >= dst_len => i # out
    BY <1>3 DEF Memory
  <2>2. dst' \in [Memory -> Chars \cup {NUL, Junk}]
    BY <1>1, <2>1 DEF TypeOK
  <2>3. \A i \in Memory : i >= dst_len => dst'[i] = Junk
    BY <1>1, <2>1 DEF NoOverrun, TypeOK
  <2>4. out' \in Nat /\ seg_starts' \in Seq(Nat)
    <3> HIDE DEF counted
    <3> QED
      BY <1>1, <1>3, <1>7 DEF TypeOK
  <2> QED
    BY <1>1, <2>2, <2>3, <2>4 DEF TypeOK, NoOverrun
<1>11. CleanedIsString' /\ Fresh' /\ AtName' /\ Behind'
  BY <1>1 DEF CleanedIsString, Fresh, AtName, Behind
<1>12. InBuffer' /\ Stack'
  BY <1>1, <1>2, <1>3 DEF InBuffer, Stack
<1> QED
  BY <1>8, <1>9, <1>10, <1>11, <1>12 DEF IInv

LEMMA FinishKeeps == IInv /\ Finish => IInv'
<1> SUFFICES ASSUME IInv, Finish
             PROVE  IInv'
  OBVIOUS
<1> USE CleanPathAssumption, LimitsAssumption
<1> DEFINE empty == out = 0
           last  == IF empty THEN 1 ELSE out
           mark  == IF absolute THEN "/" ELSE "."
<1>1. /\ TypeOK /\ NoOverrun /\ SegStartsFit /\ TakesWhatFits /\ InBuffer
      /\ pc = "finish" /\ UNCHANGED <<src, dst_len, at, start, seg_starts>>
  BY DEF IInv, Finish
<1>2. /\ out \in Nat /\ dst_len \in Nat /\ Cells \in Nat /\ out < dst_len /\ dst_len <= Cells
      /\ \A i \in 0..(out - 1) : dst[i] \in Chars
      /\ absolute => out >= 1 /\ dst[0] = "/"
      /\ \A i \in 1..(out - 1) : dst[i] = "/" => dst[i - 1] # "/"
  BY <1>1 DEF InBuffer, Busy, TypeOK
<1>3. SegStartsFit' /\ absolute' = absolute
  BY <1>1 DEF SegStartsFit, absolute, CharAt
<1>4. CASE empty /\ dst_len < 2
  <2>1. pc' = "failed" /\ dst' = dst /\ out' = out
    BY <1>4 DEF Finish
  <2>2. TypeOK' /\ NoOverrun' /\ CleanedIsString' /\ Fresh' /\ AtName' /\ Behind'
    BY <1>1, <2>1 DEF TypeOK, NoOverrun, CleanedIsString, Fresh, AtName, Behind
  <2>3. TakesWhatFits'
    BY <1>1, <1>2, <1>4 DEF TakesWhatFits
  <2>4. InBuffer' /\ Stack'
    BY <1>1, <1>2, <2>1 DEF InBuffer, Stack, Busy
  <2> QED
    BY <1>3, <2>2, <2>3, <2>4 DEF IInv
<1>5. CASE ~ (empty /\ dst_len < 2)
  <2>1. /\ pc' = "done" /\ out' = last
        /\ dst' = [(IF empty THEN [dst EXCEPT ![0] = mark] ELSE dst) EXCEPT ![last] = NUL]
    BY <1>5 DEF Finish, Put
  <2>2. /\ last \in Nat \ {0} /\ last < dst_len /\ last \in Memory /\ 0 \in Memory
        /\ last # 0 /\ mark \in Chars
    BY <1>2, <1>5 DEF Memory
  <2>3. ASSUME NEW i \in Memory
        PROVE  dst'[i] = IF i = last THEN NUL ELSE IF empty /\ i = 0 THEN mark ELSE dst[i]
    BY <1>1, <2>1, <2>2 DEF TypeOK
  <2>4. dst' \in [Memory -> Chars \cup {NUL, Junk}]
    BY <1>1, <2>1, <2>2 DEF TypeOK
  <2> HIDE DEF last, mark
  <2>5. TypeOK'
    BY <1>1, <2>1, <2>2, <2>4 DEF TypeOK
  <2>6. NoOverrun'
    <3>1. ASSUME NEW i \in Memory, i >= dst_len
          PROVE  dst'[i] = Junk
      <4>1. i # last /\ i # 0
        BY <1>2, <2>2, <3>1 DEF Memory
      <4> QED
        BY <1>1, <2>3, <3>1, <4>1 DEF NoOverrun
    <3> QED
      BY <1>1, <3>1 DEF NoOverrun
  <2>7. CleanedIsString'
    <3>1. out' > 0 /\ out' < dst_len' /\ dst'[out'] = NUL
      <4>1. dst'[last] = NUL
        BY <2>2, <2>3
      <4>2. out' = last /\ dst_len' = dst_len
        BY <1>1, <2>1
      <4> QED
        BY <1>2, <2>2, <4>1, <4>2
    <3>2. ASSUME NEW i \in 0..(out' - 1)
          PROVE  /\ i \in Memory /\ i # last
                 /\ dst'[i] = IF empty THEN mark ELSE dst[i]
                 /\ ~ empty => i \in 0..(out - 1)
      <4>1. i \in Memory /\ i # last /\ i < last /\ i \in Nat
        BY <1>2, <2>1, <2>2 DEF Memory
      <4>2. empty => i = 0
        BY <4>1 DEF last
      <4>3. ~ empty => i \in 0..(out - 1)
        BY <1>2, <2>1 DEF last
      <4> QED
        BY <2>3, <4>1, <4>2, <4>3
    <3>3. \A i \in 0..(out' - 1) : dst'[i] \in Chars
      BY <1>2, <2>2, <3>2
    <3>4. absolute' => dst'[0] = "/"
      <4>1. absolute => ~ empty
        BY <1>2
      <4>2. 0 # last
        BY <2>2
      <4> QED
        BY <1>2, <1>3, <2>2, <2>3, <4>1, <4>2
    <3>5. ASSUME NEW i \in 1..(out' - 1), dst'[i] = "/"
          PROVE  dst'[i - 1] # "/"
      <4>1. ~ empty /\ out' = out
        BY <1>2, <2>1 DEF last
      <4>2. i \in 0..(out' - 1) /\ i - 1 \in 0..(out' - 1) /\ i \in 1..(out - 1)
        BY <1>2, <4>1
      <4>3. dst'[i] = dst[i] /\ dst'[i - 1] = dst[i - 1]
        BY <3>2, <4>1, <4>2
      <4> QED
        BY <1>2, <3>5, <4>2, <4>3
    <3> QED
      BY <3>1, <3>3, <3>4, <3>5 DEF CleanedIsString
  <2>8. TakesWhatFits' /\ Fresh' /\ AtName' /\ Behind'
    BY <2>1 DEF TakesWhatFits, Fresh, AtName, Behind
  <2>9. InBuffer' /\ Stack'
    BY <1>1, <1>2, <2>1 DEF InBuffer, Stack, Busy
  <2> QED
    BY <1>3, <2>5, <2>6, <2>7, <2>8, <2>9 DEF IInv
<1> QED
  BY <1>4, <1>5

-----------------------------------------------------------------------------
LEMMA StutterKeeps == IInv /\ UNCHANGED vars => IInv'
<1> SUFFICES ASSUME IInv, UNCHANGED vars
             PROVE  IInv'
  OBVIOUS
<1>1. UNCHANGED <<pc, src, dst_len, dst, at, start, seg_starts, out>>
  BY DEF vars
<1> USE <1>1
<1>2. TypeOK' /\ NoOverrun' /\ SegStartsFit' /\ TakesWhatFits' /\ Fresh'
  BY DEF IInv, TypeOK, NoOverrun, SegStartsFit, TakesWhatFits, Fresh
<1>3. CleanedIsString' /\ AtName'
  BY DEF IInv, CleanedIsString, AtName, absolute, CharAt
<1>4. InBuffer' /\ Stack' /\ Behind'
  BY DEF IInv, InBuffer, Stack, Behind, Busy, absolute, CharAt, NeedsSlash, name_at
<1> QED
  BY <1>2, <1>3, <1>4 DEF IInv

LEMMA Inductive == IInv /\ [Next]_vars => IInv'
<1> SUFFICES ASSUME IInv, [Next]_vars
             PROVE  IInv'
  OBVIOUS
<1>1. CASE SkipSlash
  BY <1>1, SkipSlashKeeps
<1>2. CASE EndOfText
  BY <1>2, EndOfTextKeeps
<1>3. CASE StartSegment
  BY <1>3, StartSegmentKeeps
<1>4. CASE ScanName
  BY <1>4, ScanNameKeeps
<1>5. CASE EndOfName
  BY <1>5, EndOfNameKeeps
<1>6. CASE SkipSegment
  BY <1>6, SkipSegmentKeeps
<1>7. CASE PopSegment
  BY <1>7, PopSegmentKeeps
<1>8. CASE PushSegment
  BY <1>8, PushSegmentKeeps
<1>9. CASE RefuseSegment
  BY <1>9, RefuseSegmentKeeps
<1>10. CASE Finish
  BY <1>10, FinishKeeps
<1>11. ASSUME NEW s \in Seq(Chars), NEW n \in 0..Cells, Call(s, n)
       PROVE  IInv'
  BY <1>11, CallKeeps
<1>12. CASE UNCHANGED vars
  BY <1>12, StutterKeeps
<1> QED
  BY <1>1, <1>2, <1>3, <1>4, <1>5, <1>6, <1>7, <1>8, <1>9, <1>10, <1>11, <1>12 DEF Next, Step

LEMMA Invariance == Spec => []IInv
BY InitEstablishes, Inductive, PTL DEF Spec

\* The variables of the cleaner keep their types, at and start stay in the text.
THEOREM TypeCorrect == Spec => []TypeOK
<1>1. IInv => TypeOK
  BY DEF IInv
<1> QED
  BY <1>1, Invariance, PTL

\* The stores of clean_path_into stay in the buffer, whatever it is given.
THEOREM StaysInBuffer == Spec => []NoOverrun
<1>1. IInv => NoOverrun
  BY DEF IInv
<1> QED
  BY <1>1, Invariance, PTL

\* seg_starts is never indexed past its end, and a buffer of PATH_MAX bytes or
\* less fills at most half of it.
THEOREM StackFits == Spec => []SegStartsFit
<1>1. IInv => SegStartsFit
  BY DEF IInv
<1> QED
  BY <1>1, Invariance, PTL

\* What clean_path_into leaves when it succeeds is a string without an empty
\* segment, absolute if its argument was.
THEOREM LeavesString == Spec => []CleanedIsString
<1>1. IInv => CleanedIsString
  BY DEF IInv
<1> QED
  BY <1>1, Invariance, PTL

\* No path that is shorter than the buffer is refused.
THEOREM NeverRefusesWhatFits == Spec => []TakesWhatFits
<1>1. IInv => TakesWhatFits
  BY DEF IInv
<1> QED
  BY <1>1, Invariance, PTL
=============================================================================
