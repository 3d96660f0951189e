----------------------------- MODULE CleanPath ------------------------------
(***************************************************************************)
(* clean_path_into of rtld_linux.c on bytes: the walk of src along its     *)
(* text, the segments it finds, and every store into dst and seg_starts,   *)
(* with the offsets of the code. PathText says what comes out; here the    *)
(* question is where the code writes.                                      *)
(*                                                                         *)
(* dst is the memory from the buffer on, more of it than belongs to the    *)
(* buffer, so that a store past the end would be seen.                     *)
(***************************************************************************)
EXTENDS Limits, Sequences

CONSTANTS
  Chars,     (* characters a path is made of                               *)
  NUL,       (* the terminator                                             *)
  Junk,      (* what memory holds before it is written                     *)
  Cells      (* bytes of memory after the start of dst                     *)

ASSUME CleanPathAssumption ==
  /\ Cells \in Nat
  /\ {"/", "."} \subseteq Chars /\ NUL \notin Chars /\ Junk \notin Chars \cup {NUL}

VARIABLES
  pc,          (* "idle", "skip", "scan", "segment", "finish", "done", "failed" *)
  src,         (* the text, without its NUL                                *)
  dst_len,
  dst,         (* memory from dst on                                       *)
  at,          (* how far the pointer src has moved                        *)
  start,       (* where the segment begins                                 *)
  seg_starts,
  out          (* characters in dst                                        *)

vars == <<pc, src, dst_len, dst, at, start, seg_starts, out>>

Memory == 0..Cells

CharAt(i) == IF i < Len(src) THEN src[i + 1] ELSE NUL
absolute  == CharAt(0) = "/"
seg_len   == at - start

\* The store dst[i] = c.
Put(memory, i, c) == [memory EXCEPT ![i] = c]

Init ==
  /\ pc = "idle"
  /\ src = <<>> /\ dst_len = 0 /\ at = 0 /\ start = 0
  /\ dst = [i \in Memory |-> Junk]
  /\ seg_starts = <<>> /\ out = 0

\* Somebody cleans s into a buffer of n bytes. An absolute path gets its root at
\* once.
Call(s, n) ==
  LET rooted == s # <<>> /\ s[1] = "/"
      fits   == n # 0 /\ (rooted => n >= 2)
  IN /\ pc = "idle"
     /\ src' = s /\ dst_len' = n
     /\ pc' = IF fits THEN "skip" ELSE "failed"
     /\ dst' = IF fits /\ rooted THEN Put(dst, 0, "/") ELSE dst
     /\ out' = IF fits /\ rooted THEN 1 ELSE 0
     /\ UNCHANGED <<at, start, seg_starts>>

SkipSlash ==
  /\ pc = "skip" /\ CharAt(at) = "/"
  /\ at' = at + 1
  /\ UNCHANGED <<pc, src, dst_len, dst, start, seg_starts, out>>

EndOfText ==
  /\ pc = "skip" /\ CharAt(at) = NUL
  /\ pc' = "finish"
  /\ UNCHANGED <<src, dst_len, dst, at, start, seg_starts, out>>

StartSegment ==
  /\ pc = "skip" /\ CharAt(at) \notin {"/", NUL}
  /\ start' = at
  /\ pc' = "scan"
  /\ UNCHANGED <<src, dst_len, dst, at, seg_starts, out>>

\* Mutant of ScanName: only a slash ends a name.
ScanToSlash ==
  /\ pc = "scan" /\ CharAt(at) # "/"
  /\ at' = at + 1
  /\ UNCHANGED <<pc, src, dst_len, dst, start, seg_starts, out>>

ScanName ==
  /\ pc = "scan" /\ CharAt(at) \notin {"/", NUL}
  /\ at' = at + 1
  /\ UNCHANGED <<pc, src, dst_len, dst, start, seg_starts, out>>

EndOfName ==
  /\ pc = "scan" /\ CharAt(at) \in {"/", NUL}
  /\ pc' = "segment"
  /\ UNCHANGED <<src, dst_len, dst, at, start, seg_starts, out>>

Dot    == seg_len = 1 /\ CharAt(start) = "."
DotDot == seg_len = 2 /\ CharAt(start) = "." /\ CharAt(start + 1) = "."

\* ".", and ".." at the root, leave dst as it is.
SkipSegment ==
  /\ pc = "segment"
  /\ Dot \/ (DotDot /\ seg_starts = <<>> /\ absolute)
  /\ pc' = "skip"
  /\ UNCHANGED <<src, dst_len, dst, at, start, seg_starts, out>>

\* Mutants of PopSegment: the segment stays on the stack; the slash goes too.
CutSegment ==
  /\ pc = "segment" /\ DotDot /\ seg_starts # <<>>
  /\ out' = seg_starts[Len(seg_starts)]
  /\ pc' = "skip"
  /\ UNCHANGED <<src, dst_len, dst, at, start, seg_starts>>

PopSegmentAndSlash ==
  /\ pc = "segment" /\ DotDot /\ seg_starts # <<>>
  /\ LET cut == seg_starts[Len(seg_starts)]
     IN out' = IF cut > 1 THEN cut - 1 ELSE cut
  /\ seg_starts' = SubSeq(seg_starts, 1, Len(seg_starts) - 1)
  /\ pc' = "skip"
  /\ UNCHANGED <<src, dst_len, dst, at, start>>

\* ".." cuts dst where the last segment started, after the slash before it. An
\* absolute path would get its root back if that were cut too.
PopSegment ==
  /\ pc = "segment" /\ DotDot /\ seg_starts # <<>>
  /\ LET cut  == seg_starts[Len(seg_starts)]
         root == cut = 0 /\ absolute
     IN /\ dst' = IF root THEN Put(dst, 0, "/") ELSE dst
        /\ out' = IF root THEN 1 ELSE cut
  /\ seg_starts' = SubSeq(seg_starts, 1, Len(seg_starts) - 1)
  /\ pc' = "skip"
  /\ UNCHANGED <<src, dst_len, at, start>>

IsName == ~ Dot /\ (DotDot => seg_starts = <<>> /\ ~ absolute)

\* Mutant of NeedsSlash: the root, and a path that was cut, get a second slash.
NeedsSlashUnlessEmpty == out # 0

NeedsSlash == out # 0 /\ dst[out - 1] # "/"

\* Where the name goes.
name_at == IF NeedsSlash THEN out + 1 ELSE out

\* Mutants of NoRoom: no byte is kept for the NUL, and one byte too many is kept.
NoRoomForName ==
  \/ Len(seg_starts) >= PATH_MAX
  \/ NeedsSlash /\ out + 1 >= dst_len
  \/ name_at + seg_len > dst_len
NoRoomKeepingTwo ==
  \/ Len(seg_starts) >= PATH_MAX
  \/ NeedsSlash /\ out + 1 >= dst_len
  \/ name_at + seg_len + 1 >= dst_len

NoRoom ==
  \/ Len(seg_starts) >= PATH_MAX
  \/ NeedsSlash /\ out + 1 >= dst_len
  \/ name_at + seg_len >= dst_len

\* A name goes to the end of dst, after a slash if there is none.
PushSegment ==
  /\ pc = "segment" /\ IsName /\ ~ NoRoom
  /\ dst' = [i \in Memory |->
               IF NeedsSlash /\ i = out THEN "/"
               ELSE IF i >= name_at /\ i < name_at + seg_len THEN CharAt(start + (i - name_at))
               ELSE dst[i]]
  /\ seg_starts' = Append(seg_starts, name_at)
  /\ out' = name_at + seg_len
  /\ pc' = "skip"
  /\ UNCHANGED <<src, dst_len, at, start>>

\* The text is refused, after the slash was stored and the name counted if it was
\* not they that did not fit.
RefuseSegment ==
  LET counted == Len(seg_starts) < PATH_MAX /\ (NeedsSlash => out + 1 < dst_len)
  IN /\ pc = "segment" /\ IsName /\ NoRoom
     /\ dst' = IF counted /\ NeedsSlash THEN Put(dst, out, "/") ELSE dst
     /\ seg_starts' = IF counted THEN Append(seg_starts, name_at) ELSE seg_starts
     /\ out' = IF counted THEN name_at ELSE out
     /\ pc' = "failed"
     /\ UNCHANGED <<src, dst_len, at, start>>

\* An empty result is "/" or ".", and the NUL ends it.
Finish ==
  /\ pc = "finish"
  /\ LET empty == out = 0
         last  == IF empty THEN 1 ELSE out
     IN IF empty /\ dst_len < 2
        THEN pc' = "failed" /\ UNCHANGED <<dst, out>>
        ELSE /\ dst' = Put(IF empty THEN Put(dst, 0, IF absolute THEN "/" ELSE ".") ELSE dst,
                           last, NUL)
             /\ out' = last
             /\ pc' = "done"
  /\ UNCHANGED <<src, dst_len, at, start, seg_starts>>

Step == \/ SkipSlash \/ EndOfText \/ StartSegment \/ ScanName \/ EndOfName
        \/ SkipSegment \/ PopSegment \/ PushSegment \/ RefuseSegment \/ Finish

Next == Step \/ \E s \in Seq(Chars), n \in 0..Cells : Call(s, n)

Spec == Init /\ [][Next]_vars

-----------------------------------------------------------------------------
\* The types; src is never read beyond its NUL.
TypeOK ==
  /\ pc \in {"idle", "skip", "scan", "segment", "finish", "done", "failed"}
  /\ src \in Seq(Chars) /\ dst_len \in Nat
  /\ dst \in [Memory -> Chars \cup {NUL, Junk}]
  /\ at \in 0..Len(src) /\ start \in 0..Len(src)
  /\ seg_starts \in Seq(Nat) /\ out \in Nat

\* No store goes past the buffer: the bytes that follow it stay as they were,
\* however long the path and however short the buffer.
NoOverrun == \A i \in Memory : i >= dst_len => dst[i] = Junk

\* The stack of segments stays within its PATH_MAX entries, and in a buffer of
\* at most that size it never gets more than half full: the check on it is there
\* for larger buffers only.
SegStartsFit ==
  /\ Len(seg_starts) <= PATH_MAX
  /\ 2 * Len(seg_starts) <= dst_len + 1

\* What a successful call leaves is a string in the buffer: out characters, all
\* of them written by this call, and the NUL after them; absolute if the path
\* was, and without an empty segment.
CleanedIsString ==
  pc = "done" =>
    /\ out > 0 /\ out < dst_len
    /\ dst[out] = NUL
    /\ \A i \in 0..(out - 1) : dst[i] \in Chars
    /\ absolute => dst[0] = "/"
    /\ \A i \in 1..(out - 1) : dst[i] = "/" => dst[i - 1] # "/"

\* A path that is shorter than the buffer is never refused: whatever the kernel
\* would have taken is cleaned.
TakesWhatFits ==
  Len(src) < dst_len /\ 2 <= dst_len /\ dst_len <= PATH_MAX => pc # "failed"
=============================================================================
