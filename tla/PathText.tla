------------------------------ MODULE PathText ------------------------------
(***************************************************************************)
(* The lexical path functions of rtld_linux.c: cleaning, joining, matching *)
(* and substituting a prefix, and reading the policy from its two strings. *)
(*                                                                         *)
(* A text is a sequence of tokens: "/" and the names between slashes.      *)
(* Buffers are counted in characters, and the letters of a name may begin  *)
(* another one.                                                            *)
(***************************************************************************)
EXTENDS Limits, Sequences, SequencesExt

CONSTANTS
  Names,     (* what may stand between slashes, "." and ".." among them      *)
  Width,     (* name -> its number of characters                             *)
  Begins,    (* pairs of names, the letters of the first begin the second    *)
  NULL,      (* the null pointer                                             *)
  Fail       (* the result of a function that returns -1, or 0 for "no path" *)

\* The texts of paths, and the states of the cleaner, see CleanStart.
Paths     == Seq(Names \cup {"/"})
Cleanings == [out : Paths, starts : Seq(Nat), absolute : BOOLEAN, dst_len : Nat]

ASSUME PathTextAssumption ==
  /\ "/" \notin Names /\ {".", ".."} \subseteq Names
  /\ Width \in [Names -> Nat \ {0}]
  /\ \A pair \in Begins : pair \in Names \X Names /\ Width[pair[1]] < Width[pair[2]]
  /\ {NULL, Fail} \cap Paths = {} /\ Fail \notin Cleanings

Characters(token) == IF token = "/" THEN 1 ELSE Width[token]

\* strlen
Length(text) == FoldLeft(LAMBDA n, token : n + Characters(token), 0, text)

Absolute(text) == text # NULL /\ text # <<>> /\ text[1] = "/"

\* Two names never follow each other in a text that was cut at its slashes.
Tight(text) == \A i \in 1..(Len(text) - 1) : text[i] = "/" \/ text[i + 1] = "/"

\* The segments of a path: empty ones (repeated slashes) are skipped.
Segments(text) ==
  FoldLeft(LAMBDA names, token : IF token = "/" THEN names ELSE Append(names, token), <<>>, text)

-----------------------------------------------------------------------------
\* ".." takes the last segment away. The cut is where that segment started,
\* after the slash before it, which stays.
Pop(st) == [st EXCEPT !.out = SubSeq(@, 1, Last(st.starts)), !.starts = Front(@)]

\* A segment goes to the end of dst, after a slash if there is none.
Push(st, seg) ==
  LET slash == st.out # <<>> /\ Last(st.out) # "/"
      out   == IF slash THEN Append(st.out, "/") ELSE st.out
  IN IF \/ Len(st.starts) >= PATH_MAX
        \/ slash /\ Length(st.out) + 1 >= st.dst_len
        \/ Length(out) + Characters(seg) >= st.dst_len
     THEN Fail
     ELSE [st EXCEPT !.out = Append(out, seg), !.starts = Append(@, Len(out))]

\* Mutant of CleanSegment: ".." at the root is kept.
CleanSegmentAboveRoot(st, seg) ==
  IF st = Fail \/ seg = "." THEN st
  ELSE IF seg = ".." /\ st.starts # <<>> THEN Pop(st)
  ELSE Push(st, seg)

CleanSegment(st, seg) ==
  IF st = Fail \/ seg = "." THEN st
  ELSE IF seg = ".." /\ st.starts # <<>> THEN Pop(st)
  ELSE IF seg = ".." /\ st.absolute THEN st
  ELSE Push(st, seg)

\* What the cleaner has put into dst, and where each of its segments starts.
CleanStart(absolute, dst_len) ==
  [out |-> IF absolute THEN <<"/">> ELSE <<>>, starts |-> <<>>,
   absolute |-> absolute, dst_len |-> dst_len]

clean_path_into(src, dst_len) ==
  LET absolute == Absolute(src)
      end      == FoldLeft(CleanSegment, CleanStart(absolute, dst_len), Segments(src))
  IN IF src = NULL \/ dst_len = 0 \/ (absolute /\ dst_len < 2) \/ end = Fail THEN Fail
     ELSE IF end.out # <<>> THEN end.out
     ELSE IF dst_len < 2 THEN Fail ELSE <<".">>

join_and_clean_path(base, path, dst_len) ==
  IF base = NULL \/ path = NULL \/ Length(base) + 1 + Length(path) >= PATH_MAX
  THEN Fail
  ELSE clean_path_into(base \o <<"/">> \o path, dst_len)

-----------------------------------------------------------------------------
\* strncmp over the length of prefix; a mutant of path_matches_prefix too, the
\* one that takes /a/b2 for a path under /a/b.
SameCharacters(path, prefix) ==
  /\ Len(prefix) <= Len(path)
  /\ \A i \in DOMAIN prefix :
       \/ path[i] = prefix[i]
       \/ i = Len(prefix) /\ <<prefix[i], path[i]>> \in Begins

\* The character after the prefix ends the path or is a slash.
path_matches_prefix(path, prefix) ==
  /\ SameCharacters(path, prefix)
  /\ path[Len(prefix)] = Last(prefix)
  /\ Len(path) = Len(prefix) \/ path[Len(prefix) + 1] = "/"

\* The common body of substitute_prefix and substitute_prefix_reverse.
Substitute(policy, path, old, new, dst_len) ==
  LET suffix == SubSeq(path, Len(old) + 1, Len(path))
  IN IF \/ ~ policy.enabled
        \/ ~ path_matches_prefix(path, old)
        \/ Length(new) + Length(suffix) + 1 > dst_len
     THEN Fail
     ELSE new \o suffix

substitute_prefix(policy, path, dst_len) ==
  Substitute(policy, path, policy.from, policy.to, dst_len)

substitute_prefix_reverse(policy, path, dst_len) ==
  Substitute(policy, path, policy.to, policy.from, dst_len)

NoPolicy == [enabled |-> FALSE, from |-> <<>>, to |-> <<>>]

\* The policy of the strings REWRITE_FROM and REWRITE_TO; NULL if one is unset.
init_rewrite_policy(from_env, to_env) ==
  LET from == clean_path_into(from_env, PATH_MAX)
      to   == clean_path_into(to_env, PATH_MAX)
  IN IF Absolute(from_env) /\ Absolute(to_env) /\ from # Fail /\ to # Fail
     THEN [enabled |-> TRUE, from |-> from, to |-> to]
     ELSE NoPolicy

-----------------------------------------------------------------------------
\* Fail: the path goes to the real function as it is.
rewrite_absolute_path(policy, pathname) ==
  LET cleaned == clean_path_into(pathname, PATH_MAX)
  IN IF ~ Absolute(pathname) \/ ~ policy.enabled \/ cleaned = Fail THEN Fail
     ELSE substitute_prefix(policy, cleaned, PATH_MAX)

\* Mutant of rewrite_relative_path_from_dirfd: the base is matched, not what the
\* path resolves to.
RewriteBaseOnly(policy, cwd, base, pathname) ==
  LET start == IF base = Fail \/ ~ policy.enabled THEN Fail
               ELSE substitute_prefix(policy, base, PATH_MAX)
  IN IF pathname = NULL \/ Absolute(pathname) \/ start = Fail THEN Fail
     ELSE join_and_clean_path(start, pathname, PATH_MAX)

\* base is what real_getcwd said, or the readlink of /proc/self/fd/<dirfd>, and
\* Fail if that failed. Only a link that is an absolute path is a base.
rewrite_relative_path_from_dirfd(policy, cwd, base, pathname) ==
  LET start    == IF cwd THEN base
                  ELSE IF ~ Absolute(base) \/ Length(base) >= PATH_MAX - 1 THEN Fail
                  ELSE clean_path_into(base, PATH_MAX)
      resolved == join_and_clean_path(start, pathname, PATH_MAX)
  IN IF pathname = NULL \/ Absolute(pathname) \/ ~ policy.enabled THEN Fail
     ELSE IF base = Fail \/ start = Fail \/ resolved = Fail THEN Fail
     ELSE substitute_prefix(policy, resolved, PATH_MAX)

\* getcwd(buf, size) has the name that it makes of the real answer cwd written to an
\* array of PATH_MAX characters, but allows it those of buf: if that name is longer, the
\* code writes past the array, and anything may happen.
getcwd_overruns(policy, cwd, size) ==
  LET rewritten == substitute_prefix_reverse(policy, cwd, size)
  IN rewritten # Fail /\ Length(rewritten) + 1 > PATH_MAX

\* What it leaves in buf when nothing is overrun.
getcwd_answer(policy, cwd, size) ==
  LET rewritten == substitute_prefix_reverse(policy, cwd, size)
  IN IF rewritten = Fail \/ Length(rewritten) + 1 > size THEN cwd ELSE rewritten
=============================================================================
