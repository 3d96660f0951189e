----------------------------- MODULE PathCheck ------------------------------
(***************************************************************************)
(* Enumerates path texts, one token after the other, to check the lexical  *)
(* functions of PathText against the walk of the kernel (Places), and      *)
(* cleans each of them on bytes, in buffers of every size, to check the    *)
(* cleaner of PathText against the machine of CleanPath.                   *)
(***************************************************************************)
EXTENDS PathText, CleanPath, Places

CONSTANTS
  Sizes,      (* buffer sizes that the library gives clean_path_into          *)
  CwdSizes,   (* buffer sizes that the program gives getcwd                   *)
  Configs,    (* pairs of the strings REWRITE_FROM and REWRITE_TO             *)
  MaxLen,     (* bound on the tokens of an enumerated text                    *)
  MaxCleaned, (* bound on the tokens of a text that is cleaned on bytes       *)
  Letters     (* name -> its characters                                       *)

ASSUME PathCheckAssumption ==
  /\ Sizes \subseteq 0..PATH_MAX /\ Sizes \subseteq 0..Cells
  /\ CwdSizes \subseteq Nat
  /\ MaxLen \in Nat /\ MaxCleaned \in Nat
  /\ Configs \subseteq (Paths \cup {NULL}) \X (Paths \cup {NULL})
  /\ Letters \in [Names -> Seq(Chars \ {"/"})]
  /\ Letters["."] = <<".">> /\ Letters[".."] = <<".", ".">>
  /\ \A name \in Names : Len(Letters[name]) = Width[name]
  /\ \A n, m \in Names : <<n, m>> \in Begins <=> n # m /\ IsPrefix(Letters[n], Letters[m])

VARIABLE path

\* The bytes of a text.
Bytes(token) == IF token = "/" THEN <<"/">> ELSE Letters[token]
Spell(text)  == FoldLeft(LAMBDA bytes, token : bytes \o Bytes(token), <<>>, text)

CheckInit == path = <<>> /\ Init

AppendSlash ==
  /\ pc = "idle" /\ Len(path) < MaxLen
  /\ path' = Append(path, "/")
  /\ UNCHANGED vars

AppendName ==
  /\ pc = "idle" /\ Len(path) < MaxLen
  /\ path # <<>> => Last(path) = "/"
  /\ \E name \in Names : path' = Append(path, name)
  /\ UNCHANGED vars

Clean ==
  /\ Len(path) <= MaxCleaned
  /\ \E n \in Sizes : Call(Spell(path), n)
  /\ UNCHANGED path

CleanStep == Step /\ UNCHANGED path

CheckNext == AppendSlash \/ AppendName \/ Clean \/ CleanStep

CheckSpec == CheckInit /\ [][CheckNext]_<<path, vars>>

-----------------------------------------------------------------------------
Resolve(text) == Walk(<<>>, text)

Policies == {init_rewrite_policy(c[1], c[2]) : c \in Configs}

Idle == pc = "idle"

\* Cleaning an absolute path keeps what it names: the result is absolute and
\* leads where the kernel would have gone, whatever dots and slashes it had.
CleanIsLexical ==
  Idle /\ Absolute(path) =>
    \A n \in Sizes :
      LET cleaned == clean_path_into(path, n)
      IN cleaned # Fail => /\ Absolute(cleaned)
                           /\ Segments(cleaned) = Resolve(path)

\* An absolute path is rewritten exactly when it names something at or below
\* FROM, and then to the same thing below TO; one that merely starts with the
\* letters of FROM is left alone, and so is one that gets too long: with the NUL,
\* and the slash that cleaning leaves where a last ".." was.
RewriteIsMapping ==
  Idle /\ Absolute(path) =>
    \A policy \in Policies :
      LET from    == Segments(policy.from)
          to      == Segments(policy.to)
          mapped  == Carry(Resolve(path), from, to)
          cleaned == clean_path_into(path, PATH_MAX)
          result  == rewrite_absolute_path(policy, path)
      IN /\ result # Fail => /\ Under(Resolve(path), from) /\ Resolve(result) = mapped
                             /\ Length(result) + 1 <= PATH_MAX
         /\ result = Fail =>
              \/ ~ Under(Resolve(path), from)
              \/ Length(path) + 1 > PATH_MAX
              \/ Length(TextOf(mapped)) + 1 > PATH_MAX
              \/ Length(TextOf(mapped)) + 2 > PATH_MAX /\ Last(cleaned) = "/"

\* What getcwd answers for a directory outside FROM leads back to it when the
\* program gives it to chdir, whatever the size of its buffer, unless the name that
\* getcwd made overran its own: one below TO is called by its name below FROM, one
\* that shares letters with TO is not.
CwdRoundTrip ==
  Idle => \A policy \in Policies, size \in CwdSizes :
    LET here   == Resolve(path)
        cwd    == TextOf(here)
        seen   == getcwd_answer(policy, cwd, size)
        target == rewrite_absolute_path(policy, seen)
    IN /\ Length(cwd) < PATH_MAX /\ Length(cwd) < size
       /\ ~ Under(here, Segments(policy.from)) /\ ~ getcwd_overruns(policy, cwd, size)
       => /\ Length(seen) < size
          /\ Resolve(IF target = Fail THEN seen ELSE target) = here

\* Where the name below FROM has no room in the buffer that getcwd makes it in, the
\* answer of the real getcwd is passed on as it is.
CwdFallsThrough ==
  Idle => \A policy \in Policies, size \in CwdSizes :
    LET cwd == TextOf(Resolve(path))
    IN Length(cwd) < PATH_MAX /\ Length(cwd) < size => ~ getcwd_overruns(policy, cwd, size)

\* What the code leaves in the buffer, byte by byte, is what PathText says, and it
\* refuses exactly the texts that PathText refuses: the tokens of the other modules
\* hide nothing of the cleaner.
CleanerAgrees ==
  LET cleaned == clean_path_into(path, dst_len)
  IN /\ pc = "done" => /\ cleaned # Fail
                       /\ Spell(cleaned) = [i \in 1..out |-> dst[i - 1]]
     /\ pc = "failed" => cleaned = Fail
=============================================================================
