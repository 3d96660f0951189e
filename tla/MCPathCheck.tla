---------------------------- MODULE MCPathCheck -----------------------------
(* Instances of PathCheck for TLC: short names, small buffers. *)
EXTENDS PathCheck

MCNames == {"a", "ab", ".", ".."}
MCWidth == [name \in MCNames |-> IF name \in {"a", "."} THEN 1 ELSE 2]
MCBegins == { <<"a", "ab">>, <<".", "..">> }
MCSizes == 0..12
MCCwdSizes == 0..16
MCLetters == [name \in MCNames |->
                IF name = "a" THEN <<"a">> ELSE IF name = "ab" THEN <<"a", "b">>
                ELSE IF name = "." THEN <<".">> ELSE <<".", ".">>]
MCChars == {"/", ".", "a", "b"}

\* Plain policies, one below the other, with dots, slashes and shared letters, and
\* one whose TO leaves room for the NUL only.
PlainConfigs ==
  { << <<"/", "a">>, <<"/", "ab">> >>,
    << <<"/", "a", "/", "ab", "/">>, <<"/", "/", "ab">> >>,
    << <<"/", "ab", "/", ".", "/", "ab">>, <<"/", "a", "/", "ab", "/", "a">> >>,
    << <<"/", "a">>, <<"/", "a", "/", "a">> >>,
    << <<"/", "ab", "/", "a">>, <<"/", "a">> >>,
    << <<"/", "a">>, <<"/", "ab", "/", "ab", "/", "ab", "/", "a">> >> }
=============================================================================
