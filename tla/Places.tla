------------------------------- MODULE Places -------------------------------
(***************************************************************************)
(* Where things are, as the kernel sees it: a place is the sequence of     *)
(* names that leads to it from the root, free of ".", ".." and slashes.    *)
(* No directory is reached through a symbolic link, so ".." is one name    *)
(* less.                                                                   *)
(***************************************************************************)
EXTENDS Naturals, Sequences, SequencesExt

\* One token further; at the root ".." goes nowhere.
Onward(here, token) ==
  IF token \in {"/", "."} THEN here
  ELSE IF token # ".." THEN Append(here, token)
  ELSE IF here = <<>> THEN here ELSE Front(here)

\* From a place along a text.
Walk(place, text) ==
  LET here[i \in 0..Len(text)] ==
        IF i = 0 THEN place ELSE Onward(here[i - 1], text[i])
  IN here[Len(text)]

\* The absolute path the kernel gives for a place.
TextOf(place) ==
  IF place = <<>> THEN <<"/">>
  ELSE FoldLeft(LAMBDA text, name : text \o <<"/", name>>, <<>>, place)

Under(place, top) == IsPrefix(top, place)

\* The place that corresponds to one under old when old is seen as new.
Carry(place, old, new) ==
  IF Under(place, old) THEN new \o SubSeq(place, Len(old) + 1, Len(place)) ELSE place
=============================================================================
