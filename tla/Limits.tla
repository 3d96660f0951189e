------------------------------- MODULE Limits -------------------------------
(* limits.h: the size of every path buffer, shared by the models of the paths. *)
EXTENDS Naturals

CONSTANT PATH_MAX

ASSUME LimitsAssumption == PATH_MAX \in Nat \ {0}
=============================================================================
