----------------------------- MODULE MCLazyInit -----------------------------
(* Instances of LazyInit for TLC: one process image and its fork child. *)
EXTENDS OnceSnapshot

CONSTANTS parent, child, t1, t2, t3, e1, e2, bad, none, blank

MCProcs == {parent, child}
TwoThreads == {t1, t2}
ThreeThreads == {t1, t2, t3}
OneEnv == {e1}
TwoEnvs == {e1, e2}
ThreeEnvs == {e1, e2, bad}
FirstSymbol == {1}
=============================================================================
