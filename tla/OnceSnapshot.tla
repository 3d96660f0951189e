---------------------------- MODULE OnceSnapshot ----------------------------
(***************************************************************************)
(* How LazyInit implements Snapshot. The configuration of an image exists  *)
(* from the getenv of the initialiser on, seven stores before the control  *)
(* is done; it is what the thread in the initialiser read, and from then   *)
(* on what rewrite_policy holds. It is settled when the control is done.   *)
(***************************************************************************)
EXTENDS LazyInit

CONSTANT Unset   (* an image without a configuration *)

ASSUME UnsetAssumption == Unset \notin Policies

\* The contexts of p that have read the environment and are storing it.
Takers(p) == {c \in Contexts : /\ ProcOf(c) = p
                               /\ run[c] \in {"from", "to", "lens", "enable", "set"}}

OnlyOf(S) == CHOOSE c \in S : TRUE

settled == [p \in Procs |-> once[p]["rewrite"] = "done"]

ConfigOf(p) ==
  IF once[p]["rewrite"] = "done" THEN policy[p]
  ELSE IF Takers(p) # {} THEN PolicyOf(snap[OnlyOf(Takers(p))])
  ELSE Unset

config == [p \in Procs |-> ConfigOf(p)]

\* The call of c is past get_rewrite_policy.
Told(c) == \E i \in 1..(pos[c] - 1) : Stages[kind[c]][i] = "rewrite"

view == [c \in Contexts |-> IF Told(c) THEN policy[ProcOf(c)] ELSE Unset]

Once == INSTANCE Snapshot WITH Reading <- [e \in Envs |-> PolicyOf(e)]

\* The two once controls, the stores of init_rewrite_policy and the generations
\* of pthread_once implement a configuration that each image takes in one step.
TakesSnapshot == Once!Spec
=============================================================================
