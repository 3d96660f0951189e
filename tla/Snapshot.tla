------------------------------ MODULE Snapshot ------------------------------
(***************************************************************************)
(* What get_rewrite_policy promises, without once controls, stores or      *)
(* symbols: each process image has one configuration. It is taken in one   *)
(* step, from the environment as it is at that moment; once a call has     *)
(* been told it, every call of that image is told the same, also in the    *)
(* children forked from then on; a child forked earlier takes its own.     *)
(* Only a new image starts over.                                           *)
(***************************************************************************)
CONSTANTS
  Procs, Threads, NoProc,
  InitProc, InitThread,
  Envs,      (* values of the environment                                  *)
  Reading,   (* environment -> the configuration it stands for             *)
  Unset      (* no configuration yet                                       *)

VARIABLES
  home,      (* thread -> its process, or NoProc                           *)
  env,       (* process -> its environment                                 *)
  config,    (* process -> its configuration, or Unset                     *)
  settled,   (* processes -> has a call been told the configuration?       *)
  view       (* context -> what its call was told, or Unset                *)

vars == <<home, env, config, settled, view>>

Contexts == Threads \X {"main", "handler"}

Init ==
  /\ home = [t \in Threads |-> IF t = InitThread THEN InitProc ELSE NoProc]
  /\ \E e \in Envs : env = [p \in Procs |-> e]
  /\ config = [p \in Procs |-> Unset]
  /\ settled = [p \in Procs |-> FALSE]
  /\ view = [c \in Contexts |-> Unset]

\* The configuration is taken.
Take(p) ==
  /\ config[p] = Unset
  /\ config' = [config EXCEPT ![p] = Reading[env[p]]]
  /\ UNCHANGED <<home, env, settled, view>>

\* A call is told the configuration.
Tell(c) ==
  LET p == home[c[1]]
  IN /\ p # NoProc
     /\ config[p] # Unset
     /\ view' = [view EXCEPT ![c] = config[p]]
     /\ settled' = [settled EXCEPT ![p] = TRUE]
     /\ UNCHANGED <<home, env, config>>

\* The call returns.
Return(c) ==
  /\ view' = [view EXCEPT ![c] = Unset]
  /\ UNCHANGED <<home, env, config, settled>>

Spawn(t, new) ==
  /\ home[t] # NoProc /\ home[new] = NoProc
  /\ home' = [home EXCEPT ![new] = home[t]]
  /\ UNCHANGED <<env, config, settled, view>>

\* The child has the configuration of its parent if that was settled.
Fork(t, q, new) ==
  LET p == home[t]
  IN /\ p # NoProc /\ home[new] = NoProc
     /\ \A u \in Threads : home[u] # q
     /\ home' = [home EXCEPT ![new] = q]
     /\ env' = [env EXCEPT ![q] = env[p]]
     /\ config' = [config EXCEPT ![q] = IF settled[p] THEN config[p] ELSE Unset]
     /\ settled' = [settled EXCEPT ![q] = settled[p]]
     /\ UNCHANGED view

\* A new image of the process of thread t, with one thread and nothing taken.
Exec(t, e) ==
  LET p == home[t]
  IN /\ p # NoProc
     /\ home' = [u \in Threads |-> IF home[u] = p /\ u # t THEN NoProc ELSE home[u]]
     /\ env' = [env EXCEPT ![p] = e]
     /\ config' = [config EXCEPT ![p] = Unset]
     /\ settled' = [settled EXCEPT ![p] = FALSE]
     /\ view' = [c \in Contexts |-> IF home[c[1]] = p THEN Unset ELSE view[c]]

SetEnv(t, e) ==
  /\ home[t] # NoProc
  /\ env' = [env EXCEPT ![home[t]] = e]
  /\ UNCHANGED <<home, config, settled, view>>

Next ==
  \/ \E p \in Procs : Take(p)
  \/ \E c \in Contexts : Tell(c) \/ Return(c)
  \/ \E t, new \in Threads : Spawn(t, new)
  \/ \E t, new \in Threads, q \in Procs : Fork(t, q, new)
  \/ \E t \in Threads, e \in Envs : Exec(t, e) \/ SetEnv(t, e)

Spec == Init /\ [][Next]_vars
=============================================================================
