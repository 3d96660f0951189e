------------------------------ MODULE LazyInit ------------------------------
(***************************************************************************)
(* The start-up protocol of the interposer (rtld_linux.c): the two         *)
(* pthread_once controls, resolve_once (the table of real libc symbols)    *)
(* and rewrite_once (the snapshot of the rewrite configuration), used by   *)
(* every intercepted call of every thread, in a process that may start     *)
(* threads, take signals, change its environment, fork and exec.           *)
(*                                                                         *)
(* A context is the code one thread is running: its main code or a signal  *)
(* handler on top of it, which must return before the main code goes on.   *)
(* The paths a call rewrites are the business of Interposer; here a call   *)
(* is the list of stages at which it touches the shared state.             *)
(***************************************************************************)
EXTENDS Naturals, Sequences

CONSTANTS
  Procs,        (* process images: the first one and the children fork makes *)
  Threads,      (* thread identifiers, used once each                        *)
  InitProc, InitThread,
  NoProc,       (* home of a thread that does not exist                      *)
  Envs,         (* values of the pair REWRITE_FROM, REWRITE_TO               *)
  ValidEnvs,    (* those that init_rewrite_policy accepts                    *)
  Blank,        (* contents of a policy field that was reset or never set    *)
  NSyms,        (* entries of the symbol table                               *)
  Available,    (* the entries dlsym finds in the next object                *)
  Calls,        (* kinds of call the program makes                           *)
  Signals       (* do signal handlers make intercepted calls?                *)

ASSUME LazyInitAssumption ==
  /\ InitProc \in Procs /\ InitThread \in Threads /\ NoProc \notin Procs
  /\ ValidEnvs \subseteq Envs /\ Blank \notin Envs
  /\ NSyms \in Nat /\ Available \subseteq 1..NSyms
  /\ Calls \subseteq {"fd", "absolute", "relative", "getcwd"}
  /\ Signals \in BOOLEAN

Contexts == Threads \X {"main", "handler"}
Onces    == {"rewrite", "resolve"}

\* The stages of a call that only needs the real symbol (close, read, ... and
\* a relative path given to a handler that rewrites absolute paths only).
FdCall == <<"resolve", "real">>

\* A handler given an absolute path: rewrite_absolute_path, then the orig_
\* function with its REQUIRE_SYMBOL.
AbsoluteCall == <<"rewrite", "use", "resolve", "real">>

\* Mutant of RelativeCall: the base directory is read without ensure_symbols.
RelativeCallUnresolved == <<"rewrite", "use", "base", "use", "resolve", "real">>

\* A handler that resolves a relative path: rewrite_relative_path_from_dirfd
\* asks for the policy, then for the symbols, reads the base directory through
\* one of them, and only then matches the prefix.
RelativeCall == <<"rewrite", "use", "resolve", "base", "use", "resolve", "real">>

\* getcwd calls the real function first and maps its answer back afterwards, if there
\* is one.
GetcwdCall == <<"resolve", "real", "rewrite", "use">>

Stages == [fd |-> FdCall, absolute |-> AbsoluteCall, relative |-> RelativeCall,
           getcwd |-> GetcwdCall]
Kinds  == {"fd", "absolute", "relative", "getcwd"}

PolicySteps == {"reset", "getenv", "from", "to", "lens", "enable", "set"}
SymbolSteps == {"dlsym", "resolved"}
Steps(o)    == IF o = "rewrite" THEN PolicySteps ELSE SymbolSteps
FirstStep(o) == IF o = "rewrite" THEN "reset" ELSE "dlsym"
LastStep(o)  == IF o = "rewrite" THEN "set" ELSE "resolved"

\* struct rewrite_policy; a field holds the environment its text came from.
Policies == [enabled : BOOLEAN, from : Envs \cup {Blank}, to : Envs \cup {Blank},
             lens : Envs \cup {Blank}]
Disabled == [enabled |-> FALSE, from |-> Blank, to |-> Blank, lens |-> Blank]

\* What a complete run of init_rewrite_policy makes of an environment.
PolicyOf(e) == IF e \in ValidEnvs
               THEN [enabled |-> TRUE, from |-> e, to |-> e, lens |-> e]
               ELSE Disabled

VARIABLES
  home,      (* thread -> its process, or NoProc                              *)
  env,       (* process -> its environment                                    *)
  fork_gen,  (* process -> libc's fork generation                             *)
  once,      (* process -> once control -> "new", "busy" or "done"            *)
  once_gen,  (* process -> once control -> the generation that made it "busy" *)
  policy,    (* process -> rewrite_policy                                     *)
  table,     (* process -> symbols whose real_ pointer is set                 *)
  kind,      (* context -> the kind of its call                               *)
  pos,       (* context -> its stage of the call; 0 outside a call            *)
  run,       (* context -> its step of an initialiser, or "out"               *)
  snap,      (* context -> what getenv gave to the initialiser                *)
  sym        (* context -> next symbol to resolve                             *)

memory == <<once, once_gen, policy, table>>
frames == <<kind, pos, run, snap, sym>>
vars   == <<home, env, fork_gen, memory, frames>>

ProcOf(c)  == home[c[1]]
StageOf(c) == Stages[kind[c]][pos[c]]
Last(c)    == Len(Stages[kind[c]])

\* c can take a step of its own: it is in a call, and not under a handler.
Scheduled(c) == /\ pos[c] > 0
                /\ c[2] = "main" => pos[<<c[1], "handler">>] = 0

At(c, stage) == Scheduled(c) /\ StageOf(c) = stage /\ run[c] = "out"

\* The call goes on at its i-th stage; after the last one it returns to the
\* program and its frame is gone.
GoTo(c, i) ==
  IF i > Last(c)
  THEN pos' = [pos EXCEPT ![c] = 0] /\ kind' = [kind EXCEPT ![c] = "fd"]
  ELSE pos' = [pos EXCEPT ![c] = i] /\ UNCHANGED kind

Advance(c) == GoTo(c, pos[c] + 1)

-----------------------------------------------------------------------------
Init ==
  /\ home = [t \in Threads |-> IF t = InitThread THEN InitProc ELSE NoProc]
  /\ \E e \in Envs : env = [p \in Procs |-> e]
  /\ fork_gen = [p \in Procs |-> 0]
  /\ once = [p \in Procs |-> [o \in Onces |-> "new"]]
  /\ once_gen = [p \in Procs |-> [o \in Onces |-> 0]]
  /\ policy = [p \in Procs |-> Disabled]
  /\ table = [p \in Procs |-> {}]
  /\ kind = [c \in Contexts |-> "fd"]
  /\ pos = [c \in Contexts |-> 0]
  /\ run = [c \in Contexts |-> "out"]
  /\ snap = [c \in Contexts |-> Blank]
  /\ sym = [c \in Contexts |-> 1]

\* The program calls an intercepted function. A handler may interrupt its
\* thread anywhere, in the middle of an initialiser too.
Call(c, k) ==
  /\ ProcOf(c) # NoProc
  /\ pos[c] = 0
  /\ c[2] = "main" => pos[<<c[1], "handler">>] = 0
  /\ c[2] = "handler" => Signals
  /\ kind' = [kind EXCEPT ![c] = k]
  /\ pos' = [pos EXCEPT ![c] = 1]
  /\ UNCHANGED <<home, env, fork_gen, memory, run, snap, sym>>

\* Mutant of OnceDone: a flag that is set when the initialiser starts.
OnceStarted(c, o) ==
  /\ At(c, o)
  /\ once[ProcOf(c)][o] # "new"
  /\ Advance(c)
  /\ UNCHANGED <<home, env, fork_gen, memory, run, snap, sym>>

\* pthread_once on a control that is done.
OnceDone(c, o) ==
  /\ At(c, o)
  /\ once[ProcOf(c)][o] = "done"
  /\ Advance(c)
  /\ UNCHANGED <<home, env, fork_gen, memory, run, snap, sym>>

\* Mutants of Claimable: a flag that is only set when the initialiser ends, and
\* a once control that knows nothing of fork.
ClaimableUntilDone(p, o) == once[p][o] # "done"
ClaimableIfNew(p, o)     == once[p][o] = "new"

\* May this process run the initialiser of o? pthread_once hands a control left
\* busy by a thread that fork did not copy to the first caller in the child.
Claimable(p, o) ==
  \/ once[p][o] = "new"
  \/ once[p][o] = "busy" /\ once_gen[p][o] # fork_gen[p]

\* pthread_once takes the control. A context that finds it busy in its own
\* generation has no step here: it waits.
OnceBegin(c, o) ==
  /\ At(c, o)
  /\ Claimable(ProcOf(c), o)
  /\ once' = [once EXCEPT ![ProcOf(c)][o] = "busy"]
  /\ once_gen' = [once_gen EXCEPT ![ProcOf(c)][o] = fork_gen[ProcOf(c)]]
  /\ run' = [run EXCEPT ![c] = FirstStep(o)]
  /\ UNCHANGED <<home, env, fork_gen, policy, table, kind, pos, snap, sym>>

\* pthread_once returns after the initialiser.
OnceEnd(c, o) ==
  /\ Scheduled(c) /\ run[c] = LastStep(o)
  /\ once' = [once EXCEPT ![ProcOf(c)][o] = "done"]
  /\ run' = [run EXCEPT ![c] = "out"]
  /\ snap' = [snap EXCEPT ![c] = Blank]
  /\ sym' = [sym EXCEPT ![c] = 1]
  /\ Advance(c)
  /\ UNCHANGED <<home, env, fork_gen, once_gen, policy, table>>

\* One step of init_rewrite_policy that stores pol and goes on at next.
PolicyStep(c, step, pol, next) ==
  /\ Scheduled(c) /\ run[c] = step
  /\ policy' = [policy EXCEPT ![ProcOf(c)] = pol]
  /\ run' = [run EXCEPT ![c] = next]
  /\ UNCHANGED <<home, env, fork_gen, once, once_gen, table, kind, pos, sym>>

ResetPolicy(c) == /\ PolicyStep(c, "reset", Disabled, "getenv")
                  /\ UNCHANGED snap

\* getenv, and every check up to the cleaned copies: an environment that is
\* missing, empty, relative or too long ends the initialiser here.
ReadEnvironment(c) ==
  LET e == env[ProcOf(c)]
  IN /\ PolicyStep(c, "getenv", policy[ProcOf(c)],
                   IF e \in ValidEnvs THEN "from" ELSE "set")
     /\ snap' = [snap EXCEPT ![c] = e]

StoreFrom(c) == /\ PolicyStep(c, "from", [policy[ProcOf(c)] EXCEPT !.from = snap[c]], "to")
                /\ UNCHANGED snap

\* Mutant of StoreTo: REWRITE_TO is looked up when it is stored.
StoreToLate(c) ==
  /\ PolicyStep(c, "to", [policy[ProcOf(c)] EXCEPT !.to = env[ProcOf(c)]], "lens")
  /\ UNCHANGED snap

StoreTo(c)   == /\ PolicyStep(c, "to", [policy[ProcOf(c)] EXCEPT !.to = snap[c]], "lens")
                /\ UNCHANGED snap
StoreLens(c) == /\ PolicyStep(c, "lens", [policy[ProcOf(c)] EXCEPT !.lens = snap[c]], "enable")
                /\ UNCHANGED snap
Enable(c)    == /\ PolicyStep(c, "enable", [policy[ProcOf(c)] EXCEPT !.enabled = TRUE], "set")
                /\ UNCHANGED snap

\* Mutant of ResolveSymbol: one symbol too many.
ResolveSymbolPastEnd(c) ==
  /\ Scheduled(c) /\ run[c] = "dlsym" /\ sym[c] <= NSyms + 1
  /\ table' = [table EXCEPT ![ProcOf(c)] = @ \cup ({sym[c]} \cap Available)]
  /\ sym' = [sym EXCEPT ![c] = @ + 1]
  /\ UNCHANGED <<home, env, fork_gen, once, once_gen, policy, kind, pos, run, snap>>

\* One dlsym of resolve_symbols; a symbol the next object lacks stays NULL.
ResolveSymbol(c) ==
  /\ Scheduled(c) /\ run[c] = "dlsym" /\ sym[c] <= NSyms
  /\ table' = [table EXCEPT ![ProcOf(c)] = @ \cup ({sym[c]} \cap Available)]
  /\ sym' = [sym EXCEPT ![c] = @ + 1]
  /\ UNCHANGED <<home, env, fork_gen, once, once_gen, policy, kind, pos, run, snap>>

SymbolsResolved(c) ==
  /\ Scheduled(c) /\ run[c] = "dlsym" /\ sym[c] > NSyms
  /\ run' = [run EXCEPT ![c] = "resolved"]
  /\ UNCHANGED <<home, env, fork_gen, memory, kind, pos, snap, sym>>

\* The handler reads rewrite_policy. Without a policy a path goes to the real
\* function as it is.
UsePolicy(c) ==
  /\ At(c, "use")
  /\ IF policy[ProcOf(c)].enabled \/ kind[c] = "getcwd"
     THEN Advance(c)
     ELSE GoTo(c, Last(c) - 1)
  /\ UNCHANGED <<home, env, fork_gen, memory, run, snap, sym>>

\* The base directory is read with real_getcwd or real_readlink; if that fails
\* the path goes to the real function as it is.
ReadBase(c) ==
  /\ At(c, "base")
  /\ \E next \in {pos[c] + 1, Last(c) - 1} : GoTo(c, next)
  /\ UNCHANGED <<home, env, fork_gen, memory, run, snap, sym>>

\* The call of the real function, or ENOSYS if its pointer is NULL. With it the call
\* is over, but for a getcwd whose real one succeeded.
RealCall(c) ==
  /\ At(c, "real")
  /\ \E next \in {pos[c] + 1, Last(c) + 1} : GoTo(c, next)
  /\ UNCHANGED <<home, env, fork_gen, memory, run, snap, sym>>

\* The real call is an execve that succeeds: a new image with fresh memory and
\* the environment it was given, in which only this thread goes on.
Exec(c, e) ==
  LET p == ProcOf(c)
  IN /\ At(c, "real") /\ kind[c] \in {"absolute", "relative"}
     /\ home' = [t \in Threads |-> IF home[t] = p /\ t # c[1] THEN NoProc ELSE home[t]]
     /\ env' = [env EXCEPT ![p] = e]
     /\ fork_gen' = [fork_gen EXCEPT ![p] = 0]
     /\ once' = [once EXCEPT ![p] = [o \in Onces |-> "new"]]
     /\ once_gen' = [once_gen EXCEPT ![p] = [o \in Onces |-> 0]]
     /\ policy' = [policy EXCEPT ![p] = Disabled]
     /\ table' = [table EXCEPT ![p] = {}]
     /\ kind' = [d \in Contexts |-> IF ProcOf(d) = p THEN "fd" ELSE kind[d]]
     /\ pos' = [d \in Contexts |-> IF ProcOf(d) = p THEN 0 ELSE pos[d]]
     /\ run' = [d \in Contexts |-> IF ProcOf(d) = p THEN "out" ELSE run[d]]
     /\ snap' = [d \in Contexts |-> IF ProcOf(d) = p THEN Blank ELSE snap[d]]
     /\ sym' = [d \in Contexts |-> IF ProcOf(d) = p THEN 1 ELSE sym[d]]

\* The program's main code, outside intercepted calls. A handler has no business with
\* what follows: pthread_create and setenv are not async-signal-safe, nor is fork any
\* more in POSIX.1-2024.
Free(t) == /\ home[t] # NoProc
           /\ \A m \in {"main", "handler"} : pos[<<t, m>>] = 0

Spawn(t, new) ==
  /\ Free(t) /\ home[new] = NoProc
  /\ home' = [home EXCEPT ![new] = home[t]]
  /\ UNCHANGED <<env, fork_gen, memory, frames>>

\* fork copies the memory of the process, half-initialised or not, and one of
\* its threads.
Fork(t, q, new) ==
  LET p == home[t]
  IN /\ Free(t) /\ home[new] = NoProc
     /\ \A u \in Threads : home[u] # q
     /\ q # p
     /\ home' = [home EXCEPT ![new] = q]
     /\ env' = [env EXCEPT ![q] = env[p]]
     /\ fork_gen' = [fork_gen EXCEPT ![q] = fork_gen[p] + 1]
     /\ once' = [once EXCEPT ![q] = once[p]]
     /\ once_gen' = [once_gen EXCEPT ![q] = once_gen[p]]
     /\ policy' = [policy EXCEPT ![q] = policy[p]]
     /\ table' = [table EXCEPT ![q] = table[p]]
     /\ UNCHANGED frames

\* setenv. ReadEnvironment reads both variables in one step, for C gives a
\* program no right to run setenv while another thread is between its getenvs.
SetEnv(t, e) ==
  /\ Free(t)
  /\ env' = [env EXCEPT ![home[t]] = e]
  /\ UNCHANGED <<home, fork_gen, memory, frames>>

OwnStep(c) ==
  \/ \E o \in Onces : OnceDone(c, o) \/ OnceBegin(c, o) \/ OnceEnd(c, o)
  \/ ResetPolicy(c) \/ ReadEnvironment(c)
  \/ StoreFrom(c) \/ StoreTo(c) \/ StoreLens(c) \/ Enable(c)
  \/ ResolveSymbol(c) \/ SymbolsResolved(c)
  \/ UsePolicy(c) \/ ReadBase(c) \/ RealCall(c)

Next ==
  \/ \E c \in Contexts : OwnStep(c)
  \/ \E c \in Contexts, k \in Calls : Call(c, k)
  \/ \E c \in Contexts, e \in Envs : Exec(c, e)
  \/ \E t, new \in Threads : Spawn(t, new)
  \/ \E t, new \in Threads, q \in Procs : Fork(t, q, new)
  \/ \E t \in Threads, e \in Envs : SetEnv(t, e)

Spec == Init /\ [][Next]_vars

\* A thread in a call keeps being scheduled; nothing makes a program call,
\* fork, exec or change its environment.
FairSpec == Spec /\ \A c \in Contexts : WF_vars(OwnStep(c))

-----------------------------------------------------------------------------
TypeOK ==
  /\ home \in [Threads -> Procs \cup {NoProc}]
  /\ env \in [Procs -> Envs]
  /\ fork_gen \in [Procs -> Nat]
  /\ once \in [Procs -> [Onces -> {"new", "busy", "done"}]]
  /\ once_gen \in [Procs -> [Onces -> Nat]]
  /\ policy \in [Procs -> Policies]
  /\ table \in [Procs -> SUBSET Available]
  /\ kind \in [Contexts -> Kinds]
  /\ pos \in [Contexts -> 0..7]
  /\ \A c \in Contexts : pos[c] <= Len(Stages[kind[c]])
  /\ run \in [Contexts -> PolicySteps \cup SymbolSteps \cup {"out"}]
  /\ snap \in [Contexts -> Envs \cup {Blank}]
  /\ sym \in [Contexts -> 1..(NSyms + 1)]

\* Two contexts of one process never run the same initialiser: the writes of
\* init_rewrite_policy and resolve_symbols do not race, after a fork either.
OneInitialiser ==
  \A c, d \in Contexts, o \in Onces :
    /\ ProcOf(c) = ProcOf(d) /\ ProcOf(c) # NoProc
    /\ run[c] \in Steps(o) /\ run[d] \in Steps(o)
    => c = d

\* Whoever reads the policy sees all of one environment or none of it: never a
\* prefix without its replacement or its length, in a forked child either.
PolicyNotTorn ==
  \A c \in Contexts :
    pos[c] > 0 /\ StageOf(c) = "use" =>
      policy[ProcOf(c)] \in {PolicyOf(e) : e \in Envs}

\* ENOSYS is never the answer of a race: a call looks at its real_ pointer only
\* when every symbol the next object has is in the table.
SymbolsComplete ==
  \A c \in Contexts :
    pos[c] > 0 /\ StageOf(c) \in {"base", "real"} => table[ProcOf(c)] = Available

\* The configuration is a snapshot: once a process image has one, no later call,
\* setenv, fork or interrupted initialiser changes it or takes it again. Only a
\* new image, whose control is new, starts over.
SnapshotStable ==
  [][\A p \in Procs : once[p]["rewrite"] = "done" /\ once'[p]["rewrite"] # "new"
        => policy'[p] = policy[p] /\ once'[p]["rewrite"] = "done"]_vars

\* Every intercepted call returns (or its thread ends with an exec).
CallsReturn == \A c \in Contexts : pos[c] > 0 ~> pos[c] = 0

\* c is blocked inside pthread_once.
Waiting(c, o) == /\ At(c, o)
                 /\ once[ProcOf(c)][o] # "done"
                 /\ ~ Claimable(ProcOf(c), o)

\* Nobody waits for an initialiser that nobody runs: whoever blocks in
\* pthread_once has the thread that will release it in its own process, also
\* when a fork left the control busy.
NoOrphanWait ==
  \A c \in Contexts, o \in Onces :
    ProcOf(c) # NoProc /\ Waiting(c, o) =>
      \E d \in Contexts : ProcOf(d) = ProcOf(c) /\ run[d] \in Steps(o)

\* No call of a signal handler waits for the code it interrupted.
NoSelfWait ==
  \A t \in Threads, o \in Onces :
    home[t] # NoProc /\ Waiting(<<t, "handler">>, o) => run[<<t, "main">>] \notin Steps(o)
=============================================================================
