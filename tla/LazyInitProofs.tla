-------------------------- MODULE LazyInitProofs ---------------------------
(***************************************************************************)
(* Proofs about LazyInit, for any number of threads, of processes, of      *)
(* environments and of symbols, with and without signal handlers.          *)
(*                                                                         *)
(* The properties are not inductive: they follow from IInv, which says who *)
(* may hold a once control (Ownership), what every step of an initialiser  *)
(* has done so far (PolicyBuilt, TableBuilt) and which initialisers are    *)
(* over at each stage of a call (StagesGuarded).                           *)
(***************************************************************************)
EXTENDS LazyInit, TLAPS

\* The stages of each kind of call that come after an initialiser is over.
After ==
  [rewrite |-> [fd |-> {}, absolute |-> {2, 3, 4}, relative |-> {2, 3, 4, 5, 6, 7},
                getcwd |-> {4}],
   resolve |-> [fd |-> {2}, absolute |-> {4}, relative |-> {4, 5, 7},
                getcwd |-> {2, 3, 4}]]

\* A context outside a call, or of no process, runs no initialiser; one that
\* does is at the stage that called it.
Frames ==
  \A c \in Contexts :
    /\ ProcOf(c) = NoProc => pos[c] = 0
    /\ pos[c] = 0 => run[c] = "out"
    /\ \A o \in Onces : run[c] \in Steps(o) => StageOf(c) = o
    /\ run[c] \notin SymbolSteps => sym[c] = 1

\* Whoever runs an initialiser holds its control in the current generation.
Ownership ==
  \A c \in Contexts, o \in Onces :
    run[c] \in Steps(o) => /\ once[ProcOf(c)][o] = "busy"
                           /\ once_gen[ProcOf(c)][o] = fork_gen[ProcOf(c)]

\* At each stage of a call the initialisers it relies on are over.
StagesGuarded ==
  \A c \in Contexts, o \in Onces :
    pos[c] \in After[o][kind[c]] => once[ProcOf(c)][o] = "done"

CompletePolicies == {PolicyOf(e) : e \in Envs}

\* What a once control that is done promises.
Initialised ==
  \A p \in Procs :
    /\ once[p]["rewrite"] = "done" => policy[p] \in CompletePolicies
    /\ once[p]["resolve"] = "done" => table[p] = Available

\* What init_rewrite_policy has stored when it reaches each of its steps: pol
\* is the policy so far, e what getenv returned.
Built(step, pol, e) ==
  /\ step \in {"from", "to", "lens", "enable"} => e \in ValidEnvs
  /\ step \in {"getenv", "from"} => pol = Disabled
  /\ step = "to"     => pol = [Disabled EXCEPT !.from = e]
  /\ step = "lens"   => pol = [Disabled EXCEPT !.from = e, !.to = e]
  /\ step = "enable" => pol = [Disabled EXCEPT !.from = e, !.to = e, !.lens = e]
  /\ step = "set"    => e \in Envs /\ pol = PolicyOf(e)

PolicyBuilt == \A c \in Contexts : Built(run[c], policy[ProcOf(c)], snap[c])

\* What resolve_symbols has stored when it reaches each of its steps.
TableBuilt ==
  \A c \in Contexts :
    /\ run[c] = "dlsym" => Available \cap 1..(sym[c] - 1) \subseteq table[ProcOf(c)]
    /\ run[c] = "resolved" => table[ProcOf(c)] = Available

\* A control is never busy in a generation of the future.
Generations == \A p \in Procs, o \in Onces : once_gen[p][o] <= fork_gen[p]

\* A control that is busy in the current generation of a live process has a
\* context in that process that will release it.
BusyIsRun ==
  \A t \in Threads, o \in Onces :
    home[t] # NoProc /\ once[home[t]][o] = "busy" /\ once_gen[home[t]][o] = fork_gen[home[t]]
      => \E d \in Contexts : ProcOf(d) = home[t] /\ run[d] \in Steps(o)

IInv ==
  /\ TypeOK
  /\ Frames
  /\ Ownership
  /\ OneInitialiser
  /\ StagesGuarded
  /\ Initialised
  /\ PolicyBuilt
  /\ TableBuilt
  /\ Generations
  /\ BusyIsRun

-----------------------------------------------------------------------------
\* What the lists of stages are made of.
LEMMA StageLists ==
  /\ \A k \in Kinds : Len(Stages[k]) \in {2, 4, 7}
  /\ \A k \in Kinds : \A i \in 1..Len(Stages[k]) :
       Stages[k][i] \in Onces \cup {"use", "base", "real"}
  /\ Stages["fd"] = FdCall
<1>1. DOMAIN Stages = Kinds
  BY DEF Stages, Kinds
<1>2. /\ Stages["fd"] = FdCall /\ Stages["absolute"] = AbsoluteCall
      /\ Stages["relative"] = RelativeCall /\ Stages["getcwd"] = GetcwdCall
  BY DEF Stages
<1>3. /\ Len(FdCall) = 2 /\ Len(AbsoluteCall) = 4
      /\ Len(RelativeCall) = 7 /\ Len(GetcwdCall) = 4
  BY DEF FdCall, AbsoluteCall, RelativeCall, GetcwdCall
<1>4. \A k \in Kinds : Len(Stages[k]) \in {2, 4, 7}
  BY <1>2, <1>3 DEF Kinds
<1>5. ASSUME NEW k \in Kinds, NEW i \in 1..Len(Stages[k])
      PROVE  Stages[k][i] \in Onces \cup {"use", "base", "real"}
  <2>1. CASE k = "fd"
    BY <2>1, <1>2, <1>3 DEF FdCall, Onces
  <2>2. CASE k = "absolute"
    BY <2>2, <1>2, <1>3 DEF AbsoluteCall, Onces
  <2>3. CASE k = "relative"
    BY <2>3, <1>2, <1>3 DEF RelativeCall, Onces
  <2>4. CASE k = "getcwd"
    BY <2>4, <1>2, <1>3 DEF GetcwdCall, Onces
  <2> QED
    BY <2>1, <2>2, <2>3, <2>4 DEF Kinds
<1> QED
  BY <1>2, <1>4, <1>5

\* Where GoTo can lead, and that it concerns one context only.
LEMMA GoToEffect ==
  ASSUME TypeOK, NEW c \in Contexts, NEW i \in 1..8, GoTo(c, i)
  PROVE  /\ pos' \in [Contexts -> 0..7]
         /\ kind' \in [Contexts -> Kinds]
         /\ \A d \in Contexts : pos'[d] <= Len(Stages[kind'[d]])
         /\ \A d \in Contexts : d # c => pos'[d] = pos[d] /\ kind'[d] = kind[d]
         /\ \/ pos'[c] = 0
            \/ pos'[c] = i /\ kind'[c] = kind[c] /\ i <= Last(c)
<1>a. /\ pos \in [Contexts -> 0..7] /\ kind \in [Contexts -> Kinds]
      /\ \A d \in Contexts : pos[d] <= Len(Stages[kind[d]])
  BY DEF TypeOK
<1>b. kind[c] \in Kinds /\ "fd" \in Kinds
  BY <1>a DEF Kinds
<1>1. Last(c) \in {2, 4, 7} /\ Len(Stages["fd"]) \in {2, 4, 7}
  BY <1>b, StageLists DEF Last
<1>2. CASE i > Last(c)
  <2>1. pos' = [pos EXCEPT ![c] = 0] /\ kind' = [kind EXCEPT ![c] = "fd"]
    BY <1>2 DEF GoTo
  <2> QED
    BY <2>1, <1>1, <1>a, <1>b
<1>3. CASE i <= Last(c)
  <2>1. pos' = [pos EXCEPT ![c] = i] /\ kind' = kind
    BY <1>1, <1>3 DEF GoTo
  <2>2. i \in 0..7
    BY <1>1, <1>3
  <2>3. i <= Last(c)
    BY <1>3
  <2>4. /\ pos' \in [Contexts -> 0..7] /\ kind' \in [Contexts -> Kinds]
        /\ pos'[c] = i /\ kind'[c] = kind[c]
        /\ \A d \in Contexts : d # c => pos'[d] = pos[d] /\ kind'[d] = kind[d]
    BY <2>1, <2>2, <1>a
  <2>5. \A d \in Contexts : pos'[d] <= Len(Stages[kind'[d]])
    BY <2>4, <2>3, <1>a DEF Last
  <2> QED
    BY <2>3, <2>4, <2>5
<1> QED
  BY <1>1, <1>2, <1>3

\* The types, one by one, of what belongs to a context and to its process.
LEMMA ContextTypes ==
  ASSUME TypeOK, NEW c \in Contexts
  PROVE  /\ c[1] \in Threads
         /\ ProcOf(c) \in Procs \cup {NoProc}
         /\ kind[c] \in Kinds /\ pos[c] \in 0..7 /\ pos[c] <= Last(c)
         /\ run[c] \in PolicySteps \cup SymbolSteps \cup {"out"}
         /\ snap[c] \in Envs \cup {Blank} /\ sym[c] \in 1..(NSyms + 1)
<1>1. c[1] \in Threads
  BY DEF Contexts
<1>2. ProcOf(c) \in Procs \cup {NoProc}
  BY <1>1 DEF TypeOK, ProcOf
<1>3. /\ kind[c] \in Kinds /\ pos[c] \in 0..7
      /\ run[c] \in PolicySteps \cup SymbolSteps \cup {"out"}
      /\ snap[c] \in Envs \cup {Blank} /\ sym[c] \in 1..(NSyms + 1)
  BY DEF TypeOK
<1>4. pos[c] <= Last(c)
  BY DEF TypeOK, Last
<1> QED
  BY <1>1, <1>2, <1>3, <1>4

\* A context that can move belongs to a process and is at a stage of its call.
LEMMA ScheduledContext ==
  ASSUME TypeOK, Frames, NEW c \in Contexts, Scheduled(c)
  PROVE  /\ ProcOf(c) \in Procs
         /\ pos[c] \in 1..Last(c) /\ Last(c) \in {2, 4, 7}
         /\ StageOf(c) \in Onces \cup {"use", "base", "real"}
<1>1. pos[c] > 0
  BY DEF Scheduled
<1>2. ProcOf(c) # NoProc
  BY <1>1 DEF Frames
<1>3. ProcOf(c) \in Procs /\ pos[c] \in 0..7 /\ pos[c] <= Last(c) /\ kind[c] \in Kinds
  BY <1>2, ContextTypes
<1>4. Last(c) \in {2, 4, 7}
  BY <1>3, StageLists DEF Last
<1>5. pos[c] \in 1..Last(c)
  BY <1>1, <1>3, <1>4
<1>6. StageOf(c) \in Onces \cup {"use", "base", "real"}
  BY <1>3, <1>5, StageLists DEF StageOf, Last
<1> QED
  BY <1>3, <1>4, <1>5, <1>6

\* A call gets past an initialiser only by waiting for it, also when it skips
\* to its last stages.
LEMMA StagesInOrder ==
  ASSUME NEW k \in Kinds, NEW i \in 1..Len(Stages[k]), NEW o \in Onces
  PROVE  /\ 1 \notin After[o][k] /\ 0 \notin After[o][k]
         /\ i + 1 \in After[o][k] => i \in After[o][k] \/ Stages[k][i] = o
         /\ Stages[k][i] = "use" => i \in After["rewrite"][k]
         /\ Stages[k][i] \in {"base", "real"} => i \in After["resolve"][k]
         /\ /\ (Stages[k][i] = "use" /\ k # "getcwd") \/ Stages[k][i] = "base"
            /\ Len(Stages[k]) - 1 \in After[o][k]
            => i \in After[o][k]
<1>1. CASE k = "fd"
  <2>1. Stages[k] = FdCall /\ Len(Stages[k]) = 2
    BY <1>1 DEF Stages, FdCall
  <2>2. i \in {1, 2}
    <3>1. i \in 1..2
      BY <2>1
    <3> QED
      BY <3>1
  <2>3. /\ Stages[k][1] = "resolve" /\ Stages[k][2] = "real"
    BY <2>1 DEF FdCall
  <2>4. After["rewrite"][k] = {} /\ After["resolve"][k] = {2}
    BY <1>1 DEF After
  <2>5. o = "rewrite" \/ o = "resolve"
    BY DEF Onces
  <2> QED
    BY <2>1, <2>2, <2>3, <2>4, <2>5, <1>1
<1>2. CASE k = "absolute"
  <2>1. Stages[k] = AbsoluteCall /\ Len(Stages[k]) = 4
    BY <1>2 DEF Stages, AbsoluteCall
  <2>2. i \in {1, 2, 3, 4}
    <3>1. i \in 1..4
      BY <2>1
    <3> QED
      BY <3>1
  <2>3. /\ Stages[k][1] = "rewrite" /\ Stages[k][2] = "use"
        /\ Stages[k][3] = "resolve" /\ Stages[k][4] = "real"
    BY <2>1 DEF AbsoluteCall
  <2>4. After["rewrite"][k] = {2, 3, 4} /\ After["resolve"][k] = {4}
    BY <1>2 DEF After
  <2>5. o = "rewrite" \/ o = "resolve"
    BY DEF Onces
  <2> QED
    BY <2>1, <2>2, <2>3, <2>4, <2>5, <1>2
<1>3. CASE k = "relative"
  <2>1. Stages[k] = RelativeCall /\ Len(Stages[k]) = 7
    BY <1>3 DEF Stages, RelativeCall
  <2>2. i \in {1, 2, 3, 4, 5, 6, 7}
    <3>1. i \in 1..7
      BY <2>1
    <3> QED
      BY <3>1
  <2>3. /\ Stages[k][1] = "rewrite" /\ Stages[k][2] = "use"
        /\ Stages[k][3] = "resolve" /\ Stages[k][4] = "base"
        /\ Stages[k][5] = "use" /\ Stages[k][6] = "resolve"
        /\ Stages[k][7] = "real"
    BY <2>1 DEF RelativeCall
  <2>4. After["rewrite"][k] = {2, 3, 4, 5, 6, 7} /\ After["resolve"][k] = {4, 5, 7}
    BY <1>3 DEF After
  <2>5. o = "rewrite" \/ o = "resolve"
    BY DEF Onces
  <2> QED
    BY <2>1, <2>2, <2>3, <2>4, <2>5, <1>3
<1>4. CASE k = "getcwd"
  <2>1. Stages[k] = GetcwdCall /\ Len(Stages[k]) = 4
    BY <1>4 DEF Stages, GetcwdCall
  <2>2. i \in {1, 2, 3, 4}
    <3>1. i \in 1..4
      BY <2>1
    <3> QED
      BY <3>1
  <2>3. /\ Stages[k][1] = "resolve" /\ Stages[k][2] = "real"
        /\ Stages[k][3] = "rewrite" /\ Stages[k][4] = "use"
    BY <2>1 DEF GetcwdCall
  <2>4. After["rewrite"][k] = {4} /\ After["resolve"][k] = {2, 3, 4}
    BY <1>4 DEF After
  <2>5. o = "rewrite" \/ o = "resolve"
    BY DEF Onces
  <2> QED
    BY <2>1, <2>2, <2>3, <2>4, <2>5, <1>4
<1> QED
  BY <1>1, <1>2, <1>3, <1>4 DEF Kinds

-----------------------------------------------------------------------------
\* The steps of a call outside the initialisers only move it along, to a stage
\* whose initialisers are over.
Move(c, i) ==
  /\ Scheduled(c) /\ run[c] = "out" /\ GoTo(c, i)
  /\ \A o \in Onces :
       i \in After[o][kind[c]] /\ i <= Last(c) => once[ProcOf(c)][o] = "done"
  /\ UNCHANGED <<home, env, fork_gen, memory, run, snap, sym>>

\* Every step of a call outside the initialisers is such a move.
LEMMA CallMoves ==
  ASSUME TypeOK, Frames, StagesGuarded, NEW c \in Contexts,
         (\E o \in Onces : OnceDone(c, o)) \/ UsePolicy(c) \/ ReadBase(c) \/ RealCall(c)
  PROVE  \E i \in 1..8 : Move(c, i)
<1>1. Scheduled(c) /\ run[c] = "out"
  BY DEF OnceDone, UsePolicy, ReadBase, RealCall, At
<1>2. UNCHANGED <<home, env, fork_gen, memory, run, snap, sym>>
  BY DEF OnceDone, UsePolicy, ReadBase, RealCall
<1>3. /\ pos[c] \in 1..Len(Stages[kind[c]]) /\ Last(c) \in {2, 4, 7}
      /\ kind[c] \in Kinds /\ Last(c) = Len(Stages[kind[c]])
      /\ StageOf(c) = Stages[kind[c]][pos[c]]
  BY <1>1, ScheduledContext, ContextTypes DEF Last, StageOf
<1>4. pos[c] + 1 \in 1..8 /\ Last(c) - 1 \in 1..8
  BY <1>3
<1>5. ASSUME NEW o \in Onces, pos[c] \in After[o][kind[c]]
      PROVE  once[ProcOf(c)][o] = "done"
  BY <1>5 DEF StagesGuarded
<1>6. CASE Advance(c)
  <2>1. ASSUME NEW o \in Onces, pos[c] + 1 \in After[o][kind[c]]
        PROVE  once[ProcOf(c)][o] = "done"
    <3>1. pos[c] \in After[o][kind[c]] \/ StageOf(c) = o
      BY <2>1, <1>3, StagesInOrder
    <3>2. CASE StageOf(c) = o
      <4>1. StageOf(c) \notin {"use", "base", "real"}
        BY <3>2 DEF Onces
      <4> QED
        BY <4>1, <3>2 DEF OnceDone, UsePolicy, ReadBase, RealCall, At
    <3> QED
      BY <3>1, <3>2, <1>5
  <2> QED
    BY <2>1, <1>1, <1>2, <1>4, <1>6 DEF Move, Advance
<1>7. CASE GoTo(c, Last(c) - 1) /\ ((UsePolicy(c) /\ kind[c] # "getcwd") \/ ReadBase(c))
  <2>1. (StageOf(c) = "use" /\ kind[c] # "getcwd") \/ StageOf(c) = "base"
    BY <1>7 DEF UsePolicy, ReadBase, At
  <2>2. ASSUME NEW o \in Onces, Last(c) - 1 \in After[o][kind[c]]
        PROVE  once[ProcOf(c)][o] = "done"
    BY <2>1, <2>2, <1>3, <1>5, StagesInOrder
  <2> QED
    BY <2>2, <1>1, <1>2, <1>4, <1>7 DEF Move
<1>8. CASE \E o \in Onces : OnceDone(c, o)
  BY <1>6, <1>8 DEF OnceDone
<1>9. CASE RealCall(c)
  <2>1. Last(c) + 1 \in 1..8 /\ ~ (Last(c) + 1 <= Last(c))
    <3> DEFINE last == Last(c)
    <3>1. last \in {2, 4, 7}
      BY <1>3
    <3> HIDE DEF last
    <3>2. last + 1 \in 1..8 /\ ~ (last + 1 <= last)
      BY <3>1
    <3> QED
      BY <3>2 DEF last
  <2>2. GoTo(c, Last(c) + 1) => Move(c, Last(c) + 1)
    BY <2>1, <1>1, <1>2 DEF Move
  <2> QED
    BY <2>1, <2>2, <1>6, <1>9 DEF RealCall, Advance
<1>10. CASE UsePolicy(c)
  <2>1. CASE policy[ProcOf(c)].enabled \/ kind[c] = "getcwd"
    BY <2>1, <1>6, <1>10 DEF UsePolicy
  <2>2. CASE ~ (policy[ProcOf(c)].enabled \/ kind[c] = "getcwd")
    BY <2>2, <1>7, <1>10 DEF UsePolicy
  <2> QED
    BY <2>1, <2>2
<1>11. CASE ReadBase(c)
  BY <1>6, <1>7, <1>11 DEF ReadBase, Advance
<1> QED
  BY <1>8, <1>9, <1>10, <1>11

\* A move disturbs StagesGuarded only, and goes where the controls allow it.
LEMMA MoveKeeps ==
  ASSUME IInv, NEW c \in Contexts, NEW i \in 1..8, Move(c, i)
  PROVE  IInv'
<1>1. /\ TypeOK /\ Frames /\ Ownership /\ OneInitialiser /\ StagesGuarded /\ Initialised
      /\ PolicyBuilt /\ TableBuilt /\ Generations /\ BusyIsRun
  BY DEF IInv
<1>2. /\ Scheduled(c) /\ run[c] = "out" /\ GoTo(c, i)
      /\ UNCHANGED <<home, env, fork_gen, once, once_gen, policy, table, run, snap, sym>>
  BY DEF Move, memory
<1>3. /\ pos' \in [Contexts -> 0..7] /\ kind' \in [Contexts -> Kinds]
      /\ \A d \in Contexts : pos'[d] <= Len(Stages[kind'[d]])
      /\ \A d \in Contexts : d # c => pos'[d] = pos[d] /\ kind'[d] = kind[d]
      /\ pos'[c] = 0 \/ (pos'[c] = i /\ kind'[c] = kind[c] /\ i <= Last(c))
  BY <1>1, <1>2, GoToEffect
<1>4. \A d \in Contexts : ProcOf(d)' = ProcOf(d)
  BY <1>2 DEF ProcOf
<1>5. pos[c] > 0 /\ ProcOf(c) # NoProc
  <2>1. pos[c] > 0
    BY <1>2 DEF Scheduled
  <2> QED
    BY <2>1, <1>1 DEF Frames
<1>6. TypeOK'
  BY <1>1, <1>2, <1>3 DEF TypeOK
<1>7. Frames'
  <2> SUFFICES ASSUME NEW d \in Contexts
               PROVE  /\ ProcOf(d)' = NoProc => pos'[d] = 0
                      /\ pos'[d] = 0 => run'[d] = "out"
                      /\ \A o \in Onces : run'[d] \in Steps(o) => StageOf(d)' = o
                      /\ run'[d] \notin SymbolSteps => sym'[d] = 1
    BY DEF Frames
  <2>1. CASE d = c
    BY <2>1, <1>1, <1>2, <1>4, <1>5
       DEF Frames, Steps, PolicySteps, SymbolSteps, Onces
  <2>2. CASE d # c
    <3>1. StageOf(d)' = StageOf(d)
      BY <2>2, <1>3 DEF StageOf
    <3> QED
      BY <2>2, <3>1, <1>1, <1>2, <1>3, <1>4 DEF Frames
  <2> QED
    BY <2>1, <2>2
<1>8. Ownership' /\ OneInitialiser' /\ Initialised' /\ Generations' /\ BusyIsRun'
  BY <1>1, <1>2, <1>4
     DEF Ownership, OneInitialiser, Initialised, Generations, BusyIsRun
<1>9. PolicyBuilt' /\ TableBuilt'
  BY <1>1, <1>2, <1>4 DEF PolicyBuilt, TableBuilt
<1>10. StagesGuarded'
  <2> SUFFICES ASSUME NEW d \in Contexts, NEW o \in Onces, pos'[d] \in After[o][kind'[d]]
               PROVE  once[ProcOf(d)][o] = "done"
    BY <1>2, <1>4 DEF StagesGuarded
  <2>1. CASE d # c
    BY <2>1, <1>1, <1>3 DEF StagesGuarded
  <2>2. CASE d = c /\ pos'[c] = 0
    <3>1. kind'[c] \in Kinds
      BY <1>3
    <3>2. \A n \in {2, 4, 7} : 1 \in 1..n
      OBVIOUS
    <3>3. 1 \in 1..Len(Stages[kind'[c]])
      BY <3>1, <3>2, StageLists
    <3>4. 0 \notin After[o][kind'[c]]
      BY <3>1, <3>3, StagesInOrder
    <3> QED
      BY <2>2, <3>4
  <2>3. CASE d = c /\ pos'[c] = i /\ kind'[c] = kind[c] /\ i <= Last(c)
    BY <2>3 DEF Move
  <2> QED
    BY <2>1, <2>2, <2>3, <1>3
<1> QED
  BY <1>6, <1>7, <1>8, <1>9, <1>10 DEF IInv

\* A new call starts at its first stage, which relies on no initialiser.
LEMMA CallKeeps ==
  ASSUME IInv, NEW c \in Contexts, NEW k \in Calls, Call(c, k)
  PROVE  IInv'
<1>1. /\ TypeOK /\ Frames /\ Ownership /\ OneInitialiser /\ StagesGuarded /\ Initialised
      /\ PolicyBuilt /\ TableBuilt /\ Generations /\ BusyIsRun
  BY DEF IInv
<1>2. /\ ProcOf(c) # NoProc /\ pos[c] = 0
      /\ kind' = [kind EXCEPT ![c] = k] /\ pos' = [pos EXCEPT ![c] = 1]
      /\ UNCHANGED <<home, env, fork_gen, once, once_gen, policy, table, run, snap, sym>>
  BY DEF Call, memory
<1>3. k \in Kinds
  BY LazyInitAssumption DEF Kinds
<1>4. /\ pos' \in [Contexts -> 0..7] /\ kind' \in [Contexts -> Kinds]
      /\ pos'[c] = 1 /\ kind'[c] = k
      /\ \A d \in Contexts : d # c => pos'[d] = pos[d] /\ kind'[d] = kind[d]
  BY <1>1, <1>2, <1>3 DEF TypeOK
<1>5. \A d \in Contexts : ProcOf(d)' = ProcOf(d)
  BY <1>2 DEF ProcOf
<1>6. run[c] = "out"
  BY <1>1, <1>2 DEF Frames
<1>7. 1 <= Len(Stages[k]) /\ 1 \in 1..Len(Stages[k])
  <2>1. \A n \in {2, 4, 7} : 1 <= n /\ 1 \in 1..n
    OBVIOUS
  <2> QED
    BY <1>3, <2>1, StageLists
<1>8. TypeOK'
  <2>1. \A d \in Contexts : pos'[d] <= Len(Stages[kind'[d]])
    BY <1>1, <1>4, <1>7 DEF TypeOK
  <2> QED
    BY <2>1, <1>1, <1>2, <1>4 DEF TypeOK
<1>9. Frames'
  <2> SUFFICES ASSUME NEW d \in Contexts
               PROVE  /\ ProcOf(d)' = NoProc => pos'[d] = 0
                      /\ pos'[d] = 0 => run'[d] = "out"
                      /\ \A o \in Onces : run'[d] \in Steps(o) => StageOf(d)' = o
                      /\ run'[d] \notin SymbolSteps => sym'[d] = 1
    BY DEF Frames
  <2>1. CASE d = c
    BY <2>1, <1>1, <1>2, <1>4, <1>5, <1>6
       DEF Frames, Steps, PolicySteps, SymbolSteps, Onces
  <2>2. CASE d # c
    <3>1. StageOf(d)' = StageOf(d)
      BY <2>2, <1>4 DEF StageOf
    <3> QED
      BY <2>2, <3>1, <1>1, <1>2, <1>4, <1>5 DEF Frames
  <2> QED
    BY <2>1, <2>2
<1>10. Ownership' /\ OneInitialiser' /\ Initialised' /\ Generations' /\ BusyIsRun'
  BY <1>1, <1>2, <1>5
     DEF Ownership, OneInitialiser, Initialised, Generations, BusyIsRun
<1>11. PolicyBuilt' /\ TableBuilt'
  BY <1>1, <1>2, <1>5 DEF PolicyBuilt, TableBuilt
<1>12. StagesGuarded'
  <2> SUFFICES ASSUME NEW d \in Contexts, NEW o \in Onces, pos'[d] \in After[o][kind'[d]]
               PROVE  once[ProcOf(d)][o] = "done"
    BY <1>2, <1>5 DEF StagesGuarded
  <2>1. CASE d # c
    BY <2>1, <1>1, <1>4 DEF StagesGuarded
  <2>2. CASE d = c
    <3>1. 1 \notin After[o][k]
      BY <1>3, <1>7, StagesInOrder
    <3> QED
      BY <2>2, <3>1, <1>4
  <2> QED
    BY <2>1, <2>2
<1> QED
  BY <1>8, <1>9, <1>10, <1>11, <1>12 DEF IInv

\* Taking a control that nobody of this generation holds makes its taker the
\* only one to run the initialiser.
LEMMA OnceBeginKeeps ==
  ASSUME IInv, NEW c \in Contexts, NEW o \in Onces, OnceBegin(c, o)
  PROVE  IInv'
<1> DEFINE p == ProcOf(c)
<1>1. /\ TypeOK /\ Frames /\ Ownership /\ OneInitialiser /\ StagesGuarded /\ Initialised
      /\ PolicyBuilt /\ TableBuilt /\ Generations /\ BusyIsRun
  BY DEF IInv
<1>2. /\ Scheduled(c) /\ StageOf(c) = o /\ run[c] = "out" /\ Claimable(p, o)
      /\ once' = [once EXCEPT ![p][o] = "busy"]
      /\ once_gen' = [once_gen EXCEPT ![p][o] = fork_gen[p]]
      /\ run' = [run EXCEPT ![c] = FirstStep(o)]
      /\ UNCHANGED <<home, env, fork_gen, policy, table, kind, pos, snap, sym>>
  BY DEF OnceBegin, At
<1>3. p \in Procs /\ pos[c] > 0
  BY <1>1, <1>2, ScheduledContext DEF Scheduled
<1>4. \A d \in Contexts : ProcOf(d)' = ProcOf(d) /\ StageOf(d)' = StageOf(d)
  BY <1>2 DEF ProcOf, StageOf
<1>5. /\ o \in {"rewrite", "resolve"}
      /\ FirstStep(o) \in Steps(o) /\ FirstStep(o) # "out"
      /\ \A x \in Onces : x # o => FirstStep(o) \notin Steps(x)
      /\ o = "rewrite" => FirstStep(o) = "reset"
      /\ o = "resolve" => FirstStep(o) = "dlsym"
  BY DEF FirstStep, Steps, PolicySteps, SymbolSteps, Onces
<1>6. /\ run'[c] = FirstStep(o)
      /\ \A d \in Contexts : d # c => run'[d] = run[d]
      /\ run' \in [Contexts -> PolicySteps \cup SymbolSteps \cup {"out"}]
  <2>1. FirstStep(o) \in PolicySteps \cup SymbolSteps
    BY <1>5 DEF Steps
  <2> QED
    BY <2>1, <1>1, <1>2 DEF TypeOK
<1>7. /\ once' \in [Procs -> [Onces -> {"new", "busy", "done"}]]
      /\ once_gen' \in [Procs -> [Onces -> Nat]]
      /\ once'[p][o] = "busy" /\ once_gen'[p][o] = fork_gen[p]
      /\ \A q \in Procs, x \in Onces :
           q # p \/ x # o => once'[q][x] = once[q][x] /\ once_gen'[q][x] = once_gen[q][x]
  BY <1>1, <1>2, <1>3 DEF TypeOK
<1>8. \A d \in Contexts : run[d] \in Steps(o) => ProcOf(d) # p
  BY <1>1, <1>2 DEF Ownership, Claimable
<1>9. \A d \in Contexts, x \in Onces : run[d] \in Steps(x) => ProcOf(d) \in Procs
  <2> SUFFICES ASSUME NEW d \in Contexts, NEW x \in Onces, run[d] \in Steps(x)
               PROVE  ProcOf(d) \in Procs
    OBVIOUS
  <2>1. run[d] # "out"
    BY DEF Steps, PolicySteps, SymbolSteps
  <2>2. ProcOf(d) # NoProc
    BY <2>1, <1>1 DEF Frames
  <2> QED
    BY <2>2, <1>1, ContextTypes
<1>10. TypeOK'
  BY <1>1, <1>2, <1>6, <1>7 DEF TypeOK
<1>11. Frames'
  <2> SUFFICES ASSUME NEW d \in Contexts
               PROVE  /\ ProcOf(d)' = NoProc => pos'[d] = 0
                      /\ pos'[d] = 0 => run'[d] = "out"
                      /\ \A x \in Onces : run'[d] \in Steps(x) => StageOf(d)' = x
                      /\ run'[d] \notin SymbolSteps => sym'[d] = 1
    BY DEF Frames
  <2>1. CASE d # c
    BY <2>1, <1>1, <1>2, <1>4, <1>6 DEF Frames
  <2>2. CASE d = c
    <3>1. sym[c] = 1
      BY <1>1, <1>2 DEF Frames, SymbolSteps
    <3> QED
      BY <2>2, <3>1, <1>1, <1>2, <1>3, <1>4, <1>5, <1>6 DEF Frames
  <2> QED
    BY <2>1, <2>2
<1>12. Ownership'
  BY <1>1, <1>2, <1>4, <1>5, <1>6, <1>7, <1>8, <1>9 DEF Ownership
<1>13. OneInitialiser'
  BY <1>1, <1>2, <1>4, <1>5, <1>6, <1>8 DEF OneInitialiser
<1>14. Generations'
  <2>1. fork_gen[p] <= fork_gen[p]
    BY <1>1, <1>3 DEF TypeOK
  <2> QED
    BY <2>1, <1>1, <1>2, <1>7 DEF Generations
<1>15. BusyIsRun'
  <2> SUFFICES ASSUME NEW t \in Threads, NEW x \in Onces, home[t] # NoProc,
                      once'[home[t]][x] = "busy", once_gen'[home[t]][x] = fork_gen[home[t]]
               PROVE  \E d \in Contexts : ProcOf(d) = home[t] /\ run'[d] \in Steps(x)
    BY <1>2, <1>4 DEF BusyIsRun
  <2>1. CASE home[t] = p /\ x = o
    BY <2>1, <1>5, <1>6
  <2>2. CASE home[t] # p \/ x # o
    <3>1. home[t] \in Procs
      BY <1>1 DEF TypeOK
    <3>2. PICK d \in Contexts : ProcOf(d) = home[t] /\ run[d] \in Steps(x)
      BY <2>2, <3>1, <1>1, <1>7 DEF BusyIsRun
    <3>3. d # c
      BY <3>2, <1>2 DEF Steps, PolicySteps, SymbolSteps
    <3> QED
      BY <3>2, <3>3, <1>6
  <2> QED
    BY <2>1, <2>2
<1>16. StagesGuarded' /\ Initialised'
  <2>1. \A q \in Procs, x \in Onces : once[q][x] = "done" <=> once'[q][x] = "done"
    BY <1>2, <1>7 DEF Claimable
  <2>2. Initialised'
    BY <2>1, <1>1, <1>2 DEF Initialised, Onces
  <2>3. ASSUME NEW d \in Contexts, NEW x \in Onces, pos[d] \in After[x][kind[d]]
        PROVE  once'[ProcOf(d)][x] = "done"
    <3>1. once[ProcOf(d)][x] = "done"
      BY <2>3, <1>1 DEF StagesGuarded
    <3>2. ProcOf(d) \in Procs \cup {NoProc}
      BY <1>1, ContextTypes
    <3>3. CASE ProcOf(d) \in Procs
      BY <3>1, <3>3, <2>1
    <3>4. CASE ProcOf(d) = NoProc
      BY <3>1, <3>4, <1>2, <1>3, LazyInitAssumption, <1>1 DEF TypeOK
    <3> QED
      BY <3>2, <3>3, <3>4
  <2> QED
    BY <2>2, <2>3, <1>2, <1>4 DEF StagesGuarded
<1>17. PolicyBuilt'
  <2>1. run'[c] \in {"reset", "dlsym"}
    BY <1>5, <1>6
  <2>2. ASSUME NEW d \in Contexts
        PROVE  Built(run'[d], policy'[ProcOf(d)'], snap'[d])
    <3>1. CASE d = c
      BY <2>1, <3>1 DEF Built
    <3>2. CASE d # c
      BY <3>2, <1>1, <1>2, <1>4, <1>6 DEF PolicyBuilt
    <3> QED
      BY <3>1, <3>2
  <2> QED
    BY <2>2 DEF PolicyBuilt
<1>18. TableBuilt'
  <2>1. sym[c] = 1 /\ run'[c] # "resolved"
    BY <1>1, <1>2, <1>5, <1>6 DEF Frames, SymbolSteps
  <2>2. Available \cap 1..(1 - 1) = {}
    OBVIOUS
  <2> QED
    BY <2>1, <2>2, <1>1, <1>2, <1>4, <1>6 DEF TableBuilt
<1> QED
  BY <1>18, <1>10, <1>11, <1>12, <1>13, <1>14, <1>15, <1>16, <1>17 DEF IInv

\* Releasing a control: what the initialiser stored is complete.
LEMMA OnceEndKeeps ==
  ASSUME IInv, NEW c \in Contexts, NEW o \in Onces, OnceEnd(c, o)
  PROVE  IInv'
<1> DEFINE p == ProcOf(c)
<1>1. /\ TypeOK /\ Frames /\ Ownership /\ OneInitialiser /\ StagesGuarded /\ Initialised
      /\ PolicyBuilt /\ TableBuilt /\ Generations /\ BusyIsRun
  BY DEF IInv
<1>2. /\ Scheduled(c) /\ run[c] = LastStep(o) /\ Advance(c)
      /\ once' = [once EXCEPT ![p][o] = "done"]
      /\ run' = [run EXCEPT ![c] = "out"]
      /\ snap' = [snap EXCEPT ![c] = Blank]
      /\ sym' = [sym EXCEPT ![c] = 1]
      /\ UNCHANGED <<home, env, fork_gen, once_gen, policy, table>>
  BY DEF OnceEnd
<1>3. /\ LastStep(o) \in Steps(o) /\ "out" \notin SymbolSteps
      /\ \A x \in Onces : "out" \notin Steps(x) /\ (LastStep(o) \in Steps(x) => x = o)
      /\ o = "rewrite" => LastStep(o) = "set"
      /\ o = "resolve" => LastStep(o) = "resolved"
  BY DEF LastStep, Steps, PolicySteps, SymbolSteps, Onces
<1>4. /\ p \in Procs /\ pos[c] > 0 /\ kind[c] \in Kinds
      /\ pos[c] \in 1..Last(c) /\ Last(c) \in {2, 4, 7} /\ Last(c) = Len(Stages[kind[c]])
  BY <1>1, <1>2, ScheduledContext, ContextTypes DEF Scheduled, Last
<1>5. /\ pos' \in [Contexts -> 0..7] /\ kind' \in [Contexts -> Kinds]
      /\ \A d \in Contexts : pos'[d] <= Len(Stages[kind'[d]])
      /\ \A d \in Contexts : d # c => pos'[d] = pos[d] /\ kind'[d] = kind[d]
      /\ pos'[c] = 0 \/ (pos'[c] = pos[c] + 1 /\ kind'[c] = kind[c])
  <2>1. \A n \in {2, 4, 7} : \A j \in 1..n : j + 1 \in 1..8
    OBVIOUS
  <2>2. pos[c] + 1 \in 1..8 /\ GoTo(c, pos[c] + 1)
    BY <2>1, <1>2, <1>4 DEF Advance
  <2> QED
    BY <1>1, <2>2, GoToEffect
<1>6. /\ \A d \in Contexts : ProcOf(d)' = ProcOf(d)
      /\ \A d \in Contexts : d # c => StageOf(d)' = StageOf(d)
  BY <1>2, <1>5 DEF ProcOf, StageOf
<1>7. StageOf(c) = o /\ once[p][o] = "busy"
  BY <1>1, <1>2, <1>3 DEF Frames, Ownership
<1>8. /\ run'[c] = "out" /\ snap'[c] = Blank /\ sym'[c] = 1
      /\ \A d \in Contexts : d # c => run'[d] = run[d] /\ snap'[d] = snap[d] /\ sym'[d] = sym[d]
  BY <1>1, <1>2 DEF TypeOK
<1>9. /\ once' \in [Procs -> [Onces -> {"new", "busy", "done"}]]
      /\ once'[p][o] = "done"
      /\ \A q \in Procs, x \in Onces : q # p \/ x # o => once'[q][x] = once[q][x]
  BY <1>1, <1>2, <1>4 DEF TypeOK
<1>10. \A d \in Contexts : d # c /\ run[d] \in Steps(o) => ProcOf(d) # p
  BY <1>1, <1>2, <1>3, <1>4, LazyInitAssumption DEF OneInitialiser
<1>11. \A d \in Contexts, x \in Onces : run[d] \in Steps(x) => ProcOf(d) \in Procs
  <2> SUFFICES ASSUME NEW d \in Contexts, NEW x \in Onces, run[d] \in Steps(x)
               PROVE  ProcOf(d) \in Procs
    OBVIOUS
  <2>1. ProcOf(d) # NoProc
    BY <1>1, <1>3 DEF Frames
  <2> QED
    BY <2>1, <1>1, ContextTypes
<1>12. TypeOK'
  <2>1. /\ run' \in [Contexts -> PolicySteps \cup SymbolSteps \cup {"out"}]
        /\ snap' \in [Contexts -> Envs \cup {Blank}]
    BY <1>1, <1>2 DEF TypeOK
  <2>2. sym' \in [Contexts -> 1..(NSyms + 1)]
    BY <1>1, <1>2, LazyInitAssumption DEF TypeOK
  <2> QED
    BY <2>1, <2>2, <1>1, <1>2, <1>5, <1>9 DEF TypeOK
<1>13. Frames'
  <2> SUFFICES ASSUME NEW d \in Contexts
               PROVE  /\ ProcOf(d)' = NoProc => pos'[d] = 0
                      /\ pos'[d] = 0 => run'[d] = "out"
                      /\ \A x \in Onces : run'[d] \in Steps(x) => StageOf(d)' = x
                      /\ run'[d] \notin SymbolSteps => sym'[d] = 1
    BY DEF Frames
  <2>1. CASE d # c
    BY <2>1, <1>1, <1>5, <1>6, <1>8 DEF Frames
  <2>2. CASE d = c
    BY <2>2, <1>3, <1>4, <1>6, <1>8, LazyInitAssumption
  <2> QED
    BY <2>1, <2>2
<1>14. Ownership'
  BY <1>1, <1>2, <1>3, <1>6, <1>8, <1>9, <1>10, <1>11 DEF Ownership
<1>15. OneInitialiser' /\ Generations'
  BY <1>1, <1>2, <1>3, <1>6, <1>8 DEF OneInitialiser, Generations
<1>16. BusyIsRun'
  <2> SUFFICES ASSUME NEW t \in Threads, NEW x \in Onces, home[t] # NoProc,
                      once'[home[t]][x] = "busy", once_gen[home[t]][x] = fork_gen[home[t]]
               PROVE  \E d \in Contexts : ProcOf(d) = home[t] /\ run'[d] \in Steps(x)
    BY <1>2, <1>6 DEF BusyIsRun
  <2>1. home[t] \in Procs
    BY <1>1 DEF TypeOK
  <2>2. home[t] # p \/ x # o
    BY <1>9
  <2>3. PICK d \in Contexts : ProcOf(d) = home[t] /\ run[d] \in Steps(x)
    BY <2>1, <2>2, <1>1, <1>9 DEF BusyIsRun
  <2>4. d # c
    BY <2>2, <2>3, <1>2, <1>3
  <2> QED
    BY <2>3, <2>4, <1>8
<1>17. Initialised'
  <2>1. o = "rewrite" => policy[p] \in CompletePolicies
    BY <1>1, <1>2, <1>3 DEF PolicyBuilt, Built, CompletePolicies
  <2>2. o = "resolve" => table[p] = Available
    BY <1>1, <1>2, <1>3 DEF TableBuilt
  <2> QED
    BY <2>1, <2>2, <1>1, <1>2, <1>9 DEF Initialised, Onces
<1>18. PolicyBuilt' /\ TableBuilt'
  <2>1. Built("out", policy[p], Blank)
    BY DEF Built
  <2>2. PolicyBuilt'
    BY <2>1, <1>1, <1>2, <1>6, <1>8 DEF PolicyBuilt
  <2>3. TableBuilt'
    BY <1>1, <1>2, <1>6, <1>8 DEF TableBuilt
  <2> QED
    BY <2>2, <2>3
<1>19. StagesGuarded'
  <2> SUFFICES ASSUME NEW d \in Contexts, NEW x \in Onces, pos'[d] \in After[x][kind'[d]]
               PROVE  once'[ProcOf(d)][x] = "done"
    BY <1>6 DEF StagesGuarded
  <2>1. once[ProcOf(d)][x] = "done" => once'[ProcOf(d)][x] = "done"
    <3>1. CASE ProcOf(d) \in Procs
      BY <3>1, <1>9
    <3>2. CASE ProcOf(d) = NoProc
      BY <3>2, <1>2, <1>4, LazyInitAssumption, <1>1 DEF TypeOK
    <3> QED
      BY <3>1, <3>2, <1>1, ContextTypes
  <2>2. CASE d # c
    BY <2>1, <2>2, <1>1, <1>5 DEF StagesGuarded
  <2>3. CASE d = c /\ pos'[c] = 0
    <3>1. kind'[c] \in Kinds
      BY <1>5
    <3>2. \A n \in {2, 4, 7} : 1 \in 1..n
      OBVIOUS
    <3>3. 1 \in 1..Len(Stages[kind'[c]])
      BY <3>1, <3>2, StageLists
    <3>4. 0 \notin After[x][kind'[c]]
      BY <3>1, <3>3, StagesInOrder
    <3> QED
      BY <2>3, <3>4
  <2>4. CASE d = c /\ pos'[c] = pos[c] + 1 /\ kind'[c] = kind[c]
    <3>1. pos[c] \in After[x][kind[c]] \/ StageOf(c) = x
      BY <2>4, <1>4, StagesInOrder DEF StageOf
    <3>2. CASE pos[c] \in After[x][kind[c]]
      BY <3>2, <2>1, <2>4, <1>1 DEF StagesGuarded
    <3>3. CASE StageOf(c) = x
      BY <3>3, <2>4, <1>7, <1>9
    <3> QED
      BY <3>1, <3>2, <3>3
  <2> QED
    BY <2>2, <2>3, <2>4, <1>5
<1> QED
  BY <1>12, <1>13, <1>14, <1>15, <1>16, <1>17, <1>18, <1>19 DEF IInv

\* A step of init_rewrite_policy, from the invariant's side: it holds the control,
\* and leaves what the next step expects.
Store(c, pol, e, next) ==
  /\ Scheduled(c) /\ run[c] \in PolicySteps
  /\ next \in PolicySteps /\ pol \in Policies /\ e \in Envs \cup {Blank}
  /\ Built(next, pol, e)
  /\ policy' = [policy EXCEPT ![ProcOf(c)] = pol]
  /\ snap' = [snap EXCEPT ![c] = e]
  /\ run' = [run EXCEPT ![c] = next]
  /\ UNCHANGED <<home, env, fork_gen, once, once_gen, table, kind, pos, sym>>

\* Every step of init_rewrite_policy is such a store.
LEMMA PolicyStepsStore ==
  ASSUME IInv, NEW c \in Contexts,
         \/ ResetPolicy(c) \/ ReadEnvironment(c)
         \/ StoreFrom(c) \/ StoreTo(c) \/ StoreLens(c) \/ Enable(c)
  PROVE  \E pol \in Policies, e \in Envs \cup {Blank}, next \in PolicySteps :
           Store(c, pol, e, next)
<1> DEFINE p   == ProcOf(c)
           old == policy[p]
<1>1. Scheduled(c)
  BY DEF PolicyStep, ResetPolicy, ReadEnvironment, StoreFrom, StoreTo, StoreLens, Enable
<1>2. /\ p \in Procs /\ old \in Policies /\ env[p] \in Envs /\ snap[c] \in Envs \cup {Blank}
      /\ snap \in [Contexts -> Envs \cup {Blank}]
      /\ Built(run[c], old, snap[c])
  BY <1>1, ScheduledContext DEF IInv, TypeOK, PolicyBuilt
<1>3. snap = [snap EXCEPT ![c] = snap[c]]
  BY <1>2
<1>4. Disabled \in Policies
  BY DEF Disabled, Policies
<1>5. CASE ResetPolicy(c)
  <2>1. Store(c, Disabled, snap[c], "getenv")
    BY <1>2, <1>3, <1>4, <1>5 DEF ResetPolicy, PolicyStep, Store, Built, PolicySteps
  <2> QED
    BY <2>1, <1>2, <1>4 DEF PolicySteps
<1>6. CASE ReadEnvironment(c)
  <2>1. old = Disabled
    BY <1>2, <1>6 DEF ReadEnvironment, PolicyStep, Built
  <2>2. CASE env[p] \in ValidEnvs
    <3>1. Store(c, old, env[p], "from")
      BY <2>1, <2>2, <1>2, <1>6 DEF ReadEnvironment, PolicyStep, Store, Built, PolicySteps
    <3> QED
      BY <3>1, <1>2 DEF PolicySteps
  <2>3. CASE env[p] \notin ValidEnvs
    <3>1. Disabled = PolicyOf(env[p])
      BY <2>3, <1>2 DEF PolicyOf
    <3>2. Store(c, old, env[p], "set")
      BY <3>1, <2>1, <2>3, <1>2, <1>6
         DEF ReadEnvironment, PolicyStep, Store, Built, PolicySteps
    <3> QED
      BY <3>2, <1>2 DEF PolicySteps
  <2> QED
    BY <2>2, <2>3
<1>7. CASE StoreFrom(c)
  <2> DEFINE pol == [old EXCEPT !.from = snap[c]]
  <2>1. snap[c] \in ValidEnvs /\ old = Disabled
    BY <1>2, <1>7 DEF StoreFrom, PolicyStep, Built
  <2>2. pol \in Policies /\ pol = [Disabled EXCEPT !.from = snap[c]]
    BY <2>1, <1>2 DEF Policies
  <2>3. Store(c, pol, snap[c], "to")
    BY <2>1, <2>2, <1>2, <1>3, <1>7 DEF StoreFrom, PolicyStep, Store, Built, PolicySteps
  <2> QED
    BY <2>2, <2>3, <1>2 DEF PolicySteps
<1>8. CASE StoreTo(c)
  <2> DEFINE pol == [old EXCEPT !.to = snap[c]]
  <2>1. snap[c] \in ValidEnvs /\ old = [Disabled EXCEPT !.from = snap[c]]
    BY <1>2, <1>8 DEF StoreTo, PolicyStep, Built
  <2>2. pol \in Policies /\ pol = [Disabled EXCEPT !.from = snap[c], !.to = snap[c]]
    BY <2>1, <1>2 DEF Policies
  <2>3. Store(c, pol, snap[c], "lens")
    BY <2>1, <2>2, <1>2, <1>3, <1>8 DEF StoreTo, PolicyStep, Store, Built, PolicySteps
  <2> QED
    BY <2>2, <2>3, <1>2 DEF PolicySteps
<1>9. CASE StoreLens(c)
  <2> DEFINE pol == [old EXCEPT !.lens = snap[c]]
  <2>1. snap[c] \in ValidEnvs /\ old = [Disabled EXCEPT !.from = snap[c], !.to = snap[c]]
    BY <1>2, <1>9 DEF StoreLens, PolicyStep, Built
  <2>2. /\ pol \in Policies
        /\ pol = [Disabled EXCEPT !.from = snap[c], !.to = snap[c], !.lens = snap[c]]
    BY <2>1, <1>2 DEF Policies
  <2>3. Store(c, pol, snap[c], "enable")
    BY <2>1, <2>2, <1>2, <1>3, <1>9 DEF StoreLens, PolicyStep, Store, Built, PolicySteps
  <2> QED
    BY <2>2, <2>3, <1>2 DEF PolicySteps
<1>10. CASE Enable(c)
  <2> DEFINE pol == [old EXCEPT !.enabled = TRUE]
  <2>1. /\ snap[c] \in ValidEnvs
        /\ old = [Disabled EXCEPT !.from = snap[c], !.to = snap[c], !.lens = snap[c]]
    BY <1>2, <1>10 DEF Enable, PolicyStep, Built
  <2>2. pol \in Policies
    BY <1>2 DEF Policies
  <2>3. pol = PolicyOf(snap[c])
    <3>1. old = [enabled |-> FALSE, from |-> snap[c], to |-> snap[c], lens |-> snap[c]]
      BY <2>1 DEF Disabled
    <3>2. pol = [enabled |-> TRUE, from |-> snap[c], to |-> snap[c], lens |-> snap[c]]
      <4>1. pol = [[enabled |-> FALSE, from |-> snap[c], to |-> snap[c], lens |-> snap[c]]
                     EXCEPT !.enabled = TRUE]
        BY <3>1
      <4> HIDE DEF old, pol
      <4> QED
        BY <4>1
    <3> QED
      BY <3>2, <2>1 DEF PolicyOf
  <2>4. snap[c] \in Envs
    BY <2>1, LazyInitAssumption
  <2>5. Store(c, pol, snap[c], "set")
    BY <2>2, <2>3, <2>4, <1>2, <1>3, <1>10 DEF Enable, PolicyStep, Store, Built, PolicySteps
  <2> QED
    BY <2>2, <2>5, <1>2 DEF PolicySteps
<1> QED
  BY <1>5, <1>6, <1>7, <1>8, <1>9, <1>10

\* A store concerns the policy of a process whose control is busy.
LEMMA StoreKeeps ==
  ASSUME IInv, NEW c \in Contexts, NEW pol \in Policies, NEW e \in Envs \cup {Blank},
         NEW next \in PolicySteps, Store(c, pol, e, next)
  PROVE  IInv'
<1> DEFINE p == ProcOf(c)
<1>1. /\ TypeOK /\ Frames /\ Ownership /\ OneInitialiser /\ StagesGuarded /\ Initialised
      /\ PolicyBuilt /\ TableBuilt /\ Generations /\ BusyIsRun
  BY DEF IInv
<1>2. /\ Scheduled(c) /\ run[c] \in PolicySteps /\ Built(next, pol, e)
      /\ policy' = [policy EXCEPT ![p] = pol]
      /\ snap' = [snap EXCEPT ![c] = e]
      /\ run' = [run EXCEPT ![c] = next]
      /\ UNCHANGED <<home, env, fork_gen, once, once_gen, table, kind, pos, sym>>
  BY DEF Store
<1>3. p \in Procs /\ pos[c] > 0
  BY <1>1, <1>2, ScheduledContext DEF Scheduled
<1>4. \A d \in Contexts : ProcOf(d)' = ProcOf(d) /\ StageOf(d)' = StageOf(d)
  BY <1>2 DEF ProcOf, StageOf
<1>5. /\ Steps("rewrite") = PolicySteps /\ Steps("resolve") = SymbolSteps
      /\ "rewrite" \in Onces /\ \A o \in Onces : o \in {"rewrite", "resolve"}
      /\ \A s \in PolicySteps : s \notin SymbolSteps /\ s \notin {"out", "dlsym", "resolved"}
  BY DEF Steps, Onces, PolicySteps, SymbolSteps
<1>6. /\ \A d \in Contexts : d # c => run'[d] = run[d] /\ snap'[d] = snap[d]
      /\ run'[c] = next /\ snap'[c] = e
      /\ policy'[p] = pol /\ \A q \in Procs : q # p => policy'[q] = policy[q]
  BY <1>1, <1>2, <1>3 DEF TypeOK
<1>7. \A d \in Contexts, o \in Onces : run'[d] \in Steps(o) <=> run[d] \in Steps(o)
  BY <1>2, <1>5, <1>6
<1>8. TypeOK'
  <2>1. /\ policy' \in [Procs -> Policies] /\ snap' \in [Contexts -> Envs \cup {Blank}]
        /\ run' \in [Contexts -> PolicySteps \cup SymbolSteps \cup {"out"}]
    BY <1>1, <1>2 DEF TypeOK
  <2> QED
    BY <2>1, <1>1, <1>2 DEF TypeOK
<1>9. Frames'
  <2>1. \A d \in Contexts : run'[d] = "out" <=> run[d] = "out"
    BY <1>2, <1>5, <1>6
  <2>2. \A d \in Contexts : run'[d] \in SymbolSteps <=> run[d] \in SymbolSteps
    BY <1>2, <1>5, <1>6
  <2> QED
    BY <2>1, <2>2, <1>1, <1>2, <1>4, <1>7 DEF Frames
<1>10. Ownership' /\ OneInitialiser' /\ StagesGuarded' /\ Generations' /\ BusyIsRun'
  BY <1>1, <1>2, <1>4, <1>7
     DEF Ownership, OneInitialiser, StagesGuarded, Generations, BusyIsRun
<1>11. Initialised'
  <2>1. once[p]["rewrite"] = "busy"
    BY <1>1, <1>2, <1>5 DEF Ownership
  <2> QED
    BY <2>1, <1>1, <1>2, <1>6 DEF Initialised
<1>12. PolicyBuilt'
  <2> SUFFICES ASSUME NEW d \in Contexts
               PROVE  Built(run'[d], policy'[ProcOf(d)], snap'[d])
    BY <1>4 DEF PolicyBuilt
  <2>1. CASE d = c
    BY <2>1, <1>2, <1>6
  <2>2. CASE d # c /\ run[d] \in PolicySteps
    <3>1. ProcOf(d) # NoProc
      BY <2>2, <1>1, <1>5 DEF Frames
    <3>2. ProcOf(d) \in Procs
      BY <3>1, <1>1, ContextTypes
    <3>3. ProcOf(d) # p
      BY <2>2, <3>1, <1>1, <1>2, <1>5 DEF OneInitialiser
    <3> QED
      BY <2>2, <3>2, <3>3, <1>1, <1>6 DEF PolicyBuilt
  <2>3. CASE d # c /\ run[d] \notin PolicySteps
    BY <2>3, <1>6 DEF Built, PolicySteps
  <2> QED
    BY <2>1, <2>2, <2>3
<1>13. TableBuilt'
  BY <1>1, <1>2, <1>4, <1>5, <1>6 DEF TableBuilt
<1> QED
  BY <1>8, <1>9, <1>10, <1>11, <1>12, <1>13 DEF IInv

\* A step of resolve_symbols adds to the table of a process whose control is busy.
LEMMA ResolveSymbolKeeps ==
  ASSUME IInv, NEW c \in Contexts, ResolveSymbol(c) \/ SymbolsResolved(c)
  PROVE  IInv'
<1> DEFINE p == ProcOf(c)
<1>1. /\ TypeOK /\ Frames /\ Ownership /\ OneInitialiser /\ StagesGuarded /\ Initialised
      /\ PolicyBuilt /\ TableBuilt /\ Generations /\ BusyIsRun
  BY DEF IInv
<1>2. /\ Scheduled(c) /\ run[c] = "dlsym"
      /\ UNCHANGED <<home, env, fork_gen, once, once_gen, policy, kind, pos, snap>>
      /\ \/ /\ sym[c] <= NSyms /\ run' = run /\ sym' = [sym EXCEPT ![c] = @ + 1]
            /\ table' = [table EXCEPT ![p] = @ \cup ({sym[c]} \cap Available)]
         \/ /\ sym[c] > NSyms /\ run' = [run EXCEPT ![c] = "resolved"]
            /\ table' = table /\ sym' = sym
  BY DEF ResolveSymbol, SymbolsResolved, memory
<1>3. p \in Procs /\ pos[c] > 0
  BY <1>1, <1>2, ScheduledContext DEF Scheduled
<1>4. \A d \in Contexts : ProcOf(d)' = ProcOf(d) /\ StageOf(d)' = StageOf(d)
  BY <1>2 DEF ProcOf, StageOf
<1>5. /\ Steps("rewrite") = PolicySteps /\ Steps("resolve") = SymbolSteps
      /\ "resolve" \in Onces /\ \A o \in Onces : o \in {"rewrite", "resolve"}
      /\ "dlsym" \in SymbolSteps /\ "resolved" \in SymbolSteps
      /\ \A s \in SymbolSteps : s \notin PolicySteps /\ s # "out"
  BY DEF Steps, Onces, PolicySteps, SymbolSteps
<1>6. sym[c] \in 1..(NSyms + 1) /\ NSyms \in Nat /\ table[p] \subseteq Available
  BY <1>1, <1>3, LazyInitAssumption DEF TypeOK
<1>7. /\ \A d \in Contexts : d # c => run'[d] = run[d] /\ sym'[d] = sym[d]
      /\ run'[c] \in {"dlsym", "resolved"}
      /\ \A q \in Procs : q # p => table'[q] = table[q]
      /\ table[p] \subseteq table'[p] /\ table'[p] \subseteq Available
  BY <1>1, <1>2, <1>3, <1>6 DEF TypeOK
<1>8. \A d \in Contexts, o \in Onces : run'[d] \in Steps(o) <=> run[d] \in Steps(o)
  BY <1>2, <1>5, <1>7
<1>9. TypeOK'
  <2>1. run' \in [Contexts -> PolicySteps \cup SymbolSteps \cup {"out"}]
    <3>1. run' = run \/ run' = [run EXCEPT ![c] = "resolved"]
      BY <1>2
    <3>2. run \in [Contexts -> PolicySteps \cup SymbolSteps \cup {"out"}]
      BY <1>1 DEF TypeOK
    <3> QED
      BY <1>5, <3>1, <3>2
  <2>2. table' \in [Procs -> SUBSET Available]
    <3>1. table' = table \/ table' = [table EXCEPT ![p] = @ \cup ({sym[c]} \cap Available)]
      BY <1>2
    <3>2. table \in [Procs -> SUBSET Available]
      BY <1>1 DEF TypeOK
    <3> HIDE DEF p
    <3> QED
      BY <3>1, <3>2
  <2>3. sym' \in [Contexts -> 1..(NSyms + 1)]
    <3>1. sym[c] <= NSyms => sym[c] + 1 \in 1..(NSyms + 1)
      BY <1>6
    <3> QED
      BY <3>1, <1>1, <1>2 DEF TypeOK
  <2> QED
    BY <2>1, <2>2, <2>3, <1>1, <1>2 DEF TypeOK
<1>10. Frames'
  <2>1. \A d \in Contexts : run'[d] = "out" <=> run[d] = "out"
    BY <1>2, <1>5, <1>7
  <2>2. \A d \in Contexts : run'[d] \notin SymbolSteps => sym'[d] = 1
    BY <1>1, <1>2, <1>5, <1>7 DEF Frames
  <2> QED
    BY <2>1, <2>2, <1>1, <1>2, <1>4, <1>8 DEF Frames
<1>11. Ownership' /\ OneInitialiser' /\ StagesGuarded' /\ Generations' /\ BusyIsRun'
  BY <1>1, <1>2, <1>4, <1>8
     DEF Ownership, OneInitialiser, StagesGuarded, Generations, BusyIsRun
<1>12. once[p]["resolve"] = "busy"
  BY <1>1, <1>2, <1>5 DEF Ownership
<1>13. Initialised'
  BY <1>12, <1>1, <1>2, <1>7 DEF Initialised
<1>14. PolicyBuilt'
  <2>1. Built("dlsym", policy[p], snap[c]) /\ Built("resolved", policy[p], snap[c])
    BY DEF Built
  <2> QED
    BY <2>1, <1>1, <1>2, <1>4, <1>7 DEF PolicyBuilt
<1>15. TableBuilt'
  <2> SUFFICES ASSUME NEW d \in Contexts
               PROVE  /\ run'[d] = "dlsym" =>
                           Available \cap 1..(sym'[d] - 1) \subseteq table'[ProcOf(d)]
                      /\ run'[d] = "resolved" => table'[ProcOf(d)] = Available
    BY <1>4 DEF TableBuilt
  <2>1. CASE d # c /\ run[d] \in SymbolSteps
    <3>1. ProcOf(d) # NoProc
      BY <2>1, <1>1, <1>5 DEF Frames
    <3>2. ProcOf(d) \in Procs
      BY <3>1, <1>1, ContextTypes
    <3>3. ProcOf(d) # p
      BY <2>1, <3>1, <1>1, <1>2, <1>5 DEF OneInitialiser
    <3> QED
      BY <2>1, <3>2, <3>3, <1>1, <1>7 DEF TableBuilt
  <2>2. CASE d # c /\ run[d] \notin SymbolSteps
    BY <2>2, <1>7 DEF SymbolSteps
  <2>3. CASE d = c
    <3>1. Available \cap 1..(sym[c] - 1) \subseteq table[p]
      BY <1>1, <1>2 DEF TableBuilt
    <3>2. CASE sym[c] <= NSyms
      <4>1. run'[c] = "dlsym" /\ sym'[c] = sym[c] + 1
        BY <3>2, <1>1, <1>2, <1>6 DEF TypeOK
      <4>2. table'[p] = table[p] \cup ({sym[c]} \cap Available)
        BY <3>2, <1>1, <1>2, <1>3, <1>6 DEF TypeOK
      <4>3. 1..(sym'[c] - 1) = 1..(sym[c] - 1) \cup {sym[c]}
        BY <4>1, <1>6
      <4> QED
        BY <2>3, <3>1, <4>1, <4>2, <4>3
    <3>3. CASE sym[c] > NSyms
      <4>1. run'[c] = "resolved" /\ table' = table
        BY <3>3, <1>1, <1>2, <1>6 DEF TypeOK
      <4>2. sym[c] - 1 = NSyms
        BY <3>3, <1>6
      <4>3. Available \subseteq 1..NSyms
        BY LazyInitAssumption
      <4> QED
        BY <2>3, <3>1, <4>1, <4>2, <4>3, <1>6
    <3> QED
      BY <3>2, <3>3, <1>6
  <2> QED
    BY <2>1, <2>2, <2>3
<1> QED
  BY <1>9, <1>10, <1>11, <1>13, <1>14, <1>15 DEF IInv

\* A context outside a call relies on no initialiser.
LEMMA NoStageZero == \A k \in Kinds, o \in Onces : 0 \notin After[o][k]
<1> SUFFICES ASSUME NEW k \in Kinds, NEW o \in Onces
             PROVE  0 \notin After[o][k]
  OBVIOUS
<1>1. \A n \in {2, 4, 7} : 1 \in 1..n
  OBVIOUS
<1>2. 1 \in 1..Len(Stages[k])
  BY <1>1, StageLists
<1> QED
  BY <1>2, StagesInOrder

\* setenv changes what no initialised policy depends on.
LEMMA SetEnvKeeps ==
  ASSUME IInv, NEW t \in Threads, NEW e \in Envs, SetEnv(t, e)
  PROVE  IInv'
<1>1. /\ TypeOK /\ Frames /\ Ownership /\ OneInitialiser /\ StagesGuarded /\ Initialised
      /\ PolicyBuilt /\ TableBuilt /\ Generations /\ BusyIsRun
  BY DEF IInv
<1>2. /\ env' = [env EXCEPT ![home[t]] = e]
      /\ UNCHANGED <<home, fork_gen, once, once_gen, policy, table, kind, pos, run, snap, sym>>
  BY DEF SetEnv, memory, frames
<1>3. \A d \in Contexts : ProcOf(d)' = ProcOf(d) /\ StageOf(d)' = StageOf(d)
  BY <1>2 DEF ProcOf, StageOf
<1>4. TypeOK'
  BY <1>1, <1>2 DEF TypeOK
<1>5. Frames' /\ StagesGuarded'
  BY <1>1, <1>2, <1>3 DEF Frames, StagesGuarded
<1>6. Ownership' /\ OneInitialiser' /\ Initialised' /\ Generations' /\ BusyIsRun'
  BY <1>1, <1>2, <1>3
     DEF Ownership, OneInitialiser, Initialised, Generations, BusyIsRun
<1>7. PolicyBuilt' /\ TableBuilt'
  BY <1>1, <1>2, <1>3 DEF PolicyBuilt, TableBuilt
<1> QED
  BY <1>4, <1>5, <1>6, <1>7 DEF IInv

\* The two ways a thread comes to be: what differs is the memory of process q.
LEMMA NewThreadKeeps ==
  ASSUME IInv, NEW t \in Threads, NEW new \in Threads, NEW q \in Procs,
         (Spawn(t, new) /\ q = home[t]) \/ Fork(t, q, new)
  PROVE  IInv'
<1> DEFINE p == home[t]
<1>1. /\ TypeOK /\ Frames /\ Ownership /\ OneInitialiser /\ StagesGuarded /\ Initialised
      /\ PolicyBuilt /\ TableBuilt /\ Generations /\ BusyIsRun
  BY DEF IInv
<1>2. /\ p \in Procs /\ home[new] = NoProc /\ home' = [home EXCEPT ![new] = q]
      /\ UNCHANGED <<kind, pos, run, snap, sym>>
  BY <1>1 DEF Spawn, Fork, Free, TypeOK, frames
<1>3. \/ /\ q = p /\ UNCHANGED <<env, fork_gen, once, once_gen, policy, table>>
      \/ /\ q # p /\ \A u \in Threads : home[u] # q
         /\ env' = [env EXCEPT ![q] = env[p]]
         /\ fork_gen' = [fork_gen EXCEPT ![q] = fork_gen[p] + 1]
         /\ once' = [once EXCEPT ![q] = once[p]]
         /\ once_gen' = [once_gen EXCEPT ![q] = once_gen[p]]
         /\ policy' = [policy EXCEPT ![q] = policy[p]]
         /\ table' = [table EXCEPT ![q] = table[p]]
  BY DEF Spawn, Fork, memory
<1>4. /\ home'[new] = q /\ \A u \in Threads : u # new => home'[u] = home[u]
      /\ home' \in [Threads -> Procs \cup {NoProc}]
  BY <1>1, <1>2 DEF TypeOK
<1>5. \A d \in Contexts : StageOf(d)' = StageOf(d)
  BY <1>2 DEF StageOf
<1>6. /\ \A d \in Contexts : d[1] # new => ProcOf(d)' = ProcOf(d)
      /\ \A d \in Contexts : d[1] = new => ProcOf(d)' = q /\ pos[d] = 0 /\ run[d] = "out"
  <2>1. \A d \in Contexts : d[1] \in Threads
    BY <1>1, ContextTypes
  <2>2. \A d \in Contexts : d[1] = new => pos[d] = 0 /\ run[d] = "out"
    BY <1>1, <1>2 DEF Frames, ProcOf
  <2> QED
    BY <2>1, <2>2, <1>4 DEF ProcOf
<1>7. \A x \in Procs : x # q => /\ fork_gen'[x] = fork_gen[x] /\ once'[x] = once[x]
                                /\ once_gen'[x] = once_gen[x] /\ policy'[x] = policy[x]
                                /\ table'[x] = table[x]
  BY <1>1, <1>3 DEF TypeOK
<1>8. q = p => UNCHANGED <<fork_gen, once, once_gen, policy, table>>
  BY <1>3
<1>9. q # p => /\ fork_gen'[q] = fork_gen[p] + 1 /\ once'[q] = once[p]
               /\ once_gen'[q] = once_gen[p] /\ policy'[q] = policy[p] /\ table'[q] = table[p]
  BY <1>1, <1>3 DEF TypeOK
<1>10. \A d \in Contexts : d[1] # new /\ ProcOf(d) = q => q = p
  BY <1>1, <1>3, ContextTypes DEF ProcOf
<1>11. /\ "out" \notin SymbolSteps /\ \A o \in Onces : "out" \notin Steps(o)
       /\ \A d \in Contexts : run[d] # "out" => d[1] # new /\ ProcOf(d) \in Procs
  <2>1. /\ "out" \notin SymbolSteps /\ \A o \in Onces : "out" \notin Steps(o)
    BY DEF Steps, PolicySteps, SymbolSteps
  <2>2. ASSUME NEW d \in Contexts, run[d] # "out"
        PROVE  d[1] # new /\ ProcOf(d) \in Procs
    <3>1. ProcOf(d) # NoProc
      BY <2>2, <1>1 DEF Frames
    <3> QED
      BY <2>2, <3>1, <1>1, <1>6, ContextTypes
  <2> QED
    BY <2>1, <2>2
\* A process with a context that was there before keeps its memory.
<1>12. \A d \in Contexts :
         d[1] # new /\ ProcOf(d) \in Procs =>
           /\ ProcOf(d)' = ProcOf(d)
           /\ fork_gen'[ProcOf(d)] = fork_gen[ProcOf(d)] /\ once'[ProcOf(d)] = once[ProcOf(d)]
           /\ once_gen'[ProcOf(d)] = once_gen[ProcOf(d)]
           /\ policy'[ProcOf(d)] = policy[ProcOf(d)] /\ table'[ProcOf(d)] = table[ProcOf(d)]
  BY <1>6, <1>7, <1>8, <1>10
<1>13. TypeOK'
  <2>1. /\ fork_gen[p] + 1 \in Nat /\ env[p] \in Envs
        /\ once[p] \in [Onces -> {"new", "busy", "done"}] /\ once_gen[p] \in [Onces -> Nat]
        /\ policy[p] \in Policies /\ table[p] \in SUBSET Available
    BY <1>1, <1>2 DEF TypeOK
  <2>2. env' \in [Procs -> Envs] /\ fork_gen' \in [Procs -> Nat]
    <3>1. env \in [Procs -> Envs] /\ fork_gen \in [Procs -> Nat]
      BY <1>1 DEF TypeOK
    <3>2. CASE q = p
      BY <3>1, <3>2, <1>3
    <3>3. CASE q # p
      BY <3>1, <3>3, <2>1, <1>3
    <3> QED
      BY <3>2, <3>3
  <2>3. /\ once' \in [Procs -> [Onces -> {"new", "busy", "done"}]]
        /\ once_gen' \in [Procs -> [Onces -> Nat]]
    BY <2>1, <1>1, <1>3 DEF TypeOK
  <2>4. policy' \in [Procs -> Policies] /\ table' \in [Procs -> SUBSET Available]
    BY <2>1, <1>1, <1>3 DEF TypeOK
  <2> QED
    BY <2>2, <2>3, <2>4, <1>1, <1>2, <1>4 DEF TypeOK
<1>14. Frames'
  BY <1>1, <1>2, <1>5, <1>6 DEF Frames
<1>15. Ownership'
  BY <1>1, <1>2, <1>11, <1>12 DEF Ownership
<1>16. OneInitialiser'
  BY <1>1, <1>2, <1>6, <1>11 DEF OneInitialiser
<1>17. StagesGuarded'
  <2> SUFFICES ASSUME NEW d \in Contexts, NEW o \in Onces, pos[d] \in After[o][kind[d]]
               PROVE  once'[ProcOf(d)'][o] = "done"
    BY <1>2 DEF StagesGuarded
  <2>1. pos[d] # 0
    BY <1>1, NoStageZero, ContextTypes
  <2>2. d[1] # new /\ ProcOf(d) \in Procs
    BY <2>1, <1>1, <1>6, ContextTypes DEF Frames
  <2> QED
    BY <2>2, <1>1, <1>12 DEF StagesGuarded
<1>18. Initialised' /\ Generations'
  <2>1. Initialised'
    BY <1>1, <1>2, <1>7, <1>8, <1>9 DEF Initialised
  <2>2. \A o \in Onces : once_gen[p][o] <= fork_gen[p] + 1
    <3>1. \A o \in Onces : once_gen[p][o] \in Nat /\ fork_gen[p] \in Nat
      BY <1>1, <1>2 DEF TypeOK
    <3> QED
      BY <3>1, <1>1, <1>2 DEF Generations
  <2> QED
    BY <2>1, <2>2, <1>1, <1>7, <1>8, <1>9 DEF Generations
<1>19. PolicyBuilt'
  <2>1. \A d \in Contexts : Built("out", policy'[ProcOf(d)'], snap[d])
    BY DEF Built
  <2> QED
    BY <2>1, <1>1, <1>2, <1>11, <1>12 DEF PolicyBuilt
<1>20. TableBuilt'
  BY <1>1, <1>2, <1>11, <1>12 DEF TableBuilt
<1>21. BusyIsRun'
  <2> SUFFICES ASSUME NEW u \in Threads, NEW o \in Onces, home'[u] # NoProc,
                      once'[home'[u]][o] = "busy", once_gen'[home'[u]][o] = fork_gen'[home'[u]]
               PROVE  \E d \in Contexts : ProcOf(d)' = home'[u] /\ run[d] \in Steps(o)
    BY <1>2 DEF BusyIsRun
  <2>1. CASE q # p /\ home'[u] = q
    <3>1. once_gen[p][o] = fork_gen[p] + 1
      BY <2>1, <1>9
    <3>2. once_gen[p][o] \in Nat /\ fork_gen[p] \in Nat /\ once_gen[p][o] <= fork_gen[p]
      BY <1>1, <1>2 DEF TypeOK, Generations
    <3> QED
      BY <3>1, <3>2
  <2>2. CASE q = p \/ home'[u] # q
    <3>1. PICK v \in Threads : home[v] = home'[u]
      BY <2>2, <1>2, <1>4
    <3>2. home[v] \in Procs
      BY <3>1, <1>1 DEF TypeOK
    <3>3. once[home[v]][o] = "busy" /\ once_gen[home[v]][o] = fork_gen[home[v]]
      BY <2>2, <3>1, <3>2, <1>7, <1>8
    <3>4. PICK d \in Contexts : ProcOf(d) = home[v] /\ run[d] \in Steps(o)
      BY <3>1, <3>3, <1>1 DEF BusyIsRun
    <3> QED
      BY <3>1, <3>4, <1>11, <1>12
  <2> QED
    BY <2>1, <2>2
<1> QED
  BY <1>13, <1>14, <1>15, <1>16, <1>17, <1>18, <1>19, <1>20, <1>21 DEF IInv

\* execve starts the process over.
LEMMA ExecKeeps ==
  ASSUME IInv, NEW c \in Contexts, NEW e \in Envs, Exec(c, e)
  PROVE  IInv'
<1> DEFINE p == ProcOf(c)
<1>1. /\ TypeOK /\ Frames /\ Ownership /\ OneInitialiser /\ StagesGuarded /\ Initialised
      /\ PolicyBuilt /\ TableBuilt /\ Generations /\ BusyIsRun
  BY DEF IInv
<1>2. /\ Scheduled(c) /\ run[c] = "out"
      /\ home' = [t \in Threads |-> IF home[t] = p /\ t # c[1] THEN NoProc ELSE home[t]]
      /\ env' = [env EXCEPT ![p] = e]
      /\ fork_gen' = [fork_gen EXCEPT ![p] = 0]
      /\ once' = [once EXCEPT ![p] = [o \in Onces |-> "new"]]
      /\ once_gen' = [once_gen EXCEPT ![p] = [o \in Onces |-> 0]]
      /\ policy' = [policy EXCEPT ![p] = Disabled]
      /\ table' = [table EXCEPT ![p] = {}]
      /\ kind' = [d \in Contexts |-> IF ProcOf(d) = p THEN "fd" ELSE kind[d]]
      /\ pos' = [d \in Contexts |-> IF ProcOf(d) = p THEN 0 ELSE pos[d]]
      /\ run' = [d \in Contexts |-> IF ProcOf(d) = p THEN "out" ELSE run[d]]
      /\ snap' = [d \in Contexts |-> IF ProcOf(d) = p THEN Blank ELSE snap[d]]
      /\ sym' = [d \in Contexts |-> IF ProcOf(d) = p THEN 1 ELSE sym[d]]
  BY DEF Exec, At
<1>3. p \in Procs /\ p # NoProc
  BY <1>1, <1>2, ScheduledContext, LazyInitAssumption
<1>4. \A t \in Threads : home[t] # p => home'[t] = home[t]
  BY <1>2
<1>5. \A d \in Contexts : d[1] \in Threads /\ ProcOf(d) \in Procs \cup {NoProc}
  BY <1>1, ContextTypes
\* The contexts of the old image are gone, or blank.
<1>6. \A d \in Contexts :
        ProcOf(d) = p => /\ ProcOf(d)' \in {p, NoProc} /\ kind'[d] = "fd" /\ pos'[d] = 0
                         /\ run'[d] = "out" /\ snap'[d] = Blank /\ sym'[d] = 1
  BY <1>2, <1>5 DEF ProcOf
\* Those of the other processes keep their frames and their memory.
<1>7. \A d \in Contexts :
        ProcOf(d) # p => /\ ProcOf(d)' = ProcOf(d) /\ kind'[d] = kind[d] /\ pos'[d] = pos[d]
                         /\ run'[d] = run[d] /\ snap'[d] = snap[d] /\ sym'[d] = sym[d]
                         /\ StageOf(d)' = StageOf(d)
  BY <1>2, <1>4, <1>5 DEF ProcOf, StageOf
<1>8. \A q \in Procs \cup {NoProc} :
        q # p => /\ fork_gen'[q] = fork_gen[q] /\ once'[q] = once[q]
                 /\ once_gen'[q] = once_gen[q] /\ policy'[q] = policy[q] /\ table'[q] = table[q]
  BY <1>1, <1>2, <1>3, LazyInitAssumption DEF TypeOK
<1>9. /\ "out" \notin SymbolSteps /\ \A o \in Onces : "out" \notin Steps(o)
      /\ \A o \in Onces : o \in {"rewrite", "resolve"}
  BY DEF Steps, PolicySteps, SymbolSteps, Onces
<1>10. TypeOK'
  <2>1. /\ Disabled \in Policies /\ {} \in SUBSET Available
        /\ [o \in Onces |-> "new"] \in [Onces -> {"new", "busy", "done"}]
        /\ [o \in Onces |-> 0] \in [Onces -> Nat]
    BY DEF Disabled, Policies
  <2>2. /\ home' \in [Threads -> Procs \cup {NoProc}] /\ env' \in [Procs -> Envs]
        /\ fork_gen' \in [Procs -> Nat]
    BY <1>1, <1>2 DEF TypeOK
  <2>3. /\ once' \in [Procs -> [Onces -> {"new", "busy", "done"}]]
        /\ once_gen' \in [Procs -> [Onces -> Nat]]
    BY <2>1, <1>1, <1>2 DEF TypeOK
  <2>4. policy' \in [Procs -> Policies] /\ table' \in [Procs -> SUBSET Available]
    BY <2>1, <1>1, <1>2 DEF TypeOK
  <2>5. kind' \in [Contexts -> Kinds] /\ pos' \in [Contexts -> 0..7]
    BY <1>1, <1>2 DEF TypeOK, Kinds
  <2>6. \A d \in Contexts : pos'[d] <= Len(Stages[kind'[d]])
    <3>1. 0 <= Len(Stages["fd"])
      <4>1. \A n \in {2, 4, 7} : 0 <= n
        OBVIOUS
      <4> QED
        BY <4>1, StageLists DEF Kinds
    <3> QED
      BY <3>1, <1>1, <1>6, <1>7 DEF TypeOK
  <2>7. /\ run' \in [Contexts -> PolicySteps \cup SymbolSteps \cup {"out"}]
        /\ snap' \in [Contexts -> Envs \cup {Blank}]
    BY <1>1, <1>2 DEF TypeOK
  <2>8. sym' \in [Contexts -> 1..(NSyms + 1)]
    BY <1>1, <1>2, LazyInitAssumption DEF TypeOK
  <2> QED
    BY <2>2, <2>3, <2>4, <2>5, <2>6, <2>7, <2>8 DEF TypeOK
<1>11. Frames'
  BY <1>1, <1>6, <1>7, <1>9 DEF Frames
<1>12. Ownership' /\ OneInitialiser'
  BY <1>1, <1>5, <1>6, <1>7, <1>8, <1>9 DEF Ownership, OneInitialiser
<1>13. StagesGuarded'
  <2> SUFFICES ASSUME NEW d \in Contexts, NEW o \in Onces, pos'[d] \in After[o][kind'[d]]
               PROVE  once'[ProcOf(d)'][o] = "done"
    BY DEF StagesGuarded
  <2>1. CASE ProcOf(d) = p
    BY <2>1, <1>6, NoStageZero DEF Kinds
  <2>2. CASE ProcOf(d) # p
    BY <2>2, <1>1, <1>5, <1>7, <1>8 DEF StagesGuarded
  <2> QED
    BY <2>1, <2>2
<1>14. Initialised' /\ Generations'
  <2>1. /\ \A o \in Onces : once'[p][o] = "new" /\ once_gen'[p][o] = 0
        /\ fork_gen'[p] = 0
    BY <1>1, <1>2, <1>3 DEF TypeOK
  <2>2. Initialised'
    BY <2>1, <1>1, <1>8 DEF Initialised, Onces
  <2>3. Generations'
    BY <2>1, <1>1, <1>8 DEF Generations
  <2> QED
    BY <2>2, <2>3
<1>15. PolicyBuilt' /\ TableBuilt'
  <2>1. \A d \in Contexts : Built("out", policy'[ProcOf(d)'], Blank)
    BY DEF Built
  <2>2. PolicyBuilt'
    BY <2>1, <1>1, <1>5, <1>6, <1>7, <1>8 DEF PolicyBuilt
  <2>3. TableBuilt'
    BY <1>1, <1>5, <1>6, <1>7, <1>8 DEF TableBuilt
  <2> QED
    BY <2>2, <2>3
<1>16. BusyIsRun'
  <2> SUFFICES ASSUME NEW t \in Threads, NEW o \in Onces, home'[t] # NoProc,
                      once'[home'[t]][o] = "busy", once_gen'[home'[t]][o] = fork_gen'[home'[t]]
               PROVE  \E d \in Contexts : ProcOf(d)' = home'[t] /\ run'[d] \in Steps(o)
    BY DEF BusyIsRun
  <2>1. once'[p][o] = "new"
    BY <1>1, <1>2, <1>3 DEF TypeOK
  <2>2. home[t] # p /\ home'[t] = home[t] /\ home[t] \in Procs \cup {NoProc}
    BY <2>1, <1>1, <1>2 DEF TypeOK
  <2>3. PICK d \in Contexts : ProcOf(d) = home[t] /\ run[d] \in Steps(o)
    BY <2>2, <1>1, <1>8 DEF BusyIsRun
  <2> QED
    BY <2>2, <2>3, <1>7
<1> QED
  BY <1>10, <1>11, <1>12, <1>13, <1>14, <1>15, <1>16 DEF IInv

-----------------------------------------------------------------------------
\* The invariant holds at the start.
LEMMA InitEstablishes == Init => IInv
<1> SUFFICES ASSUME Init
             PROVE  IInv
  OBVIOUS
<1>1. /\ Disabled \in Policies /\ 1 \in 1..(NSyms + 1)
      /\ [o \in Onces |-> "new"] \in [Onces -> {"new", "busy", "done"}]
      /\ [o \in Onces |-> 0] \in [Onces -> Nat]
  BY LazyInitAssumption DEF Disabled, Policies
<1>2. TypeOK
  <2>1. \A d \in Contexts : pos[d] <= Len(Stages[kind[d]])
    <3>1. \A n \in {2, 4, 7} : 0 <= n
      OBVIOUS
    <3>2. 0 <= Len(Stages["fd"])
      BY <3>1, StageLists DEF Kinds
    <3> QED
      BY <3>2 DEF Init
  <2>2. kind \in [Contexts -> Kinds] /\ pos \in [Contexts -> 0..7]
    BY DEF Init, Kinds
  <2>3. home \in [Threads -> Procs \cup {NoProc}] /\ env \in [Procs -> Envs]
    BY LazyInitAssumption DEF Init
  <2> QED
    BY <1>1, <2>1, <2>2, <2>3 DEF Init, TypeOK
<1>3. /\ "out" \notin SymbolSteps /\ \A o \in Onces : "out" \notin Steps(o)
      /\ "rewrite" \in Onces /\ "resolve" \in Onces
  BY DEF Steps, PolicySteps, SymbolSteps, Onces
<1>4. \A d \in Contexts : pos[d] = 0 /\ run[d] = "out" /\ sym[d] = 1 /\ kind[d] = "fd"
  BY DEF Init
<1>5. \A q \in Procs, o \in Onces :
        once[q][o] = "new" /\ once_gen[q][o] = 0 /\ fork_gen[q] = 0
  BY DEF Init
<1>6. Frames /\ Ownership /\ OneInitialiser
  BY <1>3, <1>4 DEF Frames, Ownership, OneInitialiser
<1>7. StagesGuarded
  BY <1>4, NoStageZero DEF StagesGuarded, Kinds
<1>8. Initialised /\ Generations
  BY <1>3, <1>5 DEF Initialised, Generations
<1>9. PolicyBuilt /\ TableBuilt
  BY <1>4 DEF PolicyBuilt, Built, TableBuilt
<1>10. BusyIsRun
  <2>1. \A t \in Threads : home[t] \in Procs \cup {NoProc}
    BY <1>2 DEF TypeOK
  <2> QED
    BY <2>1, <1>5 DEF BusyIsRun
<1> QED
  BY <1>2, <1>6, <1>7, <1>8, <1>9, <1>10 DEF IInv

\* It holds when nothing changes.
LEMMA StutterKeeps == IInv /\ UNCHANGED vars => IInv'
<1> SUFFICES ASSUME IInv, UNCHANGED vars
             PROVE  IInv'
  OBVIOUS
<1>1. UNCHANGED <<home, env, fork_gen, once, once_gen, policy, table, kind, pos, run, snap, sym>>
  BY DEF vars, memory, frames
<1>2. \A d \in Contexts : ProcOf(d)' = ProcOf(d) /\ StageOf(d)' = StageOf(d)
  BY <1>1 DEF ProcOf, StageOf
<1>3. TypeOK'
  BY <1>1 DEF IInv, TypeOK
<1>4. Frames' /\ StagesGuarded'
  BY <1>1, <1>2 DEF IInv, Frames, StagesGuarded
<1>5. Ownership' /\ OneInitialiser' /\ Initialised' /\ Generations' /\ BusyIsRun'
  BY <1>1, <1>2
     DEF IInv, Ownership, OneInitialiser, Initialised, Generations, BusyIsRun
<1>6. PolicyBuilt' /\ TableBuilt'
  BY <1>1, <1>2 DEF IInv, PolicyBuilt, TableBuilt
<1> QED
  BY <1>3, <1>4, <1>5, <1>6 DEF IInv

\* Every step of the system keeps it.
LEMMA NextKeeps == IInv /\ [Next]_vars => IInv'
<1> SUFFICES ASSUME IInv, [Next]_vars
             PROVE  IInv'
  OBVIOUS
<1>1. ASSUME NEW c \in Contexts, OwnStep(c)
      PROVE  IInv'
  <2>1. CASE \E o \in Onces : OnceBegin(c, o)
    BY <2>1, OnceBeginKeeps
  <2>2. CASE \E o \in Onces : OnceEnd(c, o)
    BY <2>2, OnceEndKeeps
  <2>3. CASE (\E o \in Onces : OnceDone(c, o)) \/ UsePolicy(c) \/ ReadBase(c) \/ RealCall(c)
    <3>1. PICK i \in 1..8 : Move(c, i)
      BY <2>3, CallMoves DEF IInv
    <3> QED
      BY <3>1, MoveKeeps
  <2>4. CASE \/ ResetPolicy(c) \/ ReadEnvironment(c)
             \/ StoreFrom(c) \/ StoreTo(c) \/ StoreLens(c) \/ Enable(c)
    <3>1. PICK pol \in Policies, e \in Envs \cup {Blank}, next \in PolicySteps :
            Store(c, pol, e, next)
      BY <2>4, PolicyStepsStore
    <3> QED
      BY <3>1, StoreKeeps
  <2>5. CASE ResolveSymbol(c) \/ SymbolsResolved(c)
    BY <2>5, ResolveSymbolKeeps
  <2> QED
    BY <1>1, <2>1, <2>2, <2>3, <2>4, <2>5 DEF OwnStep
<1>2. ASSUME NEW c \in Contexts, NEW k \in Calls, Call(c, k)
      PROVE  IInv'
  BY <1>2, CallKeeps
<1>3. ASSUME NEW c \in Contexts, NEW e \in Envs, Exec(c, e)
      PROVE  IInv'
  BY <1>3, ExecKeeps
<1>4. ASSUME NEW t \in Threads, NEW new \in Threads, Spawn(t, new)
      PROVE  IInv'
  <2>1. home[t] \in Procs
    BY <1>4 DEF Spawn, Free, IInv, TypeOK
  <2> QED
    BY <1>4, <2>1, NewThreadKeeps
<1>5. ASSUME NEW t \in Threads, NEW new \in Threads, NEW q \in Procs, Fork(t, q, new)
      PROVE  IInv'
  BY <1>5, NewThreadKeeps
<1>6. ASSUME NEW t \in Threads, NEW e \in Envs, SetEnv(t, e)
      PROVE  IInv'
  BY <1>6, SetEnvKeeps
<1>7. CASE UNCHANGED vars
  BY <1>7, StutterKeeps
<1> QED
  BY <1>1, <1>2, <1>3, <1>4, <1>5, <1>6, <1>7 DEF Next

\* So it always holds.
LEMMA Inductive == Spec => []IInv
<1> QED
  BY InitEstablishes, NextKeeps, PTL DEF Spec

\* A context in a call belongs to a process and is at a stage of its call.
LEMMA StageReached ==
  ASSUME TypeOK, Frames, NEW c \in Contexts, pos[c] > 0
  PROVE  ProcOf(c) \in Procs /\ kind[c] \in Kinds /\ pos[c] \in 1..Len(Stages[kind[c]])
<1>1. kind[c] \in Kinds /\ pos[c] \in 0..7 /\ ProcOf(c) \in Procs \cup {NoProc}
  BY ContextTypes
<1>2. pos[c] <= Len(Stages[kind[c]])
  BY DEF TypeOK
<1>3. Len(Stages[kind[c]]) \in {2, 4, 7}
  BY <1>1, StageLists
<1>4. ProcOf(c) # NoProc
  BY <1>1 DEF Frames
<1> QED
  BY <1>1, <1>2, <1>3, <1>4

\* The state is well typed.
THEOREM Typed == Spec => []TypeOK
<1>1. IInv => TypeOK
  BY DEF IInv
<1> QED
  BY <1>1, Inductive, PTL

\* Two contexts of one process never run the same initialiser.
THEOREM MutualExclusion == Spec => []OneInitialiser
<1>1. IInv => OneInitialiser
  BY DEF IInv
<1> QED
  BY <1>1, Inductive, PTL

\* A call past pthread_once finds the policy of one environment, complete.
THEOREM WholePolicy == Spec => []PolicyNotTorn
<1>1. IInv => PolicyNotTorn
  <2> SUFFICES ASSUME IInv, NEW c \in Contexts, pos[c] > 0, StageOf(c) = "use"
               PROVE  policy[ProcOf(c)] \in CompletePolicies
    BY DEF PolicyNotTorn, CompletePolicies
  <2>1. ProcOf(c) \in Procs /\ kind[c] \in Kinds /\ pos[c] \in 1..Len(Stages[kind[c]])
    BY StageReached DEF IInv
  <2>2. pos[c] \in After["rewrite"][kind[c]]
    BY <2>1, StagesInOrder DEF StageOf, Onces
  <2>3. once[ProcOf(c)]["rewrite"] = "done"
    BY <2>2 DEF IInv, StagesGuarded, Onces
  <2> QED
    BY <2>1, <2>3 DEF IInv, Initialised
<1> QED
  BY <1>1, Inductive, PTL

\* A call that looks at a real_ pointer finds the whole table resolved.
THEOREM WholeTable == Spec => []SymbolsComplete
<1>1. IInv => SymbolsComplete
  <2> SUFFICES ASSUME IInv, NEW c \in Contexts, pos[c] > 0, StageOf(c) \in {"base", "real"}
               PROVE  table[ProcOf(c)] = Available
    BY DEF SymbolsComplete
  <2>1. ProcOf(c) \in Procs /\ kind[c] \in Kinds /\ pos[c] \in 1..Len(Stages[kind[c]])
    BY StageReached DEF IInv
  <2>2. pos[c] \in After["resolve"][kind[c]]
    BY <2>1, StagesInOrder DEF StageOf, Onces
  <2>3. once[ProcOf(c)]["resolve"] = "done"
    BY <2>2 DEF IInv, StagesGuarded, Onces
  <2> QED
    BY <2>1, <2>3 DEF IInv, Initialised
<1> QED
  BY <1>1, Inductive, PTL

\* Whoever waits in pthread_once waits for a context of its own process.
THEOREM WaitersAreServed == Spec => []NoOrphanWait
<1>1. IInv => NoOrphanWait
  <2> SUFFICES ASSUME IInv, NEW c \in Contexts, NEW o \in Onces,
                      ProcOf(c) # NoProc, Waiting(c, o)
               PROVE  \E d \in Contexts : ProcOf(d) = ProcOf(c) /\ run[d] \in Steps(o)
    BY DEF NoOrphanWait
  <2>1. c[1] \in Threads /\ ProcOf(c) \in Procs
    BY ContextTypes DEF IInv
  <2>2. once[ProcOf(c)][o] \in {"new", "busy", "done"}
    BY <2>1 DEF IInv, TypeOK
  <2>3. once[ProcOf(c)][o] = "busy" /\ once_gen[ProcOf(c)][o] = fork_gen[ProcOf(c)]
    BY <2>2 DEF Waiting, Claimable
  <2> QED
    BY <2>1, <2>3 DEF IInv, BusyIsRun, ProcOf
<1> QED
  BY <1>1, Inductive, PTL

-----------------------------------------------------------------------------
\* A process image that has no thread has run nothing yet.
Unborn ==
  \A p \in Procs : (\A t \in Threads : home[t] # p) => once[p]["rewrite"] = "new"

\* A process image that does not exist yet stays as it was made.
LEMMA UnbornKept == IInv /\ Unborn /\ [Next]_vars => Unborn'
<1> SUFFICES ASSUME IInv, Unborn, [Next]_vars,
                    NEW p \in Procs, \A t \in Threads : home'[t] # p
             PROVE  once'[p]["rewrite"] = "new"
  BY DEF Unborn
<1>1. TypeOK /\ Frames
  BY DEF IInv
<1>2. \A c \in Contexts : c[1] \in Threads /\ ProcOf(c) = home[c[1]]
  BY DEF Contexts, ProcOf
<1>3. ASSUME UNCHANGED <<home, once>>
      PROVE  once'[p]["rewrite"] = "new"
  BY <1>3 DEF Unborn
<1>4. ASSUME NEW c \in Contexts, NEW o \in Onces, OnceBegin(c, o) \/ OnceEnd(c, o)
      PROVE  once'[p]["rewrite"] = "new"
  <2>1. home' = home /\ home[c[1]] # p /\ once[p]["rewrite"] = "new"
    BY <1>2, <1>4 DEF OnceBegin, OnceEnd, Unborn
  <2>2. once'[p] = once[p]
    BY <2>1, <1>1, <1>2, <1>4 DEF OnceBegin, OnceEnd, TypeOK
  <2> QED
    BY <2>1, <2>2
<1>5. ASSUME NEW c \in Contexts, NEW e \in Envs, Exec(c, e)
      PROVE  once'[p]["rewrite"] = "new"
  <2>1. /\ home' = [t \in Threads |-> IF home[t] = ProcOf(c) /\ t # c[1] THEN NoProc ELSE home[t]]
        /\ once' = [once EXCEPT ![ProcOf(c)] = [o \in Onces |-> "new"]]
    BY <1>5 DEF Exec
  <2>2. p # ProcOf(c)
    BY <2>1, <1>2
  <2>3. \A t \in Threads : home[t] # p
    BY <2>1, <2>2
  <2> QED
    BY <2>1, <2>2, <2>3, <1>1 DEF Unborn, TypeOK
<1>6. ASSUME NEW t \in Threads, NEW new \in Threads, Spawn(t, new)
      PROVE  once'[p]["rewrite"] = "new"
  <2>1. home[new] = NoProc /\ home' = [home EXCEPT ![new] = home[t]] /\ once' = once
    BY <1>6 DEF Spawn, memory
  <2>2. \A u \in Threads : home[u] # p
    BY <2>1, <1>1, LazyInitAssumption DEF TypeOK
  <2> QED
    BY <2>1, <2>2 DEF Unborn
<1>7. ASSUME NEW t \in Threads, NEW new \in Threads, NEW q \in Procs, Fork(t, q, new)
      PROVE  once'[p]["rewrite"] = "new"
  <2>1. /\ home[new] = NoProc /\ home' = [home EXCEPT ![new] = q]
        /\ once' = [once EXCEPT ![q] = once[home[t]]]
    BY <1>7 DEF Fork
  <2>2. p # q
    BY <2>1, <1>1 DEF TypeOK
  <2>3. \A u \in Threads : home[u] # p
    BY <2>1, <1>1, LazyInitAssumption DEF TypeOK
  <2> QED
    BY <2>1, <2>2, <2>3, <1>1 DEF Unborn, TypeOK
<1>8. CASE UNCHANGED vars
  BY <1>3, <1>8 DEF vars, memory
<1>9. ASSUME NEW c \in Contexts, OwnStep(c)
      PROVE  once'[p]["rewrite"] = "new"
  <2>1. CASE \E o \in Onces : OnceDone(c, o)
    BY <2>1, <1>3 DEF OnceDone, memory
  <2>2. CASE UsePolicy(c) \/ ReadBase(c) \/ RealCall(c) \/ ResolveSymbol(c) \/ SymbolsResolved(c)
    BY <2>2, <1>3 DEF UsePolicy, ReadBase, RealCall, ResolveSymbol, SymbolsResolved, memory
  <2>3. CASE \/ ResetPolicy(c) \/ ReadEnvironment(c)
             \/ StoreFrom(c) \/ StoreTo(c) \/ StoreLens(c) \/ Enable(c)
    BY <2>3, <1>3
       DEF PolicyStep, ResetPolicy, ReadEnvironment, StoreFrom, StoreTo, StoreLens, Enable
  <2> QED
    BY <1>9, <1>4, <2>1, <2>2, <2>3 DEF OwnStep
<1>10. ASSUME NEW c \in Contexts, NEW k \in Calls, Call(c, k)
       PROVE  once'[p]["rewrite"] = "new"
  BY <1>10, <1>3 DEF Call, memory
<1>11. ASSUME NEW t \in Threads, NEW e \in Envs, SetEnv(t, e)
       PROVE  once'[p]["rewrite"] = "new"
  BY <1>11, <1>3 DEF SetEnv, memory
<1> QED
  BY <1>5, <1>6, <1>7, <1>8, <1>9, <1>10, <1>11 DEF Next

\* So the memory of a process image without a thread is new.
LEMMA UnbornAlways == Spec => []Unborn
<1>1. Init => Unborn
  BY DEF Init, Unborn, Onces
<1>2. Unborn /\ IInv /\ [Next]_vars => Unborn'
  BY UnbornKept
<1> QED
  BY <1>1, <1>2, Inductive, PTL DEF Spec

\* A control that is done is not taken again, and nobody else writes the policy.
LEMMA PolicyKept ==
  ASSUME IInv, Unborn, [Next]_vars, NEW p \in Procs,
         once[p]["rewrite"] = "done", once'[p]["rewrite"] # "new"
  PROVE  policy'[p] = policy[p] /\ once'[p]["rewrite"] = "done"
<1>1. TypeOK /\ Frames /\ Ownership
  BY DEF IInv
<1>2. \A t, new \in Threads, q \in Procs : Fork(t, q, new) => p # q
  BY DEF Fork, Unborn
<1>3. ASSUME NEW t \in Threads, NEW new \in Threads, NEW q \in Procs, Fork(t, q, new)
      PROVE  policy'[p] = policy[p] /\ once'[p]["rewrite"] = "done"
  BY <1>1, <1>2, <1>3 DEF Fork, TypeOK
<1>4. ASSUME NEW c \in Contexts, NEW e \in Envs, Exec(c, e)
      PROVE  policy'[p] = policy[p] /\ once'[p]["rewrite"] = "done"
  <2>1. p # ProcOf(c)
    <3>1. p = ProcOf(c) => once'[p]["rewrite"] = "new"
      BY <1>1, <1>4 DEF Exec, TypeOK, Onces
    <3> QED
      BY <3>1
  <2> QED
    BY <2>1, <1>1, <1>4 DEF Exec, TypeOK
<1>5. ASSUME NEW c \in Contexts, NEW pol \in Policies, NEW e \in Envs \cup {Blank},
             NEW next \in PolicySteps, Store(c, pol, e, next)
      PROVE  policy'[p] = policy[p] /\ once'[p]["rewrite"] = "done"
  <2>1. run[c] \in Steps("rewrite") /\ "rewrite" \in Onces
    BY <1>5 DEF Store, Steps, Onces
  <2>2. p # ProcOf(c)
    BY <2>1, <1>1 DEF Ownership
  <2> QED
    BY <2>2, <1>1, <1>5 DEF Store, TypeOK
<1>6. ASSUME NEW c \in Contexts, OwnStep(c)
      PROVE  policy'[p] = policy[p] /\ once'[p]["rewrite"] = "done"
  <2>1. CASE \E o \in Onces : OnceDone(c, o)
    BY <2>1 DEF OnceDone, memory
  <2>4. CASE \E o \in Onces : OnceBegin(c, o) \/ OnceEnd(c, o)
    <3>1. PICK o \in Onces : OnceBegin(c, o) \/ OnceEnd(c, o)
      BY <2>4
    <3>2. policy' = policy
      BY <3>1 DEF OnceBegin, OnceEnd
    <3>3. CASE OnceBegin(c, o)
      <4>1. /\ once' = [once EXCEPT ![ProcOf(c)][o] = "busy"]
            /\ once[ProcOf(c)][o] # "done"
        BY <3>3 DEF OnceBegin, Claimable
      <4> QED
        BY <4>1, <3>2, <1>1 DEF TypeOK, Onces
    <3>4. CASE OnceEnd(c, o)
      <4>1. once' = [once EXCEPT ![ProcOf(c)][o] = "done"]
        BY <3>4 DEF OnceEnd
      <4> QED
        BY <4>1, <3>2, <1>1 DEF TypeOK, Onces
    <3> QED
      BY <3>1, <3>3, <3>4
  <2>2. CASE UsePolicy(c) \/ ReadBase(c) \/ RealCall(c) \/ ResolveSymbol(c) \/ SymbolsResolved(c)
    BY <2>2 DEF UsePolicy, ReadBase, RealCall, ResolveSymbol, SymbolsResolved, memory
  <2>3. CASE \/ ResetPolicy(c) \/ ReadEnvironment(c)
             \/ StoreFrom(c) \/ StoreTo(c) \/ StoreLens(c) \/ Enable(c)
    BY <2>3, <1>5, PolicyStepsStore
  <2> QED
    BY <1>6, <2>1, <2>2, <2>3, <2>4 DEF OwnStep
<1>7. ASSUME NEW c \in Contexts, NEW k \in Calls, Call(c, k)
      PROVE  policy'[p] = policy[p] /\ once'[p]["rewrite"] = "done"
  BY <1>7 DEF Call, memory
<1>8. ASSUME NEW t \in Threads, NEW new \in Threads, Spawn(t, new)
      PROVE  policy'[p] = policy[p] /\ once'[p]["rewrite"] = "done"
  BY <1>8 DEF Spawn, memory
<1>9. ASSUME NEW t \in Threads, NEW e \in Envs, SetEnv(t, e)
      PROVE  policy'[p] = policy[p] /\ once'[p]["rewrite"] = "done"
  BY <1>9 DEF SetEnv, memory
<1>10. CASE UNCHANGED vars
  BY <1>10 DEF vars, memory
<1> QED
  BY <1>3, <1>4, <1>6, <1>7, <1>8, <1>9, <1>10 DEF Next

\* The configuration of a process image is read once and never changes.
THEOREM OneSnapshot == Spec => SnapshotStable
<1>1. IInv /\ Unborn /\ [Next]_vars =>
        [\A p \in Procs : once[p]["rewrite"] = "done" /\ once'[p]["rewrite"] # "new"
           => policy'[p] = policy[p] /\ once'[p]["rewrite"] = "done"]_vars
  BY PolicyKept
<1> QED
  BY <1>1, Inductive, UnbornAlways, PTL DEF Spec, SnapshotStable
=============================================================================
