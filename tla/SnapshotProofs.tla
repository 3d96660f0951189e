--------------------------- MODULE SnapshotProofs ---------------------------
(***************************************************************************)
(* The start-up protocol implements Snapshot, for any number of threads,   *)
(* of processes and of environments. The invariant IInv of LazyInitProofs  *)
(* carries the argument: only one context of a process is in the           *)
(* initialiser, what it stores is what it read, and no call is past        *)
(* get_rewrite_policy before the control is done.                          *)
(***************************************************************************)
EXTENDS OnceSnapshot, LazyInitProofs

\* The steps of init_rewrite_policy after getenv.
Storing == {"from", "to", "lens", "enable", "set"}

\* A call is past get_rewrite_policy exactly at the stages that rely on it.
LEMMA ToldStages ==
  ASSUME NEW k \in Kinds, NEW n \in 0..7, n <= Len(Stages[k])
  PROVE  (\E i \in 1..(n - 1) : Stages[k][i] = "rewrite") <=> n \in After["rewrite"][k]
<1>0. \A i \in 1..(n - 1) : i \in {1, 2, 3, 4, 5, 6} /\ i < n
  OBVIOUS
<1>1. CASE k = "fd"
  <2>1. Len(Stages[k]) = 2 /\ Stages[k][1] = "resolve" /\ Stages[k][2] = "real"
    BY <1>1 DEF Stages, FdCall
  <2>2. \A i \in 1..(n - 1) : i = 1
    BY <2>1
  <2>3. After["rewrite"][k] = {}
    BY <1>1 DEF After
  <2> QED
    BY <2>1, <2>2, <2>3
<1>2. CASE k = "absolute"
  <2>1. Len(Stages[k]) = 4 /\ Stages[k][1] = "rewrite"
    BY <1>2 DEF Stages, AbsoluteCall
  <2>2. n \in {2, 3, 4} <=> 1 \in 1..(n - 1)
    BY <2>1
  <2>3. /\ Stages[k][2] = "use" /\ Stages[k][3] = "resolve" /\ Stages[k][4] = "real"
    BY <1>2 DEF Stages, AbsoluteCall
  <2>4. \A i \in 1..(n - 1) : i \in {1, 2, 3}
    BY <2>1
  <2>5. After["rewrite"][k] = {2, 3, 4}
    BY <1>2 DEF After
  <2> QED
    BY <2>1, <2>2, <2>3, <2>4, <2>5
<1>3. CASE k = "relative"
  <2>1. /\ Stages[k][1] = "rewrite" /\ Stages[k][2] = "use" /\ Stages[k][3] = "resolve"
        /\ Stages[k][4] = "base" /\ Stages[k][5] = "use" /\ Stages[k][6] = "resolve"
    BY <1>3 DEF Stages, RelativeCall
  <2>2. n \in {2, 3, 4, 5, 6, 7} <=> 1 \in 1..(n - 1)
    OBVIOUS
  <2>3. After["rewrite"][k] = {2, 3, 4, 5, 6, 7}
    BY <1>3 DEF After
  <2> QED
    BY <1>0, <2>1, <2>2, <2>3
<1>4. CASE k = "getcwd"
  <2>1. /\ Len(Stages[k]) = 4 /\ Stages[k][1] = "resolve" /\ Stages[k][2] = "real"
        /\ Stages[k][3] = "rewrite"
    BY <1>4 DEF Stages, GetcwdCall
  <2>2. n = 4 <=> 3 \in 1..(n - 1)
    BY <2>1
  <2>3. \A i \in 1..(n - 1) : i \in {1, 2, 3}
    BY <2>1
  <2>4. After["rewrite"][k] = {4}
    BY <1>4 DEF After
  <2> QED
    BY <2>1, <2>2, <2>3, <2>4
<1> QED
  BY <1>1, <1>2, <1>3, <1>4 DEF Kinds

\* No call ends with get_rewrite_policy.
LEMMA RewriteIsNotLast ==
  ASSUME NEW k \in Kinds, NEW i \in 1..Len(Stages[k]), Stages[k][i] = "rewrite"
  PROVE  i + 1 <= Len(Stages[k])
<1>1. CASE k = "fd"
  <2>1. Len(Stages[k]) = 2 /\ Stages[k][2] = "real"
    BY <1>1 DEF Stages, FdCall
  <2> QED
    BY <2>1
<1>2. CASE k = "absolute"
  <2>1. Len(Stages[k]) = 4 /\ Stages[k][4] = "real"
    BY <1>2 DEF Stages, AbsoluteCall
  <2> QED
    BY <2>1
<1>3. CASE k = "relative"
  <2>1. Len(Stages[k]) = 7 /\ Stages[k][7] = "real"
    BY <1>3 DEF Stages, RelativeCall
  <2> QED
    BY <2>1
<1>4. CASE k = "getcwd"
  <2>1. Len(Stages[k]) = 4 /\ Stages[k][4] = "use"
    BY <1>4 DEF Stages, GetcwdCall
  <2> QED
    BY <2>1
<1> QED
  BY <1>1, <1>2, <1>3, <1>4 DEF Kinds

\* Whoever was told the policy is in a process whose control is done.
ToldDone ==
  \A c \in Contexts : Told(c) => /\ ProcOf(c) \in Procs /\ ProcOf(c) # NoProc
                                 /\ once[ProcOf(c)]["rewrite"] = "done"

LEMMA ToldIsDone == IInv => ToldDone
<1> SUFFICES ASSUME IInv, NEW c \in Contexts, Told(c)
             PROVE  /\ ProcOf(c) \in Procs /\ ProcOf(c) # NoProc
                    /\ once[ProcOf(c)]["rewrite"] = "done"
  BY DEF ToldDone
<1>1. TypeOK /\ Frames /\ StagesGuarded
  BY DEF IInv
<1>2. kind[c] \in Kinds /\ pos[c] \in 0..7 /\ pos[c] <= Len(Stages[kind[c]])
  BY <1>1, ContextTypes DEF Last
<1>3. pos[c] > 0
  BY <1>2 DEF Told
<1>4. pos[c] \in After["rewrite"][kind[c]]
  BY <1>2, ToldStages DEF Told
<1>5. once[ProcOf(c)]["rewrite"] = "done"
  BY <1>1, <1>4 DEF StagesGuarded, Onces
<1> QED
  BY <1>1, <1>3, <1>5, StageReached, LazyInitAssumption

LEMMA ToldIsDoneNext == IInv' => ToldDone'
  BY ToldIsDone, PTL

\* The policy of a control that is done is a complete one.
LEMMA DoneIsComplete ==
  ASSUME IInv, NEW p \in Procs, once[p]["rewrite"] = "done"
  PROVE  /\ policy[p] \in Policies /\ policy[p] # Unset
         /\ ConfigOf(p) = policy[p] /\ config[p] = policy[p] /\ settled[p] = TRUE
  BY UnsetAssumption DEF IInv, TypeOK, ConfigOf, config, settled

\* A context that stores the policy is the only one, in a process whose control
\* is busy, and the configuration is what it read.
LEMMA TakerConfig ==
  ASSUME IInv, NEW c \in Contexts, run[c] \in Storing
  PROVE  /\ ProcOf(c) \in Procs /\ ProcOf(c) # NoProc
         /\ once[ProcOf(c)]["rewrite"] = "busy"
         /\ Takers(ProcOf(c)) = {c} /\ ConfigOf(ProcOf(c)) = PolicyOf(snap[c])
<1>1. TypeOK /\ Frames /\ Ownership /\ OneInitialiser
  BY DEF IInv
<1>2. /\ "rewrite" \in Onces /\ Storing \subseteq Steps("rewrite") /\ run[c] # "out"
  BY DEF Onces, Storing, Steps, PolicySteps
<1>3. ProcOf(c) \in Procs /\ ProcOf(c) # NoProc
  BY <1>1, <1>2, ContextTypes DEF Frames
<1>4. once[ProcOf(c)]["rewrite"] = "busy"
  BY <1>1, <1>2 DEF Ownership
<1>5. Takers(ProcOf(c)) = {c}
  <2>1. \A d \in Contexts : ProcOf(d) = ProcOf(c) /\ run[d] \in Storing => d = c
    BY <1>1, <1>2, <1>3 DEF OneInitialiser
  <2> QED
    BY <2>1 DEF Takers, Storing
<1> QED
  BY <1>3, <1>4, <1>5 DEF ConfigOf, OnlyOf

\* The configurations depend on the controls, on the policies of those that are
\* done, and on who stores what.
LEMMA SameConfigs ==
  ASSUME UNCHANGED <<home, once>>,
         \A p \in Procs : once[p]["rewrite"] = "done" => policy'[p] = policy[p],
         \A d \in Contexts : run'[d] \in Storing <=> run[d] \in Storing,
         \A d \in Contexts : run[d] \in Storing => snap'[d] = snap[d]
  PROVE  config' = config /\ settled' = settled
<1>1. \A p \in Procs : Takers(p)' = Takers(p)
  BY DEF Takers, Storing, ProcOf
<1>2. \A p \in Procs : Takers(p) # {} => OnlyOf(Takers(p)) \in Takers(p)
  BY DEF OnlyOf
<1>3. \A p \in Procs : Takers(p) # {} => snap'[OnlyOf(Takers(p))] = snap[OnlyOf(Takers(p))]
  BY <1>2 DEF Takers, Storing
<1>4. \A p \in Procs : ConfigOf(p)' = ConfigOf(p)
  BY <1>1, <1>3 DEF ConfigOf
<1> QED
  BY <1>4 DEF config, settled

\* A context is told the policy once the control is done, and keeps seeing it.
LEMMA SameViews ==
  ASSUME UNCHANGED <<home, kind, pos>>,
         \A d \in Contexts : Told(d) => policy'[ProcOf(d)] = policy[ProcOf(d)]
  PROVE  view' = view
<1>1. \A d \in Contexts : Told(d)' <=> Told(d)
  BY DEF Told
<1>2. \A d \in Contexts : ProcOf(d)' = ProcOf(d)
  BY DEF ProcOf
<1> QED
  BY <1>1, <1>2 DEF view

\* A step that moves only c along its call tells it the policy, or not.
LEMMA ViewMoves ==
  ASSUME IInv, IInv', NEW c \in Contexts, UNCHANGED <<home, env, once, policy, run, snap>>,
         \A d \in Contexts : d # c => pos'[d] = pos[d] /\ kind'[d] = kind[d]
  PROVE  Once!Tell(c) \/ Once!Return(c)
<1>1. \A d \in Contexts : ProcOf(d)' = ProcOf(d)
  BY DEF ProcOf
<1>2. \A d \in Contexts : d # c => (Told(d)' <=> Told(d))
  BY DEF Told
<1>3. config' = config /\ settled' = settled
  BY SameConfigs
<1>4. c \in Once!Contexts /\ ProcOf(c) = home[c[1]]
  BY DEF Contexts, Once!Contexts, ProcOf
<1>5. view = [d \in Contexts |-> view[d]] /\ view' = [d \in Contexts |-> view'[d]]
  BY DEF view
<1>6. \A d \in Contexts : d # c => view'[d] = view[d]
  BY <1>1, <1>2 DEF view
<1>7. ProcOf(c) = home[c[1]] /\ view'[c] = IF Told(c)' THEN policy[ProcOf(c)] ELSE Unset
  BY <1>1 DEF view, ProcOf
<1>8. CASE ~ Told(c)'
  <2>1. view' = [view EXCEPT ![c] = Unset]
    BY <1>5, <1>6, <1>7, <1>8
  <2> QED
    BY <2>1, <1>3 DEF Once!Return
<1>9. CASE Told(c)'
  <2>1. ToldDone'
    BY ToldIsDoneNext
  <2>2. /\ ProcOf(c) \in Procs /\ ProcOf(c) # NoProc
        /\ once[ProcOf(c)]["rewrite"] = "done"
    BY <2>1, <1>1, <1>9 DEF ToldDone
  <2>3. /\ policy[ProcOf(c)] # Unset /\ config[ProcOf(c)] = policy[ProcOf(c)]
        /\ settled[ProcOf(c)] = TRUE
    BY <2>2, DoneIsComplete
  <2>4. view' = [view EXCEPT ![c] = config[ProcOf(c)]]
    BY <2>3, <1>5, <1>6, <1>7, <1>9
  <2>5. settled' = [settled EXCEPT ![ProcOf(c)] = TRUE]
    BY <2>3, <1>3 DEF settled
  <2> QED
    BY <2>2, <2>3, <2>4, <2>5, <1>3, <1>7 DEF Once!Tell
<1> QED
  BY <1>8, <1>9

\* The steps of a call outside the initialisers.
LEMMA MoveTells ==
  ASSUME IInv, IInv', NEW c \in Contexts,
         \/ \E o \in Onces : OnceDone(c, o)
         \/ UsePolicy(c) \/ ReadBase(c) \/ RealCall(c)
  PROVE  [Once!Next]_(Once!vars)
<1>1. TypeOK /\ Frames /\ StagesGuarded
  BY DEF IInv
<1>2. PICK i \in 1..8 : Move(c, i)
  BY <1>1, CallMoves
<1>3. \A d \in Contexts : d # c => pos'[d] = pos[d] /\ kind'[d] = kind[d]
  BY <1>1, <1>2, GoToEffect DEF Move
<1>4. UNCHANGED <<home, env, once, policy, run, snap>>
  BY <1>2 DEF Move, memory
<1>5. c \in Once!Contexts
  BY DEF Contexts, Once!Contexts
<1> QED
  BY <1>3, <1>4, <1>5, ViewMoves DEF Once!Next

\* A new call has been told nothing.
LEMMA CallTells ==
  ASSUME IInv, IInv', NEW c \in Contexts, NEW k \in Calls, Call(c, k)
  PROVE  [Once!Next]_(Once!vars)
<1>1. UNCHANGED <<home, env, once, policy, run, snap>>
  BY DEF Call, memory
<1>2. \A d \in Contexts : d # c => pos'[d] = pos[d] /\ kind'[d] = kind[d]
  BY DEF Call, IInv, TypeOK
<1>3. c \in Once!Contexts
  BY DEF Contexts, Once!Contexts
<1> QED
  BY <1>1, <1>2, <1>3, ViewMoves DEF Once!Next

\* Taking a control changes no configuration.
LEMMA OnceBeginTells ==
  ASSUME IInv, IInv', NEW c \in Contexts, NEW o \in Onces, OnceBegin(c, o)
  PROVE  UNCHANGED Once!vars
<1> DEFINE p == ProcOf(c)
<1>1. TypeOK /\ Frames
  BY DEF IInv
<1>2. /\ Scheduled(c) /\ run[c] = "out" /\ once[p][o] # "done"
      /\ once' = [once EXCEPT ![p][o] = "busy"]
      /\ run' = [run EXCEPT ![c] = FirstStep(o)]
      /\ UNCHANGED <<home, env, policy, kind, pos, snap>>
  BY DEF OnceBegin, At, Claimable
<1>3. p \in Procs
  BY <1>1, <1>2, ScheduledContext
<1>4. \A q \in Procs : once'[q]["rewrite"] = "done" <=> once[q]["rewrite"] = "done"
  BY <1>1, <1>2, <1>3 DEF TypeOK, Onces
<1>5. \A d \in Contexts : run'[d] \in Storing <=> run[d] \in Storing
  <2>1. FirstStep(o) \notin Storing /\ "out" \notin Storing
    BY DEF FirstStep, Storing
  <2> QED
    BY <2>1, <1>1, <1>2 DEF TypeOK
<1>6. \A q \in Procs : Takers(q)' = Takers(q)
  BY <1>2, <1>5 DEF Takers, Storing, ProcOf
<1>7. \A q \in Procs : ConfigOf(q)' = ConfigOf(q)
  BY <1>2, <1>4, <1>6 DEF ConfigOf
<1>8. config' = config /\ settled' = settled
  BY <1>4, <1>7 DEF config, settled
<1>9. view' = view
  BY <1>2, SameViews
<1> QED
  BY <1>2, <1>8, <1>9 DEF Once!vars

\* The end of the initialiser tells its caller what was taken before.
LEMMA OnceEndTells ==
  ASSUME IInv, IInv', NEW c \in Contexts, NEW o \in Onces, OnceEnd(c, o)
  PROVE  [Once!Next]_(Once!vars)
<1> DEFINE p == ProcOf(c)
<1>1. TypeOK /\ Frames /\ PolicyBuilt
  BY DEF IInv
<1>2. /\ Scheduled(c) /\ run[c] = LastStep(o)
      /\ once' = [once EXCEPT ![p][o] = "done"]
      /\ run' = [run EXCEPT ![c] = "out"]
      /\ snap' = [snap EXCEPT ![c] = Blank]
      /\ GoTo(c, pos[c] + 1)
      /\ UNCHANGED <<home, env, policy>>
  BY DEF OnceEnd, Advance
<1>3. /\ p \in Procs /\ p = home[c[1]] /\ p # NoProc
      /\ pos[c] \in 1..Len(Stages[kind[c]]) /\ kind[c] \in Kinds
      /\ Last(c) = Len(Stages[kind[c]]) /\ Last(c) \in {2, 4, 7}
  BY <1>1, <1>2, ScheduledContext, ContextTypes, LazyInitAssumption DEF Last, ProcOf
<1>4. c \in Once!Contexts
  BY DEF Contexts, Once!Contexts
<1>5. /\ \A d \in Contexts : d # c => pos'[d] = pos[d] /\ kind'[d] = kind[d]
      /\ \/ pos'[c] = 0
         \/ pos'[c] = pos[c] + 1 /\ kind'[c] = kind[c]
  <2>1. pos[c] \in 0..7
    BY <1>1, ContextTypes
  <2>2. pos[c] + 1 \in 1..8
    BY <2>1
  <2> QED
    BY <2>2, <1>1, <1>2, GoToEffect
<1>6. \A d \in Contexts : ProcOf(d)' = ProcOf(d)
  BY <1>2 DEF ProcOf
<1>7. /\ \A d \in Contexts : d # c => (Told(d)' <=> Told(d))
      /\ view = [d \in Contexts |-> view[d]] /\ view' = [d \in Contexts |-> view'[d]]
  BY <1>5 DEF Told, view
<1>8. \A d \in Contexts : d # c => view'[d] = view[d]
  BY <1>2, <1>6, <1>7 DEF view
<1>9. \A d \in Contexts : d # c => run'[d] = run[d] /\ snap'[d] = snap[d]
  BY <1>1, <1>2 DEF TypeOK
<1>10. CASE o = "resolve"
  <2>1. run[c] \notin Storing /\ run'[c] \notin Storing
    BY <1>1, <1>2, <1>10 DEF LastStep, Storing, TypeOK
  <2>2. \A q \in Procs : once'[q]["rewrite"] = once[q]["rewrite"]
    BY <1>1, <1>2, <1>3, <1>10 DEF TypeOK, Onces
  <2>3. \A q \in Procs : Takers(q)' = Takers(q)
    BY <2>1, <1>6, <1>9 DEF Takers, Storing
  <2>4. \A q \in Procs : Takers(q) # {} => snap'[OnlyOf(Takers(q))] = snap[OnlyOf(Takers(q))]
    <3>1. \A q \in Procs : Takers(q) # {} => OnlyOf(Takers(q)) \in Takers(q)
      BY DEF OnlyOf
    <3>2. \A q \in Procs : \A d \in Takers(q) : d \in Contexts /\ d # c
      BY <2>1 DEF Takers, Storing
    <3> QED
      BY <3>1, <3>2, <1>9
  <2>5. config' = config /\ settled' = settled
    <3>1. \A q \in Procs : ConfigOf(q)' = ConfigOf(q)
      BY <2>2, <2>3, <2>4, <1>2 DEF ConfigOf
    <3> QED
      BY <3>1, <2>2 DEF config, settled
  <2>6. CASE ~ Told(c)'
    <3>1. view'[c] = Unset
      BY <2>6 DEF view
    <3>2. view' = [view EXCEPT ![c] = Unset]
      BY <3>1, <1>7, <1>8
    <3> QED
      BY <3>2, <2>5, <1>2, <1>4 DEF Once!Return, Once!Next
  <2>7. CASE Told(c)'
    <3>1. once'[p]["rewrite"] = "done"
      BY <2>7, <1>6, ToldIsDoneNext DEF ToldDone
    <3>2. once[p]["rewrite"] = "done"
      BY <3>1, <2>2, <1>3
    <3>3. policy[p] # Unset /\ config[p] = policy[p] /\ settled[p] = TRUE
      BY <3>2, <1>3, DoneIsComplete
    <3>4. view' = [view EXCEPT ![c] = config[p]]
      <4>1. view'[c] = policy[p]
        BY <2>7, <1>2, <1>6 DEF view
      <4> QED
        BY <4>1, <3>3, <1>7, <1>8
    <3>5. settled' = [settled EXCEPT ![p] = TRUE]
      BY <3>3, <2>5 DEF settled
    <3>6. Once!Tell(c)
      BY <3>3, <3>4, <3>5, <2>5, <1>2, <1>3 DEF Once!Tell
    <3> QED
      BY <3>6, <1>4 DEF Once!Next
  <2> QED
    BY <2>6, <2>7
<1>11. CASE o = "rewrite"
  <2>1. run[c] = "set" /\ run[c] \in Storing
    BY <1>2, <1>11 DEF LastStep, Storing
  <2>2. /\ once[p]["rewrite"] = "busy" /\ Takers(p) = {c}
        /\ ConfigOf(p) = PolicyOf(snap[c])
    BY <2>1, TakerConfig
  <2>3. policy[p] = PolicyOf(snap[c])
    BY <2>1, <1>1 DEF PolicyBuilt, Built
  <2>4. policy[p] # Unset
    BY <1>1, <1>3, UnsetAssumption DEF TypeOK
  <2>5. /\ once'[p]["rewrite"] = "done"
        /\ \A q \in Procs : q # p => once'[q] = once[q]
    BY <1>1, <1>2, <1>3, <1>11 DEF TypeOK, Onces
  <2>6. \A q \in Procs : ConfigOf(q)' = ConfigOf(q)
    <3>1. ASSUME NEW q \in Procs, q = p
          PROVE  ConfigOf(q)' = ConfigOf(q)
      <4>1. ConfigOf(q) = policy[q]
        BY <3>1, <2>2, <2>3
      <4>2. once'[q]["rewrite"] = "done"
        BY <3>1, <2>5
      <4> QED
        BY <4>1, <4>2, <1>2 DEF ConfigOf
    <3>2. ASSUME NEW q \in Procs, q # p
          PROVE  ConfigOf(q)' = ConfigOf(q)
      <4>1. \A d \in Takers(q) : d \in Contexts /\ d # c
        BY <3>2 DEF Takers
      <4>2. Takers(q)' = Takers(q)
        BY <3>2, <1>6, <1>9 DEF Takers
      <4>3. Takers(q) # {} => OnlyOf(Takers(q)) \in Takers(q)
        BY DEF OnlyOf
      <4> QED
        BY <4>1, <4>2, <4>3, <3>2, <2>5, <1>2, <1>9 DEF ConfigOf
    <3> QED
      BY <3>1, <3>2
  <2>7. config' = config /\ config[p] = policy[p] /\ settled' = [settled EXCEPT ![p] = TRUE]
    BY <2>2, <2>3, <2>5, <2>6, <1>3 DEF config, settled
  <2>8. Told(c)'
    <3>1. StageOf(c) = "rewrite"
      BY <2>1, <1>1 DEF Frames, Steps, PolicySteps, Storing, Onces
    <3>2. pos[c] + 1 <= Last(c)
      BY <3>1, <1>3, RewriteIsNotLast DEF StageOf
    <3>3. pos' = [pos EXCEPT ![c] = pos[c] + 1] /\ kind' = kind
      BY <3>2, <1>2, <1>3 DEF GoTo
    <3>4. pos'[c] = pos[c] + 1 /\ pos[c] \in 1..(pos'[c] - 1)
      BY <3>3, <1>1, <1>3 DEF TypeOK
    <3> QED
      BY <3>1, <3>3, <3>4 DEF Told, StageOf
  <2>9. view' = [view EXCEPT ![c] = config[p]]
    <3>1. view'[c] = policy[p]
      BY <2>8, <1>2, <1>6 DEF view
    <3> QED
      BY <3>1, <2>7, <1>7, <1>8
  <2>10. Once!Tell(c)
    BY <2>4, <2>7, <2>9, <1>2, <1>3 DEF Once!Tell
  <2> QED
    BY <2>10, <1>4 DEF Once!Next
<1> QED
  BY <1>10, <1>11 DEF Onces

\* A step of init_rewrite_policy: its getenv takes the configuration, its stores
\* are hidden from everybody.
LEMMA StoreTakes ==
  ASSUME IInv, IInv', NEW c \in Contexts,
         \/ ResetPolicy(c) \/ ReadEnvironment(c)
         \/ StoreFrom(c) \/ StoreTo(c) \/ StoreLens(c) \/ Enable(c)
  PROVE  [Once!Next]_(Once!vars)
<1> DEFINE p == ProcOf(c)
<1>1. TypeOK /\ Frames /\ Ownership /\ OneInitialiser
  BY DEF IInv
<1>2. PICK pol \in Policies, e \in Envs \cup {Blank}, next \in PolicySteps : Store(c, pol, e, next)
  BY PolicyStepsStore
<1>3. /\ Scheduled(c) /\ run[c] \in PolicySteps
      /\ policy' = [policy EXCEPT ![p] = pol]
      /\ run' = [run EXCEPT ![c] = next] /\ snap' = [snap EXCEPT ![c] = e]
      /\ UNCHANGED <<home, env, once, kind, pos>>
  BY <1>2 DEF Store
<1>4. p \in Procs
  BY <1>1, <1>3, ScheduledContext
<1>5. /\ "rewrite" \in Onces /\ run[c] \in Steps("rewrite") /\ once[p]["rewrite"] = "busy"
  BY <1>1, <1>3 DEF Onces, Steps, Ownership
<1>6. \A q \in Procs : q # p => policy'[q] = policy[q]
  BY <1>1, <1>3, <1>4 DEF TypeOK
<1>7. view' = view
  <2>1. \A d \in Contexts : Told(d) => ProcOf(d) \in Procs /\ ProcOf(d) # p
    BY <1>5, ToldIsDone DEF ToldDone
  <2> QED
    BY <2>1, <1>3, <1>6, SameViews
<1>8. \A d \in Contexts : ProcOf(d)' = ProcOf(d)
  BY <1>3 DEF ProcOf
<1>9. \A d \in Contexts : d # c => run'[d] = run[d] /\ snap'[d] = snap[d]
  BY <1>1, <1>3 DEF TypeOK
<1>10. \A q \in Procs : once[q]["rewrite"] = "done" => policy'[q] = policy[q]
  BY <1>5, <1>6
<1>11. CASE ~ ReadEnvironment(c)
  <2>1. run'[c] \in Storing <=> run[c] \in Storing
    <3>1. run'[c] = next
      BY <1>1, <1>3 DEF TypeOK
    <3>2. \E s \in PolicySteps :
            run' = [run EXCEPT ![c] = s] /\ (s \in Storing <=> run[c] \in Storing)
      BY <1>11 DEF PolicyStep, ResetPolicy, ReadEnvironment, StoreFrom, StoreTo, StoreLens, Enable,
                   Storing, PolicySteps
    <3> QED
      BY <3>2, <1>1 DEF TypeOK
  <2>2. snap' = snap
    BY <1>11 DEF ResetPolicy, StoreFrom, StoreTo, StoreLens, Enable
  <2>3. config' = config /\ settled' = settled
    BY <2>1, <2>2, <1>3, <1>9, <1>10, SameConfigs
  <2> QED
    BY <2>3, <1>3, <1>7 DEF Once!vars
<1>12. CASE ReadEnvironment(c)
  <2>1. run[c] = "getenv" /\ run'[c] \in Storing /\ snap'[c] = env[p]
    BY <1>1, <1>12 DEF ReadEnvironment, PolicyStep, TypeOK, Storing
  <2>2. Takers(p) = {}
    <3>1. ASSUME NEW d \in Takers(p)
          PROVE  FALSE
      <4>1. d \in Contexts /\ ProcOf(d) = p /\ run[d] \in Storing
        BY DEF Takers, Storing
      <4>2. run[d] \in Steps("rewrite") /\ p # NoProc /\ "getenv" \notin Storing
        BY <4>1, <1>4, LazyInitAssumption DEF Storing, Steps, PolicySteps
      <4>3. d = c
        BY <4>1, <4>2, <1>1, <1>5 DEF OneInitialiser
      <4> QED
        BY <4>1, <4>2, <4>3, <2>1
    <3> QED
      BY <3>1
  <2>3. config[p] = Unset
    BY <2>2, <1>4, <1>5 DEF config, ConfigOf
  <2>4. Takers(p)' = {c}
    <3>1. ASSUME NEW q \in Procs, q = p
          PROVE  Takers(q)' = {c}
      <4>1. \A d \in Contexts : d # c => ~ (ProcOf(d) = p /\ run[d] \in Storing)
        BY <2>2 DEF Takers, Storing
      <4> QED
        BY <4>1, <3>1, <2>1, <1>8, <1>9 DEF Takers, Storing
    <3>2. ProcOf(c)' = p
      BY <1>8
    <3> QED
      BY <3>1, <3>2, <1>4
  <2>5. config'[p] = PolicyOf(env[p])
    <3>1. ASSUME NEW q \in Procs, q = p
          PROVE  ConfigOf(q)' = PolicyOf(env[q])
      <4>1. Takers(q)' = {c}
        BY <3>1, <2>4, <1>8
      <4>2. OnlyOf({c}) = c
        BY DEF OnlyOf
      <4> QED
        BY <4>1, <4>2, <3>1, <2>1, <1>3, <1>5 DEF ConfigOf
    <3> QED
      BY <3>1, <1>4 DEF config
  <2>6. \A q \in Procs : q # p => config'[q] = config[q]
    <3>1. ASSUME NEW q \in Procs, q # p
          PROVE  ConfigOf(q)' = ConfigOf(q)
      <4>1. \A d \in Takers(q) : d \in Contexts /\ d # c
        BY <3>1 DEF Takers
      <4>2. Takers(q)' = Takers(q)
        BY <3>1, <1>8, <1>9 DEF Takers
      <4>3. Takers(q) # {} => OnlyOf(Takers(q)) \in Takers(q)
        BY DEF OnlyOf
      <4> QED
        BY <4>1, <4>2, <4>3, <3>1, <1>3, <1>6, <1>9 DEF ConfigOf
    <3> QED
      BY <3>1 DEF config
  <2>7. config' = [config EXCEPT ![p] = PolicyOf(env[p])]
    <3>1. config = [q \in Procs |-> config[q]] /\ config' = [q \in Procs |-> config'[q]]
      BY DEF config
    <3> QED
      BY <3>1, <2>5, <2>6
  <2>8. env[p] \in Envs
    BY <1>1, <1>4 DEF TypeOK
  <2>9. settled' = settled
    BY <1>3 DEF settled
  <2>10. Once!Take(p)
    BY <2>3, <2>7, <2>8, <2>9, <1>3, <1>7 DEF Once!Take
  <2> QED
    BY <2>10, <1>4 DEF Once!Next
<1> QED
  BY <1>11, <1>12

\* The steps of resolve_symbols have nothing to do with the configuration.
LEMMA SymbolTells ==
  ASSUME IInv, IInv', NEW c \in Contexts, ResolveSymbol(c) \/ SymbolsResolved(c)
  PROVE  UNCHANGED Once!vars
<1>1. TypeOK
  BY DEF IInv
<1>2. /\ UNCHANGED <<home, env, once, policy, kind, pos, snap>>
      /\ run[c] = "dlsym"
      /\ run' = run \/ run' = [run EXCEPT ![c] = "resolved"]
  BY DEF ResolveSymbol, SymbolsResolved, memory
<1>3. \A d \in Contexts : run'[d] \in Storing <=> run[d] \in Storing
  BY <1>1, <1>2 DEF TypeOK, Storing
<1>4. config' = config /\ settled' = settled /\ view' = view
  BY <1>2, <1>3, SameConfigs, SameViews
<1> QED
  BY <1>2, <1>4 DEF Once!vars

\* A new thread has been told nothing; a child finds the configuration of its
\* parent if that was settled.
LEMMA NewThreadTells ==
  ASSUME IInv, IInv', NEW t \in Threads, NEW new \in Threads, NEW q \in Procs,
         Spawn(t, new) \/ Fork(t, q, new)
  PROVE  [Once!Next]_(Once!vars)
<1> DEFINE p == home[t]
<1>1. TypeOK /\ Frames
  BY DEF IInv
<1>2. /\ p \in Procs /\ p # NoProc /\ home[new] = NoProc
      /\ UNCHANGED <<kind, pos, run, snap>>
  BY <1>1, LazyInitAssumption DEF Spawn, Fork, Free, TypeOK, frames
<1>3. \A d \in Contexts : d[1] \in Threads
  BY DEF Contexts
<1>4. \A d \in Contexts : d[1] = new => pos[d] = 0 /\ run[d] = "out"
  BY <1>1, <1>2 DEF Frames, ProcOf
<1>5. \A d \in Contexts : Told(d) => d[1] # new
  <2>1. \A d \in Contexts : Told(d) => ProcOf(d) # NoProc
    BY ToldIsDone DEF ToldDone
  <2> QED
    BY <2>1, <1>2 DEF ProcOf
<1>6. \A d \in Contexts : Told(d)' <=> Told(d)
  BY <1>2 DEF Told
<1>7. "out" \notin Storing
  BY DEF Storing
<1>8. CASE Spawn(t, new)
  <2>1. /\ home' = [home EXCEPT ![new] = p]
        /\ UNCHANGED <<env, once, policy>>
    BY <1>8 DEF Spawn, memory
  <2>2. \A d \in Contexts : d[1] # new => ProcOf(d)' = ProcOf(d)
    BY <2>1, <1>1, <1>3 DEF ProcOf, TypeOK
  <2>3. \A r \in Procs : Takers(r)' = Takers(r)
    <3>1. \A d \in Contexts : run[d] \in Storing => d[1] # new
      BY <1>4, <1>7
    <3> QED
      BY <3>1, <2>2, <1>2 DEF Takers, Storing
  <2>4. \A r \in Procs : ConfigOf(r)' = ConfigOf(r)
    BY <2>1, <2>3, <1>2 DEF ConfigOf
  <2>5. config' = config /\ settled' = settled
    BY <2>1, <2>4 DEF config, settled
  <2>6. view' = view
    BY <2>1, <2>2, <1>5, <1>6 DEF view
  <2>7. Once!Spawn(t, new)
    BY <2>1, <2>5, <2>6, <1>2 DEF Once!Spawn
  <2> QED
    BY <2>7 DEF Once!Next
<1>9. CASE Fork(t, q, new)
  <2>1. /\ q # p /\ \A u \in Threads : home[u] # q
        /\ home' = [home EXCEPT ![new] = q]
        /\ env' = [env EXCEPT ![q] = env[p]]
        /\ once' = [once EXCEPT ![q] = once[p]]
        /\ policy' = [policy EXCEPT ![q] = policy[p]]
    BY <1>9 DEF Fork
  <2>2. /\ once'[q] = once[p] /\ policy'[q] = policy[p]
        /\ \A r \in Procs : r # q => once'[r] = once[r] /\ policy'[r] = policy[r]
    BY <2>1, <1>1 DEF TypeOK
  <2>3. \A d \in Contexts : /\ d[1] # new => ProcOf(d)' = ProcOf(d) /\ ProcOf(d) # q
                            /\ d[1] = new => ProcOf(d)' = q
    BY <2>1, <1>1, <1>3 DEF ProcOf, TypeOK
  <2>4. \A d \in Contexts : run[d] \in Storing => d[1] # new
    BY <1>4, <1>7
  <2>5. \A r \in Procs : r # q => Takers(r)' = Takers(r)
    BY <2>3, <2>4, <1>2 DEF Takers, Storing
  <2>6. Takers(q)' = {}
    <3>1. ASSUME NEW r \in Procs, r = q
          PROVE  Takers(r)' = {}
      <4>1. \A d \in Contexts : run[d] \in Storing => ProcOf(d)' # q
        BY <2>3, <2>4
      <4> QED
        BY <4>1, <3>1, <1>2 DEF Takers, Storing
    <3> QED
      BY <3>1
  <2>7. settled' = [settled EXCEPT ![q] = settled[p]]
    BY <2>2, <1>2 DEF settled
  <2>8. config'[q] = IF settled[p] THEN config[p] ELSE Unset
    <3>1. ConfigOf(q)' = IF once[p]["rewrite"] = "done" THEN policy[p] ELSE Unset
      BY <2>2, <2>6 DEF ConfigOf
    <3>2. once[p]["rewrite"] = "done" => ConfigOf(p) = policy[p]
      BY DEF ConfigOf
    <3> QED
      BY <3>1, <3>2, <1>2 DEF config, settled
  <2>9. \A r \in Procs : r # q => config'[r] = config[r]
    <3>1. ASSUME NEW r \in Procs, r # q
          PROVE  ConfigOf(r)' = ConfigOf(r)
      BY <3>1, <2>2, <2>5, <1>2 DEF ConfigOf
    <3> QED
      BY <3>1 DEF config
  <2>10. config' = [config EXCEPT ![q] = IF settled[p] THEN config[p] ELSE Unset]
    <3>1. config = [r \in Procs |-> config[r]] /\ config' = [r \in Procs |-> config'[r]]
      BY DEF config
    <3> QED
      BY <3>1, <2>8, <2>9
  <2>11. view' = view
    <3>1. \A d \in Contexts :
            Told(d) => ProcOf(d)' = ProcOf(d) /\ policy'[ProcOf(d)] = policy[ProcOf(d)]
      BY <2>2, <2>3, <1>5, ToldIsDone DEF ToldDone
    <3>2. \A d \in Contexts : (IF Told(d) THEN policy[ProcOf(d)] ELSE Unset)' =
                              (IF Told(d) THEN policy[ProcOf(d)] ELSE Unset)
      BY <3>1, <1>6
    <3> QED
      BY <3>2 DEF view
  <2>12. Once!Fork(t, q, new)
    BY <2>1, <2>7, <2>10, <2>11, <1>2 DEF Once!Fork
  <2> QED
    BY <2>12 DEF Once!Next
<1> QED
  BY <1>8, <1>9

\* A new image has no configuration.
LEMMA ExecTells ==
  ASSUME IInv, IInv', NEW c \in Contexts, NEW e \in Envs, Exec(c, e)
  PROVE  [Once!Next]_(Once!vars)
<1> DEFINE p == ProcOf(c)
<1>1. TypeOK /\ Frames
  BY DEF IInv
<1>2. /\ Scheduled(c)
      /\ home' = [t \in Threads |-> IF home[t] = p /\ t # c[1] THEN NoProc ELSE home[t]]
      /\ env' = [env EXCEPT ![p] = e]
      /\ once' = [once EXCEPT ![p] = [o \in Onces |-> "new"]]
      /\ policy' = [policy EXCEPT ![p] = Disabled]
      /\ kind' = [d \in Contexts |-> IF ProcOf(d) = p THEN "fd" ELSE kind[d]]
      /\ pos' = [d \in Contexts |-> IF ProcOf(d) = p THEN 0 ELSE pos[d]]
      /\ run' = [d \in Contexts |-> IF ProcOf(d) = p THEN "out" ELSE run[d]]
      /\ snap' = [d \in Contexts |-> IF ProcOf(d) = p THEN Blank ELSE snap[d]]
  BY DEF Exec, At
<1>3. p \in Procs /\ p # NoProc /\ c[1] \in Threads /\ p = home[c[1]]
  BY <1>1, <1>2, ScheduledContext, LazyInitAssumption DEF Contexts, ProcOf
<1>4. \A d \in Contexts : d[1] \in Threads /\ ProcOf(d) = home[d[1]]
  BY DEF Contexts, ProcOf
<1>5. \A d \in Contexts : /\ ProcOf(d) # p => /\ ProcOf(d)' = ProcOf(d) /\ kind'[d] = kind[d]
                                              /\ pos'[d] = pos[d] /\ run'[d] = run[d]
                                              /\ snap'[d] = snap[d]
                          /\ ProcOf(d) = p => pos'[d] = 0 /\ run'[d] = "out"
  BY <1>2, <1>4 DEF ProcOf
<1>6. /\ once'[p]["rewrite"] = "new"
      /\ \A r \in Procs : r # p => once'[r] = once[r] /\ policy'[r] = policy[r]
  BY <1>1, <1>2, <1>3 DEF TypeOK, Onces
<1>7. settled' = [settled EXCEPT ![p] = FALSE]
  BY <1>3, <1>6 DEF settled
<1>8. "out" \notin Storing
  BY DEF Storing
<1>9. \A d \in Contexts : run'[d] \in Storing => ProcOf(d) # p /\ run[d] \in Storing
                                                 /\ ProcOf(d)' = ProcOf(d)
  BY <1>5, <1>8
<1>10. config'[p] = Unset
  <2>1. ASSUME NEW r \in Procs, r = p
        PROVE  ConfigOf(r)' = Unset
    <3>1. Takers(r)' = {}
      BY <2>1, <1>9 DEF Takers, Storing
    <3> QED
      BY <3>1, <2>1, <1>6 DEF ConfigOf
  <2> QED
    BY <2>1, <1>3 DEF config
<1>11. \A r \in Procs : r # p => config'[r] = config[r]
  <2>1. ASSUME NEW r \in Procs, r # p
        PROVE  ConfigOf(r)' = ConfigOf(r)
    <3>1. \A d \in Contexts : ProcOf(d)' = r <=> ProcOf(d) = r
      <4>1. NoProc # r
        BY LazyInitAssumption
      <4>2. \A d \in Contexts : ProcOf(d) = p => ProcOf(d)' \in {p, NoProc}
        BY <1>2, <1>4 DEF ProcOf
      <4> QED
        BY <4>1, <4>2, <2>1, <1>5
    <3>2. Takers(r)' = Takers(r)
      BY <3>1, <2>1, <1>5 DEF Takers
    <3>3. Takers(r) # {} => OnlyOf(Takers(r)) \in Takers(r)
      BY DEF OnlyOf
    <3>4. \A d \in Takers(r) : snap'[d] = snap[d]
      BY <2>1, <1>5 DEF Takers
    <3> QED
      BY <3>2, <3>3, <3>4, <2>1, <1>6 DEF ConfigOf
  <2> QED
    BY <2>1 DEF config
<1>12. config' = [config EXCEPT ![p] = Unset]
  <2>1. config = [r \in Procs |-> config[r]] /\ config' = [r \in Procs |-> config'[r]]
    BY DEF config
  <2> QED
    BY <2>1, <1>10, <1>11
<1>13. view' = [d \in Once!Contexts |-> IF home[d[1]] = p THEN Unset ELSE view[d]]
  <2>1. ASSUME NEW d \in Contexts, ProcOf(d) = p
        PROVE  ~ Told(d)'
    <3>1. pos'[d] = 0
      BY <2>1, <1>5
    <3>2. \A i \in 1..(0 - 1) : FALSE
      OBVIOUS
    <3> QED
      BY <3>1, <3>2 DEF Told
  <2>2. ASSUME NEW d \in Contexts, ProcOf(d) # p
        PROVE  /\ Told(d)' <=> Told(d)
               /\ Told(d) => policy'[ProcOf(d)'] = policy[ProcOf(d)]
    <3>1. Told(d)' <=> Told(d)
      BY <2>2, <1>5 DEF Told
    <3>2. Told(d) => ProcOf(d) \in Procs
      BY ToldIsDone DEF ToldDone
    <3> QED
      BY <3>1, <3>2, <2>2, <1>5, <1>6
  <2>3. \A d \in Contexts : (IF Told(d) THEN policy[ProcOf(d)] ELSE Unset)' =
                            IF home[d[1]] = p THEN Unset ELSE view[d]
    BY <2>1, <2>2, <1>4 DEF view
  <2>4. Once!Contexts = Contexts
    BY DEF Contexts, Once!Contexts
  <2> QED
    BY <2>3, <2>4 DEF view
<1>14. Once!Exec(c[1], e)
  BY <1>2, <1>3, <1>7, <1>12, <1>13 DEF Once!Exec
<1> QED
  BY <1>3, <1>14 DEF Once!Next

LEMMA SetEnvTells ==
  ASSUME IInv, IInv', NEW t \in Threads, NEW e \in Envs, SetEnv(t, e)
  PROVE  [Once!Next]_(Once!vars)
<1>1. /\ UNCHANGED <<home, once, policy, kind, pos, run, snap>>
      /\ home[t] # NoProc /\ env' = [env EXCEPT ![home[t]] = e]
  BY DEF SetEnv, Free, memory, frames
<1>2. config' = config /\ settled' = settled /\ view' = view
  BY <1>1, SameConfigs, SameViews
<1>3. Once!SetEnv(t, e)
  BY <1>1, <1>2 DEF Once!SetEnv
<1> QED
  BY <1>3 DEF Once!Next

LEMMA InitTakesNothing == Init => Once!Init
<1> SUFFICES ASSUME Init
             PROVE  Once!Init
  OBVIOUS
<1>1. \A p \in Procs : once[p]["rewrite"] = "new" /\ Takers(p) = {}
  BY DEF Init, Onces, Takers
<1>2. \A c \in Contexts : ~ Told(c)
  <2>1. \A i \in 1..(0 - 1) : FALSE
    OBVIOUS
  <2> QED
    BY <2>1 DEF Init, Told
<1>3. /\ config = [p \in Procs |-> Unset] /\ settled = [p \in Procs |-> FALSE]
      /\ view = [c \in Once!Contexts |-> Unset]
  BY <1>1, <1>2 DEF config, settled, view, ConfigOf, Contexts, Once!Contexts
<1> QED
  BY <1>3 DEF Init, Once!Init

LEMMA StepTakesSnapshot == IInv /\ IInv' /\ [Next]_vars => [Once!Next]_(Once!vars)
<1> SUFFICES ASSUME IInv, IInv', [Next]_vars
             PROVE  [Once!Next]_(Once!vars)
  OBVIOUS
<1>1. CASE UNCHANGED vars
  <2>1. UNCHANGED <<home, env, once, policy, kind, pos, run, snap>>
    BY <1>1 DEF vars, memory, frames
  <2>2. config' = config /\ settled' = settled /\ view' = view
    BY <2>1, SameConfigs, SameViews
  <2> QED
    BY <2>1, <2>2 DEF Once!vars
<1>2. ASSUME NEW c \in Contexts, OwnStep(c)
      PROVE  [Once!Next]_(Once!vars)
  <2>1. CASE \/ \E o \in Onces : OnceDone(c, o)
             \/ UsePolicy(c) \/ ReadBase(c) \/ RealCall(c)
    BY <2>1, MoveTells
  <2>2. CASE \E o \in Onces : OnceBegin(c, o)
    BY <2>2, OnceBeginTells
  <2>3. CASE \E o \in Onces : OnceEnd(c, o)
    BY <2>3, OnceEndTells
  <2>4. CASE \/ ResetPolicy(c) \/ ReadEnvironment(c)
             \/ StoreFrom(c) \/ StoreTo(c) \/ StoreLens(c) \/ Enable(c)
    BY <2>4, StoreTakes
  <2>5. CASE ResolveSymbol(c) \/ SymbolsResolved(c)
    BY <2>5, SymbolTells
  <2> QED
    BY <1>2, <2>1, <2>2, <2>3, <2>4, <2>5 DEF OwnStep
<1> QED
  BY <1>1, <1>2, CallTells, NewThreadTells, ExecTells, SetEnvTells, LazyInitAssumption DEF Next

\* The two-level initialisation implements a configuration that every process
\* image takes in one step and never takes again: whatever threads, forks, execs
\* and changes of the environment do, calls are told the same.
THEOREM ImplementsSnapshot == Spec => TakesSnapshot
<1>1. IInv /\ [Next]_vars => IInv'
  BY NextKeeps
<1>2. Init => IInv
  BY InitEstablishes
<1> QED
  BY <1>1, <1>2, InitTakesNothing, StepTakesSnapshot, PTL DEF Spec, TakesSnapshot, Once!Spec
=============================================================================
