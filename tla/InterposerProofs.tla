-------------------------- MODULE InterposerProofs --------------------------
(***************************************************************************)
(* What concurrency can do to a rewritten argument: nothing, if each look  *)
(* at the kernel's state is right by itself (Settles). What many calls of  *)
(* one thread come to: the illusion, if each acts on what it means         *)
(* (ImplementsIllusion).                                                   *)
(*                                                                         *)
(* That a look is right, and that a call acts on what it means, is then    *)
(* proved from what the lexical functions do to the texts                  *)
(* (PathTextProofs), where FROM and TO are siblings: LooksStayRight and    *)
(* CallsActAsMeant, which take those hypotheses away. For programs that    *)
(* give absolute paths only, the same without siblings, for any number of  *)
(* threads and with removals (AbsoluteCallsActAsMeant). Directories may    *)
(* also be removed under relative paths that climb before they go down     *)
(* (Trusting). At the end, that the tree at FROM is never entered          *)
(* (FromStaysUnentered).                                                   *)
(***************************************************************************)
EXTENDS Interposer, PathTextProofs

\* What the proofs need to know of a handler: one argument or two; the calls that
\* change directories take nothing but paths, close a descriptor.
IsPath(route) == route \in {"path", "cwd", "at"}

Sound(h) ==
  /\ DOMAIN h = {"routes", "effect", "ordered"}
  /\ h.routes \in Seq(Routes) /\ Len(h.routes) \in {1, 2}
  /\ h.effect \in {"chdir", "open", "mkdir", "rmdir"} =>
       Len(h.routes) = 1 /\ IsPath(h.routes[1])
  /\ h.effect = "rename" => Len(h.routes) = 2 /\ IsPath(h.routes[1]) /\ IsPath(h.routes[2])
  /\ h.effect = "close" => h.routes = <<"fd">>
  /\ h.effect = "getcwd" => h.routes = <<"buffer">>
  /\ h.routes[1] \in {"fd", "buffer"} => Len(h.routes) = 1

\* A thread between calls has no handler: NoHandler takes no argument.
LEMMA NoHandlerIsNot ==
  /\ ~ Sound(NoHandler)
  /\ \A h : Len(h.routes) = 1 => h # NoHandler
<1>1. Len(NoHandler.routes) = 0
  BY DEF NoHandler, Handler
<1>2. Len(NoHandler.routes) \notin {1, 2}
  BY <1>1
<1> QED
  BY <1>1, <1>2 DEF Sound

LEMMA OneArgument ==
  ASSUME NEW route \in Routes, NEW effect,
         effect \in {"chdir", "open", "mkdir", "rmdir"} => IsPath(route),
         effect # "rename", effect = "close" => route = "fd",
         effect = "getcwd" => route = "buffer"
  PROVE  Sound(Handler(<<route>>, effect))
<1>1. /\ Handler(<<route>>, effect).routes = <<route>>
      /\ Handler(<<route>>, effect).effect = effect
      /\ DOMAIN Handler(<<route>>, effect) = {"routes", "effect", "ordered"}
  BY DEF Handler
<1>2. <<route>> \in Seq(Routes) /\ Len(<<route>>) = 1 /\ <<route>>[1] = route
  OBVIOUS
<1> QED
  BY <1>1, <1>2 DEF Sound

LEMMA TwoArguments ==
  ASSUME NEW first \in Routes, NEW last \in Routes, NEW effect, NEW ordered,
         first \notin {"fd", "buffer"},
         effect = "none" \/ (effect = "rename" /\ IsPath(first) /\ IsPath(last))
  PROVE  Sound([routes |-> <<first, last>>, effect |-> effect, ordered |-> ordered])
<1> DEFINE h == [routes |-> <<first, last>>, effect |-> effect, ordered |-> ordered]
<1>1. /\ h.routes = <<first, last>> /\ h.effect = effect
      /\ DOMAIN h = {"routes", "effect", "ordered"}
  OBVIOUS
<1>2. /\ <<first, last>> \in Seq(Routes) /\ Len(<<first, last>>) = 2
      /\ <<first, last>>[1] = first /\ <<first, last>>[2] = last
  OBVIOUS
<1> QED
  BY <1>1, <1>2 DEF Sound

LEMMA EachHandlerSound ==
  /\ \A op \in DOMAIN StatHandlers : Sound(StatHandlers[op])
  /\ \A op \in DOMAIN AccessHandlers : Sound(AccessHandlers[op])
  /\ \A op \in DOMAIN OpenHandlers : Sound(OpenHandlers[op])
  /\ \A op \in DOMAIN ReadHandlers : Sound(ReadHandlers[op])
  /\ \A op \in DOMAIN RenameHandlers : Sound(RenameHandlers[op])
  /\ \A op \in DOMAIN LinkHandlers : Sound(LinkHandlers[op])
<1>1. /\ Sound(Fd("none")) /\ Sound(Path("none")) /\ Sound(Cwd("none")) /\ Sound(At("none"))
      /\ Sound(Cwd("chdir")) /\ Sound(Fd("close")) /\ Sound(Handler(<<"buffer">>, "getcwd"))
  BY OneArgument DEF Fd, Path, Cwd, At, Routes, IsPath
<1>2. /\ Sound(Path("mkdir")) /\ Sound(At("mkdir")) /\ Sound(Path("open")) /\ Sound(At("open"))
      /\ Sound(Path("rmdir")) /\ Sound(At("rmdir"))
  BY OneArgument DEF Path, At, Routes, IsPath
<1>3. /\ Sound(AnyOrder(<<"cwd", "cwd">>, "none")) /\ Sound(Handler(<<"at", "at">>, "none"))
      /\ Sound(AnyOrder(<<"cwd", "cwd">>, "rename")) /\ Sound(Handler(<<"at", "at">>, "rename"))
      /\ Sound(Handler(<<"payload", "cwd">>, "none"))
      /\ Sound(Handler(<<"at", "payload">>, "none"))
  BY TwoArguments DEF AnyOrder, Handler, Routes, IsPath
<1>4. \A op \in DOMAIN StatHandlers : Sound(StatHandlers[op])
  BY <1>1 DEF StatHandlers
<1>5. \A op \in DOMAIN AccessHandlers : Sound(AccessHandlers[op])
  BY <1>1 DEF AccessHandlers
<1>6. \A op \in DOMAIN OpenHandlers : Sound(OpenHandlers[op])
  BY <1>1, <1>2, <1>3 DEF OpenHandlers
<1>7. \A op \in DOMAIN ReadHandlers : Sound(ReadHandlers[op])
  BY <1>1 DEF ReadHandlers
<1>8. \A op \in DOMAIN RenameHandlers : Sound(RenameHandlers[op])
  BY <1>1, <1>2, <1>3 DEF RenameHandlers
<1>9. \A op \in DOMAIN LinkHandlers : Sound(LinkHandlers[op])
  BY <1>1, <1>2, <1>3 DEF LinkHandlers
<1> QED
  BY <1>4, <1>5, <1>6, <1>7, <1>8, <1>9

LEMMA HandlersSound == \A op \in DOMAIN Handlers : Sound(Handlers[op])
<1> TAKE op \in DOMAIN Handlers
<1> DEFINE group == CHOOSE f \in Groups : op \in DOMAIN f
<1>1. (\E f \in Groups : op \in DOMAIN f) /\ Handlers[op] = group[op]
  BY DEF Handlers
<1>2. group \in Groups /\ op \in DOMAIN group
  BY <1>1
<1> HIDE DEF group
<1> QED
  BY <1>1, <1>2, EachHandlerSound DEF Groups

-----------------------------------------------------------------------------
\* A call, idle or not, in a state n of the file system: its fields, what its
\* arguments mean now among what they meant, and what was rewritten settled.
Fields == {"call", "found", "args", "real", "meant", "ended"}

GivenPath(c, i) == \/ c.call.routes[i] \in {"path", "cwd", "at"}
                   \/ c.call.routes[i] = "payload" /\ Absolute(c.args[i].text)

WellFormed(c) == /\ DOMAIN c = Fields
                 /\ DOMAIN c.real \subseteq DOMAIN c.args
                 /\ DOMAIN c.meant = DOMAIN c.args

MeansNow(n, c) == \A i \in DOMAIN c.args : Meant(n, c.args[i]) \in c.meant[i]

Settled(n, c) ==
  \A i \in DOMAIN c.real :
    GivenPath(c, i) /\ c.real[i] # c.args[i] =>
      Absolute(c.real[i].text) /\ Target(n, c.real[i]) \in c.meant[i]

CallOk(n, c) == WellFormed(c) /\ MeansNow(n, c) /\ Settled(n, c)

CallsOk == DOMAIN th = Threads /\ \A t \in Threads : CallOk(fs, th[t])

\* An absolute path leads to the same place in every state.
LEMMA AbsoluteIsStable ==
  ASSUME NEW n, NEW m, NEW arg, Absolute(arg.text)
  PROVE  Target(n, arg) = Target(m, arg)
BY DEF Target, Leads

LEMMA IdleIsOk == \A n, ended : CallOk(n, Idle(ended))
<1> TAKE n, ended
<1>1. /\ DOMAIN Idle(ended) = Fields
      /\ Idle(ended).args = <<>> /\ Idle(ended).real = <<>> /\ Idle(ended).meant = <<>>
  BY DEF Idle, Fields
<1>2. DOMAIN <<>> = {}
  OBVIOUS
<1> QED
  BY <1>1, <1>2 DEF CallOk, WellFormed, MeansNow, Settled

LEMMA NotedIsOk ==
  ASSUME NEW n, NEW m, NEW c, CallOk(n, c)
  PROVE  CallOk(m, Noted(c, m))
<1> DEFINE d == Noted(c, m)
<1>1. /\ DOMAIN d = Fields /\ d.call = c.call /\ d.args = c.args /\ d.real = c.real
      /\ d.meant = [i \in DOMAIN c.args |-> c.meant[i] \cup {Meant(m, c.args[i])}]
  BY DEF CallOk, WellFormed, Noted, Fields
<1> HIDE DEF d
<1>2. WellFormed(d) /\ MeansNow(m, d)
  BY <1>1 DEF CallOk, WellFormed, MeansNow
<1>3. Settled(m, d)
  <2> SUFFICES ASSUME NEW i \in DOMAIN d.real, GivenPath(d, i), d.real[i] # d.args[i]
               PROVE  Absolute(d.real[i].text) /\ Target(m, d.real[i]) \in d.meant[i]
    BY DEF Settled
  <2>1. i \in DOMAIN c.real /\ i \in DOMAIN c.args /\ GivenPath(c, i) /\ c.real[i] # c.args[i]
    BY <1>1 DEF CallOk, WellFormed, GivenPath
  <2>2. Absolute(c.real[i].text) /\ Target(n, c.real[i]) \in c.meant[i]
    BY <2>1 DEF CallOk, Settled
  <2>3. Target(m, c.real[i]) = Target(n, c.real[i])
    BY <2>2, AbsoluteIsStable
  <2> QED
    BY <1>1, <2>1, <2>2, <2>3
<1> QED
  BY <1>2, <1>3 DEF CallOk, d

\* How a real call ends.
LEMMA RealCallEnds ==
  ASSUME NEW t \in Threads, RealCall(t)
  PROVE  \/ th' = [th EXCEPT ![t] = Idle("ENOSYS")] /\ UNCHANGED fs
         \/ Return(t, fs')
         \/ th' = [u \in Threads |-> Idle("crashed")] /\ UNCHANGED fs
<1>1. CASE Refuse(t)
  BY <1>1 DEF Refuse
<1>2. CASE RealGetcwd(t)
  BY <1>2 DEF RealGetcwd, Return
<1>3. CASE RealNone(t) \/ RealClose(t)
  BY <1>3 DEF RealNone, RealClose, Return
<1>4. CASE RealChdir(t) \/ RealOpen(t) \/ RealMkdir(t)
  BY <1>4 DEF RealChdir, RealOpen, RealMkdir, Return
<1>5. CASE RealRmdir(t) \/ RealRename(t)
  BY <1>5 DEF RealRmdir, RealRename, Return
<1> QED
  BY <1>1, <1>2, <1>3, <1>4, <1>5 DEF RealCall

LEMMA InitCallsOk == Init => CallsOk
BY IdleIsOk DEF Init, CallsOk

\* All threads take note of a change.
LEMMA AllNoted ==
  ASSUME CallsOk, th' = NotedAll(fs')
  PROVE  CallsOk'
BY NotedIsOk DEF CallsOk, NotedAll

LEMMA CallIsOk ==
  ASSUME CallsOk, NEW t \in Threads, NEW op \in Ops, Call(t, op)
  PROVE  CallsOk'
<1> DEFINE call == Handlers[op]
           n    == Len(call.routes)
<1>1. PICK first \in Arguments(call.routes[1]), last \in Arguments(call.routes[n]) :
        LET args == IF n = 1 THEN <<first>> ELSE <<first, last>>
        IN th' = [th EXCEPT ![t] =
                    [call |-> call, found |-> op \notin Missing, args |-> args,
                     real |-> IF call.routes[1] \in {"fd", "buffer"} THEN args ELSE <<>>,
                     meant |-> [i \in 1..n |-> {Meant(fs, args[i])}],
                     ended |-> th[t].ended]]
  BY DEF Call
<1> DEFINE args == IF n = 1 THEN <<first>> ELSE <<first, last>>
           c    == [call |-> call, found |-> op \notin Missing, args |-> args,
                    real |-> IF call.routes[1] \in {"fd", "buffer"} THEN args ELSE <<>>,
                    meant |-> [i \in 1..n |-> {Meant(fs, args[i])}],
                    ended |-> th[t].ended]
<1>2. n \in {1, 2}
  BY HandlersSound, OpsAssumption DEF Sound
<1>3. DOMAIN args = 1..n
  BY <1>2
<1>4. /\ DOMAIN c = Fields /\ c.args = args /\ (c.real = args \/ c.real = <<>>)
      /\ c.meant = [i \in 1..n |-> {Meant(fs, args[i])}]
  BY DEF Fields
<1>5. fs' = fs /\ th' = [th EXCEPT ![t] = c]
  BY <1>1 DEF Call
<1> HIDE DEF args, c, n
<1>6. CallOk(fs, c)
  <2>1. WellFormed(c)
    <3>1. DOMAIN c = Fields /\ DOMAIN c.args = 1..n /\ DOMAIN c.meant = 1..n
      BY <1>3, <1>4
    <3>2. DOMAIN << >> = {}
      OBVIOUS
    <3>3. DOMAIN c.real \subseteq 1..n
      BY <1>3, <1>4, <3>2
    <3> QED
      BY <3>1, <3>3, <1>2 DEF WellFormed
  <2>2. MeansNow(fs, c)
    BY <1>3, <1>4 DEF MeansNow
  <2>3. Settled(fs, c)
    BY <1>4 DEF Settled
  <2> QED
    BY <2>1, <2>2, <2>3 DEF CallOk
<1> QED
  BY <1>5, <1>6 DEF CallsOk

LEMMA RewriteArgumentIsOk ==
  ASSUME CallsOk, EachLookIsRight, NEW t \in Threads, NEW i \in 1..2, RewriteArgument(t, i)
  PROVE  CallsOk'
<1> DEFINE look == Rewritten(fs, th[t].call.routes[i], th[t].args[i])
           c    == th'[t]
<1>1. CallOk(fs, th[t]) /\ DOMAIN th = Threads
  BY DEF CallsOk
<1>2. /\ i \in DOMAIN th[t].args \ DOMAIN th[t].real /\ fs' = fs
      /\ DOMAIN th' = Threads /\ \A u \in Threads : u # t => th'[u] = th[u]
      /\ DOMAIN c = Fields /\ c.call = th[t].call /\ c.args = th[t].args
      /\ c.meant = th[t].meant
      /\ c.real = [j \in DOMAIN th[t].real \cup {i} |-> IF j = i THEN look ELSE th[t].real[j]]
  BY <1>1 DEF RewriteArgument, CallOk, WellFormed, Fields
<1> HIDE DEF look, c
<1>3. GivenPath(c, i) /\ look # c.args[i]
      => Absolute(look.text) /\ Target(fs, look) \in c.meant[i]
  <2> SUFFICES ASSUME GivenPath(c, i), look # c.args[i]
               PROVE  Absolute(look.text) /\ Target(fs, look) \in c.meant[i]
    OBVIOUS
  <2>1. i \in PathsGiven(t) \ DOMAIN th[t].real
    BY <1>2 DEF PathsGiven, GivenPath
  <2>2. Absolute(look.text) /\ Target(fs, look) = Meant(fs, th[t].args[i])
    BY <1>2, <2>1 DEF EachLookIsRight, look
  <2> QED
    BY <1>1, <1>2, <2>2 DEF CallOk, MeansNow
<1>4. CallOk(fs, c)
  <2>1. WellFormed(c) /\ MeansNow(fs, c)
    BY <1>1, <1>2 DEF CallOk, WellFormed, MeansNow
  <2>2. Settled(fs, c)
    BY <1>1, <1>2, <1>3 DEF CallOk, Settled, GivenPath
  <2> QED
    BY <2>1, <2>2 DEF CallOk
<1> QED
  BY <1>1, <1>2, <1>4 DEF CallsOk, c

LEMMA CallsOkKept == CallsOk /\ EachLookIsRight /\ [Next]_vars => CallsOk'
<1> SUFFICES ASSUME CallsOk, EachLookIsRight, [Next]_vars
             PROVE  CallsOk'
  OBVIOUS
<1>1. ASSUME NEW t \in Threads, NEW op \in Ops, Call(t, op)
      PROVE  CallsOk'
  BY <1>1, CallIsOk
<1>2. ASSUME NEW t \in Threads, NEW i \in 1..2, RewriteArgument(t, i)
      PROVE  CallsOk'
  BY <1>2, RewriteArgumentIsOk
<1>3. ASSUME NEW t \in Threads, RealCall(t)
      PROVE  CallsOk'
  <2>1. CASE th' = [th EXCEPT ![t] = Idle("ENOSYS")] /\ UNCHANGED fs
    BY <2>1, IdleIsOk DEF CallsOk
  <2>2. CASE Return(t, fs')
    BY <2>2, IdleIsOk, NotedIsOk DEF Return, CallsOk, NotedAll
  <2>3. CASE th' = [u \in Threads |-> Idle("crashed")] /\ UNCHANGED fs
    BY <2>3, IdleIsOk DEF CallsOk
  <2> QED
    BY <1>3, <2>1, <2>2, <2>3, RealCallEnds
<1>4. ASSUME NEW t \in Threads, NEW f \in Fds, Fchdir(t, f)
      PROVE  CallsOk'
  BY <1>4, AllNoted DEF Fchdir
<1>5. ASSUME NEW d \in Dirs, NEW place \in Movers, OtherRename(d, place)
      PROVE  CallsOk'
  BY <1>5, AllNoted DEF OtherRename
<1>6. CASE UNCHANGED vars
  BY <1>6 DEF vars, CallsOk
<1> QED
  BY <1>1, <1>2, <1>3, <1>4, <1>5, <1>6 DEF Next

\* Whatever the number of threads and whatever other processes do to names: if
\* each look at the kernel's state is right for its moment, a rewritten argument
\* leads where the call meant, until the real function has acted on it.
THEOREM Settles == Spec /\ []EachLookIsRight => []RewrittenIsSettled
<1>1. CallsOk => RewrittenIsSettled
  BY DEF CallsOk, CallOk, Settled, GivenPath, RewrittenIsSettled, PathsGiven, Aim
<1> QED
  BY <1>1, InitCallsOk, CallsOkKept, PTL DEF Spec

-----------------------------------------------------------------------------
(***************************************************************************)
(* One thread, and nobody else who moves directories: what its arguments   *)
(* mean at the call they still mean when the real function runs, so that a *)
(* call that acts as meant is one step of the promise.                     *)
(***************************************************************************)
Arguable == [dir : Fds \cup {AT_FDCWD}, text : Texts]

Steady(n, c) ==
  /\ DOMAIN c = Fields
  /\ \/ c.call = NoHandler /\ c.args = <<>>
     \/ Sound(c.call) /\ DOMAIN c.args = 1..Len(c.call.routes)
  /\ \A i \in DOMAIN c.args :
       IsPath(c.call.routes[i]) => /\ c.args[i] \in Arguable
                                   /\ c.meant[i] = {Meant(n, c.args[i])}
  /\ c.call.effect = "close" => c.real = c.args /\ c.args[1].dir \in Fds

\* The thread is the only one, and its call is steady.
SteadyAlone(t) == DOMAIN th = {t} /\ Steady(fs, th[t])

\* The kernel of the promise is the kernel of the library.
LEMMA SameDirsAt ==
  ASSUME NEW n, NEW place
  PROVE  Promise!DirsAt(n, place) = DirsAt(n, place)
BY DEF Promise!DirsAt, DirsAt

LEMMA SameVacant ==
  ASSUME NEW n, NEW place
  PROVE  Promise!Vacant(n, place) = Vacant(n, place)
BY SameDirsAt DEF Promise!Vacant, Vacant, Promise!Front, Front

LEMMA SameUnused ==
  ASSUME NEW n
  PROVE  Promise!Unused(n) = Unused(n)
BY DEF Promise!Unused, Unused

LEMMA SameKernel ==
  ASSUME NEW n, NEW place, NEW old
  PROVE  /\ Promise!ChangeDir(n, place) = ChangeDir(n, place)
         /\ Promise!OpenDir(n, place) = OpenDir(n, place)
         /\ Promise!MakeDir(n, place) = MakeDir(n, place)
         /\ Promise!RemoveDir(n, place) = RemoveDir(n, place)
         /\ Promise!MoveDir(n, old, place) = MoveDir(n, old, place)
<1>1. Promise!ChangeDir(n, place) = ChangeDir(n, place)
  BY SameDirsAt DEF Promise!ChangeDir, ChangeDir
<1>2. Promise!OpenDir(n, place) = OpenDir(n, place)
  BY SameDirsAt DEF Promise!OpenDir, OpenDir
<1>3. Promise!MakeDir(n, place) = MakeDir(n, place)
  BY SameVacant, SameUnused DEF Promise!MakeDir, MakeDir
<1>4. \A p, top : Promise!Under(p, top) = Under(p, top)
  BY DEF Promise!Under, Under, Promise!IsPrefix, IsPrefix
<1>5. Promise!RemoveDir(n, place) = RemoveDir(n, place)
  BY SameDirsAt, <1>4 DEF Promise!RemoveDir, RemoveDir
<1>6. \A p, from, to : Promise!Carry(p, from, to) = Carry(p, from, to)
  BY <1>4 DEF Promise!Carry, Carry
<1>7. Promise!MoveDir(n, old, place) = MoveDir(n, old, place)
  BY SameDirsAt, SameVacant, <1>4, <1>6 DEF Promise!MoveDir, MoveDir
<1> QED
  BY <1>1, <1>2, <1>3, <1>5, <1>7

LEMMA IdleIsSteady == \A n, ended : Steady(n, Idle(ended))
<1> TAKE n, ended
<1>1. /\ DOMAIN Idle(ended) = Fields /\ Idle(ended).call = NoHandler
      /\ Idle(ended).args = <<>> /\ NoHandler.effect = "none"
  BY DEF Idle, Fields, NoHandler, Handler
<1>2. DOMAIN <<>> = {}
  OBVIOUS
<1> QED
  BY <1>1, <1>2 DEF Steady

LEMMA InitSteady ==
  ASSUME NEW t, Threads = {t}, Init
  PROVE  SteadyAlone(t)
BY IdleIsSteady DEF Init, SteadyAlone

LEMMA CallIsSteady ==
  ASSUME NEW t, Threads = {t}, SteadyAlone(t), NEW op \in Ops, Call(t, op)
  PROVE  SteadyAlone(t)'
<1> DEFINE call == Handlers[op]
           n    == Len(call.routes)
           c    == th'[t]
<1>1. PICK first \in Arguments(call.routes[1]), last \in Arguments(call.routes[n]) :
        LET args == IF n = 1 THEN <<first>> ELSE <<first, last>>
        IN th' = [th EXCEPT ![t] =
                    [call |-> call, found |-> op \notin Missing, args |-> args,
                     real |-> IF call.routes[1] \in {"fd", "buffer"} THEN args ELSE <<>>,
                     meant |-> [i \in 1..n |-> {Meant(fs, args[i])}],
                     ended |-> th[t].ended]]
  BY DEF Call
<1> DEFINE args == IF n = 1 THEN <<first>> ELSE <<first, last>>
<1>2. Sound(call) /\ n \in {1, 2}
  BY HandlersSound, OpsAssumption DEF Sound
<1>3. DOMAIN args = 1..n /\ args[1] = first /\ (n = 2 => args[2] = last)
  BY <1>2
<1>4. /\ DOMAIN c = Fields /\ c.call = call /\ c.args = args
      /\ c.meant = [i \in 1..n |-> {Meant(fs, args[i])}]
      /\ call.routes[1] \in {"fd", "buffer"} => c.real = args
      /\ DOMAIN th' = {t} /\ fs' = fs
  BY <1>1 DEF Call, SteadyAlone, Fields
<1>5. \A route : IsPath(route) => Arguments(route) \subseteq Arguable
  BY DEF IsPath, Arguments, Arguable, GivenTexts
<1>6. ASSUME NEW i \in 1..n, IsPath(call.routes[i])
      PROVE  args[i] \in Arguable
  BY <1>2, <1>3, <1>5, <1>6
<1>7. call.effect = "close" => n = 1 /\ call.routes[1] = "fd" /\ first.dir \in Fds
  BY <1>2 DEF Sound, Arguments
<1> HIDE DEF args, c, n, call
<1>8. Steady(fs, c)
  BY <1>2, <1>3, <1>4, <1>6, <1>7 DEF Steady, n
<1> QED
  BY <1>4, <1>8 DEF SteadyAlone, c

LEMMA RewriteIsSteady ==
  ASSUME NEW t, Threads = {t}, SteadyAlone(t), NEW i \in 1..2, RewriteArgument(t, i)
  PROVE  SteadyAlone(t)'
<1>1. /\ i \in DOMAIN th[t].args /\ i \notin DOMAIN th[t].real
      /\ DOMAIN th' = {t} /\ fs' = fs
      /\ DOMAIN th'[t] = Fields /\ th'[t].call = th[t].call
      /\ th'[t].args = th[t].args /\ th'[t].meant = th[t].meant
  BY DEF RewriteArgument, SteadyAlone, Steady, Fields
<1>2. th[t].call.effect # "close"
  BY <1>1 DEF SteadyAlone, Steady
<1> QED
  BY <1>1, <1>2 DEF SteadyAlone, Steady

LEMMA FchdirIsSteady ==
  ASSUME NEW t, Threads = {t}, SteadyAlone(t), NEW f \in Fds, Fchdir(t, f)
  PROVE  SteadyAlone(t)'
<1>1. th[t].call = NoHandler /\ th'[t] = Noted(th[t], fs') /\ DOMAIN th' = {t}
  BY DEF Fchdir, Busy, NotedAll
<1>2. th[t].args = <<>>
  <2> QED
    BY <1>1, NoHandlerIsNot DEF SteadyAlone, Steady
<1>3. /\ DOMAIN th'[t] = Fields /\ th'[t].call = NoHandler /\ th'[t].args = <<>>
  BY <1>1, <1>2 DEF SteadyAlone, Steady, Noted, Fields
<1>4. DOMAIN <<>> = {} /\ NoHandler.effect = "none"
  BY DEF NoHandler, Handler
<1> QED
  BY <1>1, <1>3, <1>4 DEF SteadyAlone, Steady

LEMMA SteadyKept ==
  ASSUME NEW t, Threads = {t}, Movers = {}
  PROVE  SteadyAlone(t) /\ [Next]_vars => SteadyAlone(t)'
<1> SUFFICES ASSUME SteadyAlone(t), [Next]_vars
             PROVE  SteadyAlone(t)'
  OBVIOUS
<1>1. ASSUME NEW op \in Ops, Call(t, op)
      PROVE  SteadyAlone(t)'
  BY <1>1, CallIsSteady
<1>2. ASSUME NEW i \in 1..2, RewriteArgument(t, i)
      PROVE  SteadyAlone(t)'
  BY <1>2, RewriteIsSteady
<1>3. CASE RealCall(t)
  <2>1. DOMAIN th' = {t} /\ \E ended : th'[t] = Idle(ended)
    BY <1>3, RealCallEnds DEF SteadyAlone, Return, NotedAll
  <2> QED
    BY <2>1, IdleIsSteady DEF SteadyAlone
<1>4. ASSUME NEW f \in Fds, Fchdir(t, f)
      PROVE  SteadyAlone(t)'
  BY <1>4, FchdirIsSteady
<1>5. CASE UNCHANGED vars
  BY <1>5 DEF vars, SteadyAlone
<1> QED
  BY <1>1, <1>2, <1>3, <1>4, <1>5 DEF Next

\* A call that is one step of the promise, whoever else is in a call: it takes arguments
\* a program may give, and acts on what they mean now.
Faithful(t) ==
  LET call == th[t].call
  IN Ready(t) =>
       /\ Sound(call)
       /\ \A i \in 1..Len(call.routes) :
            IsPath(call.routes[i]) =>
              th[t].args[i] \in Arguable /\ Aim(t, i) = Meant(fs, th[t].args[i])
       /\ call.effect = "close" => th[t].real[1].dir \in Fds

\* The only thread's call is one, if it acts as meant.
LEMMA SteadyIsFaithful ==
  ASSUME NEW t, Threads = {t}, SteadyAlone(t), ActsAsMeant
  PROVE  Faithful(t)
<1> SUFFICES ASSUME Ready(t) PROVE Faithful(t)
  BY DEF Faithful
<1> DEFINE call == th[t].call
<1>1. Sound(call) /\ DOMAIN th[t].args = 1..Len(call.routes)
  BY DEF Ready, Busy, SteadyAlone, Steady
<1>2. ASSUME NEW i \in 1..Len(call.routes), IsPath(call.routes[i])
      PROVE  th[t].args[i] \in Arguable /\ Aim(t, i) = Meant(fs, th[t].args[i])
  <2>1. i \in DOMAIN th[t].args /\ i \in PathsGiven(t)
    BY <1>1, <1>2 DEF PathsGiven, IsPath
  <2> QED
    BY <1>2, <2>1 DEF SteadyAlone, Steady, ActsAsMeant
<1>3. call.effect = "close" => th[t].real[1].dir \in Fds
  BY DEF SteadyAlone, Steady
<1> QED
  BY <1>1, <1>2, <1>3 DEF Faithful

LEMMA RealCallIsPromised ==
  ASSUME NEW t \in Threads, Faithful(t), RealCall(t)
  PROVE  [Promise!Next]_fs
<1> DEFINE call == th[t].call
           arg(i) == th[t].args[i]
<1>1. Ready(t) => Sound(call)
  BY DEF Faithful
<1>2. ASSUME Ready(t), NEW i \in 1..Len(call.routes), IsPath(call.routes[i])
      PROVE  arg(i) \in Arguable /\ Aim(t, i) = Promise!Meant(fs, arg(i))
  BY <1>2 DEF Faithful, Meant
<1>3. ASSUME Ready(t), call.effect \in {"chdir", "open", "mkdir", "rmdir"}
      PROVE  arg(1) \in Arguable /\ Aim(t, 1) = Promise!Meant(fs, arg(1))
  <2>1. 1 \in 1..Len(call.routes) /\ IsPath(call.routes[1])
    BY <1>1, <1>3 DEF Sound
  <2> QED
    BY <1>2, <1>3, <2>1
<1>4. CASE RealChdir(t)
  <2>1. Promise!Chdir(arg(1))
    BY <1>3, <1>4, SameKernel DEF RealChdir, Real, Return, Promise!Chdir
  <2> QED
    BY <1>3, <1>4, <2>1 DEF RealChdir, Real, Promise!Next, Arguable
<1>5. CASE RealOpen(t)
  <2>1. Promise!Open(arg(1))
    BY <1>3, <1>5, SameKernel DEF RealOpen, Real, Return, Promise!Open
  <2> QED
    BY <1>3, <1>5, <2>1 DEF RealOpen, Real, Promise!Next, Arguable
<1>6. CASE RealMkdir(t)
  <2>1. Promise!Mkdir(arg(1))
    BY <1>3, <1>6, SameKernel DEF RealMkdir, Real, Return, Promise!Mkdir
  <2> QED
    BY <1>3, <1>6, <2>1 DEF RealMkdir, Real, Promise!Next, Arguable
<1>7. CASE RealRmdir(t)
  <2>1. Promise!Rmdir(arg(1))
    BY <1>3, <1>7, SameKernel DEF RealRmdir, Real, Return, Promise!Rmdir
  <2> QED
    BY <1>3, <1>7, <2>1 DEF RealRmdir, Real, Promise!Next, Arguable
<1>8. CASE RealRename(t)
  <2>1. Ready(t) /\ call.effect = "rename"
    BY <1>8 DEF RealRename, Real
  <2>2. /\ 1 \in 1..Len(call.routes) /\ IsPath(call.routes[1])
        /\ 2 \in 1..Len(call.routes) /\ IsPath(call.routes[2])
    BY <1>1, <2>1 DEF Sound
  <2>3. /\ arg(1) \in Arguable /\ Aim(t, 1) = Promise!Meant(fs, arg(1))
        /\ arg(2) \in Arguable /\ Aim(t, 2) = Promise!Meant(fs, arg(2))
    BY <1>2, <2>1, <2>2
  <2>4. Promise!Rename(arg(1), arg(2))
    BY <1>8, <2>3, SameKernel DEF RealRename, Return, Promise!Rename
  <2> QED
    BY <2>3, <2>4 DEF Promise!Next, Arguable
<1>9. CASE RealClose(t)
  <2>1. th[t].real[1].dir \in Fds
    BY <1>9 DEF RealClose, Real, Faithful
  <2>2. Promise!Close(th[t].real[1].dir)
    BY <1>9 DEF RealClose, Return, Promise!Close
  <2> QED
    BY <2>1, <2>2 DEF Promise!Next
<1>10. CASE Refuse(t) \/ RealNone(t) \/ RealGetcwd(t)
  BY <1>10 DEF Refuse, RealNone, RealGetcwd, Return
<1> QED
  BY <1>4, <1>5, <1>6, <1>7, <1>8, <1>9, <1>10 DEF RealCall

LEMMA StepIsPromised ==
  ASSUME Movers = {}, [Next]_vars, \A t \in Threads : Faithful(t)
  PROVE  [Promise!Next]_fs
<1>1. ASSUME NEW t \in Threads, NEW op \in Ops, Call(t, op)
      PROVE  [Promise!Next]_fs
  BY <1>1 DEF Call
<1>2. ASSUME NEW t \in Threads, NEW i \in 1..2, RewriteArgument(t, i)
      PROVE  [Promise!Next]_fs
  BY <1>2 DEF RewriteArgument
<1>3. ASSUME NEW t \in Threads, RealCall(t)
      PROVE  [Promise!Next]_fs
  BY <1>3, RealCallIsPromised
<1>4. ASSUME NEW t \in Threads, NEW f \in Fds, Fchdir(t, f)
      PROVE  [Promise!Next]_fs
  BY <1>4 DEF Fchdir, Promise!Fchdir, Promise!Next
<1>5. CASE UNCHANGED vars
  BY <1>5 DEF vars
<1> QED
  BY <1>1, <1>2, <1>3, <1>4, <1>5 DEF Next

LEMMA InitIsPromised ==
  ASSUME \A d \in Cwds : ~ Under(Layout[d], From), Init
  PROVE  Promise!Init
BY DEF Init, Promise!Init, Under, Promise!Under, IsPrefix, Promise!IsPrefix

\* A program of one thread that starts outside FROM, where nobody else moves
\* directories and every call acts on what it means: seen from outside, its calls
\* are those of the promise, whatever the paths, the policy and the directories.
THEOREM ImplementsIllusion ==
  ASSUME NEW t, Threads = {t}, Movers = {}, \A d \in Cwds : ~ Under(Layout[d], From)
  PROVE  Spec /\ []ActsAsMeant => KeepsPromise
<1>1. Init => Promise!Init
  BY InitIsPromised
<1>2. Init => SteadyAlone(t)
  BY InitSteady
<1>3. SteadyAlone(t) /\ [Next]_vars => SteadyAlone(t)'
  BY SteadyKept
<1>4. SteadyAlone(t) /\ ActsAsMeant /\ [Next]_vars => [Promise!Next]_fs
  BY SteadyIsFaithful, StepIsPromised
<1> QED
  BY <1>1, <1>2, <1>3, <1>4, PTL DEF Spec, KeepsPromise, Promise!Spec

-----------------------------------------------------------------------------
(***************************************************************************)
(* Types. The arguments of a call are those a program may give, and the    *)
(* rewriting helpers, the kernel and the other processes stay within the   *)
(* paths and places there are.                                             *)
(***************************************************************************)
State == [where : [Dirs -> Seq(Plain)], live : [Dirs -> BOOLEAN], cwd : Dirs,
          fds : [Fds -> Dirs \cup {CLOSED, PIPE}]]

Located == [dir : Fds \cup {AT_FDCWD}, text : Paths \cup {NULL}]

TypedCall(c) ==
  /\ DOMAIN c = Fields
  /\ \/ c.call = NoHandler /\ c.args = <<>>
     \/ /\ Sound(c.call) /\ \E op \in Ops : c.call = Handlers[op]
        /\ DOMAIN c.args = 1..Len(c.call.routes)
        /\ c.call.routes[1] \in {"fd", "buffer"} => c.real = c.args
  /\ \A i \in DOMAIN c.args : c.args[i] \in Arguments(c.call.routes[i])
  /\ DOMAIN c.real \subseteq DOMAIN c.args /\ DOMAIN c.meant = DOMAIN c.args
  /\ \A i \in DOMAIN c.real : c.real[i] \in Located
  /\ c.ended \in {"done", "ENOSYS", "crashed"}

Typed == fs \in State /\ DOMAIN th = Threads /\ \A t \in Threads : TypedCall(th[t])

LEMMA TextsTyped ==
  /\ Texts \subseteq Paths \cup {NULL} /\ \A text \in Texts : text # NULL => Tight(text)
  /\ Buffers \subseteq Paths \cup {NULL} /\ NULL \notin Paths /\ Fail \notin Paths
  /\ <<>> \in Paths
BY InterposerAssumption, PathTextAssumption, TokensFacts, EmptySeq

LEMMA PolicyTyped == policy.from \in Paths /\ policy.to \in Paths
BY InterposerAssumption, PolicyType DEF policy

LEMMA ArgumentsLocated == \A route : Arguments(route) \subseteq Located
<1> TAKE route
<1>1. \A r : GivenTexts(r) \subseteq Paths \cup {NULL}
  BY TextsTyped DEF GivenTexts
<1> QED
  BY <1>1, TextsTyped DEF Arguments, Located

LEMMA StateFields ==
  ASSUME NEW n \in State
  PROVE  /\ n.where \in [Dirs -> Seq(Plain)] /\ n.live \in [Dirs -> BOOLEAN] /\ n.cwd \in Dirs
         /\ n.fds \in [Fds -> Dirs \cup {CLOSED, PIPE}]
         /\ \A d \in Dirs : n.where[d] \in Seq(Plain)
         /\ \A dir \in Fds \cup {AT_FDCWD} : Object(n, dir) \in Dirs \cup {CLOSED, PIPE}
         /\ Object(n, AT_FDCWD) \in Dirs
BY FileTreeAssumption DEF State, Object

LEMMA FrontTyped ==
  ASSUME NEW place \in Seq(Plain)
  PROVE  Front(place) \in Seq(Plain) /\ (place = <<>> => Front(place) = <<>>)
<1>1. CASE place = <<>>
  <2>1. Front(<<>>) = <<>>
    BY SubSeqEmpty DEF Front
  <2> QED
    BY <1>1, <2>1
<1>2. CASE place # <<>>
  BY <1>2, FrontFacts
<1> QED
  BY <1>1, <1>2

\* A directory seems to be at a place.
LEMMA ShownTyped ==
  ASSUME NEW n \in State, NEW d \in Dirs
  PROVE  Shown(n, d) \in Seq(Plain) /\ (n.live[d] => Shown(n, d) = n.where[d])
<1>1. n.where[d] \in Seq(Plain) /\ Deleted \in Plain
  BY StateFields, FileTreeAssumption DEF Plain
<1>2. Append(Front(n.where[d]), Deleted) \in Seq(Plain)
  BY <1>1, FrontTyped, AppendProperties
<1> QED
  BY <1>1, <1>2 DEF Shown

\* What the kernel answers for a directory is the path of some place; a descriptor of
\* something else has a name that is no absolute path.
LEMMA BaseTextIs ==
  ASSUME NEW n \in State, NEW dir \in Fds \cup {AT_FDCWD}
  PROVE  \/ BaseText(n, dir) = Fail
         \/ BaseText(n, dir) = <<Deleted>> /\ dir # AT_FDCWD
         \/ \E place \in Seq(Plain) : BaseText(n, dir) = TextOf(place)
<1> DEFINE d == Object(n, dir)
<1>1. d \in Dirs \cup {CLOSED, PIPE} /\ (dir = AT_FDCWD => d \in Dirs)
  BY StateFields
<1>2. CASE d \notin Dirs
  BY <1>1, <1>2 DEF BaseText
<1>3. CASE d \in Dirs
  <2>1. d # PIPE
    BY <1>3, FileTreeAssumption
  <2>2. BaseText(n, dir) \in {Fail, TextOf(Shown(n, d))}
    BY <2>1 DEF BaseText
  <2>3. Shown(n, d) \in Seq(Plain)
    BY <1>3, ShownTyped
  <2> QED
    BY <2>2, <2>3
<1> QED
  BY <1>2, <1>3

LEMMA RelativeTyped ==
  ASSUME NEW n \in State, NEW dir \in Fds \cup {AT_FDCWD}, NEW text \in Paths \cup {NULL}
  PROVE  rewrite_relative_path_from_dirfd(policy, dir = AT_FDCWD, BaseText(n, dir), text)
           \in Paths \cup {Fail}
<1> DEFINE base == BaseText(n, dir)
<1>1. CASE text = NULL \/ Absolute(text) \/ base = Fail
  BY <1>1 DEF rewrite_relative_path_from_dirfd
<1>2. CASE base = <<Deleted>> /\ dir # AT_FDCWD
  <2>1. ~ Absolute(<<Deleted>>)
    BY FileTreeAssumption, PathTextAssumption DEF Absolute
  <2> QED
    BY <1>2, <2>1 DEF rewrite_relative_path_from_dirfd
<1>3. ASSUME NEW place \in Seq(Plain), base = TextOf(place), text \in Paths, ~ Absolute(text)
      PROVE  rewrite_relative_path_from_dirfd(policy, dir = AT_FDCWD, base, text)
               \in Paths \cup {Fail}
  <2>1. rewrite_relative_path_from_dirfd(policy, dir = AT_FDCWD, TextOf(place), text)
          \in {rewrite_absolute_path(policy, Joined(place, text)), Fail}
    BY <1>3, RelativeIsAbsolute
  <2>2. Joined(place, text) \in Paths
    BY <1>3, JoinedIs
  <2>3. rewrite_absolute_path(policy, Joined(place, text)) \in Paths \cup {Fail}
    BY <2>2, PolicyTyped, RewriteType
  <2> QED
    BY <1>3, <2>1, <2>3
<1> HIDE DEF base
<1>4. base = Fail \/ (base = <<Deleted>> /\ dir # AT_FDCWD)
      \/ \E place \in Seq(Plain) : base = TextOf(place)
  BY BaseTextIs DEF base
<1> QED
  BY <1>1, <1>2, <1>3, <1>4 DEF base

LEMMA RewrittenLocated ==
  ASSUME NEW n \in State, NEW route, NEW arg \in Located
  PROVE  Rewritten(n, route, arg) \in Located
<1>1. ASSUME NEW a \in Located PROVE rewrite_path_argument(a) \in Located
  <2>1. rewrite_absolute_path(policy, a.text) \in Paths \cup {Fail}
    BY PolicyTyped, RewriteType DEF Located
  <2> QED
    BY <2>1 DEF rewrite_path_argument, Located
<1>2. ASSUME NEW a \in Located PROVE rewrite_at_argument(n, a) \in Located
  <2>1. rewrite_relative_path_from_dirfd(policy, a.dir = AT_FDCWD, BaseText(n, a.dir), a.text)
          \in Paths \cup {Fail}
    BY RelativeTyped DEF Located
  <2> QED
    BY <1>1, <2>1 DEF rewrite_at_argument, Located
<1>3. [arg EXCEPT !.dir = AT_FDCWD] \in Located
  BY DEF Located
<1> QED
  BY <1>1, <1>2, <1>3 DEF Rewritten, rewrite_cwd_relative_argument

\* Where a path leads is a place, or nowhere.
LEMMA TargetTyped ==
  ASSUME NEW n \in State, NEW arg \in Located
  PROVE  Target(n, arg) \in Seq(Plain) \cup {Fail}
<1> DEFINE start == IF Absolute(arg.text) THEN <<>> ELSE n.where[Object(n, arg.dir)]
<1>1. CASE Leads(n, arg)
  <2>1. arg.text \in Paths
    BY <1>1 DEF Leads, Located
  <2>2. start \in Seq(Plain)
    BY <1>1, StateFields, EmptySeq DEF Leads
  <2>3. Walk(start, arg.text) \in Seq(Plain)
    BY <2>1, <2>2, WalkType
  <2>4. Target(n, arg) = Existing(Walk(start, arg.text))
    BY <1>1 DEF Target
  <2> HIDE DEF start
  <2> QED
    BY <2>3, <2>4 DEF Existing
<1>2. CASE ~ Leads(n, arg)
  BY <1>2 DEF Target
<1> QED
  BY <1>1, <1>2

LEMMA CarryTyped ==
  ASSUME NEW place \in Seq(Plain), NEW old \in Seq(Plain), NEW new \in Seq(Plain)
  PROVE  Carry(place, old, new) \in Seq(Plain)
<1>1. CASE Under(place, old)
  <2>1. PICK rest \in Seq(Plain) :
          place = old \o rest /\ \A other : Carry(place, old, other) = other \o rest
    BY <1>1, UnderIsConcat
  <2> QED
    BY <2>1, ConcatProperties
<1>2. CASE ~ Under(place, old)
  BY <1>2 DEF Carry
<1> QED
  BY <1>1, <1>2

\* A state with one part of it changed.
LEMMA StateWith ==
  ASSUME NEW n \in State
  PROVE  /\ \A where \in [Dirs -> Seq(Plain)] : [n EXCEPT !.where = where] \in State
         /\ \A live \in [Dirs -> BOOLEAN] : [n EXCEPT !.live = live] \in State
         /\ \A cwd \in Dirs : [n EXCEPT !.cwd = cwd] \in State
         /\ \A fds \in [Fds -> Dirs \cup {CLOSED, PIPE}] : [n EXCEPT !.fds = fds] \in State
         /\ \A where \in [Dirs -> Seq(Plain)], live \in [Dirs -> BOOLEAN] :
              [n EXCEPT !.where = where, !.live = live] \in State
BY DEF State

\* What the kernel does to a state leaves a state.
LEMMA KernelTyped ==
  ASSUME NEW n \in State, NEW place \in Seq(Plain) \cup {Fail}
  PROVE  /\ ChangeDir(n, place) \subseteq State /\ OpenDir(n, place) \subseteq State
         /\ MakeDir(n, place) \subseteq State /\ RemoveDir(n, place) \subseteq State
         /\ \A new \in Seq(Plain) \cup {Fail} : MoveDir(n, place, new) \subseteq State
<1>1. DirsAt(n, place) \subseteq Dirs
  BY DEF DirsAt
<1>2. ChangeDir(n, place) \subseteq State
  BY <1>1 DEF ChangeDir, State
<1>3. OpenDir(n, place) \subseteq State
  <2> SUFFICES ASSUME NEW f \in Fds, NEW d \in DirsAt(n, place)
               PROVE  [n EXCEPT !.fds[f] = d] \in State
    BY DEF OpenDir
  <2>1. [n.fds EXCEPT ![f] = d] \in [Fds -> Dirs \cup {CLOSED, PIPE}]
    BY <1>1, StateFields
  <2> QED
    BY <2>1, StateWith
<1>4. MakeDir(n, place) \subseteq State
  <2>1. CASE Vacant(n, place) /\ Unused(n) # {}
    <3> DEFINE made == CHOOSE d \in Unused(n) : TRUE
    <3>1. made \in Dirs /\ place \in Seq(Plain)
      BY <2>1 DEF Unused, Vacant
    <3>2. MakeDir(n, place) = {[n EXCEPT !.where[made] = place, !.live[made] = TRUE]}
      BY <2>1 DEF MakeDir
    <3> HIDE DEF made
    <3>3. /\ [n.where EXCEPT ![made] = place] \in [Dirs -> Seq(Plain)]
          /\ [n.live EXCEPT ![made] = TRUE] \in [Dirs -> BOOLEAN]
      BY <3>1, StateFields
    <3>4. [n EXCEPT !.where[made] = place, !.live[made] = TRUE] =
            [n EXCEPT !.where = [n.where EXCEPT ![made] = place],
                      !.live = [n.live EXCEPT ![made] = TRUE]]
      BY DEF State
    <3>5. [n EXCEPT !.where[made] = place, !.live[made] = TRUE] \in State
      BY <3>3, <3>4, StateWith
    <3> QED
      BY <3>2, <3>5
  <2>2. CASE ~ (Vacant(n, place) /\ Unused(n) # {})
    BY <2>2 DEF MakeDir
  <2> QED
    BY <2>1, <2>2
<1>5. RemoveDir(n, place) \subseteq State
  <2> SUFFICES ASSUME NEW d \in DirsAt(n, place)
               PROVE  [n EXCEPT !.live[d] = FALSE] \in State
    BY DEF RemoveDir
  <2>1. [n.live EXCEPT ![d] = FALSE] \in [Dirs -> BOOLEAN]
    BY StateFields
  <2> QED
    BY <2>1, StateWith
<1>6. ASSUME NEW new \in Seq(Plain) \cup {Fail}
      PROVE  MoveDir(n, place, new) \subseteq State
  <2>1. CASE place = Fail \/ new = Fail
    BY <2>1 DEF MoveDir, Vacant
  <2>2. CASE place \in Seq(Plain) /\ new \in Seq(Plain)
    <3> DEFINE moved == [d \in Dirs |-> IF n.live[d] \/ n.where[d] # place
                                        THEN Carry(n.where[d], place, new)
                                        ELSE n.where[d]]
    <3>1. moved \in [Dirs -> Seq(Plain)]
      BY <2>2, StateFields, CarryTyped
    <3>2. MoveDir(n, place, new) \subseteq {[n EXCEPT !.where = moved]}
      BY DEF MoveDir
    <3> HIDE DEF moved
    <3> QED
      BY <3>1, <3>2 DEF State
  <2> QED
    BY <2>1, <2>2
<1> QED
  BY <1>2, <1>3, <1>4, <1>5, <1>6

LEMMA IdleTyped ==
  ASSUME NEW ended, ended \in {"done", "ENOSYS", "crashed"}
  PROVE  TypedCall(Idle(ended))
<1>1. /\ DOMAIN Idle(ended) = Fields /\ Idle(ended).call = NoHandler /\ Idle(ended).ended = ended
      /\ Idle(ended).args = <<>> /\ Idle(ended).real = <<>> /\ Idle(ended).meant = <<>>
  BY DEF Idle, Fields
<1>2. DOMAIN <<>> = {}
  OBVIOUS
<1> QED
  BY <1>1, <1>2 DEF TypedCall

LEMMA NotedTyped ==
  ASSUME NEW n, NEW c, TypedCall(c)
  PROVE  TypedCall(Noted(c, n))
<1> DEFINE d == Noted(c, n)
<1>1. /\ DOMAIN d = Fields /\ d.call = c.call /\ d.args = c.args /\ d.real = c.real
      /\ DOMAIN d.meant = DOMAIN c.args /\ d.ended = c.ended
  BY DEF TypedCall, Noted, Fields
<1> HIDE DEF d
<1> QED
  BY <1>1 DEF TypedCall, d

LEMMA InitTyped == Init => Typed
<1> SUFFICES ASSUME Init PROVE Typed
  OBVIOUS
<1>1. Layout \in [Dirs -> Seq(Plain)] /\ Cwds \subseteq Dirs
      /\ Tables \subseteq [Fds -> Dirs \cup {CLOSED, PIPE}]
  BY InterposerAssumption DEF Plain
<1>2. fs \in State
  BY <1>1 DEF Init, State
<1> QED
  BY <1>2, IdleTyped DEF Init, Typed

LEMMA CallTyped ==
  ASSUME Typed, NEW t \in Threads, NEW op \in Ops, Call(t, op)
  PROVE  Typed'
<1> DEFINE call == Handlers[op]
           n    == Len(call.routes)
<1>1. PICK first \in Arguments(call.routes[1]), last \in Arguments(call.routes[n]) :
        LET args == IF n = 1 THEN <<first>> ELSE <<first, last>>
        IN /\ n = 1 => last = first
           /\ th' = [th EXCEPT ![t] =
                    [call |-> call, found |-> op \notin Missing, args |-> args,
                     real |-> IF call.routes[1] \in {"fd", "buffer"} THEN args ELSE <<>>,
                     meant |-> [i \in 1..n |-> {Meant(fs, args[i])}],
                     ended |-> th[t].ended]]
  BY DEF Call
<1> DEFINE args == IF n = 1 THEN <<first>> ELSE <<first, last>>
           c    == [call |-> call, found |-> op \notin Missing, args |-> args,
                    real |-> IF call.routes[1] \in {"fd", "buffer"} THEN args ELSE <<>>,
                    meant |-> [i \in 1..n |-> {Meant(fs, args[i])}],
                    ended |-> th[t].ended]
<1>2. Sound(call) /\ n \in {1, 2}
  BY HandlersSound, OpsAssumption DEF Sound
<1>3. DOMAIN args = 1..n /\ args[1] = first /\ (n = 2 => args[2] = last)
  BY <1>2
<1>4. /\ DOMAIN c = Fields /\ c.args = args /\ (c.real = args \/ c.real = <<>>)
      /\ call.routes[1] \in {"fd", "buffer"} => c.real = args
      /\ call = Handlers[op] /\ DOMAIN c.meant = 1..n /\ c.call = call /\ c.ended = th[t].ended
  BY DEF Fields
<1>5. fs' = fs /\ th' = [th EXCEPT ![t] = c]
  BY <1>1 DEF Call
<1> HIDE DEF args, c
<1>6. \A i \in 1..n : args[i] \in Arguments(call.routes[i])
  BY <1>2, <1>3
<1>7. \A i \in 1..n : args[i] \in Located
  BY <1>6, ArgumentsLocated
<1> HIDE DEF n, call
<1>8. TypedCall(c)
  <2>1. DOMAIN <<>> = {} /\ DOMAIN args = 1..n
    BY <1>3
  <2>2. DOMAIN c.real \subseteq 1..n /\ \A i \in DOMAIN c.real : c.real[i] \in Located
    BY <1>4, <1>7, <2>1
  <2>3. c.ended \in {"done", "ENOSYS", "crashed"}
    BY <1>4 DEF Typed, TypedCall
  <2> QED
    BY <1>2, <1>4, <1>6, <2>1, <2>2, <2>3 DEF TypedCall, n
<1> QED
  BY <1>5, <1>8 DEF Typed

LEMMA RewriteTyped ==
  ASSUME Typed, NEW t \in Threads, NEW i \in 1..2, RewriteArgument(t, i)
  PROVE  Typed'
<1> DEFINE look == Rewritten(fs, th[t].call.routes[i], th[t].args[i])
           c    == th'[t]
<1>1. TypedCall(th[t]) /\ DOMAIN th = Threads /\ fs \in State
  BY DEF Typed
<1>2. /\ i \in DOMAIN th[t].args \ DOMAIN th[t].real /\ fs' = fs
      /\ DOMAIN th' = Threads /\ \A u \in Threads : u # t => th'[u] = th[u]
      /\ DOMAIN c = Fields /\ c.call = th[t].call /\ c.args = th[t].args
      /\ c.meant = th[t].meant /\ c.ended = th[t].ended
      /\ c.real = [j \in DOMAIN th[t].real \cup {i} |-> IF j = i THEN look ELSE th[t].real[j]]
  BY <1>1 DEF RewriteArgument, TypedCall, Fields
<1>3. look \in Located
  <2>1. th[t].args[i] \in Located
    BY <1>1, <1>2, ArgumentsLocated DEF TypedCall
  <2> QED
    BY <1>1, <2>1, RewrittenLocated
<1> HIDE DEF look, c
<1>4. /\ Sound(c.call) /\ \E op \in Ops : c.call = Handlers[op]
      /\ DOMAIN c.args = 1..Len(c.call.routes)
      /\ c.call.routes[1] \notin {"fd", "buffer"}
  <2>1. DOMAIN <<>> = {}
    OBVIOUS
  <2> QED
    BY <1>1, <1>2, <2>1 DEF TypedCall
<1>5. \A j \in DOMAIN c.real : c.real[j] \in Located
  BY <1>1, <1>2, <1>3 DEF TypedCall
<1>6. TypedCall(c)
  BY <1>1, <1>2, <1>4, <1>5 DEF TypedCall
<1> QED
  BY <1>1, <1>2, <1>6 DEF Typed, c

\* A call that changes the tree or opens a directory is given a path, rename two.
LEMMA MovingCall ==
  ASSUME Typed, NEW t \in Threads, Ready(t),
         th[t].call.effect \in {"chdir", "open", "mkdir", "rmdir", "rename"}
  PROVE  /\ Sound(th[t].call) /\ DOMAIN th[t].args = 1..Len(th[t].call.routes)
         /\ 1 \in 1..Len(th[t].call.routes) /\ IsPath(th[t].call.routes[1])
         /\ th[t].call.effect = "rename" =>
              2 \in 1..Len(th[t].call.routes) /\ IsPath(th[t].call.routes[2])
<1>1. Sound(th[t].call) /\ DOMAIN th[t].args = 1..Len(th[t].call.routes)
  BY DEF Typed, TypedCall, Ready, Busy
<1>2. CASE th[t].call.effect = "rename"
  <2>1. /\ Len(th[t].call.routes) = 2
        /\ IsPath(th[t].call.routes[1]) /\ IsPath(th[t].call.routes[2])
    BY <1>1, <1>2 DEF Sound
  <2>2. 1 \in 1..2 /\ 2 \in 1..2
    OBVIOUS
  <2> QED
    BY <1>1, <2>1, <2>2
<1>3. CASE th[t].call.effect # "rename"
  <2>1. Len(th[t].call.routes) = 1 /\ IsPath(th[t].call.routes[1])
    BY <1>1, <1>3 DEF Sound
  <2>2. 1 \in 1..1
    OBVIOUS
  <2> QED
    BY <1>1, <1>3, <2>1, <2>2
<1> QED
  BY <1>2, <1>3

\* A real call leaves a state of the file system.
LEMMA RealCallTyped ==
  ASSUME Typed, NEW t \in Threads, RealCall(t)
  PROVE  fs' \in State
<1>1. fs \in State /\ TypedCall(th[t])
  BY DEF Typed
<1>2. ASSUME Ready(t), NEW i \in DOMAIN th[t].args PROVE Aim(t, i) \in Seq(Plain) \cup {Fail}
  BY <1>1, <1>2, TargetTyped DEF Ready, TypedCall, Aim
<1>3. ASSUME Ready(t), NEW effect, effect = th[t].call.effect,
             effect \in {"chdir", "open", "mkdir", "rmdir", "rename"}
      PROVE  1 \in DOMAIN th[t].args /\ (effect = "rename" => 2 \in DOMAIN th[t].args)
  BY <1>3, MovingCall
<1>4. CASE Refuse(t) \/ RealNone(t) \/ RealGetcwd(t)
  BY <1>1, <1>4 DEF Refuse, RealNone, RealGetcwd, Return
<1>5. CASE RealClose(t)
  BY <1>1, <1>5 DEF RealClose, Return, State
<1>6. CASE RealChdir(t) \/ RealOpen(t) \/ RealMkdir(t) \/ RealRmdir(t)
  <2>1. Aim(t, 1) \in Seq(Plain) \cup {Fail}
    BY <1>2, <1>3, <1>6 DEF RealChdir, RealOpen, RealMkdir, RealRmdir, Real
  <2> QED
    BY <1>1, <1>6, <2>1, KernelTyped DEF RealChdir, RealOpen, RealMkdir, RealRmdir, Return
<1>7. CASE RealRename(t)
  <2>1. Aim(t, 1) \in Seq(Plain) \cup {Fail} /\ Aim(t, 2) \in Seq(Plain) \cup {Fail}
    BY <1>2, <1>3, <1>7 DEF RealRename, Real
  <2> QED
    BY <1>1, <1>7, <2>1, KernelTyped DEF RealRename, Return
<1> QED
  BY <1>4, <1>5, <1>6, <1>7 DEF RealCall

LEMMA TypedKept == Typed /\ [Next]_vars => Typed'
<1> SUFFICES ASSUME Typed, [Next]_vars PROVE Typed'
  OBVIOUS
<1>1. ASSUME NEW t \in Threads, NEW op \in Ops, Call(t, op)
      PROVE  Typed'
  BY <1>1, CallTyped
<1>2. ASSUME NEW t \in Threads, NEW i \in 1..2, RewriteArgument(t, i)
      PROVE  Typed'
  BY <1>2, RewriteTyped
<1>3. ASSUME NEW t \in Threads, RealCall(t)
      PROVE  Typed'
  <2>1. fs' \in State
    BY <1>3, RealCallTyped
  <2>2. CASE th' = [th EXCEPT ![t] = Idle("ENOSYS")] \/ th' = [u \in Threads |-> Idle("crashed")]
    BY <2>1, <2>2, IdleTyped DEF Typed
  <2>3. CASE Return(t, fs')
    BY <2>1, <2>3, IdleTyped, NotedTyped DEF Return, Typed, NotedAll
  <2> QED
    BY <1>3, <2>2, <2>3, RealCallEnds
<1>4. ASSUME th' = NotedAll(fs'), fs' \in State
      PROVE  Typed'
  BY <1>4, NotedTyped DEF Typed, NotedAll
<1>5. ASSUME NEW t \in Threads, NEW f \in Fds, Fchdir(t, f)
      PROVE  Typed'
  <2>1. fs' \in State
    BY <1>5 DEF Fchdir, Typed, State
  <2> QED
    BY <1>4, <1>5, <2>1 DEF Fchdir
<1>6. ASSUME NEW d \in Dirs, NEW place \in Movers, OtherRename(d, place)
      PROVE  Typed'
  <2>1. fs \in State /\ place \in Seq(Plain) /\ fs.where[d] \in Seq(Plain)
    BY InterposerAssumption, StateFields DEF Typed, Plain
  <2>2. fs' \in State
    BY <1>6, <2>1, KernelTyped DEF OtherRename
  <2> QED
    BY <1>4, <1>6, <2>2 DEF OtherRename
<1>7. CASE UNCHANGED vars
  BY <1>7 DEF vars, Typed
<1> QED
  BY <1>1, <1>2, <1>3, <1>5, <1>6, <1>7 DEF Next

LEMMA AlwaysTyped == Spec => []Typed
BY InitTyped, TypedKept, PTL DEF Spec

\* The calls, the kernel and the other processes stay within their types.
THEOREM TypesHold == Spec => []TypeOK
<1>1. Typed => TypeOK
  BY StateFields DEF Typed, TypedCall, TypeOK, Located, Plain
<1> QED
  BY <1>1, AlwaysTyped, PTL

-----------------------------------------------------------------------------
LEMMA SameWalk == \A place, text : Promise!Walk(place, text) = Walk(place, text)
BY DEF Promise!Walk, Walk, Promise!Onward, Onward, Promise!Front, Front

LEMMA SameSegments == \A text : Promise!Segments(text) = Segments(text)
BY DEF Promise!Segments, Segments, Promise!FoldLeft, FoldLeft, Promise!MapThenFoldSet,
       MapThenFoldSet, Promise!Max, Max

LEMMA SameTextOf == \A place : Promise!TextOf(place) = TextOf(place)
BY DEF Promise!TextOf, TextOf, Promise!FoldLeft, FoldLeft, Promise!MapThenFoldSet,
       MapThenFoldSet, Promise!Max, Max

LEMMA SameAbsolute == \A text : Promise!Absolute(text) = Absolute(text)
BY DEF Promise!Absolute, Absolute

LEMMA SameObject == \A n, dir : Promise!Object(n, dir) = Object(n, dir)
BY DEF Promise!Object, Object

LEMMA SameBaseText == \A n, dir : Promise!BaseText(n, dir) = BaseText(n, dir)
BY SameTextOf, SameObject DEF Promise!BaseText, BaseText, Promise!Shown, Shown, Promise!Front, Front

LEMMA SameLeads == \A n, arg : Promise!Leads(n, arg) = Leads(n, arg)
BY SameAbsolute, SameObject DEF Promise!Leads, Leads, Promise!StartsUp, StartsUp

LEMMA SameCarry == \A place, old, new : Promise!Carry(place, old, new) = Carry(place, old, new)
BY DEF Promise!Carry, Carry, Promise!Under, Under, Promise!IsPrefix, IsPrefix

LEMMA SameExisting == \A place : Promise!Existing(place) = Existing(place)
BY DEF Promise!Existing, Existing, Promise!Contains, Contains

LEMMA SameTarget == \A n, arg : Promise!Target(n, arg) = Target(n, arg)
BY SameLeads, SameExisting, SameWalk, SameAbsolute, SameObject DEF Promise!Target, Target

\* What a path means, in the terms of the library's kernel.
LEMMA MeantIs ==
  ASSUME NEW n, NEW arg
  PROVE  /\ ~ Leads(n, arg) => Meant(n, arg) = Fail
         /\ Leads(n, arg) /\ Absolute(arg.text) =>
              Meant(n, arg) = Existing(Carry(Walk(<<>>, arg.text), From, To))
         /\ Leads(n, arg) /\ ~ Absolute(arg.text) /\ BaseText(n, arg.dir) # Fail =>
              Meant(n, arg) =
                Existing(Carry(Walk(Carry(n.where[Object(n, arg.dir)], To, From), arg.text),
                               From, To))
         /\ Leads(n, arg) /\ ~ Absolute(arg.text) /\ BaseText(n, arg.dir) = Fail =>
              Meant(n, arg) = Target(n, arg)
BY SameLeads, SameAbsolute, SameBaseText, SameExisting, SameCarry, SameWalk, SameObject,
   SameTarget
   DEF Meant, Promise!Meant

-----------------------------------------------------------------------------
(***************************************************************************)
(* Each look is right, where FROM and TO are siblings that end in names,   *)
(* no path is empty and no directory is removed. What a rewritten argument *)
(* names follows from what the lexical functions do to its text.           *)
(***************************************************************************)
PlainPrefixes == policy.enabled /\ Last(policy.from) # "/" /\ Last(policy.to) # "/"

PlainSiblings == PlainPrefixes /\ Front(From) = Front(To) /\ From # To

LEMMA PrefixFacts ==
  ASSUME PlainPrefixes
  PROVE  /\ From \in Seq(Plain) /\ From # <<>> /\ To \in Seq(Plain) /\ To # <<>>
         /\ policy.from = Slashed(From) /\ policy.to = Slashed(To)
<1>1. PICK from \in Seq(Plain), to \in Seq(Plain) :
        /\ from # <<>> /\ to # <<>>
        /\ policy.from = Slashed(from) /\ policy.to = Slashed(to)
        /\ Segments(policy.from) = from /\ Segments(policy.to) = to
  <2>1. policy.enabled /\ Last(policy.from) # "/" /\ Last(policy.to) # "/"
        /\ policy = init_rewrite_policy(Config[1], Config[2])
    BY DEF PlainPrefixes, policy
  <2> QED
    BY <2>1, InterposerAssumption, PlainPolicyIs
<1>2. From = from /\ To = to
  BY <1>1 DEF From, To
<1> QED
  BY <1>1, <1>2

LEMMA SiblingFacts ==
  ASSUME PlainSiblings
  PROVE  /\ Siblings(From, To) /\ From \in Seq(Plain) /\ From # <<>> /\ To \in Seq(Plain)
         /\ To # <<>> /\ policy.from = Slashed(From) /\ policy.to = Slashed(To)
BY PrefixFacts DEF PlainSiblings, Siblings

\* A rewritten absolute path leads, from every state, to what its text named with FROM
\* carried to TO.
LEMMA TextLeads ==
  ASSUME PlainPrefixes, NEW text \in Paths, Absolute(text), Tight(text),
         NEW result, result = rewrite_absolute_path(policy, text), result # Fail, NEW n, NEW arg,
         arg.text = result
  PROVE  Absolute(result) /\ Target(n, arg) = Existing(Carry(Walk(<<>>, text), From, To))
<1> DEFINE place == Walk(<<>>, text)  mapped == Carry(place, From, To)
<1>1. /\ mapped \in Seq(Plain) /\ Under(place, From) /\ result \in Paths
      /\ result \in {Slashed(mapped), Append(Slashed(mapped), "/")}
      /\ Walk(<<>>, result) = mapped
  BY PrefixFacts, RewriteMaps DEF PlainPrefixes
<1>2. place \in Seq(Plain)
  BY EmptySeq, WalkType
<1> HIDE DEF place
<1>3. mapped # <<>>
  <2>1. PICK rest \in Seq(Plain) :
          place = From \o rest /\ \A other : Carry(place, From, other) = other \o rest
    BY <1>1, <1>2, PrefixFacts, UnderIsConcat
  <2>2. /\ To \o rest \in Seq(Plain) /\ Len(To \o rest) = Len(To) + Len(rest)
        /\ Len(To) \in Nat \ {0} /\ Len(rest) \in Nat /\ Len(<<>>) = 0
    BY PrefixFacts, ConcatProperties, LenProperties, EmptySeq
  <2> QED
    BY <2>1, <2>2
<1> HIDE DEF mapped
<1>4. Absolute(result) /\ result # NULL /\ result # <<>>
  <2>1. mapped \in Seq(Names)
    BY <1>1, PlainSeq
  <2>2. Slashed(mapped)[1] = "/" /\ Slashed(mapped) # <<>> /\ Append(Slashed(mapped), "/")[1] = "/"
    BY <1>3, <2>1, SlashedFirst
  <2>3. Append(Slashed(mapped), "/") # <<>>
    BY <2>1, SlashedType, TokensFacts, AppendProperties
  <2> QED
    BY <1>1, <2>2, <2>3, TextsTyped DEF Absolute
<1>5. Target(n, arg) = Existing(Walk(<<>>, result))
  BY <1>4 DEF Target, Leads
<1> QED
  BY <1>1, <1>4, <1>5 DEF mapped, place

-----------------------------------------------------------------------------
(***************************************************************************)
(* Removed directories. getcwd fails in one, and /proc shows one that a    *)
(* descriptor holds under another name. What a path given from there leads *)
(* to depends on whether it climbs before it goes down.                    *)
(***************************************************************************)
\* A path that climbs first: it has no ".." after a name.
Climbing(text) ==
  \A i, j \in 1..Len(text) : i < j /\ text[j] = ".." => text[i] \in {"/", ".", ".."}

Dotted(text) == \A i \in 1..Len(text) : text[i] \in {"/", "."}
Rising(text) == \A i \in 1..Len(text) : text[i] \in {"/", ".", ".."}

LEMMA ShapeAppend ==
  ASSUME NEW text \in Paths, NEW token \in Tokens
  PROVE  /\ Dotted(Append(text, token)) <=> Dotted(text) /\ token \in {"/", "."}
         /\ Rising(Append(text, token)) <=> Rising(text) /\ token \in {"/", ".", ".."}
         /\ StartsUp(Append(text, token)) <=> StartsUp(text) \/ (Dotted(text) /\ token = "..")
         /\ Climbing(Append(text, token)) =>
              Climbing(text) /\ (token = ".." => Rising(text))
<1> DEFINE longer == Append(text, token)  m == Len(text)
<1>1. /\ m \in Nat /\ Len(longer) = m + 1 /\ longer[m + 1] = token
      /\ \A i \in 1..m : longer[i] = text[i]
  BY TokensFacts, AppendProperties, LenProperties
<1> HIDE DEF longer, m
<1>2. \A i \in 1..(m + 1) : i \in 1..m \/ i = m + 1
  BY <1>1
<1>3. \A i \in 1..m : i \in 1..(m + 1) /\ i < m + 1 /\ 1..(i - 1) \subseteq 1..m
  BY <1>1
<1>4. m + 1 \in 1..(m + 1) /\ (m + 1) - 1 = m
  BY <1>1
<1>5. Dotted(longer) <=> (\A i \in 1..m : text[i] \in {"/", "."}) /\ token \in {"/", "."}
  BY <1>1, <1>2, <1>3, <1>4 DEF Dotted
<1>6. Rising(longer) <=>
        (\A i \in 1..m : text[i] \in {"/", ".", ".."}) /\ token \in {"/", ".", ".."}
  BY <1>1, <1>2, <1>3, <1>4 DEF Rising
<1>7. StartsUp(longer) <=>
        \/ \E i \in 1..m : text[i] = ".." /\ \A j \in 1..(i - 1) : text[j] \in {"/", "."}
        \/ (\A i \in 1..m : text[i] \in {"/", "."}) /\ token = ".."
  <2>1. ASSUME NEW i \in 1..m
        PROVE  (longer[i] = ".." /\ \A j \in 1..(i - 1) : longer[j] \in {"/", "."}) <=>
               (text[i] = ".." /\ \A j \in 1..(i - 1) : text[j] \in {"/", "."})
    BY <1>1, <1>3
  <2>2. (longer[m + 1] = ".." /\ \A j \in 1..((m + 1) - 1) : longer[j] \in {"/", "."}) <=>
        (token = ".." /\ \A j \in 1..m : text[j] \in {"/", "."})
    BY <1>1, <1>4
  <2> QED
    BY <1>1, <1>2, <1>3, <1>4, <2>1, <2>2 DEF StartsUp
<1>8. Climbing(longer) =>
        /\ \A i, j \in 1..m : i < j /\ text[j] = ".." => text[i] \in {"/", ".", ".."}
        /\ token = ".." => \A i \in 1..m : text[i] \in {"/", ".", ".."}
  <2> SUFFICES ASSUME Climbing(longer)
               PROVE  /\ \A i, j \in 1..m : i < j /\ text[j] = ".." => text[i] \in {"/", ".", ".."}
                      /\ token = ".." => \A i \in 1..m : text[i] \in {"/", ".", ".."}
    OBVIOUS
  <2>1. ASSUME NEW i \in 1..m, NEW j \in 1..m, i < j, text[j] = ".."
        PROVE  text[i] \in {"/", ".", ".."}
    BY <1>1, <1>3, <2>1 DEF Climbing
  <2>2. ASSUME token = "..", NEW i \in 1..m PROVE text[i] \in {"/", ".", ".."}
    BY <1>1, <1>3, <1>4, <2>2 DEF Climbing
  <2> QED
    BY <2>1, <2>2
<1> QED
  BY <1>5, <1>6, <1>7, <1>8 DEF longer, m, Dotted, Rising, StartsUp, Climbing

LEMMA EmptyShape == /\ <<>> \in Paths /\ Dotted(<<>>) /\ Rising(<<>>) /\ ~ StartsUp(<<>>)
BY TokensFacts, EmptySeq DEF Dotted, Rising, StartsUp

LEMMA DottedStays == \A text \in Paths : Dotted(text) => \A place : Walk(place, text) = place
<1> DEFINE T == {t \in Paths : Dotted(t) => \A place : Walk(place, t) = place}
<1>1. <<>> \in T
  BY EmptyShape, WalkEmpty
<1>2. ASSUME NEW t \in Seq(Tokens) \cap T, NEW token \in Tokens
      PROVE  Append(t, token) \in T
  <2>1. t \in Paths /\ Append(t, token) \in Paths
    BY TokensFacts, AppendProperties
  <2>2. ASSUME Dotted(Append(t, token)), NEW place PROVE Walk(place, Append(t, token)) = place
    <3>1. Dotted(t) /\ token \in {"/", "."}
      BY <2>1, <2>2, ShapeAppend
    <3>2. Walk(place, t) = place
      BY <3>1
    <3>3. Walk(place, Append(t, token)) = Onward(place, token)
      BY <2>1, <3>2, WalkAppend
    <3> QED
      BY <3>1, <3>3 DEF Onward
  <2> QED
    BY <2>1, <2>2
<1>3. Seq(Tokens) \subseteq T
  <2> HIDE DEF T
  <2> QED
    BY <1>1, <1>2, Cut!SeqInduction
<1> QED
  BY <1>3, TokensFacts

LEMMA RisingStarts == \A text \in Paths : Rising(text) => StartsUp(text) \/ Dotted(text)
<1> DEFINE T == {t \in Paths : Rising(t) => StartsUp(t) \/ Dotted(t)}
<1>1. <<>> \in T
  BY EmptyShape
<1>2. ASSUME NEW t \in Seq(Tokens) \cap T, NEW token \in Tokens
      PROVE  Append(t, token) \in T
  <2>1. t \in Paths /\ Append(t, token) \in Paths
    BY TokensFacts, AppendProperties
  <2> QED
    BY <2>1, ShapeAppend
<1>3. Seq(Tokens) \subseteq T
  <2> HIDE DEF T
  <2> QED
    BY <1>1, <1>2, Cut!SeqInduction
<1> QED
  BY <1>3, TokensFacts

\* The last name of a place does not matter to a path that starts with "..".
LEMMA UpFromGone ==
  ASSUME NEW here \in Seq(Plain), NEW name \in Plain
  PROVE  \A text \in Paths :
           StartsUp(text) => Walk(Append(Front(here), name), text) = Walk(here, text)
<1> DEFINE gone == Append(Front(here), name)
           T == {t \in Paths : StartsUp(t) => Walk(gone, t) = Walk(here, t)}
<1>1. <<>> \in T
  BY EmptyShape
<1>2. ASSUME NEW t \in Seq(Tokens) \cap T, NEW token \in Tokens
      PROVE  Append(t, token) \in T
  <2>1. t \in Paths /\ Append(t, token) \in Paths
    BY TokensFacts, AppendProperties
  <2>2. /\ Walk(gone, Append(t, token)) = Onward(Walk(gone, t), token)
        /\ Walk(here, Append(t, token)) = Onward(Walk(here, t), token)
    BY <2>1, WalkAppend
  <2>3. CASE StartsUp(t)
    BY <2>1, <2>2, <2>3
  <2>4. CASE Dotted(t) /\ token = ".."
    <3>1. Walk(gone, t) = gone /\ Walk(here, t) = here
      BY <2>1, <2>4, DottedStays
    <3>2. Front(here) \in Seq(Plain)
      BY FrontTyped
    <3>3. gone # <<>> /\ Front(gone) = Front(here)
      BY <3>2, FrontOfAppend
    <3>4. Onward(gone, "..") = Front(here)
      BY <3>3 DEF Onward
    <3>5. Onward(here, "..") = Front(here)
      BY FrontTyped DEF Onward
    <3> QED
      BY <2>1, <2>2, <2>4, <3>1, <3>4, <3>5
  <2>5. StartsUp(Append(t, token)) => StartsUp(t) \/ (Dotted(t) /\ token = "..")
    BY <2>1, ShapeAppend
  <2> QED
    BY <2>1, <2>3, <2>4, <2>5
<1>3. Seq(Tokens) \subseteq T
  <2> HIDE DEF T
  <2> QED
    BY <1>1, <1>2, Cut!SeqInduction
<1> QED
  BY <1>3, TokensFacts

\* A path that climbs first, but not from the start, stays below where it starts.
LEMMA DownFromGone ==
  ASSUME NEW gone \in Seq(Plain)
  PROVE  \A text \in Paths :
           Climbing(text) /\ ~ StartsUp(text) =>
             \E rest \in Seq(Plain) : Walk(gone, text) = gone \o rest
<1> DEFINE Below(t) == \E rest \in Seq(Plain) : Walk(gone, t) = gone \o rest
           T == {t \in Paths : Climbing(t) /\ ~ StartsUp(t) => Below(t)}
<1>1. <<>> \in T
  <2>1. Walk(gone, <<>>) = gone \o <<>> /\ <<>> \in Seq(Plain)
    BY WalkEmpty, ConcatEmptySeq, EmptySeq
  <2> QED
    BY <2>1, EmptyShape
<1>2. ASSUME NEW t \in Seq(Tokens) \cap T, NEW token \in Tokens
      PROVE  Append(t, token) \in T
  <2>1. t \in Paths /\ Append(t, token) \in Paths
    BY TokensFacts, AppendProperties
  <2> SUFFICES ASSUME Climbing(Append(t, token)), ~ StartsUp(Append(t, token))
               PROVE  Below(Append(t, token))
    BY <2>1
  <2>2. Climbing(t) /\ ~ StartsUp(t) /\ (token = ".." => Rising(t) /\ ~ Dotted(t))
    BY <2>1, ShapeAppend
  <2>3. token # ".."
    BY <2>1, <2>2, RisingStarts
  <2>4. PICK rest \in Seq(Plain) : Walk(gone, t) = gone \o rest
    BY <2>2
  <2>5. Walk(gone, Append(t, token)) = Onward(gone \o rest, token)
    BY <2>1, <2>4, WalkAppend
  <2>6. CASE token \in {"/", "."}
    BY <2>5, <2>6 DEF Onward
  <2>7. CASE token \notin {"/", "."}
    <3>1. token \in Plain
      BY <2>3, <2>7, TokensFacts DEF Plain
    <3>2. Onward(gone \o rest, token) = Append(gone \o rest, token)
      BY <2>3, <2>7 DEF Onward
    <3>3. /\ Append(gone \o rest, token) = gone \o Append(rest, token)
          /\ Append(rest, token) \in Seq(Plain)
      BY <3>1
    <3> QED
      BY <2>5, <3>2, <3>3
  <2> QED
    BY <2>6, <2>7
<1>3. Seq(Tokens) \subseteq T
  <2> HIDE DEF T
  <2> QED
    BY <1>1, <1>2, Cut!SeqInduction
<1> QED
  BY <1>3, TokensFacts

\* What lies under the name of the removed directories does not exist.
LEMMA GoneIsNowhere ==
  ASSUME From \in Seq(Plain), To \in Seq(Plain), ~ Contains(From, Deleted),
         NEW place \in Seq(Plain), Contains(place, Deleted)
  PROVE  Existing(Carry(place, From, To)) = Fail
<1>1. Contains(Carry(place, From, To), Deleted)
  <2>1. CASE Under(place, From)
    <3>1. PICK rest \in Seq(Plain) :
            place = From \o rest /\ \A other : Carry(place, From, other) = other \o rest
      BY <2>1, UnderIsConcat
    <3>2. PICK i \in 1..Len(place) : place[i] = Deleted
      BY DEF Contains
    <3> DEFINE k == Len(From)  m == Len(rest)  l == Len(To)
    <3>3. /\ k \in Nat /\ m \in Nat /\ l \in Nat
          /\ Len(From \o rest) = k + m /\ Len(To \o rest) = l + m
          /\ \A j \in 1..(k + m) : (From \o rest)[j] = IF j <= k THEN From[j] ELSE rest[j - k]
          /\ \A j \in 1..(l + m) : (To \o rest)[j] = IF j <= l THEN To[j] ELSE rest[j - l]
      BY LenProperties, ConcatProperties
    <3>4. ~ (i <= k)
      <4>1. i <= k => i \in 1..k /\ From[i] = Deleted
        BY <3>1, <3>2, <3>3
      <4> QED
        BY <4>1 DEF Contains
    <3> DEFINE j == (i - k) + l
    <3>5. i \in 1..(k + m) /\ rest[i - k] = Deleted
      BY <3>1, <3>2, <3>3, <3>4
    <3> HIDE DEF k, m, l
    <3>6. j \in 1..(l + m) /\ ~ (j <= l) /\ j - l = i - k
      BY <3>3, <3>4, <3>5
    <3>7. (To \o rest)[j] = Deleted /\ j \in 1..Len(To \o rest)
      BY <3>3, <3>5, <3>6
    <3> HIDE DEF j
    <3> QED
      BY <3>1, <3>7 DEF Contains
  <2>2. CASE ~ Under(place, From)
    BY <2>2 DEF Carry
  <2> QED
    BY <2>1, <2>2
<1> QED
  BY <1>1 DEF Existing

\* A program that climbs first, and a FROM without the name that /proc gives to removed
\* directories; then removed directories do no harm.
Climbers ==
  /\ ~ Contains(From, Deleted)
  /\ \A text \in Texts \ {NULL} : Absolute(text) \/ Climbing(text)

\* The paths a look may be taken for.
Readable(arg) ==
  /\ arg \in Located /\ arg.text # <<>>
  /\ arg.text # NULL => Tight(arg.text)
  /\ arg.text # NULL /\ Climbers => Absolute(arg.text) \/ Climbing(arg.text)

AllLive(n) == n \in State /\ \A d \in Dirs : n.live[d]

\* The states where a look can be trusted.
Clear(n) == n \in State /\ (Climbers \/ AllLive(n))

LEMMA AbsoluteLook ==
  ASSUME PlainPrefixes, NEW n, NEW arg, Readable(arg), Absolute(arg.text),
         rewrite_path_argument(arg) # arg
  PROVE  /\ Absolute(rewrite_path_argument(arg).text)
         /\ Target(n, rewrite_path_argument(arg)) = Meant(n, arg)
<1> DEFINE result == rewrite_absolute_path(policy, arg.text)
           look   == rewrite_path_argument(arg)
<1>1. arg.text \in Paths /\ Tight(arg.text) /\ arg.text # NULL /\ arg.text # <<>>
      /\ arg \in Located
  BY TextsTyped DEF Readable, Located, Absolute
<1>2. result # Fail /\ look.text = result
  BY <1>1 DEF rewrite_path_argument, Located
<1> HIDE DEF result, look
<1>3. Absolute(look.text)
      /\ Target(n, look) = Existing(Carry(Walk(<<>>, arg.text), From, To))
  BY <1>1, <1>2, TextLeads DEF result
<1>4. Leads(n, arg)
  BY <1>1 DEF Leads
<1> QED
  BY <1>3, <1>4, MeantIs DEF look

\* The base of a directory is where it seems to be. Nothing else is a base, and the
\* working directory has none once it is removed.
LEMMA BaseOf ==
  ASSUME NEW n \in State, NEW arg \in Located
  PROVE  LET d    == Object(n, arg.dir)
             base == BaseText(n, arg.dir)
         IN IF d \in Dirs /\ (n.live[d] \/ arg.dir # AT_FDCWD)
            THEN base = TextOf(Shown(n, d)) /\ base # Fail
            ELSE /\ d \in Dirs => base = Fail
                 /\ rewrite_relative_path_from_dirfd(policy, arg.dir = AT_FDCWD, base, arg.text)
                      = Fail
<1> DEFINE d == Object(n, arg.dir)  base == BaseText(n, arg.dir)
<1>1. d \in Dirs \cup {CLOSED, PIPE} /\ (arg.dir = AT_FDCWD => d \in Dirs)
  BY StateFields DEF Located
<1>2. ASSUME d \in Dirs, n.live[d] \/ arg.dir # AT_FDCWD
      PROVE  base = TextOf(Shown(n, d)) /\ base # Fail
  <2>1. d # CLOSED /\ d # PIPE
    BY <1>2, FileTreeAssumption
  <2>2. base = TextOf(Shown(n, d))
    BY <1>2, <2>1 DEF BaseText
  <2>3. Shown(n, d) \in Seq(Plain)
    BY <1>2, ShownTyped
  <2> HIDE DEF base
  <2> QED
    BY <2>2, <2>3, TextOfIs, TextsTyped
<1>3. ASSUME d \in Dirs, ~ (n.live[d] \/ arg.dir # AT_FDCWD)
      PROVE  /\ base = Fail
             /\ rewrite_relative_path_from_dirfd(policy, arg.dir = AT_FDCWD, base, arg.text)
                  = Fail
  <2>1. base = Fail
    BY <1>3 DEF BaseText
  <2> HIDE DEF base
  <2> QED
    BY <2>1 DEF rewrite_relative_path_from_dirfd
<1>4. ASSUME d \notin Dirs
      PROVE  rewrite_relative_path_from_dirfd(policy, arg.dir = AT_FDCWD, base, arg.text) = Fail
  <2>1. arg.dir # AT_FDCWD /\ base \in {Fail, <<Deleted>>}
    BY <1>1, <1>4 DEF BaseText
  <2>2. ~ Absolute(<<Deleted>>)
    BY FileTreeAssumption, PathTextAssumption DEF Absolute
  <2> HIDE DEF base
  <2> QED
    BY <2>1, <2>2 DEF rewrite_relative_path_from_dirfd
<1> QED
  BY <1>2, <1>3, <1>4

\* A relative path that leads anywhere leads to the same place from where its directory
\* is, or was, and from where it seems to be.
LEMMA ShownLeads ==
  ASSUME NEW n \in State, NEW arg, arg.text \in Paths, ~ Absolute(arg.text), Leads(n, arg)
  PROVE  LET d == Object(n, arg.dir)
         IN d \in Dirs /\ Walk(Shown(n, d), arg.text) = Walk(n.where[d], arg.text)
<1> DEFINE d == Object(n, arg.dir)
<1>1. d \in Dirs /\ (n.live[d] \/ StartsUp(arg.text))
  BY DEF Leads
<1>2. n.where[d] \in Seq(Plain) /\ Deleted \in Plain
  BY <1>1, StateFields, FileTreeAssumption DEF Plain
<1> HIDE DEF d
<1>3. ASSUME n.live[d] PROVE Shown(n, d) = n.where[d]
  BY <1>3 DEF Shown
<1>4. ASSUME ~ n.live[d]
      PROVE  Walk(Shown(n, d), arg.text) = Walk(n.where[d], arg.text)
  <2>1. Shown(n, d) = Append(Front(n.where[d]), Deleted)
    BY <1>4 DEF Shown
  <2> QED
    BY <1>1, <1>2, <1>4, <2>1, UpFromGone
<1> QED
  BY <1>1, <1>3, <1>4 DEF d

\* One that leads nowhere from a removed directory stays under its name there.
LEMMA GoneLeads ==
  ASSUME NEW n, Clear(n), NEW arg, Readable(arg), arg.text # NULL, ~ Absolute(arg.text),
         Object(n, arg.dir) \in Dirs, ~ Leads(n, arg)
  PROVE  /\ ~ Contains(From, Deleted)
         /\ Contains(Walk(Shown(n, Object(n, arg.dir)), arg.text), Deleted)
<1> DEFINE d == Object(n, arg.dir)  before == Front(n.where[d])  gone == Append(before, Deleted)
<1>1. arg.text \in Paths /\ arg.text # <<>> /\ n \in State
  BY DEF Readable, Located, Clear
<1>2. ~ n.live[d] /\ ~ StartsUp(arg.text)
  BY <1>1 DEF Leads
<1>3. ~ Contains(From, Deleted) /\ Climbing(arg.text)
  BY <1>2 DEF Clear, AllLive, Readable, Climbers
<1>4. before \in Seq(Plain) /\ Deleted \in Plain /\ Shown(n, d) = gone
  BY <1>1, <1>2, StateFields, FrontTyped, FileTreeAssumption DEF Plain, Shown
<1> HIDE DEF before
<1>5. /\ gone \in Seq(Plain) /\ Len(gone) = Len(before) + 1 /\ Len(before) \in Nat
      /\ gone[Len(before) + 1] = Deleted
  BY <1>4, AppendProperties, LenProperties
<1> HIDE DEF gone, d
<1>6. PICK rest \in Seq(Plain) : Walk(gone, arg.text) = gone \o rest
  BY <1>1, <1>2, <1>3, <1>5, DownFromGone
<1>7. Len(before) + 1 \in 1..Len(gone \o rest) /\ (gone \o rest)[Len(before) + 1] = Deleted
  <2>1. /\ Len(gone \o rest) = Len(gone) + Len(rest) /\ Len(rest) \in Nat
        /\ \A i \in 1..(Len(gone) + Len(rest)) :
             (gone \o rest)[i] = IF i <= Len(gone) THEN gone[i] ELSE rest[i - Len(gone)]
    BY <1>5, ConcatProperties, LenProperties
  <2> QED
    BY <1>5, <2>1
<1>8. Contains(Walk(gone, arg.text), Deleted)
  BY <1>6, <1>7 DEF Contains
<1> QED
  BY <1>3, <1>4, <1>8 DEF d

LEMMA RelativeLook ==
  ASSUME PlainSiblings, NEW n, Clear(n), NEW arg, Readable(arg), arg.text # NULL,
         ~ Absolute(arg.text), NEW result,
         result = rewrite_relative_path_from_dirfd(policy, arg.dir = AT_FDCWD,
                                                   BaseText(n, arg.dir), arg.text),
         result # Fail, NEW look, look.text = result
  PROVE  Absolute(result) /\ Target(n, look) = Meant(n, arg)
<1> DEFINE d == Object(n, arg.dir)  here == n.where[d]  shown == Shown(n, d)
           joined == Joined(shown, arg.text)
<1>1. arg.text \in Paths /\ Tight(arg.text) /\ arg.text # <<>> /\ arg \in Located /\ n \in State
  BY DEF Readable, Located, Clear
<1>2. d \in Dirs /\ BaseText(n, arg.dir) = TextOf(shown) /\ BaseText(n, arg.dir) # Fail
  BY <1>1, BaseOf
<1>3. here \in Seq(Plain) /\ shown \in Seq(Plain)
  BY <1>1, <1>2, StateFields, ShownTyped
<1> HIDE DEF d, here, shown
<1>5. result = rewrite_absolute_path(policy, joined)
  <2> DEFINE cwd == arg.dir = AT_FDCWD
  <2>1. cwd \in BOOLEAN
    OBVIOUS
  <2>2. result = rewrite_relative_path_from_dirfd(policy, cwd, TextOf(shown), arg.text)
    BY <1>2
  <2> HIDE DEF cwd
  <2>3. rewrite_relative_path_from_dirfd(policy, cwd, TextOf(shown), arg.text)
          \in {rewrite_absolute_path(policy, Joined(shown, arg.text)), Fail}
    BY <1>1, <1>3, <2>1, RelativeIsAbsolute
  <2> QED
    BY <2>2, <2>3
<1>6. /\ joined \in Paths /\ Absolute(joined) /\ Tight(joined)
      /\ Walk(<<>>, joined) = Walk(shown, arg.text)
  BY <1>1, <1>3, JoinedIs
<1> HIDE DEF joined
<1>7. Absolute(result) /\ Target(n, look) = Existing(Carry(Walk(shown, arg.text), From, To))
  BY <1>5, <1>6, TextLeads DEF PlainSiblings
<1>8. CASE Leads(n, arg)
  <2>1. Walk(shown, arg.text) = Walk(here, arg.text)
    BY <1>1, <1>8, ShownLeads DEF here, shown, d
  <2>2. Meant(n, arg) = Existing(Carry(Walk(Carry(here, To, From), arg.text), From, To))
    BY <1>2, <1>8, MeantIs DEF here, d
  <2>3. Carry(Walk(Carry(here, To, From), arg.text), From, To) =
          Carry(Walk(here, arg.text), From, To)
    BY <1>1, <1>3, SiblingFacts, SeenIsMeant
  <2> QED
    BY <1>7, <2>1, <2>2, <2>3
<1>9. CASE ~ Leads(n, arg)
  <2>1. ~ Contains(From, Deleted) /\ Contains(Walk(shown, arg.text), Deleted)
    BY <1>2, <1>9, GoneLeads DEF shown, d
  <2>2. Walk(shown, arg.text) \in Seq(Plain)
    BY <1>1, <1>3, WalkType
  <2>3. Existing(Carry(Walk(shown, arg.text), From, To)) = Fail
    BY <2>1, <2>2, SiblingFacts, GoneIsNowhere
  <2> QED
    BY <1>7, <1>9, <2>3, MeantIs
<1> QED
  BY <1>8, <1>9

\* A look that rewrites is right for its moment.
LEMMA LookIsRight ==
  ASSUME PlainSiblings, NEW n, Clear(n), NEW arg, Readable(arg), NEW route,
         route \in {"path", "payload", "cwd", "at"},
         route = "cwd" => arg.dir = AT_FDCWD,
         Rewritten(n, route, arg) # arg
  PROVE  /\ Absolute(Rewritten(n, route, arg).text)
         /\ Target(n, Rewritten(n, route, arg)) = Meant(n, arg)
<1> DEFINE result == rewrite_relative_path_from_dirfd(policy, arg.dir = AT_FDCWD,
                                                     BaseText(n, arg.dir), arg.text)
           look   == Rewritten(n, route, arg)
<1>1. route = "cwd" => [arg EXCEPT !.dir = AT_FDCWD] = arg
  BY DEF Readable, Located
<1>2. look = IF route \in {"cwd", "at"} THEN rewrite_at_argument(n, arg)
             ELSE rewrite_path_argument(arg)
  BY <1>1 DEF Rewritten, rewrite_cwd_relative_argument
<1>3. CASE Absolute(arg.text)
  <2>1. look = rewrite_path_argument(arg)
    BY <1>2, <1>3 DEF rewrite_at_argument
  <2> QED
    BY <1>3, <2>1, AbsoluteLook DEF PlainSiblings
<1>4. CASE ~ Absolute(arg.text) /\ (route \in {"path", "payload"} \/ arg.text = NULL)
  <2>1. arg.text = NULL \/ ~ Absolute(arg.text)
    BY <1>4
  <2>2. look = arg
    BY <1>2, <1>4 DEF rewrite_at_argument, rewrite_path_argument, rewrite_absolute_path,
                      rewrite_relative_path_from_dirfd
  <2> QED
    BY <2>2
<1>5. CASE ~ Absolute(arg.text) /\ arg.text # NULL /\ route \in {"cwd", "at"}
  <2>1. result # Fail /\ look = [dir |-> AT_FDCWD, text |-> result]
    BY <1>2, <1>5 DEF rewrite_at_argument
  <2>2. look.text = result
    BY <2>1
  <2> HIDE DEF result, look
  <2>3. Absolute(result) /\ Target(n, look) = Meant(n, arg)
    BY <1>5, <2>1, <2>2, RelativeLook DEF result
  <2> QED
    BY <2>2, <2>3 DEF look
<1> QED
  BY <1>3, <1>4, <1>5

\* A call of a program that gives no empty paths reads only readable ones.
LEMMA ArgumentsReadable ==
  ASSUME <<>> \notin Texts, NEW route, IsPath(route) \/ route = "payload",
         NEW arg \in Arguments(route)
  PROVE  /\ Readable(arg) /\ arg \in Arguable
         /\ route \in {"path", "cwd", "payload"} => arg.dir = AT_FDCWD
         /\ arg.text \in GivenTexts(route)
<1>1. arg.text \in GivenTexts(route) /\ arg.text \in Texts
      /\ (route \in {"path", "cwd", "payload"} => arg.dir = AT_FDCWD)
      /\ arg.dir \in Fds \cup {AT_FDCWD}
  BY DEF Arguments, IsPath, GivenTexts
<1>2. arg \in Located /\ arg \in Arguable
  BY ArgumentsLocated DEF Arguments, Arguable, IsPath, GivenTexts
<1>3. arg.text # NULL /\ Climbers => Absolute(arg.text) \/ Climbing(arg.text)
  BY <1>1 DEF Climbers
<1> QED
  BY <1>1, <1>2, <1>3, TextsTyped DEF Readable

\* Without a policy nothing is rewritten.
LEMMA NoPolicyNoLook ==
  ASSUME ~ policy.enabled, NEW n, NEW arg \in Located, NEW route,
         route = "cwd" => arg.dir = AT_FDCWD
  PROVE  Rewritten(n, route, arg) = arg
<1>1. route = "cwd" => [arg EXCEPT !.dir = AT_FDCWD] = arg
  BY DEF Located
<1> QED
  BY <1>1 DEF Rewritten, rewrite_cwd_relative_argument, rewrite_at_argument,
              rewrite_path_argument, rewrite_absolute_path, rewrite_relative_path_from_dirfd

\* The effect of a call is that of a function the program calls.
LEMMA NoSuchEffect ==
  ASSUME Typed, NEW t \in Threads, NEW effect, effect # "none",
         \A op \in Ops : Handlers[op].effect # effect
  PROVE  th[t].call.effect # effect
<1>1. NoHandler.effect = "none"
  BY DEF NoHandler, Handler
<1> QED
  BY <1>1 DEF Typed, TypedCall

LEMMA KernelKeepsLive ==
  ASSUME NEW n, AllLive(n), NEW place, NEW new
  PROVE  /\ \A m \in ChangeDir(n, place) \cup OpenDir(n, place) \cup MoveDir(n, place, new) :
              m.live = n.live
         /\ MakeDir(n, place) = {}
<1>1. /\ \A where : [n EXCEPT !.where = where].live = n.live
      /\ \A cwd : [n EXCEPT !.cwd = cwd].live = n.live
      /\ \A fds : [n EXCEPT !.fds = fds].live = n.live
  BY DEF AllLive, State
<1>2. \A m \in ChangeDir(n, place) : m.live = n.live
  BY <1>1 DEF ChangeDir
<1>3. \A m \in OpenDir(n, place) : m.live = n.live
  <2> TAKE m \in OpenDir(n, place)
  <2>1. PICK f \in Fds, d \in DirsAt(n, place) : m = [n EXCEPT !.fds[f] = d]
    BY DEF OpenDir
  <2> QED
    BY <2>1 DEF AllLive, State
<1>4. \A m \in MoveDir(n, place, new) : m.live = n.live
  BY <1>1 DEF MoveDir
<1>5. MakeDir(n, place) = {}
  BY DEF AllLive, MakeDir, Unused
<1> QED
  BY <1>2, <1>3, <1>4, <1>5

LEMMA RealCallKeepsLive ==
  ASSUME Typed, AllLive(fs), NEW t \in Threads, RealCall(t),
         \A op \in Ops : Handlers[op].effect # "rmdir"
  PROVE  fs'.live = fs.live
<1>1. AllLive(fs) /\ th[t].call.effect # "rmdir"
  BY NoSuchEffect
<1>2. CASE Refuse(t) \/ RealNone(t) \/ RealGetcwd(t)
  BY <1>2 DEF Refuse, RealNone, RealGetcwd, Return
<1>3. CASE RealClose(t)
  BY <1>1, <1>3 DEF RealClose, Return, AllLive, State
<1>4. CASE RealChdir(t) \/ RealOpen(t) \/ RealMkdir(t) \/ RealRename(t)
  BY <1>1, <1>4, KernelKeepsLive DEF RealChdir, RealOpen, RealMkdir, RealRename, Return
<1>5. CASE RealRmdir(t)
  BY <1>1, <1>5 DEF RealRmdir, Real
<1> QED
  BY <1>2, <1>3, <1>4, <1>5 DEF RealCall

LEMMA InitLive == Init => AllLive(fs)
<1> SUFFICES ASSUME Init PROVE AllLive(fs)
  OBVIOUS
<1>1. fs \in State
  BY InitTyped DEF Typed
<1>2. \A d \in Dirs : fs.live[d]
  BY DEF Init
<1> QED
  BY <1>1, <1>2 DEF AllLive

LEMMA LiveKept ==
  ASSUME \A op \in Ops : Handlers[op].effect # "rmdir"
  PROVE  Typed /\ AllLive(fs) /\ [Next]_vars => AllLive(fs)'
<1> SUFFICES ASSUME Typed, AllLive(fs), [Next]_vars PROVE AllLive(fs')
  OBVIOUS
<1>1. fs' \in State
  BY TypedKept DEF Typed
<1>2. fs'.live = fs.live
  <2>1. ASSUME NEW t \in Threads, RealCall(t) PROVE fs'.live = fs.live
    BY <2>1, RealCallKeepsLive
  <2>2. ASSUME NEW t \in Threads, NEW f \in Fds, Fchdir(t, f) PROVE fs'.live = fs.live
    BY <2>2 DEF Fchdir, AllLive, State
  <2>3. ASSUME NEW d \in Dirs, NEW place \in Movers, OtherRename(d, place)
        PROVE  fs'.live = fs.live
    BY <2>3, KernelKeepsLive DEF OtherRename
  <2>4. ASSUME NEW t \in Threads, NEW op \in Ops, Call(t, op) PROVE fs' = fs
    BY <2>4 DEF Call
  <2>5. ASSUME NEW t \in Threads, NEW i \in 1..2, RewriteArgument(t, i) PROVE fs' = fs
    BY <2>5 DEF RewriteArgument
  <2>6. CASE UNCHANGED vars
    BY <2>6 DEF vars
  <2> QED
    BY <2>1, <2>2, <2>3, <2>4, <2>5, <2>6 DEF Next
<1> QED
  BY <1>1, <1>2 DEF AllLive

\* Either nothing is removed, or the program climbs first.
Trusting == Climbers \/ \A op \in Ops : Handlers[op].effect # "rmdir"

LEMMA AlwaysClear == ASSUME Trusting PROVE Spec => []Clear(fs)
<1>1. CASE Climbers
  <2>1. Typed => Clear(fs)
    BY <1>1 DEF Typed, Clear
  <2> QED
    BY <2>1, AlwaysTyped, PTL
<1>2. CASE \A op \in Ops : Handlers[op].effect # "rmdir"
  <2>1. Typed /\ AllLive(fs) /\ [Next]_vars => AllLive(fs)'
    BY <1>2, LiveKept
  <2>2. AllLive(fs) => Clear(fs)
    BY DEF AllLive, Clear
  <2> QED
    BY <2>1, <2>2, InitLive, AlwaysTyped, PTL DEF Spec
<1> QED
  BY <1>1, <1>2 DEF Trusting

LEMMA LooksAreRight ==
  ASSUME PlainSiblings \/ ~ policy.enabled, <<>> \notin Texts
  PROVE  Typed /\ Clear(fs) => EachLookIsRight
<1> SUFFICES ASSUME Typed, Clear(fs), NEW t \in Threads,
                    NEW i \in PathsGiven(t) \ DOMAIN th[t].real,
                    NEW look, look = Rewritten(fs, th[t].call.routes[i], th[t].args[i]),
                    look # th[t].args[i]
             PROVE  Absolute(look.text) /\ Target(fs, look) = Meant(fs, th[t].args[i])
  BY DEF EachLookIsRight
<1> DEFINE route == th[t].call.routes[i]  arg == th[t].args[i]
<1>1. i \in DOMAIN th[t].args /\ arg \in Arguments(route)
      /\ (IsPath(route) \/ route = "payload")
  BY DEF PathsGiven, IsPath, Typed, TypedCall
<1>2. Readable(arg) /\ (route = "cwd" => arg.dir = AT_FDCWD)
  BY <1>1, ArgumentsReadable
<1>3. PlainSiblings
  BY <1>2, NoPolicyNoLook DEF Readable
<1> HIDE DEF route, arg
<1>4. route \in {"path", "payload", "cwd", "at"}
      /\ look = Rewritten(fs, route, arg) /\ look # arg
  BY <1>1 DEF IsPath, route, arg
<1>5. Absolute(look.text) /\ Target(fs, look) = Meant(fs, arg)
  BY <1>2, <1>3, <1>4, LookIsRight
<1> QED
  BY <1>5 DEF arg

\* Whenever a thread may look at its directory, what it gets is right for that moment:
\* for every number of threads and whatever other processes do to the names, where FROM
\* and TO are siblings (or nothing is rewritten), no path is empty, and no directory is
\* removed or the relative paths climb before they go down. With an empty path, another
\* path given from a removed directory or other prefixes it may be wrong.
THEOREM LooksStayRight ==
  ASSUME PlainSiblings \/ ~ policy.enabled, <<>> \notin Texts, Trusting
  PROVE  Spec => []EachLookIsRight
<1>1. Spec => []Clear(fs)
  BY AlwaysClear
<1>2. Typed /\ Clear(fs) => EachLookIsRight
  BY LooksAreRight
<1> QED
  BY <1>1, <1>2, AlwaysTyped, PTL

\* So a rewritten argument stays good until the real function has acted on it.
THEOREM SettlesForSiblings ==
  ASSUME PlainSiblings \/ ~ policy.enabled, <<>> \notin Texts, Trusting
  PROVE  Spec => []RewrittenIsSettled
BY LooksStayRight, Settles, PTL

\* The only call that brings the program down is a getcwd with a null buffer, where
\* no buffer is larger than the PATH_MAX bytes in which getcwd makes its answer.
THEOREM OnlyNullBufferCrashes == ASSUME NULL \notin Buffers PROVE Spec => []NoCrash
<1>1. Init => NoCrash
  BY DEF Init, NoCrash, Idle
<1>2. Typed /\ NoCrash /\ [Next]_vars => NoCrash'
  <2> SUFFICES ASSUME Typed, NoCrash, [Next]_vars PROVE NoCrash'
    OBVIOUS
  <2>1. DOMAIN th = Threads /\ \A t \in Threads : DOMAIN th[t] = Fields
    BY DEF Typed, TypedCall
  <2>2. \A n : \A u \in Threads : Noted(th[u], n).ended = th[u].ended
    BY <2>1 DEF Noted, Fields
  <2>3. Idle("done").ended = "done" /\ Idle("ENOSYS").ended = "ENOSYS"
    BY DEF Idle
  <2>4. ASSUME NEW t \in Threads, Return(t, fs') PROVE NoCrash'
    BY <2>1, <2>2, <2>3, <2>4 DEF Return, NotedAll, NoCrash
  <2>5. ASSUME NEW t \in Threads, Refuse(t) PROVE NoCrash'
    BY <2>1, <2>3, <2>5 DEF Refuse, NoCrash
  <2>6. ASSUME NEW t \in Threads, RealGetcwd(t) PROVE NoCrash'
    <3>1. Ready(t) /\ th[t].call.effect = "getcwd" /\ th[t].call # NoHandler
      BY <2>6 DEF RealGetcwd, Real, Ready, Busy
    <3>2. th[t].call.routes = <<"buffer">> /\ Len(th[t].call.routes) \in {1, 2}
          /\ DOMAIN th[t].args = 1..Len(th[t].call.routes)
          /\ (th[t].call.routes[1] \in {"fd", "buffer"} => th[t].real = th[t].args)
      BY <3>1 DEF Typed, TypedCall, Sound
    <3>3. th[t].args[1] \in Arguments("buffer") /\ th[t].real = th[t].args
      BY <3>2 DEF Typed, TypedCall
    <3>4. th[t].real[1].text # NULL
      BY <3>3 DEF Arguments
    <3>5. Return(t, fs')
      BY <2>6, <3>4 DEF RealGetcwd, Return
    <3> QED
      BY <3>5, <2>4
  <2>7. ASSUME NEW t \in Threads, RealCall(t) PROVE NoCrash'
    <3>1. CASE RealNone(t) \/ RealClose(t)
      BY <2>4, <3>1 DEF RealNone, RealClose, Return
    <3>2. CASE RealChdir(t) \/ RealOpen(t) \/ RealMkdir(t)
      BY <2>4, <3>2 DEF RealChdir, RealOpen, RealMkdir, Return
    <3>3. CASE RealRmdir(t) \/ RealRename(t)
      BY <2>4, <3>3 DEF RealRmdir, RealRename, Return
    <3> QED
      BY <2>5, <2>6, <2>7, <3>1, <3>2, <3>3 DEF RealCall
  <2>8. ASSUME NEW t \in Threads, NEW op \in Ops, Call(t, op) PROVE NoCrash'
    BY <2>1, <2>8 DEF Call, NoCrash
  <2>9. ASSUME NEW t \in Threads, NEW i \in 1..2, RewriteArgument(t, i) PROVE NoCrash'
    <3>1. \A u \in Threads : th'[u].ended = th[u].ended
      BY <2>1, <2>9 DEF RewriteArgument, Fields
    <3> QED
      BY <3>1 DEF NoCrash
  <2>10. ASSUME th' = NotedAll(fs') PROVE NoCrash'
    BY <2>2, <2>10 DEF NotedAll, NoCrash
  <2>11. CASE UNCHANGED vars
    BY <2>11 DEF vars, NoCrash
  <2> QED
    BY <2>7, <2>8, <2>9, <2>10, <2>11 DEF Next, Fchdir, OtherRename
<1> QED
  BY <1>1, <1>2, AlwaysTyped, PTL DEF Spec

-----------------------------------------------------------------------------
(***************************************************************************)
(* Calls act as meant, where also the arguments that are not rewritten are *)
(* right: there is room for every rewritten path, and no route leaves a    *)
(* relative path as it is.                                                 *)
(***************************************************************************)
\* Room for the path that an argument becomes.
Fits ==
  \A d \in Dirs, text \in Texts \ {NULL} :
    Length(TextOf(Shown(fs, d))) + Length(text) + Length(policy.to) + 3 <= PATH_MAX

\* An absolute path that fits is refused only outside FROM.
LEMMA RefusedOutside ==
  ASSUME PlainPrefixes, NEW text \in Paths, Absolute(text), Tight(text),
         Length(text) + Length(policy.to) + 2 <= PATH_MAX,
         rewrite_absolute_path(policy, text) = Fail
  PROVE  ~ Under(Walk(<<>>, text), From)
<1> DEFINE place == Walk(<<>>, text)  mapped == Carry(place, From, To)
<1>1. /\ Length(text) \in Nat /\ Length(policy.to) \in Nat /\ PATH_MAX \in Nat
      /\ policy.to = Slashed(To)
  BY LengthType, PolicyTyped, LimitsAssumption, PrefixFacts
<1>2. \/ ~ Under(place, From) \/ Length(text) + 1 > PATH_MAX
      \/ Length(TextOf(mapped)) + 1 > PATH_MAX \/ Length(TextOf(mapped)) + 2 > PATH_MAX
  BY PrefixFacts, RewriteMaps DEF PlainPrefixes
<1>3. mapped \in Seq(Plain)
  BY EmptySeq, WalkType, PrefixFacts, CarryTyped
<1>4. Length(TextOf(mapped)) \in Nat
  BY <1>3, TextOfIs, LengthType
<1>5. Under(place, From) => Length(TextOf(mapped)) <= Length(policy.to) + Length(text)
  BY <1>1, PrefixFacts, MappedLength
<1> HIDE DEF place, mapped
<1>6. ~ Under(place, From)
  BY <1>1, <1>2, <1>4, <1>5
<1> QED
  BY <1>6 DEF place

LEMMA AbsoluteActs ==
  ASSUME PlainPrefixes, NEW n, NEW arg, Readable(arg), Absolute(arg.text),
         Length(arg.text) + Length(policy.to) + 2 <= PATH_MAX
  PROVE  Target(n, rewrite_path_argument(arg)) = Meant(n, arg)
<1> DEFINE result == rewrite_absolute_path(policy, arg.text)
           look   == rewrite_path_argument(arg)
           place  == Walk(<<>>, arg.text)
<1>1. arg.text \in Paths /\ Tight(arg.text) /\ arg.text # NULL /\ arg.text # <<>>
      /\ arg \in Located
  BY TextsTyped DEF Readable, Located, Absolute
<1>2. Leads(n, arg)
  BY <1>1 DEF Leads
<1>3. Meant(n, arg) = Existing(Carry(place, From, To))
  BY <1>2, MeantIs
<1>4. CASE result # Fail
  <2>1. look.text = result
    BY <1>1, <1>4 DEF rewrite_path_argument, Located
  <2> HIDE DEF look, result
  <2>2. Target(n, look) = Existing(Carry(place, From, To))
    BY <1>1, <1>4, <2>1, TextLeads DEF result
  <2> QED
    BY <1>3, <2>2 DEF look
<1>5. CASE result = Fail
  <2>1. ~ Under(place, From)
    BY <1>1, <1>5, RefusedOutside
  <2>2. look = arg /\ Carry(place, From, To) = place
    BY <1>5, <2>1 DEF rewrite_path_argument, Carry
  <2>3. Target(n, arg) = Existing(place)
    BY <1>2 DEF Target
  <2> QED
    BY <1>3, <2>2, <2>3
<1> QED
  BY <1>4, <1>5

LEMMA RelativeActs ==
  ASSUME PlainSiblings, NEW n, Clear(n), NEW arg, Readable(arg), arg.text # NULL,
         ~ Absolute(arg.text),
         \A d \in Dirs :
           Length(TextOf(Shown(n, d))) + Length(arg.text) + Length(policy.to) + 3 <= PATH_MAX
  PROVE  Target(n, rewrite_at_argument(n, arg)) = Meant(n, arg)
<1> DEFINE result == rewrite_relative_path_from_dirfd(policy, arg.dir = AT_FDCWD,
                                                      BaseText(n, arg.dir), arg.text)
           look   == rewrite_at_argument(n, arg)
           d      == Object(n, arg.dir)
           here   == n.where[d]
           shown  == Shown(n, d)
           joined == Joined(shown, arg.text)
<1>1. arg.text \in Paths /\ Tight(arg.text) /\ arg.text # <<>> /\ arg \in Located /\ n \in State
  BY DEF Readable, Located, Clear
<1>2. CASE result # Fail
  <2>1. look = [dir |-> AT_FDCWD, text |-> result]
    BY <1>2 DEF rewrite_at_argument
  <2>2. look.text = result
    BY <2>1
  <2> HIDE DEF result, look
  <2> QED
    BY <1>2, <2>2, RelativeLook DEF result, look
<1>3. CASE result = Fail /\ (~ Leads(n, arg) \/ BaseText(n, arg.dir) = Fail)
  <2>1. look = arg
    BY <1>3 DEF rewrite_at_argument
  <2> QED
    BY <1>3, <2>1, MeantIs DEF Target
<1>4. CASE result = Fail /\ Leads(n, arg) /\ BaseText(n, arg.dir) # Fail
  <2>1. look = arg /\ Leads(n, arg) /\ d \in Dirs
    BY <1>1, <1>4 DEF rewrite_at_argument, Leads
  <2>2. /\ here \in Seq(Plain) /\ shown \in Seq(Plain)
        /\ BaseText(n, arg.dir) = TextOf(shown) /\ BaseText(n, arg.dir) # Fail
    BY <1>1, <1>4, <2>1, BaseOf, StateFields, ShownTyped
  <2>3. Walk(shown, arg.text) = Walk(here, arg.text)
    BY <1>1, <1>4, ShownLeads
  <2>4. /\ Length(TextOf(shown)) \in Nat /\ Length(arg.text) \in Nat /\ PATH_MAX \in Nat
        /\ Length(policy.to) \in Nat \ {0}
        /\ Length(TextOf(shown)) + Length(arg.text) + Length(policy.to) + 3 <= PATH_MAX
    <3>1. Length(policy.to) \in Nat \ {0}
      <4>1. /\ policy.to = Slashed(To) /\ To \in Seq(Names) /\ Len(To) \in Nat \ {0}
            /\ Len(To) <= Length(Slashed(To)) /\ Length(policy.to) \in Nat
        BY SiblingFacts, PlainSeq, PlaceShorter, LenProperties, EmptySeq, PolicyTyped, LengthType
      <4> QED
        BY <4>1
    <3> QED
      BY <1>1, <2>1, <2>2, <3>1, TextOfIs, LengthType, LimitsAssumption
  <2> HIDE DEF here, shown
  <2>5. Length(TextOf(shown)) + 1 + Length(arg.text) < PATH_MAX - 1
    BY <2>4
  <2>6. rewrite_absolute_path(policy, joined) = Fail
    <3> DEFINE cwd == arg.dir = AT_FDCWD
    <3>1. cwd \in BOOLEAN
      OBVIOUS
    <3>2. rewrite_relative_path_from_dirfd(policy, cwd, TextOf(shown), arg.text) = Fail
      BY <1>4, <2>2
    <3> HIDE DEF cwd
    <3>3. rewrite_relative_path_from_dirfd(policy, cwd, TextOf(shown), arg.text)
            = rewrite_absolute_path(policy, Joined(shown, arg.text))
      BY <1>1, <2>2, <2>5, <3>1, RelativeIsAbsolute
    <3> QED
      BY <3>2, <3>3
  <2>7. /\ joined \in Paths /\ Absolute(joined) /\ Tight(joined)
        /\ Walk(<<>>, joined) = Walk(shown, arg.text)
        /\ Length(joined) = Length(TextOf(shown)) + 1 + Length(arg.text)
    BY <1>1, <2>2, JoinedIs
  <2> HIDE DEF joined
  <2>8. Length(joined) + Length(policy.to) + 2 <= PATH_MAX
    BY <2>4, <2>7
  <2>9. ~ Under(Walk(here, arg.text), From)
    BY <2>3, <2>6, <2>7, <2>8, RefusedOutside DEF PlainSiblings
  <2>10. Carry(Walk(Carry(here, To, From), arg.text), From, To) = Walk(here, arg.text)
    BY <1>1, <2>2, <2>9, SiblingFacts, SeenIsMeant DEF Carry
  <2>11. Meant(n, arg) = Existing(Walk(here, arg.text))
    BY <2>1, <2>2, <2>10, MeantIs DEF here
  <2>12. Target(n, arg) = Existing(Walk(here, arg.text))
    BY <2>1 DEF Target, here
  <2> QED
    BY <2>1, <2>11, <2>12
<1> QED
  BY <1>2, <1>3, <1>4

\* Without a policy FROM and TO are both the root, and an argument means what the
\* kernel makes of it.
LEMMA NoPolicyCarry ==
  ASSUME ~ policy.enabled, NEW place \in Seq(Plain)
  PROVE  Carry(place, From, To) = place /\ Carry(place, To, From) = place
<1>1. From = <<>> /\ To = <<>>
  BY SegmentsEmpty DEF From, To, policy, init_rewrite_policy, NoPolicy
<1>2. <<>> \in Seq(Plain) /\ <<>> \o place = place
  BY EmptySeq, ConcatEmptySeq
<1> QED
  BY <1>1, <1>2, UnderConcat

LEMMA NoPolicyActs ==
  ASSUME ~ policy.enabled, NEW n \in State, NEW arg, Readable(arg)
  PROVE  Target(n, arg) = Meant(n, arg)
<1>1. arg \in Located
  BY DEF Readable
<1>2. CASE ~ Leads(n, arg)
  BY <1>2, MeantIs DEF Target
<1>3. CASE Leads(n, arg) /\ Absolute(arg.text)
  <2>1. arg.text \in Paths
    BY <1>1, <1>3 DEF Leads, Located
  <2>2. Walk(<<>>, arg.text) \in Seq(Plain)
    BY <2>1, EmptySeq, WalkType
  <2>3. Target(n, arg) = Existing(Walk(<<>>, arg.text))
    BY <1>3 DEF Target
  <2> QED
    BY NoPolicyCarry, <1>3, <2>2, <2>3, MeantIs
<1>4. CASE Leads(n, arg) /\ ~ Absolute(arg.text) /\ BaseText(n, arg.dir) = Fail
  BY <1>4, MeantIs
<1>5. CASE Leads(n, arg) /\ ~ Absolute(arg.text) /\ BaseText(n, arg.dir) # Fail
  <2> DEFINE here == n.where[Object(n, arg.dir)]
  <2>1. arg.text \in Paths /\ Object(n, arg.dir) \in Dirs
    BY <1>1, <1>5 DEF Leads, Located
  <2>2. here \in Seq(Plain) /\ BaseText(n, arg.dir) # Fail
    BY <1>5, <2>1, StateFields
  <2>3. Target(n, arg) = Existing(Walk(here, arg.text))
    BY <1>5 DEF Target
  <2>4. Meant(n, arg) = Existing(Carry(Walk(Carry(here, To, From), arg.text), From, To))
    BY <1>5, <2>2, MeantIs
  <2> HIDE DEF here
  <2>5. Carry(here, To, From) = here /\ Walk(here, arg.text) \in Seq(Plain)
    BY NoPolicyCarry, <2>1, <2>2, WalkType
  <2> QED
    BY NoPolicyCarry, <2>3, <2>4, <2>5
<1> QED
  BY <1>2, <1>3, <1>4, <1>5

\* What an argument has become leads where the argument means.
LEMMA LookActs ==
  ASSUME PlainSiblings \/ ~ policy.enabled, NEW n, Clear(n), NEW arg, Readable(arg), NEW route,
         route \in {"path", "payload", "cwd", "at"},
         route \in {"path", "payload"} => Absolute(arg.text) \/ arg.text = NULL,
         route = "cwd" => arg.dir = AT_FDCWD,
         arg.text # NULL =>
           \A d \in Dirs :
             Length(TextOf(Shown(n, d))) + Length(arg.text) + Length(policy.to) + 3 <= PATH_MAX
  PROVE  Target(n, Rewritten(n, route, arg)) = Meant(n, arg)
<1>1. arg \in Located /\ n \in State
  BY DEF Readable, Clear
<1>2. route = "cwd" => [arg EXCEPT !.dir = AT_FDCWD] = arg
  BY <1>1 DEF Located
<1>3. Rewritten(n, route, arg) = IF route \in {"cwd", "at"} THEN rewrite_at_argument(n, arg)
                                 ELSE rewrite_path_argument(arg)
  BY <1>2 DEF Rewritten, rewrite_cwd_relative_argument
<1>4. CASE ~ policy.enabled
  BY <1>1, <1>4, NoPolicyActs, NoPolicyNoLook
<1>5. CASE arg.text = NULL
  <2>1. Rewritten(n, route, arg) = arg
    BY <1>3, <1>5 DEF rewrite_at_argument, rewrite_path_argument, rewrite_absolute_path,
                      rewrite_relative_path_from_dirfd, Absolute
  <2> QED
    BY <1>5, <2>1, MeantIs DEF Target, Leads
<1>6. CASE PlainSiblings /\ Absolute(arg.text)
  <2>1. Rewritten(n, route, arg) = rewrite_path_argument(arg)
    BY <1>3, <1>6 DEF rewrite_at_argument
  <2>2. Length(arg.text) + Length(policy.to) + 2 <= PATH_MAX
    <3>1. /\ n.cwd \in Dirs /\ Shown(n, n.cwd) \in Seq(Plain)
          /\ arg.text # NULL /\ arg.text \in Paths
      BY <1>1, <1>6, StateFields, ShownTyped DEF Absolute, Located
    <3>2. /\ Length(TextOf(Shown(n, n.cwd))) \in Nat /\ Length(arg.text) \in Nat
          /\ Length(policy.to) \in Nat /\ PATH_MAX \in Nat
      BY <3>1, TextOfIs, LengthType, PolicyTyped, LimitsAssumption
    <3> QED
      BY <3>1, <3>2
  <2> QED
    BY <1>6, <2>1, <2>2, AbsoluteActs DEF PlainSiblings
<1>7. CASE PlainSiblings /\ ~ Absolute(arg.text) /\ arg.text # NULL
  BY <1>3, <1>7, RelativeActs
<1> QED
  BY <1>4, <1>5, <1>6, <1>7

\* What each rewritten argument of a call leads to is what it means now. One thread, and
\* nobody else who moves directories: it stays so until the real function runs.
Aimed ==
  \A t \in Threads : \A i \in DOMAIN th[t].real \cap PathsGiven(t) :
    Aim(t, i) = Meant(fs, th[t].args[i])

\* What the program and its surroundings are like in the theorems that follow.
Usual ==
  /\ PlainSiblings \/ ~ policy.enabled
  /\ <<>> \notin Texts /\ RelativeRoutes \subseteq {"cwd", "at"}
  /\ Trusting /\ Movers = {}

LEMMA CallAimed ==
  ASSUME Typed, Aimed, NEW t \in Threads, NEW op \in Ops, Call(t, op)
  PROVE  Aimed'
<1>1. Typed' /\ fs' = fs
  BY TypedKept DEF Call, Next
<1>2. DOMAIN th = Threads /\ \A u \in Threads : u # t => th'[u] = th[u]
  BY DEF Call, Typed
<1>3. DOMAIN th'[t].real \cap PathsGiven(t)' = {}
  <2>1. /\ th'[t].call = Handlers[op]
        /\ th'[t].call.routes[1] \notin {"fd", "buffer"} => th'[t].real = <<>>
    BY <1>2 DEF Call
  <2>2. Sound(Handlers[op])
    BY HandlersSound, OpsAssumption
  <2>3. TypedCall(th'[t])
    BY <1>1 DEF Typed
  <2>4. CASE th'[t].call.routes[1] \in {"fd", "buffer"}
    <3>1. Len(th'[t].call.routes) = 1
      BY <2>1, <2>2, <2>4 DEF Sound
    <3>2. th'[t].call # NoHandler
      BY <3>1, NoHandlerIsNot
    <3>3. DOMAIN th'[t].args = 1..1
      BY <2>3, <3>1, <3>2 DEF TypedCall
    <3> QED
      BY <2>4, <3>3 DEF PathsGiven
  <2>5. CASE th'[t].call.routes[1] \notin {"fd", "buffer"}
    <3>1. DOMAIN <<>> = {}
      OBVIOUS
    <3> QED
      BY <2>1, <2>5, <3>1
  <2> QED
    BY <2>4, <2>5
<1> QED
  BY <1>1, <1>2, <1>3 DEF Aimed, PathsGiven, Aim

LEMMA RewriteAimed ==
  ASSUME Usual, Typed, Clear(fs), Fits, Aimed, NEW t \in Threads, NEW i \in 1..2,
         RewriteArgument(t, i)
  PROVE  Aimed'
<1> DEFINE route == th[t].call.routes[i]
           arg   == th[t].args[i]
           look  == Rewritten(fs, route, arg)
<1>1. TypedCall(th[t]) /\ DOMAIN th = Threads
  BY DEF Typed
<1>2. /\ i \in DOMAIN th[t].args \ DOMAIN th[t].real /\ fs' = fs
      /\ \A u \in Threads : u # t => th'[u] = th[u]
      /\ th'[t].call = th[t].call /\ th'[t].args = th[t].args
      /\ th'[t].real = [j \in DOMAIN th[t].real \cup {i} |-> IF j = i THEN look ELSE th[t].real[j]]
  BY <1>1 DEF RewriteArgument, TypedCall, Fields
<1>3. PathsGiven(t)' = PathsGiven(t)
  BY <1>2 DEF PathsGiven
<1>4. i \in PathsGiven(t) => Target(fs, look) = Meant(fs, arg)
  <2> SUFFICES ASSUME i \in PathsGiven(t) PROVE Target(fs, look) = Meant(fs, arg)
    OBVIOUS
  <2>1. arg \in Arguments(route) /\ (IsPath(route) \/ (route = "payload" /\ Absolute(arg.text)))
    BY <1>1, <1>2 DEF TypedCall, PathsGiven, IsPath
  <2>2. /\ Readable(arg) /\ arg \in Arguable /\ arg.text \in GivenTexts(route)
        /\ route = "cwd" => arg.dir = AT_FDCWD
    BY <2>1, ArgumentsReadable DEF Usual
  <2>3. route \in {"path", "payload"} => Absolute(arg.text) \/ arg.text = NULL
    BY <2>1, <2>2 DEF GivenTexts, Usual, IsPath
  <2>4. arg.text # NULL =>
          \A d \in Dirs :
            Length(TextOf(Shown(fs, d))) + Length(arg.text) + Length(policy.to) + 3 <= PATH_MAX
    BY <2>2 DEF Fits, Arguable
  <2> HIDE DEF route, arg
  <2>5. route \in {"path", "payload", "cwd", "at"}
    BY <2>1 DEF IsPath
  <2>6. Target(fs, Rewritten(fs, route, arg)) = Meant(fs, arg)
    BY <2>2, <2>3, <2>4, <2>5, LookActs DEF Usual
  <2> QED
    BY <2>6 DEF look
<1> HIDE DEF look
<1>5. ASSUME NEW j \in DOMAIN th'[t].real \cap PathsGiven(t)'
      PROVE  Target(fs', th'[t].real[j]) = Meant(fs', th'[t].args[j])
  <2>1. CASE j = i
    BY <1>2, <1>3, <1>4, <2>1
  <2>2. CASE j # i
    BY <1>2, <1>3, <2>2 DEF Aimed, Aim
  <2> QED
    BY <2>1, <2>2
<1>6. ASSUME NEW u \in Threads, u # t, NEW j \in DOMAIN th'[u].real \cap PathsGiven(u)'
      PROVE  Target(fs', th'[u].real[j]) = Meant(fs', th'[u].args[j])
  <2>1. th'[u] = th[u] /\ PathsGiven(u)' = PathsGiven(u)
    BY <1>2, <1>6 DEF PathsGiven
  <2> QED
    BY <1>2, <1>6, <2>1 DEF Aimed, Aim
<1> QED
  BY <1>5, <1>6 DEF Aimed, Aim

LEMMA AimedKept ==
  ASSUME NEW t, Threads = {t}, Usual
  PROVE  Typed /\ Clear(fs) /\ Fits /\ Aimed /\ [Next]_vars => Aimed'
<1> SUFFICES ASSUME Typed, Clear(fs), Fits, Aimed, [Next]_vars PROVE Aimed'
  OBVIOUS
<1>0. DOMAIN <<>> = {}
  OBVIOUS
<1>1. ASSUME NEW op \in Ops, Call(t, op) PROVE Aimed'
  BY <1>1, CallAimed
<1>2. ASSUME NEW i \in 1..2, RewriteArgument(t, i) PROVE Aimed'
  BY <1>2, RewriteAimed
<1>3. CASE RealCall(t)
  <2>1. \E ended : th'[t] = Idle(ended)
    BY <1>3, RealCallEnds DEF Return, NotedAll, Typed
  <2> QED
    BY <1>0, <2>1 DEF Aimed, Idle
<1>4. ASSUME NEW f \in Fds, Fchdir(t, f) PROVE Aimed'
  <2>1. TypedCall(th[t]) /\ th[t].call = NoHandler /\ th'[t] = Noted(th[t], fs')
    BY <1>4 DEF Fchdir, Busy, NotedAll, Typed
  <2>2. DOMAIN th[t].real = {}
    BY <1>0, <2>1, NoHandlerIsNot DEF TypedCall
  <2>3. th'[t].real = th[t].real
    BY <2>1 DEF TypedCall, Noted, Fields
  <2> QED
    BY <2>2, <2>3 DEF Aimed
<1>5. CASE UNCHANGED vars
  BY <1>5 DEF vars, Aimed, Aim, PathsGiven
<1> QED
  BY <1>1, <1>2, <1>3, <1>4, <1>5 DEF Next, Usual

LEMMA InitAimed == Init => Aimed
<1>1. DOMAIN Idle("done").real = {}
  BY DEF Idle
<1> QED
  BY <1>1 DEF Init, Aimed

\* The calls of a program of one thread act on what it means, where FROM and TO are
\* siblings (or nothing is rewritten), the paths are not empty, relative ones go to the
\* functions that resolve them, and climb first if directories are removed, and every
\* path fits.
THEOREM CallsActAsMeant ==
  ASSUME NEW t, Threads = {t}, Usual
  PROVE  Spec /\ []Fits => []ActsAsMeant
<1>1. CallsOk /\ Aimed => ActsAsMeant
  <2> SUFFICES ASSUME CallsOk, Aimed, Ready(t), NEW i \in PathsGiven(t)
               PROVE  Aim(t, i) \in th[t].meant[i]
    BY DEF ActsAsMeant
  <2>1. i \in DOMAIN th[t].args /\ i \in DOMAIN th[t].real
    BY DEF Ready, PathsGiven
  <2> QED
    BY <2>1 DEF CallsOk, CallOk, MeansNow, Aimed
<1>2. Typed /\ Clear(fs) => EachLookIsRight
  BY LooksAreRight DEF Usual
<1>3. Spec => []Clear(fs)
  BY AlwaysClear DEF Usual
<1>4. Typed /\ Clear(fs) /\ Fits /\ Aimed /\ [Next]_vars => Aimed'
  BY AimedKept
<1> QED
  BY <1>1, <1>2, <1>3, <1>4, InitCallsOk, CallsOkKept, InitAimed, AlwaysTyped, PTL DEF Spec

\* So they keep the promise.
THEOREM IllusionHolds ==
  ASSUME NEW t, Threads = {t}, Usual, \A d \in Cwds : ~ Under(Layout[d], From)
  PROVE  Spec /\ []Fits => KeepsPromise
<1>1. Movers = {}
  BY DEF Usual
<1>2. Spec /\ []ActsAsMeant => KeepsPromise
  BY <1>1, ImplementsIllusion
<1> QED
  BY <1>2, CallsActAsMeant, PTL

\* Room at the start is room for ever where no call renames directories either.
LEMMA StillFits ==
  ASSUME Movers = {}, \A op \in Ops : Handlers[op].effect \notin {"rmdir", "rename"},
         \A d \in Dirs, text \in Texts \ {NULL} :
           Length(TextOf(Layout[d])) + Length(text) + Length(policy.to) + 3 <= PATH_MAX
  PROVE  Spec => []Fits
<1>1. Init => fs.where = Layout
  BY DEF Init
<1>2. Typed /\ AllLive(fs) /\ fs.where = Layout /\ [Next]_vars => (fs.where = Layout)'
  <2> SUFFICES ASSUME Typed, AllLive(fs), [Next]_vars PROVE fs'.where = fs.where
    OBVIOUS
  <2>1. ASSUME NEW t \in Threads, RealCall(t) PROVE fs'.where = fs.where
    <3>1. th[t].call.effect # "rmdir" /\ th[t].call.effect # "rename"
      BY NoSuchEffect
    <3>2. CASE Refuse(t) \/ RealNone(t) \/ RealGetcwd(t)
      BY <3>2 DEF Refuse, RealNone, RealGetcwd, Return
    <3>3. CASE RealClose(t)
      BY <3>3 DEF RealClose, Return, AllLive, State
    <3>4. CASE RealChdir(t)
      BY <3>4 DEF RealChdir, ChangeDir, Return, AllLive, State
    <3>5. CASE RealOpen(t)
      <4>1. PICK f \in Fds, d \in Dirs : fs' = [fs EXCEPT !.fds[f] = d]
        BY <3>5 DEF RealOpen, OpenDir, DirsAt, Return
      <4> QED
        BY <4>1 DEF AllLive, State
    <3>6. CASE RealMkdir(t)
      BY <3>6, KernelKeepsLive DEF RealMkdir
    <3>7. CASE RealRmdir(t) \/ RealRename(t)
      BY <3>1, <3>7 DEF RealRmdir, RealRename, Real
    <3> QED
      BY <2>1, <3>2, <3>3, <3>4, <3>5, <3>6, <3>7 DEF RealCall
  <2>2. ASSUME NEW t \in Threads, NEW f \in Fds, Fchdir(t, f) PROVE fs'.where = fs.where
    BY <2>2 DEF Fchdir, AllLive, State
  <2>3. ASSUME NEW t \in Threads, NEW op \in Ops, Call(t, op) PROVE fs' = fs
    BY <2>3 DEF Call
  <2>4. ASSUME NEW t \in Threads, NEW i \in 1..2, RewriteArgument(t, i) PROVE fs' = fs
    BY <2>4 DEF RewriteArgument
  <2>5. CASE UNCHANGED vars
    BY <2>5 DEF vars
  <2> QED
    BY <2>1, <2>2, <2>3, <2>4, <2>5 DEF Next
<1>3. Typed /\ AllLive(fs) /\ [Next]_vars => AllLive(fs)'
  BY LiveKept
<1>4. AllLive(fs) /\ fs.where = Layout => Fits
  BY ShownTyped DEF AllLive, Fits
<1> QED
  BY <1>1, <1>2, <1>3, <1>4, InitLive, AlwaysTyped, PTL DEF Spec

\* In a tree that stays as it is, with hypotheses on the constants alone: every call acts
\* on what the program means, and the promise is kept.
THEOREM StillTreeIllusion ==
  ASSUME NEW t, Threads = {t}, Usual,
         \A op \in Ops : Handlers[op].effect \notin {"rmdir", "rename"},
         \A d \in Dirs, text \in Texts \ {NULL} :
           Length(TextOf(Layout[d])) + Length(text) + Length(policy.to) + 3 <= PATH_MAX,
         \A d \in Cwds : ~ Under(Layout[d], From)
  PROVE  Spec => []ActsAsMeant /\ KeepsPromise
<1>1. Spec => []Fits
  BY StillFits DEF Usual
<1>2. Spec /\ []Fits => []ActsAsMeant
  BY CallsActAsMeant
<1>3. Spec /\ []Fits => KeepsPromise
  BY IllusionHolds
<1> QED
  BY <1>1, <1>2, <1>3, PTL

-----------------------------------------------------------------------------
(***************************************************************************)
(* A program that gives the library nothing but absolute paths has no look *)
(* at the kernel's state that could come too early: what an argument means *)
(* and what its rewritten form leads to are the same in every state. So    *)
(* any number of threads may call, directories may be renamed and removed, *)
(* and the prefixes need not be siblings. Symbolic links may hold relative *)
(* paths and descriptors may come from anywhere, fchdir included.          *)
(***************************************************************************)
AbsoluteProgram ==
  /\ RelativeRoutes \subseteq {"payload"}
  /\ policy.enabled =>
       /\ PlainPrefixes
       /\ \A text \in Texts \ {NULL} :
            Absolute(text) => Length(text) + Length(policy.to) + 2 <= PATH_MAX

\* An argument that leads to the same place from everywhere.
Fixed(arg) == Absolute(arg.text) \/ arg.text = NULL

LEMMA FixedIsStable ==
  ASSUME NEW n, NEW m, NEW arg, Fixed(arg)
  PROVE  Target(n, arg) = Target(m, arg) /\ Meant(n, arg) = Meant(m, arg)
<1>1. CASE arg.text = NULL
  BY <1>1, MeantIs DEF Target, Leads
<1>2. CASE Absolute(arg.text)
  <2>1. Leads(n, arg) = Leads(m, arg)
    BY <1>2 DEF Leads
  <2> QED
    BY <1>2, <2>1, AbsoluteIsStable, MeantIs
<1> QED
  BY <1>1, <1>2 DEF Fixed

\* What such a program gives.
LEMMA FixedGiven ==
  ASSUME AbsoluteProgram, Typed, NEW t \in Threads, NEW i \in PathsGiven(t)
  PROVE  LET arg   == th[t].args[i]
             route == th[t].call.routes[i]
         IN /\ Fixed(arg) /\ arg \in Located /\ arg \in Arguable
            /\ route \in {"path", "payload", "cwd", "at"}
            /\ route = "cwd" => arg.dir = AT_FDCWD
<1> DEFINE arg   == th[t].args[i]
           route == th[t].call.routes[i]
<1>1. arg \in Arguments(route)
      /\ (IsPath(route) \/ (route = "payload" /\ Absolute(arg.text)))
  BY DEF PathsGiven, IsPath, Typed, TypedCall
<1> HIDE DEF arg, route
<1>2. /\ arg.text \in GivenTexts(route) /\ arg \in Arguable
      /\ route = "cwd" => arg.dir = AT_FDCWD
  BY <1>1 DEF Arguments, IsPath, GivenTexts, Arguable
<1>3. Fixed(arg)
  BY <1>1, <1>2 DEF GivenTexts, AbsoluteProgram, Fixed, IsPath
<1>4. arg \in Located
  BY <1>1, ArgumentsLocated
<1> QED
  BY <1>1, <1>2, <1>3, <1>4 DEF IsPath, arg, route

\* What an argument becomes is as good from everywhere, and leads where it means.
LEMMA FixedActs ==
  ASSUME AbsoluteProgram, NEW n, NEW arg, Fixed(arg), arg \in Located, arg \in Arguable,
         NEW route, route \in {"path", "payload", "cwd", "at"},
         route = "cwd" => arg.dir = AT_FDCWD
  PROVE  LET look == Rewritten(n, route, arg)
         IN /\ Fixed(look) /\ Target(n, look) = Meant(n, arg)
            /\ look # arg => Absolute(look.text)
<1> DEFINE look == Rewritten(n, route, arg)
<1>1. CASE arg.text = NULL
  <2>1. route = "cwd" => [arg EXCEPT !.dir = AT_FDCWD] = arg
    BY DEF Located
  <2>2. look = arg
    BY <1>1, <2>1 DEF Rewritten, rewrite_cwd_relative_argument, rewrite_at_argument,
       rewrite_path_argument, rewrite_absolute_path, rewrite_relative_path_from_dirfd, Absolute
  <2> QED
    BY <1>1, <2>2, MeantIs DEF Target, Leads, Fixed
<1>2. CASE Absolute(arg.text) /\ ~ policy.enabled
  <2>1. look = arg
    BY <1>2, NoPolicyNoLook
  <2>2. arg.text \in Paths /\ Leads(n, arg)
    BY <1>2, TextsTyped DEF Located, Absolute, Leads
  <2>3. Walk(<<>>, arg.text) \in Seq(Plain)
    BY <2>2, EmptySeq, WalkType
  <2>4. Meant(n, arg) = Existing(Walk(<<>>, arg.text))
    BY <1>2, <2>2, <2>3, MeantIs, NoPolicyCarry
  <2> QED
    BY <1>2, <2>1, <2>2, <2>4 DEF Target, Fixed
<1>3. CASE Absolute(arg.text) /\ policy.enabled
  <2>1. /\ arg.text \in Texts /\ arg.text # NULL /\ arg.text # <<>> /\ arg.text \in Paths
        /\ Tight(arg.text) /\ PlainPrefixes
    BY <1>3, InterposerAssumption, TextsTyped DEF Arguable, Located, Absolute, AbsoluteProgram
  <2>2. Readable(arg) /\ Length(arg.text) + Length(policy.to) + 2 <= PATH_MAX
    BY <1>3, <2>1 DEF Readable, AbsoluteProgram
  <2>3. look = rewrite_path_argument(arg)
    <3>1. route = "cwd" => [arg EXCEPT !.dir = AT_FDCWD] = arg
      BY DEF Located
    <3> QED
      BY <1>3, <3>1 DEF Rewritten, rewrite_cwd_relative_argument, rewrite_at_argument
  <2> HIDE DEF look
  <2>4. Target(n, look) = Meant(n, arg)
    BY <1>3, <2>1, <2>2, <2>3, AbsoluteActs
  <2>5. look # arg => Absolute(look.text)
    BY <1>3, <2>1, <2>2, <2>3, AbsoluteLook
  <2> QED
    BY <1>3, <2>4, <2>5 DEF Fixed, look
<1> QED
  BY <1>1, <1>2, <1>3 DEF Fixed

\* The rewritten arguments of a call, in a state n: they lead where the given ones mean,
\* and both do from everywhere.
Pointed(n, c) ==
  \A i \in DOMAIN c.real :
    GivenPath(c, i) => /\ Fixed(c.args[i]) /\ Fixed(c.real[i])
                       /\ Target(n, c.real[i]) = Meant(n, c.args[i])

AllPointed == \A t \in Threads : Pointed(fs, th[t])

LEMMA IdleIsPointed == \A n, ended : Pointed(n, Idle(ended))
<1>1. \A ended : Idle(ended).real = <<>>
  BY DEF Idle
<1>2. DOMAIN <<>> = {}
  OBVIOUS
<1> QED
  BY <1>1, <1>2 DEF Pointed

\* A change of the file system, whatever it is, leaves it so.
LEMMA PointedIsStable ==
  ASSUME NEW n, NEW m, NEW c, Pointed(n, c),
         NEW d, d.call = c.call, d.args = c.args, d.real = c.real
  PROVE  Pointed(m, d)
<1> SUFFICES ASSUME NEW i \in DOMAIN d.real, GivenPath(d, i)
             PROVE  /\ Fixed(d.args[i]) /\ Fixed(d.real[i])
                    /\ Target(m, d.real[i]) = Meant(m, d.args[i])
  BY DEF Pointed
<1>1. /\ Fixed(c.args[i]) /\ Fixed(c.real[i])
      /\ Target(n, c.real[i]) = Meant(n, c.args[i])
  BY DEF Pointed, GivenPath
<1> QED
  BY <1>1, FixedIsStable

LEMMA NotedIsPointed ==
  ASSUME Typed, AllPointed, NEW n, NEW t \in Threads
  PROVE  Pointed(n, Noted(th[t], n))
<1> DEFINE d == Noted(th[t], n)
<1>1. d.call = th[t].call /\ d.args = th[t].args /\ d.real = th[t].real
  BY DEF Noted, Typed, TypedCall, Fields
<1>2. Pointed(fs, th[t])
  BY DEF AllPointed
<1> HIDE DEF d
<1>3. Pointed(n, d)
  BY <1>1, <1>2, PointedIsStable
<1> QED
  BY <1>3 DEF d

\* Descriptors and buffers aside, a call starts with nothing rewritten.
LEMMA CallIsPointed ==
  ASSUME Typed, AllPointed, NEW t \in Threads, NEW op \in Ops, Call(t, op)
  PROVE  AllPointed'
<1>1. Typed' /\ fs' = fs
  BY TypedKept DEF Call, Next
<1>2. DOMAIN th = Threads /\ \A u \in Threads : u # t => th'[u] = th[u]
  BY DEF Call, Typed
<1>3. \A i \in DOMAIN th'[t].real : ~ GivenPath(th'[t], i)
  <2>1. /\ th'[t].call = Handlers[op]
        /\ th'[t].call.routes[1] \notin {"fd", "buffer"} => th'[t].real = <<>>
    BY <1>2 DEF Call
  <2>2. Sound(Handlers[op]) /\ TypedCall(th'[t])
    BY <1>1, HandlersSound, OpsAssumption DEF Typed
  <2>3. CASE th'[t].call.routes[1] \in {"fd", "buffer"}
    <3>1. Len(th'[t].call.routes) = 1
      BY <2>1, <2>2, <2>3 DEF Sound
    <3>2. th'[t].call # NoHandler
      BY <3>1, NoHandlerIsNot
    <3>3. DOMAIN th'[t].args = 1..1
      BY <2>2, <3>1, <3>2 DEF TypedCall
    <3> QED
      BY <2>2, <2>3, <3>3 DEF TypedCall, GivenPath
  <2>4. CASE th'[t].call.routes[1] \notin {"fd", "buffer"}
    <3>1. DOMAIN <<>> = {}
      OBVIOUS
    <3> QED
      BY <2>1, <2>4, <3>1
  <2> QED
    BY <2>3, <2>4
<1> QED
  BY <1>1, <1>2, <1>3 DEF AllPointed, Pointed

LEMMA RewriteIsPointed ==
  ASSUME AbsoluteProgram, Typed, AllPointed, NEW t \in Threads, NEW i \in 1..2,
         RewriteArgument(t, i)
  PROVE  AllPointed'
<1> DEFINE route == th[t].call.routes[i]
           arg   == th[t].args[i]
           look  == Rewritten(fs, route, arg)
<1>1. TypedCall(th[t]) /\ DOMAIN th = Threads
  BY DEF Typed
<1>2. /\ i \in DOMAIN th[t].args \ DOMAIN th[t].real /\ fs' = fs
      /\ \A u \in Threads : u # t => th'[u] = th[u]
      /\ th'[t].call = th[t].call /\ th'[t].args = th[t].args
      /\ th'[t].real = [j \in DOMAIN th[t].real \cup {i} |-> IF j = i THEN look ELSE th[t].real[j]]
  BY <1>1 DEF RewriteArgument, TypedCall, Fields
<1>3. GivenPath(th[t], i) => /\ Fixed(arg) /\ Fixed(look)
                             /\ Target(fs, look) = Meant(fs, arg)
  <2> SUFFICES ASSUME GivenPath(th[t], i)
               PROVE  Fixed(arg) /\ Fixed(look) /\ Target(fs, look) = Meant(fs, arg)
    OBVIOUS
  <2>1. i \in PathsGiven(t)
    BY <1>2 DEF GivenPath, PathsGiven
  <2>2. /\ Fixed(arg) /\ arg \in Located /\ arg \in Arguable
        /\ route \in {"path", "payload", "cwd", "at"}
        /\ route = "cwd" => arg.dir = AT_FDCWD
    BY <2>1, FixedGiven
  <2> HIDE DEF route, arg
  <2> QED
    BY <2>2, FixedActs
<1> HIDE DEF look
<1>4. Pointed(fs, th'[t])
  <2> SUFFICES ASSUME NEW j \in DOMAIN th'[t].real, GivenPath(th'[t], j)
               PROVE  /\ Fixed(th'[t].args[j]) /\ Fixed(th'[t].real[j])
                      /\ Target(fs, th'[t].real[j]) = Meant(fs, th'[t].args[j])
    BY DEF Pointed
  <2>1. GivenPath(th[t], j)
    BY <1>2 DEF GivenPath
  <2>2. CASE j = i
    BY <1>2, <1>3, <2>1, <2>2
  <2>3. CASE j # i
    <3>1. j \in DOMAIN th[t].real /\ th'[t].real[j] = th[t].real[j] /\ Pointed(fs, th[t])
      BY <1>2, <2>3 DEF AllPointed
    <3> QED
      BY <1>2, <2>1, <3>1 DEF Pointed
  <2> QED
    BY <2>2, <2>3
<1> QED
  BY <1>2, <1>4 DEF AllPointed

LEMMA PointedKept ==
  ASSUME AbsoluteProgram
  PROVE  Typed /\ AllPointed /\ [Next]_vars => AllPointed'
<1> SUFFICES ASSUME Typed, AllPointed, [Next]_vars PROVE AllPointed'
  OBVIOUS
<1>1. ASSUME NEW t \in Threads, NEW op \in Ops, Call(t, op) PROVE AllPointed'
  BY <1>1, CallIsPointed
<1>2. ASSUME NEW t \in Threads, NEW i \in 1..2, RewriteArgument(t, i) PROVE AllPointed'
  BY <1>2, RewriteIsPointed
<1>3. ASSUME NEW t \in Threads, RealCall(t) PROVE AllPointed'
  <2>1. CASE th' = [th EXCEPT ![t] = Idle("ENOSYS")] /\ UNCHANGED fs
    BY <2>1, IdleIsPointed DEF AllPointed, Typed
  <2>2. CASE Return(t, fs')
    BY <2>2, IdleIsPointed, NotedIsPointed DEF Return, AllPointed, NotedAll
  <2>3. CASE th' = [u \in Threads |-> Idle("crashed")] /\ UNCHANGED fs
    BY <2>3, IdleIsPointed DEF AllPointed
  <2> QED
    BY <1>3, <2>1, <2>2, <2>3, RealCallEnds
<1>4. ASSUME th' = NotedAll(fs') PROVE AllPointed'
  BY <1>4, NotedIsPointed DEF AllPointed, NotedAll
<1>5. CASE UNCHANGED vars
  BY <1>5 DEF vars, AllPointed
<1> QED
  BY <1>1, <1>2, <1>3, <1>4, <1>5 DEF Next, Fchdir, OtherRename

LEMMA InitPointed == Init => AllPointed
BY IdleIsPointed DEF Init, AllPointed

\* Each look of such a program is right, and so each call means one thing only.
LEMMA FixedLooks ==
  ASSUME AbsoluteProgram
  PROVE  Typed => EachLookIsRight
<1> SUFFICES ASSUME Typed, NEW t \in Threads, NEW i \in PathsGiven(t) \ DOMAIN th[t].real,
                    NEW look, look = Rewritten(fs, th[t].call.routes[i], th[t].args[i]),
                    look # th[t].args[i]
             PROVE  Absolute(look.text) /\ Target(fs, look) = Meant(fs, th[t].args[i])
  BY DEF EachLookIsRight
<1> DEFINE route == th[t].call.routes[i]
           arg   == th[t].args[i]
<1>1. /\ Fixed(arg) /\ arg \in Located /\ arg \in Arguable
      /\ route \in {"path", "payload", "cwd", "at"}
      /\ route = "cwd" => arg.dir = AT_FDCWD
  BY FixedGiven
<1>2. look = Rewritten(fs, route, arg) /\ look # arg
  OBVIOUS
<1> HIDE DEF route, arg
<1>3. Absolute(look.text) /\ Target(fs, look) = Meant(fs, arg)
  BY <1>1, <1>2, FixedActs
<1> QED
  BY <1>3 DEF arg

\* With absolute paths every call acts on what the program means by it, however its
\* threads interleave, whatever is renamed or removed by them or by other processes
\* between the rewriting and the real call, and wherever FROM and TO are.
THEOREM AbsoluteCallsActAsMeant ==
  ASSUME AbsoluteProgram
  PROVE  Spec => []ActsAsMeant
<1>1. CallsOk /\ AllPointed => ActsAsMeant
  <2> SUFFICES ASSUME CallsOk, AllPointed, NEW t \in Threads, Ready(t), NEW i \in PathsGiven(t)
               PROVE  Aim(t, i) \in th[t].meant[i]
    BY DEF ActsAsMeant
  <2>1. i \in DOMAIN th[t].args /\ i \in DOMAIN th[t].real /\ GivenPath(th[t], i)
    BY DEF Ready, PathsGiven, GivenPath
  <2>2. Aim(t, i) = Meant(fs, th[t].args[i])
    BY <2>1 DEF AllPointed, Pointed, Aim
  <2> QED
    BY <2>1, <2>2 DEF CallsOk, CallOk, MeansNow
<1>2. Typed => EachLookIsRight
  BY FixedLooks
<1>3. Typed /\ AllPointed /\ [Next]_vars => AllPointed'
  BY PointedKept
<1> QED
  BY <1>1, <1>2, <1>3, InitCallsOk, CallsOkKept, InitPointed, AlwaysTyped, PTL DEF Spec

LEMMA PointedIsFaithful ==
  ASSUME AbsoluteProgram, Typed, AllPointed, NEW t \in Threads
  PROVE  Faithful(t)
<1> SUFFICES ASSUME Ready(t) PROVE Faithful(t)
  BY DEF Faithful
<1> DEFINE call == th[t].call
<1>1. /\ TypedCall(th[t]) /\ Sound(call) /\ DOMAIN th[t].args = 1..Len(call.routes)
      /\ call.routes[1] \in {"fd", "buffer"} => th[t].real = th[t].args
  BY DEF Ready, Busy, Typed, TypedCall
<1>2. ASSUME NEW i \in 1..Len(call.routes), IsPath(call.routes[i])
      PROVE  th[t].args[i] \in Arguable /\ Aim(t, i) = Meant(fs, th[t].args[i])
  <2>1. i \in PathsGiven(t) /\ GivenPath(th[t], i) /\ i \in DOMAIN th[t].real
    BY <1>1, <1>2 DEF PathsGiven, GivenPath, IsPath, Ready
  <2>2. Aim(t, i) = Meant(fs, th[t].args[i])
    BY <2>1 DEF AllPointed, Pointed, Aim
  <2> QED
    BY <2>1, <2>2, FixedGiven
<1>3. call.effect = "close" => th[t].real[1].dir \in Fds
  <2> SUFFICES ASSUME call.effect = "close" PROVE th[t].real[1].dir \in Fds
    OBVIOUS
  <2>1. call.routes = <<"fd">>
    BY <1>1 DEF Sound
  <2>2. Len(call.routes) = 1 /\ call.routes[1] = "fd"
    BY <2>1
  <2>3. th[t].args[1] \in Arguments("fd") /\ th[t].real = th[t].args
    BY <1>1, <2>2 DEF TypedCall
  <2> QED
    BY <2>3 DEF Arguments
<1> QED
  BY <1>1, <1>2, <1>3 DEF Faithful

\* And it keeps the promise, threads and all, while nobody else moves directories: its
\* calls are, seen from outside, calls that act at once, in the order of the real ones.
THEOREM AbsoluteIllusion ==
  ASSUME AbsoluteProgram, Movers = {}, \A d \in Cwds : ~ Under(Layout[d], From)
  PROVE  Spec => KeepsPromise
<1>1. Init => Promise!Init
  BY InitIsPromised
<1>2. Typed /\ AllPointed /\ [Next]_vars => AllPointed'
  BY PointedKept
<1>3. Typed /\ AllPointed /\ [Next]_vars => [Promise!Next]_fs
  BY PointedIsFaithful, StepIsPromised
<1> QED
  BY <1>1, <1>2, <1>3, InitPointed, AlwaysTyped, PTL DEF Spec, KeepsPromise, Promise!Spec

-----------------------------------------------------------------------------
(***************************************************************************)
(* The tree at FROM is never entered, where FROM is one name: a rename     *)
(* cannot bring its parent somewhere else.                                 *)
(***************************************************************************)
Held(n, d) == n.cwd = d \/ \E f \in Fds : n.fds[f] = d

Outside(n) == \A d \in Dirs : Held(n, d) => ~ Under(n.where[d], From)

\* Nothing that a program means is under FROM.
LEMMA MeantOutside ==
  ASSUME PlainSiblings, NEW n, AllLive(n), NEW arg \in Located
  PROVE  Meant(n, arg) = Fail \/ ~ Under(Meant(n, arg), From)
<1>1. ASSUME NEW place \in Seq(Plain) PROVE ~ Under(Carry(place, From, To), From)
  <2>1. CASE Under(place, From)
    <3>1. PICK rest \in Seq(Plain) :
            place = From \o rest /\ \A other : Carry(place, From, other) = other \o rest
      BY <2>1, SiblingFacts, UnderIsConcat
    <3> QED
      BY <3>1, SiblingFacts, SiblingsApart
  <2>2. CASE ~ Under(place, From)
    BY <2>2 DEF Carry
  <2> QED
    BY <2>1, <2>2
<1>2. CASE ~ Leads(n, arg)
  BY <1>2, MeantIs
<1>3. CASE Leads(n, arg) /\ Absolute(arg.text)
  <2>1. arg.text \in Paths
    BY <1>3 DEF Leads, Located
  <2>2. Walk(<<>>, arg.text) \in Seq(Plain)
    BY <2>1, EmptySeq, WalkType
  <2> QED
    BY <1>1, <1>3, <2>2, MeantIs DEF Existing
<1>4. CASE Leads(n, arg) /\ ~ Absolute(arg.text)
  <2> DEFINE here == n.where[Object(n, arg.dir)]
             seen == Walk(Carry(here, To, From), arg.text)
  <2>1. arg.text \in Paths /\ Object(n, arg.dir) \in Dirs
    BY <1>4 DEF Leads, Located
  <2>2. here \in Seq(Plain) /\ BaseText(n, arg.dir) # Fail
    BY <2>1, BaseOf, StateFields DEF AllLive
  <2>3. Meant(n, arg) = Existing(Carry(seen, From, To))
    BY <1>4, <2>2, MeantIs
  <2> HIDE DEF here
  <2>4. seen \in Seq(Plain)
    BY <2>1, <2>2, SiblingFacts, CarryTyped, WalkType
  <2> HIDE DEF seen
  <2> QED
    BY <1>1, <2>3, <2>4 DEF Existing
<1> QED
  BY <1>2, <1>3, <1>4

\* A single name at the start of a path is that of its first part.
LEMMA FirstName ==
  ASSUME NEW top \in Seq(Plain), Len(top) = 1, NEW place \in Seq(Plain), place # <<>>,
         NEW rest \in Seq(Plain), Under(place \o rest, top)
  PROVE  Under(place, top)
<1> DEFINE both == place \o rest
<1>1. /\ both \in Seq(Plain) /\ Len(both) = Len(place) + Len(rest) /\ Len(place) \in Nat \ {0}
      /\ Len(rest) \in Nat /\ both[1] = place[1]
  BY ConcatProperties, LenProperties, EmptySeq
<1> HIDE DEF both
<1>2. ASSUME NEW t \in Seq(Plain), Len(t) \in Nat \ {0}
      PROVE  SubSeq(t, 1, 1) \in Seq(Plain) /\ Len(SubSeq(t, 1, 1)) = 1 /\ SubSeq(t, 1, 1)[1] = t[1]
  <2>1. 1 \in 1..Len(t)
    BY <1>2
  <2>2. \A i \in 1..1 : t[i] \in Plain
    BY <2>1, ElementOfSeq
  <2>3. /\ SubSeq(t, 1, 1) \in Seq(Plain) /\ Len(SubSeq(t, 1, 1)) = IF 1 <= 1 THEN 1 - 1 + 1 ELSE 0
        /\ \A i \in 1..(1 - 1 + 1) : SubSeq(t, 1, 1)[i] = t[1 + i - 1]
    BY <2>2, SubSeqProperties
  <2> QED
    BY <2>3
<1>3. Len(top) \in Nat \ {0} /\ Len(both) \in Nat \ {0}
  BY <1>1
<1>4. SubSeq(top, 1, 1) = SubSeq(both, 1, 1)
  BY <1>1 DEF Under, IsPrefix, both
<1>5. SubSeq(top, 1, 1) = SubSeq(place, 1, 1)
  <2>1. SubSeq(top, 1, 1)[1] = SubSeq(place, 1, 1)[1]
    BY <1>1, <1>2, <1>3, <1>4
  <2>2. /\ SubSeq(top, 1, 1) \in Seq(Plain) /\ SubSeq(place, 1, 1) \in Seq(Plain)
        /\ Len(SubSeq(top, 1, 1)) = 1 /\ Len(SubSeq(place, 1, 1)) = 1
    BY <1>1, <1>2, <1>3
  <2> HIDE DEF both
  <2>3. \A i \in 1..1 : SubSeq(top, 1, 1)[i] = SubSeq(place, 1, 1)[i]
    BY <2>1
  <2> QED
    BY <2>2, <2>3, SeqEqual
<1> QED
  BY <1>1, <1>5 DEF Under, IsPrefix

\* What a program holds stays outside when calls act on places outside.
LEMMA KernelOutside ==
  ASSUME PlainPrefixes, Len(From) = 1, NEW n \in State, Outside(n),
         NEW place, place = Fail \/ ~ Under(place, From)
  PROVE  /\ \A m \in ChangeDir(n, place) \cup OpenDir(n, place) : Outside(m)
         /\ \A m \in MakeDir(n, place) \cup RemoveDir(n, place) : Outside(m)
         /\ \A old \in Seq(Plain) \cup {Fail} :
              place \in Seq(Plain) \cup {Fail} => \A m \in MoveDir(n, old, place) : Outside(m)
<1>1. \A d \in DirsAt(n, place) : d \in Dirs /\ ~ Under(n.where[d], From)
  <2> SUFFICES ASSUME NEW d \in DirsAt(n, place) PROVE d \in Dirs /\ ~ Under(n.where[d], From)
    OBVIOUS
  <2>1. d \in Dirs /\ n.where[d] = place /\ n.where[d] \in Seq(Plain)
    BY StateFields DEF DirsAt
  <2>2. n.where[d] \in Paths
    BY <2>1, TextsTyped, PlainSeq, TokensFacts, SeqMonotonic
  <2> QED
    BY <2>1, <2>2, TextsTyped
<1>2. ASSUME NEW m \in ChangeDir(n, place) PROVE Outside(m)
  <2>1. PICK d \in DirsAt(n, place) : m = [n EXCEPT !.cwd = d]
    BY <1>2 DEF ChangeDir
  <2>2. m.where = n.where /\ m.fds = n.fds /\ m.cwd = d
    BY <2>1 DEF State
  <2> QED
    BY <1>1, <2>2 DEF Outside, Held
<1>3. ASSUME NEW m \in OpenDir(n, place) PROVE Outside(m)
  <2>1. PICK f \in Fds, d \in DirsAt(n, place) : m = [n EXCEPT !.fds[f] = d]
    BY <1>3 DEF OpenDir
  <2>2. m.where = n.where /\ m.fds = [n.fds EXCEPT ![f] = d] /\ m.cwd = n.cwd
    BY <2>1 DEF State
  <2>3. \A g \in Fds : m.fds[g] = n.fds[g] \/ m.fds[g] = d
    BY <2>2, StateFields
  <2> QED
    BY <1>1, <2>2, <2>3 DEF Outside, Held
<1>4. ASSUME NEW old \in Seq(Plain) \cup {Fail}, place \in Seq(Plain) \cup {Fail},
             NEW m \in MoveDir(n, old, place)
      PROVE  Outside(m)
  <2>1. /\ old # Fail /\ place # Fail /\ place # <<>>
        /\ m = [n EXCEPT !.where = [d \in Dirs |-> IF n.live[d] \/ n.where[d] # old
                                                   THEN Carry(n.where[d], old, place)
                                                   ELSE n.where[d]]]
    BY <1>4 DEF MoveDir, Vacant
  <2>2. m.fds = n.fds /\ m.cwd = n.cwd
    BY <2>1 DEF State
  <2>3. \A d \in Dirs : m.where[d] \in {Carry(n.where[d], old, place), n.where[d]}
    BY <2>1 DEF State
  <2>4. old \in Seq(Plain) /\ place \in Seq(Plain) /\ ~ Under(place, From)
    BY <1>4, <2>1
  <2>5. ASSUME NEW d \in Dirs, Held(m, d) PROVE ~ Under(m.where[d], From)
    <3>1. n.where[d] \in Seq(Plain) /\ ~ Under(n.where[d], From)
      BY <2>2, <2>5, StateFields DEF Outside, Held
    <3>2. CASE ~ Under(n.where[d], old)
      BY <2>3, <3>1, <3>2 DEF Carry
    <3>3. CASE m.where[d] = n.where[d]
      BY <3>1, <3>3
    <3>4. CASE Under(n.where[d], old) /\ m.where[d] # n.where[d]
      <4>1. PICK rest \in Seq(Plain) :
              n.where[d] = old \o rest /\ \A other : Carry(n.where[d], old, other) = other \o rest
        BY <2>4, <3>1, <3>4, UnderIsConcat
      <4>2. m.where[d] = place \o rest
        BY <2>3, <3>4, <4>1
      <4>3. place # <<>> /\ place \in Seq(Plain) /\ From \in Seq(Plain)
        BY <2>1, <2>4, PrefixFacts
      <4>4. ~ Under(place \o rest, From)
        BY <2>4, <4>3, FirstName
      <4> QED
        BY <4>2, <4>4
    <3> QED
      BY <3>2, <3>3, <3>4
  <2> QED
    BY <2>5 DEF Outside
<1>5. ASSUME NEW m \in MakeDir(n, place) PROVE Outside(m)
  <2>1. PICK new \in Dirs :
          ~ Held(n, new) /\ m = [n EXCEPT !.where[new] = place, !.live[new] = TRUE]
    BY <1>5 DEF MakeDir, Unused, Held
  <2>2. m.fds = n.fds /\ m.cwd = n.cwd /\ \A d \in Dirs : d # new => m.where[d] = n.where[d]
    BY <2>1 DEF State
  <2> QED
    BY <2>1, <2>2 DEF Outside, Held
<1>6. ASSUME NEW m \in RemoveDir(n, place) PROVE Outside(m)
  <2>1. PICK d \in Dirs : m = [n EXCEPT !.live[d] = FALSE]
    BY <1>6 DEF RemoveDir, DirsAt
  <2>2. m.fds = n.fds /\ m.cwd = n.cwd /\ m.where = n.where
    BY <2>1 DEF State
  <2> QED
    BY <2>2 DEF Outside, Held
<1> QED
  BY <1>2, <1>3, <1>4, <1>5, <1>6

\* Calls that act on what they mean, and mean places outside FROM.
CallStaysOut(t) ==
  \A i \in 1..Len(th[t].call.routes) :
    Ready(t) /\ IsPath(th[t].call.routes[i]) => Aim(t, i) = Fail \/ ~ Under(Aim(t, i), From)

LEMMA CallStaysOutside ==
  ASSUME PlainPrefixes, Len(From) = 1, Typed, Outside(fs), NEW t \in Threads, RealCall(t),
         CallStaysOut(t)
  PROVE  Outside(fs')
<1>1. fs \in State
  BY DEF Typed
<1>2. ASSUME Ready(t), Sound(th[t].call), NEW i \in 1..Len(th[t].call.routes),
             IsPath(th[t].call.routes[i])
      PROVE  /\ Aim(t, i) \in Seq(Plain) \cup {Fail}
             /\ Aim(t, i) = Fail \/ ~ Under(Aim(t, i), From)
  <2>1. i \in DOMAIN th[t].real /\ th[t].real[i] \in Located
    <3>1. TypedCall(th[t]) /\ th[t].call # NoHandler
      BY <1>2 DEF Typed, Ready, Busy
    <3>2. DOMAIN th[t].args = 1..Len(th[t].call.routes)
      BY <3>1 DEF TypedCall
    <3>3. i \in DOMAIN th[t].real
      BY <1>2, <3>2 DEF Ready
    <3> QED
      BY <3>1, <3>3 DEF TypedCall
  <2>2. Aim(t, i) \in Seq(Plain) \cup {Fail}
    BY <2>1, TargetTyped DEF Aim, Typed
  <2> QED
    BY <1>2, <2>2 DEF CallStaysOut
<1>3. CASE Refuse(t) \/ RealNone(t) \/ RealGetcwd(t)
  BY <1>3 DEF Refuse, RealNone, RealGetcwd, Return
<1>4. CASE RealClose(t)
  <2> DEFINE f == th[t].real[1].dir
  <2>1. fs' = [fs EXCEPT !.fds[f] = CLOSED]
    BY <1>4 DEF RealClose, Return
  <2>2. fs'.where = fs.where /\ fs'.cwd = fs.cwd /\ fs'.fds = [fs.fds EXCEPT ![f] = CLOSED]
    BY <1>1, <2>1 DEF State
  <2>3. \A g \in Fds : fs'.fds[g] = fs.fds[g] \/ fs'.fds[g] = CLOSED
    BY <2>2, StateFields DEF Typed
  <2> QED
    BY <2>2, <2>3, FileTreeAssumption DEF Outside, Held
<1>5. ASSUME Ready(t), th[t].call.effect \in {"chdir", "open", "mkdir", "rmdir", "rename"}
      PROVE  /\ Sound(th[t].call) /\ 1 \in 1..Len(th[t].call.routes)
             /\ IsPath(th[t].call.routes[1])
             /\ th[t].call.effect = "rename" =>
                  2 \in 1..Len(th[t].call.routes) /\ IsPath(th[t].call.routes[2])
  BY <1>5, MovingCall
<1>6. CASE RealChdir(t) \/ RealOpen(t)
  <2>1. Aim(t, 1) = Fail \/ ~ Under(Aim(t, 1), From)
    BY <1>2, <1>5, <1>6 DEF RealChdir, RealOpen, Real
  <2>2. fs' \in ChangeDir(fs, Aim(t, 1)) \cup OpenDir(fs, Aim(t, 1))
    BY <1>6 DEF RealChdir, RealOpen, Return
  <2> QED
    BY <1>1, <2>1, <2>2, KernelOutside
<1>7. CASE RealMkdir(t) \/ RealRmdir(t)
  <2>1. Aim(t, 1) = Fail \/ ~ Under(Aim(t, 1), From)
    BY <1>2, <1>5, <1>7 DEF RealMkdir, RealRmdir, Real
  <2>2. fs' \in MakeDir(fs, Aim(t, 1)) \cup RemoveDir(fs, Aim(t, 1))
    BY <1>7 DEF RealMkdir, RealRmdir, Return
  <2> QED
    BY <1>1, <2>1, <2>2, KernelOutside
<1>8. CASE RealRename(t)
  <2>1. /\ Aim(t, 1) \in Seq(Plain) \cup {Fail} /\ Aim(t, 2) \in Seq(Plain) \cup {Fail}
        /\ Aim(t, 2) = Fail \/ ~ Under(Aim(t, 2), From)
    BY <1>2, <1>5, <1>8 DEF RealRename, Real
  <2>2. fs' \in MoveDir(fs, Aim(t, 1), Aim(t, 2))
    BY <1>8 DEF RealRename, Return
  <2> HIDE DEF Aim
  <2> QED
    BY <1>1, <2>1, <2>2, KernelOutside
<1> QED
  BY <1>3, <1>4, <1>6, <1>7, <1>8 DEF RealCall

\* Whatever a thread does that is no call to the real function.
LEMMA FchdirStaysOutside ==
  ASSUME Typed, Outside(fs), NEW t \in Threads, NEW f \in Fds, Fchdir(t, f)
  PROVE  Outside(fs')
<1>1. fs.fds[f] \in Dirs /\ fs' = [fs EXCEPT !.cwd = fs.fds[f]]
  BY DEF Fchdir
<1>2. fs'.where = fs.where /\ fs'.fds = fs.fds /\ fs'.cwd = fs.fds[f]
  BY <1>1 DEF Typed, State
<1> QED
  BY <1>2 DEF Outside, Held

\* A program of one thread that starts outside the tree at FROM never gets into it, by no
\* sequence of calls, where FROM is one name.
THEOREM FromStaysUnentered ==
  ASSUME NEW t, Threads = {t}, Usual, PlainSiblings, Len(From) = 1,
         \A op \in Ops : Handlers[op].effect # "rmdir",
         \A d \in Cwds : ~ Under(Layout[d], From),
         \A table \in Tables, f \in Fds :
           table[f] \in Dirs => ~ Under(Layout[table[f]], From)
  PROVE  Spec /\ []Fits => []FromNeverEntered
<1>1. Init => Outside(fs)
  BY DEF Init, Outside, Held
<1>2. Typed /\ AllLive(fs) /\ Aimed /\ Outside(fs) /\ [Next]_vars => Outside(fs)'
  <2> SUFFICES ASSUME Typed, AllLive(fs), Aimed, Outside(fs), [Next]_vars PROVE Outside(fs')
    OBVIOUS
  <2>1. ASSUME NEW op \in Ops, Call(t, op) PROVE fs' = fs
    BY <2>1 DEF Call
  <2>2. ASSUME NEW i \in 1..2, RewriteArgument(t, i) PROVE fs' = fs
    BY <2>2 DEF RewriteArgument
  <2>3. ASSUME RealCall(t) PROVE Outside(fs')
    <3>1. ASSUME NEW i \in 1..Len(th[t].call.routes), Ready(t), IsPath(th[t].call.routes[i])
          PROVE  Aim(t, i) = Fail \/ ~ Under(Aim(t, i), From)
      <4>1. TypedCall(th[t]) /\ th[t].call # NoHandler
        BY <3>1 DEF Typed, Ready, Busy
      <4>2. /\ i \in DOMAIN th[t].args /\ i \in DOMAIN th[t].real /\ i \in PathsGiven(t)
            /\ th[t].args[i] \in Located
        BY <3>1, <4>1, ArgumentsLocated DEF TypedCall, Ready, PathsGiven, IsPath
      <4>3. Aim(t, i) = Meant(fs, th[t].args[i])
        BY <4>2 DEF Aimed
      <4> QED
        BY <4>2, <4>3, MeantOutside
    <3>2. CallStaysOut(t)
      BY <3>1 DEF CallStaysOut
    <3> QED
      BY <2>3, <3>2, CallStaysOutside DEF PlainSiblings
  <2>4. ASSUME NEW f \in Fds, Fchdir(t, f) PROVE Outside(fs')
    BY <2>4, FchdirStaysOutside
  <2>5. CASE UNCHANGED vars
    BY <2>5 DEF vars
  <2> QED
    BY <2>1, <2>2, <2>3, <2>4, <2>5 DEF Next, Usual
<1>3. Typed /\ AllLive(fs) /\ [Next]_vars => AllLive(fs)'
  BY LiveKept
<1>4. Typed /\ AllLive(fs) /\ Fits /\ Aimed /\ [Next]_vars => Aimed'
  BY AimedKept DEF AllLive, Clear
<1>5. Outside(fs) => FromNeverEntered
  BY DEF Outside, Held, FromNeverEntered
<1> QED
  BY <1>1, <1>2, <1>3, <1>4, <1>5, InitLive, InitAimed, AlwaysTyped, PTL DEF Spec

\* A path that is carried gets out of FROM, where FROM is one name and TO not below it.
LEMMA CarriedOutside ==
  ASSUME PlainPrefixes, Len(From) = 1, ~ Under(To, From), NEW place \in Seq(Plain)
  PROVE  ~ Under(Carry(place, From, To), From)
<1>1. CASE Under(place, From)
  <2>1. PICK rest \in Seq(Plain) :
          place = From \o rest /\ \A other : Carry(place, From, other) = other \o rest
    BY <1>1, PrefixFacts, UnderIsConcat
  <2>2. From \in Seq(Plain) /\ To \in Seq(Plain) /\ To # <<>>
    BY PrefixFacts
  <2>3. Carry(place, From, To) = To \o rest
    BY <2>1
  <2>4. ~ Under(To \o rest, From)
    BY <2>2, FirstName
  <2> QED
    BY <2>3, <2>4
<1>2. CASE ~ Under(place, From)
  BY <1>2 DEF Carry
<1> QED
  BY <1>1, <1>2

LEMMA FixedOutside ==
  ASSUME PlainPrefixes, Len(From) = 1, ~ Under(To, From), NEW n, NEW arg \in Located, Fixed(arg)
  PROVE  Meant(n, arg) = Fail \/ ~ Under(Meant(n, arg), From)
<1>1. CASE ~ Leads(n, arg)
  BY <1>1, MeantIs
<1>2. CASE Leads(n, arg)
  <2>1. Absolute(arg.text) /\ arg.text \in Paths
    BY <1>2 DEF Leads, Located, Fixed
  <2>2. Walk(<<>>, arg.text) \in Seq(Plain)
    BY <2>1, EmptySeq, WalkType
  <2> QED
    BY <1>2, <2>1, <2>2, MeantIs, CarriedOutside DEF Existing
<1> QED
  BY <1>1, <1>2

LEMMA FixedStaysOut ==
  ASSUME AbsoluteProgram, PlainPrefixes, Len(From) = 1, ~ Under(To, From), Typed, AllPointed,
         NEW t \in Threads
  PROVE  CallStaysOut(t)
<1> SUFFICES ASSUME NEW i \in 1..Len(th[t].call.routes), Ready(t), IsPath(th[t].call.routes[i])
             PROVE  Aim(t, i) = Fail \/ ~ Under(Aim(t, i), From)
  BY DEF CallStaysOut
<1>1. TypedCall(th[t]) /\ th[t].call # NoHandler
  BY DEF Typed, Ready, Busy
<1>2. i \in DOMAIN th[t].real /\ i \in PathsGiven(t) /\ GivenPath(th[t], i)
  BY <1>1 DEF TypedCall, Ready, PathsGiven, GivenPath, IsPath
<1>3. Aim(t, i) = Meant(fs, th[t].args[i])
  BY <1>2 DEF AllPointed, Pointed, Aim
<1>4. Fixed(th[t].args[i]) /\ th[t].args[i] \in Located
  BY <1>2, FixedGiven
<1> QED
  BY <1>3, <1>4, FixedOutside

\* The same for a program of any number of threads that gives only absolute paths, also
\* where directories are removed and other processes rename, if they bring nothing to
\* FROM: it is never in the tree at FROM, where FROM is one name and TO not below it.
THEOREM AbsoluteStaysUnentered ==
  ASSUME AbsoluteProgram, PlainPrefixes, Len(From) = 1, ~ Under(To, From),
         \A place \in Movers : ~ Under(place, From),
         \A d \in Cwds : ~ Under(Layout[d], From),
         \A table \in Tables, f \in Fds :
           table[f] \in Dirs => ~ Under(Layout[table[f]], From)
  PROVE  Spec => []FromNeverEntered
<1>1. Init => Outside(fs)
  BY DEF Init, Outside, Held
<1>2. Typed /\ AllPointed /\ Outside(fs) /\ [Next]_vars => Outside(fs)'
  <2> SUFFICES ASSUME Typed, AllPointed, Outside(fs), [Next]_vars PROVE Outside(fs')
    OBVIOUS
  <2>1. ASSUME NEW t \in Threads, NEW op \in Ops, Call(t, op) PROVE fs' = fs
    BY <2>1 DEF Call
  <2>2. ASSUME NEW t \in Threads, NEW i \in 1..2, RewriteArgument(t, i) PROVE fs' = fs
    BY <2>2 DEF RewriteArgument
  <2>3. ASSUME NEW t \in Threads, RealCall(t) PROVE Outside(fs')
    BY <2>3, FixedStaysOut, CallStaysOutside
  <2>4. ASSUME NEW t \in Threads, NEW f \in Fds, Fchdir(t, f) PROVE Outside(fs')
    BY <2>4, FchdirStaysOutside
  <2>5. ASSUME NEW d \in Dirs, NEW place \in Movers, OtherRename(d, place)
        PROVE  Outside(fs')
    <3>1. fs \in State /\ fs.where[d] \in Seq(Plain) /\ place \in Seq(Plain)
      BY StateFields, InterposerAssumption DEF Typed, Plain
    <3>2. fs' \in MoveDir(fs, fs.where[d], place)
      BY <2>5 DEF OtherRename
    <3> QED
      BY <3>1, <3>2, KernelOutside
  <2>6. CASE UNCHANGED vars
    BY <2>6 DEF vars
  <2> QED
    BY <2>1, <2>2, <2>3, <2>4, <2>5, <2>6 DEF Next
<1>3. Typed /\ AllPointed /\ [Next]_vars => AllPointed'
  BY PointedKept
<1>4. Outside(fs) => FromNeverEntered
  BY DEF Outside, Held, FromNeverEntered
<1> QED
  BY <1>1, <1>2, <1>3, <1>4, InitPointed, AlwaysTyped, PTL DEF Spec
=============================================================================
