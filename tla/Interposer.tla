----------------------------- MODULE Interposer -----------------------------
(***************************************************************************)
(* The intercepted calls of rtld_linux.c at work: the threads of a process *)
(* rewrite the arguments of their calls one after the other, each with its *)
(* own look at the working directory or at a descriptor, and then call the *)
(* real function, while other threads and other processes change           *)
(* directories, descriptors and names.                                     *)
(*                                                                         *)
(* The start-up of the policy and of the symbols is the business of        *)
(* LazyInit: here both are settled.                                        *)
(***************************************************************************)
EXTENDS FileTree

CONSTANTS
  Threads,
  Config,          (* the strings REWRITE_FROM and REWRITE_TO, a pair         *)
  Missing,         (* functions whose real symbol dlsym did not find          *)
  Ops,             (* functions the program calls                             *)
  Texts,           (* paths it gives them                                     *)
  RelativeRoutes,  (* routes it gives relative paths to                       *)
  Buffers,         (* what it gives to getcwd: NULL, or <<>> for a buffer of  *)
                   (* at most PATH_MAX bytes (larger ones: PathCheck)         *)
  Layout,          (* directory -> its place at the start                     *)
  Cwds, Tables,    (* the working directories and descriptor tables at start  *)
  Movers           (* places to which other processes move directories        *)

ASSUME InterposerAssumption ==
  /\ Layout \in [Dirs -> Seq(Names \ {".", ".."})]
  /\ Cwds \subseteq Dirs /\ Tables \subseteq [Fds -> Dirs \cup {CLOSED, PIPE}]
  /\ Texts \subseteq Paths \cup {NULL} /\ \A text \in Texts \ {NULL} : Tight(text)
  /\ Buffers \subseteq {NULL, <<>>}
  /\ Config[1] \in Paths \cup {NULL} /\ Config[2] \in Paths \cup {NULL}
  /\ Movers \subseteq Seq(Names \ {".", ".."})

-----------------------------------------------------------------------------
(***************************************************************************)
(* The intercepted functions. The route of an argument is the helper that  *)
(* rewrites it; the effect is what the real function does to directories   *)
(* and descriptors, "none" for one that only concerns the contents of a    *)
(* file or an inode. Arguments stand in the order in which the handler     *)
(* rewrites them; C leaves it open for link and rename.                    *)
(***************************************************************************)
Handler(routes, effect) == [routes |-> routes, effect |-> effect, ordered |-> TRUE]
AnyOrder(routes, effect) == [routes |-> routes, effect |-> effect, ordered |-> FALSE]

Fd(effect)   == Handler(<<"fd">>, effect)
Path(effect) == Handler(<<"path">>, effect)
Cwd(effect)  == Handler(<<"cwd">>, effect)
At(effect)   == Handler(<<"at">>, effect)

StatHandlers ==
  [__fxstat |-> Fd("none"), __fxstatat |-> At("none"), newfstatat |-> At("none"),
   __lxstat |-> Path("none"), __xstat |-> Path("none")]

AccessHandlers ==
  [access |-> Cwd("none"), chdir |-> Cwd("chdir"), close |-> Fd("close"),
   creat |-> Path("none"), execve |-> Cwd("none"), euidaccess |-> Cwd("none"),
   fstat |-> Fd("none"), faccessat |-> At("none"), fchmodat |-> At("none")]

OpenHandlers ==
  [link |-> AnyOrder(<<"cwd", "cwd">>, "none"), linkat |-> Handler(<<"at", "at">>, "none"),
   lseek |-> Fd("none"), mkdir |-> Path("mkdir"), mkdirat |-> At("mkdir"),
   open |-> Path("open"), openat |-> At("open"), openat2 |-> At("open")]

ReadHandlers ==
  [getcwd |-> Handler(<<"buffer">>, "getcwd"), pread |-> Fd("none"),
   pwrite |-> Fd("none"), read |-> Fd("none"), readlink |-> Path("none"),
   readlinkat |-> At("none")]

RenameHandlers ==
  [rename |-> AnyOrder(<<"cwd", "cwd">>, "rename"),
   renameat |-> Handler(<<"at", "at">>, "rename"),
   renameat2 |-> Handler(<<"at", "at">>, "rename"),
   lstat |-> Path("none"), rmdir |-> Path("rmdir"), stat |-> Path("none"),
   statx |-> At("none"), statfs |-> Cwd("none")]

LinkHandlers ==
  [symlink |-> Handler(<<"payload", "cwd">>, "none"),
   symlinkat |-> Handler(<<"at", "payload">>, "none"),
   truncate |-> Path("none"), unlink |-> Path("none"), unlinkat |-> At("rmdir"),
   utimensat |-> At("none"), write |-> Fd("none")]

Groups == {StatHandlers, AccessHandlers, OpenHandlers, ReadHandlers, RenameHandlers, LinkHandlers}

Handlers ==
  [op \in UNION {DOMAIN f : f \in Groups} |-> (CHOOSE f \in Groups : op \in DOMAIN f)[op]]

ASSUME OpsAssumption == Ops \subseteq DOMAIN Handlers

Routes  == {"fd", "buffer", "path", "cwd", "at", "payload"}
Effects == {"none", "chdir", "open", "close", "mkdir", "rmdir", "rename", "getcwd"}

policy == init_rewrite_policy(Config[1], Config[2])
From   == Segments(policy.from)
To     == Segments(policy.to)

VARIABLES
  fs,  (* the file system, see FileTree                                       *)
  th   (* thread -> its call: the handler and whether its real function was   *)
       (* found, the arguments, those rewritten so far, the places each of    *)
       (* them could mean so far, and how the call before it ended            *)

vars == <<fs, th>>

NoHandler   == Handler(<<>>, "none")
Idle(ended) == [call |-> NoHandler, found |-> TRUE, args |-> <<>>, real |-> <<>>,
                meant |-> <<>>, ended |-> ended]

Busy(t)  == th[t].call # NoHandler
Ready(t) == Busy(t) /\ DOMAIN th[t].real = DOMAIN th[t].args

\* The promise: what the program means by its arguments, and calls that act on
\* that at once.
Promise == INSTANCE Illusion WITH Given <- [dir : Fds \cup {AT_FDCWD}, text : Texts]

Meant(n, arg) == Promise!Meant(n, arg)

-----------------------------------------------------------------------------
(* The rewriting helpers of the handlers, in a state n of the file system. *)

\* Mutant of rewrite_path_argument: no fallback to the path itself.
RewriteOrFail(arg) == [arg EXCEPT !.text = rewrite_absolute_path(policy, arg.text)]

rewrite_path_argument(arg) ==
  LET rewritten == rewrite_absolute_path(policy, arg.text)
  IN IF rewritten = Fail THEN arg ELSE [arg EXCEPT !.text = rewritten]

\* Mutants of rewrite_at_argument: the descriptor is not looked at, and the
\* result is left relative to it.
RewriteFromCwd(n, arg) ==
  LET rewritten == rewrite_relative_path_from_dirfd(
                     policy, TRUE, BaseText(n, AT_FDCWD), arg.text)
  IN IF Absolute(arg.text) THEN rewrite_path_argument(arg)
     ELSE IF rewritten = Fail THEN arg
     ELSE [dir |-> AT_FDCWD, text |-> rewritten]

RewriteInPlace(n, arg) ==
  LET rewritten == rewrite_relative_path_from_dirfd(
                     policy, arg.dir = AT_FDCWD, BaseText(n, arg.dir), arg.text)
  IN IF Absolute(arg.text) THEN rewrite_path_argument(arg)
     ELSE IF rewritten = Fail THEN arg
     ELSE [arg EXCEPT !.text = Tail(rewritten)]

rewrite_at_argument(n, arg) ==
  LET rewritten == rewrite_relative_path_from_dirfd(
                     policy, arg.dir = AT_FDCWD, BaseText(n, arg.dir), arg.text)
  IN IF Absolute(arg.text) THEN rewrite_path_argument(arg)
     ELSE IF rewritten = Fail THEN arg
     ELSE [dir |-> AT_FDCWD, text |-> rewritten]

\* Mutant of rewrite_cwd_relative_argument: absolute paths only.
RewriteAbsoluteOnly(n, arg) == rewrite_path_argument(arg)

rewrite_cwd_relative_argument(n, arg) ==
  rewrite_at_argument(n, [arg EXCEPT !.dir = AT_FDCWD])

Rewritten(n, route, arg) ==
  CASE route = "at"                  -> rewrite_at_argument(n, arg)
    [] route = "cwd"                 -> rewrite_cwd_relative_argument(n, arg)
    [] route \in {"path", "payload"} -> rewrite_path_argument(arg)
    [] OTHER                         -> arg

\* The arguments a program may give; a symbolic link may hold any text.
GivenTexts(route) ==
  {text \in Texts : \/ route \in RelativeRoutes \cup {"payload"}
                    \/ Absolute(text) \/ text = NULL}

Arguments(route) ==
  CASE route = "fd"     -> [dir : Fds, text : {NULL}]
    [] route = "buffer" -> [dir : {AT_FDCWD}, text : Buffers]
    [] route = "at"     -> [dir : Fds \cup {AT_FDCWD}, text : GivenTexts(route)]
    [] OTHER            -> [dir : {AT_FDCWD}, text : GivenTexts(route)]

-----------------------------------------------------------------------------
Init ==
  /\ \E cwd \in Cwds, fds \in Tables :
       fs = [where |-> Layout, live |-> [d \in Dirs |-> TRUE], cwd |-> cwd, fds |-> fds]
  /\ th = [t \in Threads |-> Idle("done")]

Running == \A t \in Threads : th[t].ended # "crashed"

\* The program calls an intercepted function. Descriptors and buffers are
\* passed on as they are.
Call(t, op) ==
  /\ Running /\ ~ Busy(t)
  /\ LET call == Handlers[op]
         n    == Len(call.routes)
     IN \E first \in Arguments(call.routes[1]), last \in Arguments(call.routes[n]) :
          LET args == IF n = 1 THEN <<first>> ELSE <<first, last>>
          IN /\ n = 1 => last = first
             /\ th' = [th EXCEPT ![t] =
                         [call |-> call, found |-> op \notin Missing, args |-> args,
                          real |-> IF call.routes[1] \in {"fd", "buffer"} THEN args ELSE <<>>,
                          meant |-> [i \in 1..n |-> {Meant(fs, args[i])}],
                          ended |-> th[t].ended]]
  /\ UNCHANGED fs

\* One argument is rewritten, with one look at the working directory or at
\* its descriptor.
RewriteArgument(t, i) ==
  /\ Busy(t) /\ i \in DOMAIN th[t].args \ DOMAIN th[t].real
  /\ th[t].call.ordered => \A j \in 1..(i - 1) : j \in DOMAIN th[t].real
  /\ th' = [th EXCEPT ![t].real =
              [j \in DOMAIN @ \cup {i} |->
                 IF j = i THEN Rewritten(fs, th[t].call.routes[i], th[t].args[i]) ELSE @[j]]]
  /\ UNCHANGED fs

\* REQUIRE_SYMBOL, after the arguments: without the real function the call
\* fails with ENOSYS.
Refuse(t) ==
  /\ Ready(t) /\ ~ th[t].found
  /\ th' = [th EXCEPT ![t] = Idle("ENOSYS")]
  /\ UNCHANGED fs

\* What the arguments of a running call may mean, after a change to n.
Noted(call, n) ==
  [call EXCEPT !.meant = [i \in DOMAIN call.args |->
                            call.meant[i] \cup {Meant(n, call.args[i])}]]

NotedAll(n) == [u \in Threads |-> Noted(th[u], n)]

\* The real function of t's call has the effect given, and leaves the state n.
Real(t, effect) == Ready(t) /\ th[t].found /\ th[t].call.effect = effect
Aim(t, i)       == Target(fs, th[t].real[i])
Return(t, n)    == fs' = n /\ th' = [NotedAll(n) EXCEPT ![t] = Idle("done")]

\* The real function fails, or leaves directories and descriptors alone.
RealNone(t) ==
  /\ Ready(t) /\ th[t].found /\ th[t].call.effect # "getcwd"
  /\ Return(t, fs)

RealChdir(t) == Real(t, "chdir") /\ \E n \in ChangeDir(fs, Aim(t, 1)) : Return(t, n)
RealOpen(t)  == Real(t, "open") /\ \E n \in OpenDir(fs, Aim(t, 1)) : Return(t, n)
RealMkdir(t) == Real(t, "mkdir") /\ \E n \in MakeDir(fs, Aim(t, 1)) : Return(t, n)
RealRmdir(t) == Real(t, "rmdir") /\ \E n \in RemoveDir(fs, Aim(t, 1)) : Return(t, n)

RealRename(t) ==
  Real(t, "rename") /\ \E n \in MoveDir(fs, Aim(t, 1), Aim(t, 2)) : Return(t, n)

RealClose(t) ==
  Real(t, "close") /\ Return(t, [fs EXCEPT !.fds[th[t].real[1].dir] = CLOSED])

\* getcwd maps the answer in the caller's buffer back. With a null buffer the
\* answer is in memory of the real function's own, and the handler reads the
\* null pointer.
RealGetcwd(t) ==
  LET answered == BaseText(fs, AT_FDCWD) # Fail
      reads    == answered /\ policy.enabled
  IN /\ Real(t, "getcwd")
     /\ IF reads /\ th[t].real[1].text = NULL
        THEN th' = [u \in Threads |-> Idle("crashed")] /\ UNCHANGED fs
        ELSE Return(t, fs)

\* Steps the library takes no part in: fchdir is not intercepted, and another
\* process may move directories.
Fchdir(t, f) ==
  /\ Running /\ ~ Busy(t)
  /\ fs.fds[f] \in Dirs
  /\ fs' = [fs EXCEPT !.cwd = fs.fds[f]]
  /\ th' = NotedAll(fs')

OtherRename(d, place) ==
  /\ Running /\ fs.live[d]
  /\ fs' \in MoveDir(fs, fs.where[d], place)
  /\ th' = NotedAll(fs')

RealCall(t) ==
  \/ Refuse(t) \/ RealNone(t) \/ RealChdir(t) \/ RealOpen(t) \/ RealMkdir(t)
  \/ RealRmdir(t) \/ RealRename(t) \/ RealClose(t) \/ RealGetcwd(t)

Next ==
  \/ \E t \in Threads, op \in Ops : Call(t, op)
  \/ \E t \in Threads, i \in 1..2 : RewriteArgument(t, i)
  \/ \E t \in Threads : RealCall(t)
  \/ \E t \in Threads, f \in Fds : Fchdir(t, f)
  \/ \E d \in Dirs, place \in Movers : OtherRename(d, place)

Spec == Init /\ [][Next]_vars

-----------------------------------------------------------------------------
TypeOK ==
  /\ fs.where \in [Dirs -> Seq(Names \ {".", ".."})]
  /\ fs.live \in [Dirs -> BOOLEAN]
  /\ fs.cwd \in Dirs /\ fs.fds \in [Fds -> Dirs \cup {CLOSED, PIPE}]
  /\ \A t \in Threads :
       LET call == th[t]
       IN /\ DOMAIN call.real \subseteq DOMAIN call.args
          /\ DOMAIN call.meant = DOMAIN call.args
          /\ \A i \in DOMAIN call.real :
               call.real[i].dir \in Fds \cup {AT_FDCWD} /\ call.real[i].text \in Paths \cup {NULL}
          /\ call.ended \in {"done", "ENOSYS", "crashed"}

\* The arguments a call is about to give to the real function, apart from
\* descriptors, buffers and what a relative symbolic link holds.
PathsGiven(t) ==
  {i \in DOMAIN th[t].args :
     \/ th[t].call.routes[i] \in {"path", "cwd", "at"}
     \/ th[t].call.routes[i] = "payload" /\ Absolute(th[t].args[i].text)}

\* The real function acts on the places the program meant at some moment of the
\* call: where the program sees FROM it gets to TO, and everything else stays
\* what it is.
ActsAsMeant ==
  \A t \in Threads :
    Ready(t) => \A i \in PathsGiven(t) : Aim(t, i) \in th[t].meant[i]

\* Whenever a thread in a call may look at the kernel's state, what it gets for its
\* argument is good for that moment: an absolute path, so that the state does not
\* matter any more, to the place the program means just then.
EachLookIsRight ==
  \A t \in Threads :
    \A i \in PathsGiven(t) \ DOMAIN th[t].real :
      \A look \in {Rewritten(fs, th[t].call.routes[i], th[t].args[i])} :
        look # th[t].args[i] =>
          Absolute(look.text) /\ Target(fs, look) = Meant(fs, th[t].args[i])

\* A rewritten argument is settled: whatever the other threads and processes do
\* to the working directory, to the descriptor or to the names between the
\* rewriting and the real call, it leads to a place the program meant at one
\* moment of the call.
RewrittenIsSettled ==
  \A t \in Threads :
    \A i \in DOMAIN th[t].real \cap PathsGiven(t) :
      th[t].real[i] # th[t].args[i] => Aim(t, i) \in th[t].meant[i]

\* The working directory, the descriptors and the names of the directories change
\* only as calls that act at once on what they mean could change them, each given
\* arguments that the program may give: the rewriting, argument by argument, implements
\* the promise on the file system. Which call made which change is not part of it.
KeepsPromise == Promise!Spec

\* A program that starts outside the tree at FROM never gets into it: neither
\* its working directory nor a descriptor is ever a directory there.
FromNeverEntered ==
  \A d \in Dirs :
    fs.live[d] /\ (fs.cwd = d \/ \E f \in Fds : fs.fds[f] = d)
      => ~ Under(fs.where[d], From)

\* No call brings the program down, getcwd with a null buffer among them.
NoCrash == \A t \in Threads : th[t].ended # "crashed"
=============================================================================
