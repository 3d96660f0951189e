# A verification development for ld_preload

`ld_preload` is a shared object that is preloaded into a Linux process. It stands
in front of 43 libc functions and makes one directory tree, `TO`, appear where
another one, `FROM`, is named: `open("/from/x")` opens `/to/x`, `getcwd()` below
`/to` answers a path below `/from`. Everything happens inside the threads of a
program that knows nothing of it, and that may start threads, fork, exec, take
signals, change directories and rename them.

## Inventory

| part | source | state | operations | modelled by |
| --- | --- | --- | --- | --- |
| lazy initialisation | `rtld_linux.c` 57-160, 299-337 | two `pthread_once` controls, the table of `real_` pointers, `rewrite_policy` | `resolve_symbols`, `init_rewrite_policy`, `ensure_symbols`, `get_rewrite_policy` | `LazyInit`, `Snapshot` |
| lexical paths | 162-297, 339-409 | none | clean, join, match and substitute a prefix, read the policy | `PathText`, `CleanPath` |
| intercepted functions | 411-1072 | none of their own; they look at the working directory and at descriptors | rewrite each argument, call the real function, map `getcwd`'s answer back | `Interposer`, `Illusion` |
| launcher | `terminal*.go`, `main.go` | terminal mode, the child shell | `shell`, `makeRaw`, `restoreTerminal` | no: see below |
| workload audit | `smoke/audit_workloads.sh` | server processes, mount, status file | start and stop servers, trace workloads, sum up | `Audit` |
| smoke suite | `smoke/run.sh`, `fixture.c` | | single-threaded assertions | no: they are tests |
| declarations, build | `rtld.h`, `exports.go`, `makefile`, CI | | | no: no behaviour |

How the parts meet: a handler first rewrites its path arguments. For that it asks
for the policy (`get_rewrite_policy`, a `pthread_once`), for a relative path also
for the symbols, reads the directory the path starts from with the *real* `getcwd`
or `readlink` of `/proc/self/fd/<dirfd>`, and then matches a prefix on the cleaned
text. Its `orig_` function then asks for the symbols again and calls the real
function, or fails with `ENOSYS`. All of it is lock-free but for the two once
controls, and no state but those and the kernel's is shared. The workload audit is
a program of its own, a shell script that runs other programs under the library.

What is hard:

* *start-up*: the first calls of several threads race; a signal handler may
  interrupt an initialiser; a fork may copy a half-initialised process.
* *two looks at one thing*: a relative path is resolved by the library and, if it
  was left alone, again by the kernel. In between other threads move the working
  directory and descriptors, and other processes move the directories.
* *sequences*: every call alone is rewritten as documented, but do many of them,
  with renames and removed directories, keep the program out of the tree at FROM?
* *texts*: `..`, repeated slashes, names that begin alike, and buffers of
  `PATH_MAX` with room for a NUL.
* *servers*: the audit starts servers that may never answer, or turn into a daemon with
  another pid, kills them without waiting, mounts what they export, and may be
  interrupted anywhere.

`PROJECT.json` lists each hazard at its line with the properties that cover it.

## Modules

`LazyInit` - the start-up protocol. A *context* is the main code of a thread or a
signal handler on top of it. A call is the list of *stages* at which it touches
shared state (`FdCall`, `AbsoluteCall`, `RelativeCall`, `GetcwdCall`), the
initialisers are taken apart store by store (`ResetPolicy`, `ReadEnvironment`,
`StoreFrom`, `StoreTo`, `StoreLens`, `Enable`; one `ResolveSymbol` per `dlsym`).
A policy field holds the environment its text came from, so a torn policy is one
whose fields disagree. `pthread_once` is external: a control is new, busy or done,
and a busy one remembers the fork generation it belongs to, as glibc does, so that
a child may take over a control that its parent's thread held. A context that
finds a control busy has no step, which is how waiting is modelled. The members of
`Procs` are process images: `Fork` populates a new one, `Exec` starts one over.
Processes do not end and thread identifiers are not reused, except by `Exec`.

`Snapshot` - what `get_rewrite_policy` promises, without controls, stores or
symbols: each process image has one configuration, taken in one step from its
environment, told to every call, inherited by a child once a call was told it, and
forgotten by `execve` only. `OnceSnapshot` is the refinement mapping: the
configuration of an image exists from the two `getenv` calls of its initialiser on,
first in the thread that read it, then in `rewrite_policy`; it is settled when the
control is done.

The handlers of signals in this model make intercepted calls and nothing else: they do
not fork, start threads or set variables, none of which is safe in them.

`PathText` - the text functions as operators. A text is a sequence of slashes and
names; `Width` gives a name its characters, for the buffers are counted in
characters, and `Begins` says which names begin with the letters of which. The
cleaner is a fold over the segments whose state (`Cleanings`) is the output and the
stack `seg_starts`, so that `..` cuts where the code cuts. `NULL` and `Fail` are taken
to be different from every text, as a pointer and a return code are. A text is `Tight`
when no two names follow each other, as every string is that was cut at its slashes.

`CleanPath` - `clean_path_into` once more, as a machine on bytes: the pointer that
walks along `src`, the segments it finds, and every store into `dst` and
`seg_starts`, at the offsets of the code. `dst` is the memory from the buffer on, so
that a store behind the buffer can be seen. `PushSegment` stands for the slash, the
push on the stack and the `memcpy`; `RefuseSegment` for the three ways to return -1
in that part, with what was stored before. `Limits` holds `PATH_MAX` for both models.

`Places` - what the kernel makes of a path without symbolic links: a walk along
names, written as a recursive function along the text. It is the reference the texts
are compared with.

`PathCheck` - enumerates texts token by token and states what the operators of
`PathText` should do; it also spells each of them and runs `CleanPath` on the bytes,
to see that both give the same (`CleanerAgrees`). `Letters` spells the names; a name
has as many letters as `Width` says, and is the beginning of the names that `Begins` says.

`FileTree` - the kernel's side of the calls (external): directories with a place,
live or removed, the working directory, the descriptors, the name under which each
directory is seen (`Shown`), and the sets of states that `chdir`, `open`, `mkdir`, `rmdir` and `rename` can lead to.

`Illusion` - the abstract specification: every call acts at once on the place the
program means, that is, with FROM standing for TO and relative paths leading from
what `getcwd` tells. It speaks of the file system and the descriptors; which call with
which argument made a change is not observable in it.

`Interposer` - the detailed specification. A thread calls a function (`Call`), its
arguments are rewritten one by one (`RewriteArgument`, one look at the kernel's
state each), and one step calls the real function (`RealChdir`, `RealRename`, ...;
`RealNone` for a failure and for everything that leaves directories and
descriptors alone). `Handlers` gives each of the 43 functions the *routes* of its
arguments, in the order of the code, and its effect. `th` keeps, for the
properties only, the set of places each argument could mean at some moment of the
call. `Refuse` is `REQUIRE_SYMBOL`. `Fchdir`, which is not intercepted, and
`OtherRename`, another process, are steps the library takes no part in.

`Audit` - the script `smoke/audit_workloads.sh`: `pc` is the place in the script,
`known` is `cleanup_pids`, `pids` are `ganesha_pid` and `rpcbind_pid`, `mounts` is
what lies on the mount point, one over the other. `RunContract` to `UseServer` are
the main sequence, where `set -e` is on and a server's pid becomes known only when
its start has succeeded; `StopMount` to `RecordStatus` are `run_ganesha_workflow`,
where it is off; `Cleanup` and `Trap` are the trap. Servers are external: `Boot`,
`Stall` and `Die` are theirs, and a killed one keeps its port until it dies. An rpcbind
that has its port is a daemon with a pid of its own: `kill` with the pid the script
holds does not reach it (`HasPid`). A poll of a server that serves may fail, and `umount`
may fail for any reason. `Hanging` names the commands that wait without a limit: the
`curl` of `start_moto` on a server that accepts and never answers, and commands on a hard
mount without its server. `tried` and `refused` keep, for the properties only, what came
of each FSAL and whether the last `stop_ganesha_mount` left a mount.

`LazyInitProofs`, `SnapshotProofs`, `CleanPathProofs`, `PathTextProofs`,
`PathCheckProofs`, `InterposerProofs`, `AuditProofs` - the theorems of the module in
the name. `FoldProofs` - what the proofs about texts need to know of `FoldLeft`, and
the induction they use. `MCLazyInit`, `MCPathCheck`, `MCInterposer` - the
instances for TLC; `Audit` needs none.

Some modules hold operators called mutants: forms of the definition that follows
with a plausible mistake in it. They are used nowhere; putting one in the place of
its definition must break the property `PROJECT.json` names, which shows that the
property depends on that line of the code.

## Runs

| cfg | what it checks | instance |
| --- | --- | --- |
| `LazyInit_safety` | `TypeOK`, `OneInitialiser`, `PolicyNotTorn`, `NoOrphanWait`, `SymbolsComplete`, `SnapshotStable`, `TakesSnapshot` | 3 threads, 2 process images, 2 environments of which one is valid, 1 symbol |
| `LazyInit_live` | `CallsReturn` under `FairSpec` | 3 threads, 1 environment, no handlers |
| `PathCheck_texts` | `CleanIsLexical`, `RewriteIsMapping`, `CwdRoundTrip`; `CleanerAgrees`, `TypeOK`, `NoOverrun`, `SegStartsFit`, `CleanedIsString`, `TakesWhatFits` | every text of at most 9 tokens (8 where it is cleaned on bytes), buffers of 0..12 characters (0..16 for `getcwd`), six policies, `PATH_MAX` = 12 |
| `Interposer_calls` | `TypeOK`, `ActsAsMeant`, `FromNeverEntered`, `KeepsPromise` | 1 thread, every function but those that remove directories, 4 texts |
| `Interposer_removed` | `ActsAsMeant` | 1 thread that removes and makes directories it holds; nothing is at FROM at the start |
| `Interposer_together` | `EachLookIsRight`, `RewrittenIsSettled` | 2 threads and another process |
| `Audit` | `TypeOK`, `OnlyRpcbindLeft`, `StatusTellsOutcome`, `UnmountsFirst`, `Ends` | 2 polls for each start, 2 FSALs, 2 signals |

Runs that end in a violation, each a disagreement of the code with its
documentation (`PROJECT.json`, "findings"):

| cfg | property | what happens |
| --- | --- | --- |
| `PathCheck_getcwd` | `CwdFallsThrough` | `getcwd` with a buffer larger than `PATH_MAX` makes a name longer than its own array of `PATH_MAX` bytes |
| `Interposer_race` | `ActsAsMeant` | a relative path left alone is resolved anew after another thread's `chdir` |
| `Interposer_nullbuffer` | `NoCrash` | `getcwd(NULL, n)` reads the null pointer under a policy |
| `LazyInit_selfwait` | `NoSelfWait` | a signal handler waits for the initialiser it interrupted |
| `Audit_skip` | `PassMeansVerified` | a mount that is not permitted, which the script calls SKIP, is written down as PASS; the usual outcome in a container without privileges |

### Bounds, and why they are enough

`LazyInit`: a race on a once control needs two threads, a third is there to be
forked while two others race; one fork gives a child that inherits a busy control,
and its process slot can be populated again after an `Exec` of its threads. Calls
with a relative path are the ones that use the policy, the symbols, and a `real_`
pointer before `orig_` has asked for it; the other kinds do a part of that.
`LazyInit_live` needs the third thread too, since only a child forked while another
thread initialises can wait for nobody; it makes do with one environment and one
kind of call, for waiting does not depend on them. No run checks the invariants with
signal handlers, with several symbols or with all kinds of call together,
`LazyInit_selfwait` apart: the theorems cover them, as they remove the other bounds.

`PathCheck`: nine tokens hold four names, enough for two names below a prefix of two, or
for a name, `..` and two more; the buffers of 12 characters are smaller than the longest
texts, so that every limit is crossed. One of the six policies has a TO that leaves room
for the NUL only: a path whose cleaned form keeps the slash of a last `..` needs one
byte more there, and `RewriteIsMapping` says so. The buffers that the program gives
`getcwd` are of 0 to 16 characters, on both sides of the `PATH_MAX` of its own. Fourteen bytes of memory let a store
one or two bytes behind the largest buffer be seen; the theorems about `CleanPath` hold
for texts, buffers and memories of every size.

`Interposer`: FROM and TO are siblings with a directory in each, one directory is
outside. Texts reach every directory absolutely and relatively, through `..` and from
any base. `PATH_MAX` is large, because what happens at the limit is `PathCheck`'s
matter. The instances give FROM and TO the same parent: with different parents `..` from
the top of TO is not `..` from FROM, and what the library should promise then is open
(see "Not modelled"). FROM is one name deep, so that no directory is moved to a place
above it. Relative paths are given only to functions that rewrite them, and `getcwd` is
given no buffer larger than `PATH_MAX`. `Interposer_calls` never removes a directory: once the working
directory is gone the library can read no base and passes paths on as they are, as its
README says, and such a path may lead to FROM. `Interposer_removed` covers that case and
counts such a path as meant literally. No directory is ever named like a removed one,
"... (deleted)". `Interposer_together` uses the symmetry of the threads, which is sound
since no action or property tells them apart.

`Audit`: with two polls a start can succeed at the first and at the last, and fail
(`Audit_skip` needs no signals).
The two FSALs are those of the script. Two signals reach every pair of places,
which is what it takes to kill a server after one trap has run.

`CHECK_DEADLOCK FALSE` stands where the system may stop: a program that has
crashed, a program all of whose contexts wait, a text that was cleaned, an audit that
has ended.

### Fairness

`FairSpec` asks that a context that can take a step of its own keeps being
scheduled, and nothing else: no program has to call, fork, exec or return from a
handler. For the audit, `WF_vars(Script /\ ~ Hanging)` says that the shell takes its next
step when the command before has ended, which a `Hanging` command need not do; no server
has to come up or to die, and no signal to come. `Ends` has the premise `[]<>(~ Hanging)`:
no single command waits for ever. What it shows is that no loop of the script does. `CallsReturn` is checked without signal handlers, for with them it is
false (`LazyInit_selfwait`).

## What is proved

TLAPS checks eight modules. Where a theorem rests on more than the named assumptions
on the constants it says so in its statement. Every safety invariant and every action
property of a passing run is stated by a theorem, some of them under hypotheses that
the instance of a run satisfies; liveness is left to TLC.

### Start-up

`LazyInitProofs`, for any sets of processes, threads and environments, any number of
symbols, with and without signal handlers, from `LazyInitAssumption` only:

* `Typed`, `MutualExclusion`, `WholePolicy`, `WholeTable`, `WaitersAreServed`:
  `Spec => []P` for the five invariants of the run;
* `OneSnapshot`: `Spec => SnapshotStable`.

None of the properties is inductive. The inductive invariant `IInv` adds: a context
outside a call runs nothing, and one in an initialiser is at the stage that called
it (`Frames`); whoever runs an initialiser holds its control, busy and of the
current fork generation (`Ownership`), which with `Claimable` gives
`OneInitialiser`; conversely such a control has a runner (`BusyIsRun`), which gives
`NoOrphanWait`; a stage that relies on an initialiser has its control done
(`StagesGuarded`); what the initialiser has stored at each of its steps
(`PolicyBuilt`, `TableBuilt`), hence what a control that is done promises
(`Initialised`), which give `PolicyNotTorn` and `SymbolsComplete`; and generations
never lie in the future (`Generations`), so that a fork makes every busy control of
the child stale. The proof has one lemma per action, or per group of actions that
have the same shape (`Move`, `Store`). `OneSnapshot` needs one more invariant,
`Unborn`: the memory of a process image without threads is new, so that a fork
cannot overwrite a policy in use. TLC checked `IInv` on the instances above before
it was proved.

`SnapshotProofs`: `ImplementsSnapshot`, `Spec => TakesSnapshot`, with
`UnsetAssumption` besides. Each step of `LazyInit` is a `Take` (the `getenv` calls), a
`Tell` (a stage that leaves a done control behind), one of the environment's steps
or a stutter. It uses `IInv` and `Unborn`, and that nobody is past
`get_rewrite_policy` in an image whose control is not done.

### Cleaning

`CleanPathProofs`, for every text over any characters, every buffer, `PATH_MAX` and
memory, from `CleanPathAssumption` and `LimitsAssumption`: `TypeCorrect`,
`StaysInBuffer`, `StackFits`, `LeavesString`, `NeverRefusesWhatFits`. The invariants
behind them say that the pointers are ordered and inside the text, that `out` is below
`dst_len`, that what is below `out` was stored and has no empty segment (`InBuffer`),
that each entry of `seg_starts` lies at least two bytes above the one before it and the
last below `out` (`Stack`), and that `out`, with the slash to come, is never ahead of
what was read of the path (`Behind`).

### Texts

The text functions are folds, and a theorem about texts of every length is an
induction. The library's induction theorems are about predicates, which the provers
cannot instantiate. `FoldProofs` does the induction over sets, which are values: a set
of numbers that holds 0 and with each number its successor holds them all
(`SetInduction`, from the well-foundedness of `<`), and likewise for sequences
(`SeqInduction`). From these: `FoldEmpty`, `FoldAppend`, `FoldConcat`, `FoldType`, and
`RunIsFold`, a recursive function along a sequence is a fold too. The other modules
instantiate it once for each fold of the model: `Cut` (`Segments`), `Count`
(`Length`), `Cleaner` (`clean_path_into`), `Steps` (`Walk`), `Spelling` (`Spell`).

`PathTextProofs`, for any names, widths, shared letters, policies and `PATH_MAX`, from
`PathTextAssumption` and `LimitsAssumption`:

* `CleanedAbsolute`: a cleaned absolute path is the shortest text of the place to
  which the kernel would have walked, or that text with a slash behind it. Its
  induction hypothesis `Shaped` says what the cleaner holds after each token: the
  place so far, slashed, and a start for every second token of it.
* `WhatFitsIsTaken`: an absolute path shorter than the buffer is never refused, in
  buffers of at most `PATH_MAX`.
* `RewriteMaps`, `AnswerLeadsBack`: what `rewrite_absolute_path` and
  `getcwd_answer` do, in places instead of texts.
* `RelativeIsAbsolute`: a relative path is treated as the absolute one it stands for,
  or not at all, and this only when it gets too long on the way.

`AnswerLeadsBack` is about every size of the caller's buffer: the answer leads back unless
making it overran `getcwd`'s own buffer (`getcwd_overruns`). A lemma about `Places` alone,
`SeenIsMeant`, serves the proofs about `Interposer`: with FROM and TO siblings, a path read
from the directory that `getcwd` tells, and then mapped, names what the program means.

`PathCheckProofs` states these for the specification that enumerates texts, without
its bounds: `CleaningIsLexical`; `RewritingIsMapping` and `CwdLeadsBack`, under
`PlainPolicies` (every policy is enabled and neither of its two cleaned texts ends in
a slash, which leaves out the root and a FROM or TO that ends in a name and `..`; the
policies of `PathCheck_texts` are such); and

* `BytesFollowTokens`: `CheckSpec => []CleanerAgrees`. The machine of `CleanPath` and
  the operator of `PathText` give the same text and refuse the same texts, for every
  spelling of the names in which the same letters mean the same name, so that what is proved
  of tokens is true of the bytes. The invariant `Follows` relates the machine, at
  each `pc`, to the cleaner after the first `m` tokens (`Reached`): the bytes in `dst`
  spell its output (`Stored`), and each entry of `seg_starts` is the length of the
  part of the output below the entry of its stack (`Stacked`). It is inductive together
  with `IInv` of `CleanPathProofs`, which gives that an absolute path never has its root
  cut; there is one lemma per action. TLC checked it before it was proved.

### Rewriting

`InterposerProofs`, from the named assumptions on the constants, first proves what the
*interleaving* adds:

* `Settles`: `Spec /\ []EachLookIsRight => []RewrittenIsSettled`, for any threads,
  functions, paths and renaming processes. The invariant `CallsOk` says that what an
  argument means now is among what it meant, and that what was rewritten is absolute
  (so that no later change of directories or descriptors matters) and leads to one
  of these places.
* `ImplementsIllusion`: `Spec /\ []ActsAsMeant => KeepsPromise` for a program of one
  thread that starts outside FROM while nobody else moves directories. Its
  invariant `SteadyAlone` says that an argument still means what it meant at the
  call; the kernel of `Illusion` is shown to be that of `Interposer` first. With a
  second thread the conclusion is false for relative paths (`Interposer_race`), and
  true for absolute ones (`AbsoluteIllusion`). Each real call is a step of the promise
  when it is `Faithful`: when it acts on what its arguments mean now.
* `TypesHold`, `Spec => []TypeOK`, by the invariant `Typed`, which bounds each field of
  a thread by where its call is. `OnlyNullBufferCrashes`: a program that gives `getcwd`
  neither a null buffer nor one larger than `PATH_MAX` never crashes.

Then it takes the hypotheses of the first two away with the theorems about texts:

* `LooksStayRight` and `SettlesForSiblings`: `EachLookIsRight` and
  `RewrittenIsSettled` for any number of threads and with other processes that rename,
  where the policy rewrites nothing or FROM and TO are siblings with texts that do not
  end in a slash (`PlainSiblings`), no path is empty, and directories are not removed or
  the program climbs first (`Trusting`). A relative path climbs first (`Climbing`) when
  no `..` follows a name in it, and `Climbers` also asks that FROM does not hold the name
  that /proc gives a removed directory. What such a path leads to from a removed directory
  is proved in a section of its own: from the name shown, it leaves that name at once
  and goes where the kernel goes (`UpFromGone`), or it stays below it, and FROM is not
  there (`DownFromGone`, `GoneIsNowhere`). The invariant `Clear` says that a look finds
  no directory removed, or a program that climbs first. Without this hypothesis
  `ActsAsMeant` is false: from a removed `/t/d` that a descriptor holds, the kernel
  refuses `d/../../../f`, while the library cleans it together with the name it reads and
  rewrites it to TO.
* `CallsActAsMeant` and `IllusionHolds`: `ActsAsMeant` and `KeepsPromise` for a program
  of one thread in `Usual` surroundings (besides the above: relative paths go to
  functions that resolve them, and nobody else moves directories), as long as every
  path it gives still fits into `PATH_MAX` with its base, as it is shown, and TO (`Fits`). The invariant
  `Aimed` says that each rewritten argument leads to what it means, until the real
  function runs. `StillTreeIllusion` asks for room in the constants instead, where no
  call renames or removes a directory.
* `FromStaysUnentered`: such a program, started outside FROM, never holds a directory
  at or below it, where FROM is one name deep and nothing is removed: once the working
  directory is gone a relative path is passed on as it is and may lead there. The invariant `Outside` says this
  of every directory that is held; a rename is the hard case, for it moves
  directories that are held, and only a FROM with a parent of its own can get a
  held directory moved onto it.

And for absolute paths it does without one thread, siblings and directories that stay:

* `AbsoluteCallsActAsMeant`, `Spec => []ActsAsMeant` for an `AbsoluteProgram`: it gives
  no relative path (a symbolic link may hold one), and when the policy is enabled the
  cleaned FROM and TO end in names and each path has room for TO before it. Any number
  of threads, every function, and processes that rename. The invariant `AllPointed`
  says that each argument and its rewritten form are `Fixed`, absolute or NULL, and that
  the one leads to what the other means; as both lead to the same place from every state
  (`FixedIsStable`), no change of directories, descriptors or names can break it.
* `AbsoluteIllusion`, `Spec => KeepsPromise` for such a program, started outside FROM,
  while nobody else moves directories: the order of the real calls is the order in which
  the promise makes its steps.
* `AbsoluteStaysUnentered`, `Spec => []FromNeverEntered`, where FROM is one name, TO is
  not below it and other processes bring nothing to FROM. The invariant is `Outside` again,
  kept also when directories are removed and their objects used anew.

So what `Interposer_race` shows is a matter of relative paths only.

The instances `Interposer_calls`, `Interposer_removed` and `Interposer_together` satisfy
the hypotheses about siblings, the second through `Climbers` (TLC checked `Fits` on the
first two). The three about absolute paths were also checked with TLC, for two threads that call `chdir`, `rename` and `rmdir` on
`/f`, `/f/../t` and `/o/d`, with FROM `/f` and TO `/t/d`.

### Audit

`AuditProofs`, for any numbers of polls, FSALs and signals, from `AuditAssumption`:
`TypeCorrect`, `LeavesNoneBehind`, `UnmountsBeforeItKills`, `StatusIsTrue`. The invariants: a server that runs under the pid it was started with is
known to the script, or is the one just being started, and if it is unknown on the way
out the script fails (`Tracked`); a mounted server that is still up is the last one, on
top, until it is unmounted, or killed because `umount` failed (`MountsTracked`); what
`status`, `rc` and `tried` say of each other at each place of the loop (`StatusSoFar`).
These theorems say what the script does as it is: that an rpcbind stays behind, that a
failed `umount` is followed by the kill of the server, and that PASS may stand for a mount
that was not permitted are among the cases they name, not excluded by a hypothesis.

### Only model-checked

Liveness (`CallsReturn`, `Ends`) is out of the prover's reach. Beyond the hypotheses
above some properties are false. Runs show it for `ActsAsMeant` with several threads that
give relative paths (`Interposer_race`) and for `getcwd` with a buffer larger than
`PATH_MAX` (`PathCheck_getcwd`). Three more divergences have no run of their own:

* `open`, `creat`, `stat`, `lstat`, `mkdir`, `rmdir`, `truncate`, `unlink`, `readlink`,
  `__xstat` and `__lxstat` go through `rewrite_path_argument`, which leaves relative paths
  alone, although the repository's README says that "relative paths with `AT_FDCWD`
  resolve against `getcwd()`". The route `"path"` models this; `RelativeRoutes` keeps
  relative paths away from it.
* A FROM that ends in a name and `..` is cleaned to a text with a slash behind it
  (`/a/ab/..` to `/a/`), which matches only paths whose own cleaned text keeps that slash,
  and none below. `Configs` holds no such policy, and `PlainPolicies` excludes them.
* A path with `..` behind a name, given from a removed directory, may be rewritten where
  the kernel would refuse it.

## What is abstracted

Contents of files, flags and modes, symbolic links met on the way of a path, bind
mounts and other processes' changes other than renames; errors other than ENOSYS;
the spelling of names. `execve` is a rewritten call in `Interposer` and a new image
in `LazyInit`. `setenv` does not run between the two `getenv` calls of another
thread's initialiser, where C leaves it undefined. In the audit the workloads that
are only traced are a success or a failure, only the server of an FSAL is taken to export
that FSAL's path, `smbd` is taken to close the output it
inherits from the command substitution, and numbers of processes are not used
again.

## Not modelled

* The launcher (`terminal*.go`, `main.go`): it starts a shell with the library
  preloaded and waits for it. Its one piece of state is the terminal mode, and on
  Linux, where the library works, `makeRaw` and `restoreTerminal` are commented out.
* `smoke/run.sh` and `smoke/fixture.c` are tests, sequences of assertions in one thread;
  they were read for what the library is expected to do.
* `rtld.h`, `exports.go`, the build files and CI have no behaviour.
* FROM and TO with different parents, TO below FROM, paths given to `AT_EMPTY_PATH`
  and a FROM several names deep: neither the code nor its documentation says what a
  program should see there, so there is nothing to compare the code with. Single
  calls under TO below FROM are in `PathCheck`.
* What happens once `getcwd` has overrun its array: `PathCheck` says when it does, and the
  buffers of `Interposer` are of at most `PATH_MAX` bytes.
* The two arguments of one call taken together, where another thread changes the working
  directory between them: each is rewritten for its own moment, and what the pair should
  mean then nobody says.
