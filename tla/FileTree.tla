------------------------------ MODULE FileTree ------------------------------
(***************************************************************************)
(* The kernel's side of the intercepted calls: directories with their      *)
(* names, the working directory of the process and its descriptors. All of *)
(* it is external to the library. A state n of the file system is a record *)
(*   where  directory -> its place (of a removed one: where it was)        *)
(*   live   directory -> has it a name?                                    *)
(*   cwd    the working directory of the process, shared by its threads    *)
(*   fds    descriptor -> its directory, PIPE or CLOSED                    *)
(* and the operators that change it give the set of the states that can    *)
(* follow, empty where the kernel returns an error.                        *)
(***************************************************************************)
EXTENDS PathText, Places

CONSTANTS
  Dirs,           (* directories                                              *)
  Fds, AT_FDCWD,  (* descriptors, and the one that stands for the cwd         *)
  CLOSED, PIPE,   (* what a descriptor without a directory is                 *)
  Deleted         (* name under which /proc shows a directory that is gone    *)

ASSUME FileTreeAssumption ==
  AT_FDCWD \notin Fds /\ {CLOSED, PIPE} \cap Dirs = {} /\ Deleted \in Names \ {".", ".."}

Object(n, dir) == IF dir = AT_FDCWD THEN n.cwd ELSE n.fds[dir]

\* Where a directory seems to be: a removed one under the name of those.
Shown(n, d) == IF n.live[d] THEN n.where[d] ELSE Append(Front(n.where[d]), Deleted)

\* What real_getcwd and the readlink of /proc/self/fd/<dirfd> answer.
BaseText(n, dir) ==
  LET d == Object(n, dir)
  IN IF d = CLOSED \/ (dir = AT_FDCWD /\ ~ n.live[d]) THEN Fail
     ELSE IF d = PIPE THEN <<Deleted>>
     ELSE TextOf(Shown(n, d))

\* A path whose first name, dots apart, is "..".
StartsUp(text) ==
  \E i \in 1..Len(text) : text[i] = ".." /\ \A j \in 1..(i - 1) : text[j] \in {"/", "."}

\* Does a path lead anywhere? From a removed directory only ".." does.
Leads(n, arg) ==
  LET d == Object(n, arg.dir)
  IN /\ arg.text # NULL /\ arg.text # <<>>
     /\ ~ Absolute(arg.text) => d \in Dirs /\ (n.live[d] \/ StartsUp(arg.text))

\* No file has a name like that of a removed directory.
Existing(place) == IF Contains(place, Deleted) THEN Fail ELSE place

\* The place a path leads to, Fail if it leads nowhere.
Target(n, arg) ==
  IF ~ Leads(n, arg) THEN Fail
  ELSE Existing(Walk(IF Absolute(arg.text) THEN <<>> ELSE n.where[Object(n, arg.dir)],
                     arg.text))

-----------------------------------------------------------------------------
DirsAt(n, place) == {d \in Dirs : n.live[d] /\ n.where[d] = place}

\* May a new directory come into being at place?
Vacant(n, place) == /\ place # Fail /\ place # <<>>
                    /\ DirsAt(n, place) = {}
                    /\ DirsAt(n, Front(place)) # {}

ChangeDir(n, place) == {[n EXCEPT !.cwd = d] : d \in DirsAt(n, place)}

OpenDir(n, place) ==
  {[n EXCEPT !.fds[f] = d] :
     f \in {g \in Fds : n.fds[g] = CLOSED}, d \in DirsAt(n, place)}

\* Directories that are gone for good are all alike: one of them stands for the
\* new one.
Unused(n) == {d \in Dirs : ~ n.live[d] /\ n.cwd # d /\ \A f \in Fds : n.fds[f] # d}

MakeDir(n, place) ==
  IF ~ Vacant(n, place) \/ Unused(n) = {} THEN {}
  ELSE LET new == CHOOSE d \in Unused(n) : TRUE
       IN {[n EXCEPT !.where[new] = place, !.live[new] = TRUE]}

RemoveDir(n, place) ==
  {[n EXCEPT !.live[d] = FALSE] :
     d \in {e \in DirsAt(n, place) :
              \A g \in Dirs \ {e} : n.live[g] => ~ Under(n.where[g], place)}}

\* Everything below old moves along, the removed directories someone still
\* holds included.
MoveDir(n, old, new) ==
  IF old = Fail \/ DirsAt(n, old) = {} \/ ~ Vacant(n, new) \/ Under(new, old) THEN {}
  ELSE {[n EXCEPT !.where = [d \in Dirs |-> IF n.live[d] \/ n.where[d] # old
                                            THEN Carry(n.where[d], old, new)
                                            ELSE n.where[d]]]}
=============================================================================
