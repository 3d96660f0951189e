------------------------------ MODULE Illusion ------------------------------
(***************************************************************************)
(* What the library promises a program: the "file-tree illusion". Each     *)
(* call acts at once, on the place the program means: one that sees FROM   *)
(* where TO is, and that finds its way by the names it reads. There are no *)
(* rewritten arguments and no looks at directories in between.             *)
(***************************************************************************)
EXTENDS FileTree

CONSTANTS
  From, To,  (* the places of the two prefixes                                *)
  Given      (* the arguments of calls: a descriptor or AT_FDCWD, and a text  *)

VARIABLE fs

\* The place meant by an argument in the state n. Names lead from what getcwd
\* tells the program, and FROM stands for TO. Where getcwd fails, because the
\* directory was removed, a path means what it means to the kernel.
Meant(n, arg) ==
  LET start == IF Absolute(arg.text) THEN <<>>
               ELSE Carry(n.where[Object(n, arg.dir)], To, From)
  IN IF ~ Leads(n, arg) THEN Fail
     ELSE IF ~ Absolute(arg.text) /\ BaseText(n, arg.dir) = Fail THEN Target(n, arg)
     ELSE Existing(Carry(Walk(start, arg.text), From, To))

Init == /\ fs.live = [d \in Dirs |-> TRUE]
        /\ ~ Under(fs.where[fs.cwd], From)

Chdir(arg) == fs' \in ChangeDir(fs, Meant(fs, arg))
Open(arg)  == fs' \in OpenDir(fs, Meant(fs, arg))
Mkdir(arg) == fs' \in MakeDir(fs, Meant(fs, arg))
Rmdir(arg) == fs' \in RemoveDir(fs, Meant(fs, arg))
Rename(old, new) == fs' \in MoveDir(fs, Meant(fs, old), Meant(fs, new))
Close(f)   == fs' = [fs EXCEPT !.fds[f] = CLOSED]
Fchdir(f)  == fs.fds[f] \in Dirs /\ fs' = [fs EXCEPT !.cwd = fs.fds[f]]

Next ==
  \/ \E arg \in Given : Chdir(arg) \/ Open(arg) \/ Mkdir(arg) \/ Rmdir(arg)
  \/ \E old, new \in Given : Rename(old, new)
  \/ \E f \in Fds : Close(f) \/ Fchdir(f)

Spec == Init /\ [][Next]_fs
=============================================================================
