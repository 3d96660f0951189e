------------------------------- MODULE Audit --------------------------------
(***************************************************************************)
(* smoke/audit_workloads.sh: the life of the servers that the audit starts *)
(* for its workloads, the NFS mount, and the status it writes down for     *)
(* ganesha. Servers come up, fail, stall and die on their own time; a      *)
(* signal may come between any two commands of the script, and its trap    *)
(* kills what the script knows of and lets it go on.                       *)
(*                                                                         *)
(* External: the processes (a server that is killed dies when it likes and *)
(* keeps its port until then; one that stalls keeps its port too, accepts, *)
(* and never answers; rpcbind, once it is up, is a daemon with a pid that  *)
(* nobody asked for), and the kernel's NFS client, whose mounts are hard:  *)
(* a command on a mount without its server hangs.                          *)
(***************************************************************************)
EXTENDS Naturals, Sequences, SequencesExt

CONSTANTS
  Attempts,   (* polls before a start is given up, 50 in the script            *)
  Fsals,      (* number of FSALs that ganesha is tried with, VFS and MEM       *)
  MaxSignals  (* bound on the signals                                          *)

ASSUME AuditAssumption ==
  Attempts \in Nat \ {0} /\ Fsals \in Nat \ {0} /\ MaxSignals \in Nat

Moto == <<"moto", 0>>
Smbd == <<"smbd", 0>>
Nfsd(n)    == <<"nfsd", n>>
Rpcbind(n) == <<"rpcbind", n>>

Instances(kind) == {<<kind, n>> : n \in 0..Fsals}
Servers == {Moto, Smbd} \cup {Nfsd(n) : n \in 1..Fsals} \cup {Rpcbind(n) : n \in 1..Fsals}

VARIABLES
  pc,
  server,    (* moto or smbd, the one that is started or used                  *)
  attempts,
  known,     (* cleanup_pids                                                   *)
  pids,      (* ganesha_pid and rpcbind_pid                                    *)
  turn,      (* fsal of the for loop                                           *)
  after,     (* where stop_ganesha returns to                                  *)
  rc,        (* mount_rc                                                       *)
  status,    (* of run_ganesha_workflow                                        *)
  recorded,  (* the line for ganesha in the status file, "" if none            *)
  code,      (* exit code                                                      *)
  proc,      (* server -> "none", "booting", "serving", "stalled", "dying",    *)
             (* "gone"                                                         *)
  mounts,    (* servers mounted on the mount point, one over the other         *)
  refused,   (* whether the last stop_ganesha_mount left a mount (history)     *)
  tried,     (* fsal -> what came of it                                        *)
  signals    (* signals so far                                                 *)

shell   == <<server, known, pids, code, signals>>
ganesha == <<turn, after, rc, status, recorded, tried>>
net     == <<mounts, refused>>
vars    == <<pc, attempts, shell, ganesha, proc, net>>

Init ==
  /\ pc = "contract" /\ server = Moto /\ attempts = 0
  /\ known = {} /\ pids = {} /\ code = 0 /\ signals = 0
  /\ turn = 1 /\ after = "launch" /\ rc = 0 /\ status = "FAIL" /\ recorded = ""
  /\ tried = [n \in 1..Fsals |-> "no"]
  /\ proc = [p \in Servers |-> "none"] /\ mounts = <<>> /\ refused = FALSE

Running(p) == proc[p] \in {"booting", "serving", "stalled"}

\* The $! of a server is its pid until it becomes a daemon, as rpcbind does without -f
\* when it has its port: the process that was started ends then.
Daemon(p) == p[1] = "rpcbind" /\ proc[p] # "booting"
HasPid(p) == Running(p) /\ ~ Daemon(p)

\* kill of all of them, with the pids that the script holds.
Kill(ps) == proc' = [p \in Servers |-> IF p \in ps /\ HasPid(p) THEN "dying" ELSE proc[p]]

Launch(ps) == proc' = [p \in Servers |-> IF p \in ps THEN "booting" ELSE proc[p]]

\* The script exits, by set -e if the code is not 0.
Leave(c) == pc' = "exit" /\ code' = c

-----------------------------------------------------------------------------
(* The main sequence. Workloads followed by "|| true" and those that record  *)
(* SKIP change nothing here.                                                 *)

\* The workloads without a server, the last of which must pass.
RunContract ==
  /\ pc = "contract"
  /\ \/ pc' = "start" /\ UNCHANGED code
     \/ Leave(1)
  /\ UNCHANGED <<attempts, server, known, pids, signals, ganesha, proc, net>>

\* start_moto and start_samba, in a command substitution: the server is started,
StartServer ==
  /\ pc = "start"
  /\ Launch({server})
  /\ attempts' = 0 /\ pc' = "await"
  /\ UNCHANGED <<shell, ganesha, net>>

\* The commands that wait as long as a server likes: curl, which is given no limit,
\* for a moto that has stalled; mount for a stalled ganesha; mountpoint, umount and the
\* workload on a mount that lost its server. smbclient and rpcinfo give up themselves.
Hanging ==
  \/ pc = "await" /\ server = Moto /\ proc[Moto] = "stalled"
  \/ pc = "mount" /\ proc[Nfsd(turn)] = "stalled"
  \/ pc \in {"umount", "verify"} /\ mounts # <<>> /\ proc[Last(mounts)] # "serving"

\* The server answers the poll,
Answered == proc[server] = "serving" /\ pc' = "report" /\ UNCHANGED <<attempts, code>>

\* Mutants of AwaitServer: a failed poll is not counted, and one is made too many.
AwaitUncounted ==
  /\ pc = "await" /\ ~ Hanging
  /\ Answered \/ UNCHANGED <<pc, attempts, code>>
  /\ UNCHANGED <<server, known, pids, signals, ganesha, proc, net>>

AwaitOneMore ==
  /\ pc = "await" /\ ~ Hanging
  /\ \/ Answered
     \/ /\ attempts' = attempts + 1
        /\ IF attempts > Attempts THEN Leave(1) ELSE UNCHANGED <<pc, code>>
  /\ UNCHANGED <<server, known, pids, signals, ganesha, proc, net>>

\* or the poll fails. After the last one the substitution fails.
AwaitServer ==
  /\ pc = "await" /\ ~ Hanging
  /\ \/ Answered
     \/ /\ attempts' = attempts + 1
        /\ IF attempts' >= Attempts THEN Leave(1) ELSE UNCHANGED <<pc, code>>
  /\ UNCHANGED <<server, known, pids, signals, ganesha, proc, net>>

\* Mutant of ReportServer: the pid is not kept for the clean-up.
ReportUnkept ==
  /\ pc = "report"
  /\ pc' = "use"
  /\ UNCHANGED <<attempts, shell, ganesha, proc, net>>

\* Only now, with the pid that the substitution printed, the script knows of it.
ReportServer ==
  /\ pc = "report"
  /\ known' = known \cup {server}
  /\ pc' = "use"
  /\ UNCHANGED <<attempts, server, pids, code, signals, ganesha, proc, net>>

UseServer ==
  /\ pc = "use"
  /\ IF server = Moto THEN server' = Smbd /\ pc' = "start"
                      ELSE pc' = "umount" /\ UNCHANGED server
  /\ UNCHANGED <<attempts, known, pids, code, signals, ganesha, proc, net>>

-----------------------------------------------------------------------------
(* run_ganesha_workflow, exempt from set -e by the "|| true" after it.       *)

\* Mutant of StopMount: nothing is unmounted.
SkipUmount ==
  /\ pc = "umount"
  /\ pc' = "kill"
  /\ UNCHANGED <<attempts, shell, ganesha, proc, net>>

\* stop_ganesha: the top mount, if mountpoint finds one and umount does not fail, as
\* it may for any reason,
StopMount ==
  /\ pc = "umount"
  /\ \/ mounts # <<>> /\ mounts' = Front(mounts) /\ refused' = FALSE
     \/ UNCHANGED mounts /\ refused' = (mounts # <<>>)
  /\ pc' = "kill"
  /\ UNCHANGED <<attempts, shell, ganesha, proc>>

\* then the servers, whatever came of that.
StopRuntime ==
  /\ pc = "kill"
  /\ Kill(pids) /\ pids' = {}
  /\ pc' = after
  /\ UNCHANGED <<attempts, server, known, code, signals, ganesha, net>>

\* stop_ganesha is called, and returns to there.
Stop(there) == pc' = "umount" /\ after' = there

\* start_ganesha_instance
StartGanesha ==
  /\ pc = "launch"
  /\ Launch({Nfsd(turn), Rpcbind(turn)}) /\ pids' = {Nfsd(turn), Rpcbind(turn)}
  /\ pc' = "enlist"
  /\ UNCHANGED <<attempts, server, known, code, signals, ganesha, net>>

EnlistGanesha ==
  /\ pc = "enlist"
  /\ known' = known \cup pids
  /\ attempts' = 0 /\ pc' = "ready"
  /\ UNCHANGED <<server, pids, code, signals, ganesha, proc, net>>

Alive(kind) == \E p \in Instances(kind) \cap Servers : proc[p] \in {"serving", "dying"}

\* rpcinfo asks for some NFS server, not for this one.
RpcAnswers == Alive("rpcbind") /\ Alive("nfsd")

Tried(what) == tried' = [tried EXCEPT ![turn] = what]

\* The for loop goes on with the next FSAL, or ends.
NextTurn == IF turn < Fsals THEN turn' = turn + 1 /\ Stop("launch")
                            ELSE Stop("record") /\ UNCHANGED turn

AwaitGanesha ==
  /\ pc = "ready"
  /\ \/ /\ RpcAnswers
        /\ pc' = "mount"
        /\ UNCHANGED <<attempts, ganesha>>
     \/ /\ attempts' = attempts + 1
        /\ IF attempts' < Attempts
           THEN UNCHANGED <<pc, ganesha>>
           ELSE status' = "FAIL" /\ Tried("late") /\ NextTurn /\ UNCHANGED <<rc, recorded>>
  /\ UNCHANGED <<shell, proc, net>>

\* run_mount_and_verify up to the workload: mount succeeds, is not permitted, or
\* fails for another reason. Only the server of this FSAL exports its path.
Mount ==
  /\ pc = "mount"
  /\ \/ /\ proc[Nfsd(turn)] \in {"serving", "dying"}
        /\ mounts' = Append(mounts, Nfsd(turn))
        /\ pc' = "verify"
        /\ UNCHANGED <<rc, status, tried>>
     \/ /\ status' = "SKIP" /\ rc' = 0 /\ Tried("not permitted")
        /\ pc' = "judge" /\ UNCHANGED mounts
     \/ /\ rc' = 1 /\ Tried("not mounted")
        /\ pc' = "judge" /\ UNCHANGED <<status, mounts>>
  /\ UNCHANGED <<attempts, shell, turn, after, recorded, proc, refused>>

\* The workload on the mount.
Verify ==
  /\ pc = "verify" /\ ~ Hanging
  /\ \/ rc' = 0 /\ Tried("verified") /\ UNCHANGED status
     \/ rc' = 1 /\ Tried("not verified") /\ status' = "FAIL"
  /\ pc' = "judge"
  /\ UNCHANGED <<attempts, shell, turn, after, recorded, proc, net>>

\* Mutant of Judge: a success does not change the status.
JudgeKeepingStatus ==
  /\ pc = "judge"
  /\ Stop("judged")
  /\ UNCHANGED <<attempts, shell, turn, rc, status, recorded, tried, proc, net>>

\* What the loop makes of mount_rc. The status SKIP comes with mount_rc 0 and is
\* lost here; its own break, without a stop, is never reached.
Judge ==
  /\ pc = "judge"
  /\ status' = IF rc = 0 THEN "PASS" ELSE status
  /\ Stop("judged")
  /\ UNCHANGED <<attempts, shell, turn, rc, recorded, tried, proc, net>>

\* After that stop there is another, behind the loop or before the next start.
GoOn ==
  /\ pc = "judged"
  /\ IF rc = 0 THEN Stop("record") /\ UNCHANGED turn ELSE NextTurn
  /\ UNCHANGED <<attempts, shell, rc, status, recorded, tried, proc, net>>

\* The line for ganesha, then collect_missed and the summary, and the end.
RecordStatus ==
  /\ pc = "record"
  /\ recorded' = status
  /\ Leave(0)
  /\ UNCHANGED <<attempts, server, known, pids, signals, turn, after, rc, status, tried,
                 proc, net>>

-----------------------------------------------------------------------------
\* The trap on EXIT.
Cleanup ==
  /\ pc = "exit"
  /\ Kill(known)
  /\ pc' = "ended"
  /\ UNCHANGED <<attempts, shell, ganesha, net>>

\* The trap on INT and TERM, between two commands of the script, which goes on. A
\* signal that comes during a command waits for its end.
Trap ==
  /\ pc \notin {"await", "ended"}
  /\ signals < MaxSignals
  /\ Kill(known)
  /\ signals' = signals + 1
  /\ UNCHANGED <<pc, attempts, server, known, pids, code, ganesha, net>>

\* An interrupt from the terminal ends the substitution too, but not the server
\* in its background: the trap, then set -e.
Interrupt ==
  /\ pc = "await" /\ signals < MaxSignals
  /\ Kill(known)
  /\ Leave(1) /\ signals' = signals + 1
  /\ UNCHANGED <<attempts, server, known, pids, ganesha, net>>

\* A server gets its port if no other process of its kind has it,
Boot(p) ==
  /\ proc[p] = "booting"
  /\ \A q \in Instances(p[1]) \cap Servers : proc[q] \notin {"serving", "stalled", "dying"}
  /\ proc' = [proc EXCEPT ![p] = "serving"]
  /\ UNCHANGED <<pc, attempts, shell, ganesha, net>>

\* may stop answering,
Stall(p) ==
  /\ proc[p] = "serving"
  /\ proc' = [proc EXCEPT ![p] = "stalled"]
  /\ UNCHANGED <<pc, attempts, shell, ganesha, net>>

\* and ends because it got no port, because it was killed, or on its own.
Die(p) ==
  /\ proc[p] \in {"booting", "serving", "stalled", "dying"}
  /\ proc' = [proc EXCEPT ![p] = "gone"]
  /\ UNCHANGED <<pc, attempts, shell, ganesha, net>>

Script ==
  \/ RunContract \/ StartServer \/ AwaitServer \/ ReportServer \/ UseServer
  \/ StopMount \/ StopRuntime \/ StartGanesha \/ EnlistGanesha \/ AwaitGanesha
  \/ Mount \/ Verify \/ Judge \/ GoOn \/ RecordStatus \/ Cleanup

Process(p) == Boot(p) \/ Stall(p) \/ Die(p)

Next == Script \/ Trap \/ Interrupt \/ \E p \in Servers : Process(p)

\* The shell goes on whenever its command has ended, which a hanging one need not.
Spec == Init /\ [][Next]_vars /\ WF_vars(Script /\ ~ Hanging)

-----------------------------------------------------------------------------
TypeOK ==
  /\ pc \in {"contract", "start", "await", "report", "use", "umount", "kill", "launch",
             "enlist", "ready", "mount", "verify", "judge", "judged", "record", "exit", "ended"}
  /\ server \in {Moto, Smbd} /\ attempts \in 0..Attempts
  /\ known \subseteq Servers /\ pids \subseteq Servers
  /\ turn \in 1..Fsals /\ after \in {"launch", "judged", "record"} /\ rc \in {0, 1}
  /\ status \in {"FAIL", "PASS", "SKIP"} /\ recorded \in {"", "FAIL", "PASS", "SKIP"}
  /\ code \in {0, 1} /\ signals \in 0..MaxSignals
  /\ proc \in [Servers -> {"none", "booting", "serving", "stalled", "dying", "gone"}]
  /\ mounts \in Seq(Servers) /\ refused \in BOOLEAN
  /\ tried \in [1..Fsals -> {"no", "late", "not mounted", "not permitted",
                             "verified", "not verified"}]

\* When the script has ended, whatever signals came, a server that was not told to
\* stop is an rpcbind, whose pid the script never had, or the one whose start was
\* given up or interrupted, and then the script has failed.
OnlyRpcbindLeft ==
  pc = "ended" => \A p \in Servers : Running(p) => Daemon(p) \/ (p = server /\ code # 0)

\* FAIL is written just when every FSAL was tried and failed, however the status was
\* overwritten on the way; PASS, where no mount was refused for want of permission,
\* only if an FSAL was verified.
Failed == {"late", "not mounted", "not verified"}
StatusTellsOutcome ==
  recorded # "" =>
    /\ recorded = "FAIL" <=> \A n \in 1..Fsals : tried[n] \in Failed
    /\ recorded = "PASS" /\ (\A n \in 1..Fsals : tried[n] # "not permitted")
         => \E n \in 1..Fsals : tried[n] = "verified"

\* A PASS for ganesha says that its workload has run; one that could not run is SKIP.
PassMeansVerified == recorded = "PASS" => \E n \in 1..Fsals : tried[n] = "verified"

\* stop_ganesha takes a server away from under its mount only if the umount just
\* before did not get rid of it, whatever order the servers of the FSALs came and
\* went in; else only the trap of a signal does.
UnmountsFirst ==
  [][\A p \in Servers :
       proc[p] \in {"serving", "stalled"} /\ proc'[p] = "dying" /\ signals' = signals
         => refused \/ \A k \in DOMAIN mounts : mounts[k] # p]_vars

\* The script ends, in whatever order the servers come up, die and stall, if no single
\* command waits for one for ever.
Ends == []<>(~ Hanging) => <>(pc = "ended")
=============================================================================
