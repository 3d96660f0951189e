---------------------------- MODULE AuditProofs -----------------------------
(***************************************************************************)
(* Proofs about Audit, for any number of polls, FSALs and signals: which   *)
(* servers the script can lose track of (Tracked), which mounts still have *)
(* their servers (MountsTracked), and what the status stands for           *)
(* (StatusSoFar).                                                          *)
(***************************************************************************)
EXTENDS Audit, SequenceTheorems, TLAPS

\* A server that runs under the pid it was started with is known, or it is one of
\* ganesha's, or it is just being started; on the way out, one that is not known made
\* the script fail.
NoneOfGanesha ==
  pc \in {"contract", "start", "await", "report", "use", "launch", "judged", "record", "exit"}
    => pids = {}
KnownWhileAtWork ==
  pc \notin {"exit", "ended"} =>
    \A p \in Servers : HasPid(p) =>
      p \in known \cup pids \/ (pc \in {"await", "report"} /\ p = server)
KnownOnTheWayOut ==
  pc = "exit" => \A p \in Servers : HasPid(p) => p \in known \/ (p = server /\ code # 0)
NoneLeft == pc = "ended" => \A p \in Servers : HasPid(p) => p = server /\ code # 0

Tracked == NoneOfGanesha /\ KnownWhileAtWork /\ KnownOnTheWayOut /\ NoneLeft

\* Only instances of ganesha that have been served from are mounted, and none that is
\* up, but for the last one on top, whose pid is at hand, until it is unmounted, or
\* killed because it could not be; the one to be launched next is not mounted yet.
Up(p) == proc[p] \in {"serving", "stalled"}

MountedWereUp ==
  \A k \in DOMAIN mounts : /\ \E n \in 1..turn : mounts[k] = Nfsd(n)
                          /\ proc[mounts[k]] \in {"serving", "stalled", "dying", "gone"}
NextNotMounted ==
  /\ pc \in {"contract", "start", "await", "report", "use"} => mounts = <<>>
  /\ pc = "launch" \/ (pc \in {"umount", "kill"} /\ after = "launch")
       => \A k \in DOMAIN mounts : mounts[k] # Nfsd(turn)
PidAtHand == pc \in {"enlist", "ready", "mount"} => Nfsd(turn) \in pids
OnlyTopIsUp ==
  \A k \in DOMAIN mounts : Up(mounts[k]) =>
    /\ k = Len(mounts) /\ mounts[k] \in pids
    /\ pc \in {"verify", "judge", "umount"} \/ (pc = "kill" /\ refused)

MountsTracked == MountedWereUp /\ NextNotMounted /\ PidAtHand /\ OnlyTopIsUp

\* What the script holds of the FSAL that it is at, phase by phase: nothing yet; the
\* outcome in mount_rc, which does not tell a mount that was not permitted from a
\* workload that passed; mount_rc and the status; the status alone; the line.
Good(n) == tried[n] \in {"verified", "not permitted"}
Bad(n)  == tried[n] \in Failed
Outcome == \/ status = "PASS" /\ Good(turn)
           \/ status = "FAIL" /\ Bad(turn) /\ turn = Fsals

In(phase, there) == pc \in phase \/ (pc \in {"umount", "kill"} /\ after = there)

Before == In({"contract", "start", "await", "report", "use", "launch", "enlist", "ready",
              "mount", "verify"}, "launch")

TriedInTurn == \A n \in 1..Fsals : (n < turn => Bad(n)) /\ (n > turn => tried[n] = "no")
NothingYet == Before => tried[turn] = "no" /\ status = "FAIL" /\ after = "launch"
RcTells == pc = "judge" => \/ rc = 0 /\ Good(turn)
                           \/ rc = 1 /\ Bad(turn) /\ status = "FAIL"
RcAndStatus == In({"judged"}, "judged") => \/ rc = 0 /\ Good(turn) /\ status = "PASS"
                                           \/ rc = 1 /\ Bad(turn) /\ status = "FAIL"
StatusTells == In({"record"}, "record") => Outcome
LineTells == recorded # "" => pc \in {"exit", "ended"} /\ recorded = status /\ Outcome

StatusSoFar ==
  TriedInTurn /\ NothingYet /\ RcTells /\ RcAndStatus /\ StatusTells /\ LineTells

LEMMA ServerNames ==
  /\ Moto \in Servers /\ Smbd \in Servers
  /\ \A n \in 1..Fsals : Nfsd(n) \in Servers /\ Rpcbind(n) \in Servers
BY DEF Servers

\* A sequence without its last element.
LEMMA FrontFacts ==
  ASSUME NEW S, NEW q \in Seq(S), q # <<>>
  PROVE  /\ Front(q) \in Seq(S) /\ Len(Front(q)) = Len(q) - 1
         /\ \A k \in 1..(Len(q) - 1) : Front(q)[k] = q[k]
<1>1. Len(q) \in Nat \ {0}
  OBVIOUS
<1>2. 1 \in Int /\ Len(q) - 1 \in Int
  BY <1>1
<1>3. \A i \in 1..(Len(q) - 1) : q[i] \in S
  BY <1>1
<1>4. /\ SubSeq(q, 1, Len(q) - 1) \in Seq(S)
      /\ Len(SubSeq(q, 1, Len(q) - 1)) = IF 1 <= Len(q) - 1 THEN (Len(q) - 1) - 1 + 1 ELSE 0
      /\ \A i \in 1..((Len(q) - 1) - 1 + 1) : SubSeq(q, 1, Len(q) - 1)[i] = q[1 + i - 1]
  BY <1>2, <1>3, SubSeqProperties
<1>5. (Len(q) - 1) - 1 + 1 = Len(q) - 1 /\ \A i \in 1..(Len(q) - 1) : 1 + i - 1 = i
  BY <1>1
<1> QED
  BY <1>1, <1>4, <1>5 DEF Front

-----------------------------------------------------------------------------
ScriptTypes ==
  /\ pc \in {"contract", "start", "await", "report", "use", "umount", "kill", "launch",
             "enlist", "ready", "mount", "verify", "judge", "judged", "record", "exit", "ended"}
  /\ server \in {Moto, Smbd} /\ attempts \in 0..Attempts
  /\ known \subseteq Servers /\ pids \subseteq Servers
  /\ code \in {0, 1} /\ signals \in 0..MaxSignals
  /\ pc \in {"await", "ready"} => attempts < Attempts
LoopTypes ==
  /\ turn \in 1..Fsals /\ after \in {"launch", "judged", "record"} /\ rc \in {0, 1}
  /\ status \in {"FAIL", "PASS", "SKIP"} /\ recorded \in {"", "FAIL", "PASS", "SKIP"}
TriedTypes == tried \in [1..Fsals -> {"no", "late", "not mounted", "not permitted",
                                        "verified", "not verified"}]
GaneshaTypes == LoopTypes /\ TriedTypes
ProcTypes  == proc \in [Servers -> {"none", "booting", "serving", "stalled", "dying", "gone"}]
MountTypes == mounts \in Seq(Servers) /\ refused \in BOOLEAN

Types == ScriptTypes /\ GaneshaTypes /\ ProcTypes /\ MountTypes

LEMMA TypeParts == Types => TypeOK
BY DEF Types, TypeOK, ScriptTypes, GaneshaTypes, LoopTypes, TriedTypes, ProcTypes, MountTypes

LEMMA InitTypes == Init => Types
<1> SUFFICES ASSUME Init
             PROVE  Types
  OBVIOUS
<1>1. ScriptTypes
  <2>1. 0 \in 0..Attempts /\ 0 \in 0..MaxSignals
    BY AuditAssumption
  <2> QED
    BY <2>1, AuditAssumption DEF Init, ScriptTypes
<1>2. GaneshaTypes
  <2>1. 1 \in 1..Fsals
    BY AuditAssumption
  <2>2. tried \in [1..Fsals -> {"no", "late", "not mounted", "not permitted",
                               "verified", "not verified"}]
    BY DEF Init
  <2> QED
    BY <2>1, <2>2 DEF Init, GaneshaTypes, LoopTypes, TriedTypes
<1>3. ProcTypes /\ MountTypes
  BY EmptySeq DEF Init, ProcTypes, MountTypes
<1> QED
  BY <1>1, <1>2, <1>3 DEF Types

LEMMA KilledTypes == ASSUME ProcTypes, NEW ps, Kill(ps) PROVE ProcTypes'
BY DEF ProcTypes, Kill

LEMMA LaunchedTypes == ASSUME ProcTypes, NEW ps, Launch(ps) PROVE ProcTypes'
BY DEF ProcTypes, Launch

LEMMA SameGanesha == GaneshaTypes /\ UNCHANGED ganesha => GaneshaTypes'
BY DEF GaneshaTypes, LoopTypes, TriedTypes, ganesha

LEMMA NextTurnTypes ==
  ASSUME LoopTypes, NextTurn
  PROVE  turn' \in 1..Fsals /\ after' \in {"launch", "record"} /\ pc' = "umount"
<1>1. turn \in 1..Fsals
  BY DEF LoopTypes
<1>2. \A n \in 1..Fsals : n < Fsals => n + 1 \in 1..Fsals
  BY AuditAssumption
<1> QED
  BY <1>1, <1>2 DEF NextTurn, Stop

LEMMA ScriptTypesKept == ScriptTypes /\ LoopTypes /\ [Next]_vars => ScriptTypes'
<1> SUFFICES ASSUME ScriptTypes, LoopTypes, [Next]_vars
             PROVE  ScriptTypes'
  OBVIOUS
<1> USE AuditAssumption DEF ScriptTypes, shell
<1>1. CASE RunContract
  BY <1>1 DEF RunContract, Leave
<1>2. CASE StartServer
  BY <1>2 DEF StartServer
<1>3. CASE AwaitServer
  <2>1. attempts \in Nat /\ attempts + 1 \in 0..Attempts
    BY <1>3 DEF AwaitServer
  <2>2. CASE Answered
    BY <1>3, <2>2 DEF AwaitServer, Answered
  <2>3. CASE attempts' = attempts + 1 /\ pc' = "exit" /\ code' = 1
    BY <1>3, <2>1, <2>3 DEF AwaitServer
  <2>4. CASE attempts' = attempts + 1 /\ attempts' < Attempts /\ UNCHANGED <<pc, code>>
    BY <1>3, <2>1, <2>4 DEF AwaitServer
  <2> QED
    BY <1>3, <2>1, <2>2, <2>3, <2>4 DEF AwaitServer, Leave
<1>4. CASE ReportServer
  BY <1>4, ServerNames DEF ReportServer
<1>5. CASE UseServer
  BY <1>5 DEF UseServer
<1>6. CASE StopMount
  BY <1>6 DEF StopMount
<1>7. CASE StopRuntime
  BY <1>7 DEF StopRuntime, LoopTypes
<1>8. CASE StartGanesha
  <2>1. {Nfsd(turn), Rpcbind(turn)} \subseteq Servers
    BY ServerNames DEF LoopTypes
  <2> QED
    BY <1>8, <2>1 DEF StartGanesha
<1>9. CASE EnlistGanesha
  BY <1>9 DEF EnlistGanesha
<1>10. CASE AwaitGanesha
  <2>1. attempts \in Nat /\ attempts + 1 \in 0..Attempts /\ pc = "ready"
    BY <1>10 DEF AwaitGanesha
  <2>2. UNCHANGED <<server, known, pids, code, signals>>
    BY <1>10 DEF AwaitGanesha
  <2>3. CASE pc' = "mount" /\ UNCHANGED attempts
    BY <2>2, <2>3
  <2>4. CASE attempts' = attempts + 1 /\ attempts' < Attempts /\ UNCHANGED pc
    BY <2>1, <2>2, <2>4
  <2>5. CASE attempts' = attempts + 1 /\ pc' = "umount"
    BY <2>1, <2>2, <2>5
  <2> QED
    BY <1>10, <2>3, <2>4, <2>5, NextTurnTypes DEF AwaitGanesha
<1>11. CASE Mount
  BY <1>11 DEF Mount
<1>12. CASE Verify
  BY <1>12 DEF Verify
<1>13. CASE Judge
  BY <1>13 DEF Judge, Stop
<1>20. CASE GoOn
  <2>1. pc' = "umount"
    BY <1>20, NextTurnTypes DEF GoOn, Stop
  <2> QED
    BY <1>20, <2>1 DEF GoOn
<1>14. CASE RecordStatus
  BY <1>14 DEF RecordStatus, Leave
<1>15. CASE Cleanup
  BY <1>15 DEF Cleanup
<1>16. CASE Trap
  BY <1>16 DEF Trap
<1>17. CASE Interrupt
  BY <1>17 DEF Interrupt, Leave
<1>18. ASSUME NEW p \in Servers, Process(p)
       PROVE  ScriptTypes'
  BY <1>18 DEF Process, Boot, Stall, Die
<1>19. CASE UNCHANGED vars
  BY <1>19 DEF vars
<1> QED
  BY <1>1, <1>2, <1>3, <1>4, <1>5, <1>6, <1>7, <1>8, <1>9, <1>10, <1>11, <1>12, <1>13,
     <1>14, <1>15, <1>16, <1>17, <1>18, <1>19, <1>20 DEF Next, Script

\* The actions of the script that leave what run_ganesha_workflow holds alone, and
\* those of the others.
Elsewhere == \/ RunContract \/ StartServer \/ AwaitServer \/ ReportServer \/ UseServer
             \/ StopMount \/ StopRuntime \/ StartGanesha \/ EnlistGanesha \/ Cleanup
             \/ Trap \/ Interrupt \/ \E p \in Servers : Process(p)

LEMMA ElsewhereKeepsGanesha == Elsewhere \/ UNCHANGED vars => UNCHANGED ganesha
<1>1. RunContract \/ StartServer \/ AwaitServer \/ ReportServer \/ UseServer
      => UNCHANGED ganesha
  BY DEF RunContract, StartServer, AwaitServer, ReportServer, UseServer
<1>2. StopMount \/ StopRuntime \/ StartGanesha \/ EnlistGanesha => UNCHANGED ganesha
  BY DEF StopMount, StopRuntime, StartGanesha, EnlistGanesha
<1>3. Cleanup \/ Trap \/ Interrupt \/ UNCHANGED vars => UNCHANGED ganesha
  BY DEF Cleanup, Trap, Interrupt, vars
<1>4. (\E p \in Servers : Process(p)) => UNCHANGED ganesha
  BY DEF Process, Boot, Stall, Die
<1> QED
  BY <1>1, <1>2, <1>3, <1>4 DEF Elsewhere

LEMMA LoopTypesKept == LoopTypes /\ [Next]_vars => LoopTypes'
<1> SUFFICES ASSUME LoopTypes, [Next]_vars
             PROVE  LoopTypes'
  OBVIOUS
<1>1. CASE UNCHANGED ganesha
  BY <1>1 DEF LoopTypes, ganesha
<1>2. CASE AwaitGanesha /\ ~ UNCHANGED ganesha
  <2>1. status' = "FAIL" /\ NextTurn /\ UNCHANGED <<rc, recorded>>
    BY <1>2 DEF AwaitGanesha
  <2> QED
    BY <2>1, NextTurnTypes DEF LoopTypes
<1>3. CASE Mount
  BY <1>3 DEF Mount, LoopTypes
<1>4. CASE Verify
  BY <1>4 DEF Verify, LoopTypes
<1>5. CASE Judge
  BY <1>5 DEF Judge, Stop, LoopTypes
<1>7. CASE GoOn
  <2>1. turn' \in 1..Fsals /\ after' \in {"launch", "record"}
    BY <1>7, NextTurnTypes DEF GoOn, Stop, LoopTypes
  <2> QED
    BY <1>7, <2>1 DEF GoOn, LoopTypes
<1>6. CASE RecordStatus
  BY <1>6 DEF RecordStatus, LoopTypes
<1> QED
  BY <1>1, <1>2, <1>3, <1>4, <1>5, <1>6, <1>7, ElsewhereKeepsGanesha DEF Next, Script, Elsewhere

LEMMA TriedTypesKept == TriedTypes /\ [Next]_vars => TriedTypes'
<1> SUFFICES ASSUME TriedTypes, [Next]_vars
             PROVE  TriedTypes'
  OBVIOUS
<1>1. CASE UNCHANGED tried
  BY <1>1 DEF TriedTypes
<1>2. CASE \E what \in {"late", "not mounted", "not permitted", "verified", "not verified"} :
             Tried(what)
  BY <1>2 DEF Tried, TriedTypes
<1>3. UNCHANGED ganesha => UNCHANGED tried
  BY DEF ganesha
<1>4. AwaitGanesha /\ ~ UNCHANGED ganesha => Tried("late")
  BY DEF AwaitGanesha
<1>5. Mount => \/ UNCHANGED tried \/ Tried("not permitted") \/ Tried("not mounted")
  BY DEF Mount
<1>6. Verify => Tried("verified") \/ Tried("not verified")
  BY DEF Verify
<1>7. Judge \/ GoOn \/ RecordStatus => UNCHANGED tried
  BY DEF Judge, GoOn, RecordStatus
<1> QED
  BY <1>1, <1>2, <1>3, <1>4, <1>5, <1>6, <1>7, ElsewhereKeepsGanesha DEF Next, Script, Elsewhere

\* Which actions change the states of the servers.
LEMMA ProcChanges ==
  [Next]_vars => \/ StopRuntime \/ Cleanup \/ Trap \/ Interrupt
                 \/ StartServer \/ StartGanesha
                 \/ \E p \in Servers : Process(p)
                 \/ UNCHANGED proc
<1>1. RunContract \/ AwaitServer \/ ReportServer \/ UseServer \/ StopMount \/ EnlistGanesha
      => UNCHANGED proc
  BY DEF RunContract, AwaitServer, ReportServer, UseServer, StopMount, EnlistGanesha
<1>2. AwaitGanesha \/ Mount \/ Verify \/ Judge \/ GoOn \/ RecordStatus \/ UNCHANGED vars
      => UNCHANGED proc
  BY DEF AwaitGanesha, Mount, Verify, Judge, GoOn, RecordStatus, vars
<1> QED
  BY <1>1, <1>2 DEF Next, Script

LEMMA ProcTypesKept == ProcTypes /\ [Next]_vars => ProcTypes'
<1> SUFFICES ASSUME ProcTypes, [Next]_vars
             PROVE  ProcTypes'
  OBVIOUS
<1>1. CASE StopRuntime \/ Cleanup \/ Trap \/ Interrupt
  BY <1>1, KilledTypes DEF StopRuntime, Cleanup, Trap, Interrupt
<1>2. CASE StartServer \/ StartGanesha
  BY <1>2, LaunchedTypes DEF StartServer, StartGanesha
<1>3. ASSUME NEW p \in Servers, Process(p)
      PROVE  ProcTypes'
  BY <1>3 DEF Process, Boot, Stall, Die, ProcTypes
<1>4. CASE UNCHANGED proc
  BY <1>4 DEF ProcTypes
<1> QED
  BY <1>1, <1>2, <1>3, <1>4, ProcChanges

\* Two actions change the mounts.
LEMMA MountsChange ==
  [Next]_vars => \/ StopMount \/ Mount \/ UNCHANGED net
<1>1. RunContract \/ StartServer \/ AwaitServer \/ ReportServer \/ UseServer
      => UNCHANGED net
  BY DEF RunContract, StartServer, AwaitServer, ReportServer, UseServer
<1>2. StopRuntime \/ StartGanesha \/ EnlistGanesha \/ AwaitGanesha => UNCHANGED net
  BY DEF StopRuntime, StartGanesha, EnlistGanesha, AwaitGanesha
<1>3. Verify \/ Judge \/ GoOn \/ RecordStatus \/ Cleanup \/ Trap \/ Interrupt \/ UNCHANGED vars
      => UNCHANGED net
  BY DEF Verify, Judge, GoOn, RecordStatus, Cleanup, Trap, Interrupt, vars
<1>4. (\E p \in Servers : Process(p)) => UNCHANGED net
  BY DEF Process, Boot, Stall, Die
<1> QED
  BY <1>1, <1>2, <1>3, <1>4 DEF Next, Script

LEMMA MountTypesKept == MountTypes /\ LoopTypes /\ [Next]_vars => MountTypes'
<1> SUFFICES ASSUME MountTypes, LoopTypes, [Next]_vars
             PROVE  MountTypes'
  OBVIOUS
<1>1. CASE StopMount
  <2>1. mounts # <<>> => Front(mounts) \in Seq(Servers)
    BY FrontFacts DEF MountTypes
  <2> QED
    BY <1>1, <2>1 DEF StopMount, MountTypes
<1>2. CASE Mount
  <2>1. Nfsd(turn) \in Servers
    BY ServerNames DEF LoopTypes
  <2>2. Append(mounts, Nfsd(turn)) \in Seq(Servers)
    BY <2>1, AppendProperties DEF MountTypes
  <2> QED
    BY <1>2, <2>2 DEF Mount, MountTypes
<1>3. CASE UNCHANGED net
  BY <1>3 DEF MountTypes, net
<1> QED
  BY <1>1, <1>2, <1>3, MountsChange

LEMMA TypesKept == Types /\ [Next]_vars => Types'
BY ScriptTypesKept, LoopTypesKept, TriedTypesKept, ProcTypesKept, MountTypesKept
DEF Types, GaneshaTypes

\* The variables of the script and the states of the servers keep their types.
THEOREM TypeCorrect == Spec => []TypeOK
BY InitTypes, TypesKept, TypeParts, PTL DEF Spec

-----------------------------------------------------------------------------
\* What runs under its pid after a step.
LEMMA KilledHaveNoPid ==
  ASSUME NEW ps, Kill(ps), NEW p \in Servers, HasPid(p)'
  PROVE  HasPid(p) /\ p \notin ps
BY DEF Kill, HasPid, Running, Daemon

LEMMA OnlyLaunchedGetPid ==
  ASSUME NEW ps, Launch(ps), NEW p \in Servers, HasPid(p)'
  PROVE  HasPid(p) \/ p \in ps
BY DEF Launch, HasPid, Running, Daemon

LEMMA NoneComesBack ==
  ASSUME ProcTypes, NEW q \in Servers, Process(q), NEW p \in Servers, HasPid(p)'
  PROVE  HasPid(p)
BY DEF ProcTypes, Process, Boot, Stall, Die, HasPid, Running, Daemon

LEMMA SamePids == UNCHANGED proc => \A p \in Servers : HasPid(p)' = HasPid(p)
BY DEF HasPid, Running, Daemon

LEMMA InitTracked == Init => Tracked
BY DEF Init, Tracked, NoneOfGanesha, KnownWhileAtWork, KnownOnTheWayOut, NoneLeft,
       HasPid, Running, Daemon

LEMMA TrackedKept == Types /\ Tracked /\ [Next]_vars => Tracked'
<1> SUFFICES ASSUME ScriptTypes, LoopTypes, ProcTypes, Tracked, [Next]_vars
             PROVE  Tracked'
  BY DEF Types, GaneshaTypes
<1> USE DEF Tracked, NoneOfGanesha, KnownWhileAtWork, KnownOnTheWayOut, NoneLeft
<1>1. CASE RunContract
  BY <1>1, SamePids DEF RunContract, Leave
<1>2. CASE StartServer
  <2>1. \A p \in Servers : HasPid(p)' => HasPid(p) \/ p = server
    BY <1>2, OnlyLaunchedGetPid DEF StartServer
  <2> QED
    BY <1>2, <2>1 DEF StartServer, shell
<1>3. CASE AwaitServer
  BY <1>3, SamePids DEF AwaitServer, Answered, Leave
<1>4. CASE ReportServer
  BY <1>4, SamePids DEF ReportServer
<1>5. CASE UseServer
  BY <1>5, SamePids DEF UseServer
<1>6. CASE StopMount
  BY <1>6, SamePids DEF StopMount, shell
<1>7. CASE StopRuntime
  <2>1. \A p \in Servers : HasPid(p)' => HasPid(p) /\ p \notin pids
    BY <1>7, KilledHaveNoPid DEF StopRuntime
  <2> QED
    BY <1>7, <2>1 DEF StopRuntime, LoopTypes
<1>8. CASE StartGanesha
  <2>1. \A p \in Servers : HasPid(p)' => HasPid(p) \/ p \in {Nfsd(turn), Rpcbind(turn)}
    BY <1>8, OnlyLaunchedGetPid DEF StartGanesha
  <2> QED
    BY <1>8, <2>1 DEF StartGanesha
<1>9. CASE EnlistGanesha
  BY <1>9, SamePids DEF EnlistGanesha
<1>10. CASE AwaitGanesha
  <2>1. pc = "ready" /\ pc' \in {"ready", "mount", "umount"}
    BY <1>10, NextTurnTypes DEF AwaitGanesha
  <2> QED
    BY <1>10, <2>1, SamePids DEF AwaitGanesha, shell
<1>11. CASE Mount
  <2>1. pc = "mount" /\ pc' \in {"verify", "judge"} /\ UNCHANGED <<shell, proc>>
    BY <1>11 DEF Mount
  <2> QED
    BY <2>1, SamePids DEF shell
<1>12. CASE Verify
  BY <1>12, SamePids DEF Verify, shell
<1>13. CASE Judge
  BY <1>13, SamePids DEF Judge, Stop, shell
<1>14. CASE GoOn
  <2>1. pc = "judged" /\ pc' = "umount" /\ UNCHANGED <<shell, proc>>
    BY <1>14, NextTurnTypes DEF GoOn, Stop
  <2> QED
    BY <2>1, SamePids DEF shell
<1>15. CASE RecordStatus
  BY <1>15, SamePids DEF RecordStatus, Leave
<1>16. CASE Cleanup
  <2>1. \A p \in Servers : HasPid(p)' => HasPid(p) /\ p \notin known
    BY <1>16, KilledHaveNoPid DEF Cleanup
  <2> QED
    BY <1>16, <2>1 DEF Cleanup, shell
<1>17. CASE Trap
  <2>1. \A p \in Servers : HasPid(p)' => HasPid(p) /\ p \notin known
    BY <1>17, KilledHaveNoPid DEF Trap
  <2> QED
    BY <1>17, <2>1 DEF Trap
<1>18. CASE Interrupt
  <2>1. \A p \in Servers : HasPid(p)' => HasPid(p) /\ p \notin known
    BY <1>18, KilledHaveNoPid DEF Interrupt
  <2> QED
    BY <1>18, <2>1 DEF Interrupt, Leave
<1>19. ASSUME NEW q \in Servers, Process(q)
       PROVE  Tracked'
  <2>1. \A p \in Servers : HasPid(p)' => HasPid(p)
    BY <1>19, NoneComesBack
  <2>2. UNCHANGED <<pc, shell>>
    BY <1>19 DEF Process, Boot, Stall, Die
  <2> QED
    BY <2>1, <2>2 DEF shell
<1>20. CASE UNCHANGED vars
  BY <1>20, SamePids DEF vars, shell
<1> QED
  BY <1>1, <1>2, <1>3, <1>4, <1>5, <1>6, <1>7, <1>8, <1>9, <1>10, <1>11, <1>12, <1>13,
     <1>14, <1>15, <1>16, <1>17, <1>18, <1>19, <1>20 DEF Next, Script

\* When the script has ended, only rpcbinds may still run, as daemons, and the server
\* whose start failed.
THEOREM LeavesNoneBehind == Spec => []OnlyRpcbindLeft
<1>1. Tracked => OnlyRpcbindLeft
  BY DEF Tracked, NoneLeft, OnlyRpcbindLeft, HasPid
<1> QED
  BY <1>1, InitTypes, TypesKept, InitTracked, TrackedKept, PTL DEF Spec

-----------------------------------------------------------------------------
\* A server that is mounted is not launched again, so that it can but end.
LEMMA ServersOfMounts ==
  ASSUME ProcTypes, LoopTypes, MountTypes, MountsTracked, [Next]_vars,
         NEW k \in DOMAIN mounts
  PROVE  /\ mounts[k] \in Servers
         /\ proc'[mounts[k]] \in {"serving", "stalled", "dying", "gone"}
         /\ proc'[mounts[k]] \in {"serving", "stalled"} => Up(mounts[k])
<1> DEFINE p == mounts[k]
<1>1. /\ p \in Servers /\ p # Moto /\ p # Smbd
      /\ \A n \in 1..Fsals : p # Rpcbind(n)
      /\ proc[p] \in {"serving", "stalled", "dying", "gone"}
  <2>1. PICK n \in 1..turn : p = Nfsd(n)
    BY DEF MountsTracked, MountedWereUp
  <2>6. turn \in 1..Fsals
    BY DEF LoopTypes
  <2>2. n \in 1..Fsals
    BY <2>6, AuditAssumption
  <2>3. p \in Servers
    BY <2>1, <2>2, ServerNames
  <2>4. p[1] = "nfsd"
    BY <2>1 DEF Nfsd
  <2>5. Moto[1] = "moto" /\ Smbd[1] = "smbd" /\ \A i \in 1..Fsals : Rpcbind(i)[1] = "rpcbind"
    BY DEF Moto, Smbd, Rpcbind
  <2> QED
    BY <2>3, <2>4, <2>5 DEF MountsTracked, MountedWereUp
<1> HIDE DEF p
<1>2. ASSUME NEW ps, Kill(ps)
      PROVE  /\ proc'[p] \in {"serving", "stalled", "dying", "gone"}
             /\ proc'[p] \in {"serving", "stalled"} => Up(p)
  BY <1>1, <1>2 DEF Kill, Up
<1>3. ASSUME NEW ps, Launch(ps), p \notin ps
      PROVE  proc'[p] = proc[p]
  BY <1>1, <1>3 DEF Launch
<1>4. CASE StartServer
  <2>1. Launch({server}) /\ pc = "start"
    BY <1>4 DEF StartServer
  <2>2. mounts = <<>>
    BY <2>1 DEF MountsTracked, NextNotMounted
  <2> QED
    BY <2>2
<1>5. CASE StartGanesha
  <2>1. Launch({Nfsd(turn), Rpcbind(turn)}) /\ pc = "launch"
    BY <1>5 DEF StartGanesha
  <2>2. p # Nfsd(turn)
    BY <2>1 DEF MountsTracked, NextNotMounted, p
  <2>3. turn \in 1..Fsals
    BY DEF LoopTypes
  <2>4. p \notin {Nfsd(turn), Rpcbind(turn)}
    BY <1>1, <2>2, <2>3
  <2> QED
    BY <1>1, <1>3, <2>1, <2>4 DEF p, Up
<1>6. CASE StopRuntime \/ Cleanup \/ Trap \/ Interrupt
  BY <1>1, <1>2, <1>6 DEF StopRuntime, Cleanup, Trap, Interrupt, p, Up
<1>7. ASSUME NEW q \in Servers, Process(q)
      PROVE  /\ proc'[p] \in {"serving", "stalled", "dying", "gone"}
             /\ proc'[p] \in {"serving", "stalled"} => Up(p)
  BY <1>1, <1>7 DEF Process, Boot, Stall, Die, ProcTypes, Up
<1>8. CASE UNCHANGED proc
  BY <1>1, <1>8 DEF p, Up
<1> QED
  BY <1>1, <1>4, <1>5, <1>6, <1>7, <1>8, ProcChanges DEF p, Up

\* How the script moves on, as far as the mounts are concerned.
Moves ==
  /\ turn' = turn \/ turn' = turn + 1
  /\ pc' \in {"contract", "start", "await", "report", "use"}
       => pc \in {"contract", "start", "await", "report", "use"}
  /\ pc' = "launch" \/ (pc' \in {"umount", "kill"} /\ after' = "launch")
       => \/ pc = "launch" \/ (pc \in {"umount", "kill"} /\ after = "launch")
          \/ pc = "use" \/ turn' = turn + 1
  /\ pc \in {"verify", "judge"} => pc' \in {"verify", "judge", "umount"}
  /\ pc = "umount" => pc' = "umount" \/ StopMount
  /\ pc = "kill" => pc' = "kill" \/ StopRuntime
  /\ pc' \in {"enlist", "ready", "mount"}
       => StartGanesha \/ (pc \in {"enlist", "ready", "mount"} /\ UNCHANGED turn)

LEMMA MovesOfMounts == LoopTypes /\ [Next]_vars => Moves
<1> SUFFICES ASSUME LoopTypes, [Next]_vars
             PROVE  Moves
  OBVIOUS
<1>1. CASE RunContract \/ StartServer \/ AwaitServer \/ ReportServer \/ UseServer
  BY <1>1 DEF Moves, RunContract, StartServer, AwaitServer, ReportServer, UseServer, ganesha, Leave,
     Answered
<1>2. CASE StopMount \/ StopRuntime \/ StartGanesha \/ EnlistGanesha
  BY <1>2 DEF Moves, StopMount, StopRuntime, StartGanesha, EnlistGanesha, ganesha, LoopTypes
<1>3. CASE AwaitGanesha
  BY <1>3 DEF Moves, AwaitGanesha, NextTurn, Stop, ganesha
<1>4. CASE Mount \/ Verify \/ Judge
  BY <1>4 DEF Moves, Mount, Verify, Judge, Stop
<1>5. CASE GoOn
  BY <1>5 DEF Moves, GoOn, NextTurn, Stop
<1>6. CASE RecordStatus \/ Cleanup \/ Trap \/ Interrupt
  BY <1>6 DEF Moves, RecordStatus, Cleanup, Trap, Interrupt, Leave, ganesha
<1>7. CASE \E p \in Servers : Process(p)
  BY <1>7 DEF Moves, Process, Boot, Stall, Die, ganesha
<1>8. CASE UNCHANGED vars
  BY <1>8 DEF Moves, vars, ganesha
<1> QED
  BY <1>1, <1>2, <1>3, <1>4, <1>5, <1>6, <1>7, <1>8 DEF Next, Script

LEMMA PidsKept ==
  [Next]_vars => /\ UNCHANGED pids \/ StopRuntime \/ StartGanesha
                 /\ UNCHANGED refused \/ StopMount
<1>1. RunContract \/ StartServer \/ AwaitServer \/ ReportServer \/ UseServer
      => UNCHANGED <<pids, refused>>
  BY DEF RunContract, StartServer, AwaitServer, ReportServer, UseServer, shell, net
<1>2. /\ StopMount => UNCHANGED pids
      /\ StopRuntime \/ StartGanesha => UNCHANGED refused
      /\ EnlistGanesha \/ AwaitGanesha => UNCHANGED <<pids, refused>>
  BY DEF StopMount, StopRuntime, StartGanesha, EnlistGanesha, AwaitGanesha, shell, net
<1>3. Mount \/ Verify \/ Judge \/ GoOn => UNCHANGED <<pids, refused>>
  BY DEF Mount, Verify, Judge, GoOn, shell, net
<1>4. RecordStatus \/ Cleanup \/ Trap \/ Interrupt => UNCHANGED <<pids, refused>>
  BY DEF RecordStatus, Cleanup, Trap, Interrupt, shell, net
<1>5. (\E p \in Servers : Process(p)) \/ UNCHANGED vars => UNCHANGED <<pids, refused>>
  BY DEF Process, Boot, Stall, Die, vars, shell, net
<1> QED
  BY <1>1, <1>2, <1>3, <1>4, <1>5 DEF Next, Script

LEMMA OneInstanceEach == \A m, n : Nfsd(m) = Nfsd(n) => m = n
<1>1. \A n : Nfsd(n)[2] = n
  BY DEF Nfsd
<1> QED
  BY <1>1

LEMMA InitMountsTracked == Init => MountsTracked
<1>1. Init => pc = "contract" /\ mounts = <<>>
  BY DEF Init
<1> QED
  BY <1>1 DEF MountsTracked, MountedWereUp, NextNotMounted, PidAtHand, OnlyTopIsUp

LEMMA SameMountsTracked ==
  ASSUME ProcTypes, LoopTypes, MountTypes, MountsTracked, [Next]_vars, UNCHANGED mounts
  PROVE  MountsTracked'
<1>1. turn \in Nat /\ turn + 1 \in Nat
  <2>1. turn \in 1..Fsals
    BY DEF LoopTypes
  <2> QED
    BY <2>1, AuditAssumption
<1>2. ASSUME NEW k \in DOMAIN mounts
      PROVE  \E n \in 1..turn : mounts[k] = Nfsd(n)
  BY <1>2 DEF MountsTracked, MountedWereUp
<1>3. turn' \in Nat /\ turn' >= turn
  BY <1>1, MovesOfMounts DEF Moves
<1>4. MountedWereUp'
  <2>1. ASSUME NEW k \in DOMAIN mounts
        PROVE  \E n \in 1..turn' : mounts[k] = Nfsd(n)
    BY <1>1, <1>2, <1>3
  <2>2. ASSUME NEW k \in DOMAIN mounts
        PROVE  proc'[mounts[k]] \in {"serving", "stalled", "dying", "gone"}
    BY ServersOfMounts
  <2> QED
    BY <2>1, <2>2 DEF MountedWereUp
<1>5. NextNotMounted'
  <2>1. ASSUME turn' = turn + 1, NEW k \in DOMAIN mounts
        PROVE  mounts[k] # Nfsd(turn')
    BY <1>1, <1>2, <2>1, OneInstanceEach
  <2> QED
    BY <2>1, MovesOfMounts DEF Moves, MountsTracked, NextNotMounted
<1>6. PidAtHand'
  <2>1. CASE StartGanesha
    BY <2>1 DEF StartGanesha, PidAtHand, ganesha
  <2>2. CASE StopRuntime
    BY <2>2 DEF StopRuntime, PidAtHand, LoopTypes
  <2> QED
    BY <2>1, <2>2, MovesOfMounts, PidsKept DEF Moves, MountsTracked, PidAtHand
<1>7. OnlyTopIsUp'
  <2> SUFFICES ASSUME NEW k \in DOMAIN mounts, Up(mounts[k])'
               PROVE  /\ k = Len(mounts) /\ mounts[k] \in pids'
                      /\ \/ pc' \in {"verify", "judge", "umount"}
                         \/ pc' = "kill" /\ refused'
    BY DEF OnlyTopIsUp, Up
  <2>1. Up(mounts[k]) /\ mounts[k] \in Servers
    BY ServersOfMounts DEF Up
  <2>2. /\ k = Len(mounts) /\ mounts[k] \in pids
        /\ pc \in {"verify", "judge", "umount"} \/ (pc = "kill" /\ refused)
    BY <2>1 DEF MountsTracked, OnlyTopIsUp
  <2>3. CASE StopMount
    <3>1. mounts # <<>> /\ Last(mounts) = mounts[k]
      BY <2>2 DEF Last
    <3>2. mounts # Front(mounts)
      BY <3>1, FrontFacts DEF MountTypes
    <3>3. pc' = "kill" /\ refused' /\ UNCHANGED pids
      BY <2>3, <3>1, <3>2 DEF StopMount, shell
    <3> QED
      BY <2>2, <3>3
  <2>4. ~ StopRuntime
    <3>1. HasPid(mounts[k])
      <4>1. PICK n \in 1..turn : mounts[k] = Nfsd(n)
        BY <1>2
      <4>2. mounts[k][1] # "rpcbind"
        BY <4>1 DEF Nfsd
      <4> QED
        BY <2>1, <4>2 DEF HasPid, Daemon, Running, Up
    <3>2. Kill(pids) => proc'[mounts[k]] = "dying"
      BY <2>1, <2>2, <3>1 DEF Kill
    <3> QED
      BY <3>2 DEF StopRuntime, Up
  <2>5. ~ StartGanesha
    BY <2>2 DEF StartGanesha
  <2>6. UNCHANGED pids /\ (UNCHANGED refused \/ StopMount)
    BY <2>4, <2>5, PidsKept
  <2> QED
    BY <2>2, <2>3, <2>4, <2>6, MovesOfMounts DEF Moves
<1> QED
  BY <1>4, <1>5, <1>6, <1>7 DEF MountsTracked

LEMMA MountsTrackedKept == Types /\ MountsTracked /\ [Next]_vars => MountsTracked'
<1> SUFFICES ASSUME ProcTypes, LoopTypes, MountTypes, MountsTracked, [Next]_vars
             PROVE  MountsTracked'
  BY DEF Types, GaneshaTypes
<1> USE DEF MountsTracked, MountedWereUp, NextNotMounted, PidAtHand, OnlyTopIsUp
<1>1. CASE UNCHANGED mounts
  BY <1>1, SameMountsTracked
<1>2. CASE StopMount /\ mounts # <<>> /\ mounts' = Front(mounts)
  <2>1. /\ Len(mounts') = Len(mounts) - 1 /\ Len(mounts) \in Nat
        /\ DOMAIN mounts = 1..Len(mounts) /\ DOMAIN mounts' = 1..(Len(mounts) - 1)
        /\ \A k \in 1..(Len(mounts) - 1) : mounts'[k] = mounts[k]
    BY <1>2, FrontFacts DEF MountTypes
  <2>2. pc' = "kill" /\ UNCHANGED <<proc, turn, after, pids>>
    BY <1>2 DEF StopMount, ganesha, shell
  <2>3. \A k \in DOMAIN mounts' :
          k \in DOMAIN mounts /\ k # Len(mounts) /\ mounts'[k] = mounts[k]
    BY <2>1
  <2>4. MountedWereUp' /\ OnlyTopIsUp'
    BY <2>2, <2>3 DEF Up
  <2>5. NextNotMounted' /\ PidAtHand'
    BY <1>2, <2>2, <2>3 DEF StopMount
  <2> QED
    BY <2>4, <2>5
<1>3. CASE Mount /\ mounts' = Append(mounts, Nfsd(turn))
  <2>1. /\ Len(mounts') = Len(mounts) + 1 /\ Len(mounts) \in Nat
        /\ DOMAIN mounts = 1..Len(mounts) /\ DOMAIN mounts' = 1..(Len(mounts) + 1)
        /\ \A k \in 1..Len(mounts) : mounts'[k] = mounts[k]
        /\ mounts'[Len(mounts) + 1] = Nfsd(turn)
    <3>1. turn \in 1..Fsals
      BY DEF LoopTypes
    <3> QED
      BY <1>3, <3>1, ServerNames, AppendProperties DEF MountTypes
  <2>2. pc = "mount" /\ UNCHANGED <<proc, turn, pids>>
    BY <1>3 DEF Mount, shell
  <2>3. pc' = "verify" /\ proc[Nfsd(turn)] \in {"serving", "dying"}
    <3>1. mounts' # mounts
      BY <2>1
    <3> QED
      BY <1>3, <3>1 DEF Mount, net
  <2>4. \A k \in DOMAIN mounts' :
          \/ k \in DOMAIN mounts /\ mounts'[k] = mounts[k]
          \/ k = Len(mounts') /\ mounts'[k] = Nfsd(turn)
    BY <2>1
  <2>5. turn \in 1..turn
    <3>1. turn \in 1..Fsals
      BY DEF LoopTypes
    <3> QED
      BY <3>1, AuditAssumption
  <2>6. MountedWereUp'
    BY <2>2, <2>3, <2>4, <2>5
  <2>7. NextNotMounted' /\ PidAtHand'
    BY <2>2, <2>3, <2>4
  <2>8. OnlyTopIsUp'
    <3>1. \A k \in DOMAIN mounts : ~ Up(mounts[k])
      BY <2>2
    <3>2. Nfsd(turn) \in pids
      BY <2>2
    <3> QED
      BY <2>2, <2>3, <2>4, <3>1, <3>2 DEF Up
  <2> QED
    BY <2>6, <2>7, <2>8
<1>4. Mount => UNCHANGED mounts \/ mounts' = Append(mounts, Nfsd(turn))
  BY DEF Mount, net
<1>5. StopMount => UNCHANGED mounts \/ (mounts # <<>> /\ mounts' = Front(mounts))
  BY DEF StopMount
<1>6. UNCHANGED net => UNCHANGED mounts
  BY DEF net
<1> QED
  BY <1>1, <1>2, <1>3, <1>4, <1>5, <1>6, MountsChange

\* Without a signal, and unless its umount failed, no server is told to stop while it
\* is mounted.
NoneTakenAway ==
  \A p \in Servers :
    proc[p] \in {"serving", "stalled"} /\ proc'[p] = "dying" /\ signals' = signals
      => refused \/ \A k \in DOMAIN mounts : mounts[k] # p

LEMMA StepTakesNoneAway == Types /\ MountsTracked /\ [Next]_vars => NoneTakenAway
<1> SUFFICES ASSUME Types, MountsTracked, [Next]_vars, NEW p \in Servers,
                    Up(p), proc'[p] = "dying", signals' = signals, ~ refused,
                    NEW k \in DOMAIN mounts, mounts[k] = p
             PROVE  FALSE
  BY DEF NoneTakenAway, Up
<1>1. pc \in {"verify", "judge", "umount"}
  BY DEF MountsTracked, OnlyTopIsUp
<1>2. ~ Trap /\ ~ Interrupt
  <2>1. signals \in 0..MaxSignals
    BY DEF Types, ScriptTypes
  <2>2. signals + 1 # signals
    BY <2>1, AuditAssumption
  <2> QED
    BY <2>2 DEF Trap, Interrupt
<1>3. ~ StopRuntime /\ ~ Cleanup /\ ~ StartServer /\ ~ StartGanesha
  BY <1>1 DEF StopRuntime, Cleanup, StartServer, StartGanesha
<1>4. ASSUME NEW q \in Servers, Process(q)
      PROVE  FALSE
  BY <1>4 DEF Process, Boot, Stall, Die, Types, ProcTypes, Up
<1>5. ~ UNCHANGED proc
  BY DEF Up
<1> QED
  BY <1>2, <1>3, <1>4, <1>5, ProcChanges

\* stop_ganesha unmounts before it kills: only a mount that would not go loses a server
\* that was up to it.
THEOREM UnmountsBeforeItKills == Spec => UnmountsFirst
<1>1. Types /\ MountsTracked /\ [Next]_vars => [NoneTakenAway]_vars
  BY StepTakesNoneAway
<1>2. UnmountsFirst <=> [][NoneTakenAway]_vars
  BY DEF UnmountsFirst, NoneTakenAway
<1> QED
  BY <1>1, <1>2, InitTypes, TypesKept, InitMountsTracked, MountsTrackedKept, PTL DEF Spec

-----------------------------------------------------------------------------
LEMMA TurnIsNatural == LoopTypes => turn \in 1..Fsals /\ turn \in Nat /\ Fsals \in Nat
<1>1. LoopTypes => turn \in 1..Fsals
  BY DEF LoopTypes
<1> QED
  BY <1>1, AuditAssumption

LEMMA TurnsInOrder ==
  ASSUME NEW t \in 1..Fsals, NEW n \in 1..Fsals
  PROVE  /\ t < Fsals \/ t = Fsals
         /\ t < Fsals => t + 1 \in 1..Fsals /\ t + 1 > t /\ t + 1 # t
         /\ n < t + 1 => n < t \/ n = t
         /\ n > t + 1 => n > t /\ n # t
         /\ n < t \/ n > t => n # t
BY AuditAssumption

\* What is noted down for an FSAL leaves the others alone.
LEMMA TriedOne ==
  ASSUME TriedTypes, LoopTypes, NEW what, Tried(what)
  PROVE  tried'[turn] = what /\ \A n \in 1..Fsals : n # turn => tried'[n] = tried[n]
BY TurnIsNatural DEF TriedTypes, Tried

\* The loop goes on after a failure with nothing tried, or is over.
LEMMA NextTurnTells ==
  ASSUME TriedTypes, LoopTypes, TriedInTurn, NextTurn, recorded = "", UNCHANGED recorded,
         \/ UNCHANGED tried /\ Bad(turn)
         \/ Tried("late"),
         status' = "FAIL"
  PROVE  StatusSoFar'
<1>1. turn \in 1..Fsals /\ turn \in Nat /\ Fsals \in Nat
  BY TurnIsNatural
<1>2. /\ tried'[turn] \in Failed
      /\ \A n \in 1..Fsals : n # turn => tried'[n] = tried[n]
  BY TriedOne DEF Bad, Failed
<1>3. CASE turn < Fsals /\ turn' = turn + 1 /\ Stop("launch")
  <2>1. TriedInTurn'
    <3>1. \A n \in 1..Fsals :
            /\ n < turn + 1 => n < turn \/ n = turn
            /\ n > turn + 1 => n > turn /\ n # turn
      BY <1>1, TurnsInOrder
    <3>2. ASSUME NEW n \in 1..Fsals, n < turn + 1
          PROVE  tried'[n] \in Failed
      <4>1. CASE n = turn
        BY <1>2, <4>1
      <4>2. CASE n # turn
        <5>1. n < turn /\ tried'[n] = tried[n]
          BY <1>2, <3>1, <3>2, <4>2
        <5>2. Bad(n)
          BY <5>1 DEF TriedInTurn
        <5> QED
          BY <5>1, <5>2 DEF Bad
      <4> QED
        BY <4>1, <4>2
    <3>3. ASSUME NEW n \in 1..Fsals, n > turn + 1
          PROVE  tried'[n] = "no"
      <4>1. n > turn /\ tried'[n] = tried[n]
        BY <1>2, <3>1, <3>3
      <4> QED
        BY <4>1 DEF TriedInTurn
    <3> QED
      BY <1>3, <3>2, <3>3 DEF TriedInTurn, Bad
  <2>2. tried'[turn'] = "no"
    <3>1. turn + 1 \in 1..Fsals /\ turn + 1 > turn /\ turn + 1 # turn
      BY <1>1, <1>3, TurnsInOrder
    <3> QED
      BY <1>2, <1>3, <3>1 DEF TriedInTurn
  <2>3. pc' = "umount" /\ after' = "launch"
    BY <1>3 DEF Stop
  <2>4. NothingYet' /\ RcTells' /\ RcAndStatus' /\ StatusTells' /\ LineTells'
    BY <2>2, <2>3 DEF NothingYet, RcTells, RcAndStatus, StatusTells, LineTells, In, Before
  <2> QED
    BY <2>1, <2>4 DEF StatusSoFar
<1>4. CASE turn = Fsals /\ turn' = turn /\ Stop("record")
  <2>1. TriedInTurn'
    <3>1. \A n \in 1..Fsals : n < turn \/ n > turn => n # turn
      BY <1>1, TurnsInOrder
    <3>2. \A n \in 1..Fsals : n # turn => tried'[n] = tried[n]
      BY <1>2
    <3> QED
      BY <1>4, <3>1, <3>2 DEF TriedInTurn, Bad
  <2>2. Outcome'
    BY <1>2, <1>4 DEF Outcome, Bad
  <2>3. pc' = "umount" /\ after' = "record"
    BY <1>4 DEF Stop
  <2>4. NothingYet' /\ RcTells' /\ RcAndStatus' /\ StatusTells' /\ LineTells'
    BY <2>2, <2>3 DEF NothingYet, RcTells, RcAndStatus, StatusTells, LineTells, In, Before
  <2> QED
    BY <2>1, <2>4 DEF StatusSoFar
<1>5. turn < Fsals \/ turn = Fsals
  BY <1>1, TurnsInOrder
<1> QED
  BY <1>3, <1>4, <1>5 DEF NextTurn

LEMMA InitStatus == Init => StatusSoFar
<1> SUFFICES ASSUME Init
             PROVE  StatusSoFar
  OBVIOUS
<1>1. pc = "contract" /\ turn = 1 /\ status = "FAIL" /\ recorded = "" /\ after = "launch"
  BY DEF Init
<1>2. \A n \in 1..Fsals : tried[n] = "no"
  BY DEF Init
<1>3. 1 \in 1..Fsals /\ \A n \in 1..Fsals : ~ (n < 1)
  BY AuditAssumption
<1>4. TriedInTurn
  BY <1>1, <1>2, <1>3 DEF TriedInTurn
<1>5. tried[turn] = "no"
  BY <1>1, <1>2, <1>3
<1>6. NothingYet /\ RcTells /\ LineTells
  BY <1>1, <1>5 DEF NothingYet, RcTells, LineTells
<1>7. RcAndStatus /\ StatusTells
  BY <1>1 DEF RcAndStatus, StatusTells, In
<1> QED
  BY <1>4, <1>6, <1>7 DEF StatusSoFar

LEMMA StatusKept == Types /\ StatusSoFar /\ [Next]_vars => StatusSoFar'
<1> SUFFICES ASSUME LoopTypes, TriedTypes, StatusSoFar, [Next]_vars
             PROVE  StatusSoFar'
  BY DEF Types, GaneshaTypes
<1> DEFINE Parts == NothingYet /\ RcTells /\ RcAndStatus /\ StatusTells /\ LineTells
<1>1. Parts /\ TriedInTurn
  BY DEF StatusSoFar
<1>2. ASSUME UNCHANGED <<turn, tried>>, Parts'
      PROVE  StatusSoFar'
  BY <1>1, <1>2 DEF StatusSoFar, TriedInTurn, Bad
<1>3. ASSUME NEW what, Tried(what), UNCHANGED turn, Parts'
      PROVE  StatusSoFar'
  <2>1. TriedInTurn'
    BY <1>1, <1>3, TriedOne, TurnIsNatural DEF TriedInTurn, Bad
  <2> QED
    BY <1>3, <2>1 DEF StatusSoFar
<1>4. CASE UNCHANGED ganesha /\ UNCHANGED pc
  <2>1. UNCHANGED <<turn, after, rc, status, recorded, tried>>
    BY <1>4 DEF ganesha
  <2>2. Parts'
    BY <1>1, <1>4, <2>1 DEF NothingYet, RcTells, RcAndStatus, StatusTells, LineTells, In,
       Before, Outcome, Good, Bad
  <2> QED
    BY <1>2, <2>1, <2>2
<1>5. CASE /\ UNCHANGED ganesha
           /\ RunContract \/ StartServer \/ AwaitServer \/ ReportServer \/ UseServer
  <2>1. UNCHANGED <<turn, after, rc, status, recorded, tried>>
    BY <1>5 DEF ganesha
  <2>2. Parts'
    BY <1>1, <1>5, <2>1 DEF NothingYet, RcTells, RcAndStatus, StatusTells, LineTells, In,
       Before, Outcome, Good, Bad, RunContract, StartServer, AwaitServer, ReportServer,
       UseServer, Leave, Answered
  <2> QED
    BY <1>2, <2>1, <2>2
<1>6. CASE /\ UNCHANGED ganesha
           /\ StopMount \/ StopRuntime \/ StartGanesha \/ EnlistGanesha
  <2>1. UNCHANGED <<turn, after, rc, status, recorded, tried>>
    BY <1>6 DEF ganesha
  <2>2. Parts'
    BY <1>1, <1>6, <2>1 DEF NothingYet, RcTells, RcAndStatus, StatusTells, LineTells, In,
       Before, Outcome, Good, Bad, StopMount, StopRuntime, StartGanesha, EnlistGanesha, LoopTypes
  <2> QED
    BY <1>2, <2>1, <2>2
<1>7. CASE UNCHANGED ganesha /\ (Cleanup \/ Interrupt)
  <2>1. UNCHANGED <<turn, after, rc, status, recorded, tried>>
    BY <1>7 DEF ganesha
  <2>2. Parts'
    BY <1>1, <1>7, <2>1 DEF NothingYet, RcTells, RcAndStatus, StatusTells, LineTells, In,
       Before, Outcome, Good, Bad, Cleanup, Interrupt, Leave
  <2> QED
    BY <1>2, <2>1, <2>2
<1>8. CASE AwaitGanesha
  <2>1. CASE UNCHANGED ganesha /\ pc = "ready" /\ pc' \in {"ready", "mount"}
    <3>1. UNCHANGED <<turn, after, rc, status, recorded, tried>>
      BY <2>1 DEF ganesha
    <3>2. Parts'
      BY <1>1, <2>1, <3>1 DEF NothingYet, RcTells, RcAndStatus, StatusTells, LineTells, In,
         Before, Outcome, Good, Bad
    <3> QED
      BY <1>2, <3>1, <3>2
  <2>2. CASE /\ status' = "FAIL" /\ Tried("late") /\ NextTurn /\ UNCHANGED <<rc, recorded>>
             /\ pc = "ready"
    <3>1. recorded = ""
      BY <1>1, <2>2 DEF LineTells
    <3> QED
      BY <1>1, <2>2, <3>1, NextTurnTells
  <2> QED
    BY <1>8, <2>1, <2>2 DEF AwaitGanesha
<1>9. CASE Mount
  <2>1. tried[turn] = "no" /\ status = "FAIL" /\ after = "launch" /\ recorded = ""
    BY <1>1, <1>9 DEF NothingYet, LineTells, Before, In, Mount
  <2>2. UNCHANGED <<turn, after, recorded>>
    BY <1>9 DEF Mount
  <2>3. CASE pc' = "verify" /\ UNCHANGED <<rc, status, tried>>
    BY <1>2, <2>1, <2>2, <2>3 DEF NothingYet, RcTells, RcAndStatus, StatusTells, LineTells, In
  <2>4. CASE status' = "SKIP" /\ rc' = 0 /\ Tried("not permitted") /\ pc' = "judge"
    <3>1. tried'[turn] = "not permitted"
      BY <2>4, TriedOne
    <3>2. Parts'
      BY <2>1, <2>2, <2>4, <3>1 DEF NothingYet, RcTells, RcAndStatus, StatusTells, LineTells,
         In, Before, Good
    <3> QED
      BY <1>3, <2>2, <2>4, <3>2
  <2>5. CASE rc' = 1 /\ Tried("not mounted") /\ pc' = "judge" /\ UNCHANGED status
    <3>1. tried'[turn] = "not mounted"
      BY <2>5, TriedOne
    <3>2. Parts'
      BY <2>1, <2>2, <2>5, <3>1 DEF NothingYet, RcTells, RcAndStatus, StatusTells, LineTells,
         In, Before, Bad, Failed
    <3> QED
      BY <1>3, <2>2, <2>5, <3>2
  <2> QED
    BY <1>9, <2>3, <2>4, <2>5 DEF Mount
<1>10. CASE Verify
  <2>1. status = "FAIL" /\ after = "launch" /\ recorded = ""
    BY <1>1, <1>10 DEF NothingYet, LineTells, Before, In, Verify
  <2>2. UNCHANGED <<turn, after, recorded>> /\ pc' = "judge"
    BY <1>10 DEF Verify
  <2>3. CASE rc' = 0 /\ Tried("verified")
    <3>1. tried'[turn] = "verified"
      BY <2>3, TriedOne
    <3>2. Parts'
      BY <2>1, <2>2, <2>3, <3>1 DEF NothingYet, RcTells, RcAndStatus, StatusTells, LineTells,
         In, Before, Good
    <3> QED
      BY <1>3, <2>2, <2>3, <3>2
  <2>4. CASE rc' = 1 /\ Tried("not verified") /\ status' = "FAIL"
    <3>1. tried'[turn] = "not verified"
      BY <2>4, TriedOne
    <3>2. Parts'
      BY <2>1, <2>2, <2>4, <3>1 DEF NothingYet, RcTells, RcAndStatus, StatusTells, LineTells,
         In, Before, Bad, Failed
    <3> QED
      BY <1>3, <2>2, <2>4, <3>2
  <2> QED
    BY <1>10, <2>3, <2>4 DEF Verify
<1>11. CASE Judge
  <2>1. /\ UNCHANGED <<turn, rc, recorded, tried>> /\ pc' = "umount" /\ after' = "judged"
        /\ pc = "judge" /\ status' = IF rc = 0 THEN "PASS" ELSE status
    BY <1>11 DEF Judge, Stop
  <2>2. recorded' = ""
    BY <1>1, <2>1 DEF LineTells
  <2>3. \/ rc' = 0 /\ Good(turn)' /\ status' = "PASS"
        \/ rc' = 1 /\ Bad(turn)' /\ status' = "FAIL"
    <3>1. \/ rc = 0 /\ Good(turn)
          \/ rc = 1 /\ Bad(turn) /\ status = "FAIL"
      BY <1>1, <2>1 DEF RcTells
    <3>2. Good(turn)' = Good(turn) /\ Bad(turn)' = Bad(turn)
      BY <2>1 DEF Good, Bad
    <3>3. (rc = 0 => status' = "PASS") /\ (rc = 1 => status' = status)
      BY <2>1
    <3> QED
      BY <2>1, <3>1, <3>2, <3>3
  <2>4. RcAndStatus' /\ LineTells'
    BY <2>2, <2>3 DEF RcAndStatus, LineTells
  <2>5. NothingYet' /\ RcTells' /\ StatusTells'
    BY <2>1 DEF NothingYet, RcTells, StatusTells, In, Before
  <2> QED
    BY <1>2, <2>1, <2>4, <2>5
<1>12. CASE GoOn
  <2>1. UNCHANGED <<rc, status, recorded, tried>> /\ pc = "judged" /\ recorded = ""
    BY <1>1, <1>12 DEF LineTells, GoOn
  <2>2. \/ rc = 0 /\ Good(turn) /\ status = "PASS"
        \/ rc = 1 /\ Bad(turn) /\ status = "FAIL"
    BY <1>1, <2>1 DEF RcAndStatus, In
  <2>3. CASE rc = 0 /\ Good(turn) /\ status = "PASS"
    <3>1. UNCHANGED turn /\ pc' = "umount" /\ after' = "record"
      BY <1>12, <2>3 DEF GoOn, Stop
    <3>2. Outcome'
      BY <2>1, <2>3, <3>1 DEF Outcome, Good
    <3>3. StatusTells' /\ LineTells'
      BY <2>1, <3>2 DEF StatusTells, LineTells
    <3>4. NothingYet' /\ RcTells' /\ RcAndStatus'
      BY <3>1 DEF NothingYet, RcTells, RcAndStatus, In, Before
    <3> QED
      BY <1>2, <2>1, <3>1, <3>3, <3>4
  <2>4. CASE rc = 1 /\ Bad(turn) /\ status = "FAIL"
    <3>1. NextTurn
      BY <1>12, <2>4 DEF GoOn
    <3>2. UNCHANGED tried /\ UNCHANGED recorded /\ status' = "FAIL"
      BY <2>1, <2>4
    <3> QED
      BY <1>1, <2>1, <2>4, <3>1, <3>2, NextTurnTells
  <2> QED
    BY <2>2, <2>3, <2>4
<1>13. CASE RecordStatus
  <2>1. UNCHANGED <<turn, after, status, tried>> /\ pc' = "exit" /\ recorded' = status
    BY <1>13 DEF RecordStatus, Leave
  <2>2. Outcome
    BY <1>1, <1>13 DEF StatusTells, In, RecordStatus
  <2>3. Parts'
    BY <2>1, <2>2 DEF NothingYet, RcTells, RcAndStatus, StatusTells, LineTells, In, Before,
       Outcome, Good, Bad
  <2> QED
    BY <1>2, <2>1, <2>3
<1>14. CASE Trap
  BY <1>4, <1>14 DEF Trap
<1>15. ASSUME NEW p \in Servers, Process(p)
       PROVE  StatusSoFar'
  BY <1>4, <1>15 DEF Process, Boot, Stall, Die
<1>16. CASE UNCHANGED vars
  BY <1>4, <1>16 DEF vars
<1> QED
  BY <1>5, <1>6, <1>7, <1>8, <1>9, <1>10, <1>11, <1>12, <1>13, <1>14, <1>15, <1>16,
     ElsewhereKeepsGanesha DEF Next, Script, Elsewhere

LEMMA StatusMeaning == LoopTypes /\ StatusSoFar => StatusTellsOutcome
<1> SUFFICES ASSUME LoopTypes, StatusSoFar, recorded # ""
             PROVE  /\ recorded = "FAIL" <=> \A n \in 1..Fsals : Bad(n)
                    /\ recorded = "PASS" /\ (\A n \in 1..Fsals : tried[n] # "not permitted")
                         => \E n \in 1..Fsals : tried[n] = "verified"
  BY DEF StatusTellsOutcome, Bad
<1>1. recorded = status /\ Outcome
  BY DEF StatusSoFar, LineTells
<1>2. turn \in 1..Fsals
  BY TurnIsNatural
<1>3. CASE status = "PASS" /\ Good(turn)
  <2>1. ~ Bad(turn)
    BY <1>3 DEF Good, Bad, Failed
  <2> QED
    BY <1>1, <1>2, <1>3, <2>1 DEF Good
<1>4. CASE status = "FAIL" /\ Bad(turn) /\ turn = Fsals
  <2>1. \A n \in 1..Fsals : n < turn \/ n = turn
    BY <1>2, <1>4, TurnsInOrder
  <2>2. \A n \in 1..Fsals : Bad(n)
    BY <1>4, <2>1 DEF StatusSoFar, TriedInTurn
  <2> QED
    BY <1>1, <1>4, <2>2
<1> QED
  BY <1>1, <1>3, <1>4 DEF Outcome

\* FAIL is written just when every FSAL failed, and a PASS without an FSAL verified
\* comes of a mount that was not permitted, and of nothing else.
THEOREM StatusIsTrue == Spec => []StatusTellsOutcome
<1>1. Types => LoopTypes
  BY DEF Types, GaneshaTypes
<1> QED
  BY <1>1, InitTypes, TypesKept, InitStatus, StatusKept, StatusMeaning, PTL DEF Spec
=============================================================================
