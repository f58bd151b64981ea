--------------------------- MODULE SupervisorProofs ---------------------------
(***************************************************************************)
(* Proofs about Supervisor, for every set of names, task slots and mpv     *)
(* processes.                                                              *)
(***************************************************************************)
EXTENDS Supervisor, TLAPS

(***************************************************************************)
(* How the control operators move the tasks: every other busy task keeps   *)
(* its call and its target, an idle slot may get an observer or a recovery.*)
(***************************************************************************)
OthersKept(t) ==
  \A u \in Task \ {t} :
    \/ pc'[u] = pc[u] /\ tgt'[u] = tgt[u]
    \/ pc[u] = "idle" /\ pc'[u] \in {"connect", "recovery"}

LEMMA Dispatched ==
  ASSUME TasksOK, NEW t \in Task, pc[t] \notin {"idle", "boot"}
  PROVE  tgt[t] \in Name /\ tgt[t] # NoName
  BY DEF TasksOK

\* A task that goes on at l keeps its target.
LEMMA GotoMoves ==
  ASSUME TasksOK, NEW t \in Task, NEW l \in Label, tgt[t] # NoName, Goto(t, l),
         mutations' \in Task \cup {NoTask}
  PROVE  TasksOK' /\ OthersKept(t) /\ pc'[t] = l /\ tgt'[t] = tgt[t]
  BY DEF TasksOK, Goto, OthersKept

LEMMA BecomeMoves ==
  ASSUME TasksOK, NEW t \in Task, NEW l \in Label, NEW o \in TaskOp,
         tgt[t] # NoName, Become(t, l, o), mutations' \in Task \cup {NoTask}
  PROVE  TasksOK' /\ OthersKept(t) /\ pc'[t] = l /\ tgt'[t] = tgt[t]
  BY DEF TasksOK, Become, OthersKept

LEMMA FinishMoves ==
  ASSUME TasksOK, NEW t \in Task, Finish(t), mutations' \in Task \cup {NoTask}
  PROVE  TasksOK' /\ OthersKept(t) /\ pc'[t] = "idle"
  <1>1. "idle" \in Label /\ "none" \in TaskOp
    BY DEF Label, TaskOp
  <1>2. QED
    BY <1>1 DEF TasksOK, Finish, OthersKept

LEMMA NextBootMoves ==
  ASSUME TasksOK, NEW t \in Task, NextBoot(t), mutations' \in Task \cup {NoTask}
  PROVE  TasksOK' /\ OthersKept(t) /\ pc'[t] = "boot"
  <1>1. "boot" \in Label
    BY DEF Label
  <1>2. QED
    BY <1>1 DEF TasksOK, NextBoot, OthersKept

\* tokio::spawn puts the new task into an idle slot.
LEMMA ForkMoves ==
  ASSUME TasksOK, NEW t \in Task, NEW k \in Label,
         NEW l \in Label \cap {"connect", "recovery"}, NEW o \in TaskOp,
         tgt[t] # NoName, pc[t] # "idle", Fork(t, k, l, o),
         mutations' \in Task \cup {NoTask}
  PROVE  /\ TasksOK' /\ OthersKept(t) /\ pc'[t] = k
         /\ \E w \in Task : pc'[w] = l /\ tgt'[w] = tgt[t]
  <1>1. PICK w \in Idle :
          /\ pc' = [pc EXCEPT ![t] = k, ![w] = l]
          /\ op' = [op EXCEPT ![w] = o]
          /\ tgt' = [tgt EXCEPT ![w] = tgt[t], ![t] = IF k = "boot" THEN NoName ELSE @]
          /\ link' = [link EXCEPT ![t] = NoMpv]
    BY DEF Fork
  <1>2. w \in Task /\ w # t /\ pc[w] = "idle"
    BY <1>1 DEF Idle
  <1>3. QED
    BY <1>1, <1>2 DEF TasksOK, OthersKept

LEMMA StartReturnsMoves ==
  ASSUME TasksOK, NEW t \in Task, NEW ok \in BOOLEAN, tgt[t] # NoName,
         StartReturns(t, ok), mutations' \in Task \cup {NoTask}
  PROVE  /\ TasksOK' /\ OthersKept(t)
         /\ pc'[t] \in {"idle", "boot", "boot_failed", "backoff"}
  <1>1. {"boot_failed", "backoff"} \subseteq Label
    BY DEF Label
  <1>2. CASE NextBoot(t)
    BY <1>2, NextBootMoves
  <1>3. CASE Goto(t, "boot_failed")
    BY <1>1, <1>3, GotoMoves
  <1>4. CASE Goto(t, "backoff")
    BY <1>1, <1>4, GotoMoves
  <1>5. CASE Finish(t)
    BY <1>5, FinishMoves
  <1>6. QED
    BY <1>2, <1>3, <1>4, <1>5 DEF StartReturns

LEMMA StopReturnsMoves ==
  ASSUME TasksOK, NEW t \in Task, tgt[t] # NoName,
         StopReturns(t), mutations' \in Task \cup {NoTask}
  PROVE  /\ TasksOK' /\ OthersKept(t)
         /\ pc'[t] \in {"idle", "start", "persist_disabled", "remove_commit"}
  <1>1. {"start", "persist_disabled", "remove_commit"} \subseteq Label
    BY DEF Label, Operation
  <1>2. CASE Goto(t, "start")
    BY <1>1, <1>2, GotoMoves
  <1>3. CASE Goto(t, "persist_disabled")
    BY <1>1, <1>3, GotoMoves
  <1>4. CASE Goto(t, "remove_commit")
    BY <1>1, <1>4, GotoMoves
  <1>5. CASE Finish(t)
    BY <1>5, FinishMoves
  <1>6. QED
    BY <1>2, <1>3, <1>4, <1>5 DEF StopReturns

(***************************************************************************)
(* The type invariant, with the one fact about two flags that every action *)
(* keeps: a target is never online and launching at once.                  *)
(***************************************************************************)
TypeInv == TypeOK /\ online \cap launching = {}

\* What a step of task t may do to the flags' witnesses: a flag is raised only
\* with a task behind it, t leaves a watching or a launching call only when it
\* takes the flag down or finds it down, a launch begins for an enabled target
\* only, and a rename comes from a request.
FlagsKept(t) ==
  /\ OthersKept(t)
  /\ \A n \in online' \ online : Some(n, Watching)'
  /\ \A n \in launching' \ launching : Some(n, Launching)'
  /\ pc[t] \in Watching =>
       (pc'[t] \in Watching /\ tgt'[t] = tgt[t]) \/ tgt[t] \notin online'
  /\ pc[t] \in Launching =>
       (pc'[t] \in Launching /\ tgt'[t] = tgt[t]) \/ tgt[t] \notin launching'
  /\ pc'[t] \in Launching => pc[t] \in Launching \/ tgt[t] \notin disabled
  /\ pc'[t] \in Launching => tgt'[t] = tgt[t]
  /\ pc'[t] \in {"rename", "rename_commit"} => pc[t] = "rename" \/ "rename" \in Ops

\* Steps that leave every flag alone and neither leave nor enter these calls.
LEMMA QuietStep ==
  ASSUME TypeInv, NEW t \in Task, TasksOK', OthersKept(t), ProcsOK',
         UNCHANGED <<known, flags, boot>>,
         pc[t] \in Watching => pc'[t] \in Watching /\ tgt'[t] = tgt[t],
         pc[t] \in Launching => pc'[t] \in Launching /\ tgt'[t] = tgt[t],
         pc'[t] \in Launching => pc[t] \in Launching,
         pc'[t] \in {"rename", "rename_commit"} => pc[t] = "rename" \/ "rename" \in Ops
  PROVE  TypeInv' /\ FlagsKept(t)
  BY DEF TypeInv, TypeOK, TargetsOK, flags, FlagsKept

LEMMA LaunchMoves ==
  ASSUME TypeInv, NEW t \in Task, Launch(t)
  PROVE  TypeInv' /\ FlagsKept(t)
  <1> USE DEF Label, Operation, TaskOp, Launching, Watching, Launching, Watching
  <1>0. /\ TasksOK /\ mutations \in Task \cup {NoTask} /\ op[t] \in TaskOp
        /\ pc[t] \notin {"idle", "boot"} => tgt[t] \in Name /\ tgt[t] # NoName
    BY Dispatched DEF TypeInv, TypeOK, TasksOK
  <1>1. CASE StartRefused(t)
    <2>1. TasksOK' /\ OthersKept(t) /\ pc'[t] \in {"idle", "boot", "boot_failed", "backoff"}
      BY <1>0, <1>1, StartReturnsMoves DEF StartRefused
    <2>2. QED
      BY <1>1, <2>1, QuietStep DEF StartRefused, TypeInv, TypeOK, ProcsOK, procs
  <1>2. CASE StartJoins(t)
    <2>1. TasksOK' /\ OthersKept(t) /\ pc'[t] \in {"idle", "boot", "boot_failed", "backoff"}
      BY <1>0, <1>2, StartReturnsMoves DEF StartJoins
    <2>2. TypeInv'
      BY <1>2, <2>1 DEF StartJoins, TypeInv, TypeOK, TargetsOK, ProcsOK, procs
    <2>3. QED
      BY <1>2, <2>1, <2>2 DEF StartJoins, FlagsKept
  <1>3. CASE StartLaunches(t)
    <2>1. TasksOK' /\ OthersKept(t) /\ pc'[t] = "probe" /\ tgt'[t] = tgt[t]
      BY <1>0, <1>3, GotoMoves DEF StartLaunches
    <2>2. TypeInv'
      BY <1>0, <1>3, <2>1 DEF StartLaunches, Startable, Busy, TypeInv, TypeOK,
         TargetsOK, ProcsOK, procs
    <2>3. QED
      BY <1>3, <2>1, <2>2 DEF StartLaunches, Startable, FlagsKept, Some
  <1>4. CASE Probe(t)
    <2>1. /\ TasksOK' /\ OthersKept(t) /\ tgt'[t] = tgt[t]
          /\ pc'[t] \in {"launch_failed", "mark_online", "spawn"}
      BY <1>0, <1>4, GotoMoves DEF Probe
    <2>2. QED
      BY <1>4, <2>1, QuietStep DEF Probe, TypeInv, TypeOK, ProcsOK, procs
  <1>5. CASE Spawn(t)
    <2>1. TasksOK' /\ OthersKept(t) /\ pc'[t] = "await_socket" /\ tgt'[t] = tgt[t]
      BY <1>0, <1>5 DEF Spawn, TasksOK, OthersKept
    <2>2. ProcsOK'
      BY <1>0, <1>5 DEF Spawn, TypeInv, TypeOK, ProcsOK
    <2>3. QED
      BY <1>5, <2>1, <2>2, QuietStep DEF Spawn
  <1>6. CASE SpawnFails(t)
    <2>1. TasksOK' /\ OthersKept(t) /\ pc'[t] = "launch_failed" /\ tgt'[t] = tgt[t]
      BY <1>0, <1>6, GotoMoves DEF SpawnFails
    <2>2. ProcsOK'
      BY <1>0, <1>6 DEF SpawnFails, TypeInv, TypeOK, ProcsOK
    <2>3. QED
      BY <1>6, <2>1, <2>2, QuietStep DEF SpawnFails
  <1>7. CASE SocketAppears(t)
    <2>1. TasksOK' /\ OthersKept(t) /\ pc'[t] = "mark_online" /\ tgt'[t] = tgt[t]
      BY <1>0, <1>7, BecomeMoves DEF SocketAppears
    <2>2. QED
      BY <1>7, <2>1, QuietStep DEF SocketAppears, TypeInv, TypeOK, ProcsOK, procs
  <1>8. CASE SocketTimesOut(t)
    <2>1. TasksOK' /\ OthersKept(t) /\ pc'[t] = "launch_failed" /\ tgt'[t] = tgt[t]
      <3>1. link' \in [Task -> Mpv \cup {NoMpv}]
        <4>1. CASE link[t] = NoMpv
          BY <1>0, <1>8, <4>1 DEF SocketTimesOut, TasksOK
        <4>2. CASE link[t] # NoMpv
          BY <1>0, <1>8, <4>2 DEF SocketTimesOut, Unlinked, TasksOK
        <4>3. QED
          BY <4>1, <4>2
      <3>2. /\ pc' = [pc EXCEPT ![t] = "launch_failed"] /\ tgt[t] # NoName
            /\ UNCHANGED <<op, tgt, mutations>>
        BY <1>0, <1>8 DEF SocketTimesOut
      <3>3. QED
        BY <1>0, <3>1, <3>2 DEF TasksOK, OthersKept
    <2>2. ProcsOK'
      BY <1>0, <1>8 DEF SocketTimesOut, Gone, TasksOK, TypeInv, TypeOK, ProcsOK, procs
    <2>3. QED
      BY <1>8, <2>1, <2>2, QuietStep DEF SocketTimesOut
  <1>9. CASE MarkOnline(t)
    <2>1. /\ TasksOK' /\ OthersKept(t) /\ pc'[t] \in {"boot", "connect"}
          /\ \E w \in Task : pc'[w] = "connect" /\ tgt'[w] = tgt[t]
      <3>1. CASE op[t] = "boot"
        BY <1>0, <1>9, <3>1, ForkMoves DEF MarkOnline
      <3>2. CASE op[t] # "boot"
        BY <1>0, <1>9, <3>2, BecomeMoves DEF MarkOnline
      <3>3. QED
        BY <3>1, <3>2
    <2>2. TypeInv'
      BY <1>9, <2>1 DEF MarkOnline, Recovered, TypeInv, TypeOK, TargetsOK, ProcsOK, procs
    <2>3. QED
      BY <1>9, <2>1, <2>2 DEF MarkOnline, FlagsKept, Some
  <1>10. CASE AlreadyOnline(t)
    <2>1. TasksOK' /\ OthersKept(t) /\ pc'[t] \in {"idle", "boot", "boot_failed", "backoff"}
      <3>1. (tgt[t] \in known) \in BOOLEAN
        OBVIOUS
      <3>2. StartReturns(t, tgt[t] \in known) /\ tgt[t] # NoName /\ mutations' = mutations
        BY <1>0, <1>10 DEF AlreadyOnline
      <3>3. QED
        BY <1>0, <3>1, <3>2, StartReturnsMoves
    <2>2. tgt[t] \notin launching
      BY <1>10 DEF AlreadyOnline, TypeInv, TypeOK, TargetsOK
    <2>3. TypeInv'
      BY <1>10, <2>1 DEF AlreadyOnline, flags, TypeInv, TypeOK, TargetsOK, ProcsOK, procs
    <2>4. QED
      BY <1>10, <2>1, <2>2, <2>3 DEF AlreadyOnline, flags, FlagsKept
  <1>11. CASE LaunchFailed(t)
    <2>1. TasksOK' /\ OthersKept(t) /\ pc'[t] \in {"boot_failed", "backoff", "recovery"}
      <3>1. CASE Fork(t, "boot_failed", "recovery", "recover")
        BY <1>0, <1>11, <3>1, ForkMoves DEF LaunchFailed
      <3>2. CASE Fork(t, "backoff", "recovery", "recover")
        BY <1>0, <1>11, <3>2, ForkMoves DEF LaunchFailed
      <3>3. CASE Goto(t, "backoff")
        BY <1>0, <1>11, <3>3, GotoMoves DEF LaunchFailed
      <3>4. CASE Become(t, "recovery", "recover")
        BY <1>0, <1>11, <3>4, BecomeMoves DEF LaunchFailed
      <3>5. QED
        BY <1>11, <3>1, <3>2, <3>3, <3>4 DEF LaunchFailed
    <2>2. TypeInv'
      BY <1>11, <2>1 DEF LaunchFailed, ClearLaunching, TypeInv, TypeOK, TargetsOK, ProcsOK, procs
    <2>3. QED
      BY <1>11, <2>1, <2>2 DEF LaunchFailed, ClearLaunching, FlagsKept
  <1>12. QED
    BY <1>1, <1>2, <1>3, <1>4, <1>5, <1>6, <1>7, <1>8, <1>9, <1>10, <1>11 DEF Launch

\* A daemon that starts again has every flag down but stopped, and one task.
LEMMA RestartTypes ==
  ASSUME TypeInv, DaemonRestarts
  PROVE  TypeInv'
  <1> USE DEF Label, Operation, TaskOp
  <1>1. PICK t \in Task :
          /\ pc' = [u \in Task |-> IF u = t THEN "boot" ELSE "idle"]
          /\ op' = [u \in Task |-> IF u = t THEN "boot" ELSE "none"]
    BY DEF DaemonRestarts
  <1>2. TasksOK'
    BY <1>1 DEF DaemonRestarts, TasksOK
  <1>3. QED
    BY <1>2 DEF DaemonRestarts, procs, TypeInv, TypeOK, TargetsOK, ProcsOK

LEMMA StopFailsMoves ==
  ASSUME TypeInv, NEW t \in Task, pc[t] \in {"stop", "quit", "await_gone"}, StopFails(t)
  PROVE  TypeInv' /\ (FlagsKept(t) \/ DaemonRestarts)
  <1>1. CASE DaemonRestarts
    BY <1>1, RestartTypes
  <1>2. CASE Finish(t) /\ Release(t) /\ UNCHANGED <<known, flags, boot, procs>>
    <2>1. TasksOK /\ mutations' \in Task \cup {NoTask}
      BY <1>2 DEF TypeInv, TypeOK, TasksOK, Release
    <2>2. TasksOK' /\ OthersKept(t) /\ pc'[t] = "idle"
      BY <1>2, <2>1, FinishMoves
    <2>3. QED
      BY <1>2, <2>2, QuietStep DEF TypeInv, TypeOK, ProcsOK, procs, Watching, Launching
  <1>3. QED
    BY <1>1, <1>2 DEF StopFails

LEMMA TakeDownMoves ==
  ASSUME TypeInv, NEW t \in Task, TakeDown(t)
  PROVE  TypeInv' /\ (FlagsKept(t) \/ DaemonRestarts)
  <1> USE DEF Label, Operation, TaskOp, Launching, Watching
  <1>0. /\ TasksOK /\ mutations \in Task \cup {NoTask}
        /\ pc[t] \notin {"idle", "boot"} => tgt[t] \in Name /\ tgt[t] # NoName
    BY Dispatched DEF TypeInv, TypeOK, TasksOK
  <1>1. CASE StopRefused(t)
    BY <1>1, StopFailsMoves DEF StopRefused
  <1>2. CASE Stop(t)
    <2>1. TasksOK' /\ OthersKept(t) /\ pc'[t] \in {"quit", "clear"}
      BY <1>0, <1>2, GotoMoves DEF Stop
    <2>2. TypeInv'
      BY <1>2, <2>1 DEF Stop, TypeInv, TypeOK, TargetsOK, ProcsOK, procs
    <2>3. QED
      BY <1>2, <2>1, <2>2 DEF Stop, FlagsKept
  <1>3. CASE OffProbe(t)
    <2>1. TasksOK' /\ OthersKept(t) /\ pc'[t] \in {"quit", "clear"}
      BY <1>0, <1>3, GotoMoves DEF OffProbe
    <2>2. QED
      BY <1>3, <2>1, QuietStep DEF OffProbe, TypeInv, TypeOK, ProcsOK, procs
  <1>4. CASE Quit(t)
    <2>1. TasksOK' /\ OthersKept(t) /\ pc'[t] = "await_gone"
      BY <1>0, <1>4, GotoMoves DEF Quit
    <2>2. socket[tgt[t]] \in Mpv /\ home[socket[tgt[t]]] # NoName
      BY <1>0, <1>4 DEF Quit, TypeInv, TypeOK, ProcsOK
    <2>3. ProcsOK'
      BY <1>0, <1>4, <2>2 DEF Quit, TypeInv, TypeOK, ProcsOK
    <2>4. QED
      BY <1>4, <2>1, <2>3, QuietStep DEF Quit
  <1>5. CASE QuitFails(t)
    BY <1>5, StopFailsMoves DEF QuitFails
  <1>6. CASE ReplyLost(t)
    BY <1>6, StopFailsMoves DEF ReplyLost
  <1>7. CASE SocketGone(t)
    <2>1. TasksOK' /\ OthersKept(t) /\ pc'[t] = "clear"
      BY <1>0, <1>7, GotoMoves DEF SocketGone
    <2>2. QED
      BY <1>7, <2>1, QuietStep DEF SocketGone, TypeInv, TypeOK, ProcsOK, procs
  <1>8. CASE GoneTimesOut(t)
    BY <1>8, StopFailsMoves DEF GoneTimesOut
  <1>9. CASE ClearObserved(t)
    <2>1. TasksOK' /\ OthersKept(t) /\ pc'[t] \in {"off_flags", "mark_offline"}
      BY <1>0, <1>9, GotoMoves DEF ClearObserved
    <2>2. TypeInv'
      BY <1>9, <2>1 DEF ClearObserved, TypeInv, TypeOK, TargetsOK, ProcsOK, procs
    <2>3. QED
      BY <1>9, <2>1, <2>2 DEF ClearObserved, FlagsKept
  <1>10. CASE MarkOffline(t)
    <2>1. /\ TasksOK' /\ OthersKept(t)
          /\ pc'[t] \in {"idle", "start", "persist_disabled", "remove_commit"}
      <3>1. CASE StopReturns(t)
        BY <1>0, <1>10, <3>1, StopReturnsMoves DEF MarkOffline
      <3>2. CASE Finish(t)
        BY <1>0, <1>10, <3>2, FinishMoves DEF MarkOffline
      <3>3. QED
        BY <1>10, <3>1, <3>2 DEF MarkOffline
    <2>2. TypeInv'
      BY <1>10, <2>1 DEF MarkOffline, TypeInv, TypeOK, TargetsOK, ProcsOK, procs
    <2>3. QED
      BY <1>10, <2>1, <2>2 DEF MarkOffline, FlagsKept
  <1>11. CASE OffFlags(t)
    <2>1. TasksOK' /\ OthersKept(t) /\ pc'[t] \in {"idle", "boot"}
      BY <1>0, <1>11, NextBootMoves, FinishMoves DEF OffFlags
    <2>2. TypeInv'
      BY <1>11, <2>1 DEF OffFlags, TypeInv, TypeOK, TargetsOK, ProcsOK, procs
    <2>3. QED
      BY <1>11, <2>1, <2>2 DEF OffFlags, FlagsKept
  <1>12. CASE Restart(t)
    <2>1. TasksOK' /\ OthersKept(t) /\ pc'[t] \in {"idle", "off_probe", "restart_stopped"}
      BY <1>0, <1>12, FinishMoves, BecomeMoves, GotoMoves DEF Restart
    <2>2. QED
      BY <1>12, <2>1, QuietStep DEF Restart, TypeInv, TypeOK, ProcsOK, procs
  <1>13. CASE RestartStopped(t)
    <2>1. TasksOK' /\ OthersKept(t) /\ pc'[t] \in {"idle", "start", "stop"}
      BY <1>0, <1>13, FinishMoves, GotoMoves DEF RestartStopped
    <2>2. QED
      BY <1>13, <2>1, QuietStep DEF RestartStopped, TypeInv, TypeOK, ProcsOK, procs
  <1>14. CASE Disable(t)
    <2>1. TasksOK' /\ OthersKept(t) /\ pc'[t] \in {"idle", "persist_disabled", "stop"}
      BY <1>0, <1>14, FinishMoves, GotoMoves DEF Disable
    <2>2. QED
      BY <1>14, <2>1, QuietStep DEF Disable, TypeInv, TypeOK, ProcsOK, procs
  <1>15. QED
    BY <1>1, <1>2, <1>3, <1>4, <1>5, <1>6, <1>7, <1>8, <1>9, <1>10, <1>11, <1>12,
       <1>13, <1>14 DEF TakeDown

\* Every administrative step but the one that moves a target to a new name.
LEMMA AdministerMoves ==
  ASSUME TypeInv, NEW t \in Task, Administer(t)
  PROVE  TypeInv' /\ (FlagsKept(t) \/ RenameCommit(t))
  <1> USE DEF Label, Operation, TaskOp, Launching, Watching
  <1>0. /\ TasksOK /\ mutations \in Task \cup {NoTask}
        /\ pc[t] \notin {"idle", "boot"} => tgt[t] \in Name /\ tgt[t] # NoName
        /\ Release(t) => mutations' \in Task \cup {NoTask}
    BY Dispatched DEF TypeInv, TypeOK, TasksOK, Release
  <1>1. CASE PersistChange(t)
    <2>1. TasksOK' /\ OthersKept(t) /\ pc'[t] \in {"idle", "restart"}
      <3>1. CASE Finish(t)
        BY <1>0, <1>1, <3>1, FinishMoves DEF PersistChange
      <3>2. CASE Become(t, "restart", "restart")
        BY <1>0, <1>1, <3>2, BecomeMoves DEF PersistChange, Persisting
      <3>3. QED
        BY <1>1, <3>1, <3>2 DEF PersistChange
    <2>2. TypeInv'
      BY <1>1, <2>1 DEF PersistChange, Persisting, TypeInv, TypeOK, TargetsOK, ProcsOK, procs
    <2>3. QED
      BY <1>1, <2>1, <2>2 DEF PersistChange, Persisting, FlagsKept
  <1>2. CASE PersistFails(t)
    <2>1. TasksOK' /\ OthersKept(t) /\ pc'[t] = "idle"
      BY <1>0, <1>2, FinishMoves DEF PersistFails
    <2>2. QED
      BY <1>2, <2>1, QuietStep DEF PersistFails, Persisting, TypeInv, TypeOK, ProcsOK, procs
  <1>3. CASE Add(t)
    <2>1. TasksOK' /\ OthersKept(t) /\ pc'[t] = "idle"
      BY <1>0, <1>3, FinishMoves DEF Add
    <2>2. TypeInv'
      BY <1>0, <1>3, <2>1 DEF Add, TypeInv, TypeOK, TargetsOK, ProcsOK, procs
    <2>3. QED
      BY <1>3, <2>1, <2>2 DEF Add, FlagsKept
  <1>4. CASE AdminRefused(t)
    <2>1. TasksOK' /\ OthersKept(t) /\ pc'[t] = "idle"
      BY <1>0, <1>4, FinishMoves DEF AdminRefused
    <2>2. QED
      BY <1>4, <2>1, QuietStep DEF AdminRefused, Admin, TypeInv, TypeOK, ProcsOK, procs
  <1>5. CASE LockMutations(t)
    <2>1. /\ TasksOK' /\ OthersKept(t)
          /\ pc'[t] \in {"rename_commit", "save_query", "remove_commit", "stop"}
          /\ pc'[t] = "rename_commit" => pc[t] = "rename"
      BY <1>0, <1>5, GotoMoves DEF LockMutations, Admin
    <2>2. QED
      BY <1>5, <2>1, QuietStep DEF LockMutations, Admin, TypeInv, TypeOK, ProcsOK, procs
  <1>6. CASE RemoveCommit(t)
    <2>1. TasksOK' /\ OthersKept(t) /\ pc'[t] = "idle"
      BY <1>0, <1>6, FinishMoves DEF RemoveCommit
    <2>2. TypeInv'
      BY <1>6, <2>1 DEF RemoveCommit, TypeInv, TypeOK, TargetsOK, ProcsOK, procs
    <2>3. QED
      BY <1>6, <2>1, <2>2 DEF RemoveCommit, FlagsKept
  <1>7. CASE RenameCommit(t)
    <2>1. TasksOK'
      BY <1>0, <1>7, FinishMoves DEF RenameCommit
    <2>2. TypeInv'
      BY <1>0, <1>7, <2>1 DEF RenameCommit, TypeInv, TypeOK, TargetsOK, ProcsOK, procs
    <2>3. QED
      BY <1>7, <2>2
  <1>8. CASE CommitFails(t)
    <2>1. TasksOK' /\ OthersKept(t) /\ pc'[t] = "idle"
      BY <1>0, <1>8, FinishMoves DEF CommitFails
    <2>2. QED
      BY <1>8, <2>1, QuietStep DEF CommitFails, TypeInv, TypeOK, ProcsOK, procs
  <1>9. CASE SaveQuery(t)
    <2>1. TasksOK' /\ OthersKept(t) /\ pc'[t] = "idle"
      BY <1>0, <1>9, FinishMoves DEF SaveQuery
    <2>2. QED
      BY <1>9, <2>1, QuietStep DEF SaveQuery, TypeInv, TypeOK, ProcsOK, procs
  <1>10. QED
    BY <1>1, <1>2, <1>3, <1>4, <1>5, <1>6, <1>7, <1>8, <1>9 DEF Administer

LEMMA BackgroundMoves ==
  ASSUME TypeInv, NEW t \in Task, Background(t)
  PROVE  TypeInv' /\ FlagsKept(t)
  <1> USE DEF Label, Operation, TaskOp, Launching, Watching
  <1>0. /\ TasksOK /\ mutations \in Task \cup {NoTask}
        /\ pc[t] \notin {"idle", "boot"} => tgt[t] \in Name /\ tgt[t] # NoName
    BY Dispatched DEF TypeInv, TypeOK, TasksOK
  <1>1. CASE BootTarget(t)
    <2>1. PICK n \in boot :
            /\ boot' = boot \ {n}
            /\ tgt' = [tgt EXCEPT ![t] = n]
            /\ pc' = [pc EXCEPT ![t] = IF n \in disabled THEN "off_probe"
                                       ELSE IF Live(n) THEN "attach" ELSE "start"]
      BY <1>1 DEF BootTarget
    <2>2. n \in Name /\ n # NoName
      BY <2>1, ConstantsAssumption DEF TypeInv, TypeOK, TargetsOK
    <2>3. TasksOK' /\ OthersKept(t) /\ pc'[t] \in {"off_probe", "attach", "start"}
      BY <1>0, <1>1, <2>1, <2>2 DEF BootTarget, TasksOK, OthersKept
    <2>4. TypeInv'
      BY <1>1, <2>1, <2>3 DEF BootTarget, flags, procs, TypeInv, TypeOK, TargetsOK, ProcsOK
    <2>5. QED
      BY <1>1, <2>3, <2>4 DEF BootTarget, flags, FlagsKept
  <1>2. CASE BootDone(t)
    <2>1. TasksOK' /\ OthersKept(t) /\ pc'[t] = "idle"
      BY <1>0, <1>2, FinishMoves DEF BootDone
    <2>2. QED
      BY <1>2, <2>1, QuietStep DEF BootDone, TypeInv, TypeOK, ProcsOK, procs
  <1>3. CASE BootFailed(t)
    <2>1. TasksOK' /\ OthersKept(t) /\ pc'[t] = "boot"
      BY <1>0, <1>3, ForkMoves DEF BootFailed
    <2>2. QED
      BY <1>3, <2>1, QuietStep DEF BootFailed, TypeInv, TypeOK, ProcsOK, procs
  <1>4. CASE BeginRecovery(t)
    <2>1. TasksOK' /\ OthersKept(t) /\ pc'[t] \in {"idle", "backoff"}
      BY <1>0, <1>4, GotoMoves, FinishMoves DEF BeginRecovery
    <2>2. TypeInv'
      BY <1>4, <2>1 DEF BeginRecovery, Expected, TypeInv, TypeOK, TargetsOK, ProcsOK, procs
    <2>3. QED
      BY <1>4, <2>1, <2>2 DEF BeginRecovery, FlagsKept
  <1>5. CASE Wake(t)
    <2>1. TasksOK' /\ OthersKept(t) /\ pc'[t] \in {"idle", "start"}
      BY <1>0, <1>5, GotoMoves, FinishMoves DEF Wake
    <2>2. TypeInv'
      BY <1>5, <2>1 DEF Wake, TypeInv, TypeOK, TargetsOK, ProcsOK, procs
    <2>3. QED
      BY <1>5, <2>1, <2>2 DEF Wake, FlagsKept
  <1>6. CASE Connect(t)
    <2>1. link' \in [Task -> Mpv \cup {NoMpv}]
      BY <1>0, <1>6 DEF Connect, TypeInv, TypeOK, TasksOK, ProcsOK
    <2>2. TasksOK' /\ OthersKept(t) /\ pc'[t] \in {"reading", "lost"} /\ tgt'[t] = tgt[t]
      BY <1>0, <1>6, <2>1 DEF Connect, TasksOK, OthersKept
    <2>3. QED
      BY <1>6, <2>2, QuietStep DEF Connect, TypeInv, TypeOK, ProcsOK, procs
  <1>7. CASE EndOfStream(t)
    <2>1. TasksOK' /\ OthersKept(t) /\ pc'[t] = "lost" /\ tgt'[t] = tgt[t]
      BY <1>0, <1>7, GotoMoves DEF EndOfStream
    <2>2. QED
      BY <1>7, <2>1, QuietStep DEF EndOfStream, TypeInv, TypeOK, ProcsOK, procs
  <1>8. CASE LostIgnored(t)
    <2>1. TasksOK' /\ OthersKept(t) /\ pc'[t] = "idle"
      BY <1>0, <1>8, FinishMoves DEF LostIgnored
    <2>2. TypeInv'
      BY <1>8, <2>1 DEF LostIgnored, flags, TypeInv, TypeOK, TargetsOK, ProcsOK, procs
    <2>3. QED
      BY <1>8, <2>1, <2>2 DEF LostIgnored, flags, FlagsKept
  <1>9. CASE Lost(t)
    <2>1. TasksOK' /\ OthersKept(t) /\ pc'[t] = "lost_clear"
      BY <1>0, <1>9, BecomeMoves DEF Lost, AfterLoss
    <2>2. TypeInv'
      BY <1>9, <2>1 DEF Lost, TypeInv, TypeOK, TargetsOK, ProcsOK, procs
    <2>3. QED
      BY <1>9, <2>1, <2>2 DEF Lost, FlagsKept
  <1>10. CASE LostClear(t)
    <2>1. TasksOK' /\ OthersKept(t) /\ pc'[t] \in {"idle", "recovery"}
      BY <1>0, <1>10, GotoMoves, FinishMoves DEF LostClear
    <2>2. TypeInv'
      BY <1>10, <2>1 DEF LostClear, TypeInv, TypeOK, TargetsOK, ProcsOK, procs
    <2>3. QED
      BY <1>10, <2>1, <2>2 DEF LostClear, FlagsKept
  <1>11. QED
    BY <1>1, <1>2, <1>3, <1>4, <1>5, <1>6, <1>7, <1>8, <1>9, <1>10 DEF Background

LEMMA RequestMoves ==
  ASSUME TypeInv, NEW t \in Task, Request(t)
  PROVE  TypeInv' /\ FlagsKept(t)
  <1>1. PICK o \in Ops, n \in Name :
          /\ pc' = [pc EXCEPT ![t] = o]
          /\ op' = [op EXCEPT ![t] = o]
          /\ tgt' = [tgt EXCEPT ![t] = n]
    BY DEF Request
  <1>2. o \in Operation /\ n # NoName
    BY ConstantsAssumption
  <1>3. TasksOK' /\ OthersKept(t) /\ pc'[t] = o
    BY <1>1, <1>2 DEF Request, TypeInv, TypeOK, TasksOK, OthersKept, Label, TaskOp
  <1>4. o \notin Launching /\ o # "rename_commit"
    BY <1>2 DEF Operation, Launching
  <1>5. ProcsOK'
    BY DEF Request, procs, TypeInv, TypeOK, ProcsOK
  <1>6. QED
    BY <1>3, <1>4, <1>5, QuietStep DEF Request, Watching, Launching

(***************************************************************************)
(* Steps of mpv and of an observer's reader: no call, no flag but observed.*)
(***************************************************************************)
Outside ==
  \/ \E t \in Task : ReadLine(t)
  \/ \E p \in Mpv : Bind(p) \/ QuitExit(p) \/ MpvExit(p) \/ MpvHang(p)

LEMMA OutsideMoves ==
  ASSUME TypeInv, Outside
  PROVE  TypeInv' /\ UNCHANGED <<disabled, online, launching, pc, tgt>>
  <1>1. CASE \E t \in Task : ReadLine(t)
    BY <1>1 DEF ReadLine, tasks, procs, TypeInv, TypeOK, TargetsOK, TasksOK, ProcsOK
  <1>2. ASSUME NEW p \in Mpv, Leave(p)
        PROVE  TypeInv' /\ UNCHANGED <<disabled, online, launching, pc, tgt>>
    BY <1>2 DEF Leave, Gone, Unlinked, flags, TypeInv, TypeOK, TargetsOK, TasksOK, ProcsOK
  <1>3. ASSUME NEW p \in Mpv, Bind(p)
        PROVE  TypeInv' /\ UNCHANGED <<disabled, online, launching, pc, tgt>>
    <2>1. home[p] \in Name
      BY <1>3 DEF Bind, TypeInv, TypeOK, ProcsOK
    <2>2. QED
      BY <1>3, <2>1 DEF Bind, flags, tasks, TypeInv, TypeOK, TargetsOK, TasksOK, ProcsOK
  <1>4. ASSUME NEW p \in Mpv, MpvHang(p)
        PROVE  TypeInv' /\ UNCHANGED <<disabled, online, launching, pc, tgt>>
    BY <1>4 DEF MpvHang, flags, tasks, TypeInv, TypeOK, TargetsOK, TasksOK, ProcsOK
  <1>5. QED
    BY <1>1, <1>2, <1>3, <1>4 DEF Outside, QuitExit, MpvExit

\* Every step of the specification is one of five kinds.
LEMMA NextKinds ==
  ASSUME TypeInv, [Next]_vars
  PROVE  /\ TypeInv'
         /\ \/ \E t \in Task : FlagsKept(t) \/ RenameCommit(t)
            \/ DaemonRestarts
            \/ UNCHANGED <<disabled, online, launching, pc, tgt>>
  <1>1. ASSUME NEW t \in Task, Step(t)
        PROVE  TypeInv' /\ (FlagsKept(t) \/ RenameCommit(t) \/ DaemonRestarts)
    BY <1>1, LaunchMoves, TakeDownMoves, AdministerMoves, BackgroundMoves DEF Step
  <1>2. ASSUME NEW t \in Task, Request(t)
        PROVE  TypeInv' /\ FlagsKept(t)
    BY <1>2, RequestMoves
  <1>3. CASE Outside
    BY <1>3, OutsideMoves
  <1>4. CASE DaemonCrash
    BY <1>4, RestartTypes DEF DaemonCrash
  <1>5. CASE UNCHANGED vars
    BY <1>5 DEF vars, flags, tasks, procs, TypeInv, TypeOK, TargetsOK, TasksOK, ProcsOK
  <1>6. QED
    BY <1>1, <1>2, <1>3, <1>4, <1>5 DEF Next, Outside

LEMMA InitTypes == Init => TypeInv
  BY ConstantsAssumption DEF Init, TypeInv, TypeOK, TargetsOK, TasksOK, ProcsOK, Label, TaskOp

LEMMA TypesHold == Spec => []TypeInv
  BY InitTypes, NextKinds, PTL DEF Spec

\* Every flag belongs to a known target, every busy task has a target and every
\* socket leads to a running process of its own target, whatever the clients
\* and the faults do (supervisor.rs never creates a RuntimeTarget outside add).
THEOREM TypeCorrect == Spec => []TypeOK
  <1>1. TypeInv => TypeOK
    BY DEF TypeInv
  <1>2. QED
    BY <1>1, TypesHold, PTL

(***************************************************************************)
(* The flags and the tasks behind them.  A rename moves a flag to a name   *)
(* no task knows, so the two invariants are theorems of the daemons whose  *)
(* clients do not rename.                                                  *)
(***************************************************************************)
NoRename == \A t \in Task : pc[t] \notin {"rename", "rename_commit"}

FlagsInv == TypeInv /\ OnlineIsWatched /\ LaunchingIsBacked /\ NoRename

LEMMA FlagsStep ==
  ASSUME FlagsInv, "rename" \notin Ops, [Next]_vars
  PROVE  FlagsInv'
  <1>1. TypeInv'
    BY NextKinds DEF FlagsInv
  <1>2. ASSUME NEW t \in Task, FlagsKept(t)
        PROVE  OnlineIsWatched' /\ LaunchingIsBacked' /\ NoRename'
    <2>1. ASSUME NEW n \in online' PROVE Some(n, Watching)'
      <3>1. CASE n \notin online
        BY <1>2, <2>1, <3>1 DEF FlagsKept
      <3>2. CASE n \in online
        <4>1. PICK u \in Task : tgt[u] = n /\ pc[u] \in Watching
          BY <3>2 DEF FlagsInv, OnlineIsWatched, Some
        <4>2. tgt'[u] = n /\ pc'[u] \in Watching
          BY <1>2, <2>1, <4>1 DEF FlagsKept, OthersKept, Watching
        <4>3. QED
          BY <4>2 DEF Some, Watching
      <3>3. QED
        BY <3>1, <3>2
    <2>2. ASSUME NEW n \in launching' PROVE Some(n, Launching)'
      <3>1. CASE n \notin launching
        BY <1>2, <2>2, <3>1 DEF FlagsKept
      <3>2. CASE n \in launching
        <4>1. PICK u \in Task : tgt[u] = n /\ pc[u] \in Launching
          BY <3>2 DEF FlagsInv, LaunchingIsBacked, Some
        <4>2. tgt'[u] = n /\ pc'[u] \in Launching
          BY <1>2, <2>2, <4>1 DEF FlagsKept, OthersKept, Launching
        <4>3. QED
          BY <4>2 DEF Some, Launching
      <3>3. QED
        BY <3>1, <3>2
    <2>3. NoRename'
      BY <1>2 DEF FlagsInv, FlagsKept, OthersKept, NoRename
    <2>4. QED
      BY <2>1, <2>2, <2>3 DEF OnlineIsWatched, LaunchingIsBacked
  <1>3. ASSUME NEW t \in Task PROVE ~RenameCommit(t)
    BY DEF FlagsInv, NoRename, RenameCommit
  <1>4. CASE DaemonRestarts
    BY <1>1, <1>4 DEF DaemonRestarts, FlagsInv, OnlineIsWatched, LaunchingIsBacked, NoRename
  <1>5. CASE UNCHANGED <<disabled, online, launching, pc, tgt>>
    BY <1>1, <1>5 DEF FlagsInv, OnlineIsWatched, LaunchingIsBacked, NoRename, Some
  <1>6. QED
    BY <1>1, <1>2, <1>3, <1>4, <1>5, NextKinds DEF FlagsInv

LEMMA FlagsHold ==
  ASSUME "rename" \notin Ops
  PROVE  Spec => []FlagsInv
  <1>1. Init => FlagsInv
    BY InitTypes DEF Init, FlagsInv, OnlineIsWatched, LaunchingIsBacked, NoRename
  <1>2. FlagsInv /\ [Next]_vars => FlagsInv'
    BY FlagsStep
  <1>3. QED
    BY <1>1, <1>2, PTL DEF Spec

\* A target announced online always has a task that will notice the loss of its
\* mpv: mark_online and on_target_lost agree in every interleaving of stops,
\* launches, removals, stale observers and daemon restarts.
THEOREM OnlineAlwaysWatched ==
  ASSUME "rename" \notin Ops
  PROVE  Spec => []OnlineIsWatched
  <1>1. FlagsInv => OnlineIsWatched
    BY DEF FlagsInv
  <1>2. QED
    BY <1>1, FlagsHold, PTL

\* A launch reservation never outlives its launch: start cannot be answered
\* "already launching" by a flag nobody will clear.
THEOREM LaunchingAlwaysBacked ==
  ASSUME "rename" \notin Ops
  PROVE  Spec => []LaunchingIsBacked
  <1>1. FlagsInv => LaunchingIsBacked
    BY DEF FlagsInv
  <1>2. QED
    BY <1>1, FlagsHold, PTL

\* The check of start and its reservation are one step.
LEMMA LaunchesEnabled ==
  ASSUME TypeInv, [Next]_vars
  PROVE  \A n \in disabled \cap disabled' :
           Some(n, Launching)' => Some(n, Launching)
  <1> SUFFICES ASSUME NEW n \in disabled \cap disabled',
                      NEW u \in Task, tgt'[u] = n, pc'[u] \in Launching
               PROVE  Some(n, Launching)
    BY DEF Some, Launching
  <1>1. ASSUME NEW t \in Task, FlagsKept(t) PROVE Some(n, Launching)
    BY <1>1 DEF FlagsKept, OthersKept, Some, Launching
  <1>2. ASSUME NEW t \in Task, RenameCommit(t) PROVE Some(n, Launching)
    <2>1. Finish(t) /\ TasksOK
      BY <1>2 DEF RenameCommit, TypeInv, TypeOK
    <2>2. u # t /\ pc'[u] = pc[u] /\ tgt'[u] = tgt[u]
      BY <2>1 DEF Finish, TasksOK, Launching
    <2>3. QED
      BY <2>2 DEF Some
  <1>3. CASE DaemonRestarts
    BY <1>3 DEF DaemonRestarts, Launching
  <1>4. CASE UNCHANGED <<disabled, online, launching, pc, tgt>>
    BY <1>4 DEF Some
  <1>5. QED
    BY <1>1, <1>2, <1>3, <1>4, NextKinds

\* No launch of a disabled target begins: not by a request, a recovery loop or
\* the boot loop, renames included.
THEOREM DisabledNeverLaunched == Spec => DisabledNotLaunched
  <1>1. TypeInv /\ [Next]_vars =>
          \A n \in disabled \cap disabled' :
            Some(n, Launching)' => Some(n, Launching)
    BY LaunchesEnabled
  <1>2. QED
    BY <1>1, TypesHold, PTL DEF Spec, DisabledNotLaunched
===============================================================================
