------------------------- MODULE SupervisorTaskProofs -------------------------
(***************************************************************************)
(* Proofs about which task of Supervisor is at work on which target: the   *)
(* boot loop has a target to itself, launches exclude each other, no target*)
(* gets a second mpv, and a target that is meant to run is pursued.  For   *)
(* every set of names, task slots and mpv processes.                       *)
(***************************************************************************)
EXTENDS SupervisorProofs

(***************************************************************************)
(* The calls of each operation, and the operations there can be.           *)
(***************************************************************************)
Down == {"stop", "quit", "await_gone", "clear", "mark_offline"}
TakeOff == {"off_probe", "quit", "await_gone", "clear", "off_flags"}

Calls(o) ==
  CASE o = "none"         -> {"idle"}
    [] o = "boot"         -> {"boot", "attach", "start", "boot_failed"} \cup TakeOff \cup Launching
    [] o = "recover"      -> {"lost_clear", "recovery", "backoff", "start"} \cup Launching
    [] o = "observe"      -> {"lost_clear"} \cup Watching
    [] o = "off"          -> TakeOff
    [] o = "start"        -> {"start"} \cup Launching
    [] o = "stop"         -> Down
    [] o = "restart"      -> {"restart", "restart_stopped", "start"} \cup Down \cup Launching
    [] o = "disable"      -> {"disable", "persist_disabled"} \cup Down
    [] o = "remove"       -> {"remove", "remove_commit"} \cup Down
    [] o = "rename"       -> {"rename", "rename_commit"}
    [] o = "save_channel" -> {"save_channel", "save_query"}
    [] o \in {"enable", "set_channel", "add"} -> {o}
    [] OTHER              -> {}

\* What the daemon does of its own accord.
Own == {"none", "boot", "recover", "observe"}
\* What the clients ask for: set_channel ends in a restart, and the restart of
\* a disabled target in ensure_disabled_off.
Asked ==
  LET Restarts == IF "set_channel" \in Ops THEN Ops \cup {"restart"} ELSE Ops
  IN IF "restart" \in Restarts THEN Restarts \cup {"off"} ELSE Restarts

OpsOK == \A t \in Task : pc[t] \in Calls(op[t]) /\ op[t] \in Own \cup Asked

(***************************************************************************)
(* How the control operators move a task.                                  *)
(***************************************************************************)
Alike(t) ==
  \A u \in Task \ {t} :
    pc'[u] = pc[u] /\ op'[u] = op[u] /\ tgt'[u] = tgt[u] /\ link'[u] = link[u]

LEMMA GotoTurns ==
  ASSUME TasksOK, NEW t \in Task, NEW l, Goto(t, l)
  PROVE  /\ Alike(t) /\ pc'[t] = l
         /\ op'[t] = op[t] /\ tgt'[t] = tgt[t] /\ link'[t] = link[t]
  BY DEF TasksOK, Goto, Alike

LEMMA BecomeTurns ==
  ASSUME TasksOK, NEW t \in Task, NEW l, NEW o, Become(t, l, o)
  PROVE  /\ Alike(t) /\ pc'[t] = l
         /\ op'[t] = o /\ tgt'[t] = tgt[t] /\ link'[t] = NoMpv
  BY DEF TasksOK, Become, Alike

LEMMA FinishTurns ==
  ASSUME TasksOK, NEW t \in Task, Finish(t)
  PROVE  /\ Alike(t) /\ pc'[t] = "idle"
         /\ op'[t] = "none" /\ tgt'[t] = NoName /\ link'[t] = NoMpv
  BY DEF TasksOK, Finish, Alike

LEMMA NextBootTurns ==
  ASSUME TasksOK, NEW t \in Task, NextBoot(t)
  PROVE  /\ Alike(t) /\ pc'[t] = "boot"
         /\ op'[t] = op[t] /\ tgt'[t] = NoName /\ link'[t] = NoMpv
  BY DEF TasksOK, NextBoot, Alike

\* Every other task is left alone, but for one idle slot that gets a task of
\* the daemon's own on the same target.
Forked(t) ==
  \A u \in Task \ {t} :
    \/ pc'[u] = pc[u] /\ op'[u] = op[u] /\ tgt'[u] = tgt[u]
    \/ /\ pc[u] = "idle" /\ tgt'[u] = tgt[t]
       /\ \/ pc'[u] = "connect" /\ op'[u] = "observe"
          \/ pc'[u] = "recovery" /\ op'[u] = "recover"

LEMMA AlikeForked == ASSUME NEW t, Alike(t) PROVE Forked(t)
  BY DEF Alike, Forked

LEMMA ForkTurns ==
  ASSUME TasksOK, NEW t \in Task, NEW k, NEW l, NEW o, pc[t] # "idle", Fork(t, k, l, o),
         \/ l = "connect" /\ o = "observe"
         \/ l = "recovery" /\ o = "recover"
  PROVE  /\ Forked(t) /\ pc'[t] = k /\ op'[t] = op[t]
         /\ tgt'[t] = IF k = "boot" THEN NoName ELSE tgt[t]
         /\ \A u \in Task \ {t} : link'[u] = link[u]
  <1>1. PICK w \in Idle :
          /\ pc' = [pc EXCEPT ![t] = k, ![w] = l]
          /\ op' = [op EXCEPT ![w] = o]
          /\ tgt' = [tgt EXCEPT ![w] = tgt[t], ![t] = IF k = "boot" THEN NoName ELSE @]
          /\ link' = [link EXCEPT ![t] = NoMpv]
    BY DEF Fork
  <1>2. w \in Task /\ w # t /\ pc[w] = "idle"
    BY <1>1 DEF Idle
  <1>3. QED
    BY <1>1, <1>2 DEF TasksOK, Forked

(***************************************************************************)
(* What a step of task t may do, but for the two that give a task a target *)
(* (BootTarget and Request).                                               *)
(***************************************************************************)
Kept(t) ==
  /\ Forked(t)
  /\ pc'[t] \in Calls(op'[t]) /\ op'[t] \in Own \cup Asked
  /\ tgt'[t] \in {tgt[t], NoName}
  /\ boot' = boot
  \* The operation a task goes on with.
  /\ op[t] = "boot" => op'[t] = "boot" \/ boot = {}
  /\ op'[t] = "boot" => op[t] = "boot"
  /\ op[t] \in Own => op'[t] \in Own
  /\ op'[t] = "off" => tgt'[t] = tgt[t] /\ (op[t] = "off" \/ tgt[t] \in disabled)
  \* The boot loop's way with one target.
  /\ op'[t] = "boot" /\ pc'[t] \notin {"boot", "boot_failed"} =>
       pc[t] \notin {"boot", "boot_failed"} /\ \A u \in Task : tgt'[u] = tgt[u]
  /\ op'[t] = "boot" /\ pc'[t] \in TakeOff => pc[t] \in TakeOff
  \* The settings, and the reservations of launches.
  /\ disabled' = disabled \/ op[t] \notin Own
  /\ known \subseteq known' \/ op[t] \in {"remove", "rename"}
  /\ known' \subseteq known \/ op[t] \in {"add", "rename"}
  /\ disabled \cap known' \subseteq disabled' \/ op[t] \in {"enable", "rename"}
  /\ pc'[t] \in Launching =>
       /\ tgt'[t] = tgt[t]
       /\ \/ pc[t] \in Launching
          \/ tgt[t] \in (launching' \cap known) \ (launching \cup disabled)
  /\ launching \ launching' \subseteq {tgt[t]}
  /\ tgt[t] \in launching \ launching' =>
       \/ pc[t] \in Launching \cup {"attach"} /\ pc'[t] \notin Launching
       \/ pc[t] = "off_flags"
       \/ pc[t] \in {"remove_commit", "rename_commit"} /\ tgt[t] \notin known'

LEMMA StartReturnsKept ==
  ASSUME TasksOK, OpsOK, NEW t \in Task, NEW ok \in BOOLEAN, StartReturns(t, ok),
         pc[t] \in {"start", "attach"} \cup Launching
  PROVE  /\ Alike(t) /\ pc'[t] \in {"idle", "boot", "boot_failed", "backoff"}
         /\ pc'[t] \in Calls(op'[t]) /\ op'[t] \in {"none", op[t]}
         /\ op[t] = "boot" => op'[t] = "boot"
         /\ tgt'[t] \in {tgt[t], NoName}
  <1>1. CASE op[t] = "boot" /\ ok
    BY <1>1, NextBootTurns DEF StartReturns, Calls
  <1>2. CASE op[t] = "boot" /\ ~ok
    BY <1>2, GotoTurns DEF StartReturns, Calls
  <1>3. CASE op[t] = "recover" /\ ~ok
    BY <1>3, GotoTurns DEF StartReturns, Calls
  <1>4. CASE op[t] # "boot" /\ ~(op[t] = "recover" /\ ~ok)
    BY <1>4, FinishTurns DEF StartReturns, Calls
  <1>5. QED
    BY <1>1, <1>2, <1>3, <1>4

LEMMA LaunchKeeps ==
  ASSUME TypeInv, OpsOK, NEW t \in Task, Launch(t)
  PROVE  Kept(t)
  <1> USE DEF Launching, Watching, Calls, Down, TakeOff, Own, Alike, Kept
  <1>0. TasksOK /\ pc[t] \in Calls(op[t]) /\ op[t] \in Own \cup Asked
    BY DEF TypeInv, TypeOK, OpsOK
  <1>1. CASE StartRefused(t)
    <2>1. /\ Alike(t) /\ pc'[t] \in {"idle", "boot", "boot_failed", "backoff"}
          /\ pc'[t] \in Calls(op'[t]) /\ op'[t] \in {"none", op[t]}
          /\ op[t] = "boot" => op'[t] = "boot"
          /\ tgt'[t] \in {tgt[t], NoName}
      BY <1>0, <1>1, StartReturnsKept DEF StartRefused
    <2>2. QED
      BY <1>0, <1>1, <2>1, AlikeForked DEF StartRefused, flags
  <1>2. CASE StartJoins(t)
    <2>1. /\ Alike(t) /\ pc'[t] \in {"idle", "boot", "boot_failed", "backoff"}
          /\ pc'[t] \in Calls(op'[t]) /\ op'[t] \in {"none", op[t]}
          /\ op[t] = "boot" => op'[t] = "boot"
          /\ tgt'[t] \in {tgt[t], NoName}
      BY <1>0, <1>2, StartReturnsKept DEF StartJoins
    <2>2. QED
      BY <1>0, <1>2, <2>1, AlikeForked DEF StartJoins
  <1>3. CASE StartLaunches(t)
    <2>1. Alike(t) /\ pc'[t] = "probe" /\ op'[t] = op[t] /\ tgt'[t] = tgt[t]
      BY <1>0, <1>3, GotoTurns DEF StartLaunches
    <2>2. QED
      BY <1>0, <1>3, <2>1, AlikeForked DEF StartLaunches, Startable, Busy
  <1>4. CASE Probe(t)
    <2>1. /\ Alike(t) /\ pc'[t] \in {"launch_failed", "mark_online", "spawn"}
          /\ op'[t] = op[t] /\ tgt'[t] = tgt[t]
      BY <1>0, <1>4, GotoTurns DEF Probe
    <2>2. QED
      BY <1>0, <1>4, <2>1, AlikeForked DEF Probe, flags
  <1>5. CASE Spawn(t)
    <2>1. Alike(t) /\ pc'[t] = "await_socket" /\ op'[t] = op[t] /\ tgt'[t] = tgt[t]
      BY <1>0, <1>5 DEF Spawn, TasksOK, Alike
    <2>2. QED
      BY <1>0, <1>5, <2>1, AlikeForked DEF Spawn, flags
  <1>6. CASE SpawnFails(t)
    <2>1. Alike(t) /\ pc'[t] = "launch_failed" /\ op'[t] = op[t] /\ tgt'[t] = tgt[t]
      BY <1>0, <1>6, GotoTurns DEF SpawnFails
    <2>2. QED
      BY <1>0, <1>6, <2>1, AlikeForked DEF SpawnFails, flags
  <1>7. CASE SocketAppears(t)
    <2>1. Alike(t) /\ pc'[t] = "mark_online" /\ op'[t] = op[t] /\ tgt'[t] = tgt[t]
      BY <1>0, <1>7, BecomeTurns DEF SocketAppears
    <2>2. QED
      BY <1>0, <1>7, <2>1, AlikeForked DEF SocketAppears, flags
  <1>8. CASE SocketTimesOut(t)
    <2>1. Forked(t) /\ pc'[t] = "launch_failed" /\ op'[t] = op[t] /\ tgt' = tgt
      BY <1>0, <1>8 DEF SocketTimesOut, TasksOK, Forked
    <2>2. QED
      BY <1>0, <1>8, <2>1 DEF SocketTimesOut, flags
  <1>9. CASE MarkOnline(t)
    <2>1. /\ Forked(t) /\ tgt'[t] \in {tgt[t], NoName}
          /\ \/ op[t] = "boot" /\ pc'[t] = "boot" /\ op'[t] = "boot"
             \/ op[t] # "boot" /\ pc'[t] = "connect" /\ op'[t] = "observe"
      <3>1. CASE op[t] = "boot"
        BY <1>0, <1>9, <3>1, ForkTurns DEF MarkOnline
      <3>2. CASE op[t] # "boot"
        BY <1>0, <1>9, <3>2, BecomeTurns, AlikeForked DEF MarkOnline
      <3>3. QED
        BY <3>1, <3>2
    <2>2. QED
      BY <1>0, <1>9, <2>1 DEF MarkOnline
  <1>10. CASE AlreadyOnline(t)
    <2>1. /\ Alike(t) /\ pc'[t] \in {"idle", "boot", "boot_failed", "backoff"}
          /\ pc'[t] \in Calls(op'[t]) /\ op'[t] \in {"none", op[t]}
          /\ op[t] = "boot" => op'[t] = "boot"
          /\ tgt'[t] \in {tgt[t], NoName}
      <3>1. (tgt[t] \in known) \in BOOLEAN
        OBVIOUS
      <3>2. QED
        BY <1>0, <1>10, <3>1, StartReturnsKept DEF AlreadyOnline
    <2>2. QED
      BY <1>0, <1>10, <2>1, AlikeForked DEF AlreadyOnline, flags
  <1>11. CASE LaunchFailed(t)
    <2>1. /\ Forked(t) /\ tgt'[t] = tgt[t]
          /\ \/ op[t] = "boot" /\ pc'[t] = "boot_failed" /\ op'[t] = op[t]
             \/ op[t] = "recover" /\ pc'[t] = "backoff" /\ op'[t] = op[t]
             \/ op[t] \notin {"boot", "recover"} /\ pc'[t] = "recovery" /\ op'[t] = "recover"
      <3>1. CASE op[t] = "boot" /\ Fork(t, "boot_failed", "recovery", "recover")
        BY <1>0, <1>11, <3>1, ForkTurns DEF LaunchFailed
      <3>2. CASE op[t] = "recover" /\ Fork(t, "backoff", "recovery", "recover")
        BY <1>0, <1>11, <3>2, ForkTurns DEF LaunchFailed
      <3>3. CASE op[t] = "recover" /\ Goto(t, "backoff")
        BY <1>0, <1>11, <3>3, GotoTurns, AlikeForked DEF LaunchFailed
      <3>4. CASE op[t] \notin {"boot", "recover"} /\ Become(t, "recovery", "recover")
        BY <1>0, <1>11, <3>4, BecomeTurns, AlikeForked DEF LaunchFailed
      <3>5. QED
        BY <1>11, <3>1, <3>2, <3>3, <3>4 DEF LaunchFailed
    <2>2. QED
      BY <1>0, <1>11, <2>1 DEF LaunchFailed, ClearLaunching
  <1>12. QED
    BY <1>1, <1>2, <1>3, <1>4, <1>5, <1>6, <1>7, <1>8, <1>9, <1>10, <1>11 DEF Launch

LEMMA AskedTurns ==
  /\ "restart" \in Asked => "off" \in Asked
  /\ "set_channel" \in Asked => "restart" \in Asked
  BY DEF Asked

LEMMA StopFailsKept ==
  ASSUME TypeInv, OpsOK, NEW t \in Task, StopFails(t), pc[t] \in {"stop", "quit", "await_gone"}
  PROVE  \/ Kept(t)
         \/ /\ op[t] = "boot" /\ pc[t] \in {"stop", "quit", "await_gone"}
            /\ DaemonRestarts
  <1> SUFFICES ASSUME op[t] # "boot" PROVE Kept(t)
    BY DEF StopFails
  <1>1. TasksOK /\ Finish(t) /\ UNCHANGED <<known, launching, disabled, boot>>
    BY DEF StopFails, flags, TypeInv, TypeOK
  <1>2. Forked(t) /\ pc'[t] = "idle" /\ op'[t] = "none" /\ tgt'[t] = NoName
    BY <1>1, FinishTurns, AlikeForked
  <1>3. QED
    BY <1>1, <1>2 DEF Kept, Calls, Own, TakeOff, Launching

LEMMA StopReturnsKept ==
  ASSUME TasksOK, NEW t \in Task, StopReturns(t)
  PROVE  /\ Alike(t) /\ tgt'[t] \in {tgt[t], NoName}
         /\ \/ op[t] = "restart" /\ pc'[t] = "start" /\ op'[t] = op[t]
            \/ op[t] = "disable" /\ pc'[t] = "persist_disabled" /\ op'[t] = op[t]
            \/ op[t] = "remove" /\ pc'[t] = "remove_commit" /\ op'[t] = op[t]
            \/ pc'[t] = "idle" /\ op'[t] = "none"
  <1>1. CASE Goto(t, "start") /\ op[t] = "restart"
    BY <1>1, GotoTurns
  <1>2. CASE Goto(t, "persist_disabled") /\ op[t] = "disable"
    BY <1>2, GotoTurns
  <1>3. CASE Goto(t, "remove_commit") /\ op[t] = "remove"
    BY <1>3, GotoTurns
  <1>4. CASE Finish(t)
    BY <1>4, FinishTurns
  <1>5. QED
    BY <1>1, <1>2, <1>3, <1>4 DEF StopReturns

LEMMA TakeDownKeeps ==
  ASSUME TypeInv, OpsOK, NEW t \in Task, TakeDown(t)
  PROVE  \/ Kept(t)
         \/ /\ op[t] = "boot" /\ pc[t] \in {"stop", "quit", "await_gone"}
            /\ DaemonRestarts
  <1> USE DEF Launching, Watching, Calls, Down, TakeOff, Own, Alike, Kept
  <1>0. /\ TasksOK /\ pc[t] \in Calls(op[t]) /\ op[t] \in Own \cup Asked
        /\ online \cap launching = {}
    BY DEF TypeInv, TypeOK, OpsOK
  <1>1. CASE StopRefused(t)
    BY <1>1, StopFailsKept DEF StopRefused
  <1>2. CASE Stop(t)
    <2>1. /\ Alike(t) /\ pc'[t] \in {"quit", "clear"}
          /\ op'[t] = op[t] /\ tgt'[t] = tgt[t]
      BY <1>0, <1>2, GotoTurns DEF Stop
    <2>2. QED
      BY <1>0, <1>2, <2>1, AlikeForked DEF Stop
  <1>3. CASE OffProbe(t)
    <2>1. /\ Alike(t) /\ pc'[t] \in {"quit", "clear"}
          /\ op'[t] = op[t] /\ tgt'[t] = tgt[t]
      BY <1>0, <1>3, GotoTurns DEF OffProbe
    <2>2. QED
      BY <1>0, <1>3, <2>1, AlikeForked DEF OffProbe, flags
  <1>4. CASE Quit(t)
    <2>1. Alike(t) /\ pc'[t] = "await_gone" /\ op'[t] = op[t] /\ tgt'[t] = tgt[t]
      BY <1>0, <1>4, GotoTurns DEF Quit
    <2>2. QED
      BY <1>0, <1>4, <2>1, AlikeForked DEF Quit, flags
  <1>5. CASE QuitFails(t)
    BY <1>5, StopFailsKept DEF QuitFails
  <1>6. CASE ReplyLost(t)
    BY <1>6, StopFailsKept DEF ReplyLost
  <1>7. CASE SocketGone(t)
    <2>1. Alike(t) /\ pc'[t] = "clear" /\ op'[t] = op[t] /\ tgt'[t] = tgt[t]
      BY <1>0, <1>7, GotoTurns DEF SocketGone
    <2>2. QED
      BY <1>0, <1>7, <2>1, AlikeForked DEF SocketGone, flags
  <1>8. CASE GoneTimesOut(t)
    BY <1>8, StopFailsKept DEF GoneTimesOut
  <1>9. CASE ClearObserved(t)
    <2>1. /\ Alike(t) /\ op'[t] = op[t] /\ tgt'[t] = tgt[t]
          /\ pc'[t] = IF op[t] \in {"boot", "off"} THEN "off_flags" ELSE "mark_offline"
      BY <1>0, <1>9, GotoTurns DEF ClearObserved
    <2>2. QED
      BY <1>0, <1>9, <2>1, AlikeForked DEF ClearObserved
  <1>10. CASE MarkOffline(t)
    <2>1. launching' = launching
      BY <1>0, <1>10 DEF MarkOffline
    <2>2. /\ Alike(t) /\ tgt'[t] \in {tgt[t], NoName}
          /\ \/ op[t] = "restart" /\ pc'[t] = "start" /\ op'[t] = op[t]
             \/ op[t] = "disable" /\ pc'[t] = "persist_disabled" /\ op'[t] = op[t]
             \/ op[t] = "remove" /\ pc'[t] = "remove_commit" /\ op'[t] = op[t]
             \/ pc'[t] = "idle" /\ op'[t] = "none"
      <3>1. CASE StopReturns(t)
        BY <1>0, <3>1, StopReturnsKept
      <3>2. CASE Finish(t)
        BY <1>0, <3>2, FinishTurns
      <3>3. QED
        BY <1>10, <3>1, <3>2 DEF MarkOffline
    <2>3. QED
      BY <1>0, <1>10, <2>1, <2>2, AlikeForked DEF MarkOffline
  <1>11. CASE OffFlags(t)
    <2>1. /\ Alike(t) /\ tgt'[t] = NoName
          /\ \/ op[t] = "boot" /\ pc'[t] = "boot" /\ op'[t] = op[t]
             \/ op[t] # "boot" /\ pc'[t] = "idle" /\ op'[t] = "none"
      BY <1>0, <1>11, NextBootTurns, FinishTurns DEF OffFlags
    <2>2. QED
      BY <1>0, <1>11, <2>1, AlikeForked DEF OffFlags
  <1>12. CASE Restart(t)
    <2>1. /\ Alike(t)
          /\ \/ tgt'[t] = NoName /\ pc'[t] = "idle" /\ op'[t] = "none"
             \/ tgt'[t] = tgt[t] /\ tgt[t] \in disabled /\ pc'[t] = "off_probe" /\ op'[t] = "off"
             \/ tgt'[t] = tgt[t] /\ pc'[t] = "restart_stopped" /\ op'[t] = op[t]
      BY <1>0, <1>12, FinishTurns, BecomeTurns, GotoTurns DEF Restart
    <2>2. QED
      BY <1>0, <1>12, <2>1, AlikeForked, AskedTurns DEF Restart, flags
  <1>13. CASE RestartStopped(t)
    <2>1. /\ Alike(t)
          /\ \/ tgt'[t] = NoName /\ pc'[t] = "idle" /\ op'[t] = "none"
             \/ tgt'[t] = tgt[t] /\ pc'[t] \in {"start", "stop"} /\ op'[t] = op[t]
      BY <1>0, <1>13, FinishTurns, GotoTurns DEF RestartStopped
    <2>2. QED
      BY <1>0, <1>13, <2>1, AlikeForked DEF RestartStopped, flags
  <1>14. CASE Disable(t)
    <2>1. /\ Alike(t)
          /\ \/ tgt'[t] = NoName /\ pc'[t] = "idle" /\ op'[t] = "none"
             \/ tgt'[t] = tgt[t] /\ pc'[t] \in {"persist_disabled", "stop"} /\ op'[t] = op[t]
      BY <1>0, <1>14, FinishTurns, GotoTurns DEF Disable
    <2>2. QED
      BY <1>0, <1>14, <2>1, AlikeForked DEF Disable, flags
  <1>15. QED
    BY <1>1, <1>2, <1>3, <1>4, <1>5, <1>6, <1>7, <1>8, <1>9, <1>10, <1>11, <1>12,
       <1>13, <1>14 DEF TakeDown

LEMMA AdministerKeeps ==
  ASSUME TypeInv, OpsOK, NEW t \in Task, Administer(t)
  PROVE  Kept(t)
  <1> USE DEF Launching, Watching, Calls, Down, TakeOff, Own, Alike, Kept
  <1>0. TasksOK /\ pc[t] \in Calls(op[t]) /\ op[t] \in Own \cup Asked
    BY DEF TypeInv, TypeOK, OpsOK
  <1>1. CASE PersistChange(t)
    <2>1. /\ Alike(t)
          /\ \/ tgt'[t] = NoName /\ pc'[t] = "idle" /\ op'[t] = "none"
             \/ op[t] = "set_channel" /\ tgt'[t] = tgt[t] /\ pc'[t] = "restart" /\ op'[t] = "restart"
      BY <1>0, <1>1, FinishTurns, BecomeTurns DEF PersistChange
    <2>2. QED
      BY <1>0, <1>1, <2>1, AlikeForked, AskedTurns DEF PersistChange, Persisting
  <1>2. ASSUME pc[t] \in Persisting \cup {"add", "remove", "rename", "save_channel",
                                         "remove_commit", "rename_commit", "save_query"},
               Finish(t), UNCHANGED <<launching, boot>>, disabled \subseteq disabled',
               known \subseteq known', known' = known \/ pc[t] = "add"
        PROVE  Kept(t)
    <2>1. Forked(t) /\ tgt'[t] = NoName /\ pc'[t] = "idle" /\ op'[t] = "none"
      BY <1>0, <1>2, FinishTurns, AlikeForked
    <2>2. QED
      BY <1>0, <1>2, <2>1 DEF Persisting
  <1>3. CASE PersistFails(t) \/ Add(t) \/ AdminRefused(t) \/ CommitFails(t) \/ SaveQuery(t)
    <2>1. /\ Finish(t) /\ UNCHANGED <<launching, boot>> /\ disabled \subseteq disabled'
          /\ known \subseteq known' /\ (known' = known \/ pc[t] = "add")
      BY <1>3 DEF PersistFails, Add, AdminRefused, CommitFails, SaveQuery, flags
    <2>2. QED
      BY <1>2, <1>3, <2>1 DEF PersistFails, Add, AdminRefused, CommitFails, SaveQuery, Admin
  <1>4. CASE LockMutations(t)
    <2>1. /\ Alike(t) /\ op'[t] = op[t] /\ tgt'[t] = tgt[t]
          /\ \/ pc[t] = "rename" /\ pc'[t] = "rename_commit"
             \/ pc[t] = "save_channel" /\ pc'[t] = "save_query"
             \/ pc[t] = "remove" /\ pc'[t] \in {"remove_commit", "stop"}
      BY <1>0, <1>4, GotoTurns DEF LockMutations, Admin
    <2>2. QED
      BY <1>0, <1>4, <2>1, AlikeForked DEF LockMutations, flags
  <1>5. CASE RemoveCommit(t) \/ RenameCommit(t)
    <2>1. Forked(t) /\ tgt'[t] = NoName /\ pc'[t] = "idle" /\ op'[t] = "none"
      BY <1>0, <1>5, FinishTurns, AlikeForked DEF RemoveCommit, RenameCommit
    <2>2. /\ pc[t] \in {"remove_commit", "rename_commit"} /\ boot' = boot
          /\ launching \ launching' \subseteq {tgt[t]}
          /\ pc[t] = "remove_commit" => known' \subseteq known /\ disabled \cap known' \subseteq disabled'
          /\ tgt[t] \in launching \ launching' => tgt[t] \notin known'
      BY <1>5 DEF RemoveCommit, RenameCommit
    <2>3. QED
      BY <1>0, <2>1, <2>2
  <1>6. QED
    BY <1>1, <1>3, <1>4, <1>5 DEF Administer

LEMMA BackgroundKeeps ==
  ASSUME TypeInv, OpsOK, NEW t \in Task, Background(t), ~BootTarget(t)
  PROVE  Kept(t)
  <1> USE DEF Launching, Watching, Calls, Down, TakeOff, Own, Alike, Kept
  <1>0. /\ TasksOK /\ pc[t] \in Calls(op[t]) /\ op[t] \in Own \cup Asked
        /\ online \cap launching = {}
    BY DEF TypeInv, TypeOK, OpsOK
  <1>1. CASE BootDone(t)
    <2>1. Alike(t) /\ tgt'[t] = NoName /\ pc'[t] = "idle" /\ op'[t] = "none"
      BY <1>0, <1>1, FinishTurns DEF BootDone
    <2>2. QED
      BY <1>0, <1>1, <2>1, AlikeForked DEF BootDone, flags
  <1>2. CASE BootFailed(t)
    <2>1. Forked(t) /\ pc'[t] = "boot" /\ op'[t] = op[t] /\ tgt'[t] = NoName
      BY <1>0, <1>2, ForkTurns DEF BootFailed
    <2>2. QED
      BY <1>0, <1>2, <2>1 DEF BootFailed, flags
  <1>3. CASE BeginRecovery(t)
    <2>1. /\ Alike(t)
          /\ \/ tgt'[t] = NoName /\ pc'[t] = "idle" /\ op'[t] = "none"
             \/ tgt'[t] = tgt[t] /\ pc'[t] = "backoff" /\ op'[t] = op[t]
      BY <1>0, <1>3, FinishTurns, GotoTurns DEF BeginRecovery
    <2>2. QED
      BY <1>0, <1>3, <2>1, AlikeForked DEF BeginRecovery
  <1>4. CASE Wake(t)
    <2>1. /\ Alike(t)
          /\ \/ tgt'[t] = NoName /\ pc'[t] = "idle" /\ op'[t] = "none"
             \/ tgt'[t] = tgt[t] /\ pc'[t] = "start" /\ op'[t] = op[t]
      BY <1>0, <1>4, FinishTurns, GotoTurns DEF Wake
    <2>2. QED
      BY <1>0, <1>4, <2>1, AlikeForked DEF Wake
  <1>5. CASE Connect(t)
    <2>1. Forked(t) /\ pc'[t] \in {"reading", "lost"} /\ op'[t] = op[t] /\ tgt'[t] = tgt[t]
      BY <1>0, <1>5 DEF Connect, TasksOK, Forked
    <2>2. QED
      BY <1>0, <1>5, <2>1 DEF Connect, flags
  <1>6. CASE EndOfStream(t)
    <2>1. Alike(t) /\ pc'[t] = "lost" /\ op'[t] = op[t] /\ tgt'[t] = tgt[t]
      BY <1>0, <1>6, GotoTurns DEF EndOfStream
    <2>2. QED
      BY <1>0, <1>6, <2>1, AlikeForked DEF EndOfStream, flags
  <1>7. CASE LostIgnored(t)
    <2>1. Alike(t) /\ tgt'[t] = NoName /\ pc'[t] = "idle" /\ op'[t] = "none"
      BY <1>0, <1>7, FinishTurns DEF LostIgnored
    <2>2. QED
      BY <1>0, <1>7, <2>1, AlikeForked DEF LostIgnored, flags
  <1>8. CASE Lost(t)
    <2>1. /\ Alike(t) /\ pc'[t] = "lost_clear" /\ op'[t] \in {"recover", "observe"}
          /\ tgt'[t] = tgt[t]
      BY <1>0, <1>8, BecomeTurns DEF Lost, AfterLoss
    <2>2. launching' = launching
      BY <1>0, <1>8 DEF Lost
    <2>3. QED
      BY <1>0, <1>8, <2>1, <2>2, AlikeForked DEF Lost
  <1>9. CASE LostClear(t)
    <2>1. /\ Alike(t)
          /\ \/ tgt'[t] = NoName /\ pc'[t] = "idle" /\ op'[t] = "none"
             \/ op[t] = "recover" /\ tgt'[t] = tgt[t] /\ pc'[t] = "recovery" /\ op'[t] = op[t]
      BY <1>0, <1>9, FinishTurns, GotoTurns DEF LostClear
    <2>2. QED
      BY <1>0, <1>9, <2>1, AlikeForked DEF LostClear
  <1>10. QED
    BY <1>1, <1>2, <1>3, <1>4, <1>5, <1>6, <1>7, <1>8, <1>9 DEF Background

LEMMA KeptKinds ==
  ASSUME TypeInv, OpsOK, [Next]_vars
  PROVE  \/ \E t \in Task : Kept(t) \/ BootTarget(t) \/ Request(t)
         \/ DaemonRestarts
         \/ UNCHANGED <<known, disabled, launching, boot, pc, op, tgt>>
  <1>1. ASSUME NEW t \in Task, Step(t)
        PROVE  Kept(t) \/ BootTarget(t) \/ DaemonRestarts
    BY <1>1, LaunchKeeps, TakeDownKeeps, AdministerKeeps, BackgroundKeeps DEF Step
  <1>2. CASE Outside
    BY <1>2 DEF Outside, ReadLine, Bind, QuitExit, MpvExit, MpvHang, Leave, tasks, flags
  <1>3. CASE DaemonCrash
    BY <1>3 DEF DaemonCrash
  <1>4. CASE UNCHANGED vars
    BY <1>4 DEF vars, flags, tasks
  <1>5. QED
    BY <1>1, <1>2, <1>3, <1>4 DEF Next, Outside

(***************************************************************************)
(* start_configured_targets: nothing is asked of the daemon before it is   *)
(* through, and nobody works on a target before it or beside it.           *)
(***************************************************************************)
Booting == ~Serving
OnItsTarget(t) == op[t] = "boot" /\ pc[t] \notin {"boot", "boot_failed"}

BootInv ==
  /\ OpsOK
  /\ boot # {} => Booting
  /\ Booting => \A t \in Task : op[t] \in Own
  /\ \A n \in boot, t \in Task : tgt[t] # n
  /\ \A t, u \in Task : OnItsTarget(t) /\ tgt[u] = tgt[t] => t = u
  /\ Booting => \A t \in Task : pc[t] \in Launching => tgt[t] \notin disabled
  /\ \A t \in Task : op[t] = "boot" /\ pc[t] \in TakeOff => tgt[t] \in disabled

LEMMA BootKept ==
  ASSUME TypeInv, BootInv, NEW t \in Task, Kept(t)
  PROVE  BootInv'
  <1>0. /\ TasksOK /\ boot' = boot /\ NoName \notin boot /\ NoName \notin disabled
        /\ \A u \in Task : op[u] = "boot" => pc[u] # "idle"
    BY ConstantsAssumption DEF TypeInv, TypeOK, TargetsOK, BootInv, OpsOK, Calls, TakeOff, Launching, Kept
  <1>1. /\ Forked(t) /\ tgt'[t] \in {tgt[t], NoName}
        /\ op'[t] = "boot" => op[t] = "boot"
        /\ op[t] \in Own => op'[t] \in Own /\ disabled' = disabled
    BY DEF Kept
  <1>2. Booting' => Booting
    BY <1>1 DEF Booting, Serving, Forked
  <1>3. OpsOK'
    BY <1>1 DEF BootInv, OpsOK, Kept, Forked, Calls, Watching, Own
  <1>4. (boot # {} => Booting)'
    BY <1>0, <1>1 DEF BootInv, Booting, Serving, Kept, Forked
  <1>5. (Booting => \A u \in Task : op[u] \in Own)'
    BY <1>1, <1>2 DEF BootInv, Forked, Own
  <1>6. (\A n \in boot, u \in Task : tgt[u] # n)'
    BY <1>0, <1>1 DEF BootInv, Forked
  <1>7. (\A v, u \in Task : OnItsTarget(v) /\ tgt[u] = tgt[v] => v = u)'
    <2> SUFFICES ASSUME NEW v \in Task, NEW u \in Task, OnItsTarget(v)', tgt'[u] = tgt'[v]
                 PROVE  v = u
      OBVIOUS
    <2>1. CASE v = t
      BY <2>1 DEF BootInv, OnItsTarget, Kept
    <2>2. CASE v # t
      <3>1. OnItsTarget(v) /\ tgt'[v] = tgt[v] /\ tgt[v] # NoName
        BY <1>0, <1>1, <2>2 DEF OnItsTarget, Forked, TasksOK
      <3>2. tgt[t] # tgt[v]
        BY <2>2, <3>1 DEF BootInv
      <3>3. QED
        BY <1>1, <2>2, <3>1, <3>2 DEF BootInv, Forked
    <2>3. QED
      BY <2>1, <2>2
  <1>8. (Booting => \A u \in Task : pc[u] \in Launching => tgt[u] \notin disabled)'
    BY <1>1, <1>2 DEF BootInv, Kept, Forked, Launching
  <1>9. (\A u \in Task : op[u] = "boot" /\ pc[u] \in TakeOff => tgt[u] \in disabled)'
    <2> SUFFICES ASSUME NEW u \in Task, op'[u] = "boot", pc'[u] \in TakeOff
                 PROVE  tgt'[u] \in disabled'
      OBVIOUS
    <2>1. Booting' /\ Booting
      BY <1>2 DEF Booting, Serving
    <2>2. disabled' = disabled
      BY <1>1, <2>1 DEF BootInv
    <2>3. CASE u = t
      BY <2>2, <2>3 DEF BootInv, Kept, TakeOff
    <2>4. CASE u # t
      BY <1>1, <2>2, <2>4 DEF BootInv, Forked
    <2>5. QED
      BY <2>3, <2>4
  <1>10. QED
    BY <1>3, <1>4, <1>5, <1>6, <1>7, <1>8, <1>9 DEF BootInv

LEMMA BootTargetKept ==
  ASSUME TypeInv, BootInv, NEW t \in Task, BootTarget(t)
  PROVE  BootInv'
  <1>1. PICK n \in boot :
          /\ boot' = boot \ {n}
          /\ tgt' = [tgt EXCEPT ![t] = n]
          /\ pc' = [pc EXCEPT ![t] = IF n \in disabled THEN "off_probe"
                                     ELSE IF Live(n) THEN "attach" ELSE "start"]
    BY DEF BootTarget
  <1>2. /\ op' = op /\ disabled' = disabled /\ (Booting' <=> Booting)
        /\ pc[t] = "boot" /\ \A u \in Task : tgt[u] # n
    BY <1>1 DEF BootTarget, flags, BootInv, Booting, Serving
  <1>3. op[t] = "boot"
    BY <1>2 DEF BootInv, OpsOK, Calls, Down, TakeOff, Launching, Watching
  <1>4. /\ tgt'[t] = n /\ pc'[t] \in {"off_probe", "attach", "start"}
        /\ pc'[t] = "off_probe" => n \in disabled
        /\ \A u \in Task \ {t} : tgt'[u] = tgt[u] /\ pc'[u] = pc[u]
    BY <1>1 DEF TypeInv, TypeOK, TasksOK
  <1>5. OpsOK'
    BY <1>2, <1>3, <1>4 DEF BootInv, OpsOK, Calls, TakeOff
  <1>6. (\A v, u \in Task : OnItsTarget(v) /\ tgt[u] = tgt[v] => v = u)'
    BY <1>2, <1>4 DEF BootInv, OnItsTarget
  <1>7. Booting
    BY <1>3 DEF Booting, Serving
  <1>8. QED
    BY <1>1, <1>2, <1>4, <1>5, <1>6, <1>7 DEF BootInv, Launching, TakeOff

LEMMA RequestKept ==
  ASSUME TypeInv, BootInv, NEW t \in Task, Request(t)
  PROVE  BootInv'
  <1>1. PICK o \in Ops, n \in Name :
          /\ pc' = [pc EXCEPT ![t] = o]
          /\ op' = [op EXCEPT ![t] = o]
          /\ tgt' = [tgt EXCEPT ![t] = n]
    BY DEF Request
  <1>2. Serving /\ boot = {} /\ boot' = {} /\ disabled' = disabled
    BY DEF Request, flags, BootInv, Booting
  <1>3. o \in Operation /\ o \in Asked
    BY ConstantsAssumption DEF Asked
  <1>4. o \in Calls(o) /\ o # "boot"
    BY <1>3 DEF Operation, Calls, Down
  <1>5. /\ pc'[t] = o /\ op'[t] = o
        /\ \A u \in Task \ {t} : tgt'[u] = tgt[u] /\ pc'[u] = pc[u] /\ op'[u] = op[u]
    BY <1>1 DEF TypeInv, TypeOK, TasksOK
  <1>6. Serving'
    BY <1>2, <1>4, <1>5 DEF Serving
  <1>7. OpsOK'
    BY <1>3, <1>4, <1>5 DEF BootInv, OpsOK
  <1>8. QED
    BY <1>2, <1>6, <1>7 DEF BootInv, Booting, Serving, OnItsTarget

LEMMA BootRestarted ==
  ASSUME TypeInv, DaemonRestarts
  PROVE  BootInv'
  <1>1. PICK t \in Task :
          /\ pc' = [u \in Task |-> IF u = t THEN "boot" ELSE "idle"]
          /\ op' = [u \in Task |-> IF u = t THEN "boot" ELSE "none"]
    BY DEF DaemonRestarts
  <1>2. boot' \subseteq Name /\ \A u \in Task : tgt'[u] = NoName
    BY DEF DaemonRestarts, TypeInv, TypeOK, TargetsOK
  <1>3. QED
    BY <1>1, <1>2, ConstantsAssumption
       DEF BootInv, OpsOK, Calls, Own, Booting, Serving, OnItsTarget, Launching, TakeOff

LEMMA BootStep ==
  ASSUME TypeInv, BootInv, [Next]_vars
  PROVE  BootInv'
  <1>1. CASE UNCHANGED <<known, disabled, launching, boot, pc, op, tgt>>
    BY <1>1 DEF BootInv, OpsOK, Booting, Serving, OnItsTarget
  <1>2. OpsOK
    BY DEF BootInv
  <1>3. QED
    BY <1>1, <1>2, KeptKinds, BootKept, BootTargetKept, RequestKept, BootRestarted

LEMMA BootHolds == Spec => []BootInv
  <1>1. Init => BootInv
    <2> SUFFICES ASSUME Init PROVE BootInv
      OBVIOUS
    <2>1. PICK t \in Task :
            /\ pc = [u \in Task |-> IF u = t THEN "boot" ELSE "idle"]
            /\ op = [u \in Task |-> IF u = t THEN "boot" ELSE "none"]
      BY DEF Init
    <2>2. boot \subseteq Name /\ \A u \in Task : tgt[u] = NoName
      BY DEF Init
    <2>3. QED
      BY <2>1, <2>2, ConstantsAssumption
         DEF BootInv, OpsOK, Calls, Own, Booting, Serving, OnItsTarget, Launching, TakeOff
  <1>2. QED
    BY <1>1, BootStep, TypesHold, PTL DEF Spec

\* How the boot loop shuts everybody else out of the target it is on.
LEMMA BootAlone ==
  ASSUME BootInv, NEW t \in Task, NEW u \in Task, OnItsTarget(t), tgt[u] = tgt[t]
  PROVE  u = t
  BY DEF BootInv

(***************************************************************************)
(* One launch per target.  The reservation is given up by somebody else's  *)
(* step where a target is removed and added again, or renamed, under a     *)
(* launch, and where a restart that found its target disabled clears the   *)
(* flags of a target that has been enabled and started since.              *)
(***************************************************************************)
NoOverlap ==
  /\ "rename" \notin Ops
  /\ "remove" \in Ops => "add" \notin Ops
  /\ "enable" \in Ops => Ops \cap {"restart", "set_channel"} = {}

\* The targets nobody will start any more.
Barred == (IF "enable" \in Ops THEN {} ELSE disabled)
            \cup (IF "add" \in Ops THEN {} ELSE Name \ known)

LaunchInv ==
  /\ \A t \in Task : pc[t] \in Launching => tgt[t] \in launching \cup Barred
  /\ \A t \in Task : op[t] = "off" => tgt[t] \in Barred
  /\ LaunchExclusive

LEMMA NoOverlapOps ==
  ASSUME NoOverlap
  PROVE  /\ "rename" \notin Own \cup Asked
         /\ "remove" \in Own \cup Asked => "add" \notin Ops
         /\ "add" \in Own \cup Asked <=> "add" \in Ops
         /\ "enable" \in Own \cup Asked <=> "enable" \in Ops
         /\ "off" \in Own \cup Asked => "enable" \notin Ops
  BY ConstantsAssumption DEF NoOverlap, Own, Asked, Operation

LEMMA BarredKept ==
  ASSUME TypeInv, BootInv, NoOverlap, NEW t \in Task, Kept(t)
  PROVE  Barred \subseteq Barred'
  <1>1. op[t] \in Own \cup Asked
    BY DEF BootInv, OpsOK
  <1>2. disabled \subseteq known /\ known \subseteq Name
    BY DEF TypeInv, TypeOK, TargetsOK
  <1>3. /\ known \subseteq known' \/ op[t] = "remove"
        /\ known' \subseteq known \/ op[t] = "add"
        /\ disabled \cap known' \subseteq disabled' \/ op[t] = "enable"
    BY <1>1, NoOverlapOps DEF Kept
  <1>4. QED
    BY <1>1, <1>2, <1>3, NoOverlapOps DEF Barred

LEMMA LaunchKept ==
  ASSUME TypeInv, BootInv, LaunchInv, NoOverlap, NEW t \in Task, Kept(t)
  PROVE  LaunchInv'
  <1>1. /\ \A u \in Task : pc[u] \in Calls(op[u]) /\ op[u] \in Own \cup Asked
        /\ op[t] # "rename" /\ Barred \subseteq Barred'
    BY NoOverlapOps, BarredKept DEF BootInv, OpsOK
  <1>2. \A u \in Task \ {t} :
          \/ pc'[u] = pc[u] /\ op'[u] = op[u] /\ tgt'[u] = tgt[u]
          \/ pc'[u] \notin Launching /\ op'[u] # "off"
    BY DEF Kept, Forked, Launching
  <1>3. /\ pc'[t] \in Launching =>
             /\ tgt'[t] = tgt[t]
             /\ \/ pc[t] \in Launching
                \/ tgt[t] \in (launching' \cap known) \ (launching \cup disabled)
        /\ op'[t] = "off" => tgt'[t] = tgt[t] /\ (op[t] = "off" \/ tgt[t] \in disabled)
    BY DEF Kept
  <1>4. ASSUME NEW u \in Task, op'[u] = "off" PROVE tgt'[u] \in Barred'
    <2>1. op'[u] \in Own \cup Asked
      BY <1>1, <1>2, <1>4 DEF Kept
    <2>2. disabled \subseteq Barred
      BY <1>4, <2>1, NoOverlapOps DEF Barred
    <2>3. QED
      BY <1>1, <1>2, <1>3, <1>4, <2>2 DEF LaunchInv
  <1>5. ASSUME NEW u \in Task, pc'[u] \in Launching PROVE tgt'[u] \in launching' \cup Barred'
    <2>1. CASE pc[u] \in Launching /\ tgt'[u] = tgt[u]
      <3>1. tgt[u] \in launching \cup Barred
        BY <2>1 DEF LaunchInv
      <3>2. CASE tgt[u] \in launching \ launching'
        <4>1. /\ tgt[u] = tgt[t]
              /\ \/ pc[t] \in Launching /\ pc'[t] \notin Launching
                 \/ pc[t] \in {"attach", "off_flags"}
                 \/ pc[t] = "remove_commit" /\ tgt[t] \notin known'
          <5>1. pc[t] # "rename_commit"
            BY <1>1 DEF Calls, Down, TakeOff, Launching, Watching
          <5>2. QED
            BY <3>2, <5>1 DEF Kept
        <4>2. CASE pc[t] \in Launching /\ pc'[t] \notin Launching
          BY <1>5, <2>1, <4>1, <4>2 DEF LaunchInv, LaunchExclusive
        <4>3. CASE pc[t] = "attach"
          <5>1. OnItsTarget(t)
            BY <1>1, <4>3 DEF OnItsTarget, Calls, Down, TakeOff, Launching, Watching
          <5>2. QED
            BY <2>1, <4>1, <4>3, <5>1, BootAlone DEF Launching
        <4>4. CASE pc[t] = "off_flags"
          <5>1. op[t] \in {"boot", "off"}
            BY <1>1, <4>4 DEF Calls, Down, TakeOff, Launching, Watching
          <5>2. CASE op[t] = "boot"
            BY <2>1, <4>1, <4>4, <5>2 DEF BootInv, Booting, Serving, TakeOff
          <5>3. CASE op[t] = "off"
            BY <1>1, <2>1, <4>1, <5>3 DEF LaunchInv
          <5>4. QED
            BY <5>1, <5>2, <5>3
        <4>5. CASE pc[t] = "remove_commit" /\ tgt[t] \notin known'
          <5>1. op[t] = "remove"
            BY <1>1, <4>5 DEF Calls, Down, TakeOff, Launching, Watching
          <5>2. tgt[t] \in Name /\ "add" \notin Ops
            BY <1>1, <4>5, <5>1, NoOverlapOps DEF TypeInv, TypeOK, TasksOK
          <5>3. QED
            BY <2>1, <4>1, <4>5, <5>2 DEF Barred
        <4>6. QED
          BY <4>1, <4>2, <4>3, <4>4, <4>5
      <3>3. QED
        BY <1>1, <2>1, <3>1, <3>2
    <2>2. CASE u = t /\ pc[t] \notin Launching
      BY <1>3, <1>5, <2>2
    <2>3. QED
      BY <1>2, <1>3, <1>5, <2>1, <2>2
  <1>6. LaunchExclusive'
    <2> SUFFICES ASSUME NEW u \in Task, NEW v \in Task, pc'[u] \in Launching,
                        pc'[v] \in Launching, tgt'[u] = tgt'[v], u # v
                 PROVE  FALSE
      BY DEF LaunchExclusive, Launching
    <2>1. ASSUME NEW w \in Task, w # t, pc'[w] \in Launching
          PROVE  /\ pc[w] \in Launching /\ tgt'[w] = tgt[w]
                 /\ tgt[w] \in launching \cup disabled \cup (Name \ known)
      BY <1>2, <2>1 DEF LaunchInv, Barred
    <2>2. CASE u # t /\ v # t
      BY <2>1, <2>2 DEF LaunchInv, LaunchExclusive
    <2>3. ASSUME NEW w \in Task, w # t, pc'[w] \in Launching, pc'[t] \in Launching,
                 tgt'[w] = tgt'[t]
          PROVE  FALSE
      BY <1>3, <2>1, <2>3 DEF LaunchInv, LaunchExclusive
    <2>4. QED
      BY <2>2, <2>3
  <1>7. QED
    BY <1>4, <1>5, <1>6 DEF LaunchInv, Launching

LEMMA LaunchStep ==
  ASSUME TypeInv, BootInv, LaunchInv, NoOverlap, [Next]_vars
  PROVE  LaunchInv'
  <1>1. ASSUME NEW t \in Task, BootTarget(t) PROVE LaunchInv'
    <2>1. /\ \A u \in Task \ {t} : pc'[u] = pc[u] /\ tgt'[u] = tgt[u]
          /\ pc'[t] \in {"off_probe", "attach", "start"}
          /\ UNCHANGED <<known, launching, disabled, op>> /\ pc[t] = "boot"
      BY <1>1 DEF BootTarget, flags, TypeInv, TypeOK, TasksOK
    <2>2. op[t] # "off"
      BY <2>1 DEF BootInv, OpsOK, Calls, TakeOff
    <2>3. QED
      BY <2>1, <2>2 DEF LaunchInv, LaunchExclusive, Launching, Barred
  <1>2. ASSUME NEW t \in Task, Request(t) PROVE LaunchInv'
    <2>1. PICK o \in Ops :
            /\ \A u \in Task \ {t} : pc'[u] = pc[u] /\ tgt'[u] = tgt[u] /\ op'[u] = op[u]
            /\ pc'[t] = o /\ op'[t] = o
            /\ UNCHANGED <<known, launching, disabled>>
      BY <1>2 DEF Request, flags, TypeInv, TypeOK, TasksOK
    <2>2. o \notin Launching /\ o # "off"
      BY ConstantsAssumption DEF Operation, Launching
    <2>3. QED
      BY <2>1, <2>2 DEF LaunchInv, LaunchExclusive, Launching, Barred
  <1>3. CASE DaemonRestarts
    BY <1>3 DEF DaemonRestarts, LaunchInv, LaunchExclusive, Launching
  <1>4. CASE UNCHANGED <<known, disabled, launching, boot, pc, op, tgt>>
    BY <1>4 DEF LaunchInv, LaunchExclusive, Barred
  <1>5. OpsOK
    BY DEF BootInv
  <1>6. QED
    BY <1>1, <1>2, <1>3, <1>4, <1>5, KeptKinds, LaunchKept

LEMMA LaunchHolds ==
  ASSUME NoOverlap
  PROVE  Spec => []LaunchInv
  <1>1. Init => LaunchInv
    BY DEF Init, LaunchInv, LaunchExclusive, Launching
  <1>2. TypeInv /\ BootInv /\ LaunchInv /\ [Next]_vars => LaunchInv'
    BY LaunchStep
  <1>3. QED
    BY <1>1, <1>2, TypesHold, BootHolds, PTL DEF Spec

\* At most one launch per target is in flight, however many clients start and
\* restart it and however often its mpv is lost: start's test and reservation
\* are one critical section, and nothing but the launch itself gives the
\* reservation up - given the clients NoOverlap describes.
THEOREM LaunchesExclusive ==
  ASSUME NoOverlap
  PROVE  Spec => []LaunchExclusive
  <1>1. LaunchInv => LaunchExclusive
    BY DEF LaunchInv
  <1>2. QED
    BY <1>1, LaunchHolds, PTL

(***************************************************************************)
(* One mpv per target.  A daemon that dies between its spawn and the bind  *)
(* of its child leaves a process the next daemon's probe does not find, so *)
(* the daemon itself does not crash here; everything else may fail.        *)
(***************************************************************************)
Launched(p) ==
  \E t \in Task : pc[t] = "await_socket" /\ tgt[t] = home[p] /\ link[t] = p

MpvInv ==
  /\ \A p \in Mpv : home[p] # NoName =>
       socket[home[p]] = p \/ (mpv[p] = "starting" /\ Launched(p))
  /\ \A t \in Task, p \in Mpv : pc[t] = "spawn" => home[p] # tgt[t]
  /\ Booting => \A p \in Mpv : home[p] \notin disabled
  /\ \A t \in Task : op[t] = "boot" => pc[t] \notin {"quit", "await_gone"}
  /\ NoDuplicateMpv

\* A step of t that starts, binds and ends no process.
Aside(t) ==
  /\ UNCHANGED <<home, socket>>
  /\ \A p \in Mpv : mpv'[p] = mpv[p] \/ mpv[p] # "starting"
  /\ \A u \in Task \ {t} : link'[u] = link[u]
  /\ pc[t] # "await_socket" /\ pc'[t] # "spawn"
  /\ pc'[t] \in {"quit", "await_gone"} =>
       pc[t] \in {"quit", "stop"} \/ (pc[t] = "off_probe" /\ Live(tgt[t]))

LEMMA LaunchAside ==
  ASSUME TypeInv, OpsOK, NEW t \in Task,
         \/ StartRefused(t) \/ StartJoins(t) \/ StartLaunches(t)
         \/ MarkOnline(t) \/ AlreadyOnline(t) \/ LaunchFailed(t)
  PROVE  Aside(t)
  <1> USE DEF Aside, Alike, procs
  <1>0. TasksOK
    BY DEF TypeInv, TypeOK
  <1>1. CASE StartRefused(t)
    BY <1>0, <1>1, StartReturnsKept DEF StartRefused
  <1>2. CASE StartJoins(t)
    BY <1>0, <1>2, StartReturnsKept DEF StartJoins
  <1>3. CASE StartLaunches(t)
    BY <1>0, <1>3, GotoTurns DEF StartLaunches
  <1>4. CASE MarkOnline(t)
    <2>1. CASE op[t] = "boot"
      BY <1>0, <1>4, <2>1, ForkTurns DEF MarkOnline
    <2>2. CASE op[t] # "boot"
      BY <1>0, <1>4, <2>2, BecomeTurns DEF MarkOnline
    <2>3. QED
      BY <2>1, <2>2
  <1>5. CASE AlreadyOnline(t)
    <2>1. (tgt[t] \in known) \in BOOLEAN
      OBVIOUS
    <2>2. QED
      BY <1>0, <1>5, <2>1, StartReturnsKept DEF AlreadyOnline, Launching
  <1>6. CASE LaunchFailed(t)
    <2>1. /\ \A u \in Task \ {t} : link'[u] = link[u]
          /\ pc'[t] \in {"boot_failed", "backoff", "recovery"}
      <3>1. CASE Fork(t, "boot_failed", "recovery", "recover")
        BY <1>0, <1>6, <3>1, ForkTurns DEF LaunchFailed
      <3>2. CASE Fork(t, "backoff", "recovery", "recover")
        BY <1>0, <1>6, <3>2, ForkTurns DEF LaunchFailed
      <3>3. CASE Goto(t, "backoff")
        BY <1>0, <3>3, GotoTurns
      <3>4. CASE Become(t, "recovery", "recover")
        BY <1>0, <3>4, BecomeTurns
      <3>5. QED
        BY <1>6, <3>1, <3>2, <3>3, <3>4 DEF LaunchFailed
    <2>2. QED
      BY <1>6, <2>1 DEF LaunchFailed
  <1>7. QED
    BY <1>1, <1>2, <1>3, <1>4, <1>5, <1>6

\* A boot task is never where a failure ends the daemon.
LEMMA TakeDownAside ==
  ASSUME TypeInv, OpsOK, MpvInv, NEW t \in Task, TakeDown(t)
  PROVE  Aside(t)
  <1> USE DEF Aside, Alike, procs
  <1>0. TasksOK /\ pc[t] \in Calls(op[t])
    BY DEF TypeInv, TypeOK, OpsOK
  <1>1. ASSUME StopFails(t), pc[t] \in {"stop", "quit", "await_gone"} PROVE Aside(t)
    <2>1. op[t] # "boot"
      BY <1>0, <1>1 DEF MpvInv, Calls, TakeOff, Launching
    <2>2. QED
      BY <1>0, <1>1, <2>1, FinishTurns DEF StopFails
  <1>2. CASE StopRefused(t) \/ QuitFails(t) \/ ReplyLost(t) \/ GoneTimesOut(t)
    BY <1>1, <1>2 DEF StopRefused, QuitFails, ReplyLost, GoneTimesOut
  <1>3. CASE Stop(t)
    BY <1>0, <1>3, GotoTurns DEF Stop
  <1>4. CASE OffProbe(t)
    BY <1>0, <1>4, GotoTurns DEF OffProbe
  <1>5. CASE Quit(t)
    <2>1. mpv[socket[tgt[t]]] # "starting" /\ mpv \in [Mpv -> {"none", "starting", "live", "hung", "quitting"}]
      BY <1>0, <1>5, Dispatched DEF Quit, TypeInv, TypeOK, ProcsOK
    <2>2. QED
      BY <1>0, <1>5, <2>1, GotoTurns DEF Quit
  <1>6. CASE SocketGone(t)
    BY <1>0, <1>6, GotoTurns DEF SocketGone
  <1>7. CASE ClearObserved(t)
    BY <1>0, <1>7, GotoTurns DEF ClearObserved
  <1>8. CASE MarkOffline(t)
    BY <1>0, <1>8, StopReturnsKept, FinishTurns DEF MarkOffline
  <1>9. CASE OffFlags(t)
    BY <1>0, <1>9, NextBootTurns, FinishTurns DEF OffFlags
  <1>10. CASE Restart(t)
    BY <1>0, <1>10, FinishTurns, BecomeTurns, GotoTurns DEF Restart
  <1>11. CASE RestartStopped(t)
    BY <1>0, <1>11, FinishTurns, GotoTurns DEF RestartStopped
  <1>12. CASE Disable(t)
    BY <1>0, <1>12, FinishTurns, GotoTurns DEF Disable
  <1>13. QED
    BY <1>2, <1>3, <1>4, <1>5, <1>6, <1>7, <1>8, <1>9, <1>10, <1>11, <1>12 DEF TakeDown

LEMMA AdministerAside ==
  ASSUME TypeInv, NEW t \in Task, Administer(t)
  PROVE  Aside(t)
  <1> USE DEF Aside, Alike, procs
  <1>0. TasksOK
    BY DEF TypeInv, TypeOK
  <1>1. CASE PersistChange(t)
    BY <1>0, <1>1, FinishTurns, BecomeTurns DEF PersistChange, Persisting
  <1>2. CASE PersistFails(t) \/ Add(t)
    BY <1>0, <1>2, FinishTurns DEF PersistFails, Add, Persisting
  <1>3. CASE AdminRefused(t) \/ CommitFails(t) \/ SaveQuery(t)
    BY <1>0, <1>3, FinishTurns DEF AdminRefused, CommitFails, SaveQuery, Admin
  <1>4. CASE LockMutations(t)
    BY <1>0, <1>4, GotoTurns DEF LockMutations, Admin
  <1>5. CASE RemoveCommit(t) \/ RenameCommit(t)
    BY <1>0, <1>5, FinishTurns DEF RemoveCommit, RenameCommit
  <1>6. QED
    BY <1>1, <1>2, <1>3, <1>4, <1>5 DEF Administer

LEMMA BackgroundAside ==
  ASSUME TypeInv, NEW t \in Task, Background(t) \/ Request(t)
  PROVE  Aside(t)
  <1> USE DEF Aside, Alike, procs
  <1>0. TasksOK
    BY DEF TypeInv, TypeOK
  <1>1. CASE BootTarget(t)
    BY <1>0, <1>1 DEF BootTarget, TasksOK
  <1>2. CASE BootDone(t) \/ LostIgnored(t)
    BY <1>0, <1>2, FinishTurns DEF BootDone, LostIgnored
  <1>3. CASE BootFailed(t)
    BY <1>0, <1>3, ForkTurns DEF BootFailed
  <1>4. CASE BeginRecovery(t) \/ Wake(t) \/ LostClear(t)
    BY <1>0, <1>4, FinishTurns, GotoTurns DEF BeginRecovery, Wake, LostClear
  <1>5. CASE Connect(t)
    BY <1>0, <1>5 DEF Connect, TasksOK
  <1>6. CASE EndOfStream(t) \/ Lost(t)
    BY <1>0, <1>6, GotoTurns, BecomeTurns DEF EndOfStream, Lost
  <1>7. CASE Request(t)
    <2>1. PICK o \in Ops : pc' = [pc EXCEPT ![t] = o]
      BY <1>7 DEF Request
    <2>2. o \notin {"spawn", "quit", "await_gone"}
      BY ConstantsAssumption DEF Operation
    <2>3. QED
      BY <1>0, <1>7, <2>1, <2>2 DEF Request, TasksOK
  <1>8. QED
    BY <1>1, <1>2, <1>3, <1>4, <1>5, <1>6, <1>7 DEF Background

\* Nothing is configured while the boot loop runs, and no task joins it.
LEMMA BootSettles ==
  ASSUME TypeInv, BootInv, NEW t \in Task, Kept(t) \/ BootTarget(t) \/ Request(t)
  PROVE  /\ Booting' => Booting /\ disabled' = disabled
         /\ \A u \in Task : op'[u] = "boot" => op[u] = "boot"
         /\ OthersKept(t)
  <1>1. CASE Kept(t)
    <2>1. \A u \in Task : op'[u] = "boot" => op[u] = "boot"
      BY <1>1 DEF Kept, Forked
    <2>2. QED
      BY <1>1, <2>1 DEF BootInv, Booting, Serving, Kept, Forked, OthersKept
  <1>2. CASE BootTarget(t)
    BY <1>2 DEF BootTarget, flags, Booting, Serving, OthersKept, TypeInv, TypeOK, TasksOK
  <1>3. CASE Request(t)
    <2>1. PICK o \in Ops, n \in Name :
            pc' = [pc EXCEPT ![t] = o] /\ op' = [op EXCEPT ![t] = o] /\ tgt' = [tgt EXCEPT ![t] = n]
      BY <1>3 DEF Request
    <2>2. o # "boot"
      BY ConstantsAssumption DEF Operation
    <2>3. QED
      BY <1>3, <2>1, <2>2
         DEF Request, Booting, Serving, OthersKept, TypeInv, TypeOK, TasksOK
  <1>4. QED
    BY <1>1, <1>2, <1>3

\* A live socket at a target's path is that of a process of the target.
LEMMA LiveHome ==
  ASSUME ProcsOK, NEW n \in Name, Live(n)
  PROVE  /\ socket[n] \in Mpv /\ home[socket[n]] = n
         /\ mpv[socket[n]] \in {"live", "hung", "quitting"}
  BY DEF ProcsOK, Live

LEMMA AsideKept ==
  ASSUME TypeInv, BootInv, MpvInv, NEW t \in Task, Aside(t), OthersKept(t),
         Booting' => Booting /\ disabled' = disabled,
         \A u \in Task : op'[u] = "boot" => op[u] = "boot"
  PROVE  MpvInv'
  <1>1. ASSUME NEW p \in Mpv, home[p] # NoName
        PROVE  socket'[home[p]] = p \/ (mpv'[p] = "starting" /\ Launched(p)')
    <2>1. CASE socket[home[p]] = p
      BY <2>1 DEF Aside
    <2>2. CASE mpv[p] = "starting" /\ Launched(p)
      <3>1. PICK u \in Task : pc[u] = "await_socket" /\ tgt[u] = home[p] /\ link[u] = p
        BY <2>2 DEF Launched
      <3>2. u # t /\ pc'[u] = "await_socket" /\ tgt'[u] = home[p] /\ link'[u] = p
        BY <3>1 DEF Aside, OthersKept
      <3>3. QED
        BY <2>2, <3>2 DEF Aside, Launched
    <2>3. QED
      BY <1>1, <2>1, <2>2 DEF MpvInv
  <1>2. \A u \in Task, p \in Mpv : pc'[u] = "spawn" => home[p] # tgt'[u]
    BY DEF MpvInv, Aside, OthersKept
  <1>3. ASSUME NEW u \in Task, op'[u] = "boot", pc'[u] \in {"quit", "await_gone"}
        PROVE  FALSE
    <2>1. op[u] = "boot" /\ pc[u] \notin {"quit", "await_gone", "stop", "idle"}
      BY <1>3 DEF MpvInv, BootInv, OpsOK, Calls, TakeOff, Launching
    <2>2. u = t /\ pc[t] = "off_probe" /\ Live(tgt[t])
      BY <1>3, <2>1 DEF OthersKept, Aside
    <2>3. tgt[t] \in disabled /\ tgt[t] \in Name
      BY <2>1, <2>2, Dispatched DEF BootInv, TakeOff, TypeInv, TypeOK
    <2>4. QED
      BY <2>1, <2>2, <2>3, LiveHome DEF TypeInv, TypeOK, MpvInv, Booting, Serving
  <1>4. QED
    BY <1>1, <1>2, <1>3 DEF MpvInv, Aside, NoDuplicateMpv

(***************************************************************************)
(* The steps of a launch that look at or change the processes.             *)
(***************************************************************************)
LEMMA ProbeKept ==
  ASSUME TypeInv, BootInv, LaunchInv, MpvInv, NEW t \in Task, Probe(t), BootInv'
  PROVE  MpvInv'
  <1>1. /\ Alike(t) /\ pc[t] = "probe" /\ op'[t] = op[t] /\ tgt'[t] = tgt[t]
        /\ pc'[t] \in {"launch_failed", "mark_online", "spawn"}
        /\ pc'[t] = "spawn" => ~Live(tgt[t])
        /\ UNCHANGED <<disabled, mpv, home, socket>>
    BY GotoTurns DEF Probe, flags, procs, TypeInv, TypeOK
  <1>2. /\ \A u \in Task \ {t} : pc'[u] = pc[u] /\ op'[u] = op[u] /\ tgt'[u] = tgt[u] /\ link'[u] = link[u]
        /\ Booting' <=> Booting
    BY <1>1 DEF Alike, Booting, Serving
  <1>3. \A p \in Mpv : Launched(p) => Launched(p)'
    BY <1>1, <1>2 DEF Launched
  <1>4. ASSUME NEW p \in Mpv, ~Live(tgt[t]) PROVE home[p] # tgt[t]
    <2> SUFFICES ASSUME home[p] = tgt[t] PROVE FALSE
      OBVIOUS
    <2>1. home[p] # NoName /\ p # NoMpv /\ socket[tgt[t]] = NoMpv
      BY <1>1, <1>4, Dispatched, ConstantsAssumption DEF TypeInv, TypeOK, Live
    <2>2. PICK u \in Task : pc[u] = "await_socket" /\ tgt[u] = tgt[t]
      BY <2>1 DEF MpvInv, Launched
    <2>3. QED
      BY <1>1, <2>2 DEF LaunchInv, LaunchExclusive, Launching
  <1>5. \A u \in Task, p \in Mpv : pc'[u] = "spawn" => home[p] # tgt'[u]
    BY <1>1, <1>2, <1>4 DEF MpvInv
  <1>6. QED
    BY <1>1, <1>2, <1>3, <1>5 DEF MpvInv, NoDuplicateMpv

LEMMA SpawnKept ==
  ASSUME TypeInv, BootInv, LaunchInv, MpvInv, NEW t \in Task, Spawn(t)
  PROVE  MpvInv'
  <1> DEFINE n == tgt[t]
  <1>1. PICK q \in Mpv :
          /\ mpv[q] = "none"
          /\ mpv' = [mpv EXCEPT ![q] = "starting"]
          /\ home' = [home EXCEPT ![q] = n]
          /\ pc' = [pc EXCEPT ![t] = "await_socket"]
          /\ link' = [link EXCEPT ![t] = q]
    BY DEF Spawn
  <1>2. /\ pc[t] = "spawn" /\ n \in Name /\ n # NoName
        /\ socket' = [socket EXCEPT ![n] = NoMpv] /\ UNCHANGED <<op, tgt, disabled>>
    BY Dispatched DEF Spawn, flags, TypeInv, TypeOK
  <1>3. /\ mpv'[q] = "starting" /\ home'[q] = n /\ pc'[t] = "await_socket" /\ link'[t] = q
        /\ \A p \in Mpv \ {q} : mpv'[p] = mpv[p] /\ home'[p] = home[p]
        /\ \A u \in Task \ {t} : pc'[u] = pc[u] /\ link'[u] = link[u]
        /\ \A m \in Name \ {n} : socket'[m] = socket[m]
        /\ home \in [Mpv -> Name \cup {NoName}]
    BY <1>1, <1>2 DEF TypeInv, TypeOK, TasksOK, ProcsOK
  <1>4. \A p \in Mpv : home[p] # n
    BY <1>2 DEF MpvInv
  <1>5. ASSUME NEW p \in Mpv, home'[p] # NoName
        PROVE  socket'[home'[p]] = p \/ (mpv'[p] = "starting" /\ Launched(p)')
    <2>1. CASE p = q
      BY <1>2, <1>3, <2>1 DEF Launched
    <2>2. CASE p # q
      <3>1. home'[p] = home[p] /\ home[p] \in Name \ {n}
        BY <1>3, <1>4, <1>5, <2>2
      <3>2. CASE socket[home[p]] = p
        BY <1>3, <3>1, <3>2
      <3>3. CASE mpv[p] = "starting" /\ Launched(p)
        <4>1. PICK u \in Task : pc[u] = "await_socket" /\ tgt[u] = home[p] /\ link[u] = p
          BY <3>3 DEF Launched
        <4>2. u # t
          BY <1>2, <4>1
        <4>3. QED
          BY <1>2, <1>3, <2>2, <3>1, <3>3, <4>1, <4>2 DEF Launched
      <3>4. QED
        BY <1>5, <3>1, <3>2, <3>3 DEF MpvInv
    <2>3. QED
      BY <2>1, <2>2
  <1>6. \A u \in Task, p \in Mpv : pc'[u] = "spawn" => home'[p] # tgt'[u]
    <2>1. \A u \in Task \ {t} : pc[u] = "spawn" => tgt[u] # n
      BY <1>2 DEF LaunchInv, LaunchExclusive, Launching
    <2>2. QED
      BY <1>2, <1>3, <2>1 DEF MpvInv
  <1>7. Booting' => \A p \in Mpv : home'[p] \notin disabled'
    <2>1. Booting' <=> Booting
      BY <1>2 DEF Booting, Serving
    <2>2. Booting => n \notin disabled
      BY <1>2 DEF BootInv, Launching
    <2>3. QED
      BY <1>2, <1>3, <2>1, <2>2 DEF MpvInv
  <1>8. NoDuplicateMpv'
    BY <1>3, <1>4 DEF MpvInv, NoDuplicateMpv
  <1>9. QED
    BY <1>2, <1>3, <1>5, <1>6, <1>7, <1>8 DEF MpvInv

LEMMA SpawnFailsKept ==
  ASSUME TypeInv, BootInv, MpvInv, NEW t \in Task, SpawnFails(t)
  PROVE  MpvInv'
  <1>1. /\ Alike(t) /\ pc[t] = "spawn" /\ pc'[t] = "launch_failed"
        /\ op'[t] = op[t] /\ tgt'[t] = tgt[t] /\ UNCHANGED <<disabled, mpv, home>>
        /\ \A n \in Name \ {tgt[t]} : socket'[n] = socket[n]
    BY GotoTurns DEF SpawnFails, flags, TypeInv, TypeOK, ProcsOK
  <1>2. Booting' <=> Booting
    BY <1>1 DEF Alike, Booting, Serving
  <1>3. ASSUME NEW p \in Mpv, home[p] # NoName
        PROVE  socket'[home[p]] = p \/ (mpv[p] = "starting" /\ Launched(p)')
    <2>1. home[p] # tgt[t] /\ home[p] \in Name
      BY <1>1, <1>3 DEF MpvInv, TypeInv, TypeOK, ProcsOK
    <2>2. Launched(p) => Launched(p)'
      BY <1>1 DEF Alike, Launched
    <2>3. QED
      BY <1>1, <1>3, <2>1, <2>2 DEF MpvInv
  <1>4. QED
    BY <1>1, <1>2, <1>3 DEF MpvInv, NoDuplicateMpv, Alike

LEMMA SocketAppearsKept ==
  ASSUME TypeInv, BootInv, MpvInv, NEW t \in Task, SocketAppears(t)
  PROVE  MpvInv'
  <1>1. /\ Alike(t) /\ pc[t] = "await_socket" /\ pc'[t] = "mark_online"
        /\ op'[t] = op[t] /\ tgt'[t] = tgt[t] /\ UNCHANGED <<disabled, mpv, home, socket>>
        /\ Live(tgt[t])
    BY BecomeTurns DEF SocketAppears, flags, procs, TypeInv, TypeOK
  <1>2. Booting' <=> Booting
    BY <1>1 DEF Alike, Booting, Serving
  <1>3. ASSUME NEW p \in Mpv, home[p] # NoName
        PROVE  socket[home[p]] = p \/ (mpv[p] = "starting" /\ Launched(p)')
    <2>1. CASE home[p] = tgt[t]
      <3>1. socket[tgt[t]] \in Mpv /\ home[socket[tgt[t]]] = tgt[t]
        BY <1>1, Dispatched, LiveHome DEF TypeInv, TypeOK
      <3>2. QED
        BY <1>3, <2>1, <3>1 DEF MpvInv, NoDuplicateMpv
    <2>2. CASE home[p] # tgt[t]
      <3>1. Launched(p) => Launched(p)'
        BY <1>1, <2>2 DEF Alike, Launched
      <3>2. QED
        BY <1>3, <3>1 DEF MpvInv
    <2>3. QED
      BY <2>1, <2>2
  <1>4. QED
    BY <1>1, <1>2, <1>3 DEF MpvInv, NoDuplicateMpv, Alike

\* A process that goes takes its socket and its connections with it, and no
\* other process of the target is there to miss them.
LEMMA GoneKept ==
  ASSUME TypeInv, BootInv, MpvInv, NEW q \in Mpv, Gone(q), link' = Unlinked(q),
         UNCHANGED <<disabled, op, tgt>>, NEW t \in Task,
         \A u \in Task : pc'[u] = pc[u] \/ (u = t /\ link[t] = q /\ pc'[t] = "launch_failed")
  PROVE  MpvInv'
  <1>1. /\ home'[q] = NoName
        /\ \A p \in Mpv \ {q} : mpv'[p] = mpv[p] /\ home'[p] = home[p]
        /\ \A n \in Name : socket[n] # q => socket'[n] = socket[n]
        /\ home \in [Mpv -> Name \cup {NoName}]
    BY DEF Gone, TypeInv, TypeOK, ProcsOK
  <1>2. \A u \in Task : link[u] # q => link'[u] = link[u]
    BY DEF Unlinked
  <1>3. ASSUME NEW p \in Mpv, home'[p] # NoName
        PROVE  socket'[home'[p]] = p \/ (mpv'[p] = "starting" /\ Launched(p)')
    <2>1. p # q /\ home'[p] = home[p] /\ home[p] \in Name /\ mpv'[p] = mpv[p]
      BY <1>1, <1>3
    <2>2. CASE socket[home[p]] = p
      BY <1>1, <2>1, <2>2
    <2>3. CASE mpv[p] = "starting" /\ Launched(p)
      <3>1. PICK u \in Task : pc[u] = "await_socket" /\ tgt[u] = home[p] /\ link[u] = p
        BY <2>3 DEF Launched
      <3>2. pc'[u] = "await_socket" /\ tgt'[u] = home'[p] /\ link'[u] = p
        BY <1>2, <2>1, <3>1
      <3>3. QED
        BY <2>1, <2>3, <3>2 DEF Launched
    <2>4. QED
      BY <1>3, <2>1, <2>2, <2>3 DEF MpvInv
  <1>4. \A u \in Task, p \in Mpv : pc'[u] = "spawn" => home'[p] # tgt'[u]
    <2>1. \A u \in Task : pc[u] = "spawn" => tgt[u] # NoName
      BY Dispatched DEF TypeInv, TypeOK
    <2>2. QED
      BY <1>1, <2>1 DEF MpvInv
  <1>5. Booting' => \A p \in Mpv : home'[p] \notin disabled'
    <2>1. NoName \notin disabled /\ (Booting' <=> Booting)
      BY ConstantsAssumption DEF TypeInv, TypeOK, TargetsOK, Booting, Serving
    <2>2. QED
      BY <1>1, <2>1 DEF MpvInv
  <1>6. NoDuplicateMpv'
    BY <1>1 DEF MpvInv, NoDuplicateMpv
  <1>7. QED
    BY <1>3, <1>4, <1>5, <1>6 DEF MpvInv

LEMMA SocketTimesOutKept ==
  ASSUME TypeInv, BootInv, MpvInv, NEW t \in Task, SocketTimesOut(t)
  PROVE  MpvInv'
  <1>1. /\ pc[t] = "await_socket" /\ pc'[t] = "launch_failed"
        /\ \A u \in Task \ {t} : pc'[u] = pc[u]
        /\ UNCHANGED <<disabled, op, tgt>>
    BY DEF SocketTimesOut, flags, TypeInv, TypeOK, TasksOK
  <1>2. CASE link[t] = NoMpv
    <2>1. UNCHANGED <<mpv, home, socket, link>> /\ (Booting' <=> Booting)
      BY <1>1, <1>2 DEF SocketTimesOut, procs, Booting, Serving
    <2>2. \A p \in Mpv : Launched(p) => Launched(p)'
      BY <1>1, <1>2, <2>1, ConstantsAssumption DEF Launched
    <2>3. QED
      BY <1>1, <2>1, <2>2 DEF MpvInv, NoDuplicateMpv
  <1>3. CASE link[t] # NoMpv
    <2>1. link[t] \in Mpv /\ Gone(link[t]) /\ link' = Unlinked(link[t])
      BY <1>3 DEF SocketTimesOut, TypeInv, TypeOK, TasksOK
    <2>2. QED
      BY <1>1, <2>1, GoneKept
  <1>4. QED
    BY <1>2, <1>3

LEMMA OutsideKept ==
  ASSUME TypeInv, BootInv, MpvInv, Outside
  PROVE  MpvInv'
  <1>1. CASE \E t \in Task : ReadLine(t)
    BY <1>1 DEF ReadLine, tasks, procs, MpvInv, Launched, Booting, Serving, NoDuplicateMpv
  <1>2. ASSUME NEW p \in Mpv, Leave(p) PROVE MpvInv'
    <2>1. /\ Gone(p) /\ link' = Unlinked(p) /\ UNCHANGED <<disabled, pc, op, tgt>>
      BY <1>2 DEF Leave, flags
    <2>2. CASE Task = {}
      <3>1. \A q \in Mpv : home'[q] # NoName => q # p /\ home'[q] = home[q]
        BY <2>1 DEF Gone, TypeInv, TypeOK, ProcsOK
      <3>2. ~Booting /\ ~Booting'
        BY <2>2 DEF Booting, Serving
      <3>3. \A q \in Mpv : home'[q] # NoName => socket'[home'[q]] = q
        BY <2>1, <2>2, <3>1 DEF MpvInv, Launched, Gone, TypeInv, TypeOK, ProcsOK
      <3>4. QED
        BY <2>2, <3>1, <3>2, <3>3 DEF MpvInv, NoDuplicateMpv
    <2>3. CASE Task # {}
      BY <2>1, <2>3, GoneKept
    <2>4. QED
      BY <2>2, <2>3
  <1>3. ASSUME NEW p \in Mpv, Bind(p) PROVE MpvInv'
    <2>1. /\ mpv[p] = "starting" /\ UNCHANGED <<disabled, pc, op, tgt, link, home>>
          /\ mpv' = [mpv EXCEPT ![p] = "live"] /\ socket' = [socket EXCEPT ![home[p]] = p]
      BY <1>3 DEF Bind, flags, tasks
    <2>2. home[p] \in Name /\ home \in [Mpv -> Name \cup {NoName}]
      BY <2>1 DEF TypeInv, TypeOK, ProcsOK
    <2>3. ASSUME NEW q \in Mpv, home[q] # NoName
          PROVE  socket'[home[q]] = q \/ (mpv'[q] = "starting" /\ Launched(q)')
      <3>1. CASE q = p
        BY <2>1, <2>2, <3>1 DEF TypeInv, TypeOK, ProcsOK
      <3>2. CASE q # p
        <4>1. home[q] # home[p]
          BY <2>3, <3>2 DEF MpvInv, NoDuplicateMpv
        <4>2. socket'[home[q]] = socket[home[q]] /\ mpv'[q] = mpv[q]
          BY <2>1, <2>2, <2>3, <3>2, <4>1 DEF TypeInv, TypeOK, ProcsOK
        <4>3. QED
          BY <2>1, <2>3, <4>2 DEF MpvInv, Launched
      <3>3. QED
        BY <3>1, <3>2
    <2>4. QED
      BY <2>1, <2>3 DEF MpvInv, Booting, Serving, NoDuplicateMpv
  <1>4. ASSUME NEW p \in Mpv, MpvHang(p) PROVE MpvInv'
    <2>1. /\ mpv[p] = "live" /\ mpv' = [mpv EXCEPT ![p] = "hung"]
          /\ UNCHANGED <<disabled, pc, op, tgt, link, home, socket>>
      BY <1>4 DEF MpvHang, flags, tasks
    <2>2. \A q \in Mpv : mpv[q] = "starting" => mpv'[q] = "starting"
      BY <2>1 DEF TypeInv, TypeOK, ProcsOK
    <2>3. QED
      BY <2>1, <2>2 DEF MpvInv, Launched, Booting, Serving, NoDuplicateMpv
  <1>5. QED
    BY <1>1, <1>2, <1>3, <1>4 DEF Outside, QuitExit, MpvExit

LEMMA MpvStep ==
  ASSUME TypeInv, BootInv, LaunchInv, MpvInv, "daemon_crash" \notin Faults, [Next]_vars
  PROVE  MpvInv'
  <1>1. OpsOK /\ BootInv'
    BY BootStep DEF BootInv
  <1>2. ASSUME NEW t \in Task, Aside(t), Kept(t) \/ BootTarget(t) \/ Request(t)
        PROVE  MpvInv'
    BY <1>2, BootSettles, AsideKept
  <1>3. ASSUME NEW t \in Task, Launch(t) PROVE MpvInv'
    <2>1. CASE Probe(t) \/ Spawn(t) \/ SpawnFails(t) \/ SocketAppears(t) \/ SocketTimesOut(t)
      BY <1>1, <2>1, ProbeKept, SpawnKept, SpawnFailsKept, SocketAppearsKept, SocketTimesOutKept
    <2>2. CASE \/ StartRefused(t) \/ StartJoins(t) \/ StartLaunches(t)
               \/ MarkOnline(t) \/ AlreadyOnline(t) \/ LaunchFailed(t)
      BY <1>1, <1>2, <1>3, <2>2, LaunchAside, LaunchKeeps
    <2>3. QED
      BY <1>3, <2>1, <2>2 DEF Launch
  <1>4. ASSUME NEW t \in Task, TakeDown(t) PROVE MpvInv'
    <2>1. op[t] = "boot" => pc[t] \notin {"stop", "quit", "await_gone"}
      BY <1>1 DEF MpvInv, OpsOK, Calls, TakeOff, Launching
    <2>2. Aside(t) /\ Kept(t)
      BY <1>1, <1>4, <2>1, TakeDownAside, TakeDownKeeps
    <2>3. QED
      BY <1>2, <2>2
  <1>5. ASSUME NEW t \in Task, Administer(t) PROVE MpvInv'
    BY <1>1, <1>2, <1>5, AdministerAside, AdministerKeeps
  <1>6. ASSUME NEW t \in Task, Background(t) \/ Request(t) PROVE MpvInv'
    BY <1>1, <1>2, <1>6, BackgroundAside, BackgroundKeeps
  <1>7. CASE Outside
    BY <1>7, OutsideKept
  <1>8. CASE UNCHANGED vars
    BY <1>8 DEF vars, flags, tasks, procs, MpvInv, Launched, Booting, Serving, NoDuplicateMpv
  <1>9. ~DaemonCrash
    BY DEF DaemonCrash
  <1>10. QED
    BY <1>3, <1>4, <1>5, <1>6, <1>7, <1>8, <1>9 DEF Next, Step, Outside

LEMMA MpvHolds ==
  ASSUME NoOverlap, "daemon_crash" \notin Faults
  PROVE  Spec => []MpvInv
  <1>1. Init => MpvInv
    <2> SUFFICES ASSUME Init PROVE MpvInv
      OBVIOUS
    <2>1. \A p \in Mpv : home[p] = NoName
      BY DEF Init
    <2>2. \A t \in Task : pc[t] \in {"boot", "idle"}
      BY DEF Init
    <2>3. NoName \notin disabled
      BY ConstantsAssumption DEF Init
    <2>4. QED
      BY <2>1, <2>2, <2>3 DEF MpvInv, NoDuplicateMpv
  <1>2. TypeInv /\ BootInv /\ LaunchInv /\ MpvInv /\ [Next]_vars => MpvInv'
    BY MpvStep
  <1>3. QED
    BY <1>1, <1>2, TypesHold, BootHolds, LaunchHolds, PTL DEF Spec

\* "Without creating duplicates" (README): while the daemon lives, a target
\* never has two mpv processes, whoever starts, restarts and loses it, whichever
\* spawn fails and however late a child binds its socket - the probe and the
\* kill of an abandoned child both fall into the one launch of the target.
THEOREM MpvNeverDuplicated ==
  ASSUME NoOverlap, "daemon_crash" \notin Faults
  PROVE  Spec => []NoDuplicateMpv
  <1>1. MpvInv => NoDuplicateMpv
    BY DEF MpvInv
  <1>2. QED
    BY <1>1, MpvHolds, PTL

(***************************************************************************)
(* Recovery.  Of the clients' operations only those remain that neither    *)
(* start nor stop a target: a start that joins a launch in flight ends the *)
(* loop that is to repeat it, and a stop's mark_offline hits a target that *)
(* was started again since, and either leaves an expected target alone.    *)
(* "starved_tasks" would let a loop run before a recovery that is due.     *)
(***************************************************************************)
HandsOff == Ops \subseteq {"enable", "add", "save_channel"} /\ "starved_tasks" \notin Faults

\* A recovery loop, a recovery about to be scheduled or begun, and whoever is
\* on the way to start its target (see Pursued).
Loop(t) == op[t] = "recover" /\ pc[t] \in {"backoff", "start"} \cup Launching
LostExpected(t) == pc[t] = "lost_clear" /\ op[t] = "recover"
Due(t) == pc[t] \in {"recovery", "boot_failed"} \/ LostExpected(t)
Chasing(t) ==
  \/ pc[t] \in Launching \cup {"attach", "boot_failed", "start", "recovery", "backoff"}
  \/ LostExpected(t)

\* The flag `recovering` stands for exactly one loop, which works while no
\* recovery of its target is due; nobody else's work brings a target online.
PursueInv ==
  /\ disabled \subseteq stopped
  /\ \A n \in recovering : \E t \in Task : Loop(t) /\ tgt[t] = n
  /\ \A t \in Task : Loop(t) => tgt[t] \in recovering \ online
  /\ \A t, u \in Task : Loop(t) /\ Loop(u) /\ tgt[t] = tgt[u] => t = u
  /\ \A t \in Task : Due(t) => tgt[t] \notin online
  /\ \A t, u \in Task : Loop(t) /\ Due(u) /\ tgt[t] = tgt[u] => pc[t] = "backoff"
  /\ \A t \in Task : OnItsTarget(t) => tgt[t] \notin online \cup recovering
  /\ boot \cap (online \cup recovering) = {}
  /\ ExpectedIsPursued

\* What a step of t does to the flags and to the pursuit of its target.
Onward(t) ==
  LET n == tgt[t] IN
  /\ \A m : m # n => (m \in online' <=> m \in online) /\ (m \in recovering' <=> m \in recovering)
  /\ disabled' \subseteq stopped'
  \* Loops begin with the flag and end with it.
  /\ Loop(t)' =>
       /\ n \in recovering' \ online' /\ (Loop(t) \/ n \notin recovering)
       /\ \/ pc'[t] = "backoff"
          \/ Loop(t) /\ (pc[t] # "backoff" \/ \A u \in Task : ~Due(u))
  /\ Loop(t) => Loop(t)' \/ n \notin recovering'
  /\ n \in recovering' \ recovering => Loop(t)'
  /\ n \in recovering \ recovering' => Loop(t) \/ OnItsTarget(t)
  \* Only a loop or the boot loop brings its target online.
  /\ n \in online' \ online =>
       n \notin recovering' /\ ((Loop(t) /\ pc[t] # "backoff") \/ OnItsTarget(t))
  /\ OnItsTarget(t)' => n \notin online' \cup recovering'
  \* A recovery falls due when a target is lost, or its launch fails.
  /\ \A u \in Task : Due(u)' =>
       \/ u # t /\ Due(u) /\ tgt'[u] = tgt[u]
       \/ /\ tgt'[u] = n /\ n \notin online'
          /\ Due(t) \/ OnItsTarget(t) \/ n \in online \/ (Loop(t) /\ pc'[t] = "backoff")
  \* Who is expected is chased.
  /\ \A m \in Expected' : m \in Expected \/ (m = n /\ Chasing(t)')
  /\ n \in Expected' \ online' /\ (n \in online \/ Chasing(t)) =>
       \E u \in Task : tgt'[u] = n /\ Chasing(u)'

LEMMA HandsOffOps ==
  ASSUME OpsOK, HandsOff, NEW t \in Task
  PROVE  /\ pc[t] \in Calls(op[t]) /\ op[t] \in Own \cup {"enable", "add", "save_channel"}
         /\ pc[t] \in Launching \cup {"start"} => Loop(t) \/ OnItsTarget(t)
         /\ pc[t] \in TakeOff \cup {"attach"} => OnItsTarget(t)
         /\ pc[t] \notin {"stop", "mark_offline", "restart", "restart_stopped", "disable",
                          "remove_commit", "rename_commit", "persist_disabled", "set_channel"}
  <1>1. op[t] \in Own \cup {"enable", "add", "save_channel"}
    BY DEF OpsOK, HandsOff, Asked
  <1>2. pc[t] \in Calls(op[t])
    BY DEF OpsOK
  <1>3. QED
    BY <1>1, <1>2 DEF Own, Calls, TakeOff, Watching, Launching, Loop, OnItsTarget

LEMMA OnwardKept ==
  ASSUME TypeInv, TypeInv', BootInv, PursueInv, NEW t \in Task, Kept(t), Onward(t)
  PROVE  PursueInv'
  <1> DEFINE n == tgt[t]
  <1>1. \A u \in Task \ {t} :
          \/ pc'[u] = pc[u] /\ op'[u] = op[u] /\ tgt'[u] = tgt[u]
          \/ pc[u] = "idle" /\ tgt'[u] = n /\ ~Loop(u)' /\ ~OnItsTarget(u)'
    BY DEF Kept, Forked, Loop, OnItsTarget, Launching
  <1>2. /\ tgt'[t] \in {n, NoName} /\ boot' = boot
        /\ Loop(t)' \/ Chasing(t)' \/ OnItsTarget(t)' => tgt'[t] = n
    BY DEF Kept, Loop, Chasing, LostExpected, OnItsTarget, Launching, TypeInv, TypeOK, TasksOK
  <1>3. \A u \in Task \ {t} : Loop(u)' => Loop(u) /\ tgt'[u] = tgt[u] /\ pc'[u] = pc[u]
    BY <1>1 DEF Loop
  <1>4. \A u \in Task \ {t} : OnItsTarget(u)' => OnItsTarget(u) /\ tgt'[u] = tgt[u]
    BY <1>1 DEF OnItsTarget
  <1>5. (\A m \in recovering : \E u \in Task : Loop(u) /\ tgt[u] = m)'
    <2> SUFFICES ASSUME NEW m \in recovering' PROVE \E u \in Task : Loop(u)' /\ tgt'[u] = m
      OBVIOUS
    <2>1. CASE m \in recovering
      <3>1. PICK u \in Task : Loop(u) /\ tgt[u] = m
        BY <2>1 DEF PursueInv
      <3>2. CASE u = t
        BY <1>2, <3>1, <3>2 DEF Onward
      <3>3. CASE u # t
        BY <1>1, <3>1, <3>3 DEF Loop, Launching
      <3>4. QED
        BY <3>2, <3>3
    <2>2. CASE m \notin recovering
      BY <1>2, <2>2 DEF Onward
    <2>3. QED
      BY <2>1, <2>2
  <1>6. (\A u \in Task : Loop(u) => tgt[u] \in recovering \ online)'
    <2> SUFFICES ASSUME NEW u \in Task, Loop(u)' PROVE tgt'[u] \in recovering' \ online'
      OBVIOUS
    <2>1. CASE u = t
      BY <1>2, <2>1 DEF Onward
    <2>2. CASE u # t
      <3>1. Loop(u) /\ tgt'[u] = tgt[u] /\ tgt[u] \in recovering \ online
        BY <1>3, <2>2 DEF PursueInv
      <3>2. CASE tgt[u] = n
        <4>1. ~Loop(t) /\ ~OnItsTarget(t)
          BY <2>2, <3>1, <3>2, BootAlone DEF PursueInv
        <4>2. QED
          BY <3>1, <3>2, <4>1 DEF Onward
      <3>3. CASE tgt[u] # n
        BY <3>1, <3>3 DEF Onward
      <3>4. QED
        BY <3>2, <3>3
    <2>3. QED
      BY <2>1, <2>2
  <1>7. (\A u, v \in Task : Loop(u) /\ Loop(v) /\ tgt[u] = tgt[v] => u = v)'
    <2>1. ASSUME NEW v \in Task \ {t}, Loop(v)', Loop(t)', tgt'[v] = n PROVE FALSE
      BY <1>3, <2>1 DEF PursueInv, Onward
    <2>2. QED
      BY <1>2, <1>3, <2>1 DEF PursueInv
  <1>8. (\A u \in Task : Due(u) => tgt[u] \notin online)'
    <2> SUFFICES ASSUME NEW u \in Task \ {t}, Due(u), tgt'[u] = tgt[u] PROVE tgt[u] \notin online'
      BY DEF Onward
    <2>1. tgt[u] = n => ~(Loop(t) /\ pc[t] # "backoff") /\ ~OnItsTarget(t)
      BY BootAlone DEF PursueInv
    <2>2. QED
      BY <2>1 DEF PursueInv, Onward
  <1>9. (\A v, u \in Task : Loop(v) /\ Due(u) /\ tgt[v] = tgt[u] => pc[v] = "backoff")'
    <2> SUFFICES ASSUME NEW v \in Task, NEW u \in Task, Loop(v)', Due(u)', tgt'[v] = tgt'[u]
                 PROVE  pc'[v] = "backoff"
      OBVIOUS
    <2>1. CASE u # t /\ Due(u) /\ tgt'[u] = tgt[u]
      <3>1. CASE v = t
        BY <1>2, <2>1, <3>1 DEF PursueInv, Onward
      <3>2. CASE v # t
        BY <1>3, <2>1, <3>2 DEF PursueInv
      <3>3. QED
        BY <3>1, <3>2
    <2>2. CASE /\ tgt'[u] = n
               /\ Due(t) \/ OnItsTarget(t) \/ n \in online \/ (Loop(t) /\ pc'[t] = "backoff")
      <3>1. CASE v = t
        <4>1. Loop(t) => ~Due(t) /\ ~OnItsTarget(t) /\ n \notin online
          BY DEF PursueInv, Loop, Due, LostExpected, OnItsTarget, Launching
        <4>2. QED
          BY <2>2, <3>1, <4>1 DEF Onward
      <3>2. CASE v # t
        <4>1. Loop(v) /\ tgt[v] = n /\ pc'[v] = pc[v]
          BY <1>3, <2>2, <3>2
        <4>2. ~OnItsTarget(t) /\ n \notin online /\ ~Loop(t)
          BY <3>2, <4>1, BootAlone DEF PursueInv
        <4>3. QED
          BY <2>2, <4>1, <4>2 DEF PursueInv
      <3>3. QED
        BY <3>1, <3>2
    <2>3. QED
      BY <2>1, <2>2 DEF Onward
  <1>10. (\A u \in Task : OnItsTarget(u) => tgt[u] \notin online \cup recovering)'
    <2> SUFFICES ASSUME NEW u \in Task \ {t}, OnItsTarget(u)'
                 PROVE  tgt'[u] \notin online' \cup recovering'
      BY <1>2 DEF Onward
    <2>1. OnItsTarget(u) /\ tgt'[u] = tgt[u] /\ tgt[u] # n
      BY <1>4, BootAlone
    <2>2. QED
      BY <2>1 DEF PursueInv, Onward
  <1>11. (boot \cap (online \cup recovering) = {})'
    <2>1. n \notin boot
      BY DEF BootInv
    <2>2. QED
      BY <1>2, <2>1 DEF PursueInv, Onward
  <1>12. ExpectedIsPursued'
    <2> SUFFICES ASSUME NEW m \in Expected', m \notin online' PROVE Pursued(m)'
      BY DEF ExpectedIsPursued
    <2>1. CASE \E u \in Task : tgt'[u] = m /\ Chasing(u)'
      BY <2>1 DEF Chasing, LostExpected, Pursued, Some
    <2>2. CASE m = n /\ (n \in online \/ Chasing(t) \/ Chasing(t)')
      BY <1>2, <2>1, <2>2 DEF Onward
    <2>3. CASE m \in Expected /\ m \notin online
      <3>1. m \in boot \/ \E u \in Task : tgt[u] = m /\ Chasing(u)
        BY <2>3 DEF PursueInv, ExpectedIsPursued, Pursued, Some, Chasing, LostExpected
      <3>2. CASE m \in boot
        BY <1>2, <3>2 DEF Pursued
      <3>3. ASSUME NEW u \in Task \ {t}, tgt[u] = m, Chasing(u) PROVE Pursued(m)'
        <4>1. tgt'[u] = m /\ Chasing(u)'
          BY <1>1, <3>3 DEF Chasing, LostExpected, Launching
        <4>2. QED
          BY <2>1, <4>1
      <3>4. QED
        BY <2>2, <3>1, <3>2, <3>3
    <2>4. QED
      BY <2>2, <2>3 DEF Onward
  <1>13. QED
    BY <1>5, <1>6, <1>7, <1>8, <1>9, <1>10, <1>11, <1>12 DEF PursueInv, Onward

\* Where tokio::spawn puts its task.
LEMMA ForkPlaces ==
  ASSUME TasksOK, NEW t \in Task, NEW k, NEW l, NEW o, pc[t] # "idle", Fork(t, k, l, o)
  PROVE  /\ pc'[t] = k /\ op'[t] = op[t] /\ (k # "boot" => tgt'[t] = tgt[t])
         /\ \A u \in Task \ {t} :
              \/ pc'[u] = pc[u] /\ op'[u] = op[u] /\ tgt'[u] = tgt[u]
              \/ pc'[u] = l /\ op'[u] = o /\ tgt'[u] = tgt[t]
         /\ \E u \in Task \ {t} : pc'[u] = l /\ op'[u] = o /\ tgt'[u] = tgt[t]
  <1>1. PICK w \in Idle :
          /\ pc' = [pc EXCEPT ![t] = k, ![w] = l]
          /\ op' = [op EXCEPT ![w] = o]
          /\ tgt' = [tgt EXCEPT ![w] = tgt[t], ![t] = IF k = "boot" THEN NoName ELSE @]
    BY DEF Fork
  <1>2. w \in Task \ {t}
    BY <1>1 DEF Idle
  <1>3. QED
    BY <1>1, <1>2 DEF TasksOK

\* A step that leaves `online` and `recovering`, and starts and ends no task.
LEMMA QuietOnward ==
  ASSUME TypeInv, PursueInv, NEW t \in Task, tgt'[t] \in {tgt[t], NoName},
         \A u \in Task \ {t} : pc'[u] = pc[u] /\ op'[u] = op[u] /\ tgt'[u] = tgt[u],
         UNCHANGED <<online, recovering>>, disabled' \subseteq stopped',
         \A m \in Expected' : m \in Expected \/ (m = tgt[t] /\ Chasing(t)'),
         Loop(t)' <=> Loop(t), Loop(t)' => pc'[t] = "backoff" \/ pc[t] # "backoff",
         Due(t)' => tgt'[t] = tgt[t] /\ (Due(t) \/ OnItsTarget(t)),
         OnItsTarget(t)' => OnItsTarget(t),
         Chasing(t) /\ tgt[t] \in Expected' => Chasing(t)' /\ tgt'[t] = tgt[t]
  PROVE  Onward(t)
  <1>1. \A u \in Task \ {t} : Due(u)' => Due(u) /\ tgt'[u] = tgt[u]
    BY DEF Due, LostExpected
  <1>2. Due(t) \/ OnItsTarget(t) => tgt[t] \notin online
    BY DEF PursueInv
  <1>3. \A u \in Task : Due(u)' =>
          \/ u # t /\ Due(u) /\ tgt'[u] = tgt[u]
          \/ /\ tgt'[u] = tgt[t] /\ tgt[t] \notin online'
             /\ Due(t) \/ OnItsTarget(t)
    BY <1>1, <1>2
  <1>4. /\ Loop(t) => tgt[t] \in recovering \ online
        /\ OnItsTarget(t) => tgt[t] \notin online \cup recovering
    BY DEF PursueInv
  <1>5. tgt[t] \in Expected' \ online' /\ (tgt[t] \in online \/ Chasing(t)) =>
          \E u \in Task : tgt'[u] = tgt[t] /\ Chasing(u)'
    OBVIOUS
  <1>6. QED
    BY <1>3, <1>4, <1>5 DEF Onward

LEMMA LaunchOnward ==
  ASSUME TypeInv, BootInv, LaunchingIsBacked, PursueInv, HandsOff, NEW t \in Task, Launch(t)
  PROVE  Onward(t)
  <1> USE DEF Launching, Alike
  <1>0. /\ TasksOK /\ OpsOK /\ disabled \subseteq stopped
        /\ Loop(t) => tgt[t] \in recovering \ online
        /\ OnItsTarget(t) => tgt[t] \notin online \cup recovering
        /\ recovering \subseteq known
    BY DEF TypeInv, TypeOK, TargetsOK, BootInv, PursueInv
  <1>1. /\ op[t] \in {"boot", "recover"} /\ (Loop(t) \/ OnItsTarget(t))
        /\ pc[t] \in {"start", "attach"} \cup Launching
        /\ ~Due(t) /\ Chasing(t) /\ pc[t] # "backoff"
    <2>1. pc[t] \in {"start", "attach"} \cup Launching
      BY DEF Launch, StartRefused, StartJoins, StartLaunches, Probe, Spawn, SpawnFails,
             SocketAppears, SocketTimesOut, MarkOnline, AlreadyOnline, LaunchFailed
    <2>2. Loop(t) \/ OnItsTarget(t)
      BY <1>0, <2>1, HandsOffOps
    <2>3. QED
      BY <2>1, <2>2 DEF Loop, OnItsTarget, Due, Chasing, LostExpected
  <1>2. CASE StartRefused(t)
    <2>1. /\ Alike(t) /\ tgt'[t] = tgt[t] /\ op'[t] = op[t]
          /\ pc'[t] = IF op[t] = "boot" THEN "boot_failed" ELSE "backoff"
      BY <1>0, <1>1, <1>2, GotoTurns DEF StartRefused, StartReturns
    <2>2. UNCHANGED <<known, disabled, stopped, online, recovering>>
      BY <1>2 DEF StartRefused, flags
    <2>3. QED
      BY <1>0, <1>1, <2>1, <2>2, QuietOnward
         DEF Loop, OnItsTarget, Due, Chasing, LostExpected, Expected
  \* Whoever is launching the target would be in its loop's, or boot's, way.
  <1>3. CASE StartJoins(t)
    <2>1. tgt[t] \in launching /\ pc[t] = "start"
      BY <1>0, <1>1, <1>3 DEF StartJoins, Busy
    <2>2. PICK u \in Task : tgt[u] = tgt[t] /\ pc[u] \in Launching
      BY <2>1 DEF LaunchingIsBacked, Some
    <2>3. (Loop(u) \/ OnItsTarget(u)) /\ u # t
      BY <1>0, <2>1, <2>2, HandsOffOps
    <2>4. QED
      BY <1>1, <2>2, <2>3, BootAlone DEF PursueInv
  <1>4. CASE StartLaunches(t)
    <2>1. /\ Alike(t) /\ tgt'[t] = tgt[t] /\ op'[t] = op[t] /\ pc'[t] = "probe" /\ pc[t] = "start"
      BY <1>0, <1>4, GotoTurns DEF StartLaunches
    <2>2. /\ UNCHANGED <<known, disabled, online, recovering>>
          /\ stopped' = stopped \ {tgt[t]} /\ tgt[t] \notin disabled
      BY <1>4 DEF StartLaunches, Startable
    <2>3. QED
      BY <1>0, <1>1, <2>1, <2>2, QuietOnward
         DEF Loop, OnItsTarget, Due, Chasing, LostExpected, Expected
  <1>5. CASE Probe(t) \/ Spawn(t) \/ SpawnFails(t) \/ SocketAppears(t)
    <2>1. /\ Alike(t) /\ tgt'[t] = tgt[t] /\ op'[t] = op[t]
          /\ pc[t] \in Launching /\ pc'[t] \in Launching
      <3>1. CASE Spawn(t)
        BY <1>0, <3>1 DEF Spawn, TasksOK, Alike
      <3>2. QED
        BY <1>0, <1>5, <3>1, GotoTurns, BecomeTurns DEF Probe, SpawnFails, SocketAppears
    <2>2. UNCHANGED <<known, disabled, stopped, online, recovering>>
      BY <1>5 DEF Probe, Spawn, SpawnFails, SocketAppears, flags
    <2>3. QED
      BY <1>0, <1>1, <2>1, <2>2, QuietOnward
         DEF Loop, OnItsTarget, Due, Chasing, LostExpected, Expected
  <1>6. CASE SocketTimesOut(t)
    <2>1. /\ \A u \in Task \ {t} : pc'[u] = pc[u] /\ op'[u] = op[u] /\ tgt'[u] = tgt[u]
          /\ tgt'[t] = tgt[t] /\ op'[t] = op[t] /\ pc[t] \in Launching /\ pc'[t] \in Launching
      BY <1>0, <1>6 DEF SocketTimesOut, TasksOK
    <2>2. UNCHANGED <<known, disabled, stopped, online, recovering>>
      BY <1>6 DEF SocketTimesOut, flags
    <2>3. QED
      BY <1>0, <1>1, <2>1, <2>2, QuietOnward
         DEF Loop, OnItsTarget, Due, Chasing, LostExpected, Expected
  <1>7. CASE MarkOnline(t)
    <2>1. /\ \A u \in Task \ {t} :
               \/ pc'[u] = pc[u] /\ op'[u] = op[u] /\ tgt'[u] = tgt[u]
               \/ pc'[u] = "connect"
          /\ pc'[t] = "boot" \/ (pc'[t] = "connect" /\ op'[t] = "observe")
      <3>1. CASE op[t] = "boot"
        BY <1>0, <1>1, <1>7, <3>1, ForkPlaces DEF MarkOnline
      <3>2. CASE op[t] # "boot"
        BY <1>0, <1>7, <3>2, BecomeTurns DEF MarkOnline
      <3>3. QED
        BY <3>1, <3>2
    <2>2. /\ UNCHANGED <<known, disabled, stopped>>
          /\ online' = online \cup {tgt[t]} /\ recovering' = recovering \ {tgt[t]}
      BY <1>7 DEF MarkOnline, Recovered
    <2>3. \A u \in Task : Due(u)' => u # t /\ Due(u) /\ tgt'[u] = tgt[u]
      BY <2>1 DEF Due, LostExpected
    <2>4. ~Loop(t)' /\ ~OnItsTarget(t)'
      BY <2>1 DEF Loop, OnItsTarget
    <2>5. QED
      BY <1>0, <1>1, <2>2, <2>3, <2>4 DEF Onward, Expected
  <1>8. CASE AlreadyOnline(t)
    <2>1. op[t] = "boot" /\ tgt[t] \notin known /\ ~Loop(t)
      BY <1>0, <1>1, <1>8 DEF AlreadyOnline, Loop, OnItsTarget
    <2>2. /\ Alike(t) /\ tgt'[t] = tgt[t] /\ op'[t] = op[t] /\ pc'[t] = "boot_failed"
      BY <1>0, <1>8, <2>1, GotoTurns DEF AlreadyOnline, StartReturns
    <2>3. UNCHANGED <<known, disabled, stopped, online, recovering>>
      BY <1>8 DEF AlreadyOnline, flags
    <2>4. QED
      BY <1>0, <1>1, <2>1, <2>2, <2>3, QuietOnward
         DEF Loop, OnItsTarget, Due, Chasing, LostExpected, Expected
  <1>9. CASE LaunchFailed(t)
    <2>1. /\ \A u \in Task \ {t} :
               \/ pc'[u] = pc[u] /\ op'[u] = op[u] /\ tgt'[u] = tgt[u]
               \/ pc'[u] = "recovery" /\ op'[u] = "recover" /\ tgt'[u] = tgt[t]
          /\ op'[t] = op[t] /\ tgt'[t] = tgt[t]
          /\ pc'[t] = IF op[t] = "boot" THEN "boot_failed" ELSE "backoff"
      <3>1. CASE op[t] = "boot"
        BY <1>0, <1>1, <1>9, <3>1, ForkPlaces DEF LaunchFailed
      <3>2. CASE op[t] = "recover" /\ Goto(t, "backoff")
        BY <1>0, <3>2, GotoTurns
      <3>3. CASE op[t] = "recover" /\ Fork(t, "backoff", "recovery", "recover")
        BY <1>0, <1>1, <3>3, ForkPlaces
      <3>4. QED
        BY <1>1, <1>9, <3>1, <3>2, <3>3 DEF LaunchFailed
    <2>2. UNCHANGED <<known, disabled, stopped, online, recovering>>
      BY <1>9 DEF LaunchFailed
    <2>3. tgt[t] \notin online /\ (OnItsTarget(t) \/ (Loop(t) /\ pc'[t] = "backoff"))
      BY <1>0, <1>1, <2>1 DEF OnItsTarget, Loop
    <2>4. \A u \in Task : Due(u)' =>
            \/ u # t /\ Due(u) /\ tgt'[u] = tgt[u]
            \/ tgt'[u] = tgt[t]
      BY <2>1 DEF Due, LostExpected
    <2>5. /\ Loop(t)' <=> Loop(t)
          /\ ~OnItsTarget(t)' /\ Chasing(t)' /\ (Loop(t)' => pc'[t] = "backoff")
      BY <1>1, <2>1 DEF Loop, OnItsTarget, Chasing
    <2>6. QED
      BY <1>0, <2>1, <2>2, <2>3, <2>4, <2>5 DEF Onward, Expected
  <1>10. QED
    BY <1>2, <1>3, <1>4, <1>5, <1>6, <1>7, <1>8, <1>9 DEF Launch

\* Only the boot loop takes a target down, one that is disabled.
LEMMA TakeDownOnward ==
  ASSUME TypeInv, BootInv, PursueInv, HandsOff, NEW t \in Task, TakeDown(t)
  PROVE  Onward(t) \/ DaemonRestarts
  <1> USE DEF Alike
  <1>0. /\ TasksOK /\ OpsOK /\ disabled \subseteq stopped
        /\ OnItsTarget(t) => tgt[t] \notin online \cup recovering
    BY DEF TypeInv, TypeOK, TargetsOK, BootInv, PursueInv
  <1>1. /\ OnItsTarget(t) /\ op[t] = "boot" /\ pc[t] \in TakeOff
        /\ ~Loop(t) /\ ~Due(t) /\ ~Chasing(t)
    <2>1. pc[t] \in TakeOff \cup {"stop", "mark_offline", "restart", "restart_stopped", "disable"}
      BY DEF TakeDown, TakeOff, StopRefused, Stop, OffProbe, Quit, QuitFails, ReplyLost, SocketGone,
             GoneTimesOut, ClearObserved, MarkOffline, OffFlags, Restart, RestartStopped, Disable
    <2>2. OnItsTarget(t) /\ pc[t] \in TakeOff
      BY <1>0, <2>1, HandsOffOps
    <2>3. QED
      BY <2>2 DEF OnItsTarget, Loop, Due, Chasing, LostExpected, TakeOff, Launching
  <1>2. CASE OffProbe(t) \/ Quit(t) \/ SocketGone(t) \/ ClearObserved(t)
    <2>1. /\ Alike(t) /\ tgt'[t] = tgt[t] /\ op'[t] = op[t] /\ pc'[t] \in TakeOff
      BY <1>0, <1>1, <1>2, GotoTurns DEF OffProbe, Quit, SocketGone, ClearObserved, TakeOff
    <2>2. UNCHANGED <<known, disabled, stopped, online, recovering>>
      BY <1>2 DEF OffProbe, Quit, SocketGone, ClearObserved, flags
    <2>3. ~Loop(t)' /\ ~Due(t)' /\ ~Chasing(t)'
      BY <1>1, <2>1 DEF Loop, Due, Chasing, LostExpected, TakeOff, Launching
    <2>4. QED
      BY <1>0, <1>1, <2>1, <2>2, <2>3, QuietOnward DEF Expected
  <1>3. CASE OffFlags(t)
    <2>1. /\ Alike(t) /\ pc'[t] = "boot" /\ tgt'[t] = NoName
      BY <1>0, <1>1, <1>3, NextBootTurns DEF OffFlags
    <2>2. ~Loop(t)' /\ ~Due(t)' /\ ~OnItsTarget(t)'
      BY <2>1 DEF Loop, Due, LostExpected, OnItsTarget, Launching
    <2>3. UNCHANGED <<online, recovering>> /\ disabled' \subseteq stopped' /\ Expected' \subseteq Expected
      BY <1>0, <1>1, <1>3 DEF OffFlags, Expected
    <2>4. \A u \in Task \ {t} : Due(u)' => Due(u) /\ tgt'[u] = tgt[u]
      BY <2>1 DEF Due, LostExpected
    <2>5. QED
      BY <1>0, <1>1, <2>2, <2>3, <2>4 DEF Onward
  <1>4. CASE StopFails(t)
    BY <1>1, <1>4 DEF StopFails
  <1>5. QED
    BY <1>0, <1>2, <1>3, <1>4, HandsOffOps
       DEF TakeDown, StopRefused, Stop, QuitFails, ReplyLost, GoneTimesOut, MarkOffline,
           Restart, RestartStopped, Disable

LEMMA AdministerOnward ==
  ASSUME TypeInv, BootInv, PursueInv, HandsOff, NEW t \in Task, Administer(t)
  PROVE  Onward(t)
  <1> USE DEF Alike
  <1>0. TasksOK /\ OpsOK /\ disabled \subseteq stopped
    BY DEF TypeInv, TypeOK, BootInv, PursueInv
  <1>1. pc[t] \in {"enable", "add", "save_channel", "save_query"}
    <2>1. pc[t] \in {"enable", "add", "save_channel", "save_query", "set_channel", "rename", "remove",
                     "persist_disabled", "remove_commit", "rename_commit"}
      BY DEF Administer, PersistChange, PersistFails, Add, AdminRefused, LockMutations,
             RemoveCommit, RenameCommit, CommitFails, SaveQuery, Persisting, Admin
    <2>2. QED
      BY <1>0, <2>1, HandsOffOps DEF Own, Calls, Watching, Launching, TakeOff
  <1>2. op[t] \in {"enable", "add", "save_channel"}
    BY <1>0, <1>1, HandsOffOps DEF Own, Calls, Watching, Launching, TakeOff
  <1>3. /\ Alike(t) /\ tgt'[t] \in {tgt[t], NoName}
        /\ pc'[t] \in {"idle", "save_query"} /\ op'[t] \in {op[t], "none"}
    <2>1. CASE Finish(t)
      BY <1>0, <2>1, FinishTurns
    <2>2. CASE LockMutations(t)
      <3>1. pc[t] = "save_channel"
        BY <1>1, <2>2 DEF LockMutations, Admin
      <3>2. Goto(t, "save_query")
        BY <2>2, <3>1 DEF LockMutations
      <3>3. QED
        BY <1>0, <3>2, GotoTurns
    <2>3. QED
      BY <1>1, <1>2, <2>1, <2>2
         DEF Administer, PersistChange, PersistFails, Add, AdminRefused,
             RemoveCommit, RenameCommit, CommitFails, SaveQuery
  <1>4. UNCHANGED <<online, recovering>> /\ disabled' \subseteq stopped' /\ Expected' \subseteq Expected
    BY <1>0, <1>1
       DEF Administer, PersistChange, PersistFails, Add, AdminRefused, LockMutations,
           RemoveCommit, RenameCommit, CommitFails, SaveQuery, Persisting, flags, Expected
  <1>5. /\ ~Loop(t) /\ ~Due(t) /\ ~Chasing(t) /\ ~OnItsTarget(t)
        /\ ~Loop(t)' /\ ~Due(t)' /\ ~Chasing(t)' /\ ~OnItsTarget(t)'
    BY <1>1, <1>2, <1>3 DEF Loop, Due, Chasing, LostExpected, OnItsTarget, Launching
  <1>6. QED
    BY <1>3, <1>4, <1>5, QuietOnward

LEMMA BackgroundOnward ==
  ASSUME TypeInv, BootInv, PursueInv, HandsOff, NEW t \in Task, Background(t), ~BootTarget(t)
  PROVE  Onward(t)
  <1> USE DEF Alike
  <1>0. /\ TasksOK /\ OpsOK /\ disabled \subseteq stopped /\ recovering \subseteq known
        /\ Loop(t) => tgt[t] \in recovering \ online
        /\ Due(t) => tgt[t] \notin online
        /\ pc[t] \in Calls(op[t])
    BY DEF TypeInv, TypeOK, TargetsOK, BootInv, OpsOK, PursueInv
  <1>1. CASE BootDone(t) \/ Connect(t) \/ EndOfStream(t) \/ LostIgnored(t)
    <2>1. /\ \A u \in Task \ {t} : pc'[u] = pc[u] /\ op'[u] = op[u] /\ tgt'[u] = tgt[u]
          /\ tgt'[t] \in {tgt[t], NoName} /\ pc[t] \in {"boot"} \cup Watching
          /\ pc'[t] \in {"idle"} \cup Watching /\ op'[t] # "boot"
      <3>1. CASE Connect(t)
        BY <1>0, <3>1 DEF Connect, TasksOK, Watching, Calls, TakeOff, Launching
      <3>2. QED
        BY <1>0, <1>1, <3>1, FinishTurns, GotoTurns
           DEF BootDone, EndOfStream, LostIgnored, Watching, Calls, TakeOff, Launching
    <2>2. UNCHANGED <<known, disabled, stopped, online, recovering>>
      BY <1>1 DEF BootDone, Connect, EndOfStream, LostIgnored, flags
    <2>3. /\ ~Loop(t) /\ ~Chasing(t) /\ ~Loop(t)' /\ ~Due(t)' /\ ~Chasing(t)'
      BY <2>1 DEF Loop, Due, Chasing, LostExpected, Watching, Launching
    <2>4. ~OnItsTarget(t)'
      BY <2>1 DEF OnItsTarget
    <2>5. QED
      BY <1>0, <2>1, <2>2, <2>3, <2>4, QuietOnward DEF Expected
  <1>2. CASE BootFailed(t)
    <2>1. /\ pc[t] = "boot_failed" /\ pc'[t] = "boot"
          /\ \A u \in Task \ {t} :
               \/ pc'[u] = pc[u] /\ op'[u] = op[u] /\ tgt'[u] = tgt[u]
               \/ pc'[u] = "recovery" /\ op'[u] = "recover" /\ tgt'[u] = tgt[t]
          /\ \E u \in Task \ {t} : pc'[u] = "recovery" /\ op'[u] = "recover" /\ tgt'[u] = tgt[t]
      BY <1>0, <1>2, ForkPlaces DEF BootFailed
    <2>2. UNCHANGED <<known, disabled, stopped, online, recovering>>
      BY <1>2 DEF BootFailed, flags
    <2>3. ~Loop(t) /\ ~Loop(t)' /\ ~Due(t)' /\ Due(t) /\ ~OnItsTarget(t)'
      BY <2>1 DEF Loop, Due, LostExpected, Launching, OnItsTarget
    <2>4. \A u \in Task \ {t} : Due(u)' => (Due(u) /\ tgt'[u] = tgt[u]) \/ tgt'[u] = tgt[t]
      BY <2>1 DEF Due, LostExpected
    <2>5. \E u \in Task : tgt'[u] = tgt[t] /\ Chasing(u)'
      BY <2>1 DEF Chasing
    <2>6. QED
      BY <1>0, <2>2, <2>3, <2>4, <2>5 DEF Onward, Expected
  <1>3. CASE BeginRecovery(t)
    <2>1. Due(t) /\ ~Loop(t) /\ ~OnItsTarget(t) /\ pc[t] = "recovery" /\ op[t] # "boot"
      BY <1>0, <1>3 DEF BeginRecovery, Due, Loop, OnItsTarget, Launching, Calls, TakeOff
    <2>2. UNCHANGED <<known, disabled, stopped, online>>
      BY <1>3 DEF BeginRecovery
    <2>3. CASE tgt[t] \in Expected \ recovering
      <3>1. /\ Alike(t) /\ tgt'[t] = tgt[t] /\ op'[t] = op[t] /\ pc'[t] = "backoff"
            /\ recovering' = recovering \cup {tgt[t]}
        BY <1>0, <1>3, <2>3, GotoTurns DEF BeginRecovery
      <3>2. op[t] = "recover"
        BY <1>0, <2>1, HandsOffOps DEF Own, Calls, TakeOff, Watching, Launching
      <3>3. Loop(t)' /\ ~Due(t)' /\ Chasing(t)' /\ ~OnItsTarget(t)'
        BY <3>1, <3>2 DEF Loop, Due, LostExpected, Chasing, OnItsTarget
      <3>4. \A u \in Task \ {t} : Due(u)' => Due(u) /\ tgt'[u] = tgt[u]
        BY <3>1 DEF Due, LostExpected
      <3>5. QED
        BY <1>0, <2>1, <2>2, <2>3, <3>1, <3>3, <3>4 DEF Onward, Expected
    <2>4. CASE tgt[t] \notin Expected \ recovering
      <3>1. /\ Alike(t) /\ pc'[t] = "idle" /\ op'[t] = "none" /\ recovering' = recovering
        BY <1>0, <1>3, <2>4, FinishTurns DEF BeginRecovery
      <3>2. ~Loop(t)' /\ ~Due(t)' /\ ~OnItsTarget(t)'
        BY <3>1 DEF Loop, Due, LostExpected, OnItsTarget
      <3>3. \A u \in Task \ {t} : Due(u)' => Due(u) /\ tgt'[u] = tgt[u]
        BY <3>1 DEF Due, LostExpected
      <3>4. ASSUME tgt[t] \in Expected'
            PROVE  \E u \in Task : tgt'[u] = tgt[t] /\ Chasing(u)'
        <4>1. tgt[t] \in recovering
          BY <2>2, <2>4, <3>4 DEF Expected
        <4>2. PICK u \in Task : Loop(u) /\ tgt[u] = tgt[t]
          BY <4>1 DEF PursueInv
        <4>3. QED
          BY <2>1, <3>1, <4>2 DEF Loop, Chasing
      <3>5. QED
        BY <1>0, <2>1, <2>2, <3>1, <3>2, <3>3, <3>4 DEF Onward, Expected
    <2>5. QED
      BY <2>3, <2>4
  <1>4. CASE Wake(t)
    <2>1. pc[t] = "backoff" /\ UNCHANGED <<known, disabled, stopped, online>>
      BY <1>4 DEF Wake
    <2>2. Loop(t) /\ ~Due(t) /\ op[t] = "recover"
      BY <1>0, <2>1, HandsOffOps
         DEF Own, Calls, TakeOff, Watching, Launching, Loop, Due, LostExpected
    <2>3. \A u \in Task : ~Due(u)
      BY <1>4 DEF Wake, HandsOff, Runnable, Due, LostExpected
    <2>4. CASE tgt[t] \in Expected
      <3>1. /\ Alike(t) /\ tgt'[t] = tgt[t] /\ op'[t] = op[t] /\ pc'[t] = "start"
            /\ recovering' = recovering
        BY <1>0, <1>4, <2>4, GotoTurns DEF Wake
      <3>2. Loop(t)' /\ Chasing(t)' /\ ~OnItsTarget(t)'
        BY <2>2, <3>1 DEF Loop, Chasing, OnItsTarget
      <3>3. \A u \in Task : ~Due(u)'
        BY <2>3, <3>1 DEF Due, LostExpected
      <3>4. QED
        BY <1>0, <2>1, <2>2, <2>3, <3>1, <3>2, <3>3 DEF Onward, Expected
    <2>5. CASE tgt[t] \notin Expected
      <3>1. /\ Alike(t) /\ pc'[t] = "idle" /\ op'[t] = "none"
            /\ recovering' = recovering \ {tgt[t]}
        BY <1>0, <1>4, <2>5, FinishTurns DEF Wake
      <3>2. ~Loop(t)' /\ ~OnItsTarget(t)'
        BY <3>1 DEF Loop, OnItsTarget
      <3>3. \A u \in Task : ~Due(u)'
        BY <2>3, <3>1 DEF Due, LostExpected
      <3>4. QED
        BY <1>0, <2>1, <2>2, <2>5, <3>1, <3>2, <3>3 DEF Onward, Expected
    <2>6. QED
      BY <2>4, <2>5
  <1>5. CASE Lost(t)
    <2>1. /\ pc[t] = "lost" /\ tgt[t] \in online /\ online' = online \ {tgt[t]}
          /\ UNCHANGED <<known, disabled, stopped, recovering>>
      BY <1>5 DEF Lost
    <2>2. /\ Alike(t) /\ tgt'[t] = tgt[t] /\ pc'[t] = "lost_clear"
          /\ op'[t] = IF tgt[t] \in Expected THEN "recover" ELSE "observe"
      BY <1>0, <1>5, BecomeTurns DEF Lost, AfterLoss
    <2>3. ~Loop(t) /\ ~Due(t) /\ ~Loop(t)' /\ ~OnItsTarget(t)'
      BY <2>1, <2>2 DEF Loop, Due, LostExpected, OnItsTarget, Launching
    <2>4. \A u \in Task \ {t} : Due(u)' => Due(u) /\ tgt'[u] = tgt[u]
      BY <2>2 DEF Due, LostExpected
    <2>5. tgt[t] \in Expected => Chasing(t)'
      BY <2>2 DEF Chasing, LostExpected
    <2>6. QED
      BY <1>0, <2>1, <2>2, <2>3, <2>4, <2>5 DEF Onward, Expected
  <1>6. CASE LostClear(t)
    <2>1. pc[t] = "lost_clear" /\ UNCHANGED <<known, disabled, stopped, online, recovering>>
      BY <1>6 DEF LostClear
    <2>2. CASE op[t] = "recover"
      <3>1. Alike(t) /\ tgt'[t] = tgt[t] /\ op'[t] = op[t] /\ pc'[t] = "recovery"
        BY <1>0, <1>6, <2>2, GotoTurns DEF LostClear
      <3>2. /\ ~Loop(t) /\ Due(t) /\ ~Loop(t)' /\ Chasing(t)' /\ ~OnItsTarget(t)'
        BY <2>1, <2>2, <3>1 DEF Loop, Due, Chasing, LostExpected, OnItsTarget, Launching
      <3>3. QED
        BY <1>0, <2>1, <3>1, <3>2, QuietOnward DEF Expected
    <2>3. CASE op[t] # "recover"
      <3>1. Alike(t) /\ tgt'[t] = NoName /\ pc'[t] = "idle" /\ op'[t] = "none"
        BY <1>0, <1>6, <2>3, FinishTurns DEF LostClear
      <3>2. /\ ~Loop(t) /\ ~Chasing(t) /\ ~Loop(t)' /\ ~Due(t)' /\ ~Chasing(t)' /\ ~OnItsTarget(t)'
        BY <2>1, <2>3, <3>1 DEF Loop, Due, Chasing, LostExpected, OnItsTarget, Launching
      <3>3. QED
        BY <1>0, <2>1, <3>1, <3>2, QuietOnward DEF Expected
    <2>4. QED
      BY <2>2, <2>3
  <1>7. QED
    BY <1>1, <1>2, <1>3, <1>4, <1>5, <1>6 DEF Background

LEMMA BootTargetOnward ==
  ASSUME TypeInv, BootInv, PursueInv, NEW t \in Task, BootTarget(t)
  PROVE  PursueInv'
  <1>1. PICK n \in boot :
          /\ boot' = boot \ {n}
          /\ tgt' = [tgt EXCEPT ![t] = n]
          /\ pc' = [pc EXCEPT ![t] = IF n \in disabled THEN "off_probe"
                                     ELSE IF Live(n) THEN "attach" ELSE "start"]
    BY DEF BootTarget
  <1>2. /\ pc[t] = "boot" /\ UNCHANGED <<op, known, disabled, stopped, online, recovering>>
        /\ n \notin online \cup recovering /\ op[t] # "recover"
    BY <1>1 DEF BootTarget, flags, PursueInv, BootInv, OpsOK, Calls, Launching
  <1>3. /\ tgt'[t] = n /\ pc'[t] \in {"off_probe", "attach", "start"}
        /\ n \in disabled \/ pc'[t] \in {"attach", "start"}
        /\ \A u \in Task \ {t} : tgt'[u] = tgt[u] /\ pc'[u] = pc[u]
    BY <1>1 DEF TypeInv, TypeOK, TasksOK
  <1>4. /\ ~Loop(t) /\ ~Loop(t)' /\ ~Due(t)' /\ ~Chasing(t)
        /\ n \in disabled \/ Chasing(t)'
    BY <1>2, <1>3 DEF Loop, Due, Chasing, LostExpected, Launching
  <1>5. \A u \in Task \ {t} :
          /\ Loop(u)' <=> Loop(u)
          /\ Due(u)' <=> Due(u)
          /\ Chasing(u)' <=> Chasing(u)
          /\ OnItsTarget(u)' <=> OnItsTarget(u)
    BY <1>2, <1>3 DEF Loop, Due, Chasing, LostExpected, OnItsTarget
  <1>6. (\A u \in Task : OnItsTarget(u) => tgt[u] \notin online \cup recovering)'
    BY <1>2, <1>3, <1>5 DEF PursueInv
  <1>7. (\A v, u \in Task : Loop(v) /\ Due(u) /\ tgt[v] = tgt[u] => pc[v] = "backoff")'
    BY <1>3, <1>4, <1>5 DEF PursueInv
  <1>8. ExpectedIsPursued'
    <2> SUFFICES ASSUME NEW m \in Expected', m \notin online' PROVE Pursued(m)'
      BY DEF ExpectedIsPursued
    <2>1. CASE m = n
      <3>1. tgt'[t] = m /\ Chasing(t)'
        BY <1>2, <1>3, <1>4, <2>1 DEF Expected
      <3>2. QED
        BY <3>1 DEF Chasing, LostExpected, Pursued, Some
    <2>2. CASE m # n
      <3>1. m \in boot \/ \E u \in Task : tgt[u] = m /\ Chasing(u)
        BY <1>2 DEF PursueInv, ExpectedIsPursued, Expected, Pursued, Some, Chasing, LostExpected
      <3>2. m \in boot' \/ \E u \in Task : tgt'[u] = m /\ Chasing(u)'
        BY <1>1, <1>3, <1>4, <1>5, <2>2, <3>1
      <3>3. QED
        BY <3>2 DEF Chasing, LostExpected, Pursued, Some
    <2>3. QED
      BY <2>1, <2>2
  <1>9. (\A m \in recovering : \E u \in Task : Loop(u) /\ tgt[u] = m)'
    BY <1>2, <1>3, <1>4, <1>5 DEF PursueInv
  <1>10. /\ (\A u \in Task : Loop(u) => tgt[u] \in recovering \ online)'
         /\ (\A v, u \in Task : Loop(v) /\ Loop(u) /\ tgt[v] = tgt[u] => v = u)'
         /\ (\A u \in Task : Due(u) => tgt[u] \notin online)'
    BY <1>2, <1>3, <1>4, <1>5 DEF PursueInv
  <1>11. (disabled \subseteq stopped)' /\ (boot \cap (online \cup recovering) = {})'
    BY <1>1, <1>2 DEF PursueInv
  <1>12. QED
    BY <1>6, <1>7, <1>8, <1>9, <1>10, <1>11 DEF PursueInv

\* Steps that leave every task's call, or give an idle one a request's.
LEMMA RequestOnward ==
  ASSUME TypeInv, PursueInv, HandsOff, NEW t \in Task, Request(t)
  PROVE  PursueInv'
  <1>1. PICK o \in Ops, n \in Name :
          /\ pc' = [pc EXCEPT ![t] = o]
          /\ op' = [op EXCEPT ![t] = o]
          /\ tgt' = [tgt EXCEPT ![t] = n]
    BY DEF Request
  <1>2. /\ pc'[t] = o /\ op'[t] = o /\ pc[t] = "idle" /\ o \in {"enable", "add", "save_channel"}
        /\ \A u \in Task \ {t} : tgt'[u] = tgt[u] /\ pc'[u] = pc[u] /\ op'[u] = op[u]
        /\ UNCHANGED <<known, disabled, stopped, online, recovering, boot>>
    BY <1>1 DEF Request, flags, HandsOff, TypeInv, TypeOK, TasksOK
  <1>3. /\ ~Loop(t) /\ ~Chasing(t)
        /\ ~Loop(t)' /\ ~Due(t)' /\ ~OnItsTarget(t)'
    BY <1>2 DEF Loop, Due, Chasing, LostExpected, OnItsTarget, Launching
  <1>4. \A u \in Task \ {t} :
          /\ Loop(u)' <=> Loop(u)
          /\ Due(u)' <=> Due(u)
          /\ Chasing(u)' <=> Chasing(u)
          /\ OnItsTarget(u)' <=> OnItsTarget(u)
    BY <1>2 DEF Loop, Due, Chasing, LostExpected, OnItsTarget
  <1>5. ASSUME NEW m \in Expected', m \notin online' PROVE Pursued(m)'
    <2>1. m \in boot \/ \E u \in Task : tgt[u] = m /\ Chasing(u)
      BY <1>2, <1>5 DEF PursueInv, ExpectedIsPursued, Expected, Pursued, Some, Chasing, LostExpected
    <2>2. m \in boot' \/ \E u \in Task : tgt'[u] = m /\ Chasing(u)'
      BY <1>2, <1>3, <1>4, <2>1
    <2>3. QED
      BY <2>2 DEF Chasing, LostExpected, Pursued, Some
  <1>6. (\A m \in recovering : \E u \in Task : Loop(u) /\ tgt[u] = m)'
    BY <1>2, <1>3, <1>4 DEF PursueInv
  <1>7. /\ (\A u \in Task : Loop(u) => tgt[u] \in recovering \ online)'
        /\ (\A v, u \in Task : Loop(v) /\ Loop(u) /\ tgt[v] = tgt[u] => v = u)'
        /\ (\A u \in Task : Due(u) => tgt[u] \notin online)'
        /\ (\A v, u \in Task : Loop(v) /\ Due(u) /\ tgt[v] = tgt[u] => pc[v] = "backoff")'
        /\ (\A u \in Task : OnItsTarget(u) => tgt[u] \notin online \cup recovering)'
    BY <1>2, <1>3, <1>4 DEF PursueInv
  <1>8. QED
    BY <1>2, <1>5, <1>6, <1>7 DEF PursueInv, ExpectedIsPursued

\* The daemon begins anew: every target that is meant to run is to be booted.
LEMMA RestartOnward ==
  ASSUME TypeInv, DaemonRestarts
  PROVE  PursueInv'
  <1>1. PICK t \in Task :
          /\ pc' = [u \in Task |-> IF u = t THEN "boot" ELSE "idle"]
          /\ op' = [u \in Task |-> IF u = t THEN "boot" ELSE "none"]
    BY DEF DaemonRestarts
  <1>2. \A u \in Task : ~Loop(u)' /\ ~Due(u)' /\ ~OnItsTarget(u)'
    BY <1>1 DEF Loop, Due, LostExpected, OnItsTarget, Launching
  <1>3. ExpectedIsPursued'
    BY DEF DaemonRestarts, ExpectedIsPursued, Expected, Pursued
  <1>4. QED
    BY <1>2, <1>3 DEF DaemonRestarts, PursueInv

LEMMA PursueStep ==
  ASSUME TypeInv, TypeInv', BootInv, LaunchingIsBacked, PursueInv, HandsOff, [Next]_vars
  PROVE  PursueInv'
  <1>1. OpsOK
    BY DEF BootInv
  <1>2. ASSUME NEW t \in Task, Step(t) PROVE PursueInv'
    <2>1. CASE BootTarget(t)
      BY <2>1, BootTargetOnward
    <2>2. CASE DaemonRestarts
      BY <2>2, RestartOnward
    <2>3. CASE ~BootTarget(t) /\ ~DaemonRestarts
      <3>1. Kept(t)
        BY <1>1, <1>2, <2>3, LaunchKeeps, TakeDownKeeps, AdministerKeeps, BackgroundKeeps DEF Step
      <3>2. Onward(t)
        BY <1>2, <2>3, LaunchOnward, TakeDownOnward, AdministerOnward, BackgroundOnward DEF Step
      <3>3. QED
        BY <3>1, <3>2, OnwardKept
    <2>4. QED
      BY <2>1, <2>2, <2>3
  <1>3. ASSUME NEW t \in Task, Request(t) PROVE PursueInv'
    BY <1>3, RequestOnward
  <1>4. CASE Outside \/ UNCHANGED vars
    <2>1. UNCHANGED <<known, disabled, stopped, online, recovering, boot, pc, op, tgt>>
      BY <1>4 DEF Outside, ReadLine, Bind, QuitExit, MpvExit, MpvHang, Leave, tasks, flags, vars
    <2>2. QED
      BY <2>1 DEF PursueInv, Loop, Due, LostExpected, OnItsTarget, ExpectedIsPursued, Expected,
                  Pursued, Some
  <1>5. CASE DaemonCrash
    BY <1>5, RestartOnward DEF DaemonCrash
  <1>6. QED
    BY <1>2, <1>3, <1>4, <1>5 DEF Next, Outside

LEMMA PursueHolds ==
  ASSUME HandsOff
  PROVE  Spec => []PursueInv
  <1>1. Init => PursueInv
    <2> SUFFICES ASSUME Init PROVE PursueInv
      OBVIOUS
    <2>1. PICK t \in Task :
            /\ pc = [u \in Task |-> IF u = t THEN "boot" ELSE "idle"]
            /\ op = [u \in Task |-> IF u = t THEN "boot" ELSE "none"]
      BY DEF Init
    <2>2. \A u \in Task : ~Loop(u) /\ ~Due(u) /\ ~OnItsTarget(u)
      BY <2>1 DEF Loop, Due, LostExpected, OnItsTarget, Launching
    <2>3. ExpectedIsPursued
      BY DEF Init, ExpectedIsPursued, Expected, Pursued
    <2>4. QED
      BY <2>2, <2>3 DEF Init, PursueInv
  <1>2. TypeInv /\ TypeInv' /\ BootInv /\ LaunchingIsBacked /\ PursueInv /\ [Next]_vars => PursueInv'
    BY PursueStep
  <1>3. Spec => []LaunchingIsBacked
    BY LaunchingAlwaysBacked DEF HandsOff
  <1>4. QED
    BY <1>1, <1>2, <1>3, TypesHold, BootHolds, PTL DEF Spec

\* A target that is meant to run is online or somebody is on the way to start
\* it, through losses, failed and slow launches, hanging mpvs, failed boots and
\* daemon crashes: `recovering`, which keeps schedule_recovery from starting a
\* second loop, always has the first one behind it - while no client starts or
\* stops the target.
THEOREM ExpectedAlwaysPursued ==
  ASSUME HandsOff
  PROVE  Spec => []ExpectedIsPursued
  <1>1. PursueInv => ExpectedIsPursued
    BY DEF PursueInv
  <1>2. QED
    BY <1>1, PursueHolds, PTL
===============================================================================
