------------------------------ MODULE Supervisor ------------------------------
(***************************************************************************)
(* The lifecycle core of mpv-targetsd (supervisor.rs): the per-target flags*)
(* behind the `inner` mutex, the `mutations` mutex, and the tokio tasks    *)
(* that interleave between critical sections - client requests, launches,  *)
(* observers, recovery loops and the boot loop of start_configured_targets *)
(* - together with the external mpv processes and their IPC sockets.       *)
(*                                                                         *)
(* One action is one critical section of `inner` (or one external call     *)
(* between two of them); a task's program counter names the call it makes  *)
(* next.  Flags are sets of names: "n \in online" is targets[n].online.    *)
(***************************************************************************)
EXTENDS FiniteSets

CONSTANTS
  Name,       \* target names a configuration or a client can mention
  Task,       \* slots for tokio tasks (bound: tasks alive at once)
  Mpv,        \* mpv processes (bound: processes alive at once)
  NoName, NoTask, NoMpv,
  Ops,        \* operations the clients of this instance issue
  Faults      \* what may go wrong in this instance

Operation == {"start", "stop", "restart", "enable", "disable", "set_channel",
              "add", "remove", "rename", "save_channel"}

Fault == {"mpv_exit", "mpv_hang", "spawn_fail", "slow_launch", "slow_quit",
          "reply_lost", "persist_fail", "daemon_crash", "starved_tasks"}

ASSUME ConstantsAssumption ==
  /\ NoName \notin Name /\ NoTask \notin Task /\ NoMpv \notin Mpv
  /\ Ops \subseteq Operation /\ Faults \subseteq Fault

VARIABLES
  known,      \* keys of inner.targets = names in inner.config = names on disk
  disabled, stopped, online, launching, recovering,   \* RuntimeTarget flags
  observed,   \* targets whose TargetState differs from its default
  mutations,  \* the task holding the `mutations` mutex
  boot,       \* names start_configured_targets has not handled yet
  pc, op, tgt,\* per task: next call, operation it belongs to, target name
  link,       \* per task: the mpv it spawned or is connected to
  mpv,        \* external: state of each process
  home,       \* external: the target each process was launched for
  socket      \* external: the process that accepts on <runtime>/<name>.sock

flags == <<disabled, stopped, online, launching, recovering, observed>>
tasks == <<pc, op, tgt, link>>
procs == <<mpv, home, socket>>
vars  == <<known, flags, mutations, boot, tasks, procs>>

(***************************************************************************)
(* Tasks.                                                                  *)
(***************************************************************************)
Launching == {"probe", "spawn", "await_socket", "mark_online", "launch_failed"}
Watching  == {"connect", "reading", "lost"}
Label == Operation \cup Launching \cup Watching \cup
  {"idle", "boot", "attach", "boot_failed", "restart_stopped", "off_probe",
   "quit", "await_gone", "clear", "off_flags", "mark_offline",
   "persist_disabled", "remove_commit", "rename_commit", "save_query",
   "recovery", "backoff", "lost_clear"}
TaskOp == Operation \cup {"none", "boot", "off", "recover", "observe"}

Idle == {t \in Task : pc[t] = "idle"}
Live(n) == socket[n] # NoMpv

Goto(t, l) == pc' = [pc EXCEPT ![t] = l] /\ UNCHANGED <<op, tgt, link>>

\* The task goes on as another operation on the same target.
Become(t, l, o) ==
  /\ pc' = [pc EXCEPT ![t] = l]
  /\ op' = [op EXCEPT ![t] = o]
  /\ link' = [link EXCEPT ![t] = NoMpv]
  /\ UNCHANGED tgt

Finish(t) ==
  /\ pc' = [pc EXCEPT ![t] = "idle"]
  /\ op' = [op EXCEPT ![t] = "none"]
  /\ tgt' = [tgt EXCEPT ![t] = NoName]
  /\ link' = [link EXCEPT ![t] = NoMpv]

\* Boot is done with its current target.
NextBoot(t) ==
  /\ pc' = [pc EXCEPT ![t] = "boot"]
  /\ tgt' = [tgt EXCEPT ![t] = NoName]
  /\ link' = [link EXCEPT ![t] = NoMpv]
  /\ UNCHANGED op

\* tokio::spawn of a task (l, o) for the same target, the spawner goes on at k.
\* A spawner with nothing left to do hands over its slot (see Become).
Fork(t, k, l, o) ==
  \E w \in Idle :
    /\ pc' = [pc EXCEPT ![t] = k, ![w] = l]
    /\ op' = [op EXCEPT ![w] = o]
    /\ tgt' = [tgt EXCEPT ![w] = tgt[t], ![t] = IF k = "boot" THEN NoName ELSE @]
    /\ link' = [link EXCEPT ![t] = NoMpv]

Release(t) == mutations' = IF mutations = t THEN NoTask ELSE mutations

(***************************************************************************)
(* Process start: every flag is rebuilt from the configuration, no task    *)
(* survives, mpv processes do (KillMode=process, children not reaped).     *)
(***************************************************************************)
Init ==
  /\ known \in SUBSET Name
  /\ disabled \in SUBSET known
  /\ stopped = disabled
  /\ online = {} /\ launching = {} /\ recovering = {} /\ observed = {}
  /\ mutations = NoTask
  /\ boot = known
  /\ \E t \in Task :
       /\ pc = [u \in Task |-> IF u = t THEN "boot" ELSE "idle"]
       /\ op = [u \in Task |-> IF u = t THEN "boot" ELSE "none"]
  /\ tgt = [u \in Task |-> NoName]
  /\ link = [u \in Task |-> NoMpv]
  /\ mpv = [p \in Mpv |-> "none"]
  /\ home = [p \in Mpv |-> NoName]
  /\ socket = [n \in Name |-> NoMpv]

DaemonRestarts ==
  /\ stopped' = disabled
  /\ online' = {} /\ launching' = {} /\ recovering' = {} /\ observed' = {}
  /\ mutations' = NoTask
  /\ boot' = known
  /\ \E t \in Task :
       /\ pc' = [u \in Task |-> IF u = t THEN "boot" ELSE "idle"]
       /\ op' = [u \in Task |-> IF u = t THEN "boot" ELSE "none"]
  /\ tgt' = [u \in Task |-> NoName]
  /\ link' = [u \in Task |-> NoMpv]
  /\ UNCHANGED <<known, disabled, procs>>

DaemonCrash == "daemon_crash" \in Faults /\ DaemonRestarts

(***************************************************************************)
(* start_configured_targets: one target after the other, before the server *)
(* accepts a connection.                                                   *)
(***************************************************************************)
Serving == \A t \in Task : op[t] # "boot"

BootTarget(t) ==
  /\ pc[t] = "boot"
  /\ \E n \in boot :
       /\ boot' = boot \ {n}
       /\ tgt' = [tgt EXCEPT ![t] = n]
       /\ pc' = [pc EXCEPT ![t] = IF n \in disabled THEN "off_probe"
                                  ELSE IF Live(n) THEN "attach" ELSE "start"]
  /\ UNCHANGED <<known, flags, mutations, op, link, procs>>

BootDone(t) ==
  /\ pc[t] = "boot" /\ boot = {}
  /\ Finish(t)
  /\ UNCHANGED <<known, flags, mutations, boot, procs>>

\* start failed: boot schedules a recovery besides the one start scheduled.
BootFailed(t) ==
  /\ pc[t] = "boot_failed"
  /\ Fork(t, "boot", "recovery", "recover")
  /\ UNCHANGED <<known, flags, mutations, boot, procs>>

Request(t) ==
  /\ Serving /\ pc[t] = "idle"
  /\ \E o \in Ops, n \in Name :
       /\ pc' = [pc EXCEPT ![t] = o]
       /\ op' = [op EXCEPT ![t] = o]
       /\ tgt' = [tgt EXCEPT ![t] = n]
  /\ UNCHANGED <<known, flags, mutations, boot, link, procs>>

(***************************************************************************)
(* start and launch.                                                       *)
(***************************************************************************)
StartReturns(t, ok) ==
  IF op[t] = "boot" THEN IF ok THEN NextBoot(t) ELSE Goto(t, "boot_failed")
  ELSE IF op[t] = "recover" /\ ~ok THEN Goto(t, "backoff")
  ELSE Finish(t)

\* Variant: start forgets its disabled check.
StartableDisabled == known
Startable == known \ disabled

\* Variant: start only looks at online.
BusyOnline == online
\* Online, or somebody else is launching: nothing to do but report success.
Busy == online \cup launching

StartRefused(t) ==
  /\ pc[t] = "start" /\ tgt[t] \notin Startable
  /\ StartReturns(t, FALSE)
  /\ UNCHANGED <<known, flags, mutations, boot, procs>>

StartJoins(t) ==
  LET n == tgt[t] IN
  /\ pc[t] = "start" /\ n \in Startable \cap Busy
  /\ stopped' = stopped \ {n}
  /\ StartReturns(t, TRUE)
  /\ UNCHANGED <<known, disabled, online, launching, recovering, observed,
                 mutations, boot, procs>>

StartLaunches(t) ==
  LET n == tgt[t] IN
  /\ pc[t] = "start" /\ n \in Startable \ Busy
  /\ stopped' = stopped \ {n}
  /\ launching' = launching \cup {n}
  /\ Goto(t, "probe")
  /\ UNCHANGED <<known, disabled, online, recovering, observed,
                 mutations, boot, procs>>

\* Variant: launch spawns without probing the socket.
ProbeSkipped(t) ==
  /\ pc[t] = "probe"
  /\ Goto(t, IF tgt[t] \notin known THEN "launch_failed" ELSE "spawn")
  /\ UNCHANGED <<known, flags, mutations, boot, procs>>

Probe(t) ==
  /\ pc[t] = "probe"
  /\ Goto(t, IF tgt[t] \notin known THEN "launch_failed"
             ELSE IF Live(tgt[t]) THEN "mark_online" ELSE "spawn")
  /\ UNCHANGED <<known, flags, mutations, boot, procs>>

\* The socket file is removed, whoever has bound it since the probe.
Spawn(t) ==
  LET n == tgt[t] IN
  /\ pc[t] = "spawn"
  /\ socket' = [socket EXCEPT ![n] = NoMpv]
  /\ \E p \in Mpv :
       /\ mpv[p] = "none"
       /\ mpv' = [mpv EXCEPT ![p] = "starting"]
       /\ home' = [home EXCEPT ![p] = n]
       /\ pc' = [pc EXCEPT ![t] = "await_socket"]
       /\ link' = [link EXCEPT ![t] = p]
  /\ UNCHANGED <<known, flags, mutations, boot, op, tgt>>

SpawnFails(t) ==
  /\ "spawn_fail" \in Faults
  /\ pc[t] = "spawn"
  /\ socket' = [socket EXCEPT ![tgt[t]] = NoMpv]
  /\ Goto(t, "launch_failed")
  /\ UNCHANGED <<known, flags, mutations, boot, mpv, home>>

\* Any live socket at the path will do, the child's own or not.
SocketAppears(t) ==
  /\ pc[t] = "await_socket" /\ Live(tgt[t])
  /\ Become(t, "mark_online", op[t])
  /\ UNCHANGED <<known, flags, mutations, boot, procs>>

\* External: process p is gone, its connections and its socket with it.
Gone(p) ==
  /\ mpv' = [mpv EXCEPT ![p] = "none"]
  /\ home' = [home EXCEPT ![p] = NoName]
  /\ socket' = [n \in Name |-> IF socket[n] = p THEN NoMpv ELSE socket[n]]

Unlinked(p) == [t \in Task |-> IF link[t] = p THEN NoMpv ELSE link[t]]

\* wait_for_socket gives up after IPC_WAIT and the child is killed.
SocketTimesOut(t) ==
  /\ pc[t] = "await_socket" /\ ~Live(tgt[t])
  /\ link[t] = NoMpv \/ "slow_launch" \in Faults
  /\ pc' = [pc EXCEPT ![t] = "launch_failed"]
  /\ IF link[t] = NoMpv THEN UNCHANGED <<procs, link>>
     ELSE Gone(link[t]) /\ link' = Unlinked(link[t])
  /\ UNCHANGED <<known, flags, mutations, boot, op, tgt>>

\* Variant: mark_online leaves the recovering flag alone.
StillRecovering(n) == recovering' = recovering
Recovered(n) == recovering' = recovering \ {n}

\* mark_online spawns the observer of the connection it announces.
MarkOnline(t) ==
  LET n == tgt[t] IN
  /\ pc[t] \in {"mark_online", "attach"} /\ n \in known \ online
  /\ online' = online \cup {n}
  /\ launching' = launching \ {n}
  /\ Recovered(n)
  /\ IF op[t] = "boot" THEN Fork(t, "boot", "connect", "observe")
     ELSE Become(t, "connect", "observe")
  /\ UNCHANGED <<known, disabled, stopped, observed, mutations, boot, procs>>

\* Somebody else marked it, or the target was removed meanwhile.
AlreadyOnline(t) ==
  /\ pc[t] \in {"mark_online", "attach"} /\ tgt[t] \notin known \ online
  /\ StartReturns(t, tgt[t] \in known)
  /\ UNCHANGED <<known, flags, mutations, boot, procs>>

\* Variant: a failed launch keeps its reservation.
KeepLaunching(n) == launching' = launching
ClearLaunching(n) == launching' = launching \ {n}

\* clear_launching, then schedule_recovery, then the error is returned.  Bound:
\* with no slot left a recovery loop's second recovery task is not spawned.
LaunchFailed(t) ==
  /\ pc[t] = "launch_failed"
  /\ ClearLaunching(tgt[t])
  /\ CASE op[t] = "boot"    -> Fork(t, "boot_failed", "recovery", "recover")
       [] op[t] = "recover" -> \/ Fork(t, "backoff", "recovery", "recover")
                               \/ Idle = {} /\ Goto(t, "backoff")
       [] OTHER             -> Become(t, "recovery", "recover")
  /\ UNCHANGED <<known, disabled, stopped, online, recovering, observed,
                 mutations, boot, procs>>

(***************************************************************************)
(* stop, and ensure_disabled_off, which shares quit/gone/clear with it.    *)
(***************************************************************************)
\* A `?` in stop or ensure_disabled_off: the request fails, the mutex guard of
\* remove is dropped; at boot main() returns the error and the daemon exits.
StopFails(t) ==
  IF op[t] = "boot" THEN DaemonRestarts
  ELSE Finish(t) /\ Release(t) /\ UNCHANGED <<known, flags, boot, procs>>

\* Variant: remove persists through persist_target_change, which locks again.
StopReturnsNested(t) ==
  CASE op[t] = "restart" -> Goto(t, "start")
    [] op[t] \in {"disable", "remove"} -> Goto(t, "persist_disabled")
    [] OTHER             -> Finish(t)

StopReturns(t) ==
  CASE op[t] = "restart" -> Goto(t, "start")
    [] op[t] = "disable" -> Goto(t, "persist_disabled")
    [] op[t] = "remove"  -> Goto(t, "remove_commit")
    [] OTHER             -> Finish(t)

StopRefused(t) ==
  /\ pc[t] = "stop" /\ tgt[t] \notin known \ stopped
  /\ StopFails(t)

Stop(t) ==
  /\ pc[t] = "stop" /\ tgt[t] \in known \ stopped
  /\ stopped' = stopped \cup {tgt[t]}
  /\ Goto(t, IF tgt[t] \in online THEN "quit" ELSE "clear")
  /\ UNCHANGED <<known, disabled, online, launching, recovering, observed,
                 mutations, boot, procs>>

OffProbe(t) ==
  /\ pc[t] = "off_probe"
  /\ Goto(t, IF Live(tgt[t]) THEN "quit" ELSE "clear")
  /\ UNCHANGED <<known, flags, mutations, boot, procs>>

\* ipc_command has no timeout: a process that accepts and never answers
\* blocks this step.
Quit(t) ==
  LET p == socket[tgt[t]] IN
  /\ pc[t] = "quit" /\ p # NoMpv /\ mpv[p] # "hung"
  /\ mpv' = [mpv EXCEPT ![p] = "quitting"]
  /\ Goto(t, "await_gone")
  /\ UNCHANGED <<known, flags, mutations, boot, home, socket>>

\* Nobody listens any more.
QuitFails(t) ==
  /\ pc[t] = "quit" /\ ~Live(tgt[t])
  /\ StopFails(t)

\* mpv obeys, and closes the connection before its reply is read.
ReplyLost(t) ==
  /\ "reply_lost" \in Faults
  /\ pc[t] = "await_gone"
  /\ StopFails(t)

SocketGone(t) ==
  /\ pc[t] = "await_gone" /\ ~Live(tgt[t])
  /\ Goto(t, "clear")
  /\ UNCHANGED <<known, flags, mutations, boot, procs>>

GoneTimesOut(t) ==
  /\ pc[t] = "await_gone" /\ Live(tgt[t])
  /\ "slow_quit" \in Faults \/ mpv[socket[tgt[t]]] # "quitting"
  /\ StopFails(t)

ClearObserved(t) ==
  /\ pc[t] = "clear"
  /\ observed' = observed \ {tgt[t]}
  /\ Goto(t, IF op[t] \in {"boot", "off"} THEN "off_flags" ELSE "mark_offline")
  /\ UNCHANGED <<known, disabled, stopped, online, launching, recovering,
                 mutations, boot, procs>>

MarkOffline(t) ==
  LET n == tgt[t] IN
  /\ pc[t] = "mark_offline"
  /\ online' = online \ {n}
  /\ launching' = IF n \in online THEN launching \ {n} ELSE launching
  /\ IF n \in known THEN StopReturns(t) ELSE Finish(t)
  /\ UNCHANGED <<known, disabled, stopped, recovering, observed,
                 mutations, boot, procs>>

OffFlags(t) ==
  LET n == tgt[t] IN
  /\ pc[t] = "off_flags"
  /\ stopped' = IF n \in known THEN stopped \cup {n} ELSE stopped
  /\ online' = online \ {n}
  /\ launching' = launching \ {n}
  /\ recovering' = recovering \ {n}
  /\ IF op[t] = "boot" THEN NextBoot(t) ELSE Finish(t)
  /\ UNCHANGED <<known, disabled, observed, mutations, boot, procs>>

(***************************************************************************)
(* restart and disable read a flag in one critical section and act on it   *)
(* in a later one.                                                         *)
(***************************************************************************)
Restart(t) ==
  /\ pc[t] = "restart"
  /\ IF tgt[t] \notin known THEN Finish(t)
     ELSE IF tgt[t] \in disabled THEN Become(t, "off_probe", "off")
     ELSE Goto(t, "restart_stopped")
  /\ UNCHANGED <<known, flags, mutations, boot, procs>>

RestartStopped(t) ==
  /\ pc[t] = "restart_stopped"
  /\ IF tgt[t] \notin known THEN Finish(t)
     ELSE Goto(t, IF tgt[t] \in stopped THEN "start" ELSE "stop")
  /\ UNCHANGED <<known, flags, mutations, boot, procs>>

Disable(t) ==
  /\ pc[t] = "disable"
  /\ IF tgt[t] \notin known THEN Finish(t)
     ELSE Goto(t, IF tgt[t] \in stopped THEN "persist_disabled" ELSE "stop")
  /\ UNCHANGED <<known, flags, mutations, boot, procs>>

(***************************************************************************)
(* Configuration changes.  persist_target_change and add hold `mutations`  *)
(* over steps nothing else can see, so they are one action each; the file  *)
(* replaced by persist_config and the memory installed after it are one    *)
(* `disabled`, since a crash between them loses the memory anyway.         *)
(***************************************************************************)
Persisting == {"enable", "persist_disabled", "set_channel"}

PersistChange(t) ==
  LET n == tgt[t] IN
  /\ pc[t] \in Persisting /\ mutations = NoTask /\ n \in known
  /\ disabled' = CASE pc[t] = "enable"           -> disabled \ {n}
                   [] pc[t] = "persist_disabled" -> disabled \cup {n}
                   [] OTHER                      -> disabled
  /\ Finish(t) \/ (op[t] = "set_channel" /\ Become(t, "restart", "restart"))
  /\ UNCHANGED <<known, stopped, online, launching, recovering, observed,
                 mutations, boot, procs>>

PersistFails(t) ==
  /\ pc[t] \in Persisting \cup {"add"} /\ mutations = NoTask
  /\ "persist_fail" \in Faults \/ (tgt[t] \in known) = (pc[t] = "add")
  /\ Finish(t)
  /\ UNCHANGED <<known, flags, mutations, boot, procs>>

\* A new target is stopped; it is enabled only on request.
Add(t) ==
  LET n == tgt[t] IN
  /\ pc[t] = "add" /\ mutations = NoTask /\ n \notin known
  /\ known' = known \cup {n}
  /\ stopped' = stopped \cup {n}
  /\ disabled' \in {disabled, disabled \cup {n}}
  /\ Finish(t)
  /\ UNCHANGED <<online, launching, recovering, observed, mutations, boot, procs>>

Admin == {"remove", "rename", "save_channel"}

Refused(o, n) ==
  \/ n \notin known
  \/ o = "rename" /\ (n \notin stopped \/ known = Name)

AdminRefused(t) ==
  /\ pc[t] \in Admin /\ mutations = NoTask /\ Refused(pc[t], tgt[t])
  /\ Finish(t)
  /\ UNCHANGED <<known, flags, mutations, boot, procs>>

LockMutations(t) ==
  /\ pc[t] \in Admin /\ mutations = NoTask /\ ~Refused(pc[t], tgt[t])
  /\ mutations' = t
  /\ Goto(t, CASE pc[t] = "rename"       -> "rename_commit"
               [] pc[t] = "save_channel" -> "save_query"
               [] OTHER -> IF tgt[t] \in stopped THEN "remove_commit" ELSE "stop")
  /\ UNCHANGED <<known, flags, boot, procs>>

RemoveCommit(t) ==
  LET gone == {tgt[t]} IN
  /\ pc[t] = "remove_commit"
  /\ known' = known \ gone
  /\ disabled' = disabled \ gone /\ stopped' = stopped \ gone
  /\ online' = online \ gone /\ launching' = launching \ gone
  /\ recovering' = recovering \ gone /\ observed' = observed \ gone
  /\ Release(t) /\ Finish(t)
  /\ UNCHANGED <<boot, procs>>

\* The whole RuntimeTarget moves to the new key; tasks keep the old name.
RenameCommit(t) ==
  /\ pc[t] = "rename_commit"
  /\ \E m \in Name \ known :
       LET n == tgt[t]
           Moved(S) == IF n \in S THEN (S \ {n}) \cup {m} ELSE S
       IN /\ known' = Moved(known)
          /\ disabled' = Moved(disabled) /\ stopped' = Moved(stopped)
          /\ online' = Moved(online) /\ launching' = Moved(launching)
          /\ recovering' = Moved(recovering) /\ observed' = Moved(observed)
  /\ Release(t) /\ Finish(t)
  /\ UNCHANGED <<boot, procs>>

CommitFails(t) ==
  /\ "persist_fail" \in Faults
  /\ pc[t] \in {"remove_commit", "rename_commit"}
  /\ Release(t) /\ Finish(t)
  /\ UNCHANGED <<known, flags, boot, procs>>

\* save_channel asks mpv for its playlist under the mutex, without a timeout.
SaveQuery(t) ==
  LET n == tgt[t] IN
  /\ pc[t] = "save_query"
  /\ n \in online /\ Live(n) => mpv[socket[n]] # "hung"
  /\ Release(t) /\ Finish(t)
  /\ UNCHANGED <<known, flags, boot, procs>>

(***************************************************************************)
(* schedule_recovery: the loop of one recovery task.                       *)
(***************************************************************************)
Expected == known \ (disabled \cup stopped)

BeginRecovery(t) ==
  LET n == tgt[t] IN
  /\ pc[t] = "recovery"
  /\ IF n \in Expected \ recovering
     THEN recovering' = recovering \cup {n} /\ Goto(t, "backoff")
     ELSE UNCHANGED recovering /\ Finish(t)
  /\ UNCHANGED <<known, disabled, stopped, online, launching, observed,
                 mutations, boot, procs>>

\* The sleep of at least a second ends.  Without "starved_tasks" a task that
\* only has to be polled to schedule or begin a recovery does so before that.
Runnable == {"lost_clear", "boot_failed", "recovery"}
Wake(t) ==
  LET n == tgt[t] IN
  /\ pc[t] = "backoff"
  /\ "starved_tasks" \in Faults \/ \A u \in Task : pc[u] \notin Runnable
  /\ IF n \in Expected
     THEN UNCHANGED recovering /\ Goto(t, "start")
     ELSE recovering' = recovering \ {n} /\ Finish(t)
  /\ UNCHANGED <<known, disabled, stopped, online, launching, observed,
                 mutations, boot, procs>>

(***************************************************************************)
(* observe_target and on_target_lost.                                      *)
(***************************************************************************)
Connect(t) ==
  /\ pc[t] = "connect"
  /\ pc' = [pc EXCEPT ![t] = IF Live(tgt[t]) THEN "reading" ELSE "lost"]
  /\ link' = [link EXCEPT ![t] = socket[tgt[t]]]
  /\ UNCHANGED <<known, flags, mutations, boot, op, tgt, procs>>

\* Variant: an event recreates the entry of a removed target.
ReadLineUnchecked(t) ==
  /\ pc[t] = "reading"
  /\ observed' \in {observed \cup {tgt[t]}, observed \ {tgt[t]}}
  /\ UNCHANGED <<known, disabled, stopped, online, launching, recovering,
                 mutations, boot, tasks, procs>>

\* update_observed, update_media_end, clear_media_end: an event, possibly one
\* still buffered after mpv is gone, sets or clears a playback field.
ReadLine(t) ==
  /\ pc[t] = "reading" /\ tgt[t] \in known
  /\ observed' \in {observed \cup {tgt[t]}, observed \ {tgt[t]}}
  /\ UNCHANGED <<known, disabled, stopped, online, launching, recovering,
                 mutations, boot, tasks, procs>>

\* Variant: the observer just returns at end of file.
EndOfStreamQuiet(t) ==
  /\ pc[t] = "reading" /\ link[t] = NoMpv
  /\ Finish(t)
  /\ UNCHANGED <<known, flags, mutations, boot, procs>>

EndOfStream(t) ==
  /\ pc[t] = "reading" /\ link[t] = NoMpv
  /\ Goto(t, "lost")
  /\ UNCHANGED <<known, flags, mutations, boot, procs>>

\* Variant: the loss of a stopped target is taken for the stop's own doing.
LostIgnoredStopped(t) ==
  /\ pc[t] = "lost" /\ tgt[t] \notin online \ stopped
  /\ Finish(t)
  /\ UNCHANGED <<known, flags, mutations, boot, procs>>

LostIgnored(t) ==
  /\ pc[t] = "lost" /\ tgt[t] \notin online
  /\ Finish(t)
  /\ UNCHANGED <<known, flags, mutations, boot, procs>>

\* Variant: a lost target is never recovered.
AfterLossNothing(n) == "observe"
\* The flags decide here; the task acts on it after LostClear.
AfterLoss(n) == IF n \in Expected THEN "recover" ELSE "observe"

Lost(t) ==
  LET n == tgt[t] IN
  /\ pc[t] = "lost" /\ n \in online
  /\ online' = online \ {n}
  /\ launching' = launching \ {n}
  /\ Become(t, "lost_clear", AfterLoss(n))
  /\ UNCHANGED <<known, disabled, stopped, recovering, observed,
                 mutations, boot, procs>>

LostClear(t) ==
  /\ pc[t] = "lost_clear"
  /\ observed' = observed \ {tgt[t]}
  /\ IF op[t] = "recover" THEN Goto(t, "recovery") ELSE Finish(t)
  /\ UNCHANGED <<known, disabled, stopped, online, launching, recovering,
                 mutations, boot, procs>>

(***************************************************************************)
(* External: mpv.  It unlinks the socket path before it binds it.          *)
(***************************************************************************)
Bind(p) ==
  /\ mpv[p] = "starting"
  /\ mpv' = [mpv EXCEPT ![p] = "live"]
  /\ socket' = [socket EXCEPT ![home[p]] = p]
  /\ UNCHANGED <<known, flags, mutations, boot, tasks, home>>

Leave(p) ==
  /\ Gone(p) /\ link' = Unlinked(p)
  /\ UNCHANGED <<known, flags, mutations, boot, pc, op, tgt>>

QuitExit(p) == mpv[p] = "quitting" /\ Leave(p)

MpvExit(p) ==
  /\ "mpv_exit" \in Faults
  /\ mpv[p] \in {"starting", "live", "hung"}
  /\ Leave(p)

MpvHang(p) ==
  /\ "mpv_hang" \in Faults
  /\ mpv[p] = "live"
  /\ mpv' = [mpv EXCEPT ![p] = "hung"]
  /\ UNCHANGED <<known, flags, mutations, boot, tasks, home, socket>>

(***************************************************************************)
(* Specification.  tokio polls every task that is ready, timers fire, and  *)
(* mpv binds its socket and obeys quit: weak fairness for those.  Requests,*)
(* faults and mpv's events are the environment's.                          *)
(***************************************************************************)
Launch(t) ==
  \/ StartRefused(t) \/ StartJoins(t) \/ StartLaunches(t) \/ Probe(t)
  \/ Spawn(t) \/ SpawnFails(t) \/ SocketAppears(t) \/ SocketTimesOut(t)
  \/ MarkOnline(t) \/ AlreadyOnline(t) \/ LaunchFailed(t)

TakeDown(t) ==
  \/ StopRefused(t) \/ Stop(t) \/ OffProbe(t) \/ Quit(t) \/ QuitFails(t)
  \/ ReplyLost(t) \/ SocketGone(t) \/ GoneTimesOut(t) \/ ClearObserved(t) \/ MarkOffline(t)
  \/ OffFlags(t) \/ Restart(t) \/ RestartStopped(t) \/ Disable(t)

Administer(t) ==
  \/ PersistChange(t) \/ PersistFails(t) \/ Add(t) \/ AdminRefused(t)
  \/ LockMutations(t) \/ RemoveCommit(t) \/ RenameCommit(t) \/ CommitFails(t)
  \/ SaveQuery(t)

Background(t) ==
  \/ BootTarget(t) \/ BootDone(t) \/ BootFailed(t)
  \/ BeginRecovery(t) \/ Wake(t)
  \/ Connect(t) \/ EndOfStream(t) \/ LostIgnored(t) \/ Lost(t) \/ LostClear(t)

Step(t) == Launch(t) \/ TakeDown(t) \/ Administer(t) \/ Background(t)

Next ==
  \/ \E t \in Task : Step(t) \/ Request(t) \/ ReadLine(t)
  \/ \E p \in Mpv : Bind(p) \/ QuitExit(p) \/ MpvExit(p) \/ MpvHang(p)
  \/ DaemonCrash

Spec == Init /\ [][Next]_vars

FairSpec ==
  /\ Spec
  /\ \A t \in Task : WF_vars(Step(t))
  /\ \A p \in Mpv : WF_vars(Bind(p)) /\ WF_vars(QuitExit(p))

(***************************************************************************)
(* Properties.                                                             *)
(***************************************************************************)
Some(n, labels) == \E t \in Task : tgt[t] = n /\ pc[t] \in labels

TargetsOK ==
  /\ known \subseteq Name /\ disabled \subseteq known /\ stopped \subseteq known
  /\ online \subseteq known /\ launching \subseteq known
  /\ recovering \subseteq known /\ observed \subseteq known
  /\ boot \subseteq Name

TasksOK ==
  /\ pc \in [Task -> Label] /\ op \in [Task -> TaskOp]
  /\ tgt \in [Task -> Name \cup {NoName}]
  /\ \A t \in Task : tgt[t] = NoName => pc[t] \in {"idle", "boot"}
  /\ link \in [Task -> Mpv \cup {NoMpv}]
  /\ mutations \in Task \cup {NoTask}

ProcsOK ==
  /\ mpv \in [Mpv -> {"none", "starting", "live", "hung", "quitting"}]
  /\ home \in [Mpv -> Name \cup {NoName}]
  /\ \A p \in Mpv : home[p] = NoName <=> mpv[p] = "none"
  /\ socket \in [Name -> Mpv \cup {NoMpv}]
  /\ \A n \in Name : socket[n] # NoMpv =>
       mpv[socket[n]] \in {"live", "hung", "quitting"} /\ home[socket[n]] = n

\* Every variable keeps to its set: the flags of supervisor.rs belong to known
\* targets only, and every task past its dispatch has a target.
TypeOK == TargetsOK /\ TasksOK /\ ProcsOK

\* A target announced online has a task that will notice the loss of its mpv
\* (observe_target, spawned by mark_online): nobody else ever clears the flag
\* of a target whose mpv dies.
OnlineIsWatched == \A n \in online : Some(n, Watching)

\* A target flagged launching has a launch in flight that will clear the flag
\* (mark_online or clear_launching): a flag left behind makes every later
\* start report success and launch nothing.
LaunchingIsBacked == \A n \in launching : Some(n, Launching)

\* No launch of a disabled target begins, whoever asks: the check of start and
\* the reservation of `launching` are one critical section.
DisabledNotLaunched ==
  [][\A n \in disabled \cap disabled' : Some(n, Launching)' => Some(n, Launching)]_vars

\* At most one launch per target is in flight: start tests `online` and
\* `launching` and sets `launching` under one lock of `inner`, and keeps the
\* reservation over launch's awaits.
LaunchExclusive ==
  \A t, u \in Task :
    pc[t] \in Launching /\ pc[u] \in Launching /\ tgt[t] = tgt[u] => t = u

\* No target ever has two mpv processes (README: "without creating duplicates"):
\* launch probes the socket before it spawns, and kills the child it gives up
\* on in wait_for_socket.
NoDuplicateMpv ==
  \A p, q \in Mpv : home[p] # NoName /\ home[p] = home[q] => p = q

\* A target that is meant to run is online, or a task is on its way to start it
\* again (on_target_lost and a failed start call schedule_recovery, whose
\* `recovering` flag never outlives the loop it stands for).
Pursued(n) ==
  \/ n \in boot
  \/ Some(n, Launching \cup {"attach", "boot_failed", "start", "recovery", "backoff"})
  \/ \E t \in Task : tgt[t] = n /\ pc[t] = "lost_clear" /\ op[t] = "recover"

ExpectedIsPursued == \A n \in Expected : n \in online \/ Pursued(n)

\* Once launches and the daemon stop failing, a target that is meant to run
\* comes online, or a client changes its mind: the loop of schedule_recovery
\* retries for as long as the target is expected.
LaunchFault ==
  \/ \E p \in Mpv : MpvExit(p)
  \/ \E t \in Task : SpawnFails(t) \/ (SocketTimesOut(t) /\ link[t] # NoMpv)
  \/ DaemonCrash
Calm == <>[][~LaunchFault]_vars
Recovers == Calm => \A n \in Name : n \in Expected ~> (n \in online \/ n \notin Expected)

\* "The daemon has a live IPC connection to the target's mpv process" (README,
\* Online): an online target without one does not stay that way, whatever
\* restarts, removals and relaunches come between mark_online and the loss.
Connected(n) == \E t \in Task : tgt[t] = n /\ pc[t] = "reading" /\ link[t] # NoMpv
LossIsNoticed ==
  \A n \in Name : (n \in online /\ ~Connected(n)) ~> (n \notin online \/ Connected(n))

\* Whatever fails under the `mutations` mutex, it is released: remove holds its
\* guard over stop and its IPC, save_channel over a query of mpv, and neither
\* may wait for the mutex again.
MutationsReleased == (mutations # NoTask) ~> (mutations = NoTask)

\* "stop: stops an enabled target for the current daemon session" (README): a
\* stopped target is down, or the stop that has to take it down is at work.
StoppedGoesDown ==
  \A n \in stopped \cap online :
    Some(n, {"quit", "await_gone", "clear", "mark_offline", "off_flags"})

\* "An unexpected mpv exit triggers recovery [...]. An intentional stop does
\* not" (README): a recovery loop never takes a target out of stopped.
RecoveryHonoursStop ==
  [][\A t \in Task : StartLaunches(t) /\ op[t] = "recover" => tgt[t] \notin stopped]_vars
===============================================================================
