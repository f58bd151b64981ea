----------------------------- MODULE TargetStore ------------------------------
(***************************************************************************)
(* Configuration changes file operation by file operation (supervisor.rs): *)
(* the TOML file and its temporary file, the target directories and the    *)
(* names remove retires them to, and what errors, failed clean-ups and     *)
(* daemon crashes between two operations leave for the next daemon.        *)
(*                                                                         *)
(* A request that is refused changes nothing and is no step.  The lock of  *)
(* `inner` is not modelled: only holders of `mutations` write inner.config.*)
(***************************************************************************)
EXTENDS FiniteSets

CONSTANTS
  Name, Data,
  Task,      \* client requests at work at once
  Pid,       \* bound: daemon processes, one after the other
  None,      \* no file, no directory, no candidate
  Partial,   \* a file or directory that is not complete
  NoTask, NoJob,
  Faults     \* what may go wrong in this instance

Fault == {"crash", "io_fail", "cleanup_fail"}

ASSUME StoreAssumption ==
  /\ None # Partial /\ None \notin Data /\ Partial \notin Data
  /\ NoTask \notin Task /\ Faults \subseteq Fault

VARIABLES
  file,       \* the configuration file
  temp,       \* its temporary file, by the pid in its name
  dirs,       \* targets/<name>
  retired,    \* targets/.remove-<name>-<pid>
  config,     \* inner.config
  pid,        \* the daemon's process id
  used,       \* history: the process ids so far
  mutations,  \* the holder of the `mutations` mutex
  pc, job,    \* per task: its next step, its request
  candidate,  \* per task: the configuration it wants to persist
  faults      \* history: crashes inside a change, failed clean-ups

disk == <<file, temp, dirs, retired>>
process == <<pid, used>>
control == <<mutations, pc, job>>
vars == <<disk, config, process, control, candidate, faults>>

\* The configurations a reader of the file may see.
R == INSTANCE TargetRegistry WITH targets <- file

Job == [op : {"add", "remove", "rename", "change"}, name : Name, to : Name]
Label == {"idle", "fill", "persist", "write", "replace", "install", "discard", "undo"}

Stored == {dirs[n] : n \in Name} \cup {retired[n][p] : n \in Name, p \in Pid}
Fresh == Data \ (Stored \cup R!Owned(config) \cup R!Owned(file))

\* An installed configuration: every target has its directory.
DirsOf(ts) == [n \in Name |-> IF n \in DOMAIN ts THEN ts[n].data ELSE None]

Init ==
  /\ R!Init
  /\ temp = [p \in Pid |-> None]
  /\ dirs = DirsOf(file)
  /\ retired = [n \in Name |-> [p \in Pid |-> None]]
  /\ config = file
  /\ pid \in Pid /\ used = {pid}
  /\ mutations = NoTask
  /\ pc = [t \in Task |-> "idle"] /\ job = [t \in Task |-> NoJob]
  /\ candidate = [t \in Task |-> None]
  /\ faults = {}

\* Variant: the operation does not take the mutex.
NeverLocked == TRUE
Unlocked == mutations = NoTask

Begin(t, o, n, m, l) ==
  /\ pc[t] = "idle" /\ Unlocked
  /\ mutations' = t
  /\ job' = [job EXCEPT ![t] = [op |-> o, name |-> n, to |-> m]]
  /\ pc' = [pc EXCEPT ![t] = l]

Goto(t, l) == pc' = [pc EXCEPT ![t] = l] /\ UNCHANGED <<mutations, job>>

\* The request returns and drops its mutex guard.
Finish(t) ==
  /\ mutations' = NoTask
  /\ pc' = [pc EXCEPT ![t] = "idle"] /\ job' = [job EXCEPT ![t] = NoJob]
  /\ candidate' = [candidate EXCEPT ![t] = None]

Propose(t, ts) == candidate' = [candidate EXCEPT ![t] = ts]

(***************************************************************************)
(* The four kinds of change, up to persist_config.                         *)
(***************************************************************************)
\* Variant: an existing directory does not stop add and rename.
AnyName == Name
Vacant == {n \in Name : dirs[n] = None}

\* add: the directory appears before it is complete.
AddBegins(t) ==
  /\ \E n \in Vacant \ DOMAIN config :
       /\ Begin(t, "add", n, n, "fill")
       /\ dirs' = [dirs EXCEPT ![n] = Partial]
  /\ UNCHANGED <<file, temp, retired, config, process, candidate, faults>>

AddFills(t) ==
  LET n == job[t].name IN
  /\ pc[t] = "fill"
  /\ \E d \in Fresh, s \in BOOLEAN :
       /\ dirs' = [dirs EXCEPT ![n] = d]
       /\ Propose(t, R!Added(config, n, [data |-> d, setting |-> s]))
  /\ Goto(t, "persist")
  /\ UNCHANGED <<file, temp, retired, config, process, faults>>

\* A write fails, or the directory to copy from is incomplete.
AddFails(t) ==
  /\ "io_fail" \in Faults
  /\ pc[t] = "fill"
  /\ Goto(t, "undo")
  /\ UNCHANGED <<disk, config, process, candidate, faults>>

\* remove, after stop: the directory is renamed if there is one; the rename
\* fails on an earlier one that is not empty.
RemoveBegins(t) ==
  /\ \E n \in DOMAIN config :
       /\ Begin(t, "remove", n, n, "persist")
       /\ Propose(t, R!Removed(config, n))
       /\ IF dirs[n] = None
          THEN UNCHANGED <<dirs, retired>>
          ELSE /\ retired[n][pid] \in {None, Partial}
               /\ retired' = [retired EXCEPT ![n][pid] = dirs[n]]
               /\ dirs' = [dirs EXCEPT ![n] = None]
  /\ UNCHANGED <<file, temp, config, process, faults>>

RenameBegins(t) ==
  /\ \E n \in DOMAIN config, m \in Vacant \ DOMAIN config :
       /\ dirs[n] # None
       /\ Begin(t, "rename", n, m, "persist")
       /\ Propose(t, R!Renamed(config, n, m))
       /\ dirs' = [dirs EXCEPT ![m] = dirs[n], ![n] = None]
  /\ UNCHANGED <<file, temp, retired, config, process, faults>>

\* persist_target_change
ChangeBegins(t) ==
  /\ \E n \in DOMAIN config :
       /\ Begin(t, "change", n, n, "persist")
       /\ Propose(t, R!Changed(config, n))
  /\ UNCHANGED <<disk, config, process, faults>>

(***************************************************************************)
(* persist_config.                                                         *)
(***************************************************************************)
CreateTemp(t) ==
  /\ pc[t] = "persist" /\ temp[pid] = None
  /\ temp' = [temp EXCEPT ![pid] = Partial]
  /\ Goto(t, "write")
  /\ UNCHANGED <<file, dirs, retired, config, process, candidate, faults>>

\* create_new refuses a file that exists.
CreateFails(t) ==
  /\ pc[t] = "persist" /\ (temp[pid] # None \/ "io_fail" \in Faults)
  /\ Goto(t, "undo")
  /\ UNCHANGED <<disk, config, process, candidate, faults>>

\* Variant: the file is renamed into place before it is written.
WriteLater(t) ==
  /\ pc[t] = "write"
  /\ Goto(t, "replace")
  /\ UNCHANGED <<disk, config, process, candidate, faults>>

Write(t) ==
  /\ pc[t] = "write"
  /\ temp' = [temp EXCEPT ![pid] = candidate[t]]
  /\ Goto(t, "replace")
  /\ UNCHANGED <<file, dirs, retired, config, process, candidate, faults>>

\* Variant: an error leaves the temporary file.
LeftBehind == temp
Cleaned == [temp EXCEPT ![pid] = None]

\* write, sync or rename fails; the failure of remove_file is ignored.
WriteFails(t) ==
  /\ "io_fail" \in Faults
  /\ pc[t] \in {"write", "replace"}
  /\ \/ temp' = Cleaned /\ UNCHANGED faults
     \/ "cleanup_fail" \in Faults /\ UNCHANGED temp /\ faults' = faults \cup {"cleanup"}
  /\ Goto(t, "undo")
  /\ UNCHANGED <<file, dirs, retired, config, process, candidate>>

Replace(t) ==
  /\ pc[t] = "replace"
  /\ file' = temp[pid]
  /\ temp' = [temp EXCEPT ![pid] = None]
  /\ Goto(t, "install")
  /\ UNCHANGED <<dirs, retired, config, process, candidate, faults>>

(***************************************************************************)
(* After persist_config.                                                   *)
(***************************************************************************)
\* Variant: inner.config keeps the old configuration.
Uninstalled(t) == config
Installed(t) == candidate[t]

Install(t) ==
  /\ pc[t] = "install"
  /\ config' = Installed(t)
  /\ IF job[t].op = "remove" THEN Goto(t, "discard") /\ UNCHANGED candidate ELSE Finish(t)
  /\ UNCHANGED <<disk, process, faults>>

\* remove deletes the retired directory; an error leaves some of it.
Discard(t) ==
  LET n == job[t].name IN
  /\ pc[t] = "discard"
  /\ \/ retired' = [retired EXCEPT ![n][pid] = None]
     \/ /\ "cleanup_fail" \in Faults /\ retired[n][pid] # None
        /\ retired' = [retired EXCEPT ![n][pid] = Partial]
  /\ Finish(t)
  /\ UNCHANGED <<file, temp, dirs, config, process, faults>>

\* Variant: a failed rename does not move the directory back.
KeptMoved(j) == dirs
MovedBack(j) == [dirs EXCEPT ![j.name] = dirs[j.to], ![j.to] = None]

\* The error path of each change.
Undo(t) ==
  LET j == job[t] IN
  /\ pc[t] = "undo"
  /\ CASE j.op = "add"    -> dirs' = [dirs EXCEPT ![j.name] = None] /\ UNCHANGED retired
       [] j.op = "rename" -> dirs' = MovedBack(j) /\ UNCHANGED retired
       [] j.op = "remove" /\ retired[j.name][pid] # None ->
            /\ dirs' = [dirs EXCEPT ![j.name] = retired[j.name][pid]]
            /\ retired' = [retired EXCEPT ![j.name][pid] = None]
       [] OTHER -> UNCHANGED <<dirs, retired>>
  /\ Finish(t)
  /\ UNCHANGED <<file, temp, config, process, faults>>

\* Its own errors are ignored.
UndoFails(t) ==
  LET j == job[t] IN
  /\ "cleanup_fail" \in Faults
  /\ pc[t] = "undo" /\ j.op # "change"
  /\ dirs' = IF j.op = "add" THEN [dirs EXCEPT ![j.name] = Partial] ELSE dirs
  /\ faults' = faults \cup {"cleanup"}
  /\ Finish(t)
  /\ UNCHANGED <<file, temp, retired, config, process>>

\* The daemon dies and a new one reads the file.
Crash ==
  /\ "crash" \in Faults
  /\ \E p \in Pid \ used : pid' = p /\ used' = used \cup {p}
  /\ config' = file
  /\ mutations' = NoTask
  /\ pc' = [t \in Task |-> "idle"] /\ job' = [t \in Task |-> NoJob]
  /\ candidate' = [t \in Task |-> None]
  /\ faults' = IF mutations = NoTask THEN faults ELSE faults \cup {"crash"}
  /\ UNCHANGED disk

(***************************************************************************)
(* Specification.                                                          *)
(***************************************************************************)
Change(t) ==
  \/ AddBegins(t) \/ AddFills(t) \/ AddFails(t)
  \/ RemoveBegins(t) \/ RenameBegins(t) \/ ChangeBegins(t)

Persist(t) ==
  CreateTemp(t) \/ CreateFails(t) \/ Write(t) \/ WriteFails(t) \/ Replace(t)

Complete(t) == Install(t) \/ Discard(t) \/ Undo(t) \/ UndoFails(t)

Next == Crash \/ \E t \in Task : Change(t) \/ Persist(t) \/ Complete(t)

Spec == Init /\ [][Next]_vars

(***************************************************************************)
(* Properties.                                                             *)
(***************************************************************************)
Content == Data \cup {None, Partial}

\* Every variable keeps to its set; above all, the configuration file is never
\* anything but a complete configuration the next daemon can read, whenever
\* persist_config is interrupted.
TypeOK ==
  /\ file \in R!Registry /\ config \in R!Registry
  /\ temp \in [Pid -> R!Registry \cup {None, Partial}]
  /\ dirs \in [Name -> Content] /\ retired \in [Name -> [Pid -> Content]]
  /\ pid \in Pid /\ used \subseteq Pid
  /\ mutations \in Task \cup {NoTask}
  /\ pc \in [Task -> Label] /\ job \in [Task -> Job \cup {NoJob}]
  /\ candidate \in [Task -> R!Registry \cup {None}]
  /\ faults \subseteq {"crash", "cleanup"}

\* Outside of a change, inner.config is what the file says, so that a restart
\* changes nothing: every error path of persist_config and its callers leaves
\* both or changes both.
MemoryIsFile == mutations = NoTask => config = file

\* A change that fails leaves no temporary file behind, so that the next
\* create_new of persist_config succeeds, whatever crashes came before.
TempIsClean == mutations = NoTask /\ "cleanup" \notin faults => temp[pid] = None

\* As long as no daemon died inside a change and no clean-up failed, exactly the
\* configured targets have a directory, and their own: add, remove and rename
\* take back their directory when persist_config fails.
DirsMatch == mutations = NoTask /\ faults = {} => dirs = DirsOf(config)

\* No crash, error or failed clean-up of add, remove and rename, in whatever
\* sequence, deletes the directory of a target that is still configured.
NoDataLost == R!Owned(file) \subseteq Stored

\* What a reader of the file sees: one complete change at a time, of the file as
\* the last change left it (the `mutations` mutex and persist_config's rename).
FileIsRegistry == R!Spec
===============================================================================
