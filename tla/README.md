# Formal specification of mpv-targets

`mpv-targets` runs a set of named mpv players ("targets") on a node. A daemon
(`mpv-targetsd`) owns their lifecycle, a command-line tool (`targets`) and a
client library talk to it over WebSocket/TLS, and `deploy-targets` installs it.
This directory holds TLA+ specifications of that system, the TLC instances that
check them, and TLAPS proofs.

    tlc -config MCSupervisorFlags.cfg MCSupervisor.tla
    tlc -config MCTargetEvents.cfg    MCTargetEvents.tla
    tlc -config MCClientRequests.cfg  MCClientRequests.tla
    tlc -config MCTargetStore.cfg     MCTargetStore.tla
    tlc -config MCTools.cfg           MCTools.tla
    tlapm SupervisorProofs.tla
    tlapm SupervisorTaskProofs.tla
    tlapm TargetEventsProofs.tla
    tlapm ClientRequestsProofs.tla
    tlapm TargetStoreProofs.tla
    tlapm StoreDataProofs.tla
    tlapm DeployProofs.tla
    tlapm CommandsProofs.tla

| Module | What it is |
| --- | --- |
| `Supervisor` | the daemon's lifecycle core: flags, tasks, mutexes, mpv processes |
| `TargetEvents` | target records and revisions, the event channel, the client's cache |
| `ClientRequests` | request/response correlation on one connection, and its end |
| `TargetStore` | configuration changes file operation by file operation, with errors and crashes |
| `TargetRegistry` | abstract: what the configuration file promises its readers; implemented by `TargetStore` |
| `Deploy` | a deployment file operation by file operation, with failures, deaths, a second deployment, systemd and the daemon it starts |
| `Commands` | the `targets` command line: snapshot, choice of targets, requests one by one, several shells at a time |
| `MC*` | symmetry and the constants' modules for TLC, with one `.cfg` per question |
| `*Proofs` | the theorems and their proofs: `SupervisorProofs` is about types and flags, `SupervisorTaskProofs` about which task works on which target, `TargetStoreProofs` about file, memory and directories, `StoreDataProofs` about where the data of a target is |

`PROJECT.json` maps every definition that stands for code to its lines, lists
the runs, the hazards with the properties aimed at them, and one mutation of the
code per property that the property catches. Definitions commented "Variant"
are those mutations; nothing else refers to them.

## 1. Inventory

| Part | Source | State | Operations |
| --- | --- | --- | --- |
| Target lifecycle | `mpv-targetsd/src/supervisor.rs` | `RuntimeTarget` flags behind the `inner` mutex | start, stop, restart, enable, disable, set_channel, launch, ensure_disabled_off, start_configured_targets |
| Recovery | `supervisor.rs` | `recovering`, the loop's backoff | on_target_lost, schedule_recovery |
| Observation | `supervisor.rs` | `observed` fields, one connection per observer | observe_target, update_observed, update_media_end, clear_media_end, clear_observed |
| Administration | `supervisor.rs` | `inner.config`, the TOML file, `targets/<name>/`, `channels/`, the `mutations` mutex | add, remove, rename, save_channel, persist_target_change, persist_config |
| mpv IPC | `supervisor.rs` | none | ipc_command, wait_for_socket, wait_for_socket_gone |
| Events | `supervisor.rs`, `server.rs` | `revision` per target, a broadcast channel of 128 | emit_changed, emit_snapshot, snapshot_and_subscribe |
| Server connection | `server.rs` | reader, writer, response queue of 32 | serve_connection, dispatch_request |
| Client cache | `mpv-targets/src/client.rs` | the cached `Snapshot` | handle_message, apply_target_change, refresh_health |
| Client requests | `client.rs` | `pending` map, command queue of 32, `disconnected` | request_inner, run_connection, close |
| Protocol | `protocol.rs`, `client.rs` | none | validation, health, derived status |
| Configuration, answers | `config.rs`, `answer.rs` | none | parse, validate |
| CLI | `targets/src/main.rs` | a cached snapshot, the targets left to do | validate_command_args, lifecycle, add_target, mpv_action, channel, identify |
| Deployment | `deploy-targets/src/main.rs` | the configuration root, the installed programs and unit, systemd | Plan::build, Plan::apply, remove_existing_root, atomic_write, install_service |
| TLS, helpers, entry point | `tls.rs`, `lib.rs`, `mpv-targetsd/src/main.rs` | none | - |

How they interact. Every client message becomes a tokio task
(`server.rs:95`), so any number of operations run at once. Each operation is a
sequence of short critical sections of `inner` with awaits between them:
everything it read may be stale in the next one. Configuration changes are
serialised by the second mutex, `mutations`, which is held across awaits; start,
stop and the background tasks do not take it. Two kinds of background task
exist per target: the observer of an mpv connection (spawned by mark_online)
and recovery loops (spawned by a failed start or by a loss). mpv processes are
reached through one socket path per target and outlive the daemon
(`KillMode=process`). The command line opens a connection per command, decides on
the snapshot it is sent first and then sends one request at a time.
`deploy-targets` shares no memory with the daemon: they meet in the
configuration root, and systemd starts the one on what the other has written.

What is hard: interleavings of clients, launches, observers and recovery loops;
flags read under one lock and used under the next; losses that arrive late;
launches and quits that time out; an mpv that hangs; a daemon that dies and
finds running mpv processes; two mutexes of which one is held across IPC without
a timeout; events emitted after the lock is released; files replaced in two
steps. `PROJECT.json` lists each hazard at its line.

What makes each part correct:

* lifecycle - launches of a target exclude each other, no second mpv, no launch
  of a disabled target, a stopped target goes down and stays down, the flags
  `online` and `launching` always have an owner;
* recovery - a target meant to run is online or on its way, and comes up when
  the faults end; a stop is never undone;
* administration - the mutations mutex is always released, memory, file and
  directories agree after every failure and crash;
* events and cache - a client that is not disconnected has the daemon's state;
* client requests - every request gets one answer, and its own;
* command line - a command on all targets that nothing disturbs completes, and
  what it toggles or sets is what it was shown or told;
* deployment - a refusal changes nothing, a configuration that can be found is
  complete, the installed unit can run, and a failed attempt can be repeated.

## 2. Plan

Done, in this order:

1. `Supervisor` - the flags and the interleavings of lifecycle, recovery,
   observation and administration. Everything else in the daemon serves it.
2. `TargetEvents` - what clients are shown of it.
3. `ClientRequests` - how clients ask for it.
4. `TargetRegistry`, `TargetStore` - what a configuration change does to the
   file system, and that a reader of the file sees one change at a time.

5. `Deploy` - what a deployment leaves at each instant, and who meets it there.
6. `Commands` - the commands made of several requests (`all`, toggles,
   `set-channel --restart`, `add --start`) against stale snapshots.

Left, the most important first:

7. `TargetLifecycle` - the abstract specification a user has in mind (per
   target: off, starting, up, failed; a wish that only clients change), and
   `Supervisor` shown to implement it for the operations for which it does, with
   the findings below as the known exceptions.
8. `Protocol` - validation of names and channels, health and derived status,
   normalisation of observed values, the retry delay, as operators compared with
   reference definitions over bounded inputs.
9. `MpvIpc` - request lines, interleaved events and replies of one IPC
   connection, to replace the one-step `Quit` and `SaveQuery`.
10. `TargetStore` with the channel file of save_channel and its temporary file.

Every invariant and every action property that a passing run checks is stated by
a theorem of section 7.
Theorems left: the refinement of TargetLifecycle step by step; the capacity of
every queue in a composition of the two client modules.

## 3. The models

### Supervisor

One action is one critical section of `inner`, or one external call (a probe of
the socket, a spawn, an IPC command, a wait) between two of them. A tokio task is
a slot `t \in Task`: `pc[t]` names the call it makes next, `op[t]` the operation
the call belongs to (stop is called by clients, restart, disable and remove, and
returns to each of them differently), `tgt[t]` the target name it was called
with, `link[t]` the mpv child it spawned or the connection it reads. A flag of
`RuntimeTarget` is the set of names that have it. `known` is at once the keys of
`inner.targets`, of `inner.config` and of the file: the three change together
under `mutations`, and their disagreement after a crash is `TargetStore`'s
subject.

| Code | Actions |
| --- | --- |
| `start_configured_targets` | BootTarget, BootFailed, BootDone, and the launch, attach and off actions with `op = "boot"` |
| `start`, `launch` | StartRefused, StartJoins, StartLaunches, Probe, Spawn, SpawnFails, SocketAppears, SocketTimesOut, LaunchFailed |
| `mark_online` | MarkOnline, AlreadyOnline |
| `stop`, `mark_offline` | StopRefused, Stop, Quit, QuitFails, ReplyLost, SocketGone, GoneTimesOut, ClearObserved, MarkOffline |
| `ensure_disabled_off` | OffProbe, the quit actions, OffFlags |
| `restart`, `disable` | Restart, RestartStopped, Disable |
| `persist_target_change`, `add` | PersistChange, PersistFails, Add |
| `remove`, `rename`, `save_channel` | AdminRefused, LockMutations, RemoveCommit, RenameCommit, CommitFails, SaveQuery |
| `schedule_recovery` | BeginRecovery, Wake |
| `observe_target`, `on_target_lost` | Connect, ReadLine, EndOfStream, LostIgnored, Lost, LostClear |
| `dispatch_request` | Request |
| mpv (external) | Bind, QuitExit, MpvExit, MpvHang |
| the process | DaemonCrash, DaemonRestarts |

Two abstractions deserve a word. A task that spawns another and then ends (a
launch that becomes the observer, a failed start that leaves a recovery) hands
its slot over instead of occupying two. And a step that other tasks cannot
observe is merged with its neighbour: add and persist_target_change hold
`mutations` over file operations and one assignment, and are one action each.
mpv is modelled from what the daemon does with it: a process removes the socket
path and binds it, obeys `quit`, and may die or stop answering at any time.

### TargetEvents

`targets` holds a revision and a few Boolean fields per target; `Observed` are
the playback fields, whose three clearing operations (clear_observed,
update_media_end, clear_media_end) send their event after the lock is released:
LateUpdate and Emit. Update stands for all changes that send it under the lock.
Add, Remove and Rename send a whole snapshot. The broadcast channel of 128 is a
queue per receiver that loses its oldest event when full and then reports a lag
(Send, Lag). Connect is snapshot_and_subscribe, one critical section; Forward is
the event branch of serve_connection; Handle is handle_message with
apply_target_change and its two ways to end a connection; Eof and Drop are the
other ends. `past` is a history variable: the records a name has had.

### ClientRequests

One connection. Request, Insert, Queue, Result, Expire and Forget are the steps
of request_inner; Close, QueueClose and CloseDropped those of close. Take,
Transmit, Receive*, ReadFails, Disconnect, Drain and Finish are run_connection,
which does not read while it writes. Read, Execute, Respond, TakeResponse,
TakeEvent, Reply and ServerEnds are serve_connection and the tasks it spawns,
which finish in any order. Break is a failed network or daemon.

### TargetStore and TargetRegistry

`TargetRegistry` is the configuration as a reader of the TOML file sees it: a
function from target names to entries, which changes by one Add, Remove, Rename
or Change. `TargetStore` is how the daemon makes that come true. `file` and
`temp` are the file and its temporary file (whose name holds the process id),
`dirs` and `retired` the directories `targets/<name>` and
`targets/.remove-<name>-<pid>`, `config` is `inner.config`, and `mutations` the
holder of the mutex. A directory's contents are one value of `Data`, or `Partial`
while it is being filled or after it was deleted in part. The entry of the
registry carries the `Data` that belongs to the target, which the file itself
does not: that is how the model tells whether a target kept its own directory.

| Code | Actions |
| --- | --- |
| `add` | AddBegins, AddFills, AddFails, then persist_config, then Install or Undo |
| `remove` (after its stop) | RemoveBegins, persist_config, Install and Discard, or Undo |
| `rename` | RenameBegins, persist_config, Install or Undo |
| `persist_target_change` | ChangeBegins, persist_config, Install or Undo (which has nothing to take back) |
| `persist_config` | CreateTemp, CreateFails, Write, WriteFails, Replace |
| errors the code ignores or only reports | UndoFails, the second case of WriteFails and of Discard |
| a daemon that dies and its successor | Crash |

The refinement is `R == INSTANCE TargetRegistry WITH targets <- file`: Replace,
the rename of the temporary file over the configuration, is the abstract step,
and every other action is a stutter. A crash is of the process: the file system
keeps the effects of completed calls in order; a power failure, after which a
directory rename may be lost though the later file survived, is not modelled.

### Deploy

`file` says what is in each file a deployment writes: the configuration and the
key pair are computed from its plan, and hold that plan; a target's file is its
mpv.conf, the unit is the host profile it was made for. `root` is the
configuration root itself, `temp` the temporary files by stem and process id:
the certificate and its key have one stem, `server` (here "tls"), as `with_extension`
replaces the ending. A process has a `plan` while it works, `todo` are the files
it has not written, `goal` the one whose temporary file is open.

| Code | Actions |
| --- | --- |
| `run` up to the first change | Begin, Confirm, with `Refuses` in the order of the code |
| `remove_existing_root` | Remove, Unlink, Removed, RemoveFails |
| `apply_at` | MakeDirectories, DirectoriesFail, and Open, Replace for one file after the other in the order of `Earlier` |
| `atomic_write` | Open, OpenFails, Replace, WriteFails |
| `install_service`, `show_status` | Reload, Enable, SystemctlFails |
| the process, killed | Dies |
| the daemon and systemd | DaemonStarts (parse, then server_tls_config), DaemonDies, DaemonAdds, DaemonRemoves, DaemonRewrites |

Answer files and TLS material appear as the flaw their validation looks for:
AnswerFlaw is what AnswerFile::validate refuses, ConfigFlaw what
DaemonConfig::validate refuses (so a daemon cannot load it), BuildFlaw what
Plan::build meets besides. A daemon's change to its targets is one step here and
taken apart in TargetStore. `changed` and `dirty` are history: a process that
changed a file, and a root in which a removal stopped half way or two parties
met.

Two simplifications. A root another deployment removed and a target's
directories made again is taken to have its `tls` directory too. The
machine is taken to keep completed operations in order when it goes down.

### Commands

A shell's command is a record; Issue validates it and works out the targets
(`Chosen`) and the calls for each (`Script`) from the snapshot of its fresh
connection, Take is the loop over the targets, and every call is an action of
its own. A call that succeeds is followed by the next (Proceed), one
that fails ends the command, and the targets left are not touched (Fail).

| Code | Definitions |
| --- | --- |
| `run`, `validate_command_args` | Issue, Valid |
| `lifecycle`, `lifecycle_all_targets`, `add_target`, `channel`, `identify`, `mpv_action` | Chosen, Script, AllPaused, Together, AddCalls, SetCalls |
| `dispatch_request`, `error_code`, a connection that fails | Rejected, Refused, Struck |
| `start`, `stop`, `restart`, `enable`, `disable`, `set_channel`, `add`, `remove`, `rename` | the actions of those names; a stop that waits for mpv (Quits) and a launch that waits for its socket (Launches, LaunchFails) are split, as another shell's request can come between |
| `mpv_command`, `update_observed` | MpvCommand, Observe |
| recovery, a dying mpv | RescueStarts, RescueLaunches, RescueFails, MpvExits |

Of mpv the model has two properties, `pause` and `loop`, since toggle-play and
loop decide on them (`mpv_action`, main.rs:600-636); every other command has no
effect the model has. `calm` is history: the one shell whose command found
every target at rest and the observers caught up, with nothing having happened
to it but its own requests and those of other shells that ran into the daemon's
refusals. The properties are about such commands: a single user's command does
what it says. With a second shell in between they do not hold, for the reasons in
section 6. A `calm` command can be overtaken by an observation, and its own
requests wait for launches and quits, so it is not one step.

## 4. The runs

| Run (`.cfg`) | Question | Instance |
| --- | --- | --- |
| flags (`MCSupervisorFlags`) | do `online` and `launching` always have the task that will clear them, with targets removed and added again under launches and observers? | 1 name, 3 tasks, 2 mpv; start, set-channel, enable, add, remove; dying mpv, slow launches; deadlock checked |
| launch (`MCSupervisorLaunch`) | do launches exclude each other, is there ever a second mpv, is every loss noticed, is a disabled target ever launched? | 1 name, 3 tasks, 2 mpv; start, stop, disable; dying mpv, slow launches and quits |
| recovery (`MCSupervisorRecovery`) | is a target meant to run always up or pursued, and does it come up? | 1 name, 4 tasks, 2 mpv; enable; dying and hanging mpv, failed and slow launches, slow quits, daemon crashes |
| admin (`MCSupervisorAdmin`) | is the `mutations` mutex always released? | 2 names, 2 tasks, 1 mpv; remove, rename, add, save-channel; dying mpv, slow quits, lost replies, failed writes |
| events (`MCTargetEvents`) | does a client show only what was true, never go back, and end up with what is true? | 2 names, 1 client, 2 late writers, 2 fields, channel of 2, 1 message in flight, 2 revisions |
| requests (`MCClientRequests`) | does every call return, with its own answer? | 2 requests, 1 close, every queue of length 1 |
| store (`MCTargetStore`) | does the file hold one complete change after the other, do memory and directories agree with it, is data ever lost? | 2 names, 3 directory contents, 2 concurrent requests, 2 process ids; failing operations, failing clean-ups, crashes |
| tools (`MCTools`) | is a configuration that can be found complete, does a refusal change nothing, can the unit run, is a retry ever blocked; does an undisturbed command do what it says? | deployments: 2 process ids, 1 target, 2 plans at once, 5 answers, 1 leftover file, every mishap; commands: 2 names, 2 shells, 1 channel, 5 sessions of up to 6 commands, every upset; deadlock checked |
| wedge, stop, undo, gap | the disagreements of section 6 | the smallest instance that shows each |

Why the bounds are enough. All targets of the daemon are independent but for the
two mutexes: flags, sockets and tasks are per name, so one name shows every
interleaving on a target, and two are used where a name moves (rename) or the
mutex couples names (admin). A race needs two tasks on a target; three slots
leave one for the background task that both provoke, and the recovery run has
four because a failed start inside a recovery loop leaves a second recovery task
beside the first. Two mpv processes are the fewest that can be a duplicate.
A name is removed and added again within the bounds of `flags`, so tasks with
stale names meet new targets. A full channel, a lag and a blocked writer all
occur at capacity one or two; 32 and 128 only make them rarer. Two late
writers are the fewest that can swap their events. `MaxRevision` bounds
the history of one target, not the number of targets, events or connections in it.
In `store` the number of changes is not bounded, as the states are finite. Two
names let a target move, and be removed and added again, next to another one;
three contents leave one for an add when both are in use; two requests are what
the mutex keeps apart; two process ids are one crash, anywhere, with what it
left met by every later change. A second crash, or a third name, multiplies the
states beyond a few minutes and adds no new kind of leftover; the theorems hold
for any number.

`tools` is one run for two programs that share no state: a behaviour belongs to
one of them, and its states are the sum of theirs, not the product. A second
process is what a deployment can meet besides the daemon, and its id can come
back, which is how a leftover meets a retry; a deployment waits while both plans
are in use. The answers are two that can be deployed and differ in targets, key
pair and service, and three that are refused at the three places where a refusal
comes from; both use the `hyprland` profile, whose helper is one more file. The
theorems hold for every answer. In the commands two names let one target be done
and another be left, and be renamed; two shells race; a session is a set of
commands that act on the same state, and its commands can be issued any number
of times.

Where tasks run out of slots no request is accepted, and a launch that has to
start an observer waits for a slot: an artefact of the bound, which is why
the instances have more slots than the races need.

CHECK_DEADLOCK FALSE is stated where the system may stop: in `launch` and
`admin` and the violation runs a daemon whose tasks have all ended, or a task
that waits for a slot, may have nothing to do; in `recovery` a hung mpv that
nobody watches may be all there is; in `events` the revision bound ends the
changes; in `requests` every call has returned, or the two peers are stuck in
each other's writes; in `store` a refused request is no step, and with what
crashes left every request may be refused.

## 5. Fairness

* Supervisor: weak fairness of every task's steps - tokio polls a task that is
  ready, `inner` is held for bounded critical sections, and the timers of
  wait_for_socket, wait_for_socket_gone and the backoff fire - and of mpv binding
  its socket and obeying `quit`. None for client requests, mpv's events, exits,
  hangs, or the daemon's crash. `Recovers` assumes that launch faults and
  crashes eventually cease (`Calm`).
* TargetEvents: weak fairness of Emit and of forwarding, lag detection, handling
  and end of file. Changes and connections need not happen.
* ClientRequests: weak fairness of the caller's and the connection task's own
  steps and of a server write that has room; strong fairness of Take and Read,
  because both loops are `tokio::select!`, which picks among ready branches at
  random, so that a branch that is ready again and again is taken. None for
  Execute (the daemon may take any time over a request), for Respond, or for the
  events and failures of the environment.

## 6. Where code and documentation disagree

* **wedge** - a recovery loop whose `start` is answered "somebody else is
  launching" counts that as a recovery and returns without clearing
  `recovering`. If the other launch fails, the recovery it schedules sees the flag
  and does nothing: the target stays enabled, not stopped and offline until a
  client starts it or the daemon restarts.
* **stop** - a stop during a launch finds `online = false`, sends no quit and
  succeeds; the launch then announces the stopped target online.
* **undo** - a stop between the check of a recovery loop and the `start` it calls
  succeeds and is undone, since `start` clears `stopped`.
* **gap** - a client that subscribes between a change and its late event is sent
  a snapshot with the new revision and then an event with that same revision,
  and ends a healthy connection with "revision gap"; two late writers can also
  swap their events.

Observed while modelling, and the reason why some properties are stated for some
operations only:

* a daemon that dies between spawn and the socket's appearance leaves an mpv the
  next daemon does not see, and a second one is spawned: NoDuplicateMpv is
  checked and proved without `daemon_crash`;
* ensure_disabled_off (the restart of a disabled target) resets `launching`
  under a launch that began while the target was enabled, and a later start may
  launch beside it. Likewise a target that is removed under its launch and added
  again, and one renamed under it, can be started beside it. LaunchExclusive
  and NoDuplicateMpv are proved for the clients that do none of the three
  (NoOverlap: no rename, no add beside remove, no restart or set-channel beside
  enable), and TLC finds a counterexample to LaunchExclusive for the operations
  remove, add, start; for enable, restart; and for rename, start, stop;
* rename moves `online`, `launching` and `recovering` to a new name while the
  observer, launch or loop behind them keeps the old one: OnlineIsWatched and
  LaunchingIsBacked are checked and proved without rename;
* disable stops a target and persists `disabled` in two steps; a start between
  them leaves a disabled target running: DisabledNotLaunched speaks of launches
  that begin while the target is disabled;
* mark_online clears `recovering` while the loop it stands for may still sleep;
  a loss in that time starts a second loop, so loops of one target can pile up
  until they wake and find it online;
* a client's stop may end with the target offline, expected and not pursued,
  when another client starts it between quit and mark_offline, and a client's
  start may end the only recovery loop (`wedge`): ExpectedIsPursued is checked
  and proved for clients that neither start nor stop targets (HandsOff: enable,
  add, save-channel);
* ipc_command has no timeout, and remove and save_channel call it under the
  `mutations` mutex: an mpv that accepts and never answers blocks every
  configuration change, so MutationsReleased is checked without `mpv_hang`;
* client and daemon each read and write one connection from one loop. When both
  are writing into full buffers neither reads, and request_inner and close wait
  for room in the command queue without a timeout: `Wedged`, the one exception
  in ReturnsUnlessWedged;
* a request admitted before and inserted after the disconnect is drained by
  nobody and returns by its timeout only;
* a daemon that dies in remove or rename between the move of the directory and
  the replacement of the file leaves a configured target without directory. Its
  data is under the retired or the new name, where the next daemon does not
  look; the directory rename left refuses every later add or rename to that name
  (TargetExists). DirsMatch is stated and proved without such crashes,
  NoDataLost with them;
* remove that cannot delete the retired directory reports an error for a target
  that is gone; what is left, unless empty, makes the same daemon's next remove
  of that name fail;
* a daemon that dies in persist_config leaves its temporary file, and a later
  daemon that is given the same process id cannot persist anything: TempIsClean
  is checked and proved for process ids that are used once;
* deploy-targets over a running daemon is not served: `enable --now` leaves a
  running service alone, and the daemon's next change writes its own old
  configuration over the new one (`dirty`);
* an overwriting deployment removes the old root before it has written the new
  one: a failure leaves nothing of the old deployment, and a removal that stops
  half way a root that may not load, which ConfigIsWhole excepts;
* two deployments of one root at once can mix the certificate of one with the
  key of the other;
* a temporary file that a failed deployment left beside the unit, the daemon or
  the helper stays, and refuses a retry that is given the same process id:
  RetryNotBlocked speaks of the root, which a retry removes;
* `stop all` chooses online targets, stopped ones included; a target whose quit
  timed out before is refused with target_already_stopped, and the targets after
  it are left running. `stop all` and `restart all` leave out a target that is
  being recovered, and `restart all` undoes a stop in progress;
* `set-channel --restart` may report success while mpv plays the old channel,
  when a launch that had read the old one was in flight; on a disabled target it
  persists the channel and leaves the target off;
* `start all` between the two requests of another shell's `add --channel`
  launches the target without its channel; an `add --channel` whose channel is
  not found leaves the target added;
* two `loop` commands in quick succession may turn a target once: the second
  decides on a snapshot the first has not reached;
* an event of a removed target may reach a client after a new target took the
  name, and its revision may fit: CacheIsFaithful and CacheMovesForward are
  checked and proved for names that are used once.

## 7. What is proved

For all values of the constants that meet the named assumptions
(ConstantsAssumption: the null values are no names, tasks or processes;
EventsAssumption and ClientAssumption: capacities are positive, kinds of message
are told apart; DeployAssumption: names of targets and of other files differ;
StoreAssumption: no file, and an incomplete one, are no contents;
CommandsAssumption: the null values are no names, shells, channels or commands),
every step of the proofs checked by tlapm:

| Theorem | Statement | Argument |
| --- | --- | --- |
| TypeCorrect | Supervisor is well typed | TypeInv adds to TypeOK that no target is online and launching at once, which mark_online and start need of each other |
| OnlineAlwaysWatched, LaunchingAlwaysBacked | a raised flag has its task, without rename | FlagsInv joins TypeInv, both properties and the absence of renames; each is inductive only with the others, since mark_online turns a launching witness into a watching one, and the loss of one observer is harmless only because it takes the flag down |
| DisabledNeverLaunched | no step begins the launch of a disabled target | the start action is the only way into a launch, and it sees the flag in its own critical section |
| LaunchesExclusive | at most one launch per target, under NoOverlap | BootInv: every call belongs to its operation (OpsOK), nothing is served before the boot loop is through, and the loop has its target to itself. LaunchInv: every launch is on a reserved target or on one that nobody will start any more (Barred: disabled with no enable to come, or removed with no add to come), which is what a restart of a disabled target needs to reset `launching` harmlessly |
| MpvNeverDuplicated | never two mpv processes of a target, under NoOverlap and without daemon crashes | MpvInv: a process has its target's socket, or is the child of the one launch that waits for it to bind; so a launch that has probed and found nothing, and is about to spawn, is alone |
| ExpectedAlwaysPursued | a target meant to run is online or pursued, under HandsOff, daemon crashes included | PursueInv: `recovering` stands for exactly one loop, which sleeps while another recovery of its target is due; and none but a loop or the boot loop brings a target online |
| EventsTyped | TargetEvents is well typed, no receiver exceeds its capacity | per action |
| CachesAreFaithful | a client shows only records the daemon had, names used once | Faithful: every event in a writer, queue or on the wire is Good - a snapshot holds past records only, and a change applied to any past record of the preceding revision gives a past record; that needs one record per revision in `past` (PastOK) |
| CachesMoveForward | a client never goes back to an earlier record of a target, names used once | OrderInv: of two messages on their way to a client the later one, if it is a snapshot, tells of no target less than the earlier; what is sent late is never a snapshot (LateAreChanges), a change is applied to the preceding revision only, and a snapshot is taken and sent in one critical section, when everything under way is past (Good) |
| RequestsTyped | ClientRequests is well typed, every queue within its capacity | per action |
| AnswersAreOwn | an answer is the request's own, after its execution | AnswersInv: whatever is in a response queue, in the server's hands or on the wire is a request that was carried out |
| PendingAlwaysMatches | the pending map and the callers agree | PendingInv: what a oneshot holds is consistent with the caller's progress (MailMatches) |
| StoreTyped | TargetStore is well typed: the file is always a complete configuration | StoreInv, as below |
| MemoryAlwaysFile | between changes `inner.config` is the file | StoreInv: only the mutex's holder is at work (Exclusive), and file and memory differ only between Replace and Install (Saved) |
| TempAlwaysClean | no temporary file in the way, unless a clean-up failed | StoreInv: a later process id has no temporary file (Temps) |
| FileImplementsRegistry | TargetStore implements TargetRegistry | StoreInv: the candidate in hand is one change away from the configuration (InHand, Proposal), which no other task changes meanwhile; so Replace is an abstract step, and nothing else writes the file |
| DirsAlwaysMatch | between changes exactly the configured targets have their directory, without crashes inside a change and failed clean-ups | DirsInv: at every step of a change the directories its error path would leave (Before) are those of the old configuration, and once a candidate is built the directories are the candidate's |
| DataNeverLost | the contents of a configured target are on the disk, through errors, crashes and failed clean-ups | DataInv: nobody else's contents are under a configured name; what this daemon has retired is rubbish, or the only copy of a target whose removal could not be taken back, or what a removal past its point of no return is about to delete (OwnRetired); a later daemon meets no retired directory of its own; and at every step of a change it is known where its directory is (Placed) |
| DeployTypes | Deploy is well typed; a process has a plan, files to write and an open one exactly in the stages that need them | split into files, processes and the rest (TypeParts), per action |
| RefusalsAreHarmless | a deployment that refuses has changed no file | Innocent: a process that has not come to the removal or the directories has not touched a file, and no later stage refuses |
| RetriesSucceed | nothing left under the root blocks a later deployment, though process ids come back | TempsClean: no root, no leftovers under it; none when a process comes to write, and then at most the one it has open |
| UnitsRun | the unit on disk, and the one systemd has read, have their program and helper | ProgramsWritten: who writes the unit has written the programs, which nothing removes |
| DeploymentsAreWhole | a configuration file that exists loads, and its targets have their directories | WholeInv: the one process that writes finds what it has written (Gathered) and no configuration until it writes it; after it, nothing under the root is left to write (Ordered), and a daemon writes only over the configuration it serves |
| CommandsTyped | Commands is well typed | CommandsInv: what a shell holds fits its progress - calls while it has a target in hand, targets only while it runs, and the channel its launch has read exactly while it waits for that launch |
| ChannelTakesEffect | an undisturbed `set-channel --restart`, `clear-channel --restart` or `add --channel` that succeeds leaves the target with the channel it names, or off | ApplyInv: for each list of calls that can be left, what holds of the target meanwhile - before the restart it is at rest, after the channel is set it is the one named, while a launch is awaited it has read that one |
| TogglesFollowDisplay | an undisturbed `toggle-play all` or `loop` takes its targets to what the display calls for | ToggleInv: every target of the command has the right call before it or in hand, or has been turned |
| BulkReachesAll | an undisturbed command on all targets is refused nothing and leaves none out | BulkInv: every target but the one in hand is at rest, the calls left fit the flags of their targets, and the targets still to do cover those that are not as the command wants them |

The Supervisor proofs share one lemma per group of actions (LaunchMoves,
TakeDownMoves, AdministerMoves, BackgroundMoves, RequestMoves, OutsideMoves) that
states what the step does to the acting task, the other tasks and the flags
(FlagsKept); the three theorems follow from that without a second case analysis.
SupervisorTaskProofs has the same for the calls of the acting task, the one task
it may spawn and the reservations it gives up (Kept, from which BootInv and
LaunchInv follow), for processes and sockets (Aside) and for recovery (Onward).
The three theorems about undisturbed commands rest on CalmStep: a step that
leaves a command undisturbed is the command's own beginning at a daemon at rest,
one of its own steps, or one that changes none of what the invariants speak of.
None of the four theorems about Commands limits what the other shells issue or
what goes wrong; a command that meets either is not undisturbed.
The TargetEvents proofs are parameterised by the set of events in the stream
(StreamIn), instantiated with Event for types and with Good for faithfulness.

Each of these inductive invariants was checked by TLC before it was proved, on
the constants of the run of its property or on a larger instance. The hypotheses NoOverlap, HandsOff and
the absence of daemon crashes are not conveniences of the proof: section 6 names
what happens without them. They are wider than the runs, which take one set
of operations each.

Only model-checked: what must eventually happen (LossIsNoticed, Recovers,
MutationsReleased, Converges, ReturnsUnlessWedged), since liveness under
fairness is out of the prover's reach.

## 8. What is not modelled

* `Protocol` and the channel file of save_channel: planned, see section 2.
* The queries and most playback fields: they change no lifecycle state; their
  effect on the observed fields is ReadLine, and Commands has the two fields
  that a command decides on.
* Of the command line: status, show-channels, playlist and the raw `mpv` command
  (one read or one request each), the confirmations of remove and
  rename, the node book and `@node` selectors, and a target named twice in one
  command.
* The accept loop, TLS and WebSocket handshakes, JSON: no state of their own.
* A caller that drops the future of a request (its pending entry then stays until
  the answer or the disconnect), and a peer that vanishes silently (nothing
  probes an idle connection).
* Power failures (see TargetStore and Deploy), and, in TargetStore, process ids
  that are given out again.
* The contents of configuration, certificate and unit files beyond what tells
  one deployment from another.
* Logging, formatting, argument parsing, signals.
