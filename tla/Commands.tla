------------------------------- MODULE Commands --------------------------------
(***************************************************************************)
(* The `targets` command line (targets/src/main.rs): shells that read the  *)
(* snapshot of a fresh connection, work out from it which requests to send *)
(* for which targets, and send them one at a time until one fails - several*)
(* shells at a time, while mpv processes die and are launched again.       *)
(*                                                                         *)
(* The daemon is what the requests see of it: an operation of supervisor.rs*)
(* is split where another shell's request can matter (a stop that waits for*)
(* mpv to quit, a launch that waits for its socket) and is one step where  *)
(* Supervisor and TargetStore take it apart.  A recovery may try at any    *)
(* time; the order of the targets in the configuration is any order.       *)
(***************************************************************************)
EXTENDS Sequences

CONSTANTS
  Name, Shell, Channel,
  None, NoChannel,
  Sessions,   \* bound: sets of commands, one of which the shells issue
  Upsets      \* what may go wrong in this instance

Lifecycle == {"start", "stop", "restart"}
Admin == {"add", "remove", "rename", "enable", "disable", "set-channel", "clear-channel"}
\* One verb per effect: next, mute, loadfile... are "show" (no state of ours),
\* repeat is loop for another property.
MpvVerb == {"play", "pause", "toggle-play", "loop", "show", "identify"}
Verb == Lifecycle \cup Admin \cup MpvVerb

Flag == {"--enable", "--start", "--restart"}
Command == [verb : Verb, all : BOOLEAN, on : SUBSET Name, flags : SUBSET Flag,
            channel : Channel \cup {NoChannel}, other : Name \cup {None}]

ASSUME CommandsAssumption ==
  /\ None \notin Name \cup Shell \cup Channel \cup Command \cup {NoChannel}
  /\ NoChannel \notin Channel
  /\ Sessions \subseteq SUBSET Command
  /\ Upsets \subseteq {"mpv_exit", "quit_fail", "launch_fail", "persist_fail", "no_channel"}

VARIABLES
  known, disabled, stopped, online, launching,   \* the daemon's flags
  channel,    \* the channel configured for a target
  seen,       \* what the daemon has observed of mpv's properties
  rescue,     \* recovery of a target: the channel its launch has read
  plays,      \* external: the channel a target's mpv was started with
  set,        \* external: mpv's properties
  session,    \* the commands of this behaviour
  cmd,        \* per shell: its command, also after it ended
  work,       \* per shell: the targets it has not come to, with their calls
  at, calls,  \* per shell: the target in hand and the calls left for it
  loads,      \* per shell: the channel the launch it waits for has read
  outcome,
  calm,       \* history: the shell that found the daemon at rest and whose
              \* command nothing has disturbed
  was         \* history: mpv's properties when that command was issued

flagVars == <<known, disabled, stopped, online, launching, channel>>
mpvVars == <<plays, set>>
shellVars == <<cmd, work, at, calls, loads, outcome>>
commandsVars == <<flagVars, seen, rescue, mpvVars, session, shellVars, calm, was>>

(***************************************************************************)
(* Properties of mpv, and what the daemon knows of them.                   *)
(***************************************************************************)
Property == {"pause", "loop"}
Unseen == [p \in Property |-> "unknown"]
\* base_mpv_conf: add writes pause=yes.
Fresh == [p \in Property |-> IF p = "pause" THEN "on" ELSE "off"]
Opposite(v) == IF v = "on" THEN "off" ELSE "on"

Playing(n) == plays[n] # None
\* Bound: what no command of the session reads is not observed.
SeenIsRead == \E c \in session : c.verb \in {"toggle-play", "loop"}

Expected == known \ (disabled \cup stopped)
Busy == online \cup launching

\* Nothing is under way and the observers have caught up.
AtRest ==
  /\ Expected = online /\ launching = {}
  /\ \A n \in Name : rescue[n] = None /\ (Playing(n) <=> n \in online)
  /\ SeenIsRead => \A n \in online : seen[n] = set[n]
  /\ \A s \in Shell : outcome[s] # "running"

(***************************************************************************)
(* From the command line to calls.                                         *)
(***************************************************************************)
\* validate_command_args: how many targets, and whether `all` is one of them.
Valid(c) ==
  /\ c.all => c.on = {} /\ c.verb \in Lifecycle \cup (MpvVerb \ {"loop"})
  /\ c.verb = "identify" => c.all
  /\ ~c.all => \E n \in Name : IF c.verb \in Admin \ {"enable", "disable"}
                               THEN c.on = {n} ELSE n \in c.on
  /\ "--enable" \in c.flags => c.verb = "add"
  /\ "--start" \in c.flags => c.verb \in {"add", "enable"}
  /\ "--restart" \in c.flags => c.verb \in {"set-channel", "clear-channel"}
  /\ c.verb = "set-channel" => c.channel # NoChannel
  /\ c.channel # NoChannel => c.verb \in {"set-channel", "add"}
  /\ c.verb = "rename" => c.other # None
  /\ c.other # None => c.verb \in {"rename", "add"}

\* lifecycle_all_targets, and the filters of mpv_action and identify.
\* Variant: `all` is every enabled target.
ChosenEnabled(c) == IF ~c.all THEN c.on ELSE known \ disabled
Chosen(c) ==
  IF ~c.all THEN c.on
  ELSE CASE c.verb = "start" -> stopped \ disabled
         [] c.verb = "identify" -> online
         [] OTHER -> online \ disabled

AllPaused == \A n \in online \ disabled : seen[n]["pause"] = "on"

\* Variant: every target is toggled by its own state.
PerTarget(n) == IF seen[n]["pause"] = "on" THEN "play" ELSE "pause"
Together(n) == IF AllPaused THEN "play" ELSE "pause"

SetCalls(c) == IF c.channel # NoChannel THEN <<"resolve", "set-channel">> ELSE <<>>
StartCalls(c) == IF "--start" \in c.flags THEN <<"start">> ELSE <<>>
\* Variant: --start is served before --channel.
AddCallsStartFirst(c) == <<"add">> \o StartCalls(c) \o SetCalls(c)
AddCalls(c) == <<"add">> \o SetCalls(c) \o StartCalls(c)

Script(c, n) ==
  CASE c.verb = "add" -> AddCalls(c)
    [] c.verb = "enable" -> <<"enable">> \o StartCalls(c)
    [] c.verb \in {"set-channel", "clear-channel"} ->
         (IF c.verb = "set-channel" THEN SetCalls(c) ELSE <<"set-channel">>)
         \o (IF "--restart" \in c.flags THEN <<"restart">> ELSE <<>>)
    [] c.verb = "toggle-play" -> IF c.all THEN <<Together(n)>> ELSE <<"cycle">>
    [] c.verb = "identify" -> <<"show">>
    [] c.verb = "loop" -> <<IF seen[n]["loop"] = "on" THEN "loop off" ELSE "loop on">>
    [] OTHER -> <<c.verb>>

(***************************************************************************)
(* A shell's progress.                                                     *)
(***************************************************************************)
CommandsInit ==
  /\ known \in SUBSET Name /\ disabled \in SUBSET known
  /\ stopped \in {disabled, known}
  /\ online = known \ stopped /\ launching = {}
  /\ channel = [n \in Name |-> NoChannel]
  /\ seen = [n \in Name |-> Unseen]
  /\ rescue = [n \in Name |-> None]
  /\ plays = [n \in Name |-> IF n \in online THEN NoChannel ELSE None]
  /\ set = [n \in Name |-> Fresh]
  /\ session \in Sessions
  /\ cmd = [s \in Shell |-> None] /\ work = [s \in Shell |-> <<>>]
  /\ at = [s \in Shell |-> None] /\ calls = [s \in Shell |-> <<>>]
  /\ loads = [s \in Shell |-> None]
  /\ outcome = [s \in Shell |-> "none"]
  /\ calm = None /\ was = None

Issue(s) ==
  /\ outcome[s] # "running"
  /\ \E c \in session :
       /\ Valid(c)
       /\ cmd' = [cmd EXCEPT ![s] = c]
       /\ work' = [work EXCEPT ![s] = [n \in Chosen(c) |-> Script(c, n)]]
       /\ outcome' = [outcome EXCEPT ![s] = IF Chosen(c) = {} THEN "ok" ELSE "running"]
  /\ IF AtRest THEN calm' = s /\ was' = set ELSE calm' = None /\ was' = None
  /\ UNCHANGED <<flagVars, seen, rescue, mpvVars, session, at, calls, loads>>

\* The loop over the targets.
Take(s) ==
  /\ outcome[s] = "running" /\ at[s] = None
  /\ \E n \in DOMAIN work[s] :
       /\ at' = [at EXCEPT ![s] = n]
       /\ calls' = [calls EXCEPT ![s] = work[s][n]]
       /\ work' = [work EXCEPT ![s] = [m \in DOMAIN @ \ {n} |-> @[m]]]
  /\ UNCHANGED <<flagVars, seen, rescue, mpvVars, session, cmd, loads, outcome, calm, was>>

Call(s, c) == at[s] # None /\ calls[s] # <<>> /\ Head(calls[s]) = c

\* The call has succeeded, more follow on the target, or it was the last one.
Proceed(s, rest) ==
  /\ calls' = [calls EXCEPT ![s] = rest]
  /\ at' = [at EXCEPT ![s] = IF rest = <<>> THEN None ELSE @]
  /\ loads' = [loads EXCEPT ![s] = None]
  /\ outcome' = [outcome EXCEPT ![s] =
                   IF rest = <<>> /\ DOMAIN work[s] = {} THEN "ok" ELSE @]
  /\ UNCHANGED <<cmd, work>>
Done(s) == Proceed(s, Tail(calls[s]))
Instead(s, first) == Proceed(s, first \o Tail(calls[s]))

\* `?` in the loop: the targets left are not touched.
\* Variant: they stay to be done.
FailKeeping(s) ==
  /\ outcome' = [outcome EXCEPT ![s] = "failed"]
  /\ at' = [at EXCEPT ![s] = None] /\ calls' = [calls EXCEPT ![s] = <<>>]
  /\ loads' = [loads EXCEPT ![s] = None]
  /\ UNCHANGED <<cmd, work>>
Fail(s) ==
  /\ outcome' = [outcome EXCEPT ![s] = "failed"]
  /\ work' = [work EXCEPT ![s] = <<>>]
  /\ at' = [at EXCEPT ![s] = None] /\ calls' = [calls EXCEPT ![s] = <<>>]
  /\ loads' = [loads EXCEPT ![s] = None]
  /\ UNCHANGED cmd

Disturb == calm' = None /\ was' = None
External == <<seen, rescue, mpvVars, session>>

(***************************************************************************)
(* Requests the daemon refuses: error_code's unknown_target, target_disabled,*)
(* target_already_stopped, target_not_running, config_rejected.            *)
(***************************************************************************)
MpvCall == {"play", "pause", "cycle", "loop on", "loop off", "show"}
Rejected(s) ==
  LET n == at[s]  c == Head(calls[s]) IN
  \/ c = "add" /\ \/ n \in known
                  \/ cmd[s].other # None /\ cmd[s].other \notin known
  \/ c \notin {"add", "resolve", "quit", "await"} /\ n \notin known
  \/ c = "start" /\ n \in disabled
  \/ c = "stop" /\ n \in stopped
  \/ c = "rename" /\ (n \notin stopped \/ cmd[s].other \in known)
  \/ c = "quit" /\ ~Playing(n)
  \/ c \in MpvCall /\ (n \notin online \/ ~Playing(n))

Refused(s) ==
  /\ at[s] # None /\ Rejected(s)
  /\ Fail(s)
  /\ UNCHANGED <<flagVars, External, calm, was>>

Persists == {"add", "forget", "rename", "enable", "disable now", "set-channel"}
Struck(s) ==
  /\ at[s] # None
  /\ \/ /\ "quit_fail" \in Upsets
        /\ \/ Head(calls[s]) = "quit"
           \/ Head(calls[s]) = "restart" /\ at[s] \in disabled /\ Playing(at[s])
     \/ "persist_fail" \in Upsets /\ Head(calls[s]) \in Persists
     \/ "no_channel" \in Upsets /\ Head(calls[s]) = "resolve"
  /\ Fail(s) /\ Disturb
  /\ UNCHANGED <<flagVars, External>>

(***************************************************************************)
(* start, stop, restart.                                                   *)
(***************************************************************************)
\* Online or being launched: success at once.
Start(s) ==
  LET n == at[s] IN
  /\ Call(s, "start") /\ ~Rejected(s)
  /\ stopped' = stopped \ {n}
  /\ IF n \in Busy
     THEN Done(s) /\ UNCHANGED launching
     ELSE /\ launching' = launching \cup {n}
          /\ calls' = [calls EXCEPT ![s] = <<"await">> \o Tail(@)]
          /\ loads' = [loads EXCEPT ![s] = channel[n]]
          /\ UNCHANGED <<cmd, work, at, outcome>>
  /\ UNCHANGED <<known, disabled, online, channel, External, calm, was>>

\* launch: a live socket is taken over, else mpv is spawned; then mark_online.
Launched(n, c) ==
  /\ plays' = [plays EXCEPT ![n] = IF Playing(n) THEN @ ELSE c]
  /\ set' = [set EXCEPT ![n] = IF Playing(n) THEN @ ELSE Fresh]
  /\ online' = online \cup ({n} \cap known)
  /\ launching' = launching \ ({n} \ online)

Launches(s) ==
  /\ Call(s, "await")
  /\ Launched(at[s], loads[s])
  /\ IF at[s] \in known THEN Done(s) ELSE Fail(s)
  /\ UNCHANGED <<known, disabled, stopped, channel, seen, rescue, session, calm, was>>

LaunchFails(s) ==
  /\ "launch_fail" \in Upsets
  /\ Call(s, "await")
  /\ launching' = launching \ {at[s]}
  /\ Fail(s) /\ Disturb
  /\ UNCHANGED <<known, disabled, stopped, online, channel, External>>

Stop(s) ==
  LET n == at[s] IN
  /\ Call(s, "stop") /\ ~Rejected(s)
  /\ stopped' = stopped \cup {n}
  /\ IF n \in online THEN Instead(s, <<"quit">>) ELSE Done(s)
  /\ UNCHANGED <<known, disabled, online, launching, channel, External, calm, was>>

\* mpv of n is gone: the observer or the stopping request notices.
Gone(n) ==
  /\ plays' = [plays EXCEPT ![n] = None]
  /\ set' = [set EXCEPT ![n] = Fresh]
  /\ seen' = [seen EXCEPT ![n] = Unseen]
  /\ online' = online \ {n}
  /\ launching' = launching \ ({n} \cap online)

Quits(s) ==
  /\ Call(s, "quit") /\ Playing(at[s])
  /\ Gone(at[s])
  /\ IF at[s] \in known THEN Done(s) ELSE Fail(s)
  /\ UNCHANGED <<known, disabled, stopped, channel, rescue, session, calm, was>>

\* Variant: restart leaves a running mpv alone.
RestartOf(n) == IF n \notin stopped /\ n \notin online THEN <<"stop", "start">> ELSE <<"start">>
\* stop unless stopped, then start.
RestartCalls(n) == IF n \notin stopped THEN <<"stop", "start">> ELSE <<"start">>

Restart(s) ==
  /\ Call(s, "restart") /\ ~Rejected(s) /\ at[s] \notin disabled
  /\ Instead(s, RestartCalls(at[s]))
  /\ UNCHANGED <<flagVars, External, calm, was>>

\* ensure_disabled_off; restart is done with that.
RestartDisabled(s) ==
  LET n == at[s] IN
  /\ Call(s, "restart") /\ ~Rejected(s) /\ n \in disabled
  /\ plays' = [plays EXCEPT ![n] = None]
  /\ set' = [set EXCEPT ![n] = Fresh]
  /\ seen' = [seen EXCEPT ![n] = Unseen]
  /\ stopped' = stopped \cup {n} /\ online' = online \ {n} /\ launching' = launching \ {n}
  /\ Done(s)
  /\ UNCHANGED <<known, disabled, channel, rescue, session, calm, was>>

(***************************************************************************)
(* Administration.                                                         *)
(***************************************************************************)
EnableTarget(s) ==
  /\ Call(s, "enable") /\ ~Rejected(s)
  /\ disabled' = disabled \ {at[s]}
  /\ Done(s)
  /\ UNCHANGED <<known, stopped, online, launching, channel, External, calm, was>>

\* stop unless stopped, then persist; remove does the same with its own end.
StopFirst(s) ==
  /\ Call(s, "disable") \/ Call(s, "remove")
  /\ ~Rejected(s)
  /\ LET last == IF Call(s, "disable") THEN "disable now" ELSE "forget" IN
     Instead(s, (IF at[s] \in stopped THEN <<>> ELSE <<"stop">>) \o <<last>>)
  /\ UNCHANGED <<flagVars, External, calm, was>>

DisableTarget(s) ==
  /\ Call(s, "disable now") /\ ~Rejected(s)
  /\ disabled' = disabled \cup {at[s]}
  /\ Done(s)
  /\ UNCHANGED <<known, stopped, online, launching, channel, External, calm, was>>

SetChannel(s) ==
  /\ Call(s, "set-channel") /\ ~Rejected(s)
  /\ channel' = [channel EXCEPT ![at[s]] = cmd[s].channel]
  /\ Done(s)
  /\ UNCHANGED <<known, disabled, stopped, online, launching, External, calm, was>>

\* NodeListChannels, or a channel given as a path or URL.
Resolve(s) ==
  /\ Call(s, "resolve")
  /\ Done(s)
  /\ UNCHANGED <<flagVars, External, calm, was>>

Add(s) ==
  LET n == at[s]  c == cmd[s] IN
  /\ Call(s, "add") /\ ~Rejected(s)
  /\ known' = known \cup {n} /\ stopped' = stopped \cup {n}
  /\ disabled' = IF c.flags \cap {"--enable", "--start"} = {} THEN disabled \cup {n} ELSE disabled
  /\ channel' = [channel EXCEPT ![n] = IF c.other = None THEN NoChannel ELSE channel[c.other]]
  /\ Done(s)
  /\ UNCHANGED <<online, launching, External, calm, was>>

\* The runtime target goes with its flags; a stopped mpv that would not quit stays.
Forget(s) ==
  LET n == at[s] IN
  /\ Call(s, "forget") /\ ~Rejected(s)
  /\ known' = known \ {n} /\ disabled' = disabled \ {n} /\ stopped' = stopped \ {n}
  /\ online' = online \ {n} /\ launching' = launching \ {n}
  /\ channel' = [channel EXCEPT ![n] = NoChannel]
  /\ seen' = [seen EXCEPT ![n] = Unseen]
  /\ Done(s)
  /\ UNCHANGED <<rescue, mpvVars, session, calm, was>>

Moved(f, n, m) == IF n \in f THEN (f \ {n}) \cup {m} ELSE f
Rename(s) ==
  LET n == at[s]  m == cmd[s].other IN
  /\ Call(s, "rename") /\ ~Rejected(s)
  /\ known' = Moved(known, n, m) /\ disabled' = Moved(disabled, n, m)
  /\ stopped' = Moved(stopped, n, m) /\ online' = Moved(online, n, m)
  /\ launching' = Moved(launching, n, m)
  /\ channel' = [channel EXCEPT ![m] = channel[n], ![n] = NoChannel]
  /\ seen' = [seen EXCEPT ![m] = seen[n], ![n] = Unseen]
  /\ Done(s)
  /\ UNCHANGED <<rescue, mpvVars, session, calm, was>>

(***************************************************************************)
(* mpv_command.                                                            *)
(***************************************************************************)
Effect(c, v) == CASE c = "play" -> [v EXCEPT !["pause"] = "off"]
                  [] c = "pause" -> [v EXCEPT !["pause"] = "on"]
                  [] c = "cycle" -> [v EXCEPT !["pause"] = Opposite(@)]
                  [] c = "loop on" -> [v EXCEPT !["loop"] = "on"]
                  [] c = "loop off" -> [v EXCEPT !["loop"] = "off"]
                  [] OTHER -> v
MpvCommand(s) ==
  /\ at[s] # None /\ Head(calls[s]) \in MpvCall /\ ~Rejected(s)
  /\ set' = [set EXCEPT ![at[s]] = Effect(Head(calls[s]), @)]
  /\ Done(s)
  /\ UNCHANGED <<flagVars, seen, rescue, plays, session, calm, was>>

(***************************************************************************)
(* What happens by itself.                                                 *)
(***************************************************************************)
Observe(n) ==
  /\ SeenIsRead /\ n \in online /\ Playing(n)
  /\ \E p \in Property :
       /\ seen[n][p] # set[n][p]
       /\ seen' = [seen EXCEPT ![n][p] = set[n][p]]
  /\ UNCHANGED <<flagVars, rescue, mpvVars, session, shellVars, calm, was>>

MpvExits(n) ==
  /\ "mpv_exit" \in Upsets
  /\ Playing(n) /\ Gone(n)
  /\ Disturb
  /\ UNCHANGED <<known, disabled, stopped, channel, rescue, session, shellVars>>

RescueStarts(n) ==
  /\ n \in Expected \ Busy /\ rescue[n] = None
  /\ launching' = launching \cup {n}
  /\ rescue' = [rescue EXCEPT ![n] = channel[n]]
  /\ Disturb
  /\ UNCHANGED <<known, disabled, stopped, online, channel, seen, mpvVars, session, shellVars>>

RescueLaunches(n) ==
  /\ rescue[n] # None
  /\ Launched(n, rescue[n])
  /\ rescue' = [rescue EXCEPT ![n] = None]
  /\ Disturb
  /\ UNCHANGED <<known, disabled, stopped, channel, seen, session, shellVars>>

RescueFails(n) ==
  /\ "launch_fail" \in Upsets /\ rescue[n] # None
  /\ launching' = launching \ {n}
  /\ rescue' = [rescue EXCEPT ![n] = None]
  /\ Disturb
  /\ UNCHANGED <<known, disabled, stopped, online, channel, seen, mpvVars, session, shellVars>>

CommandsNext ==
  \/ \E s \in Shell :
       \/ Issue(s) \/ Take(s) \/ Refused(s) \/ Struck(s)
       \/ Start(s) \/ Launches(s) \/ LaunchFails(s) \/ Stop(s) \/ Quits(s)
       \/ Restart(s) \/ RestartDisabled(s) \/ EnableTarget(s) \/ StopFirst(s) \/ DisableTarget(s)
       \/ Resolve(s) \/ SetChannel(s) \/ Add(s) \/ Forget(s) \/ Rename(s) \/ MpvCommand(s)
  \/ \E n \in Name :
       \/ Observe(n) \/ MpvExits(n) \/ RescueStarts(n) \/ RescueLaunches(n)
       \/ RescueFails(n)

CommandsSpec == CommandsInit /\ [][CommandsNext]_commandsVars

(***************************************************************************)
(* Properties.                                                             *)
(***************************************************************************)
\* Types, and what a shell holds: calls for the target in hand, targets left only
\* while it runs, a channel read only while its launch is awaited.
CommandsTypeOK ==
  /\ known \subseteq Name /\ disabled \subseteq known /\ stopped \subseteq known
  /\ online \subseteq known /\ launching \subseteq known
  /\ channel \in [Name -> Channel \cup {NoChannel}]
  /\ rescue \in [Name -> Channel \cup {NoChannel, None}]
  /\ plays \in [Name -> Channel \cup {NoChannel, None}]
  /\ set \in [Name -> [Property -> {"on", "off"}]]
  /\ seen \in [Name -> [Property -> {"on", "off", "unknown"}]]
  /\ session \in Sessions
  /\ at \in [Shell -> Name \cup {None}]
  /\ outcome \in [Shell -> {"none", "running", "ok", "failed"}]
  /\ \A s \in Shell :
       /\ cmd[s] = None <=> outcome[s] = "none"
       /\ cmd[s] # None => cmd[s] \in session
       /\ DOMAIN work[s] # {} \/ at[s] # None <=> outcome[s] = "running"
       /\ at[s] = None <=> calls[s] = <<>>
       /\ loads[s] # None <=> Call(s, "await")
  /\ calm \in Shell \cup {None}
  /\ was \in [Name -> [Property -> {"on", "off"}]] \cup {None}

\* A command on all targets that nothing disturbs succeeds and leaves no target
\* out: after `start all` every enabled target is online, after `stop all` none
\* is or is expected to be, after `restart all` the same ones are online
\* (lifecycle_all_targets chooses on a snapshot, the daemon refuses a second stop
\* and a request for a target that is not running).
BulkCompletes ==
  \A s \in Shell : calm = s /\ cmd[s].all =>
    /\ outcome[s] # "failed"
    /\ outcome[s] = "ok" => CASE cmd[s].verb = "start" -> known \ disabled = online \ stopped
                              [] cmd[s].verb = "stop" -> Expected = {} /\ online = {}
                              [] OTHER -> Expected = online

\* What was asked for is what was shown: `toggle-play all` takes every target to
\* the same state, playing if all were paused and paused otherwise, and `loop`
\* turns each of its targets (mpv_action decides on the snapshot, the state of
\* mpv may have moved on).
TogglesAsShown ==
  \A s \in Shell : calm = s /\ outcome[s] = "ok" =>
    /\ cmd[s].verb = "toggle-play" /\ cmd[s].all =>
         LET paused == {n \in online : was[n]["pause"] = "on"} IN
         \A n \in online :
           set[n]["pause"] = IF paused = online THEN "off" ELSE "on"
    /\ cmd[s].verb = "loop" =>
         \A n \in cmd[s].on : set[n]["loop"] = Opposite(was[n]["loop"])

\* `set-channel --restart`, `clear-channel --restart` and `add --channel --start`
\* that report success leave the target online only with the channel they name:
\* restart_completed is computed from `online`, not from what mpv plays.
ChannelApplied ==
  \A s \in Shell : calm = s /\ outcome[s] = "ok" /\
      ( \/ cmd[s].verb \in {"set-channel", "clear-channel"} /\ "--restart" \in cmd[s].flags
        \/ cmd[s].verb = "add" /\ cmd[s].channel # NoChannel ) =>
    \A n \in cmd[s].on \cap online : plays[n] = cmd[s].channel
=============================================================================
