-------------------------------- MODULE Deploy ---------------------------------
(***************************************************************************)
(* deploy-targets (deploy-targets/src/main.rs), file operation by file     *)
(* operation: the refusals, the removal of an existing configuration root, *)
(* the temporary file and the rename behind every file it writes, what an  *)
(* error or the death of the process leaves, and the systemd user service  *)
(* that starts a daemon on whatever it finds and writes to the same root.  *)
(*                                                                         *)
(* The configuration and the key pair are computed from the plan of a      *)
(* deployment, which stands for them here.  A daemon's own change to the   *)
(* targets is one step; TargetStore takes it apart.                        *)
(***************************************************************************)
EXTENDS Naturals, FiniteSets

CONSTANTS
  Deployer,    \* process ids of deploy-targets; an id may come back
  Target,      \* names an answer file can list
  Generation,  \* bound: plans that exist at once
  Answers,     \* the answer files of this instance
  Leftover,    \* bound: temporary files when a process leaves one behind
  Absent,
  Mishaps      \* what may go wrong in this instance

AnswerFlaw == {"host_profile", "node_id", "listen", "tls_choice", "tls_pair",
               "target_name", "duplicate_target", "volume"}
ConfigFlaw == {"node_id", "listen", "target_name", "duplicate_target"}
BuildFlaw == {"unknown_profile", "daemon_binary", "tls_source", "tls_material"}

Answer == [targets : SUBSET Target, tls : {"generate", "pair"},
           profile : {"generic", "hyprland"}, install : BOOLEAN,
           flaw : AnswerFlaw \cup BuildFlaw \cup {"none"}]
Plan == [gen : Generation, answer : Answer]

RootFile == Target \cup {"crt", "key", "toml"}
File == RootFile \cup {"binary", "helper", "unit"}

ASSUME DeployAssumption ==
  /\ Target \cap {"crt", "key", "toml", "binary", "helper", "unit", "tls"} = {}
  /\ Absent \notin Plan /\ Absent \notin File \cup {"generic", "hyprland", "present"}
  /\ Answers \subseteq Answer
  /\ Mishaps \subseteq {"io_fail", "dies", "daemon_dies", "systemctl_fail"}

VARIABLES
  root,       \* what is at the configuration root
  file,       \* the files of a deployment; a target's is its mpv.conf
  temp,       \* temporary files left or in use, by stem and process id
  stage,      \* per process: what it does next
  plan,       \* per process: Plan::build's result
  todo,       \* per process: the files apply_at has not written yet
  goal,       \* per process: the file whose temporary is open
  loaded,     \* the unit systemd has read
  wanted,     \* systemd keeps the service running
  served,     \* the configuration in the daemon's memory
  changed,    \* history: processes at work or refused that changed a file
  dirty       \* history: since the root was last empty, a removal stopped half
              \* way, two deployments met in it, or a daemon wrote to it what
              \* another deployment had configured

disk == <<root, file, temp>>
process == <<stage, plan, todo, goal>>
service == <<loaded, wanted, served>>
history == <<changed, dirty>>
deployVars == <<disk, process, service, history>>

(***************************************************************************)
(* What the files say.                                                     *)
(***************************************************************************)
\* AnswerFile::validate, and Plan::build with DaemonConfig::validate.
Accepted(a) == a.flaw \notin AnswerFlaw
\* Variant: the TLS material is not tried out.
BuildableUntried(a) == a.flaw \notin (BuildFlaw \cup ConfigFlaw) \ {"tls_material"}
Buildable(a) == a.flaw \notin BuildFlaw \cup ConfigFlaw

\* A generated pair belongs to its plan; the answers that supply one supply the
\* same one.
SamePair(p, q) == p.gen = q.gen \/ (p.answer.tls = "pair" /\ q.answer.tls = "pair")

\* The daemon's start: DaemonConfig::parse, then server_tls_config.
Loads ==
  /\ file["toml"] # Absent /\ file["toml"].answer.flaw \notin ConfigFlaw
  /\ file["crt"] # Absent /\ file["key"] # Absent
  /\ SamePair(file["crt"], file["key"]) /\ file["crt"].answer.flaw # "tls_material"

Retargeted(p, ts) == [p EXCEPT !.answer.targets = ts]

FilesOf(p) == p.answer.targets \cup {"crt", "key", "toml", "binary", "unit"} \cup
              (IF p.answer.profile = "hyprland" THEN {"helper"} ELSE {})

\* What of plan p is in file f.
Content(f, p) == CASE f \in {"crt", "key", "toml"} -> p
                   [] f = "unit" -> p.answer.profile
                   [] OTHER -> "present"

\* path.with_extension("tmp-<pid>"): the certificate and its key share a stem.
Stem(f) == IF f \in {"crt", "key"} THEN "tls" ELSE f
RootStem == {Stem(f) : f \in RootFile}

(***************************************************************************)
(* The order of apply_at: the files that are written before f.             *)
(***************************************************************************)
\* Variant: the configuration is written before what it names.
EarlierTomlFirst(f) ==
  CASE f \in Target -> {"toml"}
    [] f = "toml" -> {}
    [] f = "crt" -> Target \cup {"toml"}
    [] f = "key" -> Target \cup {"toml", "crt"}
    [] f = "binary" -> RootFile
    [] f = "helper" -> RootFile \cup {"binary"}
    [] f = "unit" -> RootFile \cup {"binary", "helper"}
\* Variant: the unit is installed before the programs it runs.
EarlierUnitFirst(f) ==
  CASE f \in Target -> {}
    [] f = "crt" -> Target
    [] f = "key" -> Target \cup {"crt"}
    [] f = "toml" -> Target \cup {"crt", "key"}
    [] f = "unit" -> RootFile
    [] f = "binary" -> RootFile \cup {"unit"}
    [] f = "helper" -> RootFile \cup {"unit", "binary"}
Earlier(f) ==
  CASE f \in Target -> {}
    [] f = "crt" -> Target
    [] f = "key" -> Target \cup {"crt"}
    [] f = "toml" -> Target \cup {"crt", "key"}
    [] f = "binary" -> RootFile
    [] f = "helper" -> RootFile \cup {"binary"}
    [] f = "unit" -> RootFile \cup {"binary", "helper"}

Due(d) == {f \in todo[d] : Earlier(f) \cap todo[d] = {}}

(***************************************************************************)
(* Stages of a process.                                                    *)
(***************************************************************************)
\* A process that is done or failed has ended; one that refused is told apart.
Ended == {"ended", "refused"}
Stage == Ended \cup {"confirm", "remove", "removing", "directories", "writing",
                     "reload", "enable"}

\* What follows "begin" on an existing root, the confirmation and the removal.
\* Variant: the operator is asked when the old root is gone.
RemoveFirst(s) == CASE s = "begin" -> "remove" [] s = "removing" -> "confirm"
                    [] s = "confirm" -> "directories"
Following(s) == CASE s = "begin" -> "confirm" [] s = "confirm" -> "remove"
                  [] s = "removing" -> "directories"

Goto(d, s) == stage' = [stage EXCEPT ![d] = s] /\ UNCHANGED <<plan, todo, goal>>

\* Variant: the list of files survives.
EndKeeping(d, s) ==
  /\ stage' = [stage EXCEPT ![d] = s]
  /\ plan' = [plan EXCEPT ![d] = Absent]
  /\ goal' = [goal EXCEPT ![d] = Absent]
  /\ changed' = (IF s = "refused" THEN changed ELSE changed \ {d})
  /\ UNCHANGED todo
End(d, s) ==
  /\ stage' = [stage EXCEPT ![d] = s]
  /\ plan' = [plan EXCEPT ![d] = Absent]
  /\ todo' = [todo EXCEPT ![d] = {}]
  /\ goal' = [goal EXCEPT ![d] = Absent]
  /\ changed' = IF s = "refused" THEN changed ELSE changed \ {d}

Touch(d) == changed' = changed \cup {d}

\* A fresh node, a node deployed before, or a root that is no directory.
Installed(p) == [f \in File |-> IF f \in FilesOf(p) THEN Content(f, p) ELSE Absent]
DeployInit ==
  /\ \/ /\ root \in {"absent", "symlink", "file"}
        /\ file = [f \in File |-> Absent]
        /\ loaded = Absent /\ wanted = FALSE /\ served = Absent
     \/ \E a \in {b \in Answers : Accepted(b) /\ Buildable(b)}, g \in Generation :
          LET old == [gen |-> g, answer |-> a] IN
          /\ root = "dir"
          /\ file = Installed(old)
          /\ loaded = (IF a.install THEN a.profile ELSE Absent) /\ wanted = a.install
          /\ served \in (IF a.install THEN {Absent, old} ELSE {Absent})
  /\ temp = {}
  /\ stage = [d \in Deployer |-> "ended"]
  /\ plan = [d \in Deployer |-> Absent]
  /\ todo = [d \in Deployer |-> {}]
  /\ goal = [d \in Deployer |-> Absent]
  /\ changed = {} /\ dirty = FALSE

InUse(g) ==
  \/ \E f \in {"crt", "key", "toml"} : file[f] # Absent /\ file[f].gen = g
  \/ \E d \in Deployer : plan[d] # Absent /\ plan[d].gen = g
  \/ served # Absent /\ served.gen = g

(***************************************************************************)
(* run: the answer, the root and the whole plan come before any change.    *)
(***************************************************************************)
Refuses(a, overwrite) ==
  \/ ~Accepted(a)
  \/ (root # "absent" /\ ~overwrite)
  \/ ~Buildable(a)

Begin(d) ==
  /\ stage[d] \in Ended
  /\ \E a \in Answers, overwrite \in BOOLEAN :
       \/ /\ Refuses(a, overwrite)
          /\ stage' = [stage EXCEPT ![d] = "refused"]
          /\ changed' = changed \ {d}
          /\ UNCHANGED <<plan, todo, goal>>
       \/ /\ ~Refuses(a, overwrite)
          /\ \E g \in Generation :
               /\ ~InUse(g)
               /\ plan' = [plan EXCEPT ![d] = [gen |-> g, answer |-> a]]
          /\ stage' = [stage EXCEPT ![d] =
                         IF root = "absent" THEN "directories" ELSE Following("begin")]
          /\ changed' = changed \ {d}
          /\ UNCHANGED <<todo, goal>>
  /\ UNCHANGED <<disk, service, dirty>>

\* confirm_overwrite: no terminal, no answer, anything but y.
Confirm(d) ==
  /\ stage[d] = "confirm"
  /\ \/ Goto(d, Following("confirm")) /\ UNCHANGED changed
     \/ End(d, "refused")
  /\ UNCHANGED <<disk, service, dirty>>

\* remove_existing_root looks at what is there now.
Remove(d) ==
  /\ stage[d] = "remove"
  /\ \/ root \in {"symlink", "file"} /\ End(d, "refused")
     \/ root = "absent" /\ Goto(d, Following("removing")) /\ UNCHANGED changed
     \/ root = "dir" /\ Goto(d, "removing") /\ UNCHANGED changed
  /\ UNCHANGED <<disk, service, dirty>>

\* remove_dir_all: entry by entry, in no particular order.
Unlink(d) ==
  /\ stage[d] = "removing" /\ root = "dir"
  /\ \E f \in RootFile :
       /\ file[f] # Absent
       /\ file' = [file EXCEPT ![f] = Absent]
  /\ Touch(d) /\ dirty' = TRUE
  /\ UNCHANGED <<root, temp, process, service>>

Removed(d) ==
  /\ stage[d] = "removing"
  /\ \A f \in RootFile : file[f] = Absent
  /\ root' = "absent"
  /\ temp' = {x \in temp : x[1] \notin RootStem}
  /\ Goto(d, Following("removing"))
  /\ Touch(d)
  /\ dirty' = \E e \in Deployer : stage[e] = "writing"
  /\ UNCHANGED <<file, service>>

RemoveFails(d) ==
  /\ "io_fail" \in Mishaps
  /\ stage[d] = "removing"
  /\ End(d, "ended")
  /\ UNCHANGED <<disk, service, dirty>>

(***************************************************************************)
(* apply_at: directories, then file after file through atomic_write.       *)
(***************************************************************************)
MakeDirectories(d) ==
  /\ stage[d] = "directories"
  /\ root \in {"absent", "dir"} /\ root' = "dir"
  /\ stage' = [stage EXCEPT ![d] = "writing"]
  /\ todo' = [todo EXCEPT ![d] = FilesOf(plan[d])]
  /\ Touch(d)
  /\ dirty' = (dirty \/ root = "dir")
  /\ UNCHANGED <<file, temp, plan, goal, service>>

\* Some directories may have been made when the error comes.
DirectoriesFail(d) ==
  /\ stage[d] = "directories"
  /\ root \in {"symlink", "file"} \/ "io_fail" \in Mishaps
  /\ root' \in (IF root = "absent" THEN {root, "dir"} ELSE {root})
  /\ End(d, "ended")
  /\ dirty' = (dirty \/ root = "dir")
  /\ UNCHANGED <<file, temp, service>>

\* A target's directories are made before its file, and with them a root that
\* another deployment has removed.
RootFor(f) == IF f \in Target /\ root = "absent" THEN "dir" ELSE root

\* create_new: an existing temporary file is an error.
Open(d) ==
  /\ stage[d] = "writing" /\ goal[d] = Absent
  /\ \E f \in Due(d) :
       /\ <<Stem(f), d>> \notin temp
       /\ f \in RootFile => RootFor(f) = "dir"
       /\ root' = RootFor(f)
       /\ goal' = [goal EXCEPT ![d] = f]
       /\ temp' = temp \cup {<<Stem(f), d>>}
  /\ Touch(d)
  /\ UNCHANGED <<file, stage, plan, todo, service, dirty>>

OpenFails(d) ==
  /\ stage[d] = "writing" /\ goal[d] = Absent
  /\ \/ "io_fail" \in Mishaps
     \/ \E f \in Due(d) : <<Stem(f), d>> \in temp \/ (f \in RootFile /\ RootFor(f) # "dir")
  /\ End(d, "ended")
  /\ UNCHANGED <<disk, service, dirty>>

\* A rename takes the temporary name away.  Variant: a copy does not.
CopiedFrom(d, f) == temp
RenamedFrom(d, f) == temp \ {<<Stem(f), d>>}

Replace(d) ==
  LET f == goal[d] IN
  /\ stage[d] = "writing" /\ f # Absent
  /\ f \in RootFile => (root = "dir" /\ <<Stem(f), d>> \in temp)
  /\ file' = [file EXCEPT ![f] = Content(f, plan[d])]
  /\ temp' = RenamedFrom(d, f)
  /\ IF todo[d] # {f}
     THEN /\ todo' = [todo EXCEPT ![d] = @ \ {f}]
          /\ goal' = [goal EXCEPT ![d] = Absent]
          /\ Touch(d)
          /\ UNCHANGED <<stage, plan>>
     ELSE IF plan[d].answer.install
     THEN /\ todo' = [todo EXCEPT ![d] = {}]
          /\ goal' = [goal EXCEPT ![d] = Absent]
          /\ stage' = [stage EXCEPT ![d] = "reload"]
          /\ Touch(d)
          /\ UNCHANGED plan
     ELSE End(d, "ended")
  /\ UNCHANGED <<root, service, dirty>>

\* Writing, syncing or chmod fails and the temporary file stays, or the rename
\* fails and it is removed.
WriteFails(d) ==
  /\ stage[d] = "writing" /\ goal[d] # Absent
  /\ "io_fail" \in Mishaps \/ <<Stem(goal[d]), d>> \notin temp
  /\ temp' \in {temp, temp \ {<<Stem(goal[d]), d>>}}
  /\ Cardinality(temp') <= Leftover
  /\ End(d, "ended")
  /\ UNCHANGED <<root, file, service, dirty>>

\* The process is killed, or the machine goes down.
Dies(d) ==
  /\ "dies" \in Mishaps
  /\ stage[d] \notin Ended
  /\ Cardinality(temp) <= Leftover
  /\ End(d, "ended")
  /\ UNCHANGED <<disk, service, dirty>>

(***************************************************************************)
(* install_service and show_status: calls of systemctl.                   *)
(***************************************************************************)
Reload(d) ==
  /\ stage[d] = "reload"
  /\ Goto(d, "enable")
  /\ loaded' = file["unit"]
  /\ UNCHANGED <<disk, wanted, served, history>>

\* enable --now does nothing to a daemon that is running; show_status only reads.
Enable(d) ==
  /\ stage[d] = "enable"
  /\ End(d, "ended")
  /\ wanted' = TRUE
  /\ UNCHANGED <<disk, loaded, served, dirty>>

SystemctlFails(d) ==
  /\ "systemctl_fail" \in Mishaps
  /\ stage[d] \in {"reload", "enable"}
  /\ End(d, "ended")
  /\ UNCHANGED <<disk, service, dirty>>

(***************************************************************************)
(* The daemon under systemd.                                               *)
(***************************************************************************)
\* The unit can run: its program and what it waits for are installed.
Runnable(u) == /\ file["binary"] # Absent
               /\ u = "hyprland" => file["helper"] # Absent

\* Enabled, or tried again after a failure (Restart=on-failure).
DaemonStarts ==
  /\ wanted /\ served = Absent
  /\ loaded # Absent /\ Runnable(loaded)
  /\ Loads
  /\ served' = file["toml"]
  /\ UNCHANGED <<disk, process, loaded, wanted, history>>

DaemonDies ==
  /\ "daemon_dies" \in Mishaps
  /\ served # Absent /\ served' = Absent
  /\ UNCHANGED <<disk, process, loaded, wanted, history>>

\* A change to the targets, written over whatever is there (persist_config).
Persist(p) ==
  /\ served' = p
  /\ dirty' = (dirty \/ file["toml"] # served)
  /\ UNCHANGED <<temp, process, loaded, wanted, changed>>

\* add creates targets/<n> with every directory above it.
DaemonAdds ==
  /\ served # Absent /\ root \in {"absent", "dir"}
  /\ \E n \in Target \ served.answer.targets :
       LET p == Retargeted(served, served.answer.targets \cup {n}) IN
       /\ file[n] = Absent
       /\ Persist(p)
       /\ file' = [file EXCEPT ![n] = "present", !["toml"] = p]
  /\ root' = "dir"

DaemonRemoves ==
  /\ served # Absent /\ root = "dir"
  /\ \E n \in served.answer.targets :
       LET p == Retargeted(served, served.answer.targets \ {n}) IN
       /\ Persist(p)
       /\ file' = [file EXCEPT ![n] = Absent, !["toml"] = p]
  /\ UNCHANGED root

\* enable, disable, set_channel: the same targets, written again.
DaemonRewrites ==
  /\ served # Absent /\ root = "dir"
  /\ Persist(served)
  /\ file' = [file EXCEPT !["toml"] = served]
  /\ UNCHANGED root

DeployNext ==
  \/ \E d \in Deployer :
       \/ Begin(d) \/ Confirm(d) \/ Remove(d) \/ Unlink(d) \/ Removed(d)
       \/ RemoveFails(d) \/ MakeDirectories(d) \/ DirectoriesFail(d) \/ Open(d)
       \/ OpenFails(d) \/ Replace(d) \/ WriteFails(d) \/ Dies(d) \/ Reload(d)
       \/ Enable(d) \/ SystemctlFails(d)
  \/ DaemonStarts \/ DaemonDies \/ DaemonAdds \/ DaemonRemoves \/ DaemonRewrites

DeploySpec == DeployInit /\ [][DeployNext]_deployVars

(***************************************************************************)
(* Properties.                                                             *)
(***************************************************************************)
\* Types, and what a process holds: a plan while it works, files to write only
\* while it writes, and an open file among those.
DeployTypeOK ==
  /\ root \in {"absent", "dir", "symlink", "file"}
  /\ file = [f \in File |-> file[f]]
  /\ \A f \in {"crt", "key", "toml"} : file[f] \in Plan \cup {Absent}
  /\ \A f \in Target \cup {"binary", "helper"} : file[f] \in {"present", Absent}
  /\ file["unit"] \in {"generic", "hyprland", Absent}
  /\ temp \subseteq {Stem(f) : f \in File} \X Deployer
  /\ stage \in [Deployer -> Stage]
  /\ plan \in [Deployer -> Plan \cup {Absent}]
  /\ todo \in [Deployer -> SUBSET File]
  /\ goal \in [Deployer -> File \cup {Absent}]
  /\ \A d \in Deployer :
       /\ plan[d] = Absent <=> stage[d] \in Ended
       /\ todo[d] # {} <=> stage[d] = "writing"
       /\ goal[d] # Absent => goal[d] \in Due(d)
  /\ loaded \in {"generic", "hyprland", Absent} /\ wanted \in BOOLEAN
  /\ served \in Plan \cup {Absent}
  /\ changed \subseteq Deployer /\ dirty \in BOOLEAN

\* Nobody ever finds half a deployment: unless a removal stopped half way or two
\* parties wrote into one root, a configuration file that exists can be loaded
\* with its certificate and key, and every target it lists has its directory -
\* at every instant, whatever failed or died (apply_at writes the configuration
\* after what it names; Plan::build tries the TLS material out first).
Whole ==
  /\ root = "dir" /\ Loads
  /\ \A n \in file["toml"].answer.targets : file[n] # Absent
ConfigIsWhole == ~dirty /\ file["toml"] # Absent => Whole

\* "no files were changed" (DeployError): a deployment that refuses - its answer,
\* its plan, a root it may not replace, an operator who says no - has changed
\* nothing, however long it waited for the answer.
RefusedUnchanged == \A d \in Deployer : stage[d] = "refused" => d \notin changed

\* Whatever a deployment left or is doing, the unit on disk and the unit systemd
\* has read run a program that is installed, and wait with a helper that is.
UnitRunnable ==
  /\ file["unit"] # Absent => Runnable(file["unit"])
  /\ loaded # Absent => Runnable(loaded)

\* What failed attempts left under the root never stops a later one: create_new
\* does not meet a temporary file there, although a process id can come back and
\* the certificate and its key use the same temporary name.
RetryNotBlocked ==
  \A d \in Deployer : stage[d] = "writing" /\ goal[d] = Absent =>
    \A f \in Due(d) \cap RootFile : <<Stem(f), d>> \notin temp
=============================================================================
