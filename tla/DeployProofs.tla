------------------------------ MODULE DeployProofs ------------------------------
(***************************************************************************)
(* Proofs about Deploy, for every set of processes, targets, plans and     *)
(* answers: its types, that a refusal changes nothing, that leftovers under*)
(* the root never block a retry, that the installed unit can run, and that *)
(* a configuration file that exists is whole.                              *)
(***************************************************************************)
EXTENDS Deploy, TLAPS

(***************************************************************************)
(* Plans and files.                                                        *)
(***************************************************************************)
LEMMA RetargetedPlan ==
  ASSUME NEW p \in Plan, NEW ts \in SUBSET Target
  PROVE  /\ Retargeted(p, ts) \in Plan
         /\ Retargeted(p, ts).gen = p.gen
         /\ Retargeted(p, ts).answer.targets = ts
         /\ Retargeted(p, ts).answer.flaw = p.answer.flaw
         /\ Retargeted(p, ts).answer.tls = p.answer.tls
  BY DEF Retargeted, Plan, Answer

LEMMA PlanParts ==
  ASSUME NEW p \in Plan
  PROVE  /\ p.answer \in Answer /\ p.answer.targets \in SUBSET Target
         /\ p.answer.profile \in {"generic", "hyprland"}
         /\ FilesOf(p) \in SUBSET File
         /\ {"crt", "key", "toml", "binary", "unit"} \subseteq FilesOf(p)
         /\ p.answer.profile = "hyprland" => "helper" \in FilesOf(p)
  BY DEF Plan, Answer, FilesOf, File, RootFile

\* The conjuncts of DeployTypeOK about the files.
FilesTyped(fs) ==
  /\ fs = [f \in File |-> fs[f]]
  /\ \A f \in {"crt", "key", "toml"} : fs[f] \in Plan \cup {Absent}
  /\ \A f \in Target \cup {"binary", "helper"} : fs[f] \in {"present", Absent}
  /\ fs["unit"] \in {"generic", "hyprland", Absent}

LEMMA FileNames ==
  /\ RootFile \subseteq File /\ Target \subseteq RootFile
  /\ {"crt", "key", "toml"} \subseteq RootFile /\ {"binary", "helper", "unit"} \subseteq File
  /\ Target \cap {"crt", "key", "toml", "binary", "helper", "unit"} = {}
  BY DeployAssumption DEF File, RootFile

LEMMA ContentTyped ==
  ASSUME NEW f \in File, NEW p \in Plan
  PROVE  /\ Content(f, p) # Absent
         /\ f \in {"crt", "key", "toml"} => Content(f, p) = p
         /\ f \in Target \cup {"binary", "helper"} => Content(f, p) = "present"
         /\ f = "unit" => Content(f, p) = p.answer.profile
  <1>1. CASE f \in {"crt", "key", "toml"}
    BY <1>1, FileNames, DeployAssumption DEF Content
  <1>2. CASE f = "unit"
    BY <1>2, FileNames, PlanParts, DeployAssumption DEF Content, File
  <1>3. CASE f \in Target \cup {"binary", "helper"}
    BY <1>3, FileNames, DeployAssumption DEF Content, File
  <1>4. QED
    BY <1>1, <1>2, <1>3 DEF File, RootFile

LEMMA WrittenTyped ==
  ASSUME FilesTyped(file), NEW f \in File, NEW p \in Plan
  PROVE  FilesTyped([file EXCEPT ![f] = Content(f, p)])
  BY ContentTyped, PlanParts, FileNames DEF FilesTyped

LEMMA RemovedTyped ==
  ASSUME FilesTyped(file), NEW f \in RootFile
  PROVE  FilesTyped([file EXCEPT ![f] = Absent])
  BY FileNames DEF FilesTyped

LEMMA DaemonWriteTyped ==
  ASSUME FilesTyped(file), NEW n \in Target, NEW v \in {"present", Absent}, NEW p \in Plan
  PROVE  FilesTyped([file EXCEPT ![n] = v, !["toml"] = p])
  BY FileNames DEF FilesTyped

LEMMA InstalledTyped ==
  ASSUME NEW p \in Plan
  PROVE  FilesTyped(Installed(p))
  BY ContentTyped, PlanParts, FileNames DEF FilesTyped, Installed

(***************************************************************************)
(* Processes.                                                              *)
(***************************************************************************)
\* The conjuncts of DeployTypeOK about one process.
ProcessTyped(d) ==
  /\ plan[d] = Absent <=> stage[d] \in Ended
  /\ todo[d] # {} <=> stage[d] = "writing"
  /\ goal[d] # Absent => goal[d] \in Due(d)

ProcessesTyped ==
  /\ stage \in [Deployer -> Stage]
  /\ plan \in [Deployer -> Plan \cup {Absent}]
  /\ todo \in [Deployer -> SUBSET File]
  /\ goal \in [Deployer -> File \cup {Absent}]
  /\ \A d \in Deployer : ProcessTyped(d)

\* What the other conjuncts say.
RestTyped ==
  /\ root \in {"absent", "dir", "symlink", "file"}
  /\ temp \subseteq {Stem(f) : f \in File} \X Deployer
  /\ loaded \in {"generic", "hyprland", Absent} /\ wanted \in BOOLEAN
  /\ served \in Plan \cup {Absent}
  /\ changed \subseteq Deployer /\ dirty \in BOOLEAN

LEMMA TypeParts == DeployTypeOK <=> FilesTyped(file) /\ ProcessesTyped /\ RestTyped
  BY DEF DeployTypeOK, FilesTyped, ProcessesTyped, ProcessTyped, RestTyped

LEMMA TypePartsNext == FilesTyped(file') /\ ProcessesTyped' /\ RestTyped' => DeployTypeOK'
  BY DEF DeployTypeOK, FilesTyped, ProcessesTyped, ProcessTyped, RestTyped

LEMMA EndTyped ==
  ASSUME ProcessesTyped, NEW d \in Deployer, NEW s \in Ended, End(d, s)
  PROVE  ProcessesTyped'
  BY DeployAssumption DEF ProcessesTyped, ProcessTyped, End, Ended, Stage, Due

LEMMA GotoTyped ==
  ASSUME ProcessesTyped, NEW d \in Deployer,
         stage[d] \in {"confirm", "remove", "removing", "reload"},
         NEW s \in {"remove", "removing", "directories", "enable"}, Goto(d, s)
  PROVE  ProcessesTyped'
  BY DEF ProcessesTyped, ProcessTyped, Goto, Ended, Stage, Due

LEMMA Follows ==
  /\ Following("begin") = "confirm" /\ Following("confirm") = "remove"
  /\ Following("removing") = "directories"
  BY DEF Following

(***************************************************************************)
(* Types.                                                                  *)
(***************************************************************************)
LEMMA InitTyped == DeployInit => DeployTypeOK
  <1> SUFFICES ASSUME DeployInit PROVE DeployTypeOK
    OBVIOUS
  <1>1. ProcessesTyped
    BY DeployAssumption DEF DeployInit, ProcessesTyped, ProcessTyped, Ended, Stage, Due
  <1>2. CASE root \in {"absent", "symlink", "file"} /\ file = [f \in File |-> Absent]
             /\ loaded = Absent /\ wanted = FALSE /\ served = Absent
    <2>1. FilesTyped(file)
      BY <1>2, FileNames DEF FilesTyped
    <2>2. RestTyped
      BY <1>2 DEF DeployInit, RestTyped
    <2>3. QED
      BY <1>1, <2>1, <2>2, TypeParts
  <1>3. ASSUME NEW a \in {b \in Answers : Accepted(b) /\ Buildable(b)}, NEW g \in Generation,
               LET old == [gen |-> g, answer |-> a] IN
               /\ root = "dir" /\ file = Installed(old)
               /\ loaded = (IF a.install THEN a.profile ELSE Absent) /\ wanted = a.install
               /\ served \in (IF a.install THEN {Absent, old} ELSE {Absent})
        PROVE  DeployTypeOK
    <2> DEFINE old == [gen |-> g, answer |-> a]
    <2>1. a \in Answer /\ old \in Plan
      BY DeployAssumption DEF Plan
    <2>2. a.profile \in {"generic", "hyprland"} /\ a.install \in BOOLEAN
      BY <2>1 DEF Answer
    <2>3. FilesTyped(file)
      BY <1>3, <2>1, InstalledTyped
    <2>4. RestTyped
      BY <1>3, <2>1, <2>2 DEF DeployInit, RestTyped
    <2>5. QED
      BY <1>1, <2>3, <2>4, TypeParts
  <1>4. QED
    BY <1>2, <1>3 DEF DeployInit

\* A step of one process.
Work(d) ==
  \/ Begin(d) \/ Confirm(d) \/ Remove(d) \/ Unlink(d) \/ Removed(d)
  \/ RemoveFails(d) \/ MakeDirectories(d) \/ DirectoriesFail(d) \/ Open(d)
  \/ OpenFails(d) \/ Replace(d) \/ WriteFails(d) \/ Dies(d) \/ Reload(d)
  \/ Enable(d) \/ SystemctlFails(d)
Service == DaemonStarts \/ DaemonDies \/ DaemonAdds \/ DaemonRemoves \/ DaemonRewrites

LEMMA BeginTyped ==
  ASSUME ProcessesTyped, NEW d \in Deployer, Begin(d)
  PROVE  ProcessesTyped'
  <1>1. Following("begin") = "confirm"
    BY Follows
  <1>2. ASSUME NEW a \in Answers, NEW g \in Generation,
               plan' = [plan EXCEPT ![d] = [gen |-> g, answer |-> a]]
        PROVE  plan' \in [Deployer -> Plan \cup {Absent}] /\ plan'[d] # Absent
    <2>1. [gen |-> g, answer |-> a] \in Plan
      BY DeployAssumption DEF Plan
    <2>2. QED
      BY <1>2, <2>1, DeployAssumption DEF ProcessesTyped
  <1>3. QED
    BY <1>1, <1>2 DEF ProcessesTyped, ProcessTyped, Begin, Ended, Stage, Due

LEMMA MakeDirectoriesTyped ==
  ASSUME ProcessesTyped, NEW d \in Deployer, MakeDirectories(d)
  PROVE  ProcessesTyped'
  <1>1. plan[d] \in Plan
    BY DEF ProcessesTyped, ProcessTyped, MakeDirectories, Ended
  <1>2. FilesOf(plan[d]) \in SUBSET File /\ FilesOf(plan[d]) # {}
    BY <1>1, PlanParts
  <1>3. goal[d] = Absent
    BY DEF ProcessesTyped, ProcessTyped, MakeDirectories, Due
  <1>4. QED
    BY <1>2, <1>3 DEF ProcessesTyped, ProcessTyped, MakeDirectories, Ended, Stage, Due

LEMMA OpenTyped ==
  ASSUME ProcessesTyped, NEW d \in Deployer, Open(d)
  PROVE  ProcessesTyped'
  BY DEF ProcessesTyped, ProcessTyped, Open, Due

LEMMA ReplaceTyped ==
  ASSUME ProcessesTyped, NEW d \in Deployer, Replace(d)
  PROVE  ProcessesTyped'
  <1>1. CASE todo[d] # {goal[d]}
    BY <1>1 DEF ProcessesTyped, ProcessTyped, Replace, Due
  <1>2. CASE todo[d] = {goal[d]} /\ plan[d].answer.install
    BY <1>2 DEF ProcessesTyped, ProcessTyped, Replace, Due, Ended, Stage
  <1>3. CASE todo[d] = {goal[d]} /\ ~plan[d].answer.install
    BY <1>3, EndTyped DEF Replace, Ended
  <1>4. QED
    BY <1>1, <1>2, <1>3

LEMMA WorkTyped ==
  ASSUME ProcessesTyped, NEW d \in Deployer, Work(d)
  PROVE  ProcessesTyped'
  <1>1. CASE Confirm(d)
    BY <1>1, Follows, EndTyped, GotoTyped DEF Confirm, Ended
  <1>2. CASE Remove(d)
    BY <1>2, Follows, EndTyped, GotoTyped DEF Remove, Ended
  <1>3. CASE Removed(d)
    BY <1>3, Follows, GotoTyped DEF Removed
  <1>4. CASE Unlink(d)
    BY <1>4 DEF Unlink, process, ProcessesTyped, ProcessTyped, Due
  <1>5. CASE Reload(d)
    BY <1>5, GotoTyped DEF Reload
  <1>6. CASE \/ RemoveFails(d) \/ DirectoriesFail(d) \/ OpenFails(d) \/ WriteFails(d)
             \/ Dies(d) \/ Enable(d) \/ SystemctlFails(d)
    BY <1>6, EndTyped DEF RemoveFails, DirectoriesFail, OpenFails, WriteFails, Dies, Enable,
                          SystemctlFails, Ended
  <1>7. QED
    BY <1>1, <1>2, <1>3, <1>4, <1>5, <1>6, BeginTyped, MakeDirectoriesTyped, OpenTyped,
       ReplaceTyped DEF Work

LEMMA WorkingPlan ==
  ASSUME ProcessesTyped, NEW d \in Deployer, stage[d] \notin Ended
  PROVE  plan[d] \in Plan
  BY DEF ProcessesTyped, ProcessTyped

LEMMA FilesStayTyped ==
  ASSUME DeployTypeOK, NEW d \in Deployer, Work(d)
  PROVE  FilesTyped(file')
  <1>1. CASE Unlink(d)
    BY <1>1, TypeParts, RemovedTyped DEF Unlink
  <1>2. CASE Replace(d)
    <2>1. goal[d] \in File /\ plan[d] \in Plan
      BY <1>2, TypeParts, WorkingPlan DEF Replace, ProcessesTyped, Ended
    <2>2. QED
      BY <1>2, <2>1, TypeParts, WrittenTyped DEF Replace
  <1>3. CASE ~Unlink(d) /\ ~Replace(d)
    <2>1. file' = file
      BY <1>3 DEF Work, Begin, Confirm, Remove, Removed, RemoveFails, MakeDirectories,
                  DirectoriesFail, Open, OpenFails, WriteFails, Dies, Reload, Enable,
                  SystemctlFails, disk
    <2>2. QED
      BY <2>1, TypeParts
  <1>4. QED
    BY <1>1, <1>2, <1>3

LEMMA ChangedTyped ==
  ASSUME changed \subseteq Deployer, NEW d \in Deployer, Work(d)
  PROVE  changed' \subseteq Deployer
  BY DEF Work, Begin, Confirm, Remove, Unlink, Removed, RemoveFails, MakeDirectories,
         DirectoriesFail, Open, OpenFails, Replace, WriteFails, Dies, Reload, Enable,
         SystemctlFails, End, Touch, history

LEMMA TempTyped ==
  ASSUME DeployTypeOK, NEW d \in Deployer, Work(d)
  PROVE  temp' \subseteq {Stem(f) : f \in File} \X Deployer
  <1>1. temp \subseteq {Stem(f) : f \in File} \X Deployer
    BY TypeParts DEF RestTyped
  <1>2. CASE Open(d)
    <2>1. PICK f \in Due(d) : temp' = temp \cup {<<Stem(f), d>>}
      BY <1>2 DEF Open
    <2>2. f \in File
      BY <2>1, TypeParts DEF Due, ProcessesTyped
    <2>3. QED
      BY <1>1, <2>1, <2>2
  <1>3. CASE ~Open(d)
    <2>1. temp' \subseteq temp
      BY <1>3 DEF Work, Begin, Confirm, Remove, Unlink, Removed, RemoveFails, MakeDirectories,
                  DirectoriesFail, OpenFails, Replace, RenamedFrom, WriteFails, Dies, Reload,
                  Enable, SystemctlFails, disk
    <2>2. QED
      BY <1>1, <2>1
  <1>4. QED
    BY <1>2, <1>3

LEMMA RestStaysTyped ==
  ASSUME DeployTypeOK, NEW d \in Deployer, Work(d)
  PROVE  RestTyped'
  <1>1. RestTyped /\ file["unit"] \in {"generic", "hyprland", Absent}
    BY TypeParts DEF FilesTyped
  <1>2. root' \in {"absent", "dir", "symlink", "file"} /\ dirty' \in BOOLEAN
    BY <1>1 DEF Work, Begin, Confirm, Remove, Unlink, Removed, RemoveFails, MakeDirectories,
         DirectoriesFail, RootFor, Open, OpenFails, Replace, WriteFails, Dies, Reload, Enable,
         SystemctlFails, disk, history, RestTyped
  <1>3. /\ loaded' \in {"generic", "hyprland", Absent} /\ wanted' \in BOOLEAN
        /\ served' \in Plan \cup {Absent}
    BY <1>1 DEF Work, Begin, Confirm, Remove, Unlink, Removed, RemoveFails, MakeDirectories,
         DirectoriesFail, Open, OpenFails, Replace, WriteFails, Dies, Reload, Enable,
         SystemctlFails, service, RestTyped
  <1>4. QED
    BY <1>1, <1>2, <1>3, TempTyped, ChangedTyped DEF RestTyped

LEMMA ServiceTyped ==
  ASSUME DeployTypeOK, Service
  PROVE  DeployTypeOK'
  <1>1. FilesTyped(file) /\ ProcessesTyped /\ RestTyped
    BY TypeParts
  <1>2. ProcessesTyped'
    BY <1>1 DEF Service, DaemonStarts, DaemonDies, DaemonAdds, DaemonRemoves, DaemonRewrites,
         Persist, process, ProcessesTyped, ProcessTyped, Due
  <1>3. CASE DaemonStarts \/ DaemonDies
    <2>1. FilesTyped(file') /\ RestTyped'
      BY <1>1, <1>3 DEF DaemonStarts, DaemonDies, disk, history, RestTyped, FilesTyped, Loads
    <2>2. QED
      BY <1>2, <2>1, TypePartsNext
  <1>4. ASSUME NEW p \in Plan, Persist(p), root' \in {root, "dir"}, FilesTyped(file')
        PROVE  DeployTypeOK'
    <2>1. RestTyped'
      BY <1>1, <1>4 DEF Persist, RestTyped
    <2>2. QED
      BY <1>2, <1>4, <2>1, TypePartsNext
  <1>5. CASE DaemonAdds
    <2>1. PICK n \in Target \ served.answer.targets :
            LET p == Retargeted(served, served.answer.targets \cup {n}) IN
            Persist(p) /\ file' = [file EXCEPT ![n] = "present", !["toml"] = p]
      BY <1>5 DEF DaemonAdds
    <2>2. served \in Plan
      BY <1>1, <1>5 DEF DaemonAdds, RestTyped
    <2>3. Retargeted(served, served.answer.targets \cup {n}) \in Plan
      BY <2>2, PlanParts, RetargetedPlan
    <2>4. FilesTyped(file')
      BY <1>1, <2>1, <2>3, DaemonWriteTyped
    <2>5. QED
      BY <1>4, <1>5, <2>1, <2>3, <2>4 DEF DaemonAdds
  <1>6. CASE DaemonRemoves
    <2>1. PICK n \in served.answer.targets :
            LET p == Retargeted(served, served.answer.targets \ {n}) IN
            Persist(p) /\ file' = [file EXCEPT ![n] = Absent, !["toml"] = p]
      BY <1>6 DEF DaemonRemoves
    <2>2. served \in Plan
      BY <1>1, <1>6 DEF DaemonRemoves, RestTyped
    <2>3. n \in Target /\ Retargeted(served, served.answer.targets \ {n}) \in Plan
      BY <2>1, <2>2, PlanParts, RetargetedPlan
    <2>4. FilesTyped(file')
      BY <1>1, <2>1, <2>3, DaemonWriteTyped
    <2>5. QED
      BY <1>4, <1>6, <2>1, <2>3, <2>4 DEF DaemonRemoves
  <1>7. CASE DaemonRewrites
    <2>1. served \in Plan /\ Persist(served) /\ file' = [file EXCEPT !["toml"] = served]
      BY <1>1, <1>7 DEF DaemonRewrites, RestTyped
    <2>2. FilesTyped(file')
      BY <1>1, <2>1, FileNames DEF FilesTyped
    <2>3. QED
      BY <1>4, <1>7, <2>1, <2>2 DEF DaemonRewrites
  <1>8. QED
    BY <1>3, <1>5, <1>6, <1>7 DEF Service

LEMMA NextCases == DeployNext <=> (\E d \in Deployer : Work(d)) \/ Service
  BY DEF DeployNext, Work, Service

LEMMA TypeInductive == DeployTypeOK /\ [DeployNext]_deployVars => DeployTypeOK'
  <1> SUFFICES ASSUME DeployTypeOK, [DeployNext]_deployVars PROVE DeployTypeOK'
    OBVIOUS
  <1>1. ASSUME NEW d \in Deployer, Work(d) PROVE DeployTypeOK'
    <2>1. FilesTyped(file')
      BY <1>1, FilesStayTyped
    <2>2. ProcessesTyped'
      BY <1>1, TypeParts, WorkTyped
    <2>3. RestTyped'
      BY <1>1, RestStaysTyped
    <2>4. QED
      BY <2>1, <2>2, <2>3, TypePartsNext
  <1>2. CASE UNCHANGED deployVars
    BY <1>2 DEF deployVars, disk, process, service, history, DeployTypeOK, Due
  <1>3. QED
    BY <1>1, <1>2, ServiceTyped, NextCases

\* What a process holds is always consistent: it has a plan exactly while it works,
\* files to write exactly while it writes, and it writes none before those that
\* come earlier in apply_at - through every refusal, error and death.
THEOREM DeployTypes == DeploySpec => []DeployTypeOK
  BY InitTyped, TypeInductive, PTL DEF DeploySpec

(***************************************************************************)
(* Refusals.                                                               *)
(***************************************************************************)
\* Whoever may still refuse has changed nothing.
Innocent ==
  \A d \in Deployer : stage[d] \in {"confirm", "remove", "refused"} => d \notin changed

LEMMA InnocentInductive ==
  ASSUME DeployTypeOK, Innocent, [DeployNext]_deployVars
  PROVE  Innocent'
  <1>0. stage \in [Deployer -> Stage] /\ changed \subseteq Deployer
    BY DEF DeployTypeOK
  <1>1. ASSUME NEW d \in Deployer, Begin(d) PROVE Innocent'
    BY <1>0, <1>1 DEF Begin, Innocent
  <1>2. ASSUME NEW d \in Deployer, Confirm(d) \/ Remove(d) PROVE Innocent'
    BY <1>0, <1>2, Follows DEF Confirm, Remove, Goto, End, Innocent, history
  <1>3. ASSUME NEW d \in Deployer, Unlink(d) \/ Open(d) PROVE Innocent'
    BY <1>0, <1>3 DEF Unlink, Open, Touch, Innocent, process
  <1>4. ASSUME NEW d \in Deployer, Removed(d) PROVE Innocent'
    BY <1>0, <1>4, Follows DEF Removed, Goto, Touch, Innocent
  <1>5. ASSUME NEW d \in Deployer,
               RemoveFails(d) \/ DirectoriesFail(d) \/ OpenFails(d) \/ WriteFails(d) \/ Dies(d)
               \/ Enable(d) \/ SystemctlFails(d)
        PROVE  Innocent'
    <2>1. End(d, "ended")
      BY <1>5 DEF RemoveFails, DirectoriesFail, OpenFails, WriteFails, Dies, Enable, SystemctlFails
    <2>2. QED
      BY <1>0, <2>1 DEF End, Innocent
  <1>6. ASSUME NEW d \in Deployer, MakeDirectories(d) PROVE Innocent'
    BY <1>0, <1>6 DEF MakeDirectories, Touch, Innocent
  <1>7. ASSUME NEW d \in Deployer, Replace(d) PROVE Innocent'
    BY <1>0, <1>7 DEF Replace, Touch, End, Innocent
  <1>8. ASSUME NEW d \in Deployer, Reload(d) PROVE Innocent'
    BY <1>0, <1>8 DEF Reload, Goto, Innocent, history
  <1>9. CASE Service \/ UNCHANGED deployVars
    BY <1>9 DEF Service, DaemonStarts, DaemonDies, DaemonAdds, DaemonRemoves, DaemonRewrites,
                Persist, Innocent, deployVars, process, history
  <1>10. QED
    BY <1>1, <1>2, <1>3, <1>4, <1>5, <1>6, <1>7, <1>8, <1>9, NextCases DEF Work

\* "no files were changed" is true of every refusal, whichever question it comes
\* from and whatever other processes do meanwhile (DeployError, main.rs:58-91).
THEOREM RefusalsAreHarmless == DeploySpec => []RefusedUnchanged
  <1>1. DeployInit => Innocent
    BY DEF DeployInit, Innocent
  <1>2. DeployTypeOK /\ Innocent /\ [DeployNext]_deployVars => Innocent'
    BY InnocentInductive
  <1>3. Innocent => RefusedUnchanged
    BY DEF Innocent, RefusedUnchanged
  <1>4. QED
    BY <1>1, <1>2, <1>3, DeployTypes, PTL DEF DeploySpec

(***************************************************************************)
(* Temporary files.                                                        *)
(***************************************************************************)
\* Temporary files under the root that have process id d in their names.
RootTemps(d) == {x \in temp : x[2] = d /\ x[1] \in RootStem}

\* None without a root, none when a process comes to write, and then at most the
\* one it has open.
TempsClean ==
  /\ root # "dir" => \A d \in Deployer : RootTemps(d) = {}
  /\ \A d \in Deployer :
       /\ stage[d] = "directories" => RootTemps(d) = {}
       /\ stage[d] = "writing" =>
            RootTemps(d) \subseteq (IF goal[d] = Absent THEN {} ELSE {<<Stem(goal[d]), d>>})

LEMMA RootTempsShrink ==
  ASSUME temp' \subseteq temp, NEW d \in Deployer
  PROVE  RootTemps(d)' \subseteq RootTemps(d)
  BY DEF RootTemps

LEMMA TempsInductive ==
  ASSUME DeployTypeOK, TempsClean, [DeployNext]_deployVars
  PROVE  TempsClean'
  <1>0. /\ stage \in [Deployer -> Stage] /\ goal \in [Deployer -> File \cup {Absent}]
        /\ \A d \in Deployer : goal[d] # Absent => stage[d] = "writing"
    BY DEF DeployTypeOK, Due
  <1>1. ASSUME NEW d \in Deployer, End(d, "ended") \/ End(d, "refused"),
               temp' \subseteq temp, root' # "dir" => root # "dir"
        PROVE  TempsClean'
    <2>1. /\ stage'[d] \in {"ended", "refused"}
          /\ \A e \in Deployer \ {d} : stage'[e] = stage[e] /\ goal'[e] = goal[e]
      BY <1>0, <1>1 DEF End
    <2>2. QED
      BY <1>1, <2>1, RootTempsShrink DEF TempsClean
  <1>2. ASSUME NEW d \in Deployer, Begin(d) PROVE TempsClean'
    <2>1. temp' = temp /\ root' = root /\ goal' = goal
      BY <1>2 DEF Begin, disk
    <2>2. /\ stage'[d] \in {"refused", "directories", "confirm"}
          /\ stage'[d] = "directories" => root # "dir"
          /\ \A e \in Deployer \ {d} : stage'[e] = stage[e]
      BY <1>0, <1>2, Follows DEF Begin
    <2>3. QED
      BY <2>1, <2>2, RootTempsShrink DEF TempsClean
  <1>3. ASSUME NEW d \in Deployer, Confirm(d) \/ Remove(d), ~End(d, "refused")
        PROVE  TempsClean'
    <2>1. temp' = temp /\ root' = root /\ goal' = goal
      BY <1>3 DEF Confirm, Remove, Goto, disk
    <2>2. /\ stage'[d] \in {"remove", "directories", "removing"}
          /\ stage'[d] = "directories" => root # "dir"
          /\ \A e \in Deployer \ {d} : stage'[e] = stage[e]
      BY <1>0, <1>3, Follows DEF Confirm, Remove, Goto
    <2>3. QED
      BY <2>1, <2>2, RootTempsShrink DEF TempsClean
  <1>4. ASSUME NEW d \in Deployer, Removed(d) PROVE TempsClean'
    <2>1. \A e \in Deployer : RootTemps(e)' = {}
      BY <1>4 DEF Removed, RootTemps
    <2>2. QED
      BY <2>1 DEF TempsClean
  <1>5. ASSUME NEW d \in Deployer, MakeDirectories(d) PROVE TempsClean'
    <2>1. temp' = temp /\ root' = "dir" /\ goal' = goal
      BY <1>5 DEF MakeDirectories
    <2>2. /\ stage[d] = "directories" /\ stage'[d] = "writing"
          /\ \A e \in Deployer \ {d} : stage'[e] = stage[e]
      BY <1>0, <1>5 DEF MakeDirectories
    <2>3. QED
      BY <2>1, <2>2, RootTempsShrink DEF TempsClean
  <1>6. ASSUME NEW d \in Deployer, Open(d) PROVE TempsClean'
    <2>1. PICK f \in Due(d) : /\ f \in RootFile => root' = "dir"
                              /\ root' \in {root, "dir"}
                              /\ goal' = [goal EXCEPT ![d] = f]
                              /\ temp' = temp \cup {<<Stem(f), d>>}
      BY <1>6 DEF Open, RootFor
    <2>2. stage' = stage /\ stage[d] = "writing" /\ goal[d] = Absent
      BY <1>6 DEF Open
    <2>3. f \in File /\ f # Absent
      BY <2>1, DeployAssumption DEF Due, DeployTypeOK
    <2>4. f \notin RootFile => Stem(f) \notin RootStem
      BY <2>3, DeployAssumption DEF Stem, RootStem, RootFile, File
    <2>5. \A e \in Deployer \ {d} : RootTemps(e)' = RootTemps(e) /\ goal'[e] = goal[e]
      BY <1>0, <2>1 DEF RootTemps
    <2>6. RootTemps(d)' \subseteq RootTemps(d) \cup {<<Stem(f), d>>}
      BY <2>1 DEF RootTemps
    <2>7. goal'[d] = f
      BY <1>0, <2>1
    <2>8. root' # "dir" => RootTemps(d)' = {}
      BY <2>1, <2>4 DEF RootTemps, TempsClean
    <2>9. QED
      BY <2>1, <2>2, <2>3, <2>5, <2>6, <2>7, <2>8 DEF TempsClean
  <1>7. ASSUME NEW d \in Deployer, Replace(d) PROVE TempsClean'
    <2>1. /\ temp' = temp \ {<<Stem(goal[d]), d>>} /\ root' = root
          /\ stage[d] = "writing" /\ goal[d] # Absent
      BY <1>7 DEF Replace, RenamedFrom
    <2>2. /\ stage'[d] \in {"writing", "reload", "ended"}
          /\ \A e \in Deployer \ {d} : stage'[e] = stage[e] /\ goal'[e] = goal[e]
      BY <1>0, <1>7 DEF Replace, End
    <2>3. RootTemps(d)' = {}
      BY <2>1 DEF RootTemps, TempsClean
    <2>4. QED
      BY <2>1, <2>2, <2>3, RootTempsShrink DEF TempsClean
  <1>8. ASSUME NEW d \in Deployer, Unlink(d) \/ Reload(d) PROVE TempsClean'
    <2>1. temp' = temp /\ root' = root /\ goal' = goal
      BY <1>8 DEF Unlink, Reload, Goto, disk, process
    <2>2. \A e \in Deployer : stage'[e] \in {stage[e], "enable"}
      BY <1>0, <1>8 DEF Unlink, Reload, Goto, process
    <2>3. QED
      BY <2>1, <2>2, RootTempsShrink DEF TempsClean
  <1>9. CASE Service \/ UNCHANGED deployVars
    <2>1. temp' = temp /\ root' \in {root, "dir"} /\ stage' = stage /\ goal' = goal
      BY <1>9 DEF Service, DaemonStarts, DaemonDies, DaemonAdds, DaemonRemoves, DaemonRewrites,
                  Persist, deployVars, process, disk
    <2>2. QED
      BY <2>1, RootTempsShrink DEF TempsClean
  <1>10. ASSUME NEW d \in Deployer, Confirm(d) \/ Remove(d) PROVE TempsClean'
    <2>1. temp' = temp /\ root' = root
      BY <1>10 DEF Confirm, Remove, disk
    <2>2. CASE End(d, "refused")
      BY <1>1, <2>1, <2>2
    <2>3. CASE ~End(d, "refused")
      BY <1>3, <1>10, <2>3
    <2>4. QED
      BY <2>2, <2>3
  <1>11. ASSUME NEW d \in Deployer,
                \/ RemoveFails(d) \/ OpenFails(d) \/ WriteFails(d) \/ Dies(d) \/ Enable(d)
                \/ SystemctlFails(d) \/ DirectoriesFail(d)
         PROVE  TempsClean'
    <2>1. End(d, "ended") /\ temp' \subseteq temp /\ (root' # "dir" => root # "dir")
      BY <1>11 DEF RemoveFails, OpenFails, WriteFails, Dies, Enable, SystemctlFails,
                   DirectoriesFail, disk
    <2>2. QED
      BY <1>1, <2>1
  <1>12. QED
    BY <1>2, <1>4, <1>5, <1>6, <1>7, <1>8, <1>9, <1>10, <1>11, NextCases DEF Work

\* create_new under the configuration root never meets a temporary file of an
\* earlier attempt, although process ids come back (atomic_write, main.rs:416-442).
THEOREM RetriesSucceed == DeploySpec => []RetryNotBlocked
  <1>1. DeployInit => TempsClean
    BY DEF DeployInit, TempsClean, RootTemps
  <1>2. DeployTypeOK /\ TempsClean /\ [DeployNext]_deployVars => TempsClean'
    BY TempsInductive
  <1>3. DeployTypeOK /\ TempsClean => RetryNotBlocked
    <2> SUFFICES ASSUME TempsClean, NEW d \in Deployer, stage[d] = "writing", goal[d] = Absent,
                        NEW f \in RootFile, <<Stem(f), d>> \in temp
                 PROVE  FALSE
      BY DEF RetryNotBlocked
    <2>1. <<Stem(f), d>> \in RootTemps(d)
      BY DEF RootTemps, RootStem
    <2>2. QED
      BY <2>1 DEF TempsClean
  <1>4. QED
    BY <1>1, <1>2, <1>3, DeployTypes, PTL DEF DeploySpec

(***************************************************************************)
(* The unit.                                                               *)
(***************************************************************************)
\* What a process is through with is installed.
ProgramsWritten ==
  \A d \in Deployer : stage[d] = "writing" =>
    \A f \in FilesOf(plan[d]) \cap {"binary", "helper"} : f \in todo[d] \/ file[f] # Absent

LEMMA ProgramsKept ==
  ASSUME DeployTypeOK, UnitRunnable, file["binary"] # Absent => file'["binary"] # Absent,
         file["helper"] # Absent => file'["helper"] # Absent,
         file'["unit"] = file["unit"], loaded' \in {loaded, file["unit"]}
  PROVE  UnitRunnable'
  BY DEF UnitRunnable, Runnable

LEMMA UnitWritten ==
  ASSUME DeployTypeOK, ProgramsWritten, NEW d \in Deployer, stage[d] = "writing",
         goal[d] = "unit"
  PROVE  Runnable(plan[d].answer.profile)
  <1>1. plan[d] \in Plan /\ "unit" \in Due(d)
    BY DeployAssumption DEF DeployTypeOK, Ended, File
  <1>2. todo[d] \cap {"binary", "helper"} = {}
    BY <1>1, FileNames DEF Due, Earlier, RootFile
  <1>3. QED
    BY <1>1, <1>2, PlanParts DEF ProgramsWritten, Runnable

LEMMA UnitInductive ==
  ASSUME DeployTypeOK, ProgramsWritten, UnitRunnable, [DeployNext]_deployVars
  PROVE  ProgramsWritten' /\ UnitRunnable'
  <1>0. /\ stage \in [Deployer -> Stage] /\ todo \in [Deployer -> SUBSET File]
        /\ plan \in [Deployer -> Plan \cup {Absent}] /\ file = [f \in File |-> file[f]]
        /\ \A d \in Deployer : plan[d] = Absent <=> stage[d] \in Ended
    BY DEF DeployTypeOK
  <1>1. ASSUME \A f \in {"binary", "helper", "unit"} : file'[f] = file[f],
               loaded' \in {loaded, file["unit"]},
               \A d \in Deployer : stage'[d] = "writing" =>
                 stage[d] = "writing" /\ plan'[d] = plan[d] /\ todo'[d] = todo[d]
        PROVE  ProgramsWritten' /\ UnitRunnable'
    <2>1. UnitRunnable'
      BY <1>1, ProgramsKept
    <2>2. QED
      BY <1>1, <2>1 DEF ProgramsWritten, FilesOf
  <1>2. ASSUME NEW d \in Deployer, Replace(d) PROVE ProgramsWritten' /\ UnitRunnable'
    <2>1. /\ goal[d] \in File /\ plan[d] \in Plan
          /\ file' = [file EXCEPT ![goal[d]] = Content(goal[d], plan[d])]
          /\ loaded' = loaded
      BY <1>0, <1>2 DEF Replace, DeployTypeOK, Ended, service
    <2>2. Content(goal[d], plan[d]) # Absent
      BY <2>1, ContentTyped
    <2>3. \A f \in File : file[f] # Absent => file'[f] # Absent
      BY <1>0, <2>1, <2>2
    <2>4. ProgramsWritten'
      <3>1. \A e \in Deployer : stage'[e] = "writing" =>
              /\ stage[e] = "writing" /\ plan'[e] = plan[e]
              /\ todo'[e] = IF e = d THEN todo[e] \ {goal[d]} ELSE todo[e]
        BY <1>0, <1>2 DEF Replace, End
      <3>2. file'[goal[d]] # Absent
        BY <1>0, <2>1, <2>2
      <3>3. QED
        <4> SUFFICES ASSUME NEW e \in Deployer, stage'[e] = "writing",
                            NEW f \in FilesOf(plan'[e]) \cap {"binary", "helper"}
                     PROVE  f \in todo'[e] \/ file'[f] # Absent
          BY DEF ProgramsWritten
        <4>1. stage[e] = "writing" /\ f \in FilesOf(plan[e]) \cap {"binary", "helper"}
          BY <3>1
        <4>2. f \in todo[e] \/ file[f] # Absent
          BY <4>1 DEF ProgramsWritten
        <4>3. f \in File
          BY FileNames
        <4>4. QED
          BY <2>3, <3>1, <3>2, <4>2, <4>3
    <2>5. CASE goal[d] = "unit"
      <3>1. Runnable(plan[d].answer.profile)
        BY <1>2, <2>5, UnitWritten DEF Replace
      <3>2. file'["unit"] = plan[d].answer.profile
        BY <1>0, <2>1, <2>5, ContentTyped
      <3>3. QED
        BY <2>1, <2>3, <2>4, <3>1, <3>2, FileNames DEF UnitRunnable, Runnable
    <2>6. CASE goal[d] # "unit"
      <3>1. file'["unit"] = file["unit"]
        BY <1>0, <2>1, <2>6, FileNames
      <3>2. QED
        BY <2>1, <2>3, <2>4, <3>1, FileNames, ProgramsKept
    <2>7. QED
      BY <2>5, <2>6
  <1>3. ASSUME NEW d \in Deployer, MakeDirectories(d) PROVE ProgramsWritten' /\ UnitRunnable'
    <2>1. UnitRunnable'
      BY <1>3, ProgramsKept DEF MakeDirectories, service
    <2>2. /\ plan' = plan /\ todo'[d] = FilesOf(plan[d])
          /\ \A e \in Deployer \ {d} : stage'[e] = stage[e] /\ todo'[e] = todo[e]
      BY <1>0, <1>3 DEF MakeDirectories
    <2>3. file' = file
      BY <1>3 DEF MakeDirectories
    <2>4. QED
      BY <2>1, <2>2, <2>3 DEF ProgramsWritten
  <1>4. ASSUME NEW d \in Deployer, Unlink(d) PROVE ProgramsWritten' /\ UnitRunnable'
    <2>1. PICK f \in RootFile : file' = [file EXCEPT ![f] = Absent]
      BY <1>4 DEF Unlink
    <2>2. \A g \in {"binary", "helper", "unit"} : file'[g] = file[g]
      BY <1>0, <2>1, FileNames DEF RootFile
    <2>3. QED
      BY <1>1, <1>4, <2>2 DEF Unlink, process, service
  <1>5. ASSUME NEW d \in Deployer, Work(d), ~Replace(d), ~MakeDirectories(d), ~Unlink(d)
        PROVE  ProgramsWritten' /\ UnitRunnable'
    <2>1. file' = file /\ loaded' \in {loaded, file["unit"]}
      BY <1>5 DEF Work, Begin, Confirm, Remove, Removed, RemoveFails, DirectoriesFail, Open,
                  OpenFails, WriteFails, Dies, Reload, Enable, SystemctlFails, disk, service
    <2>2. \A e \in Deployer : stage'[e] = "writing" =>
            stage[e] = "writing" /\ plan'[e] = plan[e] /\ todo'[e] = todo[e]
      BY <1>0, <1>5, Follows
         DEF Work, Begin, Confirm, Remove, Removed, RemoveFails, DirectoriesFail, Open,
             OpenFails, WriteFails, Dies, Reload, Enable, SystemctlFails, Goto, End
    <2>3. QED
      BY <1>1, <2>1, <2>2
  <1>6. CASE Service \/ UNCHANGED deployVars
    <2>1. UNCHANGED <<stage, plan, todo, loaded>>
      BY <1>6 DEF Service, DaemonStarts, DaemonDies, DaemonAdds, DaemonRemoves, DaemonRewrites,
                  Persist, process, deployVars, service
    <2>2. \A g \in {"binary", "helper", "unit"} : file'[g] = file[g]
      <3>1. CASE DaemonStarts \/ DaemonDies \/ UNCHANGED deployVars
        BY <3>1 DEF DaemonStarts, DaemonDies, deployVars, disk
      <3>2. CASE DaemonAdds \/ DaemonRewrites
        BY <1>0, <3>2, FileNames DEF DaemonAdds, DaemonRewrites
      <3>3. CASE DaemonRemoves
        <4>1. served.answer.targets \subseteq Target
          BY <3>3, PlanParts DEF DaemonRemoves, DeployTypeOK
        <4>2. QED
          BY <1>0, <3>3, <4>1, FileNames DEF DaemonRemoves
      <3>4. QED
        BY <1>6, <3>1, <3>2, <3>3 DEF Service
    <2>3. QED
      BY <1>1, <2>1, <2>2
  <1>7. QED
    BY <1>2, <1>3, <1>4, <1>5, <1>6, NextCases

\* The unit on disk and the unit systemd has read never run a program that is not
\* installed: apply_at installs the binary and the helper before the unit, and no
\* removal of a root touches them (main.rs:259-293, install_service).
THEOREM UnitsRun == DeploySpec => []UnitRunnable
  <1>1. DeployInit => ProgramsWritten /\ UnitRunnable
    <2> SUFFICES ASSUME DeployInit PROVE ProgramsWritten /\ UnitRunnable
      OBVIOUS
    <2>1. ProgramsWritten
      BY DEF DeployInit, ProgramsWritten
    <2>2. CASE file = [f \in File |-> Absent] /\ loaded = Absent
      BY <2>1, <2>2, FileNames DEF UnitRunnable
    <2>3. ASSUME NEW a \in {b \in Answers : Accepted(b) /\ Buildable(b)}, NEW g \in Generation,
                 file = Installed([gen |-> g, answer |-> a]),
                 loaded = IF a.install THEN a.profile ELSE Absent
          PROVE  UnitRunnable
      <3> DEFINE old == [gen |-> g, answer |-> a]
      <3>1. old \in Plan /\ old.answer = a
        BY DeployAssumption DEF Plan
      <3>2. \A f \in File : file[f] = IF f \in FilesOf(old) THEN Content(f, old) ELSE Absent
        BY <2>3 DEF Installed
      <3>3. /\ file["unit"] = a.profile /\ file["binary"] # Absent
            /\ a.profile = "hyprland" => file["helper"] # Absent
        BY <3>1, <3>2, FileNames, PlanParts, ContentTyped
      <3>4. QED
        BY <2>3, <3>3 DEF UnitRunnable, Runnable
    <2>4. QED
      BY <2>1, <2>2, <2>3 DEF DeployInit
  <1>2. DeployTypeOK /\ ProgramsWritten /\ UnitRunnable /\ [DeployNext]_deployVars
          => ProgramsWritten' /\ UnitRunnable'
    BY UnitInductive
  <1>3. QED
    BY <1>1, <1>2, DeployTypes, PTL DEF DeploySpec

(***************************************************************************)
(* The configuration.                                                      *)
(***************************************************************************)
\* Plans can be built, an absent root is empty, and nothing under the root is left
\* to write once the configuration is written.
Ordered ==
  /\ \A d \in Deployer : plan[d] # Absent => Buildable(plan[d].answer)
  /\ root # "dir" => \A f \in RootFile : file[f] = Absent
  /\ \A d \in Deployer :
       stage[d] = "writing" /\ "toml" \notin todo[d] => todo[d] \cap RootFile = {}

\* The one process that writes finds what it has written, and no configuration yet.
Gathered(d) ==
  /\ file["toml"] = Absent
  /\ \A f \in {"crt", "key"} : f \in todo[d] \/ file[f] = plan[d]
  /\ \A n \in plan[d].answer.targets : n \in todo[d] \/ file[n] # Absent

OneWriter ==
  ~dirty =>
    /\ \A d, e \in Deployer : stage[d] = "writing" /\ stage[e] = "writing" => d = e
    /\ root = "absent" => \A d \in Deployer : stage[d] # "writing"
    /\ \A d \in Deployer : stage[d] = "writing" /\ "toml" \in todo[d] => Gathered(d)

LEMMA ReplaceFacts ==
  ASSUME DeployTypeOK, NEW d \in Deployer, Replace(d)
  PROVE  /\ stage[d] = "writing" /\ goal[d] \in Due(d) /\ goal[d] \in todo[d]
         /\ goal[d] \in File /\ plan[d] \in Plan /\ plan[d] # Absent
         /\ file' = [file EXCEPT ![goal[d]] = Content(goal[d], plan[d])]
         /\ root' = root /\ (goal[d] \in RootFile => root = "dir")
         /\ UNCHANGED <<loaded, wanted, served, dirty>>
         /\ \A e \in Deployer \ {d} : /\ stage'[e] = stage[e] /\ plan'[e] = plan[e]
                                      /\ todo'[e] = todo[e]
         /\ stage'[d] = "writing" => plan'[d] = plan[d] /\ todo'[d] = todo[d] \ {goal[d]}
         /\ plan'[d] \in {plan[d], Absent}
  BY DEF Replace, DeployTypeOK, Due, End, service, Ended

\* What comes after the configuration in apply_at is not under the root.
LEMMA AfterToml ==
  ASSUME DeployTypeOK, NEW d \in Deployer, "toml" \in Due(d)
  PROVE  (todo[d] \ {"toml"}) \cap RootFile = {}
  BY DEF Due, Earlier, RootFile

LEMMA OrderedInductive ==
  ASSUME DeployTypeOK, Ordered, [DeployNext]_deployVars
  PROVE  Ordered'
  <1>0. /\ stage \in [Deployer -> Stage] /\ todo \in [Deployer -> SUBSET File]
        /\ plan \in [Deployer -> Plan \cup {Absent}] /\ file = [f \in File |-> file[f]]
        /\ root \in {"absent", "dir", "symlink", "file"}
    BY DEF DeployTypeOK
  <1>1. ASSUME \A e \in Deployer : plan'[e] \in {plan[e], Absent},
               root' # "dir" => root # "dir" /\ \A f \in RootFile : file'[f] = file[f],
               \A e \in Deployer : stage'[e] = "writing" =>
                 stage[e] = "writing" /\ todo'[e] = todo[e]
        PROVE  Ordered'
    BY <1>1 DEF Ordered
  <1>2. ASSUME NEW d \in Deployer, Begin(d) PROVE Ordered'
    <2>1. root' = root /\ file' = file /\ todo' = todo
      BY <1>2 DEF Begin, disk
    <2>2. \A e \in Deployer : stage'[e] = "writing" => stage[e] = "writing"
      BY <1>0, <1>2, Follows DEF Begin
    <2>3. \A e \in Deployer : plan'[e] # Absent =>
            Buildable(plan'[e].answer)
      BY <1>0, <1>2 DEF Begin, Refuses, Ordered
    <2>4. QED
      BY <2>1, <2>2, <2>3 DEF Ordered
  <1>3. ASSUME NEW d \in Deployer, Removed(d) PROVE Ordered'
    <2>1. \A e \in Deployer : stage'[e] = "writing" => stage[e] = "writing"
      BY <1>0, <1>3, Follows DEF Removed, Goto
    <2>2. UNCHANGED <<plan, todo, file>> /\ \A f \in RootFile : file[f] = Absent
      BY <1>3 DEF Removed, Goto
    <2>3. QED
      BY <2>1, <2>2 DEF Ordered
  <1>4. ASSUME NEW d \in Deployer, MakeDirectories(d) PROVE Ordered'
    <2>1. /\ plan' = plan /\ root' = "dir" /\ todo'[d] = FilesOf(plan[d])
          /\ \A e \in Deployer \ {d} : stage'[e] = stage[e] /\ todo'[e] = todo[e]
      BY <1>0, <1>4 DEF MakeDirectories
    <2>2. "toml" \in FilesOf(plan[d])
      BY DEF FilesOf
    <2>3. QED
      BY <2>1, <2>2 DEF Ordered
  <1>5. ASSUME NEW d \in Deployer, Replace(d) PROVE Ordered'
    <2>1. root' # "dir" => root # "dir" /\ \A f \in RootFile : file'[f] = file[f]
      BY <1>0, <1>5, ReplaceFacts, FileNames
    <2>2. stage'[d] = "writing" /\ "toml" \notin todo'[d] => todo'[d] \cap RootFile = {}
      <3> SUFFICES ASSUME stage'[d] = "writing", "toml" \notin todo'[d]
                   PROVE  todo'[d] \cap RootFile = {}
        OBVIOUS
      <3>1. stage[d] = "writing" /\ todo'[d] = todo[d] \ {goal[d]}
        BY <1>5, ReplaceFacts
      <3>2. CASE "toml" \in todo[d]
        BY <1>5, <3>1, <3>2, ReplaceFacts, AfterToml
      <3>3. CASE "toml" \notin todo[d]
        BY <3>1, <3>3 DEF Ordered
      <3>4. QED
        BY <3>2, <3>3
    <2>3. QED
      BY <1>5, <2>1, <2>2, ReplaceFacts DEF Ordered
  <1>6. ASSUME NEW d \in Deployer, Work(d), ~Begin(d), ~Removed(d), ~MakeDirectories(d), ~Replace(d)
        PROVE  Ordered'
    <2>1. root' # "dir" => root # "dir" /\ \A f \in RootFile : file'[f] = file[f]
      BY <1>6 DEF Work, Confirm, Remove, Unlink, RemoveFails, DirectoriesFail, Open, RootFor,
                  OpenFails, WriteFails, Dies, Reload, Enable, SystemctlFails, disk
    <2>2. \A e \in Deployer : /\ plan'[e] \in {plan[e], Absent}
                              /\ stage'[e] = "writing" =>
                                   stage[e] = "writing" /\ todo'[e] = todo[e]
      BY <1>0, <1>6, Follows
         DEF Work, Confirm, Remove, Unlink, RemoveFails, DirectoriesFail, Open,
             OpenFails, WriteFails, Dies, Reload, Enable, SystemctlFails, Goto, End, process
    <2>3. QED
      BY <1>1, <2>1, <2>2
  <1>7. CASE Service \/ UNCHANGED deployVars
    <2>1. UNCHANGED <<stage, plan, todo>> /\ (root' # "dir" => root # "dir" /\ file' = file)
      BY <1>7 DEF Service, DaemonStarts, DaemonDies, DaemonAdds, DaemonRemoves, DaemonRewrites,
                  Persist, process, disk, deployVars
    <2>2. QED
      BY <1>1, <2>1
  <1>8. QED
    BY <1>2, <1>3, <1>4, <1>5, <1>6, <1>7, NextCases

WholeInv == Ordered /\ OneWriter /\ ConfigIsWhole

\* A step that writes nothing under the root and lets nobody begin to write.
LEMMA WholeKept ==
  ASSUME DeployTypeOK, WholeInv, dirty' = dirty, root' \in {root, "dir"},
         \A f \in RootFile : file'[f] = file[f],
         \A e \in Deployer : stage'[e] = "writing" =>
           /\ stage[e] = "writing" /\ plan'[e] = plan[e]
           /\ "toml" \in todo'[e] => /\ "toml" \in todo[e]
                                    /\ todo[e] \cap RootFile = todo'[e] \cap RootFile
  PROVE  OneWriter' /\ ConfigIsWhole'
  <1>1. \A f \in {"crt", "key", "toml"} : file'[f] = file[f]
    BY FileNames
  <1>2. ConfigIsWhole'
    <2>1. CASE ~dirty /\ file["toml"] # Absent
      <3>1. Whole /\ file["toml"] \in Plan
        BY <2>1 DEF WholeInv, ConfigIsWhole, DeployTypeOK
      <3>2. file["toml"].answer.targets \subseteq RootFile
        BY <3>1, PlanParts, FileNames
      <3>3. QED
        BY <1>1, <3>1, <3>2 DEF Whole, Loads, ConfigIsWhole
    <2>2. CASE dirty \/ file["toml"] = Absent
      BY <1>1, <2>2 DEF ConfigIsWhole
    <2>3. QED
      BY <2>1, <2>2
  <1>3. ASSUME ~dirty, NEW e \in Deployer, stage'[e] = "writing", "toml" \in todo'[e]
        PROVE  Gathered(e)'
    <2>1. Gathered(e) /\ plan'[e] = plan[e] /\ todo[e] \cap RootFile = todo'[e] \cap RootFile
      BY <1>3 DEF WholeInv, OneWriter
    <2>2. plan[e] \in Plan
      BY <1>3, WorkingPlan, TypeParts DEF Ended
    <2>3. plan[e].answer.targets \subseteq RootFile
      BY <2>2, PlanParts, FileNames
    <2>4. QED
      BY <1>1, <2>1, <2>3, FileNames DEF Gathered
  <1>4. OneWriter'
    BY <1>3 DEF OneWriter, WholeInv
  <1>5. QED
    BY <1>2, <1>4

LEMMA ReplaceWhole ==
  ASSUME DeployTypeOK, WholeInv, NEW d \in Deployer, Replace(d)
  PROVE  OneWriter' /\ ConfigIsWhole'
  <1>0. file = [f \in File |-> file[f]]
    BY DEF DeployTypeOK
  <1>1. CASE goal[d] \notin RootFile
    <2>1. \A f \in RootFile : file'[f] = file[f]
      BY <1>0, <1>1, ReplaceFacts, FileNames
    <2>2. QED
      BY <1>1, <2>1, ReplaceFacts, WholeKept, FileNames
  <1>2. CASE dirty
    BY <1>2, ReplaceFacts DEF OneWriter, ConfigIsWhole
  <1>3. CASE ~dirty /\ goal[d] \in RootFile
    <2> DEFINE f == goal[d]  p == plan[d]
    <2>1. /\ "toml" \in todo[d] /\ Gathered(d) /\ root = "dir"
          /\ \A e \in Deployer : stage[e] = "writing" => e = d
      BY <1>3, ReplaceFacts DEF WholeInv, Ordered, OneWriter
    <2>2. /\ \A g \in File \ {f} : file'[g] = file[g]
          /\ file'[f] = Content(f, p) /\ file'[f] # Absent /\ p \in Plan
      BY <1>0, ReplaceFacts, ContentTyped
    <2>3. p.answer.targets \subseteq File
      BY <2>2, PlanParts, FileNames
    <2>4. CASE f = "toml"
      <3>1. todo[d] \cap {"crt", "key"} = {} /\ todo[d] \cap Target = {}
        BY <2>4, ReplaceFacts DEF Due, Earlier, RootFile
      <3>2. file'["crt"] = p /\ file'["key"] = p /\ file'["toml"] = p
        BY <2>1, <2>2, <2>4, <3>1, ContentTyped, FileNames DEF Gathered
      <3>3. \A n \in p.answer.targets : file'[n] # Absent
        BY <2>1, <2>2, <2>3, <2>4, <3>1, PlanParts, FileNames DEF Gathered
      <3>4. Buildable(p.answer)
        BY <2>2, ReplaceFacts DEF WholeInv, Ordered
      <3>5. Whole'
        BY <2>1, <2>2, <3>2, <3>3, <3>4, ReplaceFacts, DeployAssumption
           DEF Whole, Loads, SamePair, Buildable, BuildFlaw
      <3>6. \A e \in Deployer : stage'[e] = "writing" => e = d /\ "toml" \notin todo'[e]
        BY <2>1, <2>4, ReplaceFacts
      <3>7. QED
        BY <2>1, <3>5, <3>6, ReplaceFacts DEF OneWriter, ConfigIsWhole
    <2>5. CASE f # "toml"
      <3>1. file'["toml"] = Absent
        BY <2>1, <2>2, <2>5, FileNames DEF Gathered
      <3>2. \A e \in Deployer : stage'[e] = "writing" => e = d
        BY <2>1, ReplaceFacts
      <3>3. ASSUME stage'[d] = "writing" PROVE Gathered(d)'
        <4>1. plan'[d] = p /\ todo'[d] = todo[d] \ {f}
          BY <3>3, ReplaceFacts
        <4>2. \A g \in {"crt", "key"} : g \in todo'[d] \/ file'[g] = p
          BY <2>1, <2>2, <4>1, ContentTyped, FileNames DEF Gathered
        <4>3. \A n \in p.answer.targets : n \in todo'[d] \/ file'[n] # Absent
          BY <2>1, <2>2, <2>3, <4>1 DEF Gathered
        <4>4. QED
          BY <3>1, <4>1, <4>2, <4>3 DEF Gathered
      <3>4. QED
        BY <2>1, <3>1, <3>2, <3>3, ReplaceFacts DEF OneWriter, ConfigIsWhole
    <2>6. QED
      BY <2>4, <2>5
  <1>4. QED
    BY <1>1, <1>2, <1>3, ReplaceFacts DEF DeployTypeOK

LEMMA MakeDirectoriesWhole ==
  ASSUME DeployTypeOK, WholeInv, NEW d \in Deployer, MakeDirectories(d)
  PROVE  OneWriter' /\ ConfigIsWhole'
  <1>1. CASE dirty'
    BY <1>1 DEF OneWriter, ConfigIsWhole
  <1>2. CASE ~dirty'
    <2>1. ~dirty /\ root = "absent" /\ root' = "dir" /\ file' = file /\ plan' = plan
      BY <1>2 DEF MakeDirectories
    <2>2. \A f \in RootFile : file[f] = Absent
      BY <2>1 DEF WholeInv, Ordered
    <2>3. /\ \A e \in Deployer : stage'[e] = "writing" => e = d
          /\ todo'[d] = FilesOf(plan[d])
      BY <2>1 DEF MakeDirectories, WholeInv, OneWriter, DeployTypeOK
    <2>4. Gathered(d)'
      BY <2>1, <2>2, <2>3, FileNames DEF Gathered, FilesOf
    <2>5. file'["toml"] = Absent
      BY <2>1, <2>2, FileNames
    <2>6. QED
      BY <2>1, <2>3, <2>4, <2>5 DEF OneWriter, ConfigIsWhole
  <1>3. QED
    BY <1>1, <1>2

LEMMA RemovedWhole ==
  ASSUME DeployTypeOK, NEW d \in Deployer, Removed(d)
  PROVE  OneWriter' /\ ConfigIsWhole'
  <1>1. file'["toml"] = Absent
    BY FileNames DEF Removed
  <1>2. ~dirty' => \A e \in Deployer : stage'[e] # "writing"
    BY Follows DEF Removed, Goto, DeployTypeOK
  <1>3. QED
    BY <1>1, <1>2 DEF OneWriter, ConfigIsWhole

\* A daemon that writes finds the configuration it serves, and it is whole.
LEMMA PersistWhole ==
  ASSUME DeployTypeOK, WholeInv, NEW p \in Plan, Persist(p), served \in Plan,
         p.gen = served.gen, p.answer.flaw = served.answer.flaw,
         p.answer.tls = served.answer.tls,
         root' = "dir", file'["toml"] = p,
         \A f \in {"crt", "key"} : file'[f] = file[f],
         \A n \in p.answer.targets :
           file'[n] # Absent \/ (n \in served.answer.targets /\ file'[n] = file[n])
  PROVE  OneWriter' /\ ConfigIsWhole'
  <1>1. CASE dirty'
    BY <1>1 DEF OneWriter, ConfigIsWhole
  <1>2. CASE ~dirty'
    <2>1. ~dirty /\ file["toml"] = served /\ file["toml"] # Absent
      BY <1>2, DeployAssumption DEF Persist
    <2>2. Whole
      BY <2>1 DEF WholeInv, ConfigIsWhole
    <2>3. Whole'
      BY <2>1, <2>2, DeployAssumption DEF Whole, Loads
    <2>4. UNCHANGED <<stage, plan, todo>>
      BY DEF Persist, process
    <2>5. \A e \in Deployer : stage[e] = "writing" => "toml" \notin todo[e]
      BY <2>1 DEF WholeInv, OneWriter, Gathered
    <2>6. QED
      BY <2>1, <2>3, <2>4, <2>5 DEF OneWriter, ConfigIsWhole, WholeInv
  <1>3. QED
    BY <1>1, <1>2 DEF DeployTypeOK

LEMMA ServiceWhole ==
  ASSUME DeployTypeOK, WholeInv, Service
  PROVE  OneWriter' /\ ConfigIsWhole'
  <1>0. file = [f \in File |-> file[f]]
    BY DEF DeployTypeOK
  <1>1. CASE DaemonStarts \/ DaemonDies
    BY <1>1, WholeKept DEF DaemonStarts, DaemonDies, disk, process, history
  <1>2. CASE DaemonAdds
    <2>1. PICK n \in Target \ served.answer.targets :
            LET p == Retargeted(served, served.answer.targets \cup {n}) IN
            Persist(p) /\ file' = [file EXCEPT ![n] = "present", !["toml"] = p]
      BY <1>2 DEF DaemonAdds
    <2>2. served \in Plan /\ root' = "dir"
      BY <1>2 DEF DaemonAdds, DeployTypeOK
    <2> DEFINE ts == served.answer.targets \cup {n}
    <2>3. ts \in SUBSET Target /\ served.answer.targets \in SUBSET Target
      BY <2>2, PlanParts
    <2>4. /\ file'["toml"] = Retargeted(served, ts) /\ file'[n] = "present"
          /\ \A f \in File \ {n, "toml"} : file'[f] = file[f]
      BY <1>0, <2>1, FileNames
    <2>5. \A k \in ts : file'[k] # Absent \/ (k \in served.answer.targets /\ file'[k] = file[k])
      <3>1. ASSUME NEW k \in ts, k # n PROVE k \in served.answer.targets /\ file'[k] = file[k]
        BY <2>3, <2>4, <3>1, FileNames
      <3>2. file'[n] # Absent
        BY <2>4, DeployAssumption
      <3>3. ASSUME NEW k \in ts
            PROVE  file'[k] # Absent \/ (k \in served.answer.targets /\ file'[k] = file[k])
        <4>1. CASE k = n
          BY <3>2, <4>1
        <4>2. CASE k # n
          BY <3>1, <4>2
        <4>3. QED
          BY <4>1, <4>2
      <3>4. QED
        BY <3>3
    <2>6. /\ Retargeted(served, ts) \in Plan /\ Retargeted(served, ts).gen = served.gen
          /\ Retargeted(served, ts).answer.targets = ts
          /\ Retargeted(served, ts).answer.flaw = served.answer.flaw
          /\ Retargeted(served, ts).answer.tls = served.answer.tls
      BY <2>2, <2>3, RetargetedPlan
    <2>7. \A f \in {"crt", "key"} : file'[f] = file[f]
      BY <2>3, <2>4, FileNames
    <2> HIDE DEF ts
    <2>8. QED
      BY <2>1, <2>2, <2>4, <2>5, <2>6, <2>7, PersistWhole DEF ts
  <1>3. CASE DaemonRemoves
    <2>1. PICK n \in served.answer.targets :
            LET p == Retargeted(served, served.answer.targets \ {n}) IN
            Persist(p) /\ file' = [file EXCEPT ![n] = Absent, !["toml"] = p]
      BY <1>3 DEF DaemonRemoves
    <2>2. served \in Plan /\ root' = "dir"
      BY <1>3 DEF DaemonRemoves, DeployTypeOK
    <2> DEFINE ts == served.answer.targets \ {n}
    <2>3. ts \in SUBSET Target /\ served.answer.targets \in SUBSET Target
      BY <2>2, PlanParts
    <2>4. /\ file'["toml"] = Retargeted(served, ts)
          /\ \A f \in File \ {n, "toml"} : file'[f] = file[f]
      BY <1>0, <2>1, <2>3, FileNames
    <2>5. \A k \in ts : k \in served.answer.targets /\ file'[k] = file[k]
      BY <2>3, <2>4, FileNames
    <2>6. /\ Retargeted(served, ts) \in Plan /\ Retargeted(served, ts).gen = served.gen
          /\ Retargeted(served, ts).answer.targets = ts
          /\ Retargeted(served, ts).answer.flaw = served.answer.flaw
          /\ Retargeted(served, ts).answer.tls = served.answer.tls
      BY <2>2, <2>3, RetargetedPlan
    <2>7. \A f \in {"crt", "key"} : file'[f] = file[f]
      BY <2>3, <2>4, FileNames
    <2> HIDE DEF ts
    <2>8. QED
      BY <2>1, <2>2, <2>4, <2>5, <2>6, <2>7, PersistWhole DEF ts
  <1>4. CASE DaemonRewrites
    <2>1. /\ served \in Plan /\ root' = "dir" /\ Persist(served)
          /\ file' = [file EXCEPT !["toml"] = served]
      BY <1>4 DEF DaemonRewrites, DeployTypeOK
    <2>2. /\ file'["toml"] = served
          /\ \A f \in File \ {"toml"} : file'[f] = file[f]
      BY <1>0, <2>1, FileNames
    <2>3. served.answer.targets \in SUBSET Target
      BY <2>1, PlanParts
    <2>4. QED
      BY <2>1, <2>2, <2>3, PersistWhole, FileNames
  <1>5. QED
    BY <1>1, <1>2, <1>3, <1>4 DEF Service

LEMMA WholeInductive ==
  ASSUME DeployTypeOK, WholeInv, [DeployNext]_deployVars
  PROVE  WholeInv'
  <1>1. Ordered'
    BY OrderedInductive DEF WholeInv
  <1>2. ASSUME NEW d \in Deployer, Unlink(d) PROVE OneWriter' /\ ConfigIsWhole'
    BY <1>2 DEF Unlink, OneWriter, ConfigIsWhole
  <1>3. ASSUME NEW d \in Deployer, Work(d), ~Unlink(d), ~Removed(d), ~MakeDirectories(d), ~Replace(d)
        PROVE  OneWriter' /\ ConfigIsWhole'
    <2>1. dirty' = dirty \/ DirectoriesFail(d)
      BY <1>3 DEF Work, Begin, Confirm, Remove, RemoveFails, Open, OpenFails, WriteFails,
                  Dies, Reload, Enable, SystemctlFails, history
    <2>2. file' = file /\ root' \in {root, "dir"}
      BY <1>3 DEF Work, Begin, Confirm, Remove, RemoveFails, DirectoriesFail, Open, OpenFails,
                  RootFor, WriteFails, Dies, Reload, Enable, SystemctlFails, disk
    <2>3. \A e \in Deployer : stage'[e] = "writing" =>
            stage[e] = "writing" /\ plan'[e] = plan[e] /\ todo'[e] = todo[e]
      BY <1>3, Follows
         DEF Work, Begin, Confirm, Remove, RemoveFails, DirectoriesFail, Open, OpenFails,
             WriteFails, Dies, Reload, Enable, SystemctlFails, Goto, End, DeployTypeOK
    <2>4. CASE dirty' = dirty
      BY <2>2, <2>3, <2>4, WholeKept
    <2>5. CASE dirty' /\ ~dirty
      BY <2>5 DEF OneWriter, ConfigIsWhole
    <2>6. QED
      BY <2>1, <2>4, <2>5 DEF DirectoriesFail, DeployTypeOK
  <1>4. CASE UNCHANGED deployVars
    <2>1. UNCHANGED <<root, file, stage, plan, todo, dirty>>
      BY <1>4 DEF deployVars, disk, process, history
    <2>2. QED
      BY <1>1, <2>1, WholeKept DEF WholeInv
  <1>5. QED
    BY <1>1, <1>2, <1>3, <1>4, ReplaceWhole, MakeDirectoriesWhole, RemovedWhole, ServiceWhole,
       NextCases DEF WholeInv

\* A configuration file that exists is one a daemon can start on, with every target's
\* directory in place, unless a removal stopped half way or two parties wrote into
\* one root: whatever failed, was refused or died before (apply_at, main.rs:180-293).
THEOREM DeploymentsAreWhole == DeploySpec => []ConfigIsWhole
  <1>1. DeployInit => WholeInv
    <2> SUFFICES ASSUME DeployInit PROVE WholeInv
      OBVIOUS
    <2>1. \A d \in Deployer : stage[d] = "ended" /\ plan[d] = Absent
      BY DEF DeployInit
    <2>2. CASE file = [f \in File |-> Absent]
      BY <2>1, <2>2, FileNames DEF WholeInv, Ordered, OneWriter, ConfigIsWhole
    <2>3. ASSUME NEW a \in {b \in Answers : Accepted(b) /\ Buildable(b)}, NEW g \in Generation,
                 root = "dir", file = Installed([gen |-> g, answer |-> a])
          PROVE  WholeInv
      <3> DEFINE old == [gen |-> g, answer |-> a]
      <3>1. old \in Plan /\ old.answer = a /\ old.gen = g
        BY DeployAssumption DEF Plan
      <3>2. \A f \in File : file[f] = IF f \in FilesOf(old) THEN Content(f, old) ELSE Absent
        BY <2>3 DEF Installed
      <3>3. file["crt"] = old /\ file["key"] = old /\ file["toml"] = old
        BY <3>1, <3>2, FileNames, PlanParts, ContentTyped
      <3>4. \A n \in a.targets : file[n] # Absent
        <4>1. a.targets \subseteq File /\ a.targets \subseteq FilesOf(old)
          BY <3>1, PlanParts, FileNames DEF FilesOf
        <4>2. QED
          BY <3>1, <3>2, <4>1, ContentTyped
      <3>5. Whole
        BY <2>3, <3>1, <3>3, <3>4, DeployAssumption
           DEF Whole, Loads, SamePair, Buildable, BuildFlaw
      <3>6. QED
        BY <2>1, <2>3, <3>5 DEF WholeInv, Ordered, OneWriter, ConfigIsWhole
    <2>4. QED
      BY <2>2, <2>3 DEF DeployInit
  <1>2. DeployTypeOK /\ WholeInv /\ [DeployNext]_deployVars => WholeInv'
    BY WholeInductive
  <1>3. WholeInv => ConfigIsWhole
    BY DEF WholeInv
  <1>4. QED
    BY <1>1, <1>2, <1>3, DeployTypes, PTL DEF DeploySpec
=============================================================================
