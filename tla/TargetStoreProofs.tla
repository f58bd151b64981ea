--------------------------- MODULE TargetStoreProofs ---------------------------
(***************************************************************************)
(* Proofs about TargetStore, for every set of names, tasks, processes and  *)
(* directory contents: its types, and that the configuration file is a     *)
(* TargetRegistry.                                                         *)
(***************************************************************************)
EXTENDS TargetStore, TLAPS

(***************************************************************************)
(* Configurations, and the ones a change builds of them.                   *)
(***************************************************************************)
LEMMA RegistryIntro ==
  ASSUME NEW K \in SUBSET Name, NEW f \in [K -> R!Entry]
  PROVE  f \in R!Registry
  BY DEF R!Registry

LEMMA RegistryElim ==
  ASSUME NEW f \in R!Registry
  PROVE  DOMAIN f \in SUBSET Name /\ f \in [DOMAIN f -> R!Entry]
  <1>1. PICK K \in SUBSET Name : f \in [K -> R!Entry]
    BY DEF R!Registry
  <1>2. QED
    BY <1>1

LEMMA AddedTypes ==
  ASSUME NEW ts \in R!Registry, NEW n \in Name, NEW e \in R!Entry
  PROVE  R!Added(ts, n, e) \in R!Registry
  <1>1. R!Added(ts, n, e) \in [DOMAIN ts \cup {n} -> R!Entry]
    BY RegistryElim DEF R!Added
  <1>2. DOMAIN ts \cup {n} \in SUBSET Name
    BY RegistryElim
  <1>3. QED
    BY <1>1, <1>2, RegistryIntro

LEMMA RemovedTypes ==
  ASSUME NEW ts \in R!Registry, NEW n \in Name
  PROVE  R!Removed(ts, n) \in R!Registry
  <1>1. R!Removed(ts, n) \in [DOMAIN ts \ {n} -> R!Entry]
    BY RegistryElim DEF R!Removed
  <1>2. DOMAIN ts \ {n} \in SUBSET Name
    BY RegistryElim
  <1>3. QED
    BY <1>1, <1>2, RegistryIntro

LEMMA RenamedTypes ==
  ASSUME NEW ts \in R!Registry, NEW n \in DOMAIN ts, NEW k \in Name
  PROVE  R!Renamed(ts, n, k) \in R!Registry
  <1>1. R!Renamed(ts, n, k) \in [(DOMAIN ts \ {n}) \cup {k} -> R!Entry]
    BY RegistryElim DEF R!Renamed
  <1>2. (DOMAIN ts \ {n}) \cup {k} \in SUBSET Name
    BY RegistryElim
  <1>3. QED
    BY <1>1, <1>2, RegistryIntro

LEMMA ChangedTypes ==
  ASSUME NEW ts \in R!Registry, NEW n \in DOMAIN ts
  PROVE  R!Changed(ts, n) \in R!Registry
  <1>1. ts \in [DOMAIN ts -> [data : Data, setting : BOOLEAN]]
    BY RegistryElim DEF R!Entry
  <1>2. [ts[n] EXCEPT !.setting = ~@] \in [data : Data, setting : BOOLEAN]
    BY <1>1
  <1>3. R!Changed(ts, n) \in [DOMAIN ts -> R!Entry]
    BY <1>1, <1>2 DEF R!Changed, R!Entry
  <1>4. QED
    BY <1>3, RegistryElim, RegistryIntro

\* us is ts after one add, remove, rename or change.
Proposal(ts, us) ==
  \/ \E n \in Name \ DOMAIN ts, e \in R!Entry :
       e.data \notin R!Owned(ts) /\ us = R!Added(ts, n, e)
  \/ \E n \in DOMAIN ts : us = R!Removed(ts, n)
  \/ \E n \in DOMAIN ts, k \in Name \ DOMAIN ts : us = R!Renamed(ts, n, k)
  \/ \E n \in DOMAIN ts : us = R!Changed(ts, n)

LEMMA ProposalIsNext ==
  ASSUME Proposal(file, file')
  PROVE  R!Next
  BY DEF Proposal, R!Next, R!Add, R!Remove, R!Rename, R!Change

(***************************************************************************)
(* The inductive invariant.                                                *)
(***************************************************************************)
\* Only the holder of the mutex is at work.
Exclusive == \A t \in Task : pc[t] # "idle" => mutations = t

\* What a task has in hand at each step of a change.
InHand(t) ==
  /\ pc[t] # "idle" => job[t] \in Job
  /\ pc[t] = "fill" => job[t].name \notin DOMAIN config
  /\ pc[t] \in {"persist", "write", "replace"} =>
       candidate[t] \in R!Registry /\ Proposal(config, candidate[t])
  /\ pc[t] = "replace" => temp[pid] = candidate[t]
  /\ pc[t] = "install" => candidate[t] = file

\* The file runs ahead of the memory between Replace and Install only.
Saved == (\A t \in Task : pc[t] # "install") => config = file

\* No later daemon finds a temporary file of its own.
Temps ==
  /\ pid \in used /\ \A p \in Pid \ used : temp[p] = None
  /\ "cleanup" \notin faults /\ (\A t \in Task : pc[t] \notin {"write", "replace"})
       => temp[pid] = None

StoreInv ==
  TypeOK /\ Exclusive /\ (\A t \in Task : InHand(t)) /\ Saved /\ Temps

LEMMA Alone ==
  ASSUME StoreInv, NEW t \in Task, pc[t] # "idle"
  PROVE  mutations = t /\ \A u \in Task \ {t} : pc[u] = "idle"
  BY DEF StoreInv, Exclusive

LEMMA Nobody ==
  ASSUME StoreInv, mutations = NoTask
  PROVE  config = file /\ \A u \in Task : pc[u] = "idle"
  BY StoreAssumption DEF StoreInv, Exclusive, Saved

(***************************************************************************)
(* How the control operators move the tasks.                               *)
(***************************************************************************)
ControlOK ==
  /\ mutations \in Task \cup {NoTask}
  /\ pc \in [Task -> Label] /\ job \in [Task -> Job \cup {NoJob}]

LEMMA BeginMoves ==
  ASSUME StoreInv, NEW t \in Task, NEW o \in {"add", "remove", "rename", "change"},
         NEW n \in Name, NEW m \in Name, NEW l \in Label, Begin(t, o, n, m, l)
  PROVE  /\ ControlOK' /\ Exclusive'
         /\ pc'[t] = l /\ job'[t] \in Job /\ job'[t].name = n
         /\ \A u \in Task \ {t} : pc'[u] = "idle"
         /\ config = file /\ \A u \in Task : pc[u] = "idle"
  <1>1. mutations = NoTask
    BY DEF Begin, Unlocked
  <1>2. config = file /\ \A u \in Task : pc[u] = "idle"
    BY <1>1, Nobody
  <1>3. [op |-> o, name |-> n, to |-> m] \in Job
    BY DEF Job
  <1>4. QED
    BY <1>2, <1>3 DEF StoreInv, TypeOK, Begin, ControlOK, Exclusive

LEMMA BeginJob ==
  ASSUME StoreInv, NEW t \in Task, NEW o \in {"add", "remove", "rename", "change"},
         NEW n \in Name, NEW m \in Name, NEW l \in Label, Begin(t, o, n, m, l)
  PROVE  /\ pc'[t] = l /\ job'[t] = [op |-> o, name |-> n, to |-> m]
         /\ \A u \in Task \ {t} : pc'[u] = "idle"
         /\ \A u \in Task : pc[u] = "idle"
  <1>1. \A u \in Task : pc[u] = "idle"
    BY Nobody DEF Begin, Unlocked
  <1>2. QED
    BY <1>1 DEF StoreInv, TypeOK, Begin

LEMMA GotoMoves ==
  ASSUME StoreInv, NEW t \in Task, pc[t] # "idle", NEW l \in Label, Goto(t, l)
  PROVE  /\ ControlOK' /\ Exclusive'
         /\ pc'[t] = l /\ job'[t] \in Job /\ job'[t] = job[t]
         /\ \A u \in Task \ {t} : pc'[u] = "idle" /\ pc[u] = "idle"
  <1>1. mutations = t /\ \A u \in Task \ {t} : pc[u] = "idle"
    BY Alone
  <1>2. QED
    BY <1>1 DEF StoreInv, TypeOK, InHand, Goto, ControlOK, Exclusive

LEMMA FinishMoves ==
  ASSUME StoreInv, NEW t \in Task, pc[t] # "idle", Finish(t)
  PROVE  /\ ControlOK' /\ Exclusive'
         /\ candidate' \in [Task -> R!Registry \cup {None}]
         /\ \A u \in Task : pc'[u] = "idle"
         /\ \A u \in Task \ {t} : pc[u] = "idle"
  <1>1. mutations = t /\ \A u \in Task \ {t} : pc[u] = "idle"
    BY Alone
  <1>2. "idle" \in Label
    BY DEF Label
  <1>3. QED
    BY <1>1, <1>2 DEF StoreInv, TypeOK, Finish, ControlOK, Exclusive

LEMMA ProposeTypes ==
  ASSUME StoreInv, NEW t \in Task, NEW ts \in R!Registry, Propose(t, ts)
  PROVE  candidate' \in [Task -> R!Registry \cup {None}] /\ candidate'[t] = ts
  BY DEF StoreInv, TypeOK, Propose

LEMMA DirsTypes ==
  ASSUME StoreInv, NEW n \in Name, NEW c \in Content
  PROVE  [dirs EXCEPT ![n] = c] \in [Name -> Content]
  BY DEF StoreInv, TypeOK

LEMMA RetiredTypes ==
  ASSUME StoreInv, NEW n \in Name, NEW c \in Content
  PROVE  [retired EXCEPT ![n][pid] = c] \in [Name -> [Pid -> Content]]
  BY DEF StoreInv, TypeOK

(***************************************************************************)
(* Every step of a change keeps the invariant.                             *)
(***************************************************************************)
LEMMA AddBeginsKeeps ==
  ASSUME StoreInv, NEW t \in Task, AddBegins(t)
  PROVE  StoreInv'
  <1>1. PICK n \in Vacant \ DOMAIN config :
          Begin(t, "add", n, n, "fill") /\ dirs' = [dirs EXCEPT ![n] = Partial]
    BY DEF AddBegins
  <1>2. n \in Name /\ "fill" \in Label
    BY <1>1 DEF Vacant, Label
  <1>3. /\ ControlOK' /\ Exclusive'
        /\ pc'[t] = "fill" /\ job'[t] \in Job /\ job'[t].name = n
        /\ \A u \in Task \ {t} : pc'[u] = "idle"
        /\ config = file /\ \A u \in Task : pc[u] = "idle"
    BY <1>1, <1>2, BeginMoves
  <1>4. dirs' \in [Name -> Content]
    BY <1>1 DEF StoreInv, TypeOK, Content
  <1>5. QED
    BY <1>1, <1>3, <1>4 DEF AddBegins, process, StoreInv, TypeOK, ControlOK, InHand, Saved, Temps

LEMMA AddFillsKeeps ==
  ASSUME StoreInv, NEW t \in Task, AddFills(t)
  PROVE  StoreInv'
  <1> DEFINE n == job[t].name
  <1>1. PICK d \in Fresh, s \in BOOLEAN :
          /\ dirs' = [dirs EXCEPT ![n] = d]
          /\ Propose(t, R!Added(config, n, [data |-> d, setting |-> s]))
    BY DEF AddFills
  <1>2. pc[t] = "fill" /\ n \in Name \ DOMAIN config
    BY DEF AddFills, StoreInv, InHand, Job
  <1>3. /\ ControlOK' /\ Exclusive'
        /\ pc'[t] = "persist" /\ job'[t] \in Job
        /\ \A u \in Task \ {t} : pc'[u] = "idle" /\ pc[u] = "idle"
    BY <1>2, GotoMoves DEF AddFills, Label
  <1>4. d \in Data /\ d \notin R!Owned(config)
    BY DEF Fresh
  <1>5. [data |-> d, setting |-> s] \in R!Entry
    BY <1>4 DEF R!Entry
  <1>6. R!Added(config, n, [data |-> d, setting |-> s]) \in R!Registry
    BY <1>2, <1>5, AddedTypes DEF StoreInv, TypeOK
  <1>7. /\ candidate' \in [Task -> R!Registry \cup {None}]
        /\ candidate'[t] \in R!Registry /\ Proposal(config, candidate'[t])
    BY <1>1, <1>2, <1>4, <1>5, <1>6, ProposeTypes DEF Proposal
  <1>8. dirs' \in [Name -> Content]
    BY <1>1, <1>4 DEF StoreInv, TypeOK, Content
  <1>9. (\A u \in Task : InHand(u))'
    BY <1>3, <1>7 DEF AddFills, InHand
  <1>10. QED
    BY <1>2, <1>3, <1>7, <1>8, <1>9
       DEF AddFills, process, StoreInv, TypeOK, ControlOK, Saved, Temps

LEMMA RemoveBeginsKeeps ==
  ASSUME StoreInv, NEW t \in Task, RemoveBegins(t)
  PROVE  StoreInv'
  <1>1. PICK n \in DOMAIN config :
          /\ Begin(t, "remove", n, n, "persist")
          /\ Propose(t, R!Removed(config, n))
          /\ IF dirs[n] = None
             THEN UNCHANGED <<dirs, retired>>
             ELSE /\ retired' = [retired EXCEPT ![n][pid] = dirs[n]]
                  /\ dirs' = [dirs EXCEPT ![n] = None]
    BY DEF RemoveBegins, Vacant
  <1>2. n \in Name /\ config \in R!Registry /\ "persist" \in Label
    BY <1>1, RegistryElim DEF StoreInv, TypeOK, Label, Vacant
  <1>3. /\ ControlOK' /\ Exclusive'
        /\ pc'[t] = "persist" /\ job'[t] \in Job
        /\ \A u \in Task \ {t} : pc'[u] = "idle"
        /\ config = file /\ \A u \in Task : pc[u] = "idle"
    BY <1>1, <1>2, BeginMoves
  <1>4. R!Removed(config, n) \in R!Registry /\ Proposal(config, R!Removed(config, n))
    BY <1>1, <1>2, RemovedTypes DEF Proposal, Vacant
  <1>5. /\ candidate' \in [Task -> R!Registry \cup {None}]
        /\ candidate'[t] \in R!Registry /\ Proposal(config, candidate'[t])
    BY <1>1, <1>4, ProposeTypes
  <1>6. dirs' \in [Name -> Content] /\ retired' \in [Name -> [Pid -> Content]]
    <2>1. dirs[n] \in Content /\ None \in Content
      BY <1>2 DEF StoreInv, TypeOK, Content
    <2>2. [retired EXCEPT ![n][pid] = dirs[n]] \in [Name -> [Pid -> Content]]
      BY <1>2, <2>1, RetiredTypes
    <2>3. [dirs EXCEPT ![n] = None] \in [Name -> Content]
      BY <1>2, <2>1, DirsTypes
    <2>4. QED
      BY <1>1, <2>2, <2>3 DEF StoreInv, TypeOK
  <1>7. (\A u \in Task : InHand(u))'
    BY <1>3, <1>5 DEF RemoveBegins, InHand
  <1>8. QED
    BY <1>3, <1>5, <1>6, <1>7 DEF RemoveBegins, process, StoreInv, TypeOK, ControlOK, Saved, Temps

LEMMA RenameBeginsKeeps ==
  ASSUME StoreInv, NEW t \in Task, RenameBegins(t)
  PROVE  StoreInv'
  <1>1. PICK n \in DOMAIN config, m \in Vacant \ DOMAIN config :
          /\ Begin(t, "rename", n, m, "persist")
          /\ Propose(t, R!Renamed(config, n, m))
          /\ dirs' = [dirs EXCEPT ![m] = dirs[n], ![n] = None]
    BY DEF RenameBegins, Vacant
  <1>2. n \in Name /\ m \in Name /\ config \in R!Registry /\ "persist" \in Label
    BY <1>1, RegistryElim DEF StoreInv, TypeOK, Label, Vacant
  <1>3. /\ ControlOK' /\ Exclusive'
        /\ pc'[t] = "persist" /\ job'[t] \in Job
        /\ \A u \in Task \ {t} : pc'[u] = "idle"
        /\ config = file /\ \A u \in Task : pc[u] = "idle"
    BY <1>1, <1>2, BeginMoves
  <1>4. R!Renamed(config, n, m) \in R!Registry /\ Proposal(config, R!Renamed(config, n, m))
    BY <1>1, <1>2, RenamedTypes DEF Proposal, Vacant
  <1>5. /\ candidate' \in [Task -> R!Registry \cup {None}]
        /\ candidate'[t] \in R!Registry /\ Proposal(config, candidate'[t])
    BY <1>1, <1>4, ProposeTypes
  <1>6. dirs' \in [Name -> Content]
    BY <1>1, <1>2 DEF StoreInv, TypeOK, Content
  <1>7. (\A u \in Task : InHand(u))'
    BY <1>3, <1>5 DEF RenameBegins, InHand
  <1>8. QED
    BY <1>3, <1>5, <1>6, <1>7 DEF RenameBegins, process, StoreInv, TypeOK, ControlOK, Saved, Temps

LEMMA ChangeBeginsKeeps ==
  ASSUME StoreInv, NEW t \in Task, ChangeBegins(t)
  PROVE  StoreInv'
  <1>1. PICK n \in DOMAIN config :
          /\ Begin(t, "change", n, n, "persist")
          /\ Propose(t, R!Changed(config, n))
    BY DEF ChangeBegins, Vacant
  <1>2. n \in Name /\ config \in R!Registry /\ "persist" \in Label
    BY <1>1, RegistryElim DEF StoreInv, TypeOK, Label, Vacant
  <1>3. /\ ControlOK' /\ Exclusive'
        /\ pc'[t] = "persist" /\ job'[t] \in Job
        /\ \A u \in Task \ {t} : pc'[u] = "idle"
        /\ config = file /\ \A u \in Task : pc[u] = "idle"
    BY <1>1, <1>2, BeginMoves
  <1>4. R!Changed(config, n) \in R!Registry /\ Proposal(config, R!Changed(config, n))
    BY <1>1, <1>2, ChangedTypes DEF Proposal, Vacant
  <1>5. /\ candidate' \in [Task -> R!Registry \cup {None}]
        /\ candidate'[t] \in R!Registry /\ Proposal(config, candidate'[t])
    BY <1>1, <1>4, ProposeTypes
  <1>6. UNCHANGED <<dirs, retired>>
    BY DEF ChangeBegins, disk
  <1>7. (\A u \in Task : InHand(u))'
    BY <1>3, <1>5 DEF ChangeBegins, disk, InHand
  <1>8. QED
    BY <1>3, <1>5, <1>6, <1>7 DEF ChangeBegins, disk, process, StoreInv, TypeOK, ControlOK, Saved, Temps

LEMMA AddFailsKeeps ==
  ASSUME StoreInv, NEW t \in Task, AddFails(t)
  PROVE  StoreInv'
  <1>1. /\ ControlOK' /\ Exclusive'
        /\ pc'[t] = "undo" /\ job'[t] \in Job
        /\ \A u \in Task \ {t} : pc'[u] = "idle" /\ pc[u] = "idle"
    BY GotoMoves DEF AddFails, Label
  <1>9. QED
    BY <1>1 DEF AddFails, disk, process, StoreInv, TypeOK, ControlOK, InHand, Saved, Temps

LEMMA CreateTempKeeps ==
  ASSUME StoreInv, NEW t \in Task, CreateTemp(t)
  PROVE  StoreInv'
  <1>1. /\ ControlOK' /\ Exclusive'
        /\ pc'[t] = "write" /\ job'[t] \in Job
        /\ \A u \in Task \ {t} : pc'[u] = "idle" /\ pc[u] = "idle"
    BY GotoMoves DEF CreateTemp, Label
  <1>2. temp' \in [Pid -> R!Registry \cup {None, Partial}]
    BY DEF CreateTemp, StoreInv, TypeOK
  <1>9. QED
    BY <1>1, <1>2 DEF CreateTemp, disk, process, StoreInv, TypeOK, ControlOK, InHand, Saved, Temps

LEMMA CreateFailsKeeps ==
  ASSUME StoreInv, NEW t \in Task, CreateFails(t)
  PROVE  StoreInv'
  <1>1. /\ ControlOK' /\ Exclusive'
        /\ pc'[t] = "undo" /\ job'[t] \in Job
        /\ \A u \in Task \ {t} : pc'[u] = "idle" /\ pc[u] = "idle"
    BY GotoMoves DEF CreateFails, Label
  <1>9. QED
    BY <1>1 DEF CreateFails, disk, process, StoreInv, TypeOK, ControlOK, InHand, Saved, Temps

LEMMA WriteKeeps ==
  ASSUME StoreInv, NEW t \in Task, Write(t)
  PROVE  StoreInv'
  <1>1. /\ ControlOK' /\ Exclusive'
        /\ pc'[t] = "replace" /\ job'[t] \in Job
        /\ \A u \in Task \ {t} : pc'[u] = "idle" /\ pc[u] = "idle"
    BY GotoMoves DEF Write, Label
  <1>2. /\ temp' \in [Pid -> R!Registry \cup {None, Partial}]
        /\ temp'[pid] = candidate[t]
    BY DEF Write, StoreInv, TypeOK
  <1>9. QED
    BY <1>1, <1>2 DEF Write, disk, process, StoreInv, TypeOK, ControlOK, InHand, Saved, Temps

LEMMA WriteFailsKeeps ==
  ASSUME StoreInv, NEW t \in Task, WriteFails(t)
  PROVE  StoreInv'
  <1>1. /\ ControlOK' /\ Exclusive'
        /\ pc'[t] = "undo" /\ job'[t] \in Job
        /\ \A u \in Task \ {t} : pc'[u] = "idle" /\ pc[u] = "idle"
    BY GotoMoves DEF WriteFails, Label
  <1>2. /\ temp' \in [Pid -> R!Registry \cup {None, Partial}]
        /\ \A p \in Pid : temp[p] = None => temp'[p] = None
    BY DEF WriteFails, Cleaned, StoreInv, TypeOK
  <1>3. temp'[pid] = None \/ "cleanup" \in faults'
    BY DEF WriteFails, Cleaned, StoreInv, TypeOK
  <1>9. QED
    BY <1>1, <1>2, <1>3 DEF WriteFails, disk, process, StoreInv, TypeOK, ControlOK, InHand, Saved, Temps

LEMMA ReplaceKeeps ==
  ASSUME StoreInv, NEW t \in Task, Replace(t)
  PROVE  StoreInv'
  <1>1. /\ ControlOK' /\ Exclusive'
        /\ pc'[t] = "install" /\ job'[t] \in Job
        /\ \A u \in Task \ {t} : pc'[u] = "idle" /\ pc[u] = "idle"
    BY GotoMoves DEF Replace, Label
  <1>2. file' = candidate[t] /\ candidate[t] \in R!Registry
    BY DEF Replace, StoreInv, InHand
  <1>3. /\ temp' \in [Pid -> R!Registry \cup {None, Partial}] /\ temp'[pid] = None
        /\ \A p \in Pid : temp[p] = None => temp'[p] = None
    BY DEF Replace, StoreInv, TypeOK
  <1>9. QED
    BY <1>1, <1>2, <1>3 DEF Replace, disk, process, StoreInv, TypeOK, ControlOK, InHand, Saved, Temps

LEMMA InstallKeeps ==
  ASSUME StoreInv, NEW t \in Task, Install(t)
  PROVE  StoreInv'
  <1>1. config' = file /\ pc[t] = "install"
    BY DEF Install, Installed, StoreInv, InHand
  <1>2. CASE Goto(t, "discard") /\ UNCHANGED candidate
    <2>1. /\ ControlOK' /\ Exclusive'
          /\ pc'[t] = "discard" /\ job'[t] \in Job
          /\ \A u \in Task \ {t} : pc'[u] = "idle" /\ pc[u] = "idle"
      BY <1>1, <1>2, GotoMoves DEF Label
    <2>2. QED
      BY <1>1, <1>2, <2>1 DEF Install, disk, process, StoreInv, TypeOK, ControlOK, InHand, Saved, Temps
  <1>3. CASE Finish(t)
    <2>1. /\ ControlOK' /\ Exclusive' /\ \A u \in Task : pc'[u] = "idle"
          /\ candidate' \in [Task -> R!Registry \cup {None}]
          /\ \A u \in Task \ {t} : pc[u] = "idle"
      BY <1>1, <1>3, FinishMoves
    <2>2. QED
      BY <1>1, <2>1 DEF Install, disk, process, StoreInv, TypeOK, ControlOK, InHand, Saved, Temps
  <1>4. QED
    BY <1>2, <1>3 DEF Install

LEMMA DiscardKeeps ==
  ASSUME StoreInv, NEW t \in Task, Discard(t)
  PROVE  StoreInv'
  <1>1. /\ ControlOK' /\ Exclusive' /\ \A u \in Task : pc'[u] = "idle"
        /\ candidate' \in [Task -> R!Registry \cup {None}]
        /\ \A u \in Task \ {t} : pc[u] = "idle"
    BY FinishMoves DEF Discard
  <1>2. job[t].name \in Name /\ {None, Partial} \subseteq Content
    BY DEF Discard, StoreInv, InHand, Job, Content
  <1>3. retired' \in [Name -> [Pid -> Content]]
    <2>1. \A c \in {None, Partial} :
            [retired EXCEPT ![job[t].name][pid] = c] \in [Name -> [Pid -> Content]]
      BY <1>2, RetiredTypes
    <2>2. QED
      BY <2>1 DEF Discard
  <1>9. QED
    BY <1>1, <1>3 DEF Discard, process, StoreInv, TypeOK, ControlOK, InHand, Saved, Temps

LEMMA UndoKeeps ==
  ASSUME StoreInv, NEW t \in Task, Undo(t)
  PROVE  StoreInv'
  <1>1. /\ ControlOK' /\ Exclusive' /\ \A u \in Task : pc'[u] = "idle"
        /\ candidate' \in [Task -> R!Registry \cup {None}]
        /\ \A u \in Task \ {t} : pc[u] = "idle"
    BY FinishMoves DEF Undo
  <1> DEFINE j == job[t]
  <1>2. j \in Job /\ j.name \in Name /\ j.to \in Name /\ None \in Content
    BY DEF Undo, StoreInv, InHand, Job, Content
  <1>3. dirs' \in [Name -> Content] /\ retired' \in [Name -> [Pid -> Content]]
    <2>1. dirs \in [Name -> Content] /\ retired \in [Name -> [Pid -> Content]] /\ pid \in Pid
      BY DEF StoreInv, TypeOK
    <2>2. dirs[j.to] \in Content /\ retired[j.name][pid] \in Content
      BY <1>2, <2>1
    <2>3. [dirs EXCEPT ![j.name] = None] \in [Name -> Content]
      BY <1>2, <2>1
    <2>4. [dirs EXCEPT ![j.name] = retired[j.name][pid]] \in [Name -> Content]
      BY <1>2, <2>1, <2>2
    <2>5. MovedBack(j) \in [Name -> Content]
      BY <1>2, <2>1, <2>2 DEF MovedBack
    <2>6. [retired EXCEPT ![j.name][pid] = None] \in [Name -> [Pid -> Content]]
      BY <1>2, RetiredTypes
    <2>7. QED
      BY <2>1, <2>3, <2>4, <2>5, <2>6 DEF Undo
  <1>9. QED
    BY <1>1, <1>3 DEF Undo, process, StoreInv, TypeOK, ControlOK, InHand, Saved, Temps

LEMMA UndoFailsKeeps ==
  ASSUME StoreInv, NEW t \in Task, UndoFails(t)
  PROVE  StoreInv'
  <1>1. /\ ControlOK' /\ Exclusive' /\ \A u \in Task : pc'[u] = "idle"
        /\ candidate' \in [Task -> R!Registry \cup {None}]
        /\ \A u \in Task \ {t} : pc[u] = "idle"
    BY FinishMoves DEF UndoFails
  <1>2. job[t].name \in Name /\ Partial \in Content
    BY DEF UndoFails, StoreInv, InHand, Job, Content
  <1>3. dirs' \in [Name -> Content]
    BY <1>2, DirsTypes DEF UndoFails, StoreInv, TypeOK
  <1>9. QED
    BY <1>1, <1>3 DEF UndoFails, process, StoreInv, TypeOK, ControlOK, InHand, Saved, Temps

LEMMA CrashKeeps ==
  ASSUME StoreInv, Crash
  PROVE  StoreInv'
  <1>1. PICK p \in Pid \ used : pid' = p /\ used' = used \cup {p}
    BY DEF Crash
  <1>2. \A t \in Task : pc'[t] = "idle" /\ "idle" \in Label
    BY DEF Crash, Label
  <1>3. QED
    BY <1>1, <1>2 DEF Crash, disk, Exclusive, StoreInv, TypeOK, ControlOK, InHand, Saved, Temps

LEMMA StoreStep ==
  ASSUME StoreInv, Next
  PROVE  StoreInv'
  <1>1. CASE Crash
    BY <1>1, CrashKeeps
  <1>2. ASSUME NEW t \in Task, Change(t)
        PROVE  StoreInv'
    BY <1>2, AddBeginsKeeps, AddFillsKeeps, AddFailsKeeps, RemoveBeginsKeeps,
       RenameBeginsKeeps, ChangeBeginsKeeps DEF Change
  <1>3. ASSUME NEW t \in Task, Persist(t)
        PROVE  StoreInv'
    BY <1>3, CreateTempKeeps, CreateFailsKeeps, WriteKeeps, WriteFailsKeeps,
       ReplaceKeeps DEF Persist
  <1>4. ASSUME NEW t \in Task, Complete(t)
        PROVE  StoreInv'
    BY <1>4, InstallKeeps, DiscardKeeps, UndoKeeps, UndoFailsKeeps DEF Complete
  <1>5. QED
    BY <1>1, <1>2, <1>3, <1>4 DEF Next

LEMMA StoreStutters ==
  ASSUME StoreInv, UNCHANGED vars
  PROVE  StoreInv'
  BY DEF vars, disk, process, control, Exclusive, StoreInv, TypeOK, ControlOK, InHand, Saved, Temps

LEMMA StoreInit ==
  ASSUME Init
  PROVE  StoreInv
  <1>1. file \in R!Registry
    BY DEF Init, R!Init
  <1>2. dirs \in [Name -> Content]
    BY <1>1, RegistryElim DEF Init, DirsOf, Content, R!Entry
  <1>3. QED
    BY <1>1, <1>2 DEF Init, Exclusive, Label, Content, StoreInv, TypeOK, ControlOK, InHand, Saved, Temps

LEMMA StoreHolds == Spec => []StoreInv
  BY StoreInit, StoreStep, StoreStutters, PTL DEF Spec

\* The configuration file is a complete configuration in every reachable state
\* (persist_config), and every other variable keeps to its set.
THEOREM StoreTyped == Spec => []TypeOK
  <1>1. StoreInv => TypeOK
    BY DEF StoreInv
  <1>2. QED
    BY <1>1, StoreHolds, PTL

\* Outside of a change inner.config is what the file says, whatever failed before.
THEOREM MemoryAlwaysFile == Spec => []MemoryIsFile
  <1>1. StoreInv => MemoryIsFile
    BY Nobody DEF MemoryIsFile
  <1>2. QED
    BY <1>1, StoreHolds, PTL

\* A daemon finds no temporary file in the way of persist_config, unless the
\* removal of one failed.
THEOREM TempAlwaysClean == Spec => []TempIsClean
  <1>1. StoreInv => TempIsClean
    BY Nobody DEF TempIsClean, StoreInv, Temps
  <1>2. QED
    BY <1>1, StoreHolds, PTL

(***************************************************************************)
(* The file implements the registry: Replace is an abstract step, every    *)
(* other step leaves the file alone.                                       *)
(***************************************************************************)
LEMMA ReplaceImplements ==
  ASSUME StoreInv, NEW t \in Task, Replace(t)
  PROVE  R!Next
  <1>1. pc[t] = "replace" /\ mutations = t /\ file' = temp[pid]
    BY Alone DEF Replace
  <1>2. \A u \in Task : pc[u] # "install"
    BY <1>1, Alone
  <1>3. config = file
    BY <1>2 DEF StoreInv, Saved
  <1>4. Proposal(file, file')
    BY <1>1, <1>3 DEF StoreInv, InHand
  <1>5. QED
    BY <1>4, ProposalIsNext

LEMMA OthersStutter ==
  ASSUME Next, \A t \in Task : ~Replace(t)
  PROVE  UNCHANGED file
  <1>1. CASE Crash
    BY <1>1 DEF Crash, disk
  <1>2. ASSUME NEW t \in Task, Change(t)
        PROVE  UNCHANGED file
    BY <1>2 DEF Change, AddBegins, AddFills, AddFails, RemoveBegins, RenameBegins,
                ChangeBegins, disk
  <1>3. ASSUME NEW t \in Task, Persist(t)
        PROVE  UNCHANGED file
    BY <1>3 DEF Persist, CreateTemp, CreateFails, Write, WriteFails, disk
  <1>4. ASSUME NEW t \in Task, Complete(t)
        PROVE  UNCHANGED file
    BY <1>4 DEF Complete, Install, Discard, Undo, UndoFails, disk
  <1>5. QED
    BY <1>1, <1>2, <1>3, <1>4 DEF Next

\* What a reader of the file sees is one complete add, remove, rename or change
\* at a time, across errors, crashes and concurrent requests (the `mutations`
\* mutex and persist_config).
THEOREM FileImplementsRegistry == Spec => FileIsRegistry
  <1>1. Init => R!Init
    BY DEF Init
  <1>2. StoreInv /\ [Next]_vars => [R!Next]_file
    <2>1. ASSUME StoreInv, Next
          PROVE  R!Next \/ UNCHANGED file
      BY <2>1, ReplaceImplements, OthersStutter
    <2>2. QED
      BY <2>1 DEF vars, disk
  <1>3. QED
    BY <1>1, <1>2, StoreHolds, PTL DEF Spec, FileIsRegistry, R!Spec

(***************************************************************************)
(* Directories: what the error path would make of them is what they were.  *)
(***************************************************************************)
LEMMA DirsOfAdded ==
  ASSUME NEW ts \in R!Registry, NEW n \in Name \ DOMAIN ts, NEW e \in R!Entry
  PROVE  DirsOf(R!Added(ts, n, e)) = [DirsOf(ts) EXCEPT ![n] = e.data]
  BY DEF DirsOf, R!Added

LEMMA DirsOfRemoved ==
  ASSUME NEW ts \in R!Registry, NEW n \in Name
  PROVE  DirsOf(R!Removed(ts, n)) = [DirsOf(ts) EXCEPT ![n] = None]
  BY DEF DirsOf, R!Removed

LEMMA DirsOfRenamed ==
  ASSUME NEW ts \in R!Registry, NEW n \in DOMAIN ts, NEW k \in Name \ DOMAIN ts
  PROVE  DirsOf(R!Renamed(ts, n, k))
           = [DirsOf(ts) EXCEPT ![k] = DirsOf(ts)[n], ![n] = None]
  <1>1. n \in Name /\ n # k
    BY RegistryElim
  <1>2. QED
    BY <1>1 DEF DirsOf, R!Renamed

LEMMA DirsOfChanged ==
  ASSUME NEW ts \in R!Registry, NEW n \in DOMAIN ts
  PROVE  DirsOf(R!Changed(ts, n)) = DirsOf(ts)
  <1>1. ts \in [DOMAIN ts -> [data : Data, setting : BOOLEAN]]
    BY RegistryElim DEF R!Entry
  <1>2. DOMAIN R!Changed(ts, n) = DOMAIN ts
    BY DEF R!Changed
  <1>3. \A m \in DOMAIN ts : R!Changed(ts, n)[m].data = ts[m].data
    BY <1>1 DEF R!Changed
  <1>4. QED
    BY <1>2, <1>3 DEF DirsOf

\* The directories after the error path of task t's change.
Before(t) ==
  CASE job[t].op = "add"    -> [dirs EXCEPT ![job[t].name] = None]
    [] job[t].op = "rename" -> MovedBack(job[t])
    [] job[t].op = "remove" /\ retired[job[t].name][pid] # None ->
         [dirs EXCEPT ![job[t].name] = retired[job[t].name][pid]]
    [] OTHER -> dirs

DirsOfTask(t) ==
  /\ pc[t] = "fill" => job[t].op = "add"
  /\ pc[t] \in {"fill", "persist", "write", "replace", "undo"} => Before(t) = DirsOf(config)
  /\ pc[t] \in {"persist", "write", "replace", "install"} => dirs = DirsOf(candidate[t])
  /\ pc[t] = "discard" => dirs = DirsOf(config)

DirsInv ==
  faults = {} =>
    /\ (\A t \in Task : pc[t] = "idle") => dirs = DirsOf(config)
    /\ \A t \in Task : DirsOfTask(t)

\* Steps between two calls of the same change.
LEMMA DirsQuiet ==
  ASSUME StoreInv, DirsInv, NEW t \in Task, NEW l \in Label, pc[t] # "idle", Goto(t, l),
         UNCHANGED <<dirs, retired, config, pid, candidate>>, faults' = {} => faults = {},
         \/ l = "undo" /\ pc[t] \in {"fill", "persist", "write", "replace"}
         \/ l \in {"write", "replace"} /\ pc[t] \in {"persist", "write"}
         \/ l = "install" /\ pc[t] = "replace"
  PROVE  DirsInv'
  <1>1. /\ pc'[t] = l /\ job'[t] = job[t]
        /\ \A u \in Task \ {t} : pc'[u] = "idle"
    BY GotoMoves
  <1>2. l # "idle" /\ Before(t)' = Before(t)
    BY <1>1 DEF Before, MovedBack
  <1>3. DirsOf(config)' = DirsOf(config) /\ DirsOf(candidate[t])' = DirsOf(candidate[t])
    BY DEF DirsOf
  <1>4. QED
    BY <1>1, <1>2, <1>3 DEF DirsInv, DirsOfTask

LEMMA DirsFinish ==
  ASSUME StoreInv, NEW t \in Task, pc[t] # "idle", Finish(t),
         faults' = {} => dirs' = DirsOf(config)'
  PROVE  DirsInv'
  BY FinishMoves DEF DirsInv, DirsOfTask

LEMMA DirsTyped ==
  ASSUME StoreInv
  PROVE  /\ config \in R!Registry /\ dirs \in [Name -> Content]
         /\ retired \in [Name -> [Pid -> Content]] /\ pid \in Pid
  BY DEF StoreInv, TypeOK

\* A change begins in a quiet state and has a way back to it.
LEMMA DirsBegin ==
  ASSUME StoreInv, DirsInv, NEW t \in Task, NEW l \in Label, l # "idle",
         \A u \in Task : pc[u] = "idle", pc'[t] = l,
         \A u \in Task \ {t} : pc'[u] = "idle",
         UNCHANGED <<config, faults>>,
         l \in {"fill", "persist"}, l = "fill" => job'[t].op = "add",
         dirs = DirsOf(config) => Before(t)' = dirs,
         l = "persist" /\ dirs = DirsOf(config) => dirs' = DirsOf(candidate[t])'
  PROVE  DirsInv'
  <1>1. DirsOf(config)' = DirsOf(config)
    BY DEF DirsOf
  <1>2. QED
    BY <1>1 DEF DirsInv, DirsOfTask

LEMMA AddBeginsDirs ==
  ASSUME StoreInv, DirsInv, NEW t \in Task, AddBegins(t)
  PROVE  DirsInv'
  <1>1. PICK n \in Vacant \ DOMAIN config :
          Begin(t, "add", n, n, "fill") /\ dirs' = [dirs EXCEPT ![n] = Partial]
    BY DEF AddBegins
  <1>2. n \in Name /\ dirs[n] = None /\ "fill" \in Label
    BY <1>1 DEF Vacant, Label
  <1>3. /\ pc'[t] = "fill" /\ job'[t] = [op |-> "add", name |-> n, to |-> n]
        /\ \A u \in Task \ {t} : pc'[u] = "idle"
        /\ \A u \in Task : pc[u] = "idle"
    BY <1>1, <1>2, BeginJob
  <1>4. Before(t)' = [dirs' EXCEPT ![n] = None]
    BY <1>3 DEF Before
  <1>5. Before(t)' = dirs
    BY <1>1, <1>2, <1>4, DirsTyped
  <1>6. UNCHANGED <<config, faults>>
    BY DEF AddBegins
  <1>7. QED
    BY <1>2, <1>3, <1>5, <1>6, DirsBegin

LEMMA RemoveBeginsDirs ==
  ASSUME StoreInv, DirsInv, NEW t \in Task, RemoveBegins(t)
  PROVE  DirsInv'
  <1>1. PICK n \in DOMAIN config :
          /\ Begin(t, "remove", n, n, "persist")
          /\ Propose(t, R!Removed(config, n))
          /\ IF dirs[n] = None
             THEN UNCHANGED <<dirs, retired>>
             ELSE /\ retired' = [retired EXCEPT ![n][pid] = dirs[n]]
                  /\ dirs' = [dirs EXCEPT ![n] = None]
    BY DEF RemoveBegins
  <1>2. n \in Name /\ "persist" \in Label
    BY <1>1, RegistryElim, DirsTyped DEF Label
  <1>3. /\ pc'[t] = "persist" /\ job'[t] = [op |-> "remove", name |-> n, to |-> n]
        /\ \A u \in Task \ {t} : pc'[u] = "idle"
        /\ \A u \in Task : pc[u] = "idle"
    BY <1>1, <1>2, BeginJob
  <1>4. UNCHANGED <<config, faults, pid>>
    BY DEF RemoveBegins, process
  <1>5. candidate'[t] = R!Removed(config, n)
    BY <1>1, <1>2, RemovedTypes, ProposeTypes, DirsTyped
  <1>6. ASSUME dirs = DirsOf(config)
        PROVE  dirs[n] \in Data /\ dirs[n] # None
    <2>1. config[n] \in R!Entry
      BY <1>1, RegistryElim, DirsTyped
    <2>2. dirs[n] = config[n].data
      BY <1>1, <1>2, <1>6 DEF DirsOf
    <2>3. QED
      BY <2>1, <2>2, StoreAssumption DEF R!Entry
  <1>7. ASSUME dirs = DirsOf(config)
        PROVE  Before(t)' = dirs
    <2>1. /\ retired' = [retired EXCEPT ![n][pid] = dirs[n]]
          /\ dirs' = [dirs EXCEPT ![n] = None]
      BY <1>1, <1>6, <1>7
    <2>2. retired'[n][pid'] = dirs[n]
      BY <1>2, <1>4, <2>1, DirsTyped
    <2>3. Before(t)' = [dirs' EXCEPT ![n] = dirs[n]]
      <3>1. job'[t].op = "remove" /\ job'[t].name = n
        BY <1>3
      <3>2. retired'[job'[t].name][pid'] # None
        BY <1>6, <1>7, <2>2, <3>1
      <3>3. QED
        BY <2>2, <3>1, <3>2 DEF Before
    <2>4. QED
      BY <1>2, <2>1, <2>3, DirsTyped
  <1>8. ASSUME dirs = DirsOf(config)
        PROVE  dirs' = DirsOf(candidate[t])'
    <2>1. DirsOf(candidate[t])' = DirsOf(R!Removed(config, n))
      BY <1>5 DEF DirsOf
    <2>2. DirsOf(R!Removed(config, n)) = [DirsOf(config) EXCEPT ![n] = None]
      BY <1>2, DirsOfRemoved, DirsTyped
    <2>3. QED
      BY <1>1, <1>6, <1>8, <2>1, <2>2
  <1>9. QED
    BY <1>2, <1>3, <1>4, <1>7, <1>8, DirsBegin

LEMMA RenameBeginsDirs ==
  ASSUME StoreInv, DirsInv, NEW t \in Task, RenameBegins(t)
  PROVE  DirsInv'
  <1>1. PICK n \in DOMAIN config, m \in Vacant \ DOMAIN config :
          /\ Begin(t, "rename", n, m, "persist")
          /\ Propose(t, R!Renamed(config, n, m))
          /\ dirs' = [dirs EXCEPT ![m] = dirs[n], ![n] = None]
    BY DEF RenameBegins
  <1>2. /\ n \in Name /\ m \in Name \ DOMAIN config /\ n # m /\ dirs[m] = None
        /\ "persist" \in Label
    BY <1>1, RegistryElim, DirsTyped DEF Label, Vacant
  <1>3. /\ pc'[t] = "persist" /\ job'[t] = [op |-> "rename", name |-> n, to |-> m]
        /\ \A u \in Task \ {t} : pc'[u] = "idle"
        /\ \A u \in Task : pc[u] = "idle"
    BY <1>1, <1>2, BeginJob
  <1>4. UNCHANGED <<config, faults>>
    BY DEF RenameBegins
  <1>5. candidate'[t] = R!Renamed(config, n, m)
    BY <1>1, <1>2, RenamedTypes, ProposeTypes, DirsTyped
  <1>6. Before(t)' = dirs
    <2>1. Before(t)' = [dirs' EXCEPT ![n] = dirs'[m], ![m] = None]
      BY <1>3 DEF Before, MovedBack
    <2>2. QED
      BY <1>1, <1>2, <2>1, DirsTyped
  <1>7. ASSUME dirs = DirsOf(config)
        PROVE  dirs' = DirsOf(candidate[t])'
    <2>1. DirsOf(candidate[t])' = DirsOf(R!Renamed(config, n, m))
      BY <1>5 DEF DirsOf
    <2>2. DirsOf(R!Renamed(config, n, m)) = [DirsOf(config) EXCEPT ![m] = DirsOf(config)[n], ![n] = None]
      BY <1>1, <1>2, DirsOfRenamed, DirsTyped
    <2>3. QED
      BY <1>1, <1>7, <2>1, <2>2
  <1>8. QED
    BY <1>2, <1>3, <1>4, <1>6, <1>7, DirsBegin

LEMMA ChangeBeginsDirs ==
  ASSUME StoreInv, DirsInv, NEW t \in Task, ChangeBegins(t)
  PROVE  DirsInv'
  <1>1. PICK n \in DOMAIN config :
          /\ Begin(t, "change", n, n, "persist")
          /\ Propose(t, R!Changed(config, n))
    BY DEF ChangeBegins
  <1>2. n \in Name /\ "persist" \in Label
    BY <1>1, RegistryElim, DirsTyped DEF Label
  <1>3. /\ pc'[t] = "persist" /\ job'[t] = [op |-> "change", name |-> n, to |-> n]
        /\ \A u \in Task \ {t} : pc'[u] = "idle"
        /\ \A u \in Task : pc[u] = "idle"
    BY <1>1, <1>2, BeginJob
  <1>4. UNCHANGED <<config, faults, dirs>>
    BY DEF ChangeBegins, disk
  <1>5. candidate'[t] = R!Changed(config, n)
    BY <1>1, <1>2, ChangedTypes, ProposeTypes, DirsTyped
  <1>6. Before(t)' = dirs
    BY <1>3, <1>4 DEF Before
  <1>7. DirsOf(candidate[t])' = DirsOf(config)
    <2>1. DirsOf(candidate[t])' = DirsOf(R!Changed(config, n))
      BY <1>5 DEF DirsOf
    <2>2. QED
      BY <1>1, <2>1, DirsOfChanged, DirsTyped
  <1>8. QED
    BY <1>2, <1>3, <1>4, <1>6, <1>7, DirsBegin

LEMMA AddFillsDirs ==
  ASSUME StoreInv, DirsInv, NEW t \in Task, AddFills(t)
  PROVE  DirsInv'
  <1> DEFINE n == job[t].name
  <1>1. PICK d \in Fresh, s \in BOOLEAN :
          /\ dirs' = [dirs EXCEPT ![n] = d]
          /\ Propose(t, R!Added(config, n, [data |-> d, setting |-> s]))
    BY DEF AddFills
  <1> DEFINE e == [data |-> d, setting |-> s]
  <1>2. pc[t] = "fill" /\ n \in Name \ DOMAIN config
    BY DEF AddFills, StoreInv, InHand, Job
  <1>3. /\ pc'[t] = "persist" /\ job'[t] = job[t]
        /\ \A u \in Task \ {t} : pc'[u] = "idle"
    BY <1>2, GotoMoves DEF AddFills, Label
  <1>4. e \in R!Entry /\ e.data = d
    BY DEF Fresh, R!Entry
  <1>5. R!Added(config, n, e) \in R!Registry
    BY <1>2, <1>4, AddedTypes, DirsTyped
  <1>6. candidate'[t] = R!Added(config, n, e)
    BY <1>1, <1>5, ProposeTypes
  <1>7. UNCHANGED <<config, faults, retired, pid>>
    BY DEF AddFills, process
  <1>8. ASSUME faults = {}
        PROVE  job[t].op = "add" /\ [dirs EXCEPT ![n] = None] = DirsOf(config)
    BY <1>2, <1>8 DEF DirsInv, DirsOfTask, Before
  <1>9. ASSUME faults = {}
        PROVE  Before(t)' = DirsOf(config)
    <2>1. Before(t)' = [dirs' EXCEPT ![n] = None]
      BY <1>3, <1>8, <1>9 DEF Before
    <2>2. [dirs' EXCEPT ![n] = None] = [dirs EXCEPT ![n] = None]
      BY <1>1, <1>2, DirsTyped
    <2>3. QED
      BY <1>8, <1>9, <2>1, <2>2
  <1>10. ASSUME faults = {}
         PROVE  dirs' = DirsOf(candidate[t])'
    <2>1. DirsOf(candidate[t])' = DirsOf(R!Added(config, n, e))
      BY <1>6 DEF DirsOf
    <2>2. DirsOf(R!Added(config, n, e)) = [DirsOf(config) EXCEPT ![n] = d]
      BY <1>2, <1>4, DirsOfAdded, DirsTyped
    <2>3. [[dirs EXCEPT ![n] = None] EXCEPT ![n] = d] = dirs'
      BY <1>1, <1>2, DirsTyped
    <2>4. QED
      BY <1>8, <1>10, <2>1, <2>2, <2>3
  <1>11. DirsOf(config)' = DirsOf(config)
    BY <1>7 DEF DirsOf
  <1>12. QED
    BY <1>3, <1>7, <1>9, <1>10, <1>11 DEF DirsInv, DirsOfTask

LEMMA InstallDirs ==
  ASSUME StoreInv, DirsInv, NEW t \in Task, Install(t)
  PROVE  DirsInv'
  <1>1. /\ pc[t] = "install" /\ config' = candidate[t]
        /\ UNCHANGED <<dirs, faults>>
    BY DEF Install, Installed, disk
  <1>2. ASSUME faults = {}
        PROVE  dirs' = DirsOf(config)'
    <2>1. dirs = DirsOf(candidate[t])
      BY <1>1, <1>2 DEF DirsInv, DirsOfTask
    <2>2. DirsOf(config)' = DirsOf(candidate[t])
      BY <1>1 DEF DirsOf
    <2>3. QED
      BY <1>1, <2>1, <2>2
  <1>3. CASE Goto(t, "discard")
    <2>1. /\ pc'[t] = "discard"
          /\ \A u \in Task \ {t} : pc'[u] = "idle"
      BY <1>1, <1>3, GotoMoves DEF Label
    <2>2. QED
      BY <1>1, <1>2, <2>1 DEF DirsInv, DirsOfTask
  <1>4. CASE Finish(t)
    BY <1>1, <1>2, <1>4, DirsFinish
  <1>5. QED
    BY <1>3, <1>4 DEF Install

LEMMA DiscardDirs ==
  ASSUME StoreInv, DirsInv, NEW t \in Task, Discard(t)
  PROVE  DirsInv'
  <1>1. pc[t] = "discard" /\ Finish(t) /\ UNCHANGED <<dirs, config, faults>>
    BY DEF Discard
  <1>2. DirsOf(config)' = DirsOf(config)
    BY <1>1 DEF DirsOf
  <1>3. faults' = {} => dirs' = DirsOf(config)'
    BY <1>1, <1>2 DEF DirsInv, DirsOfTask
  <1>4. QED
    BY <1>1, <1>3, DirsFinish

LEMMA UndoDirs ==
  ASSUME StoreInv, DirsInv, NEW t \in Task, Undo(t)
  PROVE  DirsInv'
  <1>1. pc[t] = "undo" /\ Finish(t) /\ UNCHANGED <<config, faults>>
    BY DEF Undo
  <1>2. dirs' = Before(t)
    <2> DEFINE j == job[t]
    <2>1. CASE j.op = "add"
      BY <2>1 DEF Undo, Before
    <2>2. CASE j.op = "rename"
      BY <2>2 DEF Undo, Before
    <2>3. CASE j.op = "remove" /\ retired[j.name][pid] # None
      BY <2>3 DEF Undo, Before
    <2>4. CASE /\ j.op # "add" /\ j.op # "rename"
               /\ ~(j.op = "remove" /\ retired[j.name][pid] # None)
      BY <2>4 DEF Undo, Before
    <2>5. QED
      BY <2>1, <2>2, <2>3, <2>4
  <1>3. DirsOf(config)' = DirsOf(config)
    BY <1>1 DEF DirsOf
  <1>4. faults' = {} => dirs' = DirsOf(config)'
    BY <1>1, <1>2, <1>3 DEF DirsInv, DirsOfTask
  <1>5. QED
    BY <1>1, <1>4, DirsFinish

LEMMA CrashDirs ==
  ASSUME StoreInv, DirsInv, Crash
  PROVE  DirsInv'
  <1>1. (\A t \in Task : pc'[t] = "idle") /\ UNCHANGED dirs
    BY DEF Crash, disk
  <1>2. ASSUME faults' = {}
        PROVE  dirs' = DirsOf(config)'
    <2>1. mutations = NoTask /\ faults = {}
      BY <1>2 DEF Crash
    <2>2. config' = config /\ dirs = DirsOf(config)
      BY <2>1, Nobody DEF Crash, DirsInv
    <2>3. QED
      BY <1>1, <2>2 DEF DirsOf
  <1>3. QED
    BY <1>1, <1>2 DEF DirsInv, DirsOfTask

LEMMA ChangeDirs ==
  ASSUME StoreInv, DirsInv, NEW t \in Task, Change(t)
  PROVE  DirsInv'
  <1>1. CASE AddFails(t)
    <2>1. /\ Goto(t, "undo") /\ pc[t] = "fill"
          /\ UNCHANGED <<dirs, retired, config, pid, candidate, faults>>
      BY <1>1 DEF AddFails, disk, process
    <2>2. QED
      BY <2>1, DirsQuiet DEF Label
  <1>2. QED
    BY <1>1, AddBeginsDirs, AddFillsDirs, RemoveBeginsDirs, RenameBeginsDirs,
       ChangeBeginsDirs DEF Change

LEMMA PersistDirs ==
  ASSUME StoreInv, DirsInv, NEW t \in Task, Persist(t)
  PROVE  DirsInv'
  <1>1. /\ UNCHANGED <<dirs, retired, config, pid, candidate>>
        /\ faults' = {} => faults = {}
    BY DEF Persist, CreateTemp, CreateFails, Write, WriteFails, Replace, disk, process
  <1>2. CASE CreateTemp(t) \/ Write(t)
    <2>1. \E l \in {"write", "replace"} : Goto(t, l) /\ pc[t] \in {"persist", "write"}
      BY <1>2 DEF CreateTemp, Write
    <2>2. QED
      BY <1>1, <2>1, DirsQuiet DEF Label
  <1>3. CASE CreateFails(t) \/ WriteFails(t)
    <2>1. Goto(t, "undo") /\ pc[t] \in {"persist", "write", "replace"}
      BY <1>3 DEF CreateFails, WriteFails
    <2>2. QED
      BY <1>1, <2>1, DirsQuiet DEF Label
  <1>4. CASE Replace(t)
    <2>1. Goto(t, "install") /\ pc[t] = "replace"
      BY <1>4 DEF Replace
    <2>2. QED
      BY <1>1, <2>1, DirsQuiet DEF Label
  <1>5. QED
    BY <1>2, <1>3, <1>4 DEF Persist

LEMMA CompleteDirs ==
  ASSUME StoreInv, DirsInv, NEW t \in Task, Complete(t)
  PROVE  DirsInv'
  <1>1. CASE UndoFails(t)
    BY <1>1 DEF UndoFails, DirsInv
  <1>2. QED
    BY <1>1, InstallDirs, DiscardDirs, UndoDirs DEF Complete

LEMMA DirsStep ==
  ASSUME StoreInv, DirsInv, [Next]_vars
  PROVE  DirsInv'
  <1>1. CASE Next
    BY <1>1, CrashDirs, ChangeDirs, PersistDirs, CompleteDirs DEF Next
  <1>2. CASE UNCHANGED vars
    <2>1. UNCHANGED <<dirs, retired, config, pid, pc, job, candidate, faults>>
      BY <1>2 DEF vars, disk, process, control
    <2>2. QED
      BY <2>1 DEF DirsInv, DirsOfTask, Before, MovedBack, DirsOf
  <1>3. QED
    BY <1>1, <1>2

\* Without a crash inside a change and without a failed clean-up, exactly the
\* configured targets have a directory whenever no change is under way: the
\* error paths of add, remove and rename take back what they did.
THEOREM DirsAlwaysMatch == Spec => []DirsMatch
  <1>1. Init => DirsInv
    BY DEF Init, DirsInv, DirsOfTask, DirsOf
  <1>2. StoreInv /\ DirsInv => DirsMatch
    BY Nobody DEF DirsInv, DirsMatch
  <1>3. Spec => []DirsInv
    BY <1>1, DirsStep, StoreHolds, PTL DEF Spec
  <1>4. QED
    BY <1>2, <1>3, StoreHolds, PTL
===============================================================================
