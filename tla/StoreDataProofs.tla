--------------------------- MODULE StoreDataProofs ----------------------------
(***************************************************************************)
(* Proof that TargetStore deletes no directory of a configured target, for *)
(* every set of names, contents, tasks and processes, with crashes, errors *)
(* and failed clean-ups at any step.                                       *)
(***************************************************************************)
EXTENDS TargetStoreProofs

(***************************************************************************)
(* Where the contents of a configured target can be.  A change in progress *)
(* or one that was cut short may have moved them away from targets/<name>. *)
(***************************************************************************)
\* Nobody else's contents are under a configured name.
OwnDirs == \A n \in DOMAIN file : dirs[n] \in {None, Partial, file[n].data}

\* The removal of n is past the point where it can fail.
Discarding(n) ==
  \E t \in Task : pc[t] \in {"install", "discard"} /\ job[t].op = "remove" /\ job[t].name = n

\* What this daemon has retired is rubbish, or the only copy of a target whose
\* removal failed and could not be taken back.
OwnRetired ==
  \A n \in Name :
    \/ retired[n][pid] \in {None, Partial}
    \/ n \in DOMAIN file /\ retired[n][pid] = file[n].data /\ dirs[n] = None
    \/ Discarding(n)

\* No later daemon finds a retired directory of its own.
LaterRetired == \A p \in Pid \ used, n \in Name : retired[n][p] = None

\* The candidate of a change under way, and where its directory is.
Built(j, ts) ==
  CASE j.op = "add"    -> \E e \in R!Entry : e.data = dirs[j.name] /\ ts = R!Added(file, j.name, e)
    [] j.op = "remove" -> ts = R!Removed(file, j.name)
    [] j.op = "rename" -> ts = R!Renamed(file, j.name, j.to)
    [] j.op = "change" -> ts = R!Changed(file, j.name)

Placed(j) ==
  CASE j.op = "add"    -> j.name \notin DOMAIN file /\ dirs[j.name] \notin R!Owned(file)
    [] j.op = "remove" -> j.name \in DOMAIN file /\ dirs[j.name] = None
    [] j.op = "rename" -> /\ j.name \in DOMAIN file /\ j.to \notin DOMAIN file
                          /\ dirs[j.name] = None
                          /\ dirs[j.to] \in {Partial, file[j.name].data}
                          /\ retired[j.name][pid] \in {None, Partial}
    [] j.op = "change" -> j.name \in DOMAIN file

DataInHand(t) ==
  LET j == job[t] IN
  /\ pc[t] = "fill" => j.op = "add"
  /\ pc[t] \in {"fill", "persist", "write", "replace", "undo"} => Placed(j)
  /\ pc[t] \in {"persist", "write", "replace"} => Built(j, candidate[t])
  /\ pc[t] = "discard" => j.op = "remove"
  /\ pc[t] \in {"install", "discard"} /\ j.op = "remove" =>
       j.name \notin DOMAIN file /\ retired[j.name][pid] \notin R!Owned(file)

DataInv ==
  /\ NoDataLost
  /\ R!OneOwner(file)
  /\ OwnDirs /\ OwnRetired /\ LaterRetired
  /\ \A t \in Task : DataInHand(t)

(***************************************************************************)
(* Facts the steps share.                                                  *)
(***************************************************************************)
\* Contents d are on the disk.
Held(d) == (\E n \in Name : dirs[n] = d) \/ (\E n \in Name, p \in Pid : retired[n][p] = d)

LEMMA HeldIsNoLoss ==
  /\ NoDataLost <=> \A n \in DOMAIN file : Held(file[n].data)
  /\ NoDataLost' <=> (\A n \in DOMAIN file : Held(file[n].data))'
  BY DEF NoDataLost, R!Owned, Stored, Held

LEMMA DataTyped ==
  ASSUME StoreInv
  PROVE  /\ file \in R!Registry /\ config \in R!Registry /\ DOMAIN file \subseteq Name
         /\ \A n \in DOMAIN file : file[n] \in R!Entry /\ file[n].data \in Data
         /\ dirs \in [Name -> Content] /\ retired \in [Name -> [Pid -> Content]]
         /\ pid \in Pid /\ pid \in used
         /\ None \notin Data /\ Partial \notin Data /\ None # Partial
  <1>1. file \in R!Registry /\ config \in R!Registry
    BY DEF StoreInv, TypeOK
  <1>2. DOMAIN file \subseteq Name /\ file \in [DOMAIN file -> R!Entry]
    BY <1>1, RegistryElim
  <1>3. \A n \in DOMAIN file : file[n] \in R!Entry /\ file[n].data \in Data
    BY <1>2 DEF R!Entry
  <1>4. QED
    BY <1>1, <1>2, <1>3, StoreAssumption DEF StoreInv, TypeOK, Temps

\* Before the file is replaced, memory and file agree.
LEMMA DataSaved ==
  ASSUME StoreInv, NEW t \in Task, pc[t] \notin {"idle", "install"}
  PROVE  config = file /\ \A u \in Task \ {t} : pc[u] = "idle"
  BY Alone DEF StoreInv, Saved

LEMMA NobodyDiscards ==
  ASSUME NEW t \in Task, pc[t] \notin {"install", "discard"},
         \A u \in Task \ {t} : pc[u] = "idle"
  PROVE  \A n \in Name : ~Discarding(n)
  BY DEF Discarding

(***************************************************************************)
(* A change begins.                                                        *)
(***************************************************************************)
LEMMA AddBeginsData ==
  ASSUME StoreInv, DataInv, NEW t \in Task, AddBegins(t)
  PROVE  DataInv'
  <1>1. PICK n \in Vacant \ DOMAIN config :
          Begin(t, "add", n, n, "fill") /\ dirs' = [dirs EXCEPT ![n] = Partial]
    BY DEF AddBegins
  <1>2. n \in Name /\ dirs[n] = None /\ "fill" \in Label
    BY <1>1 DEF Vacant, Label
  <1>3. /\ pc'[t] = "fill" /\ job'[t] = [op |-> "add", name |-> n, to |-> n]
        /\ \A u \in Task \ {t} : pc'[u] = "idle"
        /\ \A u \in Task : pc[u] = "idle"
    BY <1>1, <1>2, BeginJob
  <1>4. config = file /\ n \notin DOMAIN file
    BY <1>1, Nobody DEF Begin, Unlocked
  <1>5. UNCHANGED <<file, retired, pid, used>>
    BY DEF AddBegins, process
  <1>6. NoDataLost'
    <2> SUFFICES ASSUME NEW m \in DOMAIN file PROVE Held(file[m].data)'
      BY <1>5, HeldIsNoLoss
    <2>1. Held(file[m].data) /\ file[m].data # None
      BY DataTyped, HeldIsNoLoss DEF DataInv
    <2>2. QED
      BY <1>1, <1>2, <1>5, <2>1, DataTyped DEF Held
  <1>7. OwnDirs'
    BY <1>1, <1>4, <1>5, DataTyped DEF DataInv, OwnDirs
  <1>8. OwnRetired'
    <2>1. \A m \in Name : ~Discarding(m)
      BY <1>3, NobodyDiscards
    <2>2. \A m \in DOMAIN file : dirs'[m] = dirs[m]
      BY <1>1, <1>4, DataTyped
    <2>3. QED
      BY <1>5, <2>1, <2>2 DEF DataInv, OwnRetired
  <1>9. (\A u \in Task : DataInHand(u))'
    <2>1. dirs'[n] \notin R!Owned(file)
      BY <1>1, <1>2, DataTyped DEF R!Owned
    <2>2. Placed(job[t])'
      BY <1>3, <1>4, <1>5, <2>1 DEF Placed, R!Owned
    <2>3. QED
      BY <1>3, <2>2 DEF DataInHand
  <1>10. QED
    BY <1>5, <1>6, <1>7, <1>8, <1>9 DEF DataInv, LaterRetired, R!OneOwner

LEMMA RemoveBeginsData ==
  ASSUME StoreInv, DataInv, NEW t \in Task, RemoveBegins(t)
  PROVE  DataInv'
  <1>1. PICK n \in DOMAIN config :
          /\ Begin(t, "remove", n, n, "persist")
          /\ Propose(t, R!Removed(config, n))
          /\ IF dirs[n] = None
             THEN UNCHANGED <<dirs, retired>>
             ELSE /\ retired[n][pid] \in {None, Partial}
                  /\ retired' = [retired EXCEPT ![n][pid] = dirs[n]]
                  /\ dirs' = [dirs EXCEPT ![n] = None]
    BY DEF RemoveBegins
  <1>2. config = file /\ n \in DOMAIN file /\ n \in Name /\ "persist" \in Label
    BY <1>1, Nobody, DataTyped DEF Begin, Unlocked, Label
  <1>3. /\ pc'[t] = "persist" /\ job'[t] = [op |-> "remove", name |-> n, to |-> n]
        /\ \A u \in Task \ {t} : pc'[u] = "idle"
        /\ \A u \in Task : pc[u] = "idle"
    BY <1>1, <1>2, BeginJob
  <1>4. candidate'[t] = R!Removed(file, n)
    BY <1>1, <1>2, RemovedTypes, ProposeTypes, DataTyped
  <1>5. UNCHANGED <<file, pid, used>>
    BY DEF RemoveBegins, process
  <1>6. \A m \in Name : ~Discarding(m)
    BY <1>3, NobodyDiscards
  <1>7. dirs[n] \in {None, Partial, file[n].data}
    BY <1>2 DEF DataInv, OwnDirs
  <1>8. dirs'[n] = None /\ \A m \in Name \ {n} : dirs'[m] = dirs[m]
    BY <1>1, <1>2, DataTyped
  <1>9. /\ \A m \in Name, p \in Pid : m # n \/ p # pid => retired'[m][p] = retired[m][p]
        /\ retired'[n][pid] = IF dirs[n] = None THEN retired[n][pid] ELSE dirs[n]
        /\ dirs[n] # None => retired[n][pid] \in {None, Partial}
    BY <1>1, <1>2, DataTyped
  <1>10. NoDataLost'
    <2> SUFFICES ASSUME NEW m \in DOMAIN file PROVE Held(file[m].data)'
      BY <1>5, HeldIsNoLoss
    <2>1. Held(file[m].data) /\ file[m].data # None /\ file[m].data # Partial
      BY DataTyped, HeldIsNoLoss DEF DataInv
    <2>2. QED
      BY <1>2, <1>5, <1>8, <1>9, <2>1, DataTyped DEF Held
  <1>11. OwnDirs'
    BY <1>5, <1>8, DataTyped DEF DataInv, OwnDirs
  <1>12. OwnRetired'
    <2> SUFFICES ASSUME NEW m \in Name
                 PROVE  \/ retired'[m][pid] \in {None, Partial}
                        \/ m \in DOMAIN file /\ retired'[m][pid] = file[m].data /\ dirs'[m] = None
      BY <1>5 DEF OwnRetired
    <2>1. \/ retired[m][pid] \in {None, Partial}
          \/ m \in DOMAIN file /\ retired[m][pid] = file[m].data /\ dirs[m] = None
      BY <1>6 DEF DataInv, OwnRetired
    <2>2. QED
      BY <1>2, <1>7, <1>8, <1>9, <2>1, DataTyped
  <1>13. LaterRetired'
    BY <1>5, <1>9, DataTyped DEF DataInv, LaterRetired
  <1>14. (\A u \in Task : DataInHand(u))'
    <2>1. Placed(job[t])' /\ Built(job[t], candidate[t])'
      BY <1>2, <1>3, <1>4, <1>5, <1>8 DEF Placed, Built
    <2>2. QED
      BY <1>3, <2>1 DEF DataInHand
  <1>15. QED
    BY <1>5, <1>10, <1>11, <1>12, <1>13, <1>14 DEF DataInv, R!OneOwner

LEMMA RenameBeginsData ==
  ASSUME StoreInv, DataInv, NEW t \in Task, RenameBegins(t)
  PROVE  DataInv'
  <1>1. PICK n \in DOMAIN config, m \in Vacant \ DOMAIN config :
          /\ dirs[n] # None
          /\ Begin(t, "rename", n, m, "persist")
          /\ Propose(t, R!Renamed(config, n, m))
          /\ dirs' = [dirs EXCEPT ![m] = dirs[n], ![n] = None]
    BY DEF RenameBegins
  <1>2. /\ config = file /\ n \in DOMAIN file /\ n \in Name /\ n # m
        /\ m \in Name /\ m \notin DOMAIN file /\ dirs[m] = None /\ "persist" \in Label
    BY <1>1, Nobody, DataTyped DEF Begin, Unlocked, Vacant, Label
  <1>3. /\ pc'[t] = "persist" /\ job'[t] = [op |-> "rename", name |-> n, to |-> m]
        /\ \A u \in Task \ {t} : pc'[u] = "idle"
        /\ \A u \in Task : pc[u] = "idle"
    BY <1>1, <1>2, BeginJob
  <1>4. candidate'[t] = R!Renamed(file, n, m)
    BY <1>1, <1>2, RenamedTypes, ProposeTypes, DataTyped
  <1>5. UNCHANGED <<file, retired, pid, used>>
    BY DEF RenameBegins, process
  <1>6. \A k \in Name : ~Discarding(k)
    BY <1>3, NobodyDiscards
  <1>7. /\ dirs'[m] = dirs[n] /\ dirs'[n] = None
        /\ \A k \in Name \ {m, n} : dirs'[k] = dirs[k]
    BY <1>1, <1>2, DataTyped
  <1>8. dirs[n] \in {Partial, file[n].data} /\ retired[n][pid] \in {None, Partial}
    BY <1>1, <1>2, <1>6 DEF DataInv, OwnDirs, OwnRetired
  <1>9. NoDataLost'
    <2> SUFFICES ASSUME NEW k \in DOMAIN file PROVE Held(file[k].data)'
      BY <1>5, HeldIsNoLoss
    <2>1. Held(file[k].data) /\ file[k].data # None
      BY DataTyped, HeldIsNoLoss DEF DataInv
    <2>2. QED
      BY <1>2, <1>5, <1>7, <2>1, DataTyped DEF Held
  <1>10. OwnDirs'
    BY <1>2, <1>5, <1>7, DataTyped DEF DataInv, OwnDirs
  <1>11. OwnRetired'
    BY <1>2, <1>5, <1>6, <1>7, <1>8, DataTyped DEF DataInv, OwnRetired
  <1>12. (\A u \in Task : DataInHand(u))'
    <2>1. Placed(job[t])' /\ Built(job[t], candidate[t])'
      BY <1>2, <1>3, <1>4, <1>5, <1>7, <1>8 DEF Placed, Built
    <2>2. QED
      BY <1>3, <2>1 DEF DataInHand
  <1>13. QED
    BY <1>5, <1>9, <1>10, <1>11, <1>12 DEF DataInv, LaterRetired, R!OneOwner

LEMMA ChangeBeginsData ==
  ASSUME StoreInv, DataInv, NEW t \in Task, ChangeBegins(t)
  PROVE  DataInv'
  <1>1. PICK n \in DOMAIN config :
          /\ Begin(t, "change", n, n, "persist")
          /\ Propose(t, R!Changed(config, n))
    BY DEF ChangeBegins
  <1>2. config = file /\ n \in DOMAIN file /\ n \in Name /\ "persist" \in Label
    BY <1>1, Nobody, DataTyped DEF Begin, Unlocked, Label
  <1>3. /\ pc'[t] = "persist" /\ job'[t] = [op |-> "change", name |-> n, to |-> n]
        /\ \A u \in Task \ {t} : pc'[u] = "idle"
        /\ \A u \in Task : pc[u] = "idle"
    BY <1>1, <1>2, BeginJob
  <1>4. candidate'[t] = R!Changed(file, n)
    BY <1>1, <1>2, ChangedTypes, ProposeTypes, DataTyped
  <1>5. UNCHANGED <<file, dirs, retired, pid, used>>
    BY DEF ChangeBegins, disk, process
  <1>6. \A k \in Name : ~Discarding(k)
    BY <1>3, NobodyDiscards
  <1>7. NoDataLost'
    BY <1>5 DEF DataInv, NoDataLost, R!Owned, Stored
  <1>8. (\A u \in Task : DataInHand(u))'
    <2>1. Placed(job[t])' /\ Built(job[t], candidate[t])'
      BY <1>2, <1>3, <1>4, <1>5 DEF Placed, Built
    <2>2. QED
      BY <1>3, <2>1 DEF DataInHand
  <1>9. QED
    BY <1>5, <1>6, <1>7, <1>8 DEF DataInv, OwnDirs, OwnRetired, LaterRetired, R!OneOwner

(***************************************************************************)
(* A change goes on.                                                       *)
(***************************************************************************)
LEMMA AddFillsData ==
  ASSUME StoreInv, DataInv, NEW t \in Task, AddFills(t)
  PROVE  DataInv'
  <1> DEFINE n == job[t].name
  <1>1. PICK d \in Fresh, s \in BOOLEAN :
          /\ dirs' = [dirs EXCEPT ![n] = d]
          /\ Propose(t, R!Added(config, n, [data |-> d, setting |-> s]))
    BY DEF AddFills
  <1> DEFINE e == [data |-> d, setting |-> s]
  <1>2. pc[t] = "fill" /\ config = file /\ \A u \in Task \ {t} : pc[u] = "idle"
    BY DataSaved DEF AddFills
  <1>3. n \in Name
    BY <1>2 DEF StoreInv, InHand, Job
  <1>4. job[t].op = "add" /\ n \notin DOMAIN file /\ dirs[n] \notin R!Owned(file)
    BY <1>2 DEF DataInv, DataInHand, Placed
  <1>5. /\ pc'[t] = "persist" /\ job'[t] = job[t]
        /\ \A u \in Task \ {t} : pc'[u] = "idle"
    BY <1>2, GotoMoves DEF AddFills, Label
  <1>6. d \in Data /\ d \notin R!Owned(file) /\ e \in R!Entry /\ e.data = d
    BY DEF Fresh, R!Entry
  <1>7. candidate'[t] = R!Added(file, n, e)
    BY <1>1, <1>2, <1>3, <1>6, AddedTypes, ProposeTypes, DataTyped
  <1>8. UNCHANGED <<file, retired, pid, used>>
    BY DEF AddFills, process
  <1>9. dirs'[n] = d /\ \A k \in Name \ {n} : dirs'[k] = dirs[k]
    BY <1>1, <1>3, DataTyped
  <1>10. NoDataLost'
    <2> SUFFICES ASSUME NEW k \in DOMAIN file PROVE Held(file[k].data)'
      BY <1>8, HeldIsNoLoss
    <2>1. Held(file[k].data) /\ file[k].data # dirs[n]
      BY <1>4, HeldIsNoLoss DEF DataInv, R!Owned
    <2>2. QED
      BY <1>3, <1>8, <1>9, <2>1 DEF Held
  <1>11. OwnDirs' /\ OwnRetired'
    <2>1. \A k \in Name : ~Discarding(k)
      BY <1>2, NobodyDiscards
    <2>2. \A k \in DOMAIN file : dirs'[k] = dirs[k]
      BY <1>4, <1>9, DataTyped
    <2>3. QED
      BY <1>8, <2>1, <2>2 DEF DataInv, OwnDirs, OwnRetired
  <1>12. (\A u \in Task : DataInHand(u))'
    <2>1. Placed(job[t])' /\ Built(job[t], candidate[t])'
      BY <1>4, <1>5, <1>6, <1>7, <1>8, <1>9 DEF Placed, Built, R!Owned
    <2>2. QED
      BY <1>5, <2>1 DEF DataInHand
  <1>13. QED
    BY <1>8, <1>10, <1>11, <1>12 DEF DataInv, LaterRetired, R!OneOwner

\* A call that touches neither the directories nor the file.
LEMMA DataQuiet ==
  ASSUME StoreInv, DataInv, NEW t \in Task, NEW l \in Label, Goto(t, l),
         UNCHANGED <<file, dirs, retired, candidate, pid, used>>,
         \/ l = "undo" /\ pc[t] \in {"fill", "persist", "write", "replace"}
         \/ l \in {"write", "replace"} /\ pc[t] \in {"persist", "write"}
  PROVE  DataInv'
  <1>1. /\ pc'[t] = l /\ job'[t] = job[t]
        /\ \A u \in Task \ {t} : pc'[u] = "idle" /\ pc[u] = "idle"
    BY GotoMoves
  <1>2. \A n \in Name : ~Discarding(n)
    BY <1>1, NobodyDiscards
  <1>3. NoDataLost'
    BY DEF DataInv, NoDataLost, R!Owned, Stored
  <1>4. (\A u \in Task : DataInHand(u))'
    <2>1. Placed(job[t])' = Placed(job[t]) /\ Built(job[t], candidate[t])' = Built(job[t], candidate[t])
      BY <1>1 DEF Placed, Built, R!Owned
    <2>2. QED
      BY <1>1, <2>1 DEF DataInv, DataInHand
  <1>5. QED
    BY <1>2, <1>3, <1>4 DEF DataInv, OwnDirs, OwnRetired, LaterRetired, R!OneOwner

\* A change of settings leaves every target its contents.
LEMMA ChangedOwns ==
  ASSUME NEW ts \in R!Registry, NEW n \in DOMAIN ts
  PROVE  /\ DOMAIN R!Changed(ts, n) = DOMAIN ts
         /\ \A k \in DOMAIN ts : R!Changed(ts, n)[k].data = ts[k].data
  <1>1. ts \in [DOMAIN ts -> [data : Data, setting : BOOLEAN]]
    BY RegistryElim DEF R!Entry
  <1>2. QED
    BY <1>1 DEF R!Changed

\* The file is replaced: every kind of change leaves each target its contents.
LEMMA ReplaceData ==
  ASSUME StoreInv, DataInv, NEW t \in Task, Replace(t)
  PROVE  DataInv'
  <1> DEFINE j == job[t]
             n == job[t].name
             m == job[t].to
  <1>1. /\ pc[t] = "replace" /\ UNCHANGED <<dirs, retired, pid, used>>
        /\ pc'[t] = "install" /\ j' = j
        /\ \A u \in Task \ {t} : pc'[u] = "idle" /\ pc[u] = "idle"
    BY GotoMoves DEF Replace, process, Label
  <1>2. /\ file' = candidate[t] /\ j \in Job
        /\ Placed(j) /\ Built(j, candidate[t])
    BY <1>1 DEF Replace, StoreInv, InHand, DataInv, DataInHand
  <1>3. n \in Name /\ m \in Name /\ j.op \in {"add", "remove", "rename", "change"}
    BY <1>2 DEF Job
  <1>4. \A k \in Name : ~Discarding(k)
    BY <1>1, NobodyDiscards
  <1>5. \A k \in DOMAIN file :
          /\ k \in Name /\ file[k].data \in Data /\ Held(file[k].data)
          /\ dirs[k] \in {None, Partial, file[k].data}
          /\ \A i \in DOMAIN file : file[k].data = file[i].data => k = i
    BY DataTyped, HeldIsNoLoss DEF DataInv, OwnDirs, R!OneOwner
  <1>6. \A k \in Name :
          \/ retired[k][pid] \in {None, Partial}
          \/ k \in DOMAIN file /\ retired[k][pid] = file[k].data /\ dirs[k] = None
    BY <1>4 DEF DataInv, OwnRetired
  <1> DEFINE Good ==
        /\ \A k \in DOMAIN file' :
             /\ Held(file'[k].data)
             /\ dirs[k] \in {None, Partial, file'[k].data}
             /\ \A i \in DOMAIN file' : file'[k].data = file'[i].data => k = i
        /\ \A k \in Name :
             \/ retired[k][pid] \in {None, Partial}
             \/ k \in DOMAIN file' /\ retired[k][pid] = file'[k].data /\ dirs[k] = None
             \/ j.op = "remove" /\ k = n
        /\ j.op = "remove" =>
             n \notin DOMAIN file' /\ \A k \in DOMAIN file' : retired[n][pid] # file'[k].data
  <1>7. ASSUME j.op = "add"
         PROVE  Good
    <2>1. PICK e \in R!Entry : e.data = dirs[n] /\ file' = R!Added(file, n, e)
      BY <1>2, <1>7 DEF Built
    <2>2. n \notin DOMAIN file /\ \A k \in DOMAIN file : dirs[n] # file[k].data
      BY <1>2, <1>7 DEF Placed, R!Owned
    <2>3. /\ DOMAIN file' = DOMAIN file \cup {n} /\ file'[n] = e
          /\ \A k \in DOMAIN file : file'[k] = file[k]
      BY <2>1, <2>2 DEF R!Added
    <2>4. Held(e.data)
      BY <1>3, <2>1 DEF Held
    <2>5. Good
      BY <1>3, <1>5, <1>6, <1>7, <2>1, <2>2, <2>3, <2>4
    <2>6. QED
      BY <2>5
  <1>8. ASSUME j.op = "remove"
         PROVE  Good
    <2>1. file' = R!Removed(file, n)
      BY <1>2, <1>8 DEF Built
    <2>2. n \in DOMAIN file /\ dirs[n] = None
      BY <1>2, <1>8 DEF Placed
    <2>3. DOMAIN file' = DOMAIN file \ {n} /\ \A k \in DOMAIN file \ {n} : file'[k] = file[k]
      BY <2>1 DEF R!Removed
    <2>4. \A k \in DOMAIN file' : retired[n][pid] # file'[k].data
      BY <1>3, <1>5, <1>6, <2>2, <2>3, DataTyped
    <2>5. QED
      BY <1>3, <1>5, <1>6, <1>8, <2>3, <2>4
  <1>9. ASSUME j.op = "rename"
         PROVE  Good
    <2>1. file' = R!Renamed(file, n, m)
      BY <1>2, <1>9 DEF Built
    <2>2. /\ n \in DOMAIN file /\ m \notin DOMAIN file /\ dirs[n] = None
          /\ dirs[m] \in {Partial, file[n].data} /\ retired[n][pid] \in {None, Partial}
      BY <1>2, <1>9 DEF Placed
    <2>3. /\ DOMAIN file' = (DOMAIN file \ {n}) \cup {m} /\ file'[m] = file[n]
          /\ \A k \in DOMAIN file \ {n} : file'[k] = file[k]
      BY <2>1, <2>2 DEF R!Renamed
    <2>4. QED
      BY <1>3, <1>5, <1>6, <1>9, <2>2, <2>3
  <1>10. ASSUME j.op = "change"
         PROVE  Good
    <2>1. file' = R!Changed(file, n)
      BY <1>2, <1>10 DEF Built
    <2>2. n \in DOMAIN file
      BY <1>2, <1>10 DEF Placed
    <2>3. DOMAIN file' = DOMAIN file /\ \A k \in DOMAIN file : file'[k].data = file[k].data
      BY <2>1, <2>2, ChangedOwns, DataTyped
    <2>4. QED
      BY <1>3, <1>5, <1>6, <1>10, <2>3
  <1>11. Good
    BY <1>3, <1>7, <1>8, <1>9, <1>10
  <1>12. NoDataLost'
    BY <1>1, <1>11, HeldIsNoLoss DEF Held
  <1>13. R!OneOwner(file)' /\ OwnDirs'
    BY <1>1, <1>11 DEF R!OneOwner, OwnDirs
  <1>14. OwnRetired'
    <2>1. j.op = "remove" => Discarding(n)'
      BY <1>1 DEF Discarding
    <2>2. QED
      BY <1>1, <1>11, <2>1 DEF OwnRetired
  <1>15. LaterRetired'
    BY <1>1 DEF DataInv, LaterRetired
  <1>16. (\A u \in Task : DataInHand(u))'
    BY <1>1, <1>11 DEF DataInHand, R!Owned
  <1>17. QED
    BY <1>12, <1>13, <1>14, <1>15, <1>16 DEF DataInv

(***************************************************************************)
(* A change ends.                                                          *)
(***************************************************************************)
LEMMA InstallData ==
  ASSUME StoreInv, DataInv, NEW t \in Task, Install(t)
  PROVE  DataInv'
  <1>1. pc[t] = "install" /\ UNCHANGED <<file, dirs, retired, pid, used>>
    BY DEF Install, disk, process
  <1>2. NoDataLost' /\ R!OneOwner(file)' /\ OwnDirs' /\ LaterRetired'
    BY <1>1 DEF DataInv, NoDataLost, R!Owned, Stored, R!OneOwner, OwnDirs, LaterRetired
  <1>3. CASE job[t].op = "remove"
    <2>1. /\ pc'[t] = "discard" /\ job'[t] = job[t]
          /\ \A u \in Task \ {t} : pc'[u] = "idle" /\ pc[u] = "idle"
      BY <1>1, <1>3, GotoMoves DEF Install, Label
    <2>2. \A n \in Name : Discarding(n) => Discarding(n)'
      BY <2>1 DEF Discarding
    <2>3. OwnRetired'
      BY <1>1, <2>2 DEF DataInv, OwnRetired
    <2>4. (\A u \in Task : DataInHand(u))'
      BY <1>1, <1>3, <2>1 DEF DataInv, DataInHand, R!Owned
    <2>5. QED
      BY <1>2, <2>3, <2>4 DEF DataInv
  <1>4. CASE job[t].op # "remove"
    <2>1. /\ \A u \in Task : pc'[u] = "idle"
          /\ \A u \in Task \ {t} : pc[u] = "idle"
      BY <1>1, <1>4, FinishMoves DEF Install
    <2>2. \A n \in Name : ~Discarding(n)
      BY <1>4, <2>1 DEF Discarding
    <2>3. OwnRetired'
      BY <1>1, <2>2 DEF DataInv, OwnRetired
    <2>4. QED
      BY <1>2, <2>1, <2>3 DEF DataInv, DataInHand
  <1>5. QED
    BY <1>3, <1>4

\* What remove deletes belongs to nobody any more.
LEMMA DiscardData ==
  ASSUME StoreInv, DataInv, NEW t \in Task, Discard(t)
  PROVE  DataInv'
  <1> DEFINE n == job[t].name
  <1>1. /\ pc[t] = "discard" /\ UNCHANGED <<file, dirs, pid, used>>
        /\ \A u \in Task : pc'[u] = "idle"
        /\ \A u \in Task \ {t} : pc[u] = "idle"
    BY FinishMoves DEF Discard, process
  <1>2. n \in Name /\ n \notin DOMAIN file /\ retired[n][pid] \notin R!Owned(file)
    BY <1>1 DEF StoreInv, InHand, Job, DataInv, DataInHand
  <1>3. \E c \in {None, Partial} : retired' = [retired EXCEPT ![n][pid] = c]
    BY DEF Discard
  <1>4. /\ retired'[n][pid] \in {None, Partial}
        /\ \A k \in Name, p \in Pid : k # n \/ p # pid => retired'[k][p] = retired[k][p]
    BY <1>2, <1>3, DataTyped
  <1>5. NoDataLost'
    <2> SUFFICES ASSUME NEW k \in DOMAIN file PROVE Held(file[k].data)'
      BY <1>1, HeldIsNoLoss
    <2>1. Held(file[k].data) /\ file[k].data # retired[n][pid]
      BY <1>2, HeldIsNoLoss DEF DataInv, R!Owned
    <2>2. QED
      BY <1>1, <1>4, <2>1 DEF Held
  <1>6. OwnRetired'
    <2>1. \A k \in Name \ {n} : ~Discarding(k)
      BY <1>1 DEF Discarding
    <2>2. QED
      BY <1>1, <1>4, <2>1, DataTyped DEF DataInv, OwnRetired
  <1>7. LaterRetired'
    BY <1>1, <1>4, DataTyped DEF DataInv, LaterRetired
  <1>8. QED
    BY <1>1, <1>5, <1>6, <1>7 DEF DataInv, OwnDirs, R!OneOwner, DataInHand

\* The error paths put the contents back under the name that owns them.
LEMMA UndoData ==
  ASSUME StoreInv, DataInv, NEW t \in Task, Undo(t)
  PROVE  DataInv'
  <1> DEFINE j == job[t]
             n == job[t].name
             m == job[t].to
  <1>1. /\ pc[t] = "undo" /\ UNCHANGED <<file, pid, used>>
        /\ \A u \in Task : pc'[u] = "idle"
        /\ \A u \in Task \ {t} : pc[u] = "idle"
    BY FinishMoves DEF Undo, process
  <1>2. j \in Job /\ n \in Name /\ m \in Name /\ Placed(j)
    BY <1>1 DEF StoreInv, InHand, Job, DataInv, DataInHand
  <1>3. \A k \in Name : ~Discarding(k)
    BY <1>1, NobodyDiscards
  <1>4. \A k \in Name :
          \/ retired[k][pid] \in {None, Partial}
          \/ k \in DOMAIN file /\ retired[k][pid] = file[k].data /\ dirs[k] = None
    BY <1>3 DEF DataInv, OwnRetired
  <1>5. \A k \in DOMAIN file :
          /\ k \in Name /\ Held(file[k].data) /\ file[k].data \in Data
          /\ dirs[k] \in {None, Partial, file[k].data}
    BY DataTyped, HeldIsNoLoss DEF DataInv, OwnDirs
  <1> DEFINE Good ==
        /\ \A k \in DOMAIN file : Held(file[k].data)' /\ dirs'[k] \in {None, Partial, file[k].data}
        /\ \A k \in Name :
             \/ retired'[k][pid] \in {None, Partial}
             \/ k \in DOMAIN file /\ retired'[k][pid] = file[k].data /\ dirs'[k] = None
        /\ \A k \in Name, p \in Pid \ used : retired'[k][p] = retired[k][p]
  <1>6. ASSUME j.op = "add"
         PROVE  Good
    <2>1. dirs' = [dirs EXCEPT ![n] = None] /\ retired' = retired
      BY <1>6 DEF Undo
    <2>2. n \notin DOMAIN file /\ \A k \in DOMAIN file : dirs[n] # file[k].data
      BY <1>2, <1>6 DEF Placed, R!Owned
    <2>3. dirs'[n] = None /\ \A k \in Name \ {n} : dirs'[k] = dirs[k]
      BY <1>2, <2>1, DataTyped
    <2>4. \A k \in DOMAIN file : Held(file[k].data)'
      BY <1>1, <1>2, <1>5, <2>1, <2>2, <2>3 DEF Held
    <2>5. QED
      BY <1>2, <1>4, <1>5, <2>1, <2>2, <2>3, <2>4
  <1>7. ASSUME j.op = "rename"
         PROVE  Good
    <2>1. dirs' = [dirs EXCEPT ![n] = dirs[m], ![m] = None] /\ retired' = retired
      BY <1>7 DEF Undo, MovedBack
    <2>2. /\ n \in DOMAIN file /\ m \notin DOMAIN file /\ dirs[n] = None
          /\ dirs[m] \in {Partial, file[n].data} /\ retired[n][pid] \in {None, Partial}
      BY <1>2, <1>7 DEF Placed
    <2>3. /\ dirs'[n] = dirs[m] /\ dirs'[m] = None
          /\ \A k \in Name \ {n, m} : dirs'[k] = dirs[k]
      BY <1>2, <2>1, <2>2, DataTyped
    <2>4. \A k \in DOMAIN file : Held(file[k].data)'
      <3> SUFFICES ASSUME NEW k \in DOMAIN file PROVE Held(file[k].data)'
        OBVIOUS
      <3>1. Held(file[k].data) /\ file[k].data # None
        BY <1>5, DataTyped
      <3>2. UNCHANGED <<file, retired>>
        BY <1>1, <2>1
      <3>3. QED
        BY <1>2, <2>2, <2>3, <3>1, <3>2 DEF Held
    <2>5. QED
      BY <1>2, <1>4, <1>5, <2>1, <2>2, <2>3, <2>4
  <1>8. ASSUME j.op = "remove" /\ retired[n][pid] # None
         PROVE  Good
    <2>1. /\ dirs' = [dirs EXCEPT ![n] = retired[n][pid]]
          /\ retired' = [retired EXCEPT ![n][pid] = None]
      BY <1>8 DEF Undo
    <2>2. n \in DOMAIN file /\ dirs[n] = None
      BY <1>2, <1>8 DEF Placed
    <2>3. /\ dirs'[n] = retired[n][pid] /\ \A k \in Name \ {n} : dirs'[k] = dirs[k]
          /\ retired'[n][pid] = None
          /\ \A k \in Name, p \in Pid : k # n \/ p # pid => retired'[k][p] = retired[k][p]
      BY <1>2, <2>1, DataTyped
    <2>4. \A k \in DOMAIN file : Held(file[k].data)'
      <3> SUFFICES ASSUME NEW k \in DOMAIN file PROVE Held(file[k].data)'
        OBVIOUS
      <3>1. Held(file[k].data) /\ file[k].data # None /\ pid \in Pid
        BY <1>5, DataTyped
      <3>2. UNCHANGED <<file, pid>>
        BY <1>1
      <3>3. QED
        BY <1>2, <2>2, <2>3, <3>1, <3>2 DEF Held
    <2>5. QED
      BY <1>2, <1>4, <1>5, <2>2, <2>3, <2>4, DataTyped
  <1>9. ASSUME j.op # "add" /\ j.op # "rename" /\ ~(j.op = "remove" /\ retired[n][pid] # None)
         PROVE  Good
    <2>1. UNCHANGED <<dirs, retired>>
      BY <1>9 DEF Undo
    <2>2. QED
      BY <1>1, <1>4, <1>5, <2>1 DEF Held
  <1>10. Good
    BY <1>6, <1>7, <1>8, <1>9
  <1>11. NoDataLost' /\ OwnDirs'
    BY <1>1, <1>10, HeldIsNoLoss DEF OwnDirs
  <1>12. OwnRetired' /\ LaterRetired'
    BY <1>1, <1>10 DEF DataInv, OwnRetired, LaterRetired
  <1>13. QED
    BY <1>1, <1>11, <1>12 DEF DataInv, R!OneOwner, DataInHand

LEMMA UndoFailsData ==
  ASSUME StoreInv, DataInv, NEW t \in Task, UndoFails(t)
  PROVE  DataInv'
  <1> DEFINE n == job[t].name
  <1>1. /\ pc[t] = "undo" /\ UNCHANGED <<file, retired, pid, used>>
        /\ \A u \in Task : pc'[u] = "idle"
        /\ \A u \in Task \ {t} : pc[u] = "idle"
    BY FinishMoves DEF UndoFails, process
  <1>2. n \in Name /\ Placed(job[t])
    BY <1>1 DEF StoreInv, InHand, Job, DataInv, DataInHand
  <1>3. \A k \in Name : ~Discarding(k)
    BY <1>1, NobodyDiscards
  <1>4. \A k \in DOMAIN file : dirs'[k] = dirs[k] /\ Held(file[k].data)'
    <2>1. CASE job[t].op = "add"
      <3>1. n \notin DOMAIN file /\ \A k \in DOMAIN file : dirs[n] # file[k].data
        BY <1>2, <2>1 DEF Placed, R!Owned
      <3>2. dirs' = [dirs EXCEPT ![n] = Partial]
        BY <2>1 DEF UndoFails
      <3>3. QED
        BY <1>1, <1>2, <3>1, <3>2, HeldIsNoLoss, DataTyped DEF DataInv, Held
    <2>2. CASE job[t].op # "add"
      BY <1>1, <2>2, HeldIsNoLoss DEF DataInv, UndoFails, Held
    <2>3. QED
      BY <2>1, <2>2
  <1>5. NoDataLost'
    BY <1>1, <1>4, HeldIsNoLoss
  <1>6. QED
    BY <1>1, <1>3, <1>4, <1>5 DEF DataInv, OwnDirs, OwnRetired, LaterRetired, R!OneOwner, DataInHand

\* The next daemon has its own names for what it retires.
LEMMA CrashData ==
  ASSUME StoreInv, DataInv, Crash
  PROVE  DataInv'
  <1>1. /\ UNCHANGED <<file, dirs, retired>> /\ \A u \in Task : pc'[u] = "idle"
        /\ \E p \in Pid \ used : pid' = p /\ used' = used \cup {p}
    BY DEF Crash, disk
  <1>2. NoDataLost' /\ R!OneOwner(file)' /\ OwnDirs'
    BY <1>1 DEF DataInv, NoDataLost, R!Owned, Stored, R!OneOwner, OwnDirs
  <1>3. OwnRetired' /\ LaterRetired'
    BY <1>1 DEF DataInv, OwnRetired, LaterRetired
  <1>4. QED
    BY <1>1, <1>2, <1>3 DEF DataInv, DataInHand

LEMMA DataStep ==
  ASSUME StoreInv, DataInv, [Next]_vars
  PROVE  DataInv'
  <1>1. ASSUME NEW t \in Task, AddFails(t) \/ CreateTemp(t) \/ CreateFails(t) \/ Write(t) \/ WriteFails(t)
        PROVE  DataInv'
    <2>1. UNCHANGED <<file, dirs, retired, candidate, pid, used>>
      BY <1>1 DEF AddFails, CreateTemp, CreateFails, Write, WriteFails, disk, process
    <2>2. \E l \in {"undo", "write", "replace"} :
            /\ Goto(t, l)
            /\ \/ l = "undo" /\ pc[t] \in {"fill", "persist", "write", "replace"}
               \/ l \in {"write", "replace"} /\ pc[t] \in {"persist", "write"}
      BY <1>1 DEF AddFails, CreateTemp, CreateFails, Write, WriteFails
    <2>3. QED
      BY <2>1, <2>2, DataQuiet DEF Label
  <1>2. ASSUME NEW t \in Task, Change(t) \/ Persist(t) \/ Complete(t)
        PROVE  DataInv'
    BY <1>1, <1>2, AddBeginsData, AddFillsData, RemoveBeginsData, RenameBeginsData,
       ChangeBeginsData, ReplaceData, InstallData, DiscardData, UndoData, UndoFailsData
       DEF Change, Persist, Complete
  <1>3. CASE UNCHANGED vars
    <2>1. UNCHANGED <<file, dirs, retired, pid, used, pc, job, candidate>>
      BY <1>3 DEF vars, disk, process, control
    <2>2. NoDataLost' /\ R!OneOwner(file)' /\ OwnDirs' /\ LaterRetired'
      BY <2>1 DEF DataInv, NoDataLost, R!Owned, Stored, R!OneOwner, OwnDirs, LaterRetired
    <2>3. OwnRetired'
      BY <2>1 DEF DataInv, OwnRetired, Discarding
    <2>4. ASSUME NEW t \in Task PROVE DataInHand(t)'
      <3>1. /\ Placed(job[t])' = Placed(job[t])
            /\ Built(job[t], candidate[t])' = Built(job[t], candidate[t])
        BY <2>1 DEF Placed, Built, R!Owned
      <3>2. QED
        BY <2>1, <3>1 DEF DataInv, DataInHand
    <2>5. QED
      BY <2>2, <2>3, <2>4 DEF DataInv
  <1>4. QED
    BY <1>2, <1>3, CrashData DEF Next

LEMMA DataInit == Init => DataInv
  <1> SUFFICES ASSUME Init PROVE DataInv
    OBVIOUS
  <1>1. file \in R!Registry /\ R!OneOwner(file)
    BY DEF Init, R!Init
  <1>2. /\ dirs = [n \in Name |-> IF n \in DOMAIN file THEN file[n].data ELSE None]
        /\ retired = [n \in Name |-> [p \in Pid |-> None]]
        /\ pid \in Pid /\ pc = [t \in Task |-> "idle"]
    BY DEF Init, DirsOf
  <1>3. NoDataLost
    BY <1>1, <1>2, RegistryElim, HeldIsNoLoss DEF Held
  <1>4. OwnDirs
    BY <1>1, <1>2, RegistryElim DEF OwnDirs
  <1>5. QED
    BY <1>1, <1>2, <1>3, <1>4 DEF DataInv, OwnRetired, LaterRetired, DataInHand

\* The contents of a configured target are always on the disk: no error, crash
\* or failed clean-up of add, remove and rename, and none of the error paths of
\* supervisor.rs that move a directory back, deletes them.
THEOREM DataNeverLost == Spec => []NoDataLost
  <1>1. DataInv => NoDataLost
    BY DEF DataInv
  <1>2. Spec => []DataInv
    BY DataInit, DataStep, StoreHolds, PTL DEF Spec
  <1>3. QED
    BY <1>1, <1>2, PTL
===============================================================================
