-------------------------- MODULE TargetEventsProofs --------------------------
(***************************************************************************)
(* Proofs about TargetEvents, for every set of names, connections, writers *)
(* and fields, every capacity and every bound on revisions.                *)
(***************************************************************************)
EXTENDS TargetEvents, SequenceTheorems, TLAPS

(***************************************************************************)
(* Records, fields and events.                                             *)
(***************************************************************************)
LEMMA RecordsIntro ==
  ASSUME NEW K \in SUBSET Name, NEW f \in [K -> Record]
  PROVE  f \in Records
  BY DEF Records

LEMMA RecordsElim ==
  ASSUME NEW f \in Records
  PROVE  DOMAIN f \in SUBSET Name /\ f \in [DOMAIN f -> Record]
  <1>1. PICK K \in SUBSET Name : f \in [K -> Record]
    BY DEF Records
  <1>2. QED
    BY <1>1

LEMMA BlankIsRecord == Blank \in Record
  BY EventsAssumption DEF Blank, Record, State

LEMMA ApplyIsState ==
  ASSUME NEW changed \in Changes, NEW s \in State
  PROVE  Apply(changed, s) \in State
  <1>1. PICK F \in SUBSET Field : changed \in [F -> BOOLEAN]
    BY DEF Changes
  <1>2. \A f \in Field : (IF f \in DOMAIN changed THEN changed[f] ELSE s[f]) \in BOOLEAN
    BY <1>1 DEF State
  <1>3. QED
    BY <1>2 DEF Apply, State

LEMMA ToggledIsChange ==
  ASSUME targets \in Records, NEW n \in DOMAIN targets, NEW F \in SUBSET Field
  PROVE  Toggled(n, F) \in Changes
  <1>1. Toggled(n, F) \in [F -> BOOLEAN]
    BY DEF Toggled
  <1>2. QED
    BY <1>1 DEF Changes

LEMMA SnapshotIsEvent ==
  ASSUME NEW ts \in Records
  PROVE  Snapshot(ts) \in Event
  BY DEF Snapshot, Event

(***************************************************************************)
(* What the messages on their way are made of.  S is a set of events:      *)
(* Event for the types, the faithful ones for the cache.                   *)
(***************************************************************************)
StreamIn(S) ==
  /\ emitting \in [Writer -> S \cup {NoEvent}]
  /\ queue \in [Client -> Seq(S)] /\ wire \in [Client -> Seq(S)]
  /\ \A c \in Client : Len(queue[c]) <= Capacity /\ Len(wire[c]) <= Window

StreamNext(S) ==
  /\ emitting' \in [Writer -> S \cup {NoEvent}]
  /\ queue' \in [Client -> Seq(S)] /\ wire' \in [Client -> Seq(S)]
  /\ \A c \in Client : Len(queue'[c]) <= Capacity /\ Len(wire'[c]) <= Window

LEMMA PushKeeps ==
  ASSUME NEW S, NEW q \in Seq(S), Len(q) <= Capacity, NEW e \in S
  PROVE  Push(q, e) \in Seq(S) /\ Len(Push(q, e)) <= Capacity
  <1>1. CASE Len(q) < Capacity
    <2>1. Push(q, e) = Append(q, e)
      BY <1>1 DEF Push
    <2>2. Append(q, e) \in Seq(S) /\ Len(Append(q, e)) = Len(q) + 1
      BY AppendProperties
    <2>3. QED
      BY <1>1, <2>1, <2>2, LenProperties, EventsAssumption
  <1>2. CASE ~(Len(q) < Capacity)
    <2>1. Len(q) = Capacity /\ Len(q) \in Nat \ {0}
      BY <1>2, LenProperties, EventsAssumption
    <2>2. q # <<>>
      BY <2>1, EmptySeq
    <2>3. Tail(q) \in Seq(S) /\ Len(Tail(q)) = Len(q) - 1
      BY <2>2, HeadTailProperties
    <2>4. Push(q, e) = Append(Tail(q), e)
      BY <1>2 DEF Push
    <2>5. Append(Tail(q), e) \in Seq(S) /\ Len(Append(Tail(q), e)) = Len(Tail(q)) + 1
      BY <2>3, AppendProperties
    <2>6. QED
      BY <2>1, <2>3, <2>4, <2>5
  <1>3. QED
    BY <1>1, <1>2

\* emit_changed and emit_snapshot: every open connection gets the event.
LEMMA SendMoves ==
  ASSUME NEW S, StreamIn(S), NEW e \in S, Send(e),
         emitting' \in [Writer -> S \cup {NoEvent}]
  PROVE  StreamNext(S)
  <1>1. \A c \in Client : Push(queue[c], e) \in Seq(S) /\ Len(Push(queue[c], e)) <= Capacity
    BY PushKeeps DEF StreamIn
  <1>2. QED
    BY <1>1 DEF StreamIn, StreamNext, Send

LEMMA ConnectMoves ==
  ASSUME NEW S, StreamIn(S), NEW c \in Client, Snapshot(targets) \in S, Connect(c)
  PROVE  StreamNext(S)
  <1>1. <<Snapshot(targets)>> \in Seq(S) /\ Len(<<Snapshot(targets)>>) = 1
    OBVIOUS
  <1>2. 1 <= Window
    BY EventsAssumption
  <1>3. QED
    BY <1>1, <1>2 DEF StreamIn, StreamNext, Connect, daemon

\* A message the client takes off the connection leaves the rest.
LEMMA ConsumeMoves ==
  ASSUME NEW S, StreamIn(S), NEW c \in Client, NEW records, wire[c] # <<>>,
         Consume(c, records)
  PROVE  StreamNext(S)
  <1>1. Tail(wire[c]) \in Seq(S) /\ Len(Tail(wire[c])) = Len(wire[c]) - 1
    BY HeadTailProperties DEF StreamIn
  <1>2. Len(wire[c]) \in Nat /\ Window \in Nat
    BY LenProperties, EventsAssumption DEF StreamIn
  <1>3. Len(Tail(wire[c])) <= Window
    BY <1>1, <1>2 DEF StreamIn
  <1>4. QED
    BY <1>1, <1>3 DEF StreamIn, StreamNext, Consume, daemon

LEMMA EndMoves ==
  ASSUME NEW S, StreamIn(S), NEW c \in Client, NEW why, End(c, why)
  PROVE  StreamNext(S)
  <1>1. <<>> \in Seq(S) /\ Len(<<>>) = 0
    BY EmptySeq
  <1>2. 0 <= Capacity /\ 0 <= Window
    BY EventsAssumption
  <1>3. QED
    BY <1>1, <1>2 DEF StreamIn, StreamNext, End, daemon

LEMMA ForwardMoves ==
  ASSUME NEW S, StreamIn(S), NEW c \in Client, Forward(c)
  PROVE  StreamNext(S)
  <1>1. Head(queue[c]) \in S /\ Tail(queue[c]) \in Seq(S)
        /\ Len(Tail(queue[c])) = Len(queue[c]) - 1
    BY HeadTailProperties DEF StreamIn, Forward
  <1>2. /\ Append(wire[c], Head(queue[c])) \in Seq(S)
        /\ Len(Append(wire[c], Head(queue[c]))) = Len(wire[c]) + 1
    BY <1>1, AppendProperties DEF StreamIn
  <1>3. Len(wire[c]) \in Nat /\ Len(queue[c]) \in Nat /\ Window \in Nat /\ Capacity \in Nat
    BY LenProperties, EventsAssumption DEF StreamIn
  <1>4. Len(wire[c]) + 1 <= Window /\ Len(queue[c]) - 1 <= Capacity
    BY <1>3 DEF StreamIn, Forward
  <1>5. QED
    BY <1>1, <1>2, <1>4 DEF StreamIn, StreamNext, Forward, daemon

LEMMA LagMoves ==
  ASSUME NEW S, StreamIn(S), NEW c \in Client, Lag(c)
  PROVE  StreamNext(S)
  <1>1. <<>> \in Seq(S) /\ Len(<<>>) = 0 /\ 0 <= Capacity
    BY EmptySeq, EventsAssumption
  <1>2. QED
    BY <1>1 DEF StreamIn, StreamNext, Lag, daemon

LEMMA HandleMoves ==
  ASSUME NEW S, StreamIn(S), NEW c \in Client, Handle(c)
  PROVE  StreamNext(S)
  <1>1. wire[c] # <<>>
    BY DEF Handle
  <1>2. (\E records : Consume(c, records)) \/ (\E why : End(c, why))
    BY DEF Handle
  <1>3. QED
    BY <1>1, <1>2, ConsumeMoves, EndMoves

(***************************************************************************)
(* Types.                                                                  *)
(***************************************************************************)
DataOK ==
  /\ targets \in Records /\ past \in [Name -> SUBSET Record]
  /\ status \in [Client -> {"none", "open", "cut", "closed", "gap", "unknown"}]
  /\ lagged \subseteq Open
  /\ cache \in [Client -> Records]

LEMMA TypeParts == TypeOK <=> DataOK /\ StreamIn(Event)
  BY DEF TypeOK, DataOK, StreamIn

LEMMA TypePartsNext == TypeOK' <=> DataOK' /\ StreamNext(Event)
  BY DEF TypeOK, DataOK, StreamNext

LEMMA EventParts ==
  ASSUME NEW e \in Event
  PROVE  /\ e.event \in {"snapshot", "target_changed"}
         /\ e.event = "snapshot" => e.targets \in Records
         /\ e.event = "target_changed" =>
              /\ e.target \in Name /\ e.revision \in 1 .. MaxRevision
              /\ e.changed \in Changes
  BY DEF Event

LEMMA ChangedIsRecord ==
  ASSUME DataOK, NEW n \in DOMAIN targets, NEW changed \in Changes,
         targets[n].revision < MaxRevision
  PROVE  /\ n \in Name /\ targets[n] \in Record /\ Changed(n, changed) \in Record
         /\ TargetChanged(n, targets[n].revision + 1, changed) \in Event
  <1>1. n \in Name /\ targets[n] \in Record
    BY RecordsElim DEF DataOK
  <1>2. targets[n].revision \in 0 .. MaxRevision /\ targets[n].state \in State
    BY <1>1 DEF Record
  <1>3. targets[n].revision + 1 \in 1 .. MaxRevision
    BY <1>2, EventsAssumption
  <1>4. Apply(changed, targets[n].state) \in State
    BY <1>2, ApplyIsState
  <1>5. QED
    BY <1>1, <1>3, <1>4 DEF Changed, Record, TargetChanged, Event

LEMMA WithIsRecords ==
  ASSUME targets \in Records, NEW n \in Name, NEW r \in Record
  PROVE  With(n, r) \in Records
  <1>1. DOMAIN targets \cup {n} \in SUBSET Name
    BY RecordsElim
  <1>2. With(n, r) \in [DOMAIN targets \cup {n} -> Record]
    BY RecordsElim DEF With
  <1>3. QED
    BY <1>1, <1>2, RecordsIntro

LEMMA WithoutIsRecords ==
  ASSUME targets \in Records, NEW n
  PROVE  Without(n) \in Records
  <1>1. DOMAIN targets \ {n} \in SUBSET Name
    BY RecordsElim
  <1>2. Without(n) \in [DOMAIN targets \ {n} -> Record]
    BY RecordsElim DEF Without
  <1>3. QED
    BY <1>1, <1>2, RecordsIntro

\* A change of one target, and the event that tells of it.
LEMMA ChangeTypes ==
  ASSUME DataOK, NEW n \in DOMAIN targets, NEW changed \in Changes, Change(n, changed)
  PROVE  /\ targets' \in Records /\ past' \in [Name -> SUBSET Record]
         /\ TargetChanged(n, targets[n].revision + 1, changed) \in Event
  <1>1. /\ n \in Name /\ Changed(n, changed) \in Record
        /\ TargetChanged(n, targets[n].revision + 1, changed) \in Event
    BY ChangedIsRecord DEF Change
  <1>2. targets' \in Records
    BY <1>1, WithIsRecords DEF Change, DataOK
  <1>3. QED
    BY <1>1, <1>2 DEF Change, DataOK

\* Sending leaves the connections and the caches alone.
LEMMA SendKeeps ==
  ASSUME DataOK, NEW e, Send(e)
  PROVE  /\ status' = status /\ cache' = cache
         /\ lagged' \subseteq {c \in Client : status'[c] = "open"}
  BY DEF Send, DataOK, Open

LEMMA UpdateTypes ==
  ASSUME TypeOK, Update
  PROVE  TypeOK'
  <1>1. PICK n \in DOMAIN targets, F \in SUBSET Field \ {{}} :
          /\ Change(n, Toggled(n, F))
          /\ Send(TargetChanged(n, targets[n].revision + 1, Toggled(n, F)))
          /\ UNCHANGED emitting
    BY DEF Update
  <1> DEFINE e == TargetChanged(n, targets[n].revision + 1, Toggled(n, F))
  <1>2. DataOK /\ StreamIn(Event)
    BY TypeParts
  <1>3. Toggled(n, F) \in Changes
    BY <1>2, ToggledIsChange DEF DataOK
  <1>4. targets' \in Records /\ past' \in [Name -> SUBSET Record] /\ e \in Event
    BY <1>1, <1>2, <1>3, ChangeTypes
  <1>5. emitting' \in [Writer -> Event \cup {NoEvent}]
    BY <1>1, <1>2 DEF StreamIn
  <1>6. StreamNext(Event)
    BY <1>1, <1>2, <1>4, <1>5, SendMoves
  <1>7. DataOK'
    BY <1>1, <1>2, <1>4, SendKeeps DEF DataOK, Open
  <1>8. QED
    BY <1>6, <1>7, TypePartsNext

LEMMA LateUpdateTypes ==
  ASSUME TypeOK, NEW w \in Writer, LateUpdate(w)
  PROVE  TypeOK'
  <1>1. PICK n \in DOMAIN targets, F \in SUBSET Observed \ {{}} :
          /\ Change(n, Toggled(n, F))
          /\ emitting' = [emitting EXCEPT ![w] =
               TargetChanged(n, targets[n].revision + 1, Toggled(n, F))]
    BY DEF LateUpdate
  <1>2. DataOK /\ StreamIn(Event) /\ UNCHANGED <<stream, status, cache>>
    BY TypeParts DEF LateUpdate
  <1>3. Toggled(n, F) \in Changes
    BY <1>2, ToggledIsChange, EventsAssumption DEF DataOK
  <1>4. /\ targets' \in Records /\ past' \in [Name -> SUBSET Record]
        /\ TargetChanged(n, targets[n].revision + 1, Toggled(n, F)) \in Event
    BY <1>1, <1>2, <1>3, ChangeTypes
  <1>5. StreamNext(Event)
    BY <1>1, <1>2, <1>4 DEF StreamIn, StreamNext, stream
  <1>6. DataOK'
    BY <1>2, <1>4 DEF DataOK, Open, stream
  <1>7. QED
    BY <1>5, <1>6, TypePartsNext

LEMMA EmitTypes ==
  ASSUME TypeOK, NEW w \in Writer, Emit(w)
  PROVE  TypeOK'
  <1>1. DataOK /\ StreamIn(Event)
    BY TypeParts
  <1>2. emitting[w] \in Event /\ emitting' \in [Writer -> Event \cup {NoEvent}]
    BY <1>1 DEF Emit, StreamIn
  <1>3. StreamNext(Event)
    BY <1>1, <1>2, SendMoves DEF Emit
  <1>4. DataOK'
    BY <1>1, SendKeeps DEF Emit, DataOK, Open
  <1>5. QED
    BY <1>3, <1>4, TypePartsNext

\* add, remove and rename replace targets and send a snapshot of it.
LEMMA SnapshotTypes ==
  ASSUME TypeOK, targets' \in Records, past' \in [Name -> SUBSET Record],
         Send(Snapshot(targets')), UNCHANGED emitting
  PROVE  TypeOK'
  <1>1. DataOK /\ StreamIn(Event)
    BY TypeParts
  <1>2. Snapshot(targets') \in Event
    BY SnapshotIsEvent
  <1>3. emitting' \in [Writer -> Event \cup {NoEvent}]
    BY <1>1 DEF StreamIn
  <1>4. StreamNext(Event)
    BY <1>1, <1>2, <1>3, SendMoves
  <1>5. DataOK'
    BY <1>1, SendKeeps DEF DataOK, Open
  <1>6. QED
    BY <1>4, <1>5, TypePartsNext

LEMMA AddTypes ==
  ASSUME TypeOK, Add
  PROVE  TypeOK'
  <1>1. PICK n \in Free : targets' = With(n, Blank) /\ past' = [past EXCEPT ![n] = {Blank}]
    BY DEF Add
  <1>2. targets' \in Records
    BY <1>1, WithIsRecords, BlankIsRecord DEF Free, TypeOK
  <1>3. past' \in [Name -> SUBSET Record]
    BY <1>1, BlankIsRecord DEF TypeOK
  <1>4. QED
    BY <1>2, <1>3, SnapshotTypes DEF Add

LEMMA RemoveTypes ==
  ASSUME TypeOK, Remove
  PROVE  TypeOK'
  <1>1. targets' \in Records
    BY WithoutIsRecords DEF Remove, TypeOK
  <1>2. past' \in [Name -> SUBSET Record]
    BY DEF Remove, TypeOK
  <1>3. QED
    BY <1>1, <1>2, SnapshotTypes DEF Remove

\* The record a rename moves, under its new name.
LEMMA RenameMoves ==
  ASSUME TypeOK, Rename
  PROVE  \E n \in DOMAIN targets, m \in Free, moved \in Record :
           /\ m \in Name /\ moved.revision \in Nat
           /\ targets' = [k \in (DOMAIN targets \ {n}) \cup {m} |->
                            IF k = m THEN moved ELSE targets[k]]
           /\ past' = [past EXCEPT ![m] = {moved}]
           /\ targets' \in Records
  <1>1. PICK n \in DOMAIN targets, m \in Free :
          LET moved == [targets[n] EXCEPT !.revision = @ + 1] IN
          /\ targets[n].revision < MaxRevision
          /\ targets' = [k \in (DOMAIN targets \ {n}) \cup {m} |->
                           IF k = m THEN moved ELSE targets[k]]
          /\ past' = [past EXCEPT ![m] = {moved}]
    BY DEF Rename
  <1> DEFINE moved == [targets[n] EXCEPT !.revision = @ + 1]
  <1>2. DOMAIN targets \in SUBSET Name /\ targets \in [DOMAIN targets -> Record]
    BY RecordsElim DEF TypeOK
  <1>3. targets[n] \in Record /\ targets[n].revision \in 0 .. MaxRevision
    BY <1>2 DEF Record
  <1>4. targets[n].revision + 1 \in 0 .. MaxRevision
    BY <1>1, <1>3, EventsAssumption
  <1>5. moved \in Record /\ moved.revision \in Nat
    BY <1>3, <1>4 DEF Record
  <1>6. m \in Name
    BY DEF Free
  <1>7. (DOMAIN targets \ {n}) \cup {m} \in SUBSET Name
    BY <1>2, <1>6
  <1>8. targets' \in [(DOMAIN targets \ {n}) \cup {m} -> Record]
    <2>1. targets' = [k \in (DOMAIN targets \ {n}) \cup {m} |->
                        IF k = m THEN moved ELSE targets[k]]
      BY <1>1
    <2>2. \A k \in (DOMAIN targets \ {n}) \cup {m} :
            (IF k = m THEN moved ELSE targets[k]) \in Record
      BY <1>2, <1>5
    <2>3. QED
      BY <2>1, <2>2
  <1>9. targets' \in Records
    BY <1>7, <1>8, RecordsIntro
  <1>10. QED
    BY <1>1, <1>5, <1>6, <1>9

LEMMA RenameTypes ==
  ASSUME TypeOK, Rename
  PROVE  TypeOK'
  <1>1. targets' \in Records /\ past' \in [Name -> SUBSET Record]
    BY RenameMoves DEF TypeOK
  <1>2. Send(Snapshot(targets')) /\ UNCHANGED emitting
    BY DEF Rename
  <1>3. QED
    BY <1>1, <1>2, SnapshotTypes

LEMMA ConnectTypes ==
  ASSUME TypeOK, NEW c \in Client, Connect(c)
  PROVE  TypeOK'
  <1>1. DataOK /\ StreamIn(Event) /\ Snapshot(targets) \in Event
    BY TypeParts, SnapshotIsEvent DEF DataOK
  <1>2. StreamNext(Event)
    BY <1>1, ConnectMoves
  <1>3. DataOK'
    BY <1>1 DEF Connect, DataOK, Open, daemon
  <1>4. QED
    BY <1>2, <1>3, TypePartsNext

LEMMA EndTypes ==
  ASSUME TypeOK, NEW c \in Client, NEW why \in {"closed", "gap", "unknown"}, End(c, why)
  PROVE  TypeOK'
  <1>1. DataOK /\ StreamIn(Event)
    BY TypeParts
  <1>2. StreamNext(Event)
    BY <1>1, EndMoves
  <1>3. DataOK'
    BY <1>1 DEF End, DataOK, Open, daemon
  <1>4. QED
    BY <1>2, <1>3, TypePartsNext

LEMMA HandleTypes ==
  ASSUME TypeOK, NEW c \in Client, Handle(c)
  PROVE  TypeOK'
  <1> DEFINE e == Head(wire[c])
  <1>1. DataOK /\ StreamIn(Event)
    BY TypeParts
  <1>2. wire[c] # <<>> /\ e \in Event
    BY <1>1, HeadTailProperties DEF Handle, StreamIn
  <1>3. ASSUME NEW records \in Records, Consume(c, records) PROVE TypeOK'
    <2>1. StreamNext(Event)
      BY <1>1, <1>2, <1>3, ConsumeMoves
    <2>2. DataOK'
      BY <1>1, <1>3 DEF Consume, DataOK, Open, daemon
    <2>3. QED
      BY <2>1, <2>2, TypePartsNext
  <1>4. CASE e.event = "snapshot" /\ Consume(c, e.targets)
    BY <1>2, <1>3, <1>4, EventParts
  <1>5. CASE e.event = "target_changed" /\ e.target \notin DOMAIN cache[c] /\ End(c, "unknown")
    BY <1>5, EndTypes
  <1>6. CASE /\ e.event = "target_changed" /\ e.target \in DOMAIN cache[c]
             /\ LET r == cache[c][e.target] IN
                IF NextRevision(r, e)
                THEN Consume(c, [cache[c] EXCEPT ![e.target] =
                       [revision |-> e.revision, state |-> Apply(e.changed, r.state)]])
                ELSE End(c, "gap")
    <2> DEFINE r == cache[c][e.target]
               new == [revision |-> e.revision, state |-> Apply(e.changed, r.state)]
               records == [cache[c] EXCEPT ![e.target] = new]
    <2>1. cache[c] \in Records
      BY <1>1 DEF DataOK
    <2>2. DOMAIN cache[c] \in SUBSET Name /\ cache[c] \in [DOMAIN cache[c] -> Record]
      BY <2>1, RecordsElim
    <2>3. r \in Record /\ r.state \in State
      BY <1>6, <2>2 DEF Record
    <2>4. e.revision \in 0 .. MaxRevision /\ e.changed \in Changes
      BY <1>2, <1>6, EventParts, EventsAssumption
    <2>5. new \in Record
      BY <2>3, <2>4, ApplyIsState DEF Record
    <2>6. records \in [DOMAIN cache[c] -> Record]
      BY <2>2, <2>5
    <2>7. records \in Records
      BY <2>2, <2>6, RecordsIntro
    <2>8. CASE NextRevision(r, e)
      BY <1>3, <1>6, <2>7, <2>8
    <2>9. CASE ~NextRevision(r, e)
      BY <1>6, <2>9, EndTypes
    <2>10. QED
      BY <2>8, <2>9
  <1>7. QED
    BY <1>4, <1>5, <1>6 DEF Handle

LEMMA ServeTypes ==
  ASSUME TypeOK, NEW c \in Client, Serve(c) \/ Drop(c)
  PROVE  TypeOK'
  <1>1. DataOK /\ StreamIn(Event)
    BY TypeParts
  <1>2. CASE Forward(c)
    <2>1. StreamNext(Event)
      BY <1>1, <1>2, ForwardMoves
    <2>2. DataOK'
      BY <1>1, <1>2 DEF Forward, DataOK, Open, daemon
    <2>3. QED
      BY <2>1, <2>2, TypePartsNext
  <1>3. CASE Lag(c)
    <2>1. StreamNext(Event)
      BY <1>1, <1>3, LagMoves
    <2>2. DataOK'
      BY <1>1, <1>3 DEF Lag, DataOK, Open, daemon
    <2>3. QED
      BY <2>1, <2>2, TypePartsNext
  <1>4. CASE Handle(c)
    BY <1>4, HandleTypes
  <1>5. CASE Eof(c) \/ Drop(c)
    BY <1>5, EndTypes DEF Eof, Drop
  <1>6. QED
    BY <1>2, <1>3, <1>4, <1>5 DEF Serve

LEMMA TypeStep ==
  ASSUME TypeOK, [Next]_vars
  PROVE  TypeOK'
  <1>1. CASE Update \/ Add \/ Remove \/ Rename
    BY <1>1, UpdateTypes, AddTypes, RemoveTypes, RenameTypes
  <1>2. CASE \E w \in Writer : LateUpdate(w) \/ Emit(w)
    BY <1>2, LateUpdateTypes, EmitTypes
  <1>3. CASE \E c \in Client : Connect(c) \/ Serve(c) \/ Drop(c)
    BY <1>3, ConnectTypes, ServeTypes
  <1>4. CASE UNCHANGED vars
    BY <1>4 DEF TypeOK, Open, vars, daemon, stream
  <1>5. QED
    BY <1>1, <1>2, <1>3, <1>4 DEF Next

LEMMA InitTyped == Init => TypeOK
  <1> SUFFICES ASSUME Init PROVE TypeOK
    OBVIOUS
  <1>1. targets \in Records
    <2>1. PICK known \in SUBSET Name : targets = [n \in known |-> Blank]
      BY DEF Init
    <2>2. targets \in [known -> Record]
      BY <2>1, BlankIsRecord
    <2>3. QED
      BY <2>2, RecordsIntro
  <1>2. NoRecords \in Records
    <2>1. NoRecords \in [{} -> Record] /\ {} \in SUBSET Name
      BY DEF NoRecords
    <2>2. QED
      BY <2>1, RecordsIntro
  <1>3. <<>> \in Seq(Event) /\ Len(<<>>) = 0 /\ 0 <= Capacity /\ 0 <= Window
    BY EmptySeq, EventsAssumption
  <1>4. QED
    BY <1>1, <1>2, <1>3, BlankIsRecord DEF Init, TypeOK, Open

\* Every variable keeps to its set in every instance, and neither the broadcast
\* channel (supervisor.rs new) nor a connection ever exceeds its capacity.
THEOREM EventsTyped == Spec => []TypeOK
  <1>1. Init => TypeOK
    BY InitTyped
  <1>2. TypeOK /\ [Next]_vars => TypeOK'
    BY TypeStep
  <1>3. QED
    BY <1>1, <1>2, PTL DEF Spec

(***************************************************************************)
(* Faithful caches.  The invariant follows an event from the critical      *)
(* section that made it to the cache it ends up in: the event takes a past *)
(* record of its target to the next one, so applying it to a record with   *)
(* the preceding revision gives a past record again.  Names must not be    *)
(* used twice: a late event of a removed target could be applied to a new  *)
(* target of the same name.                                                *)
(***************************************************************************)
FaithfulSnapshot(e) ==
  e.event = "snapshot" => \A n \in DOMAIN e.targets : e.targets[n] \in past[n]

FaithfulChange(e) ==
  e.event = "target_changed" =>
    \E p \in past[e.target] :
      /\ p.revision + 1 = e.revision
      /\ [revision |-> e.revision, state |-> Apply(e.changed, p.state)] \in past[e.target]

Good == {e \in Event : FaithfulSnapshot(e) /\ FaithfulChange(e)}

\* A target's record is the last of its past, and a revision names one record.
PastOK ==
  /\ \A n \in DOMAIN targets :
       targets[n] \in past[n] /\ \A p \in past[n] : p.revision <= targets[n].revision
  /\ \A n \in Name : \A p, q \in past[n] : p.revision = q.revision => p = q

Faithful == TypeOK /\ PastOK /\ StreamIn(Good) /\ CacheIsFaithful

\* No step forgets a past record.
LEMMA PastGrows ==
  ASSUME "reuse" \notin Ops, TypeOK, [Next]_vars
  PROVE  \A n \in Name : past[n] \subseteq past'[n]
  <1>1. ASSUME NEW n \in DOMAIN targets, NEW changed, Change(n, changed)
        PROVE  \A m \in Name : past[m] \subseteq past'[m]
    BY <1>1 DEF Change, TypeOK
  <1>2. CASE Update
    BY <1>1, <1>2 DEF Update
  <1>3. CASE \E w \in Writer : LateUpdate(w)
    BY <1>1, <1>3 DEF LateUpdate
  <1>4. CASE Add
    BY <1>4 DEF Add, Free, TypeOK
  <1>5. CASE Rename
    BY <1>5, RenameMoves DEF Free, TypeOK
  <1>6. CASE Remove
    BY <1>6 DEF Remove
  <1>7. CASE UNCHANGED past
    BY <1>7
  <1>8. CASE \E w \in Writer : Emit(w)
    BY <1>7, <1>8 DEF Emit
  <1>9. CASE \E c \in Client : Connect(c) \/ Serve(c) \/ Drop(c)
    BY <1>7, <1>9 DEF Connect, Serve, Forward, Lag, Handle, Consume, Eof, Drop, End, daemon
  <1>10. QED
    BY <1>2, <1>3, <1>4, <1>5, <1>6, <1>7, <1>8, <1>9 DEF Next, vars, daemon

\* What is faithful stays faithful.
LEMMA GoodStays ==
  ASSUME \A n \in Name : past[n] \subseteq past'[n]
  PROVE  Good \subseteq Good'
  <1> SUFFICES ASSUME NEW e \in Good PROVE e \in Good'
    OBVIOUS
  <1>1. e \in Event /\ FaithfulSnapshot(e) /\ FaithfulChange(e)
    BY DEF Good
  <1>2. FaithfulSnapshot(e)'
    <2>1. ASSUME e.event = "snapshot" PROVE DOMAIN e.targets \in SUBSET Name
      BY <1>1, <2>1, EventParts, RecordsElim
    <2>2. QED
      BY <1>1, <2>1 DEF FaithfulSnapshot
  <1>3. FaithfulChange(e)'
    <2>1. ASSUME e.event = "target_changed" PROVE e.target \in Name
      BY <1>1, <2>1, EventParts
    <2>2. QED
      BY <1>1, <2>1 DEF FaithfulChange
  <1>4. QED
    BY <1>1, <1>2, <1>3 DEF Good

LEMMA StreamStays ==
  ASSUME NEW S, NEW T, StreamIn(S), S \subseteq T
  PROVE  StreamIn(T)
  <1>1. \A q \in Seq(S) : q \in Seq(T)
    BY SeqMonotonic
  <1>2. QED
    BY <1>1 DEF StreamIn

\* The snapshot of the present is faithful.
LEMMA SnapshotIsGood ==
  ASSUME TypeOK, PastOK
  PROVE  Snapshot(targets) \in Good
  <1>1. Snapshot(targets) \in Event
    BY SnapshotIsEvent DEF TypeOK
  <1>2. FaithfulSnapshot(Snapshot(targets)) /\ FaithfulChange(Snapshot(targets))
    BY DEF FaithfulSnapshot, FaithfulChange, Snapshot, PastOK
  <1>3. QED
    BY <1>1, <1>2 DEF Good

LEMMA SnapshotBecomesGood ==
  ASSUME NEW ts \in Records, \A n \in DOMAIN ts : ts[n] \in past'[n]
  PROVE  Snapshot(ts) \in Good'
  <1>1. Snapshot(ts) \in Event
    BY SnapshotIsEvent
  <1>2. FaithfulSnapshot(Snapshot(ts))' /\ FaithfulChange(Snapshot(ts))'
    BY DEF FaithfulSnapshot, FaithfulChange, Snapshot
  <1>3. QED
    BY <1>1, <1>2 DEF Good

LEMMA NextIsGood ==
  ASSUME NEW e \in Event, e.event = "target_changed", NEW p \in past'[e.target],
         p.revision + 1 = e.revision,
         [revision |-> e.revision, state |-> Apply(e.changed, p.state)] \in past'[e.target]
  PROVE  e \in Good'
  <1>1. FaithfulSnapshot(e)' /\ FaithfulChange(e)'
    BY DEF FaithfulSnapshot, FaithfulChange
  <1>2. QED
    BY <1>1 DEF Good

\* A change adds the record its event leads to.
LEMMA ChangeIsGood ==
  ASSUME TypeOK, PastOK, NEW n \in DOMAIN targets, NEW changed \in Changes,
         Change(n, changed)
  PROVE  PastOK' /\ TargetChanged(n, targets[n].revision + 1, changed) \in Good'
  <1> DEFINE e == TargetChanged(n, targets[n].revision + 1, changed)
             new == Changed(n, changed)
  <1>1. DataOK
    BY TypeParts
  <1>2. n \in Name /\ targets[n] \in Record /\ e \in Event
    BY <1>1, ChangedIsRecord DEF Change
  <1>3. past' = [past EXCEPT ![n] = @ \cup {new}] /\ targets' = With(n, new)
    BY DEF Change
  <1>4. past'[n] = past[n] \cup {new} /\ \A m \in Name \ {n} : past'[m] = past[m]
    BY <1>2, <1>3 DEF TypeOK
  <1>5. new.revision = targets[n].revision + 1 /\ targets[n].revision \in Nat
    BY <1>2, EventsAssumption DEF Changed, Record
  <1>6. \A m \in Name : \A p \in past[m] : p.revision \in Nat
    BY EventsAssumption DEF TypeOK, Record
  <1>7. targets[n] \in past[n] /\ \A p \in past[n] : p.revision < new.revision
    BY <1>2, <1>5, <1>6 DEF PastOK
  <1>8. DOMAIN targets \in SUBSET Name
    BY RecordsElim DEF TypeOK
  <1>9. PastOK'
    <2>1. /\ DOMAIN targets' = DOMAIN targets /\ targets'[n] = new
          /\ \A m \in DOMAIN targets \ {n} : targets'[m] = targets[m]
      BY <1>3 DEF With
    <2>2. \A m \in DOMAIN targets' :
            targets'[m] \in past'[m] /\ \A p \in past'[m] : p.revision <= targets'[m].revision
      BY <1>4, <1>5, <1>6, <1>7, <1>8, <2>1 DEF PastOK
    <2>3. \A m \in Name : \A p, q \in past'[m] : p.revision = q.revision => p = q
      BY <1>4, <1>7, <1>2, <1>5, <1>6 DEF PastOK
    <2>4. QED
      BY <2>2, <2>3 DEF PastOK
  <1>10. /\ e.event = "target_changed" /\ e.target = n /\ e.changed = changed
         /\ e.revision = targets[n].revision + 1
    BY DEF TargetChanged
  <1>11. /\ targets[n] \in past'[n]
         /\ [revision |-> e.revision, state |-> Apply(e.changed, targets[n].state)] \in past'[n]
    BY <1>4, <1>7, <1>10 DEF Changed
  <1>12. e \in Good'
    BY <1>2, <1>10, <1>11, NextIsGood
  <1>13. QED
    BY <1>9, <1>12

\* The caches hold past records, and so does what a snapshot puts into them.
LEMMA CacheStays ==
  ASSUME TypeOK, CacheIsFaithful, cache' = cache,
         \A n \in Name : past[n] \subseteq past'[n]
  PROVE  CacheIsFaithful'
  <1>1. \A c \in Client : DOMAIN cache[c] \in SUBSET Name
    BY RecordsElim DEF TypeOK
  <1>2. QED
    BY <1>1 DEF CacheIsFaithful

LEMMA CacheTakes ==
  ASSUME TypeOK, CacheIsFaithful, NEW c \in Client, NEW records, past' = past,
         Consume(c, records), \A n \in DOMAIN records : records[n] \in past[n]
  PROVE  CacheIsFaithful'
  <1>1. cache'[c] = records /\ \A d \in Client \ {c} : cache'[d] = cache[d]
    BY DEF Consume, TypeOK
  <1>2. QED
    BY <1>1 DEF CacheIsFaithful

\* A message of the stream leads the cache from past records to past records.
LEMMA HandleIsFaithful ==
  ASSUME Faithful, NEW c \in Client, Handle(c)
  PROVE  CacheIsFaithful'
  <1> DEFINE e == Head(wire[c])
  <1>1. e \in Good /\ e \in Event /\ FaithfulSnapshot(e) /\ FaithfulChange(e)
    <2>1. wire[c] \in Seq(Good) /\ wire[c] # <<>>
      BY DEF Faithful, StreamIn, Handle
    <2>2. e \in Good
      BY <2>1, HeadTailProperties
    <2>3. QED
      BY <2>2 DEF Good
  <1>2. past' = past /\ TypeOK /\ CacheIsFaithful
    BY DEF Handle, Consume, End, daemon, Faithful
  <1>3. ASSUME NEW why, End(c, why) PROVE CacheIsFaithful'
    BY <1>2, <1>3, CacheStays DEF End, daemon
  <1>4. CASE e.event = "snapshot" /\ Consume(c, e.targets)
    BY <1>1, <1>2, <1>4, CacheTakes DEF FaithfulSnapshot
  <1>5. CASE /\ e.event = "target_changed" /\ e.target \in DOMAIN cache[c]
             /\ LET r == cache[c][e.target] IN
                IF NextRevision(r, e)
                THEN Consume(c, [cache[c] EXCEPT ![e.target] =
                       [revision |-> e.revision, state |-> Apply(e.changed, r.state)]])
                ELSE End(c, "gap")
    <2> DEFINE r == cache[c][e.target]
               new == [revision |-> e.revision, state |-> Apply(e.changed, r.state)]
    <2>1. CASE NextRevision(r, e)
      <3>1. PICK p \in past[e.target] :
              /\ p.revision + 1 = e.revision
              /\ [revision |-> e.revision, state |-> Apply(e.changed, p.state)]
                   \in past[e.target]
        BY <1>1, <1>5 DEF FaithfulChange
      <3>2. e.target \in Name /\ r \in past[e.target]
        BY <1>1, <1>2, <1>5, EventParts DEF CacheIsFaithful
      <3>3. p \in Record /\ r \in Record
        BY <1>2, <3>2 DEF TypeOK
      <3>4. p.revision \in Nat /\ r.revision \in Nat
        BY <3>3, EventsAssumption DEF Record
      <3>5. p.revision = r.revision
        BY <2>1, <3>1, <3>4 DEF NextRevision
      <3>6. p = r
        BY <3>2, <3>5 DEF Faithful, PastOK
      <3>7. new \in past[e.target]
        BY <3>1, <3>6
      <3>8. cache[c] \in Records
        BY <1>2 DEF TypeOK
      <3>9. \A n \in DOMAIN [cache[c] EXCEPT ![e.target] = new] :
              [cache[c] EXCEPT ![e.target] = new][n] \in past[n]
        BY <1>2, <3>7, <3>8, RecordsElim DEF CacheIsFaithful
      <3>10. Consume(c, [cache[c] EXCEPT ![e.target] = new])
        BY <1>5, <2>1
      <3>11. QED
        BY <1>2, <3>9, <3>10, CacheTakes
    <2>2. CASE ~NextRevision(r, e)
      BY <1>3, <1>5, <2>2
    <2>3. QED
      BY <2>1, <2>2
  <1>6. CASE End(c, "unknown")
    BY <1>3, <1>6
  <1>7. QED
    BY <1>4, <1>5, <1>6 DEF Handle

(***************************************************************************)
(* The steps.  Each starts from faithful streams: what is in them is still *)
(* faithful after the step.                                                *)
(***************************************************************************)
LEMMA StreamGoodNext == StreamIn(Good)' <=> StreamNext(Good')
  BY DEF StreamIn, StreamNext

LEMMA ChangesAreFaithful ==
  ASSUME Faithful, StreamIn(Good'), \A n \in Name : past[n] \subseteq past'[n],
         Update \/ \E w \in Writer : LateUpdate(w)
  PROVE  PastOK' /\ StreamNext(Good') /\ CacheIsFaithful'
  <1>1. TypeOK /\ PastOK /\ CacheIsFaithful
    BY DEF Faithful
  <1>2. CASE Update
    <2>1. PICK n \in DOMAIN targets, F \in SUBSET Field \ {{}} :
            /\ Change(n, Toggled(n, F))
            /\ Send(TargetChanged(n, targets[n].revision + 1, Toggled(n, F)))
            /\ UNCHANGED emitting
      BY <1>2 DEF Update
    <2> DEFINE e == TargetChanged(n, targets[n].revision + 1, Toggled(n, F))
    <2>2. Toggled(n, F) \in Changes
      BY <1>1, ToggledIsChange DEF TypeOK
    <2>3. PastOK' /\ e \in Good'
      BY <1>1, <2>1, <2>2, ChangeIsGood
    <2>4. emitting' \in [Writer -> Good' \cup {NoEvent}]
      BY <2>1 DEF StreamIn
    <2>5. StreamNext(Good')
      BY <2>1, <2>3, <2>4, SendMoves
    <2>6. CacheIsFaithful'
      BY <1>1, <2>1, CacheStays DEF Send
    <2>7. QED
      BY <2>3, <2>5, <2>6
  <1>3. ASSUME NEW w \in Writer, LateUpdate(w)
        PROVE  PastOK' /\ StreamNext(Good') /\ CacheIsFaithful'
    <2>1. PICK n \in DOMAIN targets, F \in SUBSET Observed \ {{}} :
            /\ Change(n, Toggled(n, F))
            /\ emitting' = [emitting EXCEPT ![w] =
                 TargetChanged(n, targets[n].revision + 1, Toggled(n, F))]
      BY <1>3 DEF LateUpdate
    <2>2. Toggled(n, F) \in Changes
      BY <1>1, ToggledIsChange, EventsAssumption DEF TypeOK
    <2>3. PastOK' /\ TargetChanged(n, targets[n].revision + 1, Toggled(n, F)) \in Good'
      BY <1>1, <2>1, <2>2, ChangeIsGood
    <2>4. UNCHANGED <<stream, status, cache>>
      BY <1>3 DEF LateUpdate
    <2>5. StreamNext(Good')
      BY <2>1, <2>3, <2>4 DEF StreamIn, StreamNext, stream
    <2>6. CacheIsFaithful'
      BY <1>1, <2>4, CacheStays
    <2>7. QED
      BY <2>3, <2>5, <2>6
  <1>4. QED
    BY <1>2, <1>3

\* add, remove and rename.
LEMMA SnapshotsAreFaithful ==
  ASSUME Faithful, StreamIn(Good'), \A n \in Name : past[n] \subseteq past'[n],
         TypeOK', PastOK', Send(Snapshot(targets')), UNCHANGED emitting
  PROVE  StreamNext(Good') /\ CacheIsFaithful'
  <1>1. Snapshot(targets') \in Good'
    BY SnapshotBecomesGood DEF TypeOK, PastOK
  <1>2. emitting' \in [Writer -> Good' \cup {NoEvent}]
    BY DEF StreamIn
  <1>3. StreamNext(Good')
    BY <1>1, <1>2, SendMoves
  <1>4. CacheIsFaithful'
    BY CacheStays DEF Faithful, Send
  <1>5. QED
    BY <1>3, <1>4

\* A free name has no past yet, so its first record is its only one.
LEMMA AdministrationKeepsPast ==
  ASSUME "reuse" \notin Ops, TypeOK, PastOK, Add \/ Remove \/ Rename
  PROVE  PastOK'
  <1>1. DOMAIN targets \in SUBSET Name
    BY RecordsElim DEF TypeOK
  <1>2. CASE Add
    <2>1. PICK n \in Free : targets' = With(n, Blank) /\ past' = [past EXCEPT ![n] = {Blank}]
      BY <1>2 DEF Add
    <2>2. n \in Name /\ n \notin DOMAIN targets
      BY DEF Free
    <2>3. past'[n] = {Blank} /\ \A m \in Name \ {n} : past'[m] = past[m]
      BY <2>1, <2>2 DEF TypeOK
    <2>4. /\ DOMAIN targets' = DOMAIN targets \cup {n} /\ targets'[n] = Blank
          /\ \A m \in DOMAIN targets : targets'[m] = targets[m]
      BY <2>1, <2>2 DEF With
    <2>5. Blank.revision = 0
      BY DEF Blank
    <2>6. QED
      BY <1>1, <2>2, <2>3, <2>4, <2>5 DEF PastOK
  <1>3. CASE Remove
    BY <1>3 DEF Remove, Without, PastOK
  <1>4. CASE Rename
    <2>1. PICK n \in DOMAIN targets, m \in Free, moved \in Record :
            /\ m \in Name /\ moved.revision \in Nat
            /\ targets' = [k \in (DOMAIN targets \ {n}) \cup {m} |->
                             IF k = m THEN moved ELSE targets[k]]
            /\ past' = [past EXCEPT ![m] = {moved}]
      BY <1>4, RenameMoves
    <2>2. m \notin DOMAIN targets
      BY DEF Free
    <2>3. past'[m] = {moved} /\ \A k \in Name \ {m} : past'[k] = past[k]
      BY <2>1 DEF TypeOK
    <2>4. /\ DOMAIN targets' = (DOMAIN targets \ {n}) \cup {m} /\ targets'[m] = moved
          /\ \A k \in DOMAIN targets \ {n} : targets'[k] = targets[k]
      BY <2>1, <2>2
    <2>5. QED
      BY <1>1, <2>1, <2>2, <2>3, <2>4 DEF PastOK
  <1>5. QED
    BY <1>2, <1>3, <1>4

LEMMA ConnectionsAreFaithful ==
  ASSUME Faithful, StreamIn(Good'), \A n \in Name : past[n] \subseteq past'[n],
         Good \subseteq Good', NEW c \in Client, Connect(c) \/ Serve(c) \/ Drop(c)
  PROVE  PastOK' /\ StreamNext(Good') /\ CacheIsFaithful'
  <1>1. TypeOK /\ PastOK /\ CacheIsFaithful
    BY DEF Faithful
  <1>2. PastOK'
    <2>1. UNCHANGED <<targets, past>>
      BY DEF Connect, Serve, Forward, Lag, Handle, Consume, Eof, Drop, End, daemon
    <2>2. QED
      BY <1>1, <2>1 DEF PastOK
  <1>3. CASE Connect(c)
    <2>1. Snapshot(targets) \in Good'
      BY <1>1, SnapshotIsGood
    <2>2. QED
      BY <1>1, <1>2, <1>3, <2>1, ConnectMoves, CacheStays DEF Connect
  <1>4. CASE Forward(c)
    BY <1>1, <1>2, <1>4, ForwardMoves, CacheStays DEF Forward
  <1>5. CASE Lag(c)
    BY <1>1, <1>2, <1>5, LagMoves, CacheStays DEF Lag
  <1>6. CASE Handle(c)
    BY <1>2, <1>6, HandleMoves, HandleIsFaithful
  <1>7. CASE Eof(c) \/ Drop(c)
    <2>1. End(c, "closed")
      BY <1>7 DEF Eof, Drop
    <2>2. QED
      BY <1>1, <1>2, <2>1, EndMoves, CacheStays DEF End
  <1>8. QED
    BY <1>3, <1>4, <1>5, <1>6, <1>7 DEF Serve

LEMMA FaithfulStep ==
  ASSUME "reuse" \notin Ops, Faithful, [Next]_vars
  PROVE  Faithful'
  <1>1. TypeOK /\ PastOK /\ StreamIn(Good) /\ CacheIsFaithful
    BY DEF Faithful
  <1>2. TypeOK'
    BY <1>1, TypeStep
  <1>3. (\A n \in Name : past[n] \subseteq past'[n]) /\ Good \subseteq Good'
    BY <1>1, PastGrows, GoodStays
  <1>4. StreamIn(Good')
    BY <1>1, <1>3, StreamStays
  <1>5. SUFFICES PastOK' /\ StreamNext(Good') /\ CacheIsFaithful'
    BY <1>2, StreamGoodNext DEF Faithful
  <1>6. CASE Update \/ \E w \in Writer : LateUpdate(w)
    BY <1>3, <1>4, <1>6, ChangesAreFaithful
  <1>7. CASE Add \/ Remove \/ Rename
    <2>1. PastOK'
      BY <1>1, <1>7, AdministrationKeepsPast
    <2>2. Send(Snapshot(targets')) /\ UNCHANGED emitting
      BY <1>7 DEF Add, Remove, Rename
    <2>3. QED
      BY <1>2, <1>3, <1>4, <2>1, <2>2, SnapshotsAreFaithful
  <1>8. ASSUME NEW w \in Writer, Emit(w)
        PROVE  PastOK' /\ StreamNext(Good') /\ CacheIsFaithful'
    <2>1. UNCHANGED <<targets, past, cache>> /\ Send(emitting[w])
      BY <1>8 DEF Emit, Send
    <2>2. emitting[w] \in Good' /\ emitting' \in [Writer -> Good' \cup {NoEvent}]
      BY <1>4, <1>8 DEF Emit, StreamIn
    <2>3. StreamNext(Good')
      BY <1>4, <2>1, <2>2, SendMoves
    <2>4. PastOK' /\ CacheIsFaithful'
      BY <1>1, <1>3, <2>1, CacheStays DEF PastOK
    <2>5. QED
      BY <2>3, <2>4
  <1>9. CASE \E c \in Client : Connect(c) \/ Serve(c) \/ Drop(c)
    BY <1>3, <1>4, <1>9, ConnectionsAreFaithful
  <1>10. CASE UNCHANGED vars
    <2>1. UNCHANGED <<targets, past, emitting, queue, wire, cache>>
      BY <1>10 DEF vars, daemon, stream
    <2>2. PastOK' /\ CacheIsFaithful'
      BY <1>1, <1>3, <2>1, CacheStays DEF PastOK
    <2>3. StreamNext(Good')
      BY <1>4, <2>1 DEF StreamIn, StreamNext
    <2>4. QED
      BY <2>2, <2>3
  <1>11. QED
    BY <1>6, <1>7, <1>8, <1>9, <1>10 DEF Next

LEMMA FaithfulInit == Init => Faithful
  <1> SUFFICES ASSUME Init PROVE Faithful
    OBVIOUS
  <1>1. TypeOK
    BY InitTyped
  <1>2. PICK known \in SUBSET Name : targets = [n \in known |-> Blank]
    BY DEF Init
  <1>3. \A n \in Name : past[n] = IF n \in known THEN {Blank} ELSE {}
    BY <1>2 DEF Init
  <1>4. PastOK
    <2>1. \A n \in known : targets[n] = Blank /\ past[n] = {Blank}
      BY <1>2, <1>3
    <2>2. Blank.revision = 0
      BY DEF Blank
    <2>3. QED
      BY <1>2, <1>3, <2>1, <2>2 DEF PastOK
  <1>5. StreamIn(Good)
    <2>1. <<>> \in Seq(Good) /\ Len(<<>>) = 0 /\ 0 <= Capacity /\ 0 <= Window
      BY EmptySeq, EventsAssumption
    <2>2. QED
      BY <2>1 DEF Init, StreamIn
  <1>6. CacheIsFaithful
    BY DEF Init, NoRecords, CacheIsFaithful
  <1>7. QED
    BY <1>1, <1>4, <1>5, <1>6 DEF Faithful

\* Where names are used once, no client ever shows a record the daemon did not
\* have: neither the events sent after their critical section (LateUpdate), nor
\* lag, nor reconnects can make apply_target_change build one.
THEOREM CachesAreFaithful ==
  ASSUME "reuse" \notin Ops
  PROVE  Spec => []CacheIsFaithful
  <1>1. Faithful /\ [Next]_vars => Faithful'
    BY FaithfulStep
  <1>2. Faithful => CacheIsFaithful
    BY DEF Faithful
  <1>3. QED
    BY <1>1, <1>2, FaithfulInit, PTL DEF Spec

(***************************************************************************)
(* What is shown never goes back.  A change is applied to the preceding    *)
(* revision only, so what matters is that the snapshots on their way are   *)
(* in order, with one another and with the changes before them: each was   *)
(* taken and sent in one critical section (emit_snapshot,                  *)
(* snapshot_and_subscribe), and tells of no target less than any event     *)
(* that was sent before it, since that is past then (Good).                *)
(***************************************************************************)
\* Nothing event e tells is newer than the records ts.
UpTo(e, ts) ==
  /\ e.event = "snapshot" =>
       \A n \in DOMAIN ts \cap DOMAIN e.targets : e.targets[n].revision <= ts[n].revision
  /\ e.event = "target_changed" /\ e.target \in DOMAIN ts => e.revision <= ts[e.target].revision

Before(e, f) == f.event = "snapshot" => UpTo(e, f.targets)

Sorted(q) == \A i, j \in 1 .. Len(q) : i < j => Before(q[i], q[j])
Precedes(e, q) == \A i \in 1 .. Len(q) : Before(e, q[i])

\* Records shown, the messages that are still to be applied to them, and the
\* events that are still to be forwarded.
InOrder(shown, sent, unread) ==
  /\ Precedes(Snapshot(shown), sent) /\ Precedes(Snapshot(shown), unread)
  /\ Sorted(sent) /\ Sorted(unread)
  /\ \A i \in 1 .. Len(sent) : Precedes(sent[i], unread)

OrderInv ==
  \A c \in Client :
    InOrder(cache[c], wire[c], queue[c]) /\ (c \notin Open => queue[c] = <<>>)

\* What is sent after its critical section is never a snapshot.
LateAreChanges ==
  \A w \in Writer : emitting[w] # NoEvent => emitting[w].event = "target_changed"

\* What a faithful event tells is not newer than the daemon's records.
LEMMA GoodIsPast ==
  ASSUME TypeOK', PastOK', NEW e \in Good'
  PROVE  UpTo(e, targets')
  <1>1. e \in Event /\ FaithfulSnapshot(e)' /\ FaithfulChange(e)'
    BY DEF Good
  <1>2. DOMAIN targets' \in SUBSET Name
    BY RecordsElim DEF TypeOK
  <1>3. \A n \in DOMAIN targets' : \A p \in past'[n] : p.revision <= targets'[n].revision
    BY DEF PastOK
  <1>4. ASSUME e.event = "snapshot", NEW n \in DOMAIN targets' \cap DOMAIN e.targets
        PROVE  e.targets[n].revision <= targets'[n].revision
    BY <1>1, <1>3, <1>4 DEF FaithfulSnapshot
  <1>5. ASSUME e.event = "target_changed", e.target \in DOMAIN targets'
        PROVE  e.revision <= targets'[e.target].revision
    <2>1. PICK p \in past'[e.target] :
            [revision |-> e.revision, state |-> Apply(e.changed, p.state)] \in past'[e.target]
      BY <1>1, <1>5 DEF FaithfulChange
    <2>2. QED
      BY <1>3, <1>5, <2>1
  <1>6. QED
    BY <1>4, <1>5 DEF UpTo

(***************************************************************************)
(* How the order survives each kind of step.                               *)
(***************************************************************************)
LEMMA OrderEmpty ==
  ASSUME NEW shown
  PROVE  InOrder(shown, <<>>, <<>>)
  <1>1. Len(<<>>) = 0
    OBVIOUS
  <1>2. 1 .. 0 = {}
    OBVIOUS
  <1>3. QED
    BY <1>1, <1>2 DEF InOrder, Precedes, Sorted

\* A receiver that lags loses its oldest event.
LEMMA TailSorted ==
  ASSUME NEW S, NEW q \in Seq(S), q # <<>>, Sorted(q)
  PROVE  /\ Sorted(Tail(q)) /\ Precedes(Head(q), Tail(q))
         /\ \A e : Precedes(e, q) => Precedes(e, Tail(q))
  <1>1. /\ Tail(q) \in Seq(S) /\ Len(Tail(q)) = Len(q) - 1 /\ Len(q) \in Nat \ {0}
        /\ \A i \in 1 .. Len(Tail(q)) : Tail(q)[i] = q[i + 1]
        /\ Head(q) = q[1]
    BY HeadTailProperties, EmptySeq
  <1>2. \A i \in 1 .. Len(Tail(q)) : i + 1 \in 1 .. Len(q) /\ i \in Nat \ {0}
    BY <1>1
  <1>3. Sorted(Tail(q))
    BY <1>1, <1>2 DEF Sorted
  <1>4. Precedes(Head(q), Tail(q))
    BY <1>1, <1>2 DEF Sorted, Precedes
  <1>5. QED
    BY <1>1, <1>2, <1>3, <1>4 DEF Precedes

LEMMA AppendSorted ==
  ASSUME NEW S, NEW q \in Seq(S), NEW f
  PROVE  /\ \A e : Precedes(e, q) /\ Before(e, f) => Precedes(e, Append(q, f))
         /\ Sorted(q) /\ (\A i \in 1 .. Len(q) : Before(q[i], f)) => Sorted(Append(q, f))
  <1>1. q \in Seq(S \cup {f}) /\ Len(q) \in Nat
    BY SeqMonotonic, LenProperties
  <1>2. /\ Len(Append(q, f)) = Len(q) + 1
        /\ \A i \in 1 .. Len(q) : Append(q, f)[i] = q[i]
        /\ Append(q, f)[Len(q) + 1] = f
    BY <1>1, AppendProperties
  <1>3. 1 .. Len(q) + 1 = (1 .. Len(q)) \cup {Len(q) + 1}
    BY <1>1
  <1>4. ASSUME NEW e, Precedes(e, q), Before(e, f)
        PROVE  Precedes(e, Append(q, f))
    BY <1>2, <1>3, <1>4 DEF Precedes
  <1>5. ASSUME Sorted(q), \A i \in 1 .. Len(q) : Before(q[i], f)
        PROVE  Sorted(Append(q, f))
    <2> SUFFICES ASSUME NEW i \in 1 .. Len(q) + 1, NEW j \in 1 .. Len(q) + 1, i < j
                 PROVE  Before(Append(q, f)[i], Append(q, f)[j])
      BY <1>2 DEF Sorted
    <2>1. i \in 1 .. Len(q)
      BY <1>1
    <2>2. CASE j \in 1 .. Len(q)
      BY <1>2, <1>5, <2>1, <2>2 DEF Sorted
    <2>3. CASE j = Len(q) + 1
      BY <1>2, <1>5, <2>1, <2>3
    <2>4. QED
      BY <1>3, <2>2, <2>3
  <1>6. QED
    BY <1>4, <1>5

\* emit_changed and emit_snapshot send what nothing on its way is ahead of.
LEMMA OrderSend ==
  ASSUME NEW S, NEW shown, NEW sent \in Seq(S), NEW unread \in Seq(S),
         InOrder(shown, sent, unread), NEW f \in S,
         Before(Snapshot(shown), f), \A e \in S : Before(e, f)
  PROVE  InOrder(shown, sent, Push(unread, f))
  <1>1. ASSUME NEW q \in Seq(S), InOrder(shown, sent, q)
        PROVE  InOrder(shown, sent, Append(q, f))
    <2>1. \A i \in 1 .. Len(q) : Before(q[i], f)
      BY ElementOfSeq
    <2>2. Sorted(Append(q, f)) /\ Precedes(Snapshot(shown), Append(q, f))
      BY <1>1, <2>1, AppendSorted DEF InOrder
    <2>3. \A i \in 1 .. Len(sent) : Precedes(sent[i], q) /\ Before(sent[i], f)
      BY <1>1, ElementOfSeq DEF InOrder
    <2>4. \A i \in 1 .. Len(sent) : Precedes(sent[i], Append(q, f))
      BY <2>3, AppendSorted
    <2>5. QED
      BY <1>1, <2>2, <2>4 DEF InOrder
  <1>2. CASE Len(unread) < Capacity
    BY <1>1, <1>2 DEF Push
  <1>3. CASE ~(Len(unread) < Capacity)
    <2>1. unread # <<>>
      BY <1>3, EmptySeq, EventsAssumption
    <2>2. Tail(unread) \in Seq(S)
      BY <2>1, HeadTailProperties
    <2>3. InOrder(shown, sent, Tail(unread))
      BY <2>1, TailSorted DEF InOrder
    <2>4. QED
      BY <1>1, <1>3, <2>2, <2>3 DEF Push
  <1>4. QED
    BY <1>2, <1>3

LEMMA OrderForward ==
  ASSUME NEW S, NEW shown, NEW sent \in Seq(S), NEW unread \in Seq(S), unread # <<>>,
         InOrder(shown, sent, unread)
  PROVE  InOrder(shown, Append(sent, Head(unread)), Tail(unread))
  <1> DEFINE f == Head(unread)
             more == Append(sent, f)
  <1>1. f = unread[1] /\ 1 \in 1 .. Len(unread)
    BY EmptySeq
  <1>2. Before(Snapshot(shown), f) /\ \A i \in 1 .. Len(sent) : Before(sent[i], f)
    BY <1>1 DEF InOrder, Precedes
  <1>3. Sorted(more) /\ Precedes(Snapshot(shown), more)
    BY <1>2, AppendSorted DEF InOrder
  <1>4. /\ Sorted(Tail(unread)) /\ Precedes(f, Tail(unread))
        /\ Precedes(Snapshot(shown), Tail(unread))
        /\ \A i \in 1 .. Len(sent) : Precedes(sent[i], Tail(unread))
    BY TailSorted DEF InOrder
  <1>5. f \in S /\ Len(sent) \in Nat
    BY HeadTailProperties, LenProperties
  <1>6. /\ Len(more) = Len(sent) + 1
        /\ \A i \in 1 .. Len(sent) : more[i] = sent[i]
        /\ more[Len(sent) + 1] = f
    BY <1>5, AppendProperties
  <1>7. \A i \in 1 .. Len(more) : i \in 1 .. Len(sent) \/ i = Len(sent) + 1
    BY <1>5, <1>6
  <1>8. \A i \in 1 .. Len(more) : Precedes(more[i], Tail(unread))
    BY <1>4, <1>6, <1>7
  <1>9. QED
    BY <1>3, <1>4, <1>8 DEF InOrder

\* The message that is applied came before the ones that are left.
LEMMA OrderConsume ==
  ASSUME NEW S, NEW shown, NEW sent \in Seq(S), NEW unread \in Seq(S), sent # <<>>,
         InOrder(shown, sent, unread), NEW next,
         \A f : Before(Snapshot(shown), f) /\ Before(Head(sent), f) => Before(Snapshot(next), f)
  PROVE  InOrder(next, Tail(sent), unread)
  <1>1. Head(sent) = sent[1] /\ 1 \in 1 .. Len(sent)
    BY EmptySeq
  <1>2. /\ Sorted(Tail(sent)) /\ Precedes(Head(sent), Tail(sent))
        /\ Precedes(Snapshot(shown), Tail(sent))
    BY TailSorted DEF InOrder
  <1>3. Precedes(Head(sent), unread) /\ Precedes(Snapshot(shown), unread)
    BY <1>1 DEF InOrder
  <1>4. Precedes(Snapshot(next), Tail(sent)) /\ Precedes(Snapshot(next), unread)
    BY <1>2, <1>3 DEF Precedes
  <1>5. /\ Len(Tail(sent)) = Len(sent) - 1 /\ Len(sent) \in Nat \ {0}
        /\ \A i \in 1 .. Len(Tail(sent)) : Tail(sent)[i] = sent[i + 1]
    BY HeadTailProperties, EmptySeq
  <1>6. \A i \in 1 .. Len(Tail(sent)) : i + 1 \in 1 .. Len(sent)
    BY <1>5
  <1>7. \A i \in 1 .. Len(Tail(sent)) : Precedes(Tail(sent)[i], unread)
    BY <1>5, <1>6 DEF InOrder
  <1>8. QED
    BY <1>2, <1>4, <1>7 DEF InOrder

\* Applying a message shows no target older, and nothing newer than the shown
\* records and the message tell.
LEMMA HandleMovesForward ==
  ASSUME TypeOK, NEW c \in Client, InOrder(cache[c], wire[c], queue[c]), Handle(c)
  PROVE  \/ \E why : End(c, why)
         \/ \E next \in Records :
              /\ Consume(c, next)
              /\ \A n \in DOMAIN cache[c] \cap DOMAIN next :
                   cache[c][n].revision <= next[n].revision
              /\ \A f : Before(Snapshot(cache[c]), f) /\ Before(Head(wire[c]), f) =>
                          Before(Snapshot(next), f)
  <1> DEFINE e == Head(wire[c])
  <1>1. DataOK /\ StreamIn(Event) /\ wire[c] # <<>>
    BY TypeParts DEF Handle
  <1>2. /\ e \in Event /\ wire[c] \in Seq(Event)
        /\ e = wire[c][1] /\ 1 \in 1 .. Len(wire[c])
    BY <1>1, HeadTailProperties, EmptySeq DEF StreamIn
  <1>3. CASE e.event = "snapshot" /\ Consume(c, e.targets)
    <2>1. Before(Snapshot(cache[c]), e)
      BY <1>2 DEF InOrder, Precedes
    <2>2. \A n \in DOMAIN cache[c] \cap DOMAIN e.targets :
            cache[c][n].revision <= e.targets[n].revision
      BY <1>3, <2>1 DEF Before, UpTo, Snapshot
    <2>3. \A f : Before(e, f) => Before(Snapshot(e.targets), f)
      BY <1>3 DEF Before, UpTo, Snapshot
    <2>4. e.targets \in Records
      BY <1>2, <1>3, EventParts
    <2>5. QED
      BY <1>3, <2>2, <2>3, <2>4
  <1>4. CASE /\ e.event = "target_changed" /\ e.target \in DOMAIN cache[c]
             /\ LET r == cache[c][e.target] IN
                IF NextRevision(r, e)
                THEN Consume(c, [cache[c] EXCEPT ![e.target] =
                       [revision |-> e.revision, state |-> Apply(e.changed, r.state)]])
                ELSE End(c, "gap")
    <2> DEFINE r == cache[c][e.target]
               new == [revision |-> e.revision, state |-> Apply(e.changed, r.state)]
               next == [cache[c] EXCEPT ![e.target] = new]
    <2>1. CASE ~NextRevision(r, e)
      BY <1>4, <2>1
    <2>2. CASE NextRevision(r, e)
      <3>1. Consume(c, next)
        BY <1>4, <2>2
      <3>2. /\ DOMAIN cache[c] \in SUBSET Name /\ cache[c] \in [DOMAIN cache[c] -> Record]
        BY <1>1, RecordsElim DEF DataOK
      <3>3. \A n \in DOMAIN cache[c] : cache[c][n].revision \in Nat /\ cache[c][n].state \in State
        BY <3>2, EventsAssumption DEF Record
      <3>4. /\ DOMAIN next = DOMAIN cache[c] /\ next[e.target].revision = e.revision
            /\ \A n \in DOMAIN cache[c] \ {e.target} : next[n] = cache[c][n]
        BY <1>4, <3>2
      <3>5. \A n \in DOMAIN cache[c] : cache[c][n].revision <= next[n].revision
        BY <1>4, <2>2, <3>3, <3>4 DEF NextRevision
      <3>6. ASSUME NEW f, Before(Snapshot(cache[c]), f), Before(e, f)
            PROVE  Before(Snapshot(next), f)
        BY <1>4, <3>4, <3>6 DEF Before, UpTo, Snapshot
      <3>7. next \in Records
        <4>1. e.revision \in 0 .. MaxRevision /\ e.changed \in Changes
          BY <1>2, <1>4, EventParts, EventsAssumption
        <4>2. new \in Record
          BY <1>4, <3>3, <4>1, ApplyIsState DEF Record
        <4>3. next \in [DOMAIN cache[c] -> Record]
          BY <3>2, <4>2
        <4>4. QED
          BY <3>2, <4>3, RecordsIntro
      <3>8. QED
        BY <3>1, <3>4, <3>5, <3>6, <3>7
    <2>3. QED
      BY <2>1, <2>2
  <1>5. CASE End(c, "unknown")
    BY <1>5
  <1>6. QED
    BY <1>3, <1>4, <1>5 DEF Handle

\* What one connection's step does to its own messages, with the other
\* connections left alone.
LEMMA OrderElsewhere ==
  ASSUME OrderInv, NEW c \in Client,
         \A d \in Client \ {c} : /\ queue'[d] = queue[d] /\ wire'[d] = wire[d]
                                 /\ cache'[d] = cache[d] /\ status'[d] = status[d],
         InOrder(cache'[c], wire'[c], queue'[c]),
         status'[c] # "open" => queue'[c] = <<>>
  PROVE  OrderInv'
  BY DEF OrderInv, Open

LEMMA OrderSent ==
  ASSUME TypeOK, StreamIn(Good'), OrderInv, NEW f \in Good', Send(f),
         \A e \in Good' : Before(e, f),
         \A c \in Client : Snapshot(cache[c]) \in Good'
  PROVE  OrderInv'
  <1> SUFFICES ASSUME NEW c \in Client
               PROVE  /\ InOrder(cache'[c], wire'[c], queue'[c])
                      /\ c \notin Open' => queue'[c] = <<>>
    BY DEF OrderInv
  <1>1. /\ cache' = cache /\ wire' = wire /\ status' = status /\ Open' = Open
        /\ queue'[c] = IF c \in Open THEN Push(queue[c], f) ELSE queue[c]
    BY DEF Send, Open
  <1>2. /\ InOrder(cache[c], wire[c], queue[c]) /\ (c \notin Open => queue[c] = <<>>)
        /\ queue[c] \in Seq(Good') /\ wire[c] \in Seq(Good')
    BY DEF OrderInv, StreamIn
  <1>3. InOrder(cache[c], wire[c], Push(queue[c], f))
    BY <1>2, OrderSend
  <1>4. QED
    BY <1>1, <1>2, <1>3

\* A change is in order anywhere, and a snapshot is in order where it is taken.
LEMMA ChangeInOrder ==
  ASSUME NEW e, NEW n, NEW r, NEW changed
  PROVE  Before(e, TargetChanged(n, r, changed))
  BY DEF Before, TargetChanged

LEMMA OrderServe ==
  ASSUME Faithful, OrderInv, NEW c \in Client, Serve(c) \/ Drop(c)
  PROVE  OrderInv'
  <1>1. /\ InOrder(cache[c], wire[c], queue[c]) /\ (c \notin Open => queue[c] = <<>>)
        /\ queue[c] \in Seq(Good) /\ wire[c] \in Seq(Good) /\ TypeOK
    BY DEF OrderInv, StreamIn, Faithful
  <1>2. ASSUME NEW why, End(c, why) PROVE OrderInv'
    <2>1. /\ \A d \in Client \ {c} : /\ queue'[d] = queue[d] /\ wire'[d] = wire[d]
                                     /\ cache'[d] = cache[d] /\ status'[d] = status[d]
          /\ cache'[c] = cache[c] /\ wire'[c] = <<>> /\ queue'[c] = <<>>
      BY <1>1, <1>2 DEF End, TypeOK
    <2>2. QED
      BY <2>1, OrderEmpty, OrderElsewhere
  <1>3. CASE Forward(c)
    <2>1. /\ \A d \in Client \ {c} : /\ queue'[d] = queue[d] /\ wire'[d] = wire[d]
                                     /\ cache'[d] = cache[d] /\ status'[d] = status[d]
          /\ cache'[c] = cache[c] /\ wire'[c] = Append(wire[c], Head(queue[c]))
          /\ queue'[c] = Tail(queue[c]) /\ queue[c] # <<>> /\ status'[c] = "open"
      BY <1>1, <1>3 DEF Forward, TypeOK, Open
    <2>2. InOrder(cache'[c], wire'[c], queue'[c])
      BY <1>1, <2>1, OrderForward
    <2>3. QED
      BY <2>1, <2>2, OrderElsewhere
  <1>4. CASE Lag(c)
    <2>1. /\ \A d \in Client \ {c} : /\ queue'[d] = queue[d] /\ wire'[d] = wire[d]
                                     /\ cache'[d] = cache[d] /\ status'[d] = status[d]
          /\ cache'[c] = cache[c] /\ wire'[c] = wire[c] /\ queue'[c] = <<>>
      BY <1>1, <1>4 DEF Lag, TypeOK
    <2>2. Len(<<>>) = 0 /\ 1 .. 0 = {}
      OBVIOUS
    <2>3. InOrder(cache[c], wire[c], <<>>)
      BY <1>1, <2>2 DEF InOrder, Precedes, Sorted
    <2>4. QED
      BY <2>1, <2>3, OrderElsewhere
  <1>5. CASE Handle(c)
    <2>1. CASE \E why : End(c, why)
      BY <1>2, <2>1
    <2>2. ASSUME NEW next \in Records, Consume(c, next), wire[c] # <<>>,
                 \A f : Before(Snapshot(cache[c]), f) /\ Before(Head(wire[c]), f) =>
                          Before(Snapshot(next), f)
          PROVE  OrderInv'
      <3>1. /\ \A d \in Client \ {c} : /\ queue'[d] = queue[d] /\ wire'[d] = wire[d]
                                       /\ cache'[d] = cache[d] /\ status'[d] = status[d]
            /\ cache'[c] = next /\ wire'[c] = Tail(wire[c]) /\ queue'[c] = queue[c]
            /\ status'[c] = status[c]
        BY <1>1, <2>2 DEF Consume, TypeOK
      <3>2. InOrder(cache'[c], wire'[c], queue'[c])
        BY <1>1, <2>2, <3>1, OrderConsume
      <3>3. QED
        BY <1>1, <3>1, <3>2, OrderElsewhere DEF Open
    <2>3. wire[c] # <<>>
      BY <1>5 DEF Handle
    <2>4. QED
      BY <1>1, <1>5, <2>1, <2>2, <2>3, HandleMovesForward
  <1>6. CASE Eof(c) \/ Drop(c)
    BY <1>2, <1>6 DEF Eof, Drop
  <1>7. QED
    BY <1>3, <1>4, <1>5, <1>6 DEF Serve

\* The snapshot a connection begins with is of now, and its stream is empty.
LEMMA OrderConnect ==
  ASSUME Faithful, OrderInv, NEW c \in Client, Connect(c)
  PROVE  OrderInv'
  <1>1. /\ TypeOK /\ PastOK /\ CacheIsFaithful /\ status[c] = "none" /\ queue[c] = <<>>
    BY DEF Faithful, OrderInv, Open, Connect
  <1>2. TypeOK' /\ PastOK' /\ CacheIsFaithful' /\ UNCHANGED <<targets, past, queue, cache>>
    BY <1>1, ConnectTypes DEF Connect, daemon, PastOK, CacheIsFaithful
  <1>3. Snapshot(cache[c]) \in Good'
    BY <1>1, <1>2, SnapshotBecomesGood DEF TypeOK, CacheIsFaithful
  <1>4. UpTo(Snapshot(cache[c]), targets)
    BY <1>2, <1>3, GoodIsPast
  <1> DEFINE first == Snapshot(targets)
  <1>5. Before(Snapshot(cache[c]), first)
    BY <1>4 DEF Before, Snapshot
  <1>6. /\ Len(<<first>>) = 1 /\ <<first>>[1] = first /\ Len(<<>>) = 0
        /\ 1 .. 0 = {} /\ \A i \in 1 .. 1 : i = 1
    OBVIOUS
  <1>7. InOrder(cache[c], <<first>>, <<>>)
    <2>1. Precedes(Snapshot(cache[c]), <<first>>)
      BY <1>5, <1>6 DEF Precedes
    <2>2. Sorted(<<first>>)
      <3>1. \A i, j \in 1 .. 1 : ~(i < j)
        BY <1>6
      <3>2. QED
        BY <1>6, <3>1 DEF Sorted
    <2>3. Sorted(<<>>) /\ \A e : Precedes(e, <<>>)
      BY <1>6 DEF Sorted, Precedes
    <2>4. QED
      BY <2>1, <2>2, <2>3 DEF InOrder
  <1>8. /\ \A d \in Client \ {c} : /\ queue'[d] = queue[d] /\ wire'[d] = wire[d]
                                   /\ cache'[d] = cache[d] /\ status'[d] = status[d]
        /\ cache'[c] = cache[c] /\ wire'[c] = <<first>> /\ queue'[c] = <<>>
    BY <1>1, <1>2 DEF Connect, TypeOK
  <1>9. QED
    BY <1>7, <1>8, OrderElsewhere

LEMMA LateStep ==
  ASSUME TypeOK, LateAreChanges, [Next]_vars
  PROVE  LateAreChanges'
  <1>1. CASE UNCHANGED emitting
    BY <1>1 DEF LateAreChanges
  <1>2. ASSUME NEW w \in Writer, LateUpdate(w) PROVE LateAreChanges'
    <2>1. PICK n \in DOMAIN targets, F \in SUBSET Observed \ {{}} :
            emitting' = [emitting EXCEPT ![w] =
              TargetChanged(n, targets[n].revision + 1, Toggled(n, F))]
      BY <1>2 DEF LateUpdate
    <2>2. TargetChanged(n, targets[n].revision + 1, Toggled(n, F)).event = "target_changed"
      BY DEF TargetChanged
    <2>3. QED
      BY <2>1, <2>2 DEF LateAreChanges, TypeOK
  <1>3. ASSUME NEW w \in Writer, Emit(w) PROVE LateAreChanges'
    BY <1>3 DEF Emit, LateAreChanges, TypeOK
  <1>4. CASE Update \/ Add \/ Remove \/ Rename
    BY <1>1, <1>4 DEF Update, Add, Remove, Rename
  <1>5. ASSUME NEW c \in Client, Connect(c) \/ Serve(c) \/ Drop(c) PROVE LateAreChanges'
    BY <1>1, <1>5 DEF Connect, Serve, Forward, Lag, Handle, Consume, Eof, Drop, End, daemon
  <1>6. QED
    BY <1>1, <1>2, <1>3, <1>4, <1>5 DEF Next, vars, daemon

LEMMA OrderStep ==
  ASSUME "reuse" \notin Ops, Faithful, OrderInv, LateAreChanges, [Next]_vars
  PROVE  OrderInv'
  <1>1. TypeOK /\ PastOK /\ StreamIn(Good) /\ CacheIsFaithful
    BY DEF Faithful
  <1>2. Faithful' /\ TypeOK' /\ PastOK'
    BY FaithfulStep DEF Faithful
  <1>3. (\A n \in Name : past[n] \subseteq past'[n]) /\ Good \subseteq Good'
    BY <1>1, PastGrows, GoodStays
  <1>4. StreamIn(Good')
    BY <1>1, <1>3, StreamStays
  <1>5. ASSUME UNCHANGED cache
        PROVE  \A c \in Client : Snapshot(cache[c]) \in Good'
    <2>1. CacheIsFaithful'
      BY <1>2 DEF Faithful
    <2>2. QED
      BY <1>1, <1>5, <2>1, SnapshotBecomesGood DEF CacheIsFaithful, TypeOK
  <1>6. ASSUME NEW n \in DOMAIN targets, NEW F \in SUBSET Field, Change(n, Toggled(n, F))
        PROVE  TargetChanged(n, targets[n].revision + 1, Toggled(n, F)) \in Good'
    BY <1>1, <1>6, ToggledIsChange, ChangeIsGood DEF TypeOK
  <1>7. CASE Update
    <2>1. PICK n \in DOMAIN targets, F \in SUBSET Field \ {{}} :
            /\ Change(n, Toggled(n, F))
            /\ Send(TargetChanged(n, targets[n].revision + 1, Toggled(n, F)))
      BY <1>7 DEF Update
    <2>2. cache' = cache
      BY <2>1 DEF Send
    <2>3. QED
      BY <1>1, <1>4, <1>5, <1>6, <2>1, <2>2, ChangeInOrder, OrderSent
  <1>8. CASE Add \/ Remove \/ Rename
    <2>1. Send(Snapshot(targets')) /\ cache' = cache
      BY <1>8 DEF Add, Remove, Rename, Send
    <2>2. Snapshot(targets') \in Good'
      BY <1>2, SnapshotBecomesGood DEF TypeOK, PastOK
    <2>3. \A e \in Good' : Before(e, Snapshot(targets'))
      BY <1>2, GoodIsPast DEF Before, Snapshot
    <2>4. QED
      BY <1>1, <1>4, <1>5, <2>1, <2>2, <2>3, OrderSent
  <1>9. ASSUME NEW w \in Writer, LateUpdate(w) PROVE OrderInv'
    BY <1>9 DEF LateUpdate, stream, OrderInv, Open
  <1>10. ASSUME NEW w \in Writer, Emit(w) PROVE OrderInv'
    <2>1. emitting[w] \in Good' /\ emitting[w] \in Event
      BY <1>4, <1>10 DEF Emit, StreamIn, Good
    <2>2. Send(emitting[w]) /\ cache' = cache
      BY <1>10 DEF Emit, Send
    <2>3. \A e \in Good' : Before(e, emitting[w])
      BY <1>10 DEF Emit, LateAreChanges, Before
    <2>4. QED
      BY <1>1, <1>4, <1>5, <2>1, <2>2, <2>3, OrderSent
  <1>11. ASSUME NEW c \in Client, Connect(c) \/ Serve(c) \/ Drop(c) PROVE OrderInv'
    BY <1>11, OrderConnect, OrderServe
  <1>12. CASE UNCHANGED vars
    BY <1>12 DEF vars, daemon, stream, OrderInv, Open
  <1>13. QED
    BY <1>7, <1>8, <1>9, <1>10, <1>11, <1>12 DEF Next

LEMMA OrderInit == Init => OrderInv /\ LateAreChanges
  BY OrderEmpty DEF Init, OrderInv, LateAreChanges

\* Where names are used once, no client ever sees a target go back to an earlier
\* record: neither an event that emit_changed sends late nor a snapshot that
\* waits behind others in the channel or on the wire undoes what the client has
\* applied - for any number of targets, clients and events under way.
THEOREM CachesMoveForward ==
  ASSUME "reuse" \notin Ops
  PROVE  Spec => CacheMovesForward
  <1> DEFINE Forwards ==
        \A c \in Client : \A n \in DOMAIN cache[c] \cap DOMAIN cache'[c] :
          cache[c][n].revision <= cache'[c][n].revision
  <1>1. ASSUME Faithful, OrderInv, [Next]_vars PROVE [Forwards]_vars
    <2>0. TypeOK /\ \A c \in Client : InOrder(cache[c], wire[c], queue[c])
      BY <1>1 DEF Faithful, OrderInv
    <2>1. ASSUME cache' = cache PROVE Forwards
      <3>1. \A c \in Client : \A n \in DOMAIN cache[c] : cache[c][n] \in Record
        BY <2>0, RecordsElim DEF TypeOK
      <3>2. \A c \in Client : \A n \in DOMAIN cache[c] : cache[c][n].revision \in Nat
        BY <3>1, EventsAssumption DEF Record
      <3>3. QED
        BY <2>1, <3>2
    <2>2. ASSUME NEW c \in Client, Handle(c) PROVE Forwards
      <3>1. CASE \E why : End(c, why)
        BY <2>1, <3>1 DEF End
      <3>2. ASSUME NEW next \in Records, Consume(c, next),
                   \A n \in DOMAIN cache[c] \cap DOMAIN next :
                     cache[c][n].revision <= next[n].revision
            PROVE  Forwards
        <4>1. cache'[c] = next /\ \A d \in Client \ {c} : cache'[d] = cache[d]
          BY <2>0, <3>2 DEF Consume, TypeOK
        <4>2. \A d \in Client : \A n \in DOMAIN cache[d] : cache[d][n] \in Record
          BY <2>0, RecordsElim DEF TypeOK
        <4>3. \A d \in Client : \A n \in DOMAIN cache[d] : cache[d][n].revision \in Nat
          BY <4>2, EventsAssumption DEF Record
        <4>4. QED
          BY <3>2, <4>1, <4>3
      <3>3. QED
        BY <2>0, <2>2, <3>1, <3>2, HandleMovesForward
    <2>3. CASE Update \/ Add \/ Remove \/ Rename
      BY <2>1, <2>3 DEF Update, Add, Remove, Rename, Send
    <2>4. CASE \E w \in Writer : LateUpdate(w) \/ Emit(w)
      BY <2>1, <2>4 DEF LateUpdate, Emit, Send
    <2>5. CASE \E c \in Client : Connect(c) \/ Serve(c) \/ Drop(c)
      BY <2>1, <2>2, <2>5 DEF Connect, Serve, Forward, Lag, Eof, Drop, End
    <2>6. QED
      BY <1>1, <2>3, <2>4, <2>5 DEF Next
  <1>2. Faithful /\ [Next]_vars => Faithful'
    BY FaithfulStep
  <1>3. Faithful /\ OrderInv /\ LateAreChanges /\ [Next]_vars => OrderInv' /\ LateAreChanges'
    BY OrderStep, LateStep DEF Faithful
  <1>4. Faithful /\ OrderInv /\ [Next]_vars => [Forwards]_vars
    BY <1>1
  <1>5. QED
    BY <1>2, <1>3, <1>4, FaithfulInit, OrderInit, PTL DEF Spec, CacheMovesForward
===============================================================================
