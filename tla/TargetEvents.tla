----------------------------- MODULE TargetEvents -----------------------------
(***************************************************************************)
(* How a client's cached snapshot follows the daemon: target records with  *)
(* their revision (supervisor.rs), the broadcast channel of events and the *)
(* connection that forwards it (server.rs), and the client that applies the*)
(* events to its cache (client.rs).                                        *)
(*                                                                         *)
(* A record is abstracted to a few Boolean fields: Field \ Observed are the*)
(* flags and the channel, Observed the playback fields of mpv.             *)
(***************************************************************************)
EXTENDS Naturals, Sequences

CONSTANTS
  Name,         \* target names
  Client,       \* client connections
  Writer,       \* tasks between a change and its event
  Field, Observed,
  NoEvent,
  Capacity,     \* events the broadcast channel keeps (128 in supervisor.rs)
  Window,       \* messages in flight on one connection (TCP's buffers)
  MaxRevision,  \* bound: revisions of one target
  Ops           \* what happens in this instance

ASSUME EventsAssumption ==
  /\ Observed \subseteq Field
  /\ Capacity \in Nat \ {0} /\ Window \in Nat \ {0} /\ MaxRevision \in Nat
  /\ Ops \subseteq {"late", "add", "remove", "rename", "reuse", "drop"}

VARIABLES
  targets,   \* inner.targets: the record of each known name
  past,      \* history: the records each name has had
  emitting,  \* per writer: the event it emits after releasing the lock
  queue,     \* per connection: its unread part of the broadcast channel
  lagged,    \* connections whose oldest unread events were overwritten
  wire,      \* per connection: messages sent and not yet handled
  status,    \* per connection: how it stands at the client
  cache      \* per client: the target records of its cached Snapshot

daemon == <<targets, past, emitting>>
stream == <<queue, lagged, wire>>
vars == <<daemon, stream, status, cache>>

State == [Field -> BOOLEAN]
Record == [revision : 0 .. MaxRevision, state : State]
Records == UNION {[K -> Record] : K \in SUBSET Name}
Blank == [revision |-> 0, state |-> [f \in Field |-> FALSE]]
NoRecords == [n \in {} |-> Blank]

\* The fields of a TargetChanged, and a state after it.
Changes == UNION {[F -> BOOLEAN] : F \in SUBSET Field}
Apply(changed, state) ==
  [f \in Field |-> IF f \in DOMAIN changed THEN changed[f] ELSE state[f]]

Snapshot(ts) == [event |-> "snapshot", targets |-> ts]
TargetChanged(n, r, changed) ==
  [event |-> "target_changed", target |-> n, revision |-> r, changed |-> changed]
Event == [event : {"snapshot"}, targets : Records] \cup
         [event : {"target_changed"}, target : Name, revision : 1 .. MaxRevision,
          changed : Changes]

Open == {c \in Client : status[c] = "open"}

(***************************************************************************)
(* The broadcast channel: a slow receiver loses the oldest events and is   *)
(* told so when it reads.                                                  *)
(***************************************************************************)
\* Variant: a channel without a bound.
PushUnbounded(q, e) == Append(q, e)
Push(q, e) == Append(IF Len(q) < Capacity THEN q ELSE Tail(q), e)

Send(e) ==
  /\ queue' = [c \in Client |-> IF c \in Open THEN Push(queue[c], e) ELSE queue[c]]
  /\ lagged' = lagged \cup {c \in Open : Len(queue[c]) >= Capacity}
  /\ UNCHANGED <<wire, status, cache>>

(***************************************************************************)
(* The daemon.                                                             *)
(***************************************************************************)
Init ==
  /\ targets \in {[n \in known |-> Blank] : known \in SUBSET Name}
  /\ past = [n \in Name |-> IF n \in DOMAIN targets THEN {Blank} ELSE {}]
  /\ emitting = [w \in Writer |-> NoEvent]
  /\ queue = [c \in Client |-> <<>>] /\ wire = [c \in Client |-> <<>>]
  /\ lagged = {}
  /\ status = [c \in Client |-> "none"]
  /\ cache = [c \in Client |-> NoRecords]

With(n, r) == [m \in DOMAIN targets \cup {n} |-> IF m = n THEN r ELSE targets[m]]
Without(n) == [m \in DOMAIN targets \ {n} |-> targets[m]]

\* A critical section that changes fields of n and bumps its revision.
Changed(n, changed) ==
  [revision |-> targets[n].revision + 1, state |-> Apply(changed, targets[n].state)]
Change(n, changed) ==
  /\ targets[n].revision < MaxRevision
  /\ targets' = With(n, Changed(n, changed))
  /\ past' = [past EXCEPT ![n] = @ \cup {Changed(n, changed)}]

Toggled(n, F) == [f \in F |-> ~targets[n].state[f]]

\* Every change whose event is sent before the lock is released: the flags,
\* the configuration and update_observed.
Update ==
  \E n \in DOMAIN targets, F \in SUBSET Field \ {{}} :
    /\ Change(n, Toggled(n, F))
    /\ Send(TargetChanged(n, targets[n].revision + 1, Toggled(n, F)))
    /\ UNCHANGED emitting

\* clear_observed, update_media_end, clear_media_end: the revision is taken
\* under the lock, the event is sent after it.
LateUpdate(w) ==
  /\ "late" \in Ops /\ emitting[w] = NoEvent
  /\ \E n \in DOMAIN targets, F \in SUBSET Observed \ {{}} :
       /\ Change(n, Toggled(n, F))
       /\ emitting' = [emitting EXCEPT ![w] =
            TargetChanged(n, targets[n].revision + 1, Toggled(n, F))]
  /\ UNCHANGED <<stream, status, cache>>

Emit(w) ==
  /\ emitting[w] # NoEvent
  /\ Send(emitting[w])
  /\ emitting' = [emitting EXCEPT ![w] = NoEvent]
  /\ UNCHANGED <<targets, past>>

\* A name a target may get: an earlier target's name only with "reuse".
Free == {n \in Name \ DOMAIN targets : "reuse" \in Ops \/ past[n] = {}}

Add ==
  /\ "add" \in Ops
  /\ \E n \in Free :
       /\ targets' = With(n, Blank)
       /\ past' = [past EXCEPT ![n] = {Blank}]
       /\ Send(Snapshot(targets'))
  /\ UNCHANGED emitting

Remove ==
  /\ "remove" \in Ops
  /\ \E n \in DOMAIN targets :
       /\ targets' = Without(n)
       /\ Send(Snapshot(targets'))
  /\ UNCHANGED <<past, emitting>>

Rename ==
  /\ "rename" \in Ops
  /\ \E n \in DOMAIN targets, m \in Free :
       LET moved == [targets[n] EXCEPT !.revision = @ + 1] IN
       /\ targets[n].revision < MaxRevision
       /\ targets' = [k \in (DOMAIN targets \ {n}) \cup {m} |->
                        IF k = m THEN moved ELSE targets[k]]
       /\ past' = [past EXCEPT ![m] = {moved}]
       /\ Send(Snapshot(targets'))
  /\ UNCHANGED emitting

(***************************************************************************)
(* serve_connection.                                                       *)
(***************************************************************************)
\* snapshot_and_subscribe is one critical section and the snapshot is the
\* first message on the connection.
Connect(c) ==
  /\ status[c] = "none"
  /\ status' = [status EXCEPT ![c] = "open"]
  /\ wire' = [wire EXCEPT ![c] = <<Snapshot(targets)>>]
  /\ UNCHANGED <<daemon, queue, lagged, cache>>

Forward(c) ==
  /\ c \in Open \ lagged /\ queue[c] # <<>> /\ Len(wire[c]) < Window
  /\ wire' = [wire EXCEPT ![c] = Append(@, Head(queue[c]))]
  /\ queue' = [queue EXCEPT ![c] = Tail(@)]
  /\ UNCHANGED <<daemon, lagged, status, cache>>

\* Variant: the connection goes on with the events that are left.
LagSkipped(c) ==
  /\ c \in Open \cap lagged /\ Len(wire[c]) < Window
  /\ lagged' = lagged \ {c}
  /\ UNCHANGED <<daemon, queue, wire, status, cache>>

\* RecvError::Lagged ends the connection; what was sent still arrives.
Lag(c) ==
  /\ c \in Open \cap lagged /\ Len(wire[c]) < Window
  /\ lagged' = lagged \ {c}
  /\ queue' = [queue EXCEPT ![c] = <<>>]
  /\ status' = [status EXCEPT ![c] = "cut"]
  /\ UNCHANGED <<daemon, wire, cache>>

(***************************************************************************)
(* The client: handle_message and apply_target_change.                     *)
(***************************************************************************)
\* The connection is over for the client, for the given reason.
End(c, why) ==
  /\ status' = [status EXCEPT ![c] = why]
  /\ wire' = [wire EXCEPT ![c] = <<>>]
  /\ queue' = [queue EXCEPT ![c] = <<>>]
  /\ lagged' = lagged \ {c}
  /\ UNCHANGED <<daemon, cache>>

Consume(c, records) ==
  /\ cache' = [cache EXCEPT ![c] = records]
  /\ wire' = [wire EXCEPT ![c] = Tail(@)]
  /\ UNCHANGED <<daemon, queue, lagged, status>>

\* Variant: any newer revision will do.
NewerRevision(r, e) == e.revision > r.revision
\* Variant: only an event that is there already is refused.
OtherRevision(r, e) == e.revision # r.revision
NextRevision(r, e) == e.revision = r.revision + 1

Handle(c) ==
  LET e == Head(wire[c]) IN
  /\ status[c] \in {"open", "cut"} /\ wire[c] # <<>>
  /\ \/ /\ e.event = "snapshot"
        /\ Consume(c, e.targets)
     \/ /\ e.event = "target_changed" /\ e.target \notin DOMAIN cache[c]
        /\ End(c, "unknown")
     \/ /\ e.event = "target_changed" /\ e.target \in DOMAIN cache[c]
        /\ LET r == cache[c][e.target] IN
           IF NextRevision(r, e)
           THEN Consume(c, [cache[c] EXCEPT ![e.target] =
                  [revision |-> e.revision, state |-> Apply(e.changed, r.state)]])
           ELSE End(c, "gap")

\* The end of the stream after the last message.
Eof(c) ==
  /\ status[c] = "cut" /\ wire[c] = <<>>
  /\ End(c, "closed")

\* The client closes, or the network or the daemon fails.
Drop(c) ==
  /\ "drop" \in Ops /\ status[c] \in {"open", "cut"}
  /\ End(c, "closed")

(***************************************************************************)
(* Specification.  The tasks of the daemon and of the client that have     *)
(* something to send or to read do so; changes, connects and failures need *)
(* not happen.                                                             *)
(***************************************************************************)
Serve(c) == Forward(c) \/ Lag(c) \/ Handle(c) \/ Eof(c)

Next ==
  \/ Update \/ Add \/ Remove \/ Rename
  \/ \E w \in Writer : LateUpdate(w) \/ Emit(w)
  \/ \E c \in Client : Connect(c) \/ Serve(c) \/ Drop(c)

Spec == Init /\ [][Next]_vars

FairSpec ==
  /\ Spec
  /\ \A w \in Writer : WF_vars(Emit(w))
  /\ \A c \in Client : WF_vars(Forward(c)) /\ WF_vars(Lag(c))
                       /\ WF_vars(Handle(c)) /\ WF_vars(Eof(c))

(***************************************************************************)
(* Properties.                                                             *)
(***************************************************************************)
\* Every variable keeps to its set; no receiver ever holds more than the
\* capacity of the broadcast channel (supervisor.rs new).
TypeOK ==
  /\ targets \in Records
  /\ past \in [Name -> SUBSET Record]
  /\ emitting \in [Writer -> Event \cup {NoEvent}]
  /\ queue \in [Client -> Seq(Event)] /\ wire \in [Client -> Seq(Event)]
  /\ \A c \in Client : Len(queue[c]) <= Capacity /\ Len(wire[c]) <= Window
  /\ status \in [Client -> {"none", "open", "cut", "closed", "gap", "unknown"}]
  /\ lagged \subseteq Open
  /\ cache \in [Client -> Records]

\* What a client shows was true: each cached record is exactly a record the
\* daemon had for that name, however late, reordered or lost the events of
\* emit_changed are; apply_target_change never builds a state of its own.
CacheIsFaithful == \A c \in Client : \A n \in DOMAIN cache[c] : cache[c][n] \in past[n]

\* What a client shows of a target never goes back in time: no snapshot or
\* change that is older than what handle_message has applied reaches the cache,
\* though emit_changed may be called long after its revision was taken, between
\* snapshots that are newer.
CacheMovesForward ==
  [][\A c \in Client : \A n \in DOMAIN cache[c] \cap DOMAIN cache'[c] :
       cache[c][n].revision <= cache'[c][n].revision]_vars

\* A client that stays connected ends up with the daemon's records: nothing
\* emit_changed or emit_snapshot sent is lost without the connection ending
\* (snapshot_and_subscribe, RecvError::Lagged, the revision check).
Converges == \A c \in Client : <>[](status[c] = "open" => cache[c] = targets)

\* The stream a client gets has no revision gap and no unknown target, as
\* apply_target_change demands of it.
StreamIsGapless == \A c \in Client : status[c] \notin {"gap", "unknown"}
===============================================================================
