---------------------------- MODULE ClientRequests ----------------------------
(***************************************************************************)
(* One connection of a RemoteClient (client.rs) to serve_connection        *)
(* (server.rs): concurrent requests and closes, the pending map that       *)
(* matches responses to them, the request timeout, the bounded queues on   *)
(* both sides, and the end of the connection.                              *)
(*                                                                         *)
(* A request stands for its id; what the daemon does for it is one step.   *)
(* Events of the broadcast channel are Notice, any number of them.         *)
(***************************************************************************)
EXTENDS Naturals, Sequences

CONSTANTS
  Call,       \* requests, one per call of request_inner
  Closer,     \* calls of close
  Notice,     \* an event on the wire
  None, Gone, \* no message; the error a drained request gets
  Commands,   \* capacity of the client's command queue (32)
  Responses,  \* capacity of a connection's response queue (32)
  Window      \* messages in flight in one direction (TCP's buffers)

ASSUME ClientAssumption ==
  /\ Commands \in Nat \ {0} /\ Responses \in Nat \ {0} /\ Window \in Nat \ {0}
  /\ Call \cap (Closer \cup {Notice, None, Gone}) = {}
  /\ Closer \cap {Notice, None, Gone} = {} /\ Notice # None /\ None # Gone

VARIABLES
  caller,        \* how far each request_inner is
  closer,        \* how far each close is
  pending,       \* the pending map: requests with a oneshot sender in it
  mail,          \* per request: what its oneshot holds
  disconnected,  \* the client's AtomicBool
  commands,      \* the mpsc channel to run_connection
  link,          \* where run_connection is
  sending,       \* the command run_connection is writing
  up, down,      \* messages in flight to the daemon, to the client
  broken,        \* the network or the daemon has failed
  server,        \* where serve_connection is
  replying,      \* the message serve_connection is writing
  tasks,         \* dispatched requests whose response is not queued yet
  responses,     \* the mpsc channel from the tasks to serve_connection
  executed       \* history: requests the daemon carried out

callers == <<caller, closer>>
shared == <<pending, mail, disconnected>>
daemon == <<server, replying, tasks, responses, executed>>
vars == <<callers, shared, commands, link, sending, up, down, broken, daemon>>

Init ==
  /\ caller = [r \in Call |-> "idle"] /\ closer = [k \in Closer |-> "idle"]
  /\ pending = {} /\ mail = [r \in Call |-> None] /\ disconnected = FALSE
  /\ commands = <<>> /\ link = "select" /\ sending = None
  /\ up = <<>> /\ down = <<>> /\ broken = FALSE
  /\ server = "select" /\ replying = None /\ tasks = {} /\ responses = <<>>
  /\ executed = {}

(***************************************************************************)
(* request_inner, from the check of disconnected to its result.            *)
(***************************************************************************)
Step(r, from, to) == caller[r] = from /\ caller' = [caller EXCEPT ![r] = to]

\* An invalid request and one after the disconnect return at once.
Request(r) ==
  /\ \/ Step(r, "idle", "done")
     \/ (~disconnected /\ Step(r, "idle", "admitted"))
  /\ UNCHANGED <<closer, shared, commands, link, sending, up, down, broken, daemon>>

Insert(r) ==
  /\ Step(r, "admitted", "inserted")
  /\ pending' = pending \cup {r}
  /\ UNCHANGED <<closer, mail, disconnected, commands, link, sending, up, down,
                 broken, daemon>>

\* Variant: a queue without a bound.
NoBound(q, bound) == TRUE
HasRoom(q, bound) == Len(q) < bound

\* writer.send waits for room and fails once the receiver is dropped.
Queue(r) ==
  /\ IF link = "over"
     THEN Step(r, "inserted", "refused") /\ UNCHANGED commands
     ELSE /\ HasRoom(commands, Commands)
          /\ Step(r, "inserted", "waiting") /\ commands' = Append(commands, r)
  /\ UNCHANGED <<closer, shared, link, sending, up, down, broken, daemon>>

Result(r) ==
  /\ mail[r] # None /\ Step(r, "waiting", "done")
  /\ UNCHANGED <<closer, shared, commands, link, sending, up, down, broken, daemon>>

\* Variant: a wait without a timeout.
NoExpire(r) == FALSE /\ UNCHANGED vars
\* timeout polls the receiver first: an answer that is there wins.
Expire(r) ==
  /\ mail[r] = None /\ Step(r, "waiting", "expired")
  /\ UNCHANGED <<closer, shared, commands, link, sending, up, down, broken, daemon>>

\* Variant: the entry stays in the map.
Abandoned(r) == pending
Unlisted(r) == pending \ {r}

\* The failed send and the expired wait remove their entry.
Forget(r) ==
  /\ Step(r, "refused", "done") \/ Step(r, "expired", "done")
  /\ pending' = Unlisted(r)
  /\ UNCHANGED <<closer, mail, disconnected, commands, link, sending, up, down,
                 broken, daemon>>

(***************************************************************************)
(* close: the first one queues the command and waits for it.               *)
(***************************************************************************)
Close(k) ==
  /\ closer[k] = "idle" /\ disconnected' = TRUE
  /\ closer' = [closer EXCEPT ![k] = IF disconnected THEN "done" ELSE "queueing"]
  /\ UNCHANGED <<caller, pending, mail, commands, link, sending, up, down, broken, daemon>>

QueueClose(k) ==
  /\ closer[k] = "queueing"
  /\ IF link = "over"
     THEN closer' = [closer EXCEPT ![k] = "done"] /\ UNCHANGED commands
     ELSE /\ HasRoom(commands, Commands)
          /\ closer' = [closer EXCEPT ![k] = "waiting"] /\ commands' = Append(commands, k)
  /\ UNCHANGED <<caller, shared, link, sending, up, down, broken, daemon>>

\* run_connection dropped the command before it came to it.
CloseDropped(k) ==
  /\ closer[k] = "waiting" /\ link = "over"
  /\ closer' = [closer EXCEPT ![k] = "done"]
  /\ UNCHANGED <<caller, shared, commands, link, sending, up, down, broken, daemon>>

(***************************************************************************)
(* run_connection.  While it writes, it does not read.                     *)
(***************************************************************************)
Take ==
  /\ link = "select" /\ commands # <<>>
  /\ sending' = Head(commands) /\ commands' = Tail(commands) /\ link' = "sending"
  /\ UNCHANGED <<callers, shared, up, down, broken, daemon>>

Sent(m) ==
  /\ sending' = None
  /\ IF m \in Closer
     THEN link' = "ending" /\ closer' = [closer EXCEPT ![m] = "done"]
     ELSE link' = "select" /\ UNCHANGED closer

Transmit ==
  /\ link = "sending" /\ ~broken /\ HasRoom(up, Window)
  /\ up' = Append(up, sending)
  /\ Sent(sending)
  /\ UNCHANGED <<caller, shared, commands, down, broken, daemon>>

\* The write fails: Close ignores it, a request ends the connection.
TransmitFails ==
  /\ link = "sending" /\ (broken \/ server = "over")
  /\ sending' = None /\ link' = "ending"
  /\ closer' = [k \in Closer |-> IF k = sending THEN "done" ELSE closer[k]]
  /\ UNCHANGED <<caller, shared, commands, up, down, broken, daemon>>

\* Variant: the response goes to the oldest request, not to the one it names.
Oldest(r) ==
  IF pending = {} THEN {} ELSE {CHOOSE p \in pending : TRUE}
Addressee(r) == {r} \cap pending

\* handle_message: a response wakes its request, if that still waits.
ReceiveResponse ==
  /\ link = "select" /\ ~broken /\ down # <<>> /\ Head(down) \in Call
  /\ down' = Tail(down)
  /\ pending' = pending \ Addressee(Head(down))
  /\ mail' = [r \in Call |-> IF r \in Addressee(Head(down)) THEN Head(down) ELSE mail[r]]
  /\ UNCHANGED <<callers, disconnected, commands, link, sending, up, broken, daemon>>

\* An event is applied to the cache, or ends the connection (TargetEvents).
ReceiveEvent ==
  /\ link = "select" /\ ~broken /\ down # <<>> /\ Head(down) = Notice
  /\ down' = Tail(down)
  /\ link' \in {"select", "ending"}
  /\ UNCHANGED <<callers, shared, commands, sending, up, broken, daemon>>

ReadFails ==
  /\ link = "select" /\ (broken \/ (server = "over" /\ down = <<>>))
  /\ link' = "ending"
  /\ UNCHANGED <<callers, shared, commands, sending, up, down, broken, daemon>>

Disconnect ==
  /\ link = "ending" /\ link' = "draining" /\ disconnected' = TRUE
  /\ UNCHANGED <<callers, pending, mail, commands, sending, up, down, broken, daemon>>

Drain ==
  /\ link = "draining" /\ link' = "drained"
  /\ mail' = [r \in Call |-> IF r \in pending THEN Gone ELSE mail[r]]
  /\ pending' = {}
  /\ UNCHANGED <<callers, disconnected, commands, sending, up, down, broken, daemon>>

\* The task ends and drops the command receiver and the socket.
Finish ==
  /\ link = "drained" /\ link' = "over"
  /\ commands' = <<>>
  /\ UNCHANGED <<callers, shared, sending, up, down, broken, daemon>>

(***************************************************************************)
(* serve_connection and the tasks it spawns.                               *)
(***************************************************************************)
Read ==
  /\ server = "select" /\ ~broken /\ up # <<>>
  /\ up' = Tail(up)
  /\ IF Head(up) \in Closer
     THEN server' = "over" /\ UNCHANGED tasks
     ELSE tasks' = tasks \cup {Head(up)} /\ UNCHANGED server
  /\ UNCHANGED <<callers, shared, commands, link, sending, down, broken, replying,
                 responses, executed>>

\* dispatch_request: may take as long as mpv and the mutations mutex let it.
Execute(r) ==
  /\ r \in tasks \ executed
  /\ executed' = executed \cup {r}
  /\ UNCHANGED <<callers, shared, commands, link, sending, up, down, broken, server,
                 replying, tasks, responses>>

\* The response is lost when its connection is over.
Respond(r) ==
  /\ r \in tasks \cap executed
  /\ tasks' = tasks \ {r}
  /\ IF server = "over"
     THEN UNCHANGED responses
     ELSE HasRoom(responses, Responses) /\ responses' = Append(responses, r)
  /\ UNCHANGED <<callers, shared, commands, link, sending, up, down, broken, server,
                 replying, executed>>

TakeResponse ==
  /\ server = "select" /\ responses # <<>>
  /\ replying' = Head(responses) /\ responses' = Tail(responses) /\ server' = "replying"
  /\ UNCHANGED <<callers, shared, commands, link, sending, up, down, broken, tasks, executed>>

TakeEvent ==
  /\ server = "select" /\ replying' = Notice /\ server' = "replying"
  /\ UNCHANGED <<callers, shared, commands, link, sending, up, down, broken, tasks,
                 responses, executed>>

Reply ==
  /\ server = "replying" /\ ~broken /\ HasRoom(down, Window)
  /\ down' = Append(down, replying)
  /\ replying' = None /\ server' = "select"
  /\ UNCHANGED <<callers, shared, commands, link, sending, up, broken, tasks, responses,
                 executed>>

\* The connection ends: a read fails, the receiver of events lagged (both may
\* happen in any select), or a write fails.
ServerEnds ==
  /\ \/ server = "select"
     \/ server = "replying" /\ (broken \/ link = "over")
  /\ server' = "over" /\ replying' = None /\ responses' = <<>>
  /\ UNCHANGED <<callers, shared, commands, link, sending, up, down, broken, tasks, executed>>

\* The network fails, and both ends learn of it.
Break ==
  /\ ~broken /\ broken' = TRUE
  /\ UNCHANGED <<callers, shared, commands, link, sending, up, down, daemon>>

(***************************************************************************)
(* Specification.  Tasks that are ready run, timers fire, and select picks *)
(* among ready branches at random, so no ready branch waits for ever; the  *)
(* daemon may take any time for a request, and nothing has to fail.        *)
(***************************************************************************)
Requesting(r) == Insert(r) \/ Queue(r) \/ Result(r) \/ Expire(r) \/ Forget(r)
Closing(k) == QueueClose(k) \/ CloseDropped(k)
Reading == ReceiveResponse \/ ReceiveEvent \/ ReadFails
Ending == Disconnect \/ Drain \/ Finish

Next ==
  \/ \E r \in Call : Request(r) \/ Requesting(r) \/ Execute(r) \/ Respond(r)
  \/ \E k \in Closer : Close(k) \/ Closing(k)
  \/ Take \/ Transmit \/ TransmitFails \/ Reading \/ Ending
  \/ Read \/ TakeResponse \/ TakeEvent \/ Reply \/ ServerEnds \/ Break

Spec == Init /\ [][Next]_vars

FairSpec ==
  /\ Spec
  /\ \A r \in Call : WF_vars(Requesting(r))
  /\ \A k \in Closer : WF_vars(Closing(k))
  /\ WF_vars(Transmit \/ TransmitFails) /\ WF_vars(Reading) /\ WF_vars(Ending)
  /\ SF_vars(Take) /\ SF_vars(Read) /\ WF_vars(Reply)

(***************************************************************************)
(* Properties.                                                             *)
(***************************************************************************)
\* Every variable keeps to its set and every queue to its capacity; a peer that
\* writes (run_connection, serve_connection) has a message to write.
TypeOK ==
  /\ caller \in [Call -> {"idle", "admitted", "inserted", "refused", "waiting",
                          "expired", "done"}]
  /\ closer \in [Closer -> {"idle", "queueing", "waiting", "done"}]
  /\ pending \subseteq Call /\ mail \in [Call -> Call \cup {None, Gone}]
  /\ disconnected \in BOOLEAN /\ broken \in BOOLEAN
  /\ link \in {"select", "sending", "ending", "draining", "drained", "over"}
  /\ commands \in Seq(Call \cup Closer) /\ Len(commands) <= Commands
  /\ sending \in Call \cup Closer \cup {None}
  /\ up \in Seq(Call \cup Closer) /\ Len(up) <= Window
  /\ down \in Seq(Call \cup {Notice}) /\ Len(down) <= Window
  /\ server \in {"select", "replying", "over"}
  /\ replying \in Call \cup {Notice, None}
  /\ tasks \subseteq Call /\ executed \subseteq Call
  /\ responses \in Seq(Call) /\ Len(responses) <= Responses
  /\ (link = "sending" <=> sending # None) /\ (server = "replying" <=> replying # None)

\* A request is answered with the response to itself, which the daemon sent
\* after carrying it out, in whatever order handle_message sees responses.
AnswersOwn == \A r \in Call : mail[r] \in Call => mail[r] = r /\ r \in executed

\* The pending map and the callers agree: an entry never outlives its request
\* (timeout, refused send and disconnect remove it), and a request that waits
\* for its oneshot is in the map, where an answer or the drain finds it.
PendingMatches ==
  /\ \A r \in pending : caller[r] \in {"inserted", "waiting", "refused", "expired"}
  /\ \A r \in Call : caller[r] = "waiting" /\ mail[r] = None => r \in pending

\* Two peers that write to each other's full buffers and read neither.
Wedged ==
  link = "sending" /\ server = "replying" /\ Len(up) = Window /\ Len(down) = Window

\* Every request and every close returns, however late the daemon answers and
\* however the connection ends; the one thing that can hold request_inner and
\* close for ever is the wedge, for their sends have no timeout.
ReturnsUnlessWedged ==
  /\ \A r \in Call : caller[r] = "admitted" ~> (caller[r] = "done" \/ Wedged)
  /\ \A k \in Closer : closer[k] = "queueing" ~> (closer[k] = "done" \/ Wedged)
===============================================================================
