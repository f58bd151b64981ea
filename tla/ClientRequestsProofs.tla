------------------------- MODULE ClientRequestsProofs -------------------------
(***************************************************************************)
(* Proofs about ClientRequests, for every set of requests and closes and   *)
(* every capacity.                                                         *)
(***************************************************************************)
EXTENDS ClientRequests, SequenceTheorems, TLAPS

LEMMA QueueTakes ==
  ASSUME NEW S, NEW q \in Seq(S), NEW m \in S, NEW bound \in Nat, HasRoom(q, bound)
  PROVE  Append(q, m) \in Seq(S) /\ Len(Append(q, m)) <= bound
  <1>1. Append(q, m) \in Seq(S) /\ Len(Append(q, m)) = Len(q) + 1 /\ Len(q) \in Nat
    BY AppendProperties, LenProperties
  <1>2. QED
    BY <1>1 DEF HasRoom

LEMMA QueueGives ==
  ASSUME NEW S, NEW q \in Seq(S), q # <<>>, NEW bound \in Nat, Len(q) <= bound
  PROVE  Head(q) \in S /\ Tail(q) \in Seq(S) /\ Len(Tail(q)) <= bound
  <1>1. Head(q) \in S /\ Tail(q) \in Seq(S) /\ Len(Tail(q)) = Len(q) - 1 /\ Len(q) \in Nat
    BY HeadTailProperties, LenProperties
  <1>2. QED
    BY <1>1

LEMMA Bounds == Commands \in Nat /\ Responses \in Nat /\ Window \in Nat
  BY ClientAssumption

LEMMA EmptyIsSeq ==
  ASSUME NEW S
  PROVE  <<>> \in Seq(S) /\ Len(<<>>) = 0
  BY EmptySeq

(***************************************************************************)
(* Types, one lemma per process.                                           *)
(***************************************************************************)
LEMMA RequestTypes ==
  ASSUME TypeOK, NEW r \in Call, Request(r) \/ Requesting(r)
  PROVE  TypeOK'
  <1>1. CASE Request(r)
    BY <1>1 DEF Request, Step, TypeOK, shared, daemon
  <1>2. CASE Insert(r)
    BY <1>2 DEF Insert, Step, TypeOK, daemon
  <1>3. CASE Queue(r)
    <2>1. CASE link = "over"
      BY <1>3, <2>1 DEF Queue, Step, TypeOK, shared, daemon
    <2>2. CASE link # "over"
      <3>1. commands' \in Seq(Call \cup Closer) /\ Len(commands') <= Commands
        <4>1. commands' = Append(commands, r) /\ HasRoom(commands, Commands)
          BY <1>3, <2>2 DEF Queue
        <4>2. commands \in Seq(Call \cup Closer) /\ r \in Call \cup Closer
          BY DEF TypeOK
        <4>3. QED
          BY <4>1, <4>2, QueueTakes, Bounds
      <3>2. QED
        BY <1>3, <2>2, <3>1 DEF Queue, Step, TypeOK, shared, daemon
    <2>3. QED
      BY <2>1, <2>2
  <1>4. CASE Result(r)
    BY <1>4 DEF Result, Step, TypeOK, shared, daemon
  <1>5. CASE Expire(r)
    BY <1>5 DEF Expire, Step, TypeOK, shared, daemon
  <1>6. CASE Forget(r)
    BY <1>6 DEF Forget, Unlisted, Step, TypeOK, daemon
  <1>7. QED
    BY <1>1, <1>2, <1>3, <1>4, <1>5, <1>6 DEF Requesting

LEMMA CloseTypes ==
  ASSUME TypeOK, NEW k \in Closer, Close(k) \/ Closing(k)
  PROVE  TypeOK'
  <1>1. CASE Close(k)
    BY <1>1 DEF Close, TypeOK, daemon
  <1>2. CASE QueueClose(k)
    <2>1. CASE link = "over"
      BY <1>2, <2>1 DEF QueueClose, TypeOK, shared, daemon
    <2>2. CASE link # "over"
      <3>1. commands' \in Seq(Call \cup Closer) /\ Len(commands') <= Commands
        <4>1. commands' = Append(commands, k) /\ HasRoom(commands, Commands)
          BY <1>2, <2>2 DEF QueueClose
        <4>2. commands \in Seq(Call \cup Closer) /\ k \in Call \cup Closer
          BY DEF TypeOK
        <4>3. QED
          BY <4>1, <4>2, QueueTakes, Bounds
      <3>2. QED
        BY <1>2, <2>2, <3>1 DEF QueueClose, TypeOK, shared, daemon
    <2>3. QED
      BY <2>1, <2>2
  <1>3. CASE CloseDropped(k)
    BY <1>3 DEF CloseDropped, TypeOK, shared, daemon
  <1>4. QED
    BY <1>1, <1>2, <1>3 DEF Closing

LEMMA LinkTypes ==
  ASSUME TypeOK, Take \/ Transmit \/ TransmitFails \/ Reading \/ Ending
  PROVE  TypeOK'
  <1>1. CASE Take
    <2>1. /\ sending' \in Call \cup Closer
          /\ commands' \in Seq(Call \cup Closer) /\ Len(commands') <= Commands
      BY <1>1, QueueGives, Bounds DEF Take, TypeOK
    <2>2. sending' # None
      BY <2>1, ClientAssumption
    <2>3. QED
      BY <1>1, <2>1, <2>2 DEF Take, TypeOK, callers, shared, daemon
  <1>2. CASE Transmit
    <2>1. sending \in Call \cup Closer
      BY <1>2 DEF Transmit, TypeOK
    <2>2. up' \in Seq(Call \cup Closer) /\ Len(up') <= Window
      BY <1>2, <2>1, QueueTakes, Bounds DEF Transmit, TypeOK
    <2>3. QED
      BY <1>2, <2>2 DEF Transmit, Sent, TypeOK, shared, daemon
  <1>3. CASE TransmitFails
    BY <1>3 DEF TransmitFails, TypeOK, shared, daemon
  <1>4. CASE ReceiveResponse
    <2>1. down' \in Seq(Call \cup {Notice}) /\ Len(down') <= Window
      BY <1>4, QueueGives, Bounds DEF ReceiveResponse, TypeOK
    <2>2. QED
      BY <1>4, <2>1 DEF ReceiveResponse, TypeOK, callers, daemon
  <1>5. CASE ReceiveEvent
    <2>1. down' \in Seq(Call \cup {Notice}) /\ Len(down') <= Window
      BY <1>5, QueueGives, Bounds DEF ReceiveEvent, TypeOK
    <2>2. QED
      BY <1>5, <2>1 DEF ReceiveEvent, TypeOK, callers, shared, daemon
  <1>6. CASE ReadFails
    BY <1>6 DEF ReadFails, TypeOK, callers, shared, daemon
  <1>7. CASE Disconnect
    BY <1>7 DEF Disconnect, TypeOK, callers, daemon
  <1>8. CASE Drain
    BY <1>8 DEF Drain, TypeOK, callers, daemon
  <1>9. CASE Finish
    BY <1>9, EmptyIsSeq, Bounds DEF Finish, TypeOK, callers, shared, daemon
  <1>10. QED
    BY <1>1, <1>2, <1>3, <1>4, <1>5, <1>6, <1>7, <1>8, <1>9 DEF Reading, Ending

LEMMA ServerTypes ==
  ASSUME TypeOK,
         \/ Read \/ TakeResponse \/ TakeEvent \/ Reply \/ ServerEnds \/ Break
         \/ \E r \in Call : Execute(r) \/ Respond(r)
  PROVE  TypeOK'
  <1>1. CASE Read
    <2>1. /\ Head(up) \in Call \cup Closer
          /\ up' \in Seq(Call \cup Closer) /\ Len(up') <= Window
      BY <1>1, QueueGives, Bounds DEF Read, TypeOK
    <2>2. QED
      BY <1>1, <2>1 DEF Read, TypeOK, callers, shared
  <1>2. CASE TakeResponse
    <2>1. replying' \in Call /\ responses' \in Seq(Call) /\ Len(responses') <= Responses
      BY <1>2, QueueGives, Bounds DEF TakeResponse, TypeOK
    <2>2. replying' # None
      BY <2>1, ClientAssumption
    <2>3. QED
      BY <1>2, <2>1, <2>2 DEF TakeResponse, TypeOK, callers, shared
  <1>3. CASE TakeEvent
    BY <1>3, ClientAssumption DEF TakeEvent, TypeOK, callers, shared
  <1>4. CASE Reply
    <2>1. replying \in Call \cup {Notice}
      BY <1>4 DEF Reply, TypeOK
    <2>2. down' \in Seq(Call \cup {Notice}) /\ Len(down') <= Window
      BY <1>4, <2>1, QueueTakes, Bounds DEF Reply, TypeOK
    <2>3. QED
      BY <1>4, <2>2 DEF Reply, TypeOK, callers, shared
  <1>5. CASE ServerEnds
    BY <1>5, EmptyIsSeq, Bounds DEF ServerEnds, TypeOK, callers, shared
  <1>6. CASE Break
    BY <1>6 DEF Break, TypeOK, callers, shared, daemon
  <1>7. ASSUME NEW r \in Call, Execute(r) PROVE TypeOK'
    BY <1>7 DEF Execute, TypeOK, callers, shared
  <1>8. ASSUME NEW r \in Call, Respond(r) PROVE TypeOK'
    <2>1. responses' \in Seq(Call) /\ Len(responses') <= Responses
      <3>1. CASE server = "over"
        BY <1>8, <3>1 DEF Respond, TypeOK
      <3>2. CASE server # "over"
        <4>1. responses' = Append(responses, r) /\ HasRoom(responses, Responses)
          BY <1>8, <3>2 DEF Respond
        <4>2. responses \in Seq(Call) /\ r \in Call
          BY DEF TypeOK
        <4>3. QED
          BY <4>1, <4>2, QueueTakes, Bounds
      <3>3. QED
        BY <3>1, <3>2
    <2>2. QED
      BY <1>8, <2>1 DEF Respond, TypeOK, callers, shared
  <1>9. QED
    BY <1>1, <1>2, <1>3, <1>4, <1>5, <1>6, <1>7, <1>8

LEMMA TypeInit == Init => TypeOK
  <1>1. /\ <<>> \in Seq(Call \cup Closer) /\ <<>> \in Seq(Call \cup {Notice})
        /\ <<>> \in Seq(Call) /\ Len(<<>>) = 0
    BY EmptyIsSeq
  <1>2. 0 <= Commands /\ 0 <= Responses /\ 0 <= Window
    BY Bounds
  <1>3. QED
    BY <1>1, <1>2 DEF Init, TypeOK

LEMMA TypeStep ==
  ASSUME TypeOK, [Next]_vars
  PROVE  TypeOK'
  <1>1. CASE UNCHANGED vars
    BY <1>1 DEF TypeOK, vars, callers, shared, daemon
  <1>2. QED
    BY <1>1, RequestTypes, CloseTypes, LinkTypes, ServerTypes DEF Next

\* Every variable of request_inner, close, run_connection and serve_connection
\* keeps to its set, and every queue to its capacity.
THEOREM RequestsTyped == Spec => []TypeOK
  BY TypeInit, TypeStep, PTL DEF Spec

(***************************************************************************)
(* Answers.  A response exists only for a request the daemon carried out,  *)
(* and it is put only into the oneshot of the request it names.            *)
(***************************************************************************)
ResponsesExecuted ==
  /\ responses \in Seq(executed) /\ down \in Seq(executed \cup {Notice})
  /\ replying \in executed \cup {Notice, None}

AnswersInv == TypeOK /\ ResponsesExecuted /\ AnswersOwn

LEMMA AnswersStep ==
  ASSUME AnswersInv, [Next]_vars
  PROVE  AnswersInv'
  <1>1. TypeOK /\ TypeOK' /\ ResponsesExecuted /\ AnswersOwn
    BY TypeStep DEF AnswersInv
  <1>2. SUFFICES ResponsesExecuted' /\ AnswersOwn'
    BY <1>1 DEF AnswersInv
  <1>3. CASE UNCHANGED <<responses, down, replying, executed, mail>>
    BY <1>1, <1>3 DEF ResponsesExecuted, AnswersOwn
  <1>4. CASE ReceiveResponse
    <2>1. Head(down) \in executed /\ down' \in Seq(executed \cup {Notice})
      <3>1. down # <<>> /\ Head(down) \in Call /\ down' = Tail(down)
        BY <1>4 DEF ReceiveResponse
      <3>2. Head(down) \in executed \cup {Notice} /\ Tail(down) \in Seq(executed \cup {Notice})
        BY <1>1, <3>1, HeadTailProperties DEF ResponsesExecuted
      <3>3. QED
        BY <3>1, <3>2, ClientAssumption
    <2>2. UNCHANGED <<responses, replying, executed>>
      BY <1>4 DEF ReceiveResponse, daemon
    <2>3. \A r \in Call : mail'[r] = mail[r] \/ (r = Head(down) /\ mail'[r] = r)
      BY <1>4 DEF ReceiveResponse, Addressee
    <2>4. QED
      BY <1>1, <2>1, <2>2, <2>3 DEF ResponsesExecuted, AnswersOwn
  <1>5. CASE Drain
    <2>1. \A r \in Call : mail'[r] \in {mail[r], Gone}
      BY <1>5 DEF Drain
    <2>2. Gone \notin Call
      BY ClientAssumption
    <2>3. UNCHANGED <<responses, down, replying, executed>>
      BY <1>5 DEF Drain, daemon
    <2>4. QED
      BY <1>1, <2>1, <2>2, <2>3 DEF ResponsesExecuted, AnswersOwn
  <1>6. CASE ReceiveEvent
    <2>1. down' \in Seq(executed \cup {Notice})
      BY <1>1, <1>6, HeadTailProperties DEF ReceiveEvent, ResponsesExecuted
    <2>2. QED
      BY <1>1, <1>6, <2>1 DEF ReceiveEvent, ResponsesExecuted, AnswersOwn, shared, daemon
  <1>7. CASE TakeResponse
    <2>1. replying' \in executed /\ responses' \in Seq(executed)
      BY <1>1, <1>7, HeadTailProperties DEF TakeResponse, ResponsesExecuted
    <2>2. QED
      BY <1>1, <1>7, <2>1 DEF TakeResponse, ResponsesExecuted, AnswersOwn, shared
  <1>8. CASE TakeEvent
    BY <1>1, <1>8 DEF TakeEvent, ResponsesExecuted, AnswersOwn, shared
  <1>9. CASE Reply
    <2>1. replying \in executed \cup {Notice}
      BY <1>1, <1>9 DEF Reply, TypeOK, ResponsesExecuted
    <2>2. down' \in Seq(executed \cup {Notice})
      BY <1>1, <1>9, <2>1, AppendProperties DEF Reply, ResponsesExecuted
    <2>3. QED
      BY <1>1, <1>9, <2>2 DEF Reply, ResponsesExecuted, AnswersOwn, shared
  <1>10. CASE ServerEnds
    <2>1. <<>> \in Seq(executed)
      BY EmptyIsSeq
    <2>2. QED
      BY <1>1, <1>10, <2>1 DEF ServerEnds, ResponsesExecuted, AnswersOwn, shared
  <1>11. ASSUME NEW r \in Call, Execute(r) PROVE ResponsesExecuted' /\ AnswersOwn'
    <2>1. executed \subseteq executed' /\ UNCHANGED <<responses, down, replying, mail>>
      BY <1>11 DEF Execute, shared
    <2>2. responses \in Seq(executed') /\ down \in Seq(executed' \cup {Notice})
      <3>1. executed \cup {Notice} \subseteq executed' \cup {Notice}
        BY <2>1
      <3>2. QED
        BY <1>1, <2>1, <3>1, SeqMonotonic DEF ResponsesExecuted
    <2>3. QED
      BY <1>1, <2>1, <2>2 DEF ResponsesExecuted, AnswersOwn
  <1>12. ASSUME NEW r \in Call, Respond(r) PROVE ResponsesExecuted' /\ AnswersOwn'
    <2>1. responses' \in Seq(executed)
      BY <1>1, <1>12, AppendProperties DEF Respond, ResponsesExecuted
    <2>2. QED
      BY <1>1, <1>12, <2>1 DEF Respond, ResponsesExecuted, AnswersOwn, shared
  <1>13. ASSUME NEW r \in Call, Request(r) \/ Requesting(r)
         PROVE  UNCHANGED <<responses, down, replying, executed, mail>>
    BY <1>13 DEF Request, Requesting, Insert, Queue, Result, Expire, Forget, shared, daemon
  <1>14. ASSUME NEW k \in Closer, Close(k) \/ Closing(k)
         PROVE  UNCHANGED <<responses, down, replying, executed, mail>>
    BY <1>14 DEF Close, Closing, QueueClose, CloseDropped, shared, daemon
  <1>15. ASSUME Take \/ Transmit \/ TransmitFails \/ ReadFails \/ Disconnect \/ Finish
                \/ Read \/ Break
         PROVE  UNCHANGED <<responses, down, replying, executed, mail>>
    BY <1>15 DEF Take, Transmit, TransmitFails, ReadFails, Disconnect, Finish, Read, Break,
                 shared, daemon
  <1>16. CASE UNCHANGED vars
    BY <1>3, <1>16 DEF vars, shared, daemon
  <1>17. QED
    BY <1>3, <1>4, <1>5, <1>6, <1>7, <1>8, <1>9, <1>10, <1>11, <1>12, <1>13, <1>14, <1>15,
       <1>16 DEF Next, Reading, Ending

\* A request is never answered with another's response, nor before the daemon
\* carried it out: handle_message matches responses by id and nothing else
\* fills a oneshot with a response.
THEOREM AnswersAreOwn == Spec => []AnswersOwn
  <1>1. Init => AnswersInv
    <2>1. Init => <<>> \in Seq(executed) /\ <<>> \in Seq(executed \cup {Notice})
      BY EmptyIsSeq
    <2>2. None \notin Call
      BY ClientAssumption
    <2>3. QED
      BY <2>1, <2>2, TypeInit DEF Init, AnswersInv, ResponsesExecuted, AnswersOwn
  <1>2. AnswersInv /\ [Next]_vars => AnswersInv'
    BY AnswersStep
  <1>3. AnswersInv => AnswersOwn
    BY DEF AnswersInv
  <1>4. QED
    BY <1>1, <1>2, <1>3, PTL DEF Spec

(***************************************************************************)
(* The pending map.  A oneshot is filled by the step that takes its sender *)
(* out of the map, so an empty oneshot of a queued request is in the map.  *)
(***************************************************************************)
MailMatches ==
  /\ \A r \in pending : mail[r] = None
  /\ \A r \in Call : caller[r] \in {"idle", "admitted"} => mail[r] = None
  /\ \A r \in Call : caller[r] = "inserted" /\ mail[r] = None => r \in pending

PendingInv == TypeOK /\ MailMatches /\ PendingMatches

LEMMA PendingStep ==
  ASSUME PendingInv, [Next]_vars
  PROVE  PendingInv'
  <1>1. TypeOK /\ TypeOK' /\ MailMatches /\ PendingMatches
    BY TypeStep DEF PendingInv
  <1>2. SUFFICES MailMatches' /\ PendingMatches'
    BY <1>1 DEF PendingInv
  <1>3. CASE UNCHANGED <<pending, mail, caller>>
    BY <1>1, <1>3 DEF MailMatches, PendingMatches
  <1>4. ASSUME NEW r \in Call, Request(r) PROVE MailMatches' /\ PendingMatches'
    BY <1>1, <1>4 DEF Request, Step, shared, MailMatches, PendingMatches, TypeOK
  <1>5. ASSUME NEW r \in Call, Insert(r) PROVE MailMatches' /\ PendingMatches'
    BY <1>1, <1>5 DEF Insert, Step, MailMatches, PendingMatches, TypeOK
  <1>6. ASSUME NEW r \in Call, Queue(r) PROVE MailMatches' /\ PendingMatches'
    BY <1>1, <1>6 DEF Queue, Step, shared, MailMatches, PendingMatches, TypeOK
  <1>7. ASSUME NEW r \in Call, Result(r) PROVE MailMatches' /\ PendingMatches'
    BY <1>1, <1>7 DEF Result, Step, shared, MailMatches, PendingMatches, TypeOK
  <1>8. ASSUME NEW r \in Call, Expire(r) PROVE MailMatches' /\ PendingMatches'
    BY <1>1, <1>8 DEF Expire, Step, shared, MailMatches, PendingMatches, TypeOK
  <1>9. ASSUME NEW r \in Call, Forget(r) PROVE MailMatches' /\ PendingMatches'
    BY <1>1, <1>9 DEF Forget, Unlisted, Step, MailMatches, PendingMatches, TypeOK
  <1>10. CASE ReceiveResponse
    <2>1. None \notin Call
      BY ClientAssumption
    <2>2. /\ caller' = caller /\ pending' = pending \ Addressee(Head(down))
          /\ \A r \in Call : mail'[r] = IF r \in Addressee(Head(down)) THEN Head(down) ELSE mail[r]
          /\ Addressee(Head(down)) \subseteq pending /\ Head(down) \in Call
      BY <1>10 DEF ReceiveResponse, Addressee, callers
    <2>3. \A r \in Addressee(Head(down)) : caller[r] \notin {"idle", "admitted"}
      BY <1>1, <2>2 DEF PendingMatches
    <2>4. QED
      BY <1>1, <2>1, <2>2, <2>3 DEF MailMatches, PendingMatches, TypeOK
  <1>11. CASE Drain
    <2>1. Gone # None
      BY ClientAssumption
    <2>2. /\ caller' = caller /\ pending' = {}
          /\ \A r \in Call : mail'[r] = IF r \in pending THEN Gone ELSE mail[r]
      BY <1>11 DEF Drain, callers
    <2>3. QED
      BY <1>1, <2>1, <2>2 DEF MailMatches, PendingMatches
  <1>12. ASSUME NEW k \in Closer, Close(k) \/ Closing(k)
         PROVE  UNCHANGED <<pending, mail, caller>>
    BY <1>12 DEF Close, Closing, QueueClose, CloseDropped, shared
  <1>13. ASSUME Take \/ Transmit \/ TransmitFails \/ ReceiveEvent \/ ReadFails \/ Disconnect
                \/ Finish
         PROVE  UNCHANGED <<pending, mail, caller>>
    BY <1>13 DEF Take, Transmit, TransmitFails, ReceiveEvent, ReadFails, Disconnect, Finish,
                 shared, callers
  <1>14. ASSUME \/ Read \/ TakeResponse \/ TakeEvent \/ Reply \/ ServerEnds \/ Break
                \/ \E r \in Call : Execute(r) \/ Respond(r)
         PROVE  UNCHANGED <<pending, mail, caller>>
    BY <1>14 DEF Read, TakeResponse, TakeEvent, Reply, ServerEnds, Break, Execute, Respond,
                 shared, callers
  <1>15. CASE UNCHANGED vars
    BY <1>3, <1>15 DEF vars, shared, callers
  <1>16. QED
    BY <1>3, <1>4, <1>5, <1>6, <1>7, <1>8, <1>9, <1>10, <1>11, <1>12, <1>13, <1>14, <1>15
       DEF Next, Requesting, Reading, Ending

\* No interleaving of request_inner with the drain of run_connection, with
\* handle_message, a timeout or a close leaks an entry of the pending map or
\* loses a request that waits.
THEOREM PendingAlwaysMatches == Spec => []PendingMatches
  <1>1. Init => PendingInv
    BY TypeInit DEF Init, PendingInv, MailMatches, PendingMatches
  <1>2. PendingInv /\ [Next]_vars => PendingInv'
    BY PendingStep
  <1>3. PendingInv => PendingMatches
    BY DEF PendingInv
  <1>4. QED
    BY <1>1, <1>2, <1>3, PTL DEF Spec
===============================================================================
