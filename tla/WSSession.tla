----------------------------- MODULE WSSession ------------------------------
(***************************************************************************)
(* One WebSocket session (internal/protocols/ws): the VU's goroutine in    *)
(* ws.connect with a callback (session.go) or driving a blocking socket    *)
(* (blocking.go), the reader goroutine with its bounded channel, and the   *)
(* goroutine of the close handshake (socket.go).                           *)
(*                                                                         *)
(* The connection is external: a read returns a message, the peer's close  *)
(* frame or a failure; the close handshake ends with the peer's frame or   *)
(* by its own timeout.  Messages carry no content.                         *)
(***************************************************************************)
EXTENDS Integers, FiniteSets, Sequences

CONSTANTS QueueSize,   \* room in the channel events (the code has 16)
          MaxPending,  \* maxPendingReplies (the code has 1024)
          MaxMsgs,     \* bound: messages the peer sends
          MaxCalls     \* bound: sends, receives and timers of the script

ASSUME BoundsAssumption ==
    QueueSize \in Nat /\ MaxPending \in Nat \ {0} /\ MaxMsgs \in Nat /\ MaxCalls \in Nat

VARIABLES
    style,    \* callback or blocking
    pc,       \* where the VU's goroutine stands
    ctxDone,  \* the iteration's context has ended
    calls,    \* how many bounded calls the script made
    over,     \* the iteration returned and EndIteration is closing the socket
    timedOut, \* history: a receive has timed out
    conn,     \* none, open or closed
    reader,   \* none, reading, offering (its event to the channel) or exited
    offered,  \* the event it offers
    queue,    \* the channel events
    stop,     \* stopReading was called
    closer,   \* the close handshake: none, waiting or done
    closing, done, thrown, err,  \* fields of session; err by its kind
    finished, \* field of blockingSocket
    cause,    \* history: how the session ended: open (not, or by an exception),
              \* clean, abnormal, or masked: a failed read or write whose error
              \* handler threw
    arrived,  \* messages the reader has read
    pending,  \* how many sends await a reply
    m         \* what was recorded

netVars  == <<conn, reader, offered, queue, stop, closer, arrived>>
sessVars == <<closing, done, thrown, err, cause>>
scriptVars == <<style, ctxDone, calls, over, timedOut>>
vars == <<pc, scriptVars, netVars, sessVars, finished, pending, m>>

Init ==
    /\ style \in {"callback", "blocking"}
    /\ pc = "dial" /\ ctxDone = FALSE /\ calls = 0 /\ over = FALSE /\ timedOut = FALSE
    /\ conn = "none" /\ reader = "none" /\ offered = "none" /\ queue = <<>>
    /\ stop = FALSE /\ closer = "none" /\ arrived = 0
    /\ closing = FALSE /\ done = FALSE /\ thrown = FALSE /\ err = "none" /\ cause = "open"
    /\ finished = FALSE
    /\ pending = 0
    /\ m = [sent |-> 0, received |-> 0, errors |-> 0, latency |-> 0, ok |-> 0, failed |-> 0]

-----------------------------------------------------------------------------
(* Recording: recorder() is nil once the context has ended *)

Recorded(field) == IF ctxDone THEN m ELSE [m EXCEPT ![field] = @ + 1]

SessionEnd(e) == IF e = "none" THEN "ok" ELSE "failed"

-----------------------------------------------------------------------------
(* The end of a session.  Handlers exist only in the callback style; the   *)
(* error and close handlers return or throw in one step.                   *)

\* handleThrow: an exception is kept unless the test is ending.
Throw == done' = TRUE /\ thrown' = (thrown \/ ~ctxDone)

\* end: mark the session over, keep the first error, fire "close".
EndForgetting(e) ==
    /\ done' = TRUE /\ UNCHANGED err
    /\ \E throws \in BOOLEAN :
         /\ throws => style = "callback" /\ ~done
         /\ thrown' = (thrown \/ (throws /\ ~ctxDone))
End(e) ==
    /\ done' = TRUE
    /\ err' = IF done \/ err # "none" THEN err ELSE e
    /\ \E throws \in BOOLEAN :
         /\ throws => style = "callback" /\ ~done
         /\ thrown' = (thrown \/ (throws /\ ~ctxDone))

\* A failed read or write: emitError, then end, which does nothing if the error
\* handler threw.
Fail ==
    /\ m' = Recorded("errors")
    /\ \/ End("io") /\ cause' = "abnormal"
       \/ style = "callback" /\ Throw /\ cause' = "masked" /\ UNCHANGED err

\* readFailed, by the close status of the error.
ReadFailed(kind) ==
    /\ UNCHANGED closing
    /\ \/ kind = "normal" /\ End("none") /\ cause' = "clean" /\ UNCHANGED m
       \/ kind = "other" /\ End("server") /\ cause' = "abnormal" /\ UNCHANGED m
       \/ kind = "fail" /\ closing /\ End("none") /\ cause' = "clean" /\ UNCHANGED m
       \/ kind = "fail" /\ ~closing /\ Fail

-----------------------------------------------------------------------------
(* The context, the reader goroutine and the close handshake *)

EndOfTest ==
    /\ ~ctxDone /\ pc # "returned"
    /\ ctxDone' = TRUE
    /\ UNCHANGED <<pc, style, calls, over, timedOut, netVars, sessVars, finished, pending, m>>

\* conn.Read: a closed connection or a stopped reader only fails; the peer's
\* close frame, its answer to ours included, closes the connection.
Read ==
    /\ reader = "reading"
    /\ \E kind \in {"msg", "normal", "other", "fail"} :
         /\ conn = "closed" \/ stop => kind = "fail"
         /\ kind = "msg" => arrived < MaxMsgs
         /\ offered' = kind
         /\ arrived' = IF kind = "msg" THEN arrived + 1 ELSE arrived
         /\ conn' = IF kind = "msg" THEN conn ELSE "closed"
    /\ reader' = "offering"
    /\ UNCHANGED <<pc, scriptVars, queue, stop, closer, sessVars, finished, pending, m>>

AfterOffer == IF offered = "msg" THEN "reading" ELSE "exited"

\* events <- ev blocks while the channel is full ...
OfferOrDrop ==
    /\ reader = "offering"
    /\ queue' = IF Len(queue) < QueueSize THEN Append(queue, offered) ELSE queue
    /\ reader' = AfterOffer /\ offered' = "none"
    /\ UNCHANGED <<pc, scriptVars, conn, stop, closer, arrived, sessVars, finished,
                   pending, m>>
Offer ==
    /\ reader = "offering" /\ Len(queue) < QueueSize
    /\ queue' = Append(queue, offered)
    /\ reader' = AfterOffer /\ offered' = "none"
    /\ UNCHANGED <<pc, scriptVars, conn, stop, closer, arrived, sessVars, finished,
                   pending, m>>

\* ... unless the session stops the reader.
StopOffer ==
    /\ reader = "offering" /\ stop
    /\ reader' = "exited" /\ offered' = "none"
    /\ UNCHANGED <<pc, scriptVars, conn, queue, stop, closer, arrived, sessVars, finished,
                   pending, m>>

\* conn.Close returns: the connection is closed, or it gave up waiting.
CloseReturns ==
    /\ closer = "waiting"
    /\ closer' = "done" /\ conn' = "closed"
    /\ UNCHANGED <<pc, scriptVars, reader, offered, queue, stop, arrived, sessVars,
                   finished, pending, m>>

-----------------------------------------------------------------------------
(* What both styles do *)

\* dial: a failed handshake is a failed session, of which a blocking script
\* gets a finished socket; a good one starts the reader.
Dial ==
    /\ pc = "dial"
    /\ \/ /\ ~ctxDone
          /\ conn' = "open" /\ reader' = "reading"
          /\ pc' = IF style = "callback" THEN "setup" ELSE "script"
          /\ UNCHANGED <<err, finished, m>>
       \/ /\ err' = "dial" /\ m' = Recorded("failed") /\ finished' = (style = "blocking")
          /\ pc' = IF style = "callback" THEN "returned" ELSE "script"
          /\ UNCHANGED <<conn, reader>>
    /\ UNCHANGED <<scriptVars, offered, queue, stop, closer, arrived, closing, done, thrown,
                   cause, pending>>

\* The sends awaiting a reply; past the limit the oldest is given up.
Await(reply) ==
    pending' = IF reply /\ pending < MaxPending THEN pending + 1 ELSE pending

\* session.send: refused, written, or failed.
Send ==
    \/ /\ done \/ closing
       /\ m' = Recorded("errors")
       /\ UNCHANGED <<closing, err, cause, pending>>
       /\ \/ UNCHANGED <<done, thrown>>
          \/ style = "callback" /\ Throw
    \/ /\ ~done /\ ~closing /\ conn = "open"
       /\ m' = Recorded("sent")
       /\ \E reply \in BOOLEAN : Await(reply)
       /\ UNCHANGED sessVars
    \/ /\ ~done /\ ~closing
       /\ IF ctxDone THEN done' = TRUE /\ UNCHANGED <<thrown, err, cause, m>> ELSE Fail
       /\ UNCHANGED <<closing, pending>>

\* closeSocket starts the handshake, whose code the peer may answer with.
CloseSocket ==
    IF closing \/ done THEN UNCHANGED <<closing, closer>>
    ELSE closing' = TRUE /\ closer' = "waiting"

\* A message was received: the oldest send awaiting a reply is timed by it.
TakeMessage ==
    /\ pending' = IF pending = 0 THEN 0 ELSE pending - 1
    /\ m' = IF ctxDone THEN m
            ELSE [m EXCEPT !.received = @ + 1, !.latency = @ + (IF pending = 0 THEN 0 ELSE 1)]

\* The release: stop the reader, CloseNow, wait for the reader to close the
\* channel, then for the close handshake.
BeginRelease == stop' = TRUE /\ conn' = "closed" /\ pc' = "drain"

Drain ==
    /\ pc = "drain" /\ queue # <<>>
    /\ queue' = Tail(queue)
    /\ UNCHANGED <<pc, scriptVars, conn, reader, offered, stop, closer, arrived, sessVars,
                   finished, pending, m>>

Drained ==
    /\ pc = "drain" /\ queue = <<>> /\ reader = "exited"
    /\ pc' = "join"
    /\ UNCHANGED <<scriptVars, netVars, sessVars, finished, pending, m>>

\* The handshake is joined.  connect returns or rethrows; finish ends a
\* session that is not over and records its end.
JoinedEarly ==
    /\ pc = "join"
    /\ IF style = "callback" THEN pc' = "returned" /\ UNCHANGED <<sessVars, m>>
       ELSE /\ pc' = IF over THEN "returned" ELSE "script"
            /\ IF done THEN UNCHANGED sessVars
               ELSE End("none") /\ cause' = "clean" /\ UNCHANGED closing
            /\ m' = Recorded(SessionEnd(err'))
    /\ UNCHANGED <<scriptVars, netVars, finished, pending>>
Joined ==
    /\ pc = "join" /\ closer # "waiting"
    /\ IF style = "callback" THEN pc' = "returned" /\ UNCHANGED <<sessVars, m>>
       ELSE /\ pc' = IF over THEN "returned" ELSE "script"
            /\ IF done THEN UNCHANGED sessVars
               ELSE End("none") /\ cause' = "clean" /\ UNCHANGED closing
            /\ m' = Recorded(SessionEnd(err'))
    /\ UNCHANGED <<scriptVars, netVars, finished, pending>>

-----------------------------------------------------------------------------
(* The callback style: JavaScript runs at setup, open and handler *)

InJS == pc \in {"setup", "open", "handler"}

JSSend ==
    /\ InJS /\ calls < MaxCalls
    /\ calls' = calls + 1
    /\ Send
    /\ UNCHANGED <<pc, style, ctxDone, over, timedOut, netVars, finished>>

JSClose ==
    /\ InJS /\ ~closing /\ ~done
    /\ CloseSocket
    /\ UNCHANGED <<pc, scriptVars, conn, reader, offered, queue, stop, arrived, done, thrown, err,
                   cause, finished, pending, m>>

\* After setup, "open" is fired unless a handler has thrown already.
JSReturns ==
    /\ InJS
    /\ pc' = IF pc = "setup" /\ ~thrown THEN "open" ELSE "loop"
    /\ UNCHANGED <<scriptVars, netVars, sessVars, finished, pending, m>>

\* An exception, or goja's interrupt once the context has ended.  After one
\* in setup connect is released at once.
JSThrows ==
    /\ InJS /\ Throw
    /\ IF pc = "setup" THEN BeginRelease ELSE pc' = "loop" /\ UNCHANGED <<stop, conn>>
    /\ UNCHANGED <<scriptVars, reader, offered, queue, closer, arrived, closing, err, cause,
                   finished, pending, m>>

\* The loop's select: the next event (or the closed channel), ...
LoopEvent ==
    /\ pc = "loop" /\ ~done /\ (queue # <<>> \/ reader = "exited")
    /\ IF queue = <<>>
       THEN End("none") /\ cause' = "abnormal" /\ UNCHANGED <<closing, queue, pending, pc, m>>
       ELSE /\ queue' = Tail(queue)
            /\ IF Head(queue) = "msg"
               THEN TakeMessage /\ pc' \in {"loop", "handler"} /\ UNCHANGED sessVars
               ELSE ReadFailed(Head(queue)) /\ UNCHANGED <<pending, pc>>
    /\ UNCHANGED <<scriptVars, conn, reader, offered, stop, closer, arrived, finished>>

\* ... a timer of the script, ...
LoopTimer ==
    /\ pc = "loop" /\ ~done /\ calls < MaxCalls
    /\ calls' = calls + 1 /\ pc' = "handler"
    /\ UNCHANGED <<style, ctxDone, over, timedOut, netVars, sessVars, finished, pending, m>>

\* ... or the end of the context.
LoopCancelledNever == FALSE /\ UNCHANGED vars
LoopCancelled ==
    /\ pc = "loop" /\ ~done /\ ctxDone
    /\ done' = TRUE
    /\ UNCHANGED <<pc, scriptVars, netVars, closing, thrown, err, cause, finished, pending, m>>

\* The loop ends: the session's end is recorded, then everything is released.
LoopEnds ==
    /\ pc = "loop" /\ done
    /\ m' = Recorded(SessionEnd(err))
    /\ BeginRelease
    /\ UNCHANGED <<scriptVars, reader, offered, queue, closer, arrived, sessVars, finished,
                   pending>>

-----------------------------------------------------------------------------
(* The blocking style: the script calls send, receive and close *)

\* finish, from wherever the session turned out to be over.
Finish == finished' = TRUE /\ BeginRelease

\* A send that ends the session finishes it.
BlockingSend ==
    /\ pc = "script" /\ ~over /\ calls < MaxCalls
    /\ calls' = calls + 1
    /\ IF finished
       THEN /\ m' = Recorded("errors") /\ err' = "closed"
            /\ UNCHANGED <<pc, closing, done, thrown, cause, finished, stop, conn, pending>>
       ELSE /\ Send
            /\ IF done' THEN Finish ELSE UNCHANGED <<pc, finished, stop, conn>>
    /\ UNCHANGED <<style, ctxDone, over, timedOut, reader, offered, queue, closer, arrived>>

BlockingReceive ==
    /\ pc = "script" /\ ~over /\ calls < MaxCalls /\ ~finished /\ ~done
    /\ calls' = calls + 1 /\ pc' = "receive"
    /\ UNCHANGED <<style, ctxDone, over, timedOut, netVars, sessVars, finished, pending, m>>

\* receive's select: an event, the timeout or the end of the context.
ReceiveEvent ==
    /\ pc = "receive" /\ (queue # <<>> \/ reader = "exited")
    /\ IF queue # <<>> /\ Head(queue) = "msg"
       THEN /\ queue' = Tail(queue) /\ TakeMessage /\ pc' = "script"
            /\ UNCHANGED <<sessVars, finished, stop, conn>>
       ELSE /\ IF queue = <<>>
               THEN End("none") /\ cause' = "abnormal" /\ UNCHANGED <<closing, queue, m>>
               ELSE ReadFailed(Head(queue)) /\ queue' = Tail(queue)
            /\ Finish /\ UNCHANGED pending
    /\ UNCHANGED <<scriptVars, reader, offered, closer, arrived>>

ReceiveTimeout ==
    /\ pc = "receive"
    /\ pc' = "script" /\ m' = Recorded("errors") /\ err' = "timeout" /\ timedOut' = TRUE
    /\ UNCHANGED <<style, ctxDone, calls, over, netVars, closing, done, thrown, cause, finished,
                   pending>>

ReceiveCancelled ==
    /\ pc = "receive" /\ ctxDone
    /\ pc' = "script"
    /\ UNCHANGED <<scriptVars, netVars, sessVars, finished, pending, m>>

\* blockingSocket.close: by the script, or by EndIteration once the script
\* returned, threw or was interrupted.  A session that is over is finished.
BlockingClose ==
    /\ pc = "script" /\ ~over
    /\ over' \in BOOLEAN
    /\ finished => over'
    /\ IF finished THEN pc' = "returned" /\ UNCHANGED <<closing, closer>>
       ELSE pc' = "closing" /\ CloseSocket
    /\ UNCHANGED <<style, ctxDone, calls, timedOut, conn, reader, offered, queue, stop, arrived,
                   done, thrown, err, cause, finished, pending, m>>

\* close drains the events, discarding messages, until the reader's last one,
\* which is a close frame or a failure.
CloseDrain ==
    /\ pc = "closing" /\ queue # <<>> /\ Head(queue) = "msg"
    /\ queue' = Tail(queue)
    /\ UNCHANGED <<pc, scriptVars, conn, reader, offered, stop, closer, arrived, sessVars,
                   finished, pending, m>>

CloseDrained ==
    /\ pc = "closing" /\ queue # <<>> /\ Head(queue) # "msg"
    /\ queue' = Tail(queue) /\ ReadFailed(Head(queue)) /\ Finish
    /\ UNCHANGED <<scriptVars, reader, offered, closer, arrived, pending>>

-----------------------------------------------------------------------------
Done == pc = "returned" /\ UNCHANGED vars

ReaderStep == Read \/ Offer \/ StopOffer
SessionStep ==
    \/ Dial \/ Drain \/ Drained \/ Joined
    \/ LoopEvent \/ LoopCancelled \/ LoopEnds
    \/ ReceiveEvent \/ ReceiveTimeout \/ ReceiveCancelled
    \/ CloseDrain \/ CloseDrained
ScriptStep ==
    \/ JSSend \/ JSClose \/ JSReturns \/ JSThrows \/ LoopTimer
    \/ BlockingSend \/ BlockingReceive \/ BlockingClose

Next == EndOfTest \/ ReaderStep \/ CloseReturns \/ SessionStep \/ ScriptStep \/ Done

\* Goroutines that can run do; a read of an open connection owes nothing.  The
\* handshake has its own timeouts.  A script owes nothing until the context
\* ends: then goja's interrupt aborts it, and EndIteration follows.
Fairness ==
    /\ WF_vars(Read /\ (conn = "closed" \/ stop)) /\ WF_vars(Offer \/ StopOffer)
    /\ WF_vars(CloseReturns) /\ WF_vars(SessionStep)
    /\ WF_vars(ctxDone /\ (JSThrows \/ (BlockingClose /\ over')))

Spec == Init /\ [][Next]_vars /\ Fairness

-----------------------------------------------------------------------------
(* Properties *)

\* session.go, run: "so no goroutine outlives connect", and the same of a
\* blocking socket that finish released.
NothingOutlives ==
    (pc = "returned" \/ (finished /\ pc = "script")) /\ conn # "none" =>
      conn = "closed" /\ reader = "exited" /\ closer # "waiting" /\ queue = <<>>

\* ADR-019: messages the reader has read reach the script in turn, also when
\* the channel is full; only the end of the session, or a blocking close that
\* waits for it, discards any.
NoMessageLost ==
    ~done /\ ~ctxDone /\ ~(style = "blocking" /\ closing) =>
      LET waiting == {i \in DOMAIN queue : queue[i] = "msg"}
      IN  m.received + Cardinality(waiting) + (IF offered = "msg" THEN 1 ELSE 0) = arrived

\* module.go:33, ws_session_failed: however many ways a session can end, and
\* whoever notices first, it is recorded once: as ok after a clean end or a
\* handler's exception but never after an end that left its error, as failed only
\* if its handshake failed, it ended abnormally or a receive timed out.  Not
\* recorded at all is one that the test's end cut short or whose setup callback
\* threw.  The two properties after this one say what it leaves open, which the
\* code does not keep.
SessionRecorded ==
    /\ m.ok + m.failed <= 1
    /\ m.ok = 1 => cause = "clean" \/ (thrown /\ cause # "abnormal")
    /\ m.failed = 1 => conn = "none" \/ cause = "abnormal" \/ timedOut
    /\ pc = "returned" /\ ~ctxDone /\ m.ok + m.failed = 0 => thrown

\* module.go:33, "true for a session whose handshake failed or that ended
\* abnormally (an error, ...)": a session that a failed read or write ended is
\* recorded as failed, whatever its error handler does.
AbnormalEndFails == m.ok = 1 => cause \notin {"abnormal", "masked"}

\* websocket.md:81, "Sessions that failed (handshake or abnormal end)", and line
\* 126, after a receive timeout "the socket stays open": a session that was
\* established and closed cleanly is not recorded as failed.
CleanEndSucceeds == m.failed = 1 => conn = "none" \/ cause # "clean"

\* ADR-019: once the test ends the session is released, whatever the peer does
\* and whatever the reader and the handshake were waiting for.
Released == ctxDone ~> pc = "returned"

=============================================================================
