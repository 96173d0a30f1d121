--------------------------- MODULE WSSessionProofs --------------------------
(***************************************************************************)
(* Proofs about WSSession, for a channel and a list of pending replies of  *)
(* any size, any number of messages and of calls of the script.            *)
(***************************************************************************)
EXTENDS WSSession, FiniteSetTheorems, SequenceTheorems, TLAPS

\* The specification without its fairness, which safety does not need.
Safety == Init /\ [][Next]_vars

Events == {"msg", "normal", "other", "fail"}

PlaceType == /\ style \in {"callback", "blocking"}
             /\ pc \in {"dial", "setup", "open", "handler", "loop", "script", "receive", "closing",
                        "drain", "join", "returned"}
             /\ finished \in BOOLEAN /\ stop \in BOOLEAN /\ ctxDone \in BOOLEAN
NetType   == /\ conn \in {"none", "open", "closed"}
             /\ reader \in {"none", "reading", "offering", "exited"}
             /\ closer \in {"none", "waiting", "done"}
             /\ offered \in Events \union {"none"} /\ queue \in Seq(Events)
SessType  == /\ closing \in BOOLEAN /\ done \in BOOLEAN /\ thrown \in BOOLEAN /\ timedOut \in BOOLEAN
             /\ err \in {"none", "dial", "io", "server", "timeout", "closed"}
             /\ cause \in {"open", "clean", "abnormal", "masked"}
Metrics   == [sent : Nat, received : Nat, errors : Nat, latency : Nat, ok : Nat, failed : Nat]
CountType == arrived \in Nat /\ pending \in Nat /\ m \in Metrics

\* The types of the variables.
TypeOK == PlaceType /\ NetType /\ SessType /\ CountType

\* Where the VU's goroutine can be in each style, and what it has not yet done
\* there: a session is over before it is released and released once.
PlaceInv ==
    /\ pc \in {"setup", "open", "handler", "loop"} => style = "callback" /\ conn # "none" /\ ~stop
    /\ pc \in {"script", "receive", "closing"} => style = "blocking"
    /\ style = "callback" => ~finished
    /\ pc = "dial" => conn = "none" /\ ~finished /\ ~done
    /\ pc \in {"script", "receive", "closing"} /\ ~finished => conn # "none" /\ ~done /\ ~stop
    /\ pc \in {"receive", "closing"} => ~finished
    /\ pc = "closing" => closing
    /\ pc \in {"drain", "join"} => stop /\ conn = "closed"
    /\ pc \in {"drain", "join", "returned"} /\ style = "blocking" => finished
    /\ stop => done

\* Nothing runs before the handshake has succeeded.
DialInv ==
    /\ conn = "none" => /\ pc \in {"dial", "script", "returned"}
                        /\ ~stop /\ ~closing /\ closer = "none"
    /\ conn = "none" <=> reader = "none"

\* The reader's last event, and no other, is not a message: the loop, receive and
\* close are never left without an event by a reader that has exited.
ReaderInv ==
    /\ reader = "offering" <=> offered # "none"
    /\ reader = "none" => queue = <<>>
    /\ \A i \in 1..Len(queue) : i < Len(queue) \/ reader \in {"reading", "offering"} => queue[i] = "msg"
    /\ ~done /\ reader = "exited" => queue # <<>> /\ queue[Len(queue)] # "msg"

\* What joining the reader and the handshake leaves behind.
ReleaseInv ==
    /\ pc = "join" => reader = "exited" /\ queue = <<>>
    /\ NothingOutlives

\* Messages in the channel, and in the reader's hand.
InChannel == IF queue # <<>> /\ queue[Len(queue)] # "msg" THEN Len(queue) - 1 ELSE Len(queue)
InHand    == IF offered = "msg" THEN 1 ELSE 0
MessageInv ==
    ~done /\ ~ctxDone /\ ~(style = "blocking" /\ closing) => m.received + InChannel + InHand = arrived

\* An abnormal end leaves its error behind, unless the error handler's exception
\* masked it; what else leaves one is a failed handshake, a receive timeout and,
\* after the session was finished, a send.  A session that is over without an end
\* of its own was ended by an exception or the end of the test.
CauseInv ==
    /\ cause # "open" => done
    /\ cause = "abnormal" => err # "none"
    /\ done /\ cause \in {"open", "masked"} => thrown \/ ctxDone
    /\ err # "none" => cause = "abnormal" \/ conn = "none" \/ timedOut \/ err = "closed"
    /\ err = "closed" => finished /\ pc \in {"script", "returned"}
    /\ pc = "dial" => err = "none"

\* A session is recorded once: as it leaves the loop, in the blocking style once
\* it is released.
Unrecorded == \/ pc \in {"dial", "setup", "open", "handler", "loop", "receive", "closing"}
              \/ pc = "script" /\ ~finished
              \/ pc \in {"drain", "join"} /\ style = "blocking"
RecordInv ==
    /\ m.ok + m.failed <= 1
    /\ Unrecorded => m.ok + m.failed = 0
    /\ ~Unrecorded /\ ~ctxDone /\ m.ok + m.failed = 0 => thrown
    /\ m.ok = 1 => cause = "clean" \/ (thrown /\ cause # "abnormal")
    /\ m.failed = 1 => conn = "none" \/ cause = "abnormal" \/ timedOut

SessionInv == /\ TypeOK /\ PlaceInv /\ DialInv /\ ReaderInv /\ ReleaseInv
              /\ MessageInv /\ CauseInv /\ RecordInv

-----------------------------------------------------------------------------
(* The channel *)

\* The first event of a channel that is not empty, and the rest.
LEMMA HeadTail ==
    ASSUME NetType, queue # <<>>
    PROVE  /\ Len(queue) \in Nat \ {0} /\ Head(queue) = queue[1] /\ Head(queue) \in Events
           /\ Tail(queue) \in Seq(Events) /\ Len(Tail(queue)) = Len(queue) - 1
           /\ \A i \in 1..(Len(queue) - 1) : Tail(queue)[i] = queue[i + 1]
  BY HeadTailProperties, LenProperties, EmptySeq DEF NetType

\* An event at its end.
LEMMA AtEnd ==
    ASSUME NetType, NEW e \in Events
    PROVE  /\ Len(queue) \in Nat /\ Append(queue, e) \in Seq(Events) /\ Append(queue, e) # <<>>
           /\ Len(Append(queue, e)) = Len(queue) + 1 /\ Append(queue, e)[Len(queue) + 1] = e
           /\ \A i \in 1..Len(queue) : Append(queue, e)[i] = queue[i]
  BY AppendProperties, LenProperties DEF NetType

\* Taking a message leaves one less; putting one there makes one more.
LEMMA ChannelLess ==
    ASSUME NetType, queue # <<>>, Head(queue) = "msg", queue' = Tail(queue)
    PROVE  InChannel \in Nat /\ InChannel' = InChannel - 1
<1>1. CASE Len(queue) = 1
  <2>1. queue' = <<>> /\ Len(queue') = 0
    BY <1>1, HeadTail, EmptySeq DEF NetType
  <2>2. QED
    BY <1>1, <2>1, HeadTail DEF InChannel
<1>2. CASE Len(queue) > 1
  <2>1. Len(queue') = Len(queue) - 1 /\ Len(queue) \in Nat
    BY HeadTail
  <2>2. queue' # <<>>
    BY <1>2, <2>1
  <2>3. queue'[Len(queue) - 1] = queue[(Len(queue) - 1) + 1]
    BY <1>2, <2>1, HeadTail
  <2>4. queue'[Len(queue')] = queue[Len(queue)]
    <3>1. (Len(queue) - 1) + 1 = Len(queue)
      BY <2>1
    <3>2. QED
      BY <2>1, <2>3, <3>1
  <2>5. QED
    BY <1>2, <2>1, <2>2, <2>4 DEF InChannel
<1>3. QED
  BY <1>1, <1>2, HeadTail

LEMMA ChannelMore ==
    ASSUME NetType, ReaderInv, reader = "offering", queue' = Append(queue, offered)
    PROVE  InChannel \in Nat /\ InChannel' = InChannel + InHand
<1>1. offered \in Events
  BY DEF NetType, ReaderInv
<1>2. InChannel = Len(queue) /\ Len(queue) \in Nat
  BY LenProperties, EmptySeq DEF NetType, ReaderInv, InChannel
<1>3. Len(queue') = Len(queue) + 1 /\ queue' # <<>> /\ queue'[Len(queue')] = offered
  BY <1>1, AtEnd
<1>4. CASE offered = "msg"
  BY <1>2, <1>3, <1>4 DEF InChannel, InHand
<1>5. CASE offered # "msg"
  BY <1>2, <1>3, <1>5 DEF InChannel, InHand
<1>6. QED
  BY <1>4, <1>5

-----------------------------------------------------------------------------
(* Types *)

\* The VU's goroutine stays at one of its places.
LEMMA PlaceTypeStep ==
    ASSUME PlaceType
    PROVE  [Next]_vars => PlaceType'
<1>1. ASSUME EndOfTest PROVE PlaceType'
  BY <1>1 DEF EndOfTest, PlaceType, vars, netVars, sessVars, scriptVars
<1>2. ASSUME Read PROVE PlaceType'
  BY <1>2 DEF Read, PlaceType, vars, netVars, sessVars, scriptVars
<1>3. ASSUME Offer PROVE PlaceType'
  BY <1>3 DEF Offer, PlaceType, vars, netVars, sessVars, scriptVars
<1>4. ASSUME StopOffer PROVE PlaceType'
  BY <1>4 DEF StopOffer, PlaceType, vars, netVars, sessVars, scriptVars
<1>5. ASSUME CloseReturns PROVE PlaceType'
  BY <1>5 DEF CloseReturns, PlaceType, vars, netVars, sessVars, scriptVars
<1>6. ASSUME Dial PROVE PlaceType'
  BY <1>6 DEF Dial, PlaceType, vars, netVars, sessVars, scriptVars
<1>7. ASSUME Drain PROVE PlaceType'
  BY <1>7 DEF Drain, PlaceType, vars, netVars, sessVars, scriptVars
<1>8. ASSUME Drained PROVE PlaceType'
  BY <1>8 DEF Drained, PlaceType, vars, netVars, sessVars, scriptVars
<1>9. ASSUME Joined PROVE PlaceType'
  BY <1>9 DEF Joined, PlaceType, vars, netVars, sessVars, scriptVars
<1>10. ASSUME LoopEvent PROVE PlaceType'
  BY <1>10 DEF LoopEvent, PlaceType, vars, netVars, sessVars, scriptVars
<1>11. ASSUME LoopCancelled PROVE PlaceType'
  BY <1>11 DEF LoopCancelled, PlaceType, vars, netVars, sessVars, scriptVars
<1>12. ASSUME LoopEnds PROVE PlaceType'
  BY <1>12 DEF LoopEnds, BeginRelease, PlaceType, vars, netVars, sessVars, scriptVars
<1>13. ASSUME ReceiveEvent PROVE PlaceType'
  BY <1>13 DEF ReceiveEvent, Finish, BeginRelease, PlaceType, vars, netVars, sessVars, scriptVars
<1>14. ASSUME ReceiveTimeout PROVE PlaceType'
  BY <1>14 DEF ReceiveTimeout, PlaceType, vars, netVars, sessVars, scriptVars
<1>15. ASSUME ReceiveCancelled PROVE PlaceType'
  BY <1>15 DEF ReceiveCancelled, PlaceType, vars, netVars, sessVars, scriptVars
<1>16. ASSUME CloseDrain PROVE PlaceType'
  BY <1>16 DEF CloseDrain, PlaceType, vars, netVars, sessVars, scriptVars
<1>17. ASSUME CloseDrained PROVE PlaceType'
  BY <1>17 DEF CloseDrained, Finish, BeginRelease, PlaceType, vars, netVars, sessVars, scriptVars
<1>18. ASSUME JSSend PROVE PlaceType'
  BY <1>18 DEF JSSend, PlaceType, vars, netVars, sessVars, scriptVars
<1>19. ASSUME JSClose PROVE PlaceType'
  BY <1>19 DEF JSClose, PlaceType, vars, netVars, sessVars, scriptVars
<1>20. ASSUME JSReturns PROVE PlaceType'
  BY <1>20 DEF JSReturns, InJS, PlaceType, vars, netVars, sessVars, scriptVars
<1>21. ASSUME JSThrows PROVE PlaceType'
  BY <1>21 DEF JSThrows, InJS, BeginRelease, PlaceType, vars, netVars, sessVars, scriptVars
<1>22. ASSUME LoopTimer PROVE PlaceType'
  BY <1>22 DEF LoopTimer, PlaceType, vars, netVars, sessVars, scriptVars
<1>23. ASSUME BlockingSend PROVE PlaceType'
  BY <1>23 DEF BlockingSend, Finish, BeginRelease, PlaceType, vars, netVars, sessVars, scriptVars
<1>24. ASSUME BlockingReceive PROVE PlaceType'
  BY <1>24 DEF BlockingReceive, PlaceType, vars, netVars, sessVars, scriptVars
<1>25. ASSUME BlockingClose PROVE PlaceType'
  BY <1>25 DEF BlockingClose, PlaceType, vars, netVars, sessVars, scriptVars
<1>26. ASSUME Done PROVE PlaceType'
  BY <1>26 DEF Done, PlaceType, vars, netVars, sessVars, scriptVars
<1>27. ASSUME UNCHANGED vars PROVE PlaceType'
  BY <1>27 DEF vars, PlaceType, vars, netVars, sessVars, scriptVars
<1>28. QED
  BY <1>1, <1>2, <1>3, <1>4, <1>5, <1>6, <1>7, <1>8, <1>9, <1>10, <1>11, <1>12,
     <1>13, <1>14, <1>15, <1>16, <1>17, <1>18, <1>19, <1>20, <1>21, <1>22, <1>23,
     <1>24, <1>25, <1>26, <1>27 DEF Next, ReaderStep, SessionStep, ScriptStep

\* The connection, the reader and the channel keep their types.
LEMMA NetTypeStep ==
    ASSUME NetType, ReaderInv
    PROVE  [Next]_vars => NetType'
<1>1. ASSUME EndOfTest PROVE NetType'
  BY <1>1 DEF EndOfTest, NetType, vars, netVars, sessVars, scriptVars
<1>2. ASSUME Read PROVE NetType'
  BY <1>2 DEF Read, Events, NetType, vars, netVars, sessVars, scriptVars
<1>3. ASSUME Offer PROVE NetType'
  BY <1>3, AtEnd DEF Offer, AfterOffer, ReaderInv, NetType, vars, netVars, sessVars, scriptVars
<1>4. ASSUME StopOffer PROVE NetType'
  BY <1>4 DEF StopOffer, NetType, vars, netVars, sessVars, scriptVars
<1>5. ASSUME CloseReturns PROVE NetType'
  BY <1>5 DEF CloseReturns, NetType, vars, netVars, sessVars, scriptVars
<1>6. ASSUME Dial PROVE NetType'
  BY <1>6 DEF Dial, NetType, vars, netVars, sessVars, scriptVars
<1>7. ASSUME Drain PROVE NetType'
  BY <1>7, HeadTail DEF Drain, NetType, vars, netVars, sessVars, scriptVars
<1>8. ASSUME Drained PROVE NetType'
  BY <1>8 DEF Drained, NetType, vars, netVars, sessVars, scriptVars
<1>9. ASSUME Joined PROVE NetType'
  BY <1>9 DEF Joined, NetType, vars, netVars, sessVars, scriptVars
<1>10. ASSUME LoopEvent PROVE NetType'
  BY <1>10, HeadTail DEF LoopEvent, NetType, vars, netVars, sessVars, scriptVars
<1>11. ASSUME LoopCancelled PROVE NetType'
  BY <1>11 DEF LoopCancelled, NetType, vars, netVars, sessVars, scriptVars
<1>12. ASSUME LoopEnds PROVE NetType'
  BY <1>12 DEF LoopEnds, BeginRelease, NetType, vars, netVars, sessVars, scriptVars
<1>13. ASSUME ReceiveEvent PROVE NetType'
  BY <1>13, HeadTail DEF ReceiveEvent, Finish, BeginRelease, NetType, vars, netVars, sessVars, scriptVars
<1>14. ASSUME ReceiveTimeout PROVE NetType'
  BY <1>14 DEF ReceiveTimeout, NetType, vars, netVars, sessVars, scriptVars
<1>15. ASSUME ReceiveCancelled PROVE NetType'
  BY <1>15 DEF ReceiveCancelled, NetType, vars, netVars, sessVars, scriptVars
<1>16. ASSUME CloseDrain PROVE NetType'
  BY <1>16, HeadTail DEF CloseDrain, NetType, vars, netVars, sessVars, scriptVars
<1>17. ASSUME CloseDrained PROVE NetType'
  BY <1>17, HeadTail DEF CloseDrained, Finish, BeginRelease, NetType, vars, netVars, sessVars, scriptVars
<1>18. ASSUME JSSend PROVE NetType'
  BY <1>18 DEF JSSend, NetType, vars, netVars, sessVars, scriptVars
<1>19. ASSUME JSClose PROVE NetType'
  BY <1>19 DEF JSClose, InJS, CloseSocket, NetType, vars, netVars, sessVars, scriptVars
<1>20. ASSUME JSReturns PROVE NetType'
  BY <1>20 DEF JSReturns, InJS, NetType, vars, netVars, sessVars, scriptVars
<1>21. ASSUME JSThrows PROVE NetType'
  BY <1>21 DEF JSThrows, InJS, BeginRelease, NetType, vars, netVars, sessVars, scriptVars
<1>22. ASSUME LoopTimer PROVE NetType'
  BY <1>22 DEF LoopTimer, NetType, vars, netVars, sessVars, scriptVars
<1>23. ASSUME BlockingSend PROVE NetType'
  BY <1>23 DEF BlockingSend, Finish, BeginRelease, NetType, vars, netVars, sessVars, scriptVars
<1>24. ASSUME BlockingReceive PROVE NetType'
  BY <1>24 DEF BlockingReceive, NetType, vars, netVars, sessVars, scriptVars
<1>25. ASSUME BlockingClose PROVE NetType'
  BY <1>25 DEF BlockingClose, CloseSocket, NetType, vars, netVars, sessVars, scriptVars
<1>26. ASSUME Done PROVE NetType'
  BY <1>26 DEF Done, NetType, vars, netVars, sessVars, scriptVars
<1>27. ASSUME UNCHANGED vars PROVE NetType'
  BY <1>27 DEF vars, NetType, vars, netVars, sessVars, scriptVars
<1>28. QED
  BY <1>1, <1>2, <1>3, <1>4, <1>5, <1>6, <1>7, <1>8, <1>9, <1>10, <1>11, <1>12,
     <1>13, <1>14, <1>15, <1>16, <1>17, <1>18, <1>19, <1>20, <1>21, <1>22, <1>23,
     <1>24, <1>25, <1>26, <1>27 DEF Next, ReaderStep, SessionStep, ScriptStep

\* And the fields of the session.
LEMMA SessTypeStep ==
    ASSUME PlaceType, NetType, SessType
    PROVE  [Next]_vars => SessType'
<1>1. ASSUME EndOfTest PROVE SessType'
  BY <1>1 DEF EndOfTest, SessType, PlaceType, vars, netVars, sessVars, scriptVars
<1>2. ASSUME Read PROVE SessType'
  BY <1>2 DEF Read, SessType, PlaceType, vars, netVars, sessVars, scriptVars
<1>3. ASSUME Offer PROVE SessType'
  BY <1>3 DEF Offer, SessType, PlaceType, vars, netVars, sessVars, scriptVars
<1>4. ASSUME StopOffer PROVE SessType'
  BY <1>4 DEF StopOffer, SessType, PlaceType, vars, netVars, sessVars, scriptVars
<1>5. ASSUME CloseReturns PROVE SessType'
  BY <1>5 DEF CloseReturns, SessType, PlaceType, vars, netVars, sessVars, scriptVars
<1>6. ASSUME Dial PROVE SessType'
  BY <1>6 DEF Dial, Recorded, SessType, PlaceType, vars, netVars, sessVars, scriptVars
<1>7. ASSUME Drain PROVE SessType'
  BY <1>7 DEF Drain, SessType, PlaceType, vars, netVars, sessVars, scriptVars
<1>8. ASSUME Drained PROVE SessType'
  BY <1>8 DEF Drained, SessType, PlaceType, vars, netVars, sessVars, scriptVars
<1>9. ASSUME Joined PROVE SessType'
  BY <1>9 DEF Joined, End, SessType, PlaceType, vars, netVars, sessVars, scriptVars
<1>10. ASSUME LoopEvent PROVE SessType'
  BY <1>10 DEF LoopEvent, ReadFailed, Fail, End, Throw, SessType, PlaceType, vars, netVars, sessVars, scriptVars
<1>11. ASSUME LoopCancelled PROVE SessType'
  BY <1>11 DEF LoopCancelled, SessType, PlaceType, vars, netVars, sessVars, scriptVars
<1>12. ASSUME LoopEnds PROVE SessType'
  BY <1>12 DEF LoopEnds, SessType, PlaceType, vars, netVars, sessVars, scriptVars
<1>13. ASSUME ReceiveEvent PROVE SessType'
  BY <1>13 DEF ReceiveEvent, ReadFailed, Fail, End, Throw, SessType, PlaceType, vars, netVars, sessVars, scriptVars
<1>14. ASSUME ReceiveTimeout PROVE SessType'
  BY <1>14 DEF ReceiveTimeout, SessType, PlaceType, vars, netVars, sessVars, scriptVars
<1>15. ASSUME ReceiveCancelled PROVE SessType'
  BY <1>15 DEF ReceiveCancelled, SessType, PlaceType, vars, netVars, sessVars, scriptVars
<1>16. ASSUME CloseDrain PROVE SessType'
  BY <1>16 DEF CloseDrain, SessType, PlaceType, vars, netVars, sessVars, scriptVars
<1>17. ASSUME CloseDrained PROVE SessType'
  BY <1>17 DEF CloseDrained, ReadFailed, Fail, End, Throw, SessType, PlaceType, vars, netVars, sessVars, scriptVars
<1>18. ASSUME JSSend PROVE SessType'
  BY <1>18 DEF JSSend, InJS, Send, Fail, End, Throw, SessType, PlaceType, vars, netVars, sessVars, scriptVars
<1>19. ASSUME JSClose PROVE SessType'
  BY <1>19 DEF JSClose, InJS, CloseSocket, SessType, PlaceType, vars, netVars, sessVars, scriptVars
<1>20. ASSUME JSReturns PROVE SessType'
  BY <1>20 DEF JSReturns, InJS, SessType, PlaceType, vars, netVars, sessVars, scriptVars
<1>21. ASSUME JSThrows PROVE SessType'
  BY <1>21 DEF JSThrows, InJS, Throw, BeginRelease, SessType, PlaceType, vars, netVars, sessVars, scriptVars
<1>22. ASSUME LoopTimer PROVE SessType'
  BY <1>22 DEF LoopTimer, SessType, PlaceType, vars, netVars, sessVars, scriptVars
<1>23. ASSUME BlockingSend PROVE SessType'
  BY <1>23 DEF BlockingSend, Send, Fail, End, Throw, SessType, PlaceType, vars, netVars, sessVars, scriptVars
<1>24. ASSUME BlockingReceive PROVE SessType'
  BY <1>24 DEF BlockingReceive, SessType, PlaceType, vars, netVars, sessVars, scriptVars
<1>25. ASSUME BlockingClose PROVE SessType'
  BY <1>25 DEF BlockingClose, CloseSocket, SessType, PlaceType, vars, netVars, sessVars, scriptVars
<1>26. ASSUME Done PROVE SessType'
  BY <1>26 DEF Done, SessType, PlaceType, vars, netVars, sessVars, scriptVars
<1>27. ASSUME UNCHANGED vars PROVE SessType'
  BY <1>27 DEF vars, SessType, PlaceType, vars, netVars, sessVars, scriptVars
<1>28. QED
  BY <1>1, <1>2, <1>3, <1>4, <1>5, <1>6, <1>7, <1>8, <1>9, <1>10, <1>11, <1>12,
     <1>13, <1>14, <1>15, <1>16, <1>17, <1>18, <1>19, <1>20, <1>21, <1>22, <1>23,
     <1>24, <1>25, <1>26, <1>27 DEF Next, ReaderStep, SessionStep, ScriptStep

\* Recording adds one sample of one family, none once the context has ended.
LEMMA RecordedOne ==
    ASSUME m \in Metrics, NEW f \in {"sent", "received", "errors", "latency", "ok", "failed"}
    PROVE  /\ Recorded(f) \in Metrics
           /\ ctxDone => Recorded(f) = m
           /\ f \notin {"ok", "failed"} => Recorded(f).ok = m.ok /\ Recorded(f).failed = m.failed
           /\ f # "received" => Recorded(f).received = m.received
           /\ ~ctxDone /\ f = "ok" => Recorded(f).ok = m.ok + 1 /\ Recorded(f).failed = m.failed
           /\ ~ctxDone /\ f = "failed" => Recorded(f).ok = m.ok /\ Recorded(f).failed = m.failed + 1
<1>1. CASE f = "sent"
  BY <1>1 DEF Recorded, Metrics
<1>2. CASE f = "received"
  BY <1>2 DEF Recorded, Metrics
<1>3. CASE f = "errors"
  BY <1>3 DEF Recorded, Metrics
<1>4. CASE f = "latency"
  BY <1>4 DEF Recorded, Metrics
<1>5. CASE f = "ok"
  BY <1>5 DEF Recorded, Metrics
<1>6. CASE f = "failed"
  BY <1>6 DEF Recorded, Metrics
<1>7. QED
  BY <1>1, <1>2, <1>3, <1>4, <1>5, <1>6

\* A message taken is counted, unless the context has ended, and no session is.
LEMMA TakenOne ==
    ASSUME CountType, TakeMessage
    PROVE  /\ pending' \in Nat /\ m' \in Metrics
           /\ m'.ok = m.ok /\ m'.failed = m.failed
           /\ ~ctxDone => m'.received = m.received + 1
<1>1. pending' \in Nat
  BY DEF CountType, TakeMessage
<1>2. CASE ctxDone
  BY <1>1, <1>2 DEF CountType, TakeMessage
<1>3. CASE ~ctxDone
  <2>1. PICK k \in {0, 1} : m' = [m EXCEPT !.received = @ + 1, !.latency = @ + k]
    BY <1>3 DEF TakeMessage
  <2>2. m \in Metrics
    BY DEF CountType
  <2>3. m' \in Metrics
    <3>1. m.received + 1 \in Nat /\ m.latency + k \in Nat
      BY <2>2 DEF Metrics
    <3>2. QED
      BY <2>1, <2>2, <3>1 DEF Metrics
  <2>4. m'.ok = m.ok /\ m'.failed = m.failed /\ m'.received = m.received + 1
    BY <2>1, <2>2 DEF Metrics
  <2>5. QED
    BY <1>1, <2>3, <2>4
<1>4. QED
  BY <1>2, <1>3

\* What a failure of the session leaves behind: its error, or the exception of an
\* error handler.
Failed == \/ cause' = "abnormal" /\ err' # "none"
          \/ cause' = "masked" /\ err' = err /\ (thrown' \/ ctxDone)

\* A send records no session and no message received; it ends the session by an
\* exception, by a failure, or because the test is over.
LEMMA SendEffects ==
    ASSUME PlaceType, SessType, CountType, Send
    PROVE  /\ closing' = closing /\ (done => done') /\ (thrown => thrown')
           /\ m'.ok = m.ok /\ m'.failed = m.failed /\ m'.received = m.received
           /\ err' = "closed" => err = "closed"
           /\ \/ cause' = cause /\ err' = err /\ (done' => done \/ thrown' \/ ctxDone)
              \/ ~done /\ done' /\ Failed
<1>1. closing' = closing /\ (done => done') /\ (thrown => thrown')
  BY DEF Send, Fail, End, Throw, SessType, sessVars
<1>2. m' = Recorded("errors") \/ m' = Recorded("sent") \/ m' = m
  BY DEF Send, Fail
<1>3. m'.ok = m.ok /\ m'.failed = m.failed /\ m'.received = m.received
  BY <1>2, RecordedOne DEF CountType
<1>4. err' = "closed" => err = "closed"
  BY DEF Send, Fail, End, Throw, SessType, sessVars
<1>5. \/ cause' = cause /\ err' = err /\ (done' => done \/ thrown' \/ ctxDone)
      \/ ~done /\ done' /\ Failed
  BY DEF Send, Fail, End, Throw, Failed, SessType, PlaceType, sessVars
<1>6. QED
  BY <1>1, <1>3, <1>4, <1>5

\* The reader's last event ends the session, cleanly or by a failure.
LEMMA LastEvent ==
    ASSUME PlaceType, SessType, CountType, ~done, NEW kind, ReadFailed(kind)
    PROVE  /\ closing' = closing /\ done' /\ (thrown => thrown')
           /\ m'.ok = m.ok /\ m'.failed = m.failed
           /\ err' = "closed" => err = "closed"
           /\ \/ cause' = "clean" /\ err' = err
              \/ Failed
<1>1. closing' = closing /\ done' /\ (thrown => thrown')
  BY DEF ReadFailed, Fail, End, Throw, SessType
<1>2. m' = Recorded("errors") \/ m' = m
  BY DEF ReadFailed, Fail
<1>3. m'.ok = m.ok /\ m'.failed = m.failed
  BY <1>2, RecordedOne DEF CountType
<1>4. err' = "closed" => err = "closed"
  BY DEF ReadFailed, Fail, End, Throw, SessType
<1>5. \/ cause' = "clean" /\ err' = err
      \/ Failed
  BY DEF ReadFailed, Fail, End, Throw, Failed, SessType, PlaceType
<1>6. QED
  BY <1>1, <1>3, <1>4, <1>5

\* A session that is not over has an event to take: the channel is not found
\* closed.
LEMMA EventThere ==
    ASSUME ReaderInv, ~done, queue # <<>> \/ reader = "exited"
    PROVE  queue # <<>>
  BY DEF ReaderInv

\* And the counters.
LEMMA CountTypeStep ==
    ASSUME CountType
    PROVE  [Next]_vars => CountType'
<1>1. ASSUME EndOfTest PROVE CountType'
  BY <1>1 DEF EndOfTest, CountType, vars, netVars, sessVars, scriptVars
<1>2. ASSUME Read PROVE CountType'
  BY <1>2 DEF Read, CountType, vars, netVars, sessVars, scriptVars
<1>3. ASSUME Offer PROVE CountType'
  BY <1>3 DEF Offer, CountType, vars, netVars, sessVars, scriptVars
<1>4. ASSUME StopOffer PROVE CountType'
  BY <1>4 DEF StopOffer, CountType, vars, netVars, sessVars, scriptVars
<1>5. ASSUME CloseReturns PROVE CountType'
  BY <1>5 DEF CloseReturns, CountType, vars, netVars, sessVars, scriptVars
<1>6. ASSUME Dial PROVE CountType'
  BY <1>6, RecordedOne DEF Dial, CountType, vars, netVars, sessVars, scriptVars
<1>7. ASSUME Drain PROVE CountType'
  BY <1>7 DEF Drain, CountType, vars, netVars, sessVars, scriptVars
<1>8. ASSUME Drained PROVE CountType'
  BY <1>8 DEF Drained, CountType, vars, netVars, sessVars, scriptVars
<1>9. ASSUME Joined PROVE CountType'
  BY <1>9, RecordedOne DEF Joined, SessionEnd, CountType, vars, netVars, sessVars, scriptVars
<1>10. ASSUME LoopEvent PROVE CountType'
  BY <1>10, RecordedOne, TakenOne DEF LoopEvent, ReadFailed, Fail, CountType, vars, netVars, sessVars, scriptVars
<1>11. ASSUME LoopCancelled PROVE CountType'
  BY <1>11 DEF LoopCancelled, CountType, vars, netVars, sessVars, scriptVars
<1>12. ASSUME LoopEnds PROVE CountType'
  BY <1>12, RecordedOne DEF LoopEnds, SessionEnd, CountType, vars, netVars, sessVars, scriptVars
<1>13. ASSUME ReceiveEvent PROVE CountType'
  BY <1>13, RecordedOne, TakenOne DEF ReceiveEvent, ReadFailed, Fail, CountType, vars, netVars, sessVars, scriptVars
<1>14. ASSUME ReceiveTimeout PROVE CountType'
  BY <1>14, RecordedOne DEF ReceiveTimeout, CountType, vars, netVars, sessVars, scriptVars
<1>15. ASSUME ReceiveCancelled PROVE CountType'
  BY <1>15 DEF ReceiveCancelled, CountType, vars, netVars, sessVars, scriptVars
<1>16. ASSUME CloseDrain PROVE CountType'
  BY <1>16 DEF CloseDrain, CountType, vars, netVars, sessVars, scriptVars
<1>17. ASSUME CloseDrained PROVE CountType'
  BY <1>17, RecordedOne DEF CloseDrained, ReadFailed, Fail, CountType, vars, netVars, sessVars, scriptVars
<1>18. ASSUME JSSend PROVE CountType'
  BY <1>18, RecordedOne DEF JSSend, Send, Fail, Await, CountType, vars, netVars, sessVars, scriptVars
<1>19. ASSUME JSClose PROVE CountType'
  BY <1>19 DEF JSClose, InJS, CloseSocket, CountType, vars, netVars, sessVars, scriptVars
<1>20. ASSUME JSReturns PROVE CountType'
  BY <1>20 DEF JSReturns, InJS, CountType, vars, netVars, sessVars, scriptVars
<1>21. ASSUME JSThrows PROVE CountType'
  BY <1>21 DEF JSThrows, CountType, vars, netVars, sessVars, scriptVars
<1>22. ASSUME LoopTimer PROVE CountType'
  BY <1>22 DEF LoopTimer, CountType, vars, netVars, sessVars, scriptVars
<1>23. ASSUME BlockingSend PROVE CountType'
  BY <1>23, RecordedOne DEF BlockingSend, Send, Fail, Await, CountType, vars, netVars, sessVars, scriptVars
<1>24. ASSUME BlockingReceive PROVE CountType'
  BY <1>24 DEF BlockingReceive, CountType, vars, netVars, sessVars, scriptVars
<1>25. ASSUME BlockingClose PROVE CountType'
  BY <1>25 DEF BlockingClose, CloseSocket, CountType, vars, netVars, sessVars, scriptVars
<1>26. ASSUME Done PROVE CountType'
  BY <1>26 DEF Done, CountType, vars, netVars, sessVars, scriptVars
<1>27. ASSUME UNCHANGED vars PROVE CountType'
  BY <1>27 DEF vars, CountType, vars, netVars, sessVars, scriptVars
<1>28. QED
  BY <1>1, <1>2, <1>3, <1>4, <1>5, <1>6, <1>7, <1>8, <1>9, <1>10, <1>11, <1>12,
     <1>13, <1>14, <1>15, <1>16, <1>17, <1>18, <1>19, <1>20, <1>21, <1>22, <1>23,
     <1>24, <1>25, <1>26, <1>27 DEF Next, ReaderStep, SessionStep, ScriptStep

\* The goroutine goes where the style lets it.
LEMMA PlaceStep ==
    ASSUME PlaceType, SessType, PlaceInv, DialInv, ReaderInv
    PROVE  [Next]_vars => PlaceInv'
<1>1. ASSUME EndOfTest PROVE PlaceInv'
  BY <1>1 DEF EndOfTest, PlaceType, PlaceInv, DialInv, vars, netVars, sessVars, scriptVars
<1>2. ASSUME Read PROVE PlaceInv'
  BY <1>2 DEF Read, PlaceType, PlaceInv, DialInv, vars, netVars, sessVars, scriptVars
<1>3. ASSUME Offer PROVE PlaceInv'
  BY <1>3 DEF Offer, AfterOffer, PlaceType, PlaceInv, DialInv, vars, netVars, sessVars, scriptVars
<1>4. ASSUME StopOffer PROVE PlaceInv'
  BY <1>4 DEF StopOffer, PlaceType, PlaceInv, DialInv, vars, netVars, sessVars, scriptVars
<1>5. ASSUME CloseReturns PROVE PlaceInv'
  BY <1>5 DEF CloseReturns, PlaceType, PlaceInv, DialInv, vars, netVars, sessVars, scriptVars
<1>6. ASSUME Dial PROVE PlaceInv'
  <2>1. CASE style = "callback"
    BY <1>6, <2>1 DEF Dial, PlaceType, SessType, PlaceInv, DialInv, vars, netVars, sessVars, scriptVars
  <2>2. CASE ~(style = "callback")
    BY <1>6, <2>2 DEF Dial, PlaceType, SessType, PlaceInv, DialInv, vars, netVars, sessVars, scriptVars
  <2>3. QED
    BY <2>1, <2>2
<1>7. ASSUME Drain PROVE PlaceInv'
  BY <1>7 DEF Drain, PlaceType, PlaceInv, DialInv, vars, netVars, sessVars, scriptVars
<1>8. ASSUME Drained PROVE PlaceInv'
  BY <1>8 DEF Drained, PlaceType, PlaceInv, DialInv, vars, netVars, sessVars, scriptVars
<1>9. ASSUME Joined PROVE PlaceInv'
  BY <1>9 DEF Joined, End, PlaceType, PlaceInv, DialInv, vars, netVars, sessVars, scriptVars
<1>10. ASSUME LoopEvent PROVE PlaceInv'
  BY <1>10 DEF LoopEvent, ReadFailed, Fail, End, Throw, TakeMessage, PlaceType, PlaceInv, DialInv, vars, netVars, sessVars, scriptVars
<1>11. ASSUME LoopCancelled PROVE PlaceInv'
  BY <1>11 DEF LoopCancelled, PlaceType, PlaceInv, DialInv, vars, netVars, sessVars, scriptVars
<1>12. ASSUME LoopEnds PROVE PlaceInv'
  BY <1>12 DEF LoopEnds, BeginRelease, PlaceType, PlaceInv, DialInv, vars, netVars, sessVars, scriptVars
<1>13. ASSUME ReceiveEvent PROVE PlaceInv'
  BY <1>13 DEF ReceiveEvent, ReadFailed, Fail, End, Throw, TakeMessage, Finish, BeginRelease, PlaceType, PlaceInv, DialInv, vars, netVars, sessVars, scriptVars
<1>14. ASSUME ReceiveTimeout PROVE PlaceInv'
  BY <1>14 DEF ReceiveTimeout, PlaceType, PlaceInv, DialInv, vars, netVars, sessVars, scriptVars
<1>15. ASSUME ReceiveCancelled PROVE PlaceInv'
  BY <1>15 DEF ReceiveCancelled, PlaceType, PlaceInv, DialInv, vars, netVars, sessVars, scriptVars
<1>16. ASSUME CloseDrain PROVE PlaceInv'
  BY <1>16 DEF CloseDrain, PlaceType, PlaceInv, DialInv, vars, netVars, sessVars, scriptVars
<1>17. ASSUME CloseDrained PROVE PlaceInv'
  BY <1>17 DEF CloseDrained, ReadFailed, Fail, End, Throw, Finish, BeginRelease, PlaceType, PlaceInv, DialInv, vars, netVars, sessVars, scriptVars
<1>18. ASSUME JSSend PROVE PlaceInv'
  BY <1>18 DEF JSSend, InJS, Send, Fail, End, Throw, PlaceType, PlaceInv, DialInv, vars, netVars, sessVars, scriptVars
<1>19. ASSUME JSClose PROVE PlaceInv'
  BY <1>19 DEF JSClose, InJS, CloseSocket, PlaceType, PlaceInv, DialInv, vars, netVars, sessVars, scriptVars
<1>20. ASSUME JSReturns PROVE PlaceInv'
  BY <1>20 DEF JSReturns, InJS, PlaceType, PlaceInv, DialInv, vars, netVars, sessVars, scriptVars
<1>21. ASSUME JSThrows PROVE PlaceInv'
  BY <1>21 DEF JSThrows, InJS, Throw, BeginRelease, PlaceType, PlaceInv, DialInv, vars, netVars, sessVars, scriptVars
<1>22. ASSUME LoopTimer PROVE PlaceInv'
  BY <1>22 DEF LoopTimer, PlaceType, PlaceInv, DialInv, vars, netVars, sessVars, scriptVars
<1>23. ASSUME BlockingSend PROVE PlaceInv'
  BY <1>23 DEF BlockingSend, Send, Fail, End, Throw, Finish, BeginRelease, PlaceType, PlaceInv, DialInv, vars, netVars, sessVars, scriptVars
<1>24. ASSUME BlockingReceive PROVE PlaceInv'
  BY <1>24 DEF BlockingReceive, PlaceType, PlaceInv, DialInv, vars, netVars, sessVars, scriptVars
<1>25. ASSUME BlockingClose PROVE PlaceInv'
  BY <1>25 DEF BlockingClose, CloseSocket, PlaceType, PlaceInv, DialInv, vars, netVars, sessVars, scriptVars
<1>26. ASSUME Done PROVE PlaceInv'
  BY <1>26 DEF Done, PlaceType, PlaceInv, DialInv, vars, netVars, sessVars, scriptVars
<1>27. ASSUME UNCHANGED vars PROVE PlaceInv'
  BY <1>27 DEF vars, PlaceType, PlaceInv, DialInv, vars, netVars, sessVars, scriptVars
<1>28. QED
  BY <1>1, <1>2, <1>3, <1>4, <1>5, <1>6, <1>7, <1>8, <1>9, <1>10, <1>11, <1>12,
     <1>13, <1>14, <1>15, <1>16, <1>17, <1>18, <1>19, <1>20, <1>21, <1>22, <1>23,
     <1>24, <1>25, <1>26, <1>27 DEF Next, ReaderStep, SessionStep, ScriptStep

\* A session without a connection stays without one.
LEMMA DialStep ==
    ASSUME PlaceType, SessType, PlaceInv, DialInv
    PROVE  [Next]_vars => DialInv'
<1>1. ASSUME EndOfTest PROVE DialInv'
  BY <1>1 DEF EndOfTest, PlaceType, PlaceInv, DialInv, vars, netVars, sessVars, scriptVars
<1>2. ASSUME Read PROVE DialInv'
  BY <1>2 DEF Read, PlaceType, PlaceInv, DialInv, vars, netVars, sessVars, scriptVars
<1>3. ASSUME Offer PROVE DialInv'
  BY <1>3 DEF Offer, AfterOffer, PlaceType, PlaceInv, DialInv, vars, netVars, sessVars, scriptVars
<1>4. ASSUME StopOffer PROVE DialInv'
  BY <1>4 DEF StopOffer, PlaceType, PlaceInv, DialInv, vars, netVars, sessVars, scriptVars
<1>5. ASSUME CloseReturns PROVE DialInv'
  BY <1>5 DEF CloseReturns, PlaceType, PlaceInv, DialInv, vars, netVars, sessVars, scriptVars
<1>6. ASSUME Dial PROVE DialInv'
  BY <1>6 DEF Dial, PlaceType, PlaceInv, DialInv, vars, netVars, sessVars, scriptVars
<1>7. ASSUME Drain PROVE DialInv'
  BY <1>7 DEF Drain, PlaceType, PlaceInv, DialInv, vars, netVars, sessVars, scriptVars
<1>8. ASSUME Drained PROVE DialInv'
  BY <1>8 DEF Drained, PlaceType, PlaceInv, DialInv, vars, netVars, sessVars, scriptVars
<1>9. ASSUME Joined PROVE DialInv'
  BY <1>9 DEF Joined, End, PlaceType, PlaceInv, DialInv, vars, netVars, sessVars, scriptVars
<1>10. ASSUME LoopEvent PROVE DialInv'
  BY <1>10 DEF LoopEvent, PlaceType, PlaceInv, DialInv, vars, netVars, sessVars, scriptVars
<1>11. ASSUME LoopCancelled PROVE DialInv'
  BY <1>11 DEF LoopCancelled, PlaceType, PlaceInv, DialInv, vars, netVars, sessVars, scriptVars
<1>12. ASSUME LoopEnds PROVE DialInv'
  BY <1>12 DEF LoopEnds, BeginRelease, PlaceType, PlaceInv, DialInv, vars, netVars, sessVars, scriptVars
<1>13. ASSUME ReceiveEvent PROVE DialInv'
  BY <1>13 DEF ReceiveEvent, ReadFailed, Fail, End, Throw, TakeMessage, Finish, BeginRelease, PlaceType, PlaceInv, DialInv, vars, netVars, sessVars, scriptVars
<1>14. ASSUME ReceiveTimeout PROVE DialInv'
  BY <1>14 DEF ReceiveTimeout, PlaceType, PlaceInv, DialInv, vars, netVars, sessVars, scriptVars
<1>15. ASSUME ReceiveCancelled PROVE DialInv'
  BY <1>15 DEF ReceiveCancelled, PlaceType, PlaceInv, DialInv, vars, netVars, sessVars, scriptVars
<1>16. ASSUME CloseDrain PROVE DialInv'
  BY <1>16 DEF CloseDrain, PlaceType, PlaceInv, DialInv, vars, netVars, sessVars, scriptVars
<1>17. ASSUME CloseDrained PROVE DialInv'
  BY <1>17 DEF CloseDrained, ReadFailed, Fail, End, Throw, Finish, BeginRelease, PlaceType, PlaceInv, DialInv, vars, netVars, sessVars, scriptVars
<1>18. ASSUME JSSend PROVE DialInv'
  BY <1>18 DEF JSSend, InJS, PlaceType, PlaceInv, DialInv, vars, netVars, sessVars, scriptVars
<1>19. ASSUME JSClose PROVE DialInv'
  BY <1>19 DEF JSClose, InJS, CloseSocket, PlaceType, PlaceInv, DialInv, vars, netVars, sessVars, scriptVars
<1>20. ASSUME JSReturns PROVE DialInv'
  BY <1>20 DEF JSReturns, InJS, PlaceType, PlaceInv, DialInv, vars, netVars, sessVars, scriptVars
<1>21. ASSUME JSThrows PROVE DialInv'
  BY <1>21 DEF JSThrows, InJS, Throw, BeginRelease, PlaceType, PlaceInv, DialInv, vars, netVars, sessVars, scriptVars
<1>22. ASSUME LoopTimer PROVE DialInv'
  BY <1>22 DEF LoopTimer, PlaceType, PlaceInv, DialInv, vars, netVars, sessVars, scriptVars
<1>23. ASSUME BlockingSend PROVE DialInv'
  BY <1>23 DEF BlockingSend, Send, Fail, End, Throw, Finish, BeginRelease, PlaceType, PlaceInv, DialInv, vars, netVars, sessVars, scriptVars
<1>24. ASSUME BlockingReceive PROVE DialInv'
  BY <1>24 DEF BlockingReceive, PlaceType, PlaceInv, DialInv, vars, netVars, sessVars, scriptVars
<1>25. ASSUME BlockingClose PROVE DialInv'
  BY <1>25 DEF BlockingClose, CloseSocket, PlaceType, PlaceInv, DialInv, vars, netVars, sessVars, scriptVars
<1>26. ASSUME Done PROVE DialInv'
  BY <1>26 DEF Done, PlaceType, PlaceInv, DialInv, vars, netVars, sessVars, scriptVars
<1>27. ASSUME UNCHANGED vars PROVE DialInv'
  BY <1>27 DEF vars, PlaceType, PlaceInv, DialInv, vars, netVars, sessVars, scriptVars
<1>28. QED
  BY <1>1, <1>2, <1>3, <1>4, <1>5, <1>6, <1>7, <1>8, <1>9, <1>10, <1>11, <1>12,
     <1>13, <1>14, <1>15, <1>16, <1>17, <1>18, <1>19, <1>20, <1>21, <1>22, <1>23,
     <1>24, <1>25, <1>26, <1>27 DEF Next, ReaderStep, SessionStep, ScriptStep

\* The reader sends messages, and one last event.
LEMMA ReaderStepKeeps ==
    ASSUME PlaceType, NetType, SessType, CountType, PlaceInv, DialInv, ReaderInv
    PROVE  [Next]_vars => ReaderInv'
<1>1. ASSUME EndOfTest PROVE ReaderInv'
  BY <1>1 DEF EndOfTest, ReaderInv, PlaceInv, vars, netVars, sessVars, scriptVars
<1>2. ASSUME Read PROVE ReaderInv'
  BY <1>2 DEF Read, ReaderInv, PlaceInv, vars, netVars, sessVars, scriptVars
<1>3. ASSUME Offer PROVE ReaderInv'
  BY <1>3 DEF Offer, AfterOffer, ReaderInv, PlaceInv, vars, netVars, sessVars, scriptVars
<1>4. ASSUME StopOffer PROVE ReaderInv'
  BY <1>4 DEF StopOffer, ReaderInv, PlaceInv, vars, netVars, sessVars, scriptVars
<1>5. ASSUME CloseReturns PROVE ReaderInv'
  BY <1>5 DEF CloseReturns, ReaderInv, PlaceInv, vars, netVars, sessVars, scriptVars
<1>6. ASSUME Dial PROVE ReaderInv'
  BY <1>6, EmptySeq DEF Dial, DialInv, ReaderInv, PlaceInv, vars, netVars, sessVars, scriptVars
<1>7. ASSUME Drain PROVE ReaderInv'
  BY <1>7 DEF Drain, ReaderInv, PlaceInv, vars, netVars, sessVars, scriptVars
<1>8. ASSUME Drained PROVE ReaderInv'
  BY <1>8 DEF Drained, ReaderInv, PlaceInv, vars, netVars, sessVars, scriptVars
<1>9. ASSUME Joined PROVE ReaderInv'
  BY <1>9 DEF Joined, End, ReaderInv, PlaceInv, vars, netVars, sessVars, scriptVars
<1>10. ASSUME LoopEvent PROVE ReaderInv'
  <2>1. queue # <<>>
    BY <1>10, EventThere DEF LoopEvent
  <2>2. CASE Head(queue) = "msg"
    BY <1>10, <2>1, <2>2, HeadTail DEF LoopEvent, ReaderInv, sessVars
  <2>3. CASE Head(queue) # "msg"
    BY <1>10, <2>1, <2>3, HeadTail, LastEvent DEF LoopEvent, ReaderInv
  <2>4. QED
    BY <2>2, <2>3
<1>11. ASSUME LoopCancelled PROVE ReaderInv'
  BY <1>11 DEF LoopCancelled, ReaderInv, PlaceInv, vars, netVars, sessVars, scriptVars
<1>12. ASSUME LoopEnds PROVE ReaderInv'
  BY <1>12 DEF LoopEnds, BeginRelease, ReaderInv, PlaceInv, vars, netVars, sessVars, scriptVars
<1>13. ASSUME ReceiveEvent PROVE ReaderInv'
  BY <1>13 DEF ReceiveEvent, ReadFailed, Fail, End, Throw, TakeMessage, Finish, BeginRelease, ReaderInv, PlaceInv, vars, netVars, sessVars, scriptVars
<1>14. ASSUME ReceiveTimeout PROVE ReaderInv'
  BY <1>14 DEF ReceiveTimeout, ReaderInv, PlaceInv, vars, netVars, sessVars, scriptVars
<1>15. ASSUME ReceiveCancelled PROVE ReaderInv'
  BY <1>15 DEF ReceiveCancelled, ReaderInv, PlaceInv, vars, netVars, sessVars, scriptVars
<1>16. ASSUME CloseDrain PROVE ReaderInv'
  BY <1>16 DEF CloseDrain, ReaderInv, PlaceInv, vars, netVars, sessVars, scriptVars
<1>17. ASSUME CloseDrained PROVE ReaderInv'
  BY <1>17 DEF CloseDrained, ReadFailed, Fail, End, Throw, Finish, BeginRelease, ReaderInv, PlaceInv, vars, netVars, sessVars, scriptVars
<1>18. ASSUME JSSend PROVE ReaderInv'
  BY <1>18 DEF JSSend, InJS, Send, Fail, End, Throw, ReaderInv, PlaceInv, vars, netVars, sessVars, scriptVars
<1>19. ASSUME JSClose PROVE ReaderInv'
  BY <1>19 DEF JSClose, InJS, CloseSocket, ReaderInv, PlaceInv, vars, netVars, sessVars, scriptVars
<1>20. ASSUME JSReturns PROVE ReaderInv'
  BY <1>20 DEF JSReturns, InJS, ReaderInv, PlaceInv, vars, netVars, sessVars, scriptVars
<1>21. ASSUME JSThrows PROVE ReaderInv'
  BY <1>21 DEF JSThrows, InJS, Throw, BeginRelease, ReaderInv, PlaceInv, vars, netVars, sessVars, scriptVars
<1>22. ASSUME LoopTimer PROVE ReaderInv'
  BY <1>22 DEF LoopTimer, ReaderInv, PlaceInv, vars, netVars, sessVars, scriptVars
<1>23. ASSUME BlockingSend PROVE ReaderInv'
  BY <1>23 DEF BlockingSend, Send, Fail, End, Throw, Finish, BeginRelease, ReaderInv, PlaceInv, vars, netVars, sessVars, scriptVars
<1>24. ASSUME BlockingReceive PROVE ReaderInv'
  BY <1>24 DEF BlockingReceive, ReaderInv, PlaceInv, vars, netVars, sessVars, scriptVars
<1>25. ASSUME BlockingClose PROVE ReaderInv'
  BY <1>25 DEF BlockingClose, CloseSocket, ReaderInv, PlaceInv, vars, netVars, sessVars, scriptVars
<1>26. ASSUME Done PROVE ReaderInv'
  BY <1>26 DEF Done, ReaderInv, PlaceInv, vars, netVars, sessVars, scriptVars
<1>27. ASSUME UNCHANGED vars PROVE ReaderInv'
  BY <1>27 DEF vars, ReaderInv, PlaceInv, vars, netVars, sessVars, scriptVars
<1>28. QED
  BY <1>1, <1>2, <1>3, <1>4, <1>5, <1>6, <1>7, <1>8, <1>9, <1>10, <1>11, <1>12,
     <1>13, <1>14, <1>15, <1>16, <1>17, <1>18, <1>19, <1>20, <1>21, <1>22, <1>23,
     <1>24, <1>25, <1>26, <1>27 DEF Next, ReaderStep, SessionStep, ScriptStep

\* Only the joins lead out of a release.
LEMMA ReleaseStep ==
    ASSUME PlaceType, NetType, PlaceInv, DialInv, ReaderInv, ReleaseInv
    PROVE  [Next]_vars => ReleaseInv'
<1>1. ASSUME EndOfTest PROVE ReleaseInv'
  BY <1>1 DEF EndOfTest, PlaceType, PlaceInv, DialInv, ReaderInv, ReleaseInv, NothingOutlives, vars, netVars, sessVars, scriptVars
<1>2. ASSUME Read PROVE ReleaseInv'
  BY <1>2 DEF Read, PlaceType, PlaceInv, DialInv, ReaderInv, ReleaseInv, NothingOutlives, vars, netVars, sessVars, scriptVars
<1>3. ASSUME Offer PROVE ReleaseInv'
  BY <1>3 DEF Offer, AfterOffer, PlaceType, PlaceInv, DialInv, ReaderInv, ReleaseInv, NothingOutlives, vars, netVars, sessVars, scriptVars
<1>4. ASSUME StopOffer PROVE ReleaseInv'
  BY <1>4 DEF StopOffer, PlaceType, PlaceInv, DialInv, ReaderInv, ReleaseInv, NothingOutlives, vars, netVars, sessVars, scriptVars
<1>5. ASSUME CloseReturns PROVE ReleaseInv'
  BY <1>5 DEF CloseReturns, PlaceType, PlaceInv, DialInv, ReaderInv, ReleaseInv, NothingOutlives, vars, netVars, sessVars, scriptVars
<1>6. ASSUME Dial PROVE ReleaseInv'
  BY <1>6 DEF Dial, Recorded, PlaceType, PlaceInv, DialInv, ReaderInv, ReleaseInv, NothingOutlives, vars, netVars, sessVars, scriptVars
<1>7. ASSUME Drain PROVE ReleaseInv'
  BY <1>7 DEF Drain, PlaceType, PlaceInv, DialInv, ReaderInv, ReleaseInv, NothingOutlives, vars, netVars, sessVars, scriptVars
<1>8. ASSUME Drained PROVE ReleaseInv'
  BY <1>8 DEF Drained, PlaceType, PlaceInv, DialInv, ReaderInv, ReleaseInv, NothingOutlives, vars, netVars, sessVars, scriptVars
<1>9. ASSUME Joined PROVE ReleaseInv'
  BY <1>9 DEF Joined, End, PlaceType, PlaceInv, DialInv, ReaderInv, ReleaseInv, NothingOutlives, vars, netVars, sessVars, scriptVars
<1>10. ASSUME LoopEvent PROVE ReleaseInv'
  BY <1>10 DEF LoopEvent, ReadFailed, Fail, End, Throw, TakeMessage, PlaceType, PlaceInv, DialInv, ReaderInv, ReleaseInv, NothingOutlives, vars, netVars, sessVars, scriptVars
<1>11. ASSUME LoopCancelled PROVE ReleaseInv'
  BY <1>11 DEF LoopCancelled, PlaceType, PlaceInv, DialInv, ReaderInv, ReleaseInv, NothingOutlives, vars, netVars, sessVars, scriptVars
<1>12. ASSUME LoopEnds PROVE ReleaseInv'
  BY <1>12 DEF LoopEnds, BeginRelease, PlaceType, PlaceInv, DialInv, ReaderInv, ReleaseInv, NothingOutlives, vars, netVars, sessVars, scriptVars
<1>13. ASSUME ReceiveEvent PROVE ReleaseInv'
  BY <1>13 DEF ReceiveEvent, ReadFailed, Fail, End, Throw, TakeMessage, Finish, BeginRelease, PlaceType, PlaceInv, DialInv, ReaderInv, ReleaseInv, NothingOutlives, vars, netVars, sessVars, scriptVars
<1>14. ASSUME ReceiveTimeout PROVE ReleaseInv'
  BY <1>14 DEF ReceiveTimeout, PlaceType, PlaceInv, DialInv, ReaderInv, ReleaseInv, NothingOutlives, vars, netVars, sessVars, scriptVars
<1>15. ASSUME ReceiveCancelled PROVE ReleaseInv'
  BY <1>15 DEF ReceiveCancelled, PlaceType, PlaceInv, DialInv, ReaderInv, ReleaseInv, NothingOutlives, vars, netVars, sessVars, scriptVars
<1>16. ASSUME CloseDrain PROVE ReleaseInv'
  BY <1>16 DEF CloseDrain, PlaceType, PlaceInv, DialInv, ReaderInv, ReleaseInv, NothingOutlives, vars, netVars, sessVars, scriptVars
<1>17. ASSUME CloseDrained PROVE ReleaseInv'
  BY <1>17 DEF CloseDrained, ReadFailed, Fail, End, Throw, Finish, BeginRelease, PlaceType, PlaceInv, DialInv, ReaderInv, ReleaseInv, NothingOutlives, vars, netVars, sessVars, scriptVars
<1>18. ASSUME JSSend PROVE ReleaseInv'
  BY <1>18 DEF JSSend, InJS, Send, Fail, End, Throw, PlaceType, PlaceInv, DialInv, ReaderInv, ReleaseInv, NothingOutlives, vars, netVars, sessVars, scriptVars
<1>19. ASSUME JSClose PROVE ReleaseInv'
  BY <1>19 DEF JSClose, InJS, CloseSocket, PlaceType, PlaceInv, DialInv, ReaderInv, ReleaseInv, NothingOutlives, vars, netVars, sessVars, scriptVars
<1>20. ASSUME JSReturns PROVE ReleaseInv'
  BY <1>20 DEF JSReturns, InJS, PlaceType, PlaceInv, DialInv, ReaderInv, ReleaseInv, NothingOutlives, vars, netVars, sessVars, scriptVars
<1>21. ASSUME JSThrows PROVE ReleaseInv'
  BY <1>21 DEF JSThrows, InJS, Throw, BeginRelease, PlaceType, PlaceInv, DialInv, ReaderInv, ReleaseInv, NothingOutlives, vars, netVars, sessVars, scriptVars
<1>22. ASSUME LoopTimer PROVE ReleaseInv'
  BY <1>22 DEF LoopTimer, PlaceType, PlaceInv, DialInv, ReaderInv, ReleaseInv, NothingOutlives, vars, netVars, sessVars, scriptVars
<1>23. ASSUME BlockingSend PROVE ReleaseInv'
  BY <1>23 DEF BlockingSend, Send, Fail, End, Throw, Finish, BeginRelease, PlaceType, PlaceInv, DialInv, ReaderInv, ReleaseInv, NothingOutlives, vars, netVars, sessVars, scriptVars
<1>24. ASSUME BlockingReceive PROVE ReleaseInv'
  BY <1>24 DEF BlockingReceive, PlaceType, PlaceInv, DialInv, ReaderInv, ReleaseInv, NothingOutlives, vars, netVars, sessVars, scriptVars
<1>25. ASSUME BlockingClose PROVE ReleaseInv'
  BY <1>25 DEF BlockingClose, CloseSocket, PlaceType, PlaceInv, DialInv, ReaderInv, ReleaseInv, NothingOutlives, vars, netVars, sessVars, scriptVars
<1>26. ASSUME Done PROVE ReleaseInv'
  BY <1>26 DEF Done, PlaceType, PlaceInv, DialInv, ReaderInv, ReleaseInv, NothingOutlives, vars, netVars, sessVars, scriptVars
<1>27. ASSUME UNCHANGED vars PROVE ReleaseInv'
  BY <1>27 DEF vars, PlaceType, PlaceInv, DialInv, ReaderInv, ReleaseInv, NothingOutlives, vars, netVars, sessVars, scriptVars
<1>28. QED
  BY <1>1, <1>2, <1>3, <1>4, <1>5, <1>6, <1>7, <1>8, <1>9, <1>10, <1>11, <1>12,
     <1>13, <1>14, <1>15, <1>16, <1>17, <1>18, <1>19, <1>20, <1>21, <1>22, <1>23,
     <1>24, <1>25, <1>26, <1>27 DEF Next, ReaderStep, SessionStep, ScriptStep

\* A message moves from the peer to the reader, the channel and the script.
LEMMA MessageStep ==
    ASSUME TypeOK, PlaceInv, DialInv, ReaderInv, MessageInv
    PROVE  [Next]_vars => MessageInv'
<1>1. ASSUME EndOfTest PROVE MessageInv'
  BY <1>1 DEF EndOfTest, ReaderInv, MessageInv, InChannel, InHand, vars, netVars, sessVars, scriptVars
<1>2. ASSUME Read PROVE MessageInv'
  BY <1>2, LenProperties DEF Read, AfterOffer, TypeOK, NetType, CountType, Metrics, ReaderInv, MessageInv, InChannel, InHand, vars, netVars, sessVars, scriptVars
<1>3. ASSUME Offer PROVE MessageInv'
  <2>1. InChannel \in Nat /\ InChannel' = InChannel + InHand /\ InHand' = 0
    BY <1>3, ChannelMore DEF Offer, TypeOK, InHand
  <2>2. QED
    BY <1>3, <2>1 DEF Offer, AfterOffer, MessageInv, InHand, TypeOK, CountType, Metrics, scriptVars, sessVars
<1>4. ASSUME StopOffer PROVE MessageInv'
  BY <1>4 DEF StopOffer, PlaceInv, ReaderInv, MessageInv, InChannel, InHand, vars, netVars, sessVars, scriptVars
<1>5. ASSUME CloseReturns PROVE MessageInv'
  BY <1>5 DEF CloseReturns, ReaderInv, MessageInv, InChannel, InHand, vars, netVars, sessVars, scriptVars
<1>6. ASSUME Dial PROVE MessageInv'
  BY <1>6, RecordedOne DEF Dial, TypeOK, CountType, PlaceInv, ReaderInv, MessageInv, InChannel, InHand, vars, netVars, sessVars, scriptVars
<1>7. ASSUME Drain PROVE MessageInv'
  BY <1>7 DEF Drain, PlaceInv, ReaderInv, MessageInv, InChannel, InHand, vars, netVars, sessVars, scriptVars
<1>8. ASSUME Drained PROVE MessageInv'
  BY <1>8 DEF Drained, PlaceInv, ReaderInv, MessageInv, InChannel, InHand, vars, netVars, sessVars, scriptVars
<1>9. ASSUME Joined PROVE MessageInv'
  BY <1>9 DEF Joined, PlaceInv, ReaderInv, MessageInv, InChannel, InHand, vars, netVars, sessVars, scriptVars
<1>10. ASSUME LoopEvent PROVE MessageInv'
  <2>1. queue # <<>>
    BY <1>10, EventThere DEF LoopEvent
  <2>2. CASE Head(queue) = "msg"
    <3>1. queue' = Tail(queue) /\ TakeMessage /\ UNCHANGED <<offered, arrived, ctxDone, style, closing, done>>
      BY <1>10, <2>1, <2>2 DEF LoopEvent, sessVars, scriptVars
    <3>2. InChannel \in Nat /\ InChannel' = InChannel - 1 /\ InHand' = InHand /\ InHand \in Nat
      BY <2>1, <2>2, <3>1, ChannelLess DEF TypeOK, InHand
    <3>3. m.received \in Nat /\ (~ctxDone => m'.received = m.received + 1)
      BY <3>1, TakenOne DEF TypeOK, CountType, Metrics
    <3>4. QED
      BY <3>1, <3>2, <3>3 DEF MessageInv, TypeOK, CountType
  <2>3. CASE Head(queue) # "msg"
    BY <1>10, <2>1, <2>3, LastEvent DEF LoopEvent, TypeOK, MessageInv
  <2>4. QED
    BY <2>2, <2>3
<1>11. ASSUME LoopCancelled PROVE MessageInv'
  BY <1>11 DEF LoopCancelled, ReaderInv, MessageInv, InChannel, InHand, vars, netVars, sessVars, scriptVars
<1>12. ASSUME LoopEnds PROVE MessageInv'
  BY <1>12 DEF LoopEnds, ReaderInv, MessageInv, InChannel, InHand, vars, netVars, sessVars, scriptVars
<1>13. ASSUME ReceiveEvent PROVE MessageInv'
  <2>1. queue # <<>>
    BY <1>13, EventThere DEF ReceiveEvent, PlaceInv
  <2>2. CASE Head(queue) = "msg"
    <3>1. queue' = Tail(queue) /\ TakeMessage /\ UNCHANGED <<offered, arrived, ctxDone, style, closing, done>>
      BY <1>13, <2>1, <2>2 DEF ReceiveEvent, sessVars, scriptVars
    <3>2. InChannel \in Nat /\ InChannel' = InChannel - 1 /\ InHand' = InHand /\ InHand \in Nat
      BY <2>1, <2>2, <3>1, ChannelLess DEF TypeOK, InHand
    <3>3. m.received \in Nat /\ (~ctxDone => m'.received = m.received + 1)
      BY <3>1, TakenOne DEF TypeOK, CountType, Metrics
    <3>4. QED
      BY <3>1, <3>2, <3>3 DEF MessageInv, TypeOK, CountType
  <2>3. CASE Head(queue) # "msg"
    BY <1>13, <2>1, <2>3, LastEvent DEF ReceiveEvent, TypeOK, MessageInv, PlaceInv
  <2>4. QED
    BY <2>2, <2>3
<1>14. ASSUME ReceiveTimeout PROVE MessageInv'
  BY <1>14, RecordedOne DEF ReceiveTimeout, TypeOK, CountType, ReaderInv, MessageInv, InChannel, InHand, vars, netVars, sessVars, scriptVars
<1>15. ASSUME ReceiveCancelled PROVE MessageInv'
  BY <1>15 DEF ReceiveCancelled, ReaderInv, MessageInv, InChannel, InHand, vars, netVars, sessVars, scriptVars
<1>16. ASSUME CloseDrain PROVE MessageInv'
  BY <1>16 DEF CloseDrain, PlaceInv, ReaderInv, MessageInv, InChannel, InHand, vars, netVars, sessVars, scriptVars
<1>17. ASSUME CloseDrained PROVE MessageInv'
  BY <1>17, LastEvent DEF CloseDrained, TypeOK, PlaceInv, ReaderInv, MessageInv, InChannel, InHand, vars, netVars, sessVars, scriptVars
<1>18. ASSUME JSSend PROVE MessageInv'
  <2>1. m'.received = m.received /\ closing' = closing /\ (done => done')
    BY <1>18, SendEffects DEF JSSend, TypeOK
  <2>2. QED
    BY <1>18, <2>1 DEF JSSend, MessageInv, InChannel, InHand, netVars
<1>19. ASSUME JSClose PROVE MessageInv'
  BY <1>19 DEF JSClose, CloseSocket, ReaderInv, MessageInv, InChannel, InHand, vars, netVars, sessVars, scriptVars
<1>20. ASSUME JSReturns PROVE MessageInv'
  BY <1>20 DEF JSReturns, ReaderInv, MessageInv, InChannel, InHand, vars, netVars, sessVars, scriptVars
<1>21. ASSUME JSThrows PROVE MessageInv'
  BY <1>21 DEF JSThrows, Throw, ReaderInv, MessageInv, InChannel, InHand, vars, netVars, sessVars, scriptVars
<1>22. ASSUME LoopTimer PROVE MessageInv'
  BY <1>22 DEF LoopTimer, ReaderInv, MessageInv, InChannel, InHand, vars, netVars, sessVars, scriptVars
<1>23. ASSUME BlockingSend PROVE MessageInv'
  <2>1. CASE finished
    BY <1>23, <2>1, RecordedOne DEF BlockingSend, TypeOK, CountType, MessageInv, InChannel, InHand
  <2>2. CASE ~finished
    <3>1. Send
      BY <1>23, <2>2 DEF BlockingSend
    <3>2. m'.received = m.received /\ closing' = closing /\ (done => done')
      BY <3>1, SendEffects DEF TypeOK
    <3>3. QED
      BY <1>23, <3>2 DEF BlockingSend, MessageInv, InChannel, InHand
  <2>3. QED
    BY <2>1, <2>2
<1>24. ASSUME BlockingReceive PROVE MessageInv'
  BY <1>24 DEF BlockingReceive, ReaderInv, MessageInv, InChannel, InHand, vars, netVars, sessVars, scriptVars
<1>25. ASSUME BlockingClose PROVE MessageInv'
  BY <1>25 DEF BlockingClose, CloseSocket, ReaderInv, MessageInv, InChannel, InHand, vars, netVars, sessVars, scriptVars
<1>26. ASSUME Done PROVE MessageInv'
  BY <1>26 DEF Done, ReaderInv, MessageInv, InChannel, InHand, vars, netVars, sessVars, scriptVars
<1>27. ASSUME UNCHANGED vars PROVE MessageInv'
  BY <1>27 DEF vars, ReaderInv, MessageInv, InChannel, InHand, vars, netVars, sessVars, scriptVars
<1>28. QED
  BY <1>1, <1>2, <1>3, <1>4, <1>5, <1>6, <1>7, <1>8, <1>9, <1>10, <1>11, <1>12,
     <1>13, <1>14, <1>15, <1>16, <1>17, <1>18, <1>19, <1>20, <1>21, <1>22, <1>23,
     <1>24, <1>25, <1>26, <1>27 DEF Next, ReaderStep, SessionStep, ScriptStep

\* What ends a session tells how.
LEMMA CauseStep ==
    ASSUME TypeOK, PlaceInv, DialInv, ReaderInv, CauseInv
    PROVE  [Next]_vars => CauseInv'
<1>1. ASSUME EndOfTest PROVE CauseInv'
  BY <1>1 DEF EndOfTest, PlaceType, SessType, PlaceInv, DialInv, CauseInv, vars, netVars, sessVars, scriptVars
<1>2. ASSUME Read PROVE CauseInv'
  BY <1>2 DEF Read, PlaceType, SessType, PlaceInv, DialInv, CauseInv, vars, netVars, sessVars, scriptVars
<1>3. ASSUME Offer PROVE CauseInv'
  BY <1>3 DEF Offer, AfterOffer, PlaceType, SessType, PlaceInv, DialInv, CauseInv, vars, netVars, sessVars, scriptVars
<1>4. ASSUME StopOffer PROVE CauseInv'
  BY <1>4 DEF StopOffer, PlaceType, SessType, PlaceInv, DialInv, CauseInv, vars, netVars, sessVars, scriptVars
<1>5. ASSUME CloseReturns PROVE CauseInv'
  BY <1>5 DEF CloseReturns, PlaceType, SessType, PlaceInv, DialInv, CauseInv, vars, netVars, sessVars, scriptVars
<1>6. ASSUME Dial PROVE CauseInv'
  BY <1>6 DEF Dial, TypeOK, PlaceType, SessType, PlaceInv, DialInv, CauseInv, vars, netVars, sessVars, scriptVars
<1>7. ASSUME Drain PROVE CauseInv'
  BY <1>7 DEF Drain, PlaceType, SessType, PlaceInv, DialInv, CauseInv, vars, netVars, sessVars, scriptVars
<1>8. ASSUME Drained PROVE CauseInv'
  BY <1>8 DEF Drained, PlaceType, SessType, PlaceInv, DialInv, CauseInv, vars, netVars, sessVars, scriptVars
<1>9. ASSUME Joined PROVE CauseInv'
  BY <1>9 DEF Joined, End, PlaceType, SessType, PlaceInv, DialInv, CauseInv, vars, netVars, sessVars, scriptVars
<1>10. ASSUME LoopEvent PROVE CauseInv'
  <2>1. queue # <<>>
    BY <1>10, EventThere DEF LoopEvent
  <2>2. CASE Head(queue) = "msg"
    BY <1>10, <2>1, <2>2, HeadTail DEF LoopEvent, CauseInv, sessVars, scriptVars
  <2>3. CASE Head(queue) # "msg"
    BY <1>10, <2>1, <2>3, LastEvent DEF LoopEvent, Failed, TypeOK, CauseInv, PlaceType, PlaceInv, scriptVars
  <2>4. QED
    BY <2>2, <2>3
<1>11. ASSUME LoopCancelled PROVE CauseInv'
  BY <1>11 DEF LoopCancelled, PlaceType, SessType, PlaceInv, DialInv, CauseInv, vars, netVars, sessVars, scriptVars
<1>12. ASSUME LoopEnds PROVE CauseInv'
  BY <1>12 DEF LoopEnds, BeginRelease, PlaceType, SessType, PlaceInv, DialInv, CauseInv, vars, netVars, sessVars, scriptVars
<1>13. ASSUME ReceiveEvent PROVE CauseInv'
  <2>1. queue # <<>>
    BY <1>13, EventThere DEF ReceiveEvent, PlaceInv
  <2>2. CASE Head(queue) = "msg"
    BY <1>13, <2>1, <2>2, HeadTail DEF ReceiveEvent, CauseInv, sessVars, scriptVars, PlaceInv
  <2>3. CASE Head(queue) # "msg"
    BY <1>13, <2>1, <2>3, LastEvent DEF ReceiveEvent, Failed, TypeOK, CauseInv, PlaceType, PlaceInv, scriptVars, Finish, BeginRelease
  <2>4. QED
    BY <2>2, <2>3
<1>14. ASSUME ReceiveTimeout PROVE CauseInv'
  BY <1>14 DEF ReceiveTimeout, PlaceType, SessType, PlaceInv, DialInv, CauseInv, vars, netVars, sessVars, scriptVars
<1>15. ASSUME ReceiveCancelled PROVE CauseInv'
  BY <1>15 DEF ReceiveCancelled, PlaceType, SessType, PlaceInv, DialInv, CauseInv, vars, netVars, sessVars, scriptVars
<1>16. ASSUME CloseDrain PROVE CauseInv'
  BY <1>16 DEF CloseDrain, PlaceType, SessType, PlaceInv, DialInv, CauseInv, vars, netVars, sessVars, scriptVars
<1>17. ASSUME CloseDrained PROVE CauseInv'
  BY <1>17, LastEvent DEF CloseDrained, Failed, TypeOK, Finish, BeginRelease, PlaceType, SessType, PlaceInv, DialInv, CauseInv, vars, netVars, sessVars, scriptVars
<1>18. ASSUME JSSend PROVE CauseInv'
  <2>1. conn' = conn /\ ctxDone' = ctxDone
    BY <1>18 DEF JSSend, netVars
  <2>2. QED
    BY <1>18, <2>1, SendEffects DEF JSSend, Failed, InJS, TypeOK, PlaceType, SessType, PlaceInv, CauseInv
<1>19. ASSUME JSClose PROVE CauseInv'
  BY <1>19 DEF JSClose, InJS, CloseSocket, PlaceType, SessType, PlaceInv, DialInv, CauseInv, vars, netVars, sessVars, scriptVars
<1>20. ASSUME JSReturns PROVE CauseInv'
  BY <1>20 DEF JSReturns, InJS, PlaceType, SessType, PlaceInv, DialInv, CauseInv, vars, netVars, sessVars, scriptVars
<1>21. ASSUME JSThrows PROVE CauseInv'
  BY <1>21 DEF JSThrows, InJS, Throw, BeginRelease, PlaceType, SessType, PlaceInv, DialInv, CauseInv, vars, netVars, sessVars, scriptVars
<1>22. ASSUME LoopTimer PROVE CauseInv'
  BY <1>22 DEF LoopTimer, PlaceType, SessType, PlaceInv, DialInv, CauseInv, vars, netVars, sessVars, scriptVars
<1>23. ASSUME BlockingSend PROVE CauseInv'
  BY <1>23, SendEffects DEF BlockingSend, Failed, TypeOK, Finish, BeginRelease, PlaceType, SessType, PlaceInv, DialInv, CauseInv, vars, netVars, sessVars, scriptVars
<1>24. ASSUME BlockingReceive PROVE CauseInv'
  BY <1>24 DEF BlockingReceive, PlaceType, SessType, PlaceInv, DialInv, CauseInv, vars, netVars, sessVars, scriptVars
<1>25. ASSUME BlockingClose PROVE CauseInv'
  BY <1>25 DEF BlockingClose, CloseSocket, PlaceType, SessType, PlaceInv, DialInv, CauseInv, vars, netVars, sessVars, scriptVars
<1>26. ASSUME Done PROVE CauseInv'
  BY <1>26 DEF Done, PlaceType, SessType, PlaceInv, DialInv, CauseInv, vars, netVars, sessVars, scriptVars
<1>27. ASSUME UNCHANGED vars PROVE CauseInv'
  BY <1>27 DEF vars, PlaceType, SessType, PlaceInv, DialInv, CauseInv, vars, netVars, sessVars, scriptVars
<1>28. QED
  BY <1>1, <1>2, <1>3, <1>4, <1>5, <1>6, <1>7, <1>8, <1>9, <1>10, <1>11, <1>12,
     <1>13, <1>14, <1>15, <1>16, <1>17, <1>18, <1>19, <1>20, <1>21, <1>22, <1>23,
     <1>24, <1>25, <1>26, <1>27 DEF Next, ReaderStep, SessionStep, ScriptStep

\* As long as it stays unrecorded nothing can be wrong with a session's record.
LEMMA StillUnrecorded ==
    ASSUME CountType, RecordInv, Unrecorded, Unrecorded', m'.ok = m.ok, m'.failed = m.failed
    PROVE  RecordInv'
<1>1. m.ok \in Nat /\ m.failed \in Nat
  BY DEF CountType, Metrics
<1>2. m.ok = 0 /\ m.failed = 0
  BY <1>1 DEF RecordInv
<1>3. QED
  BY <1>2 DEF RecordInv

\* Its end is recorded by the error it left.
LEMMA EndRecorded ==
    ASSUME SessType, CountType, RecordInv, CauseInv, done, Unrecorded, ~Unrecorded',
           m' = Recorded(SessionEnd(err)), UNCHANGED <<err, cause, thrown, ctxDone, timedOut>>,
           conn' = "none" <=> conn = "none"
    PROVE  RecordInv'
<1>1. m.ok \in Nat /\ m.failed \in Nat
  BY DEF CountType, Metrics
<1>2. m.ok = 0 /\ m.failed = 0
  BY <1>1 DEF RecordInv
<1>3. CASE ctxDone
  <2>1. m' = m
    BY <1>3 DEF Recorded
  <2>2. QED
    BY <1>2, <1>3, <2>1 DEF RecordInv
<1>4. CASE ~ctxDone /\ err = "none"
  <2>1. m'.ok = 1 /\ m'.failed = 0
    BY <1>2, <1>4, RecordedOne DEF SessionEnd, CountType
  <2>2. cause = "clean" \/ (thrown /\ cause # "abnormal")
    BY <1>4 DEF SessType, CauseInv
  <2>3. QED
    BY <1>4, <2>1, <2>2 DEF RecordInv
<1>5. CASE ~ctxDone /\ err # "none"
  <2>1. m'.ok = 0 /\ m'.failed = 1
    BY <1>2, <1>5, RecordedOne DEF SessionEnd, CountType
  <2>2. err # "closed"
    BY DEF CauseInv, Unrecorded
  <2>3. conn = "none" \/ cause = "abnormal" \/ timedOut
    BY <1>5, <2>2 DEF CauseInv
  <2>4. QED
    BY <1>5, <2>1, <2>3 DEF RecordInv
<1>6. QED
  BY <1>3, <1>4, <1>5

\* A session is recorded where it leaves the places at which it is not.
LEMMA RecordStep ==
    ASSUME TypeOK, PlaceInv, DialInv, ReaderInv, CauseInv, RecordInv
    PROVE  [Next]_vars => RecordInv'
<1>1. ASSUME EndOfTest PROVE RecordInv'
  BY <1>1 DEF EndOfTest, PlaceType, SessType, PlaceInv, DialInv, CauseInv, RecordInv, Unrecorded, vars, netVars, sessVars, scriptVars
<1>2. ASSUME Read PROVE RecordInv'
  BY <1>2 DEF Read, PlaceType, SessType, PlaceInv, DialInv, CauseInv, RecordInv, Unrecorded, vars, netVars, sessVars, scriptVars
<1>3. ASSUME Offer PROVE RecordInv'
  BY <1>3 DEF Offer, AfterOffer, PlaceType, SessType, PlaceInv, DialInv, CauseInv, RecordInv, Unrecorded, vars, netVars, sessVars, scriptVars
<1>4. ASSUME StopOffer PROVE RecordInv'
  BY <1>4 DEF StopOffer, PlaceType, SessType, PlaceInv, DialInv, CauseInv, RecordInv, Unrecorded, vars, netVars, sessVars, scriptVars
<1>5. ASSUME CloseReturns PROVE RecordInv'
  BY <1>5 DEF CloseReturns, PlaceType, SessType, PlaceInv, DialInv, CauseInv, RecordInv, Unrecorded, vars, netVars, sessVars, scriptVars
<1>6. ASSUME Dial PROVE RecordInv'
  <2>1. m.ok = 0 /\ m.failed = 0 /\ m \in Metrics
    BY <1>6 DEF Dial, RecordInv, Unrecorded, TypeOK, CountType, Metrics
  <2>2. CASE conn' = "open" /\ m' = m /\ finished' = finished
    <3>1. Unrecorded'
      BY <1>6, <2>2 DEF Dial, Unrecorded, PlaceInv
    <3>2. QED
      BY <1>6, <2>2, <3>1, StillUnrecorded DEF Dial, Unrecorded, TypeOK
  <2>3. CASE err' = "dial" /\ m' = Recorded("failed") /\ finished' = (style = "blocking") /\ conn' = conn
    <3>1. conn' = "none" /\ ctxDone' = ctxDone
      BY <1>6, <2>3 DEF Dial, PlaceInv, scriptVars
    <3>2. ~Unrecorded'
      <4>1. CASE style = "callback"
        BY <1>6, <2>3, <3>1, <4>1 DEF Dial, Unrecorded, PlaceType, TypeOK, scriptVars
      <4>2. CASE style = "blocking"
        BY <1>6, <2>3, <3>1, <4>2 DEF Dial, Unrecorded, PlaceType, TypeOK, scriptVars
      <4>3. QED
        BY <4>1, <4>2 DEF TypeOK, PlaceType
    <3>3. m'.ok = 0 /\ m'.failed = (IF ctxDone THEN 0 ELSE 1)
      BY <2>1, <2>3, RecordedOne
    <3>4. QED
      BY <3>1, <3>2, <3>3 DEF RecordInv
  <2>4. QED
    BY <1>6, <2>2, <2>3 DEF Dial
<1>7. ASSUME Drain PROVE RecordInv'
  BY <1>7 DEF Drain, PlaceType, SessType, PlaceInv, DialInv, CauseInv, RecordInv, Unrecorded, vars, netVars, sessVars, scriptVars
<1>8. ASSUME Drained PROVE RecordInv'
  BY <1>8 DEF Drained, PlaceType, SessType, PlaceInv, DialInv, CauseInv, RecordInv, Unrecorded, vars, netVars, sessVars, scriptVars
<1>9. ASSUME Joined PROVE RecordInv'
  <2>1. done /\ conn' = conn /\ ctxDone' = ctxDone /\ style' = style /\ finished' = finished
    BY <1>9 DEF Joined, PlaceInv, netVars, scriptVars
  <2>2. UNCHANGED <<err, cause, thrown, timedOut>>
    BY <1>9, <2>1 DEF Joined, sessVars, scriptVars
  <2>3. CASE style = "callback"
    BY <1>9, <2>1, <2>2, <2>3 DEF Joined, RecordInv, Unrecorded
  <2>4. CASE style = "blocking"
    <3>1. m' = Recorded(SessionEnd(err)) /\ Unrecorded /\ ~Unrecorded'
      BY <1>9, <2>1, <2>2, <2>4 DEF Joined, Unrecorded, PlaceInv
    <3>2. QED
      BY <2>1, <2>2, <3>1, EndRecorded DEF TypeOK
  <2>5. QED
    BY <2>3, <2>4 DEF TypeOK, PlaceType
<1>10. ASSUME LoopEvent PROVE RecordInv'
  <2>1. queue # <<>>
    BY <1>10, EventThere DEF LoopEvent, PlaceInv
  <2>2. m'.ok = m.ok /\ m'.failed = m.failed
    <3>1. CASE Head(queue) = "msg"
      BY <1>10, <2>1, <3>1, TakenOne DEF LoopEvent, TypeOK
    <3>2. CASE Head(queue) # "msg"
      BY <1>10, <2>1, <3>2, LastEvent DEF LoopEvent, TypeOK, PlaceInv
    <3>3. QED
      BY <3>1, <3>2
  <2>3. Unrecorded /\ Unrecorded'
    BY <1>10 DEF LoopEvent, Unrecorded, PlaceInv, scriptVars
  <2>4. QED
    BY <2>2, <2>3, StillUnrecorded DEF TypeOK
<1>11. ASSUME LoopCancelled PROVE RecordInv'
  BY <1>11 DEF LoopCancelled, PlaceType, SessType, PlaceInv, DialInv, CauseInv, RecordInv, Unrecorded, vars, netVars, sessVars, scriptVars
<1>12. ASSUME LoopEnds PROVE RecordInv'
  <2>1. /\ m' = Recorded(SessionEnd(err)) /\ UNCHANGED <<err, cause, thrown, ctxDone, timedOut>>
        /\ conn # "none" /\ conn' # "none"
    BY <1>12 DEF LoopEnds, BeginRelease, PlaceInv, sessVars, scriptVars
  <2>2. Unrecorded /\ ~Unrecorded'
    BY <1>12 DEF LoopEnds, BeginRelease, Unrecorded, PlaceInv, scriptVars
  <2>3. QED
    BY <1>12, <2>1, <2>2, EndRecorded DEF LoopEnds, TypeOK
<1>13. ASSUME ReceiveEvent PROVE RecordInv'
  <2>1. queue # <<>>
    BY <1>13, EventThere DEF ReceiveEvent, PlaceInv
  <2>2. m'.ok = m.ok /\ m'.failed = m.failed
    <3>1. CASE Head(queue) = "msg"
      BY <1>13, <2>1, <3>1, TakenOne DEF ReceiveEvent, TypeOK
    <3>2. CASE Head(queue) # "msg"
      BY <1>13, <2>1, <3>2, LastEvent DEF ReceiveEvent, TypeOK, PlaceInv
    <3>3. QED
      BY <3>1, <3>2
  <2>3. Unrecorded /\ Unrecorded'
    BY <1>13 DEF ReceiveEvent, Unrecorded, PlaceInv, scriptVars, Finish, BeginRelease
  <2>4. QED
    BY <2>2, <2>3, StillUnrecorded DEF TypeOK
<1>14. ASSUME ReceiveTimeout PROVE RecordInv'
  <2>1. m'.ok = m.ok /\ m'.failed = m.failed
    BY <1>14, RecordedOne DEF ReceiveTimeout, TypeOK, CountType
  <2>2. Unrecorded /\ Unrecorded'
    BY <1>14 DEF ReceiveTimeout, Unrecorded, PlaceInv, scriptVars
  <2>3. QED
    BY <2>1, <2>2, StillUnrecorded DEF TypeOK
<1>15. ASSUME ReceiveCancelled PROVE RecordInv'
  BY <1>15 DEF ReceiveCancelled, PlaceType, SessType, PlaceInv, DialInv, CauseInv, RecordInv, Unrecorded, vars, netVars, sessVars, scriptVars
<1>16. ASSUME CloseDrain PROVE RecordInv'
  BY <1>16 DEF CloseDrain, PlaceType, SessType, PlaceInv, DialInv, CauseInv, RecordInv, Unrecorded, vars, netVars, sessVars, scriptVars
<1>17. ASSUME CloseDrained PROVE RecordInv'
  <2>1. m'.ok = m.ok /\ m'.failed = m.failed
    BY <1>17, LastEvent DEF CloseDrained, TypeOK, PlaceInv
  <2>2. Unrecorded /\ Unrecorded'
    BY <1>17 DEF CloseDrained, Unrecorded, PlaceInv, scriptVars, Finish, BeginRelease
  <2>3. QED
    BY <2>1, <2>2, StillUnrecorded DEF TypeOK
<1>18. ASSUME JSSend PROVE RecordInv'
  <2>1. m'.ok = m.ok /\ m'.failed = m.failed
    BY <1>18, SendEffects DEF JSSend, TypeOK, InJS
  <2>2. Unrecorded /\ Unrecorded'
    BY <1>18 DEF JSSend, Unrecorded, PlaceInv, scriptVars, InJS
  <2>3. QED
    BY <2>1, <2>2, StillUnrecorded DEF TypeOK
<1>19. ASSUME JSClose PROVE RecordInv'
  BY <1>19 DEF JSClose, InJS, CloseSocket, PlaceType, SessType, PlaceInv, DialInv, CauseInv, RecordInv, Unrecorded, vars, netVars, sessVars, scriptVars
<1>20. ASSUME JSReturns PROVE RecordInv'
  BY <1>20 DEF JSReturns, InJS, PlaceType, SessType, PlaceInv, DialInv, CauseInv, RecordInv, Unrecorded, vars, netVars, sessVars, scriptVars
<1>21. ASSUME JSThrows PROVE RecordInv'
  BY <1>21 DEF JSThrows, InJS, Throw, BeginRelease, PlaceType, SessType, PlaceInv, DialInv, CauseInv, RecordInv, Unrecorded, vars, netVars, sessVars, scriptVars
<1>22. ASSUME LoopTimer PROVE RecordInv'
  BY <1>22 DEF LoopTimer, PlaceType, SessType, PlaceInv, DialInv, CauseInv, RecordInv, Unrecorded, vars, netVars, sessVars, scriptVars
<1>23. ASSUME BlockingSend PROVE RecordInv'
  <2>1. CASE finished
    <3>1. m'.ok = m.ok /\ m'.failed = m.failed
      BY <1>23, <2>1, RecordedOne DEF BlockingSend, TypeOK, CountType
    <3>2. QED
      BY <1>23, <2>1, <3>1 DEF BlockingSend, RecordInv, Unrecorded
  <2>2. CASE ~finished
    <3>1. m'.ok = m.ok /\ m'.failed = m.failed
      BY <1>23, <2>2, SendEffects DEF BlockingSend, TypeOK
    <3>2. Unrecorded /\ Unrecorded'
      BY <1>23, <2>2 DEF BlockingSend, Unrecorded, PlaceInv, Finish, BeginRelease
    <3>3. QED
      BY <3>1, <3>2, StillUnrecorded DEF TypeOK
  <2>3. QED
    BY <2>1, <2>2
<1>24. ASSUME BlockingReceive PROVE RecordInv'
  BY <1>24 DEF BlockingReceive, PlaceType, SessType, PlaceInv, DialInv, CauseInv, RecordInv, Unrecorded, vars, netVars, sessVars, scriptVars
<1>25. ASSUME BlockingClose PROVE RecordInv'
  BY <1>25 DEF BlockingClose, CloseSocket, PlaceType, SessType, PlaceInv, DialInv, CauseInv, RecordInv, Unrecorded, vars, netVars, sessVars, scriptVars
<1>26. ASSUME Done PROVE RecordInv'
  BY <1>26 DEF Done, PlaceType, SessType, PlaceInv, DialInv, CauseInv, RecordInv, Unrecorded, vars, netVars, sessVars, scriptVars
<1>27. ASSUME UNCHANGED vars PROVE RecordInv'
  BY <1>27 DEF vars, PlaceType, SessType, PlaceInv, DialInv, CauseInv, RecordInv, Unrecorded, vars, netVars, sessVars, scriptVars
<1>28. QED
  BY <1>1, <1>2, <1>3, <1>4, <1>5, <1>6, <1>7, <1>8, <1>9, <1>10, <1>11, <1>12,
     <1>13, <1>14, <1>15, <1>16, <1>17, <1>18, <1>19, <1>20, <1>21, <1>22, <1>23,
     <1>24, <1>25, <1>26, <1>27 DEF Next, ReaderStep, SessionStep, ScriptStep

-----------------------------------------------------------------------------
(* The invariant and what follows from it *)

\* The first state: the VU is about to dial.
LEMMA SessionInit == Init => SessionInv
<1> SUFFICES ASSUME Init PROVE SessionInv
  OBVIOUS
<1>1. TypeOK
  BY EmptySeq DEF Init, TypeOK, PlaceType, NetType, SessType, CountType, Metrics, Events
<1>2. PlaceInv /\ DialInv /\ CauseInv /\ RecordInv
  BY DEF Init, PlaceInv, DialInv, CauseInv, RecordInv, Unrecorded
<1>3. ReaderInv /\ ReleaseInv /\ MessageInv
  BY EmptySeq DEF Init, ReaderInv, ReleaseInv, NothingOutlives, MessageInv, InChannel, InHand
<1>4. QED
  BY <1>1, <1>2, <1>3 DEF SessionInv

\* The invariant holds in every state of every session.
THEOREM SessionInvariance == Safety => []SessionInv
<1>1. SessionInv /\ [Next]_vars => SessionInv'
  BY PlaceTypeStep, NetTypeStep, SessTypeStep, CountTypeStep, PlaceStep, DialStep, ReaderStepKeeps,
     ReleaseStep, MessageStep, CauseStep, RecordStep DEF SessionInv, TypeOK
<1>2. QED
  BY SessionInit, <1>1, PTL DEF Safety

\* The types hold in every state.
THEOREM TypeCorrect == Safety => []TypeOK
<1>1. SessionInv => TypeOK
  BY DEF SessionInv
<1>2. QED
  BY SessionInvariance, <1>1, PTL

\* Neither the reader nor the close handshake outlives connect, or a blocking
\* socket that was finished.
THEOREM NoGoroutineOutlives == Safety => []NothingOutlives
<1>1. SessionInv => NothingOutlives
  BY DEF SessionInv, ReleaseInv
<1>2. QED
  BY SessionInvariance, <1>1, PTL

\* The messages in the channel, counted one by one.
LEMMA WaitingCounted ==
    ASSUME NetType, ReaderInv
    PROVE  Cardinality({i \in DOMAIN queue : queue[i] = "msg"}) = InChannel
<1>1. DOMAIN queue = 1..Len(queue) /\ Len(queue) \in Nat
  BY LenProperties DEF NetType
<1>2. CASE queue # <<>> /\ queue[Len(queue)] # "msg"
  <2>1. Len(queue) > 0
    BY <1>1, <1>2, EmptySeq DEF NetType
  <2>2. {i \in DOMAIN queue : queue[i] = "msg"} = 1..(Len(queue) - 1)
    BY <1>1, <1>2, <2>1 DEF ReaderInv
  <2>3. Cardinality(1..(Len(queue) - 1)) = Len(queue) - 1
    BY <1>1, <2>1, FS_Interval
  <2>4. QED
    BY <1>2, <2>2, <2>3 DEF InChannel
<1>3. CASE queue = <<>> \/ queue[Len(queue)] = "msg"
  <2>1. {i \in DOMAIN queue : queue[i] = "msg"} = 1..Len(queue)
    BY <1>1, <1>3, EmptySeq DEF ReaderInv
  <2>2. Cardinality(1..Len(queue)) = Len(queue)
    <3>1. Cardinality(1..Len(queue)) = IF 1 > Len(queue) THEN 0 ELSE Len(queue) - 1 + 1
      BY <1>1, FS_Interval
    <3>2. QED
      BY <1>1, <3>1
  <2>3. QED
    BY <1>3, <2>1, <2>2 DEF InChannel
<1>4. QED
  BY <1>2, <1>3

\* Every message read is with the reader, in the channel or with the script, also
\* when the channel is full, until the session ends.
THEOREM MessagesKept == Safety => []NoMessageLost
<1>1. SessionInv => NoMessageLost
  BY WaitingCounted DEF SessionInv, TypeOK, MessageInv, InHand, NoMessageLost
<1>2. QED
  BY SessionInvariance, <1>1, PTL

\* A session is recorded once: as ok after a clean end or a handler's exception and
\* never after an end that left its error, as failed after a failed handshake, such
\* an end or a receive timeout.
THEOREM SessionsRecorded == Safety => []SessionRecorded
<1>1. SessionInv => SessionRecorded
  BY DEF SessionInv, RecordInv, Unrecorded, SessionRecorded, PlaceInv, TypeOK, PlaceType
<1>2. QED
  BY SessionInvariance, <1>1, PTL

=============================================================================
