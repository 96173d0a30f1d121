-------------------------------- MODULE Kafka -------------------------------
(***************************************************************************)
(* The Kafka module in one VU (internal/protocols/kafka): the producers    *)
(* and consumers its script creates, the clients kept for one-off calls,   *)
(* and the calls of produce, produceBatch and consume with what they       *)
(* record. VUs share nothing but the numbers of the metric families.       *)
(*                                                                         *)
(* A message is "valid" or "invalid" (no value, no topic or a negative     *)
(* partition); what the broker does with a valid one is "acked" or         *)
(* "failed", a cancelled one included.                                     *)
(***************************************************************************)
EXTENDS Integers, Sequences, FiniteSets

CONSTANTS Keys,          \* what a one-off client is kept by: a configuration without its timeout
          MaxBatch,      \* bound: messages in a call
          MaxObjects,    \* bound: producers and consumers made
          MaxCalls,      \* bound: calls of produce and consume
          MaxIterations  \* bound: iterations

VARIABLES pc,      \* where the VU stands
          ended,   \* the iteration's context has ended
          objs,    \* the producers and consumers, in the order of VU.OnClose
          oneOff,  \* instance.producers and consumers: the object kept for a role and key, or 0
          call,    \* the call in progress
          rec,     \* what the families of the module hold
          seen,    \* history: messages given, sent and acknowledged, and polls made
          cut,     \* history: a result was made after its context ended
          count    \* calls and iterations so far, for the bounds

vars == <<pc, ended, objs, oneOff, call, rec, seen, cut, count>>

Roles == {"producer", "consumer"}

NoRecords == [durations |-> 0, produced |-> 0, produceFailed |-> 0, produces |-> 0,
              consumed |-> 0, consumeFailed |-> 0, consumes |-> 0]
Idle == [obj |-> 0, msgs |-> <<>>, results |-> <<>>, next |-> 1, index |-> <<>>,
         order |-> <<>>, outcome |-> <<>>, left |-> 0, failure |-> FALSE, live |-> FALSE]

Init == /\ pc = "top" /\ ended = FALSE
        /\ objs = <<>> /\ oneOff = [r \in Roles |-> [k \in Keys |-> 0]]
        /\ call = Idle /\ rec = NoRecords
        /\ seen = [given |-> 0, sent |-> 0, acked |-> 0, polls |-> 0] /\ cut = FALSE
        /\ count = [calls |-> 0, iterations |-> 0]

-----------------------------------------------------------------------------
(* Iterations and the end of the VU *)

Begin == /\ pc \in {"top", "idle"} /\ count.iterations < MaxIterations
         /\ pc' = "script" /\ ended' = FALSE
         /\ count' = [count EXCEPT !.iterations = @ + 1]
         /\ UNCHANGED <<objs, oneOff, call, rec, seen, cut>>

\* A deadline of the iteration, the end of the test or Ctrl+C.
EndContext == /\ pc \notin {"top", "idle", "closing", "closed"} /\ ~ended
              /\ ended' = TRUE
              /\ UNCHANGED <<pc, objs, oneOff, call, rec, seen, cut, count>>

Return == /\ pc = "script" /\ pc' = "idle"
          /\ UNCHANGED <<ended, objs, oneOff, call, rec, seen, cut, count>>

\* Close of a producer or a consumer (which leaves its group first).
closed(o) == [o EXCEPT !.kgo = IF @ = "open" /\ ~o.closed THEN "closed" ELSE @, !.closed = TRUE]

\* The VU's closers run in the order in which they were registered.
CloseVU == /\ pc \in {"top", "idle"} /\ pc' = "closing" /\ call' = Idle
           /\ UNCHANGED <<ended, objs, oneOff, rec, seen, cut, count>>
CloseNext == /\ pc = "closing"
             /\ IF call.next > Len(objs) THEN pc' = "closed" /\ UNCHANGED <<objs, call>>
                ELSE /\ objs' = [objs EXCEPT ![call.next] = closed(@)]
                     /\ call' = [call EXCEPT !.next = @ + 1] /\ UNCHANGED pc
             /\ UNCHANGED <<ended, oneOff, rec, seen, cut, count>>

-----------------------------------------------------------------------------
(* Producers, consumers and their clients *)

newObject(role, byScript) ==
    [role |-> role, kgo |-> "none", closed |-> FALSE, byScript |-> byScript]

\* new kafka.Producer and new kafka.Consumer, in top-level code too.
Construct(role) ==
    /\ pc \in {"top", "script"} /\ Len(objs) < MaxObjects
    /\ objs' = Append(objs, newObject(role, TRUE))
    /\ UNCHANGED <<pc, ended, oneOff, call, rec, seen, cut, count>>

\* The script closes an object it made; nothing hands out one-off clients.
ScriptCloses(i) == /\ pc \in {"top", "script"} /\ objs[i].byScript /\ ~objs[i].closed
                   /\ objs' = [objs EXCEPT ![i] = closed(@)]
                   /\ UNCHANGED <<pc, ended, oneOff, call, rec, seen, cut, count>>

\* The state of an object after clientFor: its client is created on first use.
clientForAnew(o) == [o EXCEPT !.kgo = "open"]
clientFor(o)     == IF o.closed THEN o ELSE [o EXCEPT !.kgo = "open"]

\* clientFor may fail: the object is closed, or its first client cannot be made,
\* because franz-go refuses the options or a consumer has no topic.
NoClient(o) == o.closed \/ o.kgo = "none"

\* The object that a call works with: one of the script's, or the one kept for
\* the key, made if there is none.
OwnObject(role, i) ==
    /\ objs[i].role = role /\ objs[i].byScript
    /\ UNCHANGED <<objs, oneOff>>
OneOffObject(role, k, i) ==
    IF oneOff[role][k] # 0 THEN i = oneOff[role][k] /\ UNCHANGED <<objs, oneOff>>
    ELSE /\ i = Len(objs) + 1 /\ i <= MaxObjects
         /\ objs' = Append(objs, newObject(role, FALSE))
         /\ oneOff' = [oneOff EXCEPT ![role][k] = i]

ObjectFor(role, i, oneOffToo) ==
    \/ i \in DOMAIN objs /\ OwnObject(role, i)
    \/ oneOffToo /\ \E k \in Keys : OneOffObject(role, k, i)

\* In top-level code a one-off call throws, once its object is there.
CallOutside(role, i) ==
    /\ pc = "top" /\ \E k \in Keys : oneOff[role][k] = 0 /\ OneOffObject(role, k, i)
    /\ UNCHANGED <<pc, ended, call, rec, seen, cut, count>>

-----------------------------------------------------------------------------
(* produce and produceBatch *)

Batches == UNION {[1..n -> {"valid", "invalid"}] : n \in 1..MaxBatch}

\* A one-off call has a single message.
Send(i, msgs) ==
    /\ pc = "script" /\ count.calls < MaxCalls
    /\ ObjectFor("producer", i, Len(msgs) = 1)
    /\ call' = [Idle EXCEPT !.obj = i, !.msgs = msgs,
                            !.results = [m \in DOMAIN msgs |-> "none"]]
    /\ pc' = "building"
    /\ seen' = [seen EXCEPT !.given = @ + Len(msgs)]
    /\ count' = [count EXCEPT !.calls = @ + 1]
    /\ UNCHANGED <<ended, rec, cut>>

\* producer.result: recorded unless the context has ended. A message that was
\* never sent has no duration.
RecordsTimingAll(code) == [rec EXCEPT !.durations = @ + 1,
                                      !.produced = IF code = "acked" THEN @ + 1 ELSE @,
                                      !.produceFailed = IF code # "acked" THEN @ + 1 ELSE @, !.produces = @ + 1]
Records(code) == [rec EXCEPT !.durations = IF code \in {"acked", "failed"} THEN @ + 1 ELSE @,
                             !.produced = IF code = "acked" THEN @ + 1 ELSE @,
                             !.produceFailed = IF code # "acked" THEN @ + 1 ELSE @, !.produces = @ + 1]
result(m, code) == /\ call' = [call EXCEPT !.results[m] = code, !.next = @ + 1]
                   /\ rec' = IF ended THEN rec ELSE Records(code)
                   /\ cut' = (cut \/ ended)

\* A message at a time: an invalid one has its result now, a valid one a record,
\* with its place among the messages.
Build == /\ pc = "building" /\ call.next <= Len(call.msgs)
         /\ IF call.msgs[call.next] = "invalid" THEN result(call.next, "invalid")
            ELSE /\ call' = [call EXCEPT !.index = Append(@, call.next), !.next = @ + 1]
                 /\ UNCHANGED <<rec, cut>>
         /\ UNCHANGED <<pc, ended, objs, oneOff, seen, count>>

\* Nothing valid: the call returns.
NothingToSend == /\ pc = "building" /\ call.next > Len(call.msgs) /\ call.index = <<>>
                 /\ pc' = "returned"
                 /\ UNCHANGED <<ended, objs, oneOff, call, rec, seen, cut, count>>

\* Otherwise the client is looked up or made; without one nothing is sent.
Built == /\ pc = "building" /\ call.next > Len(call.msgs) /\ call.index # <<>>
         /\ \/ /\ NoClient(objs[call.obj]) /\ pc' = "results"
               /\ call' = [call EXCEPT !.order = call.index, !.next = 1,
                                       !.outcome = [m \in DOMAIN call.msgs |-> "unsent"]]
               /\ UNCHANGED <<objs, seen>>
            \/ /\ clientFor(objs[call.obj]).kgo = "open" /\ pc' = "sending"
               /\ objs' = [objs EXCEPT ![call.obj] = clientFor(@)]
               /\ seen' = [seen EXCEPT !.sent = @ + Len(call.index)]
               /\ UNCHANGED call
         /\ UNCHANGED <<ended, oneOff, rec, cut, count>>

\* ProduceSync returns when every record is acknowledged or has failed, within
\* the delivery timeout and the context, in the order in which they completed.
ProduceSync ==
    /\ pc = "sending"
    /\ \E p \in [DOMAIN call.index -> DOMAIN call.index] :
          /\ \A a, b \in DOMAIN call.index : p[a] = p[b] => a = b
          /\ \E out \in [DOMAIN call.msgs -> {"acked", "failed"}] :
                /\ \A m \in DOMAIN out : call.msgs[m] = "invalid" => out[m] = "failed"
                /\ call' = [call EXCEPT !.order = [j \in DOMAIN call.index |-> call.index[p[j]]],
                                        !.outcome = out, !.next = 1]
                /\ seen' = [seen EXCEPT !.acked = @ + Cardinality({m \in DOMAIN out : out[m] = "acked"})]
    /\ pc' = "results"
    /\ UNCHANGED <<ended, objs, oneOff, rec, cut, count>>

\* The results are matched by record, not by position.
MatchByPosition(j) == call.index[j]
Match(j)           == call.order[j]

TakeResult == /\ pc = "results" /\ call.next <= Len(call.order)
              /\ result(Match(call.next), call.outcome[call.order[call.next]])
              /\ UNCHANGED <<pc, ended, objs, oneOff, seen, count>>
Sent == /\ pc = "results" /\ call.next > Len(call.order) /\ pc' = "returned"
        /\ UNCHANGED <<ended, objs, oneOff, call, rec, seen, cut, count>>

-----------------------------------------------------------------------------
(* consume *)

Consume(i) ==
    /\ pc = "script" /\ count.calls < MaxCalls
    /\ ObjectFor("consumer", i, TRUE)
    /\ call' = [Idle EXCEPT !.obj = i]
    /\ pc' = "lookup"
    /\ seen' = [seen EXCEPT !.polls = @ + 1]
    /\ count' = [count EXCEPT !.calls = @ + 1]
    /\ UNCHANGED <<ended, rec, cut>>

\* Without a client the call fails at once.
Lookup == /\ pc = "lookup"
          /\ \/ /\ NoClient(objs[call.obj]) /\ pc' = "polled"
                /\ call' = [call EXCEPT !.failure = TRUE] /\ UNCHANGED objs
             \/ /\ clientFor(objs[call.obj]).kgo = "open" /\ pc' = "polling"
                /\ objs' = [objs EXCEPT ![call.obj] = clientFor(@)] /\ UNCHANGED call
          /\ UNCHANGED <<ended, oneOff, rec, seen, cut, count>>

\* PollRecords returns messages or nothing at its timeout or the end of the
\* context, and perhaps a partition's error. The recorder is looked up once.
PollRecords == /\ pc = "polling"
               /\ \E n \in 0..MaxBatch, f \in BOOLEAN :
                     call' = [call EXCEPT !.left = n, !.failure = f, !.live = ~ended]
               /\ pc' = "polled"
               /\ UNCHANGED <<ended, objs, oneOff, rec, seen, cut, count>>

TakeMessage == /\ pc = "polled" /\ call.left > 0
               /\ call' = [call EXCEPT !.left = @ - 1]
               /\ rec' = IF call.live THEN [rec EXCEPT !.consumed = @ + 1] ELSE rec
               /\ UNCHANGED <<pc, ended, objs, oneOff, seen, cut, count>>

\* The call as such is recorded unless the context has ended by now, and
\* call.failure is what the script finds in consumer.error.
Consumed == /\ pc = "polled" /\ call.left = 0
            /\ rec' = IF ended THEN rec
                      ELSE [rec EXCEPT !.consumes = @ + 1,
                                       !.consumeFailed = IF call.failure THEN @ + 1 ELSE @]
            /\ cut' = (cut \/ ended)
            /\ pc' = "returned"
            /\ UNCHANGED <<ended, objs, oneOff, call, seen, count>>

\* The script goes on with what the call returned.
GoOn == /\ pc = "returned" /\ pc' = "script" /\ call' = Idle
        /\ UNCHANGED <<ended, objs, oneOff, rec, seen, cut, count>>

-----------------------------------------------------------------------------
Working == Build \/ NothingToSend \/ Built \/ ProduceSync \/ TakeResult \/ Sent
           \/ Lookup \/ PollRecords \/ TakeMessage \/ Consumed \/ GoOn

Next == \/ Begin \/ EndContext \/ Return \/ CloseVU \/ CloseNext
        \/ \E r \in Roles : Construct(r)
        \/ \E i \in DOMAIN objs : ScriptCloses(i)
        \/ \E i \in 1..MaxObjects :
              \/ \E msgs \in Batches : Send(i, msgs)
              \/ Consume(i)
              \/ \E r \in Roles : CallOutside(r, i)
        \/ Working

Spec == Init /\ [][Next]_vars

-----------------------------------------------------------------------------
(* Properties *)

\* Each message of a batch has the result of its own record, whatever order the
\* broker acknowledged them in: an invalid one is reported as such and a valid
\* one as the broker treated it, or as unsent (producer.send).
ResultsAreTheMessages ==
    pc = "returned" /\ call.msgs # <<>> =>
        \A m \in DOMAIN call.msgs :
            call.results[m] = IF call.msgs[m] = "invalid" THEN "invalid" ELSE call.outcome[m]

\* Between calls, as long as no call outlived its context, the families agree
\* with what happened: every message given is counted once, as produced exactly
\* if the broker acknowledged it, with a duration exactly if it was sent, and
\* every consume once. Messages cut off by a context are only ever missing
\* (producer.result, consumer.consume).
FamiliesExact ==
    /\ pc \in {"script", "idle", "closed"} /\ ~cut =>
          /\ rec.produces = seen.given /\ rec.produced = seen.acked /\ rec.durations = seen.sent
          /\ rec.consumes = seen.polls
    /\ rec.produces <= seen.given /\ rec.produced <= seen.acked /\ rec.durations <= seen.sent
    /\ rec.produced + rec.produceFailed = rec.produces
    /\ rec.consumeFailed <= rec.consumes /\ rec.consumes <= seen.polls

\* When the VU is closed, no franz-go client of it is open, whatever the script
\* created, used, closed and used again, in top-level code or in iterations; and
\* a client that was closed is never opened again (Close, clientFor, OnClose).
ClientsReleased == /\ pc = "closed" => \A i \in DOMAIN objs : objs[i].kgo # "open"
                   /\ \A i \in DOMAIN objs : objs[i].closed => objs[i].kgo # "open"
=============================================================================
