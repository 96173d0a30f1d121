-------------------------------- MODULE Grpc --------------------------------
(***************************************************************************)
(* The gRPC module (internal/protocols/grpc): every VU's client with its   *)
(* connection, its calls and its streams, and the caches of loaded and of  *)
(* reflected descriptors the VUs share, for one .proto file and one server *)
(* address. Iterations, contexts and the closing *)
(* of VUs are as in script.go and protocols.go of internal/script.         *)
(***************************************************************************)
EXTENDS Integers, FiniteSets, Sequences

CONSTANTS VUs,
          MaxIterations,  \* bound: iterations of all VUs together
          MaxConnects,    \* bound: calls of client.connect
          MaxCalls        \* bound: calls of client.stream and client.invoke

VARIABLES pc,         \* where each VU stands
          ended,      \* its iteration's context has ended
          over,       \* every VU's goroutine has returned
          once,       \* the cached entries made so far: the state of their sync.Once and result
          reflected,  \* the entry under the address in run.reflected, 0 if none
          entry,      \* the entry a VU's connect looked up
          conn,       \* client.conn is set
          live,       \* the VU's grpc.ClientConns that are not closed
          sets,       \* client.sets has the descriptors of the methods called
          loaded,     \* the entry of the .proto file in run.loaded: "none", "ok" or "failed"
          open,       \* instance.open: for each stream whether it is done
          rec,        \* what the iteration recorded
          made,       \* history: the iteration's calls by what became of them
          failures,   \* history: the entries whose failure a connect returned
          calls       \* calls made so far, for the bounds

vars == <<pc, ended, over, once, reflected, entry, conn, live, sets, loaded, open, rec, made, failures, calls>>

cacheVars  == <<once, reflected, entry, failures>>
clientVars == <<conn, live, sets, loaded>>
streamVars == <<open, rec, made>>

\* Samples of the families: streams counted; durations and failure rates of
\* streams; and those of unary calls.
NoRecords == [streams |-> 0, durations |-> 0, rates |-> 0, unaryDurations |-> 0, unaryRates |-> 0]
NoneMade  == [unopened |-> 0, unsent |-> 0, invoked |-> 0]

Init == /\ pc = [v \in VUs |-> "idle"]
        /\ ended = [v \in VUs |-> FALSE]
        /\ over = FALSE
        /\ once = <<>> /\ reflected = 0 /\ entry = [v \in VUs |-> 0] /\ failures = {}
        /\ conn = [v \in VUs |-> FALSE] /\ live = [v \in VUs |-> 0] 
        /\ loaded \in {"none", "ok"} /\ sets = [v \in VUs |-> loaded = "ok"]
        /\ open = [v \in VUs |-> <<>>]
        /\ rec = [v \in VUs |-> NoRecords] /\ made = [v \in VUs |-> NoneMade]
        /\ calls = [iterations |-> 0, connects |-> 0, rpcs |-> 0]

Goto(v, label) == pc' = [pc EXCEPT ![v] = label]

-----------------------------------------------------------------------------
(* Iterations *)

\* Each iteration has its own context.
Begin(v) == /\ pc[v] = "idle" /\ ~over /\ calls.iterations < MaxIterations
            /\ calls' = [calls EXCEPT !.iterations = @ + 1]
            /\ ended' = [ended EXCEPT ![v] = FALSE]
            /\ rec' = [rec EXCEPT ![v] = NoRecords] /\ made' = [made EXCEPT ![v] = NoneMade]
            /\ Goto(v, "script")
            /\ UNCHANGED <<over, open>> /\ UNCHANGED cacheVars /\ UNCHANGED clientVars

\* A deadline of the iteration, the end of the test or Ctrl+C.
EndContext(v) == /\ pc[v] \notin {"idle", "closed"} /\ ~ended[v]
                 /\ ended' = [ended EXCEPT ![v] = TRUE]
                 /\ UNCHANGED <<pc, over, calls>>
                 /\ UNCHANGED cacheVars /\ UNCHANGED clientVars /\ UNCHANGED streamVars

-----------------------------------------------------------------------------
(* load and connect *)

\* client.load in an iteration: the first VU to ask parses the file, and its
\* result, a failure too, is everybody's for the run. A load in top-level
\* code is part of Init, where a failure means that no VU iterates.
Load(v) ==
    /\ pc[v] = "script"
    /\ IF loaded = "none" THEN loaded' \in {"ok", "failed"} ELSE UNCHANGED loaded
    /\ sets' = [sets EXCEPT ![v] = @ \/ loaded' = "ok"]
    /\ UNCHANGED <<pc, ended, over, conn, live, calls>> /\ UNCHANGED cacheVars /\ UNCHANGED streamVars

\* The connection is closed first, whatever becomes of the new one; an
\* address that cannot be used makes none.
Connect(v) ==
    /\ pc[v] = "script" /\ calls.connects < MaxConnects
    /\ calls' = [calls EXCEPT !.connects = @ + 1]
    /\ conn' = [conn EXCEPT ![v] = FALSE]
    /\ LET left == IF conn[v] THEN live[v] - 1 ELSE live[v]
       IN  \/ live' = [live EXCEPT ![v] = left + 1] /\ Goto(v, "waitReady")
           \/ live' = [live EXCEPT ![v] = left] /\ UNCHANGED pc
    /\ UNCHANGED <<ended, over, sets, loaded>> /\ UNCHANGED cacheVars /\ UNCHANGED streamVars

\* Ready, with reflect not asked for: waitReady looks at the connection before
\* it looks at the context.
Ready(v) == /\ pc[v] = "waitReady"
            /\ conn' = [conn EXCEPT ![v] = TRUE]
            /\ Goto(v, "script")
            /\ UNCHANGED <<ended, over, live, sets, loaded, calls>> /\ UNCHANGED cacheVars /\ UNCHANGED streamVars

\* The timeout passed, or the context ended.
NotReady(v) == /\ pc[v] = "waitReady"
               /\ live' = [live EXCEPT ![v] = @ - 1]
               /\ Goto(v, "script")
               /\ UNCHANGED <<ended, over, conn, sets, loaded, calls>> /\ UNCHANGED cacheVars /\ UNCHANGED streamVars

\* run.cache: the current entry, or a new one.
Lookup(v) ==
    /\ pc[v] = "waitReady"
    /\ IF reflected # 0 THEN UNCHANGED <<once, reflected>>
       ELSE once' = Append(once, "new") /\ reflected' = Len(once) + 1
    /\ entry' = [entry EXCEPT ![v] = reflected']
    /\ Goto(v, "once")
    /\ UNCHANGED <<ended, over, failures, calls>> /\ UNCHANGED clientVars /\ UNCHANGED streamVars

\* once.Do: the first VU fetches, the others wait until it has.
Fetch(v) ==
    /\ pc[v] = "once" /\ once[entry[v]] = "new"
    /\ once' = [once EXCEPT ![entry[v]] = "running"]
    /\ Goto(v, "fetch")
    /\ UNCHANGED <<ended, over, reflected, entry, failures, calls>>
    /\ UNCHANGED clientVars /\ UNCHANGED streamVars

\* fetchDescriptors returns; it fails at the latest when the timeout or the
\* context of the VU that fetches ends.
Fetched(v) ==
    /\ pc[v] = "fetch"
    /\ \/ once' = [once EXCEPT ![entry[v]] = "ok"]
       \/ once' = [once EXCEPT ![entry[v]] = "failed"]
    /\ Goto(v, "once")
    /\ UNCHANGED <<ended, over, reflected, entry, failures, calls>>
    /\ UNCHANGED clientVars /\ UNCHANGED streamVars

\* The end of dial after once.Do has returned without an error.
Connected(v) ==
    /\ pc[v] = "once" /\ once[entry[v]] = "ok"
    /\ sets' = [sets EXCEPT ![v] = TRUE] /\ conn' = [conn EXCEPT ![v] = TRUE]
    /\ Goto(v, "script")
    /\ UNCHANGED <<ended, over, live, loaded, calls>> /\ UNCHANGED cacheVars /\ UNCHANGED streamVars

\* And with one: the entry is removed if it is still the current one.
EvictAny(v) == 0
Evict(v) == IF reflected = entry[v] THEN 0 ELSE reflected

ReflectFailedLeaking(v) ==
    /\ pc[v] = "once" /\ once[entry[v]] = "failed"
    /\ reflected' = Evict(v)
    /\ failures' = failures \union {entry[v]}
    /\ Goto(v, "script")
    /\ UNCHANGED <<ended, over, once, entry, calls>> /\ UNCHANGED clientVars /\ UNCHANGED streamVars
ReflectFailed(v) ==
    /\ pc[v] = "once" /\ once[entry[v]] = "failed"
    /\ reflected' = Evict(v)
    /\ failures' = failures \union {entry[v]}
    /\ live' = [live EXCEPT ![v] = @ - 1]
    /\ Goto(v, "script")
    /\ UNCHANGED <<ended, over, once, entry, conn, sets, loaded, calls>> /\ UNCHANGED streamVars

\* client.Close, called by the script.
CloseClient(v) ==
    /\ pc[v] = "script" /\ conn[v]
    /\ conn' = [conn EXCEPT ![v] = FALSE] /\ live' = [live EXCEPT ![v] = @ - 1]
    /\ UNCHANGED <<pc, ended, over, sets, loaded, calls>> /\ UNCHANGED cacheVars /\ UNCHANGED streamVars

-----------------------------------------------------------------------------
(* Calls and streams *)

\* protocol.Record with the families of streams; sent ones have a duration.
Recorded(v, sent) ==
    IF ended[v] THEN rec
    ELSE [rec EXCEPT ![v].durations = IF sent THEN @ + 1 ELSE @, ![v].rates = @ + 1]

\* invoke: without a connection or the method's descriptor nothing is sent,
\* nor if the request does not fit the method's message.
InvokeFails(v) ==
    /\ pc[v] = "script" /\ calls.rpcs < MaxCalls
    /\ calls' = [calls EXCEPT !.rpcs = @ + 1]
    /\ rec' = IF ended[v] THEN rec ELSE [rec EXCEPT ![v].unaryRates = @ + 1]
    /\ made' = [made EXCEPT ![v].unsent = @ + 1]
    /\ UNCHANGED <<pc, ended, over, open>> /\ UNCHANGED cacheVars /\ UNCHANGED clientVars

\* If not, the VU waits for the answer, an error or the end of the context.
Invoke(v) ==
    /\ pc[v] = "script" /\ calls.rpcs < MaxCalls
    /\ calls' = [calls EXCEPT !.rpcs = @ + 1]
    /\ conn[v] /\ sets[v]
    /\ made' = [made EXCEPT ![v].invoked = @ + 1]
    /\ Goto(v, "invoke")
    /\ UNCHANGED <<ended, over, open, rec>> /\ UNCHANGED cacheVars /\ UNCHANGED clientVars

Answered(v) ==
    /\ pc[v] = "invoke"
    /\ rec' = IF ended[v] THEN rec
              ELSE [rec EXCEPT ![v].unaryDurations = @ + 1, ![v].unaryRates = @ + 1]
    /\ Goto(v, "script")
    /\ UNCHANGED <<ended, over, open, made, calls>> /\ UNCHANGED cacheVars /\ UNCHANGED clientVars

\* stream: without a connection or the method's descriptor it never opens.
OpenFails(v) ==
    /\ pc[v] = "script" /\ calls.rpcs < MaxCalls
    /\ calls' = [calls EXCEPT !.rpcs = @ + 1]
    /\ ~conn[v] \/ ~sets[v]
    /\ rec' = Recorded(v, FALSE) /\ made' = [made EXCEPT ![v].unopened = @ + 1]
    /\ UNCHANGED <<pc, ended, over, open>> /\ UNCHANGED cacheVars /\ UNCHANGED clientVars

\* Otherwise it is counted, and NewStream is called.
CountStream(v) ==
    /\ pc[v] = "script" /\ calls.rpcs < MaxCalls
    /\ calls' = [calls EXCEPT !.rpcs = @ + 1]
    /\ conn[v] /\ sets[v]
    /\ rec' = IF ended[v] THEN rec ELSE [rec EXCEPT ![v].streams = @ + 1]
    /\ Goto(v, "newStream")
    /\ UNCHANGED <<ended, over, open, made>> /\ UNCHANGED cacheVars /\ UNCHANGED clientVars

NewStream(v) ==
    /\ pc[v] = "newStream"
    /\ \/ open' = [open EXCEPT ![v] = Append(@, FALSE)] /\ UNCHANGED rec
       \/ rec' = Recorded(v, TRUE) /\ UNCHANGED open
    /\ Goto(v, "script")
    /\ UNCHANGED <<ended, over, made, calls>> /\ UNCHANGED cacheVars /\ UNCHANGED clientVars

\* stream.finish, which does nothing to a stream that is done.
finishAgain(v, s) ==
    /\ open' = [open EXCEPT ![v][s] = TRUE]
    /\ rec' = Recorded(v, TRUE)
finish(v, s) ==
    IF open[v][s] THEN UNCHANGED <<open, rec>>
    ELSE open' = [open EXCEPT ![v][s] = TRUE] /\ rec' = Recorded(v, TRUE)

\* A send or recv that ends the stream, or close, by the script; a call on a
\* stream that is done has no effect. Messages leave the state as it is.
EndStream(v) ==
    /\ pc[v] = "script"
    /\ \E s \in DOMAIN open[v] : finish(v, s)
    /\ UNCHANGED <<pc, ended, over, made, calls>> /\ UNCHANGED cacheVars /\ UNCHANGED clientVars

-----------------------------------------------------------------------------
(* The end of an iteration and of the run *)

\* The script's function has returned: endIteration, with the context set.
Return(v) == /\ pc[v] = "script" /\ Goto(v, "endIteration")
             /\ UNCHANGED <<ended, over, calls>>
             /\ UNCHANGED cacheVars /\ UNCHANGED clientVars /\ UNCHANGED streamVars

Undone(v) == {s \in DOMAIN open[v] : ~open[v][s]}

\* instance.closeStreams, one stream at a time.
CloseStreams(v) ==
    /\ pc[v] = "endIteration" /\ Undone(v) # {}
    /\ finish(v, CHOOSE s \in Undone(v) : \A t \in Undone(v) : s <= t)
    /\ UNCHANGED <<pc, ended, over, made, calls>> /\ UNCHANGED cacheVars /\ UNCHANGED clientVars

IterationOver(v) ==
    /\ pc[v] = "endIteration" /\ Undone(v) = {}
    /\ open' = [open EXCEPT ![v] = <<>>]
    /\ Goto(v, "idle")
    /\ UNCHANGED <<ended, over, rec, made, calls>> /\ UNCHANGED cacheVars /\ UNCHANGED clientVars

Join == /\ ~over /\ \A v \in VUs : pc[v] = "idle"
        /\ over' = TRUE
        /\ UNCHANGED <<pc, ended, calls>>
        /\ UNCHANGED cacheVars /\ UNCHANGED clientVars /\ UNCHANGED streamVars

\* VU.Close closes the instance, which has no streams left, then the client.
CloseVU(v) ==
    /\ over /\ pc[v] = "idle"
    /\ open' = [open EXCEPT ![v] = <<>>]
    /\ conn' = [conn EXCEPT ![v] = FALSE] /\ live' = [live EXCEPT ![v] = IF conn[v] THEN @ - 1 ELSE @]
    /\ Goto(v, "closed")
    /\ UNCHANGED <<ended, over, sets, loaded, rec, made, calls>> /\ UNCHANGED cacheVars

-----------------------------------------------------------------------------
\* What a VU does in connect; the rest is the script's.
Connecting(v) == \/ Ready(v) \/ NotReady(v) \/ Lookup(v) \/ Fetch(v) \/ Fetched(v)
                 \/ Connected(v) \/ ReflectFailed(v)

VUStep(v) == \/ Begin(v) \/ Load(v) \/ Connect(v) \/ Connecting(v) \/ CloseClient(v)
             \/ InvokeFails(v) \/ Invoke(v) \/ Answered(v)
             \/ OpenFails(v) \/ CountStream(v) \/ NewStream(v) \/ EndStream(v)
             \/ Return(v) \/ CloseStreams(v) \/ IterationOver(v) \/ CloseVU(v)

Next == Join \/ \E v \in VUs : VUStep(v) \/ EndContext(v)

Spec == Init /\ [][Next]_vars

-----------------------------------------------------------------------------
(* Properties *)

\* module.go:80, "loaded once even when many VUs ask at the same time", and
\* descriptors.go:74, "Do not cache a failure": one VU at a time fetches,
\* nobody does once one has succeeded, and a connect that begins after
\* another one returned a failure is not given that failure.
ReflectedOnce ==
    /\ Cardinality({v \in VUs : pc[v] = "fetch"}) <= 1
    /\ Cardinality({e \in DOMAIN once : once[e] = "ok"}) <= 1
    /\ (\E e \in DOMAIN once : once[e] = "ok") => \A v \in VUs : pc[v] # "fetch"
    /\ reflected \notin failures

\* client.go:24 and module.go:153: a client never holds more than its current
\* connection, through failed dials, failed reflection and reconnects; no
\* stream outlives its iteration and no connection its VU.
NothingLeftOpen ==
    \A v \in VUs :
      /\ live[v] <= 1
      /\ pc[v] \in {"idle", "script"} => live[v] = (IF conn[v] THEN 1 ELSE 0)
      /\ pc[v] \in {"idle", "closed"} => open[v] = <<>>
      /\ pc[v] = "closed" => live[v] = 0

\* stream.go:74 and 153, client.go:189 and 218: by the end of an iteration whose
\* context did not end, every stream counted as opened has been recorded as
\* ended once, whether the server, the script or the end of the iteration
\* closed it, and every unary call once; streams that never opened and calls
\* that were not sent count as failed, without a duration.
CallsRecorded ==
    \A v \in VUs :
      /\ rec[v].durations <= rec[v].streams
      /\ pc[v] = "idle" /\ ~ended[v] =>
            /\ rec[v].durations = rec[v].streams
            /\ rec[v].rates = rec[v].streams + made[v].unopened
            /\ rec[v].unaryDurations = made[v].invoked
            /\ rec[v].unaryRates = made[v].invoked + made[v].unsent
=============================================================================
