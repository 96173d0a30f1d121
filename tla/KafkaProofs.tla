----------------------------- MODULE KafkaProofs ----------------------------
(***************************************************************************)
(* Proofs about Kafka, for any set of keys, batches of any length and any  *)
(* number of objects, calls and iterations.                                *)
(***************************************************************************)
EXTENDS Kafka, FiniteSetTheorems, SequenceTheorems, TLAPS

Kinds == {"valid", "invalid"}
Codes == {"none", "invalid", "unsent", "acked", "failed"}
Objects == [role : Roles, kgo : {"none", "open", "closed"}, closed : BOOLEAN, byScript : BOOLEAN]
Calls == [obj : Nat, msgs : Seq(Kinds), results : Seq(Codes), next : Nat, index : Seq(Nat),
          order : Seq(Nat), outcome : Seq(Codes), left : Nat, failure : BOOLEAN, live : BOOLEAN]

Between   == {"top", "script", "idle", "closing", "closed"}
Producing == {"building", "sending", "results"}
Consuming == {"lookup", "polling", "polled"}

PlaceType  == /\ pc \in Between \union Producing \union Consuming \union {"returned"}
              /\ ended \in BOOLEAN /\ cut \in BOOLEAN
ObjectType == objs \in Seq(Objects) /\ oneOff \in [Roles -> [Keys -> Nat]]
CallType   == call \in Calls
RecordType == /\ rec \in [durations : Nat, produced : Nat, produceFailed : Nat, produces : Nat,
                          consumed : Nat, consumeFailed : Nat, consumes : Nat]
              /\ seen \in [given : Nat, sent : Nat, acked : Nat, polls : Nat]

\* The types of the variables.
TypeOK == PlaceType /\ ObjectType /\ CallType /\ RecordType

\* Which objects a call and the clients kept for one-off calls refer to.
PlaceInv ==
    /\ pc \in Producing \union Consuming => call.obj \in 1..Len(objs)
    /\ \A r \in Roles, k \in Keys : oneOff[r][k] \in 0..Len(objs)
    /\ pc \in Between => call.msgs = <<>> /\ call.results = <<>> /\ call.outcome = <<>>
    /\ pc \in Consuming => call.msgs = <<>> /\ call.results = <<>> /\ call.outcome = <<>>

\* A closed object has no open client, and the closers have closed those before
\* the next one.
ClientInv ==
    /\ \A i \in 1..Len(objs) : objs[i].closed => objs[i].kgo # "open"
    /\ pc = "closing" => call.next \in Nat \ {0} /\ \A i \in 1..Len(objs) : i < call.next => objs[i].closed
    /\ pc = "closed" => \A i \in 1..Len(objs) : objs[i].closed

\* The messages of the call, and those that are still without a result.
Msgs == 1..Len(call.msgs)
Open == {m \in Msgs : call.results[m] = "none"}

\* The records made so far are those of the valid messages, each once.
IsIndex(seq, S) == /\ \A j \in 1..Len(seq) : seq[j] \in S
                   /\ \A m \in S : \E j \in 1..Len(seq) : seq[j] = m
                   /\ \A i, j \in 1..Len(seq) : seq[i] = seq[j] => i = j
ValidBefore(n) == {m \in Msgs : m < n /\ call.msgs[m] = "valid"}

\* How far the results are.
ResultInv ==
    /\ Len(call.results) = Len(call.msgs)
    /\ pc = "building" =>
         /\ call.next \in 1..(Len(call.msgs) + 1) /\ call.outcome = <<>>
         /\ IsIndex(call.index, ValidBefore(call.next))
         /\ Len(call.index) = Cardinality(ValidBefore(call.next))
         /\ \A m \in Msgs : call.results[m] = IF m < call.next /\ call.msgs[m] = "invalid"
                                              THEN "invalid" ELSE "none"
    /\ pc = "sending" =>
         /\ call.outcome = <<>>
         /\ IsIndex(call.index, Open) /\ Len(call.index) = Cardinality(Open)
         /\ \A m \in Msgs : call.results[m] = IF call.msgs[m] = "invalid" THEN "invalid" ELSE "none"
    /\ pc = "results" =>
         /\ call.next \in 1..(Len(call.order) + 1) /\ Len(call.outcome) = Len(call.msgs)
         /\ IsIndex(call.order, {m \in Msgs : call.msgs[m] = "valid"})
         /\ \A m \in Msgs : call.outcome[m] # "none"
         /\ \A m \in Msgs : call.msgs[m] = "invalid" => call.results[m] = "invalid" /\ call.outcome[m] # "acked"
         /\ \A j \in 1..Len(call.order) :
              call.results[call.order[j]] = IF j < call.next THEN call.outcome[call.order[j]] ELSE "none"
    /\ pc = "returned" =>
         \A m \in Msgs : /\ call.results[m] = IF call.msgs[m] = "invalid" THEN "invalid" ELSE call.outcome[m]
                        /\ call.results[m] # "none"

\* Messages without a result that were acknowledged, and those that were sent.
OpenAcked == {m \in Open : pc = "results" /\ call.outcome[m] = "acked"}
OpenSent  == {m \in Open : pc = "sending" \/ (pc = "results" /\ call.outcome[m] \in {"acked", "failed"})}
Polling   == IF pc \in Consuming THEN 1 ELSE 0

\* What is recorded falls short of what happened by what has no result yet, and
\* further only where a context ended.
CountInv ==
    /\ rec.produced + rec.produceFailed = rec.produces /\ rec.consumeFailed <= rec.consumes
    /\ rec.produces + Cardinality(Open) <= seen.given
    /\ rec.produced + Cardinality(OpenAcked) <= seen.acked
    /\ rec.durations + Cardinality(OpenSent) <= seen.sent
    /\ rec.consumes + Polling <= seen.polls
    /\ ~cut => /\ rec.produces + Cardinality(Open) = seen.given
               /\ rec.produced + Cardinality(OpenAcked) = seen.acked
               /\ rec.durations + Cardinality(OpenSent) = seen.sent
               /\ rec.consumes + Polling = seen.polls

KafkaInv == TypeOK /\ PlaceInv /\ ClientInv /\ ResultInv /\ CountInv

-----------------------------------------------------------------------------
(* What a call's steps do to it *)

\* A result is put in its place.
LEMMA ResultEffect ==
    ASSUME CallType, NEW k \in 1..Len(call.results), NEW code \in Codes, result(k, code)
    PROVE  /\ call' \in Calls /\ call'.next = call.next + 1
           /\ call'.obj = call.obj /\ call'.msgs = call.msgs /\ call'.index = call.index
           /\ call'.order = call.order /\ call'.outcome = call.outcome
           /\ Len(call'.results) = Len(call.results)
           /\ \A j \in 1..Len(call.results) : call'.results[j] = IF j = k THEN code ELSE call.results[j]
<1> DEFINE R == [call.results EXCEPT ![k] = code]
<1>1. call.results \in Seq(Codes) /\ call.next \in Nat
  BY DEF CallType, Calls
<1>2. /\ R \in Seq(Codes) /\ Len(R) = Len(call.results)
      /\ \A j \in 1..Len(call.results) : R[j] = IF j = k THEN code ELSE call.results[j]
  BY <1>1, ExceptSeq
<1>3. call' = [call EXCEPT !.results = R, !.next = @ + 1]
  BY DEF result, CallType, Calls
<1> HIDE DEF R
<1>4. call' = [obj |-> call.obj, msgs |-> call.msgs, results |-> R, next |-> call.next + 1,
               index |-> call.index, order |-> call.order, outcome |-> call.outcome,
               left |-> call.left, failure |-> call.failure, live |-> call.live]
  BY <1>3 DEF CallType, Calls
<1>5. call' \in Calls
  BY <1>1, <1>2, <1>4 DEF CallType, Calls
<1>6. QED
  BY <1>2, <1>4, <1>5

\* A valid message gets a record.
LEMMA IndexEffect ==
    ASSUME CallType, call' = [call EXCEPT !.index = Append(@, call.next), !.next = @ + 1]
    PROVE  /\ call' \in Calls /\ call'.next = call.next + 1
           /\ call'.obj = call.obj /\ call'.msgs = call.msgs /\ call'.results = call.results
           /\ call'.outcome = call.outcome /\ call'.index = Append(call.index, call.next)
           /\ Len(call'.index) = Len(call.index) + 1 /\ call'.index[Len(call.index) + 1] = call.next
           /\ \A j \in 1..Len(call.index) : call'.index[j] = call.index[j]
<1> DEFINE R == Append(call.index, call.next)
<1>1. call.index \in Seq(Nat) /\ call.next \in Nat
  BY DEF CallType, Calls
<1>2. /\ R \in Seq(Nat) /\ Len(R) = Len(call.index) + 1 /\ R[Len(call.index) + 1] = call.next
      /\ \A j \in 1..Len(call.index) : R[j] = call.index[j]
  BY <1>1, AppendProperties
<1>3. call' = [call EXCEPT !.index = R, !.next = @ + 1]
  BY DEF CallType, Calls
<1> HIDE DEF R
<1>4. call' = [obj |-> call.obj, msgs |-> call.msgs, results |-> call.results, next |-> call.next + 1,
               index |-> R, order |-> call.order, outcome |-> call.outcome,
               left |-> call.left, failure |-> call.failure, live |-> call.live]
  BY <1>3 DEF CallType, Calls
<1>5. call' \in Calls
  BY <1>1, <1>2, <1>4 DEF CallType, Calls
<1>6. QED
  BY <1>2, <1>4, <1>5 DEF R

\* A new call has its messages and no result.
LEMMA SendEffect ==
    ASSUME NEW i, NEW msgs \in Batches, i \in Nat, Send(i, msgs)
    PROVE  /\ msgs \in Seq(Kinds) /\ Len(msgs) \in Nat
           /\ call' \in Calls /\ call'.next = 1 /\ call'.obj = i /\ call'.msgs = msgs
           /\ call'.index = <<>> /\ call'.outcome = <<>> /\ Len(call'.results) = Len(msgs)
           /\ \A j \in 1..Len(msgs) : call'.results[j] = "none"
<1> DEFINE R == [m \in DOMAIN msgs |-> "none"]
<1>1. PICK n \in Nat : msgs \in [1..n -> Kinds]
  BY DEF Batches, Kinds
<1>2. msgs \in Seq(Kinds) /\ Len(msgs) = n /\ DOMAIN msgs = 1..n
  BY <1>1, SeqDef, LenProperties
<1>3. R \in Seq(Codes) /\ Len(R) = n /\ \A j \in 1..n : R[j] = "none"
  BY <1>2, SeqDef, IsASeq, LenProperties DEF Codes
<1>4. call' = [Idle EXCEPT !.obj = i, !.msgs = msgs, !.results = R]
  BY DEF Send
<1>5. call' = [obj |-> i, msgs |-> msgs, results |-> R, next |-> 1, index |-> <<>>,
               order |-> <<>>, outcome |-> <<>>, left |-> 0, failure |-> FALSE, live |-> FALSE]
  BY <1>4 DEF Idle
<1> HIDE DEF R
<1>6. QED
  BY <1>2, <1>3, <1>5, EmptySeq DEF Calls

\* The answers of the broker, or what takes their place without a client.
LEMMA OrderEffect ==
    ASSUME CallType, NEW ord \in Seq(Nat), NEW out \in Seq(Codes),
           call' = [call EXCEPT !.order = ord, !.outcome = out, !.next = 1]
    PROVE  /\ call' \in Calls /\ call'.next = 1 /\ call'.order = ord /\ call'.outcome = out
           /\ call'.obj = call.obj /\ call'.msgs = call.msgs /\ call'.results = call.results
<1>1. call' = [obj |-> call.obj, msgs |-> call.msgs, results |-> call.results, next |-> 1,
               index |-> call.index, order |-> ord, outcome |-> out,
               left |-> call.left, failure |-> call.failure, live |-> call.live]
  BY DEF CallType, Calls
<1>2. call' \in Calls
  BY <1>1 DEF CallType, Calls
<1>3. QED
  BY <1>1, <1>2

\* Built without a client: the records in their order, none of them sent.
LEMMA UnsentEffect ==
    ASSUME CallType,
           call' = [call EXCEPT !.order = call.index, !.next = 1,
                                !.outcome = [m \in DOMAIN call.msgs |-> "unsent"]]
    PROVE  /\ call' \in Calls /\ call'.next = 1 /\ call'.order = call.index
           /\ call'.obj = call.obj /\ call'.msgs = call.msgs /\ call'.results = call.results
           /\ Len(call'.outcome) = Len(call.msgs) /\ \A m \in 1..Len(call.msgs) : call'.outcome[m] = "unsent"
<1> DEFINE R == [m \in DOMAIN call.msgs |-> "unsent"]
<1>1. call.msgs \in Seq(Kinds) /\ Len(call.msgs) \in Nat /\ DOMAIN call.msgs = 1..Len(call.msgs)
  BY LenProperties DEF CallType, Calls
<1>2. /\ R \in Seq(Codes) /\ Len(R) = Len(call.msgs)
      /\ \A m \in 1..Len(call.msgs) : R[m] = "unsent"
  BY <1>1, SeqDef, IsASeq, LenProperties DEF Codes
<1>3. call' = [call EXCEPT !.order = call.index, !.outcome = R, !.next = 1] /\ call.index \in Seq(Nat)
  BY DEF CallType, Calls
<1> HIDE DEF R
<1>4. QED
  BY <1>2, <1>3, OrderEffect, ZenonT(40)

\* ProduceSync: a permutation of the records, each with its outcome.
LEMMA SyncEffect ==
    ASSUME CallType, ProduceSync
    PROVE  \E p \in [DOMAIN call.index -> DOMAIN call.index], out \in [DOMAIN call.msgs -> {"acked", "failed"}] :
             /\ \A x, y \in DOMAIN call.index : p[x] = p[y] => x = y
             /\ \A m \in 1..Len(call.msgs) : call.msgs[m] = "invalid" => out[m] = "failed"
             /\ call' \in Calls /\ call'.next = 1 /\ call'.outcome = out
             /\ out \in Seq(Codes) /\ Len(out) = Len(call.msgs)
             /\ call'.order = [j \in DOMAIN call.index |-> call.index[p[j]]]
             /\ Len(call'.order) = Len(call.index)
             /\ call'.obj = call.obj /\ call'.msgs = call.msgs /\ call'.results = call.results
             /\ seen' = [seen EXCEPT !.acked = @ + Cardinality({m \in 1..Len(call.msgs) : out[m] = "acked"})]
<1>1. PICK p \in [DOMAIN call.index -> DOMAIN call.index], out \in [DOMAIN call.msgs -> {"acked", "failed"}] :
        /\ \A x, y \in DOMAIN call.index : p[x] = p[y] => x = y
        /\ \A m \in DOMAIN out : call.msgs[m] = "invalid" => out[m] = "failed"
        /\ call' = [call EXCEPT !.order = [j \in DOMAIN call.index |-> call.index[p[j]]],
                                !.outcome = out, !.next = 1]
        /\ seen' = [seen EXCEPT !.acked = @ + Cardinality({m \in DOMAIN out : out[m] = "acked"})]
  BY DEF ProduceSync
<1>2. /\ call.msgs \in Seq(Kinds) /\ Len(call.msgs) \in Nat /\ DOMAIN call.msgs = 1..Len(call.msgs)
      /\ call.index \in Seq(Nat) /\ Len(call.index) \in Nat /\ DOMAIN call.index = 1..Len(call.index)
  BY LenProperties DEF CallType, Calls
<1>3. out \in Seq(Codes) /\ Len(out) = Len(call.msgs) /\ DOMAIN out = 1..Len(call.msgs)
  <2>1. out \in [1..Len(call.msgs) -> Codes]
    BY <1>1, <1>2 DEF Codes
  <2>2. QED
    BY <1>2, <2>1, SeqDef, IsASeq, LenProperties
<1> DEFINE R == [j \in DOMAIN call.index |-> call.index[p[j]]]
<1>4. R \in Seq(Nat) /\ Len(R) = Len(call.index)
  <2>1. \A j \in DOMAIN call.index : call.index[p[j]] \in Nat
    BY <1>2, ElementOfSeq
  <2>2. R \in [1..Len(call.index) -> Nat]
    BY <1>2, <2>1
  <2>3. QED
    BY <1>2, <2>2, SeqDef, IsASeq, LenProperties
<1>5. call' = [call EXCEPT !.order = R, !.outcome = out, !.next = 1]
  BY <1>1
<1>6. /\ call' \in Calls /\ call'.next = 1 /\ call'.order = R /\ call'.outcome = out
      /\ call'.obj = call.obj /\ call'.msgs = call.msgs /\ call'.results = call.results
  <2> HIDE DEF R
  <2> QED BY <1>3, <1>4, <1>5, OrderEffect
<1>7. {m \in DOMAIN out : out[m] = "acked"} = {m \in 1..Len(call.msgs) : out[m] = "acked"}
  BY <1>3
<1>8. /\ \A x, y \in DOMAIN call.index : p[x] = p[y] => x = y
      /\ \A m \in 1..Len(call.msgs) : call.msgs[m] = "invalid" => out[m] = "failed"
      /\ call' \in Calls /\ call'.next = 1 /\ call'.outcome = out
      /\ out \in Seq(Codes) /\ Len(out) = Len(call.msgs)
      /\ call'.order = R /\ Len(call'.order) = Len(call.index)
      /\ call'.obj = call.obj /\ call'.msgs = call.msgs /\ call'.results = call.results
      /\ seen' = [seen EXCEPT !.acked = @ + Cardinality({m \in 1..Len(call.msgs) : out[m] = "acked"})]
  <2> HIDE DEF R
  <2> QED BY <1>1, <1>3, <1>4, <1>6, <1>7
<1>9. QED
  BY <1>8, ZenonT(40)

\* No call is in progress.
LEMMA IdleCall == Idle \in Calls
  BY EmptySeq DEF Idle, Calls

-----------------------------------------------------------------------------
(* What the steps do to the objects *)

\* Closing an object and giving it a client.
LEMMA ObjectChanges ==
    ASSUME NEW ob \in Objects, ob.closed => ob.kgo # "open"
    PROVE  /\ closed(ob) \in Objects /\ closed(ob).closed /\ closed(ob).kgo # "open"
           /\ clientFor(ob) \in Objects /\ clientFor(ob).closed = ob.closed
           /\ clientFor(ob).closed => clientFor(ob).kgo # "open"
<1>1. closed(ob) \in Objects /\ closed(ob).closed /\ closed(ob).kgo # "open"
  BY DEF closed, Objects
<1>2. /\ clientFor(ob) \in Objects /\ clientFor(ob).closed = ob.closed
      /\ clientFor(ob).closed => clientFor(ob).kgo # "open"
  BY DEF clientFor, Objects
<1>3. QED
  BY <1>1, <1>2

\* One object is replaced.
LEMMA ObjectReplaced ==
    ASSUME ObjectType, NEW i \in 1..Len(objs), NEW ob \in Objects, objs' = [objs EXCEPT ![i] = ob]
    PROVE  /\ objs' \in Seq(Objects) /\ Len(objs') = Len(objs)
           /\ \A j \in 1..Len(objs) : objs'[j] = IF j = i THEN ob ELSE objs[j]
  BY ExceptSeq DEF ObjectType

\* One is added, which has no client.
LEMMA ObjectAdded ==
    ASSUME ObjectType, NEW r \in Roles, NEW b \in BOOLEAN, objs' = Append(objs, newObject(r, b))
    PROVE  /\ objs' \in Seq(Objects) /\ Len(objs) \in Nat /\ Len(objs') = Len(objs) + 1
           /\ \A j \in 1..Len(objs) : objs'[j] = objs[j]
           /\ ~objs'[Len(objs) + 1].closed
<1>1. newObject(r, b) \in Objects /\ ~newObject(r, b).closed
  BY DEF newObject, Objects
<1>2. Len(objs) \in Nat
  BY LenProperties DEF ObjectType
<1>3. QED
  BY <1>1, <1>2, AppendProperties DEF ObjectType

\* The object of a call is there, and if it was made for the call it is kept.
LEMMA ObjectThere ==
    ASSUME ObjectType, PlaceInv, NEW r \in Roles, NEW i,
           \/ \E b \in BOOLEAN : ObjectFor(r, i, b)
           \/ \E k \in Keys : OneOffObject(r, k, i)
    PROVE  /\ i \in 1..Len(objs') /\ objs' \in Seq(Objects) /\ oneOff' \in [Roles -> [Keys -> Nat]]
           /\ \/ objs' = objs
              \/ objs' = Append(objs, newObject(r, FALSE))
           /\ \A q \in Roles, k \in Keys : oneOff'[q][k] \in 0..Len(objs')
<1>1. CASE i \in DOMAIN objs /\ OwnObject(r, i)
  BY <1>1, LenProperties DEF OwnObject, ObjectType, PlaceInv
<1>2. ASSUME NEW k \in Keys, OneOffObject(r, k, i), oneOff[r][k] # 0
      PROVE  i \in 1..Len(objs) /\ UNCHANGED <<objs, oneOff>>
  BY <1>2, LenProperties DEF OneOffObject, PlaceInv, ObjectType
<1>3. ASSUME NEW k \in Keys, OneOffObject(r, k, i), oneOff[r][k] = 0
      PROVE  /\ i = Len(objs) + 1 /\ objs' = Append(objs, newObject(r, FALSE))
             /\ objs' \in Seq(Objects) /\ Len(objs) \in Nat /\ Len(objs') = Len(objs) + 1
             /\ oneOff' \in [Roles -> [Keys -> Nat]]
             /\ \A q \in Roles, x \in Keys : oneOff'[q][x] \in 0..Len(objs')
  <2>1. /\ i = Len(objs) + 1 /\ objs' = Append(objs, newObject(r, FALSE))
        /\ oneOff' = [oneOff EXCEPT ![r][k] = i]
    BY <1>3 DEF OneOffObject
  <2>2. objs' \in Seq(Objects) /\ Len(objs) \in Nat /\ Len(objs') = Len(objs) + 1
    BY <2>1, ObjectAdded
  <2>3. oneOff' \in [Roles -> [Keys -> Nat]]
    BY <2>1, <2>2 DEF ObjectType
  <2>4. \A q \in Roles, x \in Keys : oneOff'[q][x] = i \/ oneOff'[q][x] = oneOff[q][x]
    BY <2>1 DEF ObjectType
  <2>5. \A q \in Roles, x \in Keys : oneOff[q][x] \in 0..Len(objs)
    BY DEF PlaceInv
  <2>6. \A q \in Roles, x \in Keys : oneOff'[q][x] \in 0..Len(objs')
    BY <2>1, <2>2, <2>4, <2>5
  <2>7. QED
    BY <2>1, <2>2, <2>3, <2>6
<1>4. ASSUME NEW k \in Keys, OneOffObject(r, k, i)
      PROVE  /\ i \in 1..Len(objs') /\ objs' \in Seq(Objects) /\ oneOff' \in [Roles -> [Keys -> Nat]]
             /\ \/ objs' = objs
                \/ objs' = Append(objs, newObject(r, FALSE))
             /\ \A q \in Roles, x \in Keys : oneOff'[q][x] \in 0..Len(objs')
  <2>1. CASE oneOff[r][k] # 0
    BY <1>2, <1>4, <2>1 DEF ObjectType, PlaceInv
  <2>2. CASE oneOff[r][k] = 0
    <3>1. /\ i = Len(objs) + 1 /\ objs' = Append(objs, newObject(r, FALSE))
          /\ objs' \in Seq(Objects) /\ Len(objs) \in Nat /\ Len(objs') = Len(objs) + 1
          /\ oneOff' \in [Roles -> [Keys -> Nat]]
          /\ \A q \in Roles, x \in Keys : oneOff'[q][x] \in 0..Len(objs')
      BY <1>3, <1>4, <2>2
    <3>2. i \in 1..Len(objs')
      BY <3>1
    <3>3. QED
      BY <3>1, <3>2
  <2>3. QED
    BY <2>1, <2>2
<1>5. QED
  BY <1>1, <1>4 DEF ObjectFor

-----------------------------------------------------------------------------
(* Types *)

\* The VU stays at one of its places.
LEMMA PlaceTypeStep ==
    ASSUME PlaceType
    PROVE  [Next]_vars => PlaceType'
<1>1. ASSUME Begin PROVE PlaceType'
  BY <1>1 DEF Begin, PlaceType, Between, Producing, Consuming
<1>2. ASSUME EndContext PROVE PlaceType'
  BY <1>2 DEF EndContext, PlaceType, Between, Producing, Consuming
<1>3. ASSUME Return PROVE PlaceType'
  BY <1>3 DEF Return, PlaceType, Between, Producing, Consuming
<1>4. ASSUME CloseVU PROVE PlaceType'
  BY <1>4 DEF CloseVU, PlaceType, Between, Producing, Consuming
<1>5. ASSUME CloseNext PROVE PlaceType'
  BY <1>5 DEF CloseNext, PlaceType, Between, Producing, Consuming
<1>6. ASSUME NEW r \in Roles, Construct(r) PROVE PlaceType'
  BY <1>6 DEF Construct, PlaceType, Between, Producing, Consuming
<1>7. ASSUME NEW i \in DOMAIN objs, ScriptCloses(i) PROVE PlaceType'
  BY <1>7 DEF ScriptCloses, PlaceType, Between, Producing, Consuming
<1>8. ASSUME NEW i \in 1..MaxObjects, NEW msgs \in Batches, Send(i, msgs) PROVE PlaceType'
  BY <1>8 DEF Send, PlaceType, Between, Producing, Consuming
<1>9. ASSUME NEW i \in 1..MaxObjects, Consume(i) PROVE PlaceType'
  BY <1>9 DEF Consume, PlaceType, Between, Producing, Consuming
<1>10. ASSUME NEW i \in 1..MaxObjects, NEW r \in Roles, CallOutside(r, i) PROVE PlaceType'
  BY <1>10 DEF CallOutside, PlaceType, Between, Producing, Consuming
<1>11. ASSUME Build PROVE PlaceType'
  BY <1>11 DEF Build, result, PlaceType, Between, Producing, Consuming
<1>12. ASSUME NothingToSend PROVE PlaceType'
  BY <1>12 DEF NothingToSend, PlaceType, Between, Producing, Consuming
<1>13. ASSUME Built PROVE PlaceType'
  BY <1>13 DEF Built, PlaceType, Between, Producing, Consuming
<1>14. ASSUME ProduceSync PROVE PlaceType'
  BY <1>14 DEF ProduceSync, PlaceType, Between, Producing, Consuming
<1>15. ASSUME TakeResult PROVE PlaceType'
  BY <1>15 DEF TakeResult, result, PlaceType, Between, Producing, Consuming
<1>16. ASSUME Sent PROVE PlaceType'
  BY <1>16 DEF Sent, PlaceType, Between, Producing, Consuming
<1>17. ASSUME Lookup PROVE PlaceType'
  BY <1>17 DEF Lookup, PlaceType, Between, Producing, Consuming
<1>18. ASSUME PollRecords PROVE PlaceType'
  BY <1>18 DEF PollRecords, PlaceType, Between, Producing, Consuming
<1>19. ASSUME TakeMessage PROVE PlaceType'
  BY <1>19 DEF TakeMessage, PlaceType, Between, Producing, Consuming
<1>20. ASSUME Consumed PROVE PlaceType'
  BY <1>20 DEF Consumed, PlaceType, Between, Producing, Consuming
<1>21. ASSUME GoOn PROVE PlaceType'
  BY <1>21 DEF GoOn, PlaceType, Between, Producing, Consuming
<1>22. ASSUME UNCHANGED vars PROVE PlaceType'
  BY <1>22 DEF vars, PlaceType, Between, Producing, Consuming
<1>23. QED
  BY <1>1, <1>2, <1>3, <1>4, <1>5, <1>6, <1>7, <1>8, <1>9, <1>10, <1>11, <1>12,
     <1>13, <1>14, <1>15, <1>16, <1>17, <1>18, <1>19, <1>20, <1>21, <1>22 DEF Next, Working

\* The objects keep their types.
LEMMA ObjectTypeStep ==
    ASSUME ObjectType, CallType, PlaceInv, ClientInv
    PROVE  [Next]_vars => ObjectType'
<1>1. ASSUME Begin PROVE ObjectType'
  BY <1>1 DEF Begin, ObjectType
<1>2. ASSUME EndContext PROVE ObjectType'
  BY <1>2 DEF EndContext, ObjectType
<1>3. ASSUME Return PROVE ObjectType'
  BY <1>3 DEF Return, ObjectType
<1>4. ASSUME CloseVU PROVE ObjectType'
  BY <1>4 DEF CloseVU, ObjectType
<1>5. ASSUME CloseNext PROVE ObjectType'
  <2>1. CASE call.next > Len(objs)
    BY <1>5, <2>1 DEF CloseNext, ObjectType
  <2>2. CASE ~(call.next > Len(objs))
    <3>1. call.next \in 1..Len(objs) /\ objs[call.next] \in Objects
      BY <1>5, <2>2, ElementOfSeq, LenProperties DEF CloseNext, ClientInv, ObjectType
    <3>2. objs' = [objs EXCEPT ![call.next] = closed(objs[call.next])] /\ oneOff' = oneOff
      BY <1>5, <2>2 DEF CloseNext
    <3>3. closed(objs[call.next]) \in Objects
      BY <3>1, ObjectChanges DEF ClientInv
    <3>4. QED
      BY <3>1, <3>2, <3>3, ObjectReplaced DEF ObjectType
  <2>3. QED
    BY <2>1, <2>2
<1>6. ASSUME NEW r \in Roles, Construct(r) PROVE ObjectType'
  BY <1>6, ObjectAdded DEF Construct, ObjectType
<1>7. ASSUME NEW i \in DOMAIN objs, ScriptCloses(i) PROVE ObjectType'
  <2>1. i \in 1..Len(objs) /\ objs[i] \in Objects /\ Len(objs) \in Nat
    BY <1>7, ElementOfSeq, LenProperties DEF ScriptCloses, ObjectType, PlaceInv, CallType, Calls, ClientInv, Producing, Consuming
  <2>2. objs' = objs \/ objs' = [objs EXCEPT ![i] = closed(objs[i])]
    BY <1>7 DEF ScriptCloses
  <2>3. closed(objs[i]) \in Objects
    BY <2>1, ObjectChanges DEF ClientInv
  <2>4. QED
    BY <1>7, <2>1, <2>2, <2>3, ObjectReplaced DEF ScriptCloses, ObjectType
<1>8. ASSUME NEW i \in 1..MaxObjects, NEW msgs \in Batches, Send(i, msgs) PROVE ObjectType'
  BY <1>8, ObjectThere DEF Send, Roles, ObjectType
<1>9. ASSUME NEW i \in 1..MaxObjects, Consume(i) PROVE ObjectType'
  BY <1>9, ObjectThere DEF Consume, Roles, ObjectType
<1>10. ASSUME NEW i \in 1..MaxObjects, NEW r \in Roles, CallOutside(r, i) PROVE ObjectType'
  BY <1>10, ObjectThere DEF CallOutside, ObjectType
<1>11. ASSUME Build PROVE ObjectType'
  BY <1>11 DEF Build, ObjectType
<1>12. ASSUME NothingToSend PROVE ObjectType'
  BY <1>12 DEF NothingToSend, ObjectType
<1>13. ASSUME Built PROVE ObjectType'
  <2>1. call.obj \in 1..Len(objs) /\ objs[call.obj] \in Objects /\ Len(objs) \in Nat
    BY <1>13, ElementOfSeq, LenProperties DEF Built, ObjectType, PlaceInv, CallType, Calls, ClientInv, Producing, Consuming
  <2>2. objs' = objs \/ objs' = [objs EXCEPT ![call.obj] = clientFor(objs[call.obj])]
    BY <1>13 DEF Built
  <2>3. clientFor(objs[call.obj]) \in Objects
    BY <2>1, ObjectChanges DEF ClientInv
  <2>4. QED
    BY <1>13, <2>1, <2>2, <2>3, ObjectReplaced DEF Built, ObjectType
<1>14. ASSUME ProduceSync PROVE ObjectType'
  BY <1>14 DEF ProduceSync, ObjectType
<1>15. ASSUME TakeResult PROVE ObjectType'
  BY <1>15 DEF TakeResult, ObjectType
<1>16. ASSUME Sent PROVE ObjectType'
  BY <1>16 DEF Sent, ObjectType
<1>17. ASSUME Lookup PROVE ObjectType'
  <2>1. call.obj \in 1..Len(objs) /\ objs[call.obj] \in Objects /\ Len(objs) \in Nat
    BY <1>17, ElementOfSeq, LenProperties DEF Lookup, ObjectType, PlaceInv, CallType, Calls, ClientInv, Producing, Consuming
  <2>2. objs' = objs \/ objs' = [objs EXCEPT ![call.obj] = clientFor(objs[call.obj])]
    BY <1>17 DEF Lookup
  <2>3. clientFor(objs[call.obj]) \in Objects
    BY <2>1, ObjectChanges DEF ClientInv
  <2>4. QED
    BY <1>17, <2>1, <2>2, <2>3, ObjectReplaced DEF Lookup, ObjectType
<1>18. ASSUME PollRecords PROVE ObjectType'
  BY <1>18 DEF PollRecords, ObjectType
<1>19. ASSUME TakeMessage PROVE ObjectType'
  BY <1>19 DEF TakeMessage, ObjectType
<1>20. ASSUME Consumed PROVE ObjectType'
  BY <1>20 DEF Consumed, ObjectType
<1>21. ASSUME GoOn PROVE ObjectType'
  BY <1>21 DEF GoOn, ObjectType
<1>22. ASSUME UNCHANGED vars PROVE ObjectType'
  BY <1>22 DEF vars, ObjectType
<1>23. QED
  BY <1>1, <1>2, <1>3, <1>4, <1>5, <1>6, <1>7, <1>8, <1>9, <1>10, <1>11, <1>12,
     <1>13, <1>14, <1>15, <1>16, <1>17, <1>18, <1>19, <1>20, <1>21, <1>22 DEF Next, Working

\* The message whose result is taken is one of the call's, and has none yet.
LEMMA ResultToTake ==
    ASSUME CallType, ResultInv, TakeResult
    PROVE  /\ call.order[call.next] \in 1..Len(call.results) /\ call.order[call.next] \in Msgs
           /\ call.msgs[call.order[call.next]] = "valid" /\ call.results[call.order[call.next]] = "none"
           /\ call.outcome[call.order[call.next]] \in Codes \ {"none"}
           /\ result(call.order[call.next], call.outcome[call.order[call.next]])
           /\ call.next \in 1..Len(call.order)
<1>1. /\ Len(call.order) \in Nat /\ call.next \in 1..Len(call.order) /\ ~(call.next < call.next)
      /\ result(call.order[call.next], call.outcome[call.order[call.next]])
  BY LenProperties DEF TakeResult, Match, ResultInv, CallType, Calls
<1>2. call.order[call.next] \in Msgs /\ call.msgs[call.order[call.next]] = "valid"
  BY <1>1 DEF TakeResult, ResultInv, IsIndex
<1>3. call.results[call.order[call.next]] = "none"
  BY <1>1 DEF TakeResult, ResultInv
<1>4. call.outcome[call.order[call.next]] \in Codes \ {"none"}
  <2>1. call.outcome \in Seq(Codes) /\ Len(call.outcome) = Len(call.msgs)
    BY DEF TakeResult, ResultInv, CallType, Calls
  <2>2. QED
    BY <1>2, <2>1, ElementOfSeq DEF TakeResult, ResultInv, Msgs
<1>5. QED
  BY <1>1, <1>2, <1>3, <1>4 DEF ResultInv, Msgs

\* And the call.
LEMMA CallTypeStep ==
    ASSUME ObjectType, CallType, PlaceInv, ResultInv
    PROVE  [Next]_vars => CallType'
<1>1. ASSUME Begin PROVE CallType'
  BY <1>1 DEF Begin, CallType
<1>2. ASSUME EndContext PROVE CallType'
  BY <1>2 DEF EndContext, CallType
<1>3. ASSUME Return PROVE CallType'
  BY <1>3 DEF Return, CallType
<1>4. ASSUME CloseVU PROVE CallType'
  BY <1>4, IdleCall DEF CloseVU, CallType
<1>5. ASSUME CloseNext PROVE CallType'
  <2>1. CASE call' = call
    BY <2>1 DEF CallType
  <2>2. CASE call' = [call EXCEPT !.next = @ + 1]
    <3>1. call' = [obj |-> call.obj, msgs |-> call.msgs, results |-> call.results, next |-> call.next + 1,
                  index |-> call.index, order |-> call.order, outcome |-> call.outcome,
                  left |-> call.left, failure |-> call.failure, live |-> call.live]
      BY <2>2 DEF CallType, Calls
    <3>2. QED
      BY <1>5, <3>1 DEF CloseNext, CallType, Calls
  <2>3. QED
    BY <1>5, <2>1, <2>2 DEF CloseNext
<1>6. ASSUME NEW r \in Roles, Construct(r) PROVE CallType'
  BY <1>6 DEF Construct, CallType
<1>7. ASSUME NEW i \in DOMAIN objs, ScriptCloses(i) PROVE CallType'
  BY <1>7 DEF ScriptCloses, CallType
<1>8. ASSUME NEW i \in 1..MaxObjects, NEW msgs \in Batches, Send(i, msgs) PROVE CallType'
  <2>1. call' \in Calls
    BY <1>8, SendEffect
  <2>2. QED
    BY <2>1 DEF CallType
<1>9. ASSUME NEW i \in 1..MaxObjects, Consume(i) PROVE CallType'
  <2>1. call' = [obj |-> i, msgs |-> <<>>, results |-> <<>>, next |-> 1, index |-> <<>>,
                 order |-> <<>>, outcome |-> <<>>, left |-> 0, failure |-> FALSE, live |-> FALSE]
    BY <1>9 DEF Consume, Idle
  <2>2. QED
    BY <2>1, EmptySeq DEF CallType, Calls
<1>10. ASSUME NEW i \in 1..MaxObjects, NEW r \in Roles, CallOutside(r, i) PROVE CallType'
  BY <1>10 DEF CallOutside, CallType
<1>11. ASSUME Build PROVE CallType'
  <2>1. call.next \in 1..Len(call.results)
    BY <1>11, LenProperties DEF Build, ResultInv, CallType, Calls
  <2>2. CASE call.msgs[call.next] = "invalid"
    BY <1>11, <2>1, <2>2, ResultEffect DEF Build, CallType, Codes
  <2>3. CASE call.msgs[call.next] # "invalid"
    BY <1>11, <2>3, IndexEffect DEF Build, CallType
  <2>4. QED
    BY <2>2, <2>3
<1>12. ASSUME NothingToSend PROVE CallType'
  BY <1>12 DEF NothingToSend, CallType
<1>13. ASSUME Built PROVE CallType'
  <2>1. CASE UNCHANGED call
    BY <2>1 DEF CallType
  <2>2. CASE ~UNCHANGED call
    BY <1>13, <2>2, UnsentEffect DEF Built, CallType
  <2>3. QED
    BY <2>1, <2>2
<1>14. ASSUME ProduceSync PROVE CallType'
  BY <1>14, SyncEffect DEF ProduceSync, CallType
<1>15. ASSUME TakeResult PROVE CallType'
  BY <1>15, ResultToTake, ResultEffect DEF TakeResult, CallType
<1>16. ASSUME Sent PROVE CallType'
  BY <1>16 DEF Sent, CallType
<1>17. ASSUME Lookup PROVE CallType'
  <2>1. CASE call' = call
    BY <2>1 DEF CallType
  <2>2. CASE call' = [call EXCEPT !.failure = TRUE]
    <3>1. call' = [obj |-> call.obj, msgs |-> call.msgs, results |-> call.results, next |-> call.next,
                  index |-> call.index, order |-> call.order, outcome |-> call.outcome,
                  left |-> call.left, failure |-> TRUE, live |-> call.live]
      BY <2>2 DEF CallType, Calls
    <3>2. QED
      BY <1>17, <3>1 DEF Lookup, CallType, Calls
  <2>3. QED
    BY <1>17, <2>1, <2>2 DEF Lookup
<1>18. ASSUME PollRecords PROVE CallType'
  <2>1. PICK n \in 0..MaxBatch, f \in BOOLEAN :
          call' = [call EXCEPT !.left = n, !.failure = f, !.live = ~ended]
    BY <1>18 DEF PollRecords
  <2>2. call' = [obj |-> call.obj, msgs |-> call.msgs, results |-> call.results, next |-> call.next,
                 index |-> call.index, order |-> call.order, outcome |-> call.outcome,
                 left |-> n, failure |-> f, live |-> ~ended]
    BY <2>1 DEF CallType, Calls
  <2>3. n \in Nat /\ (~ended) \in BOOLEAN
    BY <2>1
  <2>4. QED
    BY <2>2, <2>3 DEF CallType, Calls
<1>19. ASSUME TakeMessage PROVE CallType'
  <2>1. call' = [obj |-> call.obj, msgs |-> call.msgs, results |-> call.results, next |-> call.next,
                 index |-> call.index, order |-> call.order, outcome |-> call.outcome,
                 left |-> call.left - 1, failure |-> call.failure, live |-> call.live]
    BY <1>19 DEF TakeMessage, CallType, Calls
  <2>2. call.left - 1 \in Nat
    BY <1>19 DEF TakeMessage, CallType, Calls
  <2>3. QED
    BY <2>1, <2>2 DEF CallType, Calls
<1>20. ASSUME Consumed PROVE CallType'
  BY <1>20 DEF Consumed, CallType
<1>21. ASSUME GoOn PROVE CallType'
  BY <1>21, IdleCall DEF GoOn, CallType
<1>22. ASSUME UNCHANGED vars PROVE CallType'
  BY <1>22 DEF vars, CallType
<1>23. QED
  BY <1>1, <1>2, <1>3, <1>4, <1>5, <1>6, <1>7, <1>8, <1>9, <1>10, <1>11, <1>12,
     <1>13, <1>14, <1>15, <1>16, <1>17, <1>18, <1>19, <1>20, <1>21, <1>22 DEF Next, Working

\* What a result adds to the families.
LEMMA RecordsEffect ==
    ASSUME RecordType, NEW code
    PROVE  /\ Records(code) \in [durations : Nat, produced : Nat, produceFailed : Nat, produces : Nat,
                                 consumed : Nat, consumeFailed : Nat, consumes : Nat]
           /\ Records(code).produces = rec.produces + 1
           /\ Records(code).durations = rec.durations + (IF code \in {"acked", "failed"} THEN 1 ELSE 0)
           /\ Records(code).produced = rec.produced + (IF code = "acked" THEN 1 ELSE 0)
           /\ Records(code).produceFailed = rec.produceFailed + (IF code = "acked" THEN 0 ELSE 1)
           /\ Records(code).consumes = rec.consumes /\ Records(code).consumeFailed = rec.consumeFailed
<1> DEFINE D == IF code \in {"acked", "failed"} THEN rec.durations + 1 ELSE rec.durations
           P == IF code = "acked" THEN rec.produced + 1 ELSE rec.produced
           F == IF code # "acked" THEN rec.produceFailed + 1 ELSE rec.produceFailed
<1>1. D \in Nat /\ P \in Nat /\ F \in Nat /\ rec.produces + 1 \in Nat
  BY DEF RecordType
<1>2. /\ D = rec.durations + (IF code \in {"acked", "failed"} THEN 1 ELSE 0)
      /\ P = rec.produced + (IF code = "acked" THEN 1 ELSE 0)
      /\ F = rec.produceFailed + (IF code = "acked" THEN 0 ELSE 1)
  BY DEF RecordType
<1>3. Records(code) = [rec EXCEPT !.durations = D, !.produced = P, !.produceFailed = F,
                                  !.produces = rec.produces + 1]
  BY DEF Records, RecordType
<1> HIDE DEF D, P, F
<1>4. Records(code) = [durations |-> D, produced |-> P, produceFailed |-> F, produces |-> rec.produces + 1,
                       consumed |-> rec.consumed, consumeFailed |-> rec.consumeFailed, consumes |-> rec.consumes]
  BY <1>3 DEF RecordType
<1>5. Records(code) \in [durations : Nat, produced : Nat, produceFailed : Nat, produces : Nat,
                         consumed : Nat, consumeFailed : Nat, consumes : Nat]
  BY <1>1, <1>4 DEF RecordType
<1>6. QED
  BY <1>2, <1>4, <1>5

\* Sets of a call's messages are finite.
LEMMA CountedMessages ==
    ASSUME CallType, NEW S \in SUBSET (1..Len(call.msgs))
    PROVE  IsFiniteSet(S) /\ Cardinality(S) \in Nat
<1>1. Len(call.msgs) \in Nat
  BY LenProperties DEF CallType, Calls
<1>2. IsFiniteSet(1..Len(call.msgs))
  BY <1>1, FS_Interval
<1>3. QED
  BY <1>2, FS_Subset, FS_CardinalityType

\* And the counters.
LEMMA RecordTypeStep ==
    ASSUME CallType, RecordType, ResultInv
    PROVE  [Next]_vars => RecordType'
<1>1. ASSUME Begin PROVE RecordType'
  BY <1>1 DEF Begin, RecordType
<1>2. ASSUME EndContext PROVE RecordType'
  BY <1>2 DEF EndContext, RecordType
<1>3. ASSUME Return PROVE RecordType'
  BY <1>3 DEF Return, RecordType
<1>4. ASSUME CloseVU PROVE RecordType'
  BY <1>4 DEF CloseVU, RecordType
<1>5. ASSUME CloseNext PROVE RecordType'
  BY <1>5 DEF CloseNext, RecordType
<1>6. ASSUME NEW r \in Roles, Construct(r) PROVE RecordType'
  BY <1>6 DEF Construct, RecordType
<1>7. ASSUME NEW i \in DOMAIN objs, ScriptCloses(i) PROVE RecordType'
  BY <1>7 DEF ScriptCloses, RecordType
<1>8. ASSUME NEW i \in 1..MaxObjects, NEW msgs \in Batches, Send(i, msgs) PROVE RecordType'
  <2>1. Len(msgs) \in Nat
    BY <1>8, SendEffect
  <2>2. seen' = [seen EXCEPT !.given = @ + Len(msgs)] /\ UNCHANGED rec
    BY <1>8 DEF Send
  <2>3. QED
    BY <2>1, <2>2, SMTT(30) DEF RecordType
<1>9. ASSUME NEW i \in 1..MaxObjects, Consume(i) PROVE RecordType'
  BY <1>9 DEF Consume, RecordType
<1>10. ASSUME NEW i \in 1..MaxObjects, NEW r \in Roles, CallOutside(r, i) PROVE RecordType'
  BY <1>10 DEF CallOutside, RecordType
<1>11. ASSUME Build PROVE RecordType'
  <2>1. rec' = rec \/ rec' = Records("invalid")
    BY <1>11 DEF Build, result
  <2>2. QED
    BY <1>11, <2>1, RecordsEffect DEF Build, RecordType
<1>12. ASSUME NothingToSend PROVE RecordType'
  BY <1>12 DEF NothingToSend, RecordType
<1>13. ASSUME Built PROVE RecordType'
  <2>1. Len(call.index) \in Nat
    BY <1>13, LenProperties DEF Built, RecordType, CallType, Calls
  <2>2. QED
    BY <1>13, <2>1, SMTT(30) DEF Built, RecordType
<1>14. ASSUME ProduceSync PROVE RecordType'
  <2>1. PICK n \in Nat : seen' = [seen EXCEPT !.acked = @ + n]
    <3>1. PICK out \in [DOMAIN call.msgs -> {"acked", "failed"}] :
            seen' = [seen EXCEPT !.acked = @ + Cardinality({m \in 1..Len(call.msgs) : out[m] = "acked"})]
      BY <1>14, SyncEffect
    <3>2. Cardinality({m \in 1..Len(call.msgs) : out[m] = "acked"}) \in Nat
      BY CountedMessages
    <3>3. QED
      BY <3>1, <3>2
  <2>2. QED
    BY <1>14, <2>1 DEF ProduceSync, RecordType
<1>15. ASSUME TakeResult PROVE RecordType'
  <2>1. PICK k, code : result(k, code)
    BY <1>15 DEF TakeResult
  <2>2. seen' = seen /\ (rec' = rec \/ rec' = Records(code))
    BY <1>15, <2>1 DEF TakeResult, result
  <2>3. Records(code) \in [durations : Nat, produced : Nat, produceFailed : Nat, produces : Nat,
                           consumed : Nat, consumeFailed : Nat, consumes : Nat]
    BY RecordsEffect
  <2>4. QED
    BY <2>2, <2>3, Zenon DEF RecordType
<1>16. ASSUME Sent PROVE RecordType'
  BY <1>16 DEF Sent, RecordType
<1>17. ASSUME Lookup PROVE RecordType'
  BY <1>17 DEF Lookup, RecordType
<1>18. ASSUME PollRecords PROVE RecordType'
  BY <1>18 DEF PollRecords, RecordType
<1>19. ASSUME TakeMessage PROVE RecordType'
  BY <1>19 DEF TakeMessage, RecordType
<1>20. ASSUME Consumed PROVE RecordType'
  <2>1. CASE ended
    BY <1>20, <2>1 DEF Consumed, RecordType
  <2>2. CASE ~ended
    <3>1. rec' = [durations |-> rec.durations, produced |-> rec.produced, produceFailed |-> rec.produceFailed,
                  produces |-> rec.produces, consumed |-> rec.consumed,
                  consumeFailed |-> IF call.failure THEN rec.consumeFailed + 1 ELSE rec.consumeFailed,
                  consumes |-> rec.consumes + 1]
      BY <1>20, <2>2 DEF Consumed, RecordType
    <3>2. QED
      BY <1>20, <3>1 DEF Consumed, RecordType
  <2>3. QED
    BY <2>1, <2>2
<1>21. ASSUME GoOn PROVE RecordType'
  BY <1>21 DEF GoOn, RecordType
<1>22. ASSUME UNCHANGED vars PROVE RecordType'
  BY <1>22 DEF vars, RecordType
<1>23. QED
  BY <1>1, <1>2, <1>3, <1>4, <1>5, <1>6, <1>7, <1>8, <1>9, <1>10, <1>11, <1>12,
     <1>13, <1>14, <1>15, <1>16, <1>17, <1>18, <1>19, <1>20, <1>21, <1>22 DEF Next, Working

-----------------------------------------------------------------------------
(* Objects and clients *)

\* What building a message leaves alone.
LEMMA BuildKeeps ==
    ASSUME CallType, ResultInv, Build
    PROVE  /\ call'.obj = call.obj /\ call'.msgs = call.msgs /\ call'.outcome = call.outcome
           /\ call'.next = call.next + 1
           /\ call.next \in 1..Len(call.msgs) /\ call.next \in 1..Len(call.results)
<1>1. call.next \in 1..Len(call.results) /\ call.next \in 1..Len(call.msgs)
  BY LenProperties DEF Build, ResultInv, CallType, Calls
<1>2. CASE call.msgs[call.next] = "invalid"
  BY <1>1, <1>2, ResultEffect DEF Build, CallType, Codes
<1>3. CASE call.msgs[call.next] # "invalid"
  BY <1>1, <1>3, IndexEffect DEF Build, CallType
<1>4. QED
  BY <1>2, <1>3

\* What a change of the objects must keep for the calls to find theirs.
LEMMA PlacesKept ==
    ASSUME ObjectType, PlaceInv, Len(objs') \in Nat, Len(objs) <= Len(objs'), UNCHANGED oneOff,
           call'.obj = call.obj, pc' \in Producing \union Consuming => pc \in Producing \union Consuming,
           pc' \in Between \union Consuming => call'.msgs = <<>> /\ call'.results = <<>> /\ call'.outcome = <<>>
    PROVE  PlaceInv'
<1>1. Len(objs) \in Nat
  BY LenProperties DEF ObjectType
<1>2. QED
  BY <1>1 DEF PlaceInv

\* A call has its object, and between calls there is no message.
LEMMA PlaceStep ==
    ASSUME ObjectType, ObjectType', CallType, PlaceInv, ResultInv
    PROVE  [Next]_vars => PlaceInv'
<1>1. ASSUME Begin PROVE PlaceInv'
  BY <1>1 DEF Begin, PlaceInv, Between, Producing, Consuming
<1>2. ASSUME EndContext PROVE PlaceInv'
  BY <1>2 DEF EndContext, PlaceInv, Between, Producing, Consuming
<1>3. ASSUME Return PROVE PlaceInv'
  BY <1>3 DEF Return, PlaceInv, Between, Producing, Consuming
<1>4. ASSUME CloseVU PROVE PlaceInv'
  BY <1>4 DEF CloseVU, Idle, PlaceInv, Between, Producing, Consuming
<1>5. ASSUME CloseNext PROVE PlaceInv'
  <2>1. Len(objs') = Len(objs) /\ Len(objs) \in Nat /\ UNCHANGED oneOff
    <3>1. objs' = objs \/ objs' = [objs EXCEPT ![call.next] = closed(objs[call.next])]
      BY <1>5 DEF CloseNext
    <3>2. objs \in Seq(Objects) /\ objs' \in Seq(Objects)
      BY DEF ObjectType
    <3>3. DOMAIN objs' = DOMAIN objs
      BY <3>1
    <3>4. QED
      BY <1>5, <3>2, <3>3, LenProperties DEF CloseNext
  <2>2. QED
    BY <1>5, <2>1, PlacesKept DEF CloseNext, PlaceInv, CallType, Calls, Between, Producing, Consuming
<1>6. ASSUME NEW r \in Roles, Construct(r) PROVE PlaceInv'
  <2>1. objs' = Append(objs, newObject(r, TRUE)) /\ UNCHANGED <<pc, call, oneOff>>
    BY <1>6 DEF Construct
  <2>2. Len(objs') = Len(objs) + 1 /\ Len(objs) \in Nat
    BY <2>1, ObjectAdded
  <2>3. QED
    BY <2>1, <2>2, PlacesKept DEF PlaceInv
<1>7. ASSUME NEW i \in DOMAIN objs, ScriptCloses(i) PROVE PlaceInv'
  <2>1. Len(objs') = Len(objs) /\ Len(objs) \in Nat /\ UNCHANGED oneOff
    <3>1. objs' = objs \/ objs' = [objs EXCEPT ![i] = closed(objs[i])]
      BY <1>7 DEF ScriptCloses
    <3>2. objs \in Seq(Objects) /\ objs' \in Seq(Objects)
      BY DEF ObjectType
    <3>3. DOMAIN objs' = DOMAIN objs
      BY <3>1
    <3>4. QED
      BY <1>7, <3>2, <3>3, LenProperties DEF ScriptCloses
  <2>2. QED
    BY <1>7, <2>1, PlacesKept DEF ScriptCloses, PlaceInv, CallType, Calls, Between, Producing, Consuming
<1>8. ASSUME NEW i \in 1..MaxObjects, NEW msgs \in Batches, Send(i, msgs) PROVE PlaceInv'
  <2>1. /\ i \in 1..Len(objs')
        /\ \A q \in Roles, k \in Keys : oneOff'[q][k] \in 0..Len(objs')
    BY <1>8, ObjectThere DEF Send, Roles
  <2>2. pc' = "building"
    BY <1>8 DEF Send
  <2>3. call'.obj = i
    BY <1>8, SendEffect
  <2>4. QED
    BY <2>1, <2>2, <2>3 DEF PlaceInv, Between, Producing, Consuming
<1>9. ASSUME NEW i \in 1..MaxObjects, Consume(i) PROVE PlaceInv'
  <2>1. /\ i \in 1..Len(objs')
        /\ \A q \in Roles, k \in Keys : oneOff'[q][k] \in 0..Len(objs')
    BY <1>9, ObjectThere DEF Consume, Roles
  <2>2. pc' = "lookup"
    BY <1>9 DEF Consume
  <2>3. call'.obj = i /\ call'.msgs = <<>> /\ call'.results = <<>> /\ call'.outcome = <<>>
    BY <1>9 DEF Consume, Idle
  <2>4. QED
    BY <2>1, <2>2, <2>3 DEF PlaceInv, Between, Producing, Consuming
<1>10. ASSUME NEW i \in 1..MaxObjects, NEW r \in Roles, CallOutside(r, i) PROVE PlaceInv'
  <2>1. /\ \A q \in Roles, k \in Keys : oneOff'[q][k] \in 0..Len(objs')
        /\ pc = "top" /\ UNCHANGED <<pc, call>>
    BY <1>10, ObjectThere DEF CallOutside
  <2>2. QED
    BY <2>1 DEF PlaceInv, Between, Producing, Consuming
<1>11. ASSUME Build PROVE PlaceInv'
  BY <1>11, BuildKeeps DEF Build, PlaceInv, Between, Producing, Consuming
<1>12. ASSUME NothingToSend PROVE PlaceInv'
  BY <1>12 DEF NothingToSend, PlaceInv, Between, Producing, Consuming
<1>13. ASSUME Built PROVE PlaceInv'
  <2>1. Len(objs') = Len(objs) /\ Len(objs) \in Nat /\ UNCHANGED oneOff
    <3>1. objs' = objs \/ objs' = [objs EXCEPT ![call.obj] = clientFor(objs[call.obj])]
      BY <1>13 DEF Built
    <3>2. objs \in Seq(Objects) /\ objs' \in Seq(Objects)
      BY DEF ObjectType
    <3>3. DOMAIN objs' = DOMAIN objs
      BY <3>1
    <3>4. QED
      BY <1>13, <3>2, <3>3, LenProperties DEF Built
  <2>2. QED
    BY <1>13, <2>1, UnsentEffect, PlacesKept DEF Built, PlaceInv, CallType, Calls, Between, Producing, Consuming
<1>14. ASSUME ProduceSync PROVE PlaceInv'
  BY <1>14, SyncEffect DEF ProduceSync, PlaceInv, Between, Producing, Consuming
<1>15. ASSUME TakeResult PROVE PlaceInv'
  BY <1>15, ResultToTake, ResultEffect DEF TakeResult, PlaceInv, Between, Producing, Consuming
<1>16. ASSUME Sent PROVE PlaceInv'
  BY <1>16 DEF Sent, PlaceInv, Between, Producing, Consuming
<1>17. ASSUME Lookup PROVE PlaceInv'
  <2>1. Len(objs') = Len(objs) /\ Len(objs) \in Nat /\ UNCHANGED oneOff
    <3>1. objs' = objs \/ objs' = [objs EXCEPT ![call.obj] = clientFor(objs[call.obj])]
      BY <1>17 DEF Lookup
    <3>2. objs \in Seq(Objects) /\ objs' \in Seq(Objects)
      BY DEF ObjectType
    <3>3. DOMAIN objs' = DOMAIN objs
      BY <3>1
    <3>4. QED
      BY <1>17, <3>2, <3>3, LenProperties DEF Lookup
  <2>2. QED
    BY <1>17, <2>1, PlacesKept DEF Lookup, PlaceInv, CallType, Calls, Between, Producing, Consuming
<1>18. ASSUME PollRecords PROVE PlaceInv'
  BY <1>18 DEF PollRecords, CallType, Calls, PlaceInv, Between, Producing, Consuming
<1>19. ASSUME TakeMessage PROVE PlaceInv'
  BY <1>19 DEF TakeMessage, CallType, Calls, PlaceInv, Between, Producing, Consuming
<1>20. ASSUME Consumed PROVE PlaceInv'
  BY <1>20 DEF Consumed, PlaceInv, Between, Producing, Consuming
<1>21. ASSUME GoOn PROVE PlaceInv'
  BY <1>21 DEF GoOn, Idle, PlaceInv, Between, Producing, Consuming
<1>22. ASSUME UNCHANGED vars PROVE PlaceInv'
  BY <1>22 DEF vars, PlaceInv, Between, Producing, Consuming
<1>23. QED
  BY <1>1, <1>2, <1>3, <1>4, <1>5, <1>6, <1>7, <1>8, <1>9, <1>10, <1>11, <1>12,
     <1>13, <1>14, <1>15, <1>16, <1>17, <1>18, <1>19, <1>20, <1>21, <1>22 DEF Next, Working

\* A closed object stays closed, and the closers reach every object.
LEMMA ClientStep ==
    ASSUME ObjectType, CallType, PlaceInv, ClientInv
    PROVE  [Next]_vars => ClientInv'
<1>1. ASSUME Begin PROVE ClientInv'
  BY <1>1 DEF Begin, ClientInv
<1>2. ASSUME EndContext PROVE ClientInv'
  BY <1>2 DEF EndContext, ClientInv
<1>3. ASSUME Return PROVE ClientInv'
  BY <1>3 DEF Return, ClientInv
<1>4. ASSUME CloseVU PROVE ClientInv'
  BY <1>4 DEF CloseVU, Idle, ClientInv
<1>5. ASSUME CloseNext PROVE ClientInv'
  <2>1. CASE call.next > Len(objs)
    <3>1. Len(objs) \in Nat /\ pc = "closing" /\ pc' = "closed" /\ UNCHANGED objs
      BY <1>5, <2>1, LenProperties DEF CloseNext, ObjectType
    <3>2. QED
      BY <2>1, <3>1 DEF ClientInv
  <2>2. CASE ~(call.next > Len(objs))
    <3>1. call.next \in 1..Len(objs) /\ objs[call.next] \in Objects /\ Len(objs) \in Nat /\ pc = "closing"
      BY <1>5, <2>2, ElementOfSeq, LenProperties DEF CloseNext, ClientInv, ObjectType
    <3>2. /\ objs' = [objs EXCEPT ![call.next] = closed(objs[call.next])] /\ pc' = pc
          /\ call' = [call EXCEPT !.next = @ + 1]
      BY <1>5, <2>2 DEF CloseNext
    <3>3. /\ closed(objs[call.next]) \in Objects /\ closed(objs[call.next]).closed
          /\ closed(objs[call.next]).kgo # "open"
      BY <3>1, ObjectChanges DEF ClientInv
    <3>4. /\ Len(objs') = Len(objs)
          /\ \A j \in 1..Len(objs) : objs'[j] = IF j = call.next THEN closed(objs[call.next]) ELSE objs[j]
      BY <3>1, <3>2, <3>3, ObjectReplaced
    <3>5. call'.next = call.next + 1
      BY <3>2 DEF CallType, Calls
    <3>6. QED
      BY <3>1, <3>2, <3>3, <3>4, <3>5 DEF ClientInv
  <2>3. QED
    BY <2>1, <2>2
<1>6. ASSUME NEW r \in Roles, Construct(r) PROVE ClientInv'
  <2>1. objs' = objs \/ objs' = Append(objs, newObject(r, TRUE))
    BY <1>6 DEF Construct, Roles
  <2>2. pc' \notin {"closing", "closed"}
    BY <1>6 DEF Construct
  <2>3. CASE objs' = objs
    BY <2>2, <2>3 DEF ClientInv
  <2>4. CASE objs' = Append(objs, newObject(r, TRUE))
    <3>1. /\ Len(objs) \in Nat /\ Len(objs') = Len(objs) + 1
          /\ \A j \in 1..Len(objs) : objs'[j] = objs[j]
          /\ ~objs'[Len(objs) + 1].closed
      BY <2>4, ObjectAdded DEF Roles
    <3>2. \A j \in 1..Len(objs') : j \in 1..Len(objs) \/ j = Len(objs) + 1
      BY <3>1
    <3>3. QED
      BY <2>2, <3>1, <3>2 DEF ClientInv
  <2>5. QED
    BY <2>1, <2>3, <2>4
<1>7. ASSUME NEW i \in DOMAIN objs, ScriptCloses(i) PROVE ClientInv'
  <2>1. i \in 1..Len(objs) /\ objs[i] \in Objects /\ Len(objs) \in Nat
    BY <1>7, ElementOfSeq, LenProperties DEF ScriptCloses, ObjectType, PlaceInv, CallType, Calls, Between, Producing, Consuming
  <2>2. objs' = objs \/ objs' = [objs EXCEPT ![i] = closed(objs[i])]
    BY <1>7 DEF ScriptCloses
  <2>3. /\ closed(objs[i]) \in Objects
        /\ closed(objs[i]).closed => closed(objs[i]).kgo # "open"
    BY <2>1, ObjectChanges DEF ClientInv
  <2>4. pc' \notin {"closing", "closed"}
    BY <1>7 DEF ScriptCloses
  <2>5. CASE objs' = objs
    BY <2>4, <2>5 DEF ClientInv
  <2>6. CASE objs' = [objs EXCEPT ![i] = closed(objs[i])]
    <3>1. /\ Len(objs') = Len(objs)
          /\ \A j \in 1..Len(objs) : objs'[j] = IF j = i THEN closed(objs[i]) ELSE objs[j]
      BY <2>1, <2>3, <2>6, ObjectReplaced
    <3>2. QED
      BY <2>3, <2>4, <3>1 DEF ClientInv
  <2>7. QED
    BY <2>2, <2>5, <2>6
<1>8. ASSUME NEW i \in 1..MaxObjects, NEW msgs \in Batches, Send(i, msgs) PROVE ClientInv'
  <2>1. objs' = objs \/ objs' = Append(objs, newObject("producer", FALSE))
    BY <1>8, ObjectThere DEF Send, Roles
  <2>2. pc' \notin {"closing", "closed"}
    BY <1>8 DEF Send
  <2>3. CASE objs' = objs
    BY <2>2, <2>3 DEF ClientInv
  <2>4. CASE objs' = Append(objs, newObject("producer", FALSE))
    <3>1. /\ Len(objs) \in Nat /\ Len(objs') = Len(objs) + 1
          /\ \A j \in 1..Len(objs) : objs'[j] = objs[j]
          /\ ~objs'[Len(objs) + 1].closed
      BY <2>4, ObjectAdded DEF Roles
    <3>2. \A j \in 1..Len(objs') : j \in 1..Len(objs) \/ j = Len(objs) + 1
      BY <3>1
    <3>3. QED
      BY <2>2, <3>1, <3>2 DEF ClientInv
  <2>5. QED
    BY <2>1, <2>3, <2>4
<1>9. ASSUME NEW i \in 1..MaxObjects, Consume(i) PROVE ClientInv'
  <2>1. objs' = objs \/ objs' = Append(objs, newObject("consumer", FALSE))
    BY <1>9, ObjectThere DEF Consume, Roles
  <2>2. pc' \notin {"closing", "closed"}
    BY <1>9 DEF Consume
  <2>3. CASE objs' = objs
    BY <2>2, <2>3 DEF ClientInv
  <2>4. CASE objs' = Append(objs, newObject("consumer", FALSE))
    <3>1. /\ Len(objs) \in Nat /\ Len(objs') = Len(objs) + 1
          /\ \A j \in 1..Len(objs) : objs'[j] = objs[j]
          /\ ~objs'[Len(objs) + 1].closed
      BY <2>4, ObjectAdded DEF Roles
    <3>2. \A j \in 1..Len(objs') : j \in 1..Len(objs) \/ j = Len(objs) + 1
      BY <3>1
    <3>3. QED
      BY <2>2, <3>1, <3>2 DEF ClientInv
  <2>5. QED
    BY <2>1, <2>3, <2>4
<1>10. ASSUME NEW i \in 1..MaxObjects, NEW r \in Roles, CallOutside(r, i) PROVE ClientInv'
  <2>1. objs' = objs \/ objs' = Append(objs, newObject(r, FALSE))
    BY <1>10, ObjectThere DEF CallOutside, Roles
  <2>2. pc' \notin {"closing", "closed"}
    BY <1>10 DEF CallOutside
  <2>3. CASE objs' = objs
    BY <2>2, <2>3 DEF ClientInv
  <2>4. CASE objs' = Append(objs, newObject(r, FALSE))
    <3>1. /\ Len(objs) \in Nat /\ Len(objs') = Len(objs) + 1
          /\ \A j \in 1..Len(objs) : objs'[j] = objs[j]
          /\ ~objs'[Len(objs) + 1].closed
      BY <2>4, ObjectAdded DEF Roles
    <3>2. \A j \in 1..Len(objs') : j \in 1..Len(objs) \/ j = Len(objs) + 1
      BY <3>1
    <3>3. QED
      BY <2>2, <3>1, <3>2 DEF ClientInv
  <2>5. QED
    BY <2>1, <2>3, <2>4
<1>11. ASSUME Build PROVE ClientInv'
  BY <1>11 DEF Build, ClientInv
<1>12. ASSUME NothingToSend PROVE ClientInv'
  BY <1>12 DEF NothingToSend, ClientInv
<1>13. ASSUME Built PROVE ClientInv'
  <2>1. call.obj \in 1..Len(objs) /\ objs[call.obj] \in Objects /\ Len(objs) \in Nat
    BY <1>13, ElementOfSeq, LenProperties DEF Built, ObjectType, PlaceInv, CallType, Calls, Between, Producing, Consuming
  <2>2. objs' = objs \/ objs' = [objs EXCEPT ![call.obj] = clientFor(objs[call.obj])]
    BY <1>13 DEF Built
  <2>3. /\ clientFor(objs[call.obj]) \in Objects
        /\ clientFor(objs[call.obj]).closed => clientFor(objs[call.obj]).kgo # "open"
    BY <2>1, ObjectChanges DEF ClientInv
  <2>4. pc' \notin {"closing", "closed"}
    BY <1>13 DEF Built
  <2>5. CASE objs' = objs
    BY <2>4, <2>5 DEF ClientInv
  <2>6. CASE objs' = [objs EXCEPT ![call.obj] = clientFor(objs[call.obj])]
    <3>1. /\ Len(objs') = Len(objs)
          /\ \A j \in 1..Len(objs) : objs'[j] = IF j = call.obj THEN clientFor(objs[call.obj]) ELSE objs[j]
      BY <2>1, <2>3, <2>6, ObjectReplaced
    <3>2. QED
      BY <2>3, <2>4, <3>1 DEF ClientInv
  <2>7. QED
    BY <2>2, <2>5, <2>6
<1>14. ASSUME ProduceSync PROVE ClientInv'
  BY <1>14 DEF ProduceSync, ClientInv
<1>15. ASSUME TakeResult PROVE ClientInv'
  BY <1>15 DEF TakeResult, ClientInv
<1>16. ASSUME Sent PROVE ClientInv'
  BY <1>16 DEF Sent, ClientInv
<1>17. ASSUME Lookup PROVE ClientInv'
  <2>1. call.obj \in 1..Len(objs) /\ objs[call.obj] \in Objects /\ Len(objs) \in Nat
    BY <1>17, ElementOfSeq, LenProperties DEF Lookup, ObjectType, PlaceInv, CallType, Calls, Between, Producing, Consuming
  <2>2. objs' = objs \/ objs' = [objs EXCEPT ![call.obj] = clientFor(objs[call.obj])]
    BY <1>17 DEF Lookup
  <2>3. /\ clientFor(objs[call.obj]) \in Objects
        /\ clientFor(objs[call.obj]).closed => clientFor(objs[call.obj]).kgo # "open"
    BY <2>1, ObjectChanges DEF ClientInv
  <2>4. pc' \notin {"closing", "closed"}
    BY <1>17 DEF Lookup
  <2>5. CASE objs' = objs
    BY <2>4, <2>5 DEF ClientInv
  <2>6. CASE objs' = [objs EXCEPT ![call.obj] = clientFor(objs[call.obj])]
    <3>1. /\ Len(objs') = Len(objs)
          /\ \A j \in 1..Len(objs) : objs'[j] = IF j = call.obj THEN clientFor(objs[call.obj]) ELSE objs[j]
      BY <2>1, <2>3, <2>6, ObjectReplaced
    <3>2. QED
      BY <2>3, <2>4, <3>1 DEF ClientInv
  <2>7. QED
    BY <2>2, <2>5, <2>6
<1>18. ASSUME PollRecords PROVE ClientInv'
  BY <1>18 DEF PollRecords, ClientInv
<1>19. ASSUME TakeMessage PROVE ClientInv'
  BY <1>19 DEF TakeMessage, ClientInv
<1>20. ASSUME Consumed PROVE ClientInv'
  BY <1>20 DEF Consumed, ClientInv
<1>21. ASSUME GoOn PROVE ClientInv'
  BY <1>21 DEF GoOn, ClientInv
<1>22. ASSUME UNCHANGED vars PROVE ClientInv'
  BY <1>22 DEF vars, ClientInv
<1>23. QED
  BY <1>1, <1>2, <1>3, <1>4, <1>5, <1>6, <1>7, <1>8, <1>9, <1>10, <1>11, <1>12,
     <1>13, <1>14, <1>15, <1>16, <1>17, <1>18, <1>19, <1>20, <1>21, <1>22 DEF Next, Working

-----------------------------------------------------------------------------
(* Results *)

\* What permuting the records of a call does not change.
LEMMA Permuted ==
    ASSUME NEW seq \in Seq(Nat), NEW S, IsIndex(seq, S), NEW p \in [DOMAIN seq -> DOMAIN seq],
           \A x, y \in DOMAIN seq : p[x] = p[y] => x = y,
           NEW ord, ord = [j \in DOMAIN seq |-> seq[p[j]]], Len(ord) = Len(seq)
    PROVE  IsIndex(ord, S)
<1>1. DOMAIN seq = 1..Len(seq) /\ Len(seq) \in Nat /\ IsFiniteSet(DOMAIN seq)
  BY LenProperties, FS_Interval
<1>2. \A y \in DOMAIN seq : \E x \in DOMAIN seq : p[x] = y
  <2>1. p \in Injection(DOMAIN seq, DOMAIN seq)
    BY DEF Injection, IsInjective
  <2>2. p \in Surjection(DOMAIN seq, DOMAIN seq)
    BY <1>1, <2>1, FS_Injection
  <2>3. QED
    BY <2>2 DEF Surjection
<1>3. \A j \in 1..Len(ord) : ord[j] = seq[p[j]] /\ p[j] \in 1..Len(seq)
  BY <1>1
<1>4. \A j \in 1..Len(ord) : ord[j] \in S
  BY <1>3 DEF IsIndex
<1>5. ASSUME NEW m \in S PROVE \E j \in 1..Len(ord) : ord[j] = m
  <2>1. PICK y \in DOMAIN seq : seq[y] = m
    BY <1>1 DEF IsIndex
  <2>2. PICK x \in DOMAIN seq : p[x] = y
    BY <1>2
  <2>3. x \in 1..Len(ord) /\ ord[x] = m
    BY <1>1, <1>3, <2>1, <2>2
  <2>4. QED
    BY <2>3
<1>6. ASSUME NEW i \in 1..Len(ord), NEW j \in 1..Len(ord), ord[i] = ord[j] PROVE i = j
  <2>1. seq[p[i]] = seq[p[j]] /\ p[i] \in 1..Len(seq) /\ p[j] \in 1..Len(seq)
    BY <1>3, <1>6
  <2>2. p[i] = p[j]
    BY <2>1 DEF IsIndex
  <2>3. QED
    BY <1>1, <2>2
<1>7. QED
  BY <1>4, <1>5, <1>6 DEF IsIndex

\* No message, no result.
LEMMA NoResults ==
    ASSUME PlaceInv', pc' \in Between \union Consuming
    PROVE  ResultInv'
  BY DEF PlaceInv, ResultInv, Between, Consuming

\* The valid messages before the one after n.
LEMMA ValidGrows ==
    ASSUME CallType, NEW n \in 1..Len(call.msgs)
    PROVE  /\ call.msgs[n] = "invalid" => ValidBefore(n + 1) = ValidBefore(n)
           /\ call.msgs[n] = "valid" => /\ ValidBefore(n + 1) = ValidBefore(n) \union {n}
                                        /\ Cardinality(ValidBefore(n + 1)) = Cardinality(ValidBefore(n)) + 1
           /\ n \notin ValidBefore(n) /\ Cardinality(ValidBefore(n)) \in Nat
<1>1. Len(call.msgs) \in Nat
  BY LenProperties DEF CallType, Calls
<1>2. \A m \in Msgs : m < n + 1 <=> m < n \/ m = n
  BY <1>1 DEF Msgs
<1>3. call.msgs[n] = "invalid" => ValidBefore(n + 1) = ValidBefore(n)
  BY <1>2 DEF ValidBefore
<1>4. call.msgs[n] = "valid" => ValidBefore(n + 1) = ValidBefore(n) \union {n}
  BY <1>2 DEF ValidBefore, Msgs
<1>5. n \notin ValidBefore(n)
  BY <1>1 DEF ValidBefore
<1>6. IsFiniteSet(ValidBefore(n)) /\ Cardinality(ValidBefore(n)) \in Nat
  BY CountedMessages DEF ValidBefore, Msgs
<1>7. Cardinality(ValidBefore(n) \union {n}) = Cardinality(ValidBefore(n)) + 1
  BY <1>5, <1>6, FS_AddElement
<1>8. QED
  BY <1>3, <1>4, <1>5, <1>6, <1>7

\* All of them are valid once the last message is built.
LEMMA ValidIsOpen ==
    ASSUME CallType, ResultInv, pc = "building", call.next > Len(call.msgs)
    PROVE  /\ ValidBefore(call.next) = {m \in Msgs : call.msgs[m] = "valid"}
           /\ Open = {m \in Msgs : call.msgs[m] = "valid"}
           /\ \A m \in Msgs : call.results[m] = IF call.msgs[m] = "invalid" THEN "invalid" ELSE "none"
<1>1. Len(call.msgs) \in Nat /\ \A m \in Msgs : call.msgs[m] \in Kinds
  BY LenProperties, ElementOfSeq DEF CallType, Calls, Msgs
<1>2. call.next = Len(call.msgs) + 1
  BY <1>1 DEF ResultInv
<1>3. \A m \in Msgs : m < call.next
  BY <1>1, <1>2 DEF Msgs
<1>4. ValidBefore(call.next) = {m \in Msgs : call.msgs[m] = "valid"}
  BY <1>3 DEF ValidBefore
<1>5. \A m \in Msgs : call.results[m] = IF call.msgs[m] = "invalid" THEN "invalid" ELSE "none"
  BY <1>3 DEF ResultInv
<1>6. Open = {m \in Msgs : call.msgs[m] = "valid"}
  BY <1>1, <1>5 DEF Open, Kinds
<1>7. QED
  BY <1>4, <1>5, <1>6

\* A record is added for a valid message.
LEMMA IndexGrows ==
    ASSUME NEW seq \in Seq(Nat), NEW S, NEW n, n \notin S, IsIndex(seq, S),
           NEW new \in Seq(Nat), Len(new) = Len(seq) + 1, new[Len(seq) + 1] = n,
           \A j \in 1..Len(seq) : new[j] = seq[j]
    PROVE  IsIndex(new, S \union {n})
<1>1. Len(seq) \in Nat
  BY LenProperties
<1>2. \A j \in 1..Len(new) : j \in 1..Len(seq) \/ j = Len(seq) + 1
  BY <1>1
<1>3. /\ \A j \in 1..Len(seq) : seq[j] \in S
      /\ \A m \in S : \E j \in 1..Len(seq) : seq[j] = m
      /\ \A i, j \in 1..Len(seq) : seq[i] = seq[j] => i = j
  BY DEF IsIndex
<1>4. \A j \in 1..Len(new) : new[j] \in S \union {n}
  BY <1>2, <1>3
<1>5. ASSUME NEW m \in S \union {n} PROVE \E j \in 1..Len(new) : new[j] = m
  <2>1. CASE m = n
    BY <1>1, <2>1
  <2>2. CASE m \in S
    <3>1. PICK j \in 1..Len(seq) : seq[j] = m
      BY <1>3, <2>2
    <3>2. j \in 1..Len(new) /\ new[j] = m
      BY <1>1, <3>1
    <3>3. QED
      BY <3>2
  <2>3. QED
    BY <2>1, <2>2
<1>6. ASSUME NEW i \in 1..Len(new), NEW j \in 1..Len(new), new[i] = new[j] PROVE i = j
  <2>1. CASE i = Len(seq) + 1 /\ j = Len(seq) + 1
    BY <2>1
  <2>2. CASE i \in 1..Len(seq) /\ j \in 1..Len(seq)
    BY <1>3, <1>6, <2>2
  <2>3. CASE i = Len(seq) + 1 /\ j \in 1..Len(seq)
    BY <1>3, <1>6, <2>3
  <2>4. CASE i \in 1..Len(seq) /\ j = Len(seq) + 1
    BY <1>3, <1>6, <2>4
  <2>5. QED
    BY <1>2, <2>1, <2>2, <2>3, <2>4
<1>7. QED
  BY <1>4, <1>5, <1>6 DEF IsIndex

\* Building a message: it has its result, or its record.
LEMMA BuildResults ==
    ASSUME CallType, CallType', ResultInv, Build
    PROVE  ResultInv'
<1>1. /\ call'.obj = call.obj /\ call'.msgs = call.msgs /\ call'.outcome = call.outcome
      /\ call'.next = call.next + 1
      /\ call.next \in 1..Len(call.msgs) /\ call.next \in 1..Len(call.results)
  BY BuildKeeps
<1>2. /\ Len(call.msgs) \in Nat /\ call.msgs[call.next] \in Kinds
      /\ call.index \in Seq(Nat) /\ call'.index \in Seq(Nat)
  BY <1>1, LenProperties, ElementOfSeq DEF CallType, Calls
<1>3. /\ pc = "building" /\ pc' = "building"
  BY DEF Build
<1>4. /\ Len(call.results) = Len(call.msgs) /\ call.outcome = <<>>
      /\ IsIndex(call.index, ValidBefore(call.next))
      /\ Len(call.index) = Cardinality(ValidBefore(call.next))
      /\ \A m \in Msgs : call.results[m] = IF m < call.next /\ call.msgs[m] = "invalid"
                                           THEN "invalid" ELSE "none"
  BY <1>3 DEF ResultInv
<1>5. ValidBefore(call.next)' = ValidBefore(call.next + 1) /\ Msgs' = Msgs
  BY <1>1 DEF ValidBefore, Msgs
<1>6. \A m \in Msgs : m < call.next + 1 <=> m < call.next \/ m = call.next
  BY <1>1, <1>2 DEF Msgs
<1>7. CASE call.msgs[call.next] = "invalid"
  <2>1. result(call.next, "invalid")
    BY <1>7 DEF Build
  <2>2. /\ call'.index = call.index /\ Len(call'.results) = Len(call.results)
        /\ \A j \in 1..Len(call.results) : call'.results[j] = IF j = call.next THEN "invalid" ELSE call.results[j]
    BY <1>1, <2>1, ResultEffect DEF Codes
  <2>3. ValidBefore(call.next + 1) = ValidBefore(call.next)
    BY <1>1, <1>7, ValidGrows
  <2>4. \A m \in Msgs : call'.results[m] = IF m < call'.next /\ call'.msgs[m] = "invalid" THEN "invalid" ELSE "none"
    BY <1>1, <1>4, <1>6, <1>7, <2>2 DEF Msgs
  <2>5. call'.next \in 1..(Len(call'.msgs) + 1)
    BY <1>1, <1>2
  <2>6. QED
    BY <1>1, <1>3, <1>4, <1>5, <2>2, <2>3, <2>4, <2>5 DEF ResultInv
<1>8. CASE call.msgs[call.next] = "valid"
  <2>1. /\ call'.results = call.results /\ call'.index = Append(call.index, call.next)
        /\ Len(call'.index) = Len(call.index) + 1 /\ call'.index[Len(call.index) + 1] = call.next
        /\ \A j \in 1..Len(call.index) : call'.index[j] = call.index[j]
    BY <1>8, IndexEffect DEF Build
  <2>2. /\ ValidBefore(call.next + 1) = ValidBefore(call.next) \union {call.next}
        /\ Cardinality(ValidBefore(call.next + 1)) = Cardinality(ValidBefore(call.next)) + 1
        /\ call.next \notin ValidBefore(call.next)
    BY <1>1, <1>8, ValidGrows
  <2>3. IsIndex(call'.index, ValidBefore(call.next + 1))
    <3>1. IsIndex(call'.index, ValidBefore(call.next) \union {call.next})
      <4> DEFINE V == ValidBefore(call.next)
      <4>1. call.next \notin V /\ IsIndex(call.index, V)
        BY <1>4, <2>2
      <4> HIDE DEF V
      <4>2. IsIndex(call'.index, V \union {call.next})
        BY <1>2, <2>1, <4>1, IndexGrows
      <4>3. QED
        BY <4>2 DEF V
    <3>2. QED
      BY <2>2, <3>1
  <2>4. \A m \in Msgs : call'.results[m] = IF m < call'.next /\ call'.msgs[m] = "invalid" THEN "invalid" ELSE "none"
    BY <1>1, <1>4, <1>6, <1>8, <2>1 DEF Msgs
  <2>5. call'.next \in 1..(Len(call'.msgs) + 1)
    BY <1>1, <1>2
  <2>6. IsIndex(call.index, ValidBefore(call.next))' /\ Len(call'.index) = Cardinality(ValidBefore(call.next))'
    <3>1. IsIndex(call'.index, ValidBefore(call.next)')
      BY <1>5, <2>3
    <3>2. Len(call'.index) = Cardinality(ValidBefore(call.next)')
      BY <1>4, <1>5, <2>1, <2>2
    <3>3. QED
      BY <3>1, <3>2
  <2>7. QED
    BY <1>1, <1>3, <1>4, <1>5, <2>1, <2>4, <2>5, <2>6 DEF ResultInv
<1>9. QED
  BY <1>2, <1>7, <1>8 DEF Kinds

\* The last message is built: the records are those of the open messages.
LEMMA BuiltResults ==
    ASSUME CallType, CallType', ResultInv, Built
    PROVE  ResultInv'
<1>1. /\ pc = "building" /\ call.next > Len(call.msgs)
  BY DEF Built
<1>2. /\ ValidBefore(call.next) = {m \in Msgs : call.msgs[m] = "valid"}
      /\ Open = {m \in Msgs : call.msgs[m] = "valid"}
      /\ \A m \in Msgs : call.results[m] = IF call.msgs[m] = "invalid" THEN "invalid" ELSE "none"
  BY <1>1, ValidIsOpen
<1>3. /\ Len(call.results) = Len(call.msgs) /\ call.outcome = <<>>
      /\ IsIndex(call.index, {m \in Msgs : call.msgs[m] = "valid"})
      /\ Len(call.index) = Cardinality(Open)
  BY <1>1, <1>2 DEF ResultInv
<1>4. CASE pc' = "sending" /\ UNCHANGED call
  <2>1. Msgs' = Msgs /\ Open' = Open
    BY <1>4 DEF Msgs, Open
  <2>2. IsIndex(call'.index, Open') /\ Len(call'.index) = Cardinality(Open')
    BY <1>2, <1>3, <1>4, <2>1
  <2>3. QED
    BY <1>2, <1>3, <1>4, <2>1, <2>2 DEF ResultInv
<1>5. CASE /\ pc' = "results"
           /\ call' = [call EXCEPT !.order = call.index, !.next = 1,
                                   !.outcome = [m \in DOMAIN call.msgs |-> "unsent"]]
  <2>1. /\ call'.next = 1 /\ call'.order = call.index
        /\ call'.msgs = call.msgs /\ call'.results = call.results
        /\ Len(call'.outcome) = Len(call.msgs) /\ \A m \in 1..Len(call.msgs) : call'.outcome[m] = "unsent"
    BY <1>5, UnsentEffect
  <2>2. Msgs' = Msgs /\ Len(call.index) \in Nat
    BY <2>1, LenProperties DEF Msgs, CallType, Calls
  <2>3. {m \in Msgs : call.msgs[m] = "valid"}' = {m \in Msgs : call.msgs[m] = "valid"}
    BY <2>1, <2>2
  <2>4. IsIndex(call'.order, {m \in Msgs : call.msgs[m] = "valid"}')
    BY <1>3, <2>1, <2>3
  <2>5. \A j \in 1..Len(call.index) : call.index[j] \in Msgs /\ call.msgs[call.index[j]] = "valid"
    BY <1>3 DEF IsIndex
  <2>6. \A j \in 1..Len(call'.order) :
          call'.results[call'.order[j]] = IF j < call'.next THEN call'.outcome[call'.order[j]] ELSE "none"
    BY <1>2, <2>1, <2>2, <2>5
  <2>7. \A m \in Msgs' : /\ call'.outcome[m] # "none"
                         /\ call'.msgs[m] = "invalid" => call'.results[m] = "invalid" /\ call'.outcome[m] # "acked"
    BY <1>2, <2>1, <2>2 DEF Msgs
  <2>8. call'.next \in 1..(Len(call'.order) + 1)
    BY <2>1, <2>2
  <2>9. QED
    BY <1>3, <1>5, <2>1, <2>4, <2>6, <2>7, <2>8 DEF ResultInv
<1>6. QED
  BY <1>4, <1>5 DEF Built

\* The broker answers: the open messages are those of the records, in some order.
LEMMA SyncResults ==
    ASSUME CallType, CallType', ResultInv, ProduceSync
    PROVE  ResultInv'
<1>1. pc = "sending" /\ pc' = "results"
  BY DEF ProduceSync
<1>2. /\ Len(call.results) = Len(call.msgs) /\ IsIndex(call.index, Open)
      /\ \A m \in Msgs : call.results[m] = IF call.msgs[m] = "invalid" THEN "invalid" ELSE "none"
  BY <1>1 DEF ResultInv
<1>3. PICK p \in [DOMAIN call.index -> DOMAIN call.index], out \in [DOMAIN call.msgs -> {"acked", "failed"}] :
        /\ \A x, y \in DOMAIN call.index : p[x] = p[y] => x = y
        /\ \A m \in 1..Len(call.msgs) : call.msgs[m] = "invalid" => out[m] = "failed"
        /\ call'.next = 1 /\ call'.outcome = out
        /\ Len(out) = Len(call.msgs)
        /\ call'.order = [j \in DOMAIN call.index |-> call.index[p[j]]]
        /\ Len(call'.order) = Len(call.index)
        /\ call'.msgs = call.msgs /\ call'.results = call.results
  BY SyncEffect
<1>4. /\ Len(call.msgs) \in Nat /\ DOMAIN call.msgs = 1..Len(call.msgs) /\ \A m \in Msgs : call.msgs[m] \in Kinds
      /\ call.index \in Seq(Nat) /\ Len(call.index) \in Nat
  BY LenProperties, ElementOfSeq DEF CallType, Calls, Msgs
<1>5. Open = {m \in Msgs : call.msgs[m] = "valid"}
  BY <1>2, <1>4 DEF Open, Kinds
<1>6. Msgs' = Msgs /\ {m \in Msgs : call.msgs[m] = "valid"}' = {m \in Msgs : call.msgs[m] = "valid"}
  BY <1>3 DEF Msgs
<1>7. IsIndex(call'.order, Open)
  BY <1>2, <1>3, <1>4, Permuted, ZenonT(40)
<1>8. IsIndex(call'.order, {m \in Msgs : call.msgs[m] = "valid"}')
  BY <1>5, <1>6, <1>7
<1>9. \A j \in 1..Len(call'.order) : call'.order[j] \in Open
  BY <1>7 DEF IsIndex
<1>10. \A j \in 1..Len(call'.order) :
         call'.results[call'.order[j]] = IF j < call'.next THEN call'.outcome[call'.order[j]] ELSE "none"
  <2>1. /\ call'.next = 1 /\ call'.results = call.results /\ Len(call'.order) = Len(call.index)
    BY <1>3
  <2>2. \A j \in 1..Len(call'.order) : ~(j < call'.next) /\ call.results[call'.order[j]] = "none"
    BY <1>4, <1>9, <2>1 DEF Open
  <2>3. QED
    BY <2>1, <2>2
<1>11. \A m \in Msgs' : /\ call'.outcome[m] # "none"
                        /\ call'.msgs[m] = "invalid" => call'.results[m] = "invalid" /\ call'.outcome[m] # "acked"
  BY <1>2, <1>3, <1>4, <1>6 DEF Msgs
<1>12. call'.next \in 1..(Len(call'.order) + 1)
  BY <1>3, <1>4
<1>13. QED
  BY <1>1, <1>2, <1>3, <1>8, <1>10, <1>11, <1>12 DEF ResultInv

\* An answer is put where its message is, and nowhere else.
LEMMA TakeResults ==
    ASSUME CallType, CallType', ResultInv, TakeResult
    PROVE  ResultInv'
<1> DEFINE k == call.order[call.next]
<1>1. /\ k \in 1..Len(call.results) /\ k \in Msgs /\ call.msgs[k] = "valid"
      /\ call.outcome[k] \in Codes \ {"none"} /\ result(k, call.outcome[k])
      /\ call.next \in 1..Len(call.order)
  BY ResultToTake
<1> HIDE DEF k
<1>2. /\ call'.next = call.next + 1
      /\ call'.msgs = call.msgs /\ call'.order = call.order /\ call'.outcome = call.outcome
      /\ Len(call'.results) = Len(call.results)
      /\ \A j \in 1..Len(call.results) : call'.results[j] = IF j = k THEN call.outcome[k] ELSE call.results[j]
  BY <1>1, ResultEffect
<1>3. pc = "results" /\ pc' = "results"
  BY DEF TakeResult
<1>4. /\ Len(call.results) = Len(call.msgs) /\ Len(call.outcome) = Len(call.msgs)
      /\ IsIndex(call.order, {m \in Msgs : call.msgs[m] = "valid"})
      /\ \A m \in Msgs : call.outcome[m] # "none"
      /\ \A m \in Msgs : call.msgs[m] = "invalid" => call.results[m] = "invalid" /\ call.outcome[m] # "acked"
      /\ \A j \in 1..Len(call.order) :
           call.results[call.order[j]] = IF j < call.next THEN call.outcome[call.order[j]] ELSE "none"
  BY <1>3 DEF ResultInv
<1>5. Msgs' = Msgs /\ {m \in Msgs : call.msgs[m] = "valid"}' = {m \in Msgs : call.msgs[m] = "valid"}
  BY <1>2 DEF Msgs
<1>6. IsIndex(call'.order, {m \in Msgs : call.msgs[m] = "valid"}')
  BY <1>2, <1>4, <1>5
<1>7. Len(call.order) \in Nat /\ call.next \in Nat
  BY LenProperties DEF CallType, Calls
<1>8. \A j \in 1..Len(call.order) : call.order[j] \in Msgs /\ (call.order[j] = k <=> j = call.next)
  BY <1>1, <1>4 DEF IsIndex, k
<1>9. ASSUME NEW j \in 1..Len(call'.order)
      PROVE  call'.results[call'.order[j]] = IF j < call'.next THEN call'.outcome[call'.order[j]] ELSE "none"
  <2>1. /\ call.order[j] \in 1..Len(call.results) /\ (call.order[j] = k <=> j = call.next)
        /\ call.results[call.order[j]] = IF j < call.next THEN call.outcome[call.order[j]] ELSE "none"
    BY <1>2, <1>4, <1>8, <1>9 DEF Msgs
  <2>2. j < call'.next <=> j < call.next \/ j = call.next
    BY <1>2, <1>7, <1>9
  <2>3. QED
    BY <1>2, <2>1, <2>2
<1>10. \A m \in Msgs' : /\ call'.outcome[m] # "none"
                        /\ call'.msgs[m] = "invalid" => call'.results[m] = "invalid" /\ call'.outcome[m] # "acked"
  BY <1>1, <1>2, <1>4, <1>5 DEF Msgs
<1>11. call'.next \in 1..(Len(call'.order) + 1)
  BY <1>1, <1>2, <1>7
<1>12. QED
  BY <1>2, <1>3, <1>4, <1>6, <1>9, <1>10, <1>11 DEF ResultInv

\* A new call: every message is open, none is built.
LEMMA SendResults ==
    ASSUME NEW i \in 1..MaxObjects, NEW msgs \in Batches, CallType', Send(i, msgs)
    PROVE  ResultInv'
<1>1. /\ Len(msgs) \in Nat
      /\ call'.next = 1 /\ call'.msgs = msgs /\ call'.index = <<>> /\ call'.outcome = <<>>
      /\ Len(call'.results) = Len(msgs) /\ \A j \in 1..Len(msgs) : call'.results[j] = "none"
  BY SendEffect
<1>2. pc' = "building"
  BY DEF Send
<1>3. Msgs' = 1..Len(msgs) /\ ValidBefore(call.next)' = {}
  BY <1>1 DEF Msgs, ValidBefore
<1>4. IsIndex(call'.index, ValidBefore(call.next)') /\ Len(call'.index) = Cardinality(ValidBefore(call.next)')
  <2>1. IsIndex(<<>>, {})
    BY DEF IsIndex
  <2>2. Len(<<>>) = Cardinality({})
    BY FS_EmptySet
  <2>3. QED
    BY <1>1, <1>3, <2>1, <2>2
<1>5. \A m \in Msgs' : call'.results[m] = IF m < call'.next /\ call'.msgs[m] = "invalid" THEN "invalid" ELSE "none"
  BY <1>1, <1>3
<1>6. call'.next \in 1..(Len(call'.msgs) + 1)
  BY <1>1
<1>7. QED
  BY <1>1, <1>2, <1>4, <1>5, <1>6 DEF ResultInv

\* Every message of a call has the result of its own record, or none yet.
LEMMA ResultStep ==
    ASSUME CallType, CallType', PlaceInv, PlaceInv', ResultInv
    PROVE  [Next]_vars => ResultInv'
<1>1. ASSUME Begin PROVE ResultInv'
  <2>1. pc' \in Between \union Consuming
    BY <1>1 DEF Begin, Between, Consuming
  <2>2. QED
    BY <2>1, NoResults
<1>2. ASSUME EndContext PROVE ResultInv'
  <2>1. UNCHANGED <<pc, call>>
    BY <1>2 DEF EndContext
  <2>2. QED
    BY <2>1 DEF ResultInv, Open, Msgs, ValidBefore
<1>3. ASSUME Return PROVE ResultInv'
  <2>1. pc' \in Between \union Consuming
    BY <1>3 DEF Return, Between, Consuming
  <2>2. QED
    BY <2>1, NoResults
<1>4. ASSUME CloseVU PROVE ResultInv'
  <2>1. pc' \in Between \union Consuming
    BY <1>4 DEF CloseVU, Between, Consuming
  <2>2. QED
    BY <2>1, NoResults
<1>5. ASSUME CloseNext PROVE ResultInv'
  <2>1. pc' \in Between \union Consuming
    BY <1>5 DEF CloseNext, Between, Consuming
  <2>2. QED
    BY <2>1, NoResults
<1>6. ASSUME NEW r \in Roles, Construct(r) PROVE ResultInv'
  <2>1. pc' \in Between \union Consuming
    BY <1>6 DEF Construct, Between, Consuming
  <2>2. QED
    BY <2>1, NoResults
<1>7. ASSUME NEW i \in DOMAIN objs, ScriptCloses(i) PROVE ResultInv'
  <2>1. pc' \in Between \union Consuming
    BY <1>7 DEF ScriptCloses, Between, Consuming
  <2>2. QED
    BY <2>1, NoResults
<1>8. ASSUME NEW i \in 1..MaxObjects, NEW msgs \in Batches, Send(i, msgs) PROVE ResultInv'
  BY <1>8, SendResults
<1>9. ASSUME NEW i \in 1..MaxObjects, Consume(i) PROVE ResultInv'
  <2>1. pc' \in Between \union Consuming
    BY <1>9 DEF Consume, Between, Consuming
  <2>2. QED
    BY <2>1, NoResults
<1>10. ASSUME NEW i \in 1..MaxObjects, NEW r \in Roles, CallOutside(r, i) PROVE ResultInv'
  <2>1. pc' \in Between \union Consuming
    BY <1>10 DEF CallOutside, Between, Consuming
  <2>2. QED
    BY <2>1, NoResults
<1>11. ASSUME Build PROVE ResultInv'
  BY <1>11, BuildResults
<1>12. ASSUME NothingToSend PROVE ResultInv'
  <2>1. /\ pc = "building" /\ call.next > Len(call.msgs) /\ call.index = <<>> /\ pc' = "returned" /\ UNCHANGED call
    BY <1>12 DEF NothingToSend
  <2>2. /\ ValidBefore(call.next) = {m \in Msgs : call.msgs[m] = "valid"}
        /\ \A m \in Msgs : call.results[m] = IF call.msgs[m] = "invalid" THEN "invalid" ELSE "none"
    BY <2>1, ValidIsOpen
  <2>3. IsIndex(<<>>, {m \in Msgs : call.msgs[m] = "valid"})
    BY <2>1, <2>2 DEF ResultInv
  <2>4. \A m \in Msgs : call.msgs[m] \in Kinds /\ call.msgs[m] # "valid"
    BY <2>3, ElementOfSeq, SMTT(30) DEF IsIndex, CallType, Calls, Msgs
  <2>5. Msgs' = Msgs /\ Len(call.results) = Len(call.msgs)
    BY <2>1 DEF Msgs, ResultInv
  <2>6. QED
    BY <2>1, <2>2, <2>4, <2>5 DEF ResultInv, Kinds
<1>13. ASSUME Built PROVE ResultInv'
  BY <1>13, BuiltResults
<1>14. ASSUME ProduceSync PROVE ResultInv'
  BY <1>14, SyncResults
<1>15. ASSUME TakeResult PROVE ResultInv'
  BY <1>15, TakeResults
<1>16. ASSUME Sent PROVE ResultInv'
  <2>1. pc = "results" /\ pc' = "returned" /\ UNCHANGED call /\ call.next > Len(call.order)
    BY <1>16 DEF Sent
  <2>2. /\ Len(call.order) \in Nat /\ call.next \in Nat /\ \A m \in Msgs : call.msgs[m] \in Kinds
    BY LenProperties, ElementOfSeq DEF CallType, Calls, Msgs
  <2>3. /\ Len(call.results) = Len(call.msgs)
        /\ IsIndex(call.order, {m \in Msgs : call.msgs[m] = "valid"})
        /\ \A m \in Msgs : call.outcome[m] # "none"
        /\ \A m \in Msgs : call.msgs[m] = "invalid" => call.results[m] = "invalid"
        /\ \A j \in 1..Len(call.order) :
             call.results[call.order[j]] = IF j < call.next THEN call.outcome[call.order[j]] ELSE "none"
    BY <2>1 DEF ResultInv
  <2>4. ASSUME NEW m \in Msgs, call.msgs[m] = "valid" PROVE call.results[m] = call.outcome[m]
    <3>1. PICK j \in 1..Len(call.order) : call.order[j] = m
      BY <2>3, <2>4 DEF IsIndex
    <3>2. j < call.next
      BY <2>1, <2>2
    <3>3. QED
      BY <2>3, <3>1, <3>2
  <2>5. \A m \in Msgs : /\ call.results[m] = IF call.msgs[m] = "invalid" THEN "invalid" ELSE call.outcome[m]
                        /\ call.results[m] # "none"
    BY <2>2, <2>3, <2>4 DEF Kinds
  <2>6. Msgs' = Msgs
    BY <2>1 DEF Msgs
  <2>7. QED
    BY <2>1, <2>3, <2>5, <2>6 DEF ResultInv
<1>17. ASSUME Lookup PROVE ResultInv'
  <2>1. pc' \in Between \union Consuming
    BY <1>17 DEF Lookup, Between, Consuming
  <2>2. QED
    BY <2>1, NoResults
<1>18. ASSUME PollRecords PROVE ResultInv'
  <2>1. pc' \in Between \union Consuming
    BY <1>18 DEF PollRecords, Between, Consuming
  <2>2. QED
    BY <2>1, NoResults
<1>19. ASSUME TakeMessage PROVE ResultInv'
  <2>1. pc' \in Between \union Consuming
    BY <1>19 DEF TakeMessage, Between, Consuming
  <2>2. QED
    BY <2>1, NoResults
<1>20. ASSUME Consumed PROVE ResultInv'
  <2>1. pc' = "returned" /\ UNCHANGED call /\ call.msgs = <<>>
    BY <1>20 DEF Consumed, PlaceInv, Consuming
  <2>2. Msgs' = {} /\ Len(call.results) = Len(call.msgs)
    BY <2>1 DEF Msgs, ResultInv
  <2>3. QED
    BY <2>1, <2>2 DEF ResultInv
<1>21. ASSUME GoOn PROVE ResultInv'
  <2>1. pc' \in Between \union Consuming
    BY <1>21 DEF GoOn, Between, Consuming
  <2>2. QED
    BY <2>1, NoResults
<1>22. ASSUME UNCHANGED vars PROVE ResultInv'
  <2>1. UNCHANGED <<pc, call>>
    BY <1>22 DEF vars
  <2>2. QED
    BY <2>1 DEF ResultInv, Open, Msgs, ValidBefore
<1>23. QED
  BY <1>1, <1>2, <1>3, <1>4, <1>5, <1>6, <1>7, <1>8, <1>9, <1>10, <1>11, <1>12,
     <1>13, <1>14, <1>15, <1>16, <1>17, <1>18, <1>19, <1>20, <1>21, <1>22 DEF Next, Working

-----------------------------------------------------------------------------
(* Counts *)

\* One family: what is recorded, r, and what is open, u, against what happened, g.
AreCounts(r, u, g) == r \in Nat /\ u \in Nat /\ g \in Nat
Within(r, u, g)    == r + u <= g
Exact(r, u, g)     == r + u = g

\* A step counts what it closes, or it may lose some.
Counts(r, u, g, r2, u2, g2) == r2 + u2 + g = g2 + r + u
Loses(r, u, g, r2, u2, g2)  == r2 + u2 + g <= g2 + r + u

\* What is recorded and what is open stay within what happened.
LEMMA StaysWithin ==
    ASSUME NEW r, NEW u, NEW g, NEW r2, NEW u2, NEW g2, AreCounts(r, u, g), AreCounts(r2, u2, g2),
           Loses(r, u, g, r2, u2, g2), Within(r, u, g)
    PROVE  Within(r2, u2, g2)
  BY DEF AreCounts, Loses, Within

\* And equal to it.
LEMMA StaysExact ==
    ASSUME NEW r, NEW u, NEW g, NEW r2, NEW u2, NEW g2, AreCounts(r, u, g), AreCounts(r2, u2, g2),
           Counts(r, u, g, r2, u2, g2), Exact(r, u, g)
    PROVE  Exact(r2, u2, g2)
  BY DEF AreCounts, Counts, Exact

\* One result is recorded and no longer open, or nothing changes.
LEMMA Moved ==
    ASSUME NEW r, NEW u, NEW g, AreCounts(r, u, g), NEW d \in {0, 1}, NEW r2, NEW u2, r2 = r + d, u2 = u - d
    PROVE  Counts(r, u, g, r2, u2, g) /\ Loses(r, u, g, r2, u2, g)
  BY DEF AreCounts, Counts, Loses

\* One result is lost and no longer open.
LEMMA Lost ==
    ASSUME NEW r, NEW u, NEW g, AreCounts(r, u, g), NEW d \in {0, 1}, NEW u2, u2 = u - d
    PROVE  Loses(r, u, g, r, u2, g)
  BY DEF AreCounts, Loses

\* Something happens, and is open.
LEMMA Happened ==
    ASSUME NEW r, NEW u, NEW g, AreCounts(r, u, g), NEW n \in Nat, NEW u2, NEW g2, u2 = u + n, g2 = g + n
    PROVE  Counts(r, u, g, r, u2, g2) /\ Loses(r, u, g, r, u2, g2)
  BY DEF AreCounts, Counts, Loses

\* The open messages are counted.
LEMMA OpenCounted ==
    ASSUME CallType
    PROVE  /\ IsFiniteSet(Open) /\ IsFiniteSet(OpenAcked) /\ IsFiniteSet(OpenSent)
           /\ Cardinality(Open) \in Nat /\ Cardinality(OpenAcked) \in Nat /\ Cardinality(OpenSent) \in Nat
           /\ Polling \in Nat
<1>1. Open \subseteq 1..Len(call.msgs) /\ OpenAcked \subseteq Open /\ OpenSent \subseteq Open
  BY DEF Open, Msgs, OpenAcked, OpenSent
<1>2. OpenAcked \subseteq 1..Len(call.msgs) /\ OpenSent \subseteq 1..Len(call.msgs)
  BY <1>1
<1>3. Polling \in Nat
  BY DEF Polling
<1>4. QED
  BY <1>1, <1>2, <1>3, CountedMessages

\* Where no message is open, nothing is.
LEMMA NoOpen ==
    /\ Open = {} => /\ OpenAcked = {} /\ OpenSent = {} /\ Cardinality(Open) = 0
                    /\ Cardinality(OpenAcked) = 0 /\ Cardinality(OpenSent) = 0
    /\ Open' = {} => /\ OpenAcked' = {} /\ OpenSent' = {} /\ Cardinality(Open') = 0
                     /\ Cardinality(OpenAcked') = 0 /\ Cardinality(OpenSent') = 0
    /\ call.msgs = <<>> => Open = {}
    /\ call'.msgs = <<>> => Open' = {}
<1>1. Cardinality({}) = 0
  BY FS_EmptySet
<1>2. Open = {} => OpenAcked = {} /\ OpenSent = {}
  BY DEF OpenAcked, OpenSent
<1>3. Open' = {} => OpenAcked' = {} /\ OpenSent' = {}
  BY DEF OpenAcked, OpenSent
<1>4. (call.msgs = <<>> => Open = {}) /\ (call'.msgs = <<>> => Open' = {})
  BY DEF Open, Msgs
<1>5. QED
  BY <1>1, <1>2, <1>3, <1>4

\* Until the broker is asked, and after the results, no open message was sent.
LEMMA NothingSent ==
    /\ pc \notin {"sending", "results"} => OpenAcked = {} /\ OpenSent = {}
    /\ pc' \notin {"sending", "results"} => OpenAcked' = {} /\ OpenSent' = {}
  BY DEF OpenAcked, OpenSent

\* A step that counts what it closes keeps the counts, and so does one that a
\* context cut off.
LEMMA CountsKept ==
    ASSUME CallType, CallType', RecordType, RecordType', CountInv,
           rec'.produced + rec'.produceFailed = rec'.produces,
           rec'.consumeFailed <= rec'.consumes,
           /\ Loses(rec.produces, Cardinality(Open), seen.given, rec'.produces, Cardinality(Open'), seen'.given)
           /\ Loses(rec.produced, Cardinality(OpenAcked), seen.acked, rec'.produced, Cardinality(OpenAcked'), seen'.acked)
           /\ Loses(rec.durations, Cardinality(OpenSent), seen.sent, rec'.durations, Cardinality(OpenSent'), seen'.sent)
           /\ Loses(rec.consumes, Polling, seen.polls, rec'.consumes, Polling', seen'.polls),
           ~cut' =>
             /\ ~cut
             /\ Counts(rec.produces, Cardinality(Open), seen.given, rec'.produces, Cardinality(Open'), seen'.given)
             /\ Counts(rec.produced, Cardinality(OpenAcked), seen.acked, rec'.produced, Cardinality(OpenAcked'), seen'.acked)
             /\ Counts(rec.durations, Cardinality(OpenSent), seen.sent, rec'.durations, Cardinality(OpenSent'), seen'.sent)
             /\ Counts(rec.consumes, Polling, seen.polls, rec'.consumes, Polling', seen'.polls)
    PROVE  CountInv'
<1>1. /\ Cardinality(Open) \in Nat /\ Cardinality(OpenAcked) \in Nat /\ Cardinality(OpenSent) \in Nat
      /\ Polling \in Nat
  BY OpenCounted
<1>2. /\ Cardinality(Open') \in Nat /\ Cardinality(OpenAcked') \in Nat /\ Cardinality(OpenSent') \in Nat
      /\ Polling' \in Nat
  <2>1. (Open \subseteq 1..Len(call.msgs) /\ OpenAcked \subseteq Open /\ OpenSent \subseteq Open)'
    BY DEF Open, Msgs, OpenAcked, OpenSent
  <2>2. (Len(call.msgs) \in Nat)'
    BY LenProperties DEF CallType, Calls
  <2>3. IsFiniteSet((1..Len(call.msgs))')
    BY <2>2, FS_Interval
  <2>4. IsFiniteSet(Open') /\ IsFiniteSet(OpenAcked') /\ IsFiniteSet(OpenSent')
    BY <2>1, <2>3, FS_Subset
  <2>5. QED
    BY <2>4, FS_CardinalityType DEF Polling
<1>3. /\ AreCounts(rec.produces, Cardinality(Open), seen.given)
      /\ AreCounts(rec.produced, Cardinality(OpenAcked), seen.acked)
      /\ AreCounts(rec.durations, Cardinality(OpenSent), seen.sent)
      /\ AreCounts(rec.consumes, Polling, seen.polls)
  BY <1>1 DEF RecordType, AreCounts
<1>4. /\ AreCounts(rec'.produces, Cardinality(Open'), seen'.given)
      /\ AreCounts(rec'.produced, Cardinality(OpenAcked'), seen'.acked)
      /\ AreCounts(rec'.durations, Cardinality(OpenSent'), seen'.sent)
      /\ AreCounts(rec'.consumes, Polling', seen'.polls)
  BY <1>2 DEF RecordType, AreCounts
<1>5. /\ Within(rec.produces, Cardinality(Open), seen.given)
      /\ Within(rec.produced, Cardinality(OpenAcked), seen.acked)
      /\ Within(rec.durations, Cardinality(OpenSent), seen.sent)
      /\ Within(rec.consumes, Polling, seen.polls)
  BY DEF CountInv, Within
<1>6. /\ Within(rec'.produces, Cardinality(Open'), seen'.given)
      /\ Within(rec'.produced, Cardinality(OpenAcked'), seen'.acked)
      /\ Within(rec'.durations, Cardinality(OpenSent'), seen'.sent)
      /\ Within(rec'.consumes, Polling', seen'.polls)
  BY <1>3, <1>4, <1>5, StaysWithin
<1>7. ASSUME ~cut' PROVE /\ Exact(rec'.produces, Cardinality(Open'), seen'.given)
                         /\ Exact(rec'.produced, Cardinality(OpenAcked'), seen'.acked)
                         /\ Exact(rec'.durations, Cardinality(OpenSent'), seen'.sent)
                         /\ Exact(rec'.consumes, Polling', seen'.polls)
  <2>1. /\ Exact(rec.produces, Cardinality(Open), seen.given)
        /\ Exact(rec.produced, Cardinality(OpenAcked), seen.acked)
        /\ Exact(rec.durations, Cardinality(OpenSent), seen.sent)
        /\ Exact(rec.consumes, Polling, seen.polls)
    BY <1>7 DEF CountInv, Exact
  <2>2. /\ Counts(rec.produces, Cardinality(Open), seen.given, rec'.produces, Cardinality(Open'), seen'.given)
        /\ Counts(rec.produced, Cardinality(OpenAcked), seen.acked, rec'.produced, Cardinality(OpenAcked'), seen'.acked)
        /\ Counts(rec.durations, Cardinality(OpenSent), seen.sent, rec'.durations, Cardinality(OpenSent'), seen'.sent)
        /\ Counts(rec.consumes, Polling, seen.polls, rec'.consumes, Polling', seen'.polls)
    BY <1>7
  <2>3. QED
    BY <1>3, <1>4, <2>1, <2>2, StaysExact
<1>8. QED
  BY <1>6, <1>7 DEF CountInv, Within, Exact

\* A step that leaves the counters and what is open as they are.
LEMMA CountsSame ==
    ASSUME CountInv, UNCHANGED <<seen, cut>>,
           /\ rec'.produced = rec.produced /\ rec'.produceFailed = rec.produceFailed
           /\ rec'.produces = rec.produces /\ rec'.durations = rec.durations
           /\ rec'.consumes = rec.consumes /\ rec'.consumeFailed = rec.consumeFailed,
           Open' = Open, OpenAcked' = OpenAcked, OpenSent' = OpenSent, Polling' = Polling
    PROVE  CountInv'
  BY DEF CountInv

\* A message given its result is no longer open.
LEMMA OneLessOpen ==
    ASSUME CallType, NEW k \in Open,
           call'.msgs = call.msgs, call'.outcome = call.outcome, pc' = pc,
           NEW code, code # "none", Len(call.results) = Len(call.msgs),
           \A j \in 1..Len(call.results) : call'.results[j] = IF j = k THEN code ELSE call.results[j]
    PROVE  /\ Cardinality(Open') = Cardinality(Open) - 1
           /\ Cardinality(OpenAcked') = Cardinality(OpenAcked) - (IF k \in OpenAcked THEN 1 ELSE 0)
           /\ Cardinality(OpenSent') = Cardinality(OpenSent) - (IF k \in OpenSent THEN 1 ELSE 0)
<1>1. Open' = Open \ {k}
  BY DEF Open, Msgs
<1>2. OpenAcked' = OpenAcked \ {k} /\ OpenSent' = OpenSent \ {k}
  BY <1>1 DEF OpenAcked, OpenSent
<1>3. IsFiniteSet(Open) /\ IsFiniteSet(OpenAcked) /\ IsFiniteSet(OpenSent)
  BY OpenCounted
<1>4. Cardinality(Open \ {k}) = Cardinality(Open) - 1
  BY <1>3, FS_RemoveElement
<1>5. ASSUME NEW S, IsFiniteSet(S)
      PROVE  Cardinality(S \ {k}) = Cardinality(S) - (IF k \in S THEN 1 ELSE 0)
  <2>1. CASE k \in S
    BY <1>5, <2>1, FS_RemoveElement
  <2>2. CASE k \notin S
    <3>1. S \ {k} = S /\ Cardinality(S) \in Nat
      BY <1>5, <2>2, FS_CardinalityType
    <3>2. Cardinality(S) - 0 = Cardinality(S)
      BY <3>1
    <3>3. QED
      BY <2>2, <3>1, <3>2
  <2>3. QED
    BY <2>1, <2>2
<1>6. QED
  BY <1>1, <1>2, <1>3, <1>4, <1>5

\* The result of an open message is counted, unless its context has ended.
LEMMA ResultCounted ==
    ASSUME TypeOK, TypeOK', CountInv, NEW k \in Open, NEW code \in Codes \ {"none"}, result(k, code),
           Len(call.results) = Len(call.msgs), pc' = pc, UNCHANGED <<seen, ended>>,
           k \in OpenAcked <=> code = "acked", k \in OpenSent <=> code \in {"acked", "failed"}
    PROVE  CountInv'
<1> USE DEF TypeOK
<1>1. k \in 1..Len(call.results)
  BY DEF Open, Msgs
<1>2. /\ call'.msgs = call.msgs /\ call'.outcome = call.outcome
      /\ \A j \in 1..Len(call.results) : call'.results[j] = IF j = k THEN code ELSE call.results[j]
  BY <1>1, ResultEffect
<1>3. /\ Cardinality(Open') = Cardinality(Open) - 1
      /\ Cardinality(OpenAcked') = Cardinality(OpenAcked) - (IF code = "acked" THEN 1 ELSE 0)
      /\ Cardinality(OpenSent') = Cardinality(OpenSent) - (IF code \in {"acked", "failed"} THEN 1 ELSE 0)
  BY <1>2, OneLessOpen
<1>4. PICK da \in {0, 1}, ds \in {0, 1}, df \in {0, 1} :
        /\ da = (IF code = "acked" THEN 1 ELSE 0) /\ ds = (IF code \in {"acked", "failed"} THEN 1 ELSE 0)
        /\ df = (IF code = "acked" THEN 0 ELSE 1) /\ da + df = 1
  OBVIOUS
<1>5. /\ Cardinality(Open') = Cardinality(Open) - 1
      /\ Cardinality(OpenAcked') = Cardinality(OpenAcked) - da
      /\ Cardinality(OpenSent') = Cardinality(OpenSent) - ds
      /\ Polling' = Polling /\ seen' = seen /\ 1 \in {0, 1} /\ 0 \in {0, 1}
  BY <1>3, <1>4 DEF Polling
<1>6. /\ AreCounts(rec.produces, Cardinality(Open), seen.given)
      /\ AreCounts(rec.produced, Cardinality(OpenAcked), seen.acked)
      /\ AreCounts(rec.durations, Cardinality(OpenSent), seen.sent)
      /\ AreCounts(rec.consumes, Polling, seen.polls)
      /\ rec.consumes + 0 = rec.consumes /\ Polling - 0 = Polling
  <2>1. /\ Cardinality(Open) \in Nat /\ Cardinality(OpenAcked) \in Nat /\ Cardinality(OpenSent) \in Nat
        /\ Polling \in Nat
    BY OpenCounted
  <2>2. /\ rec.produces \in Nat /\ rec.produced \in Nat /\ rec.durations \in Nat /\ rec.consumes \in Nat
        /\ seen.given \in Nat /\ seen.acked \in Nat /\ seen.sent \in Nat /\ seen.polls \in Nat
    BY DEF RecordType
  <2>3. rec.consumes + 0 = rec.consumes /\ Polling - 0 = Polling
    BY <2>1, <2>2
  <2>4. QED
    BY <2>1, <2>2, <2>3 DEF AreCounts
<1>7. CASE ended
  <2>1. rec' = rec /\ cut'
    BY <1>7 DEF result
  <2>2. /\ Loses(rec.produces, Cardinality(Open), seen.given, rec'.produces, Cardinality(Open'), seen'.given)
        /\ Loses(rec.produced, Cardinality(OpenAcked), seen.acked, rec'.produced, Cardinality(OpenAcked'), seen'.acked)
        /\ Loses(rec.durations, Cardinality(OpenSent), seen.sent, rec'.durations, Cardinality(OpenSent'), seen'.sent)
        /\ Loses(rec.consumes, Polling, seen.polls, rec'.consumes, Polling', seen'.polls)
    BY <1>4, <1>5, <1>6, <2>1, Lost
  <2>3. rec'.produced + rec'.produceFailed = rec'.produces /\ rec'.consumeFailed <= rec'.consumes
    BY <2>1 DEF CountInv
  <2>4. QED
    BY <2>1, <2>2, <2>3, CountsKept
<1>8. CASE ~ended
  <2>1. rec' = Records(code) /\ cut' = cut
    BY <1>8 DEF result, PlaceType
  <2>2. /\ rec'.produces = rec.produces + 1
        /\ rec'.durations = rec.durations + ds /\ rec'.produced = rec.produced + da
        /\ rec'.produceFailed = rec.produceFailed + df
        /\ rec'.consumes = rec.consumes /\ rec'.consumeFailed = rec.consumeFailed
    BY <1>4, <2>1, RecordsEffect
  <2>3. rec'.produced + rec'.produceFailed = rec'.produces /\ rec'.consumeFailed <= rec'.consumes
    <3>1. rec.produced \in Nat /\ rec.produceFailed \in Nat /\ rec.produces = rec.produced + rec.produceFailed
      BY DEF RecordType, CountInv
    <3>2. (rec.produced + da) + (rec.produceFailed + df) = (rec.produced + rec.produceFailed) + 1
      BY <1>4, <3>1
    <3>3. QED
      BY <2>2, <3>1, <3>2 DEF CountInv
  <2>4. /\ Counts(rec.produces, Cardinality(Open), seen.given, rec'.produces, Cardinality(Open'), seen'.given)
        /\ Counts(rec.produced, Cardinality(OpenAcked), seen.acked, rec'.produced, Cardinality(OpenAcked'), seen'.acked)
        /\ Counts(rec.durations, Cardinality(OpenSent), seen.sent, rec'.durations, Cardinality(OpenSent'), seen'.sent)
        /\ Counts(rec.consumes, Polling, seen.polls, rec'.consumes, Polling', seen'.polls)
    BY <1>4, <1>5, <1>6, <2>2, Moved
  <2>5. /\ Loses(rec.produces, Cardinality(Open), seen.given, rec'.produces, Cardinality(Open'), seen'.given)
        /\ Loses(rec.produced, Cardinality(OpenAcked), seen.acked, rec'.produced, Cardinality(OpenAcked'), seen'.acked)
        /\ Loses(rec.durations, Cardinality(OpenSent), seen.sent, rec'.durations, Cardinality(OpenSent'), seen'.sent)
        /\ Loses(rec.consumes, Polling, seen.polls, rec'.consumes, Polling', seen'.polls)
    BY <1>4, <1>5, <1>6, <2>2, Moved
  <2>6. QED
    BY <2>1, <2>3, <2>4, <2>5, CountsKept
<1>9. QED
  BY <1>7, <1>8

\* A step at which something happens, and is open; the families stay as they are.
LEMMA MoreOpen ==
    ASSUME CallType, CallType', RecordType, RecordType', CountInv, UNCHANGED <<rec, cut>>,
           NEW ng \in Nat, NEW na \in Nat, NEW ns \in Nat, NEW np \in Nat,
           Cardinality(Open') = Cardinality(Open) + ng, seen'.given = seen.given + ng,
           Cardinality(OpenAcked') = Cardinality(OpenAcked) + na, seen'.acked = seen.acked + na,
           Cardinality(OpenSent') = Cardinality(OpenSent) + ns, seen'.sent = seen.sent + ns,
           Polling' = Polling + np, seen'.polls = seen.polls + np
    PROVE  CountInv'
<1>1. /\ AreCounts(rec.produces, Cardinality(Open), seen.given)
      /\ AreCounts(rec.produced, Cardinality(OpenAcked), seen.acked)
      /\ AreCounts(rec.durations, Cardinality(OpenSent), seen.sent)
      /\ AreCounts(rec.consumes, Polling, seen.polls)
  <2>1. /\ Cardinality(Open) \in Nat /\ Cardinality(OpenAcked) \in Nat /\ Cardinality(OpenSent) \in Nat
        /\ Polling \in Nat
    BY OpenCounted
  <2>2. /\ rec.produces \in Nat /\ rec.produced \in Nat /\ rec.durations \in Nat /\ rec.consumes \in Nat
        /\ seen.given \in Nat /\ seen.acked \in Nat /\ seen.sent \in Nat /\ seen.polls \in Nat
    BY DEF RecordType
  <2>3. QED
    BY <2>1, <2>2 DEF AreCounts
<1>2. /\ Counts(rec.produces, Cardinality(Open), seen.given, rec'.produces, Cardinality(Open'), seen'.given)
      /\ Counts(rec.produced, Cardinality(OpenAcked), seen.acked, rec'.produced, Cardinality(OpenAcked'), seen'.acked)
      /\ Counts(rec.durations, Cardinality(OpenSent), seen.sent, rec'.durations, Cardinality(OpenSent'), seen'.sent)
      /\ Counts(rec.consumes, Polling, seen.polls, rec'.consumes, Polling', seen'.polls)
  BY <1>1, Happened
<1>3. /\ Loses(rec.produces, Cardinality(Open), seen.given, rec'.produces, Cardinality(Open'), seen'.given)
      /\ Loses(rec.produced, Cardinality(OpenAcked), seen.acked, rec'.produced, Cardinality(OpenAcked'), seen'.acked)
      /\ Loses(rec.durations, Cardinality(OpenSent), seen.sent, rec'.durations, Cardinality(OpenSent'), seen'.sent)
      /\ Loses(rec.consumes, Polling, seen.polls, rec'.consumes, Polling', seen'.polls)
  BY <1>1, Happened
<1>4. rec'.produced + rec'.produceFailed = rec'.produces /\ rec'.consumeFailed <= rec'.consumes
  BY DEF CountInv
<1>5. QED
  BY <1>2, <1>3, <1>4, CountsKept

\* The end of a consume is counted, unless its context has ended.
LEMMA ConsumeCounted ==
    ASSUME TypeOK, TypeOK', PlaceInv, CountInv, Consumed
    PROVE  CountInv'
<1> USE DEF TypeOK
<1>1. pc = "polled" /\ pc' = "returned" /\ call' = call /\ seen' = seen
  BY DEF Consumed
<1>2. Open' = Open /\ Open = {}
  BY <1>1, NoOpen DEF PlaceInv, Consuming, Open, Msgs
<1>3. /\ Cardinality(Open') = 0 /\ Cardinality(OpenAcked') = 0 /\ Cardinality(OpenSent') = 0
      /\ Cardinality(Open) = 0 /\ Cardinality(OpenAcked) = 0 /\ Cardinality(OpenSent) = 0
      /\ Polling = 1 /\ Polling' = 0
  BY <1>1, <1>2, NoOpen DEF Polling, Consuming
<1>4. /\ AreCounts(rec.produces, Cardinality(Open), seen.given)
      /\ AreCounts(rec.produced, Cardinality(OpenAcked), seen.acked)
      /\ AreCounts(rec.durations, Cardinality(OpenSent), seen.sent)
      /\ AreCounts(rec.consumes, Polling, seen.polls)
  <2>1. /\ rec.produces \in Nat /\ rec.produced \in Nat /\ rec.durations \in Nat /\ rec.consumes \in Nat
        /\ seen.given \in Nat /\ seen.acked \in Nat /\ seen.sent \in Nat /\ seen.polls \in Nat
    BY DEF RecordType
  <2>2. QED
    BY <1>3, <2>1 DEF AreCounts
<1>5. 0 = 0 - 0 /\ 0 = 1 - 1 /\ 0 \in {0, 1} /\ 1 \in {0, 1}
  OBVIOUS
<1>6. CASE ended
  <2>1. rec' = rec /\ cut'
    BY <1>6 DEF Consumed
  <2>2. /\ Loses(rec.produces, Cardinality(Open), seen.given, rec'.produces, Cardinality(Open'), seen'.given)
        /\ Loses(rec.produced, Cardinality(OpenAcked), seen.acked, rec'.produced, Cardinality(OpenAcked'), seen'.acked)
        /\ Loses(rec.durations, Cardinality(OpenSent), seen.sent, rec'.durations, Cardinality(OpenSent'), seen'.sent)
        /\ Loses(rec.consumes, Polling, seen.polls, rec'.consumes, Polling', seen'.polls)
    BY <1>1, <1>3, <1>4, <1>5, <2>1, Lost
  <2>3. rec'.produced + rec'.produceFailed = rec'.produces /\ rec'.consumeFailed <= rec'.consumes
    BY <2>1 DEF CountInv
  <2>4. QED
    BY <2>1, <2>2, <2>3, CountsKept
<1>7. CASE ~ended
  <2>1. /\ cut' = cut
        /\ rec' = [rec EXCEPT !.consumes = @ + 1,
                              !.consumeFailed = IF call.failure THEN rec.consumeFailed + 1 ELSE rec.consumeFailed]
    BY <1>7 DEF Consumed, PlaceType
  <2>2. /\ rec'.produces = rec.produces /\ rec'.produced = rec.produced /\ rec'.durations = rec.durations
        /\ rec'.produceFailed = rec.produceFailed /\ rec'.consumes = rec.consumes + 1
        /\ rec'.consumeFailed \in {rec.consumeFailed, rec.consumeFailed + 1}
    BY <2>1 DEF RecordType
  <2>3. /\ rec.produces \in Nat /\ rec.produced \in Nat /\ rec.durations \in Nat /\ rec.consumes \in Nat
        /\ rec.consumeFailed \in Nat
    BY DEF RecordType
  <2>4. /\ rec'.produces = rec.produces + 0 /\ rec'.produced = rec.produced + 0
        /\ rec'.durations = rec.durations + 0
    BY <2>2, <2>3
  <2>5. rec'.produced + rec'.produceFailed = rec'.produces /\ rec'.consumeFailed <= rec'.consumes
    BY <2>2, <2>3 DEF CountInv
  <2>6. /\ Counts(rec.produces, Cardinality(Open), seen.given, rec'.produces, Cardinality(Open'), seen'.given)
        /\ Counts(rec.produced, Cardinality(OpenAcked), seen.acked, rec'.produced, Cardinality(OpenAcked'), seen'.acked)
        /\ Counts(rec.durations, Cardinality(OpenSent), seen.sent, rec'.durations, Cardinality(OpenSent'), seen'.sent)
        /\ Counts(rec.consumes, Polling, seen.polls, rec'.consumes, Polling', seen'.polls)
    BY <1>1, <1>3, <1>4, <1>5, <2>2, <2>4, Moved
  <2>7. /\ Loses(rec.produces, Cardinality(Open), seen.given, rec'.produces, Cardinality(Open'), seen'.given)
        /\ Loses(rec.produced, Cardinality(OpenAcked), seen.acked, rec'.produced, Cardinality(OpenAcked'), seen'.acked)
        /\ Loses(rec.durations, Cardinality(OpenSent), seen.sent, rec'.durations, Cardinality(OpenSent'), seen'.sent)
        /\ Loses(rec.consumes, Polling, seen.polls, rec'.consumes, Polling', seen'.polls)
    BY <1>1, <1>3, <1>4, <1>5, <2>2, <2>4, Moved
  <2>8. QED
    BY <2>1, <2>5, <2>6, <2>7, CountsKept
<1>8. QED
  BY <1>6, <1>7

\* A new call: its messages are given, and all of them are open.
LEMMA SendCounted ==
    ASSUME TypeOK, TypeOK', PlaceInv, CountInv, NEW i \in 1..MaxObjects, NEW msgs \in Batches, Send(i, msgs)
    PROVE  CountInv'
<1> USE DEF TypeOK
<1>1. /\ Len(msgs) \in Nat /\ call'.msgs = msgs /\ \A j \in 1..Len(msgs) : call'.results[j] = "none"
  BY SendEffect
<1>2. /\ pc = "script" /\ pc' = "building" /\ UNCHANGED <<rec, cut>>
      /\ seen' = [seen EXCEPT !.given = @ + Len(msgs)]
  BY DEF Send
<1>3. Open = {} /\ Open' = 1..Len(msgs)
  BY <1>1, <1>2, NoOpen DEF PlaceInv, Between, Open, Msgs
<1>4. /\ Cardinality(Open) = 0 /\ Cardinality(OpenAcked) = 0 /\ Cardinality(OpenSent) = 0
      /\ OpenAcked' = {} /\ OpenSent' = {} /\ Polling = 0 /\ Polling' = 0
  BY <1>2, <1>3, NoOpen, NothingSent DEF Polling, Consuming
<1>5. Cardinality(Open') = Len(msgs) /\ Cardinality(OpenAcked') = 0 /\ Cardinality(OpenSent') = 0
  <2>1. ASSUME NEW n \in Nat PROVE Cardinality(1..n) = n
    <3>1. 1 \in Int /\ n \in Int /\ (IF 1 > n THEN 0 ELSE n - 1 + 1) = n
      OBVIOUS
    <3>2. QED
      BY <3>1, FS_Interval
  <2>2. QED
    BY <1>1, <1>3, <1>4, <2>1, FS_EmptySet
<1>6. /\ seen'.given = seen.given + Len(msgs) /\ seen'.acked = seen.acked + 0 /\ seen'.sent = seen.sent + 0
      /\ seen'.polls = seen.polls + 0
  BY <1>1, <1>2, SMTT(30) DEF RecordType
<1>7. 0 + Len(msgs) = Len(msgs) /\ 0 + 0 = 0 /\ 0 \in Nat
  BY <1>1
<1>8. QED
  BY <1>1, <1>2, <1>4, <1>5, <1>6, <1>7, MoreOpen, ZenonT(40)

\* A consume begins.
LEMMA ConsumeBegins ==
    ASSUME TypeOK, TypeOK', PlaceInv, PlaceInv', CountInv, NEW i \in 1..MaxObjects, Consume(i)
    PROVE  CountInv'
<1> USE DEF TypeOK
<1>1. /\ pc = "script" /\ pc' = "lookup" /\ UNCHANGED <<rec, cut>>
      /\ seen' = [seen EXCEPT !.polls = @ + 1]
  BY DEF Consume
<1>2. Open = {} /\ Open' = {}
  BY <1>1, NoOpen DEF PlaceInv, Between, Consuming
<1>3. /\ Cardinality(Open) = 0 /\ Cardinality(OpenAcked) = 0 /\ Cardinality(OpenSent) = 0
      /\ Cardinality(Open') = 0 /\ Cardinality(OpenAcked') = 0 /\ Cardinality(OpenSent') = 0
      /\ Polling = 0 /\ Polling' = 1
  BY <1>1, <1>2, NoOpen DEF Polling, Consuming
<1>4. /\ seen'.given = seen.given + 0 /\ seen'.acked = seen.acked + 0 /\ seen'.sent = seen.sent + 0
      /\ seen'.polls = seen.polls + 1
  BY <1>1 DEF RecordType
<1>5. 0 + 1 = 1 /\ 0 + 0 = 0 /\ 0 \in Nat /\ 1 \in Nat
  OBVIOUS
<1>6. QED
  BY <1>1, <1>3, <1>4, <1>5, MoreOpen

\* Building a message.
LEMMA BuildCounted ==
    ASSUME TypeOK, TypeOK', ResultInv, CountInv, Build
    PROVE  CountInv'
<1> USE DEF TypeOK
<1>1. /\ call'.msgs = call.msgs /\ call'.outcome = call.outcome
      /\ call.next \in 1..Len(call.msgs) /\ call.next \in 1..Len(call.results)
  BY BuildKeeps
<1>2. pc = "building" /\ pc' = pc /\ UNCHANGED <<seen, ended>>
  BY DEF Build
<1>3. call.next \in Open /\ Len(call.results) = Len(call.msgs)
  BY <1>1, <1>2 DEF ResultInv, Open, Msgs
<1>4. OpenAcked = {} /\ OpenSent = {} /\ OpenAcked' = {} /\ OpenSent' = {}
  BY <1>2, NothingSent
<1>5. CASE call.msgs[call.next] = "invalid"
  <2>1. result(call.next, "invalid") /\ "invalid" \in Codes \ {"none"}
    BY <1>5 DEF Build, Codes
  <2>2. /\ (call.next \in OpenAcked <=> "invalid" = "acked")
        /\ (call.next \in OpenSent <=> "invalid" \in {"acked", "failed"})
    BY <1>4
  <2>3. QED
    BY <1>2, <1>3, <2>1, <2>2, ResultCounted
<1>6. CASE call.msgs[call.next] # "invalid"
  <2>1. call'.results = call.results /\ UNCHANGED <<rec, cut>>
    BY <1>6, IndexEffect DEF Build
  <2>2. Open' = Open /\ Polling' = Polling
    BY <1>1, <1>2, <2>1 DEF Open, Msgs, Polling
  <2>3. QED
    BY <1>2, <1>4, <2>1, <2>2, CountsSame
<1>7. QED
  BY <1>5, <1>6

\* Once every message is built, the client is there, or nothing is sent.
LEMMA BuiltCounted ==
    ASSUME TypeOK, TypeOK', ResultInv, CountInv, Built
    PROVE  CountInv'
<1> USE DEF TypeOK
<1>1. pc = "building" /\ call.next > Len(call.msgs) /\ UNCHANGED <<rec, cut>>
  BY DEF Built
<1>2. /\ OpenAcked = {} /\ OpenSent = {} /\ Cardinality(OpenAcked) = 0 /\ Cardinality(OpenSent) = 0
  BY <1>1, NothingSent, FS_EmptySet
<1>3. Len(call.index) = Cardinality(Open) /\ Cardinality(Open) \in Nat
  BY <1>1, ValidIsOpen, OpenCounted DEF ResultInv
<1>4. CASE /\ pc' = "sending" /\ UNCHANGED call
           /\ seen' = [seen EXCEPT !.sent = @ + Len(call.index)]
  <2>1. Open' = Open /\ OpenAcked' = {} /\ OpenSent' = Open' /\ Polling = 0 /\ Polling' = 0
    BY <1>1, <1>4 DEF Open, Msgs, OpenAcked, OpenSent, Polling, Consuming
  <2>2. /\ seen'.given = seen.given + 0 /\ seen'.acked = seen.acked + 0
        /\ seen'.sent = seen.sent + Cardinality(Open) /\ seen'.polls = seen.polls + 0
    <3>1. seen' = [seen EXCEPT !.sent = seen.sent + Cardinality(Open)]
      BY <1>3, <1>4
    <3>2. /\ seen'.given = seen.given /\ seen'.acked = seen.acked /\ seen'.polls = seen.polls
          /\ seen'.sent = seen.sent + Cardinality(Open)
      BY <3>1 DEF RecordType
    <3>3. seen.given + 0 = seen.given /\ seen.acked + 0 = seen.acked /\ seen.polls + 0 = seen.polls
      BY DEF RecordType
    <3>4. QED
      BY <3>2, <3>3
  <2>3. /\ Cardinality(Open) + 0 = Cardinality(Open) /\ 0 + Cardinality(Open) = Cardinality(Open)
        /\ 0 + 0 = 0 /\ 0 \in Nat /\ Cardinality(OpenAcked') = 0
    BY <1>3, <2>1, FS_EmptySet
  <2>4. QED
    BY <1>1, <1>2, <1>3, <2>1, <2>2, <2>3, MoreOpen
<1>5. CASE /\ pc' = "results" /\ UNCHANGED seen
           /\ call' = [call EXCEPT !.order = call.index, !.next = 1,
                                   !.outcome = [m \in DOMAIN call.msgs |-> "unsent"]]
  <2>1. /\ call'.msgs = call.msgs /\ call'.results = call.results
        /\ \A m \in 1..Len(call.msgs) : call'.outcome[m] = "unsent"
    BY <1>5, UnsentEffect
  <2>2. Open' = Open /\ Polling' = Polling
    BY <1>1, <1>5, <2>1 DEF Open, Msgs, Polling, Consuming
  <2>3. \A m \in Open' : call'.outcome[m] = "unsent"
    BY <2>1, <2>2 DEF Open, Msgs
  <2>4. OpenAcked' = {} /\ OpenSent' = {}
    BY <1>5, <2>3 DEF OpenAcked, OpenSent
  <2>5. QED
    BY <1>1, <1>2, <1>5, <2>2, <2>4, CountsSame
<1>6. QED
  BY <1>4, <1>5 DEF Built

\* The broker's answers.
LEMMA SyncCounted ==
    ASSUME TypeOK, TypeOK', ResultInv, CountInv, ProduceSync
    PROVE  CountInv'
<1> USE DEF TypeOK
<1>1. pc = "sending" /\ pc' = "results" /\ UNCHANGED <<rec, cut>>
  BY DEF ProduceSync
<1>2. PICK out \in [DOMAIN call.msgs -> {"acked", "failed"}] :
        /\ \A m \in 1..Len(call.msgs) : call.msgs[m] = "invalid" => out[m] = "failed"
        /\ call'.outcome = out /\ call'.msgs = call.msgs /\ call'.results = call.results
        /\ seen' = [seen EXCEPT !.acked = @ + Cardinality({m \in 1..Len(call.msgs) : out[m] = "acked"})]
  BY SyncEffect
<1> DEFINE A == {m \in 1..Len(call.msgs) : out[m] = "acked"}
<1>3. /\ Len(call.msgs) \in Nat /\ DOMAIN call.msgs = 1..Len(call.msgs) /\ \A m \in Msgs : call.msgs[m] \in Kinds
  BY LenProperties, ElementOfSeq DEF CallType, Calls, Msgs
<1>4. \A m \in Msgs : call.results[m] = IF call.msgs[m] = "invalid" THEN "invalid" ELSE "none"
  BY <1>1 DEF ResultInv
<1>5. Open' = Open /\ Polling = 0 /\ Polling' = 0 /\ OpenAcked = {} /\ OpenSent = Open
  BY <1>1, <1>2 DEF Open, Msgs, Polling, Consuming, OpenAcked, OpenSent
<1>6. \A m \in Open : out[m] \in {"acked", "failed"}
  BY <1>2, <1>3 DEF Open, Msgs
<1>7. OpenSent' = Open
  BY <1>1, <1>2, <1>5, <1>6 DEF OpenSent
<1>8. \A m \in Msgs : out[m] = "acked" => m \in Open
  <2> SUFFICES ASSUME NEW m \in Msgs, out[m] = "acked" PROVE m \in Open
    OBVIOUS
  <2>1. call.msgs[m] # "invalid"
    BY <1>2 DEF Msgs
  <2>2. QED
    BY <1>4, <2>1 DEF Open
<1>9. OpenAcked' = A
  BY <1>1, <1>2, <1>5, <1>8 DEF OpenAcked, Open, Msgs
<1>10. Cardinality(A) \in Nat /\ Cardinality(Open) \in Nat
  BY CountedMessages, OpenCounted
<1> HIDE DEF A
<1>11. /\ seen'.given = seen.given + 0 /\ seen'.acked = seen.acked + Cardinality(A)
       /\ seen'.sent = seen.sent + 0 /\ seen'.polls = seen.polls + 0
  <2>1. seen' = [seen EXCEPT !.acked = @ + Cardinality(A)]
    BY <1>2 DEF A
  <2>2. QED
    BY <1>10, <2>1 DEF RecordType
<1>12. /\ Cardinality(Open) + 0 = Cardinality(Open) /\ 0 + Cardinality(A) = Cardinality(A)
       /\ 0 + 0 = 0 /\ 0 \in Nat /\ Cardinality(OpenAcked) = 0
  BY <1>5, <1>10, FS_EmptySet
<1>13. QED
  BY <1>1, <1>5, <1>7, <1>9, <1>10, <1>11, <1>12, MoreOpen

\* The result of a record.
LEMMA TakeCounted ==
    ASSUME TypeOK, TypeOK', ResultInv, CountInv, TakeResult
    PROVE  CountInv'
<1> USE DEF TypeOK
<1> DEFINE k == call.order[call.next]
<1>1. /\ k \in Msgs /\ call.results[k] = "none" /\ call.outcome[k] \in Codes \ {"none"}
      /\ result(k, call.outcome[k])
  BY ResultToTake
<1> HIDE DEF k
<1>2. pc = "results" /\ pc' = pc /\ UNCHANGED <<seen, ended>> /\ Len(call.results) = Len(call.msgs)
  BY DEF TakeResult, ResultInv
<1>3. k \in Open
  BY <1>1 DEF Open
<1>4. /\ k \in OpenAcked <=> call.outcome[k] = "acked"
      /\ k \in OpenSent <=> call.outcome[k] \in {"acked", "failed"}
  BY <1>2, <1>3 DEF OpenAcked, OpenSent
<1>5. QED
  BY <1>1, <1>2, <1>3, <1>4, ResultCounted

\* The families fall short of what happened by what is open, and by what was cut off.
LEMMA CountStep ==
    ASSUME TypeOK, TypeOK', PlaceInv, PlaceInv', ResultInv, ResultInv', CountInv
    PROVE  [Next]_vars => CountInv'
<1>1. ASSUME Begin PROVE CountInv'
  <2>1. /\ pc \in Between /\ pc' \in Between /\ UNCHANGED <<seen, cut>> /\ UNCHANGED rec
    BY <1>1 DEF Begin, Between, Consuming
  <2>2. Open = {} /\ Open' = {}
    BY <2>1, NoOpen DEF PlaceInv
  <2>3. QED
    BY <2>1, <2>2, NoOpen, CountsSame DEF Polling, Between, Consuming
<1>2. ASSUME EndContext PROVE CountInv'
  <2>1. UNCHANGED <<pc, call, rec, seen, cut>>
    BY <1>2 DEF EndContext
  <2>2. Open' = Open /\ OpenAcked' = OpenAcked /\ OpenSent' = OpenSent /\ Polling' = Polling
    BY <2>1 DEF Open, Msgs, OpenAcked, OpenSent, Polling
  <2>3. QED
    BY <2>1, <2>2, CountsSame
<1>3. ASSUME Return PROVE CountInv'
  <2>1. /\ pc \in Between /\ pc' \in Between /\ UNCHANGED <<seen, cut>> /\ UNCHANGED rec
    BY <1>3 DEF Return, Between, Consuming
  <2>2. Open = {} /\ Open' = {}
    BY <2>1, NoOpen DEF PlaceInv
  <2>3. QED
    BY <2>1, <2>2, NoOpen, CountsSame DEF Polling, Between, Consuming
<1>4. ASSUME CloseVU PROVE CountInv'
  <2>1. /\ pc \in Between /\ pc' \in Between /\ UNCHANGED <<seen, cut>> /\ UNCHANGED rec
    BY <1>4 DEF CloseVU, Between, Consuming
  <2>2. Open = {} /\ Open' = {}
    BY <2>1, NoOpen DEF PlaceInv
  <2>3. QED
    BY <2>1, <2>2, NoOpen, CountsSame DEF Polling, Between, Consuming
<1>5. ASSUME CloseNext PROVE CountInv'
  <2>1. /\ pc \in Between /\ pc' \in Between /\ UNCHANGED <<seen, cut>> /\ UNCHANGED rec
    BY <1>5 DEF CloseNext, Between, Consuming
  <2>2. Open = {} /\ Open' = {}
    BY <2>1, NoOpen DEF PlaceInv
  <2>3. QED
    BY <2>1, <2>2, NoOpen, CountsSame DEF Polling, Between, Consuming
<1>6. ASSUME NEW r \in Roles, Construct(r) PROVE CountInv'
  <2>1. /\ pc \in Between /\ pc' \in Between /\ UNCHANGED <<seen, cut>> /\ UNCHANGED rec
    BY <1>6 DEF Construct, Between, Consuming
  <2>2. Open = {} /\ Open' = {}
    BY <2>1, NoOpen DEF PlaceInv
  <2>3. QED
    BY <2>1, <2>2, NoOpen, CountsSame DEF Polling, Between, Consuming
<1>7. ASSUME NEW i \in DOMAIN objs, ScriptCloses(i) PROVE CountInv'
  <2>1. /\ pc \in Between /\ pc' \in Between /\ UNCHANGED <<seen, cut>> /\ UNCHANGED rec
    BY <1>7 DEF ScriptCloses, Between, Consuming
  <2>2. Open = {} /\ Open' = {}
    BY <2>1, NoOpen DEF PlaceInv
  <2>3. QED
    BY <2>1, <2>2, NoOpen, CountsSame DEF Polling, Between, Consuming
<1>8. ASSUME NEW i \in 1..MaxObjects, NEW msgs \in Batches, Send(i, msgs) PROVE CountInv'
  BY <1>8, SendCounted
<1>9. ASSUME NEW i \in 1..MaxObjects, Consume(i) PROVE CountInv'
  BY <1>9, ConsumeBegins
<1>10. ASSUME NEW i \in 1..MaxObjects, NEW r \in Roles, CallOutside(r, i) PROVE CountInv'
  <2>1. /\ pc \in Between /\ pc' \in Between /\ UNCHANGED <<seen, cut>> /\ UNCHANGED rec
    BY <1>10 DEF CallOutside, Between, Consuming
  <2>2. Open = {} /\ Open' = {}
    BY <2>1, NoOpen DEF PlaceInv
  <2>3. QED
    BY <2>1, <2>2, NoOpen, CountsSame DEF Polling, Between, Consuming
<1>11. ASSUME Build PROVE CountInv'
  BY <1>11, BuildCounted
<1>12. ASSUME NothingToSend PROVE CountInv'
  <2>1. pc = "building" /\ pc' = "returned" /\ UNCHANGED <<call, rec, seen, cut>>
    BY <1>12 DEF NothingToSend
  <2>2. /\ Open' = Open /\ Polling' = Polling
        /\ OpenAcked = {} /\ OpenSent = {} /\ OpenAcked' = {} /\ OpenSent' = {}
    BY <2>1, NothingSent DEF Open, Msgs, Polling, Consuming
  <2>3. QED
    BY <2>1, <2>2, CountsSame
<1>13. ASSUME Built PROVE CountInv'
  BY <1>13, BuiltCounted
<1>14. ASSUME ProduceSync PROVE CountInv'
  BY <1>14, SyncCounted
<1>15. ASSUME TakeResult PROVE CountInv'
  BY <1>15, TakeCounted
<1>16. ASSUME Sent PROVE CountInv'
  <2>1. pc = "results" /\ pc' = "returned" /\ UNCHANGED <<call, rec, seen, cut>>
    BY <1>16 DEF Sent
  <2>2. Open' = Open /\ Open' = {} /\ Polling' = Polling
    BY <2>1 DEF Open, Msgs, ResultInv, Polling, Consuming
  <2>3. QED
    BY <2>1, <2>2, NoOpen, CountsSame
<1>17. ASSUME Lookup PROVE CountInv'
  <2>1. /\ pc \in Consuming /\ pc' \in Consuming /\ UNCHANGED <<seen, cut>> /\ UNCHANGED rec
    BY <1>17 DEF Lookup, Between, Consuming
  <2>2. Open = {} /\ Open' = {}
    BY <2>1, NoOpen DEF PlaceInv
  <2>3. QED
    BY <2>1, <2>2, NoOpen, CountsSame DEF Polling, Between, Consuming
<1>18. ASSUME PollRecords PROVE CountInv'
  <2>1. /\ pc \in Consuming /\ pc' \in Consuming /\ UNCHANGED <<seen, cut>> /\ UNCHANGED rec
    BY <1>18 DEF PollRecords, Between, Consuming
  <2>2. Open = {} /\ Open' = {}
    BY <2>1, NoOpen DEF PlaceInv
  <2>3. QED
    BY <2>1, <2>2, NoOpen, CountsSame DEF Polling, Between, Consuming
<1>19. ASSUME TakeMessage PROVE CountInv'
  <2>1. /\ pc = "polled" /\ pc' = pc /\ UNCHANGED <<seen, cut>>
    BY <1>19 DEF TakeMessage
  <2>2. Open = {} /\ Open' = {} /\ Polling' = Polling
    BY <2>1, NoOpen DEF PlaceInv, Consuming, Polling
  <2>3. /\ rec'.produced = rec.produced /\ rec'.produceFailed = rec.produceFailed
        /\ rec'.produces = rec.produces /\ rec'.durations = rec.durations
        /\ rec'.consumes = rec.consumes /\ rec'.consumeFailed = rec.consumeFailed
    BY <1>19 DEF TakeMessage, RecordType
  <2>4. QED
    BY <2>1, <2>2, <2>3, NoOpen, CountsSame
<1>20. ASSUME Consumed PROVE CountInv'
  BY <1>20, ConsumeCounted
<1>21. ASSUME GoOn PROVE CountInv'
  <2>1. pc = "returned" /\ pc' = "script" /\ UNCHANGED <<rec, seen, cut>>
    BY <1>21 DEF GoOn
  <2>2. Open = {} /\ Open' = {} /\ Polling' = Polling
    BY <2>1, NoOpen DEF Open, Msgs, ResultInv, PlaceInv, Between, Polling, Consuming
  <2>3. QED
    BY <2>1, <2>2, NoOpen, CountsSame
<1>22. ASSUME UNCHANGED vars PROVE CountInv'
  <2>1. UNCHANGED <<pc, call, rec, seen, cut>>
    BY <1>22 DEF vars
  <2>2. Open' = Open /\ OpenAcked' = OpenAcked /\ OpenSent' = OpenSent /\ Polling' = Polling
    BY <2>1 DEF Open, Msgs, OpenAcked, OpenSent, Polling
  <2>3. QED
    BY <2>1, <2>2, CountsSame
<1>23. QED
  BY <1>1, <1>2, <1>3, <1>4, <1>5, <1>6, <1>7, <1>8, <1>9, <1>10, <1>11, <1>12,
     <1>13, <1>14, <1>15, <1>16, <1>17, <1>18, <1>19, <1>20, <1>21, <1>22 DEF Next, Working

-----------------------------------------------------------------------------
(* The invariant *)

\* It holds before the VU has done anything.
LEMMA KafkaInit == Init => KafkaInv
<1> SUFFICES ASSUME Init PROVE KafkaInv
  OBVIOUS
<1>1. TypeOK
  <2>1. PlaceType
    BY DEF Init, PlaceType, Between
  <2>2. ObjectType
    BY EmptySeq DEF Init, ObjectType
  <2>3. CallType
    BY IdleCall DEF Init, CallType
  <2>4. RecordType
    BY DEF Init, RecordType, NoRecords
  <2>5. QED
    BY <2>1, <2>2, <2>3, <2>4 DEF TypeOK
<1>2. PlaceInv /\ ClientInv /\ ResultInv
  BY DEF Init, Idle, PlaceInv, ClientInv, ResultInv, Between, Producing, Consuming
<1>3. CountInv
  <2>1. Open = {} /\ Polling = 0
    BY NoOpen DEF Init, Idle, Polling, Consuming
  <2>2. Cardinality(Open) = 0 /\ Cardinality(OpenAcked) = 0 /\ Cardinality(OpenSent) = 0
    BY <2>1, NoOpen
  <2>3. QED
    BY <2>1, <2>2 DEF Init, NoRecords, CountInv
<1>4. QED
  BY <1>1, <1>2, <1>3 DEF KafkaInv

\* Every step keeps it.
LEMMA KafkaStep == KafkaInv /\ [Next]_vars => KafkaInv'
<1> SUFFICES ASSUME KafkaInv, [Next]_vars PROVE KafkaInv'
  OBVIOUS
<1>1. PlaceType /\ ObjectType /\ CallType /\ RecordType /\ PlaceInv /\ ClientInv /\ ResultInv /\ CountInv /\ TypeOK
  BY DEF KafkaInv, TypeOK
<1>2. PlaceType' /\ ObjectType' /\ CallType' /\ RecordType'
  BY <1>1, PlaceTypeStep, ObjectTypeStep, CallTypeStep, RecordTypeStep
<1>3. PlaceInv' /\ ClientInv' /\ TypeOK'
  BY <1>1, <1>2, PlaceStep, ClientStep DEF TypeOK
<1>4. ResultInv'
  BY <1>1, <1>2, <1>3, ResultStep
<1>5. CountInv'
  BY <1>1, <1>3, <1>4, CountStep
<1>6. QED
  BY <1>3, <1>4, <1>5 DEF KafkaInv

\* The inductive invariant holds in every behaviour of the module in a VU:
\* the calls, their results, the clients and the counters fit together.
THEOREM KafkaInvariance == Spec => []KafkaInv
<1>1. QED
  BY KafkaInit, KafkaStep, PTL DEF Spec

\* The variables keep their types.
THEOREM TypeCorrect == Spec => []TypeOK
<1>1. KafkaInv => TypeOK
  BY DEF KafkaInv
<1>2. QED
  BY <1>1, KafkaInvariance, PTL

\* A batch of any length gives each of its messages the result of its own
\* record, in whatever order the broker completes them (producer.send).
THEOREM EachMessageItsResult == Spec => []ResultsAreTheMessages
<1>1. KafkaInv => ResultsAreTheMessages
  <2> SUFFICES ASSUME KafkaInv, pc = "returned", NEW m \in DOMAIN call.msgs
               PROVE  call.results[m] = IF call.msgs[m] = "invalid" THEN "invalid" ELSE call.outcome[m]
    BY DEF ResultsAreTheMessages
  <2>1. m \in Msgs
    BY LenProperties DEF KafkaInv, TypeOK, CallType, Calls, Msgs
  <2>2. QED
    BY <2>1 DEF KafkaInv, ResultInv
<1>2. QED
  BY <1>1, KafkaInvariance, PTL

\* The families of the module agree with what happened between calls, unless a
\* context cut one off, and never exceed it (producer.result, consumer.consume).
THEOREM FamiliesAgree == Spec => []FamiliesExact
<1>1. KafkaInv => FamiliesExact
  <2> SUFFICES ASSUME KafkaInv PROVE FamiliesExact
    OBVIOUS
  <2>1. /\ Cardinality(Open) \in Nat /\ Cardinality(OpenAcked) \in Nat /\ Cardinality(OpenSent) \in Nat
        /\ Polling \in Nat
    BY OpenCounted DEF KafkaInv, TypeOK
  <2>2. /\ rec.produces \in Nat /\ rec.produced \in Nat /\ rec.durations \in Nat /\ rec.consumes \in Nat
        /\ seen.given \in Nat /\ seen.acked \in Nat /\ seen.sent \in Nat /\ seen.polls \in Nat
    BY DEF KafkaInv, TypeOK, RecordType
  <2>3. /\ rec.produces <= seen.given /\ rec.produced <= seen.acked /\ rec.durations <= seen.sent
        /\ rec.consumes <= seen.polls
    BY <2>1, <2>2 DEF KafkaInv, CountInv
  <2>4. ASSUME pc \in {"script", "idle", "closed"}, ~cut
        PROVE  /\ rec.produces = seen.given /\ rec.produced = seen.acked /\ rec.durations = seen.sent
               /\ rec.consumes = seen.polls
    <3>1. Open = {} /\ Polling = 0
      BY <2>4, NoOpen DEF KafkaInv, PlaceInv, Between, Polling, Consuming
    <3>2. Cardinality(Open) = 0 /\ Cardinality(OpenAcked) = 0 /\ Cardinality(OpenSent) = 0
      BY <3>1, NoOpen
    <3>3. QED
      BY <2>2, <2>4, <3>1, <3>2 DEF KafkaInv, CountInv
  <2>5. QED
    BY <2>3, <2>4 DEF FamiliesExact, KafkaInv, CountInv
<1>2. QED
  BY <1>1, KafkaInvariance, PTL

\* No client is open once the VU is closed, and none is opened on a closed
\* producer or consumer, however many the script made (Close, clientFor, OnClose).
THEOREM NoClientLeft == Spec => []ClientsReleased
<1>1. KafkaInv => ClientsReleased
  <2>1. KafkaInv => DOMAIN objs = 1..Len(objs)
    BY LenProperties DEF KafkaInv, TypeOK, ObjectType
  <2>2. QED
    BY <2>1 DEF KafkaInv, ClientInv, ClientsReleased
<1>2. QED
  BY <1>1, KafkaInvariance, PTL

=============================================================================
