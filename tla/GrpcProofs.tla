----------------------------- MODULE GrpcProofs -----------------------------
(***************************************************************************)
(* Proofs about Grpc, for any set of VUs and any number of iterations,     *)
(* connects and calls.                                                     *)
(***************************************************************************)
EXTENDS Grpc, FiniteSetTheorems, SequenceTheorems, TLAPS

Places == {"idle", "script", "waitReady", "once", "fetch", "invoke", "newStream", "endIteration", "closed"}
States == {"new", "running", "ok", "failed"}

PlaceType  == pc \in [VUs -> Places] /\ ended \in [VUs -> BOOLEAN]
CacheType  == once \in Seq(States) /\ reflected \in Nat /\ entry \in [VUs -> Nat]
ConnType   == conn \in [VUs -> BOOLEAN] /\ live \in [VUs -> Int]
StreamType == open \in [VUs -> Seq(BOOLEAN)]
RecordType == /\ rec \in [VUs -> [streams : Nat, durations : Nat, rates : Nat,
                                  unaryDurations : Nat, unaryRates : Nat]]
              /\ made \in [VUs -> [unopened : Nat, unsent : Nat, invoked : Nat]]

\* The types of the state the properties look at.
TypeOK == PlaceType /\ CacheType /\ ConnType /\ StreamType /\ RecordType

\* Only the current entry can be anything but failed, so there is one fetch at a
\* time: a new entry is made when the last one has failed and was evicted.
CacheInv ==
    /\ reflected \in 0..Len(once)
    /\ \A e \in 1..Len(once) : e # reflected => once[e] = "failed"
    /\ \A v \in VUs : pc[v] \in {"once", "fetch"} => entry[v] \in 1..Len(once)
    /\ \A v \in VUs : pc[v] = "fetch" => once[entry[v]] = "running"
    /\ \A u, v \in VUs : pc[u] = "fetch" /\ pc[v] = "fetch" => u = v
    /\ \A e \in failures : e \in 1..Len(once) /\ once[e] = "failed" /\ e # reflected

\* A connection that dial has made but not yet kept is the only one.
ConnInv ==
    \A v \in VUs :
      /\ live[v] = IF conn[v] \/ pc[v] \in {"waitReady", "once", "fetch"} THEN 1 ELSE 0
      /\ pc[v] \in {"waitReady", "once", "fetch", "closed"} => ~conn[v]

\* Between iterations there are no streams.
StreamInv == \A v \in VUs : pc[v] \in {"idle", "closed"} => open[v] = <<>>

\* As long as its context has not ended, an iteration's records are those of its
\* calls: streams that are open or about to be lack their end.
RecordOf(v) ==
    /\ rec[v].durations <= rec[v].streams
    /\ ~ended[v] =>
         /\ rec[v].streams = rec[v].durations + Cardinality(Undone(v))
                               + (IF pc[v] = "newStream" THEN 1 ELSE 0)
         /\ rec[v].rates = rec[v].durations + made[v].unopened
         /\ made[v].invoked = rec[v].unaryDurations + (IF pc[v] = "invoke" THEN 1 ELSE 0)
         /\ rec[v].unaryRates = rec[v].unaryDurations + made[v].unsent
RecordInv == \A v \in VUs : RecordOf(v)

GrpcInv == TypeOK /\ CacheInv /\ ConnInv /\ StreamInv /\ RecordInv

-----------------------------------------------------------------------------
(* Streams that are not done *)

\* What opening a stream and finishing one do to the set of those not done.
LEMMA UndoneChanges ==
    ASSUME NEW s \in Seq(BOOLEAN)
    PROVE  LET U == {i \in DOMAIN s : ~s[i]}
               B == Append(s, FALSE)
           IN  /\ IsFiniteSet(U) /\ Cardinality(U) \in Nat
               /\ Cardinality({i \in DOMAIN B : ~B[i]}) = Cardinality(U) + 1
               /\ \A j \in U :
                    LET F == [s EXCEPT ![j] = TRUE]
                    IN  /\ F \in Seq(BOOLEAN)
                        /\ Cardinality({i \in DOMAIN F : ~F[i]}) = Cardinality(U) - 1
<1> DEFINE U == {i \in DOMAIN s : ~s[i]}
           B == Append(s, FALSE)
<1>1. DOMAIN s = 1..Len(s) /\ Len(s) \in Nat
  BY LenProperties
<1>2. IsFiniteSet(1..Len(s))
  BY <1>1, FS_Interval
<1>3. IsFiniteSet(U) /\ Cardinality(U) \in Nat
  BY <1>1, <1>2, FS_Subset, FS_CardinalityType
<1>4. Cardinality({i \in DOMAIN B : ~B[i]}) = Cardinality(U) + 1
  <2>1. /\ B \in Seq(BOOLEAN) /\ Len(B) = Len(s) + 1 /\ B[Len(s) + 1] = FALSE
        /\ \A i \in 1..Len(s) : B[i] = s[i]
    BY AppendProperties
  <2>2. DOMAIN B = 1..(Len(s) + 1)
    BY <2>1, LenProperties
  <2>3. {i \in DOMAIN B : ~B[i]} = U \cup {Len(s) + 1} /\ Len(s) + 1 \notin U
    <3> HIDE DEF B
    <3> QED BY <1>1, <2>1, <2>2
  <2>4. QED
    BY <1>3, <2>3, FS_AddElement
<1>5. ASSUME NEW j \in U
      PROVE  LET F == [s EXCEPT ![j] = TRUE]
             IN  /\ F \in Seq(BOOLEAN)
                 /\ Cardinality({i \in DOMAIN F : ~F[i]}) = Cardinality(U) - 1
  <2> DEFINE F == [s EXCEPT ![j] = TRUE]
  <2>1. F \in Seq(BOOLEAN) /\ Len(F) = Len(s) /\ \A i \in 1..Len(s) : F[i] = IF i = j THEN TRUE ELSE s[i]
    BY <1>1, ExceptSeq
  <2>2. DOMAIN F = 1..Len(s)
    BY <1>1
  <2>3. {i \in DOMAIN F : ~F[i]} = U \ {j}
    <3> HIDE DEF F
    <3> QED BY <1>1, <2>1, <2>2
  <2>4. QED
    BY <1>3, <2>1, <2>3, FS_RemoveElement
<1>6. QED
  BY <1>3, <1>4, <1>5

\* A set of naturals that is not empty has a least element.
LEMMA LeastNatural ==
    ASSUME NEW T \in SUBSET Nat, T # {}
    PROVE  \E m \in T : \A n \in T : m <= n
<1> DEFINE R == {ss \in Nat \X Nat : ss[1] < ss[2]}
<1>1. IsWellFoundedOn(R, Nat)
  BY NatLessThanWellFounded, Zenon DEF OpToRel
<1>2. PICK m \in T : \A n \in T : ~(<<n, m>> \in R)
  <2> HIDE DEF R
  <2> QED BY <1>1, WFMin, Zenon
<1>3. \A n \in T : ~(n < m)
  BY <1>2
<1>4. QED
  BY <1>3

\* The stream closeStreams takes next is one that is not done.
LEMMA FirstUndone ==
    ASSUME StreamType, NEW v \in VUs, Undone(v) # {}
    PROVE  (CHOOSE s \in Undone(v) : \A t \in Undone(v) : s <= t) \in Undone(v)
<1>1. Undone(v) \in SUBSET Nat
  BY LenProperties DEF StreamType, Undone
<1>2. \E s \in Undone(v) : \A t \in Undone(v) : s <= t
  BY <1>1, LeastNatural
<1>3. QED
  BY <1>2

-----------------------------------------------------------------------------
(* Types *)

\* Every step keeps a VU at one of its places.
LEMMA PlaceStep ==
    ASSUME PlaceType
    PROVE  [Next]_vars => PlaceType'
<1>1. ASSUME Join PROVE PlaceType'
  BY <1>1 DEF Join, PlaceType, Places, cacheVars, clientVars, streamVars, Goto
<1>2. ASSUME NEW v \in VUs, Begin(v) PROVE PlaceType'
  BY <1>2 DEF Begin, PlaceType, Places, cacheVars, clientVars, streamVars, Goto
<1>3. ASSUME NEW v \in VUs, Load(v) PROVE PlaceType'
  BY <1>3 DEF Load, PlaceType, Places, cacheVars, clientVars, streamVars, Goto
<1>4. ASSUME NEW v \in VUs, Connect(v) PROVE PlaceType'
  BY <1>4 DEF Connect, PlaceType, Places, cacheVars, clientVars, streamVars, Goto
<1>5. ASSUME NEW v \in VUs, Ready(v) PROVE PlaceType'
  BY <1>5 DEF Ready, PlaceType, Places, cacheVars, clientVars, streamVars, Goto
<1>6. ASSUME NEW v \in VUs, NotReady(v) PROVE PlaceType'
  BY <1>6 DEF NotReady, PlaceType, Places, cacheVars, clientVars, streamVars, Goto
<1>7. ASSUME NEW v \in VUs, Lookup(v) PROVE PlaceType'
  BY <1>7 DEF Lookup, PlaceType, Places, cacheVars, clientVars, streamVars, Goto
<1>8. ASSUME NEW v \in VUs, Fetch(v) PROVE PlaceType'
  BY <1>8 DEF Fetch, PlaceType, Places, cacheVars, clientVars, streamVars, Goto
<1>9. ASSUME NEW v \in VUs, Fetched(v) PROVE PlaceType'
  BY <1>9 DEF Fetched, PlaceType, Places, cacheVars, clientVars, streamVars, Goto
<1>10. ASSUME NEW v \in VUs, Connected(v) PROVE PlaceType'
  BY <1>10 DEF Connected, PlaceType, Places, cacheVars, clientVars, streamVars, Goto
<1>11. ASSUME NEW v \in VUs, ReflectFailed(v) PROVE PlaceType'
  BY <1>11 DEF ReflectFailed, PlaceType, Places, cacheVars, clientVars, streamVars, Goto
<1>12. ASSUME NEW v \in VUs, CloseClient(v) PROVE PlaceType'
  BY <1>12 DEF CloseClient, PlaceType, Places, cacheVars, clientVars, streamVars, Goto
<1>13. ASSUME NEW v \in VUs, InvokeFails(v) PROVE PlaceType'
  BY <1>13 DEF InvokeFails, PlaceType, Places, cacheVars, clientVars, streamVars, Goto
<1>14. ASSUME NEW v \in VUs, Invoke(v) PROVE PlaceType'
  BY <1>14 DEF Invoke, PlaceType, Places, cacheVars, clientVars, streamVars, Goto
<1>15. ASSUME NEW v \in VUs, Answered(v) PROVE PlaceType'
  BY <1>15 DEF Answered, PlaceType, Places, cacheVars, clientVars, streamVars, Goto
<1>16. ASSUME NEW v \in VUs, OpenFails(v) PROVE PlaceType'
  BY <1>16 DEF OpenFails, PlaceType, Places, cacheVars, clientVars, streamVars, Goto
<1>17. ASSUME NEW v \in VUs, CountStream(v) PROVE PlaceType'
  BY <1>17 DEF CountStream, PlaceType, Places, cacheVars, clientVars, streamVars, Goto
<1>18. ASSUME NEW v \in VUs, NewStream(v) PROVE PlaceType'
  BY <1>18 DEF NewStream, PlaceType, Places, cacheVars, clientVars, streamVars, Goto
<1>19. ASSUME NEW v \in VUs, EndStream(v) PROVE PlaceType'
  BY <1>19 DEF EndStream, PlaceType, Places, cacheVars, clientVars, streamVars, Goto
<1>20. ASSUME NEW v \in VUs, Return(v) PROVE PlaceType'
  BY <1>20 DEF Return, PlaceType, Places, cacheVars, clientVars, streamVars, Goto
<1>21. ASSUME NEW v \in VUs, CloseStreams(v) PROVE PlaceType'
  BY <1>21 DEF CloseStreams, PlaceType, Places, cacheVars, clientVars, streamVars, Goto
<1>22. ASSUME NEW v \in VUs, IterationOver(v) PROVE PlaceType'
  BY <1>22 DEF IterationOver, PlaceType, Places, cacheVars, clientVars, streamVars, Goto
<1>23. ASSUME NEW v \in VUs, CloseVU(v) PROVE PlaceType'
  BY <1>23 DEF CloseVU, PlaceType, Places, cacheVars, clientVars, streamVars, Goto
<1>24. ASSUME NEW v \in VUs, EndContext(v) PROVE PlaceType'
  BY <1>24 DEF EndContext, PlaceType, Places, cacheVars, clientVars, streamVars, Goto
<1>25. ASSUME UNCHANGED vars PROVE PlaceType'
  BY <1>25 DEF vars, PlaceType, Places, cacheVars, clientVars, streamVars, Goto
<1>26. QED
  BY <1>1, <1>2, <1>3, <1>4, <1>5, <1>6, <1>7, <1>8, <1>9, <1>10, <1>11, <1>12,
     <1>13, <1>14, <1>15, <1>16, <1>17, <1>18, <1>19, <1>20, <1>21, <1>22, <1>23,
     <1>24, <1>25 DEF Next, VUStep, Connecting

\* And the entries in one of their states; a VU in once.Do has one.
LEMMA CacheTypeStep ==
    ASSUME PlaceType, CacheType, CacheInv
    PROVE  [Next]_vars => CacheType'
<1>1. ASSUME Join PROVE CacheType'
  BY <1>1 DEF Join, CacheType, cacheVars, clientVars, streamVars, Goto
<1>2. ASSUME NEW v \in VUs, Begin(v) PROVE CacheType'
  BY <1>2 DEF Begin, CacheType, cacheVars, clientVars, streamVars, Goto
<1>3. ASSUME NEW v \in VUs, Load(v) PROVE CacheType'
  BY <1>3 DEF Load, CacheType, cacheVars, clientVars, streamVars, Goto
<1>4. ASSUME NEW v \in VUs, Connect(v) PROVE CacheType'
  BY <1>4 DEF Connect, CacheType, cacheVars, clientVars, streamVars, Goto
<1>5. ASSUME NEW v \in VUs, Ready(v) PROVE CacheType'
  BY <1>5 DEF Ready, CacheType, cacheVars, clientVars, streamVars, Goto
<1>6. ASSUME NEW v \in VUs, NotReady(v) PROVE CacheType'
  BY <1>6 DEF NotReady, CacheType, cacheVars, clientVars, streamVars, Goto
<1>7. ASSUME NEW v \in VUs, Lookup(v) PROVE CacheType'
  <2>1. CASE reflected # 0
    BY <1>7, <2>1 DEF Lookup, CacheType
  <2>2. CASE reflected = 0
    <3>1. once' = Append(once, "new") /\ reflected' = Len(once) + 1 /\ entry' = [entry EXCEPT ![v] = reflected']
      BY <1>7, <2>2 DEF Lookup
    <3>2. once' \in Seq(States)
      BY <3>1, AppendProperties DEF CacheType, States
    <3>3. Len(once) \in Nat
      BY LenProperties DEF CacheType
    <3>4. QED
      BY <3>1, <3>2, <3>3 DEF CacheType
  <2>3. QED
    BY <2>1, <2>2
<1>8. ASSUME NEW v \in VUs, Fetch(v) PROVE CacheType'
  BY <1>8, ExceptSeq DEF Fetch, CacheInv, States, CacheType, cacheVars, clientVars, streamVars, Goto
<1>9. ASSUME NEW v \in VUs, Fetched(v) PROVE CacheType'
  <2>1. entry[v] \in 1..Len(once) /\ UNCHANGED <<reflected, entry>>
    BY <1>9 DEF Fetched, CacheInv
  <2>2. PICK r \in {"ok", "failed"} : once' = [once EXCEPT ![entry[v]] = r]
    BY <1>9 DEF Fetched
  <2>3. QED
    BY <2>1, <2>2, ExceptSeq DEF CacheType, States
<1>10. ASSUME NEW v \in VUs, Connected(v) PROVE CacheType'
  BY <1>10 DEF Connected, CacheType, cacheVars, clientVars, streamVars, Goto
<1>11. ASSUME NEW v \in VUs, ReflectFailed(v) PROVE CacheType'
  BY <1>11 DEF ReflectFailed, Evict, CacheType, cacheVars, clientVars, streamVars, Goto
<1>12. ASSUME NEW v \in VUs, CloseClient(v) PROVE CacheType'
  BY <1>12 DEF CloseClient, CacheType, cacheVars, clientVars, streamVars, Goto
<1>13. ASSUME NEW v \in VUs, InvokeFails(v) PROVE CacheType'
  BY <1>13 DEF InvokeFails, CacheType, cacheVars, clientVars, streamVars, Goto
<1>14. ASSUME NEW v \in VUs, Invoke(v) PROVE CacheType'
  BY <1>14 DEF Invoke, CacheType, cacheVars, clientVars, streamVars, Goto
<1>15. ASSUME NEW v \in VUs, Answered(v) PROVE CacheType'
  BY <1>15 DEF Answered, CacheType, cacheVars, clientVars, streamVars, Goto
<1>16. ASSUME NEW v \in VUs, OpenFails(v) PROVE CacheType'
  BY <1>16 DEF OpenFails, CacheType, cacheVars, clientVars, streamVars, Goto
<1>17. ASSUME NEW v \in VUs, CountStream(v) PROVE CacheType'
  BY <1>17 DEF CountStream, CacheType, cacheVars, clientVars, streamVars, Goto
<1>18. ASSUME NEW v \in VUs, NewStream(v) PROVE CacheType'
  BY <1>18 DEF NewStream, CacheType, cacheVars, clientVars, streamVars, Goto
<1>19. ASSUME NEW v \in VUs, EndStream(v) PROVE CacheType'
  BY <1>19 DEF EndStream, CacheType, cacheVars, clientVars, streamVars, Goto
<1>20. ASSUME NEW v \in VUs, Return(v) PROVE CacheType'
  BY <1>20 DEF Return, CacheType, cacheVars, clientVars, streamVars, Goto
<1>21. ASSUME NEW v \in VUs, CloseStreams(v) PROVE CacheType'
  BY <1>21 DEF CloseStreams, CacheType, cacheVars, clientVars, streamVars, Goto
<1>22. ASSUME NEW v \in VUs, IterationOver(v) PROVE CacheType'
  BY <1>22 DEF IterationOver, CacheType, cacheVars, clientVars, streamVars, Goto
<1>23. ASSUME NEW v \in VUs, CloseVU(v) PROVE CacheType'
  BY <1>23 DEF CloseVU, CacheType, cacheVars, clientVars, streamVars, Goto
<1>24. ASSUME NEW v \in VUs, EndContext(v) PROVE CacheType'
  BY <1>24 DEF EndContext, CacheType, cacheVars, clientVars, streamVars, Goto
<1>25. ASSUME UNCHANGED vars PROVE CacheType'
  BY <1>25 DEF vars, CacheType, cacheVars, clientVars, streamVars, Goto
<1>26. QED
  BY <1>1, <1>2, <1>3, <1>4, <1>5, <1>6, <1>7, <1>8, <1>9, <1>10, <1>11, <1>12,
     <1>13, <1>14, <1>15, <1>16, <1>17, <1>18, <1>19, <1>20, <1>21, <1>22, <1>23,
     <1>24, <1>25 DEF Next, VUStep, Connecting

\* And the connections counted.
LEMMA ConnTypeStep ==
    ASSUME PlaceType, ConnType
    PROVE  [Next]_vars => ConnType'
<1>1. ASSUME Join PROVE ConnType'
  BY <1>1 DEF Join, ConnType, cacheVars, clientVars, streamVars, Goto
<1>2. ASSUME NEW v \in VUs, Begin(v) PROVE ConnType'
  BY <1>2 DEF Begin, ConnType, cacheVars, clientVars, streamVars, Goto
<1>3. ASSUME NEW v \in VUs, Load(v) PROVE ConnType'
  BY <1>3 DEF Load, ConnType, cacheVars, clientVars, streamVars, Goto
<1>4. ASSUME NEW v \in VUs, Connect(v) PROVE ConnType'
  BY <1>4 DEF Connect, ConnType, cacheVars, clientVars, streamVars, Goto
<1>5. ASSUME NEW v \in VUs, Ready(v) PROVE ConnType'
  BY <1>5 DEF Ready, ConnType, cacheVars, clientVars, streamVars, Goto
<1>6. ASSUME NEW v \in VUs, NotReady(v) PROVE ConnType'
  BY <1>6 DEF NotReady, ConnType, cacheVars, clientVars, streamVars, Goto
<1>7. ASSUME NEW v \in VUs, Lookup(v) PROVE ConnType'
  BY <1>7 DEF Lookup, ConnType, cacheVars, clientVars, streamVars, Goto
<1>8. ASSUME NEW v \in VUs, Fetch(v) PROVE ConnType'
  BY <1>8 DEF Fetch, ConnType, cacheVars, clientVars, streamVars, Goto
<1>9. ASSUME NEW v \in VUs, Fetched(v) PROVE ConnType'
  BY <1>9 DEF Fetched, ConnType, cacheVars, clientVars, streamVars, Goto
<1>10. ASSUME NEW v \in VUs, Connected(v) PROVE ConnType'
  BY <1>10 DEF Connected, ConnType, cacheVars, clientVars, streamVars, Goto
<1>11. ASSUME NEW v \in VUs, ReflectFailed(v) PROVE ConnType'
  BY <1>11 DEF ReflectFailed, ConnType, cacheVars, clientVars, streamVars, Goto
<1>12. ASSUME NEW v \in VUs, CloseClient(v) PROVE ConnType'
  BY <1>12 DEF CloseClient, ConnType, cacheVars, clientVars, streamVars, Goto
<1>13. ASSUME NEW v \in VUs, InvokeFails(v) PROVE ConnType'
  BY <1>13 DEF InvokeFails, ConnType, cacheVars, clientVars, streamVars, Goto
<1>14. ASSUME NEW v \in VUs, Invoke(v) PROVE ConnType'
  BY <1>14 DEF Invoke, ConnType, cacheVars, clientVars, streamVars, Goto
<1>15. ASSUME NEW v \in VUs, Answered(v) PROVE ConnType'
  BY <1>15 DEF Answered, ConnType, cacheVars, clientVars, streamVars, Goto
<1>16. ASSUME NEW v \in VUs, OpenFails(v) PROVE ConnType'
  BY <1>16 DEF OpenFails, ConnType, cacheVars, clientVars, streamVars, Goto
<1>17. ASSUME NEW v \in VUs, CountStream(v) PROVE ConnType'
  BY <1>17 DEF CountStream, ConnType, cacheVars, clientVars, streamVars, Goto
<1>18. ASSUME NEW v \in VUs, NewStream(v) PROVE ConnType'
  BY <1>18 DEF NewStream, ConnType, cacheVars, clientVars, streamVars, Goto
<1>19. ASSUME NEW v \in VUs, EndStream(v) PROVE ConnType'
  BY <1>19 DEF EndStream, ConnType, cacheVars, clientVars, streamVars, Goto
<1>20. ASSUME NEW v \in VUs, Return(v) PROVE ConnType'
  BY <1>20 DEF Return, ConnType, cacheVars, clientVars, streamVars, Goto
<1>21. ASSUME NEW v \in VUs, CloseStreams(v) PROVE ConnType'
  BY <1>21 DEF CloseStreams, ConnType, cacheVars, clientVars, streamVars, Goto
<1>22. ASSUME NEW v \in VUs, IterationOver(v) PROVE ConnType'
  BY <1>22 DEF IterationOver, ConnType, cacheVars, clientVars, streamVars, Goto
<1>23. ASSUME NEW v \in VUs, CloseVU(v) PROVE ConnType'
  BY <1>23 DEF CloseVU, ConnType, cacheVars, clientVars, streamVars, Goto
<1>24. ASSUME NEW v \in VUs, EndContext(v) PROVE ConnType'
  BY <1>24 DEF EndContext, ConnType, cacheVars, clientVars, streamVars, Goto
<1>25. ASSUME UNCHANGED vars PROVE ConnType'
  BY <1>25 DEF vars, ConnType, cacheVars, clientVars, streamVars, Goto
<1>26. QED
  BY <1>1, <1>2, <1>3, <1>4, <1>5, <1>6, <1>7, <1>8, <1>9, <1>10, <1>11, <1>12,
     <1>13, <1>14, <1>15, <1>16, <1>17, <1>18, <1>19, <1>20, <1>21, <1>22, <1>23,
     <1>24, <1>25 DEF Next, VUStep, Connecting

\* And the streams a sequence.
LEMMA StreamTypeStep ==
    ASSUME StreamType
    PROVE  [Next]_vars => StreamType'
<1>1. ASSUME Join PROVE StreamType'
  BY <1>1 DEF Join, StreamType, cacheVars, clientVars, streamVars, Goto
<1>2. ASSUME NEW v \in VUs, Begin(v) PROVE StreamType'
  BY <1>2 DEF Begin, StreamType, cacheVars, clientVars, streamVars, Goto
<1>3. ASSUME NEW v \in VUs, Load(v) PROVE StreamType'
  BY <1>3 DEF Load, StreamType, cacheVars, clientVars, streamVars, Goto
<1>4. ASSUME NEW v \in VUs, Connect(v) PROVE StreamType'
  BY <1>4 DEF Connect, StreamType, cacheVars, clientVars, streamVars, Goto
<1>5. ASSUME NEW v \in VUs, Ready(v) PROVE StreamType'
  BY <1>5 DEF Ready, StreamType, cacheVars, clientVars, streamVars, Goto
<1>6. ASSUME NEW v \in VUs, NotReady(v) PROVE StreamType'
  BY <1>6 DEF NotReady, StreamType, cacheVars, clientVars, streamVars, Goto
<1>7. ASSUME NEW v \in VUs, Lookup(v) PROVE StreamType'
  BY <1>7 DEF Lookup, StreamType, cacheVars, clientVars, streamVars, Goto
<1>8. ASSUME NEW v \in VUs, Fetch(v) PROVE StreamType'
  BY <1>8 DEF Fetch, StreamType, cacheVars, clientVars, streamVars, Goto
<1>9. ASSUME NEW v \in VUs, Fetched(v) PROVE StreamType'
  BY <1>9 DEF Fetched, StreamType, cacheVars, clientVars, streamVars, Goto
<1>10. ASSUME NEW v \in VUs, Connected(v) PROVE StreamType'
  BY <1>10 DEF Connected, StreamType, cacheVars, clientVars, streamVars, Goto
<1>11. ASSUME NEW v \in VUs, ReflectFailed(v) PROVE StreamType'
  BY <1>11 DEF ReflectFailed, StreamType, cacheVars, clientVars, streamVars, Goto
<1>12. ASSUME NEW v \in VUs, CloseClient(v) PROVE StreamType'
  BY <1>12 DEF CloseClient, StreamType, cacheVars, clientVars, streamVars, Goto
<1>13. ASSUME NEW v \in VUs, InvokeFails(v) PROVE StreamType'
  BY <1>13 DEF InvokeFails, StreamType, cacheVars, clientVars, streamVars, Goto
<1>14. ASSUME NEW v \in VUs, Invoke(v) PROVE StreamType'
  BY <1>14 DEF Invoke, StreamType, cacheVars, clientVars, streamVars, Goto
<1>15. ASSUME NEW v \in VUs, Answered(v) PROVE StreamType'
  BY <1>15 DEF Answered, StreamType, cacheVars, clientVars, streamVars, Goto
<1>16. ASSUME NEW v \in VUs, OpenFails(v) PROVE StreamType'
  BY <1>16 DEF OpenFails, StreamType, cacheVars, clientVars, streamVars, Goto
<1>17. ASSUME NEW v \in VUs, CountStream(v) PROVE StreamType'
  BY <1>17 DEF CountStream, StreamType, cacheVars, clientVars, streamVars, Goto
<1>18. ASSUME NEW v \in VUs, NewStream(v) PROVE StreamType'
  <2>1. CASE UNCHANGED open
    BY <2>1 DEF StreamType
  <2>2. CASE open' = [open EXCEPT ![v] = Append(@, FALSE)]
    BY <2>2, AppendProperties DEF StreamType
  <2>3. QED
    BY <1>18, <2>1, <2>2 DEF NewStream
<1>19. ASSUME NEW v \in VUs, EndStream(v) PROVE StreamType'
  <2>1. PICK s \in DOMAIN open[v] : finish(v, s)
    BY <1>19 DEF EndStream
  <2>2. [open[v] EXCEPT ![s] = TRUE] \in Seq(BOOLEAN)
    BY ExceptSeq, LenProperties DEF StreamType
  <2>3. QED
    BY <2>1, <2>2 DEF finish, StreamType
<1>20. ASSUME NEW v \in VUs, Return(v) PROVE StreamType'
  BY <1>20 DEF Return, StreamType, cacheVars, clientVars, streamVars, Goto
<1>21. ASSUME NEW v \in VUs, CloseStreams(v) PROVE StreamType'
  <2>1. PICK s \in DOMAIN open[v] : finish(v, s)
    BY <1>21, FirstUndone DEF CloseStreams, Undone
  <2>2. [open[v] EXCEPT ![s] = TRUE] \in Seq(BOOLEAN)
    BY ExceptSeq, LenProperties DEF StreamType
  <2>3. QED
    BY <2>1, <2>2 DEF finish, StreamType
<1>22. ASSUME NEW v \in VUs, IterationOver(v) PROVE StreamType'
  BY <1>22 DEF IterationOver, StreamType, cacheVars, clientVars, streamVars, Goto
<1>23. ASSUME NEW v \in VUs, CloseVU(v) PROVE StreamType'
  BY <1>23 DEF CloseVU, StreamType, cacheVars, clientVars, streamVars, Goto
<1>24. ASSUME NEW v \in VUs, EndContext(v) PROVE StreamType'
  BY <1>24 DEF EndContext, StreamType, cacheVars, clientVars, streamVars, Goto
<1>25. ASSUME UNCHANGED vars PROVE StreamType'
  BY <1>25 DEF vars, StreamType, cacheVars, clientVars, streamVars, Goto
<1>26. QED
  BY <1>1, <1>2, <1>3, <1>4, <1>5, <1>6, <1>7, <1>8, <1>9, <1>10, <1>11, <1>12,
     <1>13, <1>14, <1>15, <1>16, <1>17, <1>18, <1>19, <1>20, <1>21, <1>22, <1>23,
     <1>24, <1>25 DEF Next, VUStep, Connecting

\* And the samples counted.
LEMMA RecordTypeStep ==
    ASSUME PlaceType, RecordType
    PROVE  [Next]_vars => RecordType'
<1>1. ASSUME Join PROVE RecordType'
  BY <1>1 DEF Join, RecordType, cacheVars, clientVars, streamVars, Goto
<1>2. ASSUME NEW v \in VUs, Begin(v) PROVE RecordType'
  BY <1>2 DEF Begin, NoRecords, NoneMade, RecordType, cacheVars, clientVars, streamVars, Goto
<1>3. ASSUME NEW v \in VUs, Load(v) PROVE RecordType'
  BY <1>3 DEF Load, RecordType, cacheVars, clientVars, streamVars, Goto
<1>4. ASSUME NEW v \in VUs, Connect(v) PROVE RecordType'
  BY <1>4 DEF Connect, RecordType, cacheVars, clientVars, streamVars, Goto
<1>5. ASSUME NEW v \in VUs, Ready(v) PROVE RecordType'
  BY <1>5 DEF Ready, RecordType, cacheVars, clientVars, streamVars, Goto
<1>6. ASSUME NEW v \in VUs, NotReady(v) PROVE RecordType'
  BY <1>6 DEF NotReady, RecordType, cacheVars, clientVars, streamVars, Goto
<1>7. ASSUME NEW v \in VUs, Lookup(v) PROVE RecordType'
  BY <1>7 DEF Lookup, RecordType, cacheVars, clientVars, streamVars, Goto
<1>8. ASSUME NEW v \in VUs, Fetch(v) PROVE RecordType'
  BY <1>8 DEF Fetch, RecordType, cacheVars, clientVars, streamVars, Goto
<1>9. ASSUME NEW v \in VUs, Fetched(v) PROVE RecordType'
  BY <1>9 DEF Fetched, RecordType, cacheVars, clientVars, streamVars, Goto
<1>10. ASSUME NEW v \in VUs, Connected(v) PROVE RecordType'
  BY <1>10 DEF Connected, RecordType, cacheVars, clientVars, streamVars, Goto
<1>11. ASSUME NEW v \in VUs, ReflectFailed(v) PROVE RecordType'
  BY <1>11 DEF ReflectFailed, RecordType, cacheVars, clientVars, streamVars, Goto
<1>12. ASSUME NEW v \in VUs, CloseClient(v) PROVE RecordType'
  BY <1>12 DEF CloseClient, RecordType, cacheVars, clientVars, streamVars, Goto
<1>13. ASSUME NEW v \in VUs, InvokeFails(v) PROVE RecordType'
  BY <1>13 DEF InvokeFails, RecordType, cacheVars, clientVars, streamVars, Goto
<1>14. ASSUME NEW v \in VUs, Invoke(v) PROVE RecordType'
  BY <1>14 DEF Invoke, RecordType, cacheVars, clientVars, streamVars, Goto
<1>15. ASSUME NEW v \in VUs, Answered(v) PROVE RecordType'
  BY <1>15 DEF Answered, RecordType, cacheVars, clientVars, streamVars, Goto
<1>16. ASSUME NEW v \in VUs, OpenFails(v) PROVE RecordType'
  BY <1>16 DEF OpenFails, Recorded, RecordType, cacheVars, clientVars, streamVars, Goto
<1>17. ASSUME NEW v \in VUs, CountStream(v) PROVE RecordType'
  BY <1>17 DEF CountStream, RecordType, cacheVars, clientVars, streamVars, Goto
<1>18. ASSUME NEW v \in VUs, NewStream(v) PROVE RecordType'
  <2>1. CASE UNCHANGED rec
    BY <1>18, <2>1 DEF NewStream, RecordType
  <2>2. CASE rec' = Recorded(v, TRUE)
    BY <1>18, <2>2, SMTT(30) DEF NewStream, Recorded, RecordType
  <2>3. QED
    BY <1>18, <2>1, <2>2 DEF NewStream
<1>19. ASSUME NEW v \in VUs, EndStream(v) PROVE RecordType'
  BY <1>19 DEF EndStream, Recorded, finish, RecordType, cacheVars, clientVars, streamVars, Goto
<1>20. ASSUME NEW v \in VUs, Return(v) PROVE RecordType'
  BY <1>20 DEF Return, RecordType, cacheVars, clientVars, streamVars, Goto
<1>21. ASSUME NEW v \in VUs, CloseStreams(v) PROVE RecordType'
  BY <1>21 DEF CloseStreams, Recorded, finish, RecordType, cacheVars, clientVars, streamVars, Goto
<1>22. ASSUME NEW v \in VUs, IterationOver(v) PROVE RecordType'
  BY <1>22 DEF IterationOver, RecordType, cacheVars, clientVars, streamVars, Goto
<1>23. ASSUME NEW v \in VUs, CloseVU(v) PROVE RecordType'
  BY <1>23 DEF CloseVU, RecordType, cacheVars, clientVars, streamVars, Goto
<1>24. ASSUME NEW v \in VUs, EndContext(v) PROVE RecordType'
  BY <1>24 DEF EndContext, RecordType, cacheVars, clientVars, streamVars, Goto
<1>25. ASSUME UNCHANGED vars PROVE RecordType'
  BY <1>25 DEF vars, RecordType, cacheVars, clientVars, streamVars, Goto
<1>26. QED
  BY <1>1, <1>2, <1>3, <1>4, <1>5, <1>6, <1>7, <1>8, <1>9, <1>10, <1>11, <1>12,
     <1>13, <1>14, <1>15, <1>16, <1>17, <1>18, <1>19, <1>20, <1>21, <1>22, <1>23,
     <1>24, <1>25 DEF Next, VUStep, Connecting

-----------------------------------------------------------------------------
(* Reflection *)

\* An entry is fetched by the VU that took it from new to running, and evicted
\* only by a VU whose own entry failed.
LEMMA CacheStep ==
    ASSUME PlaceType, CacheType, CacheInv
    PROVE  [Next]_vars => CacheInv'
<1>1. ASSUME Join PROVE CacheInv'
  BY <1>1 DEF Join, PlaceType, CacheType, CacheInv, Places, States, cacheVars, clientVars, streamVars, Goto
<1>2. ASSUME NEW v \in VUs, Begin(v) PROVE CacheInv'
  BY <1>2 DEF Begin, PlaceType, CacheInv, cacheVars, clientVars, streamVars, Goto
<1>3. ASSUME NEW v \in VUs, Load(v) PROVE CacheInv'
  BY <1>3 DEF Load, PlaceType, CacheInv, cacheVars, clientVars, streamVars, Goto
<1>4. ASSUME NEW v \in VUs, Connect(v) PROVE CacheInv'
  BY <1>4 DEF Connect, PlaceType, CacheInv, cacheVars, clientVars, streamVars, Goto
<1>5. ASSUME NEW v \in VUs, Ready(v) PROVE CacheInv'
  BY <1>5 DEF Ready, PlaceType, CacheInv, cacheVars, clientVars, streamVars, Goto
<1>6. ASSUME NEW v \in VUs, NotReady(v) PROVE CacheInv'
  BY <1>6 DEF NotReady, PlaceType, CacheInv, cacheVars, clientVars, streamVars, Goto
<1>7. ASSUME NEW v \in VUs, Lookup(v) PROVE CacheInv'
  <2>1. CASE reflected # 0
    BY <1>7, <2>1 DEF Lookup, PlaceType, CacheType, CacheInv, Goto
  <2>2. CASE reflected = 0
    <3>1. /\ once' = Append(once, "new") /\ reflected' = Len(once) + 1
          /\ entry' = [entry EXCEPT ![v] = Len(once) + 1]
          /\ pc' = [pc EXCEPT ![v] = "once"] /\ failures' = failures
      BY <1>7, <2>2 DEF Lookup, Goto
    <3>2. Len(once) \in Nat
      BY LenProperties DEF CacheType
    <3>3. Len(once') = Len(once) + 1 /\ \A e \in 1..Len(once) : once'[e] = once[e]
      BY <3>1, AppendProperties DEF CacheType, States
    <3>4. QED
      BY <2>2, <3>1, <3>2, <3>3 DEF PlaceType, CacheType, CacheInv
  <2>3. QED
    BY <2>1, <2>2
<1>8. ASSUME NEW v \in VUs, Fetch(v) PROVE CacheInv'
  BY <1>8 DEF Fetch, PlaceType, CacheType, CacheInv, Places, States, cacheVars, clientVars, streamVars, Goto
<1>9. ASSUME NEW v \in VUs, Fetched(v) PROVE CacheInv'
  BY <1>9 DEF Fetched, PlaceType, CacheType, CacheInv, Places, States, cacheVars, clientVars, streamVars, Goto
<1>10. ASSUME NEW v \in VUs, Connected(v) PROVE CacheInv'
  BY <1>10 DEF Connected, PlaceType, CacheInv, cacheVars, clientVars, streamVars, Goto
<1>11. ASSUME NEW v \in VUs, ReflectFailed(v) PROVE CacheInv'
  BY <1>11 DEF ReflectFailed, Evict, PlaceType, CacheType, CacheInv, Places, States, cacheVars, clientVars, streamVars, Goto
<1>12. ASSUME NEW v \in VUs, CloseClient(v) PROVE CacheInv'
  BY <1>12 DEF CloseClient, PlaceType, CacheInv, cacheVars, clientVars, streamVars, Goto
<1>13. ASSUME NEW v \in VUs, InvokeFails(v) PROVE CacheInv'
  BY <1>13 DEF InvokeFails, PlaceType, CacheInv, cacheVars, clientVars, streamVars, Goto
<1>14. ASSUME NEW v \in VUs, Invoke(v) PROVE CacheInv'
  BY <1>14 DEF Invoke, PlaceType, CacheInv, cacheVars, clientVars, streamVars, Goto
<1>15. ASSUME NEW v \in VUs, Answered(v) PROVE CacheInv'
  BY <1>15 DEF Answered, PlaceType, CacheInv, cacheVars, clientVars, streamVars, Goto
<1>16. ASSUME NEW v \in VUs, OpenFails(v) PROVE CacheInv'
  BY <1>16 DEF OpenFails, PlaceType, CacheInv, cacheVars, clientVars, streamVars, Goto
<1>17. ASSUME NEW v \in VUs, CountStream(v) PROVE CacheInv'
  BY <1>17 DEF CountStream, PlaceType, CacheInv, cacheVars, clientVars, streamVars, Goto
<1>18. ASSUME NEW v \in VUs, NewStream(v) PROVE CacheInv'
  BY <1>18 DEF NewStream, PlaceType, CacheInv, cacheVars, clientVars, streamVars, Goto
<1>19. ASSUME NEW v \in VUs, EndStream(v) PROVE CacheInv'
  BY <1>19 DEF EndStream, PlaceType, CacheInv, cacheVars, clientVars, streamVars, Goto
<1>20. ASSUME NEW v \in VUs, Return(v) PROVE CacheInv'
  BY <1>20 DEF Return, PlaceType, CacheInv, cacheVars, clientVars, streamVars, Goto
<1>21. ASSUME NEW v \in VUs, CloseStreams(v) PROVE CacheInv'
  BY <1>21 DEF CloseStreams, PlaceType, CacheInv, cacheVars, clientVars, streamVars, Goto
<1>22. ASSUME NEW v \in VUs, IterationOver(v) PROVE CacheInv'
  BY <1>22 DEF IterationOver, PlaceType, CacheInv, cacheVars, clientVars, streamVars, Goto
<1>23. ASSUME NEW v \in VUs, CloseVU(v) PROVE CacheInv'
  BY <1>23 DEF CloseVU, PlaceType, CacheInv, cacheVars, clientVars, streamVars, Goto
<1>24. ASSUME NEW v \in VUs, EndContext(v) PROVE CacheInv'
  BY <1>24 DEF EndContext, PlaceType, CacheInv, cacheVars, clientVars, streamVars, Goto
<1>25. ASSUME UNCHANGED vars PROVE CacheInv'
  BY <1>25 DEF vars, PlaceType, CacheType, CacheInv, Places, States, cacheVars, clientVars, streamVars, Goto
<1>26. QED
  BY <1>1, <1>2, <1>3, <1>4, <1>5, <1>6, <1>7, <1>8, <1>9, <1>10, <1>11, <1>12,
     <1>13, <1>14, <1>15, <1>16, <1>17, <1>18, <1>19, <1>20, <1>21, <1>22, <1>23,
     <1>24, <1>25 DEF Next, VUStep, Connecting

-----------------------------------------------------------------------------
(* Connections *)

\* Every way out of dial either keeps the new connection or closes it, and
\* connect drops the old connection first.
LEMMA ConnStep ==
    ASSUME PlaceType, ConnType, ConnInv
    PROVE  [Next]_vars => ConnInv'
<1>1. ASSUME Join PROVE ConnInv'
  BY <1>1 DEF Join, PlaceType, ConnType, ConnInv, Places, cacheVars, clientVars, streamVars, Goto
<1>2. ASSUME NEW v \in VUs, Begin(v) PROVE ConnInv'
  BY <1>2 DEF Begin, PlaceType, ConnType, ConnInv, Places, cacheVars, clientVars, streamVars, Goto
<1>3. ASSUME NEW v \in VUs, Load(v) PROVE ConnInv'
  BY <1>3 DEF Load, PlaceType, ConnType, ConnInv, Places, cacheVars, clientVars, streamVars, Goto
<1>4. ASSUME NEW v \in VUs, Connect(v) PROVE ConnInv'
  BY <1>4 DEF Connect, PlaceType, ConnType, ConnInv, Places, cacheVars, clientVars, streamVars, Goto
<1>5. ASSUME NEW v \in VUs, Ready(v) PROVE ConnInv'
  BY <1>5 DEF Ready, PlaceType, ConnType, ConnInv, Places, cacheVars, clientVars, streamVars, Goto
<1>6. ASSUME NEW v \in VUs, NotReady(v) PROVE ConnInv'
  BY <1>6 DEF NotReady, PlaceType, ConnType, ConnInv, Places, cacheVars, clientVars, streamVars, Goto
<1>7. ASSUME NEW v \in VUs, Lookup(v) PROVE ConnInv'
  BY <1>7 DEF Lookup, PlaceType, ConnType, ConnInv, Places, cacheVars, clientVars, streamVars, Goto
<1>8. ASSUME NEW v \in VUs, Fetch(v) PROVE ConnInv'
  BY <1>8 DEF Fetch, PlaceType, ConnType, ConnInv, Places, cacheVars, clientVars, streamVars, Goto
<1>9. ASSUME NEW v \in VUs, Fetched(v) PROVE ConnInv'
  BY <1>9 DEF Fetched, PlaceType, ConnType, ConnInv, Places, cacheVars, clientVars, streamVars, Goto
<1>10. ASSUME NEW v \in VUs, Connected(v) PROVE ConnInv'
  BY <1>10 DEF Connected, PlaceType, ConnType, ConnInv, Places, cacheVars, clientVars, streamVars, Goto
<1>11. ASSUME NEW v \in VUs, ReflectFailed(v) PROVE ConnInv'
  BY <1>11 DEF ReflectFailed, PlaceType, ConnType, ConnInv, Places, cacheVars, clientVars, streamVars, Goto
<1>12. ASSUME NEW v \in VUs, CloseClient(v) PROVE ConnInv'
  BY <1>12 DEF CloseClient, PlaceType, ConnType, ConnInv, Places, cacheVars, clientVars, streamVars, Goto
<1>13. ASSUME NEW v \in VUs, InvokeFails(v) PROVE ConnInv'
  BY <1>13 DEF InvokeFails, PlaceType, ConnType, ConnInv, Places, cacheVars, clientVars, streamVars, Goto
<1>14. ASSUME NEW v \in VUs, Invoke(v) PROVE ConnInv'
  BY <1>14 DEF Invoke, PlaceType, ConnType, ConnInv, Places, cacheVars, clientVars, streamVars, Goto
<1>15. ASSUME NEW v \in VUs, Answered(v) PROVE ConnInv'
  BY <1>15 DEF Answered, PlaceType, ConnType, ConnInv, Places, cacheVars, clientVars, streamVars, Goto
<1>16. ASSUME NEW v \in VUs, OpenFails(v) PROVE ConnInv'
  BY <1>16 DEF OpenFails, PlaceType, ConnType, ConnInv, Places, cacheVars, clientVars, streamVars, Goto
<1>17. ASSUME NEW v \in VUs, CountStream(v) PROVE ConnInv'
  BY <1>17 DEF CountStream, PlaceType, ConnType, ConnInv, Places, cacheVars, clientVars, streamVars, Goto
<1>18. ASSUME NEW v \in VUs, NewStream(v) PROVE ConnInv'
  BY <1>18 DEF NewStream, PlaceType, ConnType, ConnInv, Places, cacheVars, clientVars, streamVars, Goto
<1>19. ASSUME NEW v \in VUs, EndStream(v) PROVE ConnInv'
  BY <1>19 DEF EndStream, PlaceType, ConnType, ConnInv, Places, cacheVars, clientVars, streamVars, Goto
<1>20. ASSUME NEW v \in VUs, Return(v) PROVE ConnInv'
  BY <1>20 DEF Return, PlaceType, ConnType, ConnInv, Places, cacheVars, clientVars, streamVars, Goto
<1>21. ASSUME NEW v \in VUs, CloseStreams(v) PROVE ConnInv'
  BY <1>21 DEF CloseStreams, PlaceType, ConnType, ConnInv, Places, cacheVars, clientVars, streamVars, Goto
<1>22. ASSUME NEW v \in VUs, IterationOver(v) PROVE ConnInv'
  BY <1>22 DEF IterationOver, PlaceType, ConnType, ConnInv, Places, cacheVars, clientVars, streamVars, Goto
<1>23. ASSUME NEW v \in VUs, CloseVU(v) PROVE ConnInv'
  BY <1>23 DEF CloseVU, PlaceType, ConnType, ConnInv, Places, cacheVars, clientVars, streamVars, Goto
<1>24. ASSUME NEW v \in VUs, EndContext(v) PROVE ConnInv'
  BY <1>24 DEF EndContext, PlaceType, ConnType, ConnInv, Places, cacheVars, clientVars, streamVars, Goto
<1>25. ASSUME UNCHANGED vars PROVE ConnInv'
  BY <1>25 DEF vars, PlaceType, ConnType, ConnInv, Places, cacheVars, clientVars, streamVars, Goto
<1>26. QED
  BY <1>1, <1>2, <1>3, <1>4, <1>5, <1>6, <1>7, <1>8, <1>9, <1>10, <1>11, <1>12,
     <1>13, <1>14, <1>15, <1>16, <1>17, <1>18, <1>19, <1>20, <1>21, <1>22, <1>23,
     <1>24, <1>25 DEF Next, VUStep, Connecting

-----------------------------------------------------------------------------
(* Streams and records *)

\* An iteration ends without streams.
LEMMA StreamStep ==
    ASSUME PlaceType, StreamType, StreamInv
    PROVE  [Next]_vars => StreamInv'
<1>1. ASSUME Join PROVE StreamInv'
  BY <1>1 DEF Join, PlaceType, StreamType, StreamInv, cacheVars, clientVars, streamVars, Goto
<1>2. ASSUME NEW v \in VUs, Begin(v) PROVE StreamInv'
  BY <1>2 DEF Begin, PlaceType, StreamType, StreamInv, cacheVars, clientVars, streamVars, Goto
<1>3. ASSUME NEW v \in VUs, Load(v) PROVE StreamInv'
  BY <1>3 DEF Load, PlaceType, StreamType, StreamInv, cacheVars, clientVars, streamVars, Goto
<1>4. ASSUME NEW v \in VUs, Connect(v) PROVE StreamInv'
  BY <1>4 DEF Connect, PlaceType, StreamType, StreamInv, cacheVars, clientVars, streamVars, Goto
<1>5. ASSUME NEW v \in VUs, Ready(v) PROVE StreamInv'
  BY <1>5 DEF Ready, PlaceType, StreamType, StreamInv, cacheVars, clientVars, streamVars, Goto
<1>6. ASSUME NEW v \in VUs, NotReady(v) PROVE StreamInv'
  BY <1>6 DEF NotReady, PlaceType, StreamType, StreamInv, cacheVars, clientVars, streamVars, Goto
<1>7. ASSUME NEW v \in VUs, Lookup(v) PROVE StreamInv'
  BY <1>7 DEF Lookup, PlaceType, StreamType, StreamInv, cacheVars, clientVars, streamVars, Goto
<1>8. ASSUME NEW v \in VUs, Fetch(v) PROVE StreamInv'
  BY <1>8 DEF Fetch, PlaceType, StreamType, StreamInv, cacheVars, clientVars, streamVars, Goto
<1>9. ASSUME NEW v \in VUs, Fetched(v) PROVE StreamInv'
  BY <1>9 DEF Fetched, PlaceType, StreamType, StreamInv, cacheVars, clientVars, streamVars, Goto
<1>10. ASSUME NEW v \in VUs, Connected(v) PROVE StreamInv'
  BY <1>10 DEF Connected, PlaceType, StreamType, StreamInv, cacheVars, clientVars, streamVars, Goto
<1>11. ASSUME NEW v \in VUs, ReflectFailed(v) PROVE StreamInv'
  BY <1>11 DEF ReflectFailed, PlaceType, StreamType, StreamInv, cacheVars, clientVars, streamVars, Goto
<1>12. ASSUME NEW v \in VUs, CloseClient(v) PROVE StreamInv'
  BY <1>12 DEF CloseClient, PlaceType, StreamType, StreamInv, cacheVars, clientVars, streamVars, Goto
<1>13. ASSUME NEW v \in VUs, InvokeFails(v) PROVE StreamInv'
  BY <1>13 DEF InvokeFails, PlaceType, StreamType, StreamInv, cacheVars, clientVars, streamVars, Goto
<1>14. ASSUME NEW v \in VUs, Invoke(v) PROVE StreamInv'
  BY <1>14 DEF Invoke, PlaceType, StreamType, StreamInv, cacheVars, clientVars, streamVars, Goto
<1>15. ASSUME NEW v \in VUs, Answered(v) PROVE StreamInv'
  BY <1>15 DEF Answered, PlaceType, StreamType, StreamInv, cacheVars, clientVars, streamVars, Goto
<1>16. ASSUME NEW v \in VUs, OpenFails(v) PROVE StreamInv'
  BY <1>16 DEF OpenFails, PlaceType, StreamType, StreamInv, cacheVars, clientVars, streamVars, Goto
<1>17. ASSUME NEW v \in VUs, CountStream(v) PROVE StreamInv'
  BY <1>17 DEF CountStream, PlaceType, StreamType, StreamInv, cacheVars, clientVars, streamVars, Goto
<1>18. ASSUME NEW v \in VUs, NewStream(v) PROVE StreamInv'
  BY <1>18 DEF NewStream, PlaceType, StreamType, StreamInv, cacheVars, clientVars, streamVars, Goto
<1>19. ASSUME NEW v \in VUs, EndStream(v) PROVE StreamInv'
  BY <1>19 DEF EndStream, finish, PlaceType, StreamType, StreamInv, cacheVars, clientVars, streamVars, Goto
<1>20. ASSUME NEW v \in VUs, Return(v) PROVE StreamInv'
  BY <1>20 DEF Return, PlaceType, StreamType, StreamInv, cacheVars, clientVars, streamVars, Goto
<1>21. ASSUME NEW v \in VUs, CloseStreams(v) PROVE StreamInv'
  BY <1>21 DEF CloseStreams, finish, PlaceType, StreamType, StreamInv, cacheVars, clientVars, streamVars, Goto
<1>22. ASSUME NEW v \in VUs, IterationOver(v) PROVE StreamInv'
  BY <1>22 DEF IterationOver, PlaceType, StreamType, StreamInv, cacheVars, clientVars, streamVars, Goto
<1>23. ASSUME NEW v \in VUs, CloseVU(v) PROVE StreamInv'
  BY <1>23 DEF CloseVU, PlaceType, StreamType, StreamInv, cacheVars, clientVars, streamVars, Goto
<1>24. ASSUME NEW v \in VUs, EndContext(v) PROVE StreamInv'
  BY <1>24 DEF EndContext, PlaceType, StreamType, StreamInv, cacheVars, clientVars, streamVars, Goto
<1>25. ASSUME UNCHANGED vars PROVE StreamInv'
  BY <1>25 DEF vars, PlaceType, StreamType, StreamInv, cacheVars, clientVars, streamVars, Goto
<1>26. QED
  BY <1>1, <1>2, <1>3, <1>4, <1>5, <1>6, <1>7, <1>8, <1>9, <1>10, <1>11, <1>12,
     <1>13, <1>14, <1>15, <1>16, <1>17, <1>18, <1>19, <1>20, <1>21, <1>22, <1>23,
     <1>24, <1>25 DEF Next, VUStep, Connecting

\* The state an iteration's records are about is the VU's own.
Same(u) == /\ pc'[u] = pc[u] /\ ended'[u] = ended[u] /\ open'[u] = open[u]
           /\ rec'[u] = rec[u] /\ made'[u] = made[u]

\* A step of one VU leaves the records of the others alone.
LEMMA OneVU ==
    ASSUME RecordInv, NEW v \in VUs, RecordOf(v)', \A u \in VUs \ {v} : Same(u)
    PROVE  RecordInv'
<1>1. SUFFICES ASSUME NEW u \in VUs, u # v PROVE RecordOf(u)'
  BY DEF RecordInv
<1>2. RecordOf(u) /\ Same(u)
  BY <1>1 DEF RecordInv
<1>3. Undone(u)' = Undone(u)
  BY <1>2 DEF Undone, Same
<1>4. QED
  BY <1>2, <1>3 DEF RecordOf, Same

\* A step that makes no call, ends no stream and is not one of those that wait
\* for a call keeps the relation, also when it ends a context.
LEMMA RecordsLeft ==
    ASSUME RecordInv, UNCHANGED streamVars,
           \A u \in VUs : /\ ended'[u] = ended[u] \/ ended'[u]
                          /\ \/ pc'[u] = pc[u]
                             \/ pc[u] \notin {"newStream", "invoke"} /\ pc'[u] \notin {"newStream", "invoke"}
    PROVE  RecordInv'
  BY DEF RecordInv, RecordOf, Undone, streamVars

\* The streams of a VU that are not done can be counted.
LEMMA UndoneFinite ==
    ASSUME StreamType, NEW v \in VUs
    PROVE  IsFiniteSet(Undone(v)) /\ Cardinality(Undone(v)) \in Nat
  BY UndoneChanges DEF StreamType, Undone

\* A stream that is finished is no longer open, and is recorded unless the
\* context has ended.
LEMMA FinishKeeps ==
    ASSUME PlaceType, StreamType, RecordType, RecordInv, NEW v \in VUs, NEW s \in DOMAIN open[v],
           finish(v, s), UNCHANGED <<pc, ended, made>>
    PROVE  RecordInv'
<1>1. CASE open[v][s]
  BY <1>1, RecordsLeft DEF finish, streamVars
<1>2. CASE ~open[v][s]
  <2>1. open' = [open EXCEPT ![v] = [open[v] EXCEPT ![s] = TRUE]] /\ rec' = Recorded(v, TRUE)
    BY <1>2 DEF finish, StreamType
  <2>2. s \in Undone(v) /\ Cardinality(Undone(v)) \in Nat
    BY <1>2, UndoneFinite DEF Undone
  <2>3. Cardinality(Undone(v)') = Cardinality(Undone(v)) - 1
    BY <2>1, <2>2, UndoneChanges DEF Undone, StreamType
  <2>4. Cardinality(Undone(v)) > 0
    BY <2>2, UndoneFinite, FS_EmptySet
  <2>5. \A u \in VUs \ {v} : Same(u)
    BY <2>1 DEF Same, StreamType, Recorded, RecordType
  <2>6. RecordOf(v)
    BY DEF RecordInv
  <2>7. CASE ~ended[v]
    <3>1. rec'[v] = [rec[v] EXCEPT !.durations = @ + 1, !.rates = @ + 1]
      BY <2>1, <2>7 DEF Recorded, RecordType
    <3>2. RecordOf(v)'
      BY <2>2, <2>3, <2>4, <2>6, <2>7, <3>1 DEF RecordOf, RecordType
    <3>3. QED
      BY <2>5, <3>2, OneVU
  <2>8. CASE ended[v]
    BY <2>1, <2>5, <2>6, <2>8, OneVU DEF RecordOf, Recorded
  <2>9. QED
    BY <2>7, <2>8
<1>3. QED
  BY <1>1, <1>2

\* A call counts and records what it makes; the rest of an iteration changes no
\* record.
LEMMA RecordStep ==
    ASSUME PlaceType, StreamType, RecordType, StreamInv, RecordInv
    PROVE  [Next]_vars => RecordInv'
<1>1. ASSUME Join PROVE RecordInv'
  BY <1>1, RecordsLeft DEF Join, PlaceType, cacheVars, clientVars, streamVars, Goto
<1>2. ASSUME NEW v \in VUs, Begin(v) PROVE RecordInv'
  <2>1. \A u \in VUs \ {v} : Same(u)
    BY <1>2 DEF Begin, Same, Goto, PlaceType, RecordType
  <2>2. open'[v] = <<>>
    BY <1>2 DEF Begin, StreamInv
  <2>3. Undone(v)' = {} /\ Cardinality(Undone(v)') = 0
    BY <2>2, FS_EmptySet DEF Undone
  <2>4. rec'[v] = NoRecords /\ made'[v] = NoneMade /\ pc'[v] = "script"
    BY <1>2 DEF Begin, Goto, PlaceType, RecordType
  <2>5. RecordOf(v)'
    BY <2>3, <2>4 DEF RecordOf, NoRecords, NoneMade
  <2>6. QED
    BY <2>1, <2>5, OneVU
<1>3. ASSUME NEW v \in VUs, Load(v) PROVE RecordInv'
  BY <1>3, RecordsLeft DEF Load, PlaceType, cacheVars, clientVars, streamVars, Goto
<1>4. ASSUME NEW v \in VUs, Connect(v) PROVE RecordInv'
  BY <1>4, RecordsLeft DEF Connect, PlaceType, cacheVars, clientVars, streamVars, Goto
<1>5. ASSUME NEW v \in VUs, Ready(v) PROVE RecordInv'
  BY <1>5, RecordsLeft DEF Ready, PlaceType, cacheVars, clientVars, streamVars, Goto
<1>6. ASSUME NEW v \in VUs, NotReady(v) PROVE RecordInv'
  BY <1>6, RecordsLeft DEF NotReady, PlaceType, cacheVars, clientVars, streamVars, Goto
<1>7. ASSUME NEW v \in VUs, Lookup(v) PROVE RecordInv'
  BY <1>7, RecordsLeft DEF Lookup, PlaceType, cacheVars, clientVars, streamVars, Goto
<1>8. ASSUME NEW v \in VUs, Fetch(v) PROVE RecordInv'
  BY <1>8, RecordsLeft DEF Fetch, PlaceType, cacheVars, clientVars, streamVars, Goto
<1>9. ASSUME NEW v \in VUs, Fetched(v) PROVE RecordInv'
  BY <1>9, RecordsLeft DEF Fetched, PlaceType, cacheVars, clientVars, streamVars, Goto
<1>10. ASSUME NEW v \in VUs, Connected(v) PROVE RecordInv'
  BY <1>10, RecordsLeft DEF Connected, PlaceType, cacheVars, clientVars, streamVars, Goto
<1>11. ASSUME NEW v \in VUs, ReflectFailed(v) PROVE RecordInv'
  BY <1>11, RecordsLeft DEF ReflectFailed, PlaceType, cacheVars, clientVars, streamVars, Goto
<1>12. ASSUME NEW v \in VUs, CloseClient(v) PROVE RecordInv'
  BY <1>12, RecordsLeft DEF CloseClient, PlaceType, cacheVars, clientVars, streamVars, Goto
<1>13. ASSUME NEW v \in VUs, InvokeFails(v) PROVE RecordInv'
  <2>1. \A u \in VUs \ {v} : Same(u)
    BY <1>13 DEF InvokeFails, Same, Recorded, Goto, PlaceType, RecordType
  <2>2. Undone(v)' = Undone(v) /\ Cardinality(Undone(v)) \in Nat
    BY <1>13, UndoneFinite DEF InvokeFails, Undone
  <2>3. RecordOf(v)
    BY DEF RecordInv
  <2>4. ASSUME ~ended[v]
        PROVE  rec'[v] = [rec[v] EXCEPT !.unaryRates = @ + 1]
    BY <1>13, <2>4 DEF InvokeFails, Recorded, RecordType
  <2>5. ASSUME ended[v] PROVE rec'[v] = rec[v]
    BY <1>13, <2>5 DEF InvokeFails, Recorded
  <2>6. /\ made'[v] = [made[v] EXCEPT !.unsent = @ + 1]
        /\ pc'[v] = pc[v] /\ ended'[v] = ended[v]
    BY <1>13 DEF InvokeFails, Goto, PlaceType, RecordType
  <2>7. RecordOf(v)'
    <3>1. rec[v] \in [streams : Nat, durations : Nat, rates : Nat, unaryDurations : Nat, unaryRates : Nat]
      BY DEF RecordType
    <3>2. CASE ~ended[v]
      BY <2>2, <2>3, <2>4, <2>6, <3>1, <3>2 DEF RecordOf, RecordType
    <3>3. CASE ended[v]
      BY <2>3, <2>5, <2>6, <3>3 DEF RecordOf
    <3>4. QED
      BY <3>2, <3>3
  <2>8. QED
    BY <2>1, <2>7, OneVU
<1>14. ASSUME NEW v \in VUs, Invoke(v) PROVE RecordInv'
  <2>1. \A u \in VUs \ {v} : Same(u)
    BY <1>14 DEF Invoke, Same, Recorded, Goto, PlaceType, RecordType
  <2>2. Undone(v)' = Undone(v) /\ Cardinality(Undone(v)) \in Nat
    BY <1>14, UndoneFinite DEF Invoke, Undone
  <2>3. RecordOf(v)
    BY DEF RecordInv
  <2>4. ASSUME ~ended[v]
        PROVE  rec'[v] = rec[v]
    BY <1>14, <2>4 DEF Invoke, Recorded, RecordType
  <2>5. ASSUME ended[v] PROVE rec'[v] = rec[v]
    BY <1>14, <2>5 DEF Invoke, Recorded
  <2>6. /\ made'[v] = [made[v] EXCEPT !.invoked = @ + 1]
        /\ pc[v] = "script" /\ pc'[v] = "invoke" /\ ended'[v] = ended[v]
    BY <1>14 DEF Invoke, Goto, PlaceType, RecordType
  <2>7. RecordOf(v)'
    <3>1. rec[v] \in [streams : Nat, durations : Nat, rates : Nat, unaryDurations : Nat, unaryRates : Nat]
      BY DEF RecordType
    <3>2. CASE ~ended[v]
      BY <2>2, <2>3, <2>4, <2>6, <3>1, <3>2 DEF RecordOf, RecordType
    <3>3. CASE ended[v]
      BY <2>3, <2>5, <2>6, <3>3 DEF RecordOf
    <3>4. QED
      BY <3>2, <3>3
  <2>8. QED
    BY <2>1, <2>7, OneVU
<1>15. ASSUME NEW v \in VUs, Answered(v) PROVE RecordInv'
  <2>1. \A u \in VUs \ {v} : Same(u)
    BY <1>15 DEF Answered, Same, Recorded, Goto, PlaceType, RecordType
  <2>2. Undone(v)' = Undone(v) /\ Cardinality(Undone(v)) \in Nat
    BY <1>15, UndoneFinite DEF Answered, Undone
  <2>3. RecordOf(v)
    BY DEF RecordInv
  <2>4. ASSUME ~ended[v]
        PROVE  rec'[v] = [rec[v] EXCEPT !.unaryDurations = @ + 1, !.unaryRates = @ + 1]
    BY <1>15, <2>4 DEF Answered, Recorded, RecordType
  <2>5. ASSUME ended[v] PROVE rec'[v] = rec[v]
    BY <1>15, <2>5 DEF Answered, Recorded
  <2>6. /\ made'[v] = made[v]
        /\ pc[v] = "invoke" /\ pc'[v] = "script" /\ ended'[v] = ended[v]
    BY <1>15 DEF Answered, Goto, PlaceType, RecordType
  <2>7. RecordOf(v)'
    <3>1. rec[v] \in [streams : Nat, durations : Nat, rates : Nat, unaryDurations : Nat, unaryRates : Nat]
      BY DEF RecordType
    <3>2. CASE ~ended[v]
      <4>1. /\ rec'[v].streams = rec[v].streams /\ rec'[v].durations = rec[v].durations
            /\ rec'[v].rates = rec[v].rates
            /\ rec'[v].unaryDurations = rec[v].unaryDurations + 1
            /\ rec'[v].unaryRates = rec[v].unaryRates + 1
        BY <2>4, <3>1, <3>2
      <4>2. made[v].invoked \in Nat /\ made[v].unsent \in Nat
        BY DEF RecordType
      <4>3. QED
        BY <2>2, <2>3, <2>6, <3>1, <3>2, <4>1, <4>2 DEF RecordOf
    <3>3. CASE ended[v]
      BY <2>3, <2>5, <2>6, <3>3 DEF RecordOf
    <3>4. QED
      BY <3>2, <3>3
  <2>8. QED
    BY <2>1, <2>7, OneVU
<1>16. ASSUME NEW v \in VUs, OpenFails(v) PROVE RecordInv'
  <2>1. \A u \in VUs \ {v} : Same(u)
    BY <1>16 DEF OpenFails, Same, Recorded, Goto, PlaceType, RecordType
  <2>2. Undone(v)' = Undone(v) /\ Cardinality(Undone(v)) \in Nat
    BY <1>16, UndoneFinite DEF OpenFails, Undone
  <2>3. RecordOf(v)
    BY DEF RecordInv
  <2>4. ASSUME ~ended[v]
        PROVE  rec'[v] = [rec[v] EXCEPT !.rates = @ + 1]
    BY <1>16, <2>4 DEF OpenFails, Recorded, RecordType
  <2>5. ASSUME ended[v] PROVE rec'[v] = rec[v]
    BY <1>16, <2>5 DEF OpenFails, Recorded
  <2>6. /\ made'[v] = [made[v] EXCEPT !.unopened = @ + 1]
        /\ pc'[v] = pc[v] /\ ended'[v] = ended[v]
    BY <1>16 DEF OpenFails, Goto, PlaceType, RecordType
  <2>7. RecordOf(v)'
    <3>1. rec[v] \in [streams : Nat, durations : Nat, rates : Nat, unaryDurations : Nat, unaryRates : Nat]
      BY DEF RecordType
    <3>2. CASE ~ended[v]
      BY <2>2, <2>3, <2>4, <2>6, <3>1, <3>2 DEF RecordOf, RecordType
    <3>3. CASE ended[v]
      BY <2>3, <2>5, <2>6, <3>3 DEF RecordOf
    <3>4. QED
      BY <3>2, <3>3
  <2>8. QED
    BY <2>1, <2>7, OneVU
<1>17. ASSUME NEW v \in VUs, CountStream(v) PROVE RecordInv'
  <2>1. \A u \in VUs \ {v} : Same(u)
    BY <1>17 DEF CountStream, Same, Recorded, Goto, PlaceType, RecordType
  <2>2. Undone(v)' = Undone(v) /\ Cardinality(Undone(v)) \in Nat
    BY <1>17, UndoneFinite DEF CountStream, Undone
  <2>3. RecordOf(v)
    BY DEF RecordInv
  <2>4. ASSUME ~ended[v]
        PROVE  rec'[v] = [rec[v] EXCEPT !.streams = @ + 1]
    BY <1>17, <2>4 DEF CountStream, Recorded, RecordType
  <2>5. ASSUME ended[v] PROVE rec'[v] = rec[v]
    BY <1>17, <2>5 DEF CountStream, Recorded
  <2>6. /\ made'[v] = made[v]
        /\ pc[v] = "script" /\ pc'[v] = "newStream" /\ ended'[v] = ended[v]
    BY <1>17 DEF CountStream, Goto, PlaceType, RecordType
  <2>7. RecordOf(v)'
    <3>1. rec[v] \in [streams : Nat, durations : Nat, rates : Nat, unaryDurations : Nat, unaryRates : Nat]
      BY DEF RecordType
    <3>2. CASE ~ended[v]
      BY <2>2, <2>3, <2>4, <2>6, <3>1, <3>2 DEF RecordOf, RecordType
    <3>3. CASE ended[v]
      BY <2>3, <2>5, <2>6, <3>3 DEF RecordOf
    <3>4. QED
      BY <3>2, <3>3
  <2>8. QED
    BY <2>1, <2>7, OneVU
<1>18. ASSUME NEW v \in VUs, NewStream(v) PROVE RecordInv'
  <2>1. /\ pc[v] = "newStream" /\ pc' = [pc EXCEPT ![v] = "script"] /\ UNCHANGED <<ended, made>>
    BY <1>18 DEF NewStream, Goto
  <2>2. Cardinality(Undone(v)) \in Nat /\ RecordOf(v) /\ pc'[v] = "script"
    BY <2>1, UndoneFinite DEF RecordInv, PlaceType
  <2>3. CASE open' = [open EXCEPT ![v] = Append(@, FALSE)] /\ UNCHANGED rec
    <3>1. Cardinality(Undone(v)') = Cardinality(Undone(v)) + 1
      BY <2>3, UndoneChanges DEF Undone, StreamType
    <3>2. \A u \in VUs \ {v} : Same(u)
      BY <2>1, <2>3 DEF Same, StreamType, PlaceType
    <3>3. RecordOf(v)'
      BY <2>1, <2>2, <2>3, <3>1 DEF RecordOf, RecordType
    <3>4. QED
      BY <3>2, <3>3, OneVU
  <2>4. CASE rec' = Recorded(v, TRUE) /\ UNCHANGED open
    <3>1. \A u \in VUs \ {v} : Same(u)
      BY <2>1, <2>4 DEF Same, Recorded, RecordType, PlaceType
    <3>2. Undone(v)' = Undone(v)
      BY <2>4 DEF Undone
    <3>3. ASSUME ~ended[v]
          PROVE  rec'[v] = [rec[v] EXCEPT !.durations = @ + 1, !.rates = @ + 1]
      BY <2>4, <3>3 DEF Recorded, RecordType
    <3>4. ASSUME ended[v] PROVE rec'[v] = rec[v]
      BY <2>4, <3>4 DEF Recorded
    <3>5. RecordOf(v)'
      <4>1. CASE ~ended[v]
        <5>1. rec[v] \in [streams : Nat, durations : Nat, rates : Nat, unaryDurations : Nat, unaryRates : Nat]
          BY DEF RecordType
        <5>2. /\ rec'[v].streams = rec[v].streams /\ rec'[v].durations = rec[v].durations + 1
              /\ rec'[v].rates = rec[v].rates + 1
              /\ rec'[v].unaryDurations = rec[v].unaryDurations
              /\ rec'[v].unaryRates = rec[v].unaryRates
          BY <3>3, <4>1, <5>1
        <5>3. made[v].unopened \in Nat
          BY DEF RecordType
        <5>4. QED
          BY <2>1, <2>2, <3>2, <4>1, <5>1, <5>2, <5>3 DEF RecordOf
      <4>2. CASE ended[v]
        BY <2>1, <2>2, <3>4, <4>2 DEF RecordOf
      <4>3. QED
        BY <4>1, <4>2
    <3>6. QED
      BY <3>1, <3>5, OneVU
  <2>5. QED
    BY <1>18, <2>3, <2>4 DEF NewStream
<1>19. ASSUME NEW v \in VUs, EndStream(v) PROVE RecordInv'
  <2>1. PICK s \in DOMAIN open[v] : finish(v, s)
    BY <1>19 DEF EndStream
  <2>2. QED
    BY <1>19, <2>1, FinishKeeps DEF EndStream
<1>20. ASSUME NEW v \in VUs, Return(v) PROVE RecordInv'
  BY <1>20, RecordsLeft DEF Return, PlaceType, cacheVars, clientVars, streamVars, Goto
<1>21. ASSUME NEW v \in VUs, CloseStreams(v) PROVE RecordInv'
  <2>1. PICK s \in DOMAIN open[v] : finish(v, s)
    BY <1>21, FirstUndone DEF CloseStreams, Undone
  <2>2. QED
    BY <1>21, <2>1, FinishKeeps DEF CloseStreams
<1>22. ASSUME NEW v \in VUs, IterationOver(v) PROVE RecordInv'
  <2>1. Undone(v)' = {} /\ Undone(v) = {}
    BY <1>22 DEF IterationOver, Undone, StreamType, StreamInv
  <2>2. \A u \in VUs \ {v} : Same(u)
    BY <1>22 DEF IterationOver, Same, Goto, StreamType, PlaceType
  <2>3. RecordOf(v)'
    BY <1>22, <2>1 DEF IterationOver, Goto, RecordInv, RecordOf, PlaceType
  <2>4. QED
    BY <2>2, <2>3, OneVU
<1>23. ASSUME NEW v \in VUs, CloseVU(v) PROVE RecordInv'
  <2>1. Undone(v)' = {} /\ Undone(v) = {}
    BY <1>23 DEF CloseVU, Undone, StreamType, StreamInv
  <2>2. \A u \in VUs \ {v} : Same(u)
    BY <1>23 DEF CloseVU, Same, Goto, StreamType, PlaceType
  <2>3. RecordOf(v)'
    BY <1>23, <2>1 DEF CloseVU, Goto, RecordInv, RecordOf, PlaceType
  <2>4. QED
    BY <2>2, <2>3, OneVU
<1>24. ASSUME NEW v \in VUs, EndContext(v) PROVE RecordInv'
  BY <1>24, RecordsLeft DEF EndContext, PlaceType, cacheVars, clientVars, streamVars, Goto
<1>25. ASSUME UNCHANGED vars PROVE RecordInv'
  BY <1>25, RecordsLeft DEF vars, PlaceType, cacheVars, clientVars, streamVars, Goto
<1>26. QED
  BY <1>1, <1>2, <1>3, <1>4, <1>5, <1>6, <1>7, <1>8, <1>9, <1>10, <1>11, <1>12,
     <1>13, <1>14, <1>15, <1>16, <1>17, <1>18, <1>19, <1>20, <1>21, <1>22, <1>23,
     <1>24, <1>25 DEF Next, VUStep, Connecting

-----------------------------------------------------------------------------
(* The invariant and what follows from it *)

\* The first state: no VU has begun and nothing is cached.
LEMMA GrpcInit == Init => GrpcInv
<1> SUFFICES ASSUME Init PROVE GrpcInv
  OBVIOUS
<1>1. PlaceType /\ ConnType /\ ConnInv
  BY DEF Init, PlaceType, Places, ConnType, ConnInv
<1>2. CacheType /\ CacheInv
  BY EmptySeq DEF Init, CacheType, CacheInv
<1>3. StreamType /\ StreamInv
  BY EmptySeq DEF Init, StreamType, StreamInv
<1>4. RecordType
  BY DEF Init, RecordType, NoRecords, NoneMade
<1>5. \A v \in VUs : Undone(v) = {} /\ Cardinality(Undone(v)) = 0
  BY FS_EmptySet DEF Init, Undone
<1>6. RecordInv
  BY <1>5 DEF Init, RecordInv, RecordOf, NoRecords, NoneMade
<1>7. QED
  BY <1>1, <1>2, <1>3, <1>4, <1>6 DEF GrpcInv, TypeOK

\* The invariant holds in every state of every run of the module.
THEOREM GrpcInvariance == Spec => []GrpcInv
<1>1. GrpcInv /\ [Next]_vars => GrpcInv'
  BY PlaceStep, CacheTypeStep, ConnTypeStep, StreamTypeStep, RecordTypeStep, CacheStep,
     ConnStep, StreamStep, RecordStep DEF GrpcInv, TypeOK
<1>2. QED
  BY GrpcInit, <1>1, PTL DEF Spec

\* The state of the VUs, the caches, the connections, the streams and the records
\* has its types.
THEOREM TypeCorrect == Spec => []TypeOK
<1>1. GrpcInv => TypeOK
  BY DEF GrpcInv
<1>2. QED
  BY GrpcInvariance, <1>1, PTL

\* A set whose elements are all equal has at most one.
LEMMA AtMostOne ==
    ASSUME NEW S, \A x, y \in S : x = y
    PROVE  Cardinality(S) <= 1
<1>1. CASE S = {}
  BY <1>1, FS_EmptySet
<1>2. CASE S # {}
  <2>1. PICK x \in S : TRUE
    BY <1>2
  <2>2. S = {x}
    BY <2>1
  <2>3. QED
    BY <2>2, FS_Singleton
<1>3. QED
  BY <1>1, <1>2

\* Descriptors are fetched by one VU at a time and, once one fetch has succeeded,
\* never again; a failure is not given to a connect that begins after it.
THEOREM ReflectionOnce == Spec => []ReflectedOnce
<1>1. GrpcInv => ReflectedOnce
  <2> SUFFICES ASSUME GrpcInv PROVE ReflectedOnce
    OBVIOUS
  <2>1. Cardinality({v \in VUs : pc[v] = "fetch"}) <= 1
    BY AtMostOne DEF GrpcInv, CacheInv
  <2>2. DOMAIN once = 1..Len(once) /\ Len(once) \in Nat
    BY LenProperties DEF GrpcInv, TypeOK, CacheType
  <2>3. Cardinality({e \in DOMAIN once : once[e] = "ok"}) <= 1
    <3>1. \A e \in DOMAIN once : once[e] = "ok" => e = reflected
      BY <2>2 DEF GrpcInv, CacheInv
    <3>2. QED
      BY <3>1, AtMostOne
  <2>4. (\E e \in DOMAIN once : once[e] = "ok") => \A v \in VUs : pc[v] # "fetch"
    BY <2>2 DEF GrpcInv, CacheInv
  <2>5. reflected \notin failures
    BY DEF GrpcInv, CacheInv
  <2>6. QED
    BY <2>1, <2>3, <2>4, <2>5 DEF ReflectedOnce
<1>2. QED
  BY GrpcInvariance, <1>1, PTL

\* A client holds its current connection and no other, a stream does not outlive
\* its iteration, and nothing is left when the VU is closed.
THEOREM NoLeaks == Spec => []NothingLeftOpen
<1>1. GrpcInv => NothingLeftOpen
  BY DEF GrpcInv, TypeOK, ConnInv, StreamInv, NothingLeftOpen
<1>2. QED
  BY GrpcInvariance, <1>1, PTL

\* An iteration whose context has not ended has recorded each of its calls once.
THEOREM CallsAreRecorded == Spec => []CallsRecorded
<1>1. GrpcInv => CallsRecorded
  <2> SUFFICES ASSUME GrpcInv, NEW v \in VUs
               PROVE  /\ rec[v].durations <= rec[v].streams
                      /\ pc[v] = "idle" /\ ~ended[v] =>
                            /\ rec[v].durations = rec[v].streams
                            /\ rec[v].rates = rec[v].streams + made[v].unopened
                            /\ rec[v].unaryDurations = made[v].invoked
                            /\ rec[v].unaryRates = made[v].invoked + made[v].unsent
    BY DEF CallsRecorded
  <2>1. pc[v] = "idle" => Cardinality(Undone(v)) = 0
    <3>1. pc[v] = "idle" => open[v] = <<>>
      BY DEF GrpcInv, StreamInv
    <3>2. pc[v] = "idle" => Undone(v) = {}
      BY <3>1 DEF Undone
    <3>3. QED
      BY <3>2, FS_EmptySet
  <2>2. QED
    BY <2>1 DEF GrpcInv, TypeOK, RecordType, RecordInv, RecordOf
<1>2. QED
  BY GrpcInvariance, <1>1, PTL

=============================================================================
