------------------------------ MODULE Recorders ------------------------------
(***************************************************************************)
(* What a run's recorders hold, and how they are merged (metrics.go,       *)
(* checks.go and families.go of internal/metrics). A store is the state    *)
(* they make up: a recorder per VU, the histogram shards and the table of  *)
(* check names they share, and the metric families, sharded like them.     *)
(* An operation maps a store to the store it leaves.                       *)
(***************************************************************************)
EXTENDS Histogram, SequencesExt

CONSTANTS NumVUs,      \* recorders of the run
          NumShards,   \* numShards, 16 in the code
          Statuses,    \* the status codes responses may have
          FamilyKind   \* the declared families: name -> "trend", "counter" or "rate"

ASSUME StoreAssumption == NumVUs \in Nat \ {0} /\ NumShards \in Nat \ {0}

VUs == 1..NumVUs

HTTPShards  == 0..(Min({NumVUs, NumShards}) - 1)
ShardOf(v)  == (v - 1) % Cardinality(HTTPShards)
FamShard(v) == (v - 1) % NumShards

None == 0   \* no message: the empty string; messages are the numbers of the VUs they came from

newShard == [ok |-> newHistogram, failed |-> newHistogram,
             statuses |-> [c \in Statuses \union {0} |-> 0]]

newRecorder == [unsent |-> 0, scriptErrors |-> 0, firstScriptError |-> None, iterations |-> 0,
                protocols |-> [HTTP1 |-> 0, HTTP2 |-> 0, Other |-> 0],
                checkIndex |-> <<>>, checks |-> <<>>]

newFamily(kind) == [j \in 0..(NumShards - 1) |->
                      IF kind = "trend" THEN newShard ELSE [count |-> 0, trues |-> 0]]

NewRecorders == [recs   |-> [v \in VUs |-> newRecorder],
                 shards |-> [j \in HTTPShards |-> newShard],
                 names  |-> <<>>,
                 fams   |-> [f \in DOMAIN FamilyKind |-> newFamily(FamilyKind[f])]]

-----------------------------------------------------------------------------
(* Recording: HTTP requests, iterations and families *)

Into(shard, d, ok) == IF ok THEN [shard EXCEPT !.ok = record(@, d)]
                            ELSE [shard EXCEPT !.failed = record(@, d)]

Record(st, v, d, ok) == [st EXCEPT !.shards[ShardOf(v)] = Into(@, d, ok)]

RecordUnsent(st, v) == [st EXCEPT !.recs[v].unsent = @ + 1]

\* A code outside 100 to 599 counts as 0.
StatusClass(code) == IF code \in 100..599 THEN code ELSE 0
RecordStatus(st, v, code) == [st EXCEPT !.shards[ShardOf(v)].statuses[StatusClass(code)] = @ + 1]

RecordProtocol(st, v, proto) ==
    [st EXCEPT !.recs[v].protocols[CASE proto = "HTTP/2.0" -> "HTTP2"
                                     [] proto \in {"HTTP/1.1", "HTTP/1.0"} -> "HTTP1"
                                     [] OTHER -> "Other"] = @ + 1]

RecordIteration(st, v) == [st EXCEPT !.recs[v].iterations = @ + 1]

RecordScriptError(st, v, msg) ==
    [st EXCEPT !.recs[v].firstScriptError = IF st.recs[v].scriptErrors = 0 THEN msg ELSE @,
               !.recs[v].scriptErrors = @ + 1]

Trend(st, v, f, d, ok) == [st EXCEPT !.fams[f][FamShard(v)] = Into(@, d, ok)]

Add(st, v, f, n) == [st EXCEPT !.fams[f][FamShard(v)].count = @ + n]

Rate(st, v, f, true) ==
    [st EXCEPT !.fams[f][FamShard(v)].count = @ + 1,
               !.fams[f][FamShard(v)].trues = IF true THEN @ + 1 ELSE @]

-----------------------------------------------------------------------------
(* Recording: checks *)

\* checkNames.id: the name's index in the shared table, and the table after
\* a name not in it has been added.
id(names, name) ==
    IF \E i \in DOMAIN names : names[i] = name
    THEN <<CHOOSE i \in DOMAIN names : names[i] = name, names>>
    ELSE <<Len(names) + 1, Append(names, name)>>

noCount == [passes |-> 0, fails |-> 0, firstError |-> None]

\* Counts one run of check name, whose index and table found holds.
Tally(st, v, name, found, passed, msg) ==
    LET rec   == st.recs[v]
        i     == found[1]
        grown == rec.checks \o [k \in 1..(i - Len(rec.checks)) |-> noCount]
    IN  [st EXCEPT
           !.names = found[2],
           !.recs[v].checkIndex = [n \in DOMAIN rec.checkIndex \union {name} |->
                                     IF n = name THEN i ELSE rec.checkIndex[n]],
           !.recs[v].checks = IF passed THEN [grown EXCEPT ![i].passes = @ + 1]
                              ELSE [grown EXCEPT ![i].fails = @ + 1,
                                                 ![i].firstError = IF @ = None THEN msg ELSE @]]

\* The name's index is looked up in the recorder's cache, then in the table.
RecordCheck(st, v, name, passed, msg) ==
    LET cached == st.recs[v].checkIndex
        found  == IF name \in DOMAIN cached THEN <<cached[name], st.names>> ELSE id(st.names, name)
    IN  Tally(st, v, name, found, passed, msg)

-----------------------------------------------------------------------------
(* Merging *)

\* The first message in the order of the recorders, not of time.
FirstMessage(msg) ==
    LET said == {v \in VUs : msg[v] # None}
    IN  IF said = {} THEN None ELSE msg[Min(said)]

\* All recorders of NewRecorders share one table, in whose order the checks
\* are listed; a recorder counts the checks it has met, by index.
mergeChecks(st) ==
    [i \in DOMAIN st.names |->
       LET tally(v) == IF i \in DOMAIN st.recs[v].checks THEN st.recs[v].checks[i] ELSE noCount
       IN  [name   |-> st.names[i],
            passes |-> SumFunction([v \in VUs |-> tally(v).passes]),
            fails  |-> SumFunction([v \in VUs |-> tally(v).fails]),
            firstError |-> FirstMessage([v \in VUs |-> tally(v).firstError])]]

\* The shards the recorders write to: Merge's seen, each counted once.
SeenPerRecorder(st) == [v \in VUs |-> st.shards[ShardOf(v)]]
Seen(st) == [k \in 1..Cardinality(HTTPShards) |-> st.shards[k - 1]]

mergeStatuses(shards) ==
    [c \in Statuses \union {0} |->
       SumFunction([k \in DOMAIN shards |-> shards[k].statuses[c]])]

\* The latency part of a summary: zero without samples.
Latency(h, percentiles) ==
    IF h.n = 0 THEN [Min |-> 0, Max |-> 0, Mean |-> 0, P |-> [p \in percentiles |-> 0]]
    ELSE [Min |-> h.min, Max |-> h.max, Mean |-> h.sum \div h.n,
          P |-> [p \in percentiles |-> percentile(h, p)]]

ShownPercentiles == {500, 900, 950, 990}

Merge(st) ==
    LET shards  == Seen(st)
        oks     == [k \in DOMAIN shards |-> shards[k].ok]
        faileds == [k \in DOMAIN shards |-> shards[k].failed]
        ok      == combine(oks)
        all     == combine(oks \o faileds)
        failures == SumFunction([v \in VUs |-> st.recs[v].unsent]) + (all.n - ok.n)
    IN  [Requests |-> ok.n + failures, Successes |-> ok.n, Failures |-> failures, Sent |-> all.n,
         Latency |-> Latency(all, ShownPercentiles),
         SuccessP |-> Latency(ok, ShownPercentiles).P,
         latency |-> all,
         ScriptErrors |-> SumFunction([v \in VUs |-> st.recs[v].scriptErrors]),
         FirstScriptError |-> FirstMessage([v \in VUs |-> st.recs[v].firstScriptError]),
         Iterations |-> SumFunction([v \in VUs |-> st.recs[v].iterations]),
         Protocols |-> [k \in {"HTTP1", "HTTP2", "Other"} |->
                          SumFunction([v \in VUs |-> st.recs[v].protocols[k]])],
         Checks |-> mergeChecks(st),
         StatusCodes |-> mergeStatuses(shards)]

\* Families.Summarize: one summary per declared family.
Summarize(st) ==
    [f \in DOMAIN FamilyKind |->
       LET sh  == st.fams[f]
           all == combine([k \in 1..(2 * NumShards) |->
                             IF k <= NumShards THEN sh[k - 1].ok ELSE sh[k - NumShards - 1].failed])
       IN  IF FamilyKind[f] = "trend"
           THEN [Count |-> all.n,
                 Failed |-> SumFunction([j \in DOMAIN sh |-> sh[j].failed.n]),
                 Latency |-> Latency(all, ShownPercentiles), latency |-> all]
           ELSE [Count |-> SumFunction([j \in DOMAIN sh |-> sh[j].count]),
                 Trues |-> SumFunction([j \in DOMAIN sh |-> sh[j].trues])]]
=============================================================================
