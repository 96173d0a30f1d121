# A TLA+ model of LoadTool

LoadTool runs a TypeScript load test: it bundles the script, runs it in one
JavaScript runtime (goja) per virtual user (VU), drives the VUs by the
scenarios of the script's options, records latencies, and turns the result into
reports and an exit code. This directory models the parts of it that carry its
concurrency and its arithmetic, checks them with TLC on small instances, and
proves most of them correct for every instance with TLAPS: the executors and the
engine that runs them side by side, the way from options and forms to a plan, the
sampler, the lifecycle of a run, the UI's controller, HTTP sessions, and the
WebSocket, gRPC and Kafka modules.

`PROJECT.json` lists components, runs, the source lines of each definition,
hazards, findings and theorems. All paths below are under `src/internal/`.

## 1. Inventory

| Component | State | Operations | What is hard, and what makes it correct |
|---|---|---|---|
| Constant-arrival-rate executor (`engine/executors.go`) | channel of idle tokens, unbuffered `starts`, `dropped` | `drive`: one scheduler goroutine, one goroutine per VU; `offset` | rendezvous and token races, Ctrl+C anywhere, machine integers. No token lost, no start lost or early, a start dropped only if every VU is busy, all goroutines return |
| Ramping-vus executor (same file) | none shared: each VU computes from the stages | `next`, `crossing`, `activeAt`, `drive`, `runIteration` | rounding of crossings, late wake-ups, per-iteration deadlines. Iterations begin only while the VU is active, the chart agrees, deadlines cut |
| Constant-vus executor (same file) | none | `drive` | waiting for the start time, stopping in time |
| Engine (`engine/scenario.go`) | per scenario: context, start, stop | `RunScenariosSampled`, `waitUntil`, `iterate`, `sample` | creation failures, scenarios that overlap and end apart, joining every goroutine before the summary. Iterations begin and count only while their scenario allows it, the series covers the whole test, the call returns |
| Histogram (`metrics/histogram.go`) | bucket counts, n, sum, min, max (atomics) | `record`, `combine`, `percentile` | bucket borders, rank rounding, compare-and-swap loops |
| Sampler (`metrics/sampler.go`) | previous snapshot, carried failures | `Sample` | a snapshot that is not atomic; totals must add up, nothing may wrap |
| Recorders and summary (`metrics/metrics.go`, `checks.go`, `families.go`) | per-VU counters and check tallies; shared shards, table of check names and families | `Record*`, `Trend`, `Add`, `Rate`, `Merge`, `Summarize` | several VUs share a shard and number checks together; merged only after every VU returned. Each operation counted once, none that the end of the test cut short |
| Script runtime (`script/script.go`) | one goja runtime per VU, its interrupt flag, current context and recorder | `NewVUExec`, `Iterate` | an interrupt from another goroutine races the script's return |
| Lifecycle runtime (`script/lifecycle.go`) | runtime 0 | `Options`, `Setup`, `Teardown`, `call`, `interruptOn` | timeouts and Ctrl+C racing setup and teardown |
| Protocol module host (`script/protocols.go`, `protocol/`) | module runs, instances per VU | `StartModules`, `instanceFor`, `VU.Close`, `CloseModules` | partial start failure, order of closing |
| Runner (`runner/runner.go`) | the run's result | `Run`, `teardownContext` | ten early returns, deferred calls, what an interrupt does at each place |
| Command line (`cli/`, `cmd/loadtool`) | signals, exit code | `runTest`, `ExitCode`, `main` | first and second Ctrl+C, one code out of several failures |
| Outcome (`report/outcome.go`) | none | `Verdict` | precedence of reasons |
| Local UI controller (`ui/controller.go`, `cli/ui.go`) | current run, each run's state, points, warnings and reports, two levels of mutexes | `Start`, `execute`, `addPoint`, `warn`, `Cancel`, `Status`, `Report`, `Close` | look up under one lock, act under another |
| Local UI server (`ui/config.go`, `ui/server.go`, `ui/redact.go`) and network guard (`netguard/`) | none | `validate`, `validateRequest`, `CheckURL`, `Control` | what a form is allowed to ask for must be what the runner then accepts |
| Options and scenarios (`config/`) | resolved settings | `ParseOptions`, `Resolve`, `Validate` | precedence of four sources, fields that apply to one executor only, checks and counts that the engine makes again. What was asked for runs, or the user is told |
| Thresholds (`thresholds/`) | parsed expressions | `Parse`, `Evaluate` | missing data must fail, and a threshold must judge what really happened |
| HTTP client and responses (`httpclient/`, `script/http.go`, `script/response.go`) | shared transport, one cookie jar per runtime | `Do`, `Send`, `readBody`, `Jar`, `response.json` | what counts as sent or failed, whose session a request belongs to, what a script sees of a body |
| WebSocket (`protocols/ws/`) | per session: connection, event channel, `closing`, `done`, first error, sends awaiting a reply | `connect` in two styles, `send`, `receive`, `close`, timers, `EndIteration` | three goroutines that wait for each other over a bounded channel; many ways to end, one record. Nothing outlives the session, no message lost, recorded once |
| gRPC (`protocols/grpc/`) | a connection and streams per client; descriptor caches shared by the VUs | `connect`, `reflect`, `invoke`, `stream`, `close` | a cache that one VU fills while others wait and that must not keep failures. Fetched once, nothing left open, streams recorded once |
| GraphQL (`protocols/graphql/`) | none between operations | `operation`, `finish` | two looks at the context for one operation |
| Kafka (`protocols/kafka/`) | producers and consumers of a VU, clients kept for one-off calls | `produce`, `produceBatch`, `consume`, `Close` | results out of order, a context that ends in the middle of a batch, objects used after they were closed. Each message has its own result, families are exact, no client is left open |

Interaction: `cli` calls `runner.Run`, which starts the module runs, creates the
lifecycle runtime, calls `setup`, hands `engine.RunScenariosSampled` a function
that creates VUs, and calls `teardown`. The engine starts each executor's
goroutines; they call `VU.Iterate`, which runs JavaScript that calls back into
Go (requests, `sleep`, `check`, protocol modules) and records into the VU's
recorder. The sampler goroutine reads the recorders' shards meanwhile. Contexts
carry cancellation from Ctrl+C and deadlines to all of them; `AfterFunc`
goroutines turn the end of a context into a goja interrupt.

## 2. Modules

| Module | Models | Extends |
|---|---|---|
| `OpenLoad` | what an arrival-rate scenario promises: starts are accepted by a free VU or dropped while all are busy, never more than planned | |
| `ArrivalRate` | `ConstantArrivalRate.drive` | |
| `ArrivalRateProofs` | its theorems | `ArrivalRate` |
| `RampPlan` | stage arithmetic, and the exact stage line as reference | |
| `RampingVU` | one VU: `drive`, `runIteration`, `Iterate`, the script, the interrupt goroutine | `RampPlan` |
| `RampingVUProofs` | theorems about both | `RampingVU` |
| `Histogram`, `HistogramWalk` | buckets and percentiles; all short recordings | |
| `Sampler` | VUs inside `histogram.record`, the sampler inside `Sample` | `Histogram` |
| `Recorders` | what the run's recorders hold, as operators on a store, and their merge | `Histogram` |
| `Thresholds` | which expressions are accepted, and their evaluation | `Recorders` |
| `Workload` | VUs that send requests and GraphQL operations and run checks, the end of the test, and the report | `Thresholds` |
| `MetricsProofs` | theorems about `Sampler` and `Workload`, in one part each | `Sampler`, `Workload` |
| `Lifecycle` | a run from start to exit code | |
| `UIController` | the controller of `loadtool ui` | |
| `HTTPSession` | the requests, cookies and response bodies of the VUs and the lifecycle runtime | |
| `LifecycleProofs` | theorems about these three, in one part each | `Lifecycle`, `UIController`, `HTTPSession` |
| `WSSession` | one WebSocket session, callback or blocking | |
| `WSSessionProofs` | its theorems | `WSSession` |
| `Grpc` | the gRPC clients of several VUs with their shared descriptor caches, calls and streams | |
| `GrpcProofs` | its theorems | `Grpc` |
| `Options` | `config`: from script options, flags and variables to scenarios, as operators | |
| `Startup` | a run from its settings to the start of the clock: runner, then engine | `Options`, instance of `RampPlan` |
| `TestRun` | what a test promises of its iterations: they begin while their scenario is open, count if they return before it ends, and the result holds exactly those | |
| `Engine` | the load phase: all scenarios' goroutines, the sampler, Ctrl+C, to the Result | `Startup`, instance of `TestRun` |
| `Form` | the form of `loadtool ui` and the run it becomes | `Startup` |
| `EngineProofs` | theorems about these five | `Engine`, `Form` |
| `Kafka` | the Kafka objects, clients and calls of one VU | |
| `KafkaProofs` | its theorems | `Kafka` |

`MC*` modules give TLC its plans, outcomes and model values. `MCEngine` puts `Engine`
and `Form` on one `Startup`; `MCRampingVU` walks a family of plans tick by tick beside
the VU. Three of them let a second system move by itself while the first stands still,
so that one run answers both questions and their states add up instead of multiplying:
in `MCVUs` `Sampler` moves in one state in which the VU of `RampingVU` has returned, in
`MCLifecycle` `UIController` moves where a run was killed before it did anything, and in
`MCWorkload` the histogram and the HTTP sessions move as long as no VU of `Workload` has
begun.

### ArrivalRate

`sched` is the scheduler's place in its loop, `vu[v]` that of a VU's goroutine,
`idle` the number of tokens in the channel, `k` the start the loop is at;
`started`, `dropped` and `counted` are what came of the starts. A send on the
unbuffered channel `starts` is one joint step of the scheduler and a receiving
VU (`Handover`), `idle <-` is enabled only while the channel has room, and a
`select` with several ready cases may take any. `offset` multiplies in a word of
`2*HalfWord` values and divides towards zero, as Go's int64 does. The clock moves
between any two steps, so goroutines may be arbitrarily late.

### RampPlan and RampingVU

`RampPlan` keeps the code's conversion to whole microseconds (`MicroTicks` ticks
each) and its integer divisions; `Elapsed` sums the durations as the code's loop does on
its way through the stages, and the reference `Active` is the line itself. In
`RampingVU` one pass of `drive`'s loop is one step: the clock it reads and the
iteration it begins belong to one instant. A script makes Go calls (during which
an interrupt has no effect), loops, returns or throws; `hook` is the
registered `AfterFunc`, `flying` the goroutines it started, `interrupt` goja's
flag. goja itself is external: an interrupted call returns with an error, and
the flag is cleared by it.

### Histogram and Sampler

The bucket layout is the code's with the number of sub-bucket bits a constant
(the code has 6). In `Sampler` every atomic add, load and compare-and-swap is a
step. One shard stands for the sixteen, and a point's mean and percentiles are
left out.

### Recorders, Thresholds and Workload

`Recorders` has one operator per method of `Recorder` and `Families`, each from a
store to the store it leaves: the counters of every VU, the HTTP shards (VU `v`
records in shard `v - 1` modulo their number), the shared table of check names
and the shards of each family. `record` is one step here, `Sampler` shows that
its atomic operations add up. `Merge` and `Summarize` read the store; percentages
and means are integers or fractions, status counts a function. A threshold is a
record of metric, aggregate, operator and limit, numbers are fractions; the
syntax of expressions and the mark for percentiles near their limit are left out.

In `Workload` every look at the context is a step apart from the ones before and
after it: the answer of a request and its record, an operation's record and the
count of its errors, the end of a script and the two records of an iteration.
Outcomes of requests are constants; one that comes after the end of the test is
`Late`. `log` and `order` are history: what each VU did, and whether the test went on
until it was recorded. The properties compute the summary anew from `log`. One
context stands for all iterations, and only executors that drop no iterations
are meant. A message (a script's or a check's error) is the number of its VU.

### Lifecycle

`pc` is the place of `Run` and then `runTest`; script calls share `js`, `hook` and
`intr` because only one runs at a time under `interruptOn`. The load phase is one
state in which VUs may create module instances and Ctrl+C may arrive; what
happens in it is the executors' modules' business. `cfg.Resolve`, `Validate`,
threshold parsing and `prepareExecs` are one step that may fail. Closing a
resource may report an error, which the code only logs. The engine may refuse a
scenario before it creates any of the scenario's VUs (`EngineRefuses`): the run then
fails with other VUs created, setup done and modules open.

### UIController

Each lock region is a step; `Cancel` is three (look up, mark, cancel the
context). The runner behind `runPlan` returns an error, a partial result if it was
cancelled, or a full one. While it runs, the sampler adds points and VUs add
warnings, of which the code keeps the first twenty. A poll is what `Status` returns:
state, report, number of points and of warnings. Reports are taken to render
without error.

### WSSession

`pc` is the place of the VU's goroutine: `setup`, `open` and `handler` while the
script's functions run, `loop` at the `select` of `run`; `script`, `receive` and
`closing` in the blocking style; `drain` and `join` while either is released.
`reader` is the reader goroutine, `queue` the channel `events`, `closer` the goroutine
of the close handshake. The other variables are fields of `session`; an error is
its kind. The connection is external: a read yields a message, a close frame or
a failure, a write may fail, and the handshake ends by the peer's frame or the
library's timeout. Messages carry nothing, and of the sends awaiting a reply only
their number is kept. Two variables are history: `timedOut`, that a receive has timed
out, and `cause`, how the session ended: `clean`, `abnormal`, or `masked` when a read or
write failed and the error handler threw (`open` if none of these ended it, but an
exception or the test). A read that fails once the script has asked to close counts as
clean, as in `readFailed`. Left out: when timers are due
(one may fire whenever the loop waits), what error and close handlers do besides
returning or throwing, and more than one socket of an iteration, which
`closeOpen` closes one after the other.

### Grpc

`once[e]` is the state of the sync.Once of cache entry `e`, `reflected` the entry the
map holds, `entry[v]` the one VU `v` looked up: a VU may still hold an entry that
another has evicted. `live` counts connections that are not closed, `conn` says
whether the client's field holds one. A stream is whether it is done; messages
leave no trace but their counters, which are left out, as are several clients or
addresses of one VU. A unary call waits for its answer, so its context may end before
it is recorded. `loaded` is the result of parsing the `.proto` file, a failure included,
which the first VU to ask fetches for all; a load in top-level code is part of `Init`.
`failures` and `made` are history.

### Options and Startup

An optional value is a sequence of at most one element, a JSON value is its kind
(absent, null, of the wrong type, given), an environment variable may be blank. `Choose` is
one precedence switch of `Resolve`; `Complete` fills in a scenario's defaults and
`ScenarioValid` says when `resolveScenario` returns no error, whichever error comes
first. Unparsable durations and threshold expressions are of the wrong type.
Scenarios are a sequence in the order of their names, which stand for themselves.

`Startup` resolves, runs setup, and creates VUs as the engine does: one scenario is
validated, then its VUs are created one by one, then the next. The engine's own
counts (`Needs`, `Lasts`) are those of its executors, not of `Options`; for ramping-vus
they are `RampPlan`'s. The two limits of ramping-vus are constants.

### Engine and TestRun

`Engine` goes on where `Startup` ends. The main goroutine drives one scenario after the
other (Ctrl+C may come in between), starts the sampler, waits for all goroutines,
takes the time, closes `stop` and receives the series, each in a step of its own. The
clock moves between any two steps, so everybody may be late; a context ends some
time after its deadline. A VU of constant-vus is modelled in full; of ramping-vus,
`Engine` keeps the loop and leaves the per-iteration deadline to `RampingVU` (an
iteration of such a VU may not count although the scenario's context is live); of
constant-arrival-rate it keeps the schedule and hands a start to a receiving VU in one
step, which `ArrivalRate` shows to be what the tokens do. An iteration records one
request or none. The ticker keeps one tick at most, with its time.

`TestRun` is the abstract specification: scenarios are pending, open, stopping and
ended; `IsTestRun` maps the goroutines and clocks of `Engine` to it. An arrival-rate
scenario counts as open until its scheduler has returned, since a late scheduler
hands over the starts that were due in time. VUs may leave before the test's
duration is over: those of ramping-vus that no later stage needs, and those of
an arrival-rate scenario after its last start. `NobodyLeavesEarly` says that this is all.

### Form

A URL is its scheme, host and whether it has credentials or a fragment; names and
values are strings of which only their kind matters. `validateForm` and
`validateRequest` say when the code's functions return no error. `runPlan` is the input
of `Startup`: flags set, no environment, thresholds from the form. A limit is a
fraction; whether `%g` prints it without an exponent is `PrintsPlainly`.

### HTTPSession

One jar per session (`Sessions`: runtime 0 and one per VU); a cookie is its name, since
all requests go to one site. An exchange is a request with its answer: the answer may be
refused, break off, come with or without Content-Length, set and clear cookies. A body
is the number of its bytes. GraphQL operations and WebSocket handshakes use the same
jar. Setup and teardown are the two calls of runtime 0. What is recorded of a request is
`Workload`'s business.

### Kafka

`objs` are the producers and consumers in the order in which they registered with
the VU; `kgo` is whether the franz-go client exists. `call` is the call in progress:
messages are built one at a time, `index` holds the positions of those that gave a
record, and each result is a step of its own, so the
context may end between any two. franz-go is external: `ProduceSync` returns every
record as acknowledged or failed, in any order, `PollRecords` any number of
messages and perhaps an error. Every message has a timestamp, so that the latency
family has one entry for each message consumed and is not kept apart. Timeouts are
left out: a call that times out is one that fails, or one cut short by the end of
the context. `seen` and `cut` are history.

## 3. Runs

| Run | Bounds | Shows |
|---|---|---|
| `arrival_rate` | 2 VUs, 6 starts at 3 per 2 ticks, start time and graceful stop of 1 | the properties of `ArrivalRate`, and that it implements `OpenLoad` |
| `ramping_vu` | three plans (hump, valley, jump) with 2 iterations of 1 Go call each; and every tick of some 1 400 plans of 2 and 3 stages; 2 recording VUs with 1 request each, 2 samples, 2 buckets | `next` is the first tick in the wanted state and `activeAt` counts those VUs (`StagesExact`); iterations begin only while active, ramp-down cuts them, the goroutine returns; histograms are exact once quiet, no wrap, no failure repeated, the series adds up (`PointsSound`) |
| `stale_interrupt` | the three plans | violation: a late interrupt aborts the next iteration, recorded as a script error |
| `workload` | 3 VUs over 2 shards, 2 operations, 2 iterations, 2 checks, 4 outcomes of requests and 5 of GraphQL operations, 13 expressions; 4 recordings of 10 latencies with 1 sub-bucket bit; 3 exchanges of 5 kinds by 2 VUs with 2 iterations, setup and teardown | summary, checks, families and verdicts are those of what happened; percentiles are accurate, in order and between the extremes; requests carry the cookies of their own session, bodies are whole or explained |
| `head_request` | 1 exchange | violation: a complete response to HEAD is recorded as failed |
| `lifecycle` | 2 VUs, 2 modules; 2 UI runs, 2 cancelling handlers, 2 points and 1 warning kept per run | teardown, interrupts, closing order, exit code, termination; polls whose state, report and points belong together, cancels that hit their run |
| `ws_session` | channel of 1, 1 awaited reply, 2 messages, 3 calls of the script | nothing outlives a session, no message lost, always released; recorded once, as ok never after an end that left its error, as failed only after a failed handshake, such an end or a receive timeout |
| `ws_masked` | as `ws_session` | violation: a session that a failed read or write ended is recorded as ok if its error handler threw |
| `ws_timeout` | as `ws_session` | violation: a session that closed normally is recorded as failed if a receive timed out before |
| `grpc` | 2 interchangeable VUs, 4 connects, 2 iterations, 2 calls or streams | descriptors fetched once, no failed fetch kept, nothing left open, calls and streams recorded once |
| `engine` | 6 374 settings: flags and variables against 35 scripts, single scenarios with every combination of set, unset and bad fields, pairs of scenarios, forms; the load phase of four of them, with up to 2 iterations | the announced plan is what runs, what was asked for runs or is refused, what was accepted stays accepted; the load phase implements `TestRun`, nobody leaves early, the series covers the run, and the run returns |
| `kafka` | 2 objects, 2 calls of up to 2 messages, 2 iterations | each message gets its own result, families are exact, clients are released |

The bounds are enough for the cases that matter. With two VUs and three starts
per two ticks there are free, busy and short pools, simultaneous starts, and
tokens in every place. The plans have an interior crossing on each slope, a
jump and a valley (a VU that becomes active again after a ramp-down). Two
VUs race on one compare-and-swap and the sampler may stand between any two of
their steps. Two modules are needed for a start that fails halfway, two VUs for a
creation that fails halfway, and two UI runs for a cancel that arrives late. A
channel of one with two messages and a close frame is full while the reader
offers another event, and three calls are a send, a failed one and a receive or a
timer in any order. Of three VUs over two shards two share one, and two
operations meet in one shard, one check or one family. With four connects a VU
still holds a failed entry while the other fetches again, and one connects after
that. Two scenarios are enough for numbering and recorders to overlap, and for one to
go on, or not to have begun, when the other ends; each field of a scenario occurs
unset, good and bad. Three exchanges set a cookie, clear it and show what is sent, in
one runtime or across two. Two messages can be acknowledged
out of order or be mixed with an invalid one, and two calls use one client twice or
use an object after it was closed.

Fairness: goroutines that can run do run, timers fire once due, and the clock
advances; nothing is assumed of Ctrl+C. A script owes nothing: an iteration,
setup and teardown may go on for ever until their context ends, and a blocked Go
call is known to return only then (`IterationFunc`, `engine/engine.go:15`). Only a
script's top-level code is assumed to end, since nothing but Ctrl+C bounds it.
A WebSocket read of an open connection owes nothing; the close handshake ends by
the library's own timeouts, and a script's handler is aborted once the context
has ended. `Lifecycle` assumes that the load phase ends, as `AllReturn` and `Returns`
show of the executors and `RunReturns` of the whole load phase, where iterations may
likewise go on until their context ends and return only then. `Sampler`,
`UIController`, `Grpc`, `Kafka`, `Workload` and `HTTPSession` are checked for safety
only and assume no fairness.

## 4. Findings

`VU.Iterate` ignores that its `AfterFunc` may already have started, so the
interrupt of a ramp-down deadline can abort the VU's next iteration, which is then
recorded as a script error (`stale_interrupt`). `interruptOn` in `lifecycle.go`
waits for it instead, and `InterruptContained` shows that this is enough.

`readBody` trusts Content-Length, which net/http reports for the response to a HEAD
although such a response has no body: with its body kept, a complete 2xx response is
recorded as failed, with the error `EOF` (`head_request`). `docs/protocols/http.md:81`
says that a request succeeds when it gets a 2xx or 3xx response.

`recordSessionEnd` takes a WebSocket session for failed if `s.err` is set, and that is
not always how it ended. The error handler of a failed read or write runs before `end`:
if it throws, `handleThrow` has set `done`, `end` (`protocols/ws/session.go:270`) does
nothing, and the session is recorded as ok (`ws_masked`). And a receive timeout leaves
its error in `s.err` (`protocols/ws/blocking.go:167`), so a session that goes on and
closes normally is recorded as failed (`ws_timeout`). `ws_session_failed` is "true for a
session whose handshake failed or that ended abnormally" (`protocols/ws/module.go:33`,
`docs/protocols/websocket.md:81`), and after a timeout "the socket stays open"
(`docs/protocols/websocket.md:126`). `SessionRecorded` is what does hold: it names an
exception and a timeout beside the end itself, and `AbnormalEndFails` and
`CleanEndSucceeds`, which do not, are what the code breaks.

Others were met while modelling and have no run of their own:

- A connection that fails while the close handshake is under way, or a handshake that
  the peer never answers, counts as a normal close with code 1000
  (`protocols/ws/session.go:256`), although ADR-019 lists a dropped connection among the
  abnormal endings (line 112).
- A body with Content-Length that breaks off is dropped although it was to be kept
  (`httpclient/httpclient.go:223`; the comment at line 147 says "non-nil whenever a body
  was kept"), and `res.json()` then says that no response was received, with the status
  at hand (`script/response.go:153`).
- The form accepts thresholds of a million milliseconds and more and error rates
  below 0.01 %, which `%g` prints with an exponent (`ui/config.go:269`): the run fails
  because the expression does not parse, though line 91 calls the plan "a validated
  run". `AcceptedStaysAccepted` holds for all others.
- Of a header given twice in the form, runs send the first value only
  (`ui/controller.go:172`), while the preflight request sends both.
- A ramping-vus scenario that grows from 0 to 1 VU over its only stage never has an
  active VU: it ends at once, without an iteration and before its duration
  (`engine/executors.go:196`).
- `check` records whatever the context (`script/check.go:43`), so one
  that runs between the end of the context and the interrupt, typically on the
  result of the request that was cut off, is recorded; `script/script.go:489` says
  that nothing further is recorded then.
- The limits of ramping-vus are known to the engine only (`engine/executors.go:107`),
  so a scenario beyond them is refused after setup, not before it
  (`docs/options.md:131`).
- `--graceful-stop` also applies to the `stages` shorthand (`config/scenarios.go:197`);
  `docs/options.md:104` has it apply to `vus` with `duration` only.
- The clients of one-off Kafka calls are kept by a key without the timeout
  (`protocols/kafka/config.go:43`), so `kafka.produce` may be bounded by the timeout
  of an earlier call.
- A stage shorter than a microsecond is accepted (`engine/executors.go:100`) and has a
  length of 0 in the stage arithmetic: `activeAt` divides by it (line 177), and `next`
  takes its VUs for active and, where the value does not change, divides by zero to
  find out until when (line 154). The proofs assume `WholePlans`.
- `offset` multiplies before it divides, so `k*TimeUnit` leaves int64 in long runs
  with a large `timeUnit` (1 000 000 per `1h` after about 2.56 hours): the proofs
  assume `NoOverflow`, and `arrival_rate` has words wide enough for its schedule.
- A failure that a point clamps away (`metrics/sampler.go:83`) can be missing from
  the whole series, if no later interval counts a request; `sampler.go:30` says the
  totals are unaffected. Requests do add up (`PointsSound`).
- Module instances that top-level code creates stay open if that code throws or
  the options are invalid, since `lc.Close` is deferred only at
  `runner/runner.go:159`; `RunsOutliveKnownInstances` is what does hold.
- A message already in a WebSocket session's channel is timed as the reply to a
  later send, with a negative latency that is recorded as 0
  (`protocols/ws/session.go:228`).
- `CheckResult.FirstError` and `Summary.FirstScriptError` are first in the order of
  the recorders, not of time (`metrics/checks.go:48` says "first message thrown").
- A gRPC stream whose send met the server's error, and that the script then
  closes instead of receiving, is recorded as a good one
  (`protocols/grpc/stream.go:107`).
- A misspelt key inside a stage is ignored without a warning
  (`config/scenarios.go:150`), and a Kafka partition beyond 32 bits is truncated
  (`protocols/kafka/producer.go:118`).

## 5. Proofs

`ArrivalRateProofs` proves, for every finite nonempty set of VUs and every rate,
time unit, duration, start time and graceful stop (the assumptions in
`ArrivalRate`):

- `TypeCorrect`, `TokensConserved`, `NeverBlocks`, `ReceiverThere` without further
  assumption. The inductive invariant is `TokenInv`: types, token conservation,
  and `ExitCause` (a VU has returned only if the context has ended or the
  scheduler has closed `starts`). Without `ExitCause` a VU might have left that the
  scheduler's handover still waits for; the last two theorems follow from
  conservation by counting: a busy VU, or a token in the scheduler's
  hand, leaves room in the channel and a VU outside an iteration.
- `ScheduleFollowed`, `NoStartLost` under `NoOverflow` (the whole schedule fits the
  machine integer), without which `offset` wraps (section 4). The inductive
  invariant is `ScheduleInv`: where the scheduler stands, start `k` is due and
  planned (`Progress`), all earlier ones were due (`FollowsSchedule`), and until the
  context ends every start handed over is running or counted (`Counting`).
- `ImplementsOpenLoad`: `ArrivalRate` refines `OpenLoad` with the busy VUs as those
  in an iteration or returning their token. A drop needs every VU to be busy,
  which is token conservation with an empty channel.

`LifecycleProofs` proves all safety properties of `Lifecycle` for every number of VUs
and every finite sequence of modules (`SizeAssumption`), from one inductive
invariant, `RunInv`:

- `CallInv`: a hook, its interrupt flag and its timeout belong to the call that is
  running, and are clear between calls. It gives `InterruptContained` at once.
- `PhaseInv`: what `pc` says of the results of setup and teardown, of the VUs that
  exist and of what was asked for. `TeardownIffSetUp` compares two results at
  exit that were produced many steps before; this carries them through the
  early returns.
- `InterruptedInv`: after an interrupted load only a timeout can fire teardown's
  hook (`TeardownUndisturbed`).
- `ModuleInv`: which module runs and instances can be open at each `pc`, for
  `RunsOutliveKnownInstances` and `NoRunLeftOpen`.
- `ResultInv`: how the verdict and the written files determine the exit code
  (`ExitTellsOutcome`).

Each part has a lemma that a step preserves it, from the whole invariant before
the step.

`RampingVUProofs` is about every plan, of any number of stages, targets and durations
in whole microseconds (`WholePlans`: `validate` does not ask for that, and without it
the statements are false, section 4), every tick and every graceful time:

- The stage arithmetic: the offsets of the stages grow (`ElapsedIs`, `ElapsedGrows`, by
  induction over the stages), so that every tick lies in one stage (`InOneStage`). In
  one stage the rounded divisions of `crossing` give the first microsecond on the other
  side of the level, or none (`CrossingUp`, `CrossingDown`), they never divide by zero,
  and from the microseconds follow the ticks (`OnFound`, `OffFound`). So `next` is
  the reference (`NextOnIsTick`, `NextOffIsTick`), and `activeAt`, the floor of the
  line, counts the VUs below it (`ActiveAtCounts`). The lemmas come in pairs, for
  VUs that become active and inactive: the backends do not take operators with a Boolean
  argument, so each value of `want` has operators of its own.
- `StagesAreExact` follows at once. `RampDownIsCut` and `BeginsWhenActive` need the
  inductive invariant `RampInv`: an iteration began at a tick at which its VU was active
  and has the deadline computed then, and a VU sleeps until a tick at which it is active.
  This invariant led to a correction of the model: a VU that is never active
  again was allowed to sleep if the start was two ticks away.

Its second part, about `UIController`, is for any number of runs and clients and series of
any length, from `ControllerInv`: a run's state follows its goroutine, and one that is not
over is the current one (`CurrentRunInv`); what the runner returned holds the points so
far, and a result cut short is one of a run that somebody asked to cancel (`ReportInv`);
whoever is about to cancel a context has marked its run, unless that was over
(`CancelInv`). It gives `StatusConsistent` and `CancelReachesItsRun`.

Its third part, about `HTTPSession`, is for any number of VUs, iterations and exchanges and
any traffic (`SessionAssumption`), from `SessionInv`: an exchange belongs to a function that
its runtime has begun, and its result is what `Send` makes of its answer (`ExchangeInv`); a
jar holds exactly the cookies that the exchanges of its runtime's session have left set
(`JarInv`); and each request carried those of its session then (`CookieInv`). `JarInv`
is what makes the last inductive: the property speaks of earlier exchanges, a request of
the jar only. It gives `SessionsStayApart`.

`GrpcProofs`, for any set of VUs and any number of connects, calls and iterations, from
`GrpcInv`: only the entry in the map can be anything but failed (`CacheInv`, the reason
why `ReflectedOnce` is inductive: a new entry is made only after an eviction);
a connection not yet kept by its client is the only one (`ConnInv`); an iteration's
records lack only what is open or about to be (`RecordInv`). It gives `ReflectionOnce`,
`NoLeaks` and `CallsAreRecorded`.

`WSSessionProofs`, for any capacity of the channel and of the replies awaited and any
number of messages and calls, from `SessionInv`: where the VU can be in each style and
what it has not yet done there (`PlaceInv`, `DialInv`), that only the reader's last event
is not a message (`ReaderInv`: the loop is never left waiting for a reader that has
gone), what a join leaves behind (`ReleaseInv`), where the messages are (`MessageInv`),
and how the end of a session, its error and its record belong together (`CauseInv`,
`RecordInv`): an abnormal end leaves its error unless an exception masked it, any other
error is that of the handshake, of a receive timeout or of a send after the session was
finished, and a session that is over without an end of its own was ended by an exception or
by the test. It gives `NoGoroutineOutlives`, `MessagesKept` and `SessionsRecorded`.

`KafkaProofs`, for batches of any length, any keys, objects and calls, from `KafkaInv`:
the records made are those of the valid messages so far, each once, and the results are
in their places as far as the call has come (`ResultInv`); a closed object has no open
client and the closers have closed all before the next (`ClientInv`); what is recorded
falls short of what happened by the messages that have no result yet, and by more only
where a context ended (`CountInv`). It gives `EachMessageItsResult`, `FamiliesAgree` and
`NoClientLeft`.

`MetricsProofs`, first part, for any number of VUs, requests and ticks and any set of
latencies, from `SamplerInv`. The layout of the buckets enters as an assumption: each latency has its
bucket, below the infinite one (`BucketsAssumption`, which TLC evaluates; the provers
know no exponentiation).

- `RecordInv`: each bucket's count is the number of its requests in `recordings` (`CountsInv`); `n`
  and `sum` lag behind by what the VUs in the middle of `record` owe them (`NInv`,
  `SumInv`); `min` and `max` bound every recorded latency but those of VUs that have still to
  lower or raise them (`MinInv`, `MaxInv`), which is where the compare-and-swap loops
  could lose one. With nobody recording, the debts are empty: `HistogramsExact`.
- `ReadInv`, `LastInv` and `SeriesInv`: what the sampler has read so far lies between the
  previous snapshot and the counts now, so no difference is negative, and the points
  add up to the previous snapshot, which is the final one in the end: `SeriesSound`.

Both rest on lemmas on sums over finite sets (one more member, one changed value, a sum
split by bucket), proved by induction on the number of members.

`MetricsProofs`, second part, for any number of VUs and shards, any outcomes and statuses
of the types of `OutcomesAssumption`, any check names, operations and iterations, and with
the test ending at any step, from `WorkloadInv`. The counters are compared with two views
of the history: `First`, the operations whose first record has been made or passed over,
and `Second`, the same of second records; an operation whose VU stands between its end
and its record is not in them yet.

- `PendingInv`: a VU about to record stands at an operation of that kind, which counts
  exactly if the test still goes on. `EndOfTest` keeps it by ending all such operations at
  once, and nothing that is in `First` or `Second` changes.
- `StoreMatches`: each counter of each recorder, HTTP shard and family shard is the number
  of entries of the history by its VUs that belong there (`RequestsMatch`, `ErrorsMatch`,
  `IterationsMatch`, `OperationsMatch`, `AnswersMatch`); the shared table has the checks in
  the order of their first runs, and each recorder's cache agrees with it (`NamesMatch`),
  which is why a VU's slot counts the runs of one check only (`ChecksMatch`).
- `StoreReported`: what is reported was merged when no VU was left to record.

Each step of a VU adds one entry to one view, or none, and the counters grow by as much.
In the end the views hold the whole history, and what is left for `ReportsExact`
(`CountsExact`) is that `Merge` and `Summarize` add up disjoint parts of it: by VU, by HTTP
shard, by family shard, and by shard and success for the requests that were sent.

`EngineProofs`, for any settings of the types of `Options` (`InputsAssumption`), any number
of scenarios, VUs and iterations, any sampling interval (`SampleIntervalAssumption`) and any
limits of the form and of ramping-vus (`FormLimitsAssumption`, `RampingLimitsAssumption`,
`MicroTicksAssumption`), from one inductive invariant in two halves:

- `StartInv`: the plan is what the settings resolve to, the scenarios before the current
  one have all their VUs, numbered on from `base`, and the recorders are cut where their
  VUs are. It gives `PlanAnnounced`: the sums over scenarios that `Options` announces are
  those that the engine counts again by its own rules.
- `LoadInv`: where a VU of each kind can be (`VUInv`), that a context ends with the test or
  after its deadline (`EndedInv`), that a scheduler which returned early had no start
  left (`SchedInv`), what holds once everybody has been joined (`JoinInv`), that the
  points are in order before the ticks to come (`SeriesInv`) and the last holds what
  was left (`LastInv`). It gives `NobodyLeaves` (for a VU of ramping-vus with
  the arithmetic of `next`) and `SeriesCovers`.
- `EngineRefines`: the load phase implements `TestRun`. Each action maps to a step of
  `TestRun` or to a stutter: the clock, a driver and the end of a context only move phases
  forward, a script that returns counts only if its scenario's context is live, and the
  Result is built when nobody is busy and holds what was counted. That phases never go
  back needs `EndedInv` and `SchedInv`, that a VU begins in an open scenario `VUInv`.
- `AskedFor` and `AcceptedStays` are about functions of the inputs, taken apart by the
  executor, the source of each field, and the checks of `Resolve` and `validateForm`.

Two corrections of the model came out of these proofs: the Ctrl+C of `Startup` now ends
where that of `Engine` begins, and some definitions chose among overlapping `CASE`
guards (which leaves the choice open) where the code takes the first that holds.

Every one of these invariants was checked by TLC on the instance of its run before it
was proved.

`TokenConservation`, `FollowsSchedule`, `TeardownUndisturbed` and the types of the modules
proved about are proved and in no run of their own; the other properties above are both
proved and checked.

Only model-checked:

- liveness under fairness (`AllReturn`, `Returns`, `Exits`, `Released`, `RunReturns`), which
  is beyond the prover;
- `PercentileAccurate`: the layout of the buckets uses powers and a recursive search, of
  which the provers know nothing;
- `LatenciesExact` and `ThresholdsHonest` in `Workload`: they compare percentiles of merged
  buckets with those of the history, which is `PercentileAccurate` again; the counts that
  thresholds read are those of `CountsExact`.

## 6. Plan

Done: the executors, the engine that runs them side by side, histogram and sampler,
recorders, checks, families and thresholds, HTTP sessions, a run's lifecycle, the UI's
form and controller, WebSocket sessions, gRPC clients, Kafka, options and start-up; the
proofs of section 5. What is left:

1. Proofs: sums and extremes of latencies in `LatenciesExact` (the inductive invariant of
   `Workload` says only how many latencies a histogram has), and the thresholds on counts
   in `ThresholdsHonest`.
2. Timeouts of Kafka's kept clients, and several gRPC clients of one VU.

## 7. Not modelled

Bundling and transpiling (esbuild), goja and net/http themselves, the rendering of
console, JSON and HTML reports, flag parsing, the UI's HTTP layer and redaction, the
network guard's ranges of addresses, examples and benchmarks: third-party code,
formatting or stateless functions.
