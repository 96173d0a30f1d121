------------------------------ MODULE MCEngine ------------------------------
(* Settings for TLC: flags and variables against every kind of script, single *)
(* scenarios with every combination of their fields, pairs of scenarios, and forms. *)
EXTENDS Engine, Form

NoOptions  == [f \in KnownOptions |-> Absent]
NoFlags    == [vus |-> <<>>, duration |-> <<>>]
NoVars     == [vus |-> Absent, duration |-> Absent]

Run(cli, env, options) == [cli |-> cli, env |-> env, options |-> options, gracefulStop |-> 5,
                           exports |-> {"default", "browse", "setup"}, unknown |-> FALSE]

Stage(d, t)     == [duration |-> d, target |-> t]
Listed(entries) == [NoOptions EXCEPT !.scenarios = Given([i \in DOMAIN entries |-> Given(entries[i])])]
Opt(values)     == {<<>>} \cup {<<v>> : v \in values}

Constant == [NoFields EXCEPT !.executor = "constant-vus", !.duration = <<4>>]
Ramping  == [NoFields EXCEPT !.executor = "ramping-vus", !.stages = <<<<Stage(3, 2), Stage(0, 1)>>>>]
Arrival  == [NoFields EXCEPT !.executor = "constant-arrival-rate", !.rate = <<2>>, !.duration = <<3>>,
                             !.preAllocatedVUs = <<2>>]

\* What a script may ask for besides its scenarios' details: nothing, vus and
\* duration in each form, stages, scenarios, and combinations of them.
Scripts ==
    {[NoOptions EXCEPT !.vus = v, !.duration = d] :
        v \in {Absent, Null, Wrong, Given(0), Given(3)}, d \in {Absent, Null, Given(-1), Given(7)}}
    \cup {[NoOptions EXCEPT !.stages = s, !.vus = v, !.duration = d] :
            s \in {Null, Wrong, Given(<<Stage(5, 2)>>)}, v \in {Absent, Given(3)}, d \in {Absent, Given(7)}}
    \cup {[Listed(<<Constant>>) EXCEPT !.vus = v] : v \in {Absent, Given(3)}}
    \cup {Listed(<<>>)}

Overridden == {Run([vus |-> v, duration |-> d], [vus |-> ev, duration |-> ed], o) :
                 v \in Opt({0, 2}), d \in Opt({0, 6}),
                 ev \in {Absent, Blank, Wrong, Given(1)}, ed \in {Absent, Blank, Wrong, Given(8)},
                 o \in Scripts}

ConstantScenarios ==
    {[NoFields EXCEPT !.executor = e, !.vus = v, !.duration = d, !.startTime = st, !.gracefulStop = g, !.rate = r] :
        e \in {"", "constant-vus", "per-vu-iterations"}, v \in Opt({0, 2}), d \in Opt({0, 4}), st \in Opt({-1, 2}),
        g \in Opt({-1, 0}), r \in Opt({5})}
RampingScenarios ==
    {[NoFields EXCEPT !.executor = "ramping-vus", !.startVUs = v, !.stages = s, !.gracefulRampDown = g, !.duration = d] :
        v \in Opt({-1, 0, 3}), g \in Opt({-1, 2}), d \in Opt({4}),
        s \in Opt({<<>>, <<Stage(3, 2), Stage(0, 1)>>, <<Stage(0, 2)>>, <<Stage(4, 0)>>, <<Stage(-1, 2), Stage(5, 1)>>,
                   <<Stage(20, 1)>>, <<Stage(5, 5)>>})}
ArrivalScenarios ==
    {[NoFields EXCEPT !.executor = "constant-arrival-rate", !.rate = r, !.timeUnit = u, !.duration = d,
                      !.preAllocatedVUs = p, !.maxVUs = m, !.startVUs = s] :
        r \in Opt({0, 2}), u \in Opt({0, 60}), d \in Opt({0, 3}), p \in Opt({0, 2}), m \in Opt({2, 3}), s \in Opt({1})}

SomeScenarios == {Constant, [Constant EXCEPT !.startTime = <<2>>, !.vus = <<2>>, !.exec = <<"browse">>],
           [Constant EXCEPT !.exec = <<"do-it">>], [Constant EXCEPT !.exec = <<"missing">>],
           Ramping, [Ramping EXCEPT !.startVUs = <<3>>, !.unknown = TRUE], [Ramping EXCEPT !.stages = <<<<Stage(20, 1)>>>>],
           [Ramping EXCEPT !.stages = <<<<Stage(0, 2)>>>>],
           Arrival, [Arrival EXCEPT !.maxVUs = <<2>>, !.startTime = <<1>>], [Arrival EXCEPT !.rate = <<>>]}

Scenarios == {Run(NoFlags, NoVars, Listed(<<s>>)) : s \in ConstantScenarios \cup RampingScenarios \cup ArrivalScenarios}
             \cup {Run(NoFlags, NoVars, Listed(<<s, t>>)) : s, t \in SomeScenarios}

\* The other settings, one at a time, in each form.
Other(f, v) == [Run(NoFlags, NoVars, [NoOptions EXCEPT ![f] = v]) EXCEPT !.unknown = TRUE]
Others == {Other(f, v) : f \in {"discardResponseBodies", "noCookiesReset", "noConnectionReuse"},
                         v \in {Null, Wrong, Given(TRUE), Given(FALSE)}}
          \cup {Other(f, v) : f \in {"setupTimeout", "teardownTimeout"}, v \in {Null, Wrong, Given(0), Given(9)}}
          \cup {Other("httpVersion", v) : v \in {Null, Wrong, Given("2")}}
          \cup {Other("thresholds", v) : v \in {Null, Wrong}}
          \cup {Other("scenarios", v) : v \in {Null, Wrong, Given(<<Null>>)}}
          \cup {[Other("vus", Given(2)) EXCEPT !.gracefulStop = -1], [Other("vus", Given(2)) EXCEPT !.exports = {"browse"}],
                [Other("vus", Given(2)) EXCEPT !.exports = {"default"}]}

\* Settings whose load phase is followed: two VUs of constant-vus; executors of
\* each kind beside each other, one starting later; a VU that pauses in a valley
\* of the stages, and one that a ramp never reaches.
Brief(s) == [s EXCEPT !.gracefulStop = <<1>>]
Valley   == <<<<Stage(1, 1), Stage(0, 0), Stage(1, 0), Stage(0, 1), Stage(1, 1)>>>>
MCDriven ==
    {Run(NoFlags, NoVars, Listed(s)) :
        s \in {<<Brief([Constant EXCEPT !.vus = <<2>>, !.duration = <<1>>])>>,
               <<Brief([Constant EXCEPT !.duration = <<1>>]),
                 Brief([Arrival EXCEPT !.startTime = <<1>>, !.duration = <<1>>, !.preAllocatedVUs = <<1>>])>>,
               <<[Ramping EXCEPT !.startVUs = <<1>>, !.stages = Valley, !.gracefulStop = <<0>>],
                 Brief([Constant EXCEPT !.duration = <<1>>, !.startTime = <<1>>])>>,
               <<Brief([Ramping EXCEPT !.startVUs = <<0>>, !.stages = <<<<Stage(2, 1)>>>>])>>}}

\* Forms: one that is accepted, and changes of it, each in one or two places.
Request == [method |-> "POST", url |-> [scheme |-> "https", user |-> FALSE, host |-> "example.com", fragment |-> FALSE],
            query |-> <<"q">>, headers |-> <<[name |-> "X-Key", value |-> "k"]>>, body |-> "JSON",
            auth |-> [type |-> "basic", token |-> "", username |-> "u", password |-> "p"]]
Filled == [request |-> Request, vus |-> 2, duration |-> 3, minStatus |-> 0, maxStatus |-> 0,
           p95Ms |-> <<500, 1>>, maxErrorPct |-> <<1, 1>>, authorized |-> TRUE]

Requests ==
    {[Request EXCEPT !.method = m, !.body = b] : m \in {"GET", "POST", "HEAD"}, b \in {"", "JSON", "text"}}
    \cup {[Request EXCEPT !.url = [scheme |-> s, user |-> u, host |-> h, fragment |-> fr]] :
            s \in {"http", "ftp"}, u \in BOOLEAN, h \in {"example.com", "", "localhost"}, fr \in BOOLEAN}
    \cup {[Request EXCEPT !.query = q, !.headers = h] :
            q \in {<<>>, <<"">>, <<"a", "b", "c">>},
            h \in {<<>>, <<[name |-> "Host", value |-> "h"]>>, <<[name |-> "X", value |-> LineBreak]>>}}
    \cup {[Request EXCEPT !.auth = a] :
            a \in [type : {"", "bearer", "basic", "digest"}, token : {"", "t"}, username : {":", "u"}, password : {"", LineBreak}]}
MCForms ==
    {[Filled EXCEPT !.request = r] : r \in Requests}
    \cup {[Filled EXCEPT !.vus = v, !.duration = d, !.authorized = a] :
            v \in {0, 1, 3, 4}, d \in {Unparsable, 0, 1, 4, 5}, a \in BOOLEAN}
    \cup {[Filled EXCEPT !.minStatus = lo, !.maxStatus = hi] : lo \in {0, 99, 300}, hi \in {0, 299, 600}}
    \cup {[Filled EXCEPT !.p95Ms = p, !.maxErrorPct = e] :
            p \in {<<-1, 1>>, <<0, 1>>, <<1, 2>>, <<999999, 1>>, <<1000000, 1>>},
            e \in {<<0, 1>>, <<1, 100>>, <<1, 200>>, <<100, 1>>, <<101, 1>>}}

MCInputs == Overridden \cup Scenarios \cup Others \cup MCDriven \cup FormInputs
=============================================================================
