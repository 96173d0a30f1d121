----------------------------- MODULE HTTPSession -----------------------------
(***************************************************************************)
(* The HTTP sessions of a test's runtimes: internal/script's http module   *)
(* and response object over internal/httpclient. Every runtime keeps one   *)
(* cookie jar, which its http and GraphQL requests and its WebSocket       *)
(* handshakes share. Runtime 0 calls setup and, once the VUs are done,     *)
(* teardown; runtimes 1..NumSessions are the VUs', which iterate.          *)
(*                                                                         *)
(* All requests go to one site, so a cookie is its name; headers, timings  *)
(* and the text of a body are left out, a body is the number of its bytes. *)
(***************************************************************************)
EXTENDS Integers, Sequences

CONSTANTS
    NumSessions,    \* VUs, each with a session of its own
    \* What a script may ask for and what the network does with it: [via, method,
    \* responseType, cookies, refused, status, sized, length, arrives, sets,
    \* clears], where cookies is params.cookies, sized says whether Content-Length
    \* is sent, arrives how many bytes of the body come before it ends or breaks
    \* off, and sets and clears are the cookies of Set-Cookie.
    Traffic,
    \* maxPresize, the longest body read into one buffer of Content-Length.
    MaxPresize,
    \* Bounds of the instance: iterations of a VU and exchanges of the test.
    MaxRounds, MaxExchanges

ASSUME SessionAssumption ==
    /\ NumSessions \in Nat
    /\ Traffic \subseteq
          [via : STRING, method : STRING, responseType : STRING, cookies : SUBSET STRING,
           refused : BOOLEAN, status : Nat, sized : BOOLEAN, length : Nat, arrives : Nat,
           sets : SUBSET STRING, clears : SUBSET STRING]

Sessions == 0 .. NumSessions   \* by the runtime that keeps them

VARIABLES
    options,    \* [discardBodies, keepCookies] of the program
    inside,     \* the runtimes that are running a function of the script
    round,      \* [Sessions -> Nat]: functions each runtime has begun
    jar,        \* [Sessions -> SUBSET cookies]: VU.jar
    exchanges   \* history: every exchange, in the order they ended

sessionVars == <<options, inside, round, jar, exchanges>>

Null == -1

\* --- One request ---------------------------------------------------------

\* params.responseType: whether to keep the body, or nothing.
responseType(x) == CASE x.responseType = "text" -> <<TRUE>>
                     [] x.responseType = "none" -> <<FALSE>>
                     [] OTHER                   -> <<>>

\* Whether the body of the response is kept: responseType, else the program's
\* option, which the lifecycle runtime ignores. GraphQL always reads the body;
\* that of a handshake is not read.
KeepBody(r, x) ==
    IF x.via = "graphql" THEN TRUE
    ELSE IF x.via = "ws" THEN FALSE
    ELSE IF responseType(x) # <<>> THEN responseType(x)[1]
    ELSE r = 0 \/ ~options.discardBodies

\* The Cookie header: the jar's cookies and params.cookies.
CookiesSent(r, x) == jar[r] \union x.cookies

\* The bytes net/http hands out, and whether it ends them with an error: the
\* response to HEAD has no body, whatever its Content-Length is.
Arriving(x) == IF x.method = "HEAD" THEN 0 ELSE x.arrives
BreaksOff(x) == x.method # "HEAD" /\ x.arrives < x.length

readBody(x) ==
    LET presized == x.sized /\ x.length <= MaxPresize
        short == Arriving(x) < x.length
    IN  IF presized
        THEN [body |-> IF short THEN Null ELSE x.length, err |-> short]
        ELSE [body |-> Arriving(x), err |-> BreaksOff(x)]

Send(r, x) ==
    LET read == IF KeepBody(r, x) THEN readBody(x)
                ELSE [body |-> Null, err |-> BreaksOff(x)]
    IN  [status |-> IF x.refused THEN 0 ELSE x.status,
         err |-> x.refused \/ read.err,
         body |-> IF x.refused THEN Null ELSE read.body,
         discarded |-> ~KeepBody(r, x)]

\* Result.OK: what Do records the request as.
ResultOK(res) == ~res.err /\ res.status \in 200 .. 399

\* What res.json() does: parse the body, or throw one of two errors.
parseJSON(res) ==
    IF res.body # Null THEN "parse"
    ELSE IF res.discarded THEN "discarded" ELSE "no response"

\* --- The runtimes --------------------------------------------------------

SessionInit ==
    /\ options \in [discardBodies : BOOLEAN, keepCookies : BOOLEAN]
    /\ inside = {}
    /\ round = [r \in Sessions |-> 0]
    /\ jar = [r \in Sessions |-> {}]
    /\ exchanges = <<>>

\* Lifecycle.call, for setup and then for teardown: the jar is carried over.
CallLifecycle ==
    /\ inside = {}
    /\ round[0] < 2
    /\ inside' = {0}
    /\ round' = [round EXCEPT ![0] = @ + 1]
    /\ UNCHANGED <<options, jar, exchanges>>

\* VU.Iterate, from its first line to the script's function.
IterateWithoutReset(v) ==
    /\ round[0] = 1 /\ 0 \notin inside
    /\ v \notin inside /\ round[v] < MaxRounds
    /\ inside' = inside \union {v}
    /\ round' = [round EXCEPT ![v] = @ + 1]
    /\ UNCHANGED <<options, jar, exchanges>>
Iterate(v) ==
    /\ round[0] = 1 /\ 0 \notin inside
    /\ v \notin inside /\ round[v] < MaxRounds
    /\ inside' = inside \union {v}
    /\ round' = [round EXCEPT ![v] = @ + 1]
    /\ jar' = IF options.keepCookies THEN jar ELSE [jar EXCEPT ![v] = {}]
    /\ UNCHANGED <<options, exchanges>>

\* http.request, a GraphQL operation or a WebSocket handshake. The jar's
\* cookies and the request's own are sent; the answer's change the jar.
Exchange(r, x) ==
    /\ r \in inside
    /\ Len(exchanges) < MaxExchanges
    /\ jar' = IF x.refused THEN jar
              ELSE [jar EXCEPT ![r] = (@ \ x.clears) \union x.sets]
    /\ exchanges' = Append(exchanges, [runtime |-> r, round |-> round[r], traffic |-> x,
                                       sent |-> CookiesSent(r, x), res |-> Send(r, x)])
    /\ UNCHANGED <<options, inside, round>>

\* The script's function returns or throws.
ReturnOrThrow(r) ==
    /\ r \in inside
    /\ inside' = inside \ {r}
    /\ UNCHANGED <<options, round, jar, exchanges>>

SessionNext ==
    \/ CallLifecycle
    \/ \E v \in Sessions \ {0} : Iterate(v)
    \/ \E r \in Sessions, x \in Traffic : Exchange(r, x)
    \/ \E r \in Sessions : ReturnOrThrow(r)

SessionSpec == SessionInit /\ [][SessionNext]_sessionVars

\* --- Properties ----------------------------------------------------------

\* The exchanges of the session that the i-th one continues, before it: its
\* runtime's, since the iteration began unless cookies are kept.
Earlier(i) ==
    {j \in 1 .. i - 1 :
        /\ exchanges[j].runtime = exchanges[i].runtime
        /\ \/ exchanges[j].round = exchanges[i].round
           \/ exchanges[j].runtime = 0
           \/ options.keepCookies}

\* The cookies the server of a session knows to be set.
SetIn(session) ==
    {c \in UNION {exchanges[j].traffic.sets : j \in session} :
        \E j \in session :
            /\ c \in exchanges[j].traffic.sets
            /\ ~exchanges[j].traffic.refused
            /\ \A k \in session : k > j /\ ~exchanges[k].traffic.refused
                                    => c \notin exchanges[k].traffic.clears}

\* A request carries the cookies of its own session and no other's: those that
\* the earlier answers to the same iteration of the same VU (http, GraphQL and
\* WebSocket alike) set and did not clear, and its own params.cookies. Teardown
\* goes on with setup's session, and with noCookiesReset an iteration with the
\* last one's.
CookiesOfItsSession(i) ==
    exchanges[i].sent = SetIn(Earlier(i)) \union exchanges[i].traffic.cookies

\* What the script sees of the body: part of one only together with an error,
\* none only when it is told why - that it was discarded, exactly if setup's
\* rule, the request or the options say so, or that there was an error.
BodyTold(i) ==
    LET e == exchanges[i]
    IN  /\ e.res.body # Null => e.res.err \/ ~BreaksOff(e.traffic)
        /\ (parseJSON(e.res) = "discarded") <=> ~KeepBody(e.runtime, e.traffic)
        /\ parseJSON(e.res) = "no response" => e.res.err

\* Every exchange is part of its runtime's session and of no other, and what the
\* script sees of its body is whole or explained (VU.Iterate, Lifecycle.call,
\* Jar, httpclient.WithJar, readBody, response.parseJSON).
SessionsHonest ==
    \A i \in DOMAIN exchanges : CookiesOfItsSession(i) /\ BodyTold(i)

\* "A request succeeds when it gets a 2xx or 3xx response": one that is answered
\* so, with all the bytes its body has, is recorded as a success (Result.OK).
TwoXXSucceeds ==
    \A i \in DOMAIN exchanges :
        LET e == exchanges[i]
        IN  /\ ~e.traffic.refused
            /\ e.traffic.status \in 200 .. 399
            /\ ~BreaksOff(e.traffic)
            => ResultOK(e.res)

=============================================================================
