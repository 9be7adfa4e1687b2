------------------------------- MODULE RpcPool -------------------------------
(***************************************************************************)
(* The pool of JSON-RPC endpoints (packages/evm/src): health.ts keeps a    *)
(* circuit per endpoint, pool.ts ranks the endpoints, admits them by their *)
(* chain id and asks them one by one, in hedged waves, for a quorum, or    *)
(* all at once for a broadcast; normalize.ts sorts answers into classes.   *)
(*                                                                         *)
(* A client is one caller with one request at a time; the requests that a  *)
(* hedge leaves behind stay in flight and still change the circuits.  An   *)
(* endpoint's cooldown counts down, so that there is no absolute time.     *)
(***************************************************************************)
EXTENDS Integers, Sequences, FiniteSets

CONSTANTS
    Endpoint,
    Tier,              \* [Endpoint -> 0..2], from the registry
    Client,
    Session,           \* the clients that ask through a pinned session
    Scenes,            \* the situations explored, see scene and Profile
    Height,            \* the block numbers explored, with 0
    Span,              \* the log ranges explored
    RetryAfter,        \* the waits a rate limit asks for
    FailuresToOpen, MaxCooldown, MaxOpens,
    HedgeWave, Quorum, Fanout,
    None

\* The provers know no powers: that those of two are naturals is stated here.
ASSUME PoolAssumption ==
    /\ IsFiniteSet(Endpoint)
    /\ Height \subseteq Nat /\ 0 \in Height /\ Span \subseteq Nat
    /\ {FailuresToOpen, MaxCooldown, MaxOpens, HedgeWave, Quorum, Fanout} \subseteq Nat
    /\ RetryAfter \subseteq 0..MaxCooldown
    /\ \A n \in 0..MaxOpens : 2 ^ n \in Nat

Smaller(a, b) == IF a < b THEN a ELSE b

(***************************************************************************)
(* What the calls of JsonRpcClient ask of the pool.                        *)
(***************************************************************************)
Profile(method) ==
    [ordered  |-> method \in {"call", "override", "logs", "receipt"},
     hedged   |-> method \in {"state", "block", "priorityFee"},
     override |-> method = "override",
     height   |-> method \in {"block", "logs"},
     span     |-> method = "logs"]

Query == {q \in [method : {u[2] : u \in UNION {k.calls : k \in Scenes}},
                 height : Height \union {None}, span : Span \union {None}] :
             /\ q.height # None <=> Profile(q.method).height
             /\ q.span # None   <=> Profile(q.method).span}

(***************************************************************************)
(* Classification of an answer, first match first: the patterns found in   *)
(* its message, its JSON-RPC code, and whether it carries revert data.     *)
(***************************************************************************)
Pattern == {"known", "range", "rate", "revert"}
Code    == {"notFound", "badParams", "badRequest", "limit", "server", "other"}

ClassifyJsonRpc(method, code, patterns, data) ==
    CASE "known" \in patterns -> "alreadyKnown"
      [] "range" \in patterns -> "rangeTooLarge"
      [] code = "limit" \/ "rate" \in patterns -> "rateLimited"
      [] code = "notFound" \/ (code = "badParams" /\ method = "override") -> "unsupportedMethod"
      [] code = "server" /\ (data \/ "revert" \in patterns) -> "executionReverted"
      [] code \in {"badRequest", "badParams"} -> "invalidRequest"
      [] OTHER -> "transport"

ClassifyHttp(status, patterns) ==
    IF status = 429 \/ "rate" \in patterns THEN "rateLimited" ELSE "transport"

\* How one HTTP exchange can end: the transport fails or the body is no JSON-RPC
\* answer, a status other than 2xx, a JSON-RPC error, or a result, which only the
\* caller of the exchange finds to be malformed (for a chain id that is a failure
\* of the transport).
Exchange ==
    [method \in {"chainId"} \union {u[2] : u \in UNION {k.calls : k \in Scenes}} |->
       {"ok", "transport"} \union (IF method = "chainId" THEN {} ELSE {"malformed"})
       \union {ClassifyHttp(status, p) : status \in {429, 500}, p \in SUBSET Pattern}
       \union {ClassifyJsonRpc(method, code, p, data) :
                 code \in Code, p \in SUBSET Pattern, data \in BOOLEAN}]

Terminal == {"executionReverted", "invalidRequest"}

VARIABLES
    health,     \* HealthBook
    admission,  \* per endpoint: none, asking for its chain id, reading the body
                \* of the answer, or admitted
    flight,     \* per client and endpoint: idle, waiting for the admission, sent,
                \* or reading the body of the answer
    task,       \* per client: its request and what has come back
    pin,        \* per client: the endpoint its session is pinned to
    scene       \* fixed from the start: the endpoints that are on the pool's
                \* chain, and which client makes which calls

vars == <<health, admission, flight, task, pin, scene>>

\* What a request keeps of an answer until it is decided.
Outcome == [class : {"none", "failed", "alreadyKnown", "malformed", "ok"}, height : Height]
Silence == [class |-> "none", height |-> 0]
Failed  == [class |-> "failed", height |-> 0]

Health == [circuit : {"closed", "open", "halfOpen"}, failures : 0..FailuresToOpen,
           height : Height \union {None}, quarantined : BOOLEAN, cooldown : 0..MaxCooldown,
           opens : 0..MaxOpens, probing : BOOLEAN, overrides : {"unknown", "yes", "no"},
           priorityFee : BOOLEAN, logRange : Int \union {None}]

Fresh == [circuit |-> "closed", failures |-> 0, height |-> None, quarantined |-> FALSE,
          cooldown |-> 0, opens |-> 0, probing |-> FALSE, overrides |-> "unknown",
          priorityFee |-> TRUE, logRange |-> None]

NoTask == [query |-> None, queue |-> <<>>, order |-> <<>>, wave |-> {}, answers |-> [e \in Endpoint |-> Silence],
           result |-> "none"]

Init ==
    /\ health = [e \in Endpoint |-> Fresh]
    /\ admission = [e \in Endpoint |-> "none"]
    /\ flight = [c \in Client |-> [e \in Endpoint |-> "idle"]]
    /\ task = [c \in Client |-> NoTask]
    /\ pin = [c \in Client |-> None]
    /\ scene \in Scenes

(***************************************************************************)
(* The circuit of one endpoint.                                            *)
(***************************************************************************)
\* Mutant: the end of the cooldown is forgotten.
CanSelectClosed(h) == ~h.quarantined /\ h.circuit # "open" /\ ~(h.circuit = "halfOpen" /\ h.probing)

CanSelect(h) ==
    /\ ~h.quarantined
    /\ ~(h.circuit = "open" /\ h.cooldown > 0)
    /\ ~(h.circuit = "halfOpen" /\ h.probing)

\* beginProbe: every refusal it can give is one canSelect gives as well.
BeginProbe(h) ==
    IF ~h.quarantined /\ h.circuit # "closed" /\ h.cooldown = 0
    THEN [h EXCEPT !.circuit = "halfOpen", !.probing = TRUE] ELSE h

RecordHeight(h, height) ==
    IF h.height = None \/ height > h.height THEN [h EXCEPT !.height = height] ELSE h

RecordSuccess(h) ==
    [h EXCEPT !.failures = 0, !.circuit = "closed", !.probing = FALSE, !.cooldown = 0]

CooldownOf(h) == Smaller(MaxCooldown, 2 ^ h.opens)

Open(h, wait) ==
    [h EXCEPT !.circuit = "open", !.opens = Smaller(@ + 1, MaxOpens), !.cooldown = wait]

\* Mutant: the harmless classes return before the probe is taken back.
RecordFailureEarly(h, class, wait) ==
    CASE class \in Terminal \union {"unsupportedMethod", "rangeTooLarge", "alreadyKnown"} -> h
      [] class = "rateLimited" -> Open([h EXCEPT !.probing = FALSE], wait)
      [] class = "transport" ->
           LET g == [h EXCEPT !.probing = FALSE, !.failures = Smaller(@ + 1, FailuresToOpen)]
           IN  IF h.circuit = "halfOpen" \/ g.failures >= FailuresToOpen
               THEN Open(g, CooldownOf(h)) ELSE g

RecordFailure(h, class, wait) ==
    LET idle    == [h EXCEPT !.probing = FALSE]
        counted == [idle EXCEPT !.failures = Smaller(@ + 1, FailuresToOpen)]
    IN  CASE class \in Terminal \union {"unsupportedMethod", "rangeTooLarge", "alreadyKnown"} -> idle
          [] class = "rateLimited" -> Open(idle, wait)
          [] class = "transport" ->
               IF h.circuit = "halfOpen" \/ counted.failures >= FailuresToOpen
               THEN Open(counted, CooldownOf(h)) ELSE counted

LearnUnsupported(h, method) ==
    [h EXCEPT !.overrides   = IF Profile(method).override THEN "no" ELSE @,
              !.priorityFee = @ /\ method # "priorityFee"]

LearnMaxLogRange(h, span) ==
    IF span > 0 /\ (h.logRange = None \/ span - 1 < h.logRange)
    THEN [h EXCEPT !.logRange = span - 1] ELSE h

\* What invoke records of an answer.
Recorded(h, q, class, height, wait) ==
    LET failed == RecordFailure(h, class, wait)
    IN  CASE class \in {"ok", "malformed"} ->
               LET seen == IF q.method = "blockNumber" /\ class = "ok"
                           THEN RecordHeight(RecordSuccess(h), height) ELSE RecordSuccess(h)
               IN  IF Profile(q.method).override THEN [seen EXCEPT !.overrides = "yes"] ELSE seen
          [] class = "unsupportedMethod" -> LearnUnsupported(failed, q.method)
          [] class = "rangeTooLarge" /\ q.span # None -> LearnMaxLogRange(failed, q.span)
          [] OTHER -> failed

(***************************************************************************)
(* Ranking, and the way each method goes through the ranked endpoints.     *)
(***************************************************************************)
Eligible(q) ==
    {e \in Endpoint :
        /\ CanSelect(health[e])
        /\ Profile(q.method).override => health[e].overrides # "no"
        /\ q.method = "priorityFee" => health[e].priorityFee
        /\ q.height # None /\ health[e].height # None => health[e].height >= q.height
        /\ q.span # None /\ health[e].logRange # None => q.span <= health[e].logRange}

\* Latency and jitter put the endpoints of one tier in any order.
Rank(S) ==
    {s \in [1..Cardinality(S) -> S] :
        \A i, j \in DOMAIN s : i < j => s[i] # s[j] /\ Tier[s[i]] <= Tier[s[j]]}

\* A session tries the endpoint it is pinned to first, whatever its circuit.
Ordered(c, q) ==
    IF c \in Session /\ pin[c] # None
    THEN {<<pin[c]>> \o s : s \in Rank(Eligible(q) \ {pin[c]})}
    ELSE Rank(Eligible(q))

Collects(q) == q.method \in {"blockNumber", "sendRaw"}   \* waits for its whole wave
Width(c, q) ==
    CASE c \in Session \/ Profile(q.method).ordered -> 1
      [] q.method = "sendRaw" -> Fanout
      [] OTHER -> HedgeWave

Answered(t, class) == {e \in Endpoint : t.answers[e].class = class}

\* Mutant: the upper median.
UpperMedian(answers, got) ==
    LET below(e) == {d \in got : answers[d].height <= answers[e].height}
        rank     == Cardinality(got) \div 2 + 1
    IN  CHOOSE h \in {answers[e].height : e \in {d \in got : Cardinality(below(d)) >= rank}} :
           \A e \in got : Cardinality(below(e)) >= rank => h <= answers[e].height

\* The height that blockNumber reports: the lower median of those it got.
Median(answers, got) ==
    LET below(e) == {d \in got : answers[d].height <= answers[e].height}
        rank     == (Cardinality(got) - 1) \div 2 + 1
    IN  CHOOSE h \in {answers[e].height : e \in {d \in got : Cardinality(below(d)) >= rank}} :
           \A e \in got : Cardinality(below(e)) >= rank => h <= answers[e].height

\* A decided request forgets its answers; what is still in flight for it
\* carries on with its query.
Settled(t, result) == [NoTask EXCEPT !.query = t.query, !.result = result]

\* The best ranked endpoint that took the transaction answered with something
\* that is no hash: broadcast parses that answer and looks at no other.
Garbled(t) ==
    \E i \in DOMAIN t.order :
        /\ t.answers[t.order[i]].class = "malformed"
        /\ \A j \in DOMAIN t.order : j < i => t.answers[t.order[j]].class # "ok"

\* Mutant: a broadcast that only known answers came back for has failed.
ExhaustedUnlessAccepted(t) ==
    IF t.query.method \in {"blockNumber", "sendRaw"} /\ Answered(t, "ok") # {} THEN "ok" ELSE "error"

\* How a request ends when its last wave has come back without deciding it.
Exhausted(t) ==
    CASE t.query.method = "blockNumber" -> IF Answered(t, "ok") # {} THEN "ok" ELSE "error"
      [] t.query.method = "sendRaw" ->
           IF Answered(t, "ok") \union Answered(t, "alreadyKnown") # {} /\ ~Garbled(t)
           THEN "ok" ELSE "error"
      [] OTHER -> "error"

\* The first of the queue are asked together.  One whose circuit refuses has
\* failed at once; the others wait for the admission that is running, start
\* one, or are sent.
StartWave(c, t) ==
    LET n       == Smaller(Width(c, t.query), Len(t.queue))
        wave    == {t.queue[i] : i \in 1..n}
        started == {e \in wave : CanSelect(health[e])}
    IN  /\ health' = [e \in Endpoint |-> IF e \in started THEN BeginProbe(health[e]) ELSE health[e]]
        /\ admission' = [e \in Endpoint |->
                IF e \in started /\ admission[e] = "none" THEN "asking" ELSE admission[e]]
        /\ flight' = [flight EXCEPT ![c] = [e \in Endpoint |->
                IF e \notin started THEN flight[c][e]
                ELSE IF admission[e] = "admitted" THEN "sent" ELSE "waiting"]]
        /\ task' = [task EXCEPT ![c] =
                [t EXCEPT !.queue = SubSeq(@, n + 1, Len(@)), !.wave = started,
                          !.answers = [e \in Endpoint |-> IF e \in wave \ started THEN Failed ELSE @[e]]]]
        /\ UNCHANGED <<pin, scene>>

Running(c) == task[c].query # None /\ task[c].result = "none"
Free(c)    == ~Running(c) /\ \A e \in Endpoint : flight[c][e] = "idle"

\* request: a new request of a client whose previous ones have all come back.
Ask(c, q) ==
    /\ Free(c) /\ <<c, q.method>> \in scene.calls
    /\ \E order \in Ordered(c, q) :
         LET broadcast == q.method = "sendRaw" /\ c \notin Session
             queue     == IF broadcast THEN SubSeq(order, 1, Smaller(Fanout, Len(order))) ELSE order
         IN  /\ queue # <<>>
             /\ StartWave(c, [NoTask EXCEPT !.query = q, !.queue = queue,
                                            !.order = IF broadcast THEN queue ELSE <<>>])

\* No endpoint may be asked: the request fails at once and nothing changes.
Refused(c, q) ==
    /\ Free(c) /\ <<c, q.method>> \in scene.calls
    /\ Eligible(q) = {} /\ (c \in Session => pin[c] = None)
    /\ task' = [task EXCEPT ![c] = [NoTask EXCEPT !.query = q, !.result = "error"]]
    /\ UNCHANGED <<health, admission, flight, pin, scene>>

\* Mutant: an exhausted pool leaves its caller waiting.
NextWaveWhileQueued(c) ==
    LET t == task[c] IN
    /\ Running(c) /\ t.wave = {} /\ t.queue # <<>>
    /\ StartWave(c, t)

\* A wave has come back without deciding the request.
NextWave(c) ==
    LET t      == task[c]
        needed == Smaller(Quorum, Cardinality({e \in Endpoint : t.answers[e] # Silence}) + Len(t.queue))
        enough == t.query.method = "blockNumber" /\ Cardinality(Answered(t, "ok")) >= needed
    IN  /\ Running(c) /\ t.wave = {}
        /\ IF t.queue # <<>> /\ ~enough
           THEN StartWave(c, t)
           ELSE /\ task' = [task EXCEPT ![c] = Settled(t, Exhausted(t))]
                /\ UNCHANGED <<health, admission, flight, pin, scene>>

\* An endpoint of another chain is put aside for good.
Admit(h, e) == [h EXCEPT !.quarantined = @ \/ e \notin scene.chain]

\* HttpRpcTransport.request: the headers of an answer have come.  They end the
\* timer that would abort the exchange; its body is awaited without one.
Headers(c, e) ==
    /\ flight[c][e] = "sent"
    /\ flight' = [flight EXCEPT ![c][e] = "reading"]
    /\ UNCHANGED <<health, admission, task, pin, scene>>

AdmissionHeaders(e) ==
    /\ admission[e] = "asking"
    /\ admission' = [admission EXCEPT ![e] = "reading"]
    /\ UNCHANGED <<health, flight, task, pin, scene>>

\* Without headers an exchange can only fail, and does when its timer runs out.
Endings(state, method) == IF state = "reading" THEN Exchange[method] ELSE {"transport"}

\* ensureAdmitted: the answer to eth_chainId, shared by all who wait for it.
Admission(e) ==
    /\ admission[e] \in {"asking", "reading"}
    /\ \E class \in Endings(admission[e], "chainId"), wait \in RetryAfter :
         LET admitted == class = "ok" /\ e \in scene.chain
             asked(c) == flight[c][e] = "waiting"
         IN  /\ health' = [health EXCEPT ![e] =
                   IF class = "ok" THEN Admit(RecordSuccess(@), e)
                   ELSE RecordFailure(@, class, wait)]
             /\ admission' = [admission EXCEPT ![e] = IF admitted THEN "admitted" ELSE "none"]
             /\ flight' = [c \in Client |-> [flight[c] EXCEPT ![e] =
                   IF ~asked(c) THEN @ ELSE IF admitted THEN "sent" ELSE "idle"]]
             /\ task' = [c \in Client |->
                   IF asked(c) /\ ~admitted /\ e \in task[c].wave
                   THEN [task[c] EXCEPT !.wave = @ \ {e}, !.answers[e] = Failed] ELSE task[c]]
    /\ UNCHANGED <<pin, scene>>

\* invoke: the endpoint's answer.  A request that another endpoint has decided
\* meanwhile ignores it, its circuit does not.
Answer(c, e) ==
    /\ flight[c][e] \in {"sent", "reading"}
    /\ \E class \in Endings(flight[c][e], task[c].query.method), height \in Height, wait \in RetryAfter :
         LET t       == task[c]
             answer  == IF class \in {"ok", "malformed", "alreadyKnown"}
                        THEN [class |-> class, height |-> height] ELSE Failed
             decides == ~(Collects(t.query) /\ c \notin Session)
                        /\ class \in Terminal \union {"ok", "malformed", "alreadyKnown"}
             result  == IF class = "ok" \/ (class = "alreadyKnown" /\ t.query.method = "sendRaw")
                        THEN "ok" ELSE "error"
         IN  /\ height = 0 \/ (class = "ok" /\ t.query.method = "blockNumber")
             /\ class = "rateLimited" \/ wait = 0
             /\ health' = [health EXCEPT ![e] = Recorded(@, t.query, class, height, wait)]
             /\ flight' = [flight EXCEPT ![c][e] = "idle"]
             /\ IF e \notin t.wave THEN UNCHANGED <<task, pin>>
                ELSE /\ task' = [task EXCEPT ![c] =
                           IF decides THEN Settled(t, result)
                           ELSE [t EXCEPT !.answers[e] = answer, !.wave = @ \ {e}]]
                     /\ pin' = IF c \in Session /\ class \in {"ok", "malformed"} THEN [pin EXCEPT ![c] = e] ELSE pin
    /\ UNCHANGED <<admission, scene>>

\* Time passes for the cooldowns.
Tick ==
    /\ \E e \in Endpoint : health[e].cooldown > 0
    /\ health' = [e \in Endpoint |-> [health[e] EXCEPT !.cooldown = IF @ > 0 THEN @ - 1 ELSE 0]]
    /\ UNCHANGED <<admission, flight, task, pin, scene>>

Next ==
    \/ \E c \in Client, q \in Query : Ask(c, q) \/ Refused(c, q)
    \/ \E c \in Client : NextWave(c)
    \/ \E e \in Endpoint : AdmissionHeaders(e) \/ Admission(e)
    \/ \E c \in Client, e \in Endpoint : Headers(c, e) \/ Answer(c, e)
    \/ Tick

Spec == Init /\ [][Next]_vars

\* An exchange without headers gets them or is aborted by its timer, and promises
\* that are settled are continued.  Nothing makes the body of an answer come.
FairSpec ==
    /\ Spec
    /\ WF_vars(Tick)
    /\ \A c \in Client : WF_vars(NextWave(c))
    /\ \A e \in Endpoint : WF_vars(admission[e] = "asking" /\ (AdmissionHeaders(e) \/ Admission(e)))
    /\ \A c \in Client, e \in Endpoint :
         WF_vars(flight[c][e] = "sent" /\ (Headers(c, e) \/ Answer(c, e)))

(***************************************************************************)
(* Properties.                                                             *)
(***************************************************************************)
TypeOK ==
    /\ health \in [Endpoint -> Health]
    /\ admission \in [Endpoint -> {"none", "asking", "reading", "admitted"}]
    /\ flight \in [Client -> [Endpoint -> {"idle", "waiting", "sent", "reading"}]]
    /\ pin \in [Client -> Endpoint \union {None}]
    /\ \A c \in Client :
         /\ task[c].query \in Query \union {None} /\ task[c].wave \subseteq Endpoint
         /\ task[c].answers \in [Endpoint -> Outcome] /\ task[c].result \in {"none", "ok", "error"}

\* A half-open circuit lets one probe through and waits for it: while the flag
\* is up a request to that endpoint must be in flight whose answer, or its
\* failed admission, takes the flag down.  Otherwise the endpoint, correct or
\* not, would never be selected again.  Answers of older requests, shared
\* admissions and requests refused by the circuit all pass between.
ProbeIsAlive ==
    TypeOK /\ \A e \in Endpoint : health[e].probing =>
        \/ admission[e] \in {"asking", "reading"}
        \/ \E c \in Client : flight[c][e] \in {"sent", "reading"}

\* More than half of the endpoints that answered have reached the block number
\* the pool reports, however few of the wave answered and in whatever order:
\* with a minority of wrong answers the scan neither runs ahead of the chain
\* nor is held behind it.
HeightIsVouched ==
    \A c \in Client \ Session :
        LET t == task[c]  got == Answered(t, "ok")
            h == Median(t.answers, got)
        IN  Running(c) /\ t.query.method = "blockNumber" /\ t.wave = {} /\ got # {} =>
              /\ 2 * Cardinality({e \in got : t.answers[e].height >= h}) > Cardinality(got)
              /\ 2 * Cardinality({e \in got : t.answers[e].height <= h}) >= Cardinality(got)

\* A request fails only when nothing useful came back: no endpoint has answered
\* it, and no endpoint has taken the transaction or knows it already.  A caller
\* told of a failure signs again, so an accepted broadcast must not be lost
\* behind the refusals of the others.  One answer can hide the others, and it
\* does: a malformed hash from the best ranked endpoint that took it.
FailsOnlyUnanswered ==
    \A c \in Client : Running(c) /\ task'[c].result = "error" =>
        \/ Garbled(task[c])
        \/ /\ Answered(task[c], "ok") = {}
           /\ task[c].query.method = "sendRaw" => Answered(task[c], "alreadyKnown") = {}

AnswersAreNotLost == [][FailsOnlyUnanswered]_vars

\* The request waits for the body of an answer of this endpoint: of its own
\* exchange, or of the admission it stands behind.
AwaitsBody(c, e) ==
    /\ Running(c) /\ e \in task[c].wave
    /\ flight[c][e] = "reading" \/ (flight[c][e] = "waiting" /\ admission[e] = "reading")

\* Every request ends, whatever the endpoints answer and whoever else asks, but
\* for one that waits for ever for the body of one answer: time-outs cover all
\* of an exchange except that.
RequestsEnd == \A c \in Client : []<>~Running(c) \/ \E e \in Endpoint : <>[]AwaitsBody(c, e)

\* The probe of a half-open circuit waits for the body of an answer.
ProbeAwaitsBody(e) ==
    /\ health[e].probing
    /\ admission[e] = "reading" \/ \E c \in Client : flight[c][e] = "reading"

\* An endpoint of the right chain is never given up: it can be selected again
\* and again, unless the body that its probe waits for never comes.
EndpointsReturn ==
    \A e \in Endpoint : []<>(e \in scene.chain => CanSelect(health[e])) \/ <>[]ProbeAwaitsBody(e)
=============================================================================
